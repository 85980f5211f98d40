------------------------- MODULE SyncSessionProofs -------------------------
(***************************************************************************)
(* What holds of a session of AdbSync for any number of operations of any  *)
(* kind and queues of any length, failing and ended as they may:           *)
(*   - the promise chain is a lock that serves its callers in the order of *)
(*     their calls: SyncSession implements SessionLock (ChainInv);         *)
(*   - types (TInv), and the end of the stream: a pull() that was handed   *)
(*     null does not succeed (ClosedIdle, NullInv);                        *)
(*   - the exchange: until an operation is left half way, what is under    *)
(*     way belongs to the operation that has the session, in the order of  *)
(*     the protocol, so each reads its own replies and adbd is sent whole  *)
(*     files (Exchange, one lemma per action).                             *)
(***************************************************************************)
EXTENDS SyncSession, TLAPS

Places == {"idle", "queued"} \cup Holding \cup Over

Called == {op \in Ops : pc[op] # "idle"}

\* The promise an operation was chained to stands for every earlier call, and
\* an operation that has started has only finished operations before it.
ChainInv ==
    /\ pc \in [Ops -> Places] /\ before \in [Ops -> SUBSET Ops]
    /\ busy \in Ops \cup {None} /\ prev \in [Ops -> Ops \cup {None}]
    /\ IF busy = None THEN Called = {} ELSE Called = before[busy] \cup {busy}
    /\ \A op \in Ops : before[op] \subseteq Called
    /\ \A op \in Called :
         IF prev[op] = None THEN before[op] = {}
         ELSE before[op] = before[prev[op]] \cup {prev[op]}
    /\ \A a, b \in Called : a # b => a \in before[b] \/ b \in before[a]
    /\ \A op \in Ops : pc[op] \in Holding \cup Over =>
         \A o \in before[op] : pc[o] \in Over

\* Nothing was called yet.
LEMMA InitChain == Init => ChainInv
  BY NoneAssumption DEF Init, ChainInv, Called, Places

\* An operation that has the session moves on or gives it back.
Progress(op) == /\ pc[op] \in Holding
                /\ \E l \in Holding \cup Over : pc' = [pc EXCEPT ![op] = l]
                /\ UNCHANGED lockVars

\* What a step may do to the lock and to the operations: a call joins the
\* chain, an operation whose turn it is starts, one that has started moves on,
\* or nothing.
LEMMA LockSteps ==
    ASSUME [Next]_svars
    PROVE  \/ \E op \in Ops : Call(op) \/ Start(op) \/ Progress(op)
           \/ UNCHANGED <<pc, lockVars>>
<1>1. ASSUME NEW op \in Ops, OpStep(op) \/ SourceFails(op) \/ Resume(op) \/ Break(op)
      PROVE  Start(op) \/ Progress(op) \/ UNCHANGED <<pc, lockVars>>
  <2> USE DEF Goto, Progress, Holding, Over
  <2>1. CASE SendRequest(op)
    <3>1. AfterRequest(op) \in Holding
      BY DEF AfterRequest
    <3>2. QED
      BY <2>1, <3>1 DEF SendRequest
  <2>2. CASE RefuseDryRun(op)
    BY <2>2 DEF RefuseDryRun
  <2>3. CASE PushChunk(op)
    BY <2>3 DEF PushChunk
  <2>4. CASE PushDone(op)
    BY <2>4 DEF PushDone
  <2>5. CASE WriteFails(op)
    BY <2>5 DEF WriteFails
  <2>6. CASE Quit(op)
    BY <2>6 DEF Quit
  <2>7. CASE TakeReply(op)
    <3>1. /\ pc[op] \in Holding /\ UNCHANGED lockVars
          /\ \/ Goto(op, "body") \/ Goto(op, pc[op])
             \/ Goto(op, "failed") \/ Goto(op, "done")
      BY <2>7 DEF TakeReply
    <3>2. QED
      BY <3>1
  <2>8. CASE TakeBody(op)
    BY <2>8 DEF TakeBody
  <2>9. CASE TakeJunk(op)
    BY <2>9 DEF TakeJunk, Reading
  <2>10. CASE TakeEof(op)
    BY <2>10 DEF TakeEof, Reading
  <2>11. CASE YieldNull(op)
    BY <2>11 DEF YieldNull
  <2>12. CASE SourceFails(op)
    BY <2>12 DEF SourceFails
  <2>13. CASE Resume(op)
    BY <2>13 DEF Resume
  <2>14. CASE Break(op)
    BY <2>14 DEF Break
  <2>15. QED
    BY <1>1, <2>1, <2>2, <2>3, <2>4, <2>5, <2>6, <2>7, <2>8, <2>9, <2>10, <2>11,
       <2>12, <2>13, <2>14, Zenon DEF OpStep
<1>2. CASE DevStep \/ DevStoreFails \/ DevHangUp \/ NoticeClose \/ Lose
  BY <1>2
     DEF DevStep, DevStat, DevBegin, DevQuit, DevEntry, DevBody, DevEnd, DevStore, DevStored,
         DevDrain, DevConfused, DevNoticeClose, DevStoreFails, DevHangUp, NoticeClose, Lose,
         hostVars
<1>3. CASE UNCHANGED svars
  BY <1>3 DEF svars, lockVars
<1>4. QED
  BY <1>1, <1>2, <1>3, Zenon DEF Next

\* An operation that moves on leaves the calls and their order alone, and what
\* was over stays over.
LEMMA ProgressChain ==
    ASSUME ChainInv, NEW op \in Ops, Progress(op)
    PROVE  ChainInv'
<1>1. PICK l \in Holding \cup Over : pc' = [pc EXCEPT ![op] = l]
  BY DEF Progress
<1>2. UNCHANGED <<busy, prev, before>> /\ pc[op] \in Holding
  BY DEF Progress, lockVars
<1>3. pc \in [Ops -> Places] /\ l \in Places /\ l # "idle" /\ pc[op] # "idle" /\ pc[op] \notin Over
  BY <1>2 DEF ChainInv, Places, Holding, Over
<1>4. pc' \in [Ops -> Places] /\ Called' = Called
  BY <1>1, <1>3 DEF Called
<1>5. \A o \in Ops : /\ pc[o] \in Over => pc'[o] \in Over
                     /\ pc'[o] \in Holding \cup Over => pc[o] \in Holding \cup Over
  BY <1>1, <1>2, <1>3
<1>6. QED
  BY <1>2, <1>4, <1>5 DEF ChainInv

\* An operation starts when its promise has resolved: the operation behind
\* the promise is over, so those before that one are too.
LEMMA StartChain ==
    ASSUME ChainInv, NEW op \in Ops, Start(op)
    PROVE  /\ ChainInv'
           /\ \A o \in before[op] : pc[o] \in Over
<1>1. /\ pc' = [pc EXCEPT ![op] = "request"] /\ pc[op] = "queued"
      /\ UNCHANGED <<busy, prev, before>>
      /\ prev[op] # None => pc[prev[op]] \in Over
  BY DEF Start, Goto, lockVars, Turn
<1>2. pc \in [Ops -> Places] /\ "request" \in Places /\ op \in Called
  BY <1>1 DEF ChainInv, Places, Holding, Called
<1>3. \A o \in before[op] : pc[o] \in Over
  <2>1. CASE prev[op] = None
    BY <1>2, <2>1 DEF ChainInv
  <2>2. CASE prev[op] # None
    <3>1. prev[op] \in Ops /\ pc[prev[op]] \in Over
      BY <1>1, <2>2 DEF ChainInv
    <3>2. \A o \in before[prev[op]] : pc[o] \in Over
      BY <3>1 DEF ChainInv
    <3>3. before[op] = before[prev[op]] \cup {prev[op]}
      BY <1>2, <2>2 DEF ChainInv
    <3>4. QED
      BY <3>1, <3>2, <3>3
  <2>3. QED
    BY <2>1, <2>2
<1>4. pc' \in [Ops -> Places] /\ Called' = Called
  BY <1>1, <1>2 DEF Called
<1>5. \A o \in Ops : /\ pc[o] \in Over => pc'[o] \in Over
                     /\ o # op => pc'[o] = pc[o]
  BY <1>1, <1>2 DEF Over
<1>6. \A o \in Ops : pc'[o] \in Holding \cup Over => \A q \in before[o] : pc'[q] \in Over
  <2>1. \A o \in Ops : before[o] \subseteq Ops
    BY DEF ChainInv
  <2>2. QED
    BY <1>3, <1>5, <2>1 DEF ChainInv
<1>7. QED
  BY <1>1, <1>3, <1>4, <1>6 DEF ChainInv

\* A call is chained to the promise of the last call before it.
LEMMA CallChain ==
    ASSUME ChainInv, NEW op \in Ops, Call(op)
    PROVE  /\ ChainInv' /\ op \notin Called
           /\ before' = [before EXCEPT ![op] = Called]
<1>1. /\ pc' = [pc EXCEPT ![op] = "queued"] /\ pc[op] = "idle"
      /\ prev' = [prev EXCEPT ![op] = busy] /\ busy' = op
      /\ before' = [before EXCEPT ![op] = Called]
  BY DEF Call, Goto, Chain, Called
<1>2. /\ pc \in [Ops -> Places] /\ "queued" \in Places /\ "queued" # "idle"
      /\ Called \subseteq Ops /\ op \notin Called /\ op # None
      /\ "queued" \notin Holding \cup Over
  BY <1>1, NoneAssumption DEF ChainInv, Places, Holding, Over, Called
<1>3. /\ pc' \in [Ops -> Places] /\ Called' = Called \cup {op}
      /\ \A o \in Ops \ {op} : pc'[o] = pc[o] /\ before'[o] = before[o] /\ prev'[o] = prev[o]
      /\ before'[op] = Called /\ prev'[op] = busy /\ pc'[op] = "queued"
  BY <1>1, <1>2 DEF ChainInv, Called
<1>4. /\ before' \in [Ops -> SUBSET Ops] /\ prev' \in [Ops -> Ops \cup {None}]
      /\ busy' \in Ops /\ busy' # None /\ Called' = before'[busy'] \cup {busy'}
  BY <1>1, <1>2, <1>3 DEF ChainInv
<1>5. \A o \in Ops : before'[o] \subseteq Called'
  BY <1>2, <1>3 DEF ChainInv
<1>6. \A o \in Called' : IF prev'[o] = None THEN before'[o] = {}
                         ELSE before'[o] = before'[prev'[o]] \cup {prev'[o]}
  <2>1. CASE busy = None
    BY <1>2, <1>3, <2>1 DEF ChainInv
  <2>2. ASSUME busy # None, NEW o \in Called'
        PROVE  IF prev'[o] = None THEN before'[o] = {}
               ELSE before'[o] = before'[prev'[o]] \cup {prev'[o]}
    <3>1. busy \in Called /\ Called = before[busy] \cup {busy}
      BY <2>2 DEF ChainInv
    <3>2. CASE o = op
      BY <1>2, <1>3, <2>2, <3>1, <3>2
    <3>3. CASE o # op
      <4>1. o \in Called /\ before[o] \subseteq Called /\ o \in Ops
        BY <1>2, <1>3, <2>2, <3>3 DEF ChainInv
      <4>2. IF prev[o] = None THEN before[o] = {}
            ELSE before[o] = before[prev[o]] \cup {prev[o]}
        BY <4>1 DEF ChainInv
      <4>3. prev[o] # None => prev[o] \in Called
        BY <4>1, <4>2
      <4>4. QED
        BY <1>2, <1>3, <3>3, <4>1, <4>2, <4>3
    <3>4. QED
      BY <3>2, <3>3
  <2>3. QED
    BY <2>1, <2>2
<1>7. \A a, b \in Called' : a # b => a \in before'[b] \/ b \in before'[a]
  BY <1>2, <1>3 DEF ChainInv
<1>8. \A o \in Ops : pc'[o] \in Holding \cup Over => \A q \in before'[o] : pc'[q] \in Over
  <2>1. ASSUME NEW o \in Ops, pc'[o] \in Holding \cup Over, NEW q \in before'[o]
        PROVE  pc'[q] \in Over
    <3>1. o # op /\ q \in before[o] /\ pc[o] \in Holding \cup Over
      BY <1>2, <1>3, <2>1
    <3>2. q \in Called /\ q \in Ops /\ q # op
      BY <1>2, <3>1 DEF ChainInv
    <3>3. QED
      BY <1>3, <3>1, <3>2 DEF ChainInv
  <2>2. QED
    BY <2>1
<1>9. QED
  BY <1>1, <1>2, <1>3, <1>4, <1>5, <1>6, <1>7, <1>8 DEF ChainInv

\* The invariant is inductive.
LEMMA NextChain == ChainInv /\ [Next]_svars => ChainInv'
<1> SUFFICES ASSUME ChainInv, [Next]_svars PROVE ChainInv'
  OBVIOUS
<1>1. CASE UNCHANGED <<pc, lockVars>>
  BY <1>1 DEF ChainInv, Called, lockVars
<1>2. QED
  BY <1>1, LockSteps, CallChain, StartChain, ProgressChain, Zenon

\* Of two operations that have been called one comes before the other, and it
\* is over when the other has started.
LEMMA ChainExclusive == ChainInv => Exclusive
<1> SUFFICES ASSUME ChainInv, NEW a \in Ops, NEW b \in Ops,
                    pc[a] \in Holding, pc[b] \in Holding, a # b
             PROVE  FALSE
  BY DEF Exclusive
<1>1. a \in Called /\ b \in Called /\ pc[a] \notin Over /\ pc[b] \notin Over
  BY DEF Called, Holding, Over
<1>2. a \in before[b] \/ b \in before[a]
  BY <1>1 DEF ChainInv
<1>3. QED
  BY <1>1, <1>2 DEF ChainInv

\* "One operation must finish before the next begins" (sync.js): at no time do
\* two operations have the session, for any operations called in any order.
THEOREM OneAtATime == Spec => []Exclusive
<1>1. QED
  BY InitChain, NextChain, ChainExclusive, PTL DEF Spec

-----------------------------------------------------------------------------
(* The refinement                                                          *)

Holder == IF Holders = {} THEN None ELSE CHOOSE op \in Holders : TRUE

\* While an operation has the session it is the one the refinement maps to
\* the holder.
LEMMA TheHolder ==
    ASSUME Exclusive, NEW op \in Ops, pc[op] \in Holding
    PROVE  Holder = op
<1>1. Holders = {op}
  BY DEF Exclusive, Holders
<1>2. QED
  BY <1>1 DEF Holder

\* While none has it the lock is free.
LEMMA NoHolder ==
    ASSUME \A op \in Ops : pc[op] \notin Holding
    PROVE  Holder = None
  BY DEF Holder, Holders

Finished == {op \in Ops : pc[op] \in Over}

\* A call of the application asks the lock for the session.
LEMMA CallRequests ==
    ASSUME ChainInv, NEW op \in Ops, Call(op)
    PROVE  Lock!Request(op)
<1>1. /\ op \notin Called /\ before' = [before EXCEPT ![op] = Called]
      /\ pc' = [pc EXCEPT ![op] = "queued"] /\ pc[op] = "idle" /\ pc \in [Ops -> Places]
  BY CallChain DEF Call, Goto, ChainInv
<1>2. /\ Called' = Called \cup {op} /\ Holders' = Holders /\ Finished' = Finished
  BY <1>1 DEF Called, Holders, Finished, Holding, Over
<1>3. Holder' = Holder
  BY <1>2 DEF Holder
<1>4. QED
  BY <1>1, <1>2, <1>3 DEF Lock!Request, Called, Holder, Finished

\* An operation that starts is granted the free session, and every call
\* before its own has given it back.
LEMMA StartGrants ==
    ASSUME ChainInv, NEW op \in Ops, Start(op)
    PROVE  Lock!Grant(op)
<1>1. /\ pc' = [pc EXCEPT ![op] = "request"] /\ pc[op] = "queued"
      /\ UNCHANGED before /\ pc \in [Ops -> Places]
      /\ before \in [Ops -> SUBSET Ops]
  BY DEF Start, Goto, lockVars, ChainInv
<1>2. before[op] \subseteq Finished
  BY <1>1, StartChain DEF Finished
<1>3. Holder = None
  <2>1. ASSUME NEW h \in Ops, pc[h] \in Holding PROVE FALSE
    <3>1. h \in Called /\ op \in Called /\ h # op /\ pc[h] \notin Over /\ pc[op] \notin Over
      BY <1>1, <2>1 DEF Called, Holding, Over
    <3>2. h \in before[op] \/ op \in before[h]
      BY <3>1 DEF ChainInv
    <3>3. QED
      BY <1>2, <2>1, <3>1, <3>2 DEF ChainInv, Finished
  <2>2. QED
    BY <2>1, NoHolder
<1>4. Holder' = op
  <2>1. Exclusive'
    BY StartChain, ChainExclusive, PTL
  <2>2. pc'[op] \in Holding
    BY <1>1 DEF Holding
  <2>3. Holders' = {op}
    BY <2>1, <2>2 DEF Exclusive, Holders
  <2>4. QED
    BY <2>3 DEF Holder
<1>5. /\ Called' = Called /\ Finished' = Finished
      /\ op \in Called \ Finished
  BY <1>1 DEF Called, Finished, Over
<1>6. QED
  BY <1>1, <1>2, <1>3, <1>4, <1>5 DEF Lock!Grant, Called, Holder, Finished

\* An operation that moves on keeps the session or gives it back.
LEMMA ProgressReleases ==
    ASSUME ChainInv, NEW op \in Ops, Progress(op)
    PROVE  Lock!Release(op) \/ UNCHANGED Lock!lvars
<1>1. PICK l \in Holding \cup Over : pc' = [pc EXCEPT ![op] = l]
  BY DEF Progress
<1>2. /\ UNCHANGED before /\ pc[op] \in Holding /\ pc \in [Ops -> Places]
      /\ Holding \cap Over = {} /\ "idle" \notin Holding \cup Over
  BY DEF Progress, lockVars, ChainInv, Holding, Over
<1>3. Called' = Called
  BY <1>1, <1>2 DEF Called
<1>4. Holders = {op} /\ Holder = op
  BY <1>2, ChainExclusive, TheHolder DEF Exclusive, Holders
<1>5. CASE l \in Holding
  <2>1. Holders' = Holders /\ Finished' = Finished
    BY <1>1, <1>2, <1>5 DEF Holders, Finished
  <2>2. Holder' = Holder
    BY <2>1 DEF Holder
  <2>3. QED
    BY <1>2, <1>3, <2>1, <2>2 DEF Lock!lvars, Called, Holder, Finished
<1>6. CASE l \in Over
  <2>1. Holders' = {} /\ Finished' = Finished \cup {op}
    BY <1>1, <1>2, <1>4, <1>6 DEF Holders, Finished
  <2>2. Holder' = None
    BY <2>1 DEF Holder
  <2>3. QED
    BY <1>2, <1>3, <1>4, <2>1, <2>2 DEF Lock!Release, Called, Holder, Finished
<1>7. QED
  BY <1>1, <1>5, <1>6

\* The initial state of the session is that of a lock nobody asked for.
LEMMA InitLock == Init => Lock!Init
<1> SUFFICES ASSUME Init PROVE Lock!Init
  OBVIOUS
<1>1. Called = {} /\ Holders = {} /\ Finished = {} /\ before = [op \in Ops |-> {}]
  BY DEF Init, Called, Holders, Finished, Holding, Over
<1>2. QED
  BY <1>1 DEF Lock!Init, Called, Holders, Finished

\* Every step of the session is a step of the lock or leaves it alone.
LEMMA StepLock == ChainInv /\ [Next]_svars => [Lock!Next]_(Lock!lvars)
<1> SUFFICES ASSUME ChainInv, [Next]_svars PROVE [Lock!Next]_(Lock!lvars)
  OBVIOUS
<1>1. CASE UNCHANGED <<pc, lockVars>>
  <2>1. UNCHANGED <<pc, before>>
    BY <1>1 DEF lockVars
  <2>2. Called' = Called /\ Finished' = Finished /\ Holders' = Holders
    BY <2>1 DEF Called, Finished, Holders
  <2>3. QED
    BY <2>1, <2>2 DEF Lock!lvars, Called, Finished, Holders
<1>2. ASSUME NEW op \in Ops, Call(op) \/ Start(op) \/ Progress(op)
      PROVE  [Lock!Next]_(Lock!lvars)
  BY <1>2, CallRequests, StartGrants, ProgressReleases DEF Lock!Next
<1>3. QED
  BY <1>1, <1>2, LockSteps, Zenon

\* The promise chain of #serialize and #acquire implements the lock: the
\* session is handed over one operation at a time in the order of the calls.
THEOREM ChainIsALock == Spec => ServesInOrder
<1>1. QED
  BY InitChain, NextChain, InitLock, StepLock, PTL DEF Spec, ServesInOrder, Lock!Spec

-----------------------------------------------------------------------------
(* Types                                                                   *)

Active == Holding \ {"request"}

\* What TypeOK leaves open: adbd serves somebody when it serves, nothing is
\* served behind its A_CLSE, and a failed connection is closed.
TInv ==
    /\ TypeOK
    /\ dev.mode # "idle" => dev.op \in Ops
    /\ \A op \in Ops : pc[op] = "reply" => Kind[op] \in {"stat", "list", "push"}
    /\ hungUp => dev.mode = "idle"
    /\ lost => closed

\* Nothing has been called and nothing is on its way.
LEMMA InitTypes == Init => TInv
<1> SUFFICES ASSUME Init PROVE TInv
  OBVIOUS
<1>1. /\ \A op \in Ops : pc[op] = "idle"
      /\ pc \in [Ops -> {"idle", "queued"} \cup Holding \cup Over]
      /\ dev = Idle /\ hungUp = FALSE /\ lost = FALSE
  BY DEF Init
<1>2. dev \in [mode : {"idle", "LIST", "RECV", "BODY", "SEND", "drain"}, op : Ops \cup {None},
               n : 0..MaxFrames] /\ dev.mode = "idle"
  BY <1>1, CapAssumption DEF Idle
<1>3. sent \in [Ops -> 0..MaxFrames] /\ toDevice \in Seq(FrameType) /\ toHost \in Seq(FrameType)
  BY CapAssumption DEF Init
<1>4. TypeOK
  BY <1>1, <1>2, <1>3 DEF Init, TypeOK
<1>5. QED
  BY <1>1, <1>2, <1>4 DEF TInv

\* An operation at a new place that is one of its kind leaves the types of
\* the operations intact.
LEMMA MoveTypes ==
    ASSUME TInv, NEW op \in Ops, NEW l \in {"idle", "queued"} \cup Holding \cup Over,
           pc' = [pc EXCEPT ![op] = l],
           l \in {"header", "body", "yielded"} => Kind[op] = "pull",
           l = "source" => Kind[op] = "push",
           l = "left" => Kind[op] \in {"pull", "push"},
           l = "reply" => Kind[op] \in {"stat", "list", "push"}
    PROVE  /\ pc' \in [Ops -> {"idle", "queued"} \cup Holding \cup Over]
           /\ \A o \in Ops : /\ pc'[o] \in {"header", "body", "yielded"} => Kind[o] = "pull"
                             /\ pc'[o] = "source" => Kind[o] = "push"
                             /\ pc'[o] = "left" => Kind[o] \in {"pull", "push"}
                             /\ pc'[o] = "reply" => Kind[o] \in {"stat", "list", "push"}
<1>1. pc \in [Ops -> {"idle", "queued"} \cup Holding \cup Over]
  BY DEF TInv, TypeOK
<1>2. \A o \in Ops : pc'[o] = IF o = op THEN l ELSE pc[o]
  BY <1>1
<1>3. pc' \in [Ops -> {"idle", "queued"} \cup Holding \cup Over]
  BY <1>1
<1>4. \A o \in Ops : /\ pc[o] \in {"header", "body", "yielded"} => Kind[o] = "pull"
                     /\ pc[o] = "source" => Kind[o] = "push"
                     /\ pc[o] = "left" => Kind[o] \in {"pull", "push"}
                     /\ pc[o] = "reply" => Kind[o] \in {"stat", "list", "push"}
  BY DEF TInv, TypeOK
<1>5. QED
  BY <1>2, <1>3, <1>4

\* A frame of an operation that is written is one adbd knows.
LEMMA WriteTypes ==
    ASSUME TInv, NEW f \in FrameType, Write(f)
    PROVE  toDevice' \in Seq(FrameType)
  BY DEF TInv, TypeOK, Write

\* The host reads only frames.
LEMMA ReadTypes ==
    ASSUME TInv, toHost # <<>>
    PROVE  Head(toHost) \in FrameType /\ Tail(toHost) \in Seq(FrameType)
  BY DEF TInv, TypeOK

\* A call and the start of an operation.
LEMMA CallTypes ==
    ASSUME TInv, NEW op \in Ops, Call(op) \/ Start(op)
    PROVE  TInv'
<1>1. PICK l \in {"queued", "request"} : pc' = [pc EXCEPT ![op] = l]
  BY DEF Call, Start, Goto
<1>2. UNCHANGED <<sent, closed, lost, hungUp, toDevice, toHost, aligned, dev, sources, nulls>>
  BY DEF Call, Start, streamVars, readVars
<1>3. /\ busy' \in Ops \cup {None} /\ prev' \in [Ops -> Ops \cup {None}]
      /\ before' \in [Ops -> SUBSET Ops]
  <2>1. CASE Call(op)
    BY <2>1 DEF Call, Chain, TInv, TypeOK
  <2>2. CASE Start(op)
    BY <2>2 DEF Start, lockVars, TInv, TypeOK
  <2>3. QED
    BY <2>1, <2>2
<1>4. l \in {"idle", "queued"} \cup Holding \cup Over
  BY DEF Holding
<1>5. QED
  BY <1>1, <1>2, <1>3, <1>4, MoveTypes DEF TInv, TypeOK

\* The steps in which an operation writes.
LEMMA WriterTypes ==
    ASSUME TInv, NEW op \in Ops,
           SendRequest(op) \/ RefuseDryRun(op) \/ PushChunk(op) \/ PushDone(op)
             \/ WriteFails(op) \/ Quit(op) \/ SourceFails(op)
    PROVE  TInv'
<1>1. CASE SendRequest(op)
  <2>1. Frame(RequestId[Kind[op]], op) \in FrameType
    BY KindAssumption DEF RequestId, Frame, FrameType, Requests
  <2>2. toDevice' \in Seq(FrameType)
    BY <1>1, <2>1, WriteTypes DEF SendRequest
  <2>3. /\ pc' = [pc EXCEPT ![op] = AfterRequest(op)] /\ Kind[op] # "close"
        /\ UNCHANGED <<lockVars, sent, streamVars, toHost, readVars, dev>>
    BY <1>1 DEF SendRequest, Goto
  <2>4. /\ AfterRequest(op) \in {"source", "header", "reply"}
        /\ AfterRequest(op) = "source" => Kind[op] = "push"
        /\ AfterRequest(op) = "header" => Kind[op] = "pull"
        /\ AfterRequest(op) = "reply" => Kind[op] \in {"stat", "list", "push"}
    BY <2>3, KindAssumption DEF AfterRequest
  <2>5. AfterRequest(op) \in {"idle", "queued"} \cup Holding \cup Over
    BY <2>4 DEF Holding
  <2>6. QED
    BY <2>2, <2>3, <2>4, <2>5, MoveTypes DEF TInv, TypeOK, lockVars, streamVars, readVars
<1>2. CASE RefuseDryRun(op) \/ WriteFails(op)
  <2>1. /\ pc' = [pc EXCEPT ![op] = "failed"]
        /\ UNCHANGED <<lockVars, sent, streamVars, toDevice, toHost, readVars, dev>>
    BY <1>2 DEF RefuseDryRun, WriteFails, Goto
  <2>2. "failed" \in {"idle", "queued"} \cup Holding \cup Over
    BY DEF Over
  <2>3. QED
    BY <2>1, <2>2, MoveTypes DEF TInv, TypeOK, lockVars, streamVars, readVars
<1>3. CASE PushChunk(op)
  <2>1. Frame("DATA", op) \in FrameType
    BY DEF Frame, FrameType
  <2>2. toDevice' \in Seq(FrameType)
    BY <1>3, <2>1, WriteTypes DEF PushChunk
  <2>3. sent' \in [Ops -> 0..MaxFrames]
    <3>1. sent \in [Ops -> 0..MaxFrames] /\ MaxFrames \in Nat
      BY CapAssumption DEF TInv, TypeOK
    <3>2. sent[op] < MaxFrames /\ sent' = [sent EXCEPT ![op] = @ + 1]
      BY <1>3 DEF PushChunk
    <3>3. sent[op] + 1 \in 0..MaxFrames
      BY <3>1, <3>2
    <3>4. QED
      BY <3>1, <3>2, <3>3
  <2>4. QED
    BY <1>3, <2>2, <2>3 DEF PushChunk, TInv, TypeOK, lockVars, streamVars, readVars
<1>4. CASE PushDone(op)
  <2>1. Frame("DONE", op) \in FrameType
    BY DEF Frame, FrameType
  <2>2. toDevice' \in Seq(FrameType)
    BY <1>4, <2>1, WriteTypes DEF PushDone
  <2>3. /\ pc' = [pc EXCEPT ![op] = "reply"] /\ Kind[op] = "push"
        /\ UNCHANGED <<lockVars, sent, streamVars, toHost, readVars, dev>>
    BY <1>4 DEF PushDone, Goto, TInv, TypeOK
  <2>4. "reply" \in {"idle", "queued"} \cup Holding \cup Over
    BY DEF Holding
  <2>5. QED
    BY <2>2, <2>3, <2>4, MoveTypes DEF TInv, TypeOK, lockVars, streamVars, readVars
<1>5. CASE SourceFails(op)
  <2>1. /\ pc' = [pc EXCEPT ![op] = "left"] /\ Kind[op] = "push"
        /\ UNCHANGED <<lockVars, sent, streamVars, toDevice, toHost, readVars, dev>>
    BY <1>5 DEF SourceFails, Goto, TInv, TypeOK
  <2>2. "left" \in {"idle", "queued"} \cup Holding \cup Over
    BY DEF Over
  <2>3. QED
    BY <2>1, <2>2, MoveTypes DEF TInv, TypeOK, lockVars, streamVars, readVars
<1>6. CASE Quit(op)
  <2>1. Frame("QUIT", op) \in FrameType
    BY DEF Frame, FrameType, Requests
  <2>2. toDevice' \in Seq(FrameType)
    BY <1>6, <2>1, WriteTypes DEF Quit, TInv, TypeOK
  <2>3. /\ pc' = [pc EXCEPT ![op] = "done"] /\ closed' = TRUE
        /\ UNCHANGED <<lockVars, sent, lost, hungUp, toHost, readVars, dev>>
    BY <1>6 DEF Quit, Goto
  <2>4. "done" \in {"idle", "queued"} \cup Holding \cup Over
    BY DEF Over
  <2>5. QED
    BY <2>2, <2>3, <2>4, MoveTypes DEF TInv, TypeOK, lockVars, readVars
<1>7. QED
  BY <1>1, <1>2, <1>3, <1>4, <1>5, <1>6

\* The steps in which an operation reads, or is left by its consumer.
LEMMA ReaderTypes ==
    ASSUME TInv, NEW op \in Ops,
           TakeReply(op) \/ TakeBody(op) \/ TakeJunk(op) \/ TakeEof(op) \/ YieldNull(op)
             \/ Resume(op) \/ Break(op)
    PROVE  TInv'
<1>0. \A o \in Ops : pc[o] \in {"header", "body", "yielded"} => Kind[o] = "pull"
  BY DEF TInv, TypeOK
<1>1. CASE TakeReply(op)
  <2>1. toHost # <<>> /\ toHost' = Tail(toHost) /\ Head(toHost) \in FrameType
    BY <1>1, ReadTypes DEF TakeReply
  <2>2. toHost' \in Seq(FrameType)
    BY <2>1, ReadTypes
  <2>3. sources' \in [Ops -> SUBSET Ops]
    <3>1. sources' = [sources EXCEPT ![op] = @ \cup {Head(toHost).op}]
      BY <1>1 DEF TakeReply
    <3>2. Head(toHost).op \in Ops
      BY <2>1 DEF FrameType
    <3>3. QED
      BY <3>1, <3>2 DEF TInv, TypeOK
  <2>4. aligned' \in BOOLEAN
    <3>1. Fits(op, Head(toHost)) \in BOOLEAN
      BY DEF Fits
    <3>2. QED
      BY <1>1, <3>1 DEF TakeReply, TInv, TypeOK
  <2>5. UNCHANGED <<lockVars, sent, streamVars, toDevice, nulls, dev>>
    BY <1>1 DEF TakeReply
  <2>6. PICK l : /\ pc' = [pc EXCEPT ![op] = l]
                 /\ \/ l \in {"failed", "done"}
                    \/ l = "body" /\ Kind[op] = "pull"
                    \/ l = pc[op] /\ pc[op] \in {"reply", "header"}
    <3>1. PICK l : /\ pc' = [pc EXCEPT ![op] = l]
                   /\ \/ l \in {"failed", "done"}
                      \/ l = "body" /\ Head(toHost).id = "DATA" /\ Head(toHost).id \in More(Kind[op])
                      \/ l = pc[op] /\ pc[op] \in {"reply", "header"}
      <4>1. CASE Head(toHost).id \in More(Kind[op])
                 /\ Goto(op, IF Head(toHost).id = "DATA" THEN "body" ELSE pc[op])
        BY <1>1, <4>1 DEF TakeReply, Goto
      <4>2. CASE \E l \in {"failed", "done"} : Goto(op, l)
        BY <4>2 DEF Goto
      <4>3. QED
        BY <1>1, <4>1, <4>2 DEF TakeReply
    <3>2. "DATA" \in More(Kind[op]) => Kind[op] = "pull"
      BY KindAssumption DEF More
    <3>3. QED
      BY <3>1, <3>2
  <2>7. l \in {"idle", "queued"} \cup Holding \cup Over
    BY <2>6 DEF Holding, Over
  <2>8. /\ l \in {"header", "body", "yielded"} => Kind[op] = "pull"
        /\ l \notin {"source", "left"}
        /\ l = "reply" => Kind[op] \in {"stat", "list", "push"}
    BY <1>0, <2>6 DEF TInv
  <2>9. QED
    BY <2>2, <2>3, <2>4, <2>5, <2>6, <2>7, <2>8, MoveTypes DEF TInv, TypeOK, lockVars, streamVars
<1>2. CASE TakeBody(op) \/ TakeJunk(op)
  <2>1. toHost' \in Seq(FrameType)
    BY <1>2, ReadTypes DEF TakeBody, TakeJunk
  <2>2. PICK l \in {"yielded", "failed"} : /\ pc' = [pc EXCEPT ![op] = l]
                                           /\ l = "yielded" => Kind[op] = "pull"
    BY <1>0, <1>2 DEF TakeBody, TakeJunk, Goto
  <2>3. UNCHANGED <<lockVars, sent, streamVars, toDevice, readVars, dev>>
    BY <1>2 DEF TakeBody, TakeJunk
  <2>4. l \in {"idle", "queued"} \cup Holding \cup Over
    BY DEF Holding, Over
  <2>5. QED
    BY <2>1, <2>2, <2>3, <2>4, MoveTypes DEF TInv, TypeOK, lockVars, streamVars, readVars
<1>3. CASE TakeEof(op) \/ YieldNull(op) \/ Resume(op) \/ Break(op)
  <2>1. PICK l \in {"yielded", "failed", "header", "left"} :
          pc' = [pc EXCEPT ![op] = l] /\ (l # "failed" => Kind[op] = "pull")
    BY <1>0, <1>3 DEF TakeEof, YieldNull, Resume, Break, Goto
  <2>2. /\ UNCHANGED <<lockVars, sent, streamVars, toDevice, toHost, aligned, sources, dev>>
        /\ nulls' \subseteq nulls \cup {op}
    BY <1>3 DEF TakeEof, YieldNull, Resume, Break, readVars
  <2>3. l \in {"idle", "queued"} \cup Holding \cup Over
    BY DEF Holding, Over
  <2>4. nulls' \subseteq Ops
    BY <2>2 DEF TInv, TypeOK
  <2>5. QED
    BY <2>1, <2>2, <2>3, <2>4, MoveTypes DEF TInv, TypeOK, lockVars, streamVars
<1>4. QED
  BY <1>1, <1>2, <1>3

\* The end of the stream, by adbd, by close() or by the connection.
LEMMA EndTypes ==
    ASSUME TInv, NoticeClose \/ Lose \/ DevNoticeClose \/ DevHangUp
    PROVE  TInv'
<1>1. toHost' \in Seq(FrameType)
  <2>1. CASE Lose
    <3>1. PICK n \in 0..Len(toHost) : toHost' = SubSeq(toHost, 1, n)
      BY <2>1 DEF Lose
    <3>2. QED
      BY <3>1 DEF TInv, TypeOK
  <2>2. CASE ~Lose
    BY <2>2 DEF NoticeClose, DevNoticeClose, DevHangUp, hostVars, TInv, TypeOK
  <2>3. QED
    BY <2>1, <2>2
<1>2. /\ {closed', lost', hungUp'} \subseteq BOOLEAN
      /\ lost' => closed'
      /\ dev' = Idle \/ (UNCHANGED <<dev, hungUp>>)
      /\ toDevice' \in Seq(FrameType)
      /\ UNCHANGED <<lockVars, pc, sent, readVars>>
  <2>1. CASE NoticeClose
    BY <2>1 DEF NoticeClose, TInv, TypeOK
  <2>2. CASE Lose
    BY <2>2 DEF Lose, TInv, TypeOK
  <2>3. CASE DevNoticeClose \/ DevHangUp
    <3>1. /\ hungUp' = TRUE /\ dev' = Idle /\ toDevice' = <<>>
          /\ UNCHANGED <<lockVars, pc, sent, readVars>> /\ closed' = closed /\ lost' = lost
      BY <2>3 DEF DevNoticeClose, DevHangUp, hostVars
    <3>2. QED
      BY <3>1 DEF TInv, TypeOK
  <2>4. QED
    BY <2>1, <2>2, <2>3
<1>3. dev' \in [mode : {"idle", "LIST", "RECV", "BODY", "SEND", "drain"}, op : Ops \cup {None},
                n : 0..MaxFrames] /\ (dev'.mode # "idle" => dev'.op \in Ops)
      /\ (hungUp' => dev'.mode = "idle")
  BY <1>2, CapAssumption DEF Idle, TInv, TypeOK
<1>4. QED
  BY <1>1, <1>2, <1>3 DEF TInv, TypeOK, lockVars, readVars

\* adbd takes only frames, and sends only frames.
LEMMA DevTakeTypes ==
    ASSUME TInv, NEW mode, NEW ids, DevTake(mode, ids)
    PROVE  /\ Head(toDevice) \in FrameType /\ toDevice' \in Seq(FrameType)
           /\ Head(toDevice).id \in ids /\ Head(toDevice).op \in Ops /\ ~hungUp
           /\ dev.mode = mode
<1>1. toDevice \in Seq(FrameType) /\ toDevice # <<>>
  BY DEF TInv, TypeOK, DevTake
<1>2. Head(toDevice) \in FrameType /\ Tail(toDevice) \in Seq(FrameType)
  BY <1>1
<1>3. QED
  BY <1>2 DEF DevTake, FrameType

\* What adbd sends is on its way to the host as frames.
LEMMA EmitTypes ==
    ASSUME TInv, NEW f \in FrameType, Emit(f)
    PROVE  toHost' \in Seq(FrameType)
  BY DEF TInv, TypeOK, Emit

\* What the sync service does.
LEMMA DevTypes ==
    ASSUME TInv, DevStep \/ DevStoreFails, ~DevNoticeClose
    PROVE  TInv'
<1> DEFINE DevType == [mode : {"idle", "LIST", "RECV", "BODY", "SEND", "drain"},
                       op : Ops \cup {None}, n : 0..MaxFrames]
<1>0. dev \in DevType /\ MaxFrames \in Nat
  BY CapAssumption DEF TInv, TypeOK
<1>1. ASSUME UNCHANGED hostVars, hungUp' \in BOOLEAN, toDevice' \in Seq(FrameType),
             toHost' \in Seq(FrameType), dev' \in DevType, dev'.mode # "idle" => dev'.op \in Ops,
             hungUp' => dev'.mode = "idle"
      PROVE  TInv'
  BY <1>1 DEF hostVars, lockVars, readVars, TInv, TypeOK
<1>2. hungUp \in BOOLEAN /\ toDevice \in Seq(FrameType) /\ toHost \in Seq(FrameType)
      /\ (dev.mode # "idle" => dev.op \in Ops) /\ (hungUp => dev.mode = "idle")
  BY DEF TInv, TypeOK
<1>3. Idle \in DevType /\ Idle.mode = "idle"
  BY <1>0 DEF Idle
<1>4. CASE DevStat
  <2>1. toDevice' \in Seq(FrameType) /\ Head(toDevice) \in FrameType
    BY <1>4, DevTakeTypes DEF DevStat
  <2>2. toHost' \in Seq(FrameType)
    BY <1>4, <2>1, EmitTypes DEF DevStat
  <2>3. QED
    BY <1>0, <1>1, <1>2, <1>4, <2>1, <2>2 DEF DevStat
<1>5. CASE DevBegin
  <2>1. /\ toDevice' \in Seq(FrameType) /\ Head(toDevice).id \in {"LIST", "RECV", "SEND"}
        /\ Head(toDevice).op \in Ops /\ ~hungUp
    BY <1>5, DevTakeTypes DEF DevBegin
  <2>2. dev' = [mode |-> Head(toDevice).id, op |-> Head(toDevice).op, n |-> 0]
    BY <1>5 DEF DevBegin, Become
  <2>3. dev' \in DevType /\ dev'.op \in Ops
    BY <1>0, <2>1, <2>2
  <2>4. QED
    BY <1>1, <1>2, <1>5, <2>1, <2>3 DEF DevBegin
<1>6. CASE DevQuit
  <2>1. toDevice' \in Seq(FrameType) /\ dev.mode = "idle"
    BY <1>6, DevTakeTypes DEF DevQuit
  <2>2. QED
    BY <1>0, <1>1, <1>2, <1>6, <2>1 DEF DevQuit
<1>7. CASE DevEntry \/ DevBody
  <2>1. dev.op \in Ops /\ ~hungUp /\ UNCHANGED <<hostVars, hungUp, toDevice>>
    BY <1>2, <1>7 DEF DevEntry, DevBody
  <2>2. \E f \in FrameType : Emit(f)
    BY <1>7, <2>1 DEF DevEntry, DevBody, Frame, FrameType
  <2>3. dev' \in DevType /\ dev'.op = dev.op
    <3>1. CASE DevEntry
      <4>1. dev.n + 1 \in 0..MaxFrames
        BY <1>0, <3>1 DEF DevEntry
      <4>2. CASE dev' = [dev EXCEPT !.n = @ + 1]
        BY <1>0, <4>1, <4>2
      <4>3. CASE dev' = [dev EXCEPT !.n = @ + 1, !.mode = "BODY"]
        BY <1>0, <4>1, <4>3
      <4>4. QED
        BY <3>1, <4>2, <4>3 DEF DevEntry
    <3>2. CASE DevBody
      BY <1>0, <3>2 DEF DevBody
    <3>3. QED
      BY <1>7, <3>1, <3>2
  <2>4. QED
    BY <1>1, <1>2, <2>1, <2>2, <2>3, EmitTypes
<1>8. CASE DevEnd \/ DevStoreFails
  <2>1. dev.op \in Ops /\ ~hungUp /\ UNCHANGED <<hostVars, hungUp, toDevice>>
    BY <1>2, <1>8 DEF DevEnd, DevStoreFails
  <2>2. \E f \in FrameType : Emit(f)
    BY <1>8, <2>1 DEF DevEnd, DevStoreFails, Frame, FrameType
  <2>3. dev' \in DevType /\ (dev'.mode # "idle" => dev'.op \in Ops)
    BY <1>0, <1>3, <1>8, <2>1 DEF DevEnd, DevStoreFails, Become
  <2>4. QED
    BY <1>1, <1>2, <2>1, <2>2, <2>3, EmitTypes
<1>9. CASE DevStore \/ DevDrain
  <2>1. toDevice' \in Seq(FrameType) /\ ~hungUp
    BY <1>9, DevTakeTypes DEF DevStore, DevDrain
  <2>2. dev' \in {dev, Idle} /\ UNCHANGED <<hostVars, hungUp, toHost>>
    BY <1>9 DEF DevStore, DevDrain
  <2>3. QED
    BY <1>0, <1>1, <1>2, <1>3, <2>1, <2>2
<1>10. CASE DevStored
  <2>1. toDevice' \in Seq(FrameType) /\ ~hungUp /\ dev.op \in Ops
    BY <1>2, <1>10, DevTakeTypes DEF DevStored
  <2>2. PICK id \in {"OKAY", "FAIL"} : Emit(Frame(id, dev.op))
    BY <1>10 DEF DevStored
  <2>3. toHost' \in Seq(FrameType)
    <3>1. Frame(id, dev.op) \in FrameType
      BY <2>1 DEF Frame, FrameType
    <3>2. QED
      BY <2>2, <3>1, EmitTypes
  <2>4. QED
    BY <1>1, <1>2, <1>3, <1>10, <2>1, <2>3 DEF DevStored
<1>11. CASE DevConfused
  <2>1. toDevice' \in Seq(FrameType) /\ Head(toDevice).op \in Ops
    BY <1>11, DevTakeTypes DEF DevConfused
  <2>2. Frame("FAIL", Head(toDevice).op) \in FrameType
    BY <2>1 DEF Frame, FrameType
  <2>3. toHost' \in Seq(FrameType)
    BY <1>11, <2>2, EmitTypes DEF DevConfused
  <2>4. QED
    BY <1>1, <1>2, <1>3, <1>11, <2>1, <2>3 DEF DevConfused
<1>12. QED
  BY <1>4, <1>5, <1>6, <1>7, <1>8, <1>9, <1>10, <1>11 DEF DevStep

\* Types are inductive.
LEMMA NextTypes == TInv /\ [Next]_svars => TInv'
<1> SUFFICES ASSUME TInv, [Next]_svars PROVE TInv'
  OBVIOUS
<1>1. CASE UNCHANGED svars
  BY <1>1 DEF svars, lockVars, streamVars, readVars, TInv, TypeOK
<1>2. CASE \E op \in Ops : Call(op) \/ OpStep(op) \/ SourceFails(op) \/ Resume(op) \/ Break(op)
  BY <1>2, CallTypes, WriterTypes, ReaderTypes DEF OpStep
<1>3. CASE DevStep \/ DevStoreFails \/ DevHangUp \/ NoticeClose \/ Lose
  BY <1>3, EndTypes, DevTypes
<1>4. QED
  BY <1>1, <1>2, <1>3 DEF Next

\* No operation, of any number and kind, is ever at a step that is not one of
\* its kind, and only frames are under way.
THEOREM SessionTypes == Spec => []TypeOK
<1>1. TInv => TypeOK
  BY DEF TInv
<1>2. QED
  BY InitTypes, NextTypes, <1>1, PTL DEF Spec

-----------------------------------------------------------------------------
(* The end of the stream                                                   *)

\* Once the host has closed the stream nobody is in the middle of an
\* exchange, but for an end that came from adbd or from the connection.
ClosedIdle == closed /\ ~hungUp => \A op \in Ops : pc[op] \notin Active

\* A pull() that was handed null asks once more, finds the stream at its end
\* and rejects.
NullInv ==
    \A op \in nulls :
      /\ pc[op] \in {"yielded", "header", "failed", "left"}
      /\ pc[op] \in {"yielded", "header"} => closed /\ hungUp /\ toHost = <<>>

\* What an operation other than one that asks or closes does to the stream: it
\* moves on, and starts nothing on a stream it has not written to.
LEMMA QuietStep ==
    ASSUME TInv, NEW op \in Ops,
           Call(op) \/ OpStep(op) \/ SourceFails(op) \/ Resume(op) \/ Break(op),
           ~SendRequest(op), ~Quit(op)
    PROVE  /\ UNCHANGED <<closed, lost, hungUp, dev>>
           /\ \A o \in Ops : /\ o # op => pc'[o] = pc[o]
                             /\ pc'[o] \in Active => pc[o] \in Active
<1>1. UNCHANGED <<closed, lost, hungUp, dev>>
  BY DEF Call, OpStep, Start, RefuseDryRun, PushChunk, PushDone, WriteFails, TakeReply, TakeBody,
         TakeJunk, TakeEof, YieldNull, SourceFails, Resume, Break, streamVars
<1>2. PICK l : /\ pc' = [pc EXCEPT ![op] = l]
               /\ l \in Active => pc[op] \in Active
  <2> USE DEF Goto, Active, Holding
  <2>1. CASE TakeReply(op)
    <3>1. /\ pc[op] \in {"reply", "header"}
          /\ \/ Goto(op, "body") \/ Goto(op, pc[op])
             \/ Goto(op, "failed") \/ Goto(op, "done")
      BY <2>1 DEF TakeReply
    <3>2. QED
      BY <3>1
  <2>2. CASE PushChunk(op)
    <3>1. pc' = pc /\ pc' = [pc EXCEPT ![op] = pc[op]]
      BY <2>2 DEF PushChunk, TInv, TypeOK
    <3>2. QED
      BY <3>1
  <2>3. CASE Call(op) \/ Start(op) \/ RefuseDryRun(op) \/ WriteFails(op) \/ TakeJunk(op) \/ TakeEof(op)
    <3>1. \E l \in {"queued", "request", "failed"} : pc' = [pc EXCEPT ![op] = l]
      BY <2>3 DEF Call, Start, RefuseDryRun, WriteFails, TakeJunk, TakeEof
    <3>2. QED
      BY <3>1
  <2>4. CASE PushDone(op) \/ TakeBody(op) \/ YieldNull(op) \/ SourceFails(op) \/ Resume(op) \/ Break(op)
    BY <2>4 DEF PushDone, TakeBody, YieldNull, SourceFails, Resume, Break
  <2>5. QED
    BY <2>1, <2>2, <2>3, <2>4 DEF OpStep
<1>3. pc \in [Ops -> {"idle", "queued"} \cup Holding \cup Over]
  BY DEF TInv, TypeOK
<1>4. QED
  BY <1>1, <1>2, <1>3

\* The steps of adbd and of the cable, and what they leave to the host.
LEMMA FarStep ==
    ASSUME DevStep \/ DevStoreFails \/ DevHangUp \/ NoticeClose \/ Lose
    PROVE  /\ UNCHANGED <<lockVars, pc, sent, readVars>>
           /\ hungUp => hungUp' /\ (toHost = <<>> => toHost' = <<>>)
           /\ closed => closed'
           /\ closed' # closed => hungUp'
<1>1. CASE NoticeClose
  BY <1>1 DEF NoticeClose
<1>2. CASE Lose
  <2>1. toHost = <<>> => toHost' = <<>>
    BY <1>2 DEF Lose
  <2>2. QED
    BY <1>2, <2>1 DEF Lose
<1>3. CASE DevStep \/ DevStoreFails \/ DevHangUp
  <2>1. UNCHANGED hostVars
    BY <1>3 DEF DevStep, DevStat, DevBegin, DevQuit, DevEntry, DevBody, DevEnd, DevStore,
                DevStored, DevDrain, DevConfused, DevNoticeClose, DevStoreFails, DevHangUp
  <2>2. hungUp => hungUp' /\ (toHost = <<>> => toHost' = <<>>)
    BY <1>3 DEF DevStep, DevStat, DevBegin, DevQuit, DevEntry, DevBody, DevEnd, DevStore, DevTake,
                DevStored, DevDrain, DevConfused, DevNoticeClose, DevStoreFails, DevHangUp
  <2>3. QED
    BY <2>1, <2>2 DEF hostVars
<1>4. QED
  BY <1>1, <1>2, <1>3

\* Only close() ends the stream while adbd still listens, and it has the
\* session then.
LEMMA NextClosedIdle ==
    TInv /\ ChainInv /\ ClosedIdle /\ [Next]_svars => ClosedIdle'
<1> SUFFICES ASSUME TInv, ChainInv, ClosedIdle, [Next]_svars, closed', ~hungUp', NEW o \in Ops
             PROVE  pc'[o] \notin Active
  BY DEF ClosedIdle
<1>0. pc \in [Ops -> {"idle", "queued"} \cup Holding \cup Over]
  BY DEF TInv, TypeOK
<1>1. CASE UNCHANGED svars
  BY <1>1 DEF svars, streamVars, ClosedIdle
<1>2. ASSUME NEW op \in Ops, Call(op) \/ OpStep(op) \/ SourceFails(op) \/ Resume(op) \/ Break(op)
      PROVE  pc'[o] \notin Active
  <2>1. CASE SendRequest(op)
    BY <2>1 DEF SendRequest, Write, streamVars
  <2>2. CASE Quit(op)
    <3>1. pc[op] \in Holding /\ pc' = [pc EXCEPT ![op] = "done"]
      BY <2>2 DEF Quit, Goto, Holding
    <3>2. o # op => pc[o] \notin Holding
      BY <3>1, ChainExclusive DEF Exclusive
    <3>3. QED
      BY <1>0, <3>1, <3>2 DEF Active, Holding
  <2>3. CASE ~SendRequest(op) /\ ~Quit(op)
    BY <1>2, <2>3, QuietStep DEF ClosedIdle
  <2>4. QED
    BY <2>1, <2>2, <2>3
<1>3. CASE DevStep \/ DevStoreFails \/ DevHangUp \/ NoticeClose \/ Lose
  BY <1>3, FarStep DEF ClosedIdle
<1>4. QED
  BY <1>1, <1>2, <1>3 DEF Next

\* The bytes of a stream that has ended for pull() stay at their end.
LEMMA NextNull ==
    TInv /\ ClosedIdle /\ NullInv /\ [Next]_svars => NullInv'
<1> SUFFICES ASSUME TInv, ClosedIdle, NullInv, [Next]_svars, NEW o \in nulls'
             PROVE  /\ pc'[o] \in {"yielded", "header", "failed", "left"}
                    /\ pc'[o] \in {"yielded", "header"} => closed' /\ hungUp' /\ toHost' = <<>>
  BY DEF NullInv
<1>0. pc \in [Ops -> {"idle", "queued"} \cup Holding \cup Over] /\ nulls \subseteq Ops
  BY DEF TInv, TypeOK
<1>1. CASE UNCHANGED svars
  BY <1>1 DEF svars, streamVars, readVars, NullInv
<1>2. ASSUME NEW op \in Ops, Call(op) \/ OpStep(op) \/ SourceFails(op) \/ Resume(op) \/ Break(op)
      PROVE  /\ pc'[o] \in {"yielded", "header", "failed", "left"}
             /\ pc'[o] \in {"yielded", "header"} => closed' /\ hungUp' /\ toHost' = <<>>
  <2>1. CASE YieldNull(op)
    <3>1. /\ pc[op] = "body" /\ pc' = [pc EXCEPT ![op] = "yielded"] /\ nulls' = nulls \cup {op}
          /\ closed /\ toHost = <<>> /\ UNCHANGED <<closed, hungUp, toHost>>
      BY <2>1 DEF YieldNull, Goto, streamVars
    <3>2. hungUp
      BY <3>1 DEF ClosedIdle, Active, Holding
    <3>3. o # op => o \in nulls
      BY <3>1
    <3>4. QED
      BY <1>0, <3>1, <3>2, <3>3 DEF NullInv
  <2>2. CASE ~YieldNull(op)
    <3>1. o \in nulls /\ o \in Ops
      BY <1>0, <1>2, <2>2
         DEF Call, OpStep, Start, SendRequest, RefuseDryRun, PushChunk, PushDone, WriteFails, Quit,
             TakeReply, TakeBody, TakeJunk, TakeEof, SourceFails, Resume, Break, readVars
    <3>2. /\ pc[o] \in {"yielded", "header", "failed", "left"}
          /\ pc[o] \in {"yielded", "header"} => closed /\ hungUp /\ toHost = <<>>
      BY <3>1 DEF NullInv
    <3>3. hungUp' = hungUp /\ (closed => closed')
      BY <1>2
         DEF Call, OpStep, Start, SendRequest, RefuseDryRun, PushChunk, PushDone, WriteFails, Quit,
             TakeReply, TakeBody, TakeJunk, TakeEof, YieldNull, SourceFails, Resume, Break, streamVars
    <3>4. toHost = <<>> => toHost' = <<>>
      BY <1>2
         DEF Call, OpStep, Start, SendRequest, RefuseDryRun, PushChunk, PushDone, WriteFails, Quit,
             TakeReply, TakeBody, TakeJunk, TakeEof, YieldNull, SourceFails, Resume, Break
    <3>5. CASE pc'[o] = pc[o]
      BY <3>2, <3>3, <3>4, <3>5
    <3>6. CASE pc'[o] # pc[o]
      <4>1. o = op
        <5>1. CASE SendRequest(op) \/ Quit(op)
          BY <1>0, <3>1, <3>6, <5>1 DEF SendRequest, Quit, Goto
        <5>2. CASE ~SendRequest(op) /\ ~Quit(op)
          BY <1>2, <3>1, <3>6, <5>2, QuietStep
        <5>3. QED
          BY <5>1, <5>2
      <4>2. TakeEof(op) \/ Resume(op) \/ Break(op)
        <5>1. pc[op] \in {"yielded", "header"}
          <6>1. CASE pc[op] \in {"failed", "left"}
            BY <1>2, <2>2, <6>1
               DEF Call, OpStep, Start, SendRequest, RefuseDryRun, PushChunk, PushDone, WriteFails,
                   Quit, TakeReply, TakeBody, TakeJunk, TakeEof, SourceFails, Resume, Break, Reading
          <6>2. QED
            BY <3>2, <4>1, <6>1
        <5>2. toHost = <<>>
          BY <3>2, <4>1, <5>1
        <5>3. QED
          BY <1>2, <2>2, <5>1, <5>2
             DEF Call, OpStep, Start, SendRequest, RefuseDryRun, PushChunk, PushDone, WriteFails,
                 Quit, TakeReply, TakeBody, TakeJunk, SourceFails
      <4>3. pc'[o] \in {"failed", "header", "left"} /\ (pc'[o] = "header" => pc[o] = "yielded")
        BY <1>0, <4>1, <4>2 DEF TakeEof, Resume, Break, Goto
      <4>4. QED
        BY <3>2, <3>3, <3>4, <4>3
    <3>7. QED
      BY <3>5, <3>6
  <2>3. QED
    BY <2>1, <2>2
<1>3. CASE DevStep \/ DevStoreFails \/ DevHangUp \/ NoticeClose \/ Lose
  BY <1>0, <1>3, FarStep DEF NullInv, readVars
<1>4. QED
  BY <1>1, <1>2, <1>3 DEF Next

\* The stream is open at first.
LEMMA InitEnds == Init => ClosedIdle /\ NullInv
  BY DEF Init, ClosedIdle, NullInv

\* A pull() handed null for a chunk, the stream having ended behind a DATA
\* header, never resolves as if the file were complete.
THEOREM NullIsNoSuccess == Spec => []TruncationIsReported
<1>1. NullInv => TruncationIsReported
  BY DEF NullInv, TruncationIsReported
<1>2. QED
  BY InitTypes, NextTypes, InitChain, NextChain, InitEnds, NextClosedIdle, NextNull, <1>1, PTL DEF Spec

-----------------------------------------------------------------------------
(* The exchange                                                            *)

Opens(f) == f.id \in {"SEND", "DATA"}
Continues(f) == f.id \in {"DATA", "DONE"}
Storing == dev.mode \in {"SEND", "drain"}
Replying == dev.mode \in {"LIST", "RECV", "BODY", "SEND"}
Ends == {"STAT", "DONE", "OKAY", "FAIL"}
Ids(kind) == CASE kind = "stat" -> {"STAT"}
               [] kind = "list" -> {"DENT", "DONE"}
               [] kind = "pull" -> {"DATA", "BODY", "DONE", "FAIL"}
               [] kind = "push" -> {"OKAY", "FAIL"}
               [] OTHER -> {}

\* What the host sends: the frames of a file stay together.
FilesTogether ==
    /\ \A i \in 1..(Len(toDevice) - 1) :
         /\ Opens(toDevice[i]) <=> Continues(toDevice[i + 1])
         /\ Opens(toDevice[i]) => toDevice[i + 1].op = toDevice[i].op
    /\ Storing /\ toDevice # <<>> => Head(toDevice).op = dev.op

\* A file is under way as long as its push() reads its source, and adbd is in
\* the middle of a file if the next frame is.
FilesFollowed ==
    ~hungUp =>
    /\ toDevice # <<>> => (Storing <=> Continues(Head(toDevice)))
    /\ \A op \in Ops : pc[op] = "source" <=>
         IF toDevice = <<>> THEN Storing /\ dev.op = op
                            ELSE Opens(toDevice[Len(toDevice)]) /\ toDevice[Len(toDevice)].op = op

Asked == {i \in 1..Len(toDevice) : toDevice[i].id \in Requests}

\* A request waits in the stream only before anything of its answer, and alone.
AskedOnce ==
    ~hungUp => \A i \in Asked :
      /\ ~Replying /\ toHost = <<>>
      /\ IF toDevice[i].id = "QUIT" THEN closed
         ELSE pc[toDevice[i].op] \in Active /\ toDevice[i].id = RequestId[Kind[toDevice[i].op]]
      /\ \A j \in Asked : j = i

\* adbd serves the operation that reads, and has not sent the end of its answer.
ServesReader ==
    ~hungUp /\ Replying =>
      /\ pc[dev.op] \in Active
      /\ \A i \in 1..Len(toHost) : toHost[i].id \notin Ends
      /\ dev.mode = "BODY" <=> IF toHost = <<>> THEN pc[dev.op] = "body"
                                                ELSE toHost[Len(toHost)].id = "DATA"
      /\ Kind[dev.op] = CASE dev.mode = "LIST" -> "list" [] dev.mode = "SEND" -> "push"
                          [] OTHER -> "pull"

\* Between two answers no payload is awaited.
NoBodyOwed ==
    ~hungUp /\ ~Replying =>
      /\ toHost = <<>> => \A op \in Ops : pc[op] # "body"
      /\ toHost # <<>> => toHost[Len(toHost)].id # "DATA"

\* What is on its way to the host answers the operation that reads, one frame
\* after the other as its kind has them.
AnswersReader ==
    /\ \A i \in 1..Len(toHost) :
         /\ toHost[i].id \in Ids(Kind[toHost[i].op])
         /\ \A op \in Ops : pc[op] \in Active => toHost[i].op = op
         /\ ~closed => pc[toHost[i].op] \in Active
    /\ \A i \in 1..(Len(toHost) - 1) :
         toHost[i].id \notin Ends /\ (toHost[i].id = "DATA" <=> toHost[i + 1].id = "BODY")
    /\ toHost # <<>> => \A op \in Ops : pc[op] \in Active =>
                           (toHost[1].id = "BODY" <=> pc[op] = "body")

Exchange == /\ FilesTogether /\ FilesFollowed /\ AskedOnce /\ ServesReader /\ NoBodyOwed
            /\ AnswersReader /\ RepliesAreOwn

\* Together with what holds in any case.
Session == TInv /\ ChainInv /\ ClosedIdle

-----------------------------------------------------------------------------
(* Queues                                                                  *)

\* What a queue holds when a frame is added.
LEMMA Added ==
    ASSUME NEW q \in Seq(FrameType), NEW x \in FrameType, NEW r, r = Append(q, x)
    PROVE  /\ Len(q) \in Nat /\ Len(r) = Len(q) + 1 /\ r # <<>>
           /\ \A i \in 1..Len(q) : r[i] = q[i]
           /\ r[Len(q) + 1] = x /\ r[Len(r)] = x
           /\ q = <<>> => Head(r) = x /\ r[1] = x
           /\ q # <<>> => Head(r) = Head(q) /\ r[1] = q[1] /\ q[Len(q)] = q[Len(q)] /\ Len(q) >= 1
<1>1. Len(q) \in Nat /\ Len(r) = Len(q) + 1 /\ r # <<>> /\ r[Len(q) + 1] = x
      /\ \A i \in 1..Len(q) : r[i] = q[i]
  OBVIOUS
<1>2. r[Len(r)] = x
  BY <1>1
<1>3. q = <<>> => Head(r) = x /\ r[1] = x
  OBVIOUS
<1>4. q # <<>> => Head(r) = Head(q) /\ r[1] = q[1] /\ Len(q) >= 1
  OBVIOUS
<1>5. QED
  BY <1>1, <1>2, <1>3, <1>4

\* What a queue holds when its first frame is taken.
LEMMA Taken ==
    ASSUME NEW q \in Seq(FrameType), q # <<>>, NEW r, r = Tail(q)
    PROVE  /\ Len(q) \in Nat /\ Len(q) >= 1 /\ Len(r) = Len(q) - 1
           /\ Head(q) = q[1]
           /\ \A i \in 1..Len(r) : r[i] = q[i + 1]
           /\ r # <<>> => Len(q) >= 2 /\ Head(r) = q[2] /\ r[1] = q[2] /\ r[Len(r)] = q[Len(q)]
           /\ r = <<>> => Len(q) = 1 /\ q[Len(q)] = q[1]
<1>1. Len(q) \in Nat /\ Len(q) >= 1 /\ Len(r) = Len(q) - 1 /\ Head(q) = q[1] /\ r \in Seq(FrameType)
  OBVIOUS
<1>2. \A i \in 1..Len(r) : r[i] = q[i + 1]
  OBVIOUS
<1>3. ASSUME r # <<>> PROVE Len(q) >= 2 /\ Head(r) = q[2] /\ r[1] = q[2] /\ r[Len(r)] = q[Len(q)]
  <2>1. Len(r) \in Nat /\ Len(r) >= 1 /\ Head(r) = r[1]
    BY <1>1, <1>3
  <2>2. r[1] = q[2] /\ r[Len(r)] = q[Len(q)]
    BY <1>1, <1>2, <2>1
  <2>3. QED
    BY <1>1, <2>1, <2>2
<1>4. ASSUME r = <<>> PROVE Len(q) = 1 /\ q[Len(q)] = q[1]
  <2>0. Len(<<>>) = 0
    OBVIOUS
  <2>1. Len(r) = 0
    BY <1>4, <2>0, Zenon
  <2>2. Len(q) = 1
    BY <1>1, <2>1
  <2>3. QED
    BY <2>2
<1>5. QED
  BY <1>1, <1>2, <1>3, <1>4

\* The types the steps below need.
LEMMA SessionTypesOf ==
    ASSUME Session
    PROVE  /\ pc \in [Ops -> {"idle", "queued"} \cup Holding \cup Over]
           /\ toHost \in Seq(FrameType) /\ toDevice \in Seq(FrameType)
           /\ Len(toHost) \in Nat /\ Len(toDevice) \in Nat
           /\ dev.mode \in {"idle", "LIST", "RECV", "BODY", "SEND", "drain"}
           /\ dev.mode # "idle" => dev.op \in Ops
           /\ \A i \in 1..Len(toHost) : toHost[i].op \in Ops
           /\ \A i \in 1..Len(toDevice) : toDevice[i].op \in Ops
           /\ Exclusive
<1>1. toHost \in Seq(FrameType) /\ toDevice \in Seq(FrameType)
  BY DEF Session, TInv, TypeOK
<1>2. \A f \in FrameType : f.op \in Ops
  BY DEF FrameType
<1>3. \A q \in Seq(FrameType), i \in Nat : i \in 1..Len(q) => q[i] \in FrameType
  OBVIOUS
<1>4. /\ \A i \in 1..Len(toHost) : toHost[i].op \in Ops
      /\ \A i \in 1..Len(toDevice) : toDevice[i].op \in Ops
  BY <1>1, <1>2, <1>3
<1>5. dev.mode \in {"idle", "LIST", "RECV", "BODY", "SEND", "drain"}
  BY DEF Session, TInv, TypeOK
<1>6. QED
  BY <1>1, <1>4, <1>5, ChainExclusive DEF Session, TInv, TypeOK

\* Only one operation is in the middle of an exchange, and none while another
\* is about to ask.
LEMMA OneActive ==
    ASSUME Exclusive, NEW op \in Ops, pc[op] \in Holding
    PROVE  \A o \in Ops : pc[o] \in Active => o = op /\ pc[op] # "request"
  BY DEF Exclusive, Active

\* An operation that has given up its exchange half way stays so.
LEMMA DrainedBefore ==
    ASSUME ChainInv, [Next]_svars, Drained'
    PROVE  Drained
<1>1. ASSUME NEW o \in Ops, pc[o] = "left" PROVE pc'[o] = "left"
  <2>1. pc \in [Ops -> Places]
    BY DEF ChainInv
  <2>2. CASE \E op \in Ops : Call(op) \/ Start(op) \/ Progress(op)
    <3>1. PICK op \in Ops : Call(op) \/ Start(op) \/ Progress(op)
      BY <2>2
    <3>2. pc[op] # "left" /\ \E l : pc' = [pc EXCEPT ![op] = l]
      BY <3>1 DEF Call, Start, Progress, Goto, Holding
    <3>3. QED
      BY <1>1, <2>1, <3>2
  <2>3. CASE UNCHANGED <<pc, lockVars>>
    BY <1>1, <2>3
  <2>4. QED
    BY <2>2, <2>3, LockSteps
<1>2. QED
  BY <1>1 DEF Drained

-----------------------------------------------------------------------------
(* Steps of the host                                                       *)

\* A step that leaves the frames, adbd and the readers alone.
LEMMA PcKept ==
    ASSUME Session, Exchange,
           UNCHANGED <<hungUp, toDevice, toHost, dev, aligned, sources>>, closed => closed',
           \A o \in Ops : /\ pc'[o] \in Active <=> pc[o] \in Active
                          /\ pc'[o] = "source" <=> pc[o] = "source"
                          /\ pc'[o] = "body" <=> pc[o] = "body"
    PROVE  Exchange'
<1>0. /\ \A i \in 1..Len(toHost) : toHost[i].op \in Ops
      /\ \A i \in 1..Len(toDevice) : toDevice[i].op \in Ops
      /\ Replying => dev.op \in Ops
  BY SessionTypesOf DEF Replying
<1>1. Storing' = Storing /\ Replying' = Replying /\ Asked' = Asked
  BY DEF Storing, Replying, Asked
<1>2. FilesTogether' /\ FilesFollowed'
  BY <1>1 DEF Exchange, FilesTogether, FilesFollowed
<1>3. AskedOnce'
  BY <1>0, <1>1 DEF Exchange, AskedOnce, Asked
<1>4. ServesReader'
  BY <1>0, <1>1 DEF Exchange, ServesReader
<1>5. NoBodyOwed'
  BY <1>1 DEF Exchange, NoBodyOwed
<1>6. AnswersReader'
  BY <1>0 DEF Exchange, AnswersReader
<1>7. QED
  BY <1>2, <1>3, <1>4, <1>5, <1>6 DEF Exchange, RepliesAreOwn

\* Once adbd has hung up only what is on its way to the host matters.
LEMMA HungKept ==
    ASSUME Exchange, hungUp', closed',
           (toDevice' = toDevice /\ dev' = dev) \/ toDevice' = <<>>,
           toHost' = toHost \/ toHost' = <<>>,
           UNCHANGED <<aligned, sources>>,
           \A o \in Ops : pc'[o] \in Active => pc[o] \in Active /\ (toHost' # <<>> => pc'[o] = pc[o])
    PROVE  Exchange'
<1>1. FilesTogether'
  <2>1. CASE toDevice' = toDevice /\ dev' = dev
    BY <2>1 DEF Exchange, FilesTogether, Storing
  <2>2. CASE toDevice' = <<>>
    <3>1. 1..(Len(toDevice') - 1) = {}
      BY <2>2
    <3>2. QED
      BY <2>2, <3>1 DEF FilesTogether
  <2>3. QED
    BY <2>1, <2>2
<1>2. FilesFollowed' /\ AskedOnce' /\ ServesReader' /\ NoBodyOwed'
  BY DEF FilesFollowed, AskedOnce, ServesReader, NoBodyOwed
<1>3. AnswersReader'
  <2>1. CASE toHost' = <<>>
    <3>1. 1..Len(toHost') = {} /\ 1..(Len(toHost') - 1) = {}
      BY <2>1
    <3>2. QED
      BY <2>1, <3>1 DEF AnswersReader
  <2>2. CASE toHost' = toHost /\ toHost' # <<>>
    BY <2>2 DEF Exchange, AnswersReader
  <2>3. QED
    BY <2>1, <2>2
<1>4. QED
  BY <1>1, <1>2, <1>3 DEF Exchange, RepliesAreOwn

\* While nobody is in the middle of an exchange on an open stream there is
\* nothing on its way, and adbd waits or drains the rest of a refused file.
LEMMA NothingUnderWay ==
    ASSUME Session, Exchange, ~closed, \A o \in Ops : pc[o] \notin Active
    PROVE  /\ toHost = <<>>
           /\ ~hungUp => /\ ~Replying /\ Asked = {}
                         /\ toDevice = <<>> => ~Storing
                         /\ toDevice # <<>> => ~Opens(toDevice[Len(toDevice)])
<1>0. /\ \A i \in 1..Len(toHost) : toHost[i].op \in Ops
      /\ \A i \in 1..Len(toDevice) : toDevice[i].op \in Ops
      /\ dev.mode # "idle" => dev.op \in Ops
      /\ toHost \in Seq(FrameType) /\ toDevice \in Seq(FrameType)
  BY SessionTypesOf
<1>1. toHost = <<>>
  <2>1. SUFFICES ASSUME toHost # <<>> PROVE FALSE
    OBVIOUS
  <2>2. 1 \in 1..Len(toHost)
    BY <1>0, <2>1
  <2>3. QED
    BY <1>0, <2>2 DEF Exchange, AnswersReader
<1>2. ASSUME ~hungUp PROVE ~Replying /\ Asked = {}
  <2>1. ~Replying
    BY <1>0, <1>2 DEF Exchange, ServesReader, Replying
  <2>2. ASSUME NEW i \in Asked PROVE FALSE
    <3>1. i \in 1..Len(toDevice)
      BY <2>2 DEF Asked
    <3>2. QED
      BY <1>0, <1>2, <2>2, <3>1 DEF Exchange, AskedOnce
  <2>3. QED
    BY <2>1, <2>2
<1>3. ASSUME ~hungUp, toDevice = <<>> PROVE ~Storing
  <2>1. Storing => dev.op \in Ops
    BY <1>0 DEF Storing
  <2>2. Storing => pc[dev.op] = "source"
    BY <1>3, <2>1 DEF Exchange, FilesFollowed
  <2>3. QED
    BY <2>1, <2>2 DEF Active, Holding
<1>4. ASSUME ~hungUp, toDevice # <<>> PROVE ~Opens(toDevice[Len(toDevice)])
  <2>1. toDevice[Len(toDevice)].op \in Ops
    <3>1. Len(toDevice) \in 1..Len(toDevice)
      BY <1>0, <1>4
    <3>2. QED
      BY <1>0, <3>1
  <2>2. Opens(toDevice[Len(toDevice)]) => pc[toDevice[Len(toDevice)].op] = "source"
    BY <1>4, <2>1 DEF Exchange, FilesFollowed
  <2>3. QED
    BY <2>1, <2>2 DEF Active, Holding
<1>5. QED
  BY <1>1, <1>2, <1>3, <1>4

\* What writing a frame does to the frames on their way to adbd.
LEMMA WriteFiles ==
    ASSUME Session, Exchange, NEW f \in FrameType, ~hungUp, toDevice' = Append(toDevice, f),
           UNCHANGED <<hungUp, dev>>,
           toDevice = <<>> => (Storing <=> Continues(f)) /\ (Storing => f.op = dev.op),
           toDevice # <<>> => /\ Opens(toDevice[Len(toDevice)]) <=> Continues(f)
                              /\ Opens(toDevice[Len(toDevice)]) => f.op = toDevice[Len(toDevice)].op,
           \A o \in Ops : pc'[o] = "source" <=> Opens(f) /\ f.op = o
    PROVE  FilesTogether' /\ FilesFollowed'
<1> DEFINE n == Len(toDevice)
<1>1. /\ n \in Nat /\ Len(toDevice') = n + 1 /\ toDevice' # <<>>
      /\ \A i \in 1..n : toDevice'[i] = toDevice[i]
      /\ toDevice'[n + 1] = f /\ toDevice'[Len(toDevice')] = f
      /\ toDevice = <<>> => Head(toDevice') = f /\ n = 0
      /\ toDevice # <<>> => Head(toDevice') = Head(toDevice) /\ toDevice[Len(toDevice)] = toDevice[n] /\ n >= 1
  <2>1. toDevice \in Seq(FrameType)
    BY SessionTypesOf
  <2>2. PICK q, r : q = toDevice /\ r = toDevice'
    OBVIOUS
  <2>3. q \in Seq(FrameType) /\ r = Append(q, f)
    BY <2>1, <2>2
  <2>4. /\ Len(q) \in Nat /\ Len(r) = Len(q) + 1 /\ r # <<>>
        /\ \A i \in 1..Len(q) : r[i] = q[i]
        /\ r[Len(q) + 1] = f /\ r[Len(r)] = f
        /\ q = <<>> => Head(r) = f /\ r[1] = f
        /\ q # <<>> => Head(r) = Head(q) /\ r[1] = q[1] /\ q[Len(q)] = q[Len(q)] /\ Len(q) >= 1
    BY <2>3, Added
  <2>5. q = <<>> => Len(q) = 0
    OBVIOUS
  <2>6. QED
    BY <2>2, <2>4, <2>5
<1>n. n = Len(toDevice)
  OBVIOUS
<1> HIDE DEF n
<1>2. Storing' = Storing
  BY DEF Storing
<1>3. ASSUME NEW i \in 1..n
      PROVE  /\ Opens(toDevice'[i]) <=> Continues(toDevice'[i + 1])
             /\ Opens(toDevice'[i]) => toDevice'[i + 1].op = toDevice'[i].op
  <2>1. CASE i = n
    <3>1. toDevice # <<>>
      BY <1>n, <2>1
    <3>2. QED
      BY <1>1, <2>1, <3>1
  <2>2. CASE i # n
    <3>1. i \in 1..(n - 1) /\ i + 1 \in 1..n
      BY <1>1, <2>2
    <3>2. /\ Opens(toDevice[i]) <=> Continues(toDevice[i + 1])
          /\ Opens(toDevice[i]) => toDevice[i + 1].op = toDevice[i].op
      BY <1>n, <3>1 DEF Exchange, FilesTogether
    <3>3. QED
      BY <1>1, <3>1, <3>2
  <2>3. QED
    BY <2>1, <2>2
<1>4. FilesTogether'
  <2>1. Len(toDevice') - 1 = n
    BY <1>1
  <2>2. Storing' => Head(toDevice').op = dev.op
    BY <1>1, <1>2 DEF Exchange, FilesTogether
  <2>3. QED
    BY <1>3, <2>1, <2>2 DEF FilesTogether
<1>5. FilesFollowed'
  <2>1. Storing' <=> Continues(Head(toDevice'))
    BY <1>1, <1>2 DEF Exchange, FilesFollowed
  <2>2. QED
    BY <1>1, <2>1 DEF FilesFollowed
<1>6. QED
  BY <1>4, <1>5

\* What it does to the requests.
LEMMA WriteAsks ==
    ASSUME Session, NEW f \in FrameType, toDevice' = Append(toDevice, f)
    PROVE  /\ \A i \in Asked : i \in Asked' /\ toDevice'[i] = toDevice[i]
           /\ \A i \in Asked' : i \in Asked \/ (i = Len(toDevice) + 1 /\ toDevice'[i] = f)
           /\ f.id \notin Requests => Asked' = Asked
<1> DEFINE n == Len(toDevice)
<1>1. /\ n \in Nat /\ Len(toDevice') = n + 1
      /\ \A i \in 1..n : toDevice'[i] = toDevice[i]
      /\ toDevice'[n + 1] = f
  <2>1. toDevice \in Seq(FrameType)
    BY SessionTypesOf
  <2>2. QED
    BY <2>1
<1> HIDE DEF n
<1>2. 1..(n + 1) = 1..n \cup {n + 1}
  BY <1>1
<1>3. Asked = {i \in 1..n : toDevice[i].id \in Requests}
      /\ Asked' = {i \in 1..(n + 1) : toDevice'[i].id \in Requests}
  BY <1>1 DEF Asked, n
<1>4. QED
  BY <1>1, <1>2, <1>3 DEF n

\* A frame that is no request leaves those who read as they are.
LEMMA WriteKept ==
    ASSUME Session, Exchange, NEW f \in FrameType, toDevice' = Append(toDevice, f),
           f.id \notin Requests, UNCHANGED <<hungUp, closed, toHost, dev, aligned, sources>>,
           \A o \in Ops : /\ pc'[o] \in Active <=> pc[o] \in Active
                          /\ pc'[o] = "body" <=> pc[o] = "body"
    PROVE  AskedOnce' /\ ServesReader' /\ NoBodyOwed' /\ AnswersReader' /\ RepliesAreOwn'
<1>0. /\ \A i \in 1..Len(toHost) : toHost[i].op \in Ops
      /\ \A i \in 1..Len(toDevice) : toDevice[i].op \in Ops
      /\ Replying => dev.op \in Ops
  BY SessionTypesOf DEF Replying
<1>1. Replying' = Replying /\ Asked' = Asked /\ \A i \in Asked : toDevice'[i] = toDevice[i]
  BY WriteAsks DEF Replying
<1>2. AskedOnce'
  <2>1. ASSUME ~hungUp, NEW i \in Asked
        PROVE  /\ ~Replying' /\ toHost' = <<>> /\ \A j \in Asked' : j = i
               /\ IF toDevice'[i].id = "QUIT" THEN closed'
                  ELSE /\ pc'[toDevice'[i].op] \in Active
                       /\ toDevice'[i].id = RequestId[Kind[toDevice'[i].op]]
    <3>1. toDevice[i].op \in Ops /\ toDevice'[i] = toDevice[i]
      BY <1>0, <1>1, <2>1 DEF Asked
    <3>2. /\ ~Replying /\ toHost = <<>> /\ \A j \in Asked : j = i
          /\ IF toDevice[i].id = "QUIT" THEN closed
             ELSE /\ pc[toDevice[i].op] \in Active
                  /\ toDevice[i].id = RequestId[Kind[toDevice[i].op]]
      BY <2>1 DEF Exchange, AskedOnce
    <3>3. QED
      BY <1>1, <3>1, <3>2
  <2>2. QED
    BY <1>1, <2>1 DEF AskedOnce
<1>3. ServesReader'
  BY <1>0, <1>1 DEF Exchange, ServesReader
<1>4. NoBodyOwed'
  BY <1>1 DEF Exchange, NoBodyOwed
<1>5. AnswersReader'
  BY <1>0 DEF Exchange, AnswersReader
<1>6. QED
  BY <1>2, <1>3, <1>4, <1>5 DEF Exchange, RepliesAreOwn

\* A request is sent when nothing else is under way.
LEMMA RequestExchange ==
    ASSUME Session, Exchange, NEW op \in Ops, SendRequest(op)
    PROVE  Exchange'
<1> DEFINE f == Frame(RequestId[Kind[op]], op)
<1>1. /\ pc[op] = "request" /\ ~closed /\ Kind[op] \in {"stat", "list", "pull", "push"}
      /\ pc' = [pc EXCEPT ![op] = AfterRequest(op)]
      /\ UNCHANGED <<closed, hungUp, toHost, dev, aligned, sources>>
      /\ toDevice' = IF hungUp THEN toDevice ELSE Append(toDevice, f)
  BY KindAssumption DEF SendRequest, Goto, Write, streamVars, readVars
<1>2. /\ f \in FrameType /\ f.op = op /\ f.id = RequestId[Kind[op]]
      /\ f.id \in {"STAT", "LIST", "RECV", "SEND"} /\ (f.id = "SEND" <=> Kind[op] = "push")
  BY <1>1 DEF RequestId, Frame, FrameType, Requests
<1> HIDE DEF f
<1>3. /\ AfterRequest(op) \in {"source", "header", "reply"}
      /\ AfterRequest(op) = "source" <=> Kind[op] = "push"
  BY <1>1 DEF AfterRequest
<1>4. \A o \in Ops : pc[o] \notin Active
  BY <1>1, SessionTypesOf, OneActive DEF Holding
<1>5. /\ \A o \in Ops : pc'[o] = IF o = op THEN AfterRequest(op) ELSE pc[o]
      /\ pc'[op] \in Active /\ \A o \in Ops : pc'[o] # "body"
      /\ \A o \in Ops : pc'[o] \in Active => o = op
      /\ \A o \in Ops : pc'[o] = "source" <=> o = op /\ Kind[op] = "push"
  <2>1. \A o \in Ops : pc'[o] = IF o = op THEN AfterRequest(op) ELSE pc[o]
    BY <1>1, SessionTypesOf
  <2>2. QED
    BY <1>3, <1>4, <2>1 DEF Active, Holding
<1>6. /\ toHost = <<>>
      /\ ~hungUp => /\ ~Replying /\ Asked = {}
                    /\ toDevice = <<>> => ~Storing
                    /\ toDevice # <<>> => ~Opens(toDevice[Len(toDevice)])
  BY <1>1, <1>4, NothingUnderWay
<1>7. AnswersReader' /\ RepliesAreOwn'
  <2>1. toHost' = <<>> /\ 1..Len(toHost') = {} /\ 1..(Len(toHost') - 1) = {}
    BY <1>1, <1>6
  <2>2. QED
    BY <1>1, <2>1 DEF AnswersReader, Exchange, RepliesAreOwn
<1>8. CASE hungUp
  <2>1. FilesTogether'
    BY <1>1, <1>8 DEF Exchange, FilesTogether, Storing
  <2>2. FilesFollowed' /\ AskedOnce' /\ ServesReader' /\ NoBodyOwed'
    BY <1>1, <1>8 DEF FilesFollowed, AskedOnce, ServesReader, NoBodyOwed
  <2>3. QED
    BY <1>7, <2>1, <2>2 DEF Exchange
<1>9. CASE ~hungUp
  <2>1. toDevice' = Append(toDevice, f)
    BY <1>1, <1>9
  <2>2. ~Continues(f) /\ (Opens(f) <=> Kind[op] = "push")
    BY <1>2 DEF Continues, Opens
  <2>3. FilesTogether' /\ FilesFollowed'
    BY <1>1, <1>2, <1>5, <1>6, <1>9, <2>1, <2>2, WriteFiles
  <2>4. \A i \in Asked' : i = Len(toDevice) + 1 /\ toDevice'[i] = f
    BY <1>2, <1>6, <1>9, <2>1, WriteAsks
  <2>5. ~Replying' /\ toHost' = <<>>
    BY <1>1, <1>6, <1>9 DEF Replying
  <2>6. AskedOnce'
    BY <1>2, <1>5, <2>4, <2>5 DEF AskedOnce
  <2>7. ServesReader' /\ NoBodyOwed'
    BY <1>5, <2>5 DEF ServesReader, NoBodyOwed
  <2>8. QED
    BY <1>7, <2>3, <2>6, <2>7 DEF Exchange
<1>10. QED
  BY <1>8, <1>9

\* push() sends a chunk, or the end of its file, behind its own SEND.
LEMMA PushExchange ==
    ASSUME Session, Exchange, NEW op \in Ops, PushChunk(op) \/ PushDone(op)
    PROVE  Exchange'
<1>1. PICK f : /\ f \in FrameType /\ f.op = op /\ f.id \in {"DATA", "DONE"}
               /\ toDevice' = IF hungUp THEN toDevice ELSE Append(toDevice, f)
               /\ pc[op] = "source" /\ ~closed
               /\ UNCHANGED <<closed, hungUp, toHost, dev, aligned, sources>>
               /\ IF f.id = "DATA" THEN pc' = pc ELSE pc' = [pc EXCEPT ![op] = "reply"]
  <2>1. CASE PushChunk(op)
    <3>1. /\ Frame("DATA", op) \in FrameType /\ Frame("DATA", op).op = op
          /\ Frame("DATA", op).id = "DATA"
      BY DEF Frame, FrameType
    <3>2. QED
      BY <2>1, <3>1 DEF PushChunk, Write, streamVars, readVars
  <2>2. CASE PushDone(op)
    <3>1. /\ Frame("DONE", op) \in FrameType /\ Frame("DONE", op).op = op
          /\ Frame("DONE", op).id = "DONE"
      BY DEF Frame, FrameType
    <3>2. QED
      BY <2>2, <3>1 DEF PushDone, Goto, Write, streamVars, readVars
  <2>3. QED
    BY <2>1, <2>2
<1>2. /\ \A o \in Ops : o # op => pc'[o] = pc[o] /\ pc[o] # "source"
      /\ pc'[op] = IF f.id = "DATA" THEN "source" ELSE "reply"
  <2>1. \A o \in Ops : o # op => pc[o] # "source"
    BY <1>1, SessionTypesOf, OneActive DEF Active, Holding
  <2>2. QED
    BY <1>1, <2>1, SessionTypesOf
<1>3. \A o \in Ops : /\ pc'[o] \in Active <=> pc[o] \in Active
                     /\ pc'[o] = "body" <=> pc[o] = "body"
  BY <1>1, <1>2 DEF Active, Holding
<1>4. CASE hungUp
  <2>1. FilesTogether'
    BY <1>1, <1>4 DEF Exchange, FilesTogether, Storing
  <2>2. FilesFollowed' /\ AskedOnce' /\ ServesReader' /\ NoBodyOwed'
    BY <1>1, <1>4 DEF FilesFollowed, AskedOnce, ServesReader, NoBodyOwed
  <2>3. \A i \in 1..Len(toHost) : toHost[i].op \in Ops
    BY SessionTypesOf
  <2>4. AnswersReader' /\ RepliesAreOwn'
    BY <1>1, <1>3, <2>3 DEF Exchange, AnswersReader, RepliesAreOwn
  <2>5. QED
    BY <2>1, <2>2, <2>4 DEF Exchange
<1>5. CASE ~hungUp
  <2>1. toDevice' = Append(toDevice, f) /\ f.id \notin Requests
    BY <1>1, <1>5 DEF Requests
  <2>2. IF toDevice = <<>> THEN Storing /\ dev.op = op
        ELSE Opens(toDevice[Len(toDevice)]) /\ toDevice[Len(toDevice)].op = op
    BY <1>1, <1>5 DEF Exchange, FilesFollowed
  <2>3. Continues(f) /\ (Opens(f) <=> f.id = "DATA")
    BY <1>1 DEF Continues, Opens
  <2>4. \A o \in Ops : pc'[o] = "source" <=> Opens(f) /\ f.op = o
    BY <1>1, <1>2, <2>3
  <2>5. FilesTogether' /\ FilesFollowed'
    BY <1>1, <1>5, <2>1, <2>2, <2>3, <2>4, WriteFiles
  <2>6. QED
    BY <1>1, <1>3, <2>1, <2>5, WriteKept DEF Exchange
<1>6. QED
  BY <1>4, <1>5

\* close() says QUIT when nothing else is under way.
LEMMA QuitExchange ==
    ASSUME Session, Exchange, NEW op \in Ops, Quit(op)
    PROVE  Exchange'
<1> DEFINE f == Frame("QUIT", op)
<1>1. /\ pc[op] = "request" /\ closed' /\ pc' = [pc EXCEPT ![op] = "done"]
      /\ UNCHANGED <<hungUp, toHost, dev, aligned, sources>>
      /\ closed \/ hungUp => toDevice' = toDevice
      /\ ~closed /\ ~hungUp => toDevice' = Append(toDevice, f)
  BY DEF Quit, Goto, Write, readVars
<1>2. f \in FrameType /\ f.id = "QUIT" /\ f.op = op
  BY DEF Frame, FrameType, Requests
<1> HIDE DEF f
<1>3. \A o \in Ops : pc[o] \notin Active
  BY <1>1, SessionTypesOf, OneActive DEF Holding
<1>4. \A o \in Ops : /\ pc'[o] \notin Active
                     /\ pc'[o] # "source" /\ pc[o] # "source"
                     /\ pc'[o] # "body" /\ pc[o] # "body"
  <2>1. \A o \in Ops : pc'[o] = IF o = op THEN "done" ELSE pc[o]
    BY <1>1, SessionTypesOf
  <2>2. QED
    BY <1>3, <2>1 DEF Active, Holding
<1>5. CASE closed \/ hungUp
  BY <1>1, <1>3, <1>4, <1>5, PcKept
<1>6. CASE ~closed /\ ~hungUp
  <2>1. /\ toHost = <<>> /\ ~Replying /\ Asked = {}
        /\ toDevice = <<>> => ~Storing
        /\ toDevice # <<>> => ~Opens(toDevice[Len(toDevice)])
    BY <1>3, <1>6, NothingUnderWay
  <2>2. toDevice' = Append(toDevice, f) /\ ~Continues(f) /\ ~Opens(f)
    BY <1>1, <1>2, <1>6 DEF Continues, Opens
  <2>3. FilesTogether' /\ FilesFollowed'
    BY <1>1, <1>2, <1>4, <1>6, <2>1, <2>2, WriteFiles
  <2>4. \A i \in Asked' : i = Len(toDevice) + 1 /\ toDevice'[i] = f
    BY <1>2, <2>1, <2>2, WriteAsks
  <2>5. ~Replying' /\ toHost' = <<>>
    BY <1>1, <2>1 DEF Replying
  <2>6. AskedOnce' /\ ServesReader' /\ NoBodyOwed'
    BY <1>1, <1>2, <1>4, <2>4, <2>5 DEF AskedOnce, ServesReader, NoBodyOwed
  <2>7. 1..Len(toHost') = {} /\ 1..(Len(toHost') - 1) = {}
    BY <2>5
  <2>8. AnswersReader' /\ RepliesAreOwn'
    BY <1>1, <2>5, <2>7 DEF AnswersReader, Exchange, RepliesAreOwn
  <2>9. QED
    BY <2>3, <2>6, <2>8 DEF Exchange
<1>7. QED
  BY <1>5, <1>6

-----------------------------------------------------------------------------
(* Steps of the reader                                                     *)

\* The frame an operation finds in front is its own.
LEMMA HeadIsMine ==
    ASSUME Session, Exchange, NEW op \in Ops, Reading(op), toHost # <<>>
    PROVE  /\ pc[op] \in Active /\ \A o \in Ops : pc[o] \in Active => o = op
           /\ 1 \in 1..Len(toHost) /\ Head(toHost) = toHost[1]
           /\ toHost[1].op = op /\ toHost[1].id \in Ids(Kind[op])
           /\ toHost[1].id = "BODY" <=> pc[op] = "body"
           /\ ~hungUp => Asked = {}
<1>1. pc[op] \in Active /\ pc[op] \in Holding
  BY DEF Reading, Active, Holding
<1>2. \A o \in Ops : pc[o] \in Active => o = op
  BY <1>1, SessionTypesOf, OneActive
<1>3. toHost \in Seq(FrameType) /\ Len(toHost) \in Nat
  BY SessionTypesOf
<1>4. 1 \in 1..Len(toHost) /\ Head(toHost) = toHost[1]
  BY <1>3
<1>5. toHost[1].op = op /\ toHost[1].id \in Ids(Kind[op])
  BY <1>1, <1>4 DEF Exchange, AnswersReader
<1>6. toHost[1].id = "BODY" <=> pc[op] = "body"
  BY <1>1 DEF Exchange, AnswersReader
<1>7. ~hungUp => Asked = {}
  BY DEF Exchange, AskedOnce
<1>8. QED
  BY <1>1, <1>2, <1>4, <1>5, <1>6, <1>7

\* An operation takes a frame that is not the last of its answer: what comes
\* next is what it waits for next.
LEMMA ReadOn ==
    ASSUME Session, Exchange, NEW op \in Ops, Reading(op), toHost # <<>>,
           toHost[1].id \notin Ends, NEW l \in Active \ {"source"},
           l = "body" <=> toHost[1].id = "DATA",
           pc' = [pc EXCEPT ![op] = l], toHost' = Tail(toHost),
           UNCHANGED <<closed, hungUp, toDevice, dev>>, RepliesAreOwn'
    PROVE  Exchange'
<1>0. /\ pc[op] \in Active /\ \A o \in Ops : pc[o] \in Active => o = op
      /\ ~hungUp => Asked = {}
  BY HeadIsMine
<1>1. /\ \A o \in Ops : pc'[o] = IF o = op THEN l ELSE pc[o]
      /\ Replying => dev.op \in Ops
  BY SessionTypesOf DEF Replying
<1>2. /\ \A o \in Ops : /\ pc'[o] \in Active <=> o = op
                        /\ pc'[o] = "source" <=> pc[o] = "source"
                        /\ pc'[o] = "body" <=> o = op /\ l = "body"
  BY <1>0, <1>1 DEF Reading, Active, Holding
<1>3. Storing' = Storing /\ Replying' = Replying /\ Asked' = Asked
  BY DEF Storing, Replying, Asked
<1>4. FilesTogether' /\ FilesFollowed' /\ AskedOnce'
  BY <1>0, <1>2, <1>3 DEF Exchange, FilesTogether, FilesFollowed, AskedOnce
<1>5. PICK n \in Nat : n = Len(toHost)
  BY SessionTypesOf
<1>6. /\ n >= 1 /\ Len(toHost') = n - 1
      /\ \A i \in 1..(n - 1) : toHost'[i] = toHost[i + 1]
      /\ toHost' # <<>> => n >= 2 /\ toHost'[1] = toHost[2] /\ toHost'[Len(toHost')] = toHost[Len(toHost)]
      /\ toHost' = <<>> => toHost[Len(toHost)] = toHost[1]
  <2>1. PICK q, r : q = toHost /\ r = toHost'
    OBVIOUS
  <2>2. q \in Seq(FrameType) /\ q # <<>> /\ r = Tail(q)
    BY <2>1, SessionTypesOf
  <2>3. /\ Len(q) \in Nat /\ Len(q) >= 1 /\ Len(r) = Len(q) - 1
        /\ \A i \in 1..Len(r) : r[i] = q[i + 1]
        /\ r # <<>> => Len(q) >= 2 /\ Head(r) = q[2] /\ r[1] = q[2] /\ r[Len(r)] = q[Len(q)]
        /\ r = <<>> => Len(q) = 1 /\ q[Len(q)] = q[1]
    BY <2>2, Taken
  <2>4. QED
    BY <1>5, <2>1, <2>3
<1>7. \A i \in 1..(n - 1) : i \in 1..n /\ i + 1 \in 1..n
  BY <1>5
<1>8. ServesReader'
  <2>1. ASSUME ~hungUp', Replying' PROVE dev.op = op /\ Replying /\ ~hungUp
    BY <1>0, <1>1, <1>3, <2>1 DEF Exchange, ServesReader
  <2>2. ASSUME ~hungUp', Replying'
        PROVE  dev.mode = "BODY" <=> IF toHost' = <<>> THEN pc'[dev.op] = "body"
                                                       ELSE toHost'[Len(toHost')].id = "DATA"
    BY <1>2, <1>6, <2>1, <2>2 DEF Exchange, ServesReader
  <2>3. ASSUME ~hungUp', Replying' PROVE \A i \in 1..Len(toHost') : toHost'[i].id \notin Ends
    <3>1. \A i \in 1..n : toHost[i].id \notin Ends
      BY <1>5, <2>1, <2>3 DEF Exchange, ServesReader
    <3>2. QED
      BY <1>6, <1>7, <3>1
  <2>4. ASSUME ~hungUp', Replying'
        PROVE  Kind[dev.op] = CASE dev.mode = "LIST" -> "list" [] dev.mode = "SEND" -> "push"
                                [] OTHER -> "pull"
    BY <2>1, <2>4 DEF Exchange, ServesReader
  <2>5. QED
    BY <1>2, <2>1, <2>2, <2>3, <2>4 DEF ServesReader
<1>9. NoBodyOwed'
  BY <1>2, <1>3, <1>6 DEF Exchange, NoBodyOwed
<1>10. AnswersReader'
  <2>1. \A i \in 1..n : /\ toHost[i].id \in Ids(Kind[toHost[i].op]) /\ toHost[i].op = op
    BY <1>0, <1>5 DEF Exchange, AnswersReader
  <2>2. \A i \in 1..(n - 1) :
          toHost[i].id \notin Ends /\ (toHost[i].id = "DATA" <=> toHost[i + 1].id = "BODY")
    BY <1>5 DEF Exchange, AnswersReader
  <2>3. \A i \in 1..(n - 1) : /\ toHost'[i].id \in Ids(Kind[toHost'[i].op]) /\ toHost'[i].op = op
    BY <1>6, <1>7, <2>1
  <2>4. \A i \in 1..(n - 1 - 1) :
          toHost'[i].id \notin Ends /\ (toHost'[i].id = "DATA" <=> toHost'[i + 1].id = "BODY")
    <3>1. \A i \in 1..(n - 1 - 1) : i \in 1..(n - 1) /\ i + 1 \in 1..(n - 1)
      BY <1>5
    <3>2. QED
      BY <1>6, <2>2, <3>1
  <2>5. toHost' # <<>> => (toHost'[1].id = "BODY" <=> l = "body")
    <3>1. n >= 2 => 1 \in 1..(n - 1)
      BY <1>5
    <3>2. n >= 2 => (toHost[1].id = "DATA" <=> toHost[2].id = "BODY")
      BY <2>2, <3>1
    <3>3. QED
      BY <1>6, <3>2
  <2>6. QED
    BY <1>2, <1>6, <2>3, <2>4, <2>5 DEF AnswersReader
<1>11. QED
  BY <1>4, <1>8, <1>9, <1>10 DEF Exchange

\* An operation takes the end of its answer: nothing is under way any more.
LEMMA ReadEnd ==
    ASSUME Session, Exchange, NEW op \in Ops, Reading(op), toHost # <<>>,
           toHost[1].id \in Ends, NEW l \in Over,
           pc' = [pc EXCEPT ![op] = l], toHost' = Tail(toHost),
           UNCHANGED <<closed, hungUp, toDevice, dev>>, RepliesAreOwn'
    PROVE  Exchange'
<1>0. /\ pc[op] \in Active /\ \A o \in Ops : pc[o] \in Active => o = op
      /\ ~hungUp => Asked = {} /\ 1 \in 1..Len(toHost)
  BY HeadIsMine
<1>1. \A o \in Ops : /\ pc'[o] \notin Active
                     /\ pc'[o] = "source" <=> pc[o] = "source"
                     /\ pc'[o] # "body"
  <2>1. \A o \in Ops : pc'[o] = IF o = op THEN l ELSE pc[o]
    BY SessionTypesOf
  <2>2. QED
    BY <1>0, <2>1 DEF Reading, Active, Holding, Over
<1>2. Storing' = Storing /\ Replying' = Replying /\ Asked' = Asked
  BY DEF Storing, Replying, Asked
<1>3. FilesTogether' /\ FilesFollowed' /\ AskedOnce'
  BY <1>0, <1>1, <1>2 DEF Exchange, FilesTogether, FilesFollowed, AskedOnce
<1>4. toHost' = <<>>
  <2>1. PICK n \in Nat : n = Len(toHost)
    BY SessionTypesOf
  <2>2. 1 \notin 1..(n - 1)
    BY <2>1 DEF Exchange, AnswersReader
  <2>3. n = 1
    BY <2>1, <2>2, SessionTypesOf
  <2>4. toHost \in Seq(FrameType)
    BY SessionTypesOf
  <2>5. PICK q, r : q = toHost /\ r = toHost'
    OBVIOUS
  <2>6. r # <<>> => Len(q) >= 2
    BY <2>4, <2>5, Taken
  <2>7. Len(q) = 1
    BY <2>1, <2>3, <2>5
  <2>8. r = <<>>
    BY <2>6, <2>7
  <2>9. QED
    BY <2>5, <2>8, Zenon
<1>5. 1..Len(toHost') = {} /\ 1..(Len(toHost') - 1) = {}
  BY <1>4
<1>6. ~hungUp => ~Replying
  BY HeadIsMine DEF Exchange, ServesReader
<1>7. ServesReader' /\ NoBodyOwed' /\ AnswersReader'
  BY <1>1, <1>2, <1>4, <1>5, <1>6 DEF ServesReader, NoBodyOwed, AnswersReader
<1>8. QED
  BY <1>3, <1>7 DEF Exchange

\* An operation that reads takes what it asked for.
LEMMA TakeExchange ==
    ASSUME Session, Exchange, NEW op \in Ops,
           TakeReply(op) \/ TakeBody(op) \/ TakeJunk(op)
    PROVE  Exchange'
<1>1. /\ Reading(op) /\ toHost # <<>> /\ toHost' = Tail(toHost)
      /\ UNCHANGED <<closed, hungUp, toDevice, dev>>
  BY DEF TakeReply, TakeBody, TakeJunk, Reading, streamVars
<1>2. /\ Head(toHost) = toHost[1] /\ toHost[1].op = op /\ toHost[1].id \in Ids(Kind[op])
      /\ toHost[1].id = "BODY" <=> pc[op] = "body"
  BY <1>1, HeadIsMine
<1>3. aligned /\ \A o \in Ops : sources[o] \subseteq {o}
  BY DEF Exchange, RepliesAreOwn
<1>4. CASE TakeReply(op)
  <2>1. /\ pc[op] \in {"reply", "header"}
        /\ sources' = [sources EXCEPT ![op] = @ \cup {op}]
    BY <1>2, <1>4 DEF TakeReply
  <2>2. \A o \in Ops : sources'[o] \subseteq {o}
    <3>1. sources \in [Ops -> SUBSET Ops]
      BY DEF Session, TInv, TypeOK
    <3>2. QED
      BY <1>3, <2>1, <3>1
  <2>3. toHost[1].id \in Ids(Kind[op]) \ {"BODY"}
    BY <1>2, <2>1
  <2>4. /\ toHost[1].id \in More(Kind[op]) \cup Final(Kind[op])
        /\ toHost[1].id \in More(Kind[op]) => toHost[1].id \in {"DENT", "DATA"}
        /\ toHost[1].id \in Final(Kind[op]) => toHost[1].id \in Ends
    BY <2>3, KindAssumption DEF Ids, More, Final, Ends
  <2>5. CASE toHost[1].id \in More(Kind[op])
    <3>1. toHost[1].id \in {"DENT", "DATA"} /\ toHost[1].id \notin Ends /\ toHost[1].id \notin Final(Kind[op])
      BY <2>4, <2>5 DEF Ends
    <3>2. /\ Goto(op, IF toHost[1].id = "DATA" THEN "body" ELSE pc[op])
          /\ UNCHANGED aligned
      BY <1>2, <1>4, <2>4, <3>1 DEF TakeReply
    <3>3. PICK l : l = IF toHost[1].id = "DATA" THEN "body" ELSE pc[op]
      OBVIOUS
    <3>4. l \in Active \ {"source"} /\ (l = "body" <=> toHost[1].id = "DATA")
      BY <2>1, <3>3 DEF Active, Holding
    <3>5. pc' = [pc EXCEPT ![op] = l] /\ RepliesAreOwn'
      BY <1>3, <2>2, <3>2, <3>3 DEF Goto, RepliesAreOwn
    <3>6. QED
      BY <1>1, <3>1, <3>4, <3>5, ReadOn
  <2>6. CASE toHost[1].id \in Final(Kind[op])
    <3>1. toHost[1].id \in Ends /\ toHost[1].id \notin More(Kind[op])
      BY <2>4, <2>6 DEF Ends
    <3>2. /\ \E l \in {"done", "failed"} : Goto(op, l)
          /\ aligned' = Fits(op, toHost[1])
      BY <1>2, <1>4, <2>6, <3>1 DEF TakeReply
    <3>3. Fits(op, toHost[1]) = TRUE
      BY <1>2 DEF Fits
    <3>4. PICK l \in Over : pc' = [pc EXCEPT ![op] = l]
      BY <3>2 DEF Goto, Over
    <3>5. RepliesAreOwn'
      BY <2>2, <3>2, <3>3 DEF RepliesAreOwn
    <3>6. QED
      BY <1>1, <3>1, <3>4, <3>5, ReadEnd
  <2>7. QED
    BY <2>4, <2>5, <2>6
<1>5. CASE TakeBody(op)
  <2>1. pc[op] = "body" /\ pc' = [pc EXCEPT ![op] = "yielded"] /\ UNCHANGED <<aligned, sources>>
    BY <1>5 DEF TakeBody, Goto, readVars
  <2>2. toHost[1].id = "BODY" /\ toHost[1].id \notin Ends /\ toHost[1].id # "DATA"
    BY <1>2, <2>1 DEF Ends
  <2>3. "yielded" \in Active \ {"source"}
    BY DEF Active, Holding
  <2>4. RepliesAreOwn'
    BY <1>3, <2>1 DEF RepliesAreOwn
  <2>5. QED
    BY <1>1, <2>1, <2>2, <2>3, <2>4, ReadOn
<1>6. CASE TakeJunk(op)
  BY <1>3, <1>6 DEF TakeJunk
<1>7. QED
  BY <1>4, <1>5, <1>6

\* The other steps of an operation send and take nothing; they are steps to
\* and from the exchange, or its end on a stream that has ended.
LEMMA QuietExchange ==
    ASSUME Session, Exchange, NEW op \in Ops,
           Call(op) \/ Start(op) \/ RefuseDryRun(op) \/ WriteFails(op) \/ TakeEof(op)
             \/ YieldNull(op) \/ Resume(op)
    PROVE  Exchange'
<1>0. pc \in [Ops -> {"idle", "queued"} \cup Holding \cup Over]
  BY SessionTypesOf
<1>1. UNCHANGED <<closed, hungUp, toDevice, toHost, dev, aligned, sources>>
  BY DEF Call, Start, RefuseDryRun, WriteFails, TakeEof, YieldNull, Resume, streamVars, readVars
<1>2. ASSUME NEW l, pc' = [pc EXCEPT ![op] = l],
             \/ pc[op] = "idle" /\ l = "queued"
             \/ pc[op] = "queued" /\ l = "request"
             \/ pc[op] = "request" /\ l = "failed"
             \/ pc[op] = "yielded" /\ l = "header"
      PROVE  Exchange'
  <2>1. \A o \in Ops : pc'[o] = IF o = op THEN l ELSE pc[o]
    BY <1>0, <1>2
  <2>2. \A o \in Ops : /\ pc'[o] \in Active <=> pc[o] \in Active
                       /\ pc'[o] = "source" <=> pc[o] = "source"
                       /\ pc'[o] = "body" <=> pc[o] = "body"
    BY <1>2, <2>1 DEF Active, Holding
  <2>3. QED
    BY <1>1, <2>2, PcKept
<1>3. ASSUME NEW l, pc' = [pc EXCEPT ![op] = l], closed, pc[op] \in Active,
             l = "failed" \/ (l = "yielded" /\ toHost = <<>>)
      PROVE  Exchange'
  <2>1. hungUp
    BY <1>3 DEF Session, ClosedIdle
  <2>2. \A o \in Ops : pc'[o] = IF o = op THEN l ELSE pc[o]
    BY <1>0, <1>3
  <2>3. \A o \in Ops : pc'[o] \in Active => pc[o] \in Active /\ (toHost' # <<>> => pc'[o] = pc[o])
    BY <1>1, <1>3, <2>2 DEF Active, Holding
  <2>4. QED
    BY <1>1, <1>3, <2>1, <2>3, HungKept
<1>4. CASE Call(op) \/ Start(op) \/ RefuseDryRun(op) \/ Resume(op)
  BY <1>2, <1>4 DEF Call, Start, RefuseDryRun, Resume, Goto
<1>5. CASE WriteFails(op)
  <2>1. CASE pc[op] = "request"
    BY <1>2, <1>5, <2>1 DEF WriteFails, Goto
  <2>2. CASE pc[op] = "source"
    <3>1. pc[op] \in Active
      BY <2>2 DEF Active, Holding
    <3>2. QED
      BY <1>3, <1>5, <3>1 DEF WriteFails, Goto
  <2>3. QED
    BY <1>5, <2>1, <2>2 DEF WriteFails
<1>6. CASE TakeEof(op) \/ YieldNull(op)
  <2>1. pc[op] \in Active /\ closed
    BY <1>6 DEF TakeEof, YieldNull, Reading, Active, Holding
  <2>2. QED
    BY <1>3, <1>6, <2>1 DEF TakeEof, YieldNull, Goto
<1>7. QED
  BY <1>4, <1>5, <1>6

-----------------------------------------------------------------------------
(* Steps of the stream                                                     *)

\* A connection that fails takes what is on its way with it; what has arrived
\* is the beginning of the answer.
LEMMA LoseExchange ==
    ASSUME Session, Exchange, Lose
    PROVE  Exchange'
<1>1. /\ hungUp' /\ closed' /\ toDevice' = <<>> /\ dev' = Idle
      /\ UNCHANGED <<pc, aligned, sources>>
  BY DEF Lose, readVars
<1>2. FilesTogether' /\ FilesFollowed' /\ AskedOnce' /\ ServesReader' /\ NoBodyOwed' /\ RepliesAreOwn'
  <2>1. 1..(Len(toDevice') - 1) = {}
    BY <1>1
  <2>2. FilesTogether'
    BY <1>1, <2>1 DEF FilesTogether
  <2>3. QED
    BY <1>1, <2>2 DEF FilesFollowed, AskedOnce, ServesReader, NoBodyOwed, Exchange, RepliesAreOwn
<1>3. PICK m \in Nat : m = Len(toHost)
  BY SessionTypesOf
<1>4. PICK n \in 0..m : toHost' = SubSeq(toHost, 1, n)
  BY <1>3 DEF Lose
<1>5. Len(toHost') = n /\ \A i \in 1..n : toHost'[i] = toHost[i]
  <2>1. toHost \in Seq(FrameType)
    BY SessionTypesOf
  <2>2. QED
    BY <1>3, <1>4, <2>1
<1>6. \A i \in 1..n : i \in 1..m
  BY <1>3, <1>4
<1>7. \A i \in 1..(n - 1) : i \in 1..n /\ i + 1 \in 1..n /\ i \in 1..(m - 1)
  BY <1>3, <1>4
<1>8. \A i \in 1..n :
         /\ toHost'[i].id \in Ids(Kind[toHost'[i].op])
         /\ \A op \in Ops : pc'[op] \in Active => toHost'[i].op = op
  BY <1>1, <1>3, <1>5, <1>6 DEF Exchange, AnswersReader
<1>9. \A i \in 1..(n - 1) :
         toHost'[i].id \notin Ends /\ (toHost'[i].id = "DATA" <=> toHost'[i + 1].id = "BODY")
  BY <1>3, <1>5, <1>7 DEF Exchange, AnswersReader
<1>10. toHost' # <<>> => toHost # <<>> /\ toHost'[1] = toHost[1]
  <2>1. ASSUME toHost' # <<>> PROVE n >= 1
    <3>1. toHost' \in Seq(FrameType)
      BY <1>3, <1>4, SessionTypesOf
    <3>2. QED
      BY <1>4, <1>5, <2>1, <3>1
  <2>2. toHost = <<>> => m = 0
    BY <1>3
  <2>3. n >= 1 => 1 \in 1..n /\ m # 0
    BY <1>3, <1>4
  <2>4. QED
    BY <1>5, <2>1, <2>2, <2>3
<1>11. AnswersReader'
  <2>1. toHost' # <<>> => \A op \in Ops : pc'[op] \in Active =>
           (toHost'[1].id = "BODY" <=> pc'[op] = "body")
    BY <1>1, <1>10 DEF Exchange, AnswersReader
  <2>2. QED
    BY <1>1, <1>5, <1>8, <1>9, <2>1 DEF AnswersReader
<1>12. QED
  BY <1>2, <1>11 DEF Exchange

\* The stream ends on either side.
LEMMA EndExchange ==
    ASSUME Session, Exchange, NoticeClose \/ DevNoticeClose \/ DevHangUp \/ Lose
    PROVE  Exchange'
<1>1. CASE NoticeClose
  BY <1>1, PcKept DEF NoticeClose, readVars
<1>2. CASE DevNoticeClose \/ DevHangUp
  <2>1. /\ hungUp' /\ toDevice' = <<>>
        /\ UNCHANGED <<pc, closed, toHost, aligned, sources>>
    BY <1>2 DEF DevNoticeClose, DevHangUp, hostVars, readVars
  <2>2. 1..(Len(toDevice') - 1) = {}
    BY <2>1
  <2>3. FilesTogether'
    BY <2>1, <2>2 DEF FilesTogether
  <2>4. FilesFollowed' /\ AskedOnce' /\ ServesReader' /\ NoBodyOwed'
    BY <2>1 DEF FilesFollowed, AskedOnce, ServesReader, NoBodyOwed
  <2>5. AnswersReader' /\ RepliesAreOwn'
    BY <2>1 DEF Exchange, AnswersReader, RepliesAreOwn
  <2>6. QED
    BY <2>3, <2>4, <2>5 DEF Exchange
<1>3. QED
  BY <1>1, <1>2, LoseExchange

-----------------------------------------------------------------------------
(* Steps of the sync service                                               *)

\* The service takes a frame: it is in the middle of a file afterwards if the
\* frame belongs to one and does not end it.
LEMMA TailFiles ==
    ASSUME Session, Exchange, ~hungUp, toDevice # <<>>, toDevice' = Tail(toDevice),
           Storing' <=> Opens(toDevice[1]), Storing' => dev'.op = toDevice[1].op, pc' = pc
    PROVE  FilesTogether' /\ FilesFollowed'
<1>1. PICK n \in Nat : n = Len(toDevice)
  BY SessionTypesOf
<1>2. /\ n >= 1 /\ Len(toDevice') = n - 1
      /\ \A i \in 1..(n - 1) : toDevice'[i] = toDevice[i + 1]
      /\ toDevice' # <<>> => n >= 2 /\ Head(toDevice') = toDevice[2]
                             /\ toDevice'[Len(toDevice')] = toDevice[Len(toDevice)]
      /\ toDevice' = <<>> => toDevice[Len(toDevice)] = toDevice[1]
  <2>1. PICK q, r : q = toDevice /\ r = toDevice'
    OBVIOUS
  <2>2. q \in Seq(FrameType) /\ q # <<>> /\ r = Tail(q)
    BY <2>1, SessionTypesOf
  <2>3. /\ Len(q) \in Nat /\ Len(q) >= 1 /\ Len(r) = Len(q) - 1
        /\ \A i \in 1..Len(r) : r[i] = q[i + 1]
        /\ r # <<>> => Len(q) >= 2 /\ Head(r) = q[2] /\ r[Len(r)] = q[Len(q)]
        /\ r = <<>> => Len(q) = 1 /\ q[Len(q)] = q[1]
    BY <2>2, Taken
  <2>4. QED
    BY <1>1, <2>1, <2>3
<1>3. \A i \in 1..(n - 1) : /\ Opens(toDevice[i]) <=> Continues(toDevice[i + 1])
                            /\ Opens(toDevice[i]) => toDevice[i + 1].op = toDevice[i].op
  BY <1>1 DEF Exchange, FilesTogether
<1>4. n >= 2 => /\ Opens(toDevice[1]) <=> Continues(toDevice[2])
                /\ Opens(toDevice[1]) => toDevice[2].op = toDevice[1].op
  <2>1. n >= 2 => 1 \in 1..(n - 1)
    BY <1>1
  <2>2. QED
    BY <1>3, <2>1
<1>5. FilesTogether'
  <2>1. \A i \in 1..(n - 1 - 1) : i \in 1..(n - 1) /\ i + 1 \in 1..(n - 1)
    BY <1>1
  <2>2. \A i \in 1..(n - 1 - 1) : /\ Opens(toDevice'[i]) <=> Continues(toDevice'[i + 1])
                                  /\ Opens(toDevice'[i]) => toDevice'[i + 1].op = toDevice'[i].op
    BY <1>2, <1>3, <2>1
  <2>3. Storing' /\ toDevice' # <<>> => Head(toDevice').op = dev'.op
    BY <1>2, <1>4
  <2>4. QED
    BY <1>2, <2>2, <2>3 DEF FilesTogether
<1>6. FilesFollowed'
  <2>1. toDevice' # <<>> => (Storing' <=> Continues(Head(toDevice')))
    BY <1>2, <1>4
  <2>2. \A op \in Ops : pc[op] = "source" <=>
          Opens(toDevice[Len(toDevice)]) /\ toDevice[Len(toDevice)].op = op
    BY DEF Exchange, FilesFollowed
  <2>3. \A op \in Ops : pc'[op] = "source" <=>
          IF toDevice' = <<>> THEN Storing' /\ dev'.op = op
          ELSE Opens(toDevice'[Len(toDevice')]) /\ toDevice'[Len(toDevice')].op = op
    BY <1>2, <2>2
  <2>4. QED
    BY <2>1, <2>3 DEF FilesFollowed
<1>7. QED
  BY <1>5, <1>6

\* The requests that are left are those that were there.
LEMMA TailAsks ==
    ASSUME Session, toDevice # <<>>, toDevice' = Tail(toDevice)
    PROVE  /\ \A i \in Asked' : i + 1 \in Asked /\ i + 1 # 1 /\ toDevice'[i] = toDevice[i + 1]
           /\ toDevice[1].id \in Requests => 1 \in Asked
           /\ Head(toDevice) = toDevice[1]
           /\ \A i, j \in Asked' : i + 1 = j + 1 => i = j
<1>1. PICK n \in Nat : n = Len(toDevice)
  BY SessionTypesOf
<1>2. /\ n >= 1 /\ Len(toDevice') = n - 1 /\ Head(toDevice) = toDevice[1]
      /\ \A i \in 1..(n - 1) : toDevice'[i] = toDevice[i + 1]
  <2>1. toDevice \in Seq(FrameType)
    BY SessionTypesOf
  <2>2. QED
    BY <1>1, <2>1
<1>3. \A i \in 1..(n - 1) : i + 1 \in 1..n /\ i + 1 # 1 /\ i \in Nat
  BY <1>1
<1>4. 1 \in 1..n
  BY <1>1, <1>2
<1>5. Asked = {i \in 1..n : toDevice[i].id \in Requests}
      /\ Asked' = {i \in 1..(n - 1) : toDevice'[i].id \in Requests}
  BY <1>1, <1>2 DEF Asked
<1>6. \A i, j \in Nat : i + 1 = j + 1 => i = j
  OBVIOUS
<1>7. QED
  BY <1>2, <1>3, <1>4, <1>5, <1>6

\* The service takes a request: it is for the operation that reads, nothing
\* of an answer is under way and no other request waits.
LEMMA RequestTaken ==
    ASSUME Session, Exchange, ~hungUp, toDevice # <<>>, toDevice' = Tail(toDevice),
           Head(toDevice).id \in Requests
    PROVE  /\ Asked' = {} /\ ~Replying /\ toHost = <<>> /\ Head(toDevice) = toDevice[1]
           /\ Head(toDevice).id # "QUIT" =>
                /\ Head(toDevice).op \in Ops /\ pc[Head(toDevice).op] \in Active
                /\ Head(toDevice).id = RequestId[Kind[Head(toDevice).op]]
           /\ \A o \in Ops : pc[o] # "body"
<1>1. /\ 1 \in Asked /\ Head(toDevice) = toDevice[1]
      /\ \A i \in Asked' : i + 1 \in Asked /\ i + 1 # 1
  BY TailAsks
<1>2. /\ ~Replying /\ toHost = <<>>
      /\ toDevice[1].id # "QUIT" => /\ pc[toDevice[1].op] \in Active
                                    /\ toDevice[1].id = RequestId[Kind[toDevice[1].op]]
      /\ \A j \in Asked : j = 1
  BY <1>1 DEF Exchange, AskedOnce
<1>3. Asked' = {}
  BY <1>1, <1>2
<1>4. toDevice[1].op \in Ops
  BY <1>1, SessionTypesOf DEF Asked
<1>5. \A o \in Ops : pc[o] # "body"
  BY <1>2 DEF Exchange, NoBodyOwed
<1>6. QED
  BY <1>1, <1>2, <1>3, <1>4, <1>5

\* The service sends a frame of the answer it is giving.
LEMMA EmitKept ==
    ASSUME Session, Exchange, ~hungUp, Replying, NEW f \in FrameType, f.op = dev.op,
           f.id \in Ids(Kind[dev.op]), f.id = "BODY" <=> dev.mode = "BODY",
           toHost' = Append(toHost, f), UNCHANGED <<pc, closed>>
    PROVE  /\ AnswersReader' /\ toHost' # <<>> /\ toHost'[Len(toHost')] = f
           /\ f.id \notin Ends => \A i \in 1..Len(toHost') : toHost'[i].id \notin Ends
<1>0. PICK n \in Nat : n = Len(toHost)
  BY SessionTypesOf
<1>1. /\ Len(toHost') = n + 1 /\ toHost' # <<>>
      /\ \A i \in 1..n : toHost'[i] = toHost[i]
      /\ toHost'[n + 1] = f /\ toHost'[Len(toHost')] = f
      /\ toHost = <<>> => toHost'[1] = f /\ n = 0
      /\ toHost # <<>> => toHost'[1] = toHost[1] /\ n >= 1
  <2>1. PICK q, r : q = toHost /\ r = toHost'
    OBVIOUS
  <2>2. q \in Seq(FrameType) /\ r = Append(q, f)
    BY <2>1, SessionTypesOf
  <2>3. /\ Len(q) \in Nat /\ Len(r) = Len(q) + 1 /\ r # <<>>
        /\ \A i \in 1..Len(q) : r[i] = q[i]
        /\ r[Len(q) + 1] = f /\ r[Len(r)] = f
        /\ q = <<>> => Head(r) = f /\ r[1] = f
        /\ q # <<>> => Head(r) = Head(q) /\ r[1] = q[1] /\ q[Len(q)] = q[Len(q)] /\ Len(q) >= 1
    BY <2>2, Added
  <2>4. q = <<>> => Len(q) = 0
    OBVIOUS
  <2>5. QED
    BY <1>0, <2>1, <2>3, <2>4
<1>2. /\ dev.op \in Ops /\ pc[dev.op] \in Active
      /\ \A o \in Ops : pc[o] \in Active => o = dev.op
      /\ \A i \in 1..n : toHost[i].id \notin Ends
      /\ dev.mode = "BODY" <=> IF toHost = <<>> THEN pc[dev.op] = "body"
                                                ELSE toHost[Len(toHost)].id = "DATA"
  <2>1. dev.op \in Ops
    BY SessionTypesOf DEF Replying
  <2>2. /\ pc[dev.op] \in Active
        /\ \A i \in 1..n : toHost[i].id \notin Ends
        /\ dev.mode = "BODY" <=> IF toHost = <<>> THEN pc[dev.op] = "body"
                                                  ELSE toHost[Len(toHost)].id = "DATA"
    BY <1>0 DEF Exchange, ServesReader
  <2>3. pc[dev.op] \in Holding
    BY <2>2 DEF Active
  <2>4. QED
    BY <2>1, <2>2, <2>3, SessionTypesOf, OneActive
<1>3. 1..(n + 1) = 1..n \cup {n + 1}
  BY <1>0
<1>4. \A i \in 1..n :
         /\ toHost[i].id \in Ids(Kind[toHost[i].op])
         /\ \A op \in Ops : pc[op] \in Active => toHost[i].op = op
         /\ ~closed => pc[toHost[i].op] \in Active
  BY <1>0 DEF Exchange, AnswersReader
<1>5. \A i \in 1..(n + 1) :
         /\ toHost'[i].id \in Ids(Kind[toHost'[i].op])
         /\ \A op \in Ops : pc'[op] \in Active => toHost'[i].op = op
         /\ ~closed' => pc'[toHost'[i].op] \in Active
  <2>1. ASSUME NEW i \in 1..n
        PROVE  /\ toHost'[i].id \in Ids(Kind[toHost'[i].op])
               /\ \A op \in Ops : pc'[op] \in Active => toHost'[i].op = op
               /\ ~closed' => pc'[toHost'[i].op] \in Active
    <3>1. toHost'[i] = toHost[i]
      BY <1>1
    <3>2. QED
      BY <1>4, <3>1
  <2>2. /\ f.id \in Ids(Kind[f.op]) /\ pc'[f.op] \in Active
        /\ \A op \in Ops : pc'[op] \in Active => f.op = op
    BY <1>2
  <2>3. QED
    BY <1>1, <1>3, <2>1, <2>2
<1>6. \A i \in 1..n :
         toHost'[i].id \notin Ends /\ (toHost'[i].id = "DATA" <=> toHost'[i + 1].id = "BODY")
  <2>1. ASSUME NEW i \in 1..n
        PROVE  toHost'[i].id = "DATA" <=> toHost'[i + 1].id = "BODY"
    <3>1. CASE i = n
      <4>1. toHost # <<>> /\ toHost[Len(toHost)] = toHost[n]
        BY <1>0, <3>1
      <4>2. toHost'[n] = toHost[n]
        BY <1>1, <3>1
      <4>3. QED
        BY <1>1, <1>2, <3>1, <4>1, <4>2
    <3>2. CASE i # n
      <4>1. i \in 1..(n - 1) /\ i + 1 \in 1..n
        BY <1>0, <3>2
      <4>2. toHost[i].id = "DATA" <=> toHost[i + 1].id = "BODY"
        BY <1>0, <4>1 DEF Exchange, AnswersReader
      <4>3. QED
        BY <1>1, <4>1, <4>2
    <3>3. QED
      BY <3>1, <3>2
  <2>2. QED
    BY <1>1, <1>2, <2>1
<1>7. \A op \in Ops : pc'[op] \in Active => (toHost'[1].id = "BODY" <=> pc'[op] = "body")
  <2>1. CASE toHost = <<>>
    BY <1>1, <1>2, <2>1
  <2>2. CASE toHost # <<>>
    BY <1>1, <2>2 DEF Exchange, AnswersReader
  <2>3. QED
    BY <2>1, <2>2
<1>8. AnswersReader'
  <2>1. Len(toHost') - 1 = n
    BY <1>0, <1>1
  <2>2. QED
    BY <1>1, <1>5, <1>6, <1>7, <2>1 DEF AnswersReader
<1>9. f.id \notin Ends => \A i \in 1..Len(toHost') : toHost'[i].id \notin Ends
  BY <1>1, <1>2, <1>3
<1>10. QED
  BY <1>1, <1>8, <1>9

\* stat() is answered at once.
LEMMA StatExchange ==
    ASSUME Session, Exchange, DevStat
    PROVE  Exchange'
<1>1. /\ ~hungUp /\ toDevice # <<>> /\ toDevice' = Tail(toDevice) /\ Head(toDevice).id = "STAT"
      /\ dev.mode = "idle" /\ toHost' = Append(toHost, Head(toDevice))
      /\ UNCHANGED <<pc, closed, hungUp, aligned, sources, dev>>
  BY DEF DevStat, DevTake, Emit, hostVars, readVars
<1>2. /\ Asked' = {} /\ ~Replying /\ toHost = <<>> /\ Head(toDevice) = toDevice[1]
      /\ Head(toDevice).op \in Ops /\ pc[Head(toDevice).op] \in Active
      /\ "STAT" = RequestId[Kind[Head(toDevice).op]]
      /\ \A o \in Ops : pc[o] # "body"
  BY <1>1, RequestTaken DEF Requests
<1>3. PICK h : h = Head(toDevice)
  OBVIOUS
<1>4. /\ h.id = "STAT" /\ h.op \in Ops /\ pc[h.op] \in Active /\ Kind[h.op] = "stat"
      /\ \A o \in Ops : pc[o] \in Active => o = h.op
  <2>1. Kind[h.op] = "stat"
    BY <1>2, <1>3, KindAssumption DEF RequestId
  <2>2. pc[h.op] \in Holding
    BY <1>2, <1>3 DEF Active
  <2>3. QED
    BY <1>1, <1>2, <1>3, <2>1, <2>2, SessionTypesOf, OneActive
<1>5. toHost' # <<>> /\ Len(toHost') = 1 /\ toHost'[1] = h
  BY <1>1, <1>2, <1>3
<1>6. Storing' = Storing /\ Replying' = Replying /\ ~Storing
  BY <1>1 DEF Storing, Replying
<1>7. FilesTogether' /\ FilesFollowed'
  <2>1. ~Opens(toDevice[1])
    BY <1>1, <1>2 DEF Opens
  <2>2. QED
    BY <1>1, <1>6, <2>1, TailFiles
<1>8. AskedOnce' /\ ServesReader' /\ NoBodyOwed'
  BY <1>2, <1>4, <1>5, <1>6 DEF AskedOnce, ServesReader, NoBodyOwed
<1>9. AnswersReader'
  <2>1. 1..Len(toHost') = {1} /\ 1..(Len(toHost') - 1) = {}
    BY <1>5
  <2>2. "STAT" \in Ids("stat")
    BY DEF Ids
  <2>3. QED
    BY <1>1, <1>2, <1>4, <1>5, <2>1, <2>2 DEF AnswersReader
<1>10. QED
  BY <1>1, <1>7, <1>8, <1>9 DEF Exchange, RepliesAreOwn

\* A longer answer begins, or a file.
LEMMA BeginExchange ==
    ASSUME Session, Exchange, DevBegin
    PROVE  Exchange'
<1>1. /\ ~hungUp /\ toDevice # <<>> /\ toDevice' = Tail(toDevice)
      /\ Head(toDevice).id \in {"LIST", "RECV", "SEND"}
      /\ dev' = [mode |-> Head(toDevice).id, op |-> Head(toDevice).op, n |-> 0]
      /\ UNCHANGED <<pc, closed, hungUp, aligned, sources, toHost>>
  BY DEF DevBegin, Become, DevTake, hostVars, readVars
<1>2. /\ Asked' = {} /\ toHost = <<>> /\ Head(toDevice) = toDevice[1]
      /\ Head(toDevice).op \in Ops /\ pc[Head(toDevice).op] \in Active
      /\ Head(toDevice).id = RequestId[Kind[Head(toDevice).op]]
      /\ \A o \in Ops : pc[o] # "body"
  BY <1>1, RequestTaken DEF Requests
<1>3. PICK h : h = Head(toDevice)
  OBVIOUS
<1>4. dev'.mode = h.id /\ dev'.op = h.op /\ h.id \in {"LIST", "RECV", "SEND"}
  BY <1>1, <1>3
<1>5. Kind[h.op] = CASE h.id = "LIST" -> "list" [] h.id = "SEND" -> "push" [] OTHER -> "pull"
  BY <1>2, <1>3, <1>4, KindAssumption DEF RequestId
<1>6. FilesTogether' /\ FilesFollowed'
  <2>1. Storing' <=> Opens(toDevice[1])
    BY <1>2, <1>3, <1>4 DEF Storing, Opens
  <2>2. QED
    BY <1>1, <1>2, <1>3, <1>4, <2>1, TailFiles
<1>7. toHost' = <<>> /\ 1..Len(toHost') = {} /\ 1..(Len(toHost') - 1) = {}
  BY <1>1, <1>2
<1>8. ServesReader'
  BY <1>1, <1>2, <1>3, <1>4, <1>5, <1>7 DEF ServesReader
<1>9. AskedOnce' /\ NoBodyOwed' /\ AnswersReader'
  BY <1>1, <1>2, <1>4, <1>7 DEF AskedOnce, NoBodyOwed, AnswersReader, Replying
<1>10. QED
  BY <1>1, <1>6, <1>8, <1>9 DEF Exchange, RepliesAreOwn

\* adbd is told that the session is over.
LEMMA ByeExchange ==
    ASSUME Session, Exchange, DevQuit
    PROVE  Exchange'
<1>1. /\ ~hungUp /\ hungUp' /\ toDevice # <<>> /\ toDevice' = Tail(toDevice)
      /\ Head(toDevice).id = "QUIT" /\ dev.mode = "idle"
      /\ UNCHANGED <<pc, closed, aligned, sources, toHost, dev>>
  BY DEF DevQuit, DevTake, hostVars, readVars
<1>2. Head(toDevice) = toDevice[1]
  BY <1>1, RequestTaken DEF Requests
<1>3. FilesTogether'
  <2>1. ~Storing' /\ ~Opens(toDevice[1])
    BY <1>1, <1>2 DEF Storing, Opens
  <2>2. QED
    BY <1>1, <2>1, TailFiles
<1>4. FilesFollowed' /\ AskedOnce' /\ ServesReader' /\ NoBodyOwed'
  BY <1>1 DEF FilesFollowed, AskedOnce, ServesReader, NoBodyOwed
<1>5. AnswersReader'
  BY <1>1 DEF Exchange, AnswersReader
<1>6. QED
  BY <1>1, <1>3, <1>4, <1>5 DEF Exchange, RepliesAreOwn

\* A frame of an answer goes out, the last or another.
LEMMA EmitExchange ==
    ASSUME Session, Exchange, DevEntry \/ DevBody \/ DevEnd \/ DevStoreFails
    PROVE  Exchange'
<1>0. /\ Replying /\ ~hungUp
      /\ UNCHANGED <<pc, closed, hungUp, aligned, sources, toDevice>>
  BY DEF DevEntry, DevBody, DevEnd, DevStoreFails, hostVars, readVars, Replying
<1>1. /\ dev.op \in Ops /\ pc[dev.op] \in Active
      /\ Kind[dev.op] = CASE dev.mode = "LIST" -> "list" [] dev.mode = "SEND" -> "push"
                          [] OTHER -> "pull"
      /\ Asked = {}
  BY <1>0, SessionTypesOf DEF Exchange, ServesReader, AskedOnce, Replying
<1>2. \A m \in {"LIST", "RECV", "BODY", "SEND", "drain", "idle"} :
         dev' = [dev EXCEPT !.mode = m] => dev'.mode = m /\ dev'.op = dev.op
  BY DEF Session, TInv, TypeOK
<1>3. PICK f : /\ f \in FrameType /\ f.op = dev.op /\ f.id \in Ids(Kind[dev.op])
               /\ toHost' = Append(toHost, f)
               /\ \/ dev.mode = "LIST" /\ f.id = "DENT" /\ dev'.mode = "LIST" /\ dev'.op = dev.op
                  \/ dev.mode = "RECV" /\ f.id = "DATA" /\ dev'.mode = "BODY" /\ dev'.op = dev.op
                  \/ dev.mode = "BODY" /\ f.id = "BODY" /\ dev'.mode = "RECV" /\ dev'.op = dev.op
                  \/ dev.mode = "SEND" /\ f.id = "FAIL" /\ dev'.mode = "drain" /\ dev'.op = dev.op
                  \/ dev.mode \in {"LIST", "RECV"} /\ f.id \in {"DONE", "FAIL"} /\ dev'.mode = "idle"
  <2>1. \A id \in {"DENT", "DATA", "BODY", "DONE", "FAIL"} :
          /\ Frame(id, dev.op) \in FrameType /\ Frame(id, dev.op).id = id
          /\ Frame(id, dev.op).op = dev.op
    BY <1>1 DEF Frame, FrameType
  <2>2. dev \in [mode : {"idle", "LIST", "RECV", "BODY", "SEND", "drain"}, op : Ops \cup {None},
                 n : 0..MaxFrames]
    BY DEF Session, TInv, TypeOK
  <2>3. CASE DevEntry
    <3>1. CASE dev.mode = "LIST" /\ Emit(Frame("DENT", dev.op)) /\ dev' = [dev EXCEPT !.n = @ + 1]
      <4>1. dev'.mode = "LIST" /\ dev'.op = dev.op
        BY <2>2, <3>1
      <4>2. "DENT" \in Ids(Kind[dev.op])
        BY <1>1, <3>1 DEF Ids
      <4>3. QED
        BY <2>1, <3>1, <4>1, <4>2 DEF Emit
    <3>2. CASE dev.mode = "RECV" /\ Emit(Frame("DATA", dev.op))
               /\ dev' = [dev EXCEPT !.n = @ + 1, !.mode = "BODY"]
      <4>1. dev'.mode = "BODY" /\ dev'.op = dev.op
        BY <2>2, <3>2
      <4>2. "DATA" \in Ids(Kind[dev.op])
        BY <1>1, <3>2 DEF Ids
      <4>3. QED
        BY <2>1, <3>2, <4>1, <4>2 DEF Emit
    <3>3. QED
      BY <2>3, <3>1, <3>2 DEF DevEntry
  <2>4. CASE DevBody
    <3>1. dev'.mode = "RECV" /\ dev'.op = dev.op /\ dev.mode = "BODY"
      BY <1>2, <2>4 DEF DevBody
    <3>2. "BODY" \in Ids(Kind[dev.op])
      BY <1>1, <3>1 DEF Ids
    <3>3. QED
      BY <2>1, <2>4, <3>1, <3>2 DEF DevBody, Emit
  <2>5. CASE DevEnd
    <3>1. dev'.mode = "idle" /\ dev.mode \in {"LIST", "RECV"}
      BY <2>5 DEF DevEnd, Idle
    <3>2. "DONE" \in Ids(Kind[dev.op]) /\ (dev.mode = "RECV" => "FAIL" \in Ids(Kind[dev.op]))
      BY <1>1, <3>1 DEF Ids
    <3>3. QED
      BY <2>1, <2>5, <3>1, <3>2 DEF DevEnd, Emit
  <2>6. CASE DevStoreFails
    <3>1. dev'.mode = "drain" /\ dev'.op = dev.op /\ dev.mode = "SEND"
      BY <2>6 DEF DevStoreFails, Become
    <3>2. "FAIL" \in Ids(Kind[dev.op])
      BY <1>1, <3>1 DEF Ids
    <3>3. QED
      BY <2>1, <2>6, <3>1, <3>2 DEF DevStoreFails, Emit
  <2>7. QED
    BY <2>3, <2>4, <2>5, <2>6
<1>4. f.id = "BODY" <=> dev.mode = "BODY"
  BY <1>3
<1>5. /\ AnswersReader' /\ toHost' # <<>> /\ toHost'[Len(toHost')] = f
      /\ f.id \notin Ends => \A i \in 1..Len(toHost') : toHost'[i].id \notin Ends
  BY <1>0, <1>3, <1>4, EmitKept
<1>6. (Storing' <=> Storing) /\ (Storing => dev'.op = dev.op)
  BY <1>3 DEF Storing
<1>7. FilesTogether' /\ FilesFollowed'
  BY <1>0, <1>6 DEF Exchange, FilesTogether, FilesFollowed
<1>8. AskedOnce'
  BY <1>0, <1>1 DEF AskedOnce, Asked
<1>9. ServesReader'
  <2>1. CASE dev'.mode \in {"idle", "drain"}
    BY <2>1 DEF ServesReader, Replying
  <2>2. CASE dev'.mode \notin {"idle", "drain"}
    <3>1. /\ dev'.op = dev.op /\ f.id \in {"DENT", "DATA", "BODY"}
          /\ dev'.mode = "BODY" <=> f.id = "DATA"
          /\ Kind[dev.op] = CASE dev'.mode = "LIST" -> "list" [] dev'.mode = "SEND" -> "push"
                              [] OTHER -> "pull"
      BY <1>1, <1>3, <2>2
    <3>2. f.id \notin Ends
      BY <3>1 DEF Ends
    <3>3. QED
      BY <1>0, <1>1, <1>5, <3>1, <3>2 DEF ServesReader
  <2>3. QED
    BY <2>1, <2>2
<1>10. NoBodyOwed'
  <2>1. ~Replying' => f.id # "DATA"
    BY <1>3 DEF Replying
  <2>2. QED
    BY <1>5, <2>1 DEF NoBodyOwed
<1>11. QED
  BY <1>0, <1>5, <1>7, <1>8, <1>9, <1>10 DEF Exchange, RepliesAreOwn

\* A frame of a file is stored, or thrown away after a failure.
LEMMA StoreExchange ==
    ASSUME Session, Exchange, DevStore \/ DevDrain
    PROVE  Exchange'
<1>1. /\ ~hungUp /\ toDevice # <<>> /\ toDevice' = Tail(toDevice) /\ Storing
      /\ Head(toDevice).id \in {"DATA", "DONE"} /\ dev.mode \in {"SEND", "drain"}
      /\ dev' = IF Head(toDevice).id = "DONE" THEN Idle ELSE dev
      /\ dev.mode = "SEND" => Head(toDevice).id = "DATA"
      /\ UNCHANGED <<pc, closed, hungUp, aligned, sources, toHost>>
  BY DEF DevStore, DevDrain, DevTake, hostVars, readVars, Storing
<1>2. /\ Head(toDevice) = toDevice[1]
      /\ \A i \in Asked' : i + 1 \in Asked /\ toDevice'[i] = toDevice[i + 1]
      /\ \A i, j \in Asked' : i + 1 = j + 1 => i = j
  BY <1>1, TailAsks
<1>3. Head(toDevice).op = dev.op
  BY <1>1 DEF Exchange, FilesTogether
<1>4. Storing' <=> Opens(toDevice[1])
  BY <1>1, <1>2 DEF Storing, Opens, Idle
<1>5. Storing' => dev' = dev /\ dev'.op = toDevice[1].op
  BY <1>1, <1>2, <1>3, <1>4 DEF Opens
<1>6. FilesTogether' /\ FilesFollowed'
  BY <1>1, <1>4, <1>5, TailFiles
<1>7. Replying' <=> Replying
  BY <1>1 DEF Replying, Idle
<1>8. Replying' => dev' = dev
  BY <1>1 DEF Replying, Idle
<1>9. AskedOnce'
  <2>1. ASSUME NEW i \in Asked'
        PROVE  /\ ~Replying' /\ toHost' = <<>>
               /\ IF toDevice'[i].id = "QUIT" THEN closed'
                  ELSE pc'[toDevice'[i].op] \in Active /\ toDevice'[i].id = RequestId[Kind[toDevice'[i].op]]
               /\ \A j \in Asked' : j = i
    <3>1. i + 1 \in Asked /\ toDevice'[i] = toDevice[i + 1]
      BY <1>2
    <3>2. /\ ~Replying /\ toHost = <<>>
          /\ IF toDevice[i + 1].id = "QUIT" THEN closed
             ELSE pc[toDevice[i + 1].op] \in Active
                  /\ toDevice[i + 1].id = RequestId[Kind[toDevice[i + 1].op]]
          /\ \A j \in Asked : j = i + 1
      BY <1>1, <3>1 DEF Exchange, AskedOnce
    <3>3. \A j \in Asked' : j = i
      BY <1>2, <3>2
    <3>4. QED
      BY <1>1, <1>7, <3>1, <3>2, <3>3
  <2>2. QED
    BY <2>1 DEF AskedOnce
<1>10. ServesReader' /\ NoBodyOwed'
  BY <1>1, <1>7, <1>8 DEF Exchange, ServesReader, NoBodyOwed
<1>11. AnswersReader'
  BY <1>1 DEF Exchange, AnswersReader
<1>12. QED
  BY <1>1, <1>6, <1>9, <1>10, <1>11 DEF Exchange, RepliesAreOwn

\* The file is complete and answered.
LEMMA StoredExchange ==
    ASSUME Session, Exchange, DevStored
    PROVE  Exchange'
<1>1. /\ ~hungUp /\ toDevice # <<>> /\ toDevice' = Tail(toDevice) /\ Head(toDevice).id = "DONE"
      /\ dev.mode = "SEND" /\ dev' = Idle
      /\ UNCHANGED <<pc, closed, hungUp, aligned, sources>>
  BY DEF DevStored, DevTake, hostVars, readVars
<1>2. Replying /\ ~Replying' /\ ~Storing'
  BY <1>1 DEF Replying, Storing, Idle
<1>3. dev.op \in Ops /\ Kind[dev.op] = "push" /\ Asked = {}
  BY <1>1, <1>2, SessionTypesOf DEF Exchange, ServesReader, AskedOnce, Replying
<1>4. PICK f : /\ f \in FrameType /\ f.op = dev.op /\ f.id \in {"OKAY", "FAIL"}
               /\ toHost' = Append(toHost, f)
  <2>1. \A id \in {"OKAY", "FAIL"} :
          /\ Frame(id, dev.op) \in FrameType /\ Frame(id, dev.op).id = id
          /\ Frame(id, dev.op).op = dev.op
    BY <1>3 DEF Frame, FrameType
  <2>2. QED
    BY <2>1 DEF DevStored, Emit
<1>5. f.id \in Ids(Kind[dev.op]) /\ f.id # "BODY" /\ f.id # "DATA" /\ dev.mode # "BODY"
  BY <1>1, <1>3, <1>4 DEF Ids
<1>6. AnswersReader' /\ toHost' # <<>> /\ toHost'[Len(toHost')] = f
  BY <1>1, <1>2, <1>4, <1>5, EmitKept
<1>7. Head(toDevice) = toDevice[1] /\ Asked' = {}
  BY <1>1, <1>3, TailAsks
<1>8. FilesTogether' /\ FilesFollowed'
  <2>1. ~Opens(toDevice[1])
    BY <1>1, <1>7 DEF Opens
  <2>2. QED
    BY <1>1, <1>2, <2>1, TailFiles
<1>9. AskedOnce' /\ ServesReader' /\ NoBodyOwed'
  BY <1>2, <1>5, <1>6, <1>7 DEF AskedOnce, ServesReader, NoBodyOwed
<1>10. QED
  BY <1>1, <1>6, <1>8, <1>9 DEF Exchange, RepliesAreOwn

\* adbd is never confused.
LEMMA NeverConfused ==
    ASSUME Session, Exchange
    PROVE  ~DevConfused
<1> SUFFICES ASSUME DevConfused PROVE FALSE
  OBVIOUS
<1>1. ~hungUp /\ toDevice # <<>> /\ toDevice' = Tail(toDevice)
  BY DEF DevConfused, DevTake
<1>2. /\ toDevice[1].id \in Requests => 1 \in Asked
      /\ Head(toDevice) = toDevice[1]
  BY <1>1, TailAsks
<1>3. Storing <=> Continues(Head(toDevice))
  BY <1>1 DEF Exchange, FilesFollowed
<1>4. CASE Head(toDevice).id \in Requests /\ dev.mode \in {"SEND", "drain"}
  BY <1>3, <1>4 DEF Storing, Continues, Requests
<1>5. CASE Head(toDevice).id \in {"DATA", "DONE"} /\ dev.mode = "idle"
  BY <1>3, <1>5 DEF Storing, Continues
<1>6. QED
  BY <1>4, <1>5 DEF DevConfused, DevTake

-----------------------------------------------------------------------------
(* The theorems                                                            *)

\* The exchange is an invariant for as long as nobody leaves it half way.
LEMMA NextExchange ==
    Session /\ (Drained => Exchange) /\ [Next]_svars => (Drained => Exchange)'
<1> SUFFICES ASSUME Session, Drained => Exchange, [Next]_svars, Drained' PROVE Exchange'
  OBVIOUS
<1>1. Exchange
  BY DrainedBefore DEF Session
<1>2. CASE UNCHANGED svars
  BY <1>1, <1>2, PcKept DEF svars, streamVars, readVars
<1>3. ASSUME NEW op \in Ops, Call(op) \/ OpStep(op) \/ SourceFails(op) \/ Resume(op) \/ Break(op)
      PROVE  Exchange'
  <2>1. CASE SourceFails(op) \/ Break(op)
    <3>1. pc'[op] = "left"
      BY <2>1, SessionTypesOf DEF SourceFails, Break, Goto
    <3>2. QED
      BY <3>1 DEF Drained
  <2>2. CASE SendRequest(op)
    BY <1>1, <2>2, RequestExchange
  <2>3. CASE PushChunk(op) \/ PushDone(op)
    BY <1>1, <2>3, PushExchange
  <2>4. CASE Quit(op)
    BY <1>1, <2>4, QuitExchange
  <2>5. CASE TakeReply(op) \/ TakeBody(op) \/ TakeJunk(op)
    BY <1>1, <2>5, TakeExchange
  <2>6. CASE Call(op) \/ Start(op) \/ RefuseDryRun(op) \/ WriteFails(op) \/ TakeEof(op)
             \/ YieldNull(op) \/ Resume(op)
    BY <1>1, <2>6, QuietExchange
  <2>7. QED
    BY <1>3, <2>1, <2>2, <2>3, <2>4, <2>5, <2>6 DEF OpStep
<1>4. CASE DevStep \/ DevStoreFails
  BY <1>1, <1>4, StatExchange, BeginExchange, ByeExchange, EmitExchange, StoreExchange,
     StoredExchange, NeverConfused, EndExchange DEF DevStep
<1>5. CASE DevHangUp \/ NoticeClose \/ Lose
  BY <1>1, <1>5, EndExchange
<1>6. QED
  BY <1>2, <1>3, <1>4, <1>5 DEF Next

\* Nothing is under way at first.
LEMMA InitExchange == Init => (Drained => Exchange)
<1> SUFFICES ASSUME Init PROVE Exchange
  OBVIOUS
<1>1. /\ toDevice = <<>> /\ toHost = <<>> /\ dev = Idle /\ hungUp = FALSE
      /\ \A op \in Ops : pc[op] = "idle" /\ sources[op] = {} /\ aligned
  BY DEF Init
<1>2. ~Storing /\ ~Replying
  BY <1>1 DEF Idle, Storing, Replying
<1>3. /\ 1..Len(toDevice) = {} /\ 1..(Len(toDevice) - 1) = {} /\ Asked = {}
      /\ 1..Len(toHost) = {} /\ 1..(Len(toHost) - 1) = {}
  BY <1>1 DEF Asked
<1>4. aligned
  BY DEF Init
<1>5. QED
  BY <1>1, <1>2, <1>3, <1>4
     DEF Exchange, FilesTogether, FilesFollowed, AskedOnce, ServesReader, NoBodyOwed, AnswersReader,
         RepliesAreOwn

\* "Interleaving another request would corrupt the reply stream" (sync.js): an
\* operation reads only what answers its own request, and never loses the
\* frame boundaries, however many operations are called, with queues of any
\* length, until one leaves its exchange half way.
THEOREM RepliesStayOwn == Spec => []RepliesAreOwnIfDrained
<1>1. Session <=> TInv /\ ChainInv /\ ClosedIdle
  BY DEF Session
<1>2. (Drained => Exchange) => RepliesAreOwnIfDrained
  BY DEF Exchange, RepliesAreOwnIfDrained
<1>3. Init => ClosedIdle
  BY InitEnds
<1>4. QED
  BY InitTypes, NextTypes, InitChain, NextChain, <1>3, NextClosedIdle, InitExchange, NextExchange,
     <1>1, <1>2, PTL DEF Spec

\* Between a SEND and its DONE adbd is sent that file and nothing else.
THEOREM FilesArriveWhole == Spec => []FileIsWhole
<1>1. Session <=> TInv /\ ChainInv /\ ClosedIdle
  BY DEF Session
<1>2. (Drained => Exchange) => FileIsWhole
  BY DEF Exchange, FilesTogether, FileIsWhole, Storing, Opens
<1>3. Init => ClosedIdle
  BY InitEnds
<1>4. QED
  BY InitTypes, NextTypes, InitChain, NextChain, <1>3, NextClosedIdle, InitExchange, NextExchange,
     <1>1, <1>2, PTL DEF Spec
=============================================================================

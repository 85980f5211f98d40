---------------------------- MODULE SyncSession ----------------------------
(***************************************************************************)
(* One "sync:" session of webadb: AdbSync (webadb/src/services/sync.js)    *)
(* reading through a StreamReader (webadb/src/reader.js) and talking to    *)
(* the sync service of adbd.  Requests carry no number: a reply belongs to *)
(* the request that is next in line, so the session is only correct while  *)
(* one operation at a time has it.                                         *)
(*                                                                         *)
(* The stream below (AdbConnection) is a pair of bounded queues of         *)
(* protocol frames: a write waits while toDevice is full, adbd waits while *)
(* toHost is full.  The header and the payload of a DATA reply are two     *)
(* frames, since pull() awaits them separately.  When an operation takes   *)
(* more or fewer bytes than a frame has, the reader loses the frame        *)
(* boundaries for good: aligned becomes FALSE, and what is read from then  *)
(* on is assumed not to spell an id the reader expects.                    *)
(***************************************************************************)
EXTENDS Naturals, FiniteSets, SequencesExt

CONSTANTS
    Ops,           \* one member per operation called on the session
    Kind,          \* [Ops -> {"stat", "list", "pull", "push", "close"}]
    Unsupported,   \* pushes that ask for a dry run sendrecv_v2 would be needed for
    None,          \* not an operation
    ToDeviceCap,   \* frames the stream takes before write() waits
    ToHostCap,     \* frames adbd may have under way before it waits
    MaxFrames,     \* bound: DENT or DATA frames per request, either way
    MaxCalls,      \* bound: operations called on one session
    MayBreak,      \* a consumer of pull() may leave its loop early
    SourceMayFail, \* the content given to push() may fail while it is read
    MayHangUp,     \* adbd may close the stream
    MayLose        \* the connection may fail

ASSUME KindAssumption == Kind \in [Ops -> {"stat", "list", "pull", "push", "close"}]
ASSUME NoneAssumption == None \notin Ops
ASSUME UnsupportedAssumption == Unsupported \subseteq {op \in Ops : Kind[op] = "push"}
ASSUME CapAssumption == /\ ToDeviceCap \in Nat \ {0} /\ ToHostCap \in Nat \ {0}
                        /\ MaxFrames \in Nat /\ MaxCalls \in Nat
ASSUME FlagAssumption == {MayBreak, SourceMayFail, MayHangUp, MayLose} \subseteq BOOLEAN

VARIABLES
    busy,     \* #busy: resolves when this operation is over; None at first
    prev,     \* per operation, the value of #busy it was chained to
    pc,       \* where the operation is
    sent,     \* DATA frames a push has sent
    closed,   \* the host end of the stream is closed
    lost,     \* ... with an error
    hungUp,   \* the adbd end is closed
    toDevice, toHost,
    aligned,
    dev,      \* what the sync service does: [mode, op, n]
    before,   \* auxiliary: the calls made before this one
    sources,  \* auxiliary: the requests whose replies an operation has read
    nulls     \* auxiliary: operations that were handed null as a chunk

svars == <<busy, prev, before, pc, sent, closed, lost, hungUp, toDevice, toHost, aligned,
           dev, sources, nulls>>
lockVars == <<busy, prev, before>>
streamVars == <<closed, lost, hungUp>>
readVars == <<aligned, sources, nulls>>

RequestId == [stat |-> "STAT", list |-> "LIST", pull |-> "RECV", push |-> "SEND",
              close |-> "QUIT"]
Frame(id, op) == [id |-> id, op |-> op]
Idle == [mode |-> "idle", op |-> None, n |-> 0]

\* "left": over with frames of its exchange still to come or to be sent.
Over    == {"done", "failed", "left"}
Holding == {"request", "source", "reply", "header", "body", "yielded"}

Init ==
    /\ busy = None /\ prev = [op \in Ops |-> None]
    /\ before = [op \in Ops |-> {}]
    /\ pc = [op \in Ops |-> "idle"] /\ sent = [op \in Ops |-> 0]
    /\ closed = FALSE /\ lost = FALSE /\ hungUp = FALSE
    /\ toDevice = <<>> /\ toHost = <<>> /\ aligned = TRUE
    /\ dev = Idle
    /\ sources = [op \in Ops |-> {}] /\ nulls = {}

Goto(op, l) == pc' = [pc EXCEPT ![op] = l]

-----------------------------------------------------------------------------
(* The lock                                                                *)

Chain_bypassed(op) == UNCHANGED prev /\ busy' = op

Chain_forgotten(op) == prev' = [prev EXCEPT ![op] = busy] /\ busy' = IF busy = None THEN op ELSE busy

\* #serialize and #acquire: the call waits for the promise in #busy and
\* leaves one there that resolves when it is over itself.
Chain(op) == prev' = [prev EXCEPT ![op] = busy] /\ busy' = op

\* A call of the application; for pull(), the first next() of its generator.
Call(op) ==
    /\ Cardinality({o \in Ops : pc[o] # "idle"}) < MaxCalls
    /\ pc[op] = "idle" /\ Goto(op, "queued")
    /\ Chain(op)
    /\ before' = [before EXCEPT ![op] = {o \in Ops : pc[o] # "idle"}]
    /\ UNCHANGED <<sent, streamVars, toDevice, toHost, readVars, dev>>

\* The promise the operation waits for has resolved: however the operation
\* before it ended, "then(operation, operation)" and "catch" go on.
Turn_onSuccess(op) == prev[op] # None => pc[prev[op]] = "done"

Turn_betweenChunks(op) == prev[op] # None => pc[prev[op]] \in Over \cup {"yielded"}

Turn(op) == prev[op] # None => pc[prev[op]] \in Over

Start(op) ==
    /\ pc[op] = "queued" /\ Turn(op)
    /\ Goto(op, "request")
    /\ UNCHANGED <<lockVars, sent, streamVars, toDevice, toHost, readVars, dev>>

-----------------------------------------------------------------------------
(* Requests                                                                *)

\* stream.write() on an open stream; bytes for an adbd that has hung up are lost.
Write(f) ==
    /\ ~closed /\ (hungUp \/ Len(toDevice) < ToDeviceCap)
    /\ toDevice' = IF hungUp THEN toDevice ELSE Append(toDevice, f)

AfterRequest(op) == CASE Kind[op] = "push" -> "source"
                      [] Kind[op] = "pull" -> "header"
                      [] OTHER -> "reply"

SendRequest(op) ==
    /\ pc[op] = "request" /\ Kind[op] # "close" /\ op \notin Unsupported
    /\ Write(Frame(RequestId[Kind[op]], op))
    /\ Goto(op, AfterRequest(op))
    /\ UNCHANGED <<lockVars, sent, streamVars, toHost, readVars, dev>>

RefuseDryRun(op) ==
    /\ pc[op] = "request" /\ op \in Unsupported
    /\ Goto(op, "failed")
    /\ UNCHANGED <<lockVars, sent, streamVars, toDevice, toHost, readVars, dev>>

PushChunk(op) ==
    /\ pc[op] = "source" /\ sent[op] < MaxFrames
    /\ Write(Frame("DATA", op))
    /\ sent' = [sent EXCEPT ![op] = @ + 1]
    /\ UNCHANGED <<lockVars, pc, streamVars, toHost, readVars, dev>>

PushDone(op) ==
    /\ pc[op] = "source"
    /\ Write(Frame("DONE", op))
    /\ Goto(op, "reply")
    /\ UNCHANGED <<lockVars, sent, streamVars, toHost, readVars, dev>>

\* "for await (const chunk of toChunks(content))" throws: push() rejects and
\* leaves its SEND without a DONE.
SourceFails(op) ==
    /\ SourceMayFail /\ pc[op] = "source"
    /\ Goto(op, "left")
    /\ UNCHANGED <<lockVars, sent, streamVars, toDevice, toHost, readVars, dev>>

\* write() throws on a closed stream.
WriteFails(op) ==
    /\ pc[op] \in {"request", "source"} /\ Kind[op] # "close" /\ closed
    /\ Goto(op, "failed")
    /\ UNCHANGED <<lockVars, sent, streamVars, toDevice, toHost, readVars, dev>>

\* close(): QUIT, whose failure is swallowed, and then stream.close(), which
\* runs before the next operation in line starts.
Quit(op) ==
    /\ pc[op] = "request" /\ Kind[op] = "close"
    /\ \/ Write(Frame("QUIT", op))
       \/ closed /\ UNCHANGED toDevice
    /\ closed' = TRUE
    /\ Goto(op, "done")
    /\ UNCHANGED <<lockVars, sent, lost, hungUp, toHost, readVars, dev>>

-----------------------------------------------------------------------------
(* Replies                                                                 *)

\* Ids after which the operation reads on, and ids that end it.
More(kind)  == CASE kind = "list" -> {"DENT"} [] kind = "pull" -> {"DATA"} [] OTHER -> {}
Final(kind) == CASE kind = "stat" -> {"STAT"}
                 [] kind = "push" -> {"OKAY", "FAIL"}
                 [] kind \in {"list", "pull"} -> {"DONE", "FAIL"}
                 [] OTHER -> {}

\* The reader takes from the stream exactly the bytes the frame has: frames
\* of another operation have the same size when they are of the same kind, or
\* a FAIL, which only list() and stat() read as something longer.
Fits(op, f) ==
    \/ Kind[f.op] = Kind[op]
    \/ f.id = "FAIL" /\ Kind[op] \in {"pull", "push"}

Reading(op) == pc[op] \in {"reply", "header", "body"}

\* readDataView, or readId: the next frame, whoever caused it.  A stat reply
\* may carry an error of its own.
TakeReply(op) ==
    /\ pc[op] \in {"reply", "header"} /\ aligned /\ toHost # <<>>
    /\ LET f == Head(toHost) IN
       /\ sources' = [sources EXCEPT ![op] = @ \cup {f.op}]
       /\ \/ /\ f.id \in More(Kind[op])
             /\ Goto(op, IF f.id = "DATA" THEN "body" ELSE pc[op])
             /\ UNCHANGED aligned
          \/ /\ f.id \in Final(Kind[op])
             /\ \E l \in (IF f.id = "FAIL" THEN {"failed"}
                          ELSE IF f.id = "STAT" THEN {"done", "failed"} ELSE {"done"}) :
                   Goto(op, l)
             /\ aligned' = Fits(op, f)
          \/ /\ f.id \notin More(Kind[op]) \cup Final(Kind[op])
             /\ Goto(op, "failed")
             /\ aligned' = FALSE
    /\ toHost' = Tail(toHost)
    /\ UNCHANGED <<lockVars, sent, streamVars, toDevice, nulls, dev>>

\* pull() yields the payload that follows a DATA header.
TakeBody(op) ==
    /\ pc[op] = "body" /\ aligned /\ toHost # <<>>
    /\ Goto(op, "yielded")
    /\ toHost' = Tail(toHost)
    /\ UNCHANGED <<lockVars, sent, streamVars, toDevice, readVars, dev>>

\* Bytes without frame boundaries: "unexpected reply".
TakeJunk(op) ==
    /\ Reading(op) /\ ~aligned /\ toHost # <<>>
    /\ Goto(op, "failed")
    /\ toHost' = Tail(toHost)
    /\ UNCHANGED <<lockVars, sent, streamVars, toDevice, readVars, dev>>

TakeEof_ends(op) ==
    /\ Reading(op) /\ toHost = <<>> /\ closed
    /\ Goto(op, IF lost THEN "failed" ELSE "done")
    /\ UNCHANGED <<lockVars, sent, streamVars, toDevice, toHost, readVars, dev>>

\* The stream has ended: readDataView gives null, readExactly throws half way
\* through a frame, read() throws after a failure of the connection.
TakeEof(op) ==
    /\ Reading(op) /\ toHost = <<>> /\ closed
    /\ Goto(op, "failed")
    /\ UNCHANGED <<lockVars, sent, streamVars, toDevice, toHost, readVars, dev>>

\* "yield await readExactly(length)" when the stream ends between the header
\* and the payload: readExactly answers null for a clean end.
YieldNull(op) ==
    /\ pc[op] = "body" /\ toHost = <<>> /\ closed /\ ~lost
    /\ Goto(op, "yielded")
    /\ nulls' = nulls \cup {op}
    /\ UNCHANGED <<lockVars, sent, streamVars, toDevice, toHost, aligned, sources, dev>>

\* The consumer of pull() asks for the next chunk.
Resume(op) ==
    /\ pc[op] = "yielded" /\ Goto(op, "header")
    /\ UNCHANGED <<lockVars, sent, streamVars, toDevice, toHost, readVars, dev>>

\* The consumer leaves its loop: the finally block releases the lock.
Break(op) ==
    /\ MayBreak /\ pc[op] = "yielded" /\ Goto(op, "left")
    /\ UNCHANGED <<lockVars, sent, streamVars, toDevice, toHost, readVars, dev>>

-----------------------------------------------------------------------------
(* The stream                                                              *)

\* The A_CLSE of adbd reaches the host, behind everything adbd sent.
NoticeClose ==
    /\ hungUp /\ ~closed /\ closed' = TRUE
    /\ UNCHANGED <<lockVars, pc, sent, lost, hungUp, toDevice, toHost, readVars, dev>>

\* The connection fails: what is still on its way to the host is gone.
Lose ==
    /\ MayLose /\ ~closed
    /\ closed' = TRUE /\ lost' = TRUE /\ hungUp' = TRUE
    /\ toDevice' = <<>> /\ dev' = Idle
    /\ \E n \in 0..Len(toHost) : toHost' = SubSeq(toHost, 1, n)
    /\ UNCHANGED <<lockVars, pc, sent, readVars>>

hostVars == <<lockVars, pc, sent, closed, lost, readVars>>

\* The A_CLSE of the host reaches adbd, whatever the service is doing.
DevNoticeClose ==
    /\ closed /\ ~hungUp
    /\ hungUp' = TRUE /\ dev' = Idle /\ toDevice' = <<>>
    /\ UNCHANGED <<hostVars, toHost>>

DevHangUp ==
    /\ MayHangUp /\ ~hungUp
    /\ hungUp' = TRUE /\ dev' = Idle /\ toDevice' = <<>>
    /\ UNCHANGED <<hostVars, toHost>>

-----------------------------------------------------------------------------
(* The sync service of adbd (external)                                     *)

Emit(f) == Len(toHost) < ToHostCap /\ toHost' = Append(toHost, f)

\* The service takes a frame it can make sense of in its present mode.
DevTake(mode, ids) ==
    /\ ~hungUp /\ dev.mode = mode /\ toDevice # <<>> /\ Head(toDevice).id \in ids
    /\ toDevice' = Tail(toDevice)

Become(mode, op) == dev' = [mode |-> mode, op |-> op, n |-> 0]

DevStat ==
    /\ DevTake("idle", {"STAT"})
    /\ Emit(Head(toDevice))
    /\ UNCHANGED <<hostVars, hungUp, dev>>

DevBegin ==
    /\ DevTake("idle", {"LIST", "RECV", "SEND"})
    /\ Become(Head(toDevice).id, Head(toDevice).op)
    /\ UNCHANGED <<hostVars, hungUp, toHost>>

DevQuit ==
    /\ DevTake("idle", {"QUIT"})
    /\ hungUp' = TRUE
    /\ UNCHANGED <<hostVars, toHost, dev>>

DevEntry ==
    /\ ~hungUp /\ dev.n < MaxFrames
    /\ \/ /\ dev.mode = "LIST" /\ Emit(Frame("DENT", dev.op))
          /\ dev' = [dev EXCEPT !.n = @ + 1]
       \/ /\ dev.mode = "RECV" /\ Emit(Frame("DATA", dev.op))
          /\ dev' = [dev EXCEPT !.n = @ + 1, !.mode = "BODY"]
    /\ UNCHANGED <<hostVars, hungUp, toDevice>>

DevBody ==
    /\ ~hungUp /\ dev.mode = "BODY" /\ Emit(Frame("BODY", dev.op))
    /\ dev' = [dev EXCEPT !.mode = "RECV"]
    /\ UNCHANGED <<hostVars, hungUp, toDevice>>

DevEnd ==
    /\ ~hungUp
    /\ \/ dev.mode \in {"LIST", "RECV"} /\ Emit(Frame("DONE", dev.op))
       \/ dev.mode = "RECV" /\ Emit(Frame("FAIL", dev.op))
    /\ dev' = Idle
    /\ UNCHANGED <<hostVars, hungUp, toDevice>>

DevStore ==
    /\ DevTake("SEND", {"DATA"})
    /\ UNCHANGED <<hostVars, hungUp, toHost, dev>>

DevStored ==
    /\ DevTake("SEND", {"DONE"})
    /\ \E id \in {"OKAY", "FAIL"} : Emit(Frame(id, dev.op))
    /\ dev' = Idle
    /\ UNCHANGED <<hostVars, hungUp>>

\* The file cannot be written: FAIL at once, then adbd reads on to DONE.
DevStoreFails ==
    /\ ~hungUp /\ dev.mode = "SEND"
    /\ Emit(Frame("FAIL", dev.op))
    /\ Become("drain", dev.op)
    /\ UNCHANGED <<hostVars, hungUp, toDevice>>

DevDrain ==
    /\ DevTake("drain", {"DATA", "DONE"})
    /\ dev' = IF Head(toDevice).id = "DONE" THEN Idle ELSE dev
    /\ UNCHANGED <<hostVars, hungUp, toHost>>

Requests == {"STAT", "LIST", "RECV", "SEND", "QUIT"}

\* A request in the middle of a SEND, or file data outside one: FAIL and close.
DevConfused ==
    /\ \/ DevTake("SEND", Requests) \/ DevTake("drain", Requests)
       \/ DevTake("idle", {"DATA", "DONE"})
    /\ Emit(Frame("FAIL", Head(toDevice).op))
    /\ hungUp' = TRUE /\ dev' = Idle
    /\ UNCHANGED hostVars

-----------------------------------------------------------------------------
\* Everything the event loop does for an operation by itself.
OpStep(op) ==
    \/ Start(op) \/ SendRequest(op) \/ RefuseDryRun(op)
    \/ PushChunk(op) \/ PushDone(op) \/ WriteFails(op) \/ Quit(op)
    \/ TakeReply(op) \/ TakeBody(op) \/ TakeJunk(op) \/ TakeEof(op) \/ YieldNull(op)

DevStep ==
    \/ DevStat \/ DevBegin \/ DevQuit \/ DevEntry \/ DevBody \/ DevEnd
    \/ DevStore \/ DevStored \/ DevDrain \/ DevConfused \/ DevNoticeClose

Next ==
    \/ \E op \in Ops : \/ Call(op) \/ OpStep(op) \/ SourceFails(op)
                       \/ Resume(op) \/ Break(op)
    \/ DevStep \/ DevStoreFails \/ DevHangUp \/ NoticeClose \/ Lose

Spec == Init /\ [][Next]_svars

\* The event loop and adbd run, a file that is pushed ends or fails, and the
\* consumer of pull() asks for every chunk.
Fairness ==
    /\ \A op \in Ops : WF_svars(OpStep(op)) /\ WF_svars(Resume(op))
    /\ WF_svars(DevStep) /\ WF_svars(NoticeClose)

FairSpec == Spec /\ Fairness

-----------------------------------------------------------------------------
FrameType == [id : Requests \cup {"DENT", "DATA", "BODY", "DONE", "OKAY", "FAIL"}, op : Ops]

\* Every variable has the type its field has in AdbSync and in adbd; an
\* operation is only ever at a step of its own kind.
TypeOK ==
    /\ busy \in Ops \cup {None} /\ prev \in [Ops -> Ops \cup {None}]
    /\ before \in [Ops -> SUBSET Ops]
    /\ pc \in [Ops -> {"idle", "queued"} \cup Holding \cup Over]
    /\ \A op \in Ops : /\ pc[op] \in {"header", "body", "yielded"} => Kind[op] = "pull"
                       /\ pc[op] = "source" => Kind[op] = "push"
                       /\ pc[op] = "left" => Kind[op] \in {"pull", "push"}
    /\ sent \in [Ops -> 0..MaxFrames]
    /\ {closed, lost, hungUp, aligned} \subseteq BOOLEAN
    /\ toDevice \in Seq(FrameType) /\ toHost \in Seq(FrameType)
    /\ dev \in [mode : {"idle", "LIST", "RECV", "BODY", "SEND", "drain"}, op : Ops \cup {None},
                n : 0..MaxFrames]
    /\ sources \in [Ops -> SUBSET Ops] /\ nulls \subseteq Ops

\* "One operation must finish before the next begins" (sync.js): at most one
\* operation has the session, whatever order calls come and operations end in.
Exclusive ==
    \A a, b \in Ops : pc[a] \in Holding /\ pc[b] \in Holding => a = b

\* "Interleaving another request would corrupt the reply stream" (sync.js):
\* an operation reads only the replies to its own request, and the reader
\* never loses the frame boundaries.
RepliesAreOwn == aligned /\ \A op \in Ops : sources[op] \subseteq {op}

\* No operation has given up its exchange half way.
Drained == \A op \in Ops : pc[op] # "left"

\* The same of a session no operation of which was left early.
RepliesAreOwnIfDrained == Drained => RepliesAreOwn

\* Between a SEND and its DONE the service is sent that file and nothing else,
\* unless an operation was left early.
FileIsWhole ==
    Drained =>
    /\ dev.mode = "SEND" /\ toDevice # <<>> => Head(toDevice).op = dev.op
    /\ \A i \in 1..(Len(toDevice) - 1) :
         toDevice[i].id \in {"SEND", "DATA"} => toDevice[i + 1].op = toDevice[i].op

\* A pull() that was handed null for a chunk, adbd having closed in the middle
\* of a file, never ends as if the file were complete (sync.js pull).
TruncationIsReported == \A op \in nulls : pc[op] # "done"

\* Every operation that was called settles, in a session no operation of which
\* is left early (a push() behind a pull() that was left writes to an adbd that
\* is itself waiting to write).
OpsSettle == []Drained => \A op \in Ops : pc[op] = "queued" ~> pc[op] \in Over

-----------------------------------------------------------------------------
(* The promise chain implements the lock                                   *)

Holders == {op \in Ops : pc[op] \in Holding}

Lock == INSTANCE SessionLock WITH
    Free <- None,
    called <- {op \in Ops : pc[op] # "idle"},
    holder <- IF Holders = {} THEN None ELSE CHOOSE op \in Holders : TRUE,
    over <- {op \in Ops : pc[op] \in Over}

\* The session passes from call to call in the order of the calls, whichever
\* of them fail or are left early.
ServesInOrder == Lock!Spec
=============================================================================

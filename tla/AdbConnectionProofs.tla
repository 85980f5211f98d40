------------------------ MODULE AdbConnectionProofs ------------------------
(***************************************************************************)
(* Theorems about AdbConnection, for any number of streams and writers,    *)
(* any payloads and any budgets: types; no lost wakeup; nothing behind the *)
(* A_CLSE of a stream, which needs what every queued packet says of the    *)
(* stream it names; what concurrent write() calls may overdraw a window    *)
(* with; and that every chunk adbd has written is on its way, buffered or  *)
(* read, so the end of a stream adbd closes is reported after all of it.   *)
(***************************************************************************)
EXTENDS AdbConnection, SequenceTheorems, FiniteSetTheorems, FunctionTheorems, TLAPS

Constants == /\ StreamOf \in [Writers -> Streams]
             /\ Payload \in [Writers -> Nat \ {0}]
             /\ MaxPayload \in Nat \ {0}
             /\ Credit \in Nat \ {0} /\ RecvWindow \in Nat \ {0}
             /\ DevSizes \subseteq Nat \ {0}
             /\ MaxReads \in Nat /\ MaxDevWrites \in Nat
             /\ DelayedAck \in BOOLEAN

\* The assumptions of AdbConnection, in one place.
LEMMA ConstantsOK == Constants
  BY StreamOfAssumption, PayloadAssumption, MaxPayloadAssumption, CreditAssumption,
     DevSizesAssumption, BoundAssumption, FlagAssumption DEF Constants

-----------------------------------------------------------------------------
(* Type correctness                                                        *)

\* A write() that is not over has bytes left to send, so no chunk is empty.
OffsetOK == \A w \in Writers : pc[w] \notin {"done", "failed"} => offset[w] < Payload[w]

TInv == TypeOK /\ OffsetOK

\* The invariant holds when the handshake is over.
LEMMA InitTInv == Init => TInv
  BY ConstantsOK DEF Init, TInv, TypeOK, OffsetOK, Constants, Nothing

\* Queues and functions of queues, kept apart from what is stored in them.
LEMMA AppendType ==
    ASSUME NEW T, NEW q \in Seq(T), NEW x \in T
    PROVE  Append(q, x) \in Seq(T) /\ Append(q, x) # <<>>
  BY AppendProperties

\* The head and the tail of a non-empty queue have the types of the queue.
LEMMA HeadTailType ==
    ASSUME NEW T, NEW q \in Seq(T), q # <<>>
    PROVE  Head(q) \in T /\ Tail(q) \in Seq(T)
  OBVIOUS

\* A function changed at one point keeps its type.
LEMMA ExceptType ==
    ASSUME NEW S, NEW T, NEW f \in [S -> T], NEW s \in S, NEW x \in T
    PROVE  [f EXCEPT ![s] = x] \in [S -> T]
  OBVIOUS

\* What writePacket is called with is a packet.
LEMMA OpenPacketType == \A s \in Streams : OpenPacket(s) \in HostPackets
  BY ConstantsOK DEF Constants, OpenPacket, HostPackets

\* An A_WRTE, an A_OKAY and an A_CLSE of the host are host packets.
LEMMA WritePacketType == \A w \in Writers, n \in Nat : WritePacket(w, n) \in HostPackets
  BY ConstantsOK DEF Constants, WritePacket, HostPackets

\* The acknowledgement of n bytes.
LEMMA OkayPacketType == \A s \in Streams, n \in Nat : OkayPacket(s, n) \in HostPackets
  BY DEF OkayPacket, HostPackets, Bare

\* The A_CLSE of close() and that of the read loop.
LEMMA ClosePacketType ==
    \A s \in Streams, b \in {"close", "loop"} : ClosePacket(s, b) \in HostPackets
  BY DEF ClosePacket, HostPackets

\* A packet at the head of outq names a stream, and an A_WRTE a writer.
LEMMA HostPacketFields ==
    ASSUME NEW p \in HostPackets
    PROVE  /\ p.cmd \in {"OPEN", "WRTE", "OKAY", "CLSE"} /\ p.s \in Streams
           /\ p.cmd = "WRTE" => p.by \in Writers /\ p.len \in Nat
           /\ p.cmd = "OPEN" => p.len \in Nat
           /\ p.cmd = "OKAY" => p.len \in Int
           /\ p # Nothing
  BY DEF HostPackets, Bare, Nothing

\* A packet at the head of inq names a stream unless no handler accepts it.
LEMMA DevicePacketFields ==
    ASSUME NEW p \in DevicePackets
    PROVE  /\ p.cmd # "BAD" => p.s \in Streams
           /\ p.cmd = "WRTE" => p.len \in Nat
           /\ p.cmd = "OKAY" => p.len \in Nat \cup {Bare}
  BY DEF DevicePackets, Bare

\* Closing streams keeps the types and finishes no writer early.
LEMMA CloseStreamsTypes ==
    ASSUME TInv, NEW S \in SUBSET Streams, NEW err \in BOOLEAN, CloseStreams(S, err)
    PROVE  /\ closed' \in [Streams -> BOOLEAN] /\ error' \in [Streams -> BOOLEAN]
           /\ readWaiters' \in [Streams -> Nat] /\ eof' \in [Streams -> BOOLEAN]
           /\ pc' \in [Writers -> {"idle", "waiting", "granted", "sending", "done", "failed"}]
           /\ \A w \in Writers : pc'[w] \notin {"done", "failed"} => offset[w] < Payload[w]
  BY ConstantsOK DEF CloseStreams, TInv, TypeOK, OffsetOK, Constants

\* So does _onClose as a whole.
LEMMA OnCloseTypes ==
    ASSUME TInv, NEW S \in SUBSET Streams, NEW err \in BOOLEAN, OnClose(S, err)
    PROVE  /\ closed' \in [Streams -> BOOLEAN] /\ error' \in [Streams -> BOOLEAN]
           /\ readWaiters' \in [Streams -> Nat] /\ eof' \in [Streams -> BOOLEAN]
           /\ pc' \in [Writers -> {"idle", "waiting", "granted", "sending", "done", "failed"}]
           /\ \A w \in Writers : pc'[w] \notin {"done", "failed"} => offset[w] < Payload[w]
           /\ opened' \in [Streams -> {"no", "pending", "resolved", "rejected"}]
<1>1. CloseStreams(S, err)
  BY DEF OnClose
<1>2. opened' \in [Streams -> {"no", "pending", "resolved", "rejected"}]
  BY DEF OnClose, TInv, TypeOK
<1>3. QED
  BY <1>1, <1>2, CloseStreamsTypes

\* #releaseWriters and #awaitSendPermission only yield states of a write().
LEMMA PermissionTypes ==
    ASSUME NEW s \in Streams
    PROVE  AwaitSendPermission(s) \in {"waiting", "granted", "failed"}
  BY DEF AwaitSendPermission

\* Waking the writers of a stream keeps the types.
LEMMA ReleaseTypes ==
    ASSUME TInv, NEW s \in Streams, ReleaseWriters(s)
    PROVE  /\ pc' \in [Writers -> {"idle", "waiting", "granted", "sending", "done", "failed"}]
           /\ \A w \in Writers : pc'[w] \notin {"done", "failed"} => offset[w] < Payload[w]
  BY DEF ReleaseWriters, TInv, TypeOK, OffsetOK

\* Handing out the first chunk of a non-empty buffer keeps the types.
LEMMA TakeTypes ==
    ASSUME TInv, NEW s \in Streams, NEW buf \in Seq(Nat), buf # <<>>, Take(s, buf)
    PROVE  /\ incoming' \in [Streams -> Seq(Nat)] /\ pendingAck' \in [Streams -> Nat]
           /\ flushQueued' \in [Streams -> BOOLEAN] /\ readCount' \in [Streams -> Nat]
<1>1. Tail(buf) \in Seq(Nat) /\ Head(buf) \in Nat
  BY HeadTailType
<1>2. incoming' \in [Streams -> Seq(Nat)]
  BY <1>1, ExceptType, Zenon DEF Take, TInv, TypeOK
<1> DEFINE n == Head(buf)
<1>3. n \in Nat /\ pendingAck' = [pendingAck EXCEPT ![s] = @ + n]
  BY <1>1 DEF Take, Owe
<1>4. pendingAck' \in [Streams -> Nat]
  <2> HIDE DEF n
  <2>1. pendingAck \in [Streams -> Nat]
    BY DEF TInv, TypeOK
  <2>2. QED
    BY <1>3, <2>1
<1>5. flushQueued' \in [Streams -> BOOLEAN] /\ readCount' \in [Streams -> Nat]
  <2>1. /\ flushQueued' = [flushQueued EXCEPT ![s] = TRUE]
        /\ readCount' = [readCount EXCEPT ![s] = @ + 1]
    BY DEF Take, QueueFlush
  <2>2. flushQueued \in [Streams -> BOOLEAN] /\ readCount \in [Streams -> Nat]
    BY DEF TInv, TypeOK
  <2>3. QED
    BY <2>1, <2>2
<1>6. QED
  BY <1>2, <1>4, <1>5

\* The calls of the application.
LEMMA AppTInv == TInv /\ AppStep => TInv'
<1> SUFFICES ASSUME TInv, AppStep PROVE TInv'
  OBVIOUS
<1> USE ConstantsOK DEF TInv
<1>1. ASSUME NEW w \in Writers, Write(w) PROVE TInv'
  <2>1. StreamOf[w] \in Streams
    BY DEF Constants
  <2>2. QED
    BY <1>1, <2>1, PermissionTypes
       DEF Write, TypeOK, OffsetOK, connVars, sendVars, recvVars, callVars, wireVars, devVars
<1>2. ASSUME NEW s \in Streams, Open(s) PROVE TInv'
  <2>1. outq' \in Seq(HostPackets)
    BY <1>2, OpenPacketType, AppendType, Zenon DEF Open, Send, TypeOK
  <2>2. QED
    BY <1>2, <2>1 DEF Open, TypeOK, OffsetOK, sendVars, recvVars, callVars, devVars
<1>3. ASSUME NEW s \in Streams, Read(s) PROVE TInv'
  <2>1. /\ incoming' \in [Streams -> Seq(Nat)] /\ pendingAck' \in [Streams -> Nat]
        /\ flushQueued' \in [Streams -> BOOLEAN] /\ readCount' \in [Streams -> Nat]
        /\ readWaiters' \in [Streams -> Nat] /\ eof' \in [Streams -> BOOLEAN]
    <3>1. CASE HasChunk(s) /\ Take(s, incoming[s]) /\ UNCHANGED <<readWaiters, eof>>
      BY <3>1, TakeTypes DEF HasChunk, TypeOK
    <3>2. CASE ~HasChunk(s) /\ UNCHANGED recvVars
      <4>1. /\ incoming' \in [Streams -> Seq(Nat)] /\ pendingAck' \in [Streams -> Nat]
            /\ flushQueued' \in [Streams -> BOOLEAN] /\ readCount' \in [Streams -> Nat]
        BY <3>2 DEF recvVars, TypeOK
      <4>2. /\ eof' = eof \/ eof' = [eof EXCEPT ![s] = TRUE]
            /\ readWaiters' = readWaiters \/ readWaiters' = [readWaiters EXCEPT ![s] = @ + 1]
        BY <3>2, <1>3, Zenon DEF Read
      <4>3. readWaiters' \in [Streams -> Nat] /\ eof' \in [Streams -> BOOLEAN]
        <5>1. readWaiters \in [Streams -> Nat] /\ eof \in [Streams -> BOOLEAN]
          BY DEF TypeOK
        <5>2. eof' \in [Streams -> BOOLEAN]
          BY <4>2, <5>1, ExceptType
        <5>3. CASE readWaiters' = readWaiters
          BY <5>1, <5>2, <5>3
        <5>4. CASE readWaiters' = [readWaiters EXCEPT ![s] = @ + 1]
          BY <5>1, <5>2, <5>4
        <5>5. QED
          BY <4>2, <5>3, <5>4
      <4>4. QED
        BY <4>1, <4>3
    <3>3. QED
      BY <1>3, <3>1, <3>2 DEF Read
  <2>2. QED
    <3>1. /\ readCalls' = [readCalls EXCEPT ![s] = @ + 1]
          /\ UNCHANGED <<connVars, remoteId, sendVars, callVars, closed, error, pc, opened,
                         wireVars, devVars>>
      BY <1>3, Zenon DEF Read
    <3>2. readCalls' \in [Streams -> Nat]
      <4>1. readCalls \in [Streams -> Nat]
        BY DEF TypeOK
      <4>2. QED
        BY <3>1, <4>1
    <3>3. QED
      BY <3>1, <3>2, <2>1 DEF TypeOK, OffsetOK, connVars, sendVars, callVars, wireVars, devVars
<1>4. ASSUME NEW s \in Streams, Close(s) PROVE TInv'
  <2>1. outq' \in Seq(HostPackets)
    BY <1>4, ClosePacketType, AppendType, Zenon DEF Close, Send, TypeOK
  <2>2. OnClose({s}, FALSE) /\ {s} \in SUBSET Streams
    BY <1>4 DEF Close
  <2>3. QED
    BY <1>4, <2>1, <2>2, OnCloseTypes
       DEF Close, TypeOK, OffsetOK, connVars, sendVars, recvVars, devVars
<1>5. CASE CloseConnection
  <2>1. OnClose(streams, TRUE) /\ streams \in SUBSET Streams
    BY <1>5 DEF CloseConnection, TypeOK
  <2>2. inq' \in Seq(DevicePackets) /\ linkUp' \in BOOLEAN /\ connected' \in BOOLEAN
    BY <1>5, EmptySeq DEF CloseConnection
  <2>3. streams' \subseteq Streams
    BY <1>5 DEF CloseConnection
  <2>4. QED
    BY <1>5, <2>1, <2>2, <2>3, OnCloseTypes
       DEF CloseConnection, TypeOK, OffsetOK, sendVars, recvVars, callVars, devVars
<1>6. QED
  BY <1>1, <1>2, <1>3, <1>4, <1>5 DEF AppStep

\* Microtasks: a writer that resumes and the ack flush.
LEMMA MicrotaskTInv ==
    TInv /\ ((\E w \in Writers : Resume(w)) \/ (\E s \in Streams : FlushAck(s))) => TInv'
<1> SUFFICES ASSUME TInv, (\E w \in Writers : Resume(w)) \/ (\E s \in Streams : FlushAck(s))
             PROVE  TInv'
  OBVIOUS
<1> USE ConstantsOK DEF TInv
<1>1. ASSUME NEW w \in Writers, Resume(w) PROVE TInv'
  <2> DEFINE s == StreamOf[w]
             left == Payload[w] - offset[w]
             n == IF left < MaxPayload THEN left ELSE MaxPayload
  <2>a. pc[w] = "granted"
    BY <1>1 DEF Resume
  <2>b. s \in Streams /\ left \in Nat
    <3>1. offset[w] < Payload[w]
      BY <2>a DEF OffsetOK
    <3>2. offset[w] \in Nat
      BY DEF TypeOK
    <3>3. QED
      BY <3>1, <3>2 DEF Constants
  <2>1. s \in Streams /\ n \in Nat
    BY <2>b DEF Constants
  <2>2. WritePacket(w, n) \in HostPackets
    BY <2>1, WritePacketType
  <2>3. /\ outq' \in Seq(HostPackets)
        /\ availableSendBytes' \in [Streams -> Int] /\ writeReady' \in [Streams -> BOOLEAN]
    <3> HIDE DEF n
    <3>1. CASE ~Usable(s)
      BY <3>1, <1>1 DEF Resume, sendVars, TypeOK
    <3>2. CASE Usable(s)
      <4>1. Send(WritePacket(w, n)) /\ Spend(s, n)
        BY <3>2, <1>1 DEF Resume, n
      <4>2. QED
        <5>1. outq' \in Seq(HostPackets)
          BY <4>1, <2>2, AppendType, Zenon DEF Send, TypeOK
        <5>2. QED
          <6> HIDE DEF s
          <6>1. availableSendBytes' =
                  [availableSendBytes EXCEPT ![s] = IF DelayedAck THEN @ - n ELSE @]
            BY <4>1 DEF Spend
          <6>2. availableSendBytes' \in [Streams -> Int]
            <7>1. availableSendBytes \in [Streams -> Int]
              BY DEF TypeOK
            <7>2. QED
              BY <6>1, <7>1, <2>1
          <6>3. writeReady' \in [Streams -> BOOLEAN]
            BY <4>1, <2>1 DEF Spend, TypeOK
          <6>4. QED
            BY <5>1, <6>2, <6>3
    <3>3. QED
      BY <3>1, <3>2
  <2>4. /\ pc' \in [Writers -> {"idle", "waiting", "granted", "sending", "done", "failed"}]
        /\ \A x \in Writers : pc'[x] \notin {"done", "failed"} => offset[x] < Payload[x]
    BY <1>1 DEF Resume, TypeOK, OffsetOK
  <2>5. QED
    BY <1>1, <2>3, <2>4 DEF Resume, TypeOK, OffsetOK, connVars, recvVars, callVars, devVars
<1>2. ASSUME NEW s \in Streams, FlushAck(s) PROVE TInv'
  <2>1. outq' \in Seq(HostPackets) /\ pendingAck' \in [Streams -> Nat]
    <3>1. CASE ~AckDue(s)
      BY <3>1, <1>2 DEF FlushAck, TypeOK
    <3>2. CASE AckDue(s)
      <4>a. ResetPending(s) /\ Send(OkayPacket(s, pendingAck[s]))
        BY <3>2, <1>2, Zenon DEF FlushAck
      <4>1. OkayPacket(s, pendingAck[s]) \in HostPackets
        BY OkayPacketType DEF TypeOK
      <4>2. outq' \in Seq(HostPackets)
        BY <4>1, <4>a, AppendType, Zenon DEF Send, TypeOK
      <4>3. pendingAck' \in [Streams -> Nat]
        BY <4>a DEF ResetPending, TypeOK
      <4>4. QED
        BY <4>2, <4>3
    <3>3. QED
      BY <3>1, <3>2
  <2>2. QED
    BY <1>2, <2>1 DEF FlushAck, TypeOK, OffsetOK, connVars, sendVars, callVars, onCloseVars, devVars
<1>3. QED
  BY <1>1, <1>2

\* The handlers of the read loop.
LEMMA ReadLoopTInv ==
    TInv /\ (HandleOkay \/ HandleWrite \/ HandleClose \/ FailConnection) => TInv'
<1> SUFFICES ASSUME TInv, HandleOkay \/ HandleWrite \/ HandleClose \/ FailConnection
             PROVE  TInv'
  OBVIOUS
<1> USE ConstantsOK DEF TInv
<1> DEFINE p == Head(inq)
<1>a. ASSUME NEW cmd \in {"OKAY", "WRTE", "CLSE"}, Receive(cmd)
      PROVE  p \in DevicePackets /\ p.s \in Streams /\ inq' \in Seq(DevicePackets) /\ p.cmd = cmd
  <2>1. p \in DevicePackets /\ inq' \in Seq(DevicePackets) /\ p.cmd = cmd
    BY <1>a DEF Receive, TypeOK
  <2>2. QED
    BY <2>1, DevicePacketFields
<1>1. CASE HandleOkay
  <2>1. p \in DevicePackets /\ p.s \in Streams /\ inq' \in Seq(DevicePackets) /\ p.cmd = "OKAY"
    BY <1>1, <1>a DEF HandleOkay
  <2>2. p.len \in Nat \cup {Bare}
    BY <2>1, DevicePacketFields
  <2>3. CASE OnOkay(p.s, p.len) /\ UNCHANGED <<outq, loop>>
    <3>1. remoteId' \in [Streams -> BOOLEAN]
          /\ opened' \in [Streams -> {"no", "pending", "resolved", "rejected"}]
      BY <2>3, <2>1 DEF OnOkay, TypeOK
    <3>2. /\ availableSendBytes' \in [Streams -> Int] /\ writeReady' \in [Streams -> BOOLEAN]
      <4>1. CASE UNCHANGED sendVars
        BY <4>1 DEF sendVars, TypeOK
      <4>2. CASE Credited(p.s, p.len) /\ UNCHANGED writeReady
        <5>1. /\ availableSendBytes \in [Streams -> Int] /\ writeReady \in [Streams -> BOOLEAN]
              /\ p.len \in Int
          BY <2>2 DEF TypeOK, Bare
        <5>2. QED
          BY <4>2, <5>1, <2>1 DEF Credited
      <4>3. CASE writeReady' = [writeReady EXCEPT ![p.s] = TRUE] /\ UNCHANGED availableSendBytes
        BY <4>3, <2>1 DEF TypeOK
      <4>4. QED
        BY <2>3, <4>1, <4>2, <4>3, Zenon DEF OnOkay
    <3>3. /\ closed' \in [Streams -> BOOLEAN] /\ error' \in [Streams -> BOOLEAN]
          /\ readWaiters' \in [Streams -> Nat] /\ eof' \in [Streams -> BOOLEAN]
          /\ pc' \in [Writers -> {"idle", "waiting", "granted", "sending", "done", "failed"}]
          /\ \A w \in Writers : pc'[w] \notin {"done", "failed"} => offset[w] < Payload[w]
      <4>1. CASE CloseStreams({p.s}, TRUE)
        BY <4>1, <2>1, CloseStreamsTypes
      <4>2. CASE ReleaseWriters(p.s) /\ UNCHANGED <<closed, error, readWaiters, eof>>
        BY <4>2, <2>1, ReleaseTypes DEF TypeOK
      <4>3. CASE UNCHANGED <<pc, closed, error, readWaiters, eof>>
        BY <4>3 DEF TypeOK, OffsetOK
      <4>4. QED
        BY <2>3, <4>1, <4>2, <4>3 DEF OnOkay
    <3>4. QED
      BY <1>1, <2>1, <2>3, <3>1, <3>2, <3>3
         DEF HandleOkay, TypeOK, OffsetOK, recvVars, callVars, devVars
  <2>4. CASE /\ Send(ClosePacket(p.s, "loop")) /\ loop' = "blocked"
             /\ UNCHANGED <<remoteId, sendVars, onCloseVars>>
    <3>1. outq' \in Seq(HostPackets)
      BY <2>1, <2>4, ClosePacketType, AppendType, Zenon DEF Send, TypeOK
    <3>2. QED
      BY <1>1, <2>1, <2>4, <3>1
         DEF HandleOkay, TypeOK, OffsetOK, sendVars, onCloseVars, recvVars, callVars, devVars
  <2>5. QED
    BY <1>1, <2>3, <2>4 DEF HandleOkay
<1>2. CASE HandleWrite
  <2>1. p \in DevicePackets /\ p.s \in Streams /\ inq' \in Seq(DevicePackets) /\ p.cmd = "WRTE"
    BY <1>2, <1>a DEF HandleWrite
  <2> DEFINE buf == Append(incoming[p.s], p.len)
  <2>2. buf \in Seq(Nat) /\ buf # <<>>
    <3>1. p.len \in Nat
      BY <2>1, DevicePacketFields
    <3>2. incoming[p.s] \in Seq(Nat)
      BY <2>1 DEF TypeOK
    <3>3. QED
      BY <3>1, <3>2, AppendType
  <2>3. /\ incoming' \in [Streams -> Seq(Nat)] /\ pendingAck' \in [Streams -> Nat]
        /\ flushQueued' \in [Streams -> BOOLEAN] /\ readCount' \in [Streams -> Nat]
        /\ readWaiters' \in [Streams -> Nat]
    <3> HIDE DEF buf
    <3>1. CASE UNCHANGED <<recvVars, readWaiters>>
      BY <3>1 DEF recvVars, TypeOK
    <3>2. CASE /\ incoming' = [incoming EXCEPT ![p.s] = buf]
               /\ UNCHANGED <<pendingAck, flushQueued, readCount, readWaiters>>
      BY <3>2, <2>2 DEF TypeOK
    <3>3. CASE /\ ReaderWaits(p.s) /\ Take(p.s, buf)
               /\ readWaiters' = [readWaiters EXCEPT ![p.s] = @ - 1]
      <4>1. readWaiters' \in [Streams -> Nat]
        <5>1. readWaiters \in [Streams -> Nat]
          BY DEF TypeOK
        <5>2. QED
          BY <3>3, <2>1, <5>1 DEF ReaderWaits
      <4>2. QED
        BY <4>1, <3>3, <2>1, <2>2, TakeTypes
    <3>4. QED
      BY <1>2, <3>1, <3>2, <3>3 DEF HandleWrite, buf
  <2>4. QED
    BY <1>2, <2>1, <2>3
       DEF HandleWrite, TypeOK, OffsetOK, connVars, sendVars, callVars, devVars
<1>3. CASE HandleClose
  <2>1. p \in DevicePackets /\ p.s \in Streams /\ inq' \in Seq(DevicePackets) /\ p.cmd = "CLSE"
    BY <1>3, <1>a DEF HandleClose
  <2>2. streams' \subseteq Streams
    BY <1>3 DEF HandleClose, Forget, TypeOK
  <2>3. CASE OnClose({p.s}, FALSE)
    BY <1>3, <2>1, <2>2, <2>3, OnCloseTypes
       DEF HandleClose, TypeOK, OffsetOK, sendVars, recvVars, callVars, devVars
  <2>4. CASE UNCHANGED onCloseVars
    BY <1>3, <2>1, <2>2, <2>4
       DEF HandleClose, TypeOK, OffsetOK, onCloseVars, sendVars, recvVars, callVars, devVars
  <2>5. QED
    BY <1>3, <2>3, <2>4 DEF HandleClose
<1>4. CASE FailConnection
  <2>1. OnClose(streams, TRUE) /\ streams \in SUBSET Streams
    BY <1>4 DEF FailConnection, TypeOK
  <2>2. streams' \subseteq Streams /\ loop' \in {"reading", "blocked", "dead"} /\ connected' \in BOOLEAN
    BY <1>4 DEF FailConnection
  <2>3. QED
    BY <1>4, <2>1, <2>2, OnCloseTypes
       DEF FailConnection, TypeOK, OffsetOK, sendVars, recvVars, callVars, wireVars, devVars
<1>5. QED
  BY <1>1, <1>2, <1>3, <1>4

\* Completions and failures of packet writes, and the cable.
LEMMA WriteTInv == TInv /\ (WriteDone \/ WriteFails \/ Unplug) => TInv'
<1> SUFFICES ASSUME TInv, WriteDone \/ WriteFails \/ Unplug PROVE TInv'
  OBVIOUS
<1> USE ConstantsOK DEF TInv
<1> DEFINE p == Head(outq)
<1>1. CASE WriteDone
  <2>1. completing \in HostPackets /\ completing' = Nothing
    BY <1>1, Zenon DEF WriteDone, TypeOK
  <2>2. UNCHANGED <<connected, remoteId, sendVars, recvVars, readCalls,
                    closed, error, readWaiters, eof, opened, linkUp, outq, inq, devVars>>
    BY <1>1, Zenon DEF WriteDone
  <2>3. /\ streams' \subseteq Streams /\ loop' \in {"reading", "blocked", "dead"}
        /\ closing' \in [Streams -> {"no", "sending", "done", "failed"}]
        /\ offset' \in [Writers -> Nat]
        /\ pc' \in [Writers -> {"idle", "waiting", "granted", "sending", "done", "failed"}]
        /\ OffsetOK'
    <3> DEFINE w == completing.by
               next == offset[w] + MaxPayload
    <3>1. CASE /\ completing.cmd = "WRTE" /\ offset' = [offset EXCEPT ![w] = next]
               /\ pc' = [pc EXCEPT ![w] = IF next >= Payload[w] THEN "done"
                                          ELSE AwaitSendPermission(StreamOf[w])]
               /\ UNCHANGED <<streams, loop, closing>>
      <4>1. w \in Writers /\ StreamOf[w] \in Streams
        BY <3>1, <2>1, HostPacketFields DEF Constants
      <4>2. next \in Nat /\ Payload[w] \in Nat
        <5>1. offset \in [Writers -> Nat]
          BY DEF TypeOK
        <5>2. MaxPayload \in Nat /\ Payload \in [Writers -> Nat \ {0}]
          BY DEF Constants
        <5>3. offset[w] \in Nat /\ Payload[w] \in Nat
          BY <4>1, <5>1, <5>2, Zenon
        <5>4. QED
          BY <5>2, <5>3
      <4>3. AwaitSendPermission(StreamOf[w]) \in {"waiting", "granted", "failed"}
        BY <4>1, PermissionTypes
      <4> HIDE DEF next, w
      <4>4. /\ pc \in [Writers -> {"idle", "waiting", "granted", "sending", "done", "failed"}]
            /\ offset \in [Writers -> Nat]
            /\ streams \subseteq Streams /\ loop \in {"reading", "blocked", "dead"}
            /\ closing \in [Streams -> {"no", "sending", "done", "failed"}]
        BY DEF TypeOK
      <4>5. offset' \in [Writers -> Nat]
        BY <3>1, <4>1, <4>2, <4>4
      <4>6. pc' \in [Writers -> {"idle", "waiting", "granted", "sending", "done", "failed"}]
        BY <3>1, <4>1, <4>3, <4>4
      <4>7. OffsetOK'
        BY <3>1, <4>1, <4>2, <4>4 DEF OffsetOK
      <4>8. QED
        BY <3>1, <4>4, <4>5, <4>6, <4>7
    <3>2. CASE /\ streams' = streams \ {completing.s}
               /\ closing' = [closing EXCEPT ![completing.s] = "done"]
               /\ UNCHANGED <<loop, offset, pc>>
      BY <3>2 DEF TypeOK, OffsetOK
    <3>3. CASE loop' = "reading" /\ UNCHANGED <<streams, closing, offset, pc>>
      BY <3>3 DEF TypeOK, OffsetOK
    <3>4. CASE UNCHANGED <<streams, loop, closing, offset, pc>>
      BY <3>4 DEF TypeOK, OffsetOK
    <3>5. QED
      BY <1>1, <3>1, <3>2, <3>3, <3>4, Zenon DEF WriteDone
  <2>4. QED
    BY <2>1, <2>2, <2>3 DEF TypeOK, sendVars, recvVars, devVars
<1>2. CASE WriteFails
  <2>1. /\ p \in HostPackets /\ outq' \in Seq(HostPackets)
    BY <1>2, HeadTailType, Zenon DEF WriteFails, TypeOK
  <2>2. UNCHANGED <<connected, remoteId, sendVars, recvVars, offset, readCalls,
                    linkUp, completing, inq, devVars>>
    BY <1>2, Zenon DEF WriteFails
  <2>3. /\ streams' \subseteq Streams /\ loop' \in {"reading", "blocked", "dead"}
        /\ closing' \in [Streams -> {"no", "sending", "done", "failed"}]
        /\ closed' \in [Streams -> BOOLEAN] /\ error' \in [Streams -> BOOLEAN]
        /\ readWaiters' \in [Streams -> Nat] /\ eof' \in [Streams -> BOOLEAN]
        /\ pc' \in [Writers -> {"idle", "waiting", "granted", "sending", "done", "failed"}]
        /\ \A w \in Writers : pc'[w] \notin {"done", "failed"} => offset[w] < Payload[w]
        /\ opened' \in [Streams -> {"no", "pending", "resolved", "rejected"}]
    <3> HIDE DEF p
    <3>1. CASE /\ p.cmd = "WRTE" /\ pc' = [pc EXCEPT ![p.by] = "failed"]
               /\ UNCHANGED <<streams, loop, closing, closed, error, readWaiters, eof, opened>>
      BY <3>1, <2>1, HostPacketFields DEF TypeOK, OffsetOK
    <3>2. CASE /\ closing' = [closing EXCEPT ![p.s] = "failed"]
               /\ UNCHANGED <<streams, loop, onCloseVars>>
      BY <3>2 DEF TypeOK, OffsetOK, onCloseVars
    <3>3. CASE loop' = "reading" /\ UNCHANGED <<streams, closing, onCloseVars>>
      BY <3>3 DEF TypeOK, OffsetOK, onCloseVars
    <3>4. CASE /\ streams' = streams \ {p.s}
               /\ opened' = [opened EXCEPT ![p.s] = "rejected"]
               /\ UNCHANGED <<loop, closing, closed, error, readWaiters, eof, pc>>
      BY <3>4 DEF TypeOK, OffsetOK
    <3>5. CASE OnClose({p.s}, TRUE) /\ UNCHANGED <<streams, loop, closing>>
      <4>1. {p.s} \in SUBSET Streams
        BY <2>1, HostPacketFields
      <4>2. QED
        BY <3>5, <4>1, OnCloseTypes DEF TypeOK
    <3>6. QED
      BY <1>2, <3>1, <3>2, <3>3, <3>4, <3>5, Zenon DEF WriteFails, p
  <2>4. QED
    BY <2>1, <2>2, <2>3 DEF TypeOK, OffsetOK, sendVars, recvVars, devVars
<1>3. CASE Unplug
  <2>1. inq' \in Seq(DevicePackets) /\ linkUp' \in BOOLEAN
    BY <1>3, EmptySeq DEF Unplug
  <2>2. QED
    BY <1>3, <2>1
       DEF Unplug, TypeOK, OffsetOK, connVars, sendVars, recvVars, callVars, onCloseVars, devVars
<1>4. QED
  BY <1>1, <1>2, <1>3

\* A step of adbd leaves the host alone: what is left to show about it.
DevTypes == /\ outq' \in Seq(HostPackets) /\ inq' \in Seq(DevicePackets)
            /\ completing' \in HostPackets \cup {Nothing}
            /\ sock' \in [Streams -> {"none", "open", "closed"}]
            /\ devBuf' \in [Streams -> Seq(Nat)]
            /\ devWindow' \in [Streams -> Int] /\ devSent' \in [Streams -> Nat]

\* What a step of adbd changes is all that is left to show for it.
LEMMA DevTypesSuffice ==
    ASSUME TInv, UNCHANGED <<hostVars, linkUp>>, DevTypes PROVE TInv'
  BY DEF TInv, TypeOK, OffsetOK, DevTypes, hostVars, connVars, sendVars, recvVars, callVars, onCloseVars

\* What adbd puts on the wire is a packet.
LEMMA EmitTypes ==
    ASSUME TInv, NEW s \in Streams, NEW n \in Nat \cup {Bare},
           \/ Emit([cmd |-> "OKAY", s |-> s, len |-> n])
           \/ n \in Nat /\ Emit([cmd |-> "WRTE", s |-> s, len |-> n])
           \/ Emit([cmd |-> "CLSE", s |-> s])
           \/ Emit([cmd |-> "BAD"])
    PROVE  inq' \in Seq(DevicePackets)
<1>1. /\ [cmd |-> "OKAY", s |-> s, len |-> n] \in DevicePackets
      /\ n \in Nat => [cmd |-> "WRTE", s |-> s, len |-> n] \in DevicePackets
      /\ [cmd |-> "CLSE", s |-> s] \in DevicePackets
      /\ [cmd |-> "BAD"] \in DevicePackets
  BY DEF DevicePackets
<1>2. inq \in Seq(DevicePackets)
  BY DEF TInv, TypeOK
<1>3. QED
  BY <1>1, <1>2, AppendType, Zenon DEF Emit

\* The packet adbd takes from the wire.
LEMMA TransferTypes ==
    ASSUME TInv, NEW cmd, Transfer(cmd)
    PROVE  /\ Head(outq) \in HostPackets /\ Head(outq).cmd = cmd /\ Head(outq).s \in Streams
           /\ cmd \in {"OPEN", "WRTE"} => Head(outq).len \in Nat
           /\ cmd = "OKAY" => Head(outq).len \in Int
           /\ outq' \in Seq(HostPackets) /\ completing' \in HostPackets \cup {Nothing}
<1>1. /\ Head(outq) \in HostPackets /\ outq' \in Seq(HostPackets)
      /\ Head(outq).cmd = cmd /\ completing' = Head(outq)
  BY HeadTailType, Zenon DEF Transfer, TInv, TypeOK
<1>2. QED
  BY <1>1, HostPacketFields

\* adbd takes a packet.
LEMMA TransferTInv == TInv /\ DevTransfer => TInv'
<1> SUFFICES ASSUME TInv, DevTransfer PROVE TInv'
  OBVIOUS
<1> DEFINE p == Head(outq)
<1>0. /\ sock \in [Streams -> {"none", "open", "closed"}] /\ devBuf \in [Streams -> Seq(Nat)]
      /\ devWindow \in [Streams -> Int] /\ devSent \in [Streams -> Nat]
      /\ inq \in Seq(DevicePackets)
  BY DEF TInv, TypeOK
<1> HIDE DEF p
<1>1. CASE DevOpen
  <2>1. /\ p.s \in Streams /\ p.len \in Nat
        /\ outq' \in Seq(HostPackets) /\ completing' \in HostPackets \cup {Nothing}
    BY <1>1, TransferTypes DEF DevOpen, p
  <2>2. CASE /\ sock' = [sock EXCEPT ![p.s] = "open"]
             /\ devWindow' = [devWindow EXCEPT ![p.s] = IF DelayedAck THEN p.len ELSE 1]
             /\ Emit([cmd |-> "OKAY", s |-> p.s, len |-> IF DelayedAck THEN Credit ELSE Bare])
    <3>1. inq' \in Seq(DevicePackets)
      <4>1. (IF DelayedAck THEN Credit ELSE Bare) \in Nat \cup {Bare}
        BY ConstantsOK DEF Constants
      <4>2. QED
        BY <2>1, <2>2, <4>1, EmitTypes
    <3>2. devWindow' \in [Streams -> Int] /\ sock' \in [Streams -> {"none", "open", "closed"}]
      BY <1>0, <2>1, <2>2
    <3>3. QED
      BY <1>0, <1>1, <2>1, <3>1, <3>2, DevTypesSuffice DEF DevOpen, DevTypes
  <2>3. CASE Emit([cmd |-> "CLSE", s |-> p.s]) /\ UNCHANGED <<sock, devWindow>>
    <3>1. inq' \in Seq(DevicePackets)
      BY <2>1, <2>3, EmitTypes
    <3>2. QED
      BY <1>0, <1>1, <2>1, <2>3, <3>1, DevTypesSuffice DEF DevOpen, DevTypes
  <2>4. QED
    BY <1>1, <2>2, <2>3, Zenon DEF DevOpen, p
<1>2. CASE DevReceiveWrite
  <2>1. /\ p.s \in Streams /\ p.len \in Nat
        /\ outq' \in Seq(HostPackets) /\ completing' \in HostPackets \cup {Nothing}
    BY <1>2, TransferTypes DEF DevReceiveWrite, p
  <2>2. devBuf' = devBuf \/ devBuf' = [devBuf EXCEPT ![p.s] = Append(@, p.len)]
    <3>1. devBuf' = [devBuf EXCEPT ![p.s] = IF sock[p.s] = "open" THEN Append(@, p.len) ELSE @]
      BY <1>2 DEF DevReceiveWrite, p
    <3>2. QED
      BY <1>0, <2>1, <3>1
  <2>3. devBuf' \in [Streams -> Seq(Nat)]
    <3>1. Append(devBuf[p.s], p.len) \in Seq(Nat)
      BY <1>0, <2>1, AppendType
    <3>2. QED
      BY <1>0, <2>1, <2>2, <3>1, ExceptType, Zenon
  <2>4. QED
    BY <1>0, <1>2, <2>1, <2>3, DevTypesSuffice DEF DevReceiveWrite, DevTypes
<1>3. CASE DevReceiveOkay
  <2>1. /\ p.s \in Streams /\ p.len \in Int
        /\ outq' \in Seq(HostPackets) /\ completing' \in HostPackets \cup {Nothing}
    BY <1>3, TransferTypes DEF DevReceiveOkay, p
  <2>2. devWindow' = [devWindow EXCEPT ![p.s] = IF DelayedAck THEN @ + p.len ELSE 1]
    BY <1>3 DEF DevReceiveOkay, p
  <2>3. devWindow' \in [Streams -> Int]
    BY <1>0, <2>1, <2>2
  <2>4. QED
    BY <1>0, <1>3, <2>1, <2>3, DevTypesSuffice DEF DevReceiveOkay, DevTypes
<1>4. CASE DevReceiveClose
  <2>1. /\ p.s \in Streams
        /\ outq' \in Seq(HostPackets) /\ completing' \in HostPackets \cup {Nothing}
    BY <1>4, TransferTypes DEF DevReceiveClose, p
  <2>2. CASE /\ sock' = [sock EXCEPT ![p.s] = "closed"]
             /\ devBuf' = [devBuf EXCEPT ![p.s] = <<>>]
             /\ Emit([cmd |-> "CLSE", s |-> p.s])
    <3>1. inq' \in Seq(DevicePackets)
      BY <2>1, <2>2, EmitTypes
    <3>2. sock' \in [Streams -> {"none", "open", "closed"}] /\ devBuf' \in [Streams -> Seq(Nat)]
      BY <1>0, <2>1, <2>2, EmptySeq, ExceptType
    <3>3. QED
      BY <1>0, <1>4, <2>1, <3>1, <3>2, DevTypesSuffice DEF DevReceiveClose, DevTypes
  <2>3. CASE UNCHANGED <<sock, devBuf, inq>>
    BY <1>0, <1>4, <2>1, <2>3, DevTypesSuffice DEF DevReceiveClose, DevTypes
  <2>4. QED
    BY <1>4, <2>2, <2>3, Zenon DEF DevReceiveClose, p
<1>5. QED
  BY <1>1, <1>2, <1>3, <1>4 DEF DevTransfer

\* adbd consumes, writes, closes or breaks the protocol.
LEMMA DeviceTInv ==
    ASSUME TInv, NEW s \in Streams,
           DevConsume(s) \/ DevWrite(s) \/ DevClose(s) \/ DevMisbehave(s)
    PROVE  TInv'
<1>0. /\ sock \in [Streams -> {"none", "open", "closed"}] /\ devBuf \in [Streams -> Seq(Nat)]
      /\ devWindow \in [Streams -> Int] /\ devSent \in [Streams -> Nat]
      /\ outq \in Seq(HostPackets) /\ completing \in HostPackets \cup {Nothing}
  BY DEF TInv, TypeOK
<1>1. CASE DevConsume(s)
  <2>1. Head(devBuf[s]) \in Nat /\ Tail(devBuf[s]) \in Seq(Nat)
    BY <1>0, <1>1, HeadTailType DEF DevConsume
  <2> DEFINE n == IF DelayedAck THEN Head(devBuf[s]) ELSE Bare
  <2>2. n \in Nat \cup {Bare}
    BY <2>1
  <2>3. inq' \in Seq(DevicePackets)
    BY <1>1, <2>2, EmitTypes DEF DevConsume
  <2>4. devBuf' \in [Streams -> Seq(Nat)]
    BY <1>0, <1>1, <2>1, ExceptType, Zenon DEF DevConsume
  <2>5. QED
    BY <1>0, <1>1, <2>3, <2>4, DevTypesSuffice DEF DevConsume, DevTypes
<1>2. CASE DevWrite(s)
  <2>1. PICK n \in DevSizes :
          /\ devWindow' = [devWindow EXCEPT ![s] = IF DelayedAck THEN @ - n ELSE 0]
          /\ Emit([cmd |-> "WRTE", s |-> s, len |-> n])
    BY <1>2 DEF DevWrite
  <2>2. n \in Nat
    BY ConstantsOK DEF Constants
  <2>3. inq' \in Seq(DevicePackets)
    BY <2>1, <2>2, EmitTypes
  <2>4. devWindow' \in [Streams -> Int]
    BY <1>0, <2>1, <2>2
  <2>5. devSent' \in [Streams -> Nat]
    BY <1>0, <1>2 DEF DevWrite
  <2>6. QED
    BY <1>0, <1>2, <2>3, <2>4, <2>5, DevTypesSuffice DEF DevWrite, DevTypes
<1>3. CASE DevClose(s)
  <2>1. inq' \in Seq(DevicePackets)
    BY <1>3, EmitTypes DEF DevClose
  <2>2. sock' \in [Streams -> {"none", "open", "closed"}] /\ devBuf' \in [Streams -> Seq(Nat)]
    BY <1>0, <1>3, EmptySeq, ExceptType DEF DevClose
  <2>3. QED
    BY <1>0, <1>3, <2>1, <2>2, DevTypesSuffice DEF DevClose, DevTypes
<1>4. CASE DevMisbehave(s)
  <2> DEFINE n == IF DelayedAck THEN Bare ELSE 1
  <2>1. n \in Nat \cup {Bare}
    OBVIOUS
  <2>2. Emit([cmd |-> "OKAY", s |-> s, len |-> n]) \/ Emit([cmd |-> "BAD"])
    BY <1>4 DEF DevMisbehave
  <2>3. inq' \in Seq(DevicePackets)
    BY <2>1, <2>2, EmitTypes
  <2>4. devSent' \in [Streams -> Nat]
    BY <1>0, <1>4, ConstantsOK DEF DevMisbehave, Constants
  <2>5. QED
    BY <1>0, <1>4, <2>3, <2>4, DevTypesSuffice DEF DevMisbehave, DevTypes
<1>5. QED
  BY <1>1, <1>2, <1>3, <1>4

\* Every step keeps the types.
LEMMA NextTInv == TInv /\ [Next]_vars => TInv'
<1> SUFFICES ASSUME TInv, [Next]_vars PROVE TInv'
  OBVIOUS
<1>1. CASE AppStep
  BY <1>1, AppTInv
<1>2. CASE HostStep
  BY <1>2, MicrotaskTInv, ReadLoopTInv, WriteTInv DEF HostStep, WriteFailsUnplugged
<1>3. CASE DevTransfer
  BY <1>3, TransferTInv
<1>4. CASE EnvStep
  BY <1>4, WriteTInv, DeviceTInv DEF EnvStep, WriteStalls
<1>5. CASE \E s \in Streams : DevConsume(s)
  BY <1>5, DeviceTInv
<1>6. CASE UNCHANGED vars
  BY <1>6 DEF vars, TInv, TypeOK, OffsetOK, connVars, sendVars, recvVars, callVars,
              onCloseVars, wireVars, devVars
<1>7. QED
  BY <1>1, <1>2, <1>3, <1>4, <1>5, <1>6 DEF Next

\* Type correctness of the stream layer in every reachable state.
THEOREM TypeCorrect == Spec => []TypeOK
<1>1. TInv => TypeOK
  BY DEF TInv
<1>2. QED
  BY InitTInv, NextTInv, <1>1, PTL DEF Spec

-----------------------------------------------------------------------------
(* No lost wakeups                                                         *)

NoLostWakeup == NoLostSendWakeup /\ NoLostReadWakeup

WakeupVars == <<closed, pc, availableSendBytes, writeReady, readWaiters, incoming>>

\* Nobody waits before the first stream is opened.
LEMMA InitNoLostWakeup == Init => NoLostWakeup
  BY DEF Init, NoLostWakeup, NoLostSendWakeup, NoLostReadWakeup

\* Steps that touch neither a waiter nor what it waits for.
LEMMA UntouchedWakeups == NoLostWakeup /\ UNCHANGED WakeupVars => NoLostWakeup'
  BY DEF NoLostWakeup, NoLostSendWakeup, NoLostReadWakeup, WakeupVars, Permission

\* Closing wakes every waiter of the stream.
LEMMA CloseStreamsWakeups ==
    ASSUME TInv, NoLostWakeup, NEW S \in SUBSET Streams, NEW err,
           CloseStreams(S, err), UNCHANGED <<availableSendBytes, writeReady, incoming>>
    PROVE  NoLostWakeup'
<1>1. StreamOf \in [Writers -> Streams] /\ closed \in [Streams -> BOOLEAN]
      /\ pc \in [Writers -> {"idle", "waiting", "granted", "sending", "done", "failed"}]
  BY ConstantsOK DEF Constants, TInv, TypeOK
<1>2. NoLostSendWakeup'
  BY <1>1 DEF NoLostWakeup, NoLostSendWakeup, CloseStreams, Permission
<1>3. NoLostReadWakeup'
  BY <1>1 DEF NoLostWakeup, NoLostReadWakeup, CloseStreams
<1>4. QED
  BY <1>2, <1>3 DEF NoLostWakeup

\* A write() that asks for permission waits only when it has to.
LEMMA AwaitWakeups ==
    ASSUME TInv, NoLostWakeup, NEW w \in Writers,
           pc' = [pc EXCEPT ![w] = AwaitSendPermission(StreamOf[w])]
             \/ pc' = [pc EXCEPT ![w] = "done"] \/ pc' = [pc EXCEPT ![w] = "failed"],
           UNCHANGED <<closed, availableSendBytes, writeReady, readWaiters, incoming>>
    PROVE  NoLostWakeup'
<1>1. /\ StreamOf \in [Writers -> Streams]
      /\ pc \in [Writers -> {"idle", "waiting", "granted", "sending", "done", "failed"}]
      /\ availableSendBytes \in [Streams -> Int]
  BY ConstantsOK DEF Constants, TInv, TypeOK
<1>2. AwaitSendPermission(StreamOf[w]) = "waiting" =>
        ~closed[StreamOf[w]] /\ Permission(StreamOf[w]) <= 0
  BY <1>1 DEF AwaitSendPermission, MaySend, HasBudget, Permission
<1>3. \A x \in Writers : Permission(StreamOf[x])' = Permission(StreamOf[x])
  BY DEF Permission
<1>4. NoLostSendWakeup'
  <2>1. SUFFICES ASSUME NEW x \in Writers, pc'[x] = "waiting"
                 PROVE  ~closed[StreamOf[x]] /\ Permission(StreamOf[x]) <= 0
    BY <1>3 DEF NoLostSendWakeup
  <2>2. CASE x = w
    BY <2>1, <2>2, <1>1, <1>2
  <2>3. CASE x # w
    BY <2>1, <2>3, <1>1 DEF NoLostWakeup, NoLostSendWakeup
  <2>4. QED
    BY <2>2, <2>3
<1>5. NoLostReadWakeup'
  BY DEF NoLostWakeup, NoLostReadWakeup
<1>6. QED
  BY <1>4, <1>5 DEF NoLostWakeup

\* A writer that resumes only lowers the permission of its stream.
LEMMA ResumeWakeups ==
    ASSUME TInv, NoLostWakeup, NEW w \in Writers, Resume(w) PROVE NoLostWakeup'
<1> DEFINE s == StreamOf[w]
           left == Payload[w] - offset[w]
           n == IF left < MaxPayload THEN left ELSE MaxPayload
<1>1. /\ StreamOf \in [Writers -> Streams] /\ s \in Streams
      /\ pc \in [Writers -> {"idle", "waiting", "granted", "sending", "done", "failed"}]
      /\ availableSendBytes \in [Streams -> Int] /\ writeReady \in [Streams -> BOOLEAN]
  BY ConstantsOK DEF Constants, TInv, TypeOK
<1>2. n \in Nat
  <2>1. pc[w] = "granted"
    BY DEF Resume
  <2>2. offset[w] < Payload[w] /\ offset[w] \in Nat
    BY <2>1 DEF TInv, OffsetOK, TypeOK
  <2>3. QED
    BY <2>2, ConstantsOK DEF Constants
<1>3. UNCHANGED <<closed, readWaiters, incoming>>
  BY Zenon DEF Resume, recvVars
<1>4. \A x \in Writers : pc'[x] = "waiting" => pc[x] = "waiting"
  BY <1>1 DEF Resume
<1>5. (Usable(s) /\ Spend(s, n)) \/ UNCHANGED sendVars
  BY Zenon DEF Resume
<1>6. \A x \in Streams : Permission(x) <= 0 => Permission(x)' <= 0
  <2> HIDE DEF s, n
  <2>1. CASE Spend(s, n)
    BY <2>1, <1>1, <1>2 DEF Spend, Permission
  <2>2. CASE UNCHANGED sendVars
    BY <2>2 DEF sendVars, Permission
  <2>3. QED
    BY <1>5, <2>1, <2>2
<1>7. NoLostSendWakeup'
  <2>1. SUFFICES ASSUME NEW x \in Writers, pc'[x] = "waiting"
                 PROVE  ~closed[StreamOf[x]] /\ Permission(StreamOf[x])' <= 0
    BY <1>3 DEF NoLostSendWakeup, Permission
  <2>2. StreamOf[x] \in Streams
    BY <1>1
  <2>3. ~closed[StreamOf[x]] /\ Permission(StreamOf[x]) <= 0
    BY <2>1, <1>4 DEF NoLostWakeup, NoLostSendWakeup
  <2>4. QED
    BY <2>2, <2>3, <1>6
<1>8. NoLostReadWakeup'
  BY <1>3 DEF NoLostWakeup, NoLostReadWakeup
<1>9. QED
  BY <1>7, <1>8 DEF NoLostWakeup

\* read() and _onWrite keep a reader waiting only while nothing is buffered.
LEMMA ReadWakeups ==
    ASSUME TInv, NoLostWakeup, NEW s \in Streams, Read(s) PROVE NoLostWakeup'
<1>1. UNCHANGED <<closed, pc, availableSendBytes, writeReady>>
  BY Zenon DEF Read, sendVars
<1>2. NoLostSendWakeup'
  BY <1>1 DEF NoLostWakeup, NoLostSendWakeup, Permission
<1>3. /\ incoming \in [Streams -> Seq(Nat)] /\ readWaiters \in [Streams -> Nat]
  BY DEF TInv, TypeOK
<1>4. NoLostReadWakeup'
  <2>1. CASE HasChunk(s) /\ Take(s, incoming[s]) /\ UNCHANGED readWaiters
    <3>1. readWaiters[s] = 0
      BY <2>1, <1>3 DEF HasChunk, NoLostWakeup, NoLostReadWakeup
    <3>2. incoming' = [incoming EXCEPT ![s] = Tail(incoming[s])]
      BY <2>1 DEF Take
    <3>3. \A x \in Streams : x # s => incoming'[x] = incoming[x]
      BY <3>2, <1>3
    <3>4. QED
      BY <1>1, <2>1, <3>1, <3>3 DEF NoLostWakeup, NoLostReadWakeup
  <2>2. CASE UNCHANGED <<recvVars, readWaiters>>
    BY <1>1, <2>2 DEF NoLostWakeup, NoLostReadWakeup, recvVars
  <2>3. CASE /\ ~HasChunk(s) /\ ~closed[s] /\ UNCHANGED recvVars
             /\ readWaiters' = [readWaiters EXCEPT ![s] = @ + 1]
    BY <1>1, <1>3, <2>3 DEF NoLostWakeup, NoLostReadWakeup, recvVars, HasChunk
  <2>4. QED
    BY <2>1, <2>2, <2>3, Zenon DEF Read
<1>5. QED
  BY <1>2, <1>4 DEF NoLostWakeup

\* An A_WRTE is handed to a waiting reader, or buffered when there is none.
LEMMA HandleWriteWakeups == ASSUME TInv, NoLostWakeup, HandleWrite PROVE NoLostWakeup'
<1> DEFINE s == Head(inq).s
           buf == Append(incoming[s], Head(inq).len)
<1>1. UNCHANGED <<closed, pc, availableSendBytes, writeReady>>
  BY Zenon DEF HandleWrite, sendVars
<1>2. NoLostSendWakeup'
  BY <1>1 DEF NoLostWakeup, NoLostSendWakeup, Permission
<1>3. /\ incoming \in [Streams -> Seq(Nat)] /\ readWaiters \in [Streams -> Nat]
      /\ s \in Streams /\ Head(inq).len \in Nat
  <2>1. inq \in Seq(DevicePackets) /\ inq # <<>> /\ Head(inq).cmd = "WRTE"
    BY DEF HandleWrite, Receive, TInv, TypeOK
  <2>2. Head(inq) \in DevicePackets
    BY <2>1, HeadTailType
  <2>3. QED
    BY <2>1, <2>2, DevicePacketFields DEF TInv, TypeOK
<1>4. NoLostReadWakeup'
  <2>1. CASE UNCHANGED <<recvVars, readWaiters>>
    BY <1>1, <2>1 DEF NoLostWakeup, NoLostReadWakeup, recvVars
  <2>2. CASE /\ ~ReaderWaits(s) /\ UNCHANGED readWaiters
             /\ incoming' = [incoming EXCEPT ![s] = buf]
    <3> HIDE DEF s, buf
    <3>1. readWaiters[s] = 0
      BY <2>2, <1>3 DEF ReaderWaits
    <3>2. \A x \in Streams : x # s => incoming'[x] = incoming[x]
      BY <2>2, <1>3
    <3>3. QED
      BY <1>1, <2>2, <3>1, <3>2 DEF NoLostWakeup, NoLostReadWakeup
  <2>3. CASE /\ ReaderWaits(s) /\ Take(s, buf)
             /\ readWaiters' = [readWaiters EXCEPT ![s] = @ - 1]
    <3>1. incoming[s] = <<>> /\ ~closed[s]
      BY <2>3, <1>3 DEF ReaderWaits, NoLostWakeup, NoLostReadWakeup
    <3>2. buf = <<Head(inq).len>>
      BY <3>1, <1>3
    <3>3. Tail(buf) = <<>>
      BY <3>2
    <3>4. incoming' = [incoming EXCEPT ![s] = <<>>]
      BY <2>3, <3>3 DEF Take
    <3> HIDE DEF s, buf
    <3>5. \A x \in Streams : x # s => incoming'[x] = incoming[x] /\ readWaiters'[x] = readWaiters[x]
      BY <2>3, <3>4, <1>3
    <3>6. incoming'[s] = <<>>
      BY <3>4, <1>3
    <3>7. QED
      BY <1>1, <3>1, <3>5, <3>6 DEF NoLostWakeup, NoLostReadWakeup
  <2>4. QED
    BY <2>1, <2>2, <2>3, Zenon DEF HandleWrite
<1>5. QED
  BY <1>2, <1>4 DEF NoLostWakeup

\* An A_OKAY that gives permission wakes every waiting writer of the stream.
LEMMA HandleOkayWakeups == ASSUME TInv, NoLostWakeup, HandleOkay PROVE NoLostWakeup'
<1> DEFINE s == Head(inq).s
           n == Head(inq).len
<1>1. incoming' = incoming
  BY Zenon DEF HandleOkay, recvVars
<1>2. /\ StreamOf \in [Writers -> Streams] /\ DelayedAck \in BOOLEAN
      /\ pc \in [Writers -> {"idle", "waiting", "granted", "sending", "done", "failed"}]
      /\ availableSendBytes \in [Streams -> Int] /\ writeReady \in [Streams -> BOOLEAN]
      /\ s \in Streams /\ n \in Int
  <2>1. inq \in Seq(DevicePackets) /\ inq # <<>> /\ Head(inq).cmd = "OKAY"
    BY DEF HandleOkay, Receive, TInv, TypeOK
  <2>2. Head(inq) \in DevicePackets
    BY <2>1, HeadTailType
  <2>3. QED
    BY <2>1, <2>2, DevicePacketFields, ConstantsOK DEF Constants, TInv, TypeOK, Bare
<1> HIDE DEF s, n
<1>3. CASE CloseStreams({s}, TRUE) /\ UNCHANGED sendVars
  BY <1>1, <1>2, <1>3, CloseStreamsWakeups DEF sendVars
<1>4. CASE UNCHANGED <<sendVars, onCloseVars>>
  BY <1>1, <1>4, UntouchedWakeups DEF WakeupVars, sendVars, onCloseVars
<1>5. CASE /\ DelayedAck /\ Credited(s, n) /\ UNCHANGED <<writeReady, closed, error, readWaiters, eof>>
           /\ IF HasBudget(availableSendBytes[s] + n) THEN ReleaseWriters(s) ELSE UNCHANGED pc
  <2>1. NoLostReadWakeup'
    BY <1>1, <1>5 DEF NoLostWakeup, NoLostReadWakeup
  <2>2. availableSendBytes' = [availableSendBytes EXCEPT ![s] = @ + n]
    BY <1>5 DEF Credited
  <2>3. NoLostSendWakeup'
    <3>1. SUFFICES ASSUME NEW w \in Writers, pc'[w] = "waiting"
                   PROVE  ~closed[StreamOf[w]] /\ availableSendBytes'[StreamOf[w]] <= 0
      BY <1>5 DEF NoLostSendWakeup, Permission
    <3>2. pc[w] = "waiting" /\ (StreamOf[w] = s => ~HasBudget(availableSendBytes[s] + n))
      BY <1>2, <1>5, <3>1 DEF ReleaseWriters
    <3>3. ~closed[StreamOf[w]] /\ availableSendBytes[StreamOf[w]] <= 0
      BY <1>5, <3>2 DEF NoLostWakeup, NoLostSendWakeup, Permission
    <3>4. CASE StreamOf[w] = s
      <4>1. availableSendBytes'[s] = availableSendBytes[s] + n
        BY <1>2, <2>2
      <4>2. availableSendBytes[s] + n <= 0
        BY <3>2, <3>4, <1>2 DEF HasBudget
      <4>3. QED
        BY <3>3, <3>4, <4>1, <4>2
    <3>5. CASE StreamOf[w] # s
      <4>1. availableSendBytes'[StreamOf[w]] = availableSendBytes[StreamOf[w]]
        BY <1>2, <2>2, <3>5
      <4>2. QED
        BY <3>3, <4>1
    <3>6. QED
      BY <3>4, <3>5
  <2>4. QED
    BY <2>1, <2>3 DEF NoLostWakeup
<1>6. CASE /\ ~DelayedAck /\ writeReady' = [writeReady EXCEPT ![s] = TRUE] /\ ReleaseWriters(s)
           /\ UNCHANGED <<availableSendBytes, closed, error, readWaiters, eof>>
  <2>1. NoLostReadWakeup'
    BY <1>1, <1>6 DEF NoLostWakeup, NoLostReadWakeup
  <2>2. NoLostSendWakeup'
    <3>1. SUFFICES ASSUME NEW w \in Writers, pc'[w] = "waiting"
                   PROVE  ~closed[StreamOf[w]] /\ Permission(StreamOf[w])' <= 0
      BY <1>6 DEF NoLostSendWakeup
    <3>2. pc[w] = "waiting" /\ StreamOf[w] # s
      BY <1>2, <1>6, <3>1 DEF ReleaseWriters
    <3>3. ~closed[StreamOf[w]] /\ Permission(StreamOf[w]) <= 0
      BY <3>2 DEF NoLostWakeup, NoLostSendWakeup
    <3>4. writeReady'[StreamOf[w]] = writeReady[StreamOf[w]]
      BY <1>2, <1>6, <3>2
    <3>5. QED
      BY <1>6, <3>3, <3>4 DEF Permission
  <2>3. QED
    BY <2>1, <2>2 DEF NoLostWakeup
<1>7. OnOkay(s, n) \/ UNCHANGED <<sendVars, onCloseVars>>
  BY Zenon DEF HandleOkay, s, n
<1>8. CASE OnOkay(s, n)
  BY <1>3, <1>5, <1>6, <1>8, Zenon DEF OnOkay
<1>9. QED
  BY <1>4, <1>7, <1>8

\* A failed packet write fails its writer, or closes the stream of an ack.
LEMMA WriteFailsWakeups == ASSUME TInv, NoLostWakeup, WriteFails PROVE NoLostWakeup'
<1> DEFINE p == Head(outq)
<1>1. UNCHANGED <<availableSendBytes, writeReady, incoming>>
  BY Zenon DEF WriteFails, sendVars, recvVars
<1>2. p \in HostPackets
  BY HeadTailType, Zenon DEF WriteFails, TInv, TypeOK
<1> HIDE DEF p
<1>3. CASE /\ p.cmd = "WRTE" /\ pc' = [pc EXCEPT ![p.by] = "failed"]
           /\ UNCHANGED <<closed, readWaiters>>
  BY <1>1, <1>2, <1>3, HostPacketFields, AwaitWakeups
<1>4. CASE OnClose({p.s}, TRUE)
  <2>1. {p.s} \in SUBSET Streams
    BY <1>2, HostPacketFields
  <2>2. QED
    BY <1>1, <1>4, <2>1, CloseStreamsWakeups DEF OnClose
<1>5. CASE UNCHANGED <<closed, readWaiters, pc>>
  BY <1>1, <1>5, UntouchedWakeups DEF WakeupVars
<1>6. QED
  BY <1>3, <1>4, <1>5, Zenon DEF WriteFails, onCloseVars, p

\* Every step keeps a waiter registered only while it has to wait.
LEMMA NextNoLostWakeup == TInv /\ NoLostWakeup /\ [Next]_vars => NoLostWakeup'
<1> SUFFICES ASSUME TInv, NoLostWakeup, [Next]_vars PROVE NoLostWakeup'
  OBVIOUS
<1>a. ASSUME NEW S \in SUBSET Streams, NEW err, OnClose(S, err), UNCHANGED <<sendVars, incoming>>
      PROVE  NoLostWakeup'
  BY <1>a, CloseStreamsWakeups DEF OnClose, sendVars
<1>b. streams \in SUBSET Streams
  BY DEF TInv, TypeOK
<1>1. CASE AppStep
  <2>1. ASSUME NEW w \in Writers, Write(w) PROVE NoLostWakeup'
    BY <2>1, AwaitWakeups DEF Write, sendVars, recvVars
  <2>2. ASSUME NEW s \in Streams, Open(s) PROVE NoLostWakeup'
    BY <2>2, UntouchedWakeups DEF Open, WakeupVars, sendVars, recvVars
  <2>3. ASSUME NEW s \in Streams, Close(s) PROVE NoLostWakeup'
    BY <2>3, <1>a DEF Close, recvVars
  <2>4. CASE CloseConnection
    BY <2>4, <1>a, <1>b DEF CloseConnection, recvVars
  <2>5. QED
    BY <1>1, <2>1, <2>2, <2>3, <2>4, ReadWakeups DEF AppStep
<1>2. CASE HostStep
  <2>1. ASSUME NEW s \in Streams, FlushAck(s) PROVE NoLostWakeup'
    BY <2>1, UntouchedWakeups DEF FlushAck, WakeupVars, sendVars, onCloseVars
  <2>2. CASE HandleClose
    <3>1. UNCHANGED <<sendVars, incoming>>
      BY <2>2 DEF HandleClose, recvVars
    <3>2. (OnClose({Head(inq).s}, FALSE) /\ Head(inq).s \in streams) \/ UNCHANGED onCloseVars
      BY <2>2 DEF HandleClose
    <3>3. CASE OnClose({Head(inq).s}, FALSE) /\ Head(inq).s \in streams
      <4>1. {Head(inq).s} \in SUBSET Streams
        BY <3>3, <1>b
      <4>2. QED
        BY <3>1, <3>3, <4>1, <1>a
    <3>4. CASE UNCHANGED onCloseVars
      BY <3>1, <3>4, UntouchedWakeups DEF WakeupVars, sendVars, onCloseVars
    <3>5. QED
      BY <3>2, <3>3, <3>4
  <2>3. CASE FailConnection
    BY <2>3, <1>a, <1>b DEF FailConnection, recvVars
  <2>4. CASE WriteDone
    <3>1. UNCHANGED <<closed, availableSendBytes, writeReady, readWaiters, incoming>>
      BY <2>4, Zenon DEF WriteDone, sendVars, recvVars
    <3>2. CASE UNCHANGED pc
      BY <3>1, <3>2, UntouchedWakeups DEF WakeupVars
    <3>3. CASE /\ completing.cmd = "WRTE"
               /\ pc' = [pc EXCEPT ![completing.by] =
                           IF offset[completing.by] + MaxPayload >= Payload[completing.by]
                           THEN "done" ELSE AwaitSendPermission(StreamOf[completing.by])]
      <4>1. completing.by \in Writers
        BY <2>4, <3>3, HostPacketFields DEF WriteDone, TInv, TypeOK
      <4>2. QED
        BY <3>1, <3>3, <4>1, AwaitWakeups
    <3>4. QED
      BY <2>4, <3>2, <3>3, Zenon DEF WriteDone
  <2>5. QED
    BY <1>2, <2>1, <2>2, <2>3, <2>4, WriteFailsWakeups, ResumeWakeups, HandleOkayWakeups, HandleWriteWakeups
       DEF HostStep, WriteFailsUnplugged
<1>3. CASE DevTransfer
  BY <1>3, UntouchedWakeups
     DEF DevTransfer, DevOpen, DevReceiveWrite, DevReceiveOkay, DevReceiveClose, hostVars,
         WakeupVars, sendVars, recvVars, onCloseVars
<1>4. CASE EnvStep
  <2>1. CASE WriteStalls
    BY <2>1, WriteFailsWakeups DEF WriteStalls
  <2>2. CASE Unplug
    BY <2>2, UntouchedWakeups DEF Unplug, WakeupVars, sendVars, recvVars, onCloseVars
  <2>3. ASSUME NEW s \in Streams, DevWrite(s) \/ DevClose(s) \/ DevMisbehave(s)
        PROVE  NoLostWakeup'
    BY <2>3, UntouchedWakeups
       DEF DevWrite, DevClose, DevMisbehave, hostVars, WakeupVars, sendVars, recvVars, onCloseVars
  <2>4. QED
    BY <1>4, <2>1, <2>2, <2>3 DEF EnvStep
<1>5. CASE \E s \in Streams : DevConsume(s)
  BY <1>5, UntouchedWakeups
     DEF DevConsume, hostVars, WakeupVars, sendVars, recvVars, onCloseVars
<1>6. CASE UNCHANGED vars
  BY <1>6, UntouchedWakeups DEF vars, WakeupVars, sendVars, recvVars, onCloseVars
<1>7. QED
  BY <1>1, <1>2, <1>3, <1>4, <1>5, <1>6 DEF Next

\* No write() and no read() of any stream is left waiting for something that
\* already happened, in every reachable state and for every interleaving of
\* microtasks, packets, failures and calls.
THEOREM WakeupsNotLost == Spec => [](NoLostSendWakeup /\ NoLostReadWakeup)
<1>1. Init => TInv /\ NoLostWakeup
  BY InitTInv, InitNoLostWakeup
<1>2. TInv /\ NoLostWakeup /\ [Next]_vars => (TInv /\ NoLostWakeup)'
  BY NextTInv, NextNoLostWakeup
<1>3. NoLostWakeup => NoLostSendWakeup /\ NoLostReadWakeup
  BY DEF NoLostWakeup
<1>4. QED
  BY <1>1, <1>2, <1>3, PTL DEF Spec

\* The half of it about read(): a reader waits only while there is neither a
\* chunk in the buffer nor an end of the stream to tell it of.
THEOREM ReadWakeupsNotLost == Spec => []NoLostReadWakeup
<1>1. NoLostSendWakeup /\ NoLostReadWakeup => NoLostReadWakeup
  OBVIOUS
<1>2. QED
  BY <1>1, WakeupsNotLost, PTL

-----------------------------------------------------------------------------
(* The packets in the queue of the transport                               *)

On(q) == {q[i] : i \in 1..Len(q)}

\* The stream is closed, or its open() call has failed.
Shut(s) == closed[s] \/ opened[s] = "rejected"

\* adbd has not answered the A_OPEN of the stream.
Unheard(s) == sock[s] = "none" /\ \A p \in On(inq) : p.cmd # "BAD" => p.s # s

\* What an A_CLSE and an A_WRTE show of their stream, on the wire too.
Sent(p) == /\ p.cmd = "CLSE" => Shut(p.s)
           /\ p.cmd = "WRTE" => p.s = StreamOf[p.by] /\ opened[p.s] = "resolved"

\* What a packet shows of its stream as long as it is queued.
Queued(p) == /\ opened[p.s] # "no"
             /\ p.cmd = "OPEN" => Unheard(p.s) /\ opened[p.s] # "resolved"
             /\ Sent(p)

OpenOnce == \A i, j \in 1..Len(outq) :
    outq[i].cmd = "OPEN" /\ outq[j].cmd = "OPEN" /\ outq[i].s = outq[j].s => i = j

Queue == (\A p \in On(outq) : Queued(p)) /\ OpenOnce /\ NothingBehindClose

\* A stream no open() call made is unknown to adbd; one that left the map is
\* shut; and only an open() that resolved hands out a stream to use.
Known == \A s \in Streams :
    /\ opened[s] = "no" => Unheard(s)
    /\ s \notin streams /\ opened[s] # "no" => Shut(s)
    /\ opened[s] = "resolved" => remoteId[s]
    /\ pendingAck[s] # 0 \/ readWaiters[s] > 0 => opened[s] = "resolved"

Asked == \A w \in Writers : pc[w] \in {"waiting", "granted"} => opened[StreamOf[w]] = "resolved"

CloseInv == Queue /\ Known /\ Asked /\ Sent(completing)

-----------------------------------------------------------------------------
(* Queues                                                                  *)

\* What a queue holds after a packet was put into it.
LEMMA OnAppend ==
    ASSUME NEW T, NEW q \in Seq(T), NEW x \in T
    PROVE  /\ On(Append(q, x)) = On(q) \cup {x}
           /\ Len(q) \in Nat /\ Len(Append(q, x)) = Len(q) + 1
           /\ \A i \in 1..Len(q) : Append(q, x)[i] = q[i]
           /\ Append(q, x)[Len(q) + 1] = x
<1>1. /\ Len(q) \in Nat /\ Len(Append(q, x)) = Len(q) + 1
      /\ \A i \in 1..Len(q) : Append(q, x)[i] = q[i]
      /\ Append(q, x)[Len(q) + 1] = x
  OBVIOUS
<1>2. \A i \in 1..(Len(q) + 1) : i \in 1..Len(q) \/ i = Len(q) + 1
  BY <1>1
<1>3. On(Append(q, x)) \subseteq On(q) \cup {x}
  BY <1>1, <1>2 DEF On
<1>4. On(q) \cup {x} \subseteq On(Append(q, x))
  <2>1. \A i \in 1..Len(q) : i \in 1..(Len(q) + 1)
    BY <1>1
  <2>2. Len(q) + 1 \in 1..(Len(q) + 1)
    BY <1>1
  <2>3. QED
    BY <1>1, <2>1, <2>2 DEF On
<1>5. QED
  BY <1>1, <1>3, <1>4

\* What a queue holds after its first packet was taken.
LEMMA OnTail ==
    ASSUME NEW T, NEW q \in Seq(T), q # <<>>
    PROVE  /\ On(Tail(q)) \subseteq On(q) /\ Head(q) \in On(q)
           /\ Len(q) \in Nat /\ Len(q) >= 1 /\ Len(Tail(q)) = Len(q) - 1 /\ Head(q) = q[1]
           /\ \A i \in 1..(Len(q) - 1) : Tail(q)[i] = q[i + 1]
<1>1. /\ Len(q) \in Nat /\ Len(q) >= 1 /\ Len(Tail(q)) = Len(q) - 1 /\ Head(q) = q[1]
      /\ \A i \in 1..(Len(q) - 1) : Tail(q)[i] = q[i + 1]
  OBVIOUS
<1>2. \A i \in 1..(Len(q) - 1) : i + 1 \in 1..Len(q)
  BY <1>1
<1>3. 1 \in 1..Len(q)
  BY <1>1
<1>4. QED
  BY <1>1, <1>2, <1>3 DEF On

\* The packets of the two queues are host and device packets.
LEMMA OnTypes ==
    ASSUME TInv
    PROVE  /\ \A p \in On(outq) : p \in HostPackets
           /\ \A p \in On(inq) : p \in DevicePackets
<1>1. outq \in Seq(HostPackets) /\ inq \in Seq(DevicePackets)
  BY DEF TInv, TypeOK
<1>2. QED
  BY <1>1 DEF On

-----------------------------------------------------------------------------
(* What no step takes back                                                 *)

Forward(s) == /\ Shut(s) => Shut(s)'
              /\ opened[s] = "resolved" => opened'[s] = "resolved"
              /\ opened[s] # "no" => opened'[s] # "no"

Silent(s) == Unheard(s) /\ opened[s] # "resolved" => (Unheard(s) /\ opened[s] # "resolved")'

\* What was sent keeps what it shows of its stream.
LEMMA SentKept ==
    ASSUME NEW p, Sent(p), p.cmd \in {"CLSE", "WRTE"} => Forward(p.s)
    PROVE  Sent(p)'
  BY DEF Sent, Forward

\* So does what is queued.
LEMMA QueuedKept ==
    ASSUME NEW p, Queued(p), Forward(p.s), p.cmd = "OPEN" => Silent(p.s)
    PROVE  Queued(p)'
  BY SentKept DEF Queued, Forward, Silent

\* Steps that leave the queue alone.
LEMMA QueueKept ==
    ASSUME TInv, Queue, UNCHANGED outq, \A s \in Streams : Forward(s) /\ Silent(s)
    PROVE  Queue'
<1>1. OpenOnce' /\ NothingBehindClose'
  BY DEF Queue, OpenOnce, NothingBehindClose
<1>2. ASSUME NEW p \in On(outq) PROVE Queued(p)'
  BY <1>2, OnTypes, HostPacketFields, QueuedKept DEF Queue
<1>3. On(outq)' = On(outq)
  BY DEF On
<1>4. QED
  BY <1>1, <1>2, <1>3 DEF Queue

\* Steps that take the first packet.
LEMMA QueueShorter ==
    ASSUME TInv, Queue, outq # <<>>, outq' = Tail(outq),
           \A s \in Streams : Forward(s),
           \A p \in On(outq') : p.cmd = "OPEN" => Silent(p.s)
    PROVE  Queue'
<1>0. outq \in Seq(HostPackets)
  BY DEF TInv, TypeOK
<1> DEFINE n == Len(outq)
<1>1. /\ n \in Nat /\ n >= 1 /\ Len(outq') = n - 1 /\ On(outq') \subseteq On(outq)
      /\ \A i \in 1..(n - 1) : outq'[i] = outq[i + 1]
  BY <1>0, OnTail
<1> HIDE DEF n
<1>2. \A i \in 1..Len(outq') : i + 1 \in 1..n /\ outq'[i] = outq[i + 1] /\ i \in Nat
  BY <1>1
<1>3. OpenOnce'
  <2>1. SUFFICES ASSUME NEW i \in 1..Len(outq'), NEW j \in 1..Len(outq'),
                        outq'[i].cmd = "OPEN", outq'[j].cmd = "OPEN", outq'[i].s = outq'[j].s
                 PROVE  i = j
    BY DEF OpenOnce
  <2>2. i + 1 = j + 1
    BY <1>2, <2>1 DEF Queue, OpenOnce, n
  <2>3. QED
    BY <1>2, <2>2
<1>4. NothingBehindClose'
  <2>1. SUFFICES ASSUME NEW i \in 1..Len(outq'), NEW j \in 1..Len(outq'), i < j,
                        outq'[i].cmd = "CLSE", outq'[i].s = outq'[j].s
                 PROVE  outq'[j].cmd = "CLSE"
    BY DEF NothingBehindClose
  <2>2. i + 1 < j + 1
    BY <1>2, <2>1
  <2>3. QED
    BY <1>2, <2>1, <2>2 DEF Queue, NothingBehindClose, n
<1>5. ASSUME NEW p \in On(outq') PROVE Queued(p)'
  <2>1. p \in On(outq)
    BY <1>1, <1>5
  <2>2. p.s \in Streams
    BY <2>1, OnTypes, HostPacketFields
  <2>3. QED
    BY <1>5, <2>1, <2>2, QueuedKept DEF Queue
<1>6. On(outq)' = On(outq')
  BY DEF On
<1>7. QED
  BY <1>3, <1>4, <1>5, <1>6 DEF Queue

\* Steps that put a packet at the end: only an A_CLSE goes behind an A_CLSE,
\* and an A_OPEN is the first packet of its stream.
LEMMA QueueLonger ==
    ASSUME TInv, Queue, NEW p \in HostPackets, Send(p), Queued(p)',
           \A s \in Streams : Forward(s) /\ Silent(s),
           \A x \in On(outq) : x.s = p.s => p.cmd # "OPEN" /\ (p.cmd = "CLSE" \/ x.cmd # "CLSE")
    PROVE  Queue'
<1>0. outq \in Seq(HostPackets) /\ outq' = Append(outq, p)
  BY DEF TInv, TypeOK, Send
<1> DEFINE n == Len(outq)
<1>1. /\ n \in Nat /\ Len(outq') = n + 1 /\ On(outq') = On(outq) \cup {p}
      /\ \A i \in 1..n : outq'[i] = outq[i]
      /\ outq'[n + 1] = p
  BY <1>0, OnAppend
<1>a. \A i \in 1..n : outq[i] \in On(outq)
  BY DEF On
<1> HIDE DEF n
<1>2. \A i \in 1..Len(outq') : i \in 1..n \/ i = n + 1
  BY <1>1
<1>3. OpenOnce'
  <2>1. SUFFICES ASSUME NEW i \in 1..Len(outq'), NEW j \in 1..Len(outq'),
                        outq'[i].cmd = "OPEN", outq'[j].cmd = "OPEN", outq'[i].s = outq'[j].s
                 PROVE  i = j
    BY DEF OpenOnce
  <2>2. CASE i \in 1..n /\ j \in 1..n
    BY <1>1, <2>1, <2>2 DEF Queue, OpenOnce, n
  <2>3. CASE i = n + 1 /\ j \in 1..n
    BY <1>1, <1>a, <2>1, <2>3
  <2>4. CASE i \in 1..n /\ j = n + 1
    BY <1>1, <1>a, <2>1, <2>4
  <2>5. CASE i = n + 1 /\ j = n + 1
    BY <2>5
  <2>6. QED
    BY <1>2, <2>2, <2>3, <2>4, <2>5
<1>4. NothingBehindClose'
  <2>1. SUFFICES ASSUME NEW i \in 1..Len(outq'), NEW j \in 1..Len(outq'), i < j,
                        outq'[i].cmd = "CLSE", outq'[i].s = outq'[j].s
                 PROVE  outq'[j].cmd = "CLSE"
    BY DEF NothingBehindClose
  <2>2. i \in 1..n
    BY <1>1, <1>2, <2>1
  <2>3. CASE j \in 1..n
    BY <1>1, <2>1, <2>2, <2>3 DEF Queue, NothingBehindClose, n
  <2>4. CASE j = n + 1
    BY <1>1, <1>a, <2>1, <2>2, <2>4
  <2>5. QED
    BY <1>2, <2>3, <2>4
<1>5. ASSUME NEW x \in On(outq) PROVE Queued(x)'
  BY <1>5, OnTypes, HostPacketFields, QueuedKept DEF Queue
<1>6. On(outq)' = On(outq')
  BY DEF On
<1>7. QED
  BY <1>1, <1>3, <1>4, <1>5, <1>6 DEF Queue

-----------------------------------------------------------------------------
(* The invariant, action by action                                         *)

\* The invariant holds when the handshake is over.
LEMMA InitCloseInv == Init => CloseInv
<1> SUFFICES ASSUME Init PROVE CloseInv
  OBVIOUS
<1>1. On(outq) = {} /\ On(inq) = {} /\ Len(outq) = 0
  BY DEF Init, On
<1>2. Queue
  BY <1>1 DEF Queue, OpenOnce, NothingBehindClose
<1>3. Known
  BY <1>1 DEF Init, Known, Unheard
<1>4. Asked /\ Sent(completing)
  BY ConstantsOK DEF Init, Asked, Sent, Nothing, Constants
<1>5. QED
  BY <1>2, <1>3, <1>4 DEF CloseInv

\* The states of the streams as one step leaves them.
StreamVars == <<streams, opened, remoteId, closed, pendingAck, readWaiters>>

\* A stream nothing touched keeps all of it.
LEMMA Untouched ==
    ASSUME NEW s \in Streams, closed'[s] = closed[s], opened'[s] = opened[s], UNCHANGED sock,
           On(inq') \subseteq On(inq)
    PROVE  Forward(s) /\ Silent(s) /\ (Unheard(s) => Unheard(s)')
<1>1. On(inq)' = On(inq')
  BY DEF On
<1>2. QED
  BY <1>1 DEF Forward, Silent, Shut, Unheard

\* _onClose on a set of streams: an open() that resolved stays so, and every
\* stream of the set is shut.
LEMMA OnCloseEffect ==
    ASSUME TInv, Known, NEW S \in SUBSET Streams, NEW err, OnClose(S, err),
           UNCHANGED <<sock, remoteId>>, On(inq') \subseteq On(inq)
    PROVE  /\ \A s \in Streams : Forward(s) /\ Silent(s)
           /\ \A s \in Streams : opened'[s] = "no" => opened[s] = "no" /\ Unheard(s)'
           /\ \A s \in Streams : opened'[s] = "resolved" => opened[s] = "resolved"
           /\ \A s \in Streams : readWaiters'[s] > 0 => readWaiters[s] > 0
           /\ \A s \in S : Shut(s)'
           /\ \A w \in Writers : pc'[w] \in {"waiting", "granted"} => pc'[w] = pc[w]
<1>1. /\ opened \in [Streams -> {"no", "pending", "resolved", "rejected"}]
      /\ closed \in [Streams -> BOOLEAN] /\ readWaiters \in [Streams -> Nat]
      /\ pc \in [Writers -> {"idle", "waiting", "granted", "sending", "done", "failed"}]
  BY DEF TInv, TypeOK
<1>2. /\ \A s \in Streams : closed[s] => closed'[s]
      /\ \A s \in S : closed'[s]
      /\ \A s \in Streams : readWaiters'[s] = 0 \/ readWaiters'[s] = readWaiters[s]
      /\ \A w \in Writers : pc'[w] = "failed" \/ pc'[w] = pc[w]
  BY <1>1 DEF OnClose, CloseStreams
<1>3. \A s \in Streams : opened'[s] = opened[s] \/ (opened'[s] = "rejected" /\ ~remoteId[s])
  BY <1>1 DEF OnClose
<1>4. On(inq)' = On(inq')
  BY DEF On
<1>5. \A s \in Streams : Unheard(s) => Unheard(s)'
  BY <1>4 DEF Unheard
<1>6. \A s \in Streams : Forward(s) /\ Silent(s)
  BY <1>2, <1>3, <1>5 DEF Forward, Silent, Shut, Known
<1>7. \A s \in S : Shut(s)'
  BY <1>2 DEF Shut
<1>8. \A s \in Streams : opened'[s] = "no" => opened[s] = "no" /\ Unheard(s)'
  BY <1>3, <1>5 DEF Known
<1>9. QED
  BY <1>1, <1>2, <1>3, <1>6, <1>7, <1>8

\* What is left of the invariant after _onClose when no stream but those of
\* the set leaves the map.
LEMMA OnCloseKnown ==
    ASSUME TInv, Known, Asked, NEW S \in SUBSET Streams, NEW err, OnClose(S, err),
           UNCHANGED <<sock, remoteId, pendingAck>>, On(inq') \subseteq On(inq),
           \A s \in streams : s \in streams' \/ s \in S
    PROVE  Known' /\ Asked'
<1>1. /\ \A s \in Streams : Forward(s) /\ Silent(s)
      /\ \A s \in Streams : opened'[s] = "no" => opened[s] = "no" /\ Unheard(s)'
      /\ \A s \in Streams : opened'[s] = "resolved" => opened[s] = "resolved"
      /\ \A s \in Streams : readWaiters'[s] > 0 => readWaiters[s] > 0
      /\ \A s \in S : Shut(s)'
      /\ \A w \in Writers : pc'[w] \in {"waiting", "granted"} => pc'[w] = pc[w]
  BY OnCloseEffect
<1>2. Asked'
  BY <1>1, ConstantsOK DEF Asked, Forward, Constants
<1>3. ASSUME NEW s \in Streams, s \notin streams', opened'[s] # "no" PROVE Shut(s)'
  <2>1. CASE s \in S
    BY <1>1, <2>1
  <2>2. CASE s \notin S
    <3>1. s \notin streams
      BY <1>3, <2>2
    <3>2. opened[s] # "no"
      BY <1>3, <2>2 DEF OnClose
    <3>3. QED
      BY <1>1, <3>1, <3>2 DEF Known, Forward
  <2>3. QED
    BY <2>1, <2>2
<1>4. ASSUME NEW s \in Streams
      PROVE  /\ opened'[s] = "no" => Unheard(s)'
             /\ opened'[s] = "resolved" => remoteId'[s]
             /\ pendingAck'[s] # 0 \/ readWaiters'[s] > 0 => opened'[s] = "resolved"
  BY <1>1, <1>4 DEF Known, Forward
<1>5. QED
  BY <1>2, <1>3, <1>4 DEF Known

\* A step that leaves the streams alone, and tells adbd nothing.
LEMMA StreamsKept ==
    ASSUME TInv, Known, Asked, UNCHANGED StreamVars, UNCHANGED sock, On(inq') \subseteq On(inq),
           \A w \in Writers : pc'[w] \in {"waiting", "granted"} =>
               pc'[w] = pc[w] \/ opened[StreamOf[w]] = "resolved"
    PROVE  Known' /\ Asked' /\ \A s \in Streams : Forward(s) /\ Silent(s)
<1>1. \A s \in Streams : Forward(s) /\ Silent(s) /\ (Unheard(s) => Unheard(s)')
  BY Untouched DEF StreamVars
<1>2. Asked'
  BY ConstantsOK DEF Asked, StreamVars, Constants
<1>3. \A s \in Streams : Shut(s)' <=> Shut(s)
  BY DEF Shut, StreamVars
<1>4. Known'
  BY <1>1, <1>3 DEF Known, StreamVars
<1>5. QED
  BY <1>1, <1>2, <1>4

\* The packet on the wire, in a step that takes nothing back.
LEMMA CompletingKept ==
    ASSUME TInv, Sent(completing), UNCHANGED completing, \A s \in Streams : Forward(s)
    PROVE  Sent(completing)'
<1>1. completing \in HostPackets \cup {Nothing}
  BY DEF TInv, TypeOK
<1>2. completing.cmd \in {"CLSE", "WRTE"} => completing.s \in Streams
  BY <1>1, HostPacketFields DEF Nothing
<1>3. ASSUME NEW x, x = completing PROVE Sent(x)'
  BY <1>2, <1>3, SentKept
<1>4. PICK x : x = completing
  OBVIOUS
<1>5. QED
  BY <1>3, <1>4 DEF Sent

\* open(): the A_OPEN is the first packet of its stream.
LEMMA OpenCloseInv == ASSUME TInv, CloseInv, NEW s \in Streams, Open(s) PROVE CloseInv'
<1>1. /\ connected /\ opened[s] = "no" /\ opened' = [opened EXCEPT ![s] = "pending"]
      /\ streams' = streams \cup {s} /\ Send(OpenPacket(s))
      /\ UNCHANGED <<remoteId, closed, readWaiters, pendingAck, pc, completing, inq, sock>>
  BY DEF Open, recvVars, devVars
<1>2. opened \in [Streams -> {"no", "pending", "resolved", "rejected"}]
  BY DEF TInv, TypeOK
<1> DEFINE p == OpenPacket(s)
<1>3. p \in HostPackets /\ p.cmd = "OPEN" /\ p.s = s
  BY OpenPacketType DEF OpenPacket
<1> HIDE DEF p
<1>4. On(inq)' = On(inq) /\ Unheard(s)
  BY <1>1 DEF On, CloseInv, Known
<1>5. \A x \in Streams : Forward(x) /\ Silent(x) /\ (Unheard(x) => Unheard(x)')
  BY <1>1, <1>2, <1>4 DEF Forward, Silent, Shut, Unheard
<1>6. Queued(p)'
  BY <1>1, <1>2, <1>3, <1>4, <1>5 DEF Queued, Sent
<1>7. \A x \in On(outq) : x.s # s
  BY <1>1 DEF CloseInv, Queue, Queued
<1>8. Queue'
  BY <1>1, <1>3, <1>5, <1>6, <1>7, QueueLonger DEF CloseInv, p
<1>9. Known'
  BY <1>1, <1>2, <1>5 DEF CloseInv, Known, Shut
<1>10. Asked'
  BY <1>1, <1>2, ConstantsOK DEF CloseInv, Asked, Constants
<1>11. QED
  BY <1>1, <1>5, <1>8, <1>9, <1>10, CompletingKept DEF CloseInv

\* write(), whether it may send at once or waits.
LEMMA WriteCloseInv == ASSUME TInv, CloseInv, NEW w \in Writers, Write(w) PROVE CloseInv'
<1>1. /\ UNCHANGED StreamVars /\ UNCHANGED <<outq, completing, inq, sock>>
      /\ opened[StreamOf[w]] = "resolved"
      /\ \A v \in Writers : v # w => pc'[v] = pc[v]
  BY DEF Write, StreamVars, connVars, recvVars, wireVars, devVars, TInv, TypeOK
<1>2. On(inq') \subseteq On(inq)
  BY <1>1
<1>3. \A v \in Writers : pc'[v] \in {"waiting", "granted"} =>
          pc'[v] = pc[v] \/ opened[StreamOf[v]] = "resolved"
  BY <1>1
<1>4. Known' /\ Asked' /\ \A s \in Streams : Forward(s) /\ Silent(s)
  BY <1>1, <1>2, <1>3, StreamsKept DEF CloseInv
<1>5. QED
  BY <1>1, <1>4, QueueKept, CompletingKept DEF CloseInv

\* read(): only a stream that was handed out has readers or bytes to
\* acknowledge.
LEMMA ReadCloseInv == ASSUME TInv, CloseInv, NEW s \in Streams, Read(s) PROVE CloseInv'
<1>1. /\ UNCHANGED <<streams, opened, remoteId, closed, pc, outq, completing, inq, sock>>
      /\ opened[s] = "resolved"
  BY Zenon DEF Read, connVars, wireVars, devVars
<1>2. \A x \in Streams : x # s => pendingAck'[x] = pendingAck[x] /\ readWaiters'[x] = readWaiters[x]
  <2>1. pendingAck' = pendingAck \/ \E n : pendingAck' = [pendingAck EXCEPT ![s] = n]
    BY DEF Read, Take, Owe, recvVars
  <2>2. readWaiters' = readWaiters \/ \E n : readWaiters' = [readWaiters EXCEPT ![s] = n]
    BY DEF Read
  <2>3. pendingAck \in [Streams -> Nat] /\ readWaiters \in [Streams -> Nat]
    BY DEF TInv, TypeOK
  <2>4. QED
    BY <2>1, <2>2, <2>3
<1>3. \A x \in Streams : Forward(x) /\ Silent(x) /\ (Unheard(x) => Unheard(x)')
  BY <1>1, Untouched
<1>4. \A x \in Streams : Shut(x)' <=> Shut(x)
  BY <1>1 DEF Shut
<1>5. Known'
  BY <1>1, <1>2, <1>3, <1>4 DEF CloseInv, Known
<1>6. Asked'
  BY <1>1 DEF CloseInv, Asked
<1>7. QED
  BY <1>1, <1>3, <1>5, <1>6, QueueKept, CompletingKept DEF CloseInv

\* close(): the stream is shut before its A_CLSE is queued.
LEMMA CloseCloseInv == ASSUME TInv, CloseInv, NEW s \in Streams, Close(s) PROVE CloseInv'
<1>1. /\ opened[s] = "resolved" /\ OnClose({s}, FALSE) /\ Send(ClosePacket(s, "close"))
      /\ UNCHANGED <<streams, remoteId, pendingAck, completing, inq, sock>>
  BY DEF Close, connVars, recvVars, devVars
<1>2. /\ \A x \in Streams : Forward(x) /\ Silent(x)
      /\ Shut(s)'
  BY <1>1, OnCloseEffect DEF CloseInv
<1>3. Known' /\ Asked'
  BY <1>1, OnCloseKnown DEF CloseInv
<1> DEFINE p == ClosePacket(s, "close")
<1>4. p \in HostPackets /\ p.cmd = "CLSE" /\ p.s = s
  BY ClosePacketType DEF ClosePacket
<1>5. Queued(p)'
  BY <1>1, <1>2, <1>4 DEF Queued, Sent, Forward
<1>6. Queue'
  BY <1>1, <1>2, <1>4, <1>5, QueueLonger DEF CloseInv
<1>7. QED
  BY <1>1, <1>2, <1>3, <1>6, CompletingKept DEF CloseInv

\* The connection closes or fails: every stream is shut and forgotten.
LEMMA ForgetAllCloseInv ==
    ASSUME TInv, CloseInv, CloseConnection \/ FailConnection PROVE CloseInv'
<1>1. /\ OnClose(streams, TRUE) /\ streams' = {} /\ streams \in SUBSET Streams
      /\ UNCHANGED <<remoteId, pendingAck, outq, completing, sock>>
      /\ inq' = <<>> \/ inq' = inq
  BY DEF CloseConnection, FailConnection, recvVars, wireVars, devVars, TInv, TypeOK
<1>2. On(inq') \subseteq On(inq)
  BY <1>1 DEF On
<1>3. \A s \in Streams : Forward(s) /\ Silent(s)
  BY <1>1, <1>2, OnCloseEffect DEF CloseInv
<1>4. Known' /\ Asked'
  BY <1>1, <1>2, OnCloseKnown DEF CloseInv
<1>5. QED
  BY <1>1, <1>3, <1>4, QueueKept, CompletingKept DEF CloseInv

\* A writer that was granted permission sends only if its stream is still
\* open, so nothing of the stream has been closed before it.
LEMMA ResumeCloseInv == ASSUME TInv, CloseInv, NEW w \in Writers, Resume(w) PROVE CloseInv'
<1> DEFINE s == StreamOf[w]
           left == Payload[w] - offset[w]
           n == IF left < MaxPayload THEN left ELSE MaxPayload
<1>1. /\ UNCHANGED StreamVars /\ UNCHANGED <<completing, inq, sock>> /\ pc[w] = "granted"
      /\ UNCHANGED outq \/ (~closed[s] /\ Send(WritePacket(w, n)))
      /\ \A v \in Writers : pc'[v] \in {"waiting", "granted"} => pc'[v] = pc[v]
  BY DEF Resume, Usable, StreamVars, connVars, recvVars, devVars, TInv, TypeOK
<1>2. s \in Streams /\ opened[s] = "resolved"
  BY <1>1, ConstantsOK DEF CloseInv, Asked, Constants
<1>3. Known' /\ Asked' /\ \A x \in Streams : Forward(x) /\ Silent(x)
  <2>1. On(inq') \subseteq On(inq)
    BY <1>1
  <2>2. QED
    BY <1>1, <2>1, StreamsKept DEF CloseInv
<1>4. Queue'
  <2>1. CASE UNCHANGED outq
    BY <1>3, <2>1, QueueKept DEF CloseInv
  <2>2. CASE ~closed[s] /\ Send(WritePacket(w, n))
    <3>1. n \in Nat
      <4>1. offset[w] < Payload[w] /\ offset[w] \in Nat
        BY <1>1 DEF TInv, OffsetOK, TypeOK
      <4>2. QED
        BY <4>1, ConstantsOK DEF Constants
    <3>a. PICK p : p = WritePacket(w, n)
      OBVIOUS
    <3>2. p \in HostPackets /\ p.cmd = "WRTE" /\ p.s = s /\ p.by = w
      <4> HIDE DEF n
      <4>1. QED
        BY <3>1, <3>a, WritePacketType DEF WritePacket
    <3>3. Queued(p)'
      BY <1>1, <1>2, <3>2 DEF Queued, Sent, StreamVars
    <3>4. ~Shut(s)
      BY <1>2, <2>2 DEF Shut
    <3>5. \A x \in On(outq) : x.s = s => x.cmd # "CLSE"
      BY <3>4 DEF CloseInv, Queue, Queued, Sent
    <3>6. QED
      BY <1>3, <2>2, <3>a, <3>2, <3>3, <3>5, QueueLonger DEF CloseInv
  <2>3. QED
    BY <1>1, <2>1, <2>2
<1>5. QED
  BY <1>1, <1>3, <1>4, CompletingKept DEF CloseInv

\* An acknowledgement is queued for an open stream only.
LEMMA FlushAckCloseInv == ASSUME TInv, CloseInv, NEW s \in Streams, FlushAck(s) PROVE CloseInv'
<1>1. /\ UNCHANGED <<streams, opened, remoteId, closed, readWaiters, completing, inq, sock, pc>>
      /\ \/ UNCHANGED <<pendingAck, outq>>
         \/ /\ ~closed[s] /\ pendingAck[s] # 0 /\ pendingAck' = [pendingAck EXCEPT ![s] = 0]
            /\ Send(OkayPacket(s, pendingAck[s]))
  BY Zenon DEF FlushAck, AckDue, ResetPending, connVars, onCloseVars, devVars
<1>2. \A x \in Streams : Forward(x) /\ Silent(x) /\ (Unheard(x) => Unheard(x)')
  BY <1>1, Untouched
<1>3. pendingAck \in [Streams -> Nat]
  BY DEF TInv, TypeOK
<1>4. Known'
  <2>1. \A x \in Streams : Shut(x)' <=> Shut(x)
    BY <1>1 DEF Shut
  <2>2. \A x \in Streams : pendingAck'[x] # 0 => pendingAck[x] # 0
    BY <1>1, <1>3
  <2>3. QED
    BY <1>1, <1>2, <2>1, <2>2 DEF CloseInv, Known
<1>5. Asked'
  BY <1>1 DEF CloseInv, Asked
<1>6. Queue'
  <2>1. CASE UNCHANGED outq
    BY <1>2, <2>1, QueueKept DEF CloseInv
  <2>2. CASE ~closed[s] /\ pendingAck[s] # 0 /\ Send(OkayPacket(s, pendingAck[s]))
    <3>a. PICK p : p = OkayPacket(s, pendingAck[s])
      OBVIOUS
    <3>1. p \in HostPackets /\ p.cmd = "OKAY" /\ p.s = s
      <4>1. pendingAck[s] \in Nat
        BY <1>3
      <4>2. QED
        BY <3>a, <4>1, OkayPacketType DEF OkayPacket
    <3>2. opened[s] = "resolved"
      BY <2>2 DEF CloseInv, Known
    <3>3. Queued(p)'
      BY <1>1, <3>1, <3>2 DEF Queued, Sent
    <3>4. \A x \in On(outq) : x.s = s => x.cmd # "CLSE"
      BY <2>2, <3>2 DEF CloseInv, Queue, Queued, Sent, Shut
    <3>5. QED
      BY <1>2, <2>2, <3>a, <3>1, <3>3, <3>4, QueueLonger DEF CloseInv
  <2>3. QED
    BY <1>1, <2>1, <2>2
<1>7. QED
  BY <1>1, <1>2, <1>4, <1>5, <1>6, CompletingKept DEF CloseInv

\* The packet a handler of the read loop is called with.
LEMMA Received ==
    ASSUME TInv, CloseInv, NEW cmd, cmd # "BAD", Receive(cmd)
    PROVE  /\ Head(inq).s \in Streams /\ Head(inq).cmd = cmd
           /\ opened[Head(inq).s] # "no" /\ ~Unheard(Head(inq).s)
           /\ On(inq') \subseteq On(inq)
<1>1. inq \in Seq(DevicePackets) /\ inq # <<>> /\ inq' = Tail(inq) /\ Head(inq).cmd = cmd
  BY DEF TInv, TypeOK, Receive
<1>2. On(inq') \subseteq On(inq) /\ Head(inq) \in On(inq)
  BY <1>1, OnTail
<1>3. Head(inq).s \in Streams
  BY <1>1, <1>2, OnTypes, DevicePacketFields
<1>4. ~Unheard(Head(inq).s)
  BY <1>1, <1>2 DEF Unheard
<1>5. QED
  BY <1>1, <1>2, <1>3, <1>4 DEF CloseInv, Known

\* A_OKAY: an open() resolves, or the read loop answers for a stream that has
\* left the map, hence is shut.
LEMMA HandleOkayCloseInv == ASSUME TInv, CloseInv, HandleOkay PROVE CloseInv'
<1>0. PICK s, n : s = Head(inq).s /\ n = Head(inq).len
  OBVIOUS
<1>1. /\ s \in Streams /\ opened[s] # "no" /\ ~Unheard(s) /\ On(inq') \subseteq On(inq)
      /\ UNCHANGED <<streams, pendingAck, completing, sock>>
      /\ \/ s \in streams /\ OnOkay(s, n) /\ UNCHANGED outq
         \/ /\ s \notin streams /\ Send(ClosePacket(s, "loop"))
            /\ UNCHANGED <<remoteId, opened, closed, readWaiters, pc>>
  BY <1>0, Received DEF HandleOkay, recvVars, devVars, onCloseVars
<1>2. CASE s \in streams /\ OnOkay(s, n) /\ UNCHANGED outq
  <2>1. /\ opened \in [Streams -> {"no", "pending", "resolved", "rejected"}]
        /\ closed \in [Streams -> BOOLEAN] /\ readWaiters \in [Streams -> Nat]
        /\ remoteId \in [Streams -> BOOLEAN]
        /\ pc \in [Writers -> {"idle", "waiting", "granted", "sending", "done", "failed"}]
    BY DEF TInv, TypeOK
  <2>2. /\ remoteId' = [remoteId EXCEPT ![s] = TRUE]
        /\ opened' = [opened EXCEPT ![s] = IF @ = "pending" THEN "resolved" ELSE @]
        /\ \/ CloseStreams({s}, TRUE)
           \/ UNCHANGED <<closed, readWaiters>> /\ (ReleaseWriters(s) \/ UNCHANGED pc)
    BY <1>2 DEF OnOkay
  <2>3. /\ \A x \in Streams : closed[x] => closed'[x]
        /\ \A x \in Streams : readWaiters'[x] > 0 => readWaiters[x] > 0
        /\ \A w \in Writers : pc'[w] \in {"waiting", "granted"} => pc[w] \in {"waiting", "granted"}
    <3>1. CASE CloseStreams({s}, TRUE)
      BY <2>1, <3>1 DEF CloseStreams
    <3>2. CASE UNCHANGED <<closed, readWaiters>> /\ (ReleaseWriters(s) \/ UNCHANGED pc)
      BY <2>1, <3>2 DEF ReleaseWriters
    <3>3. QED
      BY <2>2, <3>1, <3>2
  <2>4. /\ \A x \in Streams : x # s => opened'[x] = opened[x] /\ remoteId'[x] = remoteId[x]
        /\ opened'[s] = (IF opened[s] = "pending" THEN "resolved" ELSE opened[s])
        /\ remoteId'[s]
    BY <1>1, <2>1, <2>2
  <2>5. \A x \in Streams : Unheard(x) => Unheard(x)' /\ x # s
    <3>1. On(inq)' = On(inq')
      BY DEF On
    <3>2. QED
      BY <1>1, <3>1 DEF Unheard
  <2>6. \A x \in Streams : Forward(x) /\ Silent(x)
    BY <2>3, <2>4, <2>5 DEF Forward, Silent, Shut
  <2>7. Known'
    <3>1. \A x \in Streams : opened'[x] = "no" => Unheard(x)'
      BY <1>1, <2>4, <2>5 DEF CloseInv, Known
    <3>2. \A x \in Streams : x \notin streams' /\ opened'[x] # "no" => Shut(x)'
      BY <1>1, <1>2, <2>4, <2>6 DEF CloseInv, Known, Forward
    <3>3. \A x \in Streams : opened'[x] = "resolved" => remoteId'[x]
      BY <2>4 DEF CloseInv, Known
    <3>4. \A x \in Streams : pendingAck'[x] # 0 \/ readWaiters'[x] > 0 => opened'[x] = "resolved"
      BY <1>1, <2>3, <2>6 DEF CloseInv, Known, Forward
    <3>5. QED
      BY <3>1, <3>2, <3>3, <3>4 DEF Known
  <2>8. Asked'
    BY <2>3, <2>6, ConstantsOK DEF CloseInv, Asked, Forward, Constants
  <2>9. QED
    BY <1>1, <1>2, <2>6, <2>7, <2>8, QueueKept, CompletingKept DEF CloseInv
<1>3. CASE /\ s \notin streams /\ Send(ClosePacket(s, "loop"))
           /\ UNCHANGED <<remoteId, opened, closed, readWaiters, pc>>
  <2>1. Known' /\ Asked' /\ \A x \in Streams : Forward(x) /\ Silent(x)
    BY <1>1, <1>3, StreamsKept DEF CloseInv, StreamVars
  <2> DEFINE p == ClosePacket(s, "loop")
  <2>2. p \in HostPackets /\ p.cmd = "CLSE" /\ p.s = s
    BY <1>1, ClosePacketType DEF ClosePacket
  <2>3. Shut(s) /\ Shut(s)'
    BY <1>1, <1>3, <2>1 DEF CloseInv, Known, Forward
  <2>4. Queued(p)'
    BY <1>1, <1>3, <2>2, <2>3 DEF Queued, Sent
  <2>5. Queue'
    BY <1>3, <2>1, <2>2, <2>4, QueueLonger DEF CloseInv
  <2>6. QED
    BY <1>1, <2>1, <2>5, CompletingKept DEF CloseInv
<1>4. QED
  BY <1>1, <1>2, <1>3

\* A_WRTE: a chunk is to be acknowledged once a reader, hence a call on a
\* stream that was handed out, has it.
LEMMA HandleWriteCloseInv == ASSUME TInv, CloseInv, HandleWrite PROVE CloseInv'
<1>0. PICK s : s = Head(inq).s
  OBVIOUS
<1>1. /\ s \in Streams /\ On(inq') \subseteq On(inq)
      /\ UNCHANGED <<streams, opened, remoteId, closed, pc, outq, completing, sock>>
  BY <1>0, Received DEF HandleWrite, connVars, devVars
<1>2. \A x \in Streams : pendingAck'[x] # 0 \/ readWaiters'[x] > 0 =>
          pendingAck[x] # 0 \/ readWaiters[x] > 0
  <2>1. pendingAck \in [Streams -> Nat] /\ readWaiters \in [Streams -> Nat]
    BY DEF TInv, TypeOK
  <2>2. \/ UNCHANGED <<pendingAck, readWaiters>>
        \/ /\ readWaiters[s] > 0
           /\ \E m : pendingAck' = [pendingAck EXCEPT ![s] = m]
           /\ \E m : readWaiters' = [readWaiters EXCEPT ![s] = m]
    BY <1>0 DEF HandleWrite, ReaderWaits, Take, Owe, recvVars
  <2>3. QED
    BY <1>1, <2>1, <2>2
<1>3. \A x \in Streams : Forward(x) /\ Silent(x) /\ (Unheard(x) => Unheard(x)')
  BY <1>1, Untouched
<1>4. \A x \in Streams : Shut(x)' <=> Shut(x)
  BY <1>1 DEF Shut
<1>5. Known'
  BY <1>1, <1>2, <1>3, <1>4 DEF CloseInv, Known
<1>6. Asked'
  BY <1>1 DEF CloseInv, Asked
<1>7. QED
  BY <1>1, <1>3, <1>5, <1>6, QueueKept, CompletingKept DEF CloseInv

\* A_CLSE: the stream leaves the map as it is shut.
LEMMA HandleCloseCloseInv == ASSUME TInv, CloseInv, HandleClose PROVE CloseInv'
<1>0. PICK s : s = Head(inq).s
  OBVIOUS
<1>1. /\ s \in Streams /\ On(inq') \subseteq On(inq)
      /\ UNCHANGED <<remoteId, pendingAck, outq, completing, sock>>
      /\ \/ streams' = streams \ {s} /\ OnClose({s}, FALSE)
         \/ UNCHANGED <<streams, onCloseVars>>
  BY <1>0, Received DEF HandleClose, Forget, recvVars, devVars
<1>2. CASE streams' = streams \ {s} /\ OnClose({s}, FALSE)
  <2>1. {s} \in SUBSET Streams
    BY <1>1
  <2>2. \A x \in Streams : Forward(x) /\ Silent(x)
    BY <1>1, <1>2, <2>1, OnCloseEffect DEF CloseInv
  <2>3. Known' /\ Asked'
    BY <1>1, <1>2, <2>1, OnCloseKnown DEF CloseInv
  <2>4. QED
    BY <1>1, <2>2, <2>3, QueueKept, CompletingKept DEF CloseInv
<1>3. CASE UNCHANGED <<streams, onCloseVars>>
  <2>1. Known' /\ Asked' /\ \A x \in Streams : Forward(x) /\ Silent(x)
    BY <1>1, <1>3, StreamsKept DEF CloseInv, StreamVars, onCloseVars
  <2>2. QED
    BY <1>1, <2>1, QueueKept, CompletingKept DEF CloseInv
<1>4. QED
  BY <1>1, <1>2, <1>3

\* writePacket resolves: the stream of an A_CLSE leaves the map, a write()
\* goes on with its next chunk.
LEMMA WriteDoneCloseInv == ASSUME TInv, CloseInv, WriteDone PROVE CloseInv'
<1>0. PICK c : c = completing
  OBVIOUS
<1>1. /\ Sent(c) /\ c \in HostPackets /\ completing' = Nothing
      /\ UNCHANGED <<opened, remoteId, closed, pendingAck, readWaiters, outq, inq, sock>>
      /\ \/ UNCHANGED <<streams, pc>>
         \/ c.cmd = "CLSE" /\ streams' = streams \ {c.s} /\ UNCHANGED pc
         \/ c.cmd = "WRTE" /\ UNCHANGED streams /\ \E x : pc' = [pc EXCEPT ![c.by] = x]
  BY <1>0 DEF WriteDone, CloseInv, TInv, TypeOK, recvVars, devVars
<1>2. On(inq') \subseteq On(inq)
  BY <1>1
<1>3. \A x \in Streams : Forward(x) /\ Silent(x) /\ (Unheard(x) => Unheard(x)')
  BY <1>1, <1>2, Untouched
<1>4. \A x \in Streams : Shut(x)' <=> Shut(x)
  BY <1>1 DEF Shut
<1>5. Known'
  <2>1. \A x \in Streams : x \notin streams' => x \notin streams \/ Shut(x)
    BY <1>1 DEF Sent
  <2>2. QED
    BY <1>1, <1>3, <1>4, <2>1 DEF CloseInv, Known
<1>6. Asked'
  <2>1. pc \in [Writers -> {"idle", "waiting", "granted", "sending", "done", "failed"}]
    BY DEF TInv, TypeOK
  <2>2. c.cmd = "WRTE" => c.by \in Writers /\ opened[StreamOf[c.by]] = "resolved"
    BY <1>1, HostPacketFields DEF Sent
  <2>3. \A w \in Writers : pc'[w] = pc[w] \/ opened[StreamOf[w]] = "resolved"
    BY <1>1, <2>1, <2>2
  <2>4. QED
    BY <1>1, <2>3 DEF CloseInv, Asked
<1>7. Sent(completing)'
  BY <1>1 DEF Sent, Nothing
<1>8. QED
  BY <1>1, <1>3, <1>5, <1>6, <1>7, QueueKept DEF CloseInv

\* writePacket rejects: an open() that fails shuts its stream, and so does an
\* acknowledgement.
LEMMA WriteFailsCloseInv == ASSUME TInv, CloseInv, WriteFails PROVE CloseInv'
<1>0. PICK p : p = Head(outq)
  OBVIOUS
<1>1. /\ outq # <<>> /\ outq' = Tail(outq)
      /\ UNCHANGED <<remoteId, pendingAck, completing, inq, sock>>
      /\ \/ /\ UNCHANGED <<streams, opened, closed, readWaiters>>
            /\ UNCHANGED pc \/ (p.cmd = "WRTE" /\ pc' = [pc EXCEPT ![p.by] = "failed"])
         \/ /\ p.cmd = "OPEN" /\ streams' = streams \ {p.s}
            /\ opened' = [opened EXCEPT ![p.s] = "rejected"]
            /\ UNCHANGED <<closed, readWaiters, pc>>
         \/ OnClose({p.s}, TRUE) /\ UNCHANGED streams
  BY <1>0 DEF WriteFails, recvVars, onCloseVars, devVars
<1>2. /\ p \in On(outq) /\ p \in HostPackets /\ p.s \in Streams /\ Queued(p)
      /\ On(outq') \subseteq On(outq) /\ On(inq') \subseteq On(inq)
  <2>1. outq \in Seq(HostPackets)
    BY DEF TInv, TypeOK
  <2>2. p \in On(outq) /\ On(outq') \subseteq On(outq)
    BY <1>0, <1>1, <2>1, OnTail
  <2>3. QED
    BY <1>1, <2>2, OnTypes, HostPacketFields DEF CloseInv, Queue
<1>3. /\ opened \in [Streams -> {"no", "pending", "resolved", "rejected"}]
      /\ pc \in [Writers -> {"idle", "waiting", "granted", "sending", "done", "failed"}]
  BY DEF TInv, TypeOK
<1>4. CASE /\ UNCHANGED <<streams, opened, closed, readWaiters>>
           /\ UNCHANGED pc \/ (p.cmd = "WRTE" /\ pc' = [pc EXCEPT ![p.by] = "failed"])
  <2>1. \A w \in Writers : pc'[w] \in {"waiting", "granted"} => pc'[w] = pc[w]
    BY <1>3, <1>4
  <2>2. Known' /\ Asked' /\ \A x \in Streams : Forward(x) /\ Silent(x)
    BY <1>1, <1>2, <1>4, <2>1, StreamsKept DEF CloseInv, StreamVars
  <2>3. \A x \in On(outq') : x.s \in Streams
    BY <1>2, OnTypes, HostPacketFields
  <2>4. QED
    BY <1>1, <2>2, <2>3, QueueShorter, CompletingKept DEF CloseInv
<1>5. CASE /\ p.cmd = "OPEN" /\ streams' = streams \ {p.s}
           /\ opened' = [opened EXCEPT ![p.s] = "rejected"]
           /\ UNCHANGED <<closed, readWaiters, pc>>
  <2>1. /\ opened[p.s] \notin {"no", "resolved"} /\ opened'[p.s] = "rejected"
        /\ \A x \in Streams : x # p.s => opened'[x] = opened[x]
    BY <1>2, <1>3, <1>5 DEF Queued
  <2>2. On(inq)' = On(inq)
    BY <1>1 DEF On
  <2>3. \A x \in Streams : Forward(x) /\ Silent(x) /\ (Unheard(x) => Unheard(x)')
    BY <1>1, <1>5, <2>1, <2>2 DEF Forward, Silent, Shut, Unheard
  <2>4. Known'
    <3>1. \A x \in Streams : x # p.s => (Shut(x)' <=> Shut(x))
      BY <1>5, <2>1 DEF Shut
    <3>2. Shut(p.s)'
      BY <2>1 DEF Shut
    <3>3. \A x \in Streams : x # p.s => (x \in streams' <=> x \in streams)
      BY <1>5
    <3>4. ASSUME NEW x \in Streams, x # p.s
          PROVE  /\ opened'[x] = "no" => Unheard(x)'
                 /\ x \notin streams' /\ opened'[x] # "no" => Shut(x)'
                 /\ opened'[x] = "resolved" => remoteId'[x]
                 /\ pendingAck'[x] # 0 \/ readWaiters'[x] > 0 => opened'[x] = "resolved"
      BY <1>1, <1>5, <2>1, <2>3, <3>1, <3>3, <3>4 DEF CloseInv, Known
    <3>5. pendingAck'[p.s] = 0 /\ ~(readWaiters'[p.s] > 0)
      BY <1>1, <1>2, <1>5, <2>1 DEF CloseInv, Known
    <3>6. QED
      BY <1>2, <2>1, <3>2, <3>4, <3>5 DEF Known
  <2>5. Asked'
    BY <1>5, <2>3, ConstantsOK DEF CloseInv, Asked, Forward, Constants
  <2>6. \A x \in On(outq') : x.s \in Streams
    BY <1>2, OnTypes, HostPacketFields
  <2>7. QED
    BY <1>1, <2>3, <2>4, <2>5, <2>6, QueueShorter, CompletingKept DEF CloseInv
<1>6. CASE OnClose({p.s}, TRUE) /\ UNCHANGED streams
  <2>1. {p.s} \in SUBSET Streams
    BY <1>2
  <2>2. \A x \in Streams : Forward(x) /\ Silent(x)
    BY <1>1, <1>2, <1>6, <2>1, OnCloseEffect DEF CloseInv
  <2>3. Known' /\ Asked'
    BY <1>1, <1>2, <1>6, <2>1, OnCloseKnown DEF CloseInv
  <2>4. \A x \in On(outq') : x.s \in Streams
    BY <1>2, OnTypes, HostPacketFields
  <2>5. QED
    BY <1>1, <2>2, <2>3, <2>4, QueueShorter, CompletingKept DEF CloseInv
<1>7. QED
  BY <1>1, <1>4, <1>5, <1>6

\* The cable is pulled.
LEMMA UnplugCloseInv == ASSUME TInv, CloseInv, Unplug PROVE CloseInv'
<1>1. UNCHANGED StreamVars /\ UNCHANGED <<pc, outq, completing, sock>> /\ inq' = <<>>
  BY DEF Unplug, StreamVars, connVars, recvVars, onCloseVars, devVars
<1>2. On(inq') \subseteq On(inq)
  BY <1>1 DEF On
<1>3. Known' /\ Asked' /\ \A x \in Streams : Forward(x) /\ Silent(x)
  BY <1>1, <1>2, StreamsKept DEF CloseInv
<1>4. QED
  BY <1>1, <1>3, QueueKept, CompletingKept DEF CloseInv

\* What adbd puts on the wire is the only packet that comes in.
LEMMA EmitOn ==
    ASSUME TInv, NEW x, Emit(x) PROVE On(inq') = On(inq) \cup {x}
<1> DEFINE T == DevicePackets \cup {x}
<1>1. inq \in Seq(DevicePackets) /\ inq' = Append(inq, x)
  BY DEF TInv, TypeOK, Emit
<1>2. inq \in Seq(T) /\ x \in T
  <2> HIDE DEF T
  <2>1. DevicePackets \subseteq T /\ x \in T
    BY DEF T
  <2>2. QED
    BY <1>1, <2>1
<1> HIDE DEF T
<1>3. QED
  BY <1>1, <1>2, OnAppend

\* adbd speaks of a stream it has opened, or not at all.
LEMMA DevSpeaks ==
    ASSUME TInv, CloseInv, NEW t \in Streams, UNCHANGED hostVars,
           \A s \in Streams : s # t => sock'[s] = sock[s],
           sock[t] = "open" \/ UNCHANGED sock,
           \/ On(inq') \subseteq On(inq)
           \/ sock[t] = "open" /\ \E x : (x.cmd = "BAD" \/ x.s = t) /\ Emit(x)
    PROVE  Known' /\ Asked' /\ \A s \in Streams : Forward(s) /\ Silent(s)
<1>1. UNCHANGED StreamVars /\ UNCHANGED pc
  BY DEF hostVars, StreamVars, connVars, recvVars, onCloseVars
<1>2. \A s \in Streams : Unheard(s) => Unheard(s)'
  <2>1. On(inq)' = On(inq')
    BY DEF On
  <2>2. ASSUME NEW s \in Streams, Unheard(s) PROVE sock'[s] = "none"
    BY <2>2 DEF Unheard
  <2>3. ASSUME NEW s \in Streams, Unheard(s), NEW p \in On(inq'), p.cmd # "BAD" PROVE p.s # s
    <3>1. CASE p \in On(inq)
      BY <2>3, <3>1 DEF Unheard
    <3>2. CASE p \notin On(inq)
      <4>1. PICK x : (x.cmd = "BAD" \/ x.s = t) /\ Emit(x) /\ sock[t] = "open"
        BY <2>3, <3>2
      <4>2. p = x
        BY <2>3, <3>2, <4>1, EmitOn
      <4>3. QED
        BY <2>3, <4>1, <4>2 DEF Unheard
    <3>3. QED
      BY <3>1, <3>2
  <2>4. QED
    BY <2>1, <2>2, <2>3 DEF Unheard
<1>3. \A s \in Streams : (Shut(s)' <=> Shut(s)) /\ Forward(s) /\ Silent(s)
  BY <1>1, <1>2 DEF Forward, Silent, Shut, StreamVars
<1>4. Known'
  BY <1>1, <1>2, <1>3 DEF CloseInv, Known, StreamVars
<1>5. Asked'
  BY <1>1 DEF CloseInv, Asked, StreamVars
<1>6. QED
  BY <1>3, <1>4, <1>5

\* adbd consumes, writes, closes or breaks the protocol.
LEMMA DeviceCloseInv ==
    ASSUME TInv, CloseInv, NEW t \in Streams,
           DevConsume(t) \/ DevWrite(t) \/ DevClose(t) \/ DevMisbehave(t)
    PROVE  CloseInv'
<1>1. /\ UNCHANGED hostVars /\ UNCHANGED <<outq, completing>> /\ sock[t] = "open"
      /\ UNCHANGED sock \/ sock' = [sock EXCEPT ![t] = "closed"]
  BY DEF DevConsume, DevWrite, DevClose, DevMisbehave
<1>2. \E x : (x.cmd = "BAD" \/ x.s = t) /\ Emit(x)
  <2>1. CASE DevConsume(t)
    <3>1. PICK n : Emit([cmd |-> "OKAY", s |-> t, len |-> n])
      BY <2>1 DEF DevConsume
    <3>2. QED
      BY <3>1
  <2>2. CASE DevWrite(t)
    <3>1. PICK n : Emit([cmd |-> "WRTE", s |-> t, len |-> n])
      BY <2>2 DEF DevWrite
    <3>2. QED
      BY <3>1
  <2>3. CASE DevClose(t)
    BY <2>3 DEF DevClose
  <2>4. CASE DevMisbehave(t)
    <3>1. Emit([cmd |-> "BAD"]) \/ \E n : Emit([cmd |-> "OKAY", s |-> t, len |-> n])
      BY <2>4 DEF DevMisbehave
    <3>2. QED
      BY <3>1
  <2>5. QED
    BY <2>1, <2>2, <2>3, <2>4
<1>3. Known' /\ Asked' /\ \A s \in Streams : Forward(s) /\ Silent(s)
  <2>1. \A s \in Streams : s # t => sock'[s] = sock[s]
    <3>1. sock \in [Streams -> {"none", "open", "closed"}]
      BY DEF TInv, TypeOK
    <3>2. QED
      BY <1>1, <3>1
  <2>2. QED
    BY <1>1, <1>2, <2>1, DevSpeaks
<1>4. QED
  BY <1>1, <1>3, QueueKept, CompletingKept DEF CloseInv

\* The packet adbd takes shows on the wire what it showed in the queue.
LEMMA TakenSent ==
    ASSUME TInv, CloseInv, NEW cmd, Transfer(cmd), \A s \in Streams : Forward(s)
    PROVE  Sent(completing)'
<1>1. PICK p : p = Head(outq)
  OBVIOUS
<1>2. outq \in Seq(HostPackets) /\ outq # <<>> /\ completing' = p
  BY <1>1 DEF TInv, TypeOK, Transfer
<1>3. p \in On(outq)
  BY <1>1, <1>2, OnTail
<1>4. Sent(p) /\ p.s \in Streams
  BY <1>3, OnTypes, HostPacketFields DEF CloseInv, Queue, Queued
<1>5. Sent(p)'
  BY <1>4, SentKept
<1>6. QED
  BY <1>2, <1>5 DEF Sent

\* adbd takes an A_WRTE, an A_OKAY or an A_CLSE, to which it answers at most
\* when it has the stream open.
LEMMA ReceiveCloseInv ==
    ASSUME TInv, CloseInv, DevReceiveWrite \/ DevReceiveOkay \/ DevReceiveClose
    PROVE  CloseInv'
<1>1. PICK cmd, t : Transfer(cmd) /\ t = Head(outq).s
  BY DEF DevReceiveWrite, DevReceiveOkay, DevReceiveClose
<1>2. t \in Streams
  BY <1>1, TransferTypes
<1>3. /\ UNCHANGED hostVars /\ outq # <<>> /\ outq' = Tail(outq)
      /\ \/ UNCHANGED <<sock, inq>>
         \/ /\ sock[t] = "open" /\ sock' = [sock EXCEPT ![t] = "closed"]
            /\ Emit([cmd |-> "CLSE", s |-> t])
  BY <1>1 DEF DevReceiveWrite, DevReceiveOkay, DevReceiveClose, Transfer
<1>4. Known' /\ Asked' /\ \A s \in Streams : Forward(s) /\ Silent(s)
  <2>1. \A s \in Streams : s # t => sock'[s] = sock[s]
    <3>1. sock \in [Streams -> {"none", "open", "closed"}]
      BY DEF TInv, TypeOK
    <3>2. QED
      BY <1>2, <1>3, <3>1
  <2>2. \/ On(inq') \subseteq On(inq)
        \/ sock[t] = "open" /\ \E x : (x.cmd = "BAD" \/ x.s = t) /\ Emit(x)
    BY <1>3
  <2>3. QED
    BY <1>2, <1>3, <2>1, <2>2, DevSpeaks
<1>5. \A x \in On(outq') : x.s \in Streams
  <2>1. On(outq') \subseteq On(outq)
    BY <1>3, OnTail DEF TInv, TypeOK
  <2>2. QED
    BY <2>1, OnTypes, HostPacketFields
<1>6. Sent(completing)'
  BY <1>1, <1>4, TakenSent
<1>7. QED
  BY <1>3, <1>4, <1>5, <1>6, QueueShorter DEF CloseInv

\* adbd takes an A_OPEN, of which there is only one for the stream.
LEMMA DevOpenCloseInv == ASSUME TInv, CloseInv, DevOpen PROVE CloseInv'
<1>1. PICK t : t = Head(outq).s
  OBVIOUS
<1>2. /\ Transfer("OPEN") /\ UNCHANGED hostVars /\ outq # <<>> /\ outq' = Tail(outq)
      /\ Head(outq).cmd = "OPEN"
      /\ UNCHANGED sock \/ sock' = [sock EXCEPT ![t] = "open"]
  BY <1>1 DEF DevOpen, Transfer
<1>3. t \in Streams
  BY <1>1, <1>2, TransferTypes
<1>4. \E x : x.s = t /\ Emit(x)
  <2>1. Emit([cmd |-> "CLSE", s |-> t]) \/ \E n : Emit([cmd |-> "OKAY", s |-> t, len |-> n])
    BY <1>1 DEF DevOpen
  <2>2. QED
    BY <2>1
<1>5. UNCHANGED StreamVars /\ UNCHANGED pc
  BY <1>2 DEF hostVars, StreamVars, connVars, recvVars, onCloseVars
<1>6. \A s \in Streams : s # t /\ Unheard(s) => Unheard(s)'
  <2>1. PICK x : x.s = t /\ Emit(x)
    BY <1>4
  <2>2. On(inq)' = On(inq) \cup {x}
    BY <2>1, EmitOn DEF On
  <2>3. \A s \in Streams : s # t => sock'[s] = sock[s]
    <3>1. sock \in [Streams -> {"none", "open", "closed"}]
      BY DEF TInv, TypeOK
    <3>2. QED
      BY <1>2, <1>3, <3>1
  <2>4. QED
    BY <2>1, <2>2, <2>3 DEF Unheard
<1>7. opened[t] # "no"
  <2>1. outq \in Seq(HostPackets)
    BY DEF TInv, TypeOK
  <2>2. Head(outq) \in On(outq)
    BY <1>2, <2>1, OnTail
  <2>3. QED
    BY <1>1, <2>2 DEF CloseInv, Queue, Queued
<1>8. \A s \in Streams : (Shut(s)' <=> Shut(s)) /\ Forward(s) /\ (s # t => Silent(s))
  BY <1>5, <1>6 DEF Forward, Silent, Shut, StreamVars
<1>9. Known'
  BY <1>5, <1>6, <1>7, <1>8 DEF CloseInv, Known, StreamVars
<1>10. Asked'
  BY <1>5 DEF CloseInv, Asked, StreamVars
<1>11. \A p \in On(outq') : p.s \in Streams /\ (p.cmd = "OPEN" => p.s # t)
  <2>1. outq \in Seq(HostPackets)
    BY DEF TInv, TypeOK
  <2>2. /\ On(outq') \subseteq On(outq) /\ Len(outq) \in Nat /\ Len(outq) >= 1
        /\ Head(outq) = outq[1] /\ Len(outq') = Len(outq) - 1
        /\ \A i \in 1..(Len(outq) - 1) : outq'[i] = outq[i + 1]
    BY <1>2, <2>1, OnTail
  <2>3. ASSUME NEW i \in 1..(Len(outq) - 1), outq[i + 1].cmd = "OPEN", outq[i + 1].s = t
        PROVE  FALSE
    <3>1. i + 1 \in 1..Len(outq) /\ 1 \in 1..Len(outq) /\ i + 1 # 1
      BY <2>2
    <3>2. i + 1 = 1
      BY <1>1, <1>2, <2>2, <2>3, <3>1 DEF CloseInv, Queue, OpenOnce
    <3>3. QED
      BY <3>1, <3>2
  <2>4. \A p \in On(outq') : \E i \in 1..(Len(outq) - 1) : p = outq[i + 1]
    BY <2>2 DEF On
  <2>5. QED
    BY <2>2, <2>3, <2>4, OnTypes, HostPacketFields
<1>12. Sent(completing)'
  BY <1>2, <1>8, TakenSent
<1>13. QED
  BY <1>2, <1>8, <1>9, <1>10, <1>11, <1>12, QueueShorter DEF CloseInv

\* Every step keeps what the queued packets show of their streams.
LEMMA NextCloseInv == TInv /\ CloseInv /\ [Next]_vars => CloseInv'
<1> SUFFICES ASSUME TInv, CloseInv, [Next]_vars PROVE CloseInv'
  OBVIOUS
<1>1. CASE AppStep
  BY <1>1, OpenCloseInv, WriteCloseInv, ReadCloseInv, CloseCloseInv, ForgetAllCloseInv DEF AppStep
<1>2. CASE HostStep
  BY <1>2, ResumeCloseInv, FlushAckCloseInv, HandleOkayCloseInv, HandleWriteCloseInv,
     HandleCloseCloseInv, ForgetAllCloseInv, WriteDoneCloseInv, WriteFailsCloseInv
     DEF HostStep, WriteFailsUnplugged
<1>3. CASE DevTransfer
  BY <1>3, DevOpenCloseInv, ReceiveCloseInv DEF DevTransfer
<1>4. CASE EnvStep \/ \E s \in Streams : DevConsume(s)
  BY <1>4, WriteFailsCloseInv, UnplugCloseInv, DeviceCloseInv DEF EnvStep, WriteStalls
<1>5. CASE UNCHANGED vars
  <2>1. UNCHANGED StreamVars /\ UNCHANGED <<pc, sock, inq, outq, completing>>
    BY <1>5 DEF vars, StreamVars, connVars, recvVars, onCloseVars, wireVars, devVars
  <2>2. Known' /\ Asked' /\ \A s \in Streams : Forward(s) /\ Silent(s)
    BY <2>1, StreamsKept DEF CloseInv
  <2>3. QED
    BY <2>1, <2>2, QueueKept, CompletingKept DEF CloseInv
<1>6. QED
  BY <1>1, <1>2, <1>3, <1>4, <1>5 DEF Next

\* Once the A_CLSE of a stream is queued no A_WRTE and no A_OKAY of it goes
\* out behind it, whichever of close(), the read loop, a writer that resumes
\* and an acknowledgement that is flushed comes first, and whatever fails.
THEOREM NothingSentBehindClose == Spec => []NothingBehindClose
<1>1. Init => TInv /\ CloseInv
  BY InitTInv, InitCloseInv
<1>2. TInv /\ CloseInv /\ [Next]_vars => (TInv /\ CloseInv)'
  BY NextTInv, NextCloseInv
<1>3. CloseInv => NothingBehindClose
  BY DEF CloseInv, Queue
<1>4. QED
  BY <1>1, <1>2, <1>3, PTL DEF Spec

-----------------------------------------------------------------------------
(* The debt of a delayed-ack stream                                        *)

\* The write() calls of a stream that hold no permission.
Unpermitted(s) == {w \in WritersOf(s) : pc[w] # "granted"}

\* Every permission was given out of a positive budget, so only the chunks of
\* calls that hold none any more can have been spent beyond it.
DebtCovered ==
    DelayedAck => \A s \in Streams : WritersOf(s) # {} =>
        availableSendBytes[s] > -(MaxPayload * Cardinality(Unpermitted(s)))

\* How a step may change the budget and the permissions of a stream.
Repaid(s) == availableSendBytes'[s] > 0
Safe(s) == availableSendBytes'[s] >= availableSendBytes[s] /\ Unpermitted(s) \subseteq Unpermitted(s)'
Spent(s) == /\ availableSendBytes'[s] >= availableSendBytes[s] - MaxPayload
            /\ \E w : w \notin Unpermitted(s) /\ Unpermitted(s) \cup {w} \subseteq Unpermitted(s)'

\* What a debt of whole chunks comes to.
LEMMA Chunks ==
    \A m \in Nat, a \in Nat, b \in Nat :
        /\ m * a \in Nat
        /\ a <= b => m * a <= m * b
        /\ m * (a + 1) = m * a + m
  OBVIOUS

\* The calls of a stream can be counted.
LEMMA UnpermittedFinite ==
    \A s \in Streams : /\ IsFiniteSet(Unpermitted(s)) /\ IsFiniteSet(Unpermitted(s)')
                       /\ IsFiniteSet(WritersOf(s)) /\ Unpermitted(s) \subseteq WritersOf(s)
<1>1. \A S : S \subseteq Writers => IsFiniteSet(S)
  BY WritersAssumption, FS_Subset
<1>2. QED
  BY <1>1 DEF Unpermitted, WritersOf

\* Each of the three ways keeps the debt covered.
LEMMA DebtKept ==
    ASSUME TInv, TInv', DebtCovered,
           DelayedAck => \A s \in Streams : Repaid(s) \/ Safe(s) \/ Spent(s)
    PROVE  DebtCovered'
<1> SUFFICES ASSUME DelayedAck, NEW s \in Streams, WritersOf(s) # {}
             PROVE  availableSendBytes'[s] > -(MaxPayload * Cardinality(Unpermitted(s)'))
  BY DEF DebtCovered, WritersOf
<1>1. PICK U, V : U = Unpermitted(s) /\ V = Unpermitted(s)'
  OBVIOUS
<1>2. IsFiniteSet(U) /\ IsFiniteSet(V) /\ Cardinality(U) \in Nat /\ Cardinality(V) \in Nat
  BY <1>1, UnpermittedFinite, FS_CardinalityType
<1>3. PICK a, b, m, u, v : /\ a = availableSendBytes[s] /\ b = availableSendBytes'[s]
                           /\ m = MaxPayload /\ u = Cardinality(U) /\ v = Cardinality(V)
  OBVIOUS
<1>4. a \in Int /\ b \in Int /\ m \in Nat /\ u \in Nat /\ v \in Nat /\ a > -(m * u)
  <2>1. a \in Int /\ b \in Int
    BY <1>3 DEF TInv, TypeOK
  <2>2. m \in Nat
    BY <1>3, ConstantsOK DEF Constants
  <2>3. a > -(m * u)
    BY <1>1, <1>3 DEF DebtCovered, WritersOf
  <2>4. QED
    BY <1>2, <1>3, <2>1, <2>2, <2>3
<1>5. CASE Repaid(s)
  BY <1>1, <1>3, <1>4, <1>5, Chunks DEF Repaid
<1>6. CASE Safe(s)
  <2>1. b >= a /\ u <= v
    BY <1>1, <1>2, <1>3, <1>6, FS_Subset DEF Safe
  <2>2. m * u \in Nat /\ m * v \in Nat /\ m * u <= m * v
    BY <1>4, <2>1, Chunks
  <2>3. b > -(m * v)
    BY <1>4, <2>1, <2>2
  <2>4. QED
    BY <1>1, <1>3, <2>3
<1>7. CASE Spent(s)
  <2>1. PICK w : w \notin U /\ U \cup {w} \subseteq V
    BY <1>1, <1>7 DEF Spent
  <2>2. Cardinality(U \cup {w}) = u + 1
    BY <1>2, <1>3, <2>1, FS_AddElement
  <2>3. u + 1 <= v
    BY <1>2, <1>3, <2>1, <2>2, FS_Subset
  <2>4. b >= a - m
    BY <1>3, <1>7 DEF Spent
  <2>5. m * u \in Nat /\ m * v \in Nat /\ m * u + m <= m * v
    <3>1. u + 1 \in Nat
      BY <1>4
    <3>2. m * (u + 1) <= m * v /\ m * (u + 1) = m * u + m /\ m * u \in Nat /\ m * v \in Nat
      BY <1>4, <2>3, <3>1, Chunks
    <3>3. QED
      BY <3>2
  <2>6. b > -(m * v)
    BY <1>4, <2>4, <2>5
  <2>7. QED
    BY <1>1, <1>3, <2>6
<1>8. QED
  BY <1>5, <1>6, <1>7

\* A step that gives no permission and spends nothing.
LEMMA NothingSpent ==
    ASSUME TInv, UNCHANGED availableSendBytes,
           \A w \in Writers : pc'[w] = "granted" => pc[w] = "granted"
    PROVE  \A s \in Streams : Safe(s)
  BY DEF Safe, Unpermitted, WritersOf, TInv, TypeOK

\* A step in which one write() call asks for permission.
LEMMA OneAsks ==
    ASSUME TInv, DelayedAck, UNCHANGED <<availableSendBytes, closed>>, NEW w \in Writers,
           pc'[w] = "granted" => MaySend(StreamOf[w]),
           \A v \in Writers : v # w => pc'[v] = pc[v]
    PROVE  \A s \in Streams : Repaid(s) \/ Safe(s)
<1>1. availableSendBytes \in [Streams -> Int] /\ StreamOf \in [Writers -> Streams]
  BY ConstantsOK DEF TInv, TypeOK, Constants
<1>2. CASE pc'[w] = "granted"
  <2>1. Repaid(StreamOf[w])
    BY <1>1, <1>2 DEF MaySend, HasBudget, Repaid
  <2>2. \A s \in Streams : s # StreamOf[w] => Safe(s)
    BY <1>1 DEF Safe, Unpermitted, WritersOf
  <2>3. QED
    BY <2>1, <2>2
<1>3. CASE pc'[w] # "granted"
  <2>1. \A s \in Streams : Safe(s)
    BY <1>1, <1>3 DEF Safe, Unpermitted, WritersOf
  <2>2. QED
    BY <2>1
<1>4. QED
  BY <1>2, <1>3

\* _onClose gives no permission.
LEMMA OnCloseSpends ==
    ASSUME TInv, NEW S, NEW err, CloseStreams(S, err), UNCHANGED availableSendBytes
    PROVE  \A s \in Streams : Safe(s)
<1>1. \A w \in Writers : pc'[w] = "granted" => pc[w] = "granted"
  BY DEF CloseStreams
<1>2. QED
  BY <1>1, NothingSpent

\* A writer that resumes spends at most one chunk of the greatest size, and
\* its permission with it.
LEMMA ResumeSpends ==
    ASSUME TInv, DelayedAck, NEW w \in Writers, Resume(w)
    PROVE  \A s \in Streams : Safe(s) \/ Spent(s)
<1> DEFINE t == StreamOf[w]
           left == Payload[w] - offset[w]
           n == IF left < MaxPayload THEN left ELSE MaxPayload
<1>1. /\ availableSendBytes \in [Streams -> Int] /\ t \in Streams /\ MaxPayload \in Nat
      /\ pc \in [Writers -> {"idle", "waiting", "granted", "sending", "done", "failed"}]
      /\ pc[w] = "granted"
  BY ConstantsOK DEF TInv, TypeOK, Constants, Resume
<1>2. n \in Int /\ n <= MaxPayload
  <2>1. offset[w] \in Int /\ Payload[w] \in Int
    BY ConstantsOK DEF TInv, TypeOK, Constants
  <2>2. QED
    BY <1>1, <2>1
<1>3. /\ UNCHANGED availableSendBytes \/ availableSendBytes' = [availableSendBytes EXCEPT ![t] = @ - n]
      /\ pc' = [pc EXCEPT ![w] = "failed"] \/ pc' = [pc EXCEPT ![w] = "sending"]
  <2>1. CASE ~Usable(t)
    BY <2>1 DEF Resume, sendVars
  <2>2. CASE Usable(t)
    <3>1. Spend(t, n) /\ pc' = [pc EXCEPT ![w] = "sending"]
      BY <2>2 DEF Resume
    <3>2. QED
      BY <3>1 DEF Spend
  <2>3. QED
    BY <2>1, <2>2
<1> HIDE DEF n
<1>4. Spent(t)
  <2>1. availableSendBytes'[t] >= availableSendBytes[t] - MaxPayload
    BY <1>1, <1>2, <1>3
  <2>2. w \notin Unpermitted(t) /\ Unpermitted(t) \cup {w} \subseteq Unpermitted(t)'
    BY <1>1, <1>3 DEF Unpermitted, WritersOf
  <2>3. QED
    BY <2>1, <2>2 DEF Spent
<1>5. \A s \in Streams : s # t => Safe(s)
  BY <1>1, <1>3 DEF Safe, Unpermitted, WritersOf
<1>6. QED
  BY <1>4, <1>5

\* An A_OKAY raises the budget, and gives permission out of a positive one.
LEMMA OkaySpends ==
    ASSUME TInv, DelayedAck, HandleOkay PROVE \A s \in Streams : Repaid(s) \/ Safe(s)
<1>0. PICK t, n : t = Head(inq).s /\ n = Head(inq).len
  OBVIOUS
<1>1. /\ availableSendBytes \in [Streams -> Int] /\ t \in Streams /\ n \in Nat \cup {Bare}
      /\ pc \in [Writers -> {"idle", "waiting", "granted", "sending", "done", "failed"}]
  <2>1. inq \in Seq(DevicePackets) /\ inq # <<>> /\ Head(inq).cmd = "OKAY"
    BY DEF HandleOkay, Receive, TInv, TypeOK
  <2>2. Head(inq) \in DevicePackets
    BY <2>1, HeadTailType
  <2>3. QED
    BY <1>0, <2>1, <2>2, DevicePacketFields DEF TInv, TypeOK
<1>2. CASE /\ n # Bare /\ Credited(t, n)
           /\ IF HasBudget(availableSendBytes[t] + n) THEN ReleaseWriters(t) ELSE UNCHANGED pc
  <2>1. /\ availableSendBytes'[t] = availableSendBytes[t] + n /\ n \in Nat
        /\ \A s \in Streams : s # t => availableSendBytes'[s] = availableSendBytes[s]
    BY <1>1, <1>2 DEF Credited
  <2>2. \A s \in Streams : s # t => Safe(s)
    BY <1>1, <1>2, <2>1 DEF Safe, Unpermitted, WritersOf, ReleaseWriters
  <2>3. CASE HasBudget(availableSendBytes[t] + n)
    BY <2>1, <2>2, <2>3 DEF HasBudget, Repaid
  <2>4. CASE UNCHANGED pc
    <3>1. Safe(t)
      BY <1>1, <2>1, <2>4 DEF Safe, Unpermitted
    <3>2. QED
      BY <2>2, <3>1
  <2>5. QED
    BY <1>2, <2>3, <2>4
<1>3. CASE CloseStreams({t}, TRUE) /\ UNCHANGED sendVars
  BY <1>3, OnCloseSpends DEF sendVars
<1>4. CASE UNCHANGED <<sendVars, onCloseVars>>
  BY <1>4, NothingSpent DEF sendVars, onCloseVars
<1>5. OnOkay(t, n) \/ UNCHANGED <<sendVars, onCloseVars>>
  BY <1>0, Zenon DEF HandleOkay
<1>6. CASE OnOkay(t, n)
  BY <1>2, <1>3, <1>6, Zenon DEF OnOkay
<1>7. QED
  BY <1>4, <1>5, <1>6

\* Every step keeps the debt covered.
LEMMA NextDebtCovered == TInv /\ DebtCovered /\ [Next]_vars => DebtCovered'
<1> SUFFICES ASSUME TInv, DebtCovered, [Next]_vars, DelayedAck
             PROVE  \A s \in Streams : Repaid(s) \/ Safe(s) \/ Spent(s)
  BY NextTInv, DebtKept
<1>a. ASSUME UNCHANGED <<availableSendBytes, pc>> PROVE \A s \in Streams : Safe(s)
  BY <1>a, NothingSpent
<1>b. ASSUME NEW S, NEW err, OnClose(S, err), UNCHANGED sendVars
      PROVE  \A s \in Streams : Safe(s)
  BY <1>b, OnCloseSpends DEF OnClose, sendVars
<1>c. ASSUME WriteFails PROVE \A s \in Streams : Safe(s)
  <2>1. UNCHANGED sendVars
    BY <1>c, Zenon DEF WriteFails
  <2>2. \/ UNCHANGED pc \/ pc' = [pc EXCEPT ![Head(outq).by] = "failed"]
        \/ OnClose({Head(outq).s}, TRUE)
    BY <1>c, Zenon DEF WriteFails, onCloseVars
  <2>3. CASE UNCHANGED pc
    BY <2>1, <2>3, <1>a DEF sendVars
  <2>4. CASE pc' = [pc EXCEPT ![Head(outq).by] = "failed"]
    <3>1. \A w \in Writers : pc'[w] = "granted" => pc[w] = "granted"
      BY <2>4 DEF TInv, TypeOK
    <3>2. QED
      BY <2>1, <3>1, NothingSpent DEF sendVars
  <2>5. CASE OnClose({Head(outq).s}, TRUE)
    BY <2>1, <2>5, <1>b
  <2>6. QED
    BY <2>2, <2>3, <2>4, <2>5
<1>1. CASE AppStep
  <2>1. ASSUME NEW w \in Writers, Write(w) PROVE \A s \in Streams : Repaid(s) \/ Safe(s)
    <3>1. /\ UNCHANGED <<availableSendBytes, closed>>
          /\ pc' = [pc EXCEPT ![w] = AwaitSendPermission(StreamOf[w])]
      BY <2>1 DEF Write, sendVars
    <3>2. pc'[w] = "granted" => MaySend(StreamOf[w])
      BY <3>1 DEF AwaitSendPermission, TInv, TypeOK
    <3>3. \A v \in Writers : v # w => pc'[v] = pc[v]
      BY <3>1 DEF TInv, TypeOK
    <3>4. QED
      BY <3>1, <3>2, <3>3, OneAsks
  <2>2. ASSUME NEW s \in Streams, Open(s) \/ Read(s) PROVE \A x \in Streams : Safe(x)
    BY <2>2, <1>a, Zenon DEF Open, Read, sendVars
  <2>3. ASSUME NEW s \in Streams, Close(s) PROVE \A x \in Streams : Safe(x)
    BY <2>3, <1>b DEF Close
  <2>4. CASE CloseConnection
    BY <2>4, <1>b DEF CloseConnection
  <2>5. QED
    BY <1>1, <2>1, <2>2, <2>3, <2>4 DEF AppStep
<1>2. CASE HostStep
  <2>1. ASSUME NEW s \in Streams, FlushAck(s) PROVE \A x \in Streams : Safe(x)
    BY <2>1, <1>a DEF FlushAck, sendVars, onCloseVars
  <2>2. CASE HandleWrite
    BY <2>2, <1>a, Zenon DEF HandleWrite, sendVars
  <2>3. CASE HandleClose
    BY <2>3, <1>a, <1>b DEF HandleClose, sendVars, onCloseVars
  <2>4. CASE FailConnection
    BY <2>4, <1>b DEF FailConnection
  <2>5. CASE WriteDone
    <3>1. UNCHANGED <<availableSendBytes, closed>>
      BY <2>5, Zenon DEF WriteDone, sendVars
    <3>2. CASE UNCHANGED pc
      BY <3>1, <3>2, <1>a
    <3>3. CASE /\ completing.cmd = "WRTE"
               /\ pc' = [pc EXCEPT ![completing.by] =
                           IF offset[completing.by] + MaxPayload >= Payload[completing.by]
                           THEN "done" ELSE AwaitSendPermission(StreamOf[completing.by])]
      <4>1. PICK w : w = completing.by
        OBVIOUS
      <4>2. w \in Writers
        BY <2>5, <3>3, <4>1, HostPacketFields DEF WriteDone, TInv, TypeOK
      <4>3. pc'[w] = "granted" => MaySend(StreamOf[w])
        BY <3>3, <4>1, <4>2 DEF AwaitSendPermission, TInv, TypeOK
      <4>4. \A v \in Writers : v # w => pc'[v] = pc[v]
        BY <3>3, <4>1 DEF TInv, TypeOK
      <4>5. QED
        BY <3>1, <4>2, <4>3, <4>4, OneAsks
    <3>4. QED
      BY <2>5, <3>2, <3>3, Zenon DEF WriteDone
  <2>6. QED
    BY <1>2, <1>c, <2>1, <2>2, <2>3, <2>4, <2>5, ResumeSpends, OkaySpends
       DEF HostStep, WriteFailsUnplugged
<1>3. CASE DevTransfer
  BY <1>3, <1>a
     DEF DevTransfer, DevOpen, DevReceiveWrite, DevReceiveOkay, DevReceiveClose, hostVars,
         sendVars, onCloseVars
<1>4. CASE \E s \in Streams : DevWrite(s) \/ DevClose(s) \/ DevMisbehave(s) \/ DevConsume(s)
  BY <1>4, <1>a
     DEF DevWrite, DevClose, DevMisbehave, DevConsume, hostVars, sendVars, onCloseVars
<1>5. CASE Unplug \/ UNCHANGED vars
  BY <1>5, <1>a DEF Unplug, vars, sendVars, onCloseVars
<1>6. CASE WriteStalls
  BY <1>6, <1>c DEF WriteStalls
<1>7. QED
  BY <1>1, <1>2, <1>3, <1>4, <1>5, <1>6 DEF Next, EnvStep

\* The budget of a delayed-ack stream is checked before a whole chunk is taken
\* from it, and goes below zero only so far: less than one chunk of the greatest
\* size for each write() call of the stream, however their checks and their
\* sends interleave with the acknowledgements of adbd.
THEOREM DebtStaysBounded == Spec => []OvershootBounded
<1>1. Init => TInv /\ DebtCovered
  <2>1. ASSUME Init, NEW s \in Streams, WritersOf(s) # {}
        PROVE  availableSendBytes[s] > -(MaxPayload * Cardinality(Unpermitted(s)))
    <3>1. Unpermitted(s) = WritersOf(s) /\ availableSendBytes[s] = 0
      BY <2>1 DEF Init, Unpermitted, WritersOf
    <3>2. PICK k, m : k = Cardinality(Unpermitted(s)) /\ m = MaxPayload
      OBVIOUS
    <3>3. k \in Nat /\ k # 0
      BY <2>1, <3>1, <3>2, UnpermittedFinite, FS_CardinalityType, FS_EmptySet
    <3>4. m \in Nat /\ m # 0
      BY <3>2, ConstantsOK DEF Constants
    <3>5. 0 > -(m * k)
      BY <3>3, <3>4
    <3>6. availableSendBytes[s] > -(m * k)
      BY <3>1, <3>5
    <3>7. QED
      BY <3>2, <3>6, Zenon
  <2>2. QED
    BY <2>1, InitTInv DEF DebtCovered
<1>2. TInv /\ DebtCovered /\ [Next]_vars => (TInv /\ DebtCovered)'
  BY NextTInv, NextDebtCovered
<1>3. TInv /\ DebtCovered => OvershootBounded
  <2>1. ASSUME TInv, DebtCovered, DelayedAck, NEW s \in Streams, WritersOf(s) # {}
        PROVE  availableSendBytes[s] > -(MaxPayload * Cardinality(WritersOf(s)))
    <3>1. /\ Cardinality(Unpermitted(s)) \in Nat /\ Cardinality(WritersOf(s)) \in Nat
          /\ Cardinality(Unpermitted(s)) <= Cardinality(WritersOf(s))
      BY UnpermittedFinite, FS_CardinalityType, FS_Subset
    <3>2. PICK a, m, u, v : /\ a = availableSendBytes[s] /\ m = MaxPayload
                            /\ u = Cardinality(Unpermitted(s)) /\ v = Cardinality(WritersOf(s))
      OBVIOUS
    <3>3. a \in Int /\ m \in Nat /\ a > -(m * u)
      BY <2>1, <3>2, ConstantsOK DEF DebtCovered, TInv, TypeOK, Constants
    <3>4. m * u \in Nat /\ m * v \in Nat /\ m * u <= m * v
      BY <3>1, <3>2, <3>3, Chunks
    <3>5. a > -(m * v)
      BY <3>3, <3>4
    <3>6. QED
      BY <3>2, <3>5
  <2>2. QED
    BY <2>1 DEF OvershootBounded
<1>4. QED
  BY <1>1, <1>2, <1>3, PTL DEF Spec

-----------------------------------------------------------------------------
(* Counting the packets of a queue                                         *)

Places(q, X) == {i \in 1..Len(q) : q[i] \in X}
Count(q, X) == Cardinality(Places(q, X))

\* The places of a queue can be counted.
LEMMA PlacesFinite ==
    ASSUME NEW T, NEW q \in Seq(T), NEW X
    PROVE  IsFiniteSet(Places(q, X)) /\ Count(q, X) \in Nat
<1>1. IsFiniteSet(1..Len(q))
  BY FS_Interval
<1>2. Places(q, X) \subseteq 1..Len(q)
  BY DEF Places
<1>3. QED
  BY <1>1, <1>2, FS_Subset, FS_CardinalityType DEF Count

\* A packet that is put into a queue counts.
LEMMA CountAppend ==
    ASSUME NEW T, NEW q \in Seq(T), NEW x \in T, NEW X
    PROVE  Count(Append(q, x), X) = Count(q, X) + (IF x \in X THEN 1 ELSE 0)
<1>1. /\ Len(q) \in Nat /\ Len(Append(q, x)) = Len(q) + 1
      /\ \A i \in 1..Len(q) : Append(q, x)[i] = q[i]
      /\ Append(q, x)[Len(q) + 1] = x
  OBVIOUS
<1> DEFINE n == Len(q)
<1>2. \A i : i \in 1..(n + 1) <=> i \in 1..n \/ i = n + 1
  BY <1>1
<1>3. Places(Append(q, x), X) = Places(q, X) \cup (IF x \in X THEN {n + 1} ELSE {})
  BY <1>1, <1>2, Zenon DEF Places
<1>4. n + 1 \notin Places(q, X)
  BY <1>1 DEF Places
<1>5. IsFiniteSet(Places(q, X)) /\ Cardinality(Places(q, X)) \in Nat
  BY PlacesFinite DEF Count
<1>6. CASE x \in X
  <2>1. Cardinality(Places(q, X) \cup {n + 1}) = Cardinality(Places(q, X)) + 1
    <3> HIDE DEF n
    <3>1. QED
      BY <1>4, <1>5, FS_AddElement
  <2>2. QED
    BY <1>3, <1>6, <2>1 DEF Count
<1>7. CASE x \notin X
  BY <1>3, <1>5, <1>7 DEF Count
<1>8. QED
  BY <1>6, <1>7

\* So does one that is taken from it.
LEMMA CountTail ==
    ASSUME NEW T, NEW q \in Seq(T), q # <<>>, NEW X
    PROVE  Count(q, X) = Count(Tail(q), X) + (IF Head(q) \in X THEN 1 ELSE 0)
<1>1. /\ Len(q) \in Nat /\ Len(q) >= 1 /\ Len(Tail(q)) = Len(q) - 1 /\ Head(q) = q[1]
      /\ \A i \in 1..(Len(q) - 1) : Tail(q)[i] = q[i + 1]
      /\ Tail(q) \in Seq(T)
  OBVIOUS
<1> DEFINE S == Places(Tail(q), X)
           R == Places(q, X) \ {1}
           f == [i \in S |-> i + 1]
<1>2. \A i \in S : i \in Nat /\ i + 1 \in R
  BY <1>1 DEF Places
<1>3. \A j \in R : j \in Nat /\ j - 1 \in S /\ (j - 1) + 1 = j
  BY <1>1 DEF Places
<1>4. f \in Bijection(S, R)
  <2>1. f \in [S -> R]
    BY <1>2
  <2>2. \A a, b \in S : f[a] = f[b] => a = b
    BY <1>2
  <2>3. \A j \in R : \E i \in S : f[i] = j
    BY <1>3
  <2>4. QED
    BY <2>1, <2>2, <2>3 DEF Bijection, Injection, Surjection, IsInjective
<1>5. /\ Cardinality(R) = Cardinality(S) /\ IsFiniteSet(R)
      /\ Cardinality(S) \in Nat
  <2>1. IsFiniteSet(S) /\ Cardinality(S) \in Nat
    BY <1>1, PlacesFinite DEF Count
  <2>2. ExistsBijection(S, R)
    BY <1>4 DEF ExistsBijection
  <2> HIDE DEF S, R
  <2>3. QED
    BY <2>1, <2>2, FS_Bijection
<1>6. 1 \in Places(q, X) <=> Head(q) \in X
  BY <1>1 DEF Places
<1>7. CASE Head(q) \in X
  <2>1. Places(q, X) = R \cup {1} /\ 1 \notin R
    BY <1>6, <1>7
  <2>2. Cardinality(R \cup {1}) = Cardinality(R) + 1
    <3> HIDE DEF R
    <3>1. QED
      BY <1>5, <2>1, FS_AddElement
  <2>3. QED
    BY <1>5, <1>7, <2>1, <2>2 DEF Count
<1>8. CASE Head(q) \notin X
  <2>1. Places(q, X) = R
    BY <1>6, <1>8
  <2>2. Count(q, X) = Cardinality(R) /\ Count(Tail(q), X) = Cardinality(S)
    BY <2>1 DEF Count
  <2>3. QED
    BY <1>5, <1>8, <2>2
<1>9. QED
  BY <1>7, <1>8

\* A packet adbd puts on the wire counts.
LEMMA CountEmit ==
    ASSUME TInv, NEW x, Emit(x), NEW X
    PROVE  Count(inq', X) = Count(inq, X) + (IF x \in X THEN 1 ELSE 0)
<1> DEFINE T == DevicePackets \cup {x}
<1>1. inq \in Seq(DevicePackets) /\ inq' = Append(inq, x)
  BY DEF TInv, TypeOK, Emit
<1>2. inq \in Seq(T) /\ x \in T
  <2> HIDE DEF T
  <2>1. DevicePackets \subseteq T /\ x \in T
    BY DEF T
  <2>2. QED
    BY <1>1, <2>1
<1> HIDE DEF T
<1>3. QED
  BY <1>1, <1>2, CountAppend

\* A queue without packets of X has no places for them.
LEMMA CountNone ==
    ASSUME NEW T, NEW q \in Seq(T), NEW X, \A i \in 1..Len(q) : q[i] \notin X
    PROVE  Count(q, X) = 0
<1>1. Places(q, X) = {}
  BY DEF Places
<1>2. QED
  BY <1>1, FS_EmptySet DEF Count

-----------------------------------------------------------------------------
(* What becomes of the chunks of adbd                                      *)

Written(s) == {p \in DevicePackets : p.cmd = "WRTE" /\ p.s = s}

NoOpen(s) == \A p \in On(outq) : p.cmd = "OPEN" => p.s # s

\* The stream ended because adbd closed it.
Ended(s) == closed[s] /\ ~error[s] /\ closing[s] = "no"

\* Nothing has happened to a stream no open() call made.
Fresh(s) == opened[s] = "no" => ~closed[s] /\ s \notin streams

\* adbd never hears of a stream whose A_OPEN was not sent.
Refused(s) == opened[s] = "rejected" /\ ~closed[s] => Unheard(s) /\ NoOpen(s)

\* The A_CLSE of adbd is the last it says of a stream it has closed.
CloseLast(s) == \A i \in 1..Len(inq) : inq[i].cmd = "CLSE" /\ inq[i].s = s =>
    /\ sock[s] # "open"
    /\ \A j \in 1..Len(inq) : inq[j] \in Written(s) => j < i

\* While the stream is open, a chunk of adbd is on its way, buffered or read;
\* when adbd has ended it, none is on its way.
NoneLost(s) == linkUp /\ ~closed[s] =>
    readCount[s] + Len(incoming[s]) + Count(inq, Written(s)) = devSent[s]
Drained(s) == Ended(s) =>
    /\ s \notin streams /\ sock[s] # "open" /\ NoOpen(s)
    /\ readCount[s] + Len(incoming[s]) = devSent[s]

\* read() has returned null.
EofSeen(s) == eof[s] /\ closing[s] = "no" => Ended(s) /\ incoming[s] = <<>>

DrainOf(s) == Fresh(s) /\ Refused(s) /\ CloseLast(s) /\ NoneLost(s) /\ Drained(s) /\ EofSeen(s)

DrainInv == /\ linkUp \/ inq = <<>>
            /\ \A s \in Streams : DrainOf(s)

\* The state of a stream, apart from the packets on their way.
OwnState(s) == <<closed[s], error[s], opened[s], closing[s], eof[s], incoming[s], readCount[s],
                 devSent[s], sock[s]>>

\* The packets a step leaves of a stream on the way to the host.
InqKept(s) == /\ Unheard(s) => Unheard(s)'
              /\ CloseLast(s) => CloseLast(s)'
              /\ linkUp' => linkUp /\ Count(inq, Written(s))' = Count(inq, Written(s))

\* A stream a step does not touch.
LEMMA DrainKept ==
    ASSUME NEW s \in Streams, DrainOf(s), OwnState(s)' = OwnState(s), InqKept(s),
           s \in streams' => s \in streams, NoOpen(s) => NoOpen(s)'
    PROVE  DrainOf(s)'
<1>1. Fresh(s)' /\ Refused(s)' /\ CloseLast(s)'
  BY DEF DrainOf, OwnState, InqKept, Fresh, Refused
<1>2. NoneLost(s)'
  BY DEF DrainOf, OwnState, InqKept, NoneLost
<1>3. Drained(s)' /\ EofSeen(s)'
  BY DEF DrainOf, OwnState, Drained, EofSeen, Ended
<1>4. QED
  BY <1>1, <1>2, <1>3 DEF DrainOf

\* A step that leaves the packets of adbd alone, or loses them all.
LEMMA InqSame ==
    ASSUME TInv, UNCHANGED <<inq, sock, linkUp>> PROVE \A s \in Streams : InqKept(s)
  BY DEF InqKept, Unheard, On, CloseLast, Count, Places, Written

\* The cable is gone, and with it what was on its way.
LEMMA InqLost ==
    ASSUME TInv, inq' = <<>>, ~linkUp', UNCHANGED sock PROVE \A s \in Streams : InqKept(s)
<1>1. Len(inq') = 0
  OBVIOUS
<1>2. 1..Len(inq') = {}
  BY <1>1
<1>3. On(inq)' = {}
  BY <1>2 DEF On
<1>4. QED
  BY <1>2, <1>3 DEF InqKept, Unheard, CloseLast

\* The read loop takes a packet; only a chunk counts.
LEMMA InqTaken ==
    ASSUME TInv, NEW cmd, Receive(cmd), UNCHANGED <<sock, linkUp>>
    PROVE  \A s \in Streams :
              /\ Unheard(s) => Unheard(s)'
              /\ CloseLast(s) => CloseLast(s)'
              /\ Count(inq, Written(s)) =
                   Count(inq, Written(s))' + (IF Head(inq) \in Written(s) THEN 1 ELSE 0)
              /\ Count(inq, Written(s)) \in Nat /\ Count(inq, Written(s))' \in Nat
<1> TAKE s \in Streams
<1>1. inq \in Seq(DevicePackets) /\ inq # <<>> /\ inq' = Tail(inq) /\ Tail(inq) \in Seq(DevicePackets)
  BY HeadTailType DEF TInv, TypeOK, Receive
<1>2. /\ On(inq') \subseteq On(inq)
      /\ Len(inq) \in Nat /\ Len(inq') = Len(inq) - 1
      /\ \A i \in 1..(Len(inq) - 1) : inq'[i] = inq[i + 1]
  BY <1>1, OnTail
<1>3. Unheard(s) => Unheard(s)'
  BY <1>2 DEF Unheard, On
<1>4. CloseLast(s) => CloseLast(s)'
  <2>1. \A i \in 1..Len(inq') : i + 1 \in 1..Len(inq) /\ inq'[i] = inq[i + 1] /\ i \in Int
    BY <1>2
  <2>2. SUFFICES ASSUME CloseLast(s), NEW i \in 1..Len(inq'), inq'[i].cmd = "CLSE", inq'[i].s = s
                 PROVE  /\ sock[s] # "open"
                        /\ \A j \in 1..Len(inq') : inq'[j] \in Written(s) => j < i
    BY DEF CloseLast, Written
  <2>3. /\ sock[s] # "open"
        /\ \A j \in 1..Len(inq) : inq[j] \in Written(s) => j < i + 1
    BY <2>1, <2>2 DEF CloseLast
  <2>4. ASSUME NEW j \in 1..Len(inq'), inq'[j] \in Written(s) PROVE j < i
    <3>1. j + 1 < i + 1 /\ i \in Int /\ j \in Int
      BY <2>1, <2>3, <2>4
    <3>2. QED
      BY <3>1
  <2>5. QED
    BY <2>3, <2>4
<1>5. Count(inq, Written(s))' = Count(inq', Written(s))
  BY DEF Count, Places, Written
<1>6. QED
  BY <1>1, <1>3, <1>4, <1>5, CountTail, PlacesFinite

\* adbd sends a packet: of another stream, a chunk or an answer on a stream
\* it has open, or its last one.
LEMMA InqEmitted ==
    ASSUME TInv, NEW x, Emit(x), NEW s \in Streams,
           Unheard(s) => x.cmd = "BAD" \/ x.s # s,
           sock'[s] = sock[s] \/ (sock[s] = "open" /\ sock'[s] = "closed"),
           x.cmd = "CLSE" /\ x.s = s => sock'[s] # "open",
           x \in Written(s) => sock[s] = "open"
    PROVE  /\ Unheard(s) => Unheard(s)'
           /\ CloseLast(s) => CloseLast(s)'
           /\ Count(inq, Written(s))' =
                Count(inq, Written(s)) + (IF x \in Written(s) THEN 1 ELSE 0)
           /\ Count(inq, Written(s)) \in Nat
<1>1. inq \in Seq(DevicePackets) /\ inq' = Append(inq, x)
  BY DEF TInv, TypeOK, Emit
<1> DEFINE n == Len(inq)
<1>2. /\ n \in Nat /\ Len(inq') = n + 1 /\ \A i \in 1..n : inq'[i] = inq[i]
      /\ inq'[n + 1] = x
  BY <1>1
<1>3. Unheard(s) => Unheard(s)'
  <2>1. On(inq)' = On(inq) \cup {x}
    BY EmitOn DEF On
  <2>2. QED
    BY <2>1 DEF Unheard
<1>4. CloseLast(s) => CloseLast(s)'
  <2> HIDE DEF n
  <2>1. \A i \in 1..Len(inq') : (i \in 1..n \/ i = n + 1) /\ i \in Int
    BY <1>2
  <2>2. SUFFICES ASSUME CloseLast(s), NEW i \in 1..Len(inq'), inq'[i].cmd = "CLSE", inq'[i].s = s
                 PROVE  /\ sock'[s] # "open"
                        /\ \A j \in 1..Len(inq') : inq'[j] \in Written(s) => j < i
    BY DEF CloseLast, Written
  <2>3. CASE i \in 1..n
    <3>1. sock[s] # "open" /\ \A j \in 1..n : inq[j] \in Written(s) => j < i
      BY <1>2, <2>2, <2>3 DEF CloseLast, n
    <3>2. x \notin Written(s)
      BY <3>1
    <3>3. QED
      BY <1>2, <2>1, <3>1, <3>2
  <2>4. CASE i = n + 1
    <3>1. sock'[s] # "open" /\ x \notin Written(s)
      BY <1>2, <2>2, <2>4 DEF Written
    <3>2. \A j \in 1..n : j < i
      BY <1>2, <2>4
    <3>3. QED
      BY <1>2, <2>1, <3>1, <3>2
  <2>5. QED
    BY <2>1, <2>3, <2>4
<1>5. Count(inq, Written(s))' = Count(inq', Written(s))
  BY DEF Count, Places, Written
<1>6. QED
  BY <1>1, <1>3, <1>4, <1>5, CountEmit, PlacesFinite

-----------------------------------------------------------------------------
(* Action by action                                                        *)

\* Nothing is counted when the handshake is over.
LEMMA InitDrainInv == Init => DrainInv
<1> SUFFICES ASSUME Init, NEW s \in Streams PROVE DrainOf(s)
  BY DEF DrainInv, Init
<1>1. Len(inq) = 0 /\ inq \in Seq(DevicePackets) /\ On(inq) = {} /\ Len(incoming[s]) = 0
  BY EmptySeq DEF Init, On
<1>2. Count(inq, Written(s)) = 0
  <2>1. \A i \in 1..Len(inq) : inq[i] \notin Written(s)
    BY <1>1
  <2> QED
    BY <1>1, <2>1, CountNone
<1>3. CloseLast(s)
  BY <1>1 DEF CloseLast
<1>4. NoneLost(s)
  BY <1>1, <1>2 DEF Init, NoneLost
<1>5. Fresh(s) /\ Refused(s) /\ Drained(s) /\ EofSeen(s)
  BY DEF Init, Fresh, Refused, Drained, EofSeen, Ended
<1>6. QED
  BY <1>3, <1>4, <1>5 DEF DrainOf

\* What the transport takes or is given, an A_OPEN aside, opens no stream.
LEMMA NoOpenKept ==
    ASSUME TInv,
           \/ UNCHANGED outq
           \/ outq # <<>> /\ outq' = Tail(outq)
           \/ \E p \in HostPackets : p.cmd # "OPEN" /\ Send(p)
    PROVE  \A s \in Streams : NoOpen(s) => NoOpen(s)'
<1>1. outq \in Seq(HostPackets)
  BY DEF TInv, TypeOK
<1>2. \A p \in On(outq') : p \in On(outq) \/ p.cmd # "OPEN"
  <2>1. CASE UNCHANGED outq
    BY <2>1
  <2>2. CASE outq # <<>> /\ outq' = Tail(outq)
    BY <1>1, <2>2, OnTail
  <2>3. CASE \E p \in HostPackets : p.cmd # "OPEN" /\ Send(p)
    BY <1>1, <2>3, OnAppend DEF Send
  <2>4. QED
    BY <2>1, <2>2, <2>3
<1>3. On(outq)' = On(outq')
  BY DEF On
<1>4. QED
  BY <1>2, <1>3 DEF NoOpen

\* Steps between two packets of adbd that touch none of the counted state.
DrainVars == <<streams, closed, error, opened, closing, eof, incoming, readCount, devSent,
               sock, linkUp, inq>>

LEMMA DrainUntouched ==
    ASSUME TInv, DrainInv, UNCHANGED DrainVars,
           \A s \in Streams : NoOpen(s) => NoOpen(s)'
    PROVE  DrainInv'
<1>1. \A s \in Streams : InqKept(s)
  BY InqSame DEF DrainVars
<1>2. \A s \in Streams : OwnState(s)' = OwnState(s)
  BY DEF OwnState, DrainVars
<1>3. \A s \in Streams : DrainOf(s)'
  BY <1>1, <1>2, DrainKept DEF DrainInv, DrainVars
<1>4. QED
  BY <1>3 DEF DrainInv, DrainVars

\* _onClose with an error: the streams it closes report no end.
LEMMA CloseErrorDrain ==
    ASSUME TInv, DrainInv, NEW S \in SUBSET Streams, OnClose(S, TRUE),
           \A s \in S : opened[s] # "no",
           UNCHANGED <<closing, incoming, readCount, devSent, sock>>,
           \A s \in Streams : InqKept(s) /\ (NoOpen(s) => NoOpen(s)'),
           streams' \subseteq streams
    PROVE  \A s \in Streams : DrainOf(s)'
<1> TAKE s \in Streams
<1>1. /\ opened \in [Streams -> {"no", "pending", "resolved", "rejected"}]
      /\ closed \in [Streams -> BOOLEAN] /\ error \in [Streams -> BOOLEAN]
      /\ eof \in [Streams -> BOOLEAN]
  BY DEF TInv, TypeOK
<1>2. CASE s \notin S \/ closed[s]
  <2>1. closed'[s] = closed[s] /\ error'[s] = error[s] /\ eof'[s] = eof[s] /\ opened'[s] = opened[s]
    BY <1>1, <1>2, Zenon DEF OnClose, CloseStreams
  <2>2. OwnState(s)' = OwnState(s)
    BY <2>1 DEF OwnState
  <2>3. QED
    BY <2>2, DrainKept DEF DrainInv
<1>3. CASE s \in S /\ ~closed[s]
  <2>1. closed'[s] /\ error'[s] /\ eof'[s] = eof[s] /\ opened'[s] # "no"
    BY <1>1, <1>3 DEF OnClose, CloseStreams
  <2>2. DrainOf(s)
    BY DEF DrainInv
  <2>3. CloseLast(s)'
    BY <2>2 DEF DrainOf, InqKept
  <2>4. Fresh(s)' /\ Refused(s)' /\ NoneLost(s)' /\ Drained(s)'
    BY <2>1 DEF Fresh, Refused, NoneLost, Drained, Ended
  <2>5. EofSeen(s)'
    BY <1>3, <2>1, <2>2 DEF DrainOf, EofSeen, Ended
  <2>6. QED
    BY <2>3, <2>4, <2>5 DEF DrainOf
<1>4. QED
  BY <1>2, <1>3

\* The connection closes or fails.
LEMMA ForgetAllDrain ==
    ASSUME TInv, DrainInv, CloseConnection \/ FailConnection PROVE DrainInv'
<1>1. /\ OnClose(streams, TRUE) /\ streams' = {} /\ streams \in SUBSET Streams
      /\ UNCHANGED <<closing, incoming, readCount, devSent, sock, outq>>
      /\ UNCHANGED <<inq, linkUp>> \/ (inq' = <<>> /\ ~linkUp')
  BY DEF CloseConnection, FailConnection, recvVars, callVars, wireVars, devVars, TInv, TypeOK
<1>2. \A s \in Streams : InqKept(s) /\ (NoOpen(s) => NoOpen(s)')
  BY <1>1, InqSame, InqLost, NoOpenKept
<1>3. \A s \in streams : opened[s] # "no"
  BY <1>1 DEF DrainInv, DrainOf, Fresh
<1>4. \A s \in Streams : DrainOf(s)'
  BY <1>1, <1>2, <1>3, CloseErrorDrain
<1>5. QED
  BY <1>1, <1>4 DEF DrainInv

\* open(): the stream is new to both ends.
LEMMA OpenDrain == ASSUME TInv, DrainInv, NEW s \in Streams, Open(s) PROVE DrainInv'
<1>1. /\ opened[s] = "no" /\ opened' = [opened EXCEPT ![s] = "pending"]
      /\ streams' = streams \cup {s} /\ Send(OpenPacket(s))
      /\ UNCHANGED <<closed, error, closing, eof, incoming, readCount, devSent, sock, linkUp, inq>>
  BY DEF Open, recvVars, callVars, devVars
<1>2. OpenPacket(s).s = s /\ OpenPacket(s) \in HostPackets
  BY OpenPacketType DEF OpenPacket
<1>3. \A x \in Streams : InqKept(x)
  BY <1>1, InqSame
<1>4. \A x \in Streams : x # s => (NoOpen(x) => NoOpen(x)')
  <2>1. outq \in Seq(HostPackets)
    BY DEF TInv, TypeOK
  <2>2. On(outq)' = On(outq) \cup {OpenPacket(s)}
    BY <1>1, <1>2, <2>1, OnAppend DEF Send, On
  <2>3. QED
    BY <1>2, <2>2 DEF NoOpen
<1>5. ASSUME NEW x \in Streams, x # s PROVE DrainOf(x)'
  <2>1. OwnState(x)' = OwnState(x)
    BY <1>1, <1>5 DEF OwnState, TInv, TypeOK
  <2>2. QED
    BY <1>1, <1>3, <1>4, <1>5, <2>1, DrainKept DEF DrainInv
<1>6. DrainOf(s)'
  <2>1. DrainOf(s) /\ ~closed[s] /\ opened'[s] = "pending"
    BY <1>1 DEF DrainInv, DrainOf, Fresh, TInv, TypeOK
  <2>2. CloseLast(s)' /\ NoneLost(s)'
    BY <1>1, <1>3, <2>1 DEF DrainOf, InqKept, NoneLost
  <2>3. Fresh(s)' /\ Refused(s)' /\ Drained(s)' /\ EofSeen(s)'
    BY <1>1, <2>1 DEF DrainOf, Fresh, Refused, Drained, EofSeen, Ended
  <2>4. QED
    BY <2>2, <2>3 DEF DrainOf
<1>7. QED
  BY <1>1, <1>5, <1>6 DEF DrainInv

\* read(): a chunk moves from the buffer to the caller.
LEMMA ReadDrain == ASSUME TInv, DrainInv, NEW s \in Streams, Read(s) PROVE DrainInv'
<1>1. /\ UNCHANGED <<streams, closed, error, opened, closing, devSent, sock, linkUp, inq, outq>>
      /\ \/ /\ HasChunk(s) /\ Take(s, incoming[s]) /\ UNCHANGED eof
         \/ UNCHANGED <<incoming, readCount, eof>>
         \/ /\ ~HasChunk(s) /\ ~error[s] /\ closed[s] /\ eof' = [eof EXCEPT ![s] = TRUE]
            /\ UNCHANGED <<incoming, readCount>>
  BY DEF Read, connVars, callVars, wireVars, devVars, recvVars
<1>2. /\ incoming \in [Streams -> Seq(Nat)] /\ readCount \in [Streams -> Nat]
      /\ eof \in [Streams -> BOOLEAN] /\ devSent \in [Streams -> Nat]
  BY DEF TInv, TypeOK
<1>3. \A x \in Streams : InqKept(x) /\ (NoOpen(x) => NoOpen(x)')
  BY <1>1, InqSame, NoOpenKept
<1>4. ASSUME NEW x \in Streams, x # s PROVE DrainOf(x)'
  <2>1. eof'[x] = eof[x] /\ incoming'[x] = incoming[x] /\ readCount'[x] = readCount[x]
    <3>1. CASE HasChunk(s) /\ Take(s, incoming[s]) /\ UNCHANGED eof
      BY <1>2, <1>4, <3>1 DEF Take
    <3>2. CASE UNCHANGED <<incoming, readCount>>
      BY <1>1, <1>2, <1>4, <3>2
    <3>3. QED
      BY <1>1, <3>1, <3>2
  <2>2. OwnState(x)' = OwnState(x)
    BY <1>1, <2>1 DEF OwnState
  <2>3. QED
    BY <1>1, <1>3, <2>2, DrainKept DEF DrainInv
<1>5. DrainOf(s)'
  <2>1. DrainOf(s)
    BY DEF DrainInv
  <2>2. CASE UNCHANGED <<incoming, readCount, eof>>
    <3>1. OwnState(s)' = OwnState(s)
      BY <1>1, <2>2 DEF OwnState
    <3>2. QED
      BY <1>1, <1>3, <2>1, <3>1, DrainKept
  <2>3. CloseLast(s)' /\ Fresh(s)' /\ Refused(s)'
    BY <1>1, <1>3, <2>1 DEF DrainOf, InqKept, Fresh, Refused
  <2>4. CASE HasChunk(s) /\ Take(s, incoming[s]) /\ UNCHANGED eof
    <3>1. incoming[s] \in Seq(Nat) /\ incoming[s] # <<>>
      BY <1>2, <2>4 DEF HasChunk
    <3>2. Len(Tail(incoming[s])) = Len(incoming[s]) - 1 /\ Len(incoming[s]) \in Nat
      BY <3>1
    <3>3. incoming'[s] = Tail(incoming[s]) /\ readCount'[s] = readCount[s] + 1
      BY <1>2, <2>4 DEF Take
    <3>4. readCount'[s] + Len(incoming'[s]) = readCount[s] + Len(incoming[s])
      <4>1. Len(incoming'[s]) = Len(incoming[s]) - 1 /\ readCount[s] \in Nat
        BY <1>2, <3>2, <3>3, Zenon
      <4>2. QED
        BY <3>2, <3>3, <4>1
    <3>5. NoneLost(s)'
      <4>1. Count(inq, Written(s))' = Count(inq, Written(s)) /\ linkUp' = linkUp
        BY <1>1, <1>3 DEF InqKept, Count, Places, Written
      <4>2. QED
        BY <1>1, <2>1, <3>4, <4>1 DEF DrainOf, NoneLost
    <3>6. Drained(s)'
      BY <1>1, <1>3, <2>1, <3>4 DEF DrainOf, Drained, Ended
    <3>7. EofSeen(s)'
      BY <1>1, <2>1, <2>4, <3>1 DEF DrainOf, EofSeen, Ended
    <3>8. QED
      BY <2>3, <3>5, <3>6, <3>7 DEF DrainOf
  <2>5. CASE /\ ~HasChunk(s) /\ ~error[s] /\ closed[s] /\ eof' = [eof EXCEPT ![s] = TRUE]
             /\ UNCHANGED <<incoming, readCount>>
    <3>1. NoneLost(s)' /\ Drained(s)'
      BY <1>1, <1>3, <2>1, <2>5 DEF DrainOf, NoneLost, Drained, Ended
    <3>2. EofSeen(s)'
      BY <1>1, <2>5 DEF EofSeen, Ended, HasChunk
    <3>3. QED
      BY <2>3, <3>1, <3>2 DEF DrainOf
  <2>6. QED
    BY <1>1, <2>2, <2>4, <2>5
<1>6. QED
  BY <1>1, <1>4, <1>5 DEF DrainInv

\* close(): what comes after it is of no concern to anybody.
LEMMA CloseDrain == ASSUME TInv, DrainInv, NEW s \in Streams, Close(s) PROVE DrainInv'
<1>1. /\ opened[s] = "resolved" /\ OnClose({s}, FALSE) /\ Send(ClosePacket(s, "close"))
      /\ closing' = [closing EXCEPT ![s] = "sending"]
      /\ UNCHANGED <<streams, incoming, readCount, devSent, sock, linkUp, inq>>
  BY DEF Close, connVars, recvVars, devVars
<1>2. /\ opened \in [Streams -> {"no", "pending", "resolved", "rejected"}]
      /\ closed \in [Streams -> BOOLEAN] /\ error \in [Streams -> BOOLEAN]
      /\ eof \in [Streams -> BOOLEAN] /\ closing \in [Streams -> {"no", "sending", "done", "failed"}]
  BY DEF TInv, TypeOK
<1>3. \A x \in Streams : InqKept(x) /\ (NoOpen(x) => NoOpen(x)')
  <2>1. ClosePacket(s, "close") \in HostPackets /\ ClosePacket(s, "close").cmd # "OPEN"
    BY ClosePacketType DEF ClosePacket
  <2>2. QED
    BY <1>1, <2>1, InqSame, NoOpenKept
<1>4. ASSUME NEW x \in Streams, x # s PROVE DrainOf(x)'
  <2>1. /\ closed'[x] = closed[x] /\ error'[x] = error[x] /\ eof'[x] = eof[x]
        /\ opened'[x] = opened[x] /\ closing'[x] = closing[x]
    BY <1>1, <1>2, <1>4 DEF OnClose, CloseStreams
  <2>2. OwnState(x)' = OwnState(x)
    BY <1>1, <2>1 DEF OwnState
  <2>3. QED
    BY <1>1, <1>3, <2>2, DrainKept DEF DrainInv
<1>5. DrainOf(s)'
  <2>1. closed'[s] /\ closing'[s] # "no" /\ opened'[s] # "no"
    BY <1>1, <1>2 DEF OnClose, CloseStreams
  <2>2. CloseLast(s)'
    BY <1>3 DEF DrainInv, DrainOf, InqKept
  <2>3. QED
    BY <2>1, <2>2 DEF DrainOf, Fresh, Refused, NoneLost, Drained, EofSeen, Ended
<1>6. QED
  BY <1>1, <1>4, <1>5 DEF DrainInv

\* An answer of adbd is no chunk.
LEMMA OtherTaken ==
    ASSUME TInv, Receive("OKAY") \/ Receive("CLSE"), UNCHANGED <<sock, linkUp>>
    PROVE  \A s \in Streams : InqKept(s)
<1>1. PICK cmd \in {"OKAY", "CLSE"} : Receive(cmd)
  OBVIOUS
<1>2. \A s \in Streams : Head(inq) \notin Written(s)
  BY <1>1 DEF Receive, Written
<1>3. QED
  BY <1>1, <1>2, InqTaken DEF InqKept

\* A_OKAY: adbd has not refused the stream, and did not end it either.
LEMMA HandleOkayDrain == ASSUME TInv, CloseInv, DrainInv, HandleOkay PROVE DrainInv'
<1>0. PICK t, n : t = Head(inq).s /\ n = Head(inq).len
  OBVIOUS
<1>1. /\ t \in Streams /\ opened[t] # "no" /\ ~Unheard(t)
      /\ UNCHANGED <<streams, closing, incoming, readCount, devSent, sock, linkUp>>
      /\ \/ t \in streams /\ OnOkay(t, n) /\ UNCHANGED outq
         \/ Send(ClosePacket(t, "loop")) /\ UNCHANGED onCloseVars
  BY <1>0, Received DEF HandleOkay, recvVars, callVars, devVars
<1>2. linkUp' \/ inq' = <<>>
  BY DEF HandleOkay, Receive, DrainInv
<1>3. \A x \in Streams : InqKept(x) /\ (NoOpen(x) => NoOpen(x)')
  <2>1. ClosePacket(t, "loop") \in HostPackets /\ ClosePacket(t, "loop").cmd # "OPEN"
    BY <1>1, ClosePacketType DEF ClosePacket
  <2>2. QED
    BY <1>1, <2>1, OtherTaken, NoOpenKept DEF HandleOkay
<1>4. CASE UNCHANGED onCloseVars
  <2>1. \A x \in Streams : OwnState(x)' = OwnState(x)
    BY <1>1, <1>4 DEF OwnState, onCloseVars
  <2>2. QED
    BY <1>1, <1>2, <1>3, <2>1, DrainKept DEF DrainInv
<1>5. CASE t \in streams /\ OnOkay(t, n)
  <2>1. /\ opened \in [Streams -> {"no", "pending", "resolved", "rejected"}]
        /\ closed \in [Streams -> BOOLEAN] /\ error \in [Streams -> BOOLEAN]
        /\ eof \in [Streams -> BOOLEAN]
    BY DEF TInv, TypeOK
  <2>2. /\ opened' = [opened EXCEPT ![t] = IF @ = "pending" THEN "resolved" ELSE @]
        /\ \/ CloseStreams({t}, TRUE)
           \/ UNCHANGED <<closed, error, eof>>
    BY <1>5 DEF OnOkay
  <2>3. \A x \in Streams : /\ closed[x] \/ x # t =>
                                closed'[x] = closed[x] /\ error'[x] = error[x]
                           /\ eof'[x] = eof[x]
    <3>1. CASE CloseStreams({t}, TRUE)
      <4> SUFFICES ASSUME NEW x \in Streams
                   PROVE  /\ closed[x] \/ x # t => closed'[x] = closed[x] /\ error'[x] = error[x]
                          /\ eof'[x] = eof[x]
        OBVIOUS
      <4>1. eof'[x] = eof[x]
        BY <2>1, <3>1 DEF CloseStreams
      <4>2. closed[x] \/ x # t => closed'[x] = closed[x] /\ error'[x] = error[x]
        BY <2>1, <3>1, Zenon DEF CloseStreams
      <4>3. QED
        BY <4>1, <4>2
    <3>2. QED
      BY <2>2, <3>1
  <2>4. ASSUME NEW x \in Streams, x # t PROVE DrainOf(x)'
    <3>1. OwnState(x)' = OwnState(x)
      BY <1>1, <2>1, <2>2, <2>3, <2>4 DEF OwnState
    <3>2. QED
      BY <1>1, <1>3, <3>1, DrainKept DEF DrainInv
  <2>5. DrainOf(t)'
    <3>1. DrainOf(t) /\ InqKept(t) /\ opened'[t] \notin {"no", "pending"}
          /\ (opened'[t] = "rejected" => opened[t] = "rejected")
      BY <1>1, <1>3, <2>1, <2>2 DEF DrainInv
    <3>2. ~Ended(t)
      BY <1>5, <3>1 DEF DrainOf, Drained
    <3>3. closed[t] => closed'[t] /\ error'[t] = error[t]
      BY <1>1, <2>3
    <3>4. closed'[t] /\ ~closed[t] => error'[t]
      BY <1>1, <2>1, <2>2 DEF CloseStreams
    <3>5. ~Ended(t)'
      BY <1>1, <3>2, <3>3, <3>4 DEF Ended
    <3>6. opened[t] = "rejected" => closed[t]
      BY <1>1, <3>1 DEF DrainOf, Refused
    <3>7. Fresh(t)' /\ Refused(t)' /\ CloseLast(t)'
      BY <3>1, <3>3, <3>6 DEF DrainOf, Fresh, Refused, InqKept
    <3>8. NoneLost(t)'
      BY <1>1, <3>1, <3>3 DEF DrainOf, NoneLost, InqKept
    <3>9. Drained(t)' /\ EofSeen(t)'
      BY <1>1, <2>3, <3>1, <3>2, <3>5 DEF DrainOf, Drained, EofSeen
    <3>10. QED
      BY <3>7, <3>8, <3>9 DEF DrainOf
  <2>6. QED
    BY <1>2, <2>4, <2>5 DEF DrainInv
<1>6. QED
  BY <1>1, <1>4, <1>5

\* A_WRTE: the chunk is buffered or handed to a reader; a stream that is
\* neither closed nor known gets none.
LEMMA HandleWriteDrain == ASSUME TInv, CloseInv, DrainInv, HandleWrite PROVE DrainInv'
<1>0. PICK t, buf : t = Head(inq).s /\ buf = Append(incoming[t], Head(inq).len)
  OBVIOUS
<1>1. /\ t \in Streams /\ ~Unheard(t) /\ opened[t] # "no" /\ Receive("WRTE")
      /\ UNCHANGED <<streams, closed, error, opened, closing, eof, devSent, sock, linkUp, outq>>
      /\ \/ t \notin streams /\ UNCHANGED <<incoming, readCount>>
         \/ t \in streams /\ incoming' = [incoming EXCEPT ![t] = buf] /\ UNCHANGED readCount
         \/ t \in streams /\ Take(t, buf)
  BY <1>0, Received DEF HandleWrite, connVars, callVars, devVars, recvVars
<1>2. linkUp' \/ inq' = <<>>
  BY <1>1 DEF Receive, DrainInv
<1>3. /\ incoming \in [Streams -> Seq(Nat)] /\ readCount \in [Streams -> Nat]
      /\ devSent \in [Streams -> Nat]
  BY DEF TInv, TypeOK
<1>4. \A x \in Streams : /\ CloseLast(x) => CloseLast(x)'
                         /\ Unheard(x) => Unheard(x)'
                         /\ Count(inq, Written(x)) = Count(inq, Written(x))' + (IF x = t THEN 1 ELSE 0)
                         /\ Count(inq, Written(x))' \in Nat
                         /\ NoOpen(x) => NoOpen(x)'
  <2>1. inq \in Seq(DevicePackets) /\ inq # <<>> /\ Head(inq).cmd = "WRTE"
    BY <1>1 DEF Receive, TInv, TypeOK
  <2>2. \A x \in Streams : Head(inq) \in Written(x) <=> x = t
    BY <1>0, <2>1, HeadTailType DEF Written
  <2>3. QED
    BY <1>1, <2>2, InqTaken, NoOpenKept
<1>5. ASSUME NEW x \in Streams, x # t PROVE DrainOf(x)'
  <2>1. incoming'[x] = incoming[x] /\ readCount'[x] = readCount[x]
    BY <1>1, <1>3, <1>5 DEF Take
  <2>2. OwnState(x)' = OwnState(x)
    BY <1>1, <2>1 DEF OwnState
  <2>3. InqKept(x)
    <3>1. Count(inq, Written(x)) = Count(inq, Written(x))'
      BY <1>4, <1>5
    <3>2. QED
      BY <1>1, <1>4, <3>1 DEF InqKept
  <2>4. QED
    BY <1>1, <1>4, <2>2, <2>3, DrainKept DEF DrainInv
<1>6. DrainOf(t)'
  <2>1. DrainOf(t)
    BY <1>1 DEF DrainInv
  <2>2. CloseLast(t)' /\ Fresh(t)' /\ Refused(t)'
    BY <1>1, <1>4, <2>1 DEF DrainOf, Fresh, Refused
  <2>3. CASE t \notin streams
    <3>1. closed[t]
      BY <1>1, <2>1, <2>3 DEF CloseInv, Known, Shut, DrainOf, Refused
    <3>2. NoneLost(t)' /\ Drained(t)' /\ EofSeen(t)'
      BY <1>1, <1>4, <2>1, <2>3, <3>1 DEF DrainOf, NoneLost, Drained, EofSeen, Ended
    <3>3. QED
      BY <2>2, <3>2 DEF DrainOf
  <2>4. CASE t \in streams
    <3>1. ~Ended(t) /\ ~Ended(t)'
      BY <1>1, <2>1, <2>4 DEF DrainOf, Drained, Ended
    <3>2. Drained(t)' /\ EofSeen(t)'
      BY <1>1, <2>1, <3>1 DEF DrainOf, Drained, EofSeen
    <3>3. readCount'[t] + Len(incoming'[t]) = readCount[t] + Len(incoming[t]) + 1
      <4>1. Len(buf) = Len(incoming[t]) + 1 /\ Len(Tail(buf)) = Len(incoming[t]) /\ Len(incoming[t]) \in Nat
        <5>1. Head(inq).len \in Nat
          <6>1. inq \in Seq(DevicePackets) /\ inq # <<>> /\ Head(inq).cmd = "WRTE"
            BY <1>1 DEF Receive, TInv, TypeOK
          <6>2. QED
            BY <6>1, HeadTailType, DevicePacketFields
        <5>2. incoming[t] \in Seq(Nat)
          BY <1>1, <1>3
        <5>3. QED
          BY <1>0, <5>1, <5>2
      <4>2. \/ incoming'[t] = buf /\ readCount'[t] = readCount[t]
            \/ incoming'[t] = Tail(buf) /\ readCount'[t] = readCount[t] + 1
        BY <1>1, <1>3, <2>4 DEF Take
      <4>3. readCount[t] \in Nat
        BY <1>1, <1>3
      <4>4. CASE incoming'[t] = buf /\ readCount'[t] = readCount[t]
        BY <4>1, <4>3, <4>4
      <4>5. CASE incoming'[t] = Tail(buf) /\ readCount'[t] = readCount[t] + 1
        <5>1. Len(incoming'[t]) = Len(incoming[t])
          BY <4>1, <4>5, Zenon
        <5>2. \A a \in Nat, b \in Nat : (a + 1) + b = a + b + 1
          OBVIOUS
        <5>3. QED
          BY <4>1, <4>3, <4>5, <5>1, <5>2, Zenon
      <4>6. QED
        BY <4>2, <4>4, <4>5
    <3>4. NoneLost(t)'
      <4>1. SUFFICES ASSUME linkUp, ~closed[t]
                     PROVE  readCount'[t] + Len(incoming'[t]) + Count(inq, Written(t))' = devSent[t]
        BY <1>1 DEF NoneLost
      <4>2. readCount[t] + Len(incoming[t]) + Count(inq, Written(t)) = devSent[t]
        BY <2>1, <4>1 DEF DrainOf, NoneLost
      <4>3. PICK k, m : k = Count(inq, Written(t))' /\ m = readCount[t] + Len(incoming[t])
        OBVIOUS
      <4>4. k \in Nat /\ m \in Nat /\ Count(inq, Written(t)) = k + 1
        BY <1>1, <1>3, <1>4, <4>3
      <4>5. m + (k + 1) = devSent[t] /\ m + 1 + k = m + (k + 1)
        BY <4>2, <4>3, <4>4
      <4>6. QED
        BY <3>3, <4>3, <4>5
    <3>5. QED
      BY <2>2, <3>2, <3>4 DEF DrainOf
  <2>5. QED
    BY <2>3, <2>4
<1>7. QED
  BY <1>2, <1>5, <1>6 DEF DrainInv

\* A_CLSE: adbd ends the stream when every chunk of it has been received.
LEMMA HandleCloseDrain ==
    ASSUME TInv, CloseInv, NoLostWakeup, DrainInv, HandleClose PROVE DrainInv'
<1>0. PICK t : t = Head(inq).s
  OBVIOUS
<1>1. /\ t \in Streams /\ ~Unheard(t) /\ opened[t] # "no" /\ Receive("CLSE")
      /\ UNCHANGED <<closing, incoming, readCount, devSent, sock, linkUp, outq>>
      /\ \/ t \in streams /\ streams' = streams \ {t} /\ OnClose({t}, FALSE)
         \/ t \notin streams /\ UNCHANGED <<streams, onCloseVars>>
  BY <1>0, Received DEF HandleClose, Forget, recvVars, callVars, devVars
<1>2. linkUp /\ linkUp'
  BY <1>1 DEF Receive, DrainInv
<1>3. \A x \in Streams : InqKept(x) /\ (NoOpen(x) => NoOpen(x)')
  BY <1>1, OtherTaken, NoOpenKept
<1>4. CASE UNCHANGED <<streams, onCloseVars>>
  <2>1. \A x \in Streams : OwnState(x)' = OwnState(x)
    BY <1>1, <1>4 DEF OwnState, onCloseVars
  <2>2. QED
    BY <1>1, <1>2, <1>3, <1>4, <2>1, DrainKept DEF DrainInv
<1>5. CASE t \in streams /\ streams' = streams \ {t} /\ OnClose({t}, FALSE)
  <2>1. /\ opened \in [Streams -> {"no", "pending", "resolved", "rejected"}]
        /\ closed \in [Streams -> BOOLEAN] /\ error \in [Streams -> BOOLEAN]
        /\ eof \in [Streams -> BOOLEAN] /\ readWaiters \in [Streams -> Nat]
    BY DEF TInv, TypeOK
  <2>2. ASSUME NEW x \in Streams, x # t \/ closed[t] PROVE DrainOf(x)'
    <3>1. /\ closed'[x] = closed[x] /\ error'[x] = error[x] /\ opened'[x] = opened[x]
          /\ eof'[x] = eof[x]
      BY <1>5, <2>1, <2>2, Zenon DEF OnClose, CloseStreams
    <3>2. OwnState(x)' = OwnState(x)
      BY <1>1, <3>1 DEF OwnState
    <3>3. QED
      BY <1>3, <1>5, <3>2, DrainKept DEF DrainInv
  <2>3. CASE ~closed[t]
    <3>1. DrainOf(t)
      BY <1>1 DEF DrainInv
    <3>2. /\ closed'[t] /\ error'[t] = FALSE /\ opened'[t] # "no"
          /\ eof'[t] => eof[t] \/ readWaiters[t] > 0
      BY <1>1, <1>5, <2>1, <2>3 DEF OnClose, CloseStreams
    <3>3. ~eof[t] \/ closing[t] # "no"
      BY <2>3, <3>1 DEF DrainOf, EofSeen, Ended
    <3>4. inq \in Seq(DevicePackets) /\ Len(inq) \in Nat /\ Len(inq) >= 1 /\ inq[1] = Head(inq)
          /\ inq[1].cmd = "CLSE"
      BY <1>1 DEF Receive, TInv, TypeOK
    <3>5. sock[t] # "open" /\ Count(inq, Written(t)) = 0
      <4>1. 1 \in 1..Len(inq)
        BY <3>4
      <4>2. sock[t] # "open" /\ \A j \in 1..Len(inq) : inq[j] \in Written(t) => j < 1
        BY <1>0, <3>1, <3>4, <4>1 DEF DrainOf, CloseLast
      <4>3. \A j \in 1..Len(inq) : inq[j] \notin Written(t)
        BY <3>4, <4>2
      <4>4. QED
        BY <3>4, <4>2, <4>3, CountNone
    <3>6. NoOpen(t)
      BY <1>1 DEF CloseInv, Queue, Queued, NoOpen
    <3>7. readCount[t] + Len(incoming[t]) = devSent[t]
      <4>1. readCount[t] + Len(incoming[t]) + Count(inq, Written(t)) = devSent[t]
        BY <1>2, <2>3, <3>1 DEF DrainOf, NoneLost
      <4>2. readCount[t] \in Nat /\ Len(incoming[t]) \in Nat
        BY <1>1 DEF TInv, TypeOK
      <4>3. QED
        BY <3>5, <4>1, <4>2
    <3>8. CloseLast(t)' /\ Fresh(t)' /\ Refused(t)' /\ NoneLost(t)'
      <4>1. InqKept(t)
        BY <1>1, <1>3
      <4>2. CloseLast(t)'
        BY <3>1, <4>1 DEF DrainOf, InqKept
      <4>3. QED
        BY <3>2, <4>2 DEF Fresh, Refused, NoneLost
    <3>9. Drained(t)'
      BY <1>1, <1>3, <1>5, <3>5, <3>6, <3>7 DEF Drained
    <3>10. EofSeen(t)'
      BY <1>1, <3>2, <3>3 DEF EofSeen, Ended, NoLostWakeup, NoLostReadWakeup
    <3>11. DrainOf(t)'
      BY <3>8, <3>9, <3>10 DEF DrainOf
    <3>12. QED
      BY <1>2, <2>2, <3>11 DEF DrainInv
  <2>4. CASE closed[t]
    BY <1>2, <2>2, <2>4 DEF DrainInv
  <2>5. QED
    BY <2>3, <2>4
<1>6. QED
  BY <1>1, <1>4, <1>5

\* writePacket resolves: a stream leaves the map only because it was closed
\* from this side.
LEMMA WriteDoneDrain == ASSUME TInv, DrainInv, WriteDone PROVE DrainInv'
<1>0. PICK c : c = completing
  OBVIOUS
<1>1. /\ UNCHANGED <<closed, error, opened, eof, incoming, readCount, devSent, sock, linkUp, inq, outq>>
      /\ \/ UNCHANGED <<streams, closing>>
         \/ streams' = streams \ {c.s} /\ closing' = [closing EXCEPT ![c.s] = "done"]
  BY <1>0 DEF WriteDone, recvVars, devVars
<1>2. \A x \in Streams : InqKept(x) /\ (NoOpen(x) => NoOpen(x)')
  BY <1>1, InqSame, NoOpenKept
<1>3. closing \in [Streams -> {"no", "sending", "done", "failed"}]
  BY DEF TInv, TypeOK
<1>4. ASSUME NEW x \in Streams, closing'[x] = closing[x] PROVE DrainOf(x)'
  <2>1. OwnState(x)' = OwnState(x)
    BY <1>1, <1>4 DEF OwnState
  <2>2. QED
    BY <1>1, <1>2, <2>1, DrainKept DEF DrainInv
<1>5. ASSUME NEW x \in Streams, closing'[x] # closing[x] PROVE DrainOf(x)'
  <2>1. closing'[x] # "no" /\ streams' \subseteq streams
    BY <1>1, <1>3, <1>5
  <2>2. DrainOf(x)
    BY DEF DrainInv
  <2>3. Fresh(x)' /\ Refused(x)' /\ CloseLast(x)' /\ NoneLost(x)'
    BY <1>1, <1>2, <2>1, <2>2 DEF DrainOf, InqKept, Fresh, Refused, NoneLost
  <2>4. QED
    BY <2>1, <2>3 DEF DrainOf, Drained, EofSeen, Ended
<1>6. QED
  BY <1>1, <1>4, <1>5 DEF DrainInv

\* writePacket rejects: adbd never hears of a stream whose A_OPEN failed.
LEMMA WriteFailsDrain == ASSUME TInv, CloseInv, DrainInv, WriteFails PROVE DrainInv'
<1>0. PICK p : p = Head(outq)
  OBVIOUS
<1>1. /\ outq # <<>> /\ outq' = Tail(outq)
      /\ UNCHANGED <<incoming, readCount, devSent, sock, linkUp, inq>>
      /\ \/ UNCHANGED <<streams, closed, error, eof, opened, closing>>
         \/ /\ closing' = [closing EXCEPT ![p.s] = "failed"]
            /\ UNCHANGED <<streams, closed, error, eof, opened>>
         \/ /\ p.cmd = "OPEN" /\ streams' = streams \ {p.s}
            /\ opened' = [opened EXCEPT ![p.s] = "rejected"]
            /\ UNCHANGED <<closed, error, eof, closing>>
         \/ OnClose({p.s}, TRUE) /\ UNCHANGED <<streams, closing>>
  BY <1>0, Zenon DEF WriteFails, recvVars, onCloseVars, devVars
<1>2. p \in On(outq) /\ p.s \in Streams /\ Queued(p)
  <2>1. outq \in Seq(HostPackets)
    BY DEF TInv, TypeOK
  <2>2. p \in On(outq)
    BY <1>0, <1>1, <2>1, OnTail
  <2>3. QED
    BY <2>2, OnTypes, HostPacketFields DEF CloseInv, Queue
<1>3. \A x \in Streams : InqKept(x) /\ (NoOpen(x) => NoOpen(x)')
  BY <1>1, InqSame, NoOpenKept
<1>4. CASE UNCHANGED <<streams, closed, error, eof, opened, closing>>
  <2>1. \A x \in Streams : OwnState(x)' = OwnState(x)
    BY <1>1, <1>4 DEF OwnState
  <2>2. QED
    BY <1>1, <1>3, <1>4, <2>1, DrainKept DEF DrainInv
<1>5. CASE /\ closing' = [closing EXCEPT ![p.s] = "failed"]
           /\ UNCHANGED <<streams, closed, error, eof, opened>>
  <2>1. closing \in [Streams -> {"no", "sending", "done", "failed"}]
    BY DEF TInv, TypeOK
  <2>2. ASSUME NEW x \in Streams, x # p.s PROVE DrainOf(x)'
    <3>1. OwnState(x)' = OwnState(x)
      BY <1>1, <1>5, <2>1, <2>2 DEF OwnState
    <3>2. QED
      BY <1>3, <1>5, <3>1, DrainKept DEF DrainInv
  <2>3. DrainOf(p.s)'
    <3>1. DrainOf(p.s) /\ InqKept(p.s) /\ closing'[p.s] # "no"
      BY <1>2, <1>3, <1>5, <2>1 DEF DrainInv
    <3>2. PICK t : t = p.s
      OBVIOUS
    <3>3. Fresh(t)' /\ Refused(t)' /\ CloseLast(t)' /\ NoneLost(t)'
      BY <1>1, <1>2, <1>3, <1>5, <3>1, <3>2 DEF DrainOf, InqKept, Fresh, Refused, NoneLost
    <3>4. QED
      BY <3>1, <3>2, <3>3 DEF DrainOf, Drained, EofSeen, Ended
  <2>4. QED
    BY <1>1, <1>2, <2>2, <2>3 DEF DrainInv
<1>6. CASE /\ p.cmd = "OPEN" /\ streams' = streams \ {p.s}
           /\ opened' = [opened EXCEPT ![p.s] = "rejected"]
           /\ UNCHANGED <<closed, error, eof, closing>>
  <2>1. opened \in [Streams -> {"no", "pending", "resolved", "rejected"}]
    BY DEF TInv, TypeOK
  <2>2. ASSUME NEW x \in Streams, x # p.s PROVE DrainOf(x)'
    <3>1. OwnState(x)' = OwnState(x)
      BY <1>1, <1>6, <2>1, <2>2 DEF OwnState
    <3>2. QED
      BY <1>3, <1>6, <3>1, DrainKept DEF DrainInv
  <2>3. DrainOf(p.s)'
    <3>1. PICK t : t = p.s
      OBVIOUS
    <3>2. DrainOf(t) /\ opened'[t] = "rejected" /\ InqKept(t)
      BY <1>2, <1>3, <1>6, <2>1, <3>1 DEF DrainInv
    <3>3. Unheard(t)'
      BY <1>1, <1>2, <1>3, <1>6, <3>1 DEF Queued, InqKept
    <3>4. NoOpen(t)'
      <4>1. outq \in Seq(HostPackets)
        BY DEF TInv, TypeOK
      <4>2. /\ Len(outq) \in Nat /\ Len(outq) >= 1 /\ p = outq[1] /\ Len(outq') = Len(outq) - 1
            /\ \A i \in 1..(Len(outq) - 1) : outq'[i] = outq[i + 1]
        BY <1>0, <1>1, <4>1, OnTail
      <4>3. ASSUME NEW i \in 1..(Len(outq) - 1), outq[i + 1].cmd = "OPEN", outq[i + 1].s = t
            PROVE  FALSE
        <5>1. i + 1 \in 1..Len(outq) /\ 1 \in 1..Len(outq) /\ i + 1 # 1
          BY <4>2
        <5>2. i + 1 = 1
          BY <1>6, <3>1, <4>2, <4>3, <5>1 DEF CloseInv, Queue, OpenOnce
        <5>3. QED
          BY <5>1, <5>2
      <4>4. QED
        BY <4>2, <4>3 DEF NoOpen, On
    <3>5. Fresh(t)' /\ Refused(t)' /\ CloseLast(t)' /\ NoneLost(t)'
      BY <1>1, <1>6, <3>2, <3>3, <3>4 DEF DrainOf, InqKept, Fresh, Refused, NoneLost
    <3>6. Drained(t)' /\ EofSeen(t)'
      BY <1>1, <1>2, <1>3, <1>6, <3>1, <3>2 DEF DrainOf, Drained, EofSeen, Ended
    <3>7. QED
      BY <3>1, <3>5, <3>6 DEF DrainOf
  <2>4. QED
    BY <1>1, <1>2, <2>2, <2>3 DEF DrainInv
<1>7. CASE OnClose({p.s}, TRUE) /\ UNCHANGED <<streams, closing>>
  <2>1. {p.s} \in SUBSET Streams /\ opened[p.s] # "no"
    BY <1>2 DEF Queued
  <2>2. \A x \in Streams : DrainOf(x)'
    BY <1>1, <1>3, <1>7, <2>1, CloseErrorDrain
  <2>3. QED
    BY <1>1, <2>2 DEF DrainInv
<1>8. QED
  BY <1>1, <1>4, <1>5, <1>6, <1>7

\* What adbd sends or takes on a stream it has open.
LEMMA SpeakDrain ==
    ASSUME TInv, CloseInv, DrainInv, NEW t \in Streams, linkUp, UNCHANGED <<hostVars, linkUp>>,
           \A s \in Streams : s # t => sock'[s] = sock[s],
           UNCHANGED outq \/ (outq # <<>> /\ outq' = Tail(outq)),
           \/ UNCHANGED <<sock, inq, devSent>>
           \/ /\ sock[t] = "open"
              /\ \/ UNCHANGED <<sock, devSent>> /\ \E n : Emit([cmd |-> "OKAY", s |-> t, len |-> n])
                 \/ /\ UNCHANGED sock /\ devSent' = [devSent EXCEPT ![t] = @ + 1]
                    /\ \E n \in Nat : Emit([cmd |-> "WRTE", s |-> t, len |-> n])
                 \/ sock'[t] = "closed" /\ UNCHANGED devSent /\ Emit([cmd |-> "CLSE", s |-> t])
    PROVE  DrainInv'
<1>1. /\ UNCHANGED <<streams, closed, error, opened, closing, eof, incoming, readCount>>
      /\ devSent \in [Streams -> Nat] /\ readCount \in [Streams -> Nat]
      /\ incoming \in [Streams -> Seq(Nat)]
  BY DEF hostVars, connVars, recvVars, callVars, onCloseVars, TInv, TypeOK
<1>2. \A x \in Streams : NoOpen(x) => NoOpen(x)'
  BY NoOpenKept
<1>3. CASE UNCHANGED <<sock, inq, devSent>>
  <2>1. \A x \in Streams : InqKept(x) /\ OwnState(x)' = OwnState(x)
    BY <1>1, <1>3, InqSame DEF OwnState
  <2>2. QED
    BY <1>1, <1>2, <1>3, <2>1, DrainKept DEF DrainInv
<1>4. CASE sock[t] = "open" /\ ~UNCHANGED <<sock, inq, devSent>>
  <2>1. PICK x : /\ Emit(x) /\ x.cmd \in {"OKAY", "WRTE", "CLSE"} /\ x.s = t
                 /\ x.cmd = "WRTE" => x \in DevicePackets /\ UNCHANGED sock
                                      /\ devSent' = [devSent EXCEPT ![t] = @ + 1]
                 /\ x.cmd # "WRTE" => UNCHANGED devSent
                 /\ x.cmd = "CLSE" => sock'[t] = "closed"
                 /\ sock'[t] = sock[t] \/ sock'[t] = "closed"
    <3>1. CASE UNCHANGED <<sock, devSent>> /\ \E n : Emit([cmd |-> "OKAY", s |-> t, len |-> n])
      <4>1. PICK n : Emit([cmd |-> "OKAY", s |-> t, len |-> n])
        BY <3>1
      <4>2. QED
        BY <3>1, <4>1
    <3>2. CASE /\ UNCHANGED sock /\ devSent' = [devSent EXCEPT ![t] = @ + 1]
               /\ \E n \in Nat : Emit([cmd |-> "WRTE", s |-> t, len |-> n])
      <4>1. PICK n \in Nat : Emit([cmd |-> "WRTE", s |-> t, len |-> n])
        BY <3>2
      <4>2. [cmd |-> "WRTE", s |-> t, len |-> n] \in DevicePackets
        BY DEF DevicePackets
      <4>3. QED
        BY <3>2, <4>1, <4>2
    <3>3. CASE sock'[t] = "closed" /\ UNCHANGED devSent /\ Emit([cmd |-> "CLSE", s |-> t])
      BY <3>3
    <3>4. QED
      BY <1>4, <3>1, <3>2, <3>3
  <2>2. ASSUME NEW s \in Streams
        PROVE  /\ Unheard(s) => Unheard(s)'
               /\ CloseLast(s) => CloseLast(s)'
               /\ Count(inq, Written(s))' = Count(inq, Written(s)) + (IF x \in Written(s) THEN 1 ELSE 0)
               /\ Count(inq, Written(s)) \in Nat
    <3>1. Unheard(s) => x.cmd = "BAD" \/ x.s # s
      BY <1>4, <2>1 DEF Unheard
    <3>2. sock'[s] = sock[s] \/ (sock[s] = "open" /\ sock'[s] = "closed")
      BY <1>4, <2>1
    <3>3. x.cmd = "CLSE" /\ x.s = s => sock'[s] # "open"
      BY <2>1
    <3>4. x \in Written(s) => sock[s] = "open"
      BY <1>4, <2>1 DEF Written
    <3>5. QED
      BY <2>1, <3>1, <3>2, <3>3, <3>4, InqEmitted
  <2>3. ASSUME NEW s \in Streams, s # t PROVE DrainOf(s)'
    <3>1. x \notin Written(s) /\ devSent'[s] = devSent[s]
      BY <1>1, <2>1, <2>3 DEF Written
    <3>2. InqKept(s) /\ OwnState(s)' = OwnState(s)
      BY <1>1, <2>2, <2>3, <3>1 DEF InqKept, OwnState
    <3>3. QED
      BY <1>1, <1>2, <3>2, DrainKept DEF DrainInv
  <2>4. DrainOf(t)'
    <3>1. DrainOf(t) /\ ~Unheard(t)
      BY <1>4 DEF DrainInv, Unheard
    <3>2. CloseLast(t)'
      BY <2>2, <3>1 DEF DrainOf
    <3>3. Fresh(t)' /\ Refused(t)'
      BY <1>1, <3>1 DEF DrainOf, Fresh, Refused
    <3>4. NoneLost(t)'
      <4>1. SUFFICES ASSUME ~closed[t]
                     PROVE  readCount[t] + Len(incoming[t]) + Count(inq, Written(t))' = devSent'[t]
        BY <1>1 DEF NoneLost
      <4>2. readCount[t] + Len(incoming[t]) + Count(inq, Written(t)) = devSent[t]
        BY <3>1, <4>1 DEF DrainOf, NoneLost
      <4>3. readCount[t] \in Nat /\ Len(incoming[t]) \in Nat /\ devSent[t] \in Nat
        BY <1>1
      <4>4. CASE x \in Written(t)
        <5>1. devSent'[t] = devSent[t] + 1
          BY <1>1, <2>1, <4>4 DEF Written
        <5>2. Count(inq, Written(t))' = Count(inq, Written(t)) + 1 /\ Count(inq, Written(t)) \in Nat
          BY <2>2, <4>4
        <5>3. \A a, b, c, d \in Nat : a + b + c = d => a + b + (c + 1) = d + 1
          OBVIOUS
        <5>4. readCount[t] + Len(incoming[t]) + (Count(inq, Written(t)) + 1) = devSent[t] + 1
          BY <4>2, <4>3, <5>2, <5>3
        <5>5. QED
          BY <5>1, <5>2, <5>4, Zenon
      <4>5. CASE x \notin Written(t)
        <5>1. x.cmd # "WRTE"
          BY <2>1, <4>5 DEF Written
        <5>2. devSent'[t] = devSent[t]
          BY <2>1, <5>1
        <5>3. Count(inq, Written(t))' = Count(inq, Written(t))
          BY <2>2, <4>5
        <5>4. QED
          BY <4>2, <5>2, <5>3
      <4>6. QED
        BY <4>4, <4>5
    <3>5. ~Ended(t) /\ (Ended(t)' <=> Ended(t))
      BY <1>1, <1>4, <3>1 DEF DrainOf, Drained, Ended
    <3>6. Drained(t)' /\ EofSeen(t)'
      BY <1>1, <3>1, <3>5 DEF DrainOf, Drained, EofSeen
    <3>7. QED
      BY <3>2, <3>3, <3>4, <3>6 DEF DrainOf
  <2>5. QED
    BY <2>3, <2>4 DEF DrainInv
<1>5. QED
  BY <1>3, <1>4

\* adbd takes an A_WRTE, an A_OKAY or an A_CLSE, consumes, writes or closes.
LEMMA DeviceDrain ==
    ASSUME TInv, CloseInv, DrainInv,
           \/ DevReceiveWrite \/ DevReceiveOkay \/ DevReceiveClose
           \/ \E s \in Streams : DevConsume(s) \/ DevWrite(s) \/ DevClose(s)
    PROVE  DrainInv'
<1>0. sock \in [Streams -> {"none", "open", "closed"}]
  BY DEF TInv, TypeOK
<1>1. CASE DevReceiveWrite \/ DevReceiveOkay \/ DevReceiveClose
  <2>1. PICK t, cmd : t = Head(outq).s /\ Transfer(cmd)
    BY <1>1 DEF DevReceiveWrite, DevReceiveOkay, DevReceiveClose
  <2>2. t \in Streams /\ linkUp /\ outq # <<>> /\ outq' = Tail(outq)
    BY <2>1, TransferTypes DEF Transfer
  <2>3. /\ UNCHANGED <<hostVars, linkUp, devSent>>
        /\ \/ UNCHANGED <<sock, inq>>
           \/ /\ sock[t] = "open" /\ sock' = [sock EXCEPT ![t] = "closed"]
              /\ Emit([cmd |-> "CLSE", s |-> t])
    BY <1>1, <2>1 DEF DevReceiveWrite, DevReceiveOkay, DevReceiveClose
  <2>4. /\ \A s \in Streams : s # t => sock'[s] = sock[s]
        /\ UNCHANGED sock \/ sock'[t] = "closed"
    BY <1>0, <2>2, <2>3
  <2>5. UNCHANGED <<hostVars, linkUp>> /\ UNCHANGED devSent
    BY <2>3
  <2>6. CASE UNCHANGED <<sock, inq>>
    <3>1. UNCHANGED <<sock, inq, devSent>>
      BY <2>5, <2>6
    <3>2. QED
      BY <2>2, <2>4, <2>5, <3>1, SpeakDrain
  <2>7. CASE /\ sock[t] = "open" /\ sock' = [sock EXCEPT ![t] = "closed"]
             /\ Emit([cmd |-> "CLSE", s |-> t])
    <3>1. sock'[t] = "closed"
      BY <1>0, <2>2, <2>7
    <3>2. sock[t] = "open" /\ Emit([cmd |-> "CLSE", s |-> t])
      BY <2>7
    <3>3. QED
      BY <2>2, <2>4, <2>5, <3>1, <3>2, SpeakDrain
  <2>8. QED
    BY <2>3, <2>6, <2>7
<1>2. ASSUME NEW t \in Streams, DevConsume(t) PROVE DrainInv'
  <2>1. /\ linkUp /\ sock[t] = "open" /\ UNCHANGED <<hostVars, linkUp, outq, sock, devSent>>
        /\ \E n : Emit([cmd |-> "OKAY", s |-> t, len |-> n])
    BY <1>2 DEF DevConsume
  <2>2. QED
    BY <2>1, SpeakDrain
<1>3. ASSUME NEW t \in Streams, DevWrite(t) PROVE DrainInv'
  <2>1. /\ linkUp /\ sock[t] = "open" /\ UNCHANGED <<hostVars, linkUp, outq, sock>>
        /\ devSent' = [devSent EXCEPT ![t] = @ + 1]
        /\ \E n \in Nat : Emit([cmd |-> "WRTE", s |-> t, len |-> n])
    BY <1>3, ConstantsOK DEF DevWrite, Constants
  <2>2. QED
    BY <2>1, SpeakDrain
<1>4. ASSUME NEW t \in Streams, DevClose(t) PROVE DrainInv'
  <2>1. /\ linkUp /\ sock[t] = "open" /\ UNCHANGED <<hostVars, linkUp, outq, devSent>>
        /\ sock' = [sock EXCEPT ![t] = "closed"] /\ Emit([cmd |-> "CLSE", s |-> t])
    BY <1>4 DEF DevClose
  <2>2. sock'[t] = "closed" /\ \A s \in Streams : s # t => sock'[s] = sock[s]
    BY <1>0, <2>1
  <2>3. QED
    BY <2>1, <2>2, SpeakDrain
<1>5. QED
  BY <1>1, <1>2, <1>3, <1>4

\* adbd takes an A_OPEN: of the stream it has not said anything yet.
LEMMA DevOpenDrain == ASSUME TInv, CloseInv, DrainInv, DevOpen PROVE DrainInv'
<1>0. PICK t : t = Head(outq).s
  OBVIOUS
<1>1. /\ Transfer("OPEN") /\ linkUp /\ outq # <<>> /\ outq' = Tail(outq) /\ Head(outq).cmd = "OPEN"
      /\ UNCHANGED <<streams, closed, error, opened, closing, eof, incoming, readCount, devSent, linkUp>>
      /\ \/ sock' = [sock EXCEPT ![t] = "open"] /\ \E n : Emit([cmd |-> "OKAY", s |-> t, len |-> n])
         \/ UNCHANGED sock /\ Emit([cmd |-> "CLSE", s |-> t])
  BY <1>0 DEF DevOpen, Transfer, hostVars, connVars, recvVars, callVars, onCloseVars
<1>2. t \in Streams /\ Head(outq) \in On(outq)
  <2>1. outq \in Seq(HostPackets)
    BY DEF TInv, TypeOK
  <2>2. QED
    BY <1>0, <1>1, <2>1, OnTail, TransferTypes
<1>3. Unheard(t) /\ ~NoOpen(t) /\ opened[t] # "no"
  BY <1>0, <1>1, <1>2 DEF CloseInv, Queue, Queued, NoOpen
<1>4. \A x \in Streams : NoOpen(x) => NoOpen(x)'
  BY <1>1, NoOpenKept
<1>5. PICK x : /\ Emit(x) /\ x.cmd \in {"OKAY", "CLSE"} /\ x.s = t
               /\ x.cmd = "CLSE" => UNCHANGED sock
  <2>1. CASE sock' = [sock EXCEPT ![t] = "open"] /\ \E n : Emit([cmd |-> "OKAY", s |-> t, len |-> n])
    <3>1. PICK n : Emit([cmd |-> "OKAY", s |-> t, len |-> n])
      BY <2>1
    <3>2. QED
      BY <3>1
  <2>2. QED
    BY <1>1, <2>1
<1>6. ASSUME NEW s \in Streams, s # t PROVE DrainOf(s)'
  <2>1. sock'[s] = sock[s]
    BY <1>1, <1>2, <1>6 DEF TInv, TypeOK
  <2>2. x \notin Written(s)
    BY <1>5 DEF Written
  <2>3. InqKept(s)
    BY <1>1, <1>5, <1>6, <2>1, <2>2, InqEmitted DEF InqKept
  <2>4. OwnState(s)' = OwnState(s)
    BY <1>1, <2>1 DEF OwnState
  <2>5. QED
    BY <1>1, <1>4, <2>3, <2>4, DrainKept DEF DrainInv
<1>7. DrainOf(t)'
  <2>1. DrainOf(t)
    BY <1>2 DEF DrainInv
  <2>2. inq \in Seq(DevicePackets) /\ inq' = Append(inq, x)
    BY <1>5 DEF TInv, TypeOK, Emit
  <2>3. /\ Len(inq) \in Nat /\ Len(inq') = Len(inq) + 1 /\ inq'[Len(inq) + 1] = x
        /\ \A i \in 1..Len(inq) : inq'[i] = inq[i]
    BY <2>2
  <2>4. CloseLast(t)'
    <3>1. \A i \in 1..Len(inq) : inq[i].cmd # "BAD" => inq[i].s # t
      BY <1>3 DEF Unheard, On
    <3>2. \A i \in 1..Len(inq') : i \in 1..Len(inq) \/ i = Len(inq) + 1
      BY <2>3
    <3>3. x.cmd = "CLSE" => sock'[t] # "open"
      BY <1>3, <1>5 DEF Unheard
    <3>4. \A i \in 1..Len(inq') : inq'[i] \notin Written(t)
      BY <1>5, <2>3, <3>1, <3>2 DEF Written
    <3>5. \A i \in 1..Len(inq') : inq'[i].cmd = "CLSE" /\ inq'[i].s = t => sock'[t] # "open"
      BY <2>3, <3>1, <3>2, <3>3
    <3>6. QED
      BY <3>4, <3>5 DEF CloseLast, Written
  <2>5. ~Ended(t) /\ ~Ended(t)'
    BY <1>1, <1>3, <2>1 DEF DrainOf, Drained, Ended
  <2>6. Fresh(t)' /\ Refused(t)'
    BY <1>1, <1>3, <2>1 DEF DrainOf, Fresh, Refused
  <2>7. NoneLost(t)'
    <3>1. Count(inq, Written(t))' = Count(inq', Written(t))
      BY DEF Count, Places, Written
    <3>2. x \notin Written(t)
      BY <1>5 DEF Written
    <3>3. Count(inq', Written(t)) = Count(inq, Written(t)) /\ Count(inq, Written(t)) \in Nat
      BY <1>5, <2>2, <3>2, CountEmit, PlacesFinite
    <3>4. QED
      BY <1>1, <2>1, <3>1, <3>3 DEF DrainOf, NoneLost
  <2>8. Drained(t)' /\ EofSeen(t)'
    BY <1>1, <2>1, <2>5 DEF DrainOf, Drained, EofSeen
  <2>9. QED
    BY <2>4, <2>6, <2>7, <2>8 DEF DrainOf
<1>8. QED
  BY <1>1, <1>6, <1>7 DEF DrainInv

\* Every step of a page whose adbd keeps to the protocol keeps the account.
LEMMA NextDrainInv ==
    ~Misbehave /\ TInv /\ CloseInv /\ NoLostWakeup /\ DrainInv /\ [Next]_vars => DrainInv'
<1> SUFFICES ASSUME ~Misbehave, TInv, CloseInv, NoLostWakeup, DrainInv, [Next]_vars PROVE DrainInv'
  OBVIOUS
<1>1. CASE AppStep
  <2>1. ASSUME NEW w \in Writers, Write(w) PROVE DrainInv'
    <3>1. UNCHANGED DrainVars /\ UNCHANGED outq
      BY <2>1 DEF Write, DrainVars, connVars, recvVars, callVars, wireVars, devVars
    <3>2. QED
      BY <3>1, DrainUntouched, NoOpenKept
  <2>2. QED
    BY <1>1, <2>1, OpenDrain, ReadDrain, CloseDrain, ForgetAllDrain DEF AppStep
<1>2. CASE HostStep
  <2>1. ASSUME NEW w \in Writers, Resume(w) PROVE DrainInv'
    <3>1. UNCHANGED DrainVars
      BY <2>1, Zenon DEF Resume, DrainVars, connVars, recvVars, callVars, devVars
    <3>2. \A s \in Streams : NoOpen(s) => NoOpen(s)'
      <4>1. UNCHANGED outq \/ \E n : outq' = Append(outq, WritePacket(w, n))
        BY <2>1 DEF Resume, Send
      <4>2. ASSUME NEW n, outq' = Append(outq, WritePacket(w, n))
            PROVE  \A s \in Streams : NoOpen(s) => NoOpen(s)'
        <5>1. outq' \in Seq(HostPackets) /\ outq \in Seq(HostPackets)
          BY NextTInv DEF TInv, TypeOK
        <5>2. PICK p : p = WritePacket(w, n)
          OBVIOUS
        <5>3. p.cmd # "OPEN"
          BY <5>2 DEF WritePacket
        <5>4. Len(outq) + 1 \in 1..Len(outq') /\ outq'[Len(outq) + 1] = p
          BY <4>2, <5>1, <5>2
        <5>5. p \in HostPackets
          BY <5>1, <5>4
        <5>6. QED
          BY <4>2, <5>2, <5>3, <5>5, NoOpenKept DEF Send
      <4>3. QED
        BY <4>1, <4>2, NoOpenKept
    <3>3. QED
      BY <3>1, <3>2, DrainUntouched
  <2>2. ASSUME NEW t \in Streams, FlushAck(t) PROVE DrainInv'
    <3>1. UNCHANGED DrainVars
      BY <2>2, Zenon DEF FlushAck, DrainVars, connVars, callVars, onCloseVars, devVars
    <3>2. pendingAck[t] \in Nat
      BY DEF TInv, TypeOK
    <3>3. UNCHANGED outq \/ (Send(OkayPacket(t, pendingAck[t])))
      BY <2>2 DEF FlushAck
    <3>4. OkayPacket(t, pendingAck[t]) \in HostPackets /\ OkayPacket(t, pendingAck[t]).cmd # "OPEN"
      BY <3>2, OkayPacketType DEF OkayPacket
    <3>5. QED
      BY <3>1, <3>3, <3>4, DrainUntouched, NoOpenKept
  <2>3. QED
    BY <1>2, <2>1, <2>2, HandleOkayDrain, HandleWriteDrain, HandleCloseDrain, ForgetAllDrain,
       WriteDoneDrain, WriteFailsDrain DEF HostStep, WriteFailsUnplugged
<1>3. CASE DevTransfer
  BY <1>3, DevOpenDrain, DeviceDrain DEF DevTransfer
<1>4. CASE EnvStep \/ \E s \in Streams : DevConsume(s)
  <2>1. CASE Unplug
    <3>1. /\ UNCHANGED <<streams, closed, error, opened, closing, eof, incoming, readCount,
                         devSent, sock, outq>>
          /\ inq' = <<>> /\ ~linkUp'
      BY <2>1 DEF Unplug, connVars, recvVars, callVars, onCloseVars, devVars
    <3>2. \A s \in Streams : InqKept(s) /\ OwnState(s)' = OwnState(s) /\ (NoOpen(s) => NoOpen(s)')
      BY <3>1, InqLost, NoOpenKept DEF OwnState
    <3>3. QED
      BY <3>1, <3>2, DrainKept DEF DrainInv
  <2>2. QED
    BY <1>4, <2>1, WriteFailsDrain, DeviceDrain DEF EnvStep, WriteStalls, DevMisbehave
<1>5. CASE UNCHANGED vars
  <2>1. UNCHANGED DrainVars /\ UNCHANGED outq
    BY <1>5 DEF vars, DrainVars, connVars, recvVars, callVars, onCloseVars, wireVars, devVars
  <2>2. QED
    BY <2>1, DrainUntouched, NoOpenKept
<1>6. QED
  BY <1>1, <1>2, <1>3, <1>4, <1>5 DEF Next

\* read() returns null for a stream adbd has closed only after every chunk adbd
\* wrote on it: none is dropped by the map of streams, by a waiting reader or
\* by the A_CLSE overtaking it, provided adbd keeps to the protocol.
THEOREM EndMeansDrained == ~Misbehave => (Spec => []EofMeansDrained)
<1> SUFFICES ASSUME ~Misbehave PROVE Spec => []EofMeansDrained
  OBVIOUS
<1> DEFINE I == TInv /\ CloseInv /\ NoLostWakeup /\ DrainInv
<1>1. Init => I
  BY InitTInv, InitCloseInv, InitNoLostWakeup, InitDrainInv
<1>2. I /\ [Next]_vars => I'
  BY NextTInv, NextCloseInv, NextNoLostWakeup, NextDrainInv
<1>3. I => EofMeansDrained
  <2>1. ASSUME I, NEW s \in Streams, eof[s], closing[s] = "no" PROVE readCount[s] = devSent[s]
    <3>1. incoming[s] = <<>> /\ readCount[s] + Len(incoming[s]) = devSent[s]
      BY <2>1 DEF DrainInv, DrainOf, EofSeen, Drained
    <3>2. Len(incoming[s]) = 0 /\ readCount[s] \in Nat
      BY <2>1, <3>1 DEF TInv, TypeOK
    <3>3. QED
      BY <3>1, <3>2
  <2>2. QED
    BY <2>1 DEF EofMeansDrained
<1> HIDE DEF I
<1>4. QED
  BY <1>1, <1>2, <1>3, PTL DEF Spec
=============================================================================

--------------------------- MODULE AdbConnection ---------------------------
(***************************************************************************)
(* The stream layer of webadb: AdbConnection (webadb/src/connection.js)    *)
(* and AdbStream (webadb/src/stream.js) on top of the serialized packet    *)
(* writes of AdbWebUsbTransport (webadb/src/transport/webusb.js), with the *)
(* adbd daemon at the other end of the cable as environment.               *)
(*                                                                         *)
(* The page is one JavaScript thread.  Between two awaits code runs to     *)
(* completion, so an action is one such stretch.  Promise continuations    *)
(* and queueMicrotask callbacks (a writer granted permission, an ack flush)*)
(* run before the next USB completion is looked at: actions that start     *)
(* with a USB completion require Quiet.  Calls of the application may come *)
(* at any point, since the application is itself woken by promises.        *)
(*                                                                         *)
(* The specification starts after the handshake: connected is TRUE and     *)
(* DelayedAck says whether both ends advertised delayed_ack.               *)
(***************************************************************************)
EXTENDS Integers, FiniteSets, SequencesExt

CONSTANTS
    Streams,      \* one member per call of open(); stands for the localId
    Writers,      \* one member per call of stream.write()
    StreamOf,     \* [Writers -> Streams]
    Payload,      \* [Writers -> bytes handed to that call]
    MaxPayload,   \* negotiated maximum payload of an A_WRTE
    DelayedAck,   \* supportsDelayedAck
    Credit,       \* bytes adbd grants in its first A_OKAY (delayed ack)
    RecvWindow,   \* INITIAL_DELAYED_ACK_BYTES
    DevSizes,     \* payload sizes adbd writes
    MaxReads,     \* bound: read() calls per stream
    MaxDevWrites, \* bound: A_WRTE packets adbd sends per stream
    Misbehave,    \* adbd may break the protocol
    MayStall,     \* a bulk OUT transfer may stall with the cable still plugged
    MayUnplug     \* the cable may be pulled

ASSUME StreamOfAssumption == StreamOf \in [Writers -> Streams]
ASSUME WritersAssumption == IsFiniteSet(Writers)
ASSUME PayloadAssumption == Payload \in [Writers -> Nat \ {0}]
ASSUME MaxPayloadAssumption == MaxPayload \in Nat \ {0}
ASSUME CreditAssumption == Credit \in Nat \ {0} /\ RecvWindow \in Nat \ {0}
ASSUME DevSizesAssumption == DevSizes \subseteq Nat \ {0}
ASSUME BoundAssumption == MaxReads \in Nat /\ MaxDevWrites \in Nat
ASSUME FlagAssumption == {DelayedAck, Misbehave, MayStall, MayUnplug} \subseteq BOOLEAN

VARIABLES
    \* AdbConnection
    connected,    \* #connected
    streams,      \* the keys of #streams
    loop,         \* #runReadLoop: "reading", "blocked" on a CLSE, or "dead"
    \* AdbStream, one value per stream
    opened,       \* the open() call: "no", "pending", "resolved", "rejected"
    remoteId,     \* remoteId # 0
    closed, error,
    availableSendBytes,   \* delayed ack only
    writeReady,           \* classic only
    incoming,     \* payload lengths received and not yet read
    readWaiters,  \* read() calls that wait
    pendingAck,
    flushQueued,  \* a #flushAck microtask is queued
    \* calls of the application
    pc,           \* per write() call
    offset,       \* per write() call
    closing,      \* the close() call: "no", "sending", "done", "failed"
    readCalls, readCount, eof,  \* read() calls, chunks returned, null returned
    \* the transport
    linkUp, outq, completing, inq,
    \* adbd
    sock, devBuf, devWindow, devSent

connVars   == <<connected, streams, loop>>
sendVars   == <<availableSendBytes, writeReady>>
recvVars   == <<incoming, pendingAck, flushQueued, readCount>>
callVars   == <<offset, closing>>
onCloseVars == <<closed, error, readWaiters, eof, pc, opened>>
wireVars   == <<linkUp, outq, completing, inq>>
devVars    == <<sock, devBuf, devWindow, devSent>>
vars == <<connVars, remoteId, sendVars, recvVars, callVars, readCalls,
          onCloseVars, wireVars, devVars>>

Bare == -1        \* an A_OKAY without payload
Nothing == [cmd |-> "none"]

\* What writePacket is given, and for whom: "by" tells apart the two senders
\* of A_CLSE, AdbStream.close() and the read loop.
HostPackets ==
    [cmd : {"OPEN"}, s : Streams, len : Nat]
      \cup [cmd : {"WRTE"}, s : Streams, len : Nat, by : Writers]
      \cup [cmd : {"OKAY"}, s : Streams, len : Nat \cup {Bare}]
      \cup [cmd : {"CLSE"}, s : Streams, by : {"close", "loop"}]

DevicePackets ==
    [cmd : {"OKAY"}, s : Streams, len : Nat \cup {Bare}]
      \cup [cmd : {"WRTE"}, s : Streams, len : Nat]
      \cup [cmd : {"CLSE"}, s : Streams]
      \cup [cmd : {"BAD"}]

OpenPacket(s)     == [cmd |-> "OPEN", s |-> s, len |-> IF DelayedAck THEN RecvWindow ELSE 0]
WritePacket(w, n) == [cmd |-> "WRTE", s |-> StreamOf[w], len |-> n, by |-> w]
OkayPacket(s, n)  == [cmd |-> "OKAY", s |-> s, len |-> IF DelayedAck THEN n ELSE Bare]
ClosePacket(s, b) == [cmd |-> "CLSE", s |-> s, by |-> b]

Init ==
    /\ connected = TRUE /\ streams = {} /\ loop = "reading"
    /\ opened = [s \in Streams |-> "no"]
    /\ remoteId = [s \in Streams |-> FALSE]
    /\ closed = [s \in Streams |-> FALSE]
    /\ error = [s \in Streams |-> FALSE]
    /\ availableSendBytes = [s \in Streams |-> 0]
    /\ writeReady = [s \in Streams |-> FALSE]
    /\ incoming = [s \in Streams |-> <<>>]
    /\ readWaiters = [s \in Streams |-> 0]
    /\ pendingAck = [s \in Streams |-> 0]
    /\ flushQueued = [s \in Streams |-> FALSE]
    /\ pc = [w \in Writers |-> "idle"]
    /\ offset = [w \in Writers |-> 0]
    /\ closing = [s \in Streams |-> "no"]
    /\ readCalls = [s \in Streams |-> 0]
    /\ readCount = [s \in Streams |-> 0]
    /\ eof = [s \in Streams |-> FALSE]
    /\ linkUp = TRUE /\ outq = <<>> /\ completing = Nothing /\ inq = <<>>
    /\ sock = [s \in Streams |-> "none"]
    /\ devBuf = [s \in Streams |-> <<>>]
    /\ devWindow = [s \in Streams |-> 0]
    /\ devSent = [s \in Streams |-> 0]

\* The microtask queue is empty: the event loop may take the next USB event.
Quiet == /\ \A w \in Writers : pc[w] # "granted"
         /\ \A s \in Streams : ~flushQueued[s]

-----------------------------------------------------------------------------
(* Helpers shared by several handlers                                      *)

CloseStreams_forgetsWriters(S, err) ==
    LET C == {s \in S : ~closed[s]} IN
    /\ closed' = [s \in Streams |-> closed[s] \/ s \in C]
    /\ error' = [s \in Streams |-> IF s \in C THEN err ELSE error[s]]
    /\ readWaiters' = [s \in Streams |-> IF s \in C THEN 0 ELSE readWaiters[s]]
    /\ eof' = [s \in Streams |-> eof[s] \/ (s \in C /\ ~err /\ readWaiters[s] > 0)]
    /\ UNCHANGED pc

\* AdbStream._onClose on every member of S that is still open, but for the
\* opened promise: waiting readers get null or the error, waiting writers
\* the error.
CloseStreams(S, err) ==
    LET C == {s \in S : ~closed[s]} IN
    /\ closed' = [s \in Streams |-> closed[s] \/ s \in C]
    /\ error' = [s \in Streams |-> IF s \in C THEN err ELSE error[s]]
    /\ readWaiters' = [s \in Streams |-> IF s \in C THEN 0 ELSE readWaiters[s]]
    /\ eof' = [s \in Streams |-> eof[s] \/ (s \in C /\ ~err /\ readWaiters[s] > 0)]
    /\ pc' = [w \in Writers |->
                IF StreamOf[w] \in C /\ pc[w] = "waiting" THEN "failed" ELSE pc[w]]

OnClose_keepsOpening(S, err) == CloseStreams(S, err) /\ UNCHANGED opened

\* AdbStream._onClose: the open() call of a stream adbd never acknowledged
\* rejects too.
OnClose(S, err) ==
    /\ CloseStreams(S, err)
    /\ opened' = [s \in Streams |->
                    IF s \in S /\ ~closed[s] /\ ~remoteId[s] THEN "rejected" ELSE opened[s]]

HasBudget_atZero(n) == n >= 0

\* A delayed-ack stream may send at all; the size of the chunk is not asked.
HasBudget(n) == n > 0

MaySend(s) == IF DelayedAck THEN HasBudget(availableSendBytes[s]) ELSE writeReady[s]

\* #awaitSendPermission: the state the calling write() is in when it returns.
AwaitSendPermission(s) ==
    IF closed[s] THEN "failed" ELSE IF MaySend(s) THEN "granted" ELSE "waiting"

\* What write() takes from its permission for a chunk of n bytes.
Spend_nothing(s, n) == UNCHANGED sendVars

Spend(s, n) ==
    /\ availableSendBytes' = [availableSendBytes EXCEPT ![s] = IF DelayedAck THEN @ - n ELSE @]
    /\ writeReady' = [writeReady EXCEPT ![s] = FALSE]

Credited_overwrites(s, n) == availableSendBytes' = [availableSendBytes EXCEPT ![s] = n]

Credited(s, n) == availableSendBytes' = [availableSendBytes EXCEPT ![s] = @ + n]

ReleaseWriters_oneOnly(s) ==
    LET W == {w \in Writers : StreamOf[w] = s /\ pc[w] = "waiting"} IN
    IF W = {} THEN UNCHANGED pc ELSE \E w \in W : pc' = [pc EXCEPT ![w] = "granted"]

ReleaseWriters_nobody(s) == UNCHANGED pc

\* #releaseWriters: every waiter is resolved at once.
ReleaseWriters(s) ==
    pc' = [w \in Writers |->
             IF StreamOf[w] = s /\ pc[w] = "waiting" THEN "granted" ELSE pc[w]]

Owe_latest(s, n) == pendingAck' = [pendingAck EXCEPT ![s] = n]

\* n more bytes have been read and are to be acknowledged.
Owe(s, n) == pendingAck' = [pendingAck EXCEPT ![s] = @ + n]

QueueFlush_never(s) == UNCHANGED flushQueued

QueueFlush(s) == flushQueued' = [flushQueued EXCEPT ![s] = TRUE]

\* #take, once the chunk at the head of buf has been handed out.
Take(s, buf) ==
    /\ incoming' = [incoming EXCEPT ![s] = Tail(buf)]
    /\ Owe(s, Head(buf))
    /\ QueueFlush(s)
    /\ readCount' = [readCount EXCEPT ![s] = @ + 1]

\* writePacket: packets leave in the order of the calls (#writeLock).
Send(p) == outq' = Append(outq, p)

-----------------------------------------------------------------------------
(* Calls of the application                                                *)

Open(s) ==
    /\ connected /\ opened[s] = "no"
    /\ opened' = [opened EXCEPT ![s] = "pending"]
    /\ streams' = streams \cup {s}
    /\ Send(OpenPacket(s))
    /\ UNCHANGED <<connected, loop, remoteId, sendVars, recvVars, callVars, readCalls,
                   closed, error, readWaiters, eof, pc, linkUp, completing, inq, devVars>>

Write(w) ==
    /\ opened[StreamOf[w]] = "resolved" /\ pc[w] = "idle"
    /\ pc' = [pc EXCEPT ![w] = AwaitSendPermission(StreamOf[w])]
    /\ UNCHANGED <<connVars, remoteId, sendVars, recvVars, callVars, readCalls,
                   closed, error, readWaiters, eof, opened, wireVars, devVars>>

HasChunk_ifOpen(s) == incoming[s] # <<>> /\ ~closed[s]

HasChunk(s) == incoming[s] # <<>>

\* read(): a buffered chunk first, then the error, then null, else wait.
Read(s) ==
    /\ opened[s] = "resolved" /\ readCalls[s] < MaxReads
    /\ readCalls' = [readCalls EXCEPT ![s] = @ + 1]
    /\ \/ /\ HasChunk(s)
          /\ Take(s, incoming[s])
          /\ UNCHANGED <<readWaiters, eof>>
       \/ /\ ~HasChunk(s) /\ error[s]
          /\ UNCHANGED <<recvVars, readWaiters, eof>>
       \/ /\ ~HasChunk(s) /\ ~error[s] /\ closed[s]
          /\ eof' = [eof EXCEPT ![s] = TRUE]
          /\ UNCHANGED <<recvVars, readWaiters>>
       \/ /\ ~HasChunk(s) /\ ~closed[s] /\ ~error[s]
          /\ readWaiters' = [readWaiters EXCEPT ![s] = @ + 1]
          /\ UNCHANGED <<recvVars, eof>>
    /\ UNCHANGED <<connVars, remoteId, sendVars, callVars, closed, error, pc, opened,
                   wireVars, devVars>>

\* AdbStream.close() up to its await; a second call returns at once.  The
\* caller got the stream from open(), so remoteId is set.
Close(s) ==
    /\ opened[s] = "resolved" /\ ~closed[s]
    /\ OnClose({s}, FALSE)
    /\ Send(ClosePacket(s, "close"))
    /\ closing' = [closing EXCEPT ![s] = "sending"]
    /\ UNCHANGED <<connVars, remoteId, sendVars, recvVars, offset, readCalls,
                   linkUp, completing, inq, devVars>>

\* AdbConnection.close(): transport.close() drops the interface at once.
CloseConnection ==
    /\ connected
    /\ connected' = FALSE /\ streams' = {}
    /\ OnClose(streams, TRUE)
    /\ linkUp' = FALSE /\ inq' = <<>>
    /\ UNCHANGED <<loop, remoteId, sendVars, recvVars, callVars, readCalls,
                   outq, completing, devVars>>

-----------------------------------------------------------------------------
(* Microtasks                                                              *)

\* The check write() makes when it resumes.
Usable(s) == ~closed[s]

\* write() after its await: only closed is looked at again.
Resume(w) ==
    LET s == StreamOf[w]
        left == Payload[w] - offset[w]
        n == IF left < MaxPayload THEN left ELSE MaxPayload IN
    /\ pc[w] = "granted"
    /\ \/ /\ ~Usable(s)
          /\ pc' = [pc EXCEPT ![w] = "failed"]
          /\ UNCHANGED <<sendVars, outq>>
       \/ /\ Usable(s)
          /\ pc' = [pc EXCEPT ![w] = "sending"]
          /\ Spend(s, n)
          /\ Send(WritePacket(w, n))
    /\ UNCHANGED <<connVars, remoteId, recvVars, callVars, readCalls,
                   closed, error, readWaiters, eof, opened, linkUp, completing, inq, devVars>>

AckDue_evenClosed(s) == pendingAck[s] # 0

AckDue(s) == ~closed[s] /\ pendingAck[s] # 0

ResetPending_forgotten(s) == UNCHANGED pendingAck

ResetPending(s) == pendingAck' = [pendingAck EXCEPT ![s] = 0]

FlushAck(s) ==
    /\ flushQueued[s]
    /\ flushQueued' = [flushQueued EXCEPT ![s] = FALSE]
    /\ \/ /\ ~AckDue(s)
          /\ UNCHANGED <<pendingAck, outq>>
       \/ /\ AckDue(s)
          /\ ResetPending(s)
          /\ Send(OkayPacket(s, pendingAck[s]))
    /\ UNCHANGED <<connVars, remoteId, sendVars, incoming, readCount, callVars, readCalls,
                   onCloseVars, linkUp, completing, inq, devVars>>

-----------------------------------------------------------------------------
(* The read loop: one packet at a time, handlers awaited                   *)

Receive(cmd) ==
    /\ Quiet /\ loop = "reading" /\ inq # <<>> /\ Head(inq).cmd = cmd
    /\ inq' = Tail(inq)

\* _onOkay of a stream in the map.
OnOkay(s, ackedBytes) ==
    LET settled == [opened EXCEPT ![s] = IF @ = "pending" THEN "resolved" ELSE @] IN
    /\ remoteId' = [remoteId EXCEPT ![s] = TRUE]
    /\ opened' = settled
    /\ \/ /\ DelayedAck = (ackedBytes = Bare)
          /\ CloseStreams({s}, TRUE)
          /\ UNCHANGED sendVars
       \/ /\ DelayedAck /\ ackedBytes # Bare
          /\ Credited(s, ackedBytes)
          /\ IF HasBudget(availableSendBytes[s] + ackedBytes) THEN ReleaseWriters(s) ELSE UNCHANGED pc
          /\ UNCHANGED <<writeReady, closed, error, readWaiters, eof>>
       \/ /\ ~DelayedAck /\ ackedBytes = Bare
          /\ writeReady' = [writeReady EXCEPT ![s] = TRUE]
          /\ ReleaseWriters(s)
          /\ UNCHANGED <<availableSendBytes, closed, error, readWaiters, eof>>

\* #handleOkay.  An A_OKAY for a stream no longer in the map is answered
\* with an A_CLSE the read loop waits for.
HandleOkay ==
    /\ Receive("OKAY")
    /\ LET p == Head(inq) IN
       \/ /\ p.s \in streams
          /\ OnOkay(p.s, p.len)
          /\ UNCHANGED <<outq, loop>>
       \/ /\ p.s \notin streams
          /\ Send(ClosePacket(p.s, "loop"))
          /\ loop' = "blocked"
          /\ UNCHANGED <<remoteId, sendVars, onCloseVars>>
    /\ UNCHANGED <<connected, streams, recvVars, callVars, readCalls, linkUp, completing, devVars>>

ReaderWaits_never(s) == FALSE

ReaderWaits_always(s) == TRUE

ReaderWaits(s) == readWaiters[s] > 0

\* #handleWrite and _onWrite: the chunk is buffered, and handed to the first
\* waiting reader if there is one.
HandleWrite ==
    /\ Receive("WRTE")
    /\ LET p == Head(inq)
           s == p.s
           buf == Append(incoming[s], p.len) IN
       \/ /\ s \notin streams
          /\ UNCHANGED <<recvVars, readWaiters>>
       \/ /\ s \in streams /\ ~ReaderWaits(s)
          /\ incoming' = [incoming EXCEPT ![s] = buf]
          /\ UNCHANGED <<pendingAck, flushQueued, readCount, readWaiters>>
       \/ /\ s \in streams /\ ReaderWaits(s)
          /\ Take(s, buf)
          /\ readWaiters' = [readWaiters EXCEPT ![s] = @ - 1]
    /\ UNCHANGED <<connVars, remoteId, sendVars, callVars, readCalls,
                   closed, error, eof, pc, opened, linkUp, outq, completing, devVars>>

Forget_skipped(s) == UNCHANGED streams

Forget(s) == streams' = streams \ {s}

HandleClose ==
    /\ Receive("CLSE")
    /\ LET s == Head(inq).s IN
       IF s \in streams THEN Forget(s) /\ OnClose({s}, FALSE)
                        ELSE UNCHANGED <<streams, onCloseVars>>
    /\ UNCHANGED <<connected, loop, remoteId, sendVars, recvVars, callVars, readCalls,
                   linkUp, outq, completing, devVars>>

\* #fail: the pending transferIn rejects, or a packet no handler accepts.
FailConnection ==
    /\ Quiet /\ loop = "reading"
    /\ ~linkUp \/ (inq # <<>> /\ Head(inq).cmd = "BAD")
    /\ loop' = "dead" /\ connected' = FALSE /\ streams' = {}
    /\ OnClose(streams, TRUE)
    /\ UNCHANGED <<remoteId, sendVars, recvVars, callVars, readCalls, wireVars, devVars>>

-----------------------------------------------------------------------------
(* The write side of the transport                                         *)

\* adbd takes the packet at the head of outq; the transferOut promise
\* resolves later, and only then is the next packet started.
Transfer(cmd) ==
    /\ linkUp /\ completing = Nothing /\ outq # <<>> /\ Head(outq).cmd = cmd
    /\ completing' = Head(outq)
    /\ outq' = Tail(outq)

\* writePacket resolves: the continuation of whoever awaited it.
WriteDone ==
    /\ Quiet /\ completing # Nothing
    /\ completing' = Nothing
    /\ \/ /\ completing.cmd = "WRTE"
          /\ LET w == completing.by
                 next == offset[w] + MaxPayload IN
             /\ offset' = [offset EXCEPT ![w] = next]
             /\ pc' = [pc EXCEPT ![w] = IF next >= Payload[w] THEN "done"
                                        ELSE AwaitSendPermission(StreamOf[w])]
          /\ UNCHANGED <<streams, loop, closing>>
       \/ /\ completing.cmd = "CLSE" /\ completing.by = "close"
          /\ streams' = streams \ {completing.s}
          /\ closing' = [closing EXCEPT ![completing.s] = "done"]
          /\ UNCHANGED <<loop, offset, pc>>
       \/ /\ completing.cmd = "CLSE" /\ completing.by = "loop"
          /\ loop' = "reading"
          /\ UNCHANGED <<streams, closing, offset, pc>>
       \/ /\ completing.cmd \in {"OPEN", "OKAY"}
          /\ UNCHANGED <<streams, loop, closing, offset, pc>>
    /\ UNCHANGED <<connected, remoteId, sendVars, recvVars, readCalls,
                   closed, error, readWaiters, eof, opened, linkUp, outq, inq, devVars>>

\* writePacket rejects: write() and close() throw, open() forgets the stream,
\* a failed ack closes the stream, the read loop ignores it.
WriteFails ==
    /\ Quiet /\ completing = Nothing /\ outq # <<>>
    /\ outq' = Tail(outq)
    /\ LET p == Head(outq) IN
       \/ /\ p.cmd = "WRTE"
          /\ pc' = [pc EXCEPT ![p.by] = "failed"]
          /\ UNCHANGED <<streams, loop, closing, closed, error, readWaiters, eof, opened>>
       \/ /\ p.cmd = "CLSE" /\ p.by = "close"
          /\ closing' = [closing EXCEPT ![p.s] = "failed"]
          /\ UNCHANGED <<streams, loop, onCloseVars>>
       \/ /\ p.cmd = "CLSE" /\ p.by = "loop"
          /\ loop' = "reading"
          /\ UNCHANGED <<streams, closing, onCloseVars>>
       \/ /\ p.cmd = "OPEN"
          /\ streams' = streams \ {p.s}
          /\ opened' = [opened EXCEPT ![p.s] = "rejected"]
          /\ UNCHANGED <<loop, closing, closed, error, readWaiters, eof, pc>>
       \/ /\ p.cmd = "OKAY"
          /\ OnClose({p.s}, TRUE)
          /\ UNCHANGED <<streams, loop, closing>>
    /\ UNCHANGED <<connected, remoteId, sendVars, recvVars, offset, readCalls,
                   linkUp, completing, inq, devVars>>

WriteFailsUnplugged == ~linkUp /\ WriteFails
WriteStalls         == MayStall /\ linkUp /\ WriteFails

Unplug ==
    /\ MayUnplug /\ linkUp
    /\ linkUp' = FALSE /\ inq' = <<>>
    /\ UNCHANGED <<connVars, remoteId, sendVars, recvVars, callVars, readCalls,
                   onCloseVars, outq, completing, devVars>>

-----------------------------------------------------------------------------
(* adbd (external): accepts or refuses a service, consumes and            *)
(* acknowledges what it is sent, writes within its own window, closes.     *)

hostVars == <<connVars, remoteId, sendVars, recvVars, callVars, readCalls, onCloseVars>>

Emit(p) == inq' = Append(inq, p)

DevOpen ==
    /\ Transfer("OPEN")
    /\ LET s == Head(outq).s IN
       \/ /\ sock' = [sock EXCEPT ![s] = "open"]
          /\ devWindow' = [devWindow EXCEPT ![s] = IF DelayedAck THEN Head(outq).len ELSE 1]
          /\ Emit([cmd |-> "OKAY", s |-> s, len |-> IF DelayedAck THEN Credit ELSE Bare])
       \/ /\ Emit([cmd |-> "CLSE", s |-> s])
          /\ UNCHANGED <<sock, devWindow>>
    /\ UNCHANGED <<hostVars, linkUp, devBuf, devSent>>

DevReceiveWrite ==
    /\ Transfer("WRTE")
    /\ LET p == Head(outq) IN
       devBuf' = [devBuf EXCEPT ![p.s] = IF sock[p.s] = "open" THEN Append(@, p.len) ELSE @]
    /\ UNCHANGED <<hostVars, linkUp, inq, sock, devWindow, devSent>>

DevReceiveOkay ==
    /\ Transfer("OKAY")
    /\ LET p == Head(outq) IN
       devWindow' = [devWindow EXCEPT ![p.s] = IF DelayedAck THEN @ + p.len ELSE 1]
    /\ UNCHANGED <<hostVars, linkUp, inq, sock, devBuf, devSent>>

DevReceiveClose ==
    /\ Transfer("CLSE")
    /\ LET s == Head(outq).s IN
       IF sock[s] = "open"
       THEN /\ sock' = [sock EXCEPT ![s] = "closed"]
            /\ devBuf' = [devBuf EXCEPT ![s] = <<>>]
            /\ Emit([cmd |-> "CLSE", s |-> s])
       ELSE UNCHANGED <<sock, devBuf, inq>>
    /\ UNCHANGED <<hostVars, linkUp, devWindow, devSent>>

DevConsume(s) ==
    /\ linkUp /\ sock[s] = "open" /\ devBuf[s] # <<>>
    /\ devBuf' = [devBuf EXCEPT ![s] = Tail(@)]
    /\ Emit([cmd |-> "OKAY", s |-> s, len |-> IF DelayedAck THEN Head(devBuf[s]) ELSE Bare])
    /\ UNCHANGED <<hostVars, linkUp, outq, completing, sock, devWindow, devSent>>

DevWrite(s) ==
    /\ linkUp /\ sock[s] = "open" /\ devWindow[s] > 0 /\ devSent[s] < MaxDevWrites
    /\ devSent' = [devSent EXCEPT ![s] = @ + 1]
    /\ \E n \in DevSizes :
         /\ devWindow' = [devWindow EXCEPT ![s] = IF DelayedAck THEN @ - n ELSE 0]
         /\ Emit([cmd |-> "WRTE", s |-> s, len |-> n])
    /\ UNCHANGED <<hostVars, linkUp, outq, completing, sock, devBuf>>

DevClose(s) ==
    /\ linkUp /\ sock[s] = "open"
    /\ sock' = [sock EXCEPT ![s] = "closed"]
    /\ devBuf' = [devBuf EXCEPT ![s] = <<>>]
    /\ Emit([cmd |-> "CLSE", s |-> s])
    /\ UNCHANGED <<hostVars, linkUp, outq, completing, devWindow, devSent>>

\* An A_OKAY of the other flow-control mode, or a packet outside the protocol.
DevMisbehave(s) ==
    /\ Misbehave /\ linkUp /\ sock[s] = "open" /\ devSent[s] < MaxDevWrites
    /\ devSent' = [devSent EXCEPT ![s] = MaxDevWrites]
    /\ \/ Emit([cmd |-> "OKAY", s |-> s, len |-> IF DelayedAck THEN Bare ELSE 1])
       \/ Emit([cmd |-> "BAD"])
    /\ UNCHANGED <<hostVars, linkUp, outq, completing, sock, devBuf, devWindow>>

-----------------------------------------------------------------------------
HostStep ==
    \/ \E w \in Writers : Resume(w)
    \/ \E s \in Streams : FlushAck(s)
    \/ HandleOkay \/ HandleWrite \/ HandleClose \/ FailConnection
    \/ WriteDone \/ WriteFailsUnplugged

AppStep ==
    \/ \E w \in Writers : Write(w)
    \/ \E s \in Streams : Open(s) \/ Read(s) \/ Close(s)
    \/ CloseConnection

DevTransfer == DevOpen \/ DevReceiveWrite \/ DevReceiveOkay \/ DevReceiveClose

EnvStep ==
    \/ WriteStalls \/ Unplug
    \/ \E s \in Streams : DevWrite(s) \/ DevClose(s) \/ DevMisbehave(s)

Next == HostStep \/ AppStep \/ DevTransfer \/ EnvStep \/ \E s \in Streams : DevConsume(s)

Spec == Init /\ [][Next]_vars

\* The event loop keeps running and adbd keeps taking and consuming packets;
\* the application, the cable and what adbd volunteers are not fair.
Fairness == /\ WF_vars(HostStep)
            /\ WF_vars(DevTransfer)
            /\ \A s \in Streams : WF_vars(DevConsume(s))

FairSpec == Spec /\ Fairness

-----------------------------------------------------------------------------
(* Types                                                                   *)

\* Every variable has the type its field has in AdbConnection and AdbStream.
TypeOK ==
    /\ connected \in BOOLEAN /\ streams \subseteq Streams
    /\ loop \in {"reading", "blocked", "dead"}
    /\ opened \in [Streams -> {"no", "pending", "resolved", "rejected"}]
    /\ remoteId \in [Streams -> BOOLEAN]
    /\ closed \in [Streams -> BOOLEAN] /\ error \in [Streams -> BOOLEAN]
    /\ availableSendBytes \in [Streams -> Int] /\ writeReady \in [Streams -> BOOLEAN]
    /\ incoming \in [Streams -> Seq(Nat)] /\ readWaiters \in [Streams -> Nat]
    /\ pendingAck \in [Streams -> Nat] /\ flushQueued \in [Streams -> BOOLEAN]
    /\ pc \in [Writers -> {"idle", "waiting", "granted", "sending", "done", "failed"}]
    /\ offset \in [Writers -> Nat]
    /\ closing \in [Streams -> {"no", "sending", "done", "failed"}]
    /\ readCalls \in [Streams -> Nat] /\ readCount \in [Streams -> Nat]
    /\ eof \in [Streams -> BOOLEAN]
    /\ linkUp \in BOOLEAN /\ outq \in Seq(HostPackets) /\ inq \in Seq(DevicePackets)
    /\ completing \in HostPackets \cup {Nothing}
    /\ sock \in [Streams -> {"none", "open", "closed"}]
    /\ devBuf \in [Streams -> Seq(Nat)]
    /\ devWindow \in [Streams -> Int] /\ devSent \in [Streams -> Nat]

-----------------------------------------------------------------------------
(* Safety                                                                  *)

WritersOf(s) == {w \in Writers : StreamOf[w] = s}

\* The sum of a sequence of numbers.
Total(ns) ==
    LET sum[i \in 0..Len(ns)] == IF i = 0 THEN 0 ELSE sum[i - 1] + ns[i]
    IN  sum[Len(ns)]

\* n bytes count for themselves (delayed ack), or for one packet (classic).
Unit(n) == IF DelayedAck THEN n ELSE 1

\* The part of a packet in what is on its way for s; an A_OKAY of the other
\* flow-control mode acknowledges nothing, and closes the stream.
Share(p, s, cmd) ==
    IF p.cmd # cmd \/ p.s # s \/ (cmd = "OKAY" /\ DelayedAck = (p.len = Bare)) THEN 0 ELSE Unit(p.len)

\* What the packets of kind cmd in queue q carry for s.
Amount(q, s, cmd) == Total([i \in DOMAIN q |-> Share(q[i], s, cmd)])

Buffered(buf) == Total([i \in DOMAIN buf |-> Unit(buf[i])])

\* What s may still send without hearing from adbd.
Permission(s) == IF DelayedAck THEN availableSendBytes[s]
                 ELSE IF writeReady[s] THEN 1 ELSE 0

\* A write() that waits in #sendWaiters is on an open stream that really may
\* not send: no A_OKAY, close or failure slips between the permission check
\* and the registration of the waiter.
NoLostSendWakeup ==
    \A w \in Writers : pc[w] = "waiting" =>
        ~closed[StreamOf[w]] /\ Permission(StreamOf[w]) <= 0

\* A read() that waits in #readWaiters is on an open stream with nothing
\* buffered: a chunk is never parked while a reader waits for it.
NoLostReadWakeup ==
    \A s \in Streams : readWaiters[s] > 0 => ~closed[s] /\ incoming[s] = <<>>

\* Every byte (packet) of the grant of adbd is in exactly one place: still
\* spendable, in an A_WRTE on its way, in the buffer of adbd, or in an A_OKAY
\* coming back.  A stall between the two ends may only lose credit.
SendCreditConserved ==
    \A s \in Streams : sock[s] = "open" /\ ~closed[s] =>
        LET total == Permission(s) + Amount(outq, s, "WRTE") + Buffered(devBuf[s])
                       + Amount(inq, s, "OKAY")
            grant == IF DelayedAck THEN Credit ELSE 1
        IN  linkUp => total <= grant /\ (~MayStall => total = grant)

\* Delayed ack checks the budget before it subtracts a whole chunk, and
\* several write() calls may pass the check on the same budget: the debt
\* stays below one chunk for each of them.
OvershootBounded ==
    DelayedAck => \A s \in Streams :
        WritersOf(s) # {} => availableSendBytes[s] > -(MaxPayload * Cardinality(WritersOf(s)))

\* Once an A_CLSE of a stream is queued, no A_WRTE or A_OKAY of it is queued
\* behind: a writer or an ack that was already granted notices the close.
NothingBehindClose ==
    \A i, j \in 1..Len(outq) :
        i < j /\ outq[i].cmd = "CLSE" /\ outq[i].s = outq[j].s => outq[j].cmd = "CLSE"

\* When adbd closes a stream, read() returns null only after every chunk adbd
\* wrote before its A_CLSE has been returned.
EofMeansDrained ==
    \A s \in Streams : eof[s] /\ closing[s] = "no" => readCount[s] = devSent[s]

-----------------------------------------------------------------------------
(* Liveness                                                                *)

\* open() settles: acknowledged, refused, or failed with the connection.
OpenSettles ==
    \A s \in Streams : opened[s] = "pending" ~> opened[s] \in {"resolved", "rejected"}

\* A write() finishes or throws as long as adbd consumes what it is sent.
WriteSettles ==
    \A w \in Writers : pc[w] \in {"waiting", "granted", "sending"} ~> pc[w] \in {"done", "failed"}

\* Both ends forget a closed stream: the host removes it from #streams, and
\* the socket of adbd does not stay open unless the link is gone.
CloseReclaims ==
    \A s \in Streams : closed[s] ~> (s \notin streams /\ (sock[s] # "open" \/ ~linkUp))

\* What has been read is acknowledged: the device is not left waiting for a
\* window the consumer has already freed.
ReadIsAcked ==
    \A s \in Streams : pendingAck[s] > 0 ~> (pendingAck[s] = 0 \/ closed[s])
=============================================================================

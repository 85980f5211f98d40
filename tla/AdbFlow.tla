------------------------------ MODULE AdbFlow ------------------------------
(***************************************************************************)
(* The stream layer implements FlowControl twice per stream: host to adbd  *)
(* (write() spends what adbd grants) and adbd to host (read() frees what   *)
(* the host grants).  The refinement needs a stream with at most one       *)
(* write() call at a time, and writes that do not stall half way.          *)
(***************************************************************************)
EXTENDS AdbConnection

CONSTANTS MaxDevChunk, \* no element of DevSizes exceeds it
          Stream       \* the stream the abstraction follows

ASSUME MaxDevChunkAssumption ==
    /\ MaxDevChunk \in Nat \ {0}
    /\ \A n \in DevSizes : n <= MaxDevChunk
ASSUME StreamAssumption == Stream \in Streams

Running(s) == sock[s] = "open" /\ ~closed[s] /\ linkUp

Phase(s) == CASE Running(s) -> "open"
              [] closed[s] \/ sock[s] = "closed" \/ ~linkUp -> "closed"
              [] OTHER -> "idle"

WhileRunning(s, amount) == IF Running(s) THEN amount ELSE 0

\* An ack not flushed yet acknowledges one packet in classic mode.
Pending(s) == IF DelayedAck \/ pendingAck[s] = 0 THEN pendingAck[s] ELSE 1

ToDevice == INSTANCE FlowControl WITH
    Grant <- Unit(Credit),
    MaxChunk <- Unit(MaxPayload),
    phase <- Phase(Stream),
    permit <- WhileRunning(Stream, Permission(Stream)),
    unread <- WhileRunning(Stream, Amount(outq, Stream, "WRTE") + Buffered(devBuf[Stream])),
    owed <- WhileRunning(Stream, Amount(inq, Stream, "OKAY"))

ToHost == INSTANCE FlowControl WITH
    Grant <- Unit(RecvWindow),
    MaxChunk <- Unit(MaxDevChunk),
    phase <- Phase(Stream),
    permit <- WhileRunning(Stream, devWindow[Stream]),
    unread <- WhileRunning(Stream, Amount(inq, Stream, "WRTE") + Buffered(incoming[Stream])),
    owed <- WhileRunning(Stream, Pending(Stream) + Amount(outq, Stream, "OKAY"))

\* write() never sends without a positive permit, and what adbd has not
\* consumed is never spent twice.
SendsWithinGrant == ToDevice!Spec

\* "Acknowledge only once the consumer has taken the data, so that the device
\* feels real backpressure instead of filling our heap" (stream.js): every
\* step of the receive path consumes a chunk, acknowledges consumed bytes, or
\* leaves the flow-control state alone.
AcksWhatIsRead == ToHost!Spec
=============================================================================

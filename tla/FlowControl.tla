---------------------------- MODULE FlowControl ----------------------------
(***************************************************************************)
(* What the flow control of one direction of one adb stream promises,      *)
(* whichever end sends and whichever mode is in use.  Amounts are bytes    *)
(* with delayed ack and packets in classic mode, where Grant = 1.          *)
(*                                                                         *)
(* A sender with a positive permit sends one chunk and may overdraw its    *)
(* permit by less than that chunk.  The receiver owes an acknowledgement   *)
(* only for what its consumer has taken, and each unit of the grant is at  *)
(* any time spendable, unread or owed.                                     *)
(***************************************************************************)
EXTENDS Integers

CONSTANTS Grant,     \* the budget the receiver grants when the stream opens, > 0
          MaxChunk   \* the largest amount a sender sends at once, > 0

VARIABLES phase,   \* "idle", "open" or "closed"
          permit,  \* what the sender may still send
          unread,  \* sent and not yet taken by the receiving consumer
          owed     \* taken, the acknowledgement has not reached the sender

fvars == <<phase, permit, unread, owed>>

Init == phase = "idle" /\ permit = 0 /\ unread = 0 /\ owed = 0

\* The grant is with the sender at once, or travels as a first acknowledgement.
Begin ==
    /\ phase = "idle" /\ phase' = "open"
    /\ \/ permit' = Grant /\ owed' = 0
       \/ permit' = 0 /\ owed' = Grant
    /\ UNCHANGED unread

SendChunk(n) ==
    /\ phase = "open" /\ permit > 0
    /\ permit' = permit - n /\ unread' = unread + n
    /\ UNCHANGED <<phase, owed>>

Consume(n) ==
    /\ phase = "open" /\ n <= unread
    /\ unread' = unread - n /\ owed' = owed + n
    /\ UNCHANGED <<phase, permit>>

Acknowledge(n) ==
    /\ phase = "open" /\ n <= owed
    /\ owed' = owed - n /\ permit' = permit + n
    /\ UNCHANGED <<phase, unread>>

End ==
    /\ phase # "closed" /\ phase' = "closed"
    /\ permit' = 0 /\ unread' = 0 /\ owed' = 0

Next ==
    \/ Begin \/ End
    \/ \E n \in 1..MaxChunk : SendChunk(n)
    \* amounts consumed or owed never exceed the grant and one overdraft
    \/ \E n \in 1..(Grant + MaxChunk) : Consume(n) \/ Acknowledge(n)

Spec == Init /\ [][Next]_fvars

-----------------------------------------------------------------------------
\* Permits may be overdrawn; nothing is consumed or acknowledged that was not
\* sent, so unread and owed never go negative.
TypeOK == /\ phase \in {"idle", "open", "closed"}
          /\ permit \in Int /\ unread \in Nat /\ owed \in Nat

\* Each unit of the grant is spendable, unread or owed: an acknowledgement is
\* never lost or sent twice while the stream is open.
Conserved == phase = "open" => permit + unread + owed = Grant

\* A sender asks only whether its permit is positive, not whether the chunk
\* fits: the overdraft stays below one chunk, so the receiver never holds
\* more than Grant + MaxChunk - 1 at once.
Bounded == permit > -MaxChunk /\ unread + owed < Grant + MaxChunk
=============================================================================

------------------------- MODULE FlowControlProofs -------------------------
(***************************************************************************)
(* FlowControl keeps its promises for every grant and every chunk size.    *)
(***************************************************************************)
EXTENDS FlowControl, TLAPS

\* Grants and chunks are positive amounts (bytes, or 1 packet).
Positive == Grant \in Nat \ {0} /\ MaxChunk \in Nat \ {0}

\* Inductive: outside "open" everything is zero, which End and Begin need.
IInv == TypeOK /\ Conserved /\ permit > -MaxChunk
          /\ (phase # "open" => permit = 0 /\ unread = 0 /\ owed = 0)

\* The invariant holds initially.
LEMMA InitIInv == Positive /\ Init => IInv
  BY DEF Positive, Init, IInv, TypeOK, Conserved

\* Each operation keeps it: SendChunk moves n from permit to unread, Consume
\* from unread to owed, Acknowledge from owed back to permit.
LEMMA NextIInv == Positive /\ IInv /\ [Next]_fvars => IInv'
<1> SUFFICES ASSUME Positive, IInv, [Next]_fvars PROVE IInv'
  OBVIOUS
<1> USE DEF Positive, IInv, TypeOK, Conserved
<1>1. CASE Begin
  BY <1>1 DEF Begin
<1>2. CASE End
  BY <1>2 DEF End
<1>3. ASSUME NEW n \in 1..MaxChunk, SendChunk(n) PROVE IInv'
  BY <1>3 DEF SendChunk
<1>4. ASSUME NEW n \in 1..(Grant + MaxChunk), Consume(n) PROVE IInv'
  BY <1>4 DEF Consume
<1>5. ASSUME NEW n \in 1..(Grant + MaxChunk), Acknowledge(n) PROVE IInv'
  BY <1>5 DEF Acknowledge
<1>6. CASE UNCHANGED fvars
  BY <1>6 DEF fvars
<1>7. QED
  BY <1>1, <1>2, <1>3, <1>4, <1>5, <1>6 DEF Next

\* Every grant unit stays accounted for, and what the receiver must hold is
\* bounded, whatever Grant and MaxChunk are.
THEOREM FlowControlSafe == ASSUME Positive PROVE Spec => [](Conserved /\ Bounded)
<1>1. IInv => Conserved /\ Bounded
  BY DEF Positive, IInv, TypeOK, Conserved, Bounded
<1>2. QED
  BY InitIInv, NextIInv, <1>1, PTL DEF Spec
=============================================================================

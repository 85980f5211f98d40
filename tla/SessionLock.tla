---------------------------- MODULE SessionLock ----------------------------
(***************************************************************************)
(* What the lock of an AdbSync session promises its callers: operations    *)
(* hold the session one at a time, each once, in the order of the calls.   *)
(***************************************************************************)
CONSTANTS Ops,
          Free    \* not an operation

VARIABLES called,  \* operations that asked for the session
          before,  \* [Ops -> SUBSET Ops], the calls that came before each call
          holder,  \* the operation that has the session, or Free
          over     \* operations that gave it back

lvars == <<called, before, holder, over>>

Init == called = {} /\ before = [op \in Ops |-> {}] /\ holder = Free /\ over = {}

Request(op) ==
    /\ op \notin called
    /\ called' = called \cup {op}
    /\ before' = [before EXCEPT ![op] = called]
    /\ UNCHANGED <<holder, over>>

Grant(op) ==
    /\ op \in called \ over /\ holder = Free /\ before[op] \subseteq over
    /\ holder' = op
    /\ UNCHANGED <<called, before, over>>

Release(op) ==
    /\ holder = op
    /\ holder' = Free /\ over' = over \cup {op}
    /\ UNCHANGED <<called, before>>

Next == \E op \in Ops : Request(op) \/ Grant(op) \/ Release(op)

Spec == Init /\ [][Next]_lvars
=============================================================================

--------------------------- MODULE MCAdbHandshake ---------------------------
(* Instances of AdbHandshake for TLC. *)
EXTENDS AdbHandshake

CONSTANTS pem, old, new1

SomeItems ==
    {[v2 |-> NoItem, legacy |-> NoItem], [v2 |-> NoItem, legacy |-> old],
     [v2 |-> <<old, Corrupt, pem>>, legacy |-> NoItem]}

PemFiles == {pem}
Generated == {old, new1}
KnownKeys == {{pem}}
=============================================================================

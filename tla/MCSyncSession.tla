--------------------------- MODULE MCSyncSession ---------------------------
(* Instances of SyncSession for TLC. *)
EXTENDS SyncSession

CONSTANTS stat, list, pull, push, dry, quit

\* Every kind of operation, a push that asks for a dry run the device does not
\* support, and the close of the session.
MixedOps == {stat, list, pull, push, dry, quit}
MixedKind == (stat :> "stat") @@ (list :> "list") @@ (pull :> "pull")
               @@ (push :> "push") @@ (dry :> "push") @@ (quit :> "close")
=============================================================================

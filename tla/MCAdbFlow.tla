----------------------------- MODULE MCAdbFlow -----------------------------
(* An instance of AdbFlow for TLC: one stream, one write() of two chunks. *)
EXTENDS AdbFlow

CONSTANTS s1, w1

OneStream == {s1}
TheStream == s1
OneWriter == {w1}
OneWriterOf == (w1 :> s1)
OneWriterPayload == (w1 :> 3)
=============================================================================

-------------------------- MODULE MCAdbConnection --------------------------
(* Instances of AdbConnection for TLC. *)
EXTENDS AdbConnection

CONSTANTS s1, s2, w1, w2

\* One stream and one write() call of two chunks.
OneStream == {s1}
OneWriter == {w1}
OneWriterOf == (w1 :> s1)
OneWriterPayload == (w1 :> 3)

\* Two write() calls on one stream.
TwoWriters == {w1, w2}
SharedStreamOf == (w1 :> s1) @@ (w2 :> s1)
SharedPayload == (w1 :> 4) @@ (w2 :> 2)

\* Two streams, both write() calls on the first.
TwoStreams == {s1, s2}
=============================================================================

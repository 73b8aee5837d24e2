-------------------------- MODULE MCPublicSnapshot --------------------------
(* Viewers of one location, in one isolate or two. *)
EXTENDS PublicSnapshot
CONSTANTS r1, r2, i1, i2

OneReader == {r1}
TwoReaders == {r1, r2}
OneIsolate == {i1}
TwoIsolates == {i1, i2}
=============================================================================

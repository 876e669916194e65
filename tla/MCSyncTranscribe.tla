-------------------------- MODULE MCSyncTranscribe --------------------------
(* Instances of SyncTranscribe for TLC. *)
EXTENDS SyncTranscribe, TLC

CONSTANTS r1, w1, w2

OneJob == {1}
OneRecording == {r1}
OneJobOf == [j \in OneJob |-> r1]
Workers == {w1, w2}
WorkersAlike == Permutations(Workers)
=============================================================================

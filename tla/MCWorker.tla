------------------------------ MODULE MCWorker ------------------------------
(* Instances of TranscriptionWorker for TLC. *)
EXTENDS TranscriptionWorker, TLC

CONSTANTS r1, w1, w2

OneJob == {1}
TwoJobs == {1, 2}
OneRecording == {r1}
OneJobOf == [j \in OneJob |-> r1]
Together == [j \in TwoJobs |-> r1]
Workers == {w1, w2}
JustOne == {w1}
WorkersAlike == Permutations(Workers)
=============================================================================

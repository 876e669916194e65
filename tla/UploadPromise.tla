--------------------------- MODULE UploadPromise ---------------------------
(***************************************************************************)
(* What a resumable upload promises to its client, with nothing of how:    *)
(* the media enters the library at most once; the client is told "yes"     *)
(* only of media that is in the library, "no" only of media that is not    *)
(* and never will be, and what it was told is never taken back.            *)
(***************************************************************************)
EXTENDS Naturals

CONSTANT Session

VARIABLES copies,   \* how often the media of a session entered the library
          told      \* what the state of the session says about it

Answer == {"pending", "yes", "no", "unknown", "forgotten"}

Init == /\ copies = [u \in Session |-> 0]
        /\ told = [u \in Session |-> "pending"]

Store(u) == /\ told[u] = "pending" /\ copies[u] = 0
            /\ copies' = [copies EXCEPT ![u] = 1]
            /\ told' \in {told, [told EXCEPT ![u] = "unknown"]}

Confirm(u) == /\ told[u] = "pending" /\ copies[u] = 1
              /\ told' = [told EXCEPT ![u] = "yes"]
              /\ UNCHANGED copies

\* One statement may refuse several sessions: an init expires all overdue ones.
Refuse(S) == /\ \A u \in S : told[u] = "pending" /\ copies[u] = 0
             /\ told' = [u \in Session |-> IF u \in S THEN "no" ELSE told[u]]
             /\ UNCHANGED copies

Doubt(u) == /\ told[u] = "pending"
            /\ told' = [told EXCEPT ![u] = "unknown"]
            /\ UNCHANGED copies

Forget(u) == /\ told[u] \in {"yes", "no"}
             /\ told' = [told EXCEPT ![u] = "forgotten"]
             /\ UNCHANGED copies

Next == \/ \E u \in Session : Store(u) \/ Confirm(u) \/ Doubt(u) \/ Forget(u)
        \/ \E S \in SUBSET Session : Refuse(S)

Spec == Init /\ [][Next]_<<copies, told>>
=============================================================================

------------------------- MODULE MCLiveSession -------------------------
(***************************************************************************)
(* One Go at most: of a session that replaces an element, or of one that   *)
(* inserts, with one fault less.                                           *)
(***************************************************************************)
EXTENDS LiveSession

OneGo == /\ Cardinality(Used') <= 1
         /\ Used' \cap Inserts # {} => faults' < MaxFaults

OneGoSpec == Init /\ [][Next /\ OneGo]_vars /\ Fairness
=============================================================================

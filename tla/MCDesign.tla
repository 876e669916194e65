------------------------------- MODULE MCDesign -------------------------------
(***************************************************************************)
(* A design session while it lasts, and what is done about it afterwards:  *)
(* part says which of the two a behaviour is about, and the variables of   *)
(* the other keep one value.                                               *)
(***************************************************************************)
EXTENDS LiveSession, LiveRecovery

VARIABLE part

DesignInit ==
    /\ part \in {"session", "recovery"}
    /\ Init /\ RecoveryInit
    /\ part = "session" => ~owned

DesignNext ==
    /\ UNCHANGED part
    /\ \/ part = "session" /\ Next /\ UNCHANGED recoveryVars
       \/ part = "recovery" /\ RecoveryNext /\ UNCHANGED vars

DesignSpec == DesignInit /\ [][DesignNext]_<<part, vars, recoveryVars>>
=============================================================================

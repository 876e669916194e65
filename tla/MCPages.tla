------------------------------- MODULE MCPages -------------------------------
(***************************************************************************)
(* Six parts of the pages that do not read each other's state, each        *)
(* checked on its own: part says which one a behaviour is about, and the   *)
(* variables of the others keep one value.                                 *)
(***************************************************************************)
EXTENDS ReaderPage, LiveTargets, LiveEdits, LivePreview, LiveChat, LibraryPage

VARIABLE part

allVars == <<part, readerVars, targetVars, editVars, previewVars, chatVars, libraryVars>>

Reader  == part = "reader"
Targets == part = "targets"
Edits   == part = "edits"
Preview == part = "preview"
Chat    == part = "chat"
Library == part = "library"

\* Two targets, of which one tab lacks the elements, or one with all that can happen.
TargetScenario ==
    LET n == Cardinality({g \in Target : request[g].pending}) IN
    \/ n = 2 /\ trips = MaxTrips /\ goes = MaxGoes /\ lacks # {}
    \/ n = 1 /\ trips = 0 /\ goes = 0 /\ request["g"].pending

\* What another part's behaviours begin with, once.
Resting ==
    /\ Reader \/ summaries = {}
    /\ IF Targets THEN TargetScenario
                  ELSE unheard = {} /\ lacks = {} /\ trips = 0 /\ goes = 0
    /\ Library \/ Present = {}

\* Bounds how much is opened and started at the reader page in one behaviour.
ReaderBound == opens' + started' <= MaxOpens + MaxRuns - 1

\* Bounds loads and searches together.
LibraryBound == newestLoad' + newestSearch' <= MaxLoads

Init ==
    /\ part \in {"reader", "targets", "edits", "preview", "chat", "library"}
    /\ ReaderInit /\ TargetInit /\ EditInit /\ PreviewInit /\ ChatInit /\ LibraryPageInit
    /\ Resting

Next ==
    /\ UNCHANGED part
    /\ \/ Reader  /\ ReaderNext /\ ReaderBound
                  /\ UNCHANGED <<targetVars, editVars, previewVars, chatVars, libraryVars>>
       \/ Targets /\ TargetNext
                  /\ UNCHANGED <<readerVars, editVars, previewVars, chatVars, libraryVars>>
       \/ Edits   /\ EditNext
                  /\ UNCHANGED <<readerVars, targetVars, previewVars, chatVars, libraryVars>>
       \/ Preview /\ PreviewNext
                  /\ UNCHANGED <<readerVars, targetVars, editVars, chatVars, libraryVars>>
       \/ Chat    /\ ChatNext
                  /\ UNCHANGED <<readerVars, targetVars, editVars, previewVars, libraryVars>>
       \/ Library /\ LibraryPageNext /\ LibraryBound
                  /\ UNCHANGED <<readerVars, targetVars, editVars, previewVars, chatVars>>

Spec == Init /\ [][Next]_allVars
=============================================================================

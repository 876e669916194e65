----------------------------- MODULE ReaderPage -----------------------------
(***************************************************************************)
(* The reading view of the local web page (web/app.js, web/async_state.js, *)
(* web/api.js): opening a transcript, its exports, and the summary that is *)
(* generated while the user may go on to another transcript.               *)
(*                                                                         *)
(* A recording is named by its transcript.  What handlers do between two   *)
(* awaits is one step; answers arrive in any order.  An aborted request is *)
(* one whose answer finds itself superseded.                               *)
(***************************************************************************)
EXTENDS Integers, FiniteSets

CONSTANTS Transcript,
          MaxOpens,   \* bound: how often the reader is opened
          MaxRuns     \* bound: summaries and exports asked for

None == 0

ASSUME ReaderAssumption == None \notin Transcript /\ MaxOpens \in Nat /\ MaxRuns \in Nat

VARIABLES summaries,   \* the transcripts that have a summary at the server
          artifacts,   \* the transcripts that have an export at the server
          asks,        \* requests in flight
          opens,       \* readerRequest.generation
          context,     \* state.readerContext, and when it was opened
          rendered,       \* the transcript that renderReader has put on the page
          exports,     \* the transcript whose exports are listed, and what is listed
          scopes,      \* exportRequests: the number of each transcript's latest request
          panel,       \* the summary's panel, see PanelType
          started         \* how many summaries and exports were asked for

readerVars == <<summaries, artifacts, asks, opens, context, rendered, exports, scopes, panel, started>>
ofServer == <<summaries, artifacts>>

NoContext == [t |-> None, opened |-> 0]
Reset == [content |-> None, note |-> "none", of |-> None, busy |-> FALSE, timer |-> FALSE]

PanelType == [content : Transcript \cup {None},   \* whose summary is rendered
              note : {"none", "progress", "error"},   \* the indicator
              of : Transcript \cup {None},            \* what the indicator speaks of
              busy : BOOLEAN,                         \* the button is disabled
              timer : BOOLEAN]

AskType == [kind : {"transcripts", "exports", "summary", "generate", "final", "create", "list"},
            t : Transcript, opened : 0..MaxOpens, run : 0..MaxRuns]

Ask(kind, t, opened, run) == [kind |-> kind, t |-> t, opened |-> opened, run |-> run]

ReaderInit ==
    /\ summaries \in SUBSET Transcript /\ artifacts = {}
    /\ asks = {} /\ opens = 0 /\ context = NoContext /\ rendered = None
    /\ exports = [t |-> None, there |-> FALSE, pressed |-> FALSE]
    /\ scopes = [t \in Transcript |-> 0]
    /\ panel = Reset /\ started = 0

-----------------------------------------------------------------------------
(* LatestRequest.                                                          *)

\* Mutant of IsCurrent: only an aborted request is superseded, and none is.
NeverSuperseded(generation, token) == TRUE

\* isCurrent: no later request of the scope was begun
IsCurrent(generation, token) == token = generation

\* isReaderContextCurrent, for a context captured earlier
ContextIs(r) == context = [t |-> r.t, opened |-> r.opened] /\ IsCurrent(opens, r.opened)

Drops(r) == asks' = asks \ {r}
Turns(r, s) == asks' = (asks \ {r}) \cup {s}

-----------------------------------------------------------------------------
(* Opening a transcript: two answers, and then the summary.                *)

OpenReader(t) ==
    /\ opens < MaxOpens
    /\ opens' = opens + 1 /\ context' = NoContext
    /\ asks' = asks \cup {Ask("transcripts", t, opens + 1, 0)}
    /\ UNCHANGED <<rendered, exports, scopes, panel, started>> /\ UNCHANGED ofServer

TranscriptsAnswered(r) ==
    /\ r.kind = "transcripts"
    /\ IF IsCurrent(opens, r.opened) THEN Turns(r, [r EXCEPT !.kind = "exports"]) ELSE Drops(r)
    /\ UNCHANGED <<opens, context, rendered, exports, scopes, panel, started>> /\ UNCHANGED ofServer

Lists(t) == exports' = [t |-> t, there |-> t \in artifacts, pressed |-> FALSE]

\* renderReader, and resetSummaryUI at the beginning of loadSummary
Renders(t) == rendered' = t /\ Lists(t) /\ panel' = Reset

ExportsAnswered(r) ==
    /\ r.kind = "exports"
    /\ IF IsCurrent(opens, r.opened)
       THEN /\ context' = [t |-> r.t, opened |-> r.opened] /\ Renders(r.t)
            /\ Turns(r, [r EXCEPT !.kind = "summary"])
       ELSE Drops(r) /\ UNCHANGED <<context, rendered, exports, panel>>
    /\ UNCHANGED <<opens, scopes, started>> /\ UNCHANGED ofServer

\* no transcript, a recording deleted meanwhile, or a failed request
OpenFails(r) ==
    /\ r.kind \in {"transcripts", "exports"} /\ Drops(r)
    /\ UNCHANGED <<opens, context, rendered, exports, scopes, panel, started>> /\ UNCHANGED ofServer

\* renderSummary
Rendered(t) == [Reset EXCEPT !.content = t]

\* the check that the reader still has the transcript open
OfReader(t) == context.t = t

SummaryAnswered(r) ==
    /\ r.kind = "summary" /\ Drops(r)
    /\ panel' = IF IsCurrent(opens, r.opened) /\ OfReader(r.t) /\ r.t \in summaries
                THEN Rendered(r.t) ELSE panel
    /\ UNCHANGED <<opens, context, rendered, exports, scopes, started>> /\ UNCHANGED ofServer

-----------------------------------------------------------------------------
(* Generating a summary.                                                   *)

OnPanel == UNCHANGED <<opens, context, rendered, exports, scopes>>

GenerateSummary ==
    /\ context.t # None /\ ~panel.busy /\ started < MaxRuns
    /\ started' = started + 1
    /\ panel' = [panel EXCEPT !.busy = TRUE, !.note = "progress", !.of = context.t,
                              !.timer = TRUE]
    /\ asks' = asks \cup {Ask("generate", context.t, 0, started + 1)}
    /\ OnPanel /\ UNCHANGED ofServer

\* onProgress
Progresses(r) ==
    /\ r.kind = "generate" /\ OfReader(r.t)
    /\ panel' = [panel EXCEPT !.note = "progress", !.of = r.t]
    /\ OnPanel /\ UNCHANGED <<asks, started>> /\ UNCHANGED ofServer

\* the timer is stopped whoever started it
Generated(t) == IF OfReader(t) THEN Rendered(t) ELSE [panel EXCEPT !.timer = FALSE]

\* Mutant of Failed: the button stays as it is.
FailedOnly(t) == [panel EXCEPT !.note = "error", !.of = t, !.timer = FALSE]

\* the catch of handleGenerateSummary asks for no reader
Failed(t) == [panel EXCEPT !.note = "error", !.of = t, !.timer = FALSE, !.busy = FALSE]

GenerationCompletes(r) ==
    /\ r.kind = "generate" /\ Drops(r)
    /\ summaries' = summaries \cup {r.t}
    /\ panel' = Generated(r.t)
    /\ OnPanel /\ UNCHANGED <<started, artifacts>>

\* The server reports an error: it is thrown, unless the reader has moved on.
\* Then, or when the answer has no summary, the summary is asked for.
GenerationEnds(r) ==
    /\ r.kind = "generate"
    /\ \/ Turns(r, [r EXCEPT !.kind = "final"]) /\ panel' = [panel EXCEPT !.timer = FALSE]
       \/ OfReader(r.t) /\ Drops(r) /\ panel' = Failed(r.t)
    /\ OnPanel /\ UNCHANGED started /\ UNCHANGED ofServer

FinalAnswered(r) ==
    /\ r.kind = "final" /\ Drops(r)
    /\ panel' = IF r.t \in summaries
                THEN IF OfReader(r.t) THEN Rendered(r.t) ELSE panel
                ELSE Failed(r.t)
    /\ OnPanel /\ UNCHANGED started /\ UNCHANGED ofServer

GenerationFails(r) ==
    /\ r.kind \in {"generate", "final"} /\ Drops(r)
    /\ panel' = Failed(r.t)
    /\ OnPanel /\ UNCHANGED started /\ UNCHANGED ofServer

-----------------------------------------------------------------------------
(* Exporting.  One request at a time counts for each transcript; a later   *)
(* one, after the transcript was opened again, supersedes it.              *)

OnExports == UNCHANGED <<opens, context, rendered, panel, started>>

CreateExport ==
    /\ context.t # None /\ ~exports.there /\ ~exports.pressed
    /\ started < MaxRuns /\ started' = started + 1
    /\ scopes' = [scopes EXCEPT ![context.t] = started + 1]
    /\ exports' = [exports EXCEPT !.pressed = TRUE]
    /\ asks' = asks \cup {Ask("create", context.t, context.opened, started + 1)}
    /\ UNCHANGED <<opens, context, rendered, panel>> /\ UNCHANGED ofServer

ExportMade(r) ==
    /\ r.kind = "create"
    /\ artifacts' = artifacts \cup {r.t}
    /\ IF IsCurrent(scopes[r.t], r.run) /\ ContextIs(r)
       THEN Turns(r, [r EXCEPT !.kind = "list"]) ELSE Drops(r)
    /\ OnExports /\ UNCHANGED <<summaries, exports, scopes>>

ExportsListed(r) ==
    /\ r.kind = "list" /\ Drops(r)
    /\ IF IsCurrent(scopes[r.t], r.run) /\ ContextIs(r) THEN Lists(r.t) ELSE UNCHANGED exports
    /\ OnExports /\ UNCHANGED scopes /\ UNCHANGED ofServer

ExportFails(r) ==
    /\ r.kind \in {"create", "list"} /\ Drops(r)
    /\ exports' = IF IsCurrent(scopes[r.t], r.run) /\ ContextIs(r)
                  THEN [exports EXCEPT !.pressed = FALSE] ELSE exports
    /\ OnExports /\ UNCHANGED scopes /\ UNCHANGED ofServer

-----------------------------------------------------------------------------
Ends(r) == \/ TranscriptsAnswered(r) \/ ExportsAnswered(r) \/ OpenFails(r) \/ SummaryAnswered(r)
           \/ GenerationCompletes(r) \/ GenerationEnds(r) \/ FinalAnswered(r) \/ GenerationFails(r)
           \/ ExportMade(r) \/ ExportsListed(r) \/ ExportFails(r)

ReaderNext ==
    \/ GenerateSummary \/ CreateExport
    \/ \E t \in Transcript : OpenReader(t)
    \/ \E r \in asks : Progresses(r) \/ Ends(r)

ReaderSpec == ReaderInit /\ [][ReaderNext]_readerVars

-----------------------------------------------------------------------------
(* Properties.                                                             *)

ReaderTypeOK ==
    /\ asks \subseteq AskType /\ panel \in PanelType /\ opens \in 0..MaxOpens
    /\ context \in [t : Transcript \cup {None}, opened : 0..MaxOpens]
    /\ started \in 0..MaxRuns /\ scopes \in [Transcript -> 0..MaxRuns]

\* Whatever finishes after the user has moved on: the page has the transcript he
\* opened last, and the summary, the progress and the exports on it are of that
\* transcript.  (An error message need not be: see Failed.)
NothingForeignIsShown ==
    /\ context.t \in {None, rendered} /\ context.opened \in {0, opens}
    /\ exports.t = rendered
    /\ panel.content \in {None, rendered}
    /\ panel.note = "progress" => panel.of = rendered

\* A button that is disabled while its transcript is being read has a request
\* under way whose end, with an answer or an error, enables it again.
ButtonsComeBack ==
    context # NoContext =>
        /\ panel.busy => \E r \in asks : r.kind \in {"generate", "final"} /\ OfReader(r.t)
        /\ exports.pressed => \E r \in asks :
              r.kind \in {"create", "list"} /\ ContextIs(r) /\ IsCurrent(scopes[r.t], r.run)
=============================================================================

---------------------------- MODULE LiveEdits ----------------------------
(***************************************************************************)
(* Copy edits in the page (live-browser.js): the user types into the text  *)
(* of an element, saves the edits into the helper's stash, and applies     *)
(* what is staged to the source files, which an agent does.  While it      *)
(* does, the page is frozen; the helper's events say how it goes on.       *)
(*                                                                         *)
(* One tab; other tabs of the page are actions of the helper.  The helper  *)
(* is external, and so are the words of an answer that the page ignores.   *)
(***************************************************************************)
EXTENDS Naturals, Sequences, FiniteSets

CONSTANTS Row,         \* the texts of the page that can be edited
          MaxTypings,  \* bound: how often the user types
          MaxTroubles, \* bound: reloads, lost answers and streams, edits of other tabs
          MaxEvents,   \* bound: events on their way
          MaxWires     \* bound: requests under way when the user makes another

ASSUME EditAssumption == IsFiniteSet(Row)

VARIABLES editor,   \* the inline edit, see EditorType
          text,     \* [Row -> what the page shows]
          dock,     \* the pill that applies the edits, see DockType
          storedApply, \* the phase in sessionStorage
          wires,    \* the requests and their answers
          feed,     \* the events on their way to the page
          stash,    \* the rows with a staged edit, at the helper
          work,     \* what the helper does with them
          missed,   \* the page lost an event, or an answer that ends the apply
          stranded, \* the freeze began while a decision was awaited
          typings, troubles

editVars == <<editor, text, dock, storedApply, wires, feed, stash, work, missed, stranded,
              typings, troubles>>
helperSide == <<stash, work>>
counted == <<typings, troubles>>
history == <<missed, stranded>>

NoPhase == "none"

\* lost: typed after Save and no longer remembered as a draft
Text == {"source", "saved", "typed", "saving", "lost"}

EditorType == [mode   : {"picking", "configuring", "editing"},
               on     : BOOLEAN,                \* inlineEditRows is not empty
               drafts : SUBSET Row,             \* inlineEditDrafts
               was    : [Row -> Text]]          \* originalText

DockType == [frozen : BOOLEAN,                  \* pendingApplyInFlight
             count  : 0 .. Cardinality(Row),    \* the pill's data-count
             decide : BOOLEAN,                  \* Keep fixing and Rollback are shown
             trash  : BOOLEAN,                  \* the trash button is shown
             usable : BOOLEAN,                  \* and is not disabled
             enabled : BOOLEAN]                 \* the pill can be pressed

WireType == [kind : {"save", "count", "commit", "discard", "keep", "rollback"},
             at   : {"out", "orphan", "ok", "bad"},
             n    : 0 .. Cardinality(Row), rows : SUBSET Row]

Wire(kind, rows) == [kind |-> kind, at |-> "out", n |-> 0, rows |-> rows]
News(type, n) == [type |-> type, n |-> n]

EditTypeOK ==
    /\ editor \in EditorType /\ text \in [Row -> Text] /\ dock \in DockType
    /\ storedApply \in {NoPhase, "applying", "verifying", "repairing", "repair-decision"}
    /\ wires \subseteq WireType /\ stash \subseteq Row
    /\ work \in {"idle", "applying", "repairing", "deciding"}
    /\ typings \in 0 .. MaxTypings /\ troubles \in 0 .. MaxTroubles

NoEditor == [mode |-> "picking", on |-> FALSE, drafts |-> {}, was |-> [r \in Row |-> "source"]]
NoDock == [frozen |-> FALSE, count |-> 0, decide |-> FALSE, trash |-> FALSE,
           usable |-> TRUE, enabled |-> TRUE]

EditInit ==
    /\ editor = NoEditor /\ text = [r \in Row |-> "source"]
    /\ dock = NoDock /\ storedApply = NoPhase
    /\ wires = {Wire("count", {})} /\ feed = <<>>
    /\ stash = {} /\ work = "idle"
    /\ missed = FALSE /\ stranded = FALSE /\ typings = 0 /\ troubles = 0

-----------------------------------------------------------------------------
(* The dock.  A view is what its functions change: the dock, the phase     *)
(* that is stored, and whether the freeze is one without a way out.        *)

View == [dock |-> dock, phase |-> storedApply, stranded |-> stranded]

Draws(v) == dock' = v.dock /\ storedApply' = v.phase /\ stranded' = v.stranded

\* hidePendingApplyDock
Hidden(v) == [dock |-> NoDock, phase |-> NoPhase, stranded |-> FALSE]

\* setPendingApplyLoading(true), which keeps the phase that is stored
Freezes(v) ==
    [dock |-> [v.dock EXCEPT !.frozen = TRUE, !.decide = FALSE, !.trash = TRUE,
                             !.usable = FALSE, !.enabled = FALSE],
     phase |-> IF v.phase = NoPhase THEN "applying" ELSE v.phase,
     stranded |-> v.stranded \/ (~v.dock.frozen /\ v.phase = "repair-decision")]

\* setPendingApplyLoading(false)
Thaws(v) ==
    [dock |-> [v.dock EXCEPT !.frozen = FALSE, !.usable = TRUE, !.enabled = TRUE],
     phase |-> NoPhase, stranded |-> FALSE]

\* updatePendingCounter
CountsTo(v, n) ==
    IF n = 0 THEN Hidden(v)
    ELSE LET w == [v EXCEPT !.dock.count = n, !.dock.trash = TRUE] IN
         IF v.dock.frozen \/ v.phase # NoPhase THEN Freezes(w) ELSE w

\* storeManualApplyState with a phase; resetManualApplyProgress
Phase(v, phase) == [v EXCEPT !.phase = phase]

\* updateManualApplyRepairState
Repairs(v) ==
    IF v.dock.count = 0 /\ v.phase = NoPhase THEN v
    ELSE Freezes(Phase(v, "repairing"))

\* showManualApplyDecision
AsksUser(v) ==
    [dock |-> [v.dock EXCEPT !.frozen = FALSE, !.decide = TRUE, !.trash = FALSE,
                             !.enabled = FALSE],
     phase |-> "repair-decision", stranded |-> FALSE]

\* Mutant of Done: the flag is cleared after the counter is updated, by the
\* counter itself when nothing remains.
DoneInPlace(v, n) == CountsTo(v, n)

\* manual_edit_commit_done: the flag is cleared before the counter is updated
Done(v, n) == CountsTo(Thaws(v), n)

-----------------------------------------------------------------------------
(* The editor.                                                             *)

OnEditor == UNCHANGED <<dock, storedApply, wires, feed>> /\ UNCHANGED helperSide /\ UNCHANGED history

\* the click on an element, and on one outside of it
Picks ==
    /\ ~dock.frozen
    /\ \/ editor.mode = "picking" /\ editor' = [editor EXCEPT !.mode = "configuring"]
       \/ editor.mode = "configuring" /\ editor' = [editor EXCEPT !.mode = "picking"]
    /\ UNCHANGED text /\ OnEditor /\ UNCHANGED counted

\* enterEditingMode, enableInlineEdit
EntersEditing ==
    /\ ~dock.frozen /\ editor.mode = "configuring"
    /\ editor' = [mode |-> "editing", on |-> TRUE, drafts |-> {}, was |-> text]
    /\ UNCHANGED text /\ OnEditor /\ UNCHANGED counted

\* onInlineInput
Types(r) ==
    /\ editor.on /\ typings < MaxTypings /\ typings' = typings + 1
    /\ editor' = [editor EXCEPT !.drafts = @ \cup {r}]
    /\ text' = [text EXCEPT ![r] = "typed"]
    /\ OnEditor /\ UNCHANGED troubles

\* Escape in the text itself
EscapesRow(r) ==
    /\ editor.on
    /\ editor' = [editor EXCEPT !.drafts = @ \ {r}]
    /\ text' = [text EXCEPT ![r] = editor.was[r]]
    /\ OnEditor /\ UNCHANGED counted

\* Mutant of Restored: inline editing is disabled first, which forgets the drafts.
RestoredTooLate(drafts) == text

\* restoreInlineEditDrafts
Restored(drafts) == [r \in Row |-> IF r \in drafts THEN editor.was[r] ELSE text[r]]

\* disableInlineEdit after it
LeavesFor(mode) ==
    /\ text' = Restored(editor.drafts)
    /\ editor' = [NoEditor EXCEPT !.mode = mode]

\* cancelEditing (the button; Escape, unless the page is frozen), the click
\* outside of the element, and what hides the bar: the toggles of the bar,
\* which leave the state as it is
CancelsEditing ==
    /\ editor.mode = "editing"
    /\ \/ LeavesFor("configuring")
       \/ ~dock.frozen /\ LeavesFor("picking")
       \/ ~dock.frozen /\ LeavesFor("editing")
    /\ OnEditor /\ UNCHANGED counted

-----------------------------------------------------------------------------
(* The page's requests.                                                    *)

Idle(kind) == /\ Cardinality(wires) < MaxWires
              /\ \A w \in wires : w.kind # kind

Requests(kind, rows) == wires' = wires \cup {Wire(kind, rows)}

\* applyEditing: the rows whose text has changed, or the end of the editing
Saves ==
    LET rows == {r \in editor.drafts : text[r] # editor.was[r]} IN
    /\ ~dock.frozen /\ editor.on /\ Idle("save")
    /\ IF rows = {} THEN LeavesFor("configuring") /\ UNCHANGED wires
       ELSE /\ text' = [r \in Row |-> IF r \in rows THEN "saving" ELSE text[r]]
            /\ Requests("save", rows) /\ UNCHANGED editor
    /\ UNCHANGED <<dock, storedApply, feed>> /\ UNCHANGED helperSide
    /\ UNCHANGED history /\ UNCHANGED counted

OnRequest == UNCHANGED <<editor, text, feed>> /\ UNCHANGED helperSide /\ UNCHANGED missed
             /\ UNCHANGED counted

\* onPendingPillClick, with resetManualApplyProgress
Applies ==
    /\ dock.enabled /\ dock.count > 0 /\ ~dock.frozen /\ Idle("commit")
    /\ Draws(Freezes(Phase(View, "applying"))) /\ Requests("commit", {})
    /\ OnRequest

\* onPendingTrashClick: the button is hidden when a decision is asked for, until
\* the counter is updated, and stays disabled if the page was frozen then
Discards ==
    /\ dock.trash /\ dock.usable /\ dock.count > 0 /\ ~dock.frozen /\ Idle("discard")
    /\ Requests("discard", {})
    /\ UNCHANGED <<dock, storedApply, stranded>> /\ OnRequest

\* onPendingKeepFixingClick
KeepsFixing ==
    /\ dock.decide /\ dock.count > 0 /\ Idle("keep") /\ Idle("rollback")
    /\ Draws(Repairs(View)) /\ Requests("keep", {})
    /\ OnRequest

\* onPendingRollbackClick
RollsBack ==
    /\ dock.decide /\ Idle("rollback") /\ Idle("keep")
    /\ Requests("rollback", {})
    /\ UNCHANGED <<dock, storedApply, stranded>> /\ OnRequest

-----------------------------------------------------------------------------
(* Their answers.                                                          *)

Heard(w) == wires' = wires \ {w}

\* the rest of applyEditing: what was typed since is no draft any more
SaveAnswered(w) ==
    /\ w.kind = "save" /\ Heard(w)
    /\ IF w.at = "ok"
       THEN /\ Draws(CountsTo(View, w.n))
            /\ editor' = [NoEditor EXCEPT !.mode = "configuring"]
            /\ text' = [r \in Row |-> IF text[r] = "saving" THEN "saved"
                                      ELSE IF text[r] = "typed" THEN "lost" ELSE text[r]]
       ELSE /\ text' = [r \in Row |-> IF text[r] = "saving" THEN "typed" ELSE text[r]]
            /\ UNCHANGED <<editor, dock, storedApply, stranded>>
    /\ UNCHANGED <<feed, missed>>

OffEditor == UNCHANGED <<editor, text, feed, missed>>

\* fetchPendingCount
CountAnswered(w) ==
    /\ w.kind = "count" /\ Heard(w)
    /\ Draws(IF w.at = "ok" THEN CountsTo(View, w.n) ELSE View)
    /\ OffEditor

\* the end of onPendingPillClick, unless the helper has started: "started" is
\* an answer n > 0
CommitAnswered(w) ==
    /\ w.kind = "commit" /\ Heard(w)
    /\ LET v == IF w.at = "ok" THEN CountsTo(View, w.n) ELSE View IN
       Draws(IF w.at = "ok" /\ w.n > 0 THEN View
             ELSE IF v.dock.count > 0 THEN Thaws(v) ELSE Hidden(v))
    /\ OffEditor

\* restoreDiscardedManualEdits: a text that is not the edited one is left alone
DiscardAnswered(w) ==
    /\ w.kind = "discard" /\ Heard(w)
    /\ IF w.at = "ok"
       THEN /\ text' = [r \in Row |-> IF r \in w.rows /\ text[r] = "saved" THEN "source" ELSE text[r]]
            /\ Draws(CountsTo(View, 0))
       ELSE UNCHANGED <<text, dock, storedApply, stranded>>
    /\ UNCHANGED <<editor, feed, missed>>

KeepAnswered(w) ==
    /\ w.kind = "keep" /\ Heard(w)
    /\ Draws(IF w.at = "ok" THEN [View EXCEPT !.dock.decide = FALSE, !.dock.trash = TRUE]
             ELSE AsksUser(View))
    /\ OffEditor

RollbackAnswered(w) ==
    /\ w.kind = "rollback" /\ Heard(w)
    /\ Draws(IF w.at = "ok" THEN CountsTo(Phase(View, NoPhase), w.n) ELSE View)
    /\ OffEditor

PageHears(w) ==
    /\ w \in wires /\ w.at \in {"ok", "bad"}
    /\ \/ SaveAnswered(w) \/ CountAnswered(w) \/ CommitAnswered(w)
       \/ DiscardAnswered(w) \/ KeepAnswered(w) \/ RollbackAnswered(w)
    /\ UNCHANGED helperSide /\ UNCHANGED counted

-----------------------------------------------------------------------------
(* handleManualEditActivity.                                               *)

Refetches == wires' = wires \cup {Wire("count", {})}

NewsArrives ==
    LET e == Head(feed) IN
    /\ feed # <<>> /\ feed' = Tail(feed)
    /\ CASE e.type = "stashed" -> Draws(CountsTo(View, e.n))
         [] e.type = "started" -> Draws(Freezes(Phase(CountsTo(View, e.n), "applying")))
         [] e.type = "restarted" -> Draws(Freezes(Repairs(CountsTo(View, e.n))))
         [] e.type = "chunk" -> Draws(IF dock.frozen THEN Freezes(Phase(View, "verifying")) ELSE View)
         [] e.type = "repair" -> Draws(Repairs(View))
         [] e.type = "decide" -> Draws(AsksUser(View))
         [] e.type = "rolledback" -> Draws(Phase(View, NoPhase))
         [] e.type = "done" -> Draws(Done(View, e.n))
         [] e.type = "failed" -> Draws(Thaws(View))
         [] e.type = "discarded" -> Draws(View)
    /\ IF e.type \in {"rolledback", "failed", "discarded"} THEN Refetches ELSE UNCHANGED wires
    /\ UNCHANGED <<editor, text, missed>> /\ UNCHANGED helperSide /\ UNCHANGED counted

-----------------------------------------------------------------------------
(* The helper.  One apply at a time; what it refuses, it refuses.          *)

Announces(type, n) == feed' = Append(feed, News(type, n))
FeedHasRoom == Len(feed) < MaxEvents

Replies(w, at, n, rows) ==
    wires' = (wires \ {w}) \cup
             (IF w.at = "orphan" THEN {} ELSE {[w EXCEPT !.at = at, !.n = n, !.rows = rows]})

Refuses(w) == Replies(w, "bad", 0, {}) /\ UNCHANGED <<stash, work, feed>>

StashSaves(rows) ==
    /\ stash' = stash \cup rows /\ UNCHANGED work
    /\ Announces("stashed", Cardinality(stash \cup rows))

CommitStarts == /\ work = "idle" /\ stash # {}
                /\ work' = "applying" /\ Announces("started", Cardinality(stash)) /\ UNCHANGED stash

StashDiscards == /\ work = "idle"
                 /\ stash' = {} /\ Announces("discarded", 0) /\ UNCHANGED work

RepairStarts == /\ work = "deciding"
                /\ work' = "repairing" /\ Announces("restarted", Cardinality(stash)) /\ UNCHANGED stash

RollbackDone == /\ work = "deciding"
                /\ work' = "idle" /\ Announces("rolledback", 0) /\ UNCHANGED stash

HelperGets(w) ==
    LET n == Cardinality(stash) IN
    /\ w \in wires /\ w.at \in {"out", "orphan"}
    /\ \/ w.kind = "save" /\ StashSaves(w.rows) /\ Replies(w, "ok", Cardinality(stash'), w.rows)
       \/ w.kind = "count" /\ Replies(w, "ok", n, {}) /\ UNCHANGED <<stash, work, feed>>
       \/ w.kind = "commit" /\ CommitStarts /\ Replies(w, "ok", n, {})
       \/ w.kind = "commit" /\ stash = {} /\ Replies(w, "ok", 0, {}) /\ UNCHANGED <<stash, work, feed>>
       \/ w.kind = "discard" /\ StashDiscards /\ Replies(w, "ok", 0, stash)
       \/ w.kind = "keep" /\ RepairStarts /\ Replies(w, "ok", 0, {})
       \/ w.kind = "rollback" /\ RollbackDone /\ Replies(w, "ok", n, {})
       \/ /\ \/ w.kind \in {"commit", "discard"} /\ work # "idle"
             \/ w.kind \in {"keep", "rollback"} /\ work # "deciding"
          /\ Refuses(w)
    /\ FeedHasRoom
    /\ missed' = (missed \/ (w.at = "orphan" /\ w.kind \in {"commit", "keep"} /\ work' = work))
    /\ UNCHANGED <<editor, text, dock, storedApply, stranded>> /\ UNCHANGED counted

\* The agent's word: part of the edits, a repair of them (three at most), a
\* question to the user, the edits that could not be applied, or a failure.
\* The hot reload shows an edit that was applied as the source it is now.
HelperWorks ==
    /\ work \in {"applying", "repairing"} /\ FeedHasRoom
    /\ \/ /\ work = "applying" /\ Announces("chunk", 0) /\ UNCHANGED <<stash, work, text>>
       \/ /\ work = "applying" /\ work' = "repairing" /\ Announces("repair", 0)
          /\ UNCHANGED <<stash, text>>
       \/ /\ work = "repairing" /\ work' = "deciding" /\ Announces("decide", 0)
          /\ UNCHANGED <<stash, text>>
       \/ /\ work' = "idle" /\ Announces("failed", 0) /\ UNCHANGED <<stash, text>>
       \/ \E failed \in SUBSET stash :
             /\ work' = "idle" /\ stash' = failed /\ Announces("done", Cardinality(failed))
             /\ text' = [r \in Row |-> IF r \in stash \ failed /\ text[r] = "saved"
                                       THEN "source" ELSE text[r]]
    /\ UNCHANGED <<editor, dock, storedApply, wires>> /\ UNCHANGED history /\ UNCHANGED counted

-----------------------------------------------------------------------------
(* Trouble.                                                                *)

Troubled == troubles < MaxTroubles /\ troubles' = troubles + 1 /\ UNCHANGED typings

OtherTab ==
    /\ Troubled /\ FeedHasRoom
    /\ \/ CommitStarts \/ StashDiscards \/ RepairStarts \/ RollbackDone
       \/ \E r \in Row : StashSaves({r})
    /\ UNCHANGED <<editor, text, dock, storedApply, wires>> /\ UNCHANGED history

AnswerLost(w) ==
    /\ Troubled /\ w \in wires /\ w.at \in {"out", "ok"}
    /\ wires' = (wires \ {w}) \cup {[w EXCEPT !.at = "bad"]}
    /\ UNCHANGED <<editor, text, dock, storedApply, feed>> /\ UNCHANGED helperSide
    /\ UNCHANGED history

\* the stream breaks and comes back: nothing is asked for again
FeedBreaks ==
    /\ Troubled /\ feed # <<>>
    /\ feed' = <<>> /\ missed' = TRUE
    /\ UNCHANGED <<editor, text, dock, storedApply, wires, stranded>> /\ UNCHANGED helperSide

\* no event follows the answer
Unstarted(w) == w.at = "bad" \/ (w.kind = "commit" /\ w.n = 0)

\* init: what was sent may still arrive, and the stash is asked for its count
PageReloads ==
    /\ Troubled
    /\ editor' = NoEditor /\ text' = [r \in Row |-> "source"] /\ dock' = NoDock
    /\ wires' = {[w EXCEPT !.at = "orphan"] :
                     w \in {x \in wires : x.kind # "count" /\ x.at \in {"out", "orphan"}}}
                \cup {Wire("count", {})}
    /\ feed' = <<>> /\ UNCHANGED stranded
    /\ missed' = (missed \/ feed # <<>> \/ \E w \in wires : w.at \in {"ok", "bad"} /\ Unstarted(w))
    /\ UNCHANGED storedApply /\ UNCHANGED helperSide

\* MANUAL_APPLY_STATE_TTL_MS
PhaseExpires ==
    /\ Troubled /\ storedApply # NoPhase /\ storedApply' = NoPhase
    /\ UNCHANGED <<editor, text, dock, wires, feed>> /\ UNCHANGED helperSide /\ UNCHANGED history

-----------------------------------------------------------------------------
EditNext ==
    \/ Picks \/ EntersEditing \/ CancelsEditing \/ Saves
    \/ \E r \in Row : Types(r) \/ EscapesRow(r)
    \/ Applies \/ Discards \/ KeepsFixing \/ RollsBack
    \/ NewsArrives \/ HelperWorks \/ OtherTab \/ FeedBreaks \/ PageReloads \/ PhaseExpires
    \/ \E w \in wires : HelperGets(w) \/ PageHears(w) \/ AnswerLost(w)

EditSpec == EditInit /\ [][EditNext]_editVars

-----------------------------------------------------------------------------
\* What the user types is in the page only while it is edited and remembered as
\* a draft: however the editing ends, the text is restored, unless it was saved.
\* (What is typed while a save is under way is lost track of: see SaveAnswered.)
NothingTypedIsLeft ==
    \A r \in Row : text[r] \in {"typed", "saving"} => editor.on /\ r \in editor.drafts

\* The page is not frozen for nothing ("picker frozen forever"): the helper is
\* at work, or word of it is on its way.  Excepted are an event that was lost
\* with its connection or a reload (the phase in sessionStorage then freezes the page again), and a freeze that hides the question it waits for.
FreezeHasAReason ==
    dock.frozen => \/ work # "idle" \/ feed # <<>> \/ wires # {}
                   \/ missed \/ stranded

\* What the reference of the design tool says: the user is asked before a rollback.
\* Where the helper waits for the decision, the page shows the buttons.
DecisionCanBeMade ==
    work = "deciding" /\ feed = <<>> /\ wires = {} /\ ~missed => dock.decide

\* Where edits are staged and nothing is under way, they can be applied.
EditsCanBeApplied ==
    work = "idle" /\ feed = <<>> /\ wires = {} /\ dock.count > 0 => dock.enabled
=============================================================================

----------------------------- MODULE PageProofs -----------------------------
(***************************************************************************)
(* Theorems about the six parts of the pages that MCPages checks on small  *)
(* instances: the reader, the list and the search of the library, and the  *)
(* chat, the copy edits, the component previews and the agent's targets of *)
(* the design tool.  They share no state; each has an invariant.           *)
(***************************************************************************)
EXTENDS ReaderPage, LibraryPage, LiveChat, LiveEdits, LivePreview, LiveTargets, FiniteSetTheorems, TLAPS

(* The reader, for every number of transcripts, of openings and of runs.   *)

\* What is on the page is of the transcript that was opened last.
ReaderIInv == ReaderTypeOK /\ NothingForeignIsShown

\* A request that goes on, and one that ends, leave well-typed requests.
LEMMA AsksStayTyped ==
    ASSUME asks \subseteq AskType, NEW r \in asks,
           NEW k \in {"exports", "summary", "final", "list"},
           \/ Drops(r) \/ Turns(r, [r EXCEPT !.kind = k])
    PROVE  asks' \subseteq AskType
  <1>1. [r EXCEPT !.kind = k] \in AskType
    BY DEF AskType
  <1> QED
    BY <1>1 DEF Drops, Turns

\* The panels a handler leaves are panels.
LEMMA PanelsAreTyped ==
    ASSUME panel \in PanelType, NEW t \in Transcript
    PROVE  Reset \in PanelType /\ Rendered(t) \in PanelType
           /\ Generated(t) \in PanelType /\ Failed(t) \in PanelType
  BY DEF Reset, Rendered, Generated, Failed, PanelType

\* A page that was just loaded shows nothing.
THEOREM InitReader == ReaderInit => ReaderIInv
  <1> SUFFICES ASSUME ReaderInit PROVE ReaderIInv
    OBVIOUS
  <1>1. opens \in 0..MaxOpens /\ started \in 0..MaxRuns
        /\ scopes \in [Transcript -> 0..MaxRuns] /\ asks \subseteq AskType
    BY ReaderAssumption DEF ReaderInit
  <1>2. panel \in PanelType
    BY DEF ReaderInit, Reset, PanelType
  <1>3. context \in [t : Transcript \cup {None}, opened : 0..MaxOpens]
    BY ReaderAssumption DEF ReaderInit, NoContext
  <1>4. NothingForeignIsShown
    BY DEF ReaderInit, NothingForeignIsShown, NoContext, Reset
  <1> QED
    BY <1>1, <1>2, <1>3, <1>4 DEF ReaderIInv, ReaderTypeOK

\* A step that leaves the panel as it is, or shows in it the summary of the
\* transcript that is being read or speaks of it, and nothing else of the page,
\* keeps what the page shows.
LEMMA OnPanelKeeps ==
    ASSUME NothingForeignIsShown, OnPanel,
           panel'.content \in {panel.content, None, rendered},
           panel'.note = "progress" => panel'.of = rendered
    PROVE  NothingForeignIsShown'
  BY DEF NothingForeignIsShown, OnPanel

\* While a transcript is being read it is the one on the page.
LEMMA ReadIsRendered ==
    ASSUME NothingForeignIsShown, NEW t \in Transcript, OfReader(t)
    PROVE  rendered = t
  BY ReaderAssumption DEF NothingForeignIsShown, OfReader

\* The ways in which the end of a request changes the panel.
LEMMA EndsOnPanel ==
    ASSUME NothingForeignIsShown, panel \in PanelType, NEW t \in Transcript,
           NEW p \in {panel, Failed(t), [panel EXCEPT !.timer = FALSE], Generated(t)}
    PROVE  /\ p \in PanelType /\ p.content \in {panel.content, None, rendered}
           /\ p.note = "progress" => p.of = rendered
  <1>1. CASE p = Failed(t)
    BY <1>1, PanelsAreTyped DEF Failed, PanelType
  <1>2. CASE p = Generated(t) /\ OfReader(t)
    BY <1>2, PanelsAreTyped, ReadIsRendered DEF Generated, Rendered, Reset
  <1>3. CASE p = panel \/ p = [panel EXCEPT !.timer = FALSE]
    BY <1>3 DEF PanelType, NothingForeignIsShown
  <1> QED
    BY <1>1, <1>2, <1>3 DEF Generated

\* Every answer, in time or late, and everything the user does keeps it.
THEOREM NextReader == ReaderIInv /\ [ReaderNext]_readerVars => ReaderIInv'
  <1> SUFFICES ASSUME ReaderIInv, [ReaderNext]_readerVars PROVE ReaderIInv'
    OBVIOUS
  <1>t. ReaderTypeOK /\ NothingForeignIsShown
    BY DEF ReaderIInv
  <1>1. ASSUME GenerateSummary PROVE ReaderIInv'
    <2>1. context.t \in Transcript /\ rendered = context.t
      BY <1>1, <1>t DEF GenerateSummary, ReaderTypeOK, NothingForeignIsShown
    <2>2. started' \in 0..MaxRuns
      BY <1>1, <1>t, ReaderAssumption DEF GenerateSummary, ReaderTypeOK
    <2>3. Ask("generate", context.t, 0, started + 1) \in AskType
      BY <1>1, <2>1, <2>2, ReaderAssumption DEF GenerateSummary, Ask, AskType
    <2>4. asks' \subseteq AskType
      BY <1>1, <1>t, <2>3 DEF GenerateSummary, ReaderTypeOK
    <2>5. panel' \in PanelType
      BY <1>1, <1>t, <2>1 DEF GenerateSummary, ReaderTypeOK, PanelType
    <2>6. NothingForeignIsShown'
      BY <1>1, <1>t, <2>1 DEF GenerateSummary, ReaderTypeOK, PanelType, OnPanel, NothingForeignIsShown
    <2> QED
      BY <1>1, <1>t, <2>2, <2>4, <2>5, <2>6 DEF GenerateSummary, OnPanel, ReaderIInv, ReaderTypeOK
  <1>2. ASSUME CreateExport PROVE ReaderIInv'
    <2>1. context.t \in Transcript /\ context.opened \in 0..MaxOpens
      BY <1>2, <1>t DEF CreateExport, ReaderTypeOK
    <2>2. started' \in 0..MaxRuns /\ started + 1 = started'
      BY <1>2, <1>t, ReaderAssumption DEF CreateExport, ReaderTypeOK
    <2>3. Ask("create", context.t, context.opened, started + 1) \in AskType
      BY <2>1, <2>2 DEF Ask, AskType
    <2>4. asks' \subseteq AskType /\ scopes' \in [Transcript -> 0..MaxRuns]
      BY <1>2, <1>t, <2>2, <2>3 DEF CreateExport, ReaderTypeOK
    <2>5. exports'.t = exports.t
      BY <1>2 DEF CreateExport
    <2>6. NothingForeignIsShown'
      BY <1>2, <1>t, <2>5 DEF CreateExport, NothingForeignIsShown
    <2> QED
      BY <1>2, <1>t, <2>2, <2>4, <2>6 DEF CreateExport, ReaderIInv, ReaderTypeOK
  <1>3. ASSUME NEW t \in Transcript, OpenReader(t) PROVE ReaderIInv'
    <2>1. opens' \in 0..MaxOpens /\ opens + 1 = opens'
      BY <1>3, <1>t, ReaderAssumption DEF OpenReader, ReaderTypeOK
    <2>2. Ask("transcripts", t, opens + 1, 0) \in AskType
      BY <1>3, <2>1, ReaderAssumption DEF Ask, AskType
    <2>3. context' \in [t : Transcript \cup {None}, opened : 0..MaxOpens]
          /\ context'.t = None /\ context'.opened = 0
      BY <1>3, ReaderAssumption DEF OpenReader, NoContext
    <2>4. asks' \subseteq AskType
      BY <1>3, <1>t, <2>2 DEF OpenReader, ReaderTypeOK
    <2>5. NothingForeignIsShown'
      BY <1>3, <1>t, <2>3 DEF OpenReader, NothingForeignIsShown
    <2> QED
      BY <1>3, <1>t, <2>1, <2>3, <2>4, <2>5 DEF OpenReader, ReaderIInv, ReaderTypeOK
  <1>4. ASSUME NEW r \in asks, Progresses(r) PROVE ReaderIInv'
    <2>1. r.t \in Transcript /\ rendered = r.t
      <3>1. r.t \in Transcript
        BY <1>t DEF ReaderTypeOK, AskType
      <3> QED
        BY <1>4, <1>t, <3>1, ReadIsRendered DEF Progresses
    <2>2. panel' \in PanelType /\ panel'.content = panel.content /\ panel'.of = rendered
      BY <1>4, <1>t, <2>1 DEF Progresses, ReaderTypeOK, PanelType
    <2>3. NothingForeignIsShown'
      BY <1>4, <1>t, <2>2, OnPanelKeeps DEF Progresses
    <2> QED
      BY <1>4, <1>t, <2>2, <2>3 DEF Progresses, OnPanel, ReaderIInv, ReaderTypeOK
  <1>5. ASSUME NEW r \in asks, Ends(r) PROVE ReaderIInv'
    <2>t. r \in AskType /\ r.t \in Transcript /\ r.opened \in 0..MaxOpens /\ panel \in PanelType
      BY <1>t DEF ReaderTypeOK, AskType
    <2>1. asks' \subseteq AskType
      BY <1>5, <1>t, AsksStayTyped DEF Ends, ReaderTypeOK, TranscriptsAnswered, ExportsAnswered,
         OpenFails, SummaryAnswered, GenerationCompletes, GenerationEnds, FinalAnswered,
         GenerationFails, ExportMade, ExportsListed, ExportFails
    <2>2. CASE TranscriptsAnswered(r) \/ OpenFails(r)
      BY <2>1, <2>2, <1>t DEF TranscriptsAnswered, OpenFails, ReaderIInv, ReaderTypeOK, NothingForeignIsShown
    <2>3. CASE ExportsAnswered(r)
      <3>1. CASE IsCurrent(opens, r.opened)
        <4>1. /\ context' = [t |-> r.t, opened |-> r.opened] /\ rendered' = r.t
              /\ exports'.t = r.t /\ panel' = Reset /\ opens' = opens /\ r.opened = opens
              /\ started' = started /\ scopes' = scopes
          BY <2>3, <3>1 DEF ExportsAnswered, Renders, Lists, IsCurrent
        <4>2. NothingForeignIsShown'
          BY <4>1 DEF NothingForeignIsShown, Reset
        <4> QED
          BY <4>1, <4>2, <2>1, <2>t, <1>t, PanelsAreTyped DEF ReaderIInv, ReaderTypeOK
      <3>2. CASE ~IsCurrent(opens, r.opened)
        BY <2>1, <2>3, <3>2, <1>t DEF ExportsAnswered, ReaderIInv, ReaderTypeOK, NothingForeignIsShown
      <3> QED
        BY <3>1, <3>2
    <2>4. CASE SummaryAnswered(r)
      <3>1. panel' = panel \/ (OfReader(r.t) /\ panel' = Rendered(r.t))
        BY <2>4 DEF SummaryAnswered
      <3>2. panel' \in PanelType /\ panel'.content \in {panel.content, None, rendered}
            /\ (panel'.note = "progress" => panel'.of = rendered)
        BY <3>1, <2>t, <1>t, PanelsAreTyped, ReadIsRendered
           DEF Rendered, Reset, NothingForeignIsShown
      <3>3. NothingForeignIsShown'
        BY <2>4, <3>2, <1>t DEF SummaryAnswered, NothingForeignIsShown
      <3> QED
        BY <2>4, <3>2, <3>3, <2>1, <1>t DEF SummaryAnswered, ReaderIInv, ReaderTypeOK
    <2>5. CASE GenerationCompletes(r) \/ GenerationEnds(r) \/ FinalAnswered(r) \/ GenerationFails(r)
      <3>1. panel' \in {panel, Failed(r.t), [panel EXCEPT !.timer = FALSE], Generated(r.t)}
        BY <2>5 DEF GenerationCompletes, GenerationEnds, FinalAnswered, GenerationFails, Generated
      <3>2. OnPanel /\ started' = started
        BY <2>5 DEF GenerationCompletes, GenerationEnds, FinalAnswered, GenerationFails
      <3>3. panel' \in PanelType /\ panel'.content \in {panel.content, None, rendered}
            /\ (panel'.note = "progress" => panel'.of = rendered)
        BY <3>1, <1>t, <2>t, EndsOnPanel
      <3>4. NothingForeignIsShown'
        BY <3>2, <3>3, <1>t, OnPanelKeeps
      <3> QED
        BY <3>2, <3>3, <3>4, <2>1, <1>t DEF OnPanel, ReaderIInv, ReaderTypeOK
    <2>6. CASE ExportMade(r) \/ ExportsListed(r) \/ ExportFails(r)
      <3>1. exports'.t = rendered
        <4>1. ContextIs(r) => rendered = r.t
          BY <2>t, <1>t, ReadIsRendered DEF ContextIs, OfReader
        <4>2. CASE ExportMade(r)
          BY <4>2, <1>t DEF ExportMade, NothingForeignIsShown
        <4>3. CASE ExportsListed(r)
          BY <4>1, <4>3, <1>t DEF ExportsListed, Lists, NothingForeignIsShown
        <4>4. CASE ExportFails(r)
          <5>1. exports'.t = exports.t
            BY <4>4 DEF ExportFails
          <5> QED
            BY <5>1, <1>t DEF NothingForeignIsShown
        <4> QED
          BY <2>6, <4>2, <4>3, <4>4
      <3>2. UNCHANGED <<opens, context, rendered, panel, started, scopes>>
        BY <2>6 DEF ExportMade, ExportsListed, ExportFails, OnExports
      <3> QED
        BY <3>1, <3>2, <2>1, <1>t DEF ReaderIInv, ReaderTypeOK, NothingForeignIsShown
    <2> QED
      BY <1>5, <2>2, <2>3, <2>4, <2>5, <2>6 DEF Ends
  <1>6. CASE UNCHANGED readerVars
    BY <1>6, <1>t DEF readerVars, ReaderIInv, ReaderTypeOK, NothingForeignIsShown
  <1> QED
    BY <1>1, <1>2, <1>3, <1>4, <1>5, <1>6 DEF ReaderNext

\* Whatever finishes after the user has moved on, nothing of another transcript
\* is shown: the summary, its progress and the exports are those of the page.
THEOREM ReaderShowsItsOwn == ReaderSpec => []NothingForeignIsShown
  <1>1. ReaderIInv => NothingForeignIsShown
    BY DEF ReaderIInv
  <1> QED
    BY <1>1, InitReader, NextReader, PTL DEF ReaderSpec

-----------------------------------------------------------------------------
(* The reader's buttons.                                                   *)

\* What is being read was opened last: ContextIs asks for nothing more.
ReadIsOpened == context # NoContext => context.t # None /\ context.opened = opens

ExportsType == [t : Transcript \cup {None}, there : BOOLEAN, pressed : BOOLEAN]

ButtonIInv == ReaderIInv /\ exports \in ExportsType /\ ReadIsOpened /\ ButtonsComeBack

\* The request that gives a button back.
Generating(r) == r.kind \in {"generate", "final"} /\ OfReader(r.t)
Exporting(r)  == r.kind \in {"create", "list"} /\ ContextIs(r) /\ IsCurrent(scopes[r.t], r.run)

\* A request that ends, or turns, takes no other request with it.
LEMMA OthersGoOn ==
    ASSUME NEW r, NEW s, Drops(r) \/ Turns(r, s), NEW q \in asks, q # r
    PROVE  q \in asks'
  BY DEF Drops, Turns

\* While the reader, the panel's button and the exports stay as they are, a
\* step needs to keep the two requests only.
LEMMA ButtonsStay ==
    ASSUME ButtonIInv, UNCHANGED <<opens, context, scopes>>,
           panel'.busy => panel.busy, exports'.pressed => exports.pressed,
           \A q \in asks : Generating(q) /\ panel'.busy
                              => \E p \in asks' : p.kind \in {"generate", "final"} /\ p.t = q.t,
           \A q \in asks : Exporting(q) /\ exports'.pressed
                              => \E p \in asks' : /\ p.kind \in {"create", "list"} /\ p.t = q.t
                                                  /\ p.opened = q.opened /\ p.run = q.run
    PROVE  ReadIsOpened' /\ ButtonsComeBack'
  <1>1. ReadIsOpened'
    BY DEF ButtonIInv, ReadIsOpened
  <1>2. ASSUME context' # NoContext, panel'.busy
        PROVE  \E p \in asks' : p.kind \in {"generate", "final"} /\ OfReader(p.t)'
    BY <1>2 DEF ButtonIInv, ButtonsComeBack, Generating, OfReader
  <1>3. ASSUME context' # NoContext, exports'.pressed
        PROVE  \E p \in asks' : /\ p.kind \in {"create", "list"} /\ ContextIs(p)'
                                /\ IsCurrent(scopes[p.t], p.run)'
    BY <1>3 DEF ButtonIInv, ButtonsComeBack, Exporting, ContextIs, IsCurrent
  <1> QED
    BY <1>1, <1>2, <1>3 DEF ButtonsComeBack

\* Opening another transcript leaves no button to wait for; its answers put a
\* fresh page in the place of the old one.
LEMMA OpeningKeepsButtons ==
    ASSUME ButtonIInv,
           \/ \E t \in Transcript : OpenReader(t)
           \/ \E r \in asks : TranscriptsAnswered(r) \/ ExportsAnswered(r) \/ OpenFails(r)
                              \/ SummaryAnswered(r)
    PROVE  ReadIsOpened' /\ ButtonsComeBack'
  <1>1. CASE \E t \in Transcript : OpenReader(t)
    BY <1>1 DEF OpenReader, ReadIsOpened, ButtonsComeBack
  <1>2. ASSUME NEW r \in asks, TranscriptsAnswered(r) \/ OpenFails(r)
        PROVE  ReadIsOpened' /\ ButtonsComeBack'
    <2>1. /\ UNCHANGED <<opens, context, scopes, panel, exports>>
          /\ \E s : Drops(r) \/ Turns(r, s)
          /\ r.kind \notin {"generate", "final", "create", "list"}
      BY <1>2 DEF TranscriptsAnswered, OpenFails
    <2>2. \A q \in asks : Generating(q) \/ Exporting(q) => q \in asks'
      BY <2>1, OthersGoOn DEF Generating, Exporting
    <2> QED
      BY <2>1, <2>2, ButtonsStay DEF Generating, Exporting
  <1>3. ASSUME NEW r \in asks, SummaryAnswered(r)
        PROVE  ReadIsOpened' /\ ButtonsComeBack'
    <2>1. /\ UNCHANGED <<opens, context, scopes, exports>>
          /\ Drops(r) /\ panel' \in {panel, Rendered(r.t)}
          /\ r.kind \notin {"generate", "final", "create", "list"}
      BY <1>3 DEF SummaryAnswered
    <2>2. \A q \in asks : Generating(q) \/ Exporting(q) => q \in asks'
      BY <2>1, OthersGoOn DEF Generating, Exporting
    <2>3. panel'.busy => panel.busy
      BY <2>1 DEF Rendered, Reset
    <2> QED
      BY <2>1, <2>2, <2>3, ButtonsStay DEF Generating, Exporting
  <1>4. ASSUME NEW r \in asks, ExportsAnswered(r)
        PROVE  ReadIsOpened' /\ ButtonsComeBack'
    <2>1. CASE IsCurrent(opens, r.opened)
      <3>1. r.t # None
        BY ReaderAssumption DEF ButtonIInv, ReaderIInv, ReaderTypeOK, AskType
      <3> QED
        BY <1>4, <2>1, <3>1 DEF ExportsAnswered, Renders, Lists, Reset, IsCurrent, ReadIsOpened,
                                ButtonsComeBack
    <2>2. CASE ~IsCurrent(opens, r.opened)
      <3>1. /\ UNCHANGED <<opens, context, scopes, panel, exports>> /\ Drops(r)
            /\ r.kind \notin {"generate", "final", "create", "list"}
        BY <1>4, <2>2 DEF ExportsAnswered
      <3>2. \A q \in asks : Generating(q) \/ Exporting(q) => q \in asks'
        BY <3>1, OthersGoOn DEF Generating, Exporting
      <3> QED
        BY <3>1, <3>2, ButtonsStay DEF Generating, Exporting
    <2> QED
      BY <2>1, <2>2
  <1> QED
    BY <1>1, <1>2, <1>3, <1>4

\* A generation disables the button for as long as it, or the look for its
\* summary, is under way; its end enables it unless another transcript is read.
LEMMA GeneratingKeepsButtons ==
    ASSUME ButtonIInv,
           \/ GenerateSummary
           \/ \E r \in asks : \/ Progresses(r) \/ GenerationCompletes(r) \/ GenerationEnds(r)
                              \/ FinalAnswered(r) \/ GenerationFails(r)
    PROVE  ReadIsOpened' /\ ButtonsComeBack'
  <1>t. panel \in PanelType
    BY DEF ButtonIInv, ReaderIInv, ReaderTypeOK
  <1>1. CASE GenerateSummary
    <2>1. /\ UNCHANGED <<opens, context, scopes, exports>>
          /\ \A q \in asks : q \in asks'
          /\ Ask("generate", context.t, 0, started + 1) \in asks'
      BY <1>1 DEF GenerateSummary, OnPanel
    <2>2. ReadIsOpened'
      BY <2>1 DEF ButtonIInv, ReadIsOpened
    <2>3. \E p \in asks' : p.kind \in {"generate", "final"} /\ OfReader(p.t)'
      BY <2>1 DEF Ask, OfReader
    <2>4. context' # NoContext /\ exports'.pressed => \E p \in asks' :
             /\ p.kind \in {"create", "list"} /\ ContextIs(p)' /\ IsCurrent(scopes[p.t], p.run)'
      BY <2>1 DEF ButtonIInv, ButtonsComeBack, ContextIs, IsCurrent
    <2> QED
      BY <2>2, <2>3, <2>4 DEF ButtonsComeBack
  <1>2. ASSUME NEW r \in asks, Progresses(r)
        PROVE  ReadIsOpened' /\ ButtonsComeBack'
    <2>1. UNCHANGED <<opens, context, scopes, exports, asks>> /\ panel'.busy = panel.busy
      BY <1>2, <1>t DEF Progresses, OnPanel, PanelType
    <2> QED
      BY <2>1, ButtonsStay DEF Generating, Exporting
  <1>3. ASSUME NEW r \in asks,
               GenerationCompletes(r) \/ GenerationEnds(r) \/ FinalAnswered(r) \/ GenerationFails(r)
        PROVE  ReadIsOpened' /\ ButtonsComeBack'
    <2>1. /\ UNCHANGED <<opens, context, scopes, exports>>
          /\ \E s : Drops(r) \/ Turns(r, s)
          /\ r.kind \in {"generate", "final"}
      BY <1>3 DEF GenerationCompletes, GenerationEnds, FinalAnswered, GenerationFails, OnPanel
    <2>2. panel'.busy => panel.busy
      BY <1>3, <1>t DEF GenerationCompletes, GenerationEnds, FinalAnswered, GenerationFails,
                        Generated, Failed, Rendered, Reset, PanelType
    <2>3. OfReader(r.t) /\ panel'.busy
             => \E p \in asks' : p.kind \in {"generate", "final"} /\ p.t = r.t
      <3>1. CASE GenerationEnds(r) /\ Turns(r, [r EXCEPT !.kind = "final"])
        <4>1. [r EXCEPT !.kind = "final"] \in asks'
          BY <3>1 DEF Turns
        <4>2. [r EXCEPT !.kind = "final"].kind = "final" /\ [r EXCEPT !.kind = "final"].t = r.t
          BY DEF ButtonIInv, ReaderIInv, ReaderTypeOK, AskType
        <4> QED
          BY <4>1, <4>2
      <3>2. CASE \/ GenerationCompletes(r) \/ FinalAnswered(r) \/ GenerationFails(r)
                 \/ GenerationEnds(r) /\ panel' = Failed(r.t)
        <4>1. OfReader(r.t) => ~panel'.busy
          BY <3>2 DEF GenerationCompletes, FinalAnswered, GenerationFails, Generated, Failed,
                      Rendered, Reset, ButtonIInv, ReaderIInv, ReaderTypeOK, PanelType
        <4> QED
          BY <4>1
      <3> QED
        BY <1>3, <3>1, <3>2 DEF GenerationEnds
    <2>4. \A q \in asks : q # r => q \in asks'
      BY <2>1, OthersGoOn
    <2>5. \A q \in asks : Generating(q) /\ panel'.busy
             => \E p \in asks' : p.kind \in {"generate", "final"} /\ p.t = q.t
      BY <2>3, <2>4 DEF Generating
    <2>6. \A q \in asks : Exporting(q) => q \in asks'
      BY <2>1, <2>4 DEF Exporting
    <2>7. \A q \in asks : Exporting(q) /\ exports'.pressed
             => \E p \in asks' : /\ p.kind \in {"create", "list"} /\ p.t = q.t
                                 /\ p.opened = q.opened /\ p.run = q.run
      BY <2>6 DEF Exporting
    <2> QED
      BY <2>1, <2>2, <2>5, <2>7, ButtonsStay
  <1> QED
    BY <1>1, <1>2, <1>3

\* The request that counts for a transcript ends with its button enabled.
LEMMA ExportingKeepsButtons ==
    ASSUME ButtonIInv,
           \/ CreateExport
           \/ \E r \in asks : ExportMade(r) \/ ExportsListed(r) \/ ExportFails(r)
    PROVE  ReadIsOpened' /\ ButtonsComeBack'
  <1>1. CASE CreateExport
    <2>0. PICK a \in asks' : a = Ask("create", context.t, context.opened, started + 1)
      BY <1>1 DEF CreateExport
    <2>1. /\ UNCHANGED <<opens, context, panel>> /\ context.t \in Transcript
          /\ \A q \in asks : q \in asks'
          /\ scopes'[context.t] = started + 1
      BY <1>1 DEF CreateExport, ButtonIInv, ReaderIInv, ReaderTypeOK
    <2>2. ReadIsOpened'
      BY <2>1 DEF ButtonIInv, ReadIsOpened
    <2>3. a.kind = "create" /\ a.t = context.t /\ a.opened = context.opened /\ a.run = started + 1
      BY <2>0 DEF Ask
    <2>4. context.opened = opens /\ context = [t |-> context.t, opened |-> context.opened]
      BY <2>1, ReaderAssumption DEF ButtonIInv, ReadIsOpened, NoContext, ReaderIInv, ReaderTypeOK
    <2>5. ContextIs(a)' /\ IsCurrent(scopes[a.t], a.run)'
      BY <2>1, <2>3, <2>4 DEF ContextIs, IsCurrent
    <2>6. context' # NoContext /\ panel'.busy
             => \E p \in asks' : p.kind \in {"generate", "final"} /\ OfReader(p.t)'
      BY <2>1 DEF ButtonIInv, ButtonsComeBack, OfReader
    <2> QED
      BY <2>0, <2>2, <2>3, <2>5, <2>6 DEF ButtonsComeBack
  <1>2. ASSUME NEW r \in asks, ExportMade(r) \/ ExportsListed(r) \/ ExportFails(r)
        PROVE  ReadIsOpened' /\ ButtonsComeBack'
    <2>1. /\ UNCHANGED <<opens, context, scopes, panel>>
          /\ \E s : Drops(r) \/ Turns(r, s)
          /\ r.kind \in {"create", "list"}
      BY <1>2 DEF ExportMade, ExportsListed, ExportFails, OnExports
    <2>2. exports'.pressed => exports.pressed
      BY <1>2 DEF ExportMade, ExportsListed, ExportFails, Lists, ButtonIInv, ExportsType
    <2>3. Exporting(r) /\ exports'.pressed => \E p \in asks' :
             p.kind \in {"create", "list"} /\ p.t = r.t /\ p.opened = r.opened /\ p.run = r.run
      <3>1. CASE ExportMade(r)
        <4> DEFINE l == [r EXCEPT !.kind = "list"]
        <4>1. Exporting(r) => l \in asks'
          BY <3>1 DEF ExportMade, Exporting, Turns
        <4>2. l.kind = "list" /\ l.t = r.t /\ l.opened = r.opened /\ l.run = r.run
          BY DEF ButtonIInv, ReaderIInv, ReaderTypeOK, AskType
        <4> QED
          BY <4>1, <4>2
      <3>2. CASE ExportsListed(r) \/ ExportFails(r)
        <4>1. Exporting(r) => ~exports'.pressed
          BY <3>2 DEF ExportsListed, ExportFails, Exporting, Lists, ButtonIInv, ExportsType
        <4> QED
          BY <4>1
      <3> QED
        BY <1>2, <3>1, <3>2
    <2>4. \A q \in asks : q # r => q \in asks'
      BY <2>1, OthersGoOn
    <2>5. \A q \in asks : Exporting(q) /\ exports'.pressed
             => \E p \in asks' : /\ p.kind \in {"create", "list"} /\ p.t = q.t
                                 /\ p.opened = q.opened /\ p.run = q.run
      BY <2>3, <2>4 DEF Exporting
    <2>6. \A q \in asks : Generating(q) => q \in asks'
      BY <2>1, <2>4 DEF Generating
    <2>7. \A q \in asks : Generating(q) /\ panel'.busy
             => \E p \in asks' : p.kind \in {"generate", "final"} /\ p.t = q.t
      BY <2>6 DEF Generating
    <2> QED
      BY <2>1, <2>2, <2>5, <2>7, ButtonsStay
  <1> QED
    BY <1>1, <1>2

\* Every handler leaves a list of exports.
LEMMA ExportsStayTyped ==
    ASSUME ButtonIInv, ReaderNext
    PROVE  exports' \in ExportsType
  <1>1. /\ exports \in ExportsType /\ [exports EXCEPT !.pressed = TRUE] \in ExportsType
        /\ [exports EXCEPT !.pressed = FALSE] \in ExportsType
    BY DEF ButtonIInv, ExportsType
  <1>2. ASSUME NEW r \in asks, Lists(r.t)
        PROVE  exports' \in ExportsType
    BY <1>2 DEF Lists, ExportsType, ButtonIInv, ReaderIInv, ReaderTypeOK, AskType
  <1>3. CASE GenerateSummary \/ CreateExport \/ \E t \in Transcript : OpenReader(t)
    BY <1>1, <1>3 DEF GenerateSummary, CreateExport, OpenReader, OnPanel
  <1>4. ASSUME NEW r \in asks, Progresses(r) \/ Ends(r)
        PROVE  exports' \in {exports, [exports EXCEPT !.pressed = FALSE]} \/ Lists(r.t)
    BY <1>4 DEF Progresses, Ends, TranscriptsAnswered, ExportsAnswered, Renders, OpenFails,
                SummaryAnswered, GenerationCompletes, GenerationEnds, FinalAnswered,
                GenerationFails, ExportMade, ExportsListed, ExportFails, OnPanel, OnExports
  <1> QED
    BY <1>1, <1>2, <1>3, <1>4 DEF ReaderNext

\* Whatever the order of answers and openings, a disabled button has a request
\* under way that enables it again.
THEOREM ReaderButtonsComeBack == ReaderSpec => []ButtonsComeBack
  <1>1. ReaderInit => ButtonIInv
    BY InitReader DEF ButtonIInv, ReaderInit, ExportsType, ReadIsOpened, ButtonsComeBack
  <1>2. ButtonIInv /\ [ReaderNext]_readerVars => ButtonIInv'
    <2> SUFFICES ASSUME ButtonIInv, [ReaderNext]_readerVars PROVE ButtonIInv'
      OBVIOUS
    <2>1. ReaderIInv'
      BY NextReader DEF ButtonIInv
    <2>2. CASE UNCHANGED readerVars
      BY <2>1, <2>2 DEF readerVars, ButtonIInv, ReadIsOpened, ButtonsComeBack, OfReader, ContextIs,
                        IsCurrent
    <2>3. CASE ReaderNext
      BY <2>1, <2>3, ExportsStayTyped, OpeningKeepsButtons, GeneratingKeepsButtons, ExportingKeepsButtons
         DEF ReaderNext, Ends, ButtonIInv
    <2> QED
      BY <2>2, <2>3
  <1> QED
    BY <1>1, <1>2, PTL DEF ReaderSpec, ButtonIInv

-----------------------------------------------------------------------------
(* The library, for every number of recordings, of loads and of searches.  *)

ReadType   == [at : {"over", "asked", "served"}, seen : SUBSET Recording]
SearchType == [at : {"over", "asked", "served"}, query : Query \cup {Empty},
               found : SUBSET Recording]

\* What the argument needs of the types.
ListTyped ==
    /\ library \in [Recording -> {"new", "present", "deleted"}]
    /\ listed \in [Recording -> Nat]
    /\ changing \in [Recording -> {"no", "uploading", "uploaded", "deleting", "removed"}]
    /\ reads \in [Load -> ReadType] /\ newestLoad \in Nat

\* Unless the library changed since the newest load was asked for, nothing is
\* under way and what the load was served is what is there.
NewestIsTrue ==
    ~crossed => /\ \A r \in Recording : changing[r] = "no"
                /\ \A n \in Load : n = newestLoad /\ reads[n].at = "served" => reads[n].seen = Present

\* How a row stands to the library at each place of a change of its recording.
RowIsTrue(r) ==
    CASE changing[r] = "uploaded" -> listed[r] = 0 /\ library[r] = "present"
      [] changing[r] = "removed"  -> library[r] = "deleted"
      [] OTHER -> listed[r] = IF library[r] = "present" THEN 1 ELSE 0

ListIInv == ListTyped /\ NewestIsTrue /\ (~stale => \A r \in Recording : RowIsTrue(r))

\* The page begins with no list, which nobody takes for the library.
LEMMA ListStarts == LibraryPageInit => ListIInv
  <1> SUFFICES ASSUME LibraryPageInit PROVE ListIInv
    OBVIOUS
  <1>1. ListTyped
    BY LibraryPageAssumption DEF LibraryPageInit, ListTyped, NoRead, ReadType
  <1>2. NewestIsTrue
    BY DEF LibraryPageInit, NewestIsTrue, NoRead
  <1> QED
    BY <1>1, <1>2 DEF LibraryPageInit, ListIInv

\* A load is asked for, served, or answered; only the newest is taken.
LEMMA LoadsKeepList ==
    ASSUME ListIInv,
           \/ AsksLoad
           \/ \E n \in Load : LoadIsServed(n) \/ LoadIsAnswered(n) \/ LoadFails(n) \/ LoadIsLate(n)
    PROVE  ListIInv'
  <1>t. ListTyped /\ NewestIsTrue
    BY DEF ListIInv
  <1>1. CASE AsksLoad
    <2>1. /\ UNCHANGED <<library, listed, changing, stale>>
          /\ newestLoad' = newestLoad + 1 /\ newestLoad' \in Load
          /\ reads' = [reads EXCEPT ![newestLoad'] = [at |-> "asked", seen |-> {}]]
          /\ crossed' = Changing
      BY <1>1, <1>t, LibraryPageAssumption DEF AsksLoad, ListTyped, Load
    <2>2. ListTyped'
      BY <2>1, <1>t DEF ListTyped, ReadType
    <2>3. NewestIsTrue'
      BY <2>1, <1>t DEF NewestIsTrue, Changing, ListTyped
    <2> QED
      BY <2>1, <2>2, <2>3 DEF ListIInv, RowIsTrue
  <1>2. ASSUME NEW n \in Load, LoadIsServed(n)
        PROVE  ListIInv'
    <2>1. /\ UNCHANGED <<library, listed, newestLoad, changing, crossed, stale>>
          /\ reads' = [reads EXCEPT ![n] = [at |-> "served", seen |-> Present]]
          /\ Present' = Present
      BY <1>2 DEF LoadIsServed, Present
    <2>2. ListTyped'
      BY <2>1, <1>t DEF ListTyped, ReadType, Present
    <2>3. NewestIsTrue'
      BY <2>1, <1>t DEF NewestIsTrue, ListTyped
    <2> QED
      BY <2>1, <2>2, <2>3 DEF ListIInv, RowIsTrue
  <1>3. ASSUME NEW n \in Load, LoadIsAnswered(n) \/ LoadFails(n) \/ LoadIsLate(n)
        PROVE  ListIInv'
    <2>1. /\ UNCHANGED <<library, newestLoad, changing, crossed>>
          /\ reads' = [reads EXCEPT ![n] = NoRead]
          /\ Present' = Present
      BY <1>3 DEF LoadIsAnswered, LoadFails, LoadIsLate, LoadEnds, Present
    <2>2. listed' \in [Recording -> Nat]
      BY <1>3, <1>t DEF LoadIsAnswered, LoadFails, LoadIsLate, ListTyped
    <2>3. ListTyped'
      BY <2>1, <2>2, <1>t DEF ListTyped, ReadType, NoRead
    <2>4. NewestIsTrue'
      BY <2>1, <1>t DEF NewestIsTrue, ListTyped, NoRead
    <2>5. CASE UNCHANGED <<listed, stale>>
      BY <2>1, <2>3, <2>4, <2>5 DEF ListIInv, RowIsTrue
    <2>6. CASE stale' = TRUE
      BY <2>3, <2>4, <2>6 DEF ListIInv
    <2>7. CASE /\ LoadIsAnswered(n) /\ reads[n].at = "served" /\ stale' = crossed
               /\ listed' = [r \in Recording |-> IF r \in reads[n].seen THEN 1 ELSE 0]
      <3>1. n = newestLoad
        BY <2>7 DEF LoadIsAnswered, IsNewest
      <3>2. ASSUME ~stale', NEW r \in Recording
            PROVE  RowIsTrue(r)'
        <4>1. changing[r] = "no" /\ reads[n].seen = Present
          BY <1>t, <2>7, <3>1, <3>2 DEF NewestIsTrue
        <4> QED
          BY <2>1, <2>7, <4>1 DEF RowIsTrue, Present
      <3> QED
        BY <2>3, <2>4, <3>2 DEF ListIInv
    <2> QED
      BY <1>3, <2>5, <2>6, <2>7 DEF LoadIsAnswered, LoadFails, LoadIsLate
  <1> QED
    BY <1>1, <1>2, <1>3

\* A change of one recording: a load that is under way is crossed, and the row
\* is as the place of the change has it.
LEMMA ChangesKeepList ==
    ASSUME ListIInv, NEW r \in Recording,
           \/ Uploads(r) \/ IsImported(r) \/ UploadIsAnswered(r) \/ ConfirmsDelete(r)
           \/ IsRemoved(r) \/ DeleteIsAnswered(r) \/ ChangeFails(r) \/ OthersChange(r)
    PROVE  ListIInv'
  <1>t. ListTyped /\ NewestIsTrue
    BY DEF ListIInv
  <1> USE DEF ChangeIs, NowIs
  <1>1. ListTyped'
    <2>1. UNCHANGED <<reads, newestLoad>>
      BY DEF Uploads, IsImported, UploadIsAnswered, ConfirmsDelete, IsRemoved, DeleteIsAnswered,
             ChangeFails, OthersChange
    <2>2. library' \in [Recording -> {"new", "present", "deleted"}]
      BY <1>t DEF Uploads, IsImported, UploadIsAnswered, ConfirmsDelete, IsRemoved,
                  DeleteIsAnswered, ChangeFails, OthersChange, ListTyped
    <2>3. listed' \in [Recording -> Nat]
      BY <1>t DEF Uploads, IsImported, UploadIsAnswered, ConfirmsDelete, IsRemoved,
                  DeleteIsAnswered, ChangeFails, OthersChange, ListTyped
    <2>4. changing' \in [Recording -> {"no", "uploading", "uploaded", "deleting", "removed"}]
      BY <1>t DEF Uploads, IsImported, UploadIsAnswered, ConfirmsDelete, IsRemoved,
                  DeleteIsAnswered, ChangeFails, OthersChange, ListTyped
    <2> QED
      BY <2>1, <2>2, <2>3, <2>4, <1>t DEF ListTyped
  <1>2. NewestIsTrue'
    <2>1. CASE Uploads(r) \/ ConfirmsDelete(r) \/ OthersChange(r)
      BY <2>1 DEF Uploads, ConfirmsDelete, OthersChange, NewestIsTrue
    <2>2. CASE \/ IsImported(r) \/ UploadIsAnswered(r) \/ IsRemoved(r)
               \/ DeleteIsAnswered(r) \/ ChangeFails(r)
      <3>1. changing[r] # "no" /\ crossed' = crossed
        BY <2>2 DEF IsImported, UploadIsAnswered, IsRemoved, DeleteIsAnswered, ChangeFails
      <3> QED
        BY <3>1, <1>t DEF NewestIsTrue
    <2> QED
      BY <2>1, <2>2
  <1>3. ASSUME ~stale', NEW s \in Recording
        PROVE  RowIsTrue(s)'
    <2>1. ~stale /\ ~OthersChange(r)
      <3>1. CASE ChangeFails(r)
        BY <1>3, <3>1 DEF ChangeFails, OthersChange
      <3>2. CASE ~ChangeFails(r)
        BY <1>3, <3>2 DEF Uploads, IsImported, UploadIsAnswered, ConfirmsDelete, IsRemoved,
                          DeleteIsAnswered, OthersChange
      <3> QED
        BY <3>1, <3>2
    <2>2. RowIsTrue(s) /\ RowIsTrue(r)
      BY <2>1 DEF ListIInv
    <2>3. CASE s # r
      <3>1. library'[s] = library[s] /\ listed'[s] = listed[s] /\ changing'[s] = changing[s]
        BY <2>1, <2>3, <1>t DEF Uploads, IsImported, UploadIsAnswered, ConfirmsDelete, IsRemoved,
              DeleteIsAnswered, ChangeFails, ListTyped
      <3> QED
        BY <2>2, <3>1 DEF RowIsTrue
    <2>4. CASE s = r
      <3>1. CASE Uploads(r) \/ ConfirmsDelete(r)
        BY <2>2, <2>4, <3>1, <1>t DEF Uploads, ConfirmsDelete, RowIsTrue, ListTyped
      <3>2. CASE IsImported(r) \/ IsRemoved(r)
        BY <2>2, <2>4, <3>2, <1>t DEF IsImported, IsRemoved, RowIsTrue, ListTyped
      <3>3. CASE UploadIsAnswered(r) \/ DeleteIsAnswered(r)
        BY <2>2, <2>4, <3>3, <1>t DEF UploadIsAnswered, DeleteIsAnswered, RowIsTrue, ListTyped
      <3>4. CASE ChangeFails(r)
        BY <1>3, <2>2, <2>4, <3>4, <1>t DEF ChangeFails, RowIsTrue, ListTyped
      <3> QED
        BY <2>1, <3>1, <3>2, <3>3, <3>4
    <2> QED
      BY <2>3, <2>4
  <1> QED
    BY <1>1, <1>2, <1>3 DEF ListIInv

\* Everything else of the page leaves the list alone.
LEMMA ListStepKeeps == ListIInv /\ [LibraryPageNext]_libraryVars => ListIInv'
  <1> SUFFICES ASSUME ListIInv, [LibraryPageNext]_libraryVars PROVE ListIInv'
    OBVIOUS
  <1>1. CASE UNCHANGED <<library, listed, reads, newestLoad, changing, crossed, stale>>
    BY <1>1 DEF ListIInv, ListTyped, NewestIsTrue, RowIsTrue, Present
  <1>2. CASE SubjectIsCreated \/ ClosesDeleteDialog \/ \E r \in Recording : OpensDeleteDialog(r)
    BY <1>1, <1>2 DEF SubjectIsCreated, ClosesDeleteDialog, OpensDeleteDialog
  <1>3. CASE \/ \E q \in Query \cup {Empty} : TypesQuery(q)
             \/ Submits \/ ClearsSearch
             \/ \E n \in Search : SearchIsServed(n) \/ SearchIsAnswered(n) \/ SearchFails(n)
    BY <1>1, <1>3 DEF TypesQuery, Submits, ClearsSearch, SearchIsServed, SearchIsAnswered,
                      SearchFails, listVars
  <1>4. CASE UNCHANGED libraryVars
    BY <1>1, <1>4 DEF libraryVars, listVars
  <1> QED
    BY <1>2, <1>3, <1>4, LoadsKeepList, ChangesKeepList DEF LibraryPageNext

\* What the argument about the search needs of its types, and its invariant:
\* results are of a search, and after it only searches were submitted.
SearchIInv ==
    /\ searches \in [Search -> SearchType] /\ newestSearch \in Nat
    /\ box \in Query \cup {Empty} /\ results.of \in Nat
    /\ NothingClearedIsShown

\* Submitting, clearing and answering keep it; so does all that concerns the list.
LEMMA SearchStepKeeps == SearchIInv /\ [LibraryPageNext]_libraryVars => SearchIInv'
  <1> SUFFICES ASSUME SearchIInv, [LibraryPageNext]_libraryVars PROVE SearchIInv'
    OBVIOUS
  <1>t. /\ searches \in [Search -> SearchType] /\ newestSearch \in Nat
        /\ box \in Query \cup {Empty} /\ results.of \in Nat /\ NothingClearedIsShown
    BY DEF SearchIInv
  <1>1. CASE UNCHANGED <<searches, newestSearch, box, results>>
    BY <1>1 DEF SearchIInv, NothingClearedIsShown
  <1>2. CASE \/ AsksLoad \/ SubjectIsCreated \/ ClosesDeleteDialog
             \/ \E n \in Load : LoadIsServed(n) \/ LoadIsAnswered(n) \/ LoadFails(n) \/ LoadIsLate(n)
             \/ UNCHANGED libraryVars
    BY <1>1, <1>2 DEF AsksLoad, SubjectIsCreated, ClosesDeleteDialog, LoadIsServed,
                      LoadIsAnswered, LoadFails, LoadIsLate, LoadEnds, searchVars, libraryVars
  <1>3. ASSUME NEW r \in Recording,
               \/ Uploads(r) \/ IsImported(r) \/ OpensDeleteDialog(r) \/ ConfirmsDelete(r)
               \/ IsRemoved(r) \/ DeleteIsAnswered(r) \/ ChangeFails(r) \/ OthersChange(r)
        PROVE  SearchIInv'
    BY <1>1, <1>3 DEF Uploads, IsImported, OpensDeleteDialog, ConfirmsDelete, IsRemoved,
                      DeleteIsAnswered, ChangeFails, OthersChange, searchVars
  <1>4. ASSUME NEW r \in Recording, UploadIsAnswered(r)
        PROVE  SearchIInv'
    BY <1>t, <1>4 DEF UploadIsAnswered, NoResults, SearchIInv, NothingClearedIsShown
  <1>5. ASSUME NEW q \in Query \cup {Empty}, TypesQuery(q)
        PROVE  SearchIInv'
    BY <1>t, <1>5 DEF TypesQuery, SearchIInv, NothingClearedIsShown
  <1>6. CASE Submits
    <2>1. /\ newestSearch' = newestSearch + 1 /\ newestSearch' \in Search /\ box # Empty
          /\ searches' = [searches EXCEPT ![newestSearch'] =
                            [at |-> "asked", query |-> box, found |-> {}]]
          /\ UNCHANGED <<box, results>>
      BY <1>6, <1>t, LibraryPageAssumption DEF Submits, Search
    <2>2. searches' \in [Search -> SearchType]
      BY <2>1, <1>t DEF SearchType
    <2>3. NothingClearedIsShown'
      <3> SUFFICES ASSUME NEW n \in Search, results'.of # 0, results'.of < n, n <= newestSearch'
                   PROVE  searches'[n].query # Empty
        BY DEF NothingClearedIsShown
      <3>1. CASE n = newestSearch'
        BY <2>1, <3>1, <1>t
      <3>2. CASE n # newestSearch'
        <4>1. searches'[n] = searches[n] /\ n \in Nat /\ n <= newestSearch
          BY <2>1, <3>2, <1>t DEF Search
        <4> QED
          BY <2>1, <4>1, <1>t DEF NothingClearedIsShown
      <3> QED
        BY <3>1, <3>2
    <2> QED
      BY <2>1, <2>2, <2>3, <1>t DEF SearchIInv
  <1>7. CASE ClearsSearch
    BY <1>t, <1>7 DEF ClearsSearch, NoResults, SearchIInv, NothingClearedIsShown
  <1>8. ASSUME NEW n \in Search, SearchIsServed(n) \/ SearchIsAnswered(n) \/ SearchFails(n)
        PROVE  SearchIInv'
    <2>1. /\ searches' \in [Search -> SearchType]
          /\ \A m \in Search : searches'[m].query = searches[m].query
          /\ UNCHANGED <<newestSearch, box>>
      BY <1>8, <1>t DEF SearchIsServed, SearchIsAnswered, SearchFails, SearchType, Present
    <2>2. results' = results \/ results'.of = newestSearch
      BY <1>8 DEF SearchIsServed, SearchIsAnswered, SearchFails, IsNewest
    <2>3. CASE results' = results
      BY <2>1, <2>3, <1>t DEF SearchIInv, NothingClearedIsShown
    <2>4. CASE results'.of = newestSearch
      BY <2>1, <2>4, <1>t DEF SearchIInv, NothingClearedIsShown, Search
    <2> QED
      BY <2>2, <2>3, <2>4
  <1> QED
    BY <1>2, <1>3, <1>4, <1>5, <1>6, <1>7, <1>8 DEF LibraryPageNext

\* The list is the library, but for what is known to be under way or crossed,
\* and nothing is shown of a search that was cleared.
THEOREM LibraryStaysShown == LibraryPageSpec => []LibraryIsShown
  <1>1. ListIInv /\ SearchIInv => LibraryIsShown
    BY DEF ListIInv, SearchIInv, LibraryIsShown, ListIsTrue, RowIsTrue, Present
  <1>2. LibraryPageInit => SearchIInv
    BY DEF LibraryPageInit, SearchIInv, SearchType, NoSearch, NoResults, NothingClearedIsShown
  <1> QED
    BY <1>1, <1>2, ListStarts, ListStepKeeps, SearchStepKeeps, PTL DEF LibraryPageSpec

-----------------------------------------------------------------------------
(* The chat, for every number of messages: the lock, the timer, the hint   *)
(* and the dictation fit each other at every step.                         *)

\* What the argument needs of the types: the page, the dictation and the number
\* of messages; and what the answers and messages under way say.
Typed ==
    /\ chat \in ChatType /\ voice \in VoiceType /\ sent \in 0 .. MaxSteers
    /\ looks \subseteq BOOLEAN /\ parked \in BOOLEAN
    /\ posts \subseteq [id : Steer, at : {"sent", "taken", "failed"}, text : Steer]

ChatIInv == Typed /\ ChatAgrees

\* Looking again at the hint makes it true.
LEMMA SyncedIsTrue ==
    ASSUME NEW c \in ChatType
    PROVE  /\ Synced(c) \in ChatType
           /\ Synced(c).hint <=> Synced(c).locked /\ ~Synced(c).polling /\ Synced(c).ui \in Working
           /\ Synced(c).locked = c.locked /\ Synced(c).request = c.request
           /\ Synced(c).timer = c.timer /\ Synced(c).ui = c.ui
  BY DEF Synced, ChatType, Working, States

\* Whatever unlocks the chat leaves nothing to wait for and no hint.
LEMMA UnlockedIsFree ==
    ASSUME NEW c \in ChatType, NEW m \in {0} \cup Steer
    PROVE  /\ Unlocked(c, m) \in ChatType
           /\ ~Unlocked(c, m).locked /\ ~Unlocked(c, m).hint /\ Unlocked(c, m).ui = c.ui
  BY DEF Unlocked, ChatType

\* A dictation that is not running is well typed.
LEMMA SilentIsTyped == Silent \in VoiceType
  BY DEF Silent, VoiceType

\* The page starts unlocked, silent and with nothing to wait for.
THEOREM InitChat == ChatInit => ChatIInv
  <1> SUFFICES ASSUME ChatInit PROVE ChatIInv
    OBVIOUS
  <1>1. chat \in ChatType
    BY DEF ChatInit, ChatType, States
  <1>2. voice \in VoiceType
    BY SilentIsTyped DEF ChatInit
  <1>3. sent \in 0 .. MaxSteers
    BY ChatAssumption DEF ChatInit
  <1>5. looks \subseteq BOOLEAN /\ parked \in BOOLEAN /\ posts = {}
    BY DEF ChatInit
  <1>6. Typed
    BY <1>1, <1>2, <1>3, <1>5 DEF Typed
  <1>4. ChatAgrees
    BY DEF ChatInit, ChatAgrees, WaitIsBounded, HintIsTrue, VoiceHasItsPlace, Silent
  <1> QED
    BY <1>4, <1>6 DEF ChatIInv

\* A message that is sent locks the chat, starts its own two minutes and ends
\* the dictation.
LEMMA SendingKeeps ==
    ASSUME ChatIInv, SteerSent(chat), chat.text # 0
    PROVE  ChatIInv'
  <1>1. sent + 1 \in Steer /\ sent' = sent + 1 /\ sent' \in 0 .. MaxSteers /\ sent + 1 # 0
    BY ChatAssumption DEF SteerSent, ChatIInv, Typed, Steer
  <1>2. chat' = Submitted(chat, sent + 1) /\ voice' = Silent /\ looks' = looks /\ parked' = parked
    BY DEF SteerSent, ByHelper
  <1> DEFINE c == [chat EXCEPT !.locked = TRUE, !.request = sent + 1, !.pending = chat.text,
                               !.timer = sent + 1]
  <1>3. c \in ChatType /\ c.locked /\ c.request = sent + 1 /\ c.timer = sent + 1
    BY <1>1 DEF ChatIInv, Typed, ChatType
  <1>4. chat' = Synced(c)
    BY <1>2 DEF Submitted
  <1>5. posts' \subseteq [id : Steer, at : {"sent", "taken", "failed"}, text : Steer]
    BY <1>1 DEF SteerSent, ChatIInv, Typed, ChatType
  <1>6. chat' \in ChatType /\ chat'.locked /\ chat'.request = sent + 1 /\ chat'.timer = sent + 1
        /\ (chat'.hint <=> chat'.locked /\ ~chat'.polling /\ chat'.ui \in Working)
    BY <1>3, <1>4, SyncedIsTrue
  <1>7. voice'.mode = "none" /\ voice' \in VoiceType
    BY <1>2 DEF Silent, VoiceType
  <1>8. Typed'
    BY <1>1, <1>2, <1>5, <1>6, <1>7 DEF ChatIInv, Typed
  <1>9. ChatAgrees'
    BY <1>1, <1>6, <1>7 DEF ChatAgrees, WaitIsBounded, HintIsTrue, VoiceHasItsPlace
  <1> QED
    BY <1>8, <1>9 DEF ChatIInv

\* A step that leaves the dictation alone or ends it, and the page's lock and
\* timer as they are or unlocked, with a hint that is true, keeps the rest.
LEMMA ChatStepKeeps ==
    ASSUME ChatIInv, Typed', voice' \in {voice, Silent},
           HintIsTrue', WaitIsBounded',
           chat'.locked => chat.locked \/ voice' = Silent
    PROVE  ChatIInv'
  <1>1. VoiceHasItsPlace'
    BY DEF ChatIInv, ChatAgrees, VoiceHasItsPlace, Silent
  <1> QED
    BY <1>1 DEF ChatIInv, ChatAgrees

\* Every message sent, answer, timeout and dictation event keeps the invariant.
THEOREM NextChat == ChatIInv /\ [ChatNext]_chatVars => ChatIInv'
  <1> SUFFICES ASSUME ChatIInv, [ChatNext]_chatVars PROVE ChatIInv'
    OBVIOUS
  <1> USE DEF ChatIInv
  <1>1. ASSUME Submit PROVE ChatIInv'
    BY <1>1, SendingKeeps DEF Submit
  <1>2. ASSUME VoiceStarts PROVE ChatIInv'
    <2>1. Typed'
      BY <1>2 DEF VoiceStarts, Typed, VoiceType, Apart, ByHelper
    <2>2. ChatAgrees'
      BY <1>2 DEF VoiceStarts, Typed, VoiceType, ChatAgrees, WaitIsBounded, HintIsTrue, VoiceHasItsPlace
    <2> QED
      BY <2>1, <2>2
  <1>3. ASSUME VoiceFails PROVE ChatIInv'
    <2>1. Typed'
      BY <1>3 DEF VoiceFails, Typed, VoiceType, Silent, Apart, ByHelper
    <2> QED
      BY <1>3, <2>1, ChatStepKeeps DEF VoiceFails, ChatAgrees, WaitIsBounded, HintIsTrue
  <1>4. ASSUME VoiceEnds PROVE ChatIInv'
    <2>1. CASE voice.mode = "steer" /\ chat.text # 0 /\ ~chat.locked /\ SteerSent(chat)
      BY <2>1, SendingKeeps
    <2>2. CASE voice' = Silent /\ UNCHANGED chat /\ Apart
      <3>1. Typed'
        BY <2>2 DEF Typed, VoiceType, Silent, Apart, ByHelper
      <3> QED
        BY <2>2, <3>1, ChatStepKeeps DEF ChatAgrees, WaitIsBounded, HintIsTrue
    <2> QED
      BY <1>4, <2>1, <2>2 DEF VoiceEnds
  <1>5. ASSUME SteerTimesOut PROVE ChatIInv'
    <2> DEFINE u == Unlocked(chat, chat.pending)
    <2>1. chat.pending \in {0} \cup Steer
      BY DEF Typed, ChatType
    <2>2. u \in ChatType /\ ~u.locked /\ ~u.hint /\ u.ui = chat.ui
      BY <2>1, UnlockedIsFree DEF Typed
    <2>3. CASE chat' = u
      <3>1. Typed'
        BY <1>5, <2>2, <2>3 DEF SteerTimesOut, Typed, Apart, ByHelper
      <3>2. ~chat'.locked /\ ~chat'.hint /\ chat'.ui = chat.ui
        BY <2>2, <2>3
      <3> QED
        BY <1>5, <3>1, <3>2, ChatStepKeeps DEF SteerTimesOut, WaitIsBounded, HintIsTrue
    <2>4. CASE ~(chat.locked /\ chat.request = chat.timer) /\ chat' = [chat EXCEPT !.timer = 0]
      <3>1. ~chat.locked
        BY <2>4 DEF ChatAgrees, WaitIsBounded
      <3>2. chat' \in ChatType /\ chat'.locked = chat.locked /\ chat'.hint = chat.hint
            /\ chat'.ui = chat.ui /\ chat'.polling = chat.polling
        BY <2>4 DEF Typed, ChatType
      <3>3. Typed'
        BY <1>5, <3>2 DEF SteerTimesOut, Typed, Apart, ByHelper
      <3> QED
        BY <1>5, <3>1, <3>2, <3>3, ChatStepKeeps
        DEF SteerTimesOut, ChatAgrees, WaitIsBounded, HintIsTrue
    <2> QED
      BY <1>5, <2>3, <2>4 DEF SteerTimesOut
  <1>6. ASSUME chat' = chat, voice' = voice, Typed' PROVE ChatIInv'
    BY <1>6 DEF ChatAgrees, WaitIsBounded, HintIsTrue, VoiceHasItsPlace
  <1>7. ASSUME Looks PROVE ChatIInv'
    BY <1>6, <1>7 DEF Looks, Typed
  <1>8. ASSUME NEW m \in {0} \cup Steer, TypesText(m) \/ VoiceHears(m) PROVE ChatIInv'
    <2>1. chat' = [chat EXCEPT !.text = m] /\ voice' = voice /\ UNCHANGED <<posts, sent, looks, parked>>
      BY <1>8 DEF TypesText, VoiceHears, Apart, ByHelper
    <2>2. chat' \in ChatType /\ chat'.locked = chat.locked /\ chat'.request = chat.request
          /\ chat'.timer = chat.timer /\ chat'.hint = chat.hint /\ chat'.ui = chat.ui
          /\ chat'.polling = chat.polling
      BY <2>1 DEF Typed, ChatType
    <2>3. Typed'
      BY <2>1, <2>2 DEF Typed
    <2> QED
      BY <2>1, <2>2, <2>3 DEF ChatAgrees, WaitIsBounded, HintIsTrue, VoiceHasItsPlace
  <1>9. ASSUME NEW mode \in {"steer", "configure"}, TogglesVoice(mode) PROVE ChatIInv'
    <2>1. voice' \in {voice, Silent, [mode |-> mode, listening |-> FALSE]} /\ chat' = chat
          /\ UNCHANGED <<posts, sent, looks, parked>>
      BY <1>9 DEF TogglesVoice, Apart, ByHelper
    <2>2. voice' \in VoiceType
      <3>1. [mode |-> mode, listening |-> FALSE] \in VoiceType
        BY DEF VoiceType
      <3>2. voice \in VoiceType
        BY DEF Typed
      <3> QED
        BY <2>1, <3>1, <3>2, SilentIsTyped
    <2>3. Typed'
      BY <2>1, <2>2 DEF Typed
    <2>4. VoiceHasItsPlace'
      <3>1. CASE voice' = [mode |-> mode, listening |-> FALSE]
        <4>1. voice'.mode = mode
          BY <3>1
        <4> QED
          BY <1>9, <2>1, <4>1 DEF TogglesVoice, VoiceHasItsPlace
      <3>2. CASE voice' \in {voice, Silent}
        BY <2>1, <3>2 DEF ChatAgrees, VoiceHasItsPlace, Silent
      <3> QED
        BY <2>1, <3>1, <3>2
    <2> QED
      BY <2>1, <2>3, <2>4 DEF ChatAgrees, WaitIsBounded, HintIsTrue
  <1>10. ASSUME NEW v \in States, chat' = Shifts(chat, v), voice' \in {voice, Silent},
                UNCHANGED <<posts, sent, looks, parked>>
         PROVE  ChatIInv'
    <2> DEFINE c == [chat EXCEPT !.ui = v]
    <2>1. c \in ChatType /\ c.locked = chat.locked /\ c.request = chat.request
          /\ c.timer = chat.timer /\ c.ui = v
      BY DEF Typed, ChatType
    <2>2. chat' = Synced(c)
      BY <1>10 DEF Shifts
    <2>3. chat' \in ChatType /\ chat'.locked = chat.locked /\ chat'.request = chat.request
          /\ chat'.timer = chat.timer /\ chat'.ui = v
          /\ (chat'.hint <=> chat'.locked /\ ~chat'.polling /\ chat'.ui \in Working)
      BY <2>1, <2>2, SyncedIsTrue
    <2>4. voice' \in VoiceType
      BY <1>10, SilentIsTyped DEF Typed
    <2>5. Typed'
      BY <1>10, <2>3, <2>4 DEF Typed
    <2>6. WaitIsBounded' /\ HintIsTrue'
      BY <2>3 DEF ChatAgrees, WaitIsBounded, HintIsTrue
    <2> QED
      BY <1>10, <2>3, <2>5, <2>6, ChatStepKeeps
  <1>11. ASSUME NEW x \in posts, PostArrives(x) PROVE ChatIInv'
    <2>1. posts' \subseteq [id : Steer, at : {"sent", "taken", "failed"}, text : Steer]
      BY <1>11 DEF PostArrives, Typed
    <2> QED
      BY <1>6, <1>11, <2>1 DEF PostArrives, Typed
  <1>12. ASSUME NEW m \in {0} \cup Steer, chat' = Unlocked(chat, m), voice' \in {voice, Silent},
                posts' \subseteq posts, looks' = looks, parked' = parked, sent' = sent
         PROVE  ChatIInv'
    <2>1. chat' \in ChatType /\ ~chat'.locked /\ ~chat'.hint /\ chat'.ui = chat.ui
      BY <1>12, UnlockedIsFree DEF Typed
    <2>2. voice' \in VoiceType
      BY <1>12, SilentIsTyped DEF Typed
    <2>3. Typed'
      BY <1>12, <2>1, <2>2 DEF Typed
    <2> QED
      BY <1>12, <2>1, <2>3, ChatStepKeeps DEF WaitIsBounded, HintIsTrue
  <1>13. ASSUME NEW x \in posts, PostAnswered(x) PROVE ChatIInv'
    <2>1. x.text \in {0} \cup Steer
      BY DEF Typed
    <2>2. voice' = voice /\ UNCHANGED <<sent, looks, parked>> /\ posts' \subseteq posts
      BY <1>13 DEF PostAnswered, ByHelper
    <2>3. CASE chat' = Unlocked(chat, x.text)
      BY <1>12, <2>1, <2>2, <2>3
    <2>4. CASE chat' = chat
      BY <1>6, <2>2, <2>4 DEF Typed
    <2> QED
      BY <1>13, <2>3, <2>4 DEF PostAnswered
  <1>14. ASSUME NEW b \in BOOLEAN, chat' = Learns(chat, b), voice' = voice, looks' \subseteq looks,
                UNCHANGED <<posts, sent, parked>>
         PROVE  ChatIInv'
    <2> DEFINE c == [chat EXCEPT !.polling = b]
    <2>1. c \in ChatType /\ c.locked = chat.locked /\ c.request = chat.request
          /\ c.timer = chat.timer /\ c.ui = chat.ui
      BY DEF Typed, ChatType
    <2>2. chat' = Synced(c)
      BY <1>14 DEF Learns
    <2>3. chat' \in ChatType /\ chat'.locked = chat.locked /\ chat'.request = chat.request
          /\ chat'.timer = chat.timer /\ chat'.ui = chat.ui
          /\ (chat'.hint <=> chat'.locked /\ ~chat'.polling /\ chat'.ui \in Working)
      BY <2>1, <2>2, SyncedIsTrue
    <2>4. Typed'
      BY <1>14, <2>3 DEF Typed
    <2> QED
      BY <1>14, <2>3, <2>4 DEF ChatAgrees, WaitIsBounded, HintIsTrue, VoiceHasItsPlace
  <1>15. ASSUME NEW b \in BOOLEAN, LookAnswered(b) PROVE ChatIInv'
    BY <1>14, <1>15 DEF LookAnswered
  <1>16. ASSUME Hear PROVE ChatIInv'
    <2> DEFINE msg == Head(heard)
    <2>1. UNCHANGED <<posts, parked, looks, sent>>
      BY <1>16 DEF Hear
    <2>2. CASE chat' = Learns(chat, msg.id = 1) /\ UNCHANGED voice
      <3>1. (msg.id = 1) \in BOOLEAN
        OBVIOUS
      <3> QED
        BY <1>14, <2>1, <2>2, <3>1
    <2>3. CASE chat' \in {Unlocked(chat, 0), Unlocked(chat, chat.pending)} /\ UNCHANGED voice
      <3>1. chat.pending \in {0} \cup Steer
        BY DEF Typed, ChatType
      <3> QED
        BY <1>12, <2>1, <2>3, <3>1
    <2>4. CASE UNCHANGED <<chat, voice>>
      BY <1>6, <2>1, <2>4 DEF Typed
    <2>5. CASE chat' = Shifts(chat, "PICKING") /\ voice' = Silent
      BY <1>10, <2>1, <2>5 DEF States
    <2> QED
      BY <1>16, <2>2, <2>3, <2>4, <2>5 DEF Hear
  <1>17. ASSUME AgentPolls \/ AgentTakes \/ AgentAnswers \/ StreamReturns PROVE ChatIInv'
    BY <1>6, <1>17 DEF AgentPolls, AgentTakes, AgentAnswers, StreamReturns, Typed
  <1>18. CASE UNCHANGED chatVars
    BY <1>6, <1>18 DEF chatVars, Typed
  <1>19. ASSUME NEW u \in States, NEW v \in States, Moves(u, v) PROVE ChatIInv'
    <2>1. chat' = Shifts(chat, v) /\ voice' \in {voice, Silent}
      BY <1>19 DEF Moves
    <2>2. UNCHANGED <<posts, sent, looks, parked>>
      BY <1>19 DEF Moves, Apart, ByHelper
    <2>3. v \in States
      BY <1>19
    <2> QED
      BY <1>10, <2>1, <2>2, <2>3
  <1>20. ASSUME NEW v \in States, Restores(v) PROVE ChatIInv'
    <2>1. chat' = Shifts(chat, v) /\ voice' \in {voice, Silent}
      BY <1>20 DEF Restores
    <2>2. UNCHANGED <<posts, sent, looks, parked>>
      BY <1>20 DEF Restores, Apart, ByHelper
    <2>3. v \in States
      BY <1>20
    <2> QED
      BY <1>10, <2>1, <2>2, <2>3
  <1>21. ASSUME PutsCardAway PROVE ChatIInv'
    <2>1. chat' = Shifts(chat, "PICKING") /\ voice' \in {voice, Silent}
      BY <1>21 DEF PutsCardAway
    <2>2. UNCHANGED <<posts, sent, looks, parked>>
      BY <1>21 DEF PutsCardAway, Apart, ByHelper
    <2>3. "PICKING" \in States
      BY DEF States
    <2> QED
      BY <1>10, <2>1, <2>2, <2>3
  <1> QED
    BY <1>1, <1>2, <1>3, <1>4, <1>5, <1>7, <1>8, <1>9, <1>11, <1>13, <1>15, <1>16, <1>17, <1>18,
       <1>19, <1>20, <1>21 DEF ChatNext

\* The chat never waits without a way out, its hint tells the truth, and no
\* dictation runs on in a chat that is locked, for any number of messages.
THEOREM ChatStaysTrue == ChatSpec => []ChatAgrees
  <1>1. ChatIInv => ChatAgrees
    BY DEF ChatIInv
  <1> QED
    BY InitChat, NextChat, <1>1, PTL DEF ChatSpec

-----------------------------------------------------------------------------
(* The copy edits: what is typed, and the freeze.                          *)

\* What is remembered of a text that is edited was settled then.
Settled == {"source", "saved", "lost"}

TypedInv ==
    /\ editor \in EditorType /\ text \in [Row -> Text]
    /\ editor.on => editor.mode = "editing"
    /\ \A r \in Row : editor.was[r] \in Settled
    /\ NothingTypedIsLeft

DockData == [frozen : BOOLEAN, count : Nat, decide : BOOLEAN, trash : BOOLEAN,
             usable : BOOLEAN, enabled : BOOLEAN]
ViewData == [dock : DockData,
             phase : {NoPhase, "applying", "verifying", "repairing", "repair-decision"},
             stranded : BOOLEAN]
WireData == [kind : {"save", "count", "commit", "discard", "keep", "rollback"},
             at : {"out", "orphan", "ok", "bad"}, n : Nat, rows : SUBSET Row]

Freezing == {"started", "restarted", "chunk", "repair"}
Ending   == {"done", "failed", "decide"}
Neutral  == {"stashed", "rolledback", "discarded"}
NewsData == [type : Freezing \cup Ending \cup Neutral, n : Nat]

\* Nothing that the page remembers makes it freeze again.
Composed(v) == v.stranded \/ (~v.dock.frozen /\ v.phase \in {NoPhase, "repair-decision"})

\* Requests whose answer thaws the page, or that put the helper to work.
Resolves(w) == w.kind \in {"commit", "keep"} /\
               (w.at \in {"out", "orphan", "bad"} \/ (w.kind = "commit" /\ w.n = 0))

\* Beyond event i of f no event freezes the page, and event i thaws it; where
\* there is no such event, the page is composed or has asked for something.
Awaits(i, v, ws, f) ==
    /\ i \in 0 .. Len(f)
    /\ i = 0 => Composed(v) \/ \E w \in ws : Resolves(w)
    /\ i > 0 => f[i].type \in Ending
    /\ \A j \in 1 .. Len(f) : j > i => f[j].type \in Neutral

AtRest == ~missed /\ work \in {"idle", "deciding"}

FreezeInv == AtRest => \E i \in Nat : Awaits(i, View, wires, feed)

EditData ==
    /\ View \in ViewData /\ wires \subseteq WireData /\ feed \in Seq(NewsData)
    /\ stash \subseteq Row /\ work \in {"idle", "applying", "repairing", "deciding"}
    /\ missed \in BOOLEAN

\* What the functions of the dock do to a composed page.
LEMMA DockIsComposed ==
    ASSUME NEW v \in ViewData, NEW n \in Nat, NEW ph \in {NoPhase, "applying", "verifying", "repairing", "repair-decision"}
    PROVE  /\ Hidden(v) \in ViewData /\ Composed(Hidden(v))
           /\ Thaws(v) \in ViewData /\ Composed(Thaws(v))
           /\ AsksUser(v) \in ViewData /\ Composed(AsksUser(v))
           /\ Freezes(v) \in ViewData /\ (Composed(v) /\ v.phase # NoPhase => Composed(Freezes(v)))
           /\ Phase(v, ph) \in ViewData /\ (Composed(v) => Composed(Phase(v, NoPhase)))
           /\ [v EXCEPT !.dock.decide = FALSE, !.dock.trash = TRUE] \in ViewData
           /\ (Composed(v) => Composed([v EXCEPT !.dock.decide = FALSE, !.dock.trash = TRUE]))
<1>1. Hidden(v) \in ViewData /\ Composed(Hidden(v))
  BY DEF Hidden, ViewData, DockData, NoDock, Composed, NoPhase
<1>2. Thaws(v) \in ViewData /\ Composed(Thaws(v))
  BY DEF Thaws, ViewData, DockData, Composed, NoPhase
<1>3. AsksUser(v) \in ViewData /\ Composed(AsksUser(v))
  BY DEF AsksUser, ViewData, DockData, Composed
<1>4. Freezes(v) \in ViewData
  BY DEF Freezes, ViewData, DockData
<1>5. Composed(v) /\ v.phase # NoPhase => Composed(Freezes(v))
  BY DEF Freezes, Composed
<1>6. Phase(v, ph) \in ViewData /\ (Composed(v) => Composed(Phase(v, NoPhase)))
  BY DEF Phase, ViewData, Composed
<1>7. [v EXCEPT !.dock.decide = FALSE, !.dock.trash = TRUE] \in ViewData
  BY DEF ViewData, DockData
<1>8. Composed(v) => Composed([v EXCEPT !.dock.decide = FALSE, !.dock.trash = TRUE])
  BY DEF ViewData, DockData, Composed
<1> QED
  BY <1>1, <1>2, <1>3, <1>4, <1>5, <1>6, <1>7, <1>8

\* A view that takes a count stays composed.
LEMMA CountsToIsComposed ==
    ASSUME NEW v \in ViewData, NEW n \in Nat
    PROVE  CountsTo(v, n) \in ViewData /\ (Composed(v) => Composed(CountsTo(v, n)))
<1>1. CASE n = 0
  BY <1>1, DockIsComposed DEF CountsTo, NoPhase
<1>2. CASE n # 0
  <2>1. PICK w : w = [v EXCEPT !.dock.count = n, !.dock.trash = TRUE]
    OBVIOUS
  <2>2. /\ w \in ViewData /\ w.phase = v.phase /\ w.dock.frozen = v.dock.frozen
        /\ w.stranded = v.stranded
    BY <2>1 DEF ViewData, DockData
  <2>3. CountsTo(v, n) = IF v.dock.frozen \/ v.phase # NoPhase THEN Freezes(w) ELSE w
    BY <1>2, <2>1 DEF CountsTo
  <2>4. Freezes(w) \in ViewData /\ (Composed(w) => (w.phase # NoPhase => Composed(Freezes(w))))
    BY <2>2, DockIsComposed DEF NoPhase
  <2>5. Composed(w) <=> Composed(v)
    BY <2>2 DEF Composed
  <2>6. w.stranded => Composed(Freezes(w))
    BY DEF Freezes, Composed
  <2>7. ~w.dock.frozen /\ w.phase = NoPhase => ~(v.dock.frozen \/ v.phase # NoPhase)
    BY <2>2
  <2> QED
    BY <2>2, <2>3, <2>4, <2>5, <2>6, <2>7 DEF Composed
<1> QED
  BY <1>1, <1>2

\* A view is composed when the helper is done.
LEMMA DoneAndRepairs ==
    ASSUME NEW v \in ViewData, NEW n \in Nat
    PROVE  Done(v, n) \in ViewData /\ Composed(Done(v, n)) /\ Repairs(v) \in ViewData
<1>1. Done(v, n) \in ViewData /\ Composed(Done(v, n))
  BY DockIsComposed, CountsToIsComposed DEF Done, NoPhase
<1>2. Phase(v, "repairing") \in ViewData
  BY DockIsComposed DEF NoPhase
<1>3. Freezes(Phase(v, "repairing")) \in ViewData
  BY <1>2, DockIsComposed DEF NoPhase
<1> QED
  BY <1>1, <1>3 DEF Repairs

\* The counter of the helper is a number.
LEMMA StashIsCounted ==
    ASSUME NEW S \in SUBSET Row PROVE Cardinality(S) \in Nat
  BY EditAssumption, FS_Subset, FS_CardinalityType

\* The view has its parts.
LEMMA ViewFields == View.dock = dock /\ View.phase = storedApply /\ View.stranded = stranded
  BY DEF View

\* What is drawn is the view afterwards.
LEMMA ViewDrawn == ASSUME NEW v \in ViewData, Draws(v) PROVE View' = v
  BY DEF View, Draws, ViewData

\* Where the feed stays, a page that is still composed or still has its request
\* awaits what it awaited.
LEMMA AwaitsOn ==
    ASSUME NEW i \in Nat, NEW v, NEW ws, NEW f, Awaits(i, v, ws, f), NEW u, NEW xs,
           Composed(v) \/ (\E w \in ws : Resolves(w)) => Composed(u) \/ \E w \in xs : Resolves(w)
    PROVE  Awaits(i, u, xs, f)
  BY DEF Awaits

-----------------------------------------------------------------------------
(* What is typed.                                                          *)

\* The end of the editing restores what was typed.
LEMMA LeavesForKeeps ==
    ASSUME TypedInv, NEW mode \in {"picking", "configuring", "editing"}, LeavesFor(mode)
    PROVE  TypedInv'
<1>1. editor' = [mode |-> mode, on |-> FALSE, drafts |-> {}, was |-> [r \in Row |-> "source"]]
  BY DEF LeavesFor, NoEditor
<1>2. editor' \in EditorType
  BY <1>1 DEF EditorType, Text
<1>3. text' = [r \in Row |-> IF r \in editor.drafts THEN editor.was[r] ELSE text[r]]
  BY DEF LeavesFor, Restored
<1>4. \A r \in Row : text'[r] \in Settled
  BY <1>3 DEF TypedInv, NothingTypedIsLeft, Settled, Text
<1>5. text' \in [Row -> Text]
  BY <1>3, <1>4 DEF Settled, Text
<1> QED
  BY <1>1, <1>2, <1>4, <1>5 DEF TypedInv, NothingTypedIsLeft, Settled

\* The editor is opened or left.
LEMMA EditorKeeps ==
    ASSUME TypedInv, Picks \/ EntersEditing \/ CancelsEditing PROVE TypedInv'
<1>1. CASE Picks
  <2>1. \E mode \in {"picking", "configuring"} : editor' = [editor EXCEPT !.mode = mode]
    BY <1>1 DEF Picks
  <2>2. text' = text /\ editor.mode # "editing"
    BY <1>1 DEF Picks
  <2>3. editor' \in EditorType
    BY <2>1 DEF TypedInv, EditorType
  <2>4. editor'.on = editor.on /\ editor'.was = editor.was /\ editor'.drafts = editor.drafts
    BY <2>1 DEF TypedInv, EditorType
  <2> QED
    BY <2>2, <2>3, <2>4 DEF TypedInv, NothingTypedIsLeft
<1>2. CASE EntersEditing
  <2>1. editor' = [mode |-> "editing", on |-> TRUE, drafts |-> {}, was |-> text] /\ text' = text
        /\ ~editor.on
    BY <1>2 DEF EntersEditing, TypedInv
  <2>2. \A q \in Row : text[q] \in Settled
    BY <2>1 DEF TypedInv, NothingTypedIsLeft, Text, Settled
  <2> QED
    BY <2>1, <2>2 DEF TypedInv, NothingTypedIsLeft, EditorType, Settled
<1>3. CASE CancelsEditing
  BY <1>3, LeavesForKeeps DEF CancelsEditing
<1> QED
  BY <1>1, <1>2, <1>3

\* The user types, or takes it back.
LEMMA RowKeeps ==
    ASSUME TypedInv, NEW r \in Row, Types(r) \/ EscapesRow(r) PROVE TypedInv'
<1>1. CASE Types(r)
  <2>1. /\ editor.on /\ editor' = [editor EXCEPT !.drafts = @ \cup {r}]
        /\ text' = [text EXCEPT ![r] = "typed"]
    BY <1>1 DEF Types
  <2>2. /\ editor' \in EditorType /\ editor'.on = editor.on /\ editor'.mode = editor.mode
        /\ editor'.was = editor.was /\ editor'.drafts = editor.drafts \cup {r}
    BY <2>1 DEF TypedInv, EditorType
  <2>3. text' \in [Row -> Text] /\ \A q \in Row : q # r => text'[q] = text[q]
    BY <2>1 DEF TypedInv, Text
  <2> QED
    BY <2>1, <2>2, <2>3 DEF TypedInv, NothingTypedIsLeft
<1>2. CASE EscapesRow(r)
  <2>1. /\ editor.on /\ editor' = [editor EXCEPT !.drafts = @ \ {r}]
        /\ text' = [text EXCEPT ![r] = editor.was[r]]
    BY <1>2 DEF EscapesRow
  <2>2. /\ editor' \in EditorType /\ editor'.on = editor.on /\ editor'.mode = editor.mode
        /\ editor'.was = editor.was /\ editor'.drafts = editor.drafts \ {r}
    BY <2>1 DEF TypedInv, EditorType
  <2>3. /\ text' \in [Row -> Text] /\ text'[r] \in Settled
        /\ \A q \in Row : q # r => text'[q] = text[q]
    BY <2>1 DEF TypedInv, Text, Settled
  <2> QED
    BY <2>1, <2>2, <2>3 DEF TypedInv, NothingTypedIsLeft, Settled
<1> QED
  BY <1>1, <1>2

\* The user saves.
LEMMA SavesKeeps ==
    ASSUME TypedInv, Saves PROVE TypedInv'
<1>1. PICK rows : rows = {r \in editor.drafts : text[r] # editor.was[r]}
  OBVIOUS
<1>2. CASE rows = {}
  BY <1>1, <1>2, LeavesForKeeps DEF Saves
<1>3. CASE rows # {}
  <2>1. /\ editor.on /\ text' = [r \in Row |-> IF r \in rows THEN "saving" ELSE text[r]]
        /\ editor' = editor
    BY <1>1, <1>3 DEF Saves
  <2>2. text' \in [Row -> Text]
    BY <2>1 DEF TypedInv, Text
  <2>3. \A r \in Row : r \in rows \/ text'[r] = text[r]
    BY <2>1
  <2>4. rows \subseteq editor.drafts
    BY <1>1
  <2> QED
    BY <2>1, <2>2, <2>3, <2>4 DEF TypedInv, NothingTypedIsLeft
<1> QED
  BY <1>2, <1>3

\* An answer reaches the page.
LEMMA AnswersKeepTyped ==
    ASSUME TypedInv, NEW w, PageHears(w) PROVE TypedInv'
<1>1. CASE SaveAnswered(w) /\ w.at = "ok"
  <2>1. /\ editor' = [mode |-> "configuring", on |-> FALSE, drafts |-> {}, was |-> [r \in Row |-> "source"]]
        /\ text' = [r \in Row |-> IF text[r] = "saving" THEN "saved"
                                  ELSE IF text[r] = "typed" THEN "lost" ELSE text[r]]
    BY <1>1 DEF SaveAnswered, NoEditor
  <2>2. text' \in [Row -> Text] /\ \A r \in Row : text'[r] \notin {"typed", "saving"}
    BY <2>1 DEF TypedInv, Text
  <2> QED
    BY <2>1, <2>2 DEF TypedInv, NothingTypedIsLeft, EditorType, Text, Settled
<1>2. CASE SaveAnswered(w) /\ w.at # "ok"
  <2>1. editor' = editor /\ text' = [r \in Row |-> IF text[r] = "saving" THEN "typed" ELSE text[r]]
    BY <1>2 DEF SaveAnswered
  <2>2. text' \in [Row -> Text]
    BY <2>1 DEF TypedInv, Text
  <2> QED
    BY <2>1, <2>2 DEF TypedInv, NothingTypedIsLeft
<1>3. CASE DiscardAnswered(w)
  <2>1. editor' = editor
    BY <1>3 DEF DiscardAnswered
  <2>2. \/ text' = text
        \/ text' = [r \in Row |-> IF r \in w.rows /\ text[r] = "saved" THEN "source" ELSE text[r]]
    BY <1>3 DEF DiscardAnswered
  <2>3. text' \in [Row -> Text] /\ \A r \in Row : text'[r] = "source" \/ text'[r] = text[r]
    BY <2>2 DEF TypedInv, Text
  <2> QED
    BY <2>1, <2>3 DEF TypedInv, NothingTypedIsLeft
<1>4. CASE UNCHANGED <<editor, text>>
  BY <1>4 DEF TypedInv, NothingTypedIsLeft
<1> QED
  BY <1>1, <1>2, <1>3, <1>4 DEF PageHears, CountAnswered, CommitAnswered, KeepAnswered,
                                RollbackAnswered, OffEditor

\* Every step keeps what is typed a draft.
LEMMA TypedStep ==
    ASSUME TypedInv, [EditNext]_editVars PROVE TypedInv'
<1>1. CASE Picks \/ EntersEditing \/ CancelsEditing \/ \E r \in Row : Types(r) \/ EscapesRow(r)
  BY <1>1, EditorKeeps, RowKeeps
<1>2. CASE Saves
  BY <1>2, SavesKeeps
<1>3. CASE \E w \in wires : PageHears(w)
  BY <1>3, AnswersKeepTyped
<1>4. CASE HelperWorks
  <2>1. editor' = editor
    BY <1>4 DEF HelperWorks
  <2>2. \/ text' = text
        \/ \E gone : text' = [r \in Row |-> IF r \in gone /\ text[r] = "saved" THEN "source" ELSE text[r]]
    BY <1>4 DEF HelperWorks
  <2>3. text' \in [Row -> Text] /\ \A r \in Row : text'[r] = "source" \/ text'[r] = text[r]
    BY <2>2 DEF TypedInv, Text
  <2> QED
    BY <2>1, <2>3 DEF TypedInv, NothingTypedIsLeft
<1>5. CASE PageReloads
  <2>1. editor' = NoEditor /\ text' = [r \in Row |-> "source"]
    BY <1>5 DEF PageReloads
  <2> QED
    BY <2>1 DEF TypedInv, NothingTypedIsLeft, NoEditor, EditorType, Text, Settled
<1>6. CASE UNCHANGED <<editor, text>>
  BY <1>6 DEF TypedInv, NothingTypedIsLeft
<1> QED
  BY <1>1, <1>2, <1>3, <1>4, <1>5, <1>6
     DEF EditNext, editVars, Applies, Discards, KeepsFixing, RollsBack, NewsArrives, OtherTab,
         FeedBreaks, PhaseExpires, HelperGets, AnswerLost, OnRequest

-----------------------------------------------------------------------------
(* The freeze.                                                             *)

\* News that thaws nothing does not come between the page and what it awaits.
LEMMA NeutralIsAwaited ==
    ASSUME NEW f \in Seq(NewsData), NEW e \in NewsData, e.type \in Neutral,
           NEW i \in Nat, NEW v, NEW ws, Awaits(i, v, ws, f)
    PROVE  Awaits(i, v, ws, Append(f, e))
<1>1. PICK g : g = Append(f, e)
  OBVIOUS
<1>2. /\ Len(g) = Len(f) + 1 /\ g[Len(f) + 1] = e /\ Len(f) \in Nat
      /\ \A j \in 1 .. Len(f) : g[j] = f[j]
  BY <1>1
<1>3. \A j \in 1 .. Len(g) : j \in 1 .. Len(f) \/ j = Len(f) + 1
  BY <1>2
<1> QED
  BY <1>1, <1>2, <1>3 DEF Awaits

\* News that thaws the page is awaited.
LEMMA EndingIsAwaited ==
    ASSUME NEW f \in Seq(NewsData), NEW e \in NewsData, e.type \in Ending, NEW v, NEW ws
    PROVE  \E i \in Nat : Awaits(i, v, ws, Append(f, e))
<1>1. PICK g : g = Append(f, e)
  OBVIOUS
<1>2. Len(g) = Len(f) + 1 /\ g[Len(f) + 1] = e /\ Len(f) \in Nat
  BY <1>1
<1>3. Awaits(Len(f) + 1, v, ws, g)
  BY <1>2 DEF Awaits
<1> QED
  BY <1>1, <1>2, <1>3

\* The page hears the next news, and awaits the rest.
LEMMA HeadIsHeard ==
    ASSUME NEW f \in Seq(NewsData), f # <<>>, NEW i \in Nat, NEW v, NEW ws, Awaits(i, v, ws, f),
           NEW u, NEW xs, f[1].type \in Ending => Composed(u),
           f[1].type \in Neutral /\ (Composed(v) \/ \E w \in ws : Resolves(w))
               => Composed(u) \/ \E w \in xs : Resolves(w)
    PROVE  \E k \in Nat : Awaits(k, u, xs, Tail(f))
<1>1. PICK g : g = Tail(f)
  OBVIOUS
<1>2. Len(f) \in Nat \ {0} /\ Len(g) = Len(f) - 1 /\ \A j \in 1 .. Len(g) : g[j] = f[j + 1]
  BY <1>1
<1>3. \A j \in 1 .. Len(g) : j + 1 \in 1 .. Len(f)
  BY <1>2
<1>4. CASE i = 0
  <2>1. f[1].type \in Neutral
    BY <1>2, <1>4 DEF Awaits
  <2>2. Awaits(0, u, xs, g)
    BY <1>2, <1>3, <1>4, <2>1 DEF Awaits
  <2> QED
    BY <1>1, <2>2
<1>5. CASE i = 1
  <2>1. Awaits(0, u, xs, g)
    BY <1>2, <1>3, <1>5 DEF Awaits
  <2> QED
    BY <1>1, <2>1
<1>6. CASE i > 1
  <2>1. i - 1 \in 1 .. Len(g) /\ g[i - 1] = f[i]
    BY <1>2, <1>6 DEF Awaits
  <2>2. \A j \in 1 .. Len(g) : j > i - 1 => g[j].type \in Neutral
    BY <1>2, <1>3, <1>6 DEF Awaits
  <2>3. Awaits(i - 1, u, xs, g)
    BY <1>6, <2>1, <2>2 DEF Awaits
  <2> QED
    BY <1>1, <1>6, <2>3
<1> QED
  BY <1>4, <1>5, <1>6

FrozenInv == EditData /\ FreezeInv

\* The page acts, with view v and requests ws after it: no event is heard.
LEMMA ActsKeeps ==
    ASSUME FrozenInv, NEW v \in ViewData, Draws(v), wires' \in SUBSET WireData,
           UNCHANGED <<feed, stash, work, missed>>,
           Composed(View) \/ (\E w \in wires : Resolves(w))
               => Composed(v) \/ \E w \in wires' : Resolves(w)
    PROVE  FrozenInv'
<1>1. View' = v
  BY ViewDrawn
<1>2. EditData'
  BY <1>1 DEF FrozenInv, EditData
<1>3. ASSUME AtRest' PROVE (\E i \in Nat : Awaits(i, View, wires, feed))'
  <2>1. PICK i \in Nat : Awaits(i, View, wires, feed)
    BY <1>3 DEF FrozenInv, FreezeInv, AtRest
  <2>2. Awaits(i, v, wires', feed')
    BY <2>1 DEF Awaits
  <2> QED
    BY <1>1, <2>2
<1> QED
  BY <1>2, <1>3 DEF FrozenInv, FreezeInv

\* A view that nothing draws on.
LEMMA ViewStays ==
    ASSUME EditData, UNCHANGED <<dock, storedApply, stranded>>
    PROVE  \E v \in ViewData : v = View /\ Draws(v)
  BY ViewFields DEF EditData, Draws

\* A request is under way; a commit or keep request resolves.
LEMMA RequestsAreTyped ==
    ASSUME EditData, NEW k \in {"save", "count", "commit", "discard", "keep", "rollback"},
           NEW rows \in SUBSET Row, Requests(k, rows)
    PROVE  /\ wires' \in SUBSET WireData /\ wires \subseteq wires'
           /\ k \in {"commit", "keep"} => \E w \in wires' : Resolves(w)
<1>1. PICK w : w = Wire(k, rows)
  OBVIOUS
<1>2. w \in WireData /\ w.kind = k /\ w.at = "out"
  BY <1>1 DEF Wire, WireData
<1>3. wires' = wires \cup {w}
  BY <1>1 DEF Requests
<1> QED
  BY <1>2, <1>3 DEF Resolves, EditData

\* The user saves, applies, discards, keeps fixing or rolls back.
LEMMA UserKeepsFrozen ==
    ASSUME FrozenInv, editor \in EditorType,
           Saves \/ Applies \/ Discards \/ KeepsFixing \/ RollsBack
    PROVE  FrozenInv'
<1>1. EditData /\ View \in ViewData
  BY DEF FrozenInv, EditData
<1>2. CASE Saves
  <2>1. wires' \in SUBSET WireData /\ wires \subseteq wires'
    <3>1. {r \in editor.drafts : text[r] # editor.was[r]} \in SUBSET Row
      BY DEF EditorType
    <3> QED
      BY <1>1, <1>2, <3>1, RequestsAreTyped DEF Saves, EditData
  <2>2. PICK v \in ViewData : v = View /\ Draws(v)
    BY <1>1, <1>2, ViewStays DEF Saves, history
  <2> QED
    BY <1>2, <2>1, <2>2, ActsKeeps DEF Saves, helperSide, history
<1>3. CASE Applies
  <2>1. PICK v : v = Freezes(Phase(View, "applying"))
    OBVIOUS
  <2>2. v \in ViewData
    BY <1>1, <2>1, DockIsComposed DEF NoPhase
  <2>3. wires' \in SUBSET WireData /\ \E w \in wires' : Resolves(w)
    BY <1>1, <1>3, RequestsAreTyped DEF Applies
  <2> QED
    BY <1>3, <2>1, <2>2, <2>3, ActsKeeps DEF Applies, OnRequest, helperSide
<1>4. CASE Discards \/ RollsBack
  <2>1. wires' \in SUBSET WireData /\ wires \subseteq wires'
    BY <1>1, <1>4, RequestsAreTyped DEF Discards, RollsBack
  <2>2. PICK v \in ViewData : v = View /\ Draws(v)
    BY <1>1, <1>4, ViewStays DEF Discards, RollsBack
  <2> QED
    BY <1>4, <2>1, <2>2, ActsKeeps DEF Discards, RollsBack, OnRequest, helperSide
<1>5. CASE KeepsFixing
  <2>1. PICK v : v = Repairs(View)
    OBVIOUS
  <2>2. v \in ViewData
    BY <1>1, <2>1, DoneAndRepairs
  <2>3. wires' \in SUBSET WireData /\ \E w \in wires' : Resolves(w)
    BY <1>1, <1>5, RequestsAreTyped DEF KeepsFixing
  <2> QED
    BY <1>5, <2>1, <2>2, <2>3, ActsKeeps DEF KeepsFixing, OnRequest, helperSide
<1> QED
  BY <1>2, <1>3, <1>4, <1>5

\* An answer reaches the page, and may thaw it.
LEMMA AnswersKeepFrozen ==
    ASSUME FrozenInv, NEW w \in wires, PageHears(w) PROVE FrozenInv'
<1>1. /\ EditData /\ View \in ViewData /\ w \in WireData /\ w.n \in Nat /\ 0 \in Nat
      /\ wires' = wires \ {w} /\ UNCHANGED <<feed, stash, work, missed>>
  <2>1. wires' = wires \ {w} /\ UNCHANGED <<feed, missed>>
    BY DEF PageHears, SaveAnswered, CountAnswered, CommitAnswered, DiscardAnswered, KeepAnswered,
           RollbackAnswered, OffEditor, Heard
  <2> QED
    BY <2>1 DEF FrozenInv, EditData, WireData, PageHears, helperSide
<1>2. wires' \in SUBSET WireData /\ (~Resolves(w) => \A x \in wires : Resolves(x) => x \in wires')
  BY <1>1 DEF EditData
\* It is enough that the page is composed after it, or its answer means nothing.
<1>3. ASSUME NEW v \in ViewData, Draws(v),
             Composed(v) \/ (~Resolves(w) /\ (Composed(View) => Composed(v)))
      PROVE  FrozenInv'
  BY <1>1, <1>2, <1>3, ActsKeeps
<1>4. w.kind \notin {"commit", "keep"} => ~Resolves(w)
  BY DEF Resolves
<1>5. CASE SaveAnswered(w) \/ CountAnswered(w) \/ RollbackAnswered(w) \/ DiscardAnswered(w)
  <2>1. ~Resolves(w)
    BY <1>4, <1>5 DEF SaveAnswered, CountAnswered, RollbackAnswered, DiscardAnswered
  <2>2. CASE UNCHANGED <<dock, storedApply, stranded>>
    <3>1. PICK v \in ViewData : v = View /\ Draws(v)
      BY <1>1, <2>2, ViewStays
    <3> QED
      BY <1>3, <2>1, <3>1
  <2>3. CASE Draws(CountsTo(View, w.n)) \/ Draws(CountsTo(View, 0))
    <3>1. PICK v \in ViewData : Draws(v) /\ (Composed(View) => Composed(v))
      BY <1>1, <2>3, CountsToIsComposed
    <3> QED
      BY <1>3, <2>1, <3>1
  <2>4. CASE Draws(CountsTo(Phase(View, NoPhase), w.n))
    <3>1. Phase(View, NoPhase) \in ViewData /\ (Composed(View) => Composed(Phase(View, NoPhase)))
      BY <1>1, DockIsComposed DEF NoPhase
    <3>2. PICK v \in ViewData : Draws(v) /\ (Composed(View) => Composed(v))
      BY <1>1, <2>4, <3>1, CountsToIsComposed
    <3> QED
      BY <1>3, <2>1, <3>2
  <2>5. CASE Draws(View)
    BY <1>1, <1>3, <2>1, <2>5
  <2> QED
    BY <1>5, <2>2, <2>3, <2>4, <2>5 DEF SaveAnswered, CountAnswered, RollbackAnswered,
                                          DiscardAnswered
<1>6. CASE CommitAnswered(w)
  <2>1. PICK v : v = IF w.at = "ok" THEN CountsTo(View, w.n) ELSE View
    OBVIOUS
  <2>2. v \in ViewData
    BY <1>1, <2>1, CountsToIsComposed
  <2>3. CASE w.at = "ok" /\ w.n > 0
    <3>1. ~Resolves(w)
      BY <1>1, <2>3 DEF Resolves
    <3>2. Draws(View)
      BY <1>6, <2>3 DEF CommitAnswered
    <3> QED
      BY <1>1, <1>3, <3>1, <3>2
  <2>4. CASE ~(w.at = "ok" /\ w.n > 0)
    <3>1. Draws(Thaws(v)) \/ Draws(Hidden(v))
      BY <1>6, <2>1, <2>4 DEF CommitAnswered
    <3>2. /\ Thaws(v) \in ViewData /\ Composed(Thaws(v))
          /\ Hidden(v) \in ViewData /\ Composed(Hidden(v))
      BY <1>1, <2>2, DockIsComposed DEF NoPhase
    <3> QED
      BY <1>3, <3>1, <3>2
  <2> QED
    BY <2>3, <2>4
<1>7. CASE KeepAnswered(w)
  <2>1. CASE w.at = "ok"
    <3>1. ~Resolves(w)
      BY <1>7, <2>1 DEF Resolves, KeepAnswered
    <3>2. PICK v : v = [View EXCEPT !.dock.decide = FALSE, !.dock.trash = TRUE]
      OBVIOUS
    <3>3. v \in ViewData /\ (Composed(View) => Composed(v))
      BY <1>1, <3>2, DockIsComposed DEF NoPhase
    <3>4. Draws(v)
      BY <1>7, <2>1, <3>2 DEF KeepAnswered
    <3> QED
      BY <1>3, <3>1, <3>3, <3>4
  <2>2. CASE w.at # "ok"
    <3>1. AsksUser(View) \in ViewData /\ Composed(AsksUser(View)) /\ Draws(AsksUser(View))
      BY <1>1, <1>7, <2>2, DockIsComposed DEF NoPhase, KeepAnswered
    <3> QED
      BY <1>3, <3>1
  <2> QED
    BY <2>1, <2>2
<1> QED
  BY <1>5, <1>6, <1>7 DEF PageHears

\* News reaches the page, and may thaw it.
LEMMA NewsKeepsFrozen ==
    ASSUME FrozenInv, NewsArrives PROVE FrozenInv'
<1>1. /\ EditData /\ View \in ViewData /\ feed \in Seq(NewsData) /\ feed # <<>>
      /\ feed' = Tail(feed) /\ feed' \in Seq(NewsData) /\ UNCHANGED <<stash, work, missed>>
  BY DEF NewsArrives, FrozenInv, EditData, helperSide
<1>2. PICK e \in NewsData : e = feed[1] /\ e = Head(feed)
  BY <1>1
<1>3. e.type \in Freezing \cup Ending \cup Neutral /\ e.n \in Nat
  BY <1>2 DEF NewsData
<1>4. wires' \in SUBSET WireData /\ wires \subseteq wires'
  BY <1>1, RequestsAreTyped DEF NewsArrives, Refetches, Requests, EditData
<1>5. \E v \in ViewData : /\ Draws(v) /\ (e.type \in Ending => Composed(v))
                          /\ (e.type \in Neutral => (Composed(View) => Composed(v)))
  <2>1. CASE e.type = "stashed"
    <3>1. Draws(CountsTo(View, e.n))
      BY <1>2, <2>1 DEF NewsArrives
    <3> QED
      BY <1>1, <1>3, <2>1, <3>1, CountsToIsComposed DEF Ending
  <2>2. CASE e.type = "started"
    <3>1. Draws(Freezes(Phase(CountsTo(View, e.n), "applying")))
      BY <1>2, <2>2 DEF NewsArrives
    <3>2. CountsTo(View, e.n) \in ViewData
      BY <1>1, <1>3, CountsToIsComposed
    <3>3. Phase(CountsTo(View, e.n), "applying") \in ViewData
      BY <3>2, DockIsComposed DEF NoPhase
    <3>4. Freezes(Phase(CountsTo(View, e.n), "applying")) \in ViewData
      BY <3>3, DockIsComposed DEF NoPhase
    <3> QED
      BY <2>2, <3>1, <3>4 DEF Ending, Neutral
  <2>3. CASE e.type = "restarted"
    <3>1. Draws(Freezes(Repairs(CountsTo(View, e.n))))
      BY <1>2, <2>3 DEF NewsArrives
    <3>2. CountsTo(View, e.n) \in ViewData
      BY <1>1, <1>3, CountsToIsComposed
    <3>3. Repairs(CountsTo(View, e.n)) \in ViewData
      BY <3>2, DoneAndRepairs
    <3>4. Freezes(Repairs(CountsTo(View, e.n))) \in ViewData
      BY <3>3, DockIsComposed DEF NoPhase
    <3> QED
      BY <2>3, <3>1, <3>4 DEF Ending, Neutral
  <2>4. CASE e.type = "chunk"
    <3>1. Draws(Freezes(Phase(View, "verifying"))) \/ Draws(View)
      BY <1>2, <2>4 DEF NewsArrives
    <3>2. Phase(View, "verifying") \in ViewData
      BY <1>1, DockIsComposed DEF NoPhase
    <3>3. Freezes(Phase(View, "verifying")) \in ViewData
      BY <3>2, DockIsComposed DEF NoPhase
    <3> QED
      BY <1>1, <2>4, <3>1, <3>3 DEF Ending, Neutral
  <2>5. CASE e.type = "repair"
    <3>1. Draws(Repairs(View)) /\ Repairs(View) \in ViewData
      BY <1>1, <1>2, <2>5, DoneAndRepairs DEF NewsArrives
    <3> QED
      BY <2>5, <3>1 DEF Ending, Neutral
  <2>6. CASE e.type = "decide"
    <3>1. Draws(AsksUser(View))
      BY <1>2, <2>6 DEF NewsArrives
    <3>2. AsksUser(View) \in ViewData /\ Composed(AsksUser(View))
      BY <1>1, DockIsComposed DEF NoPhase
    <3> QED
      BY <3>1, <3>2
  <2>7. CASE e.type = "rolledback"
    <3>1. Draws(Phase(View, NoPhase))
      BY <1>2, <2>7 DEF NewsArrives
    <3>2. Phase(View, NoPhase) \in ViewData /\ (Composed(View) => Composed(Phase(View, NoPhase)))
      BY <1>1, DockIsComposed DEF NoPhase
    <3> QED
      BY <2>7, <3>1, <3>2 DEF Ending
  <2>8. CASE e.type = "done"
    <3>1. Draws(Done(View, e.n))
      BY <1>2, <2>8 DEF NewsArrives
    <3> QED
      BY <1>1, <1>3, <3>1, DoneAndRepairs
  <2>9. CASE e.type = "failed"
    <3>1. Draws(Thaws(View))
      BY <1>2, <2>9 DEF NewsArrives
    <3>2. Thaws(View) \in ViewData /\ Composed(Thaws(View))
      BY <1>1, DockIsComposed DEF NoPhase
    <3> QED
      BY <3>1, <3>2
  <2>10. CASE e.type = "discarded"
    <3>1. Draws(View)
      BY <1>2, <2>10 DEF NewsArrives
    <3> QED
      BY <1>1, <2>10, <3>1 DEF Ending
  <2> QED
    BY <1>3, <2>1, <2>2, <2>3, <2>4, <2>5, <2>6, <2>7, <2>8, <2>9, <2>10
       DEF Freezing, Ending, Neutral
<1>6. PICK v \in ViewData : /\ Draws(v) /\ (e.type \in Ending => Composed(v))
                            /\ (e.type \in Neutral => (Composed(View) => Composed(v)))
  BY <1>5
<1>7. View' = v
  BY <1>6, ViewDrawn
<1>8. EditData'
  BY <1>1, <1>4, <1>7 DEF EditData
<1>9. ASSUME AtRest' PROVE (\E i \in Nat : Awaits(i, View, wires, feed))'
  <2>1. PICK i \in Nat : Awaits(i, View, wires, feed)
    BY <1>1, <1>9 DEF FrozenInv, FreezeInv, AtRest
  <2>2. \E k \in Nat : Awaits(k, v, wires', Tail(feed))
    BY <1>1, <1>2, <1>4, <1>6, <2>1, HeadIsHeard
  <2> QED
    BY <1>1, <1>7, <2>2
<1> QED
  BY <1>8, <1>9 DEF FrozenInv, FreezeInv

\* The helper acts: where it rests after it, it rested, and it has said nothing
\* that freezes the page, or its last word thaws it.
LEMMA HelperSpeaks ==
    ASSUME FrozenInv, UNCHANGED <<dock, storedApply, stranded>>,
           wires' \in SUBSET WireData, stash' \subseteq Row, missed' \in BOOLEAN, feed' \in Seq(NewsData),
           work' \in {"idle", "applying", "repairing", "deciding"},
           AtRest' => \/ \E e \in NewsData : e.type \in Ending /\ feed' = Append(feed, e)
                      \/ /\ AtRest
                         /\ feed' = feed \/ \E e \in NewsData : e.type \in Neutral /\ feed' = Append(feed, e)
                         /\ (\E x \in wires : Resolves(x)) => \E x \in wires' : Resolves(x)
    PROVE  FrozenInv'
<1>1. EditData /\ feed \in Seq(NewsData)
  BY DEF FrozenInv, EditData
<1>2. View' = View
  BY DEF View
<1>3. EditData'
  BY <1>1, <1>2 DEF EditData
<1>4. ASSUME AtRest' PROVE (\E i \in Nat : Awaits(i, View, wires, feed))'
  <2>1. PICK v : v = View /\ v = View'
    BY <1>2
  <2>2. CASE \E e \in NewsData : e.type \in Ending /\ feed' = Append(feed, e)
    <3>1. \E i \in Nat : Awaits(i, v, wires', feed')
      BY <1>1, <2>2, EndingIsAwaited
    <3> QED
      BY <2>1, <3>1
  <2>3. CASE /\ AtRest
             /\ feed' = feed \/ \E e \in NewsData : e.type \in Neutral /\ feed' = Append(feed, e)
             /\ (\E x \in wires : Resolves(x)) => \E x \in wires' : Resolves(x)
    <3>1. PICK i \in Nat : Awaits(i, v, wires, feed)
      BY <2>1, <2>3 DEF FrozenInv, FreezeInv
    <3>2. Awaits(i, v, wires', feed)
      BY <2>3, <3>1 DEF Awaits
    <3>3. Awaits(i, v, wires', feed')
      BY <1>1, <2>3, <3>2, NeutralIsAwaited
    <3> QED
      BY <2>1, <3>3
  <2> QED
    BY <1>4, <2>2, <2>3
<1> QED
  BY <1>3, <1>4 DEF FrozenInv, FreezeInv

\* What the helper announces is news.
LEMMA AnnouncedIsTyped ==
    ASSUME EditData, NEW type \in Freezing \cup Ending \cup Neutral, NEW n \in Nat, Announces(type, n)
    PROVE  /\ feed' \in Seq(NewsData)
           /\ \E e \in NewsData : e.type = type /\ feed' = Append(feed, e)
<1>1. PICK e : e = News(type, n)
  OBVIOUS
<1>2. e \in NewsData /\ e.type = type
  BY <1>1 DEF News, NewsData
<1>3. feed' = Append(feed, e)
  BY <1>1 DEF Announces
<1> QED
  BY <1>2, <1>3 DEF EditData

\* What the helper may do at a request, or for another tab.
LEMMA StashActs ==
    ASSUME EditData, NEW rows \in SUBSET Row,
           StashSaves(rows) \/ CommitStarts \/ StashDiscards \/ RepairStarts \/ RollbackDone
    PROVE  /\ stash' \subseteq Row /\ work' \in {"idle", "applying", "repairing", "deciding"}
           /\ feed' \in Seq(NewsData)
           /\ \/ work' \in {"applying", "repairing"} /\ work' # work
              \/ /\ work \in {"idle", "deciding"} <=> work' \in {"idle", "deciding"}
                 /\ \E e \in NewsData : e.type \in Neutral /\ feed' = Append(feed, e)
<1>1. 0 \in Nat /\ Cardinality(stash) \in Nat /\ Cardinality(stash \cup rows) \in Nat
  BY StashIsCounted DEF EditData
<1>2. CASE StashSaves(rows)
  BY <1>1, <1>2, AnnouncedIsTyped DEF StashSaves, EditData, Neutral
<1>3. CASE CommitStarts
  BY <1>1, <1>3, AnnouncedIsTyped DEF CommitStarts, EditData, Freezing
<1>4. CASE StashDiscards
  BY <1>1, <1>4, AnnouncedIsTyped DEF StashDiscards, EditData, Neutral
<1>5. CASE RepairStarts
  BY <1>1, <1>5, AnnouncedIsTyped DEF RepairStarts, EditData, Freezing
<1>6. CASE RollbackDone
  BY <1>1, <1>6, AnnouncedIsTyped DEF RollbackDone, EditData, Neutral
<1> QED
  BY <1>2, <1>3, <1>4, <1>5, <1>6

\* What the helper replies is an answer to the request.
LEMMA RepliesAreTyped ==
    ASSUME EditData, NEW w \in wires, NEW at \in {"ok", "bad"}, NEW n \in Nat, NEW rows \in SUBSET Row,
           Replies(w, at, n, rows)
    PROVE  /\ wires' \in SUBSET WireData /\ \A x \in wires : x # w => x \in wires'
           /\ w.at # "orphan" => \E y \in wires' : y.kind = w.kind /\ y.at = at /\ y.n = n
<1>1. PICK y : y = [w EXCEPT !.at = at, !.n = n, !.rows = rows]
  OBVIOUS
<1>2. w \in WireData
  BY DEF EditData
<1>3. y \in WireData /\ y.kind = w.kind /\ y.at = at /\ y.n = n
  BY <1>1, <1>2 DEF WireData
<1>4. wires' = (wires \ {w}) \cup (IF w.at = "orphan" THEN {} ELSE {y})
  BY <1>1 DEF Replies
<1> QED
  BY <1>3, <1>4 DEF EditData

\* A request reaches the helper.
LEMMA HelperKeepsFrozen ==
    ASSUME FrozenInv, NEW w \in wires, HelperGets(w) PROVE FrozenInv'
<1>1. /\ EditData /\ w \in WireData /\ w.rows \in SUBSET Row /\ stash \in SUBSET Row /\ {} \in SUBSET Row
      /\ 0 \in Nat /\ Cardinality(stash) \in Nat /\ missed \in BOOLEAN
  BY StashIsCounted DEF FrozenInv, EditData, WireData
<1>2. /\ UNCHANGED <<dock, storedApply, stranded>> /\ missed' \in BOOLEAN
      /\ missed' = (missed \/ (w.at = "orphan" /\ w.kind \in {"commit", "keep"} /\ work' = work))
  BY DEF HelperGets
<1>3. stash' \subseteq Row /\ Cardinality(stash') \in Nat
  <2>1. stash' \subseteq Row
    BY <1>1, StashActs DEF HelperGets, Refuses
  <2> QED
    BY <2>1, StashIsCounted
<1>4. CASE /\ w.kind \notin {"commit", "keep"}
           /\ \E at \in {"ok", "bad"}, n \in Nat, rows \in SUBSET Row : Replies(w, at, n, rows)
           /\ \/ UNCHANGED <<stash, work, feed>>
              \/ \E rows \in SUBSET Row : StashSaves(rows) \/ StashDiscards \/ RollbackDone
  <2>1. wires' \in SUBSET WireData /\ \A x \in wires : x # w => x \in wires'
    BY <1>1, <1>4, RepliesAreTyped
  <2>2. (\E x \in wires : Resolves(x)) => \E x \in wires' : Resolves(x)
    BY <1>4, <2>1 DEF Resolves
  <2>3. missed' = missed
    BY <1>1, <1>2, <1>4
  <2>4. CASE UNCHANGED <<stash, work, feed>>
    <3>1. AtRest' => AtRest
      BY <2>3, <2>4 DEF AtRest
    <3>2. feed' \in Seq(NewsData) /\ work' \in {"idle", "applying", "repairing", "deciding"}
      BY <1>1, <2>4 DEF EditData
    <3> QED
      BY <1>2, <1>3, <2>1, <2>2, <2>4, <3>1, <3>2, HelperSpeaks
  <2>5. CASE \E rows \in SUBSET Row : StashSaves(rows) \/ StashDiscards \/ RollbackDone
    <3>1. /\ work' \in {"idle", "applying", "repairing", "deciding"} /\ feed' \in Seq(NewsData)
          /\ \/ work' \in {"applying", "repairing"}
             \/ /\ work \in {"idle", "deciding"} <=> work' \in {"idle", "deciding"}
                /\ \E e \in NewsData : e.type \in Neutral /\ feed' = Append(feed, e)
      BY <1>1, <2>5, StashActs
    <3> QED
      BY <1>2, <1>3, <2>1, <2>2, <2>3, <3>1, HelperSpeaks DEF AtRest
  <2> QED
    BY <1>4, <2>4, <2>5
<1>5. CASE /\ CommitStarts \/ RepairStarts
           /\ \E n \in Nat : Replies(w, "ok", n, {})
  <2>1. wires' \in SUBSET WireData
    BY <1>1, <1>5, RepliesAreTyped
  <2>2. work' \in {"applying", "repairing"} /\ feed' \in Seq(NewsData)
    BY <1>1, <1>5, StashActs DEF CommitStarts, RepairStarts
  <2>3. ~AtRest'
    BY <2>2 DEF AtRest
  <2> QED
    BY <1>2, <1>3, <2>1, <2>2, <2>3, HelperSpeaks
<1>6. CASE /\ w.kind \in {"commit", "keep"} /\ UNCHANGED <<stash, work, feed>>
           /\ Replies(w, "bad", 0, {}) \/ (w.kind = "commit" /\ Replies(w, "ok", 0, {}))
  <2>1. wires' \in SUBSET WireData
    BY <1>1, <1>6, RepliesAreTyped
  <2>2. w.at # "orphan" => \E y \in wires' : Resolves(y)
    BY <1>1, <1>6, RepliesAreTyped DEF Resolves
  <2>3. w.at = "orphan" => missed'
    BY <1>2, <1>6
  <2>4. AtRest' => AtRest /\ \E y \in wires' : Resolves(y)
    BY <1>2, <1>6, <2>2, <2>3 DEF AtRest
  <2> QED
    BY <1>1, <1>2, <1>6, <2>1, <2>4, HelperSpeaks DEF EditData
<1>7. \/ w.kind = "save" /\ StashSaves(w.rows) /\ Replies(w, "ok", Cardinality(stash'), w.rows)
      \/ w.kind = "count" /\ Replies(w, "ok", Cardinality(stash), {}) /\ UNCHANGED <<stash, work, feed>>
      \/ w.kind = "commit" /\ CommitStarts /\ Replies(w, "ok", Cardinality(stash), {})
      \/ w.kind = "commit" /\ stash = {} /\ Replies(w, "ok", 0, {}) /\ UNCHANGED <<stash, work, feed>>
      \/ w.kind = "discard" /\ StashDiscards /\ Replies(w, "ok", 0, stash)
      \/ w.kind = "keep" /\ RepairStarts /\ Replies(w, "ok", 0, {})
      \/ w.kind = "rollback" /\ RollbackDone /\ Replies(w, "ok", Cardinality(stash), {})
      \/ w.kind \in {"commit", "discard", "keep", "rollback"} /\ Refuses(w)
  BY DEF HelperGets
<1> QED
  <2>1. CASE w.kind \notin {"commit", "keep"}
    BY <1>1, <1>3, <1>4, <1>7, <2>1 DEF Refuses
  <2>2. CASE w.kind \in {"commit", "keep"}
    BY <1>1, <1>5, <1>6, <1>7, <2>2 DEF Refuses
  <2> QED
    BY <2>1, <2>2

\* The agent speaks: what it says last ends the freeze.
LEMMA AgentKeepsFrozen ==
    ASSUME FrozenInv, HelperWorks PROVE FrozenInv'
<1>1. EditData /\ stash \in SUBSET Row /\ wires \in SUBSET WireData /\ missed \in BOOLEAN /\ 0 \in Nat
  BY DEF FrozenInv, EditData
<1>2. UNCHANGED <<dock, storedApply, stranded, wires, missed>>
  BY DEF HelperWorks, history
<1>3. CASE (Announces("chunk", 0) \/ Announces("repair", 0)) /\ stash' = stash
           /\ work' \in {"applying", "repairing"}
  <2>1. feed' \in Seq(NewsData)
    BY <1>1, <1>3, AnnouncedIsTyped DEF Freezing
  <2> QED
    BY <1>1, <1>2, <1>3, <2>1, HelperSpeaks DEF AtRest
<1>4. CASE /\ \E type \in Ending, n \in Nat : Announces(type, n)
           /\ stash' \subseteq stash /\ work' \in {"idle", "deciding"}
  <2>1. feed' \in Seq(NewsData) /\ \E e \in NewsData : e.type \in Ending /\ feed' = Append(feed, e)
    BY <1>1, <1>4, AnnouncedIsTyped
  <2> QED
    BY <1>1, <1>2, <1>4, <2>1, HelperSpeaks
<1>5. \A failed \in SUBSET stash : Cardinality(failed) \in Nat
  BY <1>1, StashIsCounted
<1> QED
  BY <1>1, <1>3, <1>4, <1>5 DEF HelperWorks, Ending

\* Another tab, a lost stream or answer, a reload, a phase that expires.
LEMMA TroubleKeepsFrozen ==
    ASSUME FrozenInv,
           \/ OtherTab \/ FeedBreaks \/ PageReloads \/ PhaseExpires \/ \E w \in wires : AnswerLost(w)
    PROVE  FrozenInv'
<1>1. EditData /\ stash \in SUBSET Row /\ wires \in SUBSET WireData /\ missed \in BOOLEAN
      /\ View \in ViewData
  BY DEF FrozenInv, EditData
<1>2. CASE OtherTab
  <2>1. /\ stash' \subseteq Row /\ work' \in {"idle", "applying", "repairing", "deciding"}
        /\ feed' \in Seq(NewsData)
        /\ \/ work' \in {"applying", "repairing"}
           \/ /\ work \in {"idle", "deciding"} <=> work' \in {"idle", "deciding"}
              /\ \E e \in NewsData : e.type \in Neutral /\ feed' = Append(feed, e)
    <3>1. PICK rows \in SUBSET Row : StashSaves(rows) \/ CommitStarts \/ StashDiscards
                                     \/ RepairStarts \/ RollbackDone
      BY <1>2 DEF OtherTab
    <3> QED
      BY <1>1, <3>1, StashActs
  <2>2. UNCHANGED <<dock, storedApply, stranded, wires, missed>>
    BY <1>2 DEF OtherTab, history
  <2> QED
    BY <1>1, <2>1, <2>2, HelperSpeaks DEF AtRest
<1>3. CASE \E w \in wires : AnswerLost(w)
  <2>1. PICK w \in wires : AnswerLost(w)
    BY <1>3
  <2>2. PICK y : y = [w EXCEPT !.at = "bad"]
    OBVIOUS
  <2>3. y \in WireData /\ y.kind = w.kind /\ y.at = "bad"
    BY <1>1, <2>2 DEF WireData
  <2>4. wires' = (wires \ {w}) \cup {y} /\ UNCHANGED <<dock, storedApply, feed, stash, work, missed, stranded>>
    BY <2>1, <2>2 DEF AnswerLost, helperSide, history
  <2>5. wires' \in SUBSET WireData
    BY <1>1, <2>3, <2>4
  <2>6. (\E x \in wires : Resolves(x)) => \E x \in wires' : Resolves(x)
    BY <2>3, <2>4 DEF Resolves
  <2>7. PICK v \in ViewData : v = View /\ Draws(v)
    BY <1>1, <2>4, ViewStays
  <2> QED
    BY <2>4, <2>5, <2>6, <2>7, ActsKeeps
<1>4. CASE FeedBreaks
  <2>1. /\ UNCHANGED <<dock, storedApply, stranded, wires, stash, work>> /\ feed' = <<>> /\ missed' = TRUE
    BY <1>4 DEF FeedBreaks, helperSide
  <2>2. feed' \in Seq(NewsData)
    BY <2>1
  <2> QED
    BY <1>1, <2>1, <2>2, HelperSpeaks DEF AtRest, EditData
<1>5. CASE PageReloads
  <2>1. PICK v : v = [dock |-> NoDock, phase |-> storedApply, stranded |-> stranded]
    OBVIOUS
  <2>2. v \in ViewData /\ (Composed(View) => Composed(v))
    BY <1>1, <2>1, ViewFields DEF ViewData, DockData, NoDock, Composed
  <2>3. Draws(v) /\ feed' = <<>> /\ UNCHANGED <<stash, work>>
    BY <1>5, <2>1 DEF PageReloads, Draws, helperSide
  <2>4. \A x \in wires : x.kind # "count" /\ x.at \in {"out", "orphan"} => [x EXCEPT !.at = "orphan"] \in wires'
    BY <1>5 DEF PageReloads
  <2>5. wires' \in SUBSET WireData
    <3>1. \A x \in wires : [x EXCEPT !.at = "orphan"] \in WireData
      BY <1>1 DEF WireData
    <3>2. Wire("count", {}) \in WireData
      BY DEF Wire, WireData
    <3> QED
      BY <1>5, <3>1, <3>2 DEF PageReloads
  <2>6. missed' \in BOOLEAN /\ (~missed' => ~missed /\ feed = <<>> /\ ~\E w \in wires : w.at \in {"ok", "bad"} /\ Unstarted(w))
    BY <1>1, <1>5 DEF PageReloads
  <2>7. ASSUME ~missed', NEW x \in wires, Resolves(x) PROVE \E y \in wires' : Resolves(y)
    <3>1. x \in WireData
      BY <1>1
    <3>2. x.at \in {"out", "orphan"}
      BY <2>6, <2>7, <3>1 DEF Resolves, Unstarted, WireData
    <3>3. PICK y : y = [x EXCEPT !.at = "orphan"]
      OBVIOUS
    <3>4. y \in wires' /\ y.kind = x.kind /\ y.at = "orphan"
      BY <2>4, <2>7, <3>1, <3>2, <3>3 DEF Resolves, WireData
    <3> QED
      BY <2>7, <3>4 DEF Resolves
  <2>8. View' = v
    BY <2>2, <2>3, ViewDrawn
  <2>9. EditData'
    BY <1>1, <2>2, <2>3, <2>5, <2>6, <2>8 DEF EditData
  <2>10. ASSUME AtRest' PROVE (\E i \in Nat : Awaits(i, View, wires, feed))'
    <3>1. AtRest /\ feed = <<>> /\ ~missed'
      BY <2>3, <2>6, <2>10 DEF AtRest
    <3>2. Len(feed) = 0 /\ Len(feed') = 0
      BY <2>3, <3>1
    <3>3. Composed(View) \/ \E w \in wires : Resolves(w)
      BY <3>1, <3>2 DEF FrozenInv, FreezeInv, Awaits
    <3>4. Composed(v) \/ \E w \in wires' : Resolves(w)
      BY <2>2, <2>7, <3>1, <3>3
    <3>5. Awaits(0, v, wires', feed')
      BY <3>2, <3>4 DEF Awaits
    <3> QED
      BY <2>8, <3>5
  <2> QED
    BY <2>9, <2>10 DEF FrozenInv, FreezeInv
<1>6. CASE PhaseExpires
  <2>1. PICK v : v = Phase(View, NoPhase)
    OBVIOUS
  <2>2. v \in ViewData /\ (Composed(View) => Composed(v))
    BY <1>1, <2>1, DockIsComposed DEF NoPhase
  <2>3. Draws(v) /\ UNCHANGED <<feed, stash, work, missed, wires>>
    BY <1>1, <1>6, <2>1, ViewFields DEF PhaseExpires, Draws, Phase, ViewData, helperSide, history
  <2>4. wires' \in SUBSET WireData
    BY <1>1, <2>3
  <2>5. (\E w \in wires : Resolves(w)) => \E w \in wires' : Resolves(w)
    BY <2>3
  <2> QED
    BY <2>2, <2>3, <2>4, <2>5, ActsKeeps
<1> QED
  BY <1>2, <1>3, <1>4, <1>5, <1>6

\* Every step keeps the reason of a freeze.
LEMMA FrozenStep ==
    ASSUME FrozenInv, editor \in EditorType, [EditNext]_editVars PROVE FrozenInv'
<1>1. CASE UNCHANGED <<dock, storedApply, stranded, wires, feed, stash, work, missed>>
  BY <1>1 DEF FrozenInv, EditData, FreezeInv, AtRest, Awaits, Composed, Resolves, View
<1>2. CASE Saves \/ Applies \/ Discards \/ KeepsFixing \/ RollsBack
  BY <1>2, UserKeepsFrozen
<1>3. CASE \E w \in wires : PageHears(w)
  BY <1>3, AnswersKeepFrozen
<1>4. CASE NewsArrives
  BY <1>4, NewsKeepsFrozen
<1>5. CASE \E w \in wires : HelperGets(w)
  BY <1>5, HelperKeepsFrozen
<1>6. CASE HelperWorks
  BY <1>6, AgentKeepsFrozen
<1>7. CASE \/ OtherTab \/ FeedBreaks \/ PageReloads \/ PhaseExpires \/ \E w \in wires : AnswerLost(w)
  BY <1>7, TroubleKeepsFrozen
<1>8. Picks \/ EntersEditing \/ CancelsEditing \/ (\E r \in Row : Types(r) \/ EscapesRow(r))
      => UNCHANGED <<dock, storedApply, stranded, wires, feed, stash, work, missed>>
  BY DEF Picks, EntersEditing, CancelsEditing, Types, EscapesRow, OnEditor, helperSide, history
<1> QED
  BY <1>1, <1>2, <1>3, <1>4, <1>5, <1>6, <1>7, <1>8 DEF EditNext, editVars

\* The invariant of the copy edits: what is typed is remembered as a draft, and
\* a page that is frozen while the helper rests has an event or an answer on
\* its way after which nothing freezes it again.
EditIInv == TypedInv /\ FrozenInv

\* Nothing is edited when the page opens.
LEMMA EditStarts == EditInit => EditIInv
<1> SUFFICES ASSUME EditInit PROVE EditIInv
  OBVIOUS
<1>1. TypedInv
  BY DEF EditInit, TypedInv, NoEditor, EditorType, Text, Settled, NothingTypedIsLeft
<1>2. View \in ViewData /\ Composed(View)
  BY DEF EditInit, View, ViewData, DockData, NoDock, Composed
<1>3. Wire("count", {}) \in WireData
  BY DEF Wire, WireData
<1>4. feed \in Seq(NewsData) /\ Len(feed) = 0
  BY DEF EditInit
<1>5. EditData
  BY <1>2, <1>3, <1>4 DEF EditInit, EditData
<1>6. Awaits(0, View, wires, feed)
  BY <1>2, <1>4 DEF Awaits
<1> QED
  BY <1>1, <1>5, <1>6 DEF EditIInv, FrozenInv, FreezeInv

\* The copy edits keep their invariant, for any texts of the page and any bounds.
THEOREM EditInvariant == EditSpec => []EditIInv
<1>1. EditInit => EditIInv
  BY EditStarts
<1>2. EditIInv /\ [EditNext]_editVars => EditIInv'
  BY TypedStep, FrozenStep DEF EditIInv, TypedInv
<1> QED
  BY <1>1, <1>2, PTL DEF EditSpec

\* However an editing ends (saved, cancelled, the bar hidden, the page loaded
\* again), what was typed and not saved is not left in the page.
THEOREM EditsAreRestored == EditSpec => []NothingTypedIsLeft
<1>1. EditIInv => NothingTypedIsLeft
  BY DEF EditIInv, TypedInv
<1> QED
  BY <1>1, EditInvariant, PTL

\* The page is frozen only while the helper works, while word of it is on its
\* way, or where the model names what was lost.
THEOREM FreezesAreGrounded == EditSpec => []FreezeHasAReason
<1>1. EditIInv => FreezeHasAReason
  <2> SUFFICES ASSUME EditIInv, dock.frozen, work = "idle", feed = <<>>, wires = {}, ~missed
               PROVE  stranded
    BY DEF FreezeHasAReason
  <2>1. PICK i \in Nat : Awaits(i, View, wires, feed)
    BY DEF EditIInv, FrozenInv, FreezeInv, AtRest
  <2>2. Len(feed) = 0
    OBVIOUS
  <2>3. Composed(View)
    BY <2>1, <2>2 DEF Awaits
  <2> QED
    BY <2>3, ViewFields DEF Composed
<1> QED
  BY <1>1, EditInvariant, PTL

-----------------------------------------------------------------------------
(* The previews of a page that has begun one session.                      *)

DraftsOf(B) == B \cup {NoDraft}
BoxesOf(B) == B \X (1 .. MaxWrappers)
UiOf == {"PICKING", "GENERATING", "CYCLING"}
CompOf(B) == [id : B, box : BoxesOf(B), held : BoxesOf(B) \cup {<<>>}, n : Nat, variant : Nat]
             \cup {NoComp}
CardOf(B) == [id : B, n : Nat, file : DraftsOf(B)] \cup {NoCard}
CacheOf(B) == [id : DraftsOf(B), ui : UiOf, arrived : Nat, n : Nat, seen : DraftsOf(B)]
CallOf(B) == [at : At \ {"idle"}, id : B, file : DraftsOf(B), box : BoxesOf(B) \cup {<<>>},
              n : Nat, then : {"none", "first", "again", "select", "revert"}, back : Nat]
             \cup {NoCall}
ToolOf(B) == [ui : UiOf, current : DraftsOf(B), arrived : Nat, visible : Nat,
              preview : DraftsOf(B), selecting : BOOLEAN, card : CardOf(B), retry : DraftsOf(B),
              comp : CompOf(B), here : SUBSET Draft, boxes : SUBSET BoxesOf(B),
              saved : CacheOf(B)]
NewsOf(B) == [type : {"progress", "done", "connected"}, id : DraftsOf(B)]
PlaceOf(B) == [tool : ToolOf(B), tasks : [1 .. Slots -> CallOf(B)]]

\* The page and its calls know only sessions that were begun.
PreviewData ==
    /\ begun \subseteq Draft /\ ended \subseteq begun /\ completed \subseteq begun
    /\ tool \in ToolOf(begun) /\ tasks \in [1 .. Slots -> CallOf(begun)]
    /\ stream \in Seq(NewsOf(begun))
    /\ \A i \in 1 .. Len(stream) : stream[i].type # "connected" => stream[i].id # NoDraft
    /\ manifest \in [Draft -> [n : Nat, broken : SUBSET Variant, foreign : BOOLEAN]]
    /\ \A s \in Draft : manifest[s].n > 0 => s \in begun
    /\ \A s \in completed : manifest[s].n = Wanted

\* What the assumption on the constants says, as the steps need it.
LEMMA WantedIsNat == Wanted \in Nat /\ Wanted > 0 /\ Slots \in Nat /\ Slots > 0 /\ Draft \subseteq Nat
                     /\ NoDraft \notin Draft /\ NoDraft = 0
  BY PreviewAssumption DEF NoDraft

-----------------------------------------------------------------------------
(* The functions of the page keep the types.                               *)

\* Writing the cache changes nothing but the cache.
LEMMA CachedType ==
    ASSUME NEW B \in SUBSET Draft, NEW t \in ToolOf(B)
    PROVE  /\ Cached(t) \in ToolOf(B)
           /\ Cached(t).ui = t.ui /\ Cached(t).current = t.current
           /\ Cached(t).arrived = t.arrived /\ Cached(t).visible = t.visible
           /\ Cached(t).preview = t.preview /\ Cached(t).card = t.card
           /\ Cached(t).retry = t.retry /\ Cached(t).comp = t.comp
           /\ Cached(t).here = t.here /\ Cached(t).boxes = t.boxes
           /\ t.current = NoDraft => Cached(t).saved = t.saved
           /\ t.current # NoDraft => /\ Cached(t).saved.id = t.current
                                     /\ Cached(t).saved.ui = t.ui
                                     /\ Cached(t).saved.seen = t.preview
<1>1. CASE t.current = NoDraft
  BY <1>1 DEF Cached
<1>2. CASE t.current # NoDraft
  <2>1. PICK c : c = [id |-> t.current, ui |-> t.ui, arrived |-> t.arrived,
                      n |-> t.visible, seen |-> t.preview]
    OBVIOUS
  <2>2. c \in CacheOf(B) /\ c.id = t.current /\ c.ui = t.ui /\ c.seen = t.preview
    BY <2>1 DEF CacheOf, ToolOf
  <2>3. Cached(t) = [t EXCEPT !.saved = c]
    BY <1>2, <2>1 DEF Cached
  <2> QED
    BY <1>2, <2>2, <2>3 DEF ToolOf
<1> QED
  BY <1>1, <1>2

\* Taking the preview down leaves no preview.
LEMMA TornDownType ==
    ASSUME NEW B \in SUBSET Draft, NEW t \in ToolOf(B)
    PROVE  /\ TornDown(t) \in ToolOf(B)
           /\ TornDown(t).ui = t.ui /\ TornDown(t).current = t.current
           /\ TornDown(t).arrived = t.arrived /\ TornDown(t).visible = t.visible
           /\ TornDown(t).preview = t.preview /\ TornDown(t).card = t.card
           /\ TornDown(t).retry = t.retry /\ TornDown(t).comp = NoComp
           /\ TornDown(t).boxes = t.boxes \ {t.comp.box} /\ TornDown(t).saved = t.saved
<1>1. PICK h : h = IF t.comp.box \in t.boxes THEN t.here \cup {t.comp.id} ELSE t.here
  OBVIOUS
<1>2. t.boxes \subseteq BoxesOf(B) /\ <<>> \notin BoxesOf(B)
  BY DEF ToolOf, BoxesOf
<1>3. h \in SUBSET Draft
  BY <1>1, <1>2 DEF ToolOf, CompOf, NoComp
<1>4. PICK b : b = t.boxes \ {t.comp.box}
  OBVIOUS
<1>5. TornDown(t) = [t EXCEPT !.comp = NoComp, !.boxes = b, !.here = h]
  BY <1>1, <1>4 DEF TornDown
<1>6. b \in SUBSET BoxesOf(B) /\ NoComp \in CompOf(B)
  BY <1>4 DEF ToolOf, CompOf
<1> QED
  BY <1>3, <1>4, <1>5, <1>6 DEF ToolOf

\* A card is a card, and never the absence of one.
LEMMA CardType ==
    ASSUME NEW B \in SUBSET Draft, NEW t \in ToolOf(B), NEW s \in B, NEW n \in Nat,
           NEW f \in DraftsOf(B)
    PROVE  Card(t, s, n, f) \in CardOf(B) /\ Card(t, s, n, f) # NoCard
  BY WantedIsNat DEF Card, CardOf, NoCard, ToolOf, DraftsOf

\* Giving an injection up leaves a card, and keeps what the page is about.
LEMMA AbortedType ==
    ASSUME NEW B \in SUBSET Draft, NEW t \in ToolOf(B), NEW s \in B
    PROVE  /\ Aborted(t, s) \in ToolOf(B)
           /\ Aborted(t, s).ui = t.ui /\ Aborted(t, s).current = t.current
           /\ Aborted(t, s).arrived = t.arrived
           /\ Aborted(t, s).preview = t.preview /\ Aborted(t, s).card # NoCard
           /\ Aborted(t, s).retry = NoDraft
           /\ t.comp.id = s => /\ Aborted(t, s).comp = NoComp
                               /\ Aborted(t, s).boxes = t.boxes \ {t.comp.box}
           /\ t.comp.id # s => /\ Aborted(t, s).comp = t.comp
                               /\ Aborted(t, s).boxes = {x \in t.boxes : x[1] # s}
           /\ t.current = NoDraft => Aborted(t, s).saved = t.saved
           /\ t.current # NoDraft => /\ Aborted(t, s).saved.id = t.current
                                     /\ Aborted(t, s).saved.ui = t.ui
                                     /\ Aborted(t, s).saved.seen = t.preview
<1>1. PICK d : d = IF t.comp.id = s THEN TornDown(t)
                   ELSE [t EXCEPT !.boxes = {x \in @ : x[1] # s}]
  OBVIOUS
<1>2. /\ d \in ToolOf(B) /\ d.ui = t.ui /\ d.current = t.current
      /\ d.arrived = t.arrived /\ d.visible = t.visible
      /\ d.preview = t.preview /\ d.card = t.card
      /\ d.retry = t.retry /\ d.saved = t.saved
      /\ t.comp.id = s => d.comp = NoComp /\ d.boxes = t.boxes \ {t.comp.box}
      /\ t.comp.id # s => d.comp = t.comp /\ d.boxes = {x \in t.boxes : x[1] # s}
  <2>1. CASE t.comp.id = s
    BY <1>1, <2>1, TornDownType
  <2>2. CASE t.comp.id # s
    <3>1. PICK b : b = {x \in t.boxes : x[1] # s}
      OBVIOUS
    <3>2. d = [t EXCEPT !.boxes = b] /\ b \in SUBSET BoxesOf(B)
      BY <1>1, <2>2, <3>1 DEF ToolOf
    <3> QED
      BY <2>2, <3>1, <3>2 DEF ToolOf
  <2> QED
    BY <2>1, <2>2
<1>3. PICK c : c = IF d.card = NoCard THEN Card(t, s, 0, NoDraft) ELSE d.card
  OBVIOUS
<1>4. c \in CardOf(B) /\ c # NoCard
  <2>1. NoDraft \in DraftsOf(B) /\ d.card \in CardOf(B)
    BY <1>2 DEF DraftsOf, ToolOf
  <2> QED
    BY <1>2, <1>3, <2>1, CardType
<1>5. PICK e : e = [d EXCEPT !.retry = NoDraft, !.card = c]
  OBVIOUS
<1>6. /\ e \in ToolOf(B) /\ e.ui = d.ui /\ e.current = d.current
      /\ e.arrived = d.arrived /\ e.visible = d.visible
      /\ e.preview = d.preview /\ e.card = c
      /\ e.retry = NoDraft /\ e.saved = d.saved /\ e.comp = d.comp /\ e.boxes = d.boxes
  BY <1>2, <1>4, <1>5 DEF ToolOf, DraftsOf
<1>7. Aborted(t, s) = Cached(e)
  BY <1>1, <1>3, <1>5 DEF Aborted
<1> QED
  BY <1>2, <1>4, <1>6, <1>7, CachedType

\* A cleaned-up page is a page.
LEMMA CleanedUpType ==
    ASSUME NEW B \in SUBSET Draft, NEW t \in ToolOf(B)
    PROVE  CleanedUp(t) \in ToolOf(B)
<1>1. PICK d : d = IF t.comp.id = t.current THEN TornDown(t) ELSE t
  OBVIOUS
<1>2. d \in ToolOf(B)
  BY <1>1, TornDownType
<1>3. CleanedUp(t) = [d EXCEPT !.ui = "PICKING", !.current = NoDraft, !.card = NoCard,
                               !.preview = NoDraft, !.saved = NoCache]
  BY <1>1 DEF CleanedUp
<1>4. NoCache \in CacheOf(B) /\ NoCard \in CardOf(B) /\ NoDraft \in DraftsOf(B) /\ "PICKING" \in UiOf
  BY WantedIsNat DEF NoCache, CacheOf, CardOf, DraftsOf, UiOf
<1> QED
  BY <1>2, <1>3, <1>4 DEF ToolOf

\* With something that has arrived, the bar is kept.
LEMMA CyclesType ==
    ASSUME NEW B \in SUBSET Draft, NEW t \in ToolOf(B)
    PROVE  /\ Cycles(t) \in ToolOf(B)
           /\ t.arrived > 0 =>
                /\ Cycles(t).ui = "CYCLING" /\ Cycles(t).current = t.current
                /\ Cycles(t).arrived = t.arrived /\ Cycles(t).preview = t.preview
                /\ Cycles(t).card = t.card /\ Cycles(t).retry = t.retry
                /\ Cycles(t).comp = t.comp /\ Cycles(t).here = t.here
                /\ Cycles(t).boxes = t.boxes
                /\ t.current = NoDraft => Cycles(t).saved = t.saved
                /\ t.current # NoDraft => /\ Cycles(t).saved.id = t.current
                                          /\ Cycles(t).saved.ui = "CYCLING"
                                          /\ Cycles(t).saved.seen = t.preview
<1>1. PICK c : c = [t EXCEPT !.ui = "CYCLING"]
  OBVIOUS
<1>2. /\ c \in ToolOf(B) /\ c.ui = "CYCLING" /\ c.current = t.current
      /\ c.arrived = t.arrived /\ c.visible = t.visible /\ c.preview = t.preview
      /\ c.card = t.card /\ c.retry = t.retry /\ c.comp = t.comp /\ c.here = t.here
      /\ c.boxes = t.boxes /\ c.saved = t.saved
  BY <1>1 DEF ToolOf, UiOf
<1>3. Cycles(t) = Cached(Renderable(c))
  BY <1>1 DEF Cycles
<1>4. CASE t.arrived > 0
  <2>1. PICK v : v = IF c.visible \in 1 .. c.arrived THEN c.visible ELSE 1
    OBVIOUS
  <2>2. Renderable(c) = [c EXCEPT !.visible = v] /\ v \in Nat
    BY <1>2, <1>4, <2>1 DEF Renderable, ToolOf
  <2>3. PICK e : e = [c EXCEPT !.visible = v]
    OBVIOUS
  <2>4. /\ e \in ToolOf(B) /\ e.ui = "CYCLING" /\ e.current = t.current
        /\ e.arrived = t.arrived /\ e.preview = t.preview
        /\ e.card = t.card /\ e.retry = t.retry /\ e.comp = t.comp /\ e.here = t.here
        /\ e.boxes = t.boxes /\ e.saved = t.saved
    BY <1>2, <2>2, <2>3 DEF ToolOf
  <2>5. Cycles(t) = Cached(e)
    BY <1>3, <2>2, <2>3
  <2>6. PICK r : r = Cached(e)
    OBVIOUS
  <2>7. /\ r \in ToolOf(B)
        /\ r.ui = "CYCLING" /\ r.current = t.current
        /\ r.arrived = t.arrived /\ r.preview = t.preview
        /\ r.card = t.card /\ r.retry = t.retry /\ r.comp = t.comp /\ r.here = t.here
        /\ r.boxes = t.boxes
    BY <2>4, <2>6, CachedType
  <2>8. /\ t.current = NoDraft => r.saved = t.saved
        /\ t.current # NoDraft => /\ r.saved.id = t.current /\ r.saved.ui = "CYCLING"
                                  /\ r.saved.seen = t.preview
    BY <2>4, <2>6, CachedType
  <2> QED
    BY <2>5, <2>6, <2>7, <2>8
<1>5. CASE ~(t.arrived > 0)
  <2>1. Renderable(c) \in ToolOf(B)
    <3>1. PICK d : d = CleanedUp(c)
      OBVIOUS
    <3>2. d \in ToolOf(B)
      BY <1>2, <3>1, CleanedUpType
    <3>3. [d EXCEPT !.retry = NoDraft, !.visible = 0] \in ToolOf(B)
      BY <3>2 DEF ToolOf, DraftsOf
    <3> QED
      BY <1>2, <1>5, <3>1, <3>2, <3>3 DEF Renderable
  <2> QED
    BY <1>3, <1>5, <2>1, CachedType
<1> QED
  BY <1>4, <1>5

\* The parts of a place are typed.
LEMMA PlaceFields ==
    ASSUME NEW B \in SUBSET Draft, NEW q \in PlaceOf(B)
    PROVE  /\ q.tool \in ToolOf(B) /\ q.tasks \in [1 .. Slots -> CallOf(B)]
           /\ \A k \in 1 .. Slots : q.tasks[k] \in CallOf(B)
  BY DEF PlaceOf

\* A place is its two parts.
LEMMA PlaceIs ==
    ASSUME NEW B \in SUBSET Draft, NEW t \in ToolOf(B), NEW r \in [1 .. Slots -> CallOf(B)]
    PROVE  [tool |-> t, tasks |-> r] \in PlaceOf(B)
  BY DEF PlaceOf

\* A place in which one call changes.
LEMMA CallChanges ==
    ASSUME NEW B \in SUBSET Draft, NEW q \in PlaceOf(B), NEW k \in 1 .. Slots,
           NEW c \in CallOf(B)
    PROVE  /\ [q EXCEPT !.tasks[k] = c] \in PlaceOf(B)
           /\ [q EXCEPT !.tasks[k] = c].tool = q.tool
           /\ [q EXCEPT !.tasks[k] = c].tasks[k] = c
           /\ \A j \in 1 .. Slots : j # k => [q EXCEPT !.tasks[k] = c].tasks[j] = q.tasks[j]
  BY DEF PlaceOf

\* A place in which the page changes.
LEMMA ToolChanges ==
    ASSUME NEW B \in SUBSET Draft, NEW q \in PlaceOf(B), NEW t \in ToolOf(B)
    PROVE  /\ [q EXCEPT !.tool = t] \in PlaceOf(B)
           /\ [q EXCEPT !.tool = t].tool = t
           /\ [q EXCEPT !.tool = t].tasks = q.tasks
  BY DEF PlaceOf

\* A call that was idle begins to read a manifest.
Reads(r, w) == \E k \in 1 .. Slots :
    /\ r[k].at = "idle" /\ w[k].at = "manifest"
    /\ \A j \in 1 .. Slots : j # k => w[j] = r[j]

\* An injection begins to read in a slot that is free.
LEMMA InjectsType ==
    ASSUME NEW B \in SUBSET Draft, NEW q \in PlaceOf(B), NEW s \in B, NEW f \in DraftsOf(B),
           Free(q.tasks) # {}
    PROVE  /\ Injects(q, s, f) \in PlaceOf(B)
           /\ Injects(q, s, f).tool = q.tool
           /\ Reads(q.tasks, Injects(q, s, f).tasks)
<1>1. PICK k : k = CHOOSE x \in Free(q.tasks) : TRUE
  OBVIOUS
<1>2. k \in Free(q.tasks)
  BY <1>1
<1>3. k \in 1 .. Slots /\ q.tasks[k].at = "idle"
  BY <1>2 DEF Free
<1>4. PICK c : c = [NoCall EXCEPT !.at = "manifest", !.id = s, !.file = f]
  OBVIOUS
<1>5. c \in CallOf(B) /\ c.at = "manifest"
  BY <1>4 DEF CallOf, NoCall, At
<1>6. Injects(q, s, f) = [q EXCEPT !.tasks[k] = c]
  BY <1>1, <1>4 DEF Injects
<1>7. /\ Injects(q, s, f) \in PlaceOf(B) /\ Injects(q, s, f).tool = q.tool
      /\ Injects(q, s, f).tasks[k] = c
      /\ \A j \in 1 .. Slots : j # k => Injects(q, s, f).tasks[j] = q.tasks[j]
  BY <1>3, <1>5, <1>6, CallChanges
<1> QED
  BY <1>3, <1>5, <1>7 DEF Reads

MountKinds == {"first", "again", "select", "revert"}

\* A mount is a call at its import.
LEMMA MountingType ==
    ASSUME NEW B \in SUBSET Draft, NEW q \in PlaceOf(B), NEW k \in 1 .. Slots, NEW n \in Nat,
           NEW then \in MountKinds, NEW back \in Nat,
           q.tool.comp # NoComp
    PROVE  /\ Mounting(q, k, n, then, back) \in PlaceOf(B)
           /\ Mounting(q, k, n, then, back).tool = q.tool
           /\ Mounting(q, k, n, then, back).tasks[k].at = "import"
           /\ Mounting(q, k, n, then, back).tasks[k].then = then
           /\ \A j \in 1 .. Slots : j # k => Mounting(q, k, n, then, back).tasks[j] = q.tasks[j]
<1>1. PICK c : c = [at |-> "import", id |-> q.tool.comp.id, file |-> NoDraft, box |-> q.tool.comp.box,
                    n |-> n, then |-> then, back |-> back]
  OBVIOUS
<1>2. q.tool.comp.id \in B /\ q.tool.comp.box \in BoxesOf(B)
  BY DEF PlaceOf, ToolOf, CompOf
<1>3. c \in CallOf(B) /\ c.at = "import" /\ c.then = then
  BY <1>1, <1>2 DEF CallOf, At, DraftsOf, MountKinds
<1>4. Mounting(q, k, n, then, back) = [q EXCEPT !.tasks[k] = c]
  BY <1>1 DEF Mounting
<1> QED
  BY <1>3, <1>4, CallChanges

\* A call that is under way is no NoCall.
LEMMA MountIsCall ==
    ASSUME NEW B \in SUBSET Draft, NEW c \in CallOf(B), c.at # "idle"
    PROVE  /\ c.id \in B /\ c.file \in DraftsOf(B) /\ c.n \in Nat /\ c.back \in Nat
           /\ c.box \in BoxesOf(B) \cup {<<>>}
           /\ c.then \in {"none", "first", "again", "select", "revert"}
           /\ c \in [at : At \ {"idle"}, id : B, file : DraftsOf(B), box : BoxesOf(B) \cup {<<>>},
              n : Nat, then : {"none", "first", "again", "select", "revert"}, back : Nat]
  BY DEF CallOf, NoCall

\* Only what is chosen differs, and the cache may have been written.
Keeps(t, u) ==
    /\ u.ui = t.ui /\ u.current = t.current /\ u.arrived = t.arrived /\ u.preview = t.preview
    /\ u.card = t.card /\ u.retry = t.retry /\ u.comp = t.comp /\ u.here = t.here
    /\ u.boxes = t.boxes
    /\ \/ u.saved = t.saved
       \/ /\ t.current # NoDraft /\ u.saved.id = t.current /\ u.saved.ui = t.ui
          /\ u.saved.seen = t.preview

\* Writing the cache keeps what the invariant reads.
LEMMA CachedKeeps ==
    ASSUME NEW B \in SUBSET Draft, NEW t \in ToolOf(B)
    PROVE  Cached(t) \in ToolOf(B) /\ Keeps(t, Cached(t))
  BY CachedType DEF Keeps

\* So does the choice of a variant.
LEMMA ChoiceKeeps ==
    ASSUME NEW B \in SUBSET Draft, NEW t \in ToolOf(B), NEW v \in Nat, NEW b \in BOOLEAN
    PROVE  /\ [t EXCEPT !.visible = v] \in ToolOf(B) /\ Keeps(t, [t EXCEPT !.visible = v])
           /\ [t EXCEPT !.selecting = b] \in ToolOf(B) /\ Keeps(t, [t EXCEPT !.selecting = b])
  BY DEF ToolOf, Keeps

\* What two steps keep, both keep.
LEMMA KeepsOn ==
    ASSUME NEW t, NEW u, NEW w, Keeps(t, u), Keeps(u, w)
    PROVE  Keeps(t, w)
  BY DEF Keeps

\* What a mount of call k leads to: r is the place after it.
EndsTo(B, q, k, ok, r) ==
    /\ r \in PlaceOf(B)
    /\ \A j \in 1 .. Slots : j # k => r.tasks[j] = q.tasks[j]
    /\ q.tasks[k].then = "first" =>
         /\ r.tasks[k].at = "idle"
         /\ r.tool = IF ok THEN Cycles(q.tool) ELSE Aborted(q.tool, q.tasks[k].id)
    /\ q.tasks[k].then = "again" =>
         /\ r.tasks[k].at = "idle"
         /\ r.tool = IF ok THEN Cycles(q.tool) ELSE Cached(q.tool)
    /\ q.tasks[k].then \notin {"first", "again"} =>
         /\ Keeps(q.tool, r.tool)
         /\ \/ r.tasks[k].at = "idle"
            \/ q.tool.comp # NoComp /\ r.tasks[k].at = "import"

\* What follows a mount, by what the mount was for.
LEMMA ContinuesIs ==
    ASSUME NEW B \in SUBSET Draft, NEW q \in PlaceOf(B), NEW k \in 1 .. Slots,
           q.tasks[k].at # "idle", NEW ok \in BOOLEAN, NEW r, r = Continues(q, k, ok)
    PROVE  EndsTo(B, q, k, ok, r)
<1>1. PICK c : c = q.tasks[k]
  OBVIOUS
<1>2. /\ c \in CallOf(B) /\ c.id \in B /\ c.back \in Nat
      /\ c.then \in {"none", "first", "again", "select", "revert"}
  BY <1>1, PlaceFields, MountIsCall
<1>3. PICK e : e = [q EXCEPT !.tasks[k] = NoCall]
  OBVIOUS
<1>4. /\ e \in PlaceOf(B) /\ e.tool = q.tool /\ e.tasks[k].at = "idle"
      /\ \A j \in 1 .. Slots : j # k => e.tasks[j] = q.tasks[j]
  <2>1. NoCall \in CallOf(B) /\ NoCall.at = "idle"
    BY DEF CallOf, NoCall
  <2> QED
    BY <1>3, <2>1, CallChanges
<1>5. q.tool \in ToolOf(B)
  BY PlaceFields
<1>6. ASSUME NEW t \in ToolOf(B), r = [e EXCEPT !.tool = t]
      PROVE  /\ r \in PlaceOf(B) /\ r.tool = t /\ r.tasks[k].at = "idle"
             /\ \A j \in 1 .. Slots : j # k => r.tasks[j] = q.tasks[j]
  <2>1. r \in PlaceOf(B) /\ r.tool = t /\ r.tasks = e.tasks
    BY <1>4, <1>6, ToolChanges
  <2> QED
    BY <1>4, <2>1
<1>7. CASE c.then = "first"
  <2>1. PICK t : t = IF ok THEN Cycles(q.tool) ELSE Aborted(q.tool, c.id)
    OBVIOUS
  <2>2. t \in ToolOf(B)
    BY <1>2, <1>5, <2>1, CyclesType, AbortedType
  <2>3. r = [e EXCEPT !.tool = t]
    BY <1>1, <1>3, <1>4, <1>7, <2>1 DEF Continues
  <2>4. /\ r \in PlaceOf(B) /\ r.tool = t /\ r.tasks[k].at = "idle"
        /\ \A j \in 1 .. Slots : j # k => r.tasks[j] = q.tasks[j]
    BY <1>6, <2>2, <2>3
  <2> QED
    BY <1>1, <1>7, <2>1, <2>4 DEF EndsTo
<1>8. CASE c.then = "again"
  <2>1. PICK t : t = IF ok THEN Cycles(q.tool) ELSE Cached(q.tool)
    OBVIOUS
  <2>2. t \in ToolOf(B)
    BY <1>5, <2>1, CyclesType, CachedType
  <2>3. r = [e EXCEPT !.tool = t]
    BY <1>1, <1>3, <1>4, <1>8, <2>1 DEF Continues
  <2>4. /\ r \in PlaceOf(B) /\ r.tool = t /\ r.tasks[k].at = "idle"
        /\ \A j \in 1 .. Slots : j # k => r.tasks[j] = q.tasks[j]
    BY <1>6, <2>2, <2>3
  <2> QED
    BY <1>1, <1>8, <2>1, <2>4 DEF EndsTo
<1>9. CASE c.then = "select" /\ ~ok
  <2>1. PICK v : v = [q.tool EXCEPT !.visible = c.back]
    OBVIOUS
  <2>2. v \in ToolOf(B) /\ Keeps(q.tool, v)
    BY <1>2, <1>5, <2>1, ChoiceKeeps
  <2>3. PICK x : x = [q EXCEPT !.tool = v]
    OBVIOUS
  <2>4. x = [q EXCEPT !.tool.visible = c.back]
    BY <2>1, <2>3
  <2>5. x \in PlaceOf(B) /\ x.tool = v /\ x.tasks = q.tasks
    BY <2>2, <2>3, ToolChanges
  <2>6. CASE x.tool.comp.id = x.tool.current /\ x.tool.comp # NoComp /\ c.back > 0
    <3>1. r = Mounting(x, k, c.back, "revert", c.back)
      BY <1>1, <1>9, <2>4, <2>6 DEF Continues
    <3>2. /\ r \in PlaceOf(B) /\ r.tool = x.tool /\ r.tasks[k].at = "import"
          /\ \A j \in 1 .. Slots : j # k => r.tasks[j] = x.tasks[j]
      <4>1. "revert" \in MountKinds /\ x.tool.comp # NoComp
        BY <2>6 DEF MountKinds
      <4>2. c.back \in Nat /\ x \in PlaceOf(B)
        BY <1>2, <2>5
      <4> QED
        BY <3>1, <4>1, <4>2, MountingType
    <3>3. \A j \in 1 .. Slots : j # k => r.tasks[j] = q.tasks[j]
      BY <2>5, <3>2
    <3>4. Keeps(q.tool, r.tool) /\ q.tool.comp # NoComp
      BY <2>2, <2>5, <2>6, <3>2 DEF Keeps
    <3> QED
      BY <1>1, <1>9, <3>2, <3>3, <3>4 DEF EndsTo
  <2>7. CASE ~(x.tool.comp.id = x.tool.current /\ x.tool.comp # NoComp /\ c.back > 0)
    <3>1. PICK y : y = [v EXCEPT !.selecting = FALSE]
      OBVIOUS
    <3>2. y \in ToolOf(B) /\ Keeps(v, y)
      BY <2>2, <3>1, ChoiceKeeps
    <3>3. PICK t : t = Cached(y)
      OBVIOUS
    <3>4. t \in ToolOf(B) /\ Keeps(y, t)
      BY <3>2, <3>3, CachedKeeps
    <3>5. Keeps(q.tool, t)
      BY <2>2, <3>2, <3>4, KeepsOn
    <3>6. r = [x EXCEPT !.tasks[k] = NoCall, !.tool = t]
      BY <1>1, <1>9, <2>4, <2>5, <2>7, <3>1, <3>3 DEF Continues
    <3>7. r = [e EXCEPT !.tool = t]
      BY <1>3, <2>3, <3>6 DEF PlaceOf
    <3>8. /\ r \in PlaceOf(B) /\ r.tool = t /\ r.tasks[k].at = "idle"
          /\ \A j \in 1 .. Slots : j # k => r.tasks[j] = q.tasks[j]
      BY <1>6, <3>4, <3>7
    <3> QED
      BY <1>1, <1>9, <3>5, <3>8 DEF EndsTo
  <2> QED
    BY <2>6, <2>7
<1>10. CASE c.then \notin {"first", "again"} /\ ~(c.then = "select" /\ ~ok)
  <2>1. PICK y : y = [q.tool EXCEPT !.selecting = FALSE]
    OBVIOUS
  <2>2. y \in ToolOf(B) /\ Keeps(q.tool, y)
    BY <1>5, <2>1, ChoiceKeeps
  <2>3. PICK t : t = Cached(y)
    OBVIOUS
  <2>4. t \in ToolOf(B) /\ Keeps(y, t)
    BY <2>2, <2>3, CachedKeeps
  <2>5. Keeps(q.tool, t)
    BY <2>2, <2>4, KeepsOn
  <2>6. r = [e EXCEPT !.tool = t]
    BY <1>1, <1>2, <1>3, <1>4, <1>10, <2>1, <2>3 DEF Continues
  <2>7. /\ r \in PlaceOf(B) /\ r.tool = t /\ r.tasks[k].at = "idle"
        /\ \A j \in 1 .. Slots : j # k => r.tasks[j] = q.tasks[j]
    BY <1>6, <2>4, <2>6
  <2> QED
    BY <1>1, <1>10, <2>5, <2>7 DEF EndsTo
<1> QED
  BY <1>1, <1>2, <1>7, <1>8, <1>9, <1>10

-----------------------------------------------------------------------------
(* The one session that was begun and is not over.                         *)

IsMount(c) == c.at \in {"import", "unmount", "explain"}

FirstMounts(r) == \E k \in 1 .. Slots : IsMount(r[k]) /\ r[k].then = "first"

Underway(t, r) == \/ t.card # NoCard \/ t.comp # NoComp \/ t.retry # NoDraft
                  \/ \E k \in 1 .. Slots : r[k].at # "idle"

\* What the page is about is its current session, and its preview file is known.
IsKnown(t, r) == Underway(t, r) => t.current # NoDraft /\ t.preview # NoDraft

IsPublished(t, r, str, n) ==
    (\/ Underway(t, r) \/ t.preview # NoDraft \/ t.saved.seen # NoDraft
     \/ \E i \in 1 .. Len(str) : str[i].type # "connected") => n > 0

\* A mount has something to come back to: the bar is not torn down.
HasArrived(t, r) == (\E k \in 1 .. Slots : IsMount(r[k])) => t.arrived > 0

HasOneBox(t, s) == /\ t.comp = NoComp => t.boxes = {}
                   /\ t.comp # NoComp => t.boxes \subseteq {t.comp.box}
                   /\ s \in t.here => t.boxes = {}

\* A wrapper in a page that does not cycle is one that is being filled.
IsFilled(t, r) == t.ui # "CYCLING" /\ t.comp # NoComp /\ t.comp.box \in t.boxes => FirstMounts(r)

\* What keeps a page that generates from waiting in vain: something to see or
\* to come, or a cache that the next connection restores.
Awaited(t, r) ==
    \/ t.card # NoCard \/ t.retry # NoDraft
    \/ t.comp # NoComp /\ t.comp.box \notin t.boxes
    \/ \E k \in 1 .. Slots : \/ r[k].at = "manifest"
                             \/ IsMount(r[k]) /\ r[k].then \in {"first", "again"}

Restorable(t, str, done, s) ==
    /\ t.saved.id = s /\ t.saved.ui # "PICKING"
    /\ s \in done => \E i \in 1 .. Len(str) : str[i].type \in {"done", "connected"}

HasReason(t, r, str, done, s) ==
    t.ui = "GENERATING" /\ t.current = s => Awaited(t, r) \/ Restorable(t, str, done, s)

OneInv(t, r, str, n, done, s) ==
    /\ IsKnown(t, r) /\ IsPublished(t, r, str, n) /\ HasArrived(t, r) /\ HasOneBox(t, s)
    /\ IsFilled(t, r) /\ HasReason(t, r, str, done, s)

OnlyOne(s) == begun = {s} /\ s \notin ended
IsOne(s) == OneInv(tool, tasks, stream, manifest[s].n, completed, s)

PreviewIInv == PreviewData /\ \A s \in Draft : OnlyOne(s) => IsOne(s)

\* The invariant holds initially.
LEMMA PreviewStarts == PreviewInit => PreviewIInv
<1> SUFFICES ASSUME PreviewInit PROVE PreviewIInv
  OBVIOUS
<1>1. tool \in ToolOf(begun)
  <2>1. tool.card \in CardOf(begun) /\ tool.comp \in CompOf(begun) /\ tool.saved \in CacheOf(begun)
    BY WantedIsNat DEF PreviewInit, CardOf, CompOf, CacheOf, NoCache, UiOf, DraftsOf
  <2> QED
    BY <2>1, WantedIsNat DEF PreviewInit, ToolOf, DraftsOf, UiOf
<1>2. tasks \in [1 .. Slots -> CallOf(begun)]
  BY DEF PreviewInit, CallOf
<1>3. stream \in Seq(NewsOf(begun)) /\ Len(stream) = 0
  BY DEF PreviewInit
<1>4. PreviewData
  BY <1>1, <1>2, <1>3, WantedIsNat DEF PreviewInit, PreviewData
<1> QED
  BY <1>4 DEF PreviewInit, PreviewIInv, OnlyOne

\* The page and its calls are a place.
LEMMA WorldType ==
    ASSUME PreviewData
    PROVE  World \in PlaceOf(begun) /\ World.tool = tool /\ World.tasks = tasks
  BY DEF PreviewData, PlaceOf, World

\* Of one session everything is about it.
LEMMA AllOfOne ==
    ASSUME NEW s \in Draft, NEW t \in ToolOf({s})
    PROVE  /\ t.current \in {NoDraft, s} /\ t.preview \in {NoDraft, s} /\ t.retry \in {NoDraft, s}
           /\ t.saved.id \in {NoDraft, s} /\ t.saved.seen \in {NoDraft, s}
           /\ t.card # NoCard => t.card.id = s
           /\ t.comp # NoComp <=> t.comp.id = s
           /\ \A x \in t.boxes : x[1] = s
<1>1. s # NoDraft
  BY WantedIsNat
<1>2. t.comp # NoComp <=> t.comp.id = s
  BY <1>1 DEF ToolOf, CompOf, NoComp
<1>3. \A x \in t.boxes : x[1] = s
  BY DEF ToolOf, BoxesOf
<1> QED
  BY <1>1, <1>2, <1>3 DEF ToolOf, CardOf, CacheOf, DraftsOf

\* A step of the page alone keeps what is known of the rest.
LEMMA DataStays ==
    ASSUME PreviewData, tool' \in ToolOf(begun), tasks' \in [1 .. Slots -> CallOf(begun)],
           UNCHANGED <<stream, manifest, begun, ended, completed>>
    PROVE  PreviewData'
  BY DEF PreviewData

\* A call of one session is about it.
LEMMA CallOfOne ==
    ASSUME NEW B \in SUBSET Draft, NEW r \in [1 .. Slots -> CallOf(B)], NEW k \in 1 .. Slots,
           r[k].at # "idle"
    PROVE  /\ r[k].id \in B /\ r[k].file \in DraftsOf(B) /\ r[k].n \in Nat /\ r[k].back \in Nat
           /\ r[k].box \in BoxesOf(B) \cup {<<>>}
           /\ r[k].then \in {"none", "first", "again", "select", "revert"}
  BY MountIsCall

\* A call that ends leaves the others.
LEMMA CallEnds ==
    ASSUME NEW B \in SUBSET Draft, NEW r \in [1 .. Slots -> CallOf(B)], NEW k \in 1 .. Slots
    PROVE  /\ [r EXCEPT ![k] = NoCall] \in [1 .. Slots -> CallOf(B)]
           /\ [r EXCEPT ![k] = NoCall][k].at = "idle"
           /\ \A j \in 1 .. Slots : j # k => [r EXCEPT ![k] = NoCall][j] = r[j]
  BY DEF CallOf, NoCall

\* A step of the page alone keeps the invariant if it keeps the types and what
\* is said of one session.
LEMMA PageStep ==
    ASSUME PreviewIInv, tool' \in ToolOf(begun), tasks' \in [1 .. Slots -> CallOf(begun)],
           UNCHANGED <<stream, manifest, begun, ended, completed>>,
           \A s \in Draft : OnlyOne(s) => OneInv(tool', tasks', stream, manifest[s].n, completed, s)
    PROVE  PreviewIInv'
<1>1. PreviewData'
  BY DataStays DEF PreviewIInv
<1>2. ASSUME NEW s \in Draft, OnlyOne(s)'
      PROVE  IsOne(s)'
  BY <1>2 DEF OnlyOne, IsOne
<1> QED
  BY <1>1, <1>2 DEF PreviewIInv

\* A manifest that cannot be read leaves a card.
LEMMA FailsKeeps ==
    ASSUME PreviewIInv, NEW k \in 1 .. Slots, ManifestFails(k)
    PROVE  PreviewIInv'
<1>1. /\ tasks[k].at = "manifest" /\ tasks' = [tasks EXCEPT ![k] = NoCall]
      /\ tool' = [Aborted(tool, tasks[k].id) EXCEPT
                    !.card = Card(tool, tasks[k].id, tool.visible, tasks[k].file)]
      /\ UNCHANGED <<stream, manifest, begun, ended, completed>>
  BY DEF ManifestFails, Settles, Rest
<1>2. /\ tool \in ToolOf(begun) /\ tasks \in [1 .. Slots -> CallOf(begun)] /\ begun \in SUBSET Draft
      /\ tool.visible \in Nat
  BY DEF PreviewIInv, PreviewData, ToolOf
<1>3. tasks[k].id \in begun /\ tasks[k].file \in DraftsOf(begun)
  BY <1>1, <1>2, CallOfOne
<1>4. PICK a : a = Aborted(tool, tasks[k].id)
  OBVIOUS
<1>5. PICK c : c = Card(tool, tasks[k].id, tool.visible, tasks[k].file)
  OBVIOUS
<1>6. c \in CardOf(begun) /\ c # NoCard
  BY <1>2, <1>3, <1>5, CardType
<1>7. /\ a \in ToolOf(begun) /\ a.current = tool.current /\ a.preview = tool.preview
      /\ a.arrived = tool.arrived
      /\ tool.comp.id = tasks[k].id => a.comp = NoComp /\ a.boxes = tool.boxes \ {tool.comp.box}
      /\ tool.comp.id # tasks[k].id => a.comp = tool.comp /\ a.boxes = {x \in tool.boxes : x[1] # tasks[k].id}
      /\ tool.current = NoDraft => a.saved = tool.saved
      /\ tool.current # NoDraft => a.saved.seen = tool.preview
  BY <1>2, <1>3, <1>4, AbortedType
<1>8. /\ tool' \in ToolOf(begun) /\ tool'.card = c
      /\ tool'.current = a.current /\ tool'.preview = a.preview /\ tool'.arrived = a.arrived
      /\ tool'.comp = a.comp /\ tool'.boxes = a.boxes /\ tool'.saved = a.saved
  BY <1>1, <1>4, <1>5, <1>6, <1>7 DEF ToolOf
<1>9. /\ tasks' \in [1 .. Slots -> CallOf(begun)] /\ tasks'[k].at = "idle"
      /\ \A j \in 1 .. Slots : j # k => tasks'[j] = tasks[j]
  BY <1>1, <1>2, CallEnds
<1>10. ASSUME NEW s \in Draft, OnlyOne(s)
       PROVE  OneInv(tool', tasks', stream, manifest[s].n, completed, s)
  <2>1. IsOne(s) /\ begun = {s}
    BY <1>10 DEF PreviewIInv, OnlyOne
  <2>2. Underway(tool, tasks)
    BY <1>1 DEF Underway
  <2>3. tasks[k].id = s
    BY <1>3, <2>1
  <2>4. tool'.comp = NoComp /\ tool'.boxes = {}
    BY <1>2, <1>7, <1>8, <2>1, <2>3, AllOfOne DEF IsOne, OneInv, HasOneBox
  <2>5. tool'.card # NoCard
    BY <1>6, <1>8
  <2>6. tool.current # NoDraft /\ tool.preview # NoDraft /\ manifest[s].n > 0
    BY <2>1, <2>2 DEF IsOne, OneInv, IsKnown, IsPublished
  <2>7. IsKnown(tool', tasks') /\ IsPublished(tool', tasks', stream, manifest[s].n)
    BY <1>7, <1>8, <2>6 DEF IsKnown, IsPublished
  <2>8. HasArrived(tool', tasks')
    BY <1>7, <1>8, <1>9, <2>1 DEF IsOne, OneInv, HasArrived, IsMount
  <2>9. HasOneBox(tool', s) /\ IsFilled(tool', tasks')
    BY <2>4 DEF HasOneBox, IsFilled
  <2>10. HasReason(tool', tasks', stream, completed, s)
    BY <2>5 DEF HasReason, Awaited
  <2> QED
    BY <2>7, <2>8, <2>9, <2>10 DEF OneInv
<1> QED
  BY <1>1, <1>8, <1>9, <1>10, PageStep

\* So does the manifest of another session.
LEMMA ForeignKeeps ==
    ASSUME PreviewIInv, NEW k \in 1 .. Slots, ManifestForeign(k)
    PROVE  PreviewIInv'
<1>1. /\ tasks[k].at = "manifest" /\ tasks' = [tasks EXCEPT ![k] = NoCall]
      /\ tool' = [tool EXCEPT !.card = Card(tool, tasks[k].id, tool.visible, tasks[k].file)]
      /\ UNCHANGED <<stream, manifest, begun, ended, completed>>
  BY DEF ManifestForeign, Settles, Rest
<1>2. /\ tool \in ToolOf(begun) /\ tasks \in [1 .. Slots -> CallOf(begun)] /\ begun \in SUBSET Draft
      /\ tool.visible \in Nat
  BY DEF PreviewIInv, PreviewData, ToolOf
<1>3. tasks[k].id \in begun /\ tasks[k].file \in DraftsOf(begun)
  BY <1>1, <1>2, CallOfOne
<1>4. PICK c : c = Card(tool, tasks[k].id, tool.visible, tasks[k].file)
  OBVIOUS
<1>5. c \in CardOf(begun) /\ c # NoCard
  BY <1>2, <1>3, <1>4, CardType
<1>6. /\ tool' \in ToolOf(begun) /\ tool'.card = c /\ tool'.ui = tool.ui
      /\ tool'.current = tool.current /\ tool'.preview = tool.preview
      /\ tool'.arrived = tool.arrived /\ tool'.comp = tool.comp /\ tool'.here = tool.here
      /\ tool'.boxes = tool.boxes /\ tool'.saved = tool.saved
  BY <1>1, <1>2, <1>4, <1>5 DEF ToolOf
<1>7. /\ tasks' \in [1 .. Slots -> CallOf(begun)] /\ tasks'[k].at = "idle"
      /\ \A j \in 1 .. Slots : j # k => tasks'[j] = tasks[j]
  BY <1>1, <1>2, CallEnds
<1>8. ASSUME NEW s \in Draft, OnlyOne(s)
      PROVE  OneInv(tool', tasks', stream, manifest[s].n, completed, s)
  <2>1. IsOne(s) /\ begun = {s}
    BY <1>8 DEF PreviewIInv, OnlyOne
  <2>2. Underway(tool, tasks)
    BY <1>1 DEF Underway
  <2>3. tool.current # NoDraft /\ tool.preview # NoDraft /\ manifest[s].n > 0
    BY <2>1, <2>2 DEF IsOne, OneInv, IsKnown, IsPublished
  <2>4. IsKnown(tool', tasks') /\ IsPublished(tool', tasks', stream, manifest[s].n)
    BY <1>6, <2>3 DEF IsKnown, IsPublished
  <2>5. HasArrived(tool', tasks')
    BY <1>6, <1>7, <2>1 DEF IsOne, OneInv, HasArrived, IsMount
  <2>6. HasOneBox(tool', s)
    BY <1>6, <2>1 DEF IsOne, OneInv, HasOneBox
  <2>7. IsFilled(tool', tasks')
    BY <1>1, <1>6, <1>7, <2>1 DEF IsOne, OneInv, IsFilled, FirstMounts, IsMount
  <2>8. HasReason(tool', tasks', stream, completed, s)
    BY <1>5, <1>6 DEF HasReason, Awaited
  <2> QED
    BY <2>4, <2>5, <2>6, <2>7, <2>8 DEF OneInv
<1> QED
  BY <1>1, <1>6, <1>7, <1>8, PageStep

\* A mount that begins for the session of the page.
LEMMA MountBegins ==
    ASSUME NEW B \in SUBSET Draft, NEW u \in ToolOf(B), NEW r \in [1 .. Slots -> CallOf(B)],
           NEW k \in 1 .. Slots, NEW n \in Nat, NEW then \in MountKinds,
           NEW back \in Nat, u.comp # NoComp, Settles(Mounting([tool |-> u, tasks |-> r], k, n, then, back))
    PROVE  /\ tool' = u /\ tasks' \in [1 .. Slots -> CallOf(B)]
           /\ IsMount(tasks'[k]) /\ tasks'[k].then = then
           /\ \A j \in 1 .. Slots : j # k => tasks'[j] = r[j]
<1>1. PICK q : q = [tool |-> u, tasks |-> r]
  OBVIOUS
<1>2. q \in PlaceOf(B) /\ q.tool = u /\ q.tasks = r /\ q.tool.comp # NoComp
  BY <1>1, PlaceIs
<1>3. PICK m : m = Mounting(q, k, n, then, back)
  OBVIOUS
<1>4. /\ m \in PlaceOf(B) /\ m.tool = u /\ m.tasks[k].at = "import" /\ m.tasks[k].then = then
      /\ \A j \in 1 .. Slots : j # k => m.tasks[j] = r[j]
  <2>1. q \in PlaceOf(B) /\ q.tool.comp # NoComp
    BY <1>2
  <2>2. /\ m \in PlaceOf(B) /\ m.tool = q.tool
        /\ m.tasks[k].at = "import" /\ m.tasks[k].then = then
        /\ \A j \in 1 .. Slots : j # k => m.tasks[j] = q.tasks[j]
    <3>1. /\ Mounting(q, k, n, then, back) \in PlaceOf(B)
          /\ Mounting(q, k, n, then, back).tool = q.tool
          /\ Mounting(q, k, n, then, back).tasks[k].at = "import"
          /\ Mounting(q, k, n, then, back).tasks[k].then = then
          /\ \A j \in 1 .. Slots : j # k => Mounting(q, k, n, then, back).tasks[j] = q.tasks[j]
      BY <2>1, MountingType
    <3> QED
      BY <1>3, <3>1
  <2> QED
    BY <1>2, <2>2
<1>5. tool' = m.tool /\ tasks' = m.tasks
  BY <1>1, <1>3 DEF Settles
<1> QED
  BY <1>4, <1>5, PlaceFields DEF IsMount

\* The variant that is chosen is a number.
LEMMA ChosenIsNat ==
    ASSUME NEW B \in SUBSET Draft, NEW t \in ToolOf(B), NEW s, NEW n \in Nat
    PROVE  Pick(t, s, n) \in Nat
  BY DEF Pick, ToolOf, CacheOf

\* The three cases of ManifestRead, for a page t that has turned to session s.
ReadsAgain(k, s, n, t) ==
    /\ t.comp.id = s /\ \E x \in t.boxes : x[1] = s
    /\ LET u == [t EXCEPT !.arrived = n, !.visible = IF @ \in 1 .. n THEN @ ELSE 1] IN
       Settles(Mounting([tool |-> u, tasks |-> tasks], k, u.visible, "again", 0))

ReadsTooEarly(k, s, n, t) ==
    /\ ~(t.comp.id = s /\ \E x \in t.boxes : x[1] = s) /\ s \notin t.here
    /\ LET at(u) == [u EXCEPT !.arrived = n, !.visible = Pick(u, s, n)] IN
       Settles([tool |-> Cached([at(t) EXCEPT !.ui = "GENERATING", !.retry = s]),
                tasks |-> [tasks EXCEPT ![k] = NoCall]])

ReadsFirst(k, s, n, t) ==
    /\ ~(t.comp.id = s /\ \E x \in t.boxes : x[1] = s) /\ s \in t.here
    /\ \E b \in Box :
       /\ b[1] = s
       /\ LET at(u) == [u EXCEPT !.arrived = n, !.visible = Pick(u, s, n)]
              u == [at(t) EXCEPT
                        !.comp = [NoComp EXCEPT !.id = s, !.box = b],
                        !.boxes = @ \cup {b}, !.here = @ \ {s}, !.retry = NoDraft]
          IN  Settles(Mounting([tool |-> u, tasks |-> tasks], k, u.visible, "first", 0))

\* A manifest that is read: a second mount, a wait for the element, or a wrapper.
LEMMA ReadKeeps ==
    ASSUME PreviewIInv, NEW k \in 1 .. Slots, ManifestRead(k)
    PROVE  PreviewIInv'
<1>1. PICK s : s = tasks[k].id
  OBVIOUS
<1>2. PICK n : n = manifest[s].n
  OBVIOUS
<1>3. PICK t : t = [tool EXCEPT !.current = s, !.preview = s,
                                !.ui = IF @ = "CYCLING" THEN @ ELSE "GENERATING"]
  OBVIOUS
<1>4. /\ tool \in ToolOf(begun) /\ tasks \in [1 .. Slots -> CallOf(begun)] /\ begun \in SUBSET Draft
      /\ tool.visible \in Nat /\ tasks[k].at = "manifest" /\ n > 0
      /\ UNCHANGED <<stream, manifest, begun, ended, completed>>
  BY <1>1, <1>2 DEF PreviewIInv, PreviewData, ToolOf, ManifestRead, Rest
<1>5. s \in begun /\ s \in Draft /\ s # NoDraft
  BY <1>1, <1>4, CallOfOne, WantedIsNat
<1>6. n \in Nat
  BY <1>2, <1>5 DEF PreviewIInv, PreviewData
<1>7. /\ t \in ToolOf(begun) /\ t.current = s /\ t.preview = s /\ t.comp = tool.comp
      /\ t.boxes = tool.boxes /\ t.here = tool.here /\ t.saved = tool.saved
      /\ t.card = tool.card /\ t.retry = tool.retry /\ t.visible \in Nat
      /\ tool.ui = "CYCLING" => t.ui = "CYCLING"
      /\ tool.ui # "CYCLING" => t.ui = "GENERATING"
  BY <1>3, <1>4, <1>5 DEF ToolOf, DraftsOf, UiOf
<1>8. ASSUME NEW d \in Draft, OnlyOne(d)
      PROVE  /\ d = s /\ IsOne(d) /\ begun = {d} /\ tool.current # NoDraft /\ tool.preview # NoDraft
             /\ manifest[d].n > 0 /\ manifest[d].n = n
  <2>1. d = s /\ IsOne(d) /\ begun = {d}
    BY <1>5, <1>8 DEF PreviewIInv, OnlyOne
  <2>2. Underway(tool, tasks)
    BY <1>4 DEF Underway
  <2> QED
    BY <1>2, <2>1, <2>2 DEF IsOne, OneInv, IsKnown, IsPublished
<1>9. CASE ReadsAgain(k, s, n, t)
  <2>1. PICK v : v = IF t.visible \in 1 .. n THEN t.visible ELSE 1
    OBVIOUS
  <2>2. PICK u : u = [t EXCEPT !.arrived = n, !.visible = v]
    OBVIOUS
  <2>3. v \in Nat
    BY <1>7, <2>1
  <2>4. /\ u \in ToolOf(begun) /\ u.arrived = n /\ u.ui = t.ui /\ u.current = s /\ u.preview = s
        /\ u.comp = tool.comp /\ u.boxes = tool.boxes /\ u.here = tool.here
        /\ u.saved = tool.saved /\ u.card = tool.card /\ u.retry = tool.retry /\ u.visible = v
    BY <1>6, <1>7, <2>2, <2>3 DEF ToolOf
  <2>5. u.comp # NoComp
    BY <1>5, <1>7, <1>9, <2>4 DEF NoComp, ReadsAgain
  <2>6. Settles(Mounting([tool |-> u, tasks |-> tasks], k, v, "again", 0))
    BY <1>9, <2>1, <2>2, <2>4 DEF ReadsAgain
  <2>7. /\ tool' = u /\ tasks' \in [1 .. Slots -> CallOf(begun)]
        /\ IsMount(tasks'[k]) /\ tasks'[k].then = "again"
        /\ \A j \in 1 .. Slots : j # k => tasks'[j] = tasks[j]
    <3>1. "again" \in MountKinds
      BY DEF MountKinds
    <3> QED
      BY <1>4, <2>3, <2>4, <2>5, <2>6, <3>1, MountBegins
  <2>8. ASSUME NEW d \in Draft, OnlyOne(d)
        PROVE  OneInv(tool', tasks', stream, manifest[d].n, completed, d)
    <3>1. d = s /\ IsOne(d) /\ manifest[d].n > 0
      BY <1>8, <2>8
    <3>2. IsKnown(tool', tasks') /\ IsPublished(tool', tasks', stream, manifest[d].n)
      BY <1>5, <2>4, <2>7, <3>1 DEF IsKnown, IsPublished
    <3>3. HasArrived(tool', tasks') /\ HasOneBox(tool', d)
      BY <1>4, <2>4, <2>7, <3>1 DEF IsOne, OneInv, HasArrived, HasOneBox
    <3>4. IsFilled(tool', tasks')
      BY <1>4, <1>7, <2>4, <2>7, <3>1 DEF IsOne, OneInv, IsFilled, FirstMounts, IsMount
    <3>5. HasReason(tool', tasks', stream, completed, d)
      BY <2>7 DEF HasReason, Awaited
    <3> QED
      BY <3>2, <3>3, <3>4, <3>5 DEF OneInv
  <2> QED
    BY <1>4, <2>4, <2>7, <2>8, PageStep
<1>10. CASE ReadsTooEarly(k, s, n, t)
  <2>1. PICK v : v = Pick(t, s, n)
    OBVIOUS
  <2>2. v \in Nat
    BY <1>4, <1>6, <1>7, <2>1, ChosenIsNat
  <2>3. PICK u : u = [t EXCEPT !.arrived = n, !.visible = v, !.ui = "GENERATING", !.retry = s]
    OBVIOUS
  <2>4. /\ u \in ToolOf(begun) /\ u.arrived = n /\ u.ui = "GENERATING" /\ u.current = s /\ u.preview = s
        /\ u.comp = tool.comp /\ u.boxes = tool.boxes /\ u.here = tool.here
        /\ u.card = tool.card /\ u.retry = s
    BY <1>5, <1>6, <1>7, <2>2, <2>3 DEF ToolOf, DraftsOf, UiOf
  <2>5. tool' = Cached(u) /\ tasks' = [tasks EXCEPT ![k] = NoCall]
    BY <1>10, <2>1, <2>3 DEF Settles, ReadsTooEarly
  <2>6. /\ tool' \in ToolOf(begun) /\ tool'.arrived = n /\ tool'.current = s /\ tool'.preview = s
        /\ tool'.comp = tool.comp /\ tool'.boxes = tool.boxes /\ tool'.here = tool.here
        /\ tool'.retry = s /\ tool'.saved.seen = s
    BY <1>4, <1>5, <2>4, <2>5, CachedType
  <2>7. /\ tasks' \in [1 .. Slots -> CallOf(begun)] /\ tasks'[k].at = "idle"
        /\ \A j \in 1 .. Slots : j # k => tasks'[j] = tasks[j]
    BY <1>4, <2>5, CallEnds
  <2>8. ASSUME NEW d \in Draft, OnlyOne(d)
        PROVE  OneInv(tool', tasks', stream, manifest[d].n, completed, d)
    <3>1. d = s /\ IsOne(d) /\ manifest[d].n > 0 /\ begun = {d}
      BY <1>8, <2>8
    <3>2. IsKnown(tool', tasks') /\ IsPublished(tool', tasks', stream, manifest[d].n)
      BY <1>5, <2>6, <3>1 DEF IsKnown, IsPublished
    <3>3. HasArrived(tool', tasks') /\ HasOneBox(tool', d)
      BY <1>4, <2>6, <2>7, <3>1 DEF IsOne, OneInv, HasArrived, HasOneBox, IsMount
    <3>4. tool.comp # NoComp => tool.boxes = {}
      BY <1>4, <1>7, <1>10, <3>1, AllOfOne DEF ReadsTooEarly
    <3>5. IsFilled(tool', tasks')
      BY <2>6, <3>4 DEF IsFilled
    <3>6. HasReason(tool', tasks', stream, completed, d)
      BY <1>5, <2>6 DEF HasReason, Awaited
    <3> QED
      BY <3>2, <3>3, <3>5, <3>6 DEF OneInv
  <2> QED
    BY <1>4, <2>6, <2>7, <2>8, PageStep
<1>11. CASE ReadsFirst(k, s, n, t)
  <2>1. PICK v : v = Pick(t, s, n)
    OBVIOUS
  <2>2. v \in Nat
    BY <1>4, <1>6, <1>7, <2>1, ChosenIsNat
  <2>3. PICK b \in Box :
           /\ b[1] = s
           /\ LET at(u) == [u EXCEPT !.arrived = n, !.visible = Pick(u, s, n)]
                  u == [at(t) EXCEPT
                            !.comp = [NoComp EXCEPT !.id = s, !.box = b],
                            !.boxes = @ \cup {b}, !.here = @ \ {s}, !.retry = NoDraft]
              IN  Settles(Mounting([tool |-> u, tasks |-> tasks], k, u.visible, "first", 0))
    BY <1>11 DEF ReadsFirst
  <2>4. PICK c : c = [NoComp EXCEPT !.id = s, !.box = b]
    OBVIOUS
  <2>5. b \in BoxesOf(begun)
    BY <1>5, <2>3 DEF BoxesOf, Box
  <2>6. c \in CompOf(begun) /\ c # NoComp /\ c.box = b /\ c.id = s
    BY <1>5, <2>4, <2>5 DEF CompOf, NoComp
  <2>7. PICK x : x = t.boxes \cup {b}
    OBVIOUS
  <2>8. PICK h : h = t.here \ {s}
    OBVIOUS
  <2>9. x \in SUBSET BoxesOf(begun) /\ h \in SUBSET Draft
    BY <1>7, <2>5, <2>7, <2>8 DEF ToolOf
  <2>10. PICK u : u = [t EXCEPT !.arrived = n, !.visible = v, !.comp = c, !.boxes = x, !.here = h,
                                !.retry = NoDraft]
    OBVIOUS
  <2>11. /\ u \in ToolOf(begun) /\ u.arrived = n /\ u.current = s /\ u.preview = s
         /\ u.comp = c /\ u.boxes = x /\ u.here = h /\ u.saved = tool.saved /\ u.visible = v
    BY <1>6, <1>7, <2>2, <2>6, <2>9, <2>10 DEF ToolOf, DraftsOf
  <2>12. Settles(Mounting([tool |-> u, tasks |-> tasks], k, v, "first", 0))
    <3>1. u = [[t EXCEPT !.arrived = n, !.visible = Pick(t, s, n)] EXCEPT
                  !.comp = [NoComp EXCEPT !.id = s, !.box = b],
                  !.boxes = @ \cup {b}, !.here = @ \ {s}, !.retry = NoDraft]
      BY <2>1, <2>4, <2>7, <2>8, <2>10, <1>7 DEF ToolOf
    <3> QED
      BY <2>3, <2>11, <3>1
  <2>13. /\ tool' = u /\ tasks' \in [1 .. Slots -> CallOf(begun)]
         /\ IsMount(tasks'[k]) /\ tasks'[k].then = "first"
         /\ \A j \in 1 .. Slots : j # k => tasks'[j] = tasks[j]
    <3>1. "first" \in MountKinds /\ u.comp # NoComp
      BY <2>6, <2>11 DEF MountKinds
    <3> QED
      BY <1>4, <2>2, <2>11, <2>12, <3>1, MountBegins
  <2>14. ASSUME NEW d \in Draft, OnlyOne(d)
         PROVE  OneInv(tool', tasks', stream, manifest[d].n, completed, d)
    <3>1. d = s /\ IsOne(d) /\ manifest[d].n > 0 /\ begun = {d}
      BY <1>8, <2>14
    <3>2. IsKnown(tool', tasks') /\ IsPublished(tool', tasks', stream, manifest[d].n)
      BY <1>5, <2>11, <2>13, <3>1 DEF IsKnown, IsPublished
    <3>3. HasArrived(tool', tasks')
      BY <1>4, <2>11, <2>13, <3>1 DEF HasArrived
    <3>4. tool.boxes = {}
      <4>1. CASE tool.comp = NoComp
        BY <3>1, <4>1 DEF IsOne, OneInv, HasOneBox
      <4>2. CASE tool.comp # NoComp
        BY <1>4, <1>7, <1>11, <3>1, <4>2, AllOfOne DEF ReadsFirst
      <4> QED
        BY <4>1, <4>2
    <3>5. HasOneBox(tool', d)
      BY <1>7, <2>6, <2>7, <2>8, <2>11, <2>13, <3>1, <3>4 DEF HasOneBox
    <3>6. IsFilled(tool', tasks') /\ HasReason(tool', tasks', stream, completed, d)
      BY <2>13 DEF IsFilled, FirstMounts, HasReason, Awaited
    <3> QED
      BY <3>2, <3>3, <3>5, <3>6 DEF OneInv
  <2> QED
    BY <1>4, <2>11, <2>13, <2>14, PageStep
<1>12. ReadsAgain(k, s, n, t) \/ ReadsTooEarly(k, s, n, t) \/ ReadsFirst(k, s, n, t)
  <2>1. PICK t1 : t1 = [tool EXCEPT !.current = tasks[k].id, !.preview = tasks[k].id,
                                    !.ui = IF @ = "CYCLING" THEN @ ELSE "GENERATING"]
    OBVIOUS
  <2>2. \/ ReadsAgain(k, tasks[k].id, manifest[tasks[k].id].n, t1)
        \/ ReadsTooEarly(k, tasks[k].id, manifest[tasks[k].id].n, t1)
        \/ ReadsFirst(k, tasks[k].id, manifest[tasks[k].id].n, t1)
    BY <2>1, Zenon DEF ManifestRead, ReadsAgain, ReadsTooEarly, ReadsFirst
  <2> QED
    BY <1>1, <1>2, <1>3, <2>1, <2>2
<1> QED
  BY <1>9, <1>10, <1>11, <1>12

-----------------------------------------------------------------------------
(* The mounts.                                                             *)

\* A page that differs in the card and in what is mounted at most.
IsLike(t, u) ==
    /\ u.ui = t.ui /\ u.current = t.current /\ u.arrived = t.arrived /\ u.preview = t.preview
    /\ u.retry = t.retry /\ u.here = t.here /\ u.boxes = t.boxes /\ u.saved = t.saved
    /\ (u.comp = NoComp <=> t.comp = NoComp) /\ u.comp.id = t.comp.id /\ u.comp.box = t.comp.box

\* A mount that goes on keeps the invariant, and is the first one as before.
LEMMA MountMovesOn ==
    ASSUME PreviewIInv, NEW k \in 1 .. Slots, IsMount(tasks[k]),
           tool' \in ToolOf(begun), IsLike(tool, tool'), tool'.card = tool.card,
           tasks' \in [1 .. Slots -> CallOf(begun)], IsMount(tasks'[k]),
           tasks'[k].then = tasks[k].then, \A j \in 1 .. Slots : j # k => tasks'[j] = tasks[j],
           UNCHANGED <<stream, manifest, begun, ended, completed>>
    PROVE  PreviewIInv'
<1>1. ASSUME NEW s \in Draft, OnlyOne(s)
      PROVE  OneInv(tool', tasks', stream, manifest[s].n, completed, s)
  <2>1. IsOne(s)
    BY <1>1 DEF PreviewIInv
  <2>2. Underway(tool, tasks)
    BY DEF Underway, IsMount
  <2>3. IsKnown(tool', tasks') /\ IsPublished(tool', tasks', stream, manifest[s].n)
    BY <2>1, <2>2 DEF IsLike, IsOne, OneInv, IsKnown, IsPublished
  <2>4. HasArrived(tool', tasks') /\ HasOneBox(tool', s)
    BY <2>1 DEF IsLike, IsOne, OneInv, HasArrived, HasOneBox
  <2>5. FirstMounts(tasks) => FirstMounts(tasks')
    BY DEF FirstMounts
  <2>6. IsFilled(tool', tasks')
    BY <2>1, <2>5 DEF IsLike, IsOne, OneInv, IsFilled
  <2>7. Awaited(tool, tasks) => Awaited(tool', tasks')
    BY DEF IsLike, Awaited, IsMount
  <2>8. Restorable(tool, stream, completed, s) => Restorable(tool', stream, completed, s)
    BY DEF IsLike, Restorable
  <2>9. HasReason(tool', tasks', stream, completed, s)
    BY <2>1, <2>7, <2>8 DEF IsLike, IsOne, OneInv, HasReason
  <2> QED
    BY <2>3, <2>4, <2>6, <2>9 DEF OneInv
<1> QED
  BY <1>1, PageStep

\* Once a first mount is under way it is only its own end that ends it.
LEMMA FirstGoesOn ==
    ASSUME NEW r, NEW w, NEW k \in 1 .. Slots, FirstMounts(r), r[k].then # "first",
           \A j \in 1 .. Slots : j # k => w[j] = r[j]
    PROVE  FirstMounts(w)
  BY DEF FirstMounts

\* What follows a mount that ended well, or whose failure the card shows.
LEMMA ContinuedKeeps ==
    ASSUME PreviewIInv, NEW k \in 1 .. Slots, IsMount(tasks[k]), NEW ok \in BOOLEAN,
           NEW t \in ToolOf(begun), IsLike(tool, t),
           ok => t.comp # NoComp, ~ok => t.card # NoCard,
           NEW r, r = Continues([tool |-> t, tasks |-> tasks], k, ok),
           tool' = r.tool, tasks' = r.tasks,
           UNCHANGED <<stream, manifest, begun, ended, completed>>
    PROVE  PreviewIInv'
<1>1. PICK q : q = [tool |-> t, tasks |-> tasks]
  OBVIOUS
<1>2. /\ tool \in ToolOf(begun) /\ tasks \in [1 .. Slots -> CallOf(begun)] /\ begun \in SUBSET Draft
      /\ t.arrived \in Nat
  BY DEF PreviewIInv, PreviewData, ToolOf
<1>3. q \in PlaceOf(begun) /\ q.tool = t /\ q.tasks = tasks /\ q.tasks[k].at # "idle"
  BY <1>1, <1>2, PlaceIs DEF IsMount
<1>4. tasks[k].id \in begun
  BY <1>2, CallOfOne DEF IsMount
<1>5. EndsTo(begun, q, k, ok, r)
  <2>1. r = Continues(q, k, ok)
    BY <1>1
  <2>2. begun \in SUBSET Draft /\ q \in PlaceOf(begun) /\ q.tasks[k].at # "idle"
    BY <1>2, <1>3
  <2> QED
    BY <2>1, <2>2, ContinuesIs
<1>6. tool' \in ToolOf(begun) /\ tasks' \in [1 .. Slots -> CallOf(begun)]
  BY <1>2, <1>5, PlaceFields DEF EndsTo
<1>7. /\ \A j \in 1 .. Slots : j # k => tasks'[j] = tasks[j]
      /\ tasks[k].then = "first" =>
           /\ tasks'[k].at = "idle"
           /\ tool' = IF ok THEN Cycles(t) ELSE Aborted(t, tasks[k].id)
      /\ tasks[k].then = "again" =>
           /\ tasks'[k].at = "idle"
           /\ tool' = IF ok THEN Cycles(t) ELSE Cached(t)
      /\ tasks[k].then \notin {"first", "again"} =>
           /\ Keeps(t, tool')
           /\ \/ tasks'[k].at = "idle"
              \/ t.comp # NoComp /\ tasks'[k].at = "import"
  BY <1>3, <1>5 DEF EndsTo
<1>8. ASSUME NEW s \in Draft, OnlyOne(s)
      PROVE  OneInv(tool', tasks', stream, manifest[s].n, completed, s)
  <2>1. IsOne(s) /\ begun = {s} /\ s # NoDraft
    BY <1>8, WantedIsNat DEF PreviewIInv, OnlyOne
  <2>2. Underway(tool, tasks)
    BY DEF Underway, IsMount
  <2>3. tool.current # NoDraft /\ tool.preview # NoDraft /\ manifest[s].n > 0 /\ tool.arrived > 0
    BY <2>1, <2>2 DEF IsOne, OneInv, IsKnown, IsPublished, HasArrived
  <2>4. t.current # NoDraft /\ t.preview # NoDraft /\ t.arrived > 0 /\ HasOneBox(t, s)
        /\ t.ui = tool.ui /\ t.boxes = tool.boxes /\ (t.comp = NoComp <=> tool.comp = NoComp)
        /\ t.comp.box = tool.comp.box
    BY <2>1, <2>3 DEF IsLike, IsOne, OneInv, HasOneBox
  <2>5. CASE tasks[k].then \in {"first", "again"} /\ ok
    <3>1. tool' = Cycles(t) /\ tasks'[k].at = "idle"
      BY <1>7, <2>5
    <3>2. /\ tool'.ui = "CYCLING" /\ tool'.current = t.current /\ tool'.arrived = t.arrived
          /\ tool'.preview = t.preview /\ tool'.comp = t.comp /\ tool'.here = t.here
          /\ tool'.boxes = t.boxes
      BY <1>2, <2>4, <3>1, CyclesType
    <3>3. IsKnown(tool', tasks') /\ IsPublished(tool', tasks', stream, manifest[s].n)
      BY <2>3, <2>4, <3>2 DEF IsKnown, IsPublished
    <3>4. HasArrived(tool', tasks') /\ HasOneBox(tool', s)
      BY <2>4, <3>2 DEF HasArrived, HasOneBox
    <3>5. IsFilled(tool', tasks') /\ HasReason(tool', tasks', stream, completed, s)
      BY <3>2 DEF IsFilled, HasReason
    <3> QED
      BY <3>3, <3>4, <3>5 DEF OneInv
  <2>6. CASE tasks[k].then = "first" /\ ~ok
    <3>1. tool' = Aborted(t, tasks[k].id) /\ tasks[k].id = s
      BY <1>4, <1>7, <2>1, <2>6
    <3>2. /\ tool'.current = t.current /\ tool'.arrived = t.arrived
          /\ tool'.preview = t.preview /\ tool'.card # NoCard
          /\ t.comp.id = s => tool'.comp = NoComp /\ tool'.boxes = t.boxes \ {t.comp.box}
          /\ t.comp.id # s => tool'.comp = t.comp /\ tool'.boxes = {x \in t.boxes : x[1] # s}
      BY <1>2, <1>4, <3>1, AbortedType
    <3>3. tool'.comp = NoComp /\ tool'.boxes = {}
      BY <2>1, <2>4, <3>2, AllOfOne DEF HasOneBox
    <3>4. IsKnown(tool', tasks') /\ IsPublished(tool', tasks', stream, manifest[s].n)
      BY <2>3, <2>4, <3>2 DEF IsKnown, IsPublished
    <3>5. HasArrived(tool', tasks') /\ HasOneBox(tool', s)
      BY <2>4, <3>2, <3>3 DEF HasArrived, HasOneBox
    <3>6. IsFilled(tool', tasks') /\ HasReason(tool', tasks', stream, completed, s)
      BY <3>2, <3>3 DEF IsFilled, HasReason, Awaited
    <3> QED
      BY <3>4, <3>5, <3>6 DEF OneInv
  <2>7. CASE tasks[k].then \notin {"first", "again"} \/ (tasks[k].then = "again" /\ ~ok)
    <3>1. /\ Keeps(t, tool') /\ tasks[k].then # "first"
      <4>1. CASE tasks[k].then \notin {"first", "again"}
        BY <1>7, <4>1
      <4>2. CASE tasks[k].then = "again" /\ ~ok
        BY <1>2, <1>7, <4>2, CachedKeeps
      <4> QED
        BY <2>7, <4>1, <4>2
    <3>2. IsKnown(tool', tasks') /\ IsPublished(tool', tasks', stream, manifest[s].n)
      BY <2>3, <2>4, <3>1 DEF Keeps, IsKnown, IsPublished
    <3>3. HasArrived(tool', tasks') /\ HasOneBox(tool', s)
      BY <2>4, <3>1 DEF Keeps, HasArrived, HasOneBox
    <3>4. FirstMounts(tasks) => FirstMounts(tasks')
      BY <1>7, <3>1, FirstGoesOn
    <3>5. IsFilled(tool', tasks')
      BY <2>1, <2>4, <3>1, <3>4 DEF Keeps, IsOne, OneInv, IsFilled
    <3>6. HasReason(tool', tasks', stream, completed, s)
      <4>1. CASE ok
        <5>1. t.comp # NoComp /\ tool'.comp # NoComp
          BY <3>1, <4>1 DEF Keeps
        <5>2. FirstMounts(tasks') => Awaited(tool', tasks')
          BY DEF FirstMounts, Awaited
        <5> QED
          BY <3>5, <5>1, <5>2 DEF HasReason, IsFilled, Awaited
      <4>2. CASE ~ok
        BY <3>1, <4>2 DEF Keeps, HasReason, Awaited
      <4> QED
        BY <4>1, <4>2
    <3> QED
      BY <3>2, <3>3, <3>5, <3>6 DEF OneInv
  <2> QED
    BY <2>5, <2>6, <2>7
<1> QED
  BY <1>6, <1>8, PageStep

\* A component that is mounted.
LEMMA MountedNowKeeps ==
    ASSUME PreviewIInv, NEW k \in 1 .. Slots, IsMount(tasks[k]), tool.comp # NoComp,
           Settles(MountedNow(World, k)), UNCHANGED <<stream, manifest, begun, ended, completed>>
    PROVE  PreviewIInv'
<1>1. PICK c : c = tasks[k]
  OBVIOUS
<1>2. /\ tool \in ToolOf(begun) /\ tasks \in [1 .. Slots -> CallOf(begun)] /\ begun \in SUBSET Draft
      /\ World = [tool |-> tool, tasks |-> tasks]
  BY DEF PreviewIInv, PreviewData, World
<1>3. c.box \in BoxesOf(begun) \cup {<<>>} /\ c.n \in Nat /\ c.id \in begun
  BY <1>1, <1>2, CallOfOne DEF IsMount
<1>4. PICK d : d = [tool.comp EXCEPT !.held = c.box, !.n = c.n, !.variant = c.n]
  OBVIOUS
<1>5. /\ d \in CompOf(begun) /\ d # NoComp /\ d.id = tool.comp.id /\ d.box = tool.comp.box
  <2>1. tool.comp \in [id : begun, box : BoxesOf(begun), held : BoxesOf(begun) \cup {<<>>},
                       n : Nat, variant : Nat]
    BY <1>2 DEF ToolOf, CompOf
  <2>2. d.id = tool.comp.id /\ d.id \in begun
    BY <1>4, <2>1
  <2>3. d # NoComp
    BY <1>2, <2>2, WantedIsNat DEF NoComp
  <2> QED
    BY <1>3, <1>4, <2>1, <2>3 DEF CompOf
<1>6. PICK e : e = IF tool.card.id = c.id /\ tool.card.n = c.n THEN NoCard ELSE tool.card
  OBVIOUS
<1>7. e \in CardOf(begun)
  BY <1>2, <1>6 DEF CardOf, ToolOf
<1>8. PICK t : t = [tool EXCEPT !.comp = d, !.card = e]
  OBVIOUS
<1>9. t \in ToolOf(begun) /\ IsLike(tool, t) /\ t.comp # NoComp
  BY <1>2, <1>5, <1>7, <1>8 DEF ToolOf, IsLike
<1>10. PICK r : r = Continues([tool |-> t, tasks |-> tasks], k, TRUE)
  OBVIOUS
<1>11. /\ World.tool = tool /\ World.tasks = tasks
       /\ [World EXCEPT !.tool = t] = [tool |-> t, tasks |-> tasks]
  BY <1>2
<1>12. MountedNow(World, k) = r
  <2>1. t = [World.tool EXCEPT !.comp = [@ EXCEPT !.held = c.box, !.n = c.n, !.variant = c.n],
                               !.card = IF @.id = c.id /\ @.n = c.n THEN NoCard ELSE @]
    BY <1>4, <1>6, <1>8, <1>11
  <2>2. MountedNow(World, k) = Continues([World EXCEPT !.tool = t], k, TRUE)
    BY <1>1, <1>11, <2>1 DEF MountedNow
  <2> QED
    BY <1>10, <1>11, <2>2
<1>13. tool' = r.tool /\ tasks' = r.tasks
  BY <1>12 DEF Settles
<1> QED
  BY <1>9, <1>10, <1>13, ContinuedKeeps

\* A mount that begins to describe its failure.
LEMMA ExplainsKeeps ==
    ASSUME PreviewIInv, NEW k \in 1 .. Slots, IsMount(tasks[k]), NEW at \in {"explain", "unmount"},
           NEW d \in CompOf(begun), (d = NoComp <=> tool.comp = NoComp), d.id = tool.comp.id,
           d.box = tool.comp.box,
           tool' = [tool EXCEPT !.comp = d], tasks' = [tasks EXCEPT ![k].at = at],
           UNCHANGED <<stream, manifest, begun, ended, completed>>
    PROVE  PreviewIInv'
<1>1. tool \in ToolOf(begun) /\ tasks \in [1 .. Slots -> CallOf(begun)] /\ begun \in SUBSET Draft
  BY DEF PreviewIInv, PreviewData
<1>2. tool' \in ToolOf(begun) /\ IsLike(tool, tool') /\ tool'.card = tool.card
  BY <1>1 DEF ToolOf, IsLike
<1>3. PICK c : c = [tasks[k] EXCEPT !.at = at]
  OBVIOUS
<1>4. c \in CallOf(begun) /\ IsMount(c) /\ c.then = tasks[k].then
  <2>1. tasks[k] \in [at : At \ {"idle"}, id : begun, file : DraftsOf(begun),
                      box : BoxesOf(begun) \cup {<<>>},
                      n : Nat, then : {"none", "first", "again", "select", "revert"}, back : Nat]
    BY <1>1, MountIsCall DEF IsMount
  <2> QED
    BY <1>3, <2>1 DEF CallOf, At, IsMount
<1>5. tasks' = [tasks EXCEPT ![k] = c]
  BY <1>3
<1>6. /\ tasks' \in [1 .. Slots -> CallOf(begun)] /\ tasks'[k] = c
      /\ \A j \in 1 .. Slots : j # k => tasks'[j] = tasks[j]
  BY <1>1, <1>4, <1>5
<1> QED
  BY <1>2, <1>4, <1>6, MountMovesOn

\* An import or an unmount that ends.
LEMMA ImportedKeeps ==
    ASSUME PreviewIInv, NEW k \in 1 .. Slots, Imported(k) \/ Unmounted(k)
    PROVE  PreviewIInv'
<1>1. /\ tool \in ToolOf(begun) /\ tasks \in [1 .. Slots -> CallOf(begun)] /\ begun \in SUBSET Draft
      /\ World = [tool |-> tool, tasks |-> tasks] /\ tool.comp \in CompOf(begun)
      /\ tool = [tool EXCEPT !.comp = tool.comp]
  BY DEF PreviewIInv, PreviewData, World, ToolOf
<1>2. IsMount(tasks[k]) /\ UNCHANGED <<stream, manifest, begun, ended, completed>>
  BY DEF Imported, Unmounted, Rest, IsMount
<1>3. CASE Settles(Explains(World, k))
  <2>1. tool' = tool /\ tasks' = [tasks EXCEPT ![k].at = "explain"]
    BY <1>1, <1>3 DEF Settles, Explains
  <2>2. tool' = [tool EXCEPT !.comp = tool.comp] /\ "explain" \in {"explain", "unmount"}
    BY <1>1, <2>1
  <2> QED
    BY <1>1, <1>2, <2>1, <2>2, ExplainsKeeps
<1>4. CASE Settles([World EXCEPT !.tasks[k].at = "unmount"])
  <2>1. tool' = tool /\ tasks' = [tasks EXCEPT ![k].at = "unmount"]
    BY <1>1, <1>4 DEF Settles
  <2>2. tool' = [tool EXCEPT !.comp = tool.comp] /\ "unmount" \in {"explain", "unmount"}
    BY <1>1, <2>1
  <2> QED
    BY <1>1, <1>2, <2>1, <2>2, ExplainsKeeps
<1>5. CASE Settles(MountedNow(World, k)) /\ tool.comp # NoComp
  BY <1>2, <1>5, MountedNowKeeps
<1> QED
  BY <1>3, <1>4, <1>5 DEF Imported, Unmounted

\* A component that throws when it is mounted.
LEMMA ThrowsKeeps ==
    ASSUME PreviewIInv, NEW k \in 1 .. Slots, MountThrows(k)
    PROVE  PreviewIInv'
<1>1. /\ tool \in ToolOf(begun) /\ tasks \in [1 .. Slots -> CallOf(begun)] /\ begun \in SUBSET Draft
      /\ World = [tool |-> tool, tasks |-> tasks] /\ tool.comp \in CompOf(begun)
  BY DEF PreviewIInv, PreviewData, World, ToolOf
<1>2. IsMount(tasks[k]) /\ UNCHANGED <<stream, manifest, begun, ended, completed>> /\ tool.comp # NoComp
  BY DEF MountThrows, Rest, IsMount
<1>3. PICK d : d = [tool.comp EXCEPT !.n = 0, !.held = <<>>]
  OBVIOUS
<1>4. d \in CompOf(begun) /\ d # NoComp /\ d.id = tool.comp.id /\ d.box = tool.comp.box
  <2>1. tool.comp \in [id : begun, box : BoxesOf(begun), held : BoxesOf(begun) \cup {<<>>},
                       n : Nat, variant : Nat]
    BY <1>1, <1>2 DEF CompOf
  <2>2. d.id = tool.comp.id /\ d.id \in begun
    BY <1>3, <2>1
  <2>3. d # NoComp
    BY <1>1, <2>2, WantedIsNat DEF NoComp
  <2> QED
    BY <1>3, <2>1, <2>3 DEF CompOf
<1>5. tool' = [tool EXCEPT !.comp = d] /\ tasks' = [tasks EXCEPT ![k].at = "explain"]
  BY <1>1, <1>3 DEF MountThrows, Settles, Explains
<1>6. "explain" \in {"explain", "unmount"} /\ (d = NoComp <=> tool.comp = NoComp)
  BY <1>2, <1>4
<1> QED
  BY <1>2, <1>4, <1>5, <1>6, ExplainsKeeps

\* A failure that is shown, and what follows the failed mount.
LEMMA ExplainedKeeps ==
    ASSUME PreviewIInv, NEW k \in 1 .. Slots, Explained(k)
    PROVE  PreviewIInv'
<1>1. /\ tool \in ToolOf(begun) /\ tasks \in [1 .. Slots -> CallOf(begun)] /\ begun \in SUBSET Draft
      /\ World = [tool |-> tool, tasks |-> tasks] /\ NoDraft \in DraftsOf(begun)
  BY DEF PreviewIInv, PreviewData, World, DraftsOf
<1>2. IsMount(tasks[k]) /\ UNCHANGED <<stream, manifest, begun, ended, completed>>
  BY DEF Explained, Rest, IsMount
<1>3. tasks[k].id \in begun /\ tasks[k].n \in Nat
  BY <1>1, <1>2, CallOfOne DEF IsMount
<1>4. PICK c : c = Card(tool, tasks[k].id, tasks[k].n, NoDraft)
  OBVIOUS
<1>5. c \in CardOf(begun) /\ c # NoCard
  BY <1>1, <1>3, <1>4, CardType
<1>6. PICK t : t = [tool EXCEPT !.card = c]
  OBVIOUS
<1>7. t \in ToolOf(begun) /\ IsLike(tool, t) /\ t.card # NoCard
  BY <1>1, <1>5, <1>6 DEF ToolOf, IsLike
<1>8. PICK r : r = Continues([tool |-> t, tasks |-> tasks], k, FALSE)
  OBVIOUS
<1>9. tool' = r.tool /\ tasks' = r.tasks
  <2>1. [World EXCEPT !.tool.card = Card(tool, tasks[k].id, tasks[k].n, NoDraft)]
        = [tool |-> t, tasks |-> tasks]
    BY <1>1, <1>4, <1>6
  <2> QED
    BY <1>8, <2>1 DEF Explained, Settles
<1> QED
  BY <1>2, <1>7, <1>8, <1>9, ContinuedKeeps

-----------------------------------------------------------------------------
(* Reads that begin.                                                       *)

\* An injection of a place that is given by its parts.
LEMMA ReadBegins ==
    ASSUME NEW B \in SUBSET Draft, NEW u \in ToolOf(B), NEW r \in [1 .. Slots -> CallOf(B)],
           NEW s \in B, NEW f \in DraftsOf(B), Free(r) # {},
           NEW q, q = [tool |-> u, tasks |-> r]
    PROVE  /\ Injects(q, s, f).tool = u /\ Injects(q, s, f).tasks \in [1 .. Slots -> CallOf(B)]
           /\ Reads(r, Injects(q, s, f).tasks)
<1>1. q \in PlaceOf(B) /\ q.tool = u /\ q.tasks = r
  BY PlaceIs
<1>2. /\ Injects(q, s, f) \in PlaceOf(B) /\ Injects(q, s, f).tool = q.tool
      /\ Reads(q.tasks, Injects(q, s, f).tasks)
  <2>1. q \in PlaceOf(B) /\ Free(q.tasks) # {}
    BY <1>1
  <2> QED
    BY <2>1, InjectsType
<1>3. Injects(q, s, f).tasks \in [1 .. Slots -> CallOf(B)]
  BY <1>2, PlaceFields
<1> QED
  BY <1>1, <1>2, <1>3

\* It is awaited, and takes no mount away or adds one.
LEMMA ReadIsAwaited ==
    ASSUME NEW r, NEW w, Reads(r, w)
    PROVE  /\ FirstMounts(r) => FirstMounts(w)
           /\ (\E k \in 1 .. Slots : IsMount(w[k])) => (\E k \in 1 .. Slots : IsMount(r[k]))
           /\ \A t : Awaited(t, w)
<1>1. PICK k \in 1 .. Slots : /\ r[k].at = "idle" /\ w[k].at = "manifest"
                              /\ \A j \in 1 .. Slots : j # k => w[j] = r[j]
  BY DEF Reads
<1>2. FirstMounts(r) => FirstMounts(w)
  BY <1>1 DEF FirstMounts, IsMount
<1>3. (\E j \in 1 .. Slots : IsMount(w[j])) => (\E j \in 1 .. Slots : IsMount(r[j]))
  BY <1>1 DEF IsMount
<1>4. \A t : Awaited(t, w)
  BY <1>1 DEF Awaited
<1> QED
  BY <1>2, <1>3, <1>4

\* A page that begins to read about the session it is at.
LEMMA ReadingKeeps ==
    ASSUME NEW s \in Draft, NEW t, NEW u, NEW r, NEW w, NEW str, NEW n, NEW done,
           HasArrived(t, r), HasOneBox(t, s), IsFilled(t, r), Reads(r, w), n > 0,
           u.current # NoDraft, u.preview # NoDraft, u.arrived = t.arrived,
           u.comp = t.comp, u.boxes = t.boxes, s \in u.here => s \in t.here,
           u.ui = t.ui \/ (u.ui # "CYCLING" /\ t.ui # "CYCLING")
    PROVE  OneInv(u, w, str, n, done, s)
<1>1. IsKnown(u, w) /\ IsPublished(u, w, str, n)
  BY DEF IsKnown, IsPublished
<1>2. HasArrived(u, w)
  BY ReadIsAwaited DEF HasArrived
<1>3. HasOneBox(u, s)
  BY DEF HasOneBox
<1>4. IsFilled(u, w)
  BY ReadIsAwaited DEF IsFilled
<1>5. HasReason(u, w, str, done, s)
  BY ReadIsAwaited DEF HasReason
<1> QED
  BY <1>1, <1>2, <1>3, <1>4, <1>5 DEF OneInv

\* The second look for a completion that was missed.
LEMMA MissedKeeps ==
    ASSUME PreviewIInv, NEW k \in 1 .. Slots, MissedFires(k)
    PROVE  PreviewIInv'
<1>1. /\ tool \in ToolOf(begun) /\ tasks \in [1 .. Slots -> CallOf(begun)] /\ begun \in SUBSET Draft
      /\ World = [tool |-> tool, tasks |-> tasks] /\ tool.preview \in DraftsOf(begun)
      /\ tasks[k].at = "missed" /\ UNCHANGED <<stream, manifest, begun, ended, completed>>
  BY DEF PreviewIInv, PreviewData, World, ToolOf, MissedFires, Rest
<1>2. CASE Settles([World EXCEPT !.tasks[k].at = "manifest", !.tasks[k].file = tool.preview])
  <2>1. PICK c : c = [tasks[k] EXCEPT !.at = "manifest", !.file = tool.preview]
    OBVIOUS
  <2>2. c \in CallOf(begun) /\ c.at = "manifest"
    <3>1. tasks[k] \in [at : At \ {"idle"}, id : begun, file : DraftsOf(begun),
                        box : BoxesOf(begun) \cup {<<>>},
                        n : Nat, then : {"none", "first", "again", "select", "revert"}, back : Nat]
      BY <1>1, MountIsCall
    <3> QED
      BY <1>1, <2>1, <3>1 DEF CallOf, At
  <2>3. tool' = tool /\ tasks' = [tasks EXCEPT ![k] = c]
    BY <1>1, <1>2, <2>1 DEF Settles
  <2>4. /\ tool' \in ToolOf(begun) /\ tasks' \in [1 .. Slots -> CallOf(begun)] /\ tasks'[k] = c
        /\ \A j \in 1 .. Slots : j # k => tasks'[j] = tasks[j]
    BY <1>1, <2>2, <2>3
  <2>5. ASSUME NEW s \in Draft, OnlyOne(s)
        PROVE  OneInv(tool', tasks', stream, manifest[s].n, completed, s)
    <3>1. IsOne(s)
      BY <2>5 DEF PreviewIInv
    <3>2. Underway(tool, tasks)
      BY <1>1 DEF Underway
    <3>3. tool.current # NoDraft /\ tool.preview # NoDraft /\ manifest[s].n > 0
      BY <3>1, <3>2 DEF IsOne, OneInv, IsKnown, IsPublished
    <3>4. IsKnown(tool', tasks') /\ IsPublished(tool', tasks', stream, manifest[s].n)
      BY <2>3, <3>3 DEF IsKnown, IsPublished
    <3>5. HasArrived(tool', tasks') /\ HasOneBox(tool', s)
      BY <2>2, <2>3, <2>4, <3>1 DEF IsOne, OneInv, HasArrived, HasOneBox, IsMount
    <3>6. IsFilled(tool', tasks')
      BY <1>1, <2>3, <2>4, <3>1 DEF IsOne, OneInv, IsFilled, FirstMounts, IsMount
    <3>7. HasReason(tool', tasks', stream, completed, s)
      BY <2>2, <2>4 DEF HasReason, Awaited
    <3> QED
      BY <3>4, <3>5, <3>6, <3>7 DEF OneInv
  <2> QED
    BY <1>1, <2>4, <2>5, PageStep
<1>3. CASE Settles([World EXCEPT !.tasks[k] = NoCall])
  <2>1. tool' = tool /\ tasks' = [tasks EXCEPT ![k] = NoCall]
    BY <1>1, <1>3 DEF Settles
  <2>2. /\ tool' \in ToolOf(begun) /\ tasks' \in [1 .. Slots -> CallOf(begun)]
        /\ tasks'[k].at = "idle" /\ \A j \in 1 .. Slots : j # k => tasks'[j] = tasks[j]
    BY <1>1, <2>1, CallEnds
  <2>3. ASSUME NEW s \in Draft, OnlyOne(s)
        PROVE  OneInv(tool', tasks', stream, manifest[s].n, completed, s)
    <3>1. IsOne(s)
      BY <2>3 DEF PreviewIInv
    <3>2. Underway(tool, tasks)
      BY <1>1 DEF Underway
    <3>3. tool.current # NoDraft /\ tool.preview # NoDraft /\ manifest[s].n > 0
      BY <3>1, <3>2 DEF IsOne, OneInv, IsKnown, IsPublished
    <3>4. IsKnown(tool', tasks') /\ IsPublished(tool', tasks', stream, manifest[s].n)
      BY <2>1, <3>3 DEF IsKnown, IsPublished
    <3>5. HasArrived(tool', tasks') /\ HasOneBox(tool', s)
      BY <2>1, <2>2, <3>1 DEF IsOne, OneInv, HasArrived, HasOneBox, IsMount
    <3>6. IsFilled(tool', tasks')
      BY <1>1, <2>1, <2>2, <3>1 DEF IsOne, OneInv, IsFilled, FirstMounts, IsMount
    <3>7. Awaited(tool, tasks) => Awaited(tool', tasks')
      BY <1>1, <2>1, <2>2 DEF Awaited, IsMount
    <3>8. HasReason(tool', tasks', stream, completed, s)
      BY <2>1, <3>1, <3>7 DEF IsOne, OneInv, HasReason
    <3> QED
      BY <3>4, <3>5, <3>6, <3>8 DEF OneInv
  <2> QED
    BY <1>1, <2>2, <2>3, PageStep
<1> QED
  BY <1>2, <1>3 DEF MissedFires

-----------------------------------------------------------------------------
(* The user.                                                               *)

\* With a session more, all types hold that held.
LEMMA MoreAreBegun ==
    ASSUME NEW B \in SUBSET Draft, NEW C \in SUBSET Draft, B \subseteq C
    PROVE  ToolOf(B) \subseteq ToolOf(C) /\ CallOf(B) \subseteq CallOf(C) /\ NewsOf(B) \subseteq NewsOf(C)
<1>1. DraftsOf(B) \subseteq DraftsOf(C) /\ BoxesOf(B) \subseteq BoxesOf(C)
  BY DEF DraftsOf, BoxesOf
<1>2. CompOf(B) \subseteq CompOf(C)
  BY <1>1 DEF CompOf
<1>3. CardOf(B) \subseteq CardOf(C)
  BY <1>1 DEF CardOf
<1>4. CacheOf(B) \subseteq CacheOf(C)
  BY <1>1 DEF CacheOf
<1>5. ToolOf(B) \subseteq ToolOf(C)
  BY <1>1, <1>2, <1>3, <1>4 DEF ToolOf
<1>6. CallOf(B) \subseteq CallOf(C)
  BY <1>1 DEF CallOf
<1>7. NewsOf(B) \subseteq NewsOf(C)
  BY <1>1 DEF NewsOf
<1> QED
  BY <1>5, <1>6, <1>7

\* A Go begins the first session, or one more than one.
LEMMA GoKeeps ==
    ASSUME PreviewIInv, NEW s \in Draft, PressesGo(s)
    PROVE  PreviewIInv'
<1>1. /\ begun \in SUBSET Draft /\ begun' = begun \cup {s} /\ begun' \in SUBSET Draft
      /\ s \notin begun /\ s # NoDraft
      /\ UNCHANGED <<tasks, stream, manifest, ended, completed>>
  BY WantedIsNat DEF PreviewIInv, PreviewData, PressesGo
<1>2. /\ tool \in ToolOf(begun') /\ tasks \in [1 .. Slots -> CallOf(begun')]
      /\ stream \in Seq(NewsOf(begun'))
  <2>1. /\ tool \in ToolOf(begun) /\ tasks \in [1 .. Slots -> CallOf(begun)]
        /\ stream \in Seq(NewsOf(begun)) /\ begun \subseteq begun'
    BY <1>1 DEF PreviewIInv, PreviewData
  <2>2. /\ ToolOf(begun) \subseteq ToolOf(begun') /\ CallOf(begun) \subseteq CallOf(begun')
        /\ NewsOf(begun) \subseteq NewsOf(begun')
    BY <1>1, <2>1, MoreAreBegun
  <2> QED
    BY <2>1, <2>2
<1>3. PICK t : t = [tool EXCEPT !.ui = "GENERATING", !.current = s, !.arrived = 0, !.visible = 0,
                                !.card = NoCard, !.preview = NoDraft]
  OBVIOUS
<1>4. /\ t \in ToolOf(begun') /\ t.ui = "GENERATING" /\ t.current = s /\ t.preview = NoDraft
      /\ t.card = NoCard /\ t.retry = tool.retry /\ t.comp = tool.comp /\ t.here = tool.here
      /\ t.boxes = tool.boxes
  <2>1. NoCard \in CardOf(begun') /\ s \in DraftsOf(begun') /\ NoDraft \in DraftsOf(begun')
    BY <1>1 DEF CardOf, DraftsOf
  <2> QED
    BY <1>2, <1>3, <2>1 DEF ToolOf, UiOf
<1>5. tool' = Cached(t)
  BY <1>3 DEF PressesGo
<1>6. /\ tool' \in ToolOf(begun') /\ tool'.current = s /\ tool'.preview = NoDraft
      /\ tool'.card = NoCard /\ tool'.retry = tool.retry /\ tool'.comp = tool.comp
      /\ tool'.boxes = tool.boxes
      /\ tool'.saved.id = s /\ tool'.saved.ui = "GENERATING" /\ tool'.saved.seen = NoDraft
  BY <1>1, <1>4, <1>5, CachedType
<1>7. PreviewData'
  BY <1>1, <1>2, <1>6 DEF PreviewIInv, PreviewData
<1>8. ASSUME NEW d \in Draft, OnlyOne(d)'
      PROVE  IsOne(d)'
  <2>1. begun = {} /\ d = s
    BY <1>1, <1>8 DEF OnlyOne
  <2>2. tool.comp = NoComp /\ tool.retry = NoDraft /\ tool.boxes = {}
    BY <2>1 DEF PreviewIInv, PreviewData, ToolOf, CompOf, DraftsOf, BoxesOf
  <2>3. \A k \in 1 .. Slots : tasks[k].at = "idle"
    <3>1. \A k \in 1 .. Slots : tasks[k] = NoCall
      BY <2>1 DEF PreviewIInv, PreviewData, CallOf
    <3> QED
      BY <3>1 DEF NoCall
  <2>4. \A i \in 1 .. Len(stream) : stream[i].type = "connected"
    <3>1. \A i \in 1 .. Len(stream) : stream[i] \in NewsOf(begun)
      BY DEF PreviewIInv, PreviewData
    <3>2. \A i \in 1 .. Len(stream) : stream[i].id = NoDraft
      BY <2>1, <3>1 DEF NewsOf, DraftsOf
    <3> QED
      BY <3>2 DEF PreviewIInv, PreviewData
  <2>5. completed = {}
    BY <2>1 DEF PreviewIInv, PreviewData
  <2>6. ~Underway(tool', tasks')
    BY <1>1, <1>6, <2>2, <2>3 DEF Underway
  <2>7. IsKnown(tool', tasks') /\ IsPublished(tool', tasks', stream', manifest'[d].n)
    BY <1>1, <1>6, <2>4, <2>6 DEF IsKnown, IsPublished
  <2>8. HasArrived(tool', tasks') /\ HasOneBox(tool', d) /\ IsFilled(tool', tasks')
    BY <1>1, <1>6, <2>2, <2>3 DEF HasArrived, HasOneBox, IsFilled, IsMount
  <2>9. HasReason(tool', tasks', stream', completed', d)
    BY <1>1, <1>6, <2>1, <2>5 DEF HasReason, Restorable
  <2> QED
    BY <2>7, <2>8, <2>9 DEF IsOne, OneInv
<1> QED
  BY <1>7, <1>8 DEF PreviewIInv

\* The user chooses a variant.
LEMMA SelectsKeeps ==
    ASSUME PreviewIInv, NEW n \in Variant, Selects(n)
    PROVE  PreviewIInv'
<1>1. /\ tool \in ToolOf(begun) /\ tasks \in [1 .. Slots -> CallOf(begun)] /\ begun \in SUBSET Draft
      /\ tool.ui = "CYCLING" /\ tool.current # NoDraft /\ n \in Nat
      /\ n \in 1 .. tool.arrived /\ tool.comp.id = tool.current /\ tool.visible \in Nat
      /\ tool.arrived \in Nat /\ UNCHANGED <<stream, manifest, begun, ended, completed>>
  BY DEF PreviewIInv, PreviewData, ToolOf, Selects, Rest, Variant
<1>2. PICK k \in Free(tasks) :
        Settles(Mounting([tool |-> Cached([tool EXCEPT !.visible = n, !.selecting = TRUE]),
                          tasks |-> tasks], k, n, "select", tool.visible))
  BY DEF Selects
<1>3. k \in 1 .. Slots /\ tasks[k].at = "idle"
  BY <1>2 DEF Free
<1>4. PICK t : t = [tool EXCEPT !.visible = n, !.selecting = TRUE]
  OBVIOUS
<1>5. /\ t \in ToolOf(begun) /\ t.ui = tool.ui /\ t.current = tool.current
      /\ t.arrived = tool.arrived /\ t.preview = tool.preview /\ t.card = tool.card
      /\ t.retry = tool.retry /\ t.comp = tool.comp /\ t.here = tool.here /\ t.boxes = tool.boxes
  BY <1>1, <1>4 DEF ToolOf
<1>6. PICK u : u = Cached(t)
  OBVIOUS
<1>7. /\ u \in ToolOf(begun) /\ u.ui = tool.ui /\ u.current = tool.current
      /\ u.arrived = tool.arrived /\ u.preview = tool.preview
      /\ u.comp = tool.comp /\ u.here = tool.here /\ u.boxes = tool.boxes
  BY <1>1, <1>5, <1>6, CachedType
<1>8. tool.comp # NoComp
  BY <1>1 DEF NoComp
<1>9. /\ tool' = u /\ tasks' \in [1 .. Slots -> CallOf(begun)] /\ IsMount(tasks'[k])
      /\ \A j \in 1 .. Slots : j # k => tasks'[j] = tasks[j]
  <2>1. "select" \in MountKinds /\ u.comp # NoComp
    BY <1>7, <1>8 DEF MountKinds
  <2>2. Settles(Mounting([tool |-> u, tasks |-> tasks], k, n, "select", tool.visible))
    BY <1>2, <1>4, <1>6
  <2> QED
    BY <1>1, <1>3, <1>7, <2>1, <2>2, MountBegins
<1>10. ASSUME NEW s \in Draft, OnlyOne(s)
       PROVE  OneInv(tool', tasks', stream, manifest[s].n, completed, s)
  <2>1. IsOne(s)
    BY <1>10 DEF PreviewIInv
  <2>2. tool.preview # NoDraft /\ manifest[s].n > 0
    BY <1>8, <2>1 DEF IsOne, OneInv, IsKnown, IsPublished, Underway
  <2>3. IsKnown(tool', tasks') /\ IsPublished(tool', tasks', stream, manifest[s].n)
    BY <1>1, <1>7, <1>9, <2>2 DEF IsKnown, IsPublished
  <2>4. HasArrived(tool', tasks') /\ HasOneBox(tool', s)
    BY <1>1, <1>7, <1>9, <2>1 DEF IsOne, OneInv, HasArrived, HasOneBox
  <2>5. IsFilled(tool', tasks') /\ HasReason(tool', tasks', stream, completed, s)
    BY <1>1, <1>7, <1>9 DEF IsFilled, HasReason
  <2> QED
    BY <2>3, <2>4, <2>5 DEF OneInv
<1> QED
  BY <1>1, <1>7, <1>9, <1>10, PageStep

\* What ends the session leaves nothing to say about it.
LEMMA EndStep ==
    ASSUME PreviewIInv, tool' \in ToolOf(begun), tool.current # NoDraft,
           ended' = ended \cup {tool.current},
           UNCHANGED <<tasks, stream, manifest, begun, completed>>
    PROVE  PreviewIInv'
<1>1. tool.current \in begun
  BY DEF PreviewIInv, PreviewData, ToolOf, DraftsOf
<1>2. PreviewData'
  BY <1>1 DEF PreviewIInv, PreviewData
<1> QED
  BY <1>1, <1>2 DEF PreviewIInv, OnlyOne

\* Accept and discard settle the current session.
LEMMA EndsKeeps ==
    ASSUME PreviewIInv, AcceptsIt \/ DiscardsIt
    PROVE  PreviewIInv'
<1>1. /\ tool \in ToolOf(begun) /\ begun \in SUBSET Draft
      /\ tool.current # NoDraft /\ ended' = ended \cup {tool.current}
      /\ UNCHANGED <<tasks, stream, manifest, begun, completed>>
  BY DEF PreviewIInv, PreviewData, AcceptsIt, DiscardsIt
<1>2. CASE AcceptsIt
  <2>1. PICK b : b = tool.boxes \ {tool.comp.box}
    OBVIOUS
  <2>2. PICK t \in {tool, [tool EXCEPT !.comp = NoComp, !.boxes = b]} :
          tool' = [t EXCEPT !.ui = "PICKING", !.current = NoDraft, !.preview = NoDraft,
                            !.saved = NoCache]
    BY <1>2, <2>1 DEF AcceptsIt
  <2>3. NoCache \in CacheOf(begun) /\ NoComp \in CompOf(begun) /\ NoDraft \in DraftsOf(begun)
        /\ b \in SUBSET BoxesOf(begun)
    BY <1>1, <2>1, WantedIsNat DEF CacheOf, NoCache, CompOf, DraftsOf, UiOf, ToolOf
  <2>4. t \in ToolOf(begun)
    BY <1>1, <2>2, <2>3 DEF ToolOf
  <2>5. tool' \in ToolOf(begun)
    BY <2>2, <2>3, <2>4 DEF ToolOf, UiOf
  <2> QED
    BY <1>1, <2>5, EndStep
<1>3. CASE DiscardsIt
  <2>1. tool' \in ToolOf(begun)
    BY <1>1, <1>3, CleanedUpType DEF DiscardsIt
  <2> QED
    BY <1>1, <2>1, EndStep
<1> QED
  BY <1>2, <1>3

\* The card is dismissed.
LEMMA DismissesKeeps ==
    ASSUME PreviewIInv, DismissesCard
    PROVE  PreviewIInv'
<1>1. /\ tool \in ToolOf(begun) /\ tasks \in [1 .. Slots -> CallOf(begun)] /\ tasks' = tasks
      /\ tool.card # NoCard
      /\ tool' = [tool EXCEPT !.card = NoCard, !.ui = IF @ = "GENERATING" THEN "PICKING" ELSE @]
      /\ UNCHANGED <<stream, manifest, begun, ended, completed>>
  BY DEF PreviewIInv, PreviewData, DismissesCard, Rest
<1>2. PICK v : v = IF tool.ui = "GENERATING" THEN "PICKING" ELSE tool.ui
  OBVIOUS
<1>3. /\ tool' \in ToolOf(begun) /\ tool'.ui = v /\ tool'.current = tool.current
      /\ tool'.arrived = tool.arrived /\ tool'.preview = tool.preview
      /\ tool'.comp = tool.comp /\ tool'.here = tool.here /\ tool'.boxes = tool.boxes
  <2>1. tool' = [tool EXCEPT !.card = NoCard, !.ui = v] /\ v \in UiOf /\ NoCard \in CardOf(begun)
    BY <1>1, <1>2 DEF ToolOf, UiOf, CardOf
  <2> QED
    BY <1>1, <2>1 DEF ToolOf
<1>4. v # "GENERATING" /\ (v = "CYCLING" <=> tool.ui = "CYCLING")
  BY <1>2
<1>5. ASSUME NEW s \in Draft, OnlyOne(s)
      PROVE  OneInv(tool', tasks', stream, manifest[s].n, completed, s)
  <2>1. IsOne(s)
    BY <1>5 DEF PreviewIInv
  <2>2. tool.current # NoDraft /\ tool.preview # NoDraft /\ manifest[s].n > 0
    BY <1>1, <2>1 DEF IsOne, OneInv, IsKnown, IsPublished, Underway
  <2>3. IsKnown(tool', tasks') /\ IsPublished(tool', tasks', stream, manifest[s].n)
    BY <1>3, <2>2 DEF IsKnown, IsPublished
  <2>4. HasArrived(tool', tasks') /\ HasOneBox(tool', s) /\ IsFilled(tool', tasks')
    BY <1>1, <1>3, <1>4, <2>1 DEF IsOne, OneInv, HasArrived, HasOneBox, IsFilled
  <2>5. HasReason(tool', tasks', stream, completed, s)
    BY <1>3, <1>4 DEF HasReason
  <2> QED
    BY <2>3, <2>4, <2>5 DEF OneInv
<1> QED
  BY <1>1, <1>3, <1>5, PageStep

\* The card's Retry injects again.
LEMMA RetriesKeeps ==
    ASSUME PreviewIInv, RetriesCard
    PROVE  PreviewIInv'
<1>1. PICK f : f = IF tool.card.file # NoDraft THEN tool.card.file ELSE tool.preview
  OBVIOUS
<1>2. /\ tool \in ToolOf(begun) /\ tasks \in [1 .. Slots -> CallOf(begun)] /\ begun \in SUBSET Draft
      /\ World = [tool |-> tool, tasks |-> tasks] /\ tool.card # NoCard
      /\ tool.card.id \in begun /\ tool.card.file \in DraftsOf(begun) /\ f \in DraftsOf(begun)
      /\ UNCHANGED <<stream, manifest, begun, ended, completed>>
  BY <1>1 DEF PreviewIInv, PreviewData, ToolOf, CardOf, World, RetriesCard, Rest
<1>3. CASE f = NoDraft /\ Settles([World EXCEPT !.tool = [tool EXCEPT !.card = NoCard]])
  <2>1. tool' = [tool EXCEPT !.card = NoCard] /\ tasks' = tasks
    BY <1>2, <1>3 DEF Settles
  <2>2. tool' \in ToolOf(begun)
    BY <1>2, <2>1 DEF ToolOf, CardOf
  <2>3. ASSUME NEW s \in Draft, OnlyOne(s)
        PROVE  FALSE
    BY <1>1, <1>2, <1>3, <2>3 DEF PreviewIInv, IsOne, OneInv, IsKnown, Underway
  <2> QED
    BY <1>2, <2>1, <2>2, <2>3, PageStep
<1>4. CASE /\ f # NoDraft /\ Free(tasks) # {}
           /\ Settles(Injects([World EXCEPT !.tool = [[tool EXCEPT !.card = NoCard] EXCEPT
                                                        !.ui = IF @ = "CYCLING" THEN @ ELSE "GENERATING"]],
                              tool.card.id, f))
  <2>1. PICK v : v = IF tool.ui = "CYCLING" THEN tool.ui ELSE "GENERATING"
    OBVIOUS
  <2>2. PICK u : u = [tool EXCEPT !.card = NoCard, !.ui = v]
    OBVIOUS
  <2>3. /\ u \in ToolOf(begun) /\ u.ui = v /\ u.current = tool.current
        /\ u.arrived = tool.arrived /\ u.preview = tool.preview
        /\ u.comp = tool.comp /\ u.here = tool.here /\ u.boxes = tool.boxes
    <3>1. v \in UiOf /\ NoCard \in CardOf(begun)
      BY <2>1 DEF UiOf, CardOf
    <3> QED
      BY <1>2, <2>2, <3>1 DEF ToolOf
  <2>4. PICK q : q = [tool |-> u, tasks |-> tasks]
    OBVIOUS
  <2>5. Settles(Injects(q, tool.card.id, f))
    <3>1. [tool EXCEPT !.card = NoCard].ui = tool.ui
      BY <1>2 DEF ToolOf
    <3>2. u = [[tool EXCEPT !.card = NoCard] EXCEPT !.ui = IF @ = "CYCLING" THEN @ ELSE "GENERATING"]
      BY <2>1, <2>2, <3>1
    <3>3. q = [World EXCEPT !.tool = u]
      BY <1>2, <2>4
    <3> QED
      BY <1>4, <3>2, <3>3
  <2>6. /\ Injects(q, tool.card.id, f).tool = u
        /\ Injects(q, tool.card.id, f).tasks \in [1 .. Slots -> CallOf(begun)]
        /\ Reads(tasks, Injects(q, tool.card.id, f).tasks)
    BY <1>2, <1>4, <2>3, <2>4, ReadBegins
  <2>7. tool' = u /\ tasks' \in [1 .. Slots -> CallOf(begun)] /\ Reads(tasks, tasks')
    BY <2>5, <2>6 DEF Settles
  <2>8. ASSUME NEW s \in Draft, OnlyOne(s)
        PROVE  OneInv(tool', tasks', stream, manifest[s].n, completed, s)
    <3>1. IsOne(s)
      BY <2>8 DEF PreviewIInv
    <3>2. tool.current # NoDraft /\ tool.preview # NoDraft /\ manifest[s].n > 0
      BY <1>2, <3>1 DEF IsOne, OneInv, IsKnown, IsPublished, Underway
    <3>3. HasArrived(tool, tasks) /\ HasOneBox(tool, s) /\ IsFilled(tool, tasks)
      BY <3>1 DEF IsOne, OneInv
    <3>4. u.ui = tool.ui \/ (u.ui # "CYCLING" /\ tool.ui # "CYCLING")
      BY <2>1, <2>3
    <3> QED
      BY <2>3, <2>7, <3>2, <3>3, <3>4, ReadingKeeps
  <2> QED
    BY <1>2, <2>3, <2>7, <2>8, PageStep
<1>5. \/ /\ f = NoDraft /\ Settles([World EXCEPT !.tool = [tool EXCEPT !.card = NoCard]])
      \/ /\ f # NoDraft /\ Free(tasks) # {}
         /\ Settles(Injects([World EXCEPT !.tool = [[tool EXCEPT !.card = NoCard] EXCEPT
                                                      !.ui = IF @ = "CYCLING" THEN @ ELSE "GENERATING"]],
                            tool.card.id, f))
  BY <1>1 DEF RetriesCard
<1> QED
  BY <1>3, <1>4, <1>5

-----------------------------------------------------------------------------
(* The document.                                                           *)

\* An element or its wrapper goes.
LEMMA GoesKeeps ==
    ASSUME PreviewIInv, NEW s \in Draft, ElementGoes(s)
    PROVE  PreviewIInv'
<1>1. /\ tool \in ToolOf(begun) /\ tasks \in [1 .. Slots -> CallOf(begun)] /\ tasks' = tasks
      /\ tool' = [tool EXCEPT !.here = @ \ {s}, !.boxes = {x \in @ : x[1] # s}]
      /\ UNCHANGED <<stream, manifest, begun, ended, completed>>
  BY DEF PreviewIInv, PreviewData, ElementGoes, Rest
<1>2. PICK h : h = tool.here \ {s}
  OBVIOUS
<1>3. PICK b : b = {x \in tool.boxes : x[1] # s}
  OBVIOUS
<1>4. /\ tool' \in ToolOf(begun) /\ tool'.ui = tool.ui /\ tool'.current = tool.current
      /\ tool'.arrived = tool.arrived /\ tool'.preview = tool.preview /\ tool'.card = tool.card
      /\ tool'.retry = tool.retry /\ tool'.saved = tool.saved
      /\ tool'.comp = tool.comp /\ tool'.here = h /\ tool'.boxes = b
  <2>1. h \in SUBSET Draft /\ b \in SUBSET BoxesOf(begun)
    BY <1>1, <1>2, <1>3 DEF ToolOf
  <2>2. tool' = [tool EXCEPT !.here = h, !.boxes = b]
    BY <1>1, <1>2, <1>3
  <2> QED
    BY <1>1, <2>1, <2>2 DEF ToolOf
<1>5. b \subseteq tool.boxes /\ h \subseteq tool.here
  BY <1>2, <1>3
<1>6. ASSUME NEW d \in Draft, OnlyOne(d)
      PROVE  OneInv(tool', tasks', stream, manifest[d].n, completed, d)
  <2>1. IsOne(d)
    BY <1>6 DEF PreviewIInv
  <2>2. IsKnown(tool', tasks') /\ IsPublished(tool', tasks', stream, manifest[d].n)
    BY <1>1, <1>4, <2>1 DEF IsOne, OneInv, IsKnown, IsPublished, Underway
  <2>3. HasArrived(tool', tasks') /\ HasOneBox(tool', d)
    BY <1>1, <1>4, <1>5, <2>1 DEF IsOne, OneInv, HasArrived, HasOneBox
  <2>4. IsFilled(tool', tasks')
    BY <1>1, <1>4, <1>5, <2>1 DEF IsOne, OneInv, IsFilled
  <2>5. Awaited(tool, tasks) => Awaited(tool', tasks')
    BY <1>1, <1>4, <1>5 DEF Awaited
  <2>6. HasReason(tool', tasks', stream, completed, d)
    BY <1>1, <1>4, <2>1, <2>5 DEF IsOne, OneInv, HasReason, Restorable
  <2> QED
    BY <2>2, <2>3, <2>4, <2>6 DEF OneInv
<1> QED
  BY <1>1, <1>4, <1>6, PageStep

\* An element comes back, and what waited for it injects again.
LEMMA ComesKeeps ==
    ASSUME PreviewIInv, NEW s \in Draft, ElementComes(s)
    PROVE  PreviewIInv'
<1>1. PICK t : t = [tool EXCEPT !.here = @ \cup {s}]
  OBVIOUS
<1>2. /\ tool \in ToolOf(begun) /\ tasks \in [1 .. Slots -> CallOf(begun)] /\ begun \in SUBSET Draft
      /\ \A x \in tool.boxes : x[1] # s
      /\ UNCHANGED <<stream, manifest, begun, ended, completed>>
  BY DEF PreviewIInv, PreviewData, ElementComes, Rest
<1>3. PICK h : h = tool.here \cup {s}
  OBVIOUS
<1>4. /\ t \in ToolOf(begun) /\ t.ui = tool.ui /\ t.current = tool.current
      /\ t.arrived = tool.arrived /\ t.preview = tool.preview /\ t.card = tool.card
      /\ t.retry = tool.retry /\ t.saved = tool.saved
      /\ t.comp = tool.comp /\ t.here = h /\ t.boxes = tool.boxes
  <2>1. h \in SUBSET Draft /\ t = [tool EXCEPT !.here = h]
    BY <1>1, <1>2, <1>3 DEF ToolOf
  <2> QED
    BY <1>2, <2>1 DEF ToolOf
<1>5. ASSUME NEW d \in Draft, OnlyOne(d)
      PROVE  /\ IsOne(d) /\ HasOneBox(t, d)
             /\ d = s => tool.boxes = {}
  <2>1. IsOne(d) /\ begun = {d}
    BY <1>5 DEF PreviewIInv, OnlyOne
  <2>2. d = s => tool.boxes = {}
    BY <1>2, <2>1, AllOfOne
  <2> QED
    BY <1>3, <1>4, <2>1, <2>2 DEF IsOne, OneInv, HasOneBox
<1>6. PICK u : u = [t EXCEPT !.retry = NoDraft]
  OBVIOUS
<1>7. /\ u \in ToolOf(begun) /\ u.ui = tool.ui /\ u.current = tool.current
      /\ u.arrived = tool.arrived /\ u.preview = tool.preview /\ u.card = tool.card
      /\ u.retry = NoDraft /\ u.saved = tool.saved
      /\ u.comp = tool.comp /\ u.here = h /\ u.boxes = tool.boxes
  BY <1>4, <1>6 DEF ToolOf, DraftsOf
<1>8. CASE Settles([tool |-> t, tasks |-> tasks])
  <2>1. tool' = t /\ tasks' = tasks
    BY <1>8 DEF Settles
  <2>2. ASSUME NEW d \in Draft, OnlyOne(d)
        PROVE  OneInv(tool', tasks', stream, manifest[d].n, completed, d)
    <3>1. IsOne(d) /\ HasOneBox(t, d)
      BY <1>5, <2>2
    <3>2. IsKnown(tool', tasks') /\ IsPublished(tool', tasks', stream, manifest[d].n)
      BY <1>4, <2>1, <3>1 DEF IsOne, OneInv, IsKnown, IsPublished, Underway
    <3>3. HasArrived(tool', tasks') /\ IsFilled(tool', tasks')
      BY <1>4, <2>1, <3>1 DEF IsOne, OneInv, HasArrived, IsFilled
    <3>4. HasReason(tool', tasks', stream, completed, d)
      BY <1>4, <2>1, <3>1 DEF IsOne, OneInv, HasReason, Restorable, Awaited
    <3> QED
      BY <2>1, <3>1, <3>2, <3>3, <3>4 DEF OneInv
  <2> QED
    BY <1>2, <1>4, <2>1, <2>2, PageStep
<1>9. CASE tool.retry = s /\ tool.comp.id = s /\ Settles([tool |-> u, tasks |-> tasks])
  <2>1. tool' = u /\ tasks' = tasks
    BY <1>9 DEF Settles
  <2>2. ASSUME NEW d \in Draft, OnlyOne(d)
        PROVE  OneInv(tool', tasks', stream, manifest[d].n, completed, d)
    <3>1. IsOne(d) /\ HasOneBox(t, d) /\ (d = s => tool.boxes = {}) /\ begun = {d} /\ s # NoDraft
      BY <1>5, <2>2, WantedIsNat DEF OnlyOne
    <3>2. tool.comp # NoComp
      BY <1>9, <3>1 DEF NoComp
    <3>3. d = s
      BY <1>2, <1>9, <3>1, <3>2 DEF ToolOf, CompOf
    <3>4. IsKnown(tool', tasks') /\ IsPublished(tool', tasks', stream, manifest[d].n)
      BY <1>7, <2>1, <3>1, <3>2 DEF IsOne, OneInv, IsKnown, IsPublished, Underway
    <3>5. HasArrived(tool', tasks') /\ IsFilled(tool', tasks') /\ HasOneBox(tool', d)
      BY <1>4, <1>7, <2>1, <3>1 DEF IsOne, OneInv, HasArrived, IsFilled, HasOneBox
    <3>6. HasReason(tool', tasks', stream, completed, d)
      BY <1>7, <2>1, <3>1, <3>2, <3>3 DEF HasReason, Awaited
    <3> QED
      BY <3>4, <3>5, <3>6 DEF OneInv
  <2> QED
    BY <1>2, <1>7, <2>1, <2>2, PageStep
<1>10. CASE /\ tool.retry = s /\ Free(tasks) # {}
            /\ Settles(Injects([tool |-> u, tasks |-> tasks], s, s))
  <2>1. PICK q : q = [tool |-> u, tasks |-> tasks]
    OBVIOUS
  <2>2. s \in begun /\ s \in DraftsOf(begun)
    BY <1>2, <1>10, WantedIsNat DEF ToolOf, DraftsOf
  <2>3. /\ Injects(q, s, s).tool = u
        /\ Injects(q, s, s).tasks \in [1 .. Slots -> CallOf(begun)]
        /\ Reads(tasks, Injects(q, s, s).tasks)
    BY <1>2, <1>7, <1>10, <2>1, <2>2, ReadBegins
  <2>4. tool' = u /\ tasks' \in [1 .. Slots -> CallOf(begun)] /\ Reads(tasks, tasks')
    BY <1>10, <2>1, <2>3 DEF Settles
  <2>5. ASSUME NEW d \in Draft, OnlyOne(d)
        PROVE  OneInv(tool', tasks', stream, manifest[d].n, completed, d)
    <3>1. IsOne(d) /\ HasOneBox(t, d)
      BY <1>5, <2>5
    <3>2. tool.retry # NoDraft
      BY <1>10, WantedIsNat
    <3>3. tool.current # NoDraft /\ tool.preview # NoDraft /\ manifest[d].n > 0
      BY <3>1, <3>2 DEF IsOne, OneInv, IsKnown, IsPublished, Underway
    <3>4. HasArrived(t, tasks) /\ IsFilled(t, tasks)
      BY <1>4, <3>1 DEF IsOne, OneInv, HasArrived, IsFilled
    <3> QED
      BY <1>4, <1>7, <2>4, <3>1, <3>3, <3>4, ReadingKeeps
  <2> QED
    BY <1>2, <1>7, <2>4, <2>5, PageStep
<1> QED
  BY <1>1, <1>6, <1>8, <1>9, <1>10 DEF ElementComes

-----------------------------------------------------------------------------
(* What a page without its element restores.                               *)

\* It restores the session of the cache, or one that the helper offers, and reads
\* about it if anything of it is known.
Resumed(q, offered, r) ==
    \/ /\ r = q
       /\ \/ q.tool.saved.id \in ended \cup {NoDraft} \/ q.tool.saved.ui = "PICKING"
          \/ offered # {} /\ q.tool.saved.id \notin offered
    \/ \E w \in CacheOf(begun), seen \in DraftsOf(begun) :
         /\ w.id \in begun \ ended /\ (q.tool.saved.id # NoDraft => w = q.tool.saved)
         /\ r.tool.ui = "GENERATING" /\ r.tool.current = w.id /\ r.tool.preview = seen
         /\ r.tool.card = q.tool.card /\ r.tool.retry = q.tool.retry /\ r.tool.comp = q.tool.comp
         /\ r.tool.here = q.tool.here /\ r.tool.boxes = q.tool.boxes
         /\ r.tool.saved.id = w.id /\ r.tool.saved.ui = "GENERATING" /\ r.tool.saved.seen = seen
         /\ \/ /\ seen = NoDraft /\ r.tasks = q.tasks /\ q.tool.preview = NoDraft
               /\ w.id \in offered => manifest[w.id].n = 0
            \/ /\ seen # NoDraft /\ Reads(q.tasks, r.tasks) /\ r.tool.arrived > 0
               /\ \/ seen = q.tool.preview \/ seen = q.tool.saved.seen
                  \/ manifest[seen].n > 0

\* RestoresBare, taken apart.
Adoptable(offered) == {s \in offered : manifest[s].n > 0}
Taken(q, adoptable) ==
    IF q.tool.saved.id # NoDraft THEN q.tool.saved
    ELSE IF adoptable # {} THEN Offered(CHOOSE s \in adoptable : TRUE) ELSE NoCache
Seen(q, w, adoptable) ==
    IF w.seen # NoDraft THEN w.seen
    ELSE IF w.id \in adoptable THEN w.id ELSE q.tool.preview
Chosen(w, seen, adoptable) ==
    LET known == IF w.arrived > 0 THEN w.arrived
                 ELSE IF w.id \in adoptable THEN manifest[w.id].n ELSE 0
    IN  IF known = 0 /\ seen # NoDraft THEN Wanted ELSE known
Bare(q, offered, w, seen, n) ==
    LET t == Cached([q.tool EXCEPT !.current = w.id, !.preview = seen, !.ui = "GENERATING", !.arrived = n,
                                  !.visible = IF w.n \in 1 .. (IF n > 0 THEN n ELSE Wanted) THEN w.n
                                              ELSE IF n > 0 THEN 1 ELSE 0])
    IN  IF \/ w.id \in ended \cup {NoDraft} \/ w.ui = "PICKING"
           \/ offered # {} /\ w.id \notin offered
        THEN q
        ELSE IF seen # NoDraft THEN Injects([q EXCEPT !.tool = t], w.id, seen) ELSE [q EXCEPT !.tool = t]

\* RestoresBare does what Resumed says.
LEMMA RestoresIs ==
    ASSUME PreviewData, NEW q \in PlaceOf(begun), Free(q.tasks) # {},
           NEW offered \in SUBSET begun, NEW r, r = RestoresBare(q, offered)
    PROVE  r \in PlaceOf(begun) /\ Resumed(q, offered, r)
<1>1. /\ begun \in SUBSET Draft /\ NoDraft \notin begun /\ NoDraft \in DraftsOf(begun)
      /\ begun \subseteq DraftsOf(begun) /\ \A s \in begun : manifest[s].n \in Nat
      /\ q.tool \in ToolOf(begun) /\ q.tasks \in [1 .. Slots -> CallOf(begun)] /\ Wanted \in Nat
      /\ q.tool.saved \in CacheOf(begun) /\ q.tool.preview \in DraftsOf(begun)
  BY PlaceFields, WantedIsNat DEF PreviewData, DraftsOf, ToolOf
<1>2. PICK adoptable : adoptable = {s \in offered : manifest[s].n > 0}
  OBVIOUS
<1>3. PICK w : w = IF q.tool.saved.id # NoDraft THEN q.tool.saved
                   ELSE IF adoptable # {} THEN Offered(CHOOSE s \in adoptable : TRUE) ELSE NoCache
  OBVIOUS
<1>4. \A s \in adoptable : s \in begun /\ manifest[s].n > 0
  BY <1>2
<1>5. /\ w \in CacheOf(begun) /\ (q.tool.saved.id # NoDraft => w = q.tool.saved)
      /\ \/ w = q.tool.saved
         \/ w.seen \in adoptable
         \/ w = NoCache /\ w.id = NoDraft /\ w.seen = NoDraft
  <2>1. CASE q.tool.saved.id # NoDraft
    BY <1>1, <1>3, <2>1
  <2>2. CASE q.tool.saved.id = NoDraft /\ adoptable # {}
    <3>1. PICK x : x = CHOOSE s \in adoptable : TRUE
      OBVIOUS
    <3>2. x \in adoptable /\ x \in begun
      BY <1>4, <2>2, <3>1
    <3>3. w = Offered(x)
      BY <1>3, <2>2, <3>1
    <3> QED
      BY <1>1, <2>2, <3>2, <3>3 DEF Offered, CacheOf, UiOf
  <2>3. CASE q.tool.saved.id = NoDraft /\ adoptable = {}
    BY <1>1, <1>3, <2>3 DEF NoCache, CacheOf, UiOf
  <2> QED
    BY <2>1, <2>2, <2>3
<1>6. PICK seen : seen = IF w.seen # NoDraft THEN w.seen
                         ELSE IF w.id \in adoptable THEN w.id ELSE q.tool.preview
  OBVIOUS
<1>7. PICK known : known = IF w.arrived > 0 THEN w.arrived
                           ELSE IF w.id \in adoptable THEN manifest[w.id].n ELSE 0
  OBVIOUS
<1>8. PICK n : n = IF known = 0 /\ seen # NoDraft THEN Wanted ELSE known
  OBVIOUS
<1>9. PICK v : v = IF w.n \in 1 .. (IF n > 0 THEN n ELSE Wanted) THEN w.n
                   ELSE IF n > 0 THEN 1 ELSE 0
  OBVIOUS
<1>10. w.id \in DraftsOf(begun) /\ w.seen \in DraftsOf(begun) /\ w.arrived \in Nat /\ w.n \in Nat
  BY <1>5 DEF CacheOf
<1>11. seen \in DraftsOf(begun)
  BY <1>1, <1>4, <1>6, <1>10
<1>12. n \in Nat /\ v \in Nat /\ (seen # NoDraft => n > 0)
  BY <1>1, <1>4, <1>7, <1>8, <1>9, <1>10, WantedIsNat
<1>13. PICK u : u = [q.tool EXCEPT !.current = w.id, !.preview = seen, !.ui = "GENERATING",
                                   !.arrived = n, !.visible = v]
  OBVIOUS
<1>14. /\ u \in ToolOf(begun) /\ u.ui = "GENERATING" /\ u.current = w.id /\ u.preview = seen
       /\ u.arrived = n /\ u.card = q.tool.card /\ u.retry = q.tool.retry /\ u.comp = q.tool.comp
       /\ u.here = q.tool.here /\ u.boxes = q.tool.boxes
  BY <1>1, <1>10, <1>11, <1>12, <1>13 DEF ToolOf, UiOf
<1>15. PICK t : t = Cached(u)
  OBVIOUS
<1>16. r = IF \/ w.id \in ended \cup {NoDraft} \/ w.ui = "PICKING"
              \/ offered # {} /\ w.id \notin offered
           THEN q
           ELSE IF seen # NoDraft THEN Injects([q EXCEPT !.tool = t], w.id, seen)
                ELSE [q EXCEPT !.tool = t]
  <2>1. RestoresBare(q, offered) =
          Bare(q, offered, Taken(q, Adoptable(offered)),
               Seen(q, Taken(q, Adoptable(offered)), Adoptable(offered)),
               Chosen(Taken(q, Adoptable(offered)),
                      Seen(q, Taken(q, Adoptable(offered)), Adoptable(offered)),
                      Adoptable(offered)))
    BY Zenon DEF RestoresBare, Bare, Chosen, Seen, Taken, Adoptable
  <2>2. adoptable = Adoptable(offered)
    BY <1>2 DEF Adoptable
  <2>3. w = Taken(q, adoptable)
    BY <1>3 DEF Taken
  <2>4. seen = Seen(q, w, adoptable)
    BY <1>6 DEF Seen
  <2>5. n = Chosen(w, seen, adoptable)
    BY <1>7, <1>8 DEF Chosen
  <2>6. r = Bare(q, offered, w, seen, n)
    BY <2>1, <2>2, <2>3, <2>4, <2>5
  <2> QED
    BY <1>9, <1>13, <1>15, <2>6 DEF Bare
<1>17. CASE \/ w.id \in ended \cup {NoDraft} \/ w.ui = "PICKING"
            \/ offered # {} /\ w.id \notin offered
  <2>1. r = q
    BY <1>16, <1>17
  <2>2. \/ q.tool.saved.id \in ended \cup {NoDraft} \/ q.tool.saved.ui = "PICKING"
        \/ offered # {} /\ q.tool.saved.id \notin offered
    BY <1>5, <1>17
  <2> QED
    BY <2>1, <2>2 DEF Resumed
<1>18. CASE ~(\/ w.id \in ended \cup {NoDraft} \/ w.ui = "PICKING"
              \/ offered # {} /\ w.id \notin offered)
  <2>1. w.id \in begun \ ended /\ w.id # NoDraft
    BY <1>10, <1>18 DEF DraftsOf
  <2>2. /\ t \in ToolOf(begun) /\ t.ui = "GENERATING" /\ t.current = w.id /\ t.preview = seen
        /\ t.arrived = n /\ t.card = q.tool.card /\ t.retry = q.tool.retry /\ t.comp = q.tool.comp
        /\ t.here = q.tool.here /\ t.boxes = q.tool.boxes
        /\ t.saved.id = w.id /\ t.saved.ui = "GENERATING" /\ t.saved.seen = seen
    BY <1>1, <1>14, <1>15, <2>1, CachedType
  <2>3. PICK p : p = [q EXCEPT !.tool = t]
    OBVIOUS
  <2>4. p \in PlaceOf(begun) /\ p.tool = t /\ p.tasks = q.tasks /\ p = [tool |-> t, tasks |-> q.tasks]
    BY <1>1, <2>2, <2>3 DEF PlaceOf
  <2>5. CASE seen = NoDraft
    <3>1. r = p
      BY <1>16, <1>18, <2>3, <2>5
    <3>2. q.tool.preview = NoDraft /\ (w.id \in offered => manifest[w.id].n = 0)
      BY <1>1, <1>2, <1>6, <2>1, <2>5
    <3> QED
      BY <1>5, <1>11, <2>1, <2>2, <2>4, <2>5, <3>1, <3>2 DEF Resumed
  <2>6. CASE seen # NoDraft
    <3>1. r = Injects(p, w.id, seen)
      BY <1>16, <1>18, <2>3, <2>6
    <3>2. r \in PlaceOf(begun) /\ r.tool = t /\ Reads(q.tasks, r.tasks)
      <4>1. /\ begun \in SUBSET Draft /\ p \in PlaceOf(begun) /\ Free(p.tasks) # {}
            /\ w.id \in begun /\ seen \in DraftsOf(begun)
        BY <1>1, <1>11, <2>1, <2>4
      <4>2. /\ Injects(p, w.id, seen) \in PlaceOf(begun) /\ Injects(p, w.id, seen).tool = p.tool
            /\ Reads(p.tasks, Injects(p, w.id, seen).tasks)
        BY <4>1, InjectsType
      <4> QED
        BY <2>4, <3>1, <4>2
    <3>3. seen = q.tool.preview \/ seen = q.tool.saved.seen \/ manifest[seen].n > 0
      BY <1>4, <1>5, <1>6, <2>6
    <3> QED
      BY <1>5, <1>11, <1>12, <2>1, <2>2, <2>6, <3>2, <3>3 DEF Resumed
  <2> QED
    BY <2>5, <2>6
<1> QED
  BY <1>17, <1>18

-----------------------------------------------------------------------------
(* What the page hears.                                                    *)

NewsAreKnown(str) == \A i \in 1 .. Len(str) : str[i].type # "connected" => str[i].id # NoDraft

\* The steps that change the stream as well.
LEMMA HeardStep ==
    ASSUME PreviewIInv, tool' \in ToolOf(begun), tasks' \in [1 .. Slots -> CallOf(begun)],
           stream' \in Seq(NewsOf(begun)), NewsAreKnown(stream'),
           UNCHANGED <<manifest, begun, ended, completed>>,
           \A s \in Draft : OnlyOne(s) => OneInv(tool', tasks', stream', manifest[s].n, completed, s)
    PROVE  PreviewIInv'
<1>1. PreviewData'
  BY DEF PreviewIInv, PreviewData, NewsAreKnown
<1>2. ASSUME NEW s \in Draft, OnlyOne(s)'
      PROVE  IsOne(s)'
  BY <1>2 DEF OnlyOne, IsOne
<1> QED
  BY <1>1, <1>2 DEF PreviewIInv

\* Every message but the first stays.
LEMMA HeadIsTaken ==
    ASSUME PreviewData, stream # <<>>, NEW str, str = Tail(stream)
    PROVE  /\ str \in Seq(NewsOf(begun)) /\ NewsAreKnown(str)
           /\ Head(stream) \in NewsOf(begun) /\ 1 \in 1 .. Len(stream) /\ Head(stream) = stream[1]
           /\ Head(stream).type # "connected" => Head(stream).id \in begun
           /\ (\E i \in 1 .. Len(str) : str[i].type # "connected")
              => \E i \in 1 .. Len(stream) : stream[i].type # "connected"
           /\ Head(stream).type = "progress"
              => ((\E i \in 1 .. Len(stream) : stream[i].type \in {"done", "connected"})
                  => \E i \in 1 .. Len(str) : str[i].type \in {"done", "connected"})
<1>1. stream \in Seq(NewsOf(begun)) /\ NewsAreKnown(stream)
  BY DEF PreviewData, NewsAreKnown
<1>2. Len(stream) \in Nat /\ Len(stream) > 0
  BY <1>1
<1>3. /\ str \in Seq(NewsOf(begun)) /\ Len(str) = Len(stream) - 1
      /\ \A i \in 1 .. Len(str) : str[i] = stream[i + 1]
  BY <1>1, <1>2
<1>4. Head(stream) = stream[1] /\ 1 \in 1 .. Len(stream) /\ stream[1] \in NewsOf(begun)
  BY <1>1, <1>2
<1>5. Head(stream).type # "connected" => Head(stream).id \in begun
  BY <1>1, <1>4 DEF NewsAreKnown, NewsOf, DraftsOf
<1>6. \A i \in 1 .. Len(str) : i + 1 \in 1 .. Len(stream)
  BY <1>2, <1>3
<1>7. NewsAreKnown(str)
  BY <1>1, <1>3, <1>6 DEF NewsAreKnown
<1>8. ASSUME NEW i \in 1 .. Len(stream), stream[i].type \in {"done", "connected"},
             Head(stream).type = "progress"
      PROVE  \E j \in 1 .. Len(str) : str[j].type \in {"done", "connected"}
  <2>1. i # 1
    BY <1>4, <1>8
  <2>2. i - 1 \in 1 .. Len(str) /\ i = (i - 1) + 1
    BY <1>2, <1>3, <2>1
  <2> QED
    BY <1>3, <1>8, <2>2
<1> QED
  BY <1>3, <1>4, <1>5, <1>6, <1>7, <1>8

\* The stream is lost and connects again.
LEMMA DropsKeeps ==
    ASSUME PreviewIInv, StreamDrops
    PROVE  PreviewIInv'
<1>1. /\ stream' = <<[type |-> "connected", id |-> NoDraft]>>
      /\ UNCHANGED <<tool, tasks, manifest, begun, ended, completed>>
  BY DEF StreamDrops
<1>2. [type |-> "connected", id |-> NoDraft] \in NewsOf(begun)
  BY DEF NewsOf, DraftsOf
<1>3. /\ stream' \in Seq(NewsOf(begun)) /\ Len(stream') = 1
      /\ \A i \in 1 .. Len(stream') : stream'[i].type = "connected"
  BY <1>1, <1>2
<1>4. tool' \in ToolOf(begun) /\ tasks' \in [1 .. Slots -> CallOf(begun)]
  BY <1>1 DEF PreviewIInv, PreviewData
<1>5. ASSUME NEW s \in Draft, OnlyOne(s)
      PROVE  OneInv(tool', tasks', stream', manifest[s].n, completed, s)
  <2>1. IsOne(s)
    BY <1>5 DEF PreviewIInv
  <2>2. IsPublished(tool', tasks', stream', manifest[s].n)
    BY <1>1, <1>3, <2>1 DEF IsOne, OneInv, IsPublished
  <2>3. \E i \in 1 .. Len(stream') : stream'[i].type \in {"done", "connected"}
    BY <1>3
  <2>4. HasReason(tool', tasks', stream', completed, s)
    BY <1>1, <2>1, <2>3 DEF IsOne, OneInv, HasReason, Restorable
  <2> QED
    BY <1>1, <2>1, <2>2, <2>4 DEF IsOne, OneInv
<1>6. NewsAreKnown(stream')
  BY <1>3 DEF NewsAreKnown
<1> QED
  BY <1>1, <1>3, <1>4, <1>5, <1>6, HeardStep

\* A progress is heard.
LEMMA HearsProgress ==
    ASSUME PreviewIInv, ProgressHeard
    PROVE  PreviewIInv'
<1>1. PICK m : m = Head(stream)
  OBVIOUS
<1>2. /\ stream # <<>> /\ m.type = "progress" /\ stream' = Tail(stream)
      /\ UNCHANGED <<manifest, begun, ended, completed>>
      /\ (tool.current = m.id => Free(tasks) # {})
      /\ tool \in ToolOf(begun) /\ tasks \in [1 .. Slots -> CallOf(begun)] /\ begun \in SUBSET Draft
      /\ World = [tool |-> tool, tasks |-> tasks]
  BY <1>1 DEF ProgressHeard, Receives, PreviewIInv, PreviewData, World
<1>3. /\ stream' \in Seq(NewsOf(begun)) /\ NewsAreKnown(stream') /\ m.id \in begun
      /\ m \in NewsOf(begun) /\ 1 \in 1 .. Len(stream) /\ m = stream[1]
      /\ (\E i \in 1 .. Len(stream') : stream'[i].type # "connected")
         => \E i \in 1 .. Len(stream) : stream[i].type # "connected"
      /\ (\E i \in 1 .. Len(stream) : stream[i].type \in {"done", "connected"})
         => \E i \in 1 .. Len(stream') : stream'[i].type \in {"done", "connected"}
  BY <1>1, <1>2, HeadIsTaken DEF PreviewIInv
<1>4. ASSUME NEW s \in Draft, OnlyOne(s)
      PROVE  /\ IsOne(s) /\ manifest[s].n > 0 /\ begun = {s} /\ m.id = s /\ s # NoDraft
  <2>1. IsOne(s) /\ begun = {s}
    BY <1>4 DEF PreviewIInv, OnlyOne
  <2>2. \E i \in 1 .. Len(stream) : stream[i].type # "connected"
    BY <1>2, <1>3
  <2> QED
    BY <1>3, <2>1, <2>2, WantedIsNat DEF IsOne, OneInv, IsPublished
<1>5. CASE tool.current = m.id /\ Settles(Injects([World EXCEPT !.tool.preview = m.id], m.id, m.id))
  <2>1. PICK u : u = [tool EXCEPT !.preview = m.id]
    OBVIOUS
  <2>2. m.id \in DraftsOf(begun)
    BY <1>3 DEF DraftsOf
  <2>3. /\ u \in ToolOf(begun) /\ u.ui = tool.ui /\ u.current = tool.current
        /\ u.arrived = tool.arrived /\ u.preview = m.id
        /\ u.comp = tool.comp /\ u.here = tool.here /\ u.boxes = tool.boxes
    BY <1>2, <2>1, <2>2 DEF ToolOf
  <2>4. PICK q : q = [tool |-> u, tasks |-> tasks]
    OBVIOUS
  <2>5. q = [World EXCEPT !.tool.preview = m.id]
    BY <1>2, <2>1, <2>4
  <2>6. /\ Injects(q, m.id, m.id).tool = u
        /\ Injects(q, m.id, m.id).tasks \in [1 .. Slots -> CallOf(begun)]
        /\ Reads(tasks, Injects(q, m.id, m.id).tasks)
    BY <1>2, <1>3, <1>5, <2>2, <2>3, <2>4, ReadBegins
  <2>7. tool' = u /\ tasks' \in [1 .. Slots -> CallOf(begun)] /\ Reads(tasks, tasks')
    BY <1>5, <2>5, <2>6 DEF Settles
  <2>8. ASSUME NEW s \in Draft, OnlyOne(s)
        PROVE  OneInv(tool', tasks', stream', manifest[s].n, completed, s)
    <3>1. IsOne(s) /\ manifest[s].n > 0 /\ m.id = s /\ s # NoDraft
      BY <1>4, <2>8
    <3>2. HasArrived(tool, tasks) /\ HasOneBox(tool, s) /\ IsFilled(tool, tasks)
      BY <3>1 DEF IsOne, OneInv
    <3> QED
      BY <1>5, <2>3, <2>7, <3>1, <3>2, ReadingKeeps
  <2> QED
    BY <1>2, <1>3, <2>3, <2>7, <2>8, HeardStep
<1>6. CASE tool.current # m.id /\ Settles(World)
  <2>1. tool' = tool /\ tasks' = tasks
    BY <1>2, <1>6 DEF Settles
  <2>2. ASSUME NEW s \in Draft, OnlyOne(s)
        PROVE  OneInv(tool', tasks', stream', manifest[s].n, completed, s)
    <3>1. IsOne(s) /\ manifest[s].n > 0
      BY <1>4, <2>2
    <3>2. IsPublished(tool', tasks', stream', manifest[s].n)
      BY <3>1 DEF IsPublished
    <3>3. HasReason(tool', tasks', stream', completed, s)
      BY <1>3, <2>1, <3>1 DEF IsOne, OneInv, HasReason, Restorable
    <3> QED
      BY <2>1, <3>1, <3>2, <3>3 DEF IsOne, OneInv
  <2> QED
    BY <1>2, <1>3, <2>1, <2>2, HeardStep
<1> QED
  BY <1>1, <1>5, <1>6 DEF ProgressHeard

\* A done is heard.
LEMMA HearsDone ==
    ASSUME PreviewIInv, DoneHeard
    PROVE  PreviewIInv'
<1>1. PICK m : m = Head(stream)
  OBVIOUS
<1>2. /\ stream # <<>> /\ m.type = "done" /\ stream' = Tail(stream)
      /\ UNCHANGED <<manifest, begun, ended, completed>>
      /\ (tool.current = m.id => Free(tasks) # {})
      /\ tool \in ToolOf(begun) /\ tasks \in [1 .. Slots -> CallOf(begun)] /\ begun \in SUBSET Draft
      /\ World = [tool |-> tool, tasks |-> tasks]
  BY <1>1 DEF DoneHeard, Receives, PreviewIInv, PreviewData, World
<1>3. /\ stream' \in Seq(NewsOf(begun)) /\ NewsAreKnown(stream') /\ m.id \in begun
      /\ m \in NewsOf(begun) /\ 1 \in 1 .. Len(stream) /\ m = stream[1]
  BY <1>1, <1>2, HeadIsTaken DEF PreviewIInv
<1>4. ASSUME NEW s \in Draft, OnlyOne(s)
      PROVE  /\ IsOne(s) /\ manifest[s].n > 0 /\ begun = {s} /\ m.id = s /\ s # NoDraft
  <2>1. IsOne(s) /\ begun = {s}
    BY <1>4 DEF PreviewIInv, OnlyOne
  <2>2. \E i \in 1 .. Len(stream) : stream[i].type # "connected"
    BY <1>2, <1>3
  <2> QED
    BY <1>3, <2>1, <2>2, WantedIsNat DEF IsOne, OneInv, IsPublished
<1>5. PICK u : u = [tool EXCEPT !.preview = m.id]
  OBVIOUS
<1>6. m.id \in DraftsOf(begun)
  BY <1>3 DEF DraftsOf
<1>7. /\ u \in ToolOf(begun) /\ u.ui = tool.ui /\ u.current = tool.current
      /\ u.arrived = tool.arrived /\ u.preview = m.id
      /\ u.card = tool.card /\ u.retry = tool.retry /\ u.saved = tool.saved
      /\ u.comp = tool.comp /\ u.here = tool.here /\ u.boxes = tool.boxes
  BY <1>2, <1>5, <1>6 DEF ToolOf
<1>8. CASE tool.current = m.id /\ Settles(Injects([World EXCEPT !.tool.preview = m.id], m.id, m.id))
  <2>1. PICK q : q = [tool |-> u, tasks |-> tasks]
    OBVIOUS
  <2>2. q = [World EXCEPT !.tool.preview = m.id]
    BY <1>2, <1>5, <2>1
  <2>3. /\ Injects(q, m.id, m.id).tool = u
        /\ Injects(q, m.id, m.id).tasks \in [1 .. Slots -> CallOf(begun)]
        /\ Reads(tasks, Injects(q, m.id, m.id).tasks)
    <3>1. /\ begun \in SUBSET Draft /\ u \in ToolOf(begun)
          /\ tasks \in [1 .. Slots -> CallOf(begun)] /\ Free(tasks) # {}
          /\ m.id \in begun /\ m.id \in DraftsOf(begun)
      BY <1>2, <1>3, <1>6, <1>7, <1>8
    <3> QED
      BY ONLY <2>1, <3>1, ReadBegins
  <2>4. tool' = u /\ tasks' \in [1 .. Slots -> CallOf(begun)] /\ Reads(tasks, tasks')
    BY <1>8, <2>2, <2>3 DEF Settles
  <2>5. ASSUME NEW s \in Draft, OnlyOne(s)
        PROVE  OneInv(tool', tasks', stream', manifest[s].n, completed, s)
    <3>1. IsOne(s) /\ manifest[s].n > 0 /\ m.id = s /\ s # NoDraft
      BY <1>4, <2>5
    <3>2. HasArrived(tool, tasks) /\ HasOneBox(tool, s) /\ IsFilled(tool, tasks)
      BY <3>1 DEF IsOne, OneInv
    <3> QED
      BY <1>7, <1>8, <2>4, <3>1, <3>2, ReadingKeeps
  <2> QED
    BY <1>2, <1>3, <1>7, <2>4, <2>5, HeardStep
<1>9. CASE /\ tool.current # m.id
           /\ \/ tool' = u
              \/ tool.arrived >= Wanted /\ tool' = Cycles(u)
           /\ tasks' = tasks
  <2>1. tool' \in ToolOf(begun)
    BY <1>2, <1>7, <1>9, CyclesType
  <2>2. ASSUME NEW s \in Draft, OnlyOne(s)
        PROVE  OneInv(tool', tasks', stream', manifest[s].n, completed, s)
    <3>1. IsOne(s) /\ manifest[s].n > 0 /\ m.id = s /\ s # NoDraft /\ begun = {s}
      BY <1>4, <2>2
    <3>2. tool.current = NoDraft
      BY <1>2, <1>9, <3>1, AllOfOne
    <3>3. ~Underway(tool, tasks) /\ HasOneBox(tool, s)
      BY <3>1, <3>2 DEF IsOne, OneInv, IsKnown
    <3>4. /\ tool'.current = NoDraft /\ tool'.card = tool.card
          /\ tool'.retry = tool.retry /\ tool'.comp = tool.comp
          /\ tool'.here = tool.here /\ tool'.boxes = tool.boxes
      <4>1. tool.arrived >= Wanted => u.arrived > 0
        BY <1>2, <1>7, WantedIsNat DEF ToolOf
      <4> QED
        BY <1>2, <1>7, <1>9, <3>2, <4>1, CyclesType
    <3>5. ~Underway(tool', tasks')
      BY <1>9, <3>3, <3>4 DEF Underway
    <3>6. IsKnown(tool', tasks') /\ IsPublished(tool', tasks', stream', manifest[s].n)
      BY <3>1, <3>5 DEF IsKnown, IsPublished
    <3>7. HasArrived(tool', tasks') /\ IsFilled(tool', tasks')
      BY <3>5 DEF HasArrived, IsFilled, Underway, IsMount
    <3>8. HasOneBox(tool', s) /\ HasReason(tool', tasks', stream', completed, s)
      BY <3>1, <3>3, <3>4 DEF HasOneBox, HasReason
    <3> QED
      BY <3>6, <3>7, <3>8 DEF OneInv
  <2>3. tasks' \in [1 .. Slots -> CallOf(begun)]
    BY <1>2, <1>9
  <2> QED
    BY <1>2, <1>3, <2>1, <2>2, <2>3, HeardStep
<1>10. \/ tool.current = m.id /\ Settles(Injects([World EXCEPT !.tool.preview = m.id], m.id, m.id))
       \/ /\ tool.current # m.id
          /\ \/ Settles([World EXCEPT !.tool = Cycles([@ EXCEPT !.preview = m.id])]) /\ tool.arrived >= Wanted
             \/ Settles([World EXCEPT !.tool.preview = m.id])
  BY <1>1 DEF DoneHeard
<1>11. /\ [World EXCEPT !.tool = Cycles([@ EXCEPT !.preview = m.id])].tool = Cycles(u)
       /\ [World EXCEPT !.tool = Cycles([@ EXCEPT !.preview = m.id])].tasks = tasks
       /\ [World EXCEPT !.tool.preview = m.id].tool = u
       /\ [World EXCEPT !.tool.preview = m.id].tasks = tasks
  BY <1>2, <1>5
<1> QED
  BY <1>8, <1>9, <1>10, <1>11 DEF Settles

\* One read leaves a slot of two.
LEMMA SlotRemains ==
    ASSUME NEW r, NEW w, Reads(r, w), Cardinality(Free(r)) >= 2
    PROVE  Free(w) # {}
<1>1. PICK k \in 1 .. Slots : /\ r[k].at = "idle" /\ w[k].at = "manifest"
                              /\ \A j \in 1 .. Slots : j # k => w[j] = r[j]
  BY DEF Reads
<1>2. Free(r) # {k}
  <2>1. Cardinality({k}) = 1
    BY FS_Singleton
  <2>2. ASSUME Free(r) = {k} PROVE FALSE
    <3>1. Cardinality(Free(r)) = 1
      BY ONLY <2>1, <2>2
    <3> QED
      BY <3>1
  <2> QED
    BY <2>2
<1>3. PICK j \in Free(r) : j # k
  BY <1>1, <1>2 DEF Free
<1> QED
  BY <1>1, <1>3 DEF Free

\* Another look, in a while, at what is known to be complete.
LooksLater(t, r, u, w, s) ==
    /\ t.current = s /\ u.current = s /\ u.preview = s
    /\ u.ui = t.ui /\ u.arrived = t.arrived /\ u.card = t.card /\ u.retry = t.retry
    /\ u.comp = t.comp /\ u.here = t.here /\ u.boxes = t.boxes /\ u.saved = t.saved
    /\ \E k \in 1 .. Slots : /\ r[k].at = "idle" /\ w[k].at = "missed"
                             /\ \A j \in 1 .. Slots : j # k => w[j] = r[j]

\* The second look that a connection arranges keeps what is known.
LEMMA LooksAgain ==
    ASSUME NEW s \in Draft, NEW t, NEW u, NEW r, NEW w, NEW str, NEW n, NEW done,
           OneInv(t, r, str, n, done, s), n > 0, LooksLater(t, r, u, w, s)
    PROVE  OneInv(u, w, str, n, done, s)
<1>1. PICK k \in 1 .. Slots : /\ r[k].at = "idle" /\ w[k].at = "missed"
                              /\ \A j \in 1 .. Slots : j # k => w[j] = r[j]
  BY DEF LooksLater
<1>2. /\ t.current = s /\ u.current = s /\ u.preview = s
      /\ u.ui = t.ui /\ u.arrived = t.arrived /\ u.card = t.card /\ u.retry = t.retry
      /\ u.comp = t.comp /\ u.here = t.here /\ u.boxes = t.boxes /\ u.saved = t.saved
  BY DEF LooksLater
<1>3. IsKnown(u, w) /\ IsPublished(u, w, str, n)
  BY <1>2, WantedIsNat DEF IsKnown, IsPublished
<1>4. \A j \in 1 .. Slots : IsMount(r[j]) <=> IsMount(w[j])
  BY <1>1 DEF IsMount
<1>5. FirstMounts(r) => FirstMounts(w)
  BY <1>1 DEF FirstMounts, IsMount
<1>6. HasArrived(u, w) /\ HasOneBox(u, s) /\ IsFilled(u, w)
  BY <1>2, <1>4, <1>5 DEF OneInv, HasArrived, HasOneBox, IsFilled
<1>7. Awaited(t, r) => Awaited(u, w)
  BY <1>1, <1>2 DEF Awaited, IsMount
<1>8. HasReason(u, w, str, done, s)
  BY <1>2, <1>7 DEF OneInv, HasReason, Restorable
<1> QED
  BY <1>3, <1>6, <1>8 DEF OneInv

\* What is known of the one session after a page without its element restored.
LEMMA RestoredIsOne ==
    ASSUME PreviewIInv, NEW s \in Draft, OnlyOne(s), NEW r, Resumed(World, begun \ ended, r),
           tool.comp = NoComp \/ tool.comp.id # tool.current,
           NEW str, (\E i \in 1 .. Len(str) : str[i].type # "connected")
                    => \E i \in 1 .. Len(stream) : stream[i].type # "connected"
    PROVE  OneInv(r.tool, r.tasks, str, manifest[s].n, completed, s)
<1>1. /\ IsOne(s) /\ begun = {s} /\ begun \ ended = {s} /\ s # NoDraft /\ s \notin ended
      /\ World.tool = tool /\ World.tasks = tasks /\ tool \in ToolOf({s})
      /\ (s \in completed => manifest[s].n > 0)
  BY WantedIsNat, WorldType DEF PreviewIInv, OnlyOne, PreviewData
<1>2. tool.comp = NoComp
  <2>1. CASE tool.comp # NoComp
    BY <1>1, <2>1, AllOfOne DEF IsOne, OneInv, IsKnown, Underway
  <2> QED
    BY <2>1
<1>3. /\ tool.current \in {NoDraft, s} /\ tool.preview \in {NoDraft, s}
      /\ tool.saved.id \in {NoDraft, s} /\ tool.saved.seen \in {NoDraft, s}
  BY <1>1, AllOfOne
<1>4. CASE /\ r = World
           /\ \/ tool.saved.id \in ended \cup {NoDraft} \/ tool.saved.ui = "PICKING"
              \/ tool.saved.id \notin begun \ ended
  <2>1. ~Restorable(tool, stream, completed, s)
    BY <1>1, <1>4 DEF Restorable
  <2>2. HasReason(tool, tasks, str, completed, s)
    BY <1>1, <2>1 DEF IsOne, OneInv, HasReason
  <2>3. IsPublished(tool, tasks, str, manifest[s].n)
    BY <1>1 DEF IsOne, OneInv, IsPublished
  <2> QED
    BY <1>1, <1>4, <2>2, <2>3 DEF IsOne, OneInv
<1>5. ASSUME NEW w \in CacheOf(begun), NEW seen \in DraftsOf(begun),
             w.id \in begun \ ended,
             r.tool.ui = "GENERATING", r.tool.current = w.id, r.tool.preview = seen,
             r.tool.card = tool.card, r.tool.retry = tool.retry, r.tool.comp = tool.comp,
             r.tool.here = tool.here, r.tool.boxes = tool.boxes,
             r.tool.saved.id = w.id, r.tool.saved.ui = "GENERATING", r.tool.saved.seen = seen,
             \/ /\ seen = NoDraft /\ r.tasks = tasks /\ tool.preview = NoDraft
                /\ w.id \in begun \ ended => manifest[w.id].n = 0
             \/ /\ seen # NoDraft /\ Reads(tasks, r.tasks) /\ r.tool.arrived > 0
                /\ \/ seen = tool.preview \/ seen = tool.saved.seen
                   \/ manifest[seen].n > 0
      PROVE  OneInv(r.tool, r.tasks, str, manifest[s].n, completed, s)
  <2>1. w.id = s /\ seen \in {NoDraft, s}
    BY <1>1, <1>5 DEF DraftsOf
  <2>2. HasOneBox(r.tool, s) /\ IsFilled(r.tool, r.tasks)
    BY <1>1, <1>2, <1>5 DEF IsOne, OneInv, HasOneBox, IsFilled
  <2>3. CASE seen = NoDraft
    <3>1. r.tasks = tasks /\ tool.preview = NoDraft /\ manifest[s].n = 0 /\ s \notin completed
      BY <1>1, <1>5, <2>1, <2>3
    <3>2. ~Underway(tool, tasks)
      BY <1>1, <3>1 DEF IsOne, OneInv, IsKnown
    <3>3. ~Underway(r.tool, r.tasks)
      BY <1>5, <3>1, <3>2 DEF Underway
    <3>4. IsKnown(r.tool, r.tasks)
      BY <3>3 DEF IsKnown
    <3>5. IsPublished(r.tool, r.tasks, str, manifest[s].n)
      BY <1>1, <1>5, <2>3, <3>3 DEF IsOne, OneInv, IsPublished
    <3>6. HasArrived(r.tool, r.tasks)
      BY <3>3 DEF HasArrived, IsMount, Underway
    <3>7. HasReason(r.tool, r.tasks, str, completed, s)
      BY <1>5, <2>1, <3>1 DEF HasReason, Restorable
    <3> QED
      BY <2>2, <3>4, <3>5, <3>6, <3>7 DEF OneInv
  <2>4. CASE seen # NoDraft
    <3>1. seen = s /\ Reads(tasks, r.tasks) /\ r.tool.arrived > 0 /\ manifest[s].n > 0
      <4>1. tool.preview # NoDraft \/ tool.saved.seen # NoDraft => manifest[s].n > 0
        BY <1>1 DEF IsOne, OneInv, IsPublished
      <4> QED
        BY <1>5, <2>1, <2>4, <4>1
    <3>2. IsKnown(r.tool, r.tasks) /\ IsPublished(r.tool, r.tasks, str, manifest[s].n)
      BY <1>1, <1>5, <2>1, <3>1 DEF IsKnown, IsPublished
    <3>3. HasArrived(r.tool, r.tasks)
      BY <3>1 DEF HasArrived
    <3>4. HasReason(r.tool, r.tasks, str, completed, s)
      BY <3>1, ReadIsAwaited DEF HasReason
    <3> QED
      BY <2>2, <3>2, <3>3, <3>4 DEF OneInv
  <2> QED
    BY <2>1, <2>3, <2>4
<1>6. ASSUME NEW w \in CacheOf(begun), NEW seen \in DraftsOf(begun),
             w.id \in begun \ ended,
             r.tool.ui = "GENERATING", r.tool.current = w.id, r.tool.preview = seen,
             r.tool.card = World.tool.card, r.tool.retry = World.tool.retry, r.tool.comp = World.tool.comp,
             r.tool.here = World.tool.here, r.tool.boxes = World.tool.boxes,
             r.tool.saved.id = w.id, r.tool.saved.ui = "GENERATING", r.tool.saved.seen = seen,
             \/ /\ seen = NoDraft /\ r.tasks = World.tasks /\ World.tool.preview = NoDraft
                /\ w.id \in begun \ ended => manifest[w.id].n = 0
             \/ /\ seen # NoDraft /\ Reads(World.tasks, r.tasks) /\ r.tool.arrived > 0
                /\ \/ seen = World.tool.preview \/ seen = World.tool.saved.seen
                   \/ manifest[seen].n > 0
      PROVE  OneInv(r.tool, r.tasks, str, manifest[s].n, completed, s)
  BY <1>1, <1>5, <1>6
<1> QED
  BY <1>1, <1>4, <1>6 DEF Resumed

\* A connection restores a session, and looks for a completion that was missed.
LEMMA ConnectsKeeps ==
    ASSUME PreviewIInv, ConnectedHeard
    PROVE  PreviewIInv'
<1>1. PICK q : q = IF tool.comp # NoComp /\ tool.comp.id = tool.current THEN World
                   ELSE RestoresBare(World, begun \ ended)
  OBVIOUS
<1>2. PICK c : c = [NoCall EXCEPT !.at = "missed", !.id = q.tool.current]
  OBVIOUS
<1>3. PICK k : k = CHOOSE j \in Free(q.tasks) : TRUE
  OBVIOUS
<1>4. PICK u : u = [q.tool EXCEPT !.preview = q.tool.current]
  OBVIOUS
<1>5. /\ PreviewData /\ stream # <<>> /\ Head(stream).type = "connected" /\ stream' = Tail(stream)
      /\ UNCHANGED <<manifest, begun, ended, completed>>
      /\ Cardinality(Free(tasks)) >= 2
      /\ begun \in SUBSET Draft
      /\ World \in PlaceOf(begun) /\ World.tool = tool /\ World.tasks = tasks
      /\ Settles(IF q.tool.current \in completed \ ended /\ q.tool.ui = "GENERATING"
                     /\ q.tool.arrived < Wanted
                 THEN [q EXCEPT !.tool.preview = q.tool.current, !.tasks[k] = c]
                 ELSE q)
  BY <1>1, <1>2, <1>3, WorldType DEF ConnectedHeard, Receives, PreviewIInv, PreviewData
<1>6. /\ stream' \in Seq(NewsOf(begun)) /\ NewsAreKnown(stream')
      /\ (\E i \in 1 .. Len(stream') : stream'[i].type # "connected")
         => \E i \in 1 .. Len(stream) : stream[i].type # "connected"
  BY <1>5, HeadIsTaken
<1>7. Free(tasks) # {}
  <2>1. Cardinality({}) = 0
    BY FS_EmptySet
  <2>2. ASSUME Free(tasks) = {} PROVE FALSE
    <3>1. Cardinality(Free(tasks)) = 0
      BY ONLY <2>1, <2>2
    <3> QED
      BY <1>5, <3>1
  <2> QED
    BY <2>2
<1>8. /\ q \in PlaceOf(begun) /\ Free(q.tasks) # {}
      /\ \A s \in Draft : OnlyOne(s) =>
            OneInv(q.tool, q.tasks, stream', manifest[s].n, completed, s)
  <2>1. CASE tool.comp # NoComp /\ tool.comp.id = tool.current
    <3>1. q = World
      BY <1>1, <2>1
    <3>2. ASSUME NEW s \in Draft, OnlyOne(s)
          PROVE  OneInv(tool, tasks, stream', manifest[s].n, completed, s)
      <4>1. IsOne(s)
        BY <3>2 DEF PreviewIInv
      <4>2. IsPublished(tool, tasks, stream', manifest[s].n)
        BY <1>6, <4>1 DEF IsOne, OneInv, IsPublished
      <4>3. HasReason(tool, tasks, stream', completed, s)
        <5>1. FirstMounts(tasks) => Awaited(tool, tasks)
          BY DEF FirstMounts, Awaited
        <5> QED
          BY <2>1, <4>1, <5>1 DEF IsOne, OneInv, IsFilled, HasReason, Awaited
      <4> QED
        BY <4>1, <4>2, <4>3 DEF IsOne, OneInv
    <3> QED
      BY <1>5, <1>7, <3>1, <3>2
  <2>2. CASE ~(tool.comp # NoComp /\ tool.comp.id = tool.current)
    <3>1. q = RestoresBare(World, begun \ ended)
      BY <1>1, <2>2
    <3>2. q \in PlaceOf(begun) /\ Resumed(World, begun \ ended, q)
      <4>1. begun \ ended \in SUBSET begun /\ Free(World.tasks) # {}
        BY <1>5, <1>7
      <4> QED
        BY <1>5, <3>1, <4>1, RestoresIs
    <3>3. Free(q.tasks) # {}
      <4>1. q = World \/ q.tasks = tasks \/ Reads(tasks, q.tasks)
        BY <1>5, <3>2 DEF Resumed
      <4> QED
        BY <1>5, <1>7, <4>1, SlotRemains
    <3> QED
      BY <1>6, <2>2, <3>2, <3>3, RestoredIsOne
  <2> QED
    BY <2>1, <2>2
<1>9. CASE Settles(q)
  <2>1. tool' = q.tool /\ tasks' = q.tasks
    BY <1>9 DEF Settles
  <2> QED
    BY <1>5, <1>6, <1>8, <2>1, PlaceFields, HeardStep
<1>10. CASE /\ q.tool.current \in completed \ ended
            /\ Settles([q EXCEPT !.tool.preview = q.tool.current, !.tasks[k] = c])
  <2>1. /\ k \in 1 .. Slots /\ q.tasks[k].at = "idle" /\ q.tool \in ToolOf(begun)
        /\ q.tasks \in [1 .. Slots -> CallOf(begun)]
    BY <1>3, <1>5, <1>8, PlaceFields DEF Free
  <2>2. /\ q.tool.current \in begun /\ manifest[q.tool.current].n > 0
    BY <1>5, <1>10, WantedIsNat DEF PreviewData
  <2>3. c \in CallOf(begun) /\ c.at = "missed"
    BY <1>2, <2>2 DEF CallOf, NoCall, At, DraftsOf
  <2>4. /\ u \in ToolOf(begun) /\ u.preview = q.tool.current /\ u.current = q.tool.current
        /\ u.ui = q.tool.ui /\ u.arrived = q.tool.arrived /\ u.card = q.tool.card
        /\ u.retry = q.tool.retry /\ u.comp = q.tool.comp /\ u.here = q.tool.here
        /\ u.boxes = q.tool.boxes /\ u.saved = q.tool.saved
    BY <1>4, <2>1, <2>2 DEF ToolOf, DraftsOf
  <2>5. PICK r : r = [q.tasks EXCEPT ![k] = c]
    OBVIOUS
  <2>6. /\ r \in [1 .. Slots -> CallOf(begun)] /\ r[k].at = "missed"
        /\ \A j \in 1 .. Slots : j # k => r[j] = q.tasks[j]
    BY <2>1, <2>3, <2>5
  <2>7. tool' = u /\ tasks' = r
    BY <1>4, <1>8, <1>10, <2>5 DEF Settles, PlaceOf
  <2>8. ASSUME NEW s \in Draft, OnlyOne(s)
        PROVE  OneInv(tool', tasks', stream', manifest[s].n, completed, s)
    <3>1. q.tool.current = s /\ manifest[s].n > 0
      BY <2>2, <2>8 DEF OnlyOne
    <3>2. OneInv(q.tool, q.tasks, stream', manifest[s].n, completed, s)
      BY <1>8, <2>8
    <3>3. LooksLater(q.tool, q.tasks, u, r, s)
      BY <2>1, <2>4, <2>6, <3>1 DEF LooksLater
    <3>4. OneInv(u, r, stream', manifest[s].n, completed, s)
      BY <3>1, <3>2, <3>3, LooksAgain
    <3> QED
      BY <1>5, <2>7, <3>4
  <2> QED
    BY <1>5, <1>6, <2>4, <2>6, <2>7, <2>8, HeardStep
<1> QED
  BY <1>5, <1>9, <1>10

-----------------------------------------------------------------------------
(* A reload, and the agent.                                                *)

\* A reload restores the session of the cache, or drops the cache.
LEMMA ReloadsKeeps ==
    ASSUME PreviewIInv, PreviewReloads
    PROVE  PreviewIInv'
<1>1. PICK t : t = [tool EXCEPT !.ui = "PICKING", !.current = NoDraft, !.arrived = 0, !.visible = 0,
                                !.preview = NoDraft, !.selecting = FALSE, !.card = NoCard,
                                !.retry = NoDraft, !.comp = NoComp, !.here = Draft, !.boxes = {}]
  OBVIOUS
<1>2. PICK p : p = [tool |-> t, tasks |-> [k \in 1 .. Slots |-> NoCall]]
  OBVIOUS
<1>3. PICK q : q = RestoresBare(p, {})
  OBVIOUS
<1>4. /\ PreviewData /\ begun \in SUBSET Draft /\ tool \in ToolOf(begun)
      /\ Settles(IF q.tool.current # NoDraft THEN q ELSE [q EXCEPT !.tool.saved = NoCache])
      /\ stream' = <<[type |-> "connected", id |-> NoDraft]>>
      /\ UNCHANGED <<manifest, begun, ended, completed>>
  BY <1>1, <1>2, <1>3 DEF PreviewReloads, PreviewIInv, PreviewData
<1>5. [type |-> "connected", id |-> NoDraft] \in NewsOf(begun)
  BY DEF NewsOf, DraftsOf
<1>6. /\ stream' \in Seq(NewsOf(begun)) /\ Len(stream') = 1
      /\ \A i \in 1 .. Len(stream') : stream'[i].type = "connected"
  BY <1>4, <1>5
<1>7. NewsAreKnown(stream')
  BY <1>6 DEF NewsAreKnown
<1>8. /\ t \in ToolOf(begun) /\ t.ui = "PICKING" /\ t.current = NoDraft /\ t.preview = NoDraft
      /\ t.card = NoCard /\ t.retry = NoDraft /\ t.comp = NoComp /\ t.boxes = {}
      /\ t.saved = tool.saved
  <2>1. NoCard \in CardOf(begun) /\ NoComp \in CompOf(begun)
    BY DEF CardOf, CompOf
  <2> QED
    BY <1>1, <1>4, <2>1 DEF ToolOf, DraftsOf, UiOf
<1>9. /\ p \in PlaceOf(begun) /\ p.tool = t /\ \A k \in 1 .. Slots : p.tasks[k].at = "idle"
  BY <1>2, <1>8 DEF PlaceOf, CallOf, NoCall
<1>10. q \in PlaceOf(begun) /\ Resumed(p, {}, q)
  <2>1. 1 \in Free(p.tasks) /\ {} \in SUBSET begun
    BY <1>9, WantedIsNat DEF Free
  <2>2. Free(p.tasks) # {}
    BY <2>1
  <2> QED
    BY <1>3, <1>4, <1>9, <2>1, <2>2, RestoresIs
<1>11. q.tool \in ToolOf(begun) /\ q.tasks \in [1 .. Slots -> CallOf(begun)]
  BY <1>4, <1>10, PlaceFields
<1>12. CASE q = p
  <2>1. PICK u : u = [t EXCEPT !.saved = NoCache]
    OBVIOUS
  <2>2. NoCache \in CacheOf(begun)
    BY WantedIsNat DEF NoCache, CacheOf, DraftsOf, UiOf
  <2>3. /\ u \in ToolOf(begun) /\ u.ui = "PICKING" /\ u.current = NoDraft /\ u.preview = NoDraft
        /\ u.card = NoCard /\ u.retry = NoDraft /\ u.comp = NoComp /\ u.boxes = {}
        /\ u.saved.seen = NoDraft
    BY <1>8, <2>1, <2>2 DEF ToolOf, NoCache
  <2>4. tool' = u /\ tasks' = p.tasks
    BY <1>4, <1>8, <1>9, <1>10, <1>12, <2>1 DEF Settles, PlaceOf
  <2>5. ASSUME NEW s \in Draft, OnlyOne(s)
        PROVE  OneInv(tool', tasks', stream', manifest[s].n, completed, s)
    <3>1. ~Underway(tool', tasks')
      BY <1>9, <2>3, <2>4 DEF Underway
    <3>2. IsKnown(tool', tasks') /\ IsPublished(tool', tasks', stream', manifest[s].n)
      BY <1>6, <2>3, <2>4, <3>1 DEF IsKnown, IsPublished
    <3>3. HasArrived(tool', tasks') /\ IsFilled(tool', tasks') /\ HasOneBox(tool', s)
      BY <1>9, <2>3, <2>4 DEF HasArrived, IsFilled, HasOneBox, IsMount
    <3>4. HasReason(tool', tasks', stream', completed, s)
      BY <2>3, <2>4 DEF HasReason
    <3> QED
      BY <3>2, <3>3, <3>4 DEF OneInv
  <2>6. tool' \in ToolOf(begun) /\ tasks' \in [1 .. Slots -> CallOf(begun)]
    BY <1>11, <1>12, <2>3, <2>4
  <2> QED
    BY <1>4, <1>6, <1>7, <2>5, <2>6, HeardStep
<1>13. ASSUME NEW w \in CacheOf(begun), NEW seen \in DraftsOf(begun),
              w.id \in begun,
              q.tool.ui = "GENERATING", q.tool.current = w.id, q.tool.preview = seen,
              q.tool.card = p.tool.card, q.tool.retry = p.tool.retry, q.tool.comp = p.tool.comp,
              q.tool.boxes = p.tool.boxes,
              q.tool.saved.id = w.id, q.tool.saved.ui = "GENERATING", q.tool.saved.seen = seen,
              \/ seen = NoDraft /\ q.tasks = p.tasks
              \/ /\ seen # NoDraft /\ Reads(p.tasks, q.tasks) /\ q.tool.arrived > 0
                 /\ \/ seen = p.tool.preview \/ seen = p.tool.saved.seen
                    \/ manifest[seen].n > 0
       PROVE  PreviewIInv'
  <2>1. /\ tool' = q.tool /\ tasks' = q.tasks
    BY <1>4, <1>13, WantedIsNat DEF Settles
  <2>2. ASSUME NEW s \in Draft, OnlyOne(s)
        PROVE  OneInv(tool', tasks', stream', manifest[s].n, completed, s)
    <3>1. IsOne(s) /\ begun = {s} /\ w.id = s /\ seen \in {NoDraft, s} /\ s # NoDraft
      BY <1>13, <2>2, WantedIsNat DEF PreviewIInv, OnlyOne, DraftsOf
    <3>2. seen # NoDraft => manifest[s].n > 0
      BY <1>8, <1>9, <1>13, <3>1 DEF IsOne, OneInv, IsPublished
    <3>3. seen = NoDraft => ~Underway(tool', tasks')
      BY <1>8, <1>9, <1>13, <2>1 DEF Underway
    <3>4. IsKnown(tool', tasks')
      BY <1>13, <2>1, <3>1, <3>3 DEF IsKnown
    <3>5. IsPublished(tool', tasks', stream', manifest[s].n)
      BY <1>6, <1>13, <2>1, <3>2, <3>3 DEF IsPublished
    <3>6. HasArrived(tool', tasks')
      BY <1>9, <1>13, <2>1 DEF HasArrived, IsMount
    <3>7. IsFilled(tool', tasks') /\ HasOneBox(tool', s)
      BY <1>8, <1>9, <1>13, <2>1 DEF IsFilled, HasOneBox
    <3>8. HasReason(tool', tasks', stream', completed, s)
      <4>1. \E i \in 1 .. Len(stream') : stream'[i].type \in {"done", "connected"}
        BY <1>6
      <4> QED
        BY <1>13, <2>1, <3>1, <4>1 DEF HasReason, Restorable
    <3> QED
      BY <3>4, <3>5, <3>6, <3>7, <3>8 DEF OneInv
  <2> QED
    BY <1>4, <1>6, <1>7, <1>11, <2>1, <2>2, HeardStep
<1> QED
  BY <1>10, <1>12, <1>13 DEF Resumed

\* What is published is announced, and what is complete with a done.
LEMMA PublishesIs ==
    ASSUME PreviewData, NEW d \in Draft, AgentPublishes(d)
    PROVE  /\ d \in begun
           /\ \E m \in NewsOf(begun) :
                 /\ stream' = Append(stream, m) /\ m.id = d /\ m.type # "connected"
                 /\ completed' = completed \/ (completed' = completed \cup {d} /\ m.type = "done")
           /\ manifest' \in [Draft -> [n : Nat, broken : SUBSET Variant, foreign : BOOLEAN]]
           /\ \A s \in Draft : manifest'[s].n > 0 => s \in begun
           /\ \A s \in completed' : manifest'[s].n = Wanted
           /\ manifest'[d].n > 0
<1>1. /\ d \in begun /\ completed \subseteq begun /\ begun \subseteq Draft
      /\ manifest \in [Draft -> [n : Nat, broken : SUBSET Variant, foreign : BOOLEAN]]
      /\ \A s \in Draft : manifest[s].n > 0 => s \in begun
      /\ \A s \in completed : manifest[s].n = Wanted
  BY DEF AgentPublishes, PreviewData
<1>2. ASSUME NEW type \in {"progress", "done"}, Announced(type, d),
             completed' = completed \/ (completed' = completed \cup {d} /\ type = "done")
      PROVE  \E m \in NewsOf(begun) :
                /\ stream' = Append(stream, m) /\ m.id = d /\ m.type # "connected"
                /\ completed' = completed \/ (completed' = completed \cup {d} /\ m.type = "done")
  <2>1. PICK m : m = [type |-> type, id |-> d]
    OBVIOUS
  <2>2. m \in NewsOf(begun) /\ m.id = d /\ m.type = type
    BY <1>1, <2>1 DEF NewsOf, DraftsOf
  <2> QED
    BY <1>2, <2>1, <2>2 DEF Announced
<1>3. CASE /\ manifest[d].n < Wanted
           /\ \E bad \in {{}, {manifest[d].n + 1}} :
                manifest' = [manifest EXCEPT ![d].n = @ + 1, ![d].broken = @ \cup bad]
           /\ Announced("progress", d) /\ UNCHANGED completed
  <2>1. PICK bad \in {{}, {manifest[d].n + 1}} :
            manifest' = [manifest EXCEPT ![d].n = @ + 1, ![d].broken = @ \cup bad]
    BY <1>3
  <2>2. bad \subseteq Variant
    BY <1>1, <1>3, WantedIsNat DEF Variant
  <2>3. /\ manifest' \in [Draft -> [n : Nat, broken : SUBSET Variant, foreign : BOOLEAN]]
        /\ manifest'[d].n = manifest[d].n + 1
        /\ \A s \in Draft : s # d => manifest'[s].n = manifest[s].n
    <3>1. PICK e : e = [manifest[d] EXCEPT !.n = @ + 1, !.broken = @ \cup bad]
      OBVIOUS
    <3>2. e \in [n : Nat, broken : SUBSET Variant, foreign : BOOLEAN] /\ e.n = manifest[d].n + 1
      <4>1. PICK r \in [n : Nat, broken : SUBSET Variant, foreign : BOOLEAN] : r = manifest[d]
        BY <1>1
      <4>2. PICK b \in SUBSET Variant : b = r.broken \cup bad
        BY <2>2, <4>1
      <4>3. PICK m \in Nat : m = r.n + 1
        BY <4>1
      <4>4. e = [r EXCEPT !.n = m, !.broken = b]
        BY <3>1, <4>1, <4>2, <4>3
      <4> QED
        BY <4>1, <4>2, <4>3, <4>4
    <3>3. manifest' = [manifest EXCEPT ![d] = e]
      BY <2>1, <3>1
    <3> QED
      BY <1>1, <3>2, <3>3
  <2>4. d \notin completed /\ manifest'[d].n > 0
    BY <1>1, <1>3, <2>3, WantedIsNat
  <2>5. Announced("progress", d) /\ completed' = completed
    BY <1>3
  <2>6. \E m \in NewsOf(begun) :
            /\ stream' = Append(stream, m) /\ m.id = d /\ m.type # "connected"
            /\ completed' = completed \/ (completed' = completed \cup {d} /\ m.type = "done")
    BY <2>5, <1>2
  <2> QED
    BY <1>1, <2>3, <2>4, <2>5, <2>6
<1>4. CASE /\ manifest[d].n = Wanted /\ completed' = completed \cup {d} /\ Announced("done", d)
           /\ \/ UNCHANGED manifest \/ manifest' = [manifest EXCEPT ![d].foreign = TRUE]
  <2>1. /\ manifest' \in [Draft -> [n : Nat, broken : SUBSET Variant, foreign : BOOLEAN]]
        /\ \A s \in Draft : manifest'[s].n = manifest[s].n
    <3>1. PICK e : e = [manifest[d] EXCEPT !.foreign = TRUE]
      OBVIOUS
    <3>2. e \in [n : Nat, broken : SUBSET Variant, foreign : BOOLEAN] /\ e.n = manifest[d].n
      BY <1>1, <3>1
    <3>3. manifest' = manifest \/ manifest' = [manifest EXCEPT ![d] = e]
      BY <1>4, <3>1
    <3> QED
      BY <1>1, <3>2, <3>3
  <2>2. manifest'[d].n > 0 /\ \A s \in completed' : manifest'[s].n = Wanted
    BY <1>1, <1>4, <2>1, WantedIsNat
  <2>3. \E m \in NewsOf(begun) :
            /\ stream' = Append(stream, m) /\ m.id = d /\ m.type # "connected"
            /\ completed' = completed \/ (completed' = completed \cup {d} /\ m.type = "done")
    BY <1>2, <1>4
  <2> QED
    BY <1>1, <1>4, <2>1, <2>2, <2>3
<1>5. CASE /\ d \in completed
           /\ manifest' = [manifest EXCEPT ![d].broken = {}, ![d].foreign = FALSE]
           /\ Announced("done", d) /\ UNCHANGED completed
  <2>1. /\ manifest' \in [Draft -> [n : Nat, broken : SUBSET Variant, foreign : BOOLEAN]]
        /\ \A s \in Draft : manifest'[s].n = manifest[s].n
    BY <1>1, <1>5
  <2>2. manifest'[d].n > 0 /\ \A s \in completed' : manifest'[s].n = Wanted
    BY <1>1, <1>5, <2>1, WantedIsNat
  <2>3. \E m \in NewsOf(begun) :
            /\ stream' = Append(stream, m) /\ m.id = d /\ m.type # "connected"
            /\ completed' = completed \/ (completed' = completed \cup {d} /\ m.type = "done")
    BY <1>2, <1>5
  <2> QED
    BY <1>1, <1>5, <2>1, <2>2, <2>3
<1> QED
  BY <1>3, <1>4, <1>5 DEF AgentPublishes

\* The agent publishes.
LEMMA PublishesKeeps ==
    ASSUME PreviewIInv, NEW d \in Draft, AgentPublishes(d)
    PROVE  PreviewIInv'
<1>1. /\ PreviewData /\ UNCHANGED <<tool, tasks, begun, ended>> /\ begun \subseteq Draft
      /\ stream \in Seq(NewsOf(begun)) /\ NewsAreKnown(stream)
  BY DEF PreviewIInv, PreviewData, AgentPublishes, NewsAreKnown
<1>2. /\ d \in begun
      /\ manifest' \in [Draft -> [n : Nat, broken : SUBSET Variant, foreign : BOOLEAN]]
      /\ \A s \in Draft : manifest'[s].n > 0 => s \in begun
      /\ \A s \in completed' : manifest'[s].n = Wanted
      /\ manifest'[d].n > 0
  BY <1>1, PublishesIs
<1>3. PICK m \in NewsOf(begun) :
         /\ stream' = Append(stream, m) /\ m.id = d /\ m.type # "connected"
         /\ completed' = completed \/ (completed' = completed \cup {d} /\ m.type = "done")
  BY <1>1, PublishesIs
<1>4. /\ stream' \in Seq(NewsOf(begun)) /\ Len(stream') = Len(stream) + 1 /\ Len(stream) \in Nat
      /\ stream'[Len(stream) + 1] = m
      /\ \A i \in 1 .. Len(stream) : stream'[i] = stream[i]
  BY <1>1, <1>3
<1>5. NewsAreKnown(stream')
  <2>1. \A i \in 1 .. Len(stream') : i = Len(stream) + 1 \/ i \in 1 .. Len(stream)
    BY <1>4
  <2> QED
    BY <1>1, <1>2, <1>3, <1>4, <2>1, WantedIsNat DEF NewsAreKnown
<1>6. PreviewData'
  BY <1>1, <1>2, <1>3, <1>4, <1>5 DEF PreviewData, NewsAreKnown
<1>7. ASSUME NEW s \in Draft, OnlyOne(s)'
      PROVE  IsOne(s)'
  <2>1. IsOne(s) /\ d = s
    BY <1>1, <1>2, <1>7 DEF PreviewIInv, OnlyOne
  <2>2. IsPublished(tool, tasks, stream', manifest'[s].n)
    BY <1>2, <2>1 DEF IsPublished
  <2>3. /\ 1 .. Len(stream) \subseteq 1 .. Len(stream') /\ Len(stream) + 1 \in 1 .. Len(stream')
    BY <1>4
  <2>4. Restorable(tool, stream, completed, s) => Restorable(tool, stream', completed', s)
    BY <1>3, <1>4, <2>1, <2>3 DEF Restorable
  <2>5. HasReason(tool, tasks, stream', completed', s)
    BY <2>1, <2>4 DEF IsOne, OneInv, HasReason
  <2> QED
    BY <1>1, <2>1, <2>2, <2>5 DEF IsOne, OneInv
<1> QED
  BY <1>6, <1>7 DEF PreviewIInv

-----------------------------------------------------------------------------
(* Every step keeps the invariant.                                         *)

\* A step that changes nothing keeps the invariant.
LEMMA PreviewStutters == PreviewIInv /\ UNCHANGED previewVars => PreviewIInv'
<1> SUFFICES ASSUME PreviewIInv, UNCHANGED previewVars PROVE PreviewIInv'
  OBVIOUS
<1>1. PreviewData'
  BY DEF PreviewIInv, PreviewData, previewVars
<1>2. \A s \in Draft : OnlyOne(s)' => IsOne(s)'
  BY DEF PreviewIInv, OnlyOne, IsOne, previewVars
<1> QED
  BY <1>1, <1>2 DEF PreviewIInv

\* So does every step.
LEMMA PreviewStep == PreviewIInv /\ [PreviewNext]_previewVars => PreviewIInv'
<1> SUFFICES ASSUME PreviewIInv, [PreviewNext]_previewVars PROVE PreviewIInv'
  OBVIOUS
<1>1. ASSUME NEW k \in 1 .. Slots,
             \/ ManifestFails(k) \/ ManifestForeign(k) \/ ManifestRead(k) \/ Imported(k)
             \/ Unmounted(k) \/ MountThrows(k) \/ Explained(k) \/ MissedFires(k)
      PROVE  PreviewIInv'
  BY <1>1, FailsKeeps, ForeignKeeps, ReadKeeps, ImportedKeeps, ThrowsKeeps, ExplainedKeeps,
     MissedKeeps
<1>2. ASSUME NEW s \in Draft,
             PressesGo(s) \/ ElementGoes(s) \/ ElementComes(s) \/ AgentPublishes(s)
      PROVE  PreviewIInv'
  BY <1>2, GoKeeps, GoesKeeps, ComesKeeps, PublishesKeeps
<1>3. ASSUME NEW n \in Variant, Selects(n)
      PROVE  PreviewIInv'
  BY <1>3, SelectsKeeps
<1>4. CASE \/ AcceptsIt \/ DiscardsIt \/ DismissesCard \/ RetriesCard \/ PreviewReloads
           \/ StreamDrops \/ ProgressHeard \/ DoneHeard \/ ConnectedHeard
  BY <1>4, EndsKeeps, DismissesKeeps, RetriesKeeps, ReloadsKeeps, DropsKeeps, HearsProgress,
     HearsDone, ConnectsKeeps
<1>5. CASE UNCHANGED previewVars
  BY <1>5, PreviewStutters
<1> QED
  BY <1>1, <1>2, <1>3, <1>4, <1>5 DEF PreviewNext

\* The invariant of the previews, for every number of sessions, variants, calls
\* and messages: the types always, and what is said of one session as long as
\* the page has begun no other and it is not settled.
THEOREM PreviewInvariant == PreviewSpec => []PreviewIInv
<1>1. PreviewInit => PreviewIInv
  BY PreviewStarts
<1>2. PreviewIInv /\ [PreviewNext]_previewVars => PreviewIInv'
  BY PreviewStep
<1> QED
  BY <1>1, <1>2, PTL DEF PreviewSpec

\* A page that has begun one session, and has heard and worked off everything
\* that was published for it, does not generate without a card, a wait for the
\* element, or a wrapper that was taken away: every end of
\* injectSvelteComponentsFromManifest, of a mount and of a restore leaves one.
THEOREM WaitsAreExplained == PreviewSpec => []WaitingHasAReason
<1>1. PreviewIInv => WaitingHasAReason
  <2> SUFFICES ASSUME PreviewIInv, Rests, tool.ui = "GENERATING", begun = {tool.current},
                      tool.current \in completed \ ended
               PROVE  \/ tool.card # NoCard \/ tool.retry # NoDraft
                      \/ tool.comp.id = tool.current /\ tool.comp.box \notin tool.boxes
    BY DEF WaitingHasAReason
  <2>1. PICK s \in Draft : s = tool.current
    BY DEF PreviewIInv, PreviewData
  <2>2. /\ IsOne(s) /\ tool \in ToolOf({s}) /\ s \in completed
        /\ Len(stream) = 0 /\ \A k \in 1 .. Slots : tasks[k].at = "idle"
    BY <2>1 DEF PreviewIInv, PreviewData, OnlyOne, Rests
  <2>3. ~Restorable(tool, stream, completed, s)
    BY <2>2 DEF Restorable
  <2>4. Awaited(tool, tasks)
    BY <2>1, <2>2, <2>3 DEF IsOne, OneInv, HasReason
  <2>5. tool.comp # NoComp => tool.comp.id = s
    BY <2>2, AllOfOne
  <2> QED
    BY <2>1, <2>2, <2>4, <2>5 DEF Awaited, IsMount
<1> QED
  BY <1>1, PreviewInvariant, PTL

-----------------------------------------------------------------------------
(* Targets that the agent names.  A tab takes a lease for one target at a  *)
(* time, and a request that was answered stays answered.                   *)

CallType == [kind : Kind, tab : Tab, target : Target]
StepType == [tab : TabType, calls : SUBSET CallType, request : [Target -> RequestType]]

OneActs(acting) == \A g, h \in acting : g = h

\* An answered request is not pending any more.
AnsweredOnce(rq) == \A g \in Target : rq[g].served # Nobody => ~rq[g].pending

\* A tab has its session for a target from the answer, or will hear that it has not.
KeptOrTold(ts, cs, rq) ==
    \A t \in Tab, g \in Target : ts[t].session = g =>
        \/ rq[g].served = t
        \/ Call("generate", t, g) \in cs \/ Call("superseded", t, g) \in cs

TargetIInv ==
    /\ TargetTypeOK /\ AnsweredOnce(request) /\ KeptOrTold(tabs, calls, request)
    /\ \A t \in Tab : OneActs(tabs[t].acting)

\* What a handler does beside a session that begins: it answers nothing, takes
\* nothing back that is under way, and acts on nothing new.
Gentle(s, u) ==
    /\ u \in StepType /\ s.calls \subseteq u.calls
    /\ u.tab.session = s.tab.session /\ u.tab.acting \subseteq s.tab.acting
    /\ \A g \in Target : /\ u.request[g].served = s.request[g].served
                         /\ u.request[g].pending = s.request[g].pending

\* A handler that does nothing, and one after another.
LEMMA GentleSteps ==
    ASSUME NEW s \in StepType
    PROVE  /\ Gentle(s, s)
           /\ \A u, v : Gentle(s, u) /\ Gentle(u, v) => Gentle(s, v)
  BY DEF Gentle

\* A message is sent.
LEMMA SendsGently ==
    ASSUME NEW s \in StepType, NEW kind \in Kind, NEW t \in Tab, NEW g \in Target
    PROVE  Gentle(s, Sends(s, kind, t, g))
<1>0. Call(kind, t, g) \in CallType /\ s.calls \subseteq CallType
  BY DEF StepType, CallType, Call
<1>1. PICK cs : cs = s.calls \cup {Call(kind, t, g)}
  OBVIOUS
<1>2. Sends(s, kind, t, g) = [s EXCEPT !.calls = cs]
  BY <1>1 DEF Sends
<1>3. Gentle(s, [s EXCEPT !.calls = cs])
  BY <1>0, <1>1 DEF Gentle, StepType
<1> QED
  BY <1>2, <1>3

\* The tab stops acting on a target, and may remember it.
LEMMA LessActsGently ==
    ASSUME NEW s \in StepType, NEW acting \in SUBSET s.tab.acting, NEW again \in SUBSET Target
    PROVE  /\ Gentle(s, [s EXCEPT !.tab.acting = acting])
           /\ Gentle(s, [s EXCEPT !.tab.again = again, !.tab.acting = acting])
<1>1. PICK tab \in TabType : tab = s.tab
  BY DEF StepType
<1>2. PICK x \in TabType : x = [tab EXCEPT !.acting = acting]
  BY <1>1 DEF TabType
<1>3. PICK y \in TabType : y = [tab EXCEPT !.again = again, !.acting = acting]
  BY <1>1 DEF TabType
<1>4. /\ x.session = tab.session /\ x.acting = acting
      /\ y.session = tab.session /\ y.acting = acting
  BY <1>2, <1>3 DEF TabType
<1>5. Gentle(s, [s EXCEPT !.tab = x]) /\ Gentle(s, [s EXCEPT !.tab = y])
  BY <1>1, <1>4 DEF Gentle, StepType
<1>6. /\ [s EXCEPT !.tab.acting = acting] = [s EXCEPT !.tab = x]
      /\ [s EXCEPT !.tab.again = again, !.tab.acting = acting] = [s EXCEPT !.tab = y]
  BY <1>1, <1>2, <1>3 DEF StepType
<1> QED
  BY <1>5, <1>6

\* A lease is asked for.
LEMMA AsksGently ==
    ASSUME NEW s \in StepType, NEW t \in Tab, NEW g \in Target, NEW yes \in Kind, NEW no \in Kind
    PROVE  Gentle(s, AsksLease(s, t, g, yes, no))
<1>1. PICK rq \in [Target -> RequestType] : rq = s.request
  BY DEF StepType
<1>0. Call(yes, t, g) \in CallType /\ Call(no, t, g) \in CallType /\ s.calls \subseteq CallType
  BY DEF StepType, CallType, Call
<1>2. PICK cs :
         /\ cs \subseteq CallType /\ s.calls \subseteq cs
         /\ cs = IF Grantable(s, t, g) THEN s.calls \cup {Call(yes, t, g)}
                 ELSE IF s.request[g].pending \/ no = "refused" THEN s.calls \cup {Call(no, t, g)}
                 ELSE s.calls
  BY <1>0
<1>3. PICK r \in RequestType : r = rq[g]
  BY <1>1
<1>4. PICK lease \in Tab \cup {Nobody, "gone"} : lease = IF Grantable(s, t, g) THEN t ELSE r.lease
  BY DEF RequestType
<1>5. PICK words \in SUBSET Tab : words = r.words \ {t}
  BY DEF RequestType
<1>6. PICK q : q = [r EXCEPT !.lease = lease, !.words = words]
  OBVIOUS
<1>7. q \in RequestType /\ q.served = r.served /\ q.pending = r.pending
  BY <1>6 DEF RequestType
<1>8. AsksLease(s, t, g, yes, no) = [s EXCEPT !.request = [rq EXCEPT ![g] = q], !.calls = cs]
  BY <1>1, <1>2, <1>3, <1>4, <1>5, <1>6 DEF AsksLease, StepType
<1>9. PICK rq2 \in [Target -> RequestType] : rq2 = [rq EXCEPT ![g] = q]
  BY <1>7
<1>10. \A h \in Target : rq2[h].served = rq[h].served /\ rq2[h].pending = rq[h].pending
  BY <1>3, <1>7, <1>9
<1>11. Gentle(s, [s EXCEPT !.request = rq2, !.calls = cs])
  BY <1>1, <1>2, <1>10 DEF Gentle, StepType
<1> QED
  BY <1>8, <1>9, <1>11

\* A target is declined, and the tab does not act on it any more.
LEMMA DeclinesGently ==
    ASSUME NEW s \in StepType, NEW t \in Tab, NEW g \in Target
    PROVE  Gentle(s, Declines(s, t, g)) /\ Declines(s, t, g).tab.acting \subseteq s.tab.acting \ {g}
<1>1. {"busy", "missing"} \subseteq Kind
  BY DEF Kind
<1>2. PICK acting \in SUBSET s.tab.acting : acting = s.tab.acting \ {g}
  OBVIOUS
<1>3. PICK again \in SUBSET Target : again = s.tab.again \cup {g}
  BY DEF StepType, TabType
<1>4. PICK x : x = [s EXCEPT !.tab.again = again, !.tab.acting = acting]
  OBVIOUS
<1>5. PICK y : y = [s EXCEPT !.tab.acting = acting]
  OBVIOUS
<1>6. Gentle(s, x) /\ Gentle(s, y) /\ x \in StepType /\ y \in StepType
  <2>1. Gentle(s, x) /\ Gentle(s, y)
    BY <1>4, <1>5, LessActsGently
  <2> QED
    BY <2>1 DEF Gentle
<1>7. Gentle(x, Sends(x, "busy", t, g)) /\ Gentle(y, Sends(y, "missing", t, g))
  BY <1>1, <1>6, SendsGently
<1>8. x.tab.acting = acting /\ y.tab.acting = acting
  BY <1>4, <1>5 DEF StepType, TabType
<1>9. Declines(s, t, g) = Sends(x, "busy", t, g) \/ Declines(s, t, g) = Sends(y, "missing", t, g)
  BY <1>2, <1>3, <1>4, <1>5 DEF Declines, DeclinesBusy, ReportsMissing
<1>10. /\ Sends(x, "busy", t, g).tab.acting \subseteq acting
       /\ Sends(y, "missing", t, g).tab.acting \subseteq acting
  BY <1>7, <1>8 DEF Gentle
<1>11. Gentle(s, Sends(x, "busy", t, g)) /\ Gentle(s, Sends(y, "missing", t, g))
  BY <1>6, <1>7, GentleSteps
<1> QED
  BY <1>2, <1>9, <1>10, <1>11

\* It is claimed, or declined.
LEMMA ClaimsGently ==
    ASSUME NEW s \in StepType, NEW t \in Tab, NEW g \in Target
    PROVE  Gentle(s, Claims(s, t, g))
<1>1. "granted" \in Kind /\ "denied" \in Kind
  BY DEF Kind
<1>2. Gentle(s, AsksLease(s, t, g, "granted", "denied")) /\ Gentle(s, Declines(s, t, g))
  BY <1>1, AsksGently, DeclinesGently
<1> QED
  BY <1>2 DEF Claims

\* All that were declined are claimed.
LEMMA RetriesGently ==
    ASSUME NEW s \in StepType, NEW t \in Tab
    PROVE  Gentle(s, Retries(s, t))
<1>1. CASE s.tab.session # Nobody \/ s.tab.acting # {}
  BY <1>1, GentleSteps DEF Retries
<1>2. CASE ~(s.tab.session # Nobody \/ s.tab.acting # {})
  <2>1. PICK after : after = [g \in Target |-> Claims(s, t, g)]
    OBVIOUS
  <2>2. s.tab.again \subseteq Target
    BY DEF StepType, TabType
  <2>3. \A g \in Target : Gentle(s, after[g])
    BY <2>1, ClaimsGently
  <2>4. PICK cs : cs = s.calls \cup UNION {after[g].calls : g \in s.tab.again}
    OBVIOUS
  <2>5. cs \in SUBSET CallType /\ s.calls \subseteq cs
    BY <2>2, <2>3, <2>4 DEF Gentle, StepType
  <2>6. PICK rq : rq = [g \in Target |-> IF g \in s.tab.again THEN after[g].request[g] ELSE s.request[g]]
    OBVIOUS
  <2>7. ASSUME NEW g \in Target
        PROVE  /\ rq[g] \in RequestType /\ rq[g].served = s.request[g].served
               /\ rq[g].pending = s.request[g].pending
    BY <2>3, <2>6 DEF Gentle, StepType
  <2>8. rq \in [Target -> RequestType]
    BY <2>6, <2>7
  <2>9. PICK tab \in TabType : tab = [s.tab EXCEPT !.again = {}]
    BY DEF StepType, TabType
  <2>10. tab.session = s.tab.session /\ tab.acting = s.tab.acting
    BY <2>9 DEF StepType, TabType
  <2>11. Gentle(s, [s EXCEPT !.tab = tab, !.calls = cs, !.request = rq])
    BY <2>5, <2>7, <2>8, <2>10 DEF Gentle, StepType
  <2>12. {Claims(s, t, g).calls : g \in s.tab.again} = {after[g].calls : g \in s.tab.again}
    BY <2>1, <2>2
  <2>13. [g \in Target |-> IF g \in s.tab.again THEN Claims(s, t, g).request[g] ELSE s.request[g]] = rq
    BY <2>1, <2>6
  <2>14. Retries(s, t) = [s EXCEPT !.tab = tab, !.calls = cs, !.request = rq]
    BY <1>2, <2>4, <2>9, <2>12, <2>13 DEF Retries, StepType
  <2> QED
    BY <2>11, <2>14
<1> QED
  BY <1>1, <1>2

-----------------------------------------------------------------------------
(* Steps of the targets.                                                   *)

\* Nothing was asked or answered when the page opens.
LEMMA TargetsStart == TargetInit => TargetIInv
<1> SUFFICES ASSUME TargetInit PROVE TargetIInv
  OBVIOUS
<1>1. Fresh \in TabType /\ Fresh.session = Nobody /\ Fresh.acting = {}
  BY DEF Fresh, TabType
<1>2. \A t \in Tab : tabs[t] = Fresh
  BY DEF TargetInit
<1>3. \A g \in Target : request[g] \in RequestType /\ request[g].served = Nobody
  BY DEF TargetInit, RequestType
<1>4. request \in [Target -> RequestType] /\ tabs \in [Tab -> TabType]
  BY <1>1, <1>2, <1>3 DEF TargetInit
<1>5. unheard \subseteq Tab \X Target /\ lacks \subseteq Tab \X Target
  <2>1. (CHOOSE t \in Tab : TRUE) \in Tab
    BY TargetAssumption
  <2> QED
    BY <2>1 DEF TargetInit
<1>6. TargetTypeOK
  BY <1>4, <1>5 DEF TargetInit, TargetTypeOK
<1>7. AnsweredOnce(request)
  BY <1>3 DEF AnsweredOnce
<1>8. KeptOrTold(tabs, calls, request)
  BY <1>1, <1>2, TargetAssumption DEF KeptOrTold
<1>9. \A t \in Tab : OneActs(tabs[t].acting)
  BY <1>1, <1>2 DEF OneActs
<1> QED
  BY <1>6, <1>7, <1>8, <1>9 DEF TargetIInv

\* No session begins for a target, no answer is taken back, and what a tab will
\* hear of its session is still under way.
LEMMA NobodyBegins ==
    ASSUME TargetIInv, TargetTypeOK', AnsweredOnce(request'),
           \A t \in Tab : OneActs(tabs'[t].acting),
           \A t \in Tab, g \in Target : tabs'[t].session = g => tabs[t].session = g,
           \A g \in Target : request[g].served # Nobody => request'[g].served = request[g].served,
           \A c \in calls : c.kind \in {"generate", "superseded"} /\ tabs'[c.tab].session = c.target
                               => c \in calls'
    PROVE  TargetIInv'
<1>1. KeptOrTold(tabs', calls', request')
  <2> SUFFICES ASSUME NEW t \in Tab, NEW g \in Target, tabs'[t].session = g
               PROVE  \/ request'[g].served = t
                      \/ Call("generate", t, g) \in calls' \/ Call("superseded", t, g) \in calls'
    BY DEF KeptOrTold
  <2>1. CASE request[g].served = t
    BY <2>1, TargetAssumption
  <2>2. CASE \E kind \in {"generate", "superseded"} : Call(kind, t, g) \in calls
    <3>1. PICK kind \in {"generate", "superseded"} : Call(kind, t, g) \in calls
      BY <2>2
    <3>2. PICK c \in calls : c = Call(kind, t, g)
      BY <3>1
    <3>3. c.kind = kind /\ c.tab = t /\ c.target = g
      BY <3>2 DEF Call
    <3>4. c \in calls'
      BY <3>1, <3>3
    <3> QED
      BY <3>2, <3>4
  <2>3. tabs[t].session = g
    OBVIOUS
  <2> QED
    BY <2>1, <2>2, <2>3 DEF TargetIInv, KeptOrTold
<1> QED
  BY <1>1 DEF TargetIInv

\* What the types say of a handler, before and after.
LEMMA TargetHand ==
    ASSUME TargetTypeOK
    PROVE  /\ \A t \in Tab : State(t) \in StepType /\ State(t).tab = tabs[t]
           /\ \A t \in Tab : State(t).calls = calls /\ State(t).request = request
           /\ \A c \in calls : /\ c.tab \in Tab /\ c.target \in Target /\ Then(c) \in StepType
                               /\ Then(c) = [tab |-> tabs[c.tab], calls |-> calls \ {c},
                                             request |-> request]
<1>1. tabs \in [Tab -> TabType] /\ request \in [Target -> RequestType] /\ calls \subseteq CallType
  BY DEF TargetTypeOK, CallType
<1>2. \A t \in Tab, cs \in SUBSET CallType : [tab |-> tabs[t], calls |-> cs, request |-> request] \in StepType
  BY <1>1 DEF StepType
<1>3. \A t \in Tab : State(t) = [tab |-> tabs[t], calls |-> calls, request |-> request]
  BY DEF State
<1>4. \A c \in calls : c.tab \in Tab /\ c.target \in Target
  BY <1>1 DEF CallType
<1>5. ASSUME NEW c \in calls
      PROVE  Then(c) = [tab |-> tabs[c.tab], calls |-> calls \ {c}, request |-> request]
  <2>1. PICK t \in Tab : t = c.tab
    BY <1>4
  <2>2. PICK s : s = [tab |-> tabs[t], calls |-> calls, request |-> request]
    OBVIOUS
  <2>3. Then(c) = [s EXCEPT !.calls = @ \ {c}]
    BY <1>3, <2>1, <2>2 DEF Then
  <2> QED
    BY <2>1, <2>2, <2>3
<1>6. \A c \in calls : calls \ {c} \in SUBSET CallType
  BY <1>1
<1> QED
  BY <1>1, <1>2, <1>3, <1>4, <1>5, <1>6

\* A tab and what is under way become what they should be.
LEMMA BecomesTyped ==
    ASSUME TargetTypeOK, NEW t \in Tab, NEW u \in StepType, Becomes(t, u),
           unheard' \subseteq Tab \X Target, lacks' \subseteq Tab \X Target,
           trips' \in 0 .. MaxTrips, goes' \in 0 .. MaxGoes
    PROVE  /\ TargetTypeOK' /\ tabs'[t] = u.tab /\ calls' = u.calls /\ request' = u.request
           /\ \A x \in Tab : x # t => tabs'[x] = tabs[x]
<1>1. tabs' = [tabs EXCEPT ![t] = u.tab] /\ calls' = u.calls /\ request' = u.request
  BY DEF Becomes
<1>2. tabs \in [Tab -> TabType] /\ u.tab \in TabType /\ u.request \in [Target -> RequestType]
      /\ u.calls \subseteq CallType
  BY DEF TargetTypeOK, StepType
<1>3. tabs' \in [Tab -> TabType] /\ tabs'[t] = u.tab /\ \A x \in Tab : x # t => tabs'[x] = tabs[x]
  BY <1>1, <1>2
<1> QED
  BY <1>1, <1>2, <1>3 DEF TargetTypeOK, CallType

\* A gentle handler, of a tab whose session stays or is over.
LEMMA GentleKeeps ==
    ASSUME TargetIInv, NEW t \in Tab, NEW u \in StepType, Becomes(t, u),
           unheard' \subseteq Tab \X Target, UNCHANGED <<lacks, trips, goes>>,
           NEW dropped, \A c \in dropped : /\ c.kind \in {"generate", "superseded"} => c.tab = t
                                           /\ c.kind \in {"generate", "superseded"}
                                                 => c.target # u.tab.session,
           calls \ dropped \subseteq u.calls, u.tab.session \in {tabs[t].session, Own, Nobody},
           OneActs(u.tab.acting),
           \A g \in Target : /\ u.request[g].served = request[g].served
                             /\ u.request[g].pending = request[g].pending
    PROVE  TargetIInv'
<1>1. TargetTypeOK /\ AnsweredOnce(request) /\ \A x \in Tab : OneActs(tabs[x].acting)
  BY DEF TargetIInv
<1>2. /\ TargetTypeOK' /\ tabs'[t] = u.tab /\ calls' = u.calls /\ request' = u.request
      /\ \A x \in Tab : x # t => tabs'[x] = tabs[x]
  BY <1>1, BecomesTyped DEF TargetTypeOK
<1>3. AnsweredOnce(request')
  BY <1>1, <1>2 DEF AnsweredOnce
<1>4. \A x \in Tab : OneActs(tabs'[x].acting)
  BY <1>1, <1>2
<1>5. \A x \in Tab, g \in Target : tabs'[x].session = g => tabs[x].session = g
  BY <1>2, TargetAssumption
<1>6. ASSUME NEW c \in calls, c.kind \in {"generate", "superseded"}, tabs'[c.tab].session = c.target
      PROVE  c \in calls'
  BY <1>2, <1>6
<1> QED
  BY <1>2, <1>3, <1>4, <1>5, <1>6, NobodyBegins

\* Handlers of the page that begin no session.
LEMMA TabMovesKeep ==
    ASSUME TargetIInv, NEW c \in calls,
           \/ StartFires(c) \/ ClaimGranted(c) \/ WatchFires(c) \/ ScrollEnds(c) \/ StandsDown(c)
           \/ Abandons(c),
           UNCHANGED <<unheard, lacks, trips, goes>>
    PROVE  TargetIInv'
<1>1. TargetTypeOK /\ OneActs(tabs[c.tab].acting) /\ c.tab \in Tab /\ c.target \in Target
  BY TargetHand DEF TargetIInv
<1>2. PICK t \in Tab, g \in Target : t = c.tab /\ g = c.target
  BY <1>1
<1>3. PICK s \in StepType : s = Then(c)
  BY <1>1, TargetHand
<1>4. /\ s.tab = tabs[t] /\ s.calls = calls \ {c} /\ s.request = request
      /\ OneActs(s.tab.acting) /\ unheard' \subseteq Tab \X Target
  BY <1>1, <1>2, <1>3, TargetHand DEF TargetTypeOK
<1>5. ASSUME NEW u, Gentle(s, u), Becomes(t, u), c.kind \notin {"generate", "superseded"}
      PROVE  TargetIInv'
  <2>1. /\ u \in StepType /\ calls \ {c} \subseteq u.calls /\ u.tab.session = tabs[t].session
        /\ OneActs(u.tab.acting)
        /\ \A h \in Target : /\ u.request[h].served = request[h].served
                             /\ u.request[h].pending = request[h].pending
    BY <1>4, <1>5 DEF Gentle, OneActs
  <2> QED
    BY <1>4, <1>5, <2>1, GentleKeeps
<1>6. CASE StartFires(c)
  BY <1>2, <1>3, <1>5, <1>6, ClaimsGently DEF StartFires, Is
<1>7. CASE WatchFires(c)
  BY <1>2, <1>3, <1>5, <1>7, ClaimsGently, GentleSteps DEF WatchFires, Is
<1>8. CASE ScrollEnds(c)
  <2>1. "renewed" \in Kind /\ "refused" \in Kind
    BY DEF Kind
  <2> QED
    BY <1>2, <1>3, <1>5, <1>8, <2>1, AsksGently DEF ScrollEnds, Is
<1>9. CASE ClaimGranted(c)
  <2>1. PICK x : x = [s EXCEPT !.tab.acting = s.tab.acting \cup {g}]
    OBVIOUS
  <2>2. /\ x \in StepType /\ x.calls = s.calls /\ x.request = s.request
        /\ x.tab.session = s.tab.session /\ x.tab.acting = s.tab.acting \cup {g}
    <3>1. PICK tab \in TabType : tab = s.tab
      BY DEF StepType
    <3>2. PICK acting \in SUBSET Target : acting = tab.acting \cup {g}
      BY DEF TabType
    <3>3. PICK new \in TabType : new = [tab EXCEPT !.acting = acting]
      BY DEF TabType
    <3>4. new.session = tab.session /\ new.acting = acting
      BY <3>3 DEF TabType
    <3>5. x = [s EXCEPT !.tab = new]
      BY <2>1, <3>1, <3>2, <3>3 DEF StepType
    <3> QED
      BY <3>1, <3>2, <3>4, <3>5 DEF StepType
  <2>3. /\ c.kind = "granted"
        /\ Becomes(t, IF Able(x, t, g) THEN Sends(x, "scroll", t, g) ELSE Declines(x, t, g))
    BY <1>2, <1>3, <1>9, <2>1 DEF ClaimGranted, Is
  <2>4. PICK u : u = IF Able(x, t, g) THEN Sends(x, "scroll", t, g) ELSE Declines(x, t, g)
    OBVIOUS
  <2>5. Gentle(x, u) /\ OneActs(u.tab.acting)
    <3>1. CASE Able(x, t, g)
      <4>1. Gentle(x, u)
        BY <2>2, <2>4, <3>1, SendsGently DEF Kind
      <4>2. x.tab.acting \ {g} = {}
        BY <3>1 DEF Able, Busy
      <4>3. u.tab.acting \subseteq {g}
        BY <4>1, <4>2 DEF Gentle
      <4> QED
        BY <4>1, <4>3 DEF OneActs
    <3>2. CASE ~Able(x, t, g)
      <4>1. Gentle(x, u) /\ u.tab.acting \subseteq x.tab.acting \ {g}
        BY <2>2, <2>4, <3>2, DeclinesGently
      <4>2. u.tab.acting \subseteq s.tab.acting
        BY <2>2, <4>1
      <4> QED
        BY <1>4, <4>1, <4>2 DEF OneActs
    <3> QED
      BY <3>1, <3>2
  <2>6. /\ u \in StepType /\ calls \ {c} \subseteq u.calls /\ u.tab.session = tabs[t].session
        /\ \A h \in Target : /\ u.request[h].served = request[h].served
                             /\ u.request[h].pending = request[h].pending
    BY <1>4, <2>2, <2>5 DEF Gentle
  <2>7. Becomes(t, u) /\ c.kind \notin {"generate", "superseded"}
    BY <2>3, <2>4
  <2> QED
    BY <1>4, <2>5, <2>6, <2>7, GentleKeeps
<1>10. CASE StandsDown(c)
  <2>1. PICK u : u = EndsActing(s, g)
    OBVIOUS
  <2>2. Gentle(s, u)
    <3>1. PICK tab \in TabType : tab = s.tab
      BY DEF StepType
    <3>2. PICK new \in TabType : new = [tab EXCEPT !.acting = tab.acting \ {g}, !.done = tab.done \cup {g}]
      BY DEF TabType
    <3>3. new.session = tab.session /\ new.acting \subseteq tab.acting
      BY <3>2 DEF TabType
    <3>4. u = [s EXCEPT !.tab = new]
      BY <2>1, <3>1, <3>2 DEF EndsActing, StepType
    <3>5. Gentle(s, [s EXCEPT !.tab = new])
      BY <3>1, <3>3 DEF Gentle, StepType
    <3> QED
      BY <3>4, <3>5
  <2>3. Becomes(t, u) /\ c.kind = "refused"
    BY <1>2, <1>3, <1>10, <2>1 DEF StandsDown, Is
  <2> QED
    BY <1>5, <2>2, <2>3
<1>11. CASE Abandons(c)
  <2>1. CASE tabs[t].session = g
    <3>1. PICK x : x = [s EXCEPT !.tab.session = Nobody]
      OBVIOUS
    <3>2. /\ x \in StepType /\ x.calls = s.calls /\ x.request = s.request
          /\ x.tab.session = Nobody /\ x.tab.acting = s.tab.acting
      <4>1. PICK tab \in TabType : tab = s.tab
        BY DEF StepType
      <4>2. PICK new \in TabType : new = [tab EXCEPT !.session = Nobody]
        BY DEF TabType
      <4>3. new.session = Nobody /\ new.acting = tab.acting
        BY <4>2 DEF TabType
      <4>4. x = [s EXCEPT !.tab = new]
        BY <3>1, <4>1, <4>2 DEF StepType
      <4> QED
        BY <4>1, <4>3, <4>4 DEF StepType
    <3>3. PICK u : u = Retries(x, t)
      OBVIOUS
    <3>4. Gentle(x, u)
      BY <3>2, <3>3, RetriesGently
    <3>5. Becomes(t, u) /\ c.kind = "superseded"
      BY <1>2, <1>3, <1>11, <2>1, <3>1, <3>3 DEF Abandons, Is
    <3>6. /\ u \in StepType /\ calls \ {c} \subseteq u.calls /\ u.tab.session = Nobody
          /\ OneActs(u.tab.acting)
          /\ \A h \in Target : /\ u.request[h].served = request[h].served
                               /\ u.request[h].pending = request[h].pending
      BY <1>4, <3>2, <3>4 DEF Gentle, OneActs
    <3>7. \A d \in {c} : /\ d.kind \in {"generate", "superseded"} => d.tab = t
                         /\ d.kind \in {"generate", "superseded"} => d.target # u.tab.session
      BY <1>2, <3>6, TargetAssumption
    <3> QED
      BY <1>2, <1>4, <3>5, <3>6, <3>7, GentleKeeps
  <2>2. CASE tabs[t].session # g
    <3>1. Becomes(t, s)
      BY <1>2, <1>3, <1>11, <2>2 DEF Abandons
    <3> QED
      BY <1>2, <1>4, <2>2, <3>1, GentleKeeps
  <2> QED
    BY <2>1, <2>2
<1> QED
  BY <1>6, <1>7, <1>8, <1>9, <1>10, <1>11

\* A tab hears of a request, or its session is over.
LEMMA TabHearsKeeps ==
    ASSUME TargetIInv, NEW t \in Tab,
           (\E g \in Target : Hears(t, g)) \/ SessionEnds(t)
    PROVE  TargetIInv'
<1>1. TargetTypeOK /\ OneActs(tabs[t].acting)
  BY DEF TargetIInv
<1>2. PICK s \in StepType : s = State(t)
  BY <1>1, TargetHand
<1>3. /\ s.tab = tabs[t] /\ s.calls = calls /\ s.request = request
      /\ UNCHANGED <<lacks, trips, goes>> /\ unheard' \subseteq Tab \X Target
  BY <1>1, <1>2, TargetHand DEF TargetTypeOK, Hears, SessionEnds
<1>4. CASE \E g \in Target : Hears(t, g)
  <2>1. PICK g \in Target : Hears(t, g)
    BY <1>4
  <2>2. PICK u : Becomes(t, u) /\ u \in {s, Sends(s, "start", t, g), Declines(s, t, g)}
    BY <1>2, <2>1 DEF Hears
  <2>3. Gentle(s, u)
    BY <2>2, GentleSteps, SendsGently, DeclinesGently DEF Kind
  <2>4. /\ u \in StepType /\ calls \ {} \subseteq u.calls
        /\ u.tab.session \in {tabs[t].session, Own, Nobody}
        /\ OneActs(u.tab.acting)
        /\ \A h \in Target : /\ u.request[h].served = request[h].served
                             /\ u.request[h].pending = request[h].pending
    BY <1>1, <1>3, <2>3 DEF Gentle, OneActs
  <2> QED
    <3>1. PICK dropped : dropped = {}
      OBVIOUS
    <3>2. calls \ dropped \subseteq u.calls
      BY <2>4, <3>1
    <3> QED
      BY <1>3, <2>2, <2>4, <3>1, <3>2, GentleKeeps
<1>5. CASE SessionEnds(t)
  <2>1. PICK x : x = [s EXCEPT !.tab.session = Nobody]
    OBVIOUS
  <2>2. /\ x \in StepType /\ x.calls = s.calls /\ x.request = s.request
        /\ x.tab.session = Nobody /\ x.tab.acting = s.tab.acting
    <3>1. PICK tab \in TabType : tab = s.tab
      BY DEF StepType
    <3>2. PICK new \in TabType : new = [tab EXCEPT !.session = Nobody]
      BY DEF TabType
    <3>3. new.session = Nobody /\ new.acting = tab.acting
      BY <3>2 DEF TabType
    <3>4. x = [s EXCEPT !.tab = new]
      BY <2>1, <3>1, <3>2 DEF StepType
    <3> QED
      BY <3>1, <3>3, <3>4 DEF StepType
  <2>3. PICK u : u = Retries(x, t)
    OBVIOUS
  <2>4. Gentle(x, u) /\ Becomes(t, u)
    BY <1>2, <1>5, <2>1, <2>2, <2>3, RetriesGently DEF SessionEnds
  <2>5. /\ u \in StepType /\ calls \ {} \subseteq u.calls
        /\ u.tab.session \in {tabs[t].session, Own, Nobody}
        /\ OneActs(u.tab.acting)
        /\ \A h \in Target : /\ u.request[h].served = request[h].served
                             /\ u.request[h].pending = request[h].pending
    BY <1>1, <1>3, <2>2, <2>4 DEF Gentle, OneActs
  <2> QED
    <3>1. PICK dropped : dropped = {}
      OBVIOUS
    <3>2. calls \ dropped \subseteq u.calls
      BY <2>5, <3>1
    <3> QED
      BY <1>3, <2>4, <2>5, <3>1, <3>2, GentleKeeps
<1> QED
  BY <1>4, <1>5

\* A tab presses Go: its event is on its way.
LEMMA PressesGoKeeps ==
    ASSUME TargetIInv, NEW c \in calls, Goes(c), UNCHANGED <<unheard, lacks, trips, goes>>
    PROVE  TargetIInv'
<1>1. /\ TargetTypeOK /\ AnsweredOnce(request) /\ KeptOrTold(tabs, calls, request)
      /\ \A x \in Tab : OneActs(tabs[x].acting)
  BY DEF TargetIInv
<1>2. PICK t \in Tab, g \in Target : t = c.tab /\ g = c.target
  BY <1>1, TargetHand
<1>3. PICK s \in StepType : s = Then(c)
  BY <1>1, TargetHand
<1>4. /\ s.tab = tabs[t] /\ s.calls = calls \ {c} /\ s.request = request /\ c.kind = "renewed"
  BY <1>1, <1>2, <1>3, TargetHand DEF Goes, Is
<1>5. PICK x : x = EndsActing([s EXCEPT !.tab.session = g], g)
  OBVIOUS
<1>6. /\ x \in StepType /\ x.calls = s.calls /\ x.request = s.request
      /\ x.tab.session = g /\ x.tab.acting \subseteq s.tab.acting
  <2>1. PICK tab \in TabType : tab = s.tab
    BY DEF StepType
  <2>2. PICK new \in TabType : new = [tab EXCEPT !.session = g]
    BY DEF TabType
  <2>3. PICK end \in TabType : end = [new EXCEPT !.acting = new.acting \ {g}, !.done = new.done \cup {g}]
    <3>1. new.acting \ {g} \in SUBSET Target /\ new.done \cup {g} \in SUBSET Target
      BY DEF TabType
    <3> QED
      BY <3>1 DEF TabType
  <2>4. end.session = g /\ end.acting \subseteq tab.acting
    BY <2>2, <2>3 DEF TabType
  <2>5. [s EXCEPT !.tab.session = g] = [s EXCEPT !.tab = new]
    BY <2>1, <2>2 DEF StepType
  <2>6. x = [s EXCEPT !.tab = end]
    <3>1. PICK z \in StepType : z = [s EXCEPT !.tab = new]
      BY DEF StepType
    <3>2. z.tab = new
      BY <3>1 DEF StepType
    <3>3. x = [z EXCEPT !.tab.acting = @ \ {g}, !.tab.done = @ \cup {g}]
      BY <1>5, <2>5, <3>1 DEF EndsActing
    <3>4. x = [z EXCEPT !.tab = end]
      BY <2>3, <3>2, <3>3 DEF StepType
    <3> QED
      BY <3>1, <3>4 DEF StepType
  <2> QED
    BY <2>1, <2>4, <2>6 DEF StepType
<1>7. PICK y : y = Sends(x, "generate", t, g)
  OBVIOUS
<1>8. PICK u : u = Sends(y, "result", t, g)
  OBVIOUS
<1>9. Gentle(x, y) /\ y \in StepType
  <2>1. Gentle(x, y)
    BY <1>6, <1>7, SendsGently DEF Kind
  <2> QED
    BY <2>1 DEF Gentle
<1>10. Gentle(y, u)
  BY <1>8, <1>9, SendsGently DEF Kind
<1>11. Call("generate", t, g) \in y.calls
  BY <1>6, <1>7 DEF Sends, StepType
<1>12. /\ u \in StepType /\ calls \ {c} \subseteq u.calls /\ Call("generate", t, g) \in u.calls
       /\ u.tab.session = g /\ u.tab.acting \subseteq tabs[t].acting
       /\ \A h \in Target : /\ u.request[h].served = request[h].served
                            /\ u.request[h].pending = request[h].pending
  BY <1>4, <1>6, <1>9, <1>10, <1>11 DEF Gentle
<1>13. Becomes(t, u)
  BY <1>2, <1>3, <1>5, <1>7, <1>8 DEF Goes
<1>14. /\ TargetTypeOK' /\ tabs'[t] = u.tab /\ calls' = u.calls /\ request' = u.request
       /\ \A k \in Tab : k # t => tabs'[k] = tabs[k]
  BY <1>1, <1>12, <1>13, BecomesTyped DEF TargetTypeOK
<1>15. AnsweredOnce(request') /\ \A k \in Tab : OneActs(tabs'[k].acting)
  BY <1>1, <1>12, <1>14 DEF AnsweredOnce, OneActs
<1>16. KeptOrTold(tabs', calls', request')
  <2> SUFFICES ASSUME NEW k \in Tab, NEW h \in Target, tabs'[k].session = h
               PROVE  \/ request'[h].served = k
                      \/ Call("generate", k, h) \in calls' \/ Call("superseded", k, h) \in calls'
    BY DEF KeptOrTold
  <2>1. CASE k = t
    BY <1>12, <1>14, <2>1
  <2>2. CASE k # t
    <3>1. \/ request[h].served = k
          \/ Call("generate", k, h) \in calls \/ Call("superseded", k, h) \in calls
      BY <1>1, <1>14, <2>2 DEF KeptOrTold
    <3>2. Call("generate", k, h) # c /\ Call("superseded", k, h) # c
      BY <1>4 DEF Call
    <3> QED
      BY <1>12, <1>14, <3>1, <3>2
  <2> QED
    BY <2>1, <2>2
<1> QED
  BY <1>14, <1>15, <1>16 DEF TargetIInv

\* The helper hears that a tab cannot serve a request.
LEMMA WordKeeps ==
    ASSUME TargetIInv, NEW c \in calls, WordArrives(c), UNCHANGED <<unheard, lacks, trips, goes>>
    PROVE  TargetIInv'
<1>1. TargetTypeOK /\ \A x \in Tab : OneActs(tabs[x].acting)
  BY DEF TargetIInv
<1>2. PICK t \in Tab, g \in Target : t = c.tab /\ g = c.target
  BY <1>1, TargetHand
<1>3. PICK s \in StepType : s = Then(c)
  BY <1>1, TargetHand
<1>4. /\ s.tab = tabs[t] /\ s.calls = calls \ {c} /\ s.request = request
      /\ c.kind \in {"busy", "missing"} /\ unheard' \subseteq Tab \X Target
  BY <1>1, <1>2, <1>3, TargetHand DEF WordArrives, Is, TargetTypeOK
<1>5. PICK x : x = [s EXCEPT !.request[g].words = @ \cup {t},
                             !.request[g].lease = IF @ = t THEN Nobody ELSE @]
  OBVIOUS
<1>6. Gentle(s, x)
  <2>1. PICK rq \in [Target -> RequestType] : rq = s.request
    BY DEF StepType
  <2>2. PICK r \in RequestType : r = rq[g]
    BY <2>1
  <2>3. PICK lease \in Tab \cup {Nobody, "gone"} : lease = IF r.lease = t THEN Nobody ELSE r.lease
    BY DEF RequestType
  <2>4. PICK words \in SUBSET Tab : words = r.words \cup {t}
    BY DEF RequestType
  <2>5. PICK q : q = [r EXCEPT !.words = words, !.lease = lease]
    OBVIOUS
  <2>6. q \in RequestType /\ q.served = r.served /\ q.pending = r.pending
    BY <2>5 DEF RequestType
  <2>7. PICK rq2 \in [Target -> RequestType] : rq2 = [rq EXCEPT ![g] = q]
    BY <2>6
  <2>8. x = [s EXCEPT !.request = rq2]
    BY <1>5, <2>1, <2>2, <2>3, <2>4, <2>5, <2>7 DEF StepType
  <2>9. \A h \in Target : rq2[h].served = rq[h].served /\ rq2[h].pending = rq[h].pending
    BY <2>2, <2>6, <2>7
  <2>10. Gentle(s, [s EXCEPT !.request = rq2])
    BY <2>1, <2>9 DEF Gentle, StepType
  <2> QED
    BY <2>8, <2>10
<1>7. PICK u : Becomes(t, u) /\ u \in {x, Sends(x, "watch", t, g)}
  BY <1>2, <1>3, <1>5 DEF WordArrives
<1>8. Gentle(s, u)
  <2>1. x \in StepType /\ "watch" \in Kind
    BY <1>6 DEF Gentle, Kind
  <2>2. Gentle(x, Sends(x, "watch", t, g))
    BY <2>1, SendsGently
  <2> QED
    BY <1>6, <1>7, <2>2, GentleSteps
<1>9. /\ u \in StepType /\ calls \ {c} \subseteq u.calls /\ u.tab.session = tabs[t].session
      /\ OneActs(u.tab.acting)
      /\ \A h \in Target : /\ u.request[h].served = request[h].served
                           /\ u.request[h].pending = request[h].pending
  BY <1>1, <1>4, <1>8 DEF Gentle, OneActs
<1> QED
  BY <1>4, <1>7, <1>9, GentleKeeps

\* The helper hears of a Go: it is the answer, or the tab will hear that it is late.
LEMMA GoArrivesKeeps ==
    ASSUME TargetIInv, NEW c \in calls, GoArrives(c), UNCHANGED <<unheard, lacks, trips, goes>>
    PROVE  TargetIInv'
<1>1. /\ TargetTypeOK /\ AnsweredOnce(request) /\ KeptOrTold(tabs, calls, request)
      /\ \A x \in Tab : OneActs(tabs[x].acting)
  BY DEF TargetIInv
<1>2. PICK t \in Tab, g \in Target : t = c.tab /\ g = c.target
  BY <1>1, TargetHand
<1>3. PICK s \in StepType : s = Then(c)
  BY <1>1, TargetHand
<1>4. /\ s.tab = tabs[t] /\ s.calls = calls \ {c} /\ s.request = request
      /\ c.kind \in {"generate", "result"}
  BY <1>1, <1>2, <1>3, TargetHand DEF GoArrives, Is
<1>5. PICK rq \in [Target -> RequestType] : rq = request
  BY <1>1 DEF TargetTypeOK
<1>6. PICK r \in RequestType : r = rq[g]
  BY <1>5
<1>7. PICK served \in Tab \cup {Nobody, "verdict"} : served = IF r.pending THEN t ELSE r.served
  BY DEF RequestType
<1>8. PICK b \in BOOLEAN : b = FALSE
  OBVIOUS
<1>9. PICK q : q = [r EXCEPT !.pending = b, !.served = served]
  OBVIOUS
<1>10. q \in RequestType /\ q.served = served /\ q.pending = b
  BY <1>9 DEF RequestType
<1>11. PICK rq2 \in [Target -> RequestType] : rq2 = [rq EXCEPT ![g] = q]
  BY <1>10
<1>12. PICK x : x = [s EXCEPT !.request = rq2]
  OBVIOUS
<1>13. x \in StepType /\ x.tab = tabs[t] /\ x.calls = calls \ {c} /\ x.request = rq2
  BY <1>4, <1>12 DEF StepType
<1>14. x = [s EXCEPT !.request[g].pending = FALSE,
                     !.request[g].served = IF r.pending THEN t ELSE @]
  BY <1>4, <1>5, <1>6, <1>7, <1>8, <1>9, <1>11, <1>12 DEF StepType
<1>15. PICK u : /\ Becomes(t, u)
                /\ u = IF c.kind = "generate" /\ ~r.pending /\ r.served # t
                       THEN Sends(x, "superseded", t, g) ELSE x
  BY <1>2, <1>3, <1>5, <1>6, <1>14 DEF GoArrives
<1>16. Gentle(x, u)
  BY <1>13, <1>15, SendsGently, GentleSteps DEF Kind
<1>17. /\ u \in StepType /\ calls \ {c} \subseteq u.calls /\ u.tab.session = tabs[t].session
       /\ u.tab.acting \subseteq tabs[t].acting
       /\ \A h \in Target : u.request[h].served = rq2[h].served /\ u.request[h].pending = rq2[h].pending
  BY <1>13, <1>16 DEF Gentle
<1>18. /\ TargetTypeOK' /\ tabs'[t] = u.tab /\ calls' = u.calls /\ request' = u.request
       /\ \A k \in Tab : k # t => tabs'[k] = tabs[k]
  BY <1>1, <1>15, <1>17, BecomesTyped DEF TargetTypeOK
<1>19. /\ rq2[g].served = served /\ ~rq2[g].pending
       /\ \A h \in Target : h # g => rq2[h] = rq[h]
  BY <1>8, <1>10, <1>11
<1>20. AnsweredOnce(request') /\ \A k \in Tab : OneActs(tabs'[k].acting)
  BY <1>1, <1>5, <1>17, <1>18, <1>19 DEF AnsweredOnce, OneActs
<1>21. KeptOrTold(tabs', calls', request')
  <2> SUFFICES ASSUME NEW k \in Tab, NEW h \in Target, tabs'[k].session = h
               PROVE  \/ request'[h].served = k
                      \/ Call("generate", k, h) \in calls' \/ Call("superseded", k, h) \in calls'
    BY DEF KeptOrTold
  <2>1. \/ request[h].served = k
        \/ Call("generate", k, h) \in calls \/ Call("superseded", k, h) \in calls
    BY <1>1, <1>17, <1>18 DEF KeptOrTold
  <2>2. CASE request[h].served = k
    <3>1. request[h].served # Nobody
      BY <2>2, TargetAssumption
    <3>2. ~request[h].pending
      BY <1>1, <3>1 DEF AnsweredOnce
    <3>3. rq2[h].served = k
      BY <1>5, <1>6, <1>7, <1>19, <2>2, <3>2
    <3> QED
      BY <1>17, <1>18, <3>3
  <2>3. CASE \E d \in {Call("generate", k, h), Call("superseded", k, h)} : d \in calls /\ d # c
    BY <1>17, <1>18, <2>3
  <2>4. CASE c \in {Call("generate", k, h), Call("superseded", k, h)}
    <3>1. c.kind = "generate" /\ k = t /\ h = g
      BY <1>2, <1>4, <2>4 DEF Call
    <3>2. CASE r.pending \/ r.served = t
      BY <1>7, <1>17, <1>18, <1>19, <3>1, <3>2
    <3>3. CASE ~(r.pending \/ r.served = t)
      <4>1. u = Sends(x, "superseded", t, g)
        BY <1>15, <3>1, <3>3
      <4>2. Call("superseded", t, g) \in u.calls
        BY <1>13, <4>1 DEF Sends, StepType
      <4> QED
        BY <1>18, <3>1, <4>2
    <3> QED
      BY <3>2, <3>3
  <2> QED
    BY <2>1, <2>2, <2>3, <2>4
<1> QED
  BY <1>18, <1>20, <1>21 DEF TargetIInv

\* What the tabs and requests remain when only those parts of them change that no
\* session depends on.
LEMMA AroundKeeps ==
    ASSUME TargetIInv, tabs' \in [Tab -> TabType], request' \in [Target -> RequestType],
           calls' \subseteq calls, unheard' \subseteq Tab \X Target, lacks' \subseteq Tab \X Target,
           trips' \in 0 .. MaxTrips, goes' \in 0 .. MaxGoes,
           \A t \in Tab : /\ tabs'[t].session \in {tabs[t].session, Own}
                          /\ tabs'[t].acting \subseteq tabs[t].acting,
           \A g \in Target : \/ /\ request'[g].served = request[g].served
                                /\ request'[g].pending = request[g].pending
                             \/ request[g].pending /\ ~request'[g].pending,
           \A c \in calls : c.kind \in {"generate", "superseded"} => c \in calls'
    PROVE  TargetIInv'
<1>1. /\ TargetTypeOK /\ AnsweredOnce(request) /\ \A t \in Tab : OneActs(tabs[t].acting)
  BY DEF TargetIInv
<1>2. TargetTypeOK'
  BY <1>1 DEF TargetTypeOK
<1>3. AnsweredOnce(request')
  BY <1>1 DEF AnsweredOnce
<1>4. \A t \in Tab : OneActs(tabs'[t].acting)
  BY <1>1 DEF OneActs
<1>5. \A t \in Tab, g \in Target : tabs'[t].session = g => tabs[t].session = g
  BY TargetAssumption
<1>6. \A g \in Target : request[g].served # Nobody => request'[g].served = request[g].served
  BY <1>1 DEF AnsweredOnce
<1> QED
  BY <1>2, <1>3, <1>4, <1>5, <1>6, NobodyBegins

\* The user, the helper, and trouble.
LEMMA OthersKeep ==
    ASSUME TargetIInv,
           \/ \E t \in Tab : UserGoes(t) \/ StreamCloses(t) \/ StreamOpens(t) \/ Reloads(t)
           \/ \E g \in Target : LeaseLapses(g) \/ RollCall(g) \/ TimesOut(g)
           \/ \E t \in Tab, g \in Target : ElementComesOrGoes(t, g)
           \/ UNCHANGED targetVars
    PROVE  TargetIInv'
<1>1. /\ tabs \in [Tab -> TabType] /\ request \in [Target -> RequestType]
      /\ unheard \subseteq Tab \X Target /\ lacks \subseteq Tab \X Target
      /\ trips \in 0 .. MaxTrips /\ goes \in 0 .. MaxGoes
  BY DEF TargetIInv, TargetTypeOK
<1>2. Trip => trips' \in 0 .. MaxTrips
  BY <1>1, TargetAssumption DEF Trip
<1>3. CASE \E t \in Tab : UserGoes(t) \/ StreamOpens(t)
  <2>1. PICK t \in Tab : UserGoes(t) \/ StreamOpens(t)
    BY <1>3
  <2>2. PICK tab \in TabType : tab = tabs[t]
    BY <1>1
  <2>3. PICK b \in BOOLEAN : b = TRUE
    OBVIOUS
  <2>4. PICK x \in TabType : x = [tab EXCEPT !.session = Own]
    BY DEF TabType
  <2>5. PICK y \in TabType : y = [tab EXCEPT !.open = b]
    BY DEF TabType
  <2>6. /\ x.session = Own /\ x.acting = tab.acting
        /\ y.session = tab.session /\ y.acting = tab.acting
    BY <2>4, <2>5 DEF TabType
  <2>7. PICK z \in {x, y} : tabs' = [tabs EXCEPT ![t] = z]
    BY <1>1, <2>1, <2>2, <2>3, <2>4, <2>5 DEF UserGoes, StreamOpens
  <2>8. tabs' \in [Tab -> TabType]
    BY <1>1, <2>7
  <2>9. \A k \in Tab : /\ tabs'[k].session \in {tabs[k].session, Own}
                       /\ tabs'[k].acting \subseteq tabs[k].acting
    BY <1>1, <2>2, <2>6, <2>7
  <2>10. goes' \in 0 .. MaxGoes /\ unheard' \subseteq Tab \X Target
    BY <1>1, <2>1, TargetAssumption DEF UserGoes, StreamOpens
  <2>11. UNCHANGED <<calls, request, lacks, trips>>
    BY <2>1 DEF UserGoes, StreamOpens
  <2> QED
    BY <1>1, <2>8, <2>9, <2>10, <2>11, AroundKeeps
<1>4. CASE \E t \in Tab : StreamCloses(t) \/ Reloads(t)
  <2>1. PICK t \in Tab : StreamCloses(t) \/ Reloads(t)
    BY <1>4
  <2>2. PICK tab \in TabType : tab = tabs[t]
    BY <1>1
  <2>3. PICK b \in BOOLEAN : b = FALSE
    OBVIOUS
  <2>4. PICK x \in TabType : x = [tab EXCEPT !.open = b]
    BY DEF TabType
  <2>5. PICK y \in TabType : /\ y = [Fresh EXCEPT !.open = b, !.session = tab.session]
                             /\ y.session = tab.session /\ y.acting = {}
    <3>0. Fresh \in TabType /\ Fresh.acting = {}
      BY DEF Fresh, TabType
    <3>1. PICK fresh \in TabType : fresh = Fresh /\ fresh.acting = {}
      BY <3>0
    <3>2. PICK new \in TabType : new = [fresh EXCEPT !.open = b, !.session = tab.session]
      BY DEF TabType
    <3>3. new.session = tab.session /\ new.acting = {}
      BY <3>1, <3>2 DEF TabType
    <3> QED
      BY <3>1, <3>2, <3>3
  <2>6. y = [Fresh EXCEPT !.open = FALSE, !.session = tabs[t].session]
    BY <2>2, <2>3, <2>5
  <2>7. /\ x.session = tab.session /\ x.acting = tab.acting
        /\ y.session = tab.session /\ y.acting = {}
    BY <2>4, <2>5 DEF TabType
  <2>8. PICK z \in {x, y} : tabs' = [tabs EXCEPT ![t] = z]
    BY <1>1, <2>1, <2>2, <2>3, <2>4, <2>6 DEF StreamCloses, Reloads
  <2>9. tabs' \in [Tab -> TabType]
    BY <1>1, <2>8
  <2>10. \A k \in Tab : /\ tabs'[k].session \in {tabs[k].session, Own}
                        /\ tabs'[k].acting \subseteq tabs[k].acting
    BY <1>1, <2>2, <2>7, <2>8
  <2>11. ASSUME NEW g \in Target
         PROVE  /\ request'[g] \in RequestType /\ request'[g].served = request[g].served
                /\ request'[g].pending = request[g].pending
    <3>1. PICK r \in RequestType : r = request[g]
      BY <1>1
    <3>2. PICK words \in SUBSET Tab : words = r.words \ {t}
      BY DEF RequestType
    <3>3. PICK lease \in Tab \cup {Nobody, "gone"} : lease = IF r.lease = t THEN "gone" ELSE r.lease
      BY DEF RequestType
    <3>4. \/ request'[g] = [r EXCEPT !.words = words]
          \/ request'[g] = [r EXCEPT !.words = words, !.lease = lease]
      BY <2>1, <3>1, <3>2, <3>3 DEF StreamCloses, Reloads
    <3> QED
      BY <3>1, <3>4 DEF RequestType
  <2>12. request' \in [Target -> RequestType]
    <3>1. \E f : request' = [g \in Target |-> f[g]]
      <4>1. CASE StreamCloses(t)
        <5>1. PICK f : f = [g \in Target |-> [request[g] EXCEPT !.words = @ \ {t}]]
          OBVIOUS
        <5>2. request' = f /\ f = [g \in Target |-> f[g]]
          BY <4>1, <5>1 DEF StreamCloses
        <5> QED
          BY <5>2
      <4>2. CASE Reloads(t)
        <5>1. PICK f : f = [g \in Target |-> [request[g] EXCEPT !.words = @ \ {t},
                                                     !.lease = IF @ = t THEN "gone" ELSE @]]
          OBVIOUS
        <5>2. request' = f /\ f = [g \in Target |-> f[g]]
          BY <4>2, <5>1 DEF Reloads
        <5> QED
          BY <5>2
      <4> QED
        BY <2>1, <4>1, <4>2
    <3> QED
      BY <2>11, <3>1
  <2>13. /\ calls' \subseteq calls
         /\ \A c \in calls : c.kind \in {"generate", "superseded"} => c \in calls'
    BY <2>1 DEF StreamCloses, Reloads
  <2>14. /\ unheard' \subseteq Tab \X Target /\ UNCHANGED <<lacks, goes>> /\ trips' \in 0 .. MaxTrips
    BY <1>1, <1>2, <2>1 DEF StreamCloses, Reloads
  <2> QED
    BY <1>1, <2>9, <2>10, <2>11, <2>12, <2>13, <2>14, AroundKeeps
<1>5. CASE \E g \in Target : LeaseLapses(g) \/ Answers(g)
  <2>1. PICK g \in Target : LeaseLapses(g) \/ Answers(g)
    BY <1>5
  <2>2. PICK r \in RequestType : r = request[g]
    BY <1>1
  <2>3. PICK b \in BOOLEAN : b = FALSE
    OBVIOUS
  <2>4. PICK x \in RequestType : x = [r EXCEPT !.lease = Nobody]
    BY DEF RequestType
  <2>5. PICK y \in RequestType : y = [r EXCEPT !.pending = b, !.served = "verdict"]
    BY DEF RequestType
  <2>6. x.served = r.served /\ x.pending = r.pending /\ y.pending = FALSE
    BY <2>3, <2>4, <2>5 DEF RequestType
  <2>7. PICK z : /\ request' = [request EXCEPT ![g] = z]
                 /\ z = x \/ (z = y /\ r.pending)
    BY <1>1, <2>1, <2>2, <2>3, <2>4, <2>5 DEF LeaseLapses, Answers
  <2>8. request' \in [Target -> RequestType]
    BY <1>1, <2>7
  <2>9. \A h \in Target : \/ /\ request'[h].served = request[h].served
                             /\ request'[h].pending = request[h].pending
                          \/ request[h].pending /\ ~request'[h].pending
    BY <1>1, <2>2, <2>6, <2>7
  <2>10. UNCHANGED <<tabs, calls, unheard, lacks, trips, goes>>
    BY <2>1 DEF LeaseLapses, Answers
  <2> QED
    BY <1>1, <2>8, <2>9, <2>10, AroundKeeps
<1>6. CASE \E t \in Tab, g \in Target : ElementComesOrGoes(t, g)
  <2>1. /\ lacks' \subseteq Tab \X Target /\ trips' \in 0 .. MaxTrips
        /\ UNCHANGED <<tabs, request, calls, unheard, goes>>
    BY <1>1, <1>2, <1>6 DEF ElementComesOrGoes
  <2> QED
    BY <1>1, <2>1, AroundKeeps
<1>7. CASE UNCHANGED targetVars
  <2>1. UNCHANGED <<tabs, request, calls, unheard, lacks, trips, goes>>
    BY <1>7 DEF targetVars
  <2> QED
    BY <1>1, <2>1, AroundKeeps
<1> QED
  BY <1>3, <1>4, <1>5, <1>6, <1>7 DEF RollCall, TimesOut

\* However claims, lapses, late answers, lost streams and reloads interleave: a
\* request that was answered is not answered again, and a tab with a session for
\* it either gave the answer or has word under way that it did not.
THEOREM TargetInvariant == TargetSpec => []TargetIInv
<1>1. TargetInit => TargetIInv
  BY TargetsStart
<1>2. TargetIInv /\ [TargetNext]_targetVars => TargetIInv'
  <2> SUFFICES ASSUME TargetIInv, [TargetNext]_targetVars
               PROVE  TargetIInv'
    OBVIOUS
  <2>1. CASE \E c \in calls : PageHandles(c)
    BY <2>1, TabMovesKeep, PressesGoKeeps DEF PageHandles
  <2>2. CASE \E c \in calls : HelperHandles(c)
    BY <2>2, WordKeeps, GoArrivesKeeps DEF HelperHandles
  <2>3. CASE \E t \in Tab : SessionEnds(t) \/ \E g \in Target : Hears(t, g)
    BY <2>3, TabHearsKeeps
  <2>4. CASE \/ \E t \in Tab : UserGoes(t) \/ StreamCloses(t) \/ StreamOpens(t) \/ Reloads(t)
             \/ \E g \in Target : LeaseLapses(g) \/ RollCall(g) \/ TimesOut(g)
             \/ \E t \in Tab, g \in Target : ElementComesOrGoes(t, g)
             \/ UNCHANGED targetVars
    BY <2>4, OthersKeep
  <2> QED
    BY <2>1, <2>2, <2>3, <2>4 DEF TargetNext
<1> QED
  BY <1>1, <1>2, PTL DEF TargetSpec

\* A tab acts on one request at a time, and two tabs never keep one request, for
\* any number of tabs, requests and mishaps.
THEOREM TabsStayApart == TargetSpec => []TabsAgreeOnTargets
<1>1. TargetIInv => TabsAgreeOnTargets
  <2> SUFFICES ASSUME TargetIInv PROVE TabsAgreeOnTargets
    OBVIOUS
  <2>1. OneTabKeepsTheTarget
    BY DEF TargetIInv, KeptOrTold, OneTabKeepsTheTarget
  <2>2. ASSUME NEW t \in Tab
        PROVE  Cardinality(tabs[t].acting) <= 1
    <3>1. OneActs(tabs[t].acting)
      BY DEF TargetIInv
    <3>2. CASE tabs[t].acting = {}
      <4>1. Cardinality({}) = 0
        BY FS_EmptySet
      <4> QED
        BY <3>2, <4>1
    <3>3. CASE tabs[t].acting # {}
      <4>1. PICK g : g \in tabs[t].acting
        BY <3>3
      <4>2. tabs[t].acting = {g}
        BY <3>1, <4>1 DEF OneActs
      <4>3. Cardinality({g}) = 1
        BY FS_Singleton
      <4> QED
        BY <4>2, <4>3
    <3> QED
      BY <3>2, <3>3
  <2> QED
    BY <2>1, <2>2 DEF TabsAgreeOnTargets
<1> QED
  BY <1>1, TargetInvariant, PTL
=============================================================================

\* One transcript list, request, edit, draft, conversation or library at a time.
SPECIFICATION Spec
CONSTANTS
  Transcript = {1, 2}
  MaxOpens = 3
  MaxRuns = 2
  Tab = {"a", "b"}
  Target = {"g", "h"}
  MaxTrips = 1
  MaxGoes = 1
  Row = {"r"}
  MaxTypings = 1
  MaxTroubles = 1
  MaxEvents = 1
  MaxWires = 2
  Draft = {1}
  Wanted = 2
  Slots = 2
  MaxNews = 1
  MaxWrappers = 2
  MaxMishaps = 1
  MaxSteers = 2
  MaxHeard = 1
  Recording = {"r", "s"}
  Query = {"p"}
  MaxLoads = 2
  MaxSearches = 2
INVARIANTS
  NothingForeignIsShown
  ButtonsComeBack
  TabsAgreeOnTargets
  NothingTypedIsLeft
  FreezeHasAReason
  WaitingHasAReason
  ChatAgrees
  LibraryIsShown
CHECK_DEADLOCK FALSE

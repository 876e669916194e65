SPECIFICATION FairSpec
CONSTANTS
  Command = {c1, c2}
  Session = {s1, s2}
  NoSession = NoSession
  Free = Free
  Other = Other
INVARIANT
  NothingIsLeftBehind
PROPERTIES
  OnlyForceHitsStrangers
  OthersMappingIsSpared
  CompleteIsRecovered

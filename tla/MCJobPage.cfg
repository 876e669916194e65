\* One job of up to four states.
SPECIFICATION JobSpec
CONSTANTS Job = {"j1"}
          MaxStates = 4
          MaxRequests = 1
          MaxFaults = 1
PROPERTIES RowsNeverGoBack FinishedIsShown
CHECK_DEADLOCK FALSE

SPECIFICATION Spec
CONSTANTS
  MaxTask = 4
  Root = 0
  RoutedTask = {}
  Deps <- AuthoredDeps
  Conflicts <- AuthoredConflicts
  File = {"f"}
  Writes <- NoWrites
  MaxSeats = 2
  Caps = {}
  FirstCap = 2
  Command = {"author", "stop", "retry"}
  NoSeat = NoSeat
PROPERTIES RunningEnds DeferredRun BlockedHasCause

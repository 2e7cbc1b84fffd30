SPECIFICATION Spec
CONSTANTS
  MaxTask = 3
  Root = 1
  RoutedTask = {2}
  Deps <- RoutedDeps
  Conflicts <- RoutedConflicts
  File = {"f"}
  Writes <- SharedWrites
  MaxSeats = 2
  Caps = {1}
  FirstCap = 2
  Command = {"route", "author", "remove", "retry", "reset_task", "reset", "stop", "site_map", "tab"}
  NoSeat = NoSeat
INVARIANTS TypeOK RunningIsWatched SeatPerWorker AcceptedDisjoint

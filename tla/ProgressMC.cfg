\* Two fetch goroutines, six things to tell, three columns.
SPECIFICATION LineSpec
CONSTANTS
  Worker = {w1, w2}
  MaxWidth = 3
  MaxWork = 6
  Main = Main
  Rotor = Rotor
  Nobody = Nobody
INVARIANTS RowIsClean
PROPERTIES ClearReturns
\* The scan goes on to its report.
CHECK_DEADLOCK FALSE

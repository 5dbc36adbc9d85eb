SPECIFICATION Spec
CONSTANTS
  Servers = {s1}
  Runs = {a, b, c}
  Reports = {r1, r2}
  Cli = Cli
  NoRun = NoRun
  MaxWorkers = 2
  MaxStops = 1
  MaxOutages = 1
SYMMETRY Symmetry
INVARIANT OneRunPerReport
INVARIANT ClaimsAreExclusive
INVARIANT NoReportStaysBlocked
INVARIANT ReturnedRunsAreRecorded
PROPERTY RefusedByAnotherProcess
PROPERTY MarkedRunsAreOver
PROPERTY TerminalIsFinal
CHECK_DEADLOCK FALSE

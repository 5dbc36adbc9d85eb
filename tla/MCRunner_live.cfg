SPECIFICATION FairSpec
CONSTANTS
  Servers = {s1}
  Runs = {a, b}
  Reports = {r1, r2}
  Cli = Cli
  NoRun = NoRun
  MaxWorkers = 1
  MaxStops = 2
  MaxOutages = 0
PROPERTY RunsGetOver
PROPERTY NothingStaysRunning
CHECK_DEADLOCK FALSE

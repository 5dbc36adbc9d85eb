SPECIFICATION FairSpec
CONSTANTS
  h1 = h1
  h2 = h2
  r1 = r1
  r2 = r2
  daily = daily
  weekly = weekly
  Reports = {r1, r2}
  Crons = {daily, weekly}
  Handlers = {h1}
  Timer = Timer
  NoJob = NoJob
  Nobody = Nobody
  Outsiders <- AnyOutsiders
  MaxWrites = 2
INVARIANT AnsweredMeansScheduled
PROPERTY DecodableEditsTakeEffect

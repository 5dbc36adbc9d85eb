SPECIFICATION FairSpec
CONSTANTS
  s = s
  sh = sh
  a = a
  b = b
  x = x
  y = y
  z = z
  Editors = {a, b}
  Processes = {s, sh}
  Homes <- AnyHomes
  Servers = {s}
  Texts = {x, y, z}
  Bundled = x
  NoFile = NoFile
  Nobody = Nobody
  MaxHistory = 1
  MaxEdits = 3
  MaxStarts = 2
  SeedErrors = {TRUE, FALSE}
PROPERTY NoLostUpdate
PROPERTY SavedMeansStored
PROPERTY NothingIsDestroyed
PROPERTY ArchivedIsNotReseeded
PROPERTY RequestsEnd
CHECK_DEADLOCK FALSE

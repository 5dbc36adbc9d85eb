SPECIFICATION Spec
CONSTANTS
  s = s
  sh = sh
  a = a
  b = b
  x = x
  y = y
  z = z
  Editors = {a, b}
  Processes = {s, sh}
  Homes <- OneHome
  Servers = {s}
  Texts = {x, y}
  Bundled = x
  NoFile = NoFile
  Nobody = Nobody
  MaxHistory = 2
  MaxEdits = 2
  MaxStarts = 1
  SeedErrors = {FALSE}
PROPERTY CheckedWhenWritten
CHECK_DEADLOCK FALSE

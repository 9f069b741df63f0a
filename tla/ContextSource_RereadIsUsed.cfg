SPECIFICATION Spec
CONSTANTS
  a = a
  b = b
  wps = wps
  other = other
  None = None
  Word = {a, b}
  Window = {wps, other}
  Office = {wps}
  Untitled = {}
  HistMax = 3
  TailMax = 1
  TextMax = 1
  MaxCommit = 4
  MaxReset = 1
  MaxClick = 1
PROPERTY RereadIsUsed

SPECIFICATION Spec
CONSTANTS
  a = a
  b = b
  f1 = f1
  f2 = f2
  Text = {Empty, a, b}
  Empty = Empty
  Flusher = {f1}
  NormalDelay = 1
  EmptyDelay = 2
  EditResetDelay = 1
  RecollectDelay = 1
  FocusThrottle = 1
  SeqModulus = 3
  MaxReset = 0
  MaxFailure = 0
INVARIANT RestingServerHoldsCaretText

SPECIFICATION Spec
CONSTANTS
    a = a
    b = b
    d = d
    Alphabet <- MCAlphabet
    Keys <- MCKeys
    Lengths <- MCLengths
    Editors <- MCEditors
    MaxInput = 3
INVARIANT Tiled
INVARIANT ShownIsTyped
INVARIANT CommittedInFull
INVARIANT UndoRestores
PROPERTY ChoicesKept
INVARIANT TypingConserves

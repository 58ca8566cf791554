CONSTANTS
  Users = {a, b}
  None = None
  MaxTime = 2
  MaxSends = 4
SYMMETRY Symmetry
SPECIFICATION Spec
INVARIANTS SentInOrder StrayIsAttachment OwnName

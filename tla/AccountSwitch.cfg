CONSTANTS
  Accounts = {a, b}
  Nobody = Nobody
  Pages = {p1, p2}
  Presses = {k}
SYMMETRY Symmetry
SPECIFICATION Spec
INVARIANTS ShownIsOwn SameUser RequestIsOwn

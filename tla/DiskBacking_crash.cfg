SPECIFICATION Spec
CONSTANTS
  Piece = {p1, p2}
  Hasher = {h1, h2}
  Attacher = {a1, a2}
  Teardown = Teardown
  Backing = {b1, b2}
  None = None
SYMMETRY Symmetry
VIEW View
INVARIANTS NoHandleLeaks BitIsGoodUntilDrop KeptIsOnDisk

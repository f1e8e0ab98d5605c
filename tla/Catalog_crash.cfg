SPECIFICATION Spec
CONSTANTS
  Hash = {h1, h2}
  Writer = {w1, w2}
  Inode = {i1, i2, i3}
  Modes = {""}
  Pins = {FALSE}
  None = None
SYMMETRY Symmetry
VIEW View
INVARIANT QuietIsDurable
PROPERTY CrashKeepsSaved

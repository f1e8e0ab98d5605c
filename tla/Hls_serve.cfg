SPECIFICATION LiveSpec
CONSTANTS
  f1 = f1
  f2 = f2
  Req = {r1, r2}
  File = {f1, f2}
  Ext = x
  Track = {f1, f2, x}
  Copied = {x}
  Length = 3
  KeyPos = {0, 1}
  MaxTranscoders = 1
  Tc = {t1, t2}
  Artifact <- Artifacts
  Cut <- Cuts
  MaxBytes = 2
  Scenarios <- Mixes
  None = None
INVARIANTS CacheExact ServedFitsPlaylist SliceIsContiguous CountIsNotHigh
PROPERTIES EveryRequestReturns
CHECK_DEADLOCK FALSE

SPECIFICATION Spec
CONSTANTS
  Hash = {h1}
  Session = {s1}
  Request = {q1, q2}
  Teardown = {g1, g2}
  None = None
  SessionTTL = 1
  TorrentGrace = 1
  MaxStreams = 1
  MaxAdds = 2
  Ops = {"add", "timeout", "download", "delete", "save", "pin", "restart"}
SYMMETRY Symmetry
INVARIANTS OneTeardown ResolvedHasCache

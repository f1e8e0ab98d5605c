SPECIFICATION LiveSpec
CONSTANTS
  Hash = {h1, h2}
  Session = {s1}
  Request = {q1}
  Teardown = {g1}
  None = None
  SessionTTL = 0
  TorrentGrace = 0
  MaxStreams = 1
  MaxAdds = 2
  Ops = {"play", "add"}
INVARIANTS WatchedIsSpared
PROPERTIES AbandonedIsDropped

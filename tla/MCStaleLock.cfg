SPECIFICATION FairLockSpec
CONSTANTS
  Processes = {p1, p2}
  Nobody = Nobody
  Dirs = {d1}
  Start = d1
  Here = Here
  Gone = Gone
  Locks = {l1, l2}
PROPERTY StaleTaken

\* Two watchers of one run, snapshots in one message or two chunks, small inboxes.
SPECIFICATION FairSpec
CONSTANTS
  Subs = {s1, s2}
  Capacity = 1
  InboxSize = 2
  Sizes = {0, 2}
  MaxSnapshots = 2
  None = None
\* After the run and its streams have ended nothing is left to do.
CHECK_DEADLOCK FALSE
INVARIANTS
  NoClosedChannelIsUsed
  SnapshotsAreWhole
PROPERTIES
  StreamsEnd

SPECIFICATION Spec
CONSTANTS
  Heads <- MCHeads
  Entries <- MCEntries
  NULL = NULL
INVARIANTS
  RingsMatch
  NoStalePointer
  TestsAgree
  WalkOnTrack

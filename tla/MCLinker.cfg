\* Pages of four cells; executables at 8 below an end of memory at 48.
SPECIFICATION LinkSpec
CONSTANTS
  Input <- MCInput
  Alignment <- MCAlignment
  Page = 4
  Base = 8
  Entry = "start"
  Limit = 60
  Reach = 14
INVARIANTS
  LinkTypeOK
  ContributionsDisjoint
  ContributionsAligned
  RelocationsHold
  NamesResolved
  SegmentsSeparate
  LoadedAsLinked
  TlsInTemplate
\* A link ends when the output is written or an exception is raised.
CHECK_DEADLOCK FALSE

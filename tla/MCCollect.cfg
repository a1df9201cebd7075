\* Two concurrent calls for one peer, two rules, the clock up to 2 lifetimes, in builds
\* with overflow checks and without.
SPECIFICATION CollectSpec
CONSTANTS
  Calls = {c1, c2}
  Peers = {p1}
  Openings = {o1, o2}
  Rules <- MCRules
  Reads <- MCReads
  Multi <- MCMulti
  TTL = 1
  MaxTime = 2
  U64 = 16
  OverflowChecks = {TRUE, FALSE}
  None = None
SYMMETRY MCSymmetry
INVARIANTS
  CollectTypeOK
  EntryIsWhole
  MissSeesWhatItReads
  OwnOpening

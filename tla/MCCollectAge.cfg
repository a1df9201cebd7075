\* One rule, the clock up to 3 lifetimes: hits keep an entry alive.
SPECIFICATION CollectSpec
CONSTANTS
  Calls = {c1, c2}
  Peers = {p1}
  Openings = {o1}
  Rules <- MCOneRule
  Reads <- MCOneReads
  Multi = {}
  TTL = 1
  MaxTime = 3
  U64 = 16
  OverflowChecks = {FALSE}
  None = None
INVARIANT
  OneHourCache

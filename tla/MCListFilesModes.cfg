\* Two concurrent calls for one key while the block mode changes.
SPECIFICATION FairSpec
CONSTANTS
  Calls = {c1, c2}
  Keys = {k1}
  Spellings = {k1}
  KeyOf <- OneSpelling
  Garbage = Garbage
  Managed = {"allow", "deny"}
  Modes <- BothModes
  Crashes = FALSE
  WriteErrors = TRUE
  None = None
  Stale = Stale
INVARIANT
  LockIsExclusive
PROPERTY
  LockIsReleased

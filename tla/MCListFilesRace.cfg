\* Two calls for the same key.
SPECIFICATION Spec
CONSTANTS
  Calls = {c1, c2}
  Keys = {k1}
  Spellings = {k1}
  KeyOf <- OneSpelling
  Garbage = Garbage
  Managed = {"allow", "deny", "zeroconf"}
  Modes <- OnlyAllow
  Crashes = FALSE
  WriteErrors = FALSE
  None = None
  Stale = Stale
INVARIANT
  QuiescentAgreement

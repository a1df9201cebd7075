\* Two concurrent calls on two keys, crashes at any moment, one block mode.
SPECIFICATION Spec
CONSTANTS
  Calls = {c1, c2}
  Keys = {k1, k2}
  Spellings = {k1, k2}
  KeyOf <- OneSpelling
  Garbage = Garbage
  Managed = {"allow", "deny", "zeroconf"}
  Modes <- OnlyAllow
  Crashes = TRUE
  WriteErrors = FALSE
  None = None
  Stale = Stale
SYMMETRY ListSymmetry
INVARIANTS
  TypeOK
  RemovalLosesNothing
  FilesParse
  Agreement
PROPERTY
  FilesAreAStore

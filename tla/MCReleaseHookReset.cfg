\* The rule is changed while a call collects for the old one.
SPECIFICATION Spec
CONSTANTS
  Calls = {c1}
  Peers = {p1}
  Openings = {o1}
  Rules <- OtherRules
  Reads <- OtherReads
  Multi = {}
  TTL = 1
  MaxTime = 1
  U64 = 16
  OverflowChecks = {FALSE}
  None = None
  Modes <- OnlyDeny
  ConfigRules <- OtherRules
  TestRules = {}
  Overlong = {}
  Invalid = {}
  MailSettings <- OnlyNoMail
  ListChanges = TRUE
INVARIANT
  CacheHoldsCurrentRule

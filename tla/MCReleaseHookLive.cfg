\* One call over and over while the clock, the configuration and its mail options
\* move on; every rule reads something, and what it reads may be missing from an
\* entry of another rule.
SPECIFICATION FairSpec
CONSTANTS
  Calls = {c1}
  Peers = {p1}
  Openings = {o1}
  Rules <- LiveRules
  Reads <- LiveReads
  Multi = {"pingCount"}
  TTL = 1
  MaxTime = 2
  U64 = 16
  OverflowChecks = {FALSE}
  None = None
  Modes <- OnlyDeny
  ConfigRules <- LiveRules
  TestRules = {"pingOneml"}
  Overlong = {}
  Invalid = {}
  MailSettings <- LiveMail
  ListChanges = FALSE
PROPERTY
  HookIsAnswered

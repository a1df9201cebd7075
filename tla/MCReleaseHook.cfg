\* One call at a time, hook or testrule, while the configuration, its mail options
\* and the lists change; the rules read nothing, a source, or a literal too long.
SPECIFICATION Spec
CONSTANTS
  Calls = {c1}
  Peers = {p1}
  Openings = {o1}
  Rules <- HookRules
  Reads <- HookReads
  Multi = {}
  TTL = 1
  MaxTime = 0
  U64 = 16
  OverflowChecks = {FALSE}
  None = None
  Modes <- BothModes
  ConfigRules = {"funding", "oneml", "overlong"}
  TestRules = {"oneml", "invalid"}
  Overlong = {"overlong"}
  Invalid = {"invalid"}
  MailSettings <- HookMail
  ListChanges = TRUE
INVARIANTS
  TypeOK
  AnswersFollowPolicy
PROPERTY
  AnswersAsPromised

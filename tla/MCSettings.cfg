\* Two setconfig calls and one that notifies, aliases refreshed meanwhile.
SPECIFICATION FairSpec
CONSTANTS
  Setters = {s1, s2}
  Notifiers = {c1}
  Options <- SomeOptions
  Offered <- SomeOffered
  Starts <- SomeStarts
  Rules = {}
  Addresses <- SomeAddresses
  Aliases = {a1}
  None = None
INVARIANTS
  TypeOK
  OneConfiguration
  MailsFollowVerbosity
  AliasesAreOfOneAnswer
PROPERTY
  NotifiedIsAnswered

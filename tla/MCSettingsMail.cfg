\* An address is emptied after mail was turned on.
SPECIFICATION Spec
CONSTANTS
  Setters = {s1, s2}
  Notifiers = {c1}
  Options <- SomeOptions
  Offered <- SomeOffered
  Starts <- SomeStarts
  Rules = {}
  Addresses <- SomeAddresses
  Aliases = {a1}
  None = None
INVARIANT
  InsufficientMeansNoMail

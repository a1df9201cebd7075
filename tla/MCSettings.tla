----------------------------- MODULE MCSettings -----------------------------
(***************************************************************************)
(* Small instances of Settings.                                            *)
(***************************************************************************)
EXTENDS Settings

SomeOptions == {"notify-verbosity", "email-from", "email-to", "pinglength"}

\* The sender's address is left out and filled in, numbers leave their range.
SomeOffered ==
  [o \in SomeOptions |->
     CASE o = "notify-verbosity" -> {"error", "accepted", "loud"}
       [] o = "email-from" -> {"", "clnrod@example.org"}
       [] o = "email-to" -> {}
       [] o = "pinglength" -> {0, 65536}]

StartWith(from) ==
  [o \in SomeOptions |->
     CASE o = "notify-verbosity" -> "all"
       [] o = "email-from" -> from
       [] o = "email-to" -> "operator@example.org"
       [] o = "pinglength" -> 256]
SomeStarts == {StartWith(""), StartWith("clnrod@example.org")}

SomeAddresses == {"clnrod@example.org", "operator@example.org"}
=============================================================================

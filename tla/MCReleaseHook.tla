--------------------------- MODULE MCReleaseHook ---------------------------
(***************************************************************************)
(* Small instances of ReleaseHook.                                         *)
(***************************************************************************)
EXTENDS ReleaseHook

\* Two rules on different sources.
OtherRules == {"ping", "oneml"}
OtherReads == [r \in OtherRules |-> {r}]

\* A rule that reads nothing, one on a source, one with an overlong literal and
\* a text that is no rule.
HookRules == {"funding", "oneml", "overlong", "invalid"}
HookReads == [r \in HookRules |-> IF r = "oneml" THEN {r} ELSE {}]

\* Every rule names the ping; one names a second source as well, and one counts
\* channels.
LiveRules == {"ping", "pingOneml", "pingCount"}
LiveReads == [r \in LiveRules |-> IF r = "pingOneml" THEN {"ping", "oneml"} ELSE {"ping"}]

BothModes == {"allow", "deny"}
OnlyDeny == {"deny"}

NoMail == [due |-> {}, parse |-> TRUE]
AllMail == [due |-> Levels, parse |-> TRUE]
\* Mails about errors alone, and about everything to no address.
HookMail == {[due |-> {"error"}, parse |-> TRUE], [due |-> Levels, parse |-> FALSE]}
LiveMail == {AllMail, [due |-> Levels, parse |-> FALSE]}
OnlyNoMail == {NoMail}
=============================================================================

------------------------------ MODULE Acceptor ------------------------------
(***************************************************************************)
(* What clnrod promises of an opening, with configuration and lists that   *)
(* may change at any moment: each of the list, the configuration and the   *)
(* zeroconf list is looked up once, in any order, the opening is judged by *)
(* the documented policy for what was found, the operator is told, and the *)
(* answer given.  An opening is lost only to a rule that can panic, or to a*)
(* mail that is due while its addresses do not parse.  Nothing is said of  *)
(* how data is collected.                                                  *)
(***************************************************************************)
CONSTANTS
  Calls, Peers, Modes, ConfigRules,
  MailSettings,    \* [due : sets of Levels, parse : BOOLEAN]
  Risky,           \* the rules whose evaluation can panic
  None

VARIABLES
  config,          \* [block_mode, custom_rule, mail]
  pubkey_list,
  zero_conf_list,
  opening          \* per slot the opening under way and what was looked up
shared == <<config, pubkey_list, zero_conf_list>>

Config ==
  [block_mode : Modes, custom_rule : ConfigRules \cup {None}, mail : MailSettings]
Inputs == {"list", "config", "zeroconf"}

\* wants: the channel type has option_zeroconf and the hook can grant it.
\* level: what the operator is told the judgement as.
NoOpening ==
  [phase |-> "idle", peer |-> None, wants |-> FALSE, looked |-> {},
   listed |-> FALSE, mode |-> None, rule |-> None, zero |-> FALSE,
   accept |-> FALSE, mindepth0 |-> FALSE, level |-> None]

Init ==
  /\ config \in Config
  /\ pubkey_list \in SUBSET Peers
  /\ zero_conf_list \in SUBSET Peers
  /\ opening = [c \in Calls |-> NoOpening]

\* README, "Blockmode: allow" and "Blockmode: deny": what the operator was
\* promised for a peer, given what the rule says of it.
Policy(m, verdict) ==
  IF m.listed THEN m.mode = "allow"
  ELSE IF m.rule = None THEN m.mode = "deny"
  ELSE verdict = "true"

Consults(m) == ~m.listed /\ m.rule # None

\* README, "clnrod-notify-verbosity": errors, accepted channels, all.
LevelOf(m, verdict) ==
  IF Consults(m) /\ verdict = "error" THEN "error"
  ELSE IF Policy(m, verdict) THEN "accepted" ELSE "all"

Open(c) ==
  /\ opening[c].phase = "idle"
  /\ \E p \in Peers, w \in BOOLEAN :
       opening' = [opening EXCEPT ![c] =
         [NoOpening EXCEPT !.phase = "pending", !.peer = p, !.wants = w]]
  /\ UNCHANGED shared

\* An input that was not looked up yet takes its present value.
LookUp(c) ==
  /\ opening[c].phase = "pending"
  /\ \/ /\ "list" \notin opening[c].looked
        /\ opening' = [opening EXCEPT ![c].looked = @ \cup {"list"},
                         ![c].listed = opening[c].peer \in pubkey_list]
     \/ /\ "config" \notin opening[c].looked
        /\ opening' = [opening EXCEPT ![c].looked = @ \cup {"config"},
                         ![c].mode = config.block_mode, ![c].rule = config.custom_rule]
     \/ /\ "zeroconf" \notin opening[c].looked
        /\ opening' = [opening EXCEPT ![c].looked = @ \cup {"zeroconf"},
                         ![c].zero = opening[c].peer \in zero_conf_list]
  /\ UNCHANGED shared

\* The rule accepts, rejects, or fails for want of data.
Judge(c) ==
  /\ opening[c].phase = "pending"
  /\ opening[c].looked = Inputs
  /\ \E verdict \in {"true", "false", "error"} :
       LET ok == Policy(opening[c], verdict) IN
         opening' = [opening EXCEPT
           ![c].phase = "judged",
           ![c].accept = ok,
           ![c].mindepth0 = ok /\ opening[c].zero /\ opening[c].wants,
           ![c].level = LevelOf(opening[c], verdict)]
  /\ UNCHANGED shared

\* The operator has been told, or could not be.
Answer(c) ==
  /\ opening[c].phase = "judged"
  /\ opening' = [opening EXCEPT ![c].phase = "answered"]
  /\ UNCHANGED shared

\* The handler panics over the rule: nobody answers.
LoseToRule(c) ==
  /\ opening[c].phase = "pending"
  /\ opening[c].looked = Inputs
  /\ Consults(opening[c])
  /\ opening[c].rule \in Risky
  /\ opening' = [opening EXCEPT ![c] = NoOpening]
  /\ UNCHANGED shared

\* The handler panics over the addresses of a mail about the judgement.
LoseToMail(c) ==
  /\ opening[c].phase = "judged"
  /\ opening[c].level \in config.mail.due
  /\ ~config.mail.parse
  /\ opening' = [opening EXCEPT ![c] = NoOpening]
  /\ UNCHANGED shared

End(c) ==
  /\ opening[c].phase = "answered"
  /\ opening' = [opening EXCEPT ![c] = NoOpening]
  /\ UNCHANGED shared

\* setconfig, clnrod-reload and clnrod-managelists.
Change ==
  /\ config' \in Config
  /\ pubkey_list' \in SUBSET Peers
  /\ zero_conf_list' \in SUBSET Peers
  /\ UNCHANGED opening

Next ==
  \/ \E c \in Calls : \/ Open(c) \/ LookUp(c) \/ Judge(c) \/ Answer(c)
                      \/ LoseToRule(c) \/ LoseToMail(c) \/ End(c)
  \/ Change

Spec == Init /\ [][Next]_<<config, pubkey_list, zero_conf_list, opening>>
=============================================================================

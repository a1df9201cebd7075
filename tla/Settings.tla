------------------------------ MODULE Settings ------------------------------
(***************************************************************************)
(* The options (src/config.rs), which setconfig changes while they are in  *)
(* use, the notifications that depend on them (src/notify.rs), sent        *)
(* from within the hooks, clnrod-testmail and clnrod-testrule, and the     *)
(* cache of node aliases a notification looks into (src/tasks.rs).         *)
(*                                                                         *)
(* Texts of log lines and mails are left out.  An outcome of an opening is *)
(* abstracted to the verbosity its notification has.  The peer data cache, *)
(* which setconfig of the custom rule clears, is in ReleaseHook.           *)
(***************************************************************************)
EXTENDS Integers

CONSTANTS
  Setters,    \* slots for concurrent setconfig calls
  Notifiers,  \* slots for hooks and RPC calls that notify
  Options,    \* the options in use; the others are filled in and valid
  Offered,    \* Offered[o]: what the operator passes for option o
  Starts,     \* the configurations clnrod may be started with
  Rules,      \* the texts the rule grammar accepts
  Addresses,  \* the texts that parse as a mailbox
  Aliases,
  None

OptionNames ==
  {"blockmode", "denymessage", "leakreason", "customrule", "pinglength",
   "smtp-username", "smtp-password", "smtp-server", "smtp-port",
   "email-from", "email-to", "notify-verbosity"}
MailOptions ==
  {"smtp-username", "smtp-password", "smtp-server", "smtp-port", "email-from", "email-to"}

\* NotifyVerbosity: Error < Accepted < All.
Level == [error |-> 0, accepted |-> 1, all |-> 2]

BlockModes == {"allow", "deny"}
PingLengths == 1..65535   \* u16, not zero
Ports == 0..65535         \* u16

\* What the users of an option take for granted: the types of Config, and
\* what the hooks unwrap.
Usable(o, v) ==
  /\ o = "blockmode" => v \in BlockModes
  /\ o = "customrule" => v \in Rules \cup {""}
  /\ o = "pinglength" => v \in PingLengths
  /\ o = "smtp-port" => v \in Ports
  /\ o = "notify-verbosity" => v \in DOMAIN Level

\* Mutant: numbers are cast to u16 without a look at their range.
ValidUnranged(o, v) ==
  /\ o = "blockmode" => v \in BlockModes
  /\ o = "denymessage" => v # ""
  /\ o = "customrule" => v \in Rules
  /\ o = "notify-verbosity" => v \in DOMAIN Level

\* check_option: the values it lets into the configuration.  Mail addresses
\* are not looked at.
Valid(o, v) ==
  /\ o = "blockmode" => v \in BlockModes
  /\ o = "denymessage" => v # ""
  /\ o = "customrule" => v \in Rules
  /\ o = "pinglength" => v \in PingLengths
  /\ o = "smtp-port" => v \in Ports
  /\ o = "notify-verbosity" => v \in DOMAIN Level

\* parse_option: numbers of any size, and already the texts of these three.
Parses(o, v) ==
  /\ o \in {"pinglength", "smtp-port"} => v \in Int
  /\ o = "leakreason" => v \in BOOLEAN
  /\ o \in {"blockmode", "customrule", "notify-verbosity"} => Valid(o, v)

Unset(o) == IF o = "smtp-port" THEN 0 ELSE ""

\* The condition under which activate_mail turns mail on.
Sufficient(conf) == \A o \in MailOptions \cap Options : conf[o] # Unset(o)

ASSUME SettingsAssumption ==
  /\ Options \subseteq OptionNames
  /\ {"notify-verbosity", "email-from", "email-to"} \subseteq Options
  /\ \A f \in Starts : DOMAIN f = Options /\ \A o \in Options : Usable(o, f[o])
  /\ None \notin Setters \cup Aliases \cup {"sent", "failed"}

VARIABLES
  config,       \* state.config, without send_mail
  send_mail,    \* config.send_mail
  config_lock,  \* the setconfig call that holds the configuration's mutex
  options,      \* the values the plugin library keeps, read by option_str
  setter,       \* per slot the local state of setconfig_callback
  note,         \* per slot the local state of a call that notifies
  alias_cache,  \* the alias of the peer, or None
  refresh,      \* where refresh_alias_cache is
  answer        \* what listnodes last said of the peer's alias
settingVars == <<config, send_mail, config_lock, options, setter>>
aliasVars == <<alias_cache, refresh, answer>>
vars == <<config, send_mail, config_lock, options, setter, note, alias_cache,
          refresh, answer>>

IdleSetter == [pc |-> "idle", option |-> None, value |-> None]

\* result is what send_mail returned, None before it returns.  asked is history:
\* whether the configuration asked for a mail about this notification, at some
\* time since the notification began.
IdleNote ==
  [pc |-> "idle", kind |-> None, level |-> None, alias |-> None, parse |-> FALSE,
   enough |-> FALSE, result |-> None, asked |-> {}]

\* A start with valid options; any other disables the plugin.
Init ==
  /\ config \in Starts
  /\ send_mail = Sufficient(config)
  /\ config_lock = None
  /\ options = config
  /\ setter = [s \in Setters |-> IdleSetter]
  /\ note = [c \in Notifiers |-> IdleNote]
  /\ alias_cache = None
  /\ refresh = "asleep"
  /\ answer = None

(***************************************************************************)
(* setconfig.                                                              *)
(***************************************************************************)

\* README, clnrod-notify-verbosity: what each verbosity is told about.
Covered ==
  [error |-> {"error"}, accepted |-> {"error", "accepted"},
   all |-> {"error", "accepted", "all"}]
Asks(conf, mail, level) == mail /\ level \in Covered[conf["notify-verbosity"]]

\* Every notification whose configuration is not read yet sees one more.
Witnessed ==
  note' = [c \in Notifiers |->
    IF note[c].pc \in {"alias", "config"}
    THEN [note[c] EXCEPT !.asked = @ \cup {Asks(config', send_mail', note[c].level)}]
    ELSE note[c]]

\* A value that does not parse is refused before anything is touched.
SetConfig(s, o, v) ==
  /\ setter[s].pc = "idle"
  /\ Parses(o, v)
  /\ setter' = [setter EXCEPT ![s] = [pc |-> "check", option |-> o, value |-> v]]
  /\ UNCHANGED <<config, send_mail, config_lock, options, note, aliasVars>>

\* Mutant: the mutex is released between the check and what follows.
CheckOptionUnlocking(s) ==
  LET o == setter[s].option
      v == setter[s].value
  IN  /\ setter[s].pc = "check"
      /\ config_lock = None
      /\ IF Valid(o, v)
         THEN /\ config' = [config EXCEPT ![o] = v]
              /\ setter' = [setter EXCEPT ![s].pc = "store"]
         ELSE /\ setter' = [setter EXCEPT ![s] = IdleSetter]
              /\ UNCHANGED config
      /\ UNCHANGED <<send_mail, config_lock, options, aliasVars>>
      /\ Witnessed

\* Under the mutex, which is kept if the value is valid and so in force.
CheckOption(s) ==
  LET o == setter[s].option
      v == setter[s].value
  IN  /\ setter[s].pc = "check"
      /\ config_lock = None
      /\ IF Valid(o, v)
         THEN /\ config_lock' = s
              /\ config' = [config EXCEPT ![o] = v]
              /\ setter' = [setter EXCEPT ![s].pc = "store"]
         ELSE /\ setter' = [setter EXCEPT ![s] = IdleSetter]
              /\ UNCHANGED <<config, config_lock>>
      /\ UNCHANGED <<send_mail, options, aliasVars>>
      /\ Witnessed

\* set_option_str, which does not fail for an option that is declared dynamic.
StoreOption(s) ==
  /\ setter[s].pc = "store"
  /\ options' = [options EXCEPT ![setter[s].option] = setter[s].value]
  /\ setter' = [setter EXCEPT ![s].pc = "activate"]
  /\ UNCHANGED <<config, send_mail, config_lock, note, aliasVars>>

\* activate_mail turns mail on and never off; then the mutex is released.
ActivateMail(s) ==
  /\ setter[s].pc = "activate"
  /\ send_mail' = (send_mail \/ Sufficient(config))
  /\ config_lock' = None
  /\ setter' = [setter EXCEPT ![s] = IdleSetter]
  /\ UNCHANGED <<config, options, aliasVars>>
  /\ Witnessed

SetterStep(s) == CheckOption(s) \/ StoreOption(s) \/ ActivateMail(s)

(***************************************************************************)
(* Notifications.                                                          *)
(***************************************************************************)

Begun(kind, level) ==
  [IdleNote EXCEPT !.pc = "alias", !.kind = kind, !.level = level,
                   !.asked = {Asks(config, send_mail, level)}]

\* release_hook has judged an opening and notifies before it answers.
NotifyOutcome(c, level) ==
  /\ note[c].pc = "idle"
  /\ note' = [note EXCEPT ![c] = Begun("opening", level)]
  /\ UNCHANGED <<settingVars, aliasVars>>

\* clnrod-testmail and clnrod-testrule look whether mail is on and notify
\* only then; notify looks again.
Test(c, k) ==
  /\ note[c].pc = "idle"
  /\ config_lock = None
  /\ note' = [note EXCEPT ![c] = IF send_mail THEN Begun(k, "error")
                                 ELSE [IdleNote EXCEPT !.pc = "answered", !.kind = k]]
  /\ UNCHANGED <<settingVars, aliasVars>>

\* clnrod-testmail is about no peer.
ReadAlias(c) ==
  /\ note[c].pc = "alias"
  /\ note' = [note EXCEPT ![c].pc = "config",
                          ![c].alias = IF note[c].kind = "testmail" THEN None ELSE alias_cache]
  /\ UNCHANGED <<settingVars, aliasVars>>

\* Of the cloned configuration matters whether its addresses parse and
\* whether it is sufficient.
AddressesParse == {config["email-from"], config["email-to"]} \subseteq Addresses

\* Mutant: the comparison is the wrong way round.
CloneConfigReversed(c) ==
  /\ note[c].pc = "config"
  /\ config_lock = None
  /\ LET due == send_mail /\ Level[config["notify-verbosity"]] <= Level[note[c].level] IN
       note' = [note EXCEPT ![c].pc = IF due THEN "mail" ELSE "answered",
                            ![c].parse = AddressesParse, ![c].enough = Sufficient(config)]
  /\ UNCHANGED <<settingVars, aliasVars>>

\* The configuration is cloned, the line logged, and a mail due or not.
CloneConfig(c) ==
  /\ note[c].pc = "config"
  /\ config_lock = None
  /\ LET due == send_mail /\ Level[config["notify-verbosity"]] >= Level[note[c].level] IN
       note' = [note EXCEPT ![c].pc = IF due THEN "mail" ELSE "answered",
                            ![c].parse = AddressesParse, ![c].enough = Sufficient(config)]
  /\ UNCHANGED <<settingVars, aliasVars>>

\* An address that does not parse panics, and with it the caller.  Otherwise
\* the mail is on its way, or the server's name was no good.
SendMail(c) ==
  /\ note[c].pc = "mail"
  /\ \/ /\ ~note[c].parse
        /\ note' = [note EXCEPT ![c].pc = "panicked"]
     \/ /\ note[c].parse
        /\ note' = [note EXCEPT ![c].pc = "sending"]
     \/ /\ note[c].parse
        /\ note' = [note EXCEPT ![c].pc = "answered", ![c].result = "failed"]
  /\ UNCHANGED <<settingVars, aliasVars>>

\* Mutant: the caller does not survive a mail that cannot be delivered.
MailEndsUnwrapped(c) ==
  /\ note[c].pc = "sending"
  /\ \/ note' = [note EXCEPT ![c].pc = "answered", ![c].result = "sent"]
     \/ note' = [note EXCEPT ![c].pc = "panicked", ![c].result = "failed"]
  /\ UNCHANGED <<settingVars, aliasVars>>

\* The mail is delivered, or refused or timed out; notify only logs which.
MailEnds(c) ==
  /\ note[c].pc = "sending"
  /\ \E result \in {"sent", "failed"} :
       note' = [note EXCEPT ![c].pc = "answered", ![c].result = result]
  /\ UNCHANGED <<settingVars, aliasVars>>

NoteStep(c) == ReadAlias(c) \/ CloneConfig(c) \/ SendMail(c) \/ MailEnds(c)

\* The caller has its answer.
Answered(c) ==
  /\ note[c].pc = "answered"
  /\ note' = [note EXCEPT ![c] = IdleNote]
  /\ UNCHANGED <<settingVars, aliasVars>>

(***************************************************************************)
(* refresh_alias_cache, once an hour.                                      *)
(***************************************************************************)

\* Mutant: the cache is not emptied first.
RefreshBeginsFull ==
  /\ refresh = "asleep"
  /\ refresh' = "asking"
  /\ UNCHANGED <<settingVars, note, alias_cache, answer>>

RefreshBegins ==
  /\ refresh = "asleep"
  /\ refresh' = "asking"
  /\ alias_cache' = None
  /\ UNCHANGED <<settingVars, note, answer>>

\* listnodes answers, with an alias of the peer or without, ...
NodesListed(a) ==
  /\ refresh = "asking"
  /\ refresh' = "listed"
  /\ answer' = a
  /\ UNCHANGED <<settingVars, note, alias_cache>>

\* ... or fails, and the cache stays empty for another hour.
RefreshFails ==
  /\ refresh = "asking"
  /\ refresh' = "asleep"
  /\ UNCHANGED <<settingVars, note, alias_cache, answer>>

\* Only aliases that are there are inserted.
RefreshFills ==
  /\ refresh = "listed"
  /\ refresh' = "asleep"
  /\ alias_cache' = IF answer = None THEN alias_cache ELSE answer
  /\ UNCHANGED <<settingVars, note, answer>>

Next ==
  \/ \E s \in Setters :
       \/ \E o \in Options : \E v \in Offered[o] : SetConfig(s, o, v)
       \/ SetterStep(s)
  \/ \E c \in Notifiers :
       \/ \E level \in DOMAIN Level : NotifyOutcome(c, level)
       \/ \E k \in {"testmail", "testrule"} : Test(c, k)
       \/ NoteStep(c)
       \/ Answered(c)
  \/ RefreshBegins \/ RefreshFails \/ RefreshFills
  \/ \E a \in Aliases \cup {None} : NodesListed(a)

Spec == Init /\ [][Next]_vars

\* The mutex of the configuration is parking_lot's, which is fair in the end.
FairSpec ==
  /\ Spec
  /\ \A s \in Setters : WF_vars(SetterStep(s))
  /\ \A c \in Notifiers : SF_vars(NoteStep(c))

(***************************************************************************)
(* Properties.                                                             *)
(***************************************************************************)

NoteRecord ==
  [pc : {"idle", "alias", "config", "mail", "sending", "answered", "panicked"},
   kind : {"opening", "testmail", "testrule", None},
   level : DOMAIN Level \cup {None}, alias : Aliases \cup {None},
   parse : BOOLEAN, enough : BOOLEAN, result : {None, "sent", "failed"},
   asked : SUBSET BOOLEAN]

\* Every variable stays in its domain.  In particular the configuration only
\* ever holds valid values: the hooks parse its rule and unwrap the result,
\* and ping with its length.
TypeOK ==
  /\ DOMAIN config = Options /\ \A o \in Options : Usable(o, config[o])
  /\ send_mail \in BOOLEAN
  /\ config_lock \in Setters \cup {None}
  /\ \A s \in Setters :
       /\ setter[s].pc \in {"idle", "check", "store", "activate"}
       /\ setter[s].pc \in {"store", "activate"} => config_lock = s
  /\ note \in [Notifiers -> NoteRecord]
  /\ alias_cache \in Aliases \cup {None}
  /\ answer \in Aliases \cup {None}
  /\ refresh \in {"asleep", "asking", "listed"}

\* The hooks read the configuration, clnrod-reload reads the option: whenever
\* the mutex is free the two agree on every option, however setconfig calls
\* overlap and whichever of them are refused.
OneConfiguration == config_lock = None => options = config

\* README, clnrod-notify-verbosity: when the caller goes on, a mail about the
\* outcome of an opening was tried to its end (delivered, or its failure
\* logged) if and only if the verbosity asked for one at some time while the
\* notification was made, not when the opening was judged.
Tried(n) == n.result # None
MailsFollowVerbosity ==
  \A c \in Notifiers :
    note[c].pc = "answered" /\ note[c].kind = "opening" => Tried(note[c]) \in note[c].asked

\* A notification never shows an alias next to those of another answer of
\* listnodes: the cache is what the last answer said, or empty.
AliasesAreOfOneAnswer == alias_cache \in {None, answer}

\* README: "everything gets logged regardless".  As long as both mail addresses
\* parse, a notification holds up its caller but does not stop it: an opening
\* that was judged is answered, whatever the mail server does and however
\* often the options change.
NotifiedIsAnswered ==
  []AddressesParse =>
    \A c \in Notifiers : note[c].pc = "alias" ~> note[c].pc = "answered"

\* The log says "Insufficient config for email notifications. Will not send
\* emails" when activate_mail finds an option empty: no mail is then begun.
InsufficientMeansNoMail ==
  \A c \in Notifiers : note[c].pc = "mail" => note[c].enough
=============================================================================

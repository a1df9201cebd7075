---------------------------- MODULE ReleaseHook ----------------------------
(***************************************************************************)
(* The channel acceptor (src/hooks.rs): openchannel and openchannel2       *)
(* hooks run concurrently with each other, with clnrod-testrule calls, with*)
(* setconfig and with updates of the in-memory lists.  Each hook takes its *)
(* snapshots one lock at a time, collects data and evaluates the custom    *)
(* rule if the lists do not settle the matter, notifies the operator and   *)
(* answers.                                                                *)
(*                                                                         *)
(* What a rule says about a peer is a free choice of TRUE or FALSE: only   *)
(* what its evaluation can panic over is tracked, its data being there and *)
(* its literals being in range.  Of the mail options only what the hook    *)
(* depends on is kept; Settings has the rest.  Reasons and texts are left  *)
(* out.                                                                    *)
(***************************************************************************)
EXTENDS Collect

CONSTANTS
  Modes,        \* the block modes in use, of {"allow", "deny"}
  ConfigRules,  \* rules the operator may set
  TestRules,    \* rules clnrod-testrule may be called with
  Overlong,     \* rules with an integer literal of 2^64 or more
  Invalid,      \* texts the grammar refuses
  MailSettings, \* what the mail options may come to
  ListChanges   \* TRUE: the in-memory lists change while hooks run

HookKinds == {"openchannel", "openchannel2"}
Verdicts == {"true", "false", "error"}

\* What the operator can be told, at rising verbosities.
Levels == {"error", "accepted", "all"}

\* due: the levels a mail is sent about, none while send_mail is off;
\* parse: both addresses are addresses.
MailSetting == [due : {{}, {"error"}, {"error", "accepted"}, Levels}, parse : BOOLEAN]

ASSUME ReleaseHookAssumption ==
  /\ Modes \subseteq {"allow", "deny"}
  /\ ConfigRules \subseteq Rules
  /\ TestRules \subseteq Rules
  /\ Overlong \subseteq Rules
  /\ Invalid \cap ConfigRules = {}
  /\ MailSettings \subseteq MailSetting
  /\ ListChanges \in BOOLEAN
  /\ None \notin Rules \cup Modes \cup HookKinds \cup {"testrule"} \cup Verdicts \cup Levels

VARIABLES
  config,          \* [block_mode, custom_rule, mail]; None is the empty rule
  pubkey_list,     \* the allowlist or denylist in memory
  zero_conf_list,
  hook             \* per call: the local state of release_hook or testrule
hookVars == <<config, pubkey_list, zero_conf_list, hook>>
vars == <<now, peerdata_cache, task, config, pubkey_list, zero_conf_list, hook>>

Config ==
  [block_mode : Modes, custom_rule : ConfigRules \cup {None}, mail : MailSettings]

\* What a configuration and lists say of peer p.
Moment(p, conf, pubkeys, zeroconfs) ==
  [mode |-> conf.block_mode, rule |-> conf.custom_rule,
   listed |-> p \in pubkeys, zero |-> p \in zeroconfs]

\* moments and changes are history: what held at some time since the request,
\* and how often the configuration or a list changed meanwhile, counted up to
\* two; from the second change on moments is no longer kept.
IdleHook ==
  [pc |-> "idle", kind |-> None, peer |-> None, opening |-> None, bit50 |-> FALSE,
   listed |-> FALSE, mode |-> None, rule |-> None, zero |-> FALSE,
   verdict |-> None, accept |-> FALSE, mindepth0 |-> FALSE, level |-> None,
   moments |-> {}, changes |-> 0]

Init ==
  /\ CollectInit
  /\ config \in Config
  /\ pubkey_list \in SUBSET Peers
  /\ zero_conf_list \in SUBSET Peers
  /\ hook = [c \in Calls |-> IdleHook]

(***************************************************************************)
(* release_hook.                                                           *)
(***************************************************************************)

\* A peer wants to open a channel; bit50: its channel type has option_zeroconf.
OpenChannel(c, k, p, o, z) ==
  /\ hook[c].pc = "idle"
  /\ hook' = [hook EXCEPT ![c] =
       [IdleHook EXCEPT !.pc = "list", !.kind = k, !.peer = p, !.opening = o,
                        !.bit50 = z,
                        !.moments = {Moment(p, config, pubkey_list, zero_conf_list)}]]
  /\ UNCHANGED <<now, peerdata_cache, task, config, pubkey_list, zero_conf_list>>

ReadPubkeyList(c) ==
  /\ hook[c].pc = "list"
  /\ hook' = [hook EXCEPT ![c].pc = "config", ![c].listed = hook[c].peer \in pubkey_list]
  /\ UNCHANGED <<now, peerdata_cache, task, config, pubkey_list, zero_conf_list>>

ReadConfig(c) ==
  /\ hook[c].pc = "config"
  /\ hook' = [hook EXCEPT ![c].pc = "zero", ![c].mode = config.block_mode,
                          ![c].rule = config.custom_rule]
  /\ UNCHANGED <<now, peerdata_cache, task, config, pubkey_list, zero_conf_list>>

\* Mutant: the rule is consulted for a listed peer as well.
ReadZeroconfIgnoringList(c) ==
  /\ hook[c].pc = "zero"
  /\ hook' = [hook EXCEPT
       ![c].pc = IF hook[c].rule # None THEN "begin" ELSE "decide",
       ![c].zero = hook[c].peer \in zero_conf_list]
  /\ UNCHANGED <<now, peerdata_cache, task, config, pubkey_list, zero_conf_list>>

\* With the last snapshot taken it is settled whether the rule is consulted.
ReadZeroconf(c) ==
  /\ hook[c].pc = "zero"
  /\ hook' = [hook EXCEPT
       ![c].pc = IF ~hook[c].listed /\ hook[c].rule # None THEN "begin" ELSE "decide",
       ![c].zero = hook[c].peer \in zero_conf_list]
  /\ UNCHANGED <<now, peerdata_cache, task, config, pubkey_list, zero_conf_list>>

BeginCollect(c) ==
  /\ hook[c].pc = "begin"
  /\ CollectBegin(c, hook[c].peer, hook[c].opening, hook[c].rule)
  /\ hook' = [hook EXCEPT ![c].pc = "collect"]
  /\ UNCHANGED <<config, pubkey_list, zero_conf_list>>

Collecting(c) ==
  /\ CollectStep(c)
  /\ UNCHANGED hookVars

\* Mutant: the answer is given before the failed collection has returned.
CollectFailedEarly(c) ==
  /\ hook[c].pc = "collect"
  /\ task[c].pc = "err"
  /\ hook' = [hook EXCEPT ![c].pc = "notify", ![c].verdict = "error", ![c].level = "error"]
  /\ UNCHANGED <<now, peerdata_cache, task, config, pubkey_list, zero_conf_list>>

\* collect_data failed: clnrod-testrule reports the error at once, a hook tells
\* the operator and will answer "internal error".
CollectFailed(c) ==
  /\ hook[c].pc = "collect"
  /\ task[c].pc = "err"
  /\ hook' = [hook EXCEPT
       ![c].pc = IF hook[c].kind = "testrule" THEN "answered" ELSE "notify",
       ![c].verdict = "error", ![c].level = "error"]
  /\ task' = [task EXCEPT ![c] = IdleTask]
  /\ UNCHANGED <<now, peerdata_cache, config, pubkey_list, zero_conf_list>>

\* clnrod-testrule parses its rule only once the data is there.  A hook's rule
\* was parsed when it was set.
ParseFailed(c) ==
  /\ hook[c].pc = "collect" /\ hook[c].kind = "testrule"
  /\ task[c].pc = "ok"
  /\ task[c].rule \in Invalid
  /\ hook' = [hook EXCEPT ![c].pc = "answered", ![c].verdict = "error"]
  /\ task' = [task EXCEPT ![c] = IdleTask]
  /\ UNCHANGED <<now, peerdata_cache, config, pubkey_list, zero_conf_list>>

\* Every comparison is evaluated, so a rule that can panic over t's data does.
EvaluationPanics(t) ==
  \/ ~(Reads[t.rule] \subseteq Present(t.found))
  \/ t.rule \in Overlong

\* The handler panics, in collect_data, on data the rule reads and the cache
\* did not hold, or on a literal: lightningd waits for an answer nobody sends.
Panic(c) ==
  /\ hook[c].pc = "collect"
  /\ \/ task[c].pc = "panic"
     \/ task[c].pc = "ok" /\ task[c].rule \notin Invalid /\ EvaluationPanics(task[c])
  /\ hook' = [hook EXCEPT ![c] = [IdleHook EXCEPT !.pc = "panicked", !.rule = hook[c].rule]]
  /\ task' = [task EXCEPT ![c] = IdleTask]
  /\ UNCHANGED <<now, peerdata_cache, config, pubkey_list, zero_conf_list>>

\* parse_rule and evaluate_rule.  A testrule call tells the operator what the
\* rule says, as an error.
Evaluate(c) ==
  /\ hook[c].pc = "collect"
  /\ task[c].pc = "ok"
  /\ task[c].rule \notin Invalid
  /\ ~EvaluationPanics(task[c])
  /\ \E v \in {"true", "false"} :
       hook' = [hook EXCEPT
         ![c].pc = IF hook[c].kind = "testrule" THEN "notify" ELSE "decide",
         ![c].verdict = v,
         ![c].level = IF hook[c].kind = "testrule" THEN "error" ELSE None]
  /\ task' = [task EXCEPT ![c] = IdleTask]
  /\ UNCHANGED <<now, peerdata_cache, config, pubkey_list, zero_conf_list>>

\* The match on block_mode, list_matched and the rule's verdict.
Accepted(h) ==
  \/ h.mode = "allow" /\ (h.listed \/ h.verdict = "true")
  \/ h.mode = "deny" /\ ~h.listed /\ h.verdict \in {None, "true"}

\* Mutant: the mode is read again when it is needed.
DecideRereading(c) ==
  /\ hook[c].pc = "decide"
  /\ LET ok == Accepted([hook[c] EXCEPT !.mode = config.block_mode]) IN
       hook' = [hook EXCEPT
         ![c].pc = "notify",
         ![c].accept = ok,
         ![c].level = IF ok THEN "accepted" ELSE "all",
         ![c].mindepth0 = /\ ok
                          /\ hook[c].zero
                          /\ hook[c].kind = "openchannel" /\ hook[c].bit50]
  /\ UNCHANGED <<now, peerdata_cache, task, config, pubkey_list, zero_conf_list>>

\* Only the openchannel hook can lower the depth, for a zeroconf channel type.
Decide(c) ==
  /\ hook[c].pc = "decide"
  /\ LET ok == Accepted(hook[c]) IN
       hook' = [hook EXCEPT
         ![c].pc = "notify",
         ![c].accept = ok,
         ![c].level = IF ok THEN "accepted" ELSE "all",
         ![c].mindepth0 = /\ ok
                          /\ hook[c].zero
                          /\ hook[c].kind = "openchannel" /\ hook[c].bit50]
  /\ UNCHANGED <<now, peerdata_cache, task, config, pubkey_list, zero_conf_list>>

\* notify reads the configuration anew, and the hook waits for the mail.  For
\* clnrod-testrule this is the last of two looks at a switch that never falls.
Notify(c) ==
  /\ hook[c].pc = "notify"
  /\ hook[c].level \in config.mail.due => config.mail.parse
  /\ hook' = [hook EXCEPT
       ![c].pc = IF hook[c].level \in config.mail.due THEN "mail" ELSE "answered"]
  /\ UNCHANGED <<now, peerdata_cache, task, config, pubkey_list, zero_conf_list>>

\* send_mail unwraps an address that does not parse.
NotifyPanics(c) ==
  /\ hook[c].pc = "notify"
  /\ hook[c].level \in config.mail.due
  /\ ~config.mail.parse
  /\ hook' = [hook EXCEPT ![c] = [IdleHook EXCEPT !.pc = "panicked", !.rule = hook[c].rule]]
  /\ UNCHANGED <<now, peerdata_cache, task, config, pubkey_list, zero_conf_list>>

\* The mail is sent, refused or given up after a minute; notify only logs it.
MailEnds(c) ==
  /\ hook[c].pc = "mail"
  /\ hook' = [hook EXCEPT ![c].pc = "answered"]
  /\ UNCHANGED <<now, peerdata_cache, task, config, pubkey_list, zero_conf_list>>

HookStep(c) ==
  \/ ReadPubkeyList(c) \/ ReadConfig(c) \/ ReadZeroconf(c)
  \/ BeginCollect(c) \/ Collecting(c) \/ CollectFailed(c) \/ ParseFailed(c)
  \/ Panic(c) \/ Evaluate(c) \/ Decide(c)
  \/ Notify(c) \/ NotifyPanics(c) \/ MailEnds(c)

Answered(c) ==
  /\ hook[c].pc = "answered"
  /\ hook' = [hook EXCEPT ![c] = IdleHook]
  /\ UNCHANGED <<now, peerdata_cache, task, config, pubkey_list, zero_conf_list>>

\* clnrod-testrule collects for its own rule straight away and leaves the
\* cache as it finds it.
TestRule(c, p, o, r) ==
  /\ hook[c].pc = "idle"
  /\ CollectBegin(c, p, o, r)
  /\ hook' = [hook EXCEPT ![c] =
       [IdleHook EXCEPT !.pc = "collect", !.kind = "testrule", !.peer = p,
                        !.opening = o, !.rule = r]]
  /\ UNCHANGED <<config, pubkey_list, zero_conf_list>>

(***************************************************************************)
(* Changes of the shared state.                                            *)
(***************************************************************************)

\* Every hook under way lives through one more moment.
Witnessed ==
  hook' = [c \in Calls |->
    IF hook[c].moments = {} THEN hook[c]
    ELSE IF hook[c].changes = 0
    THEN [hook[c] EXCEPT !.changes = 1, !.moments =
            @ \cup {Moment(hook[c].peer, config', pubkey_list', zero_conf_list')}]
    ELSE [hook[c] EXCEPT !.changes = 2, !.moments = {}]]

\* setconfig holds the configuration's lock until it has also emptied the
\* cache, so nobody sees the new mode or rule before that.
SetBlockMode(m) ==
  /\ m # config.block_mode
  /\ config' = [config EXCEPT !.block_mode = m]
  /\ UNCHANGED <<now, peerdata_cache, task, pubkey_list, zero_conf_list>>
  /\ Witnessed

SetCustomRule(r) ==
  /\ config' = [config EXCEPT !.custom_rule = r]
  /\ ClearCache
  /\ UNCHANGED <<pubkey_list, zero_conf_list>>
  /\ Witnessed

\* setconfig of a mail option or of the verbosity.  send_mail never falls; a
\* handler notices at its next notification.
SetMail(m) ==
  /\ m # config.mail
  /\ config.mail.due # {} => m.due # {}
  /\ config' = [config EXCEPT !.mail = m]
  /\ UNCHANGED <<now, peerdata_cache, task, pubkey_list, zero_conf_list, hook>>

\* A reload or managelists call ends with a new list.
SetPubkeyList(l) ==
  /\ ListChanges
  /\ l # pubkey_list
  /\ pubkey_list' = l
  /\ UNCHANGED <<now, peerdata_cache, task, config, zero_conf_list>>
  /\ Witnessed

SetZeroconfList(l) ==
  /\ ListChanges
  /\ l # zero_conf_list
  /\ zero_conf_list' = l
  /\ UNCHANGED <<now, peerdata_cache, task, config, pubkey_list>>
  /\ Witnessed

HookTick == Tick /\ UNCHANGED hookVars

Next ==
  \/ \E c \in Calls :
       \/ \E p \in Peers, o \in Openings :
            \/ \E k \in HookKinds, z \in BOOLEAN :
                 OpenChannel(c, k, p, o, z)
            \/ \E r \in TestRules : TestRule(c, p, o, r)
       \/ HookStep(c)
       \/ Answered(c)
  \/ \E m \in Modes : SetBlockMode(m)
  \/ \E r \in ConfigRules : SetCustomRule(r)
  \/ \E m \in MailSettings : SetMail(m)
  \/ \E l \in SUBSET Peers : SetPubkeyList(l) \/ SetZeroconfList(l)
  \/ HookTick

Spec == Init /\ [][Next]_vars
FairSpec == Spec /\ \A c \in Calls : WF_vars(HookStep(c))

(***************************************************************************)
(* Properties.                                                             *)
(***************************************************************************)

MomentRecord ==
  [mode : Modes, rule : ConfigRules \cup {None}, listed : BOOLEAN, zero : BOOLEAN]

HookRecord ==
  [pc : {"idle", "list", "config", "zero", "begin", "collect", "decide",
         "notify", "mail", "answered", "panicked"},
   kind : HookKinds \cup {"testrule", None},
   peer : Peers \cup {None}, opening : Openings \cup {None}, bit50 : BOOLEAN,
   listed : BOOLEAN, mode : Modes \cup {None}, rule : Rules \cup {None},
   zero : BOOLEAN, verdict : Verdicts \cup {None}, accept : BOOLEAN,
   mindepth0 : BOOLEAN, level : Levels \cup {None}, moments : SUBSET MomentRecord, changes : {0, 1, 2}]

\* Every variable stays in its domain, and a collection is under way exactly
\* for the calls that wait for one.
TypeOK ==
  /\ CollectTypeOK
  /\ config \in Config
  /\ pubkey_list \in SUBSET Peers
  /\ zero_conf_list \in SUBSET Peers
  /\ hook \in [Calls -> HookRecord]
  /\ \A c \in Calls : /\ hook[c].pc = "collect" <=> task[c].pc # "idle"
                      /\ hook[c].pc \notin {"idle", "answered", "panicked"} => hook[c].peer \in Peers
                      /\ hook[c].pc \in {"notify", "mail"} => hook[c].level \in Levels

\* The opening a handler stands for.  A clnrod-testrule call opens nothing.
LookedAt(pc) ==
  IF pc \in {"idle", "list"} THEN {}
  ELSE IF pc = "config" THEN {"list"}
  ELSE IF pc = "zero" THEN {"list", "config"}
  ELSE {"list", "config", "zeroconf"}
PhaseAt(pc) ==
  IF pc \in {"notify", "mail"} THEN "judged"
  ELSE IF pc \in {"idle", "answered"} THEN pc ELSE "pending"
OpeningOf(hk) ==
  LET h == IF hk.kind = "testrule" \/ hk.pc \in {"idle", "panicked"} THEN IdleHook ELSE hk
  IN  [phase |-> PhaseAt(h.pc), peer |-> h.peer,
       wants |-> h.kind = "openchannel" /\ h.bit50, looked |-> LookedAt(h.pc),
       listed |-> h.listed, mode |-> h.mode, rule |-> h.rule, zero |-> h.zero,
       accept |-> h.accept, mindepth0 |-> h.mindepth0, level |-> h.level]

\* The rules whose evaluation can panic: for a literal, for data that an entry
\* collected for another rule need not have, or for the clock.
Risky ==
  {r \in Rules : \/ r \in Overlong
                 \/ \E q \in Rules : ~(Reads[r] \subseteq Fetches(q))
                 \/ TRUE \in OverflowChecks}

Promise == INSTANCE Acceptor WITH opening <- [c \in Calls |-> OpeningOf(hook[c])]

\* README, "Blockmode" and "Custom rule": each opening gets one answer, the
\* policy's for one look at each of list, configuration and zeroconf list,
\* however often these change while it is decided and whoever else collects
\* data.  A handler ends without an answer only over a rule that is consulted
\* and can panic, or over a mail that is due while its addresses do not parse.
AnswersAsPromised == Promise!Spec

\* A hook's answer is the documented policy's at some moment between the
\* request and the answer, although the hook reads list, configuration and
\* zeroconf list one after the other: when at most one of them changed
\* meanwhile, the mixed snapshot is one that really held.  It fails closed
\* when the data cannot be had, and lowers the depth only for a zeroconf
\* channel of a peer on the zeroconf list.
AnswersFollowPolicy ==
  \A c \in Calls :
    hook[c].pc = "answered" /\ hook[c].kind # "testrule" /\ hook[c].changes <= 1 =>
      \E m \in hook[c].moments :
        /\ m.rule = hook[c].rule
        /\ hook[c].accept <=> Promise!Policy(m, hook[c].verdict)
        /\ hook[c].mindepth0 <=>
             /\ hook[c].accept /\ m.zero
             /\ hook[c].kind = "openchannel" /\ hook[c].bit50

\* README: the cache "will be reset if you change the clnrod-customrule
\* option".  Without testrule calls, what it holds was collected for the rule
\* in force.
CacheHoldsCurrentRule ==
  \A p \in Peers : peerdata_cache[p] # None =>
    /\ config.custom_rule # None
    /\ Present(peerdata_cache[p].src) = Fetches(config.custom_rule)

\* Every opening ends, whatever the sources do and whoever changes the
\* configuration meanwhile, provided each fetch and each mail ends and no mail
\* is due to an address that does not parse; and it ends with its answer unless
\* the rule it was judged by is one that can panic.
HookIsAnswered ==
  [](config.mail.due # {} => config.mail.parse) =>
    \A c \in Calls : hook[c].pc = "list" ~>
      hook[c].pc = "answered" \/ (hook[c].pc = "panicked" /\ hook[c].rule \in Risky)
=============================================================================

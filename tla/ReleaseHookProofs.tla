------------------------- MODULE ReleaseHookProofs -------------------------
(***************************************************************************)
(* Proofs about ReleaseHook, for any number of calls, peers and rules: its *)
(* type invariant, that its use of collect_data is a behaviour of Collect, *)
(* that every answer is the documented policy's at some moment of the hook,*)
(* and that it keeps Acceptor's promise of every opening.                  *)
(***************************************************************************)
EXTENDS ReleaseHook, CollectProofs

(***************************************************************************)
(* The inductive invariant, part by part.                                  *)
(***************************************************************************)

\* Where a handler is tells which of its fields are set.
HookShape(h) ==
  /\ h.pc \notin {"idle", "panicked"} =>
       h.kind # None /\ h.peer \in Peers /\ h.opening \in Openings
  /\ h.pc = "begin" => h.rule \in Rules
  /\ h.pc \in {"notify", "mail"} => h.level \in Levels
  /\ h.kind = "testrule" => h.pc \in {"collect", "notify", "mail", "answered"}

\* A collection is under way exactly for the calls that wait for one.
WaitsForCollect(c) == hook[c].pc = "collect" <=> task[c].pc # "idle"

HookInv ==
  /\ CollectInv
  /\ TypeOK
  /\ \A c \in Calls : HookShape(hook[c]) /\ WaitsForCollect(c)

LEMMA IdleHookOK == IdleHook \in HookRecord /\ HookShape(IdleHook)
  BY ReleaseHookAssumption DEF IdleHook, HookRecord, HookShape, HookKinds

\* What a handler leaves behind when it panics.
LEMMA PanickedOK ==
  ASSUME NEW r \in Rules \cup {None}
  PROVE  /\ [IdleHook EXCEPT !.pc = "panicked", !.rule = r] \in HookRecord
         /\ HookShape([IdleHook EXCEPT !.pc = "panicked", !.rule = r])
         /\ [IdleHook EXCEPT !.pc = "panicked", !.rule = r].pc = "panicked"
         /\ [IdleHook EXCEPT !.pc = "panicked", !.rule = r].rule = r
  <1> DEFINE h == [IdleHook EXCEPT !.pc = "panicked", !.rule = r]
  <1>1. h \in HookRecord
    BY IdleHookOK DEF HookRecord
  <1>2. h.pc = "panicked" /\ h.kind = None /\ h.rule = r
    BY DEF IdleHook
  <1> HIDE DEF h
  <1>3. HookShape(h)
    BY <1>2, ReleaseHookAssumption DEF HookShape
  <1> QED BY <1>1, <1>2, <1>3 DEF h

LEMMA HookInitInv == Init => HookInv
  <1> SUFFICES ASSUME Init PROVE HookInv
    OBVIOUS
  <1>1. CollectInv
    BY CollectInitInv DEF Init
  <1>2. hook = [c \in Calls |-> IdleHook] /\ task = [c \in Calls |-> IdleTask]
    BY DEF Init, CollectInit
  <1>3. \A c \in Calls : hook[c].pc = "idle" /\ task[c].pc = "idle"
    BY <1>2 DEF IdleHook, IdleTask
  <1>4. TypeOK
    BY <1>1, <1>2, <1>3, IdleHookOK DEF Init, CollectInv, TypeOK
  <1> QED BY <1>1, <1>2, <1>3, <1>4, IdleHookOK DEF HookInv, WaitsForCollect

\* The lookup ends in a panic or goes on to the awaits.
LEMMA LookupGoesOn ==
  ASSUME task \in [Calls -> TaskRecord], NEW c \in Calls
  PROVE  /\ LookupPanic(c) => task'[c].pc = "panic"
         /\ LookupHit(c) => task'[c].pc = "join"
         /\ LookupMiss(c) => task'[c].pc = "join"
  <1>1. ASSUME LookupPanic(c) PROVE task'[c].pc = "panic"
    <2>1. task' = [task EXCEPT ![c].pc = "panic"]
      BY <1>1 DEF LookupPanic
    <2> QED BY <2>1 DEF TaskRecord
  <1>2. ASSUME LookupHit(c) PROVE task'[c].pc = "join"
    <2>1. task' = [task EXCEPT ![c].pc = "join", ![c].hit = TRUE, ![c].found = EntryOf(c).src]
      BY <1>2 DEF LookupHit
    <2> QED BY <2>1 DEF TaskRecord
  <1>3. ASSUME LookupMiss(c) PROVE task'[c].pc = "join"
    <2>1. task' = [task EXCEPT ![c].pc = "join", ![c].running = Fetches(task[c].rule)]
      BY <1>3 DEF LookupMiss
    <2> QED BY <2>1 DEF TaskRecord
  <1> QED BY <1>1, <1>2, <1>3

\* A step of collect_data keeps a call under way.
LEMMA CollectStepGoesOn ==
  ASSUME CollectInv, NEW c \in Calls, CollectStep(c)
  PROVE  /\ \A d \in Calls : task'[d].pc # "idle" <=> task[d].pc # "idle"
         /\ task[c].pc # "idle"
  <1>1. task \in [Calls -> TaskRecord] /\ TaskInv(task[c])
    BY TaskFacts
  <1>2. \A d \in Calls \ {c} : task'[d] = task[d]
    BY <1>1 DEF CollectStep, PeerChannels, LookupPanic, LookupHit, LookupMiss, FetchOk,
                FetchErr, JoinErr, JoinOk
  <1>3. task[c].pc # "idle"
    BY <1>1 DEF CollectStep, PeerChannels, LookupPanic, LookupHit, LookupMiss, FetchOk,
                FetchErr, JoinErr, JoinOk, TaskInv, NothingYet
  <1>4. task'[c].pc # "idle"
    <2>1. CASE PeerChannels(c)
      BY <1>1, <2>1 DEF PeerChannels, TaskRecord
    <2>2. CASE LookupPanic(c) \/ LookupHit(c) \/ LookupMiss(c)
      BY <1>1, <2>2, LookupGoesOn
    <2>3. CASE \E s \in Sources : FetchOk(c, s) \/ FetchErr(c, s)
      BY <1>1, <1>3, <2>3 DEF FetchOk, FetchErr, TaskRecord
    <2>4. CASE JoinErr(c) \/ JoinOk(c)
      BY <1>1, <2>4 DEF JoinErr, JoinOk, TaskRecord
    <2> QED BY <2>1, <2>2, <2>3, <2>4 DEF CollectStep
  <1> QED BY <1>2, <1>3, <1>4

\* Every step of the acceptor is a step of collect_data's specification, or
\* leaves its variables alone.
LEMMA StepIsCollectStep == HookInv /\ [Next]_vars => [CollectNext]_collectVars
  <1> SUFFICES ASSUME HookInv, [Next]_vars PROVE [CollectNext]_collectVars
    OBVIOUS
  <1>1. ASSUME NEW c \in Calls, NEW p \in Peers, NEW o \in Openings, NEW r \in TestRules,
               TestRule(c, p, o, r)
        PROVE  CollectNext
    BY <1>1, ReleaseHookAssumption DEF TestRule, CollectNext
  <1>2. ASSUME NEW c \in Calls, BeginCollect(c) PROVE CollectNext
    BY <1>2 DEF BeginCollect, CollectNext, HookInv, HookShape
  <1>3. ASSUME NEW c \in Calls, Collecting(c) PROVE CollectNext
    BY <1>3 DEF Collecting, CollectNext
  <1>4. ASSUME NEW c \in Calls,
               CollectFailed(c) \/ ParseFailed(c) \/ Panic(c) \/ Evaluate(c)
        PROVE  CollectNext
    BY <1>4 DEF CollectFailed, ParseFailed, Panic, Evaluate, CollectNext, CollectReturn
  <1>5. ASSUME NEW r \in ConfigRules, SetCustomRule(r) PROVE CollectNext
    BY <1>5 DEF SetCustomRule, CollectNext
  <1>6. ASSUME HookTick PROVE CollectNext
    BY <1>6 DEF HookTick, CollectNext
  <1>7. ASSUME NEW c \in Calls,
               \/ ReadPubkeyList(c) \/ ReadConfig(c) \/ ReadZeroconf(c) \/ Decide(c)
               \/ Notify(c) \/ NotifyPanics(c) \/ MailEnds(c) \/ Answered(c)
        PROVE  UNCHANGED collectVars
    BY <1>7 DEF ReadPubkeyList, ReadConfig, ReadZeroconf, Decide, Notify, NotifyPanics,
                MailEnds, Answered, collectVars
  <1>8. ASSUME NEW c \in Calls, NEW p \in Peers, NEW o \in Openings, NEW k, NEW z,
               OpenChannel(c, k, p, o, z)
        PROVE  UNCHANGED collectVars
    BY <1>8 DEF OpenChannel, collectVars
  <1>9. ASSUME NEW m, SetBlockMode(m) \/ SetMail(m) \/ SetPubkeyList(m) \/ SetZeroconfList(m)
        PROVE  UNCHANGED collectVars
    BY <1>9 DEF SetBlockMode, SetMail, SetPubkeyList, SetZeroconfList, collectVars
  <1>10. CASE UNCHANGED vars
    BY <1>10 DEF vars, collectVars
  <1> QED BY <1>1, <1>2, <1>3, <1>4, <1>5, <1>6, <1>7, <1>8, <1>9, <1>10 DEF Next, HookStep

(***************************************************************************)
(* Steps of one handler.                                                   *)
(***************************************************************************)

LEMMA CollectInvNext == HookInv /\ [Next]_vars => CollectInv'
  BY StepIsCollectStep, CollectNextInv DEF HookInv

LEMMA HookFacts ==
  ASSUME HookInv, NEW c \in Calls
  PROVE  /\ hook \in [Calls -> HookRecord] /\ task \in [Calls -> TaskRecord]
         /\ hook[c] \in HookRecord /\ HookShape(hook[c]) /\ WaitsForCollect(c)
         /\ Proper(task[c])
         /\ config \in Config
  BY TaskFacts DEF HookInv, TypeOK

\* A handler's step replaces its own record; of the shared state it touches
\* at most the cache.
LEMMA OneHookChanges ==
  ASSUME HookInv, CollectInv', NEW c \in Calls, NEW h \in HookRecord, HookShape(h),
         hook' = [hook EXCEPT ![c] = h],
         h.pc = "collect" <=> task'[c].pc # "idle",
         \A d \in Calls \ {c} : task'[d].pc # "idle" <=> task[d].pc # "idle",
         UNCHANGED <<config, pubkey_list, zero_conf_list>>
  PROVE  HookInv'
  <1>1. hook' \in [Calls -> HookRecord] /\ hook'[c] = h
        /\ \A d \in Calls \ {c} : hook'[d] = hook[d]
    BY DEF HookInv, TypeOK
  <1>2. \A d \in Calls : HookShape(hook'[d])
    BY <1>1 DEF HookInv
  <1>3. \A d \in Calls : hook'[d].pc = "collect" <=> task'[d].pc # "idle"
    BY <1>1 DEF HookInv, WaitsForCollect
  <1>4. TypeOK'
    BY <1>1, <1>2, <1>3 DEF HookInv, TypeOK, HookShape, CollectInv
  <1> QED BY <1>2, <1>3, <1>4 DEF HookInv, WaitsForCollect, HookShape

\* The snapshots of release_hook, its decision, the notification and the reply.
LEMMA LocalStepInv ==
  ASSUME HookInv, NEW c \in Calls,
         \/ ReadPubkeyList(c) \/ ReadConfig(c) \/ ReadZeroconf(c) \/ Decide(c)
         \/ Notify(c) \/ NotifyPanics(c) \/ MailEnds(c) \/ Answered(c)
  PROVE  HookInv'
  <1>1. /\ hook \in [Calls -> HookRecord] /\ hook[c] \in HookRecord /\ HookShape(hook[c])
        /\ WaitsForCollect(c) /\ config \in Config
    BY HookFacts
  <1>2. CollectInv'
    BY CollectInvNext DEF Next, HookStep
  <1>3. UNCHANGED <<task, config, pubkey_list, zero_conf_list>>
    BY DEF ReadPubkeyList, ReadConfig, ReadZeroconf, Decide, Notify, NotifyPanics, MailEnds,
           Answered
  <1>4. CASE ReadPubkeyList(c)
    <2> DEFINE l == hook[c].peer \in pubkey_list
               h == [hook[c] EXCEPT !.pc = "config", !.listed = l]
    <2>1. hook' = [hook EXCEPT ![c] = h] /\ h.pc = "config" /\ hook[c].pc = "list"
      BY <1>1, <1>4 DEF ReadPubkeyList, HookRecord
    <2>3. l \in BOOLEAN
      OBVIOUS
    <2> HIDE DEF l
    <2>2. h \in HookRecord /\ HookShape(h)
      BY <1>1, <2>1, <2>3 DEF HookRecord, HookShape
    <2> HIDE DEF h
    <2> QED BY <1>1, <1>2, <1>3, <2>1, <2>2, OneHookChanges DEF WaitsForCollect
  <1>5. CASE ReadConfig(c)
    <2> DEFINE h == [hook[c] EXCEPT !.pc = "zero", !.mode = config.block_mode,
                                    !.rule = config.custom_rule]
    <2>1. hook' = [hook EXCEPT ![c] = h] /\ h.pc = "zero" /\ hook[c].pc = "config"
      BY <1>1, <1>5 DEF ReadConfig, HookRecord
    <2>2. h \in HookRecord /\ HookShape(h)
      BY <1>1, <2>1, ReleaseHookAssumption DEF HookRecord, HookShape, Config
    <2> HIDE DEF h
    <2> QED BY <1>1, <1>2, <1>3, <2>1, <2>2, OneHookChanges DEF WaitsForCollect
  <1>6. CASE ReadZeroconf(c)
    <2> DEFINE next == IF ~hook[c].listed /\ hook[c].rule # None THEN "begin" ELSE "decide"
               z == hook[c].peer \in zero_conf_list
               h == [hook[c] EXCEPT !.pc = next, !.zero = z]
    <2>1. hook' = [hook EXCEPT ![c] = h] /\ h.pc = next /\ hook[c].pc = "zero"
      BY <1>1, <1>6 DEF ReadZeroconf, HookRecord
    <2>3. z \in BOOLEAN
      OBVIOUS
    <2>4. next \in {"begin", "decide"} /\ (next = "begin" => hook[c].rule \in Rules)
      BY <1>1 DEF HookRecord
    <2> HIDE DEF z, next
    <2>2. h \in HookRecord /\ HookShape(h)
      BY <1>1, <2>1, <2>3, <2>4 DEF HookRecord, HookShape
    <2> HIDE DEF h
    <2> QED BY <1>1, <1>2, <1>3, <2>1, <2>2, <2>4, OneHookChanges DEF WaitsForCollect
  <1>7. CASE Decide(c)
    <2> DEFINE ok == Accepted(hook[c])
               lv == IF ok THEN "accepted" ELSE "all"
               deep == /\ ok /\ hook[c].zero
                       /\ hook[c].kind = "openchannel" /\ hook[c].bit50
               h == [hook[c] EXCEPT !.pc = "notify", !.accept = ok, !.level = lv,
                                    !.mindepth0 = deep]
    <2>1. hook' = [hook EXCEPT ![c] = h] /\ h.pc = "notify" /\ hook[c].pc = "decide"
      BY <1>1, <1>7 DEF Decide, HookRecord
    <2>2. ok \in BOOLEAN /\ deep \in BOOLEAN /\ lv \in Levels
      BY DEF Accepted, Levels
    <2> HIDE DEF ok, lv, deep
    <2>3. h \in HookRecord /\ HookShape(h)
      <3>1. h \in HookRecord
        BY <1>1, <2>1, <2>2, ZenonT(60) DEF HookRecord
      <3>2. h.kind = hook[c].kind /\ h.peer = hook[c].peer /\ h.opening = hook[c].opening
            /\ h.level = lv
        BY <1>1 DEF HookRecord
      <3> HIDE DEF h
      <3> QED BY <1>1, <2>1, <2>2, <3>1, <3>2 DEF HookShape
    <2> HIDE DEF h
    <2> QED BY <1>1, <1>2, <1>3, <2>1, <2>3, OneHookChanges DEF WaitsForCollect
  <1>8. CASE Answered(c)
    BY <1>1, <1>2, <1>3, <1>8, IdleHookOK, OneHookChanges
       DEF Answered, WaitsForCollect, IdleHook
  <1>9. CASE Notify(c) \/ MailEnds(c)
    <2>1. PICK pc \in {"mail", "answered"} : hook' = [hook EXCEPT ![c].pc = pc]
      BY <1>9 DEF Notify, MailEnds
    <2> DEFINE h == [hook[c] EXCEPT !.pc = pc]
    <2>2. hook' = [hook EXCEPT ![c] = h] /\ h.pc = pc /\ hook[c].pc \in {"notify", "mail"}
      BY <1>1, <1>9, <2>1 DEF Notify, MailEnds, HookRecord
    <2>3. h \in HookRecord /\ HookShape(h)
      BY <1>1, <2>2 DEF HookRecord, HookShape
    <2> HIDE DEF h
    <2> QED BY <1>1, <1>2, <1>3, <2>2, <2>3, OneHookChanges DEF WaitsForCollect
  <1>10. CASE NotifyPanics(c)
    <2> DEFINE h == [IdleHook EXCEPT !.pc = "panicked", !.rule = hook[c].rule]
    <2>1. hook' = [hook EXCEPT ![c] = h] /\ hook[c].pc = "notify"
      BY <1>10 DEF NotifyPanics
    <2>3. hook[c].rule \in Rules \cup {None}
      BY <1>1 DEF HookRecord
    <2>2. h \in HookRecord /\ HookShape(h) /\ h.pc = "panicked"
      BY <2>3, PanickedOK
    <2> HIDE DEF h
    <2> QED BY <1>1, <1>2, <1>3, <2>1, <2>2, OneHookChanges DEF WaitsForCollect
  <1> QED BY <1>4, <1>5, <1>6, <1>7, <1>8, <1>9, <1>10

LEMMA OpenChannelInv ==
  ASSUME HookInv, NEW c \in Calls, NEW p \in Peers, NEW o \in Openings,
         NEW k \in HookKinds, NEW z \in BOOLEAN, OpenChannel(c, k, p, o, z)
  PROVE  HookInv'
  <1> DEFINE m == Moment(p, config, pubkey_list, zero_conf_list)
             h == [IdleHook EXCEPT !.pc = "list", !.kind = k, !.peer = p, !.opening = o,
                                   !.bit50 = z, !.moments = {m}]
  <1>1. hook[c].pc = "idle" /\ WaitsForCollect(c) /\ config \in Config
    BY HookFacts DEF OpenChannel
  <1>2. CollectInv'
    BY CollectInvNext DEF Next
  <1>3. m \in MomentRecord
    BY <1>1 DEF MomentRecord, Moment, Config
  <1>4. hook' = [hook EXCEPT ![c] = h] /\ UNCHANGED <<task, config, pubkey_list, zero_conf_list>>
    BY DEF OpenChannel
  <1> HIDE DEF m
  <1>5. h \in HookRecord /\ h.pc = "list"
    BY <1>3, IdleHookOK DEF HookRecord
  <1>6. h.kind = k /\ h.peer = p /\ h.opening = o
    BY IdleHookOK DEF HookRecord
  <1> HIDE DEF h
  <1>7. HookShape(h)
    BY <1>5, <1>6, ReleaseHookAssumption DEF HookShape, HookKinds
  <1> QED BY <1>1, <1>2, <1>4, <1>5, <1>7, OneHookChanges DEF WaitsForCollect

LEMMA TestRuleInv ==
  ASSUME HookInv, NEW c \in Calls, NEW p \in Peers, NEW o \in Openings,
         NEW r \in TestRules, TestRule(c, p, o, r)
  PROVE  HookInv'
  <1> DEFINE h == [IdleHook EXCEPT !.pc = "collect", !.kind = "testrule", !.peer = p,
                                   !.opening = o, !.rule = r]
  <1>1. hook[c].pc = "idle" /\ WaitsForCollect(c) /\ task \in [Calls -> TaskRecord]
    BY HookFacts DEF TestRule
  <1>2. CollectInv'
    BY CollectInvNext DEF Next
  <1>3. task'[c].pc # "idle" /\ \A d \in Calls \ {c} : task'[d] = task[d]
    BY <1>1 DEF TestRule, CollectBegin, IdleTask
  <1>4. hook' = [hook EXCEPT ![c] = h] /\ UNCHANGED <<config, pubkey_list, zero_conf_list>>
    BY DEF TestRule
  <1>5. h \in HookRecord /\ h.pc = "collect"
    BY IdleHookOK, ReleaseHookAssumption DEF HookRecord
  <1>6. h.kind = "testrule" /\ h.peer = p /\ h.opening = o
    BY IdleHookOK DEF HookRecord
  <1> HIDE DEF h
  <1>7. HookShape(h)
    BY <1>5, <1>6, ReleaseHookAssumption DEF HookShape
  <1> QED BY <1>2, <1>3, <1>4, <1>5, <1>7, OneHookChanges

LEMMA BeginCollectInv ==
  ASSUME HookInv, NEW c \in Calls, BeginCollect(c)
  PROVE  HookInv'
  <1> DEFINE h == [hook[c] EXCEPT !.pc = "collect"]
  <1>1. /\ hook \in [Calls -> HookRecord] /\ hook[c] \in HookRecord /\ HookShape(hook[c])
        /\ task \in [Calls -> TaskRecord]
    BY HookFacts
  <1>2. CollectInv'
    BY CollectInvNext DEF Next, HookStep
  <1>3. task'[c].pc # "idle" /\ \A d \in Calls \ {c} : task'[d] = task[d]
    BY <1>1 DEF BeginCollect, CollectBegin, IdleTask
  <1>4. hook' = [hook EXCEPT ![c] = h] /\ hook[c].pc = "begin" /\ h.pc = "collect"
    BY <1>1 DEF BeginCollect, HookRecord
  <1>5. h \in HookRecord /\ HookShape(h)
    BY <1>1, <1>4 DEF HookRecord, HookShape
  <1> HIDE DEF h
  <1> QED BY <1>2, <1>3, <1>4, <1>5, OneHookChanges DEF BeginCollect

LEMMA CollectingInv ==
  ASSUME HookInv, NEW c \in Calls, Collecting(c)
  PROVE  HookInv'
  <1>1. CollectInv'
    BY CollectInvNext DEF Next, HookStep
  <1>2. \A d \in Calls : task'[d].pc # "idle" <=> task[d].pc # "idle"
    BY CollectStepGoesOn DEF Collecting, HookInv
  <1> QED BY <1>1, <1>2 DEF Collecting, hookVars, HookInv, TypeOK, CollectInv, HookShape,
                            WaitsForCollect

\* The steps that take the outcome of a collection.
LEMMA OutcomeInv ==
  ASSUME HookInv, NEW c \in Calls,
         CollectFailed(c) \/ ParseFailed(c) \/ Panic(c) \/ Evaluate(c)
  PROVE  HookInv'
  <1>1. /\ hook \in [Calls -> HookRecord] /\ hook[c] \in HookRecord /\ HookShape(hook[c])
        /\ task \in [Calls -> TaskRecord] /\ hook[c].pc = "collect"
    BY HookFacts DEF CollectFailed, ParseFailed, Panic, Evaluate
  <1>2. CollectInv'
    BY CollectInvNext DEF Next, HookStep
  <1>3. /\ UNCHANGED <<config, pubkey_list, zero_conf_list>>
        /\ task'[c].pc = "idle" /\ \A d \in Calls \ {c} : task'[d] = task[d]
    BY <1>1 DEF CollectFailed, ParseFailed, Panic, Evaluate, IdleTask
  <1>4. ASSUME NEW pc \in {"notify", "answered", "decide"}, NEW v \in Verdicts,
               NEW l \in Levels \cup {None},
               hook' = [hook EXCEPT ![c].pc = pc, ![c].verdict = v, ![c].level = l],
               pc = "notify" => l \in Levels,
               hook[c].kind = "testrule" => pc # "decide"
        PROVE  HookInv'
    <2> DEFINE h == [hook[c] EXCEPT !.pc = pc, !.verdict = v, !.level = l]
    <2>1. /\ hook' = [hook EXCEPT ![c] = h] /\ h.pc = pc /\ h.kind = hook[c].kind
          /\ h.peer = hook[c].peer /\ h.opening = hook[c].opening /\ h.level = l
      BY <1>1, <1>4 DEF HookRecord
    <2>2. h \in HookRecord
      BY <1>1, <2>1, <1>4, ZenonT(60) DEF HookRecord
    <2> HIDE DEF h
    <2>3. HookShape(h)
      BY <1>1, <1>4, <2>1 DEF HookShape
    <2> QED BY <1>2, <1>3, <1>4, <2>1, <2>2, <2>3, OneHookChanges
  <1>5. CASE CollectFailed(c)
    BY <1>4, <1>5 DEF CollectFailed, Verdicts, Levels
  <1>6. CASE ParseFailed(c)
    <2>1. hook' = [hook EXCEPT ![c].pc = "answered", ![c].verdict = "error",
                               ![c].level = hook[c].level]
      BY <1>1, <1>6 DEF ParseFailed, HookRecord
    <2> QED BY <1>1, <1>4, <2>1 DEF Verdicts, HookRecord
  <1>7. CASE Panic(c)
    <2> DEFINE h == [IdleHook EXCEPT !.pc = "panicked", !.rule = hook[c].rule]
    <2>1. hook' = [hook EXCEPT ![c] = h]
      BY <1>7 DEF Panic
    <2>2. h \in HookRecord /\ HookShape(h) /\ h.pc = "panicked"
      BY <1>1, PanickedOK DEF HookRecord
    <2> HIDE DEF h
    <2> QED BY <1>2, <1>3, <2>1, <2>2, OneHookChanges
  <1>8. CASE Evaluate(c)
    <2>1. PICK v \in {"true", "false"} :
            hook' = [hook EXCEPT
              ![c].pc = IF hook[c].kind = "testrule" THEN "notify" ELSE "decide",
              ![c].verdict = v,
              ![c].level = IF hook[c].kind = "testrule" THEN "error" ELSE None]
      BY <1>8 DEF Evaluate
    <2> QED BY <1>4, <2>1 DEF Verdicts, Levels
  <1> QED BY <1>5, <1>6, <1>7, <1>8

(***************************************************************************)
(* Changes of the shared state, and the clock.                             *)
(***************************************************************************)

\* What Witnessed does to a record: only its history changes.
LEMMA WitnessedKeepsShape ==
  ASSUME HookInv, Witnessed, config' \in Config
  PROVE  /\ hook' \in [Calls -> HookRecord]
         /\ \A c \in Calls :
              /\ hook'[c].pc = hook[c].pc /\ hook'[c].kind = hook[c].kind
              /\ hook'[c].peer = hook[c].peer /\ hook'[c].opening = hook[c].opening
              /\ hook'[c].rule = hook[c].rule /\ hook'[c].level = hook[c].level
  <1> SUFFICES ASSUME NEW c \in Calls
               PROVE  /\ hook'[c] \in HookRecord
                      /\ hook'[c].pc = hook[c].pc /\ hook'[c].kind = hook[c].kind
                      /\ hook'[c].peer = hook[c].peer /\ hook'[c].opening = hook[c].opening
                      /\ hook'[c].rule = hook[c].rule /\ hook'[c].level = hook[c].level
    BY ZenonT(60) DEF Witnessed
  <1> DEFINE m == Moment(hook[c].peer, config', pubkey_list', zero_conf_list')
             ms == hook[c].moments \cup {m}
             h1 == [hook[c] EXCEPT !.changes = 1, !.moments = ms]
             h2 == [hook[c] EXCEPT !.changes = 2, !.moments = {}]
  <1>1. hook[c] \in HookRecord
    BY HookFacts
  <1>2. m \in MomentRecord
    BY DEF MomentRecord, Moment, Config
  <1>3. hook'[c] = IF hook[c].moments = {} THEN hook[c]
                   ELSE IF hook[c].changes = 0 THEN h1 ELSE h2
    BY DEF Witnessed
  <1>6. ms \in SUBSET MomentRecord /\ {} \in SUBSET MomentRecord
    BY <1>1, <1>2 DEF HookRecord
  <1> HIDE DEF m, ms
  <1>4. h1 \in HookRecord /\ h2 \in HookRecord
    <2>1. h1 \in HookRecord
      BY <1>1, <1>6 DEF HookRecord
    <2>2. h2 \in HookRecord
      BY <1>1, <1>6 DEF HookRecord
    <2> QED BY <2>1, <2>2
  <1>5. \A h \in {h1, h2} : /\ h.pc = hook[c].pc /\ h.kind = hook[c].kind
                            /\ h.peer = hook[c].peer /\ h.opening = hook[c].opening
                            /\ h.rule = hook[c].rule /\ h.level = hook[c].level
    BY <1>1 DEF HookRecord
  <1> HIDE DEF h1, h2
  <1> QED BY <1>1, <1>3, <1>4, <1>5

LEMMA ChangeInv ==
  ASSUME HookInv,
         \/ \E m \in Modes : SetBlockMode(m)
         \/ \E r \in ConfigRules : SetCustomRule(r)
         \/ \E l \in SUBSET Peers : SetPubkeyList(l) \/ SetZeroconfList(l)
  PROVE  HookInv'
  <1>1. CollectInv'
    BY CollectInvNext DEF Next
  <1>2. UNCHANGED task /\ Witnessed
    BY DEF SetBlockMode, SetCustomRule, SetPubkeyList, SetZeroconfList, ClearCache
  <1>3. /\ config' \in Config
        /\ pubkey_list' \in SUBSET Peers
        /\ zero_conf_list' \in SUBSET Peers
    <2>1. config \in Config /\ pubkey_list \in SUBSET Peers /\ zero_conf_list \in SUBSET Peers
      BY DEF HookInv, TypeOK
    <2>2. CASE \E m \in Modes : SetBlockMode(m)
      BY <2>1, <2>2 DEF SetBlockMode, Config
    <2>3. CASE \E r \in ConfigRules : SetCustomRule(r)
      BY <2>1, <2>3 DEF SetCustomRule, Config
    <2>4. CASE \E l \in SUBSET Peers : SetPubkeyList(l) \/ SetZeroconfList(l)
      BY <2>1, <2>4 DEF SetPubkeyList, SetZeroconfList
    <2> QED BY <2>2, <2>3, <2>4
  <1>4. /\ hook' \in [Calls -> HookRecord]
        /\ \A c \in Calls :
             /\ hook'[c].pc = hook[c].pc /\ hook'[c].kind = hook[c].kind
             /\ hook'[c].peer = hook[c].peer /\ hook'[c].opening = hook[c].opening
             /\ hook'[c].rule = hook[c].rule /\ hook'[c].level = hook[c].level
    BY <1>2, <1>3, WitnessedKeepsShape
  <1>5. \A c \in Calls : HookShape(hook'[c]) /\ (hook'[c].pc = "collect" <=> task'[c].pc # "idle")
    BY <1>2, <1>4 DEF HookInv, HookShape, WaitsForCollect
  <1>6. TypeOK'
    BY <1>1, <1>3, <1>4, <1>5 DEF TypeOK, CollectInv, HookShape
  <1> QED BY <1>1, <1>5, <1>6 DEF HookInv, HookShape, WaitsForCollect

LEMMA SetMailInv == ASSUME HookInv, NEW m \in MailSettings, SetMail(m) PROVE HookInv'
  <1>1. CollectInv'
    BY CollectInvNext DEF Next
  <1>2. config' \in Config /\ UNCHANGED <<task, hook, pubkey_list, zero_conf_list>>
    BY DEF SetMail, HookInv, TypeOK, Config
  <1> QED BY <1>1, <1>2 DEF HookInv, TypeOK, CollectInv, HookShape, WaitsForCollect

LEMMA HookTickInv == ASSUME HookInv, HookTick PROVE HookInv'
  <1>1. CollectInv'
    BY CollectInvNext DEF Next
  <1> QED BY <1>1 DEF HookTick, Tick, hookVars, HookInv, TypeOK, CollectInv, HookShape,
                      WaitsForCollect

(***************************************************************************)
(* The theorems.                                                           *)
(***************************************************************************)

LEMMA HookNextInv == HookInv /\ [Next]_vars => HookInv'
  <1> SUFFICES ASSUME HookInv, [Next]_vars PROVE HookInv'
    OBVIOUS
  <1>1. ASSUME NEW c \in Calls, NEW p \in Peers, NEW o \in Openings, NEW k \in HookKinds,
               NEW z \in BOOLEAN, OpenChannel(c, k, p, o, z)
        PROVE  HookInv'
    BY <1>1, OpenChannelInv
  <1>2. ASSUME NEW c \in Calls, NEW p \in Peers, NEW o \in Openings, NEW r \in TestRules,
               TestRule(c, p, o, r)
        PROVE  HookInv'
    BY <1>2, TestRuleInv
  <1>3. ASSUME NEW c \in Calls, HookStep(c) PROVE HookInv'
    BY <1>3, LocalStepInv, BeginCollectInv, CollectingInv, OutcomeInv DEF HookStep
  <1>4. ASSUME NEW c \in Calls, Answered(c) PROVE HookInv'
    BY <1>4, LocalStepInv
  <1>5. CASE HookTick
    BY <1>5, HookTickInv
  <1>6. CASE UNCHANGED vars
    <2>1. CollectInv'
      BY CollectInvNext
    <2> QED BY <1>6, <2>1 DEF vars, HookInv, TypeOK, CollectInv, HookShape, WaitsForCollect
  <1> QED BY <1>1, <1>2, <1>3, <1>4, <1>5, <1>6, ChangeInv, SetMailInv DEF Next

\* The invariant every proof below starts from.
THEOREM HookInvariant == Spec => []HookInv
  BY HookInitInv, HookNextInv, PTL DEF Spec

\* Every variable of the acceptor stays in its domain, and a collection is
\* under way exactly for the calls that wait for one.
THEOREM HookTypeCorrect == Spec => []TypeOK
  BY HookInvariant, PTL DEF HookInv

\* Hooks, testrule calls and setconfig use collect_data and its cache only as
\* Collect describes: every theorem of Collect holds of the acceptor.
THEOREM AcceptorImplementsCollect == Spec => CollectSpec
  <1>1. Init => CollectInit
    BY DEF Init
  <1> QED BY <1>1, HookInvariant, StepIsCollectStep, PTL DEF Spec, CollectSpec

(***************************************************************************)
(* What a handler panics over.                                             *)
(***************************************************************************)

\* A waiting handler's collection is for its own rule, and only a build that
\* checks overflows panics while it collects.
Tied(h, t) ==
  /\ h.pc = "collect" => t.rule = h.rule
  /\ t.pc = "panic" => TRUE \in OverflowChecks

TiedInv == \A c \in Calls : Tied(hook[c], task[c])

\* A successful collection has the data its rule reads, hit or miss, unless an
\* entry for another rule lacks some of it.
LEMMA DataIsThere ==
  ASSUME CollectInv, NEW c \in Calls, task[c].pc = "ok",
         \A q \in Rules : Reads[task[c].rule] \subseteq Fetches(q)
  PROVE  Reads[task[c].rule] \subseteq Present(task[c].found)
  <1>1. Proper(task[c]) /\ TaskInv(task[c]) /\ task[c].rule \in Rules
    BY TaskFacts DEF Proper
  <1>2. CASE task[c].hit
    BY <1>1, <1>2 DEF TaskInv, HitIsWhole, Whole
  <1>3. CASE ~task[c].hit
    BY <1>1, <1>3 DEF TaskInv, MissAccountsForAll, TasksJoined
  <1> QED BY <1>2, <1>3

\* A handler that panics consulted a rule that can.
LEMMA PanicIsRisky ==
  ASSUME HookInv, TiedInv, NEW c \in Calls, Panic(c)
  PROVE  hook[c].rule \in Risky
  <1>1. /\ hook[c].pc = "collect" /\ task[c].rule = hook[c].rule
        /\ task[c].pc = "panic" => TRUE \in OverflowChecks
        /\ CollectInv
    BY DEF Panic, TiedInv, Tied, HookInv
  <1>2. hook[c].rule \in Rules
    <2>1. Proper(task[c]) /\ task[c].pc # "idle"
      BY <1>1, HookFacts DEF WaitsForCollect
    <2> QED BY <1>1, <2>1 DEF Proper
  <1>3. CASE task[c].pc = "panic"
    BY <1>1, <1>2, <1>3 DEF Risky
  <1>4. CASE task[c].pc = "ok" /\ task[c].rule \in Overlong
    BY <1>1, <1>2, <1>4 DEF Risky
  <1>5. CASE task[c].pc = "ok" /\ ~(Reads[task[c].rule] \subseteq Present(task[c].found))
    <2>1. \E q \in Rules : ~(Reads[task[c].rule] \subseteq Fetches(q))
      BY <1>1, <1>5, DataIsThere
    <2> QED BY <1>1, <1>2, <2>1 DEF Risky
  <1> QED BY <1>3, <1>4, <1>5 DEF Panic, EvaluationPanics

\* A step of collect_data keeps the rule, and panics over the clock alone.
LEMMA CollectStepTied ==
  ASSUME CollectInv, NEW c \in Calls, CollectStep(c)
  PROVE  /\ task'[c].rule = task[c].rule
         /\ task'[c].pc = "panic" => task[c].pc = "panic" \/ TRUE \in OverflowChecks
         /\ \A d \in Calls \ {c} : task'[d] = task[d]
  <1>1. task \in [Calls -> TaskRecord]
    BY TaskFacts
  <1>2. \A d \in Calls \ {c} : task'[d] = task[d]
    BY <1>1 DEF CollectStep, PeerChannels, LookupPanic, LookupHit, LookupMiss, FetchOk,
                FetchErr, JoinErr, JoinOk
  <1>3. CASE PeerChannels(c)
    <2>1. task'[c].rule = task[c].rule
      BY <1>1, <1>3 DEF PeerChannels, TaskRecord
    <2>2. task'[c].pc # "panic"
      BY <1>1, <1>3 DEF PeerChannels, TaskRecord
    <2> QED BY <1>2, <2>1, <2>2
  <1>4. CASE LookupPanic(c)
    BY <1>1, <1>2, <1>4 DEF LookupPanic, TaskRecord
  <1>5. CASE LookupHit(c)
    <2>1. task' = [task EXCEPT ![c].pc = "join", ![c].hit = TRUE, ![c].found = EntryOf(c).src]
      BY <1>5 DEF LookupHit
    <2> QED BY <1>1, <1>2, <2>1 DEF TaskRecord
  <1>6. CASE LookupMiss(c)
    <2>1. task' = [task EXCEPT ![c].pc = "join", ![c].running = Fetches(task[c].rule)]
      BY <1>6 DEF LookupMiss
    <2> QED BY <1>1, <1>2, <2>1 DEF TaskRecord
  <1>7. CASE \E s \in Sources : FetchOk(c, s) \/ FetchErr(c, s)
    <2>1. PICK s \in Sources : FetchOk(c, s) \/ FetchErr(c, s)
      BY <1>7
    <2>2. task'[c].rule = task[c].rule
      BY <1>1, <2>1 DEF FetchOk, FetchErr, TaskRecord
    <2>3. task'[c].pc = task[c].pc
      BY <1>1, <2>1 DEF FetchOk, FetchErr, TaskRecord
    <2> QED BY <1>2, <2>2, <2>3
  <1>8. CASE JoinErr(c) \/ JoinOk(c)
    <2>1. task'[c].rule = task[c].rule
      BY <1>1, <1>8 DEF JoinErr, JoinOk, TaskRecord
    <2>2. task'[c].pc # "panic"
      BY <1>1, <1>8 DEF JoinErr, JoinOk, TaskRecord
    <2> QED BY <1>2, <2>1, <2>2
  <1> QED BY <1>3, <1>4, <1>5, <1>6, <1>7, <1>8 DEF CollectStep

LEMMA BeginTied ==
  ASSUME task \in [Calls -> TaskRecord], NEW c \in Calls, NEW p, NEW o, NEW r,
         CollectBegin(c, p, o, r)
  PROVE  /\ task'[c].pc \in {"peer", "lookup"} /\ task'[c].rule = r
         /\ \A d \in Calls \ {c} : task'[d] = task[d]
  BY DEF CollectBegin, IdleTask

LEMMA OneTieChanges ==
  ASSUME TiedInv, NEW c \in Calls, Tied(hook'[c], task'[c]),
         \A d \in Calls \ {c} : hook'[d] = hook[d] /\ task'[d] = task[d]
  PROVE  TiedInv'
  <1>1. \A d \in Calls : Tied(hook'[d], task'[d])
    BY DEF TiedInv
  <1> QED BY <1>1 DEF TiedInv, Tied

\* A handler whose step leaves the collection goes elsewhere.
LEMMA StepsAway ==
  ASSUME hook \in [Calls -> HookRecord], NEW c \in Calls
  PROVE  /\ \/ ReadPubkeyList(c) \/ ReadConfig(c) \/ ReadZeroconf(c) \/ Decide(c)
            \/ Notify(c) \/ NotifyPanics(c) \/ MailEnds(c) \/ Answered(c)
            \/ CollectFailed(c) \/ ParseFailed(c) \/ Panic(c) \/ Evaluate(c)
            => /\ hook'[c].pc # "collect"
               /\ \A d \in Calls \ {c} : hook'[d] = hook[d]
  <1> DEFINE Away == hook'[c].pc # "collect" /\ \A d \in Calls \ {c} : hook'[d] = hook[d]
  <1>1. ASSUME ReadPubkeyList(c) \/ ReadConfig(c) \/ ReadZeroconf(c) PROVE Away
    BY <1>1 DEF ReadPubkeyList, ReadConfig, ReadZeroconf, HookRecord
  <1>2. ASSUME Decide(c) PROVE Away
    BY <1>2 DEF Decide, HookRecord
  <1>3. ASSUME Notify(c) \/ MailEnds(c) \/ ParseFailed(c) PROVE Away
    BY <1>3 DEF Notify, MailEnds, ParseFailed, HookRecord
  <1>4. ASSUME CollectFailed(c) \/ Evaluate(c) PROVE Away
    BY <1>4 DEF CollectFailed, Evaluate, HookRecord
  <1>5. ASSUME NotifyPanics(c) \/ Panic(c) PROVE Away
    <2> DEFINE h == [IdleHook EXCEPT !.pc = "panicked", !.rule = hook[c].rule]
    <2>1. h.pc = "panicked" /\ hook' = [hook EXCEPT ![c] = h]
      BY <1>5 DEF NotifyPanics, Panic, IdleHook
    <2> HIDE DEF h
    <2> QED BY <2>1
  <1>6. ASSUME Answered(c) PROVE Away
    BY <1>6 DEF Answered, IdleHook
  <1> QED BY <1>1, <1>2, <1>3, <1>4, <1>5, <1>6

LEMMA TiedNext == HookInv /\ TiedInv /\ [Next]_vars => TiedInv'
  <1> SUFFICES ASSUME HookInv, TiedInv, [Next]_vars PROVE TiedInv'
    OBVIOUS
  <1>1. hook \in [Calls -> HookRecord] /\ task \in [Calls -> TaskRecord] /\ CollectInv
    BY DEF HookInv, TypeOK, CollectInv, CollectTypeOK
  <1>2. ASSUME NEW c \in Calls, NEW p \in Peers, NEW o \in Openings, NEW k \in HookKinds,
               NEW z \in BOOLEAN, OpenChannel(c, k, p, o, z)
        PROVE  TiedInv'
    <2> DEFINE h == [IdleHook EXCEPT !.pc = "list", !.kind = k, !.peer = p, !.opening = o,
                       !.bit50 = z,
                       !.moments = {Moment(p, config, pubkey_list, zero_conf_list)}]
    <2>1. h.pc = "list"
      BY DEF IdleHook
    <2>2. hook' = [hook EXCEPT ![c] = h] /\ UNCHANGED task
      BY <1>2 DEF OpenChannel
    <2> HIDE DEF h
    <2> QED BY <1>1, <2>1, <2>2, OneTieChanges DEF TiedInv, Tied
  <1>3. ASSUME NEW c \in Calls, NEW p \in Peers, NEW o \in Openings, NEW r \in TestRules,
               TestRule(c, p, o, r)
        PROVE  TiedInv'
    <2> DEFINE h == [IdleHook EXCEPT !.pc = "collect", !.kind = "testrule", !.peer = p,
                                     !.opening = o, !.rule = r]
    <2>1. h.rule = r
      BY DEF IdleHook
    <2>2. hook' = [hook EXCEPT ![c] = h] /\ CollectBegin(c, p, o, r)
      BY <1>3 DEF TestRule
    <2>3. /\ task'[c].pc \in {"peer", "lookup"} /\ task'[c].rule = r
          /\ \A d \in Calls \ {c} : task'[d] = task[d]
      BY <1>1, <2>2, BeginTied
    <2> HIDE DEF h
    <2> QED BY <1>1, <2>1, <2>2, <2>3, OneTieChanges DEF Tied
  <1>4. ASSUME NEW c \in Calls,
               \/ ReadPubkeyList(c) \/ ReadConfig(c) \/ ReadZeroconf(c) \/ Decide(c)
               \/ Notify(c) \/ NotifyPanics(c) \/ MailEnds(c) \/ Answered(c)
        PROVE  TiedInv'
    <2>1. UNCHANGED task
      BY <1>4 DEF ReadPubkeyList, ReadConfig, ReadZeroconf, Decide, Notify, NotifyPanics,
                  MailEnds, Answered
    <2> QED BY <1>1, <1>4, <2>1, StepsAway, OneTieChanges DEF TiedInv, Tied
  <1>5. ASSUME NEW c \in Calls, BeginCollect(c) PROVE TiedInv'
    <2>1. hook' = [hook EXCEPT ![c].pc = "collect"]
          /\ CollectBegin(c, hook[c].peer, hook[c].opening, hook[c].rule)
      BY <1>5 DEF BeginCollect
    <2>2. /\ task'[c].pc \in {"peer", "lookup"} /\ task'[c].rule = hook[c].rule
          /\ \A d \in Calls \ {c} : task'[d] = task[d]
      BY <1>1, <2>1, BeginTied
    <2>3. hook'[c].rule = hook[c].rule /\ \A d \in Calls \ {c} : hook'[d] = hook[d]
      BY <1>1, <2>1 DEF HookRecord
    <2> QED BY <2>2, <2>3, OneTieChanges DEF Tied
  <1>6. ASSUME NEW c \in Calls, Collecting(c) PROVE TiedInv'
    <2>1. CollectStep(c) /\ UNCHANGED hook
      BY <1>6 DEF Collecting, hookVars
    <2> QED BY <1>1, <2>1, CollectStepTied, OneTieChanges DEF TiedInv, Tied
  <1>7. ASSUME NEW c \in Calls,
               CollectFailed(c) \/ ParseFailed(c) \/ Panic(c) \/ Evaluate(c)
        PROVE  TiedInv'
    <2>1. task'[c].pc = "idle" /\ \A d \in Calls \ {c} : task'[d] = task[d]
      BY <1>1, <1>7 DEF CollectFailed, ParseFailed, Panic, Evaluate, IdleTask
    <2>2. hook'[c].pc # "collect" /\ \A d \in Calls \ {c} : hook'[d] = hook[d]
      BY <1>1, <1>7, StepsAway
    <2> QED BY <2>1, <2>2, OneTieChanges DEF Tied
  <1>8. CASE \/ \E m \in Modes : SetBlockMode(m)
             \/ \E r \in ConfigRules : SetCustomRule(r)
             \/ \E l \in SUBSET Peers : SetPubkeyList(l) \/ SetZeroconfList(l)
    <2>1. Witnessed /\ UNCHANGED task
      BY <1>8 DEF SetBlockMode, SetCustomRule, SetPubkeyList, SetZeroconfList, ClearCache
    <2>2. config' \in Config
      BY <1>8, ChangeInv DEF HookInv, TypeOK
    <2> QED BY <2>1, <2>2, WitnessedKeepsShape DEF TiedInv, Tied
  <1>9. CASE HookTick \/ (\E m \in MailSettings : SetMail(m)) \/ UNCHANGED vars
    BY <1>9 DEF HookTick, Tick, SetMail, hookVars, vars, TiedInv, Tied
  <1> QED BY <1>2, <1>3, <1>4, <1>5, <1>6, <1>7, <1>8, <1>9 DEF Next, HookStep

LEMMA TiedInit == Init => TiedInv
  <1>1. IdleHook.pc = "idle" /\ IdleTask.pc = "idle"
    BY DEF IdleHook, IdleTask
  <1> QED BY <1>1 DEF Init, CollectInit, TiedInv, Tied

(***************************************************************************)
(* Every answer is the documented policy's.                                *)
(***************************************************************************)

\* The hook is one lightningd waits for, and its history is still kept.
Tracked(h) == h.pc \notin {"idle", "panicked"} /\ h.kind # "testrule" /\ h.changes <= 1

\* Moment m is what the hook has read so far, and what it has yet to read is
\* still what m says.
Agrees(h, m) ==
  /\ m.listed <=> IF h.pc = "list" THEN h.peer \in pubkey_list ELSE h.listed
  /\ IF h.pc \in {"list", "config"}
     THEN m.mode = config.block_mode /\ m.rule = config.custom_rule
     ELSE m.mode = h.mode /\ m.rule = h.rule
  /\ m.zero <=> IF h.pc \in {"list", "config", "zero"} THEN h.peer \in zero_conf_list
                ELSE h.zero

\* The opening has been judged.
Judged == {"notify", "mail", "answered"}

\* The verdict is missing exactly where the rule is not consulted.
VerdictFits(h) ==
  /\ h.pc \in {"list", "config", "zero", "begin", "collect"} => h.verdict = None
  /\ h.pc \in {"begin", "collect"} => ~h.listed /\ h.rule # None
  /\ h.pc = "decide" => IF h.listed \/ h.rule = None THEN h.verdict = None
                        ELSE h.verdict \in {"true", "false"}
  /\ h.pc \in {"zero", "begin", "collect", "decide"} => h.mode \in Modes
  /\ h.pc \notin Judged => ~h.accept /\ ~h.mindepth0

\* The answer is the policy's for what the hook read.
AnswerFits(h) ==
  h.pc \in Judged =>
    /\ h.accept <=> Promise!Policy(h, h.verdict)
    /\ h.mindepth0 <=> h.accept /\ h.zero /\ h.kind = "openchannel" /\ h.bit50

\* Before the first change the only moment is the present one.
OneMoment(h) ==
  h.changes = 0 => h.moments = {Moment(h.peer, config, pubkey_list, zero_conf_list)}

PolicyFor(h) ==
  Tracked(h) =>
    /\ \E m \in h.moments : Agrees(h, m)
    /\ OneMoment(h)
    /\ VerdictFits(h)
    /\ AnswerFits(h)

PolicyInv == \A c \in Calls : PolicyFor(hook[c])

\* The invariant gives the property: at the answer everything has been read.
LEMMA PolicyInvSuffices == HookInv /\ PolicyInv => AnswersFollowPolicy
  <1> SUFFICES ASSUME HookInv, PolicyInv, NEW c \in Calls, hook[c].pc = "answered",
                      hook[c].kind # "testrule", hook[c].changes <= 1
               PROVE  \E m \in hook[c].moments :
                        /\ m.rule = hook[c].rule
                        /\ hook[c].accept <=> Promise!Policy(m, hook[c].verdict)
                        /\ hook[c].mindepth0 <=>
                             /\ hook[c].accept /\ m.zero
                             /\ hook[c].kind = "openchannel" /\ hook[c].bit50
    BY DEF AnswersFollowPolicy
  <1>1. /\ \E m \in hook[c].moments : Agrees(hook[c], m)
        /\ AnswerFits(hook[c])
    BY DEF PolicyInv, PolicyFor, Tracked
  <1>2. PICK m \in hook[c].moments : Agrees(hook[c], m)
    BY <1>1
  <1>3. /\ m.listed <=> hook[c].listed
        /\ m.mode = hook[c].mode /\ m.rule = hook[c].rule
        /\ m.zero <=> hook[c].zero
    BY <1>2 DEF Agrees
  <1>4. Promise!Policy(m, hook[c].verdict) <=> Promise!Policy(hook[c], hook[c].verdict)
    BY <1>3 DEF Promise!Policy
  <1> QED BY <1>1, <1>2, <1>3, <1>4 DEF AnswerFits, Judged

\* A handler's own step leaves what the others have seen alone.
LEMMA OnePolicyChanges ==
  ASSUME HookInv, PolicyInv, NEW c \in Calls, NEW h, hook' = [hook EXCEPT ![c] = h],
         UNCHANGED <<config, pubkey_list, zero_conf_list>>, PolicyFor(h)
  PROVE  PolicyInv'
  <1>1. hook \in [Calls -> HookRecord]
    BY DEF HookInv, TypeOK
  <1>2. \A d \in Calls : PolicyFor(hook'[d])
    BY <1>1 DEF PolicyInv
  <1> QED BY <1>2 DEF PolicyInv, PolicyFor, Tracked, Agrees, OneMoment, VerdictFits,
                      AnswerFits, Judged, Promise!Policy

LEMMA ReadsKeepPolicy ==
  ASSUME HookInv, PolicyInv, NEW c \in Calls,
         ReadPubkeyList(c) \/ ReadConfig(c) \/ ReadZeroconf(c)
  PROVE  PolicyInv'
  <1>1. hook[c] \in HookRecord /\ PolicyFor(hook[c]) /\ config \in Config
        /\ hook \in [Calls -> HookRecord]
    BY HookFacts DEF PolicyInv
  <1>2. CASE ReadPubkeyList(c)
    <2> DEFINE l == hook[c].peer \in pubkey_list
               h == [hook[c] EXCEPT !.pc = "config", !.listed = l]
    <2>1. /\ h.pc = "config" /\ h.listed = l /\ hook[c].pc = "list"
          /\ h.kind = hook[c].kind /\ h.changes = hook[c].changes
          /\ h.peer = hook[c].peer /\ h.moments = hook[c].moments
          /\ h.mode = hook[c].mode /\ h.rule = hook[c].rule /\ h.zero = hook[c].zero
          /\ h.verdict = hook[c].verdict
          /\ h.accept = hook[c].accept /\ h.mindepth0 = hook[c].mindepth0
      BY <1>1, <1>2 DEF ReadPubkeyList, HookRecord
    <2>2. hook' = [hook EXCEPT ![c] = h] /\ UNCHANGED <<config, pubkey_list, zero_conf_list>>
      BY <1>2 DEF ReadPubkeyList
    <2> HIDE DEF h
    <2>3. PolicyFor(h)
      BY <1>1, <2>1 DEF PolicyFor, Tracked, Agrees, OneMoment, VerdictFits, AnswerFits, Judged
    <2> QED BY <2>2, <2>3, OnePolicyChanges
  <1>3. CASE ReadConfig(c)
    <2> DEFINE h == [hook[c] EXCEPT !.pc = "zero", !.mode = config.block_mode,
                                    !.rule = config.custom_rule]
    <2>1. /\ h.pc = "zero" /\ h.mode = config.block_mode /\ h.rule = config.custom_rule
          /\ hook[c].pc = "config"
          /\ h.kind = hook[c].kind /\ h.changes = hook[c].changes
          /\ h.peer = hook[c].peer /\ h.moments = hook[c].moments
          /\ h.listed = hook[c].listed /\ h.zero = hook[c].zero
          /\ h.verdict = hook[c].verdict
          /\ h.accept = hook[c].accept /\ h.mindepth0 = hook[c].mindepth0
      BY <1>1, <1>3 DEF ReadConfig, HookRecord
    <2>2. hook' = [hook EXCEPT ![c] = h] /\ UNCHANGED <<config, pubkey_list, zero_conf_list>>
      BY <1>3 DEF ReadConfig
    <2> HIDE DEF h
    <2>3. PolicyFor(h)
      BY <1>1, <2>1 DEF PolicyFor, Tracked, Agrees, OneMoment, VerdictFits, AnswerFits, Judged,
                             Config
    <2> QED BY <2>2, <2>3, OnePolicyChanges
  <1>4. CASE ReadZeroconf(c)
    <2> DEFINE next == IF ~hook[c].listed /\ hook[c].rule # None THEN "begin" ELSE "decide"
               z == hook[c].peer \in zero_conf_list
               h == [hook[c] EXCEPT !.pc = next, !.zero = z]
    <2>1. /\ h.pc = next /\ h.zero = z /\ hook[c].pc = "zero"
          /\ h.kind = hook[c].kind /\ h.changes = hook[c].changes
          /\ h.peer = hook[c].peer /\ h.moments = hook[c].moments
          /\ h.listed = hook[c].listed /\ h.mode = hook[c].mode /\ h.rule = hook[c].rule
          /\ h.verdict = hook[c].verdict
          /\ h.accept = hook[c].accept /\ h.mindepth0 = hook[c].mindepth0
      BY <1>1, <1>4 DEF ReadZeroconf, HookRecord
    <2>2. hook' = [hook EXCEPT ![c] = h] /\ UNCHANGED <<config, pubkey_list, zero_conf_list>>
      BY <1>4 DEF ReadZeroconf
    <2> HIDE DEF h
    <2>3. PolicyFor(h)
      <3> SUFFICES ASSUME Tracked(h) PROVE PolicyFor(h)
        BY DEF PolicyFor
      <3>1. /\ \E m \in hook[c].moments : Agrees(hook[c], m)
            /\ OneMoment(hook[c]) /\ VerdictFits(hook[c])
        BY <1>1, <2>1 DEF PolicyFor, Tracked
      <3>2. \E m \in h.moments : Agrees(h, m)
        BY <2>1, <3>1 DEF Agrees
      <3>3. OneMoment(h)
        BY <2>1, <3>1 DEF OneMoment
      <3>4. h.mode \in Modes
        BY <2>1, <3>1 DEF VerdictFits
      <3>5. VerdictFits(h) /\ AnswerFits(h)
        BY <2>1, <3>1, <3>4 DEF VerdictFits, AnswerFits, Judged
      <3> QED BY <3>2, <3>3, <3>5 DEF PolicyFor
    <2> QED BY <2>2, <2>3, OnePolicyChanges
  <1> QED BY <1>2, <1>3, <1>4

LEMMA OpenChannelKeepsPolicy ==
  ASSUME HookInv, PolicyInv, NEW c \in Calls, NEW p \in Peers, NEW o \in Openings,
         NEW k \in HookKinds, NEW z \in BOOLEAN, OpenChannel(c, k, p, o, z)
  PROVE  PolicyInv'
  <1> DEFINE m == Moment(p, config, pubkey_list, zero_conf_list)
             h == [IdleHook EXCEPT !.pc = "list", !.kind = k, !.peer = p, !.opening = o,
                                   !.bit50 = z, !.moments = {m}]
  <1>1. hook' = [hook EXCEPT ![c] = h] /\ UNCHANGED <<config, pubkey_list, zero_conf_list>>
    BY DEF OpenChannel
  <1>2. /\ h.pc = "list" /\ h.peer = p /\ h.moments = {m} /\ h.changes = 0
        /\ h.verdict = None /\ ~h.accept /\ ~h.mindepth0
    BY DEF IdleHook
  <1> HIDE DEF h
  <1>3. m.mode = config.block_mode /\ m.rule = config.custom_rule
        /\ (m.listed <=> p \in pubkey_list) /\ (m.zero <=> p \in zero_conf_list)
    BY DEF Moment
  <1>4. Agrees(h, m)
    BY <1>2, <1>3 DEF Agrees
  <1>5. OneMoment(h) /\ VerdictFits(h) /\ AnswerFits(h)
    BY <1>2 DEF OneMoment, VerdictFits, AnswerFits, Judged
  <1>6. PolicyFor(h)
    BY <1>2, <1>4, <1>5 DEF PolicyFor
  <1> QED BY <1>1, <1>6, OnePolicyChanges

\* Idle and panicked handlers and testrule calls are not tracked.
LEMMA UntrackedKeepsPolicy ==
  ASSUME HookInv, PolicyInv, NEW c \in Calls,
         \/ Answered(c) \/ Panic(c) \/ NotifyPanics(c) \/ ParseFailed(c)
         \/ \E p \in Peers, o \in Openings, r \in TestRules : TestRule(c, p, o, r)
  PROVE  PolicyInv'
  <1>1. UNCHANGED <<config, pubkey_list, zero_conf_list>>
    BY DEF Answered, Panic, NotifyPanics, ParseFailed, TestRule
  <1>2. CASE Answered(c)
    <2>1. hook' = [hook EXCEPT ![c] = IdleHook] /\ PolicyFor(IdleHook)
      BY <1>2 DEF Answered, PolicyFor, Tracked, IdleHook
    <2> QED BY <1>1, <2>1, OnePolicyChanges
  <1>3. CASE Panic(c) \/ NotifyPanics(c)
    <2> DEFINE h == [IdleHook EXCEPT !.pc = "panicked", !.rule = hook[c].rule]
    <2>1. hook' = [hook EXCEPT ![c] = h] /\ PolicyFor(h)
      BY <1>3 DEF Panic, NotifyPanics, PolicyFor, Tracked, IdleHook
    <2> QED BY <1>1, <2>1, OnePolicyChanges
  <1>5. CASE ParseFailed(c)
    <2> DEFINE h == [hook[c] EXCEPT !.pc = "answered", !.verdict = "error"]
    <2>1. hook[c] \in HookRecord /\ hook \in [Calls -> HookRecord] /\ hook[c].kind = "testrule"
      BY <1>5, HookFacts DEF ParseFailed
    <2>2. hook' = [hook EXCEPT ![c] = h] /\ h.kind = "testrule"
      BY <1>5, <2>1 DEF ParseFailed, HookRecord
    <2> HIDE DEF h
    <2>3. PolicyFor(h)
      BY <2>2 DEF PolicyFor, Tracked
    <2> QED BY <1>1, <2>2, <2>3, OnePolicyChanges
  <1>4. ASSUME NEW p \in Peers, NEW o \in Openings, NEW r \in TestRules,
               TestRule(c, p, o, r)
        PROVE  PolicyInv'
    <2> DEFINE h == [IdleHook EXCEPT !.pc = "collect", !.kind = "testrule", !.peer = p,
                                     !.opening = o, !.rule = r]
    <2>1. hook' = [hook EXCEPT ![c] = h] /\ PolicyFor(h)
      BY <1>4 DEF TestRule, PolicyFor, Tracked, IdleHook
    <2> QED BY <1>1, <2>1, OnePolicyChanges
  <1> QED BY <1>2, <1>3, <1>4, <1>5

\* While its data is being collected a hook learns nothing about the lists.
LEMMA CollectingKeepsPolicy ==
  ASSUME HookInv, PolicyInv, NEW c \in Calls, BeginCollect(c) \/ Collecting(c)
  PROVE  PolicyInv'
  <1>1. CASE BeginCollect(c)
    <2> DEFINE h == [hook[c] EXCEPT !.pc = "collect"]
    <2>1. hook[c] \in HookRecord /\ PolicyFor(hook[c])
      BY HookFacts DEF PolicyInv
    <2>2. hook' = [hook EXCEPT ![c] = h] /\ UNCHANGED <<config, pubkey_list, zero_conf_list>>
      BY <1>1, <2>1, HookFacts DEF BeginCollect, HookRecord
    <2>3. /\ hook[c].pc = "begin" /\ h.pc = "collect"
          /\ h.kind = hook[c].kind /\ h.changes = hook[c].changes
          /\ h.peer = hook[c].peer /\ h.moments = hook[c].moments
          /\ h.listed = hook[c].listed /\ h.mode = hook[c].mode /\ h.rule = hook[c].rule
          /\ h.zero = hook[c].zero /\ h.verdict = hook[c].verdict
          /\ h.accept = hook[c].accept /\ h.mindepth0 = hook[c].mindepth0
      BY <1>1, <2>1 DEF BeginCollect, HookRecord
    <2> HIDE DEF h
    <2>4. PolicyFor(h)
      BY <2>1, <2>3 DEF PolicyFor, Tracked, Agrees, OneMoment, VerdictFits, AnswerFits, Judged
    <2> QED BY <2>2, <2>4, OnePolicyChanges
  <1>2. CASE Collecting(c)
    BY <1>2 DEF Collecting, hookVars, PolicyInv, PolicyFor, Tracked, Agrees, OneMoment,
                VerdictFits, AnswerFits, Judged, Promise!Policy
  <1> QED BY <1>1, <1>2

\* The outcome of the collection fixes the verdict; an error fails closed.
LEMMA OutcomeKeepsPolicy ==
  ASSUME HookInv, PolicyInv, NEW c \in Calls, CollectFailed(c) \/ Evaluate(c)
  PROVE  PolicyInv'
  <1>1. /\ hook[c] \in HookRecord /\ PolicyFor(hook[c]) /\ hook \in [Calls -> HookRecord]
        /\ hook[c].pc = "collect"
    BY HookFacts DEF PolicyInv, CollectFailed, Evaluate
  <1>2. UNCHANGED <<config, pubkey_list, zero_conf_list>>
    BY DEF CollectFailed, Evaluate
  <1>3. ASSUME NEW pc, NEW v \in Verdicts, NEW l,
               hook' = [hook EXCEPT ![c].pc = pc, ![c].verdict = v, ![c].level = l],
               hook[c].kind # "testrule" =>
                 (pc = "notify" /\ v = "error") \/ (pc = "decide" /\ v # "error")
        PROVE  PolicyInv'
    <2> DEFINE h == [hook[c] EXCEPT !.pc = pc, !.verdict = v, !.level = l]
    <2>1. /\ h.pc = pc /\ h.verdict = v
          /\ h.kind = hook[c].kind /\ h.changes = hook[c].changes
          /\ h.peer = hook[c].peer /\ h.moments = hook[c].moments
          /\ h.listed = hook[c].listed /\ h.mode = hook[c].mode /\ h.rule = hook[c].rule
          /\ h.zero = hook[c].zero
          /\ h.accept = hook[c].accept /\ h.mindepth0 = hook[c].mindepth0
      BY <1>1 DEF HookRecord
    <2>2. hook' = [hook EXCEPT ![c] = h]
      BY <1>1, <1>3 DEF HookRecord
    <2> HIDE DEF h
    <2>3. PolicyFor(h)
      <3> SUFFICES ASSUME Tracked(h) PROVE PolicyFor(h)
        BY DEF PolicyFor
      <3>1. /\ \E m \in hook[c].moments : Agrees(hook[c], m)
            /\ OneMoment(hook[c]) /\ VerdictFits(hook[c])
        BY <1>1, <2>1 DEF PolicyFor, Tracked
      <3>7. h.pc \in {"notify", "decide"}
        BY <1>3, <2>1 DEF Tracked
      <3>8. \E m \in h.moments : Agrees(h, m)
        BY <1>1, <2>1, <3>1, <3>7 DEF Agrees
      <3>2. (\E m \in h.moments : Agrees(h, m)) /\ OneMoment(h)
        BY <2>1, <3>1, <3>8 DEF OneMoment
      <3>4. /\ hook[c].kind # "testrule" /\ ~hook[c].listed /\ hook[c].rule # None
            /\ hook[c].mode \in Modes /\ ~h.accept /\ ~h.mindepth0
        BY <1>1, <2>1, <3>1 DEF VerdictFits, Judged, Tracked
      <3>5. ASSUME h.pc = "notify", v = "error" PROVE VerdictFits(h) /\ AnswerFits(h)
        BY <2>1, <3>4, <3>5 DEF VerdictFits, AnswerFits, Judged, Promise!Policy
      <3>6. ASSUME h.pc = "decide", v # "error" PROVE VerdictFits(h) /\ AnswerFits(h)
        BY <2>1, <3>4, <3>6 DEF VerdictFits, AnswerFits, Judged, Verdicts
      <3>3. VerdictFits(h) /\ AnswerFits(h)
        BY <1>3, <2>1, <3>4, <3>5, <3>6
      <3> QED BY <3>2, <3>3 DEF PolicyFor
    <2> QED BY <1>2, <2>2, <2>3, OnePolicyChanges
  <1>4. CASE CollectFailed(c)
    BY <1>3, <1>4 DEF CollectFailed, Verdicts
  <1>5. CASE Evaluate(c)
    <2>1. PICK v \in {"true", "false"} :
            hook' = [hook EXCEPT
              ![c].pc = IF hook[c].kind = "testrule" THEN "notify" ELSE "decide",
              ![c].verdict = v,
              ![c].level = IF hook[c].kind = "testrule" THEN "error" ELSE None]
      BY <1>5 DEF Evaluate
    <2> QED BY <1>3, <2>1 DEF Verdicts
  <1> QED BY <1>4, <1>5

\* A judgement does not change while the operator is told of it.
LEMMA NotifyKeepsPolicy ==
  ASSUME HookInv, PolicyInv, NEW c \in Calls, Notify(c) \/ MailEnds(c)
  PROVE  PolicyInv'
  <1>1. /\ hook[c] \in HookRecord /\ PolicyFor(hook[c]) /\ hook \in [Calls -> HookRecord]
        /\ hook[c].pc \in {"notify", "mail"}
    BY HookFacts DEF PolicyInv, Notify, MailEnds
  <1>2. PICK pc \in {"mail", "answered"} : hook' = [hook EXCEPT ![c].pc = pc]
    BY DEF Notify, MailEnds
  <1> DEFINE h == [hook[c] EXCEPT !.pc = pc]
  <1>3. hook' = [hook EXCEPT ![c] = h] /\ UNCHANGED <<config, pubkey_list, zero_conf_list>>
    BY <1>1, <1>2 DEF Notify, MailEnds, HookRecord
  <1>4. /\ h.pc = pc
        /\ h.kind = hook[c].kind /\ h.changes = hook[c].changes
        /\ h.peer = hook[c].peer /\ h.moments = hook[c].moments
        /\ h.listed = hook[c].listed /\ h.mode = hook[c].mode /\ h.rule = hook[c].rule
        /\ h.zero = hook[c].zero /\ h.verdict = hook[c].verdict /\ h.bit50 = hook[c].bit50
        /\ h.accept = hook[c].accept /\ h.mindepth0 = hook[c].mindepth0
    BY <1>1 DEF HookRecord
  <1> HIDE DEF h
  <1>5. PolicyFor(h)
    <2> SUFFICES ASSUME Tracked(h) PROVE PolicyFor(h)
      BY DEF PolicyFor
    <2>1. /\ \E m \in hook[c].moments : Agrees(hook[c], m)
          /\ OneMoment(hook[c]) /\ VerdictFits(hook[c]) /\ AnswerFits(hook[c])
      BY <1>1, <1>4 DEF PolicyFor, Tracked
    <2>2. (\E m \in h.moments : Agrees(h, m)) /\ OneMoment(h)
      BY <1>1, <1>4, <2>1 DEF Agrees, OneMoment
    <2>3. VerdictFits(h) /\ AnswerFits(h)
      BY <1>1, <1>4, <2>1 DEF VerdictFits, AnswerFits, Judged, Promise!Policy
    <2> QED BY <2>2, <2>3 DEF PolicyFor
  <1> QED BY <1>3, <1>5, OnePolicyChanges

\* The decision is the documented policy for what the hook read.
LEMMA DecideKeepsPolicy ==
  ASSUME HookInv, PolicyInv, NEW c \in Calls, Decide(c)
  PROVE  PolicyInv'
  <1> DEFINE ok == Accepted(hook[c])
             deep == /\ ok /\ hook[c].zero
                     /\ hook[c].kind = "openchannel" /\ hook[c].bit50
             lv == IF ok THEN "accepted" ELSE "all"
             h == [hook[c] EXCEPT !.pc = "notify", !.accept = ok, !.level = lv,
                                  !.mindepth0 = deep]
  <1>1. /\ hook[c] \in HookRecord /\ PolicyFor(hook[c]) /\ hook \in [Calls -> HookRecord]
        /\ hook[c].pc = "decide"
    BY HookFacts DEF PolicyInv, Decide
  <1>2. hook' = [hook EXCEPT ![c] = h] /\ UNCHANGED <<config, pubkey_list, zero_conf_list>>
    BY <1>1 DEF Decide, HookRecord
  <1>3. (ok <=> Accepted(hook[c]))
        /\ (deep <=> ok /\ hook[c].zero /\ hook[c].kind = "openchannel" /\ hook[c].bit50)
    OBVIOUS
  <1> HIDE DEF ok, lv, deep
  <1>4. /\ h.pc = "notify" /\ h.accept = ok /\ h.mindepth0 = deep
        /\ h.kind = hook[c].kind /\ h.changes = hook[c].changes
        /\ h.peer = hook[c].peer /\ h.moments = hook[c].moments
        /\ h.listed = hook[c].listed /\ h.mode = hook[c].mode /\ h.rule = hook[c].rule
        /\ h.zero = hook[c].zero /\ h.verdict = hook[c].verdict /\ h.bit50 = hook[c].bit50
    BY <1>1 DEF HookRecord
  <1> HIDE DEF h
  <1>5. PolicyFor(h)
    <2> SUFFICES ASSUME Tracked(h) PROVE PolicyFor(h)
      BY DEF PolicyFor
    <2>1. /\ \E m \in hook[c].moments : Agrees(hook[c], m)
          /\ OneMoment(hook[c]) /\ VerdictFits(hook[c])
      BY <1>1, <1>4 DEF PolicyFor, Tracked
    <2>2. (\E m \in h.moments : Agrees(h, m)) /\ OneMoment(h)
      BY <1>1, <1>4, <2>1 DEF Agrees, OneMoment
    <2>3. VerdictFits(h)
      BY <1>4 DEF VerdictFits, Judged
    <2>4. Accepted(hook[c]) <=> Promise!Policy(h, h.verdict)
      BY <1>1, <1>4, <2>1, ReleaseHookAssumption
         DEF Accepted, Promise!Policy, VerdictFits, Verdicts, Judged
    <2>5. AnswerFits(h)
      BY <1>3, <1>4, <2>4 DEF AnswerFits
    <2> QED BY <2>2, <2>3, <2>5 DEF PolicyFor
  <1> QED BY <1>2, <1>5, OnePolicyChanges

\* One change of the configuration or of a list: the hook agrees with the
\* moment after it if it has yet to read what changed, else with the one
\* before.
LEMMA ChangeKeepsPolicy ==
  ASSUME HookInv, PolicyInv,
         \/ \E m \in Modes : SetBlockMode(m)
         \/ \E r \in ConfigRules : SetCustomRule(r)
         \/ \E l \in SUBSET Peers : SetPubkeyList(l) \/ SetZeroconfList(l)
  PROVE  PolicyInv'
  <1>1. /\ Witnessed
        /\ \/ UNCHANGED <<pubkey_list, zero_conf_list>>
           \/ UNCHANGED <<config, zero_conf_list>>
           \/ UNCHANGED <<config, pubkey_list>>
    BY DEF SetBlockMode, SetCustomRule, SetPubkeyList, SetZeroconfList
  <1>2. SUFFICES ASSUME NEW c \in Calls, Tracked(hook'[c])
                 PROVE  /\ \E m \in hook'[c].moments : Agrees(hook[c], m)'
                        /\ hook'[c].changes # 0
                        /\ VerdictFits(hook'[c]) /\ AnswerFits(hook'[c])
    BY DEF PolicyInv, PolicyFor, Tracked, OneMoment, VerdictFits, AnswerFits, Judged, Promise!Policy
  <1> DEFINE h == hook[c]
             m0 == Moment(h.peer, config, pubkey_list, zero_conf_list)
             m1 == Moment(h.peer, config', pubkey_list', zero_conf_list')
             ms == h.moments \cup {m1}
             h1 == [h EXCEPT !.changes = 1, !.moments = ms]
             h2 == [h EXCEPT !.changes = 2, !.moments = {}]
  <1>3. h \in HookRecord /\ PolicyFor(h)
    BY HookFacts, SMTT(30) DEF PolicyInv
  <1>4. hook'[c] = IF h.moments = {} THEN h ELSE IF h.changes = 0 THEN h1 ELSE h2
    BY <1>1 DEF Witnessed
  <1>5. h2.changes = 2
    BY <1>3 DEF HookRecord
  <1>6. h.moments # {} /\ h.changes = 0
    <2>1. CASE h.moments = {}
      BY <1>2, <1>3, <1>4, <2>1 DEF PolicyFor
    <2>2. CASE h.moments # {} /\ h.changes # 0
      BY <1>2, <1>4, <1>5, <2>2 DEF Tracked
    <2> QED BY <2>1, <2>2
  <1>7. hook'[c] = h1
    BY <1>4, <1>6
  <1>8. /\ h1.moments = ms /\ h1.changes = 1
        /\ h1.pc = h.pc /\ h1.kind = h.kind /\ h1.peer = h.peer
        /\ h1.listed = h.listed /\ h1.mode = h.mode /\ h1.rule = h.rule
        /\ h1.zero = h.zero /\ h1.verdict = h.verdict /\ h1.bit50 = h.bit50
        /\ h1.accept = h.accept /\ h1.mindepth0 = h.mindepth0
    BY <1>3 DEF HookRecord
  <1>9. Tracked(h) /\ h.moments = {m0} /\ Agrees(h, m0) /\ VerdictFits(h) /\ AnswerFits(h)
    BY <1>2, <1>3, <1>6, <1>7, <1>8 DEF Tracked, PolicyFor, OneMoment
  <1>10. /\ m0.mode = config.block_mode /\ m0.rule = config.custom_rule
         /\ (m0.listed <=> h.peer \in pubkey_list) /\ (m0.zero <=> h.peer \in zero_conf_list)
         /\ m1.mode = config'.block_mode /\ m1.rule = config'.custom_rule
         /\ (m1.listed <=> h.peer \in pubkey_list') /\ (m1.zero <=> h.peer \in zero_conf_list')
         /\ m0 \in ms /\ m1 \in ms
    BY <1>9 DEF Moment
  <1> HIDE DEF m0, m1, ms, h1, h2, h
  <1>11. ASSUME NEW m \in ms,
                /\ m.listed <=> IF h.pc = "list" THEN h.peer \in pubkey_list' ELSE h.listed
                /\ IF h.pc \in {"list", "config"}
                   THEN m.mode = config'.block_mode /\ m.rule = config'.custom_rule
                   ELSE m.mode = h.mode /\ m.rule = h.rule
                /\ m.zero <=> IF h.pc \in {"list", "config", "zero"}
                              THEN h.peer \in zero_conf_list' ELSE h.zero
         PROVE  \E x \in hook'[c].moments : Agrees(hook[c], x)'
    BY <1>7, <1>8, <1>11 DEF Agrees
  <1>12. \E x \in hook'[c].moments : Agrees(hook[c], x)'
    <2>1. CASE UNCHANGED <<pubkey_list, zero_conf_list>>
      <3>1. CASE h.pc \in {"list", "config"}
        BY <1>9, <1>10, <1>11, <2>1, <3>1 DEF Agrees
      <3>2. CASE h.pc \notin {"list", "config"}
        BY <1>9, <1>10, <1>11, <2>1, <3>2 DEF Agrees
      <3> QED BY <3>1, <3>2
    <2>2. CASE UNCHANGED <<config, zero_conf_list>>
      <3>1. CASE h.pc = "list"
        BY <1>9, <1>10, <1>11, <2>2, <3>1 DEF Agrees
      <3>2. CASE h.pc # "list"
        BY <1>9, <1>10, <1>11, <2>2, <3>2 DEF Agrees
      <3> QED BY <3>1, <3>2
    <2>3. CASE UNCHANGED <<config, pubkey_list>>
      <3>1. CASE h.pc \in {"list", "config", "zero"}
        BY <1>9, <1>10, <1>11, <2>3, <3>1 DEF Agrees
      <3>2. CASE h.pc \notin {"list", "config", "zero"}
        BY <1>9, <1>10, <1>11, <2>3, <3>2 DEF Agrees
      <3> QED BY <3>1, <3>2
    <2> QED BY <1>1, <2>1, <2>2, <2>3
  <1>13. VerdictFits(h1) /\ AnswerFits(h1)
    BY <1>8, <1>9 DEF VerdictFits, AnswerFits, Judged, Promise!Policy
  <1> QED BY <1>7, <1>8, <1>12, <1>13

LEMMA PolicyInit == Init => PolicyInv
  BY DEF Init, PolicyInv, PolicyFor, Tracked, IdleHook

LEMMA PolicyNext == HookInv /\ PolicyInv /\ [Next]_vars => PolicyInv'
  <1> SUFFICES ASSUME HookInv, PolicyInv, [Next]_vars PROVE PolicyInv'
    OBVIOUS
  <1>1. ASSUME NEW c \in Calls, NEW p \in Peers, NEW o \in Openings, NEW k \in HookKinds,
               NEW z \in BOOLEAN, OpenChannel(c, k, p, o, z)
        PROVE  PolicyInv'
    BY <1>1, OpenChannelKeepsPolicy
  <1>2. ASSUME NEW c \in Calls,
               \/ Answered(c) \/ Panic(c) \/ NotifyPanics(c) \/ ParseFailed(c)
               \/ \E p \in Peers, o \in Openings, r \in TestRules : TestRule(c, p, o, r)
        PROVE  PolicyInv'
    BY <1>2, UntrackedKeepsPolicy
  <1>3. ASSUME NEW c \in Calls, HookStep(c) PROVE PolicyInv'
    BY <1>2, <1>3, ReadsKeepPolicy, CollectingKeepsPolicy, OutcomeKeepsPolicy,
       DecideKeepsPolicy, NotifyKeepsPolicy DEF HookStep
  <1>4. CASE HookTick \/ (\E m \in MailSettings : SetMail(m)) \/ UNCHANGED vars
    <2>1. /\ config'.block_mode = config.block_mode /\ config'.custom_rule = config.custom_rule
          /\ UNCHANGED <<hook, pubkey_list, zero_conf_list>>
      BY <1>4 DEF HookTick, Tick, SetMail, hookVars, vars, HookInv, TypeOK, Config
    <2> QED BY <2>1 DEF Moment, PolicyInv, PolicyFor, Tracked, Agrees,
                OneMoment, VerdictFits, AnswerFits, Judged, Promise!Policy
  <1> QED BY <1>1, <1>2, <1>3, <1>4, ChangeKeepsPolicy DEF Next

\* Every answer is the documented policy's at some moment of its hook that
\* saw at most one change, for any number of hooks, peers and rules.
THEOREM AnswersAreThePolicys == Spec => []AnswersFollowPolicy
  <1>1. Spec => []PolicyInv
    BY PolicyInit, PolicyNext, HookInvariant, PTL DEF Spec
  <1> QED BY <1>1, HookInvariant, PolicyInvSuffices, PTL

(***************************************************************************)
(* The acceptor keeps what it promises of an opening.                      *)
(***************************************************************************)

\* Unlike PolicyFor this is of every hook, however much changed meanwhile.
Fits(h) ==
  h.kind # "testrule" /\ h.pc \notin {"idle", "panicked"} =>
    VerdictFits(h) /\ (h.pc \notin Judged => h.level = None)
VerdictsFit == \A c \in Calls : Fits(hook[c])

Slots == [c \in Calls |-> OpeningOf(hook[c])]
PromisedStep == Promise!Next \/ UNCHANGED <<config, pubkey_list, zero_conf_list, Slots>>

IsSlot(s) ==
  s = [phase |-> s.phase, peer |-> s.peer, wants |-> s.wants, looked |-> s.looked,
       listed |-> s.listed, mode |-> s.mode, rule |-> s.rule, zero |-> s.zero,
       accept |-> s.accept, mindepth0 |-> s.mindepth0, level |-> s.level]

\* What the opening of a handler says.
LEMMA OpeningIs ==
  ASSUME NEW h, h.kind # "testrule", h.pc \notin {"idle", "panicked"}
  PROVE  /\ IsSlot(OpeningOf(h))
         /\ OpeningOf(h).phase = PhaseAt(h.pc)
         /\ OpeningOf(h).peer = h.peer
         /\ OpeningOf(h).wants = (h.kind = "openchannel" /\ h.bit50)
         /\ OpeningOf(h).looked = LookedAt(h.pc)
         /\ OpeningOf(h).listed = h.listed /\ OpeningOf(h).mode = h.mode
         /\ OpeningOf(h).rule = h.rule /\ OpeningOf(h).zero = h.zero
         /\ OpeningOf(h).accept = h.accept /\ OpeningOf(h).mindepth0 = h.mindepth0
         /\ OpeningOf(h).level = h.level
  BY DEF OpeningOf, IsSlot

LEMMA SameOpening ==
  ASSUME NEW g, NEW h, g.kind # "testrule", g.pc \notin {"idle", "panicked"},
         h.kind # "testrule", h.pc \notin {"idle", "panicked"},
         PhaseAt(g.pc) = PhaseAt(h.pc), LookedAt(g.pc) = LookedAt(h.pc),
         g.kind = h.kind, g.peer = h.peer, g.bit50 = h.bit50, g.listed = h.listed,
         g.mode = h.mode, g.rule = h.rule, g.zero = h.zero, g.accept = h.accept,
         g.mindepth0 = h.mindepth0, g.level = h.level
  PROVE  OpeningOf(g) = OpeningOf(h)
  BY DEF OpeningOf

LEMMA Looks ==
  /\ LookedAt("list") = {}
  /\ LookedAt("config") = LookedAt("list") \cup {"list"}
  /\ LookedAt("zero") = LookedAt("config") \cup {"config"}
  /\ \A pc \in {"begin", "collect", "decide", "notify", "mail", "answered"} :
       LookedAt(pc) = LookedAt("zero") \cup {"zeroconf"} /\ LookedAt(pc) = Promise!Inputs
  /\ \A pc \in {"list", "config", "zero", "begin", "collect", "decide"} :
       PhaseAt(pc) = "pending"
  /\ PhaseAt("notify") = "judged" /\ PhaseAt("mail") = "judged"
  /\ PhaseAt("answered") = "answered"
  BY DEF LookedAt, PhaseAt, Promise!Inputs

\* What the promise's updates of a slot come to.
LEMMA SlotListed ==
  ASSUME NEW S, NEW c \in Calls, S = [d \in Calls |-> S[d]], NEW t, IsSlot(S[c]), IsSlot(t),
         t.phase = S[c].phase, t.peer = S[c].peer, t.wants = S[c].wants,
         t.mode = S[c].mode, t.rule = S[c].rule, t.zero = S[c].zero,
         t.accept = S[c].accept, t.mindepth0 = S[c].mindepth0, t.level = S[c].level,
         t.looked = S[c].looked \cup {"list"}
  PROVE  [S EXCEPT ![c].looked = @ \cup {"list"}, ![c].listed = t.listed] =
           [S EXCEPT ![c] = t]
  <1>1. PICK f : f = [S[c] EXCEPT !.looked = t.looked]
    OBVIOUS
  <1>2. f = [phase |-> S[c].phase, peer |-> S[c].peer, wants |-> S[c].wants, looked |->
            t.looked, listed |-> S[c].listed, mode |-> S[c].mode, rule |-> S[c].rule,
            zero |-> S[c].zero, accept |-> S[c].accept, mindepth0 |-> S[c].mindepth0,
            level |-> S[c].level]
    BY <1>1 DEF IsSlot
  <1>3. [f EXCEPT !.listed = t.listed] = t
    BY <1>2 DEF IsSlot
  <1> QED BY <1>1, <1>3

LEMMA SlotConfigured ==
  ASSUME NEW S, NEW c \in Calls, S = [d \in Calls |-> S[d]], NEW t, IsSlot(S[c]), IsSlot(t),
         t.phase = S[c].phase, t.peer = S[c].peer, t.wants = S[c].wants,
         t.listed = S[c].listed, t.zero = S[c].zero, t.accept = S[c].accept,
         t.mindepth0 = S[c].mindepth0, t.level = S[c].level,
         t.looked = S[c].looked \cup {"config"}
  PROVE  [S EXCEPT ![c].looked = @ \cup {"config"}, ![c].mode = t.mode, ![c].rule = t.rule] =
           [S EXCEPT ![c] = t]
  <1>1. PICK f : f = [S[c] EXCEPT !.looked = t.looked]
    OBVIOUS
  <1>2. f = [phase |-> S[c].phase, peer |-> S[c].peer, wants |-> S[c].wants, looked |->
            t.looked, listed |-> S[c].listed, mode |-> S[c].mode, rule |-> S[c].rule,
            zero |-> S[c].zero, accept |-> S[c].accept, mindepth0 |-> S[c].mindepth0,
            level |-> S[c].level]
    BY <1>1 DEF IsSlot
  <1>3. PICK g : g = [f EXCEPT !.mode = t.mode]
    OBVIOUS
  <1>4. g = [phase |-> S[c].phase, peer |-> S[c].peer, wants |-> S[c].wants, looked |->
            t.looked, listed |-> S[c].listed, mode |-> t.mode, rule |-> S[c].rule, zero
            |-> S[c].zero, accept |-> S[c].accept, mindepth0 |-> S[c].mindepth0,
            level |-> S[c].level]
    BY <1>3, <1>2 DEF IsSlot
  <1>5. [g EXCEPT !.rule = t.rule] = t
    BY <1>4 DEF IsSlot
  <1> QED BY <1>1, <1>3, <1>5

LEMMA SlotZero ==
  ASSUME NEW S, NEW c \in Calls, S = [d \in Calls |-> S[d]], NEW t, IsSlot(S[c]), IsSlot(t),
         t.phase = S[c].phase, t.peer = S[c].peer, t.wants = S[c].wants,
         t.listed = S[c].listed, t.mode = S[c].mode, t.rule = S[c].rule,
         t.accept = S[c].accept, t.mindepth0 = S[c].mindepth0, t.level = S[c].level,
         t.looked = S[c].looked \cup {"zeroconf"}
  PROVE  [S EXCEPT ![c].looked = @ \cup {"zeroconf"}, ![c].zero = t.zero] =
           [S EXCEPT ![c] = t]
  <1>1. PICK f : f = [S[c] EXCEPT !.looked = t.looked]
    OBVIOUS
  <1>2. f = [phase |-> S[c].phase, peer |-> S[c].peer, wants |-> S[c].wants, looked |->
            t.looked, listed |-> S[c].listed, mode |-> S[c].mode, rule |-> S[c].rule,
            zero |-> S[c].zero, accept |-> S[c].accept, mindepth0 |-> S[c].mindepth0,
            level |-> S[c].level]
    BY <1>1 DEF IsSlot
  <1>3. [f EXCEPT !.zero = t.zero] = t
    BY <1>2 DEF IsSlot
  <1> QED BY <1>1, <1>3

\* Two openings of one peer with the same looked up for both.
SameLooks(s, t) ==
  /\ IsSlot(s) /\ IsSlot(t)
  /\ t.peer = s.peer /\ t.wants = s.wants /\ t.looked = s.looked
  /\ t.listed = s.listed /\ t.mode = s.mode /\ t.rule = s.rule /\ t.zero = s.zero

SameJudgement(s, t) ==
  t.accept = s.accept /\ t.mindepth0 = s.mindepth0 /\ t.level = s.level

LEMMA SlotJudged ==
  ASSUME NEW S, NEW c \in Calls, S = [d \in Calls |-> S[d]], NEW t, SameLooks(S[c], t),
         t.phase = "judged"
  PROVE  [S EXCEPT ![c].phase = "judged", ![c].accept = t.accept,
                   ![c].mindepth0 = t.mindepth0, ![c].level = t.level] = [S EXCEPT ![c] = t]
  <1>1. PICK f : f = [S[c] EXCEPT !.phase = t.phase]
    OBVIOUS
  <1>2. f = [phase |-> t.phase, peer |-> S[c].peer, wants |-> S[c].wants, looked |->
            S[c].looked, listed |-> S[c].listed, mode |-> S[c].mode, rule |-> S[c].rule,
            zero |-> S[c].zero, accept |-> S[c].accept, mindepth0 |-> S[c].mindepth0,
            level |-> S[c].level]
    BY <1>1 DEF IsSlot, SameLooks
  <1>3. PICK g : g = [f EXCEPT !.accept = t.accept]
    OBVIOUS
  <1>4. g = [phase |-> t.phase, peer |-> S[c].peer, wants |-> S[c].wants, looked |->
            S[c].looked, listed |-> S[c].listed, mode |-> S[c].mode, rule |-> S[c].rule,
            zero |-> S[c].zero, accept |-> t.accept, mindepth0 |-> S[c].mindepth0,
            level |-> S[c].level]
    BY <1>3, <1>2 DEF IsSlot, SameLooks
  <1>5. PICK u : u = [g EXCEPT !.mindepth0 = t.mindepth0]
    OBVIOUS
  <1>6. u = [phase |-> t.phase, peer |-> S[c].peer, wants |-> S[c].wants, looked |->
            S[c].looked, listed |-> S[c].listed, mode |-> S[c].mode, rule |-> S[c].rule,
            zero |-> S[c].zero, accept |-> t.accept, mindepth0 |-> t.mindepth0,
            level |-> S[c].level]
    BY <1>4, <1>5 DEF IsSlot, SameLooks
  <1>7. [u EXCEPT !.level = t.level] = t
    BY <1>6 DEF IsSlot, SameLooks
  <1> QED BY <1>1, <1>3, <1>5, <1>7

LEMMA SlotAnswered ==
  ASSUME NEW s, NEW t, SameLooks(s, t), SameJudgement(s, t), t.phase = "answered"
  PROVE  [s EXCEPT !.phase = "answered"] = t
  BY DEF IsSlot, SameLooks, SameJudgement

LEMMA OpeningIsNone ==
  ASSUME NEW h, h.kind = "testrule" \/ h.pc \in {"idle", "panicked"}
  PROVE  OpeningOf(h) = Promise!NoOpening
  BY DEF OpeningOf, LookedAt, PhaseAt, IdleHook, Promise!NoOpening

\* The promise's actions, of the slots.
LEMMA LookUpMeans ==
  ASSUME NEW c \in Calls
  PROVE  Promise!LookUp(c) <=>
           /\ Slots[c].phase = "pending"
           /\ \/ /\ "list" \notin Slots[c].looked
                 /\ Slots' = [Slots EXCEPT ![c].looked = @ \cup {"list"},
                                ![c].listed = Slots[c].peer \in pubkey_list]
              \/ /\ "config" \notin Slots[c].looked
                 /\ Slots' = [Slots EXCEPT ![c].looked = @ \cup {"config"},
                                ![c].mode = config.block_mode, ![c].rule = config.custom_rule]
              \/ /\ "zeroconf" \notin Slots[c].looked
                 /\ Slots' = [Slots EXCEPT ![c].looked = @ \cup {"zeroconf"},
                                ![c].zero = Slots[c].peer \in zero_conf_list]
           /\ UNCHANGED <<config, pubkey_list, zero_conf_list>>
  BY DEF Promise!LookUp, Promise!shared, Slots

LEMMA JudgeMeans ==
  ASSUME NEW c \in Calls
  PROVE  Promise!Judge(c) <=>
           /\ Slots[c].phase = "pending"
           /\ Slots[c].looked = Promise!Inputs
           /\ \E verdict \in {"true", "false", "error"} :
                Slots' = [Slots EXCEPT
                  ![c].phase = "judged",
                  ![c].accept = Promise!Policy(Slots[c], verdict),
                  ![c].mindepth0 =
                    Promise!Policy(Slots[c], verdict) /\ Slots[c].zero /\ Slots[c].wants,
                  ![c].level = Promise!LevelOf(Slots[c], verdict)]
           /\ UNCHANGED <<config, pubkey_list, zero_conf_list>>
  BY DEF Promise!Judge, Promise!shared, Slots

LEMMA AnswerMeans ==
  ASSUME NEW c \in Calls
  PROVE  Promise!Answer(c) <=>
           /\ Slots[c].phase = "judged"
           /\ Slots' = [Slots EXCEPT ![c].phase = "answered"]
           /\ UNCHANGED <<config, pubkey_list, zero_conf_list>>
  BY DEF Promise!Answer, Promise!shared, Slots

LEMMA LossMeans ==
  ASSUME NEW c \in Calls, Slots' = [Slots EXCEPT ![c] = Promise!NoOpening],
         UNCHANGED <<config, pubkey_list, zero_conf_list>>
  PROVE  /\ /\ Slots[c].phase = "pending" /\ Slots[c].looked = Promise!Inputs
            /\ ~Slots[c].listed /\ Slots[c].rule # None /\ Slots[c].rule \in Risky
            => Promise!LoseToRule(c)
         /\ /\ Slots[c].phase = "judged" /\ Slots[c].level \in config.mail.due
            /\ ~config.mail.parse
            => Promise!LoseToMail(c)
  BY DEF Promise!LoseToRule, Promise!LoseToMail, Promise!Consults, Promise!shared, Slots

LEMMA SlotsAfter == Slots' = [c \in Calls |-> OpeningOf(hook'[c])]
  BY DEF Slots, OpeningOf, LookedAt, PhaseAt, IdleHook

LEMMA SlotIs == ASSUME NEW c \in Calls PROVE Slots[c] = OpeningOf(hook[c])
  BY DEF Slots

\* A handler's step replaces what its own slot stands for.
LEMMA OneSlotChanges ==
  ASSUME HookInv, VerdictsFit, NEW c \in Calls, NEW h, hook' = [hook EXCEPT ![c] = h], Fits(h)
  PROVE  /\ Slots' = [Slots EXCEPT ![c] = OpeningOf(h)]
         /\ Slots[c] = OpeningOf(hook[c]) /\ Slots = [d \in Calls |-> Slots[d]]
         /\ VerdictsFit'
  <1>1. \A d \in Calls : hook'[d] = IF d = c THEN h ELSE hook[d]
    BY DEF HookInv, TypeOK
  <1>2. Slots' = [Slots EXCEPT ![c] = OpeningOf(h)] /\ Slots[c] = OpeningOf(hook[c])
    <2>1. Slots = [d \in Calls |-> OpeningOf(hook[d])]
      BY DEF Slots
    <2>2. \A d \in Calls :
            OpeningOf(hook'[d]) = IF d = c THEN OpeningOf(h) ELSE OpeningOf(hook[d])
      BY <1>1
    <2>3. PICK S : S = Slots
      OBVIOUS
    <2>4. [d \in Calls |-> OpeningOf(hook'[d])] = [S EXCEPT ![c] = OpeningOf(h)]
      BY <2>1, <2>2, <2>3
    <2> QED BY <2>1, <2>3, <2>4, SlotsAfter
  <1>3. \A d \in Calls : Fits(hook'[d])
    BY <1>1 DEF VerdictsFit
  <1>4. VerdictsFit'
    BY <1>3 DEF VerdictsFit, Fits, VerdictFits, Judged
  <1>5. Slots = [d \in Calls |-> Slots[d]]
    BY DEF Slots
  <1> QED BY <1>2, <1>4, <1>5

\* The snapshots are the promise's looks, in one of its orders.
LEMMA ReadsLookUp ==
  ASSUME HookInv, VerdictsFit, NEW c \in Calls,
         ReadPubkeyList(c) \/ ReadConfig(c) \/ ReadZeroconf(c)
  PROVE  PromisedStep /\ VerdictsFit'
  <1>1. /\ hook[c] \in HookRecord /\ HookShape(hook[c]) /\ Fits(hook[c])
        /\ hook \in [Calls -> HookRecord] /\ config \in Config
    BY HookFacts DEF VerdictsFit
  <1>2. UNCHANGED <<config, pubkey_list, zero_conf_list>>
    BY DEF ReadPubkeyList, ReadConfig, ReadZeroconf
  <1>3. hook[c].pc \in {"list", "config", "zero"} /\ hook[c].kind # "testrule"
    BY <1>1 DEF ReadPubkeyList, ReadConfig, ReadZeroconf, HookShape
  <1>4. VerdictFits(hook[c]) /\ hook[c].level = None
    BY <1>1, <1>3 DEF Fits, Judged
  <1>6. CASE ReadPubkeyList(c)
    <2> DEFINE l == hook[c].peer \in pubkey_list
               h == [hook[c] EXCEPT !.pc = "config", !.listed = l]
    <2>1. /\ h.pc = "config" /\ h.listed = l /\ hook[c].pc = "list"
          /\ h.kind = hook[c].kind /\ h.peer = hook[c].peer /\ h.bit50 = hook[c].bit50
          /\ h.mode = hook[c].mode /\ h.rule = hook[c].rule /\ h.zero = hook[c].zero
          /\ h.verdict = hook[c].verdict
          /\ h.accept = hook[c].accept /\ h.mindepth0 = hook[c].mindepth0
          /\ h.level = hook[c].level
      BY <1>1, <1>6 DEF ReadPubkeyList, HookRecord
    <2>2. hook' = [hook EXCEPT ![c] = h]
      BY <1>6 DEF ReadPubkeyList
    <2> HIDE DEF h, l
    <2>3. Fits(h)
      BY <1>4, <2>1 DEF Fits, VerdictFits, Judged
    <2>4. PICK S : S = Slots
      OBVIOUS
    <2>5. S[c] = OpeningOf(hook[c]) /\ S = [d \in Calls |-> S[d]]
          /\ Slots' = [S EXCEPT ![c] = OpeningOf(h)]
      BY <2>2, <2>3, <2>4, OneSlotChanges
    <2>6. PICK t : t = OpeningOf(h)
      OBVIOUS
    <2>7. [S EXCEPT ![c].looked = @ \cup {"list"}, ![c].listed = t.listed] = [S EXCEPT ![c] = t]
      <3>1. /\ IsSlot(S[c]) /\ IsSlot(t)
            /\ t.phase = S[c].phase /\ t.peer = S[c].peer /\ t.wants = S[c].wants
            /\ t.mode = S[c].mode /\ t.rule = S[c].rule /\ t.zero = S[c].zero
            /\ t.accept = S[c].accept /\ t.mindepth0 = S[c].mindepth0
            /\ t.level = S[c].level
            /\ t.looked = S[c].looked \cup {"list"}
        BY <1>3, <2>1, <2>5, <2>6, OpeningIs, Looks
      <3> QED BY <2>5, <3>1, SlotListed, Zenon
    <2>8. t.listed = l
      BY <1>3, <2>1, <2>6, OpeningIs
    <2>9. "list" \notin S[c].looked /\ S[c].phase = "pending" /\ S[c].peer = hook[c].peer
      <3>1. "list" \notin LookedAt(hook[c].pc)
        BY <2>1 DEF LookedAt
      <3> QED BY <1>3, <2>1, <2>5, <3>1, OpeningIs, Looks
    <2>10. Slots' = [S EXCEPT ![c].looked = @ \cup {"list"},
             ![c].listed = S[c].peer \in pubkey_list]
      BY <2>5, <2>6, <2>7, <2>8, <2>9, Zenon DEF l
    <2>11. Promise!LookUp(c)
      BY <1>2, <2>4, <2>9, <2>10, LookUpMeans
    <2> QED BY <2>2, <2>3, <2>11, OneSlotChanges DEF PromisedStep, Promise!Next
  <1>7. CASE ReadConfig(c)
    <2> DEFINE m == config.block_mode
               r == config.custom_rule
               h == [hook[c] EXCEPT !.pc = "zero", !.mode = m, !.rule = r]
    <2>1. /\ h.pc = "zero" /\ h.mode = m /\ h.rule = r /\ hook[c].pc = "config" /\ m \in Modes
          /\ h.kind = hook[c].kind /\ h.peer = hook[c].peer /\ h.bit50 = hook[c].bit50
          /\ h.listed = hook[c].listed /\ h.zero = hook[c].zero
          /\ h.verdict = hook[c].verdict
          /\ h.accept = hook[c].accept /\ h.mindepth0 = hook[c].mindepth0
          /\ h.level = hook[c].level
      BY <1>1, <1>7 DEF ReadConfig, HookRecord, Config
    <2>2. hook' = [hook EXCEPT ![c] = h]
      BY <1>7 DEF ReadConfig
    <2> HIDE DEF h, m, r
    <2>3. Fits(h)
      BY <1>4, <2>1 DEF Fits, VerdictFits, Judged
    <2>4. PICK S : S = Slots
      OBVIOUS
    <2>5. S[c] = OpeningOf(hook[c]) /\ S = [d \in Calls |-> S[d]]
          /\ Slots' = [S EXCEPT ![c] = OpeningOf(h)]
      BY <2>2, <2>3, <2>4, OneSlotChanges
    <2>6. PICK t : t = OpeningOf(h)
      OBVIOUS
    <2>7. [S EXCEPT ![c].looked = @ \cup {"config"}, ![c].mode = t.mode,
                    ![c].rule = t.rule] = [S EXCEPT ![c] = t]
      <3>1. /\ IsSlot(S[c]) /\ IsSlot(t)
            /\ t.phase = S[c].phase /\ t.peer = S[c].peer /\ t.wants = S[c].wants
            /\ t.listed = S[c].listed /\ t.zero = S[c].zero /\ t.accept = S[c].accept
            /\ t.mindepth0 = S[c].mindepth0 /\ t.level = S[c].level
            /\ t.looked = S[c].looked \cup {"config"}
        BY <1>3, <2>1, <2>5, <2>6, OpeningIs, Looks
      <3> QED BY <2>5, <3>1, SlotConfigured, Zenon
    <2>8. t.mode = m /\ t.rule = r
      BY <1>3, <2>1, <2>6, OpeningIs
    <2>9. "config" \notin S[c].looked /\ S[c].phase = "pending" /\ S[c].peer = hook[c].peer
      <3>1. "config" \notin LookedAt(hook[c].pc)
        BY <2>1 DEF LookedAt
      <3> QED BY <1>3, <2>1, <2>5, <3>1, OpeningIs, Looks
    <2>10. Slots' = [S EXCEPT ![c].looked = @ \cup {"config"},
             ![c].mode = config.block_mode, ![c].rule = config.custom_rule]
      BY <2>5, <2>6, <2>7, <2>8, <2>9, Zenon DEF m, r
    <2>11. Promise!LookUp(c)
      BY <1>2, <2>4, <2>9, <2>10, LookUpMeans
    <2> QED BY <2>2, <2>3, <2>11, OneSlotChanges DEF PromisedStep, Promise!Next
  <1>8. CASE ReadZeroconf(c)
    <2> DEFINE next == IF ~hook[c].listed /\ hook[c].rule # None THEN "begin" ELSE "decide"
               z == hook[c].peer \in zero_conf_list
               h == [hook[c] EXCEPT !.pc = next, !.zero = z]
    <2>1. /\ h.pc = next /\ h.zero = z /\ hook[c].pc = "zero"
          /\ h.kind = hook[c].kind /\ h.peer = hook[c].peer /\ h.bit50 = hook[c].bit50
          /\ h.listed = hook[c].listed /\ h.mode = hook[c].mode /\ h.rule = hook[c].rule
          /\ h.verdict = hook[c].verdict
          /\ h.accept = hook[c].accept /\ h.mindepth0 = hook[c].mindepth0
          /\ h.level = hook[c].level
      BY <1>1, <1>8 DEF ReadZeroconf, HookRecord
    <2>2. hook' = [hook EXCEPT ![c] = h]
      BY <1>8, ZenonT(60) DEF ReadZeroconf
    <2> HIDE DEF h, z
    <2>3. Fits(h)
      BY <1>4, <2>1 DEF Fits, VerdictFits, Judged
    <2>4. PICK S : S = Slots
      OBVIOUS
    <2>5. S[c] = OpeningOf(hook[c]) /\ S = [d \in Calls |-> S[d]]
          /\ Slots' = [S EXCEPT ![c] = OpeningOf(h)]
      BY <2>2, <2>3, <2>4, OneSlotChanges
    <2>6. PICK t : t = OpeningOf(h)
      OBVIOUS
    <2>7. [S EXCEPT ![c].looked = @ \cup {"zeroconf"}, ![c].zero = t.zero] = [S EXCEPT ![c] = t]
      <3>1. /\ IsSlot(S[c]) /\ IsSlot(t)
            /\ t.phase = S[c].phase /\ t.peer = S[c].peer /\ t.wants = S[c].wants
            /\ t.listed = S[c].listed /\ t.mode = S[c].mode /\ t.rule = S[c].rule
            /\ t.accept = S[c].accept /\ t.mindepth0 = S[c].mindepth0
            /\ t.level = S[c].level
            /\ t.looked = S[c].looked \cup {"zeroconf"}
        BY <1>3, <2>1, <2>5, <2>6, OpeningIs, Looks
      <3> QED BY <2>5, <3>1, SlotZero, Zenon
    <2>8. t.zero = z
      BY <1>3, <2>1, <2>6, OpeningIs
    <2>9. "zeroconf" \notin S[c].looked /\ S[c].phase = "pending" /\ S[c].peer = hook[c].peer
      <3>1. "zeroconf" \notin LookedAt(hook[c].pc)
        BY <2>1 DEF LookedAt
      <3> QED BY <1>3, <2>1, <2>5, <3>1, OpeningIs, Looks
    <2>10. Slots' = [S EXCEPT ![c].looked = @ \cup {"zeroconf"},
             ![c].zero = S[c].peer \in zero_conf_list]
      BY <2>5, <2>6, <2>7, <2>8, <2>9, Zenon DEF z
    <2>11. Promise!LookUp(c)
      BY <1>2, <2>4, <2>9, <2>10, LookUpMeans
    <2> QED BY <2>2, <2>3, <2>11, OneSlotChanges DEF PromisedStep, Promise!Next
  <1> QED BY <1>6, <1>7, <1>8

LEMMA OpenChannelOpens ==
  ASSUME HookInv, VerdictsFit, NEW c \in Calls, NEW p \in Peers, NEW o \in Openings,
         NEW k \in HookKinds, NEW z \in BOOLEAN, OpenChannel(c, k, p, o, z)
  PROVE  PromisedStep /\ VerdictsFit'
  <1> DEFINE m == Moment(p, config, pubkey_list, zero_conf_list)
             h == [IdleHook EXCEPT !.pc = "list", !.kind = k, !.peer = p, !.opening = o,
                                   !.bit50 = z, !.moments = {m}]
             w == (k = "openchannel" /\ z)
  <1>1. hook' = [hook EXCEPT ![c] = h] /\ UNCHANGED <<config, pubkey_list, zero_conf_list>>
    BY DEF OpenChannel
  <1>2. /\ h.pc = "list" /\ h.kind = k /\ h.peer = p /\ h.bit50 = z
        /\ h.listed = FALSE /\ h.mode = None /\ h.rule = None /\ h.zero = FALSE
        /\ h.verdict = None /\ h.accept = FALSE /\ h.mindepth0 = FALSE /\ h.level = None
    BY DEF IdleHook
  <1>3. k # "testrule" /\ w \in BOOLEAN
    BY DEF HookKinds
  <1> HIDE DEF h, w
  <1>4. Fits(h)
    BY <1>2 DEF Fits, VerdictFits, Judged
  <1>5. OpeningOf(h) = [Promise!NoOpening EXCEPT !.phase = "pending", !.peer = p, !.wants = w]
    <2>1. PICK f : f = [Promise!NoOpening EXCEPT !.phase = "pending"]
      OBVIOUS
    <2>2. PICK g : g = [f EXCEPT !.peer = p]
      OBVIOUS
    <2>3. PICK t : t = [g EXCEPT !.wants = w]
      OBVIOUS
    <2>4. f = [phase |-> "pending", peer |-> None, wants |-> FALSE, looked |-> {},
               listed |-> FALSE, mode |-> None, rule |-> None, zero |-> FALSE,
               accept |-> FALSE, mindepth0 |-> FALSE, level |-> None]
      BY <2>1 DEF Promise!NoOpening
    <2>5. g = [phase |-> "pending", peer |-> p, wants |-> FALSE, looked |-> {},
               listed |-> FALSE, mode |-> None, rule |-> None, zero |-> FALSE,
               accept |-> FALSE, mindepth0 |-> FALSE, level |-> None]
      BY <2>2, <2>4
    <2>6. t = [phase |-> "pending", peer |-> p, wants |-> w, looked |-> {},
               listed |-> FALSE, mode |-> None, rule |-> None, zero |-> FALSE,
               accept |-> FALSE, mindepth0 |-> FALSE, level |-> None]
      BY <2>3, <2>5
    <2>7. OpeningOf(h) =
              [phase |-> "pending", peer |-> p, wants |-> w, looked |-> {},
               listed |-> FALSE, mode |-> None, rule |-> None, zero |-> FALSE,
               accept |-> FALSE, mindepth0 |-> FALSE, level |-> None]
      BY <1>2, <1>3, Looks DEF OpeningOf, w
    <2> QED BY <2>1, <2>2, <2>3, <2>6, <2>7
  <1>6. Slots[c].phase = "idle"
    BY OpeningIsNone DEF OpenChannel, Slots, Promise!NoOpening
  <1>7. Slots' = [Slots EXCEPT ![c] =
                    [Promise!NoOpening EXCEPT !.phase = "pending", !.peer = p, !.wants = w]]
    BY <1>1, <1>4, <1>5, OneSlotChanges, ZenonT(60)
  <1>8. Promise!Open(c)
    BY <1>1, <1>3, <1>6, <1>7 DEF Promise!Open, Promise!shared, Slots
  <1> QED BY <1>1, <1>4, <1>8, OneSlotChanges DEF PromisedStep, Promise!Next

\* clnrod-testrule opens nothing, and while data is collected and the rule
\* evaluated nothing is looked up.
LEMMA NothingPromised ==
  ASSUME HookInv, VerdictsFit, NEW c \in Calls, NEW h, hook' = [hook EXCEPT ![c] = h],
         Fits(h), OpeningOf(h) = OpeningOf(hook[c]),
         UNCHANGED <<config, pubkey_list, zero_conf_list>>
  PROVE  PromisedStep /\ VerdictsFit'
  <1>1. Slots' = [Slots EXCEPT ![c] = Slots[c]] /\ VerdictsFit'
    BY OneSlotChanges
  <1>2. Slots' = Slots
    BY <1>1 DEF Slots
  <1> QED BY <1>1, <1>2 DEF PromisedStep

LEMMA TestRuleOpensNothing ==
  ASSUME HookInv, VerdictsFit, NEW c \in Calls, NEW p \in Peers, NEW o \in Openings,
         NEW r \in TestRules, TestRule(c, p, o, r)
  PROVE  PromisedStep /\ VerdictsFit'
  <1> DEFINE h == [IdleHook EXCEPT !.pc = "collect", !.kind = "testrule", !.peer = p,
                                   !.opening = o, !.rule = r]
  <1>1. /\ hook' = [hook EXCEPT ![c] = h] /\ hook[c].pc = "idle"
        /\ UNCHANGED <<config, pubkey_list, zero_conf_list>>
    BY DEF TestRule
  <1>2. h.kind = "testrule"
    BY DEF IdleHook
  <1> HIDE DEF h
  <1>3. Fits(h)
    BY <1>2 DEF Fits
  <1>4. OpeningOf(h) = OpeningOf(hook[c])
    BY <1>1, <1>2, OpeningIsNone
  <1> QED BY <1>1, <1>3, <1>4, NothingPromised

LEMMA CollectingPromisesNothing ==
  ASSUME HookInv, VerdictsFit, NEW c \in Calls, BeginCollect(c) \/ Collecting(c)
  PROVE  PromisedStep /\ VerdictsFit'
  <1>1. CASE BeginCollect(c)
    <2> DEFINE h == [hook[c] EXCEPT !.pc = "collect"]
    <2>1. /\ hook[c] \in HookRecord /\ HookShape(hook[c]) /\ Fits(hook[c])
          /\ hook \in [Calls -> HookRecord]
      BY HookFacts DEF VerdictsFit
    <2>2. /\ hook' = [hook EXCEPT ![c] = h] /\ hook[c].pc = "begin"
          /\ UNCHANGED <<config, pubkey_list, zero_conf_list>>
      BY <1>1, <2>1 DEF BeginCollect
    <2>3. /\ h.pc = "collect"
          /\ h.kind = hook[c].kind /\ h.peer = hook[c].peer /\ h.bit50 = hook[c].bit50
          /\ h.listed = hook[c].listed /\ h.mode = hook[c].mode /\ h.rule = hook[c].rule
          /\ h.zero = hook[c].zero /\ h.verdict = hook[c].verdict
          /\ h.accept = hook[c].accept /\ h.mindepth0 = hook[c].mindepth0
          /\ h.level = hook[c].level
      BY <2>1 DEF HookRecord
    <2>4. hook[c].kind # "testrule"
      BY <2>1, <2>2 DEF HookShape
    <2> HIDE DEF h
    <2>5. Fits(h)
      BY <2>1, <2>2, <2>3 DEF Fits, VerdictFits, Judged
    <2>6. OpeningOf(h) = OpeningOf(hook[c])
      BY <2>2, <2>3, <2>4, SameOpening, Looks
    <2> QED BY <2>2, <2>5, <2>6, NothingPromised
  <1>2. CASE Collecting(c)
    <2>1. UNCHANGED <<hook, config, pubkey_list, zero_conf_list>>
      BY <1>2 DEF Collecting, hookVars
    <2>2. Slots' = Slots
      BY <2>1, SlotsAfter DEF Slots
    <2> QED BY <2>1, <2>2 DEF PromisedStep, VerdictsFit, Fits, VerdictFits, Judged
  <1> QED BY <1>1, <1>2

LEMMA EvaluatePromisesNothing ==
  ASSUME HookInv, VerdictsFit, NEW c \in Calls, Evaluate(c)
  PROVE  PromisedStep /\ VerdictsFit'
  <1> DEFINE next == IF hook[c].kind = "testrule" THEN "notify" ELSE "decide"
             l == IF hook[c].kind = "testrule" THEN "error" ELSE None
  <1>1. /\ hook[c] \in HookRecord /\ Fits(hook[c]) /\ hook \in [Calls -> HookRecord]
        /\ hook[c].pc = "collect" /\ UNCHANGED <<config, pubkey_list, zero_conf_list>>
    BY HookFacts DEF VerdictsFit, Evaluate
  <1>2. PICK v \in {"true", "false"} :
          hook' = [hook EXCEPT ![c].pc = next, ![c].verdict = v, ![c].level = l]
    BY DEF Evaluate
  <1> DEFINE h == [hook[c] EXCEPT !.pc = next, !.verdict = v, !.level = l]
  <1>3. /\ hook' = [hook EXCEPT ![c] = h]
        /\ h.pc = next /\ h.verdict = v /\ h.level = l
        /\ h.kind = hook[c].kind /\ h.peer = hook[c].peer /\ h.bit50 = hook[c].bit50
        /\ h.listed = hook[c].listed /\ h.mode = hook[c].mode /\ h.rule = hook[c].rule
        /\ h.zero = hook[c].zero
        /\ h.accept = hook[c].accept /\ h.mindepth0 = hook[c].mindepth0
    BY <1>1, <1>2 DEF HookRecord
  <1> HIDE DEF h
  <1>4. Fits(h)
    BY <1>1, <1>3 DEF Fits, VerdictFits, Judged
  <1>5. OpeningOf(h) = OpeningOf(hook[c])
    <2>1. CASE hook[c].kind = "testrule"
      BY <1>3, <2>1, OpeningIsNone
    <2>2. CASE hook[c].kind # "testrule"
      <3>1. hook[c].level = None /\ h.level = None /\ h.pc = "decide"
        BY <1>1, <1>3, <2>2 DEF Fits, Judged
      <3> QED BY <1>1, <1>3, <2>2, <3>1, SameOpening, Looks
    <2> QED BY <2>1, <2>2
  <1> QED BY <1>1, <1>3, <1>4, <1>5, NothingPromised

\* clnrod-testrule parses its rule late.
LEMMA ParseFailedPromisesNothing ==
  ASSUME HookInv, VerdictsFit, NEW c \in Calls, ParseFailed(c)
  PROVE  PromisedStep /\ VerdictsFit'
  <1> DEFINE h == [hook[c] EXCEPT !.pc = "answered", !.verdict = "error"]
  <1>1. /\ hook[c] \in HookRecord /\ hook \in [Calls -> HookRecord]
        /\ hook[c].kind = "testrule" /\ UNCHANGED <<config, pubkey_list, zero_conf_list>>
    BY HookFacts DEF ParseFailed
  <1>2. hook' = [hook EXCEPT ![c] = h] /\ h.kind = "testrule"
    BY <1>1 DEF ParseFailed, HookRecord
  <1> HIDE DEF h
  <1>3. Fits(h)
    BY <1>2 DEF Fits
  <1>4. OpeningOf(h) = OpeningOf(hook[c])
    BY <1>1, <1>2, OpeningIsNone
  <1> QED BY <1>1, <1>2, <1>3, <1>4, NothingPromised

\* What a handler does when it has its verdict is the promise's judgement.
BecomesJudged(g, h, v) ==
  /\ g.kind # "testrule" /\ g.pc \in {"collect", "decide"} /\ h.pc = "notify"
  /\ h.kind = g.kind /\ h.peer = g.peer /\ h.bit50 = g.bit50
  /\ h.listed = g.listed /\ h.mode = g.mode /\ h.rule = g.rule /\ h.zero = g.zero
  /\ h.accept = Promise!Policy(g, v)
  /\ h.mindepth0 = (/\ Promise!Policy(g, v) /\ g.zero
                    /\ (g.kind = "openchannel" /\ g.bit50))
  /\ h.level = Promise!LevelOf(g, v)

LEMMA JudgingJudges ==
  ASSUME HookInv, VerdictsFit, NEW c \in Calls, NEW h, hook' = [hook EXCEPT ![c] = h],
         Fits(h), UNCHANGED <<config, pubkey_list, zero_conf_list>>,
         NEW v \in {"true", "false", "error"}, BecomesJudged(hook[c], h, v)
  PROVE  PromisedStep /\ VerdictsFit'
  <1>1. PICK S : S = Slots
    OBVIOUS
  <1>2. S[c] = OpeningOf(hook[c]) /\ S = [d \in Calls |-> S[d]]
        /\ Slots' = [S EXCEPT ![c] = OpeningOf(h)]
    BY <1>1, OneSlotChanges
  <1>3. PICK t : t = OpeningOf(h)
    OBVIOUS
  <1>4. /\ S[c].phase = "pending" /\ S[c].looked = Promise!Inputs
        /\ S[c].listed = hook[c].listed /\ S[c].rule = hook[c].rule
        /\ S[c].mode = hook[c].mode /\ S[c].zero = hook[c].zero
        /\ S[c].wants = (hook[c].kind = "openchannel" /\ hook[c].bit50)
    BY <1>2, OpeningIs, Looks DEF BecomesJudged
  <1>5. [S EXCEPT ![c].phase = "judged", ![c].accept = t.accept,
                  ![c].mindepth0 = t.mindepth0, ![c].level = t.level] = [S EXCEPT ![c] = t]
    <2>1. SameLooks(S[c], t) /\ t.phase = "judged"
      BY <1>2, <1>3, OpeningIs, Looks DEF SameLooks, BecomesJudged
    <2> QED BY <1>2, <2>1, SlotJudged, Zenon
  <1>6. t.accept = h.accept /\ t.mindepth0 = h.mindepth0 /\ t.level = h.level
    BY <1>3, OpeningIs DEF BecomesJudged
  <1>7. /\ Promise!Policy(S[c], v) = Promise!Policy(hook[c], v)
        /\ Promise!LevelOf(S[c], v) = Promise!LevelOf(hook[c], v)
    <2>1. Promise!Policy(S[c], v) = Promise!Policy(hook[c], v)
      BY <1>4 DEF Promise!Policy
    <2>2. Promise!Consults(S[c]) = Promise!Consults(hook[c])
      BY <1>4 DEF Promise!Consults
    <2> QED BY <2>1, <2>2 DEF Promise!LevelOf
  <1>8. /\ t.accept = Promise!Policy(S[c], v)
        /\ t.mindepth0 = (Promise!Policy(S[c], v) /\ S[c].zero /\ S[c].wants)
        /\ t.level = Promise!LevelOf(S[c], v)
    BY <1>4, <1>6, <1>7 DEF BecomesJudged
  <1>9. Slots' = [S EXCEPT ![c].phase = "judged", ![c].accept = Promise!Policy(S[c], v),
          ![c].mindepth0 = Promise!Policy(S[c], v) /\ S[c].zero /\ S[c].wants,
          ![c].level = Promise!LevelOf(S[c], v)]
    BY <1>2, <1>3, <1>5, <1>8, Zenon
  <1>10. Promise!Judge(c)
    BY <1>1, <1>4, <1>9, JudgeMeans, ZenonT(60)
  <1> QED BY <1>10, OneSlotChanges DEF PromisedStep, Promise!Next

\* A collection that failed is judged as a rule in error.
LEMMA CollectFailedJudges ==
  ASSUME HookInv, VerdictsFit, NEW c \in Calls, CollectFailed(c)
  PROVE  PromisedStep /\ VerdictsFit'
  <1> DEFINE next == IF hook[c].kind = "testrule" THEN "answered" ELSE "notify"
             h == [hook[c] EXCEPT !.pc = next, !.verdict = "error", !.level = "error"]
  <1>1. /\ hook[c] \in HookRecord /\ Fits(hook[c]) /\ hook \in [Calls -> HookRecord]
        /\ hook[c].pc = "collect" /\ UNCHANGED <<config, pubkey_list, zero_conf_list>>
    BY HookFacts DEF VerdictsFit, CollectFailed
  <1>2. /\ hook' = [hook EXCEPT ![c] = h]
        /\ h.pc = next /\ h.verdict = "error" /\ h.level = "error"
        /\ h.kind = hook[c].kind /\ h.peer = hook[c].peer /\ h.bit50 = hook[c].bit50
        /\ h.listed = hook[c].listed /\ h.mode = hook[c].mode /\ h.rule = hook[c].rule
        /\ h.zero = hook[c].zero
        /\ h.accept = hook[c].accept /\ h.mindepth0 = hook[c].mindepth0
    BY <1>1 DEF HookRecord, CollectFailed
  <1> HIDE DEF h
  <1>3. Fits(h)
    BY <1>2 DEF Fits, VerdictFits, Judged
  <1>4. CASE hook[c].kind = "testrule"
    <2>1. OpeningOf(h) = OpeningOf(hook[c])
      BY <1>2, <1>4, OpeningIsNone
    <2> QED BY <1>1, <1>2, <1>3, <2>1, NothingPromised
  <1>5. CASE hook[c].kind # "testrule"
    <2>1. ~hook[c].listed /\ hook[c].rule # None /\ ~hook[c].accept /\ ~hook[c].mindepth0
      BY <1>1, <1>5 DEF Fits, VerdictFits, Judged
    <2>2. ~Promise!Policy(hook[c], "error") /\ Promise!Policy(hook[c], "error") \in BOOLEAN
      BY <2>1 DEF Promise!Policy
    <2>3. h.level = Promise!LevelOf(hook[c], "error")
      BY <1>2, <2>1 DEF Promise!LevelOf, Promise!Consults
    <2>4. h.accept = Promise!Policy(hook[c], "error")
      BY <1>1, <1>2, <2>1, <2>2 DEF HookRecord
    <2>5. h.mindepth0 = (/\ Promise!Policy(hook[c], "error") /\ hook[c].zero
                         /\ (hook[c].kind = "openchannel" /\ hook[c].bit50))
      BY <1>1, <1>2, <2>1, <2>2 DEF HookRecord
    <2>6. h.pc = "notify"
      BY <1>2, <1>5
    <2>7. BecomesJudged(hook[c], h, "error")
      BY <1>1, <1>2, <1>5, <2>3, <2>4, <2>5, <2>6, Zenon DEF BecomesJudged
    <2> QED BY <1>1, <1>2, <1>3, <2>7, JudgingJudges, ZenonT(60)
  <1> QED BY <1>4, <1>5

\* A handler that ends without an answer, of a hook or of clnrod-testrule.
LEMMA PanicEndsOpening ==
  ASSUME HookInv, VerdictsFit, NEW c \in Calls, NEW r,
         hook' = [hook EXCEPT ![c] = [IdleHook EXCEPT !.pc = "panicked", !.rule = r]],
         UNCHANGED <<config, pubkey_list, zero_conf_list>>
  PROVE  /\ VerdictsFit'
         /\ hook[c].kind = "testrule" => PromisedStep
         /\ Slots' = [Slots EXCEPT ![c] = Promise!NoOpening]
         /\ Slots[c] = OpeningOf(hook[c])
  <1> DEFINE h == [IdleHook EXCEPT !.pc = "panicked", !.rule = r]
  <1>1. h.pc = "panicked" /\ hook' = [hook EXCEPT ![c] = h]
    BY DEF IdleHook
  <1> HIDE DEF h
  <1>2. Fits(h) /\ OpeningOf(h) = Promise!NoOpening
    BY <1>1, OpeningIsNone DEF Fits
  <1>3. ASSUME hook[c].kind = "testrule" PROVE PromisedStep
    BY <1>1, <1>2, <1>3, OpeningIsNone, NothingPromised
  <1> QED BY <1>1, <1>2, <1>3, OneSlotChanges

\* A handler panics only over a rule that it consults and that can panic.
LEMMA PanicLosesToRule ==
  ASSUME HookInv, TiedInv, VerdictsFit, NEW c \in Calls, Panic(c)
  PROVE  PromisedStep /\ VerdictsFit'
  <1>1. /\ Fits(hook[c]) /\ hook[c].pc = "collect"
        /\ hook' = [hook EXCEPT ![c] = [IdleHook EXCEPT !.pc = "panicked", !.rule = hook[c].rule]]
        /\ UNCHANGED <<config, pubkey_list, zero_conf_list>>
    BY DEF VerdictsFit, Panic
  <1>2. /\ VerdictsFit'
        /\ hook[c].kind = "testrule" => PromisedStep
        /\ Slots' = [Slots EXCEPT ![c] = Promise!NoOpening]
        /\ Slots[c] = OpeningOf(hook[c])
    BY <1>1, PanicEndsOpening
  <1>3. CASE hook[c].kind # "testrule"
    <2>1. ~hook[c].listed /\ hook[c].rule # None /\ hook[c].rule \in Risky
      BY <1>1, <1>3, PanicIsRisky DEF Fits, VerdictFits
    <2>2. Slots[c].phase = "pending" /\ Slots[c].looked = Promise!Inputs
          /\ Slots[c].listed = hook[c].listed /\ Slots[c].rule = hook[c].rule
      BY <1>1, <1>2, <1>3, OpeningIs, Looks
    <2>3. Promise!LoseToRule(c)
      BY <1>1, <1>2, <2>1, <2>2, LossMeans, ZenonT(60)
    <2>4. Promise!Next
      BY <2>3 DEF Promise!Next
    <2> QED BY <1>2, <2>4 DEF PromisedStep
  <1> QED BY <1>2, <1>3

\* Otherwise it panics over a mail that is due to no address.
LEMMA PanicLosesToMail ==
  ASSUME HookInv, VerdictsFit, NEW c \in Calls, NotifyPanics(c)
  PROVE  PromisedStep /\ VerdictsFit'
  <1>1. /\ hook[c].pc = "notify" /\ hook[c].level \in config.mail.due /\ ~config.mail.parse
        /\ hook' = [hook EXCEPT ![c] = [IdleHook EXCEPT !.pc = "panicked", !.rule = hook[c].rule]]
        /\ UNCHANGED <<config, pubkey_list, zero_conf_list>>
    BY DEF NotifyPanics
  <1>2. /\ VerdictsFit'
        /\ hook[c].kind = "testrule" => PromisedStep
        /\ Slots' = [Slots EXCEPT ![c] = Promise!NoOpening]
        /\ Slots[c] = OpeningOf(hook[c])
    BY <1>1, PanicEndsOpening
  <1>3. CASE hook[c].kind # "testrule"
    <2>1. Slots[c].phase = "judged" /\ Slots[c].level = hook[c].level
      BY <1>1, <1>2, <1>3, OpeningIs, Looks
    <2>2. Promise!LoseToMail(c)
      BY <1>1, <1>2, <2>1, LossMeans, ZenonT(60)
    <2>3. Promise!Next
      BY <2>2 DEF Promise!Next
    <2> QED BY <1>2, <2>3 DEF PromisedStep
  <1> QED BY <1>2, <1>3

\* The match on the block mode is the policy for what was looked up.
LEMMA DecideJudges ==
  ASSUME HookInv, VerdictsFit, NEW c \in Calls, Decide(c)
  PROVE  PromisedStep /\ VerdictsFit'
  <1> DEFINE ok == Accepted(hook[c])
             l == IF ok THEN "accepted" ELSE "all"
             deep == /\ ok /\ hook[c].zero
                     /\ hook[c].kind = "openchannel" /\ hook[c].bit50
             h == [hook[c] EXCEPT !.pc = "notify", !.accept = ok, !.level = l,
                                  !.mindepth0 = deep]
             v == IF hook[c].verdict = None THEN "true" ELSE hook[c].verdict
  <1>1. /\ hook[c] \in HookRecord /\ HookShape(hook[c]) /\ Fits(hook[c])
        /\ hook \in [Calls -> HookRecord] /\ hook[c].pc = "decide"
        /\ UNCHANGED <<config, pubkey_list, zero_conf_list>>
    BY HookFacts DEF VerdictsFit, Decide
  <1>2. hook[c].kind # "testrule" /\ VerdictFits(hook[c])
    BY <1>1 DEF HookShape, Fits
  <1>3. hook' = [hook EXCEPT ![c] = h]
    BY <1>1 DEF Decide, HookRecord
  <1>4. /\ ok \in BOOLEAN
        /\ deep = (ok /\ hook[c].zero /\ (hook[c].kind = "openchannel" /\ hook[c].bit50))
    BY DEF Accepted
  <1>5. v \in {"true", "false"} /\ ok = Promise!Policy(hook[c], v)
    <2>1. v \in {"true", "false"}
      BY <1>1, <1>2 DEF VerdictFits
    <2>2. ok <=> Promise!Policy(hook[c], v)
      BY <1>1, <1>2, ReleaseHookAssumption DEF Accepted, Promise!Policy, VerdictFits, Verdicts
    <2>3. Promise!Policy(hook[c], v) \in BOOLEAN
      BY DEF Promise!Policy
    <2> QED BY <1>4, <2>1, <2>2, <2>3
  <1>6. l = Promise!LevelOf(hook[c], v)
    BY <1>5 DEF Promise!LevelOf
  <1> HIDE DEF ok, deep, v, l
  <1>7. /\ h.pc = "notify" /\ h.accept = ok /\ h.mindepth0 = deep /\ h.level = l
        /\ h.kind = hook[c].kind /\ h.peer = hook[c].peer /\ h.bit50 = hook[c].bit50
        /\ h.listed = hook[c].listed /\ h.mode = hook[c].mode /\ h.rule = hook[c].rule
        /\ h.zero = hook[c].zero
    BY <1>1 DEF HookRecord
  <1> HIDE DEF h
  <1>8. Fits(h)
    BY <1>7 DEF Fits, VerdictFits, Judged
  <1>9. h.mindepth0 = (/\ Promise!Policy(hook[c], v) /\ hook[c].zero
                       /\ (hook[c].kind = "openchannel" /\ hook[c].bit50))
    BY <1>4, <1>5, <1>7, Zenon
  <1>10. h.accept = Promise!Policy(hook[c], v) /\ h.level = Promise!LevelOf(hook[c], v)
    BY <1>5, <1>6, <1>7, Zenon
  <1>11. v \in {"true", "false", "error"}
    BY <1>5
  <1>12. BecomesJudged(hook[c], h, v)
    BY <1>1, <1>2, <1>7, <1>9, <1>10, Zenon DEF BecomesJudged
  <1> QED BY <1>1, <1>3, <1>8, <1>11, <1>12, JudgingJudges, ZenonT(60)

\* The operator is told, and then the answer given.
LEMMA NotifyingAnswers ==
  ASSUME HookInv, VerdictsFit, NEW c \in Calls, Notify(c) \/ MailEnds(c)
  PROVE  PromisedStep /\ VerdictsFit'
  <1>1. PICK pc \in {"mail", "answered"} : hook' = [hook EXCEPT ![c].pc = pc]
    BY DEF Notify, MailEnds
  <1> DEFINE h == [hook[c] EXCEPT !.pc = pc]
  <1>2. /\ hook[c] \in HookRecord /\ Fits(hook[c]) /\ hook \in [Calls -> HookRecord]
        /\ hook[c].pc \in {"notify", "mail"}
        /\ UNCHANGED <<config, pubkey_list, zero_conf_list>>
    BY HookFacts DEF VerdictsFit, Notify, MailEnds
  <1>3. /\ hook' = [hook EXCEPT ![c] = h] /\ h.pc = pc /\ h.level = hook[c].level
        /\ h.kind = hook[c].kind /\ h.peer = hook[c].peer /\ h.bit50 = hook[c].bit50
        /\ h.listed = hook[c].listed /\ h.mode = hook[c].mode /\ h.rule = hook[c].rule
        /\ h.zero = hook[c].zero /\ h.verdict = hook[c].verdict
        /\ h.accept = hook[c].accept /\ h.mindepth0 = hook[c].mindepth0
    BY <1>1, <1>2 DEF HookRecord
  <1> HIDE DEF h
  <1>4. Fits(h)
    BY <1>3 DEF Fits, VerdictFits, Judged
  <1>5. CASE hook[c].kind = "testrule"
    BY <1>2, <1>3, <1>4, <1>5, OpeningIsNone, NothingPromised
  <1>6. CASE hook[c].kind # "testrule" /\ pc = "mail"
    <2>1. OpeningOf(h) = OpeningOf(hook[c])
      BY <1>2, <1>3, <1>6, SameOpening, Looks
    <2> QED BY <1>2, <1>3, <1>4, <2>1, NothingPromised
  <1>7. CASE hook[c].kind # "testrule" /\ pc = "answered"
    <2>1. PICK S : S = Slots
      OBVIOUS
    <2>2. S[c] = OpeningOf(hook[c]) /\ S = [d \in Calls |-> S[d]]
          /\ Slots' = [S EXCEPT ![c] = OpeningOf(h)]
      BY <1>3, <1>4, <2>1, OneSlotChanges
    <2>3. PICK t : t = OpeningOf(h)
      OBVIOUS
    <2>4. [S EXCEPT ![c].phase = "answered"] = [S EXCEPT ![c] = t]
      <3>1. SameLooks(S[c], t) /\ SameJudgement(S[c], t) /\ t.phase = "answered"
        BY <1>2, <1>3, <1>7, <2>2, <2>3, OpeningIs, Looks DEF SameLooks, SameJudgement
      <3>2. PICK s : s = S[c]
        OBVIOUS
      <3>3. [s EXCEPT !.phase = "answered"] = t
        BY <3>1, <3>2, SlotAnswered, Zenon
      <3> QED BY <3>2, <3>3
    <2>5. S[c].phase = "judged"
      BY <1>2, <1>7, <2>2, OpeningIs, Looks
    <2>6. Promise!Answer(c)
      BY <1>2, <2>1, <2>2, <2>3, <2>4, <2>5, AnswerMeans, ZenonT(60)
    <2> QED BY <1>3, <1>4, <2>6, OneSlotChanges DEF PromisedStep, Promise!Next
  <1> QED BY <1>1, <1>5, <1>6, <1>7

LEMMA AnsweredEnds ==
  ASSUME HookInv, VerdictsFit, NEW c \in Calls, Answered(c)
  PROVE  PromisedStep /\ VerdictsFit'
  <1>1. /\ hook[c].pc = "answered" /\ hook' = [hook EXCEPT ![c] = IdleHook]
        /\ UNCHANGED <<config, pubkey_list, zero_conf_list>>
    BY DEF Answered
  <1>2. IdleHook.pc = "idle"
    BY DEF IdleHook
  <1>3. Fits(IdleHook) /\ OpeningOf(IdleHook) = Promise!NoOpening
    BY <1>2, OpeningIsNone DEF Fits
  <1>4. CASE hook[c].kind = "testrule"
    BY <1>1, <1>3, <1>4, OpeningIsNone, NothingPromised
  <1>5. CASE hook[c].kind # "testrule"
    <2>1. Slots[c].phase = "answered"
      BY <1>1, <1>5, SlotIs, OpeningIs, Looks
    <2>2. Slots' = [Slots EXCEPT ![c] = Promise!NoOpening]
      BY <1>1, <1>3, OneSlotChanges
    <2>3. Promise!End(c)
      BY <1>1, <2>1, <2>2 DEF Promise!End, Promise!shared, Slots
    <2> QED BY <1>1, <1>3, <2>3, OneSlotChanges DEF PromisedStep, Promise!Next
  <1> QED BY <1>4, <1>5

\* A change of the configuration or of a list touches no opening.
LEMMA ChangesAreChanges ==
  ASSUME HookInv, VerdictsFit,
         \/ \E m \in Modes : SetBlockMode(m)
         \/ \E r \in ConfigRules : SetCustomRule(r)
         \/ \E l \in SUBSET Peers : SetPubkeyList(l) \/ SetZeroconfList(l)
  PROVE  PromisedStep /\ VerdictsFit'
  <1>1. Witnessed
    BY DEF SetBlockMode, SetCustomRule, SetPubkeyList, SetZeroconfList
  <1>2. /\ config' \in Config
        /\ pubkey_list' \in SUBSET Peers
        /\ zero_conf_list' \in SUBSET Peers
    BY ChangeInv DEF HookInv, TypeOK
  <1>3. ASSUME NEW c \in Calls
        PROVE  OpeningOf(hook'[c]) = OpeningOf(hook[c]) /\ Fits(hook'[c])
    <2> DEFINE m == Moment(hook[c].peer, config', pubkey_list', zero_conf_list')
               ms == hook[c].moments \cup {m}
               h1 == [hook[c] EXCEPT !.changes = 1, !.moments = ms]
               h2 == [hook[c] EXCEPT !.changes = 2, !.moments = {}]
    <2>1. hook[c] \in HookRecord /\ Fits(hook[c])
      BY HookFacts DEF VerdictsFit
    <2>2. hook'[c] \in {hook[c], h1, h2}
      BY <1>1 DEF Witnessed
    <2> HIDE DEF ms
    <2>3. \A h \in {hook[c], h1, h2} :
            /\ h.pc = hook[c].pc /\ h.kind = hook[c].kind
            /\ h.peer = hook[c].peer /\ h.bit50 = hook[c].bit50
            /\ h.listed = hook[c].listed /\ h.mode = hook[c].mode /\ h.rule = hook[c].rule
            /\ h.zero = hook[c].zero /\ h.verdict = hook[c].verdict
            /\ h.accept = hook[c].accept /\ h.mindepth0 = hook[c].mindepth0
            /\ h.level = hook[c].level
      BY <2>1 DEF HookRecord
    <2> HIDE DEF h1, h2
    <2>4. PICK h : h = hook'[c]
      OBVIOUS
    <2>5. Fits(h)
      BY <2>1, <2>2, <2>3, <2>4 DEF Fits, VerdictFits, Judged
    <2>6. CASE h.kind = "testrule" \/ h.pc \in {"idle", "panicked"}
      BY <2>2, <2>3, <2>4, <2>5, <2>6, OpeningIsNone
    <2>7. CASE h.kind # "testrule" /\ h.pc \notin {"idle", "panicked"}
      BY <2>2, <2>3, <2>4, <2>5, <2>7, SameOpening
    <2> QED BY <2>6, <2>7
  <1>4. Slots' = Slots
    BY <1>3, SlotsAfter DEF Slots
  <1>5. Promise!Change
    BY <1>2, <1>4 DEF Promise!Change, Promise!Config, Config, Slots
  <1>6. VerdictsFit'
    BY <1>3 DEF VerdictsFit, Fits, VerdictFits, Judged
  <1> QED BY <1>5, <1>6 DEF PromisedStep, Promise!Next

LEMMA SetMailIsChange ==
  ASSUME HookInv, VerdictsFit, NEW m \in MailSettings, SetMail(m)
  PROVE  PromisedStep /\ VerdictsFit'
  <1>1. UNCHANGED <<hook, pubkey_list, zero_conf_list>>
    BY DEF SetMail
  <1>2. config' \in Config /\ pubkey_list' \in SUBSET Peers /\ zero_conf_list' \in SUBSET Peers
    BY SetMailInv DEF HookInv, TypeOK
  <1>3. Slots' = Slots
    BY <1>1, SlotsAfter DEF Slots
  <1>4. Promise!Change
    BY <1>2, <1>3 DEF Promise!Change, Promise!Config, Config, Slots
  <1>5. VerdictsFit'
    BY <1>1 DEF VerdictsFit, Fits, VerdictFits, Judged
  <1> QED BY <1>4, <1>5 DEF PromisedStep, Promise!Next

LEMMA PromiseInit == Init => Promise!Init /\ VerdictsFit
  <1> SUFFICES ASSUME Init PROVE Promise!Init /\ VerdictsFit
    OBVIOUS
  <1>1. hook = [c \in Calls |-> IdleHook] /\ IdleHook.pc = "idle"
    BY DEF Init, IdleHook
  <1>2. Slots = [c \in Calls |-> Promise!NoOpening]
    BY <1>1, OpeningIsNone DEF Slots
  <1>3. VerdictsFit
    BY <1>1 DEF VerdictsFit, Fits
  <1>4. Promise!Init
    BY <1>2 DEF Init, Promise!Init, Promise!Config, Config, Slots
  <1> QED BY <1>3, <1>4

LEMMA PromiseNext ==
  HookInv /\ TiedInv /\ VerdictsFit /\ [Next]_vars => PromisedStep /\ VerdictsFit'
  <1> SUFFICES ASSUME HookInv, TiedInv, VerdictsFit, [Next]_vars PROVE PromisedStep /\ VerdictsFit'
    OBVIOUS
  <1>1. ASSUME NEW c \in Calls, NEW p \in Peers, NEW o \in Openings, NEW k \in HookKinds,
               NEW z \in BOOLEAN, OpenChannel(c, k, p, o, z)
        PROVE  PromisedStep /\ VerdictsFit'
    BY <1>1, OpenChannelOpens
  <1>2. ASSUME NEW c \in Calls, NEW p \in Peers, NEW o \in Openings, NEW r \in TestRules,
               TestRule(c, p, o, r)
        PROVE  PromisedStep /\ VerdictsFit'
    BY <1>2, TestRuleOpensNothing
  <1>3. ASSUME NEW c \in Calls, HookStep(c) PROVE PromisedStep /\ VerdictsFit'
    BY <1>3, ReadsLookUp, CollectingPromisesNothing, EvaluatePromisesNothing,
       ParseFailedPromisesNothing, CollectFailedJudges, PanicLosesToRule, DecideJudges,
       NotifyingAnswers, PanicLosesToMail DEF HookStep
  <1>4. ASSUME NEW c \in Calls, Answered(c) PROVE PromisedStep /\ VerdictsFit'
    BY <1>4, AnsweredEnds
  <1>5. CASE HookTick \/ UNCHANGED vars
    <2>1. UNCHANGED <<hook, config, pubkey_list, zero_conf_list>>
      BY <1>5 DEF HookTick, hookVars, vars
    <2>2. Slots' = Slots
      BY <2>1, SlotsAfter DEF Slots
    <2> QED BY <2>1, <2>2 DEF PromisedStep, VerdictsFit, Fits, VerdictFits, Judged
  <1> QED BY <1>1, <1>2, <1>3, <1>4, <1>5, ChangesAreChanges, SetMailIsChange DEF Next

\* However often configuration and lists change, each opening gets one answer,
\* the policy's for one look at each of them, and only an opening judged by a
\* rule that can panic, or about which a mail is due while its addresses do not
\* parse, can be lost: for any number of openings, peers and rules.
THEOREM AcceptorKeepsPromise == Spec => AnswersAsPromised
  <1>1. HookInv /\ TiedInv /\ VerdictsFit /\ [Next]_vars => PromisedStep /\ VerdictsFit'
    BY PromiseNext
  <1>2. Spec => []TiedInv
    BY TiedInit, TiedNext, HookInvariant, PTL DEF Spec
  <1> QED BY <1>1, <1>2, PromiseInit, HookInvariant, PTL
          DEF Spec, AnswersAsPromised, Promise!Spec, PromisedStep, Slots
=============================================================================

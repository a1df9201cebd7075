--------------------------- MODULE CollectProofs ---------------------------
(***************************************************************************)
(* Proofs about Collect: the type invariant, that every cache entry is     *)
(* whole, and what a successful call returns, for any number of calls,     *)
(* peers and rules, any sources a rule may read and any lifetime of the    *)
(* cache.                                                                  *)
(***************************************************************************)
EXTENDS Collect, TLAPS

(***************************************************************************)
(* The inductive invariant.                                                *)
(***************************************************************************)

\* Before the lookup nothing has been gathered.
NothingYet(t) ==
  t.pc \in {"idle", "peer", "lookup"} =>
    t.found = NoData /\ ~t.hit /\ t.running = {} /\ t.failed = {}

\* After a hit no task runs and the data is some rule's.
HitIsWhole(t) ==
  t.pc \in {"join", "ok"} /\ t.hit =>
    Whole(t.found) /\ t.running = {} /\ t.failed = {}

\* After a miss each source of the rule was fetched, is being fetched or
\* failed, and no other was.
MissAccountsForAll(t) ==
  t.pc \in {"join", "ok"} /\ ~t.hit =>
    /\ Present(t.found) \cup t.running \cup t.failed = Fetches(t.rule)
    /\ \A s \in Present(t.found) : t.found[s] >= t.t0

\* Tasks run only during the join, and a call begins before it goes on.
TasksJoined(t) ==
  /\ t.pc # "join" => t.running = {} /\ t.failed = {}
  /\ t.t0 <= now

OpeningIsOwn(t) ==
  /\ t.pc = "peer" => t.rule \in Multi
  /\ t.pc # "idle" => t.info.opening = t.opening
  /\ t.pc \in {"lookup", "join", "ok"} => (t.info.counted <=> t.rule \in Multi)

TaskInv(t) ==
  /\ NothingYet(t)
  /\ HitIsWhole(t)
  /\ MissAccountsForAll(t)
  /\ TasksJoined(t)
  /\ OpeningIsOwn(t)

CollectInv ==
  /\ CollectTypeOK
  /\ EntryIsWhole
  /\ \A c \in Calls : TaskInv(task[c])

(***************************************************************************)
(* Initial states.                                                         *)
(***************************************************************************)

LEMMA IdleTaskOK ==
  /\ IdleTask \in TaskRecord
  /\ now \in Nat => TaskInv(IdleTask)
  BY DEF IdleTask, TaskRecord, TaskInv, NothingYet, HitIsWhole, MissAccountsForAll,
         TasksJoined, OpeningIsOwn, NoData, PeerData, OpeningInfo

LEMMA CollectInitInv == CollectInit => CollectInv
  <1> SUFFICES ASSUME CollectInit PROVE CollectInv
    OBVIOUS
  <1>1. CollectTypeOK
    BY IdleTaskOK DEF CollectInit, CollectTypeOK, IdleTask
  <1>2. EntryIsWhole
    BY DEF CollectInit, EntryIsWhole
  <1>3. \A c \in Calls : TaskInv(task[c])
    BY IdleTaskOK DEF CollectInit
  <1> QED BY <1>1, <1>2, <1>3 DEF CollectInv

(***************************************************************************)
(* Steps.  Every step of a call replaces the record of that call alone.    *)
(***************************************************************************)

\* A record a call may have while it is under way.
Proper(t) ==
  /\ t \in TaskRecord
  /\ t.pc # "idle" =>
       /\ t.peer \in Peers
       /\ t.opening \in Openings
       /\ t.rule \in Rules
       /\ t.info \in OpeningInfo

\* Replacing one record by a proper one that satisfies the invariant keeps the
\* invariant, if the cache remains what it must be.
LEMMA OneTaskChanges ==
  ASSUME CollectInv, NEW c \in Calls, NEW t,
         Proper(t), TaskInv(t),
         task' = [task EXCEPT ![c] = t], UNCHANGED now,
         peerdata_cache' \in [Peers -> CacheEntry \cup {None}], EntryIsWhole'
  PROVE  CollectInv'
  <1>1. CollectTypeOK'
    BY DEF CollectInv, CollectTypeOK, Proper
  <1>3. \A d \in Calls : TaskInv(task[d])'
    <2> TAKE d \in Calls
    <2>1. task'[d] = IF d = c THEN t ELSE task[d]
      BY DEF CollectInv, CollectTypeOK
    <2>2. TaskInv(task'[d])
      BY <2>1 DEF CollectInv
    <2> QED
      BY <2>2 DEF TaskInv, NothingYet, HitIsWhole, MissAccountsForAll, TasksJoined,
                  OpeningIsOwn
  <1> QED BY <1>1, <1>3 DEF CollectInv

\* What the invariant says of the record of one call.
LEMMA TaskFacts ==
  ASSUME CollectInv, NEW c \in Calls
  PROVE  /\ Proper(task[c])
         /\ TaskInv(task[c])
         /\ task \in [Calls -> TaskRecord]
         /\ now \in Nat
         /\ peerdata_cache \in [Peers -> CacheEntry \cup {None}]
  BY DEF CollectInv, CollectTypeOK, Proper

LEMMA CacheUntouched ==
  ASSUME CollectInv, UNCHANGED peerdata_cache
  PROVE  peerdata_cache' \in [Peers -> CacheEntry \cup {None}] /\ EntryIsWhole'
  BY DEF CollectInv, CollectTypeOK, EntryIsWhole

LEMMA BeginInv ==
  ASSUME CollectInv, NEW c \in Calls, NEW p \in Peers, NEW o \in Openings,
         NEW r \in Rules, CollectBegin(c, p, o, r)
  PROVE  CollectInv'
  <1> DEFINE t == [IdleTask EXCEPT !.pc = IF r \in Multi THEN "peer" ELSE "lookup",
                        !.peer = p, !.opening = o, !.rule = r, !.t0 = now,
                        !.info = [opening |-> o, counted |-> FALSE]]
  <1>1. now \in Nat
    BY TaskFacts
  <1>2. IdleTask \in TaskRecord /\ TaskInv(IdleTask)
    BY <1>1, IdleTaskOK
  <1>3. Proper(t)
    BY <1>1, <1>2 DEF Proper, TaskRecord, OpeningInfo
  <1>4. TaskInv(t)
    <2>1. /\ t.pc \in {"peer", "lookup"} /\ (t.pc = "peer" => t.rule \in Multi)
          /\ (t.pc = "lookup" => t.rule \notin Multi)
          /\ t.t0 = now /\ t.info = [opening |-> t.opening, counted |-> FALSE]
      BY <1>2 DEF TaskRecord
    <2>2. t.found = NoData /\ ~t.hit /\ t.running = {} /\ t.failed = {}
      BY <1>2 DEF TaskRecord, TaskInv, NothingYet, IdleTask
    <2> HIDE DEF t
    <2> QED BY <1>1, <2>1, <2>2 DEF TaskInv, NothingYet, HitIsWhole, MissAccountsForAll,
                                    TasksJoined, OpeningIsOwn
  <1> QED BY <1>3, <1>4, OneTaskChanges, CacheUntouched DEF CollectBegin

LEMMA PeerChannelsInv ==
  ASSUME CollectInv, NEW c \in Calls, PeerChannels(c)
  PROVE  CollectInv'
  <1>1. Proper(task[c]) /\ TaskInv(task[c]) /\ task \in [Calls -> TaskRecord]
    BY TaskFacts
  <1>2. CASE task' = [task EXCEPT ![c].pc = "lookup", ![c].info.counted = TRUE]
    <2> DEFINE t == [task[c] EXCEPT !.pc = "lookup", !.info.counted = TRUE]
    <2>1. task' = [task EXCEPT ![c] = t]
      BY <1>1, <1>2 DEF TaskRecord
    <2>2. Proper(t)
      BY <1>1 DEF PeerChannels, Proper, TaskRecord, OpeningInfo
    <2>3. TaskInv(t)
      <3>1. /\ t.pc = "lookup" /\ t.rule \in Multi /\ t.t0 <= now
            /\ t.info.opening = t.opening /\ t.info.counted = TRUE
        BY <1>1 DEF PeerChannels, Proper, TaskRecord, OpeningInfo, TaskInv, TasksJoined,
                    OpeningIsOwn
      <3>2. t.found = NoData /\ ~t.hit /\ t.running = {} /\ t.failed = {}
        BY <1>1 DEF PeerChannels, Proper, TaskRecord, TaskInv, NothingYet
      <3> HIDE DEF t
      <3> QED BY <3>1, <3>2 DEF TaskInv, NothingYet, HitIsWhole, MissAccountsForAll,
                                TasksJoined, OpeningIsOwn
    <2> QED BY <2>1, <2>2, <2>3, OneTaskChanges, CacheUntouched DEF PeerChannels
  <1>3. CASE task' = [task EXCEPT ![c].pc = "err"]
    <2> DEFINE t == [task[c] EXCEPT !.pc = "err"]
    <2>1. task' = [task EXCEPT ![c] = t]
      BY <1>1, <1>3 DEF TaskRecord
    <2>2. Proper(t)
      BY <1>1 DEF PeerChannels, Proper, TaskRecord
    <2>3. TaskInv(t)
      BY <1>1 DEF PeerChannels, Proper, TaskRecord, TaskInv, NothingYet,
                  HitIsWhole, MissAccountsForAll, TasksJoined, OpeningIsOwn
    <2> QED BY <2>1, <2>2, <2>3, OneTaskChanges, CacheUntouched DEF PeerChannels
  <1> QED BY <1>2, <1>3 DEF PeerChannels

LEMMA LookupInv ==
  ASSUME CollectInv, NEW c \in Calls,
         LookupPanic(c) \/ LookupHit(c) \/ LookupMiss(c)
  PROVE  CollectInv'
  <1>1. /\ Proper(task[c]) /\ TaskInv(task[c]) /\ task \in [Calls -> TaskRecord]
        /\ peerdata_cache \in [Peers -> CacheEntry \cup {None}]
        /\ task[c].pc = "lookup"
    BY TaskFacts DEF LookupPanic, LookupHit, LookupMiss
  <1>2. /\ task[c].found = NoData /\ ~task[c].hit
        /\ task[c].running = {} /\ task[c].failed = {}
    BY <1>1 DEF TaskInv, NothingYet
  <1>3. CASE LookupPanic(c)
    <2> DEFINE t == [task[c] EXCEPT !.pc = "panic"]
    <2>1. task' = [task EXCEPT ![c] = t]
      BY <1>1, <1>3 DEF LookupPanic, TaskRecord
    <2>2. Proper(t)
      BY <1>1 DEF Proper, TaskRecord
    <2>3. TaskInv(t)
      BY <1>1, <1>2 DEF Proper, TaskRecord, TaskInv, NothingYet, HitIsWhole,
                        MissAccountsForAll, TasksJoined, OpeningIsOwn
    <2> QED BY <1>3, <2>1, <2>2, <2>3, OneTaskChanges, CacheUntouched DEF LookupPanic
  <1>4. CASE LookupHit(c)
    <2> DEFINE t == [task[c] EXCEPT !.pc = "join", !.hit = TRUE, !.found = EntryOf(c).src]
    <2>1. EntryOf(c) \in CacheEntry /\ Whole(EntryOf(c).src)
      BY <1>1, <1>4 DEF LookupHit, IsFresh, EntryOf, Proper, CollectInv, EntryIsWhole
    <2>2. task' = [task EXCEPT ![c] = t]
      BY <1>1, <1>4 DEF LookupHit, TaskRecord
    <2>3. Proper(t)
      BY <1>1, <2>1 DEF Proper, TaskRecord, CacheEntry
    <2>4. TaskInv(t)
      <3>1. /\ t.pc = "join" /\ t.hit = TRUE /\ t.found = EntryOf(c).src
            /\ t.running = {} /\ t.failed = {}
        BY <1>1, <1>2 DEF TaskRecord
      <3>2. t.t0 <= now /\ OpeningIsOwn(t)
        BY <1>1 DEF TaskRecord, TaskInv, TasksJoined, OpeningIsOwn
      <3> HIDE DEF t
      <3> QED BY <2>1, <3>1, <3>2 DEF TaskInv, NothingYet, HitIsWhole, MissAccountsForAll,
                                      TasksJoined
    <2> HIDE DEF t
    <2> QED BY <1>4, <2>2, <2>3, <2>4, OneTaskChanges, CacheUntouched DEF LookupHit
  <1>5. CASE LookupMiss(c)
    <2> DEFINE t == [task[c] EXCEPT !.pc = "join", !.running = Fetches(task[c].rule)]
    <2>1. task[c].rule \in Rules /\ Fetches(task[c].rule) \subseteq Sources
      BY <1>1, RulesAssumption DEF Proper, Fetches, Sources
    <2>2. task' = [task EXCEPT ![c] = t]
      BY <1>1, <1>5 DEF LookupMiss, TaskRecord
    <2>3. Proper(t)
      BY <1>1, <2>1 DEF Proper, TaskRecord
    <2>4. TaskInv(t)
      <3>1. /\ t.pc = "join" /\ ~t.hit /\ t.found = NoData /\ t.rule = task[c].rule
            /\ t.running = Fetches(task[c].rule) /\ t.failed = {}
        BY <1>1, <1>2 DEF TaskRecord
      <3>2. t.t0 <= now /\ OpeningIsOwn(t)
        BY <1>1 DEF TaskRecord, TaskInv, TasksJoined, OpeningIsOwn
      <3>3. Present(NoData) = {}
        BY DEF Present, NoData
      <3> HIDE DEF t
      <3> QED BY <3>1, <3>2, <3>3 DEF TaskInv, NothingYet, HitIsWhole, MissAccountsForAll,
                                      TasksJoined
    <2> HIDE DEF t
    <2> QED BY <1>5, <2>2, <2>3, <2>4, OneTaskChanges, CacheUntouched DEF LookupMiss
  <1> QED BY <1>3, <1>4, <1>5

\* An answered source is present from then on and no longer awaited.
LEMMA FetchOkInv ==
  ASSUME CollectInv, NEW c \in Calls, NEW s \in Sources, FetchOk(c, s)
  PROVE  CollectInv'
  <1>1. /\ Proper(task[c]) /\ TaskInv(task[c]) /\ task \in [Calls -> TaskRecord]
        /\ now \in Nat /\ s \in task[c].running
    BY TaskFacts DEF FetchOk
  <1>2. task[c].pc = "join" /\ ~task[c].hit /\ task[c].t0 <= now
    BY <1>1 DEF TaskInv, TasksJoined, HitIsWhole
  <1> DEFINE t == [task[c] EXCEPT !.running = @ \ {s}, !.found[s] = now]
  <1>3. task' = [task EXCEPT ![c] = t]
    BY <1>1 DEF FetchOk, TaskRecord
  <1>4. Proper(t)
    BY <1>1 DEF Proper, TaskRecord, PeerData
  <1>5. TaskInv(t)
    <2>1. /\ t.pc = "join" /\ ~t.hit /\ t.t0 = task[c].t0 /\ t.rule = task[c].rule
          /\ t.running = task[c].running \ {s} /\ t.failed = task[c].failed
          /\ t.found = [task[c].found EXCEPT ![s] = now]
      BY <1>1, <1>2 DEF TaskRecord
    <2>2. t.t0 <= now /\ OpeningIsOwn(t)
      BY <1>1, <1>2 DEF TaskRecord, TaskInv, OpeningIsOwn
    <2>3. task[c].found \in PeerData
      BY <1>1 DEF Proper, TaskRecord
    <2>4. Present(t.found) = Present(task[c].found) \cup {s}
      BY <1>1, <2>1, <2>3, NoneAssumption DEF Present, PeerData
    <2>5. \A q \in Present(t.found) : t.found[q] >= t.t0
      BY <1>1, <1>2, <2>1, <2>3, <2>4 DEF Present, PeerData, TaskInv, MissAccountsForAll
    <2>6. Present(t.found) \cup t.running \cup t.failed = Fetches(t.rule)
      BY <1>1, <1>2, <2>1, <2>4 DEF TaskInv, MissAccountsForAll
    <2> HIDE DEF t
    <2> QED BY <2>1, <2>2, <2>5, <2>6 DEF TaskInv, NothingYet, HitIsWhole,
                                         MissAccountsForAll, TasksJoined
  <1> HIDE DEF t
  <1> QED BY <1>3, <1>4, <1>5, OneTaskChanges, CacheUntouched DEF FetchOk

LEMMA FetchErrInv ==
  ASSUME CollectInv, NEW c \in Calls, NEW s \in Sources, FetchErr(c, s)
  PROVE  CollectInv'
  <1>1. /\ Proper(task[c]) /\ TaskInv(task[c]) /\ task \in [Calls -> TaskRecord]
        /\ s \in task[c].running
    BY TaskFacts DEF FetchErr
  <1>2. task[c].pc = "join" /\ ~task[c].hit
    BY <1>1 DEF TaskInv, TasksJoined, HitIsWhole
  <1> DEFINE t == [task[c] EXCEPT !.running = @ \ {s}, !.failed = @ \cup {s}]
  <1>3. task' = [task EXCEPT ![c] = t]
    BY <1>1 DEF FetchErr, TaskRecord
  <1>4. Proper(t)
    BY <1>1 DEF Proper, TaskRecord
  <1>5. TaskInv(t)
    <2>1. /\ t.pc = "join" /\ ~t.hit /\ t.t0 = task[c].t0 /\ t.rule = task[c].rule
          /\ t.running = task[c].running \ {s} /\ t.failed = task[c].failed \cup {s}
          /\ t.found = task[c].found
      BY <1>1, <1>2 DEF TaskRecord
    <2>2. t.t0 <= now /\ OpeningIsOwn(t)
      BY <1>1 DEF TaskRecord, TaskInv, TasksJoined, OpeningIsOwn
    <2>3. MissAccountsForAll(t)
      BY <1>1, <1>2, <2>1 DEF TaskInv, MissAccountsForAll
    <2> HIDE DEF t
    <2> QED BY <2>1, <2>2, <2>3 DEF TaskInv, NothingYet, HitIsWhole, TasksJoined
  <1> HIDE DEF t
  <1> QED BY <1>3, <1>4, <1>5, OneTaskChanges, CacheUntouched DEF FetchErr

LEMMA JoinErrInv ==
  ASSUME CollectInv, NEW c \in Calls, JoinErr(c)
  PROVE  CollectInv'
  <1>1. /\ Proper(task[c]) /\ TaskInv(task[c]) /\ task \in [Calls -> TaskRecord]
        /\ task[c].pc = "join"
    BY TaskFacts DEF JoinErr
  <1> DEFINE t == [task[c] EXCEPT !.pc = "err", !.found = NoData,
                                  !.running = {}, !.failed = {}]
  <1>2. task' = [task EXCEPT ![c] = t]
    BY <1>1 DEF JoinErr, TaskRecord
  <1>3. Proper(t)
    BY <1>1 DEF Proper, TaskRecord, PeerData, NoData
  <1>4. TaskInv(t)
    BY <1>1 DEF Proper, TaskRecord, TaskInv, NothingYet, HitIsWhole, MissAccountsForAll,
                TasksJoined, OpeningIsOwn
  <1> QED BY <1>2, <1>3, <1>4, OneTaskChanges, CacheUntouched DEF JoinErr

\* The one step that fills the cache: with every task joined and none failed,
\* what was found is whole.
LEMMA JoinOkInv ==
  ASSUME CollectInv, NEW c \in Calls, JoinOk(c)
  PROVE  CollectInv'
  <1>1. /\ Proper(task[c]) /\ TaskInv(task[c]) /\ task \in [Calls -> TaskRecord]
        /\ task[c].pc = "join" /\ task[c].running = {} /\ task[c].failed = {}
        /\ peerdata_cache \in [Peers -> CacheEntry \cup {None}]
    BY TaskFacts DEF JoinOk
  <1> DEFINE t == [task[c] EXCEPT !.pc = "ok"]
             e == [src |-> task[c].found, info |-> task[c].info, age |-> task[c].t0]
  <1>2. task' = [task EXCEPT ![c] = t]
    BY <1>1 DEF JoinOk, TaskRecord
  <1>3. Proper(t)
    BY <1>1 DEF Proper, TaskRecord
  <1>4. TaskInv(t)
    BY <1>1 DEF Proper, TaskRecord, TaskInv, NothingYet, HitIsWhole, MissAccountsForAll,
                TasksJoined, OpeningIsOwn
  <1>5. Whole(task[c].found)
    <2>1. CASE task[c].hit
      BY <1>1, <2>1 DEF TaskInv, HitIsWhole
    <2>2. CASE ~task[c].hit
      BY <1>1, <2>2 DEF TaskInv, MissAccountsForAll, Whole, Proper
    <2> QED BY <2>1, <2>2
  <1>6. e \in CacheEntry
    BY <1>1 DEF Proper, TaskRecord, CacheEntry
  <1>7. peerdata_cache' = [peerdata_cache EXCEPT ![task[c].peer] = e]
    BY DEF JoinOk
  <1>8. peerdata_cache' \in [Peers -> CacheEntry \cup {None}]
    BY <1>1, <1>6, <1>7
  <1>9. EntryIsWhole'
    <2> SUFFICES ASSUME NEW p \in Peers, peerdata_cache'[p] # None
                 PROVE  Whole(peerdata_cache'[p].src)
      BY DEF EntryIsWhole, Whole, Present
    <2>1. CASE p = task[c].peer
      BY <1>1, <1>5, <1>7, <2>1
    <2>2. CASE p # task[c].peer
      BY <1>1, <1>7, <2>2 DEF CollectInv, EntryIsWhole
    <2> QED BY <2>1, <2>2
  <1> HIDE DEF t, e
  <1> QED BY <1>2, <1>3, <1>4, <1>8, <1>9, OneTaskChanges DEF JoinOk

LEMMA ReturnInv ==
  ASSUME CollectInv, NEW c \in Calls, CollectReturn(c)
  PROVE  CollectInv'
  <1>1. Proper(IdleTask) /\ TaskInv(IdleTask)
    BY IdleTaskOK, TaskFacts DEF Proper, IdleTask
  <1> QED BY <1>1, OneTaskChanges, CacheUntouched DEF CollectReturn

LEMMA ClearInv == ASSUME CollectInv, ClearCache PROVE CollectInv'
  <1>1. CollectTypeOK'
    BY DEF CollectInv, CollectTypeOK, ClearCache
  <1>2. EntryIsWhole'
    BY DEF EntryIsWhole, ClearCache
  <1>3. \A c \in Calls : TaskInv(task[c])'
    BY DEF CollectInv, ClearCache, TaskInv, NothingYet, HitIsWhole, MissAccountsForAll,
           TasksJoined, OpeningIsOwn
  <1> QED BY <1>1, <1>2, <1>3 DEF CollectInv

LEMMA TickInv == ASSUME CollectInv, Tick PROVE CollectInv'
  <1>1. CollectTypeOK'
    BY DEF CollectInv, CollectTypeOK, Tick
  <1>2. EntryIsWhole'
    BY DEF CollectInv, EntryIsWhole, Tick
  <1>3. \A c \in Calls : TaskInv(task[c])'
    <2> TAKE c \in Calls
    <2>1. TaskInv(task[c]) /\ task[c] \in TaskRecord /\ now \in Nat
      BY TaskFacts DEF Proper
    <2>2. TasksJoined(task[c])'
      BY <2>1 DEF TaskInv, TasksJoined, Tick, TaskRecord
    <2> QED BY <2>1, <2>2 DEF Tick, TaskInv, NothingYet, HitIsWhole, MissAccountsForAll,
                              OpeningIsOwn
  <1> QED BY <1>1, <1>2, <1>3 DEF CollectInv

LEMMA StutterInv == ASSUME CollectInv, UNCHANGED collectVars PROVE CollectInv'
  BY DEF collectVars, CollectInv, CollectTypeOK, EntryIsWhole, TaskInv, NothingYet,
         HitIsWhole, MissAccountsForAll, TasksJoined, OpeningIsOwn

(***************************************************************************)
(* The theorems.                                                           *)
(***************************************************************************)

LEMMA CollectNextInv == CollectInv /\ [CollectNext]_collectVars => CollectInv'
  <1> SUFFICES ASSUME CollectInv, CollectNext PROVE CollectInv'
    BY StutterInv
  <1>1. ASSUME NEW c \in Calls, NEW p \in Peers, NEW o \in Openings, NEW r \in Rules,
               CollectBegin(c, p, o, r)
        PROVE  CollectInv'
    BY <1>1, BeginInv
  <1>2. ASSUME NEW c \in Calls, CollectStep(c) PROVE CollectInv'
    BY <1>2, PeerChannelsInv, LookupInv, FetchOkInv, FetchErrInv, JoinErrInv, JoinOkInv
       DEF CollectStep
  <1>3. ASSUME NEW c \in Calls, CollectReturn(c) PROVE CollectInv'
    BY <1>3, ReturnInv
  <1>4. CASE ClearCache
    BY <1>4, ClearInv
  <1>5. CASE Tick
    BY <1>5, TickInv
  <1> QED BY <1>1, <1>2, <1>3, <1>4, <1>5 DEF CollectNext

\* The inductive invariant holds throughout collect_data's specification.
THEOREM CollectInvariant == CollectSpec => []CollectInv
  BY CollectInitInv, CollectNextInv, PTL DEF CollectSpec

\* Every variable of collect_data stays in its domain.
THEOREM CollectTypeCorrect == CollectSpec => []CollectTypeOK
  BY CollectInvariant, PTL DEF CollectInv

\* The cache never holds part of a failed or overtaken collection: each entry
\* has exactly the sources some rule names.
THEOREM EntriesAreWhole == CollectSpec => []EntryIsWhole
  BY CollectInvariant, PTL DEF CollectInv

\* A call that misses the cache and succeeds returns all its rule names, each
\* source fetched after the call began.
THEOREM MissesSeeAll == CollectSpec => []MissSeesWhatItReads
  <1>1. CollectInv => MissSeesWhatItReads
    BY DEF CollectInv, TaskInv, MissAccountsForAll, TasksJoined, MissSeesWhatItReads
  <1> QED BY <1>1, CollectInvariant, PTL

\* What is particular to an opening never comes out of the cache.
THEOREM OpeningsAreOwn == CollectSpec => []OwnOpening
  <1>1. CollectInv => OwnOpening
    BY DEF CollectInv, TaskInv, OpeningIsOwn, OwnOpening
  <1> QED BY <1>1, CollectInvariant, PTL
=============================================================================

------------------------------ MODULE Collect ------------------------------
(***************************************************************************)
(* collect_data (src/collect.rs) and the peer data cache it shares         *)
(* with every other call: concurrent calls gather what a rule names from   *)
(* four sources, each fetched by a task of its own, or take it from the    *)
(* cache entry of the peer.                                                *)
(*                                                                         *)
(* What a source answers is abstracted to the time it answered; None       *)
(* stands for Rust's None.  A rule is abstracted to the sources its        *)
(* variables belong to.  Time is in units of the cache's lifetime.         *)
(***************************************************************************)
EXTENDS Naturals

CONSTANTS
  Calls,           \* slots for concurrent calls of collect_data
  Peers,
  Openings,        \* opening specific data: funding amount, channel flags
  Rules,
  Reads,           \* Reads[r]: the sources whose variables rule r mentions
  Multi,           \* the rules that mention cln_multi_channel_count
  TTL,             \* lifetime of a cache entry (3600 s in the code)
  MaxTime,         \* bound of the model: the clock stops there
  U64,             \* unsigned time differences are taken modulo U64
  OverflowChecks,  \* the builds: TRUE if unsigned underflow panics, FALSE if it wraps
  None

Sources == {"ping", "gossip", "amboss", "oneml"}

\* The order in which collect_data awaits the tasks.
AwaitRank == [ping |-> 1, gossip |-> 2, amboss |-> 3, oneml |-> 4]

PeerData == [Sources -> Nat \cup {None}]
OpeningInfo == [opening : Openings, counted : BOOLEAN]
CacheEntry == [src : PeerData, info : OpeningInfo, age : Nat]

ASSUME RulesAssumption == Reads \in [Rules -> SUBSET Sources] /\ Multi \subseteq Rules
ASSUME TimeAssumption ==
  /\ TTL \in Nat
  /\ MaxTime \in Nat
  /\ U64 \in Nat
  /\ U64 > MaxTime
  /\ OverflowChecks \subseteq BOOLEAN
ASSUME NoneAssumption == None \notin Nat /\ None \notin CacheEntry

VARIABLES
  now,             \* the wall clock
  peerdata_cache,  \* per peer a CacheEntry or None
  task             \* per call: the local state of collect_data
collectVars == <<now, peerdata_cache, task>>

Present(src) == {s \in Sources : src[s] # None}
NoData == [s \in Sources |-> None]

\* cln_multi_channel_count contains the substring "cln_" as well, so such a
\* rule starts the gossip task whether or not it reads a gossip variable.
Fetches(r) == Reads[r] \cup (IF r \in Multi THEN {"gossip"} ELSE {})

\* now - age in u64, wrapping as an unchecked build does.
Elapsed(t, age) == IF t >= age THEN t - age ELSE U64 - (age - t)

IdleTask ==
  [pc |-> "idle", peer |-> None, opening |-> None, rule |-> None, t0 |-> 0,
   info |-> None, hit |-> FALSE, found |-> NoData, running |-> {}, failed |-> {}]

CollectInit ==
  /\ now = 0
  /\ peerdata_cache = [p \in Peers |-> None]
  /\ task = [c \in Calls |-> IdleTask]

(***************************************************************************)
(* collect_data.                                                           *)
(***************************************************************************)

\* Mutant: the opening specific data is built only where no channels are counted.
CollectBeginNoInfo(c, p, o, r) ==
  /\ task[c].pc = "idle"
  /\ task' = [task EXCEPT ![c] =
       [IdleTask EXCEPT !.pc = IF r \in Multi THEN "peer" ELSE "lookup",
                        !.peer = p, !.opening = o, !.rule = r, !.t0 = now,
                        !.info = IF r \in Multi THEN None
                                 ELSE [opening |-> o, counted |-> FALSE]]]
  /\ UNCHANGED <<now, peerdata_cache>>

\* The call notes the time and, unless the rule counts channels, builds the
\* opening specific data from its arguments.
CollectBegin(c, p, o, r) ==
  /\ task[c].pc = "idle"
  /\ task' = [task EXCEPT ![c] =
       [IdleTask EXCEPT !.pc = IF r \in Multi THEN "peer" ELSE "lookup",
                        !.peer = p, !.opening = o, !.rule = r, !.t0 = now,
                        !.info = [opening |-> o, counted |-> FALSE]]]
  /\ UNCHANGED <<now, peerdata_cache>>

\* listpeerchannels answers, or its error ends the call.
PeerChannels(c) ==
  /\ task[c].pc = "peer"
  /\ \/ task' = [task EXCEPT ![c].pc = "lookup", ![c].info.counted = TRUE]
     \/ task' = [task EXCEPT ![c].pc = "err"]
  /\ UNCHANGED <<now, peerdata_cache>>

EntryOf(c) == peerdata_cache[task[c].peer]

Underflows(c) == EntryOf(c) # None /\ EntryOf(c).age > task[c].t0

IsFresh(c) == EntryOf(c) # None /\ Elapsed(task[c].t0, EntryOf(c).age) <= TTL

LookupPanic(c) ==
  /\ task[c].pc = "lookup"
  /\ Underflows(c) /\ TRUE \in OverflowChecks
  /\ task' = [task EXCEPT ![c].pc = "panic"]
  /\ UNCHANGED <<now, peerdata_cache>>

\* Mutant: the opening specific data comes out of the cache, too.
LookupHitWholeEntry(c) ==
  /\ task[c].pc = "lookup"
  /\ Underflows(c) => FALSE \in OverflowChecks
  /\ IsFresh(c)
  /\ task' = [task EXCEPT ![c].pc = "join", ![c].hit = TRUE,
                          ![c].found = EntryOf(c).src, ![c].info = EntryOf(c).info]
  /\ UNCHANGED <<now, peerdata_cache>>

\* A hit copies what the sources gave, for whatever rule it was collected,
\* and leaves the entry's opening specific data.
LookupHit(c) ==
  /\ task[c].pc = "lookup"
  /\ Underflows(c) => FALSE \in OverflowChecks
  /\ IsFresh(c)
  /\ task' = [task EXCEPT ![c].pc = "join", ![c].hit = TRUE,
                          ![c].found = EntryOf(c).src]
  /\ UNCHANGED <<now, peerdata_cache>>

\* Mutant: counting channels does not start the gossip task.
LookupMissReadsOnly(c) ==
  /\ task[c].pc = "lookup"
  /\ Underflows(c) => FALSE \in OverflowChecks
  /\ ~IsFresh(c)
  /\ task' = [task EXCEPT ![c].pc = "join", ![c].running = Reads[task[c].rule]]
  /\ UNCHANGED <<now, peerdata_cache>>

\* A miss spawns one task for each source the rule names.
LookupMiss(c) ==
  /\ task[c].pc = "lookup"
  /\ Underflows(c) => FALSE \in OverflowChecks
  /\ ~IsFresh(c)
  /\ task' = [task EXCEPT ![c].pc = "join", ![c].running = Fetches(task[c].rule)]
  /\ UNCHANGED <<now, peerdata_cache>>

FetchOk(c, s) ==
  /\ s \in task[c].running
  /\ task' = [task EXCEPT ![c].running = @ \ {s}, ![c].found[s] = now]
  /\ UNCHANGED <<now, peerdata_cache>>

\* The task ends with an error, its retries spent, or panics.
FetchErr(c, s) ==
  /\ s \in task[c].running
  /\ task' = [task EXCEPT ![c].running = @ \ {s}, ![c].failed = @ \cup {s}]
  /\ UNCHANGED <<now, peerdata_cache>>

\* Awaiting in order, the first failed task ends the call; tasks awaited
\* later run on detached, and nothing reads their results.
JoinErr(c) ==
  /\ task[c].pc = "join"
  /\ \E s \in task[c].failed :
       \A q \in task[c].running \cup task[c].failed : AwaitRank[s] <= AwaitRank[q]
  /\ task' = [task EXCEPT ![c].pc = "err", ![c].found = NoData,
                          ![c].running = {}, ![c].failed = {}]
  /\ UNCHANGED <<now, peerdata_cache>>

\* Mutant: what could be had is cached although a task failed.
JoinOkDespiteFailures(c) ==
  /\ task[c].pc = "join"
  /\ task[c].running = {}
  /\ task' = [task EXCEPT ![c].pc = "ok", ![c].failed = {}]
  /\ peerdata_cache' = [peerdata_cache EXCEPT ![task[c].peer] =
       [src |-> task[c].found, info |-> task[c].info, age |-> task[c].t0]]
  /\ UNCHANGED now

\* The data is cached under the time the call began, after a hit as well.
JoinOk(c) ==
  /\ task[c].pc = "join"
  /\ task[c].running = {}
  /\ task[c].failed = {}
  /\ task' = [task EXCEPT ![c].pc = "ok"]
  /\ peerdata_cache' = [peerdata_cache EXCEPT ![task[c].peer] =
       [src |-> task[c].found, info |-> task[c].info, age |-> task[c].t0]]
  /\ UNCHANGED now

CollectStep(c) ==
  \/ PeerChannels(c)
  \/ LookupPanic(c) \/ LookupHit(c) \/ LookupMiss(c)
  \/ \E s \in Sources : FetchOk(c, s) \/ FetchErr(c, s)
  \/ JoinErr(c) \/ JoinOk(c)

(***************************************************************************)
(* The surroundings of the calls.                                          *)
(***************************************************************************)

\* The caller takes the result and the slot is free for another call.
CollectReturn(c) ==
  /\ task[c].pc \in {"ok", "err", "panic"}
  /\ task' = [task EXCEPT ![c] = IdleTask]
  /\ UNCHANGED <<now, peerdata_cache>>

\* setconfig of the custom rule forgets everything that was collected.
ClearCache ==
  /\ peerdata_cache' = [p \in Peers |-> None]
  /\ UNCHANGED <<now, task>>

Tick ==
  /\ now < MaxTime
  /\ now' = now + 1
  /\ UNCHANGED <<peerdata_cache, task>>

CollectNext ==
  \/ \E c \in Calls :
       \/ \E p \in Peers, o \in Openings, r \in Rules : CollectBegin(c, p, o, r)
       \/ CollectStep(c)
       \/ CollectReturn(c)
  \/ ClearCache
  \/ Tick

CollectSpec == CollectInit /\ [][CollectNext]_collectVars

(***************************************************************************)
(* Properties.                                                             *)
(***************************************************************************)

TaskRecord ==
  [pc : {"idle", "peer", "lookup", "join", "ok", "err", "panic"},
   peer : Peers \cup {None}, opening : Openings \cup {None},
   rule : Rules \cup {None}, t0 : Nat,
   info : OpeningInfo \cup {None}, hit : BOOLEAN,
   found : PeerData, running : SUBSET Sources, failed : SUBSET Sources]

\* Every variable stays in its domain, and a call that is under way has the
\* arguments it was begun with.
CollectTypeOK ==
  /\ now \in Nat
  /\ peerdata_cache \in [Peers -> CacheEntry \cup {None}]
  /\ task \in [Calls -> TaskRecord]
  /\ \A c \in Calls : task[c].pc # "idle" =>
       /\ task[c].peer \in Peers
       /\ task[c].opening \in Openings
       /\ task[c].rule \in Rules
       /\ task[c].info \in OpeningInfo

\* A cache entry is whole: it holds all that some rule names and nothing
\* else, so a call that failed half way, or was overtaken by a clear, never
\* leaves part of its data behind for others to be judged by.
Whole(src) == \E r \in Rules : Present(src) = Fetches(r)
EntryIsWhole ==
  \A p \in Peers : peerdata_cache[p] # None => Whole(peerdata_cache[p].src)

\* A call that succeeds without a cache hit returns exactly what its rule
\* names, each source asked after the call began: no task is left unawaited.
MissSeesWhatItReads ==
  \A c \in Calls : task[c].pc = "ok" /\ ~task[c].hit =>
    /\ Present(task[c].found) = Fetches(task[c].rule)
    /\ \A s \in Fetches(task[c].rule) : task[c].found[s] >= task[c].t0

\* A call is judged by its own opening: neither the funding and flags nor the
\* channel count of an earlier opening of the same peer come out of the cache
\* (the bug the CHANGELOG reports fixed in 0.5.0).
OwnOpening ==
  \A c \in Calls : task[c].pc \in {"join", "ok"} =>
    /\ task[c].info.opening = task[c].opening
    /\ task[c].info.counted <=> task[c].rule \in Multi

\* What the README says: "There is an one hour cache for collecting data".
\* A call uses no data fetched more than a lifetime before it began.
OneHourCache ==
  \A c \in Calls : task[c].pc = "ok" =>
    \A s \in Present(task[c].found) : task[c].found[s] + TTL >= task[c].t0
=============================================================================

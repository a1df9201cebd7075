-------------------------------- MODULE Fetch --------------------------------
(***************************************************************************)
(* The tasks collect_data spawns (src/collect.rs): requests to two web     *)
(* APIs, spaced by a mutex that holds the time of the last call and        *)
(* repeated after errors, pings with a timeout, and a look at the gossip.  *)
(*                                                                         *)
(* A task runs on when the call that spawned it has given up, so a slot of *)
(* Tasks is a task, not a call.  Time passes in ticks; a span longer than  *)
(* the spacing of an API is not counted further.  How long a ping took is  *)
(* a free choice.                                                          *)
(***************************************************************************)
EXTENDS Naturals, SequencesExt

CONSTANTS
  Tasks,
  Apis,       \* of {"amboss", "oneml"}
  Supported,  \* the APIs that serve lightningd's network
  Sources,    \* Apis, "ping" and "gossip", or some of them
  Spacing,    \* Spacing[a]: ticks between an answer and the next request
  Backoff,    \* ticks to wait after the first failure (2 s)
  PingTimes,  \* the milliseconds measured for an answered ping
  Counts,     \* how often clnrod-testping may be asked to ping
  None

MaxAttempts == 3
PingCount == 3
PingTimeout == 5000
LongestPing == 65535   \* u16

ASSUME FetchAssumption ==
  /\ Supported \subseteq Apis
  /\ Apis \subseteq Sources
  /\ Sources \subseteq Apis \cup {"ping", "gossip"}
  /\ {"ping", "gossip"} \cap Apis = {}
  /\ Spacing \in [Apis -> Nat]
  /\ Backoff \in Nat
  /\ PingTimes \subseteq Nat
  /\ Counts \subseteq Nat
  /\ None \notin Tasks \cup Sources

VARIABLES
  task,           \* per slot the local state of a task
  holder,         \* per API the task that holds its mutex
  waiting,        \* per API the tasks that wait for the mutex, first come first
  since_recorded, \* per API the ticks since the recorded last_api_call
  since_answered  \* history: per API the ticks since it last answered
vars == <<task, holder, waiting, since_recorded, since_answered>>

IdleTask == [pc |-> "idle", source |-> None, attempts |-> 0, sleep |-> 0,
             requests |-> 0, count |-> 0, results |-> <<>>]

Init ==
  /\ task = [t \in Tasks |-> IdleTask]
  /\ holder = [a \in Apis |-> None]
  /\ waiting = [a \in Apis |-> <<>>]
  /\ since_recorded = [a \in Apis |-> Spacing[a] + 1]
  /\ since_answered = [a \in Apis |-> Spacing[a] + 1]

Running(t) == task[t].pc \notin {"idle", "ok", "err"}
Ended(t) == task[t].pc \in {"ok", "err"}

(***************************************************************************)
(* get_amboss_data and get_oneml_data, called up to three times.           *)
(***************************************************************************)

SpawnRequest(t, a) ==
  /\ task[t].pc = "idle"
  /\ task' = [task EXCEPT ![t] =
       [IdleTask EXCEPT !.pc = "queued", !.source = a, !.attempts = 1]]
  /\ waiting' = [waiting EXCEPT ![a] = Append(@, t)]
  /\ UNCHANGED <<holder, since_recorded, since_answered>>

\* Mutant: whoever asked last is served first.
LockLifo(t) ==
  LET a == task[t].source IN
    /\ task[t].pc = "queued"
    /\ holder[a] = None
    /\ Last(waiting[a]) = t
    /\ holder' = [holder EXCEPT ![a] = t]
    /\ waiting' = [waiting EXCEPT ![a] = Front(@)]
    /\ task' = [task EXCEPT ![t].pc = "spacing"]
    /\ UNCHANGED <<since_recorded, since_answered>>

\* lock().await: the mutex serves its waiters in turn.
Lock(t) ==
  LET a == task[t].source IN
    /\ task[t].pc = "queued"
    /\ holder[a] = None
    /\ Head(waiting[a]) = t
    /\ holder' = [holder EXCEPT ![a] = t]
    /\ waiting' = [waiting EXCEPT ![a] = Tail(@)]
    /\ task' = [task EXCEPT ![t].pc = "spacing"]
    /\ UNCHANGED <<since_recorded, since_answered>>

Spaced(a) == since_recorded[a] > Spacing[a]

\* Mutant: the mutex is released once the spacing is over.
SendUnlocked(t) ==
  LET a == task[t].source IN
    /\ task[t].pc = "spacing"
    /\ Spaced(a)
    /\ a \in Supported
    /\ holder' = [holder EXCEPT ![a] = None]
    /\ task' = [task EXCEPT ![t].pc = "sent", ![t].requests = @ + 1]
    /\ UNCHANGED <<waiting, since_recorded, since_answered>>

\* The request goes out, the mutex still held.
Send(t) ==
  LET a == task[t].source IN
    /\ task[t].pc = "spacing"
    /\ Spaced(a)
    /\ a \in Supported
    /\ task' = [task EXCEPT ![t].pc = "sent", ![t].requests = @ + 1]
    /\ UNCHANGED <<holder, waiting, since_recorded, since_answered>>

\* The attempt failed and dropped the mutex: sleep, unless it was the third.
AfterFailure(t) ==
  IF task[t].attempts >= MaxAttempts THEN [task[t] EXCEPT !.pc = "err"]
  ELSE [task[t] EXCEPT !.pc = "asleep", !.sleep = task[t].attempts * Backoff]

\* The network is one the API does not serve: an error without a request.
NotSupported(t) ==
  LET a == task[t].source IN
    /\ task[t].pc = "spacing"
    /\ Spaced(a)
    /\ a \notin Supported
    /\ holder' = [holder EXCEPT ![a] = None]
    /\ task' = [task EXCEPT ![t] = AfterFailure(t)]
    /\ UNCHANGED <<waiting, since_recorded, since_answered>>

\* Mutant: the time is recorded only for an answer that could be used.
AnswerRecordingSuccess(t) ==
  LET a == task[t].source IN
    /\ task[t].pc = "sent"
    /\ holder' = [holder EXCEPT ![a] = None]
    /\ since_answered' = [since_answered EXCEPT ![a] = 0]
    /\ \/ /\ task' = [task EXCEPT ![t].pc = "ok"]
          /\ since_recorded' = [since_recorded EXCEPT ![a] = 0]
       \/ task' = [task EXCEPT ![t] = AfterFailure(t)] /\ UNCHANGED since_recorded
    /\ UNCHANGED waiting

\* An answer records the time, whether it is data, another status or not to
\* be parsed.
Answer(t) ==
  LET a == task[t].source IN
    /\ task[t].pc = "sent"
    /\ holder' = [holder EXCEPT ![a] = None]
    /\ since_recorded' = [since_recorded EXCEPT ![a] = 0]
    /\ since_answered' = [since_answered EXCEPT ![a] = 0]
    /\ \/ task' = [task EXCEPT ![t].pc = "ok"]
       \/ task' = [task EXCEPT ![t] = AfterFailure(t)]
    /\ UNCHANGED waiting

\* Mutant: the retry loop does not count.
SendFailsForever(t) ==
  /\ task[t].pc = "sent"
  /\ holder' = [holder EXCEPT ![task[t].source] = None]
  /\ task' = [task EXCEPT ![t].pc = "asleep", ![t].sleep = Backoff, ![t].attempts = 0]
  /\ UNCHANGED <<waiting, since_recorded, since_answered>>

\* Sending fails: nothing is recorded, so the next request is not spaced.
SendFails(t) ==
  /\ task[t].pc = "sent"
  /\ holder' = [holder EXCEPT ![task[t].source] = None]
  /\ task' = [task EXCEPT ![t] = AfterFailure(t)]
  /\ UNCHANGED <<waiting, since_recorded, since_answered>>

Retry(t) ==
  /\ task[t].pc = "asleep"
  /\ task[t].sleep = 0
  /\ task' = [task EXCEPT ![t].pc = "queued", ![t].attempts = @ + 1]
  /\ waiting' = [waiting EXCEPT ![task[t].source] = Append(@, t)]
  /\ UNCHANGED <<holder, since_recorded, since_answered>>

(***************************************************************************)
(* get_gossip_data, and ln_ping for collect_data or clnrod-testping.       *)
(***************************************************************************)

SpawnGossip(t) ==
  /\ task[t].pc = "idle"
  /\ task' = [task EXCEPT ![t] = [IdleTask EXCEPT !.pc = "gossip", !.source = "gossip"]]
  /\ UNCHANGED <<holder, waiting, since_recorded, since_answered>>

\* The loop runs while fewer pings than count were made.
Ping(t, count) ==
  /\ task[t].pc = "idle"
  /\ task' = [task EXCEPT ![t] =
       [IdleTask EXCEPT !.pc = IF count > 0 THEN "ping" ELSE "ok",
                        !.source = "ping", !.count = count]]
  /\ UNCHANGED <<holder, waiting, since_recorded, since_answered>>

SpawnPing(t) == Ping(t, PingCount)

\* A count below one is an error.  The peer is connected to first.
TestPing(t, count) == count >= 1 /\ Ping(t, count)

PingAdds(t, ms, over) ==
  /\ task' = [task EXCEPT ![t].results = Append(@, ms),
                          ![t].pc = IF over THEN "ok" ELSE "ping"]
  /\ UNCHANGED <<holder, waiting, since_recorded, since_answered>>

LastPing(t) == Len(task[t].results) + 1 = task[t].count

\* The time is taken once the answer was polled, which may be later than the
\* timeout.
Pong(t) ==
  /\ task[t].pc = "ping"
  /\ \E ms \in PingTimes : ms <= LongestPing /\ PingAdds(t, ms, LastPing(t))

\* Mutant: an error is left out of the results.
PingErrorUncounted(t) ==
  /\ task[t].pc = "ping"
  /\ task' = [task EXCEPT ![t].requests = @ + 1,
                          ![t].pc = IF task[t].requests + 1 = task[t].count
                                    THEN "ok" ELSE "ping"]
  /\ UNCHANGED <<holder, waiting, since_recorded, since_answered>>

\* An error counts as a timeout, and the next ping is tried.
PingError(t) ==
  /\ task[t].pc = "ping"
  /\ PingAdds(t, PingTimeout, LastPing(t))

\* After a timeout lightningd's ping may be stuck, so the loop ends.
PingTimesOut(t) ==
  /\ task[t].pc = "ping"
  /\ PingAdds(t, PingTimeout, TRUE)

PingsAreLost(t) ==
  /\ task' = [task EXCEPT ![t].pc = "err", ![t].results = <<>>]
  /\ UNCHANGED <<holder, waiting, since_recorded, since_answered>>

\* A time that does not fit a u16 is an error, whatever was measured before.
PongTooLate(t) ==
  /\ task[t].pc = "ping"
  /\ \E ms \in PingTimes : ms > LongestPing
  /\ PingsAreLost(t)

\* The notification of a timeout panics on a mail address that does not parse
\* (SendMail of Settings), and joining the task is an error.
PingPanics(t) ==
  /\ task[t].pc = "ping"
  /\ PingsAreLost(t)

\* lightningd or the peer cannot be reached; the gossip knows no such node, or a query
\* for it failed.
LocalFails(t) ==
  /\ task[t].pc \in {"ping", "gossip"}
  /\ task[t].results = <<>>
  /\ task' = [task EXCEPT ![t].pc = "err"]
  /\ UNCHANGED <<holder, waiting, since_recorded, since_answered>>

Gossip(t) ==
  /\ task[t].pc = "gossip"
  /\ task' = [task EXCEPT ![t].pc = "ok"]
  /\ UNCHANGED <<holder, waiting, since_recorded, since_answered>>

(***************************************************************************)
(* The surroundings.                                                       *)
(***************************************************************************)

\* The call takes the outcome, or nobody does any more.
Take(t) ==
  /\ Ended(t)
  /\ task' = [task EXCEPT ![t] = IdleTask]
  /\ UNCHANGED <<holder, waiting, since_recorded, since_answered>>

Longer(since) ==
  [a \in Apis |-> IF since[a] <= Spacing[a] THEN since[a] + 1 ELSE since[a]]
Tick ==
  /\ since_recorded' = Longer(since_recorded)
  /\ since_answered' = Longer(since_answered)
  /\ task' = [t \in Tasks |-> IF task[t].sleep > 0
                              THEN [task[t] EXCEPT !.sleep = @ - 1] ELSE task[t]]
  /\ UNCHANGED <<holder, waiting>>

TaskStep(t) ==
  \/ Lock(t) \/ Send(t) \/ NotSupported(t) \/ Answer(t) \/ SendFails(t) \/ Retry(t)
  \/ Pong(t) \/ PingError(t) \/ PingTimesOut(t) \/ PongTooLate(t) \/ PingPanics(t)
  \/ LocalFails(t) \/ Gossip(t)

Next ==
  \/ \E t \in Tasks :
       \/ \E a \in Apis : SpawnRequest(t, a)
       \/ "gossip" \in Sources /\ SpawnGossip(t)
       \/ "ping" \in Sources /\ (SpawnPing(t) \/ \E n \in Counts : TestPing(t, n))
       \/ TaskStep(t)
       \/ Take(t)
  \/ Tick

Spec == Init /\ [][Next]_vars
\* Time passes, a task that can go on does, and a request is answered or
\* fails in the end.
FairSpec == Spec /\ WF_vars(Tick) /\ \A t \in Tasks : WF_vars(TaskStep(t))

(***************************************************************************)
(* Properties.                                                             *)
(***************************************************************************)

Sleeps == 0..(MaxAttempts * Backoff)
TaskRecord ==
  [pc : {"idle", "queued", "spacing", "sent", "asleep", "ping", "gossip", "ok", "err"},
   source : Sources \cup {None}, attempts : 0..MaxAttempts,
   sleep : Sleeps, requests : 0..MaxAttempts,
   count : Counts \cup {0, PingCount}, results : Seq(0..LongestPing)]

\* Every variable stays in its domain, a mutex is held by the one task that is
\* between taking and dropping it, and those waiting are waiting for it.
TypeOK ==
  /\ task \in [Tasks -> TaskRecord]
  /\ holder \in [Apis -> Tasks \cup {None}]
  /\ waiting \in [Apis -> Seq(Tasks)]
  /\ \A a \in Apis :
       /\ since_recorded[a] \in 0..(Spacing[a] + 1)
       /\ since_answered[a] \in 0..(Spacing[a] + 1)
       /\ {t \in Tasks : task[t].source = a /\ task[t].pc \in {"spacing", "sent"}}
            = {holder[a]} \ {None}
       /\ \A t \in Tasks : Cardinality({i \in 1..Len(waiting[a]) : waiting[a][i] = t})
            = IF task[t].source = a /\ task[t].pc = "queued" THEN 1 ELSE 0

\* The comment on the cost of a query: no request goes out while another one
\* is under way at the same API, nor sooner than its spacing after the API
\* last answered, however many openings of whatever peers ask for it.
RequestsAreSpaced ==
  [][\A t \in Tasks : task[t].pc # "sent" /\ task'[t].pc = "sent" =>
       /\ since_answered[task[t].source] > Spacing[task[t].source]
       /\ \A u \in Tasks : task[u].pc = "sent" => task[u].source # task[t].source]_vars

\* An API's failure reaches the opener only after three attempts, and what
\* succeeded was asked for at most three times.
ThreeAttempts ==
  \A t \in Tasks : Ended(t) /\ task[t].source \in Apis =>
    /\ task[t].pc = "err" => task[t].attempts = MaxAttempts
    /\ task[t].requests = IF task[t].source \in Supported THEN task[t].attempts ELSE 0

Sum(s) ==
  LET Upto[n \in 0..Len(s)] == IF n = 0 THEN 0 ELSE Upto[n - 1] + s[n]
  IN  Upto[Len(s)]
Mean(s) == Sum(s) \div Len(s)

\* README, ping: timeouts and errors "will log but not flat out reject the
\* channel, instead the timeout value of 5000 will be used".  The mean that
\* the rule or the operator sees is of at least one result and of no more than
\* were asked for, fits 16 bits however late an answer was looked at, and is
\* the timeout value for a peer that never answered.
PingHasAValue ==
  \A t \in Tasks : task[t].source = "ping" =>
    /\ task[t].pc = "ok" =>
         /\ Len(task[t].results) \in 1..task[t].count
         /\ Mean(task[t].results) \in 0..LongestPing
         /\ (\A i \in 1..Len(task[t].results) : task[t].results[i] \notin PingTimes)
              => Mean(task[t].results) = PingTimeout
    /\ task[t].pc = "err" => task[t].results = <<>>

\* Every task does what collect_data relies on, and so ends: the mutex serves
\* its waiters in turn and is dropped after every attempt, and attempts run
\* out.
Phase(t) == IF Running(t) THEN "running" ELSE task[t].pc
Promise == INSTANCE SourceTask WITH phase <- [t \in Tasks |-> Phase(t)]
TasksKeepTheirPromise == Promise!Spec
=============================================================================

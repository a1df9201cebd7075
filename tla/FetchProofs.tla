---------------------------- MODULE FetchProofs ----------------------------
(***************************************************************************)
(* Proofs about Fetch, for any number of tasks, APIs, spacings and sleeps: *)
(* requests are spaced, three attempts are made, a ping comes to a value   *)
(* and every step of a task is one of SourceTask.                          *)
(***************************************************************************)
EXTENDS Fetch, LeastElement, FiniteSetTheorems

(***************************************************************************)
(* Queues: the mutex's waiters, each once.                                 *)
(***************************************************************************)

IsQueueOf(q, S) ==
  /\ q \in Seq(S)
  /\ \A i, j \in 1..Len(q) : q[i] = q[j] => i = j
  /\ \A s \in S : \E i \in 1..Len(q) : q[i] = s

LEMMA EmptyQueue == IsQueueOf(<<>>, {})
  BY DEF IsQueueOf

LEMMA Enqueue ==
  ASSUME NEW S, NEW q, IsQueueOf(q, S), NEW t, t \notin S
  PROVE  IsQueueOf(Append(q, t), S \cup {t})
  <1> DEFINE p == Append(q, t)
  <1>1. q \in Seq(S) /\ q \in Seq(S \cup {t})
    BY DEF IsQueueOf
  <1>2. p \in Seq(S \cup {t}) /\ Len(p) = Len(q) + 1
    BY <1>1
  <1>3. /\ p[Len(q) + 1] = t
        /\ \A i \in 1..Len(q) : p[i] = q[i] /\ p[i] \in S
    BY <1>1
  <1>4. Len(q) \in Nat
    BY <1>1
  <1> HIDE DEF p
  <1>a. \A i \in 1..Len(p) : i = Len(p) \/ i \in 1..Len(q)
    BY <1>2, <1>4
  <1>b. 1..Len(q) \subseteq 1..Len(p) /\ Len(p) \in 1..Len(p)
    BY <1>2, <1>4
  <1>5. \A i, j \in 1..Len(p) : p[i] = p[j] => i = j
    <2> SUFFICES ASSUME NEW i \in 1..Len(p), NEW j \in 1..Len(p), p[i] = p[j] PROVE i = j
      OBVIOUS
    <2>1. CASE i \in 1..Len(q) /\ j \in 1..Len(q)
      BY <1>3, <2>1 DEF IsQueueOf
    <2>2. CASE i = Len(p) \/ j = Len(p)
      BY <1>2, <1>3, <1>a, <2>2
    <2> QED BY <1>a, <2>1, <2>2
  <1>6. \A s \in S \cup {t} : \E i \in 1..Len(p) : p[i] = s
    <2> SUFFICES ASSUME NEW s \in S PROVE \E i \in 1..Len(p) : p[i] = s
      BY <1>2, <1>3, <1>b
    <2>1. PICK i \in 1..Len(q) : q[i] = s
      BY DEF IsQueueOf
    <2> QED BY <1>3, <1>b, <2>1
  <1> QED BY <1>2, <1>5, <1>6 DEF IsQueueOf, p

LEMMA Dequeue ==
  ASSUME NEW S, NEW q, IsQueueOf(q, S), S # {}
  PROVE  Head(q) \in S /\ IsQueueOf(Tail(q), S \ {Head(q)})
  <1> DEFINE p == Tail(q)
             t == Head(q)
  <1>1. q \in Seq(S) /\ Len(q) \in Nat \ {0} /\ q # <<>>
    BY DEF IsQueueOf
  <1>2. t = q[1] /\ t \in S
    BY <1>1
  <1>3. p \in Seq(S) /\ Len(p) = Len(q) - 1 /\ \A i \in 1..Len(p) : p[i] = q[i + 1]
    BY <1>1
  <1>4. \A i \in 1..Len(p) : p[i] \in S \ {t}
    BY <1>1, <1>2, <1>3 DEF IsQueueOf
  <1> HIDE DEF p, t
  <1>5. p \in Seq(S \ {t})
    BY <1>3, <1>4
  <1>6. \A i, j \in 1..Len(p) : p[i] = p[j] => i = j
    <2> SUFFICES ASSUME NEW i \in 1..Len(p), NEW j \in 1..Len(p), p[i] = p[j] PROVE i = j
      OBVIOUS
    <2>1. i + 1 \in 1..Len(q) /\ j + 1 \in 1..Len(q) /\ q[i + 1] = q[j + 1]
      BY <1>1, <1>3
    <2>2. i + 1 = j + 1
      BY <2>1 DEF IsQueueOf
    <2> QED BY <2>2
  <1>7. \A s \in S \ {t} : \E i \in 1..Len(p) : p[i] = s
    <2> SUFFICES ASSUME NEW s \in S \ {t} PROVE \E i \in 1..Len(p) : p[i] = s
      OBVIOUS
    <2>1. PICK j \in 1..Len(q) : q[j] = s
      BY DEF IsQueueOf
    <2>2. j # 1
      BY <1>2, <2>1
    <2>3. j - 1 \in 1..Len(p) /\ p[j - 1] = s
      BY <1>1, <1>3, <2>1, <2>2
    <2> QED BY <2>3
  <1> QED BY <1>2, <1>5, <1>6, <1>7 DEF IsQueueOf, p, t

(***************************************************************************)
(* The invariant.                                                          *)
(***************************************************************************)

\* What a task's own fields say: how many requests its attempts have made.
RequestPcs == {"queued", "spacing", "sent", "asleep"}
Requested(r) ==
  IF r.source \notin Supported THEN 0
  ELSE IF r.pc \in {"queued", "spacing"} THEN r.attempts - 1 ELSE r.attempts
TaskOK(r) ==
  /\ r \in TaskRecord
  /\ r.pc \in RequestPcs => r.source \in Apis /\ r.attempts >= 1
  /\ r.pc \in {"ping", "gossip"} => r.source \notin Apis
  /\ r.pc # "idle" /\ r.source \in Apis => r.requests = Requested(r)
  /\ r.pc = "sent" => r.source \in Supported
  /\ r.pc = "asleep" => r.attempts < MaxAttempts
  /\ r.pc = "err" /\ r.source \in Apis => r.attempts = MaxAttempts

Waits(r, a) == r.source = a /\ r.pc = "queued"
Holds(r, a) == r.source = a /\ r.pc \in {"spacing", "sent"}
Waiters(a) == {t \in Tasks : Waits(task[t], a)}
Holders(a) == {t \in Tasks : Holds(task[t], a)}

\* Whoever is between taking and dropping an API's mutex holds it.
MutexOK ==
  /\ holder \in [Apis -> Tasks \cup {None}]
  /\ \A a \in Apis : Holders(a) = {holder[a]} \ {None}

QueuesOK ==
  /\ waiting = [a \in Apis |-> waiting[a]]
  /\ \A a \in Apis : IsQueueOf(waiting[a], Waiters(a))

\* Every answer is recorded before the mutex is dropped.
ClocksOK ==
  /\ DOMAIN since_recorded = Apis
  /\ \A a \in Apis : since_recorded[a] \in 0..(Spacing[a] + 1)
  /\ since_answered = since_recorded

TasksOK == task \in [Tasks -> TaskRecord] /\ \A t \in Tasks : TaskOK(task[t])

FetchInv == TasksOK /\ MutexOK /\ QueuesOK /\ ClocksOK

(***************************************************************************)
(* One task moves.                                                         *)
(***************************************************************************)

RunningPcs == RequestPcs \cup {"ping", "gossip"}

\* The moves SourceTask allows, and what goes before a request.
Moves(t, r) ==
  /\ task' = [task EXCEPT ![t] = r]
  /\ \/ task[t].pc = "idle" /\ r.pc \in RunningPcs
     \/ task[t].pc \in RunningPcs /\ r.pc \in RunningPcs \cup {"ok", "err"}
     \/ task[t].pc \in {"ok", "err"} /\ r.pc = "idle"
  /\ r.pc = "sent" =>
       \/ task[t].pc = "sent"
       \/ task[t].pc = "spacing" /\ Spaced(task[t].source)

Step(t) == FetchInv' /\ \E r : Moves(t, r)

LEMMA TaskMoves ==
  ASSUME TasksOK, NEW t \in Tasks, NEW r, TaskOK(r), task' = [task EXCEPT ![t] = r]
  PROVE  /\ TasksOK'
         /\ \A a \in Apis : Waiters(a)' = IF Waits(r, a) THEN Waiters(a) \cup {t}
                                           ELSE Waiters(a) \ {t}
         /\ \A a \in Apis : Holders(a)' = IF Holds(r, a) THEN Holders(a) \cup {t}
                                           ELSE Holders(a) \ {t}
  <1>1. /\ task' \in [Tasks -> TaskRecord]
        /\ task'[t] = r
        /\ \A u \in Tasks : u # t => task'[u] = task[u]
    BY DEF TasksOK, TaskOK
  <1>2. \A u \in Tasks : TaskOK(task'[u])
    BY <1>1 DEF TasksOK
  <1>3. TasksOK'
    BY <1>1, <1>2 DEF TasksOK, TaskOK
  <1>4. \A a \in Apis : Waiters(a)' = {u \in Tasks : Waits(task'[u], a)}
    BY DEF Waiters, Waits
  <1>5. \A a \in Apis : Holders(a)' = {u \in Tasks : Holds(task'[u], a)}
    BY DEF Holders, Holds
  <1> QED BY <1>1, <1>3, <1>4, <1>5 DEF Waiters, Holders

\* A move that has nothing to do with a mutex.
LEMMA PlainMove ==
  ASSUME FetchInv, NEW t \in Tasks, NEW r, TaskOK(r), task' = [task EXCEPT ![t] = r],
         task[t].pc \notin {"queued", "spacing", "sent"},
         r.pc \notin {"queued", "spacing", "sent"},
         UNCHANGED <<holder, waiting, since_recorded, since_answered>>
  PROVE  FetchInv'
  <1>1. TasksOK'
    BY TaskMoves DEF FetchInv
  <1>m. /\ \A b \in Apis : Waiters(b)' = IF Waits(r, b) THEN Waiters(b) \cup {t}
                                         ELSE Waiters(b) \ {t}
        /\ \A b \in Apis : Holders(b)' = IF Holds(r, b) THEN Holders(b) \cup {t}
                                         ELSE Holders(b) \ {t}
    BY TaskMoves DEF FetchInv
  <1>2. \A a \in Apis : Waiters(a)' = Waiters(a) /\ Holders(a)' = Holders(a)
    <2>1. \A a \in Apis : t \notin Waiters(a) /\ t \notin Holders(a)
      BY DEF Waiters, Holders, Waits, Holds
    <2>2. \A a \in Apis : ~Waits(r, a) /\ ~Holds(r, a)
      BY DEF Waits, Holds
    <2> QED BY <1>m, <2>1, <2>2
  <1>3. MutexOK'
    BY <1>2 DEF FetchInv, MutexOK
  <1>4. QueuesOK'
    BY <1>2 DEF FetchInv, QueuesOK
  <1> QED BY <1>1, <1>3, <1>4 DEF FetchInv, ClocksOK

\* A task asks for a mutex.
LEMMA QueueingMove ==
  ASSUME FetchInv, NEW t \in Tasks, NEW r, TaskOK(r), task' = [task EXCEPT ![t] = r],
         task[t].pc \notin {"queued", "spacing", "sent"}, r.pc = "queued",
         waiting' = [waiting EXCEPT ![r.source] = Append(@, t)],
         UNCHANGED <<holder, since_recorded, since_answered>>
  PROVE  FetchInv'
  <1> DEFINE a == r.source
  <1>1. a \in Apis
    BY DEF TaskOK, RequestPcs
  <1>2. TasksOK'
    BY TaskMoves DEF FetchInv
  <1>m. /\ \A b \in Apis : Waiters(b)' = IF Waits(r, b) THEN Waiters(b) \cup {t}
                                         ELSE Waiters(b) \ {t}
        /\ \A b \in Apis : Holders(b)' = IF Holds(r, b) THEN Holders(b) \cup {t}
                                         ELSE Holders(b) \ {t}
    BY TaskMoves DEF FetchInv
  <1>3. \A b \in Apis : t \notin Waiters(b) /\ t \notin Holders(b)
    BY DEF Waiters, Holders, Waits, Holds
  <1>4. \A b \in Apis : Holders(b)' = Holders(b)
    BY <1>3, <1>m DEF Holds
  <1>5. \A b \in Apis : Waiters(b)' = IF b = a THEN Waiters(b) \cup {t} ELSE Waiters(b)
    <2>1. \A b \in Apis : Waits(r, b) <=> b = a
      BY DEF Waits
    <2>2. \A b \in Apis : Waiters(b) \ {t} = Waiters(b)
      BY <1>3
    <2> QED BY <1>m, <2>1, <2>2
  <1>6. MutexOK'
    BY <1>4 DEF FetchInv, MutexOK
  <1>7. IsQueueOf(Append(waiting[a], t), Waiters(a) \cup {t})
    BY <1>1, <1>3, Enqueue DEF FetchInv, QueuesOK
  <1>8. QueuesOK'
    BY <1>1, <1>5, <1>7 DEF FetchInv, QueuesOK
  <1> QED BY <1>2, <1>6, <1>8 DEF FetchInv, ClocksOK

\* A task that holds a mutex keeps or drops it.
LEMMA HoldingMove ==
  ASSUME FetchInv, NEW t \in Tasks, NEW r, TaskOK(r), task' = [task EXCEPT ![t] = r],
         task[t].pc \in {"spacing", "sent"}, r.source = task[t].source,
         \/ r.pc = "sent" /\ UNCHANGED holder
         \/ /\ r.pc \notin {"queued", "spacing", "sent"}
            /\ holder' = [holder EXCEPT ![task[t].source] = None],
         UNCHANGED waiting, ClocksOK'
  PROVE  FetchInv'
  <1> DEFINE a == task[t].source
  <1>1. a \in Apis /\ t \in Holders(a)
    BY DEF FetchInv, TasksOK, TaskOK, RequestPcs, Holders, Holds
  <1>2. TasksOK'
    BY TaskMoves DEF FetchInv
  <1>m. /\ \A b \in Apis : Waiters(b)' = IF Waits(r, b) THEN Waiters(b) \cup {t}
                                         ELSE Waiters(b) \ {t}
        /\ \A b \in Apis : Holders(b)' = IF Holds(r, b) THEN Holders(b) \cup {t}
                                         ELSE Holders(b) \ {t}
    BY TaskMoves DEF FetchInv
  <1>3. \A b \in Apis : t \notin Waiters(b) /\ ~Waits(r, b)
    BY DEF Waiters, Waits
  <1>4. \A b \in Apis : Waiters(b)' = Waiters(b)
    BY <1>3, <1>m
  <1>5. \A b \in Apis : b # a => t \notin Holders(b) /\ ~Holds(r, b)
    BY DEF Holders, Holds
  <1>6. \A b \in Apis : b # a => Holders(b)' = Holders(b)
    BY <1>5, <1>m
  <1>7. holder[a] = t /\ Holders(a) = {t} /\ t # None
    BY <1>1, FetchAssumption DEF FetchInv, MutexOK
  <1>8. MutexOK'
    <2>1. CASE r.pc = "sent" /\ UNCHANGED holder
      <3>1. Holders(a)' = Holders(a)
        BY <1>1, <1>m, <2>1 DEF Holds
      <3> QED BY <1>6, <2>1, <3>1 DEF FetchInv, MutexOK
    <2>2. CASE /\ r.pc \notin {"queued", "spacing", "sent"}
               /\ holder' = [holder EXCEPT ![a] = None]
      <3>1. Holders(a)' = {}
        BY <1>1, <1>7, <1>m, <2>2 DEF Holds
      <3> QED BY <1>1, <1>6, <2>2, <3>1 DEF FetchInv, MutexOK
    <2> QED BY <2>1, <2>2
  <1>9. QueuesOK'
    BY <1>4 DEF FetchInv, QueuesOK
  <1> QED BY <1>2, <1>8, <1>9 DEF FetchInv

(***************************************************************************)
(* The actions.                                                            *)
(***************************************************************************)

LEMMA TaskFields ==
  ASSUME FetchInv, NEW t \in Tasks
  PROVE  /\ task[t] \in TaskRecord /\ TaskOK(task[t])
         /\ DOMAIN task = Tasks
         /\ since_recorded = since_answered /\ ClocksOK
         /\ MaxAttempts = 3 /\ PingTimeout = 5000
  BY DEF FetchInv, TasksOK, ClocksOK, MaxAttempts, PingTimeout

LEMMA SleepsOK ==
  /\ 0 \in Sleeps /\ Sleeps \subseteq Nat
  /\ \A n \in {1, 2} : n * Backoff \in Sleeps
  /\ \A s \in Sleeps : s > 0 => s - 1 \in Sleeps
  <1> DEFINE top == MaxAttempts * Backoff
  <1>1. top \in Nat /\ 1 * Backoff \in 0..top /\ 2 * Backoff \in 0..top
    BY FetchAssumption DEF MaxAttempts
  <1> HIDE DEF top
  <1>2. Sleeps = 0..top
    BY DEF Sleeps, top
  <1> QED BY <1>1, <1>2

LEMMA IdleOK == TaskOK(IdleTask) /\ IdleTask.pc = "idle"
  BY FetchAssumption, SleepsOK
  DEF TaskOK, IdleTask, TaskRecord, RequestPcs, MaxAttempts, PingTimeout

LEMMA SpawnRequestStep ==
  ASSUME FetchInv, NEW t \in Tasks, NEW a \in Apis, SpawnRequest(t, a)
  PROVE  Step(t)
  <1> DEFINE r == [IdleTask EXCEPT !.pc = "queued", !.source = a, !.attempts = 1]
  <1>1. /\ task' = [task EXCEPT ![t] = r]
        /\ task[t].pc = "idle"
        /\ waiting' = [waiting EXCEPT ![a] = Append(@, t)]
        /\ UNCHANGED <<holder, since_recorded, since_answered>>
    BY DEF SpawnRequest
  <1>2. TaskOK(r) /\ r.pc = "queued" /\ r.source = a
    <2>1. IdleTask \in TaskRecord /\ IdleTask.requests = 0
      BY IdleOK DEF TaskOK, IdleTask
    <2>2. a \in Sources \cup {None} /\ 1 \in 0..MaxAttempts
      BY FetchAssumption DEF MaxAttempts
    <2>3. /\ r \in TaskRecord /\ r.pc = "queued" /\ r.source = a
          /\ r.attempts = 1 /\ r.requests = 0
      BY <2>1, <2>2 DEF TaskRecord
    <2> HIDE DEF r
    <2> QED BY <2>3 DEF TaskOK, RequestPcs, Requested
  <1> HIDE DEF r
  <1>3. FetchInv'
    BY <1>1, <1>2, QueueingMove
  <1>4. Moves(t, r)
    BY <1>1, <1>2 DEF Moves, RunningPcs, RequestPcs
  <1> QED BY <1>3, <1>4 DEF Step

LEMMA RetryStep ==
  ASSUME FetchInv, NEW t \in Tasks, Retry(t)
  PROVE  Step(t)
  <1> DEFINE r == [task[t] EXCEPT !.pc = "queued", !.attempts = @ + 1]
  <1>1. /\ task' = [task EXCEPT ![t] = r]
        /\ task[t].pc = "asleep"
        /\ waiting' = [waiting EXCEPT ![task[t].source] = Append(@, t)]
        /\ UNCHANGED <<holder, since_recorded, since_answered>>
    BY DEF Retry
  <1>2. TaskOK(r) /\ r.pc = "queued" /\ r.source = task[t].source
    <2>1. /\ task[t] \in TaskRecord /\ task[t].source \in Apis
          /\ task[t].attempts \in {1, 2}
          /\ task[t].requests = Requested(task[t])
      BY <1>1, TaskFields DEF TaskOK, TaskRecord, RequestPcs
    <2>2. task[t].attempts + 1 \in 0..MaxAttempts
      BY <2>1 DEF MaxAttempts
    <2>3. /\ r \in TaskRecord /\ r.pc = "queued" /\ r.source = task[t].source
          /\ r.attempts = task[t].attempts + 1 /\ r.requests = task[t].requests
      BY <2>1, <2>2 DEF TaskRecord
    <2> HIDE DEF r
    <2>4. r.requests = Requested(r)
      BY <1>1, <2>1, <2>3 DEF Requested
    <2> QED BY <2>1, <2>3, <2>4 DEF TaskOK, RequestPcs
  <1> HIDE DEF r
  <1>3. FetchInv'
    BY <1>1, <1>2, QueueingMove
  <1>4. Moves(t, r)
    BY <1>1, <1>2 DEF Moves, RunningPcs, RequestPcs
  <1> QED BY <1>3, <1>4 DEF Step

LEMMA LockStep ==
  ASSUME FetchInv, NEW t \in Tasks, Lock(t)
  PROVE  Step(t)
  <1>0. PICK a \in Apis : a = task[t].source
    BY TaskFields DEF Lock, TaskOK, RequestPcs
  <1> DEFINE r == [task[t] EXCEPT !.pc = "spacing"]
  <1>1. /\ task' = [task EXCEPT ![t] = r]
        /\ task[t].pc = "queued" /\ holder[a] = None /\ Head(waiting[a]) = t
        /\ holder' = [holder EXCEPT ![a] = t]
        /\ waiting' = [waiting EXCEPT ![a] = Tail(@)]
        /\ UNCHANGED <<since_recorded, since_answered>>
    BY <1>0 DEF Lock
  <1>2. TaskOK(r) /\ r.pc = "spacing" /\ r.source = a
    <2>1. /\ task[t] \in TaskRecord /\ a = task[t].source /\ task[t].attempts >= 1
          /\ task[t].requests = Requested(task[t])
      BY <1>0, <1>1, TaskFields DEF TaskOK, RequestPcs
    <2>2. /\ r \in TaskRecord /\ r.pc = "spacing" /\ r.source = a
          /\ r.attempts = task[t].attempts /\ r.requests = task[t].requests
      BY <2>1 DEF TaskRecord
    <2> HIDE DEF r
    <2>3. r.requests = Requested(r)
      BY <1>1, <2>1, <2>2 DEF Requested
    <2> QED BY <2>1, <2>2, <2>3 DEF TaskOK, RequestPcs
  <1>3. t \in Waiters(a)
    BY <1>0, <1>1, TaskFields DEF TaskOK, RequestPcs, Waiters, Waits
  <1> HIDE DEF r
  <1>4. TasksOK'
    BY <1>1, <1>2, TaskMoves DEF FetchInv
  <1>5. /\ \A b \in Apis : Waiters(b)' = IF Waits(r, b) THEN Waiters(b) \cup {t}
                                         ELSE Waiters(b) \ {t}
        /\ \A b \in Apis : Holders(b)' = IF Holds(r, b) THEN Holders(b) \cup {t}
                                         ELSE Holders(b) \ {t}
    BY <1>1, <1>2, TaskMoves DEF FetchInv
  <1>6. /\ \A b \in Apis : ~Waits(r, b) /\ (Holds(r, b) <=> b = a)
        /\ \A b \in Apis : t \notin Holders(b) /\ (b # a => t \notin Waiters(b))
    BY <1>0, <1>1, <1>2 DEF Waits, Holds, Waiters, Holders
  <1>7. /\ \A b \in Apis : b # a => Waiters(b)' = Waiters(b) /\ Holders(b)' = Holders(b)
        /\ Waiters(a)' = Waiters(a) \ {t} /\ Holders(a)' = Holders(a) \cup {t}
    <2>1. \A b \in Apis : b # a => Waiters(b) \ {t} = Waiters(b)
      BY <1>6
    <2>2. \A b \in Apis : Holders(b) \ {t} = Holders(b)
      BY <1>6
    <2>3. \A b \in Apis : b # a => Waiters(b)' = Waiters(b) /\ Holders(b)' = Holders(b)
      BY <1>5, <1>6, <2>1, <2>2
    <2>4. ~Waits(r, a) /\ Holds(r, a)
      BY <1>3, <1>6
    <2>5. Waiters(a)' = Waiters(a) \ {t} /\ Holders(a)' = Holders(a) \cup {t}
      BY <1>3, <1>5, <2>4
    <2> QED BY <2>3, <2>5
  <1>8. MutexOK'
    <2>1. t # None /\ Holders(a) = {}
      BY <1>1, <1>3, FetchAssumption DEF FetchInv, MutexOK
    <2>2. Holders(a)' = {t}
      BY <1>7, <2>1
    <2>3. holder' \in [Apis -> Tasks \cup {None}]
      BY <1>1 DEF FetchInv, MutexOK
    <2>4. holder'[a] = t /\ \A b \in Apis : b # a => holder'[b] = holder[b]
      BY <1>1, <1>3 DEF FetchInv, MutexOK
    <2>5. \A b \in Apis : b # a => Holders(b)' = {holder'[b]} \ {None}
      BY <1>7, <2>4 DEF FetchInv, MutexOK
    <2>6. Holders(a)' = {holder'[a]} \ {None}
      BY <2>1, <2>2, <2>4
    <2>7. \A b \in Apis : Holders(b)' = {holder'[b]} \ {None}
      BY <2>5, <2>6
    <2> QED BY <2>3, <2>7 DEF MutexOK
  <1>9. IsQueueOf(Tail(waiting[a]), Waiters(a) \ {t})
    BY <1>1, <1>3, Dequeue DEF FetchInv, QueuesOK
  <1>10. QueuesOK'
    <2>1. /\ DOMAIN waiting' = Apis /\ waiting'[a] = Tail(waiting[a])
          /\ \A b \in Apis : b # a => waiting'[b] = waiting[b]
      BY <1>1, <1>3 DEF FetchInv, QueuesOK
    <2>2. IsQueueOf(waiting'[a], Waiters(a)')
      BY <1>7, <1>9, <2>1
    <2>3. \A b \in Apis : b # a => IsQueueOf(waiting'[b], Waiters(b)')
      BY <1>7, <2>1 DEF FetchInv, QueuesOK
    <2>4. \A b \in Apis : IsQueueOf(waiting'[b], Waiters(b)')
      BY <2>2, <2>3
    <2>5. waiting' = [b \in Apis |-> waiting'[b]]
      BY <1>1 DEF FetchInv, QueuesOK
    <2> QED BY <2>4, <2>5 DEF QueuesOK
  <1>11. FetchInv'
    BY <1>1, <1>4, <1>8, <1>10 DEF FetchInv, ClocksOK
  <1>12. Moves(t, r)
    BY <1>1, <1>2 DEF Moves, RunningPcs, RequestPcs
  <1> QED BY <1>11, <1>12 DEF Step

LEMMA SendStep ==
  ASSUME FetchInv, NEW t \in Tasks, Send(t)
  PROVE  Step(t)
  <1> DEFINE r == [task[t] EXCEPT !.pc = "sent", !.requests = @ + 1]
  <1>1. /\ task' = [task EXCEPT ![t] = r]
        /\ task[t].pc = "spacing" /\ Spaced(task[t].source)
        /\ task[t].source \in Supported
        /\ UNCHANGED <<holder, waiting, since_recorded, since_answered>>
    BY DEF Send
  <1>2. TaskOK(r) /\ r.pc = "sent" /\ r.source = task[t].source
    <2>1. /\ task[t] \in TaskRecord /\ task[t].source \in Apis
          /\ task[t].attempts \in 1..3
          /\ task[t].requests = Requested(task[t])
      BY <1>1, TaskFields DEF TaskOK, TaskRecord, RequestPcs
    <2>2. task[t].requests + 1 = task[t].attempts
      BY <1>1, <2>1 DEF Requested
    <2>3. task[t].requests + 1 \in 0..MaxAttempts
      BY <2>1, <2>2 DEF MaxAttempts
    <2>4. /\ r \in TaskRecord /\ r.pc = "sent" /\ r.source = task[t].source
          /\ r.attempts = task[t].attempts /\ r.requests = task[t].requests + 1
      BY <2>1, <2>3 DEF TaskRecord
    <2> HIDE DEF r
    <2>5. r.requests = Requested(r)
      BY <1>1, <2>2, <2>4 DEF Requested
    <2> QED BY <1>1, <2>1, <2>4, <2>5 DEF TaskOK, RequestPcs
  <1>3. ClocksOK'
    BY <1>1, TaskFields DEF ClocksOK
  <1> HIDE DEF r
  <1>4. FetchInv'
    BY <1>1, <1>2, <1>3, HoldingMove
  <1>5. Moves(t, r)
    BY <1>1, <1>2 DEF Moves, RunningPcs, RequestPcs
  <1> QED BY <1>4, <1>5 DEF Step

\* After a failed attempt the task sleeps, or ends if it was the third.
LEMMA AfterFailureOK ==
  ASSUME FetchInv, NEW t \in Tasks,
         \/ task[t].pc = "sent"
         \/ task[t].pc = "spacing" /\ task[t].source \notin Supported
  PROVE  /\ TaskOK(AfterFailure(t))
         /\ AfterFailure(t).pc \in {"err", "asleep"}
         /\ AfterFailure(t).source = task[t].source
  <1> DEFINE q == task[t]
             r == AfterFailure(t)
  <1>1. /\ q \in TaskRecord /\ q.source \in Apis /\ q.attempts \in 1..3
        /\ q.requests = Requested(q) /\ q.pc \in {"spacing", "sent"}
        /\ q.pc = "spacing" => q.source \notin Supported
    BY TaskFields DEF TaskOK, TaskRecord, RequestPcs
  <1>2. CASE q.attempts = 3
    <2>1. r = [q EXCEPT !.pc = "err"]
      BY <1>2 DEF AfterFailure, MaxAttempts
    <2>2. /\ r \in TaskRecord /\ r.pc = "err" /\ r.source = q.source
          /\ r.attempts = q.attempts /\ r.requests = q.requests
      BY <1>1, <2>1 DEF TaskRecord
    <2> HIDE DEF r
    <2>3. r.requests = Requested(r)
      BY <1>1, <2>2 DEF Requested
    <2> QED BY <1>1, <1>2, <2>2, <2>3 DEF TaskOK, RequestPcs, MaxAttempts, r
  <1>3. CASE q.attempts # 3
    <2> DEFINE s == q.attempts * Backoff
    <2>1. r = [q EXCEPT !.pc = "asleep", !.sleep = s]
      BY <1>1, <1>3 DEF AfterFailure, MaxAttempts
    <2>2. s \in Sleeps
      BY <1>1, <1>3, SleepsOK
    <2> HIDE DEF s
    <2>3. /\ r \in TaskRecord /\ r.pc = "asleep" /\ r.source = q.source
          /\ r.attempts = q.attempts /\ r.requests = q.requests
      BY <1>1, <2>1, <2>2 DEF TaskRecord
    <2> HIDE DEF r
    <2>4. r.requests = Requested(r)
      BY <1>1, <2>3 DEF Requested
    <2> QED BY <1>1, <1>3, <2>3, <2>4 DEF TaskOK, RequestPcs, MaxAttempts, r
  <1> QED BY <1>2, <1>3

\* A failed attempt drops the mutex.
LEMMA FailedStep ==
  ASSUME FetchInv, NEW t \in Tasks,
         \/ task[t].pc = "sent"
         \/ task[t].pc = "spacing" /\ task[t].source \notin Supported,
         task' = [task EXCEPT ![t] = AfterFailure(t)],
         holder' = [holder EXCEPT ![task[t].source] = None],
         UNCHANGED waiting, ClocksOK'
  PROVE  Step(t)
  <1> DEFINE r == AfterFailure(t)
  <1>1. TaskOK(r) /\ r.pc \in {"err", "asleep"} /\ r.source = task[t].source
    BY AfterFailureOK
  <1> HIDE DEF r
  <1>2. FetchInv'
    BY <1>1, HoldingMove DEF r
  <1>3. Moves(t, r)
    BY <1>1 DEF Moves, RunningPcs, RequestPcs, r
  <1> QED BY <1>2, <1>3 DEF Step

LEMMA NotSupportedStep ==
  ASSUME FetchInv, NEW t \in Tasks, NotSupported(t)
  PROVE  Step(t)
  <1>1. ClocksOK'
    BY TaskFields DEF NotSupported, ClocksOK
  <1> QED BY <1>1, FailedStep DEF NotSupported

LEMMA SendFailsStep ==
  ASSUME FetchInv, NEW t \in Tasks, SendFails(t)
  PROVE  Step(t)
  <1>1. ClocksOK'
    BY TaskFields DEF SendFails, ClocksOK
  <1> QED BY <1>1, FailedStep DEF SendFails

LEMMA AnswerStep ==
  ASSUME FetchInv, NEW t \in Tasks, Answer(t)
  PROVE  Step(t)
  <1>1. PICK a : a = task[t].source
    OBVIOUS
  <1>2. a \in Apis /\ task[t].pc = "sent"
    BY <1>1, TaskFields DEF Answer, TaskOK, RequestPcs
  <1>3. ClocksOK'
    <2>0. /\ since_recorded' = [since_recorded EXCEPT ![task[t].source] = 0]
          /\ since_answered' = [since_answered EXCEPT ![task[t].source] = 0]
      BY DEF Answer
    <2>a. since_answered = since_recorded
      BY TaskFields
    <2>1. since_recorded' = [since_recorded EXCEPT ![a] = 0] /\ since_answered' = since_recorded'
      BY <1>1, <2>0, <2>a, Zenon
    <2>2. Spacing[a] \in Nat
      BY <1>2, FetchAssumption
    <2> QED BY <1>2, <2>1, <2>2, TaskFields DEF ClocksOK
  <1>4. CASE task' = [task EXCEPT ![t] = AfterFailure(t)]
    BY <1>3, <1>4, FailedStep DEF Answer
  <1>5. CASE task' = [task EXCEPT ![t].pc = "ok"]
    <2> DEFINE r == [task[t] EXCEPT !.pc = "ok"]
    <2>1. TaskOK(r) /\ r.pc = "ok" /\ r.source = task[t].source
      <3>1. /\ task[t] \in TaskRecord /\ task[t].requests = Requested(task[t])
            /\ task[t].source \in Supported
        BY <1>1, <1>2, TaskFields DEF TaskOK
      <3>2. /\ r \in TaskRecord /\ r.pc = "ok" /\ r.source = task[t].source
            /\ r.attempts = task[t].attempts /\ r.requests = task[t].requests
        BY <3>1 DEF TaskRecord
      <3> HIDE DEF r
      <3>3. r.requests = Requested(r)
        BY <1>2, <3>1, <3>2 DEF Requested
      <3> QED BY <3>2, <3>3 DEF TaskOK, RequestPcs
    <2>2. task' = [task EXCEPT ![t] = r]
      BY <1>5
    <2> HIDE DEF r
    <2>3. FetchInv'
      BY <1>2, <1>3, <2>1, <2>2, HoldingMove DEF Answer
    <2>4. Moves(t, r)
      BY <1>2, <2>1, <2>2 DEF Moves, RunningPcs, RequestPcs
    <2> QED BY <2>3, <2>4 DEF Step
  <1> QED BY <1>4, <1>5 DEF Answer

\* A task that no API has to do with.
LEMMA LocalStep ==
  ASSUME FetchInv, NEW t \in Tasks, NEW r \in TaskRecord,
         r.source \notin Apis,
         r.pc \in {"idle", "ping", "gossip", "ok", "err"},
         \/ task[t].pc = "idle" /\ r.pc \in {"ping", "gossip"}
         \/ task[t].pc \in {"ping", "gossip"} /\ r.pc \in {"ping", "gossip", "ok", "err"}
         \/ Ended(t) /\ r.pc = "idle",
         task' = [task EXCEPT ![t] = r],
         UNCHANGED <<holder, waiting, since_recorded, since_answered>>
  PROVE  Step(t)
  <1>1. TaskOK(r)
    BY DEF TaskOK, RequestPcs
  <1>2. FetchInv'
    BY <1>1, PlainMove DEF Ended
  <1>3. Moves(t, r)
    BY DEF Moves, RunningPcs, RequestPcs, Ended
  <1> QED BY <1>2, <1>3 DEF Step

LEMMA SpawnGossipStep ==
  ASSUME FetchInv, NEW t \in Tasks, "gossip" \in Sources, SpawnGossip(t)
  PROVE  Step(t)
  <1> DEFINE r == [IdleTask EXCEPT !.pc = "gossip", !.source = "gossip"]
  <1>1. IdleTask \in TaskRecord
    BY IdleOK DEF TaskOK
  <1>2. r \in TaskRecord /\ r.pc = "gossip" /\ r.source = "gossip"
    BY <1>1 DEF TaskRecord
  <1>3. task' = [task EXCEPT ![t] = r] /\ task[t].pc = "idle"
    BY DEF SpawnGossip
  <1> HIDE DEF r
  <1> QED BY <1>2, <1>3, FetchAssumption, LocalStep DEF SpawnGossip

LEMMA PingStep ==
  ASSUME FetchInv, NEW t \in Tasks, "ping" \in Sources,
         NEW count \in Counts \cup {PingCount}, count > 0, Ping(t, count)
  PROVE  Step(t)
  <1> DEFINE r == [IdleTask EXCEPT !.pc = "ping", !.source = "ping", !.count = count]
  <1>1. IdleTask \in TaskRecord
    BY IdleOK DEF TaskOK
  <1>2. r \in TaskRecord /\ r.pc = "ping" /\ r.source = "ping"
    BY <1>1 DEF TaskRecord
  <1>3. task' = [task EXCEPT ![t] = r] /\ task[t].pc = "idle"
    BY DEF Ping
  <1> HIDE DEF r
  <1> QED BY <1>2, <1>3, FetchAssumption, LocalStep DEF Ping

\* What may be measured and fits 16 bits, or stands for a timeout.
LEMMA PingBounds ==
  /\ PingTimeout \in Nat /\ LongestPing \in Nat
  /\ PingTimeout \in 0..LongestPing
  /\ \A ms \in PingTimes : ms <= LongestPing => ms \in 0..LongestPing
  <1>1. PingTimeout \in Nat /\ LongestPing \in Nat /\ PingTimeout \in 0..LongestPing
    BY DEF PingTimeout, LongestPing
  <1>2. \A ms \in PingTimes : ms \in Nat
    BY FetchAssumption
  <1>3. \A ms \in PingTimes : ms <= LongestPing => ms \in 0..LongestPing
    BY <1>1, <1>2
  <1> QED BY <1>1, <1>3

LEMMA PingAddsStep ==
  ASSUME FetchInv, NEW t \in Tasks, NEW ms \in 0..LongestPing, NEW over \in BOOLEAN,
         task[t].pc = "ping", PingAdds(t, ms, over)
  PROVE  Step(t)
  <1> DEFINE pc == IF over THEN "ok" ELSE "ping"
             r == [task[t] EXCEPT !.results = Append(@, ms), !.pc = pc]
  <1>1. task[t] \in TaskRecord /\ task[t].source \notin Apis
    BY TaskFields DEF TaskOK
  <1>2. Append(task[t].results, ms) \in Seq(0..LongestPing)
    <2>1. task[t].results \in Seq(0..LongestPing)
      BY <1>1 DEF TaskRecord
    <2> QED BY <2>1
  <1>3. pc \in {"ok", "ping"}
    OBVIOUS
  <1>4. task' = [task EXCEPT ![t] = r]
    BY DEF PingAdds
  <1> HIDE DEF pc
  <1>5. r \in TaskRecord /\ r.pc = pc /\ r.source = task[t].source
    BY <1>1, <1>2, <1>3 DEF TaskRecord
  <1> HIDE DEF r
  <1> QED BY <1>1, <1>3, <1>4, <1>5, LocalStep DEF PingAdds

LEMMA PingsStep ==
  ASSUME FetchInv, NEW t \in Tasks, Pong(t) \/ PingError(t) \/ PingTimesOut(t)
  PROVE  Step(t)
  <1>1. task[t].pc = "ping" /\ LastPing(t) \in BOOLEAN
    BY DEF Pong, PingError, PingTimesOut, LastPing
  <1>2. PingTimeout \in 0..LongestPing
    BY PingBounds
  <1>3. CASE Pong(t)
    <2>1. PICK ms \in PingTimes : ms <= LongestPing /\ PingAdds(t, ms, LastPing(t))
      BY <1>3 DEF Pong
    <2>2. ms \in 0..LongestPing
      BY <2>1, PingBounds
    <2> QED BY <1>1, <2>1, <2>2, PingAddsStep
  <1>4. CASE PingError(t)
    BY <1>1, <1>2, <1>4, PingAddsStep DEF PingError
  <1>5. CASE PingTimesOut(t)
    BY <1>1, <1>2, <1>5, PingAddsStep DEF PingTimesOut
  <1> QED BY <1>3, <1>4, <1>5

PingFails(t) == task[t].pc = "ping" /\ PingsAreLost(t)

LEMMA FailedPings ==
  ASSUME NEW t \in Tasks, PongTooLate(t) \/ PingPanics(t) PROVE PingFails(t)
  BY DEF PongTooLate, PingPanics, PingFails

LEMMA LocalEndStep ==
  ASSUME FetchInv, NEW t \in Tasks, PingFails(t) \/ LocalFails(t) \/ Gossip(t)
  PROVE  Step(t)
  <1>1. /\ task[t] \in TaskRecord /\ task[t].source \notin Apis
        /\ task[t].pc \in {"ping", "gossip"}
    BY TaskFields DEF TaskOK, PingFails, LocalFails, Gossip
  <1>2. PICK r \in TaskRecord : /\ r.pc \in {"ok", "err"} /\ r.source = task[t].source
                                /\ task' = [task EXCEPT ![t] = r]
    <2>1. CASE PingFails(t)
      <3> DEFINE r == [task[t] EXCEPT !.pc = "err", !.results = <<>>]
      <3>1. <<>> \in Seq(0..LongestPing)
        OBVIOUS
      <3>2. r \in TaskRecord /\ r.pc = "err" /\ r.source = task[t].source
        BY <1>1, <3>1 DEF TaskRecord
      <3> QED BY <2>1, <3>2 DEF PingFails, PingsAreLost
    <2>2. CASE LocalFails(t)
      <3> DEFINE r == [task[t] EXCEPT !.pc = "err"]
      <3>1. r \in TaskRecord /\ r.pc = "err" /\ r.source = task[t].source
        BY <1>1 DEF TaskRecord
      <3> QED BY <2>2, <3>1 DEF LocalFails
    <2>3. CASE Gossip(t)
      <3> DEFINE r == [task[t] EXCEPT !.pc = "ok"]
      <3>1. r \in TaskRecord /\ r.pc = "ok" /\ r.source = task[t].source
        BY <1>1 DEF TaskRecord
      <3> QED BY <2>3, <3>1 DEF Gossip
    <2> QED BY <2>1, <2>2, <2>3
  <1> QED BY <1>1, <1>2, LocalStep DEF PingFails, PingsAreLost, LocalFails, Gossip

LEMMA TakeStep ==
  ASSUME FetchInv, NEW t \in Tasks, Take(t)
  PROVE  Step(t)
  <1>1. IdleTask \in TaskRecord /\ IdleTask.pc = "idle" /\ IdleTask.source \notin Apis
    BY IdleOK, FetchAssumption DEF TaskOK, IdleTask
  <1> QED BY <1>1, LocalStep DEF Take

\* Time passes: nothing a task has done changes.
LEMMA TickStep ==
  ASSUME FetchInv, Tick
  PROVE  /\ FetchInv'
         /\ \A t \in Tasks : task'[t].pc = task[t].pc
  <1> DEFINE Slept(r) == [r EXCEPT !.sleep = @ - 1]
  <1>1. /\ DOMAIN task' = Tasks
        /\ \A t \in Tasks : task'[t] = IF task[t].sleep > 0 THEN Slept(task[t]) ELSE task[t]
        /\ task' = [t \in Tasks |-> task'[t]]
    BY DEF Tick
  <1>2. ASSUME NEW r \in TaskRecord, TaskOK(r), r.sleep > 0
        PROVE  /\ TaskOK(Slept(r))
               /\ Slept(r).pc = r.pc /\ Slept(r).source = r.source
    <2>1. r.sleep \in Sleeps
      BY DEF TaskRecord
    <2>2. r.sleep - 1 \in Sleeps
      BY <1>2, <2>1, SleepsOK
    <2>3. /\ Slept(r) \in TaskRecord
          /\ Slept(r).pc = r.pc /\ Slept(r).source = r.source
          /\ Slept(r).attempts = r.attempts /\ Slept(r).requests = r.requests
      BY <2>2 DEF TaskRecord
    <2> QED BY <1>2, <2>3 DEF TaskOK, Requested
  <1> HIDE DEF Slept
  <1>3. \A t \in Tasks : /\ TaskOK(task'[t])
                         /\ task'[t].pc = task[t].pc /\ task'[t].source = task[t].source
    BY <1>1, <1>2, TaskFields
  <1>4. TasksOK'
    BY <1>1, <1>3 DEF TasksOK, TaskOK
  <1>5. \A a \in Apis : Waiters(a)' = Waiters(a) /\ Holders(a)' = Holders(a)
    BY <1>3 DEF Waiters, Holders, Waits, Holds
  <1>6. MutexOK'
    BY <1>5 DEF FetchInv, MutexOK, Tick
  <1>7. QueuesOK'
    BY <1>5 DEF FetchInv, QueuesOK, Tick
  <1>8. ClocksOK'
    <2>1. ClocksOK /\ since_answered = since_recorded
      BY DEF FetchInv, ClocksOK
    <2>2. /\ since_recorded' = Longer(since_recorded)
          /\ since_answered' = since_recorded'
      BY <2>1 DEF Tick
    <2>3. \A a \in Apis : Spacing[a] \in Nat
      BY FetchAssumption
    <2> QED BY <2>1, <2>2, <2>3 DEF ClocksOK, Longer
  <1> QED BY <1>3, <1>4, <1>6, <1>7, <1>8 DEF FetchInv

\* Every step moves one task, or time, or nothing.
LEMMA NextStep ==
  ASSUME FetchInv, Next
  PROVE  (\E t \in Tasks : Step(t)) \/ Tick
  <1>1. ASSUME NEW t \in Tasks, TaskStep(t)
        PROVE  Step(t)
    BY <1>1, LockStep, SendStep, NotSupportedStep, AnswerStep, SendFailsStep, RetryStep,
       PingsStep, FailedPings, LocalEndStep DEF TaskStep
  <1>2. ASSUME NEW t \in Tasks, NEW a \in Apis, SpawnRequest(t, a)
        PROVE  Step(t)
    BY <1>2, SpawnRequestStep
  <1>3. ASSUME NEW t \in Tasks, "gossip" \in Sources, SpawnGossip(t)
        PROVE  Step(t)
    BY <1>3, SpawnGossipStep
  <1>4. ASSUME NEW t \in Tasks, "ping" \in Sources, SpawnPing(t)
        PROVE  Step(t)
    BY <1>4, PingStep DEF SpawnPing, PingCount
  <1>5. ASSUME NEW t \in Tasks, "ping" \in Sources, NEW n \in Counts, TestPing(t, n)
        PROVE  Step(t)
    <2>1. n > 0 /\ Ping(t, n)
      BY <1>5, FetchAssumption DEF TestPing
    <2> QED BY <1>5, <2>1, PingStep
  <1>6. ASSUME NEW t \in Tasks, Take(t)
        PROVE  Step(t)
    BY <1>6, TakeStep
  <1> QED BY <1>1, <1>2, <1>3, <1>4, <1>5, <1>6 DEF Next

(***************************************************************************)
(* The theorems.                                                           *)
(***************************************************************************)

LEMMA FetchInitial == Init => FetchInv
  <1> SUFFICES ASSUME Init PROVE FetchInv
    OBVIOUS
  <1>1. \A t \in Tasks : task[t] = IdleTask
    BY DEF Init
  <1>2. TasksOK
    BY <1>1, IdleOK DEF Init, TasksOK, TaskOK
  <1>3. \A a \in Apis : Waiters(a) = {} /\ Holders(a) = {}
    BY <1>1, IdleOK DEF Waiters, Holders, Waits, Holds
  <1>4. MutexOK
    BY <1>3 DEF Init, MutexOK
  <1>5. QueuesOK
    BY <1>3, EmptyQueue DEF Init, QueuesOK
  <1>6. ClocksOK
    <2>1. \A a \in Apis : Spacing[a] \in Nat
      BY FetchAssumption
    <2> QED BY <2>1 DEF Init, ClocksOK
  <1> QED BY <1>2, <1>4, <1>5, <1>6 DEF FetchInv

LEMMA FetchStep == FetchInv /\ [Next]_vars => FetchInv'
  <1> SUFFICES ASSUME FetchInv, [Next]_vars PROVE FetchInv'
    OBVIOUS
  <1>1. CASE Next
    BY <1>1, NextStep, TickStep DEF Step
  <1>2. CASE UNCHANGED vars
    BY <1>2 DEF vars, FetchInv, TasksOK, MutexOK, QueuesOK, ClocksOK, Waiters, Holders
  <1> QED BY <1>1, <1>2

\* The inductive invariant: a task's requests go with its attempts, the mutex
\* of an API is held by the task between taking and dropping it, its queue has
\* each task that waits for it once, and the recorded time is that of the last
\* answer.
THEOREM FetchInvariant == Spec => []FetchInv
  BY FetchInitial, FetchStep, PTL DEF Spec

\* TypeOK (get_amboss_data and get_oneml_data, collect.rs): the mutex of an
\* API has one holder and each waiter is in its queue once, for any tasks.
THEOREM FetchTypeCorrect == Spec => []TypeOK
  <1>1. ASSUME FetchInv PROVE TypeOK
    <2>1. task \in [Tasks -> TaskRecord] /\ holder \in [Apis -> Tasks \cup {None}]
      BY <1>1 DEF FetchInv, TasksOK, MutexOK
    <2>2. \A a \in Apis : waiting[a] \in Seq(Tasks)
      <3> SUFFICES ASSUME NEW a \in Apis PROVE waiting[a] \in Seq(Tasks)
        OBVIOUS
      <3>1. waiting[a] \in Seq(Waiters(a)) /\ Waiters(a) \subseteq Tasks
        BY <1>1 DEF FetchInv, QueuesOK, IsQueueOf, Waiters
      <3> QED BY <3>1
    <2>3. waiting \in [Apis -> Seq(Tasks)]
      <3> SUFFICES waiting = [a \in Apis |-> waiting[a]]
        BY <2>2
      <3> QED BY <1>1 DEF FetchInv, QueuesOK
    <2>4. ASSUME NEW a \in Apis
          PROVE  /\ since_recorded[a] \in 0..(Spacing[a] + 1)
                 /\ since_answered[a] \in 0..(Spacing[a] + 1)
                 /\ Holders(a) = {holder[a]} \ {None}
      BY <1>1 DEF FetchInv, MutexOK, ClocksOK
    <2>5. ASSUME NEW a \in Apis, NEW t \in Tasks
          PROVE  Cardinality({i \in 1..Len(waiting[a]) : waiting[a][i] = t})
                   = IF Waits(task[t], a) THEN 1 ELSE 0
      <3> DEFINE P == {i \in 1..Len(waiting[a]) : waiting[a][i] = t}
      <3>1. IsQueueOf(waiting[a], Waiters(a))
        BY <1>1 DEF FetchInv, QueuesOK
      <3>2. CASE Waits(task[t], a)
        <4>1. PICK i \in 1..Len(waiting[a]) : waiting[a][i] = t
          BY <3>1, <3>2 DEF IsQueueOf, Waiters
        <4>2. P = {i}
          BY <3>1, <4>1 DEF IsQueueOf
        <4> QED BY <3>2, <4>2, FS_Singleton
      <3>3. CASE ~Waits(task[t], a)
        <4>1. \A i \in 1..Len(waiting[a]) : waiting[a][i] \in Waiters(a)
          BY <3>1 DEF IsQueueOf
        <4>2. P = {}
          BY <3>3, <4>1 DEF Waiters
        <4> QED BY <3>3, <4>2, FS_EmptySet
      <3> QED BY <3>2, <3>3
    <2> QED BY <2>1, <2>3, <2>4, <2>5 DEF TypeOK, Holders, Holds, Waits
  <1> QED BY <1>1, FetchInvariant, PTL

\* Three attempts (collect_data's loops): an error of an API is reported after
\* three attempts, and a supported API was asked once in each.
THEOREM AttemptsAreThree == Spec => []ThreeAttempts
  <1>1. FetchInv => ThreeAttempts
    <2> SUFFICES ASSUME FetchInv, NEW t \in Tasks, Ended(t), task[t].source \in Apis
                 PROVE  /\ task[t].pc = "err" => task[t].attempts = MaxAttempts
                        /\ task[t].requests =
                             IF task[t].source \in Supported THEN task[t].attempts ELSE 0
      BY DEF ThreeAttempts
    <2>1. TaskOK(task[t])
      BY TaskFields
    <2> QED BY <2>1 DEF TaskOK, Requested, Ended
  <1> QED BY <1>1, FetchInvariant, PTL

\* Spacing (the loop around last_api_call): a request goes out only with the
\* mutex, so alone, and later than the spacing after the last answer, however
\* many tasks ask.
THEOREM RequestsStaySpaced == Spec => RequestsAreSpaced
  <1> DEFINE Starts(t) == task[t].pc # "sent" /\ task'[t].pc = "sent"
             Alone(t) ==
               /\ since_answered[task[t].source] > Spacing[task[t].source]
               /\ \A u \in Tasks : task[u].pc = "sent" => task[u].source # task[t].source
  <1>1. ASSUME FetchInv, [Next]_vars, NEW t \in Tasks, Starts(t)
        PROVE  Alone(t)
    <2>1. task[t].pc = "spacing" /\ Spaced(task[t].source)
      <3>1. ~UNCHANGED vars
        BY <1>1 DEF vars
      <3>2. ~Tick
        BY <1>1, TickStep
      <3>3. PICK u \in Tasks : Step(u)
        BY <1>1, <3>1, <3>2, NextStep
      <3>4. PICK r : Moves(u, r)
        BY <3>3 DEF Step
      <3>5. DOMAIN task = Tasks
        BY <1>1, TaskFields
      <3>6. u = t /\ r.pc = "sent"
        BY <1>1, <3>4, <3>5 DEF Moves
      <3> QED BY <1>1, <3>4, <3>6 DEF Moves
    <2>2. task[t].source \in Apis /\ since_answered = since_recorded
      BY <1>1, <2>1, TaskFields DEF TaskOK, RequestPcs
    <2>3. ASSUME NEW u \in Tasks, task[u].pc = "sent", task[u].source = task[t].source
          PROVE  FALSE
      <3>1. t \in Holders(task[t].source) /\ u \in Holders(task[t].source)
        BY <2>1, <2>3 DEF Holders, Holds
      <3>2. u = t
        BY <1>1, <2>2, <3>1 DEF FetchInv, MutexOK
      <3> QED BY <2>1, <2>3, <3>2
    <2> QED BY <2>1, <2>2, <2>3 DEF Spaced
  <1>2. FetchInv /\ [Next]_vars => [\A t \in Tasks : Starts(t) => Alone(t)]_vars
    BY <1>1
  <1> QED BY <1>2, FetchInvariant, PTL DEF Spec, RequestsAreSpaced

Phases == [t \in Tasks |-> Phase(t)]

\* The safety part of TasksKeepTheirPromise: to collect_data, every step of a
\* task is a step of SourceTask.
THEOREM TasksStepAsPromised ==
  Spec => Promise!Init /\ [][Promise!Next]_[t \in Tasks |-> Phase(t)]
  <1>1. Init => Promise!Init
    BY DEF Init, Promise!Init, Phase, Running, IdleTask
  <1>2. FetchInv /\ [Next]_vars => [Promise!Next]_[t \in Tasks |-> Phase(t)]
    <2> SUFFICES ASSUME FetchInv, [Next]_vars
                 PROVE  Promise!Next \/ Phases' = Phases
      BY DEF Phases
    <2>1. ASSUME NEW t \in Tasks, Step(t)
          PROVE  Promise!Next \/ Phases' = Phases
      <3>1. PICK r : Moves(t, r)
        BY <2>1 DEF Step
      <3>2. /\ task'[t] = r
            /\ \A u \in Tasks : u # t => task'[u] = task[u]
        BY <3>1, TaskFields DEF Moves
      <3> DEFINE p == IF r.pc \notin {"idle", "ok", "err"} THEN "running" ELSE r.pc
      <3>3. Phases' = [Phases EXCEPT ![t] = p]
        BY <3>2 DEF Phases, Phase, Running
      <3>4. Phases[t] = Phase(t) /\ p = Phase(t)'
        BY <3>2 DEF Phases, Phase, Running
      <3>5. CASE task[t].pc = "idle" /\ r.pc \in RunningPcs
        <4>1. Phases[t] = "idle" /\ p = "running"
          BY <3>5 DEF RunningPcs, RequestPcs, Phases, Phase, Running
        <4> QED BY <3>3, <4>1 DEF Promise!Next, Promise!Spawn, Phases
      <3>6. CASE task[t].pc \in RunningPcs /\ r.pc \in RunningPcs
        <4>1. Phases[t] = "running" /\ p = "running"
          BY <3>6 DEF RunningPcs, RequestPcs, Phases, Phase, Running
        <4> QED BY <3>3, <4>1 DEF Phases
      <3>7. CASE task[t].pc \in RunningPcs /\ r.pc \in {"ok", "err"}
        <4>1. Phases[t] = "running" /\ p \in {"ok", "err"}
          BY <3>7 DEF RunningPcs, RequestPcs, Phases, Phase, Running
        <4> QED BY <3>3, <4>1 DEF Promise!Next, Promise!End, Promise!Outcomes, Phases
      <3>8. CASE task[t].pc \in {"ok", "err"} /\ r.pc = "idle"
        <4>1. Phases[t] \in {"ok", "err"} /\ p = "idle"
          BY <3>8 DEF Phases, Phase, Running
        <4> QED BY <3>3, <4>1 DEF Promise!Next, Promise!Take, Promise!Outcomes, Phases
      <3> QED BY <3>1, <3>5, <3>6, <3>7, <3>8 DEF Moves
    <2>2. CASE Tick
      BY <2>2, TickStep DEF Phases, Phase, Running
    <2>3. CASE UNCHANGED vars
      BY <2>3 DEF vars, Phases, Phase, Running
    <2> QED BY <2>1, <2>2, <2>3, NextStep
  <1> QED BY <1>1, <1>2, FetchInvariant, PTL DEF Spec
(***************************************************************************)
(* Sums and means.                                                         *)
(***************************************************************************)

\* The sum of the first n numbers, from those of fewer.
Plus(s, m, n) == IF n = 0 THEN 0 ELSE m[n - 1] + s[n]
AreSums(s, m) == m = [n \in 0..Len(s) |-> Plus(s, m, n)]
Sums(s) == CHOOSE m : AreSums(s, m)

LEMMA SumsExist ==
  ASSUME NEW s, Len(s) \in Nat
  PROVE  \E m : AreSums(s, m)
  <1> DEFINE D(m) == [n \in 0..Len(s) |-> Plus(s, m, n)]
             Right(m, k) == \A n \in 0..Len(s) : n < k => m[n] = Plus(s, m, n)
             Bad == {k \in Nat : \A m : ~Right(m, k)}
  <1>1. ASSUME NEW m, NEW n \in 0..Len(s)
        PROVE  D(m)[n] = Plus(s, m, n)
    OBVIOUS
  <1> HIDE DEF D
  <1>2. ASSUME NEW m, NEW k \in Nat, Right(m, k)
        PROVE  Right(D(m), k + 1)
    <2> SUFFICES ASSUME NEW n \in 0..Len(s), n < k + 1
                 PROVE  Plus(s, m, n) = Plus(s, D(m), n)
      BY <1>1, Zenon
    <2>1. CASE n = 0
      BY <2>1 DEF Plus
    <2>2. CASE n # 0
      <3>1. n - 1 \in 0..Len(s) /\ n - 1 < k
        BY <2>2
      <3>2. m[n - 1] = D(m)[n - 1]
        BY <1>1, <1>2, <3>1
      <3> QED BY <2>2, <3>2 DEF Plus
    <2> QED BY <2>1, <2>2
  <1>3. \A m : Right(m, 0)
    OBVIOUS
  <1>4. Bad = {}
    <2> SUFFICES ASSUME Bad # {} PROVE FALSE
      OBVIOUS
    <2>1. PICK k \in Bad : \A j \in Bad : k <= j
      BY LeastNatural
    <2>2. k \in Nat /\ \A m : ~Right(m, k)
      OBVIOUS
    <2> HIDE DEF Right
    <2>3. k - 1 \in Nat /\ (k - 1) + 1 = k /\ ~(k <= k - 1)
      BY <1>3, <2>2
    <2>4. PICK m : Right(m, k - 1)
      BY <2>1, <2>3
    <2> QED BY <1>2, <2>2, <2>3, <2>4
  <1>5. PICK m : Right(m, Len(s) + 1)
    <2>1. Len(s) + 1 \in Nat
      OBVIOUS
    <2> QED BY <1>4, <2>1
  <1>6. ASSUME NEW n \in 0..Len(s)
        PROVE  D(m)[n] = Plus(s, D(m), n)
    <2>1. \A k \in 0..Len(s) : m[k] = D(m)[k]
      BY <1>1, <1>5
    <2>2. n = 0 \/ n - 1 \in 0..Len(s)
      OBVIOUS
    <2>3. Plus(s, m, n) = Plus(s, D(m), n)
      BY <2>1, <2>2 DEF Plus
    <2> QED BY <1>1, <2>3
  <1>7. AreSums(s, D(m))
    BY <1>6 DEF AreSums, D
  <1> QED BY <1>7

LEMMA SumIsLast ==
  ASSUME NEW s
  PROVE  Sum(s) = Sums(s)[Len(s)]
  BY DEF Sum, Sums, AreSums, Plus

LEMMA SumsAdd ==
  ASSUME NEW s, Len(s) \in Nat
  PROVE  /\ Sums(s)[0] = 0
         /\ \A n \in 1..Len(s) : Sums(s)[n] = Sums(s)[n - 1] + s[n]
  <1>1. AreSums(s, Sums(s))
    BY SumsExist DEF Sums
  <1>2. \A n \in 0..Len(s) : Sums(s)[n] = Plus(s, Sums(s), n)
    BY <1>1 DEF AreSums
  <1>3. 0 \in 0..Len(s) /\ \A n \in 1..Len(s) : n \in 0..Len(s) /\ n # 0
    OBVIOUS
  <1> QED BY <1>2, <1>3 DEF Plus

LEMMA BoundAdds ==
  ASSUME NEW b \in Nat, NEW n \in Nat, NEW x \in 0..(b * (n - 1)), NEW y \in 0..b
  PROVE  /\ x + y \in 0..(b * n)
         /\ x = b * (n - 1) /\ y = b => x + y = b * n
  <1>1. b * (n - 1) + b = b * n
    OBVIOUS
  <1> QED BY <1>1

LEMMA Quotient ==
  ASSUME NEW b \in Nat, NEW n \in Nat \ {0}, NEW m \in 0..(b * n), NEW k, k = m \div n
  PROVE  k \in 0..b /\ (m = b * n => k = b)
  <1>1. m \in Nat /\ m <= b * n
    OBVIOUS
  <1>2. k \in Int /\ n * k <= m /\ m < n * k + n
    BY <1>1
  <1>3. k >= 0
    BY <1>1, <1>2
  <1>4. k <= b
    BY <1>1, <1>2
  <1>5. m = b * n => k = b
    OBVIOUS
  <1>6. k \in 0..b
    BY ONLY <1>2, <1>3, <1>4
  <1> QED BY <1>5, <1>6

\* Numbers up to b add up to at most their number times b.
LEMMA SumBounds ==
  ASSUME NEW s, Len(s) \in Nat, NEW b \in Nat, \A i \in 1..Len(s) : s[i] \in 0..b
  PROVE  /\ Sum(s) \in 0..(b * Len(s))
         /\ (\A i \in 1..Len(s) : s[i] = b) => Sum(s) = b * Len(s)
  <1> DEFINE S(n) == Sums(s)[n]
             Full == \A i \in 1..Len(s) : s[i] = b
             Good(n) == S(n) \in 0..(b * n) /\ (Full => S(n) = b * n)
             Bad == {n \in 0..Len(s) : ~Good(n)}
  <1>1. Good(0)
    BY SumsAdd
  <1>2. ASSUME NEW n \in 1..Len(s), Good(n - 1)
        PROVE  Good(n)
    <2>1. S(n) = S(n - 1) + s[n] /\ s[n] \in 0..b /\ (Full => s[n] = b)
      BY SumsAdd
    <2>2. n \in Nat /\ S(n - 1) \in 0..(b * (n - 1))
      BY <1>2
    <2>3. Full => S(n - 1) = b * (n - 1)
      BY <1>2
    <2> HIDE DEF S, Full
    <2>4. S(n - 1) + s[n] \in 0..(b * n) /\ (Full => S(n - 1) + s[n] = b * n)
      BY <2>1, <2>2, <2>3, BoundAdds
    <2> QED BY <2>1, <2>4
  <1> HIDE DEF Good
  <1>3. Bad = {}
    <2> SUFFICES ASSUME Bad # {} PROVE FALSE
      OBVIOUS
    <2>1. PICK n \in Bad : \A k \in Bad : n <= k
      <3>1. Bad \subseteq Nat /\ Bad # {}
        OBVIOUS
      <3> HIDE DEF Bad
      <3> QED BY <3>1, LeastNatural
    <2>2. n \in 0..Len(s) /\ ~Good(n)
      OBVIOUS
    <2>3. n \in 1..Len(s) /\ n - 1 \in 0..Len(s) /\ ~(n <= n - 1)
      BY <1>1, <2>2
    <2>4. Good(n - 1)
      BY <2>1, <2>3
    <2> QED BY <1>2, <2>2, <2>3, <2>4
  <1>4. Good(Len(s))
    <2>1. Len(s) \in 0..Len(s)
      OBVIOUS
    <2> QED BY <1>3, <2>1
  <1> QED BY <1>4, SumIsLast DEF Good

LEMMA MeanBounds ==
  ASSUME NEW s, Len(s) \in Nat \ {0}, NEW b \in Nat, \A i \in 1..Len(s) : s[i] \in 0..b
  PROVE  /\ Mean(s) \in 0..b
         /\ (\A i \in 1..Len(s) : s[i] = b) => Mean(s) = b
  <1> DEFINE Full == \A i \in 1..Len(s) : s[i] = b
  <1>1. Sum(s) \in 0..(b * Len(s)) /\ (Full => Sum(s) = b * Len(s))
    BY SumBounds
  <1> HIDE DEF Full
  <1>2. Mean(s) \in 0..b /\ (Full => Mean(s) = b)
    BY <1>1, Quotient DEF Mean
  <1> QED BY <1>2 DEF Full

(***************************************************************************)
(* Pings.                                                                  *)
(***************************************************************************)

Measured == {ms \in PingTimes : ms <= LongestPing} \cup {PingTimeout}
\* Fewer pings than asked for while the loop runs; a result for each of them.
PingOK(r) ==
  /\ r.pc = "gossip" => r.source # "ping"
  /\ r.pc = "ping" => r.source = "ping"
  /\ r.source = "ping" =>
       /\ \A i \in 1..Len(r.results) : r.results[i] \in Measured
       /\ r.pc = "ping" => Len(r.results) < r.count
       /\ r.pc = "ok" => Len(r.results) \in 1..r.count
       /\ r.pc = "err" => r.results = <<>>
PingInv == \A t \in Tasks : PingOK(task[t])

LEMMA TaskTyped ==
  ASSUME FetchInv
  PROVE  /\ task \in [Tasks -> TaskRecord]
         /\ \A t \in Tasks : task[t] \in TaskRecord /\ TaskOK(task[t])
  BY DEF FetchInv, TasksOK

LEMMA CountIsNatural ==
  ASSUME NEW r \in TaskRecord
  PROVE  r.count \in Nat
  <1>1. \A n \in Counts : n \in Nat
    BY FetchAssumption
  <1>2. r.count \in Counts \/ r.count = 0 \/ r.count = 3
    BY DEF TaskRecord, PingCount
  <1> QED BY <1>1, <1>2

LEMMA PingMoves ==
  ASSUME PingInv, NEW t \in Tasks, \A u \in Tasks : u # t => task'[u] = task[u],
         PingOK(task'[t])
  PROVE  PingInv'
  <1>1. ASSUME NEW u \in Tasks PROVE PingOK(task'[u])
    <2>1. CASE u = t
      BY <2>1
    <2>2. CASE u # t
      BY <2>2 DEF PingInv
    <2> QED BY <2>1, <2>2
  <1>2. ASSUME NEW u \in Tasks PROVE PingOK(task[u])'
    BY <1>1 DEF PingOK, Measured
  <1> QED BY <1>2 DEF PingInv

\* Requests are no pings.
LEMMA RequestKeepsPings ==
  ASSUME FetchInv, FetchInv', PingInv, NEW t \in Tasks,
         \/ Lock(t) \/ Send(t) \/ NotSupported(t) \/ Answer(t) \/ SendFails(t) \/ Retry(t)
         \/ \E a \in Apis : SpawnRequest(t, a)
  PROVE  PingInv'
  <1>1. task \in [Tasks -> TaskRecord] /\ task[t] \in TaskRecord /\ TaskOK(task[t])
    BY TaskTyped
  <1>2. PICK r : task' = [task EXCEPT ![t] = r] /\ r.source \in Apis
    <2>1. CASE Lock(t) \/ Send(t) \/ NotSupported(t) \/ Answer(t) \/ SendFails(t) \/ Retry(t)
      <3>1. task[t].source \in Apis
        BY <1>1, <2>1 DEF TaskOK, RequestPcs, Lock, Send, NotSupported, Answer, SendFails, Retry
      <3>2. AfterFailure(t).source = task[t].source
        BY <1>1 DEF AfterFailure, TaskRecord
      <3>3. CASE Lock(t)
        <4>1. [task[t] EXCEPT !.pc = "spacing"].source = task[t].source
          BY <1>1 DEF TaskRecord
        <4> QED BY <3>1, <3>3, <4>1 DEF Lock
      <3>4. CASE Send(t)
        <4>1. [task[t] EXCEPT !.pc = "sent", !.requests = @ + 1].source = task[t].source
          BY <1>1 DEF TaskRecord
        <4> QED BY <3>1, <3>4, <4>1 DEF Send
      <3>5. CASE NotSupported(t)
        BY <3>1, <3>2, <3>5 DEF NotSupported
      <3>6. CASE Answer(t)
        <4>1. [task[t] EXCEPT !.pc = "ok"].source = task[t].source
          BY <1>1 DEF TaskRecord
        <4> QED BY <3>1, <3>2, <3>6, <4>1 DEF Answer
      <3>7. CASE SendFails(t)
        BY <3>1, <3>2, <3>7 DEF SendFails
      <3>8. CASE Retry(t)
        <4>1. [task[t] EXCEPT !.pc = "queued", !.attempts = @ + 1].source = task[t].source
          BY <1>1 DEF TaskRecord
        <4> QED BY <3>1, <3>8, <4>1 DEF Retry
      <3> QED BY <2>1, <3>3, <3>4, <3>5, <3>6, <3>7, <3>8, SMTT(30)
    <2>2. ASSUME NEW a \in Apis, SpawnRequest(t, a)
          PROVE  \E r : task' = [task EXCEPT ![t] = r] /\ r.source \in Apis
      <3>1. [IdleTask EXCEPT !.pc = "queued", !.source = a, !.attempts = 1].source = a
        BY DEF IdleTask
      <3> QED BY <2>2, <3>1 DEF SpawnRequest
    <2> QED BY <2>1, <2>2
  <1>3. task'[t] = r /\ \A u \in Tasks : u # t => task'[u] = task[u]
    BY <1>1, <1>2
  <1>4. TaskOK(task'[t])
    <2>1. \A u \in Tasks : TaskOK(task'[u])
      BY DEF FetchInv, TasksOK
    <2> QED BY <2>1
  <1>5. r.source # "ping" /\ r.pc # "ping"
    BY <1>2, <1>3, <1>4, FetchAssumption DEF TaskOK
  <1>6. PingOK(r)
    BY <1>5 DEF PingOK
  <1> QED BY <1>3, <1>6, PingMoves

LEMMA PingKeepsPings ==
  ASSUME FetchInv, PingInv, NEW t \in Tasks, NEW count \in Nat \ {0}, Ping(t, count)
  PROVE  PingInv'
  <1> DEFINE r == [IdleTask EXCEPT !.pc = "ping", !.source = "ping", !.count = count]
  <1>1. r.pc = "ping" /\ r.source = "ping" /\ r.results = <<>> /\ r.count = count
    BY DEF IdleTask
  <1>2. task' = [task EXCEPT ![t] = r] /\ task \in [Tasks -> TaskRecord]
    <2>1. count > 0
      OBVIOUS
    <2> QED BY <2>1, TaskTyped DEF Ping
  <1> HIDE DEF r
  <1>3. task'[t] = r /\ \A u \in Tasks : u # t => task'[u] = task[u]
    BY <1>2
  <1>4. PingOK(r)
    BY <1>1 DEF PingOK
  <1> QED BY <1>3, <1>4, PingMoves

LEMMA PingAddsKeepsPings ==
  ASSUME FetchInv, PingInv, NEW t \in Tasks, NEW ms \in Measured, NEW over \in BOOLEAN,
         task[t].pc = "ping", LastPing(t) => over, PingAdds(t, ms, over)
  PROVE  PingInv'
  <1> DEFINE pc == IF over THEN "ok" ELSE "ping"
             r == [task[t] EXCEPT !.results = Append(@, ms), !.pc = pc]
  <1>1. task \in [Tasks -> TaskRecord] /\ task[t] \in TaskRecord /\ PingOK(task[t])
    BY TaskTyped DEF PingInv
  <1>2. task' = [task EXCEPT ![t] = r]
    BY DEF PingAdds
  <1>3. /\ r.pc = pc /\ r.source = task[t].source /\ r.count = task[t].count
        /\ r.results = Append(task[t].results, ms)
    BY <1>1 DEF TaskRecord
  <1> HIDE DEF r
  <1>4. task'[t] = r /\ \A u \in Tasks : u # t => task'[u] = task[u]
    BY <1>1, <1>2
  <1>5. PICK q \in Seq(0..LongestPing) : q = task[t].results
    BY <1>1 DEF TaskRecord
  <1>6. PICK n : n = task[t].count
    OBVIOUS
  <1>7. n \in Nat
    BY <1>1, <1>6, CountIsNatural
  <1>8. /\ r.source = "ping" /\ Len(q) \in Nat /\ Len(q) < n
        /\ \A i \in 1..Len(q) : q[i] \in Measured
    BY <1>1, <1>3, <1>5, <1>6 DEF PingOK
  <1>9. Len(Append(q, ms)) = Len(q) + 1 /\ Append(q, ms)[Len(q) + 1] = ms
        /\ \A i \in 1..Len(q) : Append(q, ms)[i] = q[i]
    BY <1>5
  <1>10. \A i \in 1..Len(Append(q, ms)) : Append(q, ms)[i] \in Measured
    <2>1. \A i \in 1..(Len(q) + 1) : i \in 1..Len(q) \/ i = Len(q) + 1
      BY <1>8
    <2> QED BY <1>8, <1>9, <2>1
  <1>11. r.results = Append(q, ms) /\ r.count = n
    BY <1>3, <1>5, <1>6
  <1>12. CASE over
    <2>1. r.pc = "ok"
      BY <1>3, <1>12
    <2>2. Len(r.results) \in 1..r.count
      BY <1>7, <1>8, <1>9, <1>11
    <2>3. PingOK(r)
      BY <1>8, <1>10, <1>11, <2>1, <2>2 DEF PingOK
    <2> QED BY <1>4, <2>3, PingMoves
  <1>13. CASE ~over
    <2>1. r.pc = "ping" /\ Len(q) + 1 # n
      BY <1>3, <1>5, <1>6, <1>13 DEF LastPing
    <2>2. Len(r.results) < r.count
      BY <1>7, <1>8, <1>9, <1>11, <2>1
    <2>3. PingOK(r)
      BY <1>8, <1>10, <1>11, <2>1, <2>2 DEF PingOK
    <2> QED BY <1>4, <2>3, PingMoves
  <1> QED BY <1>12, <1>13

LEMMA LocalEndKeepsPings ==
  ASSUME FetchInv, PingInv, NEW t \in Tasks, PingFails(t) \/ LocalFails(t) \/ Gossip(t)
  PROVE  PingInv'
  <1>1. task \in [Tasks -> TaskRecord] /\ task[t] \in TaskRecord /\ PingOK(task[t])
    BY TaskTyped DEF PingInv
  <1>2. PICK r : task' = [task EXCEPT ![t] = r] /\ PingOK(r)
    <2>1. CASE PingFails(t)
      <3> DEFINE r == [task[t] EXCEPT !.pc = "err", !.results = <<>>]
      <3>1. r.pc = "err" /\ r.results = <<>>
        BY <1>1 DEF TaskRecord
      <3>2. task' = [task EXCEPT ![t] = r]
        BY <2>1 DEF PingFails, PingsAreLost
      <3> HIDE DEF r
      <3>3. PingOK(r)
        BY <3>1, <3>2 DEF PingOK
      <3> QED BY <3>2, <3>3
    <2>2. CASE LocalFails(t)
      <3> DEFINE r == [task[t] EXCEPT !.pc = "err"]
      <3>1. r.pc = "err" /\ r.results = task[t].results
        BY <1>1 DEF TaskRecord
      <3>2. task' = [task EXCEPT ![t] = r] /\ task[t].results = <<>>
        BY <2>2 DEF LocalFails
      <3> HIDE DEF r
      <3>3. PingOK(r)
        BY <3>1, <3>2 DEF PingOK
      <3> QED BY <3>2, <3>3
    <2>3. CASE Gossip(t)
      <3> DEFINE r == [task[t] EXCEPT !.pc = "ok"]
      <3>1. r.pc = "ok" /\ r.source = task[t].source
        BY <1>1 DEF TaskRecord
      <3>2. task' = [task EXCEPT ![t] = r] /\ task[t].source # "ping"
        BY <1>1, <2>3 DEF Gossip, PingOK
      <3> HIDE DEF r
      <3>3. PingOK(r)
        BY <3>1, <3>2 DEF PingOK
      <3> QED BY <3>2, <3>3
    <2> QED BY <2>1, <2>2, <2>3
  <1>3. task'[t] = r /\ \A u \in Tasks : u # t => task'[u] = task[u]
    BY <1>1, <1>2
  <1> QED BY <1>2, <1>3, PingMoves

LEMMA OthersKeepPings ==
  ASSUME FetchInv, PingInv, NEW t \in Tasks, SpawnGossip(t) \/ Take(t)
  PROVE  PingInv'
  <1>1. task \in [Tasks -> TaskRecord]
    BY TaskTyped
  <1>2. PICK r : task' = [task EXCEPT ![t] = r] /\ PingOK(r)
    <2>1. CASE SpawnGossip(t)
      <3> DEFINE r == [IdleTask EXCEPT !.pc = "gossip", !.source = "gossip"]
      <3>1. r.pc = "gossip" /\ r.source = "gossip"
        BY DEF IdleTask
      <3>2. task' = [task EXCEPT ![t] = r]
        BY <2>1 DEF SpawnGossip
      <3> HIDE DEF r
      <3>3. PingOK(r)
        BY <3>1, <3>2 DEF PingOK
      <3> QED BY <3>2, <3>3
    <2>2. CASE Take(t)
      <3>1. task' = [task EXCEPT ![t] = IdleTask]
        BY <2>2 DEF Take
      <3>2. PingOK(IdleTask)
        BY DEF IdleTask, PingOK
      <3> QED BY <3>1, <3>2
    <2> QED BY <2>1, <2>2
  <1>3. task'[t] = r /\ \A u \in Tasks : u # t => task'[u] = task[u]
    BY <1>1, <1>2
  <1> QED BY <1>2, <1>3, PingMoves

LEMMA TickKeepsPings ==
  ASSUME FetchInv, PingInv, Tick
  PROVE  PingInv'
  <1>1. ASSUME NEW u \in Tasks PROVE PingOK(task'[u])
    <2>1. task[u] \in TaskRecord /\ PingOK(task[u])
      BY TaskFields DEF PingInv
    <2>2. PICK r : r = [task[u] EXCEPT !.sleep = @ - 1]
      OBVIOUS
    <2>3. /\ r.pc = task[u].pc /\ r.source = task[u].source /\ r.count = task[u].count
          /\ r.results = task[u].results
      BY <2>1, <2>2 DEF TaskRecord
    <2>4. task'[u] = r \/ task'[u] = task[u]
      BY <2>2 DEF Tick
    <2>5. PingOK(r)
      BY <2>1, <2>3 DEF PingOK
    <2> QED BY <2>1, <2>4, <2>5
  <1>2. ASSUME NEW u \in Tasks PROVE PingOK(task[u])'
    BY <1>1 DEF PingOK, Measured
  <1> QED BY <1>2 DEF PingInv

LEMMA PingInvNext == FetchInv /\ FetchInv' /\ PingInv /\ [Next]_vars => PingInv'
  <1> SUFFICES ASSUME FetchInv, FetchInv', PingInv, [Next]_vars PROVE PingInv'
    OBVIOUS
  <1>1. ASSUME NEW t \in Tasks, TaskStep(t)
        PROVE  PingInv'
    <2>1. CASE Pong(t) \/ PingError(t) \/ PingTimesOut(t)
      <3>1. task[t].pc = "ping" /\ LastPing(t) \in BOOLEAN /\ PingTimeout \in Measured
        BY <2>1 DEF Pong, PingError, PingTimesOut, LastPing, Measured
      <3>2. PICK ms \in Measured, over \in BOOLEAN : (LastPing(t) => over) /\ PingAdds(t, ms, over)
        <4>1. CASE Pong(t)
          BY <3>1, <4>1 DEF Pong, Measured
        <4>2. CASE PingError(t)
          BY <3>1, <4>2 DEF PingError
        <4>3. CASE PingTimesOut(t)
          BY <3>1, <4>3 DEF PingTimesOut
        <4> QED BY <2>1, <4>1, <4>2, <4>3
      <3> QED BY <3>1, <3>2, PingAddsKeepsPings
    <2>2. CASE PingFails(t) \/ LocalFails(t) \/ Gossip(t)
      BY <2>2, LocalEndKeepsPings
    <2> QED BY <1>1, <2>1, <2>2, FailedPings, RequestKeepsPings DEF TaskStep
  <1>2. ASSUME NEW t \in Tasks, NEW a \in Apis, SpawnRequest(t, a)
        PROVE  PingInv'
    BY <1>2, RequestKeepsPings
  <1>3. ASSUME NEW t \in Tasks, SpawnGossip(t) \/ Take(t)
        PROVE  PingInv'
    BY <1>3, OthersKeepPings
  <1>4. ASSUME NEW t \in Tasks, SpawnPing(t)
        PROVE  PingInv'
    BY <1>4, PingKeepsPings DEF SpawnPing, PingCount
  <1>5. ASSUME NEW t \in Tasks, NEW n \in Counts, TestPing(t, n)
        PROVE  PingInv'
    <2>1. n \in Nat \ {0} /\ Ping(t, n)
      BY <1>5, FetchAssumption DEF TestPing
    <2> QED BY <2>1, PingKeepsPings
  <1>6. CASE UNCHANGED vars
    <2>1. task' = task
      BY <1>6 DEF vars
    <2> QED BY <2>1 DEF PingInv, PingOK, Measured
  <1> QED BY <1>1, <1>2, <1>3, <1>4, <1>5, <1>6, TickKeepsPings DEF Next

\* PingHasAValue (ln_ping, collect.rs): however many pings are asked for, the
\* mean is of at least one result, fits 16 bits, and is the timeout for a peer
\* that never answered.
THEOREM PingsHaveAValue == Spec => []PingHasAValue
  <1>1. Init => PingInv
    BY DEF Init, PingInv, PingOK, IdleTask
  <1>2. ASSUME FetchInv, PingInv, NEW t \in Tasks, task[t].source = "ping"
        PROVE  /\ task[t].pc = "ok" =>
                    /\ Len(task[t].results) \in 1..task[t].count
                    /\ Mean(task[t].results) \in 0..LongestPing
                    /\ (\A i \in 1..Len(task[t].results) : task[t].results[i] \notin PingTimes)
                         => Mean(task[t].results) = PingTimeout
               /\ task[t].pc = "err" => task[t].results = <<>>
    <2>1. task[t] \in TaskRecord /\ PingOK(task[t])
      BY <1>2, TaskFields DEF PingInv
    <2>2. ASSUME task[t].pc = "ok"
          PROVE  /\ Mean(task[t].results) \in 0..LongestPing
                 /\ (\A i \in 1..Len(task[t].results) : task[t].results[i] \notin PingTimes)
                      => Mean(task[t].results) = PingTimeout
      <3>1. PICK q \in Seq(0..LongestPing) : q = task[t].results
        BY <2>1 DEF TaskRecord
      <3>2. PICK n : n = task[t].count
        OBVIOUS
      <3>3. n \in Nat
        BY <2>1, <3>2, CountIsNatural
      <3>4. Len(q) \in 1..n /\ \A i \in 1..Len(q) : q[i] \in Measured
        BY <1>2, <2>1, <2>2, <3>1, <3>2 DEF PingOK
      <3>5. Len(q) \in Nat \ {0}
        BY <3>3, <3>4
      <3>6. \A i \in 1..Len(q) : q[i] \in 0..LongestPing
        <4>1. \A ms \in Measured : ms \in 0..LongestPing
          BY Zenon, PingBounds DEF Measured
        <4> QED BY <3>4, <4>1
      <3>7. /\ Mean(q) \in 0..LongestPing
            /\ (\A i \in 1..Len(q) : q[i] = PingTimeout) => Mean(q) = PingTimeout
        <4>1. PingTimeout \in Nat /\ LongestPing \in Nat /\ PingTimeout \in 0..PingTimeout
          BY PingBounds
        <4>2. Mean(q) \in 0..LongestPing
          BY <3>5, <3>6, <4>1, MeanBounds
        <4>3. ASSUME \A i \in 1..Len(q) : q[i] = PingTimeout PROVE Mean(q) = PingTimeout
          <5>1. \A i \in 1..Len(q) : q[i] \in 0..PingTimeout
            BY <4>1, <4>3
          <5> QED BY <3>5, <4>1, <4>3, <5>1, MeanBounds
        <4> QED BY <4>2, <4>3
      <3>8. (\A i \in 1..Len(q) : q[i] \notin PingTimes) => \A i \in 1..Len(q) : q[i] = PingTimeout
        BY <3>4 DEF Measured
      <3> QED BY <3>1, <3>7, <3>8
    <2> QED BY <1>2, <2>1, <2>2 DEF PingOK
  <1>3. FetchInv /\ PingInv => PingHasAValue
    BY <1>2 DEF PingHasAValue
  <1> QED BY <1>1, <1>3, PingInvNext, FetchInvariant, PTL DEF Spec
=============================================================================

------------------------------ MODULE ListStore ------------------------------
(***************************************************************************)
(* What clnrod-managelists promises: each list is a durable set of lines,  *)
(* every request changes it at one moment, by its own line, or not at all, *)
(* and nothing else changes it.  A crash forgets the requests and keeps    *)
(* the lists.                                                              *)
(***************************************************************************)
CONSTANTS Calls, Lists, Texts, None

VARIABLES
  stored,   \* per list its lines
  request   \* per slot the request under way

Idle == [pc |-> "idle", op |-> None, list |-> None, line |-> None]

Init ==
  /\ stored \in [Lists -> SUBSET Texts]
  /\ request = [c \in Calls |-> Idle]

Request(c) ==
  /\ request[c].pc = "idle"
  /\ \E op \in {"add", "remove"}, l \in Lists, s \in Texts :
       request' = [request EXCEPT ![c] =
         [pc |-> "requested", op |-> op, list |-> l, line |-> s]]
  /\ UNCHANGED stored

\* The request takes effect, once.
Commit(c) ==
  /\ request[c].pc = "requested"
  /\ request' = [request EXCEPT ![c].pc = "committed"]
  /\ stored' = [stored EXCEPT ![request[c].list] =
       IF request[c].op = "add" THEN @ \cup {request[c].line} ELSE @ \ {request[c].line}]

\* The call ends, its request committed or refused.
End(c) ==
  /\ request[c].pc # "idle"
  /\ request' = [request EXCEPT ![c] = Idle]
  /\ UNCHANGED stored

Crash ==
  /\ request' = [c \in Calls |-> Idle]
  /\ UNCHANGED stored

Next ==
  \/ \E c \in Calls : Request(c) \/ Commit(c) \/ End(c)
  \/ Crash

Spec == Init /\ [][Next]_<<stored, request>>
=============================================================================

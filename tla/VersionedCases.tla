--------------------------- MODULE VersionedCases ---------------------------
(***************************************************************************)
(* What clients may rely on, whatever is retried, runs concurrently or     *)
(* crashes: each case is a log of requests that only grows, a request is   *)
(* added only at the version it expects, and what a success tells of a     *)
(* case was so and stays part of it.                                       *)
(***************************************************************************)
EXTENDS Naturals, Sequences

CONSTANTS Cases, Requests, Nil

VARIABLES
  logs,   \* the requests applied to each case, Nil before its creation
  told    \* the logs that clients have been told of as theirs

vars == <<logs, told>>

IsPrefix(short, long) ==
  long # Nil /\ Len(short) <= Len(long) /\ SubSeq(long, 1, Len(short)) = short

Init ==
  /\ logs \in [Cases -> Seq(Requests) \cup {Nil}]
  /\ told = {}

Create(c, r) ==
  /\ logs[c] = Nil /\ r.op = "create"
  /\ logs' = [logs EXCEPT ![c] = <<r>>]
  /\ UNCHANGED told

Apply(c, r) ==
  /\ logs[c] # Nil /\ r.op # "create" /\ r.case = c
  /\ r.expected = Len(logs[c])
  /\ logs' = [logs EXCEPT ![c] = Append(@, r)]
  /\ UNCHANGED told

Tell(log) ==
  /\ \E c \in Cases : IsPrefix(log, logs[c])
  /\ told' = told \cup {log}
  /\ UNCHANGED logs

Next ==
  \/ \E c \in Cases, r \in Requests : Create(c, r) \/ Apply(c, r)
  \/ \E log \in told' : Tell(log)

Spec == Init /\ [][Next]_vars
=============================================================================

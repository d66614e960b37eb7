------------------------ MODULE CommissioningService ------------------------
(***************************************************************************)
(* The application service (application/service.go) over the file store:   *)
(* handlers serve requests concurrently, each under the mutex of its case  *)
(* or of its creation key, checking the expected version and answering a   *)
(* repeated idempotency key with the stored result.  A client may send a   *)
(* request any number of times, whatever became of the earlier attempts.   *)
(* The daemon (cmd/chamberd) ends by a crash, or is stopped and waits for  *)
(* its handlers to finish, for five seconds; then it is started again.     *)
(*                                                                         *)
(* "mutate" is every mutation but the observation batch, which has a path  *)
(* of its own (ObserveBatch), as the creation of a case has (Create).      *)
(* Whether the domain accepts a request is left open: CommissioningCase    *)
(* says when.                                                              *)
(***************************************************************************)
EXTENDS FileStore

CONSTANTS
  Requests,    \* what clients send
  Born,        \* the creations on disk at the start: a function from cases
  MaxSends,    \* bound: attempts
  MaxEnds      \* bound: ends of the process, by a crash or a stop

VARIABLES
  running,     \* "up", "stopping", "down", or "refused": the store cannot be opened
  locks,       \* Service.locks: the handler that holds a mutex, or Nil
  pc, req, work,
  sends, ends,
  forgot,      \* whether results have been lost with a process
  answers      \* the answers given, with what the request had come to

serviceVars == <<running, locks, pc, req, work, sends, ends, forgot, answers>>
vars == <<storeVars, serviceVars>>

Keyed(r) == r.key # Nil

(* A creation stores its result under its key as it was sent, anything     *)
(* else under the case, a colon and the key.  A pair <<c, key>> is that    *)
(* text: a creation may be sent with such a key, too.  No case has a colon *)
(* in its identifier.                                                      *)
StoreKey(r) == IF r.op = "create" THEN r.key ELSE <<r.case, r.key>>

(* Mutant: one mutex for each idempotency key. *)
MutantLockOf(r) == <<r.case, r.key>>

LockOf(r) == IF r.op = "create" THEN <<"create", r.key>> ELSE r.case
LockIds == Cases \cup {LockOf(r) : r \in Requests}

(* Results of keys, and cases to be saved. *)
Fingerprints ==
  ({"request"} \X {r.body : r \in Requests})
    \cup ({"identity"} \X SUBSET UNION {r.identity : r \in Requests})
Entries == [log : Seq(Requests), fingerprint : Fingerprints]
Work == [case : Cases, log : Seq(Requests)]

ASSUME ServiceAssumption ==
  \A r \in Requests :
    /\ r.op \in {"create", "batch", "mutate"}
    /\ r.case \in IF r.op = "create" THEN {Nil} ELSE Cases
    /\ r.expected \in Nat
    /\ Keyed(r) => StoreKey(r) \in StoreKeys

(* No results are on disk at the start, so that no key is either. *)
ASSUME BornAssumption ==
  /\ DOMAIN Born \subseteq Cases
  /\ \A c \in DOMAIN Born :
       Born[c] \in Requests /\ Born[c].op = "create" /\ ~ Keyed(Born[c])

ASSUME NilAssumption ==
  /\ Nil \notin Cases \cup Handlers \cup Requests \cup Seq(Requests) \cup Entries \cup Work
  /\ Torn \notin [StoreKeys -> Entries \cup {Nil}]
ASSUME BoundAssumption == MaxSends \in Nat /\ MaxEnds \in Nat /\ MaxFaults \in Nat

(* The identity of a case is the one that its creation or, after it, the   *)
(* last revision of it stated; other requests state none, the empty set.   *)
Identity(log) ==
  UNION {log[i].identity : i \in {i \in DOMAIN log :
           \A j \in DOMAIN log : j > i => log[j].identity = {}}}

(* What the store keeps with the result to tell requests apart: Save takes *)
(* the identity of the case, ObserveBatch the observations of the request. *)
Fingerprint(r, log) ==
  IF r.op = "batch" THEN <<"request", r.body>> ELSE <<"identity", Identity(log)>>
RequestFingerprint(r) ==
  IF r.op = "batch" THEN <<"request", r.body>> ELSE <<"identity", r.identity>>

(* Mutant: any request with the key. *)
MutantSameRequest(result, r) == TRUE

SameRequest(result, r) == result.fingerprint = RequestFingerprint(r)

(* Mutant: a later version will do. *)
MutantAtExpectedVersion(r, log) == Len(log) >= r.expected

AtExpectedVersion(r, log) == Len(log) = r.expected

In(log, r) == log # Nil /\ \E i \in DOMAIN log : log[i] = r
Applied(r) == \E c \in Cases : In(snapshot[c], r)

Init ==
  /\ snapshot = [c \in Cases |-> IF c \in DOMAIN Born THEN <<Born[c]>> ELSE Nil]
  /\ audit = [c \in Cases |-> IF c \in DOMAIN Born THEN <<1>> ELSE <<>>]
  /\ idemFile = NoResults /\ idem = NoResults /\ mu = Nil /\ faults = 0
  /\ running = "up"
  /\ locks = [l \in LockIds |-> Nil]
  /\ pc = [h \in Handlers |-> "idle"]
  /\ req = [h \in Handlers |-> Nil]
  /\ work = [h \in Handlers |-> Nil]
  /\ sends = 0 /\ ends = 0 /\ forgot = FALSE /\ answers = {}

-----------------------------------------------------------------------------
goto(h, step) == pc' = [pc EXCEPT ![h] = step]

(* Mutant: no unlock. *)
MutantRelease(h) == UNCHANGED locks

(* The deferred unlock: a handler gives back what it holds. *)
Release(h) == locks' = [l \in LockIds |-> IF locks[l] = h THEN Nil ELSE locks[l]]

Answer(h, result, log) ==
  /\ answers' = answers \cup
       {[request |-> req[h], result |-> result, log |-> log,
         applied |-> Applied(req[h]), forgot |-> forgot]}
  /\ Release(h)
  /\ pc' = [pc EXCEPT ![h] = "idle"]
  /\ req' = [req EXCEPT ![h] = Nil]
  /\ work' = [work EXCEPT ![h] = Nil]
  /\ UNCHANGED <<running, sends, ends, forgot>>

Receive(h, r) ==
  /\ running = "up" /\ pc[h] = "idle"
  /\ sends < MaxSends /\ sends' = sends + 1
  /\ req' = [req EXCEPT ![h] = r]
  /\ goto(h, CASE r.op = "mutate" /\ Keyed(r) -> "lookup"
               [] r.op = "create" /\ ~ Keyed(r) -> "new"
               [] OTHER -> "lock")
  /\ UNCHANGED <<storeVars, running, locks, work, ends, forgot, answers>>

(* mutate looks for a stored result before it takes the lock. *)
Lookup(h) ==
  LET found == idem[StoreKey(req[h])]
  IN  /\ pc[h] = "lookup" /\ CanRead
      /\ IF found # Nil
         THEN Answer(h, "ok", found.log)
         ELSE goto(h, "lock") /\ UNCHANGED <<running, locks, req, work, sends, ends, forgot, answers>>
      /\ UNCHANGED storeVars

(* Mutants: nobody waits for the mutex, and a batch does not look again    *)
(* for a stored result once it holds it.                                   *)
MutantAcquireAtOnce(h) ==
  /\ pc[h] = "lock"
  /\ locks' = [locks EXCEPT ![LockOf(req[h])] = h]
  /\ goto(h, IF Keyed(req[h]) /\ req[h].op # "mutate" THEN "replay" ELSE "load")
  /\ UNCHANGED <<storeVars, running, req, work, sends, ends, forgot, answers>>
MutantAcquireNoReplay(h) ==
  /\ pc[h] = "lock" /\ locks[LockOf(req[h])] = Nil
  /\ locks' = [locks EXCEPT ![LockOf(req[h])] = h]
  /\ goto(h, IF req[h].op = "create" THEN "replay" ELSE "load")
  /\ UNCHANGED <<storeVars, running, req, work, sends, ends, forgot, answers>>

Acquire(h) ==
  LET r == req[h]
  IN  /\ pc[h] = "lock" /\ locks[LockOf(r)] = Nil
      /\ locks' = [locks EXCEPT ![LockOf(r)] = h]
      /\ goto(h, IF Keyed(r) /\ r.op # "mutate" THEN "replay" ELSE "load")
      /\ UNCHANGED <<storeVars, running, req, work, sends, ends, forgot, answers>>

(* Create and ObserveBatch look for it under the lock, and compare. *)
Replay(h) ==
  LET r == req[h]
      found == idem[StoreKey(r)]
  IN  /\ pc[h] = "replay" /\ CanRead
      /\ CASE found = Nil ->
                /\ goto(h, IF r.op = "create" THEN "new" ELSE "load")
                /\ UNCHANGED <<running, locks, req, work, sends, ends, forgot, answers>>
           [] found # Nil /\ ~ SameRequest(found, r) ->
                Answer(h, "idempotencyConflict", Nil)
           [] OTHER -> Answer(h, "ok", found.log)
      /\ UNCHANGED storeVars

(* Get, the check of the version, and the domain operation on the copy. *)
Load(h) ==
  LET r == req[h]
      log == snapshot[r.case]
  IN  /\ pc[h] = "load" /\ CanRead
      /\ \/ log = Nil /\ Answer(h, "notFound", Nil)
         \/ log # Nil /\ ~ AtExpectedVersion(r, log) /\ Answer(h, "versionConflict", Nil)
         \/ log # Nil /\ AtExpectedVersion(r, log) /\ Answer(h, "refused", Nil)
         \/ /\ log # Nil /\ AtExpectedVersion(r, log)
            /\ work' = [work EXCEPT ![h] = [case |-> r.case, log |-> Append(log, r)]]
            /\ goto(h, "save")
            /\ UNCHANGED <<running, locks, req, sends, ends, forgot, answers>>
      /\ UNCHANGED storeVars

(* The identifier is the time in nanoseconds, taken to be new. *)
NewCase(h) ==
  /\ pc[h] = "new"
  /\ \/ Answer(h, "refused", Nil)
     \/ \E c \in Cases :
          /\ snapshot[c] = Nil
          /\ \A g \in Handlers : work[g] # Nil => work[g].case # c
          /\ work' = [work EXCEPT ![h] = [case |-> c, log |-> <<req[h]>>]]
          /\ goto(h, "save")
          /\ UNCHANGED <<running, locks, req, sends, ends, forgot, answers>>
  /\ UNCHANGED storeVars

(* Save. *)
SaveCase(h) ==
  /\ pc[h] = "save"
  /\ \/ /\ SaveSnapshot(h, work[h].case, work[h].log)
        /\ goto(h, IF Keyed(req[h]) THEN "remember" ELSE "audit")
        /\ UNCHANGED <<running, locks, req, work, sends, ends, forgot, answers>>
     \/ SaveSnapshotFails /\ Answer(h, "ioError", Nil)

(* Mutant: Save is given the key without the case. *)
MutantSaveResult(h) ==
  /\ pc[h] = "remember"
  /\ Remember(h, req[h].key,
       [log |-> work[h].log, fingerprint |-> Fingerprint(req[h], work[h].log)])
  /\ goto(h, "writeIdempotency")
  /\ UNCHANGED <<running, locks, req, work, sends, ends, forgot, answers>>

SaveResult(h) ==
  LET key == StoreKey(req[h])
      entry == [log |-> work[h].log, fingerprint |-> Fingerprint(req[h], work[h].log)]
  IN  /\ pc[h] = "remember"
      /\ \/ Remember(h, key, entry) /\ goto(h, "writeIdempotency")
         \/ RememberUnwritten(h, key, entry) /\ goto(h, "audit")
      /\ UNCHANGED <<running, locks, req, work, sends, ends, forgot, answers>>

SaveResultFile(h) ==
  /\ pc[h] = "writeIdempotency"
  /\ WriteIdempotency(h)
  /\ goto(h, "audit")
  /\ UNCHANGED <<running, locks, req, work, sends, ends, forgot, answers>>

SaveAudit(h) ==
  /\ pc[h] = "audit"
  /\ \/ appendAudit(h, work[h].case) /\ Answer(h, "ok", work[h].log)
     \/ appendAuditFails(h, work[h].case) /\ Answer(h, "ioError", Nil)

(* The process dies: in the middle of anything, and when its handlers take *)
(* longer than five seconds to finish.  With it goes the result of a case  *)
(* that was saved without it, and the results whose file was not written.  *)
Crash ==
  /\ running \in {"up", "stopping"} /\ ends < MaxEnds
  /\ running' = "down" /\ ends' = ends + 1
  /\ forgot' = (forgot \/ idemFile # idem \/ \E h \in Handlers : pc[h] = "remember")
  /\ locks' = [l \in LockIds |-> Nil]
  /\ pc' = [h \in Handlers |-> "idle"]
  /\ req' = [h \in Handlers |-> Nil]
  /\ work' = [h \in Handlers |-> Nil]
  /\ StoreCrash
  /\ UNCHANGED <<sends, answers>>

(* A signal: Shutdown takes no further requests, and returns when every    *)
(* handler is done.  Nothing is written on the way out, so a result whose  *)
(* file could not be written is lost.                                      *)
Stop ==
  /\ running = "up" /\ ends < MaxEnds
  /\ running' = "stopping"
  /\ UNCHANGED <<storeVars, locks, pc, req, work, sends, ends, forgot, answers>>

(* Mutant: nobody waits for the handlers. *)
MutantExit ==
  /\ running = "stopping"
  /\ running' = "down" /\ ends' = ends + 1
  /\ forgot' = (forgot \/ idemFile # idem)
  /\ locks' = [l \in LockIds |-> Nil]
  /\ pc' = [h \in Handlers |-> "idle"]
  /\ req' = [h \in Handlers |-> Nil]
  /\ work' = [h \in Handlers |-> Nil]
  /\ StoreCrash
  /\ UNCHANGED <<sends, answers>>

Exit ==
  /\ running = "stopping" /\ \A h \in Handlers : pc[h] = "idle"
  /\ running' = "down" /\ ends' = ends + 1
  /\ forgot' = (forgot \/ idemFile # idem)
  /\ StoreCrash
  /\ UNCHANGED <<locks, pc, req, work, sends, answers>>

Restart ==
  /\ running = "down"
  /\ \/ OpenStore /\ running' = "up"
     \/ ~ CanOpen /\ running' = "refused" /\ UNCHANGED storeVars
  /\ UNCHANGED <<locks, pc, req, work, sends, ends, forgot, answers>>

Step(h) ==
  \/ Lookup(h) \/ Acquire(h) \/ Replay(h) \/ Load(h) \/ NewCase(h)
  \/ SaveCase(h) \/ SaveResult(h) \/ SaveResultFile(h) \/ SaveAudit(h)

Next ==
  \/ \E h \in Handlers : Step(h) \/ \E r \in Requests : Receive(h, r)
  \/ Crash \/ Stop \/ Exit
  \/ Restart

(* A handler that can go on does, and a mutex of Go's sync, once it has    *)
(* been waited for long enough, is handed to the waiter.                   *)
Fairness == WF_vars(Restart) /\ WF_vars(Exit) /\ \A h \in Handlers : SF_vars(Step(h))

Spec == Init /\ [][Next]_vars
FairSpec == Spec /\ Fairness

-----------------------------------------------------------------------------
(* Properties. *)

Answers ==
  [request : Requests, log : Seq(Requests) \cup {Nil}, applied : BOOLEAN, forgot : BOOLEAN,
   result : {"ok", "notFound", "versionConflict", "idempotencyConflict", "refused", "ioError"}]

TypeOK ==
  /\ snapshot \in [Cases -> Seq(Requests) \cup {Nil}]
  /\ audit \in [Cases -> Seq(Nat)]
  /\ idem \in [StoreKeys -> Entries \cup {Nil}]
  /\ idemFile \in [StoreKeys -> Entries \cup {Nil}] \cup {Torn}
  /\ mu \in Handlers \cup {Nil}
  /\ locks \in [LockIds -> Handlers \cup {Nil}]
  /\ pc \in [Handlers -> {"idle", "lookup", "lock", "replay", "load", "new", "save",
                          "remember", "writeIdempotency", "audit"}]
  /\ req \in [Handlers -> Requests \cup {Nil}]
  /\ work \in [Handlers -> Work \cup {Nil}]
  /\ running \in {"up", "stopping", "down", "refused"}
  /\ faults \in Nat /\ sends \in Nat /\ ends \in Nat /\ forgot \in BOOLEAN
  /\ answers \in SUBSET Answers

Prefix(short, long) ==
  long # Nil /\ Len(short) <= Len(long) /\ SubSeq(long, 1, Len(short)) = short

(* Every request was applied to exactly the version it expected, and a     *)
(* case is its creation and mutations of that case: no handler worked on   *)
(* a copy that another had overtaken (mutate, ObserveBatch).               *)
AppliedAtExpectedVersion ==
  \A c \in Cases :
    snapshot[c] # Nil =>
      /\ snapshot[c][1].op = "create"
      /\ \A i \in 2 .. Len(snapshot[c]) :
           snapshot[c][i].case = c /\ snapshot[c][i].expected = i - 1

(* What an idempotency key stands for, in memory and in the file, is the   *)
(* outcome of a request that is stored under that key, and part of the     *)
(* case it is about as it is stored: a replay never tells of a mutation    *)
(* that was not stored.  That it tells of the case that was asked about is *)
(* not promised (MutateReplayMatches).                                     *)
ResultsAreOfTheirKey ==
  \A k \in StoreKeys :
    \A entry \in {idem[k], IF idemFile = Torn THEN Nil ELSE idemFile[k]} \ {Nil} :
      LET last == entry.log[Len(entry.log)]
      IN  /\ StoreKey(last) = k
          /\ \E c \in Cases :
               (last.op # "create" => last.case = c) /\ Prefix(entry.log, snapshot[c])

(* An observation batch that is answered with success is in the case it is *)
(* answered with, which is the one it was sent to, and a creation is       *)
(* answered with a case of the identity it was sent with, also when the    *)
(* answer is a replay.                                                     *)
SuccessMeansApplied ==
  \A a \in answers :
    a.result = "ok" =>
      /\ a.request.op = "batch" =>
           \E i \in DOMAIN a.log :
             /\ a.log[i].op = "batch" /\ a.log[i].case = a.request.case
             /\ a.log[i].body = a.request.body
      /\ a.request.op = "create" => Identity(a.log) = a.request.identity

(* A keyed observation batch may be sent again, even while the first       *)
(* attempt is under way, and after a crash or a stop: a batch that is in   *)
(* the case is answered with success, unless a file fails again or results *)
(* were lost with a process.  Another kind of request whose result has the *)
(* same place, and that was looked up before the batch was stored, would   *)
(* replace its result.                                                     *)
SharesItsKey(r) ==
  \E s \in Requests : s.op # r.op /\ StoreKey(s) = StoreKey(r)

BatchRetrySafe ==
  \A a \in answers :
    /\ a.request.op = "batch" /\ Keyed(a.request) /\ a.applied
    /\ ~ SharesItsKey(a.request)
    /\ a.result # "ioError" /\ ~ a.forgot
    => a.result = "ok"

(* However often it is sent, by whatever handlers, and whatever versions   *)
(* it expects, one key brings one batch of observations into a case.       *)
BatchAppliedOnce ==
  ~ forgot =>
    \A c \in Cases :
      snapshot[c] # Nil =>
        \A i, j \in DOMAIN snapshot[c] :
          /\ snapshot[c][i].op = "batch" /\ snapshot[c][j].op = "batch"
          /\ Keyed(snapshot[c][i]) /\ snapshot[c][i].key = snapshot[c][j].key
          => i = j

(* A creation key creates one case, unless results were lost.              *)
CreatedOnce ==
  ~ forgot =>
    \A c, d \in Cases :
      /\ snapshot[c] # Nil /\ snapshot[d] # Nil
      /\ Keyed(snapshot[c][1]) /\ snapshot[c][1].key = snapshot[d][1].key
      => c = d

(* As long as no audit line was cut short, the audit logs list versions    *)
(* the cases have had, in order, and the store opens after any crash.      *)
AuditInOrder ==
  (\A c \in Cases : \A i \in DOMAIN audit[c] : audit[c][i] # TornLine) =>
    /\ running # "refused" /\ CanOpen
    /\ \A c \in Cases : \A i \in DOMAIN audit[c] :
         snapshot[c] # Nil /\ audit[c][i] <= Len(snapshot[c])

-----------------------------------------------------------------------------
(* The inductive invariants that these properties rest on. *)

Writing(h) == pc[h] \in {"remember", "writeIdempotency", "audit"}
Saving(h) == pc[h] = "save" \/ Writing(h)

(* What brought a handler where it is. *)
OnItsPath(h) ==
  LET r == req[h]
  IN  /\ r = Nil <=> pc[h] = "idle"
      /\ work[h] = Nil <=> ~ Saving(h)
      /\ pc[h] = "lookup" => r.op = "mutate" /\ Keyed(r)
      /\ pc[h] = "lock" /\ r.op = "create" => Keyed(r)
      /\ pc[h] = "replay" => r.op # "mutate" /\ Keyed(r)
      /\ pc[h] = "load" => r.op # "create"
      /\ pc[h] = "new" => r.op = "create"
      /\ pc[h] \in {"remember", "writeIdempotency"} => Keyed(r)

(* A handler holds its mutex from the lookup under it to the answer; only  *)
(* the creation without a key has none.                                    *)
InLock(h) ==
  \/ pc[h] \in {"replay", "load"}
  \/ (pc[h] = "new" \/ Saving(h)) /\ (req[h].op = "create" => Keyed(req[h]))
HoldsItsLocks(h) ==
  /\ InLock(h) => locks[LockOf(req[h])] = h
  /\ mu = h <=> Writing(h)

(* The copy a handler saves is still the case and its request, and once    *)
(* saved it is the case.                                                   *)
WorksOnTheCase(h) ==
  LET r == req[h]
      c == work[h].case
  IN  /\ pc[h] = "save" =>
           IF r.op = "create" THEN snapshot[c] = Nil /\ work[h].log = <<r>>
           ELSE /\ r.case = c /\ snapshot[c] # Nil
                /\ r.expected = Len(snapshot[c]) /\ work[h].log = Append(snapshot[c], r)
      /\ Writing(h) =>
           /\ snapshot[c] = work[h].log
           /\ work[h].log # <<>> /\ work[h].log[Len(work[h].log)] = r
           /\ r.op # "create" => r.case = c

ConcurrencyInv ==
  /\ TypeOK /\ AppliedAtExpectedVersion
  /\ \A c \in Cases : snapshot[c] # <<>>
  /\ \A h \in Handlers : OnItsPath(h) /\ HoldsItsLocks(h) /\ WorksOnTheCase(h)
  /\ \A g, h \in Handlers : g # h /\ Saving(g) /\ Saving(h) => work[g].case # work[h].case
  /\ running \in {"down", "refused"} => \A h \in Handlers : pc[h] = "idle"

(* A stored result is what its last request came to. *)
ResultsSound ==
  \A k \in StoreKeys :
    \A entry \in {idem[k], IF idemFile = Torn THEN Nil ELSE idemFile[k]} \ {Nil} :
      /\ entry.log # <<>>
      /\ entry.fingerprint = Fingerprint(entry.log[Len(entry.log)], entry.log)
ResultsInv == ResultsAreOfTheirKey /\ ResultsSound /\ SuccessMeansApplied

(* As long as no results are lost, every key on record has its result, or  *)
(* the handler that is about to store it; a creation or a batch goes on    *)
(* only while no case has one of its kind with its key.                    *)
Results == IF running \in {"up", "stopping"} THEN idem ELSE idemFile
KeyHasResult(r) ==
  Keyed(r) => Results[StoreKey(r)] # Nil \/ \E h \in Handlers : pc[h] = "remember" /\ req[h] = r
KeysKept ==
  ~ forgot =>
    /\ running \in {"down", "refused"} => idemFile # Torn
    /\ \A c \in Cases : snapshot[c] # Nil =>
         \A i \in DOMAIN snapshot[c] : KeyHasResult(snapshot[c][i])
    /\ \A h \in Handlers :
         /\ pc[h] \in {"load", "new", "save"}
         /\ req[h].op # "mutate" /\ Keyed(req[h])
         => \A c \in Cases : snapshot[c] # Nil =>
              \A i \in DOMAIN snapshot[c] :
                snapshot[c][i].op = req[h].op =>
                  StoreKey(snapshot[c][i]) # StoreKey(req[h])
KeysInv == KeysKept /\ CreatedOnce /\ BatchAppliedOnce /\ BatchRetrySafe

(* The audit log never runs ahead of the case. *)
AuditBehind ==
  /\ \A c \in Cases : \A i \in DOMAIN audit[c] :
       snapshot[c] # Nil /\ audit[c][i] <= Len(snapshot[c])
  /\ \A h \in Handlers : Writing(h) =>
       \A i \in DOMAIN audit[work[h].case] : audit[work[h].case][i] < Len(work[h].log)
AuditInv == AuditBehind /\ AuditInOrder

(* From any state that satisfies it every step leads to one that does.     *)
ServiceInv == ConcurrencyInv /\ ResultsInv /\ KeysInv /\ AuditInv

-----------------------------------------------------------------------------
(* Every request is answered, or its process dies.                         *)
EveryRequestEnds == \A h \in Handlers : pc[h] # "idle" ~> pc[h] = "idle"

-----------------------------------------------------------------------------
(* Expectations that the code does not meet. *)

(* A keyed mutation may be sent again: it is not told of a version         *)
(* conflict with itself (README.md:32).                                    *)
MutateRetrySafe ==
  \A a \in answers :
    /\ a.request.op = "mutate" /\ Keyed(a.request)
    /\ a.result = "versionConflict"
    => ~ a.applied

(* A success is of the request that was sent (ErrIdempotencyConflict).     *)
MutateReplayMatches ==
  \A a \in answers : a.result = "ok" => In(a.log, a.request)

(* A keyed batch that is in the case may be sent again after a crash at    *)
(* any moment (README.md:32, ports.go:21).                                 *)
BatchRetriedAfterCrash ==
  \A a \in answers :
    /\ a.request.op = "batch" /\ Keyed(a.request) /\ a.applied
    /\ a.result # "ioError"
    => a.result = "ok"
=============================================================================

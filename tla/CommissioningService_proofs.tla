--------------------- MODULE CommissioningService_proofs ---------------------
(***************************************************************************)
(* Proofs about CommissioningService for every set of cases, requests and  *)
(* handlers, and every bound on attempts, failures and ends.               *)
(***************************************************************************)
EXTENDS CommissioningService, SequenceTheorems, TLAPS

(* What is assumed of a request. *)
LEMMA RequestFacts ==
  ASSUME NEW r \in Requests
  PROVE  /\ r # Nil /\ r.op \in {"create", "batch", "mutate"}
         /\ r.op = "create" => r.case = Nil
         /\ r.op # "create" => r.case \in Cases /\ r.case # Nil
         /\ r.expected \in Nat
         /\ Keyed(r) => StoreKey(r) \in StoreKeys
         /\ LockOf(r) \in LockIds
BY ServiceAssumption, NilAssumption DEF LockIds

(* A log that grows by a request is a log, and the rest stays.             *)
LEMMA AppendLog ==
  ASSUME NEW log \in Seq(Requests), NEW r \in Requests
  PROVE  /\ Append(log, r) \in Seq(Requests) /\ Append(log, r) # Nil
         /\ Append(log, r) # <<>>
         /\ Len(Append(log, r)) = Len(log) + 1 /\ Len(log) \in Nat
         /\ Append(log, r)[Len(log) + 1] = r
         /\ \A i \in 1 .. Len(log) : Append(log, r)[i] = log[i]
         /\ DOMAIN log = 1 .. Len(log)
BY AppendProperties, LenProperties, NilAssumption

LEMMA OneRequest ==
  ASSUME NEW r \in Requests
  PROVE  /\ <<r>> \in Seq(Requests) /\ <<r>> # Nil /\ <<r>> # <<>>
         /\ Len(<<r>>) = 1 /\ <<r>>[1] = r
<1>1. <<r>> \in Seq(Requests) /\ Len(<<r>>) = 1 /\ <<r>>[1] = r
  OBVIOUS
<1>2. <<r>> # <<>>
  BY <1>1, EmptySeq
<1> QED
  BY <1>1, <1>2, NilAssumption

(* A log that is not empty has a first and a last request. *)
LEMMA LastOfLog ==
  ASSUME NEW log \in Seq(Requests), log # <<>>
  PROVE  /\ Len(log) \in Nat \ {0} /\ DOMAIN log = 1 .. Len(log)
         /\ log[Len(log)] \in Requests /\ log[1] \in Requests
<1>1. Len(log) \in Nat \ {0}
  BY EmptySeq
<1>2. DOMAIN log = 1 .. Len(log) /\ \A i \in 1 .. Len(log) : log[i] \in Requests
  BY LenProperties, ElementOfSeq
<1> QED
  BY <1>1, <1>2

(* The identity of a case is made of what its requests state. *)
LEMMA FingerprintType ==
  ASSUME NEW r \in Requests, NEW log \in Seq(Requests)
  PROVE  Fingerprint(r, log) \in Fingerprints
<1>1. \A i \in DOMAIN log : log[i] \in Requests
  BY LenProperties, ElementOfSeq
<1>2. Identity(log) \in SUBSET UNION {q.identity : q \in Requests}
  BY <1>1 DEF Identity
<1> QED
  BY <1>2 DEF Fingerprint, Fingerprints

LEMMA IdentityOfOne ==
  ASSUME NEW log \in Seq(Requests), Len(log) = 1
  PROVE  Identity(log) = log[1].identity
<1>1. DOMAIN log = {1}
  BY LenProperties
<1>2. {i \in DOMAIN log : \A j \in DOMAIN log : j > i => log[j].identity = {}} = {1}
  BY <1>1
<1>3. {log[i].identity : i \in {1}} = {log[1].identity}
  OBVIOUS
<1> QED
  BY <1>2, <1>3 DEF Identity

-----------------------------------------------------------------------------
(* The steps of one handler leave the others alone: where they are, what   *)
(* they hold.                                                              *)
HandlerStep(h) == Step(h) \/ \E r \in Requests : Receive(h, r)

LEMMA OthersUnmoved ==
  ASSUME TypeOK, NEW h \in Handlers, HandlerStep(h),
         NEW g \in Handlers, g # h
  PROVE  /\ pc'[g] = pc[g] /\ req'[g] = req[g] /\ work'[g] = work[g]
         /\ \A l \in LockIds : locks[l] = g => locks'[l] = g
         /\ mu' = g <=> mu = g
<1> USE NilAssumption DEF TypeOK, goto, Answer, Release
<1>1. ASSUME NEW r \in Requests, Receive(h, r)
      PROVE  /\ pc'[g] = pc[g] /\ req'[g] = req[g] /\ work'[g] = work[g]
             /\ \A l \in LockIds : locks[l] = g => locks'[l] = g
             /\ mu' = g <=> mu = g
  BY <1>1 DEF Receive, storeVars
<1>2. CASE Lookup(h)
  BY <1>2 DEF Lookup, storeVars
<1>3. CASE Acquire(h)
  BY <1>3 DEF Acquire, storeVars
<1>4. CASE Replay(h)
  BY <1>4 DEF Replay, storeVars
<1>5. CASE Load(h)
  BY <1>5 DEF Load, storeVars
<1>6. CASE NewCase(h)
  BY <1>6 DEF NewCase, storeVars
<1>7. CASE SaveCase(h)
  BY <1>7 DEF SaveCase, SaveSnapshot, SaveSnapshotFails
<1>8. CASE SaveResult(h)
  BY <1>8 DEF SaveResult, Remember, RememberUnwritten
<1>9. CASE SaveResultFile(h)
  BY <1>9 DEF SaveResultFile, WriteIdempotency
<1>10. CASE SaveAudit(h)
  BY <1>10 DEF SaveAudit, appendAudit, appendAuditFails
<1> QED
  BY <1>1, <1>2, <1>3, <1>4, <1>5, <1>6, <1>7, <1>8, <1>9, <1>10
  DEF HandlerStep, Step

-----------------------------------------------------------------------------
(* The types. *)

HandlersInv ==
  /\ TypeOK
  /\ \A h \in Handlers : OnItsPath(h) /\ HoldsItsLocks(h) /\ WorksOnTheCase(h)

(* A handler that is not idle has a request, one that saves has its work.  *)
LEMMA AtWork ==
  ASSUME HandlersInv, NEW h \in Handlers
  PROVE  /\ pc[h] # "idle" => req[h] \in Requests
         /\ Saving(h) => /\ work[h] \in Work /\ work[h].case \in Cases
                         /\ work[h].log \in Seq(Requests) /\ work[h].log # Nil
         /\ Writing(h) => /\ work[h].log # <<>>
                          /\ snapshot[work[h].case] = work[h].log
         /\ mu # Nil => \E g \in Handlers : Writing(g)
BY NilAssumption DEF HandlersInv, TypeOK, OnItsPath, HoldsItsLocks, WorksOnTheCase, Saving, Writing, Work

LEMMA AnswerType ==
  ASSUME TypeOK, NEW h \in Handlers, req[h] \in Requests,
         NEW log \in Seq(Requests) \cup {Nil},
         NEW result \in {"ok", "notFound", "versionConflict", "idempotencyConflict",
                         "refused", "ioError"},
         Answer(h, result, log)
  PROVE  /\ answers' \in SUBSET Answers
         /\ locks' \in [LockIds -> Handlers \cup {Nil}]
         /\ pc'[h] = "idle" /\ req'[h] = Nil /\ work'[h] = Nil
         /\ pc' = [pc EXCEPT ![h] = "idle"]
         /\ req' = [req EXCEPT ![h] = Nil]
         /\ work' = [work EXCEPT ![h] = Nil]
         /\ UNCHANGED <<running, sends, ends, forgot>>
<1>1. Applied(req[h]) \in BOOLEAN
  BY DEF Applied
<1>2. [request |-> req[h], result |-> result, log |-> log,
       applied |-> Applied(req[h]), forgot |-> forgot] \in Answers
  BY <1>1 DEF Answers, TypeOK
<1>3. answers' \in SUBSET Answers
  BY <1>2 DEF Answer, TypeOK
<1>4. locks' \in [LockIds -> Handlers \cup {Nil}]
  BY DEF Answer, Release, TypeOK
<1> QED
  BY <1>3, <1>4 DEF Answer, TypeOK

LEMMA AnswerKeepsTypes ==
  ASSUME TypeOK, NEW h \in Handlers, req[h] \in Requests,
         NEW log \in Seq(Requests) \cup {Nil},
         NEW result \in {"ok", "notFound", "versionConflict", "idempotencyConflict",
                         "refused", "ioError"},
         Answer(h, result, log), UNCHANGED <<snapshot, idemFile, idem>>,
         audit' \in [Cases -> Seq(Nat)], mu' \in Handlers \cup {Nil}, faults' \in Nat
  PROVE  TypeOK'
BY AnswerType DEF TypeOK

LEMMA HandlerTypes ==
  ASSUME HandlersInv, NEW h \in Handlers, HandlerStep(h)
  PROVE  TypeOK'
<1> USE DEF goto
<1>1. TypeOK
  BY DEF HandlersInv
<1>2. ASSUME NEW r \in Requests, Receive(h, r)
      PROVE  TypeOK'
  <2>1. sends' \in Nat
    BY <1>1, <1>2 DEF Receive, TypeOK
  <2>2. pc' \in [Handlers -> {"idle", "lookup", "lock", "replay", "load", "new", "save",
                               "remember", "writeIdempotency", "audit"}]
    BY <1>1, <1>2 DEF Receive, TypeOK
  <2> QED
    BY <1>1, <1>2, <2>1, <2>2 DEF Receive, TypeOK, storeVars
<1>3. CASE Lookup(h)
  <2>1. req[h] \in Requests /\ Keyed(req[h])
    BY <1>3, AtWork DEF Lookup, HandlersInv, OnItsPath
  <2>2. idem[StoreKey(req[h])] \in Entries \cup {Nil}
    BY <1>1, <2>1, RequestFacts DEF TypeOK
  <2>3. CASE idem[StoreKey(req[h])] # Nil
    <3>1. Answer(h, "ok", idem[StoreKey(req[h])].log) /\ UNCHANGED storeVars
      BY <1>3, <2>3 DEF Lookup
    <3>2. idem[StoreKey(req[h])].log \in Seq(Requests) \cup {Nil}
      BY <2>2, <2>3 DEF Entries
    <3> QED
      BY <1>1, <2>1, <3>1, <3>2, AnswerKeepsTypes DEF TypeOK, storeVars
  <2>4. CASE idem[StoreKey(req[h])] = Nil
    BY <1>1, <1>3, <2>4 DEF Lookup, TypeOK, storeVars
  <2> QED
    BY <2>3, <2>4
<1>4. CASE Acquire(h)
  <2>1. req[h] \in Requests
    BY <1>4, AtWork DEF Acquire
  <2>2. locks' \in [LockIds -> Handlers \cup {Nil}]
    BY <1>1, <1>4 DEF Acquire, TypeOK
  <2> QED
    BY <1>1, <1>4, <2>2 DEF Acquire, TypeOK, storeVars
<1>5. CASE Replay(h)
  <2> DEFINE found == idem[StoreKey(req[h])]
  <2>1. req[h] \in Requests /\ Keyed(req[h])
    BY <1>5, AtWork DEF Replay, HandlersInv, OnItsPath
  <2>2. found \in Entries \cup {Nil}
    BY <1>1, <2>1, RequestFacts DEF TypeOK
  <2>3. CASE found = Nil
    BY <1>1, <1>5, <2>3 DEF Replay, TypeOK, storeVars
  <2>4. CASE found # Nil
    <3>1. /\ Answer(h, "idempotencyConflict", Nil) \/ Answer(h, "ok", found.log)
          /\ UNCHANGED storeVars
      BY <1>5, <2>4 DEF Replay
    <3>2. found.log \in Seq(Requests) \cup {Nil}
      BY <2>2, <2>4 DEF Entries
    <3> QED
      BY <1>1, <2>1, <3>1, <3>2, AnswerKeepsTypes DEF TypeOK, storeVars
  <2> QED
    BY <2>3, <2>4
<1>6. CASE Load(h)
  <2> DEFINE r == req[h]
             log == snapshot[r.case]
             item == [case |-> r.case, log |-> Append(log, r)]
  <2>1. r \in Requests /\ r.case \in Cases
    BY <1>6, AtWork, RequestFacts DEF Load, HandlersInv, OnItsPath
  <2>2. ASSUME NEW result \in {"notFound", "versionConflict", "refused"},
               Answer(h, result, Nil)
        PROVE  TypeOK'
    <3>1. UNCHANGED storeVars
      BY <1>6 DEF Load
    <3> QED
      BY <1>1, <2>1, <2>2, <3>1, AnswerKeepsTypes DEF TypeOK, storeVars
  <2>3. CASE /\ log # Nil
             /\ work' = [work EXCEPT ![h] = item] /\ pc' = [pc EXCEPT ![h] = "save"]
             /\ UNCHANGED <<running, locks, req, sends, ends, forgot, answers>>
    <3>1. log \in Seq(Requests)
      BY <1>1, <2>1, <2>3 DEF TypeOK
    <3>2. item \in Work
      BY <2>1, <3>1, AppendLog DEF Work
    <3>3. work' \in [Handlers -> Work \cup {Nil}]
      BY <1>1, <2>3, <3>2 DEF TypeOK
    <3> QED
      BY <1>1, <1>6, <2>3, <3>3 DEF Load, TypeOK, storeVars
  <2> QED
    BY <1>6, <2>2, <2>3 DEF Load
<1>7. CASE NewCase(h)
  <2>1. req[h] \in Requests
    BY <1>7, AtWork DEF NewCase
  <2>2. CASE Answer(h, "refused", Nil)
    <3>1. UNCHANGED storeVars
      BY <1>7 DEF NewCase
    <3> QED
      BY <1>1, <2>1, <2>2, <3>1, AnswerKeepsTypes DEF TypeOK, storeVars
  <2>3. ASSUME NEW c \in Cases,
               work' = [work EXCEPT ![h] = [case |-> c, log |-> <<req[h]>>]],
               pc' = [pc EXCEPT ![h] = "save"],
               UNCHANGED <<running, locks, req, sends, ends, forgot, answers>>
        PROVE  TypeOK'
    <3>1. [case |-> c, log |-> <<req[h]>>] \in Work
      BY <2>1, OneRequest DEF Work
    <3>2. work' \in [Handlers -> Work \cup {Nil}]
      BY <1>1, <2>3, <3>1 DEF TypeOK
    <3> QED
      BY <1>1, <1>7, <2>3, <3>2 DEF NewCase, TypeOK, storeVars
  <2> QED
    BY <1>7, <2>2, <2>3 DEF NewCase
<1>8. CASE SaveCase(h)
  <2>1. req[h] \in Requests /\ work[h].case \in Cases /\ work[h].log \in Seq(Requests)
    BY <1>8, AtWork DEF SaveCase, Saving
  <2>2. CASE /\ SaveSnapshot(h, work[h].case, work[h].log)
             /\ pc' = [pc EXCEPT ![h] = IF Keyed(req[h]) THEN "remember" ELSE "audit"]
             /\ UNCHANGED <<running, locks, req, work, sends, ends, forgot, answers>>
    <3>1. snapshot' \in [Cases -> Seq(Requests) \cup {Nil}]
      BY <1>1, <2>1, <2>2 DEF SaveSnapshot, TypeOK
    <3> QED
      BY <1>1, <2>2, <3>1 DEF SaveSnapshot, TypeOK
  <2>3. CASE SaveSnapshotFails /\ Answer(h, "ioError", Nil)
    <3>1. faults' \in Nat
      BY <1>1, <2>3 DEF SaveSnapshotFails, fault, TypeOK
    <3> QED
      BY <1>1, <2>1, <2>3, <3>1, AnswerKeepsTypes DEF SaveSnapshotFails, TypeOK
  <2> QED
    BY <1>8, <2>2, <2>3 DEF SaveCase
<1>9. CASE SaveResult(h)
  <2> DEFINE r == req[h]
             log == work[h].log
             entry == [log |-> log, fingerprint |-> Fingerprint(r, log)]
  <2>1. r \in Requests /\ Keyed(r) /\ log \in Seq(Requests) /\ log # <<>>
    BY <1>9, AtWork DEF SaveResult, Saving, Writing, HandlersInv, OnItsPath
  <2>2. entry \in Entries
    BY <2>1, FingerprintType DEF Entries
  <2>3. idem' = [idem EXCEPT ![StoreKey(r)] = entry]
    BY <1>9 DEF SaveResult, Remember, RememberUnwritten
  <2>4. idem' \in [StoreKeys -> Entries \cup {Nil}]
    <3> HIDE DEF entry
    <3> QED
      BY <1>1, <2>2, <2>3 DEF TypeOK
  <2>5. /\ UNCHANGED <<snapshot, audit, mu, running, locks, req, work, sends, ends,
                        forgot, answers>>
        /\ idemFile' \in {Torn, idemFile} /\ faults' \in Nat
        /\ \/ pc' = [pc EXCEPT ![h] = "writeIdempotency"]
           \/ pc' = [pc EXCEPT ![h] = "audit"]
    BY <1>1, <1>9 DEF SaveResult, Remember, RememberUnwritten, fault, TypeOK
  <2> QED
    BY <1>1, <2>4, <2>5 DEF TypeOK
<1>10. CASE SaveResultFile(h)
  BY <1>1, <1>10 DEF SaveResultFile, WriteIdempotency, fault, TypeOK
<1>11. CASE SaveAudit(h)
  <2>1. /\ req[h] \in Requests /\ work[h].case \in Cases /\ work[h].log \in Seq(Requests)
        /\ snapshot[work[h].case] = work[h].log
    BY <1>11, AtWork DEF SaveAudit, Saving, Writing
  <2>2. Len(snapshot[work[h].case]) \in Nat /\ TornLine \in Nat
    BY <2>1, LenProperties DEF TornLine
  <2>3. \A n \in Nat :
          [audit EXCEPT ![work[h].case] = Append(@, n)] \in [Cases -> Seq(Nat)]
    <3>1. audit[work[h].case] \in Seq(Nat)
      BY <1>1, <2>1 DEF TypeOK
    <3>2. \A n \in Nat : Append(audit[work[h].case], n) \in Seq(Nat)
      BY <3>1, AppendProperties
    <3> QED
      BY <1>1, <3>2 DEF TypeOK
  <2>4. CASE appendAudit(h, work[h].case) /\ Answer(h, "ok", work[h].log)
    <3>1. audit' \in [Cases -> Seq(Nat)]
      BY <2>2, <2>3, <2>4 DEF appendAudit
    <3> QED
      BY <1>1, <2>1, <2>4, <3>1, AnswerKeepsTypes DEF appendAudit, TypeOK
  <2>5. CASE appendAuditFails(h, work[h].case) /\ Answer(h, "ioError", Nil)
    <3>1. audit' \in [Cases -> Seq(Nat)]
      <4>1. CASE UNCHANGED audit
        BY <1>1, <4>1 DEF TypeOK
      <4>2. CASE audit' = [audit EXCEPT ![work[h].case] = Append(@, TornLine)]
        BY <2>2, <2>3, <4>2
      <4> QED
        BY <2>5, <4>1, <4>2 DEF appendAuditFails
    <3>2. faults' \in Nat
      BY <1>1, <2>5 DEF appendAuditFails, fault, TypeOK
    <3> QED
      BY <1>1, <2>1, <2>5, <3>1, <3>2, AnswerKeepsTypes DEF appendAuditFails, TypeOK
  <2> QED
    BY <1>11, <2>4, <2>5 DEF SaveAudit
<1> QED
  BY <1>2, <1>3, <1>4, <1>5, <1>6, <1>7, <1>8, <1>9, <1>10, <1>11 DEF HandlerStep, Step

-----------------------------------------------------------------------------
(* Locks, paths and copies. *)

(* Whoever is answered is idle, holds nothing and has nothing to save.     *)
LEMMA AnsweredIsIdle ==
  ASSUME TypeOK, NEW h \in Handlers, NEW result, NEW log,
         Answer(h, result, log), mu' # h
  PROVE  OnItsPath(h)' /\ HoldsItsLocks(h)' /\ WorksOnTheCase(h)'
<1>1. pc'[h] = "idle" /\ req'[h] = Nil /\ work'[h] = Nil
  BY DEF Answer, TypeOK
<1> QED
  BY <1>1 DEF OnItsPath, HoldsItsLocks, WorksOnTheCase, InLock, Saving, Writing

(* Each step takes its own handler along the path of its request.          *)
LEMMA OwnStep ==
  ASSUME HandlersInv, NEW h \in Handlers, HandlerStep(h)
  PROVE  OnItsPath(h)' /\ HoldsItsLocks(h)' /\ WorksOnTheCase(h)'
<1> USE DEF goto
<1> DEFINE r == req[h]
           Done == OnItsPath(h)' /\ HoldsItsLocks(h)' /\ WorksOnTheCase(h)'
<1>1. TypeOK /\ OnItsPath(h) /\ HoldsItsLocks(h) /\ WorksOnTheCase(h)
  BY DEF HandlersInv
<1>2. h # Nil /\ "idle" # "lookup"
  BY NilAssumption
<1>3. ASSUME NEW q \in Requests, Receive(h, q)
      PROVE  Done
  <2>1. q # Nil /\ q.op \in {"create", "batch", "mutate"}
    BY RequestFacts
  <2>2. /\ req'[h] = q /\ work'[h] = Nil /\ mu' = mu
        /\ pc'[h] = CASE q.op = "mutate" /\ Keyed(q) -> "lookup"
                      [] q.op = "create" /\ ~ Keyed(q) -> "new"
                      [] OTHER -> "lock"
    BY <1>1, <1>3 DEF Receive, TypeOK, storeVars, OnItsPath, Saving, Writing
  <2>3. mu # h
    BY <1>1, <1>3 DEF Receive, HoldsItsLocks, Writing
  <2> QED
    BY <2>1, <2>2, <2>3
    DEF OnItsPath, HoldsItsLocks, WorksOnTheCase, InLock, Saving, Writing, Keyed
<1>4. CASE Lookup(h)
  <2>1. mu' = Nil
    BY <1>4 DEF Lookup, CanRead, storeVars
  <2>2. CASE idem[StoreKey(r)] # Nil
    BY <1>1, <1>2, <1>4, <2>1, <2>2, AnsweredIsIdle DEF Lookup
  <2>3. CASE idem[StoreKey(r)] = Nil
    <3>1. /\ pc[h] = "lookup" /\ pc'[h] = "lock" /\ req'[h] = r /\ work'[h] = work[h]
          /\ locks' = locks
      BY <1>1, <1>4, <2>3 DEF Lookup, TypeOK
    <3> QED
      BY <1>1, <1>2, <2>1, <3>1
      DEF OnItsPath, HoldsItsLocks, WorksOnTheCase, InLock, Saving, Writing, Keyed
  <2> QED
    BY <2>2, <2>3
<1>5. CASE Acquire(h)
  <2>1. r \in Requests
    BY <1>5, AtWork DEF Acquire
  <2>2. LockOf(r) \in LockIds
    BY <2>1, RequestFacts
  <2>3. /\ pc[h] = "lock" /\ req'[h] = r /\ work'[h] = work[h] /\ mu' = mu
        /\ pc'[h] = IF Keyed(r) /\ r.op # "mutate" THEN "replay" ELSE "load"
        /\ locks'[LockOf(r)] = h
    BY <1>1, <1>5, <2>2 DEF Acquire, TypeOK, storeVars
  <2> QED
    BY <1>1, <2>1, <2>3
    DEF OnItsPath, HoldsItsLocks, WorksOnTheCase, InLock, Saving, Writing, Keyed, LockOf, StoreKey
<1>6. CASE Replay(h)
  <2>1. mu' = Nil
    BY <1>6 DEF Replay, CanRead, storeVars
  <2>2. CASE idem[StoreKey(r)] # Nil
    <3>1. \/ Answer(h, "idempotencyConflict", Nil)
          \/ Answer(h, "ok", idem[StoreKey(r)].log)
      BY <1>6, <2>2 DEF Replay
    <3> QED
      BY <1>1, <1>2, <2>1, <3>1, AnsweredIsIdle
  <2>3. CASE idem[StoreKey(r)] = Nil
    <3>1. /\ pc[h] = "replay" /\ pc'[h] = IF r.op = "create" THEN "new" ELSE "load"
          /\ req'[h] = r /\ work'[h] = work[h] /\ locks' = locks
      BY <1>1, <1>6, <2>3 DEF Replay, TypeOK
    <3> QED
      BY <1>1, <1>2, <2>1, <3>1
      DEF OnItsPath, HoldsItsLocks, WorksOnTheCase, InLock, Saving, Writing, Keyed, LockOf, StoreKey
  <2> QED
    BY <2>2, <2>3
<1>7. CASE Load(h)
  <2> DEFINE log == snapshot[r.case]
             item == [case |-> r.case, log |-> Append(log, r)]
  <2>1. mu' = Nil
    BY <1>7 DEF Load, CanRead, storeVars
  <2>2. ASSUME NEW result, Answer(h, result, Nil)
        PROVE  Done
    BY <1>1, <1>2, <2>1, <2>2, AnsweredIsIdle
  <2>3. CASE /\ log # Nil /\ AtExpectedVersion(r, log)
             /\ work' = [work EXCEPT ![h] = item] /\ pc' = [pc EXCEPT ![h] = "save"]
             /\ UNCHANGED <<running, locks, req, sends, ends, forgot, answers>>
    <3>1. /\ pc[h] = "load" /\ pc'[h] = "save" /\ work'[h] = item /\ req'[h] = r
          /\ locks' = locks /\ snapshot' = snapshot
      BY <1>1, <1>7, <2>3 DEF Load, TypeOK, storeVars
    <3>2. r \in Requests /\ r.op # "create"
      BY <1>1, <3>1, AtWork DEF OnItsPath
    <3>3. log \in Seq(Requests) /\ r.case \in Cases
      BY <1>1, <2>3, <3>2, RequestFacts DEF TypeOK
    <3>4. item # Nil
      BY <3>2, <3>3, AppendLog, NilAssumption DEF Work
    <3>5. OnItsPath(h)'
      BY <1>1, <3>1, <3>2, <3>4 DEF OnItsPath, Saving, Writing
    <3>6. HoldsItsLocks(h)'
      BY <1>1, <1>2, <2>1, <3>1, <3>2 DEF HoldsItsLocks, InLock, Saving, Writing
    <3>7. WorksOnTheCase(h)'
      <4>1. item.case = r.case /\ item.log = Append(log, r)
        OBVIOUS
      <4>2. r.expected = Len(log)
        BY <2>3 DEF AtExpectedVersion
      <4> HIDE DEF item
      <4> QED
        BY <2>3, <3>1, <3>2, <4>1, <4>2 DEF WorksOnTheCase, Writing
    <3> QED
      BY <3>5, <3>6, <3>7
  <2> QED
    BY <1>7, <2>2, <2>3 DEF Load
<1>8. CASE NewCase(h)
  <2>1. mu' = mu /\ mu # h /\ pc[h] = "new"
    BY <1>1, <1>8 DEF NewCase, storeVars, HoldsItsLocks, Writing
  <2>2. CASE Answer(h, "refused", Nil)
    BY <1>1, <2>1, <2>2, AnsweredIsIdle
  <2>3. ASSUME NEW c \in Cases, snapshot[c] = Nil,
               work' = [work EXCEPT ![h] = [case |-> c, log |-> <<req[h]>>]],
               pc' = [pc EXCEPT ![h] = "save"],
               UNCHANGED <<running, locks, req, sends, ends, forgot, answers>>
        PROVE  Done
    <3> DEFINE item == [case |-> c, log |-> <<r>>]
    <3>1. r \in Requests /\ r.op = "create"
      BY <1>1, <2>1, AtWork DEF OnItsPath
    <3>2. item # Nil /\ item.case = c /\ item.log = <<r>>
      <4>1. item \in Work
        BY <3>1, OneRequest DEF Work
      <4> QED
        BY <4>1, NilAssumption
    <3>3. /\ pc'[h] = "save" /\ work'[h] = item /\ req'[h] = r
          /\ locks' = locks /\ snapshot' = snapshot
      BY <1>1, <1>8, <2>3 DEF NewCase, TypeOK, storeVars
    <3> HIDE DEF item
    <3> QED
      BY <1>1, <2>1, <2>3, <3>1, <3>2, <3>3
      DEF OnItsPath, HoldsItsLocks, WorksOnTheCase, InLock, Saving, Writing
  <2> QED
    BY <1>8, <2>2, <2>3 DEF NewCase
<1>9. CASE SaveCase(h)
  <2>1. /\ pc[h] = "save" /\ r \in Requests /\ work[h].case \in Cases
        /\ work[h].log \in Seq(Requests)
    BY <1>9, AtWork DEF SaveCase, Saving
  <2>2. CASE /\ SaveSnapshot(h, work[h].case, work[h].log)
             /\ pc' = [pc EXCEPT ![h] = IF Keyed(r) THEN "remember" ELSE "audit"]
             /\ UNCHANGED <<running, locks, req, work, sends, ends, forgot, answers>>
    <3>1. /\ pc'[h] = IF Keyed(r) THEN "remember" ELSE "audit"
          /\ mu' = h /\ req' = req /\ work' = work /\ locks' = locks
          /\ snapshot'[work[h].case] = work[h].log
      BY <1>1, <2>1, <2>2 DEF SaveSnapshot, TypeOK
    <3>2. /\ work[h].log # <<>> /\ work[h].log[Len(work[h].log)] = r
          /\ r.op # "create" => r.case = work[h].case
      <4>1. CASE r.op = "create"
        BY <1>1, <2>1, <4>1, OneRequest DEF WorksOnTheCase
      <4>2. CASE r.op # "create"
        <5>1. /\ r.case = work[h].case /\ snapshot[r.case] # Nil
              /\ work[h].log = Append(snapshot[r.case], r)
          BY <1>1, <2>1, <4>2 DEF WorksOnTheCase
        <5>2. snapshot[r.case] \in Seq(Requests)
          BY <1>1, <2>1, <5>1 DEF TypeOK
        <5> QED
          BY <2>1, <5>1, <5>2, AppendLog
      <4> QED
        BY <4>1, <4>2
    <3>3. OnItsPath(h)'
      BY <1>1, <2>1, <3>1 DEF OnItsPath, Saving, Writing
    <3>4. HoldsItsLocks(h)'
      BY <1>1, <2>1, <3>1 DEF HoldsItsLocks, InLock, Saving, Writing
    <3>5. WorksOnTheCase(h)'
      BY <3>1, <3>2 DEF WorksOnTheCase, Writing
    <3> QED
      BY <3>3, <3>4, <3>5
  <2>3. CASE SaveSnapshotFails /\ Answer(h, "ioError", Nil)
    BY <1>1, <1>2, <2>3, AnsweredIsIdle DEF SaveSnapshotFails
  <2> QED
    BY <1>9, <2>2, <2>3 DEF SaveCase
<1>10. CASE SaveResult(h) \/ SaveResultFile(h)
  <2>1. /\ pc[h] \in {"remember", "writeIdempotency"}
        /\ pc'[h] \in {"writeIdempotency", "audit"}
        /\ req' = req /\ work' = work /\ locks' = locks /\ mu' = mu /\ snapshot' = snapshot
    BY <1>1, <1>10 DEF SaveResult, SaveResultFile, Remember, RememberUnwritten,
      WriteIdempotency, TypeOK
  <2>2. OnItsPath(h)'
    BY <1>1, <2>1 DEF OnItsPath, Saving, Writing
  <2>3. HoldsItsLocks(h)'
    BY <1>1, <2>1 DEF HoldsItsLocks, InLock, Saving, Writing
  <2>4. WorksOnTheCase(h)'
    BY <1>1, <2>1 DEF WorksOnTheCase, Writing
  <2> QED
    BY <2>2, <2>3, <2>4
<1>11. CASE SaveAudit(h)
  <2>1. mu' = Nil
    BY <1>11 DEF SaveAudit, appendAudit, appendAuditFails
  <2>2. Answer(h, "ok", work[h].log) \/ Answer(h, "ioError", Nil)
    BY <1>11 DEF SaveAudit
  <2> QED
    BY <1>1, <1>2, <2>1, <2>2, AnsweredIsIdle
<1> QED
  BY <1>3, <1>4, <1>5, <1>6, <1>7, <1>8, <1>9, <1>10, <1>11 DEF HandlerStep, Step

-----------------------------------------------------------------------------
(* No update is lost. *)

(* The one step that writes to a case.                                     *)
Stores(h) ==
  /\ pc[h] = "save" /\ SaveSnapshot(h, work[h].case, work[h].log)
  /\ pc' = [pc EXCEPT ![h] = IF Keyed(req[h]) THEN "remember" ELSE "audit"]
  /\ UNCHANGED <<running, locks, req, work, sends, ends, forgot, answers>>

LEMMA OnlyStoresWrites ==
  ASSUME NEW h \in Handlers, HandlerStep(h)
  PROVE  /\ UNCHANGED snapshot \/ Stores(h)
         /\ UNCHANGED <<running, ends, forgot>>
<1> USE DEF goto, Answer, Release
<1>1. ASSUME NEW r \in Requests, Receive(h, r)
      PROVE  UNCHANGED <<snapshot, running, ends, forgot>>
  BY <1>1 DEF Receive, storeVars
<1>2. CASE Lookup(h)
  BY <1>2 DEF Lookup, storeVars
<1>3. CASE Acquire(h)
  BY <1>3 DEF Acquire, storeVars
<1>4. CASE Replay(h)
  BY <1>4 DEF Replay, storeVars
<1>5. CASE Load(h)
  BY <1>5 DEF Load, storeVars
<1>6. CASE NewCase(h)
  BY <1>6 DEF NewCase, storeVars
<1>7. CASE SaveCase(h)
  BY <1>7 DEF SaveCase, SaveSnapshotFails, Stores
<1>8. CASE SaveResult(h)
  BY <1>8 DEF SaveResult, Remember, RememberUnwritten
<1>9. CASE SaveResultFile(h)
  BY <1>9 DEF SaveResultFile, WriteIdempotency
<1>10. CASE SaveAudit(h)
  BY <1>10 DEF SaveAudit, appendAudit, appendAuditFails
<1> QED
  BY <1>1, <1>2, <1>3, <1>4, <1>5, <1>6, <1>7, <1>8, <1>9, <1>10
  DEF HandlerStep, Step

(* What is stored is the case with the request at the version it expects,  *)
(* or a new case.                                                          *)
LEMMA StoredLog ==
  ASSUME ConcurrencyInv, NEW h \in Handlers, Stores(h)
  PROVE  LET r == req[h]
             c == work[h].case
             log == work[h].log
         IN  /\ r \in Requests /\ c \in Cases /\ log \in Seq(Requests)
             /\ log # Nil /\ log # <<>>
             /\ snapshot' = [snapshot EXCEPT ![c] = log] /\ mu = Nil
             /\ \/ /\ r.op = "create" /\ snapshot[c] = Nil /\ log = <<r>>
                \/ /\ r.op # "create" /\ r.case = c /\ snapshot[c] \in Seq(Requests)
                   /\ snapshot[c] # Nil /\ r.expected = Len(snapshot[c])
                   /\ log = Append(snapshot[c], r)
<1> DEFINE r == req[h]
           c == work[h].case
           log == work[h].log
<1>1. HandlersInv
  BY DEF ConcurrencyInv, HandlersInv
<1>2. pc[h] = "save" /\ SaveSnapshot(h, c, log)
  BY DEF Stores
<1>3. r \in Requests /\ c \in Cases /\ log \in Seq(Requests) /\ log # Nil
  BY <1>1, <1>2, AtWork DEF Saving
<1>4. IF r.op = "create" THEN snapshot[c] = Nil /\ log = <<r>>
      ELSE /\ r.case = c /\ snapshot[c] # Nil
           /\ r.expected = Len(snapshot[c]) /\ log = Append(snapshot[c], r)
  BY <1>1, <1>2 DEF HandlersInv, WorksOnTheCase
<1>5. snapshot[c] \in Seq(Requests) \cup {Nil}
  BY <1>1, <1>3 DEF HandlersInv, TypeOK
<1>6. log # <<>>
  BY <1>3, <1>4, <1>5, OneRequest, AppendLog
<1>7. snapshot' = [snapshot EXCEPT ![c] = log] /\ mu = Nil
  BY <1>2 DEF SaveSnapshot
<1> QED
  BY <1>3, <1>4, <1>5, <1>6, <1>7

LEMMA LogsStaySound ==
  ASSUME ConcurrencyInv, NEW h \in Handlers, Stores(h)
  PROVE  AppliedAtExpectedVersion' /\ \A c \in Cases : snapshot'[c] # <<>>
<1> DEFINE r == req[h]
           c == work[h].case
           log == work[h].log
<1>1. /\ r \in Requests /\ c \in Cases /\ log \in Seq(Requests)
      /\ log # Nil /\ log # <<>>
      /\ snapshot' = [snapshot EXCEPT ![c] = log]
      /\ \/ /\ r.op = "create" /\ log = <<r>>
         \/ /\ r.op # "create" /\ r.case = c /\ snapshot[c] \in Seq(Requests)
            /\ snapshot[c] # Nil /\ r.expected = Len(snapshot[c])
            /\ log = Append(snapshot[c], r)
  BY StoredLog
<1>2. snapshot'[c] = log /\ \A d \in Cases \ {c} : snapshot'[d] = snapshot[d]
  BY <1>1 DEF ConcurrencyInv, TypeOK
<1>3. log[1].op = "create" /\ \A i \in 2 .. Len(log) : log[i].case = c /\ log[i].expected = i - 1
  <2>1. CASE log = <<r>> /\ r.op = "create"
    BY <1>1, <2>1, OneRequest
  <2>2. CASE /\ r.case = c /\ snapshot[c] \in Seq(Requests)
             /\ snapshot[c] # Nil /\ r.expected = Len(snapshot[c])
             /\ log = Append(snapshot[c], r)
    <3>1. snapshot[c] # <<>>
      BY <1>1 DEF ConcurrencyInv
    <3>2. Len(snapshot[c]) \in Nat \ {0}
      BY <2>2, <3>1, LastOfLog
    <3>3. /\ snapshot[c][1].op = "create"
          /\ \A i \in 2 .. Len(snapshot[c]) :
               snapshot[c][i].case = c /\ snapshot[c][i].expected = i - 1
      BY <1>1, <2>2 DEF ConcurrencyInv, AppliedAtExpectedVersion
    <3>4. /\ Len(log) = Len(snapshot[c]) + 1 /\ log[Len(snapshot[c]) + 1] = r
          /\ \A i \in 1 .. Len(snapshot[c]) : log[i] = snapshot[c][i]
      BY <1>1, <2>2, AppendLog
    <3> HIDE DEF log, c, r
    <3>5. log[1].op = "create"
      BY <3>2, <3>3, <3>4
    <3>6. ASSUME NEW i \in 2 .. Len(log)
          PROVE  log[i].case = c /\ log[i].expected = i - 1
      <4>1. CASE i = Len(snapshot[c]) + 1
        BY <2>2, <3>2, <3>4, <4>1
      <4>2. CASE i \in 2 .. Len(snapshot[c])
        BY <3>2, <3>3, <3>4, <4>2
      <4> QED
        BY <3>2, <3>4, <3>6, <4>1, <4>2
    <3> QED
      BY <3>5, <3>6
  <2> QED
    BY <1>1, <2>1, <2>2
<1> HIDE DEF c, log, r
<1>4. AppliedAtExpectedVersion'
  BY <1>2, <1>3 DEF ConcurrencyInv, AppliedAtExpectedVersion
<1>5. \A d \in Cases : snapshot'[d] # <<>>
  BY <1>1, <1>2 DEF ConcurrencyInv
<1> QED
  BY <1>4, <1>5

(* Two handlers never have the same case to save: the mutex of the case    *)
(* keeps mutations apart, and a creation takes an identifier of its own.   *)
LEMMA WorkStaysApart ==
  ASSUME ConcurrencyInv, NEW h \in Handlers, HandlerStep(h),
         Saving(h)', NEW g \in Handlers, g # h, Saving(g)
  PROVE  work'[h].case # work[g].case
<1> USE DEF goto
<1>1. /\ HandlersInv /\ TypeOK
      /\ OnItsPath(g) /\ HoldsItsLocks(g) /\ WorksOnTheCase(g)
      /\ OnItsPath(h) /\ HoldsItsLocks(h)
  BY DEF ConcurrencyInv, HandlersInv
<1>2. CASE Saving(h)
  <2>1. work'[h] = work[h]
    <3>2. pc'[h] # "idle"
      BY DEF Saving, Writing
    <3> QED
      BY <1>1, <1>2, <3>2 DEF HandlerStep, Step, Receive, Lookup, Acquire, Replay, Load,
        NewCase, SaveCase, SaveResult, SaveResultFile, SaveAudit, Answer, TypeOK, Saving, Writing
  <2> QED
    BY <1>2, <2>1 DEF ConcurrencyInv
<1>3. CASE ~ Saving(h)
  <2>1. /\ pc'[h] # "idle"
        /\ \/ Load(h) /\ work' = [work EXCEPT ![h] =
                        [case |-> req[h].case, log |-> Append(snapshot[req[h].case], req[h])]]
              /\ snapshot[req[h].case] # Nil
           \/ \E c \in Cases :
                /\ work' = [work EXCEPT ![h] = [case |-> c, log |-> <<req[h]>>]]
                /\ \A k \in Handlers : work[k] # Nil => work[k].case # c
    BY <1>1, <1>3 DEF HandlerStep, Step, Receive, Lookup, Acquire, Replay, Load,
        NewCase, SaveCase, SaveResult, SaveResultFile, SaveAudit, Answer, TypeOK, Saving, Writing
  <2>2. CASE \E c \in Cases :
                /\ work' = [work EXCEPT ![h] = [case |-> c, log |-> <<req[h]>>]]
                /\ \A k \in Handlers : work[k] # Nil => work[k].case # c
    BY <1>1, <2>2 DEF OnItsPath, TypeOK
  <2>3. CASE /\ Load(h) /\ snapshot[req[h].case] # Nil
             /\ work' = [work EXCEPT ![h] =
                  [case |-> req[h].case, log |-> Append(snapshot[req[h].case], req[h])]]
    <3>1. pc[h] = "load" /\ mu = Nil /\ work'[h].case = req[h].case
      BY <1>1, <2>3 DEF Load, CanRead, TypeOK
    <3>2. req[h] \in Requests /\ req[h].op # "create"
      BY <1>1, <3>1, AtWork DEF OnItsPath
    <3>3. pc[g] = "save"
      BY <1>1, <3>1, NilAssumption DEF HoldsItsLocks, Saving
    <3>4. ASSUME work[g].case = req[h].case
          PROVE  FALSE
      <4>1. req[g].op # "create" /\ req[g].case = req[h].case
        BY <1>1, <2>3, <3>3, <3>4 DEF WorksOnTheCase
      <4>2. LockOf(req[g]) = LockOf(req[h])
        BY <3>2, <4>1 DEF LockOf
      <4>3. locks[LockOf(req[g])] = g /\ locks[LockOf(req[h])] = h
        BY <1>1, <3>1, <3>3, <4>1 DEF HoldsItsLocks, InLock, Saving
      <4> QED
        BY <4>2, <4>3
    <3> QED
      BY <3>1, <3>4
  <2> QED
    BY <2>1, <2>2, <2>3
<1> QED
  BY <1>2, <1>3

(* A handler that does not move is where it was, however another one moves.*)
LEMMA OthersStep ==
  ASSUME ConcurrencyInv, NEW h \in Handlers, HandlerStep(h),
         NEW g \in Handlers, g # h
  PROVE  OnItsPath(g)' /\ HoldsItsLocks(g)' /\ WorksOnTheCase(g)'
<1>1. /\ HandlersInv /\ TypeOK
      /\ OnItsPath(g) /\ HoldsItsLocks(g) /\ WorksOnTheCase(g)
  BY DEF ConcurrencyInv, HandlersInv
<1>2. /\ pc'[g] = pc[g] /\ req'[g] = req[g] /\ work'[g] = work[g]
      /\ \A l \in LockIds : locks[l] = g => locks'[l] = g
      /\ mu' = g <=> mu = g
  BY <1>1, OthersUnmoved
<1>3. OnItsPath(g)'
  BY <1>1, <1>2 DEF OnItsPath, Saving, Writing
<1>4. HoldsItsLocks(g)'
  <2>1. InLock(g) => req[g] \in Requests
    BY <1>1, AtWork DEF InLock, Saving, Writing
  <2>2. InLock(g) => LockOf(req[g]) \in LockIds
    BY <2>1, RequestFacts
  <2> QED
    BY <1>1, <1>2, <2>2 DEF HoldsItsLocks, InLock, Saving, Writing
<1>5. WorksOnTheCase(g)'
  <2>1. CASE UNCHANGED snapshot
    BY <1>1, <1>2, <2>1 DEF WorksOnTheCase, Writing
  <2>2. CASE Stores(h)
    <3>1. /\ pc[h] = "save" /\ mu = Nil /\ work[h].case \in Cases
          /\ snapshot' = [snapshot EXCEPT ![work[h].case] = work[h].log]
      BY <2>2, StoredLog DEF Stores
    <3>2. ~ Writing(g)
      BY <1>1, <3>1, NilAssumption DEF HoldsItsLocks
    <3>3. ASSUME pc[g] = "save"
          PROVE  snapshot'[work[g].case] = snapshot[work[g].case]
      <4>1. work[g].case # work[h].case
        BY <3>1, <3>3 DEF ConcurrencyInv, Saving
      <4>2. work[g].case \in Cases
        BY <1>1, <3>3, AtWork DEF Saving
      <4> QED
        BY <1>1, <3>1, <4>1, <4>2 DEF TypeOK
    <3> QED
      BY <1>1, <1>2, <3>2, <3>3 DEF WorksOnTheCase, Writing
  <2> QED
    BY <2>1, <2>2, OnlyStoresWrites
<1> QED
  BY <1>3, <1>4, <1>5

LEMMA HandlerConcurrency ==
  ASSUME ConcurrencyInv, NEW h \in Handlers, HandlerStep(h)
  PROVE  ConcurrencyInv'
<1>1. HandlersInv /\ TypeOK
  BY DEF ConcurrencyInv, HandlersInv
<1>2. TypeOK'
  BY <1>1, HandlerTypes
<1>3. AppliedAtExpectedVersion' /\ \A c \in Cases : snapshot'[c] # <<>>
  <2>1. CASE UNCHANGED snapshot
    BY <2>1 DEF ConcurrencyInv, AppliedAtExpectedVersion
  <2>2. CASE Stores(h)
    BY <2>2, LogsStaySound
  <2> QED
    BY <2>1, <2>2, OnlyStoresWrites
<1>4. \A g \in Handlers : OnItsPath(g)' /\ HoldsItsLocks(g)' /\ WorksOnTheCase(g)'
  BY <1>1, OwnStep, OthersStep
<1>5. ASSUME NEW g \in Handlers, NEW k \in Handlers, g # k, Saving(g)', Saving(k)'
      PROVE  work'[g].case # work'[k].case
  <2>1. \A x \in Handlers \ {h} :
          /\ work'[x] = work[x]
          /\ Saving(x)' <=> Saving(x)
    BY <1>1, OthersUnmoved DEF Saving, Writing
  <2>2. CASE g # h /\ k # h
    BY <1>5, <2>1, <2>2 DEF ConcurrencyInv
  <2>3. CASE g = h
    <3>1. work'[h].case # work[k].case
      BY <1>5, <2>1, <2>3, WorkStaysApart
    <3> QED
      BY <1>5, <2>1, <2>3, <3>1
  <2>4. CASE k = h
    <3>1. work'[h].case # work[g].case
      BY <1>5, <2>1, <2>4, WorkStaysApart
    <3> QED
      BY <1>5, <2>1, <2>4, <3>1
  <2> QED
    BY <2>2, <2>3, <2>4
<1>6. running' \in {"down", "refused"} => \A g \in Handlers : pc'[g] = "idle"
  <2>1. running \notin {"down", "refused"}
    BY DEF ConcurrencyInv, HandlerStep, Step, Receive, Lookup, Acquire, Replay, Load,
      NewCase, SaveCase, SaveResult, SaveResultFile, SaveAudit
  <2>2. running' = running
    BY OnlyStoresWrites
  <2> QED
    BY <2>1, <2>2
<1> QED
  BY <1>2, <1>3, <1>4, <1>5, <1>6 DEF ConcurrencyInv

-----------------------------------------------------------------------------
(* The invariant of the concurrent handlers, and its theorem. *)

(* The steps of the process itself: what they do to the handlers.          *)
ProcessStep == Crash \/ Stop \/ Exit \/ Restart

LEMMA NextIsHandlerOrProcess ==
  ASSUME Next
  PROVE  ProcessStep \/ \E h \in Handlers : HandlerStep(h)
BY DEF Next, ProcessStep, HandlerStep

LEMMA ProcessTypes ==
  ASSUME TypeOK, ProcessStep
  PROVE  TypeOK'
<1>1. NoResults \in [StoreKeys -> Entries \cup {Nil}]
  BY DEF NoResults
<1>2. CASE Crash
  BY <1>1, <1>2 DEF Crash, StoreCrash, TypeOK
<1>3. CASE Stop
  BY <1>3 DEF Stop, storeVars, TypeOK
<1>4. CASE Exit
  <2>1. forgot' \in BOOLEAN
    BY <1>4 DEF Exit, TypeOK
  <2> QED
    BY <1>1, <1>4, <2>1 DEF Exit, StoreCrash, TypeOK
<1>5. CASE Restart
  BY <1>1, <1>5 DEF Restart, OpenStore, storeVars, TypeOK
<1> QED
  BY <1>2, <1>3, <1>4, <1>5 DEF ProcessStep

(* The process ends with all handlers idle, and otherwise leaves them.     *)
LEMMA ProcessLeavesHandlers ==
  ASSUME ConcurrencyInv, ProcessStep
  PROVE  /\ UNCHANGED <<snapshot, audit, answers, idemFile>>
         /\ \/ /\ \A h \in Handlers : pc'[h] = "idle" /\ req'[h] = Nil /\ work'[h] = Nil
               /\ mu' = Nil
            \/ UNCHANGED <<pc, req, work, mu, locks>> /\ running' \in {"up", "stopping"}
<1>1. CASE Crash
  BY <1>1 DEF Crash, StoreCrash
<1>2. CASE Stop
  BY <1>2 DEF Stop, storeVars
<1>3. ASSUME \A h \in Handlers : pc[h] = "idle"
      PROVE  /\ \A h \in Handlers : req[h] = Nil /\ work[h] = Nil
             /\ mu = Nil
  <2>1. \A h \in Handlers : req[h] = Nil /\ work[h] = Nil /\ mu # h
    BY <1>3 DEF ConcurrencyInv, OnItsPath, HoldsItsLocks, Saving, Writing
  <2> QED
    BY <2>1 DEF ConcurrencyInv, TypeOK
<1>4. CASE Exit
  BY <1>3, <1>4 DEF Exit, StoreCrash
<1>5. CASE Restart
  <2>1. \A h \in Handlers : pc[h] = "idle"
    BY <1>5 DEF Restart, ConcurrencyInv
  <2> QED
    BY <1>3, <1>5, <2>1 DEF Restart, OpenStore, storeVars
<1> QED
  BY <1>1, <1>2, <1>4, <1>5 DEF ProcessStep

LEMMA ProcessConcurrency ==
  ASSUME ConcurrencyInv, ProcessStep
  PROVE  ConcurrencyInv'
<1>1. TypeOK'
  BY ProcessTypes DEF ConcurrencyInv
<1>2. AppliedAtExpectedVersion' /\ \A c \in Cases : snapshot'[c] # <<>>
  BY ProcessLeavesHandlers DEF ConcurrencyInv, AppliedAtExpectedVersion
<1>3. CASE /\ \A h \in Handlers : pc'[h] = "idle" /\ req'[h] = Nil /\ work'[h] = Nil
           /\ mu' = Nil
  BY <1>1, <1>2, <1>3, NilAssumption
  DEF ConcurrencyInv, OnItsPath, HoldsItsLocks, WorksOnTheCase, InLock, Saving, Writing
<1>4. CASE UNCHANGED <<pc, req, work, mu, locks>> /\ running' \in {"up", "stopping"}
  <2>1. UNCHANGED snapshot
    BY ProcessLeavesHandlers
  <2> QED
    BY <1>1, <1>2, <1>4, <2>1
    DEF ConcurrencyInv, OnItsPath, HoldsItsLocks, WorksOnTheCase, InLock, Saving, Writing
<1> QED
  BY <1>3, <1>4, ProcessLeavesHandlers

(* At the start there is nothing but the creations on disk. *)
LEMMA StartOfCases ==
  ASSUME Init, NEW c \in Cases
  PROVE  \/ /\ c \notin DOMAIN Born /\ snapshot[c] = Nil /\ audit[c] = <<>>
         \/ /\ c \in DOMAIN Born /\ snapshot[c] = <<Born[c]>> /\ audit[c] = <<1>>
            /\ Born[c] \in Requests /\ Born[c].op = "create" /\ ~ Keyed(Born[c])
            /\ snapshot[c] \in Seq(Requests) /\ snapshot[c] # Nil /\ snapshot[c] # <<>>
            /\ Len(snapshot[c]) = 1 /\ snapshot[c][1] = Born[c]
<1>1. CASE c \notin DOMAIN Born
  BY <1>1 DEF Init
<1>2. CASE c \in DOMAIN Born
  <2>1. Born[c] \in Requests /\ Born[c].op = "create" /\ ~ Keyed(Born[c])
    BY <1>2, BornAssumption
  <2>2. snapshot[c] = <<Born[c]>> /\ audit[c] = <<1>>
    BY <1>2 DEF Init
  <2> QED
    BY <1>2, <2>1, <2>2, OneRequest
<1> QED
  BY <1>1, <1>2

LEMMA StartTypes ==
  ASSUME Init
  PROVE  TypeOK
<1>1. snapshot \in [Cases -> Seq(Requests) \cup {Nil}]
  <2>1. \A c \in Cases : snapshot[c] \in Seq(Requests) \cup {Nil}
    BY StartOfCases
  <2> QED
    BY <2>1 DEF Init
<1>2. audit \in [Cases -> Seq(Nat)]
  <2>1. <<1>> \in Seq(Nat) /\ <<>> \in Seq(Nat)
    BY EmptySeq
  <2> QED
    BY <2>1 DEF Init
<1>3. NoResults \in [StoreKeys -> Entries \cup {Nil}]
  BY DEF NoResults
<1> QED
  BY <1>1, <1>2, <1>3 DEF Init, TypeOK

LEMMA StartConcurrency ==
  ASSUME Init
  PROVE  ConcurrencyInv
<1>1. AppliedAtExpectedVersion /\ \A c \in Cases : snapshot[c] # <<>>
  <2>1. \A c \in Cases : snapshot[c] # Nil =>
          snapshot[c][1].op = "create" /\ Len(snapshot[c]) = 1 /\ snapshot[c] # <<>>
    BY StartOfCases
  <2>2. Nil # <<>>
    <3>1. <<>> \in Seq(Requests)
      BY EmptySeq
    <3> QED
      BY <3>1, NilAssumption
  <2>3. AppliedAtExpectedVersion
    BY <2>1, SMT DEF AppliedAtExpectedVersion
  <2> QED
    BY <2>1, <2>2, <2>3
<1>2. \A h \in Handlers : OnItsPath(h) /\ HoldsItsLocks(h) /\ WorksOnTheCase(h)
  BY NilAssumption
  DEF Init, OnItsPath, HoldsItsLocks, WorksOnTheCase, InLock, Saving, Writing
<1> QED
  BY <1>1, <1>2, StartTypes DEF Init, ConcurrencyInv, Saving, Writing

LEMMA StutterConcurrency ==
  ASSUME ConcurrencyInv, UNCHANGED vars
  PROVE  ConcurrencyInv'
BY DEF ConcurrencyInv, vars, storeVars, serviceVars, TypeOK, AppliedAtExpectedVersion,
  OnItsPath, HoldsItsLocks, WorksOnTheCase, InLock, Saving, Writing

(* The mutexes of service.go and the expected version keep the handlers    *)
(* apart: whatever is retried, runs at once or is cut off, every handler   *)
(* works on its case as it is stored.                                      *)
THEOREM HandlersKeepApart == Spec => []ConcurrencyInv
<1>1. Init => ConcurrencyInv
  BY StartConcurrency
<1>2. ConcurrencyInv /\ [Next]_vars => ConcurrencyInv'
  BY NextIsHandlerOrProcess, HandlerConcurrency, ProcessConcurrency, StutterConcurrency
<1> QED
  BY <1>1, <1>2, PTL DEF Spec

(* Every variable of the service and the store keeps its type.             *)
THEOREM ServiceTypeCorrect == Spec => []TypeOK
<1>1. ConcurrencyInv => TypeOK
  BY DEF ConcurrencyInv
<1> QED
  BY <1>1, HandlersKeepApart, PTL

(* No update is lost: a request is applied to the version it expects or    *)
(* not at all, for any number of handlers and requests (mutate,            *)
(* ObserveBatch, Create).                                                  *)
THEOREM NoLostUpdate == Spec => []AppliedAtExpectedVersion
<1>1. ConcurrencyInv => AppliedAtExpectedVersion
  BY DEF ConcurrencyInv
<1> QED
  BY <1>1, HandlersKeepApart, PTL

-----------------------------------------------------------------------------
(* Prefixes, and cases that only grow. *)

LEMMA PrefixByElements ==
  ASSUME NEW short \in Seq(Requests), NEW long \in Seq(Requests)
  PROVE  Prefix(short, long) <=>
           /\ Len(short) <= Len(long)
           /\ \A i \in 1 .. Len(short) : short[i] = long[i]
<1> DEFINE front == SubSeq(long, 1, Len(short))
<1>1. Len(short) \in Nat /\ Len(long) \in Nat /\ long # Nil
  BY LenProperties, NilAssumption
<1>2. ASSUME Len(short) <= Len(long)
      PROVE  /\ front \in Seq(Requests) /\ Len(front) = Len(short)
             /\ \A i \in 1 .. Len(short) : front[i] = long[i]
  <2>1. \A i \in 1 .. Len(short) : long[i] \in Requests
    BY <1>1, <1>2, ElementOfSeq
  <2>2. /\ front \in Seq(Requests)
        /\ Len(front) = IF 1 <= Len(short) THEN Len(short) - 1 + 1 ELSE 0
        /\ \A i \in 1 .. Len(short) - 1 + 1 : front[i] = long[1 + i - 1]
    <3> HIDE DEF front
    <3>1. 1 \in Int /\ Len(short) \in Int
      BY <1>1
    <3> QED
      BY <2>1, <3>1, SubSeqProperties DEF front
  <2> HIDE DEF front
  <2> QED
    BY <1>1, <2>2
<1>3. ASSUME Len(short) <= Len(long), \A i \in 1 .. Len(short) : short[i] = long[i]
      PROVE  front = short
  <2> HIDE DEF front
  <2> QED
    BY <1>2, <1>3, SeqEqual
<1> QED
  BY <1>1, <1>2, <1>3 DEF Prefix

LEMMA PrefixIsTransitive ==
  ASSUME NEW a \in Seq(Requests), NEW b \in Seq(Requests), NEW c \in Seq(Requests),
         Prefix(a, b), Prefix(b, c)
  PROVE  Prefix(a, c)
<1>1. Len(a) \in Nat /\ Len(b) \in Nat /\ Len(c) \in Nat
  BY LenProperties
<1> QED
  BY <1>1, PrefixByElements

(* A step of the service leaves a case or adds one request to it.          *)
LEMMA CaseGrows ==
  ASSUME ConcurrencyInv, Next, NEW c \in Cases, snapshot[c] # Nil
  PROVE  /\ snapshot[c] \in Seq(Requests)
         /\ \/ snapshot'[c] = snapshot[c]
            \/ \E r \in Requests : snapshot'[c] = Append(snapshot[c], r)
<1>1. TypeOK /\ snapshot[c] \in Seq(Requests)
  BY DEF ConcurrencyInv, TypeOK
<1>2. CASE ProcessStep
  BY <1>1, <1>2, ProcessLeavesHandlers
<1>3. ASSUME NEW h \in Handlers, HandlerStep(h)
      PROVE  \/ snapshot'[c] = snapshot[c]
             \/ \E r \in Requests : snapshot'[c] = Append(snapshot[c], r)
  <2>1. CASE UNCHANGED snapshot
    BY <2>1
  <2>2. CASE Stores(h)
    BY <1>1, <2>2, StoredLog DEF TypeOK
  <2> QED
    BY <1>3, <2>1, <2>2, OnlyStoresWrites
<1> QED
  BY <1>1, <1>2, <1>3, NextIsHandlerOrProcess

LEMMA PrefixStays ==
  ASSUME ConcurrencyInv, Next, NEW c \in Cases,
         NEW log \in Seq(Requests), Prefix(log, snapshot[c])
  PROVE  Prefix(log, snapshot'[c])
<1>1. snapshot[c] # Nil
  BY DEF Prefix
<1>2. snapshot[c] \in Seq(Requests)
  BY <1>1, CaseGrows
<1>3. CASE snapshot'[c] = snapshot[c]
  BY <1>3
<1>4. ASSUME NEW r \in Requests, snapshot'[c] = Append(snapshot[c], r)
      PROVE  Prefix(log, snapshot'[c])
  <2>1. Len(log) \in Nat /\ Len(snapshot[c]) \in Nat
    BY <1>2, LenProperties
  <2>2. /\ Append(snapshot[c], r) \in Seq(Requests)
        /\ Len(Append(snapshot[c], r)) = Len(snapshot[c]) + 1
        /\ \A i \in 1 .. Len(snapshot[c]) : Append(snapshot[c], r)[i] = snapshot[c][i]
    BY <1>2, AppendLog
  <2>3. /\ Len(log) <= Len(snapshot[c])
        /\ \A i \in 1 .. Len(log) : log[i] = snapshot[c][i]
    BY <1>2, PrefixByElements
  <2>4. /\ Len(log) <= Len(Append(snapshot[c], r))
        /\ \A i \in 1 .. Len(log) : log[i] = Append(snapshot[c], r)[i]
    BY <2>1, <2>2, <2>3
  <2> QED
    BY <1>4, <2>2, <2>4, PrefixByElements
<1> QED
  BY <1>1, <1>3, <1>4, CaseGrows

(* What was stored of a case stays, whoever works on it and whatever       *)
(* fails: no later save takes an earlier request away (SaveWithFingerprint *)
(* replaces the whole snapshot file).                                      *)
CasesGrow == \A c \in Cases : snapshot[c] # Nil => Prefix(snapshot[c], snapshot'[c])
THEOREM CasesOnlyGrow == Spec => [][CasesGrow]_vars
<1>1. ASSUME ConcurrencyInv, Next
      PROVE  CasesGrow
  <2>1. ASSUME NEW c \in Cases, snapshot[c] # Nil
        PROVE  Prefix(snapshot[c], snapshot'[c])
    <3>1. snapshot[c] \in Seq(Requests)
      BY <1>1, <2>1, CaseGrows
    <3>2. Len(snapshot[c]) \in Nat
      BY <3>1, LenProperties
    <3>3. Prefix(snapshot[c], snapshot[c])
      BY <3>1, <3>2, PrefixByElements
    <3> QED
      BY <1>1, <3>1, <3>3, PrefixStays
  <2> QED
    BY <2>1 DEF CasesGrow
<1>2. ConcurrencyInv /\ [Next]_vars => [CasesGrow]_vars
  BY <1>1
<1> QED
  BY <1>2, HandlersKeepApart, PTL DEF Spec

-----------------------------------------------------------------------------
(* Stored results. *)

(* The result of a key in the file. *)
FileResult(k) == IF idemFile = Torn THEN Nil ELSE idemFile[k]

Sound(k, entry, cases) ==
  LET last == entry.log[Len(entry.log)]
  IN  /\ entry.log # <<>> /\ StoreKey(last) = k
      /\ entry.fingerprint = Fingerprint(last, entry.log)
      /\ \E c \in Cases :
           (last.op # "create" => last.case = c) /\ Prefix(entry.log, cases[c])

LEMMA ResultsBySound ==
  ResultsAreOfTheirKey /\ ResultsSound <=>
    \A k \in StoreKeys :
      /\ idem[k] # Nil => Sound(k, idem[k], snapshot)
      /\ FileResult(k) # Nil => Sound(k, FileResult(k), snapshot)
BY DEF ResultsAreOfTheirKey, ResultsSound, Sound, FileResult

LEMMA ResultTypes ==
  ASSUME TypeOK, NEW k \in StoreKeys
  PROVE  /\ idem[k] \in Entries \cup {Nil} /\ FileResult(k) \in Entries \cup {Nil}
         /\ \A entry \in Entries : entry.log \in Seq(Requests)
BY DEF TypeOK, FileResult, Entries

(* A result that is sound stays so. *)
LEMMA SoundStays ==
  ASSUME ConcurrencyInv, Next, NEW k \in StoreKeys,
         NEW entry \in Entries, Sound(k, entry, snapshot)
  PROVE  Sound(k, entry, snapshot')
<1>1. entry.log \in Seq(Requests)
  BY DEF Entries
<1>2. \A c \in Cases : Prefix(entry.log, snapshot[c]) => Prefix(entry.log, snapshot'[c])
  BY <1>1, PrefixStays
<1> QED
  BY <1>2 DEF Sound

(* What becomes of the results in a step: SaveWithFingerprint stores one,  *)
(* the file is torn or takes what is in memory, memory takes what is in    *)
(* the file, or is lost.                                                   *)
LEMMA ResultsMove ==
  ASSUME TypeOK, Next
  PROVE  \/ /\ \A k \in StoreKeys : idem'[k] \in {Nil, idem[k], FileResult(k)}
            /\ \A k \in StoreKeys : FileResult(k)' \in {Nil, idem[k], FileResult(k)}
         \/ \E h \in Handlers : SaveResult(h)
<1> USE DEF FileResult
<1>1. ASSUME NEW h \in Handlers, HandlerStep(h), ~ SaveResult(h)
      PROVE  idem' = idem /\ (idemFile' = idemFile \/ idemFile' = idem \/ idemFile' = Torn)
  <2> USE DEF storeVars
  <2>1. ASSUME NEW r \in Requests, Receive(h, r)
        PROVE  idem' = idem /\ idemFile' = idemFile
    BY <2>1 DEF Receive
  <2>2. CASE Lookup(h) \/ Acquire(h) \/ Replay(h) \/ Load(h) \/ NewCase(h)
    BY <2>2 DEF Lookup, Acquire, Replay, Load, NewCase
  <2>3. CASE SaveCase(h)
    BY <2>3 DEF SaveCase, SaveSnapshot, SaveSnapshotFails
  <2>4. CASE SaveResultFile(h)
    BY <2>4 DEF SaveResultFile, WriteIdempotency
  <2>5. CASE SaveAudit(h)
    BY <2>5 DEF SaveAudit, appendAudit, appendAuditFails
  <2> QED
    BY <1>1, <2>1, <2>2, <2>3, <2>4, <2>5 DEF HandlerStep, Step
<1>2. CASE ProcessStep
  <2>1. /\ idemFile' = idemFile
        /\ idem' = idem \/ idem' = NoResults \/ (idemFile # Torn /\ idem' = idemFile)
    BY <1>2 DEF ProcessStep, Crash, Stop, Exit, Restart, StoreCrash, OpenStore, storeVars
  <2> QED
    BY <2>1 DEF NoResults
<1> QED
  BY <1>1, <1>2, NextIsHandlerOrProcess

(* The result that is stored tells what has just been saved. *)
LEMMA StoredResult ==
  ASSUME ConcurrencyInv, NEW h \in Handlers, SaveResult(h)
  PROVE  LET r == req[h]
             log == work[h].log
             entry == [log |-> log, fingerprint |-> Fingerprint(r, log)]
         IN  /\ r \in Requests /\ Keyed(r) /\ StoreKey(r) \in StoreKeys
             /\ work[h].case \in Cases /\ snapshot[work[h].case] = log
             /\ entry \in Entries /\ entry # Nil /\ Sound(StoreKey(r), entry, snapshot')
             /\ idem' = [idem EXCEPT ![StoreKey(r)] = entry]
             /\ idemFile' \in {Torn, idemFile} /\ snapshot' = snapshot
<1> DEFINE r == req[h]
           c == work[h].case
           log == work[h].log
           entry == [log |-> log, fingerprint |-> Fingerprint(r, log)]
<1>1. HandlersInv /\ OnItsPath(h) /\ WorksOnTheCase(h)
  BY DEF ConcurrencyInv, HandlersInv
<1>2. /\ pc[h] = "remember"
      /\ Remember(h, StoreKey(r), entry) \/ RememberUnwritten(h, StoreKey(r), entry)
  BY DEF SaveResult
<1>3. /\ r \in Requests /\ c \in Cases /\ log \in Seq(Requests) /\ log # <<>>
      /\ snapshot[c] = log
  BY <1>1, <1>2, AtWork DEF Saving, Writing
<1>4. Keyed(r) /\ StoreKey(r) \in StoreKeys
  BY <1>1, <1>2, <1>3, RequestFacts DEF OnItsPath
<1>5. log[Len(log)] = r /\ (r.op # "create" => r.case = c)
  BY <1>1, <1>2, <1>3 DEF WorksOnTheCase, Writing
<1>6. /\ idem' = [idem EXCEPT ![StoreKey(r)] = entry]
      /\ idemFile' \in {Torn, idemFile} /\ snapshot' = snapshot
  BY <1>2 DEF Remember, RememberUnwritten
<1>7. entry.log = log /\ entry.fingerprint = Fingerprint(r, log)
  OBVIOUS
<1>8. Prefix(log, log)
  <2>1. Len(log) \in Nat
    BY <1>3, LenProperties
  <2> QED
    BY <1>3, <2>1, PrefixByElements
<1>9. Sound(StoreKey(r), entry, snapshot')
  <2> HIDE DEF entry
  <2>1. \E d \in Cases : (r.op # "create" => r.case = d) /\ Prefix(log, snapshot'[d])
    BY <1>3, <1>5, <1>6, <1>8
  <2> QED
    BY <1>3, <1>5, <1>7, <2>1 DEF Sound
<1>10. entry \in Entries /\ entry # Nil
  <2>1. entry \in Entries
    BY <1>3, FingerprintType DEF Entries
  <2> QED
    BY <2>1, NilAssumption
<1> QED
  BY <1>3, <1>4, <1>6, <1>9, <1>10

-----------------------------------------------------------------------------
(* Answers. *)

(* A handler answers without touching the cases, and with success in three *)
(* places: the two lookups of a stored result and the end of Save.         *)
Succeeds(h, log) ==
  \/ /\ Lookup(h) \/ (Replay(h) /\ SameRequest(idem[StoreKey(req[h])], req[h]))
     /\ Keyed(req[h]) /\ log = idem[StoreKey(req[h])].log
     /\ idem[StoreKey(req[h])] # Nil
  \/ SaveAudit(h) /\ log = work[h].log
Refuses(h) ==
  \/ Load(h) \/ NewCase(h)
  \/ /\ Replay(h) /\ idem[StoreKey(req[h])] # Nil
     /\ ~ SameRequest(idem[StoreKey(req[h])], req[h])

LEMMA Answering ==
  ASSUME ConcurrencyInv, NEW h \in Handlers, HandlerStep(h)
  PROVE  \/ UNCHANGED answers
         \/ \E result, log :
              /\ Answer(h, result, log) /\ UNCHANGED <<snapshot, idem>>
              /\ req[h] \in Requests /\ log \in Seq(Requests) \cup {Nil}
              /\ IF result = "ok" THEN Succeeds(h, log)
                 ELSE result = "ioError" \/ Refuses(h)
<1> DEFINE r == req[h]
           found == idem[StoreKey(r)]
<1>1. HandlersInv /\ OnItsPath(h) /\ TypeOK
  BY DEF ConcurrencyInv, HandlersInv
<1>2. pc[h] # "idle" => r \in Requests
  BY <1>1, AtWork
<1>3. \/ UNCHANGED answers
      \/ Lookup(h) \/ Replay(h) \/ Load(h) \/ NewCase(h) \/ SaveCase(h) \/ SaveAudit(h)
  BY DEF HandlerStep, Step, Receive, Acquire, SaveResult, SaveResultFile
<1>4. CASE Lookup(h) \/ Replay(h)
  <2>1. Keyed(r) /\ r \in Requests
    BY <1>1, <1>2, <1>4 DEF Lookup, Replay, OnItsPath
  <2>2. found # Nil => found.log \in Seq(Requests)
    BY <1>1, <2>1, RequestFacts, ResultTypes
  <2>3. UNCHANGED <<snapshot, idem>>
    BY <1>4 DEF Lookup, Replay, storeVars
  <2>4. CASE Lookup(h)
    <3>1. UNCHANGED answers \/ (found # Nil /\ Answer(h, "ok", found.log))
      BY <2>4 DEF Lookup
    <3> QED
      BY <2>1, <2>2, <2>3, <2>4, <3>1 DEF Succeeds
  <2>5. CASE Replay(h)
    <3>1. \/ UNCHANGED answers
          \/ /\ found # Nil /\ ~ SameRequest(found, r)
             /\ Answer(h, "idempotencyConflict", Nil)
          \/ found # Nil /\ SameRequest(found, r) /\ Answer(h, "ok", found.log)
      BY <2>5 DEF Replay
    <3> QED
      BY <2>1, <2>2, <2>3, <2>5, <3>1 DEF Succeeds, Refuses
  <2> QED
    BY <1>4, <2>4, <2>5
<1>5. CASE Load(h) \/ NewCase(h) \/ SaveCase(h)
  <2>1. pc[h] # "idle"
    BY <1>5 DEF Load, NewCase, SaveCase
  <2>2. \/ UNCHANGED answers
        \/ /\ UNCHANGED <<snapshot, idem>>
           /\ \E result \in {"notFound", "versionConflict", "refused", "ioError"} :
                Answer(h, result, Nil) /\ (result = "ioError" \/ Load(h) \/ NewCase(h))
    BY <1>5 DEF Load, NewCase, SaveCase, SaveSnapshotFails, storeVars
  <2> QED
    BY <1>2, <2>1, <2>2 DEF Refuses
<1>6. CASE SaveAudit(h)
  <2>1. pc[h] = "audit" /\ UNCHANGED <<snapshot, idem>>
    BY <1>6 DEF SaveAudit, appendAudit, appendAuditFails
  <2>2. work[h].log \in Seq(Requests)
    BY <1>1, <2>1, AtWork DEF Saving, Writing
  <2>3. Answer(h, "ok", work[h].log) \/ Answer(h, "ioError", Nil)
    BY <1>6 DEF SaveAudit
  <2> QED
    BY <1>2, <1>6, <2>1, <2>2, <2>3 DEF Succeeds
<1> QED
  BY <1>3, <1>4, <1>5, <1>6

(* What an answer says. *)
LEMMA AnswerRecord ==
  ASSUME NEW h \in Handlers, NEW result, NEW log, Answer(h, result, log)
  PROVE  \E a :
           /\ answers' = answers \cup {a}
           /\ a.request = req[h] /\ a.result = result /\ a.log = log
           /\ a.applied = Applied(req[h]) /\ a.forgot = forgot
<1> DEFINE a == [request |-> req[h], result |-> result, log |-> log,
                 applied |-> Applied(req[h]), forgot |-> forgot]
<1>1. answers' = answers \cup {a}
  BY DEF Answer
<1>2. /\ a.request = req[h] /\ a.result = result /\ a.log = log
      /\ a.applied = Applied(req[h]) /\ a.forgot = forgot
  OBVIOUS
<1> HIDE DEF a
<1> QED
  BY <1>1, <1>2

(* A success of a creation or a batch is its own: in the result of its key *)
(* because the fingerprints agree, otherwise as the last request saved.    *)
LEMMA SuccessIsOwn ==
  ASSUME ConcurrencyInv, ResultsAreOfTheirKey, ResultsSound,
         NEW h \in Handlers, NEW log, req[h] \in Requests, Succeeds(h, log)
  PROVE  /\ req[h].op = "batch" =>
              \E i \in DOMAIN log :
                /\ log[i].op = "batch" /\ log[i].case = req[h].case
                /\ log[i].body = req[h].body
         /\ req[h].op = "create" => Identity(log) = req[h].identity
<1> DEFINE r == req[h]
           found == idem[StoreKey(r)]
           last == log[Len(log)]
<1>1. HandlersInv /\ OnItsPath(h) /\ WorksOnTheCase(h) /\ TypeOK
  BY DEF ConcurrencyInv, HandlersInv
<1>2. CASE SaveAudit(h) /\ log = work[h].log
  <2>1. pc[h] = "audit"
    BY <1>2 DEF SaveAudit
  <2>2. /\ log \in Seq(Requests) /\ log # <<>> /\ last = r
        /\ work[h].case \in Cases /\ snapshot[work[h].case] = log /\ log # Nil
    BY <1>1, <1>2, <2>1, AtWork DEF WorksOnTheCase, Saving, Writing
  <2>3. Len(log) \in Nat \ {0} /\ DOMAIN log = 1 .. Len(log)
    BY <2>2, LastOfLog
  <2>4. CASE r.op = "create"
    <3>1. \A i \in 2 .. Len(log) : log[i].case \in Cases
      BY <2>2 DEF ConcurrencyInv, AppliedAtExpectedVersion
    <3>2. r.case \notin Cases
      BY <2>4, RequestFacts, NilAssumption
    <3>3. Len(log) = 1
      BY <2>2, <2>3, <3>1, <3>2
    <3> QED
      BY <2>2, <2>4, <3>3, IdentityOfOne
  <2>5. CASE r.op # "create"
    BY <2>2, <2>3, <2>5
  <2> QED
    BY <2>4, <2>5
<1>3. CASE /\ Replay(h) /\ SameRequest(found, r)
           /\ Keyed(r) /\ log = found.log /\ found # Nil
  <2>1. StoreKey(r) \in StoreKeys
    BY <1>3, RequestFacts
  <2>2. Sound(StoreKey(r), found, snapshot)
    BY <1>3, <2>1, ResultsBySound
  <2>3. log \in Seq(Requests) /\ log # <<>> /\ StoreKey(last) = StoreKey(r)
    BY <1>1, <1>3, <2>1, <2>2, ResultTypes DEF Sound
  <2>4. Len(log) \in DOMAIN log
    BY <2>3, LastOfLog
  <2>5. Fingerprint(last, log) = RequestFingerprint(r)
    BY <1>3, <2>2 DEF Sound, SameRequest
  <2>6. CASE r.op = "batch"
    <3>1. last.op = "batch" /\ last.body = r.body
      BY <2>5, <2>6 DEF Fingerprint, RequestFingerprint
    <3>2. last.case = r.case
      BY <2>3, <2>6, <3>1 DEF StoreKey
    <3> QED
      BY <2>4, <2>6, <3>1, <3>2
  <2>7. CASE r.op = "create"
    BY <2>5, <2>7 DEF Fingerprint, RequestFingerprint
  <2> QED
    BY <2>6, <2>7
<1>4. CASE Lookup(h)
  BY <1>1, <1>4 DEF Lookup, OnItsPath
<1> QED
  BY <1>2, <1>3, <1>4 DEF Succeeds

-----------------------------------------------------------------------------
(* The invariant of the stored results, and its theorems. *)

LEMMA NextResults ==
  ASSUME ConcurrencyInv, ResultsAreOfTheirKey, ResultsSound, Next
  PROVE  (ResultsAreOfTheirKey /\ ResultsSound)'
<1>1. TypeOK
  BY DEF ConcurrencyInv
<1>2. \A k \in StoreKeys :
        \A entry \in {idem[k], FileResult(k)} \ {Nil} :
          /\ Sound(k, entry, snapshot) /\ Sound(k, entry, snapshot')
          /\ entry \in Entries
  <2> TAKE k \in StoreKeys
  <2> TAKE entry \in {idem[k], FileResult(k)} \ {Nil}
  <2>1. entry \in Entries /\ Sound(k, entry, snapshot)
    BY <1>1, ResultTypes, ResultsBySound
  <2> QED
    BY <2>1, SoundStays
<1>3. \A k \in StoreKeys :
        /\ idem'[k] # Nil => Sound(k, idem'[k], snapshot')
        /\ FileResult(k)' # Nil => Sound(k, FileResult(k)', snapshot')
  <2>1. CASE /\ \A k \in StoreKeys : idem'[k] \in {Nil, idem[k], FileResult(k)}
             /\ \A k \in StoreKeys : FileResult(k)' \in {Nil, idem[k], FileResult(k)}
    BY <1>2, <2>1
  <2>2. ASSUME NEW h \in Handlers, SaveResult(h)
        PROVE  \A k \in StoreKeys :
                 /\ idem'[k] # Nil => Sound(k, idem'[k], snapshot')
                 /\ FileResult(k)' # Nil => Sound(k, FileResult(k)', snapshot')
    <3> DEFINE key == StoreKey(req[h])
               entry == [log |-> work[h].log,
                         fingerprint |-> Fingerprint(req[h], work[h].log)]
    <3>1. /\ key \in StoreKeys /\ Sound(key, entry, snapshot')
          /\ idem' = [idem EXCEPT ![key] = entry] /\ idemFile' \in {Torn, idemFile}
      BY <2>2, StoredResult
    <3>2. \A k \in StoreKeys : FileResult(k)' \in {Nil, FileResult(k)}
      BY <3>1 DEF FileResult
    <3> HIDE DEF key, entry
    <3>3. idem'[key] = entry /\ \A k \in StoreKeys \ {key} : idem'[k] = idem[k]
      BY <1>1, <3>1 DEF TypeOK
    <3> QED
      BY <1>2, <3>1, <3>2, <3>3
  <2> QED
    BY <1>1, <2>1, <2>2, ResultsMove
<1>4. (\A k \in StoreKeys :
         /\ idem[k] # Nil => Sound(k, idem[k], snapshot)
         /\ FileResult(k) # Nil => Sound(k, FileResult(k), snapshot))'
  BY <1>3
<1> QED
  BY <1>4, ResultsBySound, PTL

LEMMA NextSuccess ==
  ASSUME ConcurrencyInv, ResultsInv, Next
  PROVE  SuccessMeansApplied'
<1>1. CASE ProcessStep
  BY <1>1, ProcessLeavesHandlers DEF ResultsInv, SuccessMeansApplied
<1>2. ASSUME NEW h \in Handlers, HandlerStep(h)
      PROVE  SuccessMeansApplied'
  <2>1. CASE UNCHANGED answers
    BY <2>1 DEF ResultsInv, SuccessMeansApplied
  <2>2. ASSUME NEW result, NEW log, Answer(h, result, log), req[h] \in Requests,
               result = "ok" => Succeeds(h, log)
        PROVE  SuccessMeansApplied'
    <3>1. result = "ok" =>
            /\ req[h].op = "batch" =>
                 \E i \in DOMAIN log :
                   /\ log[i].op = "batch" /\ log[i].case = req[h].case
                   /\ log[i].body = req[h].body
            /\ req[h].op = "create" => Identity(log) = req[h].identity
      BY <2>2, SuccessIsOwn DEF ResultsInv
    <3>2. PICK a : /\ answers' = answers \cup {a}
                   /\ a.request = req[h] /\ a.result = result /\ a.log = log
      BY <2>2, AnswerRecord
    <3> QED
      BY <3>1, <3>2 DEF ResultsInv, SuccessMeansApplied
  <2> QED
    BY <1>2, <2>1, <2>2, Answering
<1> QED
  BY <1>1, <1>2, NextIsHandlerOrProcess

LEMMA StartResults ==
  ASSUME Init
  PROVE  ResultsInv
<1>1. \A k \in StoreKeys : idem[k] = Nil /\ FileResult(k) = Nil
  BY DEF Init, NoResults, FileResult
<1> QED
  BY <1>1, ResultsBySound DEF Init, ResultsInv, SuccessMeansApplied

LEMMA StutterResults ==
  ASSUME ResultsInv, UNCHANGED vars
  PROVE  ResultsInv'
BY DEF ResultsInv, ResultsAreOfTheirKey, ResultsSound, SuccessMeansApplied,
  vars, storeVars, serviceVars, Prefix

(* What is stored for an idempotency key is right, in memory and on disk.  *)
THEOREM ResultsAreSound == Spec => []ResultsInv
<1>1. Init => ResultsInv
  BY StartResults
<1>2. ConcurrencyInv /\ ResultsInv /\ [Next]_vars => ResultsInv'
  BY NextResults, NextSuccess, StutterResults DEF ResultsInv
<1> QED
  BY <1>1, <1>2, HandlersKeepApart, PTL DEF Spec

(* A stored result is that of a request with the key it is stored under,   *)
(* about a case as it is stored, never of a mutation that was not saved    *)
(* (SaveWithFingerprint, GetIdempotency).                                  *)
THEOREM ResultsOfTheirKey == Spec => []ResultsAreOfTheirKey
<1>1. ResultsInv => ResultsAreOfTheirKey
  BY DEF ResultsInv
<1> QED
  BY <1>1, ResultsAreSound, PTL

(* A batch that is answered with success is in the case that it was sent   *)
(* to, and a creation is answered with a case of its identity, whatever    *)
(* requests share its key (Create, ObserveBatch and the fingerprints).     *)
THEOREM SuccessIsApplied == Spec => []SuccessMeansApplied
<1>1. ResultsInv => SuccessMeansApplied
  BY DEF ResultsInv
<1> QED
  BY <1>1, ResultsAreSound, PTL

-----------------------------------------------------------------------------
(* Keys. *)

(* Requests of one kind with one key wait for one mutex, which one handler *)
(* holds.                                                                  *)
LEMMA OneKeyOneLock ==
  ASSUME NEW r \in Requests, NEW s \in Requests, r.op = s.op, StoreKey(r) = StoreKey(s)
  PROVE  LockOf(r) = LockOf(s) /\ r.case = s.case /\ r.key = s.key
<1>1. CASE r.op = "create"
  <2>1. r.key = s.key
    BY <1>1 DEF StoreKey
  <2>2. r.case = Nil /\ s.case = Nil
    BY <1>1, RequestFacts
  <2> QED
    BY <1>1, <2>1, <2>2 DEF LockOf
<1>2. CASE r.op # "create"
  BY <1>2 DEF LockOf, StoreKey
<1> QED
  BY <1>1, <1>2

LEMMA LocksExclude ==
  ASSUME ConcurrencyInv, NEW g \in Handlers, NEW h \in Handlers,
         InLock(g), InLock(h), LockOf(req[g]) = LockOf(req[h])
  PROVE  g = h
BY DEF ConcurrencyInv, HoldsItsLocks

(* A key that has its result keeps it, and a handler that has yet to store *)
(* one does.                                                               *)
LEMMA ResultKept ==
  ASSUME ConcurrencyInv, NEW h \in Handlers, HandlerStep(h)
  PROVE  /\ running \in {"up", "stopping"} /\ running' = running
         /\ \A k \in StoreKeys : idem[k] # Nil => idem'[k] # Nil
         /\ pc[h] = "remember" => SaveResult(h) /\ idem'[StoreKey(req[h])] # Nil
         /\ \/ idem' = idem
            \/ SaveResult(h) /\ \A k \in StoreKeys :
                 idem'[k] = idem[k] \/ k = StoreKey(req[h])
<1>1. running \in {"up", "stopping"}
  BY DEF ConcurrencyInv, TypeOK, HandlerStep, Step, Receive, Lookup, Acquire, Replay, Load,
    NewCase, SaveCase, SaveResult, SaveResultFile, SaveAudit
<1>2. running' = running
  BY OnlyStoresWrites
<1>3. pc[h] = "remember" <=> SaveResult(h)
  BY DEF HandlerStep, Step, Receive, Lookup, Acquire, Replay, Load,
    NewCase, SaveCase, SaveResult, SaveResultFile, SaveAudit
<1>4. CASE SaveResult(h)
  <2> DEFINE entry == [log |-> work[h].log, fingerprint |-> Fingerprint(req[h], work[h].log)]
  <2>1. idem' = [idem EXCEPT ![StoreKey(req[h])] = entry]
    BY <1>4, StoredResult
  <2>2. TypeOK
    BY DEF ConcurrencyInv
  <2>3. entry # Nil
    BY <1>4, StoredResult
  <2>4. StoreKey(req[h]) \in StoreKeys
    BY <1>4, StoredResult
  <2> HIDE DEF entry
  <2> QED
    BY <1>1, <1>2, <1>3, <1>4, <2>1, <2>2, <2>3, <2>4 DEF TypeOK
<1>5. CASE ~ SaveResult(h)
  <2>1. idem' = idem
    <3>1. ASSUME NEW r \in Requests, Receive(h, r)
          PROVE  idem' = idem
      BY <3>1 DEF Receive, storeVars
    <3>2. CASE Lookup(h) \/ Acquire(h) \/ Replay(h) \/ Load(h) \/ NewCase(h)
      BY <3>2 DEF Lookup, Acquire, Replay, Load, NewCase, storeVars
    <3>3. CASE SaveCase(h) \/ SaveResultFile(h) \/ SaveAudit(h)
      BY <3>3 DEF SaveCase, SaveSnapshot, SaveSnapshotFails, SaveResultFile, WriteIdempotency,
        SaveAudit, appendAudit, appendAuditFails
    <3> QED
      BY <1>5, <3>1, <3>2, <3>3 DEF HandlerStep, Step
  <2> QED
    BY <1>1, <1>2, <1>3, <1>5, <2>1
<1> QED
  BY <1>4, <1>5

LEMMA KeyKeepsResult ==
  ASSUME ConcurrencyInv, NEW h \in Handlers, HandlerStep(h),
         NEW r \in Requests, KeyHasResult(r)
  PROVE  KeyHasResult(r)'
<1>1. Results = idem /\ Results' = idem'
  BY ResultKept DEF Results
<1>2. CASE ~ Keyed(r)
  BY <1>2 DEF KeyHasResult, Keyed
<1>3. CASE Keyed(r) /\ idem[StoreKey(r)] # Nil
  <2>1. idem'[StoreKey(r)] # Nil
    BY <1>3, RequestFacts, ResultKept
  <2> QED
    BY <1>1, <2>1 DEF KeyHasResult, StoreKey
<1>4. ASSUME Keyed(r), NEW g \in Handlers, pc[g] = "remember", req[g] = r
      PROVE  KeyHasResult(r)'
  <2>1. CASE g = h
    <3>1. idem'[StoreKey(r)] # Nil
      BY <1>4, <2>1, ResultKept
    <3> QED
      BY <1>1, <3>1 DEF KeyHasResult, StoreKey
  <2>2. CASE g # h
    <3>1. pc'[g] = pc[g] /\ req'[g] = req[g]
      BY <2>2, OthersUnmoved DEF ConcurrencyInv
    <3> QED
      BY <1>4, <3>1 DEF KeyHasResult
  <2> QED
    BY <2>1, <2>2
<1> QED
  BY <1>1, <1>2, <1>3, <1>4 DEF KeyHasResult

(* While no result is lost, what a creation or a batch is about to store   *)
(* has a key of its own: no request of its kind in any case has it.        *)
LEMMA FreshKey ==
  ASSUME KeysKept, ~ forgot, NEW h \in Handlers,
         pc[h] \in {"load", "new", "save"}, req[h].op # "mutate", Keyed(req[h]),
         NEW c \in Cases, snapshot[c] # Nil, NEW i \in DOMAIN snapshot[c],
         snapshot[c][i].op = req[h].op
  PROVE  StoreKey(snapshot[c][i]) # StoreKey(req[h])
BY DEF KeysKept

(* The requests of a case are of that case, or its creation.               *)
LEMMA RequestsOfCase ==
  ASSUME ConcurrencyInv, NEW c \in Cases, snapshot[c] # Nil
  PROVE  /\ snapshot[c] \in Seq(Requests) /\ snapshot[c] # <<>>
         /\ DOMAIN snapshot[c] = 1 .. Len(snapshot[c]) /\ Len(snapshot[c]) \in Nat \ {0}
         /\ \A i \in DOMAIN snapshot[c] : snapshot[c][i] \in Requests
         /\ snapshot[c][1].op = "create"
         /\ \A i \in DOMAIN snapshot[c] : i # 1 => snapshot[c][i].case = c
<1>1. snapshot[c] \in Seq(Requests) /\ snapshot[c] # <<>>
  BY DEF ConcurrencyInv, TypeOK
<1>2. DOMAIN snapshot[c] = 1 .. Len(snapshot[c]) /\ Len(snapshot[c]) \in Nat \ {0}
  BY <1>1, LastOfLog
<1>3. \A i \in 1 .. Len(snapshot[c]) : snapshot[c][i] \in Requests
  BY <1>1, ElementOfSeq
<1>4. snapshot[c][1].op = "create" /\ \A i \in 2 .. Len(snapshot[c]) : snapshot[c][i].case = c
  BY DEF ConcurrencyInv, AppliedAtExpectedVersion
<1> QED
  BY <1>1, <1>2, <1>3, <1>4

(* What a store adds to the requests on record is its own request.         *)
LEMMA StoreAdds ==
  ASSUME ConcurrencyInv, NEW h \in Handlers, Stores(h)
  PROVE  LET r == req[h]
             c == work[h].case
         IN  /\ r \in Requests /\ c \in Cases /\ snapshot'[c] # Nil /\ mu = Nil
             /\ \A d \in Cases \ {c} : snapshot'[d] = snapshot[d]
             /\ DOMAIN snapshot'[c] = 1 .. Len(snapshot'[c])
             /\ Len(snapshot'[c]) \in Nat \ {0}
             /\ snapshot'[c][Len(snapshot'[c])] = r
             /\ r.op = "create" => Len(snapshot'[c]) = 1 /\ snapshot[c] = Nil
             /\ r.op # "create" => /\ r.case = c /\ snapshot[c] # Nil
                                   /\ Len(snapshot'[c]) = Len(snapshot[c]) + 1
             /\ \A i \in 1 .. Len(snapshot'[c]) - 1 :
                  /\ snapshot[c] # Nil /\ i \in DOMAIN snapshot[c]
                  /\ snapshot'[c][i] = snapshot[c][i]
<1> DEFINE r == req[h]
           c == work[h].case
           log == work[h].log
<1>1. /\ r \in Requests /\ c \in Cases /\ log \in Seq(Requests)
      /\ log # Nil /\ log # <<>> /\ mu = Nil
      /\ snapshot' = [snapshot EXCEPT ![c] = log]
      /\ \/ /\ r.op = "create" /\ snapshot[c] = Nil /\ log = <<r>>
         \/ /\ r.op # "create" /\ r.case = c /\ snapshot[c] \in Seq(Requests)
            /\ snapshot[c] # Nil /\ log = Append(snapshot[c], r)
  BY StoredLog
<1>2. snapshot'[c] = log /\ \A d \in Cases \ {c} : snapshot'[d] = snapshot[d]
  BY <1>1 DEF ConcurrencyInv, TypeOK
<1>3. Len(log) \in Nat \ {0} /\ DOMAIN log = 1 .. Len(log)
  BY <1>1, LastOfLog
<1>4. CASE r.op = "create"
  <2>1. Len(log) = 1 /\ log[1] = r
    BY <1>1, <1>4, OneRequest
  <2> HIDE DEF r, c, log
  <2> QED
    BY <1>1, <1>2, <1>3, <1>4, <2>1 DEF r, c, log
<1>5. CASE r.op # "create"
  <2>1. /\ Len(log) = Len(snapshot[c]) + 1 /\ log[Len(snapshot[c]) + 1] = r
        /\ \A i \in 1 .. Len(snapshot[c]) : log[i] = snapshot[c][i]
        /\ Len(snapshot[c]) \in Nat /\ DOMAIN snapshot[c] = 1 .. Len(snapshot[c])
    <3>1. log = Append(snapshot[c], r) /\ snapshot[c] \in Seq(Requests) /\ r \in Requests
      BY <1>1, <1>5
    <3> HIDE DEF r, c, log
    <3> QED
      BY <3>1, AppendLog
  <2> QED
    BY <1>1, <1>2, <1>3, <1>5, <2>1
<1> QED
  BY <1>4, <1>5

(* A creation or a batch with a key gets to work from its lookup.          *)
LEMMA OwnWay ==
  ASSUME ConcurrencyInv, NEW h \in Handlers, HandlerStep(h),
         pc'[h] \in {"load", "new", "save"}, req'[h].op # "mutate", Keyed(req'[h])
  PROVE  /\ UNCHANGED <<snapshot, req>>
         /\ \/ pc[h] \in {"load", "new"}
            \/ Replay(h) /\ idem[StoreKey(req'[h])] = Nil
<1>1. TypeOK
  BY DEF ConcurrencyInv
<1>2. ~ Stores(h)
  BY <1>1 DEF Stores, TypeOK
<1>3. UNCHANGED snapshot
  BY <1>2, OnlyStoresWrites
<1>4. /\ req' = req
      /\ \/ pc[h] \in {"load", "new"}
         \/ Replay(h) /\ idem[StoreKey(req[h])] = Nil
  BY <1>1 DEF HandlerStep, Step, Receive, Lookup, Acquire, Replay, Load, Answer,
    NewCase, SaveCase, SaveResult, SaveResultFile, SaveAudit, goto, TypeOK, Keyed
<1> QED
  BY <1>3, <1>4

(* The handlers keep the keys. *)
LEMMA HandlerKeysKept ==
  ASSUME ConcurrencyInv, KeysKept, NEW h \in Handlers, HandlerStep(h)
  PROVE  KeysKept'
<1> SUFFICES ASSUME ~ forgot
             PROVE  KeysKept'
  BY OnlyStoresWrites DEF KeysKept
<1>1. running' \in {"up", "stopping"}
  BY ResultKept
<1>2. ASSUME NEW c \in Cases, snapshot'[c] # Nil, NEW i \in DOMAIN snapshot'[c]
      PROVE  \E q \in Requests : snapshot'[c][i] = q /\ KeyHasResult(q)'
  <2>1. ASSUME snapshot[c] # Nil, i \in DOMAIN snapshot[c], snapshot'[c][i] = snapshot[c][i]
        PROVE  \E q \in Requests : snapshot'[c][i] = q /\ KeyHasResult(q)'
    <3>1. PICK r \in Requests : r = snapshot[c][i]
      BY <2>1, RequestsOfCase
    <3>2. KeyHasResult(r)
      BY <2>1, <3>1 DEF KeysKept
    <3>3. KeyHasResult(r)'
      BY <3>2, KeyKeepsResult
    <3> QED
      BY <2>1, <3>1, <3>3
  <2>2. CASE UNCHANGED snapshot
    BY <1>2, <2>1, <2>2
  <2>3. CASE Stores(h)
    <3>1. CASE c # work[h].case
      BY <1>2, <2>1, <2>3, <3>1, StoreAdds
    <3>2. CASE c = work[h].case /\ i # Len(snapshot'[c])
      <4>1. i \in 1 .. Len(snapshot'[c]) - 1
        BY <1>2, <2>3, <3>2, StoreAdds
      <4> QED
        BY <2>1, <2>3, <3>2, <4>1, StoreAdds
    <3>3. CASE c = work[h].case /\ i = Len(snapshot'[c])
      <4>1. PICK q \in Requests : q = req[h]
        BY <2>3, StoreAdds
      <4>2. snapshot'[c][i] = q /\ req'[h] = q
        BY <2>3, <3>3, <4>1, StoreAdds DEF Stores
      <4>3. Keyed(q) => pc'[h] = "remember"
        BY <2>3, <4>1 DEF Stores, ConcurrencyInv, TypeOK
      <4> QED
        BY <4>2, <4>3 DEF KeyHasResult
    <3> QED
      BY <3>1, <3>2, <3>3
  <2> QED
    BY <2>2, <2>3, OnlyStoresWrites
<1>3. ASSUME NEW g \in Handlers, pc'[g] \in {"load", "new", "save"},
             req'[g].op # "mutate", req'[g].key # Nil,
             NEW c \in Cases, snapshot'[c] # Nil, NEW i \in DOMAIN snapshot'[c],
             snapshot'[c][i].op = req'[g].op
      PROVE  StoreKey(snapshot'[c][i]) # StoreKey(req'[g])
  <2> SUFFICES ASSUME StoreKey(snapshot'[c][i]) = StoreKey(req'[g])
               PROVE  FALSE
    OBVIOUS
  <2>1. PICK q \in Requests : q = snapshot'[c][i]
    BY <1>2, <1>3
  <2>2. PICK r : r = req'[g]
    OBVIOUS
  <2>3. CASE g = h
    <3>1. /\ UNCHANGED <<snapshot, req>>
          /\ \/ pc[h] \in {"load", "new"}
             \/ Replay(h) /\ idem[StoreKey(r)] = Nil
      BY <1>3, <2>2, <2>3, OwnWay DEF Keyed
    <3>2. CASE pc[h] \in {"load", "new"}
      BY <1>3, <2>3, <3>1, <3>2, FreshKey DEF Keyed
    <3>3. CASE Replay(h) /\ idem[StoreKey(r)] = Nil
      <4>1. pc[h] = "replay" /\ mu = Nil
        BY <3>3 DEF Replay, CanRead
      <4>2. r \in Requests /\ Keyed(r)
        BY <2>2, <2>3, <3>1, <4>1, AtWork DEF ConcurrencyInv, HandlersInv, OnItsPath
      <4>3. q.op = r.op /\ StoreKey(q) = StoreKey(r)
        BY <1>3, <2>1, <2>2
      <4>4. Keyed(q)
        BY <4>2, <4>3, OneKeyOneLock DEF Keyed
      <4>5. KeyHasResult(q)
        BY <1>3, <2>1, <3>1 DEF KeysKept
      <4>6. \A k \in Handlers : pc[k] # "remember"
        BY <4>1, NilAssumption DEF ConcurrencyInv, HoldsItsLocks, Writing
      <4>7. running \in {"up", "stopping"}
        BY ResultKept
      <4> QED
        BY <3>3, <4>3, <4>4, <4>5, <4>6, <4>7 DEF KeyHasResult, Results
    <3> QED
      BY <3>1, <3>2, <3>3
  <2>4. CASE g # h
    <3>1. pc'[g] = pc[g] /\ req'[g] = req[g]
      BY <2>4, OthersUnmoved DEF ConcurrencyInv
    <3>2. ASSUME snapshot[c] # Nil, i \in DOMAIN snapshot[c], snapshot'[c][i] = snapshot[c][i]
          PROVE  FALSE
      BY <1>3, <3>1, <3>2, FreshKey DEF Keyed
    <3>3. CASE Stores(h)
      <4>1. q = req[h]
        BY <1>3, <2>1, <3>2, <3>3, StoreAdds
      <4>2. r \in Requests /\ Keyed(r) /\ InLock(g)
        BY <1>3, <2>2, <3>1, AtWork DEF ConcurrencyInv, HandlersInv, InLock, Saving, Keyed
      <4>3. LockOf(q) = LockOf(r) /\ q.key = r.key
        BY <1>3, <2>1, <2>2, <4>2, OneKeyOneLock
      <4>4. InLock(h)
        BY <3>3, <4>1, <4>2, <4>3 DEF Stores, InLock, Saving, Keyed
      <4> QED
        BY <2>2, <2>4, <3>1, <4>1, <4>2, <4>3, <4>4, LocksExclude
    <3>4. CASE UNCHANGED snapshot
      BY <1>3, <3>2, <3>4
    <3> QED
      BY <3>3, <3>4, OnlyStoresWrites
  <2> QED
    BY <2>3, <2>4
<1>4. (\A c \in Cases : snapshot[c] # Nil =>
         \A i \in DOMAIN snapshot[c] : KeyHasResult(snapshot[c][i]))'
  BY <1>2 DEF KeyHasResult, Keyed, StoreKey
<1> QED
  BY <1>1, <1>3, <1>4 DEF KeysKept, StoreKey, Keyed

(* A process that ends after its handlers leaves what memory holds in the  *)
(* file, or loses results; one that starts reads the file.                 *)
LEMMA ProcessKeysKept ==
  ASSUME ConcurrencyInv, KeysKept, ProcessStep
  PROVE  KeysKept'
<1> SUFFICES ASSUME ~ forgot'
             PROVE  KeysKept'
  BY DEF KeysKept
<1>1. ~ forgot
  <2>1. CASE Stop \/ Restart
    <3>1. forgot' = forgot
      BY <2>1 DEF Stop, Restart
    <3> QED
      BY <3>1, Zenon
  <2>2. CASE Exit
    BY <2>2, Zenon DEF Exit
  <2>3. CASE Crash
    BY <2>3, Zenon DEF Crash
  <2> QED
    BY <2>1, <2>2, <2>3 DEF ProcessStep
<1>2. TypeOK /\ idem # Torn
  BY NilAssumption DEF ConcurrencyInv, TypeOK
<1>4. CASE Stop
  <2>1. /\ Results' = Results /\ running' = "stopping"
        /\ UNCHANGED <<snapshot, pc, req>>
    BY <1>4 DEF Stop, storeVars, Results
  <2> QED
    BY <1>1, <2>1 DEF KeysKept, KeyHasResult, Keyed, StoreKey
<1>5. CASE Exit
  <2>1. idemFile = idem /\ running = "stopping" /\ running' = "down"
    BY <1>5 DEF Exit
  <2>2. /\ Results' = Results /\ \A h \in Handlers : pc[h] = "idle"
        /\ UNCHANGED <<snapshot, pc, req, idemFile>>
    BY <1>5, <2>1 DEF Exit, StoreCrash, Results
  <2> QED
    BY <1>1, <1>2, <2>1, <2>2 DEF KeysKept, KeyHasResult, Keyed, StoreKey
<1>6. CASE Restart
  <2>1. running = "down" /\ idemFile # Torn /\ \A h \in Handlers : pc[h] = "idle"
    BY <1>1, <1>6 DEF Restart, KeysKept, ConcurrencyInv
  <2>2. Results' = Results /\ UNCHANGED <<snapshot, pc, req, idemFile>>
    BY <1>6, <2>1 DEF Restart, OpenStore, Results, storeVars
  <2> QED
    BY <1>1, <2>1, <2>2 DEF KeysKept, KeyHasResult, Keyed, StoreKey
<1>7. CASE Crash
  <2>1. idemFile = idem /\ \A h \in Handlers : pc[h] # "remember"
    BY <1>7, Zenon DEF Crash
  <2>2. /\ running \in {"up", "stopping"} /\ running' = "down"
        /\ UNCHANGED <<snapshot, idemFile>> /\ \A h \in Handlers : pc'[h] = "idle"
    BY <1>7 DEF Crash, StoreCrash
  <2>3. Results = idem /\ Results' = idem
    BY <2>1, <2>2 DEF Results
  <2> QED
    BY <1>1, <1>2, <2>1, <2>2, <2>3 DEF KeysKept, KeyHasResult, Keyed, StoreKey
<1> QED
  BY <1>4, <1>5, <1>6, <1>7 DEF ProcessStep

(* A store needs the store's mutex and a process that runs. *)
LEMMA StoreNeeds ==
  ASSUME ConcurrencyInv, NEW h \in Handlers, HandlerStep(h), Stores(h)
  PROVE  /\ running \in {"up", "stopping"} /\ mu = Nil
         /\ pc[h] = "save" /\ forgot' = forgot
BY ResultKept, OnlyStoresWrites, StoreAdds DEF Stores

LEMMA HandlerCreatedOnce ==
  ASSUME ConcurrencyInv, KeysKept, CreatedOnce, NEW h \in Handlers, HandlerStep(h)
  PROVE  CreatedOnce'
<1>1. CASE UNCHANGED snapshot
  BY <1>1, OnlyStoresWrites DEF CreatedOnce, Keyed
<1>2. CASE Stores(h)
  <2> DEFINE e == work[h].case
  <2> SUFFICES ASSUME ~ forgot, NEW c \in Cases, NEW d \in Cases, c # d,
                      snapshot'[c] # Nil, snapshot'[d] # Nil,
                      snapshot'[c][1].key # Nil,
                      snapshot'[c][1].key = snapshot'[d][1].key
               PROVE  FALSE
    BY <1>2, StoreNeeds DEF CreatedOnce, Keyed
  <2>1. ASSUME NEW x \in Cases, NEW y \in Cases, x # y, x = e,
               snapshot'[x] # Nil, snapshot'[y] # Nil, snapshot[x] = Nil,
               snapshot'[x][1].key # Nil, snapshot'[x][1].key = snapshot'[y][1].key
        PROVE  FALSE
    <3>1. req[h].op = "create" /\ snapshot'[x][1] = req[h] /\ req[h] \in Requests
      BY <1>2, <2>1, StoreAdds
    <3>2. snapshot'[y] = snapshot[y]
      BY <1>2, <2>1, StoreAdds
    <3>3. /\ snapshot[y][1] \in Requests /\ snapshot[y][1].op = "create"
          /\ 1 \in DOMAIN snapshot[y] /\ snapshot[y] # Nil
      BY <2>1, <3>2, RequestsOfCase
    <3>4. StoreKey(snapshot[y][1]) = StoreKey(req[h])
      BY <2>1, <3>1, <3>2, <3>3, RequestFacts DEF StoreKey
    <3>5. Keyed(req[h]) /\ Keyed(snapshot[y][1])
      BY <2>1, <3>1, <3>2 DEF Keyed
    <3> QED
      BY <1>2, <3>1, <3>3, <3>4, <3>5, FreshKey, StoreNeeds
  <2>2. ASSUME NEW x \in Cases, snapshot'[x] # Nil, snapshot[x] # Nil
        PROVE  snapshot'[x][1] = snapshot[x][1]
    <3>1. CASE x # e
      BY <1>2, <3>1, StoreAdds
    <3>2. CASE x = e
      <4>1. /\ Len(snapshot'[x]) = Len(snapshot[x]) + 1
            /\ \A i \in 1 .. Len(snapshot'[x]) - 1 : snapshot'[x][i] = snapshot[x][i]
        BY <1>2, <2>2, <3>2, StoreAdds
      <4>2. Len(snapshot[x]) \in Nat \ {0}
        BY <2>2, RequestsOfCase
      <4> QED
        BY <4>1, <4>2
    <3> QED
      BY <3>1, <3>2
  <2>3. \A x \in Cases : x # e => snapshot'[x] = snapshot[x]
    BY <1>2, StoreAdds
  <2>4. CASE snapshot[c] # Nil /\ snapshot[d] # Nil
    BY <2>2, <2>4 DEF CreatedOnce, Keyed
  <2>5. CASE snapshot[c] = Nil
    <3>1. c = e
      BY <2>3, <2>5
    <3> QED
      BY <2>1, <2>5, <3>1
  <2>6. CASE snapshot[d] = Nil
    <3>1. d = e
      BY <2>3, <2>6
    <3> QED
      BY <2>1, <2>6, <3>1
  <2> QED
    BY <2>4, <2>5, <2>6
<1> QED
  BY <1>1, <1>2, OnlyStoresWrites

LEMMA HandlerBatchOnce ==
  ASSUME ConcurrencyInv, KeysKept, BatchAppliedOnce, NEW h \in Handlers, HandlerStep(h)
  PROVE  BatchAppliedOnce'
<1>1. CASE UNCHANGED snapshot
  BY <1>1, OnlyStoresWrites DEF BatchAppliedOnce, Keyed
<1>2. CASE Stores(h)
  <2> DEFINE e == work[h].case
             n == Len(snapshot'[e])
  <2> SUFFICES ASSUME ~ forgot, NEW c \in Cases, snapshot'[c] # Nil,
                      NEW i \in DOMAIN snapshot'[c], NEW j \in DOMAIN snapshot'[c], i # j,
                      snapshot'[c][i].op = "batch", snapshot'[c][j].op = "batch",
                      snapshot'[c][i].key # Nil,
                      snapshot'[c][i].key = snapshot'[c][j].key
               PROVE  FALSE
    BY <1>2, StoreNeeds DEF BatchAppliedOnce, Keyed
  <2>1. /\ DOMAIN snapshot'[e] = 1 .. n /\ n \in Nat \ {0}
        /\ snapshot'[e][n] = req[h] /\ req[h] \in Requests /\ e \in Cases
        /\ req[h].op # "create" => req[h].case = e
        /\ \A k \in 1 .. n - 1 :
             /\ snapshot[e] # Nil /\ k \in DOMAIN snapshot[e]
             /\ snapshot'[e][k] = snapshot[e][k]
    BY <1>2, StoreAdds
  <2>2. CASE c # e
    <3>1. snapshot'[c] = snapshot[c]
      BY <1>2, <2>2, StoreAdds
    <3> QED
      BY <3>1 DEF BatchAppliedOnce, Keyed
  <2>3. CASE c = e /\ i # n /\ j # n
    <3>1. /\ snapshot[c] # Nil /\ i \in DOMAIN snapshot[c] /\ j \in DOMAIN snapshot[c]
          /\ snapshot'[c][i] = snapshot[c][i] /\ snapshot'[c][j] = snapshot[c][j]
      BY <2>1, <2>3
    <3> QED
      BY <3>1 DEF BatchAppliedOnce, Keyed
  <2>4. ASSUME c = e, NEW k \in 1 .. n - 1, snapshot'[c][k].op = "batch",
               req[h].op = "batch", req[h].key # Nil, snapshot'[c][k].key = req[h].key
        PROVE  FALSE
    <3>1. snapshot[c] # Nil /\ k \in DOMAIN snapshot[c] /\ snapshot'[c][k] = snapshot[c][k]
      BY <2>1, <2>4
    <3>2. snapshot[c][k].case = c
      BY <2>4, <3>1, RequestsOfCase
    <3>3. StoreKey(snapshot[c][k]) = StoreKey(req[h])
      BY <2>1, <2>4, <3>1, <3>2 DEF StoreKey
    <3>4. Keyed(snapshot[c][k]) /\ Keyed(req[h])
      BY <2>4, <3>1 DEF Keyed
    <3> QED
      BY <1>2, <2>4, <3>1, <3>3, <3>4, FreshKey, StoreNeeds
  <2> HIDE DEF n, e
  <2>5. CASE c = e /\ i = n
    <3>1. j \in 1 .. n - 1
      BY <2>1, <2>5
    <3> QED
      BY <2>1, <2>4, <2>5, <3>1
  <2>6. CASE c = e /\ j = n
    <3>1. i \in 1 .. n - 1
      BY <2>1, <2>6
    <3> QED
      BY <2>1, <2>4, <2>6, <3>1
  <2> QED
    BY <2>2, <2>3, <2>5, <2>6
<1> QED
  BY <1>1, <1>2, OnlyStoresWrites

(* A batch that is in its case is not refused while no result is lost: its *)
(* key has its result, which is its own.                                   *)
LEMMA RetryNotRefused ==
  ASSUME ConcurrencyInv, ResultsInv, KeysKept, BatchAppliedOnce, ~ forgot,
         NEW h \in Handlers, HandlerStep(h), Refuses(h), req[h] \in Requests,
         req[h].op = "batch", Keyed(req[h]), ~ SharesItsKey(req[h]), Applied(req[h])
  PROVE  FALSE
<1> DEFINE r == req[h]
           found == idem[StoreKey(r)]
<1>1. TypeOK /\ OnItsPath(h) /\ running \in {"up", "stopping"}
  BY ResultKept DEF ConcurrencyInv
<1>c. PICK c \in Cases : In(snapshot[c], r)
  BY DEF Applied
<1>2. PICK i \in DOMAIN snapshot[c] : snapshot[c] # Nil /\ snapshot[c][i] = r
  BY <1>c DEF In
<1>3. r.case = c
  BY <1>2, RequestsOfCase
<1>4. CASE Load(h)
  <2>1. pc[h] = "load"
    BY <1>4 DEF Load
  <2> QED
    BY <1>2, <2>1, FreshKey
<1>5. CASE NewCase(h)
  BY <1>1, <1>5 DEF NewCase, OnItsPath
<1>6. CASE Replay(h) /\ found # Nil /\ ~ SameRequest(found, r)
  <2> DEFINE last == found.log[Len(found.log)]
  <2>1. StoreKey(r) \in StoreKeys
    BY RequestFacts
  <2>2. Sound(StoreKey(r), found, snapshot) /\ found.log \in Seq(Requests)
    BY <1>1, <1>6, <2>1, ResultsBySound, ResultTypes DEF ResultsInv
  <2>3. /\ Len(found.log) \in Nat \ {0} /\ last \in Requests
        /\ StoreKey(last) = StoreKey(r) /\ found.fingerprint = Fingerprint(last, found.log)
    BY <2>2, LastOfLog DEF Sound
  <2>4. last.op = "batch"
    BY <2>3 DEF SharesItsKey
  <2>5. last.key = r.key /\ last.case = r.case /\ Keyed(last)
    BY <2>3, <2>4, OneKeyOneLock DEF Keyed
  <2>6. Prefix(found.log, snapshot[c])
    BY <1>3, <2>2, <2>4, <2>5 DEF Sound
  <2>7. Len(found.log) \in DOMAIN snapshot[c] /\ snapshot[c][Len(found.log)] = last
    <3>1. snapshot[c] \in Seq(Requests) /\ DOMAIN snapshot[c] = 1 .. Len(snapshot[c])
      BY <1>2, RequestsOfCase
    <3>2. /\ Len(found.log) <= Len(snapshot[c])
          /\ \A k \in 1 .. Len(found.log) : found.log[k] = snapshot[c][k]
      BY <2>2, <2>6, <3>1, PrefixByElements
    <3>3. Len(snapshot[c]) \in Nat
      BY <3>1, LenProperties
    <3> QED
      BY <2>3, <3>1, <3>2, <3>3
  <2>8. last = r
    BY <1>2, <2>4, <2>5, <2>7 DEF BatchAppliedOnce, Keyed
  <2> QED
    BY <1>6, <2>3, <2>4, <2>8 DEF SameRequest, Fingerprint, RequestFingerprint
<1> QED
  BY <1>4, <1>5, <1>6 DEF Refuses

LEMMA HandlerRetrySafe ==
  ASSUME ConcurrencyInv, ResultsInv, KeysInv, NEW h \in Handlers, HandlerStep(h)
  PROVE  BatchRetrySafe'
<1>1. CASE UNCHANGED answers
  BY <1>1 DEF KeysInv, BatchRetrySafe, Keyed, SharesItsKey
<1>2. ASSUME NEW result, NEW log, Answer(h, result, log), req[h] \in Requests,
             IF result = "ok" THEN Succeeds(h, log) ELSE result = "ioError" \/ Refuses(h)
      PROVE  BatchRetrySafe'
  <2>1. PICK a : /\ answers' = answers \cup {a}
                 /\ a.request = req[h] /\ a.result = result
                 /\ a.applied = Applied(req[h]) /\ a.forgot = forgot
    BY <1>2, AnswerRecord
  <2>2. /\ a.request.op = "batch" /\ Keyed(a.request) /\ a.applied
        /\ ~ SharesItsKey(a.request)
        /\ a.result # "ioError" /\ ~ a.forgot
        => a.result = "ok"
    BY <1>2, <2>1, RetryNotRefused DEF KeysInv
  <2> QED
    BY <2>1, <2>2 DEF KeysInv, BatchRetrySafe, Keyed, SharesItsKey
<1> QED
  BY <1>1, <1>2, Answering

LEMMA NextKeys ==
  ASSUME ConcurrencyInv, ResultsInv, KeysInv, Next
  PROVE  KeysInv'
<1>1. CASE ProcessStep
  <2>1. UNCHANGED <<snapshot, answers>> /\ (forgot => forgot')
    <3>1. UNCHANGED <<snapshot, answers>>
      BY <1>1, ProcessLeavesHandlers
    <3>2. \/ forgot' = forgot \/ forgot' = (forgot \/ idemFile # idem)
          \/ forgot' = (forgot \/ idemFile # idem \/ \E h \in Handlers : pc[h] = "remember")
      BY <1>1 DEF ProcessStep, Crash, Stop, Exit, Restart
    <3>3. forgot => forgot'
      BY <3>2, Zenon
    <3> QED
      BY <3>1, <3>3
  <2>2. (CreatedOnce /\ BatchAppliedOnce)'
    BY <2>1 DEF KeysInv, CreatedOnce, BatchAppliedOnce, Keyed
  <2>3. BatchRetrySafe'
    BY <2>1 DEF KeysInv, BatchRetrySafe, Keyed, SharesItsKey
  <2> QED
    BY <1>1, <2>2, <2>3, ProcessKeysKept DEF KeysInv
<1>2. ASSUME NEW h \in Handlers, HandlerStep(h)
      PROVE  KeysInv'
  BY <1>2, HandlerKeysKept, HandlerCreatedOnce, HandlerBatchOnce, HandlerRetrySafe
  DEF KeysInv
<1> QED
  BY <1>1, <1>2, NextIsHandlerOrProcess

LEMMA StartKeys ==
  ASSUME Init
  PROVE  KeysInv
<1>1. \A c \in Cases : snapshot[c] # Nil =>
        /\ DOMAIN snapshot[c] = {1} /\ ~ Keyed(snapshot[c][1])
  <2> TAKE c \in Cases
  <2> SUFFICES ASSUME snapshot[c] # Nil
               PROVE  DOMAIN snapshot[c] = {1} /\ ~ Keyed(snapshot[c][1])
    OBVIOUS
  <2>1. /\ snapshot[c] \in Seq(Requests) /\ Len(snapshot[c]) = 1
        /\ ~ Keyed(snapshot[c][1])
    BY StartOfCases
  <2>2. DOMAIN snapshot[c] = 1 .. 1
    BY <2>1, LenProperties
  <2> QED
    BY <2>1, <2>2
<1>2. KeysKept
  BY <1>1 DEF Init, KeysKept, KeyHasResult
<1>3. CreatedOnce /\ BatchAppliedOnce
  BY <1>1 DEF CreatedOnce, BatchAppliedOnce
<1> QED
  BY <1>2, <1>3 DEF Init, KeysInv, BatchRetrySafe

LEMMA StutterKeys ==
  ASSUME KeysInv, UNCHANGED vars
  PROVE  KeysInv'
BY DEF KeysInv, KeysKept, KeyHasResult, Results, CreatedOnce, BatchAppliedOnce,
  BatchRetrySafe, SharesItsKey, Keyed, StoreKey, vars, storeVars, serviceVars

(* As long as no result is lost with a process, an idempotency key stands  *)
(* for its request.                                                        *)
THEOREM KeysAreKept == Spec => []KeysInv
<1>1. Init => KeysInv
  BY StartKeys
<1>2. ConcurrencyInv /\ ResultsInv /\ KeysInv /\ [Next]_vars => KeysInv'
  BY NextKeys, StutterKeys
<1> QED
  BY <1>1, <1>2, HandlersKeepApart, ResultsAreSound, PTL DEF Spec

(* One creation key, one case (Create: the lookup under the mutex of the   *)
(* key, with the result stored by Save).                                   *)
THEOREM OneCaseForAKey == Spec => []CreatedOnce
<1>1. KeysInv => CreatedOnce
  BY DEF KeysInv
<1> QED
  BY <1>1, KeysAreKept, PTL

(* One batch key, one batch in the case (ObserveBatch).                    *)
THEOREM OneBatchForAKey == Spec => []BatchAppliedOnce
<1>1. KeysInv => BatchAppliedOnce
  BY DEF KeysInv
<1> QED
  BY <1>1, KeysAreKept, PTL

(* A batch that was applied may be sent again and is answered with success *)
(* (ObserveBatch looks for the result before it checks the version).       *)
THEOREM BatchMayBeRetried == Spec => []BatchRetrySafe
<1>1. KeysInv => BatchRetrySafe
  BY DEF KeysInv
<1> QED
  BY <1>1, KeysAreKept, PTL

-----------------------------------------------------------------------------
(* The audit logs. *)

NoTornLine == \A c \in Cases : \A i \in DOMAIN audit[c] : audit[c][i] # TornLine

(* A log with one line more. *)
LEMMA AuditLine ==
  ASSUME NEW lines \in Seq(Nat), NEW n \in Nat
  PROVE  /\ DOMAIN lines = 1 .. Len(lines) /\ Len(lines) \in Nat
         /\ DOMAIN Append(lines, n) = 1 .. Len(lines) + 1
         /\ Append(lines, n)[Len(lines) + 1] = n
         /\ \A i \in 1 .. Len(lines) : Append(lines, n)[i] = lines[i] /\ lines[i] \in Nat
<1>1. /\ Append(lines, n) \in Seq(Nat) /\ Len(Append(lines, n)) = Len(lines) + 1
      /\ Append(lines, n)[Len(lines) + 1] = n
      /\ \A i \in 1 .. Len(lines) : Append(lines, n)[i] = lines[i]
  BY AppendProperties
<1> QED
  BY <1>1, LenProperties, ElementOfSeq

(* Only the end of Save writes a line: the version that was saved, or one  *)
(* cut short.                                                              *)
LEMMA AuditMoves ==
  ASSUME ConcurrencyInv, NEW h \in Handlers, HandlerStep(h)
  PROVE  \/ UNCHANGED audit
         \/ /\ SaveAudit(h) /\ UNCHANGED snapshot
            /\ Writing(h) /\ mu = h /\ mu' = Nil /\ work[h].case \in Cases
            /\ snapshot[work[h].case] = work[h].log
            /\ Len(work[h].log) \in Nat \ {0} /\ work[h].log # Nil
            /\ \E n \in {Len(work[h].log), TornLine} :
                 audit' = [audit EXCEPT ![work[h].case] = Append(audit[work[h].case], n)]
<1>1. ASSUME NEW r \in Requests, Receive(h, r)
      PROVE  UNCHANGED audit
  BY <1>1 DEF Receive, storeVars
<1>2. CASE Lookup(h) \/ Acquire(h) \/ Replay(h) \/ Load(h) \/ NewCase(h)
  BY <1>2 DEF Lookup, Acquire, Replay, Load, NewCase, storeVars
<1>3. CASE SaveCase(h) \/ SaveResult(h) \/ SaveResultFile(h)
  BY <1>3 DEF SaveCase, SaveSnapshot, SaveSnapshotFails, SaveResult, Remember,
    RememberUnwritten, SaveResultFile, WriteIdempotency
<1>4. CASE SaveAudit(h)
  <2> DEFINE c == work[h].case
             log == work[h].log
  <2>1. pc[h] = "audit" /\ UNCHANGED snapshot /\ mu = h /\ mu' = Nil
    BY <1>4 DEF SaveAudit, appendAudit, appendAuditFails
  <2>2. /\ c \in Cases /\ log \in Seq(Requests) /\ log # <<>> /\ log # Nil
        /\ snapshot[c] = log
    BY <2>1, AtWork DEF ConcurrencyInv, HandlersInv, Saving, Writing
  <2>3. Len(log) \in Nat \ {0}
    BY <2>2, LastOfLog
  <2>4. \/ UNCHANGED audit
        \/ audit' = [audit EXCEPT ![c] = Append(audit[c], Len(log))]
        \/ audit' = [audit EXCEPT ![c] = Append(audit[c], TornLine)]
    <3>1. CASE appendAudit(h, c)
      BY <2>2, <3>1 DEF appendAudit
    <3>2. CASE appendAuditFails(h, c)
      BY <3>2 DEF appendAuditFails
    <3> QED
      BY <1>4, <3>1, <3>2 DEF SaveAudit
  <2> QED
    BY <1>4, <2>1, <2>2, <2>3, <2>4 DEF Writing
<1> QED
  BY <1>1, <1>2, <1>3, <1>4 DEF HandlerStep, Step

LEMMA HandlerAuditBehind ==
  ASSUME ConcurrencyInv, AuditBehind, NEW h \in Handlers, HandlerStep(h)
  PROVE  AuditBehind'
<1>1. TypeOK /\ HandlersInv
  BY DEF ConcurrencyInv, HandlersInv
<1>2. \A g \in Handlers : Writing(g) => mu = g
  BY DEF ConcurrencyInv, HoldsItsLocks
<1>3. CASE Stores(h)
  <2> DEFINE e == work[h].case
             log == work[h].log
  <2>1. /\ e \in Cases /\ snapshot'[e] = log /\ log # Nil /\ mu = Nil
        /\ \A d \in Cases \ {e} : snapshot'[d] = snapshot[d]
        /\ audit' = audit /\ work' = work
    BY <1>1, <1>3, StoredLog DEF Stores, SaveSnapshot, TypeOK
  <2>2. /\ req[h].op = "create" => snapshot[e] = Nil
        /\ req[h].op # "create" => Len(log) = Len(snapshot[e]) + 1
        /\ Len(log) \in Nat \ {0} /\ snapshot[e] # Nil => Len(snapshot[e]) \in Nat \ {0}
    BY <1>3, <2>1, StoreAdds, RequestsOfCase
  <2>3. \A i \in DOMAIN audit[e] : audit[e][i] < Len(log)
    <3> TAKE i \in DOMAIN audit[e]
    <3>1. snapshot[e] # Nil /\ audit[e][i] <= Len(snapshot[e])
      BY <2>1 DEF AuditBehind
    <3>2. audit[e][i] \in Nat
      BY <1>1, <2>1, AuditLine, ElementOfSeq DEF TypeOK
    <3> QED
      BY <2>2, <3>1, <3>2
  <2>4. \A c \in Cases : \A i \in DOMAIN audit[c] :
          snapshot'[c] # Nil /\ audit[c][i] <= Len(snapshot'[c])
    <3> TAKE c \in Cases
    <3> TAKE i \in DOMAIN audit[c]
    <3>1. CASE c # e
      BY <2>1, <3>1 DEF AuditBehind
    <3>2. CASE c = e
      <4>1. audit[c][i] \in Nat
        BY <1>1, AuditLine, ElementOfSeq DEF TypeOK
      <4> QED
        BY <2>1, <2>2, <2>3, <3>2, <4>1
    <3> QED
      BY <3>1, <3>2
  <2>5. \A g \in Handlers : Writing(g)' => g = h
    BY <1>1, <1>2, <2>1, OthersUnmoved, NilAssumption DEF Writing
  <2> QED
    BY <2>1, <2>3, <2>4, <2>5 DEF AuditBehind
<1>4. CASE UNCHANGED <<audit, snapshot>> /\ ~ Stores(h)
  <2>1. ASSUME NEW g \in Handlers, Writing(g)'
        PROVE  Writing(g) /\ work'[g] = work[g]
    <3>1. CASE g # h
      BY <1>1, <2>1, <3>1, OthersUnmoved DEF Writing
    <3>2. CASE g = h
      <4>1. ~ SaveCase(h)
        BY <1>1, <1>4, <2>1, <3>2 DEF SaveCase, Stores, goto, Answer, Writing, TypeOK
      <4> QED
        BY <1>1, <2>1, <3>2, <4>1 DEF HandlerStep, Step, Receive, Lookup, Acquire, Replay,
          Load, NewCase, SaveResult, SaveResultFile, WriteIdempotency, SaveAudit,
          goto, Answer, Writing, TypeOK
    <3> QED
      BY <3>1, <3>2
  <2> QED
    BY <1>4, <2>1 DEF AuditBehind
<1>5. ASSUME SaveAudit(h), UNCHANGED snapshot, Writing(h), mu = h, mu' = Nil,
             work[h].case \in Cases, snapshot[work[h].case] = work[h].log,
             Len(work[h].log) \in Nat \ {0}, work[h].log # Nil,
             NEW n \in {Len(work[h].log), TornLine},
             audit' = [audit EXCEPT ![work[h].case] = Append(audit[work[h].case], n)]
      PROVE  AuditBehind'
  <2> DEFINE e == work[h].case
  <2>1. \A g \in Handlers : ~ Writing(g)'
    <3>1. ConcurrencyInv'
      BY HandlerConcurrency
    <3> QED
      BY <1>5, <3>1, NilAssumption DEF ConcurrencyInv, HoldsItsLocks
  <2>2. n \in Nat /\ n <= Len(snapshot[e])
    BY <1>5 DEF TornLine
  <2>3. audit[e] \in Seq(Nat)
    BY <1>1, <1>5 DEF TypeOK
  <2>4. /\ audit'[e] = Append(audit[e], n)
        /\ \A d \in Cases \ {e} : audit'[d] = audit[d]
    BY <1>1, <1>5 DEF TypeOK
  <2>5. \A i \in DOMAIN audit'[e] : audit'[e][i] <= Len(snapshot[e])
    <3>1. /\ DOMAIN audit[e] = 1 .. Len(audit[e]) /\ Len(audit[e]) \in Nat
          /\ DOMAIN audit'[e] = 1 .. Len(audit[e]) + 1
          /\ audit'[e][Len(audit[e]) + 1] = n
          /\ \A i \in 1 .. Len(audit[e]) : audit'[e][i] = audit[e][i]
      BY <2>2, <2>3, <2>4, AuditLine
    <3>2. \A i \in DOMAIN audit[e] : audit[e][i] <= Len(snapshot[e])
      BY <1>5 DEF AuditBehind
    <3> HIDE DEF e
    <3> QED
      BY <2>2, <3>1, <3>2
  <2> QED
    BY <1>5, <2>1, <2>4, <2>5 DEF AuditBehind
<1> QED
  BY <1>3, <1>4, <1>5, AuditMoves, OnlyStoresWrites

(* With no line cut short, the lines of each log grow, and the store opens.*)
LEMMA HandlerLogsOpen ==
  ASSUME ConcurrencyInv, AuditBehind, NEW h \in Handlers, HandlerStep(h),
         NoTornLine => CanOpen, NoTornLine'
  PROVE  NoTornLine /\ CanOpen'
<1>1. TypeOK
  BY DEF ConcurrencyInv
<1>2. CASE UNCHANGED audit
  BY <1>2 DEF NoTornLine, CanOpen, ValidateAudit
<1>3. ASSUME Writing(h), NEW e \in Cases, e = work[h].case, Len(work[h].log) \in Nat \ {0},
             NEW n \in {Len(work[h].log), TornLine},
             audit' = [audit EXCEPT ![e] = Append(audit[e], n)]
      PROVE  NoTornLine /\ CanOpen'
  <2> DEFINE m == Len(audit[e])
  <2>1. audit[e] \in Seq(Nat) /\ n \in Nat
    BY <1>1, <1>3 DEF TypeOK, TornLine
  <2>2. /\ audit'[e] = Append(audit[e], n)
        /\ \A d \in Cases \ {e} : audit'[d] = audit[d]
    BY <1>1, <1>3 DEF TypeOK
  <2>3. /\ DOMAIN audit[e] = 1 .. m /\ m \in Nat
        /\ DOMAIN audit'[e] = 1 .. m + 1 /\ audit'[e][m + 1] = n
        /\ \A i \in 1 .. m : audit'[e][i] = audit[e][i] /\ audit[e][i] \in Nat
    BY <2>1, <2>2, AuditLine
  <2>4. n # TornLine
    <3>1. m + 1 \in DOMAIN audit'[e]
      BY <2>3
    <3>2. audit'[e][m + 1] # TornLine
      BY <3>1 DEF NoTornLine
    <3> QED
      BY <2>3, <3>2
  <2>5. n = Len(work[h].log) /\ n > 0 /\ \A i \in 1 .. m : audit[e][i] < n
    BY <1>3, <2>3, <2>4 DEF AuditBehind
  <2>6. NoTornLine
    <3> SUFFICES ASSUME NEW c \in Cases, NEW i \in DOMAIN audit[c]
                 PROVE  audit[c][i] # TornLine
      BY DEF NoTornLine
    <3>1. CASE c # e
      BY <2>2, <3>1 DEF NoTornLine
    <3>2. CASE c = e
      <4>1. i \in 1 .. m /\ i \in DOMAIN audit'[e]
        BY <2>3, <3>2
      <4> QED
        BY <1>3, <2>3, <3>2, <4>1 DEF NoTornLine
    <3> QED
      BY <3>1, <3>2
  <2>7. \A c \in Cases : ValidateAudit(c)
    BY <2>6 DEF CanOpen
  <2>8. ValidateAudit(e)'
    <3> SUFFICES ASSUME NEW i \in 1 .. m + 1
                 PROVE  audit'[e][i] > IF i = 1 THEN 0 ELSE audit'[e][i - 1]
      BY <1>3, <2>3 DEF ValidateAudit
    <3>1. CASE i = m + 1
      BY <2>3, <2>5, <3>1
    <3>2. CASE i \in 1 .. m
      <4>1. audit[e][i] > IF i = 1 THEN 0 ELSE audit[e][i - 1]
        BY <1>3, <2>3, <2>7, <3>2 DEF ValidateAudit
      <4> QED
        BY <2>3, <3>2, <4>1
    <3> QED
      BY <2>3, <3>1, <3>2
  <2> QED
    BY <2>2, <2>6, <2>7, <2>8 DEF CanOpen, ValidateAudit
<1> QED
  BY <1>2, <1>3, AuditMoves

LEMMA NextAudit ==
  ASSUME ConcurrencyInv, AuditInv, Next
  PROVE  AuditInv'
<1>1. NoTornLine => running # "refused" /\ CanOpen
  BY DEF AuditInv, AuditInOrder, NoTornLine
<1>2. AuditBehind
  BY DEF AuditInv
<1>3. ASSUME AuditBehind', NoTornLine' => running' # "refused" /\ CanOpen'
      PROVE  AuditInv'
  BY <1>3 DEF AuditInv, AuditInOrder, AuditBehind, NoTornLine
<1>4. ASSUME NEW h \in Handlers, HandlerStep(h)
      PROVE  AuditInv'
  <2>1. NoTornLine' => NoTornLine /\ CanOpen'
    BY <1>1, <1>2, <1>4, HandlerLogsOpen
  <2>2. running' # "refused"
    BY <1>4, ResultKept
  <2> QED
    BY <1>2, <1>3, <1>4, <2>1, <2>2, HandlerAuditBehind
<1>5. CASE ProcessStep
  <2>1. UNCHANGED <<snapshot, audit>>
    BY <1>5, ProcessLeavesHandlers
  <2>2. AuditBehind'
    <3>1. CASE \A h \in Handlers : pc'[h] = "idle"
      BY <1>2, <2>1, <3>1 DEF AuditBehind, Writing
    <3>2. CASE UNCHANGED <<pc, work>>
      BY <1>2, <2>1, <3>2 DEF AuditBehind, Writing
    <3> QED
      BY <1>5, <3>1, <3>2, ProcessLeavesHandlers
  <2>3. NoTornLine' => NoTornLine /\ CanOpen /\ CanOpen'
    BY <1>1, <2>1 DEF NoTornLine, CanOpen, ValidateAudit
  <2>4. CanOpen => running' # "refused"
    BY <1>5 DEF ProcessStep, Crash, Stop, Exit, Restart
  <2> QED
    BY <1>3, <2>2, <2>3, <2>4
<1> QED
  BY <1>4, <1>5, NextIsHandlerOrProcess

LEMMA StartAudit ==
  ASSUME Init
  PROVE  AuditInv
<1>1. \A c \in Cases : \A i \in DOMAIN audit[c] :
        i = 1 /\ audit[c][i] = 1 /\ snapshot[c] # Nil /\ Len(snapshot[c]) = 1
  <2> TAKE c \in Cases
  <2>1. CASE audit[c] = <<>>
    BY <2>1
  <2>2. CASE audit[c] = <<1>> /\ snapshot[c] # Nil /\ Len(snapshot[c]) = 1
    BY <2>2
  <2> QED
    BY <2>1, <2>2, StartOfCases
<1>2. AuditBehind
  BY <1>1 DEF Init, AuditBehind, Writing
<1>3. CanOpen
  BY <1>1 DEF CanOpen, ValidateAudit
<1> QED
  BY <1>2, <1>3 DEF Init, AuditInv, AuditInOrder, AuditBehind

LEMMA StutterAudit ==
  ASSUME AuditInv, UNCHANGED vars
  PROVE  AuditInv'
BY DEF AuditInv, AuditBehind, AuditInOrder, CanOpen, ValidateAudit, Writing,
  vars, storeVars, serviceVars

(* The audit log is written last, under the store's mutex (appendAudit).   *)
THEOREM AuditFollows == Spec => []AuditInv
<1>1. Init => AuditInv
  BY StartAudit
<1>2. ConcurrencyInv /\ AuditInv /\ [Next]_vars => AuditInv'
  BY NextAudit, StutterAudit
<1> QED
  BY <1>1, <1>2, HandlersKeepApart, PTL DEF Spec

(* After any crash the store opens, unless a line was cut short            *)
(* (appendAudit, validateAudit).                                           *)
THEOREM AuditOpens == Spec => []AuditInOrder
<1>1. AuditInv => AuditInOrder
  BY DEF AuditInv
<1> QED
  BY <1>1, AuditFollows, PTL

(* Everything the service keeps up at once, the invariant of the runs.     *)
THEOREM ServiceKeepsInv == Spec => []ServiceInv
<1>1. ConcurrencyInv /\ ResultsInv /\ KeysInv /\ AuditInv => ServiceInv
  BY DEF ServiceInv
<1> QED
  BY <1>1, HandlersKeepApart, ResultsAreSound, KeysAreKept, AuditFollows, PTL
=============================================================================

-------------------- MODULE ServiceImplementsCases_proofs --------------------
(***************************************************************************)
(* The service implements VersionedCases, step by step: a save creates a   *)
(* case or applies a request, an answer with success tells of a log, and   *)
(* everything else changes nothing that clients can see.                   *)
(***************************************************************************)
EXTENDS ServiceImplementsCases, CommissioningService_proofs

(* The logs that clients have been told of. *)
Told == {a.log : a \in {b \in answers : b.result = "ok"}}

LEMMA SamePrefix ==
  \A short, long : Abstract!IsPrefix(short, long) <=> Prefix(short, long)
BY DEF Abstract!IsPrefix, Prefix

(* A save creates the case or applies its request at the version it        *)
(* expects.                                                                *)
LEMMA StoreImplements ==
  ASSUME ConcurrencyInv, NEW h \in Handlers, Stores(h)
  PROVE  Abstract!Next
<1> DEFINE r == req[h]
           c == work[h].case
           log == work[h].log
<1>1. /\ r \in Requests /\ c \in Cases
      /\ snapshot' = [snapshot EXCEPT ![c] = log]
      /\ \/ /\ r.op = "create" /\ snapshot[c] = Nil /\ log = <<r>>
         \/ /\ r.op # "create" /\ r.case = c /\ snapshot[c] # Nil
            /\ r.expected = Len(snapshot[c]) /\ log = Append(snapshot[c], r)
  BY StoredLog
<1>2. Told' = Told
  BY DEF Stores, Told
<1>3. CASE r.op = "create"
  <2>1. snapshot[c] = Nil /\ snapshot' = [snapshot EXCEPT ![c] = <<r>>]
    BY <1>1, <1>3
  <2>2. Abstract!Create(c, r)
    BY <1>2, <1>3, <2>1 DEF Abstract!Create, Told
  <2> QED
    BY <1>1, <2>2 DEF Abstract!Next
<1>4. CASE r.op # "create"
  <2>1. /\ r.case = c /\ snapshot[c] # Nil /\ r.expected = Len(snapshot[c])
        /\ snapshot' = [snapshot EXCEPT ![c] = Append(snapshot[c], r)]
    BY <1>1, <1>4
  <2>2. Abstract!Apply(c, r)
    BY <1>2, <1>4, <2>1 DEF Abstract!Apply, Told
  <2> QED
    BY <1>1, <2>2 DEF Abstract!Next
<1> QED
  BY <1>3, <1>4

(* What a success tells is part of a case. *)
LEMMA SuccessIsPrefix ==
  ASSUME ConcurrencyInv, ResultsInv, NEW h \in Handlers, req[h] \in Requests,
         NEW log, Succeeds(h, log)
  PROVE  \E c \in Cases : Prefix(log, snapshot[c])
<1>1. CASE SaveAudit(h) /\ log = work[h].log
  <2>1. /\ work[h].case \in Cases /\ log \in Seq(Requests)
        /\ snapshot[work[h].case] = log
    BY <1>1, AtWork DEF ConcurrencyInv, HandlersInv, SaveAudit, Saving, Writing
  <2>2. Len(log) \in Nat
    BY <2>1, LenProperties
  <2>3. Prefix(log, log)
    BY <2>1, <2>2, PrefixByElements
  <2> QED
    BY <2>1, <2>3
<1>2. CASE /\ Keyed(req[h]) /\ log = idem[StoreKey(req[h])].log
           /\ idem[StoreKey(req[h])] # Nil
  <2>1. StoreKey(req[h]) \in StoreKeys
    BY <1>2, RequestFacts
  <2>2. Sound(StoreKey(req[h]), idem[StoreKey(req[h])], snapshot)
    BY <1>2, <2>1, ResultsBySound DEF ResultsInv
  <2> QED
    BY <1>2, <2>2 DEF Sound
<1> QED
  BY <1>1, <1>2 DEF Succeeds

LEMMA AnswerImplements ==
  ASSUME ConcurrencyInv, ResultsInv, NEW h \in Handlers, req[h] \in Requests,
         NEW result, NEW log, Answer(h, result, log), UNCHANGED snapshot,
         result = "ok" => Succeeds(h, log)
  PROVE  Abstract!Next \/ UNCHANGED <<snapshot, Told>>
<1>1. PICK a : answers' = answers \cup {a} /\ a.result = result /\ a.log = log
  BY AnswerRecord
<1>2. CASE result # "ok"
  <2>1. Told' = Told
    BY <1>1, <1>2 DEF Told
  <2> QED
    BY <2>1
<1>3. CASE result = "ok"
  <2>1. Told' = Told \cup {log}
    BY <1>1, <1>3 DEF Told
  <2>2. \E c \in Cases : Abstract!IsPrefix(log, snapshot[c])
    BY <1>3, SuccessIsPrefix, SamePrefix
  <2>3. Abstract!Tell(log)
    BY <2>1, <2>2 DEF Abstract!Tell, Told
  <2>4. log \in Told'
    BY <2>1
  <2> QED
    BY <2>3, <2>4 DEF Abstract!Next, Told
<1> QED
  BY <1>2, <1>3

LEMMA StepImplements ==
  ASSUME ConcurrencyInv, ResultsInv, [Next]_vars
  PROVE  [Abstract!Next]_(Abstract!vars)
<1> SUFFICES Abstract!Next \/ UNCHANGED <<snapshot, Told>>
  BY DEF Abstract!vars, Told
<1>1. CASE UNCHANGED <<snapshot, answers>>
  BY <1>1 DEF Told
<1>2. CASE ProcessStep
  BY <1>1, <1>2, ProcessLeavesHandlers
<1>3. ASSUME NEW h \in Handlers, HandlerStep(h)
      PROVE  Abstract!Next \/ UNCHANGED <<snapshot, Told>>
  <2>1. CASE Stores(h)
    BY <2>1, StoreImplements
  <2>2. CASE UNCHANGED snapshot
    BY <1>1, <1>3, <2>2, Answering, AnswerImplements
  <2> QED
    BY <1>3, <2>1, <2>2, OnlyStoresWrites
<1>4. CASE UNCHANGED vars
  BY <1>1, <1>4 DEF vars, storeVars, serviceVars
<1> QED
  BY <1>2, <1>3, <1>4, NextIsHandlerOrProcess

(* Handlers that run at once, retries, failing files and crashes are never *)
(* seen in the cases or in the answers, for any number of any of them.     *)
THEOREM ServiceImplements == Spec => VersionedCasesSpec
<1>1. Init => Abstract!Init
  <2>1. Init => snapshot \in [Cases -> Seq(Requests) \cup {Nil}]
    BY StartTypes DEF TypeOK
  <2> QED
    BY <2>1 DEF Init, Abstract!Init
<1>2. ConcurrencyInv /\ ResultsInv /\ [Next]_vars => [Abstract!Next]_(Abstract!vars)
  BY StepImplements
<1> QED
  BY <1>1, <1>2, HandlersKeepApart, ResultsAreSound, PTL
  DEF Spec, VersionedCasesSpec, Abstract!Spec
=============================================================================

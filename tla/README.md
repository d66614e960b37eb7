# A model of the chamber commissioning service

The service keeps *commissioning cases*: the climate of a museum storeroom is given a
baseline and a control plan, tried, measured, remediated where it failed, reviewed by
somebody else than the author of the plan, and put into use by a permit. These modules
model the case, what its readers check, the service and file store that keep cases under
concurrent requests, retries, failing files, crashes and stops, and the directory that lists,
permit checks and exports share. TLC checks small instances; TLAPS proves what they check, all
but the liveness, for every instance.

Paths below are relative to `src/internal/` unless they start with `src/`.

## Inventory

| Component | State | Operations | Hard behaviour | What makes it correct |
|---|---|---|---|---|
| Trial rules (`domain/commissioning/rules.go`, `validation.go`) | none | validate a baseline or a plan, evaluate an observation, decide whether the trial window is filled | boundary values, 64-bit durations | a filled window has the samples, the span and the intervals that baseline and plan promise |
| Commissioning case (`case.go`, `observation.go`, `review.go`, `review_package.go`, `permit.go`) | state, version, baseline and plan with their histories, observations, deviations, reviews, permit | revise identity, lock and revoke a baseline, submit and revise a plan, start, observe, remediate, review, activate | long sequences of legal calls; batches that half pass; packages that go stale | faults keep a case from review; deviations close only by a retest; approvals bind data, version and an independent reviewer; records only grow |
| Case reads (`deviation_ledger.go`, `review.go`, `application/permit_validation.go`) | none | ledger, review history, permit validation | each refuses a case it finds inconsistent; the ledger is read page by page while it grows | no legal case is ever refused; no item is missed or met twice |
| Observation summary (`summary.go`) | none | statistics and progress of the trial, also of a window of time | judges the trial a second time | it agrees with the evaluation that the review rests on |
| Application service (`application/service.go`) | a mutex for each case and creation key | create, mutate, batch, reads | concurrent handlers, retries with an idempotency key, optimistic versions | no lost update, one effect for one key, true answers, every request answered |
| File store (`storage/filecase/store.go`, `recovery.go`) | snapshot and audit file of each case; one idempotency file, also in memory; a mutex | save in three steps, read, find a permit, open | crash or failure between the steps, files cut short | what was answered stays; the store opens again |
| Export and scan (`storage/filecase/backup.go`) | export files in the data directory | export, scan | shares the directory with the cases, and writes under no mutex | a scan finds exactly the cases |
| Case list and permit batch (`application/query.go`, `permit_validation.go`) | none | list by filter, order and page; validate up to a hundred permits | several scans for one question, while cases change | what did not change is found, and judged by one time |
| HTTP API (`httpapi/`) | none | routing, decoding, status codes | the version comes from one of three places | version and key reach the service as they were sent; errors keep their meaning |
| Daemon (`src/cmd/chamberd`) | none | start, stop, self-check | a stop while handlers write | a stop loses nothing that a crash may lose |

Requests reach the service through the HTTP API. The service reads a copy of the case from
the store, applies one domain method to the copy and saves it: a domain method that fails
changes nothing, and every success adds one to the version (`touch`).

## Modules

    TrialRules <- CommissioningCase <- CaseReads (INSTANCE CaseLife) --+
                             ^                                         +-- MCCommissioningCase
                             +- CaseImplementsWorkflow ----------------+
                                  (INSTANCE CaseWorkflow)
    FileStore <- CommissioningService <- ServiceImplementsCases --+-- MCCommissioningService
                                          (INSTANCE VersionedCases)|
                                                       HTTPApi ----+
                                                          ^
                                                          +- CaseDirectory <-- MCCaseDirectory
                                                             (INSTANCE CaseLife)

The proofs are in modules of their own, each over the module it is named after:

    CommissioningCase_proofs <- CaseDossier_proofs <-+- CaseReads_proofs
                                                     +- CaseImplementsWorkflow_proofs
    CommissioningService_proofs <- ServiceImplementsCases_proofs
    CaseDirectory_proofs

- **TrialRules**: the rules as constant operators. Temperatures and humidities are whole
  numbers, times are ticks with `Hour` ticks to the hour, and `TrialDuration` wraps at
  `DurationLimit` as `time.Duration` wraps at 2^63 nanoseconds.
- **CommissioningCase**: one case. One action for each method; a call that returns an error
  is a stuttering step. Observations are known by their position in the log, which is their
  sequence number; a deviation by its rule and observation, which `ensureDeviation` keeps
  unique. A request carries a time or none, a reading, and for a retest the observation it
  replaces. `held` is the review package the reviewers hold: read with `FetchPackage`,
  sent back with `Review` at any later time. The content of the package stands for its
  SHA-256 fingerprint. Texts that are only trimmed, measured and stored are left out, as
  are the checks on them. `Tick` is the clock, which does not run backwards.
- **CaseReads**: the consistency checks of the reads as operators that answer `"ok"` or
  `"corrupt"`, the order of the ledger, and the observation summary. A read changes nothing;
  the question is what legal calls make it answer.
- **CaseLife**: the outside of a case, which states follow which, one version at a time, and
  the permit that comes with the activation. `CommissioningCase` is shown to keep to it
  (`CaseFileMoves`), and `CaseDirectory` builds its mutations from it.
- **CaseWorkflow** (abstract) and **CaseImplementsWorkflow** (refinement mapping): a dossier is
  prepared, tried until no fault is open, approved by somebody else than its author, and
  activated as it was approved. The dossier is the review package without its version; what
  was approved is read off the fingerprint of the last review, not off the case.
- **FileStore**: the files, `Save` in its steps (rename of the snapshot, truncation of the
  idempotency file, its new content, audit line), each with its failure, the death of the
  process and `New`. A case is the sequence of requests applied to it; its version is the
  length.
- **CommissioningService**: handlers step through `Create`, `mutate` and `ObserveBatch`.
  `mutate` looks for a stored result before it waits for the lock of the case; the other two
  look under it, and compare fingerprints. Whether the domain accepts a request is left open.
- **VersionedCases** (abstract) and **ServiceImplementsCases**: each case is a log that only
  grows, a request is added only at the version it expects, and what a success tells was so.
- **HTTPApi**: which operation of the service a message reaches, with which expected version
  (header, else query, else what a review names), and the status of an error. The requests of
  the runs of the service are made from messages by `ServiceRequest`.
- **CaseDirectory**: case files that a mutation replaces in one step, exports, and clients that
  walk through the list, check permits or export. A page is one scan; a permit is looked up in
  a scan and then read again; an export reads, and writes later. `matched`, `saved` and
  `issued` in a query under way record what was there when it began and what was saved since:
  only the properties look at them. Mutations that only `CommissioningCase` can refuse are all
  allowed, and a handler may have read its clock up to `Lag` ticks before it saves.
- **MCCommissioningCase**, **MCCommissioningService**, **MCCaseDirectory**: the small instances.

Operators whose name begins with `Mutant` are faulty variants of the definition they stand
before. Nothing refers to them: each takes the place of that definition to show that a
property fails when the code does.

## Runs

All passing runs switch deadlock checking off: a case ends, clients send a bounded number of
requests, and a store that cannot be opened stays closed.

| Run | Question | Bounds | Distinct states |
|---|---|---|---|
| `trial` (Trial.cfg) | does evidence decide as it should, do ledger and summary agree with it, and does the case implement the workflow? | one baseline of two samples a tick apart, a plan of one hour (2 ticks), readings good, hot, hot with a failing device; requests of 1 or 2 observations, remediations of 1 or 2 deviations, 4 observations, version 11, clock 3, tolerance 1 tick | 13,000 |
| `workflow` (Workflow.cfg) | do histories, packages, approvals and permits hold together? | five baselines (two samples, one, sparse, the legacy profile, upside down), three plans by two people (one outside the baseline), good readings; 2 revisions, 3 observations, version 13, clock 3, a permit of 1 tick | 155,000 |
| `mutations` (Mutations.cfg) | are updates, answers, files and retries right under concurrency, failure, crash and stop? | 2 handlers, 3 attempts of 5 requests on a case (keyed batch, the same one expecting the next version, another batch with its key, keyed mutation, an unkeyed review) and an unkeyed creation, 1 crash or stop, 1 failing file operation | 86,000 |
| `creations` (Creations.cfg) | does a creation key make one case, and are stored results true whatever requests share a key? | 2 cases, 2 handlers (interchangeable), 4 attempts of 3 creations (two with a key that reads like one of the other requests), a batch and an identity revision, 1 crash or stop, 1 failure | 1,206,000 |
| `directory` (Directory.cfg) | are lists and permit checks that take several reads right while cases change? | 3 cases at the start (approved, activated, draft) and room for one more, 2 clients, 2 queries, 2 saves, pages of one case, clock 3, a permit of 2 ticks, clients interchangeable | 691,000 |

The bounds are small, but what matters happens within them. Three observations hold a fault,
its retest and the retest of the retest, and the fourth lets the window fill after that; with
samples a tick apart a gap, its retest and the end of the trial fit into the clock; a batch of
two meets every boundary between an observation and the one before it; two
plan revisions by two people let the reviewer of the first be the author of the second; a
package can be read, made stale by a returned review and sent again within the bound on the
version. Three attempts are a first one, a retry and a rival. Two saves
move two cases past each other, or one past the pages already read and one into them, and pages
of one case put a boundary between any two. `MaxTime` covers the span of the trial and
the tolerance, so that gaps, early and late times all occur, and the permit of
`workflow` expires. `Times` offers no time, the
last observation's own and every one up to a tick beyond the tolerance: the refusals on
both sides are reached. `FetchAt` says in which states reviewers read the package: in all of
the ones in which it can later be confused with another.

What the passing runs show:

- `trial`: `CaseInv` and `DossierInv` (below) are invariants; no effective observation of a case under review
  breaks the baseline (`EffectiveWithinBaseline`); a deviation is resolved only by a retest
  that is clear of its rule (`ResolvedByRetest`); open deviations stop everything but
  remediation (`OpenOnlyInRemediation`); replaced samples do not fill the window
  (`WindowFilled`); records only grow (`RecordOnlyGrows`); deviations whose observation has
  been replaced are stuck, and their case with them (`StrandedForever`): a retest that fails,
  or one sent for one of two deviations of an observation, replaces the observation, and the
  code then refuses the deviation as a target for good; the case implements `CaseWorkflow`
  (`WorkflowSpec`). The log is always one the ledger accepts (`LedgerReferencesSound`), and new
  deviations come at the end of the ledger, so that its pages are stable (`LedgerPagesStable`).
  The summary shows a complete trial without open deviations exactly when the case is under
  review or was just sent back, and no window shows more than the whole
  (`SummaryForecastsReview`). Histories of baselines and plans hardly grow in this run: for them
  `RecordOnlyGrows` rests on its theorem.
- `workflow`: revisions are never given twice and what is in force is the latest
  (`CurrentIsLatest`); a version identifies the content of a package
  (`VersionIdentifiesPackage`); an approval is of the data the permit rests on, and two
  versions old at most (`ApprovalBindsData`), by somebody who did not submit that plan
  (`ApprovalIndependent`); the samples of a reviewed case span the intervals its baseline asks for,
  the legacy profile apart (`IntervalsCovered`); the review history
  and the permit of a legal case are never taken for corrupt (`ReviewHistoryReadable`,
  `PermitChecksOut`). A review is itself a mutation, so the history never marks one as of the
  current version, its approval included: `isCurrentVersion` is always false. Seen from outside
  the case moves as `CaseLife` says (`CaseFileMoves`).
- `mutations`: `ServiceInv` (below) is an invariant; requests apply at the version they expect
  (`AppliedAtExpectedVersion`), stored
  results are of their key (`ResultsAreOfTheirKey`), a success of a batch or a creation means
  that it is there (`SuccessMeansApplied`), a batch that is there is answered with success
  however often it is sent, also after a stop, unless another kind of request shares its key
  (`BatchRetrySafe`), and a key brings one batch
  (`BatchAppliedOnce`); as long as no line was cut short, audit logs list versions in order and the
  store opens (`AuditInOrder`): a line cut short is the one way to a directory that `New`
  refuses, as it is meant to. No creation of this run has a key; how keys are shared is the
  subject of `creations`. The service implements `VersionedCases` (`VersionedCasesSpec`); every
  request is answered or its process dies (`EveryRequestEnds`).
- `creations`: one creation key makes one case (`CreatedOnce`); and although a creation key may read
  like the key of another request behind its case, so that the two share one stored result, a
  result is of a request with its key and says what is stored (`ResultsAreOfTheirKey`), a batch
  is answered with the case it was sent to, and a creation with a case of its identity
  (`SuccessMeansApplied`), since these two compare fingerprints. `mutate` does not: sent with
  a key that reads like the one of an earlier creation, a mutation is answered with that
  creation's case, as with a key used before on its own case (`reused_key`).
- `directory`: `WalkInv` and `CheckInv` (below) are invariants; a walk through the list without a filter by state or by the latest time misses
  no case that stayed as it was, and meets every match once if nothing was saved
  (`WalkMissesNothing`); this rests on the order, latest first: a mutation takes a case to
  the front, before what is still to come. With one of the two filters a mutation takes a case out of the list, the
  ones behind it move up, and one of them may fall between two pages. Permits are judged by the
  time of the request, and one that is said not to exist was not issued when the request came
  (`PermitChecksTrue`). Since an activated case never changes, the two reads of a permit agree,
  and no query is answered with a storage error (`QueriesAnswered`), as long as exports go where
  no scan looks.

**Fairness.** `EveryRequestEnds` is checked under `FairSpec`: a process that is down is started
again and one that is stopped exits once its handlers are done (weak fairness of `Restart` and
`Exit`), and a handler that again and again can take a step takes
it (strong fairness of `Step(h)`). Strong fairness is what Go's `sync.Mutex` and
`sync.RWMutex` give a waiter: after a millisecond of waiting the mutex is handed over, and
waiting writers block new readers. Nothing is assumed of clients, file failures or crashes,
nor that the domain accepts a request.

**Crashes and stops.** A crash is one of the process: completed writes survive. After a crash
the idempotency file may be torn (it is rewritten in place), and the results of every key are
then lost; a case may also have been saved without its result (`lost_result`).
A stop (`Stop`, `Exit`) waits for the handlers and loses a result only if its file could not be
written, an error the store ignores; handlers that take longer than five seconds die with the
process, which is a `Crash`. `forgot` says whether results have been lost: the file differed
from the results in memory when the process ended, or a case had been saved whose result was not
yet in memory. `BatchRetrySafe`, `BatchAppliedOnce` and `CreatedOnce` hold unless it is so, after
any number of other crashes; once it is, a retried batch may meet a version conflict, and a
retried creation may make a second case.

## What the code does not meet

Each is a run that TLC must find violated, and a finding in `PROJECT.json`.

| Run | Expectation | What happens |
|---|---|---|
| `hidden_gap` | adjacent effective observations further apart than the interval show as an open SAMPLE_GAP | a retest is measured against the observation it replaces, and the neighbours of a replaced one are not measured again |
| `future_sample` | the ledger of a legal case can be read | an observation up to the tolerance ahead of the clock, remediated at once, has a resolution before its own time, which the ledger takes for corruption |
| `endless_trial` | a filled trial covers the intervals | the hours of a plan overflow `time.Duration` to a negative window |
| `retried_mutation` | a keyed mutation may be retried | a retry that waits for the first attempt is told of a version conflict with it |
| `exported` | cases can be listed and permits validated, whatever was exported | an export without a target, or over the file of another case, leaves a `.json` file without `schemaVersion` in the directory, and every later scan refuses it |
| `lost_result` | a keyed batch may be retried after a crash | the snapshot is renamed before the results are written: the batch is in the case, but its retry is told of a version conflict |
| `reused_key` | a success is of the request that was sent | `mutate` compares no fingerprints: another mutation with the key is answered with the first one's case |

`endless_trial` runs with `DurationLimit = 8` ticks, the place of 2^63 ns, and a plan of 4
hours of 2 ticks; in the other runs the limit is never reached.

## Proofs

Every safety property and action property of the passing runs, and both refinements, are
theorems, for every set of people, inputs, handlers, cases, clients, requests and every bound.
Each rests on an inductive invariant that a run checks too.

| Module | Invariant | Theorems, and the properties they state |
|---|---|---|
| `CommissioningCase_proofs` | `CaseInv` | `TypeCorrect` (`TypeOK`), `CaseInvariant`, `ReviewedWithinBaseline` (`EffectiveWithinBaseline`), `OpenDeviationsBlock` (`OpenOnlyInRemediation`), `StrandedDeviationsStay` (`StrandedForever`) |
| `CaseDossier_proofs` | `DossierInv` | `DossierKeepsInv`, `LatestInForce` (`CurrentIsLatest`), `PackageIdentified` (`VersionIdentifiesPackage`), `ApprovalOfTheData` (`ApprovalBindsData`), `ApprovalByAnother` (`ApprovalIndependent`), `ResolvedByItsRetest` (`ResolvedByRetest`), `RecordKept` (`RecordOnlyGrows`); with `PlansFit`: `ReviewedWindowFilled` (`WindowFilled`), `ReviewedIntervalsCovered` (`IntervalsCovered`) |
| `CaseReads_proofs` | `DossierInv` | `LedgerReferences` (`LedgerReferencesSound`), `LedgerPagesStay` (`LedgerPagesStable`), `ReviewsReadable` (`ReviewHistoryReadable`), `PermitValid` (`PermitChecksOut`), `FileMovesAsLife` (`CaseFileMoves`); with `PlansFit`: `SummaryForecasts` (`SummaryForecastsReview`) |
| `CaseImplementsWorkflow_proofs` | `DossierInv` | `CaseImplements` (`WorkflowSpec`) |
| `CommissioningService_proofs` | `ServiceInv` | `HandlersKeepApart`, `ServiceTypeCorrect` (`TypeOK`), `NoLostUpdate` (`AppliedAtExpectedVersion`), `CasesOnlyGrow`, `ResultsOfTheirKey` (`ResultsAreOfTheirKey`), `SuccessIsApplied` (`SuccessMeansApplied`), `OneCaseForAKey` (`CreatedOnce`), `OneBatchForAKey` (`BatchAppliedOnce`), `BatchMayBeRetried` (`BatchRetrySafe`), `AuditOpens` (`AuditInOrder`), `ServiceKeepsInv` |
| `ServiceImplementsCases_proofs` | `ServiceInv` | `ServiceImplements` (`VersionedCasesSpec`) |
| `CaseDirectory_proofs` | `WalkInv`, `CheckInv` | `DirectoryTypeCorrect` (`TypeOK`), `WalkKept`, `NothingMissed` (`WalkMissesNothing`); with `ExportsHarmless`: `CheckKept`, `PermitsJudged` (`PermitChecksTrue`), `QueriesAllAnswered` (`QueriesAnswered`) |

**Assumptions.** TLC evaluates them all on the instances.

- Every model: `Nil`, `Torn` and `Foreign` are none of the values they stand beside, inputs
  have their types, bounds are naturals, `Hour` and `DurationLimit` are positive. The inputs of
  the case need not be valid: refusing them is what the code is for.
- The service: requests are of one of the three kinds, and the store can hold the key of each
  (`ServiceAssumption`); a case that is there at the start was created by a request without a
  key, since no results are on disk (`BornAssumption`).
- The directory: a page has 1 to 100 items (`maxPageSize`), a range of times is not upside down,
  and a batch of permits has codes, none twice, all of which `List` and `ValidatePermits`
  check; the cases at the start have their permits as `PermitOfCase` says, which `Mutate`
  keeps.

Two hypotheses are stated in the theorems that need them, since the code does not check them:

- `PlansFit`: the hours of no plan overflow the 64-bit duration, 2.5 million hours.
  `endless_trial` shows that `IntervalsCovered` fails without it.
- `ExportsHarmless`: no export is left where a scan takes it for a case. `exported` shows that
  `QueriesAnswered` fails without it. `WalkMissesNothing` needs no such hypothesis: it is about
  walks that were answered.

**The evidence of a case.** `EffectiveWithinBaseline` is about the states under review only and
says nothing of how a case got there, so it is not inductive. `CaseInv` adds what the code keeps
in every state: each measured fault of each observation, replaced or not, has its deviation
(`FaultsRecorded`, from `appendObservation`); a resolved deviation's observation has been
replaced (`ResolvedReplaced`, from `RemediateDeviations`); open deviations hold the case in
remediation (`OpenOnlyInRemediation`, from `evaluate`); there is no evidence before the trial,
and no baseline but from its lock on (`RecordOfState`), so that locking a baseline cannot
turn old observations into faults; revisions count (`RevisionsCount`). If an effective
observation broke the baseline, its deviation would be unresolved, as the observation is not
replaced; then it is open, and the case is in remediation and not under review
(`CaseInvSafe`). The step is shown for `AddObservations` and `RemediateDeviations` from one
lemma on what a request leaves of the record before anything is resolved
(`EvidenceRecorded`), and for the other actions, which leave the evidence alone, one by one.

**The record of a case.** `DossierInv` adds to `CaseInv` what the histories, packages and reviews
say of each other. Its parts are kept one by one, with the help of the others:

- `InForce`: baseline and plan are the last of their histories, and valid. `NextRevision` takes
  the largest revision of a history and adds one; by `RevisionsCount` that is its length, so
  that no revision is given twice after a revocation.
- `ReviewsPast`: the package that is held is of no later version than the case, and if it is of
  this one it has its content (`VersionIdentifiesPackage`). It is inductive since every method
  that changes the content counts the version up (`touch`), and fetching takes both at once. So
  a package that passes `PackageCurrent` is the content that is approved.
- `ApprovalStands`: from the approval to the permit nothing changes but the version, by one.
- `LogInOrder`: times grow, also within a batch, nobody replaces a later observation or a
  replaced one, and a rule has one deviation for an observation. This is all that the ledger
  asks of a case, except that no resolution lies before its observation (`future_sample`).
- `TrialJudged`: the state is what `evaluate` made of the log that is there now. From it
  follows that the summary, which judges anew, agrees; the case in which it does not, a
  review that sends the case back, is `SentBack`.

*Workflow.* Under the mapping of `CaseImplementsWorkflow` each action is one of
`CaseWorkflow` or a stutter; a review takes the most: that the fingerprint it is sent with is the
dossier of now is `VersionIdentifiesPackage`, and that the activation is of what was approved is
`ApprovalBindsData`.

**The service.** `ServiceInv` has four parts, each inductive with those before it:

- `ConcurrencyInv`: a handler is where its operation can be, holds the mutexes that it has taken
  on its way and no two hold the same; what it has loaded is the case as it is stored until it
  saves, and while it writes, the case is what it saved. Hence no update is lost: at the save
  the version that was compared is still the one of the file.
- `ResultsInv`: a stored result is of a request with its key and a prefix of a case as it is stored,
  the one the request was sent to unless it is a creation, and its fingerprint is that of the
  request and of the log. Which requests share a key is left open.
- `KeysInv`: unless results were lost, every key on record has its result, or the handler that is
  about to store it, and while a creation or a batch past its lookup is on its way, no case has a
  request of its kind with its key. The lookup is done under the mutex that the save is done
  under, and requests of one kind with one key have one mutex (`OneKeyOneLock`), so that this stays true
  until then. `mutate`, which looks before it waits, is not part of it, and neither is a batch whose
  key another kind of request shares: that one, if it looked before the batch was stored, then
  stores its own result in the place of the batch's, and the batch sent again would not find it.
  `BatchRetrySafe` excepts such keys (`SharesItsKey`), which the code does not rule out. A crash
  that loses nothing keeps the invariant: what was in memory is in the file.
- `AuditInv`: the audit log lists no version the case has not reached, and, while a save is under
  way, none as late as the one it saves.

*Versioned cases.* The rename of the snapshot is the step of `VersionedCases`; the idempotency
file, the audit line, failures, crashes and starts map to stutters, and an answer to what it tells.

**The directory.** `WalkInv` says of a walk under way where a case that stayed as it was can be:
on a page that was shown, or at a place not before the pages that were asked for
(`WalkSound`). A save takes another case to the front or leaves it there, so the number of
cases before one that stays never gets smaller (`SavedComeFirst`); that is a fact about the
cardinality of a set that grows, and places map to pages monotonically (`PageOfPlace`). With the
last page no place is left (`PagesComplete`). With a filter by state or latest time the
argument, like the property, breaks down: the set may shrink.

`CheckInv` says that no foreign file is in the way of a scan (from `ExportsHarmless`), that codes
that were issued remain so, and what the items of the answer so far and the permit found last
say of the files. A case with a permit is activated (`PermitOfCase`, part of `TypeOK`), and no
move leads on from there, so that its file stays as it is (`PermitsStay`); hence the second read
finds the permit of the first, and `PermitHolds` never refuses.

**Only model-checked.** `EveryRequestEnds`, the liveness of the service: temporal reasoning from
fairness, with `ENABLED`, is beyond the prover. The seven runs that must fail are
counterexamples, and need no proof.

## Not modelled

- JSON decoding, query parsing, headers, flags and the scripted self-check, a client that runs
  one case through once.
- Filters that pick items one by one (of ledger, reviews, zone and owner), counts by state or
  status, means and extremes of the readings: they depend on nothing but the item.
- Float precision and device steps: inputs are whole numbers, which satisfy both.
- The identifier of a case, the clock's nanoseconds, is taken to be new (`NewCase`), and
  deviation identifiers to sort by their number, not as strings.
- Requests to a case whose name has a colon: no case has one, but `mutate` looks up the key before
  the case, so that such a request may share the result of a key with a colon.
- Client-given observation identifiers are taken to be one to one with positions, as
  `prepareObservation` keeps them unique; a request refused for its identifier is a stuttering step.
- The temporary file of an export, and with it two exports to one target at once; an export over
  the audit log of another case, which the next start would refuse.
- Files unreadable for other reasons than a crash or a failed write, and power loss.
- The audit record type and the identifier helpers, of which only the normalisation of zone
  codes is used.

## Plan

Done, in this order: the rules and the case; its inductive invariant and proof; reads and the
workflow refinement; the store and the service with their refinement; stops of the daemon;
summary and ledger order; the API's requests and statuses; the directory with lists, permit
checks and exports, over the outside of a case; then the proofs of all the safety properties of
the case, its reads, the service and the directory, and of both refinements.

Next:

1. **Files**: what `New` may assume of the files at any crash, as an invariant of `FileStore`
   alone, so that the proofs about the service cite it in place of the steps of `Save`.
2. **Lemmas of the API**: that `ServiceRequest` keeps version and key, for every message.
3. **Composition**: the service over `CommissioningCase` in place of the request logs, so that
   review packages go stale through concurrent handlers.

--------------------------- MODULE CaseDirectory ---------------------------
(***************************************************************************)
(* The data directory with the clients that read all of it: the list of    *)
(* cases (application/query.go), the validation of permits                 *)
(* (application/permit_validation.go) and the export of a case             *)
(* (filecase/backup.go), which writes into the directory that the others   *)
(* scan.  A mutation replaces the file of its case in one step, as         *)
(* CommissioningService and FileStore show, and is one of CaseLife's.      *)
(*                                                                         *)
(* A scan holds the store's mutex for reading, so that it sees no mutation *)
(* half done; a client that asks for page after page, or for permit after  *)
(* permit, scans anew each time.  Identifiers are numbers.  The filters by *)
(* zone and owner, which work as the one by state does, are left out.      *)
(***************************************************************************)
EXTENDS Integers, Sequences, FiniteSets, Functions, HTTPApi

CONSTANTS
  Nil,
  PermitYear,
  Foreign,     \* a JSON document without a schemaVersion, such as an export
  Default, Outside, Elsewhere,   \* targets of an export, see StartExport
  Clients,
  Born,        \* the case files at the start, by identifier
  Filters,     \* what clients list: records of state, from and to, Nil for any
  PageSize,
  CodeLists,   \* what clients validate: sequences of permit codes
  Exports,     \* what clients export: pairs of a case and a target
  Lag,         \* bound: ticks between a handler's clock and its save
  MaxCases, MaxTime, MaxSaves, MaxQueries   \* bounds

VARIABLES
  files,     \* the file of each case: Nil, a case, or Foreign
  exports,   \* the exports lying in the directory as .json files of their own
  now,
  work,      \* the query of each client
  saves, queries

vars == <<files, exports, now, work, saves, queries>>

Life == INSTANCE CaseLife

Ids == 1 .. MaxCases
NoQuery == [op |-> "none", status |-> 200]

Permit == [activatedVersion : Nat, issuedAt : 1 .. MaxTime, effectiveUntil : Nat]
File ==
  [state : Life!States, version : Nat \ {0}, updatedAt : 1 .. MaxTime,
   permit : Permit \cup {Nil}]
Filter == [state : Life!States \cup {Nil}, from : Int \cup {Nil}, to : Int \cup {Nil}]

(* A case has a permit when it is activated, and then only, and the permit *)
(* is of the version that the activation made.                             *)
PermitOfCase(case) ==
  /\ case.permit # Nil <=> case.state = "Activated"
  /\ case.permit # Nil =>
       /\ case.permit.activatedVersion = case.version
       /\ case.permit.effectiveUntil = case.permit.issuedAt + PermitYear

ASSUME BoundAssumption ==
  /\ MaxCases \in Nat /\ MaxTime \in Nat \ {0} /\ Lag \in Nat
  /\ PermitYear \in Nat \ {0} /\ PageSize \in 1 .. 100
ASSUME NilAssumption ==
  /\ Nil \notin File \cup Permit \cup {200, 404, 500} \cup [case : Ids, permit : Permit]
  /\ Foreign \notin File \cup {Nil}
ASSUME DirectoryAssumption ==
  /\ DOMAIN Born = 1 .. Cardinality(DOMAIN Born) /\ DOMAIN Born \subseteq Ids
  /\ \A id \in DOMAIN Born : Born[id] \in File /\ PermitOfCase(Born[id])
  /\ \A f \in Filters : /\ f \in Filter
                        /\ f.from # Nil /\ f.to # Nil => f.from <= f.to
  /\ \A codes \in CodeLists : /\ codes \in Seq(Nat \X Nat)
                              /\ codes # <<>> /\ IsInjective(codes)
  /\ Default \notin Ids /\ \A export \in Exports : export[1] \in Ids

Init ==
  /\ files = [id \in Ids |-> IF id \in DOMAIN Born THEN Born[id] ELSE Nil]
  /\ exports = {}
  /\ now = 1
  /\ work = [k \in Clients |-> NoQuery]
  /\ saves = 0 /\ queries = 0

IsCase(id) == files[id] \notin {Nil, Foreign}

(* A query that is over keeps its status until its client starts another.  *)
Under(k, op) == work[k].op = op /\ work[k].status = Nil
Over(k, op) == work[k].op = op /\ work[k].status # Nil

-----------------------------------------------------------------------------
(* Mutations.  Queries under way are told what was saved meanwhile: this   *)
(* is for the properties only.                                             *)
Times == {t \in now - Lag .. now : t > 0}

NoteSaved(id) ==
  work' = [k \in Clients |->
             IF Under(k, "walk") THEN [work[k] EXCEPT !.saved = @ \cup {id}] ELSE work[k]]

Create ==
  \E id \in Ids, at \in Times :
    /\ saves < MaxSaves /\ saves' = saves + 1
    /\ files[id] = Nil
    /\ files' = [files EXCEPT ![id] =
                   [state |-> "Draft", version |-> 1, permit |-> Nil, updatedAt |-> at]]
    /\ NoteSaved(id)
    /\ UNCHANGED <<exports, now, queries>>

Mutate(id) ==
  /\ saves < MaxSaves /\ saves' = saves + 1
  /\ IsCase(id)
  /\ \E at \in Times :
       /\ at >= files[id].updatedAt
       /\ \E case \in Life!Mutated(files[id], at) :
            files' = [files EXCEPT ![id] =
                        [state |-> case.state, version |-> case.version,
                         permit |-> case.permit, updatedAt |-> at]]
  /\ NoteSaved(id)
  /\ UNCHANGED <<exports, now, queries>>

Tick ==
  /\ now < MaxTime /\ now' = now + 1
  /\ UNCHANGED <<files, exports, work, saves, queries>>

-----------------------------------------------------------------------------
(* The scan of the directory. *)

(* Cases: any .json file but the idempotency file is taken for a case. *)
ScanFails == exports # {} \/ \E id \in Ids : files[id] = Foreign

Present == {id \in Ids : IsCase(id)}

(* Mutant: the oldest first. *)
MutantBefore(i, j) ==
  \/ files[i].updatedAt < files[j].updatedAt
  \/ files[i].updatedAt = files[j].updatedAt /\ i < j

Before(i, j) ==
  \/ files[i].updatedAt > files[j].updatedAt
  \/ files[i].updatedAt = files[j].updatedAt /\ i < j

Matched(filter) ==
  {id \in Present :
     /\ filter.state # Nil => files[id].state = filter.state
     /\ filter.from # Nil => files[id].updatedAt >= filter.from
     /\ filter.to # Nil => files[id].updatedAt <= filter.to}

(* The place of a case in the list, from 0. *)
Rank(filter, i) == Cardinality({j \in Matched(filter) : Before(j, i)})

(* List: the items of a page, and how many pages there are. *)
List(filter, page) ==
  [items |-> {i \in Matched(filter) : Rank(filter, i) \div PageSize = page - 1},
   totalPages |-> (Cardinality(Matched(filter)) + PageSize - 1) \div PageSize]

(* FindPermit: the case that carries the code, which is made of the        *)
(* identifier of the case and the time of issue.                           *)
CodeOf(id) == <<id, files[id].permit.issuedAt>>
FindPermit(code) == {id \in Present : files[id].permit # Nil /\ CodeOf(id) = code}

Issued == {CodeOf(id) : id \in {x \in Present : files[x].permit # Nil}}

-----------------------------------------------------------------------------
(* Queries. *)

Start(k, query) ==
  /\ work[k].status # Nil
  /\ queries < MaxQueries /\ queries' = queries + 1
  /\ work' = [work EXCEPT ![k] = query]
  /\ UNCHANGED <<files, exports, now, saves>>

Go(k, query) ==
  /\ work' = [work EXCEPT ![k] = query]
  /\ UNCHANGED <<files, exports, now, saves, queries>>

(* A client walks through the list: it asks for one page after the other   *)
(* until it has had as many as the last answer says there are.             *)
StartWalk(k, filter) ==
  Start(k, [op |-> "walk", status |-> Nil, filter |-> filter, pages |-> <<>>,
            matched |-> Matched(filter), saved |-> {}])

NextPage(k) ==
  LET w == work[k]
      page == Len(w.pages) + 1
      list == List(w.filter, page)
  IN  /\ Under(k, "walk")
      /\ \/ ScanFails /\ Go(k, [w EXCEPT !.status = Fail("storageCorrupt")])
         \/ ~ ScanFails /\ Go(k, [w EXCEPT
              !.pages = Append(@, list.items),
              !.status = IF page >= list.totalPages THEN 200 ELSE Nil])

(* ValidatePermits: each code in turn, against the time of the request. *)
StartCheck(k, codes) ==
  Start(k, [op |-> "check", status |-> Nil, codes |-> codes, at |-> now,
            found |-> Nil, items |-> <<>>, issued |-> Issued])

(* Mutant: the permit is held against the clock of the moment. *)
MutantPermitStatus(permit, at) == IF now < permit.effectiveUntil THEN "active" ELSE "expired"

PermitStatus(permit, at) == IF at < permit.effectiveUntil THEN "active" ELSE "expired"

(* One more item of the answer, which is complete with the last code. *)
WithItem(w, item) ==
  [w EXCEPT !.items = Append(@, item), !.found = Nil,
            !.status = IF Len(w.items) + 1 = Len(w.codes) THEN 200 ELSE Nil]

ScanPermits(k) ==
  LET w == work[k]
      found == FindPermit(w.codes[Len(w.items) + 1])
  IN  /\ Under(k, "check") /\ w.found = Nil
      /\ \/ ScanFails /\ Go(k, [w EXCEPT !.status = Fail("storageCorrupt")])
         \/ ~ ScanFails /\ found = {} /\ Go(k, WithItem(w, "not_found"))
         \/ /\ ~ ScanFails
            /\ \E id \in found :
                 Go(k, [w EXCEPT !.found = [case |-> id, permit |-> files[id].permit]])

(* The second read, of the case, must tell of the permit what the first    *)
(* has told.  The revisions and the approval that the answer names are in  *)
(* CaseReads.                                                              *)
PermitHolds(found) ==
  LET case == files[found.case]
  IN  /\ case.state = "Activated"
      /\ case.permit = found.permit
      /\ case.permit.activatedVersion = case.version
      /\ case.permit.effectiveUntil > case.permit.issuedAt

ReadCaseOfPermit(k) ==
  LET w == work[k]
      found == w.found
  IN  /\ Under(k, "check") /\ found # Nil
      /\ \/ ~ IsCase(found.case) /\ Go(k, [w EXCEPT !.status = Fail("permitStorage")])
         \/ /\ IsCase(found.case) /\ ~ PermitHolds(found)
            /\ Go(k, [w EXCEPT !.status = Fail("storageCorrupt")])
         \/ /\ IsCase(found.case) /\ PermitHolds(found)
            /\ Go(k, WithItem(w, PermitStatus(found.permit, w.at)))

(* ExportSnapshot reads the case, and writes it under no mutex.  A target  *)
(* is Default, a .json file of its own, or the file of a case, or Outside  *)
(* the directory, or a file Elsewhere in it that no scan looks at.  The    *)
(* idempotency file and the audit log of the case are refused as Outside.  *)
StartExport(k, id, target) ==
  Start(k, [op |-> "export", target |-> target, copy |-> files[id],
            status |-> CASE files[id] = Nil -> Fail("notFound")
                         [] files[id] = Foreign -> Fail("storageCorrupt")
                         [] IsCase(id) /\ target \in {id, Outside} -> Fail("exportInvalid")
                         [] OTHER -> Nil])

WriteExport(k) ==
  LET w == work[k]
  IN  /\ Under(k, "export")
      /\ exports' = IF w.target = Default THEN exports \cup {w.copy} ELSE exports
      /\ files' = [id \in Ids |-> IF id = w.target THEN Foreign ELSE files[id]]
      /\ work' = [work EXCEPT ![k] = [w EXCEPT !.status = 200]]
      /\ UNCHANGED <<now, saves, queries>>

Next ==
  \/ Create \/ \E id \in Ids : Mutate(id)
  \/ Tick
  \/ \E k \in Clients :
       \/ \E filter \in Filters : StartWalk(k, filter)
       \/ NextPage(k)
       \/ \E codes \in CodeLists : StartCheck(k, codes)
       \/ ScanPermits(k) \/ ReadCaseOfPermit(k)
       \/ \E export \in Exports : StartExport(k, export[1], export[2])
       \/ WriteExport(k)

Spec == Init /\ [][Next]_vars

-----------------------------------------------------------------------------
(* Properties. *)

Walk ==
  [op : {"walk"}, status : {Nil, 200, 500}, filter : Filters,
   pages : Seq(SUBSET Ids), matched : SUBSET Ids, saved : SUBSET Ids]
Check ==
  [op : {"check"}, status : {Nil, 200, 500}, codes : CodeLists, at : 1 .. MaxTime,
   found : [case : Ids, permit : Permit] \cup {Nil},
   items : Seq({"active", "expired", "not_found"}),
   issued : SUBSET (Ids \X (1 .. MaxTime))]
Export ==
  [op : {"export"}, status : {Nil, 200, 404, 500},
   target : {export[2] : export \in Exports}, copy : File \cup {Nil, Foreign}]
Query == {NoQuery} \cup Walk \cup Check \cup Export

TypeOK ==
  /\ files \in [Ids -> File \cup {Nil, Foreign}]
  /\ \A id \in Present : PermitOfCase(files[id])
  /\ exports \subseteq File
  /\ now \in 1 .. MaxTime
  /\ work \in [Clients -> Query]
  /\ \A k \in Clients : Under(k, "export") => work[k].copy \in File

Listed(w, id) == Cardinality({p \in DOMAIN w.pages : id \in w.pages[p]})
WalkComplete(w) ==
  /\ w.filter.state = Nil /\ w.filter.to = Nil =>
       \A id \in w.matched \ w.saved : Listed(w, id) > 0
  /\ w.saved = {} =>
       \A id \in Ids : Listed(w, id) = IF id \in w.matched THEN 1 ELSE 0

(* Whoever walks through the list page by page while cases are created and *)
(* mutated misses no case that was there all the time as it was, unless    *)
(* the filter by state or by the latest time takes cases out under way; if *)
(* nothing was saved, he meets every case that matches once (List).        *)
WalkMissesNothing ==
  \A k \in Clients :
    Over(k, "walk") /\ work[k].status = 200 => WalkComplete(work[k])

Judged(w, i, item) ==
  IF item = "not_found" THEN w.codes[i] \notin w.issued
  ELSE /\ w.codes[i] \in Issued
       /\ item = "active" <=> w.at < w.codes[i][2] + PermitYear

(* Permits are checked in two reads each, while cases are activated and    *)
(* the clock goes on: a permit that is said not to exist was not issued    *)
(* when the request came, and all the others are judged by the time of the *)
(* request (ValidatePermits).                                              *)
PermitChecksTrue ==
  \A k \in Clients :
    Over(k, "check") /\ work[k].status = 200 =>
      \A i \in DOMAIN work[k].codes : Judged(work[k], i, work[k].items[i])

(* Whatever mutations and exports go on, the list of the cases and the     *)
(* validation of permits are never answered with a storage error: a client *)
(* that exports a case as README.md:28 offers can list and check cases as  *)
(* README.md:29 and 30 do.                                                 *)
QueriesAnswered ==
  \A k \in Clients :
    Over(k, "walk") \/ Over(k, "check") => work[k].status # Fail("storageCorrupt")

-----------------------------------------------------------------------------
(* The inductive invariants that these rest on. *)

(* While a client walks, a case that was there all the time as it was is   *)
(* on a page that he has, or will be on one that he has not asked for yet: *)
(* those that are saved come before it.  As long as nothing is saved, the  *)
(* pages that he has are those he would be given now.                      *)
WalkSound(w) ==
  /\ w.filter.state = Nil /\ w.filter.to = Nil =>
       \A id \in w.matched \ w.saved :
         /\ id \in Matched(w.filter)
         /\ \/ \E p \in DOMAIN w.pages : id \in w.pages[p]
            \/ Rank(w.filter, id) \div PageSize >= Len(w.pages)
  /\ w.saved = {} =>
       /\ Matched(w.filter) = w.matched
       /\ \A p \in DOMAIN w.pages : w.pages[p] = List(w.filter, p).items
WalksSound ==
  \A k \in Clients : Under(k, "walk") /\ ~ ScanFails => WalkSound(work[k])

WalkInv == TypeOK /\ WalksSound /\ WalkMissesNothing

(* No export goes where a scan would take it for a case. *)
ExportsHarmless ==
  \A export \in Exports : export[2] = export[1] \/ export[2] \notin {Default} \cup Ids

(* Then every scan finds the cases only, permits stay where they are, and  *)
(* what a check has found so far is so.                                    *)
ScansSound ==
  /\ ~ ScanFails
  /\ \A k \in Clients :
       /\ Under(k, "export") => work[k].target \notin {Default} \cup Ids
       /\ Over(k, "walk") => work[k].status = 200

CheckSound(w) ==
  /\ w.issued \subseteq Issued
  /\ w.status # 500
  /\ IF w.status = Nil THEN Len(w.items) < Len(w.codes) ELSE Len(w.items) = Len(w.codes)
  /\ \A i \in DOMAIN w.items : Judged(w, i, w.items[i])
  /\ w.found # Nil =>
       /\ w.status = Nil /\ IsCase(w.found.case)
       /\ files[w.found.case].permit = w.found.permit
       /\ w.codes[Len(w.items) + 1] = CodeOf(w.found.case)
ChecksSound == \A k \in Clients : work[k].op = "check" => CheckSound(work[k])

CheckInv == TypeOK /\ ScansSound /\ ChecksSound
=============================================================================

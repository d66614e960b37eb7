------------------------ MODULE CaseDirectory_proofs ------------------------
(***************************************************************************)
(* Proofs about CaseDirectory for every value of its constants: whatever   *)
(* is saved and exported meanwhile, a walk through the list misses no      *)
(* case, and, where exports keep out of the directory, permits are judged  *)
(* rightly and every query is answered.                                    *)
(***************************************************************************)
EXTENDS CaseDirectory, SequenceTheorems, FiniteSetTheorems, TLAPS

(* A list that grows by one item is a list.                                *)
LEMMA AppendIsList ==
  ASSUME NEW S, NEW s \in Seq(S), NEW e \in S
  PROVE  /\ Append(s, e) \in Seq(S) /\ Len(Append(s, e)) = Len(s) + 1
         /\ Append(s, e)[Len(s) + 1] = e
         /\ \A i \in 1 .. Len(s) : Append(s, e)[i] = s[i]
         /\ DOMAIN Append(s, e) = 1 .. Len(s) + 1 /\ DOMAIN s = 1 .. Len(s)
         /\ Len(s) \in Nat
  BY AppendProperties, LenProperties

LEMMA Statuses ==
  /\ Fail("storageCorrupt") = 500 /\ Fail("permitStorage") = 500
  /\ Fail("exportInvalid") = 500 /\ Fail("notFound") = 404
  /\ Nil \notin {200, 404, 500}
BY NilAssumption DEF Fail

-----------------------------------------------------------------------------
(* The types. *)

(* What a query is, by its operation.                                      *)
LEMMA QueryOfOp ==
  ASSUME TypeOK, NEW k \in Clients
  PROVE  /\ work[k] \in Query
         /\ work[k].op = "walk" => work[k] \in Walk
         /\ work[k].op = "check" => work[k] \in Check
         /\ work[k].op = "export" => work[k] \in Export
<1>1. work[k] \in Query
  BY DEF TypeOK
<1>2. \A q \in Query : /\ q.op = "walk" => q \in Walk
                       /\ q.op = "check" => q \in Check
                       /\ q.op = "export" => q \in Export
  BY DEF Query, NoQuery, Walk, Check, Export
<1> QED
  BY <1>1, <1>2

LEMMA TypeInit == Init => TypeOK
<1> SUFFICES ASSUME Init PROVE TypeOK
  OBVIOUS
<1> USE DEF Init
<1>1. files \in [Ids -> File \cup {Nil, Foreign}]
  BY DirectoryAssumption
<1>2. \A id \in Present : PermitOfCase(files[id])
  BY DirectoryAssumption DEF Present, IsCase
<1>3. now \in 1 .. MaxTime
  BY BoundAssumption
<1>4. work \in [Clients -> Query]
  BY DEF Query
<1>5. \A k \in Clients : ~ Under(k, "export")
  BY DEF Under, NoQuery
<1> QED
  BY <1>1, <1>2, <1>3, <1>4, <1>5 DEF TypeOK

(* A query starts or goes on.                                              *)
LEMMA QueryType ==
  ASSUME TypeOK, NEW k \in Clients, NEW query \in Query,
         work' = [work EXCEPT ![k] = query], UNCHANGED <<files, exports, now>>,
         query.op = "export" /\ query.status = Nil => query.copy \in File
  PROVE  TypeOK'
<1>1. work' \in [Clients -> Query]
  BY DEF TypeOK
<1>2. \A x \in Clients : work'[x] = IF x = k THEN query ELSE work[x]
  BY DEF TypeOK
<1>3. \A x \in Clients : Under(x, "export")' => work'[x].copy \in File
  BY <1>2 DEF TypeOK, Under
<1>4. Present' = Present
  BY DEF Present, IsCase
<1> QED
  BY <1>1, <1>3, <1>4 DEF TypeOK

(* A case is saved.                                                        *)
LEMMA SaveType ==
  ASSUME TypeOK, NEW id \in Ids, NEW file \in File, PermitOfCase(file),
         files' = [files EXCEPT ![id] = file], NoteSaved(id), UNCHANGED <<exports, now>>
  PROVE  TypeOK'
<1>1. files' \in [Ids -> File \cup {Nil, Foreign}]
  BY DEF TypeOK
<1>2. \A x \in Ids : files'[x] = IF x = id THEN file ELSE files[x]
  BY DEF TypeOK
<1>3. \A x \in Present' : PermitOfCase(files'[x])
  <2>1. \A x \in Present' : x \in Ids /\ (x = id \/ x \in Present)
    BY <1>2 DEF Present, IsCase
  <2> QED
    BY <1>2, <2>1 DEF TypeOK
<1>4. ASSUME NEW k \in Clients
      PROVE  /\ work'[k] \in Query
             /\ Under(k, "export")' => work'[k].copy \in File
  <2>1. work'[k] = IF Under(k, "walk") THEN [work[k] EXCEPT !.saved = @ \cup {id}]
                   ELSE work[k]
    BY DEF NoteSaved
  <2>2. CASE Under(k, "walk")
    <3>1. work[k] \in Walk
      BY <2>2, QueryOfOp DEF Under
    <3>2. work'[k] \in Walk
      BY <2>1, <2>2, <3>1 DEF Walk
    <3> QED
      BY <3>2 DEF Query, Walk, Under
  <2>3. CASE ~ Under(k, "walk")
    BY <2>1, <2>3, QueryOfOp DEF TypeOK, Under
  <2> QED
    BY <2>2, <2>3
<1>5. work' \in [Clients -> Query]
  BY <1>4 DEF NoteSaved
<1> QED
  BY <1>1, <1>3, <1>4, <1>5 DEF TypeOK

(* What Create and Mutate have in common: the file of a case is made, or   *)
(* becomes a later one, and a case that has a permit stays as it is.       *)
SaveOf(id, file) ==
  /\ files' = [files EXCEPT ![id] = file] /\ NoteSaved(id) /\ UNCHANGED <<exports, now>>
  /\ PermitOfCase(file)
  /\ files[id] # Foreign
  /\ IsCase(id) => files[id].permit = Nil /\ file.updatedAt >= files[id].updatedAt

LEMMA CreateSaves ==
  ASSUME TypeOK, Create
  PROVE  \E id \in Ids : \E file \in File : SaveOf(id, file)
<1>1. PICK id \in Ids, at \in Times :
        /\ files[id] = Nil
        /\ files' = [files EXCEPT ![id] =
                      [state |-> "Draft", version |-> 1, permit |-> Nil, updatedAt |-> at]]
        /\ NoteSaved(id) /\ UNCHANGED <<exports, now>>
  BY DEF Create
<1> DEFINE file == [state |-> "Draft", version |-> 1, permit |-> Nil, updatedAt |-> at]
<1>2. at \in 1 .. MaxTime
  BY BoundAssumption DEF Times, TypeOK
<1>3. file \in File
  BY <1>2 DEF File, Life!States
<1>4. PermitOfCase(file)
  BY DEF PermitOfCase
<1>5. files[id] # Foreign /\ ~ IsCase(id)
  BY <1>1, NilAssumption DEF IsCase
<1> QED
  BY <1>1, <1>3, <1>4, <1>5 DEF SaveOf

LEMMA MutateSaves ==
  ASSUME TypeOK, NEW id \in Ids, Mutate(id)
  PROVE  \E file \in File : SaveOf(id, file)
<1>1. IsCase(id) /\ NoteSaved(id) /\ UNCHANGED <<exports, now>>
  BY DEF Mutate
<1>2. PICK at \in Times :
        /\ at >= files[id].updatedAt
        /\ \E case \in Life!Mutated(files[id], at) :
             files' = [files EXCEPT ![id] =
                         [state |-> case.state, version |-> case.version,
                          permit |-> case.permit, updatedAt |-> at]]
  BY DEF Mutate
<1>3. PICK case \in Life!Mutated(files[id], at) :
        files' = [files EXCEPT ![id] =
                    [state |-> case.state, version |-> case.version,
                     permit |-> case.permit, updatedAt |-> at]]
  BY <1>2
<1> DEFINE old == files[id]
           file == [state |-> case.state, version |-> case.version,
                    permit |-> case.permit, updatedAt |-> at]
<1>4. at \in 1 .. MaxTime
  BY BoundAssumption DEF Times, TypeOK
<1>5. old \in File /\ PermitOfCase(old)
  BY <1>1 DEF IsCase, TypeOK, Present
<1>6. PICK s \in Life!Moves(old.state) :
        case = [state |-> s, version |-> old.version + 1,
                permit |-> IF s = "Activated" THEN Life!PermitAt(old.version + 1, at)
                           ELSE old.permit]
  BY <1>3 DEF Life!Mutated
<1>7. s \in Life!States /\ old.state # "Activated" /\ old.state \in Life!States
  BY <1>5, <1>6 DEF Life!Moves, Life!States, File
<1>8. old.permit = Nil /\ old.version \in Nat
  BY <1>5, <1>7 DEF PermitOfCase, File
<1>9. Life!PermitAt(old.version + 1, at) \in Permit
  BY <1>4, <1>8, BoundAssumption DEF Life!PermitAt, Permit
<1>10. /\ file.state = s /\ file.version = old.version + 1 /\ file.updatedAt = at
       /\ file.permit = IF s = "Activated" THEN Life!PermitAt(old.version + 1, at)
                        ELSE Nil
  BY <1>6, <1>8
<1>11. file \in File
  BY <1>4, <1>7, <1>8, <1>9, <1>10 DEF File
<1>12. PermitOfCase(file)
  BY <1>4, <1>8, <1>9, <1>10, NilAssumption DEF PermitOfCase, Life!PermitAt
<1>13. files[id] # Foreign
  BY <1>1 DEF IsCase
<1> QED
  BY <1>1, <1>2, <1>3, <1>8, <1>10, <1>11, <1>12, <1>13 DEF SaveOf

(* The queries that a client may start.                                    *)
LEMMA StartedWalk ==
  ASSUME TypeOK, NEW filter \in Filters
  PROVE  [op |-> "walk", status |-> Nil, filter |-> filter, pages |-> <<>>,
          matched |-> Matched(filter), saved |-> {}] \in Walk
<1>1. Matched(filter) \in SUBSET Ids
  BY DEF Matched, Present
<1>2. <<>> \in Seq(SUBSET Ids)
  BY EmptySeq
<1> QED
  BY <1>1, <1>2 DEF Walk

LEMMA StartedCheck ==
  ASSUME TypeOK, NEW codes \in CodeLists
  PROVE  [op |-> "check", status |-> Nil, codes |-> codes, at |-> now,
          found |-> Nil, items |-> <<>>, issued |-> Issued] \in Check
<1>1. \A id \in Present : files[id] \in File
  BY DEF Present, IsCase, TypeOK
<1>2. Issued \in SUBSET (Ids \X (1 .. MaxTime))
  <2> SUFFICES ASSUME NEW id \in Present, files[id].permit # Nil
               PROVE  CodeOf(id) \in Ids \X (1 .. MaxTime)
    BY DEF Issued
  <2>1. files[id].permit \in Permit
    BY <1>1 DEF File
  <2>2. files[id].permit.issuedAt \in 1 .. MaxTime /\ id \in Ids
    BY <2>1 DEF Permit, Present
  <2> QED
    BY <2>2 DEF CodeOf
<1>3. <<>> \in Seq({"active", "expired", "not_found"})
  BY EmptySeq
<1> QED
  BY <1>2, <1>3 DEF Check, TypeOK

LEMMA StartedExport ==
  ASSUME TypeOK, NEW export \in Exports
  PROVE  LET id == export[1]
             target == export[2]
             query == [op |-> "export", target |-> target, copy |-> files[id],
                       status |-> CASE files[id] = Nil -> Fail("notFound")
                                    [] files[id] = Foreign -> Fail("storageCorrupt")
                                    [] IsCase(id) /\ target \in {id, Outside} ->
                                         Fail("exportInvalid")
                                    [] OTHER -> Nil]
         IN  /\ query \in Export
             /\ query.status = Nil => query.copy \in File /\ target # id
<1> DEFINE id == export[1]
           target == export[2]
           status == CASE files[id] = Nil -> Fail("notFound")
                       [] files[id] = Foreign -> Fail("storageCorrupt")
                       [] IsCase(id) /\ target \in {id, Outside} -> Fail("exportInvalid")
                       [] OTHER -> Nil
<1>1. id \in Ids
  BY DirectoryAssumption
<1>2. files[id] \in File \cup {Nil, Foreign}
  BY <1>1 DEF TypeOK
<1>3. CASE files[id] = Nil
  <2>1. status = 404
    BY <1>3, Statuses, NilAssumption DEF IsCase
  <2> QED
    BY <1>2, <2>1, Statuses DEF Export
<1>4. CASE files[id] = Foreign
  <2>1. status = 500
    BY <1>4, Statuses, NilAssumption DEF IsCase
  <2> QED
    BY <1>2, <2>1, Statuses DEF Export
<1>5. CASE files[id] \notin {Nil, Foreign}
  <2>1. IsCase(id) /\ files[id] \in File
    BY <1>2, <1>5 DEF IsCase
  <2>2. status = IF target \in {id, Outside} THEN 500 ELSE Nil
    BY <1>5, <2>1, Statuses
  <2> QED
    BY <1>2, <2>1, <2>2, Statuses DEF Export
<1> QED
  BY <1>3, <1>4, <1>5

(* What becomes of a query.                                                *)
LEMMA FailedQuery ==
  ASSUME NEW w \in Walk \cup Check
  PROVE  LET failed == [w EXCEPT !.status = 500]
         IN  failed \in Query /\ failed.op = w.op /\ failed.status = 500
BY DEF Query, Walk, Check

(* Of some sets that the prover need not look into.                        *)
LEMMA UpdatedPages ==
  ASSUME NEW A, NEW B, NEW C, NEW D, NEW E, NEW F,
         NEW w \in [op : A, status : B, filter : C, pages : D, matched : E, saved : F],
         NEW pages \in D, NEW status \in B
  PROVE  [w EXCEPT !.pages = pages, !.status = status] \in
           [op : A, status : B, filter : C, pages : D, matched : E, saved : F]
OBVIOUS

(* What NextPage makes of a walk. *)
WithPage(w, items, status) == [w EXCEPT !.pages = Append(@, items), !.status = status]

LEMMA PageTaken ==
  ASSUME TypeOK, NEW w \in Walk, NEW filter, NEW page, NEW status \in {Nil, 200}
  PROVE  LET items == List(filter, page).items
             query == WithPage(w, items, status)
         IN  /\ query \in Walk /\ query.filter = w.filter
             /\ query.matched = w.matched /\ query.saved = w.saved
             /\ query.status = status /\ query.pages = Append(w.pages, items)
             /\ items \in SUBSET Ids /\ w.pages \in Seq(SUBSET Ids)
<1> DEFINE items == List(filter, page).items
           A == {"walk"}
           B == {Nil, 200, 500}
           D == Seq(SUBSET Ids)
           E == SUBSET Ids
           pages == Append(w.pages, items)
<1>1. items \in SUBSET Ids
  BY DEF List, Matched, Present
<1>2. w.pages \in Seq(SUBSET Ids)
  BY DEF Walk
<1> HIDE DEF items
<1>3. pages \in D /\ status \in B
  BY <1>1, <1>2, AppendIsList
<1>4. Walk = [op : A, status : B, filter : Filters, pages : D, matched : E, saved : E]
  BY DEF Walk
<1>5. WithPage(w, items, status) = [w EXCEPT !.pages = pages, !.status = status]
  BY DEF WithPage
<1>6. /\ WithPage(w, items, status).pages = pages
      /\ WithPage(w, items, status).status = status
      /\ WithPage(w, items, status).filter = w.filter
      /\ WithPage(w, items, status).matched = w.matched
      /\ WithPage(w, items, status).saved = w.saved
  BY DEF WithPage, Walk
<1>7. WithPage(w, items, status) \in Walk
  <2> HIDE DEF A, B, D, E, pages
  <2>1. [w EXCEPT !.pages = pages, !.status = status] \in Walk
    BY <1>3, <1>4, UpdatedPages
  <2> QED
    BY <1>5, <2>1
<1> QED
  BY <1>1, <1>2, <1>6, <1>7 DEF items

Verdicts == {"active", "expired", "not_found"}
Progress == {Nil, 200, 500}

(* Of some sets that the prover need not look into.                        *)
LEMMA UpdatedRecord ==
  ASSUME NEW A, NEW B, NEW C, NEW D, NEW E, NEW F, NEW G,
         NEW w \in [op : A, status : B, codes : C, at : D, found : E, items : F, issued : G],
         NEW items \in F, NEW found \in E, NEW status \in B
  PROVE  [w EXCEPT !.items = items, !.found = found, !.status = status] \in
           [op : A, status : B, codes : C, at : D, found : E, items : F, issued : G]
OBVIOUS

LEMMA CheckUpdated ==
  ASSUME NEW w \in Check, NEW items \in Seq(Verdicts), NEW status \in Progress
  PROVE  [w EXCEPT !.items = items, !.found = Nil, !.status = status] \in Check
<1> DEFINE A == {"check"}
           D == 1 .. MaxTime
           E == [case : Ids, permit : Permit] \cup {Nil}
           F == Seq(Verdicts)
           G == SUBSET (Ids \X (1 .. MaxTime))
<1>1. Check = [op : A, status : Progress, codes : CodeLists, at : D, found : E,
               items : F, issued : G]
  BY DEF Check, Verdicts, Progress
<1>2. items \in F /\ Nil \in E
  OBVIOUS
<1> HIDE DEF A, D, E, F, G
<1> QED
  BY <1>1, <1>2, UpdatedRecord

LEMMA ItemAppended ==
  ASSUME NEW w \in Check, NEW item \in Verdicts, NEW status \in Progress
  PROVE  LET query == [w EXCEPT !.items = Append(@, item), !.found = Nil, !.status = status]
         IN  /\ query \in Check /\ query.codes = w.codes /\ query.at = w.at
             /\ query.issued = w.issued /\ query.found = Nil /\ query.op = "check"
             /\ query.items = Append(w.items, item) /\ query.status = status
             /\ w.items \in Seq(Verdicts)
<1> DEFINE query == [w EXCEPT !.items = Append(@, item), !.found = Nil, !.status = status]
<1>1. w.items \in Seq(Verdicts)
  BY DEF Check, Verdicts
<1>2. Append(w.items, item) \in Seq(Verdicts)
  BY <1>1, AppendIsList
<1>3. query \in Check
  BY <1>2, CheckUpdated
<1>4. /\ query.items = Append(w.items, item) /\ query.found = Nil /\ query.status = status
      /\ query.codes = w.codes /\ query.at = w.at /\ query.issued = w.issued
      /\ query.op = "check"
  BY DEF Check
<1> QED
  BY <1>1, <1>3, <1>4

LEMMA ItemAdded ==
  ASSUME NEW w \in Check, NEW item \in Verdicts
  PROVE  LET query == WithItem(w, item)
         IN  /\ query \in Check /\ query.codes = w.codes /\ query.at = w.at
             /\ query.issued = w.issued /\ query.found = Nil
             /\ query.items = Append(w.items, item)
             /\ query.status = IF Len(w.items) + 1 = Len(w.codes) THEN 200 ELSE Nil
             /\ w.items \in Seq(Verdicts) /\ query.op = "check"
<1> DEFINE status == IF Len(w.items) + 1 = Len(w.codes) THEN 200 ELSE Nil
<1>1. status \in Progress
  BY DEF Progress
<1>2. WithItem(w, item)
        = [w EXCEPT !.items = Append(@, item), !.found = Nil, !.status = status]
  BY DEF WithItem
<1> HIDE DEF status
<1> DEFINE query == [w EXCEPT !.items = Append(@, item), !.found = Nil, !.status = status]
<1>3. /\ query \in Check /\ query.codes = w.codes /\ query.at = w.at
      /\ query.issued = w.issued /\ query.found = Nil /\ query.op = "check"
      /\ query.items = Append(w.items, item) /\ query.status = status
      /\ w.items \in Seq(Verdicts)
  BY <1>1, ItemAppended
<1>4. WithItem(w, item) = query
  BY <1>2
<1> HIDE DEF query
<1> QED
  BY <1>3, <1>4 DEF status

LEMMA PermitFound ==
  ASSUME TypeOK, NEW w \in Check, NEW code, NEW id \in FindPermit(code)
  PROVE  LET found == [case |-> id, permit |-> files[id].permit]
             query == [w EXCEPT !.found = found]
         IN  /\ query \in Check /\ found # Nil /\ found.permit \in Permit
             /\ id \in Ids /\ IsCase(id) /\ CodeOf(id) = code
             /\ query.found = found /\ query.codes = w.codes /\ query.items = w.items
             /\ query.status = w.status /\ query.issued = w.issued /\ query.at = w.at
<1> DEFINE found == [case |-> id, permit |-> files[id].permit]
<1>1. id \in Ids /\ IsCase(id) /\ files[id].permit # Nil /\ CodeOf(id) = code
  BY DEF FindPermit, Present
<1>2. files[id].permit \in Permit
  BY <1>1 DEF TypeOK, IsCase, File
<1>3. found \in [case : Ids, permit : Permit]
  BY <1>1, <1>2
<1>4. found # Nil
  BY <1>3, NilAssumption
<1>5. found.permit = files[id].permit
  OBVIOUS
<1> HIDE DEF found
<1> QED
  BY <1>1, <1>2, <1>3, <1>4, <1>5 DEF Check, found

LEMMA TypeStep == TypeOK /\ [Next]_vars => TypeOK'
<1> SUFFICES ASSUME TypeOK, [Next]_vars PROVE TypeOK'
  OBVIOUS
<1>1. ASSUME NEW id \in Ids, NEW file \in File, SaveOf(id, file)
      PROVE  TypeOK'
  BY <1>1, SaveType DEF SaveOf
<1>2. CASE Create
  BY <1>1, <1>2, CreateSaves
<1>3. ASSUME NEW id \in Ids, Mutate(id)
      PROVE  TypeOK'
  BY <1>1, <1>3, MutateSaves
<1>4. CASE Tick
  <2>1. now' \in 1 .. MaxTime
    BY <1>4, BoundAssumption DEF Tick, TypeOK
  <2> QED
    BY <1>4, <2>1 DEF Tick, TypeOK, Present, IsCase, Under
<1>5. ASSUME NEW k \in Clients, NEW filter \in Filters, StartWalk(k, filter)
      PROVE  TypeOK'
  <2> DEFINE query == [op |-> "walk", status |-> Nil, filter |-> filter, pages |-> <<>>,
                       matched |-> Matched(filter), saved |-> {}]
  <2>1. query \in Walk /\ query.op = "walk"
    BY StartedWalk
  <2>2. work' = [work EXCEPT ![k] = query] /\ UNCHANGED <<files, exports, now>>
    BY <1>5 DEF StartWalk, Start
  <2> HIDE DEF query
  <2> QED
    BY <2>1, <2>2, QueryType DEF Query
<1>6. ASSUME NEW k \in Clients, NEW codes \in CodeLists, StartCheck(k, codes)
      PROVE  TypeOK'
  <2> DEFINE query == [op |-> "check", status |-> Nil, codes |-> codes, at |-> now,
                       found |-> Nil, items |-> <<>>, issued |-> Issued]
  <2>1. query \in Check /\ query.op = "check"
    BY StartedCheck
  <2>2. work' = [work EXCEPT ![k] = query] /\ UNCHANGED <<files, exports, now>>
    BY <1>6 DEF StartCheck, Start
  <2> HIDE DEF query
  <2> QED
    BY <2>1, <2>2, QueryType DEF Query
<1>7. ASSUME NEW k \in Clients, NEW export \in Exports, StartExport(k, export[1], export[2])
      PROVE  TypeOK'
  <2> DEFINE id == export[1]
             target == export[2]
             query == [op |-> "export", target |-> target, copy |-> files[id],
                       status |-> CASE files[id] = Nil -> Fail("notFound")
                                    [] files[id] = Foreign -> Fail("storageCorrupt")
                                    [] IsCase(id) /\ target \in {id, Outside} ->
                                         Fail("exportInvalid")
                                    [] OTHER -> Nil]
  <2>1. query \in Export /\ (query.status = Nil => query.copy \in File)
    BY StartedExport
  <2>2. work' = [work EXCEPT ![k] = query] /\ UNCHANGED <<files, exports, now>>
    BY <1>7 DEF StartExport, Start
  <2> HIDE DEF query
  <2> QED
    BY <2>1, <2>2, QueryType DEF Query
<1>8. ASSUME NEW k \in Clients, NextPage(k)
      PROVE  TypeOK'
  <2> DEFINE w == work[k]
             page == Len(w.pages) + 1
             items == List(w.filter, page).items
             status == IF page >= List(w.filter, page).totalPages THEN 200 ELSE Nil
             failed == [w EXCEPT !.status = 500]
             query == WithPage(w, items, status)
  <2>1. /\ Under(k, "walk") /\ UNCHANGED <<files, exports, now>>
        /\ work' = [work EXCEPT ![k] = failed] \/ work' = [work EXCEPT ![k] = query]
    BY <1>8, Statuses DEF NextPage, Go, WithPage
  <2>2. w \in Walk /\ w.op = "walk"
    BY <2>1, QueryOfOp DEF Under
  <2>3. status \in {Nil, 200}
    OBVIOUS
  <2> HIDE DEF w, page, status
  <2>4. failed \in Query /\ failed.op = "walk" /\ query \in Walk /\ query.op = "walk"
    <3>1. failed \in Query /\ failed.op = "walk"
      BY <2>2, FailedQuery
    <3>2. query \in Walk
      BY <2>2, <2>3, PageTaken
    <3>3. \A q \in Walk : q.op = "walk"
      BY DEF Walk
    <3> HIDE DEF query, failed
    <3> QED
      BY <3>1, <3>2, <3>3
  <2> HIDE DEF failed, query
  <2> QED
    BY <2>1, <2>4, QueryType DEF Query
<1>9. ASSUME NEW k \in Clients, ScanPermits(k) \/ ReadCaseOfPermit(k)
      PROVE  TypeOK'
  <2> DEFINE w == work[k]
             failed == [w EXCEPT !.status = 500]
             query(item) == WithItem(w, item)
             found(id) == [w EXCEPT !.found = [case |-> id, permit |-> files[id].permit]]
  <2>1. /\ Under(k, "check") /\ UNCHANGED <<files, exports, now>>
        /\ \/ work' = [work EXCEPT ![k] = failed]
           \/ \E item \in Verdicts : work' = [work EXCEPT ![k] = query(item)]
           \/ \E code : \E id \in FindPermit(code) : work' = [work EXCEPT ![k] = found(id)]
    BY <1>9, Statuses DEF ScanPermits, ReadCaseOfPermit, Go, PermitStatus, Verdicts
  <2>2. w \in Check
    BY <2>1, QueryOfOp DEF Under
  <2> HIDE DEF w
  <2>3. failed \in Query /\ failed.op = "check"
    BY <2>2, FailedQuery DEF Check
  <2>4. \A item \in Verdicts : query(item) \in Check
    BY <2>2, ItemAdded
  <2>5. \A code : \A id \in FindPermit(code) : found(id) \in Check
    BY <2>2, PermitFound
  <2>6. \A c \in Check : c \in Query /\ c.op = "check"
    BY DEF Query, Check
  <2> HIDE DEF failed, query, found
  <2> QED
    BY <2>1, <2>3, <2>4, <2>5, <2>6, QueryType
<1>10. ASSUME NEW k \in Clients, WriteExport(k)
       PROVE  TypeOK'
  <2> DEFINE w == work[k]
             over == [w EXCEPT !.status = 200]
  <2>1. /\ Under(k, "export") /\ UNCHANGED now /\ work' = [work EXCEPT ![k] = over]
        /\ exports' = IF w.target = Default THEN exports \cup {w.copy} ELSE exports
        /\ files' = [id \in Ids |-> IF id = w.target THEN Foreign ELSE files[id]]
    BY <1>10 DEF WriteExport
  <2>2. w \in Export /\ w.copy \in File
    BY <2>1, QueryOfOp DEF Under, TypeOK
  <2>3. over \in Export /\ over.status # Nil
    BY <2>2, Statuses DEF Export
  <2> HIDE DEF over
  <2>4. work' \in [Clients -> Query]
    BY <2>1, <2>3 DEF TypeOK, Query
  <2>5. \A x \in Clients : Under(x, "export")' => work'[x].copy \in File
    <3>1. \A x \in Clients : work'[x] = IF x = k THEN over ELSE work[x]
      BY <2>1 DEF TypeOK
    <3> QED
      BY <2>3, <3>1 DEF TypeOK, Under
  <2>6. /\ files' \in [Ids -> File \cup {Nil, Foreign}]
        /\ \A id \in Present' : id \in Present /\ files'[id] = files[id]
    BY <2>1 DEF TypeOK, Present, IsCase
  <2>7. exports' \subseteq File
    BY <2>1, <2>2 DEF TypeOK
  <2> QED
    BY <2>1, <2>4, <2>5, <2>6, <2>7 DEF TypeOK
<1>11. CASE UNCHANGED vars
  BY <1>11 DEF vars, TypeOK, Present, IsCase, Under
<1> QED
  BY <1>2, <1>3, <1>4, <1>5, <1>6, <1>7, <1>8, <1>9, <1>10, <1>11 DEF Next

(* Every variable keeps its type, and a file has a permit when its case is *)
(* activated, and then only.                                               *)
THEOREM DirectoryTypeCorrect == Spec => []TypeOK
BY TypeInit, TypeStep, PTL DEF Spec

-----------------------------------------------------------------------------
(* The walk through the list. *)

LEMMA QuotientAtLeast ==
  ASSUME NEW a \in Int, NEW n \in Nat \ {0}, NEW q \in Int
  PROVE  /\ a \div n \in Int
         /\ a \div n >= q <=> a >= q * n
<1> DEFINE d == a \div n
           r == a % n
<1>1. d \in Int /\ r \in 0 .. n - 1 /\ a = n * d + r
  OBVIOUS
<1> HIDE DEF d, r
<1>2. ASSUME d >= q PROVE a >= q * n
  <2>1. n * d >= n * q
    BY <1>1, <1>2
  <2> QED
    BY <1>1, <2>1
<1>3. ASSUME a >= q * n PROVE d >= q
  <2> SUFFICES ASSUME d + 1 <= q PROVE FALSE
    BY <1>1
  <2>1. n * (d + 1) <= n * q
    BY <1>1
  <2> QED
    BY <1>1, <1>3, <2>1
<1> QED
  BY <1>1, <1>2, <1>3 DEF d

(* The cases that match are so many, and each has fewer before it.         *)
LEMMA PlacesInList ==
  ASSUME TypeOK, NEW filter
  PROVE  /\ IsFiniteSet(Matched(filter)) /\ Cardinality(Matched(filter)) \in Nat
         /\ \A id : Rank(filter, id) \in Nat
         /\ \A id \in Matched(filter) : Rank(filter, id) < Cardinality(Matched(filter))
<1> DEFINE M == Matched(filter)
           B(id) == {j \in M : Before(j, id)}
<1>1. IsFiniteSet(M) /\ Cardinality(M) \in Nat
  <2>1. IsFiniteSet(Ids)
    BY BoundAssumption, FS_Interval DEF Ids
  <2>2. M \in SUBSET Ids
    BY DEF Matched, Present
  <2> HIDE DEF M
  <2>3. IsFiniteSet(M)
    BY <2>1, <2>2, FS_Subset
  <2> QED
    BY <2>3, FS_CardinalityType
<1>2. \A id : Rank(filter, id) = Cardinality(B(id)) /\ B(id) \in SUBSET M
  BY DEF Rank
<1>3. \A id \in M : id \notin B(id)
  <2>1. ASSUME NEW id \in M PROVE ~ Before(id, id)
    <3>1. files[id].updatedAt \in Int /\ id \in Int
      BY DEF Matched, Present, IsCase, TypeOK, File, Ids
    <3> QED
      BY <3>1 DEF Before
  <2> QED
    BY <2>1
<1> HIDE DEF M, B
<1>4. ASSUME NEW id
      PROVE  /\ Cardinality(B(id)) \in Nat /\ Cardinality(B(id)) <= Cardinality(M)
             /\ id \in M => Cardinality(B(id)) # Cardinality(M)
  <2>1. B(id) \in SUBSET M
    BY <1>2
  <2>2. /\ IsFiniteSet(B(id)) /\ Cardinality(B(id)) <= Cardinality(M)
        /\ Cardinality(M) = Cardinality(B(id)) => M = B(id)
    BY <1>1, <2>1, FS_Subset
  <2> QED
    BY <1>3, <2>2, FS_CardinalityType
<1> QED
  BY <1>1, <1>2, <1>4 DEF M

LEMMA PageOfPlace ==
  ASSUME TypeOK, NEW filter, NEW id, NEW q \in Int
  PROVE  /\ Rank(filter, id) \div PageSize \in Int
         /\ Rank(filter, id) \div PageSize >= q <=> Rank(filter, id) >= q * PageSize
<1>1. Rank(filter, id) \in Int
  <2>1. Rank(filter, id) \in Nat
    BY PlacesInList
  <2> QED
    BY <2>1
<1>2. PageSize \in Nat \ {0}
  BY BoundAssumption
<1> QED
  BY <1>1, <1>2, QuotientAtLeast

LEMMA ListedOrNot ==
  ASSUME NEW w \in Walk, NEW id
  PROVE  Listed(w, id) > 0 <=> \E p \in DOMAIN w.pages : id \in w.pages[p]
<1> DEFINE P == {p \in DOMAIN w.pages : id \in w.pages[p]}
<1>1. IsFiniteSet(DOMAIN w.pages)
  <2>1. w.pages \in Seq(SUBSET Ids)
    BY DEF Walk
  <2>2. DOMAIN w.pages = 1 .. Len(w.pages) /\ Len(w.pages) \in Nat
    BY <2>1, LenProperties
  <2> QED
    BY <2>2, FS_Interval
<1>2. P \in SUBSET (DOMAIN w.pages)
  OBVIOUS
<1>3. P # {} <=> \E p \in DOMAIN w.pages : id \in w.pages[p]
  OBVIOUS
<1>4. Listed(w, id) = Cardinality(P)
  BY DEF Listed
<1> HIDE DEF P
<1>5. IsFiniteSet(P)
  BY <1>1, <1>2, FS_Subset
<1>6. Cardinality(P) \in Nat /\ (Cardinality(P) = 0 <=> P = {})
  BY <1>5, FS_CardinalityType, FS_EmptySet
<1> QED
  BY <1>3, <1>4, <1>6

(* A page more: those that were to come are on it, or still to come.       *)
LEMMA PageSound ==
  ASSUME TypeOK, NEW w \in Walk, NEW v \in Walk, WalkSound(w),
         v.filter = w.filter, v.matched = w.matched, v.saved = w.saved,
         v.pages = Append(w.pages, List(w.filter, Len(w.pages) + 1).items)
  PROVE  WalkSound(v)
<1> DEFINE n == Len(w.pages)
           items == List(w.filter, n + 1).items
<1>1. items \in SUBSET Ids /\ w.pages \in Seq(SUBSET Ids)
  BY DEF List, Matched, Present, Walk
<1>2. /\ n \in Nat /\ Len(v.pages) = n + 1 /\ v.pages[n + 1] = items
      /\ DOMAIN w.pages = 1 .. n /\ DOMAIN v.pages = 1 .. n + 1
      /\ \A i \in 1 .. n : v.pages[i] = w.pages[i]
  <2>1. v.pages = Append(w.pages, items)
    OBVIOUS
  <2> HIDE DEF items
  <2> QED
    BY <1>1, <2>1, AppendIsList
<1>3. items = {i \in Matched(w.filter) : Rank(w.filter, i) \div PageSize = n}
  <2>1. (n + 1) - 1 = n
    BY <1>2
  <2> QED
    BY <2>1 DEF List
<1> HIDE DEF n, items
<1>4. ASSUME w.filter.state = Nil, w.filter.to = Nil, NEW id \in w.matched \ w.saved
      PROVE  /\ id \in Matched(w.filter)
             /\ \/ \E p \in 1 .. n + 1 : id \in v.pages[p]
                \/ Rank(w.filter, id) \div PageSize >= n + 1
  <2>1. /\ id \in Matched(w.filter)
        /\ \/ \E p \in 1 .. n : id \in w.pages[p]
           \/ Rank(w.filter, id) \div PageSize >= n
    BY <1>2, <1>4 DEF WalkSound, n
  <2>2. CASE \E p \in 1 .. n : id \in w.pages[p]
    BY <1>2, <2>1, <2>2
  <2>3. CASE Rank(w.filter, id) \div PageSize >= n
    <3> DEFINE q == Rank(w.filter, id) \div PageSize
    <3>1. q \in Int
      BY <1>2, PageOfPlace
    <3>2. q = n => id \in v.pages[n + 1]
      BY <1>2, <1>3, <2>1
    <3>3. q >= n
      BY <2>3
    <3> HIDE DEF q
    <3>4. q = n \/ q >= n + 1
      BY <1>2, <3>1, <3>3
    <3>5. n + 1 \in 1 .. n + 1
      BY <1>2
    <3> QED
      BY <2>1, <3>2, <3>4, <3>5 DEF q
  <2> QED
    BY <2>1, <2>2, <2>3
<1>5. ASSUME w.saved = {}
      PROVE  /\ Matched(w.filter) = w.matched
             /\ \A p \in 1 .. n + 1 : v.pages[p] = List(w.filter, p).items
  <2>1. /\ Matched(w.filter) = w.matched
        /\ \A p \in 1 .. n : w.pages[p] = List(w.filter, p).items
    BY <1>2, <1>5 DEF WalkSound
  <2>2. \A p \in 1 .. n + 1 : p \in 1 .. n \/ p = n + 1
    BY <1>2
  <2> QED
    BY <1>2, <2>1, <2>2 DEF items
<1> QED
  BY <1>2, <1>4, <1>5 DEF WalkSound

(* Whoever has had all the pages has met them all.                         *)
LEMMA PagesComplete ==
  ASSUME TypeOK, NEW v \in Walk, WalkSound(v), Len(v.pages) > 0,
         Len(v.pages) >= List(v.filter, Len(v.pages)).totalPages
  PROVE  WalkComplete(v)
<1> DEFINE n == Len(v.pages)
           M == Matched(v.filter)
           d(id) == Rank(v.filter, id) \div PageSize
<1>1. n \in Nat /\ DOMAIN v.pages = 1 .. n
  <2>1. v.pages \in Seq(SUBSET Ids)
    BY DEF Walk
  <2> QED
    BY <2>1, LenProperties
<1>2. PageSize \in Nat \ {0}
  BY BoundAssumption
<1>3. Cardinality(M) \in Nat
  BY PlacesInList
<1>4. n >= (Cardinality(M) + PageSize - 1) \div PageSize
  BY DEF List
<1>5. \A id : id \in M => d(id) \in Int /\ d(id) >= 0 /\ d(id) < n
  <2> SUFFICES ASSUME NEW id, id \in M PROVE d(id) \in Int /\ d(id) >= 0 /\ d(id) < n
    OBVIOUS
  <2> DEFINE a == Cardinality(M) + PageSize - 1
             r == Rank(v.filter, id)
  <2>1. r \in Nat /\ r < Cardinality(M)
    BY PlacesInList
  <2>2. d(id) \in Int /\ (d(id) >= 0 <=> r >= 0 * PageSize)
        /\ (d(id) >= n <=> r >= n * PageSize)
    BY <1>1, PageOfPlace
  <2>3. a \in Int /\ a \div PageSize \in Int
        /\ (a \div PageSize >= n + 1 <=> a >= (n + 1) * PageSize)
    <3>1. a \in Int /\ n + 1 \in Int
      BY <1>1, <1>2, <1>3
    <3> HIDE DEF a, n
    <3> QED
      BY <1>2, <3>1, QuotientAtLeast
  <2>4. a < n * PageSize + PageSize
    <3>1. ~ a \div PageSize >= n + 1
      BY <1>1, <1>4, <2>3
    <3>2. (n + 1) * PageSize = n * PageSize + PageSize
      BY <1>1, <1>2
    <3> HIDE DEF a, n
    <3> QED
      BY <1>1, <1>2, <2>3, <3>1, <3>2
  <2>5. n * PageSize \in Int /\ 0 * PageSize = 0
    BY <1>1, <1>2
  <2> DEFINE m == n * PageSize
  <2>6. Cardinality(M) <= m
    <3>1. Cardinality(M) + PageSize - 1 < m + PageSize /\ m \in Int
      BY <2>4, <2>5
    <3> HIDE DEF m, M
    <3> QED
      BY <1>2, <1>3, <3>1
  <2> HIDE DEF m, d, r, M
  <2> QED
    BY <1>1, <1>3, <2>1, <2>2, <2>5, <2>6 DEF m
<1>6. ASSUME v.filter.state = Nil, v.filter.to = Nil, NEW id \in v.matched \ v.saved
      PROVE  Listed(v, id) > 0
  <2>1. id \in M /\ ((\E p \in DOMAIN v.pages : id \in v.pages[p]) \/ d(id) >= n)
    BY <1>6 DEF WalkSound
  <2>2. ~ d(id) >= n
    <3>1. d(id) \in Int /\ d(id) < n
      BY <1>5, <2>1
    <3> HIDE DEF d
    <3> QED
      BY <1>1, <3>1
  <2> QED
    BY <2>1, <2>2, ListedOrNot
<1>7. ASSUME v.saved = {}, NEW id \in Ids
      PROVE  Listed(v, id) = IF id \in v.matched THEN 1 ELSE 0
  <2> DEFINE P == {p \in DOMAIN v.pages : id \in v.pages[p]}
  <2>1. M = v.matched /\ \A p \in DOMAIN v.pages : v.pages[p] = List(v.filter, p).items
    BY <1>7 DEF WalkSound
  <2>2. P = {p \in 1 .. n : id \in M /\ d(id) = p - 1}
    BY <1>1, <2>1 DEF List
  <2>3. Listed(v, id) = Cardinality(P)
    BY DEF Listed
  <2>4. CASE id \in M
    <3>1. d(id) \in Int /\ d(id) >= 0 /\ d(id) < n
      BY <1>5, <2>4
    <3> HIDE DEF d, n
    <3>2. P = {d(id) + 1}
      BY <1>1, <2>2, <2>4, <3>1
    <3> HIDE DEF P
    <3> QED
      BY <2>1, <2>3, <2>4, <3>2, FS_Singleton
  <2>5. CASE id \notin M
    <3>1. P = {}
      BY <2>2, <2>5
    <3> HIDE DEF P
    <3> QED
      BY <2>1, <2>3, <2>5, <3>1, FS_EmptySet
  <2> QED
    BY <2>4, <2>5
<1> QED
  BY <1>6, <1>7 DEF WalkComplete

(* A case that is saved comes before those that are not, at least if it    *)
(* came before them already: the list is ordered by the latest update.     *)
LEMMA SavedComeFirst ==
  ASSUME TypeOK, TypeOK', NEW id \in Ids, NEW file \in File, SaveOf(id, file),
         NEW filter \in Filter, filter.state = Nil, filter.to = Nil,
         NEW x \in Matched(filter), x # id
  PROVE  /\ x \in Matched(filter)'
         /\ Rank(filter, x)' \in Nat /\ Rank(filter, x)' >= Rank(filter, x)
<1>1. \A y \in Ids : files'[y] = IF y = id THEN file ELSE files[y]
  BY DEF SaveOf, TypeOK
<1>2. x \in Ids /\ \A y \in Matched(filter) : y \in Ids /\ IsCase(y) /\ files[y] \in File
  BY DEF Matched, Present, IsCase, TypeOK
<1>3. IsCase(id)' /\ files'[id] = file
  BY <1>1, NilAssumption DEF IsCase
<1>4. ASSUME NEW y \in Matched(filter)
      PROVE  y \in Matched(filter)'
  <2>1. CASE y = id
    <3>1. file.updatedAt >= files[id].updatedAt
      BY <1>2, <1>4, <2>1 DEF SaveOf
    <3>2. file.updatedAt \in Int /\ files[id].updatedAt \in Int
          /\ filter.from \in Int \cup {Nil}
      BY <1>2, <1>4, <2>1 DEF File, Filter
    <3>3. filter.from # Nil => files[id].updatedAt >= filter.from
      BY <1>4, <2>1 DEF Matched
    <3>4. filter.from # Nil => file.updatedAt >= filter.from
      BY <3>1, <3>2, <3>3
    <3> QED
      BY <1>3, <2>1, <3>4 DEF Matched, Present
  <2>2. CASE y # id
    BY <1>1, <1>2, <1>4, <2>2 DEF Matched, Present, IsCase
  <2> QED
    BY <2>1, <2>2
<1>5. ASSUME NEW y \in Matched(filter), Before(y, x)
      PROVE  Before(y, x)'
  <2>1. files'[x] = files[x]
    BY <1>1, <1>2
  <2>2. files[x].updatedAt \in Int /\ files[y].updatedAt \in Int /\ file.updatedAt \in Int
    BY <1>2 DEF File
  <2>3. CASE y = id
    <3>1. file.updatedAt >= files[id].updatedAt
      BY <1>2, <2>3 DEF SaveOf
    <3> QED
      BY <1>3, <1>5, <2>1, <2>2, <2>3, <3>1 DEF Before
  <2>4. CASE y # id
    BY <1>1, <1>2, <1>5, <2>1, <2>4 DEF Before
  <2> QED
    BY <2>3, <2>4
<1> DEFINE A == {j \in Matched(filter) : Before(j, x)}
           B == {j \in Matched(filter)' : Before(j, x)'}
<1>6. A \in SUBSET B
  BY <1>4, <1>5
<1>7. IsFiniteSet(B)
  <2>1. (IsFiniteSet(Matched(filter)))'
    <3>1. (TypeOK => IsFiniteSet(Matched(filter)))'
      BY PlacesInList, PTL
    <3> QED
      BY <3>1
  <2>2. B \in SUBSET Matched(filter)'
    OBVIOUS
  <2> HIDE DEF B
  <2> QED
    BY <2>1, <2>2, FS_Subset
<1>8. Rank(filter, x) = Cardinality(A) /\ Rank(filter, x)' = Cardinality(B)
  BY DEF Rank
<1> HIDE DEF A, B
<1> QED
  BY <1>4, <1>6, <1>7, <1>8, FS_Subset, FS_CardinalityType

LEMMA SaveKeepsSound ==
  ASSUME TypeOK, TypeOK', NEW id \in Ids, NEW file \in File, SaveOf(id, file),
         NEW w \in Walk, NEW v \in Walk, WalkSound(w),
         v.filter = w.filter, v.matched = w.matched, v.pages = w.pages,
         v.saved = w.saved \cup {id}
  PROVE  WalkSound(v)'
<1>1. w.filter \in Filter
  BY DirectoryAssumption DEF Walk
<1>2. v.saved # {}
  OBVIOUS
<1>3. ASSUME v.filter.state = Nil, v.filter.to = Nil, NEW x \in v.matched \ v.saved
      PROVE  /\ x \in Matched(v.filter)'
             /\ \/ \E p \in DOMAIN v.pages : x \in v.pages[p]
                \/ (Rank(v.filter, x) \div PageSize)' >= Len(v.pages)
  <2> DEFINE n == Len(v.pages)
             r == Rank(w.filter, x)
             s == Rank(w.filter, x)'
  <2>1. x \in w.matched \ w.saved /\ x # id
    BY <1>3
  <2>2. /\ x \in Matched(w.filter)
        /\ (\E p \in DOMAIN v.pages : x \in v.pages[p]) \/ r \div PageSize >= n
    BY <1>3, <2>1 DEF WalkSound
  <2>3. x \in Matched(w.filter)' /\ s \in Nat /\ s >= r
    BY <1>1, <1>3, <2>1, <2>2, SavedComeFirst
  <2>4. CASE r \div PageSize >= n
    <3>1. n \in Int
      <4>1. v.pages \in Seq(SUBSET Ids)
        BY DEF Walk
      <4> QED
        BY <4>1, LenProperties
    <3>2. PageSize \in Nat \ {0}
      BY BoundAssumption
    <3>3. r \in Int
      BY PlacesInList
    <3>4. s \in Int
      BY <2>3
    <3> HIDE DEF n, r, s
    <3>5. r >= n * PageSize
      BY <2>4, <3>1, <3>2, <3>3, QuotientAtLeast
    <3>6. n * PageSize \in Int
      BY <3>1, <3>2
    <3>7. s >= n * PageSize
      BY <2>3, <3>3, <3>4, <3>5, <3>6
    <3>8. s \div PageSize >= n
      BY <3>1, <3>2, <3>4, <3>7, QuotientAtLeast
    <3> QED
      BY <2>3, <3>8 DEF n, s
  <2> QED
    BY <2>2, <2>3, <2>4
<1> QED
  BY <1>2, <1>3 DEF WalkSound

(* Nothing of it depends on the exports, the clock or other clients.       *)
LEMMA SoundStays ==
  ASSUME UNCHANGED files, NEW w, WalkSound(w)
  PROVE  WalkSound(w)'
<1>1. Matched(w.filter)' = Matched(w.filter)
  BY DEF Matched, Present, IsCase
<1>2. \A x : Rank(w.filter, x)' = Rank(w.filter, x)
  BY <1>1 DEF Rank, Before
<1>3. ASSUME NEW p PROVE List(w.filter, p)' = List(w.filter, p)
  <2>1. {i \in Matched(w.filter) : Rank(w.filter, i) \div PageSize = p - 1}'
          = {i \in Matched(w.filter) : Rank(w.filter, i) \div PageSize = p - 1}
    BY <1>1, <1>2
  <2> QED
    BY <1>1, <2>1 DEF List
<1> QED
  BY <1>1, <1>2, <1>3 DEF WalkSound

LEMMA ScanFailsStays ==
  ASSUME TypeOK, NEW id \in Ids, NEW file \in File, SaveOf(id, file)
  PROVE  ScanFails' <=> ScanFails
<1>1. \A x \in Ids : files'[x] = Foreign <=> files[x] = Foreign
  BY NilAssumption DEF SaveOf, TypeOK
<1> QED
  BY <1>1 DEF ScanFails, SaveOf

(* A query starts or goes on.                                              *)
LEMMA WalksGoOn ==
  ASSUME WalksSound, WalkMissesNothing, TypeOK, NEW k \in Clients, NEW query,
         work' = [work EXCEPT ![k] = query], UNCHANGED <<files, exports>>,
         query.op = "walk" /\ query.status = Nil /\ ~ ScanFails => WalkSound(query),
         query.op = "walk" /\ query.status = 200 => WalkComplete(query)
  PROVE  WalksSound' /\ WalkMissesNothing'
<1>1. \A x \in Clients : work'[x] = IF x = k THEN query ELSE work[x]
  BY DEF TypeOK
<1>2. ScanFails' <=> ScanFails
  BY DEF ScanFails
<1>3. ASSUME NEW x \in Clients, Under(x, "walk")', ~ ScanFails'
      PROVE  WalkSound(work[x])'
  <2>1. WalkSound(work'[x])
    BY <1>1, <1>2, <1>3 DEF WalksSound, Under
  <2>2. PICK v : v = work'[x]
    OBVIOUS
  <2>3. WalkSound(v)'
    BY <2>1, <2>2, SoundStays
  <2> QED
    BY <2>2, <2>3
<1>4. ASSUME NEW x \in Clients, Over(x, "walk")', work'[x].status = 200
      PROVE  WalkComplete(work'[x])
  BY <1>1, <1>4 DEF WalkMissesNothing, Over
<1> QED
  BY <1>3, <1>4 DEF WalksSound, WalkMissesNothing, WalkComplete, Listed

LEMMA WalksKept ==
  ASSUME WalkInv, TypeOK', [Next]_vars
  PROVE  WalksSound' /\ WalkMissesNothing'
<1> USE DEF WalkInv
<1>1. ASSUME NEW id \in Ids, NEW file \in File, SaveOf(id, file)
      PROVE  WalksSound' /\ WalkMissesNothing'
  <2>1. \A k \in Clients : work'[k] =
          IF Under(k, "walk") THEN [work[k] EXCEPT !.saved = @ \cup {id}] ELSE work[k]
    BY <1>1 DEF SaveOf, NoteSaved
  <2>2. ScanFails' <=> ScanFails
    BY <1>1, ScanFailsStays
  <2>3. \A k \in Clients : Under(k, "walk") =>
          /\ work[k] \in Walk /\ work'[k] \in Walk
          /\ work'[k].filter = work[k].filter /\ work'[k].matched = work[k].matched
          /\ work'[k].pages = work[k].pages /\ work'[k].saved = work[k].saved \cup {id}
          /\ work'[k].status = Nil
    <3> SUFFICES ASSUME NEW k \in Clients, Under(k, "walk")
                 PROVE  /\ work[k] \in Walk /\ work'[k] \in Walk
                        /\ work'[k].filter = work[k].filter
                        /\ work'[k].matched = work[k].matched
                        /\ work'[k].pages = work[k].pages
                        /\ work'[k].saved = work[k].saved \cup {id}
                        /\ work'[k].status = Nil
      OBVIOUS
    <3>1. work[k] \in Walk /\ work[k].status = Nil
      BY QueryOfOp DEF Under
    <3>2. work'[k] = [work[k] EXCEPT !.saved = @ \cup {id}]
      BY <2>1
    <3>3. work'[k] \in Walk
      BY <3>1, <3>2 DEF Walk
    <3> QED
      BY <3>1, <3>2, <3>3 DEF Walk
  <2>4. ASSUME NEW k \in Clients, Under(k, "walk")', ~ ScanFails'
        PROVE  WalkSound(work[k])'
    <3>1. Under(k, "walk") /\ WalkSound(work[k])
      BY <2>1, <2>2, <2>4 DEF Under, WalksSound
    <3>2. PICK w \in Walk, v \in Walk : w = work[k] /\ v = work'[k]
      BY <2>3, <3>1
    <3>3. WalkSound(v)'
      BY <1>1, <2>3, <3>1, <3>2, SaveKeepsSound
    <3> QED
      BY <3>2, <3>3
  <2>5. ASSUME NEW k \in Clients, Over(k, "walk")'
        PROVE  work'[k] = work[k]
    <3>1. ~ Under(k, "walk")
      BY <2>3, <2>5 DEF Over
    <3> QED
      BY <2>1, <3>1
  <2> QED
    BY <2>4, <2>5 DEF WalksSound, WalkMissesNothing, Over, WalkComplete, Listed
<1>2. CASE Create
  BY <1>1, <1>2, CreateSaves
<1>3. ASSUME NEW id \in Ids, Mutate(id)
      PROVE  WalksSound' /\ WalkMissesNothing'
  BY <1>1, <1>3, MutateSaves
<1>4. CASE UNCHANGED <<files, exports, work>>
  <2>1. ScanFails' <=> ScanFails
    BY <1>4 DEF ScanFails
  <2>2. ASSUME NEW k \in Clients, Under(k, "walk")', ~ ScanFails'
        PROVE  WalkSound(work[k])'
    <3>1. WalkSound(work[k])
      BY <1>4, <2>1, <2>2 DEF WalksSound, Under
    <3>2. PICK w : w = work[k]
      OBVIOUS
    <3>3. WalkSound(w)'
      BY <1>4, <3>1, <3>2, SoundStays
    <3> QED
      BY <1>4, <3>2, <3>3
  <2> QED
    BY <1>4, <2>2 DEF WalksSound, WalkMissesNothing, Over, WalkComplete, Listed
<1>5. ASSUME NEW k \in Clients, NEW filter \in Filters, StartWalk(k, filter)
      PROVE  WalksSound' /\ WalkMissesNothing'
  <2> DEFINE query == [op |-> "walk", status |-> Nil, filter |-> filter, pages |-> <<>>,
                       matched |-> Matched(filter), saved |-> {}]
  <2>1. query.status = Nil /\ Nil # 200 /\ WalkSound(query)
    <3>1. \A x \in Matched(filter) : Rank(filter, x) \div PageSize >= 0
      <4>1. \A x : Rank(filter, x) \in Nat
        BY PlacesInList
      <4>2. PageSize \in Nat \ {0}
        BY BoundAssumption
      <4>3. 0 * PageSize = 0
        BY <4>2
      <4> QED
        BY <4>1, <4>3, PageOfPlace
    <3>2. /\ query.filter = filter /\ query.matched = Matched(filter)
          /\ query.saved = {} /\ query.pages = <<>>
      OBVIOUS
    <3>3. Len(query.pages) = 0 /\ DOMAIN query.pages = {}
      BY <3>2
    <3> HIDE DEF query
    <3>4. WalkSound(query)
      BY <3>1, <3>2, <3>3 DEF WalkSound
    <3> QED
      BY <3>4, Statuses DEF query
  <2>2. work' = [work EXCEPT ![k] = query] /\ UNCHANGED <<files, exports>>
    BY <1>5 DEF StartWalk, Start
  <2> HIDE DEF query
  <2> QED
    BY <2>1, <2>2, WalksGoOn
<1>6. ASSUME NEW k \in Clients, NextPage(k)
      PROVE  WalksSound' /\ WalkMissesNothing'
  <2> DEFINE w == work[k]
             page == Len(w.pages) + 1
             list == List(w.filter, page)
             items == list.items
             status == IF page >= list.totalPages THEN 200 ELSE Nil
             failed == [w EXCEPT !.status = 500]
             query == WithPage(w, items, status)
  <2>1. /\ Under(k, "walk") /\ UNCHANGED <<files, exports>>
        /\ \/ work' = [work EXCEPT ![k] = failed]
           \/ ~ ScanFails /\ work' = [work EXCEPT ![k] = query]
    BY <1>6, Statuses DEF NextPage, Go, WithPage
  <2>2. w \in Walk
    BY <2>1, QueryOfOp DEF Under
  <2>3. ~ ScanFails => WalkSound(w)
    BY <2>1 DEF WalksSound
  <2>4. status \in {Nil, 200}
    OBVIOUS
  <2> HIDE DEF w
  <2>5. failed.status = 500
    BY <2>2, FailedQuery
  <2>6. /\ query \in Walk /\ query.filter = w.filter
        /\ query.matched = w.matched /\ query.saved = w.saved
        /\ query.status = status /\ query.pages = Append(w.pages, items)
        /\ items \in SUBSET Ids /\ w.pages \in Seq(SUBSET Ids)
    <3> HIDE DEF status, page
    <3>1. TypeOK
      OBVIOUS
    <3>2. query \in Walk
      BY <2>2, <2>4, <3>1, PageTaken
    <3>3. query.filter = w.filter /\ query.status = status
      BY <2>2, <2>4, <3>1, PageTaken
    <3> QED
      BY <2>2, <2>4, <3>1, <3>2, <3>3, PageTaken
  <2> HIDE DEF query, failed
  <2>7. Len(query.pages) = page /\ page > 0
    <3> HIDE DEF items
    <3>1. Len(w.pages) \in Nat /\ Len(query.pages) = Len(w.pages) + 1
      BY <2>6, AppendIsList
    <3> QED
      BY <3>1
  <2>8. ASSUME ~ ScanFails PROVE WalkSound(query)
    BY <2>2, <2>3, <2>6, <2>8, PageSound
  <2>9. ASSUME ~ ScanFails, query.status = 200 PROVE WalkComplete(query)
    <3>1. page >= list.totalPages
      BY <2>6, <2>9, Statuses
    <3> QED
      BY <2>6, <2>7, <2>8, <2>9, <3>1, PagesComplete
  <2>10. 500 # Nil /\ 500 # 200
    BY Statuses
  <2> HIDE DEF status, list, page
  <2> QED
    BY <2>1, <2>5, <2>8, <2>9, <2>10, WalksGoOn
<1>7. ASSUME NEW k \in Clients,
             \/ \E codes \in CodeLists : StartCheck(k, codes)
             \/ \E export \in Exports : StartExport(k, export[1], export[2])
             \/ ScanPermits(k) \/ ReadCaseOfPermit(k)
      PROVE  WalksSound' /\ WalkMissesNothing'
  <2>1. \E query : /\ work' = [work EXCEPT ![k] = query] /\ query.op # "walk"
                   /\ UNCHANGED <<files, exports>>
    <3>1. CASE \E codes \in CodeLists : StartCheck(k, codes)
      <4>1. PICK codes \in CodeLists : StartCheck(k, codes)
        BY <3>1
      <4> DEFINE query == [op |-> "check", status |-> Nil, codes |-> codes, at |-> now,
                           found |-> Nil, items |-> <<>>, issued |-> Issued]
      <4>2. work' = [work EXCEPT ![k] = query] /\ UNCHANGED <<files, exports>>
        BY <4>1 DEF StartCheck, Start
      <4>3. query.op # "walk"
        OBVIOUS
      <4> HIDE DEF query
      <4> QED
        BY <4>2, <4>3
    <3>2. CASE \E export \in Exports : StartExport(k, export[1], export[2])
      <4>1. PICK export \in Exports : StartExport(k, export[1], export[2])
        BY <3>2
      <4>2. PICK status :
              /\ work' = [work EXCEPT ![k] =
                   [op |-> "export", target |-> export[2], copy |-> files[export[1]],
                    status |-> status]]
              /\ UNCHANGED <<files, exports>>
        BY <4>1 DEF StartExport, Start
      <4> DEFINE query == [op |-> "export", target |-> export[2],
                           copy |-> files[export[1]], status |-> status]
      <4>3. work' = [work EXCEPT ![k] = query] /\ query.op # "walk"
        BY <4>2
      <4> HIDE DEF query
      <4> QED
        BY <4>2, <4>3
    <3>3. CASE ScanPermits(k) \/ ReadCaseOfPermit(k)
      <4> DEFINE w == work[k]
                 failed == [w EXCEPT !.status = 500]
                 query(item) == WithItem(w, item)
                 found(id) == [w EXCEPT !.found = [case |-> id, permit |-> files[id].permit]]
      <4>1. /\ Under(k, "check") /\ UNCHANGED <<files, exports>>
            /\ \/ work' = [work EXCEPT ![k] = failed]
               \/ \E item \in Verdicts : work' = [work EXCEPT ![k] = query(item)]
               \/ \E code : \E id \in FindPermit(code) :
                    work' = [work EXCEPT ![k] = found(id)]
        BY <3>3, Statuses DEF ScanPermits, ReadCaseOfPermit, Go, PermitStatus, Verdicts
      <4>2. w \in Check
        BY <4>1, QueryOfOp DEF Under
      <4> HIDE DEF w
      <4>3. failed.op = "check"
        BY <4>2, FailedQuery DEF Check
      <4>4. \A item \in Verdicts : query(item).op = "check"
        BY <4>2, ItemAdded
      <4>5. \A code : \A id \in FindPermit(code) : found(id) \in Check
        BY <4>2, PermitFound
      <4>6. \A c \in Check : c.op = "check"
        BY DEF Check
      <4> HIDE DEF failed, query, found
      <4> QED
        BY <4>1, <4>3, <4>4, <4>5, <4>6
    <3> QED
      BY <1>7, <3>1, <3>2, <3>3
  <2> QED
    BY <2>1, WalksGoOn
<1>8. ASSUME NEW k \in Clients, WriteExport(k)
      PROVE  WalksSound' /\ WalkMissesNothing'
  <2>1. /\ Under(k, "export")
        /\ exports' = IF work[k].target = Default THEN exports \cup {work[k].copy}
                                                  ELSE exports
        /\ files' = [id \in Ids |-> IF id = work[k].target THEN Foreign ELSE files[id]]
        /\ work' = [work EXCEPT ![k] = [work[k] EXCEPT !.status = 200]]
    BY <1>8 DEF WriteExport
  <2>2. work[k] \in Export
    BY <2>1, QueryOfOp DEF Under
  <2>3. work'[k].op # "walk"
    BY <2>1, <2>2 DEF TypeOK, Export
  <2>4. \A x \in Clients : x # k => work'[x] = work[x]
    BY <2>1 DEF TypeOK
  <2>5. ASSUME ~ ScanFails' PROVE ~ ScanFails /\ files' = files
    <3>1. \A id \in Ids : id # work[k].target
      BY <2>1, <2>5 DEF ScanFails
    <3>2. files' = files
      BY <2>1, <3>1 DEF TypeOK
    <3>3. exports \subseteq exports'
      BY <2>1
    <3> QED
      BY <2>5, <3>2, <3>3 DEF ScanFails
  <2>6. ASSUME NEW x \in Clients, Under(x, "walk")', ~ ScanFails'
        PROVE  WalkSound(work[x])'
    <3>1. x # k
      BY <2>3, <2>6 DEF Under
    <3>2. work'[x] = work[x] /\ Under(x, "walk")
      BY <2>4, <2>6, <3>1 DEF Under
    <3>3. WalkSound(work[x]) /\ files' = files
      BY <2>5, <2>6, <3>2 DEF WalksSound
    <3>4. PICK w : w = work[x]
      OBVIOUS
    <3>5. WalkSound(w)'
      BY <3>3, <3>4, SoundStays
    <3> QED
      BY <3>2, <3>4, <3>5
  <2>7. ASSUME NEW x \in Clients, Over(x, "walk")'
        PROVE  work'[x] = work[x]
    BY <2>3, <2>4, <2>7 DEF Over
  <2> QED
    BY <2>6, <2>7 DEF WalksSound, WalkMissesNothing, Over, WalkComplete, Listed
<1>9. CASE Tick \/ UNCHANGED vars
  BY <1>4, <1>9 DEF Tick, vars
<1> QED
  BY <1>2, <1>3, <1>5, <1>6, <1>7, <1>8, <1>9 DEF Next

LEMMA WalkInit == Init => WalkInv
<1> SUFFICES ASSUME Init PROVE WalkInv
  OBVIOUS
<1>1. \A k \in Clients : work[k].op # "walk"
  BY DEF Init, NoQuery
<1> QED
  BY <1>1, TypeInit DEF WalkInv, WalksSound, WalkMissesNothing, Under, Over

(* Whatever is saved and exported meanwhile, what a walk has shown so far  *)
(* and what it is still to show are all the cases it must not miss.        *)
THEOREM WalkKept == Spec => []WalkInv
<1>1. WalkInv /\ [Next]_vars => WalkInv'
  BY TypeStep, WalksKept DEF WalkInv
<1> QED
  BY WalkInit, <1>1, PTL DEF Spec

(* A client that walks through the list while cases are created, mutated   *)
(* and exported misses no case that was there all the time as it was.      *)
THEOREM NothingMissed == Spec => []WalkMissesNothing
<1>1. WalkInv => WalkMissesNothing
  BY DEF WalkInv
<1> QED
  BY WalkKept, <1>1, PTL

-----------------------------------------------------------------------------
(* The validation of permits. *)

(* A permit stays where it is: what is issued remains issued.              *)
PermitsStay ==
  \A x \in Ids : IsCase(x) /\ files[x].permit # Nil => IsCase(x)' /\ files'[x] = files[x]

LEMMA SaveKeepsPermits ==
  ASSUME TypeOK, NEW id \in Ids, NEW file \in File, SaveOf(id, file)
  PROVE  PermitsStay
<1>1. \A y \in Ids : files'[y] = IF y = id THEN file ELSE files[y]
  BY DEF SaveOf, TypeOK
<1>2. IsCase(id) => files[id].permit = Nil
  BY DEF SaveOf
<1> QED
  BY <1>1, <1>2 DEF PermitsStay, IsCase

LEMMA IssuedStays ==
  ASSUME PermitsStay, NEW code \in Issued
  PROVE  code \in Issued'
<1>1. PICK x \in Present : files[x].permit # Nil /\ code = CodeOf(x)
  BY DEF Issued
<1>2. x \in Ids /\ IsCase(x)
  BY DEF Present
<1>3. IsCase(x)' /\ files'[x] = files[x]
  BY <1>1, <1>2 DEF PermitsStay
<1>4. CodeOf(x)' = code
  BY <1>1, <1>3 DEF CodeOf
<1> QED
  BY <1>1, <1>2, <1>3, <1>4 DEF Issued, Present

LEMMA CheckStaysSound ==
  ASSUME TypeOK, PermitsStay, NEW w \in Check, CheckSound(w)
  PROVE  CheckSound(w)'
<1>1. w.issued \subseteq Issued'
  BY IssuedStays DEF CheckSound
<1>2. \A i \in DOMAIN w.items : Judged(w, i, w.items[i])'
  <2> SUFFICES ASSUME NEW i \in DOMAIN w.items PROVE Judged(w, i, w.items[i])'
    OBVIOUS
  <2>1. Judged(w, i, w.items[i])
    BY DEF CheckSound
  <2> QED
    BY <2>1, IssuedStays DEF Judged
<1>3. ASSUME w.found # Nil
      PROVE  /\ IsCase(w.found.case)'
             /\ files'[w.found.case].permit = w.found.permit
             /\ w.codes[Len(w.items) + 1] = CodeOf(w.found.case)'
  <2> DEFINE x == w.found.case
  <2>1. x \in Ids /\ w.found.permit \in Permit
    BY <1>3 DEF Check
  <2>2. /\ IsCase(x) /\ files[x].permit = w.found.permit
        /\ w.codes[Len(w.items) + 1] = CodeOf(x)
    BY <1>3 DEF CheckSound
  <2>3. IsCase(x)' /\ files'[x] = files[x]
    BY <2>1, <2>2, NilAssumption DEF PermitsStay
  <2> QED
    BY <2>2, <2>3 DEF CodeOf
<1> QED
  BY <1>1, <1>2, <1>3 DEF CheckSound

(* One more code is judged.                                                *)
LEMMA ItemSound ==
  ASSUME TypeOK, NEW w \in Check, CheckSound(w), w.status = Nil, NEW item \in Verdicts,
         Judged(w, Len(w.items) + 1, item)
  PROVE  CheckSound(WithItem(w, item))
<1> DEFINE n == Len(w.items)
           v == WithItem(w, item)
<1>1. /\ v \in Check /\ v.codes = w.codes /\ v.at = w.at /\ v.issued = w.issued
      /\ v.found = Nil /\ v.items = Append(w.items, item)
      /\ v.status = IF n + 1 = Len(w.codes) THEN 200 ELSE Nil
      /\ w.items \in Seq(Verdicts)
  BY ItemAdded
<1>2. /\ n \in Nat /\ Len(v.items) = n + 1 /\ v.items[n + 1] = item
      /\ DOMAIN w.items = 1 .. n /\ DOMAIN v.items = 1 .. n + 1
      /\ \A i \in 1 .. n : v.items[i] = w.items[i]
  <2> HIDE DEF v
  <2> QED
    BY <1>1, AppendIsList
<1>3. n < Len(w.codes) /\ Len(w.codes) \in Nat
  <2>1. w.codes \in Seq(Nat \X Nat)
    BY DirectoryAssumption DEF Check
  <2> QED
    BY <2>1, LenProperties DEF CheckSound
<1> HIDE DEF v, n
<1>4. v.status # 500 /\ (v.status = Nil => n + 1 # Len(w.codes))
      /\ (v.status # Nil => n + 1 = Len(w.codes))
  BY <1>1, Statuses
<1>5. IF v.status = Nil THEN Len(v.items) < Len(v.codes) ELSE Len(v.items) = Len(v.codes)
  BY <1>1, <1>2, <1>3, <1>4
<1>6. ASSUME NEW i \in DOMAIN v.items
      PROVE  Judged(v, i, v.items[i])
  <2>1. \A j, x : Judged(v, j, x) <=> Judged(w, j, x)
    BY <1>1 DEF Judged
  <2>2. CASE i \in 1 .. n
    <3>1. Judged(w, i, w.items[i])
      BY <1>2, <2>2 DEF CheckSound
    <3> QED
      BY <1>2, <2>1, <2>2, <3>1
  <2>3. CASE i = n + 1
    BY <1>2, <2>1, <2>3 DEF n
  <2>4. i \in 1 .. n \/ i = n + 1
    BY <1>2, <1>6
  <2> QED
    BY <2>2, <2>3, <2>4
<1>7. w.issued \subseteq Issued
  BY DEF CheckSound
<1>8. CheckSound(v)
  BY <1>1, <1>4, <1>5, <1>6, <1>7 DEF CheckSound
<1> QED
  BY <1>8 DEF v

(* The query of one client starts or goes on.                              *)
LEMMA ChecksGoOn ==
  ASSUME TypeOK, ScansSound, ChecksSound, NEW k \in Clients, NEW query,
         work' = [work EXCEPT ![k] = query], UNCHANGED <<files, exports>>,
         query.op = "export" /\ query.status = Nil => query.target \notin {Default} \cup Ids,
         query.op = "walk" /\ query.status # Nil => query.status = 200,
         query.op = "check" => query \in Check /\ CheckSound(query)
  PROVE  ScansSound' /\ ChecksSound'
<1>1. \A x \in Clients : work'[x] = IF x = k THEN query ELSE work[x]
  BY DEF TypeOK
<1>2. ScansSound'
  <2>1. ~ ScanFails'
    BY DEF ScansSound, ScanFails
  <2>2. ASSUME NEW x \in Clients
        PROVE  /\ Under(x, "export")' => work'[x].target \notin {Default} \cup Ids
               /\ Over(x, "walk")' => work'[x].status = 200
    BY <1>1 DEF ScansSound, Under, Over
  <2> QED
    BY <2>1, <2>2 DEF ScansSound
<1>3. PermitsStay
  BY DEF PermitsStay, IsCase
<1>4. ASSUME NEW x \in Clients, work'[x].op = "check"
      PROVE  CheckSound(work[x])'
  <2>1. work'[x] \in Check /\ CheckSound(work'[x])
    <3>1. CASE x = k
      BY <1>1, <1>4, <3>1
    <3>2. CASE x # k
      <4>1. work'[x] = work[x]
        BY <1>1, <3>2
      <4>2. work[x] \in Check /\ CheckSound(work[x])
        BY <1>4, <4>1, QueryOfOp DEF ChecksSound
      <4> QED
        BY <4>1, <4>2
    <3> QED
      BY <3>1, <3>2
  <2>2. PICK v \in Check : v = work'[x]
    BY <2>1
  <2>3. CheckSound(v)
    BY <2>1, <2>2
  <2>4. CheckSound(v)'
    BY <1>3, <2>3, CheckStaysSound
  <2> QED
    BY <2>2, <2>4
<1> QED
  BY <1>2, <1>4 DEF ChecksSound

(* Other clients and files go on, and no query is touched but those of the *)
(* walks.                                                                  *)
LEMMA ChecksStand ==
  ASSUME TypeOK, ChecksSound, PermitsStay,
         \A x \in Clients : work'[x].op = "check" => work'[x] = work[x]
  PROVE  ChecksSound'
<1> SUFFICES ASSUME NEW x \in Clients, work'[x].op = "check"
             PROVE  CheckSound(work[x])'
  BY DEF ChecksSound
<1>1. work'[x] = work[x]
  OBVIOUS
<1>2. work[x] \in Check /\ CheckSound(work[x])
  BY <1>1, QueryOfOp DEF ChecksSound
<1>3. PICK v \in Check : v = work[x]
  BY <1>2
<1>4. CheckSound(v)'
  BY <1>2, <1>3, CheckStaysSound
<1> QED
  BY <1>1, <1>3, <1>4

(* The scan for the next code of a check.                                  *)
LEMMA ScannedSound ==
  ASSUME TypeOK, ~ ScanFails, NEW k \in Clients, ScanPermits(k),
         NEW w \in Check, w = work[k], CheckSound(w)
  PROVE  \E query \in Check :
           /\ work' = [work EXCEPT ![k] = query] /\ CheckSound(query)
           /\ UNCHANGED <<files, exports>>
<1> DEFINE n == Len(w.items)
           code == w.codes[n + 1]
<1>1. w.status = Nil /\ w.found = Nil /\ UNCHANGED <<files, exports>>
  BY DEF ScanPermits, Under, Go
<1>2. CASE FindPermit(code) = {} /\ work' = [work EXCEPT ![k] = WithItem(w, "not_found")]
  <2>1. code \notin Issued
    BY <1>2 DEF Issued, FindPermit
  <2>2. Judged(w, n + 1, "not_found")
    BY <2>1 DEF Judged, CheckSound
  <2>3. "not_found" \in Verdicts
    BY DEF Verdicts
  <2>4. WithItem(w, "not_found") \in Check
    BY <2>3, ItemAdded
  <2>5. CheckSound(WithItem(w, "not_found"))
    BY <1>1, <2>2, <2>3, ItemSound
  <2> QED
    BY <1>1, <1>2, <2>4, <2>5
<1>3. ASSUME NEW id \in FindPermit(code),
             work' = [work EXCEPT ![k] =
                        [w EXCEPT !.found = [case |-> id, permit |-> files[id].permit]]]
      PROVE  \E query \in Check :
               /\ work' = [work EXCEPT ![k] = query] /\ CheckSound(query)
               /\ UNCHANGED <<files, exports>>
  <2> DEFINE found == [case |-> id, permit |-> files[id].permit]
             query == [w EXCEPT !.found = found]
  <2>1. /\ query \in Check /\ found # Nil /\ found.permit \in Permit
        /\ id \in Ids /\ IsCase(id) /\ CodeOf(id) = code
        /\ query.found = found /\ query.codes = w.codes /\ query.items = w.items
        /\ query.status = w.status /\ query.issued = w.issued /\ query.at = w.at
    <3> HIDE DEF code
    <3> QED
      BY PermitFound
  <2>2. found.case = id /\ found.permit = files[id].permit
    OBVIOUS
  <2>3. work' = [work EXCEPT ![k] = query]
    BY <1>3
  <2> HIDE DEF query, found
  <2>4. \A i, x : Judged(query, i, x) <=> Judged(w, i, x)
    BY <2>1 DEF Judged
  <2>5. CheckSound(query)
    BY <1>1, <2>1, <2>2, <2>4 DEF CheckSound
  <2> QED
    BY <1>1, <2>1, <2>3, <2>5
<1> QED
  BY <1>2, <1>3 DEF ScanPermits, Go

(* The read of the case whose permit was found: it is as it was found.     *)
LEMMA ReadSound ==
  ASSUME TypeOK, NEW k \in Clients, ReadCaseOfPermit(k),
         NEW w \in Check, w = work[k], CheckSound(w)
  PROVE  \E query \in Check :
           /\ work' = [work EXCEPT ![k] = query] /\ CheckSound(query)
           /\ UNCHANGED <<files, exports>>
<1> DEFINE found == w.found
           id == found.case
           permit == found.permit
           item == PermitStatus(permit, w.at)
           code == w.codes[Len(w.items) + 1]
<1>1. found # Nil /\ w.status = Nil /\ UNCHANGED <<files, exports>>
  BY DEF ReadCaseOfPermit, Under, Go
<1>2. id \in Ids /\ permit \in Permit
  BY <1>1 DEF Check
<1>3. IsCase(id) /\ files[id].permit = permit /\ code = CodeOf(id)
  BY <1>1 DEF CheckSound
<1>4. permit # Nil
  BY <1>2, NilAssumption
<1>5. /\ files[id].state = "Activated" /\ permit.activatedVersion = files[id].version
      /\ permit.effectiveUntil = permit.issuedAt + PermitYear
  BY <1>2, <1>3, <1>4 DEF TypeOK, PermitOfCase, Present
<1>6. permit.issuedAt \in Nat /\ permit.effectiveUntil > permit.issuedAt
  <2>1. permit.issuedAt \in Nat /\ PermitYear \in Nat \ {0}
    BY <1>2, BoundAssumption DEF Permit
  <2> QED
    BY <1>5, <2>1
<1>7. PermitHolds(found)
  BY <1>3, <1>5, <1>6 DEF PermitHolds
<1>8. work' = [work EXCEPT ![k] = WithItem(w, item)]
  BY <1>3, <1>7 DEF ReadCaseOfPermit, Go
<1>9. item \in Verdicts /\ item # "not_found"
      /\ (item = "active" <=> w.at < permit.effectiveUntil)
  BY DEF PermitStatus, Verdicts
<1>10. code \in Issued /\ code[2] = permit.issuedAt
  BY <1>2, <1>3, <1>4 DEF Issued, CodeOf, Present
<1>11. Judged(w, Len(w.items) + 1, item)
  BY <1>5, <1>9, <1>10 DEF Judged
<1> HIDE DEF item
<1>12. WithItem(w, item) \in Check
  BY <1>9, ItemAdded
<1>13. CheckSound(WithItem(w, item))
  BY <1>1, <1>9, <1>11, ItemSound
<1> QED
  BY <1>1, <1>8, <1>12, <1>13

LEMMA ChecksKept ==
  ASSUME ExportsHarmless, CheckInv, [Next]_vars
  PROVE  ScansSound' /\ ChecksSound'
<1> USE DEF CheckInv
<1>1. ~ ScanFails
  BY DEF ScansSound
<1>2. ASSUME NEW id \in Ids, NEW file \in File, SaveOf(id, file)
      PROVE  ScansSound' /\ ChecksSound'
  <2>1. \A k \in Clients : work'[k] =
          IF Under(k, "walk") THEN [work[k] EXCEPT !.saved = @ \cup {id}] ELSE work[k]
    BY <1>2 DEF SaveOf, NoteSaved
  <2>2. \A k \in Clients : Under(k, "walk") => work'[k].op = "walk" /\ work'[k].status = Nil
    <3> SUFFICES ASSUME NEW k \in Clients, Under(k, "walk")
                 PROVE  work'[k].op = "walk" /\ work'[k].status = Nil
      OBVIOUS
    <3>1. work[k] \in Walk /\ work[k].status = Nil /\ work[k].op = "walk"
      BY QueryOfOp DEF Under
    <3>2. work'[k] = [work[k] EXCEPT !.saved = @ \cup {id}]
      BY <2>1
    <3> QED
      BY <3>1, <3>2 DEF Walk
  <2>3. ~ ScanFails'
    BY <1>1, <1>2, ScanFailsStays
  <2>4. ScansSound'
    <3>1. ASSUME NEW k \in Clients
          PROVE  /\ Under(k, "export")' => work'[k].target \notin {Default} \cup Ids
                 /\ Over(k, "walk")' => work'[k].status = 200
      <4>1. CASE Under(k, "walk")
        BY <2>2, <4>1 DEF Under, Over
      <4>2. CASE ~ Under(k, "walk")
        <5>1. work'[k] = work[k]
          BY <2>1, <4>2
        <5> QED
          BY <5>1 DEF ScansSound, Under, Over
      <4> QED
        BY <4>1, <4>2
    <3> QED
      BY <2>3, <3>1 DEF ScansSound
  <2>5. PermitsStay
    BY <1>2, SaveKeepsPermits
  <2>6. \A x \in Clients : work'[x].op = "check" => work'[x] = work[x]
    BY <2>1, <2>2
  <2> QED
    BY <2>4, <2>5, <2>6, ChecksStand
<1>3. CASE Create
  BY <1>2, <1>3, CreateSaves
<1>4. ASSUME NEW id \in Ids, Mutate(id)
      PROVE  ScansSound' /\ ChecksSound'
  BY <1>2, <1>4, MutateSaves
<1>5. CASE UNCHANGED <<files, exports, work>>
  <2>1. ScansSound'
    BY <1>5 DEF ScansSound, ScanFails, Under, Over
  <2>2. PermitsStay
    BY <1>5 DEF PermitsStay, IsCase
  <2> QED
    BY <1>5, <2>1, <2>2, ChecksStand
<1>6. ASSUME NEW k \in Clients, NEW filter \in Filters, StartWalk(k, filter)
      PROVE  ScansSound' /\ ChecksSound'
  <2> DEFINE query == [op |-> "walk", status |-> Nil, filter |-> filter, pages |-> <<>>,
                       matched |-> Matched(filter), saved |-> {}]
  <2>1. work' = [work EXCEPT ![k] = query] /\ UNCHANGED <<files, exports>>
    BY <1>6 DEF StartWalk, Start
  <2>2. query.op = "walk" /\ query.status = Nil
    OBVIOUS
  <2> HIDE DEF query
  <2> QED
    BY <2>1, <2>2, ChecksGoOn
<1>7. ASSUME NEW k \in Clients, NEW codes \in CodeLists, StartCheck(k, codes)
      PROVE  ScansSound' /\ ChecksSound'
  <2> DEFINE query == [op |-> "check", status |-> Nil, codes |-> codes, at |-> now,
                       found |-> Nil, items |-> <<>>, issued |-> Issued]
  <2>1. work' = [work EXCEPT ![k] = query] /\ UNCHANGED <<files, exports>>
    BY <1>7 DEF StartCheck, Start
  <2>2. query \in Check
    BY StartedCheck
  <2>3. Len(codes) > 0
    <3>1. codes \in Seq(Nat \X Nat) /\ codes # <<>>
      BY DirectoryAssumption
    <3>2. Len(codes) \in Nat /\ (Len(codes) = 0 => codes = <<>>)
      BY <3>1, LenProperties, EmptySeq
    <3> QED
      BY <3>1, <3>2
  <2>4. /\ query.op = "check" /\ query.status = Nil /\ query.codes = codes
        /\ query.found = Nil /\ query.issued = Issued
        /\ Len(query.items) = 0 /\ DOMAIN query.items = {}
    OBVIOUS
  <2> HIDE DEF query
  <2>5. CheckSound(query)
    BY <2>3, <2>4, Statuses DEF CheckSound
  <2> QED
    BY <2>1, <2>2, <2>4, <2>5, ChecksGoOn
<1>8. ASSUME NEW k \in Clients, NEW export \in Exports, StartExport(k, export[1], export[2])
      PROVE  ScansSound' /\ ChecksSound'
  <2> DEFINE id == export[1]
             target == export[2]
             query == [op |-> "export", target |-> target, copy |-> files[id],
                       status |-> CASE files[id] = Nil -> Fail("notFound")
                                    [] files[id] = Foreign -> Fail("storageCorrupt")
                                    [] IsCase(id) /\ target \in {id, Outside} ->
                                         Fail("exportInvalid")
                                    [] OTHER -> Nil]
  <2>1. query \in Export /\ (query.status = Nil => target # id)
    BY StartedExport
  <2>2. work' = [work EXCEPT ![k] = query] /\ UNCHANGED <<files, exports>>
    BY <1>8 DEF StartExport, Start
  <2>3. query.op = "export" /\ query.target = target
    OBVIOUS
  <2>4. target = id \/ target \notin {Default} \cup Ids
    BY DEF ExportsHarmless
  <2> HIDE DEF query, target, id
  <2> QED
    BY <2>1, <2>2, <2>3, <2>4, ChecksGoOn
<1>9. ASSUME NEW k \in Clients, NextPage(k)
      PROVE  ScansSound' /\ ChecksSound'
  <2> DEFINE w == work[k]
             page == Len(w.pages) + 1
             items == List(w.filter, page).items
             status == IF page >= List(w.filter, page).totalPages THEN 200 ELSE Nil
             query == WithPage(w, items, status)
  <2>1. /\ Under(k, "walk") /\ UNCHANGED <<files, exports>>
        /\ work' = [work EXCEPT ![k] = query]
    BY <1>1, <1>9 DEF NextPage, Go, WithPage
  <2>2. w \in Walk
    BY <2>1, QueryOfOp DEF Under
  <2>3. status \in {Nil, 200}
    OBVIOUS
  <2> HIDE DEF w, page, status
  <2>4. query \in Walk /\ query.status = status
    BY <2>2, <2>3, PageTaken
  <2>5. query.op = "walk" /\ (query.status # Nil => query.status = 200)
    <3>1. \A q \in Walk : q.op = "walk"
      BY DEF Walk
    <3> HIDE DEF query
    <3> QED
      BY <2>3, <2>4, <3>1
  <2> HIDE DEF query
  <2> QED
    BY <2>1, <2>5, ChecksGoOn
<1>10. ASSUME NEW k \in Clients, ScanPermits(k) \/ ReadCaseOfPermit(k)
       PROVE  ScansSound' /\ ChecksSound'
  <2>1. work[k].op = "check"
    BY <1>10 DEF ScanPermits, ReadCaseOfPermit, Under
  <2>2. work[k] \in Check /\ CheckSound(work[k])
    BY <2>1, QueryOfOp DEF ChecksSound
  <2>3. PICK w \in Check : w = work[k]
    BY <2>2
  <2>4. CheckSound(w)
    BY <2>2, <2>3
  <2>5. PICK query \in Check :
          /\ work' = [work EXCEPT ![k] = query] /\ CheckSound(query)
          /\ UNCHANGED <<files, exports>>
    BY <1>1, <1>10, <2>3, <2>4, ScannedSound, ReadSound
  <2>6. query.op = "check"
    BY DEF Check
  <2> QED
    BY <2>5, <2>6, ChecksGoOn
<1>11. ASSUME NEW k \in Clients, WriteExport(k)
       PROVE  ScansSound' /\ ChecksSound'
  <2> DEFINE over == [work[k] EXCEPT !.status = 200]
  <2>1. /\ Under(k, "export")
        /\ exports' = IF work[k].target = Default THEN exports \cup {work[k].copy}
                                                  ELSE exports
        /\ files' = [id \in Ids |-> IF id = work[k].target THEN Foreign ELSE files[id]]
        /\ work' = [work EXCEPT ![k] = over]
    BY <1>11 DEF WriteExport
  <2>2. work[k].target \notin {Default} \cup Ids
    BY <2>1 DEF ScansSound
  <2>3. exports' = exports /\ files' = files
    BY <2>1, <2>2 DEF TypeOK
  <2>4. over.op = "export" /\ over.status # Nil
    <3>1. work[k] \in Export
      BY <2>1, QueryOfOp DEF Under
    <3> QED
      BY <3>1, Statuses DEF Export
  <2> HIDE DEF over
  <2> QED
    BY <2>1, <2>3, <2>4, ChecksGoOn
<1>12. CASE Tick \/ UNCHANGED vars
  BY <1>5, <1>12 DEF Tick, vars
<1> QED
  BY <1>3, <1>4, <1>6, <1>7, <1>8, <1>9, <1>10, <1>11, <1>12 DEF Next

LEMMA CheckInit == Init => CheckInv
<1> SUFFICES ASSUME Init PROVE CheckInv
  OBVIOUS
<1>1. \A k \in Clients : work[k].op = "none"
  BY DEF Init, NoQuery
<1>2. ~ ScanFails
  BY DirectoryAssumption, NilAssumption DEF Init, ScanFails
<1> QED
  BY <1>1, <1>2, TypeInit DEF CheckInv, ScansSound, ChecksSound, Under, Over

(* Where no export is put among the files of the cases, every scan finds   *)
(* the cases only, and what a validation of permits has found so far is so *)
(* until it is answered.                                                   *)
THEOREM CheckKept == ExportsHarmless => (Spec => []CheckInv)
<1> SUFFICES ASSUME ExportsHarmless PROVE Spec => []CheckInv
  OBVIOUS
<1>1. CheckInv /\ [Next]_vars => CheckInv'
  BY TypeStep, ChecksKept DEF CheckInv
<1> QED
  BY CheckInit, <1>1, PTL DEF Spec

(* Then permits are judged by the time of the request, and none that was   *)
(* issued before it is said not to exist.                                  *)
THEOREM PermitsJudged == ExportsHarmless => (Spec => []PermitChecksTrue)
<1> SUFFICES ASSUME ExportsHarmless PROVE Spec => []PermitChecksTrue
  OBVIOUS
<1>1. CheckInv => PermitChecksTrue
  <2> SUFFICES ASSUME CheckInv, NEW k \in Clients, Over(k, "check"), work[k].status = 200,
                      NEW i \in DOMAIN work[k].codes
               PROVE  Judged(work[k], i, work[k].items[i])
    BY DEF PermitChecksTrue
  <2>1. work[k] \in Check /\ CheckSound(work[k])
    BY QueryOfOp DEF CheckInv, ChecksSound, Over
  <2>2. Len(work[k].items) = Len(work[k].codes)
    BY <2>1, Statuses DEF CheckSound
  <2>3. work[k].codes \in Seq(Nat \X Nat) /\ work[k].items \in Seq(Verdicts)
    BY <2>1, DirectoryAssumption DEF Check, Verdicts
  <2>4. i \in DOMAIN work[k].items
    BY <2>2, <2>3, LenProperties
  <2> QED
    BY <2>1, <2>4 DEF CheckSound
<1> QED
  BY CheckKept, <1>1, PTL

(* Then the list of the cases and the validation of permits are never      *)
(* answered with a storage error, whatever is saved meanwhile.             *)
THEOREM QueriesAllAnswered == ExportsHarmless => (Spec => []QueriesAnswered)
<1> SUFFICES ASSUME ExportsHarmless PROVE Spec => []QueriesAnswered
  OBVIOUS
<1>1. CheckInv => QueriesAnswered
  BY Statuses DEF CheckInv, ScansSound, ChecksSound, CheckSound, QueriesAnswered, Over
<1> QED
  BY CheckKept, <1>1, PTL
=============================================================================

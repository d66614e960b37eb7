----------------------- MODULE ServiceImplementsCases -----------------------
(***************************************************************************)
(* The service over the file store implements VersionedCases: the log of a *)
(* case is its snapshot file, and a client is told what a success carries. *)
(***************************************************************************)
EXTENDS CommissioningService

Abstract ==
  INSTANCE VersionedCases WITH
    logs <- snapshot,
    told <- {a.log : a \in {b \in answers : b.result = "ok"}}

(* Concurrent handlers, retries, failing files and crashes are never seen  *)
(* in the cases or in the answers.                                         *)
VersionedCasesSpec == Abstract!Spec
=============================================================================

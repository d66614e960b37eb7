------------------------------ MODULE HTTPApi ------------------------------
(***************************************************************************)
(* The HTTP API (httpapi/server.go), for what it decides: which operation  *)
(* of the service a message reaches, with which expected version, and      *)
(* which status an error of the service becomes.  A message is a record    *)
(*   [method, action, case, key, header, query, reviewed, body]            *)
(* where action is the path behind the case ("/" for the collection), key  *)
(* the Idempotency-Key, header and query the two places of the expected    *)
(* version and reviewed the version a review names, 0 where they are       *)
(* missing or no number.                                                   *)
(***************************************************************************)
EXTENDS Naturals

Route(operation, methods, actions) ==
  [operation |-> operation, methods |-> methods, actions |-> actions]

Mutations ==
  {Route("ReviseIdentity", {"PATCH"}, {"", "identity"}),
   Route("Baseline", {"POST"}, {"baseline"}),
   Route("RevokeBaseline", {"POST"}, {"baseline/revoke", "baseline-revocation"}),
   Route("Plan", {"POST"}, {"plan"}),
   Route("RevisePlan", {"PUT", "PATCH"}, {"plan"}),
   Route("RevisePlan", {"POST"}, {"plan/revisions", "plan-revision"}),
   Route("Start", {"POST"}, {"start"}),
   Route("ObserveBatch", {"POST"}, {"observations", "observations/batch"}),
   Route("Remediate", {"POST"}, {"remediation"}),
   Route("Review", {"POST"}, {"review"}),
   Route("Activate", {"POST"}, {"activate"})}

Queries ==
  {Route("Get", {"GET"}, {""}),
   Route("DeviationLedger", {"GET"}, {"deviations"}),
   Route("ObservationSummary", {"GET"}, {"observations/summary", "summary", "trial-summary"}),
   Route("ReviewPackage", {"GET"}, {"review-package"}),
   Route("ReviewHistory", {"GET"}, {"review", "reviews", "review-history"}),
   Route("Export", {"GET", "POST"}, {"export", "snapshot", "snapshot/export"})}

Collection == {Route("Create", {"POST"}, {"/"}), Route("List", {"GET"}, {"/"})}

(* The operations a message reaches: none when the method is not allowed   *)
(* or the action unknown.                                                  *)
Reached(m) ==
  {r.operation : r \in {x \in Mutations \cup Queries \cup Collection :
                          m.method \in x.methods /\ m.action \in x.actions}}

(* The header, or else the query, or else what a review names.             *)
Expected(m) ==
  CASE m.header # 0 -> m.header
    [] m.header = 0 /\ m.query # 0 -> m.query
    [] OTHER -> IF "Review" \in Reached(m) THEN m.reviewed ELSE 0

(* What the service is asked, and the identity that it states for the      *)
(* case, if any.  A single observation is a batch of one; the creation     *)
(* expects no version.                                                     *)
ServiceRequest(m) ==
  LET operation == CHOOSE o \in Reached(m) : TRUE
  IN  [op |-> CASE operation = "Create" -> "create"
                [] operation = "ObserveBatch" -> "batch"
                [] OTHER -> "mutate",
       case |-> m.case, key |-> m.key,
       expected |-> IF operation = "Create" THEN 0 ELSE Expected(m),
       body |-> <<operation, m.body>>,
       identity |-> IF operation \in {"Create", "ReviseIdentity"} THEN {m.body} ELSE {}]

Fail(error) ==
  CASE error \in {"storageCorrupt", "permitStorage", "reviewHistory", "exportInvalid"} -> 500
    [] error \in {"invalidTransition", "openDeviation", "remediationTarget"} -> 422
    [] error \in {"versionConflict", "packageStale", "idempotencyConflict"} -> 409
    [] error \in {"notFound", "permitNotFound"} -> 404
    [] OTHER -> 400
=============================================================================

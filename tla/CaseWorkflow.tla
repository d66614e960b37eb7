---------------------------- MODULE CaseWorkflow ----------------------------
(***************************************************************************)
(* What a commissioning case promises to those who rely on its permit,     *)
(* with nothing of how trials are run: a dossier is prepared, tried until  *)
(* no fault is open, reviewed by somebody other than its author, and       *)
(* activated as it was approved.  From the review on the dossier changes   *)
(* only if the reviewer sends it back.                                     *)
(***************************************************************************)
CONSTANTS
  Dossiers,   \* what is tried: baseline, plan and evidence
  Faults,     \* faults a trial may show
  Persons,
  Nobody      \* the reviewer before there is an approval

VARIABLES
  phase,      \* "prepare", "trial", "review", "approved" or "active"
  dossier,
  author,     \* who submitted the plan, or Nobody
  open,       \* the faults found and not yet cured
  approved    \* the dossier and the reviewer of the approval

vars == <<phase, dossier, author, open, approved>>

None == [dossier |-> Nobody, by |-> Nobody]

Init ==
  /\ phase = "prepare" /\ dossier \in Dossiers /\ author = Nobody
  /\ open = {} /\ approved = None

Prepare ==
  /\ phase = "prepare"
  /\ phase' \in {"prepare", "trial"}
  /\ dossier' \in Dossiers /\ author' \in Persons \cup {Nobody}
  /\ phase' = "trial" => author' # Nobody
  /\ UNCHANGED <<open, approved>>

(* Evidence comes in.  A review starts only when no fault is open.         *)
Try ==
  /\ phase = "trial"
  /\ dossier' \in Dossiers
  /\ open' \in SUBSET Faults
  /\ phase' \in IF open' = {} THEN {"trial", "review"} ELSE {"trial"}
  /\ UNCHANGED <<author, approved>>

SendBack ==
  /\ phase = "review" /\ phase' = "trial"
  /\ UNCHANGED <<dossier, author, open, approved>>

Approve(p) ==
  /\ phase = "review" /\ phase' = "approved"
  /\ open = {} /\ p # author
  /\ approved' = [dossier |-> dossier, by |-> p]
  /\ UNCHANGED <<dossier, author, open>>

Activate ==
  /\ phase = "approved" /\ approved.dossier = dossier
  /\ phase' = "active"
  /\ UNCHANGED <<dossier, author, open, approved>>

Next ==
  \/ Prepare \/ Try \/ SendBack \/ Activate
  \/ \E p \in Persons : Approve(p)

Spec == Init /\ [][Next]_vars
=============================================================================

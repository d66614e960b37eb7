-------------------------- MODULE MCCaseDirectory --------------------------
(* Small instances of CaseDirectory for TLC. *)
EXTENDS CaseDirectory, TLC

CONSTANTS k1, k2

MCClientsAlike == Permutations({k1, k2})

MCFile(state, version, permit) ==
  [state |-> state, version |-> version, permit |-> permit, updatedAt |-> 1]

(* One case that can be activated, one that was, one that is just begun. *)
MCBorn ==
  <<MCFile("Approved", 6, Nil),
    MCFile("Activated", 7, Life!PermitAt(7, 1)),
    MCFile("Draft", 1, Nil)>>

MCAll == [state |-> Nil, from |-> Nil, to |-> Nil]
MCFilters == {MCAll, [MCAll EXCEPT !.from = 2], [MCAll EXCEPT !.to = 1],
              [MCAll EXCEPT !.state = "Draft"]}

MCCodeLists == {<< <<2, 1>>, <<1, 2>> >>, << <<1, 1>>, <<3, 1>>, <<2, 1>> >>}

MCHarmless == {<<1, Elsewhere>>, <<2, Outside>>, <<3, 3>>, <<4, Elsewhere>>}
MCIntoDirectory == {<<1, Default>>, <<1, 2>>}
=============================================================================

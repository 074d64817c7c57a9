------------------------- MODULE MCProposalHistory -------------------------
(***************************************************************************)
(* One change set p1 that two decisions d1 and d2 assess, which differ only*)
(* in what the decision id leaves out; a change set put alone that refers  *)
(* to a revision of another contract; one release.  The decision d1 may be *)
(* edited, and the file of the candidate revision may disappear.           *)
(***************************************************************************)
EXTENDS ProposalHistory, TLC

CONSTANTS w1, w2, c1, base, next, foreign, p1, stray, d1, d2, v1

MCContractOf == [a \in Revisions \cup ChangeSets \cup Decisions \cup Releases |->
                 IF a = foreign THEN "returns" ELSE "orders"]
MCIdOf == [d \in Decisions |-> "decision"]
MCChangesOf == [a \in ChangeSets \cup Decisions |-> "column added"]
MCRevisionRef == [cs \in ChangeSets |->
  [base_revision_ref |-> base,
   candidate_revision_ref |-> IF cs = stray THEN foreign ELSE next]]
MCReleaseRef == [r \in Releases |-> <<p1, "decision">>]

CallersAlike == Permutations(Callers)
=============================================================================

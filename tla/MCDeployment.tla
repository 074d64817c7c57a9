---------------------------- MODULE MCDeployment ----------------------------
(***************************************************************************)
(* Two releases and a candidate of one contract with two tables, deployed  *)
(* to one runtime.                                                         *)
(***************************************************************************)
EXTENDS Deployment, TLC

CONSTANTS a, b, int, r1, r2, c1

MCNormal == [s \in Spellings |-> s]

Col == [type |-> int, nullable |-> TRUE]
Key == [type |-> int, nullable |-> FALSE]
OfA == (a :> Key @@ b :> Absent)
OfAB == (a :> Key @@ b :> Col)
Managed(s) == [managed |-> TRUE, columns |-> s]

\* r2 and c1 add the column b: to both tables, to the second.
MCDesired == [p \in Plans |->
  CASE p = r1 -> [t \in Tables |-> OfA]
    [] p = r2 -> [t \in Tables |-> OfAB]
    [] OTHER -> [t \in Tables |-> IF t = 1 THEN OfA ELSE OfAB]]

Everywhere == [p \in Plans |-> Tables]

\* No table, or the one of r1.
Fresh == {NoTable, Managed(OfA)}

\* As well: an unmanaged table, a key that may be null, a type that is not reported.
Strange == Fresh \cup {[managed |-> FALSE, columns |-> OfA],
                       Managed(a :> Col @@ b :> Absent),
                       Managed(a :> [type |-> Unknown, nullable |-> FALSE] @@ b :> Absent)}

\* The operator runs a deployment again until it returns in sync.
Returned(d) == ~outcome[d].raised /\ outcome[d].status = "IN_SYNC"

Persist ==
  \/ \E d \in Deployers :
       \/ ~Returned(d) /\ \E p \in Plans : Deploy(d, p)
       \/ Deliberate(d)
       \/ GoesWrong(d)
  \/ \E s \in pending : Land(s)

PersistSpec ==
  /\ Init /\ [][Persist]_vars
  /\ \A d \in Deployers :
       /\ WF_vars(Deliberate(d))
       /\ WF_vars(~Returned(d) /\ \E p \in Plans : Deploy(d, p))

\* Whatever a failure left half done, running the same deployments again
\* converges: partial results are planned over, two jobs do not keep
\* invalidating each other's observation for ever.
RetryConverges == <>[](\A d \in Deployers : Returned(d))
=============================================================================

------------------------- MODULE MCSchemaConvergence -------------------------
(***************************************************************************)
(* Every contract over a few columns, under every assignment of logical    *)
(* names, against every table a runtime may report; a deployment may       *)
(* converge the table.                                                     *)
(***************************************************************************)
EXTENDS SchemaConvergence

CONSTANTS int, integer, string

MCNormal == [s \in Spellings |-> IF s = integer THEN int ELSE s]

VARIABLES declared, name, table

target == Compiled(declared)
Tables == Table \cup {NoTable}

Init ==
  /\ declared \in Declared
  /\ name \in Bindings(declared)
  /\ table \in Tables

\* One operation planned from the table and executed on it.
Converge ==
  /\ Plannable(target, table)
  /\ table' = Executed(Transition(target, table), table)
  /\ UNCHANGED <<declared, name>>

Spec == Init /\ [][Converge]_<<declared, name, table>>

Quiet == Plannable(target, table) /\ Transition(target, table).kind = "NO_OP"

\* No column outside the contract has a governed column's logical name.
Unaliased ==
  table # NoTable =>
    \A c \in Unexpected(target, table.columns), g \in Columns :
       target[g] # Absent => name[g] # c

Agree ==
  LET status == Status(target, name, table)
  IN /\ status = "IN_SYNC" => Quiet
     /\ Quiet => \/ status = "IN_SYNC"
                 \/ Unexpected(target, table.columns) # {} /\ status = "DRIFT"
     /\ status = "INDETERMINATE" => ~Plannable(target, table)
     /\ status # "ERROR"

\* A planned operation is always executable on the state it was planned from,
\* and leaves nothing to plan: a second deployment is a NO_OP, on every table and
\* whatever columns the runtime has besides.  The columns of the operation are
\* derived from differences (plan_additive_schema_transition) and must not
\* collide with what the table has.
PlanConverges ==
  Plannable(target, table) =>
    LET op == Transition(target, table)
        after == Executed(op, table)
    IN /\ Executable(op, table)
       /\ Provides(target, after)
       /\ Plannable(target, after)
       /\ Transition(target, after).kind = "NO_OP"

\* The planner and the verifier, which interpret the comparison apart and under
\* different column names, agree on a table with no such alias: what is in sync
\* needs no operation, what needs none is in sync unless the runtime has columns
\* of its own, and what verification cannot decide is never planned over.
PlannerAgreesWithVerifier == Unaliased => Agree
=============================================================================

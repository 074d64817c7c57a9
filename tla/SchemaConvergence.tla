-------------------------- MODULE SchemaConvergence --------------------------
(***************************************************************************)
(* One governed table against the runtime: the comparison deployment and   *)
(* reconciliation share (schema/comparison.py), the mapping that precedes  *)
(* it (schema/mapping.py), the status it is given (reconciliation) and the *)
(* transition deployment plans from it (deployment/schema_transitions.py   *)
(* and the planner and compiler of platforms/databricks).                  *)
(*                                                                         *)
(* A schema maps every physical column name, case folded as the code's     *)
(* indexes are, to a column or to Absent.  Unknown is Python's None:       *)
(* nothing demanded on the desired side, no evidence on the observed one.  *)
(***************************************************************************)
CONSTANTS
  Columns,   \* column names
  Types,     \* physical types as the runtime reports them
  Spellings, \* the texts a contract may use for a physical type
  Normal,    \* the type a spelling stands for in the SQL dialect
  Unknown,   \* type or nullability that is not stated
  Absent,    \* no such column
  NoTable    \* no such table

Column == [type : Types \cup {Unknown}, nullable : BOOLEAN \cup {Unknown}]
Schema == [Columns -> Column \cup {Absent}]
Table == [managed : BOOLEAN, columns : Schema]

ASSUME SchemaAssumption ==
  /\ Types \subseteq Spellings
  /\ Normal \in [Spellings -> Types]
  /\ \A type \in Types : Normal[type] = type
  /\ Unknown \notin Spellings \cup BOOLEAN
  /\ Absent \notin [type : Spellings \cup {Unknown}, nullable : BOOLEAN \cup {Unknown}]
  /\ NoTable \notin Table

----------------------------------------------------------------------------
(* The contract's side. *)

\* A governed table as ODCS declares it: physicalType, and required if stated.
Declared ==
  {d \in [Columns -> [type : Spellings, nullable : BOOLEAN \cup {Unknown}] \cup {Absent}] :
     \E c \in Columns : d[c] # Absent}

\* The target-schema compiler states every column fully: the type in its normal
\* form, nullable unless the contract requires a value.
Target ==
  {d \in [Columns -> [type : Types, nullable : BOOLEAN] \cup {Absent}] :
     \E c \in Columns : d[c] # Absent}

Compiled(d) ==
  [c \in Columns |->
     IF d[c] = Absent THEN Absent
     ELSE [type |-> Normal[d[c].type], nullable |-> d[c].nullable # FALSE]]

\* build_physical_property_bindings: the logical name of every column; a column
\* the contract does not govern keeps the name it has.
Bindings(d) ==
  {name \in [Columns -> Columns] :
     /\ \A c \in Columns : d[c] = Absent => name[c] = c
     /\ \A c, e \in Columns : d[c] # Absent /\ d[e] # Absent /\ name[c] = name[e] => c = e}

\* A schema under logical names.
Renamed(s, name) ==
  [x \in Columns |->
     IF \E c \in Columns : s[c] # Absent /\ name[c] = x
     THEN s[CHOOSE c \in Columns : s[c] # Absent /\ name[c] = x]
     ELSE Absent]

\* map_observed_schema_asset raises: two observed columns get one logical name.
Ambiguous(o, name) ==
  \E c, e \in Columns : c # e /\ o[c] # Absent /\ o[e] # Absent /\ name[c] = name[e]

----------------------------------------------------------------------------
(* compare_schema_snapshots, for a desired schema d and an observed one o. *)

Missing(d, o) == {c \in Columns : d[c] # Absent /\ o[c] = Absent}
Unexpected(d, o) == {c \in Columns : d[c] = Absent /\ o[c] # Absent}
Shared(d, o) == {c \in Columns : d[c] # Absent /\ o[c] # Absent}

Contradicts(want, got) == want # Unknown /\ got # Unknown /\ want # got
Unproven(want, got) == want # Unknown /\ got = Unknown

\* Defect: nullability is not compared.
MismatchedTypes(d, o) == {c \in Shared(d, o) : Contradicts(d[c].type, o[c].type)}

Mismatched(d, o) ==
  {c \in Shared(d, o) : \/ Contradicts(d[c].type, o[c].type)
                        \/ Contradicts(d[c].nullable, o[c].nullable)}

\* Defect: a type without evidence passes.
UnverifiedNullability(d, o) == {c \in Shared(d, o) : Unproven(d[c].nullable, o[c].nullable)}

Unverified(d, o) ==
  {c \in Shared(d, o) : \/ Unproven(d[c].type, o[c].type)
                        \/ Unproven(d[c].nullable, o[c].nullable)}

Differs(d, t) ==
  t # NoTable =>
    Missing(d, t.columns) \cup Unexpected(d, t.columns) \cup Mismatched(d, t.columns) # {}

\* classify_reconciliation_status: a difference outweighs a gap.
Classified(d, t) ==
  IF Differs(d, t) THEN "DRIFT"
  ELSE IF Unverified(d, t.columns) # {} THEN "INDETERMINATE"
  ELSE "IN_SYNC"

\* reconcile_governed_contract and classify_reconciliation_status: the planner
\* compares under physical names, reconciliation under logical ones.
Status(d, name, t) ==
  IF t = NoTable THEN "DRIFT"
  ELSE IF Ambiguous(t.columns, name) THEN "ERROR"
  ELSE Classified(Renamed(d, name), [t EXCEPT !.columns = Renamed(@, name)])

----------------------------------------------------------------------------
(* plan_additive_schema_transition under the Databricks capability policy. *)

\* Defects: a mismatch is no obstacle, the column is simply not added; a gap in
\* the evidence is no obstacle.
PlannableOverMismatch(d, t) ==
  t # NoTable =>
    /\ Unverified(d, t.columns) = {}
    /\ \A c \in Missing(d, t.columns) : d[c].nullable = TRUE /\ t.managed

PlannableOverGaps(d, t) ==
  t # NoTable =>
    /\ Mismatched(d, t.columns) = {}
    /\ \A c \in Missing(d, t.columns) : d[c].nullable = TRUE /\ t.managed

\* Nothing is planned from incomplete evidence, over a contradiction, for a
\* required column of an existing table, or on a table that is not managed.
Plannable(d, t) ==
  t # NoTable =>
    /\ Unverified(d, t.columns) = {}
    /\ Mismatched(d, t.columns) = {}
    /\ \A c \in Missing(d, t.columns) : d[c].nullable = TRUE /\ t.managed

Operation == [kind : {"CREATE", "ALTER", "NO_OP"}, columns : Schema]

\* Defect: every desired column is added.
AllColumns(d, t) == d

\* The columns of a new table, or those an existing one lacks.
Additions(d, t) ==
  IF t = NoTable THEN d
  ELSE [c \in Columns |-> IF c \in Missing(d, t.columns) THEN d[c] ELSE Absent]

Transition(d, t) ==
  [kind |-> IF t = NoTable THEN "CREATE"
            ELSE IF Missing(d, t.columns) = {} THEN "NO_OP" ELSE "ALTER",
   columns |-> Additions(d, t)]

----------------------------------------------------------------------------
(* The SQL statements, as the platform executes them: CREATE TABLE without *)
(* IF NOT EXISTS or OR REPLACE, ALTER TABLE ADD COLUMNS.  Each succeeds    *)
(* wholly or fails.                                                        *)

\* Defect: CREATE OR REPLACE TABLE.
Replacing(op, t) ==
  op.kind = "ALTER" =>
    t # NoTable /\ \A c \in Columns : op.columns[c] = Absent \/ t.columns[c] = Absent

Executable(op, t) ==
  /\ op.kind = "CREATE" => t = NoTable
  /\ op.kind = "ALTER" =>
       t # NoTable /\ \A c \in Columns : op.columns[c] = Absent \/ t.columns[c] = Absent

Executed(op, t) ==
  IF op.kind = "NO_OP" THEN t
  ELSE IF op.kind = "CREATE" THEN [managed |-> TRUE, columns |-> op.columns]
  ELSE [managed |-> t.managed,
        columns |-> [c \in Columns |-> IF op.columns[c] = Absent
                                       THEN t.columns[c] ELSE op.columns[c]]]

\* t has every column of d, as d states it.
Provides(d, t) ==
  t # NoTable /\ \A c \in Columns : d[c] # Absent => t.columns[c] = d[c]

\* u has everything t has.
Extends(u, t) ==
  t # NoTable =>
    /\ u # NoTable
    /\ u.managed = t.managed
    /\ \A c \in Columns : t.columns[c] # Absent => u.columns[c] = t.columns[c]
=============================================================================

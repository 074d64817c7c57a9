----------------------- MODULE SchemaConvergenceProofs -----------------------
(***************************************************************************)
(* What the planner and the verifier make of a table, for any columns,     *)
(* types, spellings and logical names.                                     *)
(*                                                                         *)
(* The planner compares under physical names and the verifier under        *)
(* logical ones.  Where no column outside the contract has a governed      *)
(* column's logical name, renaming is one to one on the columns there are  *)
(* (Distinct), so both see the same differences (SameDifferences) and the  *)
(* verifier's status is the one the planner's comparison gives.            *)
(***************************************************************************)
EXTENDS MCSchemaConvergence, TLAPS

Inputs == declared \in Declared /\ name \in Bindings(declared) /\ table \in Tables

----------------------------------------------------------------------------
(* Types.                                                                  *)

LEMMA CompiledType ==
  ASSUME NEW d \in Declared
  PROVE  /\ Compiled(d) \in Target
         /\ \A c \in Columns : Compiled(d)[c] = Absent <=> d[c] = Absent
<1>. DEFINE Stated(c) == [type |-> Normal[d[c].type], nullable |-> d[c].nullable # FALSE]
<1>1. ASSUME NEW c \in Columns, d[c] # Absent
      PROVE  /\ Stated(c) \in [type : Types, nullable : BOOLEAN]
             /\ Stated(c) # Absent
  <2>1. Stated(c) \in [type : Types, nullable : BOOLEAN]
    BY <1>1, SchemaAssumption DEF SchemaAssumption, Declared
  <2>2. Types \subseteq Spellings \cup {Unknown} /\ BOOLEAN \subseteq BOOLEAN \cup {Unknown}
    BY SchemaAssumption DEF SchemaAssumption
  <2>. QED
    BY <2>1, <2>2, SchemaAssumption DEF SchemaAssumption
<1>2. \A c \in Columns : Compiled(d)[c] = IF d[c] = Absent THEN Absent ELSE Stated(c)
  BY DEF Compiled
<1>3. Compiled(d) \in [Columns -> [type : Types, nullable : BOOLEAN] \cup {Absent}]
  BY <1>1, <1>2 DEF Compiled
<1>. QED
  BY <1>1, <1>2, <1>3 DEF Target, Declared

\* A planned operation leaves a table.
LEMMA PlannedType ==
  ASSUME NEW d \in Target, NEW t \in Tables
  PROVE  Executed(Transition(d, t), t) \in Table
<1>. DEFINE op == Transition(d, t)
<1>1. d \in Schema
  BY DEF Target, Schema, Column
<1>2. CASE t = NoTable
  <2>1. Executed(op, t) = [managed |-> TRUE, columns |-> d]
    BY <1>2 DEF Executed, Transition, Additions
  <2>. QED
    BY <1>1, <1>2, <2>1 DEF Table, Tables
<1>3. CASE t # NoTable
  <2>1. t \in Table /\ t.managed \in BOOLEAN /\ t.columns \in Schema
    BY <1>3 DEF Tables, Table
  <2>. DEFINE cols == [c \in Columns |-> IF op.columns[c] = Absent
                                         THEN t.columns[c] ELSE op.columns[c]]
  <2>2. op.kind \in {"NO_OP", "ALTER"} /\ op.columns \in Schema
    BY <1>1, <1>3 DEF Transition, Additions, Schema
  <2>3. cols \in Schema
    BY <2>1, <2>2 DEF Schema
  <2>4. Executed(op, t) = t \/ Executed(op, t) = [managed |-> t.managed, columns |-> cols]
    BY <2>2 DEF Executed
  <2>. QED
    BY <1>3, <2>1, <2>3, <2>4 DEF Table, Tables
<1>. QED
  BY <1>2, <1>3

----------------------------------------------------------------------------
(* The planner.                                                            *)

\* A table a plan can be made for converges in one operation: the operation can
\* be executed on it, and leaves nothing to plan.
THEOREM OneOperationConverges ==
  ASSUME NEW d \in Target, NEW t \in Tables, Plannable(d, t)
  PROVE  LET op == Transition(d, t)
             after == Executed(op, t)
         IN /\ Executable(op, t)
            /\ Provides(d, after)
            /\ Transition(d, after).kind = "NO_OP"
<1>. DEFINE op == Transition(d, t)
            after == Executed(op, t)
<1>0. NoTable \notin Table
  BY SchemaAssumption DEF SchemaAssumption
<1>1. Executable(op, t)
  <2>1. CASE t = NoTable
    BY <2>1 DEF Executable, Transition
  <2>2. CASE t # NoTable
    BY <2>2 DEF Executable, Transition, Additions, Missing
  <2>. QED BY <2>1, <2>2
<1>2. after \in Table
  BY PlannedType
<1>3. Provides(d, after)
  <2>1. CASE t = NoTable
    <3>1. op.kind = "CREATE" /\ op.columns = d
      BY <2>1 DEF Transition, Additions
    <3>2. after = [managed |-> TRUE, columns |-> d]
      BY <3>1 DEF Executed
    <3>3. after.columns = d
      BY <3>2
    <3>. QED
      BY <1>0, <1>2, <3>3 DEF Provides
  <2>2. CASE t # NoTable
    <3>1. t \in Table /\ Unverified(d, t.columns) = {} /\ Mismatched(d, t.columns) = {}
      BY <2>2 DEF Plannable, Tables
    <3>2. \A c \in Columns : d[c] # Absent /\ t.columns[c] # Absent => t.columns[c] = d[c]
      <4>1. SUFFICES ASSUME NEW c \in Columns, d[c] # Absent, t.columns[c] # Absent
                     PROVE  t.columns[c] = d[c]
        OBVIOUS
      <4>2. t.columns[c] \in Column
        BY <3>1, <4>1 DEF Table, Schema
      <4>3. d[c] \in [type : Types, nullable : BOOLEAN]
        BY <4>1 DEF Target
      <4>4. d[c].type # Unknown /\ d[c].nullable # Unknown
        BY <4>3, SchemaAssumption DEF SchemaAssumption
      <4>5. c \in Shared(d, t.columns)
        BY <4>1 DEF Shared
      <4>6. t.columns[c].type = d[c].type /\ t.columns[c].nullable = d[c].nullable
        BY <3>1, <4>4, <4>5 DEF Unverified, Mismatched, Unproven, Contradicts
      <4>. QED
        BY <4>2, <4>3, <4>6 DEF Column
    <3>3. op.kind = IF Missing(d, t.columns) = {} THEN "NO_OP" ELSE "ALTER"
      BY <2>2 DEF Transition
    <3>4. \A c \in Columns : op.columns[c] = IF c \in Missing(d, t.columns) THEN d[c] ELSE Absent
      BY <2>2 DEF Transition, Additions
    <3>5. CASE Missing(d, t.columns) = {}
      BY <2>2, <3>2, <3>3, <3>5 DEF Executed, Provides, Missing
    <3>6. CASE Missing(d, t.columns) # {}
      <4>1. after.columns = [c \in Columns |-> IF op.columns[c] = Absent
                                               THEN t.columns[c] ELSE op.columns[c]]
        BY <3>3, <3>6 DEF Executed
      <4>2. \A c \in Columns : d[c] # Absent => after.columns[c] = d[c]
        BY <4>1, <3>2, <3>4 DEF Missing
      <4>3. after # NoTable
        BY <1>0, <1>2
      <4>. QED
        BY <4>2, <4>3 DEF Provides
    <3>. QED BY <3>5, <3>6
  <2>. QED BY <2>1, <2>2
<1>4. Transition(d, after).kind = "NO_OP"
  BY <1>3 DEF Provides, Transition, Missing
<1>. QED
  BY <1>1, <1>3, <1>4

\* What provides a contract can be planned again.
LEMMA ProvidedIsPlannable ==
  ASSUME NEW d \in Target, NEW t \in Table, Provides(d, t)
  PROVE  Plannable(d, t)
<1>1. Missing(d, t.columns) = {}
  BY DEF Provides, Missing
<1>2. ASSUME NEW c \in Shared(d, t.columns)
      PROVE  t.columns[c] = d[c] /\ d[c].type # Unknown /\ d[c].nullable # Unknown
  BY SchemaAssumption DEF Provides, Shared, Target, SchemaAssumption
<1>3. Unverified(d, t.columns) = {} /\ Mismatched(d, t.columns) = {}
  BY <1>2 DEF Unverified, Mismatched, Unproven, Contradicts, Shared
<1>. QED
  BY <1>1, <1>3 DEF Plannable

LEMMA InputsInvariance == Spec => []Inputs
<1>1. Init => Inputs
  BY DEF Init, Inputs
<1>2. Inputs /\ [Converge]_<<declared, name, table>> => Inputs'
  <2>. SUFFICES ASSUME Inputs, Converge PROVE Inputs'
    BY DEF Inputs
  <2>1. target \in Target
    BY CompiledType DEF Inputs, target
  <2>2. table' \in Tables
    BY <2>1, PlannedType DEF Converge, Inputs, Tables
  <2>. QED
    BY <2>2 DEF Converge, Inputs
<1>. QED
  BY <1>1, <1>2, PTL DEF Spec

\* Every contract and every table a plan can be made for converges in one
\* operation, which can be executed where it was planned; a second deployment
\* has nothing to do.
THEOREM PlansConverge == Spec => []PlanConverges
<1>1. Inputs => PlanConverges
  <2>. SUFFICES ASSUME Inputs, Plannable(target, table)
                PROVE  LET op == Transition(target, table)
                           after == Executed(op, table)
                       IN /\ Executable(op, table)
                          /\ Provides(target, after)
                          /\ Plannable(target, after)
                          /\ Transition(target, after).kind = "NO_OP"
    BY DEF PlanConverges
  <2>1. target \in Target /\ table \in Tables
    BY CompiledType DEF Inputs, target
  <2>2. Executed(Transition(target, table), table) \in Table
    BY <2>1, PlannedType
  <2>. QED
    BY <2>1, <2>2, OneOperationConverges, ProvidedIsPlannable
<1>. QED
  BY <1>1, InputsInvariance, PTL

----------------------------------------------------------------------------
(* The verifier.                                                           *)

\* The columns that are there on either side.
Present(d, o) == {c \in Columns : d[c] # Absent \/ o[c] # Absent}

\* No two of them have one logical name.
Distinct(d, o, n) == \A c, e \in Present(d, o) : n[c] = n[e] => c = e

\* Renaming moves what is there and adds nothing.
LEMMA RenamedColumns ==
  ASSUME NEW d, NEW o, NEW n \in [Columns -> Columns], Distinct(d, o, n),
         NEW s, s = d \/ s = o
  PROVE  /\ \A c \in Present(d, o) : Renamed(s, n)[n[c]] = s[c]
         /\ \A x \in Columns :
              (\A c \in Present(d, o) : n[c] # x) => Renamed(s, n)[x] = Absent
<1>0. \A c \in Columns : s[c] # Absent => c \in Present(d, o)
  BY DEF Present
<1>1. ASSUME NEW c \in Present(d, o) PROVE Renamed(s, n)[n[c]] = s[c]
  <2>1. c \in Columns /\ n[c] \in Columns
    BY DEF Present
  <2>2. \A e \in Columns : s[e] # Absent /\ n[e] = n[c] => e = c
    BY <1>0 DEF Distinct
  <2>3. CASE s[c] = Absent
    BY <2>1, <2>2, <2>3 DEF Renamed
  <2>4. CASE s[c] # Absent
    <3>1. (CHOOSE e \in Columns : s[e] # Absent /\ n[e] = n[c]) = c
      BY <2>1, <2>2, <2>4
    <3>. QED
      BY <2>1, <2>4, <3>1 DEF Renamed
  <2>. QED
    BY <2>3, <2>4
<1>2. ASSUME NEW x \in Columns, \A c \in Present(d, o) : n[c] # x
      PROVE  Renamed(s, n)[x] = Absent
  BY <1>0, <1>2 DEF Renamed
<1>. QED
  BY <1>1, <1>2

\* A comparison under logical names finds the same kinds of differences.
LEMMA SameDifferences ==
  ASSUME NEW d, NEW o, NEW n \in [Columns -> Columns], Distinct(d, o, n)
  PROVE  /\ Missing(Renamed(d, n), Renamed(o, n)) = {} <=> Missing(d, o) = {}
         /\ Unexpected(Renamed(d, n), Renamed(o, n)) = {} <=> Unexpected(d, o) = {}
         /\ Mismatched(Renamed(d, n), Renamed(o, n)) = {} <=> Mismatched(d, o) = {}
         /\ Unverified(Renamed(d, n), Renamed(o, n)) = {} <=> Unverified(d, o) = {}
<1>. DEFINE rd == Renamed(d, n)
            ro == Renamed(o, n)
<1>1. ASSUME NEW c \in Present(d, o)
      PROVE  /\ c \in Columns /\ n[c] \in Columns
             /\ rd[n[c]] = d[c] /\ ro[n[c]] = o[c]
  BY RenamedColumns DEF Present
<1>2. ASSUME NEW x \in Columns, rd[x] # Absent \/ ro[x] # Absent
      PROVE  \E c \in Present(d, o) : n[c] = x /\ rd[x] = d[c] /\ ro[x] = o[c]
  <2>1. PICK c \in Present(d, o) : n[c] = x
    BY <1>2, RenamedColumns
  <2>. QED
    BY <1>1, <2>1
<1>3. \A c \in Columns : d[c] # Absent \/ o[c] # Absent => c \in Present(d, o)
  BY DEF Present
<1>. HIDE DEF rd, ro
<1>4. Missing(rd, ro) = {} <=> Missing(d, o) = {}
  BY <1>1, <1>2, <1>3 DEF Missing
<1>5. Unexpected(rd, ro) = {} <=> Unexpected(d, o) = {}
  BY <1>1, <1>2, <1>3 DEF Unexpected
<1>6. Mismatched(rd, ro) = {} <=> Mismatched(d, o) = {}
  BY <1>1, <1>2, <1>3 DEF Mismatched, Shared
<1>7. Unverified(rd, ro) = {} <=> Unverified(d, o) = {}
  BY <1>1, <1>2, <1>3 DEF Unverified, Shared
<1>. QED
  BY <1>4, <1>5, <1>6, <1>7 DEF rd, ro

\* Without an alias the verifier's status is the planner's comparison.
LEMMA UnaliasedStatus ==
  ASSUME Inputs, table # NoTable, Unaliased
  PROVE  Status(target, name, table) = Classified(target, table)
<1>. DEFINE o == table.columns
<1>0. table \in Table /\ NoTable \notin Table /\ name \in [Columns -> Columns]
  BY SchemaAssumption DEF Inputs, Tables, SchemaAssumption, Bindings
<1>1. \A c \in Columns : target[c] = Absent <=> declared[c] = Absent
  BY CompiledType DEF Inputs, target
<1>2. Distinct(target, o, name)
  <2>. SUFFICES ASSUME NEW c \in Present(target, o), NEW e \in Present(target, o),
                       name[c] = name[e]
                PROVE  c = e
    BY DEF Distinct
  <2>0. c \in Columns /\ e \in Columns
    BY DEF Present
  <2>1. \A b \in {c, e} : target[b] = Absent => name[b] = b /\ b \in Unexpected(target, o)
    BY <1>1, <2>0 DEF Inputs, Bindings, Present, Unexpected
  <2>2. CASE target[c] # Absent /\ target[e] # Absent
    BY <1>1, <2>0, <2>2 DEF Inputs, Bindings
  <2>3. CASE target[c] = Absent /\ target[e] = Absent
    BY <2>1, <2>3
  <2>4. CASE target[c] = Absent /\ target[e] # Absent
    BY <2>0, <2>1, <2>4 DEF Unaliased
  <2>5. CASE target[c] # Absent /\ target[e] = Absent
    BY <2>0, <2>1, <2>5 DEF Unaliased
  <2>. QED
    BY <2>2, <2>3, <2>4, <2>5
<1>3. ~Ambiguous(o, name)
  BY <1>2 DEF Ambiguous, Distinct, Present
<1>. DEFINE r == [table EXCEPT !.columns = Renamed(@, name)]
<1>4. r \in [managed : BOOLEAN, columns : {Renamed(o, name)}]
  BY <1>0 DEF Table
<1>5. r.columns = Renamed(o, name)
  BY <1>4
<1>6. r # NoTable
  <2>1. Renamed(o, name) \in Schema
    BY <1>0 DEF Renamed, Table, Schema
  <2>. QED
    BY <1>0, <1>4, <2>1 DEF Table
<1>7. Status(target, name, table) = Classified(Renamed(target, name), r)
  BY <1>3 DEF Status
<1>. HIDE DEF r
<1>8. Differs(Renamed(target, name), r) <=> Differs(target, table)
  BY <1>0, <1>2, <1>5, <1>6, SameDifferences DEF Differs
<1>9. Unverified(Renamed(target, name), r.columns) = {} <=> Unverified(target, o) = {}
  BY <1>0, <1>2, <1>5, SameDifferences
<1>. QED
  BY <1>7, <1>8, <1>9 DEF Classified

\* The planner and the verifier agree on every table without an alias, under
\* every assignment of logical names.
THEOREM PlannerAndVerifierAgree == Spec => []PlannerAgreesWithVerifier
<1>1. Inputs => PlannerAgreesWithVerifier
  <2>. SUFFICES ASSUME Inputs, Unaliased PROVE Agree
    BY DEF PlannerAgreesWithVerifier
  <2>1. CASE table = NoTable
    BY <2>1 DEF Agree, Status, Quiet, Transition
  <2>2. CASE table # NoTable
    <3>1. Status(target, name, table) = Classified(target, table)
      BY <2>2, UnaliasedStatus
    <3>2. Transition(target, table).kind = "NO_OP" <=> Missing(target, table.columns) = {}
      BY <2>2 DEF Transition
    <3>3. Unexpected(target, table.columns) = {} =>
            (Quiet <=> ~Differs(target, table) /\ Unverified(target, table.columns) = {})
      BY <2>2, <3>2 DEF Quiet, Plannable, Differs
    <3>4. ~Differs(target, table) => Unexpected(target, table.columns) = {}
      BY <2>2 DEF Differs
    <3>5. Quiet => Unverified(target, table.columns) = {}
      BY <2>2 DEF Quiet, Plannable
    <3>6. Unexpected(target, table.columns) # {} => Differs(target, table)
      BY <3>4
    <3>7. Plannable(target, table) => Unverified(target, table.columns) = {}
      BY <2>2 DEF Plannable
    <3>. QED
      BY <3>1, <3>3, <3>4, <3>5, <3>6, <3>7 DEF Agree, Classified
  <2>. QED
    BY <2>1, <2>2
<1>. QED
  BY <1>1, InputsInvariance, PTL
=============================================================================

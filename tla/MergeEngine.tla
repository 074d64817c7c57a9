----------------------------- MODULE MergeEngine -----------------------------
(***************************************************************************)
(* lifecycle/merge_engine.py: the technical contract an importer made,     *)
(* merged into the governed one.  What the source no longer has is         *)
(* deprecated, never removed; its technical fields overwrite; a column a   *)
(* person deprecated is not revived.  src is the source, g the governed    *)
(* contract, date the effective date of the change.                        *)
(***************************************************************************)
EXTENDS Lifecycle

CONSTANTS
  ForeignKeys, \* the relationships whose type is foreignKey
  Unset        \* a field the source does not give, not even as None

ASSUME MergeAssumption == ForeignKeys \subseteq Links

\* What an importer produces.
SourceEntity ==
  [declared : Written, since : Dates \cup {Null},
   logical : Logical \cup {Null, Unset}, physical : Physical \cup {Null, Unset},
   required : BOOLEAN \cup {Null, Unset}, about : Texts \cup {Null, Unset},
   links : SUBSET Links, rules : SUBSET Rules, unnamed : [Unnamed -> Nat]]
SourceContract == ContractOf(SourceEntity)

Provided(old, new) == IF new = Unset THEN old ELSE new

\* An entity of the source, its fields as they are read.
Plain(f) ==
  [declared |-> f.declared, since |-> f.since,
   logical |-> Provided(Null, f.logical), physical |-> Provided(Null, f.physical),
   required |-> Provided(Null, f.required), about |-> Provided(Null, f.about),
   links |-> f.links, rules |-> f.rules, unnamed |-> f.unnamed]

----------------------------------------------------------------------------
(* _analyze_merge: what is deprecated and what conflicts.  Nested fields   *)
(* are not analysed.                                                       *)

Vanished(src, g) ==
  {n \in (Schemas \cup Columns) \cap (Ids(g) \ Ids(src)) :
     /\ EffectiveLifecycle(g, n) = "active"
     /\ n \in Schemas \/ Parent[n] \in Ids(src)}

Differ(old, new) == old # Null /\ new # Null /\ old # new

Conflicting(rule, old, new) ==
  \/ rule = "logical" /\ Differ(old.logical, new.logical)
  \/ rule = "decimal" /\ DecimalReduced(old.physical, new.physical)
  \/ /\ rule = "physical" /\ Differ(old.physical, new.physical)
     /\ ~(IsDecimal(old.physical) /\ IsDecimal(new.physical))
  \/ rule = "required" /\ new.required = TRUE /\ old.required # TRUE

Conflicts(src, g) ==
  {x \in (Columns \cap Ids(src) \cap Ids(g)) \X {"logical", "decimal", "physical", "required"} :
     /\ EffectiveLifecycle(g, x[1]) = "active"
     /\ Conflicting(x[2], g.entities[x[1]], Plain(src.entities[x[1]]))}

----------------------------------------------------------------------------
(* _merge_odcs_models: the merged entities. *)

Keyed(old, new) == IF new = Null THEN old ELSE new

\* _combine_quality_rules_models knows a rule by its name only.
Appended(e, f) == [r \in Unnamed |-> e.unnamed[r] + f.unnamed[r]]

\* Defect: required stays as a person wrote it.
OverwrittenButRequired(e, f) ==
  [declared |-> Keyed(e.declared, f.declared), since |-> Keyed(e.since, f.since),
   logical |-> Provided(e.logical, f.logical), physical |-> Provided(e.physical, f.physical),
   required |-> e.required, about |-> Provided(e.about, f.about),
   links |-> (e.links \ ForeignKeys) \cup (f.links \cap ForeignKeys),
   rules |-> e.rules \cup f.rules, unnamed |-> Appended(e, f)]

\* Technical fields and foreign keys come from the source, custom properties and
\* named rules are merged by their key, rules without a name are appended.
Overwritten(e, f) ==
  [declared |-> Keyed(e.declared, f.declared), since |-> Keyed(e.since, f.since),
   logical |-> Provided(e.logical, f.logical), physical |-> Provided(e.physical, f.physical),
   required |-> Provided(e.required, f.required), about |-> Provided(e.about, f.about),
   links |-> (e.links \ ForeignKeys) \cup (f.links \cap ForeignKeys),
   rules |-> e.rules \cup f.rules, unnamed |-> Appended(e, f)]

\* A deprecated column keeps its technical fields, and what is nested in it.
Preserved(e, f) ==
  [e EXCEPT !.since = Keyed(e.since, f.since), !.about = Provided(e.about, f.about),
            !.rules = e.rules \cup f.rules, !.unnamed = Appended(e, f)]

Deprecated(e, date) ==
  [e EXCEPT !.declared = "deprecated", !.since = Keyed(date, e.since)]

Sealed(g, n) == n \notin Schemas /\ n \in Ids(g) /\ Declared(g.entities[n]) = "deprecated"
Untouched(g, n) == n \in Nested /\ Sealed(g, Parent[n])

\* Defect: a deprecated column is merged as any other.
MergedReviving(src, g, n, date) ==
  IF n \notin Ids(g) THEN Plain(src.entities[n])
  ELSE IF n \in Vanished(src, g) THEN Deprecated(g.entities[n], date)
  ELSE IF n \notin Ids(src) THEN g.entities[n]
  ELSE Overwritten(g.entities[n], src.entities[n])

MergedEntity(src, g, n, date) ==
  IF n \notin Ids(g) THEN Plain(src.entities[n])
  ELSE IF n \in Vanished(src, g) THEN Deprecated(g.entities[n], date)
  ELSE IF n \notin Ids(src) \/ Untouched(g, n) THEN g.entities[n]
  ELSE IF Sealed(g, n) THEN Preserved(g.entities[n], src.entities[n])
  ELSE Overwritten(g.entities[n], src.entities[n])

\* id and version stay the governed ones; so does a status that is stated.
Merge(src, g, date) ==
  [g EXCEPT !.status = Keyed(src.status, g.status),
            !.entities =
              [n \in Entities |->
                 IF n \in Ids(g) \/ (n \in Ids(src) /\ ~Untouched(g, n))
                 THEN MergedEntity(src, g, n, date) ELSE Null]]

\* build_schema_index and build_property_index raise.
Mergeable(src, g) == ~src.clash /\ ~g.clash
=============================================================================

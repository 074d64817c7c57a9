------------------------------ MODULE Lifecycle ------------------------------
(***************************************************************************)
(* The governed contract and the verdict on a change of it: lifecycle      *)
(* status (lifecycle/status.py), the canonical changes between two         *)
(* contracts (lifecycle/changes.py), the policy that marks some of them    *)
(* breaking (lifecycle/policy.py), the version bump they require           *)
(* (lifecycle/change_classification.py), the decision                      *)
(* (governance/evaluator.py) and the gate (governance/gate.py).            *)
(*                                                                         *)
(* A contract holds entities at three depths: schemas, their columns, and  *)
(* the fields nested in a column.  Deeper fields and array items are       *)
(* treated as nested fields are.  An entity is named by its canonical      *)
(* identity; two entities of one identity make the contract clash.         *)
(***************************************************************************)
EXTENDS Naturals, FiniteSets

CONSTANTS
  Schemas, Columns, Nested, \* entity identities
  Parent,                   \* the entity a column or a nested field is in
  Logical,                  \* logical types
  Physical,                 \* physical types: [family, width, scale], width 0 when none is given
  Links,                    \* relationships
  Rules,                    \* quality rules that have a name
  Unnamed,                  \* quality rules without one
  Identified,               \* those of Unnamed with an id or a rule text
  Texts,                    \* descriptions, standing for every descriptive field
  Dates,                    \* effective dates
  Root,                     \* the contract itself, as the place of a change
  Null                      \* Python's None, or a custom property that is not there

Entities == Schemas \cup Columns \cup Nested

ASSUME TreeAssumption ==
  /\ Schemas \cap Columns = {} /\ (Schemas \cup Columns) \cap Nested = {}
  /\ Root \notin Entities
  /\ Parent \in [Columns \cup Nested -> Schemas \cup Columns]
  /\ \A p \in Columns : Parent[p] \in Schemas
  /\ \A n \in Nested : Parent[n] \in Columns
  /\ Identified \subseteq Unnamed /\ Rules \cap Unnamed = {}

Status == {"draft", "active", "deprecated", "retired"}

\* What a status field may hold: "invalid" is a text normalize_status refuses.
Written == Status \cup {"invalid", Null}

\* lifecycleStatus and deprecationDate are the custom properties declared and since.
\* unnamed says how often the entity has each rule without a name.
Entity ==
  [declared : Written, since : Dates \cup {Null},
   logical : Logical \cup {Null}, physical : Physical \cup {Null},
   required : BOOLEAN \cup {Null}, about : Texts \cup {Null},
   links : SUBSET Links, rules : SUBSET Rules, unnamed : [Unnamed -> Nat]]

\* An entity the contract does not have is Null.
Ids(c) == {n \in Entities : c.entities[n] # Null}

\* Contracts whose entities are in E, each in its parent.
ContractOf(E) ==
  {c \in [id : STRING, version : STRING, status : Written, clash : BOOLEAN,
          entities : [Entities -> E \cup {Null}]] :
     \A n \in Ids(c) \ Schemas : Parent[n] \in Ids(c)}
Contract == ContractOf(Entity)

ASSUME NullAssumption ==
  /\ Null \notin Entity /\ Null \notin Status /\ Null \notin BOOLEAN

\* Widths, precisions and scales are parsed from digits.
ASSUME PhysicalAssumption == Physical \subseteq [family : STRING, width : Nat, scale : Nat]

----------------------------------------------------------------------------
(* Status: contract, schema, column, each under its parent. *)

ContractLifecycle(c) == IF c.status \in Status THEN c.status ELSE "draft"

\* lifecycle_from_custom_properties: an invalid declaration counts as none.
Declared(e) == IF e.declared \in Status THEN e.declared ELSE Null

Inherited(parent, e) ==
  IF parent # "active" THEN parent
  ELSE IF Declared(e) # Null THEN Declared(e) ELSE "active"

SchemaLifecycle(c, s) == Inherited(ContractLifecycle(c), c.entities[s])
ColumnLifecycle(c, p) == Inherited(SchemaLifecycle(c, Parent[p]), c.entities[p])
NestedLifecycle(c, n) == Inherited(ColumnLifecycle(c, Parent[n]), c.entities[n])

EffectiveLifecycle(c, n) ==
  IF n \in Schemas THEN SchemaLifecycle(c, n)
  ELSE IF n \in Columns THEN ColumnLifecycle(c, n) ELSE NestedLifecycle(c, n)

----------------------------------------------------------------------------
(* analyze_governance_changes, from a base b to a candidate c.             *)

Change(kind, node, field, domain) ==
  [kind |-> kind, node |-> node, field |-> field, domain |-> domain]

Kept(b, c) == Ids(b) \cap Ids(c)

\* Present in one contract only, in an entity both have: what is inside an added
\* or removed entity is no change of its own.
Fresh(b, c) == {n \in Ids(c) \ Ids(b) : n \in Schemas \/ Parent[n] \in Ids(b)}

Structural == {"logical", "physical", "required"}

\* The deprecation of an entity absorbs the custom properties written with it.
Deprecates(e, f) == Declared(e) # "deprecated" /\ Declared(f) = "deprecated"

\* A custom property is added, removed or modified.
Kind(old, new) == IF old = Null THEN "ADD" ELSE IF new = Null THEN "REMOVE" ELSE "MODIFY"

RootChanges(b, c) ==
  {ch \in {Change("MODIFY", Root, "id", "identity"),
           Change("MODIFY", Root, "version", "version"),
           Change(IF c.status = "retired" THEN "DEPRECATE" ELSE "MODIFY", Root, "status", "lifecycle")} :
     b[ch.field] # c[ch.field]}

EntityChanges(b, c) ==
  LET kept == Kept(b, c)
      Old(n) == b.entities[n]
      New(n) == c.entities[n]
      deprecated == {n \in kept : Deprecates(Old(n), New(n))}
  IN {Change("ADD", n, "entity", "structure") : n \in Fresh(b, c)}
       \cup {Change("REMOVE", n, "entity", "structure") : n \in Fresh(c, b)}
       \cup {Change("DEPRECATE", n, "declared", "lifecycle") : n \in deprecated}
       \cup {Change("MODIFY", x[1], x[2], "structure") :
               x \in {y \in kept \X Structural : Old(y[1])[y[2]] # New(y[1])[y[2]]}}
       \cup {Change("MODIFY", n, "about", "metadata") : n \in {m \in kept : Old(m).about # New(m).about}}
       \cup {Change(Kind(Old(n).declared, New(n).declared), n, "declared", "lifecycle") :
               n \in {m \in kept \ deprecated : Old(m).declared # New(m).declared}}
       \cup {Change(Kind(Old(n).since, New(n).since), n, "since", "metadata") :
               n \in {m \in kept \ deprecated : Old(m).since # New(m).since}}

\* Relationships and quality rules are compared over the whole contract, those of
\* added and removed entities included.
LinksAt(c, n) == IF n \in Ids(c) THEN c.entities[n].links ELSE {}

\* _quality_rule_identifier: the name, else the id or the rule text, else the position,
\* of which only the number of such rules matters here.  Rules of one identity count
\* as one.
RulesAt(c, n) ==
  IF n \notin Ids(c) THEN {}
  ELSE LET e == c.entities[n] IN
       {<<r, 1>> : r \in e.rules}
         \cup {<<r, IF r \in Identified THEN 1 ELSE e.unnamed[r]>> :
                 r \in {u \in Unnamed : e.unnamed[u] > 0}}

LinkChanges(b, c) ==
  {Change("ADD", n, "links", "relationship") :
     n \in {m \in Entities : LinksAt(c, m) \ LinksAt(b, m) # {}}}
    \cup {Change("REMOVE", n, "links", "relationship") :
            n \in {m \in Entities : LinksAt(b, m) \ LinksAt(c, m) # {}}}

RuleChanges(b, c) ==
  {Change("MODIFY", n, "rules", "quality") :
     n \in {m \in Entities : RulesAt(b, m) # RulesAt(c, m)}}

GovernanceChanges(b, c) ==
  RootChanges(b, c) \cup EntityChanges(b, c) \cup LinkChanges(b, c) \cup RuleChanges(b, c)

----------------------------------------------------------------------------
(* evaluate_merge_policy: the breaking changes. *)

\* An entity of the base whose removal or alteration is checked.  A change inside a
\* column is judged by the status of the column, whatever nested fields declare,
\* and a change of a relationship by the status of its schema.
Judged(n) == IF n \in Nested THEN Parent[n] ELSE n
SchemaOf(n) == IF n \in Schemas THEN n ELSE Parent[Judged(n)]
Guarded(b, n) == n \in Ids(b) /\ EffectiveLifecycle(b, n) = "active"

IsDecimal(t) == t # Null /\ t.family = "decimal" /\ t.width > 0

DecimalReduced(old, new) ==
  /\ IsDecimal(old) /\ IsDecimal(new)
  /\ new.width < old.width \/ new.scale < old.scale

\* Of two types of one family, the width parsed from both; a decimal has none.
Narrowed(old, new) ==
  /\ old # Null /\ new # Null /\ ~IsDecimal(old) /\ ~IsDecimal(new)
  /\ old.family = new.family
  /\ 0 < new.width /\ new.width < old.width

\* A field from old to new.  A required that is not stated is not known to be FALSE.
Tightens(field, old, new) ==
  \/ field = "logical" /\ old # Null /\ new # Null
  \/ field = "physical" /\ (Narrowed(old, new) \/ DecimalReduced(old, new))
  \/ field = "required" /\ old = FALSE /\ new = TRUE

\* Defect: the status a candidate gives an entity excuses what it does to it.
BreakingByCandidate(changes, b, c) ==
  {ch \in changes :
     \/ ch.field \in {"id", "version"}
     \/ /\ ch.kind = "REMOVE" /\ ch.field = "entity"
        /\ Guarded(c, Judged(ch.node))
     \/ /\ ch.kind = "MODIFY" /\ ch.field \in Structural /\ ch.node \notin Schemas
        /\ Guarded(c, Judged(ch.node))
        /\ Tightens(ch.field, b.entities[ch.node][ch.field], c.entities[ch.node][ch.field])}

\* Of an altered schema nothing is checked.
Breaking(changes, b, c) ==
  {ch \in changes :
     \/ ch.field \in {"id", "version"}
     \/ /\ ch.kind = "REMOVE" /\ ch.field = "entity"
        /\ Guarded(b, Judged(ch.node))
     \/ /\ ch.kind = "REMOVE" /\ ch.field = "links"
        /\ Guarded(b, SchemaOf(ch.node))
     \/ /\ ch.kind = "MODIFY" /\ ch.field \in Structural /\ ch.node \notin Schemas
        /\ Guarded(b, Judged(ch.node))
        /\ Tightens(ch.field, b.entities[ch.node][ch.field], c.entities[ch.node][ch.field])}

----------------------------------------------------------------------------
(* classify_contract_change: the bump. *)

\* Defect: quality rules are taken for descriptive.
BumpWithoutQuality(changes, breaking) ==
  IF breaking # {} THEN "major"
  ELSE IF \E ch \in changes :
            \/ ch.kind \in {"ADD", "DEPRECATE"} /\ ch.node # Root /\ ch.field # "links"
            \/ ch.domain \in {"structure", "relationship"} /\ ch.kind # "DEPRECATE"
       THEN "minor" ELSE "none"

BumpOf(changes, breaking) ==
  IF breaking # {} THEN "major"
  ELSE IF \E ch \in changes :
            \/ ch.kind \in {"ADD", "DEPRECATE"} /\ ch.node # Root /\ ch.field # "links"
            \/ ch.domain \in {"structure", "relationship", "quality"} /\ ch.kind # "DEPRECATE"
       THEN "minor" ELSE "none"

----------------------------------------------------------------------------
(* evaluate_governance_decision, given the merge conflicts. *)

Valid(c) ==
  /\ ~c.clash /\ c.status # "invalid"
  /\ \A n \in Ids(c) : c.entities[n].declared # "invalid"

\* Identities that clash leave the analysis without changes.
Analyzed(b, c) == IF b.clash \/ c.clash THEN {} ELSE GovernanceChanges(b, c)

\* Defect: only the transition into RETIRED is looked at.
PolicyOutcomeTransitionOnly(b, c) ==
  LET changes == Analyzed(b, c)
      breaking == Breaking(changes, b, c)
  IN [valid |-> ~b.clash /\ ~c.clash /\ breaking = {},
      rooted |-> \E ch \in changes : ch.field \in {"id", "version"},
      retired |-> FALSE,
      retiring |-> ContractLifecycle(b) # "retired" /\ ContractLifecycle(c) = "retired",
      bump |-> BumpOf(changes, breaking)]

\* What lifecycle policy and classification say, with the two questions about
\* RETIRED that are the evaluator's own.
PolicyOutcome(b, c) ==
  LET changes == Analyzed(b, c)
      breaking == Breaking(changes, b, c)
      retired == ContractLifecycle(b) = "retired" /\ b # c
  IN [valid |-> ~b.clash /\ ~c.clash /\ breaking = {} /\ ~retired,
      rooted |-> \E ch \in changes : ch.field \in {"id", "version"},
      retired |-> retired,
      retiring |-> ContractLifecycle(b) # "retired" /\ ContractLifecycle(c) = "retired",
      bump |-> BumpOf(changes, breaking)]

\* Defect: a bump alone asks for no review.
DecideByBreaks(valid, policy, conflicts) ==
  IF ~valid \/ policy.rooted \/ policy.retired THEN "BLOCK"
  ELSE IF policy.retiring \/ conflicts # {} THEN "REVIEW"
  ELSE "ALLOW"

\* Breaking changes always come with a bump.
Decide(valid, policy, conflicts) ==
  IF ~valid \/ policy.rooted \/ policy.retired THEN "BLOCK"
  ELSE IF policy.retiring \/ policy.bump # "none" \/ conflicts # {} THEN "REVIEW"
  ELSE "ALLOW"

\* What the decision model demands of an ALLOW.
AllowInvariants(valid, policy, conflicts) ==
  /\ valid /\ policy.valid /\ ~policy.rooted /\ ~policy.retired
  /\ policy.bump = "none" /\ conflicts = {}

\* An ALLOW the model refuses raises, and there is no decision.
Evaluate(b, c, conflicts) ==
  LET policy == PolicyOutcome(b, c)
      decision == Decide(Valid(c), policy, conflicts)
  IN [result |-> IF decision = "ALLOW" /\ ~AllowInvariants(Valid(c), policy, conflicts)
                 THEN "raises" ELSE decision,
      bump |-> policy.bump]

\* evaluate_governance_gate; ANALYZE is always allowed and writes nothing.
Allowed(result, operation) ==
  result = "ALLOW" \/ (result = "REVIEW" /\ operation = "PROPOSE")
=============================================================================

----------------------- MODULE ContractEvolutionProofs -----------------------
(***************************************************************************)
(* What ContractEvolution guarantees for any set of entities, sources and  *)
(* edits.                                                                  *)
(***************************************************************************)
EXTENDS ContractEvolution, TLAPS

ContractRecord(E) ==
  [id : STRING, version : STRING, status : Written, clash : BOOLEAN,
   entities : [Entities -> E \cup {Null}]]

LEMMA ContractParts ==
  ASSUME NEW E, NEW c \in ContractOf(E)
  PROVE  /\ c \in ContractRecord(E)
         /\ \A n \in Ids(c) : c.entities[n] \in E
         /\ \A n \in Ids(c) \ Schemas : n \in Columns \cup Nested /\ Parent[n] \in Ids(c)
  BY DEF ContractOf, ContractRecord, Ids, Entities

----------------------------------------------------------------------------
(* Type correctness. *)

LEMMA AppendedType ==
  ASSUME NEW e \in Entity, NEW f, f.unnamed \in [Unnamed -> Nat]
  PROVE  Appended(e, f) \in [Unnamed -> Nat]
<1>1. e.unnamed \in [Unnamed -> Nat]
  BY DEF Entity
<1>2. \A r \in Unnamed : e.unnamed[r] + f.unnamed[r] \in Nat
  BY <1>1
<1> QED
  BY <1>2 DEF Appended

LEMMA PlainType ==
  ASSUME NEW f \in SourceEntity
  PROVE  Plain(f) \in Entity
<1>1. /\ Provided(Null, f.logical) \in Logical \cup {Null}
      /\ Provided(Null, f.physical) \in Physical \cup {Null}
      /\ Provided(Null, f.required) \in BOOLEAN \cup {Null}
      /\ Provided(Null, f.about) \in Texts \cup {Null}
  BY DEF Provided, SourceEntity
<1> QED
  BY <1>1 DEF Plain, SourceEntity, Entity

LEMMA OverwrittenType ==
  ASSUME NEW e \in Entity, NEW f \in SourceEntity
  PROVE  Overwritten(e, f) \in Entity
<1>1. Appended(e, f) \in [Unnamed -> Nat]
  BY AppendedType DEF SourceEntity
<1>2. /\ Keyed(e.declared, f.declared) \in Written
      /\ Keyed(e.since, f.since) \in Dates \cup {Null}
  BY DEF Keyed, Entity, SourceEntity
<1>3. /\ Provided(e.logical, f.logical) \in Logical \cup {Null}
      /\ Provided(e.physical, f.physical) \in Physical \cup {Null}
      /\ Provided(e.required, f.required) \in BOOLEAN \cup {Null}
      /\ Provided(e.about, f.about) \in Texts \cup {Null}
  BY DEF Provided, Entity, SourceEntity
<1>4. /\ (e.links \ ForeignKeys) \cup (f.links \cap ForeignKeys) \in SUBSET Links
      /\ e.rules \cup f.rules \in SUBSET Rules
  BY DEF Entity, SourceEntity
<1> QED
  BY <1>1, <1>2, <1>3, <1>4 DEF Overwritten, Entity

LEMMA PreservedType ==
  ASSUME NEW e \in Entity, NEW f \in SourceEntity
  PROVE  /\ Preserved(e, f) \in Entity
         /\ Preserved(e, f).declared = e.declared
         /\ \A field \in Structural : Preserved(e, f)[field] = e[field]
<1>1. Appended(e, f) \in [Unnamed -> Nat]
  BY AppendedType DEF SourceEntity
<1>2. /\ Keyed(e.since, f.since) \in Dates \cup {Null}
      /\ Provided(e.about, f.about) \in Texts \cup {Null}
      /\ e.rules \cup f.rules \in SUBSET Rules
  BY DEF Keyed, Provided, Entity, SourceEntity
<1> QED
  BY <1>1, <1>2 DEF Preserved, Entity, Structural

LEMMA DeprecatedType ==
  ASSUME NEW e \in Entity, NEW date \in Dates
  PROVE  Deprecated(e, date) \in Entity
<1>1. Keyed(date, e.since) \in Dates \cup {Null}
  BY DEF Keyed, Entity
<1> QED
  BY <1>1 DEF Deprecated, Entity, Written, Status

LEMMA MarkedEntityType ==
  ASSUME NEW e \in Entity, NEW status \in Status, NEW date \in Dates
  PROVE  MarkedEntity(e, status, date) \in Entity
<1>1. Keyed(date, e.since) \in Dates \cup {Null} /\ e.since \in Dates \cup {Null}
  BY DEF Keyed, Entity
<1>2. status \in Written
  BY DEF Written
<1> QED
  BY <1>1, <1>2 DEF MarkedEntity, Entity

\* What a merge makes of an entity of either contract.
LEMMA MergedEntityType ==
  ASSUME NEW g \in Contract, NEW src \in SourceContract, NEW date \in Dates,
         NEW n \in Ids(g) \cup Ids(src)
  PROVE  MergedEntity(src, g, n, date) \in Entity
<1>1. n \in Ids(g) => g.entities[n] \in Entity
  BY ContractParts DEF Contract
<1>2. n \in Ids(src) => src.entities[n] \in SourceEntity
  BY ContractParts DEF SourceContract
<1>3. n \notin Ids(g) => Plain(src.entities[n]) \in Entity
  BY <1>2, PlainType
<1>4. n \in Ids(g) => Deprecated(g.entities[n], date) \in Entity
  BY <1>1, DeprecatedType
<1>5. n \in Ids(g) /\ n \in Ids(src) =>
        /\ Preserved(g.entities[n], src.entities[n]) \in Entity
        /\ Overwritten(g.entities[n], src.entities[n]) \in Entity
  BY <1>1, <1>2, PreservedType, OverwrittenType
<1> QED
  BY <1>1, <1>3, <1>4, <1>5 DEF MergedEntity

\* A merge is a contract: what it adds is in an entity that is there.
LEMMA MergeType ==
  ASSUME NEW g \in Contract, NEW src \in SourceContract, NEW date \in Dates
  PROVE  Merge(src, g, date) \in Contract
<1> DEFINE m == Merge(src, g, date)
           Here(n) == n \in Ids(g) \/ (n \in Ids(src) /\ ~Untouched(g, n))
           merged == [n \in Entities |->
                        IF Here(n) THEN MergedEntity(src, g, n, date) ELSE Null]
<1>1. g \in ContractRecord(Entity) /\ src \in ContractRecord(SourceEntity)
  BY ContractParts DEF Contract, SourceContract
<1>2. \A n \in Entities : Here(n) => MergedEntity(src, g, n, date) \in Entity
  BY MergedEntityType
<1>3. Keyed(src.status, g.status) \in Written
  BY <1>1 DEF Keyed, ContractRecord
<1>4. merged \in [Entities -> Entity \cup {Null}]
  BY <1>2
<1>5. m = [g EXCEPT !.status = Keyed(src.status, g.status), !.entities = merged]
  BY Zenon DEF Merge
<1> HIDE DEF m, merged
<1>6. m \in ContractRecord(Entity) /\ m.entities = merged
  BY <1>1, <1>3, <1>4, <1>5 DEF ContractRecord
<1>7. \A n \in Entities : n \in Ids(m) <=> Here(n)
  BY <1>2, <1>6, NullAssumption DEF Ids, merged
<1>8. ASSUME NEW n \in Ids(m) \ Schemas
      PROVE  Parent[n] \in Ids(m)
  <2>1. n \in Columns \cup Nested /\ Here(n)
    BY <1>7 DEF Ids, Entities
  <2>2. CASE n \in Ids(g)
    <3>1. Parent[n] \in Ids(g)
      BY <2>2, ContractParts DEF Contract
    <3> QED
      BY <3>1, <1>7 DEF Ids
  <2>3. CASE n \in Ids(src)
    <3>1. Parent[n] \in Ids(src) /\ Parent[n] \in Schemas \cup Columns
      BY <2>1, <2>3, ContractParts, TreeAssumption DEF SourceContract
    <3>2. ~Untouched(g, Parent[n])
      BY <3>1, TreeAssumption DEF Untouched
    <3> QED
      BY <3>1, <3>2, <1>7 DEF Ids
  <2> QED
    BY <2>1, <2>2, <2>3
<1>9. m \in Contract
  BY <1>6, <1>8 DEF Contract, ContractOf, ContractRecord
<1> QED
  BY <1>9 DEF m

LEMMA MarkedType ==
  ASSUME contract \in Contract, NEW scope \in {Root} \cup Ids(contract),
         NEW status \in Status, NEW date \in Dates
  PROVE  Marked(scope, status, date) \in Contract
<1> DEFINE e == MarkedEntity(contract.entities[scope], status, date)
           m == Marked(scope, status, date)
<1>1. contract \in ContractRecord(Entity)
      /\ \A n \in Ids(contract) \ Schemas : Parent[n] \in Ids(contract)
  BY ContractParts DEF Contract
<1>2. status \in Written
  BY DEF Written
<1>3. CASE scope = Root
  <2>1. m \in ContractRecord(Entity) /\ m.entities = contract.entities
    BY <1>1, <1>2, <1>3 DEF Marked, ContractRecord
  <2>2. Ids(m) = Ids(contract)
    BY <2>1 DEF Ids
  <2> QED
    BY <1>1, <2>1, <2>2 DEF Contract, ContractOf, ContractRecord
<1>4. CASE scope # Root
  <2>1. scope \in Ids(contract) /\ scope \in Entities
    BY <1>4 DEF Ids
  <2>2. e \in Entity
    BY <2>1, MarkedEntityType, ContractParts DEF Contract
  <2>3. m \in ContractRecord(Entity)
        /\ m.entities = [contract.entities EXCEPT ![scope] = e]
    BY <1>1, <1>4, <2>1, <2>2 DEF Marked, ContractRecord
  <2>4. Ids(m) = Ids(contract)
    BY <1>1, <2>1, <2>2, <2>3, NullAssumption DEF Ids, ContractRecord
  <2> QED
    BY <1>1, <2>3, <2>4 DEF Contract, ContractOf, ContractRecord
<1> QED
  BY <1>3, <1>4

----------------------------------------------------------------------------
(* Every step writes a contract some evaluation let through. *)

LEMMA EveryStepGoverned ==
  ASSUME TypeOK, Next
  PROVE  \E operation, candidate, conflicts :
           candidate \in Contract /\ Govern(operation, candidate, conflicts)
<1>1. ASSUME NEW src \in Sources, NEW date \in Dates, NEW operation,
             MergeFrom(src, date, operation)
      PROVE  Merge(src, contract, date) \in Contract
             /\ Govern(operation, Merge(src, contract, date), Conflicts(src, contract))
  BY <1>1, MergeType, EvolutionAssumption DEF MergeFrom, TypeOK
<1>2. ASSUME NEW src \in Sources, NEW date \in Dates,
             Import(src, date) \/ Pipeline(src, date)
      PROVE  \E operation : MergeFrom(src, date, operation)
  BY <1>2 DEF Import, Pipeline
<1>3. ASSUME NEW scope \in {Root} \cup Entities, NEW status \in {"active", "deprecated"},
             NEW date \in Dates, Mark(scope, status, date)
      PROVE  Marked(scope, status, date) \in Contract
             /\ Govern("APPLY", Marked(scope, status, date), {})
  BY <1>3, MarkedType DEF Mark, TypeOK, Status
<1>4. ASSUME NEW candidate \in Edits(contract), Edit(candidate)
      PROVE  candidate \in Contract /\ Govern("PROPOSE", candidate, {})
  BY <1>4 DEF Edit
<1> QED
  BY <1>1, <1>2, <1>3, <1>4 DEF Next

\* The contract is one at all times, whatever is merged into it.
THEOREM TypeCorrect == Spec => []TypeOK
<1>1. Init => TypeOK
  BY EvolutionAssumption DEF Init, TypeOK
<1>2. TypeOK /\ [Next]_vars => TypeOK'
  <2>1. ASSUME TypeOK, Next
        PROVE  TypeOK'
    <3>1. PICK operation, candidate, conflicts :
            candidate \in Contract /\ Govern(operation, candidate, conflicts)
      BY <2>1, EveryStepGoverned
    <3> QED
      BY <3>1 DEF Govern, TypeOK
  <2> QED
    BY <2>1 DEF vars, TypeOK
<1> QED
  BY <1>1, <1>2, PTL DEF Spec

----------------------------------------------------------------------------
(* What a verdict means. *)

Verdict(b, c) == BumpOf(GovernanceChanges(b, c), Breaking(GovernanceChanges(b, c), b, c))

LEMMA PassedIsValid ==
  ASSUME NEW b, NEW c, NEW x, NEW operation, Allowed(Evaluate(b, c, x).result, operation)
  PROVE  Valid(c) /\ (ContractLifecycle(b) = "retired" => b = c)
<1> DEFINE decision == Decide(Valid(c), PolicyOutcome(b, c), x)
<1>1. decision # "BLOCK"
  BY DEF Allowed, Evaluate
<1>2. Valid(c) /\ ~PolicyOutcome(b, c).retired
  BY <1>1 DEF Decide
<1> QED
  BY <1>2 DEF PolicyOutcome

\* What the outcome says of contracts that do not clash.
LEMMA BumpMeans ==
  ASSUME NEW b, NEW c, NEW x, ~b.clash, ~c.clash
  PROVE  /\ PolicyOutcome(b, c).bump = Verdict(b, c)
         /\ Evaluate(b, c, x).bump = Verdict(b, c)
<1>1. PolicyOutcome(b, c).bump = Verdict(b, c)
  BY DEF PolicyOutcome, Analyzed, Verdict
<1> QED
  BY <1>1 DEF Evaluate

LEMMA AllowMeans ==
  ASSUME NEW b, NEW c, NEW x, Evaluate(b, c, x).result = "ALLOW"
  PROVE  ~b.clash /\ ~c.clash /\ Verdict(b, c) = "none"
<1> DEFINE policy == PolicyOutcome(b, c)
<1>1. Decide(Valid(c), policy, x) = "ALLOW" /\ policy.valid
  BY DEF Evaluate, AllowInvariants
<1>2. policy.bump = "none"
  BY <1>1 DEF Decide
<1>3. ~b.clash /\ ~c.clash
  BY <1>1 DEF PolicyOutcome
<1> QED
  BY <1>2, <1>3, BumpMeans

\* Without breaking changes, and only then, there is no major bump; so an ALLOW
\* from a base whose identities are clear has all the decision model demands.
LEMMA AllowIsAccepted ==
  ASSUME NEW b, NEW c, NEW x, ~b.clash
  PROVE  Evaluate(b, c, x).result # "raises"
<1> DEFINE policy == PolicyOutcome(b, c)
           decision == Decide(Valid(c), policy, x)
<1>1. CASE decision = "ALLOW"
  <2>1. /\ Valid(c) /\ ~policy.rooted /\ ~policy.retired
        /\ policy.bump = "none" /\ x = {}
    BY <1>1 DEF Decide
  <2>2. Breaking(Analyzed(b, c), b, c) = {}
    BY <2>1 DEF PolicyOutcome, BumpOf
  <2>3. ~c.clash /\ ~(ContractLifecycle(b) = "retired" /\ b # c)
    BY <2>1 DEF PolicyOutcome, Valid
  <2>4. policy.valid
    BY <2>2, <2>3 DEF PolicyOutcome
  <2> QED
    BY <1>1, <2>1, <2>4 DEF Evaluate, AllowInvariants
<1>2. CASE decision # "ALLOW"
  BY <1>2 DEF Evaluate, Decide
<1> QED
  BY <1>1, <1>2

\* Where neither contract clashes, a bump is never let through as ALLOW.
LEMMA BumpIsReviewed ==
  ASSUME NEW b, NEW c, NEW x, NEW operation, ~b.clash, ~c.clash,
         Verdict(b, c) # "none", Allowed(Evaluate(b, c, x).result, operation)
  PROVE  Evaluate(b, c, x).result = "REVIEW"
<1>1. PolicyOutcome(b, c).bump # "none"
  BY BumpMeans
<1>2. Decide(Valid(c), PolicyOutcome(b, c), x) # "ALLOW"
  BY <1>1 DEF Decide
<1> QED
  BY <1>2 DEF Evaluate, Allowed

\* A retired contract is never rewritten, by any writer.
THEOREM RetiredContractsFinal == Spec => RetiredIsFinal
<1>1. ASSUME TypeOK, [Next]_vars
      PROVE  ContractLifecycle(contract) = "retired" => contract' = contract
  <2>1. CASE Next
    <3>1. PICK operation, candidate, conflicts : Govern(operation, candidate, conflicts)
      BY <1>1, <2>1, EveryStepGoverned
    <3> QED
      BY <3>1, PassedIsValid DEF Govern
  <2> QED
    BY <1>1, <2>1 DEF vars
<1>2. TypeOK /\ [Next]_vars =>
        [ContractLifecycle(contract) = "retired" => contract' = contract]_vars
  BY <1>1
<1> QED
  BY <1>2, TypeCorrect, PTL DEF Spec, RetiredIsFinal

----------------------------------------------------------------------------
(* The classification sees every change of the interface. *)

LEMMA NoChange ==
  ASSUME NEW b, NEW c, Verdict(b, c) = "none", NEW change \in GovernanceChanges(b, c),
         change.kind # "DEPRECATE"
  PROVE  change.domain \notin {"structure", "relationship", "quality"}
  BY DEF Verdict, BumpOf

LEMMA NothingFresh ==
  ASSUME NEW b \in Contract, NEW c \in Contract,
         Fresh(b, c) = {}
  PROVE  Ids(c) \subseteq Ids(b)
<1>1. \A n \in Ids(c) : n \in Entities /\ (n \notin Schemas => Parent[n] \in Ids(c))
  BY ContractParts DEF Contract, Ids
<1>2. \A n \in Ids(c) : n \in Ids(b) \/ (n \notin Schemas /\ Parent[n] \notin Ids(b))
  BY DEF Fresh
<1>3. Ids(c) \cap Schemas \subseteq Ids(b)
  BY <1>2
<1>4. Ids(c) \cap Columns \subseteq Ids(b)
  BY <1>1, <1>2, <1>3, TreeAssumption
<1>5. Ids(c) \cap Nested \subseteq Ids(b)
  BY <1>1, <1>2, <1>4, TreeAssumption
<1> QED
  BY <1>1, <1>3, <1>4, <1>5 DEF Entities

RuleIds(e) ==
  {<<r, 1>> : r \in e.rules}
    \cup {<<r, IF r \in Identified THEN 1 ELSE e.unnamed[r]>> :
            r \in {u \in Unnamed : e.unnamed[u] > 0}}

\* The identities of rules tell which rules there are.
LEMMA SameRules ==
  ASSUME NEW e \in Entity, NEW f \in Entity, RuleIds(e) = RuleIds(f)
  PROVE  /\ e.rules = f.rules
         /\ {r \in Unnamed : e.unnamed[r] > 0} = {r \in Unnamed : f.unnamed[r] > 0}
<1>1. ASSUME NEW d \in Entity, NEW r
      PROVE  /\ r \in d.rules <=> (r \in Rules /\ <<r, 1>> \in RuleIds(d))
             /\ r \in Unnamed =>
                  (d.unnamed[r] > 0 <=> \E k : <<r, k>> \in RuleIds(d))
  BY TreeAssumption DEF RuleIds, Entity
<1> QED
  BY <1>1 DEF Entity

LEMMA VerdictSeesInterface ==
  ASSUME NEW b \in Contract, NEW c \in Contract, Verdict(b, c) = "none"
  PROVE  Interface(c) = Interface(b)
<1>1. Fresh(b, c) = {}
  <2>1. ASSUME NEW n \in Fresh(b, c)
        PROVE  FALSE
    <3>1. Change("ADD", n, "entity", "structure") \in GovernanceChanges(b, c)
      BY DEF GovernanceChanges, EntityChanges
    <3> QED
      BY <3>1, NoChange DEF Change
  <2> QED
    BY <2>1
<1>2. Fresh(c, b) = {}
  <2>1. ASSUME NEW n \in Fresh(c, b)
        PROVE  FALSE
    <3>1. Change("REMOVE", n, "entity", "structure") \in GovernanceChanges(b, c)
      BY DEF GovernanceChanges, EntityChanges
    <3> QED
      BY <3>1, NoChange DEF Change
  <2> QED
    BY <2>1
<1>3. Ids(c) = Ids(b)
  <2>1. Ids(c) \subseteq Ids(b)
    BY <1>1, NothingFresh, Zenon
  <2>2. Ids(b) \subseteq Ids(c)
    BY <1>2, NothingFresh, Zenon
  <2> QED
    BY <2>1, <2>2
<1>4. ASSUME NEW n \in Ids(b), NEW field \in Structural
      PROVE  c.entities[n][field] = b.entities[n][field]
  <2>1. SUFFICES ASSUME b.entities[n][field] # c.entities[n][field]
                 PROVE  FALSE
    OBVIOUS
  <2>2. <<n, field>> \in {y \in Kept(b, c) \X Structural :
                            b.entities[y[1]][y[2]] # c.entities[y[1]][y[2]]}
    BY <1>3, <2>1 DEF Kept
  <2>3. Change("MODIFY", n, field, "structure") \in GovernanceChanges(b, c)
    BY <2>2 DEF GovernanceChanges, EntityChanges
  <2> QED
    BY <2>3, NoChange DEF Change
<1>5. ASSUME NEW n \in Ids(b)
      PROVE  c.entities[n].links = b.entities[n].links
  <2>1. n \in Entities
    BY DEF Ids
  <2>2. LinksAt(c, n) \ LinksAt(b, n) = {}
    <3>1. SUFFICES ASSUME LinksAt(c, n) \ LinksAt(b, n) # {}
                   PROVE  FALSE
      OBVIOUS
    <3>2. Change("ADD", n, "links", "relationship") \in GovernanceChanges(b, c)
      BY <2>1, <3>1 DEF GovernanceChanges, LinkChanges
    <3> QED
      BY <3>2, NoChange DEF Change
  <2>3. LinksAt(b, n) \ LinksAt(c, n) = {}
    <3>1. SUFFICES ASSUME LinksAt(b, n) \ LinksAt(c, n) # {}
                   PROVE  FALSE
      OBVIOUS
    <3>2. Change("REMOVE", n, "links", "relationship") \in GovernanceChanges(b, c)
      BY <2>1, <3>1 DEF GovernanceChanges, LinkChanges
    <3> QED
      BY <3>2, NoChange DEF Change
  <2> QED
    BY <1>3, <2>2, <2>3 DEF LinksAt
<1>6. ASSUME NEW n \in Ids(b)
      PROVE  RulesAt(b, n) = RulesAt(c, n)
  <2>1. SUFFICES ASSUME RulesAt(b, n) # RulesAt(c, n)
                 PROVE  FALSE
    OBVIOUS
  <2>2. n \in Entities
    BY DEF Ids
  <2>3. Change("MODIFY", n, "rules", "quality") \in GovernanceChanges(b, c)
    BY <2>1, <2>2 DEF GovernanceChanges, RuleChanges
  <2> QED
    BY <2>3, NoChange DEF Change
<1>7. ASSUME NEW n \in Ids(b)
      PROVE  /\ c.entities[n].rules = b.entities[n].rules
             /\ {r \in Unnamed : c.entities[n].unnamed[r] > 0}
                  = {r \in Unnamed : b.entities[n].unnamed[r] > 0}
  <2>1. b.entities[n] \in Entity /\ c.entities[n] \in Entity
    BY <1>3, ContractParts DEF Contract
  <2>2. RuleIds(b.entities[n]) = RuleIds(c.entities[n])
    BY <1>3, <1>6 DEF RulesAt, RuleIds
  <2> QED
    BY <2>1, <2>2, SameRules
<1> QED
  BY <1>3, <1>4, <1>5, <1>7 DEF Interface, Structural

\* Where nobody reviewed a change, consumers see none: the pipeline and the lifecycle
\* command pass on ALLOW alone.
THEOREM UnattendedStepsKeepInterface == Spec => UnattendedKeepsInterface
<1>1. ASSUME TypeOK, [Next]_vars, ~reviewed'
      PROVE  Interface(contract') = Interface(contract) \/ UNCHANGED vars
  <2>1. CASE Next
    <3>1. PICK operation, candidate, conflicts :
            candidate \in Contract /\ Govern(operation, candidate, conflicts)
      BY <1>1, <2>1, EveryStepGoverned
    <3>2. Evaluate(contract, candidate, conflicts).result = "ALLOW"
      BY <1>1, <3>1 DEF Govern, Allowed
    <3>3. Verdict(contract, candidate) = "none"
      BY <3>2, AllowMeans
    <3>4. contract \in Contract /\ contract' = candidate
      BY <1>1, <3>1 DEF Govern, TypeOK
    <3> QED
      BY <3>1, <3>3, <3>4, VerdictSeesInterface
  <2> QED
    BY <1>1, <2>1
<1>2. TypeOK /\ [Next]_vars =>
        [~reviewed' => Interface(contract') = Interface(contract)]_vars
  BY <1>1
<1> QED
  BY <1>2, TypeCorrect, PTL DEF Spec, UnattendedKeepsInterface

----------------------------------------------------------------------------
(* Breaking changes. *)

\* No merge, mark or edit of a contract without a clash is left undecided.
THEOREM EveryChangeIsDecided == Spec => []ChangesAreDecided
<1>1. ChangesAreDecided
  BY AllowIsAccepted DEF ChangesAreDecided
<1> QED
  BY <1>1, PTL

\* A contract whose identities are clear stays so: one that clashes is not valid.
IdentitiesClear == ~contract.clash

LEMMA ClearStays ==
  ASSUME \A c \in Initial : ~c.clash
  PROVE  Spec => []IdentitiesClear
<1>1. Init => IdentitiesClear
  BY DEF Init, IdentitiesClear
<1>2. ASSUME TypeOK, IdentitiesClear, [Next]_vars
      PROVE  IdentitiesClear'
  <2>1. CASE Next
    <3>1. PICK operation, candidate, conflicts : Govern(operation, candidate, conflicts)
      BY <1>2, <2>1, EveryStepGoverned
    <3>2. Valid(candidate)
      BY <3>1, PassedIsValid DEF Govern
    <3> QED
      BY <3>1, <3>2 DEF Govern, Valid, IdentitiesClear
  <2> QED
    BY <1>2, <2>1 DEF vars, IdentitiesClear
<1> QED
  BY <1>1, <1>2, TypeCorrect, PTL DEF Spec

LEMMA GuardedInside ==
  ASSUME NEW b \in Contract, NEW n \in Ids(b), EffectiveLifecycle(b, n) = "active"
  PROVE  Guarded(b, Judged(n))
<1>1. n \in Entities /\ (n \notin Schemas => Parent[n] \in Ids(b))
  BY ContractParts DEF Contract, Ids
<1>2. CASE n \in Nested
  <2>1. n \notin Schemas /\ n \notin Columns /\ Parent[n] \in Columns /\ Parent[n] \notin Schemas
    BY <1>2, TreeAssumption
  <2>2. NestedLifecycle(b, n) = "active"
    BY <2>1 DEF EffectiveLifecycle
  <2>3. ColumnLifecycle(b, Parent[n]) = "active"
    BY <2>2 DEF NestedLifecycle, Inherited
  <2> QED
    BY <1>1, <1>2, <2>1, <2>3 DEF Judged, Guarded, EffectiveLifecycle
<1>3. CASE n \notin Nested
  BY <1>3 DEF Judged, Guarded
<1> QED
  BY <1>2, <1>3

LEMMA BreaksAreSeen ==
  ASSUME NEW b \in Contract, NEW c \in Contract, Breaks(b, c)
  PROVE  Breaking(GovernanceChanges(b, c), b, c) # {}
<1>1. PICK n \in Ids(b) :
        /\ EffectiveLifecycle(b, n) = "active"
        /\ \/ n \notin Ids(c)
           \/ /\ n \notin Schemas
              /\ \E field \in Structural :
                   /\ b.entities[n][field] # c.entities[n][field]
                   /\ Tightens(field, b.entities[n][field], c.entities[n][field])
  BY DEF Breaks
<1>2. ASSUME NEW m \in Fresh(c, b), Guarded(b, Judged(m))
      PROVE  Breaking(GovernanceChanges(b, c), b, c) # {}
  <2>1. Change("REMOVE", m, "entity", "structure") \in GovernanceChanges(b, c)
    BY DEF GovernanceChanges, EntityChanges
  <2> QED
    BY <1>2, <2>1 DEF Breaking, Change
<1>3. CASE n \notin Ids(c)
  <2>1. /\ n \in Entities
        /\ n \notin Schemas => n \in Columns \cup Nested /\ Parent[n] \in Ids(b)
    BY ContractParts DEF Contract, Ids
  <2>2. CASE n \in Schemas \/ Parent[n] \in Ids(c)
    <3>1. n \in Fresh(c, b)
      BY <1>3, <2>2 DEF Fresh
    <3> QED
      BY <1>1, <1>2, <3>1, GuardedInside
  <2>3. CASE n \notin Schemas /\ Parent[n] \notin Ids(c)
    <3>1. Parent[n] \in Ids(b)
      BY <2>1, <2>3
    <3>2. EffectiveLifecycle(b, Parent[n]) = "active"
      BY <1>1, <2>1, <2>3, TreeAssumption
      DEF EffectiveLifecycle, NestedLifecycle, ColumnLifecycle, Inherited
    <3>3. CASE Parent[n] \in Schemas
      <4>1. Parent[n] \in Fresh(c, b)
        BY <2>3, <3>1, <3>3 DEF Fresh
      <4> QED
        BY <1>2, <3>1, <3>2, <4>1, GuardedInside
    <3>4. CASE Parent[n] \notin Schemas
      <4> DEFINE p == Parent[n]
      <4>1. p \in Columns /\ Parent[p] \in Schemas /\ Parent[p] \in Ids(b)
        BY <2>1, <2>3, <3>1, <3>4, TreeAssumption, ContractParts DEF Contract
      <4>2. EffectiveLifecycle(b, Parent[p]) = "active"
        BY <3>2, <4>1, <3>4 DEF EffectiveLifecycle, ColumnLifecycle, Inherited
      <4>3. CASE Parent[p] \in Ids(c)
        <5>1. p \in Fresh(c, b)
          BY <2>3, <3>1, <4>3 DEF Fresh
        <5> QED
          BY <1>2, <3>1, <3>2, <5>1, GuardedInside
      <4>4. CASE Parent[p] \notin Ids(c)
        <5>1. Parent[p] \in Fresh(c, b)
          BY <4>1, <4>4 DEF Fresh
        <5> QED
          BY <1>2, <4>1, <4>2, <5>1, GuardedInside
      <4> QED
        BY <4>3, <4>4
    <3> QED
      BY <3>3, <3>4
  <2> QED
    BY <2>2, <2>3
<1>4. CASE n \in Ids(c)
  <2>1. PICK field \in Structural :
          /\ b.entities[n][field] # c.entities[n][field]
          /\ Tightens(field, b.entities[n][field], c.entities[n][field])
    BY <1>1, <1>4
  <2>2. n \notin Schemas
    BY <1>1, <1>4
  <2>3. <<n, field>> \in {y \in Kept(b, c) \X Structural :
                            b.entities[y[1]][y[2]] # c.entities[y[1]][y[2]]}
    BY <1>4, <2>1 DEF Kept
  <2>4. Change("MODIFY", n, field, "structure") \in GovernanceChanges(b, c)
    BY <2>3 DEF GovernanceChanges, EntityChanges
  <2>5. Guarded(b, Judged(n))
    BY <1>1, GuardedInside
  <2> QED
    BY <2>1, <2>2, <2>4, <2>5 DEF Breaking, Change
<1> QED
  BY <1>3, <1>4

\* No active entity is removed, retyped, narrowed or made mandatory without a review
\* and a major version, as long as the repository starts without clashing identities.
THEOREM BreakingChangesAreMajor ==
  ASSUME \A c \in Initial : ~c.clash
  PROVE  Spec => BreaksAreMajor
<1>1. ASSUME TypeOK, IdentitiesClear, [Next]_vars, Breaks(contract, contract')
      PROVE  \/ UNCHANGED vars
             \/ reviewed' /\ Evaluate(contract, contract', {}).bump = "major"
  <2>1. CASE Next
    <3>1. PICK operation, candidate, conflicts :
            candidate \in Contract /\ Govern(operation, candidate, conflicts)
      BY <1>1, <2>1, EveryStepGoverned
    <3>2. contract \in Contract /\ contract' = candidate /\ ~contract.clash
      BY <1>1, <3>1 DEF Govern, TypeOK, IdentitiesClear
    <3>3. ~candidate.clash
      BY <3>1, PassedIsValid DEF Govern, Valid
    <3>4. Verdict(contract, candidate) = "major"
      BY <1>1, <3>1, <3>2, BreaksAreSeen DEF Verdict, BumpOf
    <3>5. Evaluate(contract, candidate, conflicts).result = "REVIEW"
      BY <3>1, <3>2, <3>3, <3>4, BumpIsReviewed DEF Govern
    <3>6. Evaluate(contract, candidate, {}).bump = "major"
      BY <3>2, <3>3, <3>4, BumpMeans
    <3> QED
      BY <3>1, <3>2, <3>5, <3>6 DEF Govern
  <2> QED
    BY <1>1, <2>1
<1>2. TypeOK /\ IdentitiesClear /\ [Next]_vars =>
        [Breaks(contract, contract') =>
           reviewed' /\ Evaluate(contract, contract', {}).bump = "major"]_vars
  BY <1>1
<1> QED
  BY <1>2, TypeCorrect, ClearStays, PTL DEF Spec, BreaksAreMajor

----------------------------------------------------------------------------
(* Deprecated columns. *)

\* No source revives a deprecated column or nested field, or moves its type.
THEOREM DeprecationIsKept == Spec => []DeprecationSticks
<1>1. TypeOK => DeprecationSticks
  <2>1. SUFFICES ASSUME TypeOK, NEW src \in Sources, NEW d \in Dates,
                        NEW n \in Ids(contract) \ Schemas,
                        Declared(contract.entities[n]) = "deprecated"
                 PROVE  LET merged == Merge(src, contract, d).entities[n] IN
                        /\ merged # Null /\ Declared(merged) = "deprecated"
                        /\ \A field \in Structural :
                             merged[field] = contract.entities[n][field]
    BY DEF DeprecationSticks
  <2> DEFINE e == contract.entities[n]
             merged == MergedEntity(src, contract, n, d)
  <2>2. contract \in ContractRecord(Entity) /\ e \in Entity /\ src \in SourceContract
    BY <2>1, ContractParts, EvolutionAssumption DEF TypeOK, Contract
  <2>3. Merge(src, contract, d).entities[n] = merged
    BY <2>1, <2>2 DEF Merge, ContractRecord, Ids
  <2>4. n \in Entities /\ EffectiveLifecycle(contract, n) # "active"
    <3>1. n \in Entities /\ n \notin Schemas
      BY <2>1 DEF Ids
    <3>2. \A parent : Inherited(parent, e) # "active"
      BY <2>1, NullAssumption DEF Inherited, Status
    <3>3. ColumnLifecycle(contract, n) # "active" /\ NestedLifecycle(contract, n) # "active"
      BY <3>2 DEF ColumnLifecycle, NestedLifecycle
    <3> QED
      BY <3>1, <3>3 DEF EffectiveLifecycle
  <2>5. n \notin Vanished(src, contract)
    BY <2>4 DEF Vanished
  <2>6. Sealed(contract, n)
    BY <2>1 DEF Sealed
  <2>7. merged = e \/ (n \in Ids(src) /\ merged = Preserved(e, src.entities[n]))
    BY <2>1, <2>5, <2>6 DEF MergedEntity
  <2>8. n \in Ids(src) => src.entities[n] \in SourceEntity
    BY <2>2, ContractParts DEF SourceContract
  <2>9. /\ merged \in Entity /\ merged.declared = e.declared
        /\ \A field \in Structural : merged[field] = e[field]
    BY <2>2, <2>7, <2>8, PreservedType
  <2> QED
    BY <2>1, <2>3, <2>9, NullAssumption DEF Declared
<1> QED
  BY <1>1, TypeCorrect, PTL

----------------------------------------------------------------------------
(* Merging the same technical source again.  What the first merge made of  *)
(* an entity, the second makes of it again: fields it gives are already    *)
(* the ones it gives, keys and named rules are there, and nothing has      *)
(* become active that would now vanish, since the source says nothing of   *)
(* any status.                                                             *)

\* An entity an importer says nothing of the status of, and gives no rule without a name.
Silent(f) ==
  f.declared = Null /\ f.since = Null /\ \A r \in Unnamed : f.unnamed[r] = 0

LEMMA ProvidedAgain ==
  ASSUME NEW old, NEW new
  PROVE  Provided(Provided(old, new), new) = Provided(old, new)
  BY DEF Provided

LEMMA AppendedAgain ==
  ASSUME NEW u \in [Unnamed -> Nat], NEW f \in SourceEntity, Silent(f), NEW e, e.unnamed = u
  PROVE  Appended(e, f) = u
<1>1. \A r \in Unnamed : u[r] + f.unnamed[r] = u[r]
  BY DEF Silent
<1>. QED
  BY <1>1 DEF Appended

LEMMA OverwritesNothing ==
  ASSUME NEW e \in Entity, NEW f \in SourceEntity, Silent(f),
         Provided(e.logical, f.logical) = e.logical,
         Provided(e.physical, f.physical) = e.physical,
         Provided(e.required, f.required) = e.required,
         Provided(e.about, f.about) = e.about,
         (e.links \ ForeignKeys) \cup (f.links \cap ForeignKeys) = e.links,
         e.rules \cup f.rules = e.rules
  PROVE  Overwritten(e, f) = e
<1>1. /\ Keyed(e.declared, f.declared) = e.declared /\ Keyed(e.since, f.since) = e.since
      /\ Appended(e, f) = e.unnamed
  BY AppendedAgain DEF Keyed, Silent, Entity
<1>2. Overwritten(e, f) =
        [declared |-> e.declared, since |-> e.since, logical |-> e.logical,
         physical |-> e.physical, required |-> e.required, about |-> e.about,
         links |-> e.links, rules |-> e.rules, unnamed |-> e.unnamed]
  BY <1>1 DEF Overwritten
<1>. QED
  BY <1>2 DEF Entity

LEMMA MergedOnce ==
  ASSUME NEW e \in Entity, NEW f \in SourceEntity, Silent(f)
  PROVE  /\ Overwritten(Overwritten(e, f), f) = Overwritten(e, f)
         /\ Overwritten(Plain(f), f) = Plain(f)
         /\ Preserved(Preserved(e, f), f) = Preserved(e, f)
         /\ Overwritten(e, f).declared = e.declared
<1>. DEFINE o == Overwritten(e, f)
            p == Plain(f)
            k == Preserved(e, f)
<1>1. o \in Entity /\ p \in Entity /\ k \in Entity
  BY OverwrittenType, PlainType, PreservedType
<1>2. Appended(o, f) = o.unnamed /\ Appended(p, f) = p.unnamed /\ Appended(k, f) = k.unnamed
  BY <1>1, AppendedAgain DEF Entity
<1>3. \A x : Keyed(x, Null) = x
  BY DEF Keyed
<1>4. /\ o.declared = e.declared /\ o.since = e.since
      /\ o.logical = Provided(e.logical, f.logical)
      /\ o.physical = Provided(e.physical, f.physical)
      /\ o.required = Provided(e.required, f.required)
      /\ o.about = Provided(e.about, f.about)
      /\ o.links = (e.links \ ForeignKeys) \cup (f.links \cap ForeignKeys)
      /\ o.rules = e.rules \cup f.rules
  BY <1>3 DEF Overwritten, Silent
<1>5. /\ p.declared = Null /\ p.since = Null
      /\ p.logical = Provided(Null, f.logical) /\ p.physical = Provided(Null, f.physical)
      /\ p.required = Provided(Null, f.required) /\ p.about = Provided(Null, f.about)
      /\ p.links = f.links /\ p.rules = f.rules
  BY DEF Plain, Silent
<1>6. /\ k.since = e.since /\ k.about = Provided(e.about, f.about)
      /\ k.rules = e.rules \cup f.rules
  BY <1>3 DEF Preserved, Silent, Entity
<1>. HIDE DEF o, p, k
<1>7. Overwritten(o, f) = o
  <2>1. (o.links \ ForeignKeys) \cup (f.links \cap ForeignKeys) = o.links
        /\ o.rules \cup f.rules = o.rules
    BY <1>4
  <2>. QED
    BY <1>1, <1>4, <2>1, ProvidedAgain, OverwritesNothing
<1>8. Overwritten(p, f) = p
  <2>1. (p.links \ ForeignKeys) \cup (f.links \cap ForeignKeys) = p.links
        /\ p.rules \cup f.rules = p.rules
    BY <1>5
  <2>. QED
    BY <1>1, <1>5, <2>1, ProvidedAgain, OverwritesNothing
<1>9. Preserved(k, f) = k
  <2>1. /\ Keyed(k.since, f.since) = k.since /\ Provided(k.about, f.about) = k.about
        /\ k.rules \cup f.rules = k.rules
    BY <1>3, <1>6, ProvidedAgain DEF Silent
  <2>2. Preserved(k, f) =
          [k EXCEPT !.since = k.since, !.about = k.about, !.rules = k.rules,
                    !.unnamed = k.unnamed]
    BY <1>2, <2>1 DEF Preserved
  <2>. QED
    BY <1>1, <2>2 DEF Entity
<1>. QED
  BY <1>4, <1>7, <1>8, <1>9 DEF o, p, k

\* What has the fields a source gives does not conflict with it.
LEMMA SettledConflicts ==
  ASSUME NEW e \in Entity, NEW f \in SourceEntity, NEW rule,
         Provided(e.logical, f.logical) = e.logical,
         Provided(e.physical, f.physical) = e.physical,
         Provided(e.required, f.required) = e.required
  PROVE  ~Conflicting(rule, e, Plain(f))
<1>. DEFINE new == Plain(f)
<1>1. /\ new.logical \in {Null, e.logical} /\ new.physical \in {Null, e.physical}
      /\ new.required \in {Null, e.required}
  BY DEF Plain, Provided
<1>. HIDE DEF new
<1>2. ~Differ(e.logical, new.logical) /\ ~Differ(e.physical, new.physical)
  BY <1>1 DEF Differ
<1>3. ~(new.required = TRUE /\ e.required # TRUE)
  BY <1>1, NullAssumption
<1>4. ~DecimalReduced(e.physical, new.physical)
  <2>1. SUFFICES ASSUME DecimalReduced(e.physical, new.physical)
                 PROVE  FALSE
    OBVIOUS
  <2>2. new.physical = e.physical /\ e.physical # Null
    BY <1>1, <2>1 DEF DecimalReduced, IsDecimal
  <2>3. e.physical \in [family : STRING, width : Nat, scale : Nat]
    BY <2>2, PhysicalAssumption DEF Entity
  <2>4. e.physical.width < e.physical.width \/ e.physical.scale < e.physical.scale
    BY <2>1, <2>2 DEF DecimalReduced
  <2>. QED
    BY <2>3, <2>4
<1>. QED
  BY <1>2, <1>3, <1>4 DEF Conflicting, new

\* Nothing that declares itself deprecated is active.
LEMMA DeprecatedIsNotActive ==
  ASSUME NEW c, NEW n, Declared(c.entities[n]) = "deprecated"
  PROVE  EffectiveLifecycle(c, n) # "active"
<1>1. \A parent : Inherited(parent, c.entities[n]) # "active"
  BY NullAssumption DEF Inherited, Status
<1>. QED
  BY <1>1 DEF EffectiveLifecycle, SchemaLifecycle, ColumnLifecycle, NestedLifecycle

LEMMA MergeSettles ==
  ASSUME NEW g \in Contract, g.status # Null, NEW src \in SourceContract, Technical(src),
         NEW d \in Dates, NEW e \in Dates
  PROVE  LET m == Merge(src, g, d) IN Merge(src, m, e) = m /\ Conflicts(src, m) = {}
<1>. DEFINE m == Merge(src, g, d)
            Here(n) == n \in Ids(g) \/ (n \in Ids(src) /\ ~Untouched(g, n))
<1>1. /\ g \in ContractRecord(Entity) /\ m \in ContractRecord(Entity) /\ m \in Contract
      /\ \A n \in Ids(g) : g.entities[n] \in Entity
      /\ \A n \in Ids(m) : m.entities[n] \in Entity
      /\ \A n \in Ids(src) : src.entities[n] \in SourceEntity /\ Silent(src.entities[n])
      /\ \A n \in Ids(g) \ Schemas : Parent[n] \in Ids(g)
      /\ \A n \in Ids(src) \ Schemas : Parent[n] \in Ids(src)
  BY MergeType, ContractParts DEF Contract, SourceContract, Technical, Silent
<1>2. m.status = g.status
  BY <1>1 DEF Merge, Keyed, ContractRecord
<1>3. \A n \in Entities :
        m.entities[n] = IF Here(n) THEN MergedEntity(src, g, n, d) ELSE Null
  BY <1>1 DEF Merge, ContractRecord
<1>4. \A n \in Entities : n \in Ids(m) <=> Here(n)
  <2>1. \A n \in Ids(g) \cup Ids(src) : MergedEntity(src, g, n, d) # Null
    BY MergedEntityType, NullAssumption
  <2>. QED
    BY <1>3, <2>1 DEF Ids
<1>. HIDE DEF m
\* What the source has keeps the status it declares, if it was there.
<1>5. ASSUME NEW n \in Ids(src), Here(n)
      PROVE  m.entities[n].declared = IF n \in Ids(g) THEN g.entities[n].declared ELSE Null
  <2>1. n \in Entities /\ n \notin Vanished(src, g) /\ src.entities[n] \in SourceEntity
        /\ Silent(src.entities[n])
    BY <1>1 DEF Ids, Vanished
  <2>2. n \notin Ids(g) => Plain(src.entities[n]).declared = Null
    BY <2>1 DEF Plain, Silent
  <2>3. n \in Ids(g) =>
          /\ Overwritten(g.entities[n], src.entities[n]).declared = g.entities[n].declared
          /\ Preserved(g.entities[n], src.entities[n]).declared = g.entities[n].declared
    BY <1>1, <2>1, MergedOnce, PreservedType
  <2>. QED
    BY <1>3, <1>5, <2>1, <2>2, <2>3 DEF MergedEntity
<1>6. ASSUME NEW n \in Ids(src), Here(n)
      PROVE  Declared(m.entities[n]) = "deprecated" <=>
               n \in Ids(g) /\ Declared(g.entities[n]) = "deprecated"
  BY <1>5, <1>6, NullAssumption DEF Declared, Status
<1>7. Vanished(src, m) = {}
  <2>1. SUFFICES ASSUME NEW n \in Vanished(src, m)
                 PROVE  FALSE
    OBVIOUS
  <2>2. /\ n \in Schemas \cup Columns /\ n \in Entities /\ n \in Ids(g) /\ n \notin Ids(src)
        /\ EffectiveLifecycle(m, n) = "active" /\ (n \in Schemas \/ Parent[n] \in Ids(src))
    BY <1>4, <2>1 DEF Vanished, Ids
  <2>3. CASE n \in Vanished(src, g)
    <3>1. m.entities[n] = Deprecated(g.entities[n], d)
      BY <1>3, <2>2, <2>3 DEF MergedEntity
    <3>2. Deprecated(g.entities[n], d).declared = "deprecated"
      BY <1>1, <2>2 DEF Deprecated, Entity
    <3>3. Declared(m.entities[n]) = "deprecated"
      BY <3>1, <3>2 DEF Declared, Status
    <3>. QED
      BY <2>2, <3>3, DeprecatedIsNotActive
  <2>4. CASE n \notin Vanished(src, g)
    <3>1. m.entities[n] = g.entities[n]
      BY <1>3, <2>2, <2>4 DEF MergedEntity
    <3>2. EffectiveLifecycle(g, n) # "active"
      BY <2>2, <2>4 DEF Vanished
    <3>3. ContractLifecycle(m) = ContractLifecycle(g)
      BY <1>2 DEF ContractLifecycle
    <3>4. CASE n \in Schemas
      BY <2>2, <3>1, <3>2, <3>3, <3>4 DEF EffectiveLifecycle, SchemaLifecycle
    <3>5. CASE n \notin Schemas
      <4>. DEFINE p == Parent[n]
      <4>1. p \in Ids(g) /\ p \in Ids(src)
        BY <1>1, <2>2, <3>5
      <4>2. m.entities[p].declared = g.entities[p].declared
        BY <1>5, <4>1
      <4>3. SchemaLifecycle(m, p) = SchemaLifecycle(g, p)
        BY <3>3, <4>2 DEF SchemaLifecycle, Inherited, Declared
      <4>. QED
        BY <2>2, <3>1, <3>2, <3>5, <4>3 DEF EffectiveLifecycle, ColumnLifecycle
    <3>. QED BY <3>4, <3>5
  <2>. QED BY <2>3, <2>4
<1>8. ASSUME NEW n \in Ids(src)
      PROVE  Untouched(m, n) <=> Untouched(g, n)
  <2>1. n \in Entities
    BY DEF Ids
  <2>2. CASE n \notin Nested
    BY <2>2 DEF Untouched
  <2>3. CASE n \in Nested
    <3>. DEFINE p == Parent[n]
    <3>1. n \notin Schemas /\ p \in Columns /\ p \notin Schemas /\ p \notin Nested
      BY <2>3, TreeAssumption
    <3>2. p \in Ids(src) /\ p \in Entities /\ ~Untouched(g, p)
      BY <1>1, <3>1 DEF Entities, Untouched
    <3>3. Here(p) /\ p \in Ids(m)
      BY <1>4, <3>2
    <3>4. Sealed(m, p) <=> Sealed(g, p)
      BY <1>6, <3>1, <3>2, <3>3 DEF Sealed
    <3>. QED
      BY <2>3, <3>4 DEF Untouched
  <2>. QED BY <2>2, <2>3
\* An entity of the source that is merged, not left as it is.
<1>9. ASSUME NEW n \in Ids(src), Here(n), ~Untouched(g, n)
      PROVE  /\ Sealed(m, n) <=> Sealed(g, n)
             /\ m.entities[n] =
                  IF n \notin Ids(g) THEN Plain(src.entities[n])
                  ELSE IF Sealed(g, n) THEN Preserved(g.entities[n], src.entities[n])
                  ELSE Overwritten(g.entities[n], src.entities[n])
  <2>1. n \in Entities /\ n \notin Vanished(src, g)
    BY DEF Ids, Vanished
  <2>2. n \in Ids(m)
    BY <1>4, <1>9, <2>1
  <2>3. Sealed(m, n) <=> Sealed(g, n)
    BY <1>6, <1>9, <2>2 DEF Sealed
  <2>. QED
    BY <1>3, <1>9, <2>1, <2>3 DEF MergedEntity
<1>10. ASSUME NEW n \in Entities
       PROVE  (IF n \in Ids(m) \/ (n \in Ids(src) /\ ~Untouched(m, n))
               THEN MergedEntity(src, m, n, e) ELSE Null) = m.entities[n]
  <2>1. CASE n \notin Ids(m)
    <3>1. ~Here(n) /\ m.entities[n] = Null
      BY <1>4, <2>1 DEF Ids
    <3>2. n \in Ids(src) => Untouched(m, n)
      BY <1>8, <3>1
    <3>. QED
      BY <2>1, <3>1, <3>2
  <2>2. CASE n \in Ids(m) /\ (n \notin Ids(src) \/ Untouched(m, n))
    BY <1>7, <2>2 DEF MergedEntity
  <2>3. CASE n \in Ids(m) /\ n \in Ids(src) /\ ~Untouched(m, n)
    <3>. DEFINE f == src.entities[n]
    <3>1. Here(n) /\ ~Untouched(g, n) /\ f \in SourceEntity /\ Silent(f)
      BY <1>1, <1>4, <1>8, <2>3
    <3>2. MergedEntity(src, m, n, e) =
            IF Sealed(m, n) THEN Preserved(m.entities[n], f) ELSE Overwritten(m.entities[n], f)
      BY <1>7, <2>3 DEF MergedEntity
    <3>3. CASE n \notin Ids(g)
      <4>1. m.entities[n] = Plain(f) /\ ~Sealed(m, n)
        BY <1>9, <2>3, <3>1, <3>3 DEF Sealed
      <4>2. \E x \in Entity : TRUE
        BY <3>1, PlainType
      <4>3. Overwritten(Plain(f), f) = Plain(f)
        BY <3>1, <4>2, MergedOnce
      <4>. QED
        BY <2>3, <3>2, <4>1, <4>3
    <3>4. CASE n \in Ids(g)
      <4>1. g.entities[n] \in Entity
        BY <1>1, <3>4
      <4>2. /\ Overwritten(Overwritten(g.entities[n], f), f) = Overwritten(g.entities[n], f)
            /\ Preserved(Preserved(g.entities[n], f), f) = Preserved(g.entities[n], f)
        BY <3>1, <4>1, MergedOnce
      <4>. QED
        BY <1>9, <2>3, <3>1, <3>2, <3>4, <4>2
    <3>. QED BY <3>3, <3>4
  <2>. QED BY <2>1, <2>2, <2>3
<1>11. Merge(src, m, e) = m
  <2>. DEFINE again == [n \in Entities |->
                          IF n \in Ids(m) \/ (n \in Ids(src) /\ ~Untouched(m, n))
                          THEN MergedEntity(src, m, n, e) ELSE Null]
  <2>1. again = m.entities
    <3>1. m.entities = [n \in Entities |-> m.entities[n]]
      BY <1>1 DEF ContractRecord
    <3>. QED
      BY <1>10, <3>1
  <2>2. Merge(src, m, e) = [m EXCEPT !.status = Keyed(src.status, m.status), !.entities = again]
    BY Zenon DEF Merge
  <2>. HIDE DEF again
  <2>3. Keyed(src.status, m.status) = m.status
    BY <1>2 DEF Keyed
  <2>. QED
    BY <1>1, <2>1, <2>2, <2>3 DEF ContractRecord
<1>12. Conflicts(src, m) = {}
  <2>1. SUFFICES ASSUME NEW n \in Columns \cap Ids(src) \cap Ids(m), NEW rule,
                        EffectiveLifecycle(m, n) = "active",
                        Conflicting(rule, m.entities[n], Plain(src.entities[n]))
                 PROVE  FALSE
    BY DEF Conflicts
  <2>. DEFINE f == src.entities[n]
              x == m.entities[n]
  <2>2. n \in Entities /\ n \notin Nested /\ n \notin Schemas /\ Here(n) /\ ~Untouched(g, n)
    BY <1>4, <2>1, TreeAssumption DEF Ids, Untouched
  <2>3. ~Sealed(m, n)
    BY <2>1, DeprecatedIsNotActive DEF Sealed
  <2>4. x = Plain(f) \/ (n \in Ids(g) /\ x = Overwritten(g.entities[n], f))
    BY <1>9, <2>2, <2>3
  <2>5. /\ Provided(x.logical, f.logical) = x.logical
        /\ Provided(x.physical, f.physical) = x.physical
        /\ Provided(x.required, f.required) = x.required
    BY <2>4, ProvidedAgain DEF Plain, Overwritten
  <2>6. x \in Entity /\ f \in SourceEntity
    BY <1>1, <2>1
  <2>. QED
    BY <2>1, <2>5, <2>6, SettledConflicts
<1>. QED
  BY <1>11, <1>12 DEF m

\* A scheduled import of a technical source settles after one merge, from whatever
\* contract that states a status the writers have arrived at.
THEOREM ImportsSettle == Spec => []ImportSettles
<1>1. TypeOK => ImportSettles
  BY MergeSettles, EvolutionAssumption DEF TypeOK, ImportSettles
<1>. QED
  BY <1>1, TypeCorrect, PTL
=============================================================================

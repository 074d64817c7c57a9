-------------------------- MODULE ContractEvolution --------------------------
(***************************************************************************)
(* One governed contract and everything that rewrites it: imports and      *)
(* merges behind the PROPOSE gate (interfaces/commands), the automation    *)
(* pipeline behind the CI gate (orchestrator/pipeline.py), the lifecycle   *)
(* command behind the APPLY gate (core/lifecycle_cli.py), and edits by     *)
(* hand, which a release plan proposes (contractops/release_plan.py).      *)
(***************************************************************************)
EXTENDS MergeEngine

CONSTANTS
  Initial,  \* contracts a repository may start from
  Sources,  \* technical contracts an importer may produce
  Edits(_), \* candidates a person may write from a contract
  MaxCopies \* bound: copies of a rule without a name an entity may collect

ASSUME EvolutionAssumption ==
  /\ Initial \subseteq Contract
  /\ Sources \subseteq SourceContract
  /\ MaxCopies \in Nat

VARIABLES
  contract, \* the governed contract
  reviewed  \* whether the step that wrote it was gated as one to review

vars == <<contract, reviewed>>

TypeOK ==
  /\ contract \in Contract
  /\ reviewed \in BOOLEAN

Init ==
  /\ contract \in Initial
  /\ reviewed = TRUE

Bounded(c) == \A n \in Ids(c), r \in Unnamed : c.entities[n].unnamed[r] <= MaxCopies

\* Evaluate the candidate and write it if the gate lets the operation pass; a
\* decision that raises writes nothing.
Govern(operation, candidate, conflicts) ==
  LET result == Evaluate(contract, candidate, conflicts).result IN
  /\ Allowed(result, operation)
  /\ contract' = candidate
  /\ reviewed' = (result = "REVIEW")

MergeFrom(src, date, operation) ==
  LET merged == Merge(src, contract, date) IN
  /\ Mergeable(src, contract)
  /\ Bounded(merged)
  /\ Govern(operation, merged, Conflicts(src, contract))

\* semapact import and semapact merge.
Import(src, date) == MergeFrom(src, date, "PROPOSE")

\* ContractPipeline.run: nobody is asked, and only ALLOW is written.
Pipeline(src, date) == MergeFrom(src, date, "CI")

\* semapact lifecycle promote and deprecate, on the contract, a schema or a column.
MarkedEntity(e, status, date) ==
  [e EXCEPT !.declared = status,
            !.since = IF status = "deprecated" THEN Keyed(date, @) ELSE @]

Marked(scope, status, date) ==
  IF scope = Root THEN [contract EXCEPT !.status = status]
  ELSE [contract EXCEPT !.entities[scope] = MarkedEntity(@, status, date)]

Mark(scope, status, date) ==
  /\ scope \in {Root} \cup (Ids(contract) \ Nested)
  /\ Govern("APPLY", Marked(scope, status, date), {})

\* An edit by hand, which loads as a contract and changes it, is proposed for release.
Edit(candidate) ==
  /\ candidate \in Contract /\ candidate # contract
  /\ Govern("PROPOSE", candidate, {})

Next ==
  \/ \E src \in Sources, date \in Dates : Import(src, date) \/ Pipeline(src, date)
  \/ \E scope \in {Root} \cup Entities, status \in {"active", "deprecated"}, date \in Dates :
       Mark(scope, status, date)
  \/ \E candidate \in Edits(contract) : Edit(candidate)

Spec == Init /\ [][Next]_vars

----------------------------------------------------------------------------
(* Properties. *)

\* Where no identities clash, no writer is left without a decision, whatever it
\* merges, marks or edits: an ALLOW of the evaluator always passes the check the
\* decision model makes of policy, bump and conflicts on its own
\* (_determine_decision, _validate_allow_invariants).
ChangesAreDecided ==
  LET Decided(candidate, conflicts) ==
        Evaluate(contract, candidate, conflicts).result # "raises"
  IN ~contract.clash =>
       /\ \A src \in Sources, d \in Dates : Mergeable(src, contract) =>
            Decided(Merge(src, contract, d), Conflicts(src, contract))
       /\ \A scope \in {Root} \cup (Ids(contract) \ Nested),
             status \in {"active", "deprecated"}, d \in Dates :
            Decided(Marked(scope, status, d), {})
       /\ \A candidate \in Edits(contract) : Decided(candidate, {})

\* What consumers and the runtime depend on; of the rules, which there are.
Interface(c) ==
  [n \in Ids(c) |->
     LET e == c.entities[n] IN
     [types |-> <<e.logical, e.physical, e.required>>, links |-> e.links,
      rules |-> e.rules, unnamed |-> {r \in Unnamed : e.unnamed[r] > 0}]]

\* What nobody reviewed changed no structure: a pipeline and the lifecycle command
\* go through on ALLOW alone, and an import does where ALLOW is the decision.  No
\* such step adds or removes an entity or changes a type, a relationship or a
\* quality rule: the classification sees every difference the merge can make.
UnattendedKeepsInterface ==
  [][~reviewed' => Interface(contract') = Interface(contract)]_vars

\* RETIRED is terminal (docs/lifecycle_semantics.md): whoever writes, by whatever
\* path, a retired contract stays as it is.
RetiredIsFinal ==
  [][ContractLifecycle(contract) = "retired" => contract' = contract]_vars

\* The breaking changes by the effective status of the entity itself, as the
\* participation matrix of docs/lifecycle_semantics.md has it, at any depth.
Breaks(b, c) ==
  \E n \in Ids(b) :
    /\ EffectiveLifecycle(b, n) = "active"
    /\ \/ n \notin Ids(c)
       \/ /\ n \notin Schemas
          /\ \E field \in Structural :
               /\ b.entities[n][field] # c.entities[n][field]
               /\ Tightens(field, b.entities[n][field], c.entities[n][field])

\* No active entity is removed, retyped, narrowed or made mandatory except in a
\* reviewed step whose decision requires a major version, whichever writer it is
\* and whatever else the step changes, the status of the contract included.
BreaksAreMajor ==
  [][Breaks(contract, contract') =>
       reviewed' /\ Evaluate(contract, contract', {}).bump = "major"]_vars

\* _merge_matching_property_models, "Prevent implicit reactivation of deprecated
\* fields": no source revives a column or a nested field, or moves its type.
DeprecationSticks ==
  \A src \in Sources, d \in Dates : Mergeable(src, contract) =>
    \A n \in {m \in Ids(contract) \ Schemas : Declared(contract.entities[m]) = "deprecated"} :
      LET merged == Merge(src, contract, d).entities[n] IN
      /\ merged # Null /\ Declared(merged) = "deprecated"
      /\ \A field \in Structural : merged[field] = contract.entities[n][field]

\* A source with technical content only, as the importers produce it.
Technical(src) ==
  \A n \in Ids(src) :
    /\ src.entities[n].declared = Null /\ src.entities[n].since = Null
    /\ \A r \in Unnamed : src.entities[n].unnamed[r] = 0

\* A scheduled import settles: once a technical source is merged, merging it again
\* on any later date changes nothing and conflicts with nothing, so that the next
\* run of the pipeline is not held up by what was already accepted.
ImportSettles ==
  \A src \in Sources, d, e \in Dates :
    (Technical(src) /\ Mergeable(src, contract) /\ contract.status # Null) =>
      LET merged == Merge(src, contract, d) IN
      Merge(src, merged, e) = merged /\ Conflicts(src, merged) = {}
=============================================================================

# SemaPact: models, model checking and proofs

SemaPact governs data contracts (ODCS YAML files) and deploys them. A change of a
contract is *classified* by governance, *assessed* into a release bundle, *reviewed*,
*finalized* into an immutable record in a Git working tree and into the contract file, and
*deployed* to Databricks tables, which are then *reconciled* with the contract. This
directory holds TLA+ modules of the parts of that chain where several actors, partial
failures or long protocols meet, the TLC runs that check them, and TLAPS proofs of the
properties that matter most. Paths below are relative to `src/semapact/`.

`PROJECT.json` lists the components, the runs, the code lines of every definition (`map`),
defective variants of definitions that each property must catch (`mutants`), the hazards of
the code with the properties that cover them, the findings and the theorems.

## 1. Inventory

| Component | State | Operations | What is hard | What makes it correct |
|---|---|---|---|---|
| Git history ledger (`platforms/git/history_repository.py`) | a directory of `<id>.json` artifacts, each with a `.sha256` sidecar | `put_*` (create-only, idempotent), getters, listings, `inspect` | several processes share nothing but the directory; a process can die between any two file-system steps; files can be edited from outside | acknowledged puts are durable; nothing published is rewritten; conflicts are real; one release per contract version |
| Release workflow (`release_cmd`, `release_workflow`, `release_approval`, `contractops/authorization`) | the contract file; bundles, approvals and releases in the ledger | assess, approve, record a review, finalize | commands overlap, are repeated and die; evidence comes from the ledger or as a file; bundles grow stale | nothing reviewed is released without an exact approval; a rejection stands; releases form a lineage |
| Version authority (`versioning.py`, `contractops/version_authority.py`) | none | next version from a base and a required bump, computed or from Git tags | edges of the bump order | a release moves at least as far as required, and forward |
| Schema comparison, mapping and planning (`schema/`, `deployment/schema_transitions.py`, `platforms/databricks/transition_*`) | none | map, compare, plan, compile | three interpretations of one comparison; `None` as "no evidence"; renamed columns | one planned operation converges; planner and verifier agree |
| Runtime deployment (`deployment/`, `application/services/deployment_workflow.py`) | the warehouse's tables and tags | deploy: preview, apply, verify, project tags, record | nothing is locked; reads and writes go table by table; statements outlive the job | only additions; reports and tags are true; repetition converges |
| Databricks platform (`platforms/databricks/`) | - | observe, run a statement and poll it, read/unset/set tags | polling gives up, calls fail | as above |
| Operational telemetry (`history/operational*`, `platforms/{sqlite,delta}`) | an event store | record a deployment event | fails after the deployment succeeded | does not change the outcome |
| Runtime reconciliation (`reconciliation/`, its service and CLI) | none | map, compare, status | second user of the comparison | same verdict as verification |
| Approval history (`approval/`, `approval_record`) | approvals in the ledger | record a review event | scope and evidence are optional | see release workflow |
| Governance evaluation (`governance/`) | none | contracts → findings → decision and bump | many rules, fail-closed defaults | nothing breaking passes without review and a major bump |
| Lifecycle policy and change detection (`lifecycle/`) | none | status, retirement, change classification | missing and malformed statuses | retired is immutable; unknown is refused |
| Merge engine, imports, import pipeline, lifecycle command (`lifecycle/merge_engine.py`, `orchestrator/`, `core/lifecycle_cli.py`) | the contract file | merge an import into an edited contract, promote, deprecate, each behind a gate | four writers with different gates; repeated merges; identity of unnamed elements | what nobody reviewed keeps the interface; deprecation sticks; a second merge changes nothing |
| Proposal history and evolution (`application/services/{history,evolution,history_integrity}`, `revision/`) | the ledger | record revisions, change set, decision, link; walk them back; check a contract's history | five puts that nothing groups; a walk reads while others write | no dangling link; a report without issues vouches for what it covers; recording raises no alarm |
| Deployment hand-over and runtime binding (`deployment_cmd`, `platforms/runtime_registry.py`, `platforms/databricks/{configuration,client}.py`) | the bundle's file; the environment of each job | assess in one job, deploy in another | the two jobs configure their clients apart; the file is written in place | what runs was reviewed, passed, and runs where it was reviewed |
| Readiness, doctor | none | probe the location a contract names | resolves the location a second time | what is READY can be assessed |
| Delivery helpers (`devops/`) | a Git clone, the host's branches and pull requests, a cached way in | branch, commit, push, open a pull request by one of several methods | any of a dozen commands may fail, take effect without an answer, or be killed; half-made states are taken up by the next call | an acknowledged request holds the change; no working method is passed over; repetition delivers |
| Contract core, editor, importers, exporters, quality, enrichment, CLI, utilities | files | conversions, user interface, text | - | - |

How they interact: the release workflow and the proposal history call the ledger's puts and
listings; the deployment reads a bundle or a release written by the release workflow; the
comparison is called by the planner, by deployment verification and by reconciliation; the
deployment calls the Databricks adapter synchronously and hands an event to the history sink
at its end. There are no threads: the concurrency is between processes (CI jobs, people)
that share a working tree or a warehouse, and between a job and statements it has given up.

## 2. Plan

Ordered by what would hurt most. Done in this order:

1. `ImmutableHistory` (abstract) and `HistoryLedger` (detailed, implements it), with
   `HistoryLedgerProofs`.
2. `Versioning` (pure) and `ReleaseFlow`, which uses it and the ledger's write-once
   promise, with `ReleaseFlowProofs`.
3. `SchemaConvergence` (pure) and `Deployment`, which uses it, with
   `SchemaConvergenceProofs` and `DeploymentProofs`.
4. `Lifecycle` and `MergeEngine` (pure) and `ContractEvolution`, which composes them, with
   `ContractEvolutionProofs`.

5. `ProposalHistory` over the write-once promise, with `ProposalHistoryProofs`.
6. `PullRequests`, with `PullRequestsProofs`.
7. `DeploymentHandover`, which composes assess, the bundle's file and deploy, with
   `DeploymentHandoverProofs`.

8. `ReleaseFlow` takes the verdict and the bump of a change as given; its instances tie
   them to `Lifecycle`.

9. Theorems of every safety and action property the runs check.

Left:

10. Repository classification: a verdict over a Git diff, a small pure module.

## 3. Modules

### `ImmutableHistory`, `HistoryLedger`

`ImmutableHistory` is the promise of `history/repository.py`: records are stored once under
their identity, acknowledged only when stored, refused only when one that competes with them
is. `HistoryLedger` is `_put` as the file-system steps another process can see or interrupt:

| Action | Code |
|---|---|
| `BeginPut`, `ScanReleases`, `CheckSlot` | `put_contract_release` lists all releases, reads them, and refuses a second one of its version |
| `CheckExists`, `CompareExisting` | `_put`: the path exists; `_require_idempotent_existing` |
| `OpenTemp`, `WriteTemp`, `LinkArtifact` / `LinkSeal` | `_publish_create_only`: temporary file, write and fsync, `os.link`, unlink |
| `RereadArtifact`, `VerifySeal` | `_ensure_checksum`, `_verify_checksum_if_present` |
| `Crash` | the process dies, or the file system raises, between two steps |
| `Tamper` | something else edits a sealed file, once per id |

Content is a record or `Garbled`. `Readable` is `_read_validated`; `Issues` is the
inspection, which the code writes separately. A release's id covers its whole content
(`ReleaseIdentity`); a decision's does not cover its messages and the ledger has no identity
validator for decisions, so two decisions may share an id and the instances have such a pair.
Abstracted: link and unlink are one step; the leftover temporary file of a crashed process
is forgotten (its name is random and never read); what a put is given is valid; a crash is
one of the process, the disk keeps what was written. Outside edits touch only sealed files.

### `Versioning`, `ReleaseFlow`

Versions are triples; `SelectableVersions` has both authorities, and each assessment is
configured with either (`Authorities`). `ReleaseFlow` has the
contract file, the bundles, the reviews recorded in the ledger or handed over as files, and
the release ledger. Assessing, approving and recording are one action each, as their effects
on shared state are one put; `finalize` is `Start`, `Resolve`, `ScanReleases`, `Publish`,
`TruncateContract`, `WriteContract`, and may `Crash` between any two. The ledger appears as
its write-once promise with the listing separate from the publication, which the refinement
proved for `HistoryLedger` justifies. `dump_yaml` truncates the file and then writes it, so
two overlapping commands may leave a mixture of both texts (`Torn`).
Abstracted: a candidate is the base with one of `Changes` made, whose verdict and bump are
given. In the instances they are `Lifecycle`'s: `DecisionsOfChanges`, an assumption TLC
evaluates, compares them with `Evaluate` on contracts that have those changes, and checks
that the decision on a change does not depend on what was released before it, except that a
retired contract takes none. Ids are digests, so a bundle is its own identity; `REQUEST_CHANGES` acts as `REJECT`;
the operation is PUBLISH; assessing reads only an intact file.

### `SchemaConvergence`, `Deployment`

`SchemaConvergence` is one table: a schema maps physical names to a type and a nullability,
either of which may be `Unknown` (Python's `None`). It has both schema mappers (compiled and
pass-through), logical names, the comparison's five kinds of facts, the status, and the
additive transition with the Databricks capability rules. What the SQL statements do to a
table is external: the verb and its conditions are the compiler's, the effect the platform's.

`Deployment` is `DeploymentWorkflowService.deploy` run by any number of jobs, one API call per
action: `ObserveTable` and `ObserveTags` per table, `Preview`, both again, `CheckFresh` (the
fingerprint covers tags too), `RunStatement` per table, both again, `Classify`, and for a finalized release in
sync `ReadTags`, unset, set; then `RecordSuccess` or `RecordFailure`. What goes wrong:
`PlatformError`, `LoseStatement` (300 polls, or a poll that raises: the statement is now
nobody's and may `Land` or be cancelled at any time), `Crash`, `SinkFails`, and `Drift`,
changes of tables made outside SemaPact.
Abstracted: a plan is a bundle whose links were validated; the release is identified with
its plan; physical and logical names coincide here (`SchemaConvergence` has the other case);
an observation is compared as a value, which is what its fingerprint is for; identical lost
statements on one table are one; event contents.

### `Lifecycle`, `MergeEngine`, `ContractEvolution`

`Lifecycle` is the verdict on a change of a contract, from its base `b` to a candidate `c`:
`EffectiveLifecycle` (`lifecycle/status.py`), `GovernanceChanges` (`lifecycle/changes.py`), `Breaking`
(`lifecycle/policy.py`), `BumpOf` (`lifecycle/change_classification.py`), `Evaluate`
(`governance/evaluator.py` with the invariants of `governance/models.py`) and `Allowed`
(`governance/gate.py`). A contract is a tree of schemas, columns and nested fields; an entity
has its declared status, deprecation date, types, `required`, relationships and quality
rules, any of which may be absent. `MergeEngine` is the import merged into it, where a field
may also be not given at all (`Unset`, which `_copy_if_provided` tells from `None`).
`ContractEvolution` is the contract under all who rewrite it:

| Action | Code | Gate |
|---|---|---|
| `Import` | `run_import`, `run_merge`: merge, evaluate with the conflicts, write | PROPOSE |
| `Pipeline` | `ContractPipeline.run`: the same, nobody is asked | CI |
| `Mark` | `apply_lifecycle`: promote or deprecate a contract, schema or column | APPLY |
| `Edit` | a hand edit that `build_release_plan` proposes | PROPOSE |

`reviewed` remembers whether the last write was decided REVIEW. An accepted proposal becomes
the next contract, so a PROPOSE step stands for the proposal and its acceptance;
`ReleaseFlow` has what lies between the two.
Abstracted: `about` stands for every descriptive field; of a named quality rule its name, of
an unnamed one how often it is there; `clash` stands for two entities of one identity, whose
contents nothing reads; array items and deeper fields behave as nested fields. Left out: root
fields other than id, version and status, tags and the removed flag (metadata that changes
no bump), enumerations, and structural fields no policy judges.

### `ProposalHistory`

`record_proposal` writes a proposal as five artifacts, the link last, and
`EvolutionChainService.reconstruct` reads them back reference by reference. One put is
`ImmutableHistory`'s, which `HistoryLedger` implements: here it is `Publish`, then `Seal`, and
a caller may `Crash` between any two of the ten steps.

| Action | Code |
|---|---|
| `Begin`, `Publish`, `Seal`, `SealLink`, `Raise` | `ProposalHistoryService.record_proposal` and the puts it makes |
| `Inspect` | the storage-level inspection `check_contract` starts with |
| `ListChangeSets`, `ListReleases`, `NextProposal`, `ResolveRevision`, `ListLinks`, `ResolveDecision` | `reconstruct`: each listing and each lookup at a time of its own |
| `Report`, `EndCheck`, `RaiseCorruption` | `check_contract`: the report, and the corruption error that ends a walk |
| `PutAlone` | others who put artifacts through the repository ports |
| `Edit`, `Lose` | files that are edited or disappear |

Abstracted: revision, change-set and release ids cover their content, decision ids do not
cover messages; the inspection reads at one instant; change sets are walked in any order, as
they are ordered by hashes; the read models of a walk are not kept, only its issues and what
they are drawn from. That a decision was computed for the revisions it is linked with is
checked only as far as its contract and its changes go, so that is all `Valid` says.

### `PullRequests`

`create_update_pr` and `create_pull_request` of both hosts. A commit is its tree, a branch a
sequence of commits; `git`, the host and its command line tools are external, with the
effects the code relies on.

| Action | Code |
|---|---|
| `CreateUpdatePr`, `CreatePullRequest` | a call begins |
| `Checkout`, `CheckoutNew`, `Add`, `Status`, `CommitStaged`, `PushBranch` | `_ensure_branch` (switch, else create), `commit_updated_contracts` (`git add`, what is changed, commit), push |
| `Answer`, `AddReviewers`, `Remember`, `Forget` | the chain of methods, cached first, and the cache in `git config` |
| `GitFails`, `GitKilled` | a command fails, or dies and may leave `index.lock` |
| `RequestFails`, `Dies` | the host fails, or accepts without an answer; the process is killed |
| `Edit`, `GoTo`, `Merge`, `Close`, `PushElse`, `Rotate` | people: files, branches, requests, credentials |

Abstracted: one call at a time works in a clone; the clone does not fetch, and nobody pulls
in it; an edit is a higher number. The CI gate in front of the call is `Lifecycle`'s, the
audit record after it is not modelled.

### `DeploymentHandover`

Where and what a deployment runs. `Assess` resolves a location from a contract
(`resolve_runtime_location`), builds a client with the contract's host as its hint, and goes
on to `Review` and `Write` the bundle's file; `Deploy` reads the file, applies the gate to
it, builds a client from its own job's environment, takes a `Preview`, and executes. `Edit`
and `Reconfigure` change the contract and a job's environment in between. A release comes
from the ledger or as a file (`--release`), of which only its own consistency is asked, so
`AssessRelease` takes any revision of the contract. `Ready` is `semapact doctor` on the same contract. What the SDK makes of a hint is
an arbitrary function of the environment, as a profile may outweigh the hint.
Abstracted: a command that raises before its client exists changes nothing and is not a step;
servers that are equal in every modelled field are one; assess and
deploy observe what is `Readable`, where a table or schema that is not found is absent
evidence, as in `Deployment`, and doctor asks for a schema that is `Present`; of doctor's checks the client's and
the schema's are kept, the others only make READY rarer; the statements of an execution are
`Deployment`'s.

## 4. Runs

Every passing run explores its instance completely. "One" and "two" below are bounds.

| Run | Instance | Shows |
|---|---|---|
| `HistoryLedger` | two writers, fair; two decisions with one id and a release; crashes anywhere | `AckedDurable`, `NothingTorn`, `RefusalJustified`, `InspectionSound`, `FilesImmutable`, `PutEnds`, and the refinement `ImplementsImmutableHistory` |
| `HistoryLedgerEdited` | one writer, the two decisions and two releases of one version, one edit per id | `TamperingDetected`: an altered record is never served, and is reported; `OneAckedReleasePerVersion`, even after the first release became unreadable |
| `HistoryLedgerRace` | two writers, two releases of one version | violates `OneReleasePerVersion` |
| `ReleaseFlow` | one finalizer, fair repetition; an ALLOW, a REVIEW (retirement) and a BLOCK change; two bundles, two reviews of any shape | `ReleasesAuthorized`, `RejectionHonoured`, `VersionIdentifiesContent`, `TornIsUnfinished`, `ReleaseMaterializes` |
| `ReleaseFlowRace` | two finalizers, two bundles, one review, an ALLOW, a minor and a major change, either version authority at each assessment, Git tags at, above and short of every bump | `Lineage`, `BumpsAccumulate` |
| `SchemaConvergence` | all contracts, namings and tables over two columns, two types, three spellings | `PlanConverges`, `PlannerAgreesWithVerifier` |
| `DeploymentFaults` | one job, two releases and a candidate in any order, one fault, one outside change, unmanaged and mismatched tables, missing evidence | `InSyncDelivered`, `TagsTruthful`, `AdditiveOnly` with statements landing late, and `ReleaseProjected` when nothing failed |
| `DeploymentRetry` | two jobs, two tables, one release, one fault, repetition | `RetryConverges` |
| `ContractEvolution` | a table, a column and a nested field; six sources, two dates, edits of every entity, up to two copies of an unnamed rule | `ChangesAreDecided`, `UnattendedKeepsInterface`, `RetiredIsFinal`, `BreaksAreMajor`, `DeprecationSticks`, `ImportSettles` |
| `ProposalHistory` | two callers and a checker; two decisions of one id, a change set with a revision of another contract and a release put alone, one editable and one losable file | `LinksGrounded`, `AckedProposalKept`, `CleanReportIsTraceable`, `AlarmsAreOutside` |
| `PullRequests` | one branch, a tracked and a new file, each changed or not; one edit during the run, one fault, one intervention | `AckedCarriesChange`, `GivesUpLast`, `RetryDelivers` |
| `DeploymentHandover` | two jobs with either of two environments, two workspaces in three spellings, three revisions of the contract, edited, assessed and released in any order | `OnlyWhereAssessed`, `ReadyIsAssessable` |

Why the bounds are enough: every race in the ledger is between two puts of one id or of one
version, and a third writer meets the same file contents; in the release flow a violation
needs a bundle, another it is confused with, and a review or a tag; between jobs the shared
state is a table and its tags, so two jobs and one lost statement give every order of a
check and another's write, and two tables give partial results. The safety of two jobs with
different releases is not a run of its own: `ReportsTrue`, `TagsTrue` and
`DeploymentAdditive` prove it for any number of jobs. Nor is the order of versions, which
needs three releases, one of them assessed from an older base: `VersionsTellContent` proves it. In a contract every rule looks at one
entity and those above it, so one path of the tree has every case; two copies of an unnamed
rule are one more than change detection can tell from one. In the proposal history the races
are between one caller's chain and a walk, and between two chains that share artifacts; every
reason for an issue is in the instance. In `PullRequests` one fault leaves each half-made
state, and the retry meets it with one change by people on top; the properties speak of
one branch and one file at a time. In the hand-over two jobs are a bundle's writer and its
reader, and each may also overwrite the other's. Where a theorem exists the bound does not
matter: of every property here but the liveness properties there is one (section 5), and what
a run shows for one writer, finalizer or job is then proved for as many as do not overlap.

The type invariants are theorems (section 5) and are not listed in the runs.

Symmetry is declared where values are only compared for equality: finalizers, callers, jobs
and effective dates, and never in a run with a liveness property.

Deadlock is checked except in `SchemaConvergence` (a converged table has nothing to do) and
the two repetition runs (an operator whose deployments returned in sync stops).

### Fairness

`HistoryLedger` assumes that a running process goes on (weak fairness of a writer's steps; a
put has no lock to wait for); a crash ends the put and with it the obligation. `ReleaseFlow`
assumes that commands go on, that the pipeline repeats a finalization the ledger has, the
file has not and the evidence still allows, and that from some point on commands are not
killed. `PersistSpec` assumes that a job's own calls go on and that
the operator deploys again until a deployment returns IN_SYNC; faults are bounded by
`MaxFaults`, and nothing is assumed of lost statements. Only one release is repeated there:
after another release added columns, an older one is never in sync again and never ends.
`PullRequests` assumes that commands and requests return, which the code does not enforce for
command line tools (they have no timeout), and that a call that raised is made again. What
no repetition gets past is spelled out in `Stuck`: section 6 has the cases.

## 5. Proofs

TLAPS checks these for all values of the constants under the named assumptions, which TLC
evaluates on every instance (`LedgerAssumption`, `ReleaseIdentity`, `ReleaseFlowAssumption`,
`TornIsNoContract`, `SchemaAssumption`, `DeploymentAssumption`, `TreeAssumption`,
`NullAssumption`, `PhysicalAssumption`, `MergeAssumption`, `EvolutionAssumption`,
`KindsAssumption`, `ReferencesAssumption`, `PullRequestAssumption`, `HandoverAssumption`).

- `HistoryLedgerProofs`: `TypeCorrect`, `PublishedFilesImmutable`, `AckedPutsDurable`,
  `NoTornFiles`, `RefusalsJustified`, and `LedgerImplementsHistory`, for any number of
  writers. The inductive invariant adds to the properties what each phase of a put knows: a
  writer about to link holds its complete record, one past the re-read holds the text of an
  artifact that can no longer change, a listed file stays there. The refinement is proved for
  `Tamperable = {}`: outside edits are not part of the promise.
  `EditsDetected` rests on `EditsShow`, that the artifact and the sidecar of an
  edited id disagree, and `InspectionNeverAccuses` on `SealFollows`, that an artifact without its sidecar
  has a put under way or one that died.
  `OneStoredReleasePerVersion` and `OneReleaseAckedPerVersion` are what is left of the claim
  `HistoryLedgerRace` refutes: they hold if no two writers are between listing the
  releases and publishing with different releases of one version (`OneClaimPerVersion`),
  which the code leaves to whoever schedules it. `SlotInv` says why: past its check a put has either seen every stored release of its
  version or has no rival. `SingleWriterOneRelease` needs no schedule.
- `ReleaseFlowProofs`: `ReleaseFlowTypeCorrect`, `ReviewedReleasesApproved`,
  `RejectionsHonoured`, `ReleasesFormLineage`, `BumpsOfAllChanges`. `ReleaseInv` says of every
  running command that what it carries past `Resolve` authorizes its bundle, and that it
  writes the file only when its bundle is a release; bundles and reviews only grow, so
  evidence is never lost. For rejections it adds that a closed bundle is finalized only with
  its conflict still ahead of it.
  `VersionsIdentifyContent` holds if no two commands are between listing the releases and
  publishing with different bundles of one version (`OnePublicationPerVersion`), `TornFilesAreUnfinished` if no two are
  between the truncation and the write (`OneRewriter`), and `OneFinalizerIsOrderly` says that
  one finalizer meets both.
  `BumpsOfAllChanges` carries the bumps of all changes along the lineage: a base is a released
  content, and a bump of a bump is at least as far as either (`BumpsCompose`).
  `VersionsTellContent` (`VersionsOrderContent`) is for SemaPact's authority (`Tags = {}`) under
  `OnePublicationPerVersion`. Its invariant says what a version counts (`Counted`): the major
  part the major changes, the minor part the minor ones since the release that raised the
  major part, the patch part all changes since the one that raised the minor part. As no
  version is released twice, releases that share the first parts count from the same release
  (`OneAnchor`), so more content is a larger count (`CountsOrder`).
- `SchemaConvergenceProofs`: `OneOperationConverges`, `PlansConverge`,
  `PlannerAndVerifierAgree`, for any columns, types, namings and capability rules. Renaming
  columns by a one-to-one naming keeps every difference (`SameDifferences`), so comparing
  logical and comparing physical names finds the same.
- `DeploymentProofs`: `DeploymentTypeOK`, `DeploymentAdditive`, `ReportsTrue`, `TagsTrue`, for
  any number of jobs, tables, plans and faults. The
  argument is growth: every statement, late or not, only extends its table, and what a
  verifier has seen of a table is still there when it comes to the last one. So
  `DeploymentInv` says that observations of the verify phase are extended by the current
  tables, that jobs writing tags are of releases that were delivered, and that a lost tag
  statement is one of a delivered release; all of it only outside `drifted` tables.
  `ReleasesAreProjected` is for one job: with two, the loop of one can undo what the loop of
  the other has done. `ProjectionInv` follows the loop: what it has come past is tagged.
- `ContractEvolutionProofs`: `TypeCorrect`, `EveryChangeIsDecided`, `RetiredContractsFinal`,
  `UnattendedStepsKeepInterface`, `BreakingChangesAreMajor`, `DeprecationIsKept`,
  `ImportsSettle`, for any tree, sources and edits. Every action is a `Govern` step
  (`EveryStepGoverned`), so the first step of each argument is about an arbitrary candidate:
  if the verdict is ALLOW, no change of structure, relationships or rules was reported
  (`AllowMeans`), and then there is none (`VerdictSeesInterface`); a break of an active
  entity is among the changes the policy judges, at any depth, since a nested field cannot be
  active in a column that is not (`GuardedInside`, `BreaksAreSeen`).
  `BreakingChangesAreMajor` assumes initial contracts without clashing identities and proves
  that they stay so (`ClearStays`): with a clash in the base the code sees no changes at all.
  `ImportsSettle` goes through a merge field by field (`MergedOnce`): what the source gives
  is there after one merge, or was kept for a reason that is there again.
- `ProposalHistoryProofs`: `LinksAreGrounded`, `AckedProposalsAreKept`,
  `CleanReportsAreTraceable`, `AlarmsComeFromOutside`, for any callers, checkers, artifacts
  and references. The invariant follows the evidence: what a call put stays kept (present
  and sealed, or lost since), so a stored change set or link of the service is grounded; a
  walk that met one while it was stored keeps that grounding, and each of its issues, or the
  absence of one, is drawn from it.
- `PullRequestsProofs`: `PullRequestTypes`, `AckedRequestsCarryChange`, `MethodsAreExhausted`,
  for any branches, files, faults and interventions. `RequestInv` follows the changes a call
  is to deliver (`Wanted`, `Arrived`): they are in the working tree, which switching branches
  leaves as it is, then in the index and at the tip of the call's branch, and from the push
  on in a commit the host has, which may have moved to main if the branch was merged and
  deleted meanwhile; and a request is not accepted for a branch that is gone. And it follows
  the methods (`Untried`): unless the host refused or lost a request, every method that
  worked all along is still to be tried.
- `DeploymentHandoverProofs`: `HandoverTypes`, `ExecutionStaysWhereAssessed`,
  `ReadinessAgrees`, for any environments and any behaviour of the
  SDK. A bundle enters a job with its location taken from the contract it carries (`Drawn`),
  reaches the file only after an observation from the source it names (`Reviewed`), and
  runs only after another one: both are of the workspace the bundle names.

Only model-checked: liveness (`PutEnds`, `ReleaseMaterializes`, `RetryConverges`,
`RetryDelivers`), which is out of the prover's reach, and the counterexample of
`HistoryLedgerRace`. `DecisionsOfChanges`, which ties the verdicts `ReleaseFlow` takes as
given to `Lifecycle`'s, is evaluated for the instances' changes.

## 6. Findings

| Run | What the code does | What it says |
|---|---|---|
| `HistoryLedgerRace` | two concurrent puts of different releases of one version both succeed; afterwards reading the version fails | the put raises "A different ContractRelease already exists for" |

More disagreements are excluded from properties rather than shown by a run of their own.

In the release workflow and the comparison:

- `docs/version_authority.md:96` has versions selected "from that contract's current released
  ODCS version". The version is computed when the bundle is assessed
  (`application/services/version_authority.py:49`) and nothing compares it at finalization:
  of two bundles assessed from one base, the second is released with a version at or below
  the first one's and without its change. `Lineage` is about what bases hold, not about the
  order of releases, and `VersionsOrderContent` compares releases of which one has all the
  changes of the other.
- `docs/approval_history.md:134` says of conflicting exact evidence that "finalization fails
  closed". For an ALLOW bundle the resolver is asked only when an approval was given
  (`interfaces/commands/release_cmd.py:79`), so a recorded rejection of an ALLOW bundle does not
  stop it. `RejectionHonoured` is about bundles that need a review.
- `docs/deployment_plans.md:95` says "Schema projection is also shared." The reconciliation
  service compares declared types (`application/services/reconciliation.py:59`), verification
  compiled ones: a declared type whose compiled spelling differs is drift for one and in
  sync for the other.
- Verification compares logical column names and the planner physical ones, so a foreign
  column with a governed column's logical name separates the two, although
  `docs/deployment_plans.md` has both consume the same facts; `PlannerAgreesWithVerifier` is
  stated for tables without such an alias (`Unaliased`).
- `deploy` raises after a deployment that succeeded when its event cannot be stored
  (`SinkFails`), although the docstring of `_record_operational_event` says telemetry does not
  influence execution; the repetition then finds everything done.

In `ContractEvolution`:

- A rule without a name is appended at every merge (`_combine_quality_rules_models`), although
  the comment above its call says quality "must be merged by rule identity". Change detection
  knows such a rule by its id or text, if it has one, so the duplicates are no change and the
  pipeline writes them as ALLOW. `ImportSettles` is stated for sources without such rules and
  `Interface` has which rules there are, not how often.
- When a base with clashing identities is repaired and nothing else asks for a review, the
  decision would be ALLOW with an invalid policy, which `GovernanceDecision` refuses with a
  `ValueError` (`"raises"` in `Evaluate`; `ChangesAreDecided` shows that nothing else ends like
  that); `docs/lifecycle_semantics.md:75` says the
  separation of validation and analysis "prevents malformed input from crashing analysis".
- A contract that is deprecated accepts the removal of a column as a minor change, and the
  lifecycle command promotes it to active again without review. `BreaksAreMajor` is about
  what is active before the step, as the participation matrix has it.
- A governed contract without a status adopts the status of the source at its first merge;
  `ImportSettles` excludes that first one.

In `ProposalHistory`: a release recorded after a walk has listed the change sets is reported
as not found, as the walk reads what refers before what is referred to only for proposals;
`AlarmsAreOutside` says nothing of issues whose source is a release.

In `PullRequests`, what `RetryDelivers` excludes as `Stuck`:

- A killed `git` leaves `index.lock`, which every later call stumbles over; a branch others
  have pushed to cannot be pushed, since the clone never fetches; a branch cannot be switched
  to over local changes it would overwrite.
- After the change is committed but not pushed, any other changed file makes the next call
  attempt a commit of nothing, which raises before the push.
- The host refuses a request for a branch that has an open one, so every update of an open
  pull request raises, although the push before it updated the request.
- `git add -u` does not see a new contract file, so a new contract has to be named. Without
  `push` a request is asked for a branch the host has not seen. A new branch starts from
  whatever is checked out; no property covers what else it then carries.

In `ReleaseFlow`: the evidence of a reviewed bundle is read before the release is put, so a
rejection recorded in between is not seen (`RejectionHonoured` is about rejections recorded
while nobody finalizes the bundle). A finalization that died after its put can only be
repeated with the stored bundle: a bundle assessed anew from another revision has the same
version and another id, and is refused for ever.

In `DeploymentHandover`: doctor promises to "Check the exact prerequisites used by SemaPact's
Databricks deployment path" (`platforms/databricks/readiness.py:18`) but does not compare the
host's text. A contract server whose host is written without a scheme, with a trailing
slash, or not at all is READY, and yet every assess of it is refused, since the observation
reports the client's own spelling and it is compared with the contract's as written;
`ReadyIsAssessable` is stated for hosts in the reported spelling.

## 7. Not modelled

What is planned is in section 2. Of modelled components: the reasons and the id of a
governance decision, the read models of a history walk, the names of tables in a target
schema, the audit record of a pull request, reconciliation's reason codes. Left out for good: YAML loading, schema validation and
normalisation, importers, exporters, quality suites, lineage and the enrichment (conversions
of text, no state of their own, no interaction), the terminal editor and the command line
(one file in memory; wording), client construction and SDK payload parsing, and the contents
of stores and events. `PROJECT.json` names every component with its status and reason.

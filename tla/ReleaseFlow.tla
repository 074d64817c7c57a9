---------------------------- MODULE ReleaseFlow ----------------------------
(***************************************************************************)
(* The formal release of one contract: assess -> approve -> finalize       *)
(* (interfaces/commands/release_cmd.py, release_workflow.py and            *)
(* release_approval.py of application/services, contractops).              *)
(*                                                                         *)
(* Assessing reads the contract file and freezes a ReleaseBundle; people   *)
(* record review events about it, in any order and of any shape; finalize  *)
(* commands, run by CI jobs that may overlap, die or be repeated, check    *)
(* the review evidence, put the ContractRelease into the ledger and        *)
(* rewrite the contract file.  The ledger is the write-once history that   *)
(* HistoryLedger implements: here a put is the listing and the publishing, *)
(* the two steps other processes can come between.                         *)
(*                                                                         *)
(* Every artifact id is a digest of the artifact's content, so a bundle is *)
(* its own identity, and the ContractRelease built from a bundle is        *)
(* represented by that bundle.                                             *)
(***************************************************************************)
EXTENDS Versioning, FiniteSets

CONSTANTS
  Finalizers,  \* processes running "release finalize"
  Changes,     \* proposed changes of the contract
  Bump,        \* [Changes -> RequiredBump], as governance classifies them
  Verdict,     \* [Changes -> {"ALLOW", "REVIEW", "BLOCK"}]
  Retiring,    \* the changes that retire the contract
  Revisions,   \* candidate revision references (Git commits)
  Tags,        \* release tags of the repository, for the Git version authority
  First,       \* version of the contract before its first release
  MaxReviews,  \* bound: ApprovalRecords ever recorded
  MaxBundles,  \* bound: bundles ever assessed
  None,        \* no ApprovalRecord, no scope
  Torn         \* a contract file cut off in the middle of a rewrite

\* _determine_decision: a change that needs a minor or major bump, or retires
\* the contract, is at least reviewed.
ASSUME ReleaseFlowAssumption ==
  /\ Bump \in [Changes -> RequiredBump]
  /\ Verdict \in [Changes -> {"ALLOW", "REVIEW", "BLOCK"}]
  /\ \A c \in Changes : Verdict[c] = "ALLOW" => Bump[c] = "none"
  /\ Retiring \subseteq {c \in Changes : Verdict[c] # "ALLOW"}
  /\ Tags \subseteq Version
  /\ First \in Version
  /\ MaxReviews \in Nat /\ MaxBundles \in Nat

VARIABLES
  contract,     \* the contract file: a Contract, or Torn
  bundles,      \* ReleaseBundle artifacts
  approvals,    \* ApprovalRecords in the ledger
  handed,       \* ApprovalRecord artifacts handed over as files
  releases,     \* ContractReleases in the ledger
  finalizer,    \* the command each finalizer is executing
  materialized, \* history: bundles whose latest write of the contract file ended
  closed        \* history: bundles rejected while nothing was finalizing them

vars == <<contract, bundles, approvals, handed, releases, finalizer,
          materialized, closed>>

Contract == [version : Version, content : SUBSET Changes]

\* What is left of the file by a write cut off is not taken for a contract.
ASSUME TornIsNoContract == Torn \notin Contract

\* The candidate is the base with one change made.
Bundle == [base : Contract, change : Changes, revision : Revisions, version : Version]

ApprovalRecord ==
  [about : Bundle,                 \* decision, ChangeSet, plan and resolution ids
   action : {"APPROVE", "REJECT"}, \* REQUEST_CHANGES counts as REJECT
   scope : Bundle \cup {None},     \* the ReleaseSnapshot
   evidence : Bundle \cup {None}]  \* the ReleaseBundle digest

\* Defect: the release keeps the version of its base.
ReleasedUnversioned(b) ==
  [version |-> b.base.version, content |-> b.base.content \cup {b.change}]

\* to_contract() of the bundle's ReleaseSnapshot.
Released(b) == [version |-> b.version, content |-> b.base.content \cup {b.change}]

Idle == [phase |-> "idle"]
Command == [phase : {"resolve", "scan", "publish", "truncate", "write"},
            bundle : Bundle,
            approval : ApprovalRecord \cup {None}]

TypeOK ==
  /\ contract \in Contract \cup {Torn}
  /\ bundles \subseteq Bundle
  /\ approvals \subseteq ApprovalRecord
  /\ handed \subseteq ApprovalRecord
  /\ releases \subseteq bundles
  /\ finalizer \in [Finalizers -> Command \cup {Idle}]
  /\ materialized \subseteq releases
  /\ closed \subseteq bundles

Init ==
  /\ contract = [version |-> First, content |-> {}]
  /\ bundles = {} /\ approvals = {} /\ handed = {} /\ releases = {}
  /\ finalizer = [f \in Finalizers |-> Idle]
  /\ materialized = {} /\ closed = {}

----------------------------------------------------------------------------
(* Review evidence.                                                        *)

\* evaluate_governance_gate for PUBLISH.
Gate == [ALLOW |-> "allowed", REVIEW |-> "review_required", BLOCK |-> "blocked"]

\* The record names this bundle's context, its snapshot and its digest.
Exact(a, b) == a.about = b /\ a.scope = b /\ a.evidence = b

ScopedRecords(b) == {a \in approvals : Exact(a, b)}

\* Defect: one approval outweighs the rejections.
NoApproval(b) ==
  ScopedRecords(b) # {} /\ \A a \in ScopedRecords(b) : a.action # "APPROVE"

HasConflict(b) == \E a \in ScopedRecords(b) : a.action # "APPROVE"

\* ReleaseApprovalResolver.resolve; which approval is picked does not matter.
Resolvable(b) ==
  IF ScopedRecords(b) = {} \/ HasConflict(b) THEN {None} ELSE ScopedRecords(b)

\* Defect: the approval need not name the bundle's digest.
AuthorizedWithoutDigest(b, a) ==
  \/ Gate[Verdict[b.change]] = "allowed" /\ a = None
  \/ /\ Gate[Verdict[b.change]] = "review_required"
     /\ a # None /\ a.scope = b /\ a.about = b /\ a.action = "APPROVE"

\* ReleaseFinalizer.finalize raises nothing, and authorize_contract_operation
\* allows PUBLISH.
Authorized(b, a) ==
  \/ Gate[Verdict[b.change]] = "allowed" /\ a = None
  \/ /\ Gate[Verdict[b.change]] = "review_required"
     /\ a # None
     /\ a.scope = b
     /\ a.evidence = b
     /\ a.about = b
     /\ a.action = "APPROVE"

----------------------------------------------------------------------------
(* Assessing and reviewing.                                                *)

\* load_config: each command reads its version authority from configuration or
\* environment, SemaPact (no tags) or Git.
Authorities == {{}, Tags}

\* run_release_assess: the contract file is the base, the candidate carries
\* its version; a blocked change cannot be planned, nor one already there, nor
\* any change of a retired contract, which governance blocks.
Assess(c, rev) ==
  /\ contract # Torn
  /\ Verdict[c] # "BLOCK"
  /\ c \notin contract.content
  /\ contract.content \cap Retiring = {}
  /\ Cardinality(bundles) < MaxBundles
  /\ \E tags \in Authorities : \E v \in SelectableVersions(contract.version, Bump[c], tags) :
       bundles' = bundles \cup
         {[base |-> contract, change |-> c, revision |-> rev, version |-> v]}
  /\ UNCHANGED <<contract, approvals, handed, releases, finalizer, materialized, closed>>

Finalizing(b) == \E f \in Finalizers : finalizer[f].phase # "idle" /\ finalizer[f].bundle = b

RecordInLedger(a) ==
  /\ approvals' = approvals \cup {a}
  /\ closed' = IF /\ Exact(a, a.about) /\ a.action # "APPROVE"
                  /\ a.about \notin releases /\ ~Finalizing(a.about)
               THEN closed \cup {a.about} ELSE closed

ReviewsLeft == Cardinality(approvals \cup handed) < MaxReviews

\* run_release_approve: exact approval of a REVIEW bundle, into the ledger
\* and then, unless the command dies or no file is asked for, into a file.
Approve(b) ==
  /\ ReviewsLeft
  /\ Verdict[b.change] = "REVIEW"
  /\ LET a == [about |-> b, action |-> "APPROVE", scope |-> b, evidence |-> b]
     IN /\ RecordInLedger(a)
        /\ handed' \in {handed, handed \cup {a}}
  /\ UNCHANGED <<contract, bundles, releases, finalizer, materialized>>

\* run_approval_record: a review event as CI describes it, with or without
\* scope and evidence, which may be another bundle's.  Its output handed over
\* as a file may come from a job whose ledger this working tree never sees.
Record(a, seen) ==
  /\ ReviewsLeft
  /\ IF seen THEN RecordInLedger(a) ELSE UNCHANGED <<approvals, closed>>
  /\ handed' = handed \cup {a}
  /\ UNCHANGED <<contract, bundles, releases, finalizer, materialized>>

----------------------------------------------------------------------------
(* Finalizing.                                                             *)

In(f, phase) == finalizer[f].phase = phase
Goto(f, phase) == finalizer' = [finalizer EXCEPT ![f].phase = phase]
Raise(f) == finalizer' = [finalizer EXCEPT ![f] = Idle]

\* run_release_finalize [--approval a]: the bundle and the file are loaded.
Start(f, b, a) ==
  /\ In(f, "idle")
  /\ finalizer' = [finalizer EXCEPT ![f] =
                     [phase |-> "resolve", bundle |-> b, approval |-> a]]
  /\ UNCHANGED <<contract, bundles, approvals, handed, releases, materialized, closed>>

\* With a file the ledger only vetoes; without one, a REVIEW is resolved from
\* the ledger; an ALLOW without a file does not look at the ledger.
Resolve(f) ==
  /\ In(f, "resolve")
  /\ LET b == finalizer[f].bundle
         file == finalizer[f].approval
     IN \/ file # None /\ HasConflict(b) /\ Raise(f)
        \/ /\ file = None \/ ~HasConflict(b)
           /\ \E a \in IF file = None /\ Verdict[b.change] = "REVIEW"
                       THEN Resolvable(b) ELSE {file} :
                \/ /\ Authorized(b, a)
                   /\ finalizer' = [finalizer EXCEPT ![f].phase = "scan",
                                                     ![f].approval = a]
                \/ ~Authorized(b, a) /\ Raise(f)
  /\ UNCHANGED <<contract, bundles, approvals, handed, releases, materialized, closed>>

\* Defects: no look for other releases of the version; the release itself is
\* in its own way; the contract file is rewritten before the ledger.
ScanNothing(f) ==
  /\ In(f, "scan")
  /\ Goto(f, "publish")
  /\ UNCHANGED <<contract, bundles, approvals, handed, releases, materialized, closed>>

ScanWithItself(f) ==
  /\ In(f, "scan")
  /\ IF \E r \in releases : r.version = finalizer[f].bundle.version
     THEN Raise(f) ELSE Goto(f, "publish")
  /\ UNCHANGED <<contract, bundles, approvals, handed, releases, materialized, closed>>

FileBeforeLedger(f) ==
  /\ In(f, "scan")
  /\ LET b == finalizer[f].bundle IN
       IF \E r \in releases : r.version = b.version /\ r # b
       THEN Raise(f) ELSE Goto(f, "truncate")
  /\ UNCHANGED <<contract, bundles, approvals, handed, releases, materialized, closed>>

\* put_contract_release, the listing: a different release of the version?
ScanReleases(f) ==
  /\ In(f, "scan")
  /\ LET b == finalizer[f].bundle IN
       IF \E r \in releases : r.version = b.version /\ r # b
       THEN Raise(f) ELSE Goto(f, "publish")
  /\ UNCHANGED <<contract, bundles, approvals, handed, releases, materialized, closed>>

\* _put: created, or found there with the same content.
Publish(f) ==
  /\ In(f, "publish")
  /\ releases' = releases \cup {finalizer[f].bundle}
  /\ Goto(f, "truncate")
  /\ UNCHANGED <<contract, bundles, approvals, handed, materialized, closed>>

\* dump_yaml: write_text truncates the contract file ...
TruncateContract(f) ==
  /\ In(f, "truncate")
  /\ contract' = Torn
  /\ materialized' = materialized \ {finalizer[f].bundle}
  /\ Goto(f, "write")
  /\ UNCHANGED <<bundles, approvals, handed, releases, closed>>

\* ... and writes over whatever it holds by then: after another command's
\* write the shorter text may leave the tail of the longer one.
WriteContract(f) ==
  /\ In(f, "write")
  /\ contract' \in {Released(finalizer[f].bundle)}
       \cup (IF contract \in {Torn, Released(finalizer[f].bundle)} THEN {} ELSE {Torn})
  /\ materialized' = materialized \cup {finalizer[f].bundle}
  /\ finalizer' = [finalizer EXCEPT ![f] = Idle]
  /\ UNCHANGED <<bundles, approvals, handed, releases, closed>>

Crash(f) ==
  /\ ~In(f, "idle")
  /\ finalizer' = [finalizer EXCEPT ![f] = Idle]
  /\ UNCHANGED <<contract, bundles, approvals, handed, releases, materialized, closed>>

Step(f) ==
  \/ Resolve(f) \/ ScanReleases(f) \/ Publish(f)
  \/ TruncateContract(f) \/ WriteContract(f)

Next ==
  \/ \E c \in Changes, rev \in Revisions : Assess(c, rev)
  \/ \E b \in bundles : Approve(b)
  \/ \E about \in bundles, action \in {"APPROVE", "REJECT"},
        scope, evidence \in bundles \cup {None}, seen \in BOOLEAN :
       Record([about |-> about, action |-> action, scope |-> scope,
               evidence |-> evidence], seen)
  \/ \E f \in Finalizers :
       \/ \E b \in bundles, a \in handed \cup {None} : Start(f, b, a)
       \/ Step(f)
       \/ Crash(f)

Spec == Init /\ [][Next]_vars

\* Evidence that lets b be finalized.
Sufficient(b, a) ==
  /\ a # None => ~HasConflict(b)
  /\ IF a = None /\ Verdict[b.change] = "REVIEW"
     THEN \E r \in Resolvable(b) : Authorized(b, r)
     ELSE Authorized(b, a)

\* Whoever operates the pipeline repeats a finalization that reached the
\* ledger but not the contract file.
Retry(f) ==
  \E b \in releases \ materialized, a \in handed \cup {None} :
    Sufficient(b, a) /\ Start(f, b, a)

\* A running command goes on; a finalization that died is repeated; and the
\* machines do not kill the commands for ever (a command that raises where it
\* is killed is not told from one that is killed: both are then harmless).
FairSpec ==
  /\ Spec
  /\ \A f \in Finalizers : /\ WF_vars(Step(f)) /\ SF_vars(Retry(f))
                           /\ <>[][Crash(f) => Step(f)]_vars
----------------------------------------------------------------------------
(* Properties.                                                             *)

Reviewed(b) == Verdict[b.change] = "REVIEW"

\* A release that needed review rests on an approval of exactly that bundle,
\* in the ledger or in the file handed over: an approval of another bundle, a
\* record without scope or digest, or a rejection never releases anything,
\* and nothing blocked is released (ReleaseFinalizer.finalize).
ReleasesAuthorized ==
  \A b \in releases :
    /\ Verdict[b.change] # "BLOCK"
    /\ Reviewed(b) => \E a \in approvals \cup handed :
                        Exact(a, b) /\ a.action = "APPROVE"

\* Once the ledger holds an exact rejection of a reviewed bundle nobody is
\* finalizing, the bundle is never released, whatever approvals are recorded
\* or handed over later: there is no "latest review wins".
RejectionHonoured == \A b \in closed : Reviewed(b) => b \notin releases

\* Releases form a lineage from the first version: the contract file only ever
\* holds what the ledger released (the ledger is written before the file, and
\* nothing else writes the file), so what is assessed, and then released, is
\* based on released content, whatever crashed in between.
Lineage ==
  LET Known == {[version |-> First, content |-> {}]} \cup {Released(r) : r \in releases}
  IN /\ contract \in Known \cup {Torn}
     /\ \A b \in bundles : b.base \in Known

\* A command that dies in the middle of rewriting the contract file leaves a
\* release in the ledger whose finalization rewrites it: a torn file never
\* outlives the knowledge of what it should hold.  (One finalizer: two that
\* overlap can both return normally and leave a mixture.)
TornIsUnfinished == contract = Torn => releases \ materialized # {}

\* However many releases lie between, a released version moves from the first
\* one at least as far as each of the changes made on the way requires: no crash,
\* stale base or torn file lets a release count from a version that does not
\* have the changes its content has, under either version authority.
BumpsAccumulate ==
  \A b \in releases :
    /\ Exceeds(b.version, First)
    /\ \A c \in Released(b).content :
         BumpSatisfies(ClassifyBump(First, b.version), Bump[c])

\* SemaPact's versions tell what a release contains, also when bundles are
\* assessed from one base and released in any order: a release with all the
\* changes of another has a higher version, by as much as the further ones
\* require.  (Proved for the SemaPact authority, see VersionsTellContent.)
VersionsOrderContent ==
  \A r, b \in {Released(s) : s \in releases} :
    r.content \subseteq b.content /\ r # b =>
      /\ Exceeds(b.version, r.version)
      /\ \A c \in b.content \ r.content :
           BumpSatisfies(ClassifyBump(r.version, b.version), Bump[c])

\* What the contract file holds under a released version is what was released
\* under that version.  (One finalizer: see OneReleasePerVersion for two.)
VersionIdentifiesContent ==
  contract # Torn =>
    \A r \in releases : contract.version = r.version => contract = Released(r)

\* A release that reached the ledger also reaches the contract file, however
\* often the command died in between, provided it is repeated: finding its own
\* release in the ledger is no conflict.  Only a rejection recorded after the
\* release can keep the repetition from finishing.
ReleaseMaterializes ==
  []<>(\A b \in releases : b \in materialized \/ (Reviewed(b) /\ HasConflict(b)))
=============================================================================

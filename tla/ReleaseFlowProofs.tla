------------------------- MODULE ReleaseFlowProofs -------------------------
(***************************************************************************)
(* What ReleaseFlow guarantees for any number of finalizers, changes,      *)
(* bundles, review records and release tags.                               *)
(*                                                                         *)
(* The argument follows a finalize command: once past Resolve it carries   *)
(* evidence that authorizes exactly its bundle (Commands), evidence is     *)
(* never taken back (Growth), so a release in the ledger keeps resting on  *)
(* it; a bundle with a recorded rejection is carried past Resolve by no    *)
(* command (Closure); and the file is only written from the ledger.        *)
(***************************************************************************)
EXTENDS ReleaseFlow, FiniteSetTheorems, TLAPS

Past == {"scan", "publish", "truncate", "write"}

Carries(f) ==
  /\ ~In(f, "idle") =>
       /\ finalizer[f].bundle \in bundles
       /\ finalizer[f].approval \in approvals \cup handed \cup {None}
  /\ finalizer[f].phase \in Past => Authorized(finalizer[f].bundle, finalizer[f].approval)
  /\ finalizer[f].phase \in {"truncate", "write"} => finalizer[f].bundle \in releases

Commands == \A f \in Finalizers : Carries(f)

\* A version as far from the first one as the content asks for.
Accumulated(version, content) ==
  /\ Exceeds(version, First)
  /\ \A c \in content : BumpSatisfies(ClassifyBump(First, version), Bump[c])

Accumulation == \A b \in bundles : Accumulated(b.version, b.base.content \cup {b.change})

Closure ==
  \A b \in closed :
    /\ HasConflict(b)
    /\ Reviewed(b) => /\ b \notin releases
                      /\ \A f \in Finalizers :
                           finalizer[f].phase \in Past => finalizer[f].bundle # b

ReleaseInv ==
  /\ TypeOK
  /\ Commands
  /\ ReleasesAuthorized
  /\ Lineage
  /\ Accumulation
  /\ Closure

----------------------------------------------------------------------------
(* Versions.                                                               *)

\* Whatever authority selects the version, it exceeds the current one and
\* moves as far as the change requires.
LEMMA SelectedVersion ==
  ASSUME NEW v \in Version, NEW required \in RequiredBump,
         NEW tags, tags \subseteq Version,
         NEW w \in SelectableVersions(v, required, tags)
  PROVE  /\ w \in Version
         /\ Exceeds(w, v)
         /\ BumpSatisfies(ClassifyBump(v, w), required)
<1>1. CASE tags = {}
  <2>1. w = SemapactVersion(v, required)
    BY <1>1 DEF SelectableVersions
  <2>2. v[1] \in Nat /\ v[2] \in Nat /\ v[3] \in Nat
    BY DEF Version
  <2>3. CASE required = "none"
    <3>1. w = <<v[1], v[2], v[3] + 1>>
      BY <2>1, <2>3 DEF SemapactVersion, IncrementVersion
    <3> QED
      BY <2>2, <2>3, <3>1 DEF Version, Exceeds, ClassifyBump, BumpSatisfies, VersionRank
  <2>4. CASE required = "minor"
    <3>1. w = <<v[1], v[2] + 1, 0>>
      BY <2>1, <2>4 DEF SemapactVersion, IncrementVersion
    <3> QED
      BY <2>2, <2>4, <3>1 DEF Version, Exceeds, ClassifyBump, BumpSatisfies, VersionRank
  <2>5. CASE required = "major"
    <3>1. w = <<v[1] + 1, 0, 0>>
      BY <2>1, <2>5 DEF SemapactVersion, IncrementVersion
    <3> QED
      BY <2>2, <2>5, <3>1 DEF Version, Exceeds, ClassifyBump, BumpSatisfies, VersionRank
  <2> QED
    BY <2>3, <2>4, <2>5 DEF RequiredBump
<1>2. CASE tags # {}
  BY <1>2 DEF SelectableVersions, GitAccepts
<1> QED
  BY <1>1, <1>2

\* Of two moves in a row each is contained in the sum.
LEMMA BumpsCompose ==
  ASSUME NEW u \in Version, NEW v \in Version, NEW w \in Version,
         Exceeds(v, u), Exceeds(w, v), NEW required \in RequiredBump
  PROVE  /\ Exceeds(w, u)
         /\ \/ BumpSatisfies(ClassifyBump(u, v), required)
            \/ BumpSatisfies(ClassifyBump(v, w), required)
            => BumpSatisfies(ClassifyBump(u, w), required)
<1>1. /\ u[1] \in Nat /\ u[2] \in Nat /\ u[3] \in Nat
      /\ v[1] \in Nat /\ v[2] \in Nat /\ v[3] \in Nat
      /\ w[1] \in Nat /\ w[2] \in Nat /\ w[3] \in Nat
  BY DEF Version
<1>2. Exceeds(w, u)
  BY <1>1 DEF Exceeds
<1>3. /\ ClassifyBump(u, v) \in ActualBump
      /\ ClassifyBump(v, w) \in ActualBump
      /\ ClassifyBump(u, w) \in ActualBump
  BY DEF ClassifyBump, ActualBump
<1>4. \A x \in {u, v} : ClassifyBump(x, w) = "major" <=> w[1] > x[1]
  BY DEF ClassifyBump
<1>5. ClassifyBump(u, v) = "major" <=> v[1] > u[1]
  BY DEF ClassifyBump
<1>6. ClassifyBump(u, v) = "major" \/ ClassifyBump(v, w) = "major"
      => ClassifyBump(u, w) = "major"
  BY <1>1, <1>4, <1>5 DEF Exceeds
<1>7. ASSUME ClassifyBump(u, w) = "patch"
      PROVE  ClassifyBump(u, v) = "patch" /\ ClassifyBump(v, w) = "patch"
  <2>1. ~(w[1] > u[1]) /\ ~(w[2] > u[2])
    BY <1>7 DEF ClassifyBump
  <2>2. /\ ~(v[1] > u[1]) /\ ~(v[2] > u[2])
        /\ ~(w[1] > v[1]) /\ ~(w[2] > v[2])
    BY <1>1, <2>1 DEF Exceeds
  <2> QED
    BY <2>2 DEF ClassifyBump
<1> QED
  BY <1>2, <1>3, <1>6, <1>7 DEF BumpSatisfies, VersionRank, ActualBump, RequiredBump

----------------------------------------------------------------------------
(* Nothing recorded is taken back.                                         *)

Growth ==
  /\ bundles \subseteq bundles'
  /\ approvals \subseteq approvals'
  /\ handed \subseteq handed'
  /\ releases \subseteq releases'
  /\ closed \subseteq closed'

LEMMA StepGrows == [Next]_vars => Growth
<1> SUFFICES ASSUME [Next]_vars PROVE Growth
  OBVIOUS
<1>1. ASSUME NEW c \in Changes, NEW rev \in Revisions, Assess(c, rev) PROVE Growth
  BY <1>1 DEF Assess, Growth
<1>2. ASSUME NEW b \in bundles, Approve(b) PROVE Growth
  BY <1>2 DEF Approve, RecordInLedger, Growth
<1>3. ASSUME NEW a, NEW seen, Record(a, seen) PROVE Growth
  BY <1>3 DEF Record, RecordInLedger, Growth
<1>4. ASSUME NEW f \in Finalizers, NEW b, NEW a, Start(f, b, a) PROVE Growth
  BY <1>4 DEF Start, Growth
<1>5. ASSUME NEW f \in Finalizers, Step(f) PROVE Growth
  BY <1>5 DEF Step, Resolve, ScanReleases, Publish, TruncateContract, WriteContract, Growth
<1>6. ASSUME NEW f \in Finalizers, Crash(f) PROVE Growth
  BY <1>6 DEF Crash, Growth
<1>7. CASE UNCHANGED vars
  BY <1>7 DEF vars, Growth
<1> QED
  BY <1>1, <1>2, <1>3, <1>4, <1>5, <1>6, <1>7 DEF Next

----------------------------------------------------------------------------
(* Types.                                                                  *)

LEMMA ReleasedType ==
  ASSUME NEW b \in Bundle
  PROVE  Released(b) \in Contract
BY DEF Released, Bundle, Contract

LEMMA TypeInit == Init => TypeOK
BY ReleaseFlowAssumption DEF Init, TypeOK, Contract

LEMMA TypeStep == TypeOK /\ Commands /\ [Next]_vars => TypeOK'
<1> SUFFICES ASSUME TypeOK, Commands, [Next]_vars PROVE TypeOK'
  OBVIOUS
<1> USE DEF TypeOK
<1>1. ASSUME NEW c \in Changes, NEW rev \in Revisions, Assess(c, rev) PROVE TypeOK'
  <2>1. contract \in Contract /\ contract.version \in Version
    BY <1>1 DEF Assess, Contract
  <2>2. PICK tags \in Authorities :
          \E v \in SelectableVersions(contract.version, Bump[c], tags) :
            bundles' = bundles \cup
              {[base |-> contract, change |-> c, revision |-> rev, version |-> v]}
    BY <1>1 DEF Assess
  <2>3. PICK v \in SelectableVersions(contract.version, Bump[c], tags) :
          bundles' = bundles \cup
            {[base |-> contract, change |-> c, revision |-> rev, version |-> v]}
    BY <2>2
  <2>4. v \in Version
    BY <2>1, SelectedVersion, ReleaseFlowAssumption DEF Authorities
  <2>5. bundles' \subseteq Bundle
    BY <2>1, <2>3, <2>4 DEF Bundle
  <2>6. UNCHANGED <<contract, approvals, handed, releases, finalizer, materialized, closed>>
    BY <1>1 DEF Assess
  <2> QED
    BY <2>3, <2>5, <2>6
<1>2. ASSUME NEW b \in bundles, Approve(b) PROVE TypeOK'
  <2> DEFINE a == [about |-> b, action |-> "APPROVE", scope |-> b, evidence |-> b]
  <2>1. a \in ApprovalRecord
    BY DEF ApprovalRecord
  <2>2. /\ approvals' = approvals \cup {a}
        /\ closed' \in {closed, closed \cup {b}}
        /\ handed' \in {handed, handed \cup {a}}
        /\ UNCHANGED <<contract, bundles, releases, finalizer, materialized>>
    BY <1>2 DEF Approve, RecordInLedger
  <2> QED
    BY <2>1, <2>2
<1>3. ASSUME NEW about \in bundles, NEW action \in {"APPROVE", "REJECT"},
             NEW scope \in bundles \cup {None}, NEW evidence \in bundles \cup {None},
             NEW seen \in BOOLEAN,
             Record([about |-> about, action |-> action, scope |-> scope,
                     evidence |-> evidence], seen)
      PROVE TypeOK'
  <2> DEFINE a == [about |-> about, action |-> action, scope |-> scope, evidence |-> evidence]
  <2>1. a \in ApprovalRecord
    BY DEF ApprovalRecord
  <2>2. /\ approvals' \in {approvals, approvals \cup {a}}
        /\ closed' \in {closed, closed \cup {about}}
        /\ handed' = handed \cup {a}
        /\ UNCHANGED <<contract, bundles, releases, finalizer, materialized>>
    BY <1>3 DEF Record, RecordInLedger
  <2> QED
    BY <2>1, <2>2
<1>4. ASSUME NEW f \in Finalizers, NEW b \in bundles, NEW a \in handed \cup {None},
             Start(f, b, a)
      PROVE TypeOK'
  <2>1. [phase |-> "resolve", bundle |-> b, approval |-> a] \in Command
    BY DEF Command
  <2> QED
    BY <1>4, <2>1 DEF Start
<1>5. ASSUME NEW f \in Finalizers, Resolve(f) PROVE TypeOK'
  <2>1. finalizer[f] \in Command
    BY <1>5 DEF Resolve, In, Idle
  <2>2. PICK a \in ApprovalRecord \cup {None} :
          finalizer' \in {[finalizer EXCEPT ![f] = Idle],
                          [finalizer EXCEPT ![f].phase = "scan", ![f].approval = a]}
    <3>1. CASE Raise(f)
      BY <3>1 DEF Raise
    <3>2. CASE ~Raise(f)
      <4> DEFINE b == finalizer[f].bundle
      <4> DEFINE file == finalizer[f].approval
      <4>1. PICK a \in IF file = None /\ Verdict[b.change] = "REVIEW"
                       THEN Resolvable(b) ELSE {file} :
              finalizer' = [finalizer EXCEPT ![f].phase = "scan", ![f].approval = a]
        BY <1>5, <3>2 DEF Resolve
      <4>2. a \in ApprovalRecord \cup {None}
        BY <2>1, <4>1 DEF Resolvable, ScopedRecords, Command
      <4> QED
        BY <4>1, <4>2
    <3> QED
      BY <3>1, <3>2
  <2>3. finalizer' \in [Finalizers -> Command \cup {Idle}]
    BY <2>1, <2>2 DEF Command
  <2> QED
    BY <1>5, <2>3 DEF Resolve
<1>6. ASSUME NEW f \in Finalizers, ScanReleases(f) PROVE TypeOK'
  <2>1. finalizer[f] \in Command
    BY <1>6 DEF ScanReleases, In, Idle
  <2>2. finalizer' \in [Finalizers -> Command \cup {Idle}]
    BY <1>6, <2>1 DEF ScanReleases, Raise, Goto, Command
  <2> QED
    BY <1>6, <2>2 DEF ScanReleases
<1>7. ASSUME NEW f \in Finalizers, Publish(f) PROVE TypeOK'
  <2>1. finalizer[f] \in Command
    BY <1>7 DEF Publish, In, Idle
  <2>2. finalizer' \in [Finalizers -> Command \cup {Idle}]
    BY <1>7, <2>1 DEF Publish, Goto, Command
  <2>3. releases' \subseteq bundles'
    BY <1>7 DEF Publish, Commands, Carries, In
  <2> QED
    BY <1>7, <2>2, <2>3 DEF Publish
<1>8. ASSUME NEW f \in Finalizers, TruncateContract(f) PROVE TypeOK'
  <2>1. finalizer[f] \in Command
    BY <1>8 DEF TruncateContract, In, Idle
  <2>2. finalizer' \in [Finalizers -> Command \cup {Idle}]
    BY <1>8, <2>1 DEF TruncateContract, Goto, Command
  <2> QED
    BY <1>8, <2>2 DEF TruncateContract
<1>9. ASSUME NEW f \in Finalizers, WriteContract(f) PROVE TypeOK'
  <2>1. finalizer[f] \in Command /\ finalizer[f].bundle \in releases
    BY <1>9 DEF WriteContract, Commands, Carries, In, Idle
  <2>2. finalizer' \in [Finalizers -> Command \cup {Idle}]
    BY <1>9 DEF WriteContract
  <2>3. contract' \in Contract \cup {Torn}
    BY <1>9, <2>1, ReleasedType DEF WriteContract, Command
  <2> QED
    BY <1>9, <2>1, <2>2, <2>3 DEF WriteContract
<1>10. ASSUME NEW f \in Finalizers, Crash(f) PROVE TypeOK'
  BY <1>10 DEF Crash
<1>11. CASE UNCHANGED vars
  BY <1>11 DEF vars
<1> QED
  BY <1>1, <1>2, <1>3, <1>4, <1>5, <1>6, <1>7, <1>8, <1>9, <1>10, <1>11
  DEF Next, Step

----------------------------------------------------------------------------
(* A command past Resolve is authorized.                                   *)

LEMMA ResolveStep ==
  ASSUME TypeOK, Commands, NEW f \in Finalizers, Resolve(f)
  PROVE  \/ finalizer' = [finalizer EXCEPT ![f] = Idle]
         \/ \E a \in approvals \cup handed \cup {None} :
              /\ finalizer' = [finalizer EXCEPT ![f].phase = "scan", ![f].approval = a]
              /\ Authorized(finalizer[f].bundle, a)
              /\ Reviewed(finalizer[f].bundle) => ~HasConflict(finalizer[f].bundle)
<1> DEFINE b == finalizer[f].bundle
<1> DEFINE file == finalizer[f].approval
<1>1. file \in approvals \cup handed \cup {None}
  BY DEF Resolve, Commands, Carries, In
<1>2. CASE Raise(f)
  BY <1>2 DEF Raise
<1>3. CASE ~Raise(f)
  <2>1. PICK a \in IF file = None /\ Verdict[b.change] = "REVIEW"
                   THEN Resolvable(b) ELSE {file} :
          /\ Authorized(b, a)
          /\ finalizer' = [finalizer EXCEPT ![f].phase = "scan", ![f].approval = a]
    BY <1>3 DEF Resolve
  <2>2. a \in approvals \cup handed \cup {None}
    BY <1>1, <2>1 DEF Resolvable, ScopedRecords
  <2>3. ASSUME Reviewed(b), file # None PROVE ~HasConflict(b)
    BY <1>3, <2>3 DEF Resolve
  <2>4. ASSUME Reviewed(b), file = None PROVE ~HasConflict(b)
    <3>1. a # None
      BY <2>1, <2>4 DEF Authorized, Reviewed, Gate
    <3> QED
      BY <2>1, <2>4, <3>1 DEF Resolvable, Reviewed
  <2> QED
    BY <2>1, <2>2, <2>3, <2>4
<1> QED
  BY <1>2, <1>3

\* A step of one finalizer leaves the others where they are.
LEMMA OthersRest ==
  ASSUME TypeOK, Commands, NEW g \in Finalizers, NEW f \in Finalizers \ {g},
         \/ \E b \in bundles, a \in handed \cup {None} : Start(g, b, a)
         \/ Step(g)
         \/ Crash(g)
  PROVE  finalizer'[f] = finalizer[f]
BY ResolveStep
DEF Start, Step, ScanReleases, Publish, TruncateContract, WriteContract, Crash,
    Raise, Goto, TypeOK

LEMMA CommandStep == TypeOK /\ Commands /\ [Next]_vars => Commands'
<1> SUFFICES ASSUME TypeOK, Commands, [Next]_vars, NEW g \in Finalizers
             PROVE  Carries(g)'
  BY DEF Commands
<1>0. Growth
  BY StepGrows
<1>1. ASSUME finalizer'[g] = finalizer[g] PROVE Carries(g)'
  BY <1>0, <1>1 DEF Commands, Carries, Growth, In, Authorized
<1>2. ASSUME finalizer'[g] = Idle PROVE Carries(g)'
  BY <1>2 DEF Carries, In, Idle, Past
<1>3. ASSUME NEW b \in bundles, NEW a \in handed \cup {None}, Start(g, b, a) PROVE Carries(g)'
  <2>1. finalizer'[g] = [phase |-> "resolve", bundle |-> b, approval |-> a]
    BY <1>3 DEF Start, TypeOK
  <2> QED
    BY <1>0, <2>1 DEF Carries, Growth, In, Past
<1>4. CASE Resolve(g)
  <2>1. finalizer[g] \in Command /\ finalizer[g].bundle \in bundles
    BY <1>4 DEF Resolve, Commands, Carries, TypeOK, In, Idle
  <2>2. CASE finalizer' = [finalizer EXCEPT ![g] = Idle]
    BY <1>2, <2>2 DEF TypeOK
  <2>3. ASSUME NEW a \in approvals \cup handed \cup {None},
               finalizer' = [finalizer EXCEPT ![g].phase = "scan", ![g].approval = a],
               Authorized(finalizer[g].bundle, a)
        PROVE Carries(g)'
    <3>1. /\ finalizer'[g].phase = "scan"
          /\ finalizer'[g].approval = a
          /\ finalizer'[g].bundle = finalizer[g].bundle
      BY <2>1, <2>3 DEF TypeOK, Command
    <3> QED
      BY <1>0, <2>1, <2>3, <3>1 DEF Carries, Growth, In, Authorized
  <2> QED
    BY <1>4, <2>2, <2>3, ResolveStep
<1>5. ASSUME NEW phase \in Past, Goto(g, phase), finalizer[g].phase \in Past,
             phase \in {"truncate", "write"} => finalizer[g].bundle \in releases'
      PROVE Carries(g)'
  <2>1. /\ finalizer'[g].phase = phase
        /\ finalizer'[g].approval = finalizer[g].approval
        /\ finalizer'[g].bundle = finalizer[g].bundle
    BY <1>5 DEF Goto, TypeOK, Command, Idle, Past
  <2>2. ~In(g, "idle")
    BY <1>5 DEF In, Past
  <2> QED
    BY <1>0, <1>5, <2>1, <2>2 DEF Commands, Carries, Growth, In, Past, Authorized
<1>6. CASE ScanReleases(g)
  <2>1. CASE Raise(g)
    BY <1>2, <2>1 DEF Raise, TypeOK
  <2>2. CASE Goto(g, "publish")
    BY <1>5, <1>6, <2>2 DEF ScanReleases, In, Past
  <2> QED
    BY <1>6, <2>1, <2>2 DEF ScanReleases
<1>7. CASE Publish(g)
  BY <1>5, <1>7 DEF Publish, In, Past
<1>8. CASE TruncateContract(g)
  BY <1>5, <1>8 DEF TruncateContract, Commands, Carries, In, Past
<1>9. CASE WriteContract(g) \/ Crash(g)
  BY <1>2, <1>9 DEF WriteContract, Crash, TypeOK
<1>10. ASSUME NEW f \in Finalizers, f # g,
              \/ \E b \in bundles, a \in handed \cup {None} : Start(f, b, a)
              \/ Step(f)
              \/ Crash(f)
       PROVE Carries(g)'
  <2>1. finalizer'[g] = finalizer[g]
    BY <1>10, OthersRest
  <2> QED
    BY <1>1, <2>1
<1>11. CASE UNCHANGED finalizer
  BY <1>1, <1>11
<1> QED
  BY <1>3, <1>4, <1>6, <1>7, <1>8, <1>9, <1>10, <1>11
  DEF Next, Step, Assess, Approve, Record, vars

----------------------------------------------------------------------------
(* What only some actions change.                                          *)

\* A release enters the ledger only when a command publishes its bundle.
LEMMA NewRelease ==
  ASSUME [Next]_vars, NEW b \in releases' \ releases
  PROVE  \E f \in Finalizers : In(f, "publish") /\ finalizer[f].bundle = b
BY DEF Next, vars, Assess, Approve, Record, Start, Step, Resolve, ScanReleases, Publish,
       TruncateContract, WriteContract, Crash

\* The file changes only when a command truncates or writes it.
LEMMA NewContract ==
  ASSUME [Next]_vars, contract' # contract
  PROVE  \/ contract' = Torn
         \/ \E f \in Finalizers : /\ In(f, "write")
                                 /\ contract' = Released(finalizer[f].bundle)
<1>1. ASSUME NEW f \in Finalizers, WriteContract(f)
      PROVE  contract' = Torn \/ (In(f, "write") /\ contract' = Released(finalizer[f].bundle))
  BY <1>1 DEF WriteContract
<1>2. ASSUME NEW f \in Finalizers, TruncateContract(f) PROVE contract' = Torn
  BY <1>2 DEF TruncateContract
<1> QED
  BY <1>1, <1>2
  DEF Next, vars, Assess, Approve, Record, Start, Step, Resolve, ScanReleases, Publish, Crash

\* A bundle is assessed from an intact contract file.
LEMMA NewBundle ==
  ASSUME [Next]_vars, NEW b \in bundles' \ bundles
  PROVE  /\ contract # Torn
         /\ \E c \in Changes \ contract.content, rev \in Revisions, tags \in Authorities :
            \E v \in SelectableVersions(contract.version, Bump[c], tags) :
              b = [base |-> contract, change |-> c, revision |-> rev, version |-> v]
<1>1. PICK c \in Changes, rev \in Revisions : Assess(c, rev)
  BY DEF Next, vars, Approve, Record, Start, Step, Resolve, ScanReleases, Publish,
         TruncateContract, WriteContract, Crash
<1> QED
  BY <1>1 DEF Assess

----------------------------------------------------------------------------
(* The conjuncts of ReleaseInv, one lemma each.                            *)

LEMMA AuthorizedStep == Commands /\ ReleasesAuthorized /\ [Next]_vars => ReleasesAuthorized'
<1> SUFFICES ASSUME Commands, ReleasesAuthorized, [Next]_vars, NEW b \in releases'
             PROVE  /\ Verdict[b.change] # "BLOCK"
                    /\ Reviewed(b) => \E a \in approvals' \cup handed' :
                                        Exact(a, b) /\ a.action = "APPROVE"
  BY DEF ReleasesAuthorized, Exact, Reviewed
<1>1. Growth
  BY StepGrows
<1>2. CASE b \in releases
  BY <1>1, <1>2 DEF ReleasesAuthorized, Growth
<1>3. CASE b \notin releases
  <2>1. PICK f \in Finalizers : In(f, "publish") /\ finalizer[f].bundle = b
    BY <1>3, NewRelease
  <2> DEFINE a == finalizer[f].approval
  <2>2. Authorized(b, a) /\ a \in approvals \cup handed \cup {None}
    BY <2>1 DEF Commands, Carries, In, Past
  <2>3. Verdict[b.change] # "BLOCK"
    BY <2>2 DEF Authorized, Gate
  <2>4. Reviewed(b) => Exact(a, b) /\ a.action = "APPROVE" /\ a # None
    BY <2>2 DEF Authorized, Gate, Reviewed, Exact
  <2> QED
    BY <1>1, <2>2, <2>3, <2>4 DEF Growth
<1> QED
  BY <1>2, <1>3

LEMMA LineageStep == Commands /\ Lineage /\ [Next]_vars => Lineage'
<1> SUFFICES ASSUME Commands, Lineage, [Next]_vars PROVE Lineage'
  OBVIOUS
<1> DEFINE Known == {[version |-> First, content |-> {}]} \cup {Released(r) : r \in releases}
<1> DEFINE KnownNext == {[version |-> First, content |-> {}]} \cup {Released(r) : r \in releases'}
<1>1. contract \in Known \cup {Torn} /\ \A b \in bundles : b.base \in Known
  BY DEF Lineage
<1>2. Known \subseteq KnownNext
  BY StepGrows DEF Growth
<1>3. contract' \in KnownNext \cup {Torn}
  <2>1. ASSUME NEW f \in Finalizers, In(f, "write") PROVE Released(finalizer[f].bundle) \in Known
    BY <2>1 DEF Commands, Carries, In
  <2> QED
    BY <1>1, <1>2, <2>1, NewContract
<1>4. ASSUME NEW b \in bundles' PROVE b.base \in KnownNext
  <2>1. CASE b \in bundles
    BY <1>1, <1>2, <2>1
  <2>2. CASE b \notin bundles
    <3>1. b.base = contract /\ contract # Torn
      BY <2>2, NewBundle
    <3> QED
      BY <1>1, <1>2, <3>1
  <2> QED
    BY <2>1, <2>2
<1>5. \A r : Released(r)' = Released(r)
  BY DEF Released
<1> QED
  BY <1>3, <1>4, <1>5 DEF Lineage, Released

\* A new bundle moves on from the first version, or from that of a release.
LEMMA AccumulationStep ==
  TypeOK /\ Lineage /\ Accumulation /\ [Next]_vars => Accumulation'
<1> SUFFICES ASSUME TypeOK, Lineage, Accumulation, [Next]_vars,
                    NEW b \in bundles', b \notin bundles
             PROVE  Accumulated(b.version, b.base.content \cup {b.change})
  BY DEF Accumulation, Accumulated
<1>0. PICK c \in Changes \ contract.content, rev \in Revisions, tags \in Authorities :
        \E v \in SelectableVersions(contract.version, Bump[c], tags) :
          b = [base |-> contract, change |-> c, revision |-> rev, version |-> v]
  BY NewBundle
<1>1. PICK v \in SelectableVersions(contract.version, Bump[c], tags) :
        b = [base |-> contract, change |-> c, revision |-> rev, version |-> v]
  BY <1>0
<1>2. contract \in Contract /\ contract.version \in Version
  BY NewBundle DEF TypeOK, Contract
<1>3. v \in Version /\ Exceeds(v, contract.version)
      /\ BumpSatisfies(ClassifyBump(contract.version, v), Bump[c])
  BY <1>2, SelectedVersion, ReleaseFlowAssumption DEF Authorities
<1>4. CASE contract = [version |-> First, content |-> {}]
  <2>1. contract.version = First /\ contract.content = {}
    BY <1>4
  <2>2. b.version = v /\ b.base.content \cup {b.change} = {c}
    BY <1>1, <2>1
  <2> QED
    BY <1>3, <2>1, <2>2 DEF Accumulated
<1>5. CASE \E r \in releases : contract = Released(r)
  <2>1. Accumulated(contract.version, contract.content)
    <3>1. PICK r \in releases : contract = Released(r)
      BY <1>5
    <3>2. /\ r \in bundles /\ contract.version = r.version
          /\ contract.content = r.base.content \cup {r.change}
      BY <3>1 DEF TypeOK, Released
    <3> QED
      BY <3>2 DEF Accumulation
  <2>2. First \in Version /\ \A x \in Changes : Bump[x] \in RequiredBump
    BY ReleaseFlowAssumption
  <2>3. contract.content \cup {c} \subseteq Changes
    BY <1>2 DEF Contract
  <2>4. Exceeds(v, First)
    BY <1>2, <1>3, <2>1, <2>2, BumpsCompose DEF Accumulated
  <2>5. ASSUME NEW x \in contract.content \cup {c}
        PROVE  BumpSatisfies(ClassifyBump(First, v), Bump[x])
    <3>1. \/ BumpSatisfies(ClassifyBump(First, contract.version), Bump[x])
          \/ BumpSatisfies(ClassifyBump(contract.version, v), Bump[x])
      BY <1>3, <2>1 DEF Accumulated
    <3>2. Bump[x] \in RequiredBump /\ Exceeds(contract.version, First)
      BY <2>1, <2>2, <2>3 DEF Accumulated
    <3> QED
      BY <1>2, <1>3, <2>2, <3>1, <3>2, BumpsCompose
  <2> QED
    BY <1>1, <2>4, <2>5 DEF Accumulated
<1>6. contract \in {[version |-> First, content |-> {}]} \cup {Released(r) : r \in releases}
  BY NewBundle DEF Lineage
<1> QED
  BY <1>4, <1>5, <1>6

\* The bundle of a command that gets past Resolve in this step was not
\* rejected; any other command past Resolve was already there.
LEMMA PastStep ==
  ASSUME TypeOK, Commands, [Next]_vars, NEW f \in Finalizers, finalizer'[f].phase \in Past
  PROVE  \/ /\ finalizer[f].phase \in Past
            /\ finalizer'[f].bundle = finalizer[f].bundle
         \/ /\ ~In(f, "idle")
            /\ finalizer'[f].bundle = finalizer[f].bundle
            /\ Reviewed(finalizer[f].bundle) => ~HasConflict(finalizer[f].bundle)
            /\ UNCHANGED <<approvals, closed>>
<1> DEFINE Kept == finalizer[f].phase \in Past /\ finalizer'[f].bundle = finalizer[f].bundle
<1> DEFINE Unrejected == /\ ~In(f, "idle")
                         /\ finalizer'[f].bundle = finalizer[f].bundle
                         /\ Reviewed(finalizer[f].bundle) => ~HasConflict(finalizer[f].bundle)
                         /\ UNCHANGED <<approvals, closed>>
<1>1. CASE finalizer'[f] = finalizer[f]
  BY <1>1
<1>2. ASSUME finalizer'[f] = Idle PROVE FALSE
  BY <1>2 DEF Idle, Past
<1>3. ASSUME NEW b, NEW a, Start(f, b, a) PROVE FALSE
  BY <1>3 DEF Start, TypeOK, Past
<1>4. CASE Resolve(f)
  <2>1. finalizer[f] \in Command
    BY <1>4 DEF Resolve, TypeOK, In, Idle
  <2>2. CASE finalizer' = [finalizer EXCEPT ![f] = Idle]
    BY <1>2, <2>2 DEF TypeOK
  <2>3. ASSUME NEW a, finalizer' = [finalizer EXCEPT ![f].phase = "scan", ![f].approval = a],
               Reviewed(finalizer[f].bundle) => ~HasConflict(finalizer[f].bundle)
        PROVE Unrejected
    <3>1. finalizer'[f].bundle = finalizer[f].bundle
      BY <2>1, <2>3 DEF TypeOK, Command
    <3> QED
      BY <1>4, <2>3, <3>1 DEF Resolve, In
  <2> QED
    BY <1>4, <2>2, <2>3, ResolveStep
<1>5. ASSUME NEW phase, Goto(f, phase), finalizer[f].phase \in Past PROVE Kept
  BY <1>5 DEF Goto, TypeOK, Command, Idle, Past
<1>6. CASE ScanReleases(f)
  <2>1. CASE Raise(f)
    BY <1>2, <2>1 DEF Raise, TypeOK
  <2>2. CASE Goto(f, "publish")
    BY <1>5, <1>6, <2>2 DEF ScanReleases, In, Past
  <2> QED
    BY <1>6, <2>1, <2>2 DEF ScanReleases
<1>7. CASE Publish(f) \/ TruncateContract(f)
  BY <1>5, <1>7 DEF Publish, TruncateContract, In, Past
<1>8. CASE WriteContract(f) \/ Crash(f)
  BY <1>2, <1>8 DEF WriteContract, Crash, TypeOK
<1>9. ASSUME NEW g \in Finalizers, g # f,
             \/ \E b \in bundles, a \in handed \cup {None} : Start(g, b, a)
             \/ Step(g)
             \/ Crash(g)
      PROVE finalizer'[f] = finalizer[f]
  BY <1>9, OthersRest
<1> QED
  BY <1>1, <1>3, <1>4, <1>6, <1>7, <1>8, <1>9
  DEF Next, Step, Assess, Approve, Record, vars

LEMMA ConflictStays ==
  ASSUME Growth, NEW b, HasConflict(b)
  PROVE  HasConflict(b)'
BY DEF Growth, HasConflict, ScopedRecords, Exact

\* A bundle is closed by an exact rejection, before any command has it.
LEMMA NewClosed ==
  ASSUME [Next]_vars, NEW b \in closed' \ closed
  PROVE  /\ HasConflict(b)'
         /\ b \notin releases' /\ ~Finalizing(b)
         /\ UNCHANGED finalizer
<1>1. ASSUME NEW a, RecordInLedger(a)
      PROVE  HasConflict(b)' /\ b \notin releases /\ ~Finalizing(b)
  BY <1>1 DEF RecordInLedger, HasConflict, ScopedRecords, Exact
<1> QED
  BY <1>1
  DEF Next, vars, Assess, Approve, Record, Start, Step, Resolve, ScanReleases, Publish,
      TruncateContract, WriteContract, Crash

LEMMA ClosureStep == TypeOK /\ Commands /\ Closure /\ [Next]_vars => Closure'
<1> SUFFICES ASSUME TypeOK, Commands, Closure, [Next]_vars, NEW b \in closed'
             PROVE  /\ HasConflict(b)'
                    /\ Reviewed(b) =>
                         /\ b \notin releases'
                         /\ \A f \in Finalizers :
                              finalizer'[f].phase \in Past => finalizer'[f].bundle # b
  BY DEF Closure, Reviewed
<1>1. CASE b \notin closed
  <2>1. ASSUME NEW f \in Finalizers, finalizer'[f].phase \in Past PROVE finalizer'[f].bundle # b
    BY <1>1, <2>1, NewClosed DEF Finalizing, Past
  <2> QED
    BY <1>1, <2>1, NewClosed
<1>2. CASE b \in closed
  <2>1. HasConflict(b)'
    BY <1>2, ConflictStays, StepGrows DEF Closure
  <2>2. ASSUME Reviewed(b) PROVE b \notin releases'
    BY <1>2, <2>2, NewRelease DEF Closure, In, Past
  <2>3. ASSUME Reviewed(b), NEW f \in Finalizers, finalizer'[f].phase \in Past
        PROVE  finalizer'[f].bundle # b
    BY <1>2, <2>3, PastStep DEF Closure
  <2> QED
    BY <2>1, <2>2, <2>3
<1> QED
  BY <1>1, <1>2

----------------------------------------------------------------------------
(* The theorems.                                                           *)

LEMMA ReleaseInvInit == Init => ReleaseInv
<1> SUFFICES ASSUME Init PROVE ReleaseInv
  OBVIOUS
<1>1. TypeOK
  BY TypeInit
<1>2. Commands
  BY DEF Init, Commands, Carries, In, Idle, Past
<1>3. ReleasesAuthorized /\ Lineage /\ Accumulation /\ Closure
  BY DEF Init, ReleasesAuthorized, Lineage, Accumulation, Closure
<1> QED
  BY <1>1, <1>2, <1>3 DEF ReleaseInv

LEMMA ReleaseInvStep == ReleaseInv /\ [Next]_vars => ReleaseInv'
BY TypeStep, CommandStep, AuthorizedStep, LineageStep, AccumulationStep, ClosureStep DEF ReleaseInv

LEMMA ReleaseInvariance == Spec => []ReleaseInv
BY ReleaseInvStep, ReleaseInvInit, PTL DEF Spec

\* Every variable keeps its type.
THEOREM ReleaseFlowTypeCorrect == Spec => []TypeOK
BY ReleaseInvariance, PTL DEF ReleaseInv

\* Every release that needed review rests on an exact approval, and nothing
\* blocked is released (ReleaseFinalizer.finalize, ReleaseApprovalResolver).
THEOREM ReviewedReleasesApproved == Spec => []ReleasesAuthorized
BY ReleaseInvariance, PTL DEF ReleaseInv

\* An exact rejection on record before a finalization starts keeps a reviewed
\* bundle from ever being released.
THEOREM RejectionsHonoured == Spec => []RejectionHonoured
<1>1. ReleaseInv => RejectionHonoured
  BY DEF ReleaseInv, Closure, RejectionHonoured
<1> QED
  BY <1>1, ReleaseInvariance, PTL

\* The contract file and every assessed base are released content.
THEOREM ReleasesFormLineage == Spec => []Lineage
BY ReleaseInvariance, PTL DEF ReleaseInv

\* Whatever lies between the first version and a release, its version moves at
\* least as far as each change in its content requires, under either version
\* authority.
THEOREM BumpsOfAllChanges == Spec => []BumpsAccumulate
<1>1. ReleaseInv => BumpsAccumulate
  BY DEF ReleaseInv, TypeOK, Accumulation, Accumulated, BumpsAccumulate, Released
<1> QED
  BY <1>1, ReleaseInvariance, PTL

----------------------------------------------------------------------------
(* Where finalizations do not overlap.                                     *)

\* What the code leaves to the pipeline: different bundles of one version are
\* not both between the listing of the releases and the publication ...
OnePublicationPerVersion ==
  \A f, g \in Finalizers :
    /\ In(f, "publish") /\ In(g, "publish")
    /\ finalizer[f].bundle.version = finalizer[g].bundle.version
    => finalizer[f].bundle = finalizer[g].bundle

\* ... and no two commands are in the middle of rewriting the contract file.
OneRewriter == \A f, g \in Finalizers : In(f, "write") /\ In(g, "write") => f = g

\* What a command knows of the ledger before it publishes, and what follows:
\* no version is released twice.
LoneReleases ==
  /\ \A f \in Finalizers : In(f, "publish") =>
       \A r \in releases : r.version = finalizer[f].bundle.version => r = finalizer[f].bundle
  /\ \A r, s \in releases : r.version = s.version => r = s

\* A command publishes only after a listing without another release of its
\* version.
LEMMA ToPublish ==
  ASSUME TypeOK, Commands, [Next]_vars, NEW f \in Finalizers, In(f, "publish")'
  PROVE  /\ finalizer'[f].bundle = finalizer[f].bundle /\ ~In(f, "idle")
         /\ \/ In(f, "publish")
            \/ /\ UNCHANGED releases
               /\ \A r \in releases :
                    r.version = finalizer[f].bundle.version => r = finalizer[f].bundle
<1>1. CASE finalizer'[f] = finalizer[f]
  BY <1>1 DEF In
<1>2. ASSUME finalizer'[f] = Idle PROVE FALSE
  BY <1>2 DEF Idle, In
<1>3. ASSUME NEW phase, phase # "publish", Goto(f, phase) PROVE FALSE
  BY <1>3 DEF Goto, TypeOK, Command, Idle, In
<1>4. ASSUME NEW b, NEW a, Start(f, b, a) PROVE FALSE
  BY <1>4 DEF Start, TypeOK, In
<1>5. CASE Resolve(f)
  <2>1. finalizer[f] \in Command
    BY <1>5 DEF Resolve, TypeOK, In, Idle
  <2>2. finalizer' # [finalizer EXCEPT ![f] = Idle]
    BY <1>2 DEF TypeOK
  <2>3. PICK a : finalizer' = [finalizer EXCEPT ![f].phase = "scan", ![f].approval = a]
    BY <1>5, <2>2, ResolveStep
  <2> QED
    BY <2>1, <2>3 DEF TypeOK, Command, In
<1>6. CASE ScanReleases(f)
  <2>1. ~Raise(f)
    BY <1>2 DEF Raise, TypeOK
  <2>2. finalizer'[f].bundle = finalizer[f].bundle
    BY <1>6, <2>1 DEF ScanReleases, Goto, TypeOK, Command, Idle, In
  <2> QED
    BY <1>6, <2>1, <2>2 DEF ScanReleases, In
<1>7. ~Publish(f) /\ ~TruncateContract(f)
  BY <1>3 DEF Publish, TruncateContract
<1>8. ~WriteContract(f) /\ ~Crash(f)
  BY <1>2 DEF WriteContract, Crash, TypeOK
<1>9. ASSUME NEW g \in Finalizers \ {f},
             \/ \E b \in bundles, a \in handed \cup {None} : Start(g, b, a)
             \/ Step(g)
             \/ Crash(g)
      PROVE  finalizer'[f] = finalizer[f]
  BY <1>9, OthersRest
<1>10. \/ finalizer'[f] = finalizer[f]
       \/ \E b \in bundles, a \in handed \cup {None} : Start(f, b, a)
       \/ Step(f)
       \/ Crash(f)
  BY <1>9 DEF Next, Assess, Approve, Record, vars
<1> QED
  BY <1>1, <1>4, <1>5, <1>6, <1>7, <1>8, <1>10 DEF Step

LEMMA LoneStep ==
  ReleaseInv /\ LoneReleases /\ OnePublicationPerVersion /\ [Next]_vars => LoneReleases'
<1> SUFFICES ASSUME ReleaseInv, LoneReleases, OnePublicationPerVersion, [Next]_vars
             PROVE  LoneReleases'
  OBVIOUS
<1>0. TypeOK /\ Commands
  BY DEF ReleaseInv
\* A release of this step was published by a command that knew of no other.
<1>1. ASSUME NEW r \in releases', r \notin releases
      PROVE  \E g \in Finalizers : In(g, "publish") /\ finalizer[g].bundle = r
  BY <1>1, NewRelease
<1>2. ASSUME NEW f \in Finalizers, In(f, "publish")', NEW r \in releases',
             r.version = finalizer'[f].bundle.version
      PROVE  r = finalizer'[f].bundle
  <2>1. finalizer'[f].bundle = finalizer[f].bundle /\ ~In(f, "idle")
    BY <1>0, <1>2, ToPublish
  <2>2. CASE r \in releases
    BY <1>0, <1>2, <2>1, <2>2, ToPublish DEF LoneReleases
  <2>3. CASE r \notin releases
    <3>1. In(f, "publish")
      BY <1>0, <1>2, <2>3, ToPublish
    <3> QED
      BY <1>1, <1>2, <2>1, <2>3, <3>1 DEF OnePublicationPerVersion
  <2> QED
    BY <2>2, <2>3
<1>3. ASSUME NEW r \in releases', NEW s \in releases', r.version = s.version
      PROVE  r = s
  <2>1. CASE r \in releases /\ s \in releases
    BY <1>3, <2>1 DEF LoneReleases
  <2>2. CASE r \notin releases /\ s \in releases
    BY <1>1, <1>3, <2>2 DEF LoneReleases
  <2>3. CASE r \in releases /\ s \notin releases
    BY <1>1, <1>3, <2>3 DEF LoneReleases
  <2>4. CASE r \notin releases /\ s \notin releases
    BY <1>1, <1>3, <2>4 DEF OnePublicationPerVersion
  <2> QED
    BY <2>1, <2>2, <2>3, <2>4
<1> QED
  BY <1>2, <1>3 DEF LoneReleases

\* If no bundle is published between the listing and the publication of a
\* different one of the same version, a version of the contract file means the
\* content released under it, for any number of commands, crashes and
\* repetitions.
THEOREM VersionsIdentifyContent ==
  Spec /\ []OnePublicationPerVersion => []VersionIdentifiesContent
<1>1. Init => LoneReleases
  BY DEF Init, LoneReleases, In, Idle
<1>2. ReleaseInv /\ LoneReleases => VersionIdentifiesContent
  <2> SUFFICES ASSUME ReleaseInv, LoneReleases, contract # Torn, NEW r \in releases,
                      contract.version = r.version
               PROVE  contract = Released(r)
    BY DEF VersionIdentifiesContent
  <2>1. CASE contract = [version |-> First, content |-> {}]
    <3>1. r \in bundles /\ Exceeds(First, First)
      BY <2>1 DEF ReleaseInv, TypeOK, Accumulation, Accumulated
    <3>2. First[1] \in Nat /\ First[2] \in Nat /\ First[3] \in Nat
      BY ReleaseFlowAssumption DEF Version
    <3> QED
      BY <3>1, <3>2 DEF Exceeds
  <2>2. ASSUME NEW s \in releases, contract = Released(s)
        PROVE  contract = Released(r)
    BY <2>2 DEF LoneReleases, Released
  <2> QED
    BY <2>1, <2>2 DEF ReleaseInv, Lineage
<1> QED
  BY <1>1, <1>2, LoneStep, ReleaseInvStep, ReleaseInvInit, PTL DEF Spec

\* A command between the two halves of the rewriting.
Rewriting(f) == contract = Torn /\ finalizer[f].bundle \in releases \ materialized

Unfinished ==
  /\ \A f \in Finalizers : In(f, "write") => Rewriting(f)
  /\ TornIsUnfinished

LEMMA ToWrite ==
  ASSUME TypeOK, Commands, [Next]_vars, NEW f \in Finalizers, In(f, "write")'
  PROVE  \/ In(f, "write") /\ finalizer'[f] = finalizer[f]
         \/ TruncateContract(f) /\ finalizer'[f].bundle = finalizer[f].bundle
<1>1. CASE finalizer'[f] = finalizer[f]
  BY <1>1 DEF In
<1>2. ASSUME finalizer'[f] = Idle PROVE FALSE
  BY <1>2 DEF Idle, In
<1>3. ASSUME NEW phase, phase # "write", Goto(f, phase) PROVE FALSE
  BY <1>3 DEF Goto, TypeOK, Command, Idle, In
<1>4. ASSUME NEW b, NEW a, Start(f, b, a) PROVE FALSE
  BY <1>4 DEF Start, TypeOK, In
<1>5. ~Resolve(f)
  <2> SUFFICES ASSUME Resolve(f) PROVE FALSE
    OBVIOUS
  <2>1. finalizer[f] \in Command
    BY DEF Resolve, TypeOK, In, Idle
  <2>2. finalizer' # [finalizer EXCEPT ![f] = Idle]
    BY <1>2 DEF TypeOK
  <2>3. PICK a : finalizer' = [finalizer EXCEPT ![f].phase = "scan", ![f].approval = a]
    BY <2>2, ResolveStep
  <2> QED
    BY <2>1, <2>3 DEF TypeOK, Command, In
<1>6. ~ScanReleases(f) /\ ~Publish(f)
  BY <1>2, <1>3 DEF ScanReleases, Publish, Raise, TypeOK
<1>7. ~WriteContract(f) /\ ~Crash(f)
  BY <1>2 DEF WriteContract, Crash, TypeOK
<1>8. CASE TruncateContract(f)
  BY <1>8 DEF TruncateContract, Goto, TypeOK, Command, Idle, In
<1>9. ASSUME NEW g \in Finalizers \ {f},
             \/ \E b \in bundles, a \in handed \cup {None} : Start(g, b, a)
             \/ Step(g)
             \/ Crash(g)
      PROVE  finalizer'[f] = finalizer[f]
  BY <1>9, OthersRest
<1> QED
  BY <1>1, <1>4, <1>5, <1>6, <1>7, <1>8, <1>9
  DEF Next, Step, Assess, Approve, Record, vars

LEMMA UnfinishedStep ==
  ReleaseInv /\ Unfinished /\ OneRewriter /\ [Next]_vars => Unfinished'
<1> SUFFICES ASSUME ReleaseInv, Unfinished, OneRewriter, [Next]_vars PROVE Unfinished'
  OBVIOUS
<1>0. TypeOK /\ Commands /\ releases \subseteq releases'
  BY StepGrows DEF ReleaseInv, Growth
<1>1. ASSUME NEW g \in Finalizers, TruncateContract(g)
      PROVE  /\ contract' = Torn /\ materialized' \subseteq materialized
             /\ finalizer[g].bundle \in releases' \ materialized'
  BY <1>0, <1>1 DEF TruncateContract, Commands, Carries, In
<1>2. ASSUME NEW g \in Finalizers, WriteContract(g)
      PROVE  contract' # Torn
  <2>1. contract = Torn /\ finalizer[g].bundle \in Bundle
    BY <1>0, <1>2 DEF WriteContract, Unfinished, Rewriting, TypeOK
  <2>2. Released(finalizer[g].bundle) # Torn
    BY <2>1, ReleasedType, TornIsNoContract
  <2> QED
    BY <1>2, <2>1, <2>2 DEF WriteContract
<1>3. \/ \E g \in Finalizers : TruncateContract(g) \/ WriteContract(g)
      \/ UNCHANGED <<contract, materialized>>
  BY DEF Next, vars, Assess, Approve, Record, Start, Step, Resolve, ScanReleases, Publish,
         Crash
<1>4. ASSUME NEW f \in Finalizers, In(f, "write")' PROVE Rewriting(f)'
  <2>1. CASE TruncateContract(f) /\ finalizer'[f].bundle = finalizer[f].bundle
    BY <1>1, <2>1 DEF Rewriting
  <2>2. CASE In(f, "write") /\ finalizer'[f] = finalizer[f]
    <3>1. Rewriting(f)
      BY <2>2 DEF Unfinished
    <3>2. ASSUME NEW g \in Finalizers, WriteContract(g) PROVE FALSE
      <4>1. g = f
        BY <2>2, <3>2 DEF OneRewriter, WriteContract
      <4> QED
        BY <1>4, <3>2, <4>1 DEF WriteContract, TypeOK, Idle, In, ReleaseInv
    <3> QED
      BY <1>0, <1>1, <1>3, <2>2, <3>1, <3>2 DEF Rewriting
  <2> QED
    BY <1>0, <1>4, <2>1, <2>2, ToWrite
<1>5. TornIsUnfinished'
  BY <1>0, <1>1, <1>2, <1>3 DEF Unfinished, TornIsUnfinished
<1> QED
  BY <1>4, <1>5 DEF Unfinished

\* If two commands are not rewriting the contract file at the same time, a
\* torn file belongs to a release in the ledger whose repetition repairs it.
THEOREM TornFilesAreUnfinished == Spec /\ []OneRewriter => []TornIsUnfinished
<1>1. Init => Unfinished
  <2> SUFFICES ASSUME Init PROVE Unfinished
    OBVIOUS
  <2>1. contract \in Contract
    BY ReleaseFlowAssumption DEF Init, Contract
  <2> QED
    BY <2>1, TornIsNoContract DEF Init, Unfinished, TornIsUnfinished, In, Idle
<1>2. Unfinished => TornIsUnfinished
  BY DEF Unfinished
<1> QED
  BY <1>1, <1>2, UnfinishedStep, ReleaseInvStep, ReleaseInvInit, PTL DEF Spec

\* One finalizer needs no schedule.
THEOREM OneFinalizerIsOrderly ==
  ASSUME NEW f, Finalizers = {f}
  PROVE  Spec => [](VersionIdentifiesContent /\ TornIsUnfinished)
<1>1. OnePublicationPerVersion /\ OneRewriter
  BY DEF OnePublicationPerVersion, OneRewriter
<1>2. [](OnePublicationPerVersion /\ OneRewriter)
  BY <1>1, PTL
<1> QED
  BY <1>2, VersionsIdentifyContent, TornFilesAreUnfinished, PTL

----------------------------------------------------------------------------
(* SemaPact's versions count.  The major part of a version counts the      *)
(* major changes in the content, the minor part the minor ones since the   *)
(* release that last raised the major part, the patch part all changes     *)
(* since the release that last raised the minor part.  No version is       *)
(* released twice, so that release is the same for all that share the      *)
(* parts before: more content is a later version.                          *)

Unreleased == [version |-> First, content |-> {}]
Known == {Unreleased} \cup {Released(r) : r \in releases}

Majors(content) == {c \in content : Bump[c] = "major"}
Minors(content) == {c \in content : Bump[c] = "minor"}

SinceMajor(x, a) ==
  /\ a = Unreleased \/ (a.version[2] = 0 /\ a.version[3] = 0)
  /\ a.content \subseteq x.content
  /\ Majors(x.content \ a.content) = {}
  /\ x.version[1] = a.version[1]
  /\ x.version[2] = a.version[2] + Cardinality(Minors(x.content \ a.content))

SinceMinor(x, a) ==
  /\ a = Unreleased \/ a.version[3] = 0
  /\ a.content \subseteq x.content
  /\ \A c \in x.content \ a.content : Bump[c] = "none"
  /\ x.version[1] = a.version[1] /\ x.version[2] = a.version[2]
  /\ x.version[3] = a.version[3] + Cardinality(x.content \ a.content)

Counted(x, known) ==
  /\ IsFiniteSet(x.content)
  /\ x.version[1] = First[1] + Cardinality(Majors(x.content))
  /\ \E a \in known : SinceMajor(x, a)
  /\ \E a \in known : SinceMinor(x, a)

\* A subset has no more elements, and fewer unless it is the whole set.
LEMMA CountOfSubset ==
  ASSUME NEW S, NEW T, IsFiniteSet(T), S \subseteq T
  PROVE  /\ IsFiniteSet(S)
         /\ Cardinality(S) \in Nat /\ Cardinality(T) \in Nat
         /\ Cardinality(S) <= Cardinality(T)
         /\ Cardinality(S) = Cardinality(T) => S = T
<1>1. IsFiniteSet(S) /\ Cardinality(S) <= Cardinality(T)
      /\ (Cardinality(T) = Cardinality(S) => T = S)
  BY FS_Subset
<1> QED
  BY <1>1, FS_CardinalityType

\* One more is counted as one more.
LEMMA CountOfNext ==
  ASSUME NEW S, NEW c, IsFiniteSet(S), c \notin S
  PROVE  /\ IsFiniteSet(S \cup {c})
         /\ Cardinality(S) \in Nat
         /\ Cardinality(S \cup {c}) = Cardinality(S) + 1
BY FS_AddElement, FS_CardinalityType

\* A version that exceeds another differs from it.
LEMMA ExceedsDiffers ==
  ASSUME NEW v \in Version
  PROVE  ~Exceeds(v, v)
<1>1. v[1] \in Nat /\ v[2] \in Nat /\ v[3] \in Nat
  BY DEF Version
<1> QED
  BY <1>1 DEF Exceeds

\* What is known of the first version.
LEMMA UnreleasedCounted == Unreleased \in Contract /\ Counted(Unreleased, {Unreleased})
<1>1. Unreleased \in Contract /\ Unreleased.version = First /\ Unreleased.content = {}
  BY ReleaseFlowAssumption DEF Unreleased, Contract
<1>2. First[1] \in Nat /\ First[2] \in Nat /\ First[3] \in Nat
  BY ReleaseFlowAssumption DEF Version
<1>3. Majors({}) = {} /\ Minors({}) = {} /\ IsFiniteSet({}) /\ Cardinality({}) = 0
  BY FS_EmptySet DEF Majors, Minors
<1>4. {} \ {} = {}
  OBVIOUS
<1>5. SinceMajor(Unreleased, Unreleased)
  BY <1>1, <1>2, <1>3, <1>4 DEF SinceMajor
<1>6. SinceMinor(Unreleased, Unreleased)
  BY <1>1, <1>2, <1>3, <1>4 DEF SinceMinor
<1> QED
  BY <1>1, <1>2, <1>3, <1>5, <1>6 DEF Counted

\* SemaPact's next version goes on counting.
LEMMA NextCounted ==
  ASSUME NEW known \in SUBSET Contract, NEW x \in known, Counted(x, known),
         NEW c \in Changes \ x.content, NEW y \in Contract,
         y.version = SemapactVersion(x.version, Bump[c]),
         y.content = x.content \cup {c}
  PROVE  Counted(y, known \cup {y})
<1>1. /\ x.version[1] \in Nat /\ x.version[2] \in Nat /\ x.version[3] \in Nat
      /\ First[1] \in Nat
  BY ReleaseFlowAssumption DEF Contract, Version
<1>2. IsFiniteSet(x.content) /\ x.version[1] = First[1] + Cardinality(Majors(x.content))
  BY DEF Counted
<1>3. IsFiniteSet(y.content) /\ y.content \ y.content = {}
  BY <1>2, CountOfNext
<1>4. IsFiniteSet(Majors(x.content)) /\ Cardinality(Majors(x.content)) \in Nat
  BY <1>2, CountOfSubset DEF Majors
<1>5. Majors({}) = {} /\ Minors({}) = {} /\ Cardinality({}) = 0
  BY FS_EmptySet DEF Majors, Minors
<1>6. PICK a \in known : SinceMajor(x, a)
  BY DEF Counted
<1>7. PICK e \in known : SinceMinor(x, e)
  BY DEF Counted
<1>8. /\ a.content \subseteq x.content /\ e.content \subseteq x.content
      /\ a.version[2] \in Nat /\ e.version[3] \in Nat
      /\ y.content \ a.content = (x.content \ a.content) \cup {c}
      /\ y.content \ e.content = (x.content \ e.content) \cup {c}
  BY <1>6, <1>7 DEF SinceMajor, SinceMinor, Contract, Version
<1>9. CASE Bump[c] = "major"
  <2>1. y.version = <<x.version[1] + 1, 0, 0>>
    BY <1>9 DEF SemapactVersion, IncrementVersion
  <2>2. Majors(y.content) = Majors(x.content) \cup {c} /\ c \notin Majors(x.content)
    BY <1>9 DEF Majors
  <2>3. Cardinality(Majors(y.content)) = Cardinality(Majors(x.content)) + 1
    BY <1>4, <2>2, CountOfNext
  <2>4. y.version[1] = First[1] + Cardinality(Majors(y.content))
    BY <1>1, <1>2, <1>4, <2>1, <2>3
  <2>5. SinceMajor(y, y) /\ SinceMinor(y, y)
    BY <1>3, <1>5, <2>1 DEF SinceMajor, SinceMinor
  <2> QED
    BY <1>3, <2>4, <2>5 DEF Counted
<1>10. CASE Bump[c] = "minor"
  <2>1. y.version = <<x.version[1], x.version[2] + 1, 0>>
    BY <1>10 DEF SemapactVersion, IncrementVersion
  <2>2. Majors(y.content) = Majors(x.content)
    BY <1>10 DEF Majors
  <2>3. y.version[1] = First[1] + Cardinality(Majors(y.content))
    BY <1>2, <2>1, <2>2
  <2>4. SinceMajor(y, a)
    <3>1. /\ Majors(y.content \ a.content) = Majors(x.content \ a.content)
          /\ Minors(y.content \ a.content) = Minors(x.content \ a.content) \cup {c}
          /\ c \notin Minors(x.content \ a.content)
      BY <1>8, <1>10 DEF Majors, Minors
    <3>2. IsFiniteSet(Minors(x.content \ a.content))
      BY <1>2, CountOfSubset DEF Minors
    <3>3. /\ Cardinality(Minors(y.content \ a.content))
               = Cardinality(Minors(x.content \ a.content)) + 1
          /\ Cardinality(Minors(x.content \ a.content)) \in Nat
      BY <3>1, <3>2, CountOfNext
    <3>4. y.version[2] = a.version[2] + Cardinality(Minors(y.content \ a.content))
      BY <1>6, <1>8, <2>1, <3>3 DEF SinceMajor
    <3>5. y.version[1] = a.version[1] /\ a.content \subseteq y.content
      BY <1>6, <1>8, <2>1 DEF SinceMajor
    <3> QED
      BY <1>6, <3>1, <3>4, <3>5 DEF SinceMajor
  <2>5. SinceMinor(y, y)
    BY <1>3, <1>5, <2>1 DEF SinceMinor
  <2> QED
    BY <1>3, <2>3, <2>4, <2>5 DEF Counted
<1>11. CASE Bump[c] = "none"
  <2>1. y.version = <<x.version[1], x.version[2], x.version[3] + 1>>
    BY <1>11 DEF SemapactVersion, IncrementVersion
  <2>2. Majors(y.content) = Majors(x.content)
    BY <1>11 DEF Majors
  <2>3. y.version[1] = First[1] + Cardinality(Majors(y.content))
    BY <1>2, <2>1, <2>2
  <2>4. SinceMajor(y, a)
    <3>1. /\ Majors(y.content \ a.content) = Majors(x.content \ a.content)
          /\ Minors(y.content \ a.content) = Minors(x.content \ a.content)
      BY <1>8, <1>11 DEF Majors, Minors
    <3>2. y.version[1] = x.version[1] /\ y.version[2] = x.version[2]
      BY <2>1
    <3>3. a.content \subseteq y.content
      BY <1>8
    <3> QED
      BY <1>6, <3>1, <3>2, <3>3 DEF SinceMajor
  <2>5. SinceMinor(y, e)
    <3>1. IsFiniteSet(x.content \ e.content) /\ c \notin x.content \ e.content
      BY <1>2, CountOfSubset
    <3>2. /\ Cardinality(y.content \ e.content) = Cardinality(x.content \ e.content) + 1
          /\ Cardinality(x.content \ e.content) \in Nat
      BY <1>8, <3>1, CountOfNext
    <3>3. y.version[3] = e.version[3] + Cardinality(y.content \ e.content)
      BY <1>7, <1>8, <2>1, <3>2 DEF SinceMinor
    <3> QED
      BY <1>7, <1>8, <1>11, <2>1, <3>3 DEF SinceMinor
  <2> QED
    BY <1>3, <2>3, <2>4, <2>5 DEF Counted
<1> QED
  BY <1>9, <1>10, <1>11, ReleaseFlowAssumption DEF RequiredBump


\* A larger choice of releases to count from.
LEMMA CountedMore ==
  ASSUME NEW x, NEW known, NEW more, known \subseteq more, Counted(x, known)
  PROVE  Counted(x, more)
BY DEF Counted

\* Where no version is used twice and none but the first precedes the first.
Distinct(known) ==
  /\ \A k, l \in known : k.version = l.version => k = l
  /\ \A k \in known : k = Unreleased \/ Exceeds(k.version, First)

\* a and e both raised the major part to one value, or both the minor part.
SameStretch(a, e) ==
  /\ a.version[1] = e.version[1]
  /\ \/ /\ a = Unreleased \/ (a.version[2] = 0 /\ a.version[3] = 0)
        /\ e = Unreleased \/ (e.version[2] = 0 /\ e.version[3] = 0)
     \/ /\ a.version[2] = e.version[2]
        /\ a = Unreleased \/ a.version[3] = 0
        /\ e = Unreleased \/ e.version[3] = 0

\* The release counted from is then the only one.
LEMMA OneAnchor ==
  ASSUME NEW known \in SUBSET Contract, Distinct(known),
         NEW a \in known, NEW e \in known,
         SameStretch(a, e)
  PROVE  a = e
<1> USE DEF SameStretch
<1>1. a.version \in Version /\ e.version \in Version /\ First \in Version
  BY ReleaseFlowAssumption DEF Contract
<1>2. /\ a.version[1] \in Nat /\ a.version[2] \in Nat /\ a.version[3] \in Nat
      /\ e.version[1] \in Nat /\ e.version[2] \in Nat /\ e.version[3] \in Nat
      /\ First[1] \in Nat /\ First[2] \in Nat /\ First[3] \in Nat
  BY <1>1 DEF Version
<1>3. CASE a # Unreleased /\ e # Unreleased
  <2>1. a.version[2] = e.version[2] /\ a.version[3] = e.version[3]
    BY <1>3
  <2>2. a.version = e.version
    BY <1>1, <2>1 DEF Version
  <2> QED
    BY <2>2 DEF Distinct
<1>4. Unreleased.version = First
  BY DEF Unreleased
<1>5. ASSUME NEW k \in {a, e}, k # Unreleased, Unreleased \in {a, e} PROVE FALSE
  <2>1. Exceeds(k.version, First)
    BY <1>5 DEF Distinct
  <2>2. k.version[1] = First[1] /\ k.version[3] = 0
        /\ (k.version[2] = 0 \/ k.version[2] = First[2])
    BY <1>4, <1>5
  <2> QED
    BY <1>2, <2>1, <2>2 DEF Exceeds
<1> QED
  BY <1>3, <1>5

LEMMA CountsOrder ==
  ASSUME NEW known \in SUBSET Contract, Distinct(known),
         NEW x \in known, NEW y \in known, Counted(x, known), Counted(y, known),
         x.content \subseteq y.content, x # y
  PROVE  /\ Exceeds(y.version, x.version)
         /\ \A c \in y.content \ x.content :
              BumpSatisfies(ClassifyBump(x.version, y.version), Bump[c])
<1>1. /\ x.version[1] \in Nat /\ x.version[2] \in Nat /\ x.version[3] \in Nat
      /\ y.version[1] \in Nat /\ y.version[2] \in Nat /\ y.version[3] \in Nat
      /\ First[1] \in Nat
  BY ReleaseFlowAssumption DEF Contract, Version
<1>2. \A c \in y.content : Bump[c] \in RequiredBump
  BY ReleaseFlowAssumption DEF Contract
<1>3. IsFiniteSet(y.content)
  BY DEF Counted
<1>4. x.version[1] <= y.version[1]
  <2>1. Majors(x.content) \subseteq Majors(y.content) /\ IsFiniteSet(Majors(y.content))
    BY <1>3, CountOfSubset DEF Majors
  <2>2. /\ Cardinality(Majors(x.content)) <= Cardinality(Majors(y.content))
        /\ Cardinality(Majors(x.content)) \in Nat /\ Cardinality(Majors(y.content)) \in Nat
    BY <2>1, CountOfSubset
  <2> QED
    BY <1>1, <2>2 DEF Counted
<1>5. CASE x.version[1] < y.version[1]
  <2>1. ClassifyBump(x.version, y.version) = "major"
    BY <1>1, <1>5 DEF ClassifyBump
  <2> QED
    BY <1>1, <1>2, <1>5, <2>1 DEF Exceeds, BumpSatisfies, VersionRank, RequiredBump
<1>6. CASE x.version[1] = y.version[1]
  <2>1. PICK a \in known : SinceMajor(x, a)
    BY DEF Counted
  <2>2. PICK e \in known : SinceMajor(y, e)
    BY DEF Counted
  <2>3. a = e
    <3>1. SameStretch(a, e)
      BY <1>6, <2>1, <2>2 DEF SinceMajor, SameStretch
    <3> QED
      BY <3>1, OneAnchor
  <2>4. ASSUME NEW c \in y.content \ x.content PROVE Bump[c] \in {"none", "minor"}
    <3>1. c \in y.content \ a.content /\ Majors(y.content \ a.content) = {}
      BY <2>1, <2>2, <2>3 DEF SinceMajor
    <3> QED
      BY <1>2, <3>1 DEF Majors, RequiredBump
  <2>5. x.version[2] <= y.version[2]
    <3>1. /\ Minors(x.content \ a.content) \subseteq Minors(y.content \ a.content)
          /\ IsFiniteSet(Minors(y.content \ a.content))
      BY <1>3, CountOfSubset DEF Minors
    <3>2. /\ Cardinality(Minors(x.content \ a.content))
               <= Cardinality(Minors(y.content \ a.content))
          /\ Cardinality(Minors(x.content \ a.content)) \in Nat
          /\ Cardinality(Minors(y.content \ a.content)) \in Nat
      BY <3>1, CountOfSubset
    <3>3. a.version[2] \in Nat
      BY DEF Contract, Version
    <3> QED
      BY <2>1, <2>2, <2>3, <3>2, <3>3 DEF SinceMajor
  <2>6. CASE x.version[2] < y.version[2]
    <3>1. ClassifyBump(x.version, y.version) = "minor"
      BY <1>1, <1>6, <2>6 DEF ClassifyBump
    <3>2. Exceeds(y.version, x.version)
      BY <1>1, <1>6, <2>6 DEF Exceeds
    <3> QED
      BY <2>4, <3>1, <3>2 DEF BumpSatisfies, VersionRank
  <2>7. CASE x.version[2] = y.version[2]
    <3>1. PICK f \in known : SinceMinor(x, f)
      BY DEF Counted
    <3>2. PICK g \in known : SinceMinor(y, g)
      BY DEF Counted
    <3>3. f = g
      <4>1. SameStretch(f, g)
        BY <1>6, <2>7, <3>1, <3>2 DEF SinceMinor, SameStretch
      <4> QED
        BY <4>1, OneAnchor
    <3>4. /\ Cardinality(x.content \ f.content) <= Cardinality(y.content \ f.content)
          /\ Cardinality(x.content \ f.content) \in Nat
          /\ Cardinality(y.content \ f.content) \in Nat
          /\ Cardinality(x.content \ f.content) = Cardinality(y.content \ f.content)
             => x.content \ f.content = y.content \ f.content
      <4>1. x.content \ f.content \subseteq y.content \ f.content
            /\ IsFiniteSet(y.content \ f.content)
        BY <1>3, CountOfSubset
      <4> QED
        BY <4>1, CountOfSubset
    <3>5. f.version[3] \in Nat
      BY DEF Contract, Version
    <3>6. x.version[3] # y.version[3]
      <4>1. x.version # y.version
        BY DEF Distinct
      <4>2. x.version \in Version /\ y.version \in Version
        BY DEF Contract
      <4> QED
        BY <1>6, <2>7, <4>1, <4>2 DEF Version
    <3>7. x.version[3] < y.version[3]
      BY <1>1, <3>1, <3>2, <3>3, <3>4, <3>5, <3>6 DEF SinceMinor
    <3>8. Exceeds(y.version, x.version) /\ ClassifyBump(x.version, y.version) = "patch"
      BY <1>1, <1>6, <2>7, <3>7 DEF Exceeds, ClassifyBump
    <3>9. ASSUME NEW c \in y.content \ x.content PROVE Bump[c] = "none"
      <4>1. c \in y.content \ f.content
        BY <3>1 DEF SinceMinor
      <4> QED
        BY <3>2, <3>3, <4>1 DEF SinceMinor
    <3> QED
      BY <3>8, <3>9 DEF BumpSatisfies, VersionRank
  <2> QED
    BY <1>1, <2>5, <2>6, <2>7
<1> QED
  BY <1>1, <1>4, <1>5, <1>6

\* Every bundle's version counts from the releases, or from itself.
Counting == \A b \in bundles : Counted(Released(b), Known \cup {Released(b)})

LEMMA KnownGrows ==
  ASSUME [Next]_vars
  PROVE  Known \subseteq Known'
BY StepGrows DEF Growth, Known, Unreleased, Released

LEMMA CountingStep ==
  ASSUME Tags = {}
  PROVE  ReleaseInv /\ Counting /\ [Next]_vars => Counting'
<1> SUFFICES ASSUME ReleaseInv, Counting, [Next]_vars, NEW b \in bundles'
             PROVE  Counted(Released(b), Known' \cup {Released(b)})
  BY DEF Counting, Counted, SinceMajor, SinceMinor, Released, Unreleased, Majors, Minors
<1>0. TypeOK /\ TypeOK' /\ Lineage
  BY TypeStep DEF ReleaseInv
<1>1. CASE b \in bundles
  <2>1. Counted(Released(b), Known \cup {Released(b)})
    BY <1>1 DEF Counting
  <2>2. Known \cup {Released(b)} \subseteq Known' \cup {Released(b)}
    BY KnownGrows
  <2> QED
    BY <2>1, <2>2, CountedMore
<1>2. CASE b \notin bundles
  <2>1. PICK c \in Changes \ contract.content, rev \in Revisions, tags \in Authorities :
        \E v \in SelectableVersions(contract.version, Bump[c], tags) :
          b = [base |-> contract, change |-> c, revision |-> rev, version |-> v]
    BY <1>2, NewBundle
  <2>2. b = [base |-> contract, change |-> c, revision |-> rev,
             version |-> SemapactVersion(contract.version, Bump[c])]
    BY <2>1 DEF SelectableVersions, Authorities
  <2>3. contract \in Known
    BY <1>0, <1>2, NewBundle DEF Lineage, Known, Unreleased
  <2>4. Known \in SUBSET Contract
    BY <1>0, UnreleasedCounted, ReleasedType DEF Known, TypeOK
  <2>5. Counted(contract, Known)
    <3>1. CASE contract = Unreleased
      BY <3>1, UnreleasedCounted, CountedMore DEF Known
    <3>2. CASE \E r \in releases : contract = Released(r)
      <4>1. PICK r \in releases : contract = Released(r)
        BY <3>2
      <4>2. Counted(contract, Known \cup {contract})
        BY <1>0, <4>1 DEF Counting, TypeOK
      <4>3. Known \cup {contract} \subseteq Known
        BY <2>3
      <4> QED
        BY <4>2, <4>3, CountedMore
    <3> QED
      BY <2>3, <3>1, <3>2 DEF Known
  <2>6. /\ Released(b) \in Contract
        /\ Released(b).version = SemapactVersion(contract.version, Bump[c])
        /\ Released(b).content = contract.content \cup {c}
    <3>1. b \in Bundle
      BY <1>0 DEF TypeOK
    <3> QED
      BY <2>2, <3>1, ReleasedType DEF Released
  <2>7. Counted(Released(b), Known \cup {Released(b)})
    BY <2>3, <2>4, <2>5, <2>6, NextCounted
  <2>8. Known \cup {Released(b)} \subseteq Known' \cup {Released(b)}
    BY KnownGrows
  <2> QED
    BY <2>7, <2>8, CountedMore
<1> QED
  BY <1>1, <1>2

\* Under the SemaPact authority (there are no tags), and if no two bundles of one version are
\* published at the same time, a release that contains another has the higher
\* version, by as much as what it has on top requires, whatever was released
\* in between and in whatever order.
THEOREM VersionsTellContent ==
  ASSUME Tags = {}
  PROVE  Spec /\ []OnePublicationPerVersion => []VersionsOrderContent
<1>1. Init => LoneReleases /\ Counting
  BY DEF Init, LoneReleases, In, Idle, Counting
<1>2. ReleaseInv /\ LoneReleases /\ Counting => VersionsOrderContent
  <2> SUFFICES ASSUME ReleaseInv, LoneReleases, Counting,
                      NEW r \in releases, NEW b \in releases,
                      Released(r).content \subseteq Released(b).content,
                      Released(r) # Released(b)
               PROVE  /\ Exceeds(Released(b).version, Released(r).version)
                      /\ \A c \in Released(b).content \ Released(r).content :
                           BumpSatisfies(ClassifyBump(Released(r).version,
                                                      Released(b).version), Bump[c])
    BY DEF VersionsOrderContent
  <2>1. TypeOK /\ r \in bundles /\ b \in bundles
    BY DEF ReleaseInv, TypeOK
  <2>2. Released(r) \in Known /\ Released(b) \in Known
    BY DEF Known
  <2>3. Known \in SUBSET Contract
    BY <2>1, UnreleasedCounted, ReleasedType DEF Known, TypeOK
  <2>4. Known \cup {Released(r)} = Known /\ Known \cup {Released(b)} = Known
    BY <2>2
  <2>5. Counted(Released(r), Known) /\ Counted(Released(b), Known)
    BY <2>1, <2>4 DEF Counting
  <2>6. \A s \in releases : Exceeds(Released(s).version, First)
    BY <2>1 DEF ReleaseInv, Accumulation, Accumulated, TypeOK, Released
  <2>7. \A s, t \in releases : Released(s).version = Released(t).version => s = t
    BY DEF LoneReleases, Released
  <2>8. Unreleased.version = First /\ ~Exceeds(First, First)
    BY ExceedsDiffers, ReleaseFlowAssumption DEF Unreleased
  <2>9. Distinct(Known)
    BY <2>6, <2>7, <2>8 DEF Distinct, Known
  <2> QED
    BY <2>2, <2>3, <2>5, <2>9, CountsOrder
<1> QED
  BY <1>1, <1>2, LoneStep, CountingStep, ReleaseInvStep, ReleaseInvInit, PTL DEF Spec
=============================================================================

----------------------------- MODULE Deployment -----------------------------
(***************************************************************************)
(* DeploymentWorkflowService.deploy against a Databricks warehouse: CI jobs*)
(* (deployers) each observe, preview, re-observe, execute, verify and, for *)
(* a finalized release, project provenance tags, one API call at a time.   *)
(* Jobs, statements they lost track of and changes made outside SemaPact   *)
(* interleave freely: nothing in the code locks the runtime.               *)
(*                                                                         *)
(* A plan is a validated bundle; its physical column names are its logical *)
(* ones (SchemaConvergence has the other case).  The release a plan is     *)
(* derived from is identified with the plan.                               *)
(***************************************************************************)
EXTENDS SchemaConvergence, Naturals, FiniteSets

CONSTANTS
  Deployers,    \* CI jobs
  Tables,       \* governed assets, numbered in the order of the plan's actions
  Plans,        \* deployment bundles
  Releases,     \* those of a finalized release; the others are candidates
  Governed,     \* tables each plan governs
  Desired,      \* target schema of every table under every plan
  OutsideTables,\* states a table starts in or is brought to from outside
  None,
  MaxFaults,    \* bound: errors, lost statements and crashes
  MaxDrifts     \* bound: changes from outside

ASSUME DeploymentAssumption ==
  /\ Tables \subseteq Nat
  /\ Releases \subseteq Plans
  /\ Governed \in [Plans -> SUBSET Tables]
  /\ Desired \in [Plans -> [Tables -> Target]]
  /\ OutsideTables \subseteq Table \cup {NoTable}
  /\ None \notin Plans
  /\ MaxFaults \in Nat /\ MaxDrifts \in Nat

VARIABLES
  table,    \* the runtime's tables
  tags,     \* the release each table is tagged with
  job,      \* what each deployer is doing
  pending,  \* statements nobody waits for that the warehouse still runs
  outcome,  \* what each deployer last reported
  drifted,  \* tables that were changed from outside
  faults, drifts

vars == <<table, tags, job, pending, outcome, drifted, faults, drifts>>

Seen == [table : Table \cup {NoTable}, tag : Plans \cup {None}]
Observation == [Tables -> Seen]
Unseen == [t \in Tables |-> [table |-> NoTable, tag |-> None]]

Phases == {"idle", "preview", "recheck", "execute", "verify",
           "tags", "unset", "set", "succeed", "fail"}
Statuses == {"NONE", "IN_SYNC", "DRIFT", "INDETERMINATE"}

\* todo is what the phase's loop has not come to; seen what it has observed.
Job == [phase : Phases, plan : Plans \cup {None}, todo : SUBSET Tables,
        seen : Observation, preview : Observation, status : Statuses]
Idle == [phase |-> "idle", plan |-> None, todo |-> {},
         seen |-> Unseen, preview |-> Unseen, status |-> "NONE"]

Statement == [kind : {"schema", "unset", "set"}, on : Tables,
              op : Operation, tag : Plans \cup {None}]
NoOperation == [kind |-> "NO_OP", columns |-> [c \in Columns |-> Absent]]

Outcome == [plan : Plans \cup {None}, raised : BOOLEAN, status : Statuses]

Init ==
  /\ table \in [Tables -> OutsideTables]
  /\ tags = [t \in Tables |-> None]
  /\ job = [d \in Deployers |-> Idle]
  /\ pending = {}
  /\ outcome = [d \in Deployers |-> [plan |-> None, raised |-> FALSE, status |-> "NONE"]]
  /\ drifted = {}
  /\ faults = 0 /\ drifts = 0

----------------------------------------------------------------------------
(* Control. *)

In(d, phase) == job[d].phase = phase
Scope(d) == Governed[job[d].plan]
Want(d, t) == Desired[job[d].plan][t]

\* The loop of the phase is over, or t is the table it comes to next.
Done(d) == job[d].todo = {}
At(d, t) == t \in job[d].todo /\ \A u \in job[d].todo : t <= u

Becomes(d, j) == job' = [job EXCEPT ![d] = j]
Goto(d, phase) == [job[d] EXCEPT !.phase = phase]
Loop(d, phase) == [job[d] EXCEPT !.phase = phase, !.todo = Scope(d), !.seen = Unseen]
Advance(d, t, phase) == [job[d] EXCEPT !.phase = phase, !.todo = @ \ {t}]

Runtime == <<table, tags, pending, drifted>>

\* The call returns or raises: only what it reports is kept.
Leave(d, phase) ==
  [Idle EXCEPT !.phase = phase, !.plan = job[d].plan, !.status = job[d].status]

\* An exception: deploy records a failure and re-raises.
Raise(d) == Becomes(d, Leave(d, "fail")) /\ UNCHANGED Runtime

Step == UNCHANGED <<outcome, faults, drifts>>
Fault == faults < MaxFaults /\ faults' = faults + 1 /\ UNCHANGED drifts

----------------------------------------------------------------------------
(* The statements of a job and what they do to a table. *)

\* The statement d is about to run on t: a compiled operation, or a tag write.
Running(d, t) ==
  [kind |-> IF In(d, "execute") THEN "schema" ELSE job[d].phase,
   on |-> t,
   op |-> IF In(d, "execute") THEN Transition(Want(d, t), job[d].preview[t].table)
          ELSE NoOperation,
   tag |-> IF In(d, "set") THEN job[d].plan ELSE None]

\* d is at a statement: NO_OP operations are skipped.
Issues(d, t) ==
  /\ job[d].phase \in {"execute", "unset", "set"}
  /\ At(d, t)
  /\ In(d, "execute") => Running(d, t).op.kind # "NO_OP"

Accepted(s) == IF s.kind = "schema" THEN Executable(s.op, table[s.on]) ELSE table[s.on] # NoTable

Effect(s) ==
  /\ table' = IF s.kind = "schema"
              THEN [table EXCEPT ![s.on] = Executed(s.op, @)] ELSE table
  /\ tags' = IF s.kind = "schema" THEN tags ELSE [tags EXCEPT ![s.on] = s.tag]

----------------------------------------------------------------------------
(* deploy: preview, apply, verify, project, record. *)

Deploy(d, p) ==
  /\ In(d, "idle")
  /\ Becomes(d, [Idle EXCEPT !.phase = "preview", !.plan = p, !.todo = Governed[p]])
  /\ UNCHANGED Runtime /\ Step

\* The provider observes one table after another: first the table itself, which
\* may not be there ...
ObserveTable(d, t) ==
  /\ job[d].phase \in {"preview", "recheck", "verify"} /\ At(d, t)
  /\ job[d].seen[t].table = NoTable
  /\ Becomes(d, [job[d] EXCEPT !.todo = IF table[t] = NoTable THEN @ \ {t} ELSE @,
                              !.seen = [@ EXCEPT ![t] = [table |-> table[t], tag |-> None]]])
  /\ UNCHANGED Runtime /\ Step

\* ... and then its tags, which are part of the fingerprint; a table dropped in
\* between counts as absent.
ObserveTags(d, t) ==
  /\ job[d].phase \in {"preview", "recheck", "verify"} /\ At(d, t)
  /\ job[d].seen[t].table # NoTable
  /\ Becomes(d, [job[d] EXCEPT !.todo = @ \ {t},
                              !.seen = [@ EXCEPT ![t] =
                                IF table[t] = NoTable THEN Unseen[t]
                                ELSE [table |-> job[d].seen[t].table, tag |-> tags[t]]]])
  /\ UNCHANGED Runtime /\ Step

Observe(d, t) == ObserveTable(d, t) \/ ObserveTags(d, t)

\* An operation is derived for every table before anything is executed.
Preview(d) ==
  /\ In(d, "preview") /\ Done(d)
  /\ IF \A t \in Scope(d) : Plannable(Want(d, t), job[d].seen[t].table)
     THEN /\ Becomes(d, [Loop(d, "recheck") EXCEPT !.preview = job[d].seen])
          /\ UNCHANGED Runtime
     ELSE Raise(d)
  /\ Step

\* apply observes again and refuses a runtime that has changed.
CheckFresh(d) ==
  /\ In(d, "recheck") /\ Done(d)
  /\ IF job[d].seen = job[d].preview
     THEN Becomes(d, Loop(d, "execute")) /\ UNCHANGED Runtime
     ELSE Raise(d)
  /\ Step

SkipNoOp(d, t) ==
  /\ In(d, "execute") /\ At(d, t) /\ Running(d, t).op.kind = "NO_OP"
  /\ Becomes(d, Advance(d, t, "execute"))
  /\ UNCHANGED Runtime /\ Step

\* A statement runs to a terminal state: it succeeds, or the platform refuses it.
RunStatement(d, t) ==
  /\ Issues(d, t)
  /\ IF Accepted(Running(d, t))
     THEN /\ Effect(Running(d, t))
          /\ Becomes(d, IF In(d, "unset") THEN Goto(d, "set")
                        ELSE Advance(d, t, IF In(d, "set") THEN "tags" ELSE "execute"))
          /\ UNCHANGED <<pending, drifted>>
     ELSE Raise(d)
  /\ Step

StartVerify(d) ==
  /\ In(d, "execute") /\ Done(d)
  /\ Becomes(d, [Loop(d, "verify") EXCEPT !.preview = Unseen])
  /\ UNCHANGED Runtime /\ Step

\* One status for the whole scope.
Verdict(d) ==
  LET statuses == {Classified(Want(d, t), job[d].seen[t].table) : t \in Scope(d)}
  IN IF "DRIFT" \in statuses THEN "DRIFT"
     ELSE IF "INDETERMINATE" \in statuses THEN "INDETERMINATE"
     ELSE "IN_SYNC"

\* Only a finalized release found in sync is projected onto the runtime.
Projects(d) == job[d].plan \in Releases /\ Verdict(d) = "IN_SYNC"

Classify(d) ==
  /\ In(d, "verify") /\ Done(d)
  /\ Becomes(d, [(IF Projects(d) THEN Loop(d, "tags") ELSE Leave(d, "succeed"))
                    EXCEPT !.status = Verdict(d)])
  /\ UNCHANGED Runtime /\ Step

\* Defect: a table that has a tag is left alone.
KeepsAnyTag(d, t) ==
  /\ In(d, "tags") /\ At(d, t)
  /\ Becomes(d, IF tags[t] # None THEN Advance(d, t, "tags") ELSE Goto(d, "set"))
  /\ UNCHANGED Runtime /\ Step

\* Tags that say the release already are left alone, others first removed.
ReadTags(d, t) ==
  /\ In(d, "tags") /\ At(d, t)
  /\ Becomes(d, IF tags[t] = job[d].plan THEN Advance(d, t, "tags")
                ELSE Goto(d, IF tags[t] = None THEN "set" ELSE "unset"))
  /\ UNCHANGED Runtime /\ Step

FinishTags(d) ==
  /\ In(d, "tags") /\ Done(d)
  /\ Becomes(d, Leave(d, "succeed"))
  /\ UNCHANGED Runtime /\ Step

Report(d, raised) ==
  /\ outcome' = [outcome EXCEPT ![d] = [plan |-> job[d].plan, raised |-> raised,
                                        status |-> job[d].status]]
  /\ Becomes(d, Idle)
  /\ UNCHANGED Runtime

RecordSuccess(d) == In(d, "succeed") /\ Report(d, FALSE) /\ UNCHANGED <<faults, drifts>>

\* Whether or not the event could be stored, the caller sees an exception.
RecordFailure(d) == In(d, "fail") /\ Report(d, TRUE) /\ UNCHANGED <<faults, drifts>>

----------------------------------------------------------------------------
(* What goes wrong. *)

\* The operational history sink raises after the deployment succeeded.
SinkFails(d) == In(d, "succeed") /\ Report(d, TRUE) /\ Fault

\* A call to the platform raises before it has any effect.
PlatformError(d) ==
  /\ job[d].phase \notin {"idle", "succeed", "fail"}
  /\ Raise(d) /\ Fault /\ UNCHANGED outcome

\* Polling gives up, or a poll raises: the warehouse goes on without the job.
LoseStatement(d, t) ==
  /\ Issues(d, t)
  /\ pending' = pending \cup {Running(d, t)}
  /\ Becomes(d, Leave(d, "fail"))
  /\ Fault /\ UNCHANGED <<table, tags, drifted, outcome>>

\* The job is killed, possibly just after it submitted a statement.
Crash(d) ==
  /\ ~In(d, "idle")
  /\ Becomes(d, Idle)
  /\ \/ UNCHANGED pending
     \/ \E t \in Tables : Issues(d, t) /\ pending' = pending \cup {Running(d, t)}
  /\ Fault /\ UNCHANGED <<table, tags, drifted, outcome>>

\* The warehouse comes to a statement nobody waits for; it may also cancel it.
Land(s) ==
  /\ s \in pending
  /\ pending' = pending \ {s}
  /\ \/ Accepted(s) /\ Effect(s)
     \/ UNCHANGED <<table, tags>>
  /\ UNCHANGED <<job, drifted>> /\ Step

\* Somebody changes a table outside SemaPact; one that is dropped loses its tags.
Drift(t) ==
  /\ drifts < MaxDrifts /\ drifts' = drifts + 1
  /\ \E u \in OutsideTables :
       /\ u # table[t]
       /\ table' = [table EXCEPT ![t] = u]
       /\ tags' = IF u = NoTable THEN [tags EXCEPT ![t] = None] ELSE tags
  /\ drifted' = drifted \cup {t}
  /\ UNCHANGED <<job, pending, outcome, faults>>

----------------------------------------------------------------------------

Deliberate(d) ==
  \/ Preview(d) \/ CheckFresh(d) \/ StartVerify(d) \/ Classify(d)
  \/ FinishTags(d) \/ RecordSuccess(d) \/ RecordFailure(d)
  \/ \E t \in Tables : Observe(d, t) \/ SkipNoOp(d, t) \/ RunStatement(d, t) \/ ReadTags(d, t)

GoesWrong(d) ==
  \/ SinkFails(d) \/ PlatformError(d) \/ Crash(d)
  \/ \E t \in Tables : LoseStatement(d, t)

Next ==
  \/ \E d \in Deployers :
       \/ \E p \in Plans : Deploy(d, p)
       \/ Deliberate(d)
       \/ GoesWrong(d)
  \/ \E s \in pending : Land(s)
  \/ \E t \in Tables : Drift(t)

Spec == Init /\ [][Next]_vars

TypeOK ==
  /\ table \in [Tables -> Table \cup {NoTable}]
  /\ tags \in [Tables -> Plans \cup {None}]
  /\ job \in [Deployers -> Job]
  /\ pending \subseteq Statement
  /\ outcome \in [Deployers -> Outcome]
  /\ drifted \subseteq Tables
  /\ faults \in 0..MaxFaults /\ drifts \in 0..MaxDrifts

\* A table has what the plan wants of it, unless it was changed from outside.
Delivered(p) ==
  \A t \in Governed[p] \ drifted : Provides(Desired[p][t], table[t])

\* No step of a deployment, of a crashed one or of a statement left running ever
\* takes away or alters a table or a column the runtime has, whatever else races
\* with it between its observation and its statements.
AdditiveOnly ==
  [][drifts' = drifts => \A t \in Tables : Extends(table'[t], table[t])]_vars

\* A deployment that reports IN_SYNC, even one that failed later, has delivered
\* every governed table, and it stays delivered, although the verifier reads one
\* table after another while other jobs and abandoned statements go on.
InSyncDelivered ==
  \A d \in Deployers : outcome[d].status = "IN_SYNC" => Delivered(outcome[d].plan)

\* A provenance tag tells the truth: a table that is tagged with a release is so
\* only when the runtime had all of that release's tables, late writes included.
TagsTruthful ==
  \A t \in Tables : tags[t] # None => tags[t] \in Releases /\ Delivered(tags[t])

\* With one job and nothing lost or killed, a release whose deployment returned
\* IN_SYNC is tagged on all of its tables, whatever tags they had.
ReleaseProjected ==
  faults = 0 =>
  \A d \in Deployers :
    LET o == outcome[d]
    IN (In(d, "idle") /\ o.plan \in Releases /\ ~o.raised /\ o.status = "IN_SYNC")
         => \A t \in Governed[o.plan] \ drifted : tags[t] = o.plan
=============================================================================

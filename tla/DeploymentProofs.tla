-------------------------- MODULE DeploymentProofs --------------------------
(***************************************************************************)
(* Deployment is additive whatever interleaves, and what it reports or     *)
(* tags as delivered is delivered, for every number of jobs, tables, plans *)
(* and faults; a single job that nothing goes wrong with tags every table  *)
(* of a release it returns in sync.                                        *)
(***************************************************************************)
EXTENDS Deployment, TLAPS

Observed == Table \cup {NoTable}

----------------------------------------------------------------------------
(* One table. *)

\* What the planner emits is an operation over columns the contract states.
LEMMA TransitionType ==
  ASSUME NEW d \in Target, NEW t \in Observed
  PROVE  /\ Transition(d, t) \in Operation
         /\ Transition(d, t).kind = "CREATE" => \A c \in Columns : Transition(d, t).columns[c] = d[c]
<1>1. d \in Schema
  BY DEF Target, Schema, Column
<1>2. Additions(d, t) \in Schema
  BY <1>1 DEF Additions, Schema
<1>. QED
  BY <1>1, <1>2 DEF Transition, Operation, Additions

\* A statement the platform accepts yields a table and takes nothing away.
LEMMA ExecutedExtends ==
  ASSUME NEW op \in Operation, NEW t \in Observed, Executable(op, t)
  PROVE  Executed(op, t) \in Observed /\ Extends(Executed(op, t), t)
<1>0. NoTable \notin Table
  BY SchemaAssumption DEF SchemaAssumption
<1>1. CASE op.kind = "NO_OP"
  BY <1>1 DEF Executed, Extends, Observed
<1>2. CASE op.kind = "CREATE"
  <2>1. op.columns \in Schema
    BY DEF Operation
  <2>2. Executed(op, t) \in Table
    BY <1>2, <2>1 DEF Executed, Table
  <2>. QED
    BY <1>2, <2>2 DEF Executable, Extends, Observed
<1>3. CASE op.kind = "ALTER"
  <2>1. t \in Table /\ \A c \in Columns : op.columns[c] = Absent \/ t.columns[c] = Absent
    BY <1>3 DEF Executable, Observed
  <2>2. t.columns \in Schema /\ t.managed \in BOOLEAN /\ op.columns \in Schema
    BY <2>1 DEF Table, Operation
  <2>. DEFINE cols == [c \in Columns |-> IF op.columns[c] = Absent
                                         THEN t.columns[c] ELSE op.columns[c]]
  <2>3. cols \in Schema
    BY <2>2 DEF Schema
  <2>4. Executed(op, t) = [managed |-> t.managed, columns |-> cols]
    BY <1>3 DEF Executed
  <2>5. Executed(op, t) \in Table
    BY <2>2, <2>3, <2>4 DEF Table
  <2>6. \A c \in Columns : t.columns[c] # Absent => cols[c] = t.columns[c]
    BY <2>1
  <2>7. Extends(Executed(op, t), t)
    <3>1. Executed(op, t) # NoTable
      BY <2>5, <1>0
    <3>2. Executed(op, t).managed = t.managed /\ Executed(op, t).columns = cols
      BY <2>4
    <3>. QED
      BY <3>1, <3>2, <2>6 DEF Extends
  <2>. QED
    BY <2>5, <2>7 DEF Observed
<1>. QED
  BY <1>1, <1>2, <1>3 DEF Operation

\* What a table provides it still provides when it is extended.
LEMMA ProvidesMonotonic ==
  ASSUME NEW d \in Target, NEW t \in Observed, NEW u \in Observed,
         Extends(u, t), Provides(d, t)
  PROVE  Provides(d, u)
<1>0. \A c \in Columns : d[c] # Absent => t.columns[c] # Absent
  BY DEF Provides
<1>. QED
  BY <1>0 DEF Extends, Provides

LEMMA ExtendsTransitive ==
  ASSUME NEW t, NEW u, NEW v, Extends(u, t), Extends(v, u)
  PROVE  Extends(v, t)
BY DEF Extends

\* The verifier's IN_SYNC means the table has what the contract wants of it.
LEMMA InSyncProvides ==
  ASSUME NEW d \in Target, NEW t \in Observed, Classified(d, t) = "IN_SYNC"
  PROVE  Provides(d, t)
<1>1. t # NoTable /\ Missing(d, t.columns) = {} /\ Mismatched(d, t.columns) = {}
      /\ Unverified(d, t.columns) = {}
  BY DEF Classified, Differs
<1>2. SUFFICES ASSUME NEW c \in Columns, d[c] # Absent
               PROVE  t.columns[c] = d[c]
  BY <1>1 DEF Provides
<1>3. t.columns \in Schema
  BY <1>1 DEF Observed, Table
<1>4. t.columns[c] # Absent
  BY <1>1, <1>2 DEF Missing
<1>5. t.columns[c] \in Column
  BY <1>3, <1>4 DEF Schema
<1>6. d[c] \in [type : Types, nullable : BOOLEAN]
  BY <1>2 DEF Target
<1>7. d[c].type # Unknown /\ d[c].nullable # Unknown
  BY <1>6, SchemaAssumption DEF SchemaAssumption
<1>8. c \in Shared(d, t.columns)
  BY <1>2, <1>4 DEF Shared
<1>9. ~Unproven(d[c].type, t.columns[c].type) /\ ~Unproven(d[c].nullable, t.columns[c].nullable)
  BY <1>1, <1>8 DEF Unverified
<1>10. ~Contradicts(d[c].type, t.columns[c].type) /\ ~Contradicts(d[c].nullable, t.columns[c].nullable)
  BY <1>1, <1>8 DEF Mismatched
<1>11. t.columns[c].type = d[c].type /\ t.columns[c].nullable = d[c].nullable
  BY <1>7, <1>9, <1>10 DEF Unproven, Contradicts
<1>. QED
  BY <1>5, <1>6, <1>11 DEF Column

----------------------------------------------------------------------------
(* The inductive invariant.  It follows a job: what it has seen while it   *)
(* verifies it can still rely on, because nobody takes anything away, so   *)
(* IN_SYNC means delivered; only such a job writes tags, and the tag       *)
(* writes it may lose are of releases that are delivered.                  *)

Delivers(p, tab, gone) == \A t \in Governed[p] \ gone : Provides(Desired[p][t], tab[t])

Reliable(plan, status, tab, gone) ==
  status = "IN_SYNC" => plan \in Plans /\ Delivers(plan, tab, gone)

Sound(j, tab, gone) ==
  /\ j.phase # "idle" => j.plan \in Plans
  /\ j.phase \in {"tags", "unset", "set"} => j.plan \in Releases /\ j.status = "IN_SYNC"
  /\ Reliable(j.plan, j.status, tab, gone)
  /\ j.phase = "verify" =>
       \A t \in Governed[j.plan] \ gone : Extends(tab[t], j.seen[t].table)

Truthful(tag, tab, gone) == tag # None => tag \in Releases /\ Delivers(tag, tab, gone)

JobsSound == \A d \in Deployers : Sound(job[d], table, drifted)
OutcomesReliable ==
  \A d \in Deployers : Reliable(outcome[d].plan, outcome[d].status, table, drifted)
TagsSound == \A t \in Tables : Truthful(tags[t], table, drifted)
PendingSound == \A s \in pending : s.kind # "schema" => Truthful(s.tag, table, drifted)

DeploymentInv == TypeOK /\ JobsSound /\ OutcomesReliable /\ TagsSound /\ PendingSound

\* A table that nobody changed from outside only gains.
Grows ==
  /\ table \in [Tables -> Observed] /\ table' \in [Tables -> Observed]
  /\ drifted \subseteq drifted'
  /\ \A t \in Tables \ drifted' : Extends(table'[t], table[t])

\* What was delivered stays delivered.
LEMMA DeliversStable ==
  ASSUME Grows, NEW p \in Plans, Delivers(p, table, drifted)
  PROVE  Delivers(p, table', drifted')
<1>1. SUFFICES ASSUME NEW t \in Governed[p] \ drifted'
               PROVE  Provides(Desired[p][t], table'[t])
  BY DEF Delivers
<1>2. t \in Tables /\ Desired[p][t] \in Target
  BY DeploymentAssumption DEF DeploymentAssumption
<1>3. t \notin drifted /\ Extends(table'[t], table[t]) /\ table[t] \in Observed /\ table'[t] \in Observed
  BY <1>1, <1>2 DEF Grows
<1>4. Provides(Desired[p][t], table[t])
  BY <1>1, <1>3 DEF Delivers
<1>. QED
  BY <1>2, <1>3, <1>4, ProvidesMonotonic

LEMMA TruthfulStable ==
  ASSUME Grows, NEW tag, Truthful(tag, table, drifted)
  PROVE  Truthful(tag, table', drifted')
BY DeliversStable, DeploymentAssumption DEF Truthful, DeploymentAssumption

LEMMA ReliableStable ==
  ASSUME Grows, NEW plan, NEW status, Reliable(plan, status, table, drifted)
  PROVE  Reliable(plan, status, table', drifted')
BY DeliversStable DEF Reliable

LEMMA SoundStable ==
  ASSUME Grows, NEW j \in Job, Sound(j, table, drifted)
  PROVE  Sound(j, table', drifted')
<1>1. Reliable(j.plan, j.status, table', drifted')
  BY ReliableStable DEF Sound
<1>2. ASSUME j.phase = "verify", NEW t \in Governed[j.plan] \ drifted'
      PROVE  Extends(table'[t], j.seen[t].table)
  <2>1. j.plan \in Plans
    BY <1>2 DEF Sound
  <2>2. t \in Tables
    BY <2>1, DeploymentAssumption DEF DeploymentAssumption
  <2>3. t \notin drifted /\ Extends(table'[t], table[t])
    BY <1>2, <2>2 DEF Grows
  <2>4. Extends(table[t], j.seen[t].table)
    BY <1>2, <2>3 DEF Sound
  <2>. QED
    BY <2>3, <2>4, ExtendsTransitive
<1>. QED
  BY <1>1, <1>2 DEF Sound

----------------------------------------------------------------------------
(* Jobs and statements. *)

\* One job changes to a sound one, the runtime only grows: all stay sound.
LEMMA JobChanges ==
  ASSUME TypeOK, JobsSound, Grows, NEW d \in Deployers,
         NEW j \in Job, Sound(j, table', drifted'), Becomes(d, j)
  PROVE  job' \in [Deployers -> Job] /\ JobsSound'
<1>1. job \in [Deployers -> Job]
  BY DEF TypeOK
<1>2. job' \in [Deployers -> Job]
  BY <1>1 DEF Becomes
<1>3. ASSUME NEW e \in Deployers
      PROVE  Sound(job'[e], table', drifted')
  <2>1. CASE e = d
    BY <2>1, <1>1 DEF Becomes
  <2>2. CASE e # d
    <3>1. job'[e] = job[e]
      BY <2>2, <1>1 DEF Becomes
    <3>2. job[e] \in Job /\ Sound(job[e], table, drifted)
      BY <1>1 DEF JobsSound
    <3>. QED
      BY <3>1, <3>2, SoundStable
  <2>. QED BY <2>1, <2>2
<1>. QED
  BY <1>2, <1>3 DEF JobsSound

LEMMA NoneChange ==
  ASSUME TypeOK, Grows, UNCHANGED job, JobsSound
  PROVE  JobsSound'
<1>1. ASSUME NEW e \in Deployers
      PROVE  Sound(job'[e], table', drifted')
  <2>1. job[e] \in Job /\ Sound(job[e], table, drifted) /\ job'[e] = job[e]
    BY DEF TypeOK, JobsSound
  <2>. QED
    BY <2>1, SoundStable
<1>. QED
  BY <1>1 DEF JobsSound

\* What the helpers make of a job that is under way.
LEMMA JobShapes ==
  ASSUME TypeOK, JobsSound, NEW d \in Deployers, NEW t, NEW phase \in Phases, ~In(d, "idle")
  PROVE  /\ job[d] \in Job /\ job[d].plan \in Plans /\ Scope(d) \subseteq Tables
         /\ Goto(d, phase) \in Job
         /\ Goto(d, phase).phase = phase
         /\ Goto(d, phase).plan = job[d].plan /\ Goto(d, phase).status = job[d].status
         /\ Loop(d, phase) \in Job
         /\ Loop(d, phase).phase = phase /\ Loop(d, phase).todo = Scope(d)
         /\ Loop(d, phase).plan = job[d].plan /\ Loop(d, phase).status = job[d].status
         /\ Advance(d, t, phase) \in Job
         /\ Advance(d, t, phase).phase = phase
         /\ Advance(d, t, phase).plan = job[d].plan
         /\ Advance(d, t, phase).status = job[d].status
         /\ Leave(d, phase) \in Job
         /\ Leave(d, phase).phase = phase
         /\ Leave(d, phase).plan = job[d].plan /\ Leave(d, phase).status = job[d].status
<1>1. job[d] \in Job
  BY DEF TypeOK
<1>2. job[d].plan \in Plans
  BY DEF JobsSound, Sound, In
<1>3. Scope(d) \subseteq Tables
  BY <1>2, DeploymentAssumption DEF Scope, DeploymentAssumption
<1>4. Unseen \in Observation
  BY DEF Unseen, Observation, Seen
<1>5. Idle \in Job
  BY <1>4 DEF Idle, Job, Phases, Statuses
<1>6. /\ Goto(d, phase) \in Job
      /\ Goto(d, phase).phase = phase
      /\ Goto(d, phase).plan = job[d].plan /\ Goto(d, phase).status = job[d].status
  BY <1>1 DEF Goto, Job
<1>7. /\ Loop(d, phase) \in Job
      /\ Loop(d, phase).phase = phase /\ Loop(d, phase).todo = Scope(d)
      /\ Loop(d, phase).plan = job[d].plan /\ Loop(d, phase).status = job[d].status
  BY <1>1, <1>3, <1>4 DEF Loop, Job
<1>8. /\ Advance(d, t, phase) \in Job
      /\ Advance(d, t, phase).phase = phase
      /\ Advance(d, t, phase).plan = job[d].plan /\ Advance(d, t, phase).status = job[d].status
  BY <1>1 DEF Advance, Job
<1>9. /\ Leave(d, phase) \in Job
      /\ Leave(d, phase).phase = phase
      /\ Leave(d, phase).plan = job[d].plan /\ Leave(d, phase).status = job[d].status
  BY <1>1, <1>4 DEF Leave, Job, Idle
<1>. QED
  BY <1>1, <1>2, <1>3, <1>6, <1>7, <1>8, <1>9

\* A job that keeps its plan and status stays sound: it may start to verify, but
\* goes on tagging only if it was.
LEMMA KeptSound ==
  ASSUME TypeOK, JobsSound, Grows, NEW d \in Deployers, ~In(d, "idle"),
         NEW j \in Job, j.plan = job[d].plan, j.status = job[d].status,
         j.phase = "verify" => j.seen = Unseen,
         j.phase \in {"tags", "unset", "set"} => job[d].phase \in {"tags", "unset", "set"}
  PROVE  Sound(j, table', drifted')
<1>1. Sound(job[d], table, drifted) /\ job[d].plan \in Plans
  BY DEF JobsSound, Sound, In
<1>2. Reliable(j.plan, j.status, table', drifted')
  BY <1>1, ReliableStable DEF Sound
<1>3. ASSUME j.phase = "verify", NEW t \in Governed[j.plan]
      PROVE  Extends(table'[t], j.seen[t].table)
  <2>1. t \in Tables
    BY <1>1, DeploymentAssumption DEF DeploymentAssumption
  <2>2. j.seen[t].table = NoTable
    BY <1>3, <2>1 DEF Unseen
  <2>. QED
    BY <2>2 DEF Extends
<1>. QED
  BY <1>1, <1>2, <1>3 DEF Sound

LEMMA IdleSound ==
  ASSUME NEW tab, NEW gone
  PROVE  Idle \in Job /\ Sound(Idle, tab, gone)
<1>1. Idle \in Job
  BY DEF Idle, Job, Phases, Statuses, Unseen, Observation, Seen
<1>2. Idle.phase = "idle" /\ Idle.status = "NONE"
  BY DEF Idle
<1>. QED
  BY <1>1, <1>2 DEF Sound, Reliable

LEMMA Static ==
  ASSUME TypeOK, UNCHANGED <<table, drifted>>
  PROVE  Grows
BY DEF TypeOK, Grows, Observed, Extends

\* A job that cannot act any more leaves a sound record.
LEMMA RaiseSound ==
  ASSUME TypeOK, JobsSound, Grows, NEW d \in Deployers, ~In(d, "idle"),
         NEW phase \in {"fail", "succeed"}, Becomes(d, Leave(d, phase))
  PROVE  job' \in [Deployers -> Job] /\ JobsSound'
<1>2. phase \in Phases
  BY DEF Phases
<1>3. /\ Leave(d, phase) \in Job
      /\ Leave(d, phase).phase = phase
      /\ Leave(d, phase).plan = job[d].plan /\ Leave(d, phase).status = job[d].status
  BY <1>2, JobShapes
<1>4. Sound(Leave(d, phase), table', drifted')
  BY <1>3, KeptSound
<1>. QED
  BY <1>3, <1>4, JobChanges

\* The statement a job is at: what it would tag is a delivered release.
LEMMA StatementSound ==
  ASSUME TypeOK, JobsSound, NEW d \in Deployers, NEW t \in Tables, Issues(d, t)
  PROVE  /\ Running(d, t) \in Statement
         /\ Running(d, t).on = t
         /\ Running(d, t).kind # "schema" => Truthful(Running(d, t).tag, table, drifted)
<1>1. job[d] \in Job /\ job[d].plan \in Plans /\ Sound(job[d], table, drifted)
  BY DEF TypeOK, JobsSound, Sound, Issues
<1>2. NoOperation \in Operation
  BY DEF NoOperation, Operation, Schema
<1>3. ASSUME In(d, "execute")
      PROVE  Transition(Want(d, t), job[d].preview[t].table) \in Operation
  <2>1. Want(d, t) \in Target
    BY <1>1, DeploymentAssumption DEF Want, DeploymentAssumption
  <2>2. job[d].preview \in Observation
    BY <1>1 DEF Job
  <2>3. job[d].preview[t].table \in Observed
    BY <2>2 DEF Observation, Seen, Observed
  <2>. QED
    BY <2>1, <2>3, TransitionType
<1>. DEFINE k == IF In(d, "execute") THEN "schema" ELSE job[d].phase
            o == IF In(d, "execute") THEN Transition(Want(d, t), job[d].preview[t].table)
                 ELSE NoOperation
            g == IF In(d, "set") THEN job[d].plan ELSE None
<1>4. k \in {"schema", "unset", "set"}
  BY DEF Issues, In
<1>5. o \in Operation
  BY <1>2, <1>3
<1>6. g \in Plans \cup {None}
  BY <1>1
<1>7. Running(d, t) = [kind |-> k, on |-> t, op |-> o, tag |-> g]
  BY DEF Running
<1>8. Truthful(g, table, drifted)
  BY <1>1 DEF Sound, Reliable, Truthful, In
<1>. HIDE DEF k, o, g
<1>. QED
  BY <1>4, <1>5, <1>6, <1>7, <1>8 DEF Statement

\* The effect of a statement that is accepted.
LEMMA EffectSound ==
  ASSUME TypeOK, TagsSound, NEW s \in Statement, Accepted(s), Effect(s),
         s.kind # "schema" => Truthful(s.tag, table, drifted), UNCHANGED drifted
  PROVE  Grows /\ tags' \in [Tables -> Plans \cup {None}] /\ TagsSound'
<1>0. table \in [Tables -> Observed] /\ tags \in [Tables -> Plans \cup {None}]
  BY DEF TypeOK, Observed
<1>1. s.on \in Tables /\ s.op \in Operation /\ s.tag \in Plans \cup {None}
  BY DEF Statement
<1>2. CASE s.kind = "schema"
  <2>1. table' = [table EXCEPT ![s.on] = Executed(s.op, table[s.on])] /\ tags' = tags
    BY <1>2 DEF Effect
  <2>2. Executed(s.op, table[s.on]) \in Observed
        /\ Extends(Executed(s.op, table[s.on]), table[s.on])
    BY <1>0, <1>1, <1>2, ExecutedExtends DEF Accepted
  <2>3. table' \in [Tables -> Observed]
    BY <1>0, <2>1, <2>2
  <2>4. \A t \in Tables : Extends(table'[t], table[t])
    <3>1. \A t \in Tables \ {s.on} : table'[t] = table[t]
      BY <1>0, <2>1
    <3>2. table'[s.on] = Executed(s.op, table[s.on])
      BY <1>0, <1>1, <2>1
    <3>3. \A u : Extends(u, u)
      BY DEF Extends
    <3>. QED
      BY <3>1, <3>2, <3>3, <2>2
  <2>5. Grows
    BY <1>0, <2>3, <2>4 DEF Grows
  <2>6. \A t \in Tables : Truthful(tags'[t], table', drifted')
    BY <2>1, <2>5, TruthfulStable DEF TagsSound
  <2>. QED
    BY <1>0, <2>1, <2>5, <2>6 DEF TagsSound
<1>3. CASE s.kind # "schema"
  <2>1. table' = table /\ tags' = [tags EXCEPT ![s.on] = s.tag]
    BY <1>3 DEF Effect
  <2>2. Grows
    BY <2>1, Static
  <2>3. tags' \in [Tables -> Plans \cup {None}]
    BY <1>0, <1>1, <2>1
  <2>4. ASSUME NEW t \in Tables
        PROVE  Truthful(tags'[t], table', drifted')
    <3>1. tags'[t] = s.tag \/ tags'[t] = tags[t]
      BY <1>0, <2>1
    <3>2. Truthful(s.tag, table, drifted) /\ Truthful(tags[t], table, drifted)
      BY <1>3 DEF TagsSound
    <3>. QED
      BY <2>1, <3>1, <3>2
  <2>. QED
    BY <2>2, <2>3, <2>4 DEF TagsSound
<1>. QED BY <1>2, <1>3

LEMMA EffectExtends ==
  ASSUME TypeOK, NEW s \in Statement, Accepted(s), Effect(s)
  PROVE  \A t \in Tables : Extends(table'[t], table[t])
<1>1. table \in [Tables -> Observed] /\ s.on \in Tables /\ s.op \in Operation
  BY DEF TypeOK, Observed, Statement
<1>2. \A u : Extends(u, u)
  BY DEF Extends
<1>3. CASE s.kind = "schema"
  <2>1. table' = [table EXCEPT ![s.on] = Executed(s.op, table[s.on])]
    BY <1>3 DEF Effect
  <2>2. Extends(Executed(s.op, table[s.on]), table[s.on])
    BY <1>1, <1>3, ExecutedExtends DEF Accepted
  <2>3. \A t \in Tables \ {s.on} : table'[t] = table[t]
    BY <1>1, <2>1
  <2>4. table'[s.on] = Executed(s.op, table[s.on])
    BY <1>1, <2>1
  <2>. QED
    BY <1>2, <2>2, <2>3, <2>4
<1>4. CASE s.kind # "schema"
  BY <1>2, <1>4 DEF Effect
<1>. QED BY <1>3, <1>4

\* IN_SYNC is said of what was seen, and still holds of what is there.
LEMMA VerdictSound ==
  ASSUME TypeOK, JobsSound, NEW d \in Deployers, In(d, "verify"), Done(d), Verdict(d) = "IN_SYNC"
  PROVE  Delivers(job[d].plan, table, drifted)
<1>1. job[d] \in Job /\ Sound(job[d], table, drifted) /\ job[d].plan \in Plans
  BY DEF TypeOK, JobsSound, Sound, In
<1>2. SUFFICES ASSUME NEW t \in Governed[job[d].plan] \ drifted
               PROVE  Provides(Want(d, t), table[t])
  BY DEF Delivers, Want
<1>3. t \in Scope(d) /\ t \in Tables /\ Want(d, t) \in Target
  BY <1>1, DeploymentAssumption DEF Scope, Want, DeploymentAssumption
<1>4. Extends(table[t], job[d].seen[t].table)
  BY <1>1 DEF Sound, In, Done
<1>5. job[d].seen \in Observation
  BY <1>1 DEF Job
<1>6. job[d].seen[t].table \in Observed /\ table[t] \in Observed
  BY <1>3, <1>5 DEF Observation, Seen, Observed, TypeOK
<1>7. Classified(Want(d, t), job[d].seen[t].table) \in {"DRIFT", "INDETERMINATE", "IN_SYNC"}
  BY DEF Classified
<1>8. Classified(Want(d, t), job[d].seen[t].table) = "IN_SYNC"
  BY <1>3, <1>7 DEF Verdict
<1>. QED
  BY <1>3, <1>4, <1>6, <1>8, InSyncProvides, ProvidesMonotonic

----------------------------------------------------------------------------
(* The steps. *)

Extended == \A t \in Tables : Extends(table'[t], table[t])

LEMMA StaticExtended ==
  ASSUME UNCHANGED table
  PROVE  Extended
BY DEF Extended, Extends

\* Steps that change only what jobs know.
LEMMA ControlStep ==
  ASSUME DeploymentInv, UNCHANGED Runtime, Step, job' \in [Deployers -> Job], JobsSound'
  PROVE  DeploymentInv' /\ Extended
<1>1. UNCHANGED <<table, tags, pending, drifted, outcome, faults, drifts>>
  BY DEF Runtime, Step
<1>2. TypeOK'
  BY <1>1 DEF DeploymentInv, TypeOK
<1>3. OutcomesReliable' /\ TagsSound' /\ PendingSound'
  BY <1>1 DEF DeploymentInv, OutcomesReliable, TagsSound, PendingSound
<1>. QED
  BY <1>1, <1>2, <1>3, StaticExtended DEF DeploymentInv

LEMMA DeployStep ==
  ASSUME DeploymentInv, NEW d \in Deployers, NEW p \in Plans, Deploy(d, p)
  PROVE  DeploymentInv' /\ Extended
<1>. DEFINE j == [Idle EXCEPT !.phase = "preview", !.plan = p, !.todo = Governed[p]]
<1>1. TypeOK /\ JobsSound /\ Becomes(d, j) /\ UNCHANGED Runtime /\ Step
  BY DEF DeploymentInv, Deploy
<1>2. Governed[p] \subseteq Tables
  BY DeploymentAssumption DEF DeploymentAssumption
<1>3. j \in Job /\ j.phase = "preview" /\ j.plan = p /\ j.status = "NONE"
  BY <1>2, IdleSound DEF Idle, Job, Phases
<1>. HIDE DEF j
<1>4. Grows
  BY <1>1, Static DEF Runtime
<1>5. Sound(j, table', drifted')
  BY <1>3 DEF Sound, Reliable
<1>6. job' \in [Deployers -> Job] /\ JobsSound'
  BY <1>1, <1>3, <1>4, <1>5, JobChanges
<1>. QED
  BY <1>1, <1>6, ControlStep

\* What an observation makes of a job: at the table it comes to, it has seen what
\* is there, or less.
LEMMA ObserveShape ==
  ASSUME TypeOK, NEW d \in Deployers, NEW t \in Tables, Observe(d, t)
  PROVE  \E j \in Job :
           /\ Becomes(d, j)
           /\ j.phase = job[d].phase /\ j.plan = job[d].plan /\ j.status = job[d].status
           /\ j.seen[t].table \in {NoTable, table[t], job[d].seen[t].table}
           /\ \A u \in Tables \ {t} : j.seen[u] = job[d].seen[u]
<1>1. job[d] \in Job /\ table[t] \in Observed /\ tags[t] \in Plans \cup {None}
  BY DEF TypeOK, Observed
<1>2. job[d].seen \in Observation
  BY <1>1 DEF Job
<1>3. job[d].seen[t] \in Seen
  BY <1>2 DEF Observation
<1>4. Unseen[t] \in Seen /\ Unseen[t].table = NoTable
  BY DEF Unseen, Seen
<1>5. PICK now \in Seen, rest \in SUBSET Tables :
        /\ now.table \in {NoTable, table[t], job[d].seen[t].table}
        /\ Becomes(d, [job[d] EXCEPT !.todo = rest, !.seen = [@ EXCEPT ![t] = now]])
  <2>1. CASE ObserveTable(d, t)
    <3>. DEFINE now == [table |-> table[t], tag |-> None]
                rest == IF table[t] = NoTable THEN job[d].todo \ {t} ELSE job[d].todo
    <3>1. now \in Seen /\ rest \in SUBSET Tables
      BY <1>1 DEF Seen, Job, Observed
    <3>2. Becomes(d, [job[d] EXCEPT !.todo = rest, !.seen = [@ EXCEPT ![t] = now]])
      BY <2>1 DEF ObserveTable
    <3>. QED
      BY <3>1, <3>2
  <2>2. CASE ObserveTags(d, t)
    <3>. DEFINE now == IF table[t] = NoTable THEN Unseen[t]
                       ELSE [table |-> job[d].seen[t].table, tag |-> tags[t]]
                rest == job[d].todo \ {t}
    <3>1. now \in Seen /\ now.table \in {NoTable, job[d].seen[t].table}
      BY <1>1, <1>3, <1>4 DEF Seen
    <3>2. rest \in SUBSET Tables
      BY <1>1 DEF Job
    <3>3. Becomes(d, [job[d] EXCEPT !.todo = rest, !.seen = [@ EXCEPT ![t] = now]])
      BY <2>2 DEF ObserveTags
    <3>. HIDE DEF now, rest
    <3>. QED
      BY <3>1, <3>2, <3>3
  <2>. QED
    BY <2>1, <2>2 DEF Observe
<1>. DEFINE saw == [job[d].seen EXCEPT ![t] = now]
            j == [job[d] EXCEPT !.todo = rest, !.seen = saw]
<1>6. saw \in Observation /\ saw[t] = now /\ \A u \in Tables \ {t} : saw[u] = job[d].seen[u]
  BY <1>2 DEF Observation
<1>7. Becomes(d, j)
  BY <1>5
<1>. HIDE DEF saw
<1>8. /\ j \in Job /\ j.seen = saw
      /\ j.phase = job[d].phase /\ j.plan = job[d].plan /\ j.status = job[d].status
  BY <1>1, <1>5, <1>6 DEF Job
<1>. HIDE DEF j
<1>. QED
  BY <1>5, <1>6, <1>7, <1>8

LEMMA ObserveStep ==
  ASSUME DeploymentInv, NEW d \in Deployers, NEW t \in Tables, Observe(d, t)
  PROVE  DeploymentInv' /\ Extended
<1>1. TypeOK /\ JobsSound /\ UNCHANGED Runtime /\ Step
      /\ job[d].phase \in {"preview", "recheck", "verify"}
  BY DEF DeploymentInv, Observe, ObserveTable, ObserveTags
<1>2. Sound(job[d], table, drifted) /\ job[d].plan \in Plans
  BY <1>1 DEF JobsSound, Sound
<1>3. PICK j \in Job :
        /\ Becomes(d, j)
        /\ j.phase = job[d].phase /\ j.plan = job[d].plan /\ j.status = job[d].status
        /\ j.seen[t].table \in {NoTable, table[t], job[d].seen[t].table}
        /\ \A u \in Tables \ {t} : j.seen[u] = job[d].seen[u]
  BY <1>1, ObserveShape
<1>4. ASSUME j.phase = "verify", NEW u \in Governed[j.plan] \ drifted
      PROVE  Extends(table[u], j.seen[u].table)
  <2>1. u \in Tables
    BY <1>2, <1>3, DeploymentAssumption DEF DeploymentAssumption
  <2>2. Extends(table[u], job[d].seen[u].table)
    BY <1>2, <1>3, <1>4 DEF Sound
  <2>3. Extends(table[u], table[u]) /\ Extends(table[u], NoTable)
    BY DEF Extends
  <2>. QED
    BY <1>3, <2>1, <2>2, <2>3
<1>5. Sound(j, table, drifted)
  BY <1>1, <1>2, <1>3, <1>4 DEF Sound
<1>6. Grows /\ Sound(j, table', drifted')
  BY <1>1, <1>5, Static DEF Runtime
<1>7. job' \in [Deployers -> Job] /\ JobsSound'
  BY <1>1, <1>3, <1>6, JobChanges
<1>. QED
  BY <1>1, <1>7, ControlStep

\* Every step of deploy that decides how to go on.
LEMMA DecideStep ==
  ASSUME DeploymentInv, NEW d \in Deployers,
         \/ Preview(d) \/ CheckFresh(d) \/ StartVerify(d) \/ Classify(d) \/ FinishTags(d)
         \/ \E t \in Tables : SkipNoOp(d, t) \/ ReadTags(d, t)
  PROVE  DeploymentInv' /\ Extended
<1>1. TypeOK /\ JobsSound
  BY DEF DeploymentInv
<1>2. UNCHANGED Runtime /\ Step
  BY DEF Preview, CheckFresh, StartVerify, Classify, FinishTags, SkipNoOp, ReadTags, Raise
<1>3. Grows
  BY <1>1, <1>2, Static DEF Runtime
<1>4. ~In(d, "idle")
  BY DEF Preview, CheckFresh, StartVerify, Classify, FinishTags, SkipNoOp, ReadTags, In
<1>5. /\ job[d] \in Job /\ job[d].plan \in Plans
      /\ \A phase \in Phases :
           /\ Loop(d, phase) \in Job
           /\ Loop(d, phase).phase = phase /\ Loop(d, phase).todo = Scope(d)
           /\ Loop(d, phase).plan = job[d].plan /\ Loop(d, phase).status = job[d].status
           /\ Leave(d, phase) \in Job
           /\ Leave(d, phase).phase = phase
           /\ Leave(d, phase).plan = job[d].plan /\ Leave(d, phase).status = job[d].status
  <2>1. job[d] \in Job /\ job[d].plan \in Plans
    BY <1>1, <1>4 DEF TypeOK, JobsSound, Sound, In
  <2>2. ASSUME NEW phase \in Phases
        PROVE  /\ Loop(d, phase) \in Job
               /\ Loop(d, phase).phase = phase /\ Loop(d, phase).todo = Scope(d)
               /\ Loop(d, phase).plan = job[d].plan /\ Loop(d, phase).status = job[d].status
               /\ Leave(d, phase) \in Job
               /\ Leave(d, phase).phase = phase
               /\ Leave(d, phase).plan = job[d].plan /\ Leave(d, phase).status = job[d].status
    BY <1>1, <1>4, JobShapes
  <2>. QED
    BY <2>1, <2>2
<1>6. Unseen \in Observation /\ job[d].seen \in Observation
  BY <1>5 DEF Unseen, Observation, Seen, Job
<1>7. {"recheck", "execute", "verify", "tags", "succeed", "set", "unset", "fail"} \subseteq Phases
  BY DEF Phases
<1>8. CASE Becomes(d, Leave(d, "fail")) \/ Becomes(d, Leave(d, "succeed"))
  BY <1>1, <1>2, <1>3, <1>4, <1>8, RaiseSound, ControlStep
<1>9. ASSUME NEW j \in Job, Becomes(d, j), j.plan = job[d].plan, j.status = job[d].status,
             j.phase = "verify" => j.seen = Unseen,
             j.phase \in {"tags", "unset", "set"} => job[d].phase \in {"tags", "unset", "set"}
      PROVE  DeploymentInv' /\ Extended
  <2>1. Sound(j, table', drifted')
    BY <1>1, <1>3, <1>4, <1>9, KeptSound
  <2>2. job' \in [Deployers -> Job] /\ JobsSound'
    BY <1>1, <1>3, <1>9, <2>1, JobChanges
  <2>. QED
    BY <1>2, <2>2, ControlStep
<1>10. CASE Preview(d)
  <2>. DEFINE j == [Loop(d, "recheck") EXCEPT !.preview = job[d].seen]
  <2>1. j \in Job /\ j.phase = "recheck" /\ j.plan = job[d].plan /\ j.status = job[d].status
    BY <1>5, <1>6, <1>7 DEF Job
  <2>2. Becomes(d, j) \/ Becomes(d, Leave(d, "fail"))
    BY <1>10 DEF Preview, Raise
  <2>. HIDE DEF j
  <2>. QED
    BY <1>8, <1>9, <2>1, <2>2
<1>11. CASE CheckFresh(d)
  <2>1. Becomes(d, Loop(d, "execute")) \/ Becomes(d, Leave(d, "fail"))
    BY <1>11 DEF CheckFresh, Raise
  <2>2. Becomes(d, Loop(d, "execute")) => DeploymentInv' /\ Extended
    BY <1>5, <1>7, <1>9
  <2>. QED
    BY <1>8, <2>1, <2>2
<1>12. CASE StartVerify(d)
  <2>. DEFINE j == [Loop(d, "verify") EXCEPT !.preview = Unseen]
  <2>1. j \in Job /\ j.plan = job[d].plan /\ j.status = job[d].status /\ j.phase = "verify"
        /\ j.seen = Unseen
    BY <1>5, <1>6, <1>7 DEF Job, Loop
  <2>2. Becomes(d, j)
    BY <1>12 DEF StartVerify
  <2>. HIDE DEF j
  <2>. QED
    BY <1>9, <2>1, <2>2
<1>13. CASE Classify(d)
  <2>1. Verdict(d) \in Statuses
    BY DEF Verdict, Statuses
  <2>2. PICK phase \in {"tags", "succeed"}, k \in {Loop(d, "tags"), Leave(d, "succeed")} :
          /\ k.phase = phase /\ k \in Job /\ k.plan = job[d].plan
          /\ Becomes(d, [k EXCEPT !.status = Verdict(d)])
          /\ phase = "tags" => Projects(d)
    <3>1. CASE Projects(d)
      BY <1>5, <1>7, <1>13, <3>1 DEF Classify
    <3>2. CASE ~Projects(d)
      BY <1>5, <1>7, <1>13, <3>2 DEF Classify
    <3>. QED BY <3>1, <3>2
  <2>. DEFINE j == [k EXCEPT !.status = Verdict(d)]
  <2>3. j \in Job /\ j.phase = phase /\ j.plan = job[d].plan /\ j.status = Verdict(d)
    BY <2>1, <2>2 DEF Job
  <2>4. Becomes(d, j)
    BY <2>2
  <2>. HIDE DEF j
  <2>5. Verdict(d) = "IN_SYNC" => Delivers(job[d].plan, table', drifted')
    BY <1>1, <1>2, <1>13, VerdictSound DEF Classify, Runtime
  <2>6. Sound(j, table', drifted')
    BY <1>5, <2>2, <2>3, <2>5 DEF Sound, Reliable, Projects
  <2>7. job' \in [Deployers -> Job] /\ JobsSound'
    BY <1>1, <1>3, <2>3, <2>4, <2>6, JobChanges
  <2>. QED
    BY <1>2, <2>7, ControlStep
<1>14. CASE FinishTags(d)
  BY <1>8, <1>14 DEF FinishTags
<1>15. ASSUME NEW t \in Tables, SkipNoOp(d, t) \/ ReadTags(d, t)
       PROVE  DeploymentInv' /\ Extended
  <2>1. \A phase \in Phases :
           /\ Goto(d, phase) \in Job
           /\ Goto(d, phase).phase = phase
           /\ Goto(d, phase).plan = job[d].plan /\ Goto(d, phase).status = job[d].status
           /\ Advance(d, t, phase) \in Job
           /\ Advance(d, t, phase).phase = phase
           /\ Advance(d, t, phase).plan = job[d].plan
           /\ Advance(d, t, phase).status = job[d].status
    BY <1>1, <1>4, JobShapes
  <2>2. CASE SkipNoOp(d, t)
    <3>1. Becomes(d, Advance(d, t, "execute"))
      BY <2>2 DEF SkipNoOp
    <3>. QED
      BY <1>7, <1>9, <2>1, <3>1
  <2>3. CASE ReadTags(d, t)
    <3>1. \/ Becomes(d, Advance(d, t, "tags"))
          \/ Becomes(d, Goto(d, "set")) \/ Becomes(d, Goto(d, "unset"))
      BY <2>3 DEF ReadTags
    <3>2. job[d].phase = "tags"
      BY <2>3 DEF ReadTags, In
    <3>. QED
      BY <1>7, <1>9, <2>1, <3>1, <3>2
  <2>. QED BY <1>15, <2>2, <2>3
<1>. QED
  BY <1>10, <1>11, <1>12, <1>13, <1>14, <1>15

\* The parts of the invariant that only depend on growth.
LEMMA OthersStable ==
  ASSUME DeploymentInv, Grows
  PROVE  /\ \A d \in Deployers : Reliable(outcome[d].plan, outcome[d].status, table', drifted')
         /\ \A s \in pending : s.kind # "schema" => Truthful(s.tag, table', drifted')
         /\ \A t \in Tables : Truthful(tags[t], table', drifted')
BY ReliableStable, TruthfulStable DEF DeploymentInv, OutcomesReliable, PendingSound, TagsSound

LEMMA FaultType ==
  ASSUME DeploymentInv, Fault
  PROVE  faults' \in 0..MaxFaults /\ drifts' \in 0..MaxDrifts
BY DeploymentAssumption DEF DeploymentInv, TypeOK, Fault, DeploymentAssumption

LEMMA RunStatementStep ==
  ASSUME DeploymentInv, NEW d \in Deployers, NEW t \in Tables, RunStatement(d, t)
  PROVE  DeploymentInv' /\ Extended
<1>1. TypeOK /\ JobsSound /\ TagsSound /\ Issues(d, t) /\ Step /\ ~In(d, "idle")
  BY DEF DeploymentInv, RunStatement, Issues, In
<1>2. CASE ~Accepted(Running(d, t))
  <2>1. Becomes(d, Leave(d, "fail")) /\ UNCHANGED Runtime
    BY <1>2 DEF RunStatement, Raise
  <2>2. Grows
    BY <1>1, <2>1, Static DEF Runtime
  <2>. QED
    BY <1>1, <2>1, <2>2, RaiseSound, ControlStep
<1>3. CASE Accepted(Running(d, t))
  <2>1. /\ Running(d, t) \in Statement
        /\ Running(d, t).kind # "schema" => Truthful(Running(d, t).tag, table, drifted)
    BY <1>1, StatementSound
  <2>2. Effect(Running(d, t)) /\ UNCHANGED <<pending, drifted>>
    BY <1>3 DEF RunStatement
  <2>3. Grows /\ tags' \in [Tables -> Plans \cup {None}] /\ TagsSound'
    BY <1>1, <1>3, <2>1, <2>2, EffectSound
  <2>4. \E phase \in {"set", "tags", "execute"} :
          /\ Becomes(d, Goto(d, phase)) \/ Becomes(d, Advance(d, t, phase))
          /\ phase \in {"set", "tags"} => job[d].phase \in {"unset", "set"}
    <3>1. CASE In(d, "unset")
      BY <1>3, <3>1 DEF RunStatement, In
    <3>2. CASE In(d, "set")
      BY <1>3, <3>2 DEF RunStatement, In
    <3>3. CASE ~In(d, "unset") /\ ~In(d, "set")
      BY <1>3, <3>3 DEF RunStatement
    <3>. QED BY <3>1, <3>2, <3>3
  <2>5. PICK phase \in {"set", "tags", "execute"} :
          /\ Becomes(d, Goto(d, phase)) \/ Becomes(d, Advance(d, t, phase))
          /\ phase \in {"set", "tags"} => job[d].phase \in {"unset", "set"}
    BY <2>4
  <2>6. PICK j \in Job : /\ Becomes(d, j)
                        /\ j.phase = phase /\ j.plan = job[d].plan /\ j.status = job[d].status
    <3>1. phase \in Phases
      BY DEF Phases
    <3>. QED
      BY <1>1, <2>5, <3>1, JobShapes
  <2>7. Sound(j, table', drifted')
    BY <1>1, <2>3, <2>5, <2>6, KeptSound
  <2>8. job' \in [Deployers -> Job] /\ JobsSound'
    BY <1>1, <2>3, <2>6, <2>7, JobChanges
  <2>9. UNCHANGED <<pending, drifted, outcome, faults, drifts>>
    BY <1>1, <2>2 DEF Step
  <2>10. table' \in [Tables -> Table \cup {NoTable}]
    BY <2>3 DEF Grows, Observed
  <2>11. TypeOK'
    BY <1>1, <2>3, <2>8, <2>9, <2>10 DEF TypeOK
  <2>12. OutcomesReliable' /\ PendingSound'
    BY <2>3, <2>9, OthersStable DEF OutcomesReliable, PendingSound
  <2>13. Extended
    BY <1>1, <1>3, <2>1, <2>2, EffectExtends DEF Extended
  <2>. QED
    BY <2>3, <2>8, <2>11, <2>12, <2>13 DEF DeploymentInv
<1>. QED BY <1>2, <1>3

LEMMA ReportStep ==
  ASSUME DeploymentInv, NEW d \in Deployers, NEW raised \in BOOLEAN, Report(d, raised),
         ~In(d, "idle"), faults' \in 0..MaxFaults, drifts' \in 0..MaxDrifts
  PROVE  DeploymentInv' /\ Extended
<1>1. /\ TypeOK /\ JobsSound /\ TagsSound /\ PendingSound /\ OutcomesReliable
      /\ Becomes(d, Idle) /\ UNCHANGED <<table, tags, pending, drifted>>
  BY DEF DeploymentInv, Report, Runtime
<1>2. Grows
  BY <1>1, Static
<1>3. job' \in [Deployers -> Job] /\ JobsSound'
  BY <1>1, <1>2, IdleSound, JobChanges
<1>. DEFINE o == [plan |-> job[d].plan, raised |-> raised, status |-> job[d].status]
<1>4. job[d] \in Job /\ Reliable(job[d].plan, job[d].status, table, drifted)
  BY <1>1 DEF TypeOK, JobsSound, Sound
<1>5. o \in Outcome
  BY <1>4 DEF Job, Outcome
<1>6. o.plan = job[d].plan /\ o.status = job[d].status
  OBVIOUS
<1>7. outcome' = [outcome EXCEPT ![d] = o]
  BY DEF Report
<1>. HIDE DEF o
<1>8. outcome' \in [Deployers -> Outcome]
  BY <1>1, <1>5, <1>7 DEF TypeOK
<1>9. OutcomesReliable'
  <2>1. \A e \in Deployers : outcome'[e] = IF e = d THEN o ELSE outcome[e]
    BY <1>1, <1>7 DEF TypeOK
  <2>2. \A e \in Deployers : Reliable(outcome'[e].plan, outcome'[e].status, table, drifted)
    BY <1>1, <1>4, <1>6, <2>1 DEF OutcomesReliable
  <2>. QED
    BY <1>1, <2>2 DEF OutcomesReliable
<1>10. TypeOK'
  BY <1>1, <1>3, <1>8 DEF TypeOK
<1>11. TagsSound' /\ PendingSound'
  BY <1>1 DEF TagsSound, PendingSound
<1>. QED
  BY <1>1, <1>3, <1>9, <1>10, <1>11, StaticExtended DEF DeploymentInv

\* Faults of a job, one that may leave a statement behind.
LEMMA AbandonStep ==
  ASSUME DeploymentInv, NEW d \in Deployers, Fault,
         UNCHANGED <<table, tags, drifted, outcome>>,
         job' \in [Deployers -> Job], JobsSound',
         \/ UNCHANGED pending
         \/ \E t \in Tables : Issues(d, t) /\ pending' = pending \cup {Running(d, t)}
  PROVE  DeploymentInv' /\ Extended
<1>1. TypeOK /\ JobsSound /\ TagsSound /\ PendingSound /\ OutcomesReliable
  BY DEF DeploymentInv
<1>2. pending' \subseteq Statement
      /\ \A s \in pending' : s.kind # "schema" => Truthful(s.tag, table, drifted)
  <2>1. CASE UNCHANGED pending
    BY <1>1, <2>1 DEF TypeOK, PendingSound
  <2>2. ASSUME NEW t \in Tables, Issues(d, t), pending' = pending \cup {Running(d, t)}
        PROVE  pending' \subseteq Statement
               /\ \A s \in pending' : s.kind # "schema" => Truthful(s.tag, table, drifted)
    <3>1. /\ Running(d, t) \in Statement
          /\ Running(d, t).kind # "schema" => Truthful(Running(d, t).tag, table, drifted)
      BY <1>1, <2>2, StatementSound
    <3>. QED
      BY <1>1, <2>2, <3>1 DEF TypeOK, PendingSound
  <2>. QED BY <2>1, <2>2
<1>3. faults' \in 0..MaxFaults /\ drifts' \in 0..MaxDrifts
  BY FaultType
<1>4. TypeOK'
  BY <1>1, <1>2, <1>3 DEF TypeOK
<1>5. TagsSound' /\ PendingSound' /\ OutcomesReliable'
  BY <1>1, <1>2 DEF TagsSound, PendingSound, OutcomesReliable
<1>. QED
  BY <1>4, <1>5, StaticExtended DEF DeploymentInv

LEMMA GoesWrongStep ==
  ASSUME DeploymentInv, NEW d \in Deployers, GoesWrong(d)
  PROVE  DeploymentInv' /\ Extended
<1>1. TypeOK /\ JobsSound
  BY DEF DeploymentInv
<1>2. CASE SinkFails(d)
  BY <1>2, FaultType, ReportStep DEF SinkFails, In
<1>3. CASE PlatformError(d)
  <2>1. /\ Becomes(d, Leave(d, "fail")) /\ Fault /\ ~In(d, "idle")
        /\ UNCHANGED <<table, tags, pending, drifted, outcome>>
    BY <1>3 DEF PlatformError, Raise, Runtime, In
  <2>2. Grows
    BY <1>1, <2>1, Static
  <2>3. job' \in [Deployers -> Job] /\ JobsSound'
    BY <1>1, <2>1, <2>2, RaiseSound
  <2>. QED
    BY <2>1, <2>3, AbandonStep
<1>4. CASE Crash(d)
  <2>1. Grows
    BY <1>1, <1>4, Static DEF Crash
  <2>2. job' \in [Deployers -> Job] /\ JobsSound'
    BY <1>1, <1>4, <2>1, IdleSound, JobChanges DEF Crash
  <2>. QED
    BY <1>4, <2>2, AbandonStep DEF Crash
<1>5. ASSUME NEW t \in Tables, LoseStatement(d, t)
      PROVE  DeploymentInv' /\ Extended
  <2>1. /\ Becomes(d, Leave(d, "fail")) /\ Fault /\ ~In(d, "idle") /\ Issues(d, t)
        /\ pending' = pending \cup {Running(d, t)}
        /\ UNCHANGED <<table, tags, drifted, outcome>>
    BY <1>5 DEF LoseStatement, Issues, In
  <2>2. Grows
    BY <1>1, <2>1, Static
  <2>3. job' \in [Deployers -> Job] /\ JobsSound'
    BY <1>1, <2>1, <2>2, RaiseSound
  <2>. QED
    BY <2>1, <2>3, AbandonStep
<1>. QED
  BY <1>2, <1>3, <1>4, <1>5 DEF GoesWrong

LEMMA LandStep ==
  ASSUME DeploymentInv, NEW s \in pending, Land(s)
  PROVE  DeploymentInv' /\ Extended
<1>1. /\ TypeOK /\ JobsSound /\ TagsSound /\ PendingSound /\ s \in Statement
      /\ UNCHANGED <<job, drifted, outcome, faults, drifts>>
      /\ pending' = pending \ {s}
  BY DEF DeploymentInv, TypeOK, Land, Step
<1>2. /\ Grows /\ tags' \in [Tables -> Plans \cup {None}] /\ TagsSound'
      /\ Extended
  <2>1. CASE UNCHANGED <<table, tags>>
    BY <1>1, <2>1, Static, StaticExtended DEF TagsSound, TypeOK
  <2>2. CASE Accepted(s) /\ Effect(s)
    BY <1>1, <2>2, EffectSound, EffectExtends DEF PendingSound, Extended
  <2>. QED
    BY <2>1, <2>2 DEF Land
<1>3. JobsSound'
  BY <1>1, <1>2, NoneChange
<1>4. table' \in [Tables -> Table \cup {NoTable}]
  BY <1>2 DEF Grows, Observed
<1>5. TypeOK'
  BY <1>1, <1>2, <1>4 DEF TypeOK
<1>6. OutcomesReliable' /\ PendingSound'
  BY <1>1, <1>2, OthersStable DEF OutcomesReliable, PendingSound
<1>. QED
  BY <1>2, <1>3, <1>5, <1>6 DEF DeploymentInv

LEMMA DriftStep ==
  ASSUME DeploymentInv, NEW t \in Tables, Drift(t)
  PROVE  DeploymentInv'
<1>1. /\ TypeOK /\ JobsSound /\ TagsSound /\ PendingSound
      /\ UNCHANGED <<job, pending, outcome, faults>>
      /\ drifted' = drifted \cup {t} /\ drifts < MaxDrifts /\ drifts' = drifts + 1
  BY DEF DeploymentInv, Drift
<1>2. PICK u \in OutsideTables :
        /\ table' = [table EXCEPT ![t] = u]
        /\ tags' = IF u = NoTable THEN [tags EXCEPT ![t] = None] ELSE tags
  BY DEF Drift
<1>3. u \in Observed
  BY DeploymentAssumption DEF DeploymentAssumption, Observed
<1>4. table \in [Tables -> Observed] /\ tags \in [Tables -> Plans \cup {None}]
  BY <1>1 DEF TypeOK, Observed
<1>5. Grows
  <2>1. table' \in [Tables -> Observed]
    BY <1>2, <1>3, <1>4
  <2>2. \A v \in Tables \ drifted' : table'[v] = table[v]
    BY <1>1, <1>2, <1>4
  <2>. QED
    BY <1>1, <1>4, <2>1, <2>2 DEF Grows, Extends
<1>6. JobsSound'
  BY <1>1, <1>5, NoneChange
<1>7. tags' \in [Tables -> Plans \cup {None}] /\ \A v \in Tables : tags'[v] \in {None, tags[v]}
  BY <1>2, <1>4
<1>8. TagsSound'
  <2>1. \A v \in Tables : Truthful(tags[v], table', drifted')
    BY <1>5, OthersStable
  <2>. QED
    BY <1>7, <2>1 DEF TagsSound, Truthful
<1>9. OutcomesReliable' /\ PendingSound'
  BY <1>1, <1>5, OthersStable DEF OutcomesReliable, PendingSound
<1>10. drifts' \in 0..MaxDrifts /\ drifted' \subseteq Tables
  BY <1>1, DeploymentAssumption DEF TypeOK, DeploymentAssumption
<1>11. table' \in [Tables -> Table \cup {NoTable}]
  BY <1>5 DEF Grows, Observed
<1>12. TypeOK'
  BY <1>1, <1>7, <1>10, <1>11 DEF TypeOK
<1>. QED
  BY <1>6, <1>8, <1>9, <1>12 DEF DeploymentInv

----------------------------------------------------------------------------
(* The theorems. *)

LEMMA InitInv == Init => DeploymentInv
<1>. SUFFICES ASSUME Init PROVE DeploymentInv
  OBVIOUS
<1>1. table \in [Tables -> Table \cup {NoTable}]
  BY DeploymentAssumption DEF Init, DeploymentAssumption
<1>2. job = [d \in Deployers |-> Idle] /\ Idle \in Job
  BY IdleSound DEF Init
<1>3. outcome \in [Deployers -> Outcome]
  BY DEF Init, Outcome, Statuses
<1>4. TypeOK
  <2>1. tags \in [Tables -> Plans \cup {None}] /\ pending \subseteq Statement /\ drifted \subseteq Tables
    BY DEF Init
  <2>2. job \in [Deployers -> Job]
    BY <1>2
  <2>3. faults \in 0..MaxFaults /\ drifts \in 0..MaxDrifts
    BY DeploymentAssumption DEF Init, DeploymentAssumption
  <2>. QED
    BY <1>1, <1>3, <2>1, <2>2, <2>3 DEF TypeOK
<1>5. JobsSound
  BY <1>2, IdleSound DEF JobsSound
<1>6. OutcomesReliable /\ TagsSound /\ PendingSound
  BY DEF Init, OutcomesReliable, Reliable, TagsSound, Truthful, PendingSound
<1>. QED
  BY <1>4, <1>5, <1>6 DEF DeploymentInv

\* Every step preserves the invariant, and only changes from outside take
\* something away.
LEMMA StepInv ==
  ASSUME DeploymentInv, [Next]_vars
  PROVE  DeploymentInv' /\ (drifts' = drifts => Extended)
<1>1. ASSUME NEW d \in Deployers, Deliberate(d)
      PROVE  DeploymentInv' /\ Extended
  <2>1. ASSUME NEW t \in Tables, Observe(d, t) \/ RunStatement(d, t)
        PROVE  DeploymentInv' /\ Extended
    BY <2>1, ObserveStep, RunStatementStep
  <2>2. CASE RecordSuccess(d) \/ RecordFailure(d)
    <3>1. faults' \in 0..MaxFaults /\ drifts' \in 0..MaxDrifts /\ ~In(d, "idle")
      BY <2>2 DEF RecordSuccess, RecordFailure, DeploymentInv, TypeOK, In
    <3>. QED
      BY <2>2, <3>1, ReportStep DEF RecordSuccess, RecordFailure
  <2>. QED
    BY <1>1, <2>1, <2>2, DecideStep DEF Deliberate
<1>2. ASSUME NEW t \in Tables, Drift(t)
      PROVE  DeploymentInv' /\ drifts' # drifts
  <2>1. drifts' # drifts
    BY <1>2 DEF Drift, DeploymentInv, TypeOK
  <2>. QED
    BY <1>2, <2>1, DriftStep
<1>3. CASE UNCHANGED vars
  <2>1. UNCHANGED Runtime /\ Step /\ UNCHANGED job
    BY <1>3 DEF vars, Runtime, Step
  <2>2. job' \in [Deployers -> Job] /\ JobsSound'
    BY <1>3 DEF vars, DeploymentInv, TypeOK, JobsSound
  <2>. QED
    BY <2>1, <2>2, ControlStep
<1>. QED
  BY <1>1, <1>2, <1>3, DeployStep, GoesWrongStep, LandStep DEF Next

LEMMA SpecInv == Spec => []DeploymentInv
BY InitInv, StepInv, PTL DEF Spec

\* Every variable keeps its type.
THEOREM DeploymentTypeOK == Spec => []TypeOK
<1>1. DeploymentInv => TypeOK
  BY DEF DeploymentInv
<1>. QED
  BY <1>1, SpecInv, PTL

\* Deployment is additive: only changes from outside take anything away.
THEOREM DeploymentAdditive == Spec => AdditiveOnly
<1>1. DeploymentInv /\ [Next]_vars =>
        [drifts' = drifts => \A t \in Tables : Extends(table'[t], table[t])]_vars
  BY StepInv DEF Extended
<1>. QED
  BY <1>1, SpecInv, PTL DEF Spec, AdditiveOnly

\* What a deployment reports in sync is delivered and stays delivered.
THEOREM ReportsTrue == Spec => []InSyncDelivered
<1>1. DeploymentInv => InSyncDelivered
  BY DEF DeploymentInv, OutcomesReliable, Reliable, InSyncDelivered, Delivered, Delivers
<1>. QED
  BY <1>1, SpecInv, PTL

\* Whatever writes a tag, and however late, what the tag says is delivered.
THEOREM TagsTrue == Spec => []TagsTruthful
<1>1. DeploymentInv => TagsTruthful
  BY DEF DeploymentInv, TagsSound, Truthful, TagsTruthful, Delivered, Delivers
<1>. QED
  BY <1>1, SpecInv, PTL

----------------------------------------------------------------------------
(* Projection.  With one job, and as long as nothing is lost or killed,    *)
(* nobody else writes tags: the job has tagged what the loop of the        *)
(* projection has come past, so a success it records is of a release that  *)
(* is tagged everywhere.                                                   *)

Tagged(p, todo, tag, gone) == \A t \in Governed[p] \ (todo \cup gone) : tag[t] = p

Projecting == {"tags", "unset", "set"}
Success(plan, status) == plan \in Releases /\ status = "IN_SYNC"

Projected(j, tag, gone) ==
  /\ j.phase \in Projecting => Tagged(j.plan, j.todo, tag, gone)
  /\ j.phase = "succeed" /\ Success(j.plan, j.status) => Tagged(j.plan, {}, tag, gone)

ProjectionInv(d) ==
  faults = 0 =>
    /\ pending = {}
    /\ Projected(job[d], tags, drifted)
    /\ (In(d, "idle") /\ ~outcome[d].raised /\ Success(outcome[d].plan, outcome[d].status))
         => Tagged(outcome[d].plan, {}, tags, drifted)

\* A fault is counted.
LEMMA FaultCounted ==
  ASSUME TypeOK, Fault
  PROVE  faults' # 0
BY DeploymentAssumption DEF TypeOK, Fault, DeploymentAssumption

\* A job that goes on keeps its last report out of the matter.
LEMMA GoesOn ==
  ASSUME TypeOK, NEW d \in Deployers, ProjectionInv(d), NEW j, Becomes(d, j),
         UNCHANGED <<pending, faults>>, j.phase # "idle",
         faults = 0 => Projected(j, tags', drifted')
  PROVE  ProjectionInv(d)'
<1>1. job'[d] = j
  BY DEF TypeOK, Becomes
<1>. QED
  BY <1>1 DEF ProjectionInv, In

\* The steps that leave the runtime alone.
LEMMA QuietProjection ==
  ASSUME DeploymentInv, NEW d \in Deployers, ProjectionInv(d), UNCHANGED <<Runtime, faults>>,
         \/ Preview(d) \/ CheckFresh(d) \/ StartVerify(d) \/ Classify(d) \/ FinishTags(d)
         \/ \E p \in Plans : Deploy(d, p)
         \/ \E t \in Tables : Observe(d, t) \/ SkipNoOp(d, t) \/ ReadTags(d, t)
  PROVE  ProjectionInv(d)'
<1>1. TypeOK /\ UNCHANGED <<tags, drifted, pending, faults>> /\ job[d] \in Job
  BY DEF DeploymentInv, Runtime, TypeOK
<1>2. ASSUME NEW j, Becomes(d, j), j.phase \in Phases \ (Projecting \cup {"succeed", "idle"})
      PROVE  ProjectionInv(d)'
  BY <1>1, <1>2, GoesOn DEF Projected
<1>3. Becomes(d, Leave(d, "fail")) => ProjectionInv(d)'
  BY <1>2 DEF Leave, Idle, Phases, Projecting
<1>4. CASE \E p \in Plans : Deploy(d, p)
  <2>1. PICK p \in Plans : Deploy(d, p)
    BY <1>4
  <2>2. [Idle EXCEPT !.phase = "preview", !.plan = p, !.todo = Governed[p]].phase = "preview"
    BY DEF Idle
  <2>. QED
    BY <1>2, <2>1, <2>2 DEF Deploy, Phases, Projecting
<1>5. ASSUME NEW t \in Tables, Observe(d, t)
      PROVE  ProjectionInv(d)'
  <2>1. job[d].phase \in {"preview", "recheck", "verify"}
    BY <1>5 DEF Observe, ObserveTable, ObserveTags
  <2>2. PICK j : Becomes(d, j) /\ j.phase = job[d].phase
    BY <1>1, <1>5, ObserveShape
  <2>. QED
    BY <1>2, <2>1, <2>2 DEF Phases, Projecting
<1>6. CASE Preview(d)
  <2>1. [Loop(d, "recheck") EXCEPT !.preview = job[d].seen].phase = "recheck"
    BY <1>1 DEF Loop, Job
  <2>. QED
    BY <1>2, <1>3, <1>6, <2>1 DEF Preview, Raise, Phases, Projecting
<1>7. CASE CheckFresh(d)
  <2>1. Loop(d, "execute").phase = "execute"
    BY <1>1 DEF Loop, Job
  <2>. QED
    BY <1>2, <1>3, <1>7, <2>1 DEF CheckFresh, Raise, Phases, Projecting
<1>8. CASE StartVerify(d)
  <2>1. [Loop(d, "verify") EXCEPT !.preview = Unseen].phase = "verify"
    BY <1>1 DEF Loop, Job
  <2>. QED
    BY <1>2, <1>8, <2>1 DEF StartVerify, Phases, Projecting
<1>9. ASSUME NEW t \in Tables, SkipNoOp(d, t)
      PROVE  ProjectionInv(d)'
  <2>1. Advance(d, t, "execute").phase = "execute"
    BY <1>1 DEF Advance, Job
  <2>. QED
    BY <1>2, <1>9, <2>1 DEF SkipNoOp, Phases, Projecting
<1>10. CASE Classify(d)
  <2>. DEFINE k == IF Projects(d) THEN Loop(d, "tags") ELSE Leave(d, "succeed")
              j == [k EXCEPT !.status = Verdict(d)]
  <2>1. Becomes(d, j)
    BY <1>10 DEF Classify
  <2>2. CASE Projects(d)
    <3>1. j.phase = "tags" /\ j.plan = job[d].plan /\ j.todo = Governed[job[d].plan]
      BY <1>1, <2>2 DEF Loop, Job, Scope
    <3>2. Projected(j, tags', drifted')
      BY <3>1 DEF Projected, Tagged
    <3>. HIDE DEF j
    <3>. QED
      BY <1>1, <2>1, <3>1, <3>2, GoesOn
  <2>3. CASE ~Projects(d)
    <3>1. j.phase = "succeed" /\ j.plan = job[d].plan /\ j.status = Verdict(d)
      BY <1>1, <2>3 DEF Leave, Idle
    <3>2. Projected(j, tags', drifted')
      BY <2>3, <3>1 DEF Projected, Projecting, Success, Projects
    <3>. HIDE DEF j
    <3>. QED
      BY <1>1, <2>1, <3>1, <3>2, GoesOn
  <2>. QED BY <2>2, <2>3
<1>11. CASE FinishTags(d)
  <2>1. /\ Leave(d, "succeed").phase = "succeed"
        /\ Leave(d, "succeed").plan = job[d].plan
    BY DEF Leave, Idle
  <2>2. Becomes(d, Leave(d, "succeed")) /\ job[d].phase = "tags" /\ job[d].todo = {}
    BY <1>11 DEF FinishTags, In, Done
  <2>3. faults = 0 => Projected(Leave(d, "succeed"), tags', drifted')
    BY <1>1, <2>1, <2>2 DEF ProjectionInv, Projected, Projecting
  <2>. QED
    BY <1>1, <2>1, <2>2, <2>3, GoesOn
<1>12. ASSUME NEW t \in Tables, ReadTags(d, t)
       PROVE  ProjectionInv(d)'
  <2>1. job[d].phase = "tags"
    BY <1>12 DEF ReadTags, In
  <2>2. CASE tags[t] = job[d].plan
    <3>. DEFINE j == Advance(d, t, "tags")
    <3>1. Becomes(d, j)
      BY <1>12, <2>2 DEF ReadTags
    <3>2. j.phase = "tags" /\ j.plan = job[d].plan /\ j.todo = job[d].todo \ {t}
      BY <1>1 DEF Advance, Job
    <3>. HIDE DEF j
    <3>3. faults = 0 => Projected(j, tags', drifted')
      BY <1>1, <2>1, <2>2, <3>2 DEF ProjectionInv, Projected, Projecting, Tagged
    <3>. QED
      BY <1>1, <3>1, <3>2, <3>3, GoesOn
  <2>3. CASE tags[t] # job[d].plan
    <3>1. PICK phase \in {"set", "unset"} : Becomes(d, Goto(d, phase))
      BY <1>12, <2>3 DEF ReadTags
    <3>. DEFINE j == Goto(d, phase)
    <3>2. j.phase = phase /\ j.plan = job[d].plan /\ j.todo = job[d].todo
      BY <1>1 DEF Goto, Job
    <3>. HIDE DEF j
    <3>3. faults = 0 => Projected(j, tags', drifted')
      BY <1>1, <2>1, <3>2 DEF ProjectionInv, Projected, Projecting
    <3>. QED
      BY <1>1, <3>1, <3>2, <3>3, GoesOn DEF j
  <2>. QED BY <2>2, <2>3
<1>. QED
  BY <1>4, <1>5, <1>6, <1>7, <1>8, <1>9, <1>10, <1>11, <1>12

\* A statement writes the tags of the table the loop is at, and passes it with the
\* release on it.
LEMMA StatementProjection ==
  ASSUME DeploymentInv, NEW d \in Deployers, NEW t \in Tables, ProjectionInv(d),
         RunStatement(d, t)
  PROVE  ProjectionInv(d)'
<1>1. TypeOK /\ job[d] \in Job /\ tags \in [Tables -> Plans \cup {None}] /\ Issues(d, t)
      /\ UNCHANGED <<pending, drifted, faults>> /\ job[d].plan \in Plans
  BY DEF DeploymentInv, TypeOK, JobsSound, Sound, RunStatement, Issues, Step, Raise, Runtime
<1>2. t \in job[d].todo /\ job[d].phase \in {"execute", "unset", "set"}
  BY <1>1 DEF Issues, At
<1>3. CASE ~Accepted(Running(d, t))
  <2>1. Becomes(d, Leave(d, "fail")) /\ Leave(d, "fail").phase = "fail"
    BY <1>3 DEF RunStatement, Raise, Leave, Idle
  <2>2. Projected(Leave(d, "fail"), tags', drifted')
    BY <2>1 DEF Projected, Projecting
  <2>. QED
    BY <1>1, <2>1, <2>2, GoesOn
<1>4. CASE Accepted(Running(d, t)) /\ In(d, "execute")
  <2>. DEFINE j == Advance(d, t, "execute")
  <2>1. Becomes(d, j)
    BY <1>4 DEF RunStatement, In
  <2>2. j.phase = "execute"
    BY <1>1 DEF Advance, Job
  <2>. HIDE DEF j
  <2>3. Projected(j, tags', drifted')
    BY <2>2 DEF Projected, Projecting
  <2>. QED
    BY <1>1, <2>1, <2>2, <2>3, GoesOn
<1>5. CASE Accepted(Running(d, t)) /\ In(d, "unset")
  <2>. DEFINE j == Goto(d, "set")
  <2>1. Becomes(d, j) /\ Effect(Running(d, t))
    BY <1>5 DEF RunStatement
  <2>2. Running(d, t).kind # "schema" /\ Running(d, t).on = t
    BY <1>5 DEF Running, In
  <2>3. \A u \in Tables \ {t} : tags'[u] = tags[u]
    BY <1>1, <2>1, <2>2 DEF Effect
  <2>4. j.phase = "set" /\ j.plan = job[d].plan /\ j.todo = job[d].todo
    BY <1>1 DEF Goto, Job
  <2>. HIDE DEF j
  <2>5. Governed[job[d].plan] \subseteq Tables
    BY <1>1, DeploymentAssumption DEF DeploymentAssumption
  <2>6. faults = 0 => Projected(j, tags', drifted')
    BY <1>1, <1>2, <1>5, <2>3, <2>4, <2>5 DEF ProjectionInv, Projected, Projecting, Tagged, In
  <2>. QED
    BY <1>1, <2>1, <2>4, <2>6, GoesOn
<1>6. CASE Accepted(Running(d, t)) /\ In(d, "set")
  <2>. DEFINE j == Advance(d, t, "tags")
  <2>1. Becomes(d, j) /\ Effect(Running(d, t))
    BY <1>6 DEF RunStatement, In
  <2>2. Running(d, t).kind # "schema" /\ Running(d, t).on = t /\ Running(d, t).tag = job[d].plan
    BY <1>6 DEF Running, In
  <2>3. tags'[t] = job[d].plan /\ \A u \in Tables \ {t} : tags'[u] = tags[u]
    BY <1>1, <2>1, <2>2 DEF Effect
  <2>4. j.phase = "tags" /\ j.plan = job[d].plan /\ j.todo = job[d].todo \ {t}
    BY <1>1 DEF Advance, Job
  <2>. HIDE DEF j
  <2>5. Governed[job[d].plan] \subseteq Tables
    BY <1>1, DeploymentAssumption DEF DeploymentAssumption
  <2>6. faults = 0 => Projected(j, tags', drifted')
    BY <1>1, <1>2, <1>6, <2>3, <2>4, <2>5 DEF ProjectionInv, Projected, Projecting, Tagged, In
  <2>. QED
    BY <1>1, <2>1, <2>4, <2>6, GoesOn
<1>. QED
  BY <1>2, <1>3, <1>4, <1>5, <1>6 DEF In

LEMMA ReportProjection ==
  ASSUME DeploymentInv, NEW d \in Deployers, ProjectionInv(d), UNCHANGED faults,
         NEW raised \in BOOLEAN, Report(d, raised), ~raised => In(d, "succeed")
  PROVE  ProjectionInv(d)'
<1>1. /\ UNCHANGED <<tags, pending, drifted, faults>>
      /\ job'[d] = Idle
      /\ outcome'[d] = [plan |-> job[d].plan, raised |-> raised, status |-> job[d].status]
  BY DEF DeploymentInv, TypeOK, Report, Becomes, Runtime
<1>2. Idle.phase = "idle"
  BY DEF Idle
<1>3. faults = 0 => Projected(Idle, tags, drifted)
  BY <1>2 DEF Projected, Projecting
<1>4. ASSUME faults = 0, ~raised, Success(job[d].plan, job[d].status)
      PROVE  Tagged(job[d].plan, {}, tags, drifted)
  BY <1>4 DEF ProjectionInv, Projected, In
<1>. QED
  BY <1>1, <1>2, <1>3, <1>4 DEF ProjectionInv

LEMMA ProjectionStep ==
  ASSUME DeploymentInv, [Next]_vars, NEW d, Deployers = {d}, ProjectionInv(d)
  PROVE  ProjectionInv(d)'
<1>1. TypeOK
  BY DEF DeploymentInv
<1>2. CASE Deliberate(d) \/ \E p \in Plans : Deploy(d, p)
  <2>1. CASE \E t \in Tables : RunStatement(d, t)
    BY <2>1, StatementProjection
  <2>2. CASE RecordSuccess(d)
    BY <2>2, ReportProjection DEF RecordSuccess
  <2>3. CASE RecordFailure(d)
    BY <2>3, ReportProjection DEF RecordFailure
  <2>4. CASE \/ Preview(d) \/ CheckFresh(d) \/ StartVerify(d) \/ Classify(d) \/ FinishTags(d)
             \/ \E p \in Plans : Deploy(d, p)
             \/ \E t \in Tables : Observe(d, t) \/ SkipNoOp(d, t) \/ ReadTags(d, t)
    <3>1. UNCHANGED Runtime /\ Step
      BY <2>4 DEF Preview, CheckFresh, StartVerify, Classify, FinishTags, Deploy, Observe,
                  ObserveTable, ObserveTags, SkipNoOp, ReadTags, Raise
    <3>2. UNCHANGED <<Runtime, faults>>
      BY <3>1 DEF Step
    <3>. QED
      BY <2>4, <3>2, QuietProjection
  <2>. QED
    BY <1>2, <2>1, <2>2, <2>3, <2>4 DEF Deliberate
<1>3. CASE GoesWrong(d)
  <2>1. Fault
    BY <1>3 DEF GoesWrong, SinkFails, PlatformError, Crash, LoseStatement
  <2>. QED
    BY <1>1, <2>1, FaultCounted DEF ProjectionInv
<1>4. ASSUME NEW s \in pending, Land(s)
      PROVE  ProjectionInv(d)'
  BY <1>4 DEF Land, Step, ProjectionInv
<1>5. ASSUME NEW t \in Tables, Drift(t)
      PROVE  ProjectionInv(d)'
  <2>1. /\ UNCHANGED <<job, pending, outcome, faults>> /\ drifted' = drifted \cup {t}
    BY <1>5 DEF Drift
  <2>2. \A u \in Tables \ {t} : tags'[u] = tags[u]
    BY <1>1, <1>5 DEF Drift, TypeOK
  <2>3. \A p \in Plans : Governed[p] \subseteq Tables
    BY DeploymentAssumption DEF DeploymentAssumption
  <2>4. ASSUME NEW p \in Plans, NEW todo, Tagged(p, todo, tags, drifted)
        PROVE  Tagged(p, todo, tags', drifted')
    BY <2>1, <2>2, <2>3, <2>4 DEF Tagged
  <2>5. Releases \subseteq Plans
    BY DeploymentAssumption DEF DeploymentAssumption
  <2>6. job[d].phase # "idle" => job[d].plan \in Plans
    BY DEF DeploymentInv, JobsSound, Sound
  <2>7. Projected(job[d], tags, drifted) => Projected(job[d], tags', drifted')
    BY <2>4, <2>5, <2>6 DEF Projected, Projecting, Success
  <2>. QED
    BY <2>1, <2>4, <2>5, <2>7 DEF ProjectionInv, In, Success
<1>6. CASE UNCHANGED vars
  BY <1>6 DEF vars, ProjectionInv, In
<1>. QED
  BY <1>2, <1>3, <1>4, <1>5, <1>6 DEF Next

\* With one job, and as long as nothing is lost or killed, a release that returned in
\* sync is tagged on all of its tables, whatever the tables and their tags were.
THEOREM ReleasesAreProjected ==
  ASSUME NEW d, Deployers = {d}
  PROVE  Spec => []ReleaseProjected
<1>1. Init => ProjectionInv(d)
  BY DEF Init, Idle, ProjectionInv, Projected, Projecting, Success
<1>2. DeploymentInv /\ ProjectionInv(d) /\ [Next]_vars => ProjectionInv(d)'
  BY ProjectionStep
<1>3. ProjectionInv(d) => ReleaseProjected
  BY DEF ProjectionInv, ReleaseProjected, Success, Tagged
<1>. QED
  BY <1>1, <1>2, <1>3, SpecInv, PTL DEF Spec
=============================================================================

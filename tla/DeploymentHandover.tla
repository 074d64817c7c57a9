-------------------------- MODULE DeploymentHandover --------------------------
(***************************************************************************)
(* Where and what a deployment runs: `semapact deployment assess` in one   *)
(* job and `semapact deployment deploy` in another                         *)
(* (interfaces/commands/deployment_cmd.py), with a DeploymentBundle file   *)
(* between them.  Each job has an environment of its own, out of which its *)
(* Databricks client is configured, and only assess gives it the contract  *)
(* server's host: nothing makes the two jobs reach the same workspace.     *)
(* `semapact doctor` resolves a location from the same contract.           *)
(*                                                                         *)
(* What a deployment does to the tables is Deployment's; how a release is  *)
(* made is ReleaseFlow's.  The platform is Databricks, the only one there  *)
(* is.  A command that raises before its client exists changes nothing and *)
(* is not a step.                                                          *)
(***************************************************************************)

CONSTANTS
  Jobs,         \* CI and CD jobs that share the bundle's path
  Hosts,        \* workspaces, by the text the runtime provider reports
  Spellings,    \* host texts people write; a host's own text among them
  Names,        \* server identifiers
  Targets,      \* catalog.schema
  Contracts,    \* the contract's revisions, with the servers each declares
  Blocked,      \* pairs of revisions whose change governance blocks
  Environments, \* what a job may be configured with
  Readable,     \* host and target pairs whose metadata a job may read: what is
                \* not found there is absent evidence, what is denied raises
  Present,      \* those of them that exist
  None

Server == [name : Names, host : Spellings \cup {None}, target : Targets]

\* sdk is the Databricks SDK's own chain: the host of the client it builds for
\* a hint, or for none.  A profile may outweigh a hint, so it is any function.
Environment == [override : Spellings \cup {None},
                configured : Spellings \cup {None},
                sdk : [Spellings \cup {None} -> Hosts \cup {None}]]

ASSUME HandoverAssumption ==
  /\ Hosts \subseteq Spellings
  /\ \A c \in Contracts : c.servers \subseteq Server
  /\ Blocked \subseteq Contracts \X Contracts
  /\ Environments \subseteq Environment
  /\ Readable \subseteq Hosts \X Targets
  /\ Present \subseteq Readable
  /\ None \notin Spellings \cup Names \cup Targets

VARIABLES
  file,      \* the candidate contract's file
  env,       \* the environment of each job
  artifact,  \* the bundle's path
  job

vars == <<file, env, artifact, job>>

\* reviewedOn is the workspace the review preview was observed on.
Bundle == [contract : Contracts, blocked : BOOLEAN,
           kind : {"candidate", "contract_release"},
           target : Targets, reference : Spellings, reviewedOn : Hosts]

\* DeploymentSourceSnapshot: the desired state, and what it is of.
Source == [contract : Contracts, kind : {"candidate", "contract_release"}]

CandidateSource(c) == [contract |-> c, kind |-> "candidate"]

ReleaseSource(r) == [contract |-> r, kind |-> "contract_release"]

NoFile == [state |-> "absent"]
Torn == [state |-> "torn"]
Whole(b) == [state |-> "whole", bundle |-> b]

Idle == [phase |-> "idle"]
Job == [phase : {"review", "write", "preview", "execute"},
        bundle : Bundle, host : Hosts]

TypeOK ==
  /\ file \in Contracts
  /\ env \in [Jobs -> Environments]
  /\ artifact \in {NoFile, Torn} \cup {Whole(b) : b \in Bundle}
  /\ job \in [Jobs -> Job \cup {Idle}]

Init ==
  /\ file \in Contracts
  /\ env \in [Jobs -> Environments]
  /\ artifact = NoFile
  /\ job = [j \in Jobs |-> Idle]

-----------------------------------------------------------------------------
(* Where a command looks: sets of one element, or of none when it raises.  *)

Arguments == [server : Names \cup {None}, runtime : Targets \cup {None},
              reference : Spellings \cup {None}]

\* The server named, or the only one there is.
Selected(c, args) ==
  LET matches == {s \in c.servers : args.server \in {None, s.name}}
  IN {s \in matches : matches = {s}}

\* resolve_runtime_location: the contract's servers come first, and the
\* arguments count only when it has none.
Locations(c, args) ==
  {[target |-> s.target, host |-> s.host, declared |-> TRUE] :
     s \in Selected(c, args)} \cup
  {[target |-> t, host |-> None, declared |-> FALSE] :
     t \in {t \in {args.runtime} \ {None} :
              c.servers = {} /\ args.server = None}}

\* The workspace the plan is for, as text.
References(location, args) ==
  IF location.declared
  THEN {h \in {location.host} \ {None} : args.reference \in {None, h}}
  ELSE {args.reference} \ {None}

\* The first of the explicit hint, the SemaPact variable and the project's
\* configuration that is there.
Hint(e, explicit) ==
  IF explicit # None THEN explicit
  ELSE IF e.override # None THEN e.override
  ELSE e.configured

\* The host of the client that is built, if the SDK resolves one.
Clients(e, explicit) == {e.sdk[Hint(e, explicit)]} \ {None}

\* Defect: the observation's source is not compared with the plan's.
AcceptsAnySource(host, b) == <<host, b.target>> \in Readable

\* An observation counts only from the source the plan names: the provider's
\* text of its host is compared with the plan's as it stands.
Accepts(host, b) == <<host, b.target>> \in Readable /\ host = b.reference

-----------------------------------------------------------------------------
(* assess *)

Becomes(j, state) == job' = [job EXCEPT ![j] = state]

\* The contract's own host is the hint its client is built with.  A release
\* has no base and no decision: it is its own base here.  Of the decision the
\* bundle keeps only whether it blocks.
Assess(j, source, base, args) ==
  /\ job[j] = Idle
  /\ \E location \in Locations(source.contract, args) :
     \E reference \in References(location, args) :
     \E host \in Clients(env[j], location.host) :
       Becomes(j, [phase |-> "review", host |-> host,
         bundle |-> [contract |-> source.contract, kind |-> source.kind,
                     blocked |-> <<base, source.contract>> \in Blocked,
                     target |-> location.target, reference |-> reference,
                     reviewedOn |-> host]])
  /\ UNCHANGED <<file, env, artifact>>

\* A blocked candidate is assessed all the same: only the exit code says so.
AssessCandidate(j, base, args) ==
  Assess(j, CandidateSource(file), base, args)

\* A ContractRelease from the ledger of the job's checkout, or from a file that
\* only has to agree with itself: no ledger is asked for it, so any revision of
\* the contract may come as one.
AssessRelease(j, c, args) == Assess(j, ReleaseSource(c), c, args)

At(j, phase) == job[j] # Idle /\ job[j].phase = phase

Goto(j, phase) == Becomes(j, [job[j] EXCEPT !.phase = phase])

\* The review preview, then the bundle, which is written in place: the file is
\* truncated first, and filled later.
Review(j) ==
  /\ At(j, "review")
  /\ Accepts(job[j].host, job[j].bundle)
  /\ artifact' = Torn
  /\ Goto(j, "write")
  /\ UNCHANGED <<file, env>>

\* Over what another job wrote since, the two texts may mix.
Write(j) ==
  /\ At(j, "write")
  /\ \/ artifact' = Whole(job[j].bundle)
     \/ artifact # Torn /\ artifact' = Torn
  /\ Becomes(j, Idle)
  /\ UNCHANGED <<file, env>>

-----------------------------------------------------------------------------
(* deploy *)

\* A candidate governance blocks is refused; one it wants reviewed is not.
Admits(b) == b.kind = "candidate" => ~b.blocked

\* The client is built from the job's environment alone.
Deploy(j) ==
  /\ job[j] = Idle
  /\ artifact.state = "whole"
  /\ Admits(artifact.bundle)
  /\ \E host \in Clients(env[j], None) :
       Becomes(j, [phase |-> "preview", host |-> host,
                   bundle |-> artifact.bundle])
  /\ UNCHANGED <<file, env, artifact>>

\* The fresh preview; Deployment has what follows.
Preview(j) ==
  /\ At(j, "preview")
  /\ Accepts(job[j].host, job[j].bundle)
  /\ Goto(j, "execute")
  /\ UNCHANGED <<file, env, artifact>>

Finish(j) ==
  /\ At(j, "execute")
  /\ Becomes(j, Idle)
  /\ UNCHANGED <<file, env, artifact>>

\* The observation is refused or fails: assess leaves the path as it was.
Raise(j) ==
  /\ At(j, "review") \/ At(j, "preview")
  /\ ~Accepts(job[j].host, job[j].bundle)
  /\ Becomes(j, Idle)
  /\ UNCHANGED <<file, env, artifact>>

Crash(j) ==
  /\ job[j] # Idle
  /\ Becomes(j, Idle)
  /\ UNCHANGED <<file, env, artifact>>

Command(j) ==
  \/ \E args \in Arguments :
       \/ \E base \in Contracts : AssessCandidate(j, base, args)
       \/ \E c \in Contracts : AssessRelease(j, c, args)
  \/ Review(j) \/ Write(j)
  \/ Deploy(j) \/ Preview(j) \/ Finish(j)
  \/ Raise(j) \/ Crash(j)

-----------------------------------------------------------------------------
(* What changes between the two jobs. *)

Edit(c) ==
  /\ file' = c
  /\ UNCHANGED <<env, artifact, job>>

Reconfigure(j, e) ==
  /\ job[j] = Idle
  /\ env' = [env EXCEPT ![j] = e]
  /\ UNCHANGED <<file, artifact, job>>

Next ==
  \/ \E j \in Jobs : Command(j)
  \/ \E c \in Contracts : Edit(c)
  \/ \E j \in Jobs, e \in Environments : Reconfigure(j, e)

Spec == Init /\ [][Next]_vars

-----------------------------------------------------------------------------
(* doctor *)

\* Defect: the probe's client is built from the job's environment alone.
ProbeHintOfEnvironment(location) == None

ProbeHint(location) == location.host

\* The probe's required checks pass: a client resolves a host, and the
\* target's schema is found there.
Checked(e, location) ==
  \E host \in Clients(e, ProbeHint(location)) :
    <<host, location.target>> \in Present

Ready(e, c, args) == \E location \in Locations(c, args) : Checked(e, location)

-----------------------------------------------------------------------------
(* Properties *)

\* Statements run on the workspace the reviewed preview was observed on, and
\* when the contract that is deployed declares servers, on one of those and on
\* its catalog and schema: whatever environment each job has, whatever the SDK
\* makes of it, and however often contract, bundle and environments changed in
\* between (docs/deployment_plans.md:141).
OnlyWhereAssessed ==
  \A j \in Jobs : At(j, "execute") =>
    LET b == job[j].bundle IN
    /\ job[j].host = b.reviewedOn
    /\ <<job[j].host, b.target>> \in Readable
    /\ b.contract.servers # {} =>
         \E s \in b.contract.servers :
           s.host = job[j].host /\ s.target = b.target

\* Where doctor finds the prerequisites of a contract server whose host it
\* reaches under the very text the contract has, assess in the same job is not
\* refused: the two commands resolve the same location.
ReadyIsAssessable ==
  \A j \in Jobs, args \in Arguments :
    /\ args.reference = None
    /\ \E s \in Selected(file, args) : s.host \in Clients(env[j], s.host)
    /\ Ready(env[j], file, args)
    => \E location \in Locations(file, args) :
       \E reference \in References(location, args) :
         <<reference, location.target>> \in Readable
=============================================================================

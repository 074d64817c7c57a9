----------------------- MODULE DeploymentHandoverProofs -----------------------
(***************************************************************************)
(* Proofs about DeploymentHandover, for any jobs, workspaces, spellings,   *)
(* contracts, environments and any behaviour of the SDK's own chain.       *)
(*                                                                         *)
(* The argument: a bundle enters a job with its location taken from the    *)
(* contract it carries (Drawn), gets to the path only after an observation *)
(* from the source it names (Reviewed), and is executed only after another *)
(* one; so both observations are of the one workspace the bundle names.    *)
(***************************************************************************)
EXTENDS DeploymentHandover, TLAPS

-----------------------------------------------------------------------------
(* Locations. *)

\* A resolved location is one of the contract's servers when it has any.
LEMMA LocationsAreDeclared ==
  ASSUME NEW c, NEW args, NEW location \in Locations(c, args),
         NEW reference \in References(location, args), c.servers # {}
  PROVE  \E s \in c.servers : s.host = reference /\ s.target = location.target
<1>1. PICK s \in Selected(c, args) :
        location = [target |-> s.target, host |-> s.host, declared |-> TRUE]
  BY DEF Locations
<1>2. s \in c.servers
  BY <1>1 DEF Selected
<1>3. reference = s.host /\ location.target = s.target
  BY <1>1 DEF References
<1> QED
  BY <1>2, <1>3

\* A location and its reference are of the types a target wants.
LEMMA LocationTypes ==
  ASSUME NEW c \in Contracts, NEW args \in Arguments,
         NEW location \in Locations(c, args),
         NEW reference \in References(location, args)
  PROVE  /\ location.target \in Targets
         /\ location.host \in Spellings \cup {None}
         /\ reference \in Spellings
<1>0. c.servers \subseteq Server
  BY HandoverAssumption
<1>1. CASE \E s \in Selected(c, args) :
        location = [target |-> s.target, host |-> s.host, declared |-> TRUE]
  <2>1. PICK s \in Selected(c, args) :
          location = [target |-> s.target, host |-> s.host, declared |-> TRUE]
    BY <1>1
  <2>2. s \in Server
    BY <1>0 DEF Selected
  <2>3. s.target \in Targets /\ s.host \in Spellings \cup {None}
    BY <2>2 DEF Server
  <2> QED
    BY <2>1, <2>3 DEF References
<1>2. CASE \E t \in {args.runtime} \ {None} :
        location = [target |-> t, host |-> None, declared |-> FALSE]
  <2>1. args.runtime \in Targets \cup {None} /\ args.reference \in Spellings \cup {None}
    BY DEF Arguments
  <2> QED
    BY <1>2, <2>1 DEF References
<1> QED
  BY <1>1, <1>2 DEF Locations

\* Clients are built for workspaces.
LEMMA ClientTypes ==
  ASSUME NEW e \in Environments, NEW explicit \in Spellings \cup {None}
  PROVE  Clients(e, explicit) \subseteq Hosts
<1>1. e \in Environment
  BY HandoverAssumption
<1>2. Hint(e, explicit) \in Spellings \cup {None}
  BY <1>1 DEF Hint, Environment
<1>3. e.sdk \in [Spellings \cup {None} -> Hosts \cup {None}]
  BY <1>1 DEF Environment
<1> QED
  BY <1>2, <1>3 DEF Clients

-----------------------------------------------------------------------------
(* The inductive invariant. *)

\* The location is one of the contract's, when it declares any.
Drawn(b) ==
  b.contract.servers # {} =>
    \E s \in b.contract.servers : s.host = b.reference /\ s.target = b.target

\* The preview came from the source the plan names.
Reviewed(b) ==
  b.reviewedOn = b.reference /\ <<b.reference, b.target>> \in Readable

Handed == artifact.state = "whole" =>
            Drawn(artifact.bundle) /\ Reviewed(artifact.bundle)

Carried(j) ==
  job[j] # Idle =>
    /\ Drawn(job[j].bundle)
    /\ job[j].phase = "review" => job[j].host = job[j].bundle.reviewedOn
    /\ job[j].phase # "review" => Reviewed(job[j].bundle)
    /\ job[j].phase = "execute" => job[j].host = job[j].bundle.reference

Inv == TypeOK /\ Handed /\ \A j \in Jobs : Carried(j)

-----------------------------------------------------------------------------
(* What the commands do, step by step. *)

LEMMA WholeTypes ==
  ASSUME TypeOK, artifact.state = "whole"
  PROVE  artifact.bundle \in Bundle /\ artifact = Whole(artifact.bundle)
BY DEF TypeOK, NoFile, Torn, Whole

\* A job that runs a command is a record with all three parts.
LEMMA BusyTypes ==
  ASSUME TypeOK, NEW j \in Jobs, job[j] # Idle
  PROVE  job[j] \in Job /\ job[j].bundle \in Bundle
BY DEF TypeOK, Job

\* assess sets out with a bundle whose location is drawn from its contract.
LEMMA AssessDraws ==
  ASSUME TypeOK, NEW j \in Jobs, NEW source \in Source, NEW base \in Contracts,
         NEW args \in Arguments, Assess(j, source, base, args)
  PROVE  \E b \in Bundle, host \in Hosts :
           /\ Becomes(j, [phase |-> "review", host |-> host, bundle |-> b])
           /\ b.reviewedOn = host
           /\ Drawn(b)
<1> DEFINE c == source.contract
           Of(location, reference, host) ==
             [contract |-> c, kind |-> source.kind,
              blocked |-> <<base, c>> \in Blocked,
              target |-> location.target, reference |-> reference,
              reviewedOn |-> host]
<1>0. c \in Contracts /\ source.kind \in {"candidate", "contract_release"}
  BY DEF Source
<1>1. PICK location \in Locations(c, args) :
      \E reference \in References(location, args) :
      \E host \in Clients(env[j], location.host) :
        Becomes(j, [phase |-> "review", host |-> host,
                    bundle |-> Of(location, reference, host)])
  BY DEF Assess
<1>2. PICK reference \in References(location, args) :
      \E host \in Clients(env[j], location.host) :
        Becomes(j, [phase |-> "review", host |-> host,
                    bundle |-> Of(location, reference, host)])
  BY <1>1
<1>3. PICK host \in Clients(env[j], location.host) :
        Becomes(j, [phase |-> "review", host |-> host,
                    bundle |-> Of(location, reference, host)])
  BY <1>2
<1> DEFINE b == Of(location, reference, host)
<1> HIDE DEF c
<1>4. /\ location.target \in Targets /\ reference \in Spellings
      /\ location.host \in Spellings \cup {None}
  BY <1>0, LocationTypes
<1>5. env[j] \in Environments
  BY DEF TypeOK
<1>6. host \in Hosts
  BY <1>4, <1>5, ClientTypes
<1>7. b \in Bundle
  BY <1>0, <1>4, <1>6 DEF Bundle
<1>8. b.contract.servers # {} =>
        \E s \in b.contract.servers : s.host = b.reference /\ s.target = b.target
  BY LocationsAreDeclared
<1>9. Drawn(b)
  BY <1>8 DEF Drawn, c
<1> QED
  BY <1>3, <1>6, <1>7, <1>9

\* The steps a command takes, with what each adds.
Reviewing(j) ==
  /\ job[j] # Idle /\ job[j].phase = "review"
  /\ Accepts(job[j].host, job[j].bundle)
  /\ artifact' = Torn
  /\ Becomes(j, [job[j] EXCEPT !.phase = "write"])

Executing(j) ==
  /\ job[j] # Idle /\ job[j].phase = "preview"
  /\ Accepts(job[j].host, job[j].bundle)
  /\ UNCHANGED artifact
  /\ Becomes(j, [job[j] EXCEPT !.phase = "execute"])

Writing(j) ==
  /\ job[j] # Idle /\ job[j].phase = "write"
  /\ artifact' \in {Torn, Whole(job[j].bundle)}
  /\ Becomes(j, Idle)

Assessing(j) ==
  \E b \in Bundle, host \in Hosts :
    /\ Becomes(j, [phase |-> "review", host |-> host, bundle |-> b])
    /\ b.reviewedOn = host
    /\ Drawn(b)
    /\ UNCHANGED artifact

Deploying(j) ==
  /\ artifact.state = "whole"
  /\ \E host \in Hosts :
       Becomes(j, [phase |-> "preview", host |-> host, bundle |-> artifact.bundle])
  /\ UNCHANGED artifact

Steps ==
  \/ \E j \in Jobs : \/ Assessing(j) \/ Reviewing(j) \/ Writing(j)
                     \/ Deploying(j) \/ Executing(j)
                     \/ Becomes(j, Idle) /\ UNCHANGED artifact
  \/ UNCHANGED <<job, artifact>>

\* Every step is one of those, and leaves the rest of the state in type.
LEMMA NextSteps ==
  ASSUME TypeOK, [Next]_vars
  PROVE  /\ Steps
         /\ file' \in Contracts /\ env' \in [Jobs -> Environments]
<1> DEFINE Rest == file' \in Contracts /\ env' \in [Jobs -> Environments]
<1> USE DEF TypeOK
<1>1. ASSUME NEW j \in Jobs, NEW args \in Arguments, NEW base \in Contracts,
             AssessCandidate(j, base, args)
      PROVE  Steps /\ Rest
  <2>1. Assess(j, CandidateSource(file), base, args)
    BY <1>1 DEF AssessCandidate
  <2>2. CandidateSource(file) \in Source
    BY DEF CandidateSource, Source
  <2>3. Assessing(j)
    BY <2>1, <2>2, AssessDraws DEF Assessing, Assess
  <2> QED
    BY <2>1, <2>3 DEF Steps, Assess
<1>2. ASSUME NEW j \in Jobs, NEW args \in Arguments, NEW c \in Contracts,
             AssessRelease(j, c, args)
      PROVE  Steps /\ Rest
  <2>1. Assess(j, ReleaseSource(c), c, args)
    BY <1>2 DEF AssessRelease
  <2>2. ReleaseSource(c) \in Source
    BY DEF ReleaseSource, Source
  <2>3. Assessing(j)
    BY <2>1, <2>2, AssessDraws DEF Assessing, Assess
  <2> QED
    BY <2>1, <2>3 DEF Steps, Assess
<1>3. ASSUME NEW j \in Jobs, Review(j) PROVE Steps /\ Rest
  BY <1>3 DEF Review, At, Goto, Steps, Reviewing
<1>4. ASSUME NEW j \in Jobs, Write(j) PROVE Steps /\ Rest
  BY <1>4 DEF Write, At, Steps, Writing
<1>5. ASSUME NEW j \in Jobs, Deploy(j) PROVE Steps /\ Rest
  <2>1. Clients(env[j], None) \subseteq Hosts
    BY ClientTypes
  <2>2. Deploying(j)
    BY <1>5, <2>1 DEF Deploy, Deploying
  <2> QED
    BY <1>5, <2>2 DEF Steps, Deploy
<1>6. ASSUME NEW j \in Jobs, Preview(j) PROVE Steps /\ Rest
  BY <1>6 DEF Preview, At, Goto, Steps, Executing
<1>7. ASSUME NEW j \in Jobs, Finish(j) \/ Raise(j) \/ Crash(j) PROVE Steps /\ Rest
  BY <1>7 DEF Finish, Raise, Crash, Steps
<1>8. CASE \E c \in Contracts : Edit(c)
  BY <1>8 DEF Edit, Steps
<1>9. ASSUME NEW j \in Jobs, NEW e \in Environments, Reconfigure(j, e) PROVE Steps /\ Rest
  BY <1>9 DEF Reconfigure, Steps
<1>10. CASE UNCHANGED vars
  BY <1>10 DEF vars, Steps
<1> QED
  BY <1>1, <1>2, <1>3, <1>4, <1>5, <1>6, <1>7, <1>8, <1>9, <1>10 DEF Next, Command

-----------------------------------------------------------------------------
(* The invariant. *)

LEMMA InvInit == Init => Inv
BY DEF Init, Inv, TypeOK, Handed, Carried, NoFile

\* A step that gives a job a state in order, and the path one, keeps all in
\* order.
LEMMA StepOfOne ==
  ASSUME Inv, [Next]_vars, NEW j \in Jobs, NEW state \in Job \cup {Idle},
         Becomes(j, state), Carried(j)',
         artifact' \in {NoFile, Torn} \cup {Whole(b) : b \in Bundle}, Handed'
  PROVE  Inv'
<1>1. ASSUME NEW k \in Jobs, k # j PROVE Carried(k)'
  <2>1. job'[k] = job[k]
    BY <1>1 DEF Becomes, Inv, TypeOK
  <2> QED
    BY <2>1 DEF Inv, Carried, Drawn, Reviewed
<1>2. TypeOK'
  BY NextSteps DEF Inv, TypeOK, Becomes
<1> QED
  BY <1>1, <1>2 DEF Inv

\* What is at the path stays in order while nobody writes it.
LEMMA HandedStays ==
  ASSUME Inv, [Next]_vars, UNCHANGED artifact
  PROVE  Handed'
BY NextSteps DEF Inv, Handed, Drawn, Reviewed

LEMMA InvStep == Inv /\ [Next]_vars => Inv'
<1> SUFFICES ASSUME Inv, [Next]_vars PROVE Inv'
  OBVIOUS
<1>0. TypeOK /\ Steps
  BY NextSteps DEF Inv
<1>1. ASSUME NEW j \in Jobs, Assessing(j) PROVE Inv'
  <2>1. PICK b \in Bundle, host \in Hosts :
          /\ Becomes(j, [phase |-> "review", host |-> host, bundle |-> b])
          /\ b.reviewedOn = host /\ Drawn(b) /\ UNCHANGED artifact
    BY <1>1 DEF Assessing
  <2>2. job'[j] = [phase |-> "review", host |-> host, bundle |-> b]
    BY <1>0, <2>1 DEF Becomes, TypeOK
  <2>3. Drawn(b)'
    BY <1>0, <2>1 DEF Drawn
  <2>4. Carried(j)'
    BY <2>1, <2>2, <2>3 DEF Carried, Drawn
  <2>5. [phase |-> "review", host |-> host, bundle |-> b] \in Job
    BY DEF Job
  <2> QED
    BY <1>0, <2>1, <2>4, <2>5, StepOfOne, HandedStays DEF TypeOK
<1>2. ASSUME NEW j \in Jobs, Reviewing(j) PROVE Inv'
  <2>1. job[j] \in Job /\ job[j] # Idle
    BY <1>0, <1>2, BusyTypes DEF Reviewing
  <2> DEFINE state == [job[j] EXCEPT !.phase = "write"]
  <2>2. /\ state \in Job /\ state.phase = "write"
        /\ state.bundle = job[j].bundle /\ state.host = job[j].host
    BY <2>1 DEF Job
  <2>3. job'[j] = state
    BY <1>0, <1>2 DEF Reviewing, Becomes, TypeOK
  <2>4. Reviewed(job[j].bundle)
    BY <1>2, <2>1 DEF Inv, Carried, Reviewing, Reviewed, Accepts
  <2>5. Drawn(job[j].bundle)
    BY <2>1 DEF Inv, Carried
  <2>6. Carried(j)'
    BY <1>0, <2>2, <2>3, <2>4, <2>5 DEF Carried, Drawn, Reviewed
  <2>7. Handed'
    BY <1>2 DEF Reviewing, Handed, Torn
  <2> QED
    BY <1>2, <2>2, <2>6, <2>7, StepOfOne DEF Reviewing
<1>3. ASSUME NEW j \in Jobs, Writing(j) PROVE Inv'
  <2>1. job[j].bundle \in Bundle
    BY <1>0, <1>3, BusyTypes DEF Writing
  <2>2. Drawn(job[j].bundle) /\ Reviewed(job[j].bundle)
    BY <1>3 DEF Inv, Carried, Writing
  <2>3. job'[j] = Idle
    BY <1>0, <1>3 DEF Writing, Becomes, TypeOK
  <2>4. Carried(j)'
    BY <2>3 DEF Carried
  <2>5. CASE artifact' = Torn
    <3>1. Handed'
      BY <2>5 DEF Handed, Torn
    <3> QED
      BY <1>3, <2>4, <2>5, <3>1, StepOfOne DEF Writing
  <2>6. CASE artifact' = Whole(job[j].bundle)
    <3>1. artifact'.bundle = job[j].bundle
      BY <2>6 DEF Whole
    <3>2. Handed'
      BY <1>0, <2>2, <3>1 DEF Handed, Drawn, Reviewed
    <3> QED
      BY <1>3, <2>1, <2>4, <2>6, <3>2, StepOfOne DEF Writing
  <2> QED
    BY <1>3, <2>5, <2>6 DEF Writing
<1>4. ASSUME NEW j \in Jobs, Deploying(j) PROVE Inv'
  <2>1. PICK host \in Hosts :
          Becomes(j, [phase |-> "preview", host |-> host, bundle |-> artifact.bundle])
    BY <1>4 DEF Deploying
  <2>2. artifact.bundle \in Bundle
    BY <1>0, <1>4, WholeTypes DEF Deploying
  <2>3. Drawn(artifact.bundle) /\ Reviewed(artifact.bundle)
    BY <1>4 DEF Inv, Handed, Deploying
  <2>4. job'[j] = [phase |-> "preview", host |-> host, bundle |-> artifact.bundle]
    BY <1>0, <2>1 DEF Becomes, TypeOK
  <2>5. Carried(j)'
    BY <1>0, <2>3, <2>4 DEF Carried, Drawn, Reviewed
  <2>6. [phase |-> "preview", host |-> host, bundle |-> artifact.bundle] \in Job
    BY <2>2 DEF Job
  <2> QED
    BY <1>0, <1>4, <2>1, <2>5, <2>6, StepOfOne, HandedStays DEF Deploying, TypeOK
<1>5. ASSUME NEW j \in Jobs, Executing(j) PROVE Inv'
  <2>1. job[j] \in Job /\ job[j] # Idle
    BY <1>0, <1>5, BusyTypes DEF Executing
  <2> DEFINE state == [job[j] EXCEPT !.phase = "execute"]
  <2>2. /\ state \in Job /\ state.phase = "execute"
        /\ state.bundle = job[j].bundle /\ state.host = job[j].host
    BY <2>1 DEF Job
  <2>3. job'[j] = state
    BY <1>0, <1>5 DEF Executing, Becomes, TypeOK
  <2>4. /\ Reviewed(job[j].bundle) /\ Drawn(job[j].bundle)
    BY <1>5, <2>1 DEF Inv, Carried, Executing
  <2>5. job[j].host = job[j].bundle.reference
    BY <1>5 DEF Executing, Accepts
  <2>6. Carried(j)'
    BY <1>0, <2>2, <2>3, <2>4, <2>5 DEF Carried, Drawn, Reviewed
  <2> QED
    BY <1>0, <1>5, <2>2, <2>6, StepOfOne, HandedStays DEF Executing, TypeOK
<1>6. ASSUME NEW j \in Jobs, Becomes(j, Idle), UNCHANGED artifact PROVE Inv'
  <2>1. job'[j] = Idle
    BY <1>0, <1>6 DEF Becomes, TypeOK
  <2>2. Carried(j)'
    BY <2>1 DEF Carried
  <2> QED
    BY <1>0, <1>6, <2>2, StepOfOne, HandedStays DEF TypeOK
<1>7. CASE UNCHANGED <<job, artifact>>
  <2>1. TypeOK'
    BY <1>0, <1>7, NextSteps DEF TypeOK
  <2>2. \A j \in Jobs : Carried(j)'
    BY <1>0, <1>7 DEF Inv, Carried, Drawn, Reviewed
  <2> QED
    BY <1>7, <2>1, <2>2, HandedStays DEF Inv
<1> QED
  BY <1>0, <1>1, <1>2, <1>3, <1>4, <1>5, <1>6, <1>7 DEF Steps

\* Every execution is of a drawn and reviewed bundle, on the workspace it names.
LEMMA Invariance == Spec => []Inv
BY InvInit, InvStep, PTL DEF Spec

-----------------------------------------------------------------------------
(* The theorems. *)

\* Types, for the reader of the invariant.
THEOREM HandoverTypes == Spec => []TypeOK
BY Invariance, PTL DEF Inv

\* Whatever the environments of the jobs and the SDK's own chain, statements
\* run on the workspace that was reviewed, and on a server the deployed
\* contract declares when it declares any.
THEOREM ExecutionStaysWhereAssessed == Spec => []OnlyWhereAssessed
<1>1. Inv => OnlyWhereAssessed
  BY DEF Inv, Carried, Reviewed, Drawn, OnlyWhereAssessed, At
<1> QED
  BY <1>1, Invariance, PTL

\* doctor and assess agree on where a declared server is.
THEOREM ReadinessAgrees == Spec => []ReadyIsAssessable
<1>1. ReadyIsAssessable
  <2> SUFFICES ASSUME NEW j \in Jobs, NEW args \in Arguments,
                      args.reference = None, Ready(env[j], file, args),
                      NEW s \in Selected(file, args),
                      s.host \in Clients(env[j], s.host)
               PROVE  \E location \in Locations(file, args) :
                      \E reference \in References(location, args) :
                        <<reference, location.target>> \in Readable
    BY DEF ReadyIsAssessable
  <2>1. PICK location \in Locations(file, args) :
        \E host \in Clients(env[j], location.host) :
          <<host, location.target>> \in Readable
    BY HandoverAssumption DEF Ready, Checked, ProbeHint
  <2>2. file.servers # {}
    BY DEF Selected
  <2>3. \A r \in Selected(file, args) : r = s
    BY DEF Selected
  <2>4. location = [target |-> s.target, host |-> s.host, declared |-> TRUE]
    BY <2>2, <2>3 DEF Locations
  <2>5. <<s.host, s.target>> \in Readable
    BY <2>1, <2>4 DEF Clients
  <2>6. s.host \in References(location, args)
    BY <2>4 DEF References, Clients
  <2> QED
    BY <2>4, <2>5, <2>6
<1> QED
  BY <1>1, PTL
=============================================================================

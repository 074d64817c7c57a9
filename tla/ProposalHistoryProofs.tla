----------------------- MODULE ProposalHistoryProofs -----------------------
(***************************************************************************)
(* What ProposalHistory promises for any number of callers, checkers and   *)
(* artifacts, any references between them, and any interleaving of puts,   *)
(* deaths, losses, edits and reads.                                        *)
(*                                                                         *)
(* The invariant follows the evidence: what a call put stays kept (present *)
(* and sealed, or lost since), so a stored change set or link is grounded; *)
(* a walk that met one while it was stored keeps that grounding, and every *)
(* issue or silence of its report is drawn from it.                        *)
(***************************************************************************)
EXTENDS ProposalHistory, TLAPS

GroundedChangeSet(cs) ==
  \/ cs \in ported
  \/ \A f \in Fields : /\ Kept(RevisionRef[cs][f])
                       /\ ContractOf[RevisionRef[cs][f]] = ContractOf[cs]

GroundedLink(l) ==
  \/ l \in ported
  \/ \E q \in Requests :
       Valid(q) /\ LinkOf(q) = l /\ \A a \in Parts(q) : Kept(a)

ChangeSetsGrounded == \A cs \in stored \cap ChangeSets : GroundedChangeSet(cs)

\* A call has completed the puts before the one it is at.
CallOK(job) ==
  /\ Valid(job.request)
  /\ \A i \in Steps : i < job.step => Kept(Chain(job.request)[i])

CallsOK == \A w \in Callers : proc[w] # Idle => CallOK(proc[w])

Justified(issue) ==
  \/ /\ issue.source \in ChangeSets
     /\ \/ issue.source \in ported
        \/ \E f \in Fields : RevisionRef[issue.source][f] \in lost
  \/ /\ issue.source \in Links
     /\ \/ issue.source \in ported
        \/ \E d \in Decisions : IdOf[d] = issue.source[2] /\ d \in lost
  \/ issue.source \in Releases

RevisionFound(cs, f, k) ==
  Here(RevisionRef[cs][f]) /\ ContractOf[RevisionRef[cs][f]] = k

DecisionFound(l, k) ==
  \E d \in Decisions : IdOf[d] = l[2] /\ Here(d) /\ ContractOf[d] = k

\* The walk is past field f of the change set it is at.
Past(job, f) ==
  \/ job.phase \notin Fields
  \/ job.phase = "candidate_revision_ref" /\ f = "base_revision_ref"

WalkFacts(job) ==
  /\ job.unread \subseteq job.changeSets
  /\ job.decisions \subseteq job.links
  /\ \A cs \in job.changeSets : ContractOf[cs] = job.contract
  /\ \A l \in job.links : l[1] \in job.changeSets
  /\ job.phase \in {"changeSets", "releases"} =>
       job.unread = job.changeSets /\ job.links = {}
  /\ job.phase \in Fields \cup {"links", "decisions"} =>
       job.current \in job.changeSets
  /\ job.phase # "decisions" => job.decisions = {}
  /\ job.phase = "report" => job.unread = {}
  /\ job.phase = "report" /\ job.issues = {} => \A r \in job.releases :
       ReleaseRef[r][1] \in job.changeSets /\ ReleaseRef[r] \in job.links

\* Whatever the walk met is grounded, and it is silent only of what it found.
WalkEvidence(job) ==
  /\ \A cs \in job.changeSets : GroundedChangeSet(cs)
  /\ \A l \in job.links : GroundedLink(l) /\ Here(l)
  /\ \A issue \in job.issues : Justified(issue)
  /\ job.issues = {} =>
       /\ \A cs \in job.changeSets \ job.unread : \A f \in Fields :
            (cs = job.current => Past(job, f)) =>
            RevisionFound(cs, f, job.contract)
       /\ \A l \in job.links \ job.decisions : DecisionFound(l, job.contract)

WalksOK == \A c \in Checkers :
  check[c] # Idle => WalkFacts(check[c]) /\ WalkEvidence(check[c])

IInv ==
  /\ TypeOK
  /\ CallsOK
  /\ ChangeSetsGrounded
  /\ LinksGrounded
  /\ AckedProposalKept
  /\ WalksOK

-----------------------------------------------------------------------------
(* The steps that write the trail, and what no step takes back.            *)

LEMMA Publishes ==
  ASSUME TypeOK, NEW w \in Callers, NEW a \in Artifacts, Publish(w, a)
  PROVE  /\ a \notin stored
         /\ stored' = stored \cup {a}
         /\ unsealed' = unsealed \cup {a}
         /\ UNCHANGED <<damaged, lost, ported, acked, proc, check>>
BY DEF Publish, Free, SameFile

LEMMA KeptStays ==
  ASSUME TypeOK, [Next]_vars
  PROVE  /\ \A a : Kept(a) => Kept(a)'
         /\ \A a : Here(a) => Here(a)'
         /\ lost \subseteq lost'
         /\ ported \subseteq ported'
<1> DEFINE Goal == /\ \A a : Kept(a) => Kept(a)'
                   /\ \A a : Here(a) => Here(a)'
                   /\ lost \subseteq lost'
                   /\ ported \subseteq ported'
<1> USE DEF Kept, Here
<1>1. ASSUME NEW w \in Callers, NEW q \in Requests, Begin(w, q) PROVE Goal
  BY <1>1 DEF Begin, trail
<1>2. ASSUME NEW w \in Callers, NEW a \in Artifacts, Publish(w, a) PROVE Goal
  BY <1>2, Publishes
<1>3. ASSUME NEW w \in Callers, NEW a \in Artifacts,
             Seal(w, a) \/ SealLink(w, a) \/ Raise(w, a) PROVE Goal
  BY <1>3 DEF Seal, SealLink, Raise, trail
<1>4. ASSUME NEW w \in Callers, Crash(w) PROVE Goal
  BY <1>4 DEF Crash, trail
<1>5. ASSUME NEW a \in Stray, PutAlone(a) PROVE Goal
  BY <1>5 DEF PutAlone
<1>6. ASSUME NEW a \in Editable, Edit(a) PROVE Goal
  BY <1>6 DEF Edit
<1>7. ASSUME NEW a \in Losable, Lose(a) PROVE Goal
  BY <1>7 DEF Lose
<1>8. ASSUME NEW c \in Checkers, Walk(c) PROVE Goal
  BY <1>8 DEF Walk, Inspect, ListChangeSets, ListReleases, NextProposal,
     ResolveRevision, ListLinks, ResolveDecision, Report, EndCheck,
     RaiseCorruption, Becomes, trail
<1>9. CASE UNCHANGED vars
  BY <1>9 DEF vars
<1> QED
  BY <1>1, <1>2, <1>3, <1>4, <1>5, <1>6, <1>7, <1>8, <1>9
     DEF Next, Record, Outside

LEMMA EvidenceStays ==
  ASSUME TypeOK, [Next]_vars
  PROVE  /\ \A cs \in ChangeSets : GroundedChangeSet(cs) => GroundedChangeSet(cs)'
         /\ \A l : GroundedLink(l) => GroundedLink(l)'
         /\ \A issue : Justified(issue) => Justified(issue)'
         /\ \A cs, f, k : RevisionFound(cs, f, k) => RevisionFound(cs, f, k)'
         /\ \A l, k : DecisionFound(l, k) => DecisionFound(l, k)'
<1>1. /\ \A a : Kept(a) => Kept(a)'
      /\ \A a : Here(a) => Here(a)'
      /\ lost \subseteq lost'
      /\ ported \subseteq ported'
  BY KeptStays
<1>2. \A cs \in ChangeSets : GroundedChangeSet(cs) => GroundedChangeSet(cs)'
  BY <1>1 DEF GroundedChangeSet
<1>3. \A l : GroundedLink(l) => GroundedLink(l)'
  BY <1>1 DEF GroundedLink
<1>4. \A issue : Justified(issue) => Justified(issue)'
  BY <1>1 DEF Justified
<1>5. \A cs, f, k : RevisionFound(cs, f, k) => RevisionFound(cs, f, k)'
  BY <1>1 DEF RevisionFound
<1>6. \A l, k : DecisionFound(l, k) => DecisionFound(l, k)'
  BY <1>1 DEF DecisionFound
<1> QED
  BY <1>2, <1>3, <1>4, <1>5, <1>6

-----------------------------------------------------------------------------
(* The calls: one case per action that writes.                             *)

\* Everything the writers' actions preserve.
Trail ==
  /\ stored \subseteq Artifacts
  /\ unsealed \subseteq stored
  /\ damaged \subseteq stored
  /\ lost \subseteq Losable
  /\ ported \subseteq Stray
  /\ acked \subseteq Requests
  /\ proc \in [Callers -> Call \cup {Idle}]

LEMMA TrailInit == Init => TypeOK /\ CallsOK /\ ChangeSetsGrounded
                          /\ LinksGrounded /\ AckedProposalKept /\ WalksOK
BY DEF Init, TypeOK, CallsOK, ChangeSetsGrounded, LinksGrounded,
   AckedProposalKept, WalksOK

LEMMA ChainType ==
  ASSUME NEW q \in Requests
  PROVE  /\ Parts(q) \subseteq Artifacts /\ LinkOf(q) \in Links
         /\ \A i \in Steps : Chain(q)[i] \in Artifacts
         /\ \A i \in Steps : Chain(q)[i] \in ChangeSets => i = 3
         /\ \A i \in Steps : Chain(q)[i] \in Links => i = 5
<1>1. q.base \in Revisions /\ q.candidate \in Revisions
      /\ q.changeSet \in ChangeSets /\ q.decision \in Decisions
  BY DEF Requests
<1>2. LinkOf(q) \in Links
  BY <1>1 DEF LinkOf, Links, DecisionIds
<1>3. \A i \in Steps : i \in {1, 2, 3, 4, 5}
  BY DEF Steps
<1>4. /\ Chain(q)[1] = q.base /\ Chain(q)[2] = q.candidate
      /\ Chain(q)[3] = q.changeSet /\ Chain(q)[4] = q.decision
      /\ Chain(q)[5] = LinkOf(q)
  BY DEF Chain
<1> QED
  BY <1>1, <1>2, <1>3, <1>4, KindsAssumption DEF Parts, Artifacts

LEMMA CallType ==
  ASSUME NEW job \in Call \cup {Idle}, job # Idle
  PROVE  job.request \in Requests /\ job.step \in Steps
BY DEF Call

\* What a call has put, by the time it is at its link and at its end.
LEMMA CallDone ==
  ASSUME TypeOK, CallsOK, NEW w \in Callers, proc[w] # Idle
  PROVE  LET q == proc[w].request IN
         /\ proc[w].step \in {3, 4, 5} => Kept(q.base) /\ Kept(q.candidate)
         /\ proc[w].step = 5 => \A a \in Parts(q) : Kept(a)
<1>. DEFINE q == proc[w].request
<1>1. proc[w].step \in Steps /\ q \in Requests
  BY CallType DEF TypeOK
<1>2. \A i \in Steps : i < proc[w].step => Kept(Chain(q)[i])
  BY DEF CallsOK, CallOK
<1>3. /\ Chain(q)[1] = q.base /\ Chain(q)[2] = q.candidate
      /\ Chain(q)[3] = q.changeSet /\ Chain(q)[4] = q.decision
  BY DEF Chain
<1>4. proc[w].step \in {3, 4, 5} => Kept(Chain(q)[1]) /\ Kept(Chain(q)[2])
  BY <1>1, <1>2 DEF Steps
<1>5. proc[w].step = 5 => Kept(Chain(q)[3]) /\ Kept(Chain(q)[4])
  BY <1>1, <1>2 DEF Steps
<1> QED
  BY <1>3, <1>4, <1>5 DEF Parts

LEMMA TrailType == TypeOK /\ [Next]_vars => Trail'
<1> SUFFICES ASSUME TypeOK, [Next]_vars PROVE Trail'
  OBVIOUS
<1> USE DEF TypeOK, Trail
<1>1. ASSUME NEW w \in Callers, NEW q \in Requests, Begin(w, q) PROVE Trail'
  BY <1>1 DEF Begin, trail, Call, Steps
<1>2. ASSUME NEW w \in Callers, NEW a \in Artifacts, Publish(w, a) PROVE Trail'
  BY <1>2, Publishes
<1>3. ASSUME NEW w \in Callers, NEW a \in Artifacts, Seal(w, a) PROVE Trail'
  <2>1. proc[w] # Idle /\ proc[w] \in Call
    BY <1>3 DEF Seal, Putting
  <2>2. [proc[w] EXCEPT !.step = @ + 1] \in Call
    BY <1>3, <2>1 DEF Seal, Call, Steps
  <2>3. proc' = [proc EXCEPT ![w] = [proc[w] EXCEPT !.step = @ + 1]]
    BY <1>3, Zenon DEF Seal
  <2>4. proc' \in [Callers -> Call \cup {Idle}]
    BY <2>2, <2>3, Zenon
  <2> QED
    BY <1>3, <2>4 DEF Seal
<1>4. ASSUME NEW w \in Callers, NEW a \in Artifacts, SealLink(w, a) PROVE Trail'
  <2>1. proc[w].request \in Requests
    BY <1>4, CallType DEF SealLink, Putting
  <2> QED
    BY <1>4, <2>1 DEF SealLink
<1>5. ASSUME NEW w \in Callers, NEW a \in Artifacts, Raise(w, a) PROVE Trail'
  BY <1>5 DEF Raise, trail
<1>6. ASSUME NEW w \in Callers, Crash(w) PROVE Trail'
  BY <1>6 DEF Crash, trail
<1>7. ASSUME NEW a \in Stray, PutAlone(a) PROVE Trail'
  BY <1>7, ReferencesAssumption DEF PutAlone
<1>8. ASSUME NEW a \in Editable, Edit(a) PROVE Trail'
  BY <1>8 DEF Edit
<1>9. ASSUME NEW a \in Losable, Lose(a) PROVE Trail'
  BY <1>9 DEF Lose
<1>10. ASSUME NEW c \in Checkers, Walk(c) PROVE Trail'
  BY <1>10 DEF Walk, Inspect, ListChangeSets, ListReleases, NextProposal,
     ResolveRevision, ListLinks, ResolveDecision, Report, EndCheck,
     RaiseCorruption, Becomes, trail
<1>11. CASE UNCHANGED vars
  BY <1>11 DEF vars
<1> QED
  BY <1>1, <1>2, <1>3, <1>4, <1>5, <1>6, <1>7, <1>8, <1>9, <1>10, <1>11
     DEF Next, Record, Outside

-----------------------------------------------------------------------------
(* What record_proposal keeps.                                             *)

\* A step of another process leaves a call as it is.
LEMMA CallsStep == TypeOK /\ CallsOK /\ [Next]_vars => CallsOK'
<1> SUFFICES ASSUME TypeOK, CallsOK, [Next]_vars,
                    NEW v \in Callers, proc'[v] # Idle
             PROVE  CallOK(proc[v])'
  BY DEF CallsOK
<1> DEFINE Unmoved == proc'[v] = proc[v]
<1>1. \A a : Kept(a) => Kept(a)'
  BY KeptStays
<1>2. Unmoved => CallOK(proc[v])'
  BY <1>1 DEF CallsOK, CallOK
<1>3. ASSUME NEW w \in Callers, NEW q \in Requests, Begin(w, q)
      PROVE  CallOK(proc[v])'
  <2>1. CASE v = w
    <3>1. proc'[v].request = q /\ proc'[v].step = 1 /\ Valid(q)
      BY <1>3, <2>1 DEF Begin, TypeOK
    <3> QED
      BY <3>1 DEF CallOK, Steps
  <2> QED
    BY <1>2, <1>3, <2>1 DEF Begin, TypeOK
<1>4. ASSUME NEW w \in Callers, NEW a \in Artifacts, Seal(w, a)
      PROVE  CallOK(proc[v])'
  <2>1. CASE v = w
    <3>1. PICK q, n : q = proc[w].request /\ n = proc[w].step
      OBVIOUS
    <3>2. proc[w] \in Call /\ CallOK(proc[w]) /\ a = Chain(q)[n]
      BY <1>4, <3>1 DEF Seal, Putting, TypeOK, CallsOK
    <3>3. Kept(a)'
      BY <1>4 DEF Seal, Agrees, Kept
    <3>4. proc'[v].request = q /\ proc'[v].step = n + 1
      BY <1>4, <2>1, <3>1, <3>2 DEF Seal, TypeOK, Call
    <3>5. n \in Nat /\ Steps \subseteq Nat
      BY <3>1, <3>2 DEF Call, Steps
    <3>6. \A i \in Steps : i < n => Kept(Chain(q)[i])
      BY <3>1, <3>2 DEF CallOK
    <3>7. ASSUME NEW i \in Steps, i < n + 1 PROVE Kept(Chain(q)[i])'
      <4>1. i < n \/ i = n
        BY <3>5, <3>7
      <4> QED
        BY <1>1, <3>2, <3>3, <3>6, <4>1 DEF Chain, LinkOf
    <3> QED
      BY <3>1, <3>2, <3>4, <3>7 DEF CallOK, Valid
  <2> QED
    BY <1>2, <1>4, <2>1 DEF Seal, TypeOK
<1>5. ASSUME NEW w \in Callers, \/ proc' = [proc EXCEPT ![w] = Idle]
                                \/ UNCHANGED proc
      PROVE  CallOK(proc[v])'
  BY <1>2, <1>5 DEF TypeOK
<1>6. ASSUME UNCHANGED proc PROVE CallOK(proc[v])'
  BY <1>2, <1>6
<1>7. ASSUME NEW w \in Callers, Record(w) PROVE CallOK(proc[v])'
  BY <1>3, <1>4, <1>5, <1>7
     DEF Record, Publish, SealLink, Raise, Crash
<1>8. ASSUME NEW c \in Checkers, Walk(c) PROVE UNCHANGED proc
  BY <1>8 DEF Walk, Inspect, ListChangeSets, ListReleases, NextProposal,
     ResolveRevision, ListLinks, ResolveDecision, Report, EndCheck,
     RaiseCorruption, Becomes
<1> QED
  BY <1>6, <1>7, <1>8 DEF Next, Outside, PutAlone, Edit, Lose, vars

\* How an artifact can come to be stored.
LEMMA StoredBy ==
  ASSUME TypeOK, [Next]_vars, NEW a, a \in stored', a \notin stored
  PROVE  \/ a \in ported'
         \/ \E w \in Callers : a \in Artifacts /\ Publish(w, a)
<1> DEFINE Goal == \/ a \in ported'
                   \/ \E w \in Callers : a \in Artifacts /\ Publish(w, a)
<1>1. ASSUME NEW w \in Callers, NEW b \in Artifacts, Publish(w, b) PROVE Goal
  BY <1>1, Publishes
<1>2. ASSUME NEW w \in Callers, Record(w) PROVE Goal
  BY <1>1, <1>2 DEF Record, Begin, Seal, SealLink, Raise, Crash, trail
<1>3. ASSUME NEW c \in Checkers, Walk(c) PROVE Goal
  BY <1>3 DEF Walk, Inspect, ListChangeSets, ListReleases, NextProposal,
     ResolveRevision, ListLinks, ResolveDecision, Report, EndCheck,
     RaiseCorruption, Becomes, trail
<1>4. CASE Outside
  BY <1>4 DEF Outside, PutAlone, Edit, Lose
<1> QED
  BY <1>2, <1>3, <1>4 DEF Next, vars

LEMMA ChangeSetsStep ==
  TypeOK /\ CallsOK /\ ChangeSetsGrounded /\ [Next]_vars => ChangeSetsGrounded'
<1> SUFFICES ASSUME TypeOK, CallsOK, ChangeSetsGrounded, [Next]_vars,
                    NEW cs \in ChangeSets, cs \in stored'
             PROVE  GroundedChangeSet(cs)'
  BY DEF ChangeSetsGrounded
<1>1. CASE cs \in stored
  BY <1>1, EvidenceStays DEF ChangeSetsGrounded
<1>2. CASE cs \notin stored /\ cs \in ported'
  BY <1>2 DEF GroundedChangeSet
<1>3. ASSUME NEW w \in Callers, cs \in Artifacts, Publish(w, cs)
      PROVE  GroundedChangeSet(cs)'
  <2> DEFINE q == proc[w].request
  <2>1. proc[w] # Idle /\ cs = Chain(q)[proc[w].step]
    BY <1>3 DEF Publish, Putting
  <2>2. q \in Requests /\ proc[w].step \in Steps
    BY <2>1, CallType DEF TypeOK
  <2>3. proc[w].step = 3 /\ cs = q.changeSet
    BY <2>1, <2>2, ChainType DEF Chain
  <2>4. Kept(q.base) /\ Kept(q.candidate)
    BY <2>1, <2>3, CallDone
  <2>5. Valid(q)
    BY <2>1 DEF CallsOK, CallOK
  <2>6. GroundedChangeSet(cs)
    BY <2>3, <2>4, <2>5 DEF Valid, GroundedChangeSet, Fields
  <2> QED
    BY <2>6, EvidenceStays
<1> QED
  BY <1>1, <1>2, <1>3, StoredBy

LEMMA LinksStep ==
  TypeOK /\ CallsOK /\ LinksGrounded /\ [Next]_vars => LinksGrounded'
<1> SUFFICES ASSUME TypeOK, CallsOK, LinksGrounded, [Next]_vars,
                    NEW l \in Links, l \in stored'
             PROVE  GroundedLink(l)'
  BY DEF LinksGrounded, GroundedLink
<1>1. CASE l \in stored
  BY <1>1, EvidenceStays DEF LinksGrounded, GroundedLink
<1>2. CASE l \notin stored /\ l \in ported'
  BY <1>2 DEF GroundedLink
<1>3. ASSUME NEW w \in Callers, l \in Artifacts, Publish(w, l)
      PROVE  GroundedLink(l)'
  <2> DEFINE q == proc[w].request
  <2>1. proc[w] # Idle /\ l = Chain(q)[proc[w].step]
    BY <1>3 DEF Publish, Putting
  <2>2. q \in Requests /\ proc[w].step \in Steps
    BY <2>1, CallType DEF TypeOK
  <2>3. proc[w].step = 5 /\ l = LinkOf(q)
    BY <2>1, <2>2, ChainType DEF Chain
  <2>4. \A a \in Parts(q) : Kept(a)
    BY <2>1, <2>3, CallDone
  <2>5. Valid(q)
    BY <2>1 DEF CallsOK, CallOK
  <2>6. GroundedLink(l)
    BY <2>2, <2>3, <2>4, <2>5 DEF GroundedLink
  <2> QED
    BY <2>6, EvidenceStays
<1> QED
  BY <1>1, <1>2, <1>3, StoredBy

LEMMA AckedStep ==
  TypeOK /\ CallsOK /\ AckedProposalKept /\ [Next]_vars => AckedProposalKept'
<1> SUFFICES ASSUME TypeOK, CallsOK, AckedProposalKept, [Next]_vars,
                    NEW q \in acked', NEW a \in Parts(q) \cup {LinkOf(q)}
             PROVE  Kept(a)'
  BY DEF AckedProposalKept, Parts, LinkOf
<1>1. CASE q \in acked
  BY <1>1, KeptStays DEF AckedProposalKept
<1>2. ASSUME NEW w \in Callers, NEW b \in Artifacts, SealLink(w, b), q \notin acked
      PROVE  Kept(a)'
  <2>1. proc[w] # Idle /\ proc[w].step = 5 /\ q = proc[w].request /\ b = Chain(q)[5]
    BY <1>2 DEF SealLink, Putting
  <2>2. \A x \in Parts(q) : Kept(x)
    BY <2>1, CallDone
  <2>3. b = LinkOf(q)
    BY <2>1 DEF Chain
  <2>4. Kept(b)'
    BY <1>2 DEF SealLink, Agrees, Kept
  <2> QED
    BY <2>2, <2>3, <2>4, KeptStays
<1>3. ASSUME q \notin acked
      PROVE  \E w \in Callers, b \in Artifacts : SealLink(w, b)
  BY <1>3 DEF Next, Record, Walk, Outside, Begin, Publish, Seal, Raise, Crash,
     Inspect, ListChangeSets, ListReleases, NextProposal, ResolveRevision,
     ListLinks, ResolveDecision, Report, EndCheck, RaiseCorruption, Becomes,
     PutAlone, Edit, Lose, vars
<1> QED
  BY <1>1, <1>2, <1>3

-----------------------------------------------------------------------------
(* The walk: each of its steps leads to a job whose facts and evidence     *)
(* hold.                                                                   *)

Sound(c) ==
  \/ Becomes(c, Idle)
  \/ \E job \in Check : Becomes(c, job) /\ WalkFacts(job) /\ WalkEvidence(job)

Grounds == TypeOK /\ ChangeSetsGrounded /\ LinksGrounded /\ WalksOK

LEMMA AtJob ==
  ASSUME Grounds, NEW c \in Checkers, NEW phase, Checking(c, phase)
  PROVE  /\ check[c] \in Check /\ check[c].phase = phase
         /\ WalkFacts(check[c]) /\ WalkEvidence(check[c])
BY DEF Grounds, TypeOK, WalksOK, Checking

LEMMA InspectSound ==
  ASSUME Grounds, NEW c \in Checkers, NEW k \in Governed, Inspect(c, k)
  PROVE  Sound(c)
<1> DEFINE job == [phase |-> "changeSets", contract |-> k, changeSets |-> {},
             releases |-> {}, unread |-> {},
             current |-> CHOOSE cs \in ChangeSets : TRUE,
             decisions |-> {}, links |-> {}, issues |-> {}]
<1>1. (CHOOSE cs \in ChangeSets : TRUE) \in ChangeSets
  BY ReferencesAssumption
<1>2. job \in Check
  BY <1>1 DEF Check
<1>3. WalkFacts(job) /\ WalkEvidence(job)
  BY DEF WalkFacts, WalkEvidence, Fields
<1>4. Becomes(c, job)
  BY DEF Inspect
<1> QED
  BY <1>2, <1>3, <1>4 DEF Sound

LEMMA ListChangeSetsSound ==
  ASSUME Grounds, NEW c \in Checkers, ListChangeSets(c) PROVE Sound(c)
<1> DEFINE j == check[c]
           found == OfContract(ChangeSets, j.contract)
           job == [j EXCEPT !.phase = "releases", !.changeSets = found,
                            !.unread = found]
<1>1. j \in Check /\ j.phase = "changeSets" /\ WalkFacts(j) /\ WalkEvidence(j)
  BY AtJob DEF ListChangeSets
<1>2. found \subseteq stored \cap ChangeSets
      /\ \A cs \in found : ContractOf[cs] = j.contract
  BY DEF OfContract
<1> HIDE DEF found
<1>3. /\ job.phase = "releases" /\ job.changeSets = found /\ job.unread = found
      /\ job.contract = j.contract /\ job.links = j.links
      /\ job.decisions = j.decisions /\ job.issues = j.issues
      /\ job.current = j.current /\ job.releases = j.releases
  BY <1>1 DEF Check
<1>4. job \in Check
  BY <1>1, <1>2 DEF Check
<1>5. WalkFacts(job)
  BY <1>1, <1>2, <1>3 DEF WalkFacts, Fields
<1>6. WalkEvidence(job)
  BY <1>1, <1>2, <1>3 DEF WalkFacts, WalkEvidence, Grounds, ChangeSetsGrounded, Fields
<1>7. Becomes(c, job)
  BY Zenon DEF ListChangeSets, found
<1> QED
  BY <1>4, <1>5, <1>6, <1>7 DEF Sound

LEMMA ListReleasesSound ==
  ASSUME Grounds, NEW c \in Checkers, ListReleases(c) PROVE Sound(c)
<1> DEFINE j == check[c]
           found == OfContract(Releases, j.contract)
           job == [j EXCEPT !.phase = "proposals", !.releases = found]
<1>1. j \in Check /\ j.phase = "releases" /\ WalkFacts(j) /\ WalkEvidence(j)
  BY AtJob DEF ListReleases
<1>2. found \subseteq Releases
  BY DEF OfContract
<1> HIDE DEF found
<1>3. /\ job.phase = "proposals" /\ job.changeSets = j.changeSets
      /\ job.unread = j.unread /\ job.releases = found
      /\ job.contract = j.contract /\ job.links = j.links
      /\ job.decisions = j.decisions /\ job.issues = j.issues
      /\ job.current = j.current
  BY <1>1 DEF Check
<1>4. job \in Check
  BY <1>1, <1>2 DEF Check
<1>5. WalkFacts(job)
  BY <1>1, <1>3 DEF WalkFacts, Fields
<1>6. WalkEvidence(job)
  BY <1>1, <1>3 DEF WalkFacts, WalkEvidence, Fields
<1>7. Becomes(c, job)
  BY Zenon DEF ListReleases, found
<1> QED
  BY <1>4, <1>5, <1>6, <1>7 DEF Sound

LEMMA NextProposalSound ==
  ASSUME Grounds, NEW c \in Checkers, NEW cs \in ChangeSets, NextProposal(c, cs)
  PROVE  Sound(c)
<1> DEFINE j == check[c]
           job == [j EXCEPT !.phase = "base_revision_ref",
                            !.unread = @ \ {cs}, !.current = cs]
<1>1. /\ j \in Check /\ j.phase = "proposals" /\ WalkFacts(j) /\ WalkEvidence(j)
      /\ cs \in j.unread
  BY AtJob DEF NextProposal
<1>2. /\ job.phase = "base_revision_ref" /\ job.changeSets = j.changeSets
      /\ job.unread = j.unread \ {cs} /\ job.releases = j.releases
      /\ job.contract = j.contract /\ job.links = j.links
      /\ job.decisions = j.decisions /\ job.issues = j.issues
      /\ job.current = cs
  BY <1>1 DEF Check
<1>3. job \in Check
  BY <1>1 DEF Check, Fields
<1>4. WalkFacts(job)
  BY <1>1, <1>2 DEF WalkFacts, Fields
<1>5. WalkEvidence(job)
  <2>1. j.issues = {} => \A x \in job.changeSets \ job.unread : \A f \in Fields :
          (x = job.current => Past(job, f)) => RevisionFound(x, f, job.contract)
    BY <1>1, <1>2 DEF WalkEvidence, Past, Fields
  <2> QED
    BY <1>1, <1>2, <2>1 DEF WalkEvidence
<1>6. Becomes(c, job)
  BY Zenon DEF NextProposal
<1> QED
  BY <1>3, <1>4, <1>5, <1>6 DEF Sound

\* An issue is added for what is not there or not of the contract.
LEMMA BrokenIssues ==
  ASSUME NEW source \in ChangeSets \cup Links, NEW held, NEW k
  PROVE  /\ Broken(source, held, k) \subseteq Issues
         /\ \A issue \in Broken(source, held, k) : issue.source = source
         /\ Broken(source, held, k) = {} =>
              \E a \in held : ContractOf[a] = k
         /\ (\E a \in held : ContractOf[a] = k) => Broken(source, held, k) = {}
<1>1. ASSUME NEW issue \in Broken(source, held, k)
      PROVE  issue \in Issues /\ issue.source = source
  BY DEF Broken, Issues
<1>2. held = {} => [source |-> source, reason |-> "NOT_FOUND"] \in Broken(source, held, k)
  BY DEF Broken
<1>3. held # {} /\ (\A a \in held : ContractOf[a] # k) =>
        [source |-> source, reason |-> "CONTRACT_MISMATCH"] \in Broken(source, held, k)
  BY DEF Broken
<1>4. (\E a \in held : ContractOf[a] = k) => Broken(source, held, k) = {}
  BY DEF Broken
<1> QED
  BY <1>1, <1>2, <1>3, <1>4

LEMMA ResolveRevisionSound ==
  ASSUME Grounds, NEW c \in Checkers, NEW f \in Fields, ResolveRevision(c, f)
  PROVE  Sound(c)
<1> DEFINE j == check[c]
           cs == j.current
           ref == RevisionRef[cs][f]
           held == stored \cap {ref}
           new == Broken(cs, held, j.contract)
           next == IF f = "base_revision_ref" THEN "candidate_revision_ref" ELSE "links"
           job == [j EXCEPT !.phase = next, !.issues = @ \cup new]
<1>1. /\ j \in Check /\ j.phase = f /\ WalkFacts(j) /\ WalkEvidence(j)
      /\ cs \in j.changeSets /\ cs \in ChangeSets /\ ContractOf[cs] = j.contract
  BY AtJob DEF ResolveRevision, WalkFacts, Check
<1>2. GroundedChangeSet(cs)
  BY <1>1 DEF WalkEvidence
<1>3. /\ new \subseteq Issues /\ \A issue \in new : issue.source = cs
      /\ new = {} => RevisionFound(cs, f, j.contract)
      /\ ref \in stored /\ ContractOf[ref] = j.contract => new = {}
  BY <1>1, BrokenIssues DEF RevisionFound, Here
<1>4. \A issue \in new : Justified(issue)
  <2>1. cs \in ported \/ (Kept(ref) /\ ContractOf[ref] = j.contract)
    BY <1>1, <1>2 DEF GroundedChangeSet
  <2>2. new # {} => cs \in ported \/ ref \in lost
    BY <1>3, <2>1 DEF Kept
  <2> QED
    BY <1>1, <1>3, <2>2 DEF Justified
<1>5. next \in {"candidate_revision_ref", "links"}
  OBVIOUS
<1>6. Becomes(c, job)
  BY Zenon DEF ResolveRevision
<1> HIDE DEF new
<1>7. /\ job.phase = next /\ job.changeSets = j.changeSets
      /\ job.unread = j.unread /\ job.releases = j.releases
      /\ job.contract = j.contract /\ job.links = j.links
      /\ job.decisions = j.decisions /\ job.issues = j.issues \cup new
      /\ job.current = j.current
  BY <1>1 DEF Check
<1>8. job \in Check
  BY <1>1, <1>3, <1>5 DEF Check, Fields
<1>9. WalkFacts(job)
  BY <1>1, <1>5, <1>7 DEF WalkFacts, Fields
<1>10. WalkEvidence(job)
  <2>1. job.issues = {} => \A x \in j.changeSets \ j.unread : \A g \in Fields :
          (x = cs => Past(job, g)) => RevisionFound(x, g, j.contract)
    <3> SUFFICES ASSUME j.issues = {}, new = {}, NEW x \in j.changeSets \ j.unread,
                        NEW g \in Fields, x = cs => Past(job, g)
                 PROVE  RevisionFound(x, g, j.contract)
      BY <1>7
    <3>1. CASE x = cs /\ g = f
      BY <1>3, <3>1
    <3>2. CASE x = cs /\ g # f
      <4>1. f = "candidate_revision_ref" /\ g = "base_revision_ref"
        BY <1>7, <3>2 DEF Past, Fields
      <4> QED
        BY <1>1, <3>2, <4>1 DEF WalkEvidence, Past
    <3>3. CASE x # cs
      BY <1>1, <3>3 DEF WalkEvidence
    <3> QED
      BY <3>1, <3>2, <3>3
  <2> QED
    BY <1>1, <1>4, <1>7, <2>1 DEF WalkEvidence
<1> QED
  BY <1>6, <1>8, <1>9, <1>10 DEF Sound

LEMMA ListLinksSound ==
  ASSUME Grounds, NEW c \in Checkers, ListLinks(c) PROVE Sound(c)
<1> DEFINE j == check[c]
           cs == j.current
           found == LinksOf(cs)
           next == IF found = {} THEN "proposals" ELSE "decisions"
           job == [j EXCEPT !.phase = next, !.decisions = found,
                            !.links = @ \cup found]
<1>1. /\ j \in Check /\ j.phase = "links" /\ WalkFacts(j) /\ WalkEvidence(j)
      /\ cs \in j.changeSets
  BY AtJob DEF ListLinks, WalkFacts
<1>2. \A l \in found : l \in stored \cap Links /\ l[1] = cs
  BY <1>1 DEF LinksOf, Links, Check
<1>3. \A l \in found : GroundedLink(l) /\ Here(l)
  BY <1>2 DEF Grounds, LinksGrounded, GroundedLink, Here
<1>4. Becomes(c, job)
  BY Zenon DEF ListLinks
<1> HIDE DEF found
<1>5. /\ job.phase = next /\ job.changeSets = j.changeSets
      /\ job.unread = j.unread /\ job.releases = j.releases
      /\ job.contract = j.contract /\ job.links = j.links \cup found
      /\ job.decisions = found /\ job.issues = j.issues
      /\ job.current = j.current
  BY <1>1 DEF Check
<1>6. job \in Check
  BY <1>1, <1>2 DEF Check
<1>7. WalkFacts(job)
  BY <1>1, <1>2, <1>5 DEF WalkFacts, Fields
<1>8. WalkEvidence(job)
  <2>1. Past(job, "base_revision_ref") /\ \A f \in Fields : Past(j, f) /\ Past(job, f)
    BY <1>1, <1>5 DEF Past, Fields
  <2>2. j.decisions = {}
    BY <1>1 DEF WalkFacts
  <2> QED
    BY <1>1, <1>3, <1>5, <2>1, <2>2 DEF WalkEvidence
<1> QED
  BY <1>4, <1>6, <1>7, <1>8 DEF Sound

LEMMA ResolveDecisionSound ==
  ASSUME Grounds, NEW c \in Checkers, NEW l \in Links, ResolveDecision(c, l)
  PROVE  Sound(c)
<1> DEFINE j == check[c]
           held == HeldDecisions(l[2])
           new == Broken(l, held, j.contract)
           next == IF j.decisions = {l} THEN "proposals" ELSE "decisions"
           job == [j EXCEPT !.phase = next, !.decisions = @ \ {l},
                            !.issues = @ \cup new]
<1>1. /\ j \in Check /\ j.phase = "decisions" /\ WalkFacts(j) /\ WalkEvidence(j)
      /\ l \in j.decisions /\ l \in j.links
      /\ l[1] \in j.changeSets /\ ContractOf[l[1]] = j.contract
  BY AtJob DEF ResolveDecision, WalkFacts
<1>2. GroundedLink(l)
  BY <1>1 DEF WalkEvidence
<1>3. /\ new \subseteq Issues /\ \A issue \in new : issue.source = l
      /\ new = {} => \E d \in held : ContractOf[d] = j.contract
      /\ (\E d \in held : ContractOf[d] = j.contract) => new = {}
  BY BrokenIssues
<1>4. new = {} => DecisionFound(l, j.contract)
  BY <1>3 DEF DecisionFound, HeldDecisions, Here
<1>5. \A issue \in new : Justified(issue)
  <2>1. CASE l \in ported
    BY <1>3, <2>1 DEF Justified
  <2>2. ASSUME NEW q \in Requests, Valid(q), LinkOf(q) = l, \A a \in Parts(q) : Kept(a)
        PROVE  new = {} \/ (q.decision \in lost /\ IdOf[q.decision] = l[2]
                              /\ q.decision \in Decisions)
    <3>1. q.decision \in Decisions /\ l[1] = q.changeSet /\ l[2] = IdOf[q.decision]
      BY <2>2 DEF Requests, LinkOf
    <3>2. ContractOf[q.decision] = j.contract
      BY <1>1, <2>2, <3>1 DEF Valid
    <3>3. q.decision \in stored \/ q.decision \in lost
      BY <2>2 DEF Parts, Kept
    <3>4. q.decision \in stored => new = {}
      BY <1>3, <3>1, <3>2 DEF HeldDecisions
    <3> QED
      BY <3>1, <3>3, <3>4
  <2> QED
    BY <1>2, <1>3, <2>1, <2>2 DEF GroundedLink, Justified
<1>6. Becomes(c, job)
  BY Zenon DEF ResolveDecision
<1> HIDE DEF new
<1>7. /\ job.phase = next /\ job.changeSets = j.changeSets
      /\ job.unread = j.unread /\ job.releases = j.releases
      /\ job.contract = j.contract /\ job.links = j.links
      /\ job.decisions = j.decisions \ {l} /\ job.issues = j.issues \cup new
      /\ job.current = j.current
  BY <1>1 DEF Check
<1>8. job \in Check
  BY <1>1, <1>3 DEF Check
<1>9. WalkFacts(job)
  BY <1>1, <1>7 DEF WalkFacts, Fields
<1>10. WalkEvidence(job)
  <2>1. \A f \in Fields : Past(j, f) /\ Past(job, f)
    BY <1>1, <1>7 DEF Past, Fields
  <2> QED
    BY <1>1, <1>4, <1>5, <1>7, <2>1 DEF WalkEvidence
<1> QED
  BY <1>6, <1>8, <1>9, <1>10 DEF Sound

LEMMA ReportSound ==
  ASSUME Grounds, NEW c \in Checkers, Report(c) PROVE Sound(c)
<1> DEFINE j == check[c]
           new == UNION {Unreached(r, j) : r \in j.releases}
           job == [j EXCEPT !.phase = "report", !.issues = @ \cup new]
<1>1. /\ j \in Check /\ j.phase = "proposals" /\ WalkFacts(j) /\ WalkEvidence(j)
      /\ j.unread = {}
  BY AtJob DEF Report
<1>2. ASSUME NEW r \in j.releases
      PROVE  /\ r \in Releases
             /\ \A issue \in Unreached(r, j) : issue \in Issues /\ issue.source = r
             /\ Unreached(r, j) = {} =>
                  ReleaseRef[r][1] \in j.changeSets /\ ReleaseRef[r] \in j.links
  <2>1. r \in Releases
    BY <1>1 DEF Check
  <2>2. \A issue \in Unreached(r, j) : issue \in Issues /\ issue.source = r
    BY <2>1 DEF Unreached, Issues
  <2>3. ReleaseRef[r][1] \notin j.changeSets =>
          [source |-> r, reason |-> "NOT_FOUND"] \in Unreached(r, j)
    BY DEF Unreached
  <2>4. ReleaseRef[r][1] \in j.changeSets /\ ReleaseRef[r] \notin j.links =>
          [source |-> r, reason |-> "RELATION_MISSING"] \in Unreached(r, j)
    BY DEF Unreached
  <2> QED
    BY <2>1, <2>2, <2>3, <2>4
<1>3. /\ new \subseteq Issues /\ \A issue \in new : issue.source \in Releases
      /\ new = {} => \A r \in j.releases : Unreached(r, j) = {}
  <2>1. ASSUME NEW issue \in new PROVE issue \in Issues /\ issue.source \in Releases
    <3>1. PICK r \in j.releases : issue \in Unreached(r, j)
      OBVIOUS
    <3> QED
      BY <1>2, <3>1
  <2>2. ASSUME NEW r \in j.releases, new = {} PROVE Unreached(r, j) = {}
    BY <2>2
  <2> QED
    BY <2>1, <2>2
<1>4. Becomes(c, job)
  BY Zenon DEF Report
<1> HIDE DEF new
<1>5. /\ job.phase = "report" /\ job.changeSets = j.changeSets
      /\ job.unread = j.unread /\ job.releases = j.releases
      /\ job.contract = j.contract /\ job.links = j.links
      /\ job.decisions = j.decisions /\ job.issues = j.issues \cup new
      /\ job.current = j.current
  BY <1>1 DEF Check
<1>6. job \in Check
  BY <1>1, <1>3 DEF Check
<1>7. WalkFacts(job)
  <2>1. job.issues = {} => \A r \in j.releases :
          ReleaseRef[r][1] \in j.changeSets /\ ReleaseRef[r] \in j.links
    <3>1. job.issues = {} => new = {}
      BY <1>5
    <3> QED
      BY <1>2, <1>3, <3>1
  <2> QED
    BY <1>1, <1>5, <2>1 DEF WalkFacts, Fields
<1>8. WalkEvidence(job)
  <2>1. \A f \in Fields : Past(j, f) /\ Past(job, f)
    BY <1>1, <1>5 DEF Past, Fields
  <2>2. \A issue \in new : Justified(issue)
    BY <1>3 DEF Justified
  <2> QED
    BY <1>1, <1>5, <2>1, <2>2 DEF WalkEvidence
<1> QED
  BY <1>4, <1>6, <1>7, <1>8 DEF Sound

LEMMA WalkSound ==
  ASSUME Grounds, NEW c \in Checkers, Walk(c) PROVE Sound(c)
<1>1. EndCheck(c) \/ RaiseCorruption(c) => Sound(c)
  BY DEF EndCheck, RaiseCorruption, Sound
<1> QED
  BY <1>1, InspectSound, ListChangeSetsSound, ListReleasesSound,
     NextProposalSound, ResolveRevisionSound, ListLinksSound,
     ResolveDecisionSound, ReportSound DEF Walk

-----------------------------------------------------------------------------
(* The invariant.                                                          *)

LEMMA WalksStep == Grounds /\ [Next]_vars => (check \in [Checkers -> Check \cup {Idle}])' /\ WalksOK'
<1> SUFFICES ASSUME Grounds, [Next]_vars
             PROVE  (check \in [Checkers -> Check \cup {Idle}])' /\ WalksOK'
  OBVIOUS
<1>1. TypeOK /\ WalksOK
  BY DEF Grounds
<1>2. ASSUME NEW job \in Check, WalkFacts(job), WalkEvidence(job)
      PROVE  WalkFacts(job) /\ WalkEvidence(job)'
  <2>1. job.changeSets \subseteq ChangeSets
    BY <1>2 DEF Check
  <2> QED
    BY <1>1, <1>2, <2>1, EvidenceStays, KeptStays DEF WalkEvidence, Past
<1>3. CASE UNCHANGED check
  BY <1>1, <1>2, <1>3 DEF TypeOK, WalksOK, WalkFacts
<1>4. ASSUME NEW c \in Checkers, Walk(c)
      PROVE  (check \in [Checkers -> Check \cup {Idle}])' /\ WalksOK'
  <2>1. PICK job \in Check \cup {Idle} :
          /\ check' = [check EXCEPT ![c] = job]
          /\ job # Idle => WalkFacts(job) /\ WalkEvidence(job)
    BY <1>4, WalkSound DEF Sound, Becomes
  <2>2. check' \in [Checkers -> Check \cup {Idle}]
    <3>1. check \in [Checkers -> Check \cup {Idle}] /\ job \in Check \cup {Idle}
      BY <1>1 DEF TypeOK
    <3> QED
      BY <2>1, <3>1, Zenon
  <2>3. ASSUME NEW d \in Checkers, check'[d] # Idle
        PROVE  (WalkFacts(check[d]) /\ WalkEvidence(check[d]))'
    <3>1. PICK j : j = check'[d]
      OBVIOUS
    <3>2. j \in Check /\ WalkFacts(j) /\ WalkEvidence(j)
      <4>1. j # Idle /\ j \in Check
        BY <2>2, <2>3, <3>1
      <4>2. CASE d = c
        <5>1. j = job
          BY <1>1, <2>1, <3>1, <4>2 DEF TypeOK
        <5> QED
          BY <2>1, <4>1, <5>1
      <4>3. CASE d # c
        <5>1. j = check[d]
          BY <1>1, <2>1, <3>1, <4>3 DEF TypeOK
        <5> QED
          BY <1>1, <4>1, <5>1 DEF WalksOK
      <4> QED
        BY <4>2, <4>3
    <3> QED
      BY <1>2, <3>1, <3>2 DEF WalkFacts
  <2> QED
    BY <2>2, <2>3 DEF WalksOK
<1> QED
  BY <1>3, <1>4 DEF Next, Record, Outside, Begin, Publish, Seal, SealLink, Raise,
     Crash, PutAlone, Edit, Lose, vars

LEMMA IInvStep == IInv /\ [Next]_vars => IInv'
<1> SUFFICES ASSUME IInv, [Next]_vars PROVE IInv'
  OBVIOUS
<1>1. /\ TypeOK /\ CallsOK /\ ChangeSetsGrounded /\ LinksGrounded
      /\ AckedProposalKept /\ WalksOK /\ Grounds
  BY DEF IInv, Grounds
<1>2. CallsOK' /\ ChangeSetsGrounded' /\ LinksGrounded' /\ AckedProposalKept'
  BY <1>1, CallsStep, ChangeSetsStep, LinksStep, AckedStep
<1>3. WalksOK'
  BY <1>1, WalksStep
<1>4. TypeOK'
  BY <1>1, TrailType, WalksStep DEF TypeOK, Trail
<1> QED
  BY <1>2, <1>3, <1>4 DEF IInv

LEMMA Invariance == Spec => []IInv
<1>1. Init => IInv
  BY TrailInit DEF IInv
<1> QED
  BY <1>1, IInvStep, PTL DEF Spec

\* Every variable stays in its type, whatever the bounds.
THEOREM ProposalTypes == Spec => []TypeOK
<1>1. IInv => TypeOK
  BY DEF IInv
<1> QED
  BY <1>1, Invariance, PTL

\* No link record_proposal wrote dangles, for any callers that share any
\* artifacts, die anywhere and are run again.
THEOREM LinksAreGrounded == Spec => []LinksGrounded
<1>1. IInv => LinksGrounded
  BY DEF IInv
<1> QED
  BY <1>1, Invariance, PTL

\* An acknowledged proposal is in the history with its own decision text.
THEOREM AckedProposalsAreKept == Spec => []AckedProposalKept
<1>1. IInv => AckedProposalKept
  BY DEF IInv
<1> QED
  BY <1>1, Invariance, PTL

\* A report without issues vouches for all it covers, however its reads
\* interleave with puts, losses and edits.
THEOREM CleanReportsAreTraceable == Spec => []CleanReportIsTraceable
<1>1. ASSUME IInv, NEW c \in Checkers, check[c] # Idle,
             check[c].phase = "report", check[c].issues = {}
      PROVE  /\ \A cs \in check[c].changeSets : \A f \in Fields :
                   RevisionFound(cs, f, check[c].contract)
             /\ \A r \in check[c].releases :
                  /\ ReleaseRef[r][1] \in check[c].changeSets
                  /\ Here(ReleaseRef[r])
                  /\ DecisionFound(ReleaseRef[r], check[c].contract)
  <2>1. WalkFacts(check[c]) /\ WalkEvidence(check[c])
    BY <1>1 DEF IInv, WalksOK
  <2>2. check[c].unread = {} /\ check[c].decisions = {}
    BY <1>1, <2>1 DEF WalkFacts
  <2>3. \A f \in Fields : Past(check[c], f)
    BY <1>1 DEF Past, Fields
  <2> QED
    BY <1>1, <2>1, <2>2, <2>3 DEF WalkFacts, WalkEvidence
<1>2. IInv => CleanReportIsTraceable
  BY <1>1 DEF CleanReportIsTraceable, RevisionFound, DecisionFound
<1> QED
  BY <1>2, Invariance, PTL

\* Recording in progress, or one that died, raises no alarm about revisions
\* or decisions.
THEOREM AlarmsComeFromOutside == Spec => []AlarmsAreOutside
<1>1. IInv => AlarmsAreOutside
  BY DEF IInv, WalksOK, WalkEvidence, Justified, AlarmsAreOutside
<1> QED
  BY <1>1, Invariance, PTL
=============================================================================

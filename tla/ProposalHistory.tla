-------------------------- MODULE ProposalHistory --------------------------
(***************************************************************************)
(* The audit trail of proposals: ProposalHistoryService.record_proposal    *)
(* (application/services/history.py) writes a proposal as five artifacts,  *)
(* the link last; EvolutionChainService.reconstruct                        *)
(* (application/services/evolution.py) walks them back, and                *)
(* HistoryIntegrityService.check_contract reports what does not resolve.   *)
(*                                                                         *)
(* Nothing groups the five puts: callers interleave, die between two puts  *)
(* or between an artifact and its checksum, and share artifacts.  A single *)
(* put is ImmutableHistory's (which HistoryLedger implements): here it is  *)
(* the publication of the artifact and then its sealing.  Files may also   *)
(* be edited or disappear behind the service's back, and other users of    *)
(* the same repository ports put artifacts one at a time.                  *)
(***************************************************************************)
EXTENDS Integers

CONSTANTS
  Callers,     \* processes that call record_proposal
  Checkers,    \* processes that call check_contract
  Revisions,   \* ContractRevisions; the id of one determines its content
  ChangeSets,  \* ChangeSets; likewise
  Decisions,   \* GovernanceDecisions; an id does not cover the messages
  Releases,    \* ContractReleases of distinct versions
  IdOf,        \* [Decisions -> decision ids]
  ContractOf,  \* the contract an artifact says it belongs to
  ChangesOf,   \* the changes a change set or a decision carries
  RevisionRef, \* [ChangeSets -> [Fields -> Revisions]]
  ReleaseRef,  \* [Releases -> change sets and decision ids], as links
  Governed,    \* contracts whose history is checked
  Stray,       \* artifacts put one at a time, outside record_proposal
  Editable,    \* artifacts whose files may be edited
  Losable      \* artifacts whose files may disappear

Fields == {"base_revision_ref", "candidate_revision_ref"}
DecisionIds == {IdOf[d] : d \in Decisions}
Links == ChangeSets \X DecisionIds
Artifacts == Revisions \cup ChangeSets \cup Decisions \cup Releases \cup Links

\* The five kinds have a directory each, so no artifact is of two kinds.
ASSUME KindsAssumption ==
  /\ Revisions \cap (ChangeSets \cup Decisions \cup Releases \cup Links) = {}
  /\ ChangeSets \cap (Decisions \cup Releases \cup Links) = {}
  /\ Decisions \cap (Releases \cup Links) = {}
  /\ Releases \cap Links = {}

ASSUME ReferencesAssumption ==
  /\ ChangeSets # {}
  /\ RevisionRef \in [ChangeSets -> [Fields -> Revisions]]
  /\ ReleaseRef \in [Releases -> Links]
  /\ Stray \subseteq Artifacts
  /\ Editable \subseteq Artifacts
  /\ Losable \subseteq Artifacts

VARIABLES
  stored,    \* artifacts whose file is in the history
  unsealed,  \* stored artifacts whose checksum is not
  damaged,   \* stored artifacts whose file was edited: reading them raises
  lost,      \* history: artifacts whose files disappeared
  ported,    \* history: artifacts put outside record_proposal
  acked,     \* history: requests record_proposal returned a link for
  proc,      \* the record_proposal call of each caller
  check      \* the check_contract call of each checker

vars == <<stored, unsealed, damaged, lost, ported, acked, proc, check>>
trail == <<stored, unsealed, damaged>>

Requests == [base : Revisions, candidate : Revisions,
             changeSet : ChangeSets, decision : Decisions]

LinkOf(q) == <<q.changeSet, IdOf[q.decision]>>

\* Defect: the link is put before the decision it names.
ChainLinkEarly(q) ==
  <<q.base, q.candidate, q.changeSet, LinkOf(q), q.decision>>

\* Defect: the change set is put before the revisions it refers to.
ChainChangeSetFirst(q) ==
  <<q.changeSet, q.base, q.candidate, q.decision, LinkOf(q)>>

\* What record_proposal puts, in this order.
Chain(q) == <<q.base, q.candidate, q.changeSet, q.decision, LinkOf(q)>>
Steps == 1 .. 5

Issues == [source : ChangeSets \cup Links \cup Releases, reason :
           {"NOT_FOUND", "CONTRACT_MISMATCH", "RELATION_MISSING"}]

Idle == [phase |-> "idle"]
Call == [phase : {"put"}, request : Requests, step : Steps]
Check == [phase : {"changeSets", "releases", "proposals", "links",
                   "decisions", "report"} \cup Fields,
          contract : Governed,
          changeSets : SUBSET ChangeSets,
          releases : SUBSET Releases,
          unread : SUBSET ChangeSets,    \* change sets the walk has not reached
          current : ChangeSets,          \* the one it is at, any before the first
          decisions : SUBSET Links,      \* its links whose decision is not read
          links : SUBSET Links,          \* links found so far
          issues : SUBSET Issues]

TypeOK ==
  /\ stored \subseteq Artifacts
  /\ unsealed \subseteq stored
  /\ damaged \subseteq stored
  /\ lost \subseteq Losable
  /\ ported \subseteq Stray
  /\ acked \subseteq Requests
  /\ proc \in [Callers -> Call \cup {Idle}]
  /\ check \in [Checkers -> Check \cup {Idle}]

Init ==
  /\ stored = {} /\ unsealed = {} /\ damaged = {}
  /\ lost = {} /\ ported = {} /\ acked = {}
  /\ proc = [w \in Callers |-> Idle]
  /\ check = [c \in Checkers |-> Idle]

-----------------------------------------------------------------------------
(* One artifact, as ImmutableHistory promises it.                          *)

\* Two decisions that differ in what the id leaves out share a file.
SameFile(a, b) ==
  \/ a = b
  \/ {a, b} \subseteq Decisions /\ IdOf[a] = IdOf[b]

Free(a) == \A b \in stored : ~SameFile(a, b)

\* Defect: the file's presence is taken for the artifact's.
AgreesIfPresent(a) == ~Free(a)

\* The stored text is the one put, or the put raises.
Agrees(a) == a \in stored \ damaged

-----------------------------------------------------------------------------
(* record_proposal                                                         *)

\* The cross-artifact validation; nothing is re-diffed or re-evaluated.
Valid(q) ==
  /\ ContractOf[q.base] = ContractOf[q.candidate]
  /\ ContractOf[q.changeSet] = ContractOf[q.base]
  /\ ContractOf[q.decision] = ContractOf[q.base]
  /\ RevisionRef[q.changeSet] = [base_revision_ref |-> q.base,
                                 candidate_revision_ref |-> q.candidate]
  /\ ChangesOf[q.changeSet] = ChangesOf[q.decision]

Begin(w, q) ==
  /\ proc[w] = Idle
  /\ Valid(q)
  /\ proc' = [proc EXCEPT ![w] = [phase |-> "put", request |-> q, step |-> 1]]
  /\ UNCHANGED <<trail, lost, ported, acked, check>>

Putting(w, a) == proc[w] # Idle /\ a = Chain(proc[w].request)[proc[w].step]

\* The file is created; its checksum is not yet.
Publish(w, a) ==
  /\ Putting(w, a)
  /\ Free(a)
  /\ stored' = stored \cup {a}
  /\ unsealed' = unsealed \cup {a}
  /\ UNCHANGED <<damaged, lost, ported, acked, proc, check>>

\* The file, the put's own or one that was there, holds the artifact: it is
\* sealed if it was not, and the next put begins.
Seal(w, a) ==
  /\ Putting(w, a)
  /\ Agrees(a)
  /\ unsealed' = unsealed \ {a}
  /\ proc[w].step < 5
  /\ proc' = [proc EXCEPT ![w].step = @ + 1]
  /\ UNCHANGED <<stored, damaged, lost, ported, acked, check>>

\* The last put of the call returns, and the call its link.
SealLink(w, a) ==
  /\ Putting(w, a)
  /\ Agrees(a)
  /\ unsealed' = unsealed \ {a}
  /\ proc[w].step = 5
  /\ proc' = [proc EXCEPT ![w] = Idle]
  /\ acked' = acked \cup {proc[w].request}
  /\ UNCHANGED <<stored, damaged, lost, ported, check>>

\* HistoryConflictError or HistoryCorruptionError ends the call; what it put
\* before stays.
Raise(w, a) ==
  /\ Putting(w, a)
  /\ ~Free(a) /\ ~Agrees(a)
  /\ proc' = [proc EXCEPT ![w] = Idle]
  /\ UNCHANGED <<trail, lost, ported, acked, check>>

Crash(w) ==
  /\ proc[w] # Idle
  /\ proc' = [proc EXCEPT ![w] = Idle]
  /\ UNCHANGED <<trail, lost, ported, acked, check>>

Record(w) ==
  \/ \E q \in Requests : Begin(w, q)
  \/ \E a \in Artifacts :
       Publish(w, a) \/ Seal(w, a) \/ SealLink(w, a) \/ Raise(w, a)
  \/ Crash(w)

-----------------------------------------------------------------------------
(* What else reaches the directory.                                        *)

\* A release is finalised, or another caller of a repository port puts one
\* artifact: no reference is looked at.
PutAlone(a) ==
  /\ Free(a)
  /\ stored' = stored \cup {a}
  /\ ported' = ported \cup {a}
  /\ UNCHANGED <<unsealed, damaged, lost, acked, proc, check>>

\* Bound: files are edited or lost once sealed (between a file and its seal,
\* HistoryLedger says what happens).
Edit(a) ==
  /\ a \in stored \ (damaged \cup unsealed)
  /\ damaged' = damaged \cup {a}
  /\ UNCHANGED <<stored, unsealed, lost, ported, acked, proc, check>>

\* The file and its checksum are gone: a clean, another branch checked out.
Lose(a) ==
  /\ a \in stored \ unsealed
  /\ stored' = stored \ {a}
  /\ damaged' = damaged \ {a}
  /\ lost' = lost \cup {a}
  /\ UNCHANGED <<unsealed, ported, acked, proc, check>>

Outside ==
  \/ \E a \in Stray : PutAlone(a)
  \/ \E a \in Editable : Edit(a)
  \/ \E a \in Losable : Lose(a)

-----------------------------------------------------------------------------
(* check_contract: the storage first, then the references, one read at a   *)
(* time while callers go on writing.                                       *)

Becomes(c, job) ==
  /\ check' = [check EXCEPT ![c] = job]
  /\ UNCHANGED <<trail, lost, ported, acked, proc>>

\* With a storage issue the references are not looked at and nothing is read.
Inspect(c, k) ==
  /\ check[c] = Idle
  /\ unsealed \cup damaged = {}
  /\ Becomes(c,
       [phase |-> "changeSets", contract |-> k, changeSets |-> {},
        releases |-> {}, unread |-> {},
        current |-> CHOOSE cs \in ChangeSets : TRUE,
        decisions |-> {}, links |-> {}, issues |-> {}])

Checking(c, phase) == check[c] # Idle /\ check[c].phase = phase

OfContract(kind, k) == {a \in stored \cap kind : ContractOf[a] = k}

\* A listing reads every file of the kind, whatever its contract.
ListChangeSets(c) ==
  /\ Checking(c, "changeSets")
  /\ damaged \cap ChangeSets = {}
  /\ LET found == OfContract(ChangeSets, check[c].contract) IN
     Becomes(c, [check[c] EXCEPT
       !.phase = "releases", !.changeSets = found, !.unread = found])

ListReleases(c) ==
  /\ Checking(c, "releases")
  /\ damaged \cap Releases = {}
  /\ Becomes(c, [check[c] EXCEPT
       !.phase = "proposals",
       !.releases = OfContract(Releases, check[c].contract)])

\* The change sets are walked in the order of their ids, which are hashes.
NextProposal(c, cs) ==
  /\ Checking(c, "proposals")
  /\ cs \in check[c].unread
  /\ Becomes(c, [check[c] EXCEPT
       !.phase = "base_revision_ref", !.unread = @ \ {cs}, !.current = cs])

\* What a reference to the files `held` is reported as, if as anything.
Broken(source, held, k) ==
  {[source |-> source, reason |-> why] : why \in
     {w \in {"NOT_FOUND"} : held = {}} \cup
     {w \in {"CONTRACT_MISMATCH"} :
        held # {} /\ \A a \in held : ContractOf[a] # k}}

ResolveRevision(c, f) ==
  /\ Checking(c, f)
  /\ LET cs == check[c].current
         held == stored \cap {RevisionRef[cs][f]}
     IN /\ held \cap damaged = {}
        /\ Becomes(c, [check[c] EXCEPT
             !.phase = IF f = "base_revision_ref" THEN "candidate_revision_ref"
                       ELSE "links",
             !.issues = @ \cup Broken(cs, held, check[c].contract)])

\* The links of a change set have a directory of their own.
LinksOf(cs) == stored \cap ({cs} \X DecisionIds)

ListLinks(c) ==
  /\ Checking(c, "links")
  /\ LET found == LinksOf(check[c].current) IN
     /\ damaged \cap found = {}
     /\ Becomes(c, [check[c] EXCEPT
          !.phase = IF found = {} THEN "proposals" ELSE "decisions",
          !.decisions = found,
          !.links = @ \cup found])

HeldDecisions(i) == {d \in stored \cap Decisions : IdOf[d] = i}

ResolveDecision(c, l) ==
  /\ Checking(c, "decisions")
  /\ l \in check[c].decisions
  /\ HeldDecisions(l[2]) \cap damaged = {}
  /\ Becomes(c, [check[c] EXCEPT
       !.phase = IF check[c].decisions = {l} THEN "proposals" ELSE "decisions",
       !.decisions = @ \ {l},
       !.issues = @ \cup Broken(l, HeldDecisions(l[2]), check[c].contract)])

\* Defect: a listed change set is taken for the whole path.
UnreachedByChangeSet(r, job) ==
  {[source |-> r, reason |-> why] : why \in
     {w \in {"NOT_FOUND"} : ReleaseRef[r][1] \notin job.changeSets}}

\* A release whose path no listed link leads to.
Unreached(r, job) ==
  {[source |-> r, reason |-> why] : why \in
     {w \in {"NOT_FOUND"} : ReleaseRef[r][1] \notin job.changeSets} \cup
     {w \in {"RELATION_MISSING"} :
        ReleaseRef[r][1] \in job.changeSets /\ ReleaseRef[r] \notin job.links}}

Report(c) ==
  /\ Checking(c, "proposals")
  /\ check[c].unread = {}
  /\ Becomes(c, [check[c] EXCEPT
       !.phase = "report",
       !.issues = @ \cup
         UNION {Unreached(r, check[c]) : r \in check[c].releases}])

EndCheck(c) ==
  /\ Checking(c, "report")
  /\ Becomes(c, Idle)

\* The edited files the next read of the walk opens.
Unreadable(c) == damaged \cap
  CASE check[c].phase = "changeSets" -> ChangeSets
    [] check[c].phase = "releases" -> Releases
    [] check[c].phase \in Fields ->
         {RevisionRef[check[c].current][check[c].phase]}
    [] check[c].phase = "links" -> LinksOf(check[c].current)
    [] check[c].phase = "decisions" ->
         UNION {HeldDecisions(l[2]) : l \in check[c].decisions}
    [] OTHER -> {}

\* HistoryCorruptionError ends the check without a report.
RaiseCorruption(c) ==
  /\ check[c] # Idle
  /\ Unreadable(c) # {}
  /\ Becomes(c, Idle)

Walk(c) ==
  \/ \E k \in Governed : Inspect(c, k)
  \/ ListChangeSets(c) \/ ListReleases(c)
  \/ \E cs \in ChangeSets : NextProposal(c, cs)
  \/ \E f \in Fields : ResolveRevision(c, f)
  \/ ListLinks(c)
  \/ \E l \in Links : ResolveDecision(c, l)
  \/ Report(c) \/ EndCheck(c) \/ RaiseCorruption(c)

-----------------------------------------------------------------------------
Next ==
  \/ \E w \in Callers : Record(w)
  \/ \E c \in Checkers : Walk(c)
  \/ Outside

Spec == Init /\ [][Next]_vars

-----------------------------------------------------------------------------
(* Properties                                                              *)

\* Present and sealed, or gone since through no put of the service.
Kept(a) == a \in (stored \ unsealed) \cup lost

Parts(q) == {q.base, q.candidate, q.changeSet, q.decision}

\* A link record_proposal wrote never dangles: it joins two revisions, a
\* change set and a decision that fit together and whose puts all completed
\* before it, wherever a call died (history.py:59, "a partial failure cannot
\* leave a dangling audit link").
LinksGrounded ==
  \A l \in (stored \cap Links) \ ported : \E q \in Requests :
    Valid(q) /\ LinkOf(q) = l /\ \A a \in Parts(q) : Kept(a)

\* A link is returned only to a caller whose own five artifacts are in the
\* history, this decision text and not another with its id.
AckedProposalKept ==
  \A q \in acked : \A a \in Parts(q) \cup {LinkOf(q)} : Kept(a)

Here(a) == a \in stored \cup lost

\* A report without issues vouches for every change set and every release it
\* covers: each leads to revisions and decisions of the contract that are in
\* the history or were when they were looked up, whatever was written while
\* the check ran.
CleanReportIsTraceable ==
  \A c \in Checkers : check[c] # Idle /\ check[c].phase = "report"
                       /\ check[c].issues = {} =>
    LET k == check[c].contract IN
    /\ \A cs \in check[c].changeSets : \A f \in Fields :
         Here(RevisionRef[cs][f]) /\ ContractOf[RevisionRef[cs][f]] = k
    /\ \A r \in check[c].releases :
         /\ ReleaseRef[r][1] \in check[c].changeSets
         /\ Here(ReleaseRef[r])
         /\ \E d \in Decisions : /\ IdOf[d] = ReleaseRef[r][2]
                                 /\ Here(d) /\ ContractOf[d] = k

\* A proposal being recorded, or one whose recording died, never makes the
\* walk report its references as broken: only lost files and artifacts put
\* past the service do.  (Put order against read order: record_proposal puts
\* what is referred to first, reconstruct reads what refers first.)
AlarmsAreOutside ==
  \A c \in Checkers : check[c] # Idle => \A issue \in check[c].issues :
    \/ /\ issue.source \in ChangeSets
       /\ \/ issue.source \in ported
          \/ \E f \in Fields : RevisionRef[issue.source][f] \in lost
    \/ /\ issue.source \in Links
       /\ \/ issue.source \in ported
          \/ \E d \in Decisions : IdOf[d] = issue.source[2] /\ d \in lost
    \/ issue.source \in Releases
=============================================================================

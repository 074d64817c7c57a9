---------------------------- MODULE PullRequests ----------------------------
(***************************************************************************)
(* create_update_pr: bring contract files from a clone into a pull request *)
(* through a chain of git commands and of ways to ask the host, any of     *)
(* which may fail, take effect without an answer, or be killed.  One call  *)
(* works in the clone at a time; people edit files, change branches, push, *)
(* merge and revoke credentials meanwhile.                                 *)
(*                                                                         *)
(* A commit is its tree and a branch the sequence of its commits.  git,    *)
(* the host and its command line tools are external.                       *)
(***************************************************************************)
EXTENDS Naturals, SequencesExt

CONSTANTS
  Sources,    \* branches that pull requests are made from
  Files,      \* what the clone holds
  Tracked,    \* those that main holds at the start
  Paths,      \* what calls are asked to commit; {} for all that git tracks
  Overrides,  \* what SEMAPACT_PR_METHOD is set to; "" for unset
  Logins,     \* bound: sets of methods that work at the start
  MaxEdits,   \* bound: contents of files
  MaxFaults,  \* bound: failed, unanswered and killed requests
  MaxOutside  \* bound: what people do to the clone and the host

ASSUME PullRequestAssumption ==
  /\ "main" \notin Sources
  /\ Tracked \subseteq Files /\ Paths \subseteq SUBSET Files /\ Overrides \subseteq {"", "cli", "api"}
  /\ Logins \subseteq SUBSET {"native", "token", "api"}
  /\ {MaxEdits, MaxFaults, MaxOutside} \subseteq Nat

VARIABLES
  provider,                         \* "azure" or "github"
  head, local, index, work, locked, \* the clone; locked: a stale index.lock
  cache,                            \* git config semapact.pr-auth-method
  remote, open,                     \* the host's branches; which have an open pull request
  works,                            \* what the host accepts at present
  job, last,                        \* the call, and how the one before it ended
  edits, faults, outside

clone == <<head, local, index, work, locked>>
host == <<remote, open, works>>
bounds == <<edits, faults, outside>>
vars == <<provider, clone, cache, host, job, last, bounds>>

Main == "main"
Branches == Sources \cup {Main}
Absent == 0
NoBranch == <<>>

\* Ways in: the tool with its own login, the tool given a token, the REST API.
Methods == {"native", "token", "api"}
MethodOf(attempt) ==
  CASE attempt \in {"cached cli", "cli"} -> "native"
    [] attempt = "token" -> "token"
    [] OTHER -> "api"

Cached(cached) ==
  CASE cached = "cli" -> <<"cached cli">>
    [] cached = "api" -> <<"cached api">>
    [] OTHER -> <<>>

\* Defect: a call relies on the method that worked last.
ChainTrustsCache(override, cached) ==
  IF override # "" THEN <<override>>
  ELSE IF cached # "" THEN Cached(cached) ELSE <<"cli", "token", "api">>

\* The attempts one call of create_pull_request makes, until one succeeds.
Chain(override, cached) ==
  IF override # "" THEN <<override>> ELSE Cached(cached) \o <<"cli", "token", "api">>

\* want: the changes the call is to deliver; usable: the methods the host has
\* accepted since it was first asked; hindered: it refused or lost a request.
Idle == [phase |-> "idle", op |-> "none", branch |-> Main, push |-> FALSE, paths |-> {},
         override |-> "", reviewers |-> FALSE, attempts |-> <<>>,
         want |-> {}, usable |-> {}, hindered |-> FALSE]

Init ==
  /\ provider \in {"azure", "github"}
  /\ index = [f \in Files |-> IF f \in Tracked THEN 1 ELSE Absent]
  /\ local = [b \in Branches |-> IF b = Main THEN <<index>> ELSE NoBranch]
  /\ work \in [Files -> {Absent, 1}] /\ \A f \in Tracked : work[f] = index[f]
  /\ head = Main /\ locked = FALSE /\ cache = ""
  /\ remote = local /\ open = {} /\ works \in Logins
  /\ job = Idle /\ last = "none"
  /\ edits = 1 /\ faults = 0 /\ outside = 0

In(phase) == job.phase = phase
Goto(phase) == job' = [job EXCEPT !.phase = phase] /\ UNCHANGED last
\* Of a call that raised its arguments are kept, to be repeated.
Over ==
  IF job.op = "create" THEN Idle
  ELSE [Idle EXCEPT !.op = job.op, !.branch = job.branch, !.push = job.push,
                    !.paths = job.paths, !.override = job.override]
Raise == job' = Over /\ last' = "raised"
Return == job' = Idle /\ last' = "returned"

----------------------------------------------------------------------------
(* What the git commands do to the clone and the remote. *)

Tip(b) == Last(local[b])

\* checkout keeps a change of a file only if both branches hold the same file.
Clean(f) == index[f] = Tip(head)[f] /\ work[f] = index[f]
Kept(f, b) == Tip(head)[f] = Tip(b)[f] \/ index[f] = Tip(b)[f]
Switchable(b) == ~locked /\ local[b] # NoBranch /\ \A f \in Files : Clean(f) \/ Kept(f, b)
Switch(b) ==
  /\ Switchable(b)
  /\ head' = b
  /\ index' = [f \in Files |-> IF Kept(f, b) THEN index[f] ELSE Tip(b)[f]]
  /\ work' = [f \in Files |-> IF Kept(f, b) THEN work[f] ELSE Tip(b)[f]]
  /\ UNCHANGED <<local, locked>>

Creatable(b) == ~locked /\ local[b] = NoBranch
Create(b) ==
  /\ Creatable(b)
  /\ local' = [local EXCEPT ![b] = local[head]] /\ head' = b
  /\ UNCHANGED <<index, work, locked>>

\* What add is asked for; without paths, every file git knows of.
Asked(paths) == IF paths = {} THEN {f \in Files : index[f] # Absent} ELSE paths
Stageable == ~locked /\ \A f \in job.paths : index[f] # Absent \/ work[f] # Absent
Stage ==
  /\ Stageable
  /\ index' = [f \in Files |-> IF f \in Asked(job.paths) THEN work[f] ELSE index[f]]
  /\ UNCHANGED <<head, local, work, locked>>

Unchanged == \A f \in Files : Clean(f)
Committable == ~locked /\ index # Tip(head)
Commit ==
  /\ Committable
  /\ local' = [local EXCEPT ![head] = Append(@, index)]
  /\ UNCHANGED <<head, index, work, locked>>

Pushable(b) == local[b] # NoBranch /\ IsPrefix(remote[b], local[b])
Push(b) == Pushable(b) /\ remote' = [remote EXCEPT ![b] = local[b]]

----------------------------------------------------------------------------
(* create_update_pr. *)

NotClone == UNCHANGED <<provider, cache, host, bounds>>

Request(j) ==
  [j EXCEPT !.phase = "request", !.attempts = Chain(j.override, cache),
            !.usable = works, !.hindered = FALSE]

Changed(paths) == {f \in Asked(paths) : ~Clean(f)}

CreateUpdatePr(b, push, paths, override) ==
  /\ In("idle")
  /\ job' = [Idle EXCEPT !.phase = "checkout", !.op = "update", !.branch = b, !.push = push,
                         !.paths = paths, !.override = override,
                         !.want = {<<f, work[f]>> : f \in Changed(paths)}]
  /\ UNCHANGED <<last, clone>> /\ NotClone

\* create_pull_request alone, for a branch that is pushed already.
CreatePullRequest(b, override, reviewers) ==
  /\ In("idle")
  /\ job' = Request([Idle EXCEPT !.op = "create", !.branch = b, !.override = override,
                                 !.reviewers = reviewers])
  /\ UNCHANGED <<last, clone>> /\ NotClone

\* Defect: the branch is always created.
CheckoutSkipped ==
  In("checkout") /\ Goto("branch") /\ UNCHANGED clone /\ NotClone

Checkout ==
  /\ In("checkout")
  /\ \/ Switch(job.branch) /\ Goto("add")
     \/ ~Switchable(job.branch) /\ Goto("branch") /\ UNCHANGED clone
  /\ NotClone

\* Defect: a branch that cannot be switched to either is passed over.
CheckoutNewOrStay ==
  /\ In("branch") /\ Goto("add")
  /\ IF Creatable(job.branch) THEN Create(job.branch) ELSE UNCHANGED clone
  /\ NotClone

CheckoutNew ==
  /\ In("branch")
  /\ \/ Create(job.branch) /\ Goto("add")
     \/ ~Creatable(job.branch) /\ Raise /\ UNCHANGED clone
  /\ NotClone

Add ==
  /\ In("add")
  /\ \/ Stage /\ Goto("status")
     \/ ~Stageable /\ Raise /\ UNCHANGED clone
  /\ NotClone

Deliver == IF job.push THEN Goto("push") ELSE job' = Request(job) /\ UNCHANGED last

Status ==
  /\ In("status")
  /\ IF Unchanged THEN Deliver ELSE Goto("commit")
  /\ UNCHANGED clone /\ NotClone

CommitStaged ==
  /\ In("commit")
  /\ \/ Commit /\ Deliver
     \/ ~Committable /\ Raise /\ UNCHANGED clone
  /\ NotClone

PushBranch ==
  /\ In("push")
  /\ \/ Push(job.branch) /\ job' = Request(job) /\ UNCHANGED last
     \/ ~Pushable(job.branch) /\ Raise /\ UNCHANGED remote
  /\ UNCHANGED <<provider, clone, cache, open, works, bounds>>

----------------------------------------------------------------------------
(* create_pull_request of both providers. *)

Attempt == Head(job.attempts)

\* The host refuses a second request for a branch, and one without commits.
Acceptable(b) == b \notin open /\ ~IsPrefix(remote[b], remote[Main])
Accepted == MethodOf(Attempt) \in works /\ Acceptable(job.branch)

\* Writing the cache may fail unnoticed.
Remember ==
  IF job.override # "" \/ Attempt \in {"cached cli", "cached api"} THEN UNCHANGED cache
  ELSE cache' \in {cache, IF Attempt = "api" THEN "api" ELSE "cli"}

\* Only Azure's chain forgets a cached method that failed.
Forget ==
  IF provider = "azure" /\ job.override = "" /\ Attempt \in {"cached cli", "cached api"}
  THEN cache' \in {cache, ""} ELSE UNCHANGED cache

\* The attempt failed: on to the next one, or raise.
FailAttempt(hindered) ==
  /\ Forget
  /\ \/ /\ Len(job.attempts) > 1 /\ UNCHANGED last
        /\ job' = [job EXCEPT !.phase = "request", !.attempts = Tail(@),
                              !.hindered = @ \/ hindered]
     \/ Len(job.attempts) = 1 /\ Raise

\* Over the REST API GitHub is asked for the reviewers once the request is open.
AsksReviewers == job.reviewers /\ provider = "github" /\ MethodOf(Attempt) = "api"

Answer ==
  /\ In("request")
  /\ \/ /\ Accepted
        /\ open' = open \cup {job.branch}
        /\ IF AsksReviewers THEN Goto("reviewers") /\ UNCHANGED cache
                            ELSE Return /\ Remember
     \/ /\ ~Accepted
        /\ FailAttempt(~Acceptable(job.branch)) /\ UNCHANGED open
  /\ UNCHANGED <<provider, clone, remote, works, bounds>>

AddReviewers ==
  /\ In("reviewers")
  /\ \/ "api" \in works /\ Return /\ Remember
     \/ FailAttempt(TRUE)
  /\ UNCHANGED <<provider, clone, host, bounds>>

----------------------------------------------------------------------------
(* Faults. *)

Fault == faults < MaxFaults /\ faults' = faults + 1 /\ UNCHANGED <<provider, works, edits, outside>>
GitPhases == {"checkout", "branch", "add", "status", "commit", "push"}

\* A command fails by itself: only a failed checkout is not the end.
GitFails ==
  /\ job.phase \in GitPhases /\ Fault
  /\ IF In("checkout") THEN Goto("branch") ELSE Raise
  /\ UNCHANGED <<clone, cache, remote, open>>

\* A command is killed after 300 seconds, or the process dies: it has taken
\* effect or not, and one that writes the index may leave its lock behind.
GitKilled ==
  /\ job.phase \in GitPhases /\ Fault /\ Raise
  /\ \/ UNCHANGED <<clone, remote>>
     \/ /\ job.phase \in {"checkout", "branch", "add", "commit"}
        /\ locked' = TRUE /\ UNCHANGED <<head, local, index, work, remote>>
     \/ In("checkout") /\ Switch(job.branch) /\ UNCHANGED remote
     \/ In("branch") /\ Create(job.branch) /\ UNCHANGED remote
     \/ In("add") /\ Stage /\ UNCHANGED remote
     \/ In("commit") /\ Commit /\ UNCHANGED remote
     \/ In("push") /\ Push(job.branch) /\ UNCHANGED clone
  /\ UNCHANGED <<cache, open>>

\* An attempt fails, or its answer is lost after the host opened the request.
RequestFails ==
  /\ In("request") /\ Fault /\ FailAttempt(TRUE)
  /\ \/ UNCHANGED open
     \/ Accepted /\ open' = open \cup {job.branch}
  /\ UNCHANGED <<clone, remote>>

Dies == job.phase \in {"request", "reviewers"} /\ Fault /\ Raise /\ UNCHANGED <<clone, cache, remote, open>>

----------------------------------------------------------------------------
(* People. *)

\* A file is edited; before it is staged, the call picks the new content up.
Edit(f) ==
  /\ edits < MaxEdits /\ edits' = edits + 1
  /\ work' = [work EXCEPT ![f] = edits']
  /\ job' = IF job.phase \in {"checkout", "branch", "add"} /\ f \in {w[1] : w \in job.want}
            THEN [job EXCEPT !.want = {w \in @ : w[1] # f} \cup {<<f, edits'>>}] ELSE job
  /\ UNCHANGED <<provider, head, local, index, locked, cache, host, last, faults, outside>>

Outside == outside < MaxOutside /\ outside' = outside + 1 /\ UNCHANGED <<provider, cache, job, last, edits, faults>>

GoTo(b) == In("idle") /\ head # b /\ Switch(b) /\ Outside /\ UNCHANGED host

Merge(b) ==
  /\ b \in open /\ IsPrefix(remote[Main], remote[b])
  /\ \E keep \in BOOLEAN :
       remote' = [remote EXCEPT ![Main] = remote[b], ![b] = IF keep THEN @ ELSE NoBranch]
  /\ open' = open \ {b} /\ Outside /\ UNCHANGED <<clone, works>>
Close(b) == b \in open /\ open' = open \ {b} /\ Outside /\ UNCHANGED <<clone, remote, works>>

\* Somebody else commits the files of main to the branch, or starts it; the
\* clone does not fetch.
PushElse(b) ==
  /\ remote' = [remote EXCEPT ![b] = Append(IF @ = NoBranch THEN remote[Main] ELSE @, Last(remote[Main]))]
  /\ Outside /\ UNCHANGED <<clone, open, works>>

Rotate(m) ==
  /\ works' = (works \ {m}) \cup ({m} \ works)
  /\ outside < MaxOutside /\ outside' = outside + 1
  /\ job' = [job EXCEPT !.usable = @ \cap works']
  /\ UNCHANGED <<provider, clone, cache, remote, open, last, edits, faults>>

----------------------------------------------------------------------------
Calls == \E b \in Sources, override \in Overrides :
  \/ \E push \in BOOLEAN, paths \in Paths : CreateUpdatePr(b, push, paths, override)
  \/ \E reviewers \in BOOLEAN : CreatePullRequest(b, override, reviewers)

\* The pipeline repeats what raised.
Retry == last = "raised" /\ job.op = "update" /\ CreateUpdatePr(job.branch, job.push, job.paths, job.override)

Command == Checkout \/ CheckoutNew \/ Add \/ Status \/ CommitStaged \/ PushBranch \/ Answer \/ AddReviewers
Faults == GitFails \/ GitKilled \/ RequestFails \/ Dies
People ==
  \/ \E f \in Files : Edit(f)
  \/ \E b \in Branches : GoTo(b)
  \/ \E b \in Sources : Merge(b) \/ Close(b) \/ PushElse(b)
  \/ \E m \in Methods : Rotate(m)

Next == Calls \/ Retry \/ Command \/ Faults \/ People
Spec == Init /\ [][Next]_vars /\ WF_vars(Command) /\ WF_vars(Retry)

----------------------------------------------------------------------------
(* Properties. *)

Returned == job.phase \in {"request", "reviewers"} /\ job'.phase = "idle" /\ last' = "returned"

\* A call that was told to push and returned has opened a request with a commit
\* that holds every change the call found in the files it was asked for, as they
\* stood when they were staged: whatever branch the clone was on, was switched,
\* created or killed on, however many earlier calls broke off, and whichever
\* attempt succeeded (create_update_pr, _ensure_branch, commit_updated_contracts).
AckedCarriesChange ==
  [][Returned /\ job.push =>
       /\ job.branch \in open'
       /\ \E c \in Range(remote'[job.branch]) : \A w \in job.want : c[w[1]] = w[2]]_vars

Eligible == IF job.override = "" THEN Methods ELSE {MethodOf(job.override)}

\* A request is given up only if the host refused or lost one, or none of the
\* methods the call may use worked all along: what the cache says, and what
\* failed before, never keeps a call from the method that works
\* (create_pull_request of both providers).
GivesUpLast ==
  [][In("request") /\ job'.phase = "idle" /\ last' = "raised" /\ faults' = faults
     => \/ job.hindered \/ ~Acceptable(job.branch)
        \/ Eligible \cap job.usable = {}]_vars

Delivered(b, w) ==
  \E c \in Range(remote[Main]) \cup (IF b \in open THEN Range(remote[b]) ELSE {}) : c[w[1]] = w[2]

\* What no repetition gets past: a stale lock, a branch others have pushed to
\* or that cannot be switched to, no credentials, and, once the change is
\* committed, any other changed file, for which an empty commit is attempted.
Stuck(b) ==
  \/ locked \/ works = {}
  \/ ~IsPrefix(remote[b], local[b])
  \/ local[b] # NoBranch /\ ~Switchable(b)
  \/ In("idle") /\ ~Unchanged /\ Changed(job.paths) = {}

\* A change whose delivery is tried again each time it raises ends in an open
\* request or in main, unless it is edited, another call is made first, or the
\* call is stuck: what a failed call leaves behind, half-made branches, staged
\* files, unpushed commits, is taken up by the next.
RetryDelivers ==
  \A b \in Sources, f \in Files, v \in 2 .. MaxEdits :
    LET Trying == job.op = "update" /\ job.branch = b /\ job.push /\ job.override = ""
                  /\ f \in Asked(job.paths)
    IN (Trying /\ <<f, v>> \in job.want) ~>
       (Delivered(b, <<f, v>>) \/ ~Trying \/ work[f] # v \/ Stuck(b))
=============================================================================

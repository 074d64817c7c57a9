-------------------------- MODULE PullRequestsProofs --------------------------
(***************************************************************************)
(* What a call that returned has delivered and what one that gave up had   *)
(* tried, for any branches, files, faults and interventions.               *)
(***************************************************************************)
EXTENDS PullRequests, SequenceTheorems, TLAPS

----------------------------------------------------------------------------
(* The inductive invariant.  It follows the changes a call is to deliver:  *)
(* from the working tree, which switching branches leaves as they are,     *)
(* through the index and the tip of the branch to the host, where they     *)
(* stay, if only in main once the request was merged.  And it follows the  *)
(* methods: one that has been passed over does not work.                   *)

Tree == [Files -> 0..edits]
Attempts == {"cached cli", "cached api", "cli", "token", "api"}
Asking == {"request", "reviewers"}
Phases == GitPhases \cup Asking \cup {"idle"}

Job ==
  [phase : Phases, op : {"none", "create", "update"}, branch : Branches, push : BOOLEAN,
   paths : SUBSET Files, override : {"", "cli", "api"}, reviewers : BOOLEAN,
   attempts : Seq(Attempts), want : SUBSET (Files \X Nat), usable : SUBSET Methods,
   hindered : BOOLEAN]

\* What a call is, by what it was asked for and how far it is.
Sensible(j) ==
  /\ j.phase # "idle" => j.op # "none"
  /\ j.op # "none" => j.branch \in Sources
  /\ j.reviewers => ~j.push
  /\ j.phase = "reviewers" => j.reviewers
  /\ j.phase \in Asking => j.attempts # <<>>

WellTyped ==
  /\ edits \in Nat /\ works \in SUBSET Methods
  /\ head \in Branches /\ index \in Tree /\ work \in Tree
  /\ local \in [Branches -> Seq(Tree)] /\ remote \in [Branches -> Seq(Tree)]
  /\ remote[Main] # NoBranch
  /\ job \in Job /\ Sensible(job)

Carries(c) == \A w \in job.want : c[w[1]] = w[2]

\* Where the wanted changes are.
Wanted ==
  /\ In("checkout") => \A w \in job.want : ~Clean(w[1])
  /\ job.phase \in {"checkout", "branch", "add"} =>
       Carries(work) /\ \A w \in job.want : w[1] \in Asked(job.paths)
  /\ job.phase \in {"add", "status", "commit", "push"} => head = job.branch
  /\ job.phase \in {"status", "commit"} => Carries(index)
  /\ In("push") => Carries(Tip(job.branch))

Holds(b) == Range(remote[b]) \cup (IF remote[b] = NoBranch THEN Range(remote[Main]) ELSE {})
Arrived == job.phase \in Asking /\ job.push => \E c \in Holds(job.branch) : Carries(c)

Untried ==
  job.phase \in Asking =>
    /\ job.usable \subseteq works
    /\ ~job.hindered => Eligible \cap job.usable \subseteq {MethodOf(a) : a \in Range(job.attempts)}

RequestInv == WellTyped /\ Wanted /\ Arrived /\ Untried

----------------------------------------------------------------------------
(* Sequences of commits. *)

LEMMA PrefixRange ==
  ASSUME NEW S, NEW s \in Seq(S), NEW t \in Seq(S), IsPrefix(s, t)
  PROVE  Range(s) \subseteq Range(t) /\ (s # <<>> => t # <<>>)
<1>1. Len(s) \in Nat /\ Len(t) \in Nat /\ Len(s) <= Len(t)
      /\ DOMAIN s = 1..Len(s) /\ DOMAIN t = 1..Len(t)
  BY LenProperties DEF IsPrefix
<1>2. ASSUME NEW i \in 1..Len(s)
      PROVE  s[i] = t[i]
  <2>1. \A k \in 1..Len(s) : s[k] \in S /\ t[k] \in S
    BY <1>1, ElementOfSeq
  <2>2. SubSeq(s, 1, Len(s))[i] = s[1 + i - 1] /\ SubSeq(t, 1, Len(s))[i] = t[1 + i - 1]
    BY <1>1, <2>1, SubSeqProperties
  <2>. QED
    BY <1>1, <2>2 DEF IsPrefix
<1>3. Range(s) \subseteq Range(t)
  BY <1>1, <1>2 DEF Range
<1>4. s # <<>> => t # <<>>
  <2>1. s # <<>> => Len(s) # 0
    BY <1>1, EmptySeq
  <2>. QED
    BY <1>1, <2>1, EmptySeq
<1>. QED BY <1>3, <1>4

LEMMA EmptyIsPrefix ==
  ASSUME NEW S, NEW t \in Seq(S)
  PROVE  IsPrefix(<<>>, t)
<1>1. Len(<<>>) = 0 /\ Len(t) \in Nat
  BY EmptySeq, LenProperties
<1>2. SubSeq(<<>>, 1, 0) = <<>> /\ SubSeq(t, 1, 0) = <<>>
  BY SubSeqEmpty
<1>. QED
  BY <1>1, <1>2 DEF IsPrefix

LEMMA AppendRange ==
  ASSUME NEW S, NEW s \in Seq(S), NEW e \in S
  PROVE  /\ Append(s, e) \in Seq(S) /\ Append(s, e) # <<>>
         /\ Last(Append(s, e)) = e
         /\ Range(s) \subseteq Range(Append(s, e))
<1>. DEFINE a == Append(s, e)
<1>1. /\ a \in Seq(S) /\ Len(a) = Len(s) + 1 /\ a[Len(s) + 1] = e
      /\ \A i \in 1..Len(s) : a[i] = s[i]
  BY AppendProperties
<1>2. Len(s) \in Nat /\ DOMAIN s = 1..Len(s) /\ DOMAIN a = 1..Len(a)
  BY <1>1, LenProperties
<1>. HIDE DEF a
<1>3. a # <<>>
  BY <1>1, <1>2, EmptySeq
<1>. QED
  BY <1>1, <1>2, <1>3 DEF Range, Last, a

LEMMA LastIsThere ==
  ASSUME NEW S, NEW s \in Seq(S), s # <<>>
  PROVE  Last(s) \in S /\ Last(s) \in Range(s)
<1>1. Len(s) \in Nat \ {0} /\ DOMAIN s = 1..Len(s)
  BY EmptySeq, LenProperties
<1>. QED
  BY <1>1, ElementOfSeq DEF Last, Range

LEMMA NothingThere == Range(<<>>) = {}
<1>1. DOMAIN <<>> = {}
  OBVIOUS
<1>. QED
  BY <1>1 DEF Range

LEMMA OneThing ==
  ASSUME NEW S, NEW e \in S
  PROVE  <<e>> \in Seq(S) /\ <<e>> # <<>> /\ e \in Range(<<e>>)
<1>1. <<e>> \in Seq(S) /\ <<e>> # <<>> /\ Last(<<e>>) = e
  BY DEF Last
<1>. QED
  BY <1>1, LastIsThere

LEMMA ThreeThings ==
  ASSUME NEW S, NEW a \in S, NEW b \in S, NEW c \in S
  PROVE  /\ <<a, b, c>> \in Seq(S) /\ Len(<<a, b, c>>) = 3
         /\ <<a, b, c>>[1] = a /\ <<a, b, c>>[2] = b /\ <<a, b, c>>[3] = c
OBVIOUS

\* What follows in a concatenation is in it.
LEMMA ConcatRange ==
  ASSUME NEW S, NEW s \in Seq(S), NEW t \in Seq(S)
  PROVE  /\ s \o t \in Seq(S)
         /\ \A i \in 1..Len(t) : t[i] \in Range(s \o t)
<1>1. Len(s) \in Nat /\ Len(t) \in Nat
  BY LenProperties
<1>. DEFINE u == s \o t
<1>2. /\ u \in Seq(S) /\ Len(u) = Len(s) + Len(t)
      /\ \A i \in 1..(Len(s) + Len(t)) : u[i] = IF i <= Len(s) THEN s[i] ELSE t[i - Len(s)]
  BY ConcatProperties
<1>. HIDE DEF u
<1>3. DOMAIN u = 1..(Len(s) + Len(t))
  BY <1>2, LenProperties
<1>4. ASSUME NEW i \in 1..Len(t)
      PROVE  t[i] \in Range(u)
  <2>1. Len(s) + i \in 1..(Len(s) + Len(t)) /\ ~(Len(s) + i <= Len(s))
        /\ (Len(s) + i) - Len(s) = i
    BY <1>1
  <2>2. u[Len(s) + i] = t[i]
    BY <1>2, <2>1
  <2>. QED
    BY <1>3, <2>1, <2>2 DEF Range
<1>. QED
  BY <1>2, <1>4 DEF u

LEMMA SmallNumbers ==
  /\ 1 \in 1..3 /\ 2 \in 1..3 /\ 3 \in 1..3
  /\ 0 \in Nat /\ \A n \in Nat : 0..n \subseteq Nat /\ n + 1 \in Nat /\ n + 1 # n
OBVIOUS

----------------------------------------------------------------------------
(* Jobs. *)

LEMMA Constants ==
  /\ Main \in Branches /\ Main \notin Sources /\ Sources \subseteq Branches
  /\ <<>> \in Seq(Attempts)
  BY PullRequestAssumption, EmptySeq DEF Branches, Main

\* Every method a call may use is among the attempts it sets out with.
LEMMA ChainCovers ==
  ASSUME NEW o \in {"", "cli", "api"}, NEW c
  PROVE  /\ Chain(o, c) \in Seq(Attempts) /\ Chain(o, c) # <<>>
         /\ (IF o = "" THEN Methods ELSE {MethodOf(o)})
              \subseteq {MethodOf(a) : a \in Range(Chain(o, c))}
<1>1. CASE o # ""
  <2>1. Chain(o, c) = <<o>> /\ o \in Attempts
    BY <1>1 DEF Chain, Attempts
  <2>2. <<o>> \in Seq(Attempts) /\ <<o>> # <<>> /\ o \in Range(<<o>>)
    BY <2>1, OneThing
  <2>. QED
    BY <1>1, <2>1, <2>2
<1>2. CASE o = ""
  <2>. DEFINE k == Cached(c)
              rest == <<"cli", "token", "api">>
  <2>1. {"cached cli", "cached api", "cli", "token", "api"} = Attempts
    BY DEF Attempts
  <2>2. k \in Seq(Attempts)
    <3>1. /\ <<"cached cli">> \in Seq(Attempts) /\ <<"cached api">> \in Seq(Attempts)
          /\ <<>> \in Seq(Attempts)
      BY <2>1, OneThing, Constants
    <3>2. k \in {<<"cached cli">>, <<"cached api">>, <<>>}
      BY DEF Cached
    <3>. QED BY <3>1, <3>2
  <2>3. rest \in Seq(Attempts) /\ Len(rest) = 3
        /\ rest[1] = "cli" /\ rest[2] = "token" /\ rest[3] = "api"
    <3>1. "cli" \in Attempts /\ "token" \in Attempts /\ "api" \in Attempts
      BY DEF Attempts
    <3>. QED BY <3>1, ThreeThings
  <2>4. Chain(o, c) = k \o rest
    BY <1>2 DEF Chain
  <2>. HIDE DEF k, rest
  <2>5. k \o rest \in Seq(Attempts) /\ \A i \in 1..3 : rest[i] \in Range(k \o rest)
    BY <2>2, <2>3, ConcatRange
  <2>6. {"cli", "token", "api"} \subseteq Range(k \o rest)
    <3>1. 1 \in 1..3 /\ 2 \in 1..3 /\ 3 \in 1..3
      BY SmallNumbers
    <3>. DEFINE all == Range(k \o rest)
    <3>2. \A i \in 1..3 : rest[i] \in all
      BY <2>5
    <3>. HIDE DEF all
    <3>3. rest[1] \in all /\ rest[2] \in all /\ rest[3] \in all
      BY <3>1, <3>2
    <3>4. {"cli", "token", "api"} \subseteq all
      BY <2>3, <3>3
    <3>. QED
      BY <3>4 DEF all
  <2>7. k \o rest # <<>>
    BY <2>6, NothingThere
  <2>8. MethodOf("cli") = "native" /\ MethodOf("token") = "token" /\ MethodOf("api") = "api"
    BY DEF MethodOf
  <2>. QED
    BY <1>2, <2>4, <2>5, <2>6, <2>7, <2>8 DEF Methods
<1>. QED BY <1>1, <1>2

\* A call that is over owes nothing.
LEMMA CallOver ==
  ASSUME WellTyped, job' \in {Idle, Over}
  PROVE  job' \in Job /\ Sensible(job') /\ Wanted' /\ Arrived' /\ Untried'
<1>1. Idle \in Job /\ Sensible(Idle) /\ Idle.phase = "idle"
  BY Constants DEF Idle, Job, Sensible, Phases, Asking
<1>2. Over \in Job /\ Sensible(Over) /\ Over.phase = "idle"
  <2>1. CASE job.op = "create"
    BY <1>1, <2>1 DEF Over
  <2>2. CASE job.op # "create"
    <3>1. Over = [Idle EXCEPT !.op = job.op, !.branch = job.branch, !.push = job.push,
                              !.paths = job.paths, !.override = job.override]
      BY <2>2 DEF Over
    <3>. QED
      BY <3>1, Constants DEF WellTyped, Sensible, Idle, Job, Phases, Asking
  <2>. QED BY <2>1, <2>2
<1>3. job' \in Job /\ Sensible(job') /\ job'.phase = "idle"
  BY <1>1, <1>2
<1>. QED
  BY <1>3 DEF Wanted, Arrived, Untried, In, Asking

\* A call that begins to ask the host.
LEMMA CallAsks ==
  ASSUME WellTyped, NEW j \in Job, Sensible(j), j.op # "none", job' = Request(j),
         UNCHANGED works
  PROVE  /\ job' \in Job /\ Sensible(job') /\ Wanted' /\ Untried'
         /\ job'.want = j.want /\ job'.branch = j.branch /\ job'.push = j.push
<1>1. j.override \in {"", "cli", "api"} /\ works \in SUBSET Methods
  BY DEF Job, WellTyped
<1>. DEFINE ch == Chain(j.override, cache)
<1>2. /\ ch \in Seq(Attempts) /\ ch # <<>>
      /\ (IF j.override = "" THEN Methods ELSE {MethodOf(j.override)})
           \subseteq {MethodOf(a) : a \in Range(ch)}
  BY <1>1, ChainCovers
<1>. HIDE DEF ch
<1>3. job' = [j EXCEPT !.phase = "request", !.attempts = ch, !.usable = works, !.hindered = FALSE]
  BY DEF Request, ch
<1>4. /\ job'.phase = "request" /\ job'.attempts = ch /\ job'.usable = works
      /\ job'.hindered = FALSE /\ job'.want = j.want /\ job'.branch = j.branch
      /\ job'.push = j.push /\ job'.override = j.override /\ job'.reviewers = j.reviewers
      /\ job'.op = j.op
  BY <1>3 DEF Job
<1>5. job' \in Job
  BY <1>1, <1>2, <1>3 DEF Job, Phases, Asking
<1>6. Sensible(job')
  BY <1>2, <1>4 DEF Sensible
<1>7. Wanted'
  BY <1>4 DEF Wanted, In
<1>8. Untried'
  BY <1>2, <1>4 DEF Untried, Eligible
<1>. QED
  BY <1>4, <1>5, <1>6, <1>7, <1>8

\* A call that goes on to another git command keeps its arguments.
LEMMA CallGoes ==
  ASSUME WellTyped, NEW phase \in GitPhases, Goto(phase), ~In("idle")
  PROVE  /\ job' \in Job /\ Sensible(job') /\ Arrived' /\ Untried'
         /\ job'.phase = phase /\ job'.want = job.want /\ job'.branch = job.branch
         /\ job'.push = job.push /\ job'.paths = job.paths
<1>1. job' = [job EXCEPT !.phase = phase] /\ job \in Job /\ Sensible(job)
  BY DEF Goto, WellTyped
<1>2. /\ job'.phase = phase /\ job'.want = job.want /\ job'.branch = job.branch
      /\ job'.push = job.push /\ job'.paths = job.paths /\ job'.op = job.op
      /\ job'.reviewers = job.reviewers /\ job'.attempts = job.attempts
  BY <1>1 DEF Job
<1>3. job' \in Job
  BY <1>1 DEF Job, Phases
<1>4. Sensible(job')
  BY <1>1, <1>2 DEF Sensible, GitPhases, Asking, In
<1>5. Arrived' /\ Untried'
  BY <1>2 DEF Arrived, Untried, GitPhases, Asking
<1>. QED
  BY <1>2, <1>3, <1>4, <1>5

----------------------------------------------------------------------------
(* The clone. *)

\* Whatever a git command does, the clone holds what somebody wrote.
LEMMA CloneTyped ==
  ASSUME WellTyped, UNCHANGED edits, NEW b \in Branches,
         Switch(b) \/ Create(b) \/ Stage \/ Commit \/ UNCHANGED clone
  PROVE  /\ head' \in Branches /\ index' \in Tree' /\ work' \in Tree'
         /\ local' \in [Branches -> Seq(Tree')]
<1>1. Tree' = Tree
  BY DEF Tree
<1>2. head \in Branches /\ index \in Tree /\ work \in Tree /\ local \in [Branches -> Seq(Tree)]
  BY DEF WellTyped
<1>3. CASE Switch(b)
  <2>1. Tip(b) \in Tree
    BY <1>2, <1>3, LastIsThere DEF Switch, Switchable, NoBranch, Tip
  <2>2. index' \in Tree /\ work' \in Tree
    BY <1>2, <1>3, <2>1 DEF Switch, Tree
  <2>. QED
    BY <1>1, <1>2, <1>3, <2>2 DEF Switch
<1>4. CASE Create(b)
  BY <1>1, <1>2, <1>4 DEF Create
<1>5. CASE Stage
  <2>1. index' \in Tree
    BY <1>2, <1>5 DEF Stage, Tree
  <2>. QED
    BY <1>1, <1>2, <1>5, <2>1 DEF Stage
<1>6. CASE Commit
  <2>1. Append(local[head], index) \in Seq(Tree)
    BY <1>2, AppendRange
  <2>. QED
    BY <1>1, <1>2, <1>6, <2>1 DEF Commit
<1>7. CASE UNCHANGED clone
  BY <1>1, <1>2, <1>7 DEF clone
<1>. QED
  BY <1>3, <1>4, <1>5, <1>6, <1>7

\* Switching to another branch leaves every changed file as it is.
LEMMA SwitchKeeps ==
  ASSUME WellTyped, NEW b \in Branches, Switch(b), NEW f \in Files, ~Clean(f)
  PROVE  index'[f] = index[f] /\ work'[f] = work[f]
<1>1. Kept(f, b)
  BY DEF Switch, Switchable
<1>. QED
  BY <1>1 DEF Switch

----------------------------------------------------------------------------
(* The git commands of a call. *)

\* What the call finds changed it is to deliver.
LEMMA StartStep ==
  ASSUME RequestInv, NEW b \in Sources, NEW push \in BOOLEAN, NEW paths \in SUBSET Files,
         NEW override \in {"", "cli", "api"}, CreateUpdatePr(b, push, paths, override)
  PROVE  RequestInv'
<1>. DEFINE found == {<<f, work[f]>> : f \in Changed(paths)}
            j == [Idle EXCEPT !.phase = "checkout", !.op = "update", !.branch = b, !.push = push,
                              !.paths = paths, !.override = override, !.want = found]
<1>1. /\ WellTyped /\ job' = j /\ UNCHANGED <<clone, host, edits>>
  BY DEF RequestInv, CreateUpdatePr, NotClone, bounds
<1>2. Changed(paths) \subseteq Files
  BY DEF Changed, Asked
<1>3. found \in SUBSET (Files \X Nat)
  <2>1. edits \in Nat /\ work \in [Files -> 0..edits]
    BY <1>1 DEF WellTyped, Tree
  <2>2. ASSUME NEW f \in Changed(paths)
        PROVE  <<f, work[f]>> \in Files \X Nat
    <3>1. f \in Files /\ work[f] \in 0..edits
      BY <1>2, <2>1
    <3>2. work[f] \in Nat
      BY <2>1, <3>1, SmallNumbers
    <3>. QED
      BY <3>1, <3>2
  <2>. QED
    BY <2>2
<1>. HIDE DEF found
<1>4. j \in Job /\ Sensible(j)
  BY <1>3, Constants DEF Idle, Job, Sensible, Phases, GitPhases, Asking, Branches
<1>5. j.phase = "checkout" /\ j.want = found /\ j.paths = paths
  BY DEF Idle
<1>. HIDE DEF j
<1>6. WellTyped'
  BY <1>1, <1>4 DEF WellTyped, clone, host, Tree
<1>7. ASSUME NEW w \in found
      PROVE  w[1] \in Asked(paths) /\ ~Clean(w[1]) /\ work[w[1]] = w[2]
  <2>1. PICK f \in Changed(paths) : w = <<f, work[f]>>
    BY <1>7 DEF found
  <2>. QED
    BY <2>1 DEF Changed
<1>8. Wanted'
  BY <1>1, <1>5, <1>7 DEF Wanted, In, clone, Carries, Clean, Tip, Asked
<1>9. Arrived' /\ Untried'
  BY <1>1, <1>5 DEF Arrived, Untried, Asking
<1>. QED
  BY <1>6, <1>8, <1>9 DEF RequestInv

LEMMA CheckoutStep ==
  ASSUME RequestInv, Checkout
  PROVE  RequestInv'
<1>1. /\ WellTyped /\ Wanted /\ In("checkout") /\ ~In("idle")
      /\ UNCHANGED <<remote, works, edits>> /\ job.branch \in Branches
      /\ job.want \subseteq Files \X Nat
  BY DEF RequestInv, Checkout, NotClone, host, bounds, In, WellTyped, Job
<1>2. /\ \A w \in job.want : ~Clean(w[1]) /\ w[1] \in Files /\ w[1] \in Asked(job.paths)
      /\ Carries(work)
  BY <1>1 DEF Wanted, In
<1>3. /\ head' \in Branches /\ index' \in Tree' /\ work' \in Tree'
      /\ local' \in [Branches -> Seq(Tree')]
  BY <1>1, CloneTyped DEF Checkout
<1>4. /\ job' \in Job /\ Sensible(job') /\ Arrived' /\ Untried' /\ job'.want = job.want
      /\ job'.paths = job.paths /\ job'.branch = job.branch
      /\ \/ Switch(job.branch) /\ job'.phase = "add"
         \/ UNCHANGED clone /\ job'.phase = "branch"
  BY <1>1, CallGoes DEF Checkout, GitPhases
<1>5. WellTyped'
  BY <1>1, <1>3, <1>4 DEF WellTyped, Tree
<1>6. CASE Switch(job.branch) /\ job'.phase = "add"
  <2>1. \A w \in job.want : index'[w[1]] = index[w[1]] /\ work'[w[1]] = work[w[1]]
    BY <1>1, <1>2, <1>6, SwitchKeeps
  <2>2. head' = job.branch
    BY <1>6 DEF Switch
  <2>3. Wanted'
    BY <1>2, <1>4, <1>6, <2>1, <2>2 DEF Wanted, In, Carries, Asked
  <2>. QED
    BY <1>4, <1>5, <2>3 DEF RequestInv
<1>7. CASE UNCHANGED clone /\ job'.phase = "branch"
  <2>1. Wanted'
    BY <1>2, <1>4, <1>7 DEF Wanted, In, Carries, Asked, clone
  <2>. QED
    BY <1>4, <1>5, <2>1 DEF RequestInv
<1>. QED
  BY <1>4, <1>6, <1>7

\* A git command that ends the call, whatever it has done to the clone.
LEMMA GitEnds ==
  ASSUME RequestInv, job' \in {Idle, Over}, UNCHANGED <<works, edits>>,
         UNCHANGED remote \/ (job.branch \in Sources /\ Push(job.branch)),
         NEW b \in Branches, Switch(b) \/ Create(b) \/ Stage \/ Commit \/ UNCHANGED clone
                             \/ UNCHANGED <<head, local, index, work>>
  PROVE  RequestInv'
<1>1. WellTyped
  BY DEF RequestInv
<1>2. job' \in Job /\ Sensible(job') /\ Wanted' /\ Arrived' /\ Untried'
  BY <1>1, CallOver
<1>3. /\ head' \in Branches /\ index' \in Tree' /\ work' \in Tree'
      /\ local' \in [Branches -> Seq(Tree')]
  <2>1. CASE UNCHANGED <<head, local, index, work>>
    BY <1>1, <2>1 DEF WellTyped, Tree
  <2>2. CASE Switch(b) \/ Create(b) \/ Stage \/ Commit \/ UNCHANGED clone
    BY <1>1, <2>2, CloneTyped
  <2>. QED BY <2>1, <2>2
<1>4. remote' \in [Branches -> Seq(Tree')] /\ remote'[Main] # NoBranch
  BY <1>1, Constants DEF WellTyped, Push, Tree
<1>. QED
  BY <1>1, <1>2, <1>3, <1>4 DEF RequestInv, WellTyped

LEMMA BranchStep ==
  ASSUME RequestInv, CheckoutNew
  PROVE  RequestInv'
<1>1. /\ WellTyped /\ Wanted /\ In("branch") /\ ~In("idle")
      /\ UNCHANGED <<remote, works, edits>> /\ job.branch \in Branches
  BY DEF RequestInv, CheckoutNew, NotClone, host, bounds, In, WellTyped, Job
<1>2. CASE Create(job.branch) /\ Goto("add")
  <2>1. /\ head' \in Branches /\ index' \in Tree' /\ work' \in Tree'
        /\ local' \in [Branches -> Seq(Tree')]
    BY <1>1, <1>2, CloneTyped
  <2>2. /\ job' \in Job /\ Sensible(job') /\ Arrived' /\ Untried' /\ job'.want = job.want
        /\ job'.paths = job.paths /\ job'.branch = job.branch /\ job'.phase = "add"
    BY <1>1, <1>2, CallGoes DEF GitPhases
  <2>3. WellTyped'
    BY <1>1, <2>1, <2>2 DEF WellTyped, Tree
  <2>4. Carries(work) /\ \A w \in job.want : w[1] \in Asked(job.paths)
    BY <1>1 DEF Wanted, In
  <2>5. Wanted'
    BY <1>2, <2>2, <2>4 DEF Wanted, In, Create, Carries, Asked
  <2>. QED
    BY <2>2, <2>3, <2>5 DEF RequestInv
<1>3. CASE Raise /\ UNCHANGED clone
  BY <1>1, <1>3, GitEnds DEF Raise
<1>. QED
  BY <1>2, <1>3 DEF CheckoutNew

LEMMA AddStep ==
  ASSUME RequestInv, Add
  PROVE  RequestInv'
<1>1. /\ WellTyped /\ Wanted /\ In("add") /\ ~In("idle")
      /\ UNCHANGED <<remote, works, edits>> /\ job.branch \in Branches
      /\ job.want \subseteq Files \X Nat
  BY DEF RequestInv, Add, NotClone, host, bounds, In, WellTyped, Job
<1>2. CASE Stage /\ Goto("status")
  <2>1. /\ head' \in Branches /\ index' \in Tree' /\ work' \in Tree'
        /\ local' \in [Branches -> Seq(Tree')]
    BY <1>1, <1>2, CloneTyped
  <2>2. /\ job' \in Job /\ Sensible(job') /\ Arrived' /\ Untried' /\ job'.want = job.want
        /\ job'.branch = job.branch /\ job'.phase = "status"
    BY <1>1, <1>2, CallGoes DEF GitPhases
  <2>3. WellTyped'
    BY <1>1, <2>1, <2>2 DEF WellTyped, Tree
  <2>4. /\ Carries(work) /\ head = job.branch
        /\ \A w \in job.want : w[1] \in Asked(job.paths) /\ w[1] \in Files
    BY <1>1 DEF Wanted, In
  <2>5. \A w \in job.want : index'[w[1]] = w[2]
    BY <1>2, <2>4 DEF Stage, Carries
  <2>6. Wanted'
    BY <1>2, <2>2, <2>4, <2>5 DEF Wanted, In, Stage, Carries
  <2>. QED
    BY <2>2, <2>3, <2>6 DEF RequestInv
<1>3. CASE Raise /\ UNCHANGED clone
  BY <1>1, <1>3, GitEnds DEF Raise
<1>. QED
  BY <1>2, <1>3 DEF Add

\* Once the tip of the branch has the changes, the call pushes it or asks.
LEMMA DeliverStep ==
  ASSUME RequestInv, job.phase \in {"status", "commit"}, Deliver,
         UNCHANGED <<remote, works, edits>>, UNCHANGED clone \/ Commit,
         \A w \in job.want : Last(local'[head])[w[1]] = w[2]
  PROVE  RequestInv'
<1>1. /\ WellTyped /\ Wanted /\ ~In("idle") /\ job \in Job /\ Sensible(job) /\ Main \in Branches
  BY Constants DEF RequestInv, In, WellTyped
<1>2. /\ head' \in Branches /\ index' \in Tree' /\ work' \in Tree'
      /\ local' \in [Branches -> Seq(Tree')] /\ head' = head
  BY <1>1, CloneTyped DEF Commit, clone
<1>3. head = job.branch
  BY <1>1 DEF Wanted
<1>4. CASE job.push
  <2>1. /\ job' \in Job /\ Sensible(job') /\ Arrived' /\ Untried' /\ job'.want = job.want
        /\ job'.branch = job.branch /\ job'.phase = "push"
    BY <1>1, <1>4, CallGoes DEF Deliver, GitPhases
  <2>2. Wanted'
    BY <1>2, <1>3, <2>1 DEF Wanted, In, Carries, Tip
  <2>. QED
    BY <1>1, <1>2, <2>1, <2>2 DEF RequestInv, WellTyped, Tree
<1>5. CASE ~job.push
  <2>1. job' = Request(job) /\ job.op # "none"
    BY <1>1, <1>5 DEF Deliver, Sensible, In
  <2>2. /\ job' \in Job /\ Sensible(job') /\ Wanted' /\ Untried' /\ job'.push = job.push
    BY <1>1, <2>1, CallAsks
  <2>3. Arrived'
    BY <1>5, <2>2 DEF Arrived
  <2>. QED
    BY <1>1, <1>2, <2>2, <2>3 DEF RequestInv, WellTyped, Tree
<1>. QED BY <1>4, <1>5

LEMMA StatusStep ==
  ASSUME RequestInv, Status
  PROVE  RequestInv'
<1>1. /\ WellTyped /\ Wanted /\ In("status") /\ ~In("idle") /\ UNCHANGED clone
      /\ UNCHANGED <<remote, works, edits>>
  BY DEF RequestInv, Status, NotClone, host, bounds, In
<1>2. CASE Unchanged
  <2>1. \A f \in Files : Tip(head)[f] = index[f]
    BY <1>2 DEF Unchanged, Clean
  <2>2. Carries(index) /\ head = job.branch /\ job.want \subseteq Files \X Nat
    BY <1>1 DEF Wanted, In, WellTyped, Job
  <2>3. \A w \in job.want : Last(local'[head])[w[1]] = w[2]
    BY <1>1, <2>1, <2>2 DEF Carries, Tip, clone
  <2>. QED
    BY <1>1, <1>2, <2>3, DeliverStep DEF Status, In
<1>3. CASE ~Unchanged
  <2>1. /\ job' \in Job /\ Sensible(job') /\ Arrived' /\ Untried' /\ job'.want = job.want
        /\ job'.branch = job.branch /\ job'.phase = "commit"
    BY <1>1, <1>3, CallGoes DEF Status, GitPhases
  <2>2. Carries(index) /\ head = job.branch
    BY <1>1 DEF Wanted, In
  <2>3. Wanted'
    BY <1>1, <2>1, <2>2 DEF Wanted, In, Carries, clone
  <2>. QED
    BY <1>1, <2>1, <2>3 DEF RequestInv, WellTyped, Tree, clone
<1>. QED BY <1>2, <1>3

LEMMA CommitStep ==
  ASSUME RequestInv, CommitStaged
  PROVE  RequestInv'
<1>1. /\ WellTyped /\ Wanted /\ In("commit") /\ ~In("idle")
      /\ UNCHANGED <<remote, works, edits>> /\ Main \in Branches
  BY Constants DEF RequestInv, CommitStaged, NotClone, host, bounds, In
<1>2. CASE Commit /\ Deliver
  <2>1. Last(local'[head]) = index
    <3>1. Last(Append(local[head], index)) = index
      BY <1>1, AppendRange DEF WellTyped
    <3>. QED
      BY <1>1, <1>2, <3>1 DEF Commit, WellTyped
  <2>2. Carries(index)
    BY <1>1 DEF Wanted, In
  <2>. QED
    BY <1>1, <1>2, <2>1, <2>2, DeliverStep DEF In, Carries
<1>3. CASE Raise /\ UNCHANGED clone
  BY <1>1, <1>3, GitEnds DEF Raise
<1>. QED
  BY <1>2, <1>3 DEF CommitStaged

LEMMA PushStep ==
  ASSUME RequestInv, PushBranch
  PROVE  RequestInv'
<1>1. /\ WellTyped /\ Wanted /\ In("push") /\ UNCHANGED <<clone, works, edits>>
      /\ job \in Job /\ Sensible(job) /\ job.op # "none" /\ job.branch \in Sources
  BY DEF RequestInv, PushBranch, bounds, In, WellTyped, Sensible
<1>2. CASE Push(job.branch) /\ job' = Request(job)
  <2>. DEFINE b == job.branch
  <2>1. /\ job' \in Job /\ Sensible(job') /\ Wanted' /\ Untried'
        /\ job'.want = job.want /\ job'.branch = b
    BY <1>1, <1>2, CallAsks
  <2>2. /\ local[b] \in Seq(Tree) /\ local[b] # <<>> /\ remote' = [remote EXCEPT ![b] = local[b]]
        /\ b \in Branches /\ b # Main
    BY <1>1, <1>2, Constants DEF WellTyped, Push, Pushable, NoBranch
  <2>3. remote' \in [Branches -> Seq(Tree)] /\ remote'[Main] # NoBranch /\ remote'[b] = local[b]
    BY <1>1, <2>2, Constants DEF WellTyped
  <2>4. Tip(b) \in Range(local[b])
    BY <2>2, LastIsThere DEF Tip
  <2>5. Carries(Tip(b))
    BY <1>1 DEF Wanted, In
  <2>6. Arrived'
    BY <2>1, <2>3, <2>4, <2>5 DEF Arrived, Holds, Carries
  <2>7. WellTyped'
    BY <1>1, <2>1, <2>3 DEF WellTyped, Tree, clone
  <2>. QED
    BY <2>1, <2>6, <2>7 DEF RequestInv
<1>3. CASE Raise /\ UNCHANGED remote
  BY <1>1, <1>3, GitEnds, Constants DEF Raise
<1>. QED
  BY <1>2, <1>3 DEF PushBranch

----------------------------------------------------------------------------
(* The attempts. *)

\* The call came to ask on its own: the clone, the host's branches and what works stay.
LEMMA SameClone ==
  ASSUME WellTyped, UNCHANGED <<clone, remote, works, edits>>, job' \in Job, Sensible(job')
  PROVE  WellTyped'
BY DEF WellTyped, Tree, clone

LEMMA AskStep ==
  ASSUME RequestInv, NEW b \in Sources, NEW override \in {"", "cli", "api"},
         NEW reviewers \in BOOLEAN, CreatePullRequest(b, override, reviewers)
  PROVE  RequestInv'
<1>. DEFINE j == [Idle EXCEPT !.op = "create", !.branch = b, !.override = override,
                              !.reviewers = reviewers]
<1>1. WellTyped /\ job' = Request(j) /\ UNCHANGED <<clone, remote, works, edits>>
  BY DEF RequestInv, CreatePullRequest, NotClone, host, bounds
<1>2. j \in Job /\ Sensible(j) /\ j.op # "none" /\ j.push = FALSE
  BY Constants DEF Idle, Job, Sensible, Phases, Asking, Branches
<1>. HIDE DEF j
<1>3. job' \in Job /\ Sensible(job') /\ Wanted' /\ Untried' /\ job'.push = FALSE
  BY <1>1, <1>2, CallAsks
<1>4. WellTyped' /\ Arrived'
  BY <1>1, <1>3, SameClone DEF Arrived
<1>. QED
  BY <1>3, <1>4 DEF RequestInv

\* An attempt that did not work out is passed over; one whose method works was refused
\* or lost, and that hinders.
LEMMA FailStep ==
  ASSUME RequestInv, job.phase \in Asking, NEW hindered \in BOOLEAN, FailAttempt(hindered),
         UNCHANGED <<clone, remote, works, edits>>,
         ~hindered => MethodOf(Attempt) \notin works
  PROVE  RequestInv'
<1>1. WellTyped /\ Arrived /\ Untried /\ job \in Job /\ Sensible(job)
  BY DEF RequestInv, WellTyped
<1>2. CASE Raise
  <2>1. job' \in Job /\ Sensible(job') /\ Wanted' /\ Arrived' /\ Untried'
    BY <1>1, <1>2, CallOver DEF Raise
  <2>. QED
    BY <1>1, <2>1, SameClone DEF RequestInv
<1>3. CASE /\ Len(job.attempts) > 1
           /\ job' = [job EXCEPT !.phase = "request", !.attempts = Tail(@),
                                 !.hindered = @ \/ hindered]
  <2>. DEFINE as == job.attempts
              rest == Tail(as)
  <2>1. as \in Seq(Attempts) /\ as # <<>> /\ Len(as) \in Nat
    BY <1>1, LenProperties DEF Job, Sensible
  <2>2. /\ rest \in Seq(Attempts) /\ Len(rest) = Len(as) - 1
        /\ \A i \in 1..Len(rest) : rest[i] = as[i + 1]
    BY <2>1, HeadTailProperties
  <2>3. DOMAIN as = 1..Len(as) /\ DOMAIN rest = 1..Len(rest) /\ as[1] = Head(as)
    BY <2>1, <2>2, LenProperties
  <2>. HIDE DEF rest
  <2>4. rest # <<>>
    BY <1>3, <2>1, <2>2, EmptySeq
  <2>5. \A a \in Range(as) : a = Head(as) \/ a \in Range(rest)
    <3>1. ASSUME NEW i \in 1..Len(as), i # 1
          PROVE  as[i] \in Range(rest)
      <4>1. i - 1 \in 1..Len(rest) /\ rest[i - 1] = as[i]
        BY <2>1, <2>2, <3>1
      <4>. QED
        BY <2>3, <4>1 DEF Range
    <3>. QED
      BY <2>3, <3>1 DEF Range
  <2>6. /\ job'.phase = "request" /\ job'.attempts = rest
        /\ job'.hindered = (job.hindered \/ hindered) /\ job'.want = job.want
        /\ job'.branch = job.branch /\ job'.push = job.push /\ job'.op = job.op
        /\ job'.reviewers = job.reviewers /\ job'.usable = job.usable
        /\ job'.override = job.override
    BY <1>1, <1>3 DEF Job, rest
  <2>7. job' \in Job
    BY <1>1, <1>3, <2>2 DEF Job, Phases, Asking, rest
  <2>8. Sensible(job')
    BY <1>1, <2>4, <2>6 DEF Sensible, Asking
  <2>9. Arrived'
    BY <1>1, <2>6 DEF Arrived, Holds, Carries
  <2>10. Wanted'
    BY <2>6 DEF Wanted, In
  <2>11. ASSUME ~job'.hindered, NEW m \in Eligible \cap job.usable
         PROVE  m \in {MethodOf(a) : a \in Range(rest)}
    <3>1. ~job.hindered /\ m \in works /\ m # MethodOf(Head(as))
      BY <1>1, <2>6, <2>11 DEF Untried, Attempt, Job
    <3>2. PICK a \in Range(as) : m = MethodOf(a)
      BY <1>1, <2>11, <3>1 DEF Untried
    <3>. QED
      BY <2>5, <3>1, <3>2
  <2>12. Untried'
    BY <1>1, <2>6, <2>11 DEF Untried, Eligible
  <2>. QED
    BY <1>1, <2>7, <2>8, <2>9, <2>10, <2>12, SameClone DEF RequestInv
<1>. QED
  BY <1>2, <1>3 DEF FailAttempt

LEMMA EndsAsking ==
  ASSUME RequestInv, job' \in {Idle, Over}, UNCHANGED <<clone, remote, works, edits>>
  PROVE  RequestInv'
<1>1. WellTyped /\ job' \in Job /\ Sensible(job') /\ Wanted' /\ Arrived' /\ Untried'
  BY CallOver DEF RequestInv
<1>. QED
  BY <1>1, SameClone DEF RequestInv

LEMMA AnswerStep ==
  ASSUME RequestInv, Answer
  PROVE  RequestInv'
<1>1. /\ WellTyped /\ Arrived /\ Untried /\ In("request")
      /\ UNCHANGED <<clone, remote, works, edits>> /\ job \in Job /\ Sensible(job)
  BY DEF RequestInv, Answer, bounds, WellTyped
<1>2. CASE ~Accepted /\ FailAttempt(~Acceptable(job.branch))
  BY <1>1, <1>2, FailStep DEF Accepted, In, Asking
<1>3. CASE Return
  BY <1>1, <1>3, EndsAsking DEF Return
<1>4. CASE AsksReviewers /\ Goto("reviewers")
  <2>1. job' = [job EXCEPT !.phase = "reviewers"] /\ job.reviewers
    BY <1>4 DEF Goto, AsksReviewers
  <2>2. /\ job'.phase = "reviewers" /\ job'.want = job.want /\ job'.branch = job.branch
        /\ job'.push = job.push /\ job'.op = job.op /\ job'.reviewers = job.reviewers
        /\ job'.attempts = job.attempts /\ job'.usable = job.usable
        /\ job'.hindered = job.hindered /\ job'.override = job.override
    BY <1>1, <2>1 DEF Job
  <2>3. job' \in Job
    BY <1>1, <2>1 DEF Job, Phases, Asking
  <2>4. Sensible(job')
    BY <1>1, <2>1, <2>2 DEF Sensible, In, Asking
  <2>5. Arrived' /\ Wanted' /\ Untried'
    BY <1>1, <2>2 DEF Arrived, Wanted, Untried, Holds, Carries, Eligible, In, Asking
  <2>. QED
    BY <1>1, <2>3, <2>4, <2>5, SameClone DEF RequestInv
<1>. QED
  BY <1>2, <1>3, <1>4 DEF Answer

LEMMA ReviewersStep ==
  ASSUME RequestInv, AddReviewers
  PROVE  RequestInv'
<1>1. job.phase \in Asking /\ UNCHANGED <<clone, remote, works, edits>>
  BY DEF AddReviewers, host, bounds, In, Asking
<1>2. Return \/ FailAttempt(TRUE)
  BY DEF AddReviewers
<1>. QED
  BY <1>1, <1>2, FailStep, EndsAsking DEF Return

----------------------------------------------------------------------------
(* Faults. *)

LEMMA FaultsStep ==
  ASSUME RequestInv, Faults
  PROVE  RequestInv'
<1>1. WellTyped /\ Wanted /\ Main \in Branches /\ job.branch \in Branches
      /\ job \in Job /\ Sensible(job)
  BY Constants DEF RequestInv, WellTyped, Job
<1>2. CASE GitFails
  <2>1. UNCHANGED <<clone, remote, works, edits>> /\ ~In("idle")
    BY <1>2 DEF GitFails, Fault, GitPhases, In
  <2>2. CASE In("checkout") /\ Goto("branch")
    <3>1. /\ job' \in Job /\ Sensible(job') /\ Arrived' /\ Untried' /\ job'.want = job.want
          /\ job'.paths = job.paths /\ job'.phase = "branch"
      BY <1>1, <2>1, <2>2, CallGoes DEF GitPhases
    <3>2. Wanted'
      BY <1>1, <2>1, <2>2, <3>1 DEF Wanted, In, Carries, Asked, clone
    <3>. QED
      BY <1>1, <2>1, <3>1, <3>2, SameClone DEF RequestInv
  <2>3. CASE Raise
    BY <2>1, <2>3, EndsAsking DEF Raise
  <2>. QED
    BY <1>2, <2>2, <2>3 DEF GitFails
<1>3. CASE GitKilled
  <2>1. /\ job' \in {Idle, Over} /\ UNCHANGED <<works, edits>> /\ job.branch \in Sources
    BY <1>1, <1>3 DEF GitKilled, Raise, Fault, Sensible, GitPhases
  <2>2. CASE UNCHANGED remote
    <3>1. \/ Switch(job.branch) \/ Create(job.branch) \/ Stage \/ Commit \/ UNCHANGED clone
          \/ UNCHANGED <<head, local, index, work>>
      BY <1>3 DEF GitKilled, clone
    <3>. QED
      BY <1>1, <2>1, <2>2, <3>1, GitEnds
  <2>3. CASE Push(job.branch) /\ UNCHANGED clone
    BY <1>1, <2>1, <2>3, GitEnds
  <2>. QED
    BY <1>3, <2>2, <2>3 DEF GitKilled
<1>4. CASE RequestFails
  BY <1>4, FailStep DEF RequestFails, Fault, In, Asking
<1>5. CASE Dies
  BY <1>5, EndsAsking DEF Dies, Fault, Raise
<1>. QED
  BY <1>2, <1>3, <1>4, <1>5 DEF Faults

----------------------------------------------------------------------------
(* People. *)

\* What is edited before it is staged is what the call is to deliver.
LEMMA EditStep ==
  ASSUME RequestInv, NEW f \in Files, Edit(f)
  PROVE  RequestInv'
<1>1. /\ WellTyped /\ Wanted /\ Arrived /\ Untried /\ job \in Job /\ Sensible(job)
      /\ edits \in Nat /\ edits' = edits + 1
      /\ work' = [work EXCEPT ![f] = edits']
      /\ UNCHANGED <<head, local, index, host>>
  BY DEF RequestInv, Edit, WellTyped
<1>2. Tree \subseteq Tree'
  BY <1>1 DEF Tree
<1>3. /\ head' \in Branches /\ index' \in Tree' /\ work' \in Tree'
      /\ local' \in [Branches -> Seq(Tree')] /\ remote' \in [Branches -> Seq(Tree')]
      /\ remote'[Main] # NoBranch
  <2>1. \A s \in Seq(Tree) : s \in Seq(Tree')
    BY <1>2, SeqMonotonic
  <2>2. work' \in Tree'
    BY <1>1 DEF Tree, WellTyped
  <2>. QED
    BY <1>1, <1>2, <2>1, <2>2 DEF WellTyped, host
<1>. DEFINE hit == job.phase \in {"checkout", "branch", "add"} /\ f \in {w[1] : w \in job.want}
            new == {w \in job.want : w[1] # f} \cup {<<f, edits'>>}
<1>4. CASE hit
  <2>1. job' = [job EXCEPT !.want = new]
    BY <1>4 DEF Edit
  <2>2. new \in SUBSET (Files \X Nat)
    <3>1. job.want \in SUBSET (Files \X Nat)
      BY <1>1 DEF Job
    <3>2. edits' \in Nat
      BY <1>1
    <3>3. <<f, edits'>> \in Files \X Nat
      BY <3>2
    <3>. QED
      BY <3>1, <3>3
  <2>3. \A w \in new : (w[1] = f /\ w[2] = edits') \/ (w[1] # f /\ w \in job.want)
    OBVIOUS
  <2>. HIDE DEF new
  <2>4. /\ job' \in Job /\ job'.want = new /\ job'.phase = job.phase /\ job'.paths = job.paths
        /\ job'.op = job.op /\ job'.branch = job.branch /\ job'.push = job.push
        /\ job'.reviewers = job.reviewers /\ job'.attempts = job.attempts
    BY <1>1, <2>1, <2>2 DEF Job
  <2>5. Sensible(job') /\ Arrived' /\ Untried'
    BY <1>1, <1>4, <2>4 DEF Sensible, Arrived, Untried, Asking
  <2>6. WellTyped'
    BY <1>1, <1>3, <2>4, <2>5 DEF WellTyped, host
  <2>7. f \in Asked(job.paths) /\ \A w \in job.want : w[1] \in Asked(job.paths)
    BY <1>1, <1>4 DEF Wanted
  <2>8. \A w \in new : w[1] \in Asked(job.paths) /\ work'[w[1]] = w[2]
    <3>1. work'[f] = edits' /\ \A g \in Files : g # f => work'[g] = work[g]
      BY <1>1 DEF WellTyped, Tree
    <3>2. \A w \in job.want : w[1] \in Files /\ work[w[1]] = w[2]
      BY <1>1, <1>4 DEF Wanted, Carries, Job
    <3>. QED
      BY <2>3, <2>7, <3>1, <3>2
  <2>9. Clean(f)' = FALSE
    <3>1. work'[f] = edits + 1 /\ index[f] \in 0..edits
      BY <1>1 DEF WellTyped, Tree
    <3>2. work'[f] # index[f]
      BY <1>1, <3>1
    <3>. QED
      BY <1>1, <3>2 DEF Clean
  <2>10. ASSUME In("checkout"), NEW w \in new
         PROVE  ~Clean(w[1])'
    <3>1. CASE w[1] = f
      BY <2>9, <3>1 DEF Clean
    <3>2. CASE w[1] # f
      <4>1. ~Clean(w[1]) /\ w[1] \in Files
        BY <1>1, <2>3, <2>10, <3>2 DEF Wanted, Job
      <4>2. work'[w[1]] = work[w[1]]
        BY <1>1, <3>2, <4>1 DEF WellTyped, Tree
      <4>. QED
        BY <1>1, <4>1, <4>2 DEF Clean, Tip
    <3>. QED BY <3>1, <3>2
  <2>11. Wanted'
    <3>1. job'.phase \in {"checkout", "branch", "add"} /\ (job'.phase = "add" => head' = job'.branch)
      BY <1>1, <1>4, <2>4 DEF Wanted
    <3>2. Carries(work)' /\ \A w \in job'.want : w[1] \in Asked(job.paths)'
      BY <1>1, <2>4, <2>8 DEF Carries, Asked
    <3>3. In("checkout")' => \A w \in job'.want : ~Clean(w[1])'
      BY <2>4, <2>10 DEF In
    <3>. QED
      BY <3>1, <3>2, <3>3 DEF Wanted, In
  <2>. QED
    BY <2>5, <2>6, <2>11 DEF RequestInv
<1>5. CASE ~hit
  <2>1. job' = job
    BY <1>5 DEF Edit
  <2>2. WellTyped'
    BY <1>1, <1>3, <2>1 DEF WellTyped, host
  <2>3. Arrived' /\ Untried'
    BY <1>1, <2>1 DEF host, Arrived, Untried, Holds, Carries, Eligible
  <2>4. ASSUME job.phase \in {"checkout", "branch", "add"}, NEW w \in job.want
        PROVE  work'[w[1]] = work[w[1]]
    BY <1>1, <1>5, <2>4 DEF WellTyped, Tree
  <2>5. Wanted'
    BY <1>1, <2>1, <2>4 DEF Wanted, In, Carries, Clean, Tip, Asked
  <2>. QED
    BY <2>2, <2>3, <2>5 DEF RequestInv
<1>. QED BY <1>4, <1>5

\* Whatever happens on the host, what a call has brought there stays, in its branch or,
\* if that was merged and deleted, in main.
LEMMA HostStep ==
  ASSUME RequestInv, UNCHANGED <<clone, job, edits, works>>, NEW b \in Sources,
         Merge(b) \/ Close(b) \/ PushElse(b)
  PROVE  RequestInv'
<1>1. /\ WellTyped /\ Wanted /\ Arrived /\ Untried
      /\ remote \in [Branches -> Seq(Tree)] /\ remote[Main] # <<>>
      /\ Main \in Branches /\ b \in Branches /\ b # Main
  BY Constants DEF RequestInv, WellTyped, NoBranch
<1>2. /\ remote' \in [Branches -> Seq(Tree)] /\ remote'[Main] # <<>>
      /\ \A s \in Sources : Holds(s) \subseteq Holds(s)'
  <2>1. CASE Merge(b)
    <3>1. PICK keep \in BOOLEAN :
            remote' = [remote EXCEPT ![Main] = remote[b], ![b] = IF keep THEN @ ELSE NoBranch]
      BY <2>1 DEF Merge
    <3>2. Range(remote[Main]) \subseteq Range(remote[b]) /\ remote[b] # <<>>
      BY <1>1, <2>1, PrefixRange DEF Merge
    <3>3. <<>> \in Seq(Tree)
      BY EmptySeq
    <3>4. /\ remote' \in [Branches -> Seq(Tree)] /\ remote'[Main] = remote[b]
          /\ remote'[b] = remote[b] \/ remote'[b] = <<>>
          /\ \A s \in Branches \ {b, Main} : remote'[s] = remote[s]
      BY <1>1, <3>1, <3>3 DEF NoBranch
    <3>5. ASSUME NEW s \in Sources
          PROVE  Holds(s) \subseteq Holds(s)'
      <4>1. s \in Branches \ {Main}
        BY Constants
      <4>. QED
        BY <3>2, <3>4, <4>1 DEF Holds, NoBranch
    <3>. QED
      BY <3>2, <3>4, <3>5
  <2>2. CASE Close(b)
    BY <1>1, <2>2 DEF Close, Holds
  <2>3. CASE PushElse(b)
    <3>. DEFINE base == IF remote[b] = NoBranch THEN remote[Main] ELSE remote[b]
                more == Append(base, Last(remote[Main]))
    <3>1. remote' = [remote EXCEPT ![b] = more]
      BY <1>1, <2>3 DEF PushElse
    <3>2. base \in Seq(Tree) /\ Last(remote[Main]) \in Tree
      BY <1>1, LastIsThere
    <3>3. more \in Seq(Tree) /\ more # <<>> /\ Range(base) \subseteq Range(more)
      BY <3>2, AppendRange
    <3>. HIDE DEF more
    <3>4. /\ remote' \in [Branches -> Seq(Tree)] /\ remote'[Main] = remote[Main]
          /\ remote'[b] = more
          /\ \A s \in Branches \ {b, Main} : remote'[s] = remote[s]
      BY <1>1, <3>1, <3>3
    <3>5. ASSUME NEW s \in Sources
          PROVE  Holds(s) \subseteq Holds(s)'
      <4>1. s \in Branches \ {Main}
        BY Constants
      <4>2. CASE s = b
        <5>1. Holds(b) \subseteq Range(base)
          BY NothingThere DEF Holds, NoBranch
        <5>2. Range(more) \subseteq Holds(b)'
          BY <3>4 DEF Holds
        <5>. QED
          BY <3>3, <4>2, <5>1, <5>2
      <4>3. CASE s # b
        BY <3>4, <4>1, <4>3 DEF Holds
      <4>. QED BY <4>2, <4>3
    <3>. QED
      BY <1>1, <3>4, <3>5
  <2>. QED BY <2>1, <2>2, <2>3
<1>3. WellTyped'
  BY <1>1, <1>2 DEF WellTyped, Tree, clone, NoBranch
<1>4. Wanted'
  BY <1>1 DEF Wanted, In, Carries, Clean, Tip, Asked, clone
<1>5. Untried'
  BY <1>1 DEF Untried, Eligible
<1>6. Arrived'
  <2>1. job.phase \in Asking => job.branch \in Sources
    BY <1>1 DEF WellTyped, Sensible, Asking
  <2>. QED
    BY <1>1, <1>2, <2>1 DEF Arrived, Carries
<1>. QED
  BY <1>3, <1>4, <1>5, <1>6 DEF RequestInv

LEMMA PeopleStep ==
  ASSUME RequestInv, People
  PROVE  RequestInv'
<1>1. WellTyped /\ Wanted /\ Arrived /\ Untried /\ job \in Job /\ Sensible(job)
  BY DEF RequestInv, WellTyped
<1>2. ASSUME NEW b \in Branches, GoTo(b)
      PROVE  RequestInv'
  <2>1. /\ In("idle") /\ Switch(b) /\ UNCHANGED <<job, edits, remote, works>>
    BY <1>2 DEF GoTo, Outside, host
  <2>2. /\ head' \in Branches /\ index' \in Tree' /\ work' \in Tree'
        /\ local' \in [Branches -> Seq(Tree')]
    BY <1>1, <2>1, CloneTyped
  <2>3. WellTyped'
    BY <1>1, <2>1, <2>2 DEF WellTyped, Tree
  <2>4. Wanted' /\ Arrived' /\ Untried'
    BY <2>1 DEF Wanted, Arrived, Untried, In, Asking
  <2>. QED
    BY <2>3, <2>4 DEF RequestInv
<1>3. ASSUME NEW b \in Sources, Merge(b) \/ Close(b) \/ PushElse(b)
      PROVE  RequestInv'
  <2>1. UNCHANGED <<clone, job, edits, works>>
    BY <1>3 DEF Merge, Close, PushElse, Outside
  <2>. QED
    BY <1>3, <2>1, HostStep
<1>4. ASSUME NEW m \in Methods, Rotate(m)
      PROVE  RequestInv'
  <2>1. /\ works' \in SUBSET Methods /\ UNCHANGED <<clone, remote, edits>>
        /\ job' = [job EXCEPT !.usable = job.usable \cap works']
    BY <1>1, <1>4 DEF Rotate, WellTyped
  <2>2. /\ job'.usable = job.usable \cap works' /\ job'.want = job.want
        /\ job'.phase = job.phase /\ job'.paths = job.paths
        /\ job'.op = job.op /\ job'.branch = job.branch /\ job'.push = job.push
        /\ job'.reviewers = job.reviewers /\ job'.attempts = job.attempts
        /\ job'.hindered = job.hindered /\ job'.override = job.override
    BY <1>1, <2>1 DEF Job
  <2>3. job' \in Job /\ Sensible(job')
    BY <1>1, <2>1, <2>2 DEF Job, Sensible
  <2>4. WellTyped'
    BY <1>1, <2>1, <2>3 DEF WellTyped, Tree, clone
  <2>5. Wanted'
    BY <1>1, <2>1, <2>2 DEF Wanted, In, Carries, Clean, Tip, Asked, clone
  <2>6. Arrived'
    BY <1>1, <2>1, <2>2 DEF Arrived, Holds, Carries
  <2>7. Untried'
    BY <1>1, <2>2 DEF Untried, Eligible
  <2>. QED
    BY <2>4, <2>5, <2>6, <2>7 DEF RequestInv
<1>. QED
  BY <1>2, <1>3, <1>4, EditStep DEF People

----------------------------------------------------------------------------
(* The theorems. *)

LEMMA InitRequest == Init => RequestInv
<1>. SUFFICES ASSUME Init PROVE RequestInv
  OBVIOUS
<1>1. edits = 1 /\ index \in Tree /\ work \in Tree
  <2>1. edits = 1
    BY DEF Init
  <2>2. index = [f \in Files |-> IF f \in Tracked THEN 1 ELSE 0]
    BY DEF Init, Absent
  <2>3. work \in [Files -> {0, 1}]
    BY DEF Init, Absent
  <2>4. 0 \in 0..1 /\ 1 \in 0..1
    OBVIOUS
  <2>. QED
    BY <2>1, <2>2, <2>3, <2>4 DEF Tree
<1>2. <<index>> \in Seq(Tree) /\ <<index>> # <<>> /\ <<>> \in Seq(Tree)
  BY <1>1, OneThing, EmptySeq
<1>3. /\ local \in [Branches -> Seq(Tree)] /\ remote \in [Branches -> Seq(Tree)]
      /\ remote[Main] # NoBranch
  BY <1>2, Constants DEF Init, NoBranch
<1>4. Idle \in Job /\ Sensible(Idle) /\ Idle.phase = "idle"
  BY Constants DEF Idle, Job, Sensible, Phases, Asking
<1>5. works \in SUBSET Methods /\ head \in Branches
  BY PullRequestAssumption, Constants DEF Init, Methods
<1>6. WellTyped
  <2>1. edits \in Nat
    BY <1>1
  <2>2. job \in Job /\ Sensible(job)
    BY <1>4 DEF Init
  <2>. QED
    BY <1>1, <1>3, <1>5, <2>1, <2>2 DEF WellTyped
<1>7. Wanted /\ Arrived /\ Untried
  BY <1>4 DEF Init, Wanted, Arrived, Untried, In, Asking
<1>. QED
  BY <1>6, <1>7 DEF RequestInv

LEMMA StepRequest ==
  ASSUME RequestInv, [Next]_vars
  PROVE  RequestInv'
<1>1. CASE Calls
  <2>1. \A paths \in Paths : paths \in SUBSET Files
    BY PullRequestAssumption
  <2>2. \A override \in Overrides : override \in {"", "cli", "api"}
    BY PullRequestAssumption
  <2>. QED
    BY <1>1, <2>1, <2>2, StartStep, AskStep DEF Calls
<1>2. CASE Retry
  <2>1. /\ job.branch \in Sources /\ job.push \in BOOLEAN /\ job.paths \in SUBSET Files
        /\ job.override \in {"", "cli", "api"}
        /\ CreateUpdatePr(job.branch, job.push, job.paths, job.override)
    BY <1>2 DEF Retry, RequestInv, WellTyped, Sensible, Job
  <2>. QED
    BY <2>1, StartStep
<1>3. CASE Command
  BY <1>3, CheckoutStep, BranchStep, AddStep, StatusStep, CommitStep, PushStep, AnswerStep,
     ReviewersStep DEF Command
<1>4. CASE UNCHANGED vars
  BY <1>4 DEF vars, clone, host, bounds, RequestInv, WellTyped, Tree, Wanted, Arrived, Untried,
              In, Carries, Clean, Tip, Asked, Holds, Eligible
<1>. QED
  BY <1>1, <1>2, <1>3, <1>4, FaultsStep, PeopleStep DEF Next

LEMMA SpecRequest == Spec => []RequestInv
  BY InitRequest, StepRequest, PTL DEF Spec

\* Calls, branches, commits and attempts keep their types.
THEOREM PullRequestTypes == Spec => []WellTyped
<1>1. RequestInv => WellTyped
  BY DEF RequestInv
<1>. QED
  BY <1>1, SpecRequest, PTL

\* Only an answer or a failed attempt ends a request, and what fails does not return.
LEMMA FailedAttempt ==
  ASSUME job \in Job, NEW hindered, FailAttempt(hindered)
  PROVE  \/ job'.phase = "request"
         \/ last' = "raised" /\ Len(job.attempts) = 1
BY DEF FailAttempt, Raise, Job

LEMMA EndOfAsking ==
  ASSUME RequestInv, Next, job.phase \in Asking, job'.phase = "idle"
  PROVE  \/ Answer /\ Accepted /\ Return /\ open' = open \cup {job.branch}
         \/ Answer /\ ~Accepted /\ FailAttempt(~Acceptable(job.branch))
         \/ AddReviewers
         \/ faults' = faults + 1 /\ faults < MaxFaults /\ last' = "raised"
<1>1. job \in Job /\ job'.phase # "request" /\ job'.phase # "reviewers"
  BY DEF RequestInv, WellTyped
<1>2. ~In("idle") /\ job.phase \notin GitPhases
  BY DEF In, Asking, GitPhases
<1>3. ~Calls /\ ~Retry
  BY <1>2 DEF Calls, Retry, CreateUpdatePr, CreatePullRequest
<1>4. ~Checkout /\ ~CheckoutNew /\ ~Add /\ ~Status /\ ~CommitStaged /\ ~PushBranch
  BY <1>2 DEF Checkout, CheckoutNew, Add, Status, CommitStaged, PushBranch, In, GitPhases
<1>5. CASE Answer
  <2>1. ~Goto("reviewers")
    BY <1>1 DEF Goto, Job
  <2>. QED
    BY <1>5, <2>1 DEF Answer
<1>6. CASE Faults
  <2>1. ~GitFails /\ ~GitKilled
    BY <1>2 DEF GitFails, GitKilled
  <2>2. CASE RequestFails
    BY <1>1, <2>2, FailedAttempt DEF RequestFails, Fault
  <2>3. CASE Dies
    BY <2>3 DEF Dies, Fault, Raise
  <2>. QED
    BY <1>6, <2>1, <2>2, <2>3 DEF Faults
<1>7. ~People
  <2>1. ASSUME NEW f \in Files, Edit(f)
        PROVE  FALSE
    <3>1. job'.phase = job.phase
      BY <1>1, <2>1 DEF Edit, Job
    <3>. QED
      BY <1>2, <3>1 DEF In
  <2>2. ASSUME NEW b \in Branches, GoTo(b)
        PROVE  FALSE
    BY <1>2, <2>2 DEF GoTo
  <2>3. ASSUME NEW b \in Sources, Merge(b) \/ Close(b) \/ PushElse(b)
        PROVE  FALSE
    <3>1. job' = job
      BY <2>3 DEF Merge, Close, PushElse, Outside
    <3>. QED
      BY <1>2, <3>1 DEF In
  <2>4. ASSUME NEW m \in Methods, Rotate(m)
        PROVE  FALSE
    <3>1. job'.phase = job.phase
      BY <1>1, <2>4 DEF Rotate, Job
    <3>. QED
      BY <1>2, <3>1 DEF In
  <2>. QED
    BY <2>1, <2>2, <2>3, <2>4 DEF People
<1>. QED
  BY <1>3, <1>4, <1>5, <1>6, <1>7 DEF Next, Command

\* What the host accepts a request for is there: the branch has commits, so
\* it holds what the call brought.
LEMMA AckedStep ==
  ASSUME RequestInv, Next, Returned, job.push
  PROVE  /\ job.branch \in open'
         /\ \E c \in Range(remote'[job.branch]) : \A w \in job.want : c[w[1]] = w[2]
<1>1. /\ WellTyped /\ Arrived /\ job \in Job /\ Sensible(job) /\ job.phase \in Asking
      /\ job'.phase = "idle" /\ last' = "returned" /\ job.branch \in Sources
  BY DEF RequestInv, WellTyped, Returned, Asking, Sensible
<1>2. ~AddReviewers
  BY <1>1 DEF AddReviewers, Sensible, In
<1>3. ~(Answer /\ ~Accepted /\ FailAttempt(~Acceptable(job.branch)))
  BY <1>1, FailedAttempt
<1>4. /\ Accepted /\ open' = open \cup {job.branch} /\ UNCHANGED remote
  BY <1>1, <1>2, <1>3, EndOfAsking DEF Answer
<1>5. remote[job.branch] # NoBranch
  <2>1. ~IsPrefix(remote[job.branch], remote[Main])
    BY <1>4 DEF Accepted, Acceptable
  <2>2. remote[Main] \in Seq(Tree)
    BY <1>1, Constants DEF WellTyped
  <2>3. IsPrefix(<<>>, remote[Main])
    BY <2>2, EmptyIsPrefix
  <2>. QED
    BY <2>1, <2>3 DEF NoBranch
<1>6. \E c \in Range(remote[job.branch]) : Carries(c)
  BY <1>1, <1>5 DEF Arrived, Holds
<1>. QED
  BY <1>4, <1>6 DEF Carries

\* When the last attempt fails, every method the call may use has been passed over.
LEMMA GiveUpStep ==
  ASSUME RequestInv, Next, In("request"), job'.phase = "idle", last' = "raised",
         faults' = faults, ~job.hindered, Acceptable(job.branch), faults \in Nat
  PROVE  Eligible \cap job.usable = {}
<1>1. WellTyped /\ Untried /\ job \in Job /\ Sensible(job) /\ job.phase \in Asking
  BY DEF RequestInv, WellTyped, In, Asking
<1>2. ~AddReviewers
  BY DEF AddReviewers, In
<1>3. ~Accepted /\ FailAttempt(~Acceptable(job.branch))
  BY <1>1, <1>2, EndOfAsking DEF Return
<1>4. Len(job.attempts) = 1
  BY <1>1, <1>3, FailedAttempt
<1>5. Range(job.attempts) = {Attempt}
  <2>1. job.attempts \in Seq(Attempts) /\ job.attempts # <<>>
    BY <1>1 DEF Job, Sensible
  <2>2. DOMAIN job.attempts = {1} /\ job.attempts[1] = Head(job.attempts)
    BY <1>4, <2>1, LenProperties
  <2>. QED
    BY <2>2 DEF Range, Attempt
<1>6. MethodOf(Attempt) \notin job.usable
  BY <1>1, <1>3 DEF Accepted, Untried
<1>7. Eligible \cap job.usable \subseteq {MethodOf(a) : a \in Range(job.attempts)}
  BY <1>1 DEF Untried
<1>. QED
  BY <1>5, <1>6, <1>7

\* A call that was told to push and returned has opened a request whose branch
\* holds every change it found, as it stood when it was staged, whatever
\* happened to the clone and the host meanwhile (create_update_pr).
THEOREM AckedRequestsCarryChange == Spec => AckedCarriesChange
<1>1. RequestInv /\ [Next]_vars =>
        [Returned /\ job.push =>
           /\ job.branch \in open'
           /\ \E c \in Range(remote'[job.branch]) : \A w \in job.want : c[w[1]] = w[2]]_vars
  BY AckedStep
<1>. QED
  BY <1>1, SpecRequest, PTL DEF Spec, AckedCarriesChange

Counted == faults \in Nat

LEMMA CountsFaults == Spec => []Counted
<1>1. Init => Counted
  BY SmallNumbers DEF Init, Counted
<1>2. Counted /\ [Next]_vars => Counted'
  <2>. SUFFICES ASSUME faults \in Nat, [Next]_vars PROVE faults' \in Nat
    BY DEF Counted
  <2>1. faults' = faults \/ faults' = faults + 1
    <3>1. CASE Calls \/ Retry
      BY <3>1 DEF Calls, Retry, CreateUpdatePr, CreatePullRequest, NotClone, bounds
    <3>2. CASE Command
      BY <3>2 DEF Command, Checkout, CheckoutNew, Add, Status, CommitStaged, PushBranch,
                  Answer, AddReviewers, NotClone, bounds
    <3>3. CASE Faults
      BY <3>3 DEF Faults, GitFails, GitKilled, RequestFails, Dies, Fault
    <3>4. CASE People
      BY <3>4 DEF People, Edit, GoTo, Merge, Close, PushElse, Rotate, Outside
    <3>5. CASE UNCHANGED vars
      BY <3>5 DEF vars, bounds
    <3>. QED
      BY <3>1, <3>2, <3>3, <3>4, <3>5 DEF Next
  <2>. QED
    BY <2>1, SmallNumbers
<1>. QED
  BY <1>1, <1>2, PTL DEF Spec

\* A request is given up only if the host refused or lost one, or none of the
\* methods the call may use worked all along (create_pull_request of both
\* providers).
THEOREM MethodsAreExhausted == Spec => GivesUpLast
<1>1. RequestInv /\ Counted /\ [Next]_vars =>
        [In("request") /\ job'.phase = "idle" /\ last' = "raised" /\ faults' = faults
         => \/ job.hindered \/ ~Acceptable(job.branch)
            \/ Eligible \cap job.usable = {}]_vars
  BY GiveUpStep DEF Counted
<1>. QED
  BY <1>1, SpecRequest, CountsFaults, PTL DEF Spec, GivesUpLast
=============================================================================

------------------------ MODULE HistoryLedgerProofs ------------------------
(***************************************************************************)
(* Proofs about HistoryLedger, for any number of writers, records and ids. *)
(*                                                                         *)
(* The inductive invariant says what a writer knows at each step of its    *)
(* put: a linked temporary file is complete, and from the comparison (or   *)
(* the won link) on, the path holds the writer's own record, because       *)
(* nothing but an outside edit changes a published path.                   *)
(***************************************************************************)
EXTENDS HistoryLedger, TLAPS

\* The writer has seen its own record under the canonical name.
Landed(w) ==
  \/ proc[w].phase \in {"reread", "verify"}
  \/ proc[w].phase \in {"open", "write", "link"} /\ proc[w].target = "seal"

WriterInv(w) ==
  proc[w] # Idle =>
    /\ proc[w].phase \in {"scan", "slot"} =>
         proc[w].record \in Releases /\ proc[w].listed \subseteq ReleaseIds
    /\ proc[w].phase \in {"scan", "slot", "check", "compare"} =>
         proc[w].target = "artifact"
    /\ proc[w].phase = "link" =>
         temp[w] = IF proc[w].target = "seal" THEN proc[w].raw ELSE proc[w].record
    /\ Landed(w) /\ Target(w) \notin tampered =>
         artifact[Target(w)] = proc[w].record
    /\ Landed(w) /\ proc[w].phase # "reread" /\ Target(w) \notin tampered =>
         proc[w].raw = proc[w].record
    /\ proc[w].phase = "verify" => seal[Target(w)] # NoFile

IInv ==
  /\ TypeOK
  /\ \A w \in Writers : WriterInv(w)
  /\ NothingTorn
  /\ AckedDurable
  /\ RefusalJustified

----------------------------------------------------------------------------
(* Type correctness.                                                       *)

\* A writer at a phase other than "idle" is executing a put.
LEMMA ActivePut ==
  ASSUME TypeOK, NEW w \in Writers, proc[w].phase # "idle"
  PROVE  proc[w] \in Put /\ Target(w) \in Ids
<1>1. proc[w] \in Put
  BY DEF TypeOK, Idle
<1>. QED  BY <1>1, LedgerAssumption DEF Put, Target

LEMMA TypeInit == Init => TypeOK
BY LedgerAssumption DEF Init, TypeOK, Text

LEMMA TypeStep == TypeOK /\ [Next]_vars => TypeOK'
<1>. SUFFICES ASSUME TypeOK, [Next]_vars PROVE TypeOK'
  OBVIOUS
<1>1. ASSUME NEW w \in Writers, NEW r \in Records, BeginPut(w, r)
      PROVE  TypeOK'
  BY <1>1, LedgerAssumption DEF BeginPut, TypeOK, Put, Phases, Text, files, history
<1>2. ASSUME NEW w \in Writers, ScanReleases(w)
      PROVE  TypeOK'
  <2>1. proc[w] \in Put
    BY <1>2, ActivePut DEF ScanReleases, In
  <2>2. {i \in ReleaseIds : artifact[i] # NoFile} \in SUBSET Ids
    BY LedgerAssumption DEF ReleaseIds
  <2>3. proc'[w] \in Put
    BY <1>2, <2>1, <2>2 DEF ScanReleases, TypeOK, Put, Phases
  <2>. QED
    BY <1>2, <2>3 DEF ScanReleases, TypeOK, files, history
<1>3. ASSUME NEW w \in Writers, CheckSlot(w)
      PROVE  TypeOK'
  <2>1. proc[w] \in Put
    BY <1>3, ActivePut DEF CheckSlot, In
  <2>. QED
    BY <1>3, <2>1
    DEF CheckSlot, RaiseCorruption, RaiseConflict, TypeOK, Put, Phases, files, history
<1>4. ASSUME NEW w \in Writers, CheckExists(w)
      PROVE  TypeOK'
  <2>1. proc[w] \in Put
    BY <1>4, ActivePut DEF CheckExists, In
  <2>. QED
    BY <1>4, <2>1 DEF CheckExists, Goto, TypeOK, Put, Phases, files, history
<1>5. ASSUME NEW w \in Writers, CompareExisting(w)
      PROVE  TypeOK'
  <2>1. proc[w] \in Put
    BY <1>5, ActivePut DEF CompareExisting, In
  <2>. QED
    BY <1>5, <2>1
    DEF CompareExisting, RaiseCorruption, RaiseConflict, Goto, TypeOK, Put,
        Phases, files, history
<1>6. ASSUME NEW w \in Writers, OpenTemp(w)
      PROVE  TypeOK'
  <2>1. proc[w] \in Put
    BY <1>6, ActivePut DEF OpenTemp, In
  <2>. QED
    BY <1>6, <2>1 DEF OpenTemp, Goto, TypeOK, Put, Phases, Text, history
<1>7. ASSUME NEW w \in Writers, WriteTemp(w)
      PROVE  TypeOK'
  <2>1. proc[w] \in Put
    BY <1>7, ActivePut DEF WriteTemp, In
  <2>. QED
    BY <1>7, <2>1 DEF WriteTemp, Goto, TypeOK, Put, Phases, Text, history
<1>8. ASSUME NEW w \in Writers, LinkArtifact(w)
      PROVE  TypeOK'
  <2>1. proc[w] \in Put
    BY <1>8, ActivePut DEF LinkArtifact, In
  <2>. QED
    BY <1>8, <2>1 DEF LinkArtifact, CreateOnly, Goto, TypeOK, Put, Phases, history
<1>9. ASSUME NEW w \in Writers, RereadArtifact(w)
      PROVE  TypeOK'
  <2>1. proc[w] \in Put /\ Target(w) \in Ids
    BY <1>9, ActivePut DEF RereadArtifact, In
  <2>2. artifact[Target(w)] \in Text \cup {NoFile}
    BY <2>1 DEF TypeOK
  <2>3. PICK p \in {"open", "verify"} :
          proc' = [proc EXCEPT ![w].raw = artifact[Target(w)],
                               ![w].target = "seal", ![w].phase = p]
    BY <1>9 DEF RereadArtifact
  <2>4. proc'[w] \in Put
    BY <2>1, <2>2, <2>3 DEF TypeOK, Put, Phases
  <2>5. proc' \in [Writers -> Put \cup {Idle}]
    BY <2>3, <2>4 DEF TypeOK
  <2>. QED
    BY <1>9, <2>5 DEF RereadArtifact, TypeOK, files, history
<1>10. ASSUME NEW w \in Writers, LinkSeal(w)
       PROVE  TypeOK'
  <2>1. proc[w] \in Put
    BY <1>10, ActivePut DEF LinkSeal, In
  <2>2. /\ artifact' \in [Ids -> Text \cup {NoFile}]
        /\ seal' \in [Ids -> Text \cup {NoFile}]
        /\ temp' \in [Writers -> Text \cup {NoFile}]
    BY <1>10 DEF LinkSeal, CreateOnly, TypeOK
  <2>3. CASE Return(w)
    BY <2>1, <2>2, <2>3 DEF Return, TypeOK, Put
  <2>4. CASE Goto(w, "verify") /\ UNCHANGED history
    BY <2>1, <2>2, <2>4 DEF Goto, TypeOK, Put, Phases, history
  <2>. QED
    BY <1>10, <2>3, <2>4 DEF LinkSeal
<1>11. ASSUME NEW w \in Writers, VerifySeal(w)
       PROVE  TypeOK'
  <2>1. proc[w] \in Put
    BY <1>11, ActivePut DEF VerifySeal, In
  <2>. QED
    BY <1>11, <2>1
    DEF VerifySeal, Return, RaiseCorruption, TypeOK, Put, Phases, files, history
<1>12. ASSUME NEW w \in Writers, Crash(w)
       PROVE  TypeOK'
  <2>1. Target(w) \in Ids
    BY <1>12, ActivePut DEF Crash, In
  <2>. QED
    BY <1>12, <2>1 DEF Crash, TypeOK
<1>13. ASSUME NEW i \in Ids, Tamper(i)
       PROVE  TypeOK'
  BY <1>13 DEF Tamper, EditedText, TypeOK, Text
<1>14. CASE UNCHANGED vars
  BY <1>14 DEF vars, TypeOK
<1>. QED
  BY <1>1, <1>2, <1>3, <1>4, <1>5, <1>6, <1>7, <1>8, <1>9, <1>10, <1>11, <1>12,
     <1>13, <1>14 DEF Next, Step

\* Every variable keeps its type: in particular a writer is either idle or
\* executes a put it has a record, an id and a target for.
THEOREM TypeCorrect == Spec => []TypeOK
BY TypeInit, TypeStep, PTL DEF Spec

----------------------------------------------------------------------------
(* No step rewrites or removes a published file.                           *)

Grows ==
  /\ tampered \subseteq tampered'
  /\ \A i \in Ids \ (tampered' \ tampered) :
       /\ artifact[i] # NoFile => artifact'[i] = artifact[i]
       /\ seal[i] # NoFile => seal'[i] = seal[i]
  /\ \A i \in Ids : /\ artifact[i] # NoFile => artifact'[i] # NoFile
                    /\ seal[i] # NoFile => seal'[i] # NoFile

LEMMA StepGrows == TypeOK /\ [Next]_vars => Grows
<1>. SUFFICES ASSUME TypeOK, [Next]_vars PROVE Grows
  OBVIOUS
<1>1. ASSUME NEW w \in Writers, LinkArtifact(w)
      PROVE  Grows
  BY <1>1 DEF LinkArtifact, CreateOnly, Grows, TypeOK, history
<1>2. ASSUME NEW w \in Writers, LinkSeal(w)
      PROVE  Grows
  BY <1>2 DEF LinkSeal, CreateOnly, Return, Grows, TypeOK, history
<1>3. ASSUME NEW i \in Ids, Tamper(i)
      PROVE  Grows
  BY <1>3, LedgerAssumption DEF Tamper, EditedText, Grows, TypeOK
<1>4. ASSUME UNCHANGED <<artifact, seal, tampered>>
      PROVE  Grows
  BY <1>4 DEF Grows
<1>5. ASSUME NEW w \in Writers,
             \/ ScanReleases(w) \/ CheckSlot(w) \/ CheckExists(w)
             \/ CompareExisting(w) \/ RereadArtifact(w) \/ VerifySeal(w)
      PROVE  UNCHANGED <<artifact, seal, tampered>>
  BY <1>5
  DEF ScanReleases, CheckSlot, CheckExists, CompareExisting, RereadArtifact,
      VerifySeal, Return, RaiseConflict, RaiseCorruption, files, history
<1>6. ASSUME NEW w \in Writers,
             \/ OpenTemp(w) \/ WriteTemp(w) \/ Crash(w)
             \/ \E r \in Records : BeginPut(w, r)
      PROVE  UNCHANGED <<artifact, seal, tampered>>
  BY <1>6 DEF OpenTemp, WriteTemp, Crash, BeginPut, files, history
<1>7. CASE UNCHANGED vars
  BY <1>4, <1>7 DEF vars
<1>. QED
  BY <1>1, <1>2, <1>3, <1>4, <1>5, <1>6, <1>7 DEF Next, Step

\* No retry, lost race or conflicting put replaces an artifact or a sidecar
\* that nothing outside SemaPact edited.
THEOREM PublishedFilesImmutable == Spec => FilesImmutable
<1>1. TypeOK /\ [Next]_vars =>
        [\A i \in Ids : i \notin tampered' =>
           /\ artifact[i] # NoFile => artifact'[i] = artifact[i]
           /\ seal[i] # NoFile => seal'[i] = seal[i]]_<<artifact, seal>>
  BY StepGrows DEF Grows
<1>. QED
  BY <1>1, TypeCorrect, PTL DEF Spec, FilesImmutable

----------------------------------------------------------------------------
(* The inductive invariant.                                                *)

LEMMA IInvInit == Init => IInv
<1>. SUFFICES ASSUME Init PROVE IInv
  OBVIOUS
<1>1. \A w \in Writers : WriterInv(w)
  BY DEF Init, WriterInv
<1>2. NothingTorn /\ AckedDurable /\ RefusalJustified
  BY DEF Init, NothingTorn, AckedDurable, RefusalJustified
<1>. QED
  BY <1>1, <1>2, TypeInit DEF IInv

\* What the history recorded before a step that only adds files stays true.
LEMMA OldHistory ==
  ASSUME IInv, Grows
  PROVE  /\ \A r \in acked : IdOf[r] \notin tampered' =>
              artifact'[IdOf[r]] = r /\ seal'[IdOf[r]] = r
         /\ \A r \in refused : \E s \in Records :
              /\ Promise!Compete(r, s)
              /\ artifact'[IdOf[s]] = s \/ IdOf[s] \in tampered'
<1>1. \A r \in Records : IdOf[r] \in Ids /\ r # NoFile
  BY LedgerAssumption
<1>2. ASSUME NEW r \in acked, IdOf[r] \notin tampered'
      PROVE  artifact'[IdOf[r]] = r /\ seal'[IdOf[r]] = r
  BY <1>1, <1>2 DEF IInv, TypeOK, AckedDurable, Grows
<1>3. ASSUME NEW r \in refused
      PROVE  \E s \in Records :
               /\ Promise!Compete(r, s)
               /\ artifact'[IdOf[s]] = s \/ IdOf[s] \in tampered'
  <2>1. PICK s \in Records : /\ Promise!Compete(r, s)
                             /\ artifact[IdOf[s]] = s \/ IdOf[s] \in tampered
    BY <1>3 DEF IInv, RefusalJustified
  <2>. QED
    BY <1>1, <2>1 DEF Grows
<1>. QED
  BY <1>2, <1>3

\* A writer that does not move keeps its invariant.
LEMMA Bystander ==
  ASSUME IInv, Grows, NEW v \in Writers, proc'[v] = proc[v], temp'[v] = temp[v]
  PROVE  WriterInv(v)'
<1>. SUFFICES ASSUME proc[v] # Idle PROVE WriterInv(v)'
  BY DEF WriterInv
<1>1. /\ proc[v] \in Put
      /\ Target(v) \in Ids
      /\ proc[v].record # NoFile
  BY ActivePut, LedgerAssumption DEF IInv, TypeOK, Put, Target
<1>2. Landed(v)' = Landed(v) /\ Target(v)' = Target(v)
  BY DEF Landed, Target
<1>3. WriterInv(v)
  BY DEF IInv
<1>. QED
  BY <1>1, <1>2, <1>3 DEF WriterInv, Grows

\* What a step of writer w has to establish, everything else being framed.
LEMMA Framed ==
  ASSUME IInv, TypeOK', Grows, NEW w \in Writers, WriterInv(w)', NothingTorn',
         \A v \in Writers \ {w} : proc'[v] = proc[v] /\ temp'[v] = temp[v],
         \A r \in acked' \ acked : IdOf[r] \notin tampered' =>
           artifact'[IdOf[r]] = r /\ seal'[IdOf[r]] = r,
         \A r \in refused' \ refused : \E s \in Records :
           /\ Promise!Compete(r, s)
           /\ artifact'[IdOf[s]] = s \/ IdOf[s] \in tampered'
  PROVE  IInv'
<1>1. \A v \in Writers : WriterInv(v)'
  BY Bystander
<1>2. AckedDurable' /\ RefusalJustified'
  BY OldHistory DEF AckedDurable, RefusalJustified
<1>. QED
  BY <1>1, <1>2 DEF IInv

\* The sidecar and the artifact of an unedited id, once both are there, agree.
LEMMA SealedRecord ==
  ASSUME IInv, NEW i \in Ids \ tampered
  PROVE  /\ artifact[i] # NoFile => artifact[i] \in Records /\ IdOf[artifact[i]] = i
         /\ seal[i] # NoFile => seal[i] = artifact[i]
BY DEF IInv, NothingTorn

LEMMA QuietTorn ==
  ASSUME IInv, UNCHANGED <<artifact, seal, tampered>>
  PROVE  NothingTorn'
BY DEF IInv, NothingTorn

LEMMA IInvStep == IInv /\ [Next]_vars => IInv'
<1>. SUFFICES ASSUME IInv, [Next]_vars PROVE IInv'
  OBVIOUS
<1>. TypeOK /\ TypeOK' /\ Grows
  BY TypeStep, StepGrows DEF IInv
<1>1. ASSUME NEW w \in Writers, NEW r \in Records, BeginPut(w, r)
      PROVE  IInv'
  <2>1. proc'[w] = [phase |-> IF r \in Releases THEN "scan" ELSE "check",
                    record |-> r, listed |-> {}, target |-> "artifact",
                    raw |-> NoFile]
    BY <1>1 DEF BeginPut, TypeOK
  <2>2. WriterInv(w)'
    BY <2>1 DEF WriterInv, Landed
  <2>. QED
    BY <1>1, <2>2, QuietTorn, Framed DEF BeginPut, files, history, TypeOK
<1>2. ASSUME NEW w \in Writers, ScanReleases(w)
      PROVE  IInv'
  <2>1. proc[w] \in Put /\ WriterInv(w) /\ proc[w] # Idle
    BY <1>2, ActivePut DEF ScanReleases, In, IInv, Idle
  <2>2. /\ proc'[w].phase = "slot" /\ proc'[w].record = proc[w].record
        /\ proc'[w].listed \subseteq ReleaseIds
    BY <1>2, <2>1 DEF ScanReleases, TypeOK, Put
  <2>3. WriterInv(w)'
    <3>1. proc[w].record \in Releases /\ proc[w].target = "artifact"
      BY <1>2, <2>1 DEF WriterInv, ScanReleases, In
    <3>2. proc'[w].target = proc[w].target
      BY <1>2, <2>1 DEF ScanReleases, TypeOK, Put
    <3>. QED
      BY <2>2, <3>1, <3>2 DEF WriterInv, Landed
  <2>4. UNCHANGED <<artifact, seal, temp, acked, refused, tampered>>
    BY <1>2 DEF ScanReleases, files, history
  <2>5. \A v \in Writers \ {w} : proc'[v] = proc[v]
    BY <1>2 DEF ScanReleases, TypeOK
  <2>. QED
    BY <2>3, <2>4, <2>5, QuietTorn, Framed
<1>3. ASSUME NEW w \in Writers, CheckSlot(w)
      PROVE  IInv'
  <2>1. proc[w] \in Put /\ WriterInv(w) /\ proc[w] # Idle
    BY <1>3, ActivePut DEF CheckSlot, In, IInv, Idle
  <2>2. UNCHANGED <<artifact, seal, tampered>>
    BY <1>3 DEF CheckSlot, RaiseCorruption, RaiseConflict, files, history
  <2>3. WriterInv(w)'
    <3>1. CASE proc' = [proc EXCEPT ![w] = Idle]
      BY <3>1 DEF WriterInv, TypeOK
    <3>2. CASE proc' = [proc EXCEPT ![w].phase = "check", ![w].listed = {}]
      <4>1. proc'[w].phase = "check" /\ proc'[w].target = proc[w].target
        BY <2>1, <3>2 DEF TypeOK, Put
      <4>2. proc[w].target = "artifact"
        BY <1>3, <2>1 DEF WriterInv, CheckSlot, In
      <4>. QED
        BY <4>1, <4>2 DEF WriterInv, Landed
    <3>. QED
      BY <1>3, <3>1, <3>2 DEF CheckSlot, RaiseCorruption, RaiseConflict
  <2>4. ASSUME RaiseConflict(w), \A i \in proc[w].listed : Readable(i), SlotTaken(w)
        PROVE  \E s \in Records : /\ Promise!Compete(proc[w].record, s)
                                  /\ artifact[IdOf[s]] = s
    <3>1. PICK i \in proc[w].listed :
            i # Target(w) /\ SlotOf[artifact[i]] = SlotOf[proc[w].record]
      BY <2>4 DEF SlotTaken
    <3>2. artifact[i] \in Records /\ IdOf[artifact[i]] = i
      BY <2>4, <3>1 DEF Readable
    <3>3. proc[w].record \in Releases /\ i \in ReleaseIds
      BY <1>3, <2>1, <3>1 DEF WriterInv, CheckSlot, In
    <3>4. artifact[i] \in Releases
      BY <3>2, <3>3, ReleaseIdentity DEF ReleaseIds
    <3>. QED
      BY <3>1, <3>2, <3>3, <3>4 DEF Promise!Compete, Target
  <2>5. /\ acked' = acked
        /\ \A r \in refused' \ refused : \E s \in Records :
             Promise!Compete(r, s) /\ artifact'[IdOf[s]] = s
    BY <1>3, <2>2, <2>4 DEF CheckSlot, RaiseCorruption, RaiseConflict, history
  <2>6. \A v \in Writers \ {w} : proc'[v] = proc[v] /\ temp'[v] = temp[v]
    BY <1>3 DEF CheckSlot, RaiseCorruption, RaiseConflict, TypeOK, files
  <2>. QED
    BY <2>2, <2>3, <2>5, <2>6, QuietTorn, Framed
<1>4. ASSUME NEW w \in Writers, CheckExists(w)
      PROVE  IInv'
  <2>1. proc[w] \in Put /\ WriterInv(w) /\ proc[w] # Idle
    BY <1>4, ActivePut DEF CheckExists, In, IInv, Idle
  <2>2. PICK p \in {"open", "compare"} : proc' = [proc EXCEPT ![w].phase = p]
    BY <1>4 DEF CheckExists, Goto
  <2>3. WriterInv(w)'
    BY <1>4, <2>1, <2>2 DEF CheckExists, In, WriterInv, Landed, TypeOK, Put
  <2>. QED
    BY <1>4, <2>2, <2>3, QuietTorn, Framed DEF CheckExists, files, history, TypeOK
<1>5. ASSUME NEW w \in Writers, CompareExisting(w)
      PROVE  IInv'
  <2>1. /\ proc[w] \in Put /\ WriterInv(w) /\ proc[w] # Idle
        /\ Target(w) \in Ids
    BY <1>5, ActivePut DEF CompareExisting, In, IInv, Idle
  <2>2. UNCHANGED <<artifact, seal, temp, tampered, acked>>
    BY <1>5 DEF CompareExisting, RaiseCorruption, RaiseConflict, files, history
  <2>3. WriterInv(w)'
    BY <1>5, <2>1, <2>2
    DEF CompareExisting, RaiseCorruption, RaiseConflict, Goto, WriterInv, Landed,
        Target, TypeOK, Put, Idle
  <2>4. ASSUME RaiseConflict(w), Readable(Target(w)),
               artifact[Target(w)] # proc[w].record
        PROVE  \E s \in Records : /\ Promise!Compete(proc[w].record, s)
                                  /\ artifact[IdOf[s]] = s
    BY <2>4 DEF Readable, Promise!Compete, Target
  <2>5. \A r \in refused' \ refused : \E s \in Records :
          Promise!Compete(r, s) /\ artifact'[IdOf[s]] = s
    BY <1>5, <2>2, <2>4 DEF CompareExisting, RaiseCorruption, RaiseConflict, history
  <2>6. \A v \in Writers \ {w} : proc'[v] = proc[v] /\ temp'[v] = temp[v]
    BY <1>5, <2>2 DEF CompareExisting, RaiseCorruption, RaiseConflict, Goto, TypeOK
  <2>. QED
    BY <2>2, <2>3, <2>5, <2>6, QuietTorn, Framed
<1>6. ASSUME NEW w \in Writers, OpenTemp(w) \/ WriteTemp(w)
      PROVE  IInv'
  <2>1. proc[w] \in Put /\ WriterInv(w) /\ proc[w] # Idle
    BY <1>6, ActivePut DEF OpenTemp, WriteTemp, In, IInv, Idle
  <2>2. UNCHANGED <<artifact, seal, tampered, acked, refused>>
    BY <1>6 DEF OpenTemp, WriteTemp, history
  <2>3. \/ proc[w].phase = "open" /\ proc' = [proc EXCEPT ![w].phase = "write"]
        \/ /\ proc[w].phase = "write" /\ proc' = [proc EXCEPT ![w].phase = "link"]
           /\ temp' = [temp EXCEPT ![w] = IF proc[w].target = "seal"
                                          THEN proc[w].raw ELSE proc[w].record]
    BY <1>6 DEF OpenTemp, WriteTemp, In, Goto
  <2>4. WriterInv(w)'
    BY <2>1, <2>2, <2>3 DEF WriterInv, Landed, Target, TypeOK, Put
  <2>5. \A v \in Writers \ {w} : proc'[v] = proc[v] /\ temp'[v] = temp[v]
    BY <1>6 DEF OpenTemp, WriteTemp, Goto, TypeOK
  <2>. QED
    BY <2>2, <2>4, <2>5, QuietTorn, Framed
<1>7. ASSUME NEW w \in Writers, LinkArtifact(w)
      PROVE  IInv'
  <2>1. /\ proc[w] \in Put /\ WriterInv(w) /\ proc[w] # Idle
        /\ Target(w) \in Ids /\ IdOf[proc[w].record] = Target(w)
        /\ proc[w].phase = "link" /\ proc[w].target = "artifact"
    BY <1>7, ActivePut DEF LinkArtifact, In, IInv, Idle, Target
  <2>2. temp[w] = proc[w].record /\ proc[w].record \in Records
    BY <2>1 DEF WriterInv, Put
  <2>3. UNCHANGED <<seal, acked, refused, tampered>>
    BY <1>7 DEF LinkArtifact, history
  <2>4. WriterInv(w)'
    BY <1>7, <2>1, <2>2, <2>3
    DEF LinkArtifact, CreateOnly, Goto, WriterInv, Landed, Target, TypeOK, Put
  <2>5. NothingTorn'
    <3>1. ASSUME NEW i \in Ids \ tampered
          PROVE  /\ artifact'[i] # NoFile => artifact'[i] \in Records /\ IdOf[artifact'[i]] = i
                 /\ seal[i] # NoFile => seal[i] = artifact'[i]
      BY <1>7, <2>1, <2>2, <3>1, SealedRecord DEF LinkArtifact, CreateOnly, TypeOK
    <3>. QED
      BY <2>3, <3>1 DEF NothingTorn
  <2>6. \A v \in Writers \ {w} : proc'[v] = proc[v] /\ temp'[v] = temp[v]
    BY <1>7 DEF LinkArtifact, Goto, TypeOK
  <2>. QED
    BY <2>3, <2>4, <2>5, <2>6, Framed
<1>8. ASSUME NEW w \in Writers, RereadArtifact(w)
      PROVE  IInv'
  <2>1. proc[w] \in Put /\ WriterInv(w) /\ proc[w] # Idle
    BY <1>8, ActivePut DEF RereadArtifact, In, IInv, Idle
  <2>2. UNCHANGED <<artifact, seal, temp, tampered, acked, refused>>
    BY <1>8 DEF RereadArtifact, files, history
  <2>3. PICK p \in {"open", "verify"} :
          /\ proc' = [proc EXCEPT ![w].raw = artifact[Target(w)],
                                  ![w].target = "seal", ![w].phase = p]
          /\ p = "verify" => seal[Target(w)] # NoFile
    BY <1>8 DEF RereadArtifact
  <2>4. Target(w) \notin tampered => artifact[Target(w)] = proc[w].record
    BY <1>8, <2>1 DEF WriterInv, Landed, RereadArtifact, In
  <2>5. /\ proc'[w].raw = artifact[Target(w)] /\ proc'[w].phase = p
        /\ proc'[w].record = proc[w].record /\ proc'[w].target = "seal"
    BY <2>1, <2>3 DEF TypeOK, Put
  <2>6. WriterInv(w)'
    BY <2>1, <2>2, <2>3, <2>4, <2>5 DEF WriterInv, Landed, Target
  <2>7. \A v \in Writers \ {w} : proc'[v] = proc[v] /\ temp'[v] = temp[v]
    BY <2>2, <2>3 DEF TypeOK
  <2>. QED
    BY <2>2, <2>6, <2>7, QuietTorn, Framed
<1>9. ASSUME NEW w \in Writers, LinkSeal(w)
      PROVE  IInv'
  <2>1. /\ proc[w] \in Put /\ WriterInv(w) /\ proc[w] # Idle
        /\ Target(w) \in Ids /\ IdOf[proc[w].record] = Target(w)
        /\ proc[w].phase = "link" /\ proc[w].target = "seal"
    BY <1>9, ActivePut DEF LinkSeal, In, IInv, Idle, Target
  <2>2. /\ temp[w] = proc[w].raw
        /\ Target(w) \notin tampered => /\ artifact[Target(w)] = proc[w].record
                                       /\ proc[w].raw = proc[w].record
    BY <2>1 DEF WriterInv, Landed
  <2>3. UNCHANGED <<artifact, refused, tampered>>
    BY <1>9 DEF LinkSeal, Return, history
  <2>4. \A i \in Ids \ tampered : seal'[i] # NoFile => seal'[i] = artifact[i]
    BY <1>9, <2>1, <2>2, SealedRecord DEF LinkSeal, CreateOnly, TypeOK
  <2>5. NothingTorn'
    BY <2>3, <2>4, SealedRecord DEF NothingTorn
  <2>6. WriterInv(w)'
    <3>1. CASE Return(w)
      BY <2>1, <3>1 DEF Return, WriterInv, TypeOK, Idle
    <3>2. CASE seal[Target(w)] # NoFile /\ Goto(w, "verify")
      <4>1. /\ proc'[w].phase = "verify" /\ proc'[w].record = proc[w].record
            /\ proc'[w].raw = proc[w].raw
        BY <2>1, <3>2 DEF Goto, TypeOK, Put
      <4>2. seal'[Target(w)] # NoFile
        BY <2>1, <3>2 DEF Grows
      <4>. QED
        BY <2>1, <2>2, <2>3, <4>1, <4>2 DEF WriterInv, Landed, Target
    <3>. QED
      BY <1>9, <3>1, <3>2 DEF LinkSeal
  <2>7. \A r \in acked' \ acked : IdOf[r] \notin tampered' =>
          artifact'[IdOf[r]] = r /\ seal'[IdOf[r]] = r
    <3>1. SUFFICES ASSUME seal[Target(w)] = NoFile, Return(w), Target(w) \notin tampered
                   PROVE  /\ artifact'[Target(w)] = proc[w].record
                          /\ seal'[Target(w)] = proc[w].record
      BY <1>9, <2>1, <2>3 DEF LinkSeal, Return, history
    <3>. QED
      BY <1>9, <2>1, <2>2, <2>3, <3>1 DEF LinkSeal, CreateOnly, TypeOK
  <2>8. \A v \in Writers \ {w} : proc'[v] = proc[v] /\ temp'[v] = temp[v]
    BY <1>9 DEF LinkSeal, Return, Goto, TypeOK
  <2>. QED
    BY <2>3, <2>5, <2>6, <2>7, <2>8, Framed
<1>10. ASSUME NEW w \in Writers, VerifySeal(w)
       PROVE  IInv'
  <2>1. /\ proc[w] \in Put /\ WriterInv(w) /\ proc[w] # Idle
        /\ Target(w) \in Ids /\ IdOf[proc[w].record] = Target(w)
        /\ proc[w].phase = "verify"
    BY <1>10, ActivePut DEF VerifySeal, In, IInv, Idle, Target
  <2>2. UNCHANGED <<artifact, seal, temp, refused, tampered>>
    BY <1>10 DEF VerifySeal, Return, RaiseCorruption, files, history
  <2>3. proc' = [proc EXCEPT ![w] = Idle]
    BY <1>10 DEF VerifySeal, Return, RaiseCorruption
  <2>4. WriterInv(w)'
    BY <2>3 DEF WriterInv, TypeOK
  <2>5. \A r \in acked' \ acked : IdOf[r] \notin tampered' =>
          artifact'[IdOf[r]] = r /\ seal'[IdOf[r]] = r
    <3>1. SUFFICES ASSUME Target(w) \notin tampered
                   PROVE  /\ artifact[Target(w)] = proc[w].record
                          /\ seal[Target(w)] = proc[w].record
      BY <1>10, <2>1, <2>2 DEF VerifySeal, Return, RaiseCorruption, history
    <3>2. artifact[Target(w)] = proc[w].record /\ seal[Target(w)] # NoFile
      BY <2>1, <3>1 DEF WriterInv, Landed
    <3>. QED
      BY <2>1, <3>1, <3>2, SealedRecord
  <2>. QED
    BY <2>2, <2>3, <2>4, <2>5, QuietTorn, Framed DEF TypeOK
<1>11. ASSUME NEW w \in Writers, Crash(w)
       PROVE  IInv'
  <2>1. WriterInv(w)'
    BY <1>11 DEF Crash, WriterInv, TypeOK
  <2>. QED
    BY <1>11, <2>1, QuietTorn, Framed DEF Crash, TypeOK
<1>12. ASSUME NEW i \in Ids, Tamper(i)
       PROVE  IInv'
  <2>1. UNCHANGED <<proc, temp, acked, refused>>
    BY <1>12 DEF Tamper
  <2>2. \A w \in Writers : WriterInv(w)'
    BY <2>1, Bystander
  <2>3. \A j \in Ids \ tampered' :
          j \in Ids \ tampered /\ artifact'[j] = artifact[j] /\ seal'[j] = seal[j]
    BY <1>12 DEF Tamper, TypeOK
  <2>4. NothingTorn'
    BY <2>3, SealedRecord DEF NothingTorn
  <2>5. AckedDurable' /\ RefusalJustified'
    BY <2>1, OldHistory DEF AckedDurable, RefusalJustified
  <2>. QED
    BY <2>2, <2>4, <2>5 DEF IInv
<1>13. CASE UNCHANGED vars
  BY <1>13, Bystander, QuietTorn, OldHistory
  DEF vars, IInv, AckedDurable, RefusalJustified
<1>. QED
  BY <1>1, <1>2, <1>3, <1>4, <1>5, <1>6, <1>7, <1>8, <1>9, <1>10, <1>11, <1>12,
     <1>13 DEF Next, Step

\* The invariant the theorems below read off.
LEMMA Invariance == Spec => []IInv
BY IInvInit, IInvStep, PTL DEF Spec

\* A put that returned is durable and sealed, for any number of concurrent
\* writers, crashes and retries, as long as nothing else edits the files.
THEOREM AckedPutsDurable == Spec => []AckedDurable
BY Invariance, PTL DEF IInv

\* No crash leaves a torn artifact, or a sidecar that does not attest its
\* artifact, under a canonical name.
THEOREM NoTornFiles == Spec => []NothingTorn
BY Invariance, PTL DEF IInv

\* A put is refused only because of a record that cannot coexist with it.
THEOREM RefusalsJustified == Spec => []RefusalJustified
BY Invariance, PTL DEF IInv

----------------------------------------------------------------------------
(* Edits, unsealed artifacts, and the releases of one version.             *)

Stored(i) == artifact[i] # NoFile

\* An edit leaves an artifact and a sidecar that contradict each other.
EditsShow ==
  \A i \in tampered : Stored(i) /\ seal[i] # NoFile /\ artifact[i] # seal[i]

\* A step of one writer leaves the others where they are.
LEMMA OthersRest ==
  ASSUME TypeOK, NEW v \in Writers, NEW w \in Writers \ {v},
         Step(v) \/ Crash(v) \/ \E r \in Records : BeginPut(v, r)
  PROVE  proc'[w] = proc[w]
BY DEF TypeOK, Step, ScanReleases, CheckSlot, CheckExists, CompareExisting,
   OpenTemp, WriteTemp, LinkArtifact, RereadArtifact, LinkSeal, VerifySeal, Crash,
   BeginPut, Goto, Return, RaiseConflict, RaiseCorruption

\* A writer that has seen its record under the canonical name goes on until
\* the sidecar is there, unless it dies.
LEMMA LandedStays ==
  ASSUME IInv, EditsShow, [Next]_vars, NEW w \in Writers, Landed(w)
  PROVE  \/ Landed(w)' /\ Target(w)' = Target(w)
         \/ seal'[Target(w)] # NoFile
         \/ Target(w) \in interrupted'
<1>0. /\ proc[w].phase # "idle" /\ proc[w] \in Put /\ WriterInv(w) /\ proc[w] # Idle
      /\ Target(w) \in Ids
  <2>1. proc[w].phase # "idle"
    BY DEF Landed
  <2> QED
    BY <2>1, ActivePut DEF IInv, Idle
<1>1. ASSUME proc'[w] = proc[w]
      PROVE  Landed(w)' /\ Target(w)' = Target(w)
  BY <1>1 DEF Landed, Target
<1>2. CASE OpenTemp(w) \/ WriteTemp(w)
  <2>1. proc[w].target = "seal"
    BY <1>2 DEF OpenTemp, WriteTemp, In, Landed
  <2>2. PICK p \in {"write", "link"} : proc' = [proc EXCEPT ![w].phase = p]
    BY <1>2 DEF OpenTemp, WriteTemp, Goto
  <2>3. proc'[w].phase = p /\ proc'[w].target = "seal" /\ proc'[w].record = proc[w].record
    BY <1>0, <2>1, <2>2 DEF IInv, TypeOK, Put
  <2> QED
    BY <2>3 DEF Landed, Target
<1>3. CASE RereadArtifact(w)
  <2>1. PICK p \in {"open", "verify"} :
          proc' = [proc EXCEPT ![w].raw = artifact[Target(w)],
                               ![w].target = "seal", ![w].phase = p]
    BY <1>3 DEF RereadArtifact
  <2>2. proc'[w].phase = p /\ proc'[w].target = "seal" /\ proc'[w].record = proc[w].record
    BY <1>0, <2>1 DEF IInv, TypeOK, Put
  <2> QED
    BY <2>2 DEF Landed, Target
<1>4. CASE LinkSeal(w)
  <2>1. CASE seal[Target(w)] # NoFile
    BY <1>0, <2>1, StepGrows DEF IInv, Grows
  <2>2. CASE seal[Target(w)] = NoFile
    <3>1. Target(w) \notin tampered
      BY <2>2 DEF EditsShow
    <3>2. temp[w] = proc[w].record /\ temp[w] # NoFile
      BY <1>0, <1>4, <3>1, LedgerAssumption DEF LinkSeal, In, WriterInv, Put
    <3> QED
      BY <1>0, <1>4, <2>2, <3>2 DEF LinkSeal, CreateOnly, IInv, TypeOK
  <2> QED
    BY <2>1, <2>2
<1>5. CASE VerifySeal(w)
  BY <1>0, <1>5 DEF VerifySeal, WriterInv, In, files
<1>6. CASE Crash(w)
  BY <1>0, <1>6 DEF Crash
<1>7. CASE \/ ScanReleases(w) \/ CheckSlot(w) \/ CheckExists(w) \/ CompareExisting(w)
           \/ LinkArtifact(w) \/ \E r \in Records : BeginPut(w, r)
  BY <1>0, <1>7
  DEF ScanReleases, CheckSlot, CheckExists, CompareExisting, LinkArtifact, BeginPut,
      In, Landed
<1>8. ASSUME NEW v \in Writers, v # w,
             Step(v) \/ Crash(v) \/ \E r \in Records : BeginPut(v, r)
      PROVE  proc'[w] = proc[w]
  BY <1>8, OthersRest DEF IInv
<1>9. CASE UNCHANGED proc
  BY <1>1, <1>9
<1>. QED
  BY <1>1, <1>2, <1>3, <1>4, <1>5, <1>6, <1>7, <1>8, <1>9 DEF Next, Step, Tamper, vars

\* An artifact appears under its name only by a put that linked it.
LEMMA NewArtifact ==
  ASSUME IInv, [Next]_vars, NEW i \in Ids, ~Stored(i), Stored(i)'
  PROVE  \E w \in Writers : /\ In(w, "link") /\ proc[w].target = "artifact"
                            /\ Target(w) = i /\ Landed(w)' /\ Target(w)' = i
                            /\ proc[w] \in Put
<1>1. PICK w \in Writers : LinkArtifact(w)
  <2>1. ASSUME NEW j \in Ids, Tamper(j) PROVE Stored(j)
    BY <2>1, SealedRecord, LedgerAssumption DEF Tamper, Stored, IInv, TypeOK
  <2>2. ASSUME NEW j \in Ids, Tamper(j), j # i PROVE artifact'[i] = artifact[i]
    BY <2>2 DEF Tamper, IInv, TypeOK
  <2> QED
    BY <2>1, <2>2
    DEF Stored, Next, Step, vars, files, ScanReleases, CheckSlot, CheckExists,
        CompareExisting, OpenTemp, WriteTemp, RereadArtifact, LinkSeal, VerifySeal,
        Crash, BeginPut
<1>2. proc[w] \in Put /\ Target(w) \in Ids
  BY <1>1, ActivePut DEF LinkArtifact, In, IInv
<1>3. artifact[Target(w)] = NoFile /\ Target(w) = i
  BY <1>1, <1>2 DEF LinkArtifact, CreateOnly, Stored, IInv, TypeOK
<1>4. proc'[w].phase = "reread" /\ proc'[w].record = proc[w].record
  BY <1>1, <1>2, <1>3 DEF LinkArtifact, Goto, IInv, TypeOK, Put
<1>. QED
  BY <1>1, <1>2, <1>3, <1>4 DEF LinkArtifact, Landed, Target

\* An artifact without a sidecar is being sealed, or its put died.
SealFollows ==
  \A i \in Ids : Stored(i) /\ seal[i] = NoFile =>
    i \in interrupted \/ \E w \in Writers : Landed(w) /\ Target(w) = i

LEMMA EditsShowStep == IInv /\ EditsShow /\ [Next]_vars => EditsShow'
<1>. SUFFICES ASSUME IInv, EditsShow, [Next]_vars, NEW i \in tampered'
              PROVE  (Stored(i) /\ seal[i] # NoFile /\ artifact[i] # seal[i])'
  BY DEF EditsShow
<1>1. TypeOK /\ TypeOK' /\ Grows /\ i \in Ids
  BY TypeStep, StepGrows, LedgerAssumption DEF IInv, TypeOK
<1>2. CASE i \in tampered
  BY <1>1, <1>2 DEF EditsShow, Grows, Stored
<1>3. CASE i \notin tampered
  <2>1. PICK j \in Ids : Tamper(j)
    BY <1>3 DEF Next, Step, vars, history, ScanReleases, CheckSlot, CheckExists,
       CompareExisting, OpenTemp, WriteTemp, LinkArtifact, RereadArtifact, LinkSeal,
       VerifySeal, Crash, BeginPut, Return, RaiseConflict, RaiseCorruption
  <2>2. j = i /\ seal[i] # NoFile
    BY <1>3, <2>1 DEF Tamper
  <2>3. artifact[i] \in Records /\ seal[i] = artifact[i]
    BY <1>1, <1>3, <2>2, SealedRecord, LedgerAssumption DEF TypeOK
  <2> QED
    BY <1>1, <2>1, <2>2, <2>3, LedgerAssumption DEF Tamper, EditedText, Stored, TypeOK
<1>. QED
  BY <1>2, <1>3

LEMMA SealFollowsStep == IInv /\ EditsShow /\ SealFollows /\ [Next]_vars => SealFollows'
<1>. SUFFICES ASSUME IInv, EditsShow, SealFollows, [Next]_vars, NEW i \in Ids,
                     Stored(i)', seal'[i] = NoFile
              PROVE  i \in interrupted' \/ \E w \in Writers : Landed(w)' /\ Target(w)' = i
  BY DEF SealFollows
<1>1. seal[i] = NoFile
  BY StepGrows DEF IInv, Grows
<1>2. CASE ~Stored(i)
  BY <1>2, NewArtifact
<1>3. CASE i \in interrupted
  BY <1>3 DEF Next, Step, vars, history, ScanReleases, CheckSlot, CheckExists,
     CompareExisting, OpenTemp, WriteTemp, LinkArtifact, RereadArtifact, LinkSeal,
     VerifySeal, Crash, BeginPut, Tamper, Return, RaiseConflict, RaiseCorruption
<1>4. ASSUME NEW w \in Writers, Landed(w), Target(w) = i
      PROVE  i \in interrupted' \/ \E v \in Writers : Landed(v)' /\ Target(v)' = i
  BY <1>4, LandedStays
<1>. QED
  BY <1>1, <1>2, <1>3, <1>4 DEF SealFollows

LEMMA InspectionInvariance == Spec => [](IInv /\ EditsShow /\ SealFollows)
<1>1. Init => EditsShow /\ SealFollows
  BY DEF Init, EditsShow, SealFollows, Stored
<1>. QED
  BY <1>1, IInvInit, IInvStep, EditsShowStep, SealFollowsStep, PTL DEF Spec

\* Whatever is edited after it was acknowledged, the ledger serves the
\* acknowledged record or fails, and then the inspection reports the id, for
\* any number of writers, also those in the middle of a put while the edit
\* happens.
THEOREM EditsDetected == Spec => []TamperingDetected
<1>1. IInv /\ EditsShow => TamperingDetected
  <2>. SUFFICES ASSUME IInv, EditsShow, NEW r \in acked
                PROVE  \/ artifact[IdOf[r]] = r /\ Readable(IdOf[r])
                       \/ ~Readable(IdOf[r]) /\ Issues(IdOf[r]) # {}
    BY DEF TamperingDetected
  <2> DEFINE i == IdOf[r]
  <2>1. r \in Records /\ i \in Ids /\ TypeOK
    BY LedgerAssumption DEF IInv, TypeOK
  <2>2. CASE i \notin tampered
    BY <2>1, <2>2, LedgerAssumption DEF IInv, AckedDurable, Readable, SealAgrees
  <2>3. CASE i \in tampered
    <3>1. artifact[i] # NoFile /\ seal[i] \in Text /\ artifact[i] # seal[i]
      BY <2>1, <2>3 DEF EditsShow, Stored, TypeOK
    <3>2. ~Readable(i)
      BY <3>1, LedgerAssumption DEF Readable, SealAgrees, Text
    <3>3. CASE seal[i] = Garbled
      <4>1. "CHECKSUM_INVALID" \in Issues(i)
        BY <3>1, <3>3 DEF Issues
      <4> QED
        BY <3>2, <4>1
    <3>4. CASE seal[i] \in Records \ {artifact[i]}
      <4>1. "CHECKSUM_MISMATCH" \in Issues(i)
        BY <3>1, <3>4 DEF Issues
      <4> QED
        BY <3>2, <4>1
    <3> QED
      BY <3>1, <3>2, <3>3, <3>4 DEF Text
  <2> QED
    BY <2>2, <2>3
<1>. QED
  BY <1>1, InspectionInvariance, PTL

\* The inspection never accuses a healthy history: of files nobody edited it
\* reports at most a missing sidecar, and that only while the put that writes
\* it runs or after one died.
THEOREM InspectionNeverAccuses == Spec => []InspectionSound
<1>1. IInv /\ SealFollows => InspectionSound
  <2>. SUFFICES ASSUME IInv, SealFollows, NEW i \in Ids \ tampered
                PROVE  /\ Issues(i) \subseteq {"CHECKSUM_MISSING"}
                       /\ \/ Issues(i) = {}
                          \/ i \in interrupted
                          \/ \E w \in Writers : ~In(w, "idle") /\ Target(w) = i
    BY DEF InspectionSound
  <2>1. /\ artifact[i] # NoFile => artifact[i] \in Records /\ IdOf[artifact[i]] = i
        /\ seal[i] # NoFile => seal[i] = artifact[i]
    BY SealedRecord
  <2>2. CASE artifact[i] = NoFile
    BY <2>1, <2>2 DEF Issues
  <2>3. CASE artifact[i] # NoFile /\ seal[i] # NoFile
    BY <2>1, <2>3, LedgerAssumption DEF Issues
  <2>4. CASE artifact[i] # NoFile /\ seal[i] = NoFile
    <3>1. Issues(i) = {"CHECKSUM_MISSING"}
      BY <2>1, <2>4, LedgerAssumption DEF Issues
    <3>2. i \in interrupted \/ \E w \in Writers : ~In(w, "idle") /\ Target(w) = i
      BY <2>4 DEF SealFollows, Stored, Landed, In
    <3> QED
      BY <3>1, <3>2
  <2> QED
    BY <2>2, <2>3, <2>4
<1>. QED
  BY <1>1, InspectionInvariance, PTL

----------------------------------------------------------------------------
(* The releases of one version.                                            *)

\* Past the check against the listed releases, and not yet published.
Cleared(w) ==
  proc[w].phase \in {"check", "open", "write", "link"} /\ proc[w].target = "artifact"

\* Between listing the releases and publishing its own.
Claiming(w) == In(w, "slot") \/ Cleared(w)

\* What the code leaves to whoever schedules the writers: different releases of
\* one version are never claimed at the same time.  (HistoryLedgerRace is what
\* happens without it: the listing of one put precedes the other's publication.)
OneClaimPerVersion ==
  \A v, w \in Writers :
    /\ Claiming(v) /\ proc[v].record \in Releases
    /\ Claiming(w) /\ proc[w].record \in Releases
    /\ SlotOf[proc[v].record] = SlotOf[proc[w].record]
    => proc[v].record = proc[w].record

\* The other releases of r's version that have a file.
Rivals(r) == {s \in Releases \ {r} : SlotOf[s] = SlotOf[r] /\ Stored(IdOf[s])}

SlotInv ==
  /\ \A r \in acked : Stored(IdOf[r])
  /\ \A w \in Writers : Landed(w) => Stored(Target(w))
  /\ \A w \in Writers :
       In(w, "slot") => \A s \in Rivals(proc[w].record) : IdOf[s] \in proc[w].listed
  /\ \A w \in Writers :
       Cleared(w) /\ proc[w].record \in Releases => Rivals(proc[w].record) = {}
  /\ \A r \in Releases : Stored(IdOf[r]) => Rivals(r) = {}

\* A writer is past the listing only by passing it.
LEMMA PutStep ==
  ASSUME IInv, [Next]_vars, NEW w \in Writers, proc'[w].phase # "idle"
  PROVE  /\ In(w, "slot")' =>
              /\ proc[w].phase \in {"scan", "slot"} /\ proc'[w].record = proc[w].record
              /\ \/ In(w, "slot") /\ proc'[w].listed = proc[w].listed
                 \/ proc'[w].listed = {i \in ReleaseIds : Stored(i)}
                    /\ UNCHANGED artifact
         /\ Cleared(w)' /\ proc'[w].record \in Releases =>
              /\ proc'[w].record = proc[w].record
              /\ \/ Cleared(w)
                 \/ /\ In(w, "slot") /\ UNCHANGED artifact
                    /\ \A i \in proc[w].listed : Readable(i)
                    /\ ~SlotTaken(w)
         /\ Landed(w)' => (Landed(w) /\ Target(w)' = Target(w)) \/ Stored(Target(w))'
<1>. TypeOK
  BY DEF IInv
<1>1. CASE proc'[w] = proc[w]
  BY <1>1 DEF In, Cleared, Landed, Target
<1>2. ASSUME NEW r \in Records, BeginPut(w, r)
      PROVE  /\ ~In(w, "slot")'
             /\ ~(Cleared(w)' /\ proc'[w].record \in Releases)
             /\ ~Landed(w)'
  BY <1>2 DEF BeginPut, In, Cleared, Landed, TypeOK
<1>3. ASSUME proc[w] \in Put, ScanReleases(w)
      PROVE  /\ proc'[w].phase = "slot" /\ proc'[w].record = proc[w].record
             /\ proc[w].phase = "scan"
             /\ proc'[w].listed = {i \in ReleaseIds : Stored(i)}
             /\ UNCHANGED artifact
  BY <1>3 DEF ScanReleases, In, Put, TypeOK, Stored, files
<1>4. ASSUME proc[w] \in Put, CheckSlot(w)
      PROVE  /\ proc'[w].phase = "check" /\ proc'[w].record = proc[w].record
             /\ In(w, "slot") /\ UNCHANGED artifact
             /\ \A i \in proc[w].listed : Readable(i)
             /\ ~SlotTaken(w)
             /\ proc'[w].target = proc[w].target
  <2>1. proc' # [proc EXCEPT ![w] = Idle]
    BY DEF TypeOK, Idle
  <2>2. /\ proc' = [proc EXCEPT ![w].phase = "check", ![w].listed = {}]
        /\ \A i \in proc[w].listed : Readable(i)
        /\ ~SlotTaken(w)
    BY <1>4, <2>1 DEF CheckSlot, RaiseCorruption, RaiseConflict
  <2> QED
    BY <1>4, <2>2 DEF CheckSlot, Put, TypeOK, files
<1>5. ASSUME proc[w] \in Put, CheckExists(w)
      PROVE  /\ proc'[w].phase \in {"open", "compare"} /\ proc'[w].record = proc[w].record
             /\ proc[w].phase = "check" /\ proc[w].target = "artifact"
             /\ proc'[w].target = "artifact"
  BY <1>5 DEF CheckExists, Goto, In, Put, TypeOK, IInv, WriterInv, Idle
<1>6. ASSUME proc[w] \in Put, CompareExisting(w)
      PROVE  /\ proc'[w].phase = "reread" /\ proc'[w].record = proc[w].record
             /\ proc[w].phase = "compare" /\ Stored(Target(w)) /\ UNCHANGED artifact
  <2>1. proc' # [proc EXCEPT ![w] = Idle]
    BY DEF TypeOK, Idle
  <2>2. Goto(w, "reread") /\ Readable(Target(w))
    BY <1>6, <2>1 DEF CompareExisting, RaiseCorruption, RaiseConflict
  <2> QED
    BY <1>6, <2>2, LedgerAssumption
    DEF CompareExisting, Goto, In, Put, TypeOK, Readable, Stored, files
<1>7. ASSUME proc[w] \in Put, OpenTemp(w) \/ WriteTemp(w)
      PROVE  /\ proc'[w].phase \in {"write", "link"} /\ proc'[w].record = proc[w].record
             /\ proc[w].phase \in {"open", "write"} /\ proc'[w].target = proc[w].target
  BY <1>7 DEF OpenTemp, WriteTemp, Goto, In, Put, TypeOK
<1>8. ASSUME proc[w] \in Put, LinkArtifact(w)
      PROVE  /\ proc'[w].phase \in {"reread", "compare"} /\ proc'[w].record = proc[w].record
             /\ proc[w].phase = "link" /\ Stored(Target(w))'
  <2>1. Target(w) \in Ids /\ WriterInv(w)
    BY <1>8, LedgerAssumption DEF Put, Target, IInv
  <2>2. temp[w] # NoFile
    BY <1>8, <2>1, LedgerAssumption DEF LinkArtifact, In, WriterInv, Idle, Put
  <2>3. artifact'[Target(w)] # NoFile
    BY <1>8, <2>1, <2>2 DEF LinkArtifact, CreateOnly, TypeOK
  <2>4. Target(w)' = Target(w)
    BY <1>8 DEF LinkArtifact, Goto, Target, TypeOK, Put
  <2> QED
    BY <1>8, <2>3, <2>4 DEF LinkArtifact, Goto, In, Put, TypeOK, Stored
<1>9. ASSUME proc[w] \in Put, RereadArtifact(w)
      PROVE  /\ proc'[w].phase \in {"open", "verify"} /\ proc'[w].record = proc[w].record
             /\ proc[w].phase = "reread" /\ proc'[w].target = "seal"
  BY <1>9 DEF RereadArtifact, In, Put, TypeOK
<1>10. ASSUME proc[w] \in Put, LinkSeal(w)
       PROVE  /\ proc'[w].phase = "verify" /\ proc'[w].record = proc[w].record
              /\ proc[w].phase = "link" /\ proc[w].target = "seal"
  <2>1. proc' # [proc EXCEPT ![w] = Idle]
    BY DEF TypeOK, Idle
  <2> QED
    BY <1>10, <2>1 DEF LinkSeal, Return, Goto, In, Put, TypeOK
<1>11. ~VerifySeal(w) /\ ~Crash(w)
  BY DEF VerifySeal, Return, RaiseCorruption, Crash, TypeOK, Idle
<1>12. ASSUME NEW v \in Writers, v # w,
              Step(v) \/ Crash(v) \/ \E r \in Records : BeginPut(v, r)
       PROVE  proc'[w] = proc[w]
  BY <1>12, OthersRest
<1>13. \/ proc'[w] = proc[w]
       \/ \E r \in Records : BeginPut(w, r)
       \/ proc[w] \in Put /\ Step(w)
  <2>1. ASSUME Step(w) PROVE proc[w] \in Put
    BY <2>1, ActivePut DEF Step, ScanReleases, CheckSlot, CheckExists, CompareExisting,
       OpenTemp, WriteTemp, LinkArtifact, RereadArtifact, LinkSeal, VerifySeal, In
  <2> QED
    BY <1>11, <1>12, <2>1 DEF Next, Tamper, vars
<1>14. CASE proc[w] \in Put /\ Step(w)
  <2>1. CASE ScanReleases(w)
    BY <1>14, <1>3, <2>1 DEF In, Cleared, Landed, Target
  <2>2. CASE CheckSlot(w)
    BY <1>14, <1>4, <2>2 DEF In, Cleared, Landed, Target
  <2>3. CASE CheckExists(w)
    BY <1>14, <1>5, <2>3 DEF In, Cleared, Landed, Target
  <2>4. CASE CompareExisting(w)
    BY <1>14, <1>6, <2>4 DEF In, Cleared, Landed, Target, Stored
  <2>5. CASE OpenTemp(w) \/ WriteTemp(w)
    BY <1>14, <1>7, <2>5 DEF In, Cleared, Landed, Target
  <2>6. CASE LinkArtifact(w)
    BY <1>14, <1>8, <2>6 DEF In, Cleared, Landed, Target
  <2>7. CASE RereadArtifact(w)
    BY <1>14, <1>9, <2>7 DEF In, Cleared, Landed, Target
  <2>8. CASE LinkSeal(w)
    BY <1>14, <1>10, <2>8 DEF In, Cleared, Landed, Target
  <2> QED
    BY <1>11, <1>14, <2>1, <2>2, <2>3, <2>4, <2>5, <2>6, <2>7, <2>8 DEF Step
<1> QED
  BY <1>1, <1>2, <1>13, <1>14

\* Only a put of s makes s a rival, and then s is cleared.
LEMMA NewRival ==
  ASSUME IInv, [Next]_vars, NEW s \in Releases, ~Stored(IdOf[s]), Stored(IdOf[s])'
  PROVE  \E w \in Writers : Cleared(w) /\ proc[w].record = s
<1>1. IdOf[s] \in Ids
  BY LedgerAssumption
<1>2. PICK w \in Writers : /\ In(w, "link") /\ Target(w) = IdOf[s]
                           /\ proc[w] \in Put /\ proc[w].target = "artifact"
  BY <1>1, NewArtifact
<1>3. proc[w].record = s
  BY <1>2, ReleaseIdentity DEF Target, Put
<1> QED
  BY <1>2, <1>3 DEF Cleared, In

LEMMA StoredStays ==
  ASSUME IInv, [Next]_vars, NEW i \in Ids, Stored(i)
  PROVE  Stored(i)'
BY StepGrows DEF IInv, Grows, Stored

\* An acknowledged record was under its name before its put returned.
LEMMA NewAcked ==
  ASSUME IInv, [Next]_vars, NEW r \in acked' \ acked
  PROVE  \E w \in Writers : Landed(w) /\ proc[w].record = r /\ Target(w) \in Ids
<1>1. ASSUME NEW w \in Writers, LinkSeal(w) \/ VerifySeal(w)
      PROVE  Landed(w) /\ Target(w) \in Ids
  BY <1>1, ActivePut DEF LinkSeal, VerifySeal, In, Landed, IInv
<1>2. ASSUME NEW w \in Writers, LinkSeal(w) \/ VerifySeal(w)
      PROVE  proc[w].record = r
  BY <1>2 DEF LinkSeal, VerifySeal, Return, RaiseCorruption, history
<1>3. \E w \in Writers : LinkSeal(w) \/ VerifySeal(w)
  BY DEF Next, Step, vars, history, ScanReleases, CheckSlot, CheckExists,
     CompareExisting, OpenTemp, WriteTemp, LinkArtifact, RereadArtifact, Crash,
     BeginPut, Tamper, RaiseConflict, RaiseCorruption
<1> QED
  BY <1>1, <1>2, <1>3

LEMMA SlotStep == IInv /\ SlotInv /\ OneClaimPerVersion /\ [Next]_vars => SlotInv'
<1>. SUFFICES ASSUME IInv, SlotInv, OneClaimPerVersion, [Next]_vars PROVE SlotInv'
  OBVIOUS
<1>0. \A r \in Records : IdOf[r] \in Ids
  BY LedgerAssumption
<1>1. ASSUME NEW r \in acked' PROVE Stored(IdOf[r])'
  <2>1. CASE r \in acked
    BY <1>0, <2>1, StoredStays DEF IInv, TypeOK, SlotInv
  <2>2. CASE r \notin acked
    <3>1. PICK w \in Writers : Landed(w) /\ proc[w].record = r /\ Target(w) \in Ids
      BY <2>2, NewAcked
    <3> QED
      BY <3>1, StoredStays DEF SlotInv, Target
  <2> QED
    BY <2>1, <2>2
<1>2. ASSUME NEW w \in Writers, Landed(w)' PROVE Stored(Target(w))'
  <2>1. CASE Landed(w) /\ Target(w)' = Target(w)
    <3>1. Target(w) \in Ids /\ Stored(Target(w))
      BY <2>1, ActivePut DEF Landed, IInv, SlotInv
    <3>2. artifact'[Target(w)] # NoFile
      BY <3>1, StoredStays DEF Stored
    <3> QED
      BY <2>1, <3>2 DEF Stored
  <2>2. proc'[w].phase # "idle"
    BY <1>2 DEF Landed
  <2> QED
    BY <1>2, <2>1, <2>2, PutStep
\* A rival of a release being put was one before: it was not linked now, as
\* its own put would overlap.
<1>3. ASSUME NEW w \in Writers, Claiming(w), proc[w].record \in Releases,
             NEW s \in Rivals(proc[w].record)'
      PROVE  s \in Releases /\ (proc'[w].record = proc[w].record => s \in Rivals(proc[w].record))
  <2>1. s \in Releases /\ Stored(IdOf[s])'
    BY <1>3 DEF Rivals, Stored
  <2>2. ASSUME proc'[w].record = proc[w].record
        PROVE  s # proc[w].record /\ SlotOf[s] = SlotOf[proc[w].record]
    BY <1>3, <2>2 DEF Rivals
  <2>3. ASSUME proc'[w].record = proc[w].record, ~Stored(IdOf[s])
        PROVE  FALSE
    <3>1. PICK v \in Writers : Cleared(v) /\ proc[v].record = s
      BY <2>1, <2>3, NewRival
    <3> QED
      BY <1>3, <2>1, <2>2, <2>3, <3>1 DEF OneClaimPerVersion, Claiming
  <2> QED
    BY <2>1, <2>2, <2>3 DEF Rivals
<1>4. ASSUME NEW w \in Writers, In(w, "slot")'
      PROVE  (\A s \in Rivals(proc[w].record) : IdOf[s] \in proc[w].listed)'
  <2>1. /\ proc[w].phase \in {"scan", "slot"} /\ proc'[w].record = proc[w].record
        /\ \/ In(w, "slot") /\ proc'[w].listed = proc[w].listed
           \/ proc'[w].listed = {i \in ReleaseIds : Stored(i)} /\ UNCHANGED artifact
    BY <1>4, PutStep DEF In
  <2>2. proc[w].record \in Releases
    BY <2>1 DEF In, IInv, WriterInv, Idle
  <2>3. \A s \in Rivals(proc[w].record)' : s \in Rivals(proc[w].record)
    <3>1. CASE In(w, "slot")
      BY <1>3, <2>1, <2>2, <3>1 DEF Claiming
    <3>2. CASE UNCHANGED artifact
      BY <2>1, <3>2 DEF Rivals, Stored
    <3>. QED
      BY <2>1, <3>1, <3>2
  <2>4. ASSUME NEW s \in Rivals(proc[w].record)' PROVE IdOf[s] \in proc'[w].listed
    BY <2>1, <2>3, <2>4 DEF SlotInv, Rivals, ReleaseIds
  <2> QED
    BY <2>4
<1>5. ASSUME NEW w \in Writers, Cleared(w)', proc'[w].record \in Releases
      PROVE  Rivals(proc[w].record)' = {}
  <2>1. /\ proc'[w].record = proc[w].record
        /\ \/ Cleared(w)
           \/ /\ In(w, "slot") /\ UNCHANGED artifact
              /\ \A i \in proc[w].listed : Readable(i)
              /\ ~SlotTaken(w)
    BY <1>5, PutStep DEF Cleared
  <2>2. Claiming(w) /\ proc[w].record \in Releases
    BY <1>5, <2>1 DEF Claiming
  <2>3. \A s \in Rivals(proc[w].record)' : s \in Rivals(proc[w].record)
    BY <1>3, <2>1, <2>2
  <2>4. ASSUME In(w, "slot"), \A i \in proc[w].listed : Readable(i), ~SlotTaken(w),
               NEW s \in Rivals(proc[w].record)
        PROVE  FALSE
    <3>1. s \in Releases /\ s # proc[w].record /\ SlotOf[s] = SlotOf[proc[w].record]
      BY DEF Rivals
    <3>2. IdOf[s] \in proc[w].listed /\ Readable(IdOf[s])
      BY <2>4 DEF SlotInv
    <3>3. artifact[IdOf[s]] = s
      BY <3>1, <3>2, ReleaseIdentity DEF Readable
    <3>4. IdOf[s] # Target(w)
      BY <2>2, <3>1, ReleaseIdentity, LedgerAssumption DEF Target
    <3> QED
      BY <2>4, <3>1, <3>2, <3>3, <3>4 DEF SlotTaken
  <2>5. CASE Cleared(w)
    BY <2>2, <2>3, <2>5 DEF SlotInv
  <2> QED
    BY <2>1, <2>3, <2>4, <2>5
<1>6. ASSUME NEW r \in Releases, NEW s \in Releases, r # s, SlotOf[r] = SlotOf[s],
             Stored(IdOf[r])', Stored(IdOf[s])'
      PROVE  FALSE
  \* The later of two rivals was linked by a put that had cleared the listing.
  <2>1. ASSUME NEW x \in Releases, NEW y \in Releases, x # y, SlotOf[x] = SlotOf[y],
               ~Stored(IdOf[x]), Stored(IdOf[x])', Stored(IdOf[y])
        PROVE  FALSE
    <3>1. PICK w \in Writers : Cleared(w) /\ proc[w].record = x
      BY <2>1, NewRival
    <3>2. Rivals(x) = {}
      BY <3>1 DEF SlotInv
    <3> QED
      BY <2>1, <3>2 DEF Rivals
  <2>2. CASE Stored(IdOf[r]) /\ Stored(IdOf[s])
    BY <1>6, <2>2 DEF SlotInv, Rivals
  <2>3. CASE ~Stored(IdOf[r]) /\ ~Stored(IdOf[s])
    <3>1. PICK v \in Writers : Cleared(v) /\ proc[v].record = r
      BY <1>6, <2>3, NewRival
    <3>2. PICK w \in Writers : Cleared(w) /\ proc[w].record = s
      BY <1>6, <2>3, NewRival
    <3> QED
      BY <1>6, <3>1, <3>2 DEF OneClaimPerVersion, Claiming
  <2> QED
    BY <1>6, <2>1, <2>2, <2>3
<1>7. \A r \in Releases : Stored(IdOf[r])' => Rivals(r)' = {}
  BY <1>6 DEF Rivals, Stored
<1> QED
  BY <1>1, <1>2, <1>4, <1>5, <1>7 DEF SlotInv

LEMMA SlotInvariance == Spec /\ []OneClaimPerVersion => [](IInv /\ SlotInv)
<1>1. Init => SlotInv
  BY LedgerAssumption DEF Init, SlotInv, Stored, Landed, In, Cleared, Idle
<1>. QED
  BY <1>1, IInvInit, IInvStep, SlotStep, PTL DEF Spec

\* If no put of a release publishes between the listing and the publication of
\* another of the same version, a version is stored once, by any number of
\* writers, whatever dies or is edited in between: an edited release makes every
\* listing fail, so it makes no room for another.
THEOREM OneStoredReleasePerVersion ==
  Spec /\ []OneClaimPerVersion => []OneReleasePerVersion
<1>1. IInv /\ SlotInv => OneReleasePerVersion
  <2>. SUFFICES ASSUME SlotInv, NEW r \in Releases, NEW s \in Releases,
                       artifact[IdOf[r]] = r, artifact[IdOf[s]] = s,
                       SlotOf[r] = SlotOf[s], r # s
                PROVE  FALSE
    BY DEF OneReleasePerVersion
  <2>1. Stored(IdOf[r]) /\ Stored(IdOf[s])
    BY LedgerAssumption DEF Stored
  <2>. QED
    BY <2>1 DEF SlotInv, Rivals
<1>. QED
  BY <1>1, SlotInvariance, PTL

\* Under the same schedule a version is acknowledged once.
THEOREM OneReleaseAckedPerVersion ==
  Spec /\ []OneClaimPerVersion => []OneAckedReleasePerVersion
<1>1. IInv /\ SlotInv => OneAckedReleasePerVersion
  BY DEF SlotInv, Rivals, OneAckedReleasePerVersion
<1>. QED
  BY <1>1, SlotInvariance, PTL

\* A working tree only one process writes to needs no schedule.
THEOREM SingleWriterOneRelease ==
  ASSUME NEW w, Writers = {w}
  PROVE  Spec => []OneAckedReleasePerVersion
<1>1. OneClaimPerVersion
  BY DEF OneClaimPerVersion
<1>2. []OneClaimPerVersion
  BY <1>1, PTL
<1>. QED
  BY <1>2, OneReleaseAckedPerVersion, PTL

----------------------------------------------------------------------------
(* Without outside edits the ledger is a write-once history.               *)

LEMMA RefinementInit == Init => Promise!Init
BY DEF Init, Promise!Init

LEMMA RefinementStep ==
  ASSUME Tamperable = {}, IInv, IInv', [Next]_vars
  PROVE  [Promise!Next]_Promise!vars
<1>. TypeOK /\ tampered = {} /\ tampered' = {}
  BY DEF IInv, TypeOK
<1>1. ASSUME NEW w \in Writers, Return(w), UNCHANGED artifact, proc[w].phase # "idle"
      PROVE  Promise!Next
  <2>1. proc[w].record \in Records /\ proc[w].record \in acked'
    BY <1>1, ActivePut DEF Put, Return
  <2>2. artifact[IdOf[proc[w].record]] = proc[w].record
    BY <1>1, <2>1 DEF IInv, AckedDurable
  <2>3. Promise!Acknowledge(proc[w].record)
    BY <1>1, <2>2 DEF Return, Promise!Acknowledge
  <2>. QED
    BY <2>1, <2>3 DEF Promise!Next
<1>2. ASSUME NEW w \in Writers, RaiseConflict(w), UNCHANGED artifact,
             proc[w].phase # "idle"
      PROVE  Promise!Next
  <2>1. proc[w].record \in Records /\ proc[w].record \in refused'
    BY <1>2, ActivePut DEF Put, RaiseConflict
  <2>2. PICK s \in Records :
          Promise!Compete(proc[w].record, s) /\ artifact[IdOf[s]] = s
    BY <1>2, <2>1 DEF IInv, RefusalJustified
  <2>3. Promise!Refuse(proc[w].record)
    BY <1>2, <2>2, LedgerAssumption DEF RaiseConflict, Promise!Refuse
  <2>. QED
    BY <2>1, <2>3 DEF Promise!Next
<1>3. ASSUME NEW w \in Writers, LinkArtifact(w)
      PROVE  [Promise!Next]_Promise!vars
  <2>1. /\ proc[w] \in Put /\ WriterInv(w) /\ proc[w] # Idle
        /\ proc[w].phase = "link" /\ proc[w].target = "artifact"
    BY <1>3, ActivePut DEF LinkArtifact, In, IInv, Idle
  <2>2. temp[w] = proc[w].record /\ proc[w].record \in Records
    BY <2>1 DEF WriterInv, Put
  <2>3. CASE artifact[Target(w)] = NoFile
    <3>1. Promise!Store(proc[w].record)
      BY <1>3, <2>2, <2>3
      DEF LinkArtifact, CreateOnly, Target, history, Promise!Store
    <3>. QED
      BY <2>2, <3>1 DEF Promise!Next
  <2>4. CASE artifact[Target(w)] # NoFile
    BY <1>3, <2>4 DEF LinkArtifact, CreateOnly, history, Promise!vars
  <2>. QED
    BY <2>3, <2>4
<1>4. ASSUME NEW w \in Writers,
             CheckSlot(w) \/ CompareExisting(w) \/ LinkSeal(w) \/ VerifySeal(w)
      PROVE  [Promise!Next]_Promise!vars
  <2>1. UNCHANGED artifact /\ proc[w].phase # "idle"
    BY <1>4 DEF CheckSlot, CompareExisting, LinkSeal, VerifySeal, In, files
  <2>2. Return(w) \/ RaiseConflict(w) \/ UNCHANGED <<acked, refused>>
    BY <1>4 DEF CheckSlot, CompareExisting, LinkSeal, VerifySeal, RaiseCorruption, history
  <2>. QED
    BY <1>1, <1>2, <2>1, <2>2 DEF Promise!vars
<1>5. ASSUME NEW w \in Writers,
             \/ ScanReleases(w) \/ CheckExists(w) \/ OpenTemp(w) \/ WriteTemp(w)
             \/ RereadArtifact(w) \/ Crash(w) \/ \E r \in Records : BeginPut(w, r)
      PROVE  UNCHANGED Promise!vars
  BY <1>5
  DEF ScanReleases, CheckExists, OpenTemp, WriteTemp, RereadArtifact, Crash,
      BeginPut, files, history, Promise!vars
<1>6. ASSUME NEW i \in Ids, Tamper(i)
      PROVE  FALSE
  BY <1>6 DEF Tamper
<1>7. CASE UNCHANGED vars
  BY <1>7 DEF vars, Promise!vars
<1>. QED
  BY <1>3, <1>4, <1>5, <1>6, <1>7 DEF Next, Step

\* The file protocol implements the write-once history: every step of every
\* writer is a Store, an Acknowledge or a Refuse of the abstract history, or
\* invisible to it.
THEOREM LedgerImplementsHistory ==
  ASSUME Tamperable = {}
  PROVE  Spec => ImplementsImmutableHistory
<1>1. IInv /\ IInv' /\ [Next]_vars => [Promise!Next]_Promise!vars
  BY RefinementStep
<1>. QED
  BY <1>1, RefinementInit, Invariance, PTL
  DEF Spec, ImplementsImmutableHistory, Promise!Spec
============================================================================

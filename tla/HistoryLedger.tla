--------------------------- MODULE HistoryLedger ---------------------------
(***************************************************************************)
(* The Git working-tree history ledger                                     *)
(* (platforms/git/history_repository.py): immutable JSON artifacts, each   *)
(* sealed by a ".sha256" sidecar, written by processes that share nothing  *)
(* but the directory.                                                      *)
(*                                                                         *)
(* A put is the code's sequence of file-system steps, one action per step  *)
(* another process can observe or interrupt: the release listing, the      *)
(* existence test, the temporary file, the hard link that publishes it,    *)
(* the re-read, and the sidecar published the same way.  A process may die *)
(* between any two of them.  The content of a file is a record, or Garbled *)
(* for bytes that do not parse (a half-written or an edited file).         *)
(***************************************************************************)
CONSTANTS
  Writers,     \* processes that run put_* on the same working tree
  Records,     \* canonical artifacts they may put
  Ids,         \* artifact ids, one "<id>.json" path each
  IdOf,        \* [Records -> Ids], the identity a record embeds
  Releases,    \* the records that are ContractReleases
  SlotOf,      \* [Releases -> (contract_id, contract_version) pairs]
  Tamperable,  \* ids whose sealed files something outside SemaPact may edit
  NoFile,      \* a path with no file
  Garbled      \* content that is not a canonical artifact or checksum

ASSUME LedgerAssumption ==
  /\ IdOf \in [Records -> Ids]
  /\ Releases \subseteq Records
  /\ SlotOf \in [Releases -> {SlotOf[r] : r \in Releases}]
  /\ Tamperable \subseteq Ids
  /\ NoFile \notin Records \cup {Garbled}
  /\ Garbled \notin Records

\* The UUIDv5 of a ContractRelease covers its whole content, so no two
\* releases share an id, and no other kind is stored in their directory.
ASSUME ReleaseIdentity ==
  \A r \in Releases, s \in Records : IdOf[r] = IdOf[s] => r = s

VARIABLES
  artifact,    \* [Ids -> Text \cup {NoFile}]: "<id>.json"
  seal,        \* [Ids -> Text \cup {NoFile}]: "<id>.json.sha256", as the text it attests
  proc,        \* the put each writer is executing
  temp,        \* [Writers -> Text \cup {NoFile}]: the writer's ".tmp" file
  acked,       \* history: records some put returned normally for
  refused,     \* history: records some put raised HistoryConflictError for
  interrupted, \* history: ids of the puts that died half-way
  tampered     \* history: ids whose sealed files were edited

vars == <<artifact, seal, proc, temp, acked, refused, interrupted, tampered>>
files == <<artifact, seal, temp>>
history == <<acked, refused, interrupted, tampered>>

Text == Records \cup {Garbled}
ReleaseIds == {IdOf[r] : r \in Releases}

Phases == {"idle", "scan", "slot", "check", "compare",
           "open", "write", "link", "reread", "verify"}

Idle == [phase |-> "idle"]
Put == [phase : Phases \ {"idle"},
        record : Records,
        listed : SUBSET Ids,              \* glob of the release directory
        target : {"artifact", "seal"},    \* the path being published
        raw : Text \cup {NoFile}]         \* text the sidecar has to attest

TypeOK ==
  /\ artifact \in [Ids -> Text \cup {NoFile}]
  /\ seal \in [Ids -> Text \cup {NoFile}]
  /\ proc \in [Writers -> Put \cup {Idle}]
  /\ temp \in [Writers -> Text \cup {NoFile}]
  /\ acked \subseteq Records
  /\ refused \subseteq Records
  /\ interrupted \subseteq Ids
  /\ tampered \subseteq Tamperable

Init ==
  /\ artifact = [i \in Ids |-> NoFile]
  /\ seal = [i \in Ids |-> NoFile]
  /\ proc = [w \in Writers |-> Idle]
  /\ temp = [w \in Writers |-> NoFile]
  /\ acked = {}
  /\ refused = {}
  /\ interrupted = {}
  /\ tampered = {}

----------------------------------------------------------------------------
(* Reading: _verify_checksum_if_present and _read_validated.               *)

\* Defect: only the form of the checksum is looked at.
SealWellFormed(i, raw) == seal[i] = NoFile \/ seal[i] # Garbled

\* A present sidecar must be a checksum, and the checksum of these bytes; a
\* missing one is tolerated (history written before sidecars existed).
SealAgrees(i, raw) == seal[i] = NoFile \/ (seal[i] # Garbled /\ seal[i] = raw)

\* The file can be read back: checksum, parsing, embedded identity.
Readable(i) ==
  /\ artifact[i] \in Records
  /\ SealAgrees(i, artifact[i])
  /\ IdOf[artifact[i]] = i

\* inspect_history_integrity for one id, written independently of Readable
\* in the code: it never raises and reports every issue it sees.
Issues(i) ==
  IF artifact[i] = NoFile
  THEN {"ORPHAN_CHECKSUM" : x \in {seal[i]} \ {NoFile}}
  ELSE {c \in {"CHECKSUM_MISSING", "CHECKSUM_INVALID", "CHECKSUM_MISMATCH",
               "ARTIFACT_INVALID", "IDENTITY_MISMATCH"} :
          \/ c = "CHECKSUM_MISSING" /\ seal[i] = NoFile
          \/ c = "CHECKSUM_INVALID" /\ seal[i] = Garbled
          \/ c = "CHECKSUM_MISMATCH" /\ seal[i] \in Records \ {artifact[i]}
          \/ c = "ARTIFACT_INVALID" /\ artifact[i] = Garbled
          \/ c = "IDENTITY_MISMATCH" /\ artifact[i] \in Records
                                     /\ IdOf[artifact[i]] # i}

----------------------------------------------------------------------------
(* One put, step by step.                                                  *)

In(w, phase) == proc[w].phase = phase
Target(w) == IdOf[proc[w].record]
Goto(w, phase) == proc' = [proc EXCEPT ![w].phase = phase]

Return(w) ==
  /\ proc' = [proc EXCEPT ![w] = Idle]
  /\ acked' = acked \cup {proc[w].record}
  /\ UNCHANGED <<refused, interrupted, tampered>>

RaiseConflict(w) ==
  /\ proc' = [proc EXCEPT ![w] = Idle]
  /\ refused' = refused \cup {proc[w].record}
  /\ UNCHANGED <<acked, interrupted, tampered>>

RaiseCorruption(w) ==
  /\ proc' = [proc EXCEPT ![w] = Idle]
  /\ UNCHANGED history

\* put_<kind>(record): a release is first compared with the other releases.
BeginPut(w, r) ==
  /\ In(w, "idle")
  /\ proc' = [proc EXCEPT ![w] =
       [phase |-> IF r \in Releases THEN "scan" ELSE "check",
        record |-> r, listed |-> {}, target |-> "artifact", raw |-> NoFile]]
  /\ UNCHANGED <<files, history>>

\* list_contract_releases: the names are collected before any file is read.
ScanReleases(w) ==
  /\ In(w, "scan")
  /\ proc' = [proc EXCEPT ![w].phase = "slot",
                          ![w].listed = {i \in ReleaseIds : artifact[i] # NoFile}]
  /\ UNCHANGED <<files, history>>

\* Defect: the release being put, found in the ledger, is in its own way.
SlotTakenByItself(w) ==
  \E i \in proc[w].listed : SlotOf[artifact[i]] = SlotOf[proc[w].record]

\* The release already holding the (contract, version) of the one being put.
SlotTaken(w) ==
  \E i \in proc[w].listed : /\ i # Target(w)
                            /\ SlotOf[artifact[i]] = SlotOf[proc[w].record]

\* Defect: unreadable releases are skipped.
CheckSlotSkippingUnreadable(w) ==
  /\ In(w, "slot")
  /\ IF \E i \in proc[w].listed : /\ Readable(i) /\ i # Target(w)
                                  /\ SlotOf[artifact[i]] = SlotOf[proc[w].record]
     THEN RaiseConflict(w)
     ELSE /\ proc' = [proc EXCEPT ![w].phase = "check", ![w].listed = {}]
          /\ UNCHANGED history
  /\ UNCHANGED files

\* Every listed file is read; one unreadable file fails the whole listing.
CheckSlot(w) ==
  /\ In(w, "slot")
  /\ \/ /\ \E i \in proc[w].listed : ~Readable(i)
        /\ RaiseCorruption(w)
     \/ /\ \A i \in proc[w].listed : Readable(i)
        /\ SlotTaken(w)
        /\ RaiseConflict(w)
     \/ /\ \A i \in proc[w].listed : Readable(i)
        /\ ~SlotTaken(w)
        /\ proc' = [proc EXCEPT ![w].phase = "check", ![w].listed = {}]
        /\ UNCHANGED history
  /\ UNCHANGED files

\* _put: path.exists()
CheckExists(w) ==
  /\ In(w, "check")
  /\ Goto(w, IF artifact[Target(w)] = NoFile THEN "open" ELSE "compare")
  /\ UNCHANGED <<files, history>>

\* Defect: any readable artifact under the id counts as this one.
AcceptExisting(w) ==
  /\ In(w, "compare")
  /\ IF Readable(Target(w))
     THEN Goto(w, "reread") /\ UNCHANGED history
     ELSE RaiseCorruption(w)
  /\ UNCHANGED files

\* _require_idempotent_existing
CompareExisting(w) ==
  /\ In(w, "compare")
  /\ \/ ~Readable(Target(w)) /\ RaiseCorruption(w)
     \/ /\ Readable(Target(w))
        /\ artifact[Target(w)] # proc[w].record
        /\ RaiseConflict(w)
     \/ /\ Readable(Target(w))
        /\ artifact[Target(w)] = proc[w].record
        /\ Goto(w, "reread")
        /\ UNCHANGED history
  /\ UNCHANGED files

\* Defect: the file is published first and filled afterwards.
OpenAndPublish(w) ==
  /\ In(w, "open")
  /\ temp' = [temp EXCEPT ![w] = Garbled]
  /\ Goto(w, "link")
  /\ UNCHANGED <<artifact, seal, history>>

\* _publish_create_only, first half: a fresh temporary file, empty so far ...
OpenTemp(w) ==
  /\ In(w, "open")
  /\ temp' = [temp EXCEPT ![w] = Garbled]
  /\ Goto(w, "write")
  /\ UNCHANGED <<artifact, seal, history>>

\* ... then the whole content, flushed to disk.
WriteTemp(w) ==
  /\ In(w, "write")
  /\ temp' = [temp EXCEPT ![w] = IF proc[w].target = "seal"
                                 THEN proc[w].raw ELSE proc[w].record]
  /\ Goto(w, "link")
  /\ UNCHANGED <<artifact, seal, history>>

\* Defect: os.replace instead of os.link.
Replace(file, i, text) == [file EXCEPT ![i] = text]

\* os.link never replaces a path.
CreateOnly(file, i, text) ==
  IF file[i] = NoFile THEN [file EXCEPT ![i] = text] ELSE file

\* Defects: a lost race is a conflict; a lost race is tried again; a new
\* artifact is acknowledged without its sidecar.
LinkLosingIsConflict(w) ==
  /\ In(w, "link") /\ proc[w].target = "artifact"
  /\ artifact' = CreateOnly(artifact, Target(w), temp[w])
  /\ temp' = [temp EXCEPT ![w] = NoFile]
  /\ IF artifact[Target(w)] = NoFile
     THEN Goto(w, "reread") /\ UNCHANGED history
     ELSE RaiseConflict(w)
  /\ UNCHANGED seal

LinkRetrying(w) ==
  /\ In(w, "link") /\ proc[w].target = "artifact"
  /\ artifact' = CreateOnly(artifact, Target(w), temp[w])
  /\ temp' = [temp EXCEPT ![w] = NoFile]
  /\ Goto(w, IF artifact[Target(w)] = NoFile THEN "reread" ELSE "open")
  /\ UNCHANGED <<seal, history>>

LinkUnsealed(w) ==
  /\ In(w, "link") /\ proc[w].target = "artifact"
  /\ artifact' = CreateOnly(artifact, Target(w), temp[w])
  /\ temp' = [temp EXCEPT ![w] = NoFile]
  /\ IF artifact[Target(w)] = NoFile
     THEN Return(w)
     ELSE Goto(w, "compare") /\ UNCHANGED history
  /\ UNCHANGED seal

\* os.link(temp, "<id>.json"); a lost race is compared like an old file.
LinkArtifact(w) ==
  /\ In(w, "link") /\ proc[w].target = "artifact"
  /\ artifact' = CreateOnly(artifact, Target(w), temp[w])
  /\ temp' = [temp EXCEPT ![w] = NoFile]
  /\ Goto(w, IF artifact[Target(w)] = NoFile THEN "reread" ELSE "compare")
  /\ UNCHANGED <<seal, history>>

\* _ensure_checksum: seal whatever the path holds now, unless it is sealed.
RereadArtifact(w) ==
  /\ In(w, "reread")
  /\ proc' = [proc EXCEPT ![w].raw = artifact[Target(w)],
                          ![w].target = "seal",
                          ![w].phase = IF seal[Target(w)] = NoFile
                                       THEN "open" ELSE "verify"]
  /\ UNCHANGED <<files, history>>

LinkSeal(w) ==
  /\ In(w, "link") /\ proc[w].target = "seal"
  /\ seal' = CreateOnly(seal, Target(w), temp[w])
  /\ temp' = [temp EXCEPT ![w] = NoFile]
  /\ \/ seal[Target(w)] = NoFile /\ Return(w)
     \/ seal[Target(w)] # NoFile /\ Goto(w, "verify") /\ UNCHANGED history
  /\ UNCHANGED artifact

VerifySeal(w) ==
  /\ In(w, "verify")
  /\ \/ SealAgrees(Target(w), proc[w].raw) /\ Return(w)
     \/ ~SealAgrees(Target(w), proc[w].raw) /\ RaiseCorruption(w)
  /\ UNCHANGED files

\* The process dies.  The temporary file it leaves behind is forgotten here:
\* its random name is not an "<id>.json", and no retry opens it again.
Crash(w) ==
  /\ ~In(w, "idle")
  /\ proc' = [proc EXCEPT ![w] = Idle]
  /\ temp' = [temp EXCEPT ![w] = NoFile]
  /\ interrupted' = interrupted \cup {Target(w)}
  /\ UNCHANGED <<artifact, seal, acked, refused, tampered>>

\* Bytes an edited "<id>.json" may hold: nonsense, or an artifact of its kind.
EditedText(i) == {Garbled} \cup {r \in Records : r \in Releases <=> i \in ReleaseIds}

\* Something else edits a sealed artifact, or its sidecar, once.
Tamper(i) ==
  /\ i \in Tamperable \ tampered
  /\ seal[i] # NoFile
  /\ \/ /\ \E x \in EditedText(i) \ {artifact[i]} :
            artifact' = [artifact EXCEPT ![i] = x]
        /\ UNCHANGED seal
     \/ /\ seal' = [seal EXCEPT ![i] = Garbled]
        /\ UNCHANGED artifact
  /\ tampered' = tampered \cup {i}
  /\ UNCHANGED <<proc, temp, acked, refused, interrupted>>

Step(w) ==
  \/ ScanReleases(w) \/ CheckSlot(w) \/ CheckExists(w) \/ CompareExisting(w)
  \/ OpenTemp(w) \/ WriteTemp(w) \/ LinkArtifact(w) \/ RereadArtifact(w)
  \/ LinkSeal(w) \/ VerifySeal(w)

Next ==
  \/ \E w \in Writers : Step(w) \/ Crash(w) \/ \E r \in Records : BeginPut(w, r)
  \/ \E i \in Ids : Tamper(i)

Spec == Init /\ [][Next]_vars

\* A running process keeps executing its put; nothing in it waits.
FairSpec == Spec /\ \A w \in Writers : WF_vars(Step(w))
----------------------------------------------------------------------------
(* Properties.                                                             *)

\* An acknowledged put is durable: whatever raced with it or died since, the
\* path holds exactly that record and the sidecar attests it (_put returns
\* only through _ensure_checksum), unless the files were edited afterwards.
AckedDurable ==
  \A r \in acked : IdOf[r] \notin tampered =>
    artifact[IdOf[r]] = r /\ seal[IdOf[r]] = r

\* A crash in the middle of a write never leaves half a file under a
\* canonical name, nor a sidecar without, or for other than, its artifact
\* (temporary file, fsync, hard link; artifact before sidecar).
NothingTorn ==
  \A i \in Ids \ tampered :
    /\ artifact[i] # NoFile => artifact[i] \in Records /\ IdOf[artifact[i]] = i
    /\ seal[i] # NoFile => seal[i] = artifact[i]

\* The ledger implements the write-once history it stands for.
Promise == INSTANCE ImmutableHistory WITH stored <- artifact, Absent <- NoFile

ImplementsImmutableHistory == Promise!Spec

\* HistoryConflictError is raised only for a real conflict: the history holds
\* a record that cannot coexist with the refused one; in particular two racing
\* puts are never both refused.
RefusalJustified ==
  \A r \in refused : \E s \in Records :
    /\ Promise!Compete(r, s)
    /\ artifact[IdOf[s]] = s \/ IdOf[s] \in tampered

\* Nothing rewrites a published file: no retry, no lost race, no conflicting
\* put replaces or removes an artifact or a sidecar (os.link, create-only).
FilesImmutable ==
  [][\A i \in Ids : i \notin tampered' =>
       /\ artifact[i] # NoFile => artifact'[i] = artifact[i]
       /\ seal[i] # NoFile => seal'[i] = seal[i]]_<<artifact, seal>>

\* Editing a sealed artifact, or its sidecar, cannot make the ledger serve
\* something else than what was acknowledged: the read fails instead, and the
\* integrity inspection, which re-implements the checks, reports the id.
TamperingDetected ==
  \A r \in acked :
    \/ artifact[IdOf[r]] = r /\ Readable(IdOf[r])
    \/ ~Readable(IdOf[r]) /\ Issues(IdOf[r]) # {}

\* The inspection reports an artifact nobody edited only while a put of it is
\* under way or after one died, and then only as lacking its sidecar: a
\* healthy history is never called corrupt.
InspectionSound ==
  \A i \in Ids \ tampered :
    /\ Issues(i) \subseteq {"CHECKSUM_MISSING"}
    /\ Issues(i) = {} \/ i \in interrupted \/ \E w \in Writers : ~In(w, "idle") /\ Target(w) = i

\* put_contract_release: a contract version is released once.  A second,
\* different release of it is refused (HistoryConflictError), and
\* get_contract_release_by_version treats two as corruption.
OneReleasePerVersion ==
  \A r, s \in Releases :
    artifact[IdOf[r]] = r /\ artifact[IdOf[s]] = s /\ SlotOf[r] = SlotOf[s] => r = s

\* An edited, unreadable release cannot make room for a second release of its
\* version: the listing fails before anything is published.
OneAckedReleasePerVersion ==
  \A r, s \in acked \cap Releases : SlotOf[r] = SlotOf[s] => r = s

\* A put that is not killed ends: the lost-race path leads back to a
\* comparison, never to another attempt to publish.
PutEnds == \A w \in Writers : ~In(w, "idle") ~> In(w, "idle")

=============================================================================

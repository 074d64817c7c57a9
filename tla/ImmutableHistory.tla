------------------------- MODULE ImmutableHistory -------------------------
(***************************************************************************)
(* What the governance history promises its callers, without files,        *)
(* checksums or processes: a write-once register per artifact id.          *)
(*                                                                         *)
(* A record is stored whole or not at all; once an id holds a record it    *)
(* holds that record for ever; a put is acknowledged only for the record   *)
(* the id holds; and a put is refused as a conflict only because another   *)
(* stored record is in its way, under the same id or, for releases, under  *)
(* the same contract and version.                                          *)
(*                                                                         *)
(* HistoryLedger, the file protocol of GitWorkingTreeHistoryRepository,    *)
(* implements this module.                                                 *)
(***************************************************************************)
CONSTANTS
  Records,   \* canonical artifacts callers may put
  Ids,       \* artifact ids, one file name each
  IdOf,      \* [Records -> Ids], the deterministic identity of a record
  Releases,  \* the records that are ContractReleases
  SlotOf,    \* [Releases -> slots], the (contract, version) of a release
  Absent     \* no record under an id

VARIABLES
  stored,    \* [Ids -> Records \cup {Absent}]
  acked,     \* records some put returned normally for
  refused    \* records some put rejected as a conflict

vars == <<stored, acked, refused>>

\* Two distinct records compete when both cannot be in the history.
Compete(r, s) ==
  /\ r # s
  /\ \/ IdOf[r] = IdOf[s]
     \/ {r, s} \subseteq Releases /\ SlotOf[r] = SlotOf[s]

Init ==
  /\ stored = [i \in Ids |-> Absent]
  /\ acked = {}
  /\ refused = {}

Store(r) ==
  /\ stored[IdOf[r]] = Absent
  /\ stored' = [stored EXCEPT ![IdOf[r]] = r]
  /\ UNCHANGED <<acked, refused>>

Acknowledge(r) ==
  /\ stored[IdOf[r]] = r
  /\ acked' = acked \cup {r}
  /\ UNCHANGED <<stored, refused>>

Refuse(r) ==
  /\ \E i \in Ids : stored[i] # Absent /\ Compete(r, stored[i])
  /\ refused' = refused \cup {r}
  /\ UNCHANGED <<stored, acked>>

Next == \E r \in Records : Store(r) \/ Acknowledge(r) \/ Refuse(r)

Spec == Init /\ [][Next]_vars
===========================================================================

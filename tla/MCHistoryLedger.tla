-------------------------- MODULE MCHistoryLedger --------------------------
(***************************************************************************)
(* Instances of HistoryLedger: two decisions with one id (a decision's id  *)
(* does not cover its messages, and decisions have no integrity            *)
(* validator), and two releases of one contract version.                   *)
(***************************************************************************)
EXTENDS HistoryLedger

CONSTANTS w1, w2, d1, d2, r1, r2

AllRecords == {d1, d2, r1, r2}
BothReleases == {r1, r2}
DecisionsAndRelease == {d1, d2, r1}
OneRelease == {r1}

MCIds == {"decision", "releaseA", "releaseB"}
MCIdOf == [r \in Records |-> IF r \in {d1, d2} THEN "decision"
                             ELSE IF r = r1 THEN "releaseA" ELSE "releaseB"]
MCSlotOf == [r \in Releases |-> "orders 1.1.0"]
============================================================================

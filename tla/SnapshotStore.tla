----------------------------- MODULE SnapshotStore -----------------------------
(***************************************************************************)
(* What reports/history promises its readers, without saying how: a store  *)
(* to which whole snapshots are added.  A run id names at most one of      *)
(* them, an audit adds at most one, every file in it is the audit's own,   *)
(* and what is in the store stays there as it is.                          *)
(***************************************************************************)
CONSTANTS Audits, RunIds, Artifacts

VARIABLE store   \* the published snapshots

Snapshot(p, i) == [run |-> i, by |-> p, files |-> [a \in Artifacts |-> p]]

Init == store = {}

Publish(p, i) ==
  /\ \A s \in store : s.run # i /\ s.by # p
  /\ store' = store \cup {Snapshot(p, i)}

Next == \E p \in Audits, i \in RunIds : Publish(p, i)

Spec == Init /\ [][Next]_store
=============================================================================

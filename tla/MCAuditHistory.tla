---------------------------- MODULE MCAuditHistory ----------------------------
(* Three audits, two run ids, and three of the twelve artifacts, in the two  *)
(* orders in which the code writes them.                                      *)
EXTENDS AuditHistory, TLC

CONSTANTS p1, p2, p3, graph, report, verdict

MCCurrentOrder == <<graph, report, verdict>>
MCHistoryOrder == <<report, graph, verdict>>

Symmetry == Permutations({p1, p2, p3})
=============================================================================

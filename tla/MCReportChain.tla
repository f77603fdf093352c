---------------------------- MODULE MCReportChain ----------------------------
(* Two candidate files stand for the five, one of them expected to be         *)
(* quarantined as four of the five are.  The candidates: one that denies in   *)
(* the form the mask knows, one whose phrase is sovereign without being a     *)
(* role collapse, which only one of the three classifiers reports, and one    *)
(* that every classifier reports, from another repository.                    *)
EXTENDS ReportChain, TLC

CONSTANTS f1, f2, p1, p2

Cand(repo, facets, mentions, signals) ==
  [repo |-> repo, facets |-> facets, mentions |-> mentions, signals |-> signals]
Says(phrase, form) == [phrase |-> phrase, form |-> form]

MCFiles == {f1, f2}
MCProcs == {p1, p2}
MCCandidates ==
  { Cand("VERIFRAX", {"projection"}, {Says("source of truth", "denied")}, {}),
    Cand("VERIFRAX", {"package"}, {Says("assigns recourse", "asserted")}, {}),
    Cand("elsewhere", {"truth"}, {}, {"secret"}) }

Symmetry == Permutations(MCFiles) \cup Permutations(MCProcs)
=============================================================================

------------------------------ MODULE MCAuditRun ------------------------------
(* A perimeter of three repositories and a fourth that is outside of it, two *)
(* packages, and every world that departs from the clean one in at most two  *)
(* of its facts.                                                             *)
EXTENDS AuditRun, TLC

CONSTANTS admissorium, auctoriseal, other, stray, p1, p2

Perimeter == {admissorium, auctoriseal, other}
MCRepos == Perimeter \cup {stray}
MCPackages == {p1, p2}

Clean ==
  [ governed |-> Perimeter, repeated |-> 0, live |-> Perimeter, classes |-> "present",
    entries |-> [r \in MCRepos |-> IF r \in Perimeter THEN 1 ELSE 0], roleOk |-> TRUE,
    license |-> [r \in MCRepos |-> "matches"], gplReadme |-> FALSE,
    packages |-> "present",
    sources |-> (p1 :> {admissorium}) @@ (p2 :> {}),
    observed |-> (p1 :> {admissorium}) @@ (p2 :> {}),
    corrupt |-> "none" ]

(* The worlds that differ from w in one fact. *)
Departures(w) ==
  {[w EXCEPT !.governed = g] : g \in SUBSET MCRepos}
  \cup {[w EXCEPT !.live = l] : l \in SUBSET MCRepos}
  \cup {[w EXCEPT !.classes = "absent"], [w EXCEPT !.roleOk = FALSE],
        [w EXCEPT !.repeated = 1], [w EXCEPT !.gplReadme = TRUE], [w EXCEPT !.packages = "absent"],
        [w EXCEPT !.corrupt = "registry"], [w EXCEPT !.corrupt = "package.json"]}
  \cup {[w EXCEPT !.entries[r] = n] : r \in MCRepos, n \in 0..2}
  \cup {[w EXCEPT !.license[r] = s] : r \in MCRepos, s \in LicenseStates}
  \cup {[w EXCEPT !.sources[p] = rs] : p \in MCPackages, rs \in SUBSET MCRepos}
  \cup {[w EXCEPT !.observed[p] = rs] : p \in MCPackages, rs \in SUBSET MCRepos}

MCWorlds ==
  {w \in UNION {Departures(v) : v \in Departures(Clean)} : w.repeated > 0 => w.governed # {}}
=============================================================================

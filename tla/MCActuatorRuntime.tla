-------------------------- MODULE MCActuatorRuntime --------------------------
(* One delivery, and a report of each kind that a decision tells apart.      *)
EXTENDS ActuatorRuntime

CONSTANTS d1, r1, r2, malformed, s1

MCRepos == {r1, r2, malformed}

Finding(severity, surface, autofix, idTag, quarantine) ==
  [ severity |-> severity, surface |-> surface, autofix |-> autofix,
    idTag |-> idTag, quarantine |-> quarantine ]

Clean == {}
Repairable == {Finding("YELLOW", "README.md", TRUE, "plain", FALSE)}
Protected == {Finding("YELLOW", "law/", TRUE, "plain", FALSE)}
Drift == {Finding("RED", "registry", FALSE, "plain", FALSE)}
Quarantining == {Finding("RED", "truth", FALSE, "plain", TRUE)}
Named == {Finding("RED", "truth", FALSE, "Quarantine", FALSE)}

MCReports == {Clean, Repairable \cup Protected, Protected, Drift, Named,
              Quarantining \cup Repairable}

MCRepairReports == {Repairable \cup Protected, Protected, Drift}

Good == [ event |-> "pull_request", delivery |-> "id", signature |-> "exact", secret |-> "set",
          json |-> TRUE, repo |-> r1, sha |-> s1 ]

MCRequests ==
  { Good,
    [Good EXCEPT !.json = FALSE], [Good EXCEPT !.event = "other"],
    [Good EXCEPT !.event = "push"], [Good EXCEPT !.event = "push", !.sha = NoSha],
    [Good EXCEPT !.repo = NoRepo], [Good EXCEPT !.repo = malformed],
    [Good EXCEPT !.event = "ping", !.sha = NoSha],
    [Good EXCEPT !.event = "ping", !.sha = NoSha, !.repo = NoRepo] }
  \cup {[Good EXCEPT !.signature = f, !.secret = s] :
           f \in SignatureForms, s \in {"set", "empty"}}
  \cup {[Good EXCEPT !.event = e, !.delivery = d] :
           e \in {"absent", "push"}, d \in {"absent", "empty", "id"}}

MCFewRequests ==
  { Good, [Good EXCEPT !.signature = "wrong"], [Good EXCEPT !.event = "other"] }

MCRefs ==
  { [app |-> TRUE, installation |-> TRUE, key |-> "ref"],
    [app |-> TRUE, installation |-> TRUE, key |-> "raw"],
    [app |-> TRUE, installation |-> TRUE, key |-> "blank"],
    [app |-> FALSE, installation |-> TRUE, key |-> "ref"],
    [app |-> TRUE, installation |-> FALSE, key |-> "ref"] }

MCFullRefs == {[app |-> TRUE, installation |-> TRUE, key |-> "ref"]}
=============================================================================

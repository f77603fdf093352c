---------------------------- MODULE HostileBattery ----------------------------
(***************************************************************************)
(* src/hostile/evaluate-hostile-fixture.js and v020/run-hostile-fixtures.js:*)
(* the battery turns each hostile fixture into a candidate, sends it along *)
(* the spine of CandidateEvaluation, and passes when every fixture is      *)
(* blocked.                                                                *)
(*                                                                         *)
(* A fixture is the change it describes (what the classifiers find in its  *)
(* files and text), the red classes whose keywords its text contains, and  *)
(* its own expectation:                                                    *)
(*   change    a candidate of CandidateEvaluation                          *)
(*   keywords  subset of the classes of the keyword search                 *)
(*   expected  [denied, red: whether admissible is false and risk is RED;  *)
(*              classes: required_red_classes; flags: required_flags]      *)
(***************************************************************************)
EXTENDS CandidateEvaluation

CONSTANTS
  Pool          \* the fixtures that somebody may write

VARIABLES
  fixtures,     \* the files of fixtures/v020/hostile
  report        \* reports/current/admissorium-v020-hostile-fixtures.json

vars == <<fixtures, report>>

Flags ==
  {"writer_enabled", "webhook_enabled", "check_run_writer_enabled",
   "contents_write_enabled", "allowed_to_mutate_truth"}

(* makeCandidate has paths and changed_paths, but no files, which is what   *)
(* the classifiers read; its content is the whole fixture, with the names   *)
(* of the flags it expects.                                                 *)
MakeCandidate(fixture) ==
  [ fixture.change EXCEPT
      !.facets = {},
      !.signals = @ \cup {k \in {"contents_write"} :
                            "contents_write_enabled" \in DOMAIN fixture.expected.flags} ]

(* The classes kept of what the classifiers found.                          *)
BaseRedClasses(mutation, risk) ==
  (mutation.classes \cup mutation.redClasses \cup risk.reasons)
    \cap {"protected_truth_mutation", "role_collapse", "package_publish_path",
          "secret_bearing_artifact", "direct_main_write_path", "writer_overreach_path",
          "token_persistence_path"}

(* What a fixture requires is found in it, by being required.               *)
HostileRedClasses(fixture) == fixture.keywords \cup fixture.expected.classes

(* callCompat tries to hand one object to a function that takes several: it *)
(* does not throw, and the function takes the wrapper for its candidate.    *)
(* The text of the wrapper holds the keys of the classifiers' answers,      *)
(* contents_write_enabled among them.                                       *)
Wrapper(candidate) ==
  [candidate EXCEPT !.facets = {}, !.signals = @ \cup {"contents_write"}]

(* The receipt is compiled of a wrapper too, which has no state.            *)
WrapperReceipt(verdict) == CompileAdmissionReceipt([verdict EXCEPT !.state = "undefined"])

AdmissionIsPositive(value) ==
  value \in {"ADMISSIBLE", "ADMISSIBLE_REPORT_ONLY", "ADMITTED_REPORT_ONLY"}

(* Of the seven fields asked for only the receipt's admission exists; every *)
(* flag of every object is the literal false.                               *)
EvaluateHostileFixture(fixture) ==
  LET candidate == MakeCandidate(fixture)
      surface == ClassifySurface(candidate)
      mutation == ClassifyMutation(candidate, surface)
      risk0 == ClassifyTruthRisk(surface, mutation)
      redClasses == BaseRedClasses(mutation, risk0) \cup HostileRedClasses(fixture)
      risk == IF redClasses # {} THEN "RED" ELSE risk0.risk
      verdict == CompileActuatorVerdict(Wrapper(candidate))
      admitted == AdmissionIsPositive(WrapperReceipt(verdict).admission)
      flags == [f \in Flags |-> FALSE]
      expected == fixture.expected
  IN [ admitted |-> admitted,
       flags    |-> flags,
       failures |->
         {k \in {"hostile_fixture_admitted"} : expected.denied /\ admitted}
         \cup {k \in {"risk"} : expected.red /\ risk # "RED"}
         \cup {k \in expected.classes : k \notin redClasses}
         \cup {k \in DOMAIN expected.flags : flags[k] # expected.flags[k]} ]

Battery(fs) ==
  LET results == {EvaluateHostileFixture(f) : f \in fs}
      passes == \A r \in results :
                  r.failures = {} /\ ~r.admitted /\ \A k \in Flags : ~r.flags[k]
  IN IF passes THEN "PASS" ELSE "FAIL"

-----------------------------------------------------------------------------
Init == fixtures = {} /\ report = "absent"

WriteFixture(f) == fixtures' = fixtures \cup {f} /\ UNCHANGED report

RemoveFixture(f) == f \in fixtures /\ fixtures' = fixtures \ {f} /\ UNCHANGED report

RunBattery == report' = Battery(fixtures) /\ UNCHANGED fixtures

Next ==
  \/ \E f \in Pool : WriteFixture(f)
  \/ \E f \in Pool : RemoveFixture(f)
  \/ RunBattery

Spec == Init /\ [][Next]_vars

(* docs/ADMISSORIUM_V020_HOSTILE_FIXTURES.md:3 "This layer proves that      *)
(* hostile candidate surfaces do not enter as admissible": when the battery *)
(* passes, the verdict on each change that it describes is a refusal.       *)
PassMeansBlocked ==
  [][ RunBattery /\ report' = "PASS"
        => \A f \in fixtures : Blocked(CompileActuatorVerdict(f.change)) ]_vars
=============================================================================

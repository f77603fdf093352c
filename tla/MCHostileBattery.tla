--------------------------- MODULE MCHostileBattery ---------------------------
(* The six shipped fixtures, each as its change, keywords and expectation.    *)
EXTENDS HostileBattery, TLC

Change(facets, mentions, signals) ==
  [facets |-> facets, mentions |-> mentions, signals |-> signals]

Fixture(change, keywords, classes, flags) ==
  [ change |-> change, keywords |-> keywords,
    expected |-> [denied |-> TRUE, red |-> TRUE, classes |-> classes,
                  flags |-> [f \in flags |-> FALSE]] ]

Says(phrase) == [phrase |-> phrase, form |-> "asserted"]

MCPool ==
  { \* main-write-bypass
    Fixture(Change({"workflow"}, {}, {"contents_write"}), {"direct_main_write_path"},
            {}, {"allowed_to_mutate_truth", "writer_enabled"}),
    \* package-publish
    Fixture(Change({"package", "workflow"}, {}, {}), {"package_publish_path"},
            {"package_publish_path"}, {}),
    \* secret-persistence
    Fixture(Change({}, {}, {}), {"secret_bearing_artifact"}, {"secret_bearing_artifact"}, {}),
    \* sovereign-role-collapse
    Fixture(Change({"projection"}, {Says("decides truth"), Says("issues authority"),
                                    Says("assigns recourse")}, {}),
            {"role_collapse"}, {"role_collapse"}, {}),
    \* truth-path-mutation
    Fixture(Change({"truth"}, {}, {}), {}, {"protected_truth_mutation"}, {}),
    \* webhook-token-overreach
    Fixture(Change({}, {}, {}), {"secret_bearing_artifact", "writer_overreach_path"}, {},
            {"webhook_enabled", "check_run_writer_enabled", "contents_write_enabled"}) }
=============================================================================

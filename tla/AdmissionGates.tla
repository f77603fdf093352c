---------------------------- MODULE AdmissionGates ----------------------------
(***************************************************************************)
(* src/admission/assert-*.ts: eleven pure gates over the objects of the    *)
(* accepted chain.  Each is handed its object, an index, some of the       *)
(* objects it binds and the surfaces that might add to it, and answers     *)
(* with findings.                                                          *)
(*                                                                         *)
(* A store s maps each kind of object to what the gates tell apart in it;  *)
(* "given" is the set of the optional inputs that the caller passes.       *)
(*   id      accepted (the -0001 object), naming (another object whose     *)
(*           text mentions the accepted id) or other                       *)
(*   formed  type, claim class and artifact are the required ones          *)
(*   refs    the kinds whose accepted path is bound by a *_ref field       *)
(*   done    the duties whose field is true, or a non-empty text           *)
(*   powers  the may_* fields that are not literally false                 *)
(*   indexed the index names the accepted object                           *)
(***************************************************************************)
EXTENDS Naturals, Sequences, FiniteSets

When(condition, code, detail) == IF condition THEN {<<code, detail>>} ELSE {}

NoYellow(red) == [red |-> red, yellow |-> {}]

Status(report) ==
  IF report.red # {} THEN "red" ELSE IF report.yellow # {} THEN "yellow" ELSE "green"

Green(report) == Status(report) = "green"

-----------------------------------------------------------------------------
(* What the gate of a link requires of its object: the kinds it binds, the  *)
(* duties it has done, the powers it denies; and the bound objects whose id *)
(* the gate checks when they are given.                                     *)
Required(binds, duties, denied, bound) ==
  [binds |-> binds, duties |-> duties, denied |-> denied, bound |-> bound]

VerificationRequired ==
  Required({"replay", "authority", "freeze", "epoch", "lock"}, {"passed"},
           {"recognize", "assign_recourse", "mutate_authority", "mutate_epoch", "infer"},
           {"replay", "authority", "freeze", "epoch"})

(* Mutant of RecognitionRequired: it may change what it recognizes.         *)
RecognitionOverVerification ==
  Required({"verification", "replay", "authority", "freeze", "epoch", "lock"},
           {"passed", "terminal"},
           {"ready_recourse", "assign_recourse", "select_remedy", "close_recourse",
            "mutate_authority", "mutate_epoch", "infer"},
           {"verification", "replay", "authority", "freeze", "epoch"})

RecognitionRequired ==
  Required({"verification", "replay", "authority", "freeze", "epoch", "lock"},
           {"passed", "terminal"},
           {"ready_recourse", "assign_recourse", "select_remedy", "close_recourse",
            "mutate_verification", "mutate_authority", "mutate_epoch", "infer"},
           {"verification", "replay", "authority", "freeze", "epoch"})

RecourseRequired ==
  Required({"recognition", "verification", "authority", "freeze", "epoch", "lock"},
           {"truth_bound", "posture", "burden", "remedy", "escalation", "closure"},
           {"recognize", "redefine_recognition", "mutate_recognition",
            "mutate_verification", "mutate_authority", "mutate_epoch", "mutate_lock",
            "infer"},
           {"verification", "authority", "freeze", "epoch"})

ContinuityRequired ==
  Required({"recognition", "recourse", "authority", "epoch", "lock"},
           {"recorded", "append_only", "reconstructable", "future_record"},
           {"transfer_authority", "mutate_authority", "mutate_epoch", "mutate_lock",
            "mutate_recognition", "mutate_recourse", "infer"},
           {"authority", "epoch", "recognition", "recourse"})

ClassOf ==
  [ verification |-> "verification-result", recognition |-> "recognition-object",
    recourse |-> "recourse-object", continuity |-> "continuity-transfer" ]

LinkFindings(k, required, s, given) ==
  IF k \notin given THEN {<<"MISSING", k>>}
  ELSE When(~s[k].formed, "WRONG_FORM", k)
       \cup When(s[k].id # "accepted", "SUBSTITUTION", k)
       \cup When(~s[k].active, "NOT_ACTIVE_TRUTH", k)
       \cup {<<"REF_DRIFT", b>> : b \in required.binds \ s[k].refs}
       \cup {<<"UNDONE", d>> : d \in required.duties \ s[k].done}
       \cup {<<"OVERCLAIM", p>> : p \in required.denied \cap s[k].powers}

(* Mutant of BoundFindings: a bound object has to be given, not to be right. *)
BoundMustBeGiven(bound, s, given) ==
  {<<"BOUND_SUBSTITUTED", b>> : b \in {x \in bound : x \notin given}}

BoundFindings(bound, s, given) ==
  {<<"BOUND_SUBSTITUTED", b>> : b \in {x \in bound \cap given : s[x].id # "accepted"}}

ProjectionFindings(k, s, given) ==
  When("projection" \in given /\ k \in s.projection.adds, "PROJECTION_ADDED", k)

ClassVisible(class, chain) == \E i \in DOMAIN chain : chain[i].class = class

LinkGate(k, required, s, given) ==
  [ red |-> LinkFindings(k, required, s, given)
            \cup When(~s[k].indexed, "INDEX_DRIFT", k)
            \cup BoundFindings(required.bound, s, given)
            \cup ProjectionFindings(k, s, given),
    yellow |-> When("lock" \in given /\ ~ClassVisible(ClassOf[k], s.lock.chain),
                    "CLASS_NOT_VISIBLE", k) ]

AssertVerificationResultRequired(s, given) ==
  LinkGate("verification", VerificationRequired, s, given)

AssertRecognitionObjectRequired(s, given) ==
  LinkGate("recognition", RecognitionRequired, s, given)

(* Recourse alone insists on a bound object: a terminal recognition.        *)
BoundRecognition(s, given) ==
  When("recognition" \notin given \/ s.recognition.id # "accepted",
       "BOUND_RECOGNITION_MISSING_OR_SUBSTITUTED", "recognition")
  \cup When("recognition" \in given /\ "terminal" \notin s.recognition.done,
            "BOUND_RECOGNITION_NOT_TERMINAL", "recognition")

AssertRecourseObjectRequired(s, given) ==
  LET gate == LinkGate("recourse", RecourseRequired, s, given)
  IN [gate EXCEPT !.red = @ \cup BoundRecognition(s, given)]

AssertContinuityTransferRequired(s, given) ==
  LinkGate("continuity", ContinuityRequired, s, given)

(* All four objects are arguments.  The freeze object, the epoch and the    *)
(* lock only have to mention the accepted id somewhere in their text, and   *)
(* nothing asks for the id of the authority object.                         *)
AssertAuthorityFreezeRequired(s, given) ==
  NoYellow(
    {<<"NOT_ACTIVE_TRUTH", k>> : k \in {x \in {"freeze", "authority"} : ~s[x].active}}
    \cup {<<"CONTEXT_MISSING", k>> : k \in {x \in {"freeze", "epoch", "lock"} : s[x].id = "other"}}
    \cup {<<"REF_SUBSTITUTED", b>> : b \in {"freeze", "epoch", "lock"} \ s.authority.refs}
    \cup When("issue_for_scope" \notin s.authority.done, "SCOPE_ISSUANCE_NOT_ALLOWED", "authority")
    \cup {<<"OVERCLAIM", p>> : p \in {"mutate_law", "mutate_epoch", "mutate_freeze", "infer"}
                                      \cap s.authority.powers})

-----------------------------------------------------------------------------
(* Three gates compare orders of claim classes.  A chain is a sequence of   *)
(* stages, each with its number, class and status; the law has an order in  *)
(* the same way.  Two gates sort by the number, one goes by the position.   *)
ExpectedOrder ==
  << "law-version", "freeze-object", "accepted-epoch", "authority-object",
     "execution-receipt", "verification-result", "recognition-object",
     "recourse-object", "continuity-transfer" >>

(* [...chain].sort((a, b) => a.stage - b.stage).map(...): a stable sort.    *)
OrderedClasses(chain) ==
  LET before(i, j) == \/ chain[i].stage < chain[j].stage
                      \/ chain[i].stage = chain[j].stage /\ i <= j
      rank == [j \in DOMAIN chain |-> Cardinality({i \in DOMAIN chain : before(i, j)})]
  IN [n \in DOMAIN chain |-> chain[CHOOSE j \in DOMAIN chain : rank[j] = n].class]

(* Mutant of SameOrder: the lengths are not compared.                       *)
SamePrefix(left, right) == \A i \in DOMAIN left : i \in DOMAIN right /\ left[i] = right[i]

SameOrder(left, right) == left = right

LockFindings(s) ==
  When(~s.lock.formed, "CHAINLOCK_WRONG_OBJECT_TYPE", "lock")
  \cup When(~s.lock.active, "CHAINLOCK_NOT_ACTIVE_TRUTH", "lock")

AssertChainlockProjectionConvergence(s, given) ==
  LET chain == s.lock.chain
      shown == "projection" \in given
  IN NoYellow(
       LockFindings(s)
       \cup When(Len(chain) # Len(ExpectedOrder), "STAGE_COUNT_INVALID", "lock")
       \cup {<<"ORDER_MISMATCH", ExpectedOrder[i]>> :
               i \in {n \in DOMAIN ExpectedOrder :
                        \/ n \notin DOMAIN chain
                        \/ chain[n].class # ExpectedOrder[n] \/ chain[n].stage # n}}
       \cup {<<"STAGE_NOT_ACTIVE_TRUTH", chain[i].class>> :
               i \in {n \in DOMAIN chain : ~chain[n].active}}
       \cup {<<"OBJECT_REF_NOT_PUBLIC", chain[i].class>> :
               i \in {n \in DOMAIN chain : ~chain[n].public}}
       \cup When(shown /\ s.projection.stages \notin {0, Len(chain)},
                 "PROJECTION_STAGE_COUNT_MISMATCH", "projection")
       \cup When(shown /\ s.projection.foreignRef, "PROJECTION_OBJECT_SUBSTITUTION", "projection"))

(* Mutant of AssertAcceptedEpochRequired: the counts are compared one way,  *)
(* those of the epoch may be lower.                                         *)
EpochUndercounts(s, given) ==
  LET classes == OrderedClasses(s.lock.chain)
  IN NoYellow(
       LockFindings(s)
       \cup When(s.epoch.id # "accepted", "EPOCH_ID_MISMATCH", "epoch")
       \cup When(~SameOrder(s.epoch.classes, classes), "CHAIN_CLASS_MISMATCH", "epoch")
       \cup {<<"EPOCH_COUNT_MISMATCH", c>> :
               c \in {x \in DOMAIN s.admissions.counts :
                        s.epoch.counts[x] > s.admissions.counts[x]}})

AssertAcceptedEpochRequired(s, given) ==
  LET classes == OrderedClasses(s.lock.chain)
  IN NoYellow(
       When(~s.epoch.formed, "EPOCH_WRONG_OBJECT_TYPE", "epoch")
       \cup When(s.epoch.id # "accepted", "EPOCH_ID_MISMATCH", "epoch")
       \cup When(~s.epoch.active, "EPOCH_NOT_ACTIVE_TRUTH", "epoch")
       \cup LockFindings(s)
       \cup When(~s.admissions.active, "ADMISSIONS_NOT_ACTIVE_TRUTH", "admissions")
       \cup When(s.epoch.stages # Len(classes), "STAGE_COUNT_MISMATCH", "epoch")
       \cup When(~SameOrder(s.epoch.classes, classes), "CHAIN_CLASS_MISMATCH", "epoch")
       \cup {<<"EPOCH_COUNT_MISMATCH", c>> :
               c \in {x \in DOMAIN s.admissions.counts :
                        s.epoch.counts[x] # s.admissions.counts[x]}}
       \cup When(s.lock.epochRef = "other", "CHAINLOCK_EPOCH_REF_MISMATCH", "lock"))

AssertClaimClassAdmissionRequired(s, given) ==
  [ red |-> When(~s.law.formed, "ADMISSION_WRONG_OBJECT_TYPE", "law")
            \cup When(~s.law.active, "ADMISSION_NOT_ACTIVE_LAW", "law")
            \cup When(~s.classes.formed, "STATE_WRONG_OBJECT_TYPE", "classes")
            \cup When(~s.classes.active, "STATE_NOT_ACTIVE_TRUTH", "classes")
            \cup LockFindings(s)
            \cup When(~SameOrder(OrderedClasses(s.law.chain), s.classes.accepted),
                      "LAW_STATE_MISMATCH", "law")
            \cup When(~SameOrder(s.classes.accepted, OrderedClasses(s.lock.chain)),
                      "STATE_CHAINLOCK_MISMATCH", "classes"),
    yellow |-> {<<"CLASS_NOT_REQUIRED", s.law.chain[i].class>> :
                  i \in {n \in DOMAIN s.law.chain : ~s.law.chain[n].required}} ]

(* Only the counts that the projection shows are compared.                  *)
AssertAdmissionCountConvergence(s, given) ==
  LET shown == IF "projection" \in given THEN s.projection.counts ELSE [c \in {} |-> 0]
  IN [ red |-> When(~s.admissions.active, "ADMISSIONS_NOT_ACTIVE_TRUTH", "admissions")
               \cup {<<"COUNT_MISMATCH", c>> :
                       c \in {x \in DOMAIN s.admissions.counts \cap DOMAIN shown :
                                shown[x] # s.admissions.counts[x]}},
       yellow |-> When(/\ "projection" \in given /\ s.projection.plainLabel
                       /\ "public" \in DOMAIN shown /\ "governed" \notin DOMAIN shown
                       /\ shown["public"] = s.admissions.counts["public"],
                       "LABEL_COLLAPSES_PUBLIC_AND_GOVERNED", "projection") ]

-----------------------------------------------------------------------------
(* What a surface says of itself: active truth in its status, its           *)
(* truth_kind or its truth_status, to be a truth source, to carry the       *)
(* cognition boundary, to be historical.                                    *)
ClaimsActiveTruth(k, s, given) ==
  k \in given /\ s[k].claims \cap {"status", "truth_kind", "truth_status", "source"} # {}

ClaimsSovereignCognition(k, s, given) ==
  k \in given /\ s[k].claims \cap {"truth_kind", "source", "cognition"} # {}

AssertActiveHistoricalTruthTypingRequired(s, given) ==
  NoYellow(
    (IF "typing" \notin given THEN {<<"MISSING", "typing">>}
     ELSE When(~s.typing.formed, "WRONG_OBJECT_TYPE", "typing")
          \cup When(s.typing.id # "accepted", "SUBSTITUTION", "typing")
          \cup When(~s.typing.active, "NOT_ACTIVE_TRUTH", "typing")
          \cup {<<"LACKS", x>> : x \in s.typing.lacks}
          \cup When(s.typing.duplicate, "DUPLICATE_ACTIVE_TRUTH_FAMILY", "typing")
          \cup When(s.typing.promotes, "PROMOTION_OVERCLAIM", "typing"))
    \cup When(~s.typing.indexed, "INDEX_DRIFT", "typing")
    \cup {<<"SURFACE_CLAIMS_ACTIVE_TRUTH", k>> :
            k \in {x \in {"projection", "status"} : ClaimsActiveTruth(x, s, given)}}
    \cup When("snapshot" \in given /\ s.snapshot.claims \cap {"status", "truth_kind"} # {},
              "SNAPSHOT_CLAIMS_ACTIVE_TRUTH", "snapshot")
    \cup When("snapshot" \in given /\ "historical" \notin s.snapshot.claims,
              "SNAPSHOT_NOT_TYPED", "snapshot"))

AssertCognitionBoundaryRequired(s, given) ==
  [ red |->
      (IF "cognition" \notin given THEN {<<"MISSING", "cognition">>}
       ELSE When(~s.cognition.formed, "WRONG_OBJECT_TYPE", "cognition")
            \cup When(s.cognition.id # "accepted", "SUBSTITUTION", "cognition")
            \cup When(~s.cognition.active, "NOT_ACTIVE", "cognition")
            \cup {<<"LACKS", x>> : x \in s.cognition.lacks \ {"allowed_class"}})
      \cup When(~s.cognition.indexed, "INDEX_DRIFT", "cognition")
      \cup {<<"SURFACE_CLAIMS_COGNITION", k>> :
              k \in {x \in {"projection", "status"} : ClaimsSovereignCognition(x, s, given)}}
      \cup When("merge" \in given /\ s.merge.byTachyrium, "MERGE_GATE_OVERCLAIM", "merge"),
    yellow |->
      When("cognition" \in given /\ "allowed_class" \in s.cognition.lacks,
           "ALLOWED_CLASS_MISSING", "cognition") ]

-----------------------------------------------------------------------------
Gates ==
  {"count", "epoch", "claim_class", "chainlock", "authority", "verification",
   "recognition", "recourse", "continuity", "typing", "cognition"}

Assess(gate, s, given) ==
  CASE gate = "count" -> AssertAdmissionCountConvergence(s, given)
    [] gate = "epoch" -> AssertAcceptedEpochRequired(s, given)
    [] gate = "claim_class" -> AssertClaimClassAdmissionRequired(s, given)
    [] gate = "chainlock" -> AssertChainlockProjectionConvergence(s, given)
    [] gate = "authority" -> AssertAuthorityFreezeRequired(s, given)
    [] gate = "verification" -> AssertVerificationResultRequired(s, given)
    [] gate = "recognition" -> AssertRecognitionObjectRequired(s, given)
    [] gate = "recourse" -> AssertRecourseObjectRequired(s, given)
    [] gate = "continuity" -> AssertContinuityTransferRequired(s, given)
    [] gate = "typing" -> AssertActiveHistoricalTruthTypingRequired(s, given)
    [] gate = "cognition" -> AssertCognitionBoundaryRequired(s, given)
=============================================================================

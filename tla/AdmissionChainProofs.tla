------------------------- MODULE AdmissionChainProofs -------------------------
(* What the gates say together of any store and any inputs: the theorems hold *)
(* for all commits and all bounds.  The properties are consequences of the    *)
(* answers alone, so that no invariant is needed to carry them along.         *)
EXTENDS AdmissionChain, FiniteSetTheorems, TLAPS

LEMMA GreenIsEmpty ==
  ASSUME NEW report, Green(report)
  PROVE  report.red = {} /\ report.yellow = {}
BY DEF Green, Status

LEMMA WhenEmpty ==
  ASSUME NEW c, NEW code, NEW detail, When(c, code, detail) = {}
  PROVE  ~c
BY DEF When

(* What the green light of a link gate stands for.                            *)
LEMMA GreenLink ==
  ASSUME NEW k, NEW required, NEW s, NEW shown,
         Green(LinkGate(k, required, s, shown))
  PROVE  /\ k \in shown
         /\ s[k].id = "accepted"
         /\ required.binds \subseteq s[k].refs
         /\ required.denied \cap s[k].powers = {}
         /\ \A b \in required.bound \cap shown : s[b].id = "accepted"
<1> DEFINE gate == LinkGate(k, required, s, shown)
<1>1. gate.red = {}
  BY GreenIsEmpty
<1>2. LinkFindings(k, required, s, shown) = {} /\ BoundFindings(required.bound, s, shown) = {}
  BY <1>1 DEF LinkGate
<1>3. k \in shown
  BY <1>2 DEF LinkFindings
<1>4. /\ When(s[k].id # "accepted", "SUBSTITUTION", k) = {}
      /\ {<<"REF_DRIFT", b>> : b \in required.binds \ s[k].refs} = {}
      /\ {<<"OVERCLAIM", p>> : p \in required.denied \cap s[k].powers} = {}
  BY <1>2, <1>3 DEF LinkFindings
<1>5. s[k].id = "accepted"
  BY <1>4, WhenEmpty
<1>6. required.binds \subseteq s[k].refs /\ required.denied \cap s[k].powers = {}
  BY <1>4
<1>7. \A b \in required.bound \cap shown : s[b].id = "accepted"
  BY <1>2 DEF BoundFindings
<1> QED BY <1>3, <1>5, <1>6, <1>7

(* The same of the recourse gate, which adds findings to those of a link.     *)
LEMMA GreenRecourse ==
  ASSUME NEW s, NEW shown, Green(AssertRecourseObjectRequired(s, shown))
  PROVE  Green(LinkGate("recourse", RecourseRequired, s, shown)) /\ "recognition" \in shown
<1> DEFINE gate == LinkGate("recourse", RecourseRequired, s, shown)
<1>1. AssertRecourseObjectRequired(s, shown)
        = [red |-> gate.red \cup BoundRecognition(s, shown), yellow |-> gate.yellow]
  BY DEF AssertRecourseObjectRequired, LinkGate
<1>2. gate.red = {} /\ gate.yellow = {} /\ BoundRecognition(s, shown) = {}
  BY <1>1, GreenIsEmpty
<1>3. When("recognition" \notin shown \/ s.recognition.id # "accepted",
           "BOUND_RECOGNITION_MISSING_OR_SUBSTITUTED", "recognition") = {}
  BY <1>2 DEF BoundRecognition
<1>4. "recognition" \in shown
  BY <1>3, WhenEmpty
<1> QED BY <1>2, <1>4 DEF Green, Status

LEMMA GreenAuthority ==
  ASSUME NEW s, NEW shown, Green(AssertAuthorityFreezeRequired(s, shown))
  PROVE  /\ {"freeze", "epoch", "lock"} \subseteq s.authority.refs
         /\ {"mutate_law", "mutate_epoch", "mutate_freeze", "infer"} \cap s.authority.powers = {}
<1>1. AssertAuthorityFreezeRequired(s, shown).red = {}
  BY GreenIsEmpty
<1>2. /\ {<<"REF_SUBSTITUTED", b>> : b \in {"freeze", "epoch", "lock"} \ s.authority.refs} = {}
      /\ {<<"OVERCLAIM", p>> : p \in {"mutate_law", "mutate_epoch", "mutate_freeze", "infer"}
                                     \cap s.authority.powers} = {}
  BY <1>1 DEF AssertAuthorityFreezeRequired, NoYellow
<1> QED BY <1>2

LEMMA LinkGates ==
  ASSUME NEW s, NEW shown
  PROVE  /\ Assess("authority", s, shown) = AssertAuthorityFreezeRequired(s, shown)
         /\ Assess("verification", s, shown)
              = LinkGate("verification", VerificationRequired, s, shown)
         /\ Assess("recognition", s, shown)
              = LinkGate("recognition", RecognitionRequired, s, shown)
         /\ Assess("recourse", s, shown) = AssertRecourseObjectRequired(s, shown)
         /\ Assess("continuity", s, shown)
              = LinkGate("continuity", ContinuityRequired, s, shown)
BY DEF Assess, AssertVerificationResultRequired, AssertRecognitionObjectRequired,
       AssertContinuityTransferRequired

(* Each of the four objects with a link gate, when its gate is green.         *)
LEMMA GateMeans ==
  /\ GateIsGreen("authority") => Green(AssertAuthorityFreezeRequired(store, given))
  /\ GateIsGreen("verification")
       => Green(LinkGate("verification", VerificationRequired, store, given))
  /\ GateIsGreen("recognition")
       => Green(LinkGate("recognition", RecognitionRequired, store, given))
  /\ GateIsGreen("recourse")
       => /\ Green(LinkGate("recourse", RecourseRequired, store, given))
          /\ "recognition" \in given
  /\ GateIsGreen("continuity")
       => Green(LinkGate("continuity", ContinuityRequired, store, given))
BY LinkGates, GreenRecourse DEF GateIsGreen

-----------------------------------------------------------------------------
(* The five gates' lists of denied powers cover the direct ground of every    *)
(* link.                                                                      *)
THEOREM GroundIsSafe == Spec => []NoLinkRewritesItsGround
<1>1. NoLinkRewritesItsGround
  <2> SUFFICES ASSUME LinksAreGreen, NEW k \in LinkKinds
               PROVE  store[k].powers \cap {"infer", "mutate_epoch", DirectlyUnder[k]} = {}
    BY DEF NoLinkRewritesItsGround
  <2>1. CASE k = "authority"
    BY <2>1, GateMeans, GreenAuthority DEF LinksAreGreen, LinkKinds, DirectlyUnder
  <2>2. CASE k = "verification"
    <3>1. VerificationRequired.denied \cap store[k].powers = {}
      BY <2>2, GateMeans, GreenLink DEF LinksAreGreen, LinkKinds
    <3> QED BY <2>2, <3>1 DEF VerificationRequired, Required, DirectlyUnder
  <2>3. CASE k = "recognition"
    <3>1. RecognitionRequired.denied \cap store[k].powers = {}
      BY <2>3, GateMeans, GreenLink DEF LinksAreGreen, LinkKinds
    <3> QED BY <2>3, <3>1 DEF RecognitionRequired, Required, DirectlyUnder
  <2>4. CASE k = "recourse"
    <3>1. RecourseRequired.denied \cap store[k].powers = {}
      BY <2>4, GateMeans, GreenLink DEF LinksAreGreen, LinkKinds
    <3> QED BY <2>4, <3>1 DEF RecourseRequired, Required, DirectlyUnder
  <2>5. CASE k = "continuity"
    <3>1. ContinuityRequired.denied \cap store[k].powers = {}
      BY <2>5, GateMeans, GreenLink DEF LinksAreGreen, LinkKinds
    <3> QED BY <2>5, <3>1 DEF ContinuityRequired, Required, DirectlyUnder
  <2> QED BY <2>1, <2>2, <2>3, <2>4, <2>5 DEF LinkKinds
<1> QED BY <1>1, PTL

(* The chain of green gates leads from every link to its whole ground, and    *)
(* every object on the way is the accepted one.                               *)
THEOREM ChainIsGrounded == Spec => []GreenChainIsGrounded
<1>1. GreenChainIsGrounded
  <2> SUFFICES ASSUME LinksAreGreen, {"freeze", "replay", "epoch", "authority"} \subseteq given
               PROVE  /\ \A k \in LinkKinds \cup {"freeze", "replay", "epoch"} :
                           store[k].id = "accepted"
                      /\ \A k \in LinkKinds : Ground[k] \subseteq Reaches(k)
    BY DEF GreenChainIsGrounded
  <2>1. /\ store["verification"].id = "accepted"
        /\ VerificationRequired.binds \subseteq store["verification"].refs
        /\ \A b \in VerificationRequired.bound \cap given : store[b].id = "accepted"
    BY GateMeans, GreenLink DEF LinksAreGreen, LinkKinds
  <2>2. /\ store["recognition"].id = "accepted"
        /\ RecognitionRequired.binds \subseteq store["recognition"].refs
    BY GateMeans, GreenLink DEF LinksAreGreen, LinkKinds
  <2>3. /\ store["recourse"].id = "accepted"
        /\ RecourseRequired.binds \subseteq store["recourse"].refs
    BY GateMeans, GreenLink DEF LinksAreGreen, LinkKinds
  <2>4. /\ store["continuity"].id = "accepted"
        /\ ContinuityRequired.binds \subseteq store["continuity"].refs
    BY GateMeans, GreenLink DEF LinksAreGreen, LinkKinds
  <2>5. {"freeze", "epoch", "lock"} \subseteq store["authority"].refs
    BY GateMeans, GreenAuthority DEF LinksAreGreen, LinkKinds
  <2>6. \A k \in LinkKinds \cup {"freeze", "replay", "epoch"} : store[k].id = "accepted"
    BY <2>1, <2>2, <2>3, <2>4 DEF LinkKinds, VerificationRequired, Required
  <2>7. Ground["authority"] \subseteq Reaches("authority")
    BY <2>5 DEF Ground, Reaches
  <2>8. Ground["verification"] \subseteq Reaches("verification")
    BY <2>1 DEF Ground, Reaches, VerificationRequired, Required
  <2>9. Ground["recognition"] \subseteq Reaches("recognition")
    BY <2>2 DEF Ground, Reaches, RecognitionRequired, Required
  <2>10. Ground["recourse"] \subseteq Reaches("recourse")
    <3>1. "recognition" \in store["recourse"].refs \cap LinkKinds
      BY <2>3 DEF RecourseRequired, Required, LinkKinds
    <3>2. store["recognition"].refs \subseteq Reaches("recourse")
      BY <3>1 DEF Reaches
    <3>3. store["recourse"].refs \subseteq Reaches("recourse")
      BY DEF Reaches
    <3> QED BY <2>2, <2>3, <3>2, <3>3
            DEF Ground, RecognitionRequired, RecourseRequired, Required
  <2>11. Ground["continuity"] \subseteq Reaches("continuity")
    <3>1. "recognition" \in store["continuity"].refs \cap LinkKinds
      BY <2>4 DEF ContinuityRequired, Required, LinkKinds
    <3>2. store["recognition"].refs \subseteq Reaches("continuity")
      BY <3>1 DEF Reaches
    <3>3. store["continuity"].refs \subseteq Reaches("continuity")
      BY DEF Reaches
    <3> QED BY <2>2, <2>4, <3>2, <3>3
            DEF Ground, RecognitionRequired, ContinuityRequired, Required
  <2>12. \A k \in LinkKinds : Ground[k] \subseteq Reaches(k)
    BY <2>7, <2>8, <2>9, <2>10, <2>11 DEF LinkKinds
  <2> QED BY <2>6, <2>12
<1> QED BY <1>1, PTL

(* A link gate that is shown a bound object other than the accepted one is    *)
(* not green.                                                                 *)
LEMMA NotGreen ==
  ASSUME NEW k, k \in given, store[k].id # "accepted"
  PROVE  /\ k \in VerificationRequired.bound \cup {"verification"} => ~GateIsGreen("verification")
         /\ k \in RecognitionRequired.bound \cup {"recognition"} => ~GateIsGreen("recognition")
         /\ k \in RecourseRequired.bound \cup {"recourse"} => ~GateIsGreen("recourse")
         /\ k \in ContinuityRequired.bound \cup {"continuity"} => ~GateIsGreen("continuity")
<1>1. k \in VerificationRequired.bound \cup {"verification"} => ~GateIsGreen("verification")
  BY GateMeans, GreenLink
<1>2. k \in RecognitionRequired.bound \cup {"recognition"} => ~GateIsGreen("recognition")
  BY GateMeans, GreenLink
<1>3. k \in RecourseRequired.bound \cup {"recourse"} => ~GateIsGreen("recourse")
  BY GateMeans, GreenLink
<1>4. k \in ContinuityRequired.bound \cup {"continuity"} => ~GateIsGreen("continuity")
  BY GateMeans, GreenLink
<1> QED BY <1>1, <1>2, <1>3, <1>4

(* The recourse gate's own check of the recognition it is bound to.           *)
LEMMA RecourseSeesRecognition ==
  ASSUME store["recognition"].id # "accepted"
  PROVE  ~GateIsGreen("recourse")
<1> SUFFICES ASSUME GateIsGreen("recourse") PROVE FALSE
  OBVIOUS
<1>1. Green(AssertRecourseObjectRequired(store, given))
  BY LinkGates DEF GateIsGreen
<1>2. AssertRecourseObjectRequired(store, given).red = {}
  BY <1>1, GreenIsEmpty
<1>3. BoundRecognition(store, given) = {}
  BY <1>2 DEF AssertRecourseObjectRequired, LinkGate
<1>4. When("recognition" \notin given \/ store.recognition.id # "accepted",
           "BOUND_RECOGNITION_MISSING_OR_SUBSTITUTED", "recognition") = {}
  BY <1>3 DEF BoundRecognition
<1> QED BY <1>4, WhenEmpty

(* Every bound object but the last of the chain is watched by two gates.      *)
THEOREM TwoGatesWatch == Spec => []SubstitutionSeenTwice
<1>1. SubstitutionSeenTwice
  <2> SUFFICES ASSUME LinkKinds \cup {"freeze", "replay", "epoch"} \subseteq given,
                      NEW k \in (LinkKinds \cup {"freeze", "replay", "epoch"}) \ {"continuity"},
                      store[k].id # "accepted"
               PROVE  \E g, h \in LinkKinds : g # h /\ ~GateIsGreen(g) /\ ~GateIsGreen(h)
    BY DEF SubstitutionSeenTwice
  <2>1. CASE k \in {"freeze", "replay", "epoch", "authority", "verification"}
    <3>1. ~GateIsGreen("recognition") /\ k \in RecognitionRequired.bound
      BY <2>1, NotGreen DEF RecognitionRequired, Required
    <3>2. ~GateIsGreen("verification")
      BY <2>1, NotGreen DEF VerificationRequired, Required
    <3> QED BY <3>1, <3>2 DEF LinkKinds
  <2>2. CASE k = "recognition"
    <3>1. ~GateIsGreen("recognition") /\ ~GateIsGreen("recourse")
      BY <2>2, NotGreen, RecourseSeesRecognition
    <3> QED BY <3>1 DEF LinkKinds
  <2>3. CASE k = "recourse"
    <3>1. ~GateIsGreen("recourse") /\ ~GateIsGreen("continuity")
      BY <2>3, NotGreen DEF ContinuityRequired, Required
    <3> QED BY <3>1 DEF LinkKinds
  <2> QED BY <2>1, <2>2, <2>3 DEF LinkKinds
<1> QED BY <1>1, PTL

-----------------------------------------------------------------------------
(* From here on: one more input.  Each gate's findings grow with its inputs.  *)
LEMMA WhenGrows ==
  ASSUME NEW c, NEW d, NEW code, NEW detail, c => d
  PROVE  When(c, code, detail) \subseteq When(d, code, detail)
BY DEF When

LEMMA LinkGrows ==
  ASSUME NEW k, NEW required, NEW s, NEW old, NEW new, old \subseteq new, k \in old
  PROVE  Keeps(LinkGate(k, required, s, new), LinkGate(k, required, s, old))
<1>1. LinkFindings(k, required, s, old) = LinkFindings(k, required, s, new)
  BY DEF LinkFindings
<1>2. BoundFindings(required.bound, s, old) \subseteq BoundFindings(required.bound, s, new)
  BY DEF BoundFindings
<1>3. ProjectionFindings(k, s, old) \subseteq ProjectionFindings(k, s, new)
  BY WhenGrows DEF ProjectionFindings
<1>4. When("lock" \in old /\ ~ClassVisible(ClassOf[k], s.lock.chain), "CLASS_NOT_VISIBLE", k)
        \subseteq
      When("lock" \in new /\ ~ClassVisible(ClassOf[k], s.lock.chain), "CLASS_NOT_VISIBLE", k)
  BY WhenGrows
<1> QED BY <1>1, <1>2, <1>3, <1>4 DEF LinkGate, Keeps

LEMMA RecourseGrows ==
  ASSUME NEW s, NEW old, NEW new, old \subseteq new, {"recourse", "recognition"} \subseteq old
  PROVE  Keeps(AssertRecourseObjectRequired(s, new), AssertRecourseObjectRequired(s, old))
<1> DEFINE gate(shown) == LinkGate("recourse", RecourseRequired, s, shown)
<1>1. \A shown : AssertRecourseObjectRequired(s, shown)
        = [red |-> gate(shown).red \cup BoundRecognition(s, shown), yellow |-> gate(shown).yellow]
  BY DEF AssertRecourseObjectRequired, LinkGate
<1>2. BoundRecognition(s, old) = BoundRecognition(s, new)
  BY DEF BoundRecognition
<1>3. Keeps(gate(new), gate(old))
  BY LinkGrows
<1> QED BY <1>1, <1>2, <1>3 DEF Keeps

LEMMA ChainlockGrows ==
  ASSUME NEW s, NEW old, NEW new, old \subseteq new
  PROVE  Keeps(AssertChainlockProjectionConvergence(s, new),
               AssertChainlockProjectionConvergence(s, old))
<1>1. When("projection" \in old /\ s.projection.stages \notin {0, Len(s.lock.chain)},
           "PROJECTION_STAGE_COUNT_MISMATCH", "projection")
        \subseteq
      When("projection" \in new /\ s.projection.stages \notin {0, Len(s.lock.chain)},
           "PROJECTION_STAGE_COUNT_MISMATCH", "projection")
  BY WhenGrows
<1>2. When("projection" \in old /\ s.projection.foreignRef,
           "PROJECTION_OBJECT_SUBSTITUTION", "projection")
        \subseteq
      When("projection" \in new /\ s.projection.foreignRef,
           "PROJECTION_OBJECT_SUBSTITUTION", "projection")
  BY WhenGrows
<1> QED BY <1>1, <1>2 DEF AssertChainlockProjectionConvergence, NoYellow, Keeps

LEMMA CountGrows ==
  ASSUME NEW s, NEW old, NEW new, old \subseteq new
  PROVE  Keeps(AssertAdmissionCountConvergence(s, new), AssertAdmissionCountConvergence(s, old))
<1>1. CASE "projection" \in old
  BY <1>1 DEF AssertAdmissionCountConvergence, Keeps
<1>2. CASE "projection" \notin old
  BY <1>2 DEF AssertAdmissionCountConvergence, Keeps, When
<1> QED BY <1>1, <1>2

LEMMA TypingGrows ==
  ASSUME NEW s, NEW old, NEW new, old \subseteq new, "typing" \in old
  PROVE  Keeps(AssertActiveHistoricalTruthTypingRequired(s, new),
               AssertActiveHistoricalTruthTypingRequired(s, old))
<1>1. "typing" \in new
  OBVIOUS
<1>2. {<<"SURFACE_CLAIMS_ACTIVE_TRUTH", k>> :
         k \in {x \in {"projection", "status"} : ClaimsActiveTruth(x, s, old)}}
        \subseteq
      {<<"SURFACE_CLAIMS_ACTIVE_TRUTH", k>> :
         k \in {x \in {"projection", "status"} : ClaimsActiveTruth(x, s, new)}}
  BY DEF ClaimsActiveTruth
<1>3. When("snapshot" \in old /\ s.snapshot.claims \cap {"status", "truth_kind"} # {},
           "SNAPSHOT_CLAIMS_ACTIVE_TRUTH", "snapshot")
        \subseteq
      When("snapshot" \in new /\ s.snapshot.claims \cap {"status", "truth_kind"} # {},
           "SNAPSHOT_CLAIMS_ACTIVE_TRUTH", "snapshot")
  BY WhenGrows
<1>4. When("snapshot" \in old /\ "historical" \notin s.snapshot.claims,
           "SNAPSHOT_NOT_TYPED", "snapshot")
        \subseteq
      When("snapshot" \in new /\ "historical" \notin s.snapshot.claims,
           "SNAPSHOT_NOT_TYPED", "snapshot")
  BY WhenGrows
<1> QED BY <1>1, <1>2, <1>3, <1>4
        DEF AssertActiveHistoricalTruthTypingRequired, NoYellow, Keeps

LEMMA CognitionGrows ==
  ASSUME NEW s, NEW old, NEW new, old \subseteq new, "cognition" \in old
  PROVE  Keeps(AssertCognitionBoundaryRequired(s, new), AssertCognitionBoundaryRequired(s, old))
<1>1. "cognition" \in new
  OBVIOUS
<1>2. {<<"SURFACE_CLAIMS_COGNITION", k>> :
         k \in {x \in {"projection", "status"} : ClaimsSovereignCognition(x, s, old)}}
        \subseteq
      {<<"SURFACE_CLAIMS_COGNITION", k>> :
         k \in {x \in {"projection", "status"} : ClaimsSovereignCognition(x, s, new)}}
  BY DEF ClaimsSovereignCognition
<1>3. When("merge" \in old /\ s.merge.byTachyrium, "MERGE_GATE_OVERCLAIM", "merge")
        \subseteq When("merge" \in new /\ s.merge.byTachyrium, "MERGE_GATE_OVERCLAIM", "merge")
  BY WhenGrows
<1> QED BY <1>1, <1>2, <1>3 DEF AssertCognitionBoundaryRequired, Keeps

(* The other three gates are given all their objects.                         *)
LEMMA RestIgnoresInputs ==
  ASSUME NEW s, NEW old, NEW new
  PROVE  /\ Keeps(AssertAcceptedEpochRequired(s, new), AssertAcceptedEpochRequired(s, old))
         /\ Keeps(AssertClaimClassAdmissionRequired(s, new),
                  AssertClaimClassAdmissionRequired(s, old))
         /\ Keeps(AssertAuthorityFreezeRequired(s, new), AssertAuthorityFreezeRequired(s, old))
<1>1. AssertAcceptedEpochRequired(s, new) = AssertAcceptedEpochRequired(s, old)
  BY Zenon DEF AssertAcceptedEpochRequired
<1>2. AssertClaimClassAdmissionRequired(s, new) = AssertClaimClassAdmissionRequired(s, old)
  BY Zenon DEF AssertClaimClassAdmissionRequired
<1>3. AssertAuthorityFreezeRequired(s, new) = AssertAuthorityFreezeRequired(s, old)
  BY Zenon DEF AssertAuthorityFreezeRequired
<1> QED BY <1>1, <1>2, <1>3 DEF Keeps

LEMMA OtherGates ==
  ASSUME NEW s, NEW shown
  PROVE  /\ Assess("count", s, shown) = AssertAdmissionCountConvergence(s, shown)
         /\ Assess("epoch", s, shown) = AssertAcceptedEpochRequired(s, shown)
         /\ Assess("claim_class", s, shown) = AssertClaimClassAdmissionRequired(s, shown)
         /\ Assess("chainlock", s, shown) = AssertChainlockProjectionConvergence(s, shown)
         /\ Assess("typing", s, shown) = AssertActiveHistoricalTruthTypingRequired(s, shown)
         /\ Assess("cognition", s, shown) = AssertCognitionBoundaryRequired(s, shown)
BY DEF Assess

(* Evidence only adds findings: in every gate, for every store.               *)
THEOREM EvidenceOnlyAdds == Spec => MoreEvidenceNeverExcuses
<1>1. ASSUME given \subseteq given', NEW gate \in Gates, Insists(gate) \subseteq given
      PROVE  Keeps(Assess(gate, store, given'), Assess(gate, store, given))
  <2>1. CASE gate \in {"count", "epoch", "claim_class", "chainlock", "authority"}
    BY <1>1, <2>1, OtherGates, LinkGates, CountGrows, ChainlockGrows, RestIgnoresInputs
  <2>2. CASE gate \in {"verification", "recognition", "continuity"}
    <3>1. gate \in given
      BY <1>1, <2>2 DEF Insists
    <3>2. CASE gate = "verification"
      <4>1. Keeps(LinkGate("verification", VerificationRequired, store, given'),
                  LinkGate("verification", VerificationRequired, store, given))
        BY <1>1, <3>1, <3>2, LinkGrows
      <4> QED BY <3>2, <4>1, LinkGates
    <3>3. CASE gate = "recognition"
      <4>1. Keeps(LinkGate("recognition", RecognitionRequired, store, given'),
                  LinkGate("recognition", RecognitionRequired, store, given))
        BY <1>1, <3>1, <3>3, LinkGrows
      <4> QED BY <3>3, <4>1, LinkGates
    <3>4. CASE gate = "continuity"
      <4>1. Keeps(LinkGate("continuity", ContinuityRequired, store, given'),
                  LinkGate("continuity", ContinuityRequired, store, given))
        BY <1>1, <3>1, <3>4, LinkGrows
      <4> QED BY <3>4, <4>1, LinkGates
    <3> QED BY <2>2, <3>2, <3>3, <3>4
  <2>3. CASE gate = "recourse"
    <3>1. {"recourse", "recognition"} \subseteq given
      BY <1>1, <2>3 DEF Insists
    <3> QED BY <1>1, <2>3, <3>1, LinkGates, RecourseGrows
  <2>4. CASE gate = "typing"
    <3>1. "typing" \in given
      BY <1>1, <2>4 DEF Insists
    <3> QED BY <1>1, <2>4, <3>1, OtherGates, TypingGrows
  <2>5. CASE gate = "cognition"
    <3>1. "cognition" \in given
      BY <1>1, <2>5 DEF Insists
    <3> QED BY <1>1, <2>5, <3>1, OtherGates, CognitionGrows
  <2> QED BY <2>1, <2>2, <2>3, <2>4, <2>5 DEF Gates
<1>2. [ store' = store /\ given \subseteq given' =>
          \A gate \in Gates : Insists(gate) \subseteq given =>
            Keeps(Assess(gate, store, given'), Assess(gate, store, given)) ]_vars
  BY <1>1
<1> QED BY <1>2, PTL DEF MoreEvidenceNeverExcuses

-----------------------------------------------------------------------------
(* The gates that sort read a lock whose stages stand in their own place as   *)
(* the gate that goes by position does.                                       *)
LEMMA SortedInPlace ==
  ASSUME NEW n \in Nat, NEW chain, DOMAIN chain = 1..n,
         \A i \in 1..n : chain[i].stage = i
  PROVE  OrderedClasses(chain) = [i \in 1..n |-> chain[i].class]
<1> DEFINE before(i, j) == \/ chain[i].stage < chain[j].stage
                           \/ chain[i].stage = chain[j].stage /\ i <= j
           rank == [j \in DOMAIN chain |-> Cardinality({i \in DOMAIN chain : before(i, j)})]
<1>1. ASSUME NEW j \in 1..n
      PROVE  rank[j] = j
  <2>1. {i \in 1..n : before(i, j)} = 1..j
    OBVIOUS
  <2>2. Cardinality(1..j) = j
    BY FS_Interval
  <2> QED BY <2>1, <2>2
<1> HIDE DEF rank
<1>2. ASSUME NEW i \in 1..n
      PROVE  (CHOOSE j \in 1..n : rank[j] = i) = i
  BY <1>1
<1>3. OrderedClasses(chain)
        = [i \in 1..n |-> chain[CHOOSE j \in 1..n : rank[j] = i].class]
  BY DEF OrderedClasses, rank
<1> QED BY <1>2, <1>3

LEMMA GreenChainlock ==
  ASSUME NEW s, NEW shown, Green(AssertChainlockProjectionConvergence(s, shown)),
         NEW n \in Nat, DOMAIN s.lock.chain = 1..n, Len(s.lock.chain) = n
  PROVE  /\ OrderedClasses(s.lock.chain) = ExpectedOrder
         /\ "projection" \in shown => s.projection.stages \in {0, n}
<1> DEFINE chain == s.lock.chain
           wrong == {m \in DOMAIN ExpectedOrder :
                       \/ m \notin DOMAIN chain
                       \/ chain[m].class # ExpectedOrder[m] \/ chain[m].stage # m}
<1>1. AssertChainlockProjectionConvergence(s, shown).red = {}
  BY GreenIsEmpty
<1>2. /\ When(Len(chain) # Len(ExpectedOrder), "STAGE_COUNT_INVALID", "lock") = {}
      /\ {<<"ORDER_MISMATCH", ExpectedOrder[i]>> : i \in wrong} = {}
      /\ When("projection" \in shown /\ s.projection.stages \notin {0, Len(chain)},
              "PROJECTION_STAGE_COUNT_MISMATCH", "projection") = {}
  BY <1>1 DEF AssertChainlockProjectionConvergence, NoYellow
<1>3. Len(chain) = Len(ExpectedOrder)
  BY <1>2, WhenEmpty
<1>4. wrong = {}
  BY <1>2
<1>5. DOMAIN ExpectedOrder = 1..Len(ExpectedOrder) /\ Len(ExpectedOrder) = 9
  BY DEF ExpectedOrder
<1>6. n = 9
  BY <1>3, <1>5
<1>7. \A m \in 1..9 : chain[m].class = ExpectedOrder[m] /\ chain[m].stage = m
  BY <1>4, <1>5
<1>8. OrderedClasses(chain) = [i \in 1..9 |-> chain[i].class]
  <2>1. DOMAIN chain = 1..9 /\ \A i \in 1..9 : chain[i].stage = i
    BY <1>6, <1>7
  <2> HIDE DEF chain, wrong
  <2> QED BY <2>1, SortedInPlace
<1>9. [i \in 1..9 |-> chain[i].class] = ExpectedOrder
  <2>1. ExpectedOrder = [i \in 1..9 |-> ExpectedOrder[i]]
    BY DEF ExpectedOrder
  <2> QED BY <1>7, <2>1
<1>10. ~("projection" \in shown /\ s.projection.stages \notin {0, Len(chain)})
  BY <1>2, WhenEmpty
<1> QED BY <1>8, <1>9, <1>10

LEMMA GreenEpoch ==
  ASSUME NEW s, NEW shown, Green(AssertAcceptedEpochRequired(s, shown))
  PROVE  /\ s.epoch.classes = OrderedClasses(s.lock.chain)
         /\ s.epoch.stages = Len(OrderedClasses(s.lock.chain))
         /\ \A c \in DOMAIN s.admissions.counts : s.epoch.counts[c] = s.admissions.counts[c]
<1> DEFINE classes == OrderedClasses(s.lock.chain)
<1>1. AssertAcceptedEpochRequired(s, shown).red = {}
  BY GreenIsEmpty
<1>2. /\ When(s.epoch.stages # Len(classes), "STAGE_COUNT_MISMATCH", "epoch") = {}
      /\ When(~SameOrder(s.epoch.classes, classes), "CHAIN_CLASS_MISMATCH", "epoch") = {}
      /\ {<<"EPOCH_COUNT_MISMATCH", c>> :
            c \in {x \in DOMAIN s.admissions.counts :
                     s.epoch.counts[x] # s.admissions.counts[x]}} = {}
  BY <1>1 DEF AssertAcceptedEpochRequired, NoYellow
<1>3. s.epoch.stages = Len(classes) /\ s.epoch.classes = classes
  BY <1>2, WhenEmpty DEF SameOrder
<1> QED BY <1>2, <1>3

LEMMA GreenClasses ==
  ASSUME NEW s, NEW shown, Green(AssertClaimClassAdmissionRequired(s, shown))
  PROVE  s.classes.accepted = OrderedClasses(s.lock.chain)
<1>1. AssertClaimClassAdmissionRequired(s, shown).red = {}
  BY GreenIsEmpty
<1>2. When(~SameOrder(s.classes.accepted, OrderedClasses(s.lock.chain)),
           "STATE_CHAINLOCK_MISMATCH", "classes") = {}
  BY <1>1 DEF AssertClaimClassAdmissionRequired
<1> QED BY <1>2, WhenEmpty DEF SameOrder

(* What is in the store was accepted or committed.                            *)
LEMMA TypeInit == Init => TypeOK
BY BoundsAssumption DEF Init, TypeOK

LEMMA TypeStep == TypeOK /\ [Next]_vars => TypeOK'
<1> SUFFICES ASSUME TypeOK, [Next]_vars PROVE TypeOK'
  OBVIOUS
<1>1. ASSUME NEW change \in Changes, Publish(change) PROVE TypeOK'
  <2>1. /\ store' = [k \in DOMAIN store |->
                       IF k \in DOMAIN change THEN change[k] ELSE store[k]]
        /\ given' = given
    BY <1>1 DEF Publish
  <2>2. DOMAIN store' = DOMAIN Accepted
    BY <2>1 DEF TypeOK
  <2>3. ASSUME NEW k \in DOMAIN store'
        PROVE  \/ store'[k] = Accepted[k]
               \/ \E c \in Changes : k \in DOMAIN c /\ store'[k] = c[k]
    <3>1. CASE k \in DOMAIN change
      BY <2>1, <2>3, <3>1
    <3>2. CASE k \notin DOMAIN change
      <4>1. store'[k] = store[k] /\ k \in DOMAIN store
        BY <2>1, <2>3, <3>2
      <4> QED BY <4>1 DEF TypeOK
    <3> QED BY <3>1, <3>2
  <2>4. commits' \in 0..MaxCommits
    BY <1>1, BoundsAssumption DEF Publish, TypeOK
  <2> QED BY <2>1, <2>2, <2>3, <2>4 DEF TypeOK
<1>2. ASSUME NEW x \in Inputs, Supply(x) PROVE TypeOK'
  BY <1>2 DEF Supply, TypeOK
<1>3. ASSUME NEW x \in Inputs, Withhold(x) PROVE TypeOK'
  BY <1>3 DEF Withhold, TypeOK
<1>4. CASE UNCHANGED vars
  BY <1>4 DEF TypeOK, vars
<1> QED BY <1>1, <1>2, <1>3, <1>4 DEF Next

THEOREM TypeCorrect == Spec => []TypeOK
BY TypeInit, TypeStep, PTL DEF Spec

LEMMA LockIsArray ==
  ASSUME TypeOK
  PROVE  IsArray(store["lock"].chain)
<1>1. "lock" \in DOMAIN store
  BY DEF TypeOK, Accepted
<1>2. CASE store["lock"] = Accepted["lock"]
  <2>1. DOMAIN ExpectedOrder = 1..9
    BY DEF ExpectedOrder
  <2>2. IsArray(Chain(ExpectedOrder))
    BY <2>1 DEF Chain, IsArray
  <2>3. store["lock"].chain = Chain(ExpectedOrder)
    BY <1>2 DEF Accepted
  <2> QED BY <2>2, <2>3
<1>3. CASE \E change \in Changes : "lock" \in DOMAIN change /\ store["lock"] = change["lock"]
  BY <1>3, LocksAssumption
<1> QED BY <1>1, <1>2, <1>3 DEF TypeOK

(* What three gates read in three ways is one order.                          *)
THEOREM OneOrder == Spec => []OrdersAgree
<1>1. ASSUME TypeOK PROVE OrdersAgree
  <2> SUFFICES ASSUME GateIsGreen("epoch"), GateIsGreen("claim_class")
               PROVE  /\ store["epoch"].classes = store["classes"].accepted
                      /\ GateIsGreen("chainlock") => store["classes"].accepted = ExpectedOrder
    BY DEF OrdersAgree
  <2>1. store["epoch"].classes = OrderedClasses(store["lock"].chain)
    BY GreenEpoch, OtherGates DEF GateIsGreen
  <2>2. store["classes"].accepted = OrderedClasses(store["lock"].chain)
    BY GreenClasses, OtherGates DEF GateIsGreen
  <2>3. ASSUME GateIsGreen("chainlock")
        PROVE  OrderedClasses(store["lock"].chain) = ExpectedOrder
    <3>1. Green(AssertChainlockProjectionConvergence(store, given))
      BY <2>3, OtherGates DEF GateIsGreen
    <3>2. PICK n \in Nat : DOMAIN store["lock"].chain = 1..n /\ Len(store["lock"].chain) = n
      BY <1>1, LockIsArray DEF IsArray
    <3> QED BY <3>1, <3>2, GreenChainlock
  <2> QED BY <2>1, <2>2, <2>3
<1> QED BY <1>1, TypeCorrect, PTL

LEMMA GreenCount ==
  ASSUME Green(AssertAdmissionCountConvergence(store, given)), "projection" \in given
  PROVE  \A c \in DOMAIN store["projection"].counts \cap DOMAIN store["admissions"].counts :
           store["projection"].counts[c] = store["admissions"].counts[c]
<1>1. AssertAdmissionCountConvergence(store, given).red = {}
  BY GreenIsEmpty
<1>2. {<<"COUNT_MISMATCH", c>> :
         c \in {x \in DOMAIN store["admissions"].counts \cap DOMAIN store["projection"].counts :
                  store["projection"].counts[x] # store["admissions"].counts[x]}} = {}
  BY <1>1 DEF AssertAdmissionCountConvergence
<1> QED BY <1>2

(* What the projection shows is what the epoch accepted.                      *)
THEOREM ShownIsAccepted == Spec => []ShownCountsAreAccepted
<1>1. ASSUME TypeOK PROVE ShownCountsAreAccepted
  <2> SUFFICES ASSUME GateIsGreen("epoch"), "projection" \in given
               PROVE  /\ GateIsGreen("count") =>
                           \A c \in DOMAIN store["projection"].counts
                                      \cap DOMAIN store["admissions"].counts :
                             store["projection"].counts[c] = store["epoch"].counts[c]
                      /\ GateIsGreen("chainlock") =>
                           store["projection"].stages \in {0, store["epoch"].stages}
    BY DEF ShownCountsAreAccepted
  <2>1. /\ store["epoch"].stages = Len(OrderedClasses(store["lock"].chain))
        /\ \A c \in DOMAIN store["admissions"].counts :
             store["epoch"].counts[c] = store["admissions"].counts[c]
    BY GreenEpoch, OtherGates DEF GateIsGreen
  <2>2. ASSUME GateIsGreen("count")
        PROVE  \A c \in DOMAIN store["projection"].counts
                          \cap DOMAIN store["admissions"].counts :
                 store["projection"].counts[c] = store["epoch"].counts[c]
    BY <2>1, <2>2, GreenCount, OtherGates DEF GateIsGreen
  <2>3. ASSUME GateIsGreen("chainlock")
        PROVE  store["projection"].stages \in {0, store["epoch"].stages}
    <3>1. Green(AssertChainlockProjectionConvergence(store, given))
      BY <2>3, OtherGates DEF GateIsGreen
    <3>2. PICK n \in Nat : DOMAIN store["lock"].chain = 1..n /\ Len(store["lock"].chain) = n
      BY <1>1, LockIsArray DEF IsArray
    <3>3. /\ OrderedClasses(store["lock"].chain) = ExpectedOrder
          /\ store["projection"].stages \in {0, n}
      BY <3>1, <3>2, GreenChainlock
    <3>4. DOMAIN OrderedClasses(store["lock"].chain) = DOMAIN store["lock"].chain
      BY DEF OrderedClasses
    <3>5. DOMAIN ExpectedOrder = 1..9 /\ Len(ExpectedOrder) = 9
      BY DEF ExpectedOrder
    <3>6. 1..n = 1..9
      BY <3>2, <3>3, <3>4, <3>5
    <3>7. n = 9
      BY <3>6
    <3> QED BY <2>1, <3>3, <3>5, <3>7
  <2> QED BY <2>2, <2>3
<1> QED BY <1>1, TypeCorrect, PTL
=============================================================================

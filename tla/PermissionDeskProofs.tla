--------------------------- MODULE PermissionDeskProofs ---------------------------
(***************************************************************************)
(* The permission decision proved for any spellings of modes, any paths    *)
(* and any number of them.  One invariant carries all: the last answer is  *)
(* what decideWrite says of the paths, the stop and the policy it was      *)
(* given, and those paths are a prefix of the paths the change has now.    *)
(***************************************************************************)
EXTENDS PermissionDesk, FiniteSetTheorems, TLAPS

Answered(a) ==
  DecideWrite(WriteRequest(request.mode, request.class, a.paths, request.execute),
              LoadedModes, LoadProtectedPathsPolicy(a.file), a.stop)

IsPrefixOf(s, t) ==
  DOMAIN s \subseteq DOMAIN t /\ \A i \in DOMAIN s : t[i] = s[i]

AnswerIsADecision ==
  answer.asked =>
    /\ answer.decision = Answered(answer).decision
    /\ answer.allowed = Answered(answer).allowed
    /\ answer.matched = Answered(answer).matched
    /\ IsPrefixOf(answer.paths, paths)

AnswerType ==
  answer \in [ asked : BOOLEAN, paths : Seq(Pool), stop : BOOLEAN, file : BOOLEAN,
               decision : Decisions, allowed : BOOLEAN,
               matched : {answer.matched} ]

IInv ==
  /\ request \in Requests
  /\ paths \in Seq(Pool) /\ Len(paths) <= MaxPaths
  /\ stop \in BOOLEAN /\ policyFile \in BOOLEAN
  /\ AnswerType
  /\ ~answer.asked => ~answer.allowed /\ ~answer.stop /\ answer.decision = "none"
  /\ AnswerIsADecision

(* What decideWrite returns is well typed, and obeys the stop.              *)
LEMMA DecisionShape ==
  ASSUME NEW req, NEW modes, NEW classes, NEW s \in BOOLEAN,
         NEW d, d = DecideWrite(req, modes, classes, s)
  PROVE  /\ d.decision \in Decisions
         /\ d.allowed \in BOOLEAN
         /\ s => ~d.allowed /\ d.decision = "DENY_WRITE_DISABLED"
  BY DEF DecideWrite, Decisions

(* A refusal for a protected path stands whatever the mode.                 *)
LEMMA ReviewDenies ==
  ASSUME NEW req, NEW modes, NEW classes, NEW s \in BOOLEAN,
         TouchesProtected(req.paths, classes),
         DecideWrite(req, modes, classes, s).allowed
  PROVE  req.class \in LocalClasses \cup {"CHECK_RUN"}
  BY DEF DecideWrite, AllowedByClass

(* More touched paths only add reasons to refuse.                           *)
LEMMA AllowedShrinks ==
  ASSUME NEW mode, NEW class, NEW execute, NEW modes, NEW classes, NEW s \in BOOLEAN,
         NEW p, NEW q, IsPrefixOf(p, q),
         DecideWrite(WriteRequest(mode, class, q, execute), modes, classes, s).allowed
  PROVE  DecideWrite(WriteRequest(mode, class, p, execute), modes, classes, s).allowed
<1> DEFINE rp == WriteRequest(mode, class, p, execute)
           rq == WriteRequest(mode, class, q, execute)
           reviewP == TouchesProtected(p, classes)
           reviewQ == TouchesProtected(q, classes)
<1>1. reviewP => reviewQ
  BY DEF IsPrefixOf, TouchesProtected
<1>2. /\ rp.mode = mode /\ rp.class = class /\ rp.execute = execute /\ rp.paths = p
      /\ rq.mode = mode /\ rq.class = class /\ rq.execute = execute /\ rq.paths = q
  BY DEF WriteRequest
<1>3. ~s /\ AllowedByClass(rq, modes, reviewQ)
        /\ (class \in RemoteWriteClasses => execute)
  BY <1>2 DEF DecideWrite
<1>4. AllowedByClass(rp, modes, reviewP)
  <2> HIDE DEF rp, rq, reviewP, reviewQ
  <2> QED
    BY <1>1, <1>2, <1>3 DEF AllowedByClass, ProjectionRepairAllowed
<1> QED
  BY <1>2, <1>3, <1>4 DEF DecideWrite

LEMMA InitInvariant == Init => IInv
<1> SUFFICES ASSUME Init PROVE IInv
  OBVIOUS
<1>1. paths = <<>> /\ Len(paths) = 0 /\ paths \in Seq(Pool)
  BY DEF Init
<1>2. Len(paths) <= MaxPaths
  BY <1>1, DeskAssumption
<1> QED
  BY <1>1, <1>2 DEF Init, IInv, NoAnswer, AnswerType, AnswerIsADecision, Decisions

LEMMA StepInvariant == IInv /\ [Next]_vars => IInv'
<1> SUFFICES ASSUME IInv, [Next]_vars PROVE IInv'
  OBVIOUS
<1> USE DEF IInv
<1>1. ASSUME NEW p \in Pool, TouchPath(p) PROVE IInv'
  <2>1. /\ paths' \in Seq(Pool) /\ Len(paths') = Len(paths) + 1
        /\ IsPrefixOf(paths, paths')
    BY <1>1 DEF TouchPath, IsPrefixOf
  <2>2. Len(paths') <= MaxPaths
    BY <1>1, <2>1, DeskAssumption DEF TouchPath
  <2>3. AnswerIsADecision'
    BY <1>1, <2>1 DEF TouchPath, AnswerIsADecision, Answered, IsPrefixOf
  <2> QED
    BY <1>1, <2>1, <2>2, <2>3 DEF TouchPath, AnswerType
<1>2. CASE ToggleStop
  BY <1>2 DEF ToggleStop, AnswerType, AnswerIsADecision, Answered
<1>3. CASE TogglePolicyFile
  BY <1>3 DEF TogglePolicyFile, AnswerType, AnswerIsADecision, Answered
<1>4. CASE AskDecideWrite
  <2> DEFINE d == DecideWrite(WriteRequest(request.mode, request.class, paths, request.execute),
                              LoadedModes, LoadProtectedPathsPolicy(policyFile), stop)
  <2>1. answer' = [ asked |-> TRUE, paths |-> paths, stop |-> stop, file |-> policyFile,
                    decision |-> d.decision, allowed |-> d.allowed, matched |-> d.matched ]
    BY <1>4 DEF AskDecideWrite
  <2>2. UNCHANGED <<request, paths, stop, policyFile>>
    BY <1>4 DEF AskDecideWrite
  <2>3. d.decision \in Decisions /\ d.allowed \in BOOLEAN
    BY DecisionShape
  <2>4. d = Answered(answer)'
    BY <2>1, <2>2 DEF Answered
  <2>5. IsPrefixOf(paths, paths)
    BY DEF IsPrefixOf
  <2> HIDE DEF d
  <2> QED
    BY <2>1, <2>2, <2>3, <2>4, <2>5 DEF AnswerType, AnswerIsADecision
<1>5. CASE UNCHANGED vars
  BY <1>5 DEF vars, AnswerType, AnswerIsADecision, Answered
<1> QED
  BY <1>1, <1>2, <1>3, <1>4, <1>5 DEF Next

LEMMA Invariant == Spec => []IInv
  BY InitInvariant, StepInvariant, PTL DEF Spec

-----------------------------------------------------------------------------
(* A set of numbers has a least one: otherwise the segments below its       *)
(* members would descend for ever in the order of strict inclusion.         *)
LEMMA LeastElement ==
  ASSUME NEW T \in SUBSET Nat, T # {}
  PROVE  \E m \in T : \A n \in T : m <= n
<1> DEFINE Segments == {0 .. k : k \in T}
           R == StrictSubsetOrdering(Nat)
           F == FiniteSubsetsOf(Nat)
<1>1. Segments \subseteq F /\ Segments # {}
  <2>1. \A k \in T : IsFiniteSet(0 .. k) /\ 0 .. k \subseteq Nat
    BY FS_Interval
  <2> QED
    BY <2>1 DEF FiniteSubsetsOf
<1>2. IsWellFoundedOn(R, F)
  BY FS_StrictSubsetOrderingWellFounded
<1>3. \A m, n \in Nat : n < m => <<0 .. n, 0 .. m>> \in R
  BY DEF StrictSubsetOrdering
<1>4. \E U \in Segments : \A V \in Segments : ~ (<<V, U>> \in R)
  <2> HIDE DEF Segments, R, F
  <2> QED
    BY <1>1, <1>2, WFMin
<1>5. PICK m \in T : \A n \in T : ~ (<<0 .. n, 0 .. m>> \in R)
  BY <1>4
<1> HIDE DEF R
<1>6. \A n \in T : ~ (n < m)
  BY <1>3, <1>5
<1> QED
  BY <1>6

(* The class that is looked up for a protected path is one of the policy's. *)
LEMMA ClassOfProtectedPath ==
  ASSUME NEW k \in Nat, NEW classes, DOMAIN classes = 1 .. k, NEW path, IsProtected(path, classes)
  PROVE  \E i \in DOMAIN classes : ProtectedPathClassFor(path, classes) = classes[i].id
<1> DEFINE First(i) == /\ Protects(classes[i], path)
                       /\ \A j \in 1 .. (i - 1) : ~Protects(classes[j], path)
           T == {i \in DOMAIN classes : Protects(classes[i], path)}
           c == CHOOSE i \in DOMAIN classes : First(i)
<1>1. T \in SUBSET Nat /\ T # {}
  BY DEF IsProtected
<1>2. PICK m \in T : \A n \in T : m <= n
  BY <1>1, LeastElement
<1>3. m \in DOMAIN classes /\ First(m)
  BY <1>2
<1>4. c \in DOMAIN classes
  BY <1>3
<1>5. ProtectedPathClassFor(path, classes) = classes[c].id
  BY DEF ProtectedPathClassFor
<1> QED
  BY <1>4, <1>5

(* A change that touches a protected path matches some class of the policy. *)
LEMMA ClassOfProtectedChange ==
  ASSUME NEW k \in Nat, NEW classes, DOMAIN classes = 1 .. k, NEW P, NEW changed \in Seq(P),
         TouchesProtected(changed, classes)
  PROVE  \E i \in DOMAIN classes : MatchedProtectedClass(changed, classes) = classes[i].id
<1> DEFINE First(i) == /\ IsProtected(changed[i], classes)
                       /\ \A j \in 1 .. (i - 1) : ~IsProtected(changed[j], classes)
           T == {i \in DOMAIN changed : IsProtected(changed[i], classes)}
           c == CHOOSE i \in DOMAIN changed : First(i)
<1>1. DOMAIN changed = 1 .. Len(changed) /\ Len(changed) \in Nat
  OBVIOUS
<1>2. T \in SUBSET Nat /\ T # {}
  BY <1>1 DEF TouchesProtected
<1>3. PICK m \in T : \A n \in T : m <= n
  BY <1>2, LeastElement
<1>4. m \in DOMAIN changed /\ First(m)
  BY <1>1, <1>3
<1>5. c \in DOMAIN changed /\ First(c)
  BY <1>4
<1>6. MatchedProtectedClass(changed, classes) = ProtectedPathClassFor(changed[c], classes)
  BY DEF MatchedProtectedClass
<1> QED
  BY <1>5, <1>6, ClassOfProtectedPath

(* Every class of either policy has a name.                                 *)
LEMMA PolicyClasses ==
  ASSUME NEW file \in BOOLEAN, NEW classes, classes = LoadProtectedPathsPolicy(file)
  PROVE  \E n \in Nat : /\ DOMAIN classes = 1 .. n
                       /\ \A i \in 1 .. n : classes[i].id # NoClass
<1>1. \A id, globs : Class(id, globs).id = id
  BY DEF Class
<1>2. CASE file
  <2>1. classes = FileProtectedClasses
    BY <1>2 DEF LoadProtectedPathsPolicy
  <2>2. DOMAIN classes = 1 .. 11
    BY <2>1 DEF FileProtectedClasses
  <2>3. \A i \in 1 .. 11 : classes[i].id # NoClass
    BY <1>1, <2>1 DEF FileProtectedClasses, NoClass
  <2> QED
    BY <2>2, <2>3
<1>3. CASE ~file
  <2>1. classes = DefaultProtectedClasses
    BY <1>3 DEF LoadProtectedPathsPolicy
  <2>2. DOMAIN classes = 1 .. 12
    BY <2>1 DEF DefaultProtectedClasses
  <2>3. \A i \in 1 .. 12 : classes[i].id # NoClass
    BY <1>1, <2>1 DEF DefaultProtectedClasses, NoClass
  <2> QED
    BY <2>2, <2>3
<1> QED
  BY <1>2, <1>3

-----------------------------------------------------------------------------
(* A change that touches a protected path of app/permissions.ts gets no     *)
(* write but local reports and its check run, for any modes and paths.      *)
THEOREM ProtectedPathsStay == Spec => []ProtectedNeverWritten
<1>1. IInv => ProtectedNeverWritten
  <2> SUFFICES ASSUME IInv, answer.allowed,
                      NEW i \in DOMAIN answer.paths,
                      IsProtected(answer.paths[i], LoadProtectedPathsPolicy(answer.file))
               PROVE  request.class \in LocalClasses \cup {"CHECK_RUN"}
    BY DEF ProtectedNeverWritten
  <2> DEFINE req == WriteRequest(request.mode, request.class, answer.paths, request.execute)
  <2>1. req.paths = answer.paths /\ req.class = request.class
    BY DEF WriteRequest
  <2>2. TouchesProtected(req.paths, LoadProtectedPathsPolicy(answer.file))
    BY <2>1 DEF TouchesProtected
  <2>3. answer.stop \in BOOLEAN /\ answer.asked
    BY DEF IInv, AnswerType
  <2>4. DecideWrite(req, LoadedModes, LoadProtectedPathsPolicy(answer.file), answer.stop).allowed
    BY <2>3 DEF IInv, AnswerIsADecision, Answered
  <2> HIDE DEF req
  <2> QED
    BY <2>1, <2>2, <2>3, <2>4, ReviewDenies
<1> QED
  BY <1>1, Invariant, PTL

(* Under the emergency stop nothing is allowed, in any mode.                *)
THEOREM StopDeniesAll == Spec => []StopDominates
<1>1. IInv => StopDominates
  <2> SUFFICES ASSUME IInv, answer.stop
               PROVE  ~answer.allowed /\ answer.decision = "DENY_WRITE_DISABLED"
    BY DEF StopDominates
  <2>1. answer.asked /\ answer.stop \in BOOLEAN
    BY DEF IInv, AnswerType
  <2>2. /\ ~Answered(answer).allowed
        /\ Answered(answer).decision = "DENY_WRITE_DISABLED"
    BY <2>1, DecisionShape DEF Answered
  <2> QED
    BY <2>1, <2>2 DEF IInv, AnswerIsADecision
<1> QED
  BY <1>1, Invariant, PTL

(* The desk stays in its types.                                             *)
THEOREM DeskTypeCorrect == Spec => []TypeOK
<1>1. IInv => TypeOK
  BY DEF IInv, AnswerType, TypeOK
<1> QED
  BY <1>1, Invariant, PTL

(* The three fields of an answer, which decideWrite computes apart, never   *)
(* contradict one another: allowed says ALLOW, an ALLOW that is not allowed *)
(* lacks executeWrite, and a refusal for a path names the class of a path.  *)
THEOREM AnswersCohere == Spec => []AnswersAreCoherent
<1>1. ASSUME IInv, answer.asked
      PROVE  AnswersAreCoherent
  <2> DEFINE req == WriteRequest(request.mode, request.class, answer.paths, request.execute)
             classes == LoadProtectedPathsPolicy(answer.file)
             d == DecideWrite(req, LoadedModes, classes, answer.stop)
             review == TouchesProtected(answer.paths, classes)
             matched == MatchedProtectedClass(answer.paths, classes)
             byClass == AllowedByClass(req, LoadedModes, review)
  <2>1. /\ answer.stop \in BOOLEAN /\ answer.file \in BOOLEAN
        /\ answer.paths \in Seq(Pool)
    BY <1>1 DEF IInv, AnswerType
  <2>2. /\ answer.decision = d.decision /\ answer.allowed = d.allowed
        /\ answer.matched = d.matched
    BY <1>1 DEF IInv, AnswerIsADecision, Answered
  <2>3. /\ req.paths = answer.paths /\ req.execute = request.execute
        /\ req.class = request.class
    BY DEF WriteRequest
  <2>4. review => matched # NoClass
    <3> SUFFICES ASSUME review PROVE matched # NoClass
      OBVIOUS
    <3>1. PICK n \in Nat : /\ DOMAIN classes = 1 .. n
                            /\ \A i \in 1 .. n : classes[i].id # NoClass
      BY <2>1, PolicyClasses
    <3> HIDE DEF classes, matched
    <3>2. \E i \in DOMAIN classes : matched = classes[i].id
      BY <2>1, <3>1, ClassOfProtectedChange DEF matched
    <3> QED
      BY <3>1, <3>2
  <2>5. /\ d.matched = matched
        /\ d.allowed = (/\ ~answer.stop /\ byClass
                        /\ request.class \in RemoteWriteClasses => request.execute)
        /\ d.decision = IF answer.stop THEN "DENY_WRITE_DISABLED"
                        ELSE IF byClass THEN "ALLOW"
                        ELSE IF ~review THEN "DENY"
                        ELSE IF matched = "governance-registries"
                        THEN "REQUIRES_GOVERNANCE_REVIEW" ELSE "DENY_PROTECTED_PATH"
    BY <2>3 DEF DecideWrite
  <2> HIDE DEF req, classes, d, review, matched, byClass
  <2>6. answer.allowed => answer.decision = "ALLOW"
    BY <2>2, <2>5
  <2>7. answer.decision = "ALLOW" => answer.allowed \/ ~request.execute
    BY <2>2, <2>5
  <2>8. /\ answer.decision = "REQUIRES_GOVERNANCE_REVIEW"
             => answer.matched = "governance-registries"
        /\ answer.decision = "DENY_PROTECTED_PATH"
             => answer.matched \notin {NoClass, "governance-registries"}
    BY <2>2, <2>4, <2>5
  <2> QED
    BY <2>6, <2>7, <2>8 DEF AnswersAreCoherent
<1>2. ASSUME IInv, ~answer.asked
      PROVE  AnswersAreCoherent
  BY <1>2 DEF IInv, AnswersAreCoherent
<1>3. IInv => AnswersAreCoherent
  BY <1>1, <1>2
<1> QED
  BY <1>3, Invariant, PTL

(* Touching more paths never turns a refusal into a permission, however     *)
(* often the change asks.                                                   *)
THEOREM PathsOnlyRefuse == Spec => MorePathsNeverAllow
<1>1. ASSUME IInv, IInv', [Next]_vars,
             answer.asked, answer'.stop = answer.stop, answer'.file = answer.file,
             answer'.allowed
      PROVE  answer.allowed
  <2>1. CASE AskDecideWrite
    <3>1. answer'.paths = paths /\ request' = request /\ answer'.asked
      BY <2>1 DEF AskDecideWrite
    <3>2. IsPrefixOf(answer.paths, paths)
      BY <1>1 DEF IInv, AnswerIsADecision
    <3>3. answer.stop \in BOOLEAN
      BY <1>1 DEF IInv, AnswerType
    <3>4. DecideWrite(WriteRequest(request.mode, request.class, paths, request.execute),
                      LoadedModes, LoadProtectedPathsPolicy(answer.file), answer.stop).allowed
      BY <1>1, <2>1 DEF AskDecideWrite
    <3>5. Answered(answer).allowed
      BY <3>2, <3>3, <3>4, AllowedShrinks DEF Answered
    <3> QED
      BY <1>1, <3>5 DEF IInv, AnswerIsADecision
  <2>2. CASE answer' = answer
    BY <1>1, <2>2
  <2> QED
    BY <1>1, <2>1, <2>2 DEF Next, vars, TouchPath, ToggleStop, TogglePolicyFile
<1>2. IInv /\ IInv' /\ [Next]_vars =>
        [answer.asked /\ answer'.stop = answer.stop /\ answer'.file = answer.file
           => (answer'.allowed => answer.allowed)]_vars
  BY <1>1
<1> QED
  BY <1>2, Invariant, PTL DEF Spec, MorePathsNeverAllow
=============================================================================

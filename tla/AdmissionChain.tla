---------------------------- MODULE AdmissionChain ----------------------------
(***************************************************************************)
(* The accepted chain in the public repositories, and the eleven gates of  *)
(* AdmissionGates over it.  Owners commit replacements of one or several   *)
(* objects; a caller passes the gates more or fewer of their optional      *)
(* inputs.  The gates keep no state and are called one by one: every       *)
(* property relates what several of them say of the same store.            *)
(***************************************************************************)
EXTENDS AdmissionGates

CONSTANTS
  Changes,      \* commits: functions from some kinds to their new objects
  MaxCommits,   \* bound on the commits of a behaviour
  MaxWithheld   \* bound on the optional inputs not passed at a time

ASSUME BoundsAssumption == MaxCommits \in Nat /\ MaxWithheld \in Nat

IsArray(a) == Len(a) \in Nat /\ a = [i \in 1..Len(a) |-> a[i]]

ASSUME LocksAssumption ==
  \A change \in Changes : "lock" \in DOMAIN change => IsArray(change["lock"].chain)

VARIABLES
  store,        \* kind -> object
  given,        \* the optional inputs that the caller passes
  commits

vars == <<store, given, commits>>

Inputs ==
  {"freeze", "replay", "epoch", "authority", "verification", "recognition",
   "recourse", "continuity", "lock", "projection", "status", "snapshot",
   "typing", "cognition", "merge"}

-----------------------------------------------------------------------------
(* The accepted objects, as the gates' tests write them.                    *)
Link(required) ==
  [ id |-> "accepted", formed |-> TRUE, active |-> TRUE, indexed |-> TRUE,
    refs |-> required.binds, done |-> required.duties, powers |-> {} ]

Chain(order) ==
  [i \in DOMAIN order |->
     [stage |-> i, class |-> order[i], active |-> TRUE, public |-> TRUE, required |-> TRUE]]

Counts == [governed |-> 35, public |-> 36]

Accepted ==
  [ freeze       |-> [id |-> "accepted", active |-> TRUE],
    replay       |-> [id |-> "accepted"],
    authority    |-> Link([binds |-> {"freeze", "epoch", "lock"},
                           duties |-> {"issue_for_scope"}]),
    verification |-> Link(VerificationRequired),
    recognition  |-> Link(RecognitionRequired),
    recourse     |-> Link(RecourseRequired),
    continuity   |-> Link(ContinuityRequired),
    epoch        |-> [ id |-> "accepted", formed |-> TRUE, active |-> TRUE,
                       stages |-> Len(ExpectedOrder), classes |-> ExpectedOrder,
                       counts |-> Counts ],
    lock         |-> [ id |-> "accepted", formed |-> TRUE, active |-> TRUE,
                       chain |-> Chain(ExpectedOrder), epochRef |-> "accepted" ],
    law          |-> [formed |-> TRUE, active |-> TRUE, chain |-> Chain(ExpectedOrder)],
    classes      |-> [formed |-> TRUE, active |-> TRUE, accepted |-> ExpectedOrder],
    admissions   |-> [active |-> TRUE, counts |-> Counts],
    projection   |-> [ adds |-> {}, claims |-> {}, stages |-> Len(ExpectedOrder),
                       foreignRef |-> FALSE, counts |-> Counts, plainLabel |-> FALSE ],
    status       |-> [claims |-> {}],
    snapshot     |-> [claims |-> {"historical"}],
    typing       |-> [ id |-> "accepted", formed |-> TRUE, active |-> TRUE, lacks |-> {},
                       duplicate |-> FALSE, promotes |-> FALSE, indexed |-> TRUE ],
    cognition    |-> [ id |-> "accepted", formed |-> TRUE, active |-> TRUE, lacks |-> {},
                       indexed |-> TRUE ],
    merge        |-> [byTachyrium |-> FALSE] ]

Init == store = Accepted /\ given = Inputs /\ commits = 0

Publish(change) ==
  /\ commits < MaxCommits
  /\ store' = [k \in DOMAIN store |-> IF k \in DOMAIN change THEN change[k] ELSE store[k]]
  /\ commits' = commits + 1
  /\ UNCHANGED given

Supply(x) ==
  /\ x \notin given
  /\ given' = given \cup {x}
  /\ UNCHANGED <<store, commits>>

Withhold(x) ==
  /\ x \in given
  /\ Cardinality(Inputs \ given) < MaxWithheld
  /\ given' = given \ {x}
  /\ UNCHANGED <<store, commits>>

Next ==
  \/ \E change \in Changes : Publish(change)
  \/ \E x \in Inputs : Supply(x)
  \/ \E x \in Inputs : Withhold(x)

Spec == Init /\ [][Next]_vars

-----------------------------------------------------------------------------
(* Every object in the store is the accepted one or one that some commit    *)
(* brought; the caller passes declared inputs only.                         *)
TypeOK ==
  /\ DOMAIN store = DOMAIN Accepted
  /\ \A k \in DOMAIN store :
       \/ store[k] = Accepted[k]
       \/ \E change \in Changes : k \in DOMAIN change /\ store[k] = change[k]
  /\ given \subseteq Inputs
  /\ commits \in 0..MaxCommits

GateIsGreen(gate) == Green(Assess(gate, store, given))

LinkKinds == {"authority", "verification", "recognition", "recourse", "continuity"}

LinksAreGreen == \A k \in LinkKinds : GateIsGreen(k)

(* The kinds that a link binds itself or through a link that it binds.      *)
Reaches(k) == store[k].refs \cup UNION {store[r].refs : r \in store[k].refs \cap LinkKinds}

Ground == [ authority    |-> {"freeze", "epoch", "lock"},
            verification |-> {"replay", "authority", "freeze", "epoch", "lock"},
            recognition  |-> {"verification", "replay", "authority", "freeze", "epoch", "lock"},
            recourse     |-> {"recognition", "verification", "replay", "authority",
                              "freeze", "epoch", "lock"},
            continuity   |-> {"recourse", "recognition", "verification", "replay",
                              "authority", "freeze", "epoch", "lock"} ]

(* When the gates of the five links are green and were shown the objects    *)
(* that the links bind, each of these is the accepted one, and each link    *)
(* leads back to all that come before it.  No gate checks that alone: the   *)
(* verification of a recourse's recognition, or the freeze under a          *)
(* continuity transfer, is another gate's business.                         *)
GreenChainIsGrounded ==
  LinksAreGreen /\ {"freeze", "replay", "epoch", "authority"} \subseteq given =>
    /\ \A k \in LinkKinds \cup {"freeze", "replay", "epoch"} : store[k].id = "accepted"
    /\ \A k \in LinkKinds : Ground[k] \subseteq Reaches(k)

(* A bound object that is not the accepted one makes two gates red, so that *)
(* forgetting to run any one of them hides nothing.  The continuity         *)
(* transfer, which nothing binds, is the exception.                         *)
SubstitutionSeenTwice ==
  LinkKinds \cup {"freeze", "replay", "epoch"} \subseteq given =>
    \A k \in (LinkKinds \cup {"freeze", "replay", "epoch"}) \ {"continuity"} :
      store[k].id # "accepted" =>
        \E g, h \in LinkKinds : g # h /\ ~GateIsGreen(g) /\ ~GateIsGreen(h)

DirectlyUnder == [ authority |-> "mutate_freeze", verification |-> "mutate_authority",
                   recognition |-> "mutate_verification", recourse |-> "mutate_recognition",
                   continuity |-> "mutate_recourse" ]

(* The five gates deny five different lists of powers.  Together they see   *)
(* to it that no link of a green chain may infer missing truth, change the  *)
(* accepted epoch, or change the object that it directly stands on.         *)
NoLinkRewritesItsGround ==
  LinksAreGreen =>
    \A k \in LinkKinds :
      store[k].powers \cap {"infer", "mutate_epoch", DirectlyUnder[k]} = {}

(* The epoch and the accepted claim-class state are never compared with one *)
(* another, and the lock is read by number in two gates and by position in  *)
(* a third: what the gates accept is nevertheless one order, and when all   *)
(* three are green it is the expected one.                                  *)
OrdersAgree ==
  GateIsGreen("epoch") /\ GateIsGreen("claim_class") =>
    /\ store.epoch.classes = store.classes.accepted
    /\ GateIsGreen("chainlock") => store.classes.accepted = ExpectedOrder

(* The projection is compared with the admissions and with the lock, never  *)
(* with the epoch: still, what it shows is what the epoch holds.            *)
ShownCountsAreAccepted ==
  GateIsGreen("epoch") /\ "projection" \in given =>
    /\ GateIsGreen("count") =>
         \A c \in DOMAIN store.projection.counts \cap DOMAIN store.admissions.counts :
           store.projection.counts[c] = store.epoch.counts[c]
    /\ GateIsGreen("chainlock") =>
         store.projection.stages \in {0, store.epoch.stages}

(* The inputs without which a gate is red for their absence alone: its own  *)
(* object, and for recourse the recognition too.                            *)
Insists(gate) ==
  ({gate} \cap {"verification", "recognition", "recourse", "continuity", "typing", "cognition"})
  \cup (IF gate = "recourse" THEN {"recognition"} ELSE {})

Keeps(new, old) == old.red \subseteq new.red /\ old.yellow \subseteq new.yellow

(* Passing one more input never takes a finding away, once a gate has the   *)
(* inputs it insists on: nothing that a caller can show it makes a gate     *)
(* overlook what it saw without.                                            *)
MoreEvidenceNeverExcuses ==
  [][ store' = store /\ given \subseteq given' =>
        \A gate \in Gates : Insists(gate) \subseteq given =>
          Keeps(Assess(gate, store, given'), Assess(gate, store, given)) ]_vars
=============================================================================

--------------------------- MODULE MCAdmissionChain ---------------------------
(* Commits that change one field of one object of the accepted chain, and     *)
(* commits that reorder the claim classes in several records at once.  Every  *)
(* pair of them is reached.                                                   *)
EXTENDS AdmissionChain, TLC

Only(k, objects) == {k :> o : o \in objects}

(* One field of a link changed: its id, status or index, one of the paths it  *)
(* binds, one of its duties (of the five texts of a recourse only one), or    *)
(* one of its powers.                                                         *)
Powers(k) == {"infer", "mutate_epoch", DirectlyUnder[k]}

LinkDrafts(k) ==
  LET a == Accepted[k]
  IN {[a EXCEPT !.id = "other"], [a EXCEPT !.active = FALSE],
      [a EXCEPT !.indexed = FALSE]}
     \cup {[a EXCEPT !.refs = @ \ {r}] : r \in a.refs}
     \cup {[a EXCEPT !.done = @ \ {d}] : d \in a.done \ {"posture", "burden", "remedy", "escalation"}}
     \cup {[a EXCEPT !.powers = {p}] : p \in Powers(k)}

Swap(order) == [order EXCEPT ![6] = order[7], ![7] = order[6]]
Swapped == Swap(ExpectedOrder)
Short == SubSeq(ExpectedOrder, 1, 8)

(* The stages of the same order listed in another: the numbers go along.      *)
Shuffled == Swap(Chain(ExpectedOrder))
SameStage == [Chain(ExpectedOrder) EXCEPT ![7].stage = 6]

LockDrafts ==
  LET a == Accepted.lock
  IN {[a EXCEPT !.id = "naming"], [a EXCEPT !.id = "other"],
      [a EXCEPT !.formed = FALSE], [a EXCEPT !.active = FALSE], [a EXCEPT !.epochRef = "other"],
      [a EXCEPT !.epochRef = "absent"], [a EXCEPT !.chain = Shuffled],
      [a EXCEPT !.chain = SameStage], [a EXCEPT !.chain[3].active = FALSE],
      [a EXCEPT !.chain[3].public = FALSE]}

EpochDrafts ==
  LET a == Accepted.epoch
  IN {[a EXCEPT !.id = "naming"], [a EXCEPT !.id = "other"], [a EXCEPT !.active = FALSE],
      [a EXCEPT !.stages = 8], [a EXCEPT !.classes = Swapped],
      [a EXCEPT !.counts["public"] = 35]}

LawDrafts ==
  LET a == Accepted.law
  IN {[a EXCEPT !.active = FALSE], [a EXCEPT !.chain = Shuffled],
      [a EXCEPT !.chain[9].required = FALSE]}

ProjectionDrafts ==
  LET a == Accepted.projection
  IN {[a EXCEPT !.adds = {k}] : k \in LinkKinds \ {"authority"}}
     \cup {[a EXCEPT !.claims = {c}] : c \in {"status", "truth_kind", "source", "cognition"}}
     \cup {[a EXCEPT !.stages = n] : n \in {0, 8}}
     \cup {[a EXCEPT !.counts = c] :
             c \in {[Counts EXCEPT !.public = 35], [public |-> 36], [governed |-> 35]}}
     \cup {[a EXCEPT !.foreignRef = TRUE],
           [a EXCEPT !.plainLabel = TRUE, !.counts = [public |-> 36]]}

SurfaceChanges ==
  Only("status", {[claims |-> {c}] : c \in {"truth_status", "source", "cognition"}})
  \cup Only("snapshot", {[claims |-> {}], [claims |-> {"historical", "status"}],
                         [claims |-> {"historical", "source"}]})
  \cup Only("typing", {[Accepted.typing EXCEPT !.id = "other"],
                       [Accepted.typing EXCEPT !.lacks = {"family"}],
                       [Accepted.typing EXCEPT !.duplicate = TRUE],
                       [Accepted.typing EXCEPT !.promotes = TRUE]})
  \cup Only("cognition", {[Accepted.cognition EXCEPT !.id = "other"],
                          [Accepted.cognition EXCEPT !.lacks = {"flag"}],
                          [Accepted.cognition EXCEPT !.lacks = {"allowed_class"}]})
  \cup Only("merge", {[byTachyrium |-> TRUE]})

(* The same new order in all the records that the gates compare, in all but   *)
(* the epoch, or in all but the claim-class state.                            *)
OrderChange(order) ==
  "lock" :> [Accepted.lock EXCEPT !.chain = Chain(order)]
  @@ "law" :> [Accepted.law EXCEPT !.chain = Chain(order)]
  @@ "classes" :> [Accepted.classes EXCEPT !.accepted = order]
  @@ "epoch" :> [Accepted.epoch EXCEPT !.classes = order, !.stages = Len(order)]

Except(change, k) == [j \in DOMAIN change \ {k} |-> change[j]]

OrderChanges ==
  {OrderChange(Swapped), OrderChange(Short), Except(OrderChange(Swapped), "epoch"),
   Except(OrderChange(Swapped), "classes"), Except(OrderChange(Swapped), "lock"),
   Except(Except(OrderChange(Short), "lock"), "epoch")}

MCChanges ==
  UNION {Only(k, LinkDrafts(k)) : k \in LinkKinds}
  \cup Only("freeze", {[Accepted.freeze EXCEPT !.id = "naming"],
                       [Accepted.freeze EXCEPT !.id = "other"],
                       [Accepted.freeze EXCEPT !.active = FALSE]})
  \cup Only("replay", {[id |-> "other"]})
  \cup Only("lock", LockDrafts) \cup Only("epoch", EpochDrafts) \cup Only("law", LawDrafts)
  \cup Only("classes", {[Accepted.classes EXCEPT !.accepted = Swapped]})
  \cup Only("admissions", {[Accepted.admissions EXCEPT !.active = FALSE],
                           [Accepted.admissions EXCEPT !.counts["public"] = 35]})
  \cup Only("projection", ProjectionDrafts)
  \cup SurfaceChanges \cup OrderChanges
=============================================================================

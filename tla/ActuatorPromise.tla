---------------------------- MODULE ActuatorPromise ----------------------------
(***************************************************************************)
(* What the guarded actuator promises about remote effects, without saying *)
(* how: a client is called only for an effect that has been earned and     *)
(* only while that kind of effect is not stopped; what is in flight when   *)
(* the stop comes may still land, but nothing new starts; and nothing      *)
(* lands that was not in flight.                                           *)
(***************************************************************************)
CONSTANTS Jobs, Kinds

Effects == Jobs \X Kinds

VARIABLES
  stopped,   \* the kinds of effect an operator has stopped
  earned,    \* the effects some report and some delivery call for
  inflight,  \* client calls awaited
  landed     \* effects GitHub has performed at least once

vars == <<stopped, earned, inflight, landed>>

TypeOK ==
  /\ stopped \subseteq Kinds
  /\ earned \subseteq Effects
  /\ inflight \subseteq Effects
  /\ landed \subseteq Effects

Init ==
  /\ stopped \subseteq Kinds
  /\ earned = {} /\ inflight = {} /\ landed = {}

Operate ==
  /\ stopped' \subseteq Kinds
  /\ UNCHANGED <<earned, inflight, landed>>

Earn ==
  /\ earned' \subseteq Effects
  /\ earned \subseteq earned'
  /\ UNCHANGED <<stopped, inflight, landed>>

Begin(e) ==
  /\ e \in earned
  /\ e[2] \notin stopped
  /\ inflight' = inflight \cup {e}
  /\ UNCHANGED <<stopped, earned, landed>>

Settle(e) ==
  /\ e \in inflight
  /\ inflight' = inflight \ {e}
  /\ landed' \in {landed, landed \cup {e}}
  /\ UNCHANGED <<stopped, earned>>

Next == Operate \/ Earn \/ \E e \in Effects : Begin(e) \/ Settle(e)

Spec == Init /\ [][Next]_vars

(* Only earned effects are ever in flight or landed. *)
OnlyEarned == inflight \cup landed \subseteq earned
=============================================================================

-------------------------------- MODULE Hold --------------------------------
(***************************************************************************)
(* What a preauthorization promises, without requests, copies and the      *)
(* gateway's answers.  An order is placed for an amount; the amount is     *)
(* held or the order refused; of a held amount a part is captured, once.   *)
(* An order with which something irregular happened is unclear from then   *)
(* on: nothing is promised of it.                                          *)
(***************************************************************************)
EXTENDS Naturals

CONSTANTS Orders, LargestAmount

VARIABLES
  stage,    \* "none", "placed", "held", "refused", "captured" or "unclear"
  amount,   \* the amount of the order
  charged   \* what was captured of it

holdVars == <<stage, amount, charged>>

HoldInit ==
  /\ stage = [o \in Orders |-> "none"]
  /\ amount = [o \in Orders |-> 0]
  /\ charged = [o \in Orders |-> 0]

Become(o, s, a, c) ==
  /\ stage' = [stage EXCEPT ![o] = s]
  /\ amount' = [amount EXCEPT ![o] = a]
  /\ charged' = [charged EXCEPT ![o] = c]

Place(o) ==
  stage[o] = "none" /\ \E a \in 1..LargestAmount : Become(o, "placed", a, 0)

Settle(o) ==
  /\ stage[o] = "placed"
  /\ \E s \in {"held", "refused"} : Become(o, s, amount[o], 0)

Capture(o) ==
  stage[o] = "held" /\ \E c \in 1..amount[o] : Become(o, "captured", amount[o], c)

Lose(o) == stage[o] # "unclear" /\ Become(o, "unclear", 0, 0)

HoldNext == \E o \in Orders : Place(o) \/ Settle(o) \/ Capture(o) \/ Lose(o)

HoldSpec == HoldInit /\ [][HoldNext]_holdVars
=============================================================================

-------------------------------- MODULE Debt ---------------------------------
(***************************************************************************)
(* What payment processing promises about the price of a charging          *)
(* transaction, without orders, cards, locks or documents.  A debt comes   *)
(* due when the transaction is finished.  It is paid, or every refused     *)
(* payment counts as one attempt, until MaxAttempts retries are used up    *)
(* and it is abandoned.  An expired card ends the series of attempts: the  *)
(* debt is due again.  A paid debt stays paid.                             *)
(***************************************************************************)
EXTENDS Naturals

CONSTANTS Debts, MaxAttempts

VARIABLES
  stage,    \* "open", "due", "retrying", "paid" or "abandoned"
  attempt   \* refused payments of a debt that is being retried

debtVars == <<stage, attempt>>

DebtInit ==
  /\ stage = [d \in Debts |-> "open"]
  /\ attempt = [d \in Debts |-> 0]

Become(d, s, a) ==
  /\ stage' = [stage EXCEPT ![d] = s]
  /\ attempt' = [attempt EXCEPT ![d] = a]

ComeDue(d) == stage[d] = "open" /\ Become(d, "due", 0)

Pay(d) == stage[d] \in {"due", "retrying"} /\ Become(d, "paid", 0)

Refuse(d) ==
  /\ stage[d] \in {"due", "retrying"}
  /\ IF attempt[d] < MaxAttempts
     THEN Become(d, "retrying", attempt[d] + 1)
     ELSE Become(d, "abandoned", 0)

CardExpires(d) == stage[d] = "retrying" /\ Become(d, "due", 0)

DebtNext == \E d \in Debts : ComeDue(d) \/ Pay(d) \/ Refuse(d) \/ CardExpires(d)

DebtSpec == DebtInit /\ [][DebtNext]_debtVars
=============================================================================

------------------------------- MODULE Billing -------------------------------
(***************************************************************************)
(* Direct payment of finished charging transactions (impl/core/core.go,    *)
(* from PayTransaction to schedulePaymentRetry, on the MongoDB repository  *)
(* of impl/database/mongo.go).                                             *)
(*                                                                         *)
(* Callers are the HTTP handlers and the payment processor goroutine; they *)
(* run PayTransaction, ReturnPayment and ReturnByOrder under the keyed     *)
(* lock of OrderLock.  Goroutines are the asynchronous processPay and      *)
(* processRefund calls that runAsync starts; they hold no lock.  Every     *)
(* database or gateway call is a step of its own, and what a call read     *)
(* stays in the caller's local variables until it is written back.         *)
(*                                                                         *)
(* Data: every transaction costs Amount; FailCount is kept as zero or      *)
(* positive; the text of errors and results is reduced to its cause.  The  *)
(* is_default flag is left out: it decides which of several usable cards   *)
(* is taken, and the user may set it on any card at any time, so the model *)
(* takes any.                                                              *)
(***************************************************************************)
EXTENDS OrderLock

CONSTANTS
  Tx,                \* charging transactions, all of one user
  Cards,             \* payment methods of that user
  Goroutines,        \* slots for concurrently running runAsync calls
  Processor,         \* the caller that is the payment processor goroutine
  WithCof,           \* cards that have a CofTid
  TagOf,             \* what the tag of a transaction resolves to
  InitialMethods,    \* payment methods the central system may have recorded
  Amount,            \* PaymentAmount
  MaxRetryAttempts,  \* maxRetryAttempts
  MaxOrders,         \* bound: order documents ever opened
  MaxCalls,          \* bound: payment requests the API receives
  DisablePayment,    \* Core.disablePayment
  Api,               \* API operations the handlers receive
  Faults,            \* failures the environment may inject
  CardEvents,        \* what may happen to the cards
  NoTx, NoCard

OrderNums == 1..MaxOrders

ASSUME BillingAssumption ==
  /\ Processor \in Callers
  /\ Tx \cup OrderNums \subseteq Ids
  /\ Goroutines \cap Callers = {}
  /\ Amount \in Nat \ {0}
  /\ MaxRetryAttempts \in Nat \ {0}
  /\ MaxOrders \in Nat
  /\ MaxCalls \in Nat
  /\ DisablePayment \in BOOLEAN
  /\ WithCof \subseteq Cards
  /\ TagOf \in [Tx -> {"user", "nouser", "missing"}]
  /\ Api \subseteq {"pay", "force", "return", "returnByOrder"}
  /\ Faults \subseteq {"reject", "error", "errorCharged", "deadline", "crash"}
  /\ CardEvents \subseteq {"save", "delete", "expire"}
  /\ NoTx \notin Tx
  /\ NoCard \notin Cards
  /\ InitialMethods \subseteq
       [id : Cards, failing : BOOLEAN] \cup {[id |-> NoCard, failing |-> FALSE]}

Procs == Callers \cup Goroutines

(***************************************************************************)
(* Documents.  A method is a copy of a payment_methods document as it was  *)
(* when it was read: a transaction keeps such a copy.                      *)
(***************************************************************************)
Method == [id : Cards \cup {NoCard}, failing : BOOLEAN]
NoMethod == [id |-> NoCard, failing |-> FALSE]

TxDoc == [finished : BOOLEAN, billed : Nat, error : {"", "failed", "expired"},
          order : 0..MaxOrders, orders : SUBSET OrderNums, method : Method]

OrderDoc == [tx : Tx \cup {NoTx}, card : Cards \cup {NoCard}, amount : Nat,
             completed : BOOLEAN, result : {"", "approved", "failed", "closed"},
             refund : Nat, opened : Nat]
NoOrder == [tx |-> NoTx, card |-> NoCard, amount |-> 0, completed |-> FALSE,
            result |-> "", refund |-> 0, opened |-> 0]

RetryDoc == [attempt : 0..MaxRetryAttempts, due : BOOLEAN]
NoRetry == [attempt |-> 0, due |-> FALSE]

\* The local variables of a caller or goroutine.
Locals == [op : {"", "pay", "return", "returnByOrder", "refund"},
           back : {"idle", "unbilled", "retries"},
           tx : Tx \cup {NoTx},     \* the transaction it works for
           num : 0..MaxOrders,      \* an order number it holds
           stamp : Nat,             \* TimeOpened of the order to be saved
           snap : TxDoc,            \* its copy of the transaction
           osnap : OrderDoc,        \* its copy of a payment order
           card : Method,           \* the payment method it resolved
           attempt : 0..MaxRetryAttempts]

VARIABLES
  txs,        \* collection transactions
  orders,     \* collection payment_orders, NoOrder where none is stored
  methods,    \* collection payment_methods: "absent", "usable", "failing"
  retries,    \* collection payment_retries, NoRetry where none is stored
  expired,    \* cards whose expiry month has passed
  clock,      \* number of time_opened stamps taken
  calls,      \* number of API requests received
  pc,         \* next step of a caller or goroutine
  loc,        \* its local variables
  todo,       \* transactions the processor still has to visit in this pass
  ticked,     \* goroutines the processor started
  captured,   \* history: amount the gateway took for a transaction
  lost,       \* history: transactions with a capture the code never recorded
  exhausted,  \* history: transactions whose retries ran out
  clash       \* history: a new order was saved over a stored one

dbVars == <<txs, orders, methods, retries>>
envVars == <<expired, clock, calls>>
historyVars == <<captured, lost, exhausted, clash>>
vars == <<dbVars, envVars, pc, loc, todo, ticked, historyVars, lockVars>>

PayStates == {"payRead", "payPick", "payExpired", "payDrop", "payRecord",
              "payFind", "payClose", "payPenalty", "paySettle", "payStamp",
              "payNumber", "paySave"}
CallerStates == {"idle", "unbilled", "retries", "retryRead", "retryReset",
                 "load", "wait", "returnRead", "panic",
                 "unlock", "delete"} \cup PayStates
OkStates == {"okGet", "okClose", "okReset", "okRefund", "okTxRead", "okTxWrite",
             "okDrop"}
FailStates == {"failGet", "failPenalty", "failClose", "failTxRead",
               "failTxWrite", "failRetryRead", "failRetryWrite"}
GoroutineStates == {"idle", "send"} \cup OkStates \cup FailStates

NewTx(m) == [finished |-> FALSE, billed |-> 0, error |-> "", order |-> 0,
             orders |-> {}, method |-> m]

NoLocals == [op |-> "", back |-> "idle", tx |-> NoTx, num |-> 0, stamp |-> 0,
             snap |-> NewTx(NoMethod), osnap |-> NoOrder, card |-> NoMethod,
             attempt |-> 0]

Init ==
  /\ LockInit
  /\ txs \in [Tx -> {NewTx(m) : m \in InitialMethods}]
  /\ orders = [n \in OrderNums |-> NoOrder]
  /\ methods \in [Cards -> {"absent", "usable"}]
  /\ retries = [t \in Tx |-> NoRetry]
  /\ expired = {}
  /\ clock = 0
  /\ calls = 0
  /\ pc = [p \in Procs |-> "idle"]
  /\ loc = [p \in Procs |-> NoLocals]
  /\ todo = {}
  /\ ticked = {}
  /\ captured = [t \in Tx |-> 0]
  /\ lost = {}
  /\ exhausted = {}
  /\ clash = FALSE

-----------------------------------------------------------------------------
(***************************************************************************)
(* The repository, as the payment code uses it.                            *)
(***************************************************************************)
Stored(n) == n \in OrderNums /\ orders[n].opened > 0

\* The $set of UpdateTransactionPayment: every payment field of the copy.
UpdateTransactionPayment(t, s) ==
  txs' = [txs EXCEPT ![t] = [s EXCEPT !.finished = txs[t].finished]]

SavePaymentOrder(n, o) == orders' = [orders EXCEPT ![n] = o]

\* Mutant of OpenOrders: the query forgets is_completed = false.
AllOrders(t) == {n \in OrderNums : Stored(n) /\ orders[n].tx = t}

\* GetPaymentOrderByTransaction: any order of t that is not completed.
OpenOrders(t) == {n \in OrderNums : Stored(n) /\ orders[n].tx = t /\ ~orders[n].completed}

\* GetDefaultPaymentMethod: a usable method.
DefaultMethods == {c \in Cards : methods[c] = "usable"}

\* pickFreshPaymentMethod: usable, with a CofTid, not expired, not skip.
FreshMethods(skip) == {c \in WithCof \ expired : methods[c] = "usable" /\ c # skip}

\* updatePaymentMethodFailCounter: nothing for a method that is not stored.
SetFailCounter(c, value) ==
  methods' = IF c \in Cards /\ methods[c] # "absent"
             THEN [methods EXCEPT ![c] = value] ELSE methods

\* nextOrderNumber: one past the order opened last, or the first number.
NextOrderNumber ==
  IF \E n \in OrderNums : Stored(n)
  THEN 1 + CHOOSE n \in OrderNums :
             Stored(n) /\ \A k \in OrderNums : orders[k].opened <= orders[n].opened
  ELSE 1

GetUnbilledTransactions == {t \in Tx : txs[t].finished /\ txs[t].billed < Amount}

GetPendingRetries == {t \in Tx : retries[t] # NoRetry /\ retries[t].due}

-----------------------------------------------------------------------------
Goto(p, from, to) == pc[p] = from /\ pc' = [pc EXCEPT ![p] = to]

\* The call returns: the deferred unlockOrder is what is left to run.
Leaving(p) == [NoLocals EXCEPT !.back = loc[p].back]

\* Only a program counter and local variables change.
LocalStep == UNCHANGED <<dbVars, envVars, todo, ticked, historyVars, lockVars>>

(***************************************************************************)
(* Entry points: the payment routes of the HTTP API.                       *)
(***************************************************************************)
Call(p, name, t, n, entry) ==
  /\ p # Processor
  /\ Goto(p, "idle", entry)
  /\ loc' = [loc EXCEPT ![p] = [NoLocals EXCEPT !.op = name, !.tx = t, !.num = n]]
  /\ calls < MaxCalls
  /\ calls' = calls + 1
  /\ UNCHANGED <<dbVars, expired, clock, todo, ticked, historyVars, lockVars>>

CallPay(p) == "pay" \in Api /\ \E t \in Tx : Call(p, "pay", t, 0, "load")

CallForceRetry(p) == "force" \in Api /\ \E t \in Tx : Call(p, "pay", t, 0, "retryRead")

CallReturn(p) == "return" \in Api /\ \E t \in Tx : Call(p, "return", t, 0, "load")

CallReturnByOrder(p) ==
  "returnByOrder" \in Api /\ \E n \in OrderNums : Call(p, "returnByOrder", NoTx, n, "load")

(***************************************************************************)
(* The payment processor: every tick visits the unbilled transactions and  *)
(* then the retries that are due.  A goroutine has 30 seconds and ticks    *)
(* are 5 minutes apart, so none of the previous tick is still running.     *)
(***************************************************************************)
Tick ==
  /\ ticked = {}
  /\ Goto(Processor, "idle", "unbilled")
  /\ todo' = GetUnbilledTransactions
  /\ UNCHANGED <<dbVars, envVars, loc, ticked, historyVars, lockVars>>

ProcessUnbilled ==
  /\ pc[Processor] = "unbilled"
  /\ \E t \in todo :
       /\ todo' = todo \ {t}
       /\ IF retries[t] # NoRetry
          THEN UNCHANGED <<pc, loc>>
          ELSE /\ Goto(Processor, "unbilled", "load")
               /\ loc' = [loc EXCEPT ![Processor] =
                           [NoLocals EXCEPT !.op = "pay", !.tx = t, !.back = "unbilled"]]
  /\ UNCHANGED <<dbVars, envVars, ticked, historyVars, lockVars>>

StartRetries ==
  /\ todo = {}
  /\ Goto(Processor, "unbilled", "retries")
  /\ todo' = GetPendingRetries
  /\ UNCHANGED <<dbVars, envVars, loc, ticked, historyVars, lockVars>>

ProcessRetry ==
  /\ \E t \in todo :
       /\ todo' = todo \ {t}
       /\ loc' = [loc EXCEPT ![Processor] =
                   [NoLocals EXCEPT !.op = "pay", !.tx = t, !.back = "retries"]]
  /\ Goto(Processor, "retries", "retryRead")
  /\ UNCHANGED <<dbVars, envVars, ticked, historyVars, lockVars>>

EndTick ==
  /\ todo = {}
  /\ Goto(Processor, "retries", "idle")
  /\ UNCHANGED loc
  /\ LocalStep

\* retryOne, outside the lock: read the transaction ...
RetryRead(p) ==
  /\ Goto(p, "retryRead", "retryReset")
  /\ loc' = [loc EXCEPT ![p].snap = txs[loc[p].tx]]
  /\ LocalStep

\* Mutant of RetryReset: PaymentBilled is not reset.
ResetErrorOnly(p) ==
  /\ Goto(p, "retryReset", "load")
  /\ UpdateTransactionPayment(loc[p].tx, [loc[p].snap EXCEPT !.error = ""])
  /\ loc' = [loc EXCEPT ![p].snap = NoLocals.snap]
  /\ UNCHANGED <<orders, methods, retries, envVars, todo, ticked, historyVars, lockVars>>

\* ... and reset its payment state, then call PayTransaction.
RetryReset(p) ==
  /\ Goto(p, "retryReset", "load")
  /\ UpdateTransactionPayment(loc[p].tx,
                              [loc[p].snap EXCEPT !.billed = 0, !.error = ""])
  /\ loc' = [loc EXCEPT ![p].snap = NoLocals.snap]
  /\ UNCHANGED <<orders, methods, retries, envVars, todo, ticked, historyVars, lockVars>>

-----------------------------------------------------------------------------
(***************************************************************************)
(* lockOrder and unlockOrder around the three locked operations.           *)
(***************************************************************************)
LockLoad(p) ==
  /\ Goto(p, "load", "wait")
  /\ LoadOrStore(p, IF loc[p].op = "returnByOrder" THEN loc[p].num ELSE loc[p].tx)
  /\ UNCHANGED <<dbVars, envVars, loc, todo, ticked, historyVars>>

LockAcquire(p) ==
  /\ Goto(p, "wait", IF loc[p].op = "pay" THEN "payRead" ELSE "returnRead")
  /\ Acquire(p)
  /\ UNCHANGED <<dbVars, envVars, loc, todo, ticked, historyVars>>

LockRelease(p) ==
  /\ Goto(p, "unlock", "delete")
  /\ Unlock(p)
  /\ UNCHANGED <<dbVars, envVars, loc, todo, ticked, historyVars>>

\* The deferred unlockOrder ends and the call returns.
LockDelete(p) ==
  /\ Goto(p, "delete", loc[p].back)
  /\ loc' = [loc EXCEPT ![p] = NoLocals]
  /\ Delete(p)
  /\ UNCHANGED <<dbVars, envVars, todo, ticked, historyVars>>

-----------------------------------------------------------------------------
(***************************************************************************)
(* PayTransaction, in the section of the transaction's id.                 *)
(***************************************************************************)
\* GetTransaction, the early returns, and the user tag.
PayRead(p) ==
  LET tx == txs[loc[p].tx]
      tag == TagOf[loc[p].tx]
  IN  /\ Goto(p, "payRead",
              CASE ~tx.finished \/ tx.billed >= Amount -> "unlock"
                [] OTHER -> CASE tag = "missing" -> "panic"
                              [] tag = "nouser" -> "paySettle"
                              [] tag = "user" -> "payPick")
      /\ loc' = [loc EXCEPT ![p] = IF pc'[p] = "unlock" THEN Leaving(p)
                                   ELSE [@ EXCEPT !.snap = tx]]
      /\ LocalStep

\* The method recorded on the transaction or the default one; an
\* alternative when it has problems.  Without any method the nil pointer
\* GetDefaultPaymentMethod returned is dereferenced.
PayPick(p) ==
  LET tx == loc[p].snap
      current == IF tx.method # NoMethod THEN {tx.method}
                 ELSE {[id |-> c, failing |-> FALSE] : c \in DefaultMethods}
      Problem(m) == m.id \notin WithCof \/ m.failing \/ tx.error # "" \/ m.id \in expired
      Choices(m) == IF Problem(m) /\ FreshMethods(m.id) # {}
                    THEN {[id |-> c, failing |-> FALSE] : c \in FreshMethods(m.id)}
                    ELSE {m}
  IN  /\ \/ /\ current = {}
            /\ Goto(p, "payPick", "panic")
            /\ UNCHANGED loc
         \/ \E m \in current : \E choice \in Choices(m) :
              /\ Goto(p, "payPick", IF choice.id \in expired THEN "payExpired" ELSE "payRecord")
              /\ loc' = [loc EXCEPT ![p].card = choice]
      /\ LocalStep

\* Mutant of PayExpired: the debt is closed, as the other error paths do.
ExpiredIsBilled(p) ==
  /\ Goto(p, "payExpired", "payDrop")
  /\ UpdateTransactionPayment(loc[p].tx,
                              [loc[p].snap EXCEPT !.error = "expired", !.billed = Amount])
  /\ UNCHANGED <<orders, methods, retries, envVars, loc, todo, ticked, historyVars, lockVars>>

\* An expired card: the error goes on the transaction ...
PayExpired(p) ==
  /\ Goto(p, "payExpired", "payDrop")
  /\ UpdateTransactionPayment(loc[p].tx, [loc[p].snap EXCEPT !.error = "expired"])
  /\ UNCHANGED <<orders, methods, retries, envVars, loc, todo, ticked, historyVars, lockVars>>

\* ... and the retry record is deleted.
PayDrop(p) ==
  /\ Goto(p, "payDrop", "unlock")
  /\ retries' = [retries EXCEPT ![loc[p].tx] = NoRetry]
  /\ loc' = [loc EXCEPT ![p] = Leaving(p)]
  /\ UNCHANGED <<txs, orders, methods, envVars, todo, ticked, historyVars, lockVars>>

\* Record which card is being charged.
PayRecord(p) ==
  LET tx == [loc[p].snap EXCEPT !.method = loc[p].card]
  IN  /\ Goto(p, "payRecord", "payFind")
      /\ UpdateTransactionPayment(loc[p].tx, tx)
      /\ loc' = [loc EXCEPT ![p].snap = tx]
      /\ UNCHANGED <<orders, methods, retries, envVars, todo, ticked, historyVars, lockVars>>

AfterClose == IF DisablePayment THEN "paySettle" ELSE "payStamp"

\* Look for a previous uncompleted order of this transaction ...
PayFind(p) ==
  /\ IF OpenOrders(loc[p].tx) = {}
     THEN Goto(p, "payFind", AfterClose) /\ UNCHANGED loc
     ELSE /\ Goto(p, "payFind", "payClose")
          /\ \E n \in OpenOrders(loc[p].tx) :
               loc' = [loc EXCEPT ![p].num = n, ![p].osnap = orders[n]]
  /\ LocalStep

\* ... close it ...
PayClose(p) ==
  /\ Goto(p, "payClose", "payPenalty")
  /\ SavePaymentOrder(loc[p].num,
                      [loc[p].osnap EXCEPT !.completed = TRUE, !.result = "closed"])
  /\ UNCHANGED <<txs, methods, retries, envVars, loc, todo, ticked, historyVars, lockVars>>

\* ... and count a failure of its card.
PayPenalty(p) ==
  /\ Goto(p, "payPenalty", AfterClose)
  /\ SetFailCounter(loc[p].osnap.card, "failing")
  /\ loc' = [loc EXCEPT ![p].osnap = NoOrder, ![p].num = 0]
  /\ UNCHANGED <<txs, orders, retries, envVars, todo, ticked, historyVars, lockVars>>

\* No user to charge, or payments disabled: the transaction counts as billed.
PaySettle(p) ==
  /\ Goto(p, "paySettle", "unlock")
  /\ UpdateTransactionPayment(loc[p].tx, [loc[p].snap EXCEPT !.billed = Amount])
  /\ loc' = [loc EXCEPT ![p] = Leaving(p)]
  /\ UNCHANGED <<orders, methods, retries, envVars, todo, ticked, historyVars, lockVars>>

\* TimeOpened of the new order.  At the bound the order cannot be saved.
PayStamp(p) ==
  /\ IF clock < MaxOrders
     THEN /\ Goto(p, "payStamp", "payNumber")
          /\ clock' = clock + 1
          /\ loc' = [loc EXCEPT ![p].stamp = clock + 1]
     ELSE /\ Goto(p, "payStamp", "unlock")
          /\ loc' = [loc EXCEPT ![p] = Leaving(p)]
          /\ UNCHANGED clock
  /\ UNCHANGED <<dbVars, expired, calls, todo, ticked, historyVars, lockVars>>

PayNumber(p) ==
  /\ NextOrderNumber \in OrderNums
  /\ Goto(p, "payNumber", "paySave")
  /\ loc' = [loc EXCEPT ![p].num = NextOrderNumber]
  /\ LocalStep

\* runAsync: a goroutine g works for p from its first step on.
Spawn(p, g, to, locals) ==
  /\ pc[g] = "idle"
  /\ pc' = [pc EXCEPT ![p] = "unlock", ![g] = to]
  /\ loc' = [loc EXCEPT ![p] = Leaving(p), ![g] = locals]
  /\ ticked' = IF p = Processor THEN ticked \cup {g} ELSE ticked

\* Save the new order and start processPay.
PaySave(p) ==
  LET n == loc[p].num
      new == [NoOrder EXCEPT !.tx = loc[p].tx, !.card = loc[p].card.id,
                             !.amount = Amount - loc[p].snap.billed,
                             !.opened = loc[p].stamp]
  IN  /\ pc[p] = "paySave"
      /\ \E g \in Goroutines :
           Spawn(p, g, "send", [NoLocals EXCEPT !.op = "pay", !.tx = loc[p].tx, !.num = n])
      /\ SavePaymentOrder(n, new)
      /\ clash' = (clash \/ Stored(n))
      /\ UNCHANGED <<txs, methods, retries, envVars, todo, captured, lost, exhausted, lockVars>>

\* ReturnPayment and ReturnByOrder: find the order to refund and start
\* processRefund.
ReturnStart(p) ==
  LET found == IF loc[p].op = "return" THEN txs[loc[p].tx].finished ELSE Stored(loc[p].num)
      order == IF loc[p].op = "return" THEN txs[loc[p].tx].order ELSE loc[p].num
  IN  /\ pc[p] = "returnRead"
      /\ \/ /\ ~found
            /\ Goto(p, "returnRead", "unlock")
            /\ loc' = [loc EXCEPT ![p] = Leaving(p)]
            /\ UNCHANGED ticked
         \/ /\ found
            /\ \E g \in Goroutines :
                 Spawn(p, g, "send", [NoLocals EXCEPT !.op = "refund", !.num = order])
      /\ UNCHANGED <<dbVars, envVars, todo, historyVars, lockVars>>

(***************************************************************************)
(* A panic in a handler is recovered by the HTTP middleware, after the     *)
(* deferred unlockOrder.  The processor goroutine has no recover.          *)
(***************************************************************************)
Recovered(p) ==
  /\ p # Processor
  /\ Goto(p, "panic", "unlock")
  /\ loc' = [loc EXCEPT ![p] = Leaving(p)]
  /\ LocalStep

\* The request's or the tick's context ends: every later database call
\* fails and the call returns.
CallerDeadline(p) ==
  /\ "deadline" \in Faults
  /\ \/ /\ pc[p] \in PayStates \cup {"returnRead"}
        /\ pc' = [pc EXCEPT ![p] = "unlock"]
        /\ loc' = [loc EXCEPT ![p] = Leaving(p)]
     \/ /\ pc[p] \in {"retryRead", "retryReset"}
        /\ pc' = [pc EXCEPT ![p] = loc[p].back]
        /\ loc' = [loc EXCEPT ![p] = NoLocals]
  /\ LocalStep

-----------------------------------------------------------------------------
(***************************************************************************)
(* processPay and processRefund, one goroutine each, without a lock.       *)
(***************************************************************************)
Finish(g) ==
  /\ pc' = [pc EXCEPT ![g] = "idle"]
  /\ loc' = [loc EXCEPT ![g] = NoLocals]
  /\ ticked' = ticked \ {g}

\* The gateway's answer to redsys.Pay.
SendPay(g) ==
  LET t == loc[g].tx
      Charge == captured' = [captured EXCEPT ![t] = @ + Amount]
  IN  /\ pc[g] = "send" /\ loc[g].op = "pay"
      /\ \/ /\ Charge                              \* approved
            /\ Goto(g, "send", "okGet")
            /\ UNCHANGED lost
         \/ /\ Faults \cap {"reject", "error"} # {}  \* refused, or not sent
            /\ Goto(g, "send", "failGet")
            /\ UNCHANGED <<captured, lost>>
         \/ /\ "errorCharged" \in Faults           \* charged, answer unreadable
            /\ Charge
            /\ lost' = lost \cup {t}
            /\ Goto(g, "send", "failGet")
      /\ UNCHANGED <<dbVars, envVars, loc, todo, ticked, exhausted, clash, lockVars>>

\* The gateway's answer to redsys.Refund: only an order it knows is refunded.
SendRefund(g) ==
  LET n == loc[g].num
      refundable == Stored(n) /\ captured[orders[n].tx] > 0
  IN  /\ pc[g] = "send" /\ loc[g].op = "refund"
      /\ \/ /\ refundable
            /\ Goto(g, "send", "okGet")
            /\ UNCHANGED <<loc, ticked>>
         \/ /\ ~refundable \/ "reject" \in Faults
            /\ Goto(g, "send", "failGet")
            /\ UNCHANGED <<loc, ticked>>
         \/ /\ "error" \in Faults
            /\ Finish(g)
      /\ UNCHANGED <<dbVars, envVars, todo, historyVars, lockVars>>

\* GetPaymentOrder; without an order nothing more happens.
GetOrder(g, from, close, closed) ==
  LET n == loc[g].num
  IN  /\ pc[g] = from
      /\ IF Stored(n)
         THEN /\ Goto(g, from, IF orders[n].completed THEN closed ELSE close)
              /\ loc' = [loc EXCEPT ![g].osnap = orders[n]]
              /\ UNCHANGED ticked
         ELSE Finish(g)
      /\ UNCHANGED <<dbVars, envVars, todo, historyVars, lockVars>>

SaveClosed(g, from, to, result) ==
  LET o == [loc[g].osnap EXCEPT !.completed = TRUE, !.result = result]
  IN  /\ Goto(g, from, to)
      /\ SavePaymentOrder(loc[g].num, o)
      /\ loc' = [loc EXCEPT ![g].osnap = o]
      /\ UNCHANGED <<txs, methods, retries, envVars, todo, ticked, historyVars, lockVars>>

ReadTransaction(g, from, to) ==
  /\ Goto(g, from, to)
  /\ loc' = [loc EXCEPT ![g].snap = txs[loc[g].osnap.tx]]
  /\ LocalStep

(***************************************************************************)
(* processPaymentResponse.                                                 *)
(***************************************************************************)
OkGet(g) == GetOrder(g, "okGet", "okClose", "okReset")

OkClose(g) == SaveClosed(g, "okClose", "okReset", "approved")

OkReset(g) ==
  /\ Goto(g, "okReset", IF loc[g].op = "refund" THEN "okRefund" ELSE "okTxRead")
  /\ SetFailCounter(loc[g].osnap.card, "usable")
  /\ UNCHANGED <<txs, orders, retries, envVars, loc, todo, ticked, historyVars, lockVars>>

\* Transaction type "3": only the order is updated.
OkRefund(g) ==
  /\ pc[g] = "okRefund"
  /\ SavePaymentOrder(loc[g].num, [loc[g].osnap EXCEPT !.refund = Amount])
  /\ Finish(g)
  /\ UNCHANGED <<txs, methods, retries, envVars, todo, historyVars, lockVars>>

OkTxRead(g) == ReadTransaction(g, "okTxRead", "okTxWrite")

\* Mutant of OkTxWrite: the order is not added to the transaction.
ForgetOrder(g) ==
  LET o == loc[g].osnap
  IN  /\ Goto(g, "okTxWrite", "okDrop")
      /\ UpdateTransactionPayment(o.tx,
           [loc[g].snap EXCEPT !.order = loc[g].num, !.billed = @ + o.amount, !.error = ""])
      /\ loc' = [loc EXCEPT ![g].snap = NoLocals.snap]
      /\ UNCHANGED <<orders, methods, retries, envVars, todo, ticked, historyVars, lockVars>>

\* Mutant of OkTxWrite: the captured amount is not counted.
ForgetBilled(g) ==
  LET o == loc[g].osnap
  IN  /\ Goto(g, "okTxWrite", "okDrop")
      /\ UpdateTransactionPayment(o.tx,
           [loc[g].snap EXCEPT !.order = loc[g].num, !.error = "",
                               !.orders = @ \cup {loc[g].num}])
      /\ loc' = [loc EXCEPT ![g].snap = NoLocals.snap]
      /\ UNCHANGED <<orders, methods, retries, envVars, todo, ticked, historyVars, lockVars>>

OkTxWrite(g) ==
  LET o == loc[g].osnap
      tx == loc[g].snap
  IN  /\ Goto(g, "okTxWrite", "okDrop")
      /\ UpdateTransactionPayment(o.tx,
           [tx EXCEPT !.order = loc[g].num, !.billed = @ + o.amount, !.error = "",
                      !.orders = @ \cup {loc[g].num}])
      /\ loc' = [loc EXCEPT ![g].snap = NoLocals.snap]
      /\ UNCHANGED <<orders, methods, retries, envVars, todo, ticked, historyVars, lockVars>>

OkDrop(g) ==
  /\ pc[g] = "okDrop"
  /\ retries' = [retries EXCEPT ![loc[g].osnap.tx] = NoRetry]
  /\ Finish(g)
  /\ UNCHANGED <<txs, orders, methods, envVars, todo, historyVars, lockVars>>

(***************************************************************************)
(* closeOrderOnError, for a failed payment and for a failed refund alike.  *)
(***************************************************************************)
FailGet(g) == GetOrder(g, "failGet", "failPenalty", "failPenalty")

FailPenalty(g) ==
  /\ Goto(g, "failPenalty", IF loc[g].osnap.completed THEN "failTxRead" ELSE "failClose")
  /\ SetFailCounter(loc[g].osnap.card, "failing")
  /\ UNCHANGED <<txs, orders, retries, envVars, loc, todo, ticked, historyVars, lockVars>>

FailClose(g) == SaveClosed(g, "failClose", "failTxRead", "failed")

FailTxRead(g) == ReadTransaction(g, "failTxRead", "failTxWrite")

FailTxWrite(g) ==
  LET tx == loc[g].snap
  IN  /\ Goto(g, "failTxWrite", "failRetryRead")
      /\ UpdateTransactionPayment(loc[g].osnap.tx,
           [tx EXCEPT !.order = loc[g].num, !.billed = Amount, !.error = "failed",
                      !.orders = @ \cup {loc[g].num}])
      /\ loc' = [loc EXCEPT ![g].snap = NoLocals.snap]
      /\ UNCHANGED <<orders, methods, retries, envVars, todo, ticked, historyVars, lockVars>>

\* schedulePaymentRetry: read the record ...
FailRetryRead(g) ==
  /\ Goto(g, "failRetryRead", "failRetryWrite")
  /\ loc' = [loc EXCEPT ![g].attempt = retries[loc[g].osnap.tx].attempt]
  /\ LocalStep

\* The two outcomes of schedulePaymentRetry for attempt number next.
SaveRetry(t, next) ==
  /\ retries' = [retries EXCEPT ![t] = [attempt |-> next, due |-> FALSE]]
  /\ UNCHANGED exhausted

GiveUp(t) ==
  /\ retries' = [retries EXCEPT ![t] = NoRetry]
  /\ exhausted' = exhausted \cup {t}

\* Mutant of FailRetryWrite: an existing record keeps its attempt number.
KeepAttempt(g) ==
  LET t == loc[g].osnap.tx
      next == IF loc[g].attempt = 0 THEN 1 ELSE loc[g].attempt
  IN  /\ pc[g] = "failRetryWrite"
      /\ IF next > MaxRetryAttempts THEN GiveUp(t) ELSE SaveRetry(t, next)
      /\ Finish(g)
      /\ UNCHANGED <<txs, orders, methods, envVars, todo, captured, lost, clash, lockVars>>

\* Mutant of FailRetryWrite: the last retry is never scheduled.
OneTooFew(g) ==
  LET t == loc[g].osnap.tx
      next == loc[g].attempt + 1
  IN  /\ pc[g] = "failRetryWrite"
      /\ IF next >= MaxRetryAttempts THEN GiveUp(t) ELSE SaveRetry(t, next)
      /\ Finish(g)
      /\ UNCHANGED <<txs, orders, methods, envVars, todo, captured, lost, clash, lockVars>>

\* ... and save the next attempt, or delete it when they are used up.
FailRetryWrite(g) ==
  LET t == loc[g].osnap.tx
      next == loc[g].attempt + 1
  IN  /\ pc[g] = "failRetryWrite"
      /\ IF next > MaxRetryAttempts THEN GiveUp(t) ELSE SaveRetry(t, next)
      /\ Finish(g)
      /\ UNCHANGED <<txs, orders, methods, envVars, todo, captured, lost, clash, lockVars>>

\* A capture that g has not finished recording: until the transaction is
\* billed and its retry record is gone, the processor would charge again.
Unrecorded(g) == loc[g].op = "pay" /\ pc[g] \in OkStates

\* The 30 second context ends; what is left of the goroutine does nothing.
JobDeadline(g) ==
  /\ "deadline" \in Faults
  /\ pc[g] # "idle"
  /\ lost' = IF Unrecorded(g) THEN lost \cup {loc[g].tx} ELSE lost
  /\ Finish(g)
  /\ UNCHANGED <<dbVars, envVars, todo, captured, exhausted, clash, lockVars>>

-----------------------------------------------------------------------------
(***************************************************************************)
(* The process dies (a panic of the processor goroutine, or a restart that *)
(* does not wait for goroutines) and starts again on the same database.    *)
(***************************************************************************)
CrashRestart ==
  /\ pc[Processor] = "panic" \/ "crash" \in Faults
  /\ pc' = [p \in Procs |-> "idle"]
  /\ loc' = [p \in Procs |-> NoLocals]
  /\ todo' = {}
  /\ ticked' = {}
  /\ lost' = lost \cup {loc[g].tx : g \in {h \in Goroutines : Unrecorded(h)}}
  /\ paymentLocks' = [id \in Ids |-> NoMutex]
  /\ owner' = [m \in Mutexes |-> NoCaller]
  /\ lpc' = [c \in Callers |-> "idle"]
  /\ lid' = [c \in Callers |-> NoId]
  /\ ref' = [c \in Callers |-> NoMutex]
  /\ UNCHANGED <<dbVars, envVars, captured, exhausted, clash, orphaned>>

(***************************************************************************)
(* The rest of the world: the central system finishes transactions, users  *)
(* add and delete cards, cards expire, retries fall due.                   *)
(***************************************************************************)
FinishTransaction(t) ==
  /\ ~txs[t].finished
  /\ txs' = [txs EXCEPT ![t].finished = TRUE]
  /\ UNCHANGED <<orders, methods, retries, envVars, pc, loc, todo, ticked, historyVars, lockVars>>

SaveMethod(c) ==
  /\ "save" \in CardEvents
  /\ methods[c] = "absent"
  /\ methods' = [methods EXCEPT ![c] = "usable"]
  /\ UNCHANGED <<txs, orders, retries, envVars, pc, loc, todo, ticked, historyVars, lockVars>>

DeleteMethod(c) ==
  /\ "delete" \in CardEvents
  /\ methods[c] # "absent"
  /\ methods' = [methods EXCEPT ![c] = "absent"]
  /\ UNCHANGED <<txs, orders, retries, envVars, pc, loc, todo, ticked, historyVars, lockVars>>

CardExpires(c) ==
  /\ "expire" \in CardEvents
  /\ c \notin expired
  /\ expired' = expired \cup {c}
  /\ UNCHANGED <<dbVars, clock, calls, pc, loc, todo, ticked, historyVars, lockVars>>

RetryDue(t) ==
  /\ retries[t] # NoRetry /\ ~retries[t].due
  /\ retries' = [retries EXCEPT ![t].due = TRUE]
  /\ UNCHANGED <<txs, orders, methods, envVars, pc, loc, todo, ticked, historyVars, lockVars>>

CallerStep(p) ==
  \/ CallPay(p) \/ CallForceRetry(p) \/ CallReturn(p) \/ CallReturnByOrder(p)
  \/ RetryRead(p) \/ RetryReset(p)
  \/ LockLoad(p) \/ LockAcquire(p) \/ LockRelease(p) \/ LockDelete(p)
  \/ PayRead(p) \/ PayPick(p) \/ PayExpired(p) \/ PayDrop(p) \/ PayRecord(p)
  \/ PayFind(p) \/ PayClose(p) \/ PayPenalty(p) \/ PaySettle(p)
  \/ PayStamp(p) \/ PayNumber(p) \/ PaySave(p)
  \/ ReturnStart(p) \/ Recovered(p) \/ CallerDeadline(p)

ProcessorStep ==
  Tick \/ ProcessUnbilled \/ StartRetries \/ ProcessRetry \/ EndTick

GoroutineStep(g) ==
  \/ SendPay(g) \/ SendRefund(g)
  \/ OkGet(g) \/ OkClose(g) \/ OkReset(g) \/ OkRefund(g)
  \/ OkTxRead(g) \/ OkTxWrite(g) \/ OkDrop(g)
  \/ FailGet(g) \/ FailPenalty(g) \/ FailClose(g)
  \/ FailTxRead(g) \/ FailTxWrite(g) \/ FailRetryRead(g) \/ FailRetryWrite(g)
  \/ JobDeadline(g)

Environment ==
  \/ \E t \in Tx : FinishTransaction(t) \/ RetryDue(t)
  \/ \E c \in Cards : SaveMethod(c) \/ DeleteMethod(c) \/ CardExpires(c)

Next ==
  \/ \E p \in Callers : CallerStep(p)
  \/ ProcessorStep
  \/ \E g \in Goroutines : GoroutineStep(g)
  \/ CrashRestart
  \/ Environment

Spec == Init /\ [][Next]_vars

(***************************************************************************)
(* The processor goroutine and the runAsync goroutines run on, ticks keep  *)
(* coming, and time reaches next_retry_time.  Nothing is assumed of the    *)
(* HTTP handlers or of what happens to cards.                              *)
(***************************************************************************)
Fairness ==
  /\ WF_vars(ProcessorStep)
  /\ WF_vars(CallerStep(Processor))
  /\ \A g \in Goroutines : WF_vars(GoroutineStep(g))
  /\ \A t \in Tx : WF_vars(RetryDue(t))

FairSpec == Spec /\ Fairness

-----------------------------------------------------------------------------
\* Nothing is in progress: no goroutine runs and no caller is in a call.
Quiet ==
  /\ \A g \in Goroutines : pc[g] = "idle"
  /\ \A p \in Callers : pc[p] \in {"idle", "unbilled", "retries"}

\* A transaction the code bills to a card: not written off.
Charged(t) == TagOf[t] = "user" /\ ~DisablePayment

\* Types of the documents, of the local copies and of the history.
TypeOK ==
  /\ LockTypeOK
  /\ txs \in [Tx -> TxDoc]
  /\ orders \in [OrderNums -> OrderDoc]
  /\ methods \in [Cards -> {"absent", "usable", "failing"}]
  /\ retries \in [Tx -> RetryDoc]
  /\ expired \subseteq Cards
  /\ clock \in 0..MaxOrders
  /\ calls \in 0..MaxCalls
  /\ pc \in [Procs -> CallerStates \cup GoroutineStates]
  /\ loc \in [Procs -> Locals]
  /\ todo \subseteq Tx
  /\ ticked \subseteq Goroutines
  /\ captured \in [Tx -> Nat]
  /\ lost \subseteq Tx
  /\ exhausted \subseteq Tx
  /\ clash \in BOOLEAN

(***************************************************************************)
(* A transaction whose document says it is paid (billed in full, no        *)
(* payment error) was captured by the gateway: neither a stale copy that   *)
(* PayTransaction or retryOne writes back nor a failing goroutine makes an *)
(* unpaid transaction look paid.  Two transactions that were given the     *)
(* same order number are excepted.                                         *)
(***************************************************************************)
ShownPaidIsPaid ==
  \A t \in Tx :
    ~clash /\ Charged(t) /\ txs[t].billed >= Amount /\ txs[t].error = ""
      => captured[t] >= Amount

(***************************************************************************)
(* PayTransaction closes the previous uncompleted order before it opens    *)
(* the next: a transaction has at most one open order, as long as the      *)
(* keyed lock has excluded concurrent payments of it.                      *)
(***************************************************************************)
OneOpenOrder ==
  \A t \in Tx \ orphaned : \A m, n \in OpenOrders(t) : m = n

(***************************************************************************)
(* The payment processor alone never charges a transaction twice unless a  *)
(* capture was lost: the answer was unreadable, or processPaymentResponse  *)
(* was cut off before it had billed the transaction and deleted its retry  *)
(* record.                                                                 *)
(***************************************************************************)
NoDoubleCharge == \A t \in Tx : captured[t] > Amount => t \in lost

(***************************************************************************)
(* No debt is silently dropped: when nothing is in progress, a transaction *)
(* that the unbilled query no longer returns and that has no retry record  *)
(* was captured or has used up its retries (closeOrderOnError marks it     *)
(* billed first and schedules the retry afterwards).                       *)
(***************************************************************************)
NoSilentGiveUp ==
  \A t \in Tx :
    Quiet /\ Charged(t) /\ txs[t].billed >= Amount /\ retries[t] = NoRetry
      => captured[t] >= Amount \/ t \in exhausted

(***************************************************************************)
(* The audit trail of a paid transaction: payment_order names an approved  *)
(* order of this transaction, and payment_orders lists it.                 *)
(***************************************************************************)
PaidIsTraceable ==
  \A t \in Tx :
    Charged(t) /\ txs[t].billed >= Amount /\ txs[t].error = "" =>
      /\ txs[t].order \in txs[t].orders
      /\ orders[txs[t].order].tx = t
      /\ orders[txs[t].order].result = "approved"

\* The result of a completed order is final.
ResultIsFinal ==
  [][\A n \in OrderNums :
       orders[n].completed =>
         orders'[n].completed /\ orders'[n].result = orders[n].result]_orders

(***************************************************************************)
(* Every finished transaction is eventually paid, or its retries run out,  *)
(* or its document says that the card has expired:                         *)
(* processUnbilledTransactions, processPaymentRetries and                  *)
(* schedulePaymentRetry never leave a debt waiting for ever.               *)
(***************************************************************************)
EventuallySettled ==
  \A t \in Tx :
    txs[t].finished /\ Charged(t) ~>
      captured[t] >= Amount \/ t \in exhausted \/ txs[t].error = "expired"

(***************************************************************************)
(* The documents and the gateway, seen as a debt.                          *)
(***************************************************************************)
Stage(t) ==
  IF captured[t] >= Amount THEN "paid"
  ELSE IF t \in exhausted THEN "abandoned"
  ELSE IF retries[t] # NoRetry THEN "retrying"
  ELSE IF txs[t].finished THEN "due"
  ELSE "open"

Attempts(t) == IF Stage(t) = "retrying" THEN retries[t].attempt ELSE 0

TheDebt == INSTANCE Debt WITH
  Debts <- Tx, MaxAttempts <- MaxRetryAttempts,
  stage <- [t \in Tx |-> Stage(t)], attempt <- [t \in Tx |-> Attempts(t)]

(***************************************************************************)
(* The payment processor implements Debt: however its steps interleave     *)
(* with card events and whatever the gateway answers, a debt is given up   *)
(* only after all its retries, no attempt is left out or counted twice,    *)
(* and a paid debt never becomes due again.                                *)
(***************************************************************************)
ImplementsDebt == TheDebt!DebtSpec

(***************************************************************************)
(* "schedulePaymentRetry creates or updates a retry record for a failed    *)
(* payment": a retry record stands for a transaction nobody has paid.  The *)
(* code also schedules one when a refund of a paid transaction is refused. *)
(***************************************************************************)
RetryMeansUnpaid ==
  \A t \in Tx : Quiet /\ retries[t] # NoRetry => captured[t] < Amount
=============================================================================

------------------------------ MODULE Enrollment -----------------------------
(***************************************************************************)
(* Payment methods, payment orders that a client opens, and the gateway's  *)
(* notifications (SavePaymentMethod to SetOrder, Notify and                *)
(* processPaymentResponse of impl/core/core.go, on the repository of       *)
(* impl/database/mongo.go).                                                *)
(*                                                                         *)
(* A client opens an order and has the user enter a card on the gateway's  *)
(* hosted form.  The gateway takes the amount and notifies the server,     *)
(* perhaps more than once, of every attempt.  The notification of an order *)
(* without a transaction enrolls the card and returns the charge; that of  *)
(* an order with a transaction adds the amount to what was billed.  A      *)
(* handler or goroutine makes one database or gateway call per step.       *)
(*                                                                         *)
(* Data: order numbers start at 1; a card stands for its identifier; fail  *)
(* counters, results and dates are left out; signatures are reduced to     *)
(* whether the gateway issued the notification.                            *)
(***************************************************************************)
EXTENDS Integers, FiniteSets

CONSTANTS
  Users, Cards, Tx,
  HolderOf,      \* the user who holds a card
  Handlers,      \* concurrently served requests
  Goroutines,    \* slots for runAsync calls
  Docs,          \* slots for documents of payment_methods
  MaxOrders,     \* bound: order numbers
  MaxCalls,      \* bound: requests the API receives
  MaxDeliveries, \* bound: notifications delivered per order, by outcome
  MaxBroken,     \* bound: orders with a failure when another call fails
  Charge,        \* what a card entry costs
  InitialMethods,\* payment methods stored before
  NoUser, NoCard, NoTx

ASSUME EnrollmentAssumption ==
  /\ HolderOf \in [Cards -> Users]
  /\ MaxOrders \in Nat /\ MaxCalls \in Nat /\ MaxBroken \in Nat /\ MaxDeliveries \in [BOOLEAN -> Nat]
  /\ Charge \in Nat \ {0}
  /\ NoUser \notin Users /\ NoCard \notin Cards /\ NoTx \notin Tx

OrderNums == 1..MaxOrders

OrderDoc == [user : Users \cup {NoUser}, tx : Tx \cup {NoTx}, amount : Nat,
             completed : BOOLEAN, refund : Nat]
NoOrder == [user |-> NoUser, tx |-> NoTx, amount |-> 0, completed |-> FALSE, refund |-> 0]

MethodDoc == [card : Cards \cup {NoCard}, user : Users \cup {NoUser}, default : BOOLEAN]
NoDoc == [card |-> NoCard, user |-> NoUser, default |-> FALSE]

\* The collection payment_methods is one that earlier requests left: cards of
\* their holders, each stored once, and at most one default card per user.
ASSUME StoredAssumption ==
  /\ InitialMethods \in [Docs -> MethodDoc]
  /\ \A d \in Docs : InitialMethods[d] # NoDoc =>
       /\ InitialMethods[d].card \in Cards
       /\ InitialMethods[d].user = HolderOf[InitialMethods[d].card]
  /\ \A d, e \in Docs : InitialMethods[d] # NoDoc /\ InitialMethods[e] # NoDoc =>
       /\ InitialMethods[d].card = InitialMethods[e].card => d = e
       /\ InitialMethods[d].user = InitialMethods[e].user
            /\ InitialMethods[d].default /\ InitialMethods[e].default => d = e

\* What a request works on: the user, the order or payment method of its body.
Body == [user : Users \cup {NoUser}, card : Cards \cup {NoCard}, default : BOOLEAN,
         tx : Tx \cup {NoTx}, amount : Nat, num : 0..MaxOrders]
NoBody == [user |-> NoUser, card |-> NoCard, default |-> FALSE, tx |-> NoTx,
           amount |-> 0, num |-> 0]

\* A notification: what the gateway says about an order.
Note == [num : 0..MaxOrders, card : Cards \cup {NoCard}, approved : BOOLEAN, amount : Nat]
NoNote == [num |-> 0, card |-> NoCard, approved |-> FALSE, amount |-> 0]

TxDoc == [billed : Nat, error : BOOLEAN]

VARIABLES
  orders,     \* collection payment_orders
  methods,    \* collection payment_methods
  txs,        \* collection transactions: payment_billed, whether there is a
              \* payment_error
  hpc, body,  \* the handlers
  gpc, note,  \* the goroutines, and the notification each works on
  copy,       \* a goroutine's copies of the order ...
  tcopy,      \* ... and of the transaction
  calls,
  forms,      \* hosted forms handed out, as <<user, order number, amount>>
  sent,       \* notifications the gateway has issued
  deliveries, \* how often the server was told of an approval or a decline
  taken,      \* history: what the gateway took for an order
  refunds,    \* history: refunds the gateway made of an order
  mixed,      \* history: numbers two handlers were about to give away
  twins,      \* history: cards two processes were about to store
  blurred,    \* history: users whose default flags were changed by two
              \* requests at once or by a request with a wrong flag
  broken      \* history: orders whose processing failed

dataVars == <<orders, methods, txs>>
handlerVars == <<hpc, body, calls>>
goVars == <<gpc, note, copy, tcopy>>
gatewayVars == <<forms, sent, deliveries, taken, refunds>>
marks == <<mixed, twins, blurred, broken>>
enrollmentVars == <<dataVars, handlerVars, goVars, gatewayVars, marks>>

HandlerStates == {"idle", "number", "save", "check", "insert", "clear", "set",
                  "delete", "first"}
GoStates == {"idle", "get", "close", "check", "insert", "return", "send", "refGet",
             "refSave", "txRead", "txWrite", "failGet", "failClose", "failTx"}

EnrollmentInit ==
  /\ orders = [n \in OrderNums |-> NoOrder]
  /\ methods = InitialMethods
  /\ txs = [t \in Tx |-> [billed |-> 0, error |-> FALSE]]
  /\ hpc = [h \in Handlers |-> "idle"]
  /\ body = [h \in Handlers |-> NoBody]
  /\ calls = 0
  /\ gpc = [g \in Goroutines |-> "idle"]
  /\ note = [g \in Goroutines |-> NoNote]
  /\ copy = [g \in Goroutines |-> NoOrder]
  /\ tcopy = [g \in Goroutines |-> [billed |-> 0, error |-> FALSE]]
  /\ forms = {} /\ sent = {}
  /\ deliveries = [n \in OrderNums |-> [ok \in BOOLEAN |-> 0]]
  /\ taken = [n \in OrderNums |-> 0]
  /\ refunds = [n \in OrderNums |-> 0]
  /\ mixed = {} /\ twins = {} /\ blurred = {} /\ broken = {}

-----------------------------------------------------------------------------
Stored(n) == orders[n] # NoOrder
DocsOf(u) == {d \in Docs : methods[d].user = u}
DocsFor(c, u) == {d \in DocsOf(u) : methods[d].card = c}
FreeDocs == {d \in Docs : methods[d] = NoDoc}

\* A request arrives at a free handler.
Request(h, to, b) ==
  /\ hpc[h] = "idle" /\ calls < MaxCalls
  /\ calls' = calls + 1
  /\ hpc' = [hpc EXCEPT ![h] = to]
  /\ body' = [body EXCEPT ![h] = b]
  /\ UNCHANGED <<dataVars, goVars, gatewayVars, marks>>

Goto(h, from, to) == hpc[h] = from /\ hpc' = [hpc EXCEPT ![h] = to] /\ UNCHANGED <<body, calls>>

\* The handler answers.
Answer(h, from) ==
  /\ hpc[h] = from
  /\ hpc' = [hpc EXCEPT ![h] = "idle"]
  /\ body' = [body EXCEPT ![h] = NoBody]
  /\ UNCHANGED calls

HandlerOnly == UNCHANGED <<dataVars, goVars, gatewayVars, marks>>

(***************************************************************************)
(* POST /payment/order: SetOrder, and the form CreateWebOrder signs.       *)
(***************************************************************************)
PostOrder(h) ==
  \E u \in Users, t \in Tx \cup {NoTx}, a \in {0, Charge} :
    /\ t # NoTx => a > 0
    /\ Request(h, "number", [NoBody EXCEPT !.user = u, !.tx = t, !.amount = a])

\* The client sends the order again, with its number.
RepostOrder(h) ==
  \E n \in OrderNums :
    /\ Stored(n)
    /\ Request(h, "save", [NoBody EXCEPT !.user = orders[n].user, !.tx = orders[n].tx,
                                         !.amount = orders[n].amount, !.num = n])

LastOrder == IF \E n \in OrderNums : Stored(n)
             THEN CHOOSE n \in OrderNums : Stored(n) /\ \A m \in OrderNums : Stored(m) => m <= n
             ELSE 0

\* An order of the transaction that was interrupted is closed.
CloseInterrupted(t) ==
  IF t # NoTx /\ \E n \in OrderNums : orders[n].tx = t /\ ~orders[n].completed
  THEN \E n \in OrderNums :
         /\ orders[n].tx = t /\ ~orders[n].completed
         /\ orders' = [orders EXCEPT ![n].completed = TRUE]
  ELSE UNCHANGED orders

\* Mutant of NextOrder: the number of the last order.
SameOrder(h) ==
  LET n == IF LastOrder = 0 THEN 1 ELSE LastOrder
  IN  /\ hpc[h] = "number"
      /\ CloseInterrupted(body[h].tx)
      /\ hpc' = [hpc EXCEPT ![h] = "save"]
      /\ body' = [body EXCEPT ![h].num = n]
      /\ mixed' = IF \E k \in Handlers \ {h} : hpc[k] = "save" /\ body[k].num = n
                  THEN mixed \cup {n} ELSE mixed
      /\ UNCHANGED <<methods, txs, calls, goVars, gatewayVars, twins, blurred, broken>>

\* nextOrderNumber.
NextOrder(h) ==
  LET n == LastOrder + 1
  IN  /\ hpc[h] = "number" /\ n <= MaxOrders
      /\ CloseInterrupted(body[h].tx)
      /\ hpc' = [hpc EXCEPT ![h] = "save"]
      /\ body' = [body EXCEPT ![h].num = n]
      /\ mixed' = IF \E k \in Handlers \ {h} : hpc[k] = "save" /\ body[k].num = n
                  THEN mixed \cup {n} ELSE mixed
      /\ UNCHANGED <<methods, txs, calls, goVars, gatewayVars, twins, blurred, broken>>

\* The hosted form for an order, signed by the server.
BuildEntryForm(b) == forms' = forms \cup {<<b.user, b.num, b.amount>>}

\* SavePaymentOrder replaces or inserts the document.
SaveOrder(h) ==
  LET b == body[h]
      n == b.num
  IN  /\ hpc[h] = "save"
      /\ orders' = [orders EXCEPT ![n] = [NoOrder EXCEPT !.user = b.user, !.tx = b.tx,
                                                        !.amount = b.amount]]
      /\ BuildEntryForm(b)
      /\ broken' = IF Stored(n) THEN broken \cup {n} ELSE broken
      /\ Answer(h, "save")
      /\ UNCHANGED <<methods, txs, goVars, sent, deliveries, taken, refunds,
                     mixed, twins, blurred>>

(***************************************************************************)
(* /payment/save, /payment/update and /payment/delete.                     *)
(***************************************************************************)
\* The method of a request's body, of the user who sent it.
OwnMethod(c, d) == [NoBody EXCEPT !.user = HolderOf[c], !.card = c, !.default = d]

PostMethod(h) ==
  \E c \in Cards, to \in {"check", "clear", "set", "delete"}, d \in BOOLEAN :
    /\ to = "clear" => d
    /\ to = "set" => ~d
    /\ Request(h, to, OwnMethod(c, d))

\* Processes between the check and the insert of SavePaymentMethod.
Inserting(c, u) ==
  \/ \E h \in Handlers : hpc[h] = "insert" /\ body[h].card = c /\ body[h].user = u
  \/ \E g \in Goroutines : gpc[g] = "insert" /\ note[g].card = c /\ copy[g].user = u

\* Mutant of Exists: nothing is looked up.
ExistsNowhere(c, u) == FALSE

\* SavePaymentMethod refuses an identifier the user already has.
Exists(c, u) == DocsFor(c, u) # {}

CheckMethod(h) ==
  LET b == body[h]
  IN  /\ hpc[h] = "check"
      /\ IF Exists(b.card, b.user) THEN Answer(h, "check") ELSE Goto(h, "check", "insert")
      /\ twins' = IF Inserting(b.card, b.user) THEN twins \cup {b.card} ELSE twins
      /\ UNCHANGED <<dataVars, goVars, gatewayVars, mixed, blurred, broken>>

\* A card saved with the default flag leaves the flags of the others alone.
InsertMethod(h) ==
  LET b == body[h]
  IN  /\ hpc[h] = "insert"
      /\ FreeDocs # {}
      /\ LET d == CHOOSE e \in FreeDocs : TRUE IN
           methods' = [methods EXCEPT ![d] = [card |-> b.card, user |-> b.user,
                                              default |-> b.default]]
      /\ blurred' = IF b.default THEN blurred \cup {b.user} ELSE blurred
      /\ Answer(h, "insert")
      /\ UNCHANGED <<orders, txs, goVars, gatewayVars, mixed, twins, broken>>

\* Another request of the user is about to set a default flag.
Flagging(h) ==
  \E k \in Handlers \ {h} :
    /\ body[k].user = body[h].user
    /\ hpc[k] \in {"set", "first"} /\ body[k].default

\* Mutant of ClearDefaults: the flags of the others stay.
ClearNothing(h) ==
  /\ Goto(h, "clear", "set")
  /\ UNCHANGED <<dataVars, goVars, gatewayVars, marks>>

\* UpdatePaymentMethod with the default flag: first UpdateMany of the user ...
ClearDefaults(h) ==
  /\ hpc[h] = "clear"
  /\ methods' = [d \in Docs |-> IF d \in DocsOf(body[h].user)
                                THEN [methods[d] EXCEPT !.default = FALSE] ELSE methods[d]]
  /\ blurred' = IF Flagging(h) THEN blurred \cup {body[h].user} ELSE blurred
  /\ Goto(h, "clear", "set")
  /\ UNCHANGED <<orders, txs, goVars, gatewayVars, mixed, twins, broken>>

\* ... then UpdateOne of the method.
SetDefault(h) ==
  LET own == DocsFor(body[h].card, body[h].user)
  IN  /\ hpc[h] = "set"
      /\ IF own = {} THEN UNCHANGED methods
         ELSE \E d \in own : methods' = [methods EXCEPT ![d].default = body[h].default]
      /\ Answer(h, "set")
      /\ UNCHANGED <<orders, txs, goVars, gatewayVars, marks>>

\* DeletePaymentMethod: DeleteOne; then, if the request says that the method
\* was the default, another method of the user becomes it.
DeleteMethod(h) ==
  LET b == body[h]
      own == DocsFor(b.card, b.user)
  IN  /\ hpc[h] = "delete"
      /\ IF own = {}
         THEN Answer(h, "delete") /\ UNCHANGED <<methods, blurred>>
         ELSE \E d \in own :
                /\ methods' = [methods EXCEPT ![d] = NoDoc]
                /\ IF b.default THEN Goto(h, "delete", "first") ELSE Answer(h, "delete")
                /\ blurred' = IF b.default /\ ~methods[d].default
                              THEN blurred \cup {b.user} ELSE blurred
      /\ UNCHANGED <<orders, txs, goVars, gatewayVars, mixed, twins, broken>>

FirstMethod(h) ==
  LET own == DocsOf(body[h].user)
  IN  /\ hpc[h] = "first"
      /\ IF own = {} THEN Answer(h, "first")
         ELSE \E d \in own :
                /\ hpc' = [hpc EXCEPT ![h] = "set"]
                /\ body' = [body EXCEPT ![h].card = methods[d].card]
                /\ UNCHANGED calls
      /\ blurred' = IF Flagging(h) \/ \E d \in own : methods[d].default
                    THEN blurred \cup {body[h].user} ELSE blurred
      /\ UNCHANGED <<dataVars, goVars, gatewayVars, mixed, twins, broken>>

\* The five seconds of a request are over, or a call of it fails.
Abandon(h) ==
  /\ hpc[h] # "idle"
  /\ Answer(h, hpc[h])
  /\ HandlerOnly

-----------------------------------------------------------------------------
(***************************************************************************)
(* The gateway (external): the user enters a card on a form.  It approves  *)
(* one attempt per order number, and notifies the server of every attempt. *)
(***************************************************************************)
Attempt(f) ==
  LET n == f[2]
  IN  /\ f \in forms
      /\ taken[n] = 0 /\ ~\E m \in sent : m.num = n /\ m.approved
      /\ \E c \in {k \in Cards : HolderOf[k] = f[1]}, ok \in BOOLEAN :
           /\ sent' = sent \cup {[num |-> n, card |-> IF ok THEN c ELSE NoCard,
                                   approved |-> ok, amount |-> f[3]]}
           /\ taken' = [taken EXCEPT ![n] = IF ok THEN f[3] ELSE 0]
      /\ UNCHANGED <<dataVars, handlerVars, goVars, forms, deliveries, refunds, marks>>

\* What carries a signature that verifies: the notifications the gateway made.
Verified == sent

\* Notify: a notification whose signature verifies is processed by a
\* goroutine; it may be delivered again.
Notify(g) ==
  /\ gpc[g] = "idle"
  /\ \E m \in Verified :
       /\ deliveries[m.num][m.approved] < MaxDeliveries[m.approved]
       /\ deliveries' = [deliveries EXCEPT ![m.num][m.approved] = @ + 1]
       /\ note' = [note EXCEPT ![g] = m]
       /\ gpc' = [gpc EXCEPT ![g] = IF m.approved THEN "get" ELSE "failGet"]
  /\ UNCHANGED <<dataVars, handlerVars, copy, tcopy, forms, sent, taken, refunds, marks>>

(***************************************************************************)
(* processNotifyResponse and processPaymentResponse.                       *)
(***************************************************************************)
Step(g, from, to) == gpc[g] = from /\ gpc' = [gpc EXCEPT ![g] = to]

Done(g, from) ==
  /\ Step(g, from, "idle")
  /\ note' = [note EXCEPT ![g] = NoNote]
  /\ copy' = [copy EXCEPT ![g] = NoOrder]
  /\ tcopy' = [tcopy EXCEPT ![g] = [billed |-> 0, error |-> FALSE]]

JobVars == <<handlerVars, forms, sent, deliveries, taken>>

\* Where an order that is closed leads: to its transaction or to enrollment.
AfterClose(o) == IF o.tx # NoTx THEN "txRead" ELSE "check"

\* Mutant of GetOrder: an order that is completed needs no work.
GetOpenOrder(g) ==
  LET o == orders[note[g].num]
  IN  /\ gpc[g] = "get"
      /\ IF o = NoOrder \/ o.completed THEN Done(g, "get")
         ELSE /\ Step(g, "get", "close")
              /\ copy' = [copy EXCEPT ![g] = o]
              /\ UNCHANGED <<note, tcopy>>
      /\ UNCHANGED <<JobVars, dataVars, refunds, marks>>

GetOrder(g) ==
  LET o == orders[note[g].num]
  IN  /\ gpc[g] = "get"
      /\ IF o = NoOrder THEN Done(g, "get")
         ELSE /\ Step(g, "get", IF o.completed THEN AfterClose(o) ELSE "close")
              /\ copy' = [copy EXCEPT ![g] = o]
              /\ UNCHANGED <<note, tcopy>>
      /\ UNCHANGED <<JobVars, dataVars, refunds, marks>>

CloseOrder(g) ==
  LET o == [copy[g] EXCEPT !.amount = note[g].amount, !.completed = TRUE]
  IN  /\ Step(g, "close", AfterClose(o))
      /\ copy' = [copy EXCEPT ![g] = o]
      /\ orders' = [orders EXCEPT ![note[g].num] = o]
      /\ UNCHANGED <<JobVars, methods, txs, note, tcopy, refunds, marks>>

\* Enrollment: SavePaymentMethod for the user of the order; that the card is
\* stored already is only logged.
CheckCard(g) ==
  LET c == note[g].card
      u == copy[g].user
  IN  /\ Step(g, "check", IF Exists(c, u) THEN "return" ELSE "insert")
      /\ twins' = IF Inserting(c, u) THEN twins \cup {c} ELSE twins
      /\ UNCHANGED <<JobVars, dataVars, note, copy, tcopy, refunds, mixed, blurred, broken>>

InsertCard(g) ==
  /\ Step(g, "insert", "return")
  /\ FreeDocs # {}
  /\ LET d == CHOOSE e \in FreeDocs : TRUE IN
       methods' = [methods EXCEPT ![d] = [card |-> note[g].card, user |-> copy[g].user,
                                          default |-> FALSE]]
  /\ UNCHANGED <<JobVars, orders, txs, note, copy, tcopy, refunds, marks>>

\* ReturnByOrder of the charge: the goroutine ends by starting processRefund,
\* which here goes on in its place.
ReturnCharge(g) ==
  /\ gpc[g] = "return"
  /\ IF copy[g].amount = 0 \/ orders[note[g].num].amount < copy[g].amount
     THEN Done(g, "return")
     ELSE Step(g, "return", "send") /\ UNCHANGED <<note, copy, tcopy>>
  /\ UNCHANGED <<JobVars, dataVars, refunds, marks>>

\* processRefund: the gateway refunds; it refuses, which is closeOrderOnError;
\* or its answer is lost.
SendRefund(g) ==
  LET n == note[g].num
  IN  /\ gpc[g] = "send"
      /\ \/ /\ Step(g, "send", "refGet")
            /\ refunds' = [refunds EXCEPT ![n] = @ + 1]
            /\ UNCHANGED <<note, copy, tcopy, broken>>
         \/ /\ Cardinality(broken) < MaxBroken
            /\ broken' = broken \cup {n}
            /\ \/ Step(g, "send", "failGet") /\ UNCHANGED <<note, copy, tcopy, refunds>>
               \/ Done(g, "send") /\ refunds' \in {refunds, [refunds EXCEPT ![n] = @ + 1]}
      /\ UNCHANGED <<JobVars, dataVars, mixed, twins, blurred>>

\* Mutant of RefundGet: the answer to a refund is handled like any other.
RefundEnrolls(g) ==
  /\ Step(g, "refGet", "check")
  /\ copy' = [copy EXCEPT ![g] = orders[note[g].num]]
  /\ UNCHANGED <<JobVars, dataVars, note, tcopy, refunds, marks>>

\* processPaymentResponse of the answer to the refund.
RefundGet(g) ==
  /\ Step(g, "refGet", "refSave")
  /\ copy' = [copy EXCEPT ![g] = [orders[note[g].num] EXCEPT !.refund = note[g].amount,
                                                             !.completed = TRUE]]
  /\ UNCHANGED <<JobVars, dataVars, note, tcopy, refunds, marks>>

RefundSave(g) ==
  /\ gpc[g] = "refSave"
  /\ orders' = [orders EXCEPT ![note[g].num] = copy[g]]
  /\ Done(g, "refSave")
  /\ UNCHANGED <<JobVars, methods, txs, refunds, marks>>

\* An order with a transaction: the amount is added to what was billed.
TxRead(g) ==
  /\ Step(g, "txRead", "txWrite")
  /\ tcopy' = [tcopy EXCEPT ![g] = txs[copy[g].tx]]
  /\ UNCHANGED <<JobVars, dataVars, note, copy, refunds, marks>>

\* Mutant of TxWrite: it is repeated when a later call fails.
TxWriteAgain(g) ==
  /\ gpc[g] = "txWrite"
  /\ txs' = [txs EXCEPT ![copy[g].tx] = [billed |-> tcopy[g].billed + copy[g].amount,
                                         error |-> FALSE]]
  /\ Done(g, "txWrite") \/ (Step(g, "txWrite", "txRead") /\ UNCHANGED <<note, copy, tcopy>>)
  /\ UNCHANGED <<JobVars, orders, methods, refunds, marks>>

TxWrite(g) ==
  /\ gpc[g] = "txWrite"
  /\ txs' = [txs EXCEPT ![copy[g].tx] = [billed |-> tcopy[g].billed + copy[g].amount,
                                         error |-> FALSE]]
  /\ Done(g, "txWrite")
  /\ UNCHANGED <<JobVars, orders, methods, refunds, marks>>

(***************************************************************************)
(* closeOrderOnError, for a declined attempt.                              *)
(***************************************************************************)
FailGet(g) ==
  LET o == orders[note[g].num]
  IN  /\ gpc[g] = "failGet"
      /\ IF o = NoOrder THEN Done(g, "failGet")
         ELSE /\ Step(g, "failGet", "failClose")
              /\ copy' = [copy EXCEPT ![g] = o]
              /\ UNCHANGED <<note, tcopy>>
      /\ UNCHANGED <<JobVars, dataVars, refunds, marks>>

FailClose(g) ==
  /\ gpc[g] = "failClose"
  /\ orders' = IF copy[g].completed THEN orders
               ELSE [orders EXCEPT ![note[g].num] = [copy[g] EXCEPT !.completed = TRUE]]
  /\ IF copy[g].tx = NoTx THEN Done(g, "failClose")
     ELSE Step(g, "failClose", "failTx") /\ UNCHANGED <<note, copy, tcopy>>
  /\ UNCHANGED <<JobVars, methods, txs, refunds, marks>>

\* The transaction is closed as billed, with the error.
FailTx(g) ==
  /\ gpc[g] = "failTx"
  /\ txs' = [txs EXCEPT ![copy[g].tx] = [billed |-> Charge, error |-> TRUE]]
  /\ broken' = broken \cup {n \in OrderNums : orders[n].tx = copy[g].tx}
  /\ Done(g, "failTx")
  /\ UNCHANGED <<JobVars, orders, methods, refunds, mixed, twins, blurred>>

\* The 30 seconds of the goroutine are over, or a call of it fails.
Deadline(g) ==
  /\ gpc[g] # "idle" /\ Cardinality(broken) < MaxBroken
  /\ Done(g, gpc[g])
  /\ broken' = broken \cup {note[g].num}
  /\ UNCHANGED <<JobVars, dataVars, refunds, mixed, twins, blurred>>

HandlerStep(h) ==
  \/ PostOrder(h) \/ RepostOrder(h) \/ NextOrder(h) \/ SaveOrder(h)
  \/ PostMethod(h) \/ CheckMethod(h) \/ InsertMethod(h) \/ ClearDefaults(h)
  \/ SetDefault(h) \/ DeleteMethod(h) \/ FirstMethod(h) \/ Abandon(h)

JobStep(g) ==
  \/ GetOrder(g) \/ CloseOrder(g) \/ CheckCard(g) \/ InsertCard(g) \/ ReturnCharge(g)
  \/ SendRefund(g) \/ RefundGet(g) \/ RefundSave(g) \/ TxRead(g) \/ TxWrite(g)
  \/ FailGet(g) \/ FailClose(g) \/ FailTx(g) \/ Deadline(g)

EnrollmentNext ==
  \/ \E h \in Handlers : HandlerStep(h)
  \/ \E f \in forms : Attempt(f)
  \/ \E g \in Goroutines : Notify(g) \/ JobStep(g)

EnrollmentSpec == EnrollmentInit /\ [][EnrollmentNext]_enrollmentVars

-----------------------------------------------------------------------------
\* Types of the collections and of what requests and goroutines hold.
EnrollmentTypeOK ==
  /\ orders \in [OrderNums -> OrderDoc]
  /\ methods \in [Docs -> MethodDoc]
  /\ txs \in [Tx -> TxDoc]
  /\ hpc \in [Handlers -> HandlerStates] /\ body \in [Handlers -> Body]
  /\ gpc \in [Goroutines -> GoStates] /\ note \in [Goroutines -> Note]
  /\ copy \in [Goroutines -> OrderDoc] /\ tcopy \in [Goroutines -> TxDoc]

(***************************************************************************)
(* A card is stored for the user who entered it, although the notification *)
(* names only the order: unless two requests were given the same number,   *)
(* when the second order replaces the first one's user.                    *)
(***************************************************************************)
EnrolledForPayer ==
  \A d \in Docs :
    methods[d] = NoDoc \/ methods[d].user = HolderOf[methods[d].card] \/ mixed # {}

(***************************************************************************)
(* A user has a card once, unless two processes were between the check and *)
(* the insert of SavePaymentMethod with it.                                *)
(***************************************************************************)
OneDocPerCard ==
  \A d, e \in Docs :
    methods[d] # NoDoc /\ methods[d].card = methods[e].card /\ methods[d].user = methods[e].user
      => d = e \/ methods[d].card \in twins

(***************************************************************************)
(* A user has at most one default card, unless two requests changed the    *)
(* flags at once, or one saved a card as default or deleted a card with a  *)
(* flag that was not the stored one.                                       *)
(***************************************************************************)
OneDefault ==
  \A u \in Users \ blurred : Cardinality({d \in DocsOf(u) : methods[d].default}) <= 1

(***************************************************************************)
(* The charge of an enrollment is returned at most once for every time its *)
(* notification was delivered; the answer to the refund, which goes        *)
(* through processPaymentResponse too, returns nothing.                    *)
(***************************************************************************)
OneRefundPerNotification == \A n \in OrderNums : refunds[n] <= deliveries[n][TRUE]

(***************************************************************************)
(* A transaction without a payment error is never billed more than what    *)
(* the gateway took for it, if every notification came once and none       *)
(* failed.  (A notification that is delivered again adds its amount again, *)
(* and an approval after a decline adds to the amount the decline set.)    *)
(***************************************************************************)
BilledOnce ==
  \A t \in Tx :
    LET own == {n \in OrderNums : orders[n].tx = t}
    IN  /\ ~txs[t].error /\ mixed = {}
        /\ \A n \in own : n \notin broken /\ deliveries[n][TRUE] <= 1
        => txs[t].billed <= Charge * Cardinality({n \in own : taken[n] > 0})

(***************************************************************************)
(* An approved enrollment of which the server was told ends with its       *)
(* charge returned, also when an attempt was declined before: unless a     *)
(* step of its processing failed, the order was sent again, or its number  *)
(* was given away twice.                                                   *)
(***************************************************************************)
ChargeReturned ==
  \A n \in OrderNums :
    /\ deliveries[n][TRUE] > 0 /\ taken[n] > 0 /\ orders[n].tx = NoTx
    /\ \A g \in Goroutines : note[g].num # n
    => refunds[n] > 0 \/ n \in broken \/ mixed # {}
=============================================================================

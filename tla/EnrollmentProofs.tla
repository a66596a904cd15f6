--------------------------- MODULE EnrollmentProofs --------------------------
(***************************************************************************)
(* Card enrollment and notifications: for any number of requests,          *)
(* goroutines, users, cards, orders and deliveries, a card is stored for   *)
(* the user who entered it, once, its charge is returned, at most once per *)
(* notification, and a transaction is not billed more than was taken.      *)
(***************************************************************************)
EXTENDS Enrollment, FiniteSetTheorems, WellFoundedInduction, NaturalsInduction, TLAPS

\* What the type invariant leaves out: the gateway and the histories.
GatewayTypeOK ==
  /\ forms \subseteq Users \X OrderNums \X Nat
  /\ sent \subseteq Note
  /\ deliveries \in [OrderNums -> [BOOLEAN -> Nat]]
  /\ taken \in [OrderNums -> Nat]
  /\ refunds \in [OrderNums -> Nat]

\* How often the server was told of the approval of an order.
Told(n) == deliveries[n][TRUE]

\* The collections: what is stored belongs to a user.
StoredInv ==
  /\ \A n \in OrderNums : Stored(n) => orders[n].user \in Users
  /\ \A d \in Docs : methods[d] = NoDoc \/ (methods[d].card \in Cards /\ methods[d].user \in Users)

\* What a request holds.
Holding(h) ==
  /\ hpc[h] # "idle" => body[h].user \in Users
  /\ hpc[h] = "save" => body[h].num \in OrderNums
  /\ hpc[h] \notin {"idle", "number", "save"} => body[h].card \in Cards
  /\ hpc[h] \in {"check", "insert"} => body[h].user = HolderOf[body[h].card]
  /\ hpc[h] \in {"clear", "first"} => body[h].default
  /\ hpc[h] = "number" \/ (hpc[h] = "save" /\ ~Stored(body[h].num))
       => body[h].tx = NoTx \/ body[h].amount = Charge

\* A goroutine works on a notification until it has settled it; in some
\* states it has a copy of the order.
Working == {"get", "close", "check", "insert", "return", "send", "txRead", "txWrite"}
Approved == Working \cup {"refGet", "refSave"}
Copied == GoStates \ {"idle", "get", "failGet"}

\* What a goroutine holds.
JobHolding(g) ==
  /\ gpc[g] # "idle" => note[g] \in sent
  /\ gpc[g] \in Approved => note[g].approved
  /\ gpc[g] \in Copied => copy[g].user \in Users
  /\ gpc[g] \in {"txRead", "txWrite", "failTx"} => copy[g].tx \in Tx

\* The gateway took the amount of the one approved attempt.
GatewayInv ==
  /\ \A f \in forms : Stored(f[2])
  /\ \A m \in sent :
       /\ m.num \in OrderNums /\ Stored(m.num)
       /\ m.approved => m.card \in Cards /\ taken[m.num] = m.amount
  /\ \A n \in OrderNums : Told(n) > 0 => \E m \in sent : m.approved /\ m.num = n

(***************************************************************************)
(* Unless a number was given away twice, an order keeps its user and       *)
(* transaction from the day it is stored, and its amount too unless it is  *)
(* sent again; forms, notifications and copies agree with it.              *)
(***************************************************************************)
SaveInv(h) ==
  hpc[h] = "save" =>
    IF Stored(body[h].num)
    THEN orders[body[h].num].user = body[h].user /\ orders[body[h].num].tx = body[h].tx
    ELSE \A k \in Handlers : hpc[k] = "save" /\ body[k].num = body[h].num => k = h

CopyInv(g) ==
  gpc[g] \in Copied =>
    /\ copy[g].user = orders[note[g].num].user
    /\ copy[g].tx = orders[note[g].num].tx
    /\ note[g].num \in broken \/ copy[g].amount = orders[note[g].num].amount

AgreeInv ==
  /\ \A h \in Handlers : SaveInv(h)
  /\ \A g \in Goroutines : CopyInv(g)
  /\ \A f \in forms : /\ orders[f[2]].user = f[1]
                      /\ f[2] \in broken \/ orders[f[2]].amount = f[3]
  /\ \A m \in sent : /\ m.approved => orders[m.num].user = HolderOf[m.card]
                     /\ m.num \in broken \/ orders[m.num].amount = m.amount
  /\ \A n \in OrderNums : n \in broken \/ orders[n].tx = NoTx \/ orders[n].amount = Charge

\* Between the check and the insert of SavePaymentMethod.
HandlerInserts(h, c, u) == hpc[h] = "insert" /\ body[h].card = c /\ body[h].user = u
JobInserts(g, c, u) == gpc[g] = "insert" /\ note[g].card = c /\ copy[g].user = u

\* One process at a time, for a card that is not stored.
InsertInv(c, u) ==
  /\ Inserting(c, u) => \A d \in Docs : ~(methods[d].card = c /\ methods[d].user = u)
  /\ \A h, k \in Handlers : HandlerInserts(h, c, u) /\ HandlerInserts(k, c, u) => h = k
  /\ \A g, k \in Goroutines : JobInserts(g, c, u) /\ JobInserts(k, c, u) => g = k
  /\ \A h \in Handlers, g \in Goroutines : ~(HandlerInserts(h, c, u) /\ JobInserts(g, c, u))

\* A request about to set a default flag is alone, and no other flag is set.
Flags(h, u) == hpc[h] \in {"set", "first"} /\ body[h].default /\ body[h].user = u
IsDefault(d, u) == methods[d].user = u /\ methods[d].default
FlagInv(u) ==
  /\ \A h, k \in Handlers : Flags(h, u) /\ Flags(k, u) => h = k
  /\ (\E h \in Handlers : Flags(h, u)) => \A d \in Docs : ~IsDefault(d, u)
  /\ \A d, e \in Docs : IsDefault(d, u) /\ IsDefault(e, u) => d = e

\* The goroutines that still work on the approval of an order: with the
\* refunds made they are no more than the deliveries.
Jobs(n) == {g \in Goroutines : gpc[g] \in Working /\ note[g].num = n}
RefundInv ==
  \A n \in OrderNums :
    IsFiniteSet(Jobs(n)) /\ Cardinality(Jobs(n)) + refunds[n] <= Told(n)

\* A charge that was taken is returned, or a goroutine is on its way to it.
ReturnInv ==
  \A n \in OrderNums :
    /\ Told(n) > 0 /\ taken[n] > 0 /\ orders[n].tx = NoTx
    /\ n \notin broken /\ mixed = {}
    => refunds[n] > 0 \/ Jobs(n) # {}

\* The orders of a transaction whose notification is settled: no more than
\* those is billed, or was when a goroutine read the transaction.
Clean(t) == \A n \in OrderNums : orders[n].tx = t => n \notin broken /\ Told(n) <= 1
Settled(t) == {n \in OrderNums : orders[n].tx = t /\ Told(n) = 1 /\ Jobs(n) = {}}
BillInv(t) ==
  /\ txs[t].billed <= Charge * Cardinality(Settled(t))
  /\ \A g \in Goroutines : gpc[g] = "txWrite" /\ copy[g].tx = t =>
       tcopy[g].billed <= Charge * Cardinality(Settled(t))

EnrollmentInv ==
  /\ EnrollmentTypeOK /\ GatewayTypeOK /\ StoredInv /\ GatewayInv
  /\ \A h \in Handlers : Holding(h)
  /\ \A g \in Goroutines : JobHolding(g)
  /\ mixed = {} => AgreeInv
  /\ EnrolledForPayer /\ OneDocPerCard
  /\ \A c \in Cards \ twins, u \in Users : InsertInv(c, u)
  /\ \A u \in Users \ blurred : FlagInv(u)
  /\ RefundInv /\ ReturnInv
  /\ \A t \in Tx : mixed = {} /\ Clean(t) => BillInv(t)

-----------------------------------------------------------------------------
\* A nonempty set of numbers with an upper bound has a greatest element.
LEMMA Greatest ==
  ASSUME NEW S, S \subseteq Nat, S # {}, NEW d \in Nat, \A x \in S : x <= d
  PROVE  \E m \in S : \A x \in S : x <= m
<1> DEFINE T == {d - x : x \in S}
<1>1. \A x \in S : x \in Nat /\ x <= d /\ d - x \in Nat
  OBVIOUS
<1>2. T \subseteq Nat /\ T # {}
  BY <1>1
<1>3. \E y \in T : \A z \in T : ~(<<z, y>> \in OpToRel(<, Nat))
  BY <1>2, NatLessThanWellFounded, WFMin
<1>4. PICK y \in T : \A z \in T : ~(z < y)
  BY <1>2, <1>3 DEF OpToRel
<1>5. PICK m \in S : y = d - m
  OBVIOUS
<1>6. ASSUME NEW x \in S PROVE x <= m
  <2>1. d - x \in T
    OBVIOUS
  <2>2. ~(d - x < d - m)
    BY <1>4, <1>5, <2>1
  <2> QED
    BY <2>2
<1> QED
  BY <1>6

LEMMA Numbers == OrderNums \subseteq Nat /\ (\A n \in OrderNums : n <= MaxOrders) /\ MaxOrders \in Nat
BY EnrollmentAssumption DEF OrderNums

\* The number after the last one is of no stored order.
LEMMA NextNumber ==
  /\ LastOrder \in 0..MaxOrders
  /\ LastOrder + 1 <= MaxOrders => LastOrder + 1 \in OrderNums /\ ~Stored(LastOrder + 1)
<1> DEFINE S == {n \in OrderNums : Stored(n)}
           IsLast(n) == Stored(n) /\ \A m \in OrderNums : Stored(m) => m <= n
<1>1. CASE \E n \in OrderNums : Stored(n)
  <2>1. \E n \in S : \A m \in S : m <= n
    <3>1. S \subseteq Nat /\ S # {} /\ (\A n \in S : n <= MaxOrders) /\ MaxOrders \in Nat
      BY <1>1, Numbers
    <3> HIDE DEF S
    <3> QED
      BY <3>1, Greatest
  <2>2. \E n \in OrderNums : IsLast(n)
    BY <2>1
  <2>3. LastOrder = CHOOSE n \in OrderNums : IsLast(n)
    BY <1>1 DEF LastOrder
  <2>4. LastOrder \in OrderNums /\ IsLast(LastOrder)
    BY <2>2, <2>3
  <2> QED
    BY <2>4, EnrollmentAssumption DEF OrderNums
<1>2. CASE ~\E n \in OrderNums : Stored(n)
  BY <1>2, EnrollmentAssumption DEF LastOrder, OrderNums
<1> QED
  BY <1>1, <1>2

LEMMA Values ==
  /\ NoOrder \in OrderDoc /\ NoDoc \in MethodDoc /\ NoBody \in Body /\ NoNote \in Note
  /\ [billed |-> 0, error |-> FALSE] \in TxDoc
<1>1. 0 \in 0..MaxOrders /\ 0 \in Nat
  BY EnrollmentAssumption
<1> QED
  BY <1>1 DEF NoOrder, OrderDoc, NoDoc, MethodDoc, NoBody, Body, NoNote, Note, TxDoc

\* Nothing is stored for nobody.
LEMMA FreeIsNobody ==
  ASSUME StoredInv, NEW d \in Docs
  PROVE  methods[d] = NoDoc \/ (methods[d].user \in Users /\ methods[d].user # NoUser)
BY EnrollmentAssumption DEF StoredInv

-----------------------------------------------------------------------------
\* The initial state.
LEMMA InitialInv == ASSUME EnrollmentInit PROVE EnrollmentInv
<1> USE DEF EnrollmentInit
<1>1. EnrollmentTypeOK
  BY Values, StoredAssumption DEF EnrollmentTypeOK, HandlerStates, GoStates
<1>2. GatewayTypeOK /\ GatewayInv
  <2>1. deliveries \in [OrderNums -> [BOOLEAN -> Nat]] /\ \A n \in OrderNums : Told(n) = 0
    BY DEF Told
  <2> QED
    BY <2>1 DEF GatewayTypeOK, GatewayInv
<1>3. StoredInv
  <2>1. \A d \in Docs : methods[d] = NoDoc \/ (methods[d].card \in Cards /\ methods[d].user \in Users)
    BY StoredAssumption, EnrollmentAssumption
  <2>2. \A n \in OrderNums : ~Stored(n)
    BY DEF Stored
  <2> QED
    BY <2>1, <2>2 DEF StoredInv
<1>4. \A h \in Handlers : Holding(h)
  BY DEF Holding
<1>5. \A g \in Goroutines : JobHolding(g)
  BY DEF JobHolding, Approved, Working, Copied
<1>6. AgreeInv
  <2>1. \A n \in OrderNums : orders[n].tx = NoTx
    BY DEF NoOrder
  <2> QED
    BY <2>1 DEF AgreeInv, SaveInv, CopyInv, Copied
<1>7. EnrolledForPayer
  BY StoredAssumption DEF EnrolledForPayer
<1>8. OneDocPerCard
  <2>1. ASSUME NEW d \in Docs, NEW e \in Docs, methods[d] # NoDoc, methods[d].card = methods[e].card
        PROVE  d = e
    <3>1. methods[e] # NoDoc
      <4>1. methods[d].card \in Cards
        BY <2>1, StoredAssumption
      <4>2. NoDoc.card \notin Cards
        BY EnrollmentAssumption DEF NoDoc
      <4> QED
        BY <2>1, <4>1, <4>2
    <3> QED
      BY <2>1, <3>1, StoredAssumption
  <2> QED
    BY <2>1 DEF OneDocPerCard
<1>9. ASSUME NEW c \in Cards, NEW u \in Users PROVE InsertInv(c, u)
  BY DEF InsertInv, Inserting, HandlerInserts, JobInserts
<1>10. ASSUME NEW u \in Users PROVE FlagInv(u)
  <2>1. NoDoc.user # u
    BY EnrollmentAssumption DEF NoDoc
  <2>2. \A d \in Docs : IsDefault(d, u) => InitialMethods[d] # NoDoc /\ InitialMethods[d].user = u /\ InitialMethods[d].default
    BY <2>1 DEF IsDefault
  <2>3. \A d, e \in Docs : IsDefault(d, u) /\ IsDefault(e, u) => d = e
    BY <2>2, StoredAssumption
  <2> QED
    BY <2>3 DEF FlagInv, Flags
<1>11. \A n \in OrderNums : Jobs(n) = {} /\ Told(n) = 0 /\ refunds[n] = 0
  BY DEF Jobs, Working, Told
<1>0. (\A t \in Tx : txs[t].billed = 0) /\ \A g \in Goroutines : gpc[g] # "txWrite"
  OBVIOUS
<1> HIDE DEF EnrollmentInit
<1>12. RefundInv /\ ReturnInv
  <2>1. ASSUME NEW n \in OrderNums
        PROVE  IsFiniteSet(Jobs(n)) /\ Cardinality(Jobs(n)) = 0
    BY <1>11, FS_EmptySet
  <2> QED
    BY <1>11, <2>1 DEF RefundInv, ReturnInv
<1>13. ASSUME NEW t \in Tx PROVE BillInv(t)
  <2>1. Settled(t) = {}
    BY <1>11 DEF Settled
  <2>3. Charge * Cardinality(Settled(t)) = 0
    BY <2>1, FS_EmptySet, EnrollmentAssumption
  <2> QED
    BY <1>0, <2>3 DEF BillInv
<1> QED
  BY <1>1, <1>2, <1>3, <1>4, <1>5, <1>6, <1>7, <1>8, <1>9, <1>10, <1>12, <1>13 DEF EnrollmentInv

-----------------------------------------------------------------------------
(***************************************************************************)
(* What the steps of a request leave alone, and what the request holds     *)
(* afterwards.                                                             *)
(***************************************************************************)
\* The other requests.
Others(h) == \A k \in Handlers \ {h} : hpc'[k] = hpc[k] /\ body'[k] = body[k]

\* What a step of one request never does.
LEMMA HandlerFrame ==
  ASSUME EnrollmentTypeOK, NEW h \in Handlers, HandlerStep(h)
  PROVE  /\ UNCHANGED <<txs, goVars, sent, deliveries, taken, refunds>>
         /\ forms \subseteq forms' /\ mixed \subseteq mixed' /\ twins \subseteq twins'
         /\ blurred \subseteq blurred' /\ broken \subseteq broken'
         /\ Others(h)
<1> USE DEF Others, goVars, gatewayVars, dataVars, marks, EnrollmentTypeOK, Answer, Goto
<1>1. CASE PostOrder(h)
  BY <1>1 DEF PostOrder, Request
<1>2. CASE RepostOrder(h)
  BY <1>2 DEF RepostOrder, Request
<1>3. CASE NextOrder(h)
  BY <1>3 DEF NextOrder
<1>4. CASE SaveOrder(h)
  BY <1>4 DEF SaveOrder, BuildEntryForm
<1>5. CASE PostMethod(h)
  BY <1>5 DEF PostMethod, Request
<1>6. CASE CheckMethod(h)
  BY <1>6 DEF CheckMethod
<1>7. CASE InsertMethod(h)
  BY <1>7 DEF InsertMethod
<1>8. CASE ClearDefaults(h)
  BY <1>8 DEF ClearDefaults
<1>9. CASE SetDefault(h)
  BY <1>9 DEF SetDefault
<1>10. CASE DeleteMethod(h)
  BY <1>10 DEF DeleteMethod
<1>11. CASE FirstMethod(h)
  BY <1>11 DEF FirstMethod
<1>12. CASE Abandon(h)
  BY <1>12 DEF Abandon, HandlerOnly
<1> QED
  BY <1>1, <1>2, <1>3, <1>4, <1>5, <1>6, <1>7, <1>8, <1>9, <1>10, <1>11, <1>12 DEF HandlerStep

\* Bodies of requests.
NewOrderBody(u, t, a) == [NoBody EXCEPT !.user = u, !.tx = t, !.amount = a]
OrderBody(u, t, a, n) == [NoBody EXCEPT !.user = u, !.tx = t, !.amount = a, !.num = n]

LEMMA NewOrderBodyFields ==
  ASSUME NEW u \in Users, NEW t \in Tx \cup {NoTx}, NEW a \in Nat, NEW b, b = NewOrderBody(u, t, a)
  PROVE  b \in Body /\ b.user = u /\ b.tx = t /\ b.amount = a
BY Values DEF Body, NoBody, NewOrderBody

LEMMA OrderBodyFields ==
  ASSUME NEW u \in Users, NEW t \in Tx \cup {NoTx}, NEW a \in Nat, NEW n \in 0..MaxOrders, NEW b,
         b = OrderBody(u, t, a, n)
  PROVE  b \in Body /\ b.user = u /\ b.tx = t /\ b.amount = a /\ b.num = n
BY Values DEF Body, NoBody, OrderBody

LEMMA MethodBody ==
  ASSUME NEW c \in Cards, NEW d \in BOOLEAN, NEW b, b = OwnMethod(c, d)
  PROVE  b \in Body /\ b.card = c /\ b.user = HolderOf[c] /\ b.default = d /\ HolderOf[c] \in Users
<1>1. HolderOf[c] \in Users
  BY EnrollmentAssumption
<1> QED
  BY <1>1, Values DEF Body, NoBody, OwnMethod

\* A request arrives.
LEMMA Arrives ==
  ASSUME EnrollmentTypeOK, NEW h \in Handlers, NEW to \in HandlerStates, NEW b \in Body,
         Request(h, to, b)
  PROVE  /\ hpc'[h] = to /\ body'[h] = b /\ hpc[h] = "idle"
         /\ hpc' \in [Handlers -> HandlerStates] /\ body' \in [Handlers -> Body]
         /\ UNCHANGED <<orders, methods, forms, mixed, twins, blurred, broken>>
BY DEF Request, EnrollmentTypeOK, dataVars, gatewayVars, marks

LEMMA PostOrderEffect ==
  ASSUME EnrollmentTypeOK, NEW h \in Handlers, PostOrder(h)
  PROVE  /\ hpc'[h] = "number" /\ hpc[h] = "idle" /\ body'[h].user \in Users
         /\ body'[h].tx = NoTx \/ body'[h].amount = Charge
         /\ hpc' \in [Handlers -> HandlerStates] /\ body' \in [Handlers -> Body]
         /\ UNCHANGED <<orders, methods, forms, mixed, twins, blurred, broken>>
<1>1. PICK u \in Users, t \in Tx \cup {NoTx}, a \in {0, Charge} :
        /\ t # NoTx => a > 0
        /\ Request(h, "number", [NoBody EXCEPT !.user = u, !.tx = t, !.amount = a])
  BY DEF PostOrder
<1> DEFINE b == NewOrderBody(u, t, a)
<1>2. a \in Nat /\ (t = NoTx \/ a = Charge)
  BY <1>1, EnrollmentAssumption
<1>3. b \in Body /\ b.user = u /\ b.tx = t /\ b.amount = a
  BY <1>2, NewOrderBodyFields
<1>4. Request(h, "number", b) /\ "number" \in HandlerStates
  BY <1>1 DEF HandlerStates, NewOrderBody
<1> HIDE DEF b
<1> QED
  BY <1>2, <1>3, <1>4, Arrives

LEMMA RepostOrderEffect ==
  ASSUME EnrollmentTypeOK, StoredInv, NEW h \in Handlers, RepostOrder(h)
  PROVE  /\ hpc'[h] = "save" /\ hpc[h] = "idle" /\ body'[h].user \in Users /\ body'[h].num \in OrderNums
         /\ Stored(body'[h].num)
         /\ orders[body'[h].num].user = body'[h].user /\ orders[body'[h].num].tx = body'[h].tx
         /\ hpc' \in [Handlers -> HandlerStates] /\ body' \in [Handlers -> Body]
         /\ UNCHANGED <<orders, methods, forms, mixed, twins, blurred, broken>>
<1>1. PICK n \in OrderNums :
        /\ Stored(n)
        /\ Request(h, "save", [NoBody EXCEPT !.user = orders[n].user, !.tx = orders[n].tx,
                                             !.amount = orders[n].amount, !.num = n])
  BY DEF RepostOrder
<1>2. orders[n].user \in Users /\ orders[n].tx \in Tx \cup {NoTx} /\ orders[n].amount \in Nat
  BY <1>1 DEF EnrollmentTypeOK, OrderDoc, StoredInv
<1>3. n \in 0..MaxOrders
  BY EnrollmentAssumption DEF OrderNums
<1>4. PICK u \in Users, t \in Tx \cup {NoTx}, a \in Nat :
        u = orders[n].user /\ t = orders[n].tx /\ a = orders[n].amount
  BY <1>2
<1>5. PICK b : b = OrderBody(u, t, a, n)
  OBVIOUS
<1>6. b \in Body /\ b.user = u /\ b.tx = t /\ b.num = n
  BY <1>3, <1>5, OrderBodyFields
<1>7. Request(h, "save", b) /\ "save" \in HandlerStates
  BY <1>1, <1>4, <1>5 DEF HandlerStates, OrderBody
<1> QED
  BY <1>1, <1>4, <1>6, <1>7, Arrives

LEMMA PostMethodEffect ==
  ASSUME EnrollmentTypeOK, NEW h \in Handlers, PostMethod(h)
  PROVE  /\ hpc[h] = "idle" /\ hpc'[h] \in {"check", "clear", "set", "delete"}
         /\ body'[h].card \in Cards /\ body'[h].user = HolderOf[body'[h].card] /\ body'[h].user \in Users
         /\ hpc'[h] = "clear" => body'[h].default
         /\ hpc'[h] = "set" => ~body'[h].default
         /\ hpc' \in [Handlers -> HandlerStates] /\ body' \in [Handlers -> Body]
         /\ UNCHANGED <<orders, methods, forms, mixed, twins, blurred, broken>>
<1>1. PICK c \in Cards, to \in {"check", "clear", "set", "delete"}, d \in BOOLEAN :
        /\ to = "clear" => d
        /\ to = "set" => ~d
        /\ Request(h, to, OwnMethod(c, d))
  BY DEF PostMethod
<1> DEFINE b == OwnMethod(c, d)
<1>2. b \in Body /\ b.card = c /\ b.user = HolderOf[c] /\ b.default = d /\ HolderOf[c] \in Users
  BY MethodBody
<1>3. to \in HandlerStates
  BY DEF HandlerStates
<1> HIDE DEF b
<1>4. Request(h, to, b)
  BY <1>1 DEF b
<1>5. /\ hpc'[h] = to /\ body'[h] = b /\ hpc[h] = "idle"
      /\ hpc' \in [Handlers -> HandlerStates] /\ body' \in [Handlers -> Body]
      /\ UNCHANGED <<orders, methods, forms, mixed, twins, blurred, broken>>
  BY <1>2, <1>3, <1>4, Arrives
<1> QED
  BY <1>1, <1>2, <1>5

LEMMA Answers ==
  ASSUME EnrollmentTypeOK, NEW h \in Handlers, NEW from, Answer(h, from)
  PROVE  /\ hpc' \in [Handlers -> HandlerStates] /\ body' \in [Handlers -> Body]
         /\ hpc'[h] = "idle"
BY Values DEF Answer, EnrollmentTypeOK, HandlerStates

LEMMA Goes ==
  ASSUME EnrollmentTypeOK, NEW h \in Handlers, NEW from, NEW to \in HandlerStates, Goto(h, from, to)
  PROVE  /\ hpc' \in [Handlers -> HandlerStates] /\ body' \in [Handlers -> Body]
         /\ hpc'[h] = to /\ body' = body
BY DEF Goto, EnrollmentTypeOK

\* An interrupted order of the transaction is closed; nothing else changes.
LEMMA Interrupted ==
  ASSUME EnrollmentTypeOK, NEW t, CloseInterrupted(t)
  PROVE  /\ orders' \in [OrderNums -> OrderDoc]
         /\ \A m \in OrderNums : /\ Stored(m)' <=> Stored(m)
                                 /\ orders'[m].user = orders[m].user /\ orders'[m].tx = orders[m].tx
                                 /\ orders'[m].amount = orders[m].amount
<1>1. CASE UNCHANGED orders
  BY <1>1 DEF EnrollmentTypeOK, Stored
<1>2. ASSUME NEW n \in OrderNums, orders[n].tx = t, t # NoTx,
             orders' = [orders EXCEPT ![n].completed = TRUE]
      PROVE  /\ orders' \in [OrderNums -> OrderDoc]
             /\ \A m \in OrderNums : /\ Stored(m)' <=> Stored(m)
                                     /\ orders'[m].user = orders[m].user /\ orders'[m].tx = orders[m].tx
                                     /\ orders'[m].amount = orders[m].amount
  <2> DEFINE r == [orders[n] EXCEPT !.completed = TRUE]
  <2>1. orders[n] \in OrderDoc
    BY DEF EnrollmentTypeOK
  <2>2. r \in OrderDoc /\ r.user = orders[n].user /\ r.tx = orders[n].tx /\ r.amount = orders[n].amount
    BY <2>1 DEF OrderDoc
  <2>3. orders' = [orders EXCEPT ![n] = r]
    BY <1>2
  <2>4. NoOrder.tx = NoTx
    BY DEF NoOrder
  <2> HIDE DEF r
  <2>5. orders' \in [OrderNums -> OrderDoc] /\ orders'[n] = r /\ \A m \in OrderNums \ {n} : orders'[m] = orders[m]
    BY <2>2, <2>3 DEF EnrollmentTypeOK
  <2>6. Stored(n) /\ Stored(n)'
    BY <1>2, <2>2, <2>4, <2>5 DEF Stored
  <2> QED
    BY <2>2, <2>5, <2>6 DEF Stored
<1> QED
  BY <1>1, <1>2 DEF CloseInterrupted

LEMMA NextOrderEffect ==
  ASSUME EnrollmentTypeOK, NEW h \in Handlers, NextOrder(h)
  PROVE  /\ hpc[h] = "number" /\ hpc'[h] = "save"
         /\ body'[h].num \in OrderNums /\ ~Stored(body'[h].num)
         /\ body'[h].user = body[h].user /\ body'[h].tx = body[h].tx /\ body'[h].amount = body[h].amount
         /\ hpc' \in [Handlers -> HandlerStates] /\ body' \in [Handlers -> Body]
         /\ orders' \in [OrderNums -> OrderDoc]
         /\ \A m \in OrderNums : /\ Stored(m)' <=> Stored(m)
                                 /\ orders'[m].user = orders[m].user /\ orders'[m].tx = orders[m].tx
                                 /\ orders'[m].amount = orders[m].amount
         /\ mixed' = {} => \A k \in Handlers \ {h} : ~(hpc[k] = "save" /\ body[k].num = body'[h].num)
         /\ UNCHANGED <<methods, forms, twins, blurred, broken>>
<1> DEFINE n == LastOrder + 1
           b == [body[h] EXCEPT !.num = n]
<1>1. n \in OrderNums /\ ~Stored(n)
  BY NextNumber DEF NextOrder
<1>2. n \in 0..MaxOrders
  BY <1>1, EnrollmentAssumption DEF OrderNums
<1>3. body' = [body EXCEPT ![h] = b] /\ hpc' = [hpc EXCEPT ![h] = "save"] /\ hpc[h] = "number"
  BY DEF NextOrder, EnrollmentTypeOK
<1>4. mixed' = IF \E k \in Handlers \ {h} : hpc[k] = "save" /\ body[k].num = n
               THEN mixed \cup {n} ELSE mixed
  BY DEF NextOrder
<1>5. UNCHANGED <<methods, forms, twins, blurred, broken>>
  BY DEF NextOrder, gatewayVars
<1>6. CloseInterrupted(body[h].tx)
  BY DEF NextOrder
<1> HIDE DEF n
<1>7. b \in Body /\ b.num = n /\ b.user = body[h].user /\ b.tx = body[h].tx /\ b.amount = body[h].amount
  BY <1>2 DEF EnrollmentTypeOK, Body
<1> HIDE DEF b
<1>8. /\ hpc' \in [Handlers -> HandlerStates] /\ body' \in [Handlers -> Body]
      /\ hpc'[h] = "save" /\ body'[h] = b
  BY <1>3, <1>7 DEF EnrollmentTypeOK, HandlerStates
<1>9. mixed' = {} => \A k \in Handlers \ {h} : ~(hpc[k] = "save" /\ body[k].num = n)
  BY <1>4
<1> QED
  BY <1>1, <1>3, <1>5, <1>6, <1>7, <1>8, <1>9, Interrupted

LEMMA SaveOrderEffect ==
  ASSUME EnrollmentTypeOK, NEW h \in Handlers, Holding(h), SaveOrder(h), NEW n, n = body[h].num
  PROVE  /\ hpc[h] = "save" /\ hpc'[h] = "idle" /\ n \in OrderNums
         /\ hpc' \in [Handlers -> HandlerStates] /\ body' \in [Handlers -> Body]
         /\ orders' \in [OrderNums -> OrderDoc]
         /\ orders'[n].user = body[h].user /\ orders'[n].tx = body[h].tx /\ orders'[n].amount = body[h].amount
         /\ Stored(n)'
         /\ \A m \in OrderNums \ {n} : orders'[m] = orders[m]
         /\ forms' = forms \cup {<<body[h].user, n, body[h].amount>>}
         /\ <<body[h].user, n, body[h].amount>> \in Users \X OrderNums \X Nat
         /\ broken' = IF Stored(n) THEN broken \cup {n} ELSE broken
         /\ UNCHANGED <<methods, mixed, twins, blurred>>
<1> DEFINE b == body[h]
           r == [NoOrder EXCEPT !.user = b.user, !.tx = b.tx, !.amount = b.amount]
<1>1. hpc[h] = "save" /\ n \in OrderNums /\ b.user \in Users
  BY DEF Holding, SaveOrder
<1>2. b \in Body
  BY DEF EnrollmentTypeOK
<1>3. b.tx \in Tx \cup {NoTx} /\ b.amount \in Nat
  BY <1>2 DEF Body
<1>4. r \in OrderDoc /\ r.user = b.user /\ r.tx = b.tx /\ r.amount = b.amount
  BY <1>1, <1>3, Values DEF OrderDoc, NoOrder
<1>5. orders' = [orders EXCEPT ![n] = r]
  BY DEF SaveOrder
<1>6. NoOrder.user \notin Users
  BY EnrollmentAssumption DEF NoOrder
<1>7. /\ forms' = forms \cup {<<body[h].user, n, body[h].amount>>}
      /\ broken' = IF Stored(n) THEN broken \cup {n} ELSE broken
      /\ UNCHANGED <<methods, mixed, twins, blurred>>
      /\ Answer(h, "save")
  BY DEF SaveOrder, BuildEntryForm
<1> HIDE DEF r
<1>8. orders' \in [OrderNums -> OrderDoc] /\ orders'[n] = r /\ \A m \in OrderNums \ {n} : orders'[m] = orders[m]
  BY <1>1, <1>4, <1>5 DEF EnrollmentTypeOK
<1>9. Stored(n)'
  BY <1>1, <1>4, <1>6, <1>8 DEF Stored
<1>10. <<body[h].user, n, body[h].amount>> \in Users \X OrderNums \X Nat
  BY <1>1, <1>3
<1>11. hpc'[h] = "idle" /\ hpc' \in [Handlers -> HandlerStates] /\ body' \in [Handlers -> Body]
  BY <1>7, Answers
<1> QED
  BY <1>1, <1>4, <1>7, <1>8, <1>9, <1>10, <1>11

\* Requests about payment methods leave orders alone.
LEMMA MethodFrame ==
  ASSUME NEW h \in Handlers,
         \/ CheckMethod(h) \/ InsertMethod(h) \/ ClearDefaults(h) \/ SetDefault(h)
         \/ DeleteMethod(h) \/ FirstMethod(h) \/ Abandon(h)
  PROVE  UNCHANGED <<orders, forms, mixed, broken>>
BY DEF CheckMethod, InsertMethod, ClearDefaults, SetDefault, DeleteMethod, FirstMethod, Abandon,
       HandlerOnly, dataVars, gatewayVars, marks

LEMMA CheckMethodEffect ==
  ASSUME EnrollmentTypeOK, NEW h \in Handlers, CheckMethod(h)
  PROVE  /\ hpc[h] = "check" /\ hpc'[h] \in {"idle", "insert"}
         /\ hpc'[h] = "insert" =>
              body'[h] = body[h] /\ \A d \in Docs : ~(methods[d].card = body[h].card /\ methods[d].user = body[h].user)
         /\ twins' = IF Inserting(body[h].card, body[h].user) THEN twins \cup {body[h].card} ELSE twins
         /\ hpc' \in [Handlers -> HandlerStates] /\ body' \in [Handlers -> Body]
         /\ UNCHANGED <<methods, blurred>>
<1>1. /\ hpc[h] = "check" /\ UNCHANGED <<methods, blurred>>
      /\ twins' = IF Inserting(body[h].card, body[h].user) THEN twins \cup {body[h].card} ELSE twins
  BY DEF CheckMethod, dataVars
<1>2. CASE Exists(body[h].card, body[h].user) /\ Answer(h, "check")
  BY <1>1, <1>2, Answers
<1>3. CASE ~Exists(body[h].card, body[h].user) /\ Goto(h, "check", "insert")
  <2>1. \A d \in Docs : ~(methods[d].card = body[h].card /\ methods[d].user = body[h].user)
    BY <1>3 DEF Exists, DocsFor, DocsOf
  <2>2. "insert" \in HandlerStates
    BY DEF HandlerStates
  <2> QED
    BY <1>1, <1>3, <2>1, <2>2, Goes
<1> QED
  BY <1>2, <1>3 DEF CheckMethod

\* One card is added.
Added(c, u, b) ==
  \E d \in Docs : /\ methods[d] = NoDoc
                  /\ methods'[d].card = c /\ methods'[d].user = u /\ methods'[d].default = b
                  /\ \A e \in Docs \ {d} : methods'[e] = methods[e]

\* A document is written to a free slot, or a stored one is replaced.
LEMMA WriteDoc ==
  ASSUME EnrollmentTypeOK, NEW d \in Docs, NEW r \in MethodDoc, methods' = [methods EXCEPT ![d] = r]
  PROVE  methods' \in [Docs -> MethodDoc] /\ methods'[d] = r /\ \A e \in Docs \ {d} : methods'[e] = methods[e]
BY DEF EnrollmentTypeOK

LEMMA InsertMethodEffect ==
  ASSUME EnrollmentTypeOK, NEW h \in Handlers, InsertMethod(h)
  PROVE  /\ hpc[h] = "insert" /\ hpc'[h] = "idle"
         /\ Added(body[h].card, body[h].user, body[h].default)
         /\ blurred' = IF body[h].default THEN blurred \cup {body[h].user} ELSE blurred
         /\ methods' \in [Docs -> MethodDoc]
         /\ hpc' \in [Handlers -> HandlerStates] /\ body' \in [Handlers -> Body]
         /\ UNCHANGED twins
<1> DEFINE d == CHOOSE e \in FreeDocs : TRUE
           r == [card |-> body[h].card, user |-> body[h].user, default |-> body[h].default]
<1>1. FreeDocs # {} /\ methods' = [methods EXCEPT ![d] = r] /\ hpc[h] = "insert" /\ Answer(h, "insert")
      /\ blurred' = (IF body[h].default THEN blurred \cup {body[h].user} ELSE blurred) /\ UNCHANGED twins
  BY DEF InsertMethod
<1>2. d \in FreeDocs
  BY <1>1
<1>3. d \in Docs /\ methods[d] = NoDoc
  BY <1>2 DEF FreeDocs
<1>4. body[h] \in Body
  BY DEF EnrollmentTypeOK
<1>5. r \in MethodDoc /\ r.card = body[h].card /\ r.user = body[h].user /\ r.default = body[h].default
  BY <1>4 DEF MethodDoc, Body
<1> HIDE DEF d, r
<1>6. methods' \in [Docs -> MethodDoc] /\ methods'[d] = r /\ \A e \in Docs \ {d} : methods'[e] = methods[e]
  BY <1>1, <1>3, <1>5, WriteDoc
<1>7. hpc' \in [Handlers -> HandlerStates] /\ body' \in [Handlers -> Body] /\ hpc'[h] = "idle"
  BY <1>1, Answers
<1>8. Added(body[h].card, body[h].user, body[h].default)
  BY <1>3, <1>5, <1>6 DEF Added
<1> QED
  BY <1>1, <1>6, <1>7, <1>8

LEMMA ClearDefaultsEffect ==
  ASSUME EnrollmentTypeOK, StoredInv, NEW h \in Handlers, Holding(h), ClearDefaults(h)
  PROVE  /\ hpc[h] = "clear" /\ hpc'[h] = "set" /\ body'[h] = body[h]
         /\ \A d \in Docs : /\ methods'[d] = NoDoc <=> methods[d] = NoDoc
                            /\ methods'[d].card = methods[d].card /\ methods'[d].user = methods[d].user
                            /\ methods[d].user = body[h].user => ~methods'[d].default
                            /\ methods[d].user # body[h].user => methods'[d] = methods[d]
         /\ blurred' = IF Flagging(h) THEN blurred \cup {body[h].user} ELSE blurred
         /\ methods' \in [Docs -> MethodDoc]
         /\ hpc' \in [Handlers -> HandlerStates] /\ body' \in [Handlers -> Body]
         /\ UNCHANGED twins
<1>1. /\ hpc[h] = "clear" /\ Goto(h, "clear", "set") /\ UNCHANGED twins
      /\ blurred' = IF Flagging(h) THEN blurred \cup {body[h].user} ELSE blurred
      /\ methods' = [d \in Docs |-> IF d \in DocsOf(body[h].user)
                                    THEN [methods[d] EXCEPT !.default = FALSE] ELSE methods[d]]
  BY DEF ClearDefaults
<1>2. "set" \in HandlerStates
  BY DEF HandlerStates
<1>3. hpc' \in [Handlers -> HandlerStates] /\ body' \in [Handlers -> Body] /\ hpc'[h] = "set" /\ body' = body
  BY <1>1, <1>2, Goes
<1>4. body[h].user \in Users /\ NoDoc.user \notin Users
  BY <1>1, EnrollmentAssumption DEF Holding, NoDoc
<1>5. ASSUME NEW d \in Docs
      PROVE  /\ methods'[d] \in MethodDoc
             /\ methods'[d] = NoDoc <=> methods[d] = NoDoc
             /\ methods'[d].card = methods[d].card /\ methods'[d].user = methods[d].user
             /\ methods[d].user = body[h].user => ~methods'[d].default
             /\ methods[d].user # body[h].user => methods'[d] = methods[d]
  <2>1. methods[d] \in MethodDoc
    BY DEF EnrollmentTypeOK
  <2>2. CASE methods[d].user = body[h].user
    <3> DEFINE r == [methods[d] EXCEPT !.default = FALSE]
    <3>1. methods'[d] = r
      BY <1>1, <2>2 DEF DocsOf
    <3>2. r \in MethodDoc /\ r.card = methods[d].card /\ r.user = methods[d].user /\ r.default = FALSE
      BY <2>1 DEF MethodDoc
    <3> HIDE DEF r
    <3>3. methods[d] # NoDoc /\ r # NoDoc
      BY <1>4, <2>2, <3>2
    <3> QED
      BY <2>2, <3>1, <3>2, <3>3
  <2>3. CASE methods[d].user # body[h].user
    BY <1>1, <2>1, <2>3 DEF DocsOf
  <2> QED
    BY <2>2, <2>3
<1>6. methods' \in [Docs -> MethodDoc]
  <2>1. \E f : methods' = [d \in Docs |-> f[d]]
    <3> DEFINE f == methods'
    <3>1. DOMAIN methods' = Docs /\ methods' = [d \in DOMAIN methods' |-> methods'[d]]
      BY <1>1
    <3> QED
      BY <3>1
  <2> QED
    BY <1>5, <2>1
<1> QED
  BY <1>1, <1>3, <1>5, <1>6

LEMMA SetDefaultEffect ==
  ASSUME EnrollmentTypeOK, StoredInv, NEW h \in Handlers, Holding(h), SetDefault(h)
  PROVE  /\ hpc[h] = "set" /\ hpc'[h] = "idle"
         /\ \/ UNCHANGED methods
            \/ \E d \in Docs : /\ methods[d].card = body[h].card /\ methods[d].user = body[h].user
                               /\ methods'[d].card = body[h].card /\ methods'[d].user = body[h].user
                               /\ methods'[d].default = body[h].default
                               /\ methods[d] # NoDoc /\ methods'[d] # NoDoc
                               /\ \A e \in Docs \ {d} : methods'[e] = methods[e]
         /\ methods' \in [Docs -> MethodDoc]
         /\ hpc' \in [Handlers -> HandlerStates] /\ body' \in [Handlers -> Body]
         /\ UNCHANGED <<twins, blurred>>
<1>1. hpc[h] = "set" /\ Answer(h, "set") /\ UNCHANGED <<twins, blurred>>
  BY DEF SetDefault, marks
<1>2. hpc' \in [Handlers -> HandlerStates] /\ body' \in [Handlers -> Body] /\ hpc'[h] = "idle"
  BY <1>1, Answers
<1>3. CASE UNCHANGED methods
  BY <1>1, <1>2, <1>3 DEF EnrollmentTypeOK
<1>4. ASSUME NEW d \in DocsFor(body[h].card, body[h].user),
             methods' = [methods EXCEPT ![d].default = body[h].default]
      PROVE  /\ methods' \in [Docs -> MethodDoc] /\ d \in Docs
             /\ methods[d].card = body[h].card /\ methods[d].user = body[h].user
             /\ methods'[d].card = body[h].card /\ methods'[d].user = body[h].user
             /\ methods'[d].default = body[h].default
             /\ methods[d] # NoDoc /\ methods'[d] # NoDoc
             /\ \A e \in Docs \ {d} : methods'[e] = methods[e]
  <2> DEFINE r == [methods[d] EXCEPT !.default = body[h].default]
  <2>1. d \in Docs /\ methods[d].card = body[h].card /\ methods[d].user = body[h].user
    BY <1>4 DEF DocsFor, DocsOf
  <2>2. methods[d] \in MethodDoc /\ body[h] \in Body
    BY <2>1 DEF EnrollmentTypeOK
  <2>3. body[h].default \in BOOLEAN
    BY <2>2 DEF Body
  <2>4. r \in MethodDoc /\ r.card = methods[d].card /\ r.user = methods[d].user /\ r.default = body[h].default
    BY <2>2, <2>3 DEF MethodDoc
  <2>5. methods' = [methods EXCEPT ![d] = r]
    BY <1>4
  <2> HIDE DEF r
  <2>6. methods' \in [Docs -> MethodDoc] /\ methods'[d] = r /\ \A e \in Docs \ {d} : methods'[e] = methods[e]
    BY <2>1, <2>4, <2>5, WriteDoc
  <2>7. body[h].user \in Users /\ NoDoc.user \notin Users
    BY <1>1, EnrollmentAssumption DEF Holding, NoDoc
  <2>8. methods[d] # NoDoc /\ methods'[d] # NoDoc
    BY <2>1, <2>4, <2>6, <2>7
  <2> QED
    BY <2>1, <2>4, <2>6, <2>8
<1>5. UNCHANGED methods \/ \E d \in DocsFor(body[h].card, body[h].user) :
                             methods' = [methods EXCEPT ![d].default = body[h].default]
  BY DEF SetDefault
<1> QED
  BY <1>1, <1>2, <1>3, <1>4, <1>5

LEMMA DeleteMethodEffect ==
  ASSUME EnrollmentTypeOK, NEW h \in Handlers, DeleteMethod(h)
  PROVE  /\ hpc[h] = "delete" /\ hpc'[h] \in {"idle", "first"}
         /\ hpc'[h] = "first" => body'[h] = body[h] /\ body[h].default
         /\ \/ UNCHANGED <<methods, blurred>> /\ hpc'[h] = "idle"
            \/ \E d \in Docs : /\ methods[d].user = body[h].user
                               /\ methods'[d] = NoDoc
                               /\ \A e \in Docs \ {d} : methods'[e] = methods[e]
                               /\ blurred' = IF body[h].default /\ ~methods[d].default
                                             THEN blurred \cup {body[h].user} ELSE blurred
         /\ methods' \in [Docs -> MethodDoc]
         /\ hpc' \in [Handlers -> HandlerStates] /\ body' \in [Handlers -> Body]
         /\ UNCHANGED twins
<1> DEFINE own == DocsFor(body[h].card, body[h].user)
<1>1. hpc[h] = "delete" /\ UNCHANGED twins
  BY DEF DeleteMethod
<1>2. CASE own = {} /\ Answer(h, "delete") /\ UNCHANGED <<methods, blurred>>
  BY <1>1, <1>2, Answers DEF EnrollmentTypeOK
<1>3. ASSUME NEW d \in own, methods' = [methods EXCEPT ![d] = NoDoc],
             IF body[h].default THEN Goto(h, "delete", "first") ELSE Answer(h, "delete"),
             blurred' = IF body[h].default /\ ~methods[d].default THEN blurred \cup {body[h].user} ELSE blurred
      PROVE  /\ d \in Docs /\ methods[d].user = body[h].user /\ methods'[d] = NoDoc
             /\ \A e \in Docs \ {d} : methods'[e] = methods[e]
             /\ methods' \in [Docs -> MethodDoc]
             /\ hpc'[h] \in {"idle", "first"}
             /\ hpc'[h] = "first" => body'[h] = body[h] /\ body[h].default
             /\ hpc' \in [Handlers -> HandlerStates] /\ body' \in [Handlers -> Body]
  <2>1. d \in Docs /\ methods[d].user = body[h].user
    BY <1>3 DEF DocsFor, DocsOf
  <2>2. methods' \in [Docs -> MethodDoc] /\ methods'[d] = NoDoc /\ \A e \in Docs \ {d} : methods'[e] = methods[e]
    BY <1>3, <2>1, Values, WriteDoc
  <2>3. "first" \in HandlerStates
    BY DEF HandlerStates
  <2>4. CASE body[h].default
    BY <1>3, <2>1, <2>2, <2>3, <2>4, Goes
  <2>5. CASE ~body[h].default
    BY <1>3, <2>1, <2>2, <2>5, Answers
  <2> QED
    BY <2>4, <2>5
<1> QED
  BY <1>1, <1>2, <1>3 DEF DeleteMethod

LEMMA FirstMethodEffect ==
  ASSUME EnrollmentTypeOK, StoredInv, NEW h \in Handlers, Holding(h), FirstMethod(h)
  PROVE  /\ hpc[h] = "first" /\ hpc'[h] \in {"idle", "set"}
         /\ hpc'[h] = "set" => /\ body'[h].card \in Cards /\ body'[h].user = body[h].user
                               /\ body'[h].default = body[h].default
         /\ blurred' = IF Flagging(h) \/ \E d \in DocsOf(body[h].user) : methods[d].default
                       THEN blurred \cup {body[h].user} ELSE blurred
         /\ hpc' \in [Handlers -> HandlerStates] /\ body' \in [Handlers -> Body]
         /\ UNCHANGED <<methods, twins>>
<1>1. /\ hpc[h] = "first" /\ UNCHANGED <<methods, twins>>
      /\ blurred' = IF Flagging(h) \/ \E d \in DocsOf(body[h].user) : methods[d].default
                    THEN blurred \cup {body[h].user} ELSE blurred
  BY DEF FirstMethod, dataVars
<1>2. CASE Answer(h, "first")
  BY <1>1, <1>2, Answers
<1>3. ASSUME NEW d \in DocsOf(body[h].user), hpc' = [hpc EXCEPT ![h] = "set"],
             body' = [body EXCEPT ![h].card = methods[d].card]
      PROVE  /\ hpc'[h] = "set" /\ body'[h].card \in Cards /\ body'[h].user = body[h].user
             /\ body'[h].default = body[h].default
             /\ hpc' \in [Handlers -> HandlerStates] /\ body' \in [Handlers -> Body]
  <2> DEFINE b == [body[h] EXCEPT !.card = methods[d].card]
  <2>1. d \in Docs /\ methods[d].user = body[h].user /\ body[h].user \in Users /\ NoDoc.user \notin Users
    BY <1>1, <1>3, EnrollmentAssumption DEF DocsOf, Holding, NoDoc
  <2>2. methods[d].card \in Cards
    BY <2>1 DEF StoredInv
  <2>3. b \in Body /\ b.card = methods[d].card /\ b.user = body[h].user /\ b.default = body[h].default
    BY <2>2 DEF EnrollmentTypeOK, Body
  <2>4. body' = [body EXCEPT ![h] = b]
    BY <1>3
  <2> HIDE DEF b
  <2>5. hpc'[h] = "set" /\ body'[h] = b /\ hpc' \in [Handlers -> HandlerStates] /\ body' \in [Handlers -> Body]
    BY <1>3, <2>3, <2>4 DEF EnrollmentTypeOK, HandlerStates
  <2> QED
    BY <2>2, <2>3, <2>5
<1> QED
  BY <1>1, <1>2, <1>3 DEF FirstMethod

LEMMA AbandonEffect ==
  ASSUME EnrollmentTypeOK, NEW h \in Handlers, Abandon(h)
  PROVE  /\ hpc'[h] = "idle"
         /\ hpc' \in [Handlers -> HandlerStates] /\ body' \in [Handlers -> Body]
         /\ UNCHANGED <<methods, twins, blurred>>
BY Answers DEF Abandon, HandlerOnly, dataVars, marks

-----------------------------------------------------------------------------
(***************************************************************************)
(* What the steps of a goroutine leave alone, and what it holds afterwards.*)
(***************************************************************************)
GoTypeOK ==
  /\ gpc \in [Goroutines -> GoStates] /\ note \in [Goroutines -> Note]
  /\ copy \in [Goroutines -> OrderDoc] /\ tcopy \in [Goroutines -> TxDoc]

\* The other goroutines.
OtherJobs(g) ==
  \A k \in Goroutines \ {g} :
    gpc'[k] = gpc[k] /\ note'[k] = note[k] /\ copy'[k] = copy[k] /\ tcopy'[k] = tcopy[k]

LEMMA Ends ==
  ASSUME EnrollmentTypeOK, NEW g \in Goroutines, NEW from, Done(g, from)
  PROVE  GoTypeOK' /\ gpc[g] = from /\ gpc'[g] = "idle" /\ OtherJobs(g)
<1>1. "idle" \in GoStates
  BY DEF GoStates
<1> QED
  BY <1>1, Values DEF Done, Step, EnrollmentTypeOK, GoTypeOK, OtherJobs

LEMMA GoesOn ==
  ASSUME EnrollmentTypeOK, NEW g \in Goroutines, NEW from, NEW to \in GoStates, Step(g, from, to),
         UNCHANGED <<note, copy, tcopy>>
  PROVE  GoTypeOK' /\ gpc[g] = from /\ gpc'[g] = to /\ OtherJobs(g)
BY DEF Step, EnrollmentTypeOK, GoTypeOK, OtherJobs

LEMMA Copies ==
  ASSUME EnrollmentTypeOK, NEW g \in Goroutines, NEW from, NEW to \in GoStates, NEW o \in OrderDoc,
         Step(g, from, to), copy' = [copy EXCEPT ![g] = o], UNCHANGED <<note, tcopy>>
  PROVE  GoTypeOK' /\ gpc[g] = from /\ gpc'[g] = to /\ copy'[g] = o /\ OtherJobs(g)
BY DEF Step, EnrollmentTypeOK, GoTypeOK, OtherJobs

\* An order is written that belongs to a user.
LEMMA WriteOrder ==
  ASSUME EnrollmentTypeOK, NEW n \in OrderNums, NEW r \in OrderDoc, r.user \in Users,
         orders' = [orders EXCEPT ![n] = r]
  PROVE  /\ orders' \in [OrderNums -> OrderDoc] /\ orders'[n] = r /\ Stored(n)'
         /\ \A m \in OrderNums \ {n} : orders'[m] = orders[m]
<1>1. NoOrder.user \notin Users
  BY EnrollmentAssumption DEF NoOrder
<1>2. orders' \in [OrderNums -> OrderDoc] /\ orders'[n] = r /\ \A m \in OrderNums \ {n} : orders'[m] = orders[m]
  BY DEF EnrollmentTypeOK
<1> QED
  BY <1>1, <1>2 DEF Stored

\* What a step of one goroutine never does.
LEMMA JobFrame ==
  ASSUME EnrollmentTypeOK, NEW g \in Goroutines, JobStep(g)
  PROVE  /\ UNCHANGED <<hpc, body, forms, sent, deliveries, taken, mixed, blurred>>
         /\ twins \subseteq twins' /\ broken \subseteq broken'
         /\ gpc[g] # "idle"
<1> USE DEF JobVars, handlerVars, marks, Step, Done
<1>1. CASE GetOrder(g)
  BY <1>1 DEF GetOrder
<1>2. CASE CloseOrder(g)
  BY <1>2 DEF CloseOrder
<1>3. CASE CheckCard(g)
  BY <1>3 DEF CheckCard
<1>4. CASE InsertCard(g)
  BY <1>4 DEF InsertCard
<1>5. CASE ReturnCharge(g)
  BY <1>5 DEF ReturnCharge
<1>6. CASE SendRefund(g)
  BY <1>6 DEF SendRefund
<1>7. CASE RefundGet(g)
  BY <1>7 DEF RefundGet
<1>8. CASE RefundSave(g)
  BY <1>8 DEF RefundSave
<1>9. CASE TxRead(g)
  BY <1>9 DEF TxRead
<1>10. CASE TxWrite(g)
  BY <1>10 DEF TxWrite
<1>11. CASE FailGet(g)
  BY <1>11 DEF FailGet
<1>12. CASE FailClose(g)
  BY <1>12 DEF FailClose
<1>13. CASE FailTx(g)
  BY <1>13 DEF FailTx
<1>14. CASE Deadline(g)
  BY <1>14 DEF Deadline
<1> QED
  BY <1>1, <1>2, <1>3, <1>4, <1>5, <1>6, <1>7, <1>8, <1>9, <1>10, <1>11, <1>12, <1>13, <1>14 DEF JobStep

\* The notification a goroutine works on is of a stored order.
LEMMA NoteOfOrder ==
  ASSUME EnrollmentTypeOK, GatewayInv, NEW g \in Goroutines, JobHolding(g), gpc[g] # "idle"
  PROVE  /\ note[g] \in sent /\ note[g].num \in OrderNums /\ Stored(note[g].num)
         /\ orders[note[g].num] \in OrderDoc /\ orders[note[g].num] # NoOrder
<1>1. note[g] \in sent /\ note[g].num \in OrderNums /\ Stored(note[g].num)
  BY DEF GatewayInv, JobHolding
<1> QED
  BY <1>1 DEF EnrollmentTypeOK, Stored

LEMMA GetOrderEffect ==
  ASSUME EnrollmentTypeOK, StoredInv, GatewayInv, NEW g \in Goroutines, JobHolding(g), GetOrder(g)
  PROVE  /\ gpc[g] = "get" /\ gpc'[g] \in {"close", "txRead", "check"}
         /\ gpc'[g] = "txRead" => copy'[g].tx \in Tx
         /\ copy'[g] = orders[note[g].num] /\ copy'[g].user \in Users
         /\ GoTypeOK' /\ OtherJobs(g)
         /\ UNCHANGED <<orders, methods, txs, note, tcopy, refunds, twins, broken>>
<1> DEFINE o == orders[note[g].num]
<1>1. gpc[g] = "get"
  BY DEF GetOrder
<1>2. note[g].num \in OrderNums /\ o \in OrderDoc /\ o # NoOrder /\ Stored(note[g].num)
  BY <1>1, NoteOfOrder
<1> DEFINE to == IF o.completed THEN AfterClose(o) ELSE "close"
<1>3. /\ Step(g, "get", to) /\ copy' = [copy EXCEPT ![g] = o] /\ UNCHANGED <<note, tcopy>>
      /\ UNCHANGED <<orders, methods, txs, refunds, twins, broken>>
  BY <1>2 DEF GetOrder, dataVars, marks
<1>4. to \in {"close", "txRead", "check"} /\ (to = "txRead" => o.tx \in Tx)
  BY <1>2 DEF AfterClose, OrderDoc
<1>5. to \in GoStates
  BY <1>4 DEF GoStates
<1>6. o.user \in Users
  BY <1>2 DEF StoredInv
<1> HIDE DEF o, to
<1>7. GoTypeOK' /\ gpc'[g] = to /\ copy'[g] = o /\ OtherJobs(g)
  BY <1>2, <1>3, <1>5, Copies
<1> QED
  BY <1>1, <1>3, <1>4, <1>6, <1>7 DEF o

LEMMA CloseOrderEffect ==
  ASSUME EnrollmentTypeOK, GatewayInv, NEW g \in Goroutines, JobHolding(g), CloseOrder(g),
         NEW n, n = note[g].num
  PROVE  /\ gpc[g] = "close" /\ gpc'[g] \in {"txRead", "check"} /\ n \in OrderNums
         /\ gpc'[g] = "txRead" => copy'[g].tx \in Tx
         /\ copy'[g].user = copy[g].user /\ copy'[g].user \in Users
         /\ copy'[g].tx = copy[g].tx /\ copy'[g].amount = note[g].amount
         /\ orders' \in [OrderNums -> OrderDoc] /\ orders'[n] = copy'[g] /\ Stored(n)'
         /\ \A m \in OrderNums \ {n} : orders'[m] = orders[m]
         /\ GoTypeOK' /\ OtherJobs(g)
         /\ UNCHANGED <<methods, txs, note, tcopy, refunds, twins, broken>>
<1> DEFINE o == [copy[g] EXCEPT !.amount = note[g].amount, !.completed = TRUE]
           to == AfterClose(o)
<1>1. /\ Step(g, "close", to) /\ gpc[g] = "close" /\ copy' = [copy EXCEPT ![g] = o]
      /\ orders' = [orders EXCEPT ![n] = o] /\ UNCHANGED <<note, tcopy>>
      /\ UNCHANGED <<methods, txs, refunds, twins, broken>>
  BY DEF CloseOrder, Step, marks
<1>2. n \in OrderNums /\ copy[g].user \in Users
  BY <1>1, NoteOfOrder DEF JobHolding, Copied, GoStates
<1>3. copy[g] \in OrderDoc /\ note[g] \in Note
  BY DEF EnrollmentTypeOK
<1>4. note[g].amount \in Nat
  BY <1>3 DEF Note
<1>5. o \in OrderDoc /\ o.user = copy[g].user /\ o.tx = copy[g].tx /\ o.amount = note[g].amount
  BY <1>3, <1>4 DEF OrderDoc
<1>6. to \in {"txRead", "check"} /\ (to = "txRead" => o.tx \in Tx)
  <2>1. o.tx \in Tx \cup {NoTx}
    BY <1>3, <1>5 DEF OrderDoc
  <2> HIDE DEF o
  <2> QED
    BY <2>1 DEF AfterClose
<1>7. to \in GoStates
  BY <1>6 DEF GoStates
<1> HIDE DEF o, to
<1>8. GoTypeOK' /\ gpc'[g] = to /\ copy'[g] = o /\ OtherJobs(g)
  <2>1. /\ Step(g, "close", to) /\ to \in GoStates /\ o \in OrderDoc
        /\ copy' = [copy EXCEPT ![g] = o] /\ UNCHANGED <<note, tcopy>>
    BY <1>1, <1>5, <1>7
  <2> QED
    BY <2>1, Copies
<1>9. orders' \in [OrderNums -> OrderDoc] /\ orders'[n] = o /\ Stored(n)' /\ \A m \in OrderNums \ {n} : orders'[m] = orders[m]
  BY <1>1, <1>2, <1>5, WriteOrder
<1> QED
  BY <1>1, <1>2, <1>5, <1>6, <1>8, <1>9

LEMMA CheckCardEffect ==
  ASSUME EnrollmentTypeOK, NEW g \in Goroutines, CheckCard(g), NEW c, NEW u, c = note[g].card, u = copy[g].user
  PROVE  /\ gpc[g] = "check" /\ gpc'[g] \in {"return", "insert"}
         /\ gpc'[g] = "insert" => \A d \in Docs : ~(methods[d].card = c /\ methods[d].user = u)
         /\ twins' = IF Inserting(c, u) THEN twins \cup {c} ELSE twins
         /\ GoTypeOK' /\ OtherJobs(g)
         /\ UNCHANGED <<orders, methods, txs, note, copy, tcopy, refunds, broken>>
<1> DEFINE to == IF Exists(c, u) THEN "return" ELSE "insert"
<1>1. /\ Step(g, "check", to) /\ UNCHANGED <<note, copy, tcopy>>
      /\ twins' = IF Inserting(c, u) THEN twins \cup {c} ELSE twins
      /\ UNCHANGED <<orders, methods, txs, refunds, broken>>
  BY DEF CheckCard, dataVars
<1>2. to \in GoStates /\ to \in {"return", "insert"}
  BY DEF GoStates
<1>3. to = "insert" => \A d \in Docs : ~(methods[d].card = c /\ methods[d].user = u)
  BY DEF Exists, DocsFor, DocsOf
<1> HIDE DEF to
<1> QED
  BY <1>1, <1>2, <1>3, GoesOn

LEMMA InsertCardEffect ==
  ASSUME EnrollmentTypeOK, NEW g \in Goroutines, InsertCard(g), NEW c, NEW u, c = note[g].card, u = copy[g].user
  PROVE  /\ gpc[g] = "insert" /\ gpc'[g] = "return"
         /\ Added(c, u, FALSE)
         /\ methods' \in [Docs -> MethodDoc]
         /\ GoTypeOK' /\ OtherJobs(g)
         /\ UNCHANGED <<orders, txs, note, copy, tcopy, refunds, twins, broken>>
<1> DEFINE d == CHOOSE e \in FreeDocs : TRUE
           r == [card |-> c, user |-> u, default |-> FALSE]
<1>1. /\ Step(g, "insert", "return") /\ FreeDocs # {} /\ methods' = [methods EXCEPT ![d] = r]
      /\ UNCHANGED <<orders, txs, note, copy, tcopy, refunds, twins, broken>>
  BY DEF InsertCard, marks
<1>2. d \in FreeDocs
  BY <1>1
<1>3. d \in Docs /\ methods[d] = NoDoc
  BY <1>2 DEF FreeDocs
<1>4. note[g] \in Note /\ copy[g] \in OrderDoc
  BY DEF EnrollmentTypeOK
<1>5. r \in MethodDoc /\ r.card = c /\ r.user = u /\ r.default = FALSE
  BY <1>4 DEF MethodDoc, Note, OrderDoc
<1> HIDE DEF d, r
<1>6. methods' \in [Docs -> MethodDoc] /\ methods'[d] = r /\ \A e \in Docs \ {d} : methods'[e] = methods[e]
  BY <1>1, <1>3, <1>5, WriteDoc
<1>7. "return" \in GoStates
  BY DEF GoStates
<1>8. Added(c, u, FALSE)
  BY <1>3, <1>5, <1>6 DEF Added
<1> QED
  BY <1>1, <1>6, <1>7, <1>8, GoesOn

LEMMA ReturnChargeEffect ==
  ASSUME EnrollmentTypeOK, NEW g \in Goroutines, ReturnCharge(g)
  PROVE  /\ gpc[g] = "return"
         /\ \/ gpc'[g] = "idle" /\ (copy[g].amount = 0 \/ orders[note[g].num].amount < copy[g].amount)
            \/ gpc'[g] = "send" /\ UNCHANGED <<note, copy>>
         /\ GoTypeOK' /\ OtherJobs(g)
         /\ UNCHANGED <<orders, methods, txs, refunds, twins, broken>>
<1>1. gpc[g] = "return" /\ UNCHANGED <<orders, methods, txs, refunds, twins, broken>>
  BY DEF ReturnCharge, dataVars, marks
<1>2. "send" \in GoStates
  BY DEF GoStates
<1>3. CASE Done(g, "return") /\ (copy[g].amount = 0 \/ orders[note[g].num].amount < copy[g].amount)
  BY <1>1, <1>3, Ends
<1>4. CASE Step(g, "return", "send") /\ UNCHANGED <<note, copy, tcopy>>
  BY <1>1, <1>2, <1>4, GoesOn
<1> QED
  BY <1>3, <1>4 DEF ReturnCharge

LEMMA SendRefundEffect ==
  ASSUME EnrollmentTypeOK, GatewayTypeOK, GatewayInv, NEW g \in Goroutines, JobHolding(g), SendRefund(g),
         NEW n, n = note[g].num
  PROVE  /\ gpc[g] = "send" /\ gpc'[g] \in {"refGet", "failGet", "idle"} /\ n \in OrderNums
         /\ gpc'[g] # "idle" => UNCHANGED <<note, copy>>
         /\ refunds' \in [OrderNums -> Nat] /\ refunds'[n] \in {refunds[n], refunds[n] + 1}
         /\ \A m \in OrderNums \ {n} : refunds'[m] = refunds[m]
         /\ refunds'[n] > 0 \/ n \in broken'
         /\ GoTypeOK' /\ OtherJobs(g)
         /\ UNCHANGED <<orders, methods, txs, twins>>
<1>1. gpc[g] = "send" /\ UNCHANGED <<orders, methods, txs, twins>>
  BY DEF SendRefund, dataVars
<1>2. n \in OrderNums /\ refunds \in [OrderNums -> Nat] /\ refunds[n] \in Nat
  BY <1>1, NoteOfOrder DEF GatewayTypeOK
<1> DEFINE r == [refunds EXCEPT ![n] = @ + 1]
<1>3. /\ r \in [OrderNums -> Nat] /\ r[n] = refunds[n] + 1 /\ r[n] > 0
      /\ \A m \in OrderNums \ {n} : r[m] = refunds[m]
  BY <1>2
<1>4. \/ Step(g, "send", "refGet") /\ refunds' = r /\ UNCHANGED <<note, copy, tcopy>>
      \/ Step(g, "send", "failGet") /\ n \in broken' /\ UNCHANGED <<note, copy, tcopy, refunds>>
      \/ Done(g, "send") /\ n \in broken' /\ refunds' \in {refunds, r}
  BY DEF SendRefund
<1>5. "refGet" \in GoStates /\ "failGet" \in GoStates
  BY DEF GoStates
<1> HIDE DEF r
<1>6. CASE Step(g, "send", "refGet") /\ refunds' = r /\ UNCHANGED <<note, copy, tcopy>>
  BY <1>1, <1>2, <1>3, <1>5, <1>6, GoesOn
<1>7. CASE Step(g, "send", "failGet") /\ n \in broken' /\ UNCHANGED <<note, copy, tcopy, refunds>>
  BY <1>1, <1>2, <1>5, <1>7, GoesOn
<1>8. CASE Done(g, "send") /\ n \in broken' /\ refunds' \in {refunds, r}
  <2>1. GoTypeOK' /\ gpc'[g] = "idle" /\ OtherJobs(g)
    BY <1>8, Ends
  <2>2. refunds' = refunds \/ refunds' = r
    BY <1>8
  <2> QED
    BY <1>1, <1>2, <1>3, <1>8, <2>1, <2>2
<1> QED
  BY <1>4, <1>6, <1>7, <1>8

LEMMA RefundGetEffect ==
  ASSUME EnrollmentTypeOK, StoredInv, GatewayInv, NEW g \in Goroutines, JobHolding(g), RefundGet(g),
         NEW n, n = note[g].num
  PROVE  /\ gpc[g] = "refGet" /\ gpc'[g] = "refSave"
         /\ copy'[g].user = orders[n].user /\ copy'[g].user \in Users
         /\ copy'[g].tx = orders[n].tx /\ copy'[g].amount = orders[n].amount
         /\ GoTypeOK' /\ OtherJobs(g)
         /\ UNCHANGED <<orders, methods, txs, note, tcopy, refunds, twins, broken>>
<1> DEFINE o == [orders[n] EXCEPT !.refund = note[g].amount, !.completed = TRUE]
<1>1. /\ Step(g, "refGet", "refSave") /\ gpc[g] = "refGet" /\ copy' = [copy EXCEPT ![g] = o]
      /\ UNCHANGED <<orders, methods, txs, note, tcopy, refunds, twins, broken>>
  BY DEF RefundGet, Step, dataVars, marks
<1>2. n \in OrderNums /\ orders[n] \in OrderDoc /\ Stored(n)
  BY <1>1, NoteOfOrder
<1>3. orders[n].user \in Users
  BY <1>2 DEF StoredInv
<1>4. note[g].amount \in Nat
  BY DEF EnrollmentTypeOK, Note
<1>5. o \in OrderDoc /\ o.user = orders[n].user /\ o.tx = orders[n].tx /\ o.amount = orders[n].amount
  BY <1>2, <1>4 DEF OrderDoc
<1>6. "refSave" \in GoStates
  BY DEF GoStates
<1> HIDE DEF o
<1>7. GoTypeOK' /\ gpc'[g] = "refSave" /\ copy'[g] = o /\ OtherJobs(g)
  <2>1. /\ Step(g, "refGet", "refSave") /\ o \in OrderDoc
        /\ copy' = [copy EXCEPT ![g] = o] /\ UNCHANGED <<note, tcopy>>
    BY <1>1, <1>5
  <2> QED
    BY <1>6, <2>1, Copies
<1> QED
  BY <1>1, <1>3, <1>5, <1>7

LEMMA RefundSaveEffect ==
  ASSUME EnrollmentTypeOK, GatewayInv, NEW g \in Goroutines, JobHolding(g), RefundSave(g),
         NEW n, n = note[g].num
  PROVE  /\ gpc[g] = "refSave" /\ gpc'[g] = "idle" /\ n \in OrderNums
         /\ orders' \in [OrderNums -> OrderDoc] /\ orders'[n] = copy[g] /\ Stored(n)'
         /\ \A m \in OrderNums \ {n} : orders'[m] = orders[m]
         /\ GoTypeOK' /\ OtherJobs(g)
         /\ UNCHANGED <<methods, txs, refunds, twins, broken>>
<1>1. /\ gpc[g] = "refSave" /\ Done(g, "refSave") /\ orders' = [orders EXCEPT ![n] = copy[g]]
      /\ UNCHANGED <<methods, txs, refunds, twins, broken>>
  BY DEF RefundSave, marks
<1>2. n \in OrderNums /\ copy[g].user \in Users
  BY <1>1, NoteOfOrder DEF JobHolding, Copied, GoStates
<1>3. copy[g] \in OrderDoc
  BY DEF EnrollmentTypeOK
<1>4. GoTypeOK' /\ gpc'[g] = "idle" /\ OtherJobs(g)
  BY <1>1, Ends
<1> QED
  BY <1>1, <1>2, <1>3, <1>4, WriteOrder

LEMMA TxReadEffect ==
  ASSUME EnrollmentTypeOK, NEW g \in Goroutines, JobHolding(g), TxRead(g)
  PROVE  /\ gpc[g] = "txRead" /\ gpc'[g] = "txWrite" /\ copy[g].tx \in Tx
         /\ tcopy'[g] = txs[copy[g].tx]
         /\ GoTypeOK' /\ OtherJobs(g)
         /\ UNCHANGED <<orders, methods, txs, note, copy, refunds, twins, broken>>
<1>1. /\ gpc[g] = "txRead" /\ gpc' = [gpc EXCEPT ![g] = "txWrite"]
      /\ tcopy' = [tcopy EXCEPT ![g] = txs[copy[g].tx]]
      /\ UNCHANGED <<orders, methods, txs, note, copy, refunds, twins, broken>>
  BY DEF TxRead, Step, dataVars, marks
<1>2. copy[g].tx \in Tx
  BY <1>1 DEF JobHolding
<1>3. txs[copy[g].tx] \in TxDoc
  BY <1>2 DEF EnrollmentTypeOK
<1>4. "txWrite" \in GoStates
  BY DEF GoStates
<1> QED
  BY <1>1, <1>2, <1>3, <1>4 DEF EnrollmentTypeOK, GoTypeOK, OtherJobs

LEMMA TxWriteEffect ==
  ASSUME EnrollmentTypeOK, NEW g \in Goroutines, JobHolding(g), TxWrite(g), NEW t, t = copy[g].tx
  PROVE  /\ gpc[g] = "txWrite" /\ gpc'[g] = "idle" /\ t \in Tx
         /\ txs' \in [Tx -> TxDoc] /\ txs'[t].billed = tcopy[g].billed + copy[g].amount
         /\ \A s \in Tx \ {t} : txs'[s] = txs[s]
         /\ GoTypeOK' /\ OtherJobs(g)
         /\ UNCHANGED <<orders, methods, refunds, twins, broken>>
<1> DEFINE r == [billed |-> tcopy[g].billed + copy[g].amount, error |-> FALSE]
<1>1. /\ gpc[g] = "txWrite" /\ Done(g, "txWrite") /\ txs' = [txs EXCEPT ![t] = r]
      /\ UNCHANGED <<orders, methods, refunds, twins, broken>>
  BY DEF TxWrite, marks
<1>2. t \in Tx
  BY <1>1 DEF JobHolding
<1>3. tcopy[g] \in TxDoc /\ copy[g] \in OrderDoc
  BY DEF EnrollmentTypeOK
<1>4. tcopy[g].billed \in Nat /\ copy[g].amount \in Nat
  BY <1>3 DEF TxDoc, OrderDoc
<1>5. r \in TxDoc /\ r.billed = tcopy[g].billed + copy[g].amount
  BY <1>4 DEF TxDoc
<1> HIDE DEF r
<1>6. txs' \in [Tx -> TxDoc] /\ txs'[t] = r /\ \A s \in Tx \ {t} : txs'[s] = txs[s]
  BY <1>1, <1>2, <1>5 DEF EnrollmentTypeOK
<1> QED
  BY <1>1, <1>2, <1>5, <1>6, Ends

LEMMA FailGetEffect ==
  ASSUME EnrollmentTypeOK, StoredInv, GatewayInv, NEW g \in Goroutines, JobHolding(g), FailGet(g)
  PROVE  /\ gpc[g] = "failGet" /\ gpc'[g] = "failClose"
         /\ copy'[g] = orders[note[g].num] /\ copy'[g].user \in Users
         /\ GoTypeOK' /\ OtherJobs(g)
         /\ UNCHANGED <<orders, methods, txs, note, tcopy, refunds, twins, broken>>
<1> DEFINE o == orders[note[g].num]
<1>1. gpc[g] = "failGet"
  BY DEF FailGet
<1>2. note[g].num \in OrderNums /\ o \in OrderDoc /\ o # NoOrder /\ Stored(note[g].num)
  BY <1>1, NoteOfOrder
<1>3. /\ Step(g, "failGet", "failClose") /\ copy' = [copy EXCEPT ![g] = o] /\ UNCHANGED <<note, tcopy>>
      /\ UNCHANGED <<orders, methods, txs, refunds, twins, broken>>
  BY <1>2 DEF FailGet, dataVars, marks
<1>4. "failClose" \in GoStates
  BY DEF GoStates
<1>5. o.user \in Users
  BY <1>2 DEF StoredInv
<1> HIDE DEF o
<1>6. GoTypeOK' /\ gpc'[g] = "failClose" /\ copy'[g] = o /\ OtherJobs(g)
  BY <1>2, <1>3, <1>4, Copies
<1> QED
  BY <1>1, <1>3, <1>5, <1>6 DEF o

LEMMA FailCloseEffect ==
  ASSUME EnrollmentTypeOK, StoredInv, GatewayInv, NEW g \in Goroutines, JobHolding(g), FailClose(g),
         NEW n, n = note[g].num
  PROVE  /\ gpc[g] = "failClose" /\ n \in OrderNums
         /\ gpc'[g] = "idle" \/ (gpc'[g] = "failTx" /\ copy[g].tx \in Tx /\ UNCHANGED <<note, copy>>)
         /\ \/ UNCHANGED orders
            \/ orders'[n].user = copy[g].user /\ orders'[n].tx = copy[g].tx /\ orders'[n].amount = copy[g].amount
         /\ orders' \in [OrderNums -> OrderDoc] /\ Stored(n)' /\ copy[g].user \in Users
         /\ \A m \in OrderNums \ {n} : orders'[m] = orders[m]
         /\ GoTypeOK' /\ OtherJobs(g)
         /\ UNCHANGED <<methods, txs, refunds, twins, broken>>
<1> DEFINE o == [copy[g] EXCEPT !.completed = TRUE]
<1>1. /\ gpc[g] = "failClose" /\ orders' \in {orders, [orders EXCEPT ![n] = o]}
      /\ UNCHANGED <<methods, txs, refunds, twins, broken>>
  BY DEF FailClose, marks
<1>2. n \in OrderNums /\ copy[g].user \in Users /\ Stored(n)
  BY <1>1, NoteOfOrder DEF JobHolding, Copied, GoStates
<1>3. copy[g] \in OrderDoc
  BY DEF EnrollmentTypeOK
<1>4. o \in OrderDoc /\ o.user = copy[g].user /\ o.tx = copy[g].tx /\ o.amount = copy[g].amount
  BY <1>3 DEF OrderDoc
<1> HIDE DEF o
<1>5. /\ \/ UNCHANGED orders
         \/ orders'[n].user = copy[g].user /\ orders'[n].tx = copy[g].tx /\ orders'[n].amount = copy[g].amount
      /\ orders' \in [OrderNums -> OrderDoc] /\ Stored(n)'
      /\ \A m \in OrderNums \ {n} : orders'[m] = orders[m]
  <2>1. CASE UNCHANGED orders
    BY <1>2, <2>1 DEF EnrollmentTypeOK, Stored
  <2>2. CASE orders' = [orders EXCEPT ![n] = o]
    BY <1>2, <1>4, <2>2, WriteOrder
  <2> QED
    BY <1>1, <2>1, <2>2
<1>6. "failTx" \in GoStates
  BY DEF GoStates
<1>7. CASE Done(g, "failClose")
  BY <1>1, <1>2, <1>5, <1>7, Ends
<1>8. CASE copy[g].tx # NoTx /\ Step(g, "failClose", "failTx") /\ UNCHANGED <<note, copy, tcopy>>
  <2>1. copy[g].tx \in Tx
    BY <1>3, <1>8 DEF OrderDoc
  <2> QED
    BY <1>1, <1>2, <1>5, <1>6, <1>8, <2>1, GoesOn
<1> QED
  BY <1>7, <1>8 DEF FailClose

LEMMA FailTxEffect ==
  ASSUME EnrollmentTypeOK, NEW g \in Goroutines, JobHolding(g), FailTx(g), NEW t, t = copy[g].tx
  PROVE  /\ gpc[g] = "failTx" /\ gpc'[g] = "idle" /\ t \in Tx
         /\ txs' \in [Tx -> TxDoc] /\ \A s \in Tx \ {t} : txs'[s] = txs[s]
         /\ \A n \in OrderNums : orders[n].tx = t => n \in broken'
         /\ GoTypeOK' /\ OtherJobs(g)
         /\ UNCHANGED <<orders, methods, refunds, twins>>
<1> DEFINE r == [billed |-> Charge, error |-> TRUE]
<1>1. /\ gpc[g] = "failTx" /\ Done(g, "failTx") /\ txs' = [txs EXCEPT ![t] = r]
      /\ broken' = broken \cup {n \in OrderNums : orders[n].tx = t}
      /\ UNCHANGED <<orders, methods, refunds, twins>>
  BY DEF FailTx
<1>2. t \in Tx
  BY <1>1 DEF JobHolding
<1>3. r \in TxDoc
  BY EnrollmentAssumption DEF TxDoc
<1> HIDE DEF r
<1>4. txs' \in [Tx -> TxDoc] /\ \A s \in Tx \ {t} : txs'[s] = txs[s]
  BY <1>1, <1>2, <1>3 DEF EnrollmentTypeOK
<1> QED
  BY <1>1, <1>2, <1>4, Ends

LEMMA DeadlineEffect ==
  ASSUME EnrollmentTypeOK, NEW g \in Goroutines, Deadline(g)
  PROVE  /\ gpc'[g] = "idle" /\ note[g].num \in broken'
         /\ GoTypeOK' /\ OtherJobs(g)
         /\ UNCHANGED <<orders, methods, txs, refunds, twins>>
BY Ends DEF Deadline, dataVars

-----------------------------------------------------------------------------
(***************************************************************************)
(* The gateway's steps.                                                    *)
(***************************************************************************)
LEMMA AttemptEffect ==
  ASSUME GatewayTypeOK, NEW f \in forms, Attempt(f), NEW n, n = f[2]
  PROVE  /\ n \in OrderNums /\ f[1] \in Users /\ f[3] \in Nat
         /\ taken[n] = 0 /\ \A m \in sent : ~(m.num = n /\ m.approved)
         /\ \E m \in Note : /\ sent' = sent \cup {m} /\ m.num = n /\ m.amount = f[3]
                            /\ m.approved => m.card \in Cards /\ HolderOf[m.card] = f[1] /\ taken'[n] = f[3]
                            /\ ~m.approved => taken'[n] = 0
         /\ taken' \in [OrderNums -> Nat] /\ \A k \in OrderNums \ {n} : taken'[k] = taken[k]
         /\ UNCHANGED <<dataVars, handlerVars, goVars, forms, deliveries, refunds, marks>>
<1>1. n \in OrderNums /\ f[1] \in Users /\ f[3] \in Nat
  BY DEF GatewayTypeOK
<1>2. PICK c \in {k \in Cards : HolderOf[k] = f[1]}, ok \in BOOLEAN :
        /\ sent' = sent \cup {[num |-> n, card |-> IF ok THEN c ELSE NoCard, approved |-> ok, amount |-> f[3]]}
        /\ taken' = [taken EXCEPT ![n] = IF ok THEN f[3] ELSE 0]
  BY DEF Attempt
<1> DEFINE m == [num |-> n, card |-> IF ok THEN c ELSE NoCard, approved |-> ok, amount |-> f[3]]
<1>3. n \in 0..MaxOrders
  BY <1>1, EnrollmentAssumption DEF OrderNums
<1>4. m \in Note
  BY <1>1, <1>3 DEF Note
<1>5. m.num = n /\ m.amount = f[3] /\ m.approved = ok /\ (ok => m.card = c)
  OBVIOUS
<1>6. sent' = sent \cup {m}
  BY <1>2
<1> HIDE DEF m
<1>7. /\ taken' \in [OrderNums -> Nat] /\ \A k \in OrderNums \ {n} : taken'[k] = taken[k]
      /\ ok => taken'[n] = f[3]
      /\ ~ok => taken'[n] = 0
  BY <1>1, <1>2 DEF GatewayTypeOK
<1>8. /\ taken[n] = 0 /\ \A k \in sent : ~(k.num = n /\ k.approved)
      /\ UNCHANGED <<dataVars, handlerVars, goVars, forms, deliveries, refunds, marks>>
  BY DEF Attempt
<1>9. ok => c \in Cards /\ HolderOf[c] = f[1]
  OBVIOUS
<1> QED
  BY <1>1, <1>4, <1>5, <1>6, <1>7, <1>8, <1>9

LEMMA NotifyEffect ==
  ASSUME EnrollmentTypeOK, GatewayTypeOK, GatewayInv, NEW g \in Goroutines, Notify(g), NEW n, n = note'[g].num
  PROVE  /\ gpc[g] = "idle" /\ note'[g] \in sent /\ n \in OrderNums
         /\ gpc'[g] = IF note'[g].approved THEN "get" ELSE "failGet"
         /\ deliveries' \in [OrderNums -> [BOOLEAN -> Nat]]
         /\ Told(n)' = IF note'[g].approved THEN Told(n) + 1 ELSE Told(n)
         /\ \A m \in OrderNums \ {n} : Told(m)' = Told(m)
         /\ GoTypeOK' /\ OtherJobs(g)
         /\ UNCHANGED <<dataVars, handlerVars, copy, tcopy, forms, sent, taken, refunds, marks>>
<1>1. PICK m \in sent :
        /\ deliveries' = [deliveries EXCEPT ![m.num][m.approved] = @ + 1]
        /\ note' = [note EXCEPT ![g] = m]
        /\ gpc' = [gpc EXCEPT ![g] = IF m.approved THEN "get" ELSE "failGet"]
  BY DEF Notify, Verified
<1>2. m \in Note /\ m.num \in OrderNums
  BY DEF GatewayTypeOK, GatewayInv
<1>3. m.approved \in BOOLEAN
  BY <1>2 DEF Note
<1>4. {"get", "failGet"} \subseteq GoStates
  BY DEF GoStates
<1>5. /\ gpc[g] = "idle"
      /\ UNCHANGED <<dataVars, handlerVars, copy, tcopy, forms, sent, taken, refunds, marks>>
  BY DEF Notify
<1>6. /\ GoTypeOK' /\ OtherJobs(g) /\ note'[g] = m
      /\ gpc'[g] = IF note'[g].approved THEN "get" ELSE "failGet"
  BY <1>1, <1>2, <1>4, <1>5 DEF EnrollmentTypeOK, GoTypeOK, OtherJobs
<1>7. deliveries \in [OrderNums -> [BOOLEAN -> Nat]]
  BY DEF GatewayTypeOK
<1> DEFINE r == [deliveries[n] EXCEPT ![m.approved] = @ + 1]
<1>8. deliveries' = [deliveries EXCEPT ![n] = r] /\ n \in OrderNums
  BY <1>1, <1>2, <1>6
<1>9. deliveries[n] \in [BOOLEAN -> Nat]
  BY <1>7, <1>8
<1>10. r \in [BOOLEAN -> Nat] /\ r[TRUE] = IF m.approved THEN deliveries[n][TRUE] + 1 ELSE deliveries[n][TRUE]
  <2>1. DOMAIN r = BOOLEAN /\ \A b \in BOOLEAN : r[b] = IF b = m.approved THEN deliveries[n][b] + 1 ELSE deliveries[n][b]
    BY <1>3, <1>9, Zenon
  <2>2. \A b \in BOOLEAN : deliveries[n][b] \in Nat
    BY <1>9
  <2>3. \A b \in BOOLEAN : r[b] \in Nat
    BY <2>1, <2>2
  <2>4. r \in [BOOLEAN -> Nat]
    BY <2>1, <2>3, Zenon
  <2>5. TRUE \in BOOLEAN
    OBVIOUS
  <2>6. m.approved => m.approved = TRUE
    BY <1>3, Zenon
  <2>7. r[TRUE] = IF m.approved THEN deliveries[n][TRUE] + 1 ELSE deliveries[n][TRUE]
    BY <2>1, <2>5, <2>6, Zenon
  <2> QED
    BY <2>4, <2>7
<1> HIDE DEF r
<1>11. /\ deliveries' \in [OrderNums -> [BOOLEAN -> Nat]] /\ deliveries'[n] = r
       /\ \A k \in OrderNums \ {n} : deliveries'[k] = deliveries[k]
  BY <1>7, <1>8, <1>10
<1>12. Told(n)' = IF note'[g].approved THEN Told(n) + 1 ELSE Told(n)
  BY <1>6, <1>10, <1>11 DEF Told
<1>13. \A k \in OrderNums \ {n} : Told(k)' = Told(k)
  BY <1>11 DEF Told
<1> QED
  BY <1>1, <1>5, <1>6, <1>8, <1>11, <1>12, <1>13

-----------------------------------------------------------------------------
(***************************************************************************)
(* Types.                                                                  *)
(***************************************************************************)
LEMMA Parts ==
  ASSUME EnrollmentInv
  PROVE  /\ EnrollmentTypeOK /\ GatewayTypeOK /\ StoredInv /\ GatewayInv
         /\ \A h \in Handlers : Holding(h)
         /\ \A g \in Goroutines : JobHolding(g)
         /\ mixed = {} => AgreeInv
BY DEF EnrollmentInv

LEMMA HandlerTypes ==
  ASSUME EnrollmentInv, NEW h \in Handlers, HandlerStep(h)
  PROVE  EnrollmentTypeOK' /\ GatewayTypeOK'
<1>0. EnrollmentTypeOK /\ GatewayTypeOK /\ StoredInv /\ Holding(h)
  BY Parts
<1> DEFINE Goal == /\ orders' \in [OrderNums -> OrderDoc] /\ methods' \in [Docs -> MethodDoc]
                   /\ hpc' \in [Handlers -> HandlerStates] /\ body' \in [Handlers -> Body]
                   /\ forms' \subseteq Users \X OrderNums \X Nat
<1>a. /\ orders \in [OrderNums -> OrderDoc] /\ methods \in [Docs -> MethodDoc]
      /\ forms \subseteq Users \X OrderNums \X Nat
  BY <1>0 DEF EnrollmentTypeOK, GatewayTypeOK
<1>1. PostOrder(h) => Goal
  BY <1>0, <1>a, PostOrderEffect
<1>2. RepostOrder(h) => Goal
  BY <1>0, <1>a, RepostOrderEffect
<1>3. NextOrder(h) => Goal
  BY <1>0, <1>a, NextOrderEffect
<1>4. SaveOrder(h) => Goal
  <2> SUFFICES ASSUME SaveOrder(h) PROVE Goal
    OBVIOUS
  <2>1. PICK n : n = body[h].num
    OBVIOUS
  <2>2. PICK f \in Users \X OrderNums \X Nat :
          /\ forms' = forms \cup {f} /\ orders' \in [OrderNums -> OrderDoc] /\ UNCHANGED methods
          /\ hpc' \in [Handlers -> HandlerStates] /\ body' \in [Handlers -> Body]
    BY <1>0, <2>1, SaveOrderEffect
  <2> QED
    BY <1>a, <2>2
<1>5. PostMethod(h) => Goal
  BY <1>0, <1>a, PostMethodEffect
<1>6. CheckMethod(h) => Goal
  BY <1>0, <1>a, CheckMethodEffect, MethodFrame
<1>7. InsertMethod(h) => Goal
  BY <1>0, <1>a, InsertMethodEffect, MethodFrame
<1>8. ClearDefaults(h) => Goal
  BY <1>0, <1>a, ClearDefaultsEffect, MethodFrame
<1>9. SetDefault(h) => Goal
  BY <1>0, <1>a, SetDefaultEffect, MethodFrame
<1>10. DeleteMethod(h) => Goal
  BY <1>0, <1>a, DeleteMethodEffect, MethodFrame
<1>11. FirstMethod(h) => Goal
  BY <1>0, <1>a, FirstMethodEffect, MethodFrame
<1>12. Abandon(h) => Goal
  BY <1>0, <1>a, AbandonEffect, MethodFrame
<1> HIDE DEF Goal
<1>13. Goal
  BY <1>1, <1>2, <1>3, <1>4, <1>5, <1>6, <1>7, <1>8, <1>9, <1>10, <1>11, <1>12 DEF HandlerStep
<1> QED
  BY <1>0, <1>13, HandlerFrame DEF Goal, goVars, EnrollmentTypeOK, GatewayTypeOK

LEMMA JobTypes ==
  ASSUME EnrollmentInv, NEW g \in Goroutines, JobStep(g)
  PROVE  EnrollmentTypeOK' /\ GatewayTypeOK' /\ OtherJobs(g)
<1>0. EnrollmentTypeOK /\ GatewayTypeOK /\ StoredInv /\ GatewayInv /\ JobHolding(g)
  BY Parts
<1> DEFINE Goal == /\ orders' \in [OrderNums -> OrderDoc] /\ methods' \in [Docs -> MethodDoc]
                   /\ txs' \in [Tx -> TxDoc] /\ refunds' \in [OrderNums -> Nat]
                   /\ GoTypeOK' /\ OtherJobs(g)
<1>a. /\ orders \in [OrderNums -> OrderDoc] /\ methods \in [Docs -> MethodDoc]
      /\ txs \in [Tx -> TxDoc] /\ refunds \in [OrderNums -> Nat]
  BY <1>0 DEF EnrollmentTypeOK, GatewayTypeOK
<1>1. GetOrder(g) => Goal
  BY <1>0, <1>a, GetOrderEffect
<1>2. CloseOrder(g) => Goal
  BY <1>0, <1>a, CloseOrderEffect
<1>3. CheckCard(g) => Goal
  BY <1>0, <1>a, CheckCardEffect
<1>4. InsertCard(g) => Goal
  BY <1>0, <1>a, InsertCardEffect
<1>5. ReturnCharge(g) => Goal
  BY <1>0, <1>a, ReturnChargeEffect
<1>6. SendRefund(g) => Goal
  BY <1>0, <1>a, SendRefundEffect
<1>7. RefundGet(g) => Goal
  BY <1>0, <1>a, RefundGetEffect
<1>8. RefundSave(g) => Goal
  BY <1>0, <1>a, RefundSaveEffect
<1>9. TxRead(g) => Goal
  BY <1>0, <1>a, TxReadEffect
<1>10. TxWrite(g) => Goal
  BY <1>0, <1>a, TxWriteEffect
<1>11. FailGet(g) => Goal
  BY <1>0, <1>a, FailGetEffect
<1>12. FailClose(g) => Goal
  BY <1>0, <1>a, FailCloseEffect
<1>13. FailTx(g) => Goal
  BY <1>0, <1>a, FailTxEffect
<1>14. Deadline(g) => Goal
  BY <1>0, <1>a, DeadlineEffect
<1> HIDE DEF Goal
<1>15. Goal
  BY <1>1, <1>2, <1>3, <1>4, <1>5, <1>6, <1>7, <1>8, <1>9, <1>10, <1>11, <1>12, <1>13, <1>14 DEF JobStep
<1> QED
  BY <1>0, <1>15, JobFrame DEF Goal, GoTypeOK, EnrollmentTypeOK, GatewayTypeOK

LEMMA TypesKept ==
  ASSUME EnrollmentInv, EnrollmentNext
  PROVE  EnrollmentTypeOK' /\ GatewayTypeOK'
<1>0. EnrollmentTypeOK /\ GatewayTypeOK /\ GatewayInv
  BY Parts
<1>1. ASSUME NEW f \in forms, Attempt(f) PROVE EnrollmentTypeOK' /\ GatewayTypeOK'
  <2>1. sent' \subseteq Note /\ taken' \in [OrderNums -> Nat]
    BY <1>0, <1>1, AttemptEffect DEF GatewayTypeOK
  <2>2. UNCHANGED <<dataVars, handlerVars, goVars, forms, deliveries, refunds, marks>>
    BY <1>1 DEF Attempt
  <2> QED
    BY <1>0, <2>1, <2>2 DEF EnrollmentTypeOK, GatewayTypeOK, dataVars, handlerVars, goVars
<1>2. ASSUME NEW g \in Goroutines, Notify(g) PROVE EnrollmentTypeOK' /\ GatewayTypeOK'
  <2>1. GoTypeOK' /\ deliveries' \in [OrderNums -> [BOOLEAN -> Nat]]
    BY <1>0, <1>2, NotifyEffect
  <2>2. UNCHANGED <<dataVars, handlerVars, copy, tcopy, forms, sent, taken, refunds, marks>>
    BY <1>2 DEF Notify
  <2> QED
    BY <1>0, <2>1, <2>2 DEF EnrollmentTypeOK, GatewayTypeOK, GoTypeOK, dataVars, handlerVars
<1> QED
  BY <1>1, <1>2, HandlerTypes, JobTypes DEF EnrollmentNext

-----------------------------------------------------------------------------
(***************************************************************************)
(* A stored order stays, of the same user and transaction, and of the same *)
(* amount unless it is sent again.                                         *)
(***************************************************************************)
SameOrderAt(n) ==
  /\ orders'[n].user = orders[n].user /\ orders'[n].tx = orders[n].tx
  /\ n \in broken' \/ orders'[n].amount = orders[n].amount

OrdersKept ==
  /\ mixed \subseteq mixed' /\ broken \subseteq broken'
  /\ \A n \in OrderNums : Stored(n) => Stored(n)'
  /\ \A n \in OrderNums : Stored(n)' => orders'[n].user \in Users
  /\ mixed' = {} => \A n \in OrderNums : Stored(n) => SameOrderAt(n)

LEMMA SameOrders ==
  ASSUME StoredInv, UNCHANGED orders, mixed \subseteq mixed', broken \subseteq broken'
  PROVE  OrdersKept
BY DEF OrdersKept, SameOrderAt, StoredInv, Stored

LEMMA OneOrderWritten ==
  ASSUME StoredInv, NEW n \in OrderNums, Stored(n)', orders'[n].user \in Users,
         \A m \in OrderNums \ {n} : orders'[m] = orders[m],
         mixed' = {} /\ Stored(n) => SameOrderAt(n),
         mixed \subseteq mixed', broken \subseteq broken'
  PROVE  OrdersKept
<1>1. \A m \in OrderNums \ {n} : SameOrderAt(m) /\ (Stored(m)' <=> Stored(m))
  BY DEF SameOrderAt, Stored
<1>2. \A m \in OrderNums : Stored(m)' => orders'[m].user \in Users
  BY <1>1 DEF StoredInv
<1>3. \A m \in OrderNums : Stored(m) => Stored(m)'
  BY <1>1
<1> QED
  BY <1>1, <1>2, <1>3 DEF OrdersKept

LEMMA HandlerOrders ==
  ASSUME EnrollmentInv, NEW h \in Handlers, HandlerStep(h)
  PROVE  OrdersKept
<1>0. EnrollmentTypeOK /\ StoredInv /\ Holding(h) /\ mixed \subseteq mixed' /\ broken \subseteq broken'
  BY Parts, HandlerFrame
<1>a. mixed = {} => SaveInv(h)
  BY Parts DEF AgreeInv
<1>1. PostOrder(h) => OrdersKept
  BY <1>0, SameOrders, PostOrderEffect
<1>2. RepostOrder(h) => OrdersKept
  BY <1>0, SameOrders, RepostOrderEffect
<1>3. NextOrder(h) => OrdersKept
  BY <1>0, NextOrderEffect DEF OrdersKept, SameOrderAt, StoredInv
<1>4. SaveOrder(h) => OrdersKept
  <2> SUFFICES ASSUME SaveOrder(h) PROVE OrdersKept
    OBVIOUS
  <2>1. PICK n : n = body[h].num
    OBVIOUS
  <2>2. /\ hpc[h] = "save" /\ n \in OrderNums /\ Stored(n)' /\ UNCHANGED mixed
        /\ orders'[n].user = body[h].user /\ orders'[n].tx = body[h].tx
        /\ \A m \in OrderNums \ {n} : orders'[m] = orders[m]
        /\ Stored(n) => n \in broken'
    <3>1. broken' = IF Stored(n) THEN broken \cup {n} ELSE broken
      BY <1>0, <2>1, SaveOrderEffect
    <3>2. /\ hpc[h] = "save" /\ n \in OrderNums /\ Stored(n)' /\ UNCHANGED mixed
          /\ orders'[n].user = body[h].user /\ orders'[n].tx = body[h].tx
          /\ \A m \in OrderNums \ {n} : orders'[m] = orders[m]
      BY <1>0, <2>1, SaveOrderEffect
    <3> QED
      BY <3>1, <3>2
  <2>3. mixed' = {} /\ Stored(n) => SameOrderAt(n)
    BY <1>a, <2>1, <2>2 DEF SaveInv, SameOrderAt
  <2>4. orders'[n].user \in Users
    BY <1>0, <2>2 DEF Holding
  <2> QED
    BY <1>0, <2>2, <2>3, <2>4, OneOrderWritten
<1>5. PostMethod(h) => OrdersKept
  BY <1>0, SameOrders, PostMethodEffect
<1>6. CheckMethod(h) => OrdersKept
  BY <1>0, SameOrders, CheckMethodEffect, MethodFrame
<1>7. InsertMethod(h) => OrdersKept
  BY <1>0, SameOrders, InsertMethodEffect, MethodFrame
<1>8. ClearDefaults(h) => OrdersKept
  BY <1>0, SameOrders, ClearDefaultsEffect, MethodFrame
<1>9. SetDefault(h) => OrdersKept
  BY <1>0, SameOrders, SetDefaultEffect, MethodFrame
<1>10. DeleteMethod(h) => OrdersKept
  BY <1>0, SameOrders, DeleteMethodEffect, MethodFrame
<1>11. FirstMethod(h) => OrdersKept
  BY <1>0, SameOrders, FirstMethodEffect, MethodFrame
<1>12. Abandon(h) => OrdersKept
  BY <1>0, SameOrders, AbandonEffect, MethodFrame
<1> QED
  BY <1>1, <1>2, <1>3, <1>4, <1>5, <1>6, <1>7, <1>8, <1>9, <1>10, <1>11, <1>12 DEF HandlerStep

LEMMA JobOrders ==
  ASSUME EnrollmentInv, NEW g \in Goroutines, JobStep(g)
  PROVE  OrdersKept
<1>0. /\ EnrollmentTypeOK /\ GatewayTypeOK /\ StoredInv /\ GatewayInv /\ JobHolding(g)
      /\ UNCHANGED mixed /\ mixed \subseteq mixed' /\ broken \subseteq broken'
  BY Parts, JobFrame
<1>a. mixed = {} => /\ CopyInv(g)
                    /\ \A m \in sent : m.num \in broken \/ orders[m.num].amount = m.amount
  BY Parts DEF AgreeInv
<1>n. PICK n : n = note[g].num
  OBVIOUS
<1>c. {"close", "refSave", "failClose"} \subseteq Copied
  BY DEF Copied, GoStates
<1>1. GetOrder(g) => OrdersKept
  BY <1>0, SameOrders, GetOrderEffect
<1>2. CloseOrder(g) => OrdersKept
  <2> SUFFICES ASSUME CloseOrder(g) PROVE OrdersKept
    OBVIOUS
  <2>1. /\ gpc[g] = "close" /\ n \in OrderNums /\ Stored(n)'
        /\ copy'[g].user = copy[g].user /\ copy'[g].user \in Users
        /\ copy'[g].tx = copy[g].tx /\ copy'[g].amount = note[g].amount
        /\ orders'[n] = copy'[g] /\ \A m \in OrderNums \ {n} : orders'[m] = orders[m]
    BY <1>0, <1>n, CloseOrderEffect
  <2>2. note[g] \in sent
    BY <1>0, <2>1 DEF JobHolding
  <2>3. mixed' = {} => SameOrderAt(n)
    BY <1>0, <1>a, <1>c, <1>n, <2>1, <2>2 DEF CopyInv, SameOrderAt
  <2> QED
    BY <1>0, <2>1, <2>3, OneOrderWritten
<1>3. CheckCard(g) => OrdersKept
  BY <1>0, SameOrders, CheckCardEffect
<1>4. InsertCard(g) => OrdersKept
  BY <1>0, SameOrders, InsertCardEffect
<1>5. ReturnCharge(g) => OrdersKept
  BY <1>0, SameOrders, ReturnChargeEffect
<1>6. SendRefund(g) => OrdersKept
  BY <1>0, SameOrders, SendRefundEffect
<1>7. RefundGet(g) => OrdersKept
  BY <1>0, SameOrders, RefundGetEffect
<1>8. RefundSave(g) => OrdersKept
  <2> SUFFICES ASSUME RefundSave(g) PROVE OrdersKept
    OBVIOUS
  <2>1. /\ gpc[g] = "refSave" /\ n \in OrderNums /\ Stored(n)' /\ orders'[n] = copy[g]
        /\ \A m \in OrderNums \ {n} : orders'[m] = orders[m]
    BY <1>0, <1>n, RefundSaveEffect
  <2>2. copy[g].user \in Users
    BY <1>0, <1>c, <2>1 DEF JobHolding
  <2>3. mixed' = {} => SameOrderAt(n)
    BY <1>0, <1>a, <1>c, <1>n, <2>1 DEF CopyInv, SameOrderAt
  <2> QED
    BY <1>0, <2>1, <2>2, <2>3, OneOrderWritten
<1>9. TxRead(g) => OrdersKept
  BY <1>0, SameOrders, TxReadEffect
<1>10. TxWrite(g) => OrdersKept
  BY <1>0, SameOrders, TxWriteEffect
<1>11. FailGet(g) => OrdersKept
  BY <1>0, SameOrders, FailGetEffect
<1>12. FailClose(g) => OrdersKept
  <2> SUFFICES ASSUME FailClose(g) PROVE OrdersKept
    OBVIOUS
  <2>1. /\ gpc[g] = "failClose" /\ n \in OrderNums /\ Stored(n)' /\ copy[g].user \in Users
        /\ \/ UNCHANGED orders
           \/ orders'[n].user = copy[g].user /\ orders'[n].tx = copy[g].tx /\ orders'[n].amount = copy[g].amount
        /\ \A m \in OrderNums \ {n} : orders'[m] = orders[m]
    BY <1>0, <1>n, FailCloseEffect
  <2>2. CASE UNCHANGED orders
    BY <1>0, <2>2, SameOrders
  <2>3. CASE orders'[n].user = copy[g].user /\ orders'[n].tx = copy[g].tx /\ orders'[n].amount = copy[g].amount
    <3>1. mixed' = {} => SameOrderAt(n)
      BY <1>0, <1>a, <1>c, <1>n, <2>1, <2>3 DEF CopyInv, SameOrderAt
    <3> QED
      BY <1>0, <2>1, <2>3, <3>1, OneOrderWritten
  <2> QED
    BY <2>1, <2>2, <2>3
<1>13. FailTx(g) => OrdersKept
  BY <1>0, SameOrders, FailTxEffect
<1>14. Deadline(g) => OrdersKept
  BY <1>0, SameOrders, DeadlineEffect
<1> QED
  BY <1>1, <1>2, <1>3, <1>4, <1>5, <1>6, <1>7, <1>8, <1>9, <1>10, <1>11, <1>12, <1>13, <1>14 DEF JobStep

LEMMA OrdersStay ==
  ASSUME EnrollmentInv, EnrollmentNext
  PROVE  OrdersKept
<1>1. ASSUME NEW f \in forms, Attempt(f) PROVE OrdersKept
  BY <1>1, Parts, SameOrders DEF Attempt, dataVars, marks
<1>2. ASSUME NEW g \in Goroutines, Notify(g) PROVE OrdersKept
  BY <1>2, Parts, SameOrders DEF Notify, dataVars, marks
<1> QED
  BY <1>1, <1>2, HandlerOrders, JobOrders DEF EnrollmentNext

-----------------------------------------------------------------------------
(***************************************************************************)
(* What requests and goroutines hold, and what the gateway knows.          *)
(***************************************************************************)
LEMMA HoldingKept ==
  ASSUME EnrollmentInv, NEW h \in Handlers, HandlerStep(h)
  PROVE  \A k \in Handlers : Holding(k)'
<1>0. EnrollmentTypeOK /\ StoredInv /\ (\A k \in Handlers : Holding(k)) /\ OrdersKept /\ Others(h)
  BY Parts, HandlerOrders, HandlerFrame
<1>a. Holding(h)
  BY <1>0
<1>i. hpc'[h] = "idle" => Holding(h)'
  BY DEF Holding
<1>1. PostOrder(h) => Holding(h)'
  BY <1>0, <1>a, <1>i, PostOrderEffect DEF Holding
<1>2. RepostOrder(h) => Holding(h)'
  <2> SUFFICES ASSUME RepostOrder(h) PROVE Holding(h)'
    OBVIOUS
  <2>1. /\ hpc'[h] = "save" /\ body'[h].user \in Users /\ body'[h].num \in OrderNums
        /\ Stored(body'[h].num) /\ UNCHANGED orders
    BY <1>0, RepostOrderEffect
  <2>2. Stored(body[h].num)'
    BY <2>1 DEF Stored
  <2> QED
    BY <2>1, <2>2 DEF Holding
<1>3. NextOrder(h) => Holding(h)'
  BY <1>0, <1>a, <1>i, NextOrderEffect DEF Holding
<1>4. SaveOrder(h) => Holding(h)'
  <2>1. PICK n : n = body[h].num
    OBVIOUS
  <2> QED
    BY <1>0, <1>a, <1>i, <2>1, SaveOrderEffect
<1>5. PostMethod(h) => Holding(h)'
  BY <1>0, <1>a, <1>i, PostMethodEffect DEF Holding
<1>6. CheckMethod(h) => Holding(h)'
  BY <1>0, <1>a, <1>i, CheckMethodEffect, MethodFrame DEF Holding
<1>7. InsertMethod(h) => Holding(h)'
  BY <1>0, <1>a, <1>i, InsertMethodEffect, MethodFrame DEF Holding
<1>8. ClearDefaults(h) => Holding(h)'
  BY <1>0, <1>a, <1>i, ClearDefaultsEffect, MethodFrame DEF Holding
<1>9. SetDefault(h) => Holding(h)'
  BY <1>0, <1>a, <1>i, SetDefaultEffect, MethodFrame DEF Holding
<1>10. DeleteMethod(h) => Holding(h)'
  BY <1>0, <1>a, <1>i, DeleteMethodEffect, MethodFrame DEF Holding
<1>11. FirstMethod(h) => Holding(h)'
  BY <1>0, <1>a, <1>i, FirstMethodEffect, MethodFrame DEF Holding
<1>12. Abandon(h) => Holding(h)'
  BY <1>0, <1>a, <1>i, AbandonEffect, MethodFrame DEF Holding
<1>13. Holding(h)'
  BY <1>1, <1>2, <1>3, <1>4, <1>5, <1>6, <1>7, <1>8, <1>9, <1>10, <1>11, <1>12 DEF HandlerStep
<1>14. ASSUME NEW k \in Handlers, k # h PROVE Holding(k)'
  <2>1. hpc'[k] = hpc[k] /\ body'[k] = body[k] /\ Holding(k)
    BY <1>0, <1>14 DEF Others
  <2>2. hpc[k] = "save" /\ Stored(body[k].num) => Stored(body[k].num)'
    <3>1. hpc[k] = "save" => body[k].num \in OrderNums
      BY <2>1 DEF Holding
    <3>2. \A n \in OrderNums : Stored(n) => Stored(n)'
      BY <1>0 DEF OrdersKept
    <3>3. PICK n : n = body[k].num
      OBVIOUS
    <3>4. n \in OrderNums /\ Stored(n) => Stored(n)'
      BY <3>2
    <3>5. Stored(n)' <=> Stored(body[k].num)'
      BY <2>1, <3>3 DEF Stored
    <3> QED
      BY <3>1, <3>3, <3>4, <3>5
  <2> QED
    BY <2>1, <2>2 DEF Holding
<1> QED
  BY <1>13, <1>14

LEMMA JobHoldingKept ==
  ASSUME EnrollmentInv, NEW g \in Goroutines, JobStep(g)
  PROVE  \A k \in Goroutines : JobHolding(k)'
<1>0. /\ EnrollmentTypeOK /\ GatewayTypeOK /\ StoredInv /\ GatewayInv /\ UNCHANGED sent /\ gpc[g] # "idle"
      /\ \A k \in Goroutines : JobHolding(k)
  BY Parts, JobFrame
<1>a. JobHolding(g) /\ note[g] \in sent
  BY <1>0 DEF JobHolding
<1>o. OtherJobs(g)
  BY JobTypes
<1>i. gpc'[g] = "idle" => JobHolding(g)'
  BY DEF JobHolding, Copied, Approved, Working
<1>c. {"close", "refSave", "failClose", "check", "insert", "return", "send", "refGet", "txRead", "txWrite", "failTx"} \subseteq Copied
  BY DEF Copied, GoStates
<1>n. PICK n : n = note[g].num
  OBVIOUS
<1>p. PICK c, u, t : c = note[g].card /\ u = copy[g].user /\ t = copy[g].tx
  OBVIOUS
<1>1. GetOrder(g) => JobHolding(g)'
  BY <1>0, <1>a, <1>c, <1>i, <1>n, <1>p, GetOrderEffect DEF JobHolding, Approved, Working, Copied
<1>2. CloseOrder(g) => JobHolding(g)'
  BY <1>0, <1>a, <1>c, <1>i, <1>n, <1>p, CloseOrderEffect DEF JobHolding, Approved, Working, Copied
<1>3. CheckCard(g) => JobHolding(g)'
  BY <1>0, <1>a, <1>c, <1>i, <1>n, <1>p, CheckCardEffect DEF JobHolding, Approved, Working, Copied
<1>4. InsertCard(g) => JobHolding(g)'
  <2>1. InsertCard(g) => gpc[g] = "insert" /\ gpc'[g] = "return" /\ UNCHANGED <<note, copy>>
    BY <1>0, <1>p, InsertCardEffect
  <2> QED
    BY <1>0, <1>a, <1>c, <2>1 DEF JobHolding, Approved, Working
<1>5. ReturnCharge(g) => JobHolding(g)'
  BY <1>0, <1>a, <1>c, <1>i, <1>n, <1>p, ReturnChargeEffect DEF JobHolding, Approved, Working, Copied
<1>6. SendRefund(g) => JobHolding(g)'
  BY <1>0, <1>a, <1>c, <1>i, <1>n, <1>p, SendRefundEffect DEF JobHolding, Approved, Working, Copied
<1>7. RefundGet(g) => JobHolding(g)'
  BY <1>0, <1>a, <1>c, <1>i, <1>n, <1>p, RefundGetEffect DEF JobHolding, Approved, Working, Copied
<1>8. RefundSave(g) => JobHolding(g)'
  BY <1>0, <1>a, <1>c, <1>i, <1>n, <1>p, RefundSaveEffect DEF JobHolding, Approved, Working, Copied
<1>9. TxRead(g) => JobHolding(g)'
  BY <1>0, <1>a, <1>c, <1>i, <1>n, <1>p, TxReadEffect DEF JobHolding, Approved, Working, Copied
<1>10. TxWrite(g) => JobHolding(g)'
  BY <1>0, <1>a, <1>c, <1>i, <1>n, <1>p, TxWriteEffect DEF JobHolding, Approved, Working, Copied
<1>11. FailGet(g) => JobHolding(g)'
  BY <1>0, <1>a, <1>c, <1>i, <1>n, <1>p, FailGetEffect DEF JobHolding, Approved, Working, Copied
<1>12. FailClose(g) => JobHolding(g)'
  BY <1>0, <1>a, <1>c, <1>i, <1>n, <1>p, FailCloseEffect DEF JobHolding, Approved, Working, Copied
<1>13. FailTx(g) => JobHolding(g)'
  BY <1>0, <1>a, <1>c, <1>i, <1>n, <1>p, FailTxEffect DEF JobHolding, Approved, Working, Copied
<1>14. Deadline(g) => JobHolding(g)'
  BY <1>0, <1>a, <1>c, <1>i, <1>n, <1>p, DeadlineEffect DEF JobHolding, Approved, Working, Copied
<1>15. JobHolding(g)'
  BY <1>1, <1>2, <1>3, <1>4, <1>5, <1>6, <1>7, <1>8, <1>9, <1>10, <1>11, <1>12, <1>13, <1>14 DEF JobStep
<1>16. ASSUME NEW k \in Goroutines, k # g PROVE JobHolding(k)'
  BY <1>0, <1>o, <1>16 DEF OtherJobs, JobHolding
<1> QED
  BY <1>15, <1>16

\* Requests do not change goroutines, nor goroutines requests.
LEMMA HoldingsApart ==
  ASSUME EnrollmentInv, OrdersKept
  PROVE  /\ UNCHANGED <<hpc, body>> => \A h \in Handlers : Holding(h)'
         /\ sent \subseteq sent' /\ UNCHANGED goVars => \A g \in Goroutines : JobHolding(g)'
<1>1. ASSUME UNCHANGED <<hpc, body>>, NEW h \in Handlers PROVE Holding(h)'
  <2>1. Holding(h)
    BY Parts
  <2>2. hpc[h] = "save" /\ Stored(body[h].num) => Stored(body[h].num)'
    <3>1. hpc[h] = "save" => body[h].num \in OrderNums
      BY <2>1 DEF Holding
    <3>2. PICK n : n = body[h].num
      OBVIOUS
    <3>3. n \in OrderNums /\ Stored(n) => Stored(n)'
      BY DEF OrdersKept
    <3>4. Stored(n)' <=> Stored(body[h].num)'
      BY <1>1, <3>2 DEF Stored
    <3> QED
      BY <3>1, <3>2, <3>3, <3>4
  <2> QED
    BY <1>1, <2>1, <2>2 DEF Holding
<1>2. ASSUME sent \subseteq sent', UNCHANGED goVars, NEW g \in Goroutines PROVE JobHolding(g)'
  <2>1. JobHolding(g)
    BY Parts
  <2> QED
    BY <1>2, <2>1 DEF goVars, JobHolding
<1> QED
  BY <1>1, <1>2

LEMMA HoldingsKept ==
  ASSUME EnrollmentInv, EnrollmentNext
  PROVE  (\A h \in Handlers : Holding(h)') /\ (\A g \in Goroutines : JobHolding(g)')
<1>0. EnrollmentTypeOK /\ GatewayTypeOK /\ GatewayInv /\ (\A g \in Goroutines : JobHolding(g)) /\ OrdersKept
  BY Parts, OrdersStay
<1>1. ASSUME NEW h \in Handlers, HandlerStep(h) PROVE UNCHANGED goVars /\ sent \subseteq sent'
  BY <1>0, <1>1, HandlerFrame
<1>2. ASSUME NEW g \in Goroutines, JobStep(g) PROVE UNCHANGED <<hpc, body>>
  BY <1>0, <1>2, JobFrame
<1>3. ASSUME NEW f \in forms, Attempt(f) PROVE UNCHANGED <<hpc, body>> /\ UNCHANGED goVars /\ sent \subseteq sent'
  BY <1>3 DEF Attempt, handlerVars
<1>4. ASSUME NEW g \in Goroutines, Notify(g)
      PROVE  UNCHANGED <<hpc, body>> /\ \A k \in Goroutines : JobHolding(k)'
  <2>1. /\ note'[g] \in sent /\ gpc'[g] = IF note'[g].approved THEN "get" ELSE "failGet"
        /\ OtherJobs(g) /\ UNCHANGED <<handlerVars, sent>>
    BY <1>0, <1>4, NotifyEffect
  <2>2. JobHolding(g)'
    BY <2>1 DEF JobHolding, Approved, Working, Copied
  <2>3. ASSUME NEW k \in Goroutines, k # g PROVE JobHolding(k)'
    BY <1>0, <2>1, <2>3 DEF OtherJobs, JobHolding
  <2> QED
    BY <2>1, <2>2, <2>3 DEF handlerVars
<1>5. CASE \E h \in Handlers : HandlerStep(h)
  BY <1>0, <1>1, <1>5, HoldingKept, HoldingsApart
<1>6. CASE \E f \in forms : Attempt(f)
  BY <1>0, <1>3, <1>6, HoldingsApart
<1>7. CASE \E g \in Goroutines : Notify(g)
  BY <1>0, <1>4, <1>7, HoldingsApart
<1>8. CASE \E g \in Goroutines : JobStep(g)
  BY <1>0, <1>2, <1>8, JobHoldingKept, HoldingsApart
<1> QED
  BY <1>5, <1>6, <1>7, <1>8 DEF EnrollmentNext

LEMMA GatewayKept ==
  ASSUME EnrollmentInv, EnrollmentNext
  PROVE  GatewayInv'
<1>0. EnrollmentTypeOK /\ GatewayTypeOK /\ GatewayInv /\ OrdersKept /\ GatewayTypeOK'
      /\ \A h \in Handlers : Holding(h)
  BY Parts, OrdersStay, TypesKept
<1>s. \A n \in OrderNums : Stored(n) => Stored(n)'
  BY <1>0 DEF OrdersKept
<1>f. \A f \in forms : f[2] \in OrderNums /\ Stored(f[2])'
  <2>1. \A f \in forms : f[2] \in OrderNums /\ Stored(f[2])
    BY <1>0 DEF GatewayTypeOK, GatewayInv
  <2> QED
    BY <1>s, <2>1
<1>m. \A m \in sent : m.num \in OrderNums /\ Stored(m.num)'
  BY <1>0, <1>s DEF GatewayInv
<1>1. ASSUME UNCHANGED <<sent, deliveries, taken>>, \A f \in forms' : Stored(f[2])' PROVE GatewayInv'
  <2>1. \A n \in OrderNums : Told(n)' = Told(n)
    BY <1>1 DEF Told
  <2> QED
    BY <1>0, <1>1, <1>m, <2>1 DEF GatewayInv
<1>2. ASSUME NEW h \in Handlers, HandlerStep(h) PROVE GatewayInv'
  <2>1. UNCHANGED <<sent, deliveries, taken>>
    BY <1>0, <1>2, HandlerFrame
  <2>2. CASE UNCHANGED forms
    BY <1>1, <1>f, <2>1, <2>2
  <2>3. CASE SaveOrder(h)
    <3>1. PICK n : n = body[h].num
      OBVIOUS
    <3>2. forms' = forms \cup {<<body[h].user, n, body[h].amount>>} /\ Stored(n)'
      BY <1>0, <2>3, <3>1, SaveOrderEffect
    <3>3. \A f \in forms' : Stored(f[2])'
      BY <1>f, <3>2
    <3> QED
      BY <1>1, <2>1, <3>3
  <2>4. UNCHANGED forms \/ SaveOrder(h)
    BY <1>2, MethodFrame
       DEF HandlerStep, PostOrder, RepostOrder, PostMethod, NextOrder, Request, gatewayVars
  <2> QED
    BY <2>2, <2>3, <2>4
<1>3. ASSUME NEW g \in Goroutines, JobStep(g) PROVE GatewayInv'
  BY <1>0, <1>1, <1>3, <1>f, JobFrame
<1>4. ASSUME NEW f \in forms, Attempt(f) PROVE GatewayInv'
  <2>1. PICK n : n = f[2]
    OBVIOUS
  <2>2. /\ n \in OrderNums /\ \A m \in sent : ~(m.num = n /\ m.approved)
        /\ \A k \in OrderNums \ {n} : taken'[k] = taken[k]
        /\ UNCHANGED <<dataVars, handlerVars, goVars, forms, deliveries, refunds, marks>>
    BY <1>0, <1>4, <2>1, AttemptEffect
  <2>3. PICK m \in Note : /\ sent' = sent \cup {m} /\ m.num = n /\ m.amount = f[3]
                          /\ m.approved => m.card \in Cards /\ HolderOf[m.card] = f[1] /\ taken'[n] = f[3]
    BY <1>0, <1>4, <2>1, AttemptEffect
  <2>4. Stored(n)'
    BY <1>f, <2>1
  <2>5. ASSUME NEW k \in sent'
        PROVE  k.num \in OrderNums /\ Stored(k.num)' /\ (k.approved => k.card \in Cards /\ taken'[k.num] = k.amount)
    <3>1. CASE k = m
      BY <2>2, <2>3, <2>4, <3>1
    <3>2. CASE k \in sent
      BY <1>0, <1>m, <2>2, <3>2 DEF GatewayInv
    <3> QED
      BY <2>3, <3>1, <3>2
  <2>6. \A k \in OrderNums : Told(k)' = Told(k)
    BY <2>2 DEF Told
  <2>7. \A k \in OrderNums : Told(k) > 0 => \E e \in sent' : e.approved /\ e.num = k
    BY <1>0, <2>3 DEF GatewayInv
  <2> QED
    BY <1>f, <2>2, <2>5, <2>6, <2>7 DEF GatewayInv
<1>5. ASSUME NEW g \in Goroutines, Notify(g) PROVE GatewayInv'
  <2>1. PICK n : n = note'[g].num
    OBVIOUS
  <2>2. /\ note'[g] \in sent /\ n \in OrderNums
        /\ Told(n)' = IF note'[g].approved THEN Told(n) + 1 ELSE Told(n)
        /\ \A m \in OrderNums \ {n} : Told(m)' = Told(m)
        /\ UNCHANGED <<forms, sent, taken>>
    BY <1>0, <1>5, <2>1, NotifyEffect
  <2>3. \A k \in OrderNums : Told(k)' > 0 => \E e \in sent : e.approved /\ e.num = k
    BY <1>0, <2>1, <2>2 DEF GatewayInv
  <2> QED
    BY <1>0, <1>f, <1>m, <2>2, <2>3 DEF GatewayInv
<1> QED
  BY <1>2, <1>3, <1>4, <1>5 DEF EnrollmentNext

-----------------------------------------------------------------------------
(***************************************************************************)
(* Payment methods: for whom a card is stored, and how often.              *)
(***************************************************************************)
\* No card is added.
DocsStay ==
  \A d \in Docs :
    \/ methods'[d] = NoDoc
    \/ /\ methods[d] # NoDoc
       /\ methods'[d].card = methods[d].card /\ methods'[d].user = methods[d].user

LEMMA HandlerDocs ==
  ASSUME EnrollmentInv, NEW h \in Handlers, HandlerStep(h)
  PROVE  /\ DocsStay \/ (InsertMethod(h) /\ hpc[h] = "insert" /\ Added(body[h].card, body[h].user, body[h].default))
         /\ hpc'[h] = "insert" => CheckMethod(h)
<1>0. EnrollmentTypeOK /\ StoredInv /\ Holding(h)
  BY Parts
<1>u. UNCHANGED methods => DocsStay
  BY DEF DocsStay
<1>1. PostOrder(h) => DocsStay /\ hpc'[h] # "insert"
  BY <1>0, <1>u, PostOrderEffect
<1>2. RepostOrder(h) => DocsStay /\ hpc'[h] # "insert"
  BY <1>0, <1>u, RepostOrderEffect
<1>3. NextOrder(h) => DocsStay /\ hpc'[h] # "insert"
  BY <1>0, <1>u, NextOrderEffect
<1>4. SaveOrder(h) => DocsStay /\ hpc'[h] # "insert"
  <2>1. PICK n : n = body[h].num
    OBVIOUS
  <2> QED
    BY <1>0, <1>u, <2>1, SaveOrderEffect
<1>5. PostMethod(h) => DocsStay /\ hpc'[h] # "insert"
  BY <1>0, <1>u, PostMethodEffect
<1>6. CheckMethod(h) => DocsStay
  BY <1>0, <1>u, CheckMethodEffect
<1>7. InsertMethod(h) => hpc[h] = "insert" /\ Added(body[h].card, body[h].user, body[h].default) /\ hpc'[h] # "insert"
  BY <1>0, InsertMethodEffect
<1>8. ClearDefaults(h) => DocsStay /\ hpc'[h] # "insert"
  BY <1>0, ClearDefaultsEffect DEF DocsStay
<1>9. SetDefault(h) => DocsStay /\ hpc'[h] # "insert"
  BY <1>0, <1>u, SetDefaultEffect DEF DocsStay
<1>10. DeleteMethod(h) => DocsStay /\ hpc'[h] # "insert"
  BY <1>0, <1>u, DeleteMethodEffect DEF DocsStay
<1>11. FirstMethod(h) => DocsStay /\ hpc'[h] # "insert"
  BY <1>0, <1>u, FirstMethodEffect, MethodFrame
<1>12. Abandon(h) => DocsStay /\ hpc'[h] # "insert"
  BY <1>0, <1>u, AbandonEffect, MethodFrame
<1> QED
  BY <1>1, <1>2, <1>3, <1>4, <1>5, <1>6, <1>7, <1>8, <1>9, <1>10, <1>11, <1>12 DEF HandlerStep

LEMMA JobDocs ==
  ASSUME EnrollmentInv, NEW g \in Goroutines, JobStep(g)
  PROVE  /\ DocsStay \/ (InsertCard(g) /\ gpc[g] = "insert" /\ Added(note[g].card, copy[g].user, FALSE))
         /\ gpc'[g] = "insert" => CheckCard(g)
<1>0. EnrollmentTypeOK /\ GatewayTypeOK /\ StoredInv /\ GatewayInv /\ JobHolding(g)
  BY Parts
<1>u. UNCHANGED methods => DocsStay
  BY DEF DocsStay
<1>n. PICK n : n = note[g].num
  OBVIOUS
<1>p. PICK c, u, t : c = note[g].card /\ u = copy[g].user /\ t = copy[g].tx
  OBVIOUS
<1>1. GetOrder(g) => DocsStay /\ gpc'[g] # "insert"
  BY <1>0, <1>u, <1>n, <1>p, GetOrderEffect
<1>2. CloseOrder(g) => DocsStay /\ gpc'[g] # "insert"
  BY <1>0, <1>u, <1>n, <1>p, CloseOrderEffect
<1>3. CheckCard(g) => DocsStay
  BY <1>0, <1>u, <1>p, CheckCardEffect
<1>4. InsertCard(g) => gpc[g] = "insert" /\ Added(note[g].card, copy[g].user, FALSE) /\ gpc'[g] # "insert"
  BY <1>0, <1>p, InsertCardEffect
<1>5. ReturnCharge(g) => DocsStay /\ gpc'[g] # "insert"
  BY <1>0, <1>u, <1>n, <1>p, ReturnChargeEffect
<1>6. SendRefund(g) => DocsStay /\ gpc'[g] # "insert"
  BY <1>0, <1>u, <1>n, <1>p, SendRefundEffect
<1>7. RefundGet(g) => DocsStay /\ gpc'[g] # "insert"
  BY <1>0, <1>u, <1>n, <1>p, RefundGetEffect
<1>8. RefundSave(g) => DocsStay /\ gpc'[g] # "insert"
  BY <1>0, <1>u, <1>n, <1>p, RefundSaveEffect
<1>9. TxRead(g) => DocsStay /\ gpc'[g] # "insert"
  BY <1>0, <1>u, <1>n, <1>p, TxReadEffect
<1>10. TxWrite(g) => DocsStay /\ gpc'[g] # "insert"
  BY <1>0, <1>u, <1>n, <1>p, TxWriteEffect
<1>11. FailGet(g) => DocsStay /\ gpc'[g] # "insert"
  BY <1>0, <1>u, <1>n, <1>p, FailGetEffect
<1>12. FailClose(g) => DocsStay /\ gpc'[g] # "insert"
  BY <1>0, <1>u, <1>n, <1>p, FailCloseEffect
<1>13. FailTx(g) => DocsStay /\ gpc'[g] # "insert"
  BY <1>0, <1>u, <1>n, <1>p, FailTxEffect
<1>14. Deadline(g) => DocsStay /\ gpc'[g] # "insert"
  BY <1>0, <1>u, <1>n, <1>p, DeadlineEffect
<1> QED
  BY <1>1, <1>2, <1>3, <1>4, <1>5, <1>6, <1>7, <1>8, <1>9, <1>10, <1>11, <1>12, <1>13, <1>14 DEF JobStep

\* Who adds a card: its holder, unless a number was given away twice.
LEMMA AddedByHolder ==
  ASSUME EnrollmentInv
  PROVE  /\ \A h \in Handlers : hpc[h] = "insert" =>
              body[h].card \in Cards /\ body[h].user \in Users /\ body[h].user = HolderOf[body[h].card]
         /\ \A h \in Handlers : body[h].default \in BOOLEAN
         /\ \A g \in Goroutines : gpc[g] = "insert" \/ gpc[g] = "check" =>
              /\ note[g].card \in Cards /\ copy[g].user \in Users
              /\ mixed = {} => copy[g].user = HolderOf[note[g].card]
<1>1. ASSUME NEW h \in Handlers, hpc[h] = "insert"
      PROVE  body[h].card \in Cards /\ body[h].user \in Users /\ body[h].user = HolderOf[body[h].card]
  BY <1>1, Parts DEF Holding
<1>2. ASSUME NEW g \in Goroutines, gpc[g] = "insert" \/ gpc[g] = "check"
      PROVE  /\ note[g].card \in Cards /\ copy[g].user \in Users
             /\ mixed = {} => copy[g].user = HolderOf[note[g].card]
  <2>1. gpc[g] \in Copied /\ gpc[g] \in Approved /\ gpc[g] # "idle"
    BY <1>2 DEF Copied, Approved, Working, GoStates
  <2>2. note[g] \in sent /\ note[g].approved /\ copy[g].user \in Users
    BY <2>1, Parts DEF JobHolding
  <2>3. note[g].card \in Cards
    BY <2>2, Parts DEF GatewayInv
  <2>4. mixed = {} => copy[g].user = HolderOf[note[g].card]
    BY <2>1, <2>2, Parts DEF AgreeInv, CopyInv
  <2> QED
    BY <2>2, <2>3, <2>4
<1>3. \A h \in Handlers : body[h].default \in BOOLEAN
  BY Parts DEF EnrollmentTypeOK, Body
<1> QED
  BY <1>1, <1>2, <1>3

\* What an added card, or none, leaves true.
LEMMA EnrolledByDocs ==
  ASSUME EnrollmentInv, mixed \subseteq mixed',
         DocsStay \/ \E c \in Cards, u \in Users, b \in BOOLEAN : Added(c, u, b) /\ (mixed = {} => u = HolderOf[c])
  PROVE  /\ EnrolledForPayer'
         /\ \A d \in Docs : methods'[d] = NoDoc \/ (methods'[d].card \in Cards /\ methods'[d].user \in Users)
<1>0. StoredInv /\ EnrolledForPayer
  BY DEF EnrollmentInv
<1>1. CASE DocsStay
  BY <1>0, <1>1 DEF DocsStay, StoredInv, EnrolledForPayer
<1>2. ASSUME NEW c \in Cards, NEW u \in Users, NEW b, Added(c, u, b), mixed = {} => u = HolderOf[c]
      PROVE  /\ EnrolledForPayer'
             /\ \A d \in Docs : methods'[d] = NoDoc \/ (methods'[d].card \in Cards /\ methods'[d].user \in Users)
  BY <1>0, <1>2 DEF Added, StoredInv, EnrolledForPayer
<1> QED
  BY <1>1, <1>2

LEMMA EnrolledKept ==
  ASSUME EnrollmentInv, EnrollmentNext
  PROVE  StoredInv' /\ EnrolledForPayer'
<1>0. OrdersKept
  BY OrdersStay
<1>1. DocsStay \/ \E c \in Cards, u \in Users, b \in BOOLEAN : Added(c, u, b) /\ (mixed = {} => u = HolderOf[c])
  <2>1. ASSUME NEW f \in forms, Attempt(f) PROVE DocsStay
    BY <2>1 DEF Attempt, dataVars, DocsStay
  <2>2. ASSUME NEW g \in Goroutines, Notify(g) PROVE DocsStay
    BY <2>2 DEF Notify, dataVars, DocsStay
  <2> DEFINE Goal == DocsStay \/ \E c \in Cards, u \in Users, b \in BOOLEAN : Added(c, u, b) /\ (mixed = {} => u = HolderOf[c])
  <2>3. ASSUME NEW h \in Handlers, HandlerStep(h) PROVE Goal
    <3>1. DocsStay \/ (hpc[h] = "insert" /\ Added(body[h].card, body[h].user, body[h].default))
      BY <2>3, HandlerDocs
    <3>2. hpc[h] = "insert" => body[h].card \in Cards /\ body[h].user \in Users /\ body[h].user = HolderOf[body[h].card]
      BY AddedByHolder
    <3>3. body[h].default \in BOOLEAN
      BY AddedByHolder
    <3> QED
      BY <3>1, <3>2, <3>3
  <2>4. ASSUME NEW g \in Goroutines, JobStep(g) PROVE Goal
    <3>1. DocsStay \/ (gpc[g] = "insert" /\ Added(note[g].card, copy[g].user, FALSE))
      BY <2>4, JobDocs
    <3>2. gpc[g] = "insert" =>
            /\ note[g].card \in Cards /\ copy[g].user \in Users
            /\ mixed = {} => copy[g].user = HolderOf[note[g].card]
      BY AddedByHolder
    <3>3. FALSE \in BOOLEAN
      OBVIOUS
    <3> QED
      BY <3>1, <3>2, <3>3, Zenon
  <2> QED
    BY <2>1, <2>2, <2>3, <2>4 DEF EnrollmentNext
<1>2. mixed \subseteq mixed'
  BY <1>0 DEF OrdersKept
<1> QED
  BY <1>0, <1>1, <1>2, EnrolledByDocs DEF OrdersKept, StoredInv

\* A card that is added was not stored.
LEMMA DocsByCard ==
  ASSUME EnrollmentInv, twins \subseteq twins',
         \/ DocsStay
         \/ \E c \in Cards, u \in Users, b \in BOOLEAN : Added(c, u, b) /\ Inserting(c, u)
  PROVE  OneDocPerCard'
<1>0. StoredInv /\ OneDocPerCard
  BY DEF EnrollmentInv
<1>1. CASE DocsStay
  <2> SUFFICES ASSUME NEW d \in Docs, NEW e \in Docs, methods'[d] # NoDoc,
                      methods'[d].card = methods'[e].card, methods'[d].user = methods'[e].user
               PROVE  d = e \/ methods'[d].card \in twins'
    BY DEF OneDocPerCard
  <2>1. methods[d] # NoDoc /\ methods'[d].card = methods[d].card /\ methods'[d].user = methods[d].user
    BY <1>1 DEF DocsStay
  <2>2. methods[d].user \in Users /\ NoDoc.user \notin Users
    BY <1>0, <2>1, EnrollmentAssumption DEF StoredInv, NoDoc
  <2>3. methods'[e] # NoDoc
    BY <2>1, <2>2
  <2>4. methods'[e].card = methods[e].card /\ methods'[e].user = methods[e].user
    BY <1>1, <2>3 DEF DocsStay
  <2> QED
    BY <1>0, <2>1, <2>4 DEF OneDocPerCard
<1>2. ASSUME NEW c \in Cards, NEW u \in Users, NEW b \in BOOLEAN, Added(c, u, b), Inserting(c, u)
      PROVE  OneDocPerCard'
  <2>1. c \in twins \/ \A d \in Docs : ~(methods[d].card = c /\ methods[d].user = u)
    BY <1>2 DEF EnrollmentInv, InsertInv
  <2>2. PICK a \in Docs : /\ methods'[a].card = c /\ methods'[a].user = u
                         /\ \A e \in Docs \ {a} : methods'[e] = methods[e]
    BY <1>2 DEF Added
  <2> QED
    BY <1>0, <2>1, <2>2 DEF OneDocPerCard
<1> QED
  BY <1>1, <1>2

LEMMA OneDocKept ==
  ASSUME EnrollmentInv, EnrollmentNext
  PROVE  OneDocPerCard' /\ twins \subseteq twins'
<1>0. EnrollmentTypeOK
  BY Parts
<1>1. ASSUME NEW f \in forms, Attempt(f) PROVE DocsStay /\ UNCHANGED twins
  BY <1>1 DEF Attempt, dataVars, DocsStay, marks
<1>2. ASSUME NEW g \in Goroutines, Notify(g) PROVE DocsStay /\ UNCHANGED twins
  BY <1>2 DEF Notify, dataVars, DocsStay, marks
<1>3. ASSUME NEW h \in Handlers, HandlerStep(h) PROVE OneDocPerCard' /\ twins \subseteq twins'
  <2>1. twins \subseteq twins'
    BY <1>0, <1>3, HandlerFrame
  <2>2. DocsStay \/ (hpc[h] = "insert" /\ Added(body[h].card, body[h].user, body[h].default))
    BY <1>3, HandlerDocs
  <2>3. hpc[h] = "insert" =>
          /\ body[h].card \in Cards /\ body[h].user \in Users /\ body[h].default \in BOOLEAN
          /\ Inserting(body[h].card, body[h].user)
    BY AddedByHolder DEF Inserting
  <2> QED
    BY <2>1, <2>2, <2>3, DocsByCard
<1>4. ASSUME NEW g \in Goroutines, JobStep(g) PROVE OneDocPerCard' /\ twins \subseteq twins'
  <2>1. twins \subseteq twins'
    BY <1>0, <1>4, JobFrame
  <2>2. DocsStay \/ (gpc[g] = "insert" /\ Added(note[g].card, copy[g].user, FALSE))
    BY <1>4, JobDocs
  <2>3. gpc[g] = "insert" =>
          note[g].card \in Cards /\ copy[g].user \in Users /\ Inserting(note[g].card, copy[g].user)
    BY AddedByHolder DEF Inserting
  <2>4. FALSE \in BOOLEAN
    OBVIOUS
  <2>5. \/ DocsStay
        \/ \E c \in Cards, u \in Users, b \in BOOLEAN : Added(c, u, b) /\ Inserting(c, u)
    BY <2>2, <2>3, <2>4, Zenon
  <2> QED
    BY <2>1, <2>5, DocsByCard
<1> QED
  BY <1>1, <1>2, <1>3, <1>4, DocsByCard DEF EnrollmentNext

\* Fewer processes between check and insert, and no such card added.
LEMMA FewerInsert ==
  ASSUME NEW c \in Cards, NEW u \in Users, InsertInv(c, u),
         \A h \in Handlers : HandlerInserts(h, c, u)' => HandlerInserts(h, c, u),
         \A g \in Goroutines : JobInserts(g, c, u)' => JobInserts(g, c, u),
         \/ DocsStay
         \/ \E b, v, a : Added(b, v, a) /\ (b # c \/ v # u)
         \/ ~Inserting(c, u)'
  PROVE  InsertInv(c, u)'
<1>1. Inserting(c, u)' => Inserting(c, u)
  BY DEF Inserting, HandlerInserts, JobInserts
<1>2. Inserting(c, u)' => \A d \in Docs : ~(methods'[d].card = c /\ methods'[d].user = u)
  <2> SUFFICES ASSUME Inserting(c, u)', NEW d \in Docs, methods'[d].card = c, methods'[d].user = u
               PROVE  FALSE
    OBVIOUS
  <2>1. ~(methods[d].card = c /\ methods[d].user = u)
    BY <1>1 DEF InsertInv
  <2>2. NoDoc.card # c
    BY EnrollmentAssumption DEF NoDoc
  <2>3. CASE DocsStay
    BY <2>1, <2>2, <2>3 DEF DocsStay
  <2>4. ASSUME NEW b, NEW v, NEW a, Added(b, v, a), b # c \/ v # u PROVE FALSE
    BY <2>1, <2>4 DEF Added
  <2> QED
    BY <2>3, <2>4
<1> QED
  BY <1>2 DEF InsertInv

LEMMA InsertKept ==
  ASSUME EnrollmentInv, EnrollmentNext, NEW c \in Cards, c \notin twins', NEW u \in Users
  PROVE  InsertInv(c, u)'
<1>0. EnrollmentTypeOK
  BY Parts
<1>1. c \notin twins /\ InsertInv(c, u)
  BY OneDocKept DEF EnrollmentInv
<1>2. ASSUME UNCHANGED <<hpc, body>>, UNCHANGED methods,
             \A g \in Goroutines : gpc'[g] = "insert" => gpc[g] = "insert" /\ note'[g] = note[g] /\ copy'[g] = copy[g]
      PROVE  InsertInv(c, u)'
  <2>1. /\ \A h \in Handlers : HandlerInserts(h, c, u)' => HandlerInserts(h, c, u)
        /\ \A g \in Goroutines : JobInserts(g, c, u)' => JobInserts(g, c, u)
    BY <1>2 DEF HandlerInserts, JobInserts
  <2>2. DocsStay
    BY <1>2 DEF DocsStay
  <2> QED
    BY <1>1, <2>1, <2>2, FewerInsert
<1>3. ASSUME NEW f \in forms, Attempt(f) PROVE InsertInv(c, u)'
  BY <1>2, <1>3 DEF Attempt, handlerVars, dataVars, goVars
<1>4. ASSUME NEW g \in Goroutines, Notify(g) PROVE InsertInv(c, u)'
  <2>1. UNCHANGED <<hpc, body>> /\ UNCHANGED methods
    BY <1>4 DEF Notify, handlerVars, dataVars
  <2>2. gpc'[g] # "insert" /\ OtherJobs(g)
    BY <1>0, <1>4, NotifyEffect, Parts
  <2> QED
    BY <1>2, <2>1, <2>2 DEF OtherJobs
<1>5. ASSUME NEW h \in Handlers, HandlerStep(h) PROVE InsertInv(c, u)'
  <2>1. Others(h) /\ UNCHANGED goVars
    BY <1>0, <1>5, HandlerFrame
  <2>2. \A g \in Goroutines : JobInserts(g, c, u)' <=> JobInserts(g, c, u)
    BY <2>1 DEF goVars, JobInserts
  <2>3. \A k \in Handlers \ {h} : HandlerInserts(k, c, u)' <=> HandlerInserts(k, c, u)
    BY <2>1 DEF Others, HandlerInserts
  <2>4. CASE HandlerInserts(h, c, u)'
    <3>1. CheckMethod(h) /\ hpc'[h] = "insert"
      BY <1>5, <2>4, HandlerDocs DEF HandlerInserts
    <3>2. /\ body'[h] = body[h] /\ UNCHANGED methods
          /\ \A d \in Docs : ~(methods[d].card = body[h].card /\ methods[d].user = body[h].user)
          /\ twins' = IF Inserting(body[h].card, body[h].user) THEN twins \cup {body[h].card} ELSE twins
      BY <1>0, <3>1, CheckMethodEffect
    <3>3. body[h].card = c /\ body[h].user = u
      BY <2>4, <3>2 DEF HandlerInserts
    <3>4. ~Inserting(c, u)
      BY <3>2, <3>3
    <3>5. (\A k \in Handlers : ~HandlerInserts(k, c, u)) /\ (\A g \in Goroutines : ~JobInserts(g, c, u))
      BY <3>4 DEF Inserting, HandlerInserts, JobInserts
    <3>6. \A d \in Docs : ~(methods'[d].card = c /\ methods'[d].user = u)
      BY <3>2, <3>3
    <3> QED
      BY <2>2, <2>3, <3>5, <3>6 DEF InsertInv
  <2>5. CASE ~HandlerInserts(h, c, u)'
    <3>1. \/ DocsStay
          \/ \E b, v, a : Added(b, v, a) /\ (b # c \/ v # u)
          \/ ~Inserting(c, u)'
      <4>1. CASE DocsStay
        BY <4>1
      <4>2. CASE hpc[h] = "insert" /\ Added(body[h].card, body[h].user, body[h].default)
        <5>1. CASE body[h].card = c /\ body[h].user = u
          <6>1. HandlerInserts(h, c, u)
            BY <4>2, <5>1 DEF HandlerInserts
          <6>2. (\A k \in Handlers \ {h} : ~HandlerInserts(k, c, u)) /\ (\A g \in Goroutines : ~JobInserts(g, c, u))
            BY <1>1, <6>1 DEF InsertInv
          <6>3. (\A k \in Handlers : ~HandlerInserts(k, c, u)') /\ (\A g \in Goroutines : ~JobInserts(g, c, u)')
            BY <2>2, <2>3, <2>5, <6>2
          <6> QED
            BY <6>3 DEF Inserting, HandlerInserts, JobInserts
        <5>2. CASE body[h].card # c \/ body[h].user # u
          BY <4>2, <5>2
        <5> QED
          BY <5>1, <5>2
      <4> QED
        BY <1>5, <4>1, <4>2, HandlerDocs
    <3> QED
      BY <1>1, <2>2, <2>3, <2>5, <3>1, FewerInsert
  <2> QED
    BY <2>4, <2>5
<1>6. ASSUME NEW g \in Goroutines, JobStep(g) PROVE InsertInv(c, u)'
  <2>1. OtherJobs(g) /\ UNCHANGED <<hpc, body>>
    BY <1>0, <1>6, JobFrame, JobTypes
  <2>2. \A h \in Handlers : HandlerInserts(h, c, u)' <=> HandlerInserts(h, c, u)
    BY <2>1 DEF HandlerInserts
  <2>3. \A k \in Goroutines \ {g} : JobInserts(k, c, u)' <=> JobInserts(k, c, u)
    BY <2>1 DEF OtherJobs, JobInserts
  <2>4. CASE JobInserts(g, c, u)'
    <3>1. CheckCard(g) /\ gpc'[g] = "insert"
      BY <1>6, <2>4, JobDocs DEF JobInserts
    <3>2. PICK a, v : a = note[g].card /\ v = copy[g].user
      OBVIOUS
    <3>3. /\ UNCHANGED <<methods, note, copy>>
          /\ \A d \in Docs : ~(methods[d].card = a /\ methods[d].user = v)
          /\ twins' = IF Inserting(a, v) THEN twins \cup {a} ELSE twins
      BY <1>0, <3>1, <3>2, CheckCardEffect
    <3>4. a = c /\ v = u
      BY <2>4, <3>2, <3>3 DEF JobInserts
    <3>5. ~Inserting(c, u)
      BY <3>3, <3>4
    <3>6. (\A k \in Handlers : ~HandlerInserts(k, c, u)) /\ (\A k \in Goroutines : ~JobInserts(k, c, u))
      BY <3>5 DEF Inserting, HandlerInserts, JobInserts
    <3>7. \A d \in Docs : ~(methods'[d].card = c /\ methods'[d].user = u)
      BY <3>3, <3>4
    <3> QED
      BY <2>2, <2>3, <3>6, <3>7 DEF InsertInv
  <2>5. CASE ~JobInserts(g, c, u)'
    <3>1. \/ DocsStay
          \/ \E b, v, a : Added(b, v, a) /\ (b # c \/ v # u)
          \/ ~Inserting(c, u)'
      <4>1. CASE DocsStay
        BY <4>1
      <4>2. CASE gpc[g] = "insert" /\ Added(note[g].card, copy[g].user, FALSE)
        <5>1. CASE note[g].card = c /\ copy[g].user = u
          <6>1. JobInserts(g, c, u)
            BY <4>2, <5>1 DEF JobInserts
          <6>2. (\A k \in Handlers : ~HandlerInserts(k, c, u)) /\ (\A k \in Goroutines \ {g} : ~JobInserts(k, c, u))
            BY <1>1, <6>1 DEF InsertInv
          <6>3. (\A k \in Handlers : ~HandlerInserts(k, c, u)') /\ (\A k \in Goroutines : ~JobInserts(k, c, u)')
            BY <2>2, <2>3, <2>5, <6>2
          <6> QED
            BY <6>3 DEF Inserting, HandlerInserts, JobInserts
        <5>2. CASE note[g].card # c \/ copy[g].user # u
          BY <4>2, <5>2, Zenon
        <5> QED
          BY <5>1, <5>2
      <4> QED
        BY <1>6, <4>1, <4>2, JobDocs
    <3> QED
      BY <1>1, <2>2, <2>3, <2>5, <3>1, FewerInsert
  <2> QED
    BY <2>4, <2>5
<1> QED
  BY <1>3, <1>4, <1>5, <1>6 DEF EnrollmentNext

-----------------------------------------------------------------------------
(***************************************************************************)
(* Default flags.                                                          *)
(***************************************************************************)
LEMMA FewerFlags ==
  ASSUME NEW u \in Users, FlagInv(u),
         \A h \in Handlers : Flags(h, u)' => Flags(h, u),
         \A d \in Docs : IsDefault(d, u)' => IsDefault(d, u)
  PROVE  FlagInv(u)'
BY DEF FlagInv

LEMMA HandlerFlags ==
  ASSUME EnrollmentInv, NEW h \in Handlers, HandlerStep(h), NEW u \in Users, u \notin blurred'
  PROVE  FlagInv(u)'
<1>0. EnrollmentTypeOK /\ StoredInv /\ Holding(h) /\ Others(h) /\ blurred \subseteq blurred'
  BY Parts, HandlerFrame
<1>f. FlagInv(u)
  BY <1>0 DEF EnrollmentInv
<1>o. \A k \in Handlers \ {h} : Flags(k, u)' <=> Flags(k, u)
  BY <1>0 DEF Others, Flags
<1>n. PICK n : n = body[h].num
  OBVIOUS
<1>s. UNCHANGED methods /\ (hpc'[h] \notin {"set", "first"} \/ ~body'[h].default) => FlagInv(u)'
  <2> SUFFICES ASSUME UNCHANGED methods, hpc'[h] \notin {"set", "first"} \/ ~body'[h].default
               PROVE  FlagInv(u)'
    OBVIOUS
  <2>1. ~Flags(h, u)' /\ \A d \in Docs : IsDefault(d, u)' => IsDefault(d, u)
    BY DEF Flags, IsDefault
  <2> QED
    BY <1>f, <1>o, <2>1, FewerFlags
<1>1. PostOrder(h) => FlagInv(u)'
  <2>1. PostOrder(h) => UNCHANGED methods /\ (hpc'[h] \notin {"set", "first"} \/ ~body'[h].default)
    BY <1>0, <1>n, PostOrderEffect
  <2> QED
    BY <1>f, <2>1, <1>s
<1>2. RepostOrder(h) => FlagInv(u)'
  <2>1. RepostOrder(h) => UNCHANGED methods /\ (hpc'[h] \notin {"set", "first"} \/ ~body'[h].default)
    BY <1>0, <1>n, RepostOrderEffect
  <2> QED
    BY <1>f, <2>1, <1>s
<1>3. NextOrder(h) => FlagInv(u)'
  <2>1. NextOrder(h) => UNCHANGED methods /\ (hpc'[h] \notin {"set", "first"} \/ ~body'[h].default)
    BY <1>0, <1>n, NextOrderEffect
  <2> QED
    BY <1>f, <2>1, <1>s
<1>4. SaveOrder(h) => FlagInv(u)'
  <2>1. SaveOrder(h) => UNCHANGED methods /\ (hpc'[h] \notin {"set", "first"} \/ ~body'[h].default)
    BY <1>0, <1>n, SaveOrderEffect
  <2> QED
    BY <1>f, <2>1, <1>s
<1>5. PostMethod(h) => FlagInv(u)'
  <2>1. PostMethod(h) => UNCHANGED methods /\ (hpc'[h] \notin {"set", "first"} \/ ~body'[h].default)
    BY <1>0, <1>n, PostMethodEffect
  <2> QED
    BY <1>f, <2>1, <1>s
<1>6. CheckMethod(h) => FlagInv(u)'
  <2>1. CheckMethod(h) => UNCHANGED methods /\ (hpc'[h] \notin {"set", "first"} \/ ~body'[h].default)
    BY <1>0, <1>n, CheckMethodEffect
  <2> QED
    BY <1>f, <2>1, <1>s
<1>7. InsertMethod(h) => FlagInv(u)'
  <2> SUFFICES ASSUME InsertMethod(h) PROVE FlagInv(u)'
    OBVIOUS
  <2>1. /\ hpc'[h] = "idle" /\ Added(body[h].card, body[h].user, body[h].default)
        /\ blurred' = IF body[h].default THEN blurred \cup {body[h].user} ELSE blurred
    BY <1>0, InsertMethodEffect
  <2>2. ~(body[h].default /\ body[h].user = u)
    BY <2>1
  <2>3. \A d \in Docs : IsDefault(d, u)' => IsDefault(d, u)
    BY <2>1, <2>2 DEF Added, IsDefault
  <2>4. ~Flags(h, u)'
    BY <2>1 DEF Flags
  <2> QED
    BY <1>f, <1>o, <2>3, <2>4, FewerFlags
<1>8. ClearDefaults(h) => FlagInv(u)'
  <2> SUFFICES ASSUME ClearDefaults(h) PROVE FlagInv(u)'
    OBVIOUS
  <2>1. /\ hpc[h] = "clear" /\ hpc'[h] = "set" /\ body'[h] = body[h]
        /\ \A d \in Docs : /\ methods'[d].user = methods[d].user
                           /\ methods[d].user = body[h].user => ~methods'[d].default
                           /\ methods[d].user # body[h].user => methods'[d] = methods[d]
        /\ blurred' = IF Flagging(h) THEN blurred \cup {body[h].user} ELSE blurred
    BY <1>0, ClearDefaultsEffect
  <2>2. CASE body[h].user = u
    <3>1. ~Flagging(h)
      BY <2>1, <2>2
    <3>2. \A k \in Handlers \ {h} : ~Flags(k, u)'
      BY <1>o, <2>2, <3>1 DEF Flagging, Flags
    <3>3. \A d \in Docs : ~IsDefault(d, u)'
      BY <2>1, <2>2 DEF IsDefault
    <3> QED
      BY <3>2, <3>3 DEF FlagInv
  <2>3. CASE body[h].user # u
    <3>1. \A d \in Docs : IsDefault(d, u)' => IsDefault(d, u)
      BY <2>1, <2>3 DEF IsDefault
    <3>2. ~Flags(h, u)'
      BY <2>1, <2>3 DEF Flags
    <3> QED
      BY <1>f, <1>o, <3>1, <3>2, FewerFlags
  <2> QED
    BY <2>2, <2>3
<1>9. SetDefault(h) => FlagInv(u)'
  <2> SUFFICES ASSUME SetDefault(h) PROVE FlagInv(u)'
    OBVIOUS
  <2>1. /\ hpc[h] = "set" /\ hpc'[h] = "idle"
        /\ \/ UNCHANGED methods
           \/ \E d \in Docs : /\ methods[d].user = body[h].user /\ methods'[d].user = body[h].user
                              /\ methods'[d].default = body[h].default
                              /\ \A e \in Docs \ {d} : methods'[e] = methods[e]
    BY <1>0, SetDefaultEffect
  <2>2. ~Flags(h, u)'
    BY <2>1 DEF Flags
  <2>3. CASE UNCHANGED methods
    BY <1>f, <1>s, <2>1, <2>3
  <2>4. ASSUME NEW d \in Docs, methods[d].user = body[h].user, methods'[d].user = body[h].user,
               methods'[d].default = body[h].default, \A e \in Docs \ {d} : methods'[e] = methods[e]
        PROVE  FlagInv(u)'
    <3>1. CASE body[h].default /\ body[h].user = u
      <4>1. Flags(h, u)
        BY <2>1, <3>1 DEF Flags
      <4>2. (\A k \in Handlers \ {h} : ~Flags(k, u)) /\ (\A e \in Docs : ~IsDefault(e, u))
        BY <1>f, <4>1 DEF FlagInv
      <4>3. \A k \in Handlers : ~Flags(k, u)'
        BY <1>o, <2>2, <4>2
      <4>4. \A e \in Docs : IsDefault(e, u)' => e = d
        BY <2>4, <4>2 DEF IsDefault
      <4> QED
        BY <4>3, <4>4 DEF FlagInv
    <3>2. CASE ~(body[h].default /\ body[h].user = u)
      <4>1. \A e \in Docs : IsDefault(e, u)' => IsDefault(e, u)
        BY <2>4, <3>2 DEF IsDefault
      <4> QED
        BY <1>f, <1>o, <2>2, <4>1, FewerFlags
    <3> QED
      BY <3>1, <3>2
  <2> QED
    BY <2>1, <2>3, <2>4
<1>10. DeleteMethod(h) => FlagInv(u)'
  <2> SUFFICES ASSUME DeleteMethod(h) PROVE FlagInv(u)'
    OBVIOUS
  <2>1. /\ hpc'[h] \in {"idle", "first"}
        /\ hpc'[h] = "first" => body'[h] = body[h] /\ body[h].default
        /\ \/ UNCHANGED <<methods, blurred>> /\ hpc'[h] = "idle"
           \/ \E d \in Docs : /\ methods[d].user = body[h].user
                              /\ methods'[d] = NoDoc
                              /\ \A e \in Docs \ {d} : methods'[e] = methods[e]
                              /\ blurred' = IF body[h].default /\ ~methods[d].default
                                            THEN blurred \cup {body[h].user} ELSE blurred
    BY <1>0, DeleteMethodEffect
  <2>2. CASE UNCHANGED methods /\ hpc'[h] = "idle"
    BY <1>f, <1>s, <2>2
  <2>3. ASSUME NEW d \in Docs, methods[d].user = body[h].user, methods'[d] = NoDoc,
               \A e \in Docs \ {d} : methods'[e] = methods[e],
               blurred' = IF body[h].default /\ ~methods[d].default
                          THEN blurred \cup {body[h].user} ELSE blurred
        PROVE  FlagInv(u)'
    <3>1. \A e \in Docs : IsDefault(e, u)' => IsDefault(e, u) /\ e # d
      BY <2>3 DEF IsDefault, NoDoc
    <3>2. CASE hpc'[h] = "first" /\ body[h].user = u
      <4>1. IsDefault(d, u)
        BY <2>1, <2>3, <3>2 DEF IsDefault
      <4>2. (\A k \in Handlers : ~Flags(k, u)) /\ (\A e \in Docs : IsDefault(e, u) => e = d)
        BY <1>f, <4>1 DEF FlagInv
      <4>3. \A k \in Handlers \ {h} : ~Flags(k, u)'
        BY <1>o, <4>2
      <4>4. \A e \in Docs : ~IsDefault(e, u)'
        BY <3>1, <4>2
      <4> QED
        BY <4>3, <4>4 DEF FlagInv
    <3>3. CASE ~(hpc'[h] = "first" /\ body[h].user = u)
      <4>1. ~Flags(h, u)'
        BY <2>1, <3>3 DEF Flags
      <4> QED
        BY <1>f, <1>o, <3>1, <4>1, FewerFlags
    <3> QED
      BY <3>2, <3>3
  <2> QED
    BY <2>1, <2>2, <2>3
<1>11. FirstMethod(h) => FlagInv(u)'
  <2> SUFFICES ASSUME FirstMethod(h) PROVE FlagInv(u)'
    OBVIOUS
  <2>1. /\ hpc[h] = "first" /\ hpc'[h] \in {"idle", "set"} /\ UNCHANGED methods
        /\ hpc'[h] = "set" => body'[h].user = body[h].user /\ body'[h].default = body[h].default
    BY <1>0, FirstMethodEffect
  <2>2. Flags(h, u)' => Flags(h, u)
    BY <2>1 DEF Flags
  <2>3. \A d \in Docs : IsDefault(d, u)' => IsDefault(d, u)
    BY <2>1 DEF IsDefault
  <2> QED
    BY <1>f, <1>o, <2>2, <2>3, FewerFlags
<1>12. Abandon(h) => FlagInv(u)'
  <2>1. Abandon(h) => UNCHANGED methods /\ (hpc'[h] \notin {"set", "first"} \/ ~body'[h].default)
    BY <1>0, <1>n, AbandonEffect
  <2> QED
    BY <1>f, <2>1, <1>s
<1> QED
  BY <1>1, <1>2, <1>3, <1>4, <1>5, <1>6, <1>7, <1>8, <1>9, <1>10, <1>11, <1>12 DEF HandlerStep

LEMMA FlagKept ==
  ASSUME EnrollmentInv, EnrollmentNext, NEW u \in Users, u \notin blurred'
  PROVE  FlagInv(u)'
<1>0. EnrollmentTypeOK
  BY Parts
<1>1. ASSUME u \notin blurred, UNCHANGED <<hpc, body>>, \A d \in Docs : IsDefault(d, u)' => IsDefault(d, u)
      PROVE  FlagInv(u)'
  <2>1. FlagInv(u) /\ \A h \in Handlers : Flags(h, u)' => Flags(h, u)
    BY <1>1 DEF EnrollmentInv, Flags
  <2> QED
    BY <1>1, <2>1, FewerFlags
<1>2. ASSUME NEW f \in forms, Attempt(f) PROVE FlagInv(u)'
  BY <1>1, <1>2 DEF Attempt, handlerVars, dataVars, marks, IsDefault
<1>3. ASSUME NEW g \in Goroutines, Notify(g) PROVE FlagInv(u)'
  BY <1>1, <1>3 DEF Notify, handlerVars, dataVars, marks, IsDefault
<1>4. ASSUME NEW g \in Goroutines, JobStep(g) PROVE FlagInv(u)'
  <2>1. UNCHANGED <<hpc, body>> /\ u \notin blurred
    BY <1>0, <1>4, JobFrame
  <2>2. \A d \in Docs : IsDefault(d, u)' => IsDefault(d, u)
    <3>1. CASE UNCHANGED methods
      BY <3>1 DEF IsDefault
    <3>2. CASE InsertCard(g)
      <4>1. PICK c, v : c = note[g].card /\ v = copy[g].user
        OBVIOUS
      <4>2. Added(c, v, FALSE)
        BY <1>0, <3>2, <4>1, InsertCardEffect
      <4> QED
        BY <4>2 DEF Added, IsDefault
    <3>3. UNCHANGED methods \/ InsertCard(g)
      BY <1>4 DEF JobStep, GetOrder, CloseOrder, CheckCard, ReturnCharge, SendRefund, RefundGet,
                  RefundSave, TxRead, TxWrite, FailGet, FailClose, FailTx, Deadline, dataVars
    <3> QED
      BY <3>1, <3>2, <3>3
  <2> QED
    BY <1>1, <2>1, <2>2
<1> QED
  BY <1>2, <1>3, <1>4, HandlerFlags DEF EnrollmentNext

-----------------------------------------------------------------------------
(***************************************************************************)
(* Forms, notifications and copies agree with the order.                   *)
(***************************************************************************)
\* Only a request stores a new order.
LEMMA NewOrder ==
  ASSUME EnrollmentInv, EnrollmentNext, NEW n \in OrderNums, ~Stored(n), Stored(n)'
  PROVE  \E h \in Handlers : SaveOrder(h) /\ body[h].num = n
<1>0. /\ EnrollmentTypeOK /\ GatewayTypeOK /\ StoredInv /\ GatewayInv
      /\ (\A h \in Handlers : Holding(h)) /\ (\A g \in Goroutines : JobHolding(g))
  BY Parts
<1>1. ~UNCHANGED orders
  BY DEF Stored
<1>2. ASSUME NEW h \in Handlers, HandlerStep(h) PROVE SaveOrder(h) /\ body[h].num = n
  <2>1. ~NextOrder(h)
    BY <1>0, NextOrderEffect
  <2>2. SaveOrder(h)
    BY <1>0, <1>1, <1>2, <2>1, MethodFrame, PostOrderEffect, RepostOrderEffect, PostMethodEffect DEF HandlerStep
  <2>3. PICK m : m = body[h].num
    OBVIOUS
  <2>4. \A k \in OrderNums \ {m} : orders'[k] = orders[k]
    <3>1. \E r : orders' = [orders EXCEPT ![m] = r]
      BY <2>2, <2>3 DEF SaveOrder
    <3> QED
      BY <1>0, <3>1 DEF EnrollmentTypeOK
  <2> QED
    BY <2>2, <2>3, <2>4 DEF Stored
<1>3. ASSUME NEW g \in Goroutines, JobStep(g) PROVE FALSE
  <2>1. PICK m : m = note[g].num
    OBVIOUS
  <2>2. Stored(m)
    BY <1>0, <1>3, <2>1, JobFrame, NoteOfOrder
  <2>3. UNCHANGED orders \/ CloseOrder(g) \/ RefundSave(g) \/ FailClose(g)
    BY <1>3 DEF JobStep, GetOrder, CheckCard, InsertCard, ReturnCharge, SendRefund, RefundGet,
                TxRead, TxWrite, FailGet, FailTx, Deadline, dataVars
  <2>4. \A k \in OrderNums \ {m} : orders'[k] = orders[k]
    BY <1>0, <1>1, <2>1, <2>3, CloseOrderEffect, RefundSaveEffect, FailCloseEffect
  <2> QED
    BY <2>2, <2>4 DEF Stored
<1>4. ASSUME NEW f \in forms, Attempt(f) PROVE FALSE
  BY <1>1, <1>4 DEF Attempt, dataVars
<1>5. ASSUME NEW g \in Goroutines, Notify(g) PROVE FALSE
  BY <1>1, <1>5 DEF Notify, dataVars
<1> QED
  BY <1>2, <1>3, <1>4, <1>5 DEF EnrollmentNext

LEMMA JobCopy ==
  ASSUME EnrollmentInv, NEW g \in Goroutines, JobStep(g),
         gpc[g] \in Copied =>
           /\ copy[g].user = orders'[note[g].num].user
           /\ copy[g].tx = orders'[note[g].num].tx
           /\ note[g].num \in broken' \/ copy[g].amount = orders'[note[g].num].amount
  PROVE  CopyInv(g)'
<1>0. EnrollmentTypeOK /\ GatewayTypeOK /\ StoredInv /\ GatewayInv /\ JobHolding(g)
  BY Parts
<1>b. gpc[g] \in Copied =>
        /\ copy[g].user = orders'[note[g].num].user
        /\ copy[g].tx = orders'[note[g].num].tx
        /\ note[g].num \in broken' \/ copy[g].amount = orders'[note[g].num].amount
  OBVIOUS
<1>c. {"check", "insert", "return", "send", "txRead", "failClose"} \subseteq Copied
  BY DEF Copied, GoStates
<1>i. gpc'[g] \in {"idle", "failGet"} => CopyInv(g)'
  BY DEF CopyInv, Copied
<1>n. PICK n : n = note[g].num
  OBVIOUS
<1>p. PICK c, u, t : c = note[g].card /\ u = copy[g].user /\ t = copy[g].tx
  OBVIOUS
<1>1. GetOrder(g) => CopyInv(g)'
  <2>1. GetOrder(g) => copy'[g] = orders[n] /\ UNCHANGED <<orders, note>>
    BY <1>0, <1>c, <1>p, <1>n, GetOrderEffect
  <2> QED
    BY <1>b, <1>i, <1>n, <2>1 DEF CopyInv
<1>2. CloseOrder(g) => CopyInv(g)'
  <2>1. CloseOrder(g) => orders'[n] = copy'[g] /\ UNCHANGED note
    BY <1>0, <1>c, <1>p, <1>n, CloseOrderEffect
  <2> QED
    BY <1>b, <1>i, <1>n, <2>1 DEF CopyInv
<1>3. CheckCard(g) => CopyInv(g)'
  <2>1. CheckCard(g) => gpc[g] \in Copied /\ UNCHANGED <<note, copy>>
    BY <1>0, <1>c, <1>p, <1>n, CheckCardEffect
  <2> QED
    BY <1>b, <2>1 DEF CopyInv
<1>4. InsertCard(g) => CopyInv(g)'
  <2>1. InsertCard(g) => gpc[g] \in Copied /\ UNCHANGED <<note, copy>>
    BY <1>0, <1>c, <1>p, <1>n, InsertCardEffect
  <2> QED
    BY <1>b, <2>1 DEF CopyInv
<1>5. ReturnCharge(g) => CopyInv(g)'
  <2>1. ReturnCharge(g) => gpc'[g] = "idle" \/ (gpc[g] \in Copied /\ UNCHANGED <<note, copy>>)
    BY <1>0, <1>c, <1>p, <1>n, ReturnChargeEffect
  <2> QED
    BY <1>b, <1>i, <1>n, <2>1 DEF CopyInv
<1>6. SendRefund(g) => CopyInv(g)'
  <2>1. SendRefund(g) => gpc'[g] \in {"idle", "failGet"} \/ (gpc[g] \in Copied /\ UNCHANGED <<note, copy>>)
    BY <1>0, <1>c, <1>p, <1>n, SendRefundEffect
  <2> QED
    BY <1>b, <1>i, <1>n, <2>1 DEF CopyInv
<1>7. RefundGet(g) => CopyInv(g)'
  <2>1. RefundGet(g) => /\ copy'[g].user = orders[n].user /\ copy'[g].tx = orders[n].tx
                        /\ copy'[g].amount = orders[n].amount /\ UNCHANGED <<orders, note>>
    BY <1>0, <1>c, <1>p, <1>n, RefundGetEffect
  <2> QED
    BY <1>b, <1>i, <1>n, <2>1 DEF CopyInv
<1>8. RefundSave(g) => CopyInv(g)'
  BY <1>0, <1>i, <1>n, <1>p, RefundSaveEffect
<1>9. TxRead(g) => CopyInv(g)'
  <2>1. TxRead(g) => gpc[g] \in Copied /\ UNCHANGED <<note, copy>>
    BY <1>0, <1>c, <1>p, <1>n, TxReadEffect
  <2> QED
    BY <1>b, <2>1 DEF CopyInv
<1>10. TxWrite(g) => CopyInv(g)'
  BY <1>0, <1>i, <1>n, <1>p, TxWriteEffect
<1>11. FailGet(g) => CopyInv(g)'
  <2>1. FailGet(g) => copy'[g] = orders[n] /\ UNCHANGED <<orders, note>>
    BY <1>0, <1>c, <1>p, <1>n, FailGetEffect
  <2> QED
    BY <1>b, <1>i, <1>n, <2>1 DEF CopyInv
<1>12. FailClose(g) => CopyInv(g)'
  <2>1. FailClose(g) => gpc'[g] = "idle" \/ (gpc[g] \in Copied /\ UNCHANGED <<note, copy>>)
    BY <1>0, <1>c, <1>p, <1>n, FailCloseEffect
  <2> QED
    BY <1>b, <1>i, <1>n, <2>1 DEF CopyInv
<1>13. FailTx(g) => CopyInv(g)'
  BY <1>0, <1>i, <1>n, <1>p, FailTxEffect
<1>14. Deadline(g) => CopyInv(g)'
  BY <1>0, <1>i, <1>n, <1>p, DeadlineEffect
<1> QED
  BY <1>1, <1>2, <1>3, <1>4, <1>5, <1>6, <1>7, <1>8, <1>9, <1>10, <1>11, <1>12, <1>13, <1>14 DEF JobStep

LEMMA AgreeKept ==
  ASSUME EnrollmentInv, EnrollmentNext, mixed' = {}
  PROVE  AgreeInv'
<1>0. /\ EnrollmentTypeOK /\ GatewayTypeOK /\ StoredInv /\ GatewayInv /\ OrdersKept
      /\ (\A h \in Handlers : Holding(h)) /\ (\A g \in Goroutines : JobHolding(g))
  BY Parts, OrdersStay
<1>a. AgreeInv /\ mixed = {}
  BY <1>0, Parts DEF OrdersKept
<1>b. broken \subseteq broken'
  BY <1>0 DEF OrdersKept
<1>s. \A n \in OrderNums : Stored(n) => SameOrderAt(n) /\ Stored(n)'
  BY <1>0 DEF OrdersKept
\* What was written down before.
<1>f. \A f \in forms : orders'[f[2]].user = f[1] /\ (f[2] \in broken' \/ orders'[f[2]].amount = f[3])
  <2>1. \A f \in forms : f[2] \in OrderNums /\ Stored(f[2])
    BY <1>0 DEF GatewayTypeOK, GatewayInv
  <2> QED
    BY <1>a, <1>b, <1>s, <2>1 DEF AgreeInv, SameOrderAt
<1>m. \A m \in sent : /\ m.approved => orders'[m.num].user = HolderOf[m.card]
                      /\ m.num \in broken' \/ orders'[m.num].amount = m.amount
  <2>1. \A m \in sent : m.num \in OrderNums /\ Stored(m.num)
    BY <1>0 DEF GatewayInv
  <2> QED
    BY <1>a, <1>b, <1>s, <2>1 DEF AgreeInv, SameOrderAt
<1>g. ASSUME NEW g \in Goroutines, gpc[g] \in Copied
      PROVE  /\ copy[g].user = orders'[note[g].num].user
             /\ copy[g].tx = orders'[note[g].num].tx
             /\ note[g].num \in broken' \/ copy[g].amount = orders'[note[g].num].amount
  <2>1. note[g].num \in OrderNums /\ Stored(note[g].num)
    BY <1>0, <1>g, NoteOfOrder DEF Copied
  <2>2. CopyInv(g)
    BY <1>a DEF AgreeInv
  <2> QED
    BY <1>b, <1>g, <1>s, <2>1, <2>2 DEF CopyInv, SameOrderAt
<1>h. ASSUME NEW h \in Handlers, hpc[h] = "save", Stored(body[h].num)
      PROVE  orders'[body[h].num].user = body[h].user /\ orders'[body[h].num].tx = body[h].tx
  <2>1. body[h].num \in OrderNums /\ SaveInv(h)
    BY <1>0, <1>a, <1>h DEF Holding, AgreeInv
  <2> QED
    BY <1>h, <1>s, <2>1 DEF SaveInv, SameOrderAt
<1>t. \A n \in OrderNums : Stored(n) => n \in broken' \/ orders'[n].tx = NoTx \/ orders'[n].amount = Charge
  BY <1>a, <1>b, <1>s DEF AgreeInv, SameOrderAt
<1>1. \A n \in OrderNums : n \in broken' \/ orders'[n].tx = NoTx \/ orders'[n].amount = Charge
  <2> SUFFICES ASSUME NEW n \in OrderNums
               PROVE  n \in broken' \/ orders'[n].tx = NoTx \/ orders'[n].amount = Charge
    OBVIOUS
  <2>1. CASE Stored(n)
    BY <1>t, <2>1
  <2>2. CASE ~Stored(n)'
    BY <2>2 DEF Stored, NoOrder
  <2>3. CASE ~Stored(n) /\ Stored(n)'
    <3>1. PICK h \in Handlers : SaveOrder(h) /\ body[h].num = n
      BY <2>3, NewOrder
    <3>2. hpc[h] = "save" /\ orders'[n].tx = body[h].tx /\ orders'[n].amount = body[h].amount
      BY <1>0, <3>1, SaveOrderEffect
    <3>3. body[h].tx = NoTx \/ body[h].amount = Charge
      BY <1>0, <2>3, <3>1, <3>2 DEF Holding
    <3> QED
      BY <3>2, <3>3
  <2> QED
    BY <2>1, <2>2, <2>3
<1>2. \A f \in forms' : orders'[f[2]].user = f[1] /\ (f[2] \in broken' \/ orders'[f[2]].amount = f[3])
  <2>1. CASE UNCHANGED forms
    BY <1>f, <2>1
  <2>2. ASSUME NEW h \in Handlers, SaveOrder(h)
        PROVE  \A f \in forms' : orders'[f[2]].user = f[1] /\ (f[2] \in broken' \/ orders'[f[2]].amount = f[3])
    <3>1. PICK n : n = body[h].num
      OBVIOUS
    <3>2. /\ forms' = forms \cup {<<body[h].user, n, body[h].amount>>}
          /\ orders'[n].user = body[h].user /\ orders'[n].amount = body[h].amount
      BY <1>0, <2>2, <3>1, SaveOrderEffect
    <3> QED
      BY <1>f, <3>2
  <2>3. UNCHANGED forms \/ \E h \in Handlers : SaveOrder(h)
    <3>1. ASSUME NEW h \in Handlers, HandlerStep(h), ~SaveOrder(h) PROVE UNCHANGED forms
      BY <3>1, MethodFrame DEF HandlerStep, PostOrder, RepostOrder, PostMethod, NextOrder, Request, gatewayVars
    <3>2. ASSUME NEW g \in Goroutines, JobStep(g) PROVE UNCHANGED forms
      BY <1>0, <3>2, JobFrame
    <3>3. ASSUME NEW f \in forms, Attempt(f) PROVE UNCHANGED forms
      BY <3>3 DEF Attempt
    <3>4. ASSUME NEW g \in Goroutines, Notify(g) PROVE UNCHANGED forms
      BY <3>4 DEF Notify
    <3> QED
      BY <3>1, <3>2, <3>3, <3>4 DEF EnrollmentNext
  <2> QED
    BY <2>1, <2>2, <2>3
<1>3. \A m \in sent' : /\ m.approved => orders'[m.num].user = HolderOf[m.card]
                       /\ m.num \in broken' \/ orders'[m.num].amount = m.amount
  <2>1. CASE UNCHANGED sent
    BY <1>m, <2>1
  <2>2. ASSUME NEW f \in forms, Attempt(f)
        PROVE  \A m \in sent' : /\ m.approved => orders'[m.num].user = HolderOf[m.card]
                                /\ m.num \in broken' \/ orders'[m.num].amount = m.amount
    <3>1. PICK n : n = f[2]
      OBVIOUS
    <3>2. PICK m \in Note : /\ sent' = sent \cup {m} /\ m.num = n /\ m.amount = f[3]
                            /\ m.approved => m.card \in Cards /\ HolderOf[m.card] = f[1] /\ taken'[n] = f[3]
      BY <1>0, <2>2, <3>1, AttemptEffect
    <3>3. orders'[n].user = f[1] /\ (n \in broken' \/ orders'[n].amount = f[3])
      BY <1>f, <3>1
    <3> QED
      BY <1>m, <3>2, <3>3
  <2>3. UNCHANGED sent \/ \E f \in forms : Attempt(f)
    <3>1. ASSUME NEW h \in Handlers, HandlerStep(h) PROVE UNCHANGED sent
      BY <1>0, <3>1, HandlerFrame
    <3>2. ASSUME NEW g \in Goroutines, JobStep(g) PROVE UNCHANGED sent
      BY <1>0, <3>2, JobFrame
    <3>3. ASSUME NEW g \in Goroutines, Notify(g) PROVE UNCHANGED sent
      BY <3>3 DEF Notify
    <3> QED
      BY <3>1, <3>2, <3>3 DEF EnrollmentNext
  <2> QED
    BY <2>1, <2>2, <2>3
<1>4. ASSUME NEW k \in Goroutines PROVE CopyInv(k)'
  <2>1. CASE gpc'[k] = gpc[k] /\ note'[k] = note[k] /\ copy'[k] = copy[k]
    BY <1>g, <2>1 DEF CopyInv
  <2>2. ASSUME NEW h \in Handlers, HandlerStep(h) PROVE CopyInv(k)'
    BY <1>0, <2>1, <2>2, HandlerFrame DEF goVars
  <2>3. ASSUME NEW f \in forms, Attempt(f) PROVE CopyInv(k)'
    BY <2>1, <2>3 DEF Attempt, goVars
  <2>4. ASSUME NEW g \in Goroutines, Notify(g) PROVE CopyInv(k)'
    <3>1. OtherJobs(g) /\ gpc'[g] \in {"get", "failGet"}
      BY <1>0, <2>4, NotifyEffect
    <3>2. CASE k = g
      BY <3>1, <3>2 DEF CopyInv, Copied
    <3>3. CASE k # g
      BY <2>1, <3>1, <3>3 DEF OtherJobs
    <3> QED
      BY <3>2, <3>3
  <2>5. ASSUME NEW g \in Goroutines, JobStep(g) PROVE CopyInv(k)'
    <3>1. CASE k = g
      BY <1>g, <2>5, <3>1, JobCopy
    <3>2. CASE k # g
      BY <2>1, <2>5, <3>2, JobTypes DEF OtherJobs
    <3> QED
      BY <3>1, <3>2
  <2> QED
    BY <2>2, <2>3, <2>4, <2>5 DEF EnrollmentNext
<1>5. ASSUME NEW k \in Handlers PROVE SaveInv(k)'
  <2> SUFFICES ASSUME hpc'[k] = "save" PROVE SaveInv(k)'
    BY DEF SaveInv
  <2>1. PICK n : n = body'[k].num
    OBVIOUS
  <2>2. SaveInv(k)' <=> IF Stored(n)'
                        THEN orders'[n].user = body'[k].user /\ orders'[n].tx = body'[k].tx
                        ELSE \A j \in Handlers : hpc'[j] = "save" /\ body'[j].num = n => j = k
    BY <2>1 DEF SaveInv, Stored
  \* The number was its own before.
  <2>3. ASSUME hpc[k] = "save", body'[k] = body[k],
               \A j \in Handlers : hpc'[j] = "save" /\ body'[j].num = n /\ ~Stored(n)' =>
                                    hpc[j] = "save" /\ body[j].num = n,
               \A h \in Handlers : SaveOrder(h) => h # k
        PROVE  SaveInv(k)'
    <3>1. n \in OrderNums /\ SaveInv(k)
      BY <1>0, <1>a, <2>1, <2>3 DEF Holding, AgreeInv
    <3>2. CASE Stored(n)
      BY <1>h, <1>s, <2>1, <2>2, <2>3, <3>1, <3>2
    <3>3. CASE ~Stored(n) /\ Stored(n)'
      <4>1. PICK h \in Handlers : SaveOrder(h) /\ body[h].num = n
        BY <3>1, <3>3, NewOrder
      <4>2. hpc[h] = "save"
        BY <4>1 DEF SaveOrder
      <4>3. h = k
        BY <2>1, <2>3, <3>1, <3>3, <4>1, <4>2 DEF SaveInv
      <4> QED
        BY <2>3, <4>1, <4>3
    <3>4. CASE ~Stored(n) /\ ~Stored(n)'
      BY <2>1, <2>2, <2>3, <3>1, <3>4 DEF SaveInv
    <3> QED
      BY <3>2, <3>3, <3>4
  <2>4. ASSUME UNCHANGED <<hpc, body>>, \A h \in Handlers : ~SaveOrder(h) PROVE SaveInv(k)'
    BY <2>3, <2>4
  <2>5. ASSUME NEW f \in forms, Attempt(f) PROVE SaveInv(k)'
    <3>1. UNCHANGED <<hpc, body>> /\ UNCHANGED orders
      BY <2>5 DEF Attempt, handlerVars, dataVars
    <3>2. \A h \in Handlers : ~SaveOrder(h)
      BY <1>0, <3>1 DEF SaveOrder, Answer, EnrollmentTypeOK
    <3> QED
      BY <2>4, <3>1, <3>2
  <2>6. ASSUME NEW g \in Goroutines, Notify(g) \/ JobStep(g) PROVE SaveInv(k)'
    <3>1. UNCHANGED <<hpc, body>>
      BY <1>0, <2>6, JobFrame DEF Notify, handlerVars
    <3>2. \A h \in Handlers : ~SaveOrder(h)
      BY <1>0, <3>1 DEF SaveOrder, Answer, EnrollmentTypeOK
    <3> QED
      BY <2>4, <3>1, <3>2
  <2>7. ASSUME NEW h \in Handlers, HandlerStep(h) PROVE SaveInv(k)'
    <3>0. Others(h)
      BY <1>0, <2>7, HandlerFrame
    <3>1. hpc'[h] = "save" => RepostOrder(h) \/ NextOrder(h)
      <4>1. PICK m : m = body[h].num
        OBVIOUS
      <4>2. Holding(h)
        BY <1>0
      <4>3. PostOrder(h) \/ PostMethod(h) \/ Abandon(h) => hpc'[h] # "save"
        BY <1>0, PostOrderEffect, PostMethodEffect, AbandonEffect
      <4>4. SaveOrder(h) => hpc'[h] # "save"
        BY <1>0, <4>1, <4>2, SaveOrderEffect
      <4>5. CheckMethod(h) \/ InsertMethod(h) \/ DeleteMethod(h) => hpc'[h] # "save"
        BY <1>0, CheckMethodEffect, InsertMethodEffect, DeleteMethodEffect
      <4>6. ClearDefaults(h) \/ SetDefault(h) \/ FirstMethod(h) => hpc'[h] # "save"
        BY <1>0, <4>2, ClearDefaultsEffect, SetDefaultEffect, FirstMethodEffect
      <4> QED
        BY <2>7, <4>3, <4>4, <4>5, <4>6 DEF HandlerStep
    <3>2. RepostOrder(h) => /\ body'[h].num \in OrderNums /\ Stored(body'[h].num) /\ UNCHANGED orders
                            /\ orders[body'[h].num].user = body'[h].user /\ orders[body'[h].num].tx = body'[h].tx
      BY <1>0, RepostOrderEffect
    <3>3. NextOrder(h) => /\ body'[h].num \in OrderNums /\ ~Stored(body'[h].num)
                          /\ \A m \in OrderNums : Stored(m)' <=> Stored(m)
                          /\ \A j \in Handlers \ {h} : ~(hpc[j] = "save" /\ body[j].num = body'[h].num)
      BY <1>0, NextOrderEffect
    <3>4. CASE k = h
      <4>1. CASE RepostOrder(h)
        <5>1. Stored(n)'
          BY <2>1, <3>2, <3>4, <4>1 DEF Stored
        <5> QED
          BY <2>1, <2>2, <3>2, <3>4, <4>1, <5>1
      <4>2. CASE NextOrder(h)
        <5>1. ~Stored(n)'
          BY <2>1, <3>3, <3>4, <4>2
        <5>2. \A j \in Handlers : hpc'[j] = "save" /\ body'[j].num = n => j = k
          BY <2>1, <3>0, <3>3, <3>4, <4>2 DEF Others
        <5> QED
          BY <2>2, <5>1, <5>2
      <4> QED
        BY <3>1, <3>4, <4>1, <4>2
    <3>5. CASE k # h
      <4>1. hpc[k] = "save" /\ body'[k] = body[k]
        BY <3>0, <3>5 DEF Others
      <4>2. \A j \in Handlers : SaveOrder(j) => j # k
        <5>1. ASSUME SaveOrder(k) PROVE FALSE
          <6>1. Answer(k, "save")
            BY <5>1 DEF SaveOrder
          <6>2. hpc'[k] = "idle"
            BY <1>0, <6>1, Answers
          <6> QED
            BY <6>2
        <5> QED
          BY <5>1
      <4>3. ASSUME NEW j \in Handlers, hpc'[j] = "save", body'[j].num = n, ~Stored(n)'
            PROVE  hpc[j] = "save" /\ body[j].num = n
        <5>1. CASE j # h
          BY <3>0, <4>3, <5>1 DEF Others
        <5>2. CASE j = h
          <6>1. ~RepostOrder(h)
            BY <3>2, <4>3, <5>2 DEF Stored
          <6>2. ~NextOrder(h)
            BY <2>1, <3>3, <3>5, <4>1, <4>3, <5>2
          <6> QED
            BY <3>1, <4>3, <5>2, <6>1, <6>2
        <5> QED
          BY <5>1, <5>2
      <4> QED
        BY <2>3, <4>1, <4>2, <4>3
    <3> QED
      BY <3>4, <3>5
  <2> QED
    BY <2>5, <2>6, <2>7 DEF EnrollmentNext
<1> QED
  BY <1>1, <1>2, <1>3, <1>4, <1>5 DEF AgreeInv

-----------------------------------------------------------------------------
(***************************************************************************)
(* Refunds: a goroutine that works on an approval makes at most one.       *)
(***************************************************************************)
\* What a step of a goroutine does to its work on an order.
Works(g) == UNCHANGED refunds /\ (gpc[g] \in Working <=> gpc'[g] \in Working) /\ (gpc[g] \in Working => note'[g] = note[g])
Leaves(g, n) ==
  /\ gpc[g] \in Working /\ gpc'[g] \notin Working
  /\ refunds'[n] \in {refunds[n], refunds[n] + 1}
  /\ \A m \in OrderNums \ {n} : refunds'[m] = refunds[m]

LEMMA JobWork ==
  ASSUME EnrollmentInv, NEW g \in Goroutines, JobStep(g), NEW n, n = note[g].num
  PROVE  Works(g) \/ Leaves(g, n)
<1>0. EnrollmentTypeOK /\ GatewayTypeOK /\ StoredInv /\ GatewayInv /\ JobHolding(g)
  BY Parts
<1>w. \A s : s \in Working <=> s \in {"get", "close", "check", "insert", "return", "send", "txRead", "txWrite"}
  BY DEF Working
<1>l. gpc[g] \in Working /\ gpc'[g] = "idle" /\ UNCHANGED refunds => Leaves(g, n)
  BY <1>w DEF Leaves
<1>i. gpc[g] \notin Working /\ gpc'[g] \notin Working /\ UNCHANGED refunds => Works(g)
  BY DEF Works
<1>p. PICK c, u, t : c = note[g].card /\ u = copy[g].user /\ t = copy[g].tx
  OBVIOUS
<1>1. GetOrder(g) => Works(g) \/ Leaves(g, n)
  BY <1>0, <1>w, <1>p, GetOrderEffect DEF Works
<1>2. CloseOrder(g) => Works(g) \/ Leaves(g, n)
  BY <1>0, <1>w, <1>p, CloseOrderEffect DEF Works
<1>3. CheckCard(g) => Works(g) \/ Leaves(g, n)
  BY <1>0, <1>w, <1>p, CheckCardEffect DEF Works
<1>4. InsertCard(g) => Works(g) \/ Leaves(g, n)
  BY <1>0, <1>w, <1>p, InsertCardEffect DEF Works
<1>5. ReturnCharge(g) => Works(g) \/ Leaves(g, n)
  <2>1. ReturnCharge(g) => gpc[g] = "return" /\ UNCHANGED refunds /\ (gpc'[g] = "idle" \/ (gpc'[g] = "send" /\ UNCHANGED note))
    BY <1>0, ReturnChargeEffect
  <2> QED
    BY <1>l, <1>w, <2>1 DEF Works
<1>6. SendRefund(g) => Works(g) \/ Leaves(g, n)
  BY <1>0, <1>w, SendRefundEffect DEF Leaves
<1>7. RefundGet(g) => Works(g) \/ Leaves(g, n)
  <2>1. RefundGet(g) => gpc[g] = "refGet" /\ gpc'[g] = "refSave" /\ UNCHANGED refunds
    BY <1>0, <1>p, RefundGetEffect
  <2> QED
    BY <1>i, <1>w, <2>1
<1>8. RefundSave(g) => Works(g) \/ Leaves(g, n)
  <2>1. RefundSave(g) => gpc[g] = "refSave" /\ gpc'[g] = "idle" /\ UNCHANGED refunds
    BY <1>0, <1>p, RefundSaveEffect
  <2> QED
    BY <1>i, <1>w, <2>1
<1>9. TxRead(g) => Works(g) \/ Leaves(g, n)
  BY <1>0, <1>w, <1>p, TxReadEffect DEF Works
<1>10. TxWrite(g) => Works(g) \/ Leaves(g, n)
  <2>1. TxWrite(g) => gpc[g] = "txWrite" /\ gpc'[g] = "idle" /\ UNCHANGED refunds
    BY <1>0, <1>p, TxWriteEffect
  <2> QED
    BY <1>l, <1>w, <2>1
<1>11. FailGet(g) => Works(g) \/ Leaves(g, n)
  <2>1. FailGet(g) => gpc[g] = "failGet" /\ gpc'[g] = "failClose" /\ UNCHANGED refunds
    BY <1>0, <1>p, FailGetEffect
  <2> QED
    BY <1>i, <1>w, <2>1
<1>12. FailClose(g) => Works(g) \/ Leaves(g, n)
  <2>1. FailClose(g) => gpc[g] = "failClose" /\ gpc'[g] \in {"idle", "failTx"} /\ UNCHANGED refunds
    BY <1>0, FailCloseEffect
  <2> QED
    BY <1>i, <1>w, <2>1
<1>13. FailTx(g) => Works(g) \/ Leaves(g, n)
  <2>1. FailTx(g) => gpc[g] = "failTx" /\ gpc'[g] = "idle" /\ UNCHANGED refunds
    BY <1>0, <1>p, FailTxEffect
  <2> QED
    BY <1>i, <1>w, <2>1
<1>14. Deadline(g) => Works(g) \/ Leaves(g, n)
  <2>1. Deadline(g) => gpc'[g] = "idle" /\ UNCHANGED refunds
    BY <1>0, DeadlineEffect
  <2> QED
    BY <1>i, <1>l, <1>w, <2>1
<1> QED
  BY <1>1, <1>2, <1>3, <1>4, <1>5, <1>6, <1>7, <1>8, <1>9, <1>10, <1>11, <1>12, <1>13, <1>14 DEF JobStep

LEMMA JobSets ==
  ASSUME EnrollmentInv, NEW g \in Goroutines, JobStep(g), NEW n, n = note[g].num
  PROVE  /\ n \in OrderNums
         /\ \A m \in OrderNums \ {n} : Jobs(m)' = Jobs(m) /\ refunds'[m] = refunds[m]
         /\ \/ Jobs(n)' = Jobs(n) /\ UNCHANGED refunds
            \/ g \in Jobs(n) /\ Jobs(n)' = Jobs(n) \ {g} /\ refunds'[n] \in {refunds[n], refunds[n] + 1}
<1>1. n \in OrderNums
  BY Parts, JobFrame, NoteOfOrder
<1>2. OtherJobs(g)
  BY JobTypes
<1>3. CASE Works(g)
  BY <1>1, <1>2, <1>3 DEF Works, OtherJobs, Jobs
<1>4. CASE Leaves(g, n)
  BY <1>1, <1>2, <1>4 DEF Leaves, OtherJobs, Jobs
<1> QED
  BY <1>1, <1>3, <1>4, JobWork

\* A notification of an approval adds a goroutine and a delivery.
LEMMA NotifySets ==
  ASSUME EnrollmentInv, NEW g \in Goroutines, Notify(g), NEW n, n = note'[g].num
  PROVE  /\ n \in OrderNums /\ UNCHANGED refunds
         /\ \A m \in OrderNums \ {n} : Jobs(m)' = Jobs(m) /\ Told(m)' = Told(m)
         /\ \/ Jobs(n)' = Jobs(n) /\ Told(n)' = Told(n)
            \/ g \notin Jobs(n) /\ Jobs(n)' = Jobs(n) \cup {g} /\ Told(n)' = Told(n) + 1
<1>1. EnrollmentTypeOK /\ GatewayTypeOK /\ GatewayInv
  BY Parts
<1>2. /\ gpc[g] = "idle" /\ n \in OrderNums /\ OtherJobs(g) /\ UNCHANGED refunds
      /\ gpc'[g] = IF note'[g].approved THEN "get" ELSE "failGet"
      /\ Told(n)' = IF note'[g].approved THEN Told(n) + 1 ELSE Told(n)
      /\ \A m \in OrderNums \ {n} : Told(m)' = Told(m)
  BY <1>1, NotifyEffect
<1>3. gpc[g] \notin Working /\ "get" \in Working /\ "failGet" \notin Working
  BY <1>2 DEF Working
<1>4. \A m \in OrderNums \ {n} : Jobs(m)' = Jobs(m)
  BY <1>2, <1>3 DEF Jobs, OtherJobs
<1>5. CASE note'[g].approved
  <2>1. gpc'[g] \in Working
    BY <1>2, <1>3, <1>5
  <2>2. g \notin Jobs(n) /\ Jobs(n)' = Jobs(n) \cup {g}
    BY <1>2, <1>3, <2>1 DEF Jobs, OtherJobs
  <2> QED
    BY <1>2, <1>4, <1>5, <2>2
<1>6. CASE ~note'[g].approved
  <2>1. gpc'[g] \notin Working
    BY <1>2, <1>3, <1>6
  <2>2. Jobs(n)' = Jobs(n)
    BY <1>2, <1>3, <2>1 DEF Jobs, OtherJobs
  <2> QED
    BY <1>2, <1>4, <1>6, <2>2
<1> QED
  BY <1>5, <1>6

LEMMA RefundKept ==
  ASSUME EnrollmentInv, EnrollmentNext
  PROVE  RefundInv'
<1>0. EnrollmentTypeOK /\ GatewayTypeOK /\ RefundInv
  BY Parts DEF EnrollmentInv
<1>t. \A m \in OrderNums : Told(m) \in Nat /\ refunds[m] \in Nat
  <2>1. \A m \in OrderNums : Told(m) \in Nat
    BY <1>0, Zenon DEF GatewayTypeOK, Told
  <2> QED
    BY <1>0, <2>1 DEF GatewayTypeOK
<1>s. \A m \in OrderNums : Jobs(m)' = Jobs(m) /\ refunds'[m] = refunds[m] /\ Told(m)' = Told(m) =>
        IsFiniteSet(Jobs(m)') /\ Cardinality(Jobs(m)') + refunds'[m] <= Told(m)'
  BY <1>0 DEF RefundInv
<1>q. (\A m \in OrderNums : IsFiniteSet(Jobs(m)') /\ Cardinality(Jobs(m)') + refunds'[m] <= Told(m)') => RefundInv'
  BY DEF RefundInv
<1>1. ASSUME NEW h \in Handlers, HandlerStep(h) PROVE RefundInv'
  <2>1. UNCHANGED <<goVars, deliveries, refunds>>
    BY <1>0, <1>1, HandlerFrame
  <2>2. \A m \in OrderNums : Jobs(m)' = Jobs(m) /\ Told(m)' = Told(m)
    BY <2>1 DEF goVars, Jobs, Told
  <2> QED
    BY <1>s, <1>q, <2>1, <2>2
<1>2. ASSUME NEW f \in forms, Attempt(f) PROVE RefundInv'
  <2>1. UNCHANGED <<goVars, deliveries, refunds>>
    BY <1>2 DEF Attempt
  <2>2. \A m \in OrderNums : Jobs(m)' = Jobs(m) /\ Told(m)' = Told(m)
    BY <2>1 DEF goVars, Jobs, Told
  <2> QED
    BY <1>s, <1>q, <2>1, <2>2
<1>3. ASSUME NEW g \in Goroutines, Notify(g) PROVE RefundInv'
  <2>1. PICK n : n = note'[g].num
    OBVIOUS
  <2>2. /\ n \in OrderNums /\ UNCHANGED refunds
        /\ \A m \in OrderNums \ {n} : Jobs(m)' = Jobs(m) /\ Told(m)' = Told(m)
        /\ \/ Jobs(n)' = Jobs(n) /\ Told(n)' = Told(n)
           \/ g \notin Jobs(n) /\ Jobs(n)' = Jobs(n) \cup {g} /\ Told(n)' = Told(n) + 1
    BY <1>3, <2>1, NotifySets
  <2>3. IsFiniteSet(Jobs(n)) /\ Cardinality(Jobs(n)) \in Nat /\ Cardinality(Jobs(n)) + refunds[n] <= Told(n)
    BY <1>0, <2>2, FS_CardinalityType DEF RefundInv
  <2>4. CASE g \notin Jobs(n) /\ Jobs(n)' = Jobs(n) \cup {g} /\ Told(n)' = Told(n) + 1
    <3>1. IsFiniteSet(Jobs(n) \cup {g}) /\ Cardinality(Jobs(n) \cup {g}) = Cardinality(Jobs(n)) + 1
      BY <2>3, <2>4, FS_AddElement
    <3>2. IsFiniteSet(Jobs(n)') /\ Cardinality(Jobs(n)') = Cardinality(Jobs(n)) + 1
      BY <2>4, <3>1
    <3>3. Cardinality(Jobs(n)') + refunds'[n] <= Told(n)'
      BY <1>t, <2>2, <2>3, <2>4, <3>2
    <3> QED
      BY <1>s, <1>q, <2>2, <3>2, <3>3
  <2> QED
    BY <1>s, <1>q, <2>2, <2>4
<1>4. ASSUME NEW g \in Goroutines, JobStep(g) PROVE RefundInv'
  <2>1. PICK n : n = note[g].num
    OBVIOUS
  <2>2. /\ n \in OrderNums
        /\ \A m \in OrderNums \ {n} : Jobs(m)' = Jobs(m) /\ refunds'[m] = refunds[m]
        /\ \/ Jobs(n)' = Jobs(n) /\ UNCHANGED refunds
           \/ g \in Jobs(n) /\ Jobs(n)' = Jobs(n) \ {g} /\ refunds'[n] \in {refunds[n], refunds[n] + 1}
    BY <1>4, <2>1, JobSets
  <2>5. \A m \in OrderNums : Told(m)' = Told(m)
    BY <1>0, <1>4, JobFrame DEF Told
  <2>3. IsFiniteSet(Jobs(n)) /\ Cardinality(Jobs(n)) \in Nat /\ Cardinality(Jobs(n)) + refunds[n] <= Told(n)
    BY <1>0, <2>2, FS_CardinalityType DEF RefundInv
  <2>4. CASE g \in Jobs(n) /\ Jobs(n)' = Jobs(n) \ {g} /\ refunds'[n] \in {refunds[n], refunds[n] + 1}
    <3>1. IsFiniteSet(Jobs(n) \ {g}) /\ Cardinality(Jobs(n) \ {g}) = Cardinality(Jobs(n)) - 1
      BY <2>3, <2>4, FS_RemoveElement
    <3>2. IsFiniteSet(Jobs(n)') /\ Cardinality(Jobs(n)') = Cardinality(Jobs(n)) - 1
      BY <2>4, <3>1
    <3>3. Cardinality(Jobs(n)') + refunds'[n] <= Told(n)'
      BY <1>t, <2>2, <2>3, <2>4, <2>5, <3>2
    <3> QED
      BY <1>s, <1>q, <2>2, <2>5, <3>2, <3>3
  <2> QED
    BY <1>s, <1>q, <2>2, <2>4, <2>5
<1> QED
  BY <1>1, <1>2, <1>3, <1>4 DEF EnrollmentNext

-----------------------------------------------------------------------------
(***************************************************************************)
(* The charge is returned: a goroutine that leaves an approval without a   *)
(* refund leaves a failed order, or it wrote to a transaction.             *)
(***************************************************************************)
LEMMA LeavesWhere ==
  ASSUME EnrollmentInv, NEW g \in Goroutines, JobStep(g), NEW n, n = note[g].num, Leaves(g, n)
  PROVE  \/ refunds'[n] > 0 \/ n \in broken' \/ TxWrite(g)
         \/ gpc[g] = "return" /\ (copy[g].amount = 0 \/ orders[n].amount < copy[g].amount)
<1>0. EnrollmentTypeOK /\ GatewayTypeOK /\ StoredInv /\ GatewayInv /\ JobHolding(g)
  BY Parts
<1>1. gpc[g] \in Working /\ gpc'[g] \notin Working
  BY DEF Leaves
<1>w. \A s : s \in Working <=> s \in {"get", "close", "check", "insert", "return", "send", "txRead", "txWrite"}
  BY DEF Working
<1>p. PICK c, u, t : c = note[g].card /\ u = copy[g].user /\ t = copy[g].tx
  OBVIOUS
<1>2. ~GetOrder(g) /\ ~CloseOrder(g)
  BY <1>0, <1>1, <1>w, GetOrderEffect, CloseOrderEffect
<1>3. ~CheckCard(g) /\ ~InsertCard(g) /\ ~TxRead(g)
  BY <1>0, <1>1, <1>w, <1>p, CheckCardEffect, InsertCardEffect, TxReadEffect
<1>4. ~RefundGet(g) /\ ~RefundSave(g) /\ ~FailGet(g) /\ ~FailClose(g) /\ ~FailTx(g)
  BY <1>1, <1>w DEF RefundGet, RefundSave, FailGet, FailClose, FailTx, Step
<1>5. SendRefund(g) => refunds'[n] > 0 \/ n \in broken'
  BY <1>0, SendRefundEffect
<1>6. Deadline(g) => n \in broken'
  BY <1>0, DeadlineEffect
<1>7. ReturnCharge(g) => gpc[g] = "return" /\ (copy[g].amount = 0 \/ orders[n].amount < copy[g].amount)
  BY <1>0, <1>1, <1>w, ReturnChargeEffect
<1> QED
  BY <1>2, <1>3, <1>4, <1>5, <1>6, <1>7 DEF JobStep

\* The server is told of orders it has stored.
LEMMA ToldOfStored ==
  ASSUME GatewayInv, NEW n \in OrderNums, Told(n) > 0
  PROVE  Stored(n) /\ \E m \in sent : m.approved /\ m.num = n
BY DEF GatewayInv

LEMMA ReturnKept ==
  ASSUME EnrollmentInv, EnrollmentNext
  PROVE  ReturnInv'
<1> SUFFICES ASSUME NEW n \in OrderNums, Told(n)' > 0, taken'[n] > 0, orders'[n].tx = NoTx, n \notin broken', mixed' = {}
             PROVE  refunds'[n] > 0 \/ Jobs(n)' # {}
  BY DEF ReturnInv
<1>0. EnrollmentTypeOK /\ GatewayTypeOK /\ StoredInv /\ GatewayInv /\ ReturnInv /\ RefundInv /\ OrdersKept
  BY Parts, OrdersStay DEF EnrollmentInv
<1>1. mixed = {} /\ n \notin broken /\ AgreeInv
  BY <1>0, Parts DEF OrdersKept
<1>2. Told(n) > 0 => orders[n].tx = NoTx
  <2>1. Told(n) > 0 => Stored(n)
    BY <1>0, ToldOfStored
  <2> QED
    BY <1>0, <2>1 DEF OrdersKept, SameOrderAt
<1>3. Told(n) > 0 /\ taken[n] > 0 => refunds[n] > 0 \/ Jobs(n) # {}
  BY <1>0, <1>1, <1>2 DEF ReturnInv
<1>4. ASSUME NEW h \in Handlers, HandlerStep(h) PROVE refunds'[n] > 0 \/ Jobs(n)' # {}
  <2>1. UNCHANGED <<goVars, deliveries, refunds, taken>>
    BY <1>0, <1>4, HandlerFrame
  <2>2. Jobs(n)' = Jobs(n) /\ Told(n)' = Told(n)
    BY <2>1 DEF goVars, Jobs, Told
  <2> QED
    BY <1>3, <2>1, <2>2
<1>5. ASSUME NEW f \in forms, Attempt(f) PROVE refunds'[n] > 0 \/ Jobs(n)' # {}
  <2>1. UNCHANGED <<goVars, deliveries, refunds>>
    BY <1>5 DEF Attempt
  <2>2. Jobs(n)' = Jobs(n) /\ Told(n)' = Told(n)
    BY <2>1 DEF goVars, Jobs, Told
  <2>3. PICK k : k = f[2]
    OBVIOUS
  <2>4. /\ \A m \in sent : ~(m.num = k /\ m.approved)
        /\ \A j \in OrderNums \ {k} : taken'[j] = taken[j]
    BY <1>0, <1>5, <2>3, AttemptEffect
  <2>5. n # k
    BY <1>0, <2>2, <2>4, ToldOfStored
  <2> QED
    BY <1>3, <2>1, <2>2, <2>4, <2>5
<1>6. ASSUME NEW g \in Goroutines, Notify(g) PROVE refunds'[n] > 0 \/ Jobs(n)' # {}
  <2>1. PICK k : k = note'[g].num
    OBVIOUS
  <2>2. \/ Jobs(n)' = Jobs(n) /\ Told(n)' = Told(n)
        \/ Jobs(n)' = Jobs(n) \cup {g}
    BY <1>6, <2>1, NotifySets
  <2>3. UNCHANGED <<taken, refunds>>
    BY <1>6 DEF Notify
  <2> QED
    BY <1>3, <2>2, <2>3
<1>7. ASSUME NEW g \in Goroutines, JobStep(g) PROVE refunds'[n] > 0 \/ Jobs(n)' # {}
  <2>1. PICK k : k = note[g].num
    OBVIOUS
  <2>2. Told(n)' = Told(n) /\ taken'[n] = taken[n]
    BY <1>0, <1>7, JobFrame DEF Told
  <2>3. CASE n = k /\ Leaves(g, n)
    <3>1. /\ note[g] \in sent /\ note[g].approved /\ CopyInv(g)
          /\ gpc[g] \in {"txWrite", "return"} => gpc[g] \in Copied
          /\ gpc[g] = "txWrite" => copy[g].tx \in Tx
      BY <1>1, <2>3, Parts DEF JobHolding, Approved, Working, Leaves, AgreeInv, Copied, GoStates
    <3>2. gpc[g] \in Copied => /\ copy[g].tx = orders[n].tx
                               /\ copy[g].amount = orders[n].amount
      BY <1>1, <2>1, <2>3, <3>1 DEF CopyInv
    <3>3. orders[n].amount = note[g].amount /\ taken[n] = note[g].amount
      BY <1>0, <1>1, <2>1, <2>3, <3>1 DEF AgreeInv, GatewayInv
    <3>4. orders[n].tx = NoTx /\ taken[n] > 0 /\ orders[n].amount \in Nat
      BY <1>0, <1>2, <2>2 DEF EnrollmentTypeOK, OrderDoc
    <3>5. ~(gpc[g] = "return" /\ (copy[g].amount = 0 \/ orders[n].amount < copy[g].amount))
      BY <3>1, <3>2, <3>3, <3>4
    <3>6. ~TxWrite(g)
      BY <3>1, <3>2, <3>4, EnrollmentAssumption DEF TxWrite
    <3> QED
      BY <1>7, <2>1, <2>3, <3>5, <3>6, LeavesWhere
  <2>4. CASE ~(n = k /\ Leaves(g, n))
    <3>1. Jobs(n)' = Jobs(n) /\ refunds'[n] = refunds[n]
      <4>1. CASE n = k
        <5>1. Works(g) /\ OtherJobs(g)
          BY <1>7, <2>1, <2>4, <4>1, JobWork, JobTypes
        <5> QED
          BY <2>1, <4>1, <5>1 DEF Works, OtherJobs, Jobs
      <4>2. CASE n # k
        BY <1>7, <2>1, <4>2, JobSets
      <4> QED
        BY <4>1, <4>2
    <3> QED
      BY <1>3, <2>2, <3>1
  <2> QED
    BY <2>3, <2>4
<1> QED
  BY <1>4, <1>5, <1>6, <1>7 DEF EnrollmentNext

-----------------------------------------------------------------------------
(***************************************************************************)
(* Billing: every settled order accounts for one charge of its transaction.*)
(***************************************************************************)
LEMMA MoreCharges ==
  ASSUME NEW a \in Nat, NEW b \in Nat, NEW c \in Nat
  PROVE  /\ a <= b => c * a <= c * b
         /\ c * (a + 1) = c * a + c
         /\ c * a \in Nat
<1>1. c * (a + 1) = c * a + c /\ c * a \in Nat
  OBVIOUS
<1>2. ASSUME a <= b PROVE c * a <= c * b
  <2>1. PICK d \in Nat : b = a + d
    <3>1. b - a \in Nat /\ b = a + (b - a)
      BY <1>2
    <3> QED
      BY <3>1
  <2>2. c * (a + d) = c * a + c * d /\ c * d \in Nat
    OBVIOUS
  <2> QED
    BY <1>1, <2>1, <2>2
<1> QED
  BY <1>1, <1>2

\* A delivery is counted for good, and without one no goroutine starts.
LEMMA ToldGrows ==
  ASSUME EnrollmentInv, EnrollmentNext, NEW n \in OrderNums
  PROVE  /\ Told(n) \in Nat /\ Told(n)' \in Nat /\ Told(n) <= Told(n)'
         /\ Told(n)' = Told(n) => Jobs(n)' \subseteq Jobs(n)
<1>0. EnrollmentTypeOK /\ GatewayTypeOK /\ GatewayTypeOK'
  BY Parts, TypesKept
<1>1. Told(n) \in Nat /\ Told(n)' \in Nat
  <2>1. TRUE \in BOOLEAN
    OBVIOUS
  <2> QED
    BY <1>0, <2>1, Zenon DEF GatewayTypeOK, Told
<1>2. ASSUME NEW h \in Handlers, HandlerStep(h) PROVE Told(n)' = Told(n) /\ Jobs(n)' = Jobs(n)
  BY <1>0, <1>2, HandlerFrame DEF goVars, Jobs, Told
<1>3. ASSUME NEW f \in forms, Attempt(f) PROVE Told(n)' = Told(n) /\ Jobs(n)' = Jobs(n)
  BY <1>3 DEF Attempt, goVars, Jobs, Told
<1>4. ASSUME NEW g \in Goroutines, Notify(g)
      PROVE  (Told(n)' = Told(n) /\ Jobs(n)' = Jobs(n)) \/ Told(n)' = Told(n) + 1
  <2>1. PICK k : k = note'[g].num
    OBVIOUS
  <2> QED
    BY <1>4, <2>1, NotifySets
<1>5. ASSUME NEW g \in Goroutines, JobStep(g) PROVE Told(n)' = Told(n) /\ Jobs(n)' \subseteq Jobs(n)
  <2>1. PICK k : k = note[g].num
    OBVIOUS
  <2>2. Jobs(n)' \subseteq Jobs(n)
    BY <1>5, <2>1, JobSets
  <2>3. Told(n)' = Told(n)
    BY <1>0, <1>5, JobFrame DEF Told
  <2> QED
    BY <2>2, <2>3
<1>6. (Told(n)' = Told(n) /\ Jobs(n)' \subseteq Jobs(n)) \/ Told(n)' = Told(n) + 1
  BY <1>2, <1>3, <1>4, <1>5 DEF EnrollmentNext
<1> QED
  BY <1>1, <1>6

LEMMA SettledFinite ==
  ASSUME NEW S, S \subseteq OrderNums
  PROVE  IsFiniteSet(S) /\ Cardinality(S) \in Nat /\ \A T \in SUBSET S : Cardinality(T) <= Cardinality(S)
<1>1. IsFiniteSet(OrderNums)
  BY FS_Interval, EnrollmentAssumption DEF OrderNums
<1>2. IsFiniteSet(S)
  BY <1>1, FS_Subset
<1> QED
  BY <1>2, FS_CardinalityType, FS_Subset

\* What is clean after a step was clean before it; the settled orders stay.
LEMMA SettledStay ==
  ASSUME EnrollmentInv, EnrollmentNext, NEW t \in Tx, mixed' = {}, Clean(t)'
  PROVE  /\ mixed = {} /\ Clean(t) /\ Settled(t) \subseteq Settled(t)'
         /\ \A n \in OrderNums : orders[n].tx = t => orders'[n].tx = t /\ n \notin broken' /\ Told(n)' <= 1
<1>0. OrdersKept /\ mixed = {} /\ broken \subseteq broken'
  BY OrdersStay DEF OrdersKept
<1>1. ASSUME NEW n \in OrderNums, orders[n].tx = t
      PROVE  orders'[n].tx = t /\ n \notin broken' /\ Told(n)' <= 1
  <2>1. Stored(n)
    BY <1>1, EnrollmentAssumption DEF Stored, NoOrder
  <2>2. orders'[n].tx = t
    BY <1>0, <1>1, <2>1 DEF OrdersKept, SameOrderAt
  <2> QED
    BY <2>2 DEF Clean
<1>2. ASSUME NEW n \in OrderNums, orders[n].tx = t PROVE n \notin broken /\ Told(n) <= 1
  BY <1>0, <1>1, <1>2, ToldGrows
<1>3. ASSUME NEW n \in Settled(t) PROVE n \in Settled(t)'
  <2>1. n \in OrderNums /\ orders[n].tx = t /\ Told(n) = 1 /\ Jobs(n) = {}
    BY <1>3 DEF Settled
  <2>2. Told(n)' = 1
    BY <1>1, <2>1, ToldGrows
  <2>3. Jobs(n)' = {}
    BY <2>1, <2>2, ToldGrows
  <2> QED
    BY <1>1, <2>1, <2>2, <2>3 DEF Settled
<1> QED
  BY <1>0, <1>1, <1>2, <1>3 DEF Clean

\* Who writes transactions, and who reads them.
LEMMA JobTxs ==
  ASSUME EnrollmentInv, NEW g \in Goroutines, JobStep(g)
  PROVE  /\ UNCHANGED txs \/ TxWrite(g) \/ FailTx(g)
         /\ gpc'[g] = "txWrite" => TxRead(g)
<1>0. EnrollmentTypeOK /\ GatewayTypeOK /\ StoredInv /\ GatewayInv /\ JobHolding(g)
  BY Parts
<1>p. PICK c, u, t, n : c = note[g].card /\ u = copy[g].user /\ t = copy[g].tx /\ n = note[g].num
  OBVIOUS
<1>1. UNCHANGED txs \/ TxWrite(g) \/ FailTx(g)
  BY DEF JobStep, GetOrder, CloseOrder, CheckCard, InsertCard, ReturnCharge, SendRefund, RefundGet,
         RefundSave, TxRead, FailGet, FailClose, Deadline, dataVars
<1>2. GetOrder(g) \/ CloseOrder(g) \/ CheckCard(g) \/ InsertCard(g) => gpc'[g] # "txWrite"
  BY <1>0, <1>p, GetOrderEffect, CloseOrderEffect, CheckCardEffect, InsertCardEffect
<1>3. ReturnCharge(g) \/ SendRefund(g) \/ RefundGet(g) \/ RefundSave(g) => gpc'[g] # "txWrite"
  BY <1>0, <1>p, ReturnChargeEffect, SendRefundEffect, RefundGetEffect, RefundSaveEffect
<1>4. TxWrite(g) \/ FailGet(g) \/ FailClose(g) => gpc'[g] # "txWrite"
  BY <1>0, <1>p, TxWriteEffect, FailGetEffect, FailCloseEffect
<1>5. FailTx(g) \/ Deadline(g) => gpc'[g] # "txWrite"
  BY <1>0, <1>p, FailTxEffect, DeadlineEffect
<1> QED
  BY <1>1, <1>2, <1>3, <1>4, <1>5 DEF JobStep

\* The write settles the order of the notification and adds its charge.
LEMMA WriteSettles ==
  ASSUME EnrollmentInv, EnrollmentNext, NEW t \in Tx, mixed' = {}, Clean(t)',
         NEW g \in Goroutines, JobStep(g), TxWrite(g), copy[g].tx = t
  PROVE  /\ copy[g].amount = Charge
         /\ \E n \in Settled(t)' : n \notin Settled(t)
<1>0. EnrollmentTypeOK /\ GatewayTypeOK /\ GatewayInv /\ JobHolding(g) /\ RefundInv /\ mixed = {} /\ Clean(t) /\ AgreeInv
  BY Parts, SettledStay DEF EnrollmentInv
<1>1. PICK n : n = note[g].num
  OBVIOUS
<1>2. gpc[g] = "txWrite" /\ gpc'[g] = "idle" /\ n \in OrderNums
  BY <1>0, <1>1, TxWriteEffect, NoteOfOrder
<1>3. CopyInv(g) /\ gpc[g] \in Copied /\ gpc[g] \in Working /\ gpc'[g] \notin Working
  BY <1>0, <1>2 DEF AgreeInv, Copied, GoStates, Working
<1>4. orders[n].tx = t
  BY <1>1, <1>3 DEF CopyInv
<1>5. orders'[n].tx = t /\ n \notin broken /\ Told(n) <= 1 /\ Told(n)' <= 1
  BY <1>0, <1>2, <1>4, SettledStay DEF Clean
<1>6. copy[g].amount = Charge
  <2>1. copy[g].amount = orders[n].amount
    BY <1>1, <1>3, <1>5 DEF CopyInv
  <2>2. orders[n].amount = Charge
    BY <1>0, <1>2, <1>4, <1>5, EnrollmentAssumption DEF AgreeInv
  <2> QED
    BY <2>1, <2>2
<1>7. g \in Jobs(n)
  BY <1>1, <1>3 DEF Jobs
<1>8. Jobs(n) = {g} /\ Told(n) = 1
  <2>1. IsFiniteSet(Jobs(n)) /\ Cardinality(Jobs(n)) + refunds[n] <= Told(n) /\ refunds[n] \in Nat /\ Told(n) \in Nat
    BY <1>0, <1>2, ToldGrows DEF RefundInv, GatewayTypeOK
  <2>2. IsFiniteSet(Jobs(n) \ {g}) /\ Cardinality(Jobs(n) \ {g}) = Cardinality(Jobs(n)) - 1
    BY <1>7, <2>1, FS_RemoveElement
  <2>3. Cardinality(Jobs(n) \ {g}) \in Nat /\ Cardinality(Jobs(n)) \in Nat
    BY <2>1, <2>2, FS_CardinalityType
  <2>4. Cardinality(Jobs(n) \ {g}) = 0 /\ Told(n) = 1
    BY <1>5, <2>1, <2>2, <2>3
  <2>5. Jobs(n) \ {g} = {}
    BY <2>2, <2>4, FS_EmptySet
  <2> QED
    BY <1>7, <2>4, <2>5
<1>9. Told(n)' = 1
  BY <1>2, <1>5, <1>8, ToldGrows
<1>10. Jobs(n)' = {}
  <2>1. Jobs(n)' \subseteq {g}
    BY <1>2, <1>8, <1>9, ToldGrows
  <2>2. g \notin Jobs(n)'
    BY <1>3 DEF Jobs
  <2> QED
    BY <2>1, <2>2
<1>11. n \in Settled(t)'
  BY <1>2, <1>5, <1>9, <1>10 DEF Settled
<1>12. n \notin Settled(t)
  BY <1>7 DEF Settled
<1> QED
  BY <1>6, <1>11, <1>12

LEMMA BillKept ==
  ASSUME EnrollmentInv, EnrollmentNext, NEW t \in Tx, mixed' = {}, Clean(t)'
  PROVE  BillInv(t)'
<1> DEFINE K == Cardinality(Settled(t))
           L == Cardinality(Settled(t)')
<1>0. EnrollmentTypeOK /\ GatewayTypeOK /\ StoredInv /\ GatewayInv /\ mixed = {} /\ Clean(t) /\ AgreeInv
  BY Parts, SettledStay
<1>1. BillInv(t)
  BY <1>0 DEF EnrollmentInv
<1>2. K \in Nat /\ L \in Nat /\ K <= L /\ IsFiniteSet(Settled(t)')
  <2>1. Settled(t) \subseteq Settled(t)' /\ Settled(t)' \subseteq OrderNums
    BY SettledStay DEF Settled
  <2> QED
    BY <2>1, SettledFinite
<1>3. Charge \in Nat /\ Charge * K \in Nat /\ Charge * L \in Nat /\ Charge * K <= Charge * L
  <2>1. Charge \in Nat
    BY EnrollmentAssumption
  <2> HIDE DEF K, L
  <2> QED
    BY <1>2, <2>1, MoreCharges
<1>4. \A k \in Goroutines : tcopy[k].billed \in Nat /\ copy[k].amount \in Nat
  BY <1>0 DEF EnrollmentTypeOK, TxDoc, OrderDoc
<1>5. txs[t].billed \in Nat /\ txs[t].billed <= Charge * K
  BY <1>0, <1>1 DEF EnrollmentTypeOK, TxDoc, BillInv
<1>6. \A k \in Goroutines : gpc[k] = "txWrite" /\ copy[k].tx = t => tcopy[k].billed <= Charge * K
  BY <1>1 DEF BillInv
<1>7. ASSUME txs'[t].billed <= Charge * L,
             \A k \in Goroutines : gpc'[k] = "txWrite" /\ copy'[k].tx = t => tcopy'[k].billed <= Charge * L
      PROVE  BillInv(t)'
  BY <1>7 DEF BillInv
<1> HIDE DEF K, L
<1>8. txs[t].billed <= Charge * L /\ \A k \in Goroutines : gpc[k] = "txWrite" /\ copy[k].tx = t => tcopy[k].billed <= Charge * L
  BY <1>3, <1>4, <1>5, <1>6
<1>9. CASE UNCHANGED <<txs, goVars>>
  BY <1>7, <1>8, <1>9 DEF goVars
<1>10. ASSUME NEW h \in Handlers, HandlerStep(h) PROVE BillInv(t)'
  BY <1>0, <1>9, <1>10, HandlerFrame
<1>11. ASSUME NEW f \in forms, Attempt(f) PROVE BillInv(t)'
  BY <1>9, <1>11 DEF Attempt, dataVars
<1>12. ASSUME NEW g \in Goroutines, Notify(g) PROVE BillInv(t)'
  <2>1. OtherJobs(g) /\ gpc'[g] \in {"get", "failGet"}
    BY <1>0, <1>12, NotifyEffect
  <2>2. UNCHANGED txs
    BY <1>12 DEF Notify, dataVars
  <2>3. \A k \in Goroutines : gpc'[k] = "txWrite" => gpc[k] = "txWrite" /\ copy'[k] = copy[k] /\ tcopy'[k] = tcopy[k]
    BY <2>1 DEF OtherJobs
  <2> QED
    BY <1>7, <1>8, <2>2, <2>3
<1>13. ASSUME NEW g \in Goroutines, JobStep(g) PROVE BillInv(t)'
  <2>0. OtherJobs(g) /\ JobHolding(g)
    BY <1>13, JobTypes, Parts
  <2>1. ASSUME NEW k \in Goroutines, gpc'[k] = "txWrite", copy'[k].tx = t PROVE tcopy'[k].billed <= Charge * L
    <3>1. CASE k # g
      BY <1>8, <2>0, <2>1, <3>1 DEF OtherJobs
    <3>2. CASE k = g
      <4>1. TxRead(g)
        BY <1>13, <2>1, <3>2, JobTxs
      <4>2. tcopy'[g] = txs[copy[g].tx] /\ copy'[g] = copy[g]
        BY <1>0, <2>0, <4>1, TxReadEffect
      <4> QED
        BY <1>8, <2>1, <3>2, <4>2
    <3> QED
      BY <3>1, <3>2
  <2>2. txs'[t].billed <= Charge * L
    <3>1. CASE UNCHANGED txs
      BY <1>8, <3>1
    <3>2. CASE TxWrite(g)
      <4>1. PICK s : s = copy[g].tx
        OBVIOUS
      <4>2. /\ gpc[g] = "txWrite" /\ txs'[s].billed = tcopy[g].billed + copy[g].amount
            /\ \A r \in Tx \ {s} : txs'[r] = txs[r]
        BY <1>0, <2>0, <3>2, <4>1, TxWriteEffect
      <4>3. CASE s = t
        <5>1. copy[g].amount = Charge /\ \E n \in Settled(t)' : n \notin Settled(t)
          BY <1>13, <3>2, <4>1, <4>3, WriteSettles
        <5>2. PICK n \in Settled(t)' : n \notin Settled(t)
          BY <5>1
        <5>3. K + 1 <= L
          <6>1. Settled(t) \subseteq Settled(t)' \ {n}
            BY <5>2, SettledStay
          <6>2. IsFiniteSet(Settled(t)' \ {n}) /\ Cardinality(Settled(t)' \ {n}) = L - 1
            BY <1>2, <5>2, FS_RemoveElement DEF L
          <6>3. Cardinality(Settled(t)) <= Cardinality(Settled(t)' \ {n})
            BY <6>1, <6>2, FS_Subset
          <6>4. K <= L - 1
            BY <6>2, <6>3 DEF K
          <6> QED
            BY <1>2, <6>4
        <5>4. Charge * (K + 1) = Charge * K + Charge
          BY <1>2, <1>3, MoreCharges
        <5>5. Charge * (K + 1) <= Charge * L
          BY <1>2, <1>3, <5>3, MoreCharges
        <5>6. tcopy[g].billed <= Charge * K
          BY <1>6, <4>1, <4>2, <4>3
        <5> QED
          BY <1>3, <1>4, <4>2, <4>3, <5>1, <5>4, <5>5, <5>6
      <4>4. CASE s # t
        BY <1>8, <4>2, <4>4
      <4> QED
        BY <4>3, <4>4
    <3>3. CASE FailTx(g)
      <4>1. PICK s, n : s = copy[g].tx /\ n = note[g].num
        OBVIOUS
      <4>2. /\ gpc[g] = "failTx"
            /\ \A r \in Tx \ {s} : txs'[r] = txs[r]
            /\ \A m \in OrderNums : orders[m].tx = s => m \in broken'
        BY <1>0, <2>0, <3>3, <4>1, FailTxEffect
      <4>3. n \in OrderNums /\ orders[n].tx = s
        <5>1. CopyInv(g) /\ gpc[g] \in Copied
          BY <1>0, <4>2 DEF AgreeInv, Copied, GoStates
        <5> QED
          BY <1>0, <2>0, <4>1, <4>2, <5>1, NoteOfOrder DEF CopyInv
      <4>4. s # t
        BY <4>2, <4>3, SettledStay
      <4> QED
        BY <1>8, <4>2, <4>4
    <3> QED
      BY <1>13, <3>1, <3>2, <3>3, JobTxs
  <2> QED
    BY <1>7, <2>1, <2>2
<1> QED
  BY <1>10, <1>11, <1>12, <1>13 DEF EnrollmentNext

-----------------------------------------------------------------------------
(***************************************************************************)
(* The invariant, and what it says.                                        *)
(***************************************************************************)
LEMMA InvKept == ASSUME EnrollmentInv, EnrollmentNext PROVE EnrollmentInv'
<1>1. EnrollmentTypeOK' /\ GatewayTypeOK' /\ StoredInv' /\ GatewayInv'
  BY TypesKept, EnrolledKept, GatewayKept
<1>2. (\A h \in Handlers : Holding(h)') /\ (\A g \in Goroutines : JobHolding(g)')
  BY HoldingsKept
<1>3. mixed' = {} => AgreeInv'
  BY AgreeKept
<1>4. EnrolledForPayer' /\ OneDocPerCard'
  BY EnrolledKept, OneDocKept
<1>5. \A c \in Cards \ twins', u \in Users : InsertInv(c, u)'
  BY InsertKept
<1>6. \A u \in Users \ blurred' : FlagInv(u)'
  BY FlagKept
<1>7. RefundInv' /\ ReturnInv'
  BY RefundKept, ReturnKept
<1>8. \A t \in Tx : mixed' = {} /\ Clean(t)' => BillInv(t)'
  BY BillKept
<1> QED
  BY <1>1, <1>2, <1>3, <1>4, <1>5, <1>6, <1>7, <1>8 DEF EnrollmentInv

\* A step that changes nothing.
LEMMA InvSame == ASSUME EnrollmentInv, UNCHANGED enrollmentVars PROVE EnrollmentInv'
<1>0. /\ UNCHANGED <<orders, methods, txs, hpc, body, gpc, note, copy, tcopy>>
      /\ UNCHANGED <<forms, sent, deliveries, taken, refunds, mixed, twins, blurred, broken>>
  BY DEF enrollmentVars, dataVars, handlerVars, goVars, gatewayVars, marks
<1>1. EnrollmentTypeOK' /\ GatewayTypeOK' /\ StoredInv'
  BY <1>0 DEF EnrollmentInv, EnrollmentTypeOK, GatewayTypeOK, StoredInv, Stored
<1>2. \A n \in OrderNums : Told(n)' = Told(n) /\ Jobs(n)' = Jobs(n) /\ (Stored(n)' <=> Stored(n))
  BY <1>0 DEF Told, Jobs, Stored
<1>3. GatewayInv'
  BY <1>0, <1>2 DEF EnrollmentInv, GatewayInv, Stored
<1>4. (\A h \in Handlers : Holding(h)') /\ (\A g \in Goroutines : JobHolding(g)')
  BY <1>0 DEF EnrollmentInv, Holding, JobHolding, Stored
<1>5. mixed' = {} => AgreeInv'
  BY <1>0 DEF EnrollmentInv, AgreeInv, SaveInv, CopyInv, Stored
<1>6. EnrolledForPayer' /\ OneDocPerCard'
  BY <1>0 DEF EnrollmentInv, EnrolledForPayer, OneDocPerCard
<1>7. \A c \in Cards \ twins', u \in Users : InsertInv(c, u)'
  BY <1>0 DEF EnrollmentInv, InsertInv, Inserting, HandlerInserts, JobInserts
<1>8. \A u \in Users \ blurred' : FlagInv(u)'
  BY <1>0 DEF EnrollmentInv, FlagInv, Flags, IsDefault
<1>9. RefundInv' /\ ReturnInv'
  BY <1>0, <1>2 DEF EnrollmentInv, RefundInv, ReturnInv
<1>10. \A t \in Tx : mixed' = {} /\ Clean(t)' => BillInv(t)'
  <2>1. \A t \in Tx : (Clean(t)' <=> Clean(t)) /\ Settled(t)' = Settled(t)
    BY <1>0, <1>2 DEF Clean, Settled
  <2> QED
    BY <1>0, <2>1 DEF EnrollmentInv, BillInv
<1> QED
  BY <1>1, <1>3, <1>4, <1>5, <1>6, <1>7, <1>8, <1>9, <1>10 DEF EnrollmentInv

(***************************************************************************)
(* The inductive invariant: what the collections, the requests, the        *)
(* goroutines of Notify and the gateway know of an order agree.            *)
(***************************************************************************)
THEOREM EnrollmentInvariant == EnrollmentSpec => []EnrollmentInv
<1>1. EnrollmentInit => EnrollmentInv
  BY InitialInv
<1>2. EnrollmentInv /\ [EnrollmentNext]_enrollmentVars => EnrollmentInv'
  BY InvKept, InvSame
<1> QED
  BY <1>1, <1>2, PTL DEF EnrollmentSpec

\* Types of the collections and of what SetOrder, the payment method handlers
\* and processPaymentResponse hold.
THEOREM EnrollmentTypeCorrect == EnrollmentSpec => []EnrollmentTypeOK
<1>1. EnrollmentInv => EnrollmentTypeOK
  BY DEF EnrollmentInv
<1> QED
  BY <1>1, EnrollmentInvariant, PTL

(***************************************************************************)
(* processPaymentResponse stores a card for the user who entered it,       *)
(* although the notification names only the order, unless nextOrderNumber  *)
(* gave one number to two requests.                                        *)
(***************************************************************************)
THEOREM CardsOfTheirPayer == EnrollmentSpec => []EnrolledForPayer
<1>1. EnrollmentInv => EnrolledForPayer
  BY DEF EnrollmentInv
<1> QED
  BY <1>1, EnrollmentInvariant, PTL

(***************************************************************************)
(* SavePaymentMethod stores a card of a user once, unless two processes    *)
(* were between its check and its insert with the card.                    *)
(***************************************************************************)
THEOREM CardsStoredOnce == EnrollmentSpec => []OneDocPerCard
<1>1. EnrollmentInv => OneDocPerCard
  BY DEF EnrollmentInv
<1> QED
  BY <1>1, EnrollmentInvariant, PTL

(***************************************************************************)
(* UpdatePaymentMethod and DeletePaymentMethod leave a user at most one    *)
(* default card, unless two requests changed the flags at once or one sent *)
(* a flag that was not the stored one.                                     *)
(***************************************************************************)
THEOREM DefaultIsUnique == EnrollmentSpec => []OneDefault
<1>1. ASSUME EnrollmentInv, NEW u \in Users \ blurred
      PROVE  Cardinality({d \in DocsOf(u) : methods[d].default}) <= 1
  <2> DEFINE D == {d \in DocsOf(u) : methods[d].default}
  <2>1. \A d, e \in D : d = e
    <3>1. \A d, e \in Docs : IsDefault(d, u) /\ IsDefault(e, u) => d = e
      BY <1>1 DEF EnrollmentInv, FlagInv
    <3> QED
      BY <3>1 DEF IsDefault, DocsOf
  <2> HIDE DEF D
  <2>2. D = {} => Cardinality(D) = 0
    BY FS_EmptySet
  <2>3. D # {} => Cardinality(D) = 1
    <3> SUFFICES ASSUME D # {} PROVE Cardinality(D) = 1
      OBVIOUS
    <3>1. PICK d : d \in D
      OBVIOUS
    <3>2. D = {d}
      BY <2>1, <3>1
    <3> QED
      BY <3>2, FS_Singleton
  <2>4. Cardinality(D) <= 1
    BY <2>2, <2>3
  <2> QED
    BY <2>4 DEF D
<1>2. EnrollmentInv => OneDefault
  BY <1>1 DEF OneDefault
<1> QED
  BY <1>2, EnrollmentInvariant, PTL

(***************************************************************************)
(* Notify and processPaymentResponse: the gateway refunds the charge of an *)
(* enrollment at most once per delivered approval; the answer to a refund, *)
(* which takes the same way, starts no other.                              *)
(***************************************************************************)
THEOREM RefundsAreBounded == EnrollmentSpec => []OneRefundPerNotification
<1>1. ASSUME EnrollmentInv, NEW n \in OrderNums PROVE refunds[n] <= Told(n)
  <2>1. IsFiniteSet(Jobs(n)) /\ Cardinality(Jobs(n)) + refunds[n] <= Told(n) /\ refunds[n] \in Nat
    BY <1>1 DEF EnrollmentInv, RefundInv, GatewayTypeOK
  <2>2. Cardinality(Jobs(n)) \in Nat
    BY <2>1, FS_CardinalityType
  <2>3. Told(n) \in Nat
    BY <1>1, Zenon DEF EnrollmentInv, GatewayTypeOK, Told
  <2> QED
    BY <2>1, <2>2, <2>3
<1>2. EnrollmentInv => OneRefundPerNotification
  BY <1>1 DEF OneRefundPerNotification, Told
<1> QED
  BY <1>2, EnrollmentInvariant, PTL

(***************************************************************************)
(* An approved enrollment that the server was told of ends with its charge *)
(* returned, whatever attempts were declined before, unless a step of its  *)
(* processing failed, the order was sent again, or its number was given    *)
(* away twice.                                                             *)
(***************************************************************************)
THEOREM ChargesAreReturned == EnrollmentSpec => []ChargeReturned
<1>1. ASSUME EnrollmentInv, NEW n \in OrderNums, Told(n) > 0, taken[n] > 0, orders[n].tx = NoTx,
             \A g \in Goroutines : note[g].num # n
      PROVE  refunds[n] > 0 \/ n \in broken \/ mixed # {}
  <2>1. Jobs(n) = {}
    BY <1>1 DEF Jobs
  <2> QED
    BY <1>1, <2>1 DEF EnrollmentInv, ReturnInv
<1>2. EnrollmentInv => ChargeReturned
  BY <1>1 DEF ChargeReturned, Told
<1> QED
  BY <1>2, EnrollmentInvariant, PTL

(***************************************************************************)
(* processPaymentResponse never bills a transaction without an error for   *)
(* more than the gateway took, if every approval was delivered once and no *)
(* processing failed, however its reads and writes interleave.             *)
(***************************************************************************)
THEOREM TransactionsBilledOnce == EnrollmentSpec => []BilledOnce
<1>1. ASSUME EnrollmentInv, NEW t \in Tx, mixed = {}, Clean(t)
      PROVE  txs[t].billed <= Charge * Cardinality({n \in OrderNums : orders[n].tx = t /\ taken[n] > 0})
  <2> DEFINE P == {n \in OrderNums : orders[n].tx = t /\ taken[n] > 0}
  <2>0. EnrollmentTypeOK /\ GatewayInv /\ AgreeInv
    BY <1>1, Parts
  <2>1. ASSUME NEW n \in Settled(t) PROVE n \in P
    <3>1. n \in OrderNums /\ orders[n].tx = t /\ Told(n) = 1 /\ n \notin broken
      BY <1>1, <2>1 DEF Settled, Clean
    <3>2. PICK m \in sent : m.approved /\ m.num = n
      BY <2>0, <3>1, ToldOfStored
    <3>3. taken[n] = m.amount
      BY <2>0, <3>2 DEF GatewayInv
    <3>4. m.amount = orders[n].amount
      BY <2>0, <3>1, <3>2 DEF AgreeInv
    <3>5. orders[n].amount = Charge
      BY <2>0, <3>1, EnrollmentAssumption DEF AgreeInv
    <3> QED
      BY <3>1, <3>3, <3>4, <3>5, EnrollmentAssumption
  <2>2. Settled(t) \in SUBSET P /\ P \subseteq OrderNums
    BY <2>1
  <2>3. Settled(t) \subseteq OrderNums
    BY DEF Settled
  <2> HIDE DEF P
  <2>4. Cardinality(P) \in Nat /\ Cardinality(Settled(t)) \in Nat /\ Cardinality(Settled(t)) <= Cardinality(P)
    BY <2>2, <2>3, SettledFinite
  <2>5. Charge \in Nat
    BY EnrollmentAssumption
  <2>6. Charge * Cardinality(Settled(t)) <= Charge * Cardinality(P)
    BY <2>4, <2>5, MoreCharges
  <2>7. Charge * Cardinality(Settled(t)) \in Nat /\ Charge * Cardinality(P) \in Nat
    BY <2>4, <2>5, MoreCharges
  <2>8. txs[t].billed \in Nat /\ txs[t].billed <= Charge * Cardinality(Settled(t))
    BY <1>1, <2>0 DEF EnrollmentInv, BillInv, EnrollmentTypeOK, TxDoc
  <2>9. txs[t].billed <= Charge * Cardinality(P)
    BY <2>6, <2>7, <2>8
  <2> QED
    BY <2>9 DEF P
<1>2. ASSUME EnrollmentInv, NEW t \in Tx, mixed = {},
             \A n \in {k \in OrderNums : orders[k].tx = t} : n \notin broken /\ Told(n) <= 1
      PROVE  txs[t].billed <= Charge * Cardinality({n \in {k \in OrderNums : orders[k].tx = t} : taken[n] > 0})
  <2>1. Clean(t)
    BY <1>2 DEF Clean
  <2>2. {n \in {k \in OrderNums : orders[k].tx = t} : taken[n] > 0} = {n \in OrderNums : orders[n].tx = t /\ taken[n] > 0}
    OBVIOUS
  <2> QED
    BY <1>1, <1>2, <2>1, <2>2
<1>3. EnrollmentInv => BilledOnce
  BY <1>2 DEF BilledOnce, Told
<1> QED
  BY <1>3, EnrollmentInvariant, PTL
=============================================================================

---------------------------- MODULE BillingProofs ----------------------------
(***************************************************************************)
(* Proofs about Billing for any transactions, cards, callers, goroutines   *)
(* and bounds: type correctness, that a transaction never has two open     *)
(* orders while the keyed lock excludes, and that a transaction shown as   *)
(* paid was charged; and, for the payment processor alone, that it charges *)
(* no transaction twice, leaves an audit trail, never rewrites a result,   *)
(* implements Debt and drops no debt.                                      *)
(***************************************************************************)
EXTENDS Billing, OrderLockProofs

-----------------------------------------------------------------------------
(***************************************************************************)
(* The inductive invariant.                                                *)
(***************************************************************************)
\* The collections; a stored order belongs to a transaction.
DbInv ==
  /\ txs \in [Tx -> TxDoc]
  /\ orders \in [OrderNums -> OrderDoc]
  /\ methods \in [Cards -> {"absent", "usable", "failing"}]
  /\ retries \in [Tx -> RetryDoc]
  /\ \A n \in OrderNums : orders[n].opened > 0 => orders[n].tx \in Tx

\* The environment, the processor's work list and the history.
OtherTypes ==
  /\ expired \subseteq Cards
  /\ clock \in 0..MaxOrders
  /\ calls \in 0..MaxCalls
  /\ todo \subseteq Tx
  /\ ticked \subseteq Goroutines
  /\ captured \in [Tx -> Nat]
  /\ lost \subseteq Tx
  /\ exhausted \subseteq Tx
  /\ clash \in BOOLEAN

\* A caller about to run step s with local variables r, at place l of the
\* keyed lock for id i.
CallerShape(s, r, l, i) ==
  /\ s \in {"idle", "unbilled", "retries", "retryRead", "retryReset", "load"} => l = "idle"
  /\ s = "wait" => l = "waiting"
  /\ s \in PayStates \cup {"returnRead", "panic", "unlock"} => l = "locked"
  /\ s = "delete" => l = "unlocked"
  /\ s = "wait" /\ r.op = "pay" => i = r.tx
  /\ s \in PayStates => i = r.tx
  /\ s \in {"retryRead", "retryReset"} \cup PayStates => r.op = "pay"
  /\ s \in {"load", "wait", "returnRead"}
       => r.op \in {"pay", "return"} \/ (r.op = "returnByOrder" /\ r.num \in OrderNums)
  /\ r.op \in {"pay", "return"} => r.tx \in Tx
  /\ s \in PayStates \ {"payRead"} => r.snap.billed < Amount
  /\ s \in {"payClose", "payPenalty"} => r.osnap.tx \in Tx

\* A goroutine about to run step s with local variables r.
GoroutineShape(s, r) ==
  /\ r.op = "pay" => r.tx \in Tx
  /\ s \in (OkStates \cup FailStates) \ {"okGet", "failGet"}
       => r.num \in OrderNums /\ r.osnap.tx \in Tx
  /\ s \in {"okReset", "okRefund"} => r.osnap.completed

\* The open orders of a transaction in a collection ords.
Open(ords, t) ==
  {n \in OrderNums : ords[n].opened > 0 /\ ords[n].tx = t /\ ~ords[n].completed}

(***************************************************************************)
(* While a caller is in the section of a transaction that is not orphaned, *)
(* the order it found is the only open one, and after closing it there is  *)
(* none until it saves the next.                                           *)
(***************************************************************************)
SectionShape(s, r, ords, orph) ==
  r.tx \notin orph =>
    /\ s \in {"payPenalty", "payStamp", "payNumber", "paySave"} => Open(ords, r.tx) = {}
    /\ s = "payClose" => Open(ords, r.tx) \subseteq {r.num}

\* The callers and the goroutines.
ProcInv ==
  /\ pc \in [Procs -> CallerStates \cup GoroutineStates]
  /\ loc \in [Procs -> Locals]
  /\ LockInv
  /\ \A p \in Callers :
       /\ pc[p] \in CallerStates
       /\ CallerShape(pc[p], loc[p], lpc[p], lid[p])
       /\ SectionShape(pc[p], loc[p], orders, orphaned)
  /\ \A g \in Goroutines :
       pc[g] \in GoroutineStates /\ GoroutineShape(pc[g], loc[g])

\* A transaction whose lock was never orphaned has at most one open order.
OneOpen(ords, orph) == \A t \in Tx \ orph : \A m, n \in Open(ords, t) : m = n

\* The inductive invariant.
BillingInv == DbInv /\ OtherTypes /\ ProcInv /\ OneOpen(orders, orphaned)

-----------------------------------------------------------------------------
(***************************************************************************)
(* Types of the local variables.                                           *)
(***************************************************************************)
(* The zero values of a call's local variables have their types. *)
LEMMA NoLocalsType == NoLocals \in Locals
  BY BillingAssumption
  DEF NoLocals, NewTx, NoMethod, NoOrder, Locals, Method, TxDoc, OrderDoc

(* An order number fits a field that holds one or none. *)
LEMMA NumType == \A n \in OrderNums : n \in 0..MaxOrders
  <1>1. MaxOrders \in Nat
    BY BillingAssumption
  <1> QED
    BY <1>1 DEF OrderNums

(* The local variables a call or a goroutine starts with. *)
LEMMA StartType ==
  ASSUME NEW name \in {"pay", "return", "returnByOrder", "refund"},
         NEW t \in Tx \cup {NoTx}, NEW n \in 0..MaxOrders,
         NEW b \in {"idle", "unbilled", "retries"}
  PROVE  /\ [NoLocals EXCEPT !.op = name, !.tx = t, !.num = n] \in Locals
         /\ [NoLocals EXCEPT !.op = name, !.tx = t, !.back = b] \in Locals
         /\ [NoLocals EXCEPT !.op = name, !.num = n] \in Locals
  BY NoLocalsType DEF Locals

(* The local variables of a step, by field. *)
LEMMA LocalsFields ==
  ASSUME NEW r \in Locals
  PROVE  /\ r.op \in {"", "pay", "return", "returnByOrder", "refund"}
         /\ r.back \in {"idle", "unbilled", "retries"}
         /\ r.tx \in Tx \cup {NoTx}
         /\ r.num \in 0..MaxOrders
         /\ r.stamp \in Nat
         /\ r.snap \in TxDoc
         /\ r.osnap \in OrderDoc
         /\ r.card \in Method
         /\ r.attempt \in 0..MaxRetryAttempts
  BY DEF Locals

(* The local variables after one of them was set: the copy of the transaction, *)
LEMMA SnapSet ==
  ASSUME NEW p \in Procs, loc \in [Procs -> Locals], NEW y,
         loc' = [loc EXCEPT ![p].snap = y]
  PROVE  /\ loc'[p].op = loc[p].op /\ loc'[p].back = loc[p].back /\ loc'[p].tx = loc[p].tx
         /\ loc'[p].num = loc[p].num /\ loc'[p].stamp = loc[p].stamp /\ loc'[p].snap = y
         /\ loc'[p].osnap = loc[p].osnap /\ loc'[p].card = loc[p].card /\ loc'[p].attempt = loc[p].attempt
  <1>1. PICK r \in Locals : r = loc[p]
    OBVIOUS
  <1>2. loc'[p] = [r EXCEPT !.snap = y]
    BY <1>1
  <1>3. [r EXCEPT !.snap = y].op = r.op /\ [r EXCEPT !.snap = y].back = r.back /\ [r EXCEPT !.snap = y].tx = r.tx
    BY DEF Locals
  <1>4. [r EXCEPT !.snap = y].num = r.num /\ [r EXCEPT !.snap = y].stamp = r.stamp /\ [r EXCEPT !.snap = y].snap = y
    BY DEF Locals
  <1>5. [r EXCEPT !.snap = y].osnap = r.osnap /\ [r EXCEPT !.snap = y].card = r.card /\ [r EXCEPT !.snap = y].attempt = r.attempt
    BY DEF Locals
  <1> QED
    BY <1>1, <1>2, <1>3, <1>4, <1>5

(* the payment method, *)
LEMMA CardSet ==
  ASSUME NEW p \in Procs, loc \in [Procs -> Locals], NEW y,
         loc' = [loc EXCEPT ![p].card = y]
  PROVE  /\ loc'[p].op = loc[p].op /\ loc'[p].back = loc[p].back /\ loc'[p].tx = loc[p].tx
         /\ loc'[p].num = loc[p].num /\ loc'[p].stamp = loc[p].stamp /\ loc'[p].snap = loc[p].snap
         /\ loc'[p].osnap = loc[p].osnap /\ loc'[p].card = y /\ loc'[p].attempt = loc[p].attempt
  <1>1. PICK r \in Locals : r = loc[p]
    OBVIOUS
  <1>2. loc'[p] = [r EXCEPT !.card = y]
    BY <1>1
  <1>3. [r EXCEPT !.card = y].op = r.op /\ [r EXCEPT !.card = y].back = r.back /\ [r EXCEPT !.card = y].tx = r.tx
    BY DEF Locals
  <1>4. [r EXCEPT !.card = y].num = r.num /\ [r EXCEPT !.card = y].stamp = r.stamp /\ [r EXCEPT !.card = y].snap = r.snap
    BY DEF Locals
  <1>5. [r EXCEPT !.card = y].osnap = r.osnap /\ [r EXCEPT !.card = y].card = y /\ [r EXCEPT !.card = y].attempt = r.attempt
    BY DEF Locals
  <1> QED
    BY <1>1, <1>2, <1>3, <1>4, <1>5

(* the time stamp, *)
LEMMA StampSet ==
  ASSUME NEW p \in Procs, loc \in [Procs -> Locals], NEW y,
         loc' = [loc EXCEPT ![p].stamp = y]
  PROVE  /\ loc'[p].op = loc[p].op /\ loc'[p].back = loc[p].back /\ loc'[p].tx = loc[p].tx
         /\ loc'[p].num = loc[p].num /\ loc'[p].stamp = y /\ loc'[p].snap = loc[p].snap
         /\ loc'[p].osnap = loc[p].osnap /\ loc'[p].card = loc[p].card /\ loc'[p].attempt = loc[p].attempt
  <1>1. PICK r \in Locals : r = loc[p]
    OBVIOUS
  <1>2. loc'[p] = [r EXCEPT !.stamp = y]
    BY <1>1
  <1>3. [r EXCEPT !.stamp = y].op = r.op /\ [r EXCEPT !.stamp = y].back = r.back /\ [r EXCEPT !.stamp = y].tx = r.tx
    BY DEF Locals
  <1>4. [r EXCEPT !.stamp = y].num = r.num /\ [r EXCEPT !.stamp = y].stamp = y /\ [r EXCEPT !.stamp = y].snap = r.snap
    BY DEF Locals
  <1>5. [r EXCEPT !.stamp = y].osnap = r.osnap /\ [r EXCEPT !.stamp = y].card = r.card /\ [r EXCEPT !.stamp = y].attempt = r.attempt
    BY DEF Locals
  <1> QED
    BY <1>1, <1>2, <1>3, <1>4, <1>5

(* the order number, *)
LEMMA NumSet ==
  ASSUME NEW p \in Procs, loc \in [Procs -> Locals], NEW y,
         loc' = [loc EXCEPT ![p].num = y]
  PROVE  /\ loc'[p].op = loc[p].op /\ loc'[p].back = loc[p].back /\ loc'[p].tx = loc[p].tx
         /\ loc'[p].num = y /\ loc'[p].stamp = loc[p].stamp /\ loc'[p].snap = loc[p].snap
         /\ loc'[p].osnap = loc[p].osnap /\ loc'[p].card = loc[p].card /\ loc'[p].attempt = loc[p].attempt
  <1>1. PICK r \in Locals : r = loc[p]
    OBVIOUS
  <1>2. loc'[p] = [r EXCEPT !.num = y]
    BY <1>1
  <1>3. [r EXCEPT !.num = y].op = r.op /\ [r EXCEPT !.num = y].back = r.back /\ [r EXCEPT !.num = y].tx = r.tx
    BY DEF Locals
  <1>4. [r EXCEPT !.num = y].num = y /\ [r EXCEPT !.num = y].stamp = r.stamp /\ [r EXCEPT !.num = y].snap = r.snap
    BY DEF Locals
  <1>5. [r EXCEPT !.num = y].osnap = r.osnap /\ [r EXCEPT !.num = y].card = r.card /\ [r EXCEPT !.num = y].attempt = r.attempt
    BY DEF Locals
  <1> QED
    BY <1>1, <1>2, <1>3, <1>4, <1>5

(* the copy of the order, *)
LEMMA OsnapSet ==
  ASSUME NEW p \in Procs, loc \in [Procs -> Locals], NEW y,
         loc' = [loc EXCEPT ![p].osnap = y]
  PROVE  /\ loc'[p].op = loc[p].op /\ loc'[p].back = loc[p].back /\ loc'[p].tx = loc[p].tx
         /\ loc'[p].num = loc[p].num /\ loc'[p].stamp = loc[p].stamp /\ loc'[p].snap = loc[p].snap
         /\ loc'[p].osnap = y /\ loc'[p].card = loc[p].card /\ loc'[p].attempt = loc[p].attempt
  <1>1. PICK r \in Locals : r = loc[p]
    OBVIOUS
  <1>2. loc'[p] = [r EXCEPT !.osnap = y]
    BY <1>1
  <1>3. [r EXCEPT !.osnap = y].op = r.op /\ [r EXCEPT !.osnap = y].back = r.back /\ [r EXCEPT !.osnap = y].tx = r.tx
    BY DEF Locals
  <1>4. [r EXCEPT !.osnap = y].num = r.num /\ [r EXCEPT !.osnap = y].stamp = r.stamp /\ [r EXCEPT !.osnap = y].snap = r.snap
    BY DEF Locals
  <1>5. [r EXCEPT !.osnap = y].osnap = y /\ [r EXCEPT !.osnap = y].card = r.card /\ [r EXCEPT !.osnap = y].attempt = r.attempt
    BY DEF Locals
  <1> QED
    BY <1>1, <1>2, <1>3, <1>4, <1>5

(* the attempt, *)
LEMMA AttemptSet ==
  ASSUME NEW p \in Procs, loc \in [Procs -> Locals], NEW y,
         loc' = [loc EXCEPT ![p].attempt = y]
  PROVE  /\ loc'[p].op = loc[p].op /\ loc'[p].back = loc[p].back /\ loc'[p].tx = loc[p].tx
         /\ loc'[p].num = loc[p].num /\ loc'[p].stamp = loc[p].stamp /\ loc'[p].snap = loc[p].snap
         /\ loc'[p].osnap = loc[p].osnap /\ loc'[p].card = loc[p].card /\ loc'[p].attempt = y
  <1>1. PICK r \in Locals : r = loc[p]
    OBVIOUS
  <1>2. loc'[p] = [r EXCEPT !.attempt = y]
    BY <1>1
  <1>3. [r EXCEPT !.attempt = y].op = r.op /\ [r EXCEPT !.attempt = y].back = r.back /\ [r EXCEPT !.attempt = y].tx = r.tx
    BY DEF Locals
  <1>4. [r EXCEPT !.attempt = y].num = r.num /\ [r EXCEPT !.attempt = y].stamp = r.stamp /\ [r EXCEPT !.attempt = y].snap = r.snap
    BY DEF Locals
  <1>5. [r EXCEPT !.attempt = y].osnap = r.osnap /\ [r EXCEPT !.attempt = y].card = r.card /\ [r EXCEPT !.attempt = y].attempt = y
    BY DEF Locals
  <1> QED
    BY <1>1, <1>2, <1>3, <1>4, <1>5

(* the order and its number. *)
LEMMA OrderSet ==
  ASSUME NEW p \in Procs, loc \in [Procs -> Locals], NEW y, NEW z,
         loc' = [loc EXCEPT ![p].osnap = y, ![p].num = z]
  PROVE  /\ loc'[p].op = loc[p].op /\ loc'[p].back = loc[p].back /\ loc'[p].tx = loc[p].tx
         /\ loc'[p].num = z /\ loc'[p].stamp = loc[p].stamp /\ loc'[p].snap = loc[p].snap
         /\ loc'[p].osnap = y /\ loc'[p].card = loc[p].card /\ loc'[p].attempt = loc[p].attempt
  <1>1. PICK r \in Locals : r = loc[p]
    OBVIOUS
  <1>2. loc'[p] = [r EXCEPT !.osnap = y, !.num = z]
    BY <1>1
  <1>3. [r EXCEPT !.osnap = y, !.num = z].op = r.op /\ [r EXCEPT !.osnap = y, !.num = z].back = r.back /\ [r EXCEPT !.osnap = y, !.num = z].tx = r.tx
    BY DEF Locals
  <1>4. [r EXCEPT !.osnap = y, !.num = z].num = z /\ [r EXCEPT !.osnap = y, !.num = z].stamp = r.stamp /\ [r EXCEPT !.osnap = y, !.num = z].snap = r.snap
    BY DEF Locals
  <1>5. [r EXCEPT !.osnap = y, !.num = z].osnap = y /\ [r EXCEPT !.osnap = y, !.num = z].card = r.card /\ [r EXCEPT !.osnap = y, !.num = z].attempt = r.attempt
    BY DEF Locals
  <1> QED
    BY <1>1, <1>2, <1>3, <1>4, <1>5

(* A new copy of the transaction keeps the rest. *)
LEMMA SnapUpdate ==
  ASSUME NEW r \in Locals, NEW x \in TxDoc
  PROVE  /\ [r EXCEPT !.snap = x] \in Locals /\ [r EXCEPT !.snap = x].snap = x
         /\ [r EXCEPT !.snap = x].op = r.op /\ [r EXCEPT !.snap = x].tx = r.tx
  BY DEF Locals

(* What is left of a caller's local variables when its call returns. *)
LEMMA LeavingType ==
  ASSUME ProcInv, NEW p \in Callers
  PROVE  Leaving(p) \in Locals /\ Leaving(p).op = ""
  <1>1. loc[p].back \in {"idle", "unbilled", "retries"}
    BY LocalsFields DEF ProcInv, Procs
  <1>2. Leaving(p) \in Locals
    BY <1>1, NoLocalsType DEF Leaving, Locals
  <1> QED
    BY <1>2 DEF Leaving, NoLocals

-----------------------------------------------------------------------------
(***************************************************************************)
(* Frames: what a step of one caller or goroutine has to show.             *)
(***************************************************************************)
SameProc(q) == pc'[q] = pc[q] /\ loc'[q] = loc[q]

\* No order becomes open in this step.
Shrinks == \A t : Open(orders', t) \subseteq Open(orders, t)

\* The callers in S keep their part of ProcInv.
CallersKept(S) ==
  \A q \in S :
    /\ pc'[q] \in CallerStates
    /\ CallerShape(pc'[q], loc'[q], lpc'[q], lid'[q])
    /\ SectionShape(pc'[q], loc'[q], orders', orphaned')

\* The goroutines in S keep theirs.
GoroutinesKept(S) ==
  \A g \in S : pc'[g] \in GoroutineStates /\ GoroutineShape(pc'[g], loc'[g])

(* A caller whose lock, program counter and local variables stay keeps its *)
(* part of the invariant if no order becomes open.                         *)
LEMMA CallerFrame ==
  ASSUME ProcInv, Shrinks, UNCHANGED lockVars,
         NEW S \in SUBSET Callers, \A q \in S : SameProc(q)
  PROVE  CallersKept(S)
  <1> SUFFICES ASSUME NEW q \in S
               PROVE  /\ pc[q] \in CallerStates
                      /\ CallerShape(pc[q], loc[q], lpc[q], lid[q])
                      /\ SectionShape(pc[q], loc[q], orders', orphaned)
    BY DEF CallersKept, SameProc, lockVars
  <1>1. SectionShape(pc[q], loc[q], orders, orphaned)
    BY DEF ProcInv
  <1>2. Open(orders', loc[q].tx) \subseteq Open(orders, loc[q].tx)
    BY DEF Shrinks
  <1>3. SectionShape(pc[q], loc[q], orders', orphaned)
    BY <1>1, <1>2 DEF SectionShape
  <1> QED
    BY <1>3 DEF ProcInv

(* A goroutine that does not move keeps its part of the invariant. *)
LEMMA GoroutineFrame ==
  ASSUME ProcInv, NEW S \in SUBSET Goroutines, \A g \in S : SameProc(g)
  PROVE  GoroutinesKept(S)
  BY DEF ProcInv, GoroutinesKept, SameProc

(* One open order stays one if no order becomes open. *)
LEMMA OpenFrame ==
  ASSUME OneOpen(orders, orphaned), Shrinks, orphaned \subseteq orphaned'
  PROVE  OneOpen(orders', orphaned')
  BY DEF OneOpen, Shrinks

(* A step of one caller outside the lock's own operations: only its new    *)
(* program counter and local variables matter.                             *)
LEMMA CallerMove ==
  ASSUME ProcInv, OneOpen(orders, orphaned), Shrinks, UNCHANGED lockVars,
         NEW p \in Callers, NEW s \in CallerStates, NEW r \in Locals,
         pc' = [pc EXCEPT ![p] = s], loc' = [loc EXCEPT ![p] = r],
         CallerShape(s, r, lpc[p], lid[p]),
         SectionShape(s, r, orders', orphaned)
  PROVE  ProcInv' /\ OneOpen(orders', orphaned')
  <1>1. LockInv'
    BY NextLockInv DEF ProcInv
  <1>2. /\ pc' \in [Procs -> CallerStates \cup GoroutineStates]
        /\ loc' \in [Procs -> Locals]
        /\ pc'[p] = s /\ loc'[p] = r
        /\ \A q \in Procs \ {p} : SameProc(q)
    BY DEF ProcInv, Procs, SameProc
  <1>3. CallersKept(Callers \ {p})
    BY <1>2, CallerFrame DEF Procs
  <1>4. CallersKept(Callers)
    BY <1>2, <1>3 DEF CallersKept, lockVars
  <1>5. GoroutinesKept(Goroutines)
    BY <1>2, GoroutineFrame, BillingAssumption DEF Procs
  <1>6. OneOpen(orders', orphaned')
    BY OpenFrame DEF lockVars
  <1> QED
    BY <1>1, <1>2, <1>4, <1>5, <1>6 DEF ProcInv, CallersKept, GoroutinesKept

(* A step of one goroutine. *)
LEMMA GoroutineMove ==
  ASSUME ProcInv, OneOpen(orders, orphaned), Shrinks, UNCHANGED lockVars,
         NEW g \in Goroutines, NEW s \in GoroutineStates, NEW r \in Locals,
         pc' = [pc EXCEPT ![g] = s], loc' = [loc EXCEPT ![g] = r],
         GoroutineShape(s, r)
  PROVE  ProcInv' /\ OneOpen(orders', orphaned')
  <1>1. LockInv'
    BY NextLockInv DEF ProcInv
  <1>2. /\ pc' \in [Procs -> CallerStates \cup GoroutineStates]
        /\ loc' \in [Procs -> Locals]
        /\ pc'[g] = s /\ loc'[g] = r
        /\ \A q \in Procs \ {g} : SameProc(q)
    BY DEF ProcInv, Procs, SameProc
  <1>3. CallersKept(Callers)
    BY <1>2, CallerFrame, BillingAssumption DEF Procs
  <1>4. GoroutinesKept(Goroutines \ {g})
    BY <1>2, GoroutineFrame DEF Procs
  <1>5. GoroutinesKept(Goroutines)
    BY <1>2, <1>4 DEF GoroutinesKept
  <1>6. OneOpen(orders', orphaned')
    BY OpenFrame DEF lockVars
  <1> QED
    BY <1>1, <1>2, <1>3, <1>5, <1>6 DEF ProcInv, CallersKept, GoroutinesKept

(* A step that moves nobody. *)
LEMMA NobodyMoves ==
  ASSUME ProcInv, OneOpen(orders, orphaned), UNCHANGED <<pc, loc, orders, lockVars>>
  PROVE  ProcInv' /\ OneOpen(orders', orphaned')
  <1>1. LockInv'
    BY NextLockInv DEF ProcInv
  <1> QED
    BY <1>1 DEF ProcInv, lockVars

(* A step that does not write an order opens none. *)
LEMMA SameOrders == ASSUME UNCHANGED orders PROVE Shrinks
  BY DEF Shrinks, Open

(* Nor does one that writes a completed order. *)
LEMMA ClosedOrder ==
  ASSUME orders \in [OrderNums -> OrderDoc], NEW n, NEW o, o.completed,
         SavePaymentOrder(n, o)
  PROVE  Shrinks
  BY DEF Shrinks, Open, SavePaymentOrder

(* The finished goroutine's slot is free again. *)
LEMMA FinishMove ==
  ASSUME ProcInv, OneOpen(orders, orphaned), Shrinks, UNCHANGED lockVars,
         NEW g \in Goroutines, Finish(g)
  PROVE  ProcInv' /\ OneOpen(orders', orphaned')
  <1>1. GoroutineShape("idle", NoLocals)
    BY DEF GoroutineShape, OkStates, FailStates, NoLocals
  <1> QED
    BY <1>1, NoLocalsType, GoroutineMove DEF Finish, GoroutineStates

(* The call returns: the caller goes to the deferred unlockOrder. *)
LEMMA LeavingMove ==
  ASSUME ProcInv, OneOpen(orders, orphaned), Shrinks, UNCHANGED lockVars,
         NEW p \in Callers, lpc[p] = "locked",
         pc' = [pc EXCEPT ![p] = "unlock"], loc' = [loc EXCEPT ![p] = Leaving(p)]
  PROVE  ProcInv' /\ OneOpen(orders', orphaned')
  <1>1. CallerShape("unlock", Leaving(p), lpc[p], lid[p])
    BY LeavingType DEF CallerShape, PayStates
  <1>2. SectionShape("unlock", Leaving(p), orders', orphaned)
    BY DEF SectionShape
  <1> QED
    BY <1>1, <1>2, LeavingType, CallerMove DEF CallerStates

(* What the invariant says of a caller, and of a goroutine. *)
LEMMA CallerFacts ==
  ASSUME ProcInv, NEW p \in Callers
  PROVE  /\ p \in Procs
         /\ loc[p] \in Locals
         /\ CallerShape(pc[p], loc[p], lpc[p], lid[p])
         /\ SectionShape(pc[p], loc[p], orders, orphaned)
  BY DEF ProcInv, Procs

(* What the invariant says of one goroutine. *)
LEMMA GoroutineFacts ==
  ASSUME ProcInv, NEW g \in Goroutines
  PROVE  /\ g \in Procs
         /\ loc[g] \in Locals
         /\ GoroutineShape(pc[g], loc[g])
  BY DEF ProcInv, Procs

-----------------------------------------------------------------------------
(***************************************************************************)
(* The repository's writes.                                                *)
(***************************************************************************)
(* A step that writes no document. *)
LEMMA DbSame == ASSUME DbInv, UNCHANGED dbVars PROVE DbInv'
  BY DEF DbInv, dbVars

(* A step that leaves the environment, the work list and the history. *)
LEMMA OtherSame ==
  ASSUME OtherTypes, UNCHANGED <<envVars, todo, ticked, historyVars>>
  PROVE  OtherTypes'
  BY DEF OtherTypes, envVars, historyVars

(* Finish frees a slot and leaves the rest. *)
LEMMA OtherFinish ==
  ASSUME OtherTypes, NEW g \in Goroutines, Finish(g),
         UNCHANGED <<envVars, todo, historyVars>>
  PROVE  OtherTypes'
  BY DEF OtherTypes, envVars, historyVars, Finish

(* UpdateTransactionPayment writes a typed copy. *)
LEMMA TxWrite ==
  ASSUME DbInv, NEW t \in Tx, NEW s \in TxDoc, UpdateTransactionPayment(t, s),
         UNCHANGED <<orders, methods, retries>>
  PROVE  DbInv'
  <1>1. txs[t].finished \in BOOLEAN
    BY DEF DbInv, TxDoc
  <1>2. [s EXCEPT !.finished = txs[t].finished] \in TxDoc
    BY <1>1 DEF TxDoc
  <1> QED
    BY <1>2 DEF DbInv, UpdateTransactionPayment

(* SavePaymentOrder writes an order that belongs to a transaction. *)
LEMMA OrderWrite ==
  ASSUME DbInv, NEW n, NEW o \in OrderDoc, o.tx \in Tx, SavePaymentOrder(n, o),
         UNCHANGED <<txs, methods, retries>>
  PROVE  DbInv'
  BY DEF DbInv, SavePaymentOrder

(* updatePaymentMethodFailCounter changes a stored method only. *)
LEMMA CounterWrite ==
  ASSUME DbInv, NEW c, NEW value \in {"usable", "failing"}, SetFailCounter(c, value),
         UNCHANGED <<txs, orders, retries>>
  PROVE  DbInv'
  BY DEF DbInv, SetFailCounter

(* SavePaymentRetry and DeletePaymentRetry. *)
LEMMA RetryWrite ==
  ASSUME DbInv, NEW t, NEW x \in RetryDoc, retries' = [retries EXCEPT ![t] = x],
         UNCHANGED <<txs, orders, methods>>
  PROVE  DbInv'
  BY DEF DbInv

(* A stored order, and the copy of a transaction. *)
LEMMA Reads ==
  ASSUME DbInv
  PROVE  /\ \A t \in Tx : txs[t] \in TxDoc /\ retries[t] \in RetryDoc
         /\ \A n \in OrderNums : orders[n] \in OrderDoc
         /\ \A n : Stored(n) => n \in OrderNums /\ orders[n].tx \in Tx
  BY DEF DbInv, Stored

\* The order o, completed with result x.
Completed(o, x) == [o EXCEPT !.completed = TRUE, !.result = x]

(* Closing a copy of an order keeps its transaction. *)
LEMMA CompletedOrder ==
  ASSUME NEW o \in OrderDoc, NEW x \in {"approved", "failed", "closed"}
  PROVE  /\ Completed(o, x) \in OrderDoc
         /\ Completed(o, x).completed /\ Completed(o, x).result = x
         /\ Completed(o, x).tx = o.tx /\ Completed(o, x).amount = o.amount
         /\ Completed(o, x).opened = o.opened
  <1>1. Completed(o, x) \in OrderDoc
    BY DEF Completed, OrderDoc
  <1>2. Completed(o, x).completed /\ Completed(o, x).result = x
    BY DEF Completed, OrderDoc
  <1>3. Completed(o, x).tx = o.tx /\ Completed(o, x).amount = o.amount
    BY DEF Completed, OrderDoc
  <1>4. Completed(o, x).opened = o.opened
    BY DEF Completed, OrderDoc
  <1> QED
    BY <1>1, <1>2, <1>3, <1>4

(* The fields of an order that is refunded. *)
LEMMA OrderUpdate ==
  ASSUME NEW o \in OrderDoc, NEW k \in Nat
  PROVE  /\ [o EXCEPT !.refund = k] \in OrderDoc
         /\ [o EXCEPT !.refund = k].tx = o.tx
         /\ [o EXCEPT !.refund = k].completed = o.completed
  BY DEF OrderDoc

-----------------------------------------------------------------------------
(***************************************************************************)
(* Requests and the payment processor.                                     *)
(***************************************************************************)
(* A request starts its operation with what the route passed. *)
LEMMA CallInv ==
  ASSUME BillingInv, NEW p \in Callers, NEW name, NEW t, NEW n, NEW entry,
         Call(p, name, t, n, entry),
         \/ name \in {"pay", "return"} /\ t \in Tx /\ n = 0 /\ entry = "load"
         \/ name = "pay" /\ t \in Tx /\ n = 0 /\ entry = "retryRead"
         \/ name = "returnByOrder" /\ t = NoTx /\ n \in OrderNums /\ entry = "load"
  PROVE  BillingInv'
  <1> DEFINE r == [NoLocals EXCEPT !.op = name, !.tx = t, !.num = n]
  <1>1. /\ name \in {"pay", "return", "returnByOrder", "refund"}
        /\ t \in Tx \cup {NoTx}
        /\ n \in 0..MaxOrders
    BY NumType, BillingAssumption
  <1>2. r \in Locals
    BY <1>1, StartType
  <1>3. r.op = name /\ r.tx = t /\ r.num = n
    BY DEF NoLocals
  <1>4. lpc[p] = "idle"
    BY CallerFacts DEF BillingInv, Call, Goto, CallerShape
  <1>5. CallerShape(entry, r, lpc[p], lid[p]) /\ SectionShape(entry, r, orders', orphaned)
    BY <1>3, <1>4 DEF CallerShape, SectionShape, PayStates
  <1>6. ProcInv' /\ OneOpen(orders', orphaned')
    BY <1>2, <1>5, SameOrders, CallerMove DEF BillingInv, Call, Goto, CallerStates, dbVars
  <1>7. OtherTypes'
    BY BillingAssumption DEF BillingInv, OtherTypes, Call, historyVars
  <1> QED
    BY <1>6, <1>7, DbSame DEF BillingInv, Call

(* The pay, retry and refund routes. *)
LEMMA RequestInv ==
  ASSUME BillingInv, NEW p \in Callers,
         CallPay(p) \/ CallForceRetry(p) \/ CallReturn(p) \/ CallReturnByOrder(p)
  PROVE  BillingInv'
  BY CallInv DEF CallPay, CallForceRetry, CallReturn, CallReturnByOrder

(* The processor's passes over its work lists. *)
LEMMA PassInv ==
  ASSUME BillingInv, Tick \/ StartRetries \/ EndTick
  PROVE  BillingInv'
  <1> DEFINE p == Processor
  <1>1. p \in Callers /\ loc[p] \in Locals /\ lpc[p] = "idle"
    BY BillingAssumption, CallerFacts
    DEF BillingInv, CallerShape, Tick, StartRetries, EndTick, Goto
  <1>2. PICK s \in {"idle", "unbilled", "retries"} : pc' = [pc EXCEPT ![p] = s]
    BY DEF Tick, StartRetries, EndTick, Goto
  <1>3. /\ UNCHANGED <<dbVars, lockVars>>
        /\ loc' = [loc EXCEPT ![p] = loc[p]]
    BY <1>1 DEF Tick, StartRetries, EndTick, LocalStep, BillingInv, ProcInv
  <1>4. CallerShape(s, loc[p], lpc[p], lid[p]) /\ SectionShape(s, loc[p], orders', orphaned)
    BY <1>1, CallerFacts DEF CallerShape, SectionShape, PayStates, BillingInv
  <1>5. ProcInv' /\ OneOpen(orders', orphaned')
    BY <1>1, <1>2, <1>3, <1>4, SameOrders, CallerMove DEF BillingInv, CallerStates, dbVars
  <1>6. OtherTypes'
    BY DEF BillingInv, OtherTypes, Tick, StartRetries, EndTick, LocalStep, envVars,
           historyVars, GetUnbilledTransactions, GetPendingRetries
  <1> QED
    BY <1>3, <1>5, <1>6, DbSame DEF BillingInv

(* The processor takes a transaction of its list. *)
LEMMA VisitInv ==
  ASSUME BillingInv, ProcessUnbilled \/ ProcessRetry
  PROVE  BillingInv'
  <1> DEFINE p == Processor
  <1>1. p \in Callers /\ lpc[p] = "idle" /\ todo \subseteq Tx
    BY BillingAssumption, CallerFacts
    DEF BillingInv, OtherTypes, CallerShape, ProcessUnbilled, ProcessRetry, Goto
  <1>2. UNCHANGED <<dbVars, envVars, ticked, historyVars, lockVars>> /\ todo' \subseteq Tx
    BY <1>1 DEF ProcessUnbilled, ProcessRetry
  <1>3. DbInv' /\ OtherTypes'
    BY <1>2, DbSame DEF BillingInv, OtherTypes, envVars, historyVars
  <1>4. CASE UNCHANGED <<pc, loc>>
    BY <1>2, <1>3, <1>4, NobodyMoves DEF BillingInv, dbVars
  <1>5. ASSUME NEW t \in Tx, NEW b \in {"unbilled", "retries"}, NEW s \in {"load", "retryRead"},
               pc' = [pc EXCEPT ![p] = s],
               loc' = [loc EXCEPT ![p] = [NoLocals EXCEPT !.op = "pay", !.tx = t, !.back = b]]
        PROVE  BillingInv'
    <2> DEFINE r == [NoLocals EXCEPT !.op = "pay", !.tx = t, !.back = b]
    <2>0. 0 \in 0..MaxOrders
      BY BillingAssumption
    <2>1. r \in Locals
      BY <2>0, StartType
    <2>2. r.op = "pay" /\ r.tx = t
      BY DEF NoLocals
    <2>3. CallerShape(s, r, lpc[p], lid[p]) /\ SectionShape(s, r, orders', orphaned)
      BY <1>1, <2>2 DEF CallerShape, SectionShape, PayStates
    <2>4. ProcInv' /\ OneOpen(orders', orphaned')
      BY <1>1, <1>2, <1>5, <2>1, <2>3, SameOrders, CallerMove DEF BillingInv, CallerStates, dbVars
    <2> QED
      BY <1>3, <2>4 DEF BillingInv
  <1>6. CASE ProcessUnbilled
    BY <1>1, <1>4, <1>5, <1>6 DEF ProcessUnbilled, Goto
  <1>7. CASE ProcessRetry
    BY <1>1, <1>5, <1>7 DEF ProcessRetry, Goto
  <1> QED
    BY <1>6, <1>7

(* retryOne reads the transaction and writes the reset copy back. *)
LEMMA RetryReadInv ==
  ASSUME BillingInv, NEW p \in Callers, RetryRead(p)
  PROVE  BillingInv'
  <1> DEFINE r == [loc[p] EXCEPT !.snap = txs[loc[p].tx]]
  <1>1. CallerShape("retryRead", loc[p], lpc[p], lid[p]) /\ loc[p] \in Locals
    BY CallerFacts DEF BillingInv, RetryRead, Goto
  <1>2. txs[loc[p].tx] \in TxDoc
    BY <1>1, Reads DEF BillingInv, CallerShape
  <1>3. r \in Locals
    BY <1>1, <1>2 DEF Locals
  <1>4. CallerShape("retryReset", r, lpc[p], lid[p]) /\ SectionShape("retryReset", r, orders', orphaned)
    BY <1>1 DEF CallerShape, SectionShape, PayStates, Locals
  <1>5. ProcInv' /\ OneOpen(orders', orphaned')
    BY <1>3, <1>4, SameOrders, CallerMove
    DEF BillingInv, RetryRead, Goto, LocalStep, CallerStates, dbVars
  <1> QED
    BY <1>5, DbSame, OtherSame DEF BillingInv, RetryRead, LocalStep

(* retryOne clears the billed flag and goes on to the payment. *)
LEMMA RetryResetInv ==
  ASSUME BillingInv, NEW p \in Callers, RetryReset(p)
  PROVE  BillingInv'
  <1> DEFINE r == [loc[p] EXCEPT !.snap = NoLocals.snap]
  <1>1. CallerShape("retryReset", loc[p], lpc[p], lid[p]) /\ loc[p] \in Locals
    BY CallerFacts DEF BillingInv, RetryReset, Goto
  <1>2. loc[p].tx \in Tx /\ loc[p].snap \in TxDoc /\ NoLocals.snap \in TxDoc
    BY <1>1, NoLocalsType, LocalsFields DEF CallerShape
  <1>3. r \in Locals
    BY <1>1, <1>2 DEF Locals
  <1>4. CallerShape("load", r, lpc[p], lid[p]) /\ SectionShape("load", r, orders', orphaned)
    BY <1>1 DEF CallerShape, SectionShape, PayStates, Locals
  <1>5. ProcInv' /\ OneOpen(orders', orphaned')
    BY <1>3, <1>4, SameOrders, CallerMove DEF BillingInv, RetryReset, Goto, CallerStates
  <1>6. [loc[p].snap EXCEPT !.billed = 0, !.error = ""] \in TxDoc
    BY <1>2 DEF TxDoc
  <1>7. DbInv'
    BY <1>2, <1>6, TxWrite DEF BillingInv, RetryReset
  <1> QED
    BY <1>5, <1>7, OtherSame DEF BillingInv, RetryReset

-----------------------------------------------------------------------------
(***************************************************************************)
(* The keyed lock around the locked operations.                            *)
(***************************************************************************)
(* A step of the lock by caller p that touches no other caller's place. *)
LEMMA LockMove ==
  ASSUME BillingInv, NEW p \in Callers, NEW s \in CallerStates, NEW r \in Locals,
         pc' = [pc EXCEPT ![p] = s], loc' = [loc EXCEPT ![p] = r], LockInv',
         lpc' = [lpc EXCEPT ![p] = lpc'[p]], lid' = [lid EXCEPT ![p] = lid'[p]],
         CallerShape(s, r, lpc'[p], lid'[p]), SectionShape(s, r, orders, orphaned'),
         orphaned \subseteq orphaned',
         UNCHANGED <<dbVars, envVars, todo, ticked, historyVars>>
  PROVE  BillingInv'
  <1>0. lpc \in [Callers -> LockStates] /\ lid \in [Callers -> Ids \cup {NoId}]
    BY DEF BillingInv, ProcInv, LockInv, LockTypeOK
  <1>1. /\ pc' \in [Procs -> CallerStates \cup GoroutineStates]
        /\ loc' \in [Procs -> Locals]
        /\ pc'[p] = s /\ loc'[p] = r
        /\ \A q \in Procs \ {p} : SameProc(q)
        /\ \A q \in Callers \ {p} : lpc'[q] = lpc[q] /\ lid'[q] = lid[q]
    BY <1>0 DEF BillingInv, ProcInv, Procs, SameProc
  <1>2. orders' = orders
    BY DEF dbVars
  <1>3. \A q \in Callers :
          /\ pc'[q] \in CallerStates
          /\ CallerShape(pc'[q], loc'[q], lpc'[q], lid'[q])
          /\ SectionShape(pc'[q], loc'[q], orders', orphaned')
    <2> TAKE q \in Callers
    <2>1. CASE q = p
      BY <1>1, <1>2, <2>1
    <2>2. CASE q # p
      <3>1. SectionShape(pc[q], loc[q], orders, orphaned')
        BY DEF BillingInv, ProcInv, SectionShape
      <3> QED
        BY <1>1, <1>2, <2>2, <3>1 DEF BillingInv, ProcInv, SameProc, Procs
    <2> QED
      BY <2>1, <2>2
  <1>4. GoroutinesKept(Goroutines)
    BY <1>1, GoroutineFrame, BillingAssumption DEF BillingInv, Procs
  <1>5. ProcInv'
    BY <1>1, <1>3, <1>4 DEF ProcInv, GoroutinesKept
  <1>6. OneOpen(orders', orphaned')
    BY <1>2 DEF BillingInv, OneOpen
  <1> QED
    BY <1>5, <1>6, DbSame, OtherSame DEF BillingInv

(* lockOrder finds or stores the mutex of the id. *)
LEMMA LockLoadInv ==
  ASSUME BillingInv, NEW p \in Callers, LockLoad(p)
  PROVE  BillingInv'
  <1> DEFINE id == IF loc[p].op = "returnByOrder" THEN loc[p].num ELSE loc[p].tx
  <1>1. CallerShape("load", loc[p], lpc[p], lid[p]) /\ loc[p] \in Locals
    BY CallerFacts DEF BillingInv, LockLoad, Goto
  <1>2. id \in Ids
    BY <1>1, BillingAssumption DEF CallerShape
  <1>3. LoadOrStore(p, id)
    BY DEF LockLoad
  <1>4. LockInv'
    BY <1>2, <1>3, LoadOrStoreLockInv DEF BillingInv, ProcInv
  <1>5. /\ lpc' = [lpc EXCEPT ![p] = "waiting"] /\ lpc'[p] = "waiting"
        /\ lid' = [lid EXCEPT ![p] = id] /\ lid'[p] = id
        /\ orphaned' = orphaned
    BY <1>3 DEF LoadOrStore, BillingInv, ProcInv, LockInv, LockTypeOK
  <1>6. CallerShape("wait", loc[p], "waiting", id) /\ SectionShape("wait", loc[p], orders, orphaned)
    BY <1>1 DEF CallerShape, SectionShape, PayStates
  <1>7. loc' = [loc EXCEPT ![p] = loc[p]]
    BY DEF LockLoad, BillingInv, ProcInv
  <1> QED
    BY <1>1, <1>4, <1>5, <1>6, <1>7, LockMove DEF LockLoad, Goto, CallerStates

(* lockOrder gets the mutex: the caller enters the section. *)
LEMMA LockAcquireInv ==
  ASSUME BillingInv, NEW p \in Callers, LockAcquire(p)
  PROVE  BillingInv'
  <1> DEFINE s == IF loc[p].op = "pay" THEN "payRead" ELSE "returnRead"
  <1>1. CallerShape("wait", loc[p], lpc[p], lid[p]) /\ loc[p] \in Locals
    BY CallerFacts DEF BillingInv, LockAcquire, Goto
  <1>2. LockInv'
    BY AcquireLockInv DEF BillingInv, ProcInv, LockAcquire
  <1>3. /\ lpc' = [lpc EXCEPT ![p] = "locked"] /\ lpc'[p] = "locked"
        /\ lid' = [lid EXCEPT ![p] = lid[p]] /\ lid'[p] = lid[p]
        /\ orphaned' = orphaned
    BY DEF LockAcquire, Acquire, BillingInv, ProcInv, LockInv, LockTypeOK
  <1>4. CallerShape(s, loc[p], "locked", lid[p]) /\ SectionShape(s, loc[p], orders, orphaned)
    BY <1>1 DEF CallerShape, SectionShape, PayStates
  <1>5. loc' = [loc EXCEPT ![p] = loc[p]]
    BY DEF LockAcquire, BillingInv, ProcInv
  <1>6. s \in CallerStates
    BY DEF CallerStates, PayStates
  <1> QED
    BY <1>1, <1>2, <1>3, <1>4, <1>5, <1>6, LockMove DEF LockAcquire, Goto

(* unlockOrder unlocks: the caller has left the section. *)
LEMMA LockReleaseInv ==
  ASSUME BillingInv, NEW p \in Callers, LockRelease(p)
  PROVE  BillingInv'
  <1>1. CallerShape("unlock", loc[p], lpc[p], lid[p]) /\ loc[p] \in Locals
    BY CallerFacts DEF BillingInv, LockRelease, Goto
  <1>2. LockInv'
    BY UnlockLockInv DEF BillingInv, ProcInv, LockRelease
  <1>3. /\ lpc' = [lpc EXCEPT ![p] = "unlocked"] /\ lpc'[p] = "unlocked"
        /\ lid' = [lid EXCEPT ![p] = lid[p]] /\ lid'[p] = lid[p]
        /\ orphaned' = orphaned
    BY DEF LockRelease, Unlock, BillingInv, ProcInv, LockInv, LockTypeOK
  <1>4. CallerShape("delete", loc[p], "unlocked", lid[p]) /\ SectionShape("delete", loc[p], orders, orphaned)
    BY <1>1 DEF CallerShape, SectionShape, PayStates
  <1>5. loc' = [loc EXCEPT ![p] = loc[p]]
    BY DEF LockRelease, BillingInv, ProcInv
  <1> QED
    BY <1>1, <1>2, <1>3, <1>4, <1>5, LockMove DEF LockRelease, Goto, CallerStates

(* unlockOrder deletes the entry and the call returns. *)
LEMMA LockDeleteInv ==
  ASSUME BillingInv, NEW p \in Callers, LockDelete(p)
  PROVE  BillingInv'
  <1> DEFINE s == loc[p].back
  <1>1. loc[p] \in Locals /\ s \in {"idle", "unbilled", "retries"}
    BY CallerFacts, LocalsFields DEF BillingInv
  <1>2. LockInv'
    BY DeleteLockInv DEF BillingInv, ProcInv, LockDelete
  <1>3. /\ lpc' = [lpc EXCEPT ![p] = "idle"] /\ lpc'[p] = "idle"
        /\ lid' = [lid EXCEPT ![p] = NoId] /\ lid'[p] = NoId
        /\ orphaned \subseteq orphaned'
    BY DEF LockDelete, Delete, BillingInv, ProcInv, LockInv, LockTypeOK
  <1>4. CallerShape(s, NoLocals, "idle", NoId) /\ SectionShape(s, NoLocals, orders, orphaned')
    BY <1>1 DEF CallerShape, SectionShape, PayStates, NoLocals
  <1> QED
    BY <1>1, <1>2, <1>3, <1>4, NoLocalsType, LockMove DEF LockDelete, Goto, CallerStates

-----------------------------------------------------------------------------
(***************************************************************************)
(* PayTransaction.                                                         *)
(***************************************************************************)
(* What holds throughout its section. *)
LEMMA PayFacts ==
  ASSUME BillingInv, NEW p \in Callers, pc[p] \in PayStates
  PROVE  /\ loc[p] \in Locals /\ loc[p].op = "pay" /\ loc[p].tx \in Tx
         /\ lpc[p] = "locked" /\ lid[p] = loc[p].tx
         /\ loc[p].snap \in TxDoc /\ loc[p].osnap \in OrderDoc /\ loc[p].card \in Method
         /\ loc[p].num \in 0..MaxOrders /\ loc[p].stamp \in Nat
         /\ pc[p] # "payRead" => loc[p].snap.billed < Amount
         /\ pc[p] \in {"payClose", "payPenalty"} => loc[p].osnap.tx \in Tx
         /\ SectionShape(pc[p], loc[p], orders, orphaned)
  <1>1. CallerShape(pc[p], loc[p], lpc[p], lid[p]) /\ loc[p] \in Locals
        /\ SectionShape(pc[p], loc[p], orders, orphaned)
    BY CallerFacts DEF BillingInv
  <1> QED
    BY <1>1, LocalsFields DEF CallerShape

(* The next step of the section, for local variables that still belong to  *)
(* the same transaction.                                                   *)
LEMMA PayShape ==
  ASSUME BillingInv, NEW p \in Callers, pc[p] \in PayStates,
         NEW s \in PayStates \cup {"panic"}, NEW r \in Locals,
         r.op = "pay", r.tx = loc[p].tx,
         r.snap.billed < Amount \/ s \in {"payRead", "panic"},
         s \in {"payClose", "payPenalty"} => r.osnap.tx \in Tx
  PROVE  CallerShape(s, r, lpc[p], lid[p])
  BY PayFacts DEF CallerShape, PayStates

(* PayTransaction reads the transaction, and its early returns. *)
LEMMA PayReadInv ==
  ASSUME BillingInv, NEW p \in Callers, PayRead(p)
  PROVE  BillingInv'
  <1> DEFINE tx == txs[loc[p].tx]
             r == [loc[p] EXCEPT !.snap = tx]
  <1>0. pc[p] = "payRead" /\ pc[p] \in PayStates /\ UNCHANGED <<dbVars, lockVars>>
    BY DEF PayRead, Goto, LocalStep, PayStates
  <1>1. tx \in TxDoc /\ tx.billed \in Nat /\ loc[p] \in Locals
    BY <1>0, PayFacts, Reads DEF BillingInv, TxDoc
  <1>2. r \in Locals /\ r.op = "pay" /\ r.tx = loc[p].tx /\ r.snap = tx
    BY <1>0, <1>1, PayFacts DEF Locals
  <1>3. CASE ~tx.finished \/ tx.billed >= Amount
    <2>1. pc' = [pc EXCEPT ![p] = "unlock"] /\ loc' = [loc EXCEPT ![p] = Leaving(p)]
      BY <1>3, <1>0, CallerFacts DEF PayRead, Goto, BillingInv, ProcInv
    <2>2. ProcInv' /\ OneOpen(orders', orphaned')
      BY <1>0, <2>1, PayFacts, SameOrders, LeavingMove DEF BillingInv, dbVars
    <2> QED
      BY <2>2, DbSame, OtherSame DEF BillingInv, PayRead, LocalStep
  <1>4. CASE ~(~tx.finished \/ tx.billed >= Amount)
    <2>1. tx.billed < Amount
      BY <1>1, <1>4, BillingAssumption
    <2>2. PICK s \in {"panic", "paySettle", "payPick"} :
                pc' = [pc EXCEPT ![p] = s] /\ loc' = [loc EXCEPT ![p] = r]
      <3>1. TagOf[loc[p].tx] \in {"user", "nouser", "missing"}
        BY <1>0, PayFacts, BillingAssumption
      <3>2. PICK s \in {"panic", "paySettle", "payPick"} : pc' = [pc EXCEPT ![p] = s]
        BY <1>4, <3>1 DEF PayRead, Goto
      <3>3. pc'[p] # "unlock"
        BY <3>2, CallerFacts DEF BillingInv, ProcInv
      <3> QED
        BY <3>2, <3>3 DEF PayRead
    <2>3. CallerShape(s, r, lpc[p], lid[p])
      BY <1>0, <1>2, <2>1, PayShape DEF PayStates
    <2>4. SectionShape(s, r, orders', orphaned)
      BY DEF SectionShape
    <2>5. ProcInv' /\ OneOpen(orders', orphaned')
      BY <1>0, <1>2, <2>2, <2>3, <2>4, SameOrders, CallerMove
      DEF BillingInv, CallerStates, PayStates, dbVars
    <2> QED
      BY <2>5, DbSame, OtherSame DEF BillingInv, PayRead, LocalStep
  <1> QED
    BY <1>3, <1>4

(* PayTransaction picks the payment method. *)
LEMMA PayPickInv ==
  ASSUME BillingInv, NEW p \in Callers, PayPick(p)
  PROVE  BillingInv'
  <1>0. pc[p] = "payPick" /\ pc[p] \in PayStates
        /\ UNCHANGED <<dbVars, envVars, todo, ticked, historyVars, lockVars>>
    BY DEF PayPick, Goto, LocalStep, PayStates
  <1>1. /\ loc[p] \in Locals /\ loc[p].op = "pay" /\ loc[p].snap.billed < Amount
        /\ loc[p].snap.method \in Method
    BY <1>0, PayFacts DEF TxDoc
  <1>2. DbInv' /\ OtherTypes'
    BY <1>0, DbSame, OtherSame DEF BillingInv
  <1>3. ASSUME NEW s \in {"panic", "payExpired", "payRecord"}, NEW c \in Method,
               NEW r \in Locals, r \in {loc[p], [loc[p] EXCEPT !.card = c]},
               pc' = [pc EXCEPT ![p] = s], loc' = [loc EXCEPT ![p] = r]
        PROVE  BillingInv'
    <2>1. r.op = "pay" /\ r.tx = loc[p].tx /\ r.snap.billed < Amount
      BY <1>1, <1>3 DEF Locals
    <2>2. CallerShape(s, r, lpc[p], lid[p])
      BY <1>0, <2>1, PayShape DEF PayStates
    <2>3. SectionShape(s, r, orders', orphaned)
      BY DEF SectionShape
    <2>4. ProcInv' /\ OneOpen(orders', orphaned')
      BY <1>0, <1>3, <2>2, <2>3, SameOrders, CallerMove
      DEF BillingInv, CallerStates, PayStates, dbVars
    <2> QED
      BY <1>2, <2>4 DEF BillingInv
  <1>4. CASE UNCHANGED loc /\ Goto(p, "payPick", "panic")
    <2>1. loc' = [loc EXCEPT ![p] = loc[p]]
      BY <1>4 DEF BillingInv, ProcInv
    <2> QED
      BY <1>1, <1>3, <1>4, <2>1 DEF Goto
  <1>5. ASSUME NEW choice \in Method, NEW s \in {"payExpired", "payRecord"},
               Goto(p, "payPick", s), loc' = [loc EXCEPT ![p].card = choice]
        PROVE  BillingInv'
    <2>1. [loc[p] EXCEPT !.card = choice] \in Locals
      BY <1>1 DEF Locals
    <2> QED
      BY <1>3, <1>5, <2>1 DEF Goto
  <1>6. \A c \in Cards : [id |-> c, failing |-> FALSE] \in Method
    BY DEF Method
  <1>7. DefaultMethods \subseteq Cards /\ \A c : FreshMethods(c) \subseteq Cards
    BY BillingAssumption DEF DefaultMethods, FreshMethods
  <1>8. \/ UNCHANGED loc /\ Goto(p, "payPick", "panic")
        \/ \E choice \in Method : \E s \in {"payExpired", "payRecord"} :
             Goto(p, "payPick", s) /\ loc' = [loc EXCEPT ![p].card = choice]
    <2> DEFINE was == loc[p].snap.method
               Usable(S) == {[id |-> c, failing |-> FALSE] : c \in S}
               current == IF was # NoMethod THEN {was} ELSE Usable(DefaultMethods)
               at(m) == IF m.id \in expired THEN "payExpired" ELSE "payRecord"
    <2>1. \/ UNCHANGED loc /\ Goto(p, "payPick", "panic")
          \/ \E m \in current : \E choice \in Usable(FreshMethods(m.id)) \cup {m} :
               Goto(p, "payPick", at(choice)) /\ loc' = [loc EXCEPT ![p].card = choice]
      BY DEF PayPick
    <2>2. Usable(DefaultMethods) \subseteq Method /\ \A c : Usable(FreshMethods(c)) \subseteq Method
      BY <1>6, <1>7
    <2>3. current \subseteq Method
      BY <1>1, <2>2
    <2>4. \A m : at(m) \in {"payExpired", "payRecord"}
      OBVIOUS
    <2> HIDE DEF current, Usable, at
    <2> QED
      BY <2>1, <2>2, <2>3, <2>4
  <1> QED
    BY <1>4, <1>5, <1>8

(* PayTransaction reports that the card has expired. *)
LEMMA PayExpiredInv ==
  ASSUME BillingInv, NEW p \in Callers, PayExpired(p)
  PROVE  BillingInv'
  <1>0. pc[p] = "payExpired" /\ pc[p] \in PayStates
    BY DEF PayExpired, Goto, PayStates
  <1>1. [loc[p].snap EXCEPT !.error = "expired"] \in TxDoc /\ loc[p].tx \in Tx
    BY <1>0, PayFacts DEF TxDoc
  <1>2. DbInv'
    BY <1>1, TxWrite DEF BillingInv, PayExpired
  <1>3. CallerShape("payDrop", loc[p], lpc[p], lid[p])
    BY <1>0, PayFacts, PayShape DEF PayStates
  <1>4. loc' = [loc EXCEPT ![p] = loc[p]]
    BY DEF PayExpired, BillingInv, ProcInv
  <1>5. SectionShape("payDrop", loc[p], orders', orphaned)
    BY DEF SectionShape
  <1>6. ProcInv' /\ OneOpen(orders', orphaned')
    BY <1>0, <1>3, <1>4, <1>5, PayFacts, SameOrders, CallerMove
    DEF BillingInv, PayExpired, Goto, CallerStates, PayStates
  <1> QED
    BY <1>2, <1>6, OtherSame DEF BillingInv, PayExpired

(* PayTransaction drops the retry of an expired card. *)
LEMMA PayDropInv ==
  ASSUME BillingInv, NEW p \in Callers, PayDrop(p)
  PROVE  BillingInv'
  <1>0. pc[p] = "payDrop" /\ pc[p] \in PayStates
    BY DEF PayDrop, Goto, PayStates
  <1>1. NoRetry \in RetryDoc
    BY BillingAssumption DEF NoRetry, RetryDoc
  <1>2. DbInv'
    BY <1>1, RetryWrite DEF BillingInv, PayDrop
  <1>3. ProcInv' /\ OneOpen(orders', orphaned')
    BY <1>0, PayFacts, SameOrders, LeavingMove DEF BillingInv, PayDrop, Goto
  <1> QED
    BY <1>2, <1>3, OtherSame DEF BillingInv, PayDrop

(* PayTransaction records the chosen method. *)
LEMMA PayRecordInv ==
  ASSUME BillingInv, NEW p \in Callers, PayRecord(p)
  PROVE  BillingInv'
  <1> DEFINE tx == [loc[p].snap EXCEPT !.method = loc[p].card]
             r == [loc[p] EXCEPT !.snap = tx]
  <1>0. pc[p] = "payRecord" /\ pc[p] \in PayStates
    BY DEF PayRecord, Goto, PayStates
  <1>1. tx \in TxDoc /\ tx.billed = loc[p].snap.billed
    BY <1>0, PayFacts DEF TxDoc
  <1>2. DbInv'
    BY <1>0, <1>1, PayFacts, TxWrite DEF BillingInv, PayRecord
  <1>3. r \in Locals /\ r.op = "pay" /\ r.tx = loc[p].tx /\ r.snap = tx
    <2>1. loc[p] \in Locals /\ loc[p].op = "pay"
      BY <1>0, PayFacts
    <2> HIDE DEF tx
    <2> QED
      BY <1>1, <2>1, SnapUpdate
  <1>4. CallerShape("payFind", r, lpc[p], lid[p])
    BY <1>0, <1>1, <1>3, PayFacts, PayShape DEF PayStates
  <1>5. SectionShape("payFind", r, orders', orphaned)
    BY DEF SectionShape
  <1>6. ProcInv' /\ OneOpen(orders', orphaned')
    BY <1>3, <1>4, <1>5, SameOrders, CallerMove
    DEF BillingInv, PayRecord, Goto, CallerStates, PayStates
  <1> QED
    BY <1>2, <1>6, OtherSame DEF BillingInv, PayRecord

(* GetPaymentOrderByTransaction, in terms of the collection. *)
LEMMA OpenIs == \A t : OpenOrders(t) = Open(orders, t)
  BY DEF OpenOrders, Open, Stored

(* Where PayTransaction goes on after the previous order. *)
LEMMA AfterCloseStates == AfterClose \in {"paySettle", "payStamp"}
  BY DEF AfterClose

(* PayFind reads the only open order there is, or sees that there is none. *)
LEMMA PayFindInv ==
  ASSUME BillingInv, NEW p \in Callers, PayFind(p)
  PROVE  BillingInv'
  <1> DEFINE t == loc[p].tx
  <1>0. pc[p] = "payFind" /\ pc[p] \in PayStates
        /\ UNCHANGED <<dbVars, envVars, todo, ticked, historyVars, lockVars>>
    BY DEF PayFind, Goto, LocalStep, PayStates
  <1>1. DbInv' /\ OtherTypes' /\ orders' = orders
    BY <1>0, DbSame, OtherSame DEF BillingInv, dbVars
  <1>2. CASE OpenOrders(t) = {}
    <2>1. pc' = [pc EXCEPT ![p] = AfterClose] /\ loc' = [loc EXCEPT ![p] = loc[p]]
      BY <1>2 DEF PayFind, Goto, BillingInv, ProcInv
    <2>2. CallerShape(AfterClose, loc[p], lpc[p], lid[p])
      BY <1>0, AfterCloseStates, PayFacts, PayShape DEF PayStates
    <2>3. SectionShape(AfterClose, loc[p], orders', orphaned)
      BY <1>1, <1>2, OpenIs, AfterCloseStates DEF SectionShape
    <2>4. ProcInv' /\ OneOpen(orders', orphaned')
      BY <1>0, <1>1, <2>1, <2>2, <2>3, AfterCloseStates, PayFacts, SameOrders, CallerMove
      DEF BillingInv, CallerStates, PayStates
    <2> QED
      BY <1>1, <2>4 DEF BillingInv
  <1>3. CASE OpenOrders(t) # {}
    <2>1. PICK n \in OpenOrders(t) : loc' = [loc EXCEPT ![p].num = n, ![p].osnap = orders[n]]
      BY <1>3 DEF PayFind
    <2> DEFINE r == [loc[p] EXCEPT !.num = n, !.osnap = orders[n]]
    <2>2. pc' = [pc EXCEPT ![p] = "payClose"] /\ loc' = [loc EXCEPT ![p] = r]
      BY <1>3, <2>1 DEF PayFind, Goto, BillingInv, ProcInv
    <2>3. n \in OrderNums /\ orders[n] \in OrderDoc /\ orders[n].tx \in Tx
      BY <2>1, Reads DEF BillingInv, OpenOrders
    <2>4. n \in 0..MaxOrders
      BY <2>3, NumType
    <2>5. /\ r \in Locals /\ r.op = "pay" /\ r.tx = t /\ r.num = n
          /\ r.snap = loc[p].snap /\ r.osnap = orders[n]
      BY <1>0, <2>3, <2>4, PayFacts DEF Locals
    <2>6. CallerShape("payClose", r, lpc[p], lid[p])
      BY <1>0, <2>3, <2>5, PayFacts, PayShape DEF PayStates
    <2>7. SectionShape("payClose", r, orders', orphaned)
      <3>1. t \in Tx
        BY <1>0, PayFacts
      <3>2. t \notin orphaned => \A m \in Open(orders, t) : m = n
        BY <2>1, <3>1, OpenIs DEF BillingInv, OneOpen
      <3> QED
        BY <1>1, <2>5, <3>2 DEF SectionShape
    <2>8. ProcInv' /\ OneOpen(orders', orphaned')
      BY <1>0, <1>1, <2>2, <2>5, <2>6, <2>7, SameOrders, CallerMove
      DEF BillingInv, CallerStates, PayStates
    <2> QED
      BY <1>1, <2>8 DEF BillingInv
  <1> QED
    BY <1>2, <1>3

(* PayClose closes the order found: none is open any more. *)
LEMMA PayCloseInv ==
  ASSUME BillingInv, NEW p \in Callers, PayClose(p)
  PROVE  BillingInv'
  <1> DEFINE o == [loc[p].osnap EXCEPT !.completed = TRUE, !.result = "closed"]
  <1>0. pc[p] = "payClose" /\ pc[p] \in PayStates
    BY DEF PayClose, Goto, PayStates
  <1>1. o \in OrderDoc /\ o.tx \in Tx /\ o.completed
    <2>1. /\ loc[p].osnap \in OrderDoc /\ loc[p].osnap.tx \in Tx
          /\ o = Completed(loc[p].osnap, "closed")
      BY <1>0, PayFacts DEF Completed
    <2> HIDE DEF o
    <2> QED
      BY <2>1, CompletedOrder
  <1>2. DbInv'
    BY <1>1, OrderWrite DEF BillingInv, PayClose
  <1>3. Shrinks
    BY <1>1, ClosedOrder DEF BillingInv, DbInv, PayClose
  <1>4. CallerShape("payPenalty", loc[p], lpc[p], lid[p])
    BY <1>0, PayFacts, PayShape DEF PayStates
  <1>5. SectionShape("payPenalty", loc[p], orders', orphaned)
    <2>1. loc[p].num \notin Open(orders', loc[p].tx)
      BY <1>1 DEF PayClose, SavePaymentOrder, Open, BillingInv, DbInv
    <2>2. Open(orders', loc[p].tx) \subseteq Open(orders, loc[p].tx)
      BY <1>3 DEF Shrinks
    <2> QED
      BY <1>0, <2>1, <2>2, PayFacts DEF SectionShape
  <1>6. loc' = [loc EXCEPT ![p] = loc[p]]
    BY DEF PayClose, BillingInv, ProcInv
  <1>7. ProcInv' /\ OneOpen(orders', orphaned')
    BY <1>0, <1>3, <1>4, <1>5, <1>6, PayFacts, CallerMove
    DEF BillingInv, PayClose, Goto, CallerStates, PayStates
  <1> QED
    BY <1>2, <1>7, OtherSame DEF BillingInv, PayClose

(* PayTransaction counts a failure of the method. *)
LEMMA PayPenaltyInv ==
  ASSUME BillingInv, NEW p \in Callers, PayPenalty(p)
  PROVE  BillingInv'
  <1> DEFINE r == [loc[p] EXCEPT !.osnap = NoOrder, !.num = 0]
  <1>0. pc[p] = "payPenalty" /\ pc[p] \in PayStates
    BY DEF PayPenalty, Goto, PayStates
  <1>1. DbInv'
    BY CounterWrite DEF BillingInv, PayPenalty
  <1>2. NoOrder \in OrderDoc /\ 0 \in 0..MaxOrders
    BY BillingAssumption DEF NoOrder, OrderDoc
  <1>3. r \in Locals /\ r.op = "pay" /\ r.tx = loc[p].tx /\ r.snap = loc[p].snap
    BY <1>0, <1>2, PayFacts DEF Locals
  <1>4. CallerShape(AfterClose, r, lpc[p], lid[p])
    BY <1>0, <1>3, AfterCloseStates, PayFacts, PayShape DEF PayStates
  <1>5. SectionShape(AfterClose, r, orders', orphaned)
    BY <1>0, <1>3, AfterCloseStates, PayFacts DEF SectionShape, PayPenalty
  <1>6. loc' = [loc EXCEPT ![p] = r]
    BY DEF PayPenalty, BillingInv, ProcInv
  <1>7. ProcInv' /\ OneOpen(orders', orphaned')
    BY <1>3, <1>4, <1>5, <1>6, AfterCloseStates, SameOrders, CallerMove
    DEF BillingInv, PayPenalty, Goto, CallerStates, PayStates
  <1> QED
    BY <1>1, <1>7, OtherSame DEF BillingInv, PayPenalty

(* PayTransaction marks a payment that needs no gateway as billed. *)
LEMMA PaySettleInv ==
  ASSUME BillingInv, NEW p \in Callers, PaySettle(p)
  PROVE  BillingInv'
  <1>0. pc[p] = "paySettle" /\ pc[p] \in PayStates
    BY DEF PaySettle, Goto, PayStates
  <1>1. [loc[p].snap EXCEPT !.billed = Amount] \in TxDoc
    <2>1. Amount \in Nat
      BY BillingAssumption
    <2> QED
      BY <1>0, <2>1, PayFacts DEF TxDoc
  <1>2. DbInv'
    BY <1>0, <1>1, PayFacts, TxWrite DEF BillingInv, PaySettle
  <1>3. ProcInv' /\ OneOpen(orders', orphaned')
    BY <1>0, PayFacts, SameOrders, LeavingMove DEF BillingInv, PaySettle, Goto
  <1> QED
    BY <1>2, <1>3, OtherSame DEF BillingInv, PaySettle

(* PayTransaction takes the time of the new order. *)
LEMMA PayStampInv ==
  ASSUME BillingInv, NEW p \in Callers, PayStamp(p)
  PROVE  BillingInv'
  <1> DEFINE r == [loc[p] EXCEPT !.stamp = clock + 1]
  <1>0. pc[p] = "payStamp" /\ pc[p] \in PayStates /\ UNCHANGED <<dbVars, lockVars>>
    BY DEF PayStamp, Goto, PayStates
  <1>1. DbInv' /\ orders' = orders
    BY <1>0, DbSame DEF BillingInv, dbVars
  <1>2. OtherTypes' /\ clock + 1 \in Nat
    BY BillingAssumption DEF BillingInv, OtherTypes, PayStamp, historyVars
  <1>3. CASE clock < MaxOrders
    <2>1. r \in Locals /\ r.op = "pay" /\ r.tx = loc[p].tx /\ r.snap = loc[p].snap
      BY <1>0, <1>2, PayFacts DEF Locals
    <2>2. CallerShape("payNumber", r, lpc[p], lid[p])
      BY <1>0, <2>1, PayFacts, PayShape DEF PayStates
    <2>3. SectionShape("payNumber", r, orders', orphaned)
      BY <1>0, <1>1, <2>1, PayFacts DEF SectionShape
    <2>4. ProcInv' /\ OneOpen(orders', orphaned')
      BY <1>0, <1>1, <1>3, <2>1, <2>2, <2>3, SameOrders, CallerMove
      DEF BillingInv, PayStamp, Goto, CallerStates, PayStates
    <2> QED
      BY <1>1, <1>2, <2>4 DEF BillingInv
  <1>4. CASE ~(clock < MaxOrders)
    <2>1. ProcInv' /\ OneOpen(orders', orphaned')
      BY <1>0, <1>1, <1>4, PayFacts, SameOrders, LeavingMove DEF BillingInv, PayStamp, Goto
    <2> QED
      BY <1>1, <1>2, <2>1 DEF BillingInv
  <1> QED
    BY <1>3, <1>4

(* PayTransaction takes the number of the new order. *)
LEMMA PayNumberInv ==
  ASSUME BillingInv, NEW p \in Callers, PayNumber(p)
  PROVE  BillingInv'
  <1> DEFINE r == [loc[p] EXCEPT !.num = NextOrderNumber]
  <1>0. pc[p] = "payNumber" /\ pc[p] \in PayStates /\ UNCHANGED <<dbVars, lockVars>>
    BY DEF PayNumber, Goto, LocalStep, PayStates
  <1>1. NextOrderNumber \in 0..MaxOrders
    BY NumType DEF PayNumber
  <1>2. r \in Locals /\ r.op = "pay" /\ r.tx = loc[p].tx /\ r.snap = loc[p].snap
    BY <1>0, <1>1, PayFacts DEF Locals
  <1>3. CallerShape("paySave", r, lpc[p], lid[p])
    BY <1>0, <1>2, PayFacts, PayShape DEF PayStates
  <1>4. SectionShape("paySave", r, orders', orphaned)
    BY <1>0, <1>2, PayFacts DEF SectionShape, dbVars
  <1>5. ProcInv' /\ OneOpen(orders', orphaned')
    BY <1>0, <1>2, <1>3, <1>4, SameOrders, CallerMove
    DEF BillingInv, PayNumber, Goto, CallerStates, PayStates, dbVars
  <1> QED
    BY <1>5, DbSame, OtherSame DEF BillingInv, PayNumber, LocalStep

(* The critical step: the section is exclusive, so nobody else relies on   *)
(* this transaction having no open order when the new one is saved.        *)
LEMMA SectionExclusive ==
  ASSUME BillingInv, NEW p \in Callers, NEW q \in Callers,
         pc[p] \in PayStates, pc[q] \in PayStates,
         loc[p].tx = loc[q].tx, loc[p].tx \notin orphaned
  PROVE  p = q
  <1>1. loc[p].tx \in Ids
    BY PayFacts, BillingAssumption
  <1>2. Holds(p, loc[p].tx) /\ Holds(q, loc[p].tx)
    BY PayFacts DEF Holds
  <1> QED
    BY <1>1, <1>2, ExclusionFromInv DEF BillingInv, ProcInv, ExclusiveUnlessOrphaned

(* A caller starts a goroutine and leaves. *)
LEMMA SpawnMove ==
  ASSUME BillingInv, NEW p \in Callers, NEW g \in Goroutines, NEW r \in Locals,
         Spawn(p, g, "send", r), UNCHANGED lockVars, lpc[p] = "locked",
         GoroutineShape("send", r),
         \A q \in Callers \ {p} : SectionShape(pc[q], loc[q], orders', orphaned)
  PROVE  ProcInv' /\ ticked' \subseteq Goroutines
  <1>1. LockInv'
    BY NextLockInv DEF BillingInv, ProcInv
  <1>2. p # g /\ p \in Procs /\ g \in Procs /\ "unlock" \in CallerStates /\ "send" \in GoroutineStates
    BY BillingAssumption DEF Procs, CallerStates, GoroutineStates
  <1>3. /\ pc' \in [Procs -> CallerStates \cup GoroutineStates]
        /\ loc' \in [Procs -> Locals]
        /\ pc'[p] = "unlock" /\ loc'[p] = Leaving(p)
        /\ pc'[g] = "send" /\ loc'[g] = r
        /\ \A q \in Procs \ {p, g} : SameProc(q)
    BY <1>2, LeavingType DEF BillingInv, ProcInv, SameProc, Spawn
  <1>4. CallersKept(Callers)
    <2> SUFFICES ASSUME NEW q \in Callers
                 PROVE  /\ pc'[q] \in CallerStates
                        /\ CallerShape(pc'[q], loc'[q], lpc'[q], lid'[q])
                        /\ SectionShape(pc'[q], loc'[q], orders', orphaned')
      BY DEF CallersKept
    <2>1. CASE q = p
      <3>1. CallerShape("unlock", Leaving(p), "locked", lid[p])
        BY LeavingType DEF CallerShape, PayStates, BillingInv
      <3>2. SectionShape("unlock", Leaving(p), orders', orphaned)
        BY DEF SectionShape
      <3> QED
        BY <1>2, <1>3, <2>1, <3>1, <3>2 DEF lockVars
    <2>2. CASE q # p
      <3>1. SameProc(q)
        BY <1>3, <2>2, BillingAssumption DEF Procs
      <3> QED
        BY <2>2, <3>1 DEF BillingInv, ProcInv, SameProc, lockVars
    <2> QED
      BY <2>1, <2>2
  <1>5. GoroutinesKept(Goroutines \ {g})
    BY <1>3, GoroutineFrame, BillingAssumption DEF BillingInv, Procs
  <1>6. GoroutinesKept(Goroutines)
    BY <1>2, <1>3, <1>5 DEF GoroutinesKept
  <1>7. ticked' \subseteq Goroutines
    BY DEF Spawn, BillingInv, OtherTypes
  <1> QED
    BY <1>1, <1>3, <1>4, <1>6, <1>7 DEF ProcInv, CallersKept, GoroutinesKept

(* PayTransaction saves the order and starts processPay: the only step *)
(* that opens an order, and the caller's transaction has none open. *)
LEMMA PaySaveInv ==
  ASSUME BillingInv, NEW p \in Callers, PaySave(p)
  PROVE  BillingInv'
  <1> DEFINE n == loc[p].num
             t == loc[p].tx
             new == [NoOrder EXCEPT !.tx = t, !.card = loc[p].card.id,
                                    !.amount = Amount - loc[p].snap.billed,
                                    !.opened = loc[p].stamp]
             r == [NoLocals EXCEPT !.op = "pay", !.tx = t, !.num = n]
  <1>0. pc[p] = "paySave" /\ pc[p] \in PayStates
    BY DEF PaySave, PayStates
  <1>1. new \in OrderDoc /\ new.tx = t
    <2>0. loc[p].snap.billed \in Nat /\ loc[p].snap.billed < Amount
      BY <1>0, PayFacts DEF TxDoc
    <2>a. Amount \in Nat
      BY BillingAssumption
    <2>1. Amount - loc[p].snap.billed \in Nat
      BY <2>0, <2>a
    <2>2. loc[p].card.id \in Cards \cup {NoCard} /\ t \in Tx /\ loc[p].stamp \in Nat
      BY <1>0, PayFacts DEF Method
    <2> QED
      BY <2>1, <2>2 DEF NoOrder, OrderDoc
  <1>2. DbInv'
    BY <1>0, <1>1, PayFacts, OrderWrite DEF BillingInv, PaySave
  <1>3. \A u : u # t => Open(orders', u) \subseteq Open(orders, u)
    BY <1>1 DEF PaySave, SavePaymentOrder, Open, BillingInv, DbInv
  <1>4. t \notin orphaned => Open(orders', t) \subseteq {n}
    <2> SUFFICES ASSUME t \notin orphaned, NEW m \in Open(orders', t), m # n
                 PROVE  FALSE
      OBVIOUS
    <2>1. m \in Open(orders, t)
      BY DEF PaySave, SavePaymentOrder, Open, BillingInv, DbInv
    <2> QED
      BY <1>0, <2>1, PayFacts DEF SectionShape
  <1>5. OneOpen(orders', orphaned')
    <2> SUFFICES ASSUME NEW u \in Tx \ orphaned, NEW k \in Open(orders', u),
                        NEW m \in Open(orders', u)
                 PROVE  k = m
      BY DEF OneOpen, PaySave, lockVars
    <2>1. CASE u = t
      BY <1>4, <2>1
    <2>2. CASE u # t
      BY <1>3, <2>2 DEF BillingInv, OneOpen
    <2> QED
      BY <2>1, <2>2
  <1>6. ASSUME NEW q \in Callers \ {p}
        PROVE  SectionShape(pc[q], loc[q], orders', orphaned)
    <2>1. SectionShape(pc[q], loc[q], orders, orphaned)
      BY DEF BillingInv, ProcInv
    <2>2. CASE loc[q].tx # t
      BY <1>3, <2>1, <2>2 DEF SectionShape
    <2>3. CASE loc[q].tx = t /\ t \notin orphaned
      <3>1. pc[q] \notin PayStates
        BY <1>0, <2>3, SectionExclusive
      <3> QED
        BY <3>1 DEF SectionShape, PayStates
    <2>4. CASE loc[q].tx = t /\ t \in orphaned
      BY <2>4 DEF SectionShape
    <2> QED
      BY <2>2, <2>3, <2>4
  <1>7. r \in Locals /\ r.op = "pay" /\ r.tx = t
    <2>1. t \in Tx \cup {NoTx} /\ n \in 0..MaxOrders
      BY <1>0, PayFacts
    <2>2. r \in Locals
      BY <2>1, StartType
    <2> QED
      BY <2>2 DEF NoLocals
  <1>8. GoroutineShape("send", r)
    BY <1>0, <1>7, PayFacts DEF GoroutineShape, OkStates, FailStates
  <1>9. ProcInv' /\ ticked' \subseteq Goroutines
    BY <1>0, <1>6, <1>7, <1>8, PayFacts, SpawnMove DEF PaySave
  <1>10. OtherTypes'
    BY <1>9 DEF BillingInv, OtherTypes, PaySave, envVars
  <1> QED
    BY <1>2, <1>5, <1>9, <1>10 DEF BillingInv

-----------------------------------------------------------------------------
(***************************************************************************)
(* Refunds, panics and deadlines of callers.                               *)
(***************************************************************************)
LEMMA ReturnStartInv ==
  ASSUME BillingInv, NEW p \in Callers, ReturnStart(p)
  PROVE  BillingInv'
  <1> DEFINE order == IF loc[p].op = "return" THEN txs[loc[p].tx].order ELSE loc[p].num
             r == [NoLocals EXCEPT !.op = "refund", !.num = order]
  <1>1. pc[p] = "returnRead" /\ UNCHANGED <<dbVars, envVars, todo, historyVars, lockVars>>
    BY DEF ReturnStart
  <1>2. CallerShape("returnRead", loc[p], lpc[p], lid[p]) /\ loc[p] \in Locals
    BY <1>1, CallerFacts DEF BillingInv
  <1>3. lpc[p] = "locked"
    BY <1>2 DEF CallerShape
  <1>4. order \in 0..MaxOrders
    <2>1. loc[p].num \in 0..MaxOrders
      BY <1>2, LocalsFields
    <2>2. loc[p].op = "return" => txs[loc[p].tx] \in TxDoc
      BY <1>2, Reads DEF BillingInv, CallerShape
    <2> QED
      BY <2>1, <2>2 DEF TxDoc
  <1>5. DbInv' /\ orders' = orders
    BY <1>1, DbSame DEF BillingInv, dbVars
  <1>6. CASE pc' = [pc EXCEPT ![p] = "unlock"] /\ loc' = [loc EXCEPT ![p] = Leaving(p)]
             /\ UNCHANGED ticked
    <2>1. ProcInv' /\ OneOpen(orders', orphaned')
      BY <1>1, <1>3, <1>5, <1>6, SameOrders, LeavingMove DEF BillingInv
    <2> QED
      BY <1>1, <1>5, <1>6, <2>1, OtherSame DEF BillingInv
  <1>7. ASSUME NEW g \in Goroutines, Spawn(p, g, "send", r)
        PROVE  BillingInv'
    <2>1. r \in Locals
      <3>1. NoTx \in Tx \cup {NoTx}
        OBVIOUS
      <3> QED
        BY <1>4, <3>1, StartType
    <2>2. GoroutineShape("send", r)
      BY DEF GoroutineShape, OkStates, FailStates, NoLocals
    <2>3. \A q \in Callers \ {p} : SectionShape(pc[q], loc[q], orders', orphaned)
      BY <1>5 DEF BillingInv, ProcInv
    <2>4. ProcInv' /\ ticked' \subseteq Goroutines
      BY <1>1, <1>3, <1>7, <2>1, <2>2, <2>3, SpawnMove
    <2>5. OtherTypes'
      BY <1>1, <2>4 DEF BillingInv, OtherTypes, envVars, historyVars
    <2>6. OneOpen(orders', orphaned')
      BY <1>1, <1>5 DEF BillingInv, lockVars
    <2> QED
      BY <1>5, <2>4, <2>5, <2>6 DEF BillingInv
  <1> QED
    BY <1>6, <1>7 DEF ReturnStart, Goto

(* A handler that panicked releases its lock on the way out. *)
LEMMA RecoveredInv ==
  ASSUME BillingInv, NEW p \in Callers, Recovered(p)
  PROVE  BillingInv'
  <1>1. lpc[p] = "locked"
    BY CallerFacts DEF BillingInv, CallerShape, Recovered, Goto
  <1>2. ProcInv' /\ OneOpen(orders', orphaned')
    BY <1>1, SameOrders, LeavingMove DEF BillingInv, Recovered, Goto, LocalStep, dbVars
  <1> QED
    BY <1>2, DbSame, OtherSame DEF BillingInv, Recovered, LocalStep

(* A caller's context ends. *)
LEMMA CallerDeadlineInv ==
  ASSUME BillingInv, NEW p \in Callers, CallerDeadline(p)
  PROVE  BillingInv'
  <1>0. CallerShape(pc[p], loc[p], lpc[p], lid[p]) /\ loc[p] \in Locals
    BY CallerFacts DEF BillingInv
  <1>1. CASE pc[p] \in PayStates \cup {"returnRead"} /\ pc' = [pc EXCEPT ![p] = "unlock"]
             /\ loc' = [loc EXCEPT ![p] = Leaving(p)]
    <2>1. ProcInv' /\ OneOpen(orders', orphaned')
      BY <1>0, <1>1, SameOrders, LeavingMove
      DEF BillingInv, CallerShape, CallerDeadline, LocalStep, dbVars
    <2> QED
      BY <2>1, DbSame, OtherSame DEF BillingInv, CallerDeadline, LocalStep
  <1>2. CASE pc[p] \in {"retryRead", "retryReset"} /\ pc' = [pc EXCEPT ![p] = loc[p].back]
             /\ loc' = [loc EXCEPT ![p] = NoLocals]
    <2>1. lpc[p] = "idle" /\ loc[p].back \in {"idle", "unbilled", "retries"}
      BY <1>0, <1>2, LocalsFields DEF CallerShape
    <2>2. CallerShape(loc[p].back, NoLocals, lpc[p], lid[p])
      BY <2>1 DEF CallerShape, PayStates, NoLocals
    <2>3. SectionShape(loc[p].back, NoLocals, orders', orphaned)
      BY <2>1 DEF SectionShape
    <2>4. ProcInv' /\ OneOpen(orders', orphaned')
      BY <1>2, <2>1, <2>2, <2>3, NoLocalsType, SameOrders, CallerMove
      DEF BillingInv, CallerDeadline, LocalStep, CallerStates, dbVars
    <2> QED
      BY <2>4, DbSame, OtherSame DEF BillingInv, CallerDeadline, LocalStep
  <1> QED
    BY <1>1, <1>2 DEF CallerDeadline

-----------------------------------------------------------------------------
(***************************************************************************)
(* processPay and processRefund.                                           *)
(***************************************************************************)
(* What holds of a running goroutine. *)
LEMMA JobFacts ==
  ASSUME BillingInv, NEW g \in Goroutines
  PROVE  /\ g \in Procs /\ loc[g] \in Locals
         /\ GoroutineShape(pc[g], loc[g])
         /\ loc[g].snap \in TxDoc /\ loc[g].osnap \in OrderDoc
         /\ loc[g].attempt \in 0..MaxRetryAttempts
         /\ pc[g] \in (OkStates \cup FailStates) \ {"okGet", "failGet"}
              => loc[g].num \in OrderNums /\ loc[g].osnap.tx \in Tx
         /\ loc[g].op = "pay" => loc[g].tx \in Tx
         /\ loc' = loc => loc' = [loc EXCEPT ![g] = loc[g]]
  <1>1. g \in Procs /\ loc[g] \in Locals /\ GoroutineShape(pc[g], loc[g])
    BY GoroutineFacts DEF BillingInv
  <1>2. loc' = loc => loc' = [loc EXCEPT ![g] = loc[g]]
    BY DEF BillingInv, ProcInv
  <1> QED
    BY <1>1, <1>2, LocalsFields DEF GoroutineShape

(* The answer of the gateway to a payment. *)
LEMMA SendPayInv ==
  ASSUME BillingInv, NEW g \in Goroutines, SendPay(g)
  PROVE  BillingInv'
  <1>1. loc[g] \in Locals /\ loc[g].tx \in Tx /\ loc[g].op = "pay"
    BY JobFacts DEF SendPay
  <1>2. PICK s \in {"okGet", "failGet"} : pc' = [pc EXCEPT ![g] = s]
    BY DEF SendPay, Goto
  <1>3. GoroutineShape(s, loc[g])
    BY <1>1 DEF GoroutineShape, OkStates, FailStates
  <1>4. loc' = [loc EXCEPT ![g] = loc[g]] /\ s \in GoroutineStates
    BY JobFacts DEF SendPay, GoroutineStates, OkStates, FailStates
  <1>5. ProcInv' /\ OneOpen(orders', orphaned')
    BY <1>1, <1>2, <1>3, <1>4, SameOrders, GoroutineMove DEF BillingInv, SendPay, dbVars
  <1>6. OtherTypes'
    <2>1. captured' \in [Tx -> Nat]
      BY BillingAssumption DEF BillingInv, OtherTypes, SendPay
    <2> QED
      BY <1>1, <2>1 DEF BillingInv, OtherTypes, SendPay, envVars
  <1> QED
    BY <1>5, <1>6, DbSame DEF BillingInv, SendPay

(* The answer of the gateway to a refund. *)
LEMMA SendRefundInv ==
  ASSUME BillingInv, NEW g \in Goroutines, SendRefund(g)
  PROVE  BillingInv'
  <1>0. UNCHANGED <<dbVars, envVars, todo, historyVars, lockVars>> /\ loc[g].op = "refund"
    BY DEF SendRefund
  <1>1. DbInv' /\ orders' = orders
    BY <1>0, DbSame DEF BillingInv, dbVars
  <1>2. CASE Finish(g)
    BY <1>0, <1>1, <1>2, SameOrders, FinishMove, OtherFinish DEF BillingInv
  <1>3. ASSUME NEW s \in {"okGet", "failGet"}, Goto(g, "send", s), UNCHANGED <<loc, ticked>>
        PROVE  BillingInv'
    <2>1. GoroutineShape(s, loc[g]) /\ s \in GoroutineStates
      BY <1>0 DEF GoroutineShape, OkStates, FailStates, GoroutineStates
    <2>2. ProcInv' /\ OneOpen(orders', orphaned')
      BY <1>0, <1>1, <1>3, <2>1, JobFacts, SameOrders, GoroutineMove DEF BillingInv, Goto
    <2> QED
      BY <1>0, <1>1, <1>3, <2>2, OtherSame DEF BillingInv
  <1> QED
    BY <1>2, <1>3 DEF SendRefund

(* GetPaymentOrder. *)
LEMMA GetOrderInv ==
  ASSUME BillingInv, NEW g \in Goroutines, OkGet(g) \/ FailGet(g)
  PROVE  BillingInv'
  <1> DEFINE n == loc[g].num
             r == [loc[g] EXCEPT !.osnap = orders[n]]
  <1>0. UNCHANGED <<dbVars, envVars, todo, historyVars, lockVars>>
    BY DEF OkGet, FailGet, GetOrder
  <1>1. DbInv' /\ orders' = orders
    BY <1>0, DbSame DEF BillingInv, dbVars
  <1>2. CASE Finish(g)
    BY <1>0, <1>1, <1>2, SameOrders, FinishMove, OtherFinish DEF BillingInv
  <1>3. ASSUME NEW s \in {"okClose", "okReset", "failPenalty"}, Stored(n),
               s = "okReset" => orders[n].completed,
               pc' = [pc EXCEPT ![g] = s], loc' = [loc EXCEPT ![g].osnap = orders[n]],
               UNCHANGED ticked
        PROVE  BillingInv'
    <2>1. n \in OrderNums /\ orders[n] \in OrderDoc /\ orders[n].tx \in Tx
      BY <1>3, Reads DEF BillingInv
    <2>2. /\ r \in Locals /\ r.op = loc[g].op /\ r.tx = loc[g].tx /\ r.num = n
          /\ r.osnap = orders[n]
      BY <2>1, JobFacts DEF Locals
    <2>3. GoroutineShape(s, r) /\ s \in GoroutineStates
      BY <1>3, <2>1, <2>2, JobFacts DEF GoroutineShape, OkStates, FailStates, GoroutineStates
    <2>4. ProcInv' /\ OneOpen(orders', orphaned')
      BY <1>0, <1>1, <1>3, <2>2, <2>3, SameOrders, GoroutineMove DEF BillingInv
    <2> QED
      BY <1>0, <1>1, <1>3, <2>4, OtherSame DEF BillingInv
  <1> QED
    BY <1>2, <1>3 DEF OkGet, FailGet, GetOrder, Goto

(* The order is saved as completed. *)
LEMMA SaveClosedInv ==
  ASSUME BillingInv, NEW g \in Goroutines, OkClose(g) \/ FailClose(g)
  PROVE  BillingInv'
  <1>1. PICK s \in {"okReset", "failTxRead"}, x \in {"approved", "failed"} :
          /\ pc[g] \in {"okClose", "failClose"}
          /\ SaveClosed(g, pc[g], s, x)
    BY DEF OkClose, FailClose, SaveClosed, Goto
  <1> DEFINE o == [loc[g].osnap EXCEPT !.completed = TRUE, !.result = x]
             r == [loc[g] EXCEPT !.osnap = o]
  <1>2. loc[g].num \in OrderNums /\ loc[g].osnap.tx \in Tx
    BY <1>1, JobFacts DEF OkStates, FailStates
  <1>3. o \in OrderDoc /\ o.tx \in Tx /\ o.completed
    <2>1. /\ loc[g].osnap \in OrderDoc
          /\ o = Completed(loc[g].osnap, x)
      BY JobFacts DEF Completed
    <2> HIDE DEF o
    <2> QED
      BY <1>2, <2>1, CompletedOrder
  <1>4. DbInv'
    BY <1>1, <1>3, OrderWrite DEF BillingInv, SaveClosed
  <1>5. Shrinks
    BY <1>1, <1>3, ClosedOrder DEF BillingInv, DbInv, SaveClosed
  <1>6. /\ r \in Locals /\ r.op = loc[g].op /\ r.tx = loc[g].tx /\ r.num = loc[g].num
        /\ r.osnap = o
    BY <1>3, JobFacts DEF Locals
  <1>7. GoroutineShape(s, r) /\ s \in GoroutineStates
    BY <1>2, <1>3, <1>6, JobFacts DEF GoroutineShape, OkStates, FailStates, GoroutineStates
  <1>8. ProcInv' /\ OneOpen(orders', orphaned')
    BY <1>1, <1>5, <1>6, <1>7, GoroutineMove DEF BillingInv, SaveClosed, Goto
  <1> QED
    BY <1>1, <1>4, <1>8, OtherSame DEF BillingInv, SaveClosed

(* The fail counter of the order's card. *)
LEMMA CounterInv ==
  ASSUME BillingInv, NEW g \in Goroutines, OkReset(g) \/ FailPenalty(g)
  PROVE  BillingInv'
  <1>1. PICK s \in {"okRefund", "okTxRead", "failTxRead", "failClose"} :
          pc' = [pc EXCEPT ![g] = s] /\ (s = "okRefund" => pc[g] = "okReset")
    BY DEF OkReset, FailPenalty, Goto
  <1>2. pc[g] \in {"okReset", "failPenalty"} /\ UNCHANGED <<orders, loc>>
    BY DEF OkReset, FailPenalty, Goto
  <1>3. DbInv'
    BY CounterWrite DEF BillingInv, OkReset, FailPenalty
  <1>4. GoroutineShape(s, loc[g]) /\ s \in GoroutineStates
    BY <1>1, <1>2, JobFacts DEF GoroutineShape, OkStates, FailStates, GoroutineStates
  <1>5. ProcInv' /\ OneOpen(orders', orphaned')
    BY <1>1, <1>2, <1>4, JobFacts, SameOrders, GoroutineMove DEF BillingInv, OkReset, FailPenalty
  <1> QED
    BY <1>3, <1>5, OtherSame DEF BillingInv, OkReset, FailPenalty

(* The refund is written on a completed order. *)
LEMMA OkRefundInv ==
  ASSUME BillingInv, NEW g \in Goroutines, OkRefund(g)
  PROVE  BillingInv'
  <1> DEFINE o == [loc[g].osnap EXCEPT !.refund = Amount]
  <1>1. loc[g].osnap.tx \in Tx /\ loc[g].osnap.completed
    BY JobFacts DEF OkRefund, GoroutineShape, OkStates
  <1>2. o \in OrderDoc /\ o.tx \in Tx /\ o.completed
    <2>1. Amount \in Nat
      BY BillingAssumption
    <2> QED
      BY <1>1, <2>1, JobFacts DEF OrderDoc
  <1>3. DbInv'
    BY <1>2, OrderWrite DEF BillingInv, OkRefund
  <1>4. Shrinks
    BY <1>2, ClosedOrder DEF BillingInv, DbInv, OkRefund
  <1> QED
    BY <1>3, <1>4, FinishMove, OtherFinish DEF BillingInv, OkRefund

(* GetTransaction. *)
LEMMA ReadTransactionInv ==
  ASSUME BillingInv, NEW g \in Goroutines, OkTxRead(g) \/ FailTxRead(g)
  PROVE  BillingInv'
  <1> DEFINE r == [loc[g] EXCEPT !.snap = txs[loc[g].osnap.tx]]
  <1>1. PICK s \in {"okTxWrite", "failTxWrite"} :
          /\ pc[g] \in {"okTxRead", "failTxRead"}
          /\ ReadTransaction(g, pc[g], s)
    BY DEF OkTxRead, FailTxRead, ReadTransaction, Goto
  <1>2. loc[g].num \in OrderNums /\ loc[g].osnap.tx \in Tx
    BY <1>1, JobFacts DEF OkStates, FailStates
  <1>3. txs[loc[g].osnap.tx] \in TxDoc
    BY <1>2, Reads DEF BillingInv
  <1>4. /\ r \in Locals /\ r.op = loc[g].op /\ r.tx = loc[g].tx /\ r.num = loc[g].num
        /\ r.osnap = loc[g].osnap
    BY <1>3, JobFacts DEF Locals
  <1>5. GoroutineShape(s, r) /\ s \in GoroutineStates
    BY <1>2, <1>4, JobFacts DEF GoroutineShape, OkStates, FailStates, GoroutineStates
  <1>6. ProcInv' /\ OneOpen(orders', orphaned')
    BY <1>1, <1>4, <1>5, SameOrders, GoroutineMove
    DEF BillingInv, ReadTransaction, Goto, LocalStep, dbVars
  <1> QED
    BY <1>1, <1>6, DbSame, OtherSame DEF BillingInv, ReadTransaction, LocalStep

(* The payment fields of the transaction, after success and after failure. *)
LEMMA TxWriteInv ==
  ASSUME BillingInv, NEW g \in Goroutines, OkTxWrite(g) \/ FailTxWrite(g)
  PROVE  BillingInv'
  <1> DEFINE r == [loc[g] EXCEPT !.snap = NoLocals.snap]
             n == loc[g].num
             tx == loc[g].snap
  <1>0. UNCHANGED <<orders, methods, retries, envVars, todo, ticked, historyVars, lockVars>>
    BY DEF OkTxWrite, FailTxWrite
  <1>1. pc[g] \in {"okTxWrite", "failTxWrite"} /\ loc' = [loc EXCEPT ![g] = r]
    BY DEF OkTxWrite, FailTxWrite, Goto
  <1>2. PICK s \in {"okDrop", "failRetryRead"} : pc' = [pc EXCEPT ![g] = s]
    BY DEF OkTxWrite, FailTxWrite, Goto
  <1>3. n \in OrderNums /\ loc[g].osnap.tx \in Tx /\ loc[g].osnap.amount \in Nat
    BY <1>1, JobFacts DEF OkStates, FailStates, OrderDoc
  <1>4. PICK b \in Nat, e \in {"", "failed"} :
          UpdateTransactionPayment(loc[g].osnap.tx,
            [tx EXCEPT !.order = n, !.billed = b, !.error = e, !.orders = @ \cup {n}])
    <2>1. tx.billed \in Nat
      BY JobFacts DEF TxDoc
    <2>2. tx.billed + loc[g].osnap.amount \in Nat
      BY <1>3, <2>1
    <2>3. Amount \in Nat
      BY BillingAssumption
    <2> QED
      BY <2>2, <2>3 DEF OkTxWrite, FailTxWrite
  <1>5. [tx EXCEPT !.order = n, !.billed = b, !.error = e, !.orders = @ \cup {n}] \in TxDoc
    <2>1. n \in 0..MaxOrders /\ tx \in TxDoc
      BY <1>3, NumType, JobFacts
    <2>2. tx.orders \cup {n} \in SUBSET OrderNums
      BY <1>3, <2>1 DEF TxDoc
    <2> QED
      BY <2>1, <2>2 DEF TxDoc
  <1>6. DbInv'
    BY <1>0, <1>3, <1>4, <1>5, TxWrite DEF BillingInv
  <1>7. /\ r \in Locals /\ r.op = loc[g].op /\ r.tx = loc[g].tx /\ r.num = n
        /\ r.osnap = loc[g].osnap
    BY NoLocalsType, JobFacts DEF Locals
  <1>8. GoroutineShape(s, r) /\ s \in GoroutineStates
    BY <1>3, <1>7, JobFacts DEF GoroutineShape, OkStates, FailStates, GoroutineStates
  <1>9. ProcInv' /\ OneOpen(orders', orphaned')
    BY <1>0, <1>1, <1>2, <1>7, <1>8, SameOrders, GoroutineMove DEF BillingInv
  <1> QED
    BY <1>0, <1>6, <1>9, OtherSame DEF BillingInv

(* The absent retry record has the type of one. *)
LEMMA NoRetryType == NoRetry \in RetryDoc
  BY BillingAssumption DEF NoRetry, RetryDoc

(* processPaymentResponse deletes the retry record. *)
LEMMA OkDropInv ==
  ASSUME BillingInv, NEW g \in Goroutines, OkDrop(g)
  PROVE  BillingInv'
  <1>1. DbInv'
    BY NoRetryType, RetryWrite DEF BillingInv, OkDrop
  <1> QED
    BY <1>1, SameOrders, FinishMove, OtherFinish DEF BillingInv, OkDrop

(* schedulePaymentRetry reads the retry record. *)
LEMMA FailRetryReadInv ==
  ASSUME BillingInv, NEW g \in Goroutines, FailRetryRead(g)
  PROVE  BillingInv'
  <1> DEFINE r == [loc[g] EXCEPT !.attempt = retries[loc[g].osnap.tx].attempt]
  <1>0. pc[g] = "failRetryRead" /\ UNCHANGED <<dbVars, lockVars>>
    BY DEF FailRetryRead, Goto, LocalStep
  <1>1. loc[g].num \in OrderNums /\ loc[g].osnap.tx \in Tx
    BY <1>0, JobFacts DEF FailStates
  <1>2. retries[loc[g].osnap.tx].attempt \in 0..MaxRetryAttempts
    BY <1>1, Reads DEF BillingInv, RetryDoc
  <1>3. /\ r \in Locals /\ r.op = loc[g].op /\ r.tx = loc[g].tx /\ r.num = loc[g].num
        /\ r.osnap = loc[g].osnap
    BY <1>2, JobFacts DEF Locals
  <1>4. GoroutineShape("failRetryWrite", r) /\ "failRetryWrite" \in GoroutineStates
    BY <1>1, <1>3, JobFacts DEF GoroutineShape, FailStates, GoroutineStates
  <1>5. ProcInv' /\ OneOpen(orders', orphaned')
    BY <1>0, <1>3, <1>4, SameOrders, GoroutineMove
    DEF BillingInv, FailRetryRead, Goto, dbVars
  <1> QED
    BY <1>5, DbSame, OtherSame DEF BillingInv, FailRetryRead, LocalStep

(* schedulePaymentRetry: the attempt never exceeds the table of delays. *)
LEMMA FailRetryWriteInv ==
  ASSUME BillingInv, NEW g \in Goroutines, FailRetryWrite(g)
  PROVE  BillingInv'
  <1> DEFINE t == loc[g].osnap.tx
             next == loc[g].attempt + 1
  <1>1. t \in Tx /\ loc[g].attempt \in 0..MaxRetryAttempts
    BY JobFacts DEF FailRetryWrite, FailStates, OkStates
  <1>2. PICK x \in RetryDoc : retries' = [retries EXCEPT ![t] = x]
    <2>1. CASE next > MaxRetryAttempts
      BY <2>1, NoRetryType DEF FailRetryWrite, GiveUp
    <2>2. CASE ~(next > MaxRetryAttempts)
      <3>1. MaxRetryAttempts \in Nat
        BY BillingAssumption
      <3>2. [attempt |-> next, due |-> FALSE] \in RetryDoc
        BY <1>1, <2>2, <3>1 DEF RetryDoc
      <3> QED
        BY <2>2, <3>2 DEF FailRetryWrite, SaveRetry
    <2> QED
      BY <2>1, <2>2
  <1>3. DbInv'
    BY <1>2, RetryWrite DEF BillingInv, FailRetryWrite
  <1>4. exhausted' \subseteq Tx
    BY <1>1 DEF FailRetryWrite, GiveUp, SaveRetry, BillingInv, OtherTypes
  <1>5. OtherTypes'
    BY <1>4 DEF FailRetryWrite, BillingInv, OtherTypes, Finish, envVars
  <1>6. ProcInv' /\ OneOpen(orders', orphaned')
    BY SameOrders, FinishMove DEF BillingInv, FailRetryWrite
  <1> QED
    BY <1>3, <1>5, <1>6 DEF BillingInv

(* A goroutine's context ends. *)
LEMMA JobDeadlineInv ==
  ASSUME BillingInv, NEW g \in Goroutines, JobDeadline(g)
  PROVE  BillingInv'
  <1>1. lost' \subseteq Tx
    BY JobFacts DEF JobDeadline, Unrecorded, BillingInv, OtherTypes
  <1>2. OtherTypes'
    BY <1>1 DEF JobDeadline, BillingInv, OtherTypes, Finish, envVars
  <1>3. ProcInv' /\ OneOpen(orders', orphaned')
    BY SameOrders, FinishMove DEF BillingInv, JobDeadline, dbVars
  <1> QED
    BY <1>2, <1>3, DbSame DEF BillingInv, JobDeadline

-----------------------------------------------------------------------------
(***************************************************************************)
(* The process and the rest of the world.                                  *)
(***************************************************************************)
(* Where every caller and goroutine starts, at first and after a restart. *)
LEMMA IdleShape ==
  /\ CallerShape("idle", NoLocals, "idle", NoId)
  /\ GoroutineShape("idle", NoLocals)
  /\ \A ords, orph : SectionShape("idle", NoLocals, ords, orph)
  /\ "idle" \in CallerStates /\ "idle" \in GoroutineStates
  BY DEF CallerShape, GoroutineShape, SectionShape, NoLocals, PayStates, OkStates,
         FailStates, CallerStates, GoroutineStates

(* A crash forgets every call, goroutine and lock. *)
LEMMA CrashRestartInv ==
  ASSUME BillingInv, CrashRestart
  PROVE  BillingInv'
  <1>1. LockInv'
    BY LockAssumption
    DEF BillingInv, ProcInv, CrashRestart, LockInv, LockTypeOK, CallShape, OwnerInv, NoLeak,
        CurrentEntry, Using, LockStates
  <1>2. ProcInv'
    BY <1>1, IdleShape, NoLocalsType DEF CrashRestart, ProcInv, Procs
  <1>3. lost' \subseteq Tx
    <2>1. \A g \in Goroutines : Unrecorded(g) => loc[g].tx \in Tx
      BY JobFacts DEF Unrecorded
    <2> QED
      BY <2>1 DEF CrashRestart, BillingInv, OtherTypes
  <1>4. OtherTypes'
    BY <1>3 DEF CrashRestart, BillingInv, OtherTypes, envVars
  <1>5. OneOpen(orders', orphaned')
    BY DEF CrashRestart, BillingInv, dbVars
  <1> QED
    BY <1>2, <1>4, <1>5, DbSame DEF BillingInv, CrashRestart

(* Charge points, users and time: no call, goroutine or order moves. *)
LEMMA EnvironmentInv ==
  ASSUME BillingInv, Environment
  PROVE  BillingInv'
  <1>1. UNCHANGED <<pc, loc, orders, lockVars, clock, calls, todo, ticked, historyVars>>
    BY DEF Environment, FinishTransaction, RetryDue, SaveMethod, DeleteMethod, CardExpires,
           dbVars, envVars
  <1>2. ProcInv' /\ OneOpen(orders', orphaned')
    BY <1>1, NobodyMoves DEF BillingInv
  <1>3. OtherTypes'
    BY <1>1 DEF BillingInv, OtherTypes, Environment, FinishTransaction, RetryDue, SaveMethod,
                DeleteMethod, CardExpires, envVars, historyVars
  <1>4. ASSUME NEW t \in Tx, FinishTransaction(t)
        PROVE  DbInv'
    <2>1. [txs[t] EXCEPT !.finished = TRUE] \in TxDoc
      BY Reads DEF BillingInv, TxDoc
    <2> QED
      BY <1>4, <2>1 DEF BillingInv, DbInv, FinishTransaction
  <1>5. ASSUME NEW t \in Tx, RetryDue(t)
        PROVE  DbInv'
    <2>1. [retries[t] EXCEPT !.due = TRUE] \in RetryDoc
      BY Reads DEF BillingInv, RetryDoc
    <2> QED
      BY <1>5, <2>1, RetryWrite DEF BillingInv, RetryDue
  <1>6. ASSUME NEW c \in Cards, SaveMethod(c) \/ DeleteMethod(c) \/ CardExpires(c)
        PROVE  DbInv'
    BY <1>6 DEF BillingInv, DbInv, SaveMethod, DeleteMethod, CardExpires, dbVars
  <1>7. DbInv'
    BY <1>4, <1>5, <1>6 DEF Environment
  <1> QED
    BY <1>2, <1>3, <1>7 DEF BillingInv

(* Every initial state satisfies the invariant. *)
LEMMA InitBillingInv == Init => BillingInv
  <1> SUFFICES ASSUME Init
               PROVE  BillingInv
    OBVIOUS
  <1>1. LockInv
    BY InitLockInv DEF Init
  <1>2. ProcInv
    <2>1. lpc = [c \in Callers |-> "idle"] /\ lid = [c \in Callers |-> NoId]
      BY DEF Init, LockInit
    <2> QED
      BY <1>1, <2>1, IdleShape, NoLocalsType DEF Init, ProcInv, Procs
  <1>3. DbInv
    <2>0. InitialMethods \subseteq
            [id : Cards, failing : BOOLEAN] \cup {[id |-> NoCard, failing |-> FALSE]}
      BY BillingAssumption
    <2>1. \A m \in InitialMethods : m \in Method
      <3> TAKE m \in InitialMethods
      <3>1. CASE m \in [id : Cards, failing : BOOLEAN]
        BY <3>1 DEF Method
      <3>2. CASE m = [id |-> NoCard, failing |-> FALSE]
        BY <3>2 DEF Method
      <3> QED
        BY <2>0, <3>1, <3>2
    <2>2. 0 \in 0..MaxOrders
      BY BillingAssumption
    <2>3. \A m \in InitialMethods : NewTx(m) \in TxDoc
      BY <2>1, <2>2 DEF NewTx, TxDoc
    <2>4. NoOrder \in OrderDoc /\ NoOrder.opened = 0
      BY DEF NoOrder, OrderDoc
    <2>5. txs \in [Tx -> TxDoc]
      BY <2>3 DEF Init
    <2>6. orders \in [OrderNums -> OrderDoc] /\ \A n \in OrderNums : orders[n].opened = 0
      BY <2>4 DEF Init
    <2>7. methods \in [Cards -> {"absent", "usable", "failing"}] /\ retries \in [Tx -> RetryDoc]
      BY NoRetryType DEF Init
    <2> QED
      BY <2>5, <2>6, <2>7 DEF DbInv
  <1>4. OtherTypes
    <2>1. MaxOrders \in Nat /\ MaxCalls \in Nat
      BY BillingAssumption
    <2>2. 0 \in 0..MaxOrders /\ 0 \in 0..MaxCalls /\ 0 \in Nat
      BY <2>1
    <2> QED
      BY <2>2 DEF Init, OtherTypes
  <1>5. OneOpen(orders, orphaned)
    <2>1. NoOrder.opened = 0
      BY DEF NoOrder
    <2>2. \A n \in OrderNums : orders[n].opened = 0
      BY <2>1 DEF Init
    <2>3. \A t : Open(orders, t) = {}
      BY <2>2 DEF Open
    <2> QED
      BY <2>3 DEF OneOpen
  <1> QED
    BY <1>2, <1>3, <1>4, <1>5 DEF BillingInv

(* Every step of every actor keeps it. *)
LEMMA NextBillingInv == BillingInv /\ [Next]_vars => BillingInv'
  <1> SUFFICES ASSUME BillingInv, [Next]_vars
               PROVE  BillingInv'
    OBVIOUS
  <1>1. ASSUME NEW p \in Callers, CallerStep(p)
        PROVE  BillingInv'
    BY <1>1, RequestInv, RetryReadInv, RetryResetInv, LockLoadInv, LockAcquireInv,
       LockReleaseInv, LockDeleteInv, PayReadInv, PayPickInv, PayExpiredInv, PayDropInv,
       PayRecordInv, PayFindInv, PayCloseInv, PayPenaltyInv, PaySettleInv, PayStampInv,
       PayNumberInv, PaySaveInv, ReturnStartInv, RecoveredInv, CallerDeadlineInv
    DEF CallerStep
  <1>2. CASE ProcessorStep
    BY <1>2, PassInv, VisitInv DEF ProcessorStep
  <1>3. ASSUME NEW g \in Goroutines, GoroutineStep(g)
        PROVE  BillingInv'
    BY <1>3, SendPayInv, SendRefundInv, GetOrderInv, SaveClosedInv, CounterInv, OkRefundInv,
       ReadTransactionInv, TxWriteInv, OkDropInv, FailRetryReadInv, FailRetryWriteInv,
       JobDeadlineInv
    DEF GoroutineStep
  <1>4. CASE UNCHANGED vars
    <2>1. UNCHANGED <<dbVars, pc, loc, orders, lockVars, envVars, todo, ticked, historyVars>>
      BY <1>4 DEF vars, dbVars
    <2> QED
      BY <2>1, NobodyMoves, DbSame, OtherSame DEF BillingInv
  <1> QED
    BY <1>1, <1>2, <1>3, <1>4, CrashRestartInv, EnvironmentInv DEF Next

-----------------------------------------------------------------------------
(* The invariant holds in every reachable state. *)
THEOREM BillingInvariant == Spec => []BillingInv
  BY InitBillingInv, NextBillingInv, PTL DEF Spec

(***************************************************************************)
(* The documents, local copies and counters keep their types: in           *)
(* particular an order never has a negative amount, and the attempt number *)
(* of a retry never exceeds the table of delays.                           *)
(***************************************************************************)
THEOREM BillingTypeCorrect == Spec => []TypeOK
  <1>1. BillingInv => TypeOK
    BY DEF BillingInv, DbInv, OtherTypes, ProcInv, LockInv, TypeOK
  <1> QED
    BY <1>1, BillingInvariant, PTL

(***************************************************************************)
(* PayTransaction never leaves two open orders for a transaction, for any  *)
(* number of callers, goroutines, transactions and faults, as long as      *)
(* unlockOrder did not break the lock of that transaction.                 *)
(***************************************************************************)
THEOREM BillingOneOpenOrder == Spec => []OneOpenOrder
  <1>1. BillingInv => OneOpenOrder
    BY OpenIs DEF BillingInv, OneOpen, OneOpenOrder
  <1> QED
    BY <1>1, BillingInvariant, PTL

-----------------------------------------------------------------------------
(***************************************************************************)
(* Who waits for whom.  Billing moves the lock only in the four steps of   *)
(* lockOrder and unlockOrder, and a restart frees everything.              *)
(***************************************************************************)
\* The steps of a caller that are calls on the map or on a mutex.
LockMoves(p) == LockLoad(p) \/ LockAcquire(p) \/ LockRelease(p) \/ LockDelete(p)

(* Every other step of a caller leaves the lock alone. *)
LEMMA CallerLeavesLock ==
  ASSUME NEW p \in Callers, CallerStep(p), ~LockMoves(p)
  PROVE  UNCHANGED lockVars
  <1>1. ASSUME CallPay(p) \/ CallForceRetry(p) \/ CallReturn(p) \/ CallReturnByOrder(p)
        PROVE  UNCHANGED lockVars
    BY <1>1 DEF CallPay, CallForceRetry, CallReturn, CallReturnByOrder, Call
  <1>2. ASSUME RetryRead(p) \/ RetryReset(p) \/ Recovered(p) \/ CallerDeadline(p)
        PROVE  UNCHANGED lockVars
    BY <1>2 DEF RetryRead, RetryReset, Recovered, CallerDeadline, LocalStep
  <1>3. ASSUME PayRead(p) \/ PayPick(p) \/ PayExpired(p) \/ PayDrop(p) \/ PayRecord(p)
        PROVE  UNCHANGED lockVars
    BY <1>3 DEF PayRead, PayPick, PayExpired, PayDrop, PayRecord, LocalStep
  <1>4. ASSUME PayFind(p) \/ PayClose(p) \/ PayPenalty(p) \/ PaySettle(p)
        PROVE  UNCHANGED lockVars
    BY <1>4 DEF PayFind, PayClose, PayPenalty, PaySettle, LocalStep
  <1>5. ASSUME PayStamp(p) \/ PayNumber(p) \/ ReturnStart(p)
        PROVE  UNCHANGED lockVars
    BY <1>5 DEF PayStamp, PayNumber, ReturnStart, LocalStep
  <1>6. ASSUME PaySave(p)
        PROVE  UNCHANGED lockVars
    BY <1>6 DEF PaySave, LocalStep
  <1> QED
    BY <1>1, <1>2, <1>3, <1>4, <1>5, <1>6 DEF CallerStep, LockMoves

(* The processor's loop, the goroutines and the rest of the world do not   *)
(* touch the lock: runAsync hands no lock to the goroutine it starts.      *)
LEMMA OthersLeaveLock ==
  ASSUME \/ ProcessorStep
         \/ \E g \in Goroutines : GoroutineStep(g)
         \/ Environment
  PROVE  UNCHANGED lockVars
  <1>1. ASSUME ProcessorStep
        PROVE  UNCHANGED lockVars
    BY <1>1 DEF ProcessorStep, Tick, ProcessUnbilled, StartRetries, ProcessRetry, EndTick,
                LocalStep
  <1>2. ASSUME NEW g \in Goroutines, GoroutineStep(g)
        PROVE  UNCHANGED lockVars
    <2>1. ASSUME SendPay(g) \/ SendRefund(g) \/ OkGet(g) \/ FailGet(g)
          PROVE  UNCHANGED lockVars
      BY <2>1 DEF SendPay, SendRefund, OkGet, FailGet, GetOrder, LocalStep
    <2>2. ASSUME OkClose(g) \/ FailClose(g) \/ OkReset(g) \/ FailPenalty(g) \/ OkRefund(g)
          PROVE  UNCHANGED lockVars
      BY <2>2 DEF OkClose, FailClose, SaveClosed, OkReset, FailPenalty, OkRefund, LocalStep
    <2>3. ASSUME OkTxRead(g) \/ FailTxRead(g) \/ OkTxWrite(g) \/ FailTxWrite(g) \/ OkDrop(g)
          PROVE  UNCHANGED lockVars
      BY <2>3
      DEF OkTxRead, FailTxRead, ReadTransaction, OkTxWrite, FailTxWrite, OkDrop, LocalStep
    <2>4. ASSUME FailRetryRead(g) \/ FailRetryWrite(g) \/ JobDeadline(g)
          PROVE  UNCHANGED lockVars
      BY <2>4 DEF FailRetryRead, FailRetryWrite, JobDeadline, LocalStep
    <2> QED
      BY <1>2, <2>1, <2>2, <2>3, <2>4 DEF GoroutineStep
  <1>3. ASSUME Environment
        PROVE  UNCHANGED lockVars
    BY <1>3 DEF Environment, FinishTransaction, RetryDue, SaveMethod, DeleteMethod, CardExpires
  <1> QED
    BY <1>1, <1>2, <1>3

(* The steps of lockOrder and unlockOrder, called with ids of transactions *)
(* and of orders, keep the waits of different ids apart.                   *)
LEMMA LockMovesWaitInv ==
  ASSUME BillingInv, WaitInv, NEW p \in Callers, LockMoves(p)
  PROVE  WaitInv'
  <1>1. LockInv
    BY DEF BillingInv, ProcInv
  <1>2. CASE LockLoad(p)
    <2> DEFINE id == IF loc[p].op = "returnByOrder" THEN loc[p].num ELSE loc[p].tx
    <2>1. CallerShape("load", loc[p], lpc[p], lid[p])
      BY <1>2, CallerFacts DEF BillingInv, LockLoad, Goto
    <2>2. id \in Ids
      BY <2>1, BillingAssumption DEF CallerShape
    <2>3. LoadOrStore(p, id)
      BY <1>2 DEF LockLoad
    <2> QED
      BY <1>1, <2>2, <2>3, LoadOrStoreWaitInv
  <1>3. CASE LockAcquire(p)
    BY <1>1, <1>3, AcquireWaitInv DEF LockAcquire
  <1>4. CASE LockRelease(p)
    BY <1>1, <1>4, UnlockWaitInv DEF LockRelease
  <1>5. CASE LockDelete(p)
    BY <1>1, <1>5, DeleteWaitInv DEF LockDelete
  <1> QED
    BY <1>2, <1>3, <1>4, <1>5 DEF LockMoves

(* Every step of Billing keeps them apart, a restart included. *)
LEMMA NextBillingWaitInv == BillingInv /\ WaitInv /\ [Next]_vars => WaitInv'
  <1> SUFFICES ASSUME BillingInv, WaitInv, [Next]_vars
               PROVE  WaitInv'
    OBVIOUS
  <1>1. ASSUME UNCHANGED lockVars
        PROVE  WaitInv'
    BY <1>1 DEF lockVars, WaitInv, HeldInside, MutexOfOneId
  <1>2. ASSUME NEW p \in Callers, CallerStep(p)
        PROVE  WaitInv'
    BY <1>1, <1>2, CallerLeavesLock, LockMovesWaitInv
  <1>3. CASE CrashRestart
    BY <1>3 DEF CrashRestart, WaitInv, HeldInside, MutexOfOneId
  <1>4. CASE UNCHANGED vars
    BY <1>1, <1>4 DEF vars
  <1> QED
    BY <1>1, <1>2, <1>3, <1>4, OthersLeaveLock DEF Next

(***************************************************************************)
(* A payment or refund that is blocked in lockOrder waits for a call with  *)
(* the same id, and that call is in the locked section, where it waits for *)
(* nobody: payments of different transactions never hold each other up and *)
(* calls never wait in a circle, for any number of callers, goroutines and *)
(* transactions and with every fault.                                      *)
(***************************************************************************)
THEOREM BillingWaitsForOwnId ==
  Spec => [](/\ WaitsForOwnId
             /\ \A c \in Callers : Holds(c, lid[c]) => pc[c] # "wait")
  <1>1. Init => WaitInv
    BY InitWaitInv DEF Init
  <1>2. BillingInv /\ WaitInv => WaitsForOwnId
    BY WaitFromInv DEF BillingInv, ProcInv
  <1>3. BillingInv => \A c \in Callers : Holds(c, lid[c]) => pc[c] # "wait"
    BY CallerFacts DEF BillingInv, Holds, CallerShape, PayStates
  <1> QED
    BY <1>1, <1>2, <1>3, NextBillingWaitInv, BillingInvariant, PTL DEF Spec

-----------------------------------------------------------------------------
(***************************************************************************)
(* A document that says paid.  The invariant below is kept while no order  *)
(* was saved over another (clash): then an order number held by a caller   *)
(* or goroutine still names an order of the transaction it read.           *)
(***************************************************************************)
\* o is a copy of the stored order n.
CopyOf(o, n, ords) ==
  n \in OrderNums /\ o.opened > 0 /\ ords[n].opened > 0 /\ ords[n].tx = o.tx

\* What a reader takes for paid, and what the gateway took.
ShownPaid(d) == d.billed >= Amount /\ d.error = ""
Covered(t, cap) == cap[t] >= Amount

\* A caller about to run step s of PayTransaction with local variables r.
PayerShape(s, r, ords) ==
  /\ s = "paySettle" => ~Charged(r.tx)
  /\ s \in {"payNumber", "paySave"} => r.stamp > 0
  /\ s = "paySave" => r.num \in OrderNums
  /\ s = "payClose" => CopyOf(r.osnap, r.num, ords)

\* A goroutine past GetPaymentOrder.
Got == (OkStates \cup FailStates) \ {"okGet", "failGet"}

\* A goroutine about to run step s: the order it works on is stored, and
\* past the gateway's approval its transaction is covered.
JobShape(s, r, ords, cap) ==
  s # "idle" =>
    /\ r.op \in {"pay", "refund"}
    /\ s \in {"okTxRead", "okTxWrite", "okDrop"} => r.op = "pay"
    /\ s \in Got => CopyOf(r.osnap, r.num, ords)
    /\ r.op = "pay" =>
         /\ r.num \in OrderNums /\ ords[r.num].opened > 0 /\ ords[r.num].tx = r.tx
         /\ s \in OkStates => Covered(r.tx, cap)

\* The inductive invariant behind ShownPaidIsPaid.
PaidInv ==
  ~clash =>
    /\ ShownPaidIsPaid
    /\ \A p \in Callers : PayerShape(pc[p], loc[p], orders)
    /\ \A g \in Goroutines : JobShape(pc[g], loc[g], orders, captured)

-----------------------------------------------------------------------------
\* What a step does to the orders and captures that others rely on.
OrdersStay ==
  \A n \in OrderNums :
    orders[n].opened > 0 => orders'[n].opened > 0 /\ orders'[n].tx = orders[n].tx

CapturesStay == \A t \in Tx : captured'[t] >= captured[t]

(* A step that writes no order. *)
LEMMA OrdersSame == ASSUME UNCHANGED orders PROVE OrdersStay
  BY DEF OrdersStay

(* Writing an order of the same transaction over a stored one. *)
LEMMA OrdersRewritten ==
  ASSUME BillingInv, NEW n, NEW o, SavePaymentOrder(n, o), o.opened > 0,
         n \in OrderNums /\ orders[n].opened > 0 => o.tx = orders[n].tx
  PROVE  OrdersStay
  BY DEF OrdersStay, SavePaymentOrder, BillingInv, DbInv

(* A caller's part of the invariant does not depend on who else writes. *)
LEMMA PayerKept ==
  ASSUME OrdersStay, NEW s, NEW r, PayerShape(s, r, orders)
  PROVE  PayerShape(s, r, orders')
  BY DEF OrdersStay, PayerShape, CopyOf

(* A transaction that is covered stays so. *)
LEMMA CoveredStays ==
  ASSUME BillingInv, BillingInv', CapturesStay, NEW t \in Tx, Covered(t, captured)
  PROVE  Covered(t, captured')
  <1>1. Amount \in Nat
    BY BillingAssumption
  <1>2. captured[t] \in Nat /\ captured'[t] \in Nat
    BY DEF BillingInv, OtherTypes
  <1>3. captured'[t] >= captured[t]
    BY DEF CapturesStay
  <1> QED
    BY <1>1, <1>2, <1>3 DEF Covered

(* Nor does a goroutine's. *)
LEMMA JobKept ==
  ASSUME BillingInv, BillingInv', OrdersStay, CapturesStay, NEW s, NEW r,
         r.op = "pay" => r.tx \in Tx, JobShape(s, r, orders, captured)
  PROVE  JobShape(s, r, orders', captured')
  <1>1. \A o, n : CopyOf(o, n, orders) => CopyOf(o, n, orders')
    BY DEF CopyOf, OrdersStay
  <1>2. r.op = "pay" /\ Covered(r.tx, captured) => Covered(r.tx, captured')
    BY CoveredStays
  <1> QED
    BY <1>1, <1>2 DEF JobShape, OrdersStay

(* Only some steps of the section rest on more than the lock. *)
LEMMA PayerEasy ==
  ASSUME NEW s, NEW r, NEW ords, s \notin {"paySettle", "payNumber", "paySave", "payClose"}
  PROVE  PayerShape(s, r, ords)
  BY DEF PayerShape

-----------------------------------------------------------------------------
(* No step reopens an order, or gives one to another transaction, unless   *)
(* PaySave writes over a stored order.                                     *)
LEMMA StepOrders ==
  ASSUME BillingInv, PaidInv, [Next]_vars, ~clash'
  PROVE  ~clash /\ OrdersStay
  <1>1. ASSUME NEW p \in Callers, PayClose(p)
        PROVE  ~clash /\ OrdersStay
    <2> DEFINE o == [loc[p].osnap EXCEPT !.completed = TRUE, !.result = "closed"]
    <2>1. pc[p] = "payClose" /\ ~clash /\ SavePaymentOrder(loc[p].num, o)
      BY <1>1 DEF PayClose, Goto, historyVars
    <2>2. CopyOf(loc[p].osnap, loc[p].num, orders)
      BY <2>1 DEF PaidInv, PayerShape
    <2>3. loc[p].osnap \in OrderDoc
      BY <2>1, PayFacts DEF PayStates
    <2>4. o.opened = loc[p].osnap.opened /\ o.tx = loc[p].osnap.tx
      BY <2>3 DEF OrderDoc
    <2> HIDE DEF o
    <2> QED
      BY <2>1, <2>2, <2>4, OrdersRewritten DEF CopyOf
  <1>2. ASSUME NEW p \in Callers, PaySave(p)
        PROVE  ~clash /\ OrdersStay
    BY <1>2 DEF PaySave, SavePaymentOrder, Stored, OrdersStay, BillingInv, DbInv
  <1>3. ASSUME NEW g \in Goroutines, OkClose(g) \/ FailClose(g)
        PROVE  ~clash /\ OrdersStay
    <2>1. PICK x : SavePaymentOrder(loc[g].num, [loc[g].osnap EXCEPT !.completed = TRUE, !.result = x])
      BY <1>3 DEF OkClose, FailClose, SaveClosed
    <2> DEFINE o == [loc[g].osnap EXCEPT !.completed = TRUE, !.result = x]
    <2>2. pc[g] \in {"okClose", "failClose"} /\ ~clash
      BY <1>3 DEF OkClose, FailClose, SaveClosed, Goto, historyVars
    <2>3. CopyOf(loc[g].osnap, loc[g].num, orders)
      BY <2>2 DEF PaidInv, JobShape, Got, OkStates, FailStates
    <2>4. loc[g].osnap \in OrderDoc
      BY JobFacts
    <2>5. o.opened = loc[g].osnap.opened /\ o.tx = loc[g].osnap.tx
      BY <2>4 DEF OrderDoc
    <2>6. SavePaymentOrder(loc[g].num, o)
      BY <2>1
    <2> HIDE DEF o
    <2> QED
      BY <2>2, <2>3, <2>5, <2>6, OrdersRewritten DEF CopyOf
  <1>4. ASSUME NEW g \in Goroutines, OkRefund(g)
        PROVE  ~clash /\ OrdersStay
    <2> DEFINE o == [loc[g].osnap EXCEPT !.refund = Amount]
    <2>1. pc[g] = "okRefund" /\ ~clash /\ SavePaymentOrder(loc[g].num, o)
      BY <1>4 DEF OkRefund, historyVars
    <2>2. CopyOf(loc[g].osnap, loc[g].num, orders)
      BY <2>1 DEF PaidInv, JobShape, Got, OkStates, FailStates
    <2>3. loc[g].osnap \in OrderDoc
      BY JobFacts
    <2>4. o.opened = loc[g].osnap.opened /\ o.tx = loc[g].osnap.tx
      BY <2>3 DEF OrderDoc
    <2> HIDE DEF o
    <2> QED
      BY <2>1, <2>2, <2>4, OrdersRewritten DEF CopyOf
  <1>5. CASE UNCHANGED <<orders, clash>>
    BY <1>5, OrdersSame
  <1>6. ASSUME NEW p \in Callers, CallerStep(p)
        PROVE  (\E q \in Callers : PayClose(q) \/ PaySave(q)) \/ UNCHANGED <<orders, clash>>
    BY <1>6 DEF CallerStep, CallPay, CallForceRetry, CallReturn, CallReturnByOrder, Call, RetryRead,
       RetryReset, LockLoad, LockAcquire, LockRelease, LockDelete, PayRead, PayPick, PayExpired,
       PayDrop, PayRecord, PayFind, PayPenalty, PaySettle, PayStamp, PayNumber,
       ReturnStart, Recovered, CallerDeadline, LocalStep, dbVars, historyVars
  <1>7. ASSUME NEW g \in Goroutines, GoroutineStep(g)
        PROVE  \/ OkClose(g) \/ FailClose(g) \/ OkRefund(g)
               \/ UNCHANGED <<orders, clash>>
    BY <1>7 DEF GoroutineStep, SendPay, SendRefund, OkGet, FailGet, GetOrder, OkReset, OkTxRead,
       FailTxRead, ReadTransaction, OkTxWrite, OkDrop, FailPenalty, FailTxWrite, FailRetryRead,
       FailRetryWrite, JobDeadline, GiveUp, SaveRetry, LocalStep, dbVars, historyVars
  <1>8. ProcessorStep \/ CrashRestart \/ Environment \/ UNCHANGED vars => UNCHANGED <<orders, clash>>
    BY DEF ProcessorStep, Tick, ProcessUnbilled, StartRetries, ProcessRetry, EndTick, CrashRestart,
       Environment, FinishTransaction, RetryDue, SaveMethod, DeleteMethod, CardExpires, LocalStep,
       dbVars, historyVars, vars
  <1> QED
    BY <1>1, <1>2, <1>3, <1>4, <1>5, <1>6, <1>7, <1>8 DEF Next

(* The gateway's captures only grow: a refund is not counted. *)
LEMMA StepCaptures ==
  ASSUME BillingInv, [Next]_vars
  PROVE  CapturesStay
  <1>1. captured' = captured => CapturesStay
    BY DEF CapturesStay, BillingInv, OtherTypes
  <1>2. ASSUME NEW p \in Callers, CallerStep(p)
        PROVE  captured' = captured
    BY <1>2 DEF CallerStep, CallPay, CallForceRetry, CallReturn, CallReturnByOrder, Call, RetryRead,
       RetryReset, LockLoad, LockAcquire, LockRelease, LockDelete, PayRead, PayPick, PayExpired,
       PayDrop, PayRecord, PayFind, PayClose, PayPenalty, PaySettle, PayStamp, PayNumber, PaySave,
       ReturnStart, Recovered, CallerDeadline, LocalStep, historyVars
  <1>3. ASSUME NEW g \in Goroutines, SendPay(g)
        PROVE  CapturesStay
    <2>1. Amount \in Nat /\ captured \in [Tx -> Nat]
      BY BillingAssumption DEF BillingInv, OtherTypes
    <2>2. captured' = captured \/ captured' = [captured EXCEPT ![loc[g].tx] = @ + Amount]
      BY <1>3 DEF SendPay
    <2> QED
      BY <2>1, <2>2 DEF CapturesStay
  <1>4. ASSUME NEW g \in Goroutines, GoroutineStep(g)
        PROVE  SendPay(g) \/ captured' = captured
    BY <1>4 DEF GoroutineStep, SendRefund, OkGet, FailGet, GetOrder, OkReset, OkTxRead,
       OkClose, FailClose, SaveClosed, OkRefund,
       FailTxRead, ReadTransaction, OkTxWrite, OkDrop, FailPenalty, FailTxWrite, FailRetryRead,
       FailRetryWrite, JobDeadline, GiveUp, SaveRetry, LocalStep, historyVars
  <1>5. ProcessorStep \/ CrashRestart \/ Environment \/ UNCHANGED vars => captured' = captured
    BY DEF ProcessorStep, Tick, ProcessUnbilled, StartRetries, ProcessRetry, EndTick, CrashRestart,
       Environment, FinishTransaction, RetryDue, SaveMethod, DeleteMethod, CardExpires, LocalStep,
       historyVars, vars
  <1> QED
    BY <1>1, <1>2, <1>3, <1>4, <1>5 DEF Next

-----------------------------------------------------------------------------
(* The property, by document. *)
LEMMA ShownIs ==
  ~clash => (ShownPaidIsPaid <=> \A t \in Tx : ShownPaid(txs[t]) /\ Charged(t) => Covered(t, captured))
  BY DEF ShownPaidIsPaid, ShownPaid, Covered

(* A document that is not billed in full is not shown as paid. *)
LEMMA NotShown ==
  ASSUME NEW d, d.billed \in Nat, d.billed < Amount
  PROVE  ~ShownPaid(d)
  <1>1. Amount \in Nat
    BY BillingAssumption
  <1>2. ~(d.billed >= Amount)
    BY <1>1
  <1> QED
    BY <1>2 DEF ShownPaid

(* A writer of a transaction has to answer for what it writes only. *)
LEMMA PaidTx ==
  ASSUME BillingInv, BillingInv', ShownPaidIsPaid, ~clash, CapturesStay,
         NEW t \in Tx, NEW s \in TxDoc, UpdateTransactionPayment(t, s),
         ShownPaid(s) /\ Charged(t) => Covered(t, captured')
  PROVE  ShownPaidIsPaid'
  <1>1. txs \in [Tx -> TxDoc]
    BY DEF BillingInv, DbInv
  <1>2. txs'[t].billed = s.billed /\ txs'[t].error = s.error
    BY <1>1 DEF UpdateTransactionPayment, TxDoc
  <1>3. ShownPaid(txs'[t]) => ShownPaid(s)
    BY <1>2 DEF ShownPaid
  <1>4. \A u \in Tx \ {t} : txs'[u] = txs[u]
    BY <1>1 DEF UpdateTransactionPayment
  <1>5. \A u \in Tx : ShownPaid(txs'[u]) /\ Charged(u) => Covered(u, captured')
    <2> SUFFICES ASSUME NEW u \in Tx, ShownPaid(txs'[u]), Charged(u)
                 PROVE  Covered(u, captured')
      OBVIOUS
    <2>1. CASE u = t
      BY <1>3, <2>1, Zenon
    <2>2. CASE u # t
      BY <1>4, <2>2, ShownIs, CoveredStays
    <2> QED
      BY <2>1, <2>2
  <1> QED
    BY <1>5 DEF ShownPaidIsPaid, ShownPaid, Covered, Charged

(* Nor does a step that leaves the payment fields make one look paid. *)
LEMMA PaidSame ==
  ASSUME BillingInv, BillingInv', ShownPaidIsPaid, ~clash, CapturesStay,
         \A u \in Tx : txs'[u].billed = txs[u].billed /\ txs'[u].error = txs[u].error
  PROVE  ShownPaidIsPaid'
  <1>1. \A u \in Tx : ShownPaid(txs'[u]) /\ Charged(u) => Covered(u, captured')
    <2> SUFFICES ASSUME NEW u \in Tx, ShownPaid(txs'[u]), Charged(u)
                 PROVE  Covered(u, captured')
      OBVIOUS
    <2>1. ShownPaid(txs[u])
      BY DEF ShownPaid
    <2> QED
      BY <2>1, ShownIs, CoveredStays
  <1> QED
    BY <1>1 DEF ShownPaidIsPaid, ShownPaid, Covered, Charged

(* The copy that each writer of a transaction stores. *)
LEMMA StepPaid ==
  ASSUME BillingInv, BillingInv', PaidInv, [Next]_vars, ~clash, CapturesStay
  PROVE  ShownPaidIsPaid'
  <1>0. ShownPaidIsPaid /\ Amount \in Nat /\ 0 < Amount /\ 0 \in Nat
    BY BillingAssumption DEF PaidInv
  <1>1. ASSUME NEW p \in Callers, RetryReset(p)
        PROVE  ShownPaidIsPaid'
    <2> DEFINE s == [loc[p].snap EXCEPT !.billed = 0, !.error = ""]
    <2>1. pc[p] = "retryReset" /\ UpdateTransactionPayment(loc[p].tx, s)
      BY <1>1 DEF RetryReset, Goto
    <2>2. loc[p].tx \in Tx /\ loc[p].snap \in TxDoc
      BY <2>1, CallerFacts, LocalsFields DEF BillingInv, CallerShape
    <2>3. s \in TxDoc /\ s.billed = 0
      BY <2>2 DEF TxDoc
    <2> HIDE DEF s
    <2>4. ~ShownPaid(s)
      BY <1>0, <2>3, NotShown
    <2> QED
      BY <1>0, <2>1, <2>2, <2>3, <2>4, PaidTx
  <1>2. ASSUME NEW p \in Callers, PayExpired(p)
        PROVE  ShownPaidIsPaid'
    <2> DEFINE s == [loc[p].snap EXCEPT !.error = "expired"]
    <2>1. pc[p] = "payExpired" /\ UpdateTransactionPayment(loc[p].tx, s)
      BY <1>2 DEF PayExpired, Goto
    <2>2. loc[p].tx \in Tx /\ loc[p].snap \in TxDoc
      BY <2>1, PayFacts DEF PayStates
    <2>3. s \in TxDoc /\ s.error = "expired"
      BY <2>2 DEF TxDoc
    <2> HIDE DEF s
    <2>4. ~ShownPaid(s)
      BY <2>3 DEF ShownPaid
    <2> QED
      BY <1>0, <2>1, <2>2, <2>3, <2>4, PaidTx
  <1>3. ASSUME NEW p \in Callers, PayRecord(p)
        PROVE  ShownPaidIsPaid'
    <2> DEFINE s == [loc[p].snap EXCEPT !.method = loc[p].card]
    <2>1. pc[p] = "payRecord" /\ UpdateTransactionPayment(loc[p].tx, s)
      BY <1>3 DEF PayRecord, Goto
    <2>2. /\ loc[p].tx \in Tx /\ loc[p].snap \in TxDoc /\ loc[p].card \in Method
          /\ loc[p].snap.billed < Amount
      BY <2>1, PayFacts DEF PayStates
    <2>3. s \in TxDoc /\ s.billed < Amount
      BY <2>2 DEF TxDoc
    <2> HIDE DEF s
    <2>4. s.billed \in Nat
      BY <2>3 DEF TxDoc
    <2>5. ~ShownPaid(s)
      BY <2>3, <2>4, NotShown
    <2> QED
      BY <1>0, <2>1, <2>2, <2>3, <2>5, PaidTx
  <1>4. ASSUME NEW p \in Callers, PaySettle(p)
        PROVE  ShownPaidIsPaid'
    <2> DEFINE s == [loc[p].snap EXCEPT !.billed = Amount]
    <2>1. pc[p] = "paySettle" /\ UpdateTransactionPayment(loc[p].tx, s)
      BY <1>4 DEF PaySettle, Goto
    <2>2. loc[p].tx \in Tx /\ loc[p].snap \in TxDoc /\ ~Charged(loc[p].tx)
      BY <2>1, PayFacts DEF PayStates, PaidInv, PayerShape
    <2>3. s \in TxDoc
      BY <1>0, <2>2 DEF TxDoc
    <2> HIDE DEF s
    <2> QED
      BY <1>0, <2>1, <2>2, <2>3, PaidTx
  <1>5. ASSUME NEW g \in Goroutines, OkTxWrite(g)
        PROVE  ShownPaidIsPaid'
    <2> DEFINE t == loc[g].osnap.tx
               s == [loc[g].snap EXCEPT !.order = loc[g].num, !.billed = @ + loc[g].osnap.amount,
                                        !.error = "", !.orders = @ \cup {loc[g].num}]
    <2>1. pc[g] = "okTxWrite" /\ UpdateTransactionPayment(t, s) /\ UNCHANGED captured
      BY <1>5 DEF OkTxWrite, Goto, historyVars
    <2>2. /\ loc[g].snap \in TxDoc /\ loc[g].osnap.amount \in Nat /\ t \in Tx
          /\ loc[g].num \in OrderNums /\ loc[g].num \in 0..MaxOrders
      BY <2>1, JobFacts, NumType DEF OkStates, FailStates, OrderDoc
    <2>3. loc[g].op = "pay" /\ t = loc[g].tx /\ Covered(t, captured)
      BY <2>1 DEF PaidInv, JobShape, CopyOf, Got, OkStates
    <2>4. s \in TxDoc
      <3>1. loc[g].snap.billed \in Nat /\ loc[g].snap.orders \in SUBSET OrderNums
        BY <2>2 DEF TxDoc
      <3>2. loc[g].snap.billed + loc[g].osnap.amount \in Nat
        BY <2>2, <3>1
      <3>3. loc[g].snap.orders \cup {loc[g].num} \in SUBSET OrderNums
        BY <2>2, <3>1
      <3> QED
        BY <2>2, <3>2, <3>3 DEF TxDoc
    <2> HIDE DEF s, t
    <2>5. Covered(t, captured')
      BY <2>1, <2>3 DEF Covered
    <2> QED
      BY <1>0, <2>1, <2>2, <2>4, <2>5, PaidTx
  <1>6. ASSUME NEW g \in Goroutines, FailTxWrite(g)
        PROVE  ShownPaidIsPaid'
    <2> DEFINE s == [loc[g].snap EXCEPT !.order = loc[g].num, !.billed = Amount,
                                        !.error = "failed", !.orders = @ \cup {loc[g].num}]
    <2>1. pc[g] = "failTxWrite" /\ UpdateTransactionPayment(loc[g].osnap.tx, s)
      BY <1>6 DEF FailTxWrite, Goto
    <2>2. /\ loc[g].snap \in TxDoc /\ loc[g].osnap.tx \in Tx
          /\ loc[g].num \in OrderNums /\ loc[g].num \in 0..MaxOrders
      BY <2>1, JobFacts, NumType DEF OkStates, FailStates
    <2>3. s \in TxDoc /\ s.error = "failed"
      BY <1>0, <2>2 DEF TxDoc
    <2> HIDE DEF s
    <2>4. ~ShownPaid(s)
      BY <2>3 DEF ShownPaid
    <2> QED
      BY <1>0, <2>1, <2>2, <2>3, <2>4, PaidTx
  <1>7. ASSUME NEW t \in Tx, FinishTransaction(t)
        PROVE  ShownPaidIsPaid'
    <2>1. txs \in [Tx -> TxDoc]
      BY DEF BillingInv, DbInv
    <2>2. \A u \in Tx : txs'[u].billed = txs[u].billed /\ txs'[u].error = txs[u].error
      BY <1>7, <2>1 DEF FinishTransaction, TxDoc
    <2> QED
      BY <1>0, <2>2, PaidSame
  <1>8. ASSUME NEW p \in Callers, CallerStep(p)
        PROVE  \/ RetryReset(p) \/ PayExpired(p) \/ PayRecord(p) \/ PaySettle(p)
               \/ UNCHANGED txs
    BY <1>8 DEF CallerStep, CallPay, CallForceRetry, CallReturn, CallReturnByOrder, Call, RetryRead,
       LockLoad, LockAcquire, LockRelease, LockDelete, PayRead, PayPick, PayDrop, PayFind, PayClose,
       PayPenalty, PayStamp, PayNumber, PaySave, ReturnStart, Recovered, CallerDeadline, LocalStep,
       dbVars
  <1>9. ASSUME NEW g \in Goroutines, GoroutineStep(g)
        PROVE  OkTxWrite(g) \/ FailTxWrite(g) \/ UNCHANGED txs
    BY <1>9 DEF GoroutineStep, SendPay, SendRefund, OkGet, FailGet, GetOrder, OkReset, OkTxRead,
       OkClose, FailClose, SaveClosed, OkRefund, FailTxRead, ReadTransaction, OkDrop, FailPenalty,
       FailRetryRead, FailRetryWrite, JobDeadline, LocalStep, dbVars
  <1>10. Environment => (\E t \in Tx : FinishTransaction(t)) \/ UNCHANGED txs
    BY DEF Environment, RetryDue, SaveMethod, DeleteMethod, CardExpires, dbVars
  <1>11. ProcessorStep \/ CrashRestart \/ UNCHANGED vars => UNCHANGED txs
    BY DEF ProcessorStep, Tick, ProcessUnbilled, StartRetries, ProcessRetry, EndTick, CrashRestart,
       LocalStep, dbVars, vars
  <1>12. CASE UNCHANGED txs
    BY <1>0, <1>12, PaidSame
  <1>13. ASSUME NEW p \in Callers, CallerStep(p)
         PROVE  ShownPaidIsPaid'
    BY <1>1, <1>2, <1>3, <1>4, <1>8, <1>12, <1>13
  <1>14. ASSUME NEW g \in Goroutines, GoroutineStep(g)
         PROVE  ShownPaidIsPaid'
    BY <1>5, <1>6, <1>9, <1>12, <1>14
  <1> QED
    BY <1>7, <1>10, <1>11, <1>12, <1>13, <1>14 DEF Next

-----------------------------------------------------------------------------
(* Whom a caller's step moves. *)
LEMMA CallerMoves ==
  ASSUME BillingInv, NEW p \in Callers, CallerStep(p)
  PROVE  /\ \A q \in Callers \ {p} : SameProc(q)
         /\ \/ \A g \in Goroutines : SameProc(g)
            \/ PaySave(p)
            \/ ReturnStart(p)
  <1>1. Goroutines \cap Callers = {} /\ pc \in [Procs -> CallerStates \cup GoroutineStates]
        /\ loc \in [Procs -> Locals] /\ p \in Procs
    BY BillingAssumption DEF BillingInv, ProcInv, Procs
  <1>2. ASSUME NEW s, NEW r, pc' = [pc EXCEPT ![p] = s], loc' = [loc EXCEPT ![p] = r] \/ loc' = loc
        PROVE  /\ \A q \in Callers \ {p} : SameProc(q)
               /\ \A g \in Goroutines : SameProc(g)
    BY <1>1, <1>2 DEF SameProc, Procs
  <1>3. ASSUME NEW g \in Goroutines, NEW r, Spawn(p, g, "send", r)
        PROVE  \A q \in Callers \ {p} : SameProc(q)
    BY <1>1, <1>3 DEF Spawn, SameProc, Procs
  <1>4. PaySave(p) => \E g \in Goroutines : \E r : Spawn(p, g, "send", r)
    BY DEF PaySave
  <1>5. ReturnStart(p) => \/ \E g \in Goroutines : \E r : Spawn(p, g, "send", r)
                         \/ \E s, r : pc' = [pc EXCEPT ![p] = s] /\ loc' = [loc EXCEPT ![p] = r]
    BY DEF ReturnStart, Goto
  <1>6. \/ PaySave(p) \/ ReturnStart(p)
        \/ \E s, r : pc' = [pc EXCEPT ![p] = s] /\ (loc' = [loc EXCEPT ![p] = r] \/ loc' = loc)
    BY DEF CallerStep, CallPay, CallForceRetry, CallReturn, CallReturnByOrder, Call, RetryRead,
       RetryReset, LockLoad, LockAcquire, LockRelease, LockDelete, PayRead, PayPick, PayExpired,
       PayDrop, PayRecord, PayFind, PayClose, PayPenalty, PaySettle, PayStamp, PayNumber,
       Recovered, CallerDeadline, Goto
  <1> QED
    BY <1>2, <1>3, <1>4, <1>5, <1>6

(* A goroutine's step moves it alone. *)
LEMMA GoroutineMoves ==
  ASSUME BillingInv, NEW g \in Goroutines, GoroutineStep(g)
  PROVE  /\ \A q \in Callers : SameProc(q)
         /\ \A h \in Goroutines \ {g} : SameProc(h)
  <1>1. Goroutines \cap Callers = {} /\ pc \in [Procs -> CallerStates \cup GoroutineStates]
        /\ loc \in [Procs -> Locals] /\ g \in Procs
    BY BillingAssumption DEF BillingInv, ProcInv, Procs
  <1>2. ASSUME NEW s, NEW r, pc' = [pc EXCEPT ![g] = s], loc' = [loc EXCEPT ![g] = r] \/ loc' = loc
        PROVE  /\ \A q \in Callers : SameProc(q)
               /\ \A h \in Goroutines \ {g} : SameProc(h)
    BY <1>1, <1>2 DEF SameProc, Procs
  <1>3. \E s, r : pc' = [pc EXCEPT ![g] = s] /\ (loc' = [loc EXCEPT ![g] = r] \/ loc' = loc)
    BY DEF GoroutineStep, SendPay, SendRefund, OkGet, FailGet, GetOrder, OkReset, OkTxRead,
       OkClose, FailClose, SaveClosed, OkRefund, FailTxRead, ReadTransaction, OkDrop, FailPenalty,
       OkTxWrite, FailTxWrite, FailRetryRead, FailRetryWrite, JobDeadline, Finish, Goto
  <1> QED
    BY <1>2, <1>3

(* Nor do the passes of the processor move anybody else. *)
LEMMA ProcessorMoves ==
  ASSUME BillingInv, ProcessorStep
  PROVE  /\ \A q \in Callers \ {Processor} : SameProc(q)
         /\ \A g \in Goroutines : SameProc(g)
         /\ pc'[Processor] \in {"idle", "unbilled", "retries", "load", "retryRead"}
  <1>1. Goroutines \cap Callers = {} /\ pc \in [Procs -> CallerStates \cup GoroutineStates]
        /\ loc \in [Procs -> Locals] /\ Processor \in Procs
    BY BillingAssumption DEF BillingInv, ProcInv, Procs
  <1>2. ASSUME NEW s, NEW r, pc' = [pc EXCEPT ![Processor] = s],
               loc' = [loc EXCEPT ![Processor] = r] \/ loc' = loc
        PROVE  /\ \A q \in Callers \ {Processor} : SameProc(q)
               /\ \A g \in Goroutines : SameProc(g)
               /\ pc'[Processor] = s
    <2>1. pc'[Processor] = s
      BY <1>1, <1>2
    <2>2. \A q \in Procs \ {Processor} : SameProc(q)
      BY <1>1, <1>2 DEF SameProc
    <2> QED
      BY <1>1, <2>1, <2>2, BillingAssumption DEF Procs
  <1>3. \/ ProcessUnbilled /\ UNCHANGED <<pc, loc>>
        \/ \E s \in {"idle", "unbilled", "retries", "load", "retryRead"} : \E r :
             /\ pc' = [pc EXCEPT ![Processor] = s]
             /\ loc' = [loc EXCEPT ![Processor] = r] \/ loc' = loc
    BY DEF ProcessorStep, Tick, ProcessUnbilled, StartRetries, ProcessRetry, EndTick, Goto
  <1>4. CASE ProcessUnbilled /\ UNCHANGED <<pc, loc>>
    BY <1>4 DEF ProcessUnbilled, SameProc
  <1> QED
    BY <1>2, <1>3, <1>4

\* The steps of the section that PayerShape speaks of.
Careful == {"paySettle", "payNumber", "paySave", "payClose"}

(* Where a caller's own step takes it. *)
LEMMA PayerLands ==
  ASSUME BillingInv, PaidInv, ~clash, OrdersStay, NEW p \in Callers, CallerStep(p)
  PROVE  PayerShape(pc'[p], loc'[p], orders')
  <1>1. /\ Goroutines \cap Callers = {} /\ pc \in [Procs -> CallerStates \cup GoroutineStates]
        /\ loc \in [Procs -> Locals] /\ p \in Procs /\ loc[p] \in Locals
        /\ PayerShape(pc[p], loc[p], orders)
    BY BillingAssumption, CallerFacts DEF BillingInv, ProcInv, Procs, PaidInv
  <1>2. CASE PayRead(p)
    <2>1. loc'[p].tx = loc[p].tx \/ pc'[p] = "unlock"
      BY <1>1, <1>2 DEF PayRead, Locals
    <2>2. pc'[p] # "paySettle" \/ TagOf[loc[p].tx] = "nouser"
      <3>1. loc[p].tx \in Tx
        BY <1>2, PayFacts DEF PayRead, Goto, PayStates
      <3>2. TagOf[loc[p].tx] \in {"user", "nouser", "missing"}
        BY <3>1, BillingAssumption
      <3> QED
        BY <1>1, <1>2, <3>1, <3>2 DEF PayRead, Goto
    <2>3. pc'[p] \notin Careful \/ pc'[p] = "paySettle"
      <3>1. loc[p].tx \in Tx
        BY <1>2, PayFacts DEF PayRead, Goto, PayStates
      <3>2. TagOf[loc[p].tx] \in {"user", "nouser", "missing"}
        BY <3>1, BillingAssumption
      <3> QED
        BY <1>1, <1>2, <3>1, <3>2 DEF PayRead, Goto, Careful
    <2> QED
      BY <2>1, <2>2, <2>3 DEF PayerShape, Charged, Careful
  <1>3. CASE PayFind(p)
    <2>1. CASE OpenOrders(loc[p].tx) = {}
      BY <1>1, <1>3, <2>1 DEF PayFind, AfterClose, PayerShape, Charged, Goto
    <2>2. CASE OpenOrders(loc[p].tx) # {}
      <3>1. PICK n \in OpenOrders(loc[p].tx) : loc' = [loc EXCEPT ![p].num = n, ![p].osnap = orders[n]]
        BY <1>3, <2>2 DEF PayFind
      <3>2. loc'[p].num = n /\ loc'[p].osnap = orders[n] /\ pc'[p] = "payClose" /\ orders' = orders
        BY <1>1, <1>3, <2>2, <3>1 DEF PayFind, Goto, LocalStep, dbVars, Locals
      <3> QED
        BY <3>2 DEF OpenOrders, Stored, PayerShape, CopyOf
    <2> QED
      BY <2>1, <2>2
  <1>4. CASE PayPenalty(p)
    <2>1. loc'[p].tx = loc[p].tx /\ pc'[p] = AfterClose
      BY <1>1, <1>4 DEF PayPenalty, Goto, Locals
    <2> QED
      BY <2>1 DEF PayerShape, AfterClose, Charged
  <1>5. CASE PayStamp(p)
    <2>1. CASE clock < MaxOrders
      <3>1. pc'[p] = "payNumber" /\ loc'[p].stamp = clock + 1
        <4>1. pc'[p] = "payNumber" /\ loc' = [loc EXCEPT ![p].stamp = clock + 1]
          BY <1>1, <1>5, <2>1 DEF PayStamp, Goto
        <4> QED
          BY <1>1, <4>1, StampSet
      <3>2. clock \in Nat
        BY BillingAssumption DEF BillingInv, OtherTypes
      <3>3. clock + 1 > 0
        BY <3>2
      <3> QED
        BY <3>1, <3>3 DEF PayerShape
    <2>2. CASE ~(clock < MaxOrders)
      BY <1>1, <1>5, <2>2 DEF PayStamp, Goto, PayerShape
    <2> QED
      BY <2>1, <2>2
  <1>6. CASE PayNumber(p)
    <2>1. pc[p] = "payNumber" /\ pc'[p] = "paySave"
      BY <1>1, <1>6 DEF PayNumber, Goto
    <2>2. loc'[p].num = NextOrderNumber /\ NextOrderNumber \in OrderNums /\ loc'[p].stamp = loc[p].stamp
      BY <1>1, <1>6 DEF PayNumber, Locals
    <2>3. loc[p].stamp > 0
      BY <1>1, <2>1 DEF PayerShape
    <2> QED
      BY <2>1, <2>2, <2>3 DEF PayerShape
  <1>7. \/ PayRead(p) \/ PayFind(p) \/ PayPenalty(p) \/ PayStamp(p) \/ PayNumber(p)
        \/ pc'[p] \notin Careful
    <2>1. /\ p \notin Goroutines
          /\ loc[p].back \notin Careful
      BY <1>1, LocalsFields DEF Careful
    <2>2. CASE CallPay(p) \/ CallForceRetry(p) \/ CallReturn(p) \/ CallReturnByOrder(p)
                 \/ RetryRead(p) \/ RetryReset(p)
      BY <1>1, <2>2 DEF CallPay, CallForceRetry, CallReturn, CallReturnByOrder, Call, RetryRead,
         RetryReset, Goto, Careful
    <2>3. CASE LockLoad(p) \/ LockAcquire(p) \/ LockRelease(p) \/ LockDelete(p)
      BY <1>1, <2>1, <2>3 DEF LockLoad, LockAcquire, LockRelease, LockDelete, Goto, Careful
    <2>4. CASE PayPick(p) \/ PayExpired(p) \/ PayDrop(p) \/ PayRecord(p)
      BY <1>1, <2>4 DEF PayPick, PayExpired, PayDrop, PayRecord, Goto, Careful
    <2>5. CASE PayClose(p) \/ PaySettle(p) \/ Recovered(p) \/ CallerDeadline(p)
      <3>1. CASE PayClose(p)
        BY <1>1, <3>1 DEF PayClose, Goto, Careful
      <3>2. CASE PaySettle(p)
        BY <1>1, <3>2 DEF PaySettle, Goto, Careful
      <3>3. CASE Recovered(p)
        BY <1>1, <3>3 DEF Recovered, Goto, Careful
      <3>4. CASE CallerDeadline(p)
        BY <1>1, <2>1, <3>4 DEF CallerDeadline, Careful
      <3> QED
        BY <2>5, <3>1, <3>2, <3>3, <3>4
    <2>6. CASE PaySave(p) \/ ReturnStart(p)
      BY <1>1, <2>1, <2>6 DEF PaySave, ReturnStart, Spawn, Goto, Careful
    <2> QED
      BY <2>2, <2>3, <2>4, <2>5, <2>6 DEF CallerStep
  <1>8. CASE pc'[p] \notin Careful
    BY <1>8, PayerEasy DEF Careful
  <1> QED
    BY <1>2, <1>3, <1>4, <1>5, <1>6, <1>7, <1>8

(* Every caller's part is kept. *)
LEMMA StepPayers ==
  ASSUME BillingInv, PaidInv, [Next]_vars, ~clash, OrdersStay, NEW q \in Callers
  PROVE  PayerShape(pc'[q], loc'[q], orders')
  <1>1. PayerShape(pc[q], loc[q], orders)
    BY DEF PaidInv
  <1>2. SameProc(q) => PayerShape(pc'[q], loc'[q], orders')
    BY <1>1, PayerKept DEF SameProc
  <1>3. ASSUME NEW p \in Callers, CallerStep(p)
        PROVE  PayerShape(pc'[q], loc'[q], orders')
    BY <1>2, <1>3, CallerMoves, PayerLands
  <1>4. ASSUME ProcessorStep
        PROVE  PayerShape(pc'[q], loc'[q], orders')
    <2>1. CASE q = Processor
      BY <1>4, <2>1, ProcessorMoves, PayerEasy
    <2>2. CASE q # Processor
      BY <1>2, <1>4, <2>2, ProcessorMoves
    <2> QED
      BY <2>1, <2>2
  <1>5. ASSUME CrashRestart
        PROVE  PayerShape(pc'[q], loc'[q], orders')
    BY <1>5, PayerEasy DEF CrashRestart, Procs
  <1>6. Environment \/ UNCHANGED vars => SameProc(q)
    BY DEF Environment, FinishTransaction, RetryDue, SaveMethod, DeleteMethod, CardExpires, vars, SameProc
  <1> QED
    BY <1>2, <1>3, <1>4, <1>5, <1>6, GoroutineMoves DEF Next

-----------------------------------------------------------------------------
(* A goroutine that goes on with the same order and transaction. *)
LEMMA JobAdvances ==
  ASSUME BillingInv, BillingInv', OrdersStay, CapturesStay, NEW s, NEW r, NEW s2, NEW r2,
         s # "idle", JobShape(s, r, orders, captured), r.op = "pay" => r.tx \in Tx,
         r2.op = r.op /\ r2.num = r.num /\ r2.tx = r.tx,
         s2 \in {"okTxRead", "okTxWrite", "okDrop"} => r2.op = "pay",
         s2 \in Got => CopyOf(r2.osnap, r2.num, orders'),
         s2 \in OkStates /\ r2.op = "pay" => s \in OkStates \/ Covered(r2.tx, captured')
  PROVE  JobShape(s2, r2, orders', captured')
  <1>1. JobShape(s, r, orders', captured')
    BY JobKept
  <1> QED
    BY <1>1 DEF JobShape

(* A copy of an order, with the fields closeOrderOnError and               *)
(* processPaymentResponse set.                                             *)
LEMMA CopyKept ==
  ASSUME OrdersStay, NEW n, NEW o \in OrderDoc, CopyOf(o, n, orders), NEW x
  PROVE  /\ CopyOf(o, n, orders')
         /\ CopyOf([o EXCEPT !.completed = TRUE, !.result = x], n, orders')
  BY DEF CopyOf, OrdersStay, OrderDoc

(* Where a goroutine's own step takes it. *)
LEMMA JobLands ==
  ASSUME BillingInv, BillingInv', PaidInv, ~clash, OrdersStay, CapturesStay,
         NEW g \in Goroutines, GoroutineStep(g)
  PROVE  JobShape(pc'[g], loc'[g], orders', captured')
  <1>1. /\ pc \in [Procs -> CallerStates \cup GoroutineStates] /\ loc \in [Procs -> Locals]
        /\ g \in Procs /\ loc[g] \in Locals /\ loc[g].osnap \in OrderDoc
        /\ JobShape(pc[g], loc[g], orders, captured)
        /\ loc[g].op = "pay" => loc[g].tx \in Tx
    BY JobFacts DEF BillingInv, ProcInv, PaidInv
  <1>0. pc'[g] = "idle" => JobShape(pc'[g], loc'[g], orders', captured')
    BY DEF JobShape
  <1>2. CASE Finish(g)
    BY <1>0, <1>1, <1>2 DEF Finish
  <1>3. CASE SendPay(g)
    <2>1. pc[g] = "send" /\ loc[g].op = "pay" /\ loc'[g] = loc[g]
      BY <1>3 DEF SendPay
    <2>2. \/ pc'[g] = "failGet"
          \/ pc'[g] = "okGet" /\ captured' = [captured EXCEPT ![loc[g].tx] = @ + Amount]
      BY <1>1, <1>3 DEF SendPay, Goto
    <2>3. pc'[g] = "okGet" => Covered(loc[g].tx, captured')
      <3>1. captured \in [Tx -> Nat] /\ loc[g].tx \in Tx
        BY <1>1, <2>1 DEF BillingInv, OtherTypes
      <3>2. captured[loc[g].tx] \in Nat /\ Amount \in Nat
        BY <3>1, BillingAssumption
      <3>3. captured[loc[g].tx] + Amount >= Amount
        BY <3>2
      <3>4. pc'[g] = "okGet" => captured'[loc[g].tx] = captured[loc[g].tx] + Amount
        BY <2>2, <3>1
      <3> QED
        BY <3>3, <3>4 DEF Covered
    <2> QED
      BY <1>1, <2>1, <2>2, <2>3, JobAdvances DEF Got, OkStates
  <1>4. CASE SendRefund(g) /\ ~Finish(g)
    <2>1. pc[g] = "send" /\ loc[g].op = "refund" /\ loc'[g] = loc[g] /\ pc'[g] \in {"okGet", "failGet"}
      BY <1>1, <1>4 DEF SendRefund, Goto
    <2> QED
      BY <1>1, <2>1, JobAdvances DEF Got
  <1>5. CASE (OkGet(g) \/ FailGet(g)) /\ ~Finish(g)
    <2>1. \/ pc[g] = "okGet" /\ pc'[g] \in {"okClose", "okReset"}
          \/ pc[g] = "failGet" /\ pc'[g] = "failPenalty"
      BY <1>1, <1>5 DEF OkGet, FailGet, GetOrder, Goto
    <2>2. Stored(loc[g].num) /\ loc' = [loc EXCEPT ![g].osnap = orders[loc[g].num]] /\ orders' = orders
      BY <1>5 DEF OkGet, FailGet, GetOrder, dbVars
    <2>3. /\ loc'[g].op = loc[g].op /\ loc'[g].num = loc[g].num /\ loc'[g].tx = loc[g].tx
          /\ loc'[g].osnap = orders[loc[g].num]
      BY <1>1, <2>2 DEF Locals
    <2>4. CopyOf(loc'[g].osnap, loc'[g].num, orders')
      BY <2>2, <2>3 DEF CopyOf, Stored
    <2> QED
      BY <1>1, <2>1, <2>3, <2>4, JobAdvances DEF OkStates
  <1>6. CASE OkClose(g) \/ FailClose(g)
    <2>1. PICK x : loc' = [loc EXCEPT ![g].osnap = [loc[g].osnap EXCEPT !.completed = TRUE, !.result = x]]
      BY <1>6 DEF OkClose, FailClose, SaveClosed
    <2> DEFINE o == [loc[g].osnap EXCEPT !.completed = TRUE, !.result = x]
    <2>2. \/ pc[g] = "okClose" /\ pc'[g] = "okReset"
          \/ pc[g] = "failClose" /\ pc'[g] = "failTxRead"
      BY <1>1, <1>6 DEF OkClose, FailClose, SaveClosed, Goto
    <2>3. CopyOf(loc[g].osnap, loc[g].num, orders)
      BY <1>1, <2>2 DEF JobShape, Got, OkStates, FailStates
    <2>4. CopyOf(o, loc[g].num, orders')
      BY <1>1, <2>3, CopyKept
    <2> HIDE DEF o
    <2>5. /\ loc'[g].op = loc[g].op /\ loc'[g].num = loc[g].num /\ loc'[g].tx = loc[g].tx
          /\ loc'[g].osnap = o
      BY <1>1, <2>1 DEF Locals, o
    <2> QED
      BY <1>1, <2>2, <2>4, <2>5, JobAdvances DEF OkStates
  <1>7. ASSUME pc[g] \in Got, pc'[g] \in OkStates => pc[g] \in OkStates, loc'[g].op = loc[g].op,
               loc'[g].num = loc[g].num, loc'[g].tx = loc[g].tx, loc'[g].osnap = loc[g].osnap,
               pc'[g] \in {"okTxRead", "okTxWrite", "okDrop"} => loc[g].op = "pay"
        PROVE  JobShape(pc'[g], loc'[g], orders', captured')
    <2>1. CopyOf(loc[g].osnap, loc[g].num, orders')
      BY <1>1, <1>7, CopyKept DEF JobShape, Got, OkStates, FailStates
    <2>2. pc[g] # "idle"
      BY <1>7 DEF Got, OkStates, FailStates
    <2> QED
      BY <1>1, <1>7, <2>1, <2>2, JobAdvances
  <1>8. CASE OkReset(g) \/ FailPenalty(g)
    <2>1. \/ pc[g] = "okReset" /\ pc'[g] = IF loc[g].op = "refund" THEN "okRefund" ELSE "okTxRead"
          \/ pc[g] = "failPenalty" /\ pc'[g] \in {"failClose", "failTxRead"}
      BY <1>1, <1>8 DEF OkReset, FailPenalty, Goto
    <2>2. loc'[g] = loc[g]
      BY <1>8 DEF OkReset, FailPenalty
    <2>3. pc[g] = "okReset" => loc[g].op \in {"pay", "refund"}
      BY <1>1 DEF JobShape
    <2> QED
      BY <1>7, <2>1, <2>2, <2>3 DEF Got, OkStates, FailStates
  <1>9. CASE OkTxRead(g) \/ FailTxRead(g) \/ OkTxWrite(g) \/ FailTxWrite(g)
    <2>1. PICK y : loc' = [loc EXCEPT ![g].snap = y]
      BY <1>9 DEF OkTxRead, FailTxRead, ReadTransaction, OkTxWrite, FailTxWrite
    <2>2. /\ loc'[g].op = loc[g].op /\ loc'[g].num = loc[g].num /\ loc'[g].tx = loc[g].tx
          /\ loc'[g].osnap = loc[g].osnap
      BY <1>1, <2>1 DEF Locals
    <2>3. \/ pc[g] = "okTxRead" /\ pc'[g] = "okTxWrite"
          \/ pc[g] = "okTxWrite" /\ pc'[g] = "okDrop"
          \/ pc[g] = "failTxRead" /\ pc'[g] = "failTxWrite"
          \/ pc[g] = "failTxWrite" /\ pc'[g] = "failRetryRead"
      BY <1>1, <1>9 DEF OkTxRead, FailTxRead, ReadTransaction, OkTxWrite, FailTxWrite, Goto
    <2>4. pc[g] \in {"okTxRead", "okTxWrite"} => loc[g].op = "pay"
      BY <1>1 DEF JobShape
    <2> QED
      BY <1>7, <2>2, <2>3, <2>4 DEF Got, OkStates, FailStates
  <1>10. CASE FailRetryRead(g)
    <2>1. loc' = [loc EXCEPT ![g].attempt = retries[loc[g].osnap.tx].attempt]
      BY <1>10 DEF FailRetryRead
    <2>2. /\ loc'[g].op = loc[g].op /\ loc'[g].num = loc[g].num /\ loc'[g].tx = loc[g].tx
          /\ loc'[g].osnap = loc[g].osnap
      BY <1>1, <2>1 DEF Locals
    <2>3. pc[g] = "failRetryRead" /\ pc'[g] = "failRetryWrite"
      BY <1>1, <1>10 DEF FailRetryRead, Goto
    <2> QED
      BY <1>7, <2>2, <2>3 DEF Got, OkStates, FailStates
  <1>11. OkRefund(g) \/ OkDrop(g) \/ FailRetryWrite(g) \/ JobDeadline(g) => Finish(g)
    BY DEF OkRefund, OkDrop, FailRetryWrite, JobDeadline
  <1> QED
    BY <1>2, <1>3, <1>4, <1>5, <1>6, <1>8, <1>9, <1>10, <1>11 DEF GoroutineStep

(* A goroutine that PayTransaction starts works for a stored order of its  *)
(* transaction; one that a refund starts claims nothing.                   *)
LEMMA JobStarts ==
  ASSUME BillingInv, PaidInv, ~clash, NEW p \in Callers, PaySave(p) \/ ReturnStart(p),
         NEW g \in Goroutines
  PROVE  SameProc(g) \/ JobShape(pc'[g], loc'[g], orders', captured')
  <1>1. /\ pc \in [Procs -> CallerStates \cup GoroutineStates] /\ loc \in [Procs -> Locals]
        /\ g \in Procs /\ g # p
    BY BillingAssumption DEF BillingInv, ProcInv, Procs
  <1>2. CASE PaySave(p)
    <2> DEFINE r == [NoLocals EXCEPT !.op = "pay", !.tx = loc[p].tx, !.num = loc[p].num]
               new == [NoOrder EXCEPT !.tx = loc[p].tx, !.card = loc[p].card.id,
                                      !.amount = Amount - loc[p].snap.billed,
                                      !.opened = loc[p].stamp]
    <2>1. PICK h \in Goroutines : Spawn(p, h, "send", r)
      BY <1>2 DEF PaySave
    <2>2. pc[p] = "paySave" /\ orders' = [orders EXCEPT ![loc[p].num] = new]
      BY <1>2 DEF PaySave, SavePaymentOrder
    <2>3. r.op = "pay" /\ r.tx = loc[p].tx /\ r.num = loc[p].num
      BY DEF NoLocals
    <2>4. new.tx = loc[p].tx /\ new.opened = loc[p].stamp
      BY DEF NoOrder
    <2>5. loc[p].num \in OrderNums /\ loc[p].stamp > 0
      BY <2>2 DEF PaidInv, PayerShape
    <2> HIDE DEF r, new
    <2>6. orders'[loc[p].num] = new
      BY <2>2, <2>5 DEF BillingInv, DbInv
    <2>7. JobShape("send", r, orders', captured')
      BY <2>3, <2>4, <2>5, <2>6 DEF JobShape, Got, OkStates, FailStates
    <2>8. CASE g = h
      BY <1>1, <2>1, <2>7, <2>8 DEF Spawn
    <2>9. CASE g # h
      BY <1>1, <2>1, <2>9 DEF Spawn, SameProc
    <2> QED
      BY <2>8, <2>9
  <1>3. CASE ReturnStart(p)
    <2>1. ASSUME NEW n, NEW h \in Goroutines, Spawn(p, h, "send", [NoLocals EXCEPT !.op = "refund", !.num = n])
          PROVE  SameProc(g) \/ JobShape(pc'[g], loc'[g], orders', captured')
      <3> DEFINE r == [NoLocals EXCEPT !.op = "refund", !.num = n]
      <3>1. r.op = "refund" /\ Spawn(p, h, "send", r)
        BY <2>1 DEF NoLocals
      <3> HIDE DEF r
      <3>2. JobShape("send", r, orders', captured')
        BY <3>1 DEF JobShape, Got, OkStates, FailStates
      <3>3. CASE g = h
        BY <1>1, <3>1, <3>2, <3>3 DEF Spawn
      <3>4. CASE g # h
        BY <1>1, <3>1, <3>4 DEF Spawn, SameProc
      <3> QED
        BY <3>3, <3>4
    <2>2. (\E n : \E h \in Goroutines : Spawn(p, h, "send", [NoLocals EXCEPT !.op = "refund", !.num = n]))
          \/ (pc' = [pc EXCEPT ![p] = "unlock"] /\ loc' = [loc EXCEPT ![p] = Leaving(p)])
      BY <1>3 DEF ReturnStart, Goto
    <2>3. CASE pc' = [pc EXCEPT ![p] = "unlock"] /\ loc' = [loc EXCEPT ![p] = Leaving(p)]
      BY <1>1, <2>3 DEF SameProc
    <2> QED
      BY <2>1, <2>2, <2>3
  <1> QED
    BY <1>2, <1>3

(* Every goroutine's part is kept. *)
LEMMA StepJobs ==
  ASSUME BillingInv, BillingInv', PaidInv, [Next]_vars, ~clash, OrdersStay, CapturesStay,
         NEW g \in Goroutines
  PROVE  JobShape(pc'[g], loc'[g], orders', captured')
  <1>1. JobShape(pc[g], loc[g], orders, captured) /\ (loc[g].op = "pay" => loc[g].tx \in Tx)
    BY JobFacts DEF PaidInv
  <1>2. SameProc(g) => JobShape(pc'[g], loc'[g], orders', captured')
    BY <1>1, JobKept DEF SameProc
  <1>3. ASSUME NEW p \in Callers, CallerStep(p)
        PROVE  JobShape(pc'[g], loc'[g], orders', captured')
    BY <1>2, <1>3, CallerMoves, JobStarts
  <1>4. ASSUME NEW h \in Goroutines, GoroutineStep(h)
        PROVE  JobShape(pc'[g], loc'[g], orders', captured')
    BY <1>2, <1>4, GoroutineMoves, JobLands
  <1>5. ASSUME CrashRestart
        PROVE  JobShape(pc'[g], loc'[g], orders', captured')
    BY <1>5 DEF CrashRestart, Procs, JobShape
  <1>6. Environment \/ UNCHANGED vars => SameProc(g)
    BY DEF Environment, FinishTransaction, RetryDue, SaveMethod, DeleteMethod, CardExpires, vars, SameProc
  <1> QED
    BY <1>2, <1>3, <1>4, <1>5, <1>6, ProcessorMoves DEF Next

(* What every step keeps. *)
LEMMA PaidInvNext ==
  ASSUME BillingInv, BillingInv', PaidInv, [Next]_vars
  PROVE  PaidInv'
  <1> SUFFICES ASSUME ~clash'
               PROVE  /\ ShownPaidIsPaid'
                      /\ \A p \in Callers : PayerShape(pc'[p], loc'[p], orders')
                      /\ \A g \in Goroutines : JobShape(pc'[g], loc'[g], orders', captured')
    BY DEF PaidInv
  <1>1. ~clash /\ OrdersStay /\ CapturesStay
    BY StepOrders, StepCaptures
  <1> QED
    BY <1>1, StepPaid, StepPayers, StepJobs

(* Nothing is billed at first. *)
LEMMA PaidInvInit == Init => PaidInv
  <1> SUFFICES ASSUME Init
               PROVE  PaidInv
    OBVIOUS
  <1>1. Amount \in Nat \ {0}
    BY BillingAssumption
  <1>2. \A t \in Tx : txs[t].billed = 0
    <2> TAKE t \in Tx
    <2>1. PICK m : txs[t] = NewTx(m)
      BY DEF Init
    <2>2. NewTx(m).billed = 0
      BY DEF NewTx
    <2> QED
      BY <2>1, <2>2
  <1>3. ShownPaidIsPaid
    <2>1. ~(0 >= Amount)
      BY <1>1
    <2> QED
      BY <1>2, <2>1 DEF ShownPaidIsPaid
  <1>4. \A p \in Procs : pc[p] = "idle"
    BY DEF Init
  <1> QED
    BY <1>3, <1>4 DEF PaidInv, PayerShape, JobShape, Procs

(***************************************************************************)
(* A transaction that is shown as paid was charged: the copies that        *)
(* PayTransaction, retryOne and a failing goroutine write back never make  *)
(* an unpaid transaction look paid, for any number of callers and          *)
(* goroutines and any faults, unless two transactions were given the same  *)
(* order number.                                                           *)
(***************************************************************************)
THEOREM BillingPaidIsPaid == Spec => []ShownPaidIsPaid
  <1>1. Init => BillingInv /\ PaidInv
    BY InitBillingInv, PaidInvInit
  <1>2. BillingInv /\ PaidInv /\ [Next]_vars => BillingInv' /\ PaidInv'
    BY NextBillingInv, PaidInvNext
  <1>3. PaidInv => ShownPaidIsPaid
    BY DEF PaidInv, ShownPaidIsPaid
  <1> QED
    BY <1>1, <1>2, <1>3, PTL DEF Spec

-----------------------------------------------------------------------------
(***************************************************************************)
(* The payment processor alone, with no payment requests (Api = {}) but    *)
(* with every fault.  The invariant says who works for which transaction   *)
(* and what the copies they carry still agree with.                        *)
(***************************************************************************)
\* The goroutines that run.
Live == {g \in Goroutines : pc[g] # "idle"}

\* The processor is in its pass over the unbilled transactions.
InUnbilled == pc[Processor] = "unbilled" \/ loc[Processor].back = "unbilled"

\* The processor between and in its calls.
ProcShape(s, r) ==
  /\ s \in {"idle", "unbilled", "retries"} => r = NoLocals
  /\ s \in {"unlock", "delete"} => r.tx = NoTx
  /\ s \in {"load", "wait"} => r.op = "pay"
  /\ s # "returnRead"

\* Only the processor and goroutines it started run, one per transaction,
\* and none for a transaction it still has to visit or is working for.
WhoRuns ==
  /\ \A p \in Callers \ {Processor} : pc[p] = "idle"
  /\ ProcShape(pc[Processor], loc[Processor])
  /\ loc[Processor].tx \notin todo
  /\ InUnbilled /\ loc[Processor].tx \in Tx => retries[loc[Processor].tx] = NoRetry
  /\ \A g \in Live :
       /\ loc[g].op = "pay"
       /\ g \in ticked
       /\ loc[g].tx # loc[Processor].tx
       /\ loc[g].tx \notin todo
       /\ InUnbilled => retries[loc[g].tx] = NoRetry
  /\ \A g, h \in Live : loc[g].tx = loc[h].tx => g = h

\* Numbers and stamps grow together.
Numbers ==
  /\ ~clash
  /\ \A m, n \in OrderNums :
       orders[m].opened > 0 /\ orders[n].opened > 0 /\ m < n => orders[m].opened < orders[n].opened
  /\ \A n \in OrderNums : orders[n].opened <= clock
  /\ (\E n \in OrderNums : orders[n].opened > 0) =>
       \E n \in OrderNums :
         orders[n].opened > 0 /\ \A k \in OrderNums : orders[k].opened <= orders[n].opened
  /\ pc[Processor] \in {"payNumber", "paySave"} =>
       /\ loc[Processor].stamp = clock
       /\ \A n \in OrderNums : orders[n].opened < clock
  /\ pc[Processor] = "paySave" =>
       \A n \in OrderNums : orders[n].opened > 0 => n < loc[Processor].num

\* The copies the processor carries through PayTransaction are current.
SoloPayer(s, r, ords, docs) ==
  /\ s \in PayStates \ {"payRead"} => r.snap.billed = docs[r.tx].billed
  /\ s = "payClose" => r.osnap = ords[r.num] /\ ~r.osnap.completed /\ r.osnap.tx = r.tx

\* What a goroutine in step s with local variables r knows of its order and
\* its transaction.
SoloJob(s, r, ords, docs) ==
  /\ s # "okRefund"
  /\ s \in {"send", "okGet", "failGet"} =>
       ~ords[r.num].completed /\ ords[r.num].amount + docs[r.tx].billed >= Amount
  /\ s \in Got => r.osnap = ords[r.num]
  /\ s \in {"okClose", "failPenalty", "failClose"} => ~r.osnap.completed
  /\ s \in {"okReset", "okTxRead", "okTxWrite", "okDrop"} => r.osnap.completed /\ r.osnap.result = "approved"
  /\ s \in {"okClose", "okReset", "okTxRead", "okTxWrite"} => r.osnap.amount + docs[r.tx].billed >= Amount
  /\ s = "okTxWrite" => r.snap.billed = docs[r.tx].billed
  /\ s \in {"okDrop", "failRetryRead", "failRetryWrite"} => docs[r.tx].billed >= Amount

\* Unless an answer was lost, a debt is captured at most once, and a captured
\* debt is being recorded by its goroutine or is billed.
Captures ==
  \A t \in Tx \ lost :
    /\ captured[t] \in {0, Amount}
    /\ \A g \in Live : loc[g].tx = t => (captured[t] = Amount <=> pc[g] \in OkStates)
    /\ captured[t] = Amount =>
         /\ loc[Processor].tx # t /\ t \notin todo
         /\ (\A g \in Live : loc[g].tx # t) => txs[t].billed >= Amount /\ retries[t] = NoRetry

\* The document names an approved order of the transaction t.
Traced(t, ords, doc) ==
  /\ doc.order \in doc.orders
  /\ ords[doc.order].opened > 0 /\ ords[doc.order].tx = t
  /\ ords[doc.order].completed /\ ords[doc.order].result = "approved"

\* The inductive invariant of the processor alone.
SoloInv ==
  /\ WhoRuns
  /\ Numbers
  /\ SoloPayer(pc[Processor], loc[Processor], orders, txs)
  /\ \A g \in Live : SoloJob(pc[g], loc[g], orders, txs)
  /\ Captures
  /\ \A t \in Tx : ShownPaid(txs[t]) /\ Charged(t) => Traced(t, orders, txs[t])

\* Only finished debts are worked on, and none that was given up.
DebtInv ==
  /\ \A t \in Tx :
       t \in todo \/ t = loc[Processor].tx \/ retries[t] # NoRetry \/ (\E g \in Live : loc[g].tx = t)
         => txs[t].finished /\ t \notin exhausted
  /\ \A t \in exhausted : txs[t].billed >= Amount
  /\ \A g \in Live : pc[g] = "failRetryWrite" => loc[g].attempt = retries[loc[g].tx].attempt
  /\ \A t \in Tx : retries[t].attempt = 0 => retries[t] = NoRetry

\* The process runs on: no context ends, it is not killed, and no missing
\* tag or payment method makes the processor goroutine panic.
Undisturbed ==
  /\ Faults \cap {"deadline", "crash"} = {}
  /\ NoMethod \notin InitialMethods
  /\ \A t \in Tx : TagOf[t] # "missing"

\* The copies of a transaction that are charged or written back name a card.
Copies(s, r) ==
  /\ s \in (PayStates \ {"payRead"}) \cup {"retryReset"} => r.snap.method # NoMethod
  /\ s \in {"payExpired", "payRecord"} => r.card # NoMethod
  /\ s # "panic"

\* The copy a goroutine writes back names a card.
JobCopies(s, r) == s \in {"okTxWrite", "failTxWrite"} => r.snap.method # NoMethod

\* So do all documents, and the processor does not panic.
HasMethod ==
  /\ \A t \in Tx : txs[t].method # NoMethod
  /\ Copies(pc[Processor], loc[Processor])
  /\ \A g \in Live : JobCopies(pc[g], loc[g])

\* A debt the processor no longer works on was captured or given up.
GiveUpInv ==
  \A t \in Tx :
    Charged(t) /\ txs[t].billed >= Amount /\ retries[t] = NoRetry /\ (\A g \in Live : loc[g].tx # t)
      => captured[t] >= Amount \/ t \in exhausted

-----------------------------------------------------------------------------
(* The actors. *)
LEMMA Actors ==
  ASSUME BillingInv
  PROVE  /\ Processor \in Callers /\ Processor \in Procs /\ Processor \notin Goroutines
         /\ Goroutines \cap Callers = {} /\ Goroutines \subseteq Procs /\ Callers \subseteq Procs
         /\ pc \in [Procs -> CallerStates \cup GoroutineStates] /\ loc \in [Procs -> Locals]
         /\ loc[Processor] \in Locals
         /\ NoTx \notin Tx /\ Amount \in Nat /\ Amount # 0
         /\ txs \in [Tx -> TxDoc] /\ retries \in [Tx -> RetryDoc]
         /\ orders \in [OrderNums -> OrderDoc] /\ captured \in [Tx -> Nat]
         /\ todo \subseteq Tx /\ ticked \subseteq Goroutines /\ lost \subseteq Tx
  BY BillingAssumption DEF BillingInv, ProcInv, DbInv, OtherTypes, Procs

(* A running goroutine and its order. *)
LEMMA LiveFacts ==
  ASSUME BillingInv, PaidInv, SoloInv, NEW g \in Live
  PROVE  /\ g \in Goroutines /\ g \in Procs /\ pc[g] # "idle"
         /\ loc[g] \in Locals /\ loc[g].op = "pay" /\ loc[g].tx \in Tx
         /\ loc[g].num \in OrderNums /\ orders[loc[g].num].opened > 0
         /\ orders[loc[g].num].tx = loc[g].tx
         /\ pc[g] \in Got => loc[g].osnap.tx = loc[g].tx /\ loc[g].osnap = orders[loc[g].num]
         /\ SoloJob(pc[g], loc[g], orders, txs)
         /\ g \in ticked /\ loc[g].tx # loc[Processor].tx /\ loc[g].tx \notin todo
  <1>1. g \in Goroutines /\ pc[g] # "idle" /\ loc[g].op = "pay" /\ ~clash
    BY DEF Live, SoloInv, WhoRuns, Numbers
  <1>2. JobShape(pc[g], loc[g], orders, captured)
    BY <1>1 DEF PaidInv
  <1>3. loc[g].tx \in Tx /\ loc[g] \in Locals /\ g \in Procs
    BY <1>1, JobFacts
  <1>4. SoloJob(pc[g], loc[g], orders, txs)
    BY DEF SoloInv
  <1>5. loc[g].num \in OrderNums /\ orders[loc[g].num].opened > 0 /\ orders[loc[g].num].tx = loc[g].tx
    BY <1>1, <1>2 DEF JobShape
  <1>6. pc[g] \in Got => loc[g].osnap = orders[loc[g].num]
    BY <1>4 DEF SoloJob
  <1> QED
    BY <1>1, <1>3, <1>4, <1>5, <1>6 DEF SoloInv, WhoRuns

(* With no requests, the processor is the only caller that moves. *)
LEMMA OnlyProcessor ==
  ASSUME BillingInv, SoloInv, Api = {}, NEW p \in Callers, CallerStep(p)
  PROVE  /\ p = Processor
         /\ ~(CallPay(p) \/ CallForceRetry(p) \/ CallReturn(p) \/ CallReturnByOrder(p))
         /\ ~ReturnStart(p) /\ ~Recovered(p)
  <1>1. ~(CallPay(p) \/ CallForceRetry(p) \/ CallReturn(p) \/ CallReturnByOrder(p))
    BY DEF CallPay, CallForceRetry, CallReturn, CallReturnByOrder
  <1>2. pc[p] # "idle"
    BY <1>1 DEF CallerStep, RetryRead,
       RetryReset, LockLoad, LockAcquire, LockRelease, LockDelete, PayRead, PayPick, PayExpired,
       PayDrop, PayRecord, PayFind, PayClose, PayPenalty, PaySettle, PayStamp, PayNumber, PaySave,
       ReturnStart, Recovered, CallerDeadline, Goto, PayStates
  <1>3. p = Processor
    BY <1>2 DEF SoloInv, WhoRuns
  <1>4. pc[p] # "returnRead"
    BY <1>3 DEF SoloInv, WhoRuns, ProcShape
  <1> QED
    BY <1>1, <1>3, <1>4 DEF ReturnStart, Recovered

-----------------------------------------------------------------------------
(***************************************************************************)
(* A step of the processor that starts no goroutine and does not load a    *)
(* work list, as the rest of the system sees it.                           *)
(***************************************************************************)
\* Nobody but the processor moves.
OthersRest ==
  /\ \A g \in Goroutines : SameProc(g)
  /\ \A q \in Callers \ {Processor} : SameProc(q)

\* The processor changes nothing but the transaction it works for.
ProcessorFrame ==
  /\ OthersRest
  /\ UNCHANGED <<ticked, captured, lost, exhausted, clash>>
  /\ todo' \subseteq todo
  /\ loc'[Processor].tx \in {loc[Processor].tx, NoTx} \cup (todo \ todo')
  /\ InUnbilled' => InUnbilled
  /\ \A u \in Tx :
       /\ u # loc[Processor].tx => txs'[u] = txs[u] /\ retries'[u] = retries[u]
       /\ retries'[u] \in {retries[u], NoRetry}
       /\ txs'[u].finished = txs[u].finished
       /\ u \in exhausted => txs'[u] = txs[u]

(* The goroutines that run are the same. *)
LEMMA FrameLive ==
  ASSUME ProcessorFrame
  PROVE  Live' = Live /\ \A g \in Live : pc'[g] = pc[g] /\ loc'[g] = loc[g]
  BY DEF ProcessorFrame, OthersRest, Live, SameProc

(* Who works for which transaction. *)
LEMMA FrameWho ==
  ASSUME BillingInv, PaidInv, SoloInv, ProcessorFrame,
         ProcShape(pc'[Processor], loc'[Processor]),
         loc'[Processor].tx \in todo /\ InUnbilled' => retries[loc'[Processor].tx] = NoRetry
  PROVE  WhoRuns'
  <1>1. Live' = Live /\ \A g \in Live : pc'[g] = pc[g] /\ loc'[g] = loc[g]
    BY FrameLive
  <1>2. \A p \in Callers \ {Processor} : pc'[p] = "idle"
    BY DEF ProcessorFrame, OthersRest, SameProc, SoloInv, WhoRuns
  <1>3. ASSUME InUnbilled', loc'[Processor].tx \in Tx
        PROVE  retries'[loc'[Processor].tx] = NoRetry
    <2>1. retries[loc'[Processor].tx] = NoRetry
      <3>1. loc'[Processor].tx \in {loc[Processor].tx} \cup todo /\ InUnbilled
        BY <1>3, Actors DEF ProcessorFrame
      <3>2. loc'[Processor].tx = loc[Processor].tx => retries[loc'[Processor].tx] = NoRetry
        BY <1>3, <3>1 DEF SoloInv, WhoRuns
      <3> QED
        BY <1>3, <3>1, <3>2
    <2> QED
      BY <1>3, <2>1 DEF ProcessorFrame
  <1>4. ASSUME NEW g \in Live
        PROVE  /\ loc'[g].op = "pay"
               /\ g \in ticked'
               /\ loc'[g].tx # loc'[Processor].tx
               /\ loc'[g].tx \notin todo'
               /\ InUnbilled' => retries'[loc'[g].tx] = NoRetry
    <2>1. /\ loc[g].op = "pay" /\ g \in ticked /\ loc[g].tx # loc[Processor].tx
          /\ loc[g].tx \notin todo /\ loc[g].tx \in Tx
      BY LiveFacts
    <2>2. InUnbilled => retries[loc[g].tx] = NoRetry
      BY DEF SoloInv, WhoRuns
    <2>3. loc'[g] = loc[g]
      BY <1>1
    <2>4. loc[g].tx # loc'[Processor].tx
      BY <2>1, Actors DEF ProcessorFrame
    <2>5. retries'[loc[g].tx] = retries[loc[g].tx]
      BY <2>1 DEF ProcessorFrame
    <2> QED
      BY <2>1, <2>2, <2>3, <2>4, <2>5 DEF ProcessorFrame
  <1>5. \A g, h \in Live : loc'[g].tx = loc'[h].tx => g = h
    BY <1>1 DEF SoloInv, WhoRuns
  <1>6. loc'[Processor].tx \notin todo'
    BY Actors DEF ProcessorFrame, SoloInv, WhoRuns
  <1> QED
    BY <1>1, <1>2, <1>3, <1>4, <1>5, <1>6 DEF WhoRuns

(* What was captured. *)
LEMMA FrameCaptures ==
  ASSUME BillingInv, PaidInv, SoloInv, ProcessorFrame
  PROVE  Captures'
  <1>1. Live' = Live /\ \A g \in Live : pc'[g] = pc[g] /\ loc'[g] = loc[g]
    BY FrameLive
  <1>2. lost' = lost /\ captured' = captured
    BY DEF ProcessorFrame
  <1> SUFFICES ASSUME NEW t \in Tx \ lost
               PROVE  /\ captured[t] \in {0, Amount}
                      /\ \A g \in Live : loc[g].tx = t => (captured[t] = Amount <=> pc[g] \in OkStates)
                      /\ captured[t] = Amount =>
                           /\ loc'[Processor].tx # t /\ t \notin todo'
                           /\ (\A g \in Live : loc[g].tx # t) =>
                                txs'[t].billed >= Amount /\ retries'[t] = NoRetry
    BY <1>1, <1>2 DEF Captures
  <1>3. /\ captured[t] \in {0, Amount}
        /\ \A g \in Live : loc[g].tx = t => (captured[t] = Amount <=> pc[g] \in OkStates)
    BY DEF SoloInv, Captures
  <1>4. ASSUME captured[t] = Amount
        PROVE  /\ loc'[Processor].tx # t /\ t \notin todo'
               /\ (\A g \in Live : loc[g].tx # t) => txs'[t].billed >= Amount /\ retries'[t] = NoRetry
    <2>1. /\ loc[Processor].tx # t /\ t \notin todo
          /\ (\A g \in Live : loc[g].tx # t) => txs[t].billed >= Amount /\ retries[t] = NoRetry
      BY <1>4 DEF SoloInv, Captures
    <2>2. txs'[t] = txs[t] /\ retries'[t] = retries[t]
      BY <2>1 DEF ProcessorFrame
    <2>3. loc'[Processor].tx # t /\ t \notin todo'
      BY <2>1, Actors DEF ProcessorFrame
    <2> QED
      BY <2>1, <2>2, <2>3
  <1> QED
    BY <1>3, <1>4

(* The goroutines know what they knew. *)
LEMMA FrameJobs ==
  ASSUME BillingInv, PaidInv, SoloInv, ProcessorFrame,
         \A n \in OrderNums : orders[n].opened > 0 /\ orders[n].tx # loc[Processor].tx
                               => orders'[n] = orders[n]
  PROVE  \A g \in Live' : SoloJob(pc'[g], loc'[g], orders', txs')
  <1> SUFFICES ASSUME NEW g \in Live
               PROVE  SoloJob(pc[g], loc[g], orders', txs')
    BY FrameLive
  <1>1. /\ SoloJob(pc[g], loc[g], orders, txs)
        /\ loc[g].tx \in Tx /\ loc[g].tx # loc[Processor].tx /\ loc[g].num \in OrderNums
        /\ orders[loc[g].num].opened > 0 /\ orders[loc[g].num].tx = loc[g].tx
    BY LiveFacts
  <1>2. txs'[loc[g].tx] = txs[loc[g].tx] /\ orders'[loc[g].num] = orders[loc[g].num]
    BY <1>1 DEF ProcessorFrame
  <1> QED
    BY <1>1, <1>2 DEF SoloJob

(* The debts that are worked on. *)
LEMMA FrameDebt ==
  ASSUME BillingInv, PaidInv, SoloInv, DebtInv, ProcessorFrame
  PROVE  DebtInv'
  <1>1. Live' = Live /\ \A g \in Live : pc'[g] = pc[g] /\ loc'[g] = loc[g]
    BY FrameLive
  <1>2. ASSUME NEW t \in Tx, t \in todo' \/ t = loc'[Processor].tx \/ retries'[t] # NoRetry
                              \/ (\E g \in Live : loc[g].tx = t)
        PROVE  txs'[t].finished /\ t \notin exhausted'
    <2>1. t \in todo \/ t = loc[Processor].tx \/ retries[t] # NoRetry \/ (\E g \in Live : loc[g].tx = t)
      BY <1>2, Actors DEF ProcessorFrame
    <2>2. txs[t].finished /\ t \notin exhausted
      BY <2>1 DEF DebtInv
    <2> QED
      BY <2>2 DEF ProcessorFrame
  <1>3. \A t \in exhausted' : txs'[t].billed >= Amount
    BY DEF ProcessorFrame, DebtInv, BillingInv, OtherTypes
  <1>4. ASSUME NEW g \in Live, pc[g] = "failRetryWrite"
        PROVE  loc[g].attempt = retries'[loc[g].tx].attempt
    BY <1>4, LiveFacts DEF DebtInv, ProcessorFrame
  <1>5. \A t \in Tx : retries'[t].attempt = 0 => retries'[t] = NoRetry
    BY DEF DebtInv, ProcessorFrame
  <1> QED
    BY <1>1, <1>2, <1>3, <1>4, <1>5 DEF DebtInv

-----------------------------------------------------------------------------
(***************************************************************************)
(* The steps of a call.                                                    *)
(***************************************************************************)
\* A transaction that GetUnbilledTransactions no longer returns.
Full(d) == d.billed >= Amount

\* What such a step writes: open orders of its transaction, and, unless the
\* transaction is written off, documents that are not billed in full.
ProcessorWrites ==
  /\ \A n \in OrderNums :
       \/ orders'[n] = orders[n]
       \/ orders[n].opened > 0 /\ orders[n].tx = loc[Processor].tx /\ ~orders[n].completed
  /\ \A u \in Tx :
       /\ txs'[u] = txs[u] \/ ~Full(txs'[u]) \/ ~Charged(u)
       /\ retries'[u] = retries[u] \/ ~Full(txs'[u])

(* A transaction that is not billed in full. *)
LEMMA NotFull ==
  ASSUME NEW d, d.billed \in Nat, d.billed < Amount
  PROVE  ~Full(d)
  <1>1. Amount \in Nat
    BY BillingAssumption
  <1> QED
    BY <1>1 DEF Full

\* A step that starts no call and no goroutine.
ProcessorKeeps ==
  /\ ProcessorFrame
  /\ ProcessorWrites
  /\ ProcShape(pc'[Processor], loc'[Processor])
  /\ loc'[Processor].tx \in todo /\ InUnbilled' => retries[loc'[Processor].tx] = NoRetry
  /\ SoloPayer(pc'[Processor], loc'[Processor], orders', txs')
  /\ Numbers'

(* The numbers stay while no order is opened. *)
LEMMA NumbersSame ==
  ASSUME Numbers, \A n \in OrderNums : orders'[n].opened = orders[n].opened,
         clock' = clock, clash' = clash,
         pc'[Processor] \notin {"payNumber", "paySave"} \/ SameProc(Processor)
  PROVE  Numbers'
  BY DEF Numbers, SameProc

(* The document that UpdateTransactionPayment leaves. *)
LEMMA TxUpdated ==
  ASSUME BillingInv, NEW t \in Tx, NEW s \in TxDoc, UpdateTransactionPayment(t, s)
  PROVE  /\ \A u \in Tx : u # t => txs'[u] = txs[u]
         /\ txs'[t].finished = txs[t].finished
         /\ txs'[t].billed = s.billed /\ txs'[t].error = s.error /\ txs'[t].order = s.order
         /\ txs'[t].orders = s.orders /\ txs'[t].method = s.method
  <1>1. txs \in [Tx -> TxDoc]
    BY DEF BillingInv, DbInv
  <1>2. txs'[t] = [s EXCEPT !.finished = txs[t].finished] /\ \A u \in Tx : u # t => txs'[u] = txs[u]
    BY <1>1 DEF UpdateTransactionPayment
  <1> QED
    BY <1>2 DEF TxDoc

(* A step that only moves the processor, in its call or out of it. *)
LEMMA MoveKeeps ==
  ASSUME BillingInv, SoloInv, OthersRest,
         UNCHANGED <<txs, orders, retries, clock, todo, ticked, historyVars>>,
         NEW s, NEW r, s = pc'[Processor], r = loc'[Processor],
         r.tx \in {loc[Processor].tx, NoTx}, InUnbilled' => InUnbilled,
         ProcShape(s, r), SoloPayer(s, r, orders, txs), s \notin {"payNumber", "paySave"}
  PROVE  ProcessorKeeps
  <1>1. UNCHANGED <<txs, orders, retries, captured, lost, exhausted, clash, ticked, todo, clock>>
    BY DEF historyVars
  <1>2. Numbers'
    BY <1>1, NumbersSame DEF SoloInv
  <1>3. ProcessorFrame
    BY <1>1 DEF ProcessorFrame
  <1>4. r.tx \in todo /\ InUnbilled' => retries[r.tx] = NoRetry
    BY Actors DEF SoloInv, WhoRuns
  <1> QED
    BY <1>1, <1>2, <1>3, <1>4 DEF ProcessorKeeps, ProcessorWrites

(* Outside the section nothing is known of the copies. *)
LEMMA SoloEasy ==
  ASSUME NEW s, NEW r, NEW ords, NEW docs, s \notin PayStates \ {"payRead"}
  PROVE  SoloPayer(s, r, ords, docs)
  BY DEF SoloPayer, PayStates

(* The call returns. *)
LEMMA ReturnKeeps ==
  ASSUME BillingInv, SoloInv, OthersRest,
         UNCHANGED <<txs, orders, retries, clock, todo, ticked, historyVars>>,
         \/ pc'[Processor] = "unlock" /\ loc'[Processor] = Leaving(Processor)
         \/ pc'[Processor] = loc[Processor].back /\ loc'[Processor] = NoLocals
  PROVE  ProcessorKeeps
  <1> DEFINE s == pc'[Processor]
             r == loc'[Processor]
  <1>1. Leaving(Processor).tx = NoTx /\ Leaving(Processor).back = loc[Processor].back
    BY DEF Leaving, NoLocals
  <1>2. NoLocals.tx = NoTx /\ NoLocals.back = "idle"
    BY DEF NoLocals
  <1>3. loc[Processor].back \in {"idle", "unbilled", "retries"}
    BY Actors, LocalsFields
  <1>4. r.tx = NoTx
    BY <1>1, <1>2
  <1>5. InUnbilled' => InUnbilled
    BY <1>1, <1>2 DEF InUnbilled
  <1>6. ProcShape(s, r) /\ SoloPayer(s, r, orders, txs) /\ s \notin {"payNumber", "paySave"}
    BY <1>1, <1>3, SoloEasy DEF ProcShape, PayStates
  <1> QED
    BY <1>4, <1>5, <1>6, MoveKeeps

(* lockOrder, unlockOrder, and the first read of retryOne. *)
LEMMA LockKeeps ==
  ASSUME BillingInv, SoloInv, OthersRest,
         \/ LockLoad(Processor) \/ LockAcquire(Processor) \/ LockRelease(Processor)
         \/ RetryRead(Processor)
  PROVE  ProcessorKeeps
  <1> DEFINE s == pc'[Processor]
             r == loc'[Processor]
  <1>1. ProcShape(pc[Processor], loc[Processor])
    BY DEF SoloInv, WhoRuns
  <1>2. r.tx = loc[Processor].tx /\ r.op = loc[Processor].op /\ r.back = loc[Processor].back
    <2>1. CASE RetryRead(Processor)
      BY <2>1, Actors, SnapSet DEF RetryRead
    <2>2. CASE LockLoad(Processor) \/ LockAcquire(Processor) \/ LockRelease(Processor)
      BY <2>2 DEF LockLoad, LockAcquire, LockRelease
    <2> QED
      BY <2>1, <2>2
  <1>3. \/ pc[Processor] = "load" /\ s = "wait"
        \/ pc[Processor] = "wait" /\ s = "payRead"
        \/ pc[Processor] = "unlock" /\ s = "delete"
        \/ pc[Processor] = "retryRead" /\ s = "retryReset"
    BY <1>1, Actors DEF LockLoad, LockAcquire, LockRelease, RetryRead, Goto, ProcShape
  <1>4. UNCHANGED <<txs, orders, retries, clock, todo, ticked, historyVars>>
    BY DEF LockLoad, LockAcquire, LockRelease, RetryRead, LocalStep, envVars, dbVars
  <1>5. ProcShape(s, r) /\ SoloPayer(s, r, orders, txs) /\ s \notin {"payNumber", "paySave"}
    BY <1>1, <1>2, <1>3, SoloEasy DEF ProcShape, PayStates
  <1>6. InUnbilled' => InUnbilled
    BY <1>2, <1>3 DEF InUnbilled
  <1> QED
    BY <1>2, <1>4, <1>5, <1>6, MoveKeeps

(* The deferred delete, and a context that ends. *)
LEMMA LeaveKeeps ==
  ASSUME BillingInv, SoloInv, OthersRest, LockDelete(Processor) \/ CallerDeadline(Processor)
  PROVE  ProcessorKeeps
  <1>1. UNCHANGED <<txs, orders, retries, clock, todo, ticked, historyVars>>
    BY DEF LockDelete, CallerDeadline, LocalStep, envVars, dbVars
  <1>2. \/ pc'[Processor] = "unlock" /\ loc'[Processor] = Leaving(Processor)
        \/ pc'[Processor] = loc[Processor].back /\ loc'[Processor] = NoLocals
    BY Actors DEF LockDelete, CallerDeadline, Goto
  <1> QED
    BY <1>1, <1>2, ReturnKeeps

(* A step of the section that keeps the transaction and the copy's amount. *)
LEMMA SectionKeeps ==
  ASSUME BillingInv, SoloInv, OthersRest,
         UNCHANGED <<txs, orders, retries, clock, todo, ticked, historyVars>>,
         pc[Processor] \in PayStates,
         pc'[Processor] \in (PayStates \ {"payNumber", "paySave"}) \cup {"panic"},
         loc'[Processor].tx = loc[Processor].tx /\ loc'[Processor].back = loc[Processor].back,
         SoloPayer(pc'[Processor], loc'[Processor], orders, txs)
  PROVE  ProcessorKeeps
  <1>1. ProcShape(pc'[Processor], loc'[Processor]) /\ pc'[Processor] \notin {"payNumber", "paySave", "unbilled"}
    BY DEF ProcShape, PayStates
  <1>2. InUnbilled' => InUnbilled
    BY <1>1 DEF InUnbilled
  <1> QED
    BY <1>1, <1>2, MoveKeeps

(* The transaction is read, and the call may return. *)
LEMMA PayReadKeeps ==
  ASSUME BillingInv, SoloInv, OthersRest, PayRead(Processor)
  PROVE  ProcessorKeeps
  <1> DEFINE tx == txs[loc[Processor].tx]
  <1>0. pc[Processor] = "payRead" /\ pc[Processor] \in PayStates
    BY DEF PayRead, Goto, PayStates
  <1>1. UNCHANGED <<txs, orders, retries, clock, todo, ticked, historyVars>>
    BY DEF PayRead, LocalStep, envVars, dbVars
  <1>2. pc'[Processor] \in {"unlock", "panic", "paySettle", "payPick"}
    <2>1. loc[Processor].tx \in Tx
      BY <1>0, Actors, PayFacts
    <2>2. TagOf[loc[Processor].tx] \in {"user", "nouser", "missing"}
      BY <2>1, BillingAssumption
    <2> QED
      BY <2>2, Actors DEF PayRead, Goto
  <1>3. CASE pc'[Processor] = "unlock"
    BY <1>1, <1>3, Actors, ReturnKeeps DEF PayRead
  <1>4. CASE pc'[Processor] # "unlock"
    <2>1. loc'[Processor] = [loc[Processor] EXCEPT !.snap = tx]
      BY <1>4, Actors DEF PayRead
    <2>2. /\ loc'[Processor].tx = loc[Processor].tx /\ loc'[Processor].back = loc[Processor].back
          /\ loc'[Processor].snap = tx
      BY <2>1, Actors DEF Locals
    <2>3. SoloPayer(pc'[Processor], loc'[Processor], orders, txs)
      BY <1>2, <2>2 DEF SoloPayer
    <2>4. pc'[Processor] \in (PayStates \ {"payNumber", "paySave"}) \cup {"panic"}
      BY <1>2, <1>4 DEF PayStates
    <2> QED
      BY <1>0, <1>1, <2>2, <2>3, <2>4, SectionKeeps
  <1> QED
    BY <1>3, <1>4

(* A card is picked. *)
LEMMA PayPickKeeps ==
  ASSUME BillingInv, SoloInv, OthersRest, PayPick(Processor)
  PROVE  ProcessorKeeps
  <1>0. pc[Processor] = "payPick" /\ pc[Processor] \in PayStates
    BY DEF PayPick, Goto, PayStates
  <1>1. UNCHANGED <<txs, orders, retries, clock, todo, ticked, historyVars>>
    BY DEF PayPick, LocalStep, envVars, dbVars
  <1>2. pc'[Processor] \in {"panic", "payExpired", "payRecord"}
    BY Actors DEF PayPick, Goto
  <1>3. loc' = loc \/ \E m : loc' = [loc EXCEPT ![Processor].card = m]
    BY DEF PayPick
  <1>4. /\ loc'[Processor].tx = loc[Processor].tx /\ loc'[Processor].back = loc[Processor].back
        /\ loc'[Processor].snap = loc[Processor].snap
    BY <1>3, Actors, CardSet
  <1>5. SoloPayer(pc[Processor], loc[Processor], orders, txs)
    BY DEF SoloInv
  <1>6. SoloPayer(pc'[Processor], loc'[Processor], orders, txs)
    BY <1>0, <1>2, <1>4, <1>5 DEF SoloPayer
  <1>7. pc'[Processor] \in (PayStates \ {"payNumber", "paySave"}) \cup {"panic"}
    BY <1>2 DEF PayStates
  <1> QED
    BY <1>0, <1>1, <1>4, <1>6, <1>7, SectionKeeps

(* An open order of the transaction is looked for. *)
LEMMA PayFindKeeps ==
  ASSUME BillingInv, SoloInv, OthersRest, PayFind(Processor)
  PROVE  ProcessorKeeps
  <1>0. pc[Processor] = "payFind" /\ pc[Processor] \in PayStates
    BY DEF PayFind, Goto, PayStates
  <1>1. UNCHANGED <<txs, orders, retries, clock, todo, ticked, historyVars>>
    BY DEF PayFind, LocalStep, envVars, dbVars
  <1>5. SoloPayer(pc[Processor], loc[Processor], orders, txs)
    BY DEF SoloInv
  <1>2. CASE OpenOrders(loc[Processor].tx) = {}
    <2>1. loc'[Processor] = loc[Processor] /\ pc'[Processor] \in {"paySettle", "payStamp"}
      BY <1>2, Actors, AfterCloseStates DEF PayFind, Goto
    <2>2. SoloPayer(pc'[Processor], loc'[Processor], orders, txs)
      BY <1>0, <1>5, <2>1 DEF SoloPayer, PayStates
    <2>3. pc'[Processor] \in (PayStates \ {"payNumber", "paySave"}) \cup {"panic"}
      BY <2>1 DEF PayStates
    <2> QED
      BY <1>0, <1>1, <2>1, <2>2, <2>3, SectionKeeps
  <1>3. CASE OpenOrders(loc[Processor].tx) # {}
    <2>1. PICK n \in OpenOrders(loc[Processor].tx) :
            loc' = [loc EXCEPT ![Processor].num = n, ![Processor].osnap = orders[n]]
      BY <1>3 DEF PayFind
    <2>2. /\ loc'[Processor].tx = loc[Processor].tx /\ loc'[Processor].back = loc[Processor].back
          /\ loc'[Processor].snap = loc[Processor].snap
          /\ loc'[Processor].num = n /\ loc'[Processor].osnap = orders[n]
      <3>1. loc'[Processor] = [loc[Processor] EXCEPT !.num = n, !.osnap = orders[n]]
        BY <2>1, Actors
      <3> QED
        BY <3>1, Actors DEF Locals
    <2>3. pc'[Processor] = "payClose"
      BY <1>3, Actors DEF PayFind, Goto
    <2>4. SoloPayer(pc'[Processor], loc'[Processor], orders, txs)
      BY <1>0, <1>5, <2>2, <2>3 DEF SoloPayer, PayStates, OpenOrders
    <2>5. pc'[Processor] \in (PayStates \ {"payNumber", "paySave"}) \cup {"panic"}
      BY <2>3 DEF PayStates
    <2> QED
      BY <1>0, <1>1, <2>2, <2>4, <2>5, SectionKeeps
  <1> QED
    BY <1>2, <1>3

(* The processor writes the copy s to its transaction. *)
LEMMA WriteKeeps ==
  ASSUME BillingInv, SoloInv, OthersRest,
         UNCHANGED <<orders, retries, clock, todo, ticked, captured, lost, exhausted, clash>>,
         NEW s \in TxDoc, loc[Processor].tx \in Tx, loc[Processor].tx \notin exhausted,
         UpdateTransactionPayment(loc[Processor].tx, s),
         ~Full(s) \/ ~Charged(loc[Processor].tx),
         pc'[Processor] \notin {"payNumber", "paySave", "payClose", "unbilled"},
         loc'[Processor].back = loc[Processor].back,
         loc'[Processor].tx \in {loc[Processor].tx, NoTx},
         ProcShape(pc'[Processor], loc'[Processor]),
         pc'[Processor] \in PayStates =>
           loc'[Processor].tx = loc[Processor].tx /\ loc'[Processor].snap.billed = s.billed
  PROVE  ProcessorKeeps
  <1> DEFINE t == loc[Processor].tx
  <1>1. /\ \A u \in Tx : u # t => txs'[u] = txs[u]
        /\ txs'[t].finished = txs[t].finished
        /\ txs'[t].billed = s.billed /\ txs'[t].error = s.error
    BY TxUpdated
  <1>2. \A u \in Tx : txs'[u] = txs[u] \/ ~Full(txs'[u]) \/ ~Charged(u)
    BY <1>1 DEF Full
  <1>3. Numbers'
    BY NumbersSame DEF SoloInv
  <1>4. InUnbilled' => InUnbilled
    BY DEF InUnbilled
  <1>5. \A u \in Tx :
          /\ u # t => txs'[u] = txs[u] /\ retries'[u] = retries[u]
          /\ retries'[u] \in {retries[u], NoRetry}
          /\ txs'[u].finished = txs[u].finished
          /\ u \in exhausted => txs'[u] = txs[u]
    BY <1>1
  <1>6. ProcessorFrame
    BY <1>4, <1>5 DEF ProcessorFrame
  <1>7. loc'[Processor].tx \in todo /\ InUnbilled' => retries[loc'[Processor].tx] = NoRetry
    BY Actors DEF SoloInv, WhoRuns
  <1>8. SoloPayer(pc'[Processor], loc'[Processor], orders', txs')
    BY <1>1 DEF SoloPayer
  <1> QED
    BY <1>2, <1>3, <1>6, <1>7, <1>8 DEF ProcessorKeeps, ProcessorWrites

(* retryOne resets the payment state of its transaction. *)
LEMMA RetryResetKeeps ==
  ASSUME BillingInv, SoloInv, DebtInv, OthersRest, RetryReset(Processor)
  PROVE  ProcessorKeeps
  <1> DEFINE t == loc[Processor].tx
             s == [loc[Processor].snap EXCEPT !.billed = 0, !.error = ""]
  <1>0. /\ pc[Processor] = "retryReset" /\ pc'[Processor] = "load"
        /\ UpdateTransactionPayment(t, s)
        /\ UNCHANGED <<orders, retries, clock, todo, ticked, captured, lost, exhausted, clash>>
    BY Actors DEF RetryReset, Goto, envVars, historyVars
  <1>1. t \in Tx /\ loc[Processor].snap \in TxDoc /\ loc[Processor].op = "pay"
    BY <1>0, Actors, CallerFacts, LocalsFields DEF BillingInv, CallerShape
  <1>2. s \in TxDoc /\ s.billed = 0
    BY <1>1 DEF TxDoc
  <1> HIDE DEF s
  <1>3. t \notin exhausted /\ ~Full(s)
    BY <1>1, <1>2, Actors, NotFull DEF DebtInv
  <1>4. /\ loc'[Processor].tx = t /\ loc'[Processor].back = loc[Processor].back
        /\ loc'[Processor].op = "pay"
    BY <1>1, Actors, SnapSet DEF RetryReset
  <1>5. ProcShape(pc'[Processor], loc'[Processor])
    BY <1>0, <1>4 DEF ProcShape
  <1> QED
    BY <1>0, <1>1, <1>2, <1>3, <1>4, <1>5, WriteKeeps DEF PayStates

(* The processor's own transaction is a debt that was not given up. *)
LEMMA NotExhausted ==
  ASSUME BillingInv, DebtInv, loc[Processor].tx \in Tx
  PROVE  loc[Processor].tx \notin exhausted
  BY DEF DebtInv

(* An expired card. *)
LEMMA PayExpiredKeeps ==
  ASSUME BillingInv, SoloInv, DebtInv, OthersRest, PayExpired(Processor)
  PROVE  ProcessorKeeps
  <1> DEFINE t == loc[Processor].tx
             s == [loc[Processor].snap EXCEPT !.error = "expired"]
  <1>0. /\ pc[Processor] = "payExpired" /\ pc'[Processor] = "payDrop" /\ loc' = loc
        /\ UpdateTransactionPayment(t, s)
        /\ UNCHANGED <<orders, retries, clock, todo, ticked, captured, lost, exhausted, clash>>
    BY Actors DEF PayExpired, Goto, envVars, historyVars
  <1>1. t \in Tx /\ loc[Processor].snap \in TxDoc /\ loc[Processor].snap.billed < Amount
    BY <1>0, Actors, PayFacts DEF PayStates
  <1>2. s \in TxDoc /\ s.billed = loc[Processor].snap.billed /\ s.billed \in Nat
    BY <1>1 DEF TxDoc
  <1> HIDE DEF s
  <1>3. t \notin exhausted /\ ~Full(s)
    BY <1>1, <1>2, NotExhausted, NotFull
  <1>5. ProcShape(pc'[Processor], loc'[Processor])
    BY <1>0 DEF ProcShape
  <1> QED
    BY <1>0, <1>1, <1>2, <1>3, <1>5, WriteKeeps DEF PayStates

(* The card is recorded. *)
LEMMA PayRecordKeeps ==
  ASSUME BillingInv, SoloInv, DebtInv, OthersRest, PayRecord(Processor)
  PROVE  ProcessorKeeps
  <1> DEFINE t == loc[Processor].tx
             s == [loc[Processor].snap EXCEPT !.method = loc[Processor].card]
  <1>0. /\ pc[Processor] = "payRecord" /\ pc'[Processor] = "payFind"
        /\ UpdateTransactionPayment(t, s) /\ loc' = [loc EXCEPT ![Processor].snap = s]
        /\ UNCHANGED <<orders, retries, clock, todo, ticked, captured, lost, exhausted, clash>>
    BY Actors DEF PayRecord, Goto, envVars, historyVars
  <1>1. /\ t \in Tx /\ loc[Processor].snap \in TxDoc /\ loc[Processor].card \in Method
        /\ loc[Processor].snap.billed < Amount
    BY <1>0, Actors, PayFacts DEF PayStates
  <1>2. s \in TxDoc /\ s.billed < Amount /\ s.billed \in Nat
    BY <1>1 DEF TxDoc
  <1> HIDE DEF s
  <1>3. t \notin exhausted /\ ~Full(s)
    BY <1>1, <1>2, NotExhausted, NotFull
  <1>4. /\ loc'[Processor].tx = t /\ loc'[Processor].back = loc[Processor].back
        /\ loc'[Processor].snap = s
    BY <1>0, Actors, SnapSet
  <1>5. ProcShape(pc'[Processor], loc'[Processor])
    BY <1>0 DEF ProcShape
  <1> QED
    BY <1>0, <1>1, <1>2, <1>3, <1>4, <1>5, WriteKeeps DEF PayStates

(* The transaction is written off. *)
LEMMA PaySettleKeeps ==
  ASSUME BillingInv, PaidInv, SoloInv, DebtInv, OthersRest, PaySettle(Processor)
  PROVE  ProcessorKeeps
  <1> DEFINE t == loc[Processor].tx
             s == [loc[Processor].snap EXCEPT !.billed = Amount]
  <1>0. /\ pc[Processor] = "paySettle" /\ pc'[Processor] = "unlock"
        /\ UpdateTransactionPayment(t, s) /\ loc'[Processor] = Leaving(Processor)
        /\ UNCHANGED <<orders, retries, clock, todo, ticked, captured, lost, exhausted, clash>>
    BY Actors DEF PaySettle, Goto, envVars, historyVars
  <1>1. /\ t \in Tx /\ loc[Processor].snap \in TxDoc /\ ~Charged(t)
    BY <1>0, Actors, PayFacts DEF PayStates, PaidInv, PayerShape, SoloInv, Numbers
  <1>2. s \in TxDoc
    BY <1>1, Actors DEF TxDoc
  <1> HIDE DEF s
  <1>3. t \notin exhausted
    BY <1>1, NotExhausted
  <1>4. Leaving(Processor).tx = NoTx /\ Leaving(Processor).back = loc[Processor].back
    BY DEF Leaving, NoLocals
  <1>5. ProcShape(pc'[Processor], loc'[Processor])
    BY <1>0, <1>4 DEF ProcShape
  <1> QED
    BY <1>0, <1>1, <1>2, <1>3, <1>4, <1>5, WriteKeeps DEF PayStates

(* The retry record of an expired card is dropped. *)
LEMMA PayDropKeeps ==
  ASSUME BillingInv, SoloInv, OthersRest, PayDrop(Processor)
  PROVE  ProcessorKeeps
  <1> DEFINE t == loc[Processor].tx
  <1>0. /\ pc[Processor] = "payDrop" /\ pc'[Processor] = "unlock"
        /\ retries' = [retries EXCEPT ![t] = NoRetry] /\ loc'[Processor] = Leaving(Processor)
        /\ UNCHANGED <<txs, orders, clock, todo, ticked, captured, lost, exhausted, clash>>
    BY Actors DEF PayDrop, Goto, envVars, historyVars
  <1>1. Leaving(Processor).tx = NoTx /\ Leaving(Processor).back = loc[Processor].back
    BY DEF Leaving, NoLocals
  <1>2. \A u \in Tx : (u # t => retries'[u] = retries[u]) /\ retries'[u] \in {retries[u], NoRetry}
    BY <1>0, Actors
  <1>3. InUnbilled' => InUnbilled
    BY <1>0, <1>1 DEF InUnbilled
  <1>4. ProcessorFrame
    BY <1>0, <1>1, <1>2, <1>3 DEF ProcessorFrame
  <1>5. ProcShape(pc'[Processor], loc'[Processor]) /\ SoloPayer(pc'[Processor], loc'[Processor], orders', txs')
    BY <1>0, <1>1, SoloEasy DEF ProcShape, PayStates
  <1>6. Numbers'
    BY <1>0, NumbersSame DEF SoloInv
  <1>7. loc'[Processor].tx \notin todo
    BY <1>0, <1>1, Actors
  <1>8. ~Full(txs[t])
    <2>1. t \in Tx /\ loc[Processor].snap.billed < Amount /\ loc[Processor].snap.billed = txs[t].billed
      BY <1>0, Actors, PayFacts DEF PayStates, SoloInv, SoloPayer
    <2>2. txs[t].billed \in Nat
      BY <2>1, Actors DEF TxDoc
    <2> QED
      BY <2>1, <2>2, NotFull
  <1> QED
    BY <1>0, <1>2, <1>4, <1>5, <1>6, <1>7, <1>8 DEF ProcessorKeeps, ProcessorWrites

(* The previous order is closed. *)
LEMMA PayCloseKeeps ==
  ASSUME BillingInv, PaidInv, SoloInv, OthersRest, PayClose(Processor)
  PROVE  ProcessorKeeps
  <1> DEFINE k == loc[Processor].num
             o == [loc[Processor].osnap EXCEPT !.completed = TRUE, !.result = "closed"]
  <1>0. /\ pc[Processor] = "payClose" /\ pc'[Processor] = "payPenalty" /\ loc' = loc
        /\ SavePaymentOrder(k, o)
        /\ UNCHANGED <<txs, retries, clock, todo, ticked, captured, lost, exhausted, clash>>
    BY Actors DEF PayClose, Goto, envVars, historyVars
  <1>1. /\ loc[Processor].osnap = orders[k] /\ ~orders[k].completed /\ orders[k].tx = loc[Processor].tx
    BY <1>0 DEF SoloInv, SoloPayer
  <1>2. k \in OrderNums /\ orders[k].opened > 0
    BY <1>0, Actors DEF PaidInv, PayerShape, CopyOf, SoloInv, Numbers
  <1>3. o.opened = orders[k].opened
    <2>1. /\ orders[k] \in OrderDoc
          /\ o = Completed(orders[k], "closed")
      BY <1>1, <1>2, Actors DEF Completed
    <2> HIDE DEF o
    <2> QED
      BY <2>1, CompletedOrder
  <1> HIDE DEF o
  <1>4. \A n \in OrderNums : orders'[n] = IF n = k THEN o ELSE orders[n]
    BY <1>0, Actors DEF SavePaymentOrder
  <1>5. Numbers'
    BY <1>0, <1>3, <1>4, NumbersSame DEF SoloInv
  <1>6. InUnbilled' => InUnbilled
    BY <1>0 DEF InUnbilled
  <1>7. ProcessorFrame
    BY <1>0, <1>6 DEF ProcessorFrame
  <1>8. ProcShape(pc'[Processor], loc'[Processor])
    BY <1>0 DEF ProcShape
  <1>9. SoloPayer(pc'[Processor], loc'[Processor], orders', txs')
    BY <1>0 DEF SoloInv, SoloPayer, PayStates
  <1>10. loc'[Processor].tx \notin todo
    BY <1>0 DEF SoloInv, WhoRuns
  <1> QED
    BY <1>0, <1>1, <1>2, <1>4, <1>5, <1>7, <1>8, <1>9, <1>10 DEF ProcessorKeeps, ProcessorWrites

(* The card of the previous order is counted as failing. *)
LEMMA PayPenaltyKeeps ==
  ASSUME BillingInv, SoloInv, OthersRest, PayPenalty(Processor)
  PROVE  ProcessorKeeps
  <1>0. pc[Processor] = "payPenalty" /\ pc[Processor] \in PayStates
    BY DEF PayPenalty, Goto, PayStates
  <1>1. UNCHANGED <<txs, orders, retries, clock, todo, ticked, historyVars>>
    BY DEF PayPenalty, envVars
  <1>2. pc'[Processor] \in {"paySettle", "payStamp"}
    BY Actors, AfterCloseStates DEF PayPenalty, Goto
  <1>3. /\ loc'[Processor].tx = loc[Processor].tx /\ loc'[Processor].back = loc[Processor].back
        /\ loc'[Processor].snap = loc[Processor].snap
    BY Actors, OrderSet DEF PayPenalty
  <1>4. SoloPayer(pc'[Processor], loc'[Processor], orders, txs)
    BY <1>0, <1>2, <1>3 DEF SoloInv, SoloPayer, PayStates
  <1>5. pc'[Processor] \in (PayStates \ {"payNumber", "paySave"}) \cup {"panic"}
    BY <1>2 DEF PayStates
  <1> QED
    BY <1>0, <1>1, <1>3, <1>4, <1>5, SectionKeeps

(* The time stamp of the new order is later than all others. *)
LEMMA PayStampKeeps ==
  ASSUME BillingInv, SoloInv, OthersRest, PayStamp(Processor)
  PROVE  ProcessorKeeps
  <1>0. pc[Processor] = "payStamp" /\ pc[Processor] \in PayStates
    BY DEF PayStamp, Goto, PayStates
  <1>1. UNCHANGED <<txs, orders, retries, todo, ticked, historyVars>>
    BY DEF PayStamp, dbVars
  <1>2. CASE clock < MaxOrders
    <2>1. /\ pc'[Processor] = "payNumber" /\ clock' = clock + 1
          /\ loc' = [loc EXCEPT ![Processor].stamp = clock + 1]
      BY <1>2, Actors DEF PayStamp, Goto
    <2>2. PICK x : x = clock + 1
      OBVIOUS
    <2>3. /\ loc'[Processor].tx = loc[Processor].tx /\ loc'[Processor].back = loc[Processor].back
          /\ loc'[Processor].snap = loc[Processor].snap /\ loc'[Processor].stamp = x
      BY <2>1, <2>2, Actors, StampSet
    <2>4. clock \in Nat /\ \A n \in OrderNums : orders[n].opened \in Nat
      <3>1. clock \in 0..MaxOrders /\ MaxOrders \in Nat
        BY BillingAssumption DEF BillingInv, OtherTypes
      <3>2. \A n \in OrderNums : orders[n].opened \in Nat
        BY Actors DEF OrderDoc
      <3> QED
        BY <3>1, <3>2
    <2>5. Numbers'
      BY <1>1, <2>1, <2>2, <2>3, <2>4 DEF SoloInv, Numbers, historyVars
    <2>6. InUnbilled' => InUnbilled
      BY <2>1, <2>3 DEF InUnbilled
    <2>7. ProcessorFrame
      BY <1>1, <2>3, <2>6 DEF ProcessorFrame, historyVars
    <2>8. ProcShape(pc'[Processor], loc'[Processor])
      BY <2>1 DEF ProcShape
    <2>9. SoloPayer(pc'[Processor], loc'[Processor], orders', txs')
      BY <1>0, <1>1, <2>1, <2>3 DEF SoloInv, SoloPayer, PayStates
    <2>10. loc'[Processor].tx \notin todo
      BY <2>3 DEF SoloInv, WhoRuns
    <2> QED
      BY <1>1, <2>5, <2>7, <2>8, <2>9, <2>10 DEF ProcessorKeeps, ProcessorWrites
  <1>3. CASE ~(clock < MaxOrders)
    <2>1. /\ pc'[Processor] = "unlock" /\ clock' = clock /\ loc'[Processor] = Leaving(Processor)
      BY <1>3, Actors DEF PayStamp, Goto
    <2> QED
      BY <1>1, <2>1, ReturnKeeps
  <1> QED
    BY <1>2, <1>3

(* The number of the new order is above all others. *)
LEMMA PayNumberKeeps ==
  ASSUME BillingInv, SoloInv, OthersRest, PayNumber(Processor)
  PROVE  ProcessorKeeps
  <1>0. pc[Processor] = "payNumber" /\ pc'[Processor] = "paySave"
    BY Actors DEF PayNumber, Goto
  <1>1. UNCHANGED <<txs, orders, retries, todo, ticked, clock, historyVars>>
    BY DEF PayNumber, LocalStep, dbVars, envVars
  <1>2. PICK x : x = NextOrderNumber
    OBVIOUS
  <1>3. /\ loc'[Processor].tx = loc[Processor].tx /\ loc'[Processor].back = loc[Processor].back
        /\ loc'[Processor].snap = loc[Processor].snap /\ loc'[Processor].stamp = loc[Processor].stamp
        /\ loc'[Processor].num = x
    BY <1>2, Actors, NumSet DEF PayNumber
  <1>4. \A n \in OrderNums : orders[n].opened > 0 => n < x
    <2> SUFFICES ASSUME NEW n \in OrderNums, orders[n].opened > 0
                 PROVE  n < x
      OBVIOUS
    <2>1. \E i \in OrderNums : Stored(i)
      BY DEF Stored
    <2>2. \E i \in OrderNums : Stored(i) /\ \A k \in OrderNums : orders[k].opened <= orders[i].opened
      BY DEF SoloInv, Numbers, Stored
    <2>3. PICK i \in OrderNums : /\ Stored(i) /\ \A k \in OrderNums : orders[k].opened <= orders[i].opened
                                 /\ x = 1 + i
      BY <1>2, <2>1, <2>2 DEF NextOrderNumber
    <2>4. n > i => orders[i].opened < orders[n].opened
      BY <2>3 DEF SoloInv, Numbers, Stored
    <2>5. orders[n].opened <= orders[i].opened /\ orders[n].opened \in Nat /\ orders[i].opened \in Nat
      BY <2>3, Actors DEF OrderDoc
    <2> QED
      BY <2>3, <2>4, <2>5 DEF OrderNums
  <1>5. Numbers'
    BY <1>0, <1>1, <1>3, <1>4 DEF SoloInv, Numbers, historyVars
  <1>6. InUnbilled' => InUnbilled
    BY <1>0, <1>3 DEF InUnbilled
  <1>7. ProcessorFrame
    BY <1>1, <1>3, <1>6 DEF ProcessorFrame, historyVars
  <1>8. ProcShape(pc'[Processor], loc'[Processor])
    BY <1>0 DEF ProcShape
  <1>9. SoloPayer(pc'[Processor], loc'[Processor], orders', txs')
    BY <1>0, <1>1, <1>3 DEF SoloInv, SoloPayer, PayStates
  <1>10. loc'[Processor].tx \notin todo
    BY <1>3 DEF SoloInv, WhoRuns
  <1> QED
    BY <1>1, <1>5, <1>7, <1>8, <1>9, <1>10 DEF ProcessorKeeps, ProcessorWrites

(* The passes over the work lists: a call is started, or a pass ends. *)
LEMMA VisitKeeps ==
  ASSUME BillingInv, SoloInv, OthersRest, ProcessUnbilled \/ ProcessRetry \/ EndTick
  PROVE  ProcessorKeeps
  <1>1. UNCHANGED <<txs, orders, retries, clock, ticked, captured, lost, exhausted, clash>>
    BY DEF ProcessUnbilled, ProcessRetry, EndTick, LocalStep, dbVars, envVars, historyVars
  <1>2. pc'[Processor] \notin {"payNumber", "paySave"} /\ pc'[Processor] \notin PayStates
    BY Actors DEF ProcessUnbilled, ProcessRetry, EndTick, Goto, PayStates
  <1>3. Numbers' /\ SoloPayer(pc'[Processor], loc'[Processor], orders', txs')
    BY <1>1, <1>2, NumbersSame, SoloEasy DEF SoloInv
  <1>4. /\ pc[Processor] \in {"unbilled", "retries"} /\ loc[Processor] = NoLocals
        /\ NoLocals.tx = NoTx /\ NoLocals.back = "idle"
    BY Actors DEF ProcessUnbilled, ProcessRetry, EndTick, Goto, SoloInv, WhoRuns, ProcShape, NoLocals
  <1>5. ASSUME ProcessorFrame, ProcShape(pc'[Processor], loc'[Processor]),
               loc'[Processor].tx \in todo /\ InUnbilled' => retries[loc'[Processor].tx] = NoRetry
        PROVE  ProcessorKeeps
    BY <1>1, <1>3, <1>5 DEF ProcessorKeeps, ProcessorWrites
  <1>6. ASSUME NEW t \in todo, todo' = todo \ {t}, pc[Processor] = "unbilled", pc' = pc, loc' = loc
        PROVE  ProcessorKeeps
    <2>1. ProcShape(pc'[Processor], loc'[Processor])
      BY <1>6 DEF SoloInv, WhoRuns
    <2>2. ProcessorFrame
      BY <1>1, <1>6 DEF ProcessorFrame, InUnbilled
    <2>3. loc'[Processor].tx \notin todo
      BY <1>4, <1>6, Actors
    <2> QED
      BY <1>5, <2>1, <2>2, <2>3
  <1>7. ASSUME NEW t \in todo, NEW b, todo' = todo \ {t},
               loc'[Processor] = [NoLocals EXCEPT !.op = "pay", !.tx = t, !.back = b],
               \/ b = "unbilled" /\ pc'[Processor] = "load" /\ pc[Processor] = "unbilled"
                  /\ retries[t] = NoRetry
               \/ b = "retries" /\ pc'[Processor] = "retryRead"
        PROVE  ProcessorKeeps
    <2>1. loc'[Processor].tx = t /\ loc'[Processor].op = "pay" /\ loc'[Processor].back = b
      BY <1>7 DEF NoLocals
    <2>2. ProcShape(pc'[Processor], loc'[Processor])
      BY <1>7, <2>1 DEF ProcShape
    <2>3. InUnbilled' => InUnbilled /\ retries[t] = NoRetry
      BY <1>7, <2>1 DEF InUnbilled
    <2>4. ProcessorFrame
      BY <1>1, <1>7, <2>1, <2>3 DEF ProcessorFrame
    <2> QED
      BY <1>5, <2>1, <2>2, <2>3, <2>4
  <1>8. CASE ProcessUnbilled
    <2>1. PICK t \in todo :
            /\ todo' = todo \ {t}
            /\ IF retries[t] # NoRetry
               THEN UNCHANGED <<pc, loc>>
               ELSE /\ Goto(Processor, "unbilled", "load")
                    /\ loc' = [loc EXCEPT ![Processor] =
                                [NoLocals EXCEPT !.op = "pay", !.tx = t, !.back = "unbilled"]]
      BY <1>8 DEF ProcessUnbilled
    <2>2. pc[Processor] = "unbilled"
      BY <1>8 DEF ProcessUnbilled
    <2>3. CASE retries[t] # NoRetry
      BY <1>6, <2>1, <2>2, <2>3
    <2>4. CASE retries[t] = NoRetry
      <3>1. /\ pc'[Processor] = "load"
            /\ loc'[Processor] = [NoLocals EXCEPT !.op = "pay", !.tx = t, !.back = "unbilled"]
        BY <2>1, <2>4, Actors DEF Goto
      <3> QED
        BY <1>7, <2>1, <2>2, <2>4, <3>1
    <2> QED
      BY <2>3, <2>4
  <1>9. CASE ProcessRetry
    <2>1. PICK t \in todo :
            /\ todo' = todo \ {t}
            /\ loc' = [loc EXCEPT ![Processor] =
                        [NoLocals EXCEPT !.op = "pay", !.tx = t, !.back = "retries"]]
      BY <1>9 DEF ProcessRetry
    <2>2. /\ pc'[Processor] = "retryRead"
          /\ loc'[Processor] = [NoLocals EXCEPT !.op = "pay", !.tx = t, !.back = "retries"]
      BY <1>9, <2>1, Actors DEF ProcessRetry, Goto
    <2> QED
      BY <1>7, <2>1, <2>2
  <1>10. CASE EndTick
    <2>1. pc'[Processor] = "idle" /\ loc' = loc /\ todo' = todo
      BY <1>10, Actors DEF EndTick, Goto, LocalStep
    <2>2. ProcShape(pc'[Processor], loc'[Processor])
      BY <1>4, <2>1 DEF ProcShape
    <2>3. ProcessorFrame
      BY <1>1, <1>4, <2>1 DEF ProcessorFrame, InUnbilled
    <2>4. loc'[Processor].tx \notin todo
      BY <1>4, <2>1, Actors
    <2> QED
      BY <1>5, <2>2, <2>3, <2>4
  <1> QED
    BY <1>8, <1>9, <1>10

(* An approved order stays the order of a paid transaction. *)
LEMMA TracedStays ==
  ASSUME NEW t, NEW d, Traced(t, orders, d), d.order \in OrderNums,
         \A n \in OrderNums : orders[n].completed => orders'[n] = orders[n]
  PROVE  Traced(t, orders', d)
  BY DEF Traced

(* The order that a paid transaction names. *)
LEMMA TracedNumber ==
  ASSUME BillingInv, NEW t \in Tx, Traced(t, orders, txs[t])
  PROVE  txs[t].order \in OrderNums
  BY Actors DEF Traced, TxDoc

(* What a step of the processor keeps. *)
LEMMA ProcessorInv ==
  ASSUME BillingInv, PaidInv, SoloInv, DebtInv, ProcessorKeeps
  PROVE  SoloInv' /\ DebtInv'
  <1>1. ProcessorFrame /\ ProcessorWrites
    BY DEF ProcessorKeeps
  <1>2. WhoRuns'
    BY FrameWho DEF ProcessorKeeps
  <1>3. Captures'
    BY <1>1, FrameCaptures
  <1>4. \A g \in Live' : SoloJob(pc'[g], loc'[g], orders', txs')
    BY <1>1, FrameJobs DEF ProcessorWrites
  <1>5. DebtInv'
    BY <1>1, FrameDebt
  <1>6. ASSUME NEW t \in Tx, ShownPaid(txs'[t]), Charged(t)
        PROVE  Traced(t, orders', txs'[t])
    <2>1. txs'[t] = txs[t]
      BY <1>1, <1>6 DEF ProcessorWrites, ShownPaid, Full
    <2>2. Traced(t, orders, txs[t])
      BY <1>6, <2>1 DEF SoloInv
    <2>3. \A n \in OrderNums : orders[n].completed => orders'[n] = orders[n]
      BY <1>1 DEF ProcessorWrites
    <2> QED
      BY <2>1, <2>2, <2>3, TracedStays, TracedNumber
  <1>7. SoloPayer(pc'[Processor], loc'[Processor], orders', txs') /\ Numbers'
    BY DEF ProcessorKeeps
  <1>8. \A t \in Tx : ShownPaid(txs'[t]) /\ Charged(t) => Traced(t, orders', txs'[t])
    BY <1>6
  <1>9. SoloInv'
    BY <1>2, <1>3, <1>4, <1>7, <1>8 DEF SoloInv, Charged
  <1> QED
    BY <1>5, <1>9

(* The steps of the processor's calls that start no goroutine. *)
LEMMA CallKeeps ==
  ASSUME BillingInv, PaidInv, SoloInv, DebtInv, Api = {},
         NEW p \in Callers, CallerStep(p), ~PaySave(p)
  PROVE  ProcessorKeeps /\ SoloInv' /\ DebtInv'
  <1>1. /\ p = Processor
        /\ ~(CallPay(p) \/ CallForceRetry(p) \/ CallReturn(p) \/ CallReturnByOrder(p))
        /\ ~ReturnStart(p) /\ ~Recovered(p)
    BY OnlyProcessor
  <1>2. OthersRest
    BY <1>1, CallerMoves DEF OthersRest
  <1>3. \/ RetryRead(p) \/ RetryReset(p)
        \/ LockLoad(p) \/ LockAcquire(p) \/ LockRelease(p) \/ LockDelete(p)
        \/ PayRead(p) \/ PayPick(p) \/ PayExpired(p) \/ PayDrop(p) \/ PayRecord(p)
        \/ PayFind(p) \/ PayClose(p) \/ PayPenalty(p) \/ PaySettle(p)
        \/ PayStamp(p) \/ PayNumber(p) \/ CallerDeadline(p)
    BY <1>1 DEF CallerStep
  <1>4. ProcessorKeeps
    BY <1>1, <1>2, <1>3, RetryResetKeeps, LockKeeps, LeaveKeeps, PayReadKeeps, PayPickKeeps,
       PayExpiredKeeps, PayDropKeeps, PayRecordKeeps, PayFindKeeps, PayCloseKeeps, PayPenaltyKeeps,
       PaySettleKeeps, PayStampKeeps, PayNumberKeeps
  <1> QED
    BY <1>4, ProcessorInv

(* The processor loads a work list: the unbilled transactions when nothing *)
(* runs, and the due retries when no goroutine's transaction has a record. *)
LEMMA LoadInv ==
  ASSUME BillingInv, PaidInv, SoloInv, DebtInv, OthersRest, Tick \/ StartRetries
  PROVE  SoloInv' /\ DebtInv'
  <1>1. /\ UNCHANGED <<txs, orders, retries, clock, loc, ticked, captured, lost, exhausted, clash>>
        /\ pc'[Processor] \in {"unbilled", "retries"} /\ pc[Processor] \in {"idle", "unbilled"}
        /\ loc[Processor] = NoLocals /\ NoLocals.tx = NoTx /\ NoLocals.back = "idle"
    BY Actors DEF Tick, StartRetries, Goto, dbVars, envVars, historyVars, SoloInv, WhoRuns, ProcShape,
       NoLocals
  <1>2. Live' = Live /\ \A g \in Live : pc'[g] = pc[g]
    BY DEF OthersRest, Live, SameProc
  <1>3. todo' \subseteq Tx
    BY DEF Tick, StartRetries, GetUnbilledTransactions, GetPendingRetries
  <1>4. ASSUME NEW t \in Tx, t \in todo'
        PROVE  /\ txs[t].finished /\ t \notin exhausted
               /\ \A g \in Live : loc[g].tx # t
               /\ t \notin lost => captured[t] # Amount
    <2>1. CASE Tick
      <3>1. txs[t].finished /\ txs[t].billed < Amount /\ txs[t].billed \in Nat /\ Live = {}
        BY <1>4, <2>1, Actors DEF Tick, GetUnbilledTransactions, SoloInv, WhoRuns, TxDoc
      <3>2. ~(txs[t].billed >= Amount)
        BY <3>1, Actors
      <3> QED
        BY <3>1, <3>2 DEF DebtInv, SoloInv, Captures
    <2>2. CASE StartRetries
      <3>1. retries[t] # NoRetry /\ InUnbilled
        BY <1>4, <2>2 DEF StartRetries, GetPendingRetries, Goto, InUnbilled
      <3>2. \A g \in Live : loc[g].tx # t
        BY <3>1 DEF SoloInv, WhoRuns
      <3> QED
        BY <3>1, <3>2 DEF DebtInv, SoloInv, Captures
    <2> QED
      BY <2>1, <2>2
  <1>5. InUnbilled' => Live = {}
    <2>1. InUnbilled' => Tick
      BY <1>1, Actors DEF Tick, StartRetries, Goto, InUnbilled
    <2> QED
      BY <2>1 DEF Tick, SoloInv, WhoRuns
  <1>6. WhoRuns'
    <2>1. \A q \in Callers \ {Processor} : pc'[q] = "idle"
      BY DEF OthersRest, SameProc, SoloInv, WhoRuns
    <2>2. ProcShape(pc'[Processor], loc'[Processor])
      BY <1>1 DEF ProcShape
    <2>3. loc[Processor].tx \notin Tx
      BY <1>1, Actors
    <2>4. ASSUME NEW g \in Live
          PROVE  /\ loc[g].op = "pay" /\ g \in ticked /\ loc[g].tx # loc[Processor].tx
                 /\ loc[g].tx \notin todo'
      BY <1>3, <1>4, LiveFacts
    <2>5. \A g, h \in Live : loc[g].tx = loc[h].tx => g = h
      BY DEF SoloInv, WhoRuns
    <2> QED
      BY <1>1, <1>2, <1>3, <1>5, <2>1, <2>2, <2>3, <2>4, <2>5 DEF WhoRuns
  <1>7. Captures'
    <2> SUFFICES ASSUME NEW t \in Tx \ lost
                 PROVE  /\ captured[t] \in {0, Amount}
                        /\ \A g \in Live : loc[g].tx = t => (captured[t] = Amount <=> pc[g] \in OkStates)
                        /\ captured[t] = Amount =>
                             /\ loc[Processor].tx # t /\ t \notin todo'
                             /\ (\A g \in Live : loc[g].tx # t) =>
                                  txs[t].billed >= Amount /\ retries[t] = NoRetry
      BY <1>1, <1>2 DEF Captures
    <2> QED
      BY <1>4 DEF SoloInv, Captures
  <1>8. Numbers'
    BY <1>1, NumbersSame DEF SoloInv
  <1>9. SoloPayer(pc'[Processor], loc'[Processor], orders', txs')
    BY <1>1, SoloEasy DEF PayStates
  <1>10. \A g \in Live' : SoloJob(pc'[g], loc'[g], orders', txs')
    BY <1>1, <1>2 DEF SoloInv
  <1>11. \A t \in Tx : ShownPaid(txs'[t]) /\ Charged(t) => Traced(t, orders', txs'[t])
    BY <1>1 DEF SoloInv
  <1>12. SoloInv'
    BY <1>6, <1>7, <1>8, <1>9, <1>10, <1>11 DEF SoloInv, Charged
  <1>13. ASSUME NEW t \in Tx, t \in todo' \/ t = loc[Processor].tx \/ retries[t] # NoRetry
                               \/ (\E g \in Live : loc[g].tx = t)
         PROVE  txs[t].finished /\ t \notin exhausted
    BY <1>4, <1>13 DEF DebtInv
  <1>14. DebtInv'
    BY <1>1, <1>2, <1>13 DEF DebtInv
  <1> QED
    BY <1>12, <1>14

(* The processor saves a new order and starts a goroutine for it: nobody   *)
(* else works for the transaction, and nothing was captured for it.        *)
LEMMA SpawnInv ==
  ASSUME BillingInv, PaidInv, SoloInv, DebtInv, PaySave(Processor)
  PROVE  SoloInv' /\ DebtInv'
  <1> DEFINE n == loc[Processor].num
             t == loc[Processor].tx
             new == [NoOrder EXCEPT !.tx = t, !.card = loc[Processor].card.id,
                                    !.amount = Amount - loc[Processor].snap.billed,
                                    !.opened = loc[Processor].stamp]
             r == [NoLocals EXCEPT !.op = "pay", !.tx = t, !.num = n]
  <1>0. pc[Processor] = "paySave" /\ pc[Processor] \in PayStates
    BY DEF PaySave, PayStates
  <1>1. PICK g \in Goroutines : Spawn(Processor, g, "send", r)
    BY DEF PaySave
  <1>2. r.op = "pay" /\ r.tx = t /\ r.num = n
    BY DEF NoLocals
  <1>3. /\ new.tx = t /\ new.amount = Amount - loc[Processor].snap.billed
        /\ new.opened = loc[Processor].stamp /\ ~new.completed
    BY DEF NoOrder
  <1>4. /\ orders' = [orders EXCEPT ![n] = new] /\ clash' = (clash \/ Stored(n))
        /\ UNCHANGED <<txs, retries, clock, todo, captured, lost, exhausted>>
    BY DEF PaySave, SavePaymentOrder, envVars
  <1> HIDE DEF new, r
  <1>5. /\ n \in OrderNums /\ loc[Processor].stamp > 0 /\ t \in Tx
        /\ loc[Processor].snap.billed = txs[t].billed
    BY <1>0, Actors, PayFacts DEF PaidInv, PayerShape, SoloInv, Numbers, SoloPayer, PayStates
  <1>6. /\ pc[g] = "idle" /\ pc'[g] = "send" /\ loc'[g] = r /\ g \in ticked' /\ ticked \subseteq ticked'
        /\ pc'[Processor] = "unlock" /\ loc'[Processor] = Leaving(Processor)
        /\ \A q \in Procs \ {Processor, g} : pc'[q] = pc[q] /\ loc'[q] = loc[q]
    BY <1>1, Actors DEF Spawn
  <1>7. Leaving(Processor).tx = NoTx /\ Leaving(Processor).back = loc[Processor].back
    BY DEF Leaving, NoLocals
  <1>8. Live' = Live \cup {g} /\ g \notin Live /\ \A h \in Live : pc'[h] = pc[h] /\ loc'[h] = loc[h]
    <2>1. \A h \in Goroutines : h # g => h \in Procs \ {Processor, g}
      BY Actors
    <2> QED
      BY <1>6, <2>1 DEF Live
  <1>9. /\ ~clash /\ ~clash' /\ \A k \in OrderNums : orders[k].opened > 0 => k < n
        /\ \A k \in OrderNums : orders[k].opened > 0 => k # n
    <2>1. ~clash /\ \A k \in OrderNums : orders[k].opened > 0 => k < n
      BY <1>0 DEF SoloInv, Numbers
    <2>2. \A k \in OrderNums : k \in Nat
      BY DEF OrderNums
    <2>3. \A k \in OrderNums : orders[k].opened > 0 => k # n
      BY <2>1, <2>2
    <2>4. ~Stored(n)
      BY <2>3 DEF Stored
    <2> QED
      BY <1>4, <2>1, <2>3, <2>4
  <1>10. \A k \in OrderNums : orders'[k] = IF k = n THEN new ELSE orders[k]
    BY <1>4, Actors
  <1>11. Numbers'
    <2>1. loc[Processor].stamp = clock /\ \A k \in OrderNums : orders[k].opened < clock
      BY <1>0 DEF SoloInv, Numbers
    <2>2. clock \in Nat /\ \A k \in OrderNums : orders[k].opened \in Nat
      <3>1. clock \in 0..MaxOrders /\ MaxOrders \in Nat
        BY BillingAssumption DEF BillingInv, OtherTypes
      <3>2. \A k \in OrderNums : orders[k].opened \in Nat
        BY Actors DEF OrderDoc
      <3> QED
        BY <3>1, <3>2
    <2>3. \A k \in OrderNums : orders'[k].opened = IF k = n THEN clock ELSE orders[k].opened
      BY <1>3, <1>10, <2>1
    <2>4. \A k, m \in OrderNums :
            orders'[k].opened > 0 /\ orders'[m].opened > 0 /\ k < m => orders'[k].opened < orders'[m].opened
      <3> SUFFICES ASSUME NEW k \in OrderNums, NEW m \in OrderNums,
                          orders'[k].opened > 0, orders'[m].opened > 0, k < m
                   PROVE  orders'[k].opened < orders'[m].opened
        OBVIOUS
      <3>1. k # n
        BY <1>5, <1>9, <2>3 DEF OrderNums
      <3>2. CASE m = n
        BY <2>1, <2>3, <3>1, <3>2
      <3>3. CASE m # n
        BY <2>3, <3>1, <3>3 DEF SoloInv, Numbers
      <3> QED
        BY <3>2, <3>3
    <2>5. \A k \in OrderNums : orders'[k].opened <= clock
      BY <2>1, <2>2, <2>3
    <2>6. orders'[n].opened = clock /\ clock > 0
      BY <1>5, <2>1, <2>3
    <2>7. \E k \in OrderNums : orders'[k].opened > 0 /\ \A m \in OrderNums : orders'[m].opened <= orders'[k].opened
      BY <1>5, <2>5, <2>6
    <2> QED
      BY <1>4, <1>6, <1>9, <2>4, <2>5, <2>7 DEF Numbers
  <1>12. WhoRuns'
    <2>1. \A q \in Callers \ {Processor} : pc'[q] = "idle"
      <3> SUFFICES ASSUME NEW q \in Callers \ {Processor}
                   PROVE  pc'[q] = "idle"
        OBVIOUS
      <3>1. q \in Procs \ {Processor, g}
        BY Actors
      <3> QED
        BY <1>6, <3>1 DEF SoloInv, WhoRuns
    <2>2. ProcShape(pc'[Processor], loc'[Processor])
      BY <1>6, <1>7 DEF ProcShape
    <2>3. loc'[Processor].tx = NoTx
      BY <1>6, <1>7
    <2>4. InUnbilled' => InUnbilled
      BY <1>6, <1>7 DEF InUnbilled
    <2>5. ASSUME NEW h \in Live
          PROVE  /\ loc'[h].op = "pay" /\ h \in ticked' /\ loc'[h].tx \in Tx
                 /\ loc'[h].tx # t /\ loc'[h].tx \notin todo'
                 /\ InUnbilled' => retries'[loc'[h].tx] = NoRetry
      <3>1. /\ loc[h].op = "pay" /\ h \in ticked /\ loc[h].tx \in Tx
            /\ loc[h].tx # t /\ loc[h].tx \notin todo
        BY LiveFacts
      <3>2. InUnbilled => retries[loc[h].tx] = NoRetry
        BY DEF SoloInv, WhoRuns
      <3> QED
        BY <1>4, <1>6, <1>8, <2>4, <3>1, <3>2
    <2>6. /\ loc'[g].op = "pay" /\ g \in ticked' /\ loc'[g].tx = t /\ t \notin todo'
          /\ InUnbilled' => retries'[t] = NoRetry
      BY <1>2, <1>4, <1>5, <1>6, <2>4 DEF SoloInv, WhoRuns
    <2>7. \A h, i \in Live : loc'[h].tx = loc'[i].tx => h = i
      BY <1>8 DEF SoloInv, WhoRuns
    <2>8. \A h, i \in Live' : loc'[h].tx = loc'[i].tx => h = i
      BY <1>8, <2>5, <2>6, <2>7
    <2>9. NoTx \notin Tx /\ todo' \subseteq Tx
      BY <1>4, Actors
    <2> QED
      BY <1>5, <1>8, <2>1, <2>2, <2>3, <2>5, <2>6, <2>8, <2>9 DEF WhoRuns
  <1>13. SoloPayer(pc'[Processor], loc'[Processor], orders', txs')
    BY <1>6, SoloEasy DEF PayStates
  <1>14. \A h \in Live' : SoloJob(pc'[h], loc'[h], orders', txs')
    <2>1. ASSUME NEW h \in Live
          PROVE  SoloJob(pc'[h], loc'[h], orders', txs')
      <3>1. /\ SoloJob(pc[h], loc[h], orders, txs)
            /\ loc[h].num \in OrderNums /\ orders[loc[h].num].opened > 0
        BY LiveFacts
      <3>2. orders'[loc[h].num] = orders[loc[h].num]
        BY <1>9, <1>10, <3>1
      <3> QED
        BY <1>4, <1>8, <3>1, <3>2 DEF SoloJob
    <2>2. SoloJob("send", r, orders', txs)
      <3>1. orders'[n] = new
        BY <1>5, <1>10
      <3>2. txs[t].billed \in Nat /\ Amount \in Nat
        BY <1>5, Actors DEF TxDoc
      <3>3. new.amount + txs[t].billed >= Amount
        BY <1>3, <1>5, <3>2
      <3> QED
        BY <1>2, <1>3, <3>1, <3>3 DEF SoloJob, Got, OkStates, FailStates
    <2> QED
      BY <1>4, <1>6, <1>8, <2>1, <2>2
  <1>15. Captures'
    <2> SUFFICES ASSUME NEW u \in Tx \ lost
                 PROVE  /\ captured[u] \in {0, Amount}
                        /\ \A h \in Live' : loc'[h].tx = u => (captured[u] = Amount <=> pc'[h] \in OkStates)
                        /\ captured[u] = Amount =>
                             /\ loc'[Processor].tx # u /\ u \notin todo
                             /\ (\A h \in Live' : loc'[h].tx # u) =>
                                  txs[u].billed >= Amount /\ retries[u] = NoRetry
      BY <1>4 DEF Captures
    <2>1. /\ captured[u] \in {0, Amount}
          /\ \A h \in Live : loc[h].tx = u => (captured[u] = Amount <=> pc[h] \in OkStates)
          /\ captured[u] = Amount =>
               /\ t # u /\ u \notin todo
               /\ (\A h \in Live : loc[h].tx # u) => txs[u].billed >= Amount /\ retries[u] = NoRetry
      BY DEF SoloInv, Captures
    <2>2. \A h \in Live : loc'[h].tx = u => (captured[u] = Amount <=> pc'[h] \in OkStates)
      BY <1>8, <2>1
    <2>3. loc'[g].tx = u => (captured[u] = Amount <=> pc'[g] \in OkStates)
      BY <1>2, <1>6, <2>1 DEF OkStates
    <2>4. loc'[Processor].tx # u
      BY <1>6, <1>7, Actors
    <2>5. (\A h \in Live' : loc'[h].tx # u) => \A h \in Live : loc[h].tx # u
      BY <1>8
    <2> QED
      BY <1>8, <2>1, <2>2, <2>3, <2>4, <2>5
  <1>16. ASSUME NEW u \in Tx, ShownPaid(txs'[u]), Charged(u)
         PROVE  Traced(u, orders', txs'[u])
    <2>1. Traced(u, orders, txs[u]) /\ txs[u].order \in OrderNums
      BY <1>4, <1>16, TracedNumber DEF SoloInv
    <2>2. orders'[txs[u].order] = orders[txs[u].order]
      BY <1>9, <1>10, <2>1 DEF Traced
    <2> QED
      BY <1>4, <2>1, <2>2 DEF Traced
  <1>17. SoloInv'
    BY <1>11, <1>12, <1>13, <1>14, <1>15, <1>16 DEF SoloInv, Charged
  <1>18. ASSUME NEW u \in Tx, u \in todo \/ u = loc'[Processor].tx \/ retries[u] # NoRetry
                                \/ (\E h \in Live' : loc'[h].tx = u)
         PROVE  txs[u].finished /\ u \notin exhausted
    <2>1. u # loc'[Processor].tx
      BY <1>6, <1>7, Actors
    <2>2. (\E h \in Live' : loc'[h].tx = u) => u = t \/ (\E h \in Live : loc[h].tx = u)
      BY <1>2, <1>6, <1>8
    <2> QED
      BY <1>18, <2>1, <2>2 DEF DebtInv
  <1>19. \A h \in Live' : pc'[h] = "failRetryWrite" => loc'[h].attempt = retries[loc'[h].tx].attempt
    BY <1>6, <1>8 DEF DebtInv
  <1>20. DebtInv'
    BY <1>4, <1>18, <1>19 DEF DebtInv
  <1> QED
    BY <1>17, <1>20

-----------------------------------------------------------------------------
(***************************************************************************)
(* A step of a goroutine, as the rest of the system sees it: it writes its *)
(* own order, while that is open, and the documents of its transaction.    *)
(***************************************************************************)
JobFrame(g) ==
  /\ \A q \in Callers : SameProc(q)
  /\ \A h \in Goroutines \ {g} : SameProc(h)
  /\ UNCHANGED <<todo, clock, clash>>
  /\ ticked \ {g} \subseteq ticked'
  /\ lost \subseteq lost'
  /\ \A u \in Tx :
       /\ txs'[u].finished = txs[u].finished
       /\ u # loc[g].tx =>
            /\ txs'[u] = txs[u] /\ retries'[u] = retries[u] /\ captured'[u] = captured[u]
            /\ u \in exhausted' => u \in exhausted
  /\ \A n \in OrderNums :
       /\ orders'[n].opened = orders[n].opened /\ orders'[n].tx = orders[n].tx
       /\ orders'[n] = orders[n] \/ (n = loc[g].num /\ ~orders[n].completed)

\* What it has to show of its own transaction.
JobKeeps(g) ==
  /\ JobFrame(g)
  /\ pc'[g] # "idle" =>
       /\ loc'[g].op = "pay" /\ loc'[g].tx = loc[g].tx /\ loc'[g].num = loc[g].num
       /\ g \in ticked'
       /\ retries'[loc[g].tx] = retries[loc[g].tx] /\ loc[g].tx \notin exhausted'
       /\ SoloJob(pc'[g], loc'[g], orders', txs')
       /\ pc'[g] = "failRetryWrite" => loc'[g].attempt = retries'[loc[g].tx].attempt
  /\ loc[g].tx \notin lost' =>
       /\ captured'[loc[g].tx] \in {0, Amount}
       /\ pc'[g] # "idle" => (captured'[loc[g].tx] = Amount <=> pc'[g] \in OkStates)
       /\ pc'[g] = "idle" /\ captured'[loc[g].tx] = Amount =>
            txs'[loc[g].tx].billed >= Amount /\ retries'[loc[g].tx] = NoRetry
  /\ ShownPaid(txs'[loc[g].tx]) /\ Charged(loc[g].tx) =>
       Traced(loc[g].tx, orders', txs'[loc[g].tx])
  /\ retries'[loc[g].tx] # NoRetry => loc[g].tx \notin exhausted'
  /\ loc[g].tx \in exhausted' => txs'[loc[g].tx].billed >= Amount
  /\ retries'[loc[g].tx].attempt = 0 => retries'[loc[g].tx] = NoRetry

(* What a step of a goroutine keeps. *)
LEMMA JobInv ==
  ASSUME BillingInv, BillingInv', PaidInv, SoloInv, DebtInv, NEW g \in Live, JobKeeps(g)
  PROVE  SoloInv' /\ DebtInv'
  <1> DEFINE t == loc[g].tx
  <1>0. JobFrame(g) /\ UNCHANGED <<todo, clock, clash>>
    BY DEF JobKeeps, JobFrame
  <1>1. /\ g \in Goroutines /\ t \in Tx /\ loc[g].num \in OrderNums
        /\ orders[loc[g].num].opened > 0 /\ orders[loc[g].num].tx = t
        /\ g \in ticked /\ t # loc[Processor].tx /\ t \notin todo
    BY LiveFacts
  <1>2. /\ pc'[Processor] = pc[Processor] /\ loc'[Processor] = loc[Processor]
        /\ SameProc(Processor) /\ (InUnbilled' <=> InUnbilled)
    BY <1>0, Actors DEF JobFrame, SameProc, InUnbilled
  <1>3. ASSUME NEW h \in Live, h # g
        PROVE  /\ pc'[h] = pc[h] /\ loc'[h] = loc[h] /\ h \in Live' /\ h \in Goroutines
               /\ loc[h].tx # t /\ loc[h].tx \in Tx
               /\ txs'[loc[h].tx] = txs[loc[h].tx] /\ retries'[loc[h].tx] = retries[loc[h].tx]
               /\ captured'[loc[h].tx] = captured[loc[h].tx]
    <2>1. h \in Goroutines /\ loc[h].tx \in Tx
      BY LiveFacts
    <2>2. loc[h].tx # t
      BY <1>3 DEF SoloInv, WhoRuns
    <2>3. pc'[h] = pc[h] /\ loc'[h] = loc[h]
      BY <1>0, <1>3, <2>1 DEF JobFrame, SameProc
    <2> QED
      BY <1>0, <2>1, <2>2, <2>3 DEF JobFrame, Live
  <1>4. /\ \A h \in Live' : h = g \/ (h \in Live /\ h # g)
        /\ g \in Live' <=> pc'[g] # "idle"
    <2>1. \A h \in Goroutines \ {g} : pc'[h] = pc[h]
      BY <1>0 DEF JobFrame, SameProc
    <2> QED
      BY <1>1, <2>1 DEF Live
  <1>5. Numbers'
    BY <1>0, <1>2, NumbersSame DEF SoloInv, JobFrame
  <1>6. WhoRuns'
    <2>1. \A q \in Callers \ {Processor} : pc'[q] = "idle"
      BY <1>0 DEF JobFrame, SameProc, SoloInv, WhoRuns
    <2>2. ProcShape(pc'[Processor], loc'[Processor]) /\ loc'[Processor].tx \notin todo'
      BY <1>0, <1>2 DEF SoloInv, WhoRuns
    <2>3. InUnbilled' /\ loc'[Processor].tx \in Tx => retries'[loc'[Processor].tx] = NoRetry
      <3>1. InUnbilled /\ loc[Processor].tx \in Tx => retries[loc[Processor].tx] = NoRetry
        BY DEF SoloInv, WhoRuns
      <3>2. loc[Processor].tx \in Tx => retries'[loc[Processor].tx] = retries[loc[Processor].tx]
        BY <1>0, <1>1 DEF JobFrame
      <3> QED
        BY <1>2, <3>1, <3>2
    <2>4. ASSUME NEW h \in Live'
          PROVE  /\ loc'[h].op = "pay" /\ h \in ticked'
                 /\ loc'[h].tx # loc'[Processor].tx /\ loc'[h].tx \notin todo'
                 /\ InUnbilled' => retries'[loc'[h].tx] = NoRetry
      <3>1. CASE h = g
        <4>1. /\ loc'[g].op = "pay" /\ loc'[g].tx = t /\ g \in ticked' /\ retries'[t] = retries[t]
          BY <1>4, <2>4, <3>1 DEF JobKeeps
        <4>2. InUnbilled => retries[t] = NoRetry
          BY DEF SoloInv, WhoRuns
        <4> QED
          BY <1>0, <1>1, <1>2, <3>1, <4>1, <4>2
      <3>2. CASE h # g
        <4>1. h \in Live
          BY <1>4, <2>4, <3>2
        <4>2. /\ loc[h].op = "pay" /\ h \in ticked /\ loc[h].tx # loc[Processor].tx
              /\ loc[h].tx \notin todo
          BY <4>1, LiveFacts
        <4>3. InUnbilled => retries[loc[h].tx] = NoRetry
          BY <4>1 DEF SoloInv, WhoRuns
        <4>4. h \in ticked'
          BY <1>0, <3>2, <4>2 DEF JobFrame
        <4>5. loc'[h] = loc[h] /\ retries'[loc[h].tx] = retries[loc[h].tx]
          BY <1>3, <3>2, <4>1
        <4> QED
          BY <1>0, <1>2, <4>2, <4>3, <4>4, <4>5
      <3> QED
        BY <3>1, <3>2
    <2>5. ASSUME NEW h \in Live', NEW i \in Live', loc'[h].tx = loc'[i].tx
          PROVE  h = i
      <3>1. g \in Live' => loc'[g].tx = t
        BY <1>4 DEF JobKeeps
      <3>2. \A j \in Live' : j # g => j \in Live /\ loc'[j].tx = loc[j].tx /\ loc[j].tx # t
        BY <1>3, <1>4
      <3>3. \A j, k \in Live : loc[j].tx = loc[k].tx => j = k
        BY DEF SoloInv, WhoRuns
      <3> QED
        BY <2>5, <3>1, <3>2, <3>3
    <2> QED
      BY <2>1, <2>2, <2>3, <2>4, <2>5 DEF WhoRuns
  <1>7. SoloPayer(pc'[Processor], loc'[Processor], orders', txs')
    <2>1. SoloPayer(pc[Processor], loc[Processor], orders, txs)
      BY DEF SoloInv
    <2>2. pc[Processor] \in PayStates => loc[Processor].tx \in Tx
      BY Actors, PayFacts
    <2>3. pc[Processor] \in PayStates => txs'[loc[Processor].tx] = txs[loc[Processor].tx]
      BY <1>0, <1>1, <2>2 DEF JobFrame
    <2>4. pc[Processor] = "payClose" => orders'[loc[Processor].num] = orders[loc[Processor].num]
      <3> SUFFICES ASSUME pc[Processor] = "payClose"
                   PROVE  orders'[loc[Processor].num] = orders[loc[Processor].num]
        OBVIOUS
      <3>1. loc[Processor].num \in OrderNums
        BY Actors DEF PaidInv, PayerShape, CopyOf, SoloInv, Numbers
      <3>2. orders[loc[Processor].num].tx = loc[Processor].tx
        BY <2>1 DEF SoloPayer
      <3> QED
        BY <1>0, <1>1, <3>1, <3>2 DEF JobFrame
    <2> QED
      BY <1>2, <2>1, <2>3, <2>4 DEF SoloPayer
  <1>8. ASSUME NEW h \in Live'
        PROVE  SoloJob(pc'[h], loc'[h], orders', txs')
    <2>1. CASE h = g
      BY <1>4, <1>8, <2>1 DEF JobKeeps
    <2>2. CASE h # g
      <3>1. h \in Live
        BY <1>4, <1>8, <2>2
      <3>2. /\ SoloJob(pc[h], loc[h], orders, txs) /\ loc[h].num \in OrderNums
            /\ orders[loc[h].num].tx = loc[h].tx
        BY <3>1, LiveFacts
      <3>3. orders'[loc[h].num] = orders[loc[h].num] /\ txs'[loc[h].tx] = txs[loc[h].tx]
        BY <1>0, <1>1, <1>3, <2>2, <3>1, <3>2 DEF JobFrame
      <3> QED
        BY <1>3, <2>2, <3>1, <3>2, <3>3 DEF SoloJob
    <2> QED
      BY <2>1, <2>2
  <1>9. ASSUME NEW u \in Tx, u \notin lost'
        PROVE  /\ captured'[u] \in {0, Amount}
               /\ \A h \in Live' : loc'[h].tx = u => (captured'[u] = Amount <=> pc'[h] \in OkStates)
               /\ captured'[u] = Amount =>
                    /\ loc'[Processor].tx # u /\ u \notin todo'
                    /\ (\A h \in Live' : loc'[h].tx # u) => txs'[u].billed >= Amount /\ retries'[u] = NoRetry
    <2>1. CASE u = t
      <3>1. /\ captured'[t] \in {0, Amount}
            /\ pc'[g] # "idle" => loc'[g].tx = t /\ (captured'[t] = Amount <=> pc'[g] \in OkStates)
            /\ pc'[g] = "idle" /\ captured'[t] = Amount => txs'[t].billed >= Amount /\ retries'[t] = NoRetry
        BY <1>9, <2>1 DEF JobKeeps
      <3>2. \A h \in Live' : loc'[h].tx = t => h = g /\ pc'[g] # "idle"
        BY <1>3, <1>4
      <3> QED
        BY <1>0, <1>1, <1>2, <1>4, <2>1, <3>1, <3>2
    <2>2. CASE u # t
      <3>1. u \in Tx \ lost /\ captured'[u] = captured[u] /\ txs'[u] = txs[u] /\ retries'[u] = retries[u]
        BY <1>0, <1>9, <2>2 DEF JobFrame
      <3>2. /\ captured[u] \in {0, Amount}
            /\ \A h \in Live : loc[h].tx = u => (captured[u] = Amount <=> pc[h] \in OkStates)
            /\ captured[u] = Amount =>
                 /\ loc[Processor].tx # u /\ u \notin todo
                 /\ (\A h \in Live : loc[h].tx # u) => txs[u].billed >= Amount /\ retries[u] = NoRetry
        BY <3>1 DEF SoloInv, Captures
      <3>3. \A h \in Live' : loc'[h].tx = u => h \in Live /\ loc[h].tx = u /\ pc'[h] = pc[h]
        BY <1>3, <1>4, <2>2 DEF JobKeeps
      <3>4. (\A h \in Live' : loc'[h].tx # u) => (\A h \in Live : loc[h].tx # u)
        BY <1>3, <2>2
      <3> QED
        BY <1>0, <1>2, <3>1, <3>2, <3>3, <3>4
    <2> QED
      BY <2>1, <2>2
  <1>10. ASSUME NEW u \in Tx, ShownPaid(txs'[u]), Charged(u)
         PROVE  Traced(u, orders', txs'[u])
    <2>1. CASE u = t
      BY <1>10, <2>1 DEF JobKeeps
    <2>2. CASE u # t
      <3>1. txs'[u] = txs[u]
        BY <1>0, <2>2 DEF JobFrame
      <3>2. Traced(u, orders, txs[u])
        BY <1>10, <3>1 DEF SoloInv
      <3>3. \A n \in OrderNums : orders[n].completed => orders'[n] = orders[n]
        BY <1>0 DEF JobFrame
      <3> QED
        BY <3>1, <3>2, <3>3, TracedStays, TracedNumber
    <2> QED
      BY <2>1, <2>2
  <1>11. Captures'
    BY <1>9 DEF Captures
  <1>12. SoloInv'
    BY <1>5, <1>6, <1>7, <1>8, <1>10, <1>11 DEF SoloInv, Charged
  <1>13. ASSUME NEW u \in Tx, u \in todo' \/ u = loc'[Processor].tx \/ retries'[u] # NoRetry
                                \/ (\E h \in Live' : loc'[h].tx = u)
         PROVE  txs'[u].finished /\ u \notin exhausted'
    <2>1. CASE u = t
      <3>1. txs[t].finished
        BY <1>1 DEF DebtInv
      <3>2. \A h \in Live' : loc'[h].tx = t => pc'[g] # "idle"
        BY <1>3, <1>4
      <3>3. pc'[g] # "idle" \/ retries'[t] # NoRetry
        BY <1>0, <1>1, <1>2, <1>13, <2>1, <3>2
      <3>4. t \notin exhausted'
        BY <3>3 DEF JobKeeps
      <3> QED
        BY <1>0, <1>1, <2>1, <3>1, <3>4 DEF JobFrame
    <2>2. CASE u # t
      <3>1. retries'[u] = retries[u] /\ txs'[u] = txs[u] /\ (u \in exhausted' => u \in exhausted)
        BY <1>0, <2>2 DEF JobFrame
      <3>2. \A h \in Live' : loc'[h].tx = u => h \in Live /\ loc[h].tx = u
        BY <1>3, <1>4, <2>2 DEF JobKeeps
      <3>3. u \in todo \/ u = loc[Processor].tx \/ retries[u] # NoRetry \/ (\E h \in Live : loc[h].tx = u)
        BY <1>0, <1>2, <1>13, <3>1, <3>2
      <3>4. txs[u].finished /\ u \notin exhausted
        BY <3>3 DEF DebtInv
      <3> QED
        BY <3>1, <3>4
    <2> QED
      BY <2>1, <2>2
  <1>14. ASSUME NEW u \in exhausted'
         PROVE  txs'[u].billed >= Amount
    <2>1. u \in Tx
      BY DEF BillingInv, OtherTypes
    <2>2. CASE u = t
      BY <2>2 DEF JobKeeps
    <2>3. CASE u # t
      BY <1>0, <2>1, <2>3 DEF JobFrame, DebtInv
    <2> QED
      BY <2>2, <2>3
  <1>15. ASSUME NEW h \in Live', pc'[h] = "failRetryWrite"
         PROVE  loc'[h].attempt = retries'[loc'[h].tx].attempt
    <2>1. CASE h = g
      BY <1>15, <2>1 DEF JobKeeps
    <2>2. CASE h # g
      BY <1>3, <1>4, <1>15, <2>2 DEF DebtInv
    <2> QED
      BY <2>1, <2>2
  <1>16. \A u \in Tx : retries'[u].attempt = 0 => retries'[u] = NoRetry
    BY <1>0 DEF JobFrame, JobKeeps, DebtInv
  <1>17. DebtInv'
    BY <1>13, <1>14, <1>15, <1>16 DEF DebtInv
  <1> QED
    BY <1>12, <1>17

(* What is known of the transaction a goroutine works for. *)
LEMMA JobBefore ==
  ASSUME BillingInv, PaidInv, SoloInv, DebtInv, NEW g \in Live
  PROVE  /\ loc[g].tx \in Tx /\ loc[g].tx \notin exhausted
         /\ loc[g].tx \notin lost =>
              /\ captured[loc[g].tx] \in {0, Amount}
              /\ captured[loc[g].tx] = Amount <=> pc[g] \in OkStates
         /\ ShownPaid(txs[loc[g].tx]) /\ Charged(loc[g].tx) =>
              /\ Traced(loc[g].tx, orders, txs[loc[g].tx])
              /\ txs[loc[g].tx].order \in OrderNums
         /\ retries[loc[g].tx].attempt = 0 => retries[loc[g].tx] = NoRetry
         /\ pc[g] = "failRetryWrite" => loc[g].attempt = retries[loc[g].tx].attempt
  <1>1. loc[g].tx \in Tx
    BY LiveFacts
  <1>2. loc[g].tx \notin exhausted
    BY <1>1 DEF DebtInv
  <1>3. loc[g].tx \notin lost =>
          /\ captured[loc[g].tx] \in {0, Amount}
          /\ captured[loc[g].tx] = Amount <=> pc[g] \in OkStates
    BY <1>1 DEF SoloInv, Captures
  <1>4. ShownPaid(txs[loc[g].tx]) /\ Charged(loc[g].tx) =>
          /\ Traced(loc[g].tx, orders, txs[loc[g].tx])
          /\ txs[loc[g].tx].order \in OrderNums
    BY <1>1, TracedNumber DEF SoloInv
  <1> QED
    BY <1>1, <1>2, <1>3, <1>4 DEF DebtInv

\* Only g moves, and nothing but its program counter and local variables
\* is part of the invariant.
OnlyMoves(g) ==
  /\ \A q \in Callers : SameProc(q)
  /\ \A h \in Goroutines \ {g} : SameProc(h)

(* A step of a goroutine that reads, or writes a card. *)
LEMMA ReadKeeps ==
  ASSUME BillingInv, PaidInv, SoloInv, DebtInv, NEW g \in Live, OnlyMoves(g),
         UNCHANGED <<txs, orders, retries, clock, todo, ticked, captured, lost, exhausted, clash>>,
         pc'[g] # "idle", loc'[g].op = "pay", loc'[g].tx = loc[g].tx, loc'[g].num = loc[g].num,
         pc'[g] \in OkStates <=> pc[g] \in OkStates,
         SoloJob(pc'[g], loc'[g], orders, txs),
         pc'[g] = "failRetryWrite" => loc'[g].attempt = retries[loc[g].tx].attempt
  PROVE  JobKeeps(g)
  <1>1. JobFrame(g)
    BY DEF JobFrame, OnlyMoves
  <1>2. g \in ticked
    BY LiveFacts
  <1> QED
    BY <1>1, <1>2, JobBefore DEF JobKeeps

(* GetPaymentOrder finds the order the goroutine was started for. *)
LEMMA GetKeeps ==
  ASSUME BillingInv, PaidInv, SoloInv, DebtInv, NEW g \in Live, OnlyMoves(g), OkGet(g) \/ FailGet(g)
  PROVE  JobKeeps(g)
  <1>1. /\ g \in Procs /\ loc[g] \in Locals /\ loc[g].op = "pay" /\ loc[g].num \in OrderNums
        /\ orders[loc[g].num].opened > 0 /\ SoloJob(pc[g], loc[g], orders, txs)
    BY LiveFacts
  <1>2. Stored(loc[g].num) /\ pc[g] \in {"okGet", "failGet"}
    BY <1>1 DEF Stored, OkGet, FailGet, GetOrder
  <1>3. UNCHANGED <<txs, orders, retries, clock, todo, ticked, captured, lost, exhausted, clash>>
    BY <1>2 DEF OkGet, FailGet, GetOrder, dbVars, envVars, historyVars
  <1>4. loc' = [loc EXCEPT ![g].osnap = orders[loc[g].num]]
    BY <1>2 DEF OkGet, FailGet, GetOrder
  <1>5. PICK o : o = orders[loc[g].num]
    OBVIOUS
  <1>6. /\ loc'[g].osnap = orders[loc[g].num] /\ loc'[g].op = "pay" /\ loc'[g].tx = loc[g].tx
        /\ loc'[g].num = loc[g].num
    BY <1>1, <1>4, <1>5, Actors, OsnapSet
  <1>7. ~orders[loc[g].num].completed /\ orders[loc[g].num].amount + txs[loc[g].tx].billed >= Amount
    BY <1>1, <1>2 DEF SoloJob
  <1>8. \/ pc[g] = "okGet" /\ pc'[g] = "okClose"
        \/ pc[g] = "failGet" /\ pc'[g] = "failPenalty"
    BY <1>1, <1>2, <1>7, Actors DEF OkGet, FailGet, GetOrder, Goto
  <1>9. SoloJob(pc'[g], loc'[g], orders, txs)
    BY <1>6, <1>7, <1>8 DEF SoloJob
  <1> QED
    BY <1>3, <1>6, <1>8, <1>9, ReadKeeps DEF OkStates

(* The card's counter, and where processPaymentResponse goes on. *)
LEMMA CounterKeeps ==
  ASSUME BillingInv, PaidInv, SoloInv, DebtInv, NEW g \in Live, OnlyMoves(g),
         OkReset(g) \/ FailPenalty(g)
  PROVE  JobKeeps(g)
  <1>1. /\ g \in Procs /\ loc[g].op = "pay" /\ SoloJob(pc[g], loc[g], orders, txs)
    BY LiveFacts
  <1>2. /\ UNCHANGED <<txs, orders, retries, clock, todo, ticked, captured, lost, exhausted, clash>>
        /\ loc' = loc
    BY DEF OkReset, FailPenalty, envVars, historyVars
  <1>3. \/ pc[g] = "okReset" /\ pc'[g] = "okTxRead"
        \/ pc[g] = "failPenalty" /\ pc'[g] = "failClose"
    BY <1>1, Actors DEF OkReset, FailPenalty, Goto, SoloJob
  <1>4. SoloJob(pc'[g], loc'[g], orders, txs)
    BY <1>1, <1>2, <1>3 DEF SoloJob, Got, OkStates, FailStates
  <1> QED
    BY <1>1, <1>2, <1>3, <1>4, ReadKeeps DEF OkStates

(* GetTransaction, and the read of schedulePaymentRetry. *)
LEMMA TxReadKeeps ==
  ASSUME BillingInv, PaidInv, SoloInv, DebtInv, NEW g \in Live, OnlyMoves(g),
         OkTxRead(g) \/ FailTxRead(g) \/ FailRetryRead(g)
  PROVE  JobKeeps(g)
  <1>1. /\ g \in Procs /\ loc[g] \in Locals /\ loc[g].op = "pay"
        /\ SoloJob(pc[g], loc[g], orders, txs)
        /\ pc[g] \in Got => loc[g].osnap.tx = loc[g].tx
    BY LiveFacts
  <1>2. UNCHANGED <<txs, orders, retries, clock, todo, ticked, captured, lost, exhausted, clash>>
    BY DEF OkTxRead, FailTxRead, ReadTransaction, FailRetryRead, LocalStep, dbVars, envVars, historyVars
  <1>3. \/ pc[g] = "okTxRead" /\ pc'[g] = "okTxWrite"
        \/ pc[g] = "failTxRead" /\ pc'[g] = "failTxWrite"
        \/ pc[g] = "failRetryRead" /\ pc'[g] = "failRetryWrite"
    BY <1>1, Actors DEF OkTxRead, FailTxRead, ReadTransaction, FailRetryRead, Goto
  <1>4. loc[g].osnap.tx = loc[g].tx
    BY <1>1, <1>3 DEF Got, OkStates, FailStates
  <1>5. CASE OkTxRead(g) \/ FailTxRead(g)
    <2>1. PICK x : x = txs[loc[g].osnap.tx]
      OBVIOUS
    <2>2. loc' = [loc EXCEPT ![g].snap = x]
      BY <1>5, <2>1 DEF OkTxRead, FailTxRead, ReadTransaction
    <2>3. /\ loc'[g].snap = x /\ loc'[g].osnap = loc[g].osnap /\ loc'[g].op = "pay"
          /\ loc'[g].tx = loc[g].tx /\ loc'[g].num = loc[g].num
      BY <1>1, <2>2, Actors, SnapSet
    <2>4. pc'[g] \in {"okTxWrite", "failTxWrite"}
      BY <1>1, <1>5, Actors DEF OkTxRead, FailTxRead, ReadTransaction, Goto
    <2>5. SoloJob(pc'[g], loc'[g], orders, txs)
      BY <1>1, <1>3, <1>4, <2>1, <2>3, <2>4 DEF SoloJob, Got, OkStates, FailStates
    <2> QED
      BY <1>2, <1>3, <2>3, <2>4, <2>5, ReadKeeps DEF OkStates
  <1>6. CASE FailRetryRead(g)
    <2>1. PICK x : x = retries[loc[g].osnap.tx].attempt
      OBVIOUS
    <2>2. loc' = [loc EXCEPT ![g].attempt = x]
      BY <1>6, <2>1 DEF FailRetryRead
    <2>3. /\ loc'[g].attempt = x /\ loc'[g].osnap = loc[g].osnap /\ loc'[g].op = "pay"
          /\ loc'[g].tx = loc[g].tx /\ loc'[g].num = loc[g].num
      BY <1>1, <2>2, Actors, AttemptSet
    <2>4. pc[g] = "failRetryRead" /\ pc'[g] = "failRetryWrite"
      BY <1>1, <1>6, Actors DEF FailRetryRead, Goto
    <2>5. SoloJob(pc'[g], loc'[g], orders, txs)
      BY <1>1, <2>3, <2>4 DEF SoloJob, Got, OkStates, FailStates
    <2> QED
      BY <1>2, <1>4, <2>1, <2>3, <2>4, <2>5, ReadKeeps DEF OkStates
  <1> QED
    BY <1>5, <1>6

(* The gateway's answer: it is asked once for a debt it has not covered. *)
LEMMA SendKeeps ==
  ASSUME BillingInv, PaidInv, SoloInv, DebtInv, NEW g \in Live, OnlyMoves(g), SendPay(g)
  PROVE  JobKeeps(g)
  <1> DEFINE t == loc[g].tx
  <1>1. /\ g \in Procs /\ loc[g].op = "pay" /\ SoloJob(pc[g], loc[g], orders, txs) /\ g \in ticked
        /\ t \in Tx
    BY LiveFacts
  <1>2. /\ UNCHANGED <<txs, orders, retries, clock, todo, ticked, exhausted, clash>>
        /\ loc' = loc /\ pc[g] = "send"
    BY DEF SendPay, dbVars, envVars
  <1>3. /\ pc'[g] \in {"okGet", "failGet"} /\ lost \subseteq lost'
        /\ captured' = captured \/ captured' = [captured EXCEPT ![t] = @ + Amount]
        /\ pc'[g] = "okGet" => lost' = lost /\ captured' = [captured EXCEPT ![t] = @ + Amount]
        /\ pc'[g] = "failGet" => captured' = captured \/ t \in lost'
    BY <1>1, Actors DEF SendPay, Goto
  <1>4. SoloJob(pc'[g], loc[g], orders, txs)
    BY <1>1, <1>2, <1>3 DEF SoloJob, Got, OkStates, FailStates
  <1>5. \A u \in Tx : u # t => captured'[u] = captured[u]
    BY <1>3, Actors
  <1>6. JobFrame(g)
    BY <1>2, <1>3, <1>5 DEF JobFrame, OnlyMoves
  <1>7. pc[g] \notin OkStates
    BY <1>2 DEF OkStates
  <1>8. t \notin lost' =>
          captured'[t] \in {0, Amount} /\ (captured'[t] = Amount <=> pc'[g] \in OkStates)
    <2> SUFFICES ASSUME t \notin lost'
                 PROVE  captured'[t] \in {0, Amount} /\ (captured'[t] = Amount <=> pc'[g] \in OkStates)
      OBVIOUS
    <2>1. captured[t] = 0 /\ 0 # Amount /\ 0 + Amount = Amount
      BY <1>3, <1>7, JobBefore, Actors
    <2>2. CASE pc'[g] = "okGet"
      BY <1>1, <1>3, <2>1, <2>2, Actors DEF OkStates
    <2>3. CASE pc'[g] = "failGet"
      BY <1>3, <2>1, <2>3 DEF OkStates
    <2> QED
      BY <1>3, <2>2, <2>3
  <1>9. pc'[g] \notin {"idle", "failRetryWrite"}
    BY <1>3
  <1> QED
    BY <1>1, <1>2, <1>4, <1>6, <1>8, <1>9, JobBefore DEF JobKeeps

(* The order is completed, for the first time. *)
LEMMA CloseKeeps ==
  ASSUME BillingInv, PaidInv, SoloInv, DebtInv, NEW g \in Live, OnlyMoves(g),
         OkClose(g) \/ FailClose(g)
  PROVE  JobKeeps(g)
  <1> DEFINE k == loc[g].num
  <1>1. /\ g \in Procs /\ loc[g] \in Locals /\ loc[g].op = "pay" /\ k \in OrderNums
        /\ SoloJob(pc[g], loc[g], orders, txs) /\ g \in ticked /\ loc[g].tx \in Tx
        /\ pc[g] \in Got => loc[g].osnap = orders[k]
    BY LiveFacts
  <1>2. PICK x \in {"approved", "failed"} :
          /\ SavePaymentOrder(k, [loc[g].osnap EXCEPT !.completed = TRUE, !.result = x])
          /\ loc' = [loc EXCEPT ![g].osnap = [loc[g].osnap EXCEPT !.completed = TRUE, !.result = x]]
          /\ \/ pc[g] = "okClose" /\ pc' = [pc EXCEPT ![g] = "okReset"] /\ x = "approved"
             \/ pc[g] = "failClose" /\ pc' = [pc EXCEPT ![g] = "failTxRead"]
    BY DEF OkClose, FailClose, SaveClosed, Goto
  <1>3. UNCHANGED <<txs, retries, clock, todo, ticked, captured, lost, exhausted, clash>>
    BY DEF OkClose, FailClose, SaveClosed, envVars, historyVars
  <1>4. \/ pc[g] = "okClose" /\ pc'[g] = "okReset" /\ x = "approved"
        \/ pc[g] = "failClose" /\ pc'[g] = "failTxRead"
    BY <1>1, <1>2, Actors
  <1>5. /\ loc[g].osnap = orders[k] /\ ~orders[k].completed
        /\ pc[g] = "okClose" => orders[k].amount + txs[loc[g].tx].billed >= Amount
    BY <1>1, <1>4 DEF SoloJob, Got, OkStates, FailStates
  <1>6. PICK o : o = [orders[k] EXCEPT !.completed = TRUE, !.result = x]
    OBVIOUS
  <1>7. /\ o.opened = orders[k].opened /\ o.tx = orders[k].tx /\ o.amount = orders[k].amount
        /\ o.completed /\ o.result = x
    <2>1. orders[k] \in OrderDoc /\ o = Completed(orders[k], x)
      BY <1>1, <1>6, Actors DEF Completed
    <2> QED
      BY <2>1, CompletedOrder
  <1>8. \A n \in OrderNums : orders'[n] = IF n = k THEN o ELSE orders[n]
    BY <1>1, <1>2, <1>5, <1>6, Actors DEF SavePaymentOrder
  <1>9. /\ loc'[g].osnap = o /\ loc'[g].op = "pay" /\ loc'[g].tx = loc[g].tx /\ loc'[g].num = k
    <2>1. loc' = [loc EXCEPT ![g].osnap = o]
      BY <1>2, <1>5, <1>6
    <2> QED
      BY <1>1, <2>1, Actors, OsnapSet
  <1>10. JobFrame(g)
    BY <1>3, <1>5, <1>7, <1>8 DEF JobFrame, OnlyMoves
  <1>11. SoloJob(pc'[g], loc'[g], orders', txs')
    BY <1>1, <1>3, <1>4, <1>5, <1>7, <1>8, <1>9 DEF SoloJob, Got, OkStates, FailStates
  <1>12. ShownPaid(txs[loc[g].tx]) /\ Charged(loc[g].tx) => Traced(loc[g].tx, orders', txs[loc[g].tx])
    <2>1. \A n \in OrderNums : orders[n].completed => orders'[n] = orders[n]
      BY <1>5, <1>8
    <2> QED
      BY <1>1, <2>1, JobBefore, TracedStays
  <1>13. /\ pc'[g] \notin {"idle", "failRetryWrite"}
         /\ pc'[g] \in OkStates <=> pc[g] \in OkStates
    BY <1>4 DEF OkStates
  <1> QED
    BY <1>1, <1>3, <1>9, <1>10, <1>11, <1>12, <1>13, JobBefore DEF JobKeeps

(* The transaction is billed, by its approved order or as a failure. *)
LEMMA TxWriteKeeps ==
  ASSUME BillingInv, PaidInv, SoloInv, DebtInv, NEW g \in Live, OnlyMoves(g),
         OkTxWrite(g) \/ FailTxWrite(g)
  PROVE  JobKeeps(g)
  <1> DEFINE t == loc[g].tx
             k == loc[g].num
             good == [loc[g].snap EXCEPT !.order = k, !.billed = @ + loc[g].osnap.amount,
                                         !.error = "", !.orders = @ \cup {k}]
             bad == [loc[g].snap EXCEPT !.order = k, !.billed = Amount, !.error = "failed",
                                        !.orders = @ \cup {k}]
  <1>1. /\ g \in Goroutines /\ g \in Procs /\ loc[g] \in Locals /\ loc[g].op = "pay" /\ k \in OrderNums
        /\ SoloJob(pc[g], loc[g], orders, txs) /\ g \in ticked /\ t \in Tx
        /\ orders[k].opened > 0 /\ orders[k].tx = t
        /\ pc[g] \in Got => loc[g].osnap = orders[k] /\ loc[g].osnap.tx = t
    BY LiveFacts
  <1>2. UNCHANGED <<orders, retries, clock, todo, ticked, captured, lost, exhausted, clash>>
    BY DEF OkTxWrite, FailTxWrite, envVars, historyVars
  <1>3. \/ pc[g] = "okTxWrite" /\ pc'[g] = "okDrop" /\ UpdateTransactionPayment(loc[g].osnap.tx, good)
        \/ pc[g] = "failTxWrite" /\ pc'[g] = "failRetryRead" /\ UpdateTransactionPayment(loc[g].osnap.tx, bad)
    BY <1>1, Actors DEF OkTxWrite, FailTxWrite, Goto
  <1>4. loc[g].osnap = orders[k] /\ loc[g].osnap.tx = t
    BY <1>1, <1>3 DEF Got, OkStates, FailStates
  <1>5. /\ loc[g].snap \in TxDoc /\ loc[g].osnap.amount \in Nat /\ loc[g].snap.billed \in Nat
        /\ k \in 0..MaxOrders
    BY <1>1, JobFacts, NumType DEF TxDoc, OrderDoc
  <1>6. /\ good \in TxDoc /\ good.order = k /\ k \in good.orders /\ good.error = ""
        /\ good.billed = loc[g].snap.billed + loc[g].osnap.amount
    <2>1. loc[g].snap.billed + loc[g].osnap.amount \in Nat
      BY <1>5
    <2>2. loc[g].snap.orders \cup {k} \in SUBSET OrderNums
      BY <1>1, <1>5 DEF TxDoc
    <2> QED
      BY <1>5, <2>1, <2>2 DEF TxDoc
  <1>7. bad \in TxDoc /\ bad.billed = Amount /\ bad.error = "failed"
    BY <1>1, <1>5, Actors DEF TxDoc
  <1> HIDE DEF good, bad
  <1>8. PICK s \in TxDoc :
          /\ UpdateTransactionPayment(t, s)
          /\ \/ pc[g] = "okTxWrite" /\ pc'[g] = "okDrop" /\ s = good
             \/ pc[g] = "failTxWrite" /\ pc'[g] = "failRetryRead" /\ s = bad
    BY <1>3, <1>4, <1>6, <1>7
  <1>9. /\ \A u \in Tx : u # t => txs'[u] = txs[u]
        /\ txs'[t].finished = txs[t].finished
        /\ txs'[t].billed = s.billed /\ txs'[t].error = s.error /\ txs'[t].order = s.order
        /\ txs'[t].orders = s.orders
    BY <1>1, <1>8, TxUpdated
  <1>10. s.billed >= Amount
    <2>1. CASE s = good /\ pc[g] = "okTxWrite"
      <3>1. /\ loc[g].snap.billed = txs[t].billed
            /\ loc[g].osnap.amount + txs[t].billed >= Amount
        BY <1>1, <2>1 DEF SoloJob
      <3> QED
        <4>1. PICK a \in Nat, b \in Nat : a = loc[g].osnap.amount /\ b = loc[g].snap.billed
          BY <1>5
        <4>2. s.billed = b + a /\ a + b >= Amount
          BY <1>6, <2>1, <3>1, <4>1
        <4> QED
          BY <4>2, Actors
    <2>2. CASE s = bad
      BY <1>7, <2>2, Actors
    <2> QED
      BY <1>8, <2>1, <2>2
  <1>11. PICK x : x = NoLocals.snap
    OBVIOUS
  <1>12. loc' = [loc EXCEPT ![g].snap = x]
    BY <1>11 DEF OkTxWrite, FailTxWrite
  <1>13. /\ loc'[g].osnap = loc[g].osnap /\ loc'[g].op = "pay" /\ loc'[g].tx = t /\ loc'[g].num = k
    BY <1>1, <1>12, Actors, SnapSet
  <1>14. SoloJob(pc'[g], loc'[g], orders', txs')
    BY <1>1, <1>2, <1>4, <1>8, <1>9, <1>10, <1>13 DEF SoloJob
  <1>15. JobFrame(g)
    BY <1>2, <1>9 DEF JobFrame, OnlyMoves
  <1>16. ShownPaid(txs'[t]) => Traced(t, orders', txs'[t])
    <2>1. CASE s = good /\ pc[g] = "okTxWrite"
      <3>1. orders[k].completed /\ orders[k].result = "approved"
        BY <1>1, <1>4, <2>1 DEF SoloJob
      <3> QED
        BY <1>1, <1>2, <1>6, <1>9, <2>1, <3>1 DEF Traced
    <2>2. CASE s = bad
      BY <1>7, <1>9, <2>2 DEF ShownPaid
    <2> QED
      BY <1>8, <2>1, <2>2
  <1>17. /\ pc'[g] \notin {"idle", "failRetryWrite"}
         /\ pc'[g] \in OkStates <=> pc[g] \in OkStates
    BY <1>8 DEF OkStates
  <1> QED
    BY <1>1, <1>2, <1>13, <1>14, <1>15, <1>16, <1>17, JobBefore DEF JobKeeps

(* The goroutine ends: its retry record is deleted, advanced or used up,   *)
(* or its context is over.                                                 *)
LEMMA EndKeeps ==
  ASSUME BillingInv, PaidInv, SoloInv, DebtInv, NEW g \in Live, OnlyMoves(g),
         OkDrop(g) \/ FailRetryWrite(g) \/ JobDeadline(g)
  PROVE  JobKeeps(g)
  <1> DEFINE t == loc[g].tx
  <1>1. /\ g \in Goroutines /\ g \in Procs /\ loc[g].op = "pay" /\ t \in Tx
        /\ SoloJob(pc[g], loc[g], orders, txs)
        /\ pc[g] \in Got => loc[g].osnap.tx = t
        /\ loc[g].attempt \in 0..MaxRetryAttempts
    BY LiveFacts, JobFacts
  <1>2. UNCHANGED <<txs, orders, clock, todo, captured, clash>>
    BY DEF OkDrop, FailRetryWrite, JobDeadline, dbVars, envVars, historyVars
  <1>3. pc'[g] = "idle" /\ ticked' = ticked \ {g}
    BY <1>1, Actors DEF OkDrop, FailRetryWrite, JobDeadline, Finish
  <1>4. CASE OkDrop(g)
    <2>1. pc[g] = "okDrop" /\ UNCHANGED <<lost, exhausted>> /\ loc[g].osnap.tx = t
      BY <1>1, <1>4 DEF OkDrop, historyVars, Got, OkStates, FailStates
    <2>2. retries' = [retries EXCEPT ![t] = NoRetry]
      BY <1>4, <2>1 DEF OkDrop
    <2>3. retries'[t] = NoRetry /\ \A u \in Tx : u # t => retries'[u] = retries[u]
      BY <1>1, <2>2, Actors
    <2>4. txs[t].billed >= Amount
      BY <1>1, <2>1 DEF SoloJob
    <2>5. JobFrame(g)
      BY <1>2, <1>3, <2>1, <2>3 DEF JobFrame, OnlyMoves
    <2> QED
      BY <1>2, <1>3, <2>1, <2>3, <2>4, <2>5, JobBefore DEF JobKeeps
  <1>5. CASE FailRetryWrite(g)
    <2>1. pc[g] = "failRetryWrite" /\ lost' = lost /\ loc[g].osnap.tx = t
      BY <1>1, <1>5 DEF FailRetryWrite, Got, OkStates, FailStates
    <2>2. \/ GiveUp(t)
          \/ SaveRetry(t, loc[g].attempt + 1)
      BY <1>5, <2>1 DEF FailRetryWrite
    <2>3. txs[t].billed >= Amount /\ pc[g] \notin OkStates
      BY <1>1, <2>1 DEF SoloJob, OkStates
    <2>4. t \notin lost => captured[t] \in {0, Amount} /\ captured[t] # Amount
      BY <2>3, JobBefore
    <2>5. CASE GiveUp(t)
      <3>1. /\ retries'[t] = NoRetry /\ \A u \in Tx : u # t => retries'[u] = retries[u]
            /\ exhausted' = exhausted \cup {t}
        BY <1>1, <2>5, Actors DEF GiveUp
      <3>2. JobFrame(g)
        BY <1>2, <1>3, <2>1, <3>1 DEF JobFrame, OnlyMoves
      <3> QED
        BY <1>2, <1>3, <2>1, <2>3, <2>4, <3>1, <3>2, JobBefore DEF JobKeeps
    <2>6. CASE SaveRetry(t, loc[g].attempt + 1)
      <3>1. /\ retries'[t] = [attempt |-> loc[g].attempt + 1, due |-> FALSE]
            /\ \A u \in Tx : u # t => retries'[u] = retries[u]
            /\ exhausted' = exhausted
        BY <1>1, <2>6, Actors DEF SaveRetry
      <3>2. JobFrame(g)
        BY <1>2, <1>3, <2>1, <3>1 DEF JobFrame, OnlyMoves
      <3>3. loc[g].attempt + 1 # 0
        BY <1>1, BillingAssumption
      <3>4. retries'[t].attempt # 0
        BY <3>1, <3>3
      <3> QED
        BY <1>2, <1>3, <2>1, <2>3, <2>4, <3>1, <3>2, <3>4, JobBefore DEF JobKeeps
    <2> QED
      BY <2>2, <2>5, <2>6
  <1>6. CASE JobDeadline(g)
    <2>1. UNCHANGED <<retries, exhausted>> /\ lost' = IF Unrecorded(g) THEN lost \cup {t} ELSE lost
      BY <1>6 DEF JobDeadline, dbVars
    <2>2. JobFrame(g)
      BY <1>2, <1>3, <2>1 DEF JobFrame, OnlyMoves
    <2>3. t \notin lost' => captured[t] \in {0, Amount} /\ captured[t] # Amount
      BY <1>1, <2>1, JobBefore DEF Unrecorded
    <2>4. t \in exhausted => txs[t].billed >= Amount
      BY DEF DebtInv
    <2> QED
      BY <1>2, <1>3, <2>1, <2>2, <2>3, <2>4, JobBefore DEF JobKeeps
  <1> QED
    BY <1>4, <1>5, <1>6

(* A step of a goroutine keeps the invariant. *)
LEMMA GoroutineKeeps ==
  ASSUME BillingInv, BillingInv', PaidInv, SoloInv, DebtInv, NEW g \in Goroutines, GoroutineStep(g)
  PROVE  g \in Live /\ JobKeeps(g) /\ SoloInv' /\ DebtInv'
  <1>1. pc[g] # "idle"
    BY DEF GoroutineStep, SendPay, SendRefund, OkGet, FailGet, GetOrder, OkReset, OkTxRead,
       OkClose, FailClose, SaveClosed, OkRefund, FailTxRead, ReadTransaction, OkDrop, FailPenalty,
       OkTxWrite, FailTxWrite, FailRetryRead, FailRetryWrite, JobDeadline, Goto
  <1>2. g \in Live
    BY <1>1 DEF Live
  <1>3. loc[g].op = "pay" /\ pc[g] # "okRefund"
    BY <1>2, LiveFacts DEF SoloJob
  <1>4. ~SendRefund(g) /\ ~OkRefund(g)
    BY <1>3 DEF SendRefund, OkRefund
  <1>5. OnlyMoves(g)
    BY GoroutineMoves DEF OnlyMoves
  <1>6. JobKeeps(g)
    BY <1>2, <1>4, <1>5, SendKeeps, GetKeeps, CloseKeeps, CounterKeeps, TxReadKeeps, TxWriteKeeps,
       EndKeeps DEF GoroutineStep
  <1> QED
    BY <1>2, <1>6, JobInv

-----------------------------------------------------------------------------
(***************************************************************************)
(* The rest of the world, a crash, and the first state.                    *)
(***************************************************************************)
(* The payment fields and the attempt numbers stay. *)
LEMMA WorldKeeps ==
  ASSUME BillingInv, PaidInv, SoloInv, DebtInv,
         UNCHANGED <<pc, loc, orders, clock, todo, ticked, captured, lost, exhausted, clash>>,
         \A u \in Tx :
           /\ txs'[u].billed = txs[u].billed /\ txs'[u].error = txs[u].error
           /\ txs'[u].order = txs[u].order /\ txs'[u].orders = txs[u].orders
           /\ txs[u].finished => txs'[u].finished
           /\ retries'[u].attempt = retries[u].attempt
           /\ retries'[u] = NoRetry <=> retries[u] = NoRetry
  PROVE  SoloInv' /\ DebtInv'
  <1>1. Live' = Live /\ (InUnbilled' <=> InUnbilled)
    BY DEF Live, InUnbilled
  <1>2. \A g \in Live : loc[g].tx \in Tx
    BY LiveFacts
  <1>3. WhoRuns'
    BY <1>1, <1>2 DEF SoloInv, WhoRuns
  <1>4. Numbers'
    BY NumbersSame DEF SoloInv, SameProc
  <1>5. SoloPayer(pc'[Processor], loc'[Processor], orders', txs')
    <2>1. pc[Processor] \in PayStates => loc[Processor].tx \in Tx
      BY Actors, PayFacts
    <2> QED
      BY <2>1 DEF SoloInv, SoloPayer
  <1>6. \A g \in Live' : SoloJob(pc'[g], loc'[g], orders', txs')
    BY <1>1, <1>2 DEF SoloInv, SoloJob
  <1>7. Captures'
    BY <1>1 DEF SoloInv, Captures
  <1>8. ASSUME NEW t \in Tx, ShownPaid(txs'[t]), Charged(t)
        PROVE  Traced(t, orders', txs'[t])
    <2>1. ShownPaid(txs[t])
      BY <1>8 DEF ShownPaid
    <2> QED
      BY <1>8, <2>1 DEF SoloInv, Traced
  <1>9. SoloInv'
    BY <1>3, <1>4, <1>5, <1>6, <1>7, <1>8 DEF SoloInv, Charged
  <1>10. exhausted \subseteq Tx
    BY DEF BillingInv, OtherTypes
  <1>11. DebtInv'
    BY <1>1, <1>2, <1>10 DEF DebtInv
  <1> QED
    BY <1>9, <1>11

(* Cards, finished transactions and retries that fall due. *)
LEMMA EnvironmentKeeps ==
  ASSUME BillingInv, PaidInv, SoloInv, DebtInv, Environment \/ UNCHANGED vars
  PROVE  SoloInv' /\ DebtInv'
  <1>1. UNCHANGED <<pc, loc, orders, clock, todo, ticked, captured, lost, exhausted, clash>>
    BY DEF Environment, FinishTransaction, RetryDue, SaveMethod, DeleteMethod, CardExpires, vars,
       dbVars, envVars, historyVars
  <1>2. \A u \in Tx :
          /\ txs'[u].billed = txs[u].billed /\ txs'[u].error = txs[u].error
          /\ txs'[u].order = txs[u].order /\ txs'[u].orders = txs[u].orders
          /\ txs[u].finished => txs'[u].finished
    <2>1. txs' = txs \/ \E t \in Tx : txs' = [txs EXCEPT ![t].finished = TRUE]
      BY DEF Environment, FinishTransaction, RetryDue, SaveMethod, DeleteMethod, CardExpires, vars,
         dbVars
    <2>2. CASE txs' = txs
      BY <2>2
    <2>3. ASSUME NEW t \in Tx, txs' = [txs EXCEPT ![t].finished = TRUE], NEW u \in Tx
          PROVE  /\ txs'[u].billed = txs[u].billed /\ txs'[u].error = txs[u].error
                 /\ txs'[u].order = txs[u].order /\ txs'[u].orders = txs[u].orders
                 /\ txs[u].finished => txs'[u].finished
      <3>1. txs'[u] = IF u = t THEN [txs[t] EXCEPT !.finished = TRUE] ELSE txs[u]
        BY <2>3, Actors
      <3>2. CASE u = t
        <4>1. txs'[t] = [txs[t] EXCEPT !.finished = TRUE] /\ txs[t] \in TxDoc
          BY <3>1, <3>2, Actors
        <4>2. txs'[t].finished = TRUE
          BY <4>1 DEF TxDoc
        <4>3. /\ txs'[t].billed = txs[t].billed /\ txs'[t].error = txs[t].error
              /\ txs'[t].order = txs[t].order /\ txs'[t].orders = txs[t].orders
          BY <4>1 DEF TxDoc
        <4> QED
          BY <3>2, <4>2, <4>3
      <3>3. CASE u # t
        BY <3>1, <3>3
      <3> QED
        BY <3>2, <3>3
    <2> QED
      BY <2>1, <2>2, <2>3
  <1>3. \A u \in Tx :
          /\ retries'[u].attempt = retries[u].attempt
          /\ retries'[u] = NoRetry <=> retries[u] = NoRetry
    <2>1. \/ retries' = retries
          \/ \E t \in Tx : retries[t] # NoRetry /\ retries' = [retries EXCEPT ![t].due = TRUE]
      BY DEF Environment, FinishTransaction, RetryDue, SaveMethod, DeleteMethod, CardExpires, vars,
         dbVars
    <2>2. CASE retries' = retries
      BY <2>2
    <2>3. ASSUME NEW t \in Tx, retries[t] # NoRetry, retries' = [retries EXCEPT ![t].due = TRUE]
          PROVE  \A u \in Tx :
                   /\ retries'[u].attempt = retries[u].attempt
                   /\ retries'[u] = NoRetry <=> retries[u] = NoRetry
      <3>1. retries'[t].due = TRUE /\ retries'[t].attempt = retries[t].attempt
        BY <2>3, Actors DEF RetryDoc
      <3>2. \A u \in Tx : u # t => retries'[u] = retries[u]
        BY <2>3, Actors
      <3>3. NoRetry.due = FALSE
        BY DEF NoRetry
      <3>4. retries'[t] # NoRetry
        BY <3>1, <3>3
      <3> QED
        BY <2>3, <3>1, <3>2, <3>4
    <2> QED
      BY <2>1, <2>2, <2>3
  <1> QED
    BY <1>1, <1>2, <1>3, WorldKeeps

(* After a crash nobody runs, and what was not recorded counts as lost. *)
LEMMA CrashKeeps ==
  ASSUME BillingInv, PaidInv, SoloInv, DebtInv, CrashRestart
  PROVE  SoloInv' /\ DebtInv'
  <1>1. /\ UNCHANGED <<txs, orders, retries, clock, captured, exhausted, clash>>
        /\ todo' = {} /\ ticked' = {}
        /\ \A p \in Procs : pc'[p] = "idle" /\ loc'[p] = NoLocals
        /\ lost' = lost \cup {loc[g].tx : g \in {h \in Goroutines : Unrecorded(h)}}
    BY DEF CrashRestart, dbVars, envVars
  <1>2. Live' = {} /\ pc'[Processor] = "idle" /\ loc'[Processor] = NoLocals /\ loc'[Processor].tx = NoTx
    <2>1. NoLocals.tx = NoTx
      BY DEF NoLocals
    <2>2. pc'[Processor] = "idle" /\ loc'[Processor] = NoLocals
      BY <1>1, Actors
    <2>3. Live' = {}
      BY <1>1, Actors DEF Live
    <2> QED
      BY <2>1, <2>2, <2>3
  <1>3. WhoRuns'
    BY <1>1, <1>2, Actors DEF WhoRuns, ProcShape
  <1>4. Numbers'
    BY <1>1, <1>2, NumbersSame DEF SoloInv
  <1>5. SoloPayer(pc'[Processor], loc'[Processor], orders', txs')
    BY <1>2, SoloEasy DEF PayStates
  <1>6. ASSUME NEW t \in Tx, t \notin lost'
        PROVE  /\ captured[t] \in {0, Amount}
               /\ captured[t] = Amount => txs[t].billed >= Amount /\ retries[t] = NoRetry
    <2>1. t \notin lost /\ \A g \in Goroutines : Unrecorded(g) => loc[g].tx # t
      BY <1>1, <1>6
    <2>2. ASSUME captured[t] = Amount, NEW g \in Live
          PROVE  loc[g].tx # t
      <3>1. loc[g].tx = t => pc[g] \in OkStates
        BY <2>1, <2>2 DEF SoloInv, Captures
      <3>2. loc[g].op = "pay" /\ g \in Goroutines
        BY LiveFacts
      <3> QED
        BY <2>1, <3>1, <3>2 DEF Unrecorded
    <2> QED
      BY <2>1, <2>2 DEF SoloInv, Captures
  <1>7. Captures'
    BY <1>1, <1>2, <1>6, Actors DEF Captures
  <1>8. \A t \in Tx : ShownPaid(txs'[t]) /\ Charged(t) => Traced(t, orders', txs'[t])
    BY <1>1 DEF SoloInv
  <1>9. SoloInv'
    BY <1>2, <1>3, <1>4, <1>5, <1>7, <1>8 DEF SoloInv, Charged
  <1>10. DebtInv'
    BY <1>1, <1>2, Actors DEF DebtInv
  <1> QED
    BY <1>9, <1>10

(* Nothing is stored, captured or running at first. *)
LEMMA SoloInit == Init => SoloInv /\ DebtInv
  <1> SUFFICES ASSUME Init
               PROVE  SoloInv /\ DebtInv
    OBVIOUS
  <1>1. BillingInv
    BY InitBillingInv
  <1>2. /\ \A p \in Procs : pc[p] = "idle" /\ loc[p] = NoLocals
        /\ todo = {} /\ exhausted = {} /\ clash = FALSE /\ clock = 0
        /\ \A t \in Tx : captured[t] = 0 /\ retries[t] = NoRetry
        /\ \A n \in OrderNums : orders[n] = NoOrder
    BY DEF Init
  <1>3. Live = {} /\ pc[Processor] = "idle" /\ loc[Processor] = NoLocals /\ loc[Processor].tx = NoTx
    <2>1. NoLocals.tx = NoTx
      BY DEF NoLocals
    <2>2. pc[Processor] = "idle" /\ loc[Processor] = NoLocals
      BY <1>1, <1>2, Actors
    <2>3. Live = {}
      BY <1>1, <1>2, Actors DEF Live
    <2> QED
      BY <2>1, <2>2, <2>3
  <1>4. WhoRuns
    BY <1>1, <1>2, <1>3, Actors DEF WhoRuns, ProcShape
  <1>5. NoOrder.opened = 0
    BY DEF NoOrder
  <1>6. Numbers
    BY <1>2, <1>3, <1>5 DEF Numbers
  <1>7. SoloPayer(pc[Processor], loc[Processor], orders, txs)
    BY <1>3, SoloEasy DEF PayStates
  <1>8. Captures
    BY <1>1, <1>2, <1>3, Actors DEF Captures
  <1>9. ASSUME NEW t \in Tx
        PROVE  ~ShownPaid(txs[t])
    <2>1. PICK m : txs[t] = NewTx(m)
      BY DEF Init
    <2>2. txs[t].billed = 0
      <3>1. NewTx(m).billed = 0
        BY DEF NewTx
      <3> QED
        BY <2>1, <3>1
    <2>3. 0 \in Nat /\ 0 < Amount
      BY <1>1, Actors
    <2> QED
      BY <2>2, <2>3, NotShown
  <1>10. SoloInv
    BY <1>3, <1>4, <1>6, <1>7, <1>8, <1>9 DEF SoloInv
  <1>11. DebtInv
    BY <1>1, <1>2, <1>3, Actors DEF DebtInv
  <1> QED
    BY <1>10, <1>11

(* Without requests, every step keeps the invariants. *)
LEMMA SoloNext ==
  ASSUME Api = {}, BillingInv, BillingInv', PaidInv, SoloInv, DebtInv, [Next]_vars
  PROVE  SoloInv' /\ DebtInv'
  <1>1. ASSUME NEW p \in Callers, CallerStep(p)
        PROVE  SoloInv' /\ DebtInv'
    <2>1. CASE PaySave(p)
      BY <1>1, <2>1, OnlyProcessor, SpawnInv
    <2>2. CASE ~PaySave(p)
      BY <1>1, <2>2, CallKeeps
    <2> QED
      BY <2>1, <2>2
  <1>2. CASE ProcessorStep
    <2>1. OthersRest
      BY <1>2, ProcessorMoves DEF OthersRest
    <2>2. CASE Tick \/ StartRetries
      BY <2>1, <2>2, LoadInv
    <2>3. CASE ProcessUnbilled \/ ProcessRetry \/ EndTick
      BY <2>1, <2>3, VisitKeeps, ProcessorInv
    <2> QED
      BY <1>2, <2>2, <2>3 DEF ProcessorStep
  <1>3. ASSUME NEW g \in Goroutines, GoroutineStep(g)
        PROVE  SoloInv' /\ DebtInv'
    BY <1>3, GoroutineKeeps
  <1> QED
    BY <1>1, <1>2, <1>3, CrashKeeps, EnvironmentKeeps DEF Next

(* The invariants of the processor alone hold in every reachable state. *)
THEOREM ProcessorAlone ==
  ASSUME Api = {}
  PROVE  Spec => [](BillingInv /\ PaidInv /\ SoloInv /\ DebtInv)
  <1>1. Init => BillingInv /\ PaidInv /\ SoloInv /\ DebtInv
    BY InitBillingInv, PaidInvInit, SoloInit
  <1>2. BillingInv /\ PaidInv /\ SoloInv /\ DebtInv /\ [Next]_vars
          => (BillingInv /\ PaidInv /\ SoloInv /\ DebtInv)'
    BY NextBillingInv, PaidInvNext, SoloNext
  <1> QED
    BY <1>1, <1>2, PTL DEF Spec

(***************************************************************************)
(* The processor never charges a transaction twice unless a capture was    *)
(* lost, for any number of transactions, cards, goroutines and retries: a  *)
(* pass starts only when all goroutines of the last one have ended,        *)
(* retryOne and PayTransaction pick transactions whose debt is open, and   *)
(* an approved order is billed and its retry record deleted before the     *)
(* goroutine ends.                                                         *)
(***************************************************************************)
THEOREM BillingNoDoubleCharge ==
  ASSUME Api = {}
  PROVE  Spec => []NoDoubleCharge
  <1>1. BillingInv /\ SoloInv => NoDoubleCharge
    <2> SUFFICES ASSUME BillingInv, SoloInv, NEW t \in Tx, captured[t] > Amount, t \notin lost
                 PROVE  FALSE
      BY DEF NoDoubleCharge
    <2>1. captured[t] \in {0, Amount}
      BY DEF SoloInv, Captures
    <2> QED
      BY <2>1, Actors
  <1> QED
    BY <1>1, ProcessorAlone, PTL

(***************************************************************************)
(* A transaction the processor shows as paid names an approved order of    *)
(* its own, and lists it, whatever fails: processPaymentResponse writes    *)
(* the order before the transaction, and nobody else completes that order  *)
(* in between.                                                             *)
(***************************************************************************)
THEOREM BillingPaidIsTraceable ==
  ASSUME Api = {}
  PROVE  Spec => []PaidIsTraceable
  <1>1. SoloInv => PaidIsTraceable
    BY DEF SoloInv, PaidIsTraceable, ShownPaid, Traced, Charged
  <1> QED
    BY <1>1, ProcessorAlone, PTL

-----------------------------------------------------------------------------
(***************************************************************************)
(* What a step may do, when nobody sends requests: the processor keeps its *)
(* frame, starts a goroutine, or a goroutine keeps its frame, or no        *)
(* document of a payment changes.                                          *)
(***************************************************************************)
\* The documents of a payment and the goroutines stay.
Idles ==
  /\ UNCHANGED <<orders, retries, captured, exhausted>>
  /\ \A g \in Goroutines : SameProc(g)

(* The kinds of steps. *)
LEMMA StepKinds ==
  ASSUME Api = {}, BillingInv, BillingInv', PaidInv, SoloInv, DebtInv, [Next]_vars
  PROVE  \/ ProcessorKeeps
         \/ PaySave(Processor)
         \/ \E g \in Live : GoroutineStep(g) /\ JobKeeps(g)
         \/ Environment
         \/ CrashRestart
         \/ Idles /\ UNCHANGED txs
  <1>1. ASSUME NEW p \in Callers, CallerStep(p)
        PROVE  ProcessorKeeps \/ PaySave(Processor)
    BY <1>1, OnlyProcessor, CallKeeps
  <1>2. CASE ProcessorStep
    <2>1. OthersRest
      BY <1>2, ProcessorMoves DEF OthersRest
    <2>2. CASE Tick \/ StartRetries
      BY <2>1, <2>2 DEF Idles, OthersRest, Tick, StartRetries, dbVars, historyVars
    <2>3. CASE ProcessUnbilled \/ ProcessRetry \/ EndTick
      BY <2>1, <2>3, VisitKeeps
    <2> QED
      BY <1>2, <2>2, <2>3 DEF ProcessorStep
  <1>3. ASSUME NEW g \in Goroutines, GoroutineStep(g)
        PROVE  g \in Live /\ JobKeeps(g)
    BY <1>3, GoroutineKeeps
  <1>4. UNCHANGED vars => Idles /\ UNCHANGED txs
    BY DEF Idles, SameProc, vars, dbVars, historyVars
  <1> QED
    BY <1>1, <1>2, <1>3, <1>4 DEF Next

\* An order is completed after it was opened.
CompletedIsStored == \A n \in OrderNums : orders[n].completed => orders[n].opened > 0

(* What a step does to an order. *)
LEMMA OrderStep ==
  ASSUME Api = {}, BillingInv, BillingInv', PaidInv, SoloInv, DebtInv, [Next]_vars,
         NEW n \in OrderNums
  PROVE  \/ orders'[n] = orders[n]
         \/ orders[n].opened > 0 /\ ~orders[n].completed
         \/ ~(orders[n].opened > 0) /\ orders'[n].opened > 0
  <1>1. CASE ProcessorKeeps
    BY <1>1 DEF ProcessorKeeps, ProcessorWrites
  <1>2. CASE PaySave(Processor)
    <2> DEFINE k == loc[Processor].num
               new == [NoOrder EXCEPT !.tx = loc[Processor].tx, !.card = loc[Processor].card.id,
                                      !.amount = Amount - loc[Processor].snap.billed,
                                      !.opened = loc[Processor].stamp]
    <2>1. pc[Processor] = "paySave" /\ orders' = [orders EXCEPT ![k] = new]
      BY <1>2 DEF PaySave, SavePaymentOrder
    <2>2. new.opened = loc[Processor].stamp
      BY DEF NoOrder
    <2> HIDE DEF new
    <2>3. loc[Processor].stamp > 0 /\ \A m \in OrderNums : orders[m].opened > 0 => m < k
      BY <2>1, Actors DEF PaidInv, PayerShape, SoloInv, Numbers
    <2>4. k \in Nat /\ n \in Nat
      BY <2>1, Actors DEF PaidInv, PayerShape, SoloInv, Numbers, OrderNums
    <2>5. CASE n = k
      BY <2>1, <2>2, <2>3, <2>4, <2>5, Actors
    <2>6. CASE n # k
      BY <2>1, <2>6, Actors
    <2> QED
      BY <2>5, <2>6
  <1>3. ASSUME NEW g \in Live, JobKeeps(g)
        PROVE  \/ orders'[n] = orders[n]
               \/ orders[n].opened > 0 /\ ~orders[n].completed
    BY <1>3, LiveFacts DEF JobKeeps, JobFrame
  <1>4. CASE Environment \/ CrashRestart \/ Idles
    BY <1>4 DEF Environment, FinishTransaction, RetryDue, SaveMethod, DeleteMethod, CardExpires,
       CrashRestart, Idles, dbVars
  <1> QED
    BY <1>1, <1>2, <1>3, <1>4, StepKinds

(***************************************************************************)
(* The result of a completed order is never overwritten by the processor:  *)
(* closing a stale order in PayTransaction, processPaymentResponse and     *)
(* closeOrderOnError work on different orders, or on an order that is      *)
(* still open.                                                             *)
(***************************************************************************)
THEOREM BillingResultIsFinal ==
  ASSUME Api = {}
  PROVE  Spec => ResultIsFinal
  <1> DEFINE Inv == BillingInv /\ PaidInv /\ SoloInv /\ DebtInv
  <1>1. Init => CompletedIsStored
    <2>1. NoOrder.completed = FALSE
      BY DEF NoOrder
    <2> QED
      BY <2>1 DEF Init, CompletedIsStored
  <1>2. Inv /\ Inv' /\ CompletedIsStored /\ [Next]_vars => CompletedIsStored'
    <2> SUFFICES ASSUME Inv, Inv', CompletedIsStored, [Next]_vars, NEW n \in OrderNums,
                        orders'[n].completed
                 PROVE  orders'[n].opened > 0
      BY DEF CompletedIsStored
    <2>1. OrdersStay
      BY StepOrders DEF SoloInv, Numbers
    <2> QED
      BY <2>1, OrderStep DEF CompletedIsStored, OrdersStay
  <1>3. Inv /\ Inv' /\ CompletedIsStored /\ [Next]_vars =>
          [\A n \in OrderNums :
             orders[n].completed =>
               orders'[n].completed /\ orders'[n].result = orders[n].result]_orders
    BY OrderStep DEF CompletedIsStored
  <1>4. Spec => []Inv
    BY ProcessorAlone
  <1> HIDE DEF Inv
  <1> QED
    BY <1>1, <1>2, <1>3, <1>4, PTL DEF Spec, ResultIsFinal

-----------------------------------------------------------------------------
(***************************************************************************)
(* The processor implements Debt, step by step.                            *)
(***************************************************************************)
(* The stage of a debt, before and after a step. *)
LEMMA StageIs ==
  ASSUME NEW t \in Tx
  PROVE  /\ captured[t] >= Amount => Stage(t) = "paid"
         /\ ~(captured[t] >= Amount) /\ t \in exhausted => Stage(t) = "abandoned"
         /\ ~(captured[t] >= Amount) /\ t \notin exhausted /\ retries[t] # NoRetry => Stage(t) = "retrying"
         /\ ~(captured[t] >= Amount) /\ t \notin exhausted /\ retries[t] = NoRetry
              => Stage(t) = IF txs[t].finished THEN "due" ELSE "open"
         /\ Attempts(t) = IF Stage(t) = "retrying" THEN retries[t].attempt ELSE 0
  <1>1. captured[t] >= Amount => Stage(t) = "paid"
    BY DEF Stage
  <1>2. ~(captured[t] >= Amount) /\ t \in exhausted => Stage(t) = "abandoned"
    BY DEF Stage
  <1>3. ~(captured[t] >= Amount) /\ t \notin exhausted /\ retries[t] # NoRetry
          => Stage(t) = "retrying"
    BY DEF Stage
  <1>4. ~(captured[t] >= Amount) /\ t \notin exhausted /\ retries[t] = NoRetry
          => Stage(t) = IF txs[t].finished THEN "due" ELSE "open"
    BY DEF Stage
  <1>5. Attempts(t) = IF Stage(t) = "retrying" THEN retries[t].attempt ELSE 0
    BY DEF Attempts
  <1> QED
    BY <1>1, <1>2, <1>3, <1>4, <1>5

(* After a step. *)
LEMMA StageBecomes ==
  ASSUME NEW t \in Tx
  PROVE  /\ captured'[t] >= Amount => Stage(t)' = "paid"
         /\ ~(captured'[t] >= Amount) /\ t \in exhausted' => Stage(t)' = "abandoned"
         /\ ~(captured'[t] >= Amount) /\ t \notin exhausted' /\ retries'[t] # NoRetry => Stage(t)' = "retrying"
         /\ ~(captured'[t] >= Amount) /\ t \notin exhausted' /\ retries'[t] = NoRetry
              => Stage(t)' = IF txs'[t].finished THEN "due" ELSE "open"
         /\ Attempts(t)' = IF Stage(t)' = "retrying" THEN retries'[t].attempt ELSE 0
  <1>1. captured'[t] >= Amount => Stage(t)' = "paid"
    BY DEF Stage
  <1>2. ~(captured'[t] >= Amount) /\ t \in exhausted' => Stage(t)' = "abandoned"
    BY DEF Stage
  <1>3. ~(captured'[t] >= Amount) /\ t \notin exhausted' /\ retries'[t] # NoRetry
          => Stage(t)' = "retrying"
    BY DEF Stage
  <1>4. ~(captured'[t] >= Amount) /\ t \notin exhausted' /\ retries'[t] = NoRetry
          => Stage(t)' = IF txs'[t].finished THEN "due" ELSE "open"
    BY DEF Stage
  <1>5. Attempts(t)' = IF Stage(t)' = "retrying" THEN retries'[t].attempt ELSE 0
    BY DEF Attempts
  <1> QED
    BY <1>1, <1>2, <1>3, <1>4, <1>5

\* The debt t stays as it is.
Stays(t) == Stage(t)' = Stage(t) /\ Attempts(t)' = Attempts(t)

\* A step of Debt.
Transition(t) ==
  \/ /\ Stage(t) = "open"
     /\ Stage(t)' = "due" /\ Attempts(t)' = 0
  \/ /\ Stage(t) \in {"due", "retrying"}
     /\ Stage(t)' = "paid" /\ Attempts(t)' = 0
  \/ /\ Stage(t) \in {"due", "retrying"} /\ Attempts(t) < MaxRetryAttempts
     /\ Stage(t)' = "retrying" /\ Attempts(t)' = Attempts(t) + 1
  \/ /\ Stage(t) \in {"due", "retrying"} /\ ~(Attempts(t) < MaxRetryAttempts)
     /\ Stage(t)' = "abandoned" /\ Attempts(t)' = 0
  \/ /\ Stage(t) = "retrying"
     /\ Stage(t)' = "due" /\ Attempts(t)' = 0

(* What the stage depends on. *)
LEMMA StageSame ==
  ASSUME NEW t \in Tx, captured'[t] = captured[t], t \in exhausted' <=> t \in exhausted,
         retries'[t].attempt = retries[t].attempt, retries'[t] = NoRetry <=> retries[t] = NoRetry,
         \/ txs'[t].finished = txs[t].finished
         \/ captured[t] >= Amount \/ t \in exhausted \/ retries[t] # NoRetry
  PROVE  Stays(t)
  <1>1. Stage(t)' = Stage(t)
    BY StageIs, StageBecomes
  <1> QED
    BY <1>1, StageIs, StageBecomes DEF Stays

(* A paid debt stays paid. *)
LEMMA PaidStays ==
  ASSUME NEW t \in Tx, captured[t] >= Amount, captured'[t] >= Amount
  PROVE  Stays(t)
  <1>1. Stage(t) = "paid" /\ Stage(t)' = "paid"
    BY StageIs, StageBecomes
  <1> QED
    BY <1>1, StageIs, StageBecomes DEF Stays

(* The processor: only an expired card changes a debt. *)
LEMMA ProcessorDebt ==
  ASSUME BillingInv, DebtInv, ProcessorFrame, NEW t \in Tx
  PROVE  Stays(t) \/ (t = loc[Processor].tx /\ Transition(t))
  <1>1. /\ captured'[t] = captured[t] /\ exhausted' = exhausted
        /\ txs'[t].finished = txs[t].finished /\ retries'[t] \in {retries[t], NoRetry}
        /\ t # loc[Processor].tx => retries'[t] = retries[t]
    BY DEF ProcessorFrame
  <1>2. CASE retries'[t] = retries[t]
    BY <1>1, <1>2, StageSame
  <1>3. CASE retries'[t] # retries[t]
    <2>1. retries[t] # NoRetry /\ retries'[t] = NoRetry /\ t = loc[Processor].tx
      BY <1>1, <1>3
    <2>2. txs[t].finished /\ t \notin exhausted
      BY <2>1 DEF DebtInv
    <2>3. CASE captured[t] >= Amount
      BY <1>1, <2>3, PaidStays
    <2>4. CASE ~(captured[t] >= Amount)
      <3>1. Stage(t) = "retrying" /\ Stage(t)' = "due"
        BY <1>1, <2>1, <2>2, <2>4, StageIs, StageBecomes
      <3>2. Attempts(t)' = 0
        BY <3>1, StageBecomes
      <3> QED
        BY <2>1, <3>1, <3>2 DEF Transition
    <2> QED
      BY <2>3, <2>4
  <1> QED
    BY <1>2, <1>3

(* A goroutine: the gateway's charge pays the debt, and a failure counts   *)
(* as one attempt.                                                         *)
LEMMA JobDebt ==
  ASSUME BillingInv, BillingInv', PaidInv, SoloInv, DebtInv, NEW g \in Live, GoroutineStep(g),
         JobKeeps(g), NEW t \in Tx
  PROVE  Stays(t) \/ (t = loc[g].tx /\ Transition(t))
  <1>0. /\ loc[g].tx \in Tx /\ loc[g].tx \notin exhausted /\ g \in Goroutines /\ loc[g].op = "pay"
        /\ SoloJob(pc[g], loc[g], orders, txs)
        /\ pc[g] \in Got => loc[g].osnap.tx = loc[g].tx
    BY JobBefore, LiveFacts
  <1>1. CASE t # loc[g].tx
    <2>1. /\ captured'[t] = captured[t] /\ txs'[t] = txs[t] /\ retries'[t] = retries[t]
          /\ t \in exhausted' => t \in exhausted
      BY <1>1 DEF JobKeeps, JobFrame
    <2>2. exhausted \subseteq exhausted'
      BY DEF GoroutineStep, SendPay, SendRefund, OkGet, FailGet, GetOrder, OkReset, OkTxRead,
         OkClose, FailClose, SaveClosed, OkRefund, FailTxRead, ReadTransaction, OkDrop, FailPenalty,
         OkTxWrite, FailTxWrite, FailRetryRead, FailRetryWrite, GiveUp, SaveRetry, JobDeadline,
         LocalStep, historyVars
    <2> QED
      BY <2>1, <2>2, StageSame
  <1>2. CASE t = loc[g].tx
    <2>1. txs[t].finished /\ txs'[t].finished /\ t \notin exhausted
      BY <1>0, <1>2 DEF DebtInv, JobKeeps, JobFrame
    <2>2. CASE captured[t] >= Amount
      <3>1. captured'[t] >= Amount
        <4>1. captured'[t] = captured[t] \/ captured'[t] = captured[t] + Amount
          <5>1. captured' = captured \/ captured' = [captured EXCEPT ![t] = @ + Amount]
            BY <1>2 DEF GoroutineStep, SendPay, SendRefund, OkGet, FailGet, GetOrder, OkReset, OkTxRead,
               OkClose, FailClose, SaveClosed, OkRefund, FailTxRead, ReadTransaction, OkDrop, FailPenalty,
               OkTxWrite, FailTxWrite, FailRetryRead, FailRetryWrite, GiveUp, SaveRetry, JobDeadline,
               LocalStep, historyVars
          <5> QED
            BY <5>1, Actors
        <4>2. captured[t] \in Nat /\ Amount \in Nat
          BY Actors
        <4> QED
          BY <2>2, <4>1, <4>2
      <3> QED
        BY <2>2, <3>1, PaidStays
    <2>3. CASE ~(captured[t] >= Amount)
      <3>1. pc[g] \notin OkStates
        <4>1. JobShape(pc[g], loc[g], orders, captured)
          BY <1>0 DEF PaidInv, SoloInv, Numbers
        <4>2. pc[g] # "idle"
          BY LiveFacts
        <4> QED
          BY <1>0, <1>2, <2>3, <4>1, <4>2 DEF JobShape, Covered
      <3>2. /\ Stage(t) \in {"due", "retrying"}
            /\ Attempts(t) = retries[t].attempt
        <4>1. NoRetry.attempt = 0
          BY DEF NoRetry
        <4> QED
          BY <2>1, <2>3, <4>1, StageIs
      <3>3. CASE SendPay(g)
        <4>1. captured' = captured \/ captured' = [captured EXCEPT ![t] = @ + Amount]
          BY <1>2, <3>3 DEF SendPay
        <4>2. retries' = retries /\ exhausted' = exhausted
          BY <3>3 DEF SendPay, dbVars
        <4>3. CASE captured' = captured
          BY <2>1, <4>2, <4>3, StageSame
        <4>4. CASE captured' = [captured EXCEPT ![t] = @ + Amount]
          <5>1. captured'[t] = captured[t] + Amount /\ captured[t] \in Nat /\ Amount \in Nat
            BY <4>4, Actors
          <5>2. captured'[t] >= Amount
            BY <5>1
          <5>3. Stage(t)' = "paid" /\ Attempts(t)' = 0
            BY <5>2, StageBecomes
          <5> QED
            BY <1>2, <3>2, <5>3 DEF Transition
        <4> QED
          BY <4>1, <4>3, <4>4
      <3>4. CASE FailRetryWrite(g)
        <4>1. pc[g] = "failRetryWrite" /\ loc[g].osnap.tx = t /\ captured' = captured
          BY <1>0, <1>2, <3>4 DEF FailRetryWrite, Got, OkStates, FailStates
        <4>2. loc[g].attempt = retries[t].attempt
          BY <1>2, <4>1, JobBefore
        <4>3. loc[g].attempt \in Nat /\ MaxRetryAttempts \in Nat
          BY <1>0, JobFacts, BillingAssumption
        <4>4. CASE loc[g].attempt + 1 > MaxRetryAttempts
          <5>1. exhausted' = exhausted \cup {t}
            BY <3>4, <4>1, <4>4 DEF FailRetryWrite, GiveUp
          <5>2. ~(Attempts(t) < MaxRetryAttempts)
            BY <3>2, <4>2, <4>3, <4>4
          <5>3. Stage(t)' = "abandoned" /\ Attempts(t)' = 0
            BY <2>3, <4>1, <5>1, StageBecomes
          <5> QED
            BY <1>2, <3>2, <5>2, <5>3 DEF Transition
        <4>5. CASE ~(loc[g].attempt + 1 > MaxRetryAttempts)
          <5>1. /\ retries' = [retries EXCEPT ![t] = [attempt |-> loc[g].attempt + 1, due |-> FALSE]]
                /\ exhausted' = exhausted
            BY <3>4, <4>1, <4>5 DEF FailRetryWrite, SaveRetry
          <5>2. retries'[t] = [attempt |-> loc[g].attempt + 1, due |-> FALSE]
            BY <5>1, Actors
          <5>3. retries'[t].attempt = loc[g].attempt + 1
            BY <5>2
          <5>4. retries'[t] # NoRetry
            <6>1. NoRetry.attempt = 0
              BY DEF NoRetry
            <6> QED
              BY <4>3, <5>3, <6>1
          <5>5. Stage(t)' = "retrying"
            BY <2>1, <2>3, <4>1, <5>1, <5>4, StageBecomes
          <5>6. Attempts(t)' = Attempts(t) + 1
            BY <3>2, <4>2, <5>3, <5>5, StageBecomes
          <5>7. Attempts(t) < MaxRetryAttempts
            BY <3>2, <4>2, <4>3, <4>5
          <5> QED
            BY <1>2, <3>2, <5>5, <5>6, <5>7 DEF Transition
        <4> QED
          BY <4>4, <4>5
      <3>5. CASE ~SendPay(g) /\ ~FailRetryWrite(g)
        <4>1. ~SendRefund(g) /\ ~OkRefund(g) /\ ~OkDrop(g)
          BY <1>0, <3>1 DEF SendRefund, OkRefund, OkDrop, OkStates
        <4>2. retries' = retries /\ exhausted' = exhausted /\ captured' = captured
          BY <3>5, <4>1 DEF GoroutineStep, OkGet, FailGet, GetOrder, OkReset, OkTxRead,
             OkClose, FailClose, SaveClosed, FailTxRead, ReadTransaction, FailPenalty,
             OkTxWrite, FailTxWrite, FailRetryRead, JobDeadline, LocalStep, dbVars, historyVars
        <4> QED
          BY <2>1, <4>2, StageSame
      <3> QED
        BY <3>3, <3>4, <3>5
    <2> QED
      BY <2>2, <2>3
  <1> QED
    BY <1>1, <1>2

(* A transaction that is finished becomes due, and nothing else outside    *)
(* the processor changes a debt.                                           *)
LEMMA EnvironmentDebt ==
  ASSUME BillingInv, DebtInv, Environment
  PROVE  \/ \A u \in Tx : Stays(u)
         \/ \E t \in Tx : Transition(t) /\ \A u \in Tx \ {t} : Stays(u)
  <1>1. UNCHANGED <<captured, exhausted>>
    BY DEF Environment, FinishTransaction, RetryDue, SaveMethod, DeleteMethod, CardExpires,
       envVars, historyVars
  <1>2. ASSUME NEW t \in Tx, FinishTransaction(t)
        PROVE  \/ \A u \in Tx : Stays(u)
               \/ Transition(t) /\ \A u \in Tx \ {t} : Stays(u)
    <2>1. retries' = retries /\ txs' = [txs EXCEPT ![t].finished = TRUE] /\ ~txs[t].finished
      BY <1>2 DEF FinishTransaction
    <2>2. ASSUME NEW u \in Tx \ {t}
          PROVE  Stays(u)
      <3>1. txs'[u] = txs[u]
        BY <2>1, <2>2, Actors
      <3> QED
        BY <1>1, <2>1, <2>2, <3>1, StageSame
    <2>3. CASE captured[t] >= Amount \/ t \in exhausted
      <3>1. Stays(t)
        BY <1>1, <2>1, <2>3, StageSame
      <3> QED
        BY <2>2, <3>1
    <2>4. CASE ~(captured[t] >= Amount) /\ t \notin exhausted
      <3>1. retries[t] = NoRetry
        BY <2>1 DEF DebtInv
      <3>2. txs'[t].finished
        BY <2>1, Actors DEF TxDoc
      <3>3. Stage(t) = "open" /\ Stage(t)' = "due"
        BY <1>1, <2>1, <2>4, <3>1, <3>2, StageIs, StageBecomes
      <3>4. Attempts(t)' = 0
        BY <3>3, StageBecomes
      <3> QED
        BY <2>2, <3>3, <3>4 DEF Transition
    <2> QED
      BY <2>3, <2>4
  <1>3. ASSUME NEW t \in Tx, RetryDue(t), NEW u \in Tx
        PROVE  Stays(u)
    <2>1. txs' = txs /\ retries[t] # NoRetry /\ retries' = [retries EXCEPT ![t].due = TRUE]
      BY <1>3 DEF RetryDue
    <2>2. CASE u # t
      <3>1. retries'[u] = retries[u]
        BY <2>1, <2>2, Actors
      <3> QED
        BY <1>1, <2>1, <3>1, StageSame
    <2>3. CASE u = t
      <3>1. retries'[t].due = TRUE /\ retries'[t].attempt = retries[t].attempt
        BY <2>1, Actors DEF RetryDoc
      <3>2. NoRetry.due = FALSE
        BY DEF NoRetry
      <3>3. retries'[t] # NoRetry
        BY <3>1, <3>2
      <3> QED
        BY <1>1, <2>1, <2>3, <3>1, <3>3, StageSame
    <2> QED
      BY <2>2, <2>3
  <1>4. CASE \E c \in Cards : SaveMethod(c) \/ DeleteMethod(c) \/ CardExpires(c)
    <2>1. txs' = txs /\ retries' = retries
      BY <1>4 DEF SaveMethod, DeleteMethod, CardExpires, dbVars
    <2> QED
      BY <1>1, <2>1, StageSame
  <1> QED
    BY <1>2, <1>3, <1>4 DEF Environment

(* Every step of the processor alone leaves all debts as they are or is a  *)
(* step of one debt.                                                       *)
LEMMA DebtStep ==
  ASSUME Api = {}, BillingInv, BillingInv', PaidInv, SoloInv, DebtInv, [Next]_vars
  PROVE  \/ \A u \in Tx : Stays(u)
         \/ \E t \in Tx : Transition(t) /\ \A u \in Tx \ {t} : Stays(u)
  <1>1. CASE ProcessorKeeps
    <2>1. \A u \in Tx : Stays(u) \/ (u = loc[Processor].tx /\ Transition(u))
      BY <1>1, ProcessorDebt DEF ProcessorKeeps
    <2> QED
      BY <2>1
  <1>2. ASSUME NEW g \in Live, GoroutineStep(g), JobKeeps(g)
        PROVE  \/ \A u \in Tx : Stays(u)
               \/ \E t \in Tx : Transition(t) /\ \A u \in Tx \ {t} : Stays(u)
    <2>1. \A u \in Tx : Stays(u) \/ (u = loc[g].tx /\ Transition(u))
      BY <1>2, JobDebt
    <2> QED
      BY <2>1
  <1>3. CASE PaySave(Processor) \/ CrashRestart \/ (Idles /\ UNCHANGED txs)
    <2>1. UNCHANGED <<txs, retries, captured, exhausted>>
      BY <1>3 DEF PaySave, CrashRestart, Idles, dbVars
    <2> QED
      BY <2>1, StageSame
  <1> QED
    BY <1>1, <1>2, <1>3, EnvironmentDebt, StepKinds

(* Debt's own steps. *)
LEMMA DebtImplements ==
  ASSUME \/ \A u \in Tx : Stays(u)
         \/ \E t \in Tx : Transition(t) /\ \A u \in Tx \ {t} : Stays(u)
  PROVE  [TheDebt!DebtNext]_(TheDebt!debtVars)
  <1> DEFINE stage == [t \in Tx |-> Stage(t)]
             attempt == [t \in Tx |-> Attempts(t)]
  <1>1. CASE \A u \in Tx : Stays(u)
    <2>1. stage' = stage /\ attempt' = attempt
      BY <1>1 DEF Stays
    <2> QED
      BY <2>1 DEF TheDebt!debtVars
  <1>2. ASSUME NEW t \in Tx, Transition(t), \A u \in Tx \ {t} : Stays(u)
        PROVE  TheDebt!DebtNext
    <2>1. stage' = [stage EXCEPT ![t] = Stage(t)'] /\ attempt' = [attempt EXCEPT ![t] = Attempts(t)']
      BY <1>2 DEF Stays
    <2>2. TheDebt!Become(t, Stage(t)', Attempts(t)')
      BY <2>1 DEF TheDebt!Become
    <2>3. stage[t] = Stage(t) /\ attempt[t] = Attempts(t)
      OBVIOUS
    <2>4. TheDebt!ComeDue(t) \/ TheDebt!Pay(t) \/ TheDebt!Refuse(t) \/ TheDebt!CardExpires(t)
      BY <1>2, <2>2, <2>3
         DEF Transition, TheDebt!ComeDue, TheDebt!Pay, TheDebt!Refuse, TheDebt!CardExpires
    <2> QED
      BY <2>4 DEF TheDebt!DebtNext
  <1> QED
    BY <1>1, <1>2

(***************************************************************************)
(* The payment processor implements Debt, whatever fails and whenever the  *)
(* process is restarted: a debt is paid or its retries are counted one by  *)
(* one, it is abandoned only after the last of them, an expired card makes *)
(* it due again, and a paid debt stays paid.                               *)
(***************************************************************************)
THEOREM BillingImplementsDebt ==
  ASSUME Api = {}
  PROVE  Spec => ImplementsDebt
  <1> DEFINE Inv == BillingInv /\ PaidInv /\ SoloInv /\ DebtInv
  <1>1. Init => TheDebt!DebtInit
    <2> SUFFICES ASSUME Init
                 PROVE  TheDebt!DebtInit
      OBVIOUS
    <2>1. ASSUME NEW t \in Tx
          PROVE  Stage(t) = "open" /\ Attempts(t) = 0
      <3>1. captured[t] = 0 /\ retries[t] = NoRetry /\ exhausted = {}
        BY DEF Init
      <3>2. ~txs[t].finished
        <4>1. PICK m : txs[t] = NewTx(m)
          BY DEF Init
        <4>2. NewTx(m).finished = FALSE
          BY DEF NewTx
        <4> QED
          BY <4>1, <4>2
      <3>3. ~(captured[t] >= Amount)
        BY <3>1, InitBillingInv, Actors
      <3>4. Stage(t) = "open"
        BY <3>1, <3>2, <3>3, StageIs
      <3> QED
        BY <3>4, StageIs
    <2> QED
      BY <2>1 DEF TheDebt!DebtInit
  <1>2. Inv /\ Inv' /\ [Next]_vars => [TheDebt!DebtNext]_(TheDebt!debtVars)
    BY DebtStep, DebtImplements
  <1>3. Spec => []Inv
    BY ProcessorAlone
  <1> HIDE DEF Inv
  <1> QED
    BY <1>1, <1>2, <1>3, PTL DEF Spec, ImplementsDebt, TheDebt!DebtSpec

-----------------------------------------------------------------------------
(***************************************************************************)
(* No debt is dropped while the process runs undisturbed.                  *)
(***************************************************************************)
(* Outside the section and retryOne no copy is used. *)
LEMMA CopiesEasy ==
  ASSUME NEW s, NEW r, s \notin (PayStates \ {"payRead"}) \cup {"retryReset", "panic"}
  PROVE  Copies(s, r)
  BY DEF Copies, PayStates

(* A document written from a copy that names a card. *)
LEMMA NamedStays ==
  ASSUME BillingInv, HasMethod, NEW t \in Tx, NEW s \in TxDoc, UpdateTransactionPayment(t, s),
         s.method # NoMethod
  PROVE  \A u \in Tx : txs'[u].method # NoMethod
  BY TxUpdated DEF HasMethod

(* The processor's copies in its calls. *)
LEMMA CallCopies ==
  ASSUME BillingInv, SoloInv, HasMethod, Undisturbed, Api = {}, NEW p \in Callers, CallerStep(p)
  PROVE  Copies(pc'[Processor], loc'[Processor]) /\ \A u \in Tx : txs'[u].method # NoMethod
  <1> DEFINE t == loc[Processor].tx
             r == loc[Processor]
  <1>0. /\ p = Processor
        /\ ~(CallPay(p) \/ CallForceRetry(p) \/ CallReturn(p) \/ CallReturnByOrder(p))
        /\ ~ReturnStart(p) /\ ~Recovered(p)
    BY OnlyProcessor
  <1>a. ~CallerDeadline(Processor)
    BY DEF CallerDeadline, Undisturbed
  <1>b. /\ Copies(pc[Processor], r) /\ \A u \in Tx : txs[u].method # NoMethod
        /\ ProcShape(pc[Processor], r)
    BY DEF HasMethod, SoloInv, WhoRuns
  <1>1. CASE LockLoad(Processor) \/ LockAcquire(Processor) \/ LockRelease(Processor)
    <2>1. txs' = txs
      BY <1>1 DEF LockLoad, LockAcquire, LockRelease, dbVars
    <2>2. pc'[Processor] \in {"wait", "payRead", "delete"}
      BY <1>b, <1>1, Actors DEF LockLoad, LockAcquire, LockRelease, Goto, ProcShape
    <2> QED
      BY <1>b, <2>1, <2>2, CopiesEasy DEF PayStates
  <1>2. CASE LockDelete(Processor)
    <2>1. txs' = txs
      BY <1>2 DEF LockDelete, dbVars
    <2>2. pc'[Processor] \in {"idle", "unbilled", "retries"}
      BY <1>2, Actors, LocalsFields DEF LockDelete, Goto
    <2> QED
      BY <1>b, <2>1, <2>2, CopiesEasy DEF PayStates
  <1>3. CASE PayDrop(Processor) \/ PaySave(Processor)
    <2>1. txs' = txs
      BY <1>3 DEF PayDrop, PaySave
    <2>2. pc'[Processor] = "unlock"
      BY <1>3, Actors DEF PayDrop, PaySave, Goto, Spawn
    <2> QED
      BY <1>b, <2>1, <2>2, CopiesEasy DEF PayStates
  <1>4. CASE RetryRead(Processor)
    <2>1. txs' = txs /\ pc[Processor] = "retryRead" /\ pc'[Processor] = "retryReset"
      BY <1>4, Actors DEF RetryRead, Goto, LocalStep, dbVars
    <2>2. t \in Tx
      BY <2>1, Actors, CallerFacts DEF BillingInv, CallerShape
    <2>3. PICK x : x = txs[t]
      OBVIOUS
    <2>4. loc' = [loc EXCEPT ![Processor].snap = x]
      BY <1>4, <2>3 DEF RetryRead
    <2>5. loc'[Processor].snap = x
      BY <2>4, Actors, SnapSet
    <2> QED
      BY <1>b, <2>1, <2>2, <2>3, <2>5 DEF Copies
  <1>5. CASE PayRead(Processor)
    <2>1. txs' = txs /\ pc[Processor] = "payRead"
      BY <1>5 DEF PayRead, Goto, LocalStep, dbVars
    <2>2. t \in Tx /\ TagOf[t] \in {"user", "nouser"}
      <3>1. t \in Tx
        BY <2>1, Actors, PayFacts DEF PayStates
      <3> QED
        BY <3>1, BillingAssumption DEF Undisturbed
    <2>3. pc'[Processor] \in {"unlock", "paySettle", "payPick"}
      BY <1>5, <2>2, Actors DEF PayRead, Goto
    <2>4. CASE pc'[Processor] = "unlock"
      BY <1>b, <2>1, <2>4, CopiesEasy DEF PayStates
    <2>5. CASE pc'[Processor] # "unlock"
      <3>1. loc'[Processor] = [r EXCEPT !.snap = txs[t]]
        BY <1>5, <2>5, Actors DEF PayRead
      <3>2. loc'[Processor].snap = txs[t]
        BY <3>1, Actors DEF Locals
      <3> QED
        BY <1>b, <2>1, <2>2, <2>3, <3>2 DEF Copies
    <2> QED
      BY <2>4, <2>5
  <1>6. CASE PayPick(Processor)
    <2>1. txs' = txs /\ pc[Processor] = "payPick"
      BY <1>6 DEF PayPick, Goto, LocalStep, dbVars
    <2>2. r.snap.method # NoMethod
      BY <1>b, <2>1 DEF Copies, PayStates
    <2>3. \A c \in Cards : [id |-> c, failing |-> FALSE] # NoMethod
      <3>1. NoCard \notin Cards
        BY BillingAssumption
      <3> QED
        BY <3>1 DEF NoMethod
    <2>4. \A c : FreshMethods(c) \subseteq Cards
      BY BillingAssumption DEF FreshMethods
    <2>5. PICK m : /\ m # NoMethod /\ loc' = [loc EXCEPT ![Processor].card = m]
                   /\ pc'[Processor] \in {"payExpired", "payRecord"}
      <3> DEFINE was == r.snap.method
      <3>1. PICK m : /\ \/ m = was
                        \/ m \in {[id |-> c, failing |-> FALSE] : c \in FreshMethods(was.id)}
                     /\ Goto(Processor, "payPick", IF m.id \in expired THEN "payExpired" ELSE "payRecord")
                     /\ loc' = [loc EXCEPT ![Processor].card = m]
        BY <1>6, <2>2 DEF PayPick
      <3>2. m # NoMethod
        BY <2>2, <2>3, <2>4, <3>1
      <3>3. pc'[Processor] \in {"payExpired", "payRecord"}
        BY <3>1, Actors DEF Goto
      <3> QED
        BY <3>1, <3>2, <3>3
    <2>6. loc'[Processor].card = m /\ loc'[Processor].snap = r.snap
      BY <2>5, Actors, CardSet
    <2> QED
      BY <1>b, <2>1, <2>2, <2>5, <2>6 DEF Copies
  <1>7. CASE PayFind(Processor) \/ PayClose(Processor) \/ PayPenalty(Processor) \/ PayStamp(Processor)
               \/ PayNumber(Processor)
    <2>1. txs' = txs
      BY <1>7 DEF PayFind, PayClose, PayPenalty, PayStamp, PayNumber, LocalStep, dbVars
    <2>2. /\ pc[Processor] \in PayStates \ {"payRead"}
          /\ pc'[Processor] \in {"payClose", "payPenalty", "paySettle", "payStamp", "payNumber",
                                 "paySave", "unlock"}
      BY <1>7, Actors, AfterCloseStates
         DEF PayFind, PayClose, PayPenalty, PayStamp, PayNumber, Goto, PayStates
    <2>3. \/ loc'[Processor] = r
          \/ \E y, z : loc' = [loc EXCEPT ![Processor].num = y, ![Processor].osnap = z]
          \/ \E y, z : loc' = [loc EXCEPT ![Processor].osnap = z, ![Processor].num = y]
          \/ \E y : loc' = [loc EXCEPT ![Processor].stamp = y]
          \/ \E y : loc' = [loc EXCEPT ![Processor].num = y]
          \/ pc'[Processor] = "unlock"
      <3>1. CASE PayFind(Processor) \/ PayClose(Processor) \/ PayPenalty(Processor)
        BY <3>1 DEF PayFind, PayClose, PayPenalty
      <3>2. CASE PayStamp(Processor) \/ PayNumber(Processor)
        BY <3>2, Actors DEF PayStamp, PayNumber, Goto
      <3> QED
        BY <1>7, <3>1, <3>2
    <2>4. loc'[Processor].snap = r.snap \/ pc'[Processor] = "unlock"
      <3>1. ASSUME NEW y, NEW z,
                   \/ loc' = [loc EXCEPT ![Processor].num = y, ![Processor].osnap = z]
                   \/ loc' = [loc EXCEPT ![Processor].osnap = z, ![Processor].num = y]
                   \/ loc' = [loc EXCEPT ![Processor].stamp = y]
                   \/ loc' = [loc EXCEPT ![Processor].num = y]
            PROVE  loc'[Processor].snap = r.snap
        <4>1. Processor \in Procs /\ loc \in [Procs -> Locals]
          BY Actors
        <4>2. loc' = [loc EXCEPT ![Processor].num = y, ![Processor].osnap = z] =>
                loc'[Processor].snap = r.snap
          BY <4>1 DEF Locals
        <4>3. loc' = [loc EXCEPT ![Processor].osnap = z, ![Processor].num = y] =>
                loc'[Processor].snap = r.snap
          BY <4>1 DEF Locals
        <4>4. loc' = [loc EXCEPT ![Processor].stamp = y] => loc'[Processor].snap = r.snap
          BY <4>1 DEF Locals
        <4>5. loc' = [loc EXCEPT ![Processor].num = y] => loc'[Processor].snap = r.snap
          BY <4>1 DEF Locals
        <4> QED
          BY <3>1, <4>2, <4>3, <4>4, <4>5
      <3> QED
        BY <2>3, <3>1
    <2>5. r.snap.method # NoMethod
      BY <1>b, <2>2 DEF Copies
    <2>6. Copies(pc'[Processor], loc'[Processor])
      BY <2>2, <2>4, <2>5 DEF Copies, PayStates
    <2> QED
      BY <1>b, <2>1, <2>6
  <1>8. CASE RetryReset(Processor)
    <2> DEFINE s == [r.snap EXCEPT !.billed = 0, !.error = ""]
    <2>1. /\ pc[Processor] = "retryReset" /\ pc'[Processor] = "load"
          /\ UpdateTransactionPayment(t, s)
      BY <1>8, Actors DEF RetryReset, Goto
    <2>2. t \in Tx /\ r.snap \in TxDoc
      BY <2>1, Actors, CallerFacts, LocalsFields DEF BillingInv, CallerShape
    <2>3. s \in TxDoc /\ s.method = r.snap.method
      BY <2>2 DEF TxDoc
    <2>4. s.method # NoMethod
      BY <1>b, <2>1, <2>3 DEF Copies
    <2> HIDE DEF s
    <2> QED
      BY <2>1, <2>2, <2>3, <2>4, NamedStays, CopiesEasy DEF PayStates
  <1>9. CASE PayExpired(Processor)
    <2> DEFINE s == [r.snap EXCEPT !.error = "expired"]
    <2>1. /\ pc[Processor] = "payExpired" /\ pc'[Processor] = "payDrop" /\ loc' = loc
          /\ UpdateTransactionPayment(t, s)
      BY <1>9, Actors DEF PayExpired, Goto
    <2>2. t \in Tx /\ r.snap \in TxDoc
      BY <2>1, Actors, PayFacts DEF PayStates
    <2>3. s \in TxDoc /\ s.method = r.snap.method
      BY <2>2 DEF TxDoc
    <2>4. r.snap.method # NoMethod
      BY <1>b, <2>1 DEF Copies, PayStates
    <2> HIDE DEF s
    <2>5. Copies(pc'[Processor], loc'[Processor])
      BY <2>1, <2>4 DEF Copies
    <2> QED
      BY <2>1, <2>2, <2>3, <2>4, <2>5, NamedStays
  <1>10. CASE PayRecord(Processor)
    <2> DEFINE s == [r.snap EXCEPT !.method = r.card]
    <2>1. /\ pc[Processor] = "payRecord" /\ pc'[Processor] = "payFind"
          /\ UpdateTransactionPayment(t, s) /\ loc' = [loc EXCEPT ![Processor].snap = s]
      BY <1>10, Actors DEF PayRecord, Goto
    <2>2. t \in Tx /\ r.snap \in TxDoc /\ r.card \in Method
      BY <2>1, Actors, PayFacts DEF PayStates
    <2>3. s \in TxDoc /\ s.method = r.card
      BY <2>2 DEF TxDoc
    <2>4. r.card # NoMethod
      BY <1>b, <2>1 DEF Copies, PayStates
    <2> HIDE DEF s
    <2>5. loc'[Processor].snap = s
      BY <2>1, Actors, SnapSet
    <2>6. Copies(pc'[Processor], loc'[Processor])
      BY <2>1, <2>3, <2>4, <2>5 DEF Copies
    <2> QED
      BY <2>1, <2>2, <2>3, <2>4, <2>6, NamedStays
  <1>11. CASE PaySettle(Processor)
    <2> DEFINE s == [r.snap EXCEPT !.billed = Amount]
    <2>1. /\ pc[Processor] = "paySettle" /\ pc'[Processor] = "unlock"
          /\ UpdateTransactionPayment(t, s)
      BY <1>11, Actors DEF PaySettle, Goto
    <2>2. t \in Tx /\ r.snap \in TxDoc
      BY <2>1, Actors, PayFacts DEF PayStates
    <2>3. s \in TxDoc /\ s.method = r.snap.method
      BY <2>2, Actors DEF TxDoc
    <2>4. r.snap.method # NoMethod
      BY <1>b, <2>1 DEF Copies, PayStates
    <2> HIDE DEF s
    <2> QED
      BY <2>1, <2>2, <2>3, <2>4, NamedStays, CopiesEasy DEF PayStates
  <1> QED
    BY <1>0, <1>a, <1>1, <1>2, <1>3, <1>4, <1>5, <1>6, <1>7, <1>8, <1>9, <1>10, <1>11 DEF CallerStep

(* A goroutine's copy. *)
LEMMA JobCopy ==
  ASSUME BillingInv, PaidInv, SoloInv, HasMethod, NEW g \in Live, GoroutineStep(g)
  PROVE  JobCopies(pc'[g], loc'[g]) /\ \A u \in Tx : txs'[u].method # NoMethod
  <1>1. /\ g \in Goroutines /\ g \in Procs /\ loc[g].tx \in Tx
        /\ loc[g].num \in OrderNums
        /\ pc[g] \in Got => loc[g].osnap.tx = loc[g].tx
    BY LiveFacts
  <1>2. JobCopies(pc[g], loc[g]) /\ \A u \in Tx : txs[u].method # NoMethod
    BY DEF HasMethod
  <1>3. CASE OkTxRead(g) \/ FailTxRead(g)
    <2>1. txs' = txs /\ pc[g] \in {"okTxRead", "failTxRead"}
      BY <1>3 DEF OkTxRead, FailTxRead, ReadTransaction, Goto, LocalStep, dbVars
    <2>2. loc[g].osnap.tx \in Tx
      BY <1>1, <2>1 DEF Got, OkStates, FailStates
    <2>3. PICK x : x = txs[loc[g].osnap.tx]
      OBVIOUS
    <2>4. loc' = [loc EXCEPT ![g].snap = x]
      BY <1>3, <2>3 DEF OkTxRead, FailTxRead, ReadTransaction
    <2>5. loc'[g].snap = x
      BY <1>1, <2>4, Actors, SnapSet
    <2> QED
      BY <1>2, <2>1, <2>2, <2>3, <2>5 DEF JobCopies
  <1>4. CASE OkTxWrite(g) \/ FailTxWrite(g)
    <2> DEFINE k == loc[g].num
               good == [loc[g].snap EXCEPT !.order = k, !.billed = @ + loc[g].osnap.amount,
                                           !.error = "", !.orders = @ \cup {k}]
               bad == [loc[g].snap EXCEPT !.order = k, !.billed = Amount, !.error = "failed",
                                          !.orders = @ \cup {k}]
    <2>1. \/ pc[g] = "okTxWrite" /\ pc'[g] = "okDrop" /\ UpdateTransactionPayment(loc[g].osnap.tx, good)
          \/ pc[g] = "failTxWrite" /\ pc'[g] = "failRetryRead" /\ UpdateTransactionPayment(loc[g].osnap.tx, bad)
      BY <1>1, <1>4, Actors DEF OkTxWrite, FailTxWrite, Goto
    <2>2. loc[g].osnap.tx \in Tx
      BY <1>1, <2>1 DEF Got, OkStates, FailStates
    <2>3. /\ loc[g].snap \in TxDoc /\ loc[g].osnap.amount \in Nat /\ loc[g].snap.billed \in Nat
          /\ k \in 0..MaxOrders
      BY <1>1, JobFacts, NumType DEF TxDoc, OrderDoc
    <2>4. good \in TxDoc /\ good.method = loc[g].snap.method
      <3>1. loc[g].snap.billed + loc[g].osnap.amount \in Nat
        BY <2>3
      <3>2. loc[g].snap.orders \cup {k} \in SUBSET OrderNums
        BY <1>1, <2>3 DEF TxDoc
      <3> QED
        BY <2>3, <3>1, <3>2 DEF TxDoc
    <2>5. bad \in TxDoc /\ bad.method = loc[g].snap.method
      BY <1>1, <2>3, Actors DEF TxDoc
    <2>6. loc[g].snap.method # NoMethod
      BY <1>2, <2>1 DEF JobCopies
    <2> HIDE DEF good, bad
    <2>7. \A u \in Tx : txs'[u].method # NoMethod
      BY <2>1, <2>2, <2>4, <2>5, <2>6, NamedStays
    <2> QED
      BY <2>1, <2>7 DEF JobCopies
  <1>5. CASE ~(OkTxRead(g) \/ FailTxRead(g) \/ OkTxWrite(g) \/ FailTxWrite(g))
    <2>1. txs' = txs
      BY <1>5 DEF GoroutineStep, SendPay, SendRefund, OkGet, FailGet, GetOrder, OkReset,
         OkClose, FailClose, SaveClosed, OkRefund, OkDrop, FailPenalty,
         FailRetryRead, FailRetryWrite, JobDeadline, LocalStep, dbVars
    <2>2. pc'[g] \notin {"okTxWrite", "failTxWrite"}
      BY <1>1, <1>5, Actors DEF GoroutineStep, SendPay, SendRefund, OkGet, FailGet, GetOrder, OkReset,
         OkClose, FailClose, SaveClosed, OkRefund, OkDrop, FailPenalty,
         FailRetryRead, FailRetryWrite, JobDeadline, Goto, Finish
    <2> QED
      BY <1>2, <2>1, <2>2 DEF JobCopies
  <1> QED
    BY <1>3, <1>4, <1>5

(* The process does not stop, and every document names a card. *)
LEMMA MethodNext ==
  ASSUME Api = {}, Undisturbed, BillingInv, PaidInv, SoloInv, DebtInv, HasMethod, [Next]_vars
  PROVE  HasMethod' /\ ~CrashRestart
  <1>1. ~CrashRestart
    BY DEF CrashRestart, Undisturbed, HasMethod, Copies
  <1>2. ASSUME NEW p \in Callers, CallerStep(p)
        PROVE  HasMethod'
    <2>1. p = Processor
      BY <1>2, OnlyProcessor
    <2>2. ASSUME NEW g \in Live'
          PROVE  JobCopies(pc'[g], loc'[g])
      <3>1. CASE PaySave(Processor)
        <4>1. PICK h \in Goroutines : \E r : Spawn(Processor, h, "send", r)
          BY <3>1 DEF PaySave
        <4>2. pc'[h] = "send" /\ \A q \in Procs \ {Processor, h} : SameProc(q)
          BY <4>1, Actors DEF Spawn, SameProc
        <4>3. g \in Goroutines /\ g \in Procs /\ g # Processor
          BY <2>2, Actors DEF Live
        <4>4. CASE g = h
          BY <4>2, <4>4 DEF JobCopies
        <4>5. CASE g # h
          <5>1. g \in Live /\ SameProc(g)
            BY <2>2, <4>2, <4>3, <4>5 DEF Live, SameProc
          <5> QED
            BY <5>1 DEF HasMethod, SameProc
        <4> QED
          BY <4>4, <4>5
      <3>2. CASE ~PaySave(Processor)
        <4>1. ProcessorFrame
          BY <1>2, <2>1, <3>2, CallKeeps DEF ProcessorKeeps
        <4> QED
          BY <2>2, <4>1, FrameLive DEF HasMethod
      <3> QED
        BY <3>1, <3>2
    <2> QED
      BY <1>2, <2>2, CallCopies DEF HasMethod
  <1>3. CASE ProcessorStep
    <2>1. OthersRest
      BY <1>3, ProcessorMoves DEF OthersRest
    <2>2. Live' = Live /\ \A g \in Live : pc'[g] = pc[g] /\ loc'[g] = loc[g]
      BY <2>1 DEF OthersRest, Live, SameProc
    <2>3. txs' = txs
      BY <1>3 DEF ProcessorStep, Tick, StartRetries, ProcessUnbilled, ProcessRetry, EndTick,
         LocalStep, dbVars
    <2>4. pc'[Processor] \in {"idle", "unbilled", "retries", "load", "retryRead"}
      BY <1>3, Actors DEF ProcessorStep, Tick, StartRetries, ProcessUnbilled, ProcessRetry, EndTick, Goto
    <2>5. Copies(pc'[Processor], loc'[Processor])
      BY <2>4, CopiesEasy DEF PayStates
    <2>6. \A g \in Live' : JobCopies(pc'[g], loc'[g])
      BY <2>2 DEF HasMethod
    <2>7. \A u \in Tx : txs'[u].method # NoMethod
      BY <2>3 DEF HasMethod
    <2> QED
      BY <1>1, <2>5, <2>6, <2>7 DEF HasMethod
  <1>4. ASSUME NEW g \in Goroutines, GoroutineStep(g)
        PROVE  HasMethod'
    <2>1. g \in Live /\ JobFrame(g)
      BY <1>4, GoroutineKeeps, NextBillingInv DEF JobKeeps
    <2>2. JobCopies(pc'[g], loc'[g]) /\ \A u \in Tx : txs'[u].method # NoMethod
      BY <1>4, <2>1, JobCopy
    <2>3. ASSUME NEW h \in Live', h # g
          PROVE  JobCopies(pc'[h], loc'[h])
      <3>1. h \in Live /\ SameProc(h)
        BY <2>1, <2>3 DEF JobFrame, Live, SameProc
      <3> QED
        BY <3>1 DEF HasMethod, SameProc
    <2>4. Copies(pc'[Processor], loc'[Processor])
      BY <2>1, Actors DEF JobFrame, SameProc, HasMethod
    <2> QED
      BY <2>2, <2>3, <2>4 DEF HasMethod
  <1>5. CASE Environment \/ UNCHANGED vars
    <2>1. pc' = pc /\ loc' = loc
      BY <1>5 DEF Environment, FinishTransaction, RetryDue, SaveMethod, DeleteMethod, CardExpires, vars
    <2>2. ASSUME NEW u \in Tx
          PROVE  txs'[u].method = txs[u].method
      <3>1. txs' = txs \/ \E t \in Tx : txs' = [txs EXCEPT ![t].finished = TRUE]
        BY <1>5 DEF Environment, FinishTransaction, RetryDue, SaveMethod, DeleteMethod, CardExpires,
           vars, dbVars
      <3>2. txs'[u] = txs[u] \/ txs'[u] = [txs[u] EXCEPT !.finished = TRUE]
        BY <3>1, Actors
      <3>3. txs[u] \in TxDoc
        BY Actors
      <3> QED
        BY <3>2, <3>3 DEF TxDoc
    <2>3. Live' = Live
      BY <2>1 DEF Live
    <2>4. \A g \in Live' : JobCopies(pc'[g], loc'[g])
      BY <2>1, <2>3 DEF HasMethod
    <2>5. \A u \in Tx : txs'[u].method # NoMethod
      BY <2>2 DEF HasMethod
    <2>6. Copies(pc'[Processor], loc'[Processor])
      BY <2>1 DEF HasMethod
    <2> QED
      BY <1>1, <2>4, <2>5, <2>6 DEF HasMethod
  <1> QED
    BY <1>1, <1>2, <1>3, <1>4, <1>5 DEF Next

(* A goroutine that ends leaves a captured debt, a retry record, or a debt *)
(* whose retries are used up.                                              *)
LEMMA JobEnds ==
  ASSUME BillingInv, PaidInv, SoloInv, DebtInv, Undisturbed, NEW g \in Live, GoroutineStep(g),
         pc'[g] = "idle", retries'[loc[g].tx] = NoRetry
  PROVE  captured'[loc[g].tx] >= Amount \/ loc[g].tx \in exhausted'
  <1>1. /\ g \in Procs /\ loc[g].op = "pay" /\ loc[g].tx \in Tx /\ loc[g].num \in OrderNums
        /\ orders[loc[g].num].opened > 0 /\ pc[g] # "okRefund"
        /\ pc[g] \in Got => loc[g].osnap.tx = loc[g].tx
    BY LiveFacts DEF SoloJob
  <1>2. ~JobDeadline(g) /\ ~SendRefund(g) /\ ~OkRefund(g)
    BY <1>1 DEF JobDeadline, SendRefund, OkRefund, Undisturbed
  <1>3. OkDrop(g) \/ FailRetryWrite(g)
    <2>1. Stored(loc[g].num)
      BY <1>1 DEF Stored
    <2> QED
      BY <1>1, <1>2, <2>1, Actors DEF GoroutineStep, SendPay, OkGet, FailGet, GetOrder, OkReset, OkTxRead,
         OkClose, FailClose, SaveClosed, FailTxRead, ReadTransaction, FailPenalty, OkTxWrite,
         FailTxWrite, FailRetryRead, Goto
  <1>4. CASE OkDrop(g)
    <2>1. pc[g] = "okDrop" /\ captured' = captured
      BY <1>4 DEF OkDrop, historyVars
    <2>2. JobShape(pc[g], loc[g], orders, captured)
      BY <1>1, LiveFacts DEF PaidInv, SoloInv, Numbers
    <2> QED
      BY <1>1, <2>1, <2>2 DEF JobShape, Covered, OkStates
  <1>5. CASE FailRetryWrite(g)
    <2>1. loc[g].osnap.tx = loc[g].tx
      BY <1>1, <1>5 DEF FailRetryWrite, Got, OkStates, FailStates
    <2>2. GiveUp(loc[g].tx) \/ SaveRetry(loc[g].tx, loc[g].attempt + 1)
      BY <1>5, <2>1 DEF FailRetryWrite
    <2>3. ~SaveRetry(loc[g].tx, loc[g].attempt + 1)
      <3> SUFFICES ASSUME SaveRetry(loc[g].tx, loc[g].attempt + 1)
                   PROVE  FALSE
        OBVIOUS
      <3>1. retries'[loc[g].tx] = [attempt |-> loc[g].attempt + 1, due |-> FALSE]
        BY <1>1, Actors DEF SaveRetry
      <3>2. retries'[loc[g].tx].attempt = loc[g].attempt + 1 /\ NoRetry.attempt = 0
        BY <3>1 DEF NoRetry
      <3>3. loc[g].attempt \in 0..MaxRetryAttempts /\ MaxRetryAttempts \in Nat
        BY LiveFacts, JobFacts, BillingAssumption
      <3>4. loc[g].attempt + 1 # 0
        BY <3>3
      <3> QED
        BY <3>2, <3>4
    <2> QED
      BY <2>2, <2>3 DEF GiveUp
  <1> QED
    BY <1>3, <1>4, <1>5

(* No debt is dropped. *)
LEMMA GiveUpNext ==
  ASSUME Api = {}, Undisturbed, BillingInv, BillingInv', PaidInv, SoloInv, DebtInv, HasMethod,
         GiveUpInv, [Next]_vars
  PROVE  GiveUpInv'
  <1>0. ~CrashRestart
    BY MethodNext
  <1> SUFFICES ASSUME NEW t \in Tx, Charged(t), Full(txs'[t]), retries'[t] = NoRetry,
                      \A g \in Live' : loc'[g].tx # t
               PROVE  captured'[t] >= Amount \/ t \in exhausted'
    BY DEF GiveUpInv, Full, Charged
  <1>1. ASSUME txs'[t].billed = txs[t].billed, retries[t] = NoRetry, \A g \in Live : loc[g].tx # t,
               captured'[t] = captured[t], exhausted' = exhausted
        PROVE  captured'[t] >= Amount \/ t \in exhausted'
    BY <1>1 DEF GiveUpInv, Full
  <1>2. CASE ProcessorKeeps
    <2>1. txs'[t] = txs[t] /\ retries'[t] = retries[t]
      BY <1>2 DEF ProcessorKeeps, ProcessorWrites
    <2>2. UNCHANGED <<captured, exhausted>> /\ Live' = Live /\ \A g \in Live : loc'[g] = loc[g]
      BY <1>2, FrameLive DEF ProcessorKeeps, ProcessorFrame
    <2> QED
      BY <1>1, <2>1, <2>2
  <1>3. CASE PaySave(Processor)
    <2>1. UNCHANGED <<txs, retries, captured, exhausted>>
      BY <1>3 DEF PaySave
    <2>2. PICK h \in Goroutines : \E r : Spawn(Processor, h, "send", r)
      BY <1>3 DEF PaySave
    <2>3. \A g \in Live : g \in Live' /\ loc'[g] = loc[g]
      BY <2>2, Actors DEF Spawn, Live
    <2> QED
      BY <1>1, <2>1, <2>3
  <1>4. ASSUME NEW g \in Live, GoroutineStep(g), JobKeeps(g)
        PROVE  captured'[t] >= Amount \/ t \in exhausted'
    <2>1. CASE t = loc[g].tx
      <3>1. pc'[g] = "idle"
        <4> SUFFICES ASSUME pc'[g] # "idle"
                     PROVE  FALSE
          OBVIOUS
        <4>1. g \in Live' /\ loc'[g].tx = loc[g].tx
          BY <1>4 DEF JobKeeps, Live
        <4> QED
          BY <2>1, <4>1
      <3> QED
        BY <1>4, <2>1, <3>1, JobEnds
    <2>2. CASE t # loc[g].tx
      <3>1. txs'[t] = txs[t] /\ retries'[t] = retries[t] /\ captured'[t] = captured[t]
        BY <1>4, <2>2 DEF JobKeeps, JobFrame
      <3>2. \A h \in Live : loc[h].tx # t
        <4> SUFFICES ASSUME NEW h \in Live, h # g
                     PROVE  loc[h].tx # t
          BY <2>2
        <4>1. h \in Live' /\ loc'[h] = loc[h]
          BY <1>4 DEF JobKeeps, JobFrame, Live, SameProc
        <4> QED
          BY <4>1
      <3>3. exhausted \subseteq exhausted'
        BY <1>4 DEF GoroutineStep, SendPay, SendRefund, OkGet, FailGet, GetOrder, OkReset, OkTxRead,
           OkClose, FailClose, SaveClosed, OkRefund, FailTxRead, ReadTransaction, OkDrop, FailPenalty,
           OkTxWrite, FailTxWrite, FailRetryRead, FailRetryWrite, GiveUp, SaveRetry, JobDeadline,
           LocalStep, historyVars
      <3> QED
        BY <3>1, <3>2, <3>3 DEF GiveUpInv, Full
    <2> QED
      BY <2>1, <2>2
  <1>5. CASE Environment
    <2>1. UNCHANGED <<pc, loc, captured, exhausted>>
      BY <1>5 DEF Environment, FinishTransaction, RetryDue, SaveMethod, DeleteMethod, CardExpires,
         historyVars
    <2>2. txs'[t].billed = txs[t].billed
      <3>1. txs' = txs \/ \E u \in Tx : txs' = [txs EXCEPT ![u].finished = TRUE]
        BY <1>5 DEF Environment, FinishTransaction, RetryDue, SaveMethod, DeleteMethod, CardExpires,
           dbVars
      <3>2. txs'[t] = txs[t] \/ txs'[t] = [txs[t] EXCEPT !.finished = TRUE]
        BY <3>1, Actors
      <3>3. txs[t] \in TxDoc
        BY Actors
      <3>4. txs'[t] = [txs[t] EXCEPT !.finished = TRUE] => txs'[t].billed = txs[t].billed
        BY <3>3 DEF TxDoc
      <3> QED
        BY <3>2, <3>4
    <2>3. retries[t] = NoRetry
      <3>1. \/ retries' = retries
            \/ \E u \in Tx : retries[u] # NoRetry /\ retries' = [retries EXCEPT ![u].due = TRUE]
        BY <1>5 DEF Environment, FinishTransaction, RetryDue, SaveMethod, DeleteMethod, CardExpires,
           dbVars
      <3>2. ASSUME NEW u \in Tx, retries' = [retries EXCEPT ![u].due = TRUE]
            PROVE  retries[t] = NoRetry
        <4>1. u # t
          <5> SUFFICES ASSUME u = t
                       PROVE  FALSE
            OBVIOUS
          <5>1. retries'[t].due = TRUE
            BY <3>2, Actors DEF RetryDoc
          <5>2. NoRetry.due = FALSE
            BY DEF NoRetry
          <5> QED
            BY <5>1, <5>2
        <4> QED
          BY <3>2, <4>1, Actors
      <3> QED
        BY <3>1, <3>2
    <2> QED
      BY <1>1, <2>1, <2>2, <2>3 DEF Live
  <1>6. CASE Idles /\ UNCHANGED txs
    <2>1. \A g \in Live : g \in Live' /\ loc'[g] = loc[g]
      BY <1>6 DEF Idles, SameProc, Live
    <2> QED
      BY <1>1, <1>6, <2>1 DEF Idles
  <1> QED
    BY <1>0, <1>2, <1>3, <1>4, <1>5, <1>6, StepKinds

(* In the first state nothing is billed and every transaction has a card. *)
LEMMA GiveUpInit ==
  ASSUME Init, Undisturbed
  PROVE  HasMethod /\ GiveUpInv
  <1>1. BillingInv
    BY InitBillingInv
  <1>2. \A p \in Procs : pc[p] = "idle"
    BY DEF Init
  <1>3. Live = {} /\ pc[Processor] = "idle"
    BY <1>1, <1>2, Actors DEF Live
  <1>4. ASSUME NEW t \in Tx
        PROVE  txs[t].method # NoMethod /\ ~(txs[t].billed >= Amount)
    <2>1. PICK m \in InitialMethods : txs[t] = NewTx(m)
      BY DEF Init
    <2>2. NewTx(m).method = m /\ NewTx(m).billed = 0
      BY DEF NewTx
    <2>3. ~(0 >= Amount)
      BY <1>1, Actors
    <2> QED
      BY <2>1, <2>2, <2>3 DEF Undisturbed
  <1>5. Copies(pc[Processor], loc[Processor])
    BY <1>3, CopiesEasy DEF PayStates
  <1> QED
    BY <1>3, <1>4, <1>5 DEF HasMethod, GiveUpInv

(***************************************************************************)
(* While the process runs on, no debt is silently dropped: when nothing is *)
(* in progress, a charged transaction that GetUnbilledTransactions no      *)
(* longer returns and that has no retry record was captured or has used up *)
(* its retries.  closeOrderOnError marks the transaction billed before     *)
(* schedulePaymentRetry runs, so this needs that the goroutine is not cut  *)
(* off in between.                                                         *)
(***************************************************************************)
THEOREM BillingNoSilentGiveUp ==
  ASSUME Api = {}, Undisturbed
  PROVE  Spec => []NoSilentGiveUp
  <1> DEFINE Base == BillingInv /\ PaidInv /\ SoloInv /\ DebtInv
             Inv == HasMethod /\ GiveUpInv
  <1>1. Init => Inv
    BY GiveUpInit
  <1>2. Base /\ Base' /\ Inv /\ [Next]_vars => Inv'
    BY MethodNext, GiveUpNext
  <1>3. Spec => []Base
    BY ProcessorAlone
  <1>4. Inv => NoSilentGiveUp
    BY DEF GiveUpInv, NoSilentGiveUp, Quiet, Live
  <1> HIDE DEF Base, Inv
  <1> QED
    BY <1>1, <1>2, <1>3, <1>4, PTL DEF Spec
=============================================================================

------------------------------- MODULE Preauth -------------------------------
(***************************************************************************)
(* Preauthorizations: CreatePreauthorizationOrder, SavePreauthorization,   *)
(* CapturePreauthorization and UpdatePreauthorization of impl/core/core.go *)
(* on the repository of impl/database/mongo.go.                            *)
(*                                                                         *)
(* A preauthorization is a document with a status; the gateway holds the   *)
(* amount until it is captured.  None of the operations takes a lock: what *)
(* a handler read stays in its local copy until it is written back, and a  *)
(* write sets the status and the captured amount whatever they are by then.*)
(*                                                                         *)
(* Data: order numbers start at 1; authorization and error codes, cards,   *)
(* currency and merchant data are left out.                                *)
(***************************************************************************)
EXTENDS Naturals

CONSTANTS
  Handlers,    \* concurrently served requests
  Users,
  PowerUsers,  \* users whose role may update any preauthorization
  MaxAmount,   \* largest amount of a request
  MaxNum,      \* bound: order numbers
  MaxCalls,    \* bound: requests received
  NoUser

ASSUME PreauthAssumption ==
  /\ PowerUsers \subseteq Users /\ NoUser \notin Users
  /\ MaxAmount \in Nat \ {0} /\ MaxNum \in Nat /\ MaxCalls \in Nat

Nums == 1..MaxNum
Amounts == 1..MaxAmount

PreauthorizationStatus == {"PENDING", "AUTHORIZED", "CAPTURED", "CANCELLED", "FAILED"}

\* A document; created orders them by created_at.
Doc == [status : PreauthorizationStatus \cup {"none"}, user : Users \cup {NoUser},
        amount : 0..MaxAmount, captured : 0..MaxAmount, created : Nat]
NoDoc == [status |-> "none", user |-> NoUser, amount |-> 0, captured |-> 0, created |-> 0]

\* The local variables of a request.
Local == [user : Users \cup {NoUser}, num : 0..MaxNum, amount : 0..MaxAmount,
          copy : Doc]
NoLocal == [user |-> NoUser, num |-> 0, amount |-> 0, copy |-> NoDoc]

VARIABLES
  docs,     \* collection preauthorizations
  pc, loc,  \* the handlers
  clock,    \* created_at stamps taken
  calls,
  held,     \* history: order numbers for which the gateway holds the amount
  taken,    \* history: amount the gateway captured
  crossed,  \* history: numbers two requests worked on at the same time
  told,     \* history: numbers whose status a client dictated
  broken,   \* history: numbers with a request that failed half way
  reused    \* history: numbers given to an order although one was stored

preauthHistory == <<held, taken, crossed, told, broken, reused>>
preauthVars == <<docs, pc, loc, clock, calls, preauthHistory>>

States == {"idle", "createNum", "createSave", "createSend", "createUpdate",
           "captureRead", "captureSend", "captureUpdate",
           "saveRead", "updateRead", "write"}

PreauthInit ==
  /\ docs = [n \in Nums |-> NoDoc]
  /\ pc = [h \in Handlers |-> "idle"]
  /\ loc = [h \in Handlers |-> NoLocal]
  /\ clock = 0
  /\ calls = 0
  /\ held = {}
  /\ taken = [n \in Nums |-> 0]
  /\ crossed = {} /\ told = {} /\ broken = {} /\ reused = {}

-----------------------------------------------------------------------------
Stored(n) == docs[n].status # "none"

\* The order number of the document created last, 0 if there is none.
GetLastPreauthorizationOrder ==
  IF \E n \in Nums : Stored(n)
  THEN CHOOSE n \in Nums : Stored(n) /\ \A m \in Nums : docs[m].created <= docs[n].created
  ELSE 0

\* mongo's UpdatePreauthorization: the status and the captured amount of the
\* copy, whatever the document says by now.
WriteCopy(h) ==
  LET n == loc[h].num
  IN  docs' = [docs EXCEPT ![n].status = IF Stored(n) THEN loc[h].copy.status ELSE @,
                           ![n].captured = IF Stored(n) THEN loc[h].copy.captured ELSE @]

\* What a call to the gateway comes back with: an answer decodeResponse takes
\* for an approval, one it does not, or none it can read.
Outcomes == {"approved", "refused", "lost"}

Others(h, n) == {k \in Handlers \ {h} : pc[k] # "idle" /\ loc[k].num = n}

\* A request starts to work on number n.
Cross(h, n) == crossed' = IF Others(h, n) # {} THEN crossed \cup {n} ELSE crossed

Goto(h, from, to) == pc[h] = from /\ pc' = [pc EXCEPT ![h] = to]

Answer(h, from) ==
  /\ Goto(h, from, "idle")
  /\ loc' = [loc EXCEPT ![h] = NoLocal]

Request(h, to, l) ==
  /\ pc[h] = "idle" /\ calls < MaxCalls
  /\ pc' = [pc EXCEPT ![h] = to]
  /\ loc' = [loc EXCEPT ![h] = l]
  /\ calls' = calls + 1
  /\ UNCHANGED <<docs, clock, preauthHistory>>

(***************************************************************************)
(* CreatePreauthorizationOrder.                                            *)
(***************************************************************************)
PostOrder(h) ==
  \E u \in Users, a \in Amounts :
    Request(h, "createNum", [NoLocal EXCEPT !.user = u, !.amount = a])

CreateNumber(h) ==
  LET n == GetLastPreauthorizationOrder + 1
  IN  /\ n <= MaxNum
      /\ Goto(h, "createNum", "createSave")
      /\ loc' = [loc EXCEPT ![h].num = n]
      /\ Cross(h, n)
      /\ UNCHANGED <<docs, clock, calls, held, taken, told, broken, reused>>

\* The document is stored as PENDING, over one with the same number.
CreateSave(h) ==
  LET n == loc[h].num
      d == [status |-> "PENDING", user |-> loc[h].user, amount |-> loc[h].amount,
            captured |-> 0, created |-> clock + 1]
  IN  /\ Goto(h, "createSave", "createSend")
      /\ docs' = [docs EXCEPT ![n] = d]
      /\ loc' = [loc EXCEPT ![h].copy = d]
      /\ clock' = clock + 1
      /\ reused' = IF Stored(n) THEN reused \cup {n} ELSE reused
      /\ UNCHANGED <<calls, held, taken, crossed, told, broken>>

\* Preauthorize: the gateway refuses an order number that it holds an amount
\* for; a call without an answer may have been carried out.
Preauthorize(n, o) ==
  /\ o = "approved" => n \notin held
  /\ held' = IF o = "refused" THEN held ELSE held \cup {n}

CreateSend(h) ==
  LET n == loc[h].num
  IN  /\ Goto(h, "createSend", "createUpdate")
      /\ \E o \in Outcomes :
           /\ Preauthorize(n, o)
           /\ loc' = [loc EXCEPT ![h].copy.status = IF o = "approved" THEN "AUTHORIZED"
                                                    ELSE "FAILED"]
           /\ broken' = IF o = "lost" THEN broken \cup {n} ELSE broken
      /\ UNCHANGED <<docs, clock, calls, taken, crossed, told, reused>>

\* Mutant of CreateUpdate: the outcome is stored only if it is an error.
CreateUpdateError(h) ==
  /\ pc[h] = "createUpdate"
  /\ IF loc[h].copy.status = "FAILED" THEN WriteCopy(h) ELSE UNCHANGED docs
  /\ Answer(h, "createUpdate")
  /\ UNCHANGED <<clock, calls, preauthHistory>>

CreateUpdate(h) ==
  /\ pc[h] = "createUpdate"
  /\ WriteCopy(h)
  /\ Answer(h, "createUpdate")
  /\ UNCHANGED <<clock, calls, preauthHistory>>

(***************************************************************************)
(* CapturePreauthorization.                                                *)
(***************************************************************************)
PostCapture(h) ==
  \E u \in Users, n \in Nums, a \in Amounts :
    Request(h, "captureRead", [NoLocal EXCEPT !.user = u, !.num = n, !.amount = a])

\* Mutant of MayCapture: a captured preauthorization may be captured too.
MayCaptureAgain(d, a) == d.status \in {"AUTHORIZED", "CAPTURED"} /\ a <= d.amount

MayCapture(d, a) == d.status = "AUTHORIZED" /\ a <= d.amount

CaptureRead(h) ==
  LET n == loc[h].num
  IN  /\ pc[h] = "captureRead"
      /\ IF MayCapture(docs[n], loc[h].amount)
         THEN /\ Goto(h, "captureRead", "captureSend")
              /\ loc' = [loc EXCEPT ![h].copy = docs[n]]
              /\ Cross(h, n)
         ELSE Answer(h, "captureRead") /\ UNCHANGED crossed
      /\ UNCHANGED <<docs, clock, calls, held, taken, told, broken, reused>>

\* Mutant of CaptureSend: the amount is noted before the answer is known.
CaptureSendNoted(h) ==
  LET n == loc[h].num
      a == loc[h].amount
  IN  /\ Goto(h, "captureSend", "captureUpdate")
      /\ \/ /\ n \in held
            /\ taken' = [taken EXCEPT ![n] = @ + a]
            /\ loc' = [loc EXCEPT ![h].copy.status = "CAPTURED", ![h].copy.captured = a]
         \/ loc' = [loc EXCEPT ![h].copy.captured = a] /\ UNCHANGED taken
      /\ UNCHANGED <<docs, clock, calls, held, crossed, told, broken, reused>>

\* Capture of a held amount; the gateway need not know that it did so before.
Capture(n, a, o) ==
  \/ o # "refused" /\ n \in held /\ taken' = [taken EXCEPT ![n] = @ + a]
  \/ o # "approved" /\ UNCHANGED taken

\* Without an answer the handler returns with an error.
CaptureSend(h) ==
  LET n == loc[h].num
      a == loc[h].amount
  IN  /\ \E o \in Outcomes :
           /\ Capture(n, a, o)
           /\ \/ /\ o = "approved"
                 /\ Goto(h, "captureSend", "captureUpdate")
                 /\ loc' = [loc EXCEPT ![h].copy.status = "CAPTURED",
                                       ![h].copy.captured = a]
                 /\ UNCHANGED broken
              \/ /\ o = "refused"
                 /\ Goto(h, "captureSend", "captureUpdate")
                 /\ UNCHANGED <<loc, broken>>
              \/ /\ o = "lost"
                 /\ Answer(h, "captureSend")
                 /\ broken' = broken \cup {n}
      /\ UNCHANGED <<docs, clock, calls, held, crossed, told, reused>>

\* Also after a refusal: the status that was read is written again.
CaptureUpdate(h) ==
  /\ pc[h] = "captureUpdate"
  /\ WriteCopy(h)
  /\ Answer(h, "captureUpdate")
  /\ UNCHANGED <<clock, calls, preauthHistory>>

(***************************************************************************)
(* SavePreauthorization and UpdatePreauthorization: a client sets the      *)
(* status, to any but PENDING; only the second knows CAPTURED.             *)
(***************************************************************************)
PostSave(h) ==
  \E u \in Users, n \in Nums :
    Request(h, "saveRead", [NoLocal EXCEPT !.user = u, !.num = n])

PostUpdate(h) ==
  \E u \in Users, n \in Nums :
    Request(h, "updateRead", [NoLocal EXCEPT !.user = u, !.num = n])

\* The document is read, and one of the new statuses noted in the copy, if it
\* is there and of one of the users.
TakeStatus(h, from, new, owners) ==
  LET n == loc[h].num
  IN  /\ pc[h] = from
      /\ IF Stored(n) /\ docs[n].user \in owners
         THEN \E s \in new :
                /\ Goto(h, from, "write")
                /\ loc' = [loc EXCEPT ![h].copy = [docs[n] EXCEPT !.status = s]]
                /\ told' = told \cup {n}
         ELSE Answer(h, from) /\ UNCHANGED told
      /\ UNCHANGED <<docs, clock, calls, held, taken, crossed, broken, reused>>

SaveRead(h) ==
  TakeStatus(h, "saveRead", {"AUTHORIZED", "FAILED", "CANCELLED"}, {loc[h].user})

UpdateRead(h) ==
  TakeStatus(h, "updateRead", {"AUTHORIZED", "CAPTURED", "CANCELLED", "FAILED"},
             IF loc[h].user \in PowerUsers THEN Users ELSE {loc[h].user})

StatusWrite(h) ==
  /\ pc[h] = "write"
  /\ WriteCopy(h)
  /\ Answer(h, "write")
  /\ UNCHANGED <<clock, calls, preauthHistory>>

\* The five seconds of the request are over, or a call of it fails.
Abandon(h) ==
  /\ pc[h] # "idle"
  /\ Answer(h, pc[h])
  /\ broken' = IF loc[h].num = 0 THEN broken ELSE broken \cup {loc[h].num}
  /\ UNCHANGED <<docs, clock, calls, held, taken, crossed, told, reused>>

HandlerStep(h) ==
  \/ PostOrder(h) \/ CreateNumber(h) \/ CreateSave(h) \/ CreateSend(h) \/ CreateUpdate(h)
  \/ PostCapture(h) \/ CaptureRead(h) \/ CaptureSend(h) \/ CaptureUpdate(h)
  \/ PostSave(h) \/ SaveRead(h) \/ PostUpdate(h) \/ UpdateRead(h) \/ StatusWrite(h)
  \/ Abandon(h)

PreauthNext == \E h \in Handlers : HandlerStep(h)

PreauthSpec == PreauthInit /\ [][PreauthNext]_preauthVars

-----------------------------------------------------------------------------
\* Types of the documents and of the requests' copies.
PreauthTypeOK ==
  /\ docs \in [Nums -> Doc]
  /\ pc \in [Handlers -> States]
  /\ loc \in [Handlers -> Local]
  /\ clock \in Nat /\ calls \in 0..MaxCalls
  /\ held \subseteq Nums
  /\ taken \in [Nums -> Nat]
  /\ crossed \subseteq Nums /\ told \subseteq Nums
  /\ broken \subseteq Nums /\ reused \subseteq Nums

\* Nothing irregular has happened to number n: no two requests worked on it
\* at the same time, it was not given away again, no client set its status,
\* no request on it failed.
Regular(n) == n \notin crossed \cup reused \cup told \cup broken

(***************************************************************************)
(* No more than the amount that was preauthorized is captured for a        *)
(* regular order: CapturePreauthorization tests the status it read.  Two   *)
(* captures at once, or one after a status was written from an old copy,   *)
(* may take it twice.                                                      *)
(***************************************************************************)
CapturedWithinHold == \A n \in Nums : Regular(n) => taken[n] <= docs[n].amount

(***************************************************************************)
(* The captured amount of a document was taken by the gateway, whatever    *)
(* requests crossed, failed or were repeated.                              *)
(***************************************************************************)
CapturedIsTaken == \A n \in Nums : docs[n].captured <= taken[n]

(***************************************************************************)
(* The amount the gateway holds is not forgotten: once the requests on a   *)
(* regular order have answered, its document says AUTHORIZED or CAPTURED   *)
(* if and only if the gateway holds or took it.                            *)
(***************************************************************************)
HoldIsKnown ==
  \A n \in Nums :
    Regular(n) /\ (\A h \in Handlers : loc[h].num # n)
      => (n \in held <=> docs[n].status \in {"AUTHORIZED", "CAPTURED"})

\* How far a preauthorization is, as its document tells it.
Stage(n) ==
  LET s == docs[n].status
  IN  IF ~Regular(n) THEN "unclear"
      ELSE IF s = "PENDING" THEN "placed"
      ELSE IF s = "AUTHORIZED" THEN "held"
      ELSE IF s = "CAPTURED" THEN "captured"
      ELSE IF s = "none" THEN "none"
      ELSE "refused"

TheHold == INSTANCE Hold WITH
  Orders <- Nums, LargestAmount <- MaxAmount,
  stage <- [n \in Nums |-> Stage(n)],
  amount <- [n \in Nums |-> IF Regular(n) THEN docs[n].amount ELSE 0],
  charged <- [n \in Nums |-> IF Regular(n) THEN docs[n].captured ELSE 0]

(***************************************************************************)
(* The documents implement Hold: whatever copies the requests write back,  *)
(* the document of a regular order becomes PENDING, then AUTHORIZED or     *)
(* FAILED, and an AUTHORIZED one CAPTURED once, with a captured amount     *)
(* within the hold; no later write takes it back or changes the amounts.   *)
(***************************************************************************)
ImplementsHold == TheHold!HoldSpec

=============================================================================

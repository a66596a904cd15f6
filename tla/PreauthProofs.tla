---------------------------- MODULE PreauthProofs ----------------------------
(***************************************************************************)
(* Preauthorizations: for any number of concurrent requests, users, order  *)
(* numbers and amounts, a document never claims more than was captured,    *)
(* and a regular order is captured within its hold and never forgotten.    *)
(***************************************************************************)
EXTENDS Preauth, TLAPS

(***************************************************************************)
(* The collection: a document is stored with the next stamp, so the last   *)
(* one has the stamp clock and GetLastPreauthorizationOrder finds it; only *)
(* for a stored document does the gateway hold or take anything.           *)
(***************************************************************************)
DocsInv ==
  /\ \A n \in Nums : docs[n].created <= clock
  /\ \A n \in Nums : Stored(n) => clock > 0
  /\ clock > 0 => \E n \in Nums : Stored(n) /\ docs[n].created = clock
  /\ \A n \in held : Stored(n)
  /\ \A n \in Nums : taken[n] > 0 => n \in held

\* The states in which a request has the copy of a document, and those in
\* which it works on an order number on its own account.
Copied == {"createSend", "createUpdate", "captureSend", "captureUpdate", "write"}
Busy == {"createSave", "createSend", "createUpdate", "captureSend", "captureUpdate"}

\* What a request holds: a number of the collection unless it is about to
\* get one, and no copy that claims more than was taken.
Holding(h) ==
  /\ pc[h] \notin {"idle", "createNum"} => loc[h].num \in Nums
  /\ pc[h] \notin Copied => loc[h].copy = NoDoc
  /\ pc[h] \in Copied =>
       /\ Stored(loc[h].num) /\ loc[h].copy.status # "none"
       /\ loc[h].copy.captured <= taken[loc[h].num]
  /\ pc[h] \in {"createSend", "createUpdate"} => loc[h].copy.captured = 0
  /\ pc[h] = "write" => loc[h].num \in told

RequestInv == \A h \in Handlers : Holding(h)

Active(h, n) == pc[h] \in Busy /\ loc[h].num = n

\* A regular order on which no request works, or none has written yet.
Resting(n) ==
  /\ n \in held <=> docs[n].status \in {"AUTHORIZED", "CAPTURED"}
  /\ taken[n] <= docs[n].amount
  /\ taken[n] > 0 => docs[n].status = "CAPTURED"

\* What the one request that works on a regular order n knows about it.
Working(h, n) ==
  /\ pc[h] = "createSave" => Resting(n)
  /\ pc[h] = "createSend" => n \notin held /\ taken[n] = 0
  /\ pc[h] = "createUpdate" =>
       taken[n] = 0 /\ loc[h].copy.status \in {"AUTHORIZED", "FAILED"}
         /\ (n \in held <=> loc[h].copy.status = "AUTHORIZED")
  /\ pc[h] = "captureSend" =>
       /\ n \in held /\ taken[n] = 0
       /\ loc[h].copy.status = "AUTHORIZED" /\ loc[h].amount <= docs[n].amount
  /\ pc[h] = "captureUpdate" =>
       /\ n \in held /\ taken[n] <= docs[n].amount
       /\ loc[h].copy.status \in {"AUTHORIZED", "CAPTURED"}
       /\ taken[n] > 0 => loc[h].copy.status = "CAPTURED"

\* At most one request works on order n and knows it; else it is resting.
Attended(n) ==
  /\ \A h, k \in Handlers : Active(h, n) /\ Active(k, n) => h = k
  /\ \A h \in Handlers : Active(h, n) => Working(h, n)
  /\ (\A h \in Handlers : ~Active(h, n)) => Resting(n)

RegularInv == \A n \in Nums : Regular(n) => Attended(n)

PreauthInv ==
  /\ PreauthTypeOK /\ DocsInv /\ RequestInv /\ CapturedIsTaken /\ RegularInv
-----------------------------------------------------------------------------
\* GetLastPreauthorizationOrder returns a stored number, or 0.
LEMMA LastIsNumber ==
  ASSUME PreauthTypeOK, DocsInv
  PROVE  GetLastPreauthorizationOrder \in 0..MaxNum
<1> DEFINE Last(n) == Stored(n) /\ \A m \in Nums : docs[m].created <= docs[n].created
<1>1. CASE \E n \in Nums : Stored(n)
  <2>1. \E n \in Nums : Last(n)
    BY <1>1 DEF DocsInv
  <2>2. (CHOOSE n \in Nums : Last(n)) \in Nums
    BY <2>1
  <2> HIDE DEF Last
  <2> QED
    BY <1>1, <2>2, PreauthAssumption DEF GetLastPreauthorizationOrder, Nums, Last
<1>2. CASE ~\E n \in Nums : Stored(n)
  BY <1>2, PreauthAssumption DEF GetLastPreauthorizationOrder
<1> QED
  BY <1>1, <1>2

\* The empty collection.
LEMMA PreauthInvInit == ASSUME PreauthInit PROVE PreauthInv
<1> USE PreauthAssumption DEF PreauthInit, NoDoc, NoLocal
<1>1. PreauthTypeOK
  BY DEF PreauthTypeOK, Doc, Local, States, PreauthorizationStatus
<1>2. DocsInv /\ CapturedIsTaken
  BY DEF DocsInv, CapturedIsTaken, Stored
<1>3. RequestInv
  BY DEF RequestInv, Holding, Copied
<1>4. RegularInv
  BY DEF RegularInv, Attended, Active, Busy, Resting
<1> QED
  BY <1>1, <1>2, <1>3, <1>4 DEF PreauthInv

\* The local variables of a request: a new request's, an answered one's.
LEMMA LocalTypes ==
  /\ NoDoc \in Doc /\ NoLocal \in Local
  /\ \A u \in Users, a \in Amounts : [NoLocal EXCEPT !.user = u, !.amount = a] \in Local
  /\ \A u \in Users, n \in Nums :
       /\ [NoLocal EXCEPT !.user = u, !.num = n] \in Local
       /\ \A a \in Amounts : [NoLocal EXCEPT !.user = u, !.num = n, !.amount = a] \in Local
<1>1. NoDoc \in Doc
  BY PreauthAssumption DEF Doc, NoDoc
<1>2. NoLocal \in Local
  BY <1>1, PreauthAssumption DEF Local, NoLocal
<1>3. 0 \in 0..MaxNum /\ 0 \in 0..MaxAmount /\ Nums \subseteq 0..MaxNum /\ Amounts \subseteq 0..MaxAmount
  BY PreauthAssumption DEF Nums, Amounts
<1>4. \A u \in Users, a \in 0..MaxAmount : [NoLocal EXCEPT !.user = u, !.amount = a] \in Local
  BY <1>2 DEF Local
<1>5. \A u \in Users, n \in 0..MaxNum : [NoLocal EXCEPT !.user = u, !.num = n] \in Local
  BY <1>2 DEF Local
<1>6. \A u \in Users, n \in 0..MaxNum, a \in 0..MaxAmount :
        [NoLocal EXCEPT !.user = u, !.num = n, !.amount = a] \in Local
  BY <1>2 DEF Local
<1> QED
  BY <1>1, <1>2, <1>3, <1>4, <1>5, <1>6

LEMMA RequestTypes ==
  ASSUME PreauthTypeOK, NEW h \in Handlers, NEW to \in States, NEW l \in Local,
         Request(h, to, l)
  PROVE  PreauthTypeOK'
<1>1. calls' \in 0..MaxCalls
  BY PreauthAssumption DEF PreauthTypeOK, Request
<1> QED
  BY <1>1 DEF PreauthTypeOK, Request, preauthHistory

LEMMA AnswerTypes ==
  ASSUME PreauthTypeOK, NEW h \in Handlers, NEW from, Answer(h, from)
  PROVE  pc' \in [Handlers -> States] /\ loc' \in [Handlers -> Local]
BY LocalTypes DEF PreauthTypeOK, Answer, Goto, States

LEMMA WriteTypes ==
  ASSUME PreauthTypeOK, NEW h \in Handlers, WriteCopy(h), loc[h].num \in Nums
  PROVE  docs' \in [Nums -> Doc]
<1>1. docs[loc[h].num] \in Doc /\ loc[h].copy \in Doc
  BY DEF PreauthTypeOK, Local
<1> DEFINE n == loc[h].num
           d == [docs[n] EXCEPT !.status = IF Stored(n) THEN loc[h].copy.status ELSE @,
                                !.captured = IF Stored(n) THEN loc[h].copy.captured ELSE @]
<1>2. d \in Doc
  BY <1>1 DEF Doc
<1>3. docs' = [docs EXCEPT ![n] = d]
  BY DEF WriteCopy, PreauthTypeOK
<1> HIDE DEF n, d
<1> QED
  BY <1>2, <1>3 DEF PreauthTypeOK

\* Types of the collection, of the requests and of the gateway.
LEMMA PreauthTypes ==
  ASSUME PreauthInv, NEW h \in Handlers, HandlerStep(h)
  PROVE  PreauthTypeOK'
<1> USE PreauthAssumption DEF PreauthInv, Goto, preauthHistory
<1>0. loc[h] \in Local /\ pc[h] \in States /\ loc[h].copy \in Doc
  BY DEF PreauthTypeOK, Local
<1>1. CASE PostOrder(h)
  <2>1. PICK u \in Users, a \in Amounts :
          Request(h, "createNum", [NoLocal EXCEPT !.user = u, !.amount = a])
    BY <1>1 DEF PostOrder
  <2> DEFINE l == [NoLocal EXCEPT !.user = u, !.amount = a]
  <2>2. l \in Local /\ "createNum" \in States
    BY LocalTypes DEF States
  <2> HIDE DEF l
  <2> QED
    BY <2>1, <2>2, RequestTypes DEF l
<1>2. CASE CreateNumber(h)
  <2> DEFINE n == GetLastPreauthorizationOrder + 1
  <2>1. n \in Nums
    BY <1>2, LastIsNumber DEF CreateNumber, Nums
  <2>2. [loc[h] EXCEPT !.num = n] \in Local
    BY <1>0, <2>1 DEF Local, Nums
  <2> HIDE DEF n
  <2>3. loc' = [loc EXCEPT ![h] = [loc[h] EXCEPT !.num = n]]
    BY <1>2 DEF CreateNumber, n
  <2> QED
    BY <1>2, <2>1, <2>2, <2>3 DEF CreateNumber, Cross, n, PreauthTypeOK, States
<1>3. CASE CreateSave(h)
  BY <1>3 DEF CreateSave, RequestInv, Holding, PreauthTypeOK, Local, Doc, States, PreauthorizationStatus
<1>4. CASE CreateSend(h)
  <2>1. PICK s \in {"AUTHORIZED", "FAILED"} : loc' = [loc EXCEPT ![h].copy.status = s]
    BY <1>4 DEF CreateSend
  <2>2. loc' \in [Handlers -> Local]
    BY <1>0, <2>1 DEF PreauthTypeOK, Local, Doc, PreauthorizationStatus
  <2> QED
    BY <1>4, <2>2 DEF CreateSend, Preauthorize, RequestInv, Holding, PreauthTypeOK, States
<1>5. CASE CreateUpdate(h)
  <2>1. docs' \in [Nums -> Doc]
    BY <1>5, WriteTypes DEF CreateUpdate, RequestInv, Holding
  <2> QED
    BY <1>5, <2>1, AnswerTypes DEF CreateUpdate, PreauthTypeOK
<1>6. CASE PostCapture(h)
  <2>1. PICK u \in Users, n \in Nums, a \in Amounts :
          Request(h, "captureRead", [NoLocal EXCEPT !.user = u, !.num = n, !.amount = a])
    BY <1>6 DEF PostCapture
  <2> DEFINE l == [NoLocal EXCEPT !.user = u, !.num = n, !.amount = a]
  <2>2. l \in Local /\ "captureRead" \in States
    BY LocalTypes DEF States
  <2> HIDE DEF l
  <2> QED
    BY <2>1, <2>2, RequestTypes DEF l
<1>7. CASE CaptureRead(h)
  <2>1. loc[h].num \in Nums
    BY <1>7 DEF CaptureRead, RequestInv, Holding
  <2>2. loc' \in [Handlers -> Local] /\ pc' \in [Handlers -> States]
    <3>1. CASE Answer(h, "captureRead")
      BY <3>1, AnswerTypes
    <3>2. CASE /\ pc' = [pc EXCEPT ![h] = "captureSend"]
               /\ loc' = [loc EXCEPT ![h].copy = docs[loc[h].num]]
      BY <2>1, <3>2 DEF PreauthTypeOK, Local, States
    <3> QED
      BY <1>7, <3>1, <3>2 DEF CaptureRead
  <2> QED
    BY <1>7, <2>1, <2>2 DEF CaptureRead, Cross, PreauthTypeOK
<1>8. CASE CaptureSend(h)
  <2>1. loc[h].num \in Nums
    BY <1>8 DEF CaptureSend, Answer, RequestInv, Holding
  <2>2. loc' \in [Handlers -> Local] /\ pc' \in [Handlers -> States]
    <3>1. CASE Answer(h, "captureSend")
      BY <3>1, AnswerTypes
    <3>2. CASE pc' = [pc EXCEPT ![h] = "captureUpdate"] /\ UNCHANGED loc
      BY <3>2 DEF PreauthTypeOK, States
    <3>3. CASE /\ pc' = [pc EXCEPT ![h] = "captureUpdate"]
               /\ loc' = [loc EXCEPT ![h].copy.status = "CAPTURED",
                                     ![h].copy.captured = loc[h].amount]
      <4> DEFINE d == [loc[h].copy EXCEPT !.status = "CAPTURED", !.captured = loc[h].amount]
      <4>1. d \in Doc
        BY <1>0 DEF Doc, Local, PreauthorizationStatus
      <4>2. loc' = [loc EXCEPT ![h] = [loc[h] EXCEPT !.copy = d]]
        BY <1>0, <3>3 DEF PreauthTypeOK
      <4> HIDE DEF d
      <4>3. [loc[h] EXCEPT !.copy = d] \in Local
        BY <1>0, <4>1 DEF Local
      <4> QED
        BY <3>3, <4>2, <4>3 DEF PreauthTypeOK, States
    <3> QED
      BY <1>8, <3>1, <3>2, <3>3 DEF CaptureSend
  <2>3. taken' \in [Nums -> Nat]
    BY <1>0, <1>8, <2>1 DEF CaptureSend, Capture, PreauthTypeOK, Local
  <2> QED
    BY <1>8, <2>1, <2>2, <2>3 DEF CaptureSend, PreauthTypeOK
<1>9. CASE CaptureUpdate(h)
  <2>1. docs' \in [Nums -> Doc]
    BY <1>9, WriteTypes DEF CaptureUpdate, RequestInv, Holding
  <2> QED
    BY <1>9, <2>1, AnswerTypes DEF CaptureUpdate, PreauthTypeOK
<1>10. CASE PostSave(h)
  <2>1. PICK u \in Users, n \in Nums :
          Request(h, "saveRead", [NoLocal EXCEPT !.user = u, !.num = n])
    BY <1>10 DEF PostSave
  <2> DEFINE l == [NoLocal EXCEPT !.user = u, !.num = n]
  <2>2. l \in Local /\ "saveRead" \in States
    BY LocalTypes DEF States
  <2> HIDE DEF l
  <2> QED
    BY <2>1, <2>2, RequestTypes DEF l
<1>12. CASE PostUpdate(h)
  <2>1. PICK u \in Users, n \in Nums :
          Request(h, "updateRead", [NoLocal EXCEPT !.user = u, !.num = n])
    BY <1>12 DEF PostUpdate
  <2> DEFINE l == [NoLocal EXCEPT !.user = u, !.num = n]
  <2>2. l \in Local /\ "updateRead" \in States
    BY LocalTypes DEF States
  <2> HIDE DEF l
  <2> QED
    BY <2>1, <2>2, RequestTypes DEF l
<1>13. ASSUME NEW from, NEW new, NEW owners, pc[h] \in {"saveRead", "updateRead"},
              TakeStatus(h, from, new, owners),
              new \subseteq PreauthorizationStatus
       PROVE  PreauthTypeOK'
  <2>1. loc[h].num \in Nums
    BY <1>13 DEF RequestInv, Holding
  <2>2. loc' \in [Handlers -> Local] /\ pc' \in [Handlers -> States]
    <3>1. CASE Answer(h, from)
      BY <3>1, AnswerTypes
    <3>2. ASSUME NEW s \in PreauthorizationStatus,
                 pc' = [pc EXCEPT ![h] = "write"],
                 loc' = [loc EXCEPT ![h].copy = [docs[loc[h].num] EXCEPT !.status = s]]
          PROVE  loc' \in [Handlers -> Local] /\ pc' \in [Handlers -> States]
      BY <2>1, <3>2 DEF PreauthTypeOK, Local, Doc, States
    <3> QED
      BY <1>13, <3>1, <3>2 DEF TakeStatus
  <2> QED
    BY <1>13, <2>1, <2>2 DEF TakeStatus, PreauthTypeOK
<1>14. CASE StatusWrite(h)
  <2>1. docs' \in [Nums -> Doc]
    BY <1>14, WriteTypes DEF StatusWrite, RequestInv, Holding
  <2> QED
    BY <1>14, <2>1, AnswerTypes DEF StatusWrite, PreauthTypeOK
<1>15. CASE Abandon(h)
  <2>1. broken' \subseteq Nums
    <3>1. loc[h].num \in 0..MaxNum
      BY <1>0 DEF Local
    <3>2. loc[h].num # 0 => loc[h].num \in Nums
      BY <3>1 DEF Nums
    <3> QED
      BY <1>15, <3>2 DEF Abandon, PreauthTypeOK
  <2> QED
    BY <1>15, <2>1, AnswerTypes DEF Abandon, PreauthTypeOK
<1>16. CASE SaveRead(h)
  <2>1. pc[h] \in {"saveRead", "updateRead"}
    BY <1>16 DEF SaveRead, TakeStatus
  <2> QED
    BY <1>13, <1>16, <2>1 DEF SaveRead, PreauthorizationStatus
<1>17. CASE UpdateRead(h)
  <2>1. pc[h] \in {"saveRead", "updateRead"}
    BY <1>17 DEF UpdateRead, TakeStatus
  <2> QED
    BY <1>13, <1>17, <2>1 DEF UpdateRead, PreauthorizationStatus
<1> QED
  BY <1>1, <1>2, <1>3, <1>4, <1>5, <1>6, <1>7, <1>8, <1>9, <1>10, <1>12,
     <1>14, <1>15, <1>16, <1>17 DEF HandlerStep

-----------------------------------------------------------------------------
\* Ranges of the numbers, for the steps below.
LEMMA Ranges ==
  ASSUME PreauthTypeOK
  PROVE  /\ clock \in Nat
         /\ \A n \in Nums : /\ docs[n] \in Doc /\ taken[n] \in Nat /\ docs[n].captured \in Nat
                            /\ docs[n].amount \in Nat /\ docs[n].created \in Nat
         /\ \A k \in Handlers : /\ loc[k] \in Local /\ loc[k].copy \in Doc
                                /\ loc[k].copy.captured \in Nat /\ loc[k].amount \in Nat
BY PreauthAssumption DEF PreauthTypeOK, Local, Doc

\* The other requests of a step of h keep their place and their variables.
Frame(h) == \A k \in Handlers \ {h} : pc'[k] = pc[k] /\ loc'[k] = loc[k]

LEMMA OthersStay ==
  ASSUME PreauthTypeOK, NEW h \in Handlers, HandlerStep(h)
  PROVE  Frame(h)
<1> USE DEF Frame, PreauthTypeOK, Goto
<1>1. ASSUME NEW to, NEW l, Request(h, to, l) PROVE Frame(h)
  BY <1>1 DEF Request
<1>2. ASSUME NEW from, Answer(h, from) PROVE Frame(h)
  BY <1>2 DEF Answer
<1>3. CASE PostOrder(h) \/ PostCapture(h) \/ PostSave(h) \/ PostUpdate(h)
  BY <1>1, <1>3 DEF PostOrder, PostCapture, PostSave, PostUpdate
<1>4. CASE CreateNumber(h) \/ CreateSave(h) \/ CreateSend(h)
  BY <1>4 DEF CreateNumber, CreateSave, CreateSend
<1>5. CASE CreateUpdate(h) \/ CaptureUpdate(h) \/ StatusWrite(h) \/ Abandon(h)
  BY <1>2, <1>5 DEF CreateUpdate, CaptureUpdate, StatusWrite, Abandon
<1>6. CASE CaptureRead(h)
  BY <1>2, <1>6 DEF CaptureRead
<1>7. CASE CaptureSend(h)
  BY <1>2, <1>7 DEF CaptureSend
<1>8. ASSUME NEW from, NEW new, NEW owners, TakeStatus(h, from, new, owners) PROVE Frame(h)
  BY <1>2, <1>8 DEF TakeStatus
<1>9. CASE SaveRead(h) \/ UpdateRead(h)
  BY <1>8, <1>9 DEF SaveRead, UpdateRead
<1> QED
  BY <1>3, <1>4, <1>5, <1>6, <1>7, <1>9 DEF HandlerStep

\* Documents stay stored, nothing that was taken is forgotten, and an order
\* that is not regular does not become so again.
Grows ==
  /\ \A n \in Nums : (Stored(n) => Stored(n)') /\ taken[n] <= taken'[n]
  /\ told \subseteq told' /\ crossed \subseteq crossed' /\ broken \subseteq broken'
  /\ reused \subseteq reused' /\ held \subseteq held'

\* mongo's UpdatePreauthorization with a copy that some request holds.
LEMMA WriteEffect ==
  ASSUME PreauthInv, NEW h \in Handlers, WriteCopy(h), pc[h] \in Copied
  PROVE  /\ loc[h].num \in Nums
         /\ docs'[loc[h].num].status = loc[h].copy.status
         /\ docs'[loc[h].num].captured = loc[h].copy.captured
         /\ loc[h].copy.status # "none"
         /\ \A n \in Nums : /\ n # loc[h].num => docs'[n] = docs[n]
                            /\ docs'[n].amount = docs[n].amount
                            /\ docs'[n].created = docs[n].created
<1>1. /\ Holding(h) /\ loc[h].num \in Nums /\ Stored(loc[h].num)
      /\ loc[h].copy.status # "none"
  BY DEF PreauthInv, RequestInv, Holding, Copied
<1> DEFINE n == loc[h].num
           d == [docs[n] EXCEPT !.status = loc[h].copy.status,
                                !.captured = loc[h].copy.captured]
<1>2. docs \in [Nums -> Doc] /\ docs[n] \in Doc
  BY <1>1 DEF PreauthInv, PreauthTypeOK
<1>3. docs' = [docs EXCEPT ![n] = d]
  BY <1>1, <1>2 DEF WriteCopy
<1>4. /\ d.status = loc[h].copy.status /\ d.captured = loc[h].copy.captured
      /\ d.amount = docs[n].amount /\ d.created = docs[n].created
  BY <1>2 DEF Doc
<1> HIDE DEF n, d
<1>5. docs'[n] = d /\ \A k \in Nums \ {n} : docs'[k] = docs[k]
  BY <1>1, <1>2, <1>3 DEF n
<1> QED
  BY <1>1, <1>4, <1>5 DEF n

LEMMA StepGrows ==
  ASSUME PreauthInv, NEW h \in Handlers, HandlerStep(h)
  PROVE  Grows
<1> USE Ranges DEF PreauthInv, Grows, Stored, Goto, preauthHistory
<1>1. ASSUME NEW to, NEW l, Request(h, to, l) PROVE Grows
  BY <1>1 DEF Request
<1>2. CASE PostOrder(h) \/ PostCapture(h) \/ PostSave(h) \/ PostUpdate(h)
  BY <1>1, <1>2 DEF PostOrder, PostCapture, PostSave, PostUpdate
<1>3. CASE CreateNumber(h)
  BY <1>3 DEF CreateNumber, Cross
<1>4. CASE CreateSave(h)
  BY <1>4 DEF CreateSave, PreauthTypeOK
<1>5. CASE CreateSend(h)
  BY <1>5 DEF CreateSend, Preauthorize
<1>6. CASE CreateUpdate(h) \/ CaptureUpdate(h) \/ StatusWrite(h)
  <2>1. WriteCopy(h) /\ pc[h] \in Copied /\ UNCHANGED preauthHistory
    BY <1>6 DEF CreateUpdate, CaptureUpdate, StatusWrite, Copied
  <2> QED
    BY <2>1, WriteEffect
<1>7. CASE CaptureRead(h)
  BY <1>7 DEF CaptureRead, Cross
<1>8. CASE CaptureSend(h)
  BY <1>8 DEF CaptureSend, Capture, PreauthTypeOK
<1>9. ASSUME NEW from, NEW new, NEW owners, TakeStatus(h, from, new, owners) PROVE Grows
  BY <1>9 DEF TakeStatus
<1>10. CASE SaveRead(h) \/ UpdateRead(h)
  BY <1>9, <1>10 DEF SaveRead, UpdateRead
<1>11. CASE Abandon(h)
  BY <1>11 DEF Abandon
<1> QED
  BY <1>2, <1>3, <1>4, <1>5, <1>6, <1>7, <1>8, <1>10, <1>11 DEF HandlerStep

\* The request that takes the step holds what it should.
LEMMA StepHolding ==
  ASSUME PreauthInv, NEW h \in Handlers, HandlerStep(h)
  PROVE  Holding(h)'
<1> USE Ranges DEF PreauthInv, Holding, Copied, Goto, preauthHistory
<1>0. PreauthTypeOK' /\ Holding(h)
  BY PreauthTypes DEF RequestInv
<1>a. pc \in [Handlers -> States] /\ loc \in [Handlers -> Local]
  BY DEF PreauthTypeOK
<1>1. ASSUME NEW from, Answer(h, from) PROVE Holding(h)'
  BY <1>1, <1>a DEF Answer, NoLocal
<1>2. CASE PostOrder(h)
  BY <1>a, <1>2 DEF PostOrder, Request, NoLocal
<1>3. CASE PostCapture(h)
  BY <1>a, <1>3 DEF PostCapture, Request, NoLocal
<1>4. CASE PostSave(h)
  BY <1>a, <1>4 DEF PostSave, Request, NoLocal
<1>5. CASE PostUpdate(h)
  BY <1>a, <1>5 DEF PostUpdate, Request, NoLocal
<1>6. CASE CreateNumber(h)
  <2>1. GetLastPreauthorizationOrder + 1 \in Nums
    BY <1>6, LastIsNumber DEF CreateNumber, Nums
  <2> QED
    BY <1>0, <1>a, <1>6, <2>1 DEF CreateNumber
<1>7. CASE CreateSave(h)
  BY <1>0, <1>a, <1>7 DEF CreateSave, Stored, PreauthTypeOK
<1>8. CASE CreateSend(h)
  BY <1>0, <1>a, <1>8 DEF CreateSend, Stored
<1>9. CASE CreateUpdate(h) \/ CaptureUpdate(h) \/ StatusWrite(h) \/ Abandon(h)
  BY <1>1, <1>9 DEF CreateUpdate, CaptureUpdate, StatusWrite, Abandon
<1>10. CASE CaptureRead(h)
  <2>1. CASE MayCapture(docs[loc[h].num], loc[h].amount)
    <3> DEFINE n == loc[h].num
    <3>1. /\ n \in Nums /\ pc'[h] = "captureSend"
          /\ loc'[h].num = n /\ loc'[h].copy = docs[n] /\ UNCHANGED <<docs, taken>>
      BY <1>0, <1>a, <1>10, <2>1 DEF CaptureRead, Local
    <3>2. docs[n].status = "AUTHORIZED" /\ docs[n].captured <= taken[n]
      BY <2>1, <3>1 DEF MayCapture, CapturedIsTaken
    <3> QED
      BY <3>1, <3>2 DEF Stored
  <2>2. CASE ~MayCapture(docs[loc[h].num], loc[h].amount)
    BY <1>1, <1>10, <2>2 DEF CaptureRead
  <2> QED
    BY <2>1, <2>2
<1>11. CASE CaptureSend(h)
  <2>1. CASE Answer(h, "captureSend")
    BY <1>1, <2>1
  <2>2. CASE pc' = [pc EXCEPT ![h] = "captureUpdate"] /\ UNCHANGED <<loc, taken>>
    BY <1>0, <1>a, <1>11, <2>2 DEF CaptureSend, Answer, Stored
  <2>3. CASE /\ pc' = [pc EXCEPT ![h] = "captureUpdate"]
             /\ loc' = [loc EXCEPT ![h].copy.status = "CAPTURED", ![h].copy.captured = loc[h].amount]
             /\ taken' = [taken EXCEPT ![loc[h].num] = @ + loc[h].amount]
    <3>1. pc[h] = "captureSend" /\ pc'[h] = "captureUpdate" /\ docs' = docs
      BY <1>a, <1>11, <2>3 DEF CaptureSend, Answer
    <3>2. /\ loc[h] \in Local /\ loc[h].num \in Nums /\ Stored(loc[h].num)
          /\ taken[loc[h].num] \in Nat /\ loc[h].amount \in Nat
      BY <1>0, <1>a, <3>1 DEF PreauthTypeOK, Local
    <3>3. loc'[h].num = loc[h].num
      BY <1>a, <2>3
    <3>4. loc'[h].copy.status = "CAPTURED" /\ loc'[h].copy.captured = loc[h].amount
      BY <1>a, <2>3 DEF Local, Doc
    <3>5. taken'[loc[h].num] = taken[loc[h].num] + loc[h].amount
      BY <2>3, <3>2 DEF PreauthTypeOK
    <3> QED
      BY <3>1, <3>2, <3>3, <3>4, <3>5 DEF Stored
  <2> QED
    BY <1>11, <2>1, <2>2, <2>3 DEF CaptureSend, Capture
<1>12. ASSUME NEW from \in {"saveRead", "updateRead"}, NEW new, NEW owners,
              TakeStatus(h, from, new, owners), "none" \notin new
       PROVE  Holding(h)'
  <2>1. CASE Answer(h, from)
    BY <1>1, <2>1
  <2>2. CASE ~Answer(h, from)
    <3> DEFINE n == loc[h].num
    <3>1. n \in Nums /\ docs[n] \in Doc /\ Stored(n) /\ docs[n].captured <= taken[n]
      BY <1>0, <1>12, <2>2 DEF TakeStatus, CapturedIsTaken
    <3>2. PICK s \in new : /\ pc' = [pc EXCEPT ![h] = "write"]
                           /\ loc' = [loc EXCEPT ![h].copy = [docs[n] EXCEPT !.status = s]]
                           /\ told' = told \cup {n} /\ UNCHANGED <<docs, taken>>
      BY <1>12, <2>2 DEF TakeStatus
    <3>3. /\ pc'[h] = "write" /\ loc'[h].num = n /\ loc'[h].copy.status = s
          /\ loc'[h].copy.captured = docs[n].captured
      BY <1>a, <3>1, <3>2 DEF Local, Doc
    <3> QED
      BY <1>12, <3>1, <3>2, <3>3 DEF Stored
  <2> QED
    BY <2>1, <2>2
<1>13. CASE SaveRead(h)
  BY <1>12, <1>13 DEF SaveRead
<1>14. CASE UpdateRead(h)
  BY <1>12, <1>14 DEF UpdateRead
<1> QED
  BY <1>2, <1>3, <1>4, <1>5, <1>6, <1>7, <1>8, <1>9, <1>10, <1>11, <1>13, <1>14
  DEF HandlerStep

LEMMA StepRequestInv ==
  ASSUME PreauthInv, NEW h \in Handlers, HandlerStep(h)
  PROVE  RequestInv'
<1> SUFFICES ASSUME NEW k \in Handlers \ {h} PROVE Holding(k)'
  BY StepHolding DEF RequestInv
<1>1. Holding(k) /\ pc'[k] = pc[k] /\ loc'[k] = loc[k] /\ Grows
  BY OthersStay, StepGrows DEF PreauthInv, RequestInv, Frame
<1>2. PreauthTypeOK /\ PreauthTypeOK'
  BY PreauthTypes DEF PreauthInv
<1> QED
  BY <1>1, <1>2, Ranges DEF Holding, Grows, Copied, PreauthTypeOK

\* The stamps of the documents, what is held and taken, and the captured
\* amounts.
LEMMA StepDocs ==
  ASSUME PreauthInv, NEW h \in Handlers, HandlerStep(h)
  PROVE  DocsInv' /\ CapturedIsTaken'
<1> USE Ranges DEF PreauthInv, DocsInv, CapturedIsTaken, Stored, Goto, preauthHistory
<1>0. Holding(h)
  BY DEF RequestInv
<1>a. CASE UNCHANGED <<docs, clock, held, taken>>
  BY <1>a
<1>1. CASE PostOrder(h) \/ PostCapture(h) \/ PostSave(h) \/ PostUpdate(h)
  BY <1>a, <1>1 DEF PostOrder, PostCapture, PostSave, PostUpdate, Request
<1>2. CASE CreateNumber(h) \/ CaptureRead(h) \/ SaveRead(h) \/ UpdateRead(h) \/ Abandon(h)
  BY <1>a, <1>2 DEF CreateNumber, CaptureRead, SaveRead, UpdateRead, Abandon, TakeStatus
<1>3. CASE CreateSave(h)
  BY <1>0, <1>3 DEF CreateSave, Holding, PreauthTypeOK
<1>4. CASE CreateSend(h)
  BY <1>0, <1>4 DEF CreateSend, Preauthorize, Holding, Copied, PreauthTypeOK
<1>5. CASE CreateUpdate(h) \/ CaptureUpdate(h) \/ StatusWrite(h)
  <2>1. /\ WriteCopy(h) /\ pc[h] \in Copied /\ UNCHANGED <<clock, held, taken>>
    BY <1>5 DEF CreateUpdate, CaptureUpdate, StatusWrite, Copied
  <2>2. \A n \in Nums : docs'[n].captured <= taken[n]
    BY <1>0, <2>1, WriteEffect DEF Holding
  <2> QED
    <3>1. \A n \in Nums : docs'[n].created = docs[n].created /\ (Stored(n) <=> Stored(n)')
      BY <1>0, <2>1, WriteEffect DEF Holding
    <3> QED
      BY <2>1, <2>2, <3>1 DEF PreauthTypeOK
<1>6. CASE CaptureSend(h)
  <2>1. UNCHANGED <<docs, clock, held>> /\ loc[h].num \in Nums
    BY <1>0, <1>6 DEF CaptureSend, Answer, Holding
  <2> QED
    BY <1>6, <2>1 DEF CaptureSend, Capture, PreauthTypeOK
<1> QED
  BY <1>1, <1>2, <1>3, <1>4, <1>5, <1>6 DEF HandlerStep

-----------------------------------------------------------------------------
\* A step of a request that works on order n neither before nor after it.
LEMMA Elsewhere ==
  ASSUME NEW n \in Nums, NEW h \in Handlers, Attended(n), Frame(h),
         ~Active(h, n), ~Active(h, n)',
         docs'[n] = docs[n], taken'[n] = taken[n], n \in held <=> n \in held'
  PROVE  Attended(n)'
BY DEF Attended, Active, Frame, Working, Resting

\* A step after which request h is the one that works on order n.
LEMMA Attends ==
  ASSUME NEW n \in Nums, NEW h \in Handlers, Frame(h),
         \A k \in Handlers \ {h} : ~Active(k, n), Active(h, n)', Working(h, n)'
  PROVE  Attended(n)'
BY DEF Attended, Active, Frame

\* The step with which request h is done with order n.
LEMMA Leaves ==
  ASSUME NEW n \in Nums, NEW h \in Handlers, Frame(h),
         \A k \in Handlers \ {h} : ~Active(k, n), ~Active(h, n)', Resting(n)'
  PROVE  Attended(n)'
BY DEF Attended, Active, Frame

\* Regular orders stay attended.
LEMMA StepRegular ==
  ASSUME PreauthInv, NEW h \in Handlers, HandlerStep(h)
  PROVE  RegularInv'
<1> SUFFICES ASSUME NEW n \in Nums, Regular(n)' PROVE Attended(n)'
  BY DEF RegularInv
<1> DEFINE m == loc[h].num
<1>a. /\ pc \in [Handlers -> States] /\ loc \in [Handlers -> Local] /\ Holding(h)
      /\ PreauthTypeOK
  BY DEF PreauthInv, PreauthTypeOK, RequestInv
<1>b. Regular(n) /\ Attended(n) /\ Frame(h)
  BY StepGrows, OthersStay DEF PreauthInv, RegularInv, Regular, Grows
<1>c. Active(h, n) => (\A k \in Handlers \ {h} : ~Active(k, n)) /\ Working(h, n) /\ n = m
  BY <1>b DEF Attended, Active
<1>d. /\ docs[n] \in Doc /\ docs[n].amount \in Nat /\ taken[n] \in Nat /\ loc[h].amount \in Nat
      /\ loc[h].copy \in Doc
  BY <1>a, Ranges
<1> USE DEF Goto, preauthHistory
<1>1. CASE PostOrder(h) \/ PostCapture(h) \/ PostSave(h) \/ PostUpdate(h)
  <2>1. /\ ~Active(h, n) /\ ~Active(h, n)' /\ UNCHANGED <<docs, taken, held>>
    BY <1>a, <1>1 DEF PostOrder, PostCapture, PostSave, PostUpdate, Request, Active, Busy
  <2> QED
    BY <1>b, <2>1, Elsewhere
<1>2. CASE CreateNumber(h)
  <2> DEFINE q == GetLastPreauthorizationOrder + 1
  <2>1. /\ ~Active(h, n) /\ pc'[h] = "createSave" /\ loc'[h].num = q
        /\ UNCHANGED <<docs, taken, held>> /\ Cross(h, q)
    BY <1>a, <1>2 DEF CreateNumber, Active, Busy, Local
  <2> HIDE DEF q
  <2>2. CASE n # q
    BY <1>b, <2>1, <2>2, Elsewhere DEF Active
  <2>3. CASE n = q
    <3>1. \A k \in Handlers \ {h} : ~Active(k, n)
      BY <2>1, <2>3 DEF Regular, Cross, Others, Active, Busy
    <3>2. Resting(n)
      BY <1>b, <2>1, <3>1 DEF Attended
    <3>3. Active(h, n)' /\ Working(h, n)'
      BY <2>1, <2>3, <3>2 DEF Active, Busy, Working, Resting
    <3> QED
      BY <1>b, <3>1, <3>3, Attends
  <2> QED
    BY <2>2, <2>3
<1>3. CASE CreateSave(h)
  <2>1. /\ m \in Nums /\ Active(h, m) /\ pc'[h] = "createSend" /\ loc'[h].num = m
        /\ UNCHANGED <<taken, held>> /\ \A k \in Nums \ {m} : docs'[k] = docs[k]
    BY <1>a, <1>3 DEF CreateSave, Active, Busy, Holding, Local, PreauthTypeOK
  <2>2. CASE n # m
    BY <1>b, <2>1, <2>2, Elsewhere DEF Active
  <2>3. CASE n = m
    <3>1. ~Stored(n)
      BY <1>3, <2>3 DEF CreateSave, Regular
    <3>2. n \notin held /\ taken[n] = 0
      BY <1>d, <3>1 DEF PreauthInv, DocsInv
    <3>3. Active(h, n)' /\ Working(h, n)'
      BY <2>1, <2>3, <3>2 DEF Active, Busy, Working
    <3> QED
      BY <1>b, <1>c, <2>1, <2>3, <3>3, Attends
  <2> QED
    BY <2>2, <2>3
<1>4. CASE CreateSend(h)
  <2>1. /\ Active(h, m) /\ pc[h] = "createSend" /\ pc'[h] = "createUpdate" /\ loc'[h].num = m
        /\ UNCHANGED <<docs, taken>> /\ held' \in {held, held \cup {m}}
    BY <1>a, <1>4 DEF CreateSend, Preauthorize, Active, Busy, Local
  <2>2. CASE n # m
    BY <1>b, <2>1, <2>2, Elsewhere DEF Active
  <2>3. CASE n = m
    <3>1. n \notin held /\ taken[n] = 0
      BY <1>c, <2>1, <2>3 DEF Working
    <3>2. PICK o \in Outcomes :
            /\ Preauthorize(m, o)
            /\ loc' = [loc EXCEPT ![h].copy.status = IF o = "approved" THEN "AUTHORIZED" ELSE "FAILED"]
            /\ broken' = IF o = "lost" THEN broken \cup {m} ELSE broken
      BY <1>4 DEF CreateSend
    <3>3. o \in {"approved", "refused"}
      BY <2>3, <3>2 DEF Regular, Outcomes
    <3>4. loc'[h].copy.status = IF o = "approved" THEN "AUTHORIZED" ELSE "FAILED"
      BY <1>a, <1>d, <3>2 DEF Local, Doc
    <3>5. n \in held' <=> o = "approved"
      BY <2>3, <3>1, <3>2, <3>3 DEF Preauthorize
    <3>6. Active(h, n)' /\ Working(h, n)'
      BY <2>1, <2>3, <3>1, <3>4, <3>5 DEF Active, Busy, Working
    <3> QED
      BY <1>b, <1>c, <2>1, <2>3, <3>6, Attends
  <2> QED
    BY <2>2, <2>3
<1>5. CASE CreateUpdate(h) \/ CaptureUpdate(h) \/ StatusWrite(h)
  <2>1. /\ WriteCopy(h) /\ pc[h] \in Copied /\ pc[h] \in {"createUpdate", "captureUpdate", "write"}
        /\ pc'[h] = "idle" /\ UNCHANGED <<held, taken>>
    BY <1>a, <1>5 DEF CreateUpdate, CaptureUpdate, StatusWrite, Copied, Answer
  <2>2. ~Active(h, n)'
    BY <2>1 DEF Active, Busy
  <2>3. CASE n # m
    BY <1>b, <2>1, <2>2, <2>3, WriteEffect, Elsewhere DEF Active
  <2>4. CASE n = m
    <3>1. pc[h] # "write"
      BY <1>a, <1>b, <2>4 DEF Holding, Regular
    <3>2. Active(h, n)
      BY <2>1, <2>4, <3>1 DEF Active, Busy
    <3>3. Resting(n)'
      BY <1>c, <1>d, <2>1, <2>4, <3>1, <3>2, WriteEffect DEF Working, Resting
    <3> QED
      BY <1>b, <1>c, <2>2, <3>2, <3>3, Leaves
  <2> QED
    BY <2>3, <2>4
<1>6. CASE CaptureRead(h)
  <2>1. pc[h] = "captureRead" /\ ~Active(h, n) /\ UNCHANGED <<docs, taken, held>>
    BY <1>6 DEF CaptureRead, Active, Busy
  <2>2. CASE Answer(h, "captureRead")
    <3>1. ~Active(h, n)'
      BY <1>a, <2>2 DEF Answer, Active, Busy
    <3> QED
      BY <1>b, <2>1, <3>1, Elsewhere
  <2>3. CASE ~Answer(h, "captureRead")
    <3>1. /\ MayCapture(docs[m], loc[h].amount) /\ Cross(h, m)
          /\ pc'[h] = "captureSend" /\ loc' = [loc EXCEPT ![h].copy = docs[m]]
      BY <1>a, <1>6, <2>3 DEF CaptureRead
    <3>2. loc'[h].num = m /\ loc'[h].copy = docs[m] /\ loc'[h].amount = loc[h].amount
      BY <1>a, <3>1 DEF Local
    <3>3. CASE n # m
      BY <1>b, <2>1, <3>2, <3>3, Elsewhere DEF Active
    <3>4. CASE n = m
      <4>1. \A k \in Handlers \ {h} : ~Active(k, n)
        BY <3>1, <3>4 DEF Regular, Cross, Others, Active, Busy
      <4>2. Resting(n)
        BY <1>b, <2>1, <4>1 DEF Attended
      <4>3. Active(h, n)' /\ Working(h, n)'
        BY <1>d, <2>1, <3>1, <3>2, <3>4, <4>2 DEF Active, Busy, Working, Resting, MayCapture
      <4> QED
        BY <1>b, <4>1, <4>3, Attends
    <3> QED
      BY <3>3, <3>4
  <2> QED
    BY <2>2, <2>3
<1>7. CASE CaptureSend(h)
  <2>1. /\ m \in Nums /\ Active(h, m) /\ pc[h] = "captureSend" /\ UNCHANGED <<docs, held>>
        /\ \A k \in Nums \ {m} : taken'[k] = taken[k]
    BY <1>a, <1>7 DEF CaptureSend, Capture, Answer, Active, Busy, Holding, PreauthTypeOK
  <2>2. PICK o \in Outcomes :
          /\ Capture(m, loc[h].amount, o)
          /\ \/ /\ o = "approved" /\ pc' = [pc EXCEPT ![h] = "captureUpdate"]
                /\ loc' = [loc EXCEPT ![h].copy.status = "CAPTURED",
                                      ![h].copy.captured = loc[h].amount]
             \/ o = "refused" /\ pc' = [pc EXCEPT ![h] = "captureUpdate"] /\ UNCHANGED loc
             \/ o = "lost" /\ Answer(h, "captureSend") /\ broken' = broken \cup {m}
    BY <1>7 DEF CaptureSend
  <2>3. CASE n # m
    <3>1. ~Active(h, n)'
      BY <1>a, <2>2, <2>3 DEF Active, Busy, Answer, Local
    <3> QED
      BY <1>b, <2>1, <2>3, <3>1, Elsewhere DEF Active
  <2>4. CASE n = m
    <3>1. /\ n \in held /\ taken[n] = 0 /\ loc[h].amount <= docs[n].amount
          /\ loc[h].copy.status = "AUTHORIZED"
      BY <1>c, <2>1, <2>4 DEF Working
    <3>2. pc'[h] = "captureUpdate" /\ loc'[h].num = m
      BY <1>a, <2>2, <2>4 DEF Regular, Local
    <3>3. Working(h, n)'
      <4>1. CASE o = "approved"
        <5>1. loc'[h].copy.status = "CAPTURED"
          BY <1>a, <1>d, <2>2, <4>1 DEF Local, Doc
        <5>2. taken'[n] = loc[h].amount
          BY <1>a, <1>d, <2>2, <2>4, <3>1, <4>1 DEF Capture, PreauthTypeOK
        <5> QED
          BY <1>d, <2>1, <3>1, <3>2, <5>1, <5>2 DEF Working
      <4>2. CASE o = "refused"
        BY <1>d, <2>1, <2>2, <2>4, <3>1, <3>2, <4>2 DEF Working, Capture
      <4> QED
        BY <2>2, <2>4, <4>1, <4>2 DEF Regular
    <3> QED
      BY <1>b, <1>c, <2>1, <2>4, <3>2, <3>3, Attends DEF Active, Busy
  <2> QED
    BY <2>3, <2>4
<1>8. CASE SaveRead(h) \/ UpdateRead(h)
  <2>1. /\ ~Active(h, n) /\ UNCHANGED <<docs, taken, held>>
        /\ pc'[h] \in {"write", "idle"}
    BY <1>a, <1>8 DEF SaveRead, UpdateRead, TakeStatus, Answer, Active, Busy
  <2> QED
    BY <1>b, <2>1, Elsewhere DEF Active, Busy
<1>9. CASE Abandon(h)
  <2>1. pc'[h] = "idle" /\ UNCHANGED <<docs, taken, held>>
    BY <1>a, <1>9 DEF Abandon, Answer
  <2>2. ~Active(h, n)
    <3>1. n # 0
      BY DEF Nums
    <3> QED
      BY <1>9, <3>1 DEF Abandon, Active, Regular
  <2> QED
    BY <1>b, <2>1, <2>2, Elsewhere DEF Active, Busy
<1> QED
  BY <1>1, <1>2, <1>3, <1>4, <1>5, <1>6, <1>7, <1>8, <1>9 DEF HandlerStep

-----------------------------------------------------------------------------
\* Every step of every request keeps the invariant.
LEMMA PreauthInvNext == PreauthInv /\ [PreauthNext]_preauthVars => PreauthInv'
<1> SUFFICES ASSUME PreauthInv, [PreauthNext]_preauthVars PROVE PreauthInv'
  OBVIOUS
<1>1. ASSUME NEW h \in Handlers, HandlerStep(h) PROVE PreauthInv'
  BY <1>1, PreauthTypes, StepRequestInv, StepDocs, StepRegular DEF PreauthInv
<1>2. CASE UNCHANGED preauthVars
  BY <1>2 DEF preauthVars, preauthHistory, PreauthInv, PreauthTypeOK, DocsInv, RequestInv,
     Holding, CapturedIsTaken, RegularInv, Attended, Active, Working, Resting, Regular, Stored
<1> QED
  BY <1>1, <1>2 DEF PreauthNext

\* The invariant holds in every reachable state of the preauthorizations.
THEOREM PreauthInvariant == PreauthSpec => []PreauthInv
BY PreauthInvInit, PreauthInvNext, PTL DEF PreauthSpec

\* Documents, requests and the gateway's memory keep their types.
THEOREM PreauthTypeCorrect == PreauthSpec => []PreauthTypeOK
<1>1. PreauthInv => PreauthTypeOK
  BY DEF PreauthInv
<1> QED
  BY <1>1, PreauthInvariant, PTL

\* No document claims a captured amount that the gateway did not take, in
\* whatever order concurrent captures and status updates write their copies.
THEOREM PreauthCapturedIsTaken == PreauthSpec => []CapturedIsTaken
<1>1. PreauthInv => CapturedIsTaken
  BY DEF PreauthInv
<1> QED
  BY <1>1, PreauthInvariant, PTL

\* CapturePreauthorization never takes more than the hold of a regular order.
THEOREM PreauthWithinHold == PreauthSpec => []CapturedWithinHold
<1>1. ASSUME PreauthInv, NEW n \in Nums, Regular(n) PROVE taken[n] <= docs[n].amount
  <2>1. Attended(n) /\ docs[n].amount \in Nat /\ taken[n] \in Nat
    BY <1>1, Ranges DEF PreauthInv, RegularInv
  <2>2. CASE \A h \in Handlers : ~Active(h, n)
    BY <2>1, <2>2 DEF Attended, Resting
  <2>3. ASSUME NEW h \in Handlers, Active(h, n) PROVE taken[n] <= docs[n].amount
    BY <2>1, <2>3 DEF Attended, Active, Busy, Working, Resting
  <2> QED
    BY <2>2, <2>3
<1>2. PreauthInv => CapturedWithinHold
  BY <1>1 DEF CapturedWithinHold
<1> QED
  BY <1>2, PreauthInvariant, PTL

\* Once its requests have answered, the document of a regular order says
\* whether the gateway holds or took its amount.
THEOREM PreauthHoldIsKnown == PreauthSpec => []HoldIsKnown
<1>1. PreauthInv => HoldIsKnown
  BY DEF PreauthInv, RegularInv, Attended, Active, Resting, HoldIsKnown
<1> QED
  BY <1>1, PreauthInvariant, PTL

-----------------------------------------------------------------------------
(***************************************************************************)
(* Preauth implements Hold.  The request that works on a regular order     *)
(* must know more than PreauthInv says: what the document says by now, and *)
(* that a capture it writes back is of an amount within the hold.          *)
(***************************************************************************)
\* What a request asks for: an amount, and as yet no number for a new order.
Asked(h) ==
  /\ pc[h] \in {"createNum", "createSave", "captureRead", "captureSend", "captureUpdate"} =>
       loc[h].amount \in Amounts
  /\ pc[h] = "createNum" => loc[h].num = 0

Knows(h, n) ==
  /\ pc[h] \in {"createSend", "createUpdate"} =>
       docs[n].status = "PENDING" /\ docs[n].captured = 0
  /\ pc[h] \in {"captureSend", "captureUpdate"} => docs[n].status = "AUTHORIZED"
  /\ pc[h] = "captureSend" => loc[h].copy.captured = docs[n].captured
  /\ pc[h] = "captureUpdate" =>
       \/ loc[h].copy.status = "AUTHORIZED" /\ loc[h].copy.captured = docs[n].captured
       \/ loc[h].copy.status = "CAPTURED" /\ loc[h].copy.captured \in 1..docs[n].amount

Known(n) == \A h \in Handlers : Active(h, n) => Knows(h, n)

TermsInv ==
  /\ \A h \in Handlers : Asked(h)
  /\ \A n \in Nums : Regular(n) => Known(n)

\* Who writes a document.
LEMMA DocWritten ==
  ASSUME PreauthInv, NEW h \in Handlers, HandlerStep(h), NEW n \in Nums, docs'[n] # docs[n]
  PROVE  /\ CreateSave(h) \/ CreateUpdate(h) \/ CaptureUpdate(h) \/ StatusWrite(h)
         /\ loc[h].num = n
<1>1. CASE CreateSave(h)
  BY <1>1 DEF CreateSave, PreauthInv, PreauthTypeOK
<1>2. CASE CreateUpdate(h) \/ CaptureUpdate(h) \/ StatusWrite(h)
  <2>1. WriteCopy(h) /\ pc[h] \in Copied
    BY <1>2 DEF CreateUpdate, CaptureUpdate, StatusWrite, Copied
  <2> QED
    BY <1>2, <2>1, WriteEffect
<1>3. CASE PostOrder(h) \/ PostCapture(h) \/ PostSave(h) \/ PostUpdate(h)
  BY <1>3 DEF PostOrder, PostCapture, PostSave, PostUpdate, Request
<1>4. CASE CreateNumber(h) \/ CreateSend(h) \/ CaptureRead(h) \/ CaptureSend(h) \/ Abandon(h)
  BY <1>4 DEF CreateNumber, CreateSend, CaptureRead, CaptureSend, Abandon
<1>5. CASE SaveRead(h) \/ UpdateRead(h)
  BY <1>5 DEF SaveRead, UpdateRead, TakeStatus
<1> QED
  BY <1>1, <1>2, <1>3, <1>4, <1>5 DEF HandlerStep

\* The number a step of h is about.
Num(h) == IF pc[h] = "createNum" THEN GetLastPreauthorizationOrder + 1 ELSE loc[h].num

\* Who makes an order irregular.
LEMMA IrregularAt ==
  ASSUME PreauthInv, NEW h \in Handlers, HandlerStep(h), NEW n \in Nums,
         Regular(n), ~Regular(n)', Asked(h)
  PROVE  n = Num(h)
<1> USE DEF Regular, preauthHistory, Goto
<1>1. CASE PostOrder(h) \/ PostCapture(h) \/ PostSave(h) \/ PostUpdate(h)
  BY <1>1 DEF PostOrder, PostCapture, PostSave, PostUpdate, Request
<1>2. CASE CreateNumber(h)
  <2>1. /\ pc[h] = "createNum" /\ UNCHANGED <<told, broken, reused>>
        /\ Cross(h, GetLastPreauthorizationOrder + 1)
    BY <1>2 DEF CreateNumber
  <2> QED
    BY <2>1 DEF Cross, Num
<1>3. CASE CreateSave(h)
  BY <1>3 DEF CreateSave, Num
<1>4. CASE CreateSend(h)
  BY <1>4 DEF CreateSend, Num
<1>5. CASE CreateUpdate(h) \/ CaptureUpdate(h) \/ StatusWrite(h)
  BY <1>5 DEF CreateUpdate, CaptureUpdate, StatusWrite
<1>6. CASE CaptureRead(h)
  BY <1>6 DEF CaptureRead, Cross, Num
<1>7. CASE CaptureSend(h)
  BY <1>7 DEF CaptureSend, Answer, Num
<1>8. CASE SaveRead(h) \/ UpdateRead(h)
  BY <1>8 DEF SaveRead, UpdateRead, TakeStatus, Num
<1>9. CASE Abandon(h)
  <2>1. broken' \subseteq broken \cup {loc[h].num} /\ UNCHANGED <<crossed, told, reused>>
    BY <1>9 DEF Abandon
  <2>2. loc[h].num = n
    BY <2>1
  <2>3. pc[h] # "createNum"
    <3>1. n # 0
      BY DEF Nums
    <3> QED
      BY <2>2, <3>1 DEF Asked
  <2> QED
    BY <2>2, <2>3 DEF Num
<1> QED
  BY <1>1, <1>2, <1>3, <1>4, <1>5, <1>6, <1>7, <1>8, <1>9 DEF HandlerStep

\* No other request writes the document of a regular order that one works on.
LEMMA DocOfOther ==
  ASSUME PreauthInv, NEW h \in Handlers, HandlerStep(h), NEW n \in Nums, Regular(n),
         NEW k \in Handlers \ {h}, Active(k, n)
  PROVE  docs'[n] = docs[n]
<1> SUFFICES ASSUME docs'[n] # docs[n] PROVE FALSE
  OBVIOUS
<1>1. CreateSave(h) \/ CreateUpdate(h) \/ CaptureUpdate(h) \/ StatusWrite(h)
  BY DocWritten
<1>2. loc[h].num = n
  BY DocWritten
<1>3. ~Active(h, n)
  BY DEF PreauthInv, RegularInv, Attended
<1>4. StatusWrite(h)
  BY <1>1, <1>2, <1>3 DEF CreateSave, CreateUpdate, CaptureUpdate, Goto, Active, Busy
<1>5. n \in told
  BY <1>2, <1>4 DEF StatusWrite, PreauthInv, RequestInv, Holding
<1> QED
  BY <1>5 DEF Regular

\* An amount is asked for when the request arrives, and stays with it.
LEMMA StepAsked ==
  ASSUME PreauthInv, NEW h \in Handlers, HandlerStep(h), Asked(h)
  PROVE  Asked(h)'
<1> USE DEF Asked, Goto
<1>a. pc \in [Handlers -> States] /\ loc \in [Handlers -> Local] /\ loc[h] \in Local
  BY DEF PreauthInv, PreauthTypeOK
<1>1. CASE PostOrder(h)
  <2>1. PICK u \in Users, a \in Amounts :
          Request(h, "createNum", [NoLocal EXCEPT !.user = u, !.amount = a])
    BY <1>1 DEF PostOrder
  <2>2. loc'[h].amount = a /\ loc'[h].num = 0
    BY <1>a, <2>1 DEF Request, NoLocal
  <2> QED
    BY <2>2
<1>2. CASE PostCapture(h)
  <2>1. PICK u \in Users, n \in Nums, a \in Amounts :
          Request(h, "captureRead", [NoLocal EXCEPT !.user = u, !.num = n, !.amount = a])
    BY <1>2 DEF PostCapture
  <2>2. loc'[h].amount = a /\ pc'[h] = "captureRead"
    BY <1>a, <2>1 DEF Request, NoLocal
  <2> QED
    BY <2>2
<1>3. CASE PostSave(h) \/ PostUpdate(h)
  BY <1>a, <1>3 DEF PostSave, PostUpdate, Request
<1>4. ASSUME pc'[h] = "idle" PROVE Asked(h)'
  BY <1>4
<1>5. CASE CreateUpdate(h) \/ CaptureUpdate(h) \/ StatusWrite(h) \/ Abandon(h)
  BY <1>a, <1>4, <1>5 DEF CreateUpdate, CaptureUpdate, StatusWrite, Abandon, Answer
<1>6. CASE CreateNumber(h)
  <2>1. /\ pc[h] = "createNum" /\ pc'[h] = "createSave"
        /\ loc' = [loc EXCEPT ![h].num = GetLastPreauthorizationOrder + 1]
    BY <1>a, <1>6 DEF CreateNumber
  <2>2. loc'[h].amount = loc[h].amount
    BY <1>a, <2>1 DEF Local
  <2> QED
    BY <2>1, <2>2
<1>7. CASE CreateSave(h) \/ CreateSend(h)
  BY <1>a, <1>7 DEF CreateSave, CreateSend
<1>8. CASE CaptureRead(h)
  <2>1. CASE Answer(h, "captureRead")
    BY <1>a, <1>4, <2>1 DEF Answer
  <2>2. CASE pc[h] = "captureRead" /\ pc' = [pc EXCEPT ![h] = "captureSend"]
               /\ loc' = [loc EXCEPT ![h].copy = docs[loc[h].num]]
    <3>1. loc'[h].amount = loc[h].amount /\ pc'[h] = "captureSend"
      BY <1>a, <2>2 DEF Local
    <3> QED
      BY <2>2, <3>1
  <2> QED
    BY <1>8, <2>1, <2>2 DEF CaptureRead
<1>9. CASE CaptureSend(h)
  <2>1. CASE Answer(h, "captureSend")
    BY <1>a, <1>4, <2>1 DEF Answer
  <2>2. ASSUME pc[h] = "captureSend", pc' = [pc EXCEPT ![h] = "captureUpdate"],
               \/ UNCHANGED loc
               \/ loc' = [loc EXCEPT ![h].copy.status = "CAPTURED",
                                     ![h].copy.captured = loc[h].amount]
        PROVE  Asked(h)'
    <3>1. loc'[h].amount = loc[h].amount /\ pc'[h] = "captureUpdate"
      BY <1>a, <2>2 DEF Local
    <3> QED
      BY <2>2, <3>1
  <2> QED
    BY <1>9, <2>1, <2>2 DEF CaptureSend
<1>10. CASE SaveRead(h) \/ UpdateRead(h)
  <2>1. pc'[h] \in {"write", "idle"}
    BY <1>a, <1>10 DEF SaveRead, UpdateRead, TakeStatus, Answer
  <2> QED
    BY <2>1
<1> QED
  BY <1>1, <1>2, <1>3, <1>5, <1>6, <1>7, <1>8, <1>9, <1>10 DEF HandlerStep

\* What the request that takes the step knows afterwards.
LEMMA StepKnows ==
  ASSUME PreauthInv, TermsInv, NEW h \in Handlers, HandlerStep(h), NEW n \in Nums,
         Regular(n), Regular(n)', Active(h, n)'
  PROVE  Knows(h, n)'
<1> USE DEF Goto
<1>a. /\ pc \in [Handlers -> States] /\ loc \in [Handlers -> Local] /\ loc[h] \in Local
      /\ docs \in [Nums -> Doc] /\ loc[h].copy \in Doc
  BY DEF PreauthInv, PreauthTypeOK, Local
<1>b. Active(h, n) => Knows(h, n) /\ Working(h, n)
  BY DEF TermsInv, Known, PreauthInv, RegularInv, Attended
<1>c. Asked(h) /\ Holding(h)
  BY DEF TermsInv, PreauthInv, RequestInv
<1>1. CASE PostOrder(h) \/ PostCapture(h) \/ PostSave(h) \/ PostUpdate(h)
  BY <1>a, <1>1 DEF PostOrder, PostCapture, PostSave, PostUpdate, Request, Active, Busy
<1>2. CASE CreateNumber(h)
  BY <1>a, <1>2 DEF CreateNumber, Knows
<1>3. CASE CreateSave(h)
  <2>1. pc'[h] = "createSend" /\ loc'[h].num = loc[h].num /\ loc[h].num = n
    BY <1>a, <1>3 DEF CreateSave, Active
  <2>2. docs'[n].status = "PENDING" /\ docs'[n].captured = 0
    BY <1>a, <1>3, <2>1 DEF CreateSave
  <2> QED
    BY <2>1, <2>2 DEF Knows
<1>4. CASE CreateSend(h)
  <2>1. /\ pc[h] = "createSend" /\ pc'[h] = "createUpdate" /\ docs' = docs
        /\ loc'[h].num = loc[h].num
    BY <1>a, <1>4 DEF CreateSend
  <2>2. Active(h, n)
    BY <2>1 DEF Active, Busy
  <2> QED
    BY <1>b, <2>1, <2>2 DEF Knows
<1>5. CASE CreateUpdate(h) \/ CaptureUpdate(h) \/ StatusWrite(h) \/ Abandon(h)
  BY <1>a, <1>5 DEF CreateUpdate, CaptureUpdate, StatusWrite, Abandon, Answer, Active, Busy
<1>6. CASE CaptureRead(h)
  <2>1. ~Answer(h, "captureRead")
    BY <1>a DEF Answer, Active, Busy
  <2>2. /\ MayCapture(docs[loc[h].num], loc[h].amount) /\ docs' = docs
        /\ pc'[h] = "captureSend" /\ loc' = [loc EXCEPT ![h].copy = docs[loc[h].num]]
    BY <1>a, <1>6, <2>1 DEF CaptureRead
  <2>3. loc'[h].num = loc[h].num /\ loc'[h].copy = docs[loc[h].num] /\ loc[h].num = n
    BY <1>a, <2>2 DEF Local, Active
  <2> QED
    BY <2>2, <2>3 DEF Knows, MayCapture
<1>7. CASE CaptureSend(h)
  <2>1. pc[h] = "captureSend" /\ docs' = docs /\ ~Answer(h, "captureSend")
    BY <1>a, <1>7 DEF CaptureSend, Answer, Active, Busy
  <2>2. /\ pc'[h] = "captureUpdate"
        /\ \/ loc' = loc
           \/ loc' = [loc EXCEPT ![h].copy.status = "CAPTURED",
                                 ![h].copy.captured = loc[h].amount]
    BY <1>a, <1>7, <2>1 DEF CaptureSend
  <2>3. loc[h].num = n /\ Active(h, n)
    BY <1>a, <2>1, <2>2 DEF Active, Busy, Local
  <2>4. /\ docs[n].status = "AUTHORIZED" /\ loc[h].copy.captured = docs[n].captured
        /\ loc[h].copy.status = "AUTHORIZED" /\ loc[h].amount <= docs[n].amount
        /\ loc[h].amount \in Amounts
    BY <1>b, <1>c, <2>1, <2>3 DEF Knows, Working, Asked
  <2>5. CASE loc' = loc
    BY <2>1, <2>2, <2>4, <2>5 DEF Knows
  <2>6. CASE loc' = [loc EXCEPT ![h].copy.status = "CAPTURED",
                                ![h].copy.captured = loc[h].amount]
    <3>1. loc'[h].copy.status = "CAPTURED" /\ loc'[h].copy.captured = loc[h].amount
      BY <1>a, <2>6 DEF Local, Doc
    <3>2. loc[h].amount \in 1..docs[n].amount
      BY <1>a, <2>4, PreauthAssumption DEF Amounts, Doc
    <3> QED
      BY <2>1, <2>2, <2>4, <3>1, <3>2 DEF Knows
  <2> QED
    BY <2>2, <2>5, <2>6
<1>8. CASE SaveRead(h) \/ UpdateRead(h)
  <2>1. pc'[h] \in {"write", "idle"}
    BY <1>a, <1>8 DEF SaveRead, UpdateRead, TakeStatus, Answer
  <2> QED
    BY <2>1 DEF Active, Busy
<1> QED
  BY <1>1, <1>2, <1>3, <1>4, <1>5, <1>6, <1>7, <1>8 DEF HandlerStep

\* Every step of every request keeps what the requests know.
LEMMA TermsNext ==
  ASSUME PreauthInv, TermsInv, [PreauthNext]_preauthVars PROVE TermsInv'
<1>1. ASSUME NEW h \in Handlers, HandlerStep(h) PROVE TermsInv'
  <2>1. Frame(h) /\ Grows
    BY <1>1, OthersStay, StepGrows DEF PreauthInv
  <2>2. ASSUME NEW k \in Handlers PROVE Asked(k)'
    <3>1. CASE k = h
      BY <1>1, <3>1, StepAsked DEF TermsInv
    <3>2. CASE k # h
      BY <2>1, <3>2 DEF Frame, TermsInv, Asked
    <3> QED
      BY <3>1, <3>2
  <2>3. ASSUME NEW n \in Nums, Regular(n)', NEW k \in Handlers, Active(k, n)'
        PROVE  Knows(k, n)'
    <3>1. Regular(n)
      BY <2>1, <2>3 DEF Grows, Regular
    <3>2. CASE k = h
      BY <1>1, <2>3, <3>1, <3>2, StepKnows
    <3>3. CASE k # h
      <4>1. Active(k, n) /\ pc'[k] = pc[k] /\ loc'[k] = loc[k]
        BY <2>1, <2>3, <3>3 DEF Frame, Active
      <4>2. docs'[n] = docs[n]
        BY <1>1, <3>1, <3>3, <4>1, DocOfOther
      <4> QED
        BY <3>1, <4>1, <4>2 DEF TermsInv, Known, Knows
    <3> QED
      BY <3>2, <3>3
  <2> QED
    BY <2>2, <2>3 DEF TermsInv, Known
<1>2. CASE UNCHANGED preauthVars
  BY <1>2 DEF preauthVars, preauthHistory, TermsInv, Asked, Known, Knows, Regular, Active
<1> QED
  BY <1>1, <1>2 DEF PreauthNext

-----------------------------------------------------------------------------
\* What Hold sees of an order.
Amount(n) == IF Regular(n) THEN docs[n].amount ELSE 0
Charged(n) == IF Regular(n) THEN docs[n].captured ELSE 0

Stays(n) == Stage(n)' = Stage(n) /\ Amount(n)' = Amount(n) /\ Charged(n)' = Charged(n)

Transition(n) ==
  \/ /\ Stage(n) = "none" /\ Stage(n)' = "placed"
     /\ Amount(n)' \in 1..MaxAmount /\ Charged(n)' = 0
  \/ /\ Stage(n) = "placed" /\ Stage(n)' \in {"held", "refused"}
     /\ Amount(n)' = Amount(n) /\ Charged(n)' = 0
  \/ /\ Stage(n) = "held" /\ Stage(n)' = "captured"
     /\ Amount(n)' = Amount(n) /\ Charged(n)' \in 1..Amount(n)
  \/ /\ Stage(n) # "unclear" /\ Stage(n)' = "unclear"
     /\ Amount(n)' = 0 /\ Charged(n)' = 0

\* The document of an order that stays regular is not written, or moves on.
LEMMA OrderMoves ==
  ASSUME PreauthInv, TermsInv, NEW h \in Handlers, HandlerStep(h), NEW n \in Nums,
         Regular(n), Regular(n)'
  PROVE  Stays(n) \/ (n = Num(h) /\ Transition(n))
<1>a. /\ docs \in [Nums -> Doc] /\ loc[h] \in Local /\ docs[n] \in Doc
  BY DEF PreauthInv, PreauthTypeOK
<1>1. CASE docs'[n] = docs[n]
  BY <1>1 DEF Stays, Stage, Amount, Charged
<1>2. CASE docs'[n] # docs[n]
  <2>1. /\ CreateSave(h) \/ CreateUpdate(h) \/ CaptureUpdate(h) \/ StatusWrite(h)
        /\ loc[h].num = n
    BY <1>2, DocWritten
  <2>2. n = Num(h)
    BY <2>1 DEF Num, CreateSave, CreateUpdate, CaptureUpdate, StatusWrite, Goto
  <2>3. CASE CreateSave(h)
    <3>1. ~Stored(n) /\ loc[h].amount \in Amounts
      BY <2>1, <2>3 DEF CreateSave, Goto, Regular, TermsInv, Asked
    <3>2. /\ docs'[n].status = "PENDING" /\ docs'[n].captured = 0
          /\ docs'[n].amount = loc[h].amount
      BY <1>a, <2>1, <2>3 DEF CreateSave
    <3> QED
      BY <2>2, <3>1, <3>2 DEF Transition, Stage, Amount, Charged, Stored, Amounts
  <2>4. CASE CreateUpdate(h)
    <3>1. pc[h] = "createUpdate" /\ WriteCopy(h) /\ pc[h] \in Copied /\ Active(h, n)
      BY <2>1, <2>4 DEF CreateUpdate, Copied, Active, Busy
    <3>2. /\ docs'[n].status = loc[h].copy.status /\ docs'[n].captured = loc[h].copy.captured
          /\ docs'[n].amount = docs[n].amount
      BY <2>1, <3>1, WriteEffect
    <3>3. /\ loc[h].copy.status \in {"AUTHORIZED", "FAILED"} /\ loc[h].copy.captured = 0
          /\ docs[n].status = "PENDING"
      BY <3>1 DEF PreauthInv, RegularInv, Attended, Working, RequestInv, Holding,
                  TermsInv, Known, Knows
    <3> QED
      BY <2>2, <3>2, <3>3 DEF Transition, Stage, Amount, Charged
  <2>5. CASE CaptureUpdate(h)
    <3>1. pc[h] = "captureUpdate" /\ WriteCopy(h) /\ pc[h] \in Copied /\ Active(h, n)
      BY <2>1, <2>5 DEF CaptureUpdate, Copied, Active, Busy
    <3>2. /\ docs'[n].status = loc[h].copy.status /\ docs'[n].captured = loc[h].copy.captured
          /\ docs'[n].amount = docs[n].amount
      BY <2>1, <3>1, WriteEffect
    <3>3. /\ docs[n].status = "AUTHORIZED"
          /\ \/ loc[h].copy.status = "AUTHORIZED" /\ loc[h].copy.captured = docs[n].captured
             \/ loc[h].copy.status = "CAPTURED" /\ loc[h].copy.captured \in 1..docs[n].amount
      BY <3>1 DEF TermsInv, Known, Knows
    <3> QED
      BY <2>2, <3>2, <3>3 DEF Stays, Transition, Stage, Amount, Charged
  <2>6. CASE StatusWrite(h)
    BY <2>1, <2>6 DEF StatusWrite, PreauthInv, RequestInv, Holding, Regular
  <2> QED
    BY <2>1, <2>3, <2>4, <2>5, <2>6
<1> QED
  BY <1>1, <1>2

\* A step of a request moves one order on, or loses it, or none.
LEMMA HoldStep ==
  ASSUME PreauthInv, TermsInv, NEW h \in Handlers, HandlerStep(h), NEW n \in Nums
  PROVE  Stays(n) \/ (n = Num(h) /\ Transition(n))
<1>1. CASE Regular(n) /\ Regular(n)'
  BY <1>1, OrderMoves
<1>2. CASE Regular(n) /\ ~Regular(n)'
  <2>1. n = Num(h)
    BY <1>2, IrregularAt DEF TermsInv
  <2>2. Stage(n) # "unclear" /\ Stage(n)' = "unclear" /\ Amount(n)' = 0 /\ Charged(n)' = 0
    BY <1>2 DEF Stage, Amount, Charged
  <2> QED
    BY <2>1, <2>2 DEF Transition
<1>3. CASE ~Regular(n)
  <2>1. ~Regular(n)'
    BY <1>3, StepGrows DEF Grows, Regular
  <2> QED
    BY <1>3, <2>1 DEF Stays, Stage, Amount, Charged
<1> QED
  BY <1>1, <1>2, <1>3

\* Hold's own steps.
LEMMA HoldImplements ==
  ASSUME \/ \A n \in Nums : Stays(n)
         \/ \E m \in Nums : Transition(m) /\ \A n \in Nums \ {m} : Stays(n)
  PROVE  [TheHold!HoldNext]_(TheHold!holdVars)
<1> DEFINE stage == [n \in Nums |-> Stage(n)]
           amount == [n \in Nums |-> IF Regular(n) THEN docs[n].amount ELSE 0]
           charged == [n \in Nums |-> IF Regular(n) THEN docs[n].captured ELSE 0]
<1>1. CASE \A n \in Nums : Stays(n)
  <2>1. stage' = stage /\ amount' = amount /\ charged' = charged
    BY <1>1 DEF Stays, Amount, Charged
  <2> QED
    BY <2>1 DEF TheHold!holdVars
<1>2. ASSUME NEW m \in Nums, Transition(m), \A n \in Nums \ {m} : Stays(n)
      PROVE  TheHold!HoldNext
  <2>1. PICK s, a, c : s = Stage(m)' /\ a = Amount(m)' /\ c = Charged(m)'
    OBVIOUS
  <2>2. TheHold!Become(m, s, a, c)
    <3>1. /\ stage' = [stage EXCEPT ![m] = s]
          /\ amount' = [amount EXCEPT ![m] = a]
          /\ charged' = [charged EXCEPT ![m] = c]
      BY <1>2, <2>1 DEF Stays, Amount, Charged
    <3> QED
      BY <3>1 DEF TheHold!Become
  <2>3. stage[m] = Stage(m) /\ amount[m] = Amount(m)
    BY DEF Amount
  <2>4. TheHold!Place(m) \/ TheHold!Settle(m) \/ TheHold!Capture(m) \/ TheHold!Lose(m)
    BY <1>2, <2>1, <2>2, <2>3
       DEF Transition, TheHold!Place, TheHold!Settle, TheHold!Capture, TheHold!Lose
  <2> QED
    BY <2>4 DEF TheHold!HoldNext
<1> QED
  BY <1>1, <1>2

(***************************************************************************)
(* The documents implement Hold, in whatever order concurrent creations,   *)
(* captures and status updates write their copies back: an order that      *)
(* stays regular is placed, held or refused, and captured at most once     *)
(* within its hold, and no later write takes any of it back.               *)
(***************************************************************************)
THEOREM PreauthImplementsHold == PreauthSpec => ImplementsHold
<1>1. PreauthInit => TermsInv
  BY DEF PreauthInit, TermsInv, Asked, Known, Active, Busy, NoLocal
<1>2. PreauthSpec => []TermsInv
  BY <1>1, TermsNext, PreauthInvariant, PTL DEF PreauthSpec
<1>3. PreauthInit => TheHold!HoldInit
  <2> SUFFICES ASSUME PreauthInit PROVE TheHold!HoldInit
    OBVIOUS
  <2>1. ASSUME NEW n \in Nums
        PROVE  Regular(n) /\ docs[n] = NoDoc
    BY <2>1 DEF PreauthInit, Regular
  <2>2. ASSUME NEW n \in Nums
        PROVE  Stage(n) = "none" /\ docs[n].amount = 0 /\ docs[n].captured = 0
    BY <2>1 DEF Stage, NoDoc
  <2> QED
    BY <2>1, <2>2 DEF TheHold!HoldInit
<1>4. PreauthInv /\ TermsInv /\ [PreauthNext]_preauthVars
        => [TheHold!HoldNext]_(TheHold!holdVars)
  <2> SUFFICES ASSUME PreauthInv, TermsInv, [PreauthNext]_preauthVars
               PROVE  \/ \A n \in Nums : Stays(n)
                      \/ \E m \in Nums : Transition(m) /\ \A n \in Nums \ {m} : Stays(n)
    BY HoldImplements
  <2>1. ASSUME NEW h \in Handlers, HandlerStep(h)
        PROVE  \/ \A n \in Nums : Stays(n)
               \/ \E m \in Nums : Transition(m) /\ \A n \in Nums \ {m} : Stays(n)
    <3>1. \A n \in Nums : Stays(n) \/ (n = Num(h) /\ Transition(n))
      BY <2>1, HoldStep
    <3> QED
      BY <3>1
  <2>2. CASE UNCHANGED preauthVars
    BY <2>2 DEF preauthVars, preauthHistory, Stays, Stage, Amount, Charged, Regular
  <2> QED
    BY <2>1, <2>2 DEF PreauthNext
<1> QED
  BY <1>2, <1>3, <1>4, PreauthInvariant, PTL
  DEF PreauthSpec, ImplementsHold, TheHold!HoldSpec
=============================================================================

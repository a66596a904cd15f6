---------------------------- MODULE WsPoolProofs -----------------------------
(***************************************************************************)
(* The pool never sends on, and never closes again, the channel of a       *)
(* client it has unregistered: for any number of clients, any capacity of  *)
(* their channels, with and without write errors.                          *)
(***************************************************************************)
EXTENDS WsPool, TLAPS

(***************************************************************************)
(* PoolNeverPanics is not inductive as it stands: the loop's targets must  *)
(* be known clients (nothing is unregistered while the pool delivers), and *)
(* a client object must not be registered after its channel was closed.    *)
(***************************************************************************)
Unstarted(c) == pump[c]["read"] \in {"none", "register"}

PoolInv ==
  /\ WsTypeOK
  /\ \A c \in clients : ~sendClosed[c]
  /\ targets \subseteq clients
  /\ ppc = "select" => targets = {}
  /\ ppc = "send" => target \in clients
  /\ \A c \in Clients : Unstarted(c) => ~sendClosed[c] /\ c \notin clients

\* The initial state, before any client has connected.
LEMMA PoolInvInit == ASSUME WsInit PROVE PoolInv
<1>1. WsTypeOK
  <2>1. queued \in [Clients -> 0..Capacity]
    BY WsAssumption DEF WsInit
  <2>2. pump \in [Clients -> [Pumps -> PumpStates]]
    BY DEF WsInit, PumpStates
  <2> QED
    BY <2>1, <2>2 DEF WsInit, WsTypeOK, Events
<1> QED
  BY <1>1 DEF WsInit, PoolInv

\* A panic resets the process to its initial state.
LEMMA PoolInvCrash == ASSUME Crash PROVE PoolInv'
BY WsAssumption DEF Crash, PoolInv, WsTypeOK, Unstarted, Events, Pumps, PumpStates

\* The pool's own steps.
LEMMA PoolInvPool == ASSUME PoolInv, PoolStep PROVE PoolInv'
<1> USE WsAssumption DEF PoolInv, WsTypeOK, Unstarted, Events, Pumps, PumpStates, Goto
<1>1. ASSUME NEW c \in Clients, PoolRegister(c) PROVE PoolInv'
  BY <1>1 DEF PoolRegister
<1>2. ASSUME NEW c \in Clients, PoolVisit(c) PROVE PoolInv'
  BY <1>2 DEF PoolVisit, clientVars
<1>3. ASSUME NEW c \in Clients, NEW x \in Pumps, PoolUnregister(c, x) PROVE PoolInv'
  <2>1. /\ clients' = clients \ {c} /\ ppc = "select" /\ ppc' = "select"
        /\ UNCHANGED <<event, targets, target, bpc, conn, queued, isClosed,
                       subscription, listener, crashed>>
        /\ pump[c][x] = "unregister" /\ pump' = [pump EXCEPT ![c][x] = "wsClose"]
        /\ sendClosed' = [sendClosed EXCEPT ![c] = (c \in clients) \/ @]
    BY <1>3 DEF PoolUnregister
  <2>2. sendClosed' \in [Clients -> BOOLEAN] /\ \A d \in Clients \ {c} : sendClosed'[d] = sendClosed[d]
    BY <2>1
  <2>3. pump' \in [Clients -> [Pumps -> PumpStates]]
    BY <2>1
  <2>4. WsTypeOK'
    BY <2>1, <2>2, <2>3
  <2>5. targets \subseteq clients \ {c}
    BY <2>1
  <2> QED
    BY <2>1, <2>2, <2>4, <2>5
<1>4. CASE PoolEvent
  BY <1>4 DEF PoolEvent, clientVars
<1>5. CASE PoolSend
  <2>1. target \in clients /\ ~sendClosed[target]
    BY <1>5 DEF PoolSend
  <2>2. /\ queued[target] < Capacity /\ queued' = [queued EXCEPT ![target] = @ + 1]
        /\ ppc' = "visit" /\ target' = NoClient
        /\ UNCHANGED <<clients, event, targets, bpc, conn, sendClosed, isClosed,
                       subscription, pump, listener, crashed>>
    BY <1>5, <2>1 DEF PoolSend
  <2>3. queued' \in [Clients -> 0..Capacity]
    BY <2>1, <2>2
  <2> QED
    BY <2>2, <2>3
<1>6. CASE PoolDone
  BY <1>6 DEF PoolDone, clientVars
<1> QED
  BY <1>1, <1>2, <1>3, <1>4, <1>5, <1>6 DEF PoolStep

\* The steps of the pumps and of the listener of a client.
LEMMA PoolInvClient ==
  ASSUME PoolInv, NEW c \in Clients,
         \/ ReadStep(c) \/ WriteStep(c) \/ ListenerStep(c) \/ UserStep(c)
         \/ \E x \in Pumps : CloseStep(c, x)
  PROVE  PoolInv'
<1> USE WsAssumption
    DEF PoolInv, WsTypeOK, Unstarted, Events, Pumps, PumpStates, Goto, poolVars
<1>1. CASE ReadFails(c)
  BY <1>1 DEF ReadFails
<1>2. CASE ReplyCheck(c)
  BY <1>2 DEF ReplyCheck
<1>3. CASE ReplySend(c)
  <2>1. CASE sendClosed[c]
    BY <1>3, <2>1, PoolInvCrash DEF ReplySend
  <2>2. CASE ~sendClosed[c]
    <3>1. /\ queued[c] < Capacity /\ queued' = [queued EXCEPT ![c] = @ + 1]
          /\ pump[c]["read"] = "replySend" /\ pump' = [pump EXCEPT ![c]["read"] = "next"]
          /\ UNCHANGED <<poolVars, bpc, conn, sendClosed, isClosed, subscription,
                         listener, crashed>>
      BY <1>3, <2>2 DEF ReplySend
    <3>2. queued' \in [Clients -> 0..Capacity]
      BY <3>1
    <3> QED
      BY <3>1, <3>2
  <2> QED
    BY <2>1, <2>2
<1>4. CASE WriteNext(c)
  <2>1. queued' \in [Clients -> 0..Capacity]
    BY <1>4 DEF WriteNext
  <2>2. pump' \in [Clients -> [Pumps -> PumpStates]]
    BY <1>4 DEF WriteNext
  <2>3. /\ \A d \in Clients : pump'[d]["read"] = pump[d]["read"]
        /\ UNCHANGED <<clients, ppc, event, targets, target, bpc, conn, sendClosed,
                       isClosed, subscription, listener, crashed>>
    BY <1>4 DEF WriteNext
  <2> QED
    BY <2>1, <2>2, <2>3
<1>5. CASE WriteMessage(c)
  <2>1. pump' \in [Clients -> [Pumps -> PumpStates]]
    BY <1>5 DEF WriteMessage
  <2>2. /\ \A d \in Clients : pump'[d]["read"] = pump[d]["read"]
        /\ UNCHANGED <<clients, ppc, event, targets, target, bpc, conn, queued, sendClosed,
                       isClosed, subscription, listener, crashed>>
    BY <1>5 DEF WriteMessage
  <2> QED
    BY <2>1, <2>2
<1>6. CASE ListenerTick(c)
  BY <1>6 DEF ListenerTick
<1>7. CASE ListenerCheck(c)
  BY <1>7 DEF ListenerCheck
<1>8. CASE ListenerSend(c)
  BY <1>8, PoolInvCrash DEF ListenerSend
<1>9. CASE Connect(c)
  BY <1>9 DEF Connect
<1>10. CASE Disconnect(c)
  BY <1>10 DEF Disconnect
<1>11. CASE Collect(c)
  BY <1>11 DEF Collect, Ended
<1>12. CASE ReadRequest(c)
  BY <1>12 DEF ReadRequest
<1>13. CASE ReadSubscribe(c)
  BY <1>13 DEF ReadSubscribe
<1>14. CASE ReadListen(c)
  BY <1>14 DEF ReadListen
<1>15. CASE ListenerStop(c)
  BY <1>15 DEF ListenerStop
<1>16. ASSUME NEW x \in Pumps, CloseCheck(c, x) PROVE PoolInv'
  BY <1>16 DEF CloseCheck
<1>17. ASSUME NEW x \in Pumps, CloseSet(c, x) PROVE PoolInv'
  BY <1>17 DEF CloseSet
<1>18. ASSUME NEW x \in Pumps, WsClose(c, x) PROVE PoolInv'
  BY <1>18 DEF WsClose
<1> QED
  BY <1>1, <1>2, <1>3, <1>4, <1>5, <1>6, <1>7, <1>8, <1>9, <1>10, <1>11, <1>12,
     <1>13, <1>14, <1>15, <1>16, <1>17, <1>18
  DEF ReadStep, WriteStep, ListenerStep, UserStep, CloseStep

\* Every step of the server and of its users keeps the invariant.
LEMMA PoolInvNext == PoolInv /\ [WsNext]_wsVars => PoolInv'
<1> SUFFICES ASSUME PoolInv, [WsNext]_wsVars PROVE PoolInv'
  OBVIOUS
<1>1. CASE PoolStep
  BY <1>1, PoolInvPool
<1>2. CASE Message
  BY <1>2 DEF Message, PoolInv, WsTypeOK, Unstarted, Events, poolVars, clientVars
<1>3. CASE \E c \in Clients : ReadStep(c) \/ WriteStep(c) \/ ListenerStep(c) \/ UserStep(c)
  BY <1>3, PoolInvClient
<1>4. CASE \E c \in Clients, x \in Pumps : CloseStep(c, x)
  BY <1>4, PoolInvClient
<1>5. CASE UNCHANGED wsVars
  BY <1>5 DEF wsVars, poolVars, clientVars, PoolInv, WsTypeOK, Unstarted
<1> QED
  BY <1>1, <1>2, <1>3, <1>4, <1>5 DEF WsNext

\* The invariant holds in every reachable state of pool, pumps and listeners.
THEOREM WsInvariant == WsSpec => []PoolInv
BY PoolInvInit, PoolInvNext, PTL DEF WsSpec

\* Pool, clients and channels keep their types; a send channel never holds
\* more than Capacity messages.
THEOREM WsTypeCorrect == WsSpec => []WsTypeOK
<1>1. PoolInv => WsTypeOK
  BY DEF PoolInv
<1> QED
  BY <1>1, WsInvariant, PTL

\* The pool's goroutine never panics: it neither sends on nor closes again a
\* channel it has closed, although both pumps may unregister a client.
THEOREM WsPoolSafe == WsSpec => []PoolNeverPanics
<1>1. PoolInv => PoolNeverPanics
  BY DEF PoolInv, PoolNeverPanics
<1> QED
  BY <1>1, WsInvariant, PTL

-----------------------------------------------------------------------------
(***************************************************************************)
(* OpenIsUsable is not inductive either: a pump that is on its way to      *)
(* close the client will set isClosed, or have the pool close the channel, *)
(* only later.  It got there because a read or a write failed, or because  *)
(* it found the channel closed.                                            *)
(***************************************************************************)
Closing == {"bye", "close", "closeSet", "unregister", "wsClose", "done"}

UsableInv ==
  \A c \in Clients :
    conn[c] # "down" =>
      /\ ~isClosed[c] /\ ~sendClosed[c]
      /\ \A x \in Pumps : pump[c][x] \notin Closing

\* The steps of the pool's goroutine.
LEMMA UsablePool == ASSUME PoolInv, UsableInv, PoolStep PROVE UsableInv'
<1> USE DEF PoolInv, WsTypeOK, UsableInv, Closing, Pumps, Goto
<1>1. ASSUME NEW c \in Clients, PoolRegister(c) PROVE UsableInv'
  BY <1>1 DEF PoolRegister
<1>2. ASSUME NEW c \in Clients, PoolVisit(c) PROVE UsableInv'
  BY <1>2 DEF PoolVisit, clientVars
<1>3. ASSUME NEW c \in Clients, NEW x \in Pumps, PoolUnregister(c, x) PROVE UsableInv'
  <2>1. conn[c] = "down" /\ UNCHANGED <<conn, isClosed>>
    BY <1>3 DEF PoolUnregister
  <2>2. \A d \in Clients \ {c} : sendClosed'[d] = sendClosed[d] /\ pump'[d] = pump[d]
    BY <1>3 DEF PoolUnregister
  <2> QED
    BY <2>1, <2>2
<1>4. CASE PoolEvent \/ PoolDone
  BY <1>4 DEF PoolEvent, PoolDone, clientVars
<1>5. CASE PoolSend
  BY <1>5 DEF PoolSend, Crash
<1> QED
  BY <1>1, <1>2, <1>3, <1>4, <1>5 DEF PoolStep

\* The steps of a client: where a pump goes, and what it closes.
LEMMA UsableClient ==
  ASSUME PoolInv, UsableInv, NEW c \in Clients,
         \/ ReadStep(c) \/ WriteStep(c) \/ ListenerStep(c) \/ UserStep(c)
         \/ \E x \in Pumps : CloseStep(c, x)
  PROVE  UsableInv'
<1> USE DEF PoolInv, WsTypeOK, UsableInv, Closing, Pumps, Goto
<1>1. CASE ReadFails(c) \/ ReplyCheck(c) \/ ReadRequest(c)
  BY <1>1 DEF ReadFails, ReplyCheck, ReadRequest
<1>2. CASE ReplySend(c) \/ ListenerSend(c)
  BY <1>2 DEF ReplySend, ListenerSend, Crash
<1>3. CASE WriteNext(c)
  BY <1>3 DEF WriteNext
<1>4. CASE WriteMessage(c)
  <2>1. UNCHANGED <<conn, isClosed, sendClosed>>
    BY <1>4 DEF WriteMessage
  <2>2. \A d \in Clients \ {c} : pump'[d] = pump[d]
    BY <1>4 DEF WriteMessage
  <2>3. pump'[c]["read"] = pump[c]["read"]
    BY <1>4 DEF WriteMessage
  <2>4. conn[c] = "down" \/ pump'[c]["write"] = "next"
    BY <1>4 DEF WriteMessage
  <2> QED
    BY <2>1, <2>2, <2>3, <2>4
<1>5. CASE ListenerTick(c) \/ ListenerCheck(c) \/ ListenerStop(c) \/ ReadListen(c) \/ ReadSubscribe(c)
  BY <1>5 DEF ListenerTick, ListenerCheck, ListenerStop, ReadListen, ReadSubscribe
<1>6. CASE Connect(c) \/ Disconnect(c)
  BY <1>6 DEF Connect, Disconnect
<1>7. CASE Collect(c)
  BY <1>7 DEF Collect
<1>8. ASSUME NEW x \in Pumps, CloseStep(c, x) PROVE UsableInv'
  <2>1. conn[c] = "down" /\ conn'[c] = "down"
    BY <1>8 DEF CloseStep, CloseCheck, CloseSet, WsClose
  <2>2. \A d \in Clients \ {c} :
          /\ conn'[d] = conn[d] /\ isClosed'[d] = isClosed[d]
          /\ sendClosed'[d] = sendClosed[d] /\ pump'[d] = pump[d]
    BY <1>8 DEF CloseStep, CloseCheck, CloseSet, WsClose
  <2> QED
    BY <2>1, <2>2
<1> QED
  BY <1>1, <1>2, <1>3, <1>4, <1>5, <1>6, <1>7, <1>8
  DEF ReadStep, WriteStep, ListenerStep, UserStep

LEMMA UsableNext == PoolInv /\ UsableInv /\ [WsNext]_wsVars => UsableInv'
<1> SUFFICES ASSUME PoolInv, UsableInv, [WsNext]_wsVars PROVE UsableInv'
  OBVIOUS
<1>1. CASE PoolStep
  BY <1>1, UsablePool
<1>2. CASE Message \/ UNCHANGED wsVars
  BY <1>2 DEF Message, UsableInv, clientVars, wsVars
<1>3. CASE \E c \in Clients : ReadStep(c) \/ WriteStep(c) \/ ListenerStep(c) \/ UserStep(c)
  BY <1>3, UsableClient
<1>4. CASE \E c \in Clients, x \in Pumps : CloseStep(c, x)
  BY <1>4, UsableClient
<1> QED
  BY <1>1, <1>2, <1>3, <1>4 DEF WsNext

\* Nobody closes a client whose connection works: what is sent to it never
\* meets a closed channel.
THEOREM WsOpenIsUsable == WsSpec => []OpenIsUsable
<1>1. WsInit => UsableInv
  BY DEF WsInit, UsableInv, Closing
<1>2. UsableInv => OpenIsUsable
  BY DEF UsableInv, OpenIsUsable
<1> QED
  BY <1>1, <1>2, UsableNext, WsInvariant, PTL DEF WsSpec

-----------------------------------------------------------------------------
(***************************************************************************)
(* RegisteredCanLeave needs more: a client the pool knows has no pump past *)
(* Unregister yet (the pool would have forgotten it), and a client that    *)
(* waits to be registered has neither been closed nor got a write pump.    *)
(***************************************************************************)
LeaveInv ==
  \A c \in Clients :
    /\ Unstarted(c) => ~isClosed[c] /\ pump[c]["write"] = "none"
    /\ c \in clients =>
         /\ \A x \in Pumps : pump[c][x] # "wsClose"
         /\ IF isClosed[c] THEN \E x \in Pumps : pump[c][x] = "unregister"
                           ELSE \A x \in Pumps : pump[c][x] # "done"

\* Nothing the invariant speaks of changes.
LEMMA LeaveSame ==
  ASSUME LeaveInv, UNCHANGED <<clients, isClosed, pump>> PROVE LeaveInv'
BY DEF LeaveInv, Unstarted

\* A process that starts has no client.
LEMMA LeaveFresh ==
  ASSUME clients = {}, isClosed = [c \in Clients |-> FALSE],
         pump = [c \in Clients |-> [x \in Pumps |-> "none"]]
  PROVE  LeaveInv
BY DEF LeaveInv, Unstarted, Pumps

LEMMA LeaveCrash == ASSUME Crash PROVE LeaveInv'
<1>1. /\ clients' = {} /\ isClosed' = [c \in Clients |-> FALSE]
      /\ pump' = [c \in Clients |-> [x \in Pumps |-> "none"]]
  BY DEF Crash
<1> QED
  BY <1>1 DEF LeaveInv, Unstarted, Pumps

\* A pump of c moves, elsewhere than to where it matters.
LEMMA LeaveMove ==
  ASSUME WsTypeOK, LeaveInv, NEW c \in Clients, NEW x \in Pumps, NEW from, NEW to,
         Goto(c, x, from, to),
         from \notin {"none", "register", "unregister"},
         to \in PumpStates \ {"none", "register", "wsClose"},
         to = "done" => isClosed[c],
         UNCHANGED <<clients, isClosed>>
  PROVE  LeaveInv'
<1>1. /\ pump[c][x] = from /\ pump'[c][x] = to
      /\ \A y \in Pumps \ {x} : pump'[c][y] = pump[c][y]
      /\ \A d \in Clients \ {c} : pump'[d] = pump[d]
  BY DEF WsTypeOK, Goto
<1> SUFFICES ASSUME NEW d \in Clients
             PROVE  /\ Unstarted(d)' => ~isClosed[d] /\ pump'[d]["write"] = "none"
                    /\ d \in clients =>
                         /\ \A y \in Pumps : pump'[d][y] # "wsClose"
                         /\ IF isClosed[d] THEN \E y \in Pumps : pump'[d][y] = "unregister"
                                           ELSE \A y \in Pumps : pump'[d][y] # "done"
  BY DEF LeaveInv
<1>2. CASE d # c
  BY <1>1, <1>2 DEF LeaveInv, Unstarted
<1>3. CASE d = c
  <2>1. Unstarted(c)' => x = "write" /\ Unstarted(c)
    BY <1>1 DEF Unstarted, Pumps
  <2>2. ~Unstarted(c)'
    BY <1>1, <2>1 DEF LeaveInv
  <2>3. ASSUME c \in clients, NEW y \in Pumps
        PROVE  pump'[c][y] # "wsClose" /\ (~isClosed[c] => pump'[c][y] # "done")
    BY <1>1, <2>3 DEF LeaveInv
  <2>4. ASSUME c \in clients, isClosed[c]
        PROVE  \E y \in Pumps : pump'[c][y] = "unregister"
    <3>1. PICK y \in Pumps : pump[c][y] = "unregister"
      BY <2>4 DEF LeaveInv
    <3> QED
      BY <1>1, <3>1
  <2> QED
    BY <1>3, <2>2, <2>3, <2>4
<1> QED
  BY <1>2, <1>3

\* The pool registers a client that is open and forgets the one that leaves.
LEMMA LeavePool == ASSUME PoolInv, LeaveInv, PoolStep PROVE LeaveInv'
<1>1. ASSUME NEW c \in Clients, PoolRegister(c) PROVE LeaveInv'
  <2>1. /\ Unstarted(c) /\ clients' = clients \cup {c} /\ isClosed' = isClosed
        /\ pump' = [pump EXCEPT ![c] = [x \in Pumps |-> "next"]]
    BY <1>1 DEF PoolRegister, Unstarted
  <2>2. ~isClosed[c]
    BY <2>1 DEF LeaveInv
  <2>3. \A x \in Pumps : pump'[c][x] = "next"
    BY <2>1 DEF PoolInv, WsTypeOK
  <2>4. \A d \in Clients \ {c} : pump'[d] = pump[d]
    BY <2>1
  <2> QED
    BY <2>1, <2>2, <2>3, <2>4 DEF LeaveInv, Unstarted, Pumps
<1>2. ASSUME NEW c \in Clients, NEW x \in Pumps, PoolUnregister(c, x) PROVE LeaveInv'
  <2>1. /\ pump[c][x] = "unregister" /\ pump' = [pump EXCEPT ![c][x] = "wsClose"]
        /\ clients' = clients \ {c} /\ isClosed' = isClosed
    BY <1>2 DEF PoolUnregister, Goto
  <2>2. pump'[c][x] = "wsClose" /\ \A y \in Pumps \ {x} : pump'[c][y] = pump[c][y]
    BY <2>1 DEF PoolInv, WsTypeOK
  <2>3. \A d \in Clients \ {c} : pump'[d] = pump[d]
    BY <2>1
  <2>4. ~Unstarted(c)'
    <3>1. Unstarted(c)' => Unstarted(c) /\ x = "write"
      BY <2>1, <2>2 DEF Unstarted, Pumps
    <3> QED
      BY <2>1, <3>1 DEF LeaveInv
  <2> QED
    BY <2>1, <2>3, <2>4 DEF LeaveInv, Unstarted
<1>3. CASE PoolSend
  BY <1>3, LeaveCrash, LeaveSame DEF PoolSend
<1>4. CASE PoolEvent \/ PoolDone \/ \E c \in Clients : PoolVisit(c)
  BY <1>4, LeaveSame DEF PoolEvent, PoolDone, PoolVisit, clientVars
<1> QED
  BY <1>1, <1>2, <1>3, <1>4 DEF PoolStep

\* A pump that runs close reaches Unregister, or leaves it to the other one
\* when that is there already.
LEMMA LeaveClose ==
  ASSUME PoolInv, LeaveInv, NEW c \in Clients, NEW x \in Pumps, CloseStep(c, x)
  PROVE  LeaveInv'
<1>1. CASE CloseCheck(c, x)
  <2>1. Goto(c, x, "close", IF isClosed[c] THEN "done" ELSE "closeSet")
    BY <1>1 DEF CloseCheck
  <2>2. UNCHANGED <<clients, isClosed>>
    BY <1>1 DEF CloseCheck, poolVars
  <2>3. CASE isClosed[c]
    BY <2>1, <2>2, <2>3, LeaveMove DEF PoolInv, PumpStates
  <2>4. CASE ~isClosed[c]
    BY <2>1, <2>2, <2>4, LeaveMove DEF PoolInv, PumpStates
  <2> QED
    BY <2>3, <2>4
<1>2. CASE CloseSet(c, x)
  <2>1. /\ pump[c][x] = "closeSet" /\ pump' = [pump EXCEPT ![c][x] = "unregister"]
        /\ isClosed' = [isClosed EXCEPT ![c] = TRUE] /\ clients' = clients
    BY <1>2 DEF CloseSet, Goto, poolVars
  <2>2. /\ pump'[c][x] = "unregister" /\ isClosed'[c]
        /\ \A y \in Pumps \ {x} : pump'[c][y] = pump[c][y]
    BY <2>1 DEF PoolInv, WsTypeOK
  <2>3. \A d \in Clients \ {c} : pump'[d] = pump[d] /\ isClosed'[d] = isClosed[d]
    BY <2>1
  <2>4. ~Unstarted(c)'
    <3>1. Unstarted(c)' => Unstarted(c) /\ x = "write"
      BY <2>1, <2>2 DEF Unstarted, Pumps
    <3> QED
      BY <2>1, <3>1 DEF LeaveInv
  <2>5. c \in clients => \A y \in Pumps : pump'[c][y] # "wsClose"
    BY <2>2 DEF LeaveInv
  <2> QED
    BY <2>1, <2>2, <2>3, <2>4, <2>5 DEF LeaveInv, Unstarted
<1>3. CASE WsClose(c, x)
  <2>1. /\ pump[c][x] = "wsClose" /\ pump' = [pump EXCEPT ![c][x] = "done"]
        /\ isClosed' = isClosed /\ clients' = clients
    BY <1>3 DEF WsClose, Goto, poolVars
  <2>2. pump'[c][x] = "done" /\ \A y \in Pumps \ {x} : pump'[c][y] = pump[c][y]
    BY <2>1 DEF PoolInv, WsTypeOK
  <2>3. \A d \in Clients \ {c} : pump'[d] = pump[d]
    BY <2>1
  <2>4. c \notin clients
    BY <2>1 DEF LeaveInv
  <2>5. ~Unstarted(c)'
    <3>1. Unstarted(c)' => Unstarted(c) /\ x = "write"
      BY <2>1, <2>2 DEF Unstarted, Pumps
    <3> QED
      BY <2>1, <3>1 DEF LeaveInv
  <2> QED
    BY <2>1, <2>3, <2>4, <2>5 DEF LeaveInv, Unstarted
<1> QED
  BY <1>1, <1>2, <1>3 DEF CloseStep

\* The other steps of a client leave the map and isClosed alone.
LEMMA LeaveClient ==
  ASSUME PoolInv, LeaveInv, NEW c \in Clients,
         ReadStep(c) \/ WriteStep(c) \/ ListenerStep(c) \/ UserStep(c)
  PROVE  LeaveInv'
<1> USE DEF Pumps, PumpStates
<1>1. CASE ReadFails(c) \/ ReadRequest(c)
  BY <1>1, LeaveMove DEF PoolInv, ReadFails, ReadRequest, poolVars
<1>2. CASE ReplyCheck(c)
  <2>1. Goto(c, "read", "reply", IF isClosed[c] THEN "next" ELSE "replySend")
    BY <1>2 DEF ReplyCheck
  <2>2. UNCHANGED <<clients, isClosed>>
    BY <1>2 DEF ReplyCheck, poolVars
  <2>3. CASE isClosed[c]
    BY <2>1, <2>2, <2>3, LeaveMove DEF PoolInv
  <2>4. CASE ~isClosed[c]
    BY <2>1, <2>2, <2>4, LeaveMove DEF PoolInv
  <2> QED
    BY <2>3, <2>4
<1>3. CASE ReplySend(c)
  BY <1>3, LeaveCrash, LeaveMove DEF PoolInv, ReplySend, poolVars
<1>4. CASE WriteNext(c)
  BY <1>4, LeaveMove DEF PoolInv, WriteNext, poolVars
<1>5. CASE WriteMessage(c)
  <2>1. UNCHANGED <<clients, isClosed>>
    BY <1>5 DEF WriteMessage, poolVars
  <2>2. \/ Goto(c, "write", "write", "next")
        \/ Goto(c, "write", "write", "close")
        \/ Goto(c, "write", "bye", "close")
    BY <1>5 DEF WriteMessage
  <2> QED
    BY <2>1, <2>2, LeaveMove DEF PoolInv
<1>6. CASE ListenerSend(c)
  BY <1>6, LeaveCrash, LeaveSame DEF ListenerSend, poolVars
<1>7. CASE \/ ListenerTick(c) \/ ListenerCheck(c) \/ ListenerStop(c)
           \/ ReadListen(c) \/ ReadSubscribe(c) \/ Disconnect(c)
  BY <1>7, LeaveSame
  DEF ListenerTick, ListenerCheck, ListenerStop, ReadListen, ReadSubscribe, Disconnect,
      poolVars
<1>8. CASE Connect(c)
  <2>1. /\ pump[c]["read"] = "none" /\ pump' = [pump EXCEPT ![c]["read"] = "register"]
        /\ UNCHANGED <<clients, isClosed>>
    BY <1>8 DEF Connect, Goto, poolVars
  <2>2. pump'[c]["write"] = pump[c]["write"] /\ \A d \in Clients \ {c} : pump'[d] = pump[d]
    BY <2>1 DEF PoolInv, WsTypeOK
  <2>3. Unstarted(c) /\ c \notin clients
    BY <2>1 DEF PoolInv, Unstarted
  <2> QED
    BY <2>1, <2>2, <2>3 DEF LeaveInv, Unstarted
<1>9. CASE Collect(c)
  <2>1. /\ c \notin clients /\ clients' = clients
        /\ isClosed' = [isClosed EXCEPT ![c] = FALSE]
        /\ pump' = [pump EXCEPT ![c] = [x \in Pumps |-> "none"]]
    BY <1>9 DEF Collect, Ended, poolVars
  <2>2. ~isClosed'[c] /\ pump'[c]["write"] = "none"
    BY <2>1 DEF PoolInv, WsTypeOK
  <2>3. \A d \in Clients \ {c} : pump'[d] = pump[d] /\ isClosed'[d] = isClosed[d]
    BY <2>1
  <2> QED
    BY <2>1, <2>2, <2>3 DEF LeaveInv, Unstarted
<1> QED
  BY <1>1, <1>2, <1>3, <1>4, <1>5, <1>6, <1>7, <1>8, <1>9
  DEF ReadStep, WriteStep, ListenerStep, UserStep

LEMMA LeaveNext == PoolInv /\ LeaveInv /\ [WsNext]_wsVars => LeaveInv'
<1> SUFFICES ASSUME PoolInv, LeaveInv, [WsNext]_wsVars PROVE LeaveInv'
  OBVIOUS
<1>1. CASE PoolStep
  BY <1>1, LeavePool
<1>2. CASE Message \/ UNCHANGED wsVars
  BY <1>2, LeaveSame DEF Message, poolVars, clientVars, wsVars
<1>3. CASE \E c \in Clients : ReadStep(c) \/ WriteStep(c) \/ ListenerStep(c) \/ UserStep(c)
  BY <1>3, LeaveClient
<1>4. CASE \E c \in Clients, x \in Pumps : CloseStep(c, x)
  BY <1>4, LeaveClose
<1> QED
  BY <1>1, <1>2, <1>3, <1>4 DEF WsNext

LEMMA LeaveInvariant == WsSpec => []LeaveInv
<1>1. WsInit => LeaveInv
  BY LeaveFresh DEF WsInit
<1> QED
  BY <1>1, LeaveNext, WsInvariant, PTL DEF WsSpec

\* Two pumps run close and one of them may skip it: whichever interleaving of
\* the unlocked tests of isClosed happens, one still calls Unregister as long
\* as the client is in the pool's map.
THEOREM WsRegisteredCanLeave == WsSpec => []RegisteredCanLeave
<1>1. PoolInv /\ LeaveInv => RegisteredCanLeave
  BY DEF PoolInv, WsTypeOK, LeaveInv, RegisteredCanLeave
<1> QED
  BY <1>1, LeaveInvariant, WsInvariant, PTL

-----------------------------------------------------------------------------
(***************************************************************************)
(* SendersAreServed needs that whoever sends works for a client that has   *)
(* been registered, that such a client's channel is closed once the pool   *)
(* has forgotten it, and that its write pump has started.                  *)
(***************************************************************************)
SendInv ==
  \A c \in Clients :
    /\ c \in clients => pump[c]["write"] \notin {"none", "register", "reply", "replySend"}
    /\ c \notin clients => sendClosed[c] \/ (Unstarted(c) /\ listener[c] = "none")
    /\ listener[c] # "none" => ~Unstarted(c)
    /\ pump[c]["write"] = "bye" => sendClosed[c]

\* What a step of the pool or of one client does to the other clients.
LEMMA SendOthers ==
  ASSUME SendInv, NEW c \in Clients,
         \A d \in Clients \ {c} :
           /\ d \in clients' <=> d \in clients
           /\ pump'[d] = pump[d] /\ sendClosed'[d] = sendClosed[d]
           /\ listener'[d] = listener[d],
         c \in clients' => pump'[c]["write"] \notin {"none", "register", "reply", "replySend"},
         c \notin clients' => sendClosed'[c] \/ (Unstarted(c)' /\ listener'[c] = "none"),
         listener'[c] # "none" => ~Unstarted(c)',
         pump'[c]["write"] = "bye" => sendClosed'[c]
  PROVE  SendInv'
BY DEF SendInv, Unstarted

LEMMA SendSame ==
  ASSUME SendInv, UNCHANGED <<clients, pump, sendClosed, listener>> PROVE SendInv'
BY DEF SendInv, Unstarted

\* A process that starts.
LEMMA SendCrash == ASSUME Crash PROVE SendInv'
BY DEF Crash, SendInv, Unstarted, Pumps

\* The pool's steps: a client that is forgotten has its channel closed.
LEMMA SendPool == ASSUME PoolInv, LeaveInv, SendInv, PoolStep PROVE SendInv'
<1>1. ASSUME NEW c \in Clients, PoolRegister(c) PROVE SendInv'
  <2>1. /\ pump' = [pump EXCEPT ![c] = [x \in Pumps |-> "next"]]
        /\ clients' = clients \cup {c} /\ UNCHANGED <<sendClosed, listener>>
    BY <1>1 DEF PoolRegister
  <2>2. \A x \in Pumps : pump'[c][x] = "next"
    BY <2>1 DEF PoolInv, WsTypeOK
  <2> QED
    BY <2>1, <2>2, SendOthers DEF Unstarted, Pumps
<1>2. ASSUME NEW c \in Clients, NEW x \in Pumps, PoolUnregister(c, x) PROVE SendInv'
  <2>1. /\ pump[c][x] = "unregister" /\ pump' = [pump EXCEPT ![c][x] = "wsClose"]
        /\ clients' = clients \ {c} /\ listener' = listener
        /\ sendClosed' = [sendClosed EXCEPT ![c] = (c \in clients) \/ @]
    BY <1>2 DEF PoolUnregister, Goto
  <2>2. pump'[c][x] = "wsClose" /\ \A y \in Pumps \ {x} : pump'[c][y] = pump[c][y]
    BY <2>1 DEF PoolInv, WsTypeOK
  <2>3. \A d \in Clients \ {c} : pump'[d] = pump[d] /\ sendClosed'[d] = sendClosed[d]
    BY <2>1
  <2>4. ~Unstarted(c) /\ ~Unstarted(c)'
    BY <2>1, <2>2 DEF LeaveInv, Unstarted, Pumps
  <2>5. sendClosed'[c]
    <3>1. c \in clients \/ sendClosed[c]
      BY <2>4 DEF SendInv
    <3> QED
      BY <2>1, <3>1 DEF PoolInv, WsTypeOK
  <2> QED
    BY <2>1, <2>3, <2>4, <2>5, SendOthers
<1>3. CASE PoolSend
  BY <1>3, SendCrash, SendSame DEF PoolSend
<1>4. CASE PoolEvent \/ PoolDone \/ \E c \in Clients : PoolVisit(c)
  BY <1>4, SendSame DEF PoolEvent, PoolDone, PoolVisit, clientVars
<1> QED
  BY <1>1, <1>2, <1>3, <1>4 DEF PoolStep

\* A pump of a client that has been started moves.
LEMMA SendMove ==
  ASSUME WsTypeOK, LeaveInv, SendInv, NEW c \in Clients, NEW x \in Pumps, NEW from, NEW to,
         Goto(c, x, from, to), from \notin {"none", "register"},
         to \notin {"none", "register"}, x = "write" => to \notin {"reply", "replySend"},
         x = "write" /\ to = "bye" => sendClosed[c],
         UNCHANGED <<clients, sendClosed, listener>>
  PROVE  SendInv'
<1>1. /\ pump[c][x] = from /\ pump'[c][x] = to
      /\ \A y \in Pumps \ {x} : pump'[c][y] = pump[c][y]
      /\ \A d \in Clients \ {c} : pump'[d] = pump[d]
  BY DEF WsTypeOK, Goto
<1>2. ~Unstarted(c) /\ ~Unstarted(c)'
  BY <1>1 DEF LeaveInv, Unstarted, Pumps
<1>3. pump'[c]["write"] = pump[c]["write"] \/ (x = "write" /\ pump'[c]["write"] = to)
  BY <1>1 DEF Pumps
<1>4. c \in clients => pump'[c]["write"] \notin {"none", "register", "reply", "replySend"}
  BY <1>3 DEF SendInv
<1>5. pump'[c]["write"] = "bye" => sendClosed[c]
  BY <1>3 DEF SendInv
<1>6. c \notin clients => sendClosed[c]
  BY <1>2 DEF SendInv
<1> QED
  BY <1>1, <1>2, <1>4, <1>5, <1>6, SendOthers

LEMMA SendClose ==
  ASSUME PoolInv, LeaveInv, SendInv, NEW c \in Clients, NEW x \in Pumps, CloseStep(c, x)
  PROVE  SendInv'
<1>1. UNCHANGED <<clients, sendClosed, listener>>
  BY DEF CloseStep, CloseCheck, CloseSet, WsClose, poolVars
<1>2. \/ Goto(c, x, "close", "done") \/ Goto(c, x, "close", "closeSet")
      \/ Goto(c, x, "closeSet", "unregister") \/ Goto(c, x, "wsClose", "done")
  BY DEF CloseStep, CloseCheck, CloseSet, WsClose
<1> QED
  BY <1>1, <1>2, SendMove DEF PoolInv

\* The other steps of a client.
LEMMA SendClient ==
  ASSUME PoolInv, LeaveInv, SendInv, NEW c \in Clients,
         ReadStep(c) \/ WriteStep(c) \/ ListenerStep(c) \/ UserStep(c)
  PROVE  SendInv'
<1>1. CASE ReadFails(c) \/ ReadRequest(c) \/ ReplyCheck(c)
  <2>1. UNCHANGED <<clients, sendClosed, listener>>
    BY <1>1 DEF ReadFails, ReadRequest, ReplyCheck, poolVars
  <2>2. \/ Goto(c, "read", "next", "close") \/ Goto(c, "read", "next", "reply")
        \/ Goto(c, "read", "reply", "next") \/ Goto(c, "read", "reply", "replySend")
    BY <1>1 DEF ReadFails, ReadRequest, ReplyCheck
  <2> QED
    BY <2>1, <2>2, SendMove DEF PoolInv, Pumps
<1>2. CASE ReplySend(c)
  BY <1>2, SendCrash, SendMove DEF PoolInv, ReplySend, poolVars, Pumps
<1>3. CASE WriteStep(c)
  <2>1. UNCHANGED <<clients, sendClosed, listener>>
    BY <1>3 DEF WriteStep, WriteNext, WriteMessage, poolVars
  <2>2. \/ Goto(c, "write", "next", "write")
        \/ Goto(c, "write", "next", "bye") /\ sendClosed[c]
        \/ Goto(c, "write", "write", "next") \/ Goto(c, "write", "write", "close")
        \/ Goto(c, "write", "bye", "close")
    BY <1>3 DEF WriteStep, WriteNext, WriteMessage
  <2> QED
    BY <2>1, <2>2, SendMove DEF PoolInv, Pumps
<1>4. CASE (ListenerStep(c) /\ ~Crash) \/ ListenerStop(c)
  <2>1. /\ UNCHANGED <<clients, pump, sendClosed>> /\ listener[c] # "none"
        /\ \A d \in Clients \ {c} : listener'[d] = listener[d]
    <3>1. ASSUME NEW to, listener' = [listener EXCEPT ![c] = to]
          PROVE  \A d \in Clients \ {c} : listener'[d] = listener[d]
      BY <3>1
    <3>2. CASE ListenerTick(c)
      BY <3>1, <3>2 DEF ListenerTick, poolVars
    <3>3. CASE ListenerCheck(c)
      BY <3>1, <3>3 DEF ListenerCheck, poolVars
    <3>4. CASE ListenerStop(c)
      BY <3>1, <3>4 DEF ListenerStop, poolVars
    <3>5. CASE ListenerSend(c) /\ ~Crash
      <4>1. /\ UNCHANGED <<poolVars, pump, sendClosed>> /\ listener[c] = "send"
            /\ \E to \in {"tick", "none"} : listener' = [listener EXCEPT ![c] = to]
        BY <3>5 DEF ListenerSend
      <4> QED
        BY <3>1, <4>1 DEF poolVars
    <3> QED
      BY <1>4, <3>2, <3>3, <3>4, <3>5 DEF ListenerStep
  <2>2. ~Unstarted(c) /\ Unstarted(c)' = Unstarted(c)
    BY <2>1 DEF SendInv, Unstarted
  <2>3. /\ c \in clients => pump[c]["write"] \notin {"none", "register", "reply", "replySend"}
        /\ c \notin clients => sendClosed[c]
        /\ pump[c]["write"] = "bye" => sendClosed[c]
    BY <2>2 DEF SendInv
  <2> QED
    BY <2>1, <2>2, <2>3, SendOthers
<1>5. CASE ListenerStep(c) /\ Crash
  BY <1>5, SendCrash
<1>6. CASE ReadListen(c)
  <2>1. /\ UNCHANGED <<clients, pump, sendClosed>> /\ pump[c]["read"] = "next"
        /\ listener' = [listener EXCEPT ![c] = "tick"]
    BY <1>6 DEF ReadListen, poolVars
  <2>2. ~Unstarted(c) /\ ~Unstarted(c)'
    BY <2>1 DEF Unstarted
  <2>3. /\ c \in clients => pump[c]["write"] \notin {"none", "register", "reply", "replySend"}
        /\ c \notin clients => sendClosed[c]
        /\ pump[c]["write"] = "bye" => sendClosed[c]
    BY <2>2 DEF SendInv
  <2>4. \A d \in Clients \ {c} : listener'[d] = listener[d]
    BY <2>1
  <2> QED
    BY <2>1, <2>2, <2>3, <2>4, SendOthers
<1>7. CASE ReadSubscribe(c) \/ Disconnect(c)
  BY <1>7, SendSame DEF ReadSubscribe, Disconnect, poolVars
<1>8. CASE Connect(c)
  <2>1. /\ pump[c]["read"] = "none" /\ pump' = [pump EXCEPT ![c]["read"] = "register"]
        /\ UNCHANGED <<clients, sendClosed, listener>>
    BY <1>8 DEF Connect, Goto, poolVars
  <2>2. /\ pump'[c]["read"] = "register" /\ pump'[c]["write"] = pump[c]["write"]
        /\ \A d \in Clients \ {c} : pump'[d] = pump[d]
    BY <2>1 DEF PoolInv, WsTypeOK, Pumps
  <2>3. Unstarted(c) /\ Unstarted(c)' /\ c \notin clients
    BY <2>1, <2>2 DEF PoolInv, Unstarted
  <2>4. listener[c] = "none" /\ (pump[c]["write"] = "bye" => sendClosed[c])
    BY <2>3 DEF SendInv
  <2> QED
    BY <2>1, <2>2, <2>3, <2>4, SendOthers
<1>9. CASE Collect(c)
  <2>1. /\ c \notin clients /\ clients' = clients /\ listener[c] = "none" /\ listener' = listener
        /\ sendClosed' = [sendClosed EXCEPT ![c] = FALSE]
        /\ pump' = [pump EXCEPT ![c] = [x \in Pumps |-> "none"]]
    BY <1>9 DEF Collect, Ended, poolVars
  <2>2. \A x \in Pumps : pump'[c][x] = "none"
    BY <2>1 DEF PoolInv, WsTypeOK
  <2>3. \A d \in Clients \ {c} : pump'[d] = pump[d] /\ sendClosed'[d] = sendClosed[d]
    BY <2>1
  <2>4. Unstarted(c)' /\ pump'[c]["write"] # "bye"
    BY <2>2 DEF Unstarted, Pumps
  <2> QED
    BY <2>1, <2>3, <2>4, SendOthers
<1> QED
  BY <1>1, <1>2, <1>3, <1>4, <1>5, <1>6, <1>7, <1>8, <1>9 DEF ReadStep, UserStep

LEMMA SendNext == PoolInv /\ LeaveInv /\ SendInv /\ [WsNext]_wsVars => SendInv'
<1> SUFFICES ASSUME PoolInv, LeaveInv, SendInv, [WsNext]_wsVars PROVE SendInv'
  OBVIOUS
<1>1. CASE PoolStep
  BY <1>1, SendPool
<1>2. CASE Message \/ UNCHANGED wsVars
  BY <1>2, SendSame DEF Message, poolVars, clientVars, wsVars
<1>3. CASE \E c \in Clients : ReadStep(c) \/ WriteStep(c) \/ ListenerStep(c) \/ UserStep(c)
  BY <1>3, SendClient
<1>4. CASE \E c \in Clients, x \in Pumps : CloseStep(c, x)
  BY <1>4, SendClose
<1> QED
  BY <1>1, <1>2, <1>3, <1>4 DEF WsNext

\* Whoever fills an open channel waits for a write pump that reads it or goes
\* to Unregister, or for a pump that waits there: no client's channel is left
\* open and unread, for any number of clients and slots.
THEOREM WsSendersAreServed == WsSpec => []SendersAreServed
<1>1. WsInit => SendInv
  <2> SUFFICES ASSUME WsInit, NEW c \in Clients
               PROVE  /\ c \notin clients /\ listener[c] = "none"
                      /\ \A x \in Pumps : pump[c][x] = "none"
    BY DEF SendInv, Unstarted, Pumps
  <2> QED
    BY DEF WsInit
<1>2. WsSpec => []SendInv
  BY <1>1, SendNext, LeaveInvariant, WsInvariant, PTL DEF WsSpec
<1>3. ASSUME PoolInv, LeaveInv, SendInv, NEW c \in Clients, Sending(c), ~sendClosed[c]
      PROVE  \/ pump[c]["write"] \in {"next", "write", "close", "closeSet"}
             \/ \E x \in Pumps : pump[c][x] = "unregister"
  <2>1. c \in clients
    BY <1>3 DEF Sending, PoolInv, SendInv, Unstarted
  <2>2. pump[c]["write"] \in PumpStates
    BY <1>3 DEF PoolInv, WsTypeOK, Pumps
  <2>3. pump[c]["write"] \in {"next", "write", "close", "closeSet", "unregister", "done"}
    BY <1>3, <2>1, <2>2 DEF SendInv, LeaveInv, PumpStates, Pumps
  <2>4. pump[c]["write"] = "done" => \E x \in Pumps : pump[c][x] = "unregister"
    BY <1>3, <2>1 DEF LeaveInv, Pumps
  <2> QED
    BY <2>3, <2>4 DEF Pumps
<1>4. PoolInv /\ LeaveInv /\ SendInv => SendersAreServed
  BY <1>3 DEF SendersAreServed
<1> QED
  BY <1>2, <1>4, LeaveInvariant, WsInvariant, PTL

-----------------------------------------------------------------------------
(***************************************************************************)
(* ClientEnds and EventAccepted exempt PoolBlocked.  It is a deadlock and  *)
(* not a slow client: the pool waits for the client's write pump, and a    *)
(* pump of that client waits in Unregister for the pool.                   *)
(***************************************************************************)
CircularWait ==
  PoolBlocked => \E x \in Pumps : pump[target][x] = "unregister"

LEMMA BlockedIsCircular == PoolInv /\ LeaveInv => CircularWait
<1> SUFFICES ASSUME PoolInv, LeaveInv, PoolBlocked
             PROVE  \E x \in Pumps : pump[target][x] = "unregister"
  BY DEF CircularWait
<1>1. target \in clients /\ target \in Clients
  BY DEF PoolInv, WsTypeOK, PoolBlocked
<1>2. pump[target]["write"] \in {"unregister", "done"}
  BY <1>1 DEF PoolBlocked, LeaveInv, Pumps
<1> QED
  BY <1>1, <1>2 DEF LeaveInv, Pumps

\* Whatever leaves the pool, its channel and the write pump alone.
LEMMA BlockedSame ==
  ASSUME PoolBlocked, UNCHANGED <<ppc, target>>, queued'[target] = queued[target],
         pump'[target]["write"] = pump[target]["write"]
  PROVE  PoolBlocked'
BY DEF PoolBlocked

\* No step of anybody gets the pool out of it: the pool cannot select, the
\* write pump never reads the channel again, and nobody else does.
LEMMA BlockedStays ==
  ASSUME PoolInv, LeaveInv, PoolBlocked, WsNext PROVE PoolBlocked' \/ Crash
<1>1. /\ target \in clients /\ target \in Clients /\ ~sendClosed[target]
      /\ ppc = "send" /\ queued[target] = Capacity
      /\ pump[target]["write"] \in {"unregister", "wsClose", "done"}
  BY DEF PoolInv, WsTypeOK, PoolBlocked
<1>2. CASE PoolStep
  BY <1>1, <1>2, WsAssumption
  DEF PoolStep, PoolRegister, PoolUnregister, PoolEvent, PoolVisit, PoolDone, PoolSend
<1>3. CASE Message
  BY <1>3, BlockedSame DEF Message, poolVars, clientVars
<1>4. ASSUME NEW c \in Clients, NEW x \in Pumps, CloseStep(c, x)
      PROVE  PoolBlocked'
  <2>1. UNCHANGED <<ppc, target, queued>>
    BY <1>4 DEF CloseStep, CloseCheck, CloseSet, WsClose, poolVars
  <2>2. \/ pump'[target]["write"] = pump[target]["write"]
        \/ pump[target]["write"] = "wsClose" /\ pump'[target]["write"] = "done"
    BY <1>1, <1>4 DEF CloseStep, CloseCheck, CloseSet, WsClose, Goto, PoolInv, WsTypeOK, Pumps
  <2> QED
    BY <1>1, <2>1, <2>2 DEF PoolBlocked
<1>5. ASSUME NEW c \in Clients, ReadStep(c) PROVE PoolBlocked' \/ Crash
  <2>1. CASE ReadFails(c) \/ ReplyCheck(c)
    <3>1. UNCHANGED <<ppc, target, queued>>
      BY <2>1 DEF ReadFails, ReplyCheck, poolVars
    <3>2. pump'[target]["write"] = pump[target]["write"]
      BY <1>1, <2>1 DEF ReadFails, ReplyCheck, Goto, PoolInv, WsTypeOK, Pumps
    <3> QED
      BY <3>1, <3>2, BlockedSame
  <2>2. CASE ReplySend(c) /\ ~Crash
    <3>1. /\ UNCHANGED <<ppc, target>> /\ queued[c] < Capacity
          /\ queued' = [queued EXCEPT ![c] = @ + 1]
          /\ Goto(c, "read", "replySend", "next")
      BY <2>2 DEF ReplySend, poolVars
    <3>2. c # target /\ queued'[target] = queued[target]
      BY <1>1, <3>1, WsAssumption
    <3>3. pump'[target]["write"] = pump[target]["write"]
      BY <1>1, <3>1 DEF Goto, PoolInv, WsTypeOK, Pumps
    <3> QED
      BY <3>1, <3>2, <3>3, BlockedSame
  <2> QED
    BY <1>5, <2>1, <2>2 DEF ReadStep
<1>6. ASSUME NEW c \in Clients, WriteStep(c) PROVE PoolBlocked'
  <2>1. c # target
    BY <1>1, <1>6 DEF WriteStep, WriteNext, WriteMessage, Goto
  <2>2. UNCHANGED <<ppc, target>>
    BY <1>6 DEF WriteStep, WriteNext, WriteMessage, poolVars
  <2>3. queued' \in {queued, [queued EXCEPT ![c] = @ - 1]}
    BY <1>6 DEF WriteStep, WriteNext, WriteMessage
  <2>4. pump'[target]["write"] = pump[target]["write"]
    <3>1. PICK s \in PumpStates : pump' = [pump EXCEPT ![c]["write"] = s]
      BY <1>6 DEF WriteStep, WriteNext, WriteMessage, Goto, PumpStates
    <3> QED
      BY <2>1, <3>1 DEF PoolInv, WsTypeOK
  <2>5. queued'[target] = queued[target]
    BY <1>1, <2>1, <2>3 DEF PoolInv, WsTypeOK
  <2> QED
    BY <2>2, <2>4, <2>5, BlockedSame
<1>7. ASSUME NEW c \in Clients, ListenerStep(c) PROVE PoolBlocked' \/ Crash
  <2>1. CASE ListenerTick(c) \/ ListenerCheck(c)
    BY <2>1, BlockedSame DEF ListenerTick, ListenerCheck, poolVars
  <2>2. CASE ListenerSend(c) /\ ~Crash
    <3>1. /\ UNCHANGED <<ppc, target, pump>> /\ queued[c] < Capacity
          /\ queued' = [queued EXCEPT ![c] = @ + 1]
      BY <2>2 DEF ListenerSend, poolVars
    <3>2. queued'[target] = queued[target]
      BY <1>1, <3>1, WsAssumption
    <3> QED
      BY <3>1, <3>2, BlockedSame
  <2> QED
    BY <1>7, <2>1, <2>2 DEF ListenerStep
<1>8. ASSUME NEW c \in Clients, UserStep(c) PROVE PoolBlocked'
  <2>1. CASE Collect(c)
    <3>1. c # target
      BY <1>1, <2>1 DEF Collect, Ended
    <3>2. UNCHANGED <<ppc, target>>
      BY <2>1 DEF Collect, poolVars
    <3>3. queued'[target] = queued[target] /\ pump'[target] = pump[target]
      BY <2>1, <3>1 DEF Collect
    <3> QED
      BY <3>2, <3>3, BlockedSame
  <2>2. CASE Connect(c) \/ ReadRequest(c)
    <3>1. UNCHANGED <<ppc, target, queued>>
      BY <2>2 DEF Connect, ReadRequest, poolVars
    <3>2. pump'[target]["write"] = pump[target]["write"]
      BY <1>1, <2>2 DEF Connect, ReadRequest, Goto, PoolInv, WsTypeOK, Pumps
    <3> QED
      BY <3>1, <3>2, BlockedSame
  <2>3. CASE Disconnect(c) \/ ReadSubscribe(c) \/ ReadListen(c) \/ ListenerStop(c)
    BY <2>3, BlockedSame DEF Disconnect, ReadSubscribe, ReadListen, ListenerStop, poolVars
  <2> QED
    BY <1>8, <2>1, <2>2, <2>3 DEF UserStep
<1> QED
  BY <1>2, <1>3, <1>4, <1>5, <1>6, <1>7, <1>8 DEF WsNext

\* What the liveness properties exempt is a true deadlock: PoolBlocked is a
\* circular wait of the pool and a pump, and only the end of the process
\* ends it.
THEOREM WsBlockedIsDeadlock ==
  WsSpec => [](CircularWait) /\ [][PoolBlocked => PoolBlocked' \/ Crash]_wsVars
<1>1. PoolInv /\ LeaveInv /\ [WsNext]_wsVars
        => [PoolBlocked => PoolBlocked' \/ Crash]_wsVars
  BY BlockedStays
<1> QED
  BY <1>1, BlockedIsCircular, LeaveInvariant, WsInvariant, PTL DEF WsSpec
=============================================================================

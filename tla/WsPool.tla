------------------------------- MODULE WsPool --------------------------------
(***************************************************************************)
(* The WebSocket side of the server (internal/api/websocket): the pool's   *)
(* event loop, the two pumps and a listener goroutine of every client, and *)
(* the broadcaster.                                                        *)
(*                                                                         *)
(* register, unregister and the event channels are unbuffered, so a send   *)
(* on them is one step with the pool's receive.  A client's send channel   *)
(* has Capacity slots; sending on it blocks when it is full and panics     *)
(* when the pool has closed it.  isClosed is read and written without a    *)
(* lock, so checking it and acting on it are separate steps.               *)
(*                                                                         *)
(* Data: messages are counted, not named; one listener goroutine per       *)
(* client stands for the start, stop and state listeners, which all tick,  *)
(* test isClosed and answer through WsResponse.                            *)
(***************************************************************************)
EXTENDS Naturals

CONSTANTS
  Clients,      \* client objects
  Capacity,     \* slots of a client's send channel
  WriteFails,   \* whether writing to a broken connection returns an error
  Requests,     \* bound: the kinds of request the users send
  NoClient

ASSUME WsAssumption ==
  /\ Capacity \in Nat \ {0}
  /\ WriteFails \in BOOLEAN
  /\ Requests \subseteq {"reply", "subscribe", "listen"}
  /\ NoClient \notin Clients

Events == {"log", "chp"}

VARIABLES
  clients,     \* Pool.clients
  ppc,         \* the pool: "select", "visit" or "send"
  event,       \* what it delivers: an event, or "greet" for a new client
  targets,     \* clients the loop over Pool.clients has still to visit
  target,      \* the client it sends to, NoClient when it does not
  bpc,         \* the broadcaster: "idle", or the event it hands over
  conn,        \* the connection of a client: "none", "up" or "down"
  queued,      \* messages in the client's send channel
  sendClosed,  \* the send channel is closed
  isClosed,    \* Client.isClosed
  subscription,
  pump,        \* pump[c]["read"] and pump[c]["write"]: where the pumps are
  listener,    \* where the listener goroutine is
  crashed      \* history: a goroutine panicked and took the process down

poolVars == <<clients, ppc, event, targets, target>>
clientVars == <<conn, queued, sendClosed, isClosed, subscription, pump, listener>>
wsVars == <<poolVars, bpc, clientVars, crashed>>

Pumps == {"read", "write"}
PumpStates == {"none", "register", "next", "reply", "replySend", "write", "bye",
               "close", "closeSet", "unregister", "wsClose", "done"}

WsInit ==
  /\ clients = {}
  /\ ppc = "select" /\ event = "greet" /\ targets = {} /\ target = NoClient
  /\ bpc = "idle"
  /\ conn = [c \in Clients |-> "none"]
  /\ queued = [c \in Clients |-> 0]
  /\ sendClosed = [c \in Clients |-> FALSE]
  /\ isClosed = [c \in Clients |-> FALSE]
  /\ subscription = [c \in Clients |-> "chp"]
  /\ pump = [c \in Clients |-> [x \in Pumps |-> "none"]]
  /\ listener = [c \in Clients |-> "none"]
  /\ crashed = FALSE

\* A panic nobody recovers ends the process; it is started again.
Crash ==
  /\ clients' = {}
  /\ ppc' = "select" /\ event' = "greet" /\ targets' = {} /\ target' = NoClient
  /\ bpc' = "idle"
  /\ conn' = [c \in Clients |-> "none"]
  /\ queued' = [c \in Clients |-> 0]
  /\ sendClosed' = [c \in Clients |-> FALSE]
  /\ isClosed' = [c \in Clients |-> FALSE]
  /\ subscription' = [c \in Clients |-> "chp"]
  /\ pump' = [c \in Clients |-> [x \in Pumps |-> "none"]]
  /\ listener' = [c \in Clients |-> "none"]
  /\ crashed' = TRUE

Goto(c, x, from, to) ==
  pump[c][x] = from /\ pump' = [pump EXCEPT ![c][x] = to]

-----------------------------------------------------------------------------
(***************************************************************************)
(* Pool.Start.                                                             *)
(***************************************************************************)
\* <-p.register: add the client and greet it; its pumps start.
PoolRegister(c) ==
  /\ ppc = "select"
  /\ pump[c]["read"] = "register"
  /\ pump' = [pump EXCEPT ![c] = [x \in Pumps |-> "next"]]
  /\ clients' = clients \cup {c}
  /\ ppc' = "visit" /\ event' = "greet" /\ targets' = {c}
  /\ UNCHANGED <<target, bpc, conn, queued, sendClosed, isClosed, subscription,
                 listener, crashed>>

\* Mutant of PoolUnregister: the client stays in the map.
CloseOnly(c, x) ==
  /\ ppc = "select"
  /\ Goto(c, x, "unregister", "wsClose")
  /\ sendClosed' = [sendClosed EXCEPT ![c] = (c \in clients) \/ @]
  /\ UNCHANGED <<poolVars, bpc, conn, queued, isClosed, subscription, listener, crashed>>

\* <-p.unregister: forget the client and close its channel, if it is known.
PoolUnregister(c, x) ==
  /\ ppc = "select"
  /\ Goto(c, x, "unregister", "wsClose")
  /\ clients' = clients \ {c}
  /\ sendClosed' = [sendClosed EXCEPT ![c] = (c \in clients) \/ @]
  /\ UNCHANGED <<ppc, event, targets, target, bpc, conn, queued, isClosed,
                 subscription, listener, crashed>>

\* <-p.logEvent or <-p.chpEvent: every charge point event is followed by a
\* log event of the same message.
PoolEvent ==
  /\ ppc = "select"
  /\ bpc \in Events
  /\ ppc' = "visit" /\ event' = bpc /\ targets' = clients
  /\ bpc' = IF bpc = "chp" THEN "log" ELSE "idle"
  /\ UNCHANGED <<clients, target, clientVars, crashed>>

\* One iteration of the loop over p.clients: a subscribed client that is not
\* closed is sent the message.
PoolVisit(c) ==
  /\ ppc = "visit"
  /\ c \in targets
  /\ targets' = targets \ {c}
  /\ IF (event = "greet" \/ subscription[c] = event) /\ ~isClosed[c]
     THEN ppc' = "send" /\ target' = c
     ELSE UNCHANGED <<ppc, target>>
  /\ UNCHANGED <<clients, event, bpc, clientVars, crashed>>

\* c.send <- data in the pool's goroutine: blocks while the channel is full.
PoolSend ==
  /\ ppc = "send"
  /\ IF sendClosed[target]
     THEN Crash
     ELSE /\ queued[target] < Capacity
          /\ queued' = [queued EXCEPT ![target] = @ + 1]
          /\ ppc' = "visit" /\ target' = NoClient
          /\ UNCHANGED <<clients, event, targets, bpc, conn, sendClosed, isClosed,
                         subscription, pump, listener, crashed>>

PoolDone ==
  /\ ppc = "visit" /\ targets = {}
  /\ ppc' = "select"
  /\ UNCHANGED <<clients, event, targets, target, bpc, clientVars, crashed>>

\* Broadcaster.Start reads a log message, of a charge point or not.
Message ==
  /\ bpc = "idle"
  /\ bpc' \in Events
  /\ UNCHANGED <<poolVars, clientVars, crashed>>

-----------------------------------------------------------------------------
(***************************************************************************)
(* A client: its connection, its pumps and its listener goroutine.         *)
(***************************************************************************)
\* NewClient and Client.Start, up to the blocking Register.
Connect(c) ==
  /\ conn[c] = "none"
  /\ conn' = [conn EXCEPT ![c] = "up"]
  /\ Goto(c, "read", "none", "register")
  /\ UNCHANGED <<poolVars, bpc, queued, sendClosed, isClosed, subscription,
                 listener, crashed>>

\* The peer closes the connection, or the network does.
Disconnect(c) ==
  /\ conn[c] = "up"
  /\ conn' = [conn EXCEPT ![c] = "down"]
  /\ UNCHANGED <<poolVars, bpc, queued, sendClosed, isClosed, subscription, pump,
                 listener, crashed>>

Ended(c) ==
  /\ \A x \in Pumps : pump[c][x] \in {"none", "done"}
  /\ listener[c] = "none"
  /\ c \notin clients

\* Nothing refers to a client that has ended; a new connection is a new object.
Collect(c) ==
  /\ Ended(c) /\ conn[c] = "down"
  /\ conn' = [conn EXCEPT ![c] = "none"]
  /\ queued' = [queued EXCEPT ![c] = 0]
  /\ sendClosed' = [sendClosed EXCEPT ![c] = FALSE]
  /\ isClosed' = [isClosed EXCEPT ![c] = FALSE]
  /\ subscription' = [subscription EXCEPT ![c] = "chp"]
  /\ pump' = [pump EXCEPT ![c] = [x \in Pumps |-> "none"]]
  /\ UNCHANGED <<poolVars, bpc, listener, crashed>>

\* readPump: ReadMessage fails.
ReadFails(c) ==
  /\ conn[c] = "down"
  /\ Goto(c, "read", "next", "close")
  /\ UNCHANGED <<poolVars, bpc, conn, queued, sendClosed, isClosed, subscription,
                 listener, crashed>>

\* readPump: a request that is answered at once.
ReadRequest(c) ==
  /\ "reply" \in Requests
  /\ conn[c] = "up"
  /\ Goto(c, "read", "next", "reply")
  /\ UNCHANGED <<poolVars, bpc, conn, queued, sendClosed, isClosed, subscription,
                 listener, crashed>>

\* readPump: ListenLog or ListenChargePoints.
ReadSubscribe(c) ==
  /\ "subscribe" \in Requests
  /\ conn[c] = "up" /\ pump[c]["read"] = "next"
  /\ \E e \in Events : subscription' = [subscription EXCEPT ![c] = e]
  /\ UNCHANGED <<poolVars, bpc, conn, queued, sendClosed, isClosed, pump, listener,
                 crashed>>

\* readPump: StartTransaction, StopTransaction, CheckStatus, ListenTransaction.
ReadListen(c) ==
  /\ "listen" \in Requests
  /\ conn[c] = "up" /\ pump[c]["read"] = "next" /\ listener[c] = "none"
  /\ listener' = [listener EXCEPT ![c] = "tick"]
  /\ UNCHANGED <<poolVars, bpc, conn, queued, sendClosed, isClosed, subscription,
                 pump, crashed>>

\* WsResponse tests isClosed ...
ReplyCheck(c) ==
  /\ Goto(c, "read", "reply", IF isClosed[c] THEN "next" ELSE "replySend")
  /\ UNCHANGED <<poolVars, bpc, conn, queued, sendClosed, isClosed, subscription,
                 listener, crashed>>

\* ... and sends: blocks while the channel is full, and panics if the pool
\* has closed it in the meantime.
ReplySend(c) ==
  /\ pump[c]["read"] = "replySend"
  /\ IF sendClosed[c]
     THEN Crash
     ELSE /\ queued[c] < Capacity
          /\ queued' = [queued EXCEPT ![c] = @ + 1]
          /\ Goto(c, "read", "replySend", "next")
          /\ UNCHANGED <<poolVars, bpc, conn, sendClosed, isClosed, subscription,
                         listener, crashed>>

\* Mutant of WriteNext: messages are left in the channel of a connection
\* that has gone.
WriteWhileUp(c) ==
  /\ \/ /\ queued[c] > 0 /\ conn[c] = "up"
        /\ queued' = [queued EXCEPT ![c] = @ - 1]
        /\ Goto(c, "write", "next", "write")
     \/ /\ sendClosed[c]
        /\ Goto(c, "write", "next", "bye")
        /\ UNCHANGED queued
  /\ UNCHANGED <<poolVars, bpc, conn, sendClosed, isClosed, subscription, listener,
                 crashed>>

\* writePump: take a message, or see the channel closed and drained.
WriteNext(c) ==
  /\ \/ /\ queued[c] > 0
        /\ queued' = [queued EXCEPT ![c] = @ - 1]
        /\ Goto(c, "write", "next", "write")
     \/ /\ queued[c] = 0 /\ sendClosed[c]
        /\ Goto(c, "write", "next", "bye")
        /\ UNCHANGED queued
  /\ UNCHANGED <<poolVars, bpc, conn, sendClosed, isClosed, subscription, listener,
                 crashed>>

\* Mutant of WriteMessage: a write that takes long counts as an error.
WriteTimesOut(c) ==
  /\ \/ Goto(c, "write", "write", "next")
     \/ WriteFails /\ Goto(c, "write", "write", "close")
     \/ Goto(c, "write", "bye", "close")
  /\ UNCHANGED <<poolVars, bpc, conn, queued, sendClosed, isClosed, subscription,
                 listener, crashed>>

\* Mutant of WriteMessage: after an error the pump returns without close.
WriteReturns(c) ==
  /\ \/ Goto(c, "write", "write", "next")
     \/ WriteFails /\ conn[c] = "down" /\ Goto(c, "write", "write", "done")
     \/ Goto(c, "write", "bye", "close")
  /\ UNCHANGED <<poolVars, bpc, conn, queued, sendClosed, isClosed, subscription,
                 listener, crashed>>

\* writePump: WriteMessage returns.
WriteMessage(c) ==
  /\ \/ Goto(c, "write", "write", "next")
     \/ WriteFails /\ conn[c] = "down" /\ Goto(c, "write", "write", "close")
     \/ Goto(c, "write", "bye", "close")
  /\ UNCHANGED <<poolVars, bpc, conn, queued, sendClosed, isClosed, subscription,
                 listener, crashed>>

\* Client.close, the deferred call of both pumps: test isClosed ...
CloseCheck(c, x) ==
  /\ Goto(c, x, "close", IF isClosed[c] THEN "done" ELSE "closeSet")
  /\ UNCHANGED <<poolVars, bpc, conn, queued, sendClosed, isClosed, subscription,
                 listener, crashed>>

\* Mutant of CloseSet: close does not unregister the client.
SkipUnregister(c, x) ==
  /\ Goto(c, x, "closeSet", "wsClose")
  /\ isClosed' = [isClosed EXCEPT ![c] = TRUE]
  /\ UNCHANGED <<poolVars, bpc, conn, queued, sendClosed, subscription, listener,
                 crashed>>

\* Mutant of CloseSet: the first pump leaves the rest to the second, as if both
\* got past the test of isClosed.
CloseOnce(c, x) ==
  /\ Goto(c, x, "closeSet", IF isClosed[c] THEN "unregister" ELSE "done")
  /\ isClosed' = [isClosed EXCEPT ![c] = TRUE]
  /\ UNCHANGED <<poolVars, bpc, conn, queued, sendClosed, subscription, listener,
                 crashed>>

\* ... set it, and block in Unregister ...
CloseSet(c, x) ==
  /\ Goto(c, x, "closeSet", "unregister")
  /\ isClosed' = [isClosed EXCEPT ![c] = TRUE]
  /\ UNCHANGED <<poolVars, bpc, conn, queued, sendClosed, subscription, listener,
                 crashed>>

\* ... and close the connection.
WsClose(c, x) ==
  /\ Goto(c, x, "wsClose", "done")
  /\ conn' = [conn EXCEPT ![c] = "down"]
  /\ UNCHANGED <<poolVars, bpc, queued, sendClosed, isClosed, subscription, listener,
                 crashed>>

\* A tick of a listener: it ends when the client is closed; else it has
\* something to tell.
ListenerTick(c) ==
  /\ listener[c] = "tick"
  /\ listener' = [listener EXCEPT ![c] = IF isClosed[c] THEN "none" ELSE "respond"]
  /\ UNCHANGED <<poolVars, bpc, conn, queued, sendClosed, isClosed, subscription, pump,
                 crashed>>

\* The listener is stopped by the user: StopListenTransaction.
ListenerStop(c) ==
  /\ listener[c] = "tick"
  /\ listener' = [listener EXCEPT ![c] = "none"]
  /\ UNCHANGED <<poolVars, bpc, conn, queued, sendClosed, isClosed, subscription, pump,
                 crashed>>

\* WsResponse in the listener: the same test ...
ListenerCheck(c) ==
  /\ listener[c] = "respond"
  /\ listener' = [listener EXCEPT ![c] = IF isClosed[c] THEN "tick" ELSE "send"]
  /\ UNCHANGED <<poolVars, bpc, conn, queued, sendClosed, isClosed, subscription, pump,
                 crashed>>

\* ... and the same send; after the final answer the listener ends.
ListenerSend(c) ==
  /\ listener[c] = "send"
  /\ IF sendClosed[c]
     THEN Crash
     ELSE /\ queued[c] < Capacity
          /\ queued' = [queued EXCEPT ![c] = @ + 1]
          /\ \E to \in {"tick", "none"} : listener' = [listener EXCEPT ![c] = to]
          /\ UNCHANGED <<poolVars, bpc, conn, sendClosed, isClosed, subscription, pump,
                         crashed>>

PoolStep ==
  \/ \E c \in Clients : PoolRegister(c) \/ PoolVisit(c)
  \/ \E c \in Clients, x \in Pumps : PoolUnregister(c, x)
  \/ PoolEvent \/ PoolSend \/ PoolDone

ReadStep(c) ==
  ReadFails(c) \/ ReplyCheck(c) \/ ReplySend(c)

WriteStep(c) == WriteNext(c) \/ WriteMessage(c)

CloseStep(c, x) == CloseCheck(c, x) \/ CloseSet(c, x) \/ WsClose(c, x)

ListenerStep(c) == ListenerTick(c) \/ ListenerCheck(c) \/ ListenerSend(c)

UserStep(c) ==
  \/ Connect(c) \/ Disconnect(c) \/ Collect(c)
  \/ ReadRequest(c) \/ ReadSubscribe(c) \/ ReadListen(c) \/ ListenerStop(c)

WsNext ==
  \/ PoolStep
  \/ Message
  \/ \E c \in Clients :
       ReadStep(c) \/ WriteStep(c) \/ ListenerStep(c) \/ UserStep(c)
  \/ \E c \in Clients, x \in Pumps : CloseStep(c, x)

WsSpec == WsInit /\ [][WsNext]_wsVars

(***************************************************************************)
(* Every goroutine runs on, and select takes a ready case at random, so    *)
(* whoever keeps waiting for the pool is served when the pool selects      *)
(* again and again.  Blocked senders on a channel are served in the order  *)
(* they arrived, hence the strong fairness of the steps that send.         *)
(* WriteMessage returns, which the code leaves to TCP.                     *)
(***************************************************************************)
WsFairness ==
  /\ WF_wsVars(PoolStep)
  /\ SF_wsVars(PoolEvent) /\ SF_wsVars(PoolSend)
  /\ \A c \in Clients :
       /\ SF_wsVars(PoolRegister(c))
       /\ SF_wsVars(ReadStep(c))
       /\ WF_wsVars(WriteStep(c))
       /\ SF_wsVars(ListenerStep(c))
       /\ \A x \in Pumps : WF_wsVars(CloseStep(c, x)) /\ SF_wsVars(PoolUnregister(c, x))

FairWsSpec == WsSpec /\ WsFairness

-----------------------------------------------------------------------------
\* Types of the pool's and the clients' state.
WsTypeOK ==
  /\ clients \subseteq Clients
  /\ ppc \in {"select", "visit", "send"}
  /\ event \in Events \cup {"greet"}
  /\ targets \subseteq Clients
  /\ target \in Clients \cup {NoClient}
  /\ bpc \in Events \cup {"idle"}
  /\ conn \in [Clients -> {"none", "up", "down"}]
  /\ queued \in [Clients -> 0..Capacity]
  /\ sendClosed \in [Clients -> BOOLEAN]
  /\ isClosed \in [Clients -> BOOLEAN]
  /\ subscription \in [Clients -> Events]
  /\ pump \in [Clients -> [Pumps -> PumpStates]]
  /\ listener \in [Clients -> {"none", "tick", "respond", "send"}]
  /\ crashed \in BOOLEAN

(***************************************************************************)
(* The pool itself never panics: it neither sends on nor closes again the  *)
(* channel of a client it has unregistered, although both pumps of a       *)
(* client may unregister it.                                               *)
(***************************************************************************)
PoolNeverPanics ==
  /\ \A c \in clients : ~sendClosed[c]
  /\ ppc = "send" => ~sendClosed[target]

(***************************************************************************)
(* A client whose connection works is never closed, so nothing that is     *)
(* sent to it panics: only a goroutine that answers a client whose         *)
(* connection has gone can find its channel closed and end the process.    *)
(***************************************************************************)
OpenIsUsable == \A c \in Clients : conn[c] # "down" => ~isClosed[c] /\ ~sendClosed[c]

(***************************************************************************)
(* A client the pool knows can still leave it: of the two pumps, both of   *)
(* which run close and skip it when isClosed is set, one will still call   *)
(* Unregister or is blocked in it.  Nobody else would ever take the client *)
(* out of the map.                                                         *)
(***************************************************************************)
RegisteredCanLeave ==
  \A c \in clients :
    IF isClosed[c] THEN \E x \in Pumps : pump[c][x] = "unregister"
                   ELSE \A x \in Pumps : pump[c][x] # "done"

\* Who sends on the channel of client c, and waits while it is full.
Sending(c) ==
  (ppc = "send" /\ target = c) \/ pump[c]["read"] = "replySend" \/ listener[c] = "send"

(***************************************************************************)
(* Nobody sends into a channel that is neither read nor going to be        *)
(* closed: while it is open, the write pump takes messages or is on its    *)
(* way to Unregister, or one of the pumps waits there for the pool.  The   *)
(* write pump may have ended, having found isClosed set, but then the read *)
(* pump is the one that waits.                                             *)
(***************************************************************************)
SendersAreServed ==
  \A c \in Clients : Sending(c) /\ ~sendClosed[c] =>
    \/ pump[c]["write"] \in {"next", "write", "close", "closeSet"}
    \/ \E x \in Pumps : pump[c][x] = "unregister"

\* The pool waits for room in the channel of a client whose write pump will
\* never take a message again, and that waits for the pool itself.
PoolBlocked ==
  /\ ppc = "send" /\ queued[target] = Capacity
  /\ pump[target]["write"] \in {"unregister", "wsClose", "done"}

(***************************************************************************)
(* A broken connection leaves nothing behind: both pumps and the listener  *)
(* end and the pool forgets the client, or the process ends; unless the    *)
(* pool is blocked.                                                        *)
(***************************************************************************)
ClientEnds == \A c \in Clients : conn[c] = "down" ~> Ended(c) \/ PoolBlocked

(***************************************************************************)
(* "Start begins listening for updates and broadcasting them to subscribed *)
(* clients": an event the broadcaster hands to the pool is accepted, no    *)
(* matter how slow a client is.  The one exception is PoolBlocked, which   *)
(* stops the pool for every client.                                        *)
(***************************************************************************)
EventAccepted == bpc \in Events ~> bpc = "idle" \/ PoolBlocked
=============================================================================

------------------------------ MODULE Sessions -------------------------------
(***************************************************************************)
(* What a user's WebSocket connection does on his behalf: readPump of      *)
(* websocket/client.go, the listener goroutines of websocket/listener.go,  *)
(* the status reader (impl/status-reader) and Core.WsRequest.              *)
(*                                                                         *)
(* A connection is authenticated by its first request and keeps the user   *)
(* and his id tag from then on.  A request to start or stop charging goes  *)
(* to the central system; a goroutine then polls the database for the      *)
(* outcome.  The status reader remembers, per id tag, what a user waits    *)
(* for, so that another connection of his can pick it up.                  *)
(*                                                                         *)
(* Data: times are numbers of a clock that moves with every event that is  *)
(* compared by time; the 90 seconds of a listener may be over at any       *)
(* moment; progress messages are left out.                                 *)
(***************************************************************************)
EXTENDS Naturals

CONSTANTS
  Clients,   \* WebSocket connections
  People,    \* users
  Tags,      \* id tags
  TagsOf,    \* the id tags a user owns or will be given
  Trans,     \* charging transactions
  Jobs,      \* bound: listener goroutines at a time
  MaxClock,  \* bound: events compared by time
  NoOne, NoTag, NoTrans, NoClient

ASSUME SessionsAssumption ==
  /\ TagsOf \in [People -> SUBSET Tags]
  /\ MaxClock \in Nat
  /\ NoOne \notin People /\ NoTag \notin Tags /\ NoTrans \notin Trans /\ NoClient \notin Clients

Times == 0..MaxClock

VARIABLES
  alive,      \* documents of user_tags
  gone,       \* id tags that an administrator deleted
  trans,      \* transactions: tag and start time (0: not started), finished
  commands,   \* remote start commands the central system has yet to carry
              \* out: the tag and the time of the request
  stops,      \* transactions it was told to stop
  clock,
  session,    \* per connection: user, id, isClosed, and the request whose
              \* command readPump has sent
  listeners,  \* Client.listeners
  status,     \* StatusReader.status
  job,        \* the listener goroutines
  overlap,    \* history: tags two listeners wait or have just waited for
  relisten,   \* history: connection and transaction listened to again while
              \* the first listener was still there
  crashed     \* history: readPump panicked and took the process down

worldVars == <<alive, gone, trans, commands, stops, clock>>
sessionVars == <<session, listeners, status, job>>
sessionsHistory == <<overlap, relisten, crashed>>
sessionsVars == <<worldVars, sessionVars, sessionsHistory>>

NoRequest == [stage |-> "none", tx |-> NoTrans, at |-> 0]
Request == [stage : {"none", "start", "stop"}, tx : Trans \cup {NoTrans}, at : Times]

NewSession == [user |-> NoOne, id |-> NoTag, closed |-> FALSE, req |-> NoRequest]
Session == [user : People \cup {NoOne}, id : Tags \cup {NoTag}, closed : BOOLEAN, req : Request]

NoStatus == [stage |-> "none", tx |-> NoTrans, at |-> 0]
Status == [stage : {"none", "start", "stop", "listen"}, tx : Trans \cup {NoTrans}, at : Times]

\* A listener: from is the time it compares with; for the properties, cmd is
\* the time of the request it was started by (0: restored from a status).
NoJob == [client |-> NoClient, kind |-> "none", tx |-> NoTrans, from |-> 0, cmd |-> 0,
          pc |-> "run"]
Job == [client : Clients \cup {NoClient}, kind : {"none", "start", "stop", "state"},
        tx : Trans \cup {NoTrans}, from : Times, cmd : Times,
        pc : {"first", "run", "end"}]

SessionsInit ==
  /\ alive = {}
  /\ gone = {}
  /\ trans = [t \in Trans |-> [tag |-> NoTag, at |-> 0, cmd |-> 0, finished |-> FALSE]]
  /\ commands = {}
  /\ stops = {}
  /\ clock = 0
  /\ session = [c \in Clients |-> NewSession]
  /\ listeners = [c \in Clients |-> {}]
  /\ status = [i \in Tags \cup {NoTag} |-> NoStatus]
  /\ job = [j \in Jobs |-> NoJob]
  /\ overlap = {}
  /\ relisten = {}
  /\ crashed = FALSE

Now == clock + 1
Tock == clock < MaxClock /\ clock' = Now

-----------------------------------------------------------------------------
(***************************************************************************)
(* readPump.                                                               *)
(***************************************************************************)
Reading(c) == ~session[c].closed /\ session[c].req = NoRequest

\* Mutant of Login: UserTag returns a tag that is not stored.
LoginUnstored(c) ==
  /\ Reading(c) /\ session[c].user = NoOne
  /\ \E u \in People : \E t \in TagsOf[u] :
       session' = [session EXCEPT ![c].user = u, ![c].id = t]
  /\ UNCHANGED <<worldVars, listeners, status, job, sessionsHistory>>

\* The first request: AuthenticateByToken, then UserTag, which returns an
\* enabled tag of the user or creates one.  When it fails the user stays set
\* and the id empty, and later requests do not authenticate again.
Login(c) ==
  /\ Reading(c) /\ session[c].user = NoOne
  /\ \E u \in People :
       LET own == alive \cap TagsOf[u]
           Use(t) == session' = [session EXCEPT ![c].user = u, ![c].id = t]
       IN  \/ \E t \in own : Use(t) /\ UNCHANGED alive
           \/ /\ own = {}
              /\ \E t \in TagsOf[u] \ gone : Use(t) /\ alive' = alive \cup {t}
           \/ Use(NoTag) /\ UNCHANGED alive
  /\ UNCHANGED <<gone, trans, commands, stops, clock, listeners, status, job,
                 sessionsHistory>>

\* A panic in readPump: nothing recovers it and the process ends.
Panic ==
  /\ crashed' = TRUE
  /\ UNCHANGED <<worldVars, sessionVars, overlap, relisten>>

\* SendCommand: the central system got the command and answered, or it got
\* it and its answer is an error or was lost; readPump then drops the request.
SendCommand(c, req) ==
  \/ session' = [session EXCEPT ![c].req = req]
  \/ UNCHANGED session

\* StartTransaction: the time is taken, the payment method validated, the
\* command sent.  (A command that was not sent changes nothing.)
SendStart(c) ==
  /\ Reading(c) /\ session[c].user # NoOne /\ session[c].id \in alive
  /\ Tock
  /\ commands' = commands \cup {[tag |-> session[c].id, at |-> Now]}
  /\ SendCommand(c, [stage |-> "start", tx |-> NoTrans, at |-> Now])
  /\ UNCHANGED <<alive, gone, trans, stops, listeners, status, job, sessionsHistory>>

\* validateStartTransactionPaymentMethod finds no document for the id, which
\* is no error, and dereferences nil.
SendStartPanics(c) ==
  /\ Reading(c) /\ session[c].user # NoOne /\ session[c].id \notin alive
  /\ Panic

\* StopTransaction, for any transaction number.
SendStop(c) ==
  /\ Reading(c) /\ session[c].user # NoOne
  /\ \E t \in Trans :
       /\ stops' = stops \cup {t}
       /\ SendCommand(c, [stage |-> "stop", tx |-> t, at |-> 0])
  /\ UNCHANGED <<alive, gone, trans, commands, clock, listeners, status, job, sessionsHistory>>

-----------------------------------------------------------------------------
(***************************************************************************)
(* The status reader, and the goroutines that wait for an outcome.         *)
(***************************************************************************)
SaveStatus(i, stage, t, now) ==
  status' = [status EXCEPT ![i] = [stage |-> stage, tx |-> t, at |-> now]]

\* The listeners that wait for an outcome on behalf of id i.
Waiting(i) ==
  {j \in Jobs : job[j].kind \in {"start", "stop"} /\ session[job[j].client].id = i}

\* go c.listenForTransaction...
Spawn(c, kind, t, from, cmd) ==
  LET j == CHOOSE k \in Jobs : job[k] = NoJob
  IN  /\ \E k \in Jobs : job[k] = NoJob
      /\ job' = [job EXCEPT ![j] =
                  [client |-> c, kind |-> kind, tx |-> t, from |-> from, cmd |-> cmd,
                   pc |-> IF kind = "stop" THEN "first" ELSE "run"]]
      /\ overlap' = IF kind # "state" /\ Waiting(session[c].id) # {}
                    THEN overlap \cup {session[c].id} ELSE overlap

\* Mutant of Follow: the listener compares with the time of now.
FollowLater(c) ==
  LET r == session[c].req
      now == IF r.stage = "start" THEN Now ELSE 0
  IN  /\ r # NoRequest
      /\ IF r.stage = "start" THEN Tock ELSE UNCHANGED clock
      /\ SaveStatus(session[c].id, r.stage, r.tx, now)
      /\ Spawn(c, r.stage, r.tx, now, r.at)
      /\ session' = [session EXCEPT ![c].req = NoRequest]
      /\ UNCHANGED <<alive, gone, trans, commands, stops, listeners, relisten, crashed>>

\* Mutant of Follow: only a start is remembered.
FollowUnsaved(c) ==
  LET r == session[c].req
  IN  /\ r # NoRequest
      /\ IF r.stage = "start" THEN Tock /\ SaveStatus(session[c].id, r.stage, r.tx, Now)
                              ELSE UNCHANGED <<clock, status>>
      /\ Spawn(c, r.stage, r.tx, r.at, r.at)
      /\ session' = [session EXCEPT ![c].req = NoRequest]
      /\ UNCHANGED <<alive, gone, trans, commands, stops, listeners, relisten, crashed>>

\* After the command: SaveStatus, with the time of now, and the listener,
\* with the time of the request.  (Only a start is compared by time.)
Follow(c) ==
  LET r == session[c].req
      now == IF r.stage = "start" THEN Now ELSE 0
  IN  /\ r # NoRequest
      /\ IF r.stage = "start" THEN Tock ELSE UNCHANGED clock
      /\ SaveStatus(session[c].id, r.stage, r.tx, now)
      /\ Spawn(c, r.stage, r.tx, r.at, r.at)
      /\ session' = [session EXCEPT ![c].req = NoRequest]
      /\ UNCHANGED <<alive, gone, trans, commands, stops, listeners, relisten, crashed>>

\* Mutant of Listen: the map is not consulted.
ListenAgain(c) ==
  /\ Reading(c) /\ session[c].user # NoOne
  /\ \E t \in Trans :
       /\ SaveStatus(session[c].id, "listen", t, 0)
       /\ listeners' = [listeners EXCEPT ![c] = @ \cup {t}]
       /\ Spawn(c, "state", t, 0, 0)
       /\ UNCHANGED relisten
  /\ UNCHANGED <<worldVars, session, crashed>>

\* ListenTransaction: at most one entry, and one goroutine, per transaction;
\* a goroutine whose entry was deleted may not have noticed yet.
StateListeners(c, t) == {j \in Jobs : job[j].kind = "state" /\ job[j].client = c /\ job[j].tx = t}

StartStateListener(c, t) ==
  /\ listeners' = [listeners EXCEPT ![c] = @ \cup {t}]
  /\ Spawn(c, "state", t, 0, 0)
  /\ relisten' = IF StateListeners(c, t) # {} THEN relisten \cup {<<c, t>>} ELSE relisten

Listen(c) ==
  /\ Reading(c) /\ session[c].user # NoOne
  /\ \E t \in Trans :
       /\ SaveStatus(session[c].id, "listen", t, 0)
       /\ IF t \in listeners[c]
          THEN UNCHANGED <<listeners, job, overlap, relisten>>
          ELSE StartStateListener(c, t)
  /\ UNCHANGED <<worldVars, session, crashed>>

StopListen(c) ==
  /\ Reading(c) /\ session[c].user # NoOne
  /\ \E t \in listeners[c] : listeners' = [listeners EXCEPT ![c] = @ \ {t}]
  /\ UNCHANGED <<worldVars, session, status, job, sessionsHistory>>

\* CheckStatus and restoreUserState: pick up what a connection with the same
\* id was waiting for.  A status older than 90 seconds starts nothing.
Restore(c) ==
  LET s == status[session[c].id]
  IN  /\ Reading(c) /\ session[c].user # NoOne
      /\ \/ /\ s.stage \in {"start", "stop"}
            /\ Spawn(c, s.stage, s.tx, s.at, 0)
            /\ UNCHANGED <<listeners, relisten>>
         \/ /\ s.stage = "listen" /\ s.tx \notin listeners[c]
            /\ StartStateListener(c, s.tx)
      /\ UNCHANGED <<worldVars, session, status, crashed>>

-----------------------------------------------------------------------------
\* A listener returns; listenForTransactionStart and ...Stop then run their
\* deferred clean-up.
Return(j) == job' = [job EXCEPT ![j].pc = "end", ![j].from = 0, ![j].cmd = 0]
Vanish(j) ==
  LET id == session[job[j].client].id
  IN  /\ job' = [job EXCEPT ![j] = NoJob]
      /\ overlap' = IF Waiting(id) \subseteq {j} THEN overlap \ {id} ELSE overlap
      /\ relisten' = relisten \ {p \in relisten : StateListeners(p[1], p[2]) \subseteq {j}}

ListenerVars == <<worldVars, session, listeners, crashed>>
History == <<overlap, relisten>>

\* GetTransactionAfter: the transactions of a tag that started at a time or
\* later.
GetTransactionAfter(i, from) ==
  {t \in Trans : trans[t].at > 0 /\ trans[t].at >= from /\ trans[t].tag = i}

\* listenForTransactionStart: a transaction of the tag since the request.
StartTick(j) ==
  LET c == job[j].client
  IN  /\ job[j].kind = "start" /\ job[j].pc = "run"
      /\ session[c].closed \/ GetTransactionAfter(session[c].id, job[j].from) # {}
      /\ Return(j)
      /\ UNCHANGED <<ListenerVars, History, status>>

\* listenForTransactionStop: the transaction must exist ...
StopFirst(j) ==
  /\ job[j].kind = "stop" /\ job[j].pc = "first"
  /\ IF trans[job[j].tx].at = 0
     THEN Vanish(j)
     ELSE job' = [job EXCEPT ![j].pc = "run"] /\ UNCHANGED History
  /\ UNCHANGED <<ListenerVars, status>>

\* ... and is finished some time.
StopTick(j) ==
  /\ job[j].kind = "stop" /\ job[j].pc = "run"
  /\ session[job[j].client].closed \/ trans[job[j].tx].finished
  /\ Return(j)
  /\ UNCHANGED <<ListenerVars, History, status>>

\* The timer of either: the user is told, and the listener returns.
Timeout(j) ==
  /\ job[j].kind \in {"start", "stop"} /\ job[j].pc = "run"
  /\ Return(j)
  /\ UNCHANGED <<ListenerVars, History, status>>

\* The deferred clean-up: ClearStatus, unless the connection is closed.
CleanUp(j) ==
  LET c == job[j].client
  IN  /\ job[j].pc = "end"
      /\ status' = IF session[c].closed THEN status
                   ELSE [status EXCEPT ![session[c].id] = NoStatus]
      /\ Vanish(j)
      /\ UNCHANGED ListenerVars

\* Mutant of StateEnds: the tick forgets to test isClosed.
EndWhenStopped(j) ==
  LET c == job[j].client
  IN  /\ job[j].kind = "state"
      /\ job[j].tx \notin listeners[c]
      /\ Vanish(j)
      /\ UNCHANGED <<ListenerVars, status>>

\* listenForTransactionState ends when the connection is closed or the user
\* stopped listening.
StateEnds(j) ==
  LET c == job[j].client
  IN  /\ job[j].kind = "state"
      /\ session[c].closed \/ job[j].tx \notin listeners[c]
      /\ Vanish(j)
      /\ UNCHANGED <<ListenerVars, status>>

-----------------------------------------------------------------------------
(***************************************************************************)
(* The rest of the world: connections close and open, the central system   *)
(* starts and stops transactions, an administrator deletes tags.           *)
(***************************************************************************)
Close(c) ==
  /\ ~session[c].closed
  /\ session' = [session EXCEPT ![c].closed = TRUE]
  /\ UNCHANGED <<worldVars, listeners, status, job, sessionsHistory>>

\* A new connection is a new object: nothing may refer to the old one.
Open(c) ==
  /\ session[c].closed /\ session[c].req = NoRequest
  /\ \A j \in Jobs : job[j].client # c
  /\ session' = [session EXCEPT ![c] = NewSession]
  /\ listeners' = [listeners EXCEPT ![c] = {}]
  /\ UNCHANGED <<worldVars, status, job, sessionsHistory>>

ChargerStarts(t) ==
  /\ trans[t].at = 0
  /\ Tock
  /\ \E m \in commands :
       /\ commands' = commands \ {m}
       /\ trans' = [trans EXCEPT ![t].tag = m.tag, ![t].at = Now, ![t].cmd = m.at]
  /\ UNCHANGED <<alive, gone, stops, sessionVars, sessionsHistory>>

ChargerStops(t) ==
  /\ t \in stops /\ trans[t].at > 0
  /\ stops' = stops \ {t}
  /\ trans' = [trans EXCEPT ![t].finished = TRUE]
  /\ UNCHANGED <<alive, gone, commands, clock, sessionVars, sessionsHistory>>

DeleteTag(i) ==
  /\ i \in alive
  /\ alive' = alive \ {i}
  /\ gone' = gone \cup {i}
  /\ UNCHANGED <<trans, commands, stops, clock, sessionVars, sessionsHistory>>

PumpStep(c) ==
  \/ Login(c) \/ SendStart(c) \/ SendStartPanics(c) \/ SendStop(c) \/ Follow(c)
  \/ Listen(c) \/ StopListen(c) \/ Restore(c)

JobStep(j) ==
  StartTick(j) \/ StopFirst(j) \/ StopTick(j) \/ Timeout(j) \/ CleanUp(j) \/ StateEnds(j)

SessionsNext ==
  /\ ~crashed
  /\ \/ \E c \in Clients : PumpStep(c) \/ Close(c) \/ Open(c)
     \/ \E j \in Jobs : JobStep(j)
     \/ \E t \in Trans : ChargerStarts(t) \/ ChargerStops(t)
     \/ \E i \in Tags : DeleteTag(i)

\* Tickers and timers of a running goroutine go on firing.
SessionsSpec ==
  /\ SessionsInit /\ [][SessionsNext]_sessionsVars
  /\ \A j \in Jobs : WF_sessionsVars(~crashed /\ JobStep(j))

-----------------------------------------------------------------------------
\* Types of the connections, the statuses and the listeners.
SessionsTypeOK ==
  /\ alive \subseteq Tags /\ gone \subseteq Tags
  /\ session \in [Clients -> Session]
  /\ listeners \in [Clients -> SUBSET Trans]
  /\ status \in [Tags \cup {NoTag} -> Status]
  /\ job \in [Jobs -> Job]
  /\ clock \in Times

(***************************************************************************)
(* "Capture time before sending the command to avoid race condition where  *)
(* the charger starts a transaction before we record the timestamp": the   *)
(* listener of a start request finds the transaction its command started,  *)
(* however fast the charger was.  A listener restored from the status is   *)
(* the exception: SaveStatus takes the time again, after the command.      *)
(***************************************************************************)
NoMissedStart ==
  \A j \in Jobs, t \in Trans :
    job[j].kind = "start" /\ job[j].cmd > 0 /\ trans[t].cmd = job[j].cmd
      => trans[t].at >= job[j].from

(***************************************************************************)
(* While a listener of an open connection waits for an outcome, the status *)
(* reader knows about it and another connection can restore it; except for *)
(* an id two listeners waited for at once, where the one that ends clears  *)
(* the status of the other.                                                *)
(***************************************************************************)
StatusWhileWaiting ==
  \A j \in Jobs :
    LET c == job[j].client
    IN  job[j].kind \in {"start", "stop"} /\ ~session[c].closed /\ session[c].id \notin overlap
          => status[session[c].id] # NoStatus

(***************************************************************************)
(* One state listener per connection and transaction, although the map is  *)
(* read and written by several goroutines; except when the user stopped    *)
(* and listened again before the first one had noticed.                    *)
(***************************************************************************)
SingleStateListener ==
  \A c \in Clients, t \in Trans :
    <<c, t>> \notin relisten => \A j, k \in StateListeners(c, t) : j = k

(***************************************************************************)
(* A start request ends the process only if the id that its connection has *)
(* kept since the login is no longer a stored tag, or the login never got  *)
(* one.                                                                    *)
(***************************************************************************)
PanicOnlyWithoutTag ==
  [][~crashed /\ crashed' => \E c \in Clients : session[c].id \in gone \cup {NoTag}]_crashed

(***************************************************************************)
(* Every listener that waits for an outcome comes to an end, and a closed  *)
(* connection leaves no listener behind.                                   *)
(***************************************************************************)
ListenersEnd ==
  \A j \in Jobs :
    job[j].kind \in {"start", "stop"}
      \/ (job[j].kind = "state" /\ session[job[j].client].closed) ~> job[j] = NoJob \/ crashed
=============================================================================

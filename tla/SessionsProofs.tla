--------------------------- MODULE SessionsProofs ----------------------------
(***************************************************************************)
(* The WebSocket sessions: for any number of connections, users, tags,     *)
(* transactions and listener goroutines, a start listener never misses the *)
(* transaction of its command, the status of a waiting user is kept, a     *)
(* transaction has one state listener per connection, and a start request  *)
(* panics only without a stored tag.                                       *)
(***************************************************************************)
EXTENDS Sessions, TLAPS

TransDoc == [tag : Tags \cup {NoTag}, at : Times, cmd : Times, finished : BOOLEAN]
Command == [tag : Tags, at : Times]

WorldInv ==
  /\ trans \in [Trans -> TransDoc]
  /\ commands \subseteq Command
  /\ \A m \in commands : m.at <= clock
  /\ \A t \in Trans : trans[t].cmd <= trans[t].at

\* A connection: its id was a stored tag, and only an authenticated one has
\* a request under way.
SessionInv ==
  \A c \in Clients :
    /\ session[c].id \in alive \cup gone \cup {NoTag}
    /\ session[c].req # NoRequest
         => session[c].user # NoOne /\ session[c].req.stage \in {"start", "stop"}

\* A listener works for an authenticated connection; one that was started by
\* a request compares with the time of that request.
Listener(j) ==
  \/ job[j] = NoJob
  \/ /\ job[j].client \in Clients
     /\ job[j].kind \in {"start", "stop", "state"}
     /\ session[job[j].client].user # NoOne
     /\ job[j].pc = "end" => job[j].kind # "state"
     /\ job[j].cmd > 0 => job[j].from = job[j].cmd

\* A status to listen names a transaction.
ListenStatus == \A i \in Tags \cup {NoTag} : status[i].stage = "listen" => status[i].tx \in Trans

\* The history remembers every id that two listeners wait for.
OverlapInv ==
  \A i \in Tags \cup {NoTag} : i \notin overlap => \A j, k \in Waiting(i) : j = k

SessionsInv ==
  /\ SessionsTypeOK /\ WorldInv /\ SessionInv /\ ListenStatus
  /\ \A j \in Jobs : Listener(j)
  /\ OverlapInv /\ StatusWhileWaiting /\ SingleStateListener

-----------------------------------------------------------------------------
\* What is known of a state, in the form the steps use.
LEMMA InvTypes ==
  ASSUME SessionsInv
  PROVE  /\ alive \subseteq Tags /\ gone \subseteq Tags
         /\ session \in [Clients -> Session]
         /\ listeners \in [Clients -> SUBSET Trans]
         /\ status \in [Tags \cup {NoTag} -> Status]
         /\ job \in [Jobs -> Job]
         /\ clock \in Times
         /\ trans \in [Trans -> TransDoc]
         /\ commands \subseteq Command
BY DEF SessionsInv, SessionsTypeOK, WorldInv

\* Time.
LEMMA Clock ==
  ASSUME clock \in Times
  PROVE  /\ 0 \in Times /\ Times \subseteq Nat /\ Now \in Nat /\ clock \in Nat
         /\ Tock => /\ clock' = Now /\ clock' \in Times /\ Now \in Times
                    /\ clock < clock' /\ Now > 0
BY SessionsAssumption DEF Times, Now, Tock

LEMMA Constants ==
  /\ NoOne \notin People /\ NoTag \notin Tags /\ NoTrans \notin Trans /\ NoClient \notin Clients
  /\ TagsOf \in [People -> SUBSET Tags]
  /\ 0 \in Times
BY SessionsAssumption DEF Times

\* Where connections change: at most one at a time, and one with listeners
\* keeps its user and its id and is never opened again.
Stays(c) ==
  /\ session'[c].user = session[c].user /\ session'[c].id = session[c].id
  /\ session[c].closed => session'[c].closed

Busy(c) == \E j \in Jobs : job[j].client = c

LEMMA StepSessions ==
  ASSUME SessionsInv, SessionsNext
  PROVE  /\ alive' \subseteq Tags /\ gone' \subseteq Tags
         /\ session' \in [Clients -> Session]
         /\ SessionInv'
         /\ \A c \in Clients : Busy(c) => Stays(c)
<1> DEFINE Goal == /\ alive' \subseteq Tags /\ gone' \subseteq Tags
                   /\ session' \in [Clients -> Session]
                   /\ SessionInv'
                   /\ \A c \in Clients : Busy(c) => Stays(c)
<1>a. /\ alive \subseteq Tags /\ gone \subseteq Tags /\ session \in [Clients -> Session]
      /\ SessionInv /\ (\A j \in Jobs : Listener(j)) /\ clock \in Times
  BY InvTypes DEF SessionsInv
<1>b. NoRequest \in Request /\ NewSession \in Session /\ NewSession.id = NoTag /\ NewSession.req = NoRequest
  BY Constants DEF NoRequest, Request, NewSession, Session
<1>c. ASSUME NEW c \in Clients, NEW s \in Session, session' = [session EXCEPT ![c] = s],
             alive \cup gone \subseteq alive' \cup gone', alive' \subseteq Tags, gone' \subseteq Tags,
             s.id \in alive' \cup gone' \cup {NoTag},
             s.req # NoRequest => s.user # NoOne /\ s.req.stage \in {"start", "stop"},
             Busy(c) => /\ s.user = session[c].user /\ s.id = session[c].id
                        /\ session[c].closed => s.closed
      PROVE  Goal
  <2>1. session' \in [Clients -> Session] /\ session'[c] = s
        /\ \A k \in Clients \ {c} : session'[k] = session[k]
    BY <1>a, <1>c
  <2>2. SessionInv'
    BY <1>a, <1>c, <2>1 DEF SessionInv
  <2>3. \A k \in Clients : Busy(k) => Stays(k)
    BY <1>c, <2>1 DEF Stays
  <2> QED
    BY <1>c, <2>1, <2>2, <2>3
<1>d. ASSUME UNCHANGED session, alive \cup gone \subseteq alive' \cup gone', alive' \subseteq Tags, gone' \subseteq Tags
      PROVE  Goal
  BY <1>a, <1>d DEF SessionInv, Stays
<1>e. \A c \in Clients : session[c] \in Session /\ session[c].id \in alive \cup gone \cup {NoTag}
  BY <1>a DEF SessionInv
<1>f. \A c \in Clients : session[c].user = NoOne => ~Busy(c)
  BY <1>a, Constants DEF Listener, Busy, NoJob
<1> HIDE DEF Goal
<1> USE DEF worldVars, sessionVars, sessionsHistory, ListenerVars
<1>1. ASSUME NEW c \in Clients, Login(c) PROVE Goal
  <2>1. PICK u \in People, t \in Tags \cup {NoTag} :
          /\ session' = [session EXCEPT ![c].user = u, ![c].id = t]
          /\ \/ t \in alive /\ alive' = alive
             \/ t \in Tags /\ alive' = alive \cup {t}
             \/ t = NoTag /\ alive' = alive
    <3>1. PICK u \in People :
            \/ \E t \in alive \cap TagsOf[u] :
                  session' = [session EXCEPT ![c].user = u, ![c].id = t] /\ UNCHANGED alive
            \/ \E t \in TagsOf[u] \ gone :
                  session' = [session EXCEPT ![c].user = u, ![c].id = t] /\ alive' = alive \cup {t}
            \/ session' = [session EXCEPT ![c].user = u, ![c].id = NoTag] /\ UNCHANGED alive
      BY <1>1 DEF Login
    <3>2. TagsOf[u] \subseteq Tags
      BY Constants
    <3> QED
      BY <1>a, <3>1, <3>2
  <2> DEFINE s == [[session[c] EXCEPT !.user = u] EXCEPT !.id = t]
  <2>2. session' = [session EXCEPT ![c] = s]
    BY <1>a, <2>1
  <2>3. s \in Session /\ s.id = t /\ s.req = session[c].req
    BY <1>e DEF Session
  <2>4. session[c].user = NoOne /\ session[c].req = NoRequest /\ gone' = gone
    BY <1>1 DEF Login, Reading
  <2>5. /\ alive \cup gone \subseteq alive' \cup gone' /\ alive' \subseteq Tags /\ gone' \subseteq Tags
        /\ t \in alive' \cup gone' \cup {NoTag}
    BY <1>a, <2>1, <2>4
  <2>6. ~Busy(c)
    BY <1>f, <2>4
  <2> HIDE DEF s
  <2> QED
    BY <1>c, <2>2, <2>3, <2>4, <2>5, <2>6
<1>2. ASSUME NEW c \in Clients, NEW r \in Request, session[c].user # NoOne,
             r # NoRequest => r.stage \in {"start", "stop"},
             session' = [session EXCEPT ![c].req = r], UNCHANGED <<alive, gone>>
      PROVE  Goal
  <2> DEFINE s == [session[c] EXCEPT !.req = r]
  <2>1. session' = [session EXCEPT ![c] = s]
    BY <1>a, <1>2
  <2>2. s \in Session /\ s.id = session[c].id /\ s.req = r /\ s.user = session[c].user
        /\ s.closed = session[c].closed
    BY <1>e DEF Session
  <2> HIDE DEF s
  <2>3. /\ alive \cup gone \subseteq alive' \cup gone' /\ alive' \subseteq Tags /\ gone' \subseteq Tags
        /\ s.id \in alive' \cup gone' \cup {NoTag}
    BY <1>a, <1>e, <1>2, <2>2
  <2>4. s.req # NoRequest => s.user # NoOne /\ s.req.stage \in {"start", "stop"}
    BY <1>2, <2>2
  <2> QED
    BY <1>c, <2>1, <2>2, <2>3, <2>4
<1>3. ASSUME NEW c \in Clients, SendStart(c) PROVE Goal
  <2>1. [stage |-> "start", tx |-> NoTrans, at |-> Now] \in Request
    BY <1>a, <1>3, Clock DEF SendStart, Request
  <2>2. UNCHANGED session \/ session' = [session EXCEPT ![c].req = [stage |-> "start", tx |-> NoTrans, at |-> Now]]
    BY <1>3 DEF SendStart, SendCommand
  <2>3. session[c].user # NoOne /\ UNCHANGED <<alive, gone>>
    BY <1>3 DEF SendStart
  <2> QED
    BY <1>a, <1>2, <1>d, <2>1, <2>2, <2>3
<1>4. ASSUME NEW c \in Clients, SendStop(c) PROVE Goal
  <2>1. PICK t \in Trans : SendCommand(c, [stage |-> "stop", tx |-> t, at |-> 0])
    BY <1>4 DEF SendStop
  <2>2. [stage |-> "stop", tx |-> t, at |-> 0] \in Request
    BY Constants DEF Request
  <2>3. session[c].user # NoOne /\ UNCHANGED <<alive, gone>>
    BY <1>4 DEF SendStop
  <2> QED
    BY <1>a, <1>2, <1>d, <2>1, <2>2, <2>3 DEF SendCommand
<1>5. ASSUME NEW c \in Clients, Follow(c) PROVE Goal
  <2>1. session' = [session EXCEPT ![c].req = NoRequest] /\ UNCHANGED <<alive, gone>>
        /\ session[c].req # NoRequest
    BY <1>5 DEF Follow
  <2>2. session[c].user # NoOne
    BY <1>a, <2>1 DEF SessionInv
  <2> QED
    BY <1>b, <1>2, <2>1, <2>2
<1>6. ASSUME NEW c \in Clients, Close(c) PROVE Goal
  <2> DEFINE s == [session[c] EXCEPT !.closed = TRUE]
  <2>1. session' = [session EXCEPT ![c] = s] /\ UNCHANGED <<alive, gone>>
    BY <1>a, <1>6 DEF Close
  <2>2. s \in Session /\ s.id = session[c].id /\ s.req = session[c].req /\ s.user = session[c].user
        /\ s.closed
    BY <1>e DEF Session
  <2>3. s.req # NoRequest => s.user # NoOne /\ s.req.stage \in {"start", "stop"}
    BY <1>a, <2>2 DEF SessionInv
  <2> HIDE DEF s
  <2> QED
    BY <1>a, <1>c, <1>e, <2>1, <2>2, <2>3
<1>7. ASSUME NEW c \in Clients, Open(c) PROVE Goal
  <2>1. session' = [session EXCEPT ![c] = NewSession] /\ UNCHANGED <<alive, gone>> /\ ~Busy(c)
    BY <1>7 DEF Open, Busy
  <2> QED
    BY <1>a, <1>b, <1>c, <2>1
<1>8. ASSUME NEW c \in Clients, SendStartPanics(c) \/ Listen(c) \/ StopListen(c) \/ Restore(c)
      PROVE  UNCHANGED <<session, alive, gone>>
  BY <1>8 DEF SendStartPanics, Panic, Listen, StopListen, Restore
<1>9. ASSUME NEW j \in Jobs, JobStep(j) PROVE UNCHANGED <<session, alive, gone>>
  BY <1>9 DEF JobStep, StartTick, StopFirst, StopTick, Timeout, CleanUp, StateEnds
<1>10. ASSUME NEW t \in Trans, ChargerStarts(t) \/ ChargerStops(t) PROVE UNCHANGED <<session, alive, gone>>
  BY <1>10 DEF ChargerStarts, ChargerStops
<1>11. ASSUME NEW i \in Tags, DeleteTag(i) PROVE Goal
  BY <1>a, <1>d, <1>11 DEF DeleteTag
<1>12. CASE UNCHANGED <<session, alive, gone>>
  <2>1. alive \cup gone \subseteq alive' \cup gone' /\ alive' \subseteq Tags /\ gone' \subseteq Tags
    BY <1>a, <1>12
  <2> QED
    BY <1>d, <1>12, <2>1 DEF Goal
<1> QED
  BY <1>1, <1>3, <1>4, <1>5, <1>6, <1>7, <1>8, <1>9, <1>10, <1>11, <1>12 DEF SessionsNext, PumpStep, Goal

-----------------------------------------------------------------------------
(***************************************************************************)
(* What a step does to the listeners: it starts one, moves one on, or ends *)
(* one.                                                                    *)
(***************************************************************************)
Started(c, kind, t) ==
  \E j \in Jobs, r \in Job :
    /\ job[j] = NoJob /\ job' = [job EXCEPT ![j] = r] /\ Stays(c)
    /\ r.client = c /\ r.kind = kind /\ r.tx = t /\ r.pc # "end"
    /\ r.cmd > 0 => r.from = r.cmd
    /\ overlap' = IF kind # "state" /\ Waiting(session[c].id) # {}
                  THEN overlap \cup {session[c].id} ELSE overlap

\* A listener for an outcome, or one for the state of a transaction.
StartsWaiting ==
  \E c \in Clients, kind \in {"start", "stop"}, t \in Trans \cup {NoTrans} :
    /\ Started(c, kind, t) /\ UNCHANGED relisten
    /\ session[c].user # NoOne /\ status'[session[c].id] # NoStatus

StartsState ==
  \E c \in Clients, t \in Trans \cup {NoTrans} :
    /\ Started(c, "state", t) /\ session[c].user # NoOne
    /\ relisten' = IF StateListeners(c, t) # {} THEN relisten \cup {<<c, t>>} ELSE relisten

MovesOn ==
  \E j \in Jobs, r \in Job :
    /\ job[j].kind \in {"start", "stop"} /\ job' = [job EXCEPT ![j] = r]
    /\ r.client = job[j].client /\ r.kind = job[j].kind /\ r.tx = job[j].tx
    /\ r.cmd > 0 => r.from = r.cmd
    /\ UNCHANGED <<overlap, relisten>>

Ends(j) == job[j] # NoJob /\ Vanish(j) /\ UNCHANGED session

\* The status of an id is cleared only by the end of a listener for that id.
StatusKept == \A i \in Tags \cup {NoTag} : status[i] # NoStatus => status'[i] # NoStatus

Clears(j) ==
  /\ job[j].kind \in {"start", "stop"}
  /\ status' = [status EXCEPT ![session[job[j].client].id] = NoStatus]

JobsStep ==
  \/ UNCHANGED <<job, overlap, relisten>> /\ StatusKept
  \/ (StartsWaiting \/ StartsState \/ MovesOn) /\ StatusKept
  \/ \E j \in Jobs : Ends(j) /\ (StatusKept \/ Clears(j))

\* Spawn takes a free place.
LEMMA SpawnStarts ==
  ASSUME job \in [Jobs -> Job], NEW c \in Clients, NEW kind \in {"start", "stop", "state"},
         NEW t \in Trans \cup {NoTrans}, NEW from \in Times, NEW cmd \in Times,
         cmd > 0 => from = cmd, Spawn(c, kind, t, from, cmd), Stays(c)
  PROVE  Started(c, kind, t)
<1> DEFINE j == CHOOSE k \in Jobs : job[k] = NoJob
           r == [client |-> c, kind |-> kind, tx |-> t, from |-> from, cmd |-> cmd,
                 pc |-> IF kind = "stop" THEN "first" ELSE "run"]
<1>1. j \in Jobs /\ job[j] = NoJob
  BY DEF Spawn
<1>2. r \in Job /\ r.pc # "end" /\ r.client = c /\ r.kind = kind /\ r.tx = t /\ r.from = from /\ r.cmd = cmd
  BY DEF Job
<1>3. /\ job' = [job EXCEPT ![j] = r]
      /\ overlap' = IF kind # "state" /\ Waiting(session[c].id) # {}
                    THEN overlap \cup {session[c].id} ELSE overlap
  BY DEF Spawn
<1> HIDE DEF j, r
<1> QED
  BY <1>1, <1>2, <1>3 DEF Started

\* A written status is one.
LEMMA Saves ==
  ASSUME status \in [Tags \cup {NoTag} -> Status], NEW i \in Tags \cup {NoTag},
         NEW stage \in {"start", "stop", "listen"}, NEW t \in Trans \cup {NoTrans}, NEW at \in Times,
         SaveStatus(i, stage, t, at), ListenStatus, stage = "listen" => t \in Trans
  PROVE  status' \in [Tags \cup {NoTag} -> Status] /\ StatusKept /\ status'[i] # NoStatus /\ ListenStatus'
<1> DEFINE s == [stage |-> stage, tx |-> t, at |-> at]
<1>1. s \in Status /\ s # NoStatus /\ (s.stage = "listen" => s.tx \in Trans)
  <2>1. s \in Status
    BY DEF Status
  <2>2. s.stage # "none" /\ NoStatus.stage = "none"
    BY DEF NoStatus
  <2> QED
    BY <2>1, <2>2
<1>2. status' = [status EXCEPT ![i] = s]
  BY DEF SaveStatus
<1> HIDE DEF s
<1> QED
  BY <1>1, <1>2 DEF StatusKept, ListenStatus

\* Every step is one of these, and the statuses keep their type.
LEMMA StepJobs ==
  ASSUME SessionsInv, SessionsNext
  PROVE  JobsStep /\ status' \in [Tags \cup {NoTag} -> Status] /\ ListenStatus'
<1> DEFINE Goal == JobsStep /\ status' \in [Tags \cup {NoTag} -> Status] /\ ListenStatus'
<1>a. /\ status \in [Tags \cup {NoTag} -> Status] /\ job \in [Jobs -> Job]
      /\ session \in [Clients -> Session] /\ clock \in Times /\ (\A j \in Jobs : Listener(j))
      /\ SessionInv /\ ListenStatus
  BY InvTypes DEF SessionsInv
<1>b. \A c \in Clients : /\ session[c].id \in Tags \cup {NoTag}
                         /\ session[c].req.tx \in Trans \cup {NoTrans} /\ session[c].req.at \in Times
  BY <1>a DEF Session, Request
<1>c. \A i \in Tags \cup {NoTag} : status[i].tx \in Trans \cup {NoTrans} /\ status[i].at \in Times
  BY <1>a DEF Status
<1>d. 0 \in Times /\ NoStatus \in Status /\ NoStatus.stage = "none" /\ ~(0 > 0)
  BY Constants DEF NoStatus, Status
<1>e. ASSUME UNCHANGED <<job, overlap, relisten, status>> PROVE Goal
  BY <1>a, <1>e DEF JobsStep, StatusKept, ListenStatus
<1> USE DEF worldVars, sessionVars, sessionsHistory, ListenerVars, History
<1>1. ASSUME NEW c \in Clients, Follow(c) PROVE Goal
  <2> DEFINE r == session[c].req
             at == IF r.stage = "start" THEN Now ELSE 0
  <2>1. r # NoRequest /\ r.stage \in {"start", "stop"} /\ session[c].user # NoOne
    BY <1>a, <1>1 DEF Follow, SessionInv
  <2>2. at \in Times
    BY <1>a, <1>d, <1>1, Clock DEF Follow
  <2>3. SaveStatus(session[c].id, r.stage, r.tx, at) /\ Spawn(c, r.stage, r.tx, r.at, r.at) /\ UNCHANGED relisten
    BY <1>1 DEF Follow
  <2>4. status' \in [Tags \cup {NoTag} -> Status] /\ StatusKept /\ status'[session[c].id] # NoStatus
        /\ ListenStatus'
    BY <1>a, <1>b, <2>1, <2>2, <2>3, Saves
  <2>7. Stays(c)
    BY <1>a, <1>1 DEF Follow, Stays, Session
  <2>5. Started(c, r.stage, r.tx)
    BY <1>a, <1>b, <2>1, <2>3, <2>7, SpawnStarts
  <2>6. StartsWaiting
    BY <1>b, <2>1, <2>3, <2>4, <2>5 DEF StartsWaiting
  <2> QED
    BY <2>4, <2>6 DEF JobsStep
<1>2. ASSUME NEW c \in Clients, NEW t \in Trans \cup {NoTrans}, StartStateListener(c, t),
             session[c].user # NoOne, UNCHANGED session
      PROVE  StartsState
  <2>1. Started(c, "state", t)
    BY <1>a, <1>d, <1>2, SpawnStarts DEF StartStateListener, Stays
  <2> QED
    BY <1>2, <2>1 DEF StartStateListener, StartsState
<1>3. ASSUME NEW c \in Clients, Listen(c) PROVE Goal
  <2>1. PICK t \in Trans : /\ SaveStatus(session[c].id, "listen", t, 0)
                           /\ IF t \in listeners[c]
                              THEN UNCHANGED <<listeners, job, overlap, relisten>>
                              ELSE StartStateListener(c, t)
    BY <1>3 DEF Listen
  <2>2. status' \in [Tags \cup {NoTag} -> Status] /\ StatusKept /\ ListenStatus'
    BY <1>a, <1>b, <1>d, <2>1, Saves
  <2>3. session[c].user # NoOne /\ UNCHANGED session
    BY <1>3 DEF Listen
  <2> QED
    BY <1>2, <2>1, <2>2, <2>3 DEF JobsStep
<1>4. ASSUME NEW c \in Clients, Restore(c) PROVE Goal
  <2> DEFINE s == status[session[c].id]
  <2>1. session[c].user # NoOne /\ UNCHANGED <<status, session>> /\ StatusKept /\ Stays(c) /\ ListenStatus'
    BY <1>a, <1>4 DEF Restore, StatusKept, Stays, ListenStatus
  <2>2. CASE s.stage \in {"start", "stop"} /\ Spawn(c, s.stage, s.tx, s.at, 0) /\ UNCHANGED <<listeners, relisten>>
    <3>1. Started(c, s.stage, s.tx)
      BY <1>a, <1>b, <1>c, <1>d, <2>1, <2>2, SpawnStarts
    <3>2. status'[session[c].id] # NoStatus
      BY <1>d, <2>1, <2>2
    <3>3. StartsWaiting
      BY <1>b, <1>c, <2>1, <2>2, <3>1, <3>2 DEF StartsWaiting
    <3> QED
      BY <1>a, <2>1, <3>3 DEF JobsStep
  <2>3. CASE StartStateListener(c, s.tx)
    <3>1. StartsState
      BY <1>2, <1>b, <1>c, <2>1, <2>3
    <3> QED
      BY <1>a, <2>1, <3>1 DEF JobsStep
  <2> QED
    BY <1>4, <2>2, <2>3 DEF Restore
<1>5. ASSUME NEW j \in Jobs, StartTick(j) \/ StopTick(j) \/ Timeout(j) PROVE Goal
  <2> DEFINE r == [[[job[j] EXCEPT !.pc = "end"] EXCEPT !.from = 0] EXCEPT !.cmd = 0]
  <2>1. /\ job[j].kind \in {"start", "stop"} /\ job' = [job EXCEPT ![j] = r]
        /\ UNCHANGED <<status, overlap, relisten>>
    BY <1>a, <1>5 DEF StartTick, StopTick, Timeout, Return
  <2>2. /\ r \in Job /\ r.client = job[j].client /\ r.kind = job[j].kind /\ r.tx = job[j].tx
        /\ r.cmd = 0
    <3>1. job[j] \in Job
      BY <1>a
    <3> QED
      BY <1>d, <3>1 DEF Job
  <2> HIDE DEF r
  <2>3. MovesOn
    BY <1>d, <2>1, <2>2 DEF MovesOn
  <2> QED
    BY <1>a, <2>1, <2>3 DEF JobsStep, StatusKept, ListenStatus
<1>6. ASSUME NEW j \in Jobs, StopFirst(j) PROVE Goal
  <2>0. UNCHANGED <<status, session>> /\ StatusKept /\ job[j].kind = "stop" /\ job[j] # NoJob /\ ListenStatus'
    BY <1>a, <1>6 DEF StopFirst, StatusKept, NoJob, ListenStatus
  <2>1. CASE Vanish(j)
    BY <1>a, <2>0, <2>1 DEF JobsStep, Ends
  <2>2. CASE job' = [job EXCEPT ![j].pc = "run"] /\ UNCHANGED History
    <3> DEFINE r == [job[j] EXCEPT !.pc = "run"]
    <3>1. job' = [job EXCEPT ![j] = r]
      BY <1>a, <2>2
    <3>2. /\ r \in Job /\ r.client = job[j].client /\ r.kind = job[j].kind /\ r.tx = job[j].tx
          /\ r.cmd = job[j].cmd /\ r.from = job[j].from
      <4>1. job[j] \in Job
        BY <1>a
      <4> QED
        BY <4>1 DEF Job
    <3>3. job[j].cmd > 0 => job[j].from = job[j].cmd
      BY <1>a, <2>0 DEF Listener
    <3>5. job[j].kind \in {"start", "stop"} /\ UNCHANGED <<overlap, relisten>>
      BY <2>0, <2>2
    <3> HIDE DEF r
    <3>4. MovesOn
      BY <3>1, <3>2, <3>3, <3>5 DEF MovesOn
    <3> QED
      BY <1>a, <2>0, <3>4 DEF JobsStep
  <2> QED
    BY <1>6, <2>1, <2>2 DEF StopFirst
<1>7. ASSUME NEW j \in Jobs, CleanUp(j) PROVE Goal
  <2>1. job[j].pc = "end" /\ Vanish(j) /\ UNCHANGED session
        /\ status' = IF session[job[j].client].closed THEN status
                      ELSE [status EXCEPT ![session[job[j].client].id] = NoStatus]
    BY <1>7 DEF CleanUp
  <2>2. job[j] # NoJob /\ job[j].kind \in {"start", "stop"} 
    BY <1>a, <2>1 DEF NoJob, Listener
  <2>3. status' \in [Tags \cup {NoTag} -> Status] /\ ListenStatus'
    BY <1>a, <1>d, <2>1 DEF ListenStatus
  <2> QED
    BY <2>1, <2>2, <2>3 DEF JobsStep, Ends, StatusKept, Clears
<1>8. ASSUME NEW j \in Jobs, StateEnds(j) PROVE Goal
  BY <1>a, <1>8 DEF StateEnds, JobsStep, Ends, StatusKept, NoJob, ListenStatus
<1>9. ASSUME NEW c \in Clients, Login(c) \/ SendStart(c) \/ SendStartPanics(c) \/ SendStop(c)
                                 \/ StopListen(c) \/ Close(c) \/ Open(c)
      PROVE  UNCHANGED <<job, overlap, relisten, status>>
  BY <1>9 DEF Login, SendStart, SendStartPanics, Panic, SendStop, StopListen, Close, Open
<1>10. ASSUME NEW t \in Trans, ChargerStarts(t) \/ ChargerStops(t)
       PROVE  UNCHANGED <<job, overlap, relisten, status>>
  BY <1>10 DEF ChargerStarts, ChargerStops
<1>11. ASSUME NEW i \in Tags, DeleteTag(i) PROVE UNCHANGED <<job, overlap, relisten, status>>
  BY <1>11 DEF DeleteTag
<1> HIDE DEF Goal
<1>12. Goal
  BY <1>e, <1>1, <1>3, <1>4, <1>5, <1>6, <1>7, <1>8, <1>9, <1>10, <1>11
  DEF SessionsNext, PumpStep, JobStep
<1> QED
  BY <1>12 DEF Goal

-----------------------------------------------------------------------------
(***************************************************************************)
(* The listeners after a step.  A step writes one place of job, so who     *)
(* waits, and who listens, changes at that place only.                     *)
(***************************************************************************)
\* Who waits for id i after place j was given r.
LEMMA WhoWaits ==
  ASSUME SessionsInv, SessionsNext, NEW j \in Jobs, NEW r \in Job, job' = [job EXCEPT ![j] = r],
         NEW i \in Tags \cup {NoTag}
  PROVE  /\ job' \in [Jobs -> Job] /\ job'[j] = r
         /\ \A k \in Jobs \ {j} : /\ job'[k] = job[k]
                                  /\ k \in Waiting(i)' <=> k \in Waiting(i)
         /\ \A c \in Clients, t \in Trans : \A k \in Jobs \ {j} :
              k \in StateListeners(c, t)' <=> k \in StateListeners(c, t)
<1>1. /\ job \in [Jobs -> Job] /\ \A k \in Jobs : Listener(k)
  BY InvTypes DEF SessionsInv
<1>2. job' \in [Jobs -> Job] /\ job'[j] = r /\ \A k \in Jobs \ {j} : job'[k] = job[k]
  BY <1>1
<1>3. \A k \in Jobs : job[k].kind \in {"start", "stop"}
        => session'[job[k].client].id = session[job[k].client].id
  BY <1>1, StepSessions DEF Listener, NoJob, Busy, Stays
<1>4. \A k \in Jobs \ {j} : k \in Waiting(i)' <=> k \in Waiting(i)
  BY <1>2, <1>3 DEF Waiting
<1>5. \A c \in Clients, t \in Trans : \A k \in Jobs \ {j} :
         k \in StateListeners(c, t)' <=> k \in StateListeners(c, t)
  BY <1>2 DEF StateListeners
<1> QED
  BY <1>2, <1>4, <1>5

\* Nobody else's listener is disturbed.
LEMMA ListenersStay ==
  ASSUME SessionsInv, SessionsNext, NEW k \in Jobs, job'[k] = job[k] PROVE Listener(k)'
<1>1. Listener(k) /\ (job[k] # NoJob => Stays(job[k].client))
  BY StepSessions DEF SessionsInv, Listener, Busy
<1> QED
  BY <1>1 DEF Listener, Stays

\* The listeners are in order after each kind of step.
JobsInv ==
  /\ job \in [Jobs -> Job]
  /\ \A j \in Jobs : Listener(j)
  /\ OverlapInv /\ SingleStateListener

LEMMA StepListeners ==
  ASSUME SessionsInv, SessionsNext
  PROVE  JobsInv'
<1>a. JobsInv /\ JobsStep /\ session \in [Clients -> Session]
  BY InvTypes, StepJobs DEF JobsInv, SessionsInv
<1>b. NoJob \in Job /\ NoJob.kind = "none"
  BY Constants DEF NoJob, Job
<1>c. ASSUME NEW j \in Jobs, NEW r \in Job, job' = [job EXCEPT ![j] = r], Listener(j)',
             \A i \in Tags \cup {NoTag} : i \notin overlap' =>
               \/ j \notin Waiting(i)' /\ (i \in overlap => Waiting(i) \subseteq {j})
               \/ Waiting(i) \subseteq {j} /\ i \notin overlap,
             \A d \in Clients, x \in Trans : <<d, x>> \notin relisten' =>
               \/ j \notin StateListeners(d, x)' /\ (<<d, x>> \in relisten => StateListeners(d, x) \subseteq {j})
               \/ StateListeners(d, x) \subseteq {j} /\ <<d, x>> \notin relisten
      PROVE  JobsInv'
  <2>1. job' \in [Jobs -> Job] /\ \A k \in Jobs \ {j} : job'[k] = job[k]
    BY <1>a, <1>c DEF JobsInv
  <2>2. \A k \in Jobs : Listener(k)'
    BY <1>c, <2>1, ListenersStay
  <2>3. OverlapInv'
    <3> SUFFICES ASSUME NEW i \in Tags \cup {NoTag}, i \notin overlap',
                        NEW k \in Waiting(i)', NEW l \in Waiting(i)'
                 PROVE  k = l
      BY DEF OverlapInv
    <3>1. k \in Jobs /\ l \in Jobs
      BY DEF Waiting
    <3>2. \A m \in Jobs \ {j} : m \in Waiting(i)' <=> m \in Waiting(i)
      BY <1>c, WhoWaits
    <3>3. i \notin overlap => \A m, n \in Waiting(i) : m = n
      BY <1>a DEF JobsInv, OverlapInv
    <3> QED
      BY <1>c, <3>1, <3>2, <3>3
  <2>4. SingleStateListener'
    <3> SUFFICES ASSUME NEW d \in Clients, NEW x \in Trans, <<d, x>> \notin relisten',
                        NEW k \in StateListeners(d, x)', NEW l \in StateListeners(d, x)'
                 PROVE  k = l
      BY DEF SingleStateListener
    <3>1. k \in Jobs /\ l \in Jobs
      BY DEF StateListeners
    <3>2. \A m \in Jobs \ {j} : m \in StateListeners(d, x)' <=> m \in StateListeners(d, x)
      BY <1>c, WhoWaits
    <3>3. <<d, x>> \notin relisten => \A m, n \in StateListeners(d, x) : m = n
      BY <1>a DEF JobsInv, SingleStateListener
    <3> QED
      BY <1>c, <3>1, <3>2, <3>3
  <2> QED
    BY <2>1, <2>2, <2>3, <2>4 DEF JobsInv
<1>d. ASSUME NEW c \in Clients, NEW kind \in {"start", "stop", "state"}, NEW t \in Trans \cup {NoTrans},
             Started(c, kind, t), session[c].user # NoOne,
             kind = "state" => relisten' = IF StateListeners(c, t) # {} THEN relisten \cup {<<c, t>>} ELSE relisten,
             kind # "state" => UNCHANGED relisten
      PROVE  JobsInv'
  <2>1. PICK j \in Jobs, r \in Job :
          /\ job[j] = NoJob /\ job' = [job EXCEPT ![j] = r] /\ Stays(c)
          /\ r.client = c /\ r.kind = kind /\ r.tx = t /\ r.pc # "end"
          /\ r.cmd > 0 => r.from = r.cmd
          /\ overlap' = IF kind # "state" /\ Waiting(session[c].id) # {}
                        THEN overlap \cup {session[c].id} ELSE overlap
    BY <1>d DEF Started
  <2>2. job'[j] = r
    BY <1>a, <2>1 DEF JobsInv
  <2>3. Listener(j)'
    BY <1>d, <2>1, <2>2 DEF Listener, Stays
  <2>4. ASSUME NEW i \in Tags \cup {NoTag}, i \notin overlap'
        PROVE  i \notin overlap /\ (j \notin Waiting(i)' \/ Waiting(i) = {})
    <3>1. i \notin overlap
      BY <2>1, <2>4
    <3>2. j \in Waiting(i)' => kind # "state" /\ i = session[c].id
      BY <2>1, <2>2 DEF Waiting, Stays
    <3> QED
      BY <2>1, <2>4, <3>1, <3>2
  <2>5. ASSUME NEW d \in Clients, NEW x \in Trans, <<d, x>> \notin relisten'
        PROVE  <<d, x>> \notin relisten /\ (j \notin StateListeners(d, x)' \/ StateListeners(d, x) = {})
    <3>1. <<d, x>> \notin relisten
      BY <1>d, <2>5
    <3>2. j \in StateListeners(d, x)' => kind = "state" /\ d = c /\ x = t
      BY <2>1, <2>2 DEF StateListeners
    <3> QED
      BY <1>d, <2>5, <3>1, <3>2
  <2> QED
    BY <1>c, <2>1, <2>3, <2>4, <2>5
<1>1. CASE UNCHANGED <<job, overlap, relisten>>
  <2>1. \A k \in Jobs : Listener(k)'
    BY <1>1, ListenersStay
  <2>2. \A i \in Tags \cup {NoTag} : Waiting(i)' = Waiting(i)
    <3>1. \A k \in Jobs : job[k].kind \in {"start", "stop"}
            => session'[job[k].client].id = session[job[k].client].id
      BY <1>a, StepSessions DEF JobsInv, Listener, NoJob, Busy, Stays
    <3> QED
      BY <1>1, <3>1 DEF Waiting
  <2>3. \A d \in Clients, x \in Trans : StateListeners(d, x)' = StateListeners(d, x)
    BY <1>1 DEF StateListeners
  <2>4. OverlapInv' /\ SingleStateListener'
    BY <1>a, <1>1, <2>2, <2>3 DEF JobsInv, OverlapInv, SingleStateListener
  <2> QED
    BY <1>a, <1>1, <2>1, <2>4 DEF JobsInv
<1>2. CASE StartsWaiting
  BY <1>d, <1>2 DEF StartsWaiting
<1>3. CASE StartsState
  BY <1>d, <1>3 DEF StartsState
<1>4. CASE MovesOn
  <2>1. PICK j \in Jobs, r \in Job :
          /\ job[j].kind \in {"start", "stop"} /\ job' = [job EXCEPT ![j] = r]
          /\ r.client = job[j].client /\ r.kind = job[j].kind /\ r.tx = job[j].tx
          /\ r.cmd > 0 => r.from = r.cmd
          /\ UNCHANGED <<overlap, relisten>>
    BY <1>4 DEF MovesOn
  <2>2. job'[j] = r
    BY <1>a, <2>1 DEF JobsInv
  <2>3. Stays(job[j].client) /\ job[j].client \in Clients /\ session[job[j].client].user # NoOne
    BY <1>a, <1>b, <2>1, StepSessions DEF JobsInv, Listener, Busy
  <2>4. Listener(j)'
    BY <2>1, <2>2, <2>3 DEF Listener, Stays
  <2>5. \A i \in Tags \cup {NoTag} : j \in Waiting(i)' => j \in Waiting(i)
    BY <2>1, <2>2, <2>3 DEF Waiting, Stays
  <2>6. \A i \in Tags \cup {NoTag} : i \notin overlap' =>
          i \notin overlap /\ (j \notin Waiting(i)' \/ Waiting(i) \subseteq {j})
    BY <1>a, <2>1, <2>5 DEF JobsInv, OverlapInv
  <2>7. \A d \in Clients, x \in Trans : j \notin StateListeners(d, x)'
    BY <2>1, <2>2 DEF StateListeners
  <2> QED
    BY <1>c, <2>1, <2>4, <2>6, <2>7
<1>5. ASSUME NEW j \in Jobs, Ends(j) PROVE JobsInv'
  <2>1. /\ job' = [job EXCEPT ![j] = NoJob]
        /\ \A i \in overlap : i \in overlap' \/ Waiting(i) \subseteq {j}
        /\ \A d \in Clients, x \in Trans :
             <<d, x>> \in relisten => <<d, x>> \in relisten' \/ StateListeners(d, x) \subseteq {j}
    BY <1>5 DEF Ends, Vanish
  <2>2. job'[j] = NoJob
    BY <1>a, <2>1 DEF JobsInv
  <2>3. Listener(j)' /\ (\A i \in Tags \cup {NoTag} : j \notin Waiting(i)')
        /\ (\A d \in Clients, x \in Trans : j \notin StateListeners(d, x)')
    BY <1>b, <2>2 DEF Listener, Waiting, StateListeners
  <2> QED
    BY <1>b, <1>c, <2>1, <2>3
<1> QED
  BY <1>a, <1>1, <1>2, <1>3, <1>4, <1>5 DEF JobsStep

\* The status of whoever waits after a step: a listener that was there keeps
\* it, since the one that clears it would have waited for the same id, and a
\* new one has one.
LEMMA StepStatus ==
  ASSUME SessionsInv, SessionsNext
  PROVE  StatusWhileWaiting'
<1>a. /\ JobsStep /\ OverlapInv /\ StatusWhileWaiting /\ job \in [Jobs -> Job]
      /\ session \in [Clients -> Session] /\ status \in [Tags \cup {NoTag} -> Status]
      /\ \A j \in Jobs : Listener(j)
  BY InvTypes, StepJobs DEF SessionsInv
<1>b. NoJob.kind = "none"
  BY DEF NoJob
<1> SUFFICES ASSUME NEW j \in Jobs, job'[j].kind \in {"start", "stop"},
                    ~session'[job'[j].client].closed, session'[job'[j].client].id \notin overlap'
             PROVE  status'[session'[job'[j].client].id] # NoStatus
  BY DEF StatusWhileWaiting
<1>1. ASSUME job[j].kind \in {"start", "stop"}, job'[j].client = job[j].client
      PROVE  status'[session'[job'[j].client].id] # NoStatus
  <2> DEFINE c == job[j].client
             i == session[c].id
  <2>1. c \in Clients /\ Stays(c)
    BY <1>a, <1>b, <1>1, StepSessions DEF Listener, Busy
  <2>2. i \in Tags \cup {NoTag} /\ session'[c].id = i /\ ~session[c].closed /\ i \notin overlap'
    BY <1>a, <1>1, <2>1 DEF Session, Stays
  <2>3. j \in Waiting(i)
    BY <1>1 DEF Waiting
  <2>4. \A v \in Jobs : Ends(v) => v # j
    BY <1>a, <1>b DEF Ends, Vanish
  <2>5. i \notin overlap
    <3>1. CASE StartsWaiting \/ StartsState
      BY <2>2, <3>1 DEF StartsWaiting, StartsState, Started
    <3>2. CASE MovesOn \/ UNCHANGED overlap
      BY <2>2, <3>2 DEF MovesOn
    <3>3. ASSUME NEW v \in Jobs, Ends(v) PROVE i \notin overlap
      BY <2>2, <2>3, <2>4, <3>3 DEF Ends, Vanish
    <3> QED
      BY <1>a, <3>1, <3>2, <3>3 DEF JobsStep
  <2>6. status[i] # NoStatus
    BY <1>a, <1>1, <2>2, <2>5 DEF StatusWhileWaiting
  <2>7. CASE StatusKept
    BY <1>1, <2>2, <2>6, <2>7 DEF StatusKept
  <2>8. ASSUME NEW v \in Jobs, Ends(v), Clears(v)
        PROVE  status'[session'[job'[j].client].id] # NoStatus
    <3>1. session[job[v].client].id # i
      BY <1>a, <2>2, <2>3, <2>4, <2>5, <2>8 DEF OverlapInv, Waiting, Clears
    <3>2. status'[i] = status[i]
      BY <1>a, <2>2, <2>8, <3>1 DEF Clears
    <3> QED
      BY <1>1, <2>2, <2>6, <3>2
  <2> QED
    BY <1>a, <2>7, <2>8 DEF JobsStep
<1>2. ASSUME NEW c \in Clients, NEW kind, NEW t, Started(c, kind, t),
             kind = "state" \/ status'[session[c].id] # NoStatus
      PROVE  status'[session'[job'[j].client].id] # NoStatus
  <2>1. PICK v \in Jobs, r \in Job : /\ job' = [job EXCEPT ![v] = r] /\ r.client = c /\ r.kind = kind
                                     /\ Stays(c)
    BY <1>2 DEF Started
  <2>2. CASE v = j
    BY <1>a, <1>2, <2>1, <2>2 DEF Stays
  <2>3. CASE v # j
    <3>1. job'[j] = job[j]
      BY <1>a, <2>1, <2>3
    <3> QED
      BY <1>1, <3>1
  <2> QED
    BY <2>2, <2>3
<1>3. CASE UNCHANGED job
  BY <1>1, <1>3
<1>4. CASE StartsWaiting \/ StartsState
  BY <1>2, <1>4 DEF StartsWaiting, StartsState
<1>5. CASE MovesOn
  <2>1. job'[j].kind = job[j].kind /\ job'[j].client = job[j].client
    BY <1>a, <1>5 DEF MovesOn
  <2> QED
    BY <1>1, <2>1
<1>6. ASSUME NEW v \in Jobs, Ends(v) PROVE status'[session'[job'[j].client].id] # NoStatus
  <2>1. job'[j] = job[j]
    BY <1>a, <1>b, <1>6 DEF Ends, Vanish
  <2> QED
    BY <1>1, <2>1
<1> QED
  BY <1>a, <1>3, <1>4, <1>5, <1>6 DEF JobsStep

-----------------------------------------------------------------------------
\* The transactions and the commands: a transaction starts after the command
\* that asked for it was sent.
LEMMA StepWorld ==
  ASSUME SessionsInv, SessionsNext
  PROVE  WorldInv' /\ clock' \in Times /\ listeners' \in [Clients -> SUBSET Trans]
<1> DEFINE Goal == WorldInv' /\ clock' \in Times /\ listeners' \in [Clients -> SUBSET Trans]
<1>a. /\ WorldInv /\ clock \in Times /\ listeners \in [Clients -> SUBSET Trans]
      /\ alive \subseteq Tags /\ trans \in [Trans -> TransDoc] /\ commands \subseteq Command
      /\ session \in [Clients -> Session]
  BY InvTypes DEF SessionsInv
<1>b. Times \subseteq Nat /\ 0 \in Times /\ (Tock => /\ clock' = Now /\ clock' \in Times /\ Now \in Times
                                                   /\ clock < clock' /\ clock' \in Nat) /\ clock \in Nat
  BY <1>a, Clock
<1>c. ASSUME clock' = clock \/ Tock, UNCHANGED <<trans, commands>> PROVE WorldInv' /\ clock' \in Times
  <2>1. \A m \in commands : m.at \in Nat
    BY <1>a, <1>b DEF Command
  <2>2. \A m \in commands : m.at <= clock'
    BY <1>a, <1>b, <1>c, <2>1 DEF WorldInv
  <2> QED
    BY <1>a, <1>b, <1>c, <2>2 DEF WorldInv
<1> USE DEF worldVars, sessionVars, sessionsHistory, ListenerVars
<1>1. ASSUME NEW c \in Clients, SendStart(c) PROVE Goal
  <2> DEFINE m == [tag |-> session[c].id, at |-> Now]
  <2>1. Tock /\ commands' = commands \cup {m} /\ UNCHANGED <<trans, listeners>> /\ session[c].id \in Tags
    BY <1>a, <1>1 DEF SendStart
  <2>2. m \in Command /\ m.at = clock'
    BY <1>b, <2>1 DEF Command
  <2>3. \A n \in commands : n.at \in Nat
    BY <1>a, <1>b DEF Command
  <2> HIDE DEF m
  <2>4. \A n \in commands' : n.at <= clock'
    BY <1>a, <1>b, <2>1, <2>2, <2>3 DEF WorldInv
  <2> QED
    BY <1>a, <1>b, <2>1, <2>2, <2>4 DEF WorldInv
<1>2. ASSUME NEW t \in Trans, ChargerStarts(t) PROVE Goal
  <2>1. PICK m \in commands :
          /\ commands' = commands \ {m}
          /\ trans' = [trans EXCEPT ![t].tag = m.tag, ![t].at = Now, ![t].cmd = m.at]
    BY <1>2 DEF ChargerStarts
  <2>2. Tock /\ UNCHANGED listeners
    BY <1>2 DEF ChargerStarts
  <2> DEFINE d == [[[trans[t] EXCEPT !.tag = m.tag] EXCEPT !.at = Now] EXCEPT !.cmd = m.at]
  <2>3. trans' = [trans EXCEPT ![t] = d]
    BY <1>a, <2>1
  <2>4. trans[t] \in TransDoc /\ m.tag \in Tags /\ m.at \in Times /\ m.at \in Nat /\ m.at <= clock
    BY <1>a, <1>b DEF WorldInv, Command
  <2>5. d \in TransDoc /\ d.at = Now /\ d.cmd = m.at
    BY <1>b, <2>2, <2>4 DEF TransDoc
  <2>6. d.cmd <= d.at
    BY <1>b, <2>2, <2>4, <2>5
  <2> HIDE DEF d
  <2>7. trans' \in [Trans -> TransDoc] /\ \A x \in Trans : trans'[x].cmd <= trans'[x].at
    BY <1>a, <2>3, <2>5, <2>6 DEF WorldInv
  <2>8. \A n \in commands : n.at \in Nat /\ n.at <= clock
    BY <1>a, <1>b DEF WorldInv, Command
  <2>9. commands' \subseteq Command /\ \A n \in commands' : n.at <= clock'
    BY <1>a, <1>b, <2>1, <2>2, <2>8
  <2> QED
    BY <1>a, <1>b, <2>2, <2>7, <2>9 DEF WorldInv
<1>3. ASSUME NEW t \in Trans, ChargerStops(t) PROVE Goal
  <2> DEFINE d == [trans[t] EXCEPT !.finished = TRUE]
  <2>1. trans' = [trans EXCEPT ![t] = d] /\ UNCHANGED <<commands, clock, listeners>>
    BY <1>a, <1>3 DEF ChargerStops
  <2>2. d \in TransDoc /\ d.at = trans[t].at /\ d.cmd = trans[t].cmd
    <3>1. trans[t] \in TransDoc
      BY <1>a
    <3> QED
      BY <3>1 DEF TransDoc
  <2> HIDE DEF d
  <2> QED
    BY <1>a, <2>1, <2>2 DEF WorldInv
<1>4. ASSUME NEW c \in Clients, Follow(c) PROVE Goal
  BY <1>a, <1>c, <1>4 DEF Follow
<1>5. ASSUME NEW c \in Clients, NEW t \in Trans \cup {NoTrans}, StartStateListener(c, t), t \in Trans,
             UNCHANGED worldVars
      PROVE  Goal
  BY <1>a, <1>c, <1>5 DEF StartStateListener
<1>6. ASSUME NEW c \in Clients, Listen(c) \/ StopListen(c) \/ Open(c) PROVE Goal
  BY <1>a, <1>c, <1>5, <1>6 DEF Listen, StopListen, Open
<1>7. ASSUME NEW c \in Clients, Restore(c) PROVE Goal
  <2>1. UNCHANGED worldVars
    BY <1>7 DEF Restore
  <2>2. CASE UNCHANGED listeners
    BY <1>a, <1>c, <2>1, <2>2
  <2>3. CASE status[session[c].id].stage = "listen" /\ StartStateListener(c, status[session[c].id].tx)
    <3>1. session[c].id \in Tags \cup {NoTag}
      BY <1>a DEF Session
    <3>2. status[session[c].id].tx \in Trans
      BY <2>3, <3>1 DEF SessionsInv, ListenStatus
    <3> QED
      BY <1>5, <2>1, <2>3, <3>2
  <2> QED
    BY <1>7, <2>2, <2>3 DEF Restore
<1>8. ASSUME NEW c \in Clients, Login(c) \/ SendStartPanics(c) \/ SendStop(c) \/ Close(c)
      PROVE  UNCHANGED <<trans, commands, clock, listeners>>
  BY <1>8 DEF Login, SendStartPanics, Panic, SendStop, Close
<1>9. ASSUME NEW j \in Jobs, JobStep(j) PROVE UNCHANGED <<trans, commands, clock, listeners>>
  BY <1>9 DEF JobStep, StartTick, StopFirst, StopTick, Timeout, CleanUp, StateEnds
<1>10. ASSUME NEW i \in Tags, DeleteTag(i) PROVE UNCHANGED <<trans, commands, clock, listeners>>
  BY <1>10 DEF DeleteTag
<1>11. ASSUME UNCHANGED <<trans, commands, clock, listeners>> PROVE Goal
  BY <1>a, <1>c, <1>11
<1> HIDE DEF Goal
<1>12. Goal
  BY <1>1, <1>2, <1>3, <1>4, <1>6, <1>7, <1>8, <1>9, <1>10, <1>11 DEF SessionsNext, PumpStep
<1> QED
  BY <1>12 DEF Goal

-----------------------------------------------------------------------------
\* A fresh process: no connections, no listeners.
LEMMA SessionsInvInit == ASSUME SessionsInit PROVE SessionsInv
<1> USE DEF SessionsInit
<1>a. 0 \in Times /\ NoStatus \in Status /\ NoStatus.stage = "none" /\ NoJob \in Job /\ NoJob.kind = "none"
      /\ NewSession \in Session /\ NewSession.id = NoTag /\ NewSession.req = NoRequest
  BY Constants DEF NoStatus, Status, NoJob, Job, NewSession, Session, NoRequest, Request
<1>1. SessionsTypeOK
  BY <1>a DEF SessionsTypeOK
<1>2. WorldInv
  <2>1. [tag |-> NoTag, at |-> 0, cmd |-> 0, finished |-> FALSE] \in TransDoc
    BY <1>a DEF TransDoc
  <2>2. \A t \in Trans : trans[t].cmd = 0 /\ trans[t].at = 0
    OBVIOUS
  <2>3. 0 <= 0
    OBVIOUS
  <2> QED
    BY <2>1, <2>2, <2>3 DEF WorldInv
<1>3. SessionInv /\ ListenStatus /\ \A j \in Jobs : Listener(j)
  BY <1>a DEF SessionInv, ListenStatus, Listener
<1>4. OverlapInv /\ StatusWhileWaiting /\ SingleStateListener
  BY <1>a DEF OverlapInv, Waiting, StatusWhileWaiting, SingleStateListener, StateListeners
<1> QED
  BY <1>1, <1>2, <1>3, <1>4 DEF SessionsInv

LEMMA SessionsInvNext ==
  ASSUME SessionsInv, [SessionsNext]_sessionsVars PROVE SessionsInv'
<1>1. CASE SessionsNext
  BY <1>1, StepSessions, StepJobs, StepListeners, StepStatus, StepWorld
  DEF SessionsInv, SessionsTypeOK, JobsInv
<1>2. CASE UNCHANGED sessionsVars
  BY <1>2 DEF sessionsVars, worldVars, sessionVars, sessionsHistory, SessionsInv, SessionsTypeOK,
              WorldInv, SessionInv, ListenStatus, Listener, OverlapInv, Waiting, StatusWhileWaiting,
              SingleStateListener, StateListeners
<1> QED
  BY <1>1, <1>2

\* The inductive invariant holds in every reachable state.
THEOREM SessionsInvariant == SessionsSpec => []SessionsInv
BY SessionsInvInit, SessionsInvNext, PTL DEF SessionsSpec

(***************************************************************************)
(* The connections, the statuses and the listeners have their types: a     *)
(* goroutine never works for a connection that is not there.               *)
(***************************************************************************)
THEOREM SessionsTypeCorrect == SessionsSpec => []SessionsTypeOK
<1>1. SessionsInv => SessionsTypeOK
  BY DEF SessionsInv
<1> QED
  BY <1>1, SessionsInvariant, PTL

(***************************************************************************)
(* listenForTransactionStart never misses the transaction of its own       *)
(* request: the time that StartTransaction is compared with was taken      *)
(* before the command was sent, and the charger is later than the command. *)
(***************************************************************************)
THEOREM StartsAreNotMissed == SessionsSpec => []NoMissedStart
<1>1. SessionsInv => NoMissedStart
  BY DEF SessionsInv, WorldInv, Listener, NoMissedStart, NoJob
<1> QED
  BY <1>1, SessionsInvariant, PTL

(***************************************************************************)
(* The status reader keeps the state of every user whose connection waits: *)
(* ClearStatus of a listener that ends does not hit another's, unless both *)
(* waited for the same id.                                                 *)
(***************************************************************************)
THEOREM WaitingHasStatus == SessionsSpec => []StatusWhileWaiting
<1>1. SessionsInv => StatusWhileWaiting
  BY DEF SessionsInv
<1> QED
  BY <1>1, SessionsInvariant, PTL

(***************************************************************************)
(* ListenTransaction and restoreUserState together start at most one       *)
(* goroutine per connection and transaction, unless one was still stopping.*)
(***************************************************************************)
THEOREM OneStateListener == SessionsSpec => []SingleStateListener
<1>1. SessionsInv => SingleStateListener
  BY DEF SessionsInv
<1> QED
  BY <1>1, SessionsInvariant, PTL

(***************************************************************************)
(* readPump dereferences a nil payment method or user tag, and ends the    *)
(* process, only if the connection's id was deleted or never created.      *)
(***************************************************************************)
THEOREM PanicsOnlyWithoutTag == SessionsSpec => PanicOnlyWithoutTag
<1>1. ASSUME SessionsInv, [SessionsNext]_sessionsVars
      PROVE  [~crashed /\ crashed' => \E c \in Clients : session[c].id \in gone \cup {NoTag}]_crashed
  <2> SUFFICES ASSUME SessionsNext, ~crashed, crashed'
               PROVE  \E c \in Clients : session[c].id \in gone \cup {NoTag}
    BY <1>1 DEF sessionsVars, sessionsHistory
  <2>1. PICK c \in Clients : SendStartPanics(c)
    BY DEF SessionsNext, PumpStep, JobStep, Login, SendStart, SendStop, Follow, Listen, StopListen,
       Restore, Close, Open, StartTick, StopFirst, StopTick, Timeout, CleanUp, StateEnds,
       ChargerStarts, ChargerStops, DeleteTag, sessionsHistory, ListenerVars
  <2>2. session[c].id \in alive \cup gone \cup {NoTag} /\ session[c].id \notin alive
    BY <1>1, <2>1 DEF SessionsInv, SessionInv, SendStartPanics
  <2> QED
    BY <2>2
<1> QED
  BY <1>1, SessionsInvariant, PTL DEF SessionsSpec, PanicOnlyWithoutTag

=============================================================================

------------------------------ MODULE OrderLock ------------------------------
(***************************************************************************)
(* The keyed lock of the payment code (impl/core/core.go, lockOrder and    *)
(* unlockOrder).  A sync.Map holds one *sync.Mutex per transaction or      *)
(* order id; a caller loads or stores the entry, blocks on the mutex, and  *)
(* on the way out unlocks the mutex and only then deletes the entry.       *)
(*                                                                         *)
(* Each call on the map or on a mutex is one atomic step, as sync.Map and  *)
(* sync.Mutex guarantee; the gap between Unlock and Delete is a state.     *)
(***************************************************************************)
EXTENDS Naturals, FiniteSets

CONSTANTS
  Callers,   \* goroutines that call lockOrder / unlockOrder
  Ids,       \* transaction and order ids used as keys
  Mutexes,   \* mutex objects; one that nothing refers to may be allocated
  NoCaller, NoMutex, NoId

ASSUME LockAssumption ==
  /\ NoCaller \notin Callers
  /\ NoMutex \notin Mutexes
  /\ NoId \notin Ids

VARIABLES
  paymentLocks,  \* Core.paymentLocks: id -> mutex, NoMutex when absent
  owner,         \* mutex -> the caller holding it, NoCaller when unlocked
  lpc,           \* where a caller is in lockOrder / unlockOrder
  lid,           \* the id the caller passed, NoId outside
  ref,           \* the mutex the caller loaded, NoMutex outside
  orphaned       \* history: ids whose entry was deleted while in use

lockVars == <<paymentLocks, owner, lpc, lid, ref, orphaned>>

LockStates == {"idle", "waiting", "locked", "unlocked"}

(***************************************************************************)
(* A caller that still relies on the entry of id: it holds the loaded      *)
(* mutex or is blocked on it.                                              *)
(***************************************************************************)
Using(c, id) == lid[c] = id /\ lpc[c] \in {"waiting", "locked"}

Holds(c, id) == lid[c] = id /\ lpc[c] = "locked"

\* A mutex neither the map nor a caller refers to (&sync.Mutex{} is new).
Fresh(m) ==
  /\ \A id \in Ids : paymentLocks[id] # m
  /\ \A c \in Callers : ref[c] # m

LockInit ==
  /\ paymentLocks = [id \in Ids |-> NoMutex]
  /\ owner = [m \in Mutexes |-> NoCaller]
  /\ lpc = [c \in Callers |-> "idle"]
  /\ lid = [c \in Callers |-> NoId]
  /\ ref = [c \in Callers |-> NoMutex]
  /\ orphaned = {}

-----------------------------------------------------------------------------
\* Mutant of LoadOrStore: Store, every caller gets a mutex of its own.
StoreAlways(c, id) ==
  /\ lpc[c] = "idle"
  /\ \E m \in Mutexes :
       /\ Fresh(m)
       /\ paymentLocks' = [paymentLocks EXCEPT ![id] = m]
       /\ ref' = [ref EXCEPT ![c] = m]
  /\ lpc' = [lpc EXCEPT ![c] = "waiting"]
  /\ lid' = [lid EXCEPT ![c] = id]
  /\ UNCHANGED <<owner, orphaned>>

\* Mutant of LoadOrStore: a missing mutex comes from a pool to which it went
\* back with the entry, whoever still waits for it.
StorePooled(c, id) ==
  /\ lpc[c] = "idle"
  /\ \E m \in Mutexes :
       /\ IF paymentLocks[id] = NoMutex THEN \A i \in Ids : paymentLocks[i] # m
                                        ELSE m = paymentLocks[id]
       /\ paymentLocks' = [paymentLocks EXCEPT ![id] = m]
       /\ ref' = [ref EXCEPT ![c] = m]
  /\ lpc' = [lpc EXCEPT ![c] = "waiting"]
  /\ lid' = [lid EXCEPT ![c] = id]
  /\ UNCHANGED <<owner, orphaned>>

\* paymentLocks.LoadOrStore(id, &sync.Mutex{})
LoadOrStore(c, id) ==
  /\ lpc[c] = "idle"
  /\ \E m \in Mutexes :
       /\ IF paymentLocks[id] = NoMutex THEN Fresh(m) ELSE m = paymentLocks[id]
       /\ paymentLocks' = [paymentLocks EXCEPT ![id] = m]
       /\ ref' = [ref EXCEPT ![c] = m]
  /\ lpc' = [lpc EXCEPT ![c] = "waiting"]
  /\ lid' = [lid EXCEPT ![c] = id]
  /\ UNCHANGED <<owner, orphaned>>

\* mutex.Lock() returns
Acquire(c) ==
  /\ lpc[c] = "waiting"
  /\ owner[ref[c]] = NoCaller
  /\ owner' = [owner EXCEPT ![ref[c]] = c]
  /\ lpc' = [lpc EXCEPT ![c] = "locked"]
  /\ UNCHANGED <<paymentLocks, lid, ref, orphaned>>

\* Mutant of Unlock: the mutex stays locked.
ForgetUnlock(c) ==
  /\ lpc[c] = "locked"
  /\ lpc' = [lpc EXCEPT ![c] = "unlocked"]
  /\ UNCHANGED <<paymentLocks, owner, lid, ref, orphaned>>

\* mutex.Unlock()
Unlock(c) ==
  /\ lpc[c] = "locked"
  /\ owner' = [owner EXCEPT ![ref[c]] = NoCaller]
  /\ lpc' = [lpc EXCEPT ![c] = "unlocked"]
  /\ UNCHANGED <<paymentLocks, lid, ref, orphaned>>

\* Mutant of Delete: the entry stays in the map.
KeepEntry(c) ==
  /\ lpc[c] = "unlocked"
  /\ lpc' = [lpc EXCEPT ![c] = "idle"]
  /\ lid' = [lid EXCEPT ![c] = NoId]
  /\ ref' = [ref EXCEPT ![c] = NoMutex]
  /\ UNCHANGED <<paymentLocks, owner, orphaned>>

\* paymentLocks.Delete(id): whatever entry id has now, whoever stored it
Delete(c) ==
  /\ lpc[c] = "unlocked"
  /\ paymentLocks' = [paymentLocks EXCEPT ![lid[c]] = NoMutex]
  /\ orphaned' = IF \E d \in Callers : Using(d, lid[c])
                 THEN orphaned \cup {lid[c]} ELSE orphaned
  /\ lpc' = [lpc EXCEPT ![c] = "idle"]
  /\ lid' = [lid EXCEPT ![c] = NoId]
  /\ ref' = [ref EXCEPT ![c] = NoMutex]
  /\ UNCHANGED owner

LockStep(c) ==
  \/ \E id \in Ids : LoadOrStore(c, id)
  \/ Acquire(c)
  \/ Unlock(c)
  \/ Delete(c)

LockNext == \E c \in Callers : LockStep(c)

LockSpec == LockInit /\ [][LockNext]_lockVars

(***************************************************************************)
(* A caller that holds the lock runs on (the critical sections make        *)
(* bounded database calls), and sync.Mutex hands a starving waiter the     *)
(* lock after 1 ms, which is strong fairness of Acquire.                   *)
(***************************************************************************)
LockFairness ==
  \A c \in Callers :
    /\ SF_lockVars(Acquire(c))
    /\ WF_lockVars(Unlock(c))
    /\ WF_lockVars(Delete(c))

FairLockSpec == LockSpec /\ LockFairness

-----------------------------------------------------------------------------
\* Types of the lock's state.
LockTypeOK ==
  /\ paymentLocks \in [Ids -> Mutexes \cup {NoMutex}]
  /\ owner \in [Mutexes -> Callers \cup {NoCaller}]
  /\ lpc \in [Callers -> LockStates]
  /\ lid \in [Callers -> Ids \cup {NoId}]
  /\ ref \in [Callers -> Mutexes \cup {NoMutex}]
  /\ orphaned \subseteq Ids

(***************************************************************************)
(* "cleans up to prevent memory leaks" (unlockOrder): an entry of the map  *)
(* always belongs to a call that has not deleted it yet, so the map is     *)
(* empty whenever no call is in progress.                                  *)
(***************************************************************************)
NoLeak ==
  \A id \in Ids :
    paymentLocks[id] # NoMutex =>
      \E c \in Callers : lid[c] = id /\ ref[c] = paymentLocks[id]

(***************************************************************************)
(* What lockOrder's comment promises: two callers are never both inside    *)
(* the section of one id.  The code does not keep it.                      *)
(***************************************************************************)
MutualExclusion ==
  \A id \in Ids : \A c, d \in Callers :
    Holds(c, id) /\ Holds(d, id) => c = d

(***************************************************************************)
(* What the code does keep: the section of id is exclusive as long as      *)
(* unlockOrder never deleted the entry of id under a caller that had       *)
(* already loaded it.                                                      *)
(***************************************************************************)
ExclusiveUnlessOrphaned ==
  \A id \in Ids \ orphaned : \A c, d \in Callers :
    Holds(c, id) /\ Holds(d, id) => c = d

(***************************************************************************)
(* "per-order": a caller blocked in lockOrder waits for a call of its own  *)
(* id, one that is in the section and will unlock; never for a call of     *)
(* another id, nor for a mutex that nobody is left to unlock, whatever     *)
(* entries were deleted and stored again in the meantime.                  *)
(***************************************************************************)
WaitsForOwnId ==
  \A c \in Callers : lpc[c] = "waiting" =>
    \/ owner[ref[c]] = NoCaller
    \/ \E d \in Callers \ {c} :
         owner[ref[c]] = d /\ ref[d] = ref[c] /\ Holds(d, lid[c])

\* A caller blocked in lockOrder gets the lock: deleting an entry never
\* strands the callers that wait on its mutex.
WaiterGetsLock ==
  \A c \in Callers : lpc[c] = "waiting" ~> lpc[c] = "locked"
=============================================================================

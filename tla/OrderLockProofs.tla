--------------------------- MODULE OrderLockProofs ---------------------------
(***************************************************************************)
(* Proofs about OrderLock for any sets of callers, ids and mutexes.        *)
(***************************************************************************)
EXTENDS OrderLock, TLAPS

(* A caller inside lockOrder/unlockOrder has an id and a loaded mutex; an  *)
(* idle one has neither.                                                   *)
CallShape ==
  \A c \in Callers :
    /\ lpc[c] = "idle" => lid[c] = NoId /\ ref[c] = NoMutex
    /\ lpc[c] # "idle" => lid[c] \in Ids /\ ref[c] \in Mutexes

(* A caller in the section owns the mutex it loaded. *)
OwnerInv == \A c \in Callers : lpc[c] = "locked" => owner[ref[c]] = c

(* Until an entry is deleted under them, the callers of id all rely on the *)
(* entry that is in the map now.                                           *)
CurrentEntry ==
  \A id \in Ids \ orphaned : \A c \in Callers :
    Using(c, id) => ref[c] = paymentLocks[id]

(* The inductive invariant. *)
LockInv ==
  /\ LockTypeOK
  /\ CallShape
  /\ OwnerInv
  /\ NoLeak
  /\ CurrentEntry

(* The lock starts with an empty map and no caller inside. *)
LEMMA InitLockInv == LockInit => LockInv
  BY LockAssumption
  DEF LockInit, LockInv, LockTypeOK, CallShape, OwnerInv, NoLeak, CurrentEntry,
      Using, LockStates

(* LoadOrStore keeps the invariant: the mutex a caller gets is the entry   *)
(* that is in the map when it returns.                                     *)
LEMMA LoadOrStoreLockInv ==
  ASSUME LockInv, NEW c \in Callers, NEW id \in Ids, LoadOrStore(c, id)
  PROVE  LockInv'
  <1> PICK m \in Mutexes :
        /\ IF paymentLocks[id] = NoMutex THEN Fresh(m) ELSE m = paymentLocks[id]
        /\ paymentLocks' = [paymentLocks EXCEPT ![id] = m]
        /\ ref' = [ref EXCEPT ![c] = m]
    BY DEF LoadOrStore
  <1> USE LockAssumption DEF LockInv, LockTypeOK, LoadOrStore
  <1>1. LockTypeOK'
    BY DEF LockStates
  <1>2. CallShape'
    BY DEF CallShape
  <1>3. OwnerInv'
    BY DEF OwnerInv
  <1>4. NoLeak'
    BY DEF NoLeak, CallShape
  <1>5. CurrentEntry'
    <2> SUFFICES ASSUME NEW i \in Ids \ orphaned, NEW d \in Callers, Using(d, i)'
                 PROVE  ref'[d] = paymentLocks'[i]
      BY DEF CurrentEntry
    <2>1. CASE d = c
      BY <2>1 DEF Using
    <2>2. CASE d # c
      BY <2>2 DEF CurrentEntry, Using, CallShape
    <2> QED
      BY <2>1, <2>2
  <1> QED
    BY <1>1, <1>2, <1>3, <1>4, <1>5

(* Lock succeeds only on a free mutex, so it takes none from its owner. *)
LEMMA AcquireLockInv ==
  ASSUME LockInv, NEW c \in Callers, Acquire(c)
  PROVE  LockInv'
  <1> USE LockAssumption DEF LockInv, LockTypeOK, Acquire
  <1>0. ref[c] \in Mutexes
    BY DEF CallShape
  <1>1. LockTypeOK'
    BY DEF LockStates
  <1>2. CallShape'
    BY DEF CallShape
  <1>3. OwnerInv'
    BY <1>0 DEF OwnerInv, CallShape
  <1>4. NoLeak'
    BY DEF NoLeak
  <1>5. CurrentEntry'
    BY DEF CurrentEntry, Using
  <1> QED
    BY <1>1, <1>2, <1>3, <1>4, <1>5

(* Unlock frees the caller's own mutex and nobody else's. *)
LEMMA UnlockLockInv ==
  ASSUME LockInv, NEW c \in Callers, Unlock(c)
  PROVE  LockInv'
  <1> USE LockAssumption DEF LockInv, LockTypeOK, Unlock
  <1>0. ref[c] \in Mutexes /\ owner[ref[c]] = c
    BY DEF CallShape, OwnerInv
  <1>1. LockTypeOK'
    BY DEF LockStates
  <1>2. CallShape'
    BY DEF CallShape
  <1>3. OwnerInv'
    BY <1>0 DEF OwnerInv, CallShape
  <1>4. NoLeak'
    BY DEF NoLeak
  <1>5. CurrentEntry'
    BY DEF CurrentEntry, Using
  <1> QED
    BY <1>1, <1>2, <1>3, <1>4, <1>5

(* Delete empties the entry of its id; if another caller still relies on   *)
(* that entry the id becomes orphaned, otherwise nobody is left to tell.   *)
LEMMA DeleteLockInv ==
  ASSUME LockInv, NEW c \in Callers, Delete(c)
  PROVE  LockInv'
  <1> USE LockAssumption DEF LockInv, LockTypeOK, Delete
  <1>0. lid[c] \in Ids
    BY DEF CallShape
  <1>1. LockTypeOK'
    BY <1>0 DEF LockStates
  <1>2. CallShape'
    BY DEF CallShape
  <1>3. OwnerInv'
    BY DEF OwnerInv
  <1>4. NoLeak'
    <2> SUFFICES ASSUME NEW i \in Ids, paymentLocks'[i] # NoMutex
                 PROVE  \E d \in Callers : lid'[d] = i /\ ref'[d] = paymentLocks'[i]
      BY DEF NoLeak
    <2>1. i # lid[c] /\ paymentLocks'[i] = paymentLocks[i]
      BY <1>0
    <2>2. PICK d \in Callers : lid[d] = i /\ ref[d] = paymentLocks[i]
      BY <2>1 DEF NoLeak
    <2>3. d # c
      BY <2>1, <2>2
    <2> QED
      BY <2>1, <2>2, <2>3
  <1>5. CurrentEntry'
    <2> SUFFICES ASSUME NEW i \in Ids \ orphaned', NEW d \in Callers, Using(d, i)'
                 PROVE  ref'[d] = paymentLocks'[i]
      BY DEF CurrentEntry
    <2>1. d # c /\ Using(d, i) /\ i \notin orphaned
      BY <1>0 DEF Using
    <2>2. i # lid[c]
      BY <2>1, <1>0
    <2> QED
      BY <2>1, <2>2, <1>0 DEF CurrentEntry
  <1> QED
    BY <1>1, <1>2, <1>3, <1>4, <1>5

(* Every step of every caller keeps the invariant. *)
LEMMA NextLockInv == LockInv /\ [LockNext]_lockVars => LockInv'
  <1> SUFFICES ASSUME LockInv, [LockNext]_lockVars
               PROVE  LockInv'
    OBVIOUS
  <1>1. CASE LockNext
    <2> PICK c \in Callers : LockStep(c)
      BY <1>1 DEF LockNext
    <2>1. CASE \E id \in Ids : LoadOrStore(c, id)
      BY <2>1, LoadOrStoreLockInv
    <2>2. CASE Acquire(c)
      BY <2>2, AcquireLockInv
    <2>3. CASE Unlock(c)
      BY <2>3, UnlockLockInv
    <2>4. CASE Delete(c)
      BY <2>4, DeleteLockInv
    <2> QED
      BY <2>1, <2>2, <2>3, <2>4 DEF LockStep
  <1>2. CASE UNCHANGED lockVars
    BY <1>2
    DEF lockVars, LockInv, LockTypeOK, CallShape, OwnerInv, NoLeak, CurrentEntry, Using
  <1> QED
    BY <1>1, <1>2

(* The inductive invariant holds in every reachable state. *)
THEOREM LockInvariant == LockSpec => []LockInv
  BY InitLockInv, NextLockInv, PTL DEF LockSpec

(* lockOrder and unlockOrder keep the types of the lock's state. *)
THEOREM LockTypeCorrect == LockSpec => []LockTypeOK
  <1>1. LockInv => LockTypeOK
    BY DEF LockInv
  <1> QED
    BY <1>1, LockInvariant, PTL

(* unlockOrder's clean-up: an entry of the map always belongs to a call    *)
(* still in progress, for any number of callers and ids.                   *)
THEOREM LockNoLeak == LockSpec => []NoLeak
  <1>1. LockInv => NoLeak
    BY DEF LockInv
  <1> QED
    BY <1>1, LockInvariant, PTL

(* Two callers in the section of an id that is not orphaned own the mutex  *)
(* of its entry, so they are one.                                          *)
LEMMA ExclusionFromInv == LockInv => ExclusiveUnlessOrphaned
  <1> SUFFICES ASSUME LockInv, NEW id \in Ids \ orphaned,
                      NEW c \in Callers, NEW d \in Callers,
                      Holds(c, id), Holds(d, id)
               PROVE  c = d
    BY DEF ExclusiveUnlessOrphaned
  <1>1. ref[c] = paymentLocks[id] /\ ref[d] = paymentLocks[id]
    BY DEF LockInv, CurrentEntry, Holds, Using
  <1>2. owner[ref[c]] = c /\ owner[ref[d]] = d
    BY DEF LockInv, OwnerInv, Holds
  <1> QED
    BY <1>1, <1>2

(* lockOrder excludes concurrent callers of an id as long as unlockOrder   *)
(* has not deleted that id's entry under a caller that had loaded it.      *)
THEOREM LockExclusion == LockSpec => []ExclusiveUnlessOrphaned
  BY ExclusionFromInv, LockInvariant, PTL

-----------------------------------------------------------------------------
(* A mutex that is locked is held by a caller inside the section of the id *)
(* it loaded that mutex for.                                               *)
HeldInside ==
  \A m \in Mutexes :
    owner[m] # NoCaller => lpc[owner[m]] = "locked" /\ ref[owner[m]] = m

(* A mutex serves one id at a time: the callers that refer to it passed    *)
(* the same id, and an entry it is stored in is the entry of that id.      *)
MutexOfOneId ==
  \A c \in Callers : ref[c] # NoMutex =>
    /\ \A d \in Callers : ref[d] = ref[c] => lid[d] = lid[c]
    /\ \A id \in Ids : paymentLocks[id] = ref[c] => lid[c] = id

(* What keeps the waits of different ids apart. *)
WaitInv == HeldInside /\ MutexOfOneId

LEMMA InitWaitInv == LockInit => WaitInv
  BY DEF LockInit, WaitInv, HeldInside, MutexOfOneId

(* A stored mutex is new, hence of no other id; a loaded one is the entry  *)
(* of the caller's own id, and every caller that refers to it passed it.   *)
LEMMA LoadOrStoreWaitInv ==
  ASSUME LockInv, WaitInv, NEW c \in Callers, NEW id \in Ids, LoadOrStore(c, id)
  PROVE  WaitInv'
  <1> PICK m \in Mutexes :
        /\ IF paymentLocks[id] = NoMutex THEN Fresh(m) ELSE m = paymentLocks[id]
        /\ paymentLocks' = [paymentLocks EXCEPT ![id] = m]
        /\ ref' = [ref EXCEPT ![c] = m]
    BY DEF LoadOrStore
  <1>1. /\ paymentLocks'[id] = m /\ ref'[c] = m /\ lid'[c] = id /\ m # NoMutex
        /\ \A i \in Ids \ {id} : paymentLocks'[i] = paymentLocks[i]
        /\ \A d \in Callers \ {c} :
             ref'[d] = ref[d] /\ lid'[d] = lid[d] /\ lpc'[d] = lpc[d]
        /\ lpc[c] = "idle" /\ owner' = owner
    BY LockAssumption DEF LockInv, LockTypeOK, LoadOrStore
  <1>2. \A d \in Callers \ {c} : ref[d] = m => lid[d] = id
    BY <1>1 DEF WaitInv, MutexOfOneId, Fresh
  <1>3. \A i \in Ids \ {id} : paymentLocks[i] # m
    <2>1. CASE paymentLocks[id] = NoMutex
      BY <2>1 DEF Fresh
    <2>2. CASE paymentLocks[id] # NoMutex
      <3>1. PICK d \in Callers : lid[d] = id /\ ref[d] = paymentLocks[id]
        BY <2>2 DEF LockInv, NoLeak
      <3> QED
        BY <2>2, <3>1 DEF WaitInv, MutexOfOneId
    <2> QED
      BY <2>1, <2>2
  <1>4. HeldInside'
    <2> SUFFICES ASSUME NEW n \in Mutexes, owner[n] # NoCaller
                 PROVE  lpc'[owner[n]] = "locked" /\ ref'[owner[n]] = n
      BY <1>1 DEF HeldInside
    <2>1. owner[n] \in Callers /\ lpc[owner[n]] = "locked" /\ ref[owner[n]] = n
      BY DEF LockInv, LockTypeOK, WaitInv, HeldInside
    <2> QED
      BY <1>1, <2>1
  <1>5. MutexOfOneId'
    <2> SUFFICES ASSUME NEW d \in Callers, ref'[d] # NoMutex
                 PROVE  /\ \A e \in Callers : ref'[e] = ref'[d] => lid'[e] = lid'[d]
                        /\ \A i \in Ids : paymentLocks'[i] = ref'[d] => lid'[d] = i
      BY DEF MutexOfOneId
    <2>1. CASE d = c
      BY <1>1, <1>2, <1>3, <2>1
    <2>2. CASE d # c
      <3>1. ref'[d] = ref[d] /\ lid'[d] = lid[d]
        BY <1>1, <2>2
      <3>2. \A e \in Callers : ref'[e] = ref'[d] => lid'[e] = lid'[d]
        BY <1>1, <1>2, <2>2, <3>1 DEF WaitInv, MutexOfOneId
      <3>3. \A i \in Ids : paymentLocks'[i] = ref'[d] => lid'[d] = i
        BY <1>1, <1>2, <2>2, <3>1 DEF WaitInv, MutexOfOneId
      <3> QED
        BY <3>2, <3>3
    <2> QED
      BY <2>1, <2>2
  <1> QED
    BY <1>4, <1>5 DEF WaitInv

(* Lock makes the caller the owner of the mutex it loaded. *)
LEMMA AcquireWaitInv ==
  ASSUME LockInv, WaitInv, NEW c \in Callers, Acquire(c)
  PROVE  WaitInv'
  <1>1. HeldInside'
    BY LockAssumption DEF LockInv, LockTypeOK, CallShape, WaitInv, HeldInside, Acquire
  <1>2. MutexOfOneId'
    BY DEF WaitInv, MutexOfOneId, Acquire
  <1> QED
    BY <1>1, <1>2 DEF WaitInv

(* Unlock leaves the section and the mutex in one step. *)
LEMMA UnlockWaitInv ==
  ASSUME LockInv, WaitInv, NEW c \in Callers, Unlock(c)
  PROVE  WaitInv'
  <1>1. HeldInside'
    <2> SUFFICES ASSUME NEW m \in Mutexes, owner'[m] # NoCaller
                 PROVE  lpc'[owner'[m]] = "locked" /\ ref'[owner'[m]] = m
      BY DEF HeldInside
    <2>1. m # ref[c] /\ owner'[m] = owner[m]
      BY DEF LockInv, LockTypeOK, Unlock
    <2>2. owner[m] \in Callers /\ lpc[owner[m]] = "locked" /\ ref[owner[m]] = m
      BY <2>1 DEF LockInv, LockTypeOK, WaitInv, HeldInside
    <2> QED
      BY <2>1, <2>2 DEF LockInv, LockTypeOK, Unlock
  <1>2. MutexOfOneId'
    BY DEF WaitInv, MutexOfOneId, Unlock
  <1> QED
    BY <1>1, <1>2 DEF WaitInv

(* Delete drops an entry and a reference; the mutex may live on, but only  *)
(* with callers of the id it had.                                          *)
LEMMA DeleteWaitInv ==
  ASSUME LockInv, WaitInv, NEW c \in Callers, Delete(c)
  PROVE  WaitInv'
  <1>1. /\ lpc[c] = "unlocked" /\ ref'[c] = NoMutex /\ owner' = owner
        /\ \A d \in Callers \ {c} :
             ref'[d] = ref[d] /\ lid'[d] = lid[d] /\ lpc'[d] = lpc[d]
        /\ \A id \in Ids : paymentLocks'[id] \in {NoMutex, paymentLocks[id]}
    BY DEF LockInv, LockTypeOK, Delete
  <1>2. HeldInside'
    <2> SUFFICES ASSUME NEW m \in Mutexes, owner[m] # NoCaller
                 PROVE  lpc'[owner[m]] = "locked" /\ ref'[owner[m]] = m
      BY <1>1 DEF HeldInside
    <2>1. owner[m] \in Callers /\ lpc[owner[m]] = "locked" /\ ref[owner[m]] = m
      BY DEF LockInv, LockTypeOK, WaitInv, HeldInside
    <2> QED
      BY <1>1, <2>1
  <1>3. MutexOfOneId'
    <2> SUFFICES ASSUME NEW d \in Callers, ref'[d] # NoMutex
                 PROVE  /\ \A e \in Callers : ref'[e] = ref'[d] => lid'[e] = lid'[d]
                        /\ \A i \in Ids : paymentLocks'[i] = ref'[d] => lid'[d] = i
      BY DEF MutexOfOneId
    <2>1. d # c /\ ref'[d] = ref[d] /\ lid'[d] = lid[d]
      BY <1>1
    <2> QED
      BY <1>1, <2>1 DEF WaitInv, MutexOfOneId
  <1> QED
    BY <1>2, <1>3 DEF WaitInv

(* Every step of every caller keeps the waits apart. *)
LEMMA NextWaitInv == LockInv /\ WaitInv /\ [LockNext]_lockVars => WaitInv'
  <1> SUFFICES ASSUME LockInv, WaitInv, [LockNext]_lockVars
               PROVE  WaitInv'
    OBVIOUS
  <1>1. CASE LockNext
    <2> PICK c \in Callers : LockStep(c)
      BY <1>1 DEF LockNext
    <2>1. CASE \E id \in Ids : LoadOrStore(c, id)
      BY <2>1, LoadOrStoreWaitInv
    <2>2. CASE Acquire(c)
      BY <2>2, AcquireWaitInv
    <2>3. CASE Unlock(c)
      BY <2>3, UnlockWaitInv
    <2>4. CASE Delete(c)
      BY <2>4, DeleteWaitInv
    <2> QED
      BY <2>1, <2>2, <2>3, <2>4 DEF LockStep
  <1>2. CASE UNCHANGED lockVars
    BY <1>2 DEF lockVars, WaitInv, HeldInside, MutexOfOneId
  <1> QED
    BY <1>1, <1>2

(* The owner of the mutex a caller waits on is in the section of its id.   *)
LEMMA WaitFromInv == LockInv /\ WaitInv => WaitsForOwnId
  <1> SUFFICES ASSUME LockInv, WaitInv, NEW c \in Callers, lpc[c] = "waiting",
                      owner[ref[c]] # NoCaller
               PROVE  \E d \in Callers \ {c} :
                        owner[ref[c]] = d /\ ref[d] = ref[c] /\ Holds(d, lid[c])
    BY DEF WaitsForOwnId
  <1>1. ref[c] \in Mutexes /\ ref[c] # NoMutex
    BY LockAssumption DEF LockInv, CallShape
  <1>2. /\ owner[ref[c]] \in Callers \ {c}
        /\ lpc[owner[ref[c]]] = "locked" /\ ref[owner[ref[c]]] = ref[c]
    BY <1>1 DEF LockInv, LockTypeOK, WaitInv, HeldInside
  <1>3. lid[owner[ref[c]]] = lid[c]
    BY <1>1, <1>2 DEF WaitInv, MutexOfOneId
  <1> QED
    BY <1>2, <1>3 DEF Holds

(* lockOrder is a lock per id whatever unlockOrder deletes: a blocked      *)
(* caller waits for a call of its own id that is inside and will unlock,   *)
(* for any number of callers, ids and mutexes.                             *)
THEOREM LockWaitsForOwnId == LockSpec => []WaitsForOwnId
  <1>1. LockSpec => []WaitInv
    <2>1. LockInv /\ LockInv' /\ WaitInv /\ [LockNext]_lockVars => WaitInv'
      BY NextWaitInv
    <2> QED
      BY <2>1, InitWaitInv, LockInvariant, PTL DEF LockSpec
  <1> QED
    BY <1>1, WaitFromInv, LockInvariant, PTL
=============================================================================

----------------------------- MODULE UsersProofs -----------------------------
(***************************************************************************)
(* The authenticator: for any number of concurrent requests, names, ids    *)
(* and keys, accounts are unique, the token of a login stays valid and a   *)
(* tag is created for a user only if he has none.                          *)
(*                                                                         *)
(* The argument is the same for all three: what a request has read under   *)
(* the mutex is still true when it writes, because nobody else writes in   *)
(* between.                                                                *)
(***************************************************************************)
EXTENDS Users, TLAPS

\* The states in which a request is inside an operation of the authenticator.
Inside == {"seen", "addApp", "login", "register", "useInvite", "create", "update",
           "delete", "useTag", "addTag"}

MoreTypes ==
  /\ upc \in [Handlers -> Inside \cup {"idle", "authed"}]
  /\ held \in [UserNames -> 0..MaxKeys]
  /\ misread \in BOOLEAN

MuxInv == \A h \in Handlers : upc[h] \in Inside <=> mux = h

\* No account has the name or the id of d.
Fresh(d) == \A u \in users : u.name # d.name /\ u.uid # d.uid

\* The name and the id of d were generated already, if they are keys.
Generated(d) == (d.name \in Keys => d.name <= keys) /\ (d.uid \in Keys => d.uid <= keys)

\* What a request knows at each point.
Knows(h) ==
  /\ upc[h] \in {"seen", "addApp", "authed", "useTag", "addTag"} => author[h] \in UserDoc
  /\ upc[h] \in {"login", "register", "useInvite", "create", "update", "delete"}
       => found[h] \in UserDoc
  /\ upc[h] = "seen" => author[h] \in users
  /\ upc[h] = "addApp" => Generated(author[h]) /\ (~misread => Fresh(author[h]))
  /\ upc[h] \in {"register", "create"} => Generated(found[h]) /\ (~misread => Fresh(found[h]))
  /\ upc[h] = "login" => \E u \in users : u.name = found[h].name
  /\ upc[h] = "login" => found[h].token \in Keys
  /\ upc[h] = "addTag" => GetUserTags(author[h].uid) = {}

UsersInv ==
  /\ UsersTypeOK /\ MoreTypes /\ MuxInv
  /\ \A h \in Handlers : Knows(h)
  /\ \A u \in users : Generated(u)
  /\ UniqueAccounts /\ LoginHolds

RequestStep(h) ==
  \/ Authenticate(h) \/ PublicRoute(h) \/ GenerateInvite(h)
  \/ UsersRoute(h) \/ TagsRoute(h) \/ OwnTag(h)
  \/ Reject(h) \/ RequestDeadline(h)

-----------------------------------------------------------------------------
\* The installation: one administrator, nobody logged in.
LEMMA UsersInvInit == ASSUME UsersInit PROVE UsersInv
<1>a. 0 \in 0..MaxKeys /\ 1 \in Keys /\ 1 \in 0..MaxKeys 
      /\ NoHandler \notin Handlers /\ Admin \in Names /\ Admin \notin Keys
  BY UsersAssumption DEF Keys
<1> USE <1>a DEF UsersInit, UserNames, UserIds
<1>1. UsersTypeOK
  BY DEF UsersTypeOK, UserDoc, Roles
<1>2. MoreTypes /\ MuxInv
  BY DEF MoreTypes, MuxInv, Inside
<1>3. \A h \in Handlers : Knows(h)
  BY DEF Knows
<1>4. \A u \in users : Generated(u)
  BY DEF Generated
<1>5. UniqueAccounts /\ LoginHolds
  BY DEF UniqueAccounts, LoginHolds
<1> QED
  BY <1>1, <1>2, <1>3, <1>4, <1>5 DEF UsersInv

\* Who does not hold the mutex can at most reject his request while another
\* request is inside.
LEMMA Excluded ==
  ASSUME UsersInv, NEW h \in Handlers, mux \notin {NoHandler, h},
         RequestStep(h)
  PROVE  Reject(h)
<1>1. upc[h] \notin Inside
  BY DEF UsersInv, MuxInv
<1> QED
  BY <1>1 DEF RequestStep, Inside, Authenticate, PublicRoute, GenerateInvite, UsersRoute, TagsRoute, OwnTag,
     RequestDeadline, TokenRead, FirebaseRead, FirebaseAdd, Seen, LoginRead, LoginWrite,
     RegisterRead, RegisterAdd, UseInvite, CreateRead, CreateAdd, ChangeRead, UpdateWrite,
     DeleteWrite, CreateUserTag, UpdateUserTag, DeleteUserTag, TagRead, UseTag, AddTag, Lock, Step

\* The other requests of a step of h keep their place and their copies.
Frame(h) ==
  \A k \in Handlers \ {h} : upc'[k] = upc[k] /\ author'[k] = author[k] /\ found'[k] = found[k]

LEMMA OthersStay ==
  ASSUME UsersInv, NEW h \in Handlers, RequestStep(h)
  PROVE  Frame(h) /\ (misread => misread')
<1> USE DEF UsersInv, UsersTypeOK, MoreTypes, Frame, Lock, Unlock, Step, storeVars, usersHistory,
        requestVars
<1>1. CASE Authenticate(h)
  BY <1>1 DEF Authenticate, TokenRead, FirebaseRead, FirebaseAdd, Seen, PutUser, NotFound
<1>2. CASE PublicRoute(h) \/ GenerateInvite(h)
  BY <1>2 DEF PublicRoute, LoginRead, LoginWrite, RegisterRead, RegisterAdd, UseInvite, NotFound,
              GenerateInvite
<1>3. CASE UsersRoute(h)
  BY <1>3 DEF UsersRoute, CreateRead, CreateAdd, ChangeRead, UpdateWrite, DeleteWrite, NotFound
<1>4. CASE TagsRoute(h) \/ OwnTag(h) \/ Reject(h) \/ RequestDeadline(h)
  BY <1>4 DEF TagsRoute, OwnTag, Reject, RequestDeadline, CreateUserTag, UpdateUserTag,
              DeleteUserTag, TagRead, UseTag, AddTag
<1> QED
  BY <1>1, <1>2, <1>3, <1>4 DEF RequestStep

\* The mutex.
LEMMA StepMux ==
  ASSUME UsersInv, NEW h \in Handlers, RequestStep(h)
  PROVE  /\ upc' \in [Handlers -> Inside \cup {"idle", "authed"}]
         /\ MuxInv' /\ mux' \in Handlers \cup {NoHandler}
<1> USE DEF UsersInv, UsersTypeOK, MoreTypes
<1>0. NoHandler \notin Handlers /\ upc \in [Handlers -> Inside \cup {"idle", "authed"}]
  BY UsersAssumption
<1>1. ASSUME NEW from \in {"idle", "authed"}, NEW to \in Inside, Lock(h, from, to)
      PROVE  upc' \in [Handlers -> Inside \cup {"idle", "authed"}] /\ MuxInv' /\ mux' \in Handlers \cup {NoHandler}
  BY <1>0, <1>1 DEF Lock, MuxInv
<1>2. ASSUME NEW to \in {"idle", "authed"}, Unlock(h, to), mux \in {h, NoHandler}
      PROVE  upc' \in [Handlers -> Inside \cup {"idle", "authed"}] /\ MuxInv' /\ mux' \in Handlers \cup {NoHandler}
  BY <1>0, <1>2 DEF Unlock, MuxInv, Inside
<1>3. ASSUME NEW from \in Inside, NEW to \in Inside, Step(h, from, to), UNCHANGED mux
      PROVE  upc' \in [Handlers -> Inside \cup {"idle", "authed"}] /\ MuxInv' /\ mux' \in Handlers \cup {NoHandler}
  BY <1>0, <1>3 DEF Step, MuxInv
<1>4. CASE UNCHANGED <<upc, mux>>
  BY <1>4 DEF MuxInv
<1>5. CASE Reject(h)
  BY <1>0, <1>5 DEF Reject, Step, MuxInv, Inside
<1>6. CASE Authenticate(h)
  <2>1. CASE TokenRead(h) \/ FirebaseRead(h)
    BY <1>1, <2>1 DEF TokenRead, FirebaseRead, Inside
  <2>2. CASE FirebaseAdd(h)
    BY <1>3, <2>2 DEF FirebaseAdd, Inside
  <2>3. CASE Seen(h)
    BY <1>2, <2>3 DEF Seen, MuxInv, Inside
  <2> QED
    BY <1>6, <2>1, <2>2, <2>3 DEF Authenticate
<1>7. CASE PublicRoute(h)
  <2>1. CASE LoginRead(h) \/ RegisterRead(h)
    BY <1>1, <2>1 DEF LoginRead, RegisterRead, Inside
  <2>2. CASE RegisterAdd(h)
    BY <1>3, <2>2 DEF RegisterAdd, Inside
  <2>3. CASE LoginWrite(h) \/ UseInvite(h)
    BY <1>2, <2>3 DEF LoginWrite, UseInvite, MuxInv, Inside
  <2> QED
    BY <1>7, <2>1, <2>2, <2>3 DEF PublicRoute
<1>8. CASE UsersRoute(h)
  <2>1. CASE CreateRead(h)
    BY <1>1, <2>1 DEF CreateRead, Inside
  <2>2. CASE ChangeRead(h)
    BY <1>1, <2>2 DEF ChangeRead, Inside
  <2>3. CASE CreateAdd(h) \/ UpdateWrite(h) \/ DeleteWrite(h)
    BY <1>2, <2>3 DEF CreateAdd, UpdateWrite, DeleteWrite, MuxInv, Inside
  <2> QED
    BY <1>8, <2>1, <2>2, <2>3 DEF UsersRoute
<1>9. CASE TagsRoute(h) \/ RequestDeadline(h)
  BY <1>2, <1>9 DEF TagsRoute, CreateUserTag, UpdateUserTag, DeleteUserTag, RequestDeadline
<1>10. CASE OwnTag(h)
  <2>1. CASE TagRead(h)
    BY <1>1, <2>1 DEF TagRead, AfterTags, Inside
  <2>2. CASE UseTag(h) \/ AddTag(h)
    BY <1>2, <2>2 DEF UseTag, AddTag, MuxInv, Inside
  <2> QED
    BY <1>10, <2>1, <2>2 DEF OwnTag
<1>11. CASE GenerateInvite(h)
  BY <1>4, <1>11 DEF GenerateInvite, requestVars
<1> QED
  BY <1>5, <1>6, <1>7, <1>8, <1>9, <1>10, <1>11 DEF RequestStep

\* Documents that are made or changed are documents.
LEMMA Documents ==
  /\ \A n \in UserNames, id \in UserIds, r \in Roles, t \in Keys \cup Codes \cup {0} :
       [name |-> n, uid |-> id, role |-> r, token |-> t] \in UserDoc
  /\ \A u \in UserDoc, t \in Keys \cup Codes \cup {0} :
       /\ [u EXCEPT !.token = t] \in UserDoc /\ [u EXCEPT !.token = t].token = t
       /\ [u EXCEPT !.token = t].name = u.name /\ [u EXCEPT !.token = t].uid = u.uid
  /\ \A u \in UserDoc, r \in Roles :
       /\ [u EXCEPT !.role = r] \in UserDoc /\ [u EXCEPT !.role = r].token = u.token
       /\ [u EXCEPT !.role = r].name = u.name /\ [u EXCEPT !.role = r].uid = u.uid
  /\ \A u \in UserDoc : /\ u.name \in UserNames /\ u.uid \in UserIds /\ u.role \in Roles
                        /\ u.token \in Keys \cup Codes \cup {0}
BY DEF UserDoc

\* generateKey: the keys are new.
LEMMA NewKeys ==
  ASSUME keys \in 0..MaxKeys, NEW n \in {1, 2}, GenerateKeys(n)
  PROVE  /\ keys' \in 0..MaxKeys /\ keys' \in Keys /\ keys + 1 \in Keys /\ keys < keys'
         /\ keys < keys + 1 /\ -keys' \in Codes /\ keys' = keys + n /\ keys + n \in Keys
BY UsersAssumption DEF GenerateKeys, Keys, Codes

\* updateLastSeen writes the token to one document of that name.
LEMMA SeenEffect ==
  ASSUME users \subseteq UserDoc, NEW d \in UserDoc, UpdateLastSeen(d), \E u \in users : u.name = d.name
  PROVE  \E old \in users : /\ old.name = d.name
                            /\ users' = (users \ {old}) \cup {[old EXCEPT !.token = d.token]}
BY DEF UpdateLastSeen, GetUser

\* Types of the collections and copies.
LEMMA StepTypes ==
  ASSUME UsersInv, NEW h \in Handlers, RequestStep(h)
  PROVE  UsersTypeOK' /\ MoreTypes'
<1> DEFINE Rest == /\ users' \subseteq UserDoc /\ tags' \subseteq TagDoc /\ invites' \subseteq Codes
                   /\ keys' \in 0..MaxKeys
                   /\ author' \in [Handlers -> UserDoc \cup {NoUser}]
                   /\ found' \in [Handlers -> UserDoc \cup {NoUser}]
                   /\ held' \in [UserNames -> 0..MaxKeys] /\ misread' \in BOOLEAN
<1> SUFFICES Rest
  BY StepMux DEF UsersTypeOK, MoreTypes
<1>a. /\ users \subseteq UserDoc /\ tags \subseteq TagDoc /\ invites \subseteq Codes
      /\ keys \in 0..MaxKeys
      /\ author \in [Handlers -> UserDoc \cup {NoUser}]
      /\ found \in [Handlers -> UserDoc \cup {NoUser}]
      /\ held \in [UserNames -> 0..MaxKeys] /\ misread \in BOOLEAN /\ Knows(h)
  BY DEF UsersInv, UsersTypeOK, MoreTypes
<1>b. 0 \in 0..MaxKeys /\ Names \subseteq UserNames /\ Keys \subseteq UserNames
      /\ Keys \subseteq UserIds /\ FirebaseIds \subseteq UserIds /\ Keys \subseteq 0..MaxKeys
  BY UsersAssumption DEF UserNames, UserIds, Keys
<1>c. ASSUME NEW to, Unlock(h, to)
      PROVE  /\ author' \in [Handlers -> UserDoc \cup {NoUser}]
             /\ found' \in [Handlers -> UserDoc \cup {NoUser}]
  BY <1>a, <1>c DEF Unlock
<1>d. ASSUME NEW docs, NotFound(docs) PROVE misread' \in BOOLEAN
  BY <1>a, <1>d DEF NotFound
<1>e. ASSUME NEW d \in UserDoc, UpdateLastSeen(d) PROVE users' \subseteq UserDoc
  <2>1. \A old \in users : [old EXCEPT !.token = d.token] \in UserDoc
    BY <1>a, Documents
  <2>2. UNCHANGED users \/ \E old \in users :
          users' = (users \ {old}) \cup {[old EXCEPT !.token = d.token]}
    BY <1>e DEF UpdateLastSeen, GetUser
  <2> QED
    BY <1>a, <2>1, <2>2
<1> USE DEF storeVars, requestVars, usersHistory
<1>1. CASE TokenRead(h)
  BY <1>a, <1>1 DEF TokenRead, PutUser, CheckToken
<1>2. CASE FirebaseRead(h)
  <2>1. CASE UNCHANGED <<keys, misread>> /\ \E id \in FirebaseIds : \E u \in GetUserById(id) : PutUser(h, u)
    BY <1>a, <1>2, <2>1 DEF FirebaseRead, PutUser, GetUserById
  <2>2. ASSUME NEW id \in FirebaseIds, NotFound(GetUserById(id)), GenerateKeys(1),
               PutUser(h, [name |-> keys', uid |-> id, role |-> "user", token |-> 0])
        PROVE  Rest
    <3>1. [name |-> keys', uid |-> id, role |-> "user", token |-> 0] \in UserDoc
      BY <1>a, <1>b, <2>2, Documents, NewKeys DEF Roles
    <3>2. author' \in [Handlers -> UserDoc \cup {NoUser}]
      BY <1>a, <2>2, <3>1 DEF PutUser
    <3> QED
      BY <1>a, <1>d, <1>2, <2>2, <3>2, NewKeys DEF FirebaseRead
  <2> QED
    BY <1>2, <2>1, <2>2 DEF FirebaseRead
<1>3. CASE FirebaseAdd(h)
  BY <1>a, <1>3 DEF FirebaseAdd, AddUser, Step, Knows
<1>4. CASE Seen(h)
  <2>1. author[h] \in UserDoc /\ UpdateLastSeen(author[h])
    BY <1>a, <1>4 DEF Seen, Knows
  <2> QED
    BY <1>a, <1>c, <1>e, <1>4, <2>1 DEF Seen
<1>5. CASE LoginRead(h)
  <2>1. PICK u \in users : found' = [found EXCEPT ![h] = [u EXCEPT !.token = keys']]
    BY <1>5 DEF LoginRead, GetUser
  <2>2. [u EXCEPT !.token = keys'] \in UserDoc /\ keys' \in 0..MaxKeys
    BY <1>a, <1>5, NewKeys, Documents DEF LoginRead
  <2> QED
    BY <1>a, <1>5, <2>1, <2>2 DEF LoginRead
<1>6. CASE LoginWrite(h)
  <2>1. found[h] \in UserDoc /\ found[h].token \in Keys /\ UpdateLastSeen(found[h])
    BY <1>a, <1>6 DEF LoginWrite, Knows
  <2>2. held' \in [UserNames -> 0..MaxKeys]
    BY <1>a, <1>b, <1>6, <2>1 DEF LoginWrite
  <2> QED
    BY <1>a, <1>c, <1>e, <1>6, <2>1, <2>2 DEF LoginWrite
<1>7. CASE RegisterRead(h)
  <2>1. PICK n \in Names, code \in invites, r \in Roles :
          /\ NotFound(GetUser(n))
          /\ found' = [found EXCEPT ![h] = [name |-> n, uid |-> keys', role |-> r, token |-> code]]
    BY <1>7 DEF RegisterRead
  <2>2. [name |-> n, uid |-> keys', role |-> r, token |-> code] \in UserDoc /\ keys' \in 0..MaxKeys
    BY <1>a, <1>b, <1>7, NewKeys, Documents DEF RegisterRead
  <2>3. found' \in [Handlers -> UserDoc \cup {NoUser}]
    BY <1>a, <2>1, <2>2
  <2> QED
    BY <1>a, <1>d, <1>7, <2>1, <2>2, <2>3 DEF RegisterRead
<1>8. CASE RegisterAdd(h)
  BY <1>a, <1>b, <1>8 DEF RegisterAdd, AddUser, Step, Knows
<1>9. CASE UseInvite(h)
  BY <1>a, <1>c, <1>9 DEF UseInvite
<1>10. CASE GenerateInvite(h)
  BY <1>a, <1>10, NewKeys DEF GenerateInvite
<1>11. CASE CreateRead(h)
  <2>1. PICK n \in Names, r \in Roles :
          /\ NotFound(GetUser(n))
          /\ found' = [found EXCEPT ![h] =
                        [name |-> n, uid |-> keys + 1, role |-> r, token |-> keys + 2]]
    BY <1>11 DEF CreateRead
  <2>2. [name |-> n, uid |-> keys + 1, role |-> r, token |-> keys + 2] \in UserDoc
        /\ keys' \in 0..MaxKeys
    BY <1>a, <1>b, <1>11, NewKeys, Documents DEF CreateRead
  <2>3. found' \in [Handlers -> UserDoc \cup {NoUser}]
    BY <1>a, <2>1, <2>2
  <2> QED
    BY <1>a, <1>d, <1>11, <2>1, <2>2, <2>3 DEF CreateRead
<1>12. CASE CreateAdd(h)
  BY <1>a, <1>b, <1>c, <1>12 DEF CreateAdd, AddUser, Knows
<1>13. CASE ChangeRead(h)
  BY <1>a, <1>13 DEF ChangeRead
<1>14. CASE UpdateWrite(h)
  BY <1>a, <1>c, <1>14, Documents DEF UpdateWrite, GetUser
<1>15. CASE DeleteWrite(h)
  BY <1>a, <1>b, <1>c, <1>15 DEF DeleteWrite
<1>16. CASE TagRead(h)
  BY <1>a, <1>16 DEF TagRead
<1>17. CASE UseTag(h) \/ RequestDeadline(h)
  BY <1>a, <1>c, <1>17 DEF UseTag, RequestDeadline
<1>18. CASE AddTag(h)
  <2>1. author[h] \in UserDoc
    BY <1>a, <1>18 DEF AddTag, Knows
  <2>2. [id |-> keys', uid |-> author[h].uid, enabled |-> TRUE, auto |-> TRUE] \in TagDoc
        /\ keys' \in 0..MaxKeys
    BY <1>a, <1>18, <2>1, NewKeys, Documents DEF AddTag, TagDoc
  <2> QED
    BY <1>a, <1>c, <1>18, <2>2 DEF AddTag
<1>19. CASE CreateUserTag(h)
  <2>1. /\ keys' \in 0..MaxKeys
        /\ \A id \in UserIds, e \in BOOLEAN : [id |-> keys', uid |-> id, enabled |-> e, auto |-> FALSE] \in TagDoc
    BY <1>a, <1>19, NewKeys DEF CreateUserTag, TagDoc
  <2> QED
    BY <1>a, <1>c, <1>19, <2>1 DEF CreateUserTag
<1>20. CASE UpdateUserTag(h)
  <2>1. \A t \in TagDoc, e \in BOOLEAN, id \in UserIds : [t EXCEPT !.enabled = e, !.uid = id] \in TagDoc
    BY DEF TagDoc
  <2>2. \A t \in tags : {u.uid : u \in users} \cup {t.uid} \subseteq UserIds
    BY <1>a, Documents DEF TagDoc
  <2>3. tags' \subseteq TagDoc
    BY <1>a, <1>20, <2>1, <2>2 DEF UpdateUserTag
  <2> QED
    BY <1>a, <1>c, <1>20, <2>3 DEF UpdateUserTag
<1>21. CASE DeleteUserTag(h)
  BY <1>a, <1>c, <1>21 DEF DeleteUserTag
<1>22. CASE Reject(h)
  BY <1>a, <1>22 DEF Reject
<1> QED
  BY <1>1, <1>2, <1>3, <1>4, <1>5, <1>6, <1>7, <1>8, <1>9, <1>10, <1>11, <1>12, <1>13, <1>14,
     <1>15, <1>16, <1>17, <1>18, <1>19, <1>20, <1>21, <1>22
  DEF RequestStep, Authenticate, PublicRoute, UsersRoute, TagsRoute, OwnTag

-----------------------------------------------------------------------------
\* The request that takes the step knows what it read.
LEMMA StepKnows ==
  ASSUME UsersInv, NEW h \in Handlers, RequestStep(h)
  PROVE  Knows(h)'
<1>a. /\ users \subseteq UserDoc /\ keys \in 0..MaxKeys /\ misread \in BOOLEAN /\ Knows(h)
      /\ upc \in [Handlers -> Inside \cup {"idle", "authed"}]
      /\ author \in [Handlers -> UserDoc \cup {NoUser}]
      /\ found \in [Handlers -> UserDoc \cup {NoUser}]
      /\ (\A u \in users : Generated(u)) /\ invites \subseteq Codes
  BY DEF UsersInv, UsersTypeOK, MoreTypes
<1>b. Names \subseteq UserNames /\ Names \cap Keys = {} /\ FirebaseIds \cap Keys = {}
      /\ Keys \subseteq UserIds /\ Keys \subseteq UserNames /\ FirebaseIds \subseteq UserIds
      /\ Keys \subseteq Int /\ keys \in Int
  BY <1>a, UsersAssumption DEF UserNames, UserIds, Keys
<1>c. UsersTypeOK' /\ MoreTypes'
  BY StepTypes
<1>d. ASSUME Unlock(h, "idle") PROVE Knows(h)'
  BY <1>a, <1>d DEF Unlock, Knows
<1> USE DEF storeVars, requestVars, usersHistory
<1>1. CASE TokenRead(h)
  BY <1>a, <1>1 DEF TokenRead, PutUser, CheckToken, Lock, Knows
<1>2. CASE FirebaseRead(h)
  <2>1. ASSUME NEW u \in users, PutUser(h, u), Lock(h, "idle", "seen"), UNCHANGED users
        PROVE  Knows(h)'
    BY <1>a, <2>1 DEF PutUser, Lock, Knows
  <2>2. ASSUME NEW id \in FirebaseIds, NotFound(GetUserById(id)), GenerateKeys(1),
               PutUser(h, [name |-> keys', uid |-> id, role |-> "user", token |-> 0]),
               Lock(h, "idle", "addApp"), UNCHANGED users
        PROVE  Knows(h)'
    <3> DEFINE d == [name |-> keys', uid |-> id, role |-> "user", token |-> 0]
    <3>1. author'[h] = d /\ upc'[h] = "addApp"
      BY <1>a, <2>2 DEF PutUser, Lock
    <3>2. keys' \in Keys /\ keys < keys' /\ keys' \in Int /\ d \in UserDoc
      BY <1>a, <1>b, <2>2, NewKeys, Documents DEF Roles
    <3>6. d.name <= keys' /\ d.uid \notin Keys
      BY <1>b, <3>2
    <3>3. \A u \in users : u.name # keys'
      BY <1>a, <1>b, <3>2 DEF Generated
    <3>4. ~misread' => GetUserById(id) = {}
      BY <2>2 DEF NotFound
    <3>5. ~misread' => \A u \in users : u.name # d.name /\ u.uid # d.uid
      BY <3>3, <3>4 DEF GetUserById
    <3> HIDE DEF d
    <3> QED
      BY <2>2, <3>1, <3>2, <3>5, <3>6 DEF Knows, Fresh, Generated
  <2> QED
    BY <1>2, <2>1, <2>2 DEF FirebaseRead, GetUserById
<1>3. CASE FirebaseAdd(h)
  BY <1>a, <1>3 DEF FirebaseAdd, AddUser, Step, Knows
<1>4. CASE Seen(h)
  BY <1>a, <1>4 DEF Seen, Unlock, Knows
<1>5. CASE LoginRead(h)
  <2>1. PICK u \in users : found' = [found EXCEPT ![h] = [u EXCEPT !.token = keys']]
    BY <1>5 DEF LoginRead, GetUser
  <2>2. /\ [u EXCEPT !.token = keys'] \in UserDoc /\ [u EXCEPT !.token = keys'].name = u.name
        /\ [u EXCEPT !.token = keys'].token \in Keys
    BY <1>a, <1>5, NewKeys, Documents DEF LoginRead
  <2>3. found'[h] = [u EXCEPT !.token = keys'] /\ upc'[h] = "login" /\ users' = users
    BY <1>a, <1>5, <2>1 DEF LoginRead, Lock
  <2> QED
    BY <2>2, <2>3 DEF Knows
<1>6. CASE RegisterRead(h)
  <2>1. PICK n \in Names, code \in invites, r \in Roles :
          /\ NotFound(GetUser(n))
          /\ found' = [found EXCEPT ![h] = [name |-> n, uid |-> keys', role |-> r, token |-> code]]
    BY <1>6 DEF RegisterRead
  <2> DEFINE d == [name |-> n, uid |-> keys', role |-> r, token |-> code]
  <2>2. found'[h] = d /\ upc'[h] = "register" /\ users' = users
    BY <1>a, <1>6, <2>1 DEF RegisterRead, Lock
  <2>3. keys' \in Keys /\ keys < keys' /\ keys' \in Int
    BY <1>a, <1>b, <1>6, NewKeys DEF RegisterRead
  <2>4. d \in UserDoc
    BY <1>a, <1>b, <2>3, Documents
  <2>5. d.name \notin Keys /\ d.uid <= keys'
    BY <1>b, <2>3
  <2>6. \A u \in users : u.uid # d.uid
    BY <1>a, <1>b, <2>3 DEF Generated
  <2>7. ~misread' => \A u \in users : u.name # d.name
    BY <2>1 DEF NotFound, GetUser
  <2> HIDE DEF d
  <2> QED
    BY <2>2, <2>4, <2>5, <2>6, <2>7 DEF Knows, Fresh, Generated
<1>7. CASE RegisterAdd(h)
  BY <1>a, <1>7 DEF RegisterAdd, Step, Knows
<1>8. CASE CreateRead(h)
  <2>1. PICK n \in Names, r \in Roles :
          /\ NotFound(GetUser(n))
          /\ found' = [found EXCEPT ![h] =
                        [name |-> n, uid |-> keys + 1, role |-> r, token |-> keys + 2]]
    BY <1>8 DEF CreateRead
  <2> DEFINE d == [name |-> n, uid |-> keys + 1, role |-> r, token |-> keys + 2]
  <2>2. found'[h] = d /\ upc'[h] = "create" /\ users' = users
    BY <1>a, <1>8, <2>1 DEF CreateRead, Lock
  <2>3. keys + 1 \in Keys /\ keys' = keys + 2 /\ keys + 2 \in Keys
    BY <1>a, <1>8, NewKeys DEF CreateRead
  <2>4. d \in UserDoc
    BY <1>b, <2>3, Documents
  <2>5. d.name \notin Keys /\ d.uid <= keys'
    BY <1>b, <2>3
  <2>6. \A u \in users : u.uid # d.uid
    BY <1>a, <1>b, <2>3 DEF Generated
  <2>7. ~misread' => \A u \in users : u.name # d.name
    BY <2>1 DEF NotFound, GetUser
  <2> HIDE DEF d
  <2> QED
    BY <2>2, <2>4, <2>5, <2>6, <2>7 DEF Knows, Fresh, Generated
<1>9. CASE ChangeRead(h)
  <2>1. upc'[h] \in {"update", "delete"} /\ found'[h] \in users
    BY <1>a, <1>9 DEF ChangeRead, Lock
  <2> QED
    BY <1>a, <2>1 DEF Knows
<1>10. CASE TagRead(h)
  BY <1>a, <1>10 DEF TagRead, Lock, AfterTags, GetUserTags, Knows
<1>11. CASE GenerateInvite(h)
  BY <1>a, <1>11 DEF GenerateInvite, Knows
<1>12. CASE Reject(h)
  BY <1>a, <1>12 DEF Reject, Step, Knows
<1>13. CASE LoginWrite(h) \/ UseInvite(h) \/ CreateAdd(h) \/ UpdateWrite(h) \/ DeleteWrite(h)
            \/ UseTag(h) \/ AddTag(h) \/ TagsRoute(h) \/ RequestDeadline(h)
  BY <1>d, <1>13 DEF LoginWrite, UseInvite, CreateAdd, UpdateWrite, DeleteWrite, UseTag, AddTag,
                     TagsRoute, CreateUserTag, UpdateUserTag, DeleteUserTag, RequestDeadline
<1> QED
  BY <1>1, <1>2, <1>3, <1>4, <1>5, <1>6, <1>7, <1>8, <1>9, <1>10, <1>11, <1>12, <1>13
  DEF RequestStep, Authenticate, PublicRoute, UsersRoute, OwnTag

\* What the others know stays true: if one of them is inside, h is not.
LEMMA OthersKnow ==
  ASSUME UsersInv, NEW h \in Handlers, RequestStep(h), NEW k \in Handlers \ {h}
  PROVE  Knows(k)'
<1>1. Knows(k) /\ upc'[k] = upc[k] /\ author'[k] = author[k] /\ found'[k] = found[k]
      /\ (misread => misread')
  BY OthersStay DEF UsersInv, Frame
<1>2. CASE upc[k] \in Inside
  <2>1. Reject(h)
    BY <1>2, Excluded, UsersAssumption DEF UsersInv, MuxInv
  <2> QED
    BY <1>1, <2>1 DEF Reject, storeVars, usersHistory, Knows, Fresh, Generated, GetUserTags
<1>3. CASE upc[k] \notin Inside
  BY <1>1, <1>3 DEF Knows, Inside
<1> QED
  BY <1>2, <1>3

\* The ways in which the collection of users changes: a document is added,
\* changed in its token or role, or deleted.
LEMMA StepUsers ==
  ASSUME UsersInv, NEW h \in Handlers, RequestStep(h)
  PROVE  \/ UNCHANGED users /\ UNCHANGED held
         \/ \E d \in UserDoc :
              /\ users' = users \cup {d} /\ Generated(d) /\ UNCHANGED <<keys, misread>>
              /\ ~misread => Fresh(d)
              /\ UNCHANGED held \/ held' = [held EXCEPT ![d.name] = 0]
         \/ \E old \in users, new \in UserDoc :
              /\ users' = (users \ {old}) \cup {new} /\ UNCHANGED <<keys, misread>>
              /\ new.name = old.name /\ new.uid = old.uid
              /\ \/ new.token = old.token /\ UNCHANGED held
                 \/ held' = [held EXCEPT ![old.name] = new.token]
                 \/ ~misread /\ new = old /\ UNCHANGED held
                 \/ misread /\ UNCHANGED held
         \/ \E old \in users : /\ users' = users \ {old} /\ UNCHANGED <<keys, misread>>
                               /\ held' = [held EXCEPT ![old.name] = 0]
<1>a. users \subseteq UserDoc /\ Knows(h) /\ misread \in BOOLEAN /\ UniqueAccounts
  BY DEF UsersInv, UsersTypeOK, MoreTypes
<1> USE DEF storeVars, requestVars, usersHistory
<1>1. CASE FirebaseAdd(h)
  BY <1>a, <1>1 DEF FirebaseAdd, Step, AddUser, Knows
<1>2. CASE RegisterAdd(h)
  BY <1>a, <1>2 DEF RegisterAdd, Step, AddUser, Knows
<1>3. CASE CreateAdd(h)
  BY <1>a, <1>3 DEF CreateAdd, AddUser, Knows
<1>4. CASE Seen(h)
  <2>1. author[h] \in UserDoc /\ author[h] \in users /\ UpdateLastSeen(author[h])
        /\ UNCHANGED <<keys, misread, held>>
    BY <1>a, <1>4 DEF Seen, Knows
  <2>2. PICK old \in users : /\ old.name = author[h].name
                             /\ users' = (users \ {old}) \cup {[old EXCEPT !.token = author[h].token]}
    BY <1>a, <2>1, SeenEffect
  <2> DEFINE new == [old EXCEPT !.token = author[h].token]
  <2>3. new \in UserDoc /\ new.name = old.name /\ new.uid = old.uid
    BY <1>a, <2>1, Documents
  <2>4. ~misread => old = author[h]
    BY <1>a, <2>1, <2>2 DEF UniqueAccounts
  <2>5. ~misread => new = old
    BY <1>a, <2>1, <2>4 DEF UserDoc
  <2> HIDE DEF new
  <2> QED
    BY <1>a, <2>1, <2>2, <2>3, <2>5 DEF new
<1>5. CASE LoginWrite(h)
  <2>1. found[h] \in UserDoc /\ (\E u \in users : u.name = found[h].name) /\ UpdateLastSeen(found[h])
        /\ UNCHANGED <<keys, misread>> /\ held' = [held EXCEPT ![found[h].name] = found[h].token]
    BY <1>a, <1>5 DEF LoginWrite, Knows
  <2>2. PICK old \in users : /\ old.name = found[h].name
                             /\ users' = (users \ {old}) \cup {[old EXCEPT !.token = found[h].token]}
    BY <1>a, <2>1, SeenEffect
  <2> DEFINE new == [old EXCEPT !.token = found[h].token]
  <2>3. new \in UserDoc /\ new.name = old.name /\ new.uid = old.uid /\ new.token = found[h].token
    BY <1>a, <2>1, Documents
  <2> HIDE DEF new
  <2> QED
    BY <2>1, <2>2, <2>3 DEF new
<1>6. CASE UpdateWrite(h)
  <2>1. PICK r \in Roles, old \in users :
          users' = (users \ {old}) \cup {[old EXCEPT !.role = r]}
    BY <1>6 DEF UpdateWrite, GetUser
  <2> DEFINE new == [old EXCEPT !.role = r]
  <2>2. new \in UserDoc /\ new.name = old.name /\ new.uid = old.uid /\ new.token = old.token
    BY <1>a, Documents
  <2> HIDE DEF new
  <2> QED
    BY <1>6, <2>1, <2>2 DEF new, UpdateWrite
<1>7. CASE DeleteWrite(h)
  BY <1>7 DEF DeleteWrite, GetUser
<1>8. CASE TokenRead(h) \/ FirebaseRead(h) \/ LoginRead(h) \/ RegisterRead(h) \/ UseInvite(h)
           \/ GenerateInvite(h) \/ CreateRead(h) \/ ChangeRead(h) \/ TagsRoute(h) \/ OwnTag(h)
           \/ Reject(h) \/ RequestDeadline(h)
  BY <1>8 DEF TokenRead, FirebaseRead, LoginRead, RegisterRead, UseInvite, GenerateInvite,
              CreateRead, ChangeRead, TagsRoute, OwnTag, Reject, RequestDeadline,
              CreateUserTag, UpdateUserTag, DeleteUserTag, TagRead, UseTag, AddTag
<1> QED
  BY <1>1, <1>2, <1>3, <1>4, <1>5, <1>6, <1>7, <1>8
  DEF RequestStep, Authenticate, PublicRoute, UsersRoute

\* The generated keys only grow, and every account's name and id stay among
\* them.
LEMMA KeysGrow ==
  ASSUME UsersInv, NEW h \in Handlers, RequestStep(h)
  PROVE  keys \in 0..MaxKeys /\ keys' \in 0..MaxKeys /\ keys <= keys'
<1>1. keys \in 0..MaxKeys
  BY DEF UsersInv, UsersTypeOK
<1>2. UNCHANGED keys \/ GenerateKeys(1) \/ GenerateKeys(2)
  BY DEF RequestStep, Authenticate, PublicRoute, GenerateInvite, UsersRoute, TagsRoute, OwnTag,
     Reject, RequestDeadline, TokenRead, FirebaseRead, FirebaseAdd, Seen, LoginRead, LoginWrite,
     RegisterRead, RegisterAdd, UseInvite, CreateRead, CreateAdd, ChangeRead, UpdateWrite,
     DeleteWrite, CreateUserTag, UpdateUserTag, DeleteUserTag, TagRead, UseTag, AddTag, storeVars
<1> QED
  BY <1>1, <1>2, NewKeys, UsersAssumption

\* Accounts stay unique and generated.
LEMMA StepAccounts ==
  ASSUME UsersInv, NEW h \in Handlers, RequestStep(h)
  PROVE  (\A u \in users' : Generated(u)') /\ UniqueAccounts'
<1>a. /\ users \subseteq UserDoc /\ misread \in BOOLEAN /\ UniqueAccounts
      /\ \A u \in users : Generated(u)
  BY DEF UsersInv, UsersTypeOK, MoreTypes
<1>b. keys \in Int /\ keys' \in Int /\ keys <= keys' /\ Keys \subseteq Int
  BY KeysGrow, UsersAssumption DEF Keys
<1>c. misread => misread'
  BY OthersStay
<1>d. ASSUME NEW u \in users PROVE Generated(u)'
  <2>1. \A x \in Keys : x <= keys => x <= keys'
    BY <1>b
  <2> QED
    BY <1>a, <2>1 DEF Generated
<1>1. CASE UNCHANGED users
  BY <1>a, <1>c, <1>d, <1>1 DEF UniqueAccounts
<1>2. ASSUME NEW d \in UserDoc, users' = users \cup {d}, Generated(d), UNCHANGED <<keys, misread>>,
             ~misread => Fresh(d)
      PROVE  (\A u \in users' : Generated(u)') /\ UniqueAccounts'
  <2>1. Generated(d)'
    BY <1>2 DEF Generated
  <2>2. UniqueAccounts'
    BY <1>a, <1>2 DEF UniqueAccounts, Fresh
  <2> QED
    BY <1>2, <1>d, <2>1, <2>2
<1>3. ASSUME NEW old \in users, NEW new \in UserDoc, users' = (users \ {old}) \cup {new},
             UNCHANGED <<keys, misread>>, new.name = old.name, new.uid = old.uid
      PROVE  (\A u \in users' : Generated(u)') /\ UniqueAccounts'
  <2>1. Generated(new)'
    BY <1>3, <1>d DEF Generated
  <2>2. UniqueAccounts'
    BY <1>a, <1>3 DEF UniqueAccounts
  <2> QED
    BY <1>3, <1>d, <2>1, <2>2
<1>4. ASSUME NEW old \in users, users' = users \ {old}, UNCHANGED misread
      PROVE  (\A u \in users' : Generated(u)') /\ UniqueAccounts'
  BY <1>a, <1>d, <1>4 DEF UniqueAccounts
<1> QED
  BY <1>1, <1>2, <1>3, <1>4, StepUsers

\* The token of the last login stays valid.
LEMMA StepLogins ==
  ASSUME UsersInv, NEW h \in Handlers, RequestStep(h)
  PROVE  LoginHolds'
<1>a. /\ users \subseteq UserDoc /\ misread \in BOOLEAN /\ UniqueAccounts /\ LoginHolds
      /\ held \in [UserNames -> 0..MaxKeys]
  BY DEF UsersInv, UsersTypeOK, MoreTypes
<1>b. misread => misread'
  BY OthersStay
<1> SUFFICES ASSUME NEW n \in UserNames, held'[n] # 0, ~misread'
             PROVE  \E u \in users' : u.name = n /\ u.token = held'[n]
  BY DEF LoginHolds, CheckToken
<1>c. held[n] # 0 => \E u \in users : u.name = n /\ u.token = held[n]
  BY <1>a, <1>b DEF LoginHolds, CheckToken
<1>d. ~misread
  BY <1>b
<1>1. CASE UNCHANGED users /\ UNCHANGED held
  BY <1>c, <1>1
<1>2. ASSUME NEW d \in UserDoc, users' = users \cup {d},
             UNCHANGED held \/ held' = [held EXCEPT ![d.name] = 0]
      PROVE  \E u \in users' : u.name = n /\ u.token = held'[n]
  <2>1. held'[n] = held[n]
    BY <1>a, <1>2
  <2> QED
    BY <1>c, <1>2, <2>1
<1>3. ASSUME NEW old \in users, NEW new \in UserDoc, users' = (users \ {old}) \cup {new},
             new.name = old.name,
             \/ new.token = old.token /\ UNCHANGED held
             \/ held' = [held EXCEPT ![old.name] = new.token]
             \/ new = old /\ UNCHANGED held
      PROVE  \E u \in users' : u.name = n /\ u.token = held'[n]
  <2>1. CASE UNCHANGED held /\ new.token = old.token
    <3>1. PICK u \in users : u.name = n /\ u.token = held[n]
      BY <1>c, <2>1
    <3>2. CASE u = old
      BY <1>3, <2>1, <3>1, <3>2
    <3>3. CASE u # old
      BY <1>3, <2>1, <3>1, <3>3
    <3> QED
      BY <3>2, <3>3
  <2>2. CASE held' = [held EXCEPT ![old.name] = new.token]
    <3>1. CASE n = old.name
      BY <1>a, <1>3, <2>2, <3>1
    <3>2. CASE n # old.name
      <4>1. held'[n] = held[n]
        BY <1>a, <2>2, <3>2
      <4> QED
        BY <1>c, <1>3, <3>2, <4>1
    <3> QED
      BY <3>1, <3>2
  <2> QED
    BY <1>3, <2>1, <2>2
<1>4. ASSUME NEW old \in users, users' = users \ {old}, held' = [held EXCEPT ![old.name] = 0]
      PROVE  \E u \in users' : u.name = n /\ u.token = held'[n]
  <2>1. n # old.name /\ held'[n] = held[n]
    BY <1>a, <1>4
  <2> QED
    BY <1>c, <1>4, <2>1
<1> QED
  BY <1>d, <1>1, <1>2, <1>3, <1>4, StepUsers

\* The invariant is inductive.
LEMMA UsersInvNext ==
  ASSUME UsersInv, [UsersNext]_usersVars PROVE UsersInv'
<1>1. CASE UNCHANGED usersVars
  BY <1>1 DEF usersVars, storeVars, requestVars, usersHistory, UsersInv, UsersTypeOK, MoreTypes,
              MuxInv, Knows, Fresh, Generated, GetUserTags, UniqueAccounts, LoginHolds, CheckToken
<1>2. ASSUME NEW h \in Handlers, RequestStep(h) PROVE UsersInv'
  <2>1. UsersTypeOK' /\ MoreTypes' /\ MuxInv'
    BY <1>2, StepTypes, StepMux
  <2>2. \A k \in Handlers : Knows(k)'
    BY <1>2, StepKnows, OthersKnow
  <2>3. (\A u \in users' : Generated(u)') /\ UniqueAccounts' /\ LoginHolds'
    BY <1>2, StepAccounts, StepLogins
  <2> QED
    BY <2>1, <2>2, <2>3 DEF UsersInv
<1> QED
  BY <1>1, <1>2 DEF UsersNext, RequestStep

-----------------------------------------------------------------------------
\* The inductive invariant holds in every reachable state.
THEOREM UsersInvariant == UsersSpec => []UsersInv
BY UsersInvInit, UsersInvNext, PTL DEF UsersSpec

(***************************************************************************)
(* The collections and the copies a request carries (the user that the     *)
(* middleware put into the context, the document an operation read) have   *)
(* their types: a request never acts for a user it did not read.           *)
(***************************************************************************)
THEOREM UsersTypeCorrect == UsersSpec => []UsersTypeOK
<1>1. UsersInv => UsersTypeOK
  BY DEF UsersInv
<1> QED
  BY <1>1, UsersInvariant, PTL

(***************************************************************************)
(* CreateUser, RegisterUser and the Firebase login never make a second     *)
(* account of a name or an id, however many requests run, unless a lookup  *)
(* failed and its error was dropped.                                       *)
(***************************************************************************)
THEOREM AccountsAreUnique == UsersSpec => []UniqueAccounts
<1>1. UsersInv => UniqueAccounts
  BY DEF UsersInv
<1> QED
  BY <1>1, UsersInvariant, PTL

(***************************************************************************)
(* The token that AuthenticateUser returned stays in the user's document   *)
(* until the next login or the deletion: updateLastSeen of a request that  *)
(* is under way, and UpdateUser, do not bring an old one back.             *)
(***************************************************************************)
THEOREM LoginsHold == UsersSpec => []LoginHolds
<1>1. UsersInv => LoginHolds
  BY DEF UsersInv
<1> QED
  BY <1>1, UsersInvariant, PTL

\* A step adds an automatic tag of a new id only for a user without tags.
LEMMA StepAutoTag ==
  ASSUME UsersInv, NEW h \in Handlers, RequestStep(h),
         NEW t \in tags', t.auto, \A x \in tags : x.id # t.id
  PROVE  GetUserTags(t.uid) = {}
<1>a. tags \subseteq TagDoc /\ Knows(h)
  BY DEF UsersInv, UsersTypeOK
<1>1. CASE AddTag(h)
  <2>1. t = [id |-> keys', uid |-> author[h].uid, enabled |-> TRUE, auto |-> TRUE]
    BY <1>1 DEF AddTag
  <2> QED
    BY <1>a, <1>1, <2>1 DEF AddTag, Knows
<1>2. CASE CreateUserTag(h)
  BY <1>2 DEF CreateUserTag
<1>3. CASE UpdateUserTag(h)
  <2>1. \A x \in TagDoc : \A e \in BOOLEAN : \A id : [x EXCEPT !.enabled = e, !.uid = id].id = x.id
    BY DEF TagDoc
  <2>2. PICK x \in tags, e \in BOOLEAN :
          \E id \in {u.uid : u \in users} \cup {x.uid} :
            tags' = (tags \ {x}) \cup {[x EXCEPT !.enabled = e, !.uid = id]}
    BY <1>3 DEF UpdateUserTag
  <2>3. PICK id : tags' = (tags \ {x}) \cup {[x EXCEPT !.enabled = e, !.uid = id]}
    BY <2>2
  <2>4. [x EXCEPT !.enabled = e, !.uid = id].id = x.id
    BY <1>a, <2>1
  <2> QED
    BY <2>3, <2>4
<1>4. CASE DeleteUserTag(h)
  BY <1>4 DEF DeleteUserTag
<1>5. tags' # tags
  OBVIOUS
<1> QED
  BY <1>1, <1>2, <1>3, <1>4, <1>5
  DEF RequestStep, Authenticate, PublicRoute, GenerateInvite, UsersRoute, TagsRoute, OwnTag,
     Reject, RequestDeadline, TokenRead, FirebaseRead, FirebaseAdd, Seen, LoginRead, LoginWrite,
     RegisterRead, RegisterAdd, UseInvite, CreateRead, CreateAdd, ChangeRead, UpdateWrite,
     DeleteWrite, TagRead, UseTag, storeVars

(***************************************************************************)
(* GetUserTag creates a tag only for a user without an enabled one: the    *)
(* answer of the lookup is not stale when the tag is inserted, because     *)
(* every operation on tags holds the mutex.                                *)
(***************************************************************************)
THEOREM AutoTagsOnlyIfNone == UsersSpec => AutoTagOnlyIfNone
<1>1. ASSUME UsersInv, [UsersNext]_usersVars
      PROVE  [\A t \in tags' : t.auto /\ (\A x \in tags : x.id # t.id) => GetUserTags(t.uid) = {}]_tags
  <2>1. CASE UNCHANGED usersVars
    BY <2>1 DEF usersVars, storeVars
  <2>2. ASSUME NEW h \in Handlers, RequestStep(h)
        PROVE  \A t \in tags' : t.auto /\ (\A x \in tags : x.id # t.id) => GetUserTags(t.uid) = {}
    BY <1>1, <2>2, StepAutoTag
  <2> QED
    BY <1>1, <2>1, <2>2 DEF UsersNext, RequestStep
<1> QED
  BY <1>1, UsersInvariant, PTL DEF UsersSpec, AutoTagOnlyIfNone

=============================================================================

-------------------------------- MODULE Users --------------------------------
(***************************************************************************)
(* Accounts, tokens, invites and user tags (impl/authenticator, the user   *)
(* and user tag routes, the authenticate and authorize middleware, and the *)
(* users, user_tags and invites collections of impl/database/mongo.go).    *)
(*                                                                         *)
(* Every operation of the authenticator holds its one mutex from the first *)
(* read to the last write; each database call is a step of its own.  The   *)
(* author of a request is the copy of his document that the middleware     *)
(* read, and the role is tested on that copy.                              *)
(*                                                                         *)
(* Data: passwords are right or wrong by the choice of the request; a      *)
(* random key is the next number of a counter, so keys never collide; the  *)
(* roles admin and operator, which the modelled routes do not tell apart,  *)
(* are "power"; names, plans, groups and notes are left out.               *)
(***************************************************************************)
EXTENDS Integers

CONSTANTS
  Handlers,     \* requests that are served concurrently
  Names,        \* user names people choose
  Admin,        \* the name of the first administrator
  FirebaseIds,  \* user ids that Firebase vouches for
  MaxKeys,      \* bound: random keys ever generated
  Ops,          \* operations the users ask for
  DbFaults,     \* database calls that may fail
  NoHandler, NoUser

Keys == 1..MaxKeys
Codes == {-k : k \in Keys}   \* invite codes: random too, but too short for a token
UserNames == Names \cup Keys
UserIds == FirebaseIds \cup Keys

ASSUME UsersAssumption ==
  /\ MaxKeys \in Nat \ {0}
  /\ Admin \in Names
  /\ NoHandler \notin Handlers
  /\ Names \cap Keys = {} /\ FirebaseIds \cap Keys = {}
  /\ Ops \subseteq {"login", "token", "firebase", "register", "invite", "create", "update",
                    "delete", "autoTag", "createTag", "updateTag", "deleteTag"}
  /\ DbFaults \subseteq {"getUser", "deadline"}

\* A document of users; token 0 is none.  A registration leaves the invite
\* code in the token field.
Roles == {"user", "power"}
UserDoc == [name : UserNames, uid : UserIds, role : Roles, token : Keys \cup Codes \cup {0}]

ASSUME NoUserAssumption == NoUser \notin UserDoc

TagDoc == [id : Keys, uid : UserIds, enabled : BOOLEAN, auto : BOOLEAN]

VARIABLES
  users,      \* collection users
  tags,       \* collection user_tags
  invites,    \* collection invites
  keys,       \* random keys generated so far
  mux,        \* who holds Authenticator.mux
  upc,        \* where a request is
  author,     \* the authenticated user of a request
  found,      \* the user document an operation has read
  held,       \* history: the last token a login handed out, by user name
  misread     \* history: a failed read was taken for a missing user

storeVars == <<users, tags, invites, keys>>
requestVars == <<mux, upc, author, found>>
usersHistory == <<held, misread>>
usersVars == <<storeVars, requestVars, usersHistory>>

\* The program is installed with one administrator, who has a token.
UsersInit ==
  /\ users = {[name |-> Admin, uid |-> 1, role |-> "power", token |-> 1]}
  /\ tags = {}
  /\ invites = {}
  /\ keys = 1
  /\ mux = NoHandler
  /\ upc = [h \in Handlers |-> "idle"]
  /\ author = [h \in Handlers |-> NoUser]
  /\ found = [h \in Handlers |-> NoUser]
  /\ held = [n \in UserNames |-> 0]
  /\ misread = FALSE

-----------------------------------------------------------------------------
(***************************************************************************)
(* The collections.                                                        *)
(***************************************************************************)
GetUser(n) == {u \in users : u.name = n}
GetUserById(id) == {u \in users : u.uid = id}
CheckToken(t) == {u \in users : u.token = t}
GetUserTags(id) == {t \in tags : t.uid = id /\ t.enabled}

\* UpdateLastSeen: the token of the copy goes to one document of that name.
UpdateLastSeen(u) ==
  IF GetUser(u.name) = {} THEN UNCHANGED users
  ELSE \E old \in GetUser(u.name) :
         users' = (users \ {old}) \cup {[old EXCEPT !.token = u.token]}

AddUser(u) == users' = users \cup {u}

\* generateKey, n times: keys that were never used.
GenerateKeys(n) == keys + n <= MaxKeys /\ keys' = keys + n

\* A lookup of a user whose error the code drops: no document, or a failure.
NotFound(docs) ==
  \/ docs = {} /\ UNCHANGED misread
  \/ docs # {} /\ "getUser" \in DbFaults /\ misread' = TRUE

-----------------------------------------------------------------------------
\* a.mux.Lock with the read that follows it.
Lock(h, from, to) ==
  /\ upc[h] = from
  /\ mux = NoHandler
  /\ mux' = h
  /\ upc' = [upc EXCEPT ![h] = to]

\* The deferred a.mux.Unlock; the operation has returned.
Unlock(h, to) ==
  /\ mux' = NoHandler
  /\ upc' = [upc EXCEPT ![h] = to]
  /\ found' = [found EXCEPT ![h] = NoUser]
  /\ author' = [author EXCEPT ![h] = IF to = "idle" THEN NoUser ELSE @]

Step(h, from, to) == upc[h] = from /\ upc' = [upc EXCEPT ![h] = to]

(***************************************************************************)
(* The middleware of every request but the public ones: AuthenticateByToken*)
(* finds the user, and his document goes into the request's context.       *)
(***************************************************************************)
PutUser(h, u) == author' = [author EXCEPT ![h] = u]

TokenRead(h) ==
  /\ "token" \in Ops
  /\ \E t \in Keys : \E u \in CheckToken(t) : PutUser(h, u)
  /\ Lock(h, "idle", "seen")
  /\ UNCHANGED <<storeVars, found, usersHistory>>

\* A Firebase token: the user is read by the id Firebase returned ...
FirebaseRead(h) ==
  /\ "firebase" \in Ops
  /\ \E id \in FirebaseIds :
       \/ \E u \in GetUserById(id) :
            /\ PutUser(h, u)
            /\ Lock(h, "idle", "seen")
            /\ UNCHANGED <<keys, misread>>
       \/ /\ NotFound(GetUserById(id))
          /\ GenerateKeys(1)
          /\ PutUser(h, [name |-> keys', uid |-> id, role |-> "user", token |-> 0])
          /\ Lock(h, "idle", "addApp")
  /\ UNCHANGED <<users, tags, invites, found, held>>

\* ... and created under a generated name if there was none.
FirebaseAdd(h) ==
  /\ Step(h, "addApp", "seen")
  /\ AddUser(author[h])
  /\ UNCHANGED <<tags, invites, keys, mux, author, found, usersHistory>>

\* updateLastSeen, with the token that was read; its error is dropped.
Seen(h) ==
  /\ upc[h] = "seen"
  /\ UpdateLastSeen(author[h])
  /\ Unlock(h, "authed")
  /\ UNCHANGED <<tags, invites, keys, usersHistory>>

-----------------------------------------------------------------------------
(***************************************************************************)
(* The public routes: users/authenticate and users/register.               *)
(***************************************************************************)
\* AuthenticateUser with the right password.  For an unknown name the nil
\* document is dereferenced; the HTTP middleware recovers the panic.
LoginRead(h) ==
  /\ "login" \in Ops
  /\ GenerateKeys(1)
  /\ \E n \in Names : \E u \in GetUser(n) :
       found' = [found EXCEPT ![h] = [u EXCEPT !.token = keys']]
  /\ Lock(h, "idle", "login")
  /\ UNCHANGED <<users, tags, invites, author, usersHistory>>

LoginWrite(h) ==
  /\ upc[h] = "login"
  /\ UpdateLastSeen(found[h])
  /\ held' = [held EXCEPT ![found[h].name] = found[h].token]
  /\ Unlock(h, "idle")
  /\ UNCHANGED <<tags, invites, keys, misread>>

\* Mutant of RegisterRead: the name is not looked up first.
RegisterAnyName(h) ==
  /\ "register" \in Ops
  /\ GenerateKeys(1)
  /\ \E n \in Names, code \in invites, r \in Roles :
       found' = [found EXCEPT ![h] = [name |-> n, uid |-> keys', role |-> r, token |-> code]]
  /\ Lock(h, "idle", "register")
  /\ UNCHANGED <<users, tags, invites, author, usersHistory>>

\* RegisterUser: the name is free and the invite code is known ...
RegisterRead(h) ==
  /\ "register" \in Ops
  /\ GenerateKeys(1)
  /\ \E n \in Names, code \in invites, r \in Roles :
       /\ NotFound(GetUser(n))
       /\ found' = [found EXCEPT ![h] = [name |-> n, uid |-> keys', role |-> r, token |-> code]]
  /\ Lock(h, "idle", "register")
  /\ UNCHANGED <<users, tags, invites, author, held>>

\* ... the user is added ...
RegisterAdd(h) ==
  /\ Step(h, "register", "useInvite")
  /\ AddUser(found[h])
  /\ held' = [held EXCEPT ![found[h].name] = 0]
  /\ UNCHANGED <<tags, invites, keys, mux, author, found, misread>>

\* ... and the code is deleted; a failure (RequestDeadline) is only logged.
UseInvite(h) ==
  /\ upc[h] = "useInvite"
  /\ invites' = invites \ {found[h].token}
  /\ Unlock(h, "idle")
  /\ UNCHANGED <<users, tags, keys, usersHistory>>

\* GenerateInvites, one code.
GenerateInvite(h) ==
  /\ "invite" \in Ops
  /\ upc[h] = "idle" /\ mux = NoHandler
  /\ GenerateKeys(1)
  /\ invites' = invites \cup {-keys'}
  /\ UNCHANGED <<users, tags, requestVars, usersHistory>>

-----------------------------------------------------------------------------
(***************************************************************************)
(* Routes for power users.                                                 *)
(***************************************************************************)
\* RequirePowerUser and requirePowerUser: the role of the author's copy.
Privileged(h, op) == op \in Ops /\ author[h].role = "power"

\* A request without the rights, or with nothing left to do, ends.
Reject(h) ==
  /\ Step(h, "authed", "idle")
  /\ author' = [author EXCEPT ![h] = NoUser]
  /\ UNCHANGED <<storeVars, mux, found, usersHistory>>

\* CreateUser: the name is free; an id and a token are generated ...
CreateRead(h) ==
  /\ upc[h] = "authed" /\ Privileged(h, "create")
  /\ GenerateKeys(2)
  /\ \E n \in Names, r \in Roles :
       /\ NotFound(GetUser(n))
       /\ found' = [found EXCEPT ![h] =
                     [name |-> n, uid |-> keys + 1, role |-> r, token |-> keys + 2]]
  /\ Lock(h, "authed", "create")
  /\ UNCHANGED <<users, tags, invites, author, held>>

\* ... and the user is added.
CreateAdd(h) ==
  /\ upc[h] = "create"
  /\ AddUser(found[h])
  /\ held' = [held EXCEPT ![found[h].name] = 0]
  /\ Unlock(h, "idle")
  /\ UNCHANGED <<tags, invites, keys, misread>>

\* UpdateUser and DeleteUser: GetUser ...
ChangeRead(h) ==
  /\ upc[h] = "authed"
  /\ \E op \in {"update", "delete"} :
       /\ Privileged(h, op)
       /\ Lock(h, "authed", op)
  /\ \E u \in users : found' = [found EXCEPT ![h] = u]
  /\ UNCHANGED <<storeVars, author, usersHistory>>

\* Mutant of UpdateWrite: the whole copy is written, its token too, and
\* created if need be.
UpdateWhole(h) ==
  /\ upc[h] = "update"
  /\ \E r \in Roles :
       users' = (users \ GetUser(found[h].name)) \cup {[found[h] EXCEPT !.role = r, !.token = 0]}
  /\ Unlock(h, "idle")
  /\ UNCHANGED <<tags, invites, keys, usersHistory>>

\* ... the $set of UpdateUser, which leaves the token alone ...
UpdateWrite(h) ==
  /\ upc[h] = "update"
  /\ \E r \in Roles, old \in GetUser(found[h].name) :
       users' = (users \ {old}) \cup {[old EXCEPT !.role = r]}
  /\ Unlock(h, "idle")
  /\ UNCHANGED <<tags, invites, keys, usersHistory>>

\* ... or the deletion of one document.  The user's tags stay.
DeleteWrite(h) ==
  /\ upc[h] = "delete"
  /\ \E old \in GetUser(found[h].name) : users' = users \ {old}
  /\ held' = [held EXCEPT ![found[h].name] = 0]
  /\ Unlock(h, "idle")
  /\ UNCHANGED <<tags, invites, keys, misread>>

-----------------------------------------------------------------------------
(***************************************************************************)
(* User tags.                                                              *)
(***************************************************************************)
\* Mutant of AfterTags: a tag an administrator created does not count.
AfterOwnTags(u) ==
  IF \E t \in GetUserTags(u.uid) : t.auto THEN "useTag" ELSE "addTag"

\* Where GetUserTag goes on once it has read the enabled tags of a user.
AfterTags(u) == IF GetUserTags(u.uid) = {} THEN "addTag" ELSE "useTag"

\* GetUserTag, for the author of a request: an enabled tag is returned ...
TagRead(h) ==
  /\ "autoTag" \in Ops
  /\ keys < MaxKeys
  /\ Lock(h, "authed", AfterTags(author[h]))
  /\ UNCHANGED <<storeVars, author, found, usersHistory>>

UseTag(h) ==
  /\ upc[h] = "useTag"
  /\ Unlock(h, "idle")
  /\ UNCHANGED <<storeVars, usersHistory>>

\* ... or one is created, enabled.
AddTag(h) ==
  /\ upc[h] = "addTag"
  /\ GenerateKeys(1)
  /\ tags' = tags \cup {[id |-> keys', uid |-> author[h].uid, enabled |-> TRUE, auto |-> TRUE]}
  /\ Unlock(h, "idle")
  /\ UNCHANGED <<users, invites, usersHistory>>

\* CreateUserTag: a new id tag for an existing user; the request may name
\* another user id.
CreateUserTag(h) ==
  /\ upc[h] = "authed" /\ Privileged(h, "createTag") /\ mux = NoHandler
  /\ GenerateKeys(1)
  /\ users # {}
  /\ \E id \in UserIds, e \in BOOLEAN :
       tags' = tags \cup {[id |-> keys', uid |-> id, enabled |-> e, auto |-> FALSE]}
  /\ Unlock(h, "idle")
  /\ UNCHANGED <<users, invites, usersHistory>>

\* UpdateUserTag: enable or disable a tag, or give it to another user.
UpdateUserTag(h) ==
  /\ upc[h] = "authed" /\ Privileged(h, "updateTag") /\ mux = NoHandler
  /\ \E t \in tags, e \in BOOLEAN : \E id \in {u.uid : u \in users} \cup {t.uid} :
       tags' = (tags \ {t}) \cup {[t EXCEPT !.enabled = e, !.uid = id]}
  /\ Unlock(h, "idle")
  /\ UNCHANGED <<users, invites, keys, usersHistory>>

DeleteUserTag(h) ==
  /\ upc[h] = "authed" /\ Privileged(h, "deleteTag") /\ mux = NoHandler
  /\ \E t \in tags : tags' = tags \ {t}
  /\ Unlock(h, "idle")
  /\ UNCHANGED <<users, invites, keys, usersHistory>>

\* The 5 seconds of a request are over: the call fails and the operation
\* returns.  An invite code that is not deleted stays.
RequestDeadline(h) ==
  /\ "deadline" \in DbFaults
  /\ mux = h
  /\ Unlock(h, "idle")
  /\ UNCHANGED <<storeVars, held, misread>>

(***************************************************************************)
(* The routes.                                                             *)
(***************************************************************************)
Authenticate(h) == TokenRead(h) \/ FirebaseRead(h) \/ FirebaseAdd(h) \/ Seen(h)

PublicRoute(h) ==
  LoginRead(h) \/ LoginWrite(h) \/ RegisterRead(h) \/ RegisterAdd(h) \/ UseInvite(h)

UsersRoute(h) ==
  CreateRead(h) \/ CreateAdd(h) \/ ChangeRead(h) \/ UpdateWrite(h) \/ DeleteWrite(h)

TagsRoute(h) == CreateUserTag(h) \/ UpdateUserTag(h) \/ DeleteUserTag(h)

\* UserTag, which the WebSocket's first request calls.
OwnTag(h) == TagRead(h) \/ UseTag(h) \/ AddTag(h)

UsersNext ==
  \E h \in Handlers :
    \/ Authenticate(h) \/ PublicRoute(h) \/ GenerateInvite(h)
    \/ UsersRoute(h) \/ TagsRoute(h) \/ OwnTag(h)
    \/ Reject(h) \/ RequestDeadline(h)

UsersSpec == UsersInit /\ [][UsersNext]_usersVars

-----------------------------------------------------------------------------
\* Types of the collections and of a request's copies.
UsersTypeOK ==
  /\ users \subseteq UserDoc
  /\ tags \subseteq TagDoc
  /\ invites \subseteq Codes
  /\ keys \in 0..MaxKeys
  /\ mux \in Handlers \cup {NoHandler}
  /\ author \in [Handlers -> UserDoc \cup {NoUser}]
  /\ found \in [Handlers -> UserDoc \cup {NoUser}]

(***************************************************************************)
(* Accounts are unique by user name and by user id: CreateUser,            *)
(* RegisterUser and GetUserById look the user up and insert him under one  *)
(* lock.  They drop the error of the lookup, so a failed read is the       *)
(* exception.                                                              *)
(***************************************************************************)
UniqueAccounts ==
  ~misread => \A u, v \in users : u.name = v.name \/ u.uid = v.uid => u = v

(***************************************************************************)
(* A token that a login handed out is accepted until the user logs in      *)
(* again or is deleted: no request that was authenticated with the token   *)
(* before it, and no change of the user by an administrator, writes an old *)
(* token back.                                                             *)
(***************************************************************************)
LoginHolds ==
  \A n \in UserNames :
    held[n] # 0 /\ ~misread => \E u \in CheckToken(held[n]) : u.name = n

(***************************************************************************)
(* "auto create new tag in enabled state, if no tags found": concurrent    *)
(* requests of one user never create a second tag for him while he has an  *)
(* enabled one.                                                            *)
(***************************************************************************)
AutoTagOnlyIfNone ==
  [][\A t \in tags' : t.auto /\ (\A x \in tags : x.id # t.id) => GetUserTags(t.uid) = {}]_tags

=============================================================================

------------------------------ MODULE Membership ------------------------------
(***************************************************************************)
(* Who may do what to whom: the guards, the claims of the tokens they look *)
(* at, UserService (user.service.ts) and StoreService (store.service.ts).  *)
(*                                                                         *)
(* A token carries a copy of the document that its login read; nothing     *)
(* withdraws it before it expires, and the guards look at nothing else.    *)
(* A handler compares the store of the claims with the store of a document *)
(* that it reads, and writes the document by _id in a second call.         *)
(*                                                                         *)
(* No ValidationPipe is installed, so the decorators of the DTOs do nothing *)
(* and a body reaches the database as it was sent: it may carry any field  *)
(* of the schema.                                                          *)
(*                                                                         *)
(* Names, emails and passwords are the business of Accounts: a createUser  *)
(* may meet a conflict at any time.                                        *)
(***************************************************************************)

CONSTANTS
  Users,      \* user documents that exist or may be created, by _id
  Stores,
  Tokens,     \* one for each login
  HolderOf,   \* HolderOf[t]: who logs in
  Requests,
  Inputs,     \* what the routes may be called with
  Bodies,     \* what register may be called with
  Seeds,      \* user documents the system may start with
  NoStore, NoDoc, NoInput,
  Absent      \* a field that a body does not have

UserRole == {"READ_ONLY", "READ_WRITE", "STORE_ADMIN", "SYSTEM_ADMIN"}

\* Of a user document: what rights depend on.
Doc == [roles : SUBSET UserRole, storeId : Stores \cup {NoStore}, active : BOOLEAN]

\* Of a body: the same fields, each of which may be missing.
Body == [roles : {Absent} \cup SUBSET UserRole, storeId : {Absent, NoStore} \cup Stores,
         active : {Absent} \cup BOOLEAN]

Given(b) == {f \in {"roles", "storeId", "active"} : b[f] # Absent}

\* The document d after a write of what b has.
Overwritten(d, b) ==
  [roles |-> IF b.roles = Absent THEN d.roles ELSE b.roles,
   storeId |-> IF b.storeId = Absent THEN d.storeId ELSE b.storeId,
   active |-> IF b.active = Absent THEN d.active ELSE b.active]

\* Bug variant: the schema gives `active` no default.
NewDocIncomplete(s) == [roles |-> {"READ_ONLY"}, storeId |-> s, active |-> Absent]

\* The defaults of a new document.
NewDoc(s) == [roles |-> {"READ_ONLY"}, storeId |-> s, active |-> TRUE]

\* The routes and the roles of which they require one; none is required by the empty set.
UserRoutes ==
  [route \in {"createUser", "getStoreUsers", "getUser", "updateWriteAccess", "updateUser",
              "removeUserFromStore", "deactivateUser"} |-> {"STORE_ADMIN"}]
StoreRoutes ==
  [createStore |-> {"READ_ONLY", "READ_WRITE"},
   getStoreById |-> UserRole,
   updateStore |-> {"READ_WRITE", "STORE_ADMIN"},
   deactivateStore |-> {"SYSTEM_ADMIN"}]
TransactionRoutes ==
  [createTransaction |-> {"READ_WRITE", "STORE_ADMIN"},
   getTransactions |-> {},
   getReport |-> {}]

Routes == DOMAIN UserRoutes \cup DOMAIN StoreRoutes \cup DOMAIN TransactionRoutes

Required(route) ==
  IF route \in DOMAIN UserRoutes THEN UserRoutes[route]
  ELSE IF route \in DOMAIN StoreRoutes THEN StoreRoutes[route]
  ELSE TransactionRoutes[route]

\* `user` and `store` are what the path names, `user` in createUser the document created.
InputType == [route : Routes, token : Tokens, user : Users, store : Stores, body : Body]

ASSUME MembershipAssumption ==
  /\ HolderOf \in [Tokens -> Users]
  /\ Inputs \subseteq InputType
  /\ Bodies \subseteq Body
  /\ Seeds \subseteq [Users -> Doc \cup {NoDoc}]
  /\ NoStore \notin Stores
  /\ NoDoc \notin Doc
  /\ NoInput \notin Inputs
  /\ Absent \notin Stores \cup {NoStore} \cup BOOLEAN
  /\ \A s \in SUBSET UserRole : s # Absent

VARIABLES
  doc,      \* the user documents
  closed,   \* the stores whose document says active: false
  token,    \* token[t]: how far the login is, and whether the token still counts
  claims,   \* claims[t]: the document that the login read
  input,    \* input[r]: what r was called with
  at,       \* at[r]: the call that r waits for, or its answer
  seen,     \* seen[r]: the document that r read before its write
  rewritten \* history, rewritten[u]: the fields that a body of updateUser wrote into doc[u]

vars == <<doc, closed, token, claims, input, at, seen, rewritten>>

Calls == {"looking", "finding", "writing", "reading"}
Answers == {"ok", "unauthenticated", "forbidden", "unauthorized", "conflict", "badRequest",
            "invalid", "error"}

Init ==
  /\ doc \in Seeds
  /\ closed = {}
  /\ token = [t \in Tokens |-> "none"]
  /\ claims = [t \in Tokens |-> NoDoc]
  /\ input = [r \in Requests |-> NoInput]
  /\ at = [r \in Requests |-> "idle"]
  /\ seen = [r \in Requests |-> NoDoc]
  /\ rewritten = [u \in Users |-> {}]

Exists(u) == doc[u] # NoDoc

-----------------------------------------------------------------------------
(* Logins and tokens *)

LogIn(t) ==
  /\ token[t] = "none"
  /\ Exists(HolderOf[t])
  /\ token' = [token EXCEPT ![t] = "signing"]
  /\ claims' = [claims EXCEPT ![t] = doc[HolderOf[t]]]
  /\ UNCHANGED <<doc, closed, input, at, seen, rewritten>>

Sign(t) ==
  /\ token[t] = "signing"
  /\ token' = [token EXCEPT ![t] = "valid"]
  /\ UNCHANGED <<doc, closed, claims, input, at, seen, rewritten>>

\* The password is wrong, or a call throws.
LogInFails(t) ==
  /\ token[t] = "signing"
  /\ token' = [token EXCEPT ![t] = "refused"]
  /\ UNCHANGED <<doc, closed, claims, input, at, seen, rewritten>>


Expire(t) ==
  /\ token[t] = "valid"
  /\ token' = [token EXCEPT ![t] = "expired"]
  /\ UNCHANGED <<doc, closed, claims, input, at, seen, rewritten>>

\* The body is spread into the new document.
Register(u, b) ==
  /\ ~Exists(u)
  /\ doc' = [doc EXCEPT ![u] = Overwritten(NewDoc(NoStore), b)]
  /\ UNCHANGED <<closed, token, claims, input, at, seen, rewritten>>

-----------------------------------------------------------------------------
(* The guards, and what a handler does before its first call *)

Goto(r, a) == at' = [at EXCEPT ![r] = a]

RolesGuard(c, route) == Required(route) = {} \/ c.roles \cap Required(route) # {}

\* Bug variant: a controller without @Active(true).
ActiveGuardMissing(c) == c # NoDoc

\* Every controller of these routes says @Active(true).
ActiveGuard(c) == c.active

Permitted(c, route) == RolesGuard(c, route) /\ ActiveGuard(c)

\* The principal that JwtStrategy makes of the claims; it has an `id`, but no `_id`.
Admin(r) == claims[input[r].token]

Receive(r, i) ==
  /\ at[r] = "idle"
  /\ input' = [input EXCEPT ![r] = i]
  /\ UNCHANGED <<doc, closed, token, claims, seen, rewritten>>

Refuse(r, i) ==
  /\ Receive(r, i)
  /\ \/ token[i.token] # "valid" /\ Goto(r, "unauthenticated")
     \/ token[i.token] = "valid" /\ ~Permitted(claims[i.token], i.route) /\ Goto(r, "forbidden")

Admit(r, i, routes) ==
  /\ Receive(r, i)
  /\ i.route \in routes
  /\ token[i.token] = "valid"
  /\ Permitted(claims[i.token], i.route)

HasStore(i) == claims[i.token].storeId # NoStore

CreateUser(r, i) ==
  /\ Admit(r, i, {"createUser"})
  /\ Goto(r, IF HasStore(i) THEN "looking" ELSE "unauthorized")

\* The handlers that name a user read it first; Found compares the stores.
FindUser(r, i, route) == Admit(r, i, {route}) /\ Goto(r, "finding")

GetUserById(r, i) == FindUser(r, i, "getUser")
UpdateUser(r, i) == FindUser(r, i, "updateUser")
GrantUserWriteAccess(r, i) == FindUser(r, i, "updateWriteAccess")
DeactivateUser(r, i) == FindUser(r, i, "deactivateUser")
RemoveUserFromStore(r, i) == FindUser(r, i, "removeUserFromStore")

\* Without a store, admin.storeId.toString throws.
GetStoreUsers(r, i) ==
  /\ Admit(r, i, {"getStoreUsers"})
  /\ Goto(r, IF HasStore(i) THEN "reading" ELSE "error")

\* user._id is undefined, and a store document requires its adminId: it is never valid.
CreateStore(r, i) ==
  /\ Admit(r, i, {"createStore"})
  /\ Goto(r, IF HasStore(i) THEN "badRequest" ELSE "invalid")

GetStore(r, i) == Admit(r, i, {"getStoreById"}) /\ Goto(r, "reading")

UpdateStore(r, i) ==
  /\ Admit(r, i, {"updateStore"})
  /\ Goto(r, IF HasStore(i) THEN "writing" ELSE "error")

DeactivateStore(r, i) == Admit(r, i, {"deactivateStore"}) /\ Goto(r, "writing")

\* TransactionService and Reports go on from here.
HandTransaction(r, i) ==
  /\ Admit(r, i, DOMAIN TransactionRoutes)
  /\ Goto(r, IF HasStore(i) THEN "ok" ELSE "error")

-----------------------------------------------------------------------------
(* The calls *)

\* findByEmail of createUser.
Look(r) ==
  /\ at[r] = "looking"
  /\ \/ Goto(r, "writing")
     \/ Goto(r, "conflict")
  /\ UNCHANGED <<doc, closed, token, claims, input, seen, rewritten>>

\* Bug variant: no comparison of the stores.
FoundAnywhere(r) ==
  LET u == input[r].user IN
  /\ at[r] = "finding"
  /\ Goto(r, IF ~Exists(u) THEN "error"
             ELSE IF input[r].route = "getUser" THEN "ok" ELSE "writing")
  /\ seen' = [seen EXCEPT ![r] = doc[u]]
  /\ UNCHANGED <<doc, closed, token, claims, input, rewritten>>

\* Without a user, or a store on either side, `user.storeId.toString` or its like throws.
Found(r) ==
  LET u == input[r].user IN
  /\ at[r] = "finding"
  /\ IF ~Exists(u) \/ NoStore \in {doc[u].storeId, Admin(r).storeId}
     THEN Goto(r, "error") /\ UNCHANGED seen
     ELSE IF doc[u].storeId # Admin(r).storeId
     THEN Goto(r, "unauthorized") /\ UNCHANGED seen
     ELSE /\ Goto(r, IF input[r].route = "getUser" THEN "ok" ELSE "writing")
          /\ seen' = [seen EXCEPT ![r] = doc[u]]
  /\ UNCHANGED <<doc, closed, token, claims, input, rewritten>>

Read(r) ==
  /\ at[r] = "reading"
  /\ Goto(r, "ok")
  /\ UNCHANGED <<doc, closed, token, claims, input, seen, rewritten>>

(* What the write of r leaves in the documents; names and addresses are not among `Doc`. *)

\* The body is spread into the new document, and the store of the admin over it.
Added(r) ==
  LET i == input[r] IN
  /\ i.route = "createUser"
  /\ ~Exists(i.user)
  /\ doc' = [doc EXCEPT
               ![i.user] = Overwritten(NewDoc(NoStore), [i.body EXCEPT !.storeId = Admin(r).storeId])]
  /\ UNCHANGED <<closed, rewritten>>

NoteRewritten(r) ==
  rewritten' = [rewritten EXCEPT ![input[r].user] = @ \cup Given(input[r].body)]

\* Bug variant: the document that was read is changed and saved whole.
SavedWhole(r) ==
  /\ input[r].route = "updateUser"
  /\ doc' = [doc EXCEPT ![input[r].user] = Overwritten(seen[r], input[r].body)]
  /\ NoteRewritten(r)
  /\ UNCHANGED closed

\* findOneAndUpdate with the body as it is.
Updated(r) ==
  /\ input[r].route = "updateUser"
  /\ doc' = [doc EXCEPT ![input[r].user] = Overwritten(@, input[r].body)]
  /\ NoteRewritten(r)
  /\ UNCHANGED closed

\* Bug variant: the list of roles is not extended but replaced.
GrantedOnly(r) ==
  /\ input[r].route = "updateWriteAccess"
  /\ doc' = [doc EXCEPT ![input[r].user].roles = {"READ_WRITE"}]
  /\ UNCHANGED <<closed, rewritten>>

Granted(r) ==
  /\ input[r].route = "updateWriteAccess"
  /\ doc' = [doc EXCEPT ![input[r].user].roles = seen[r].roles \cup {"READ_WRITE"}]
  /\ UNCHANGED <<closed, rewritten>>

Deactivated(r) ==
  /\ input[r].route = "deactivateUser"
  /\ doc' = [doc EXCEPT ![input[r].user].active = FALSE]
  /\ UNCHANGED <<closed, rewritten>>

Removed(r) ==
  /\ input[r].route = "removeUserFromStore"
  /\ doc' = [doc EXCEPT ![input[r].user].storeId = NoStore]
  /\ UNCHANGED <<closed, rewritten>>

\* The store of the claims; its document has a field `active`, too.
StoreUpdated(r) ==
  /\ input[r].route = "updateStore"
  /\ closed' = CASE input[r].body.active = TRUE  -> closed \ {Admin(r).storeId}
                 [] input[r].body.active = FALSE -> closed \cup {Admin(r).storeId}
                 [] OTHER                        -> closed
  /\ UNCHANGED <<doc, rewritten>>

StoreDeactivated(r) ==
  /\ input[r].route = "deactivateStore"
  /\ closed' = closed \cup {input[r].store}
  /\ UNCHANGED <<doc, rewritten>>

Written(r) ==
  \/ Added(r) \/ Updated(r) \/ Granted(r) \/ Deactivated(r) \/ Removed(r)
  \/ StoreUpdated(r) \/ StoreDeactivated(r)

Write(r) ==
  /\ at[r] = "writing"
  /\ Written(r)
  /\ Goto(r, "ok")
  /\ UNCHANGED <<token, claims, input, seen>>

\* A call throws, executed or not (an insert may meet an email that is taken), or the
\* process of r ends.
CallFails(r) ==
  /\ at[r] \in Calls
  /\ \/ at[r] = "writing" /\ Written(r)
     \/ UNCHANGED <<doc, closed, rewritten>>
  /\ Goto(r, "error")
  /\ UNCHANGED <<token, claims, input, seen>>

-----------------------------------------------------------------------------

TokenStep(t) == LogIn(t) \/ Sign(t) \/ LogInFails(t) \/ Expire(t)

Arrive(r, i) ==
  \/ Refuse(r, i) \/ CreateUser(r, i) \/ GetUserById(r, i) \/ UpdateUser(r, i)
  \/ GrantUserWriteAccess(r, i) \/ DeactivateUser(r, i) \/ RemoveUserFromStore(r, i)
  \/ GetStoreUsers(r, i) \/ CreateStore(r, i) \/ GetStore(r, i) \/ UpdateStore(r, i)
  \/ DeactivateStore(r, i) \/ HandTransaction(r, i)

Proceed(r) == Look(r) \/ Found(r) \/ Read(r) \/ Write(r) \/ CallFails(r)

Next ==
  \/ \E t \in Tokens : TokenStep(t)
  \/ \E u \in Users, b \in Bodies : Register(u, b)
  \/ \E r \in Requests : Proceed(r) \/ \E i \in Inputs : Arrive(r, i)

\* A login and a call end, and a token expires.
Fairness ==
  /\ \A t \in Tokens : WF_vars(Sign(t) \/ LogInFails(t)) /\ WF_vars(Expire(t))
  /\ \A r \in Requests : WF_vars(Proceed(r))

Spec == Init /\ [][Next]_vars /\ Fairness

-----------------------------------------------------------------------------
(* Properties *)

\* Every variable has its type.
TypeOK ==
  /\ doc \in [Users -> Doc \cup {NoDoc}]
  /\ closed \subseteq Stores
  /\ token \in [Tokens -> {"none", "signing", "valid", "refused", "expired"}]
  /\ claims \in [Tokens -> Doc \cup {NoDoc}]
  /\ input \in [Requests -> Inputs \cup {NoInput}]
  /\ at \in [Requests -> {"idle"} \cup Calls \cup Answers]
  /\ seen \in [Requests -> Doc \cup {NoDoc}]
  /\ rewritten \in [Users -> SUBSET {"roles", "storeId", "active"}]

\* The claims of a token fall behind the document of its holder in three ways only: the
\* holder was deactivated, taken from the store, or rewritten by the body of an updateUser.
\* As long as no body wrote the field, a role that a guard accepts is still in the
\* document, and a store in the claims is never another than the holder's.
ClaimsOnceHeld ==
  \A t \in Tokens : claims[t] # NoDoc =>
    LET u == HolderOf[t] IN
    /\ Exists(u)
    /\ "roles" \in rewritten[u] \/ claims[t].roles \subseteq doc[u].roles
    /\ "storeId" \in rewritten[u] \/ doc[u].storeId \in {claims[t].storeId, NoStore}
    /\ "active" \in rewritten[u] \/ (doc[u].active => claims[t].active)

\* In this step the body of an updateUser writes the field f of u.
Rewrites(u, f) ==
  \E r \in Requests :
    /\ at[r] = "writing" /\ at'[r] # "writing"
    /\ input[r].route = "updateUser" /\ input[r].user = u
    /\ f \in Given(input[r].body)

\* Whatever the updates of one document overwrite of each other, neither a deactivation nor
\* a removal from the store is undone, nor is a user moved to another store, except by an
\* updateUser whose own body says so: its other writes, and those of the other handlers
\* with what they read before, leave these fields alone.  Of a list of roles that no body
\* ever wrote no role is lost; one that a body wrote may be undone by a grant that was
\* computed from the list before.
NothingComesBack ==
  [][\A u \in Users : Exists(u) =>
       /\ doc'[u] # NoDoc
       /\ "roles" \in rewritten'[u] \/ doc[u].roles \subseteq doc'[u].roles
       /\ Rewrites(u, "storeId") \/ doc'[u].storeId \in {doc[u].storeId, NoStore}
       /\ Rewrites(u, "active") \/ (doc'[u].active => doc[u].active)]_vars

\* A document changes only by the request of a holder whose document says STORE_ADMIN, and
\* the two documents do not name different stores: neither did the user move to another
\* store since the request looked, nor the admin since the login.  Only a body that wrote
\* these fields can have taken the role from the admin, or either of them elsewhere.
WritesWithinStore ==
  [][\A u \in Users : Exists(u) /\ doc'[u] # doc[u] =>
       \E r \in Requests :
         /\ at[r] = "writing" /\ at'[r] # "writing"
         /\ input[r].user = u
         /\ LET h == HolderOf[input[r].token] IN
            /\ "STORE_ADMIN" \in doc[h].roles \/ "roles" \in rewritten[h]
            /\ \/ \A s1, s2 \in {doc[h].storeId, doc[u].storeId} \ {NoStore} : s1 = s2
               \/ "storeId" \in rewritten[h] \cup rewritten[u]]_vars

Inactive(u) == Exists(u) /\ ~doc[u].active

\* The tokens with which u gets past the guards, and those about to be issued.
Admitting(u) ==
  {t \in Tokens : HolderOf[t] = u /\ token[t] \in {"signing", "valid"} /\ claims[t].active}

NoNewRights(u) ==
  /\ Inactive(u)'
  /\ Admitting(u)' \subseteq Admitting(u)
  /\ \A r \in Requests :
       at[r] = "idle" /\ at'[r] \in Calls /\ HolderOf[input'[r].token] = u =>
         input'[r].token \in Admitting(u)

\* From a deactivation on, rights only shrink until an updateUser writes `active`: the user
\* stays deactivated, whatever other requests write to the document; no token is added to
\* those that admit the user; and requests of the user come in with those tokens only.
RightsShrink ==
  [][\A u \in Users : Inactive(u) /\ ~Rewrites(u, "active") => NoNewRights(u)]_vars

\* u has no right left: no token admits u, and no call of u is under way.
Out(u) ==
  /\ Inactive(u)
  /\ Admitting(u) = {}
  /\ \A r \in Requests : at[r] \in Calls => HolderOf[input[r].token] # u


\* What the comment on createStore says: unless the call is refused or a call of MongoDB
\* fails, the user becomes the admin of a store.
StoreOpened ==
  \A r \in Requests :
    input[r] # NoInput /\ input[r].route = "createStore" /\ at[r] \in {"ok", "invalid"} =>
      "STORE_ADMIN" \in doc[HolderOf[input[r].token]].roles

=============================================================================

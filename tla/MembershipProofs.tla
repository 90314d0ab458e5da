--------------------------- MODULE MembershipProofs ---------------------------
(***************************************************************************)
(* Theorems about Membership for every set of users, stores, tokens and    *)
(* requests: type correctness, how claims may differ from documents, what  *)
(* a write may undo and whom it may reach, and that the rights of a user   *)
(* who is out only shrink and, once gone, are gone, until a body says that *)
(* the user is active.                                                     *)
(***************************************************************************)
EXTENDS Membership, TLAPS

ById == {"updateUser", "updateWriteAccess", "deactivateUser", "removeUserFromStore"}

\* A request under way was let in by claims of a login; the writes by _id had a document of
\* the admin's store, which has since become another as Forward says.
Let(r) ==
  at[r] \in Calls =>
    /\ input[r] \in Inputs
    /\ token[input[r].token] # "none"
    /\ Admin(r) # NoDoc /\ Permitted(Admin(r), input[r].route)
    /\ at[r] = "looking" => input[r].route = "createUser"
    /\ at[r] = "finding" => input[r].route \in ById \cup {"getUser"}
    /\ input[r].route \in {"createUser", "updateStore"} => Admin(r).storeId # NoStore

Checked(r) ==
  at[r] = "writing" /\ input[r].route \in ById =>
    LET u == input[r].user IN
    /\ Exists(u) /\ seen[r] # NoDoc
    /\ \/ "roles" \in rewritten[u]
       \/ /\ seen[r].roles \subseteq doc[u].roles
          /\ doc[u].roles \subseteq seen[r].roles \cup {"READ_WRITE"}
    /\ Admin(r).storeId # NoStore
    /\ "storeId" \in rewritten[u] \/ doc[u].storeId \in {Admin(r).storeId, NoStore}

MemberInv ==
  /\ TypeOK
  /\ ClaimsOnceHeld
  /\ \A t \in Tokens : token[t] # "none" => claims[t] # NoDoc
  /\ \A r \in Requests : Let(r) /\ Checked(r)

\* What a step may do to the documents that exist, field by field, where no body has written
\* the field; READ_WRITE is the one role that a grant adds, which is why a grant computed
\* from an older document loses none.
Forward ==
  \A u \in Users :
    /\ rewritten[u] \subseteq rewritten'[u]
    /\ Exists(u) =>
         /\ doc'[u] # NoDoc
         /\ \/ "roles" \in rewritten'[u]
            \/ /\ doc[u].roles \subseteq doc'[u].roles
               /\ doc'[u].roles \subseteq doc[u].roles \cup {"READ_WRITE"}
         /\ "storeId" \in rewritten'[u] \/ doc'[u].storeId \in {doc[u].storeId, NoStore}
         /\ "active" \in rewritten'[u] \/ (doc'[u].active => doc[u].active)

\* The write of r is the one whose body has the field f of u.
ByBody(r, u, f) ==
  input[r].route = "updateUser" /\ input[r].user = u /\ f \in Given(input[r].body)

\* Only such a write takes a user to another store, or makes one active again.
OnlyByBody(r) ==
  \A u \in Users : Exists(u) =>
    /\ ByBody(r, u, "storeId") \/ doc'[u].storeId \in {doc[u].storeId, NoStore}
    /\ ByBody(r, u, "active") \/ (doc'[u].active => doc[u].active)

\* Initially nobody has logged in or called.
LEMMA InitMembers == Init => MemberInv
  BY MembershipAssumption DEF Init, MemberInv, TypeOK, ClaimsOnceHeld, Let, Checked, Calls

\* What an input, a document and a login are made of.
LEMMA Shapes ==
  ASSUME TypeOK
  PROVE  /\ \A i \in Inputs : /\ i.token \in Tokens /\ i.user \in Users /\ i.store \in Stores
                              /\ i.route \in Routes /\ i.body \in Body
         /\ \A u \in Users : Exists(u) => doc[u] \in Doc
         /\ \A t \in Tokens : HolderOf[t] \in Users /\ (claims[t] # NoDoc => claims[t] \in Doc)
         /\ \A r \in Requests : seen[r] # NoDoc => seen[r] \in Doc
  BY MembershipAssumption DEF TypeOK, InputType, Exists

\* A body leaves a document of its type, with the fields it does not have as they were.
LEMMA Overwriting ==
  ASSUME NEW d \in Doc, NEW b \in Body
  PROVE  /\ Overwritten(d, b) \in Doc
         /\ "roles" \in Given(b) \/ Overwritten(d, b).roles = d.roles
         /\ "storeId" \in Given(b) \/ Overwritten(d, b).storeId = d.storeId
         /\ "active" \in Given(b) \/ Overwritten(d, b).active = d.active
  <1>1. /\ b["roles"] = b.roles /\ b["storeId"] = b.storeId /\ b["active"] = b.active
    OBVIOUS
  <1>2. Overwritten(d, b) \in Doc
    BY DEF Overwritten, Doc, Body
  <1> QED BY <1>1, <1>2 DEF Overwritten, Given

\* A new document is one.
LEMMA NewDocs == \A s \in Stores \cup {NoStore} : NewDoc(s) \in Doc
  BY DEF NewDoc, Doc, UserRole

\* The write of a request takes every document forward.
LEMMA WrittenForward ==
  ASSUME MemberInv, NEW r \in Requests, at[r] = "writing", Written(r)
  PROVE  /\ Forward /\ OnlyByBody(r)
         /\ doc' \in [Users -> Doc \cup {NoDoc}] /\ closed' \in SUBSET Stores
         /\ rewritten' \in [Users -> SUBSET {"roles", "storeId", "active"}]
         /\ \A u \in Users : Exists(u) /\ doc'[u] # doc[u] =>
              input[r].route \in ById /\ input[r].user = u
  <1>0. TypeOK /\ Let(r) /\ Checked(r) /\ at[r] \in Calls
    BY DEF MemberInv, Calls
  <1>1. /\ input[r].token \in Tokens /\ input[r].user \in Users /\ input[r].store \in Stores
        /\ input[r].body \in Body /\ Admin(r) \in Doc
    BY <1>0, Shapes DEF Let, Admin
  <1>2. /\ doc \in [Users -> Doc \cup {NoDoc}] /\ closed \in SUBSET Stores
        /\ rewritten \in [Users -> SUBSET {"roles", "storeId", "active"}]
    BY <1>0 DEF TypeOK
  <1>3. CASE Added(r)
    <2> DEFINE b == [input[r].body EXCEPT !.storeId = Admin(r).storeId]
    <2>1. b \in Body /\ NewDoc(NoStore) \in Doc
      BY <1>1, NewDocs DEF Body, Doc
    <2>2. Overwritten(NewDoc(NoStore), b) \in Doc
      BY <2>1, Overwriting
    <2> QED BY <1>1, <1>2, <1>3, <2>2 DEF Added, Forward, OnlyByBody, Exists
  <1>4. CASE StoreUpdated(r) \/ StoreDeactivated(r)
    <2>1. UNCHANGED <<doc, rewritten>>
      BY <1>4 DEF StoreUpdated, StoreDeactivated
    <2>2. closed' \in SUBSET Stores
      <3>1. CASE StoreDeactivated(r)
        BY <1>1, <1>2, <3>1 DEF StoreDeactivated
      <3>2. CASE StoreUpdated(r)
        <4>1. Admin(r).storeId \in Stores
          BY <1>0, <1>1, <3>2 DEF StoreUpdated, Let, Doc
        <4>2. closed' \in {closed \ {Admin(r).storeId}, closed \cup {Admin(r).storeId}, closed}
          BY <3>2 DEF StoreUpdated
        <4> QED BY <1>2, <4>1, <4>2
      <3> QED BY <1>4, <3>1, <3>2
    <2> QED BY <1>2, <2>1, <2>2 DEF Forward, OnlyByBody, Exists
  <1>5. CASE Updated(r) \/ Granted(r) \/ Deactivated(r) \/ Removed(r)
    <2> DEFINE u == input[r].user
               g == IF input[r].route = "updateUser" THEN Given(input[r].body) ELSE {}
    <2>1. /\ input[r].route \in ById /\ closed' = closed
          /\ rewritten' = [rewritten EXCEPT ![u] = @ \cup g]
      BY <1>1, <1>2, <1>5
      DEF Updated, Granted, Deactivated, Removed, NoteRewritten, ById
    <2>2. /\ Exists(u) /\ seen[r] # NoDoc
          /\ \/ "roles" \in rewritten[u]
             \/ /\ seen[r].roles \subseteq doc[u].roles
                /\ doc[u].roles \subseteq seen[r].roles \cup {"READ_WRITE"}
      BY <1>0, <2>1 DEF Checked
    <2>3. doc[u] \in Doc /\ seen[r] \in Doc
      BY <1>0, <1>1, <2>2, Shapes
    <2>4. /\ rewritten' \in [Users -> SUBSET {"roles", "storeId", "active"}]
          /\ rewritten'[u] = rewritten[u] \cup g
          /\ \A v \in Users : rewritten[v] \subseteq rewritten'[v]
      <3>1. g \in SUBSET {"roles", "storeId", "active"}
        BY DEF Given
      <3> HIDE DEF g
      <3> QED BY <1>1, <1>2, <2>1, <3>1
    <2>5. ASSUME NEW d \in Doc, doc' = [doc EXCEPT ![u] = d],
                 \/ "roles" \in rewritten'[u]
                 \/ doc[u].roles \subseteq d.roles /\ d.roles \subseteq doc[u].roles \cup {"READ_WRITE"},
                 ByBody(r, u, "storeId") \/ d.storeId \in {doc[u].storeId, NoStore},
                 ByBody(r, u, "active") \/ (d.active => doc[u].active)
          PROVE  /\ Forward /\ OnlyByBody(r)
                 /\ doc' \in [Users -> Doc \cup {NoDoc}]
                 /\ \A v \in Users : doc'[v] # doc[v] => v = u
      <3>1. /\ doc'[u] = d /\ d # NoDoc
            /\ \A v \in Users : v # u => doc'[v] = doc[v]
        BY <1>1, <1>2, <2>5, MembershipAssumption
      <3>2. OnlyByBody(r)
        BY <2>5, <3>1 DEF OnlyByBody
      <3>3. \A f : ByBody(r, u, f) => f \in rewritten'[u]
        BY <2>4 DEF ByBody
      <3>4. Forward
        BY <2>4, <2>5, <3>1, <3>3 DEF Forward, Exists
      <3> QED BY <1>1, <1>2, <2>5, <3>1, <3>2, <3>4
    <2>6. CASE Granted(r)
      <3> DEFINE d == [doc[u] EXCEPT !.roles = seen[r].roles \cup {"READ_WRITE"}]
      <3>1. doc' = [doc EXCEPT ![u] = d]
        BY <1>1, <1>2, <2>6 DEF Granted
      <3>2. /\ d \in Doc /\ d.roles = seen[r].roles \cup {"READ_WRITE"}
            /\ d.storeId = doc[u].storeId /\ d.active = doc[u].active
        BY <2>3 DEF Doc, UserRole
      <3>3. \/ "roles" \in rewritten'[u]
            \/ doc[u].roles \subseteq d.roles /\ d.roles \subseteq doc[u].roles \cup {"READ_WRITE"}
        BY <1>1, <2>2, <2>4, <3>2
      <3> HIDE DEF d
      <3> QED BY <1>2, <2>1, <2>4, <2>5, <3>1, <3>2, <3>3
    <2>7. CASE Deactivated(r)
      <3> DEFINE d == [doc[u] EXCEPT !.active = FALSE]
      <3>1. doc' = [doc EXCEPT ![u] = d]
        BY <1>1, <1>2, <2>7 DEF Deactivated
      <3>2. /\ d \in Doc /\ d.roles = doc[u].roles
            /\ d.storeId = doc[u].storeId /\ ~d.active
        BY <2>3 DEF Doc
      <3> HIDE DEF d
      <3> QED BY <1>2, <2>1, <2>4, <2>5, <3>1, <3>2
    <2>8. CASE Removed(r)
      <3> DEFINE d == [doc[u] EXCEPT !.storeId = NoStore]
      <3>1. doc' = [doc EXCEPT ![u] = d]
        BY <1>1, <1>2, <2>8 DEF Removed
      <3>2. /\ d \in Doc /\ d.roles = doc[u].roles
            /\ d.storeId = NoStore /\ d.active = doc[u].active
        BY <2>3 DEF Doc
      <3> HIDE DEF d
      <3> QED BY <1>2, <2>1, <2>4, <2>5, <3>1, <3>2
    <2>9. CASE Updated(r)
      <3> DEFINE d == Overwritten(doc[u], input[r].body)
      <3>1. /\ doc' = [doc EXCEPT ![u] = d] /\ g = Given(input[r].body)
            /\ input[r].route = "updateUser"
        BY <1>1, <1>2, <2>9 DEF Updated
      <3>2. /\ d \in Doc
            /\ "roles" \in g \/ d.roles = doc[u].roles
            /\ "storeId" \in g \/ d.storeId = doc[u].storeId
            /\ "active" \in g \/ d.active = doc[u].active
        BY <1>1, <2>3, <3>1, Overwriting
      <3>3. \A f : f \in g => ByBody(r, u, f) /\ f \in rewritten'[u]
        BY <2>4, <3>1 DEF ByBody
      <3> HIDE DEF d, g
      <3> QED BY <1>2, <2>1, <2>4, <2>5, <3>1, <3>2, <3>3
    <2> QED BY <1>5, <2>6, <2>7, <2>8, <2>9
  <1> QED BY <1>3, <1>4, <1>5 DEF Written

\* What ClaimsOnceHeld says of a token.
Behind(t) ==
  LET u == HolderOf[t] IN
  /\ Exists(u)
  /\ "roles" \in rewritten[u] \/ claims[t].roles \subseteq doc[u].roles
  /\ "storeId" \in rewritten[u] \/ doc[u].storeId \in {claims[t].storeId, NoStore}
  /\ "active" \in rewritten[u] \/ (doc[u].active => claims[t].active)

\* Documents that go forward keep what was checked, and the claims behind them.
LEMMA ForwardKeeps ==
  ASSUME MemberInv, Forward, TypeOK'
  PROVE  /\ \A t \in Tokens : claims'[t] = claims[t] /\ claims[t] # NoDoc => Behind(t)'
         /\ \A r \in Requests :
              /\ at'[r] = at[r] /\ input'[r] = input[r] /\ seen'[r] = seen[r]
              /\ Admin(r)' = Admin(r)
              => Checked(r)'
  <1>1. TypeOK /\ \A u \in Users : Exists(u) <=> doc[u] # NoDoc
    BY DEF MemberInv, Exists
  <1>2. ASSUME NEW t \in Tokens, claims'[t] = claims[t], claims[t] # NoDoc
        PROVE  Behind(t)'
    <2>1. HolderOf[t] \in Users
      BY <1>1, Shapes
    <2>2. Behind(t)
      BY <1>2 DEF MemberInv, ClaimsOnceHeld, Behind
    <2> QED BY <1>1, <1>2, <2>1, <2>2 DEF Behind, Forward, Exists
  <1>3. ASSUME NEW r \in Requests, at'[r] = at[r], input'[r] = input[r], seen'[r] = seen[r],
               Admin(r)' = Admin(r), at[r] = "writing", input[r].route \in ById
        PROVE  LET u == input[r].user IN
               /\ doc'[u] # NoDoc /\ seen[r] # NoDoc
               /\ \/ "roles" \in rewritten'[u]
                  \/ /\ seen[r].roles \subseteq doc'[u].roles
                     /\ doc'[u].roles \subseteq seen[r].roles \cup {"READ_WRITE"}
               /\ Admin(r).storeId # NoStore
               /\ "storeId" \in rewritten'[u] \/ doc'[u].storeId \in {Admin(r).storeId, NoStore}
    <2>1. Let(r) /\ Checked(r)
      BY DEF MemberInv
    <2>2. input[r].user \in Users
      BY <1>1, <1>3, <2>1, Shapes DEF Let, Calls
    <2> QED BY <1>1, <1>3, <2>1, <2>2 DEF Checked, Forward
  <1> QED BY <1>2, <1>3 DEF Checked, Exists

\* A login reads what its claims say, and takes nothing from anyone who is being served.
LEMMA TokenStepKeeps ==
  ASSUME MemberInv, NEW t \in Tokens, TokenStep(t)
  PROVE  MemberInv' /\ UNCHANGED <<doc, rewritten>>
  <1>0. TypeOK /\ HolderOf[t] \in Users
    BY Shapes DEF MemberInv
  <1>1. UNCHANGED <<doc, closed, input, at, seen, rewritten>>
    BY DEF TokenStep, LogIn, Sign, LogInFails, Expire
  <1>2. TypeOK'
    BY <1>0 DEF TokenStep, LogIn, Sign, LogInFails, Expire, TypeOK
  <1>3. \A v \in Tokens : \/ token[v] # "none" /\ token'[v] # "none" /\ claims'[v] = claims[v]
                          \/ token'[v] = token[v] /\ claims'[v] = claims[v]
                          \/ Exists(HolderOf[v]) /\ claims'[v] = doc[HolderOf[v]]
    BY <1>0 DEF TokenStep, LogIn, Sign, LogInFails, Expire, TypeOK
  <1>4. ClaimsOnceHeld' /\ \A v \in Tokens : token'[v] # "none" => claims'[v] # NoDoc
    BY <1>1, <1>3 DEF MemberInv, ClaimsOnceHeld, Exists
  <1>5. \A v \in Tokens : token[v] # "none" => token'[v] # "none" /\ claims'[v] = claims[v]
    BY <1>0 DEF TokenStep, LogIn, Sign, LogInFails, Expire, TypeOK
  <1>6. ASSUME NEW r \in Requests, at[r] \in Calls
        PROVE  token'[input[r].token] # "none" /\ Admin(r)' = Admin(r)
    <2>1. input[r].token \in Tokens /\ token[input[r].token] # "none"
      BY <1>0, <1>6, Shapes DEF MemberInv, Let
    <2> QED BY <1>1, <1>5, <2>1 DEF Admin
  <1>7. ASSUME NEW r \in Requests PROVE Let(r)' /\ Checked(r)'
    BY <1>1, <1>6 DEF MemberInv, Let, Checked, Exists, Calls
  <1> QED BY <1>1, <1>2, <1>4, <1>7 DEF MemberInv

\* A new document disturbs nobody.
LEMMA RegisterKeeps ==
  ASSUME MemberInv, NEW u \in Users, NEW b \in Bodies, Register(u, b)
  PROVE  MemberInv' /\ Forward
  <1>1. TypeOK /\ UNCHANGED <<closed, token, claims, input, at, seen, rewritten>>
    BY DEF MemberInv, Register
  <1>2. Overwritten(NewDoc(NoStore), b) \in Doc
    BY NewDocs, Overwriting, MembershipAssumption
  <1>3. TypeOK' /\ Forward
    BY <1>1, <1>2 DEF TypeOK, Register, Forward, Exists
  <1>4. ClaimsOnceHeld' /\ \A r \in Requests : Checked(r)'
    BY <1>1, <1>3, ForwardKeeps DEF ClaimsOnceHeld, Behind, Admin
  <1>5. \A r \in Requests : Let(r)'
    BY <1>1 DEF MemberInv, Let, Admin
  <1> QED BY <1>1, <1>3, <1>4, <1>5 DEF MemberInv

\* The guards let in only whom the claims permit, and only the handlers that look first
\* go on to a write by _id.
LEMMA ArriveKeeps ==
  ASSUME MemberInv, NEW r \in Requests, NEW i \in Inputs, Arrive(r, i)
  PROVE  MemberInv' /\ UNCHANGED <<doc, rewritten>>
  <1>1. Receive(r, i)
    BY DEF Arrive, Refuse, CreateUser, FindUser, GetUserById, UpdateUser, GrantUserWriteAccess,
           DeactivateUser, RemoveUserFromStore, GetStoreUsers, CreateStore, GetStore,
           UpdateStore, DeactivateStore, HandTransaction, Admit
  <1>2. UNCHANGED <<doc, closed, token, claims, seen, rewritten>> /\ input' = [input EXCEPT ![r] = i]
    BY <1>1 DEF Receive
  <1>3. PICK a \in Calls \cup Answers :
          /\ at' = [at EXCEPT ![r] = a]
          /\ a \in Calls => /\ token[i.token] = "valid" /\ Permitted(claims[i.token], i.route)
                            /\ a = "looking" => i.route = "createUser"
                            /\ a = "finding" => i.route \in ById \cup {"getUser"}
                            /\ a = "writing" => i.route \notin ById
                            /\ i.route \in {"createUser", "updateStore"} =>
                                 claims[i.token].storeId # NoStore
    BY DEF Arrive, Refuse, CreateUser, FindUser, GetUserById, UpdateUser, GrantUserWriteAccess,
           DeactivateUser, RemoveUserFromStore, GetStoreUsers, CreateStore, GetStore,
           UpdateStore, DeactivateStore, HandTransaction, Admit, HasStore, Goto, Calls, Answers,
           ById, TransactionRoutes
  <1>4. TypeOK /\ i.token \in Tokens
    BY Shapes DEF MemberInv
  <1>5. TypeOK' /\ ClaimsOnceHeld'
    <2>1. TypeOK'
      BY <1>2, <1>3, <1>4 DEF TypeOK
    <2>2. ClaimsOnceHeld'
      BY <1>2 DEF MemberInv, ClaimsOnceHeld, Exists
    <2> QED BY <2>1, <2>2
  <1>6. ASSUME NEW q \in Requests PROVE Let(q)' /\ Checked(q)'
    <2>1. CASE q = r
      <3>1. at'[r] = a /\ input'[r] = i /\ Admin(r)' = claims[i.token]
        BY <1>2, <1>3, <1>4 DEF TypeOK, Admin
      <3>2. a \in Calls => claims[i.token] # NoDoc /\ token'[i.token] # "none"
        BY <1>2, <1>3, <1>4 DEF MemberInv
      <3>3. Let(r)'
        BY <1>2, <1>3, <3>1, <3>2 DEF Let
      <3>4. Checked(r)'
        BY <1>3, <3>1 DEF Checked, Calls
      <3> QED BY <2>1, <3>3, <3>4
    <2>2. CASE q # r
      <3>1. at'[q] = at[q] /\ input'[q] = input[q] /\ Admin(q)' = Admin(q)
        BY <1>2, <1>3, <1>4, <2>2 DEF TypeOK, Admin
      <3> QED BY <1>2, <3>1 DEF Let, Checked, MemberInv, Exists
    <2> QED BY <2>1, <2>2
  <1> QED BY <1>2, <1>5, <1>6 DEF MemberInv

\* A call takes the documents forward, and its reply leaves a checked document for the
\* write that follows.
LEMMA ProceedKeeps ==
  ASSUME MemberInv, NEW r \in Requests, Proceed(r)
  PROVE  /\ MemberInv' /\ Forward
         /\ OnlyByBody(r) /\ (doc' # doc => at[r] = "writing" /\ at'[r] # "writing")
  <1>0. TypeOK /\ at[r] \in Calls /\ Let(r)
    BY DEF MemberInv, Proceed, Look, Found, Read, Write, CallFails, Calls
  <1>1. UNCHANGED <<token, claims, input>>
    BY DEF Proceed, Look, Found, Read, Write, CallFails
  <1>2. UNCHANGED <<doc, closed, rewritten>> \/ (at[r] = "writing" /\ Written(r))
    BY DEF Proceed, Look, Found, Read, Write, CallFails
  <1>3. /\ Forward /\ OnlyByBody(r)
        /\ doc' \in [Users -> Doc \cup {NoDoc}] /\ closed' \in SUBSET Stores
        /\ rewritten' \in [Users -> SUBSET {"roles", "storeId", "active"}]
    BY <1>0, <1>2, WrittenForward DEF Forward, OnlyByBody, Exists, TypeOK
  <1>4. PICK a \in {"writing"} \cup Answers : at' = [at EXCEPT ![r] = a]
    BY DEF Proceed, Look, Found, Read, Write, CallFails, Goto, Answers
  <1>5. input[r].user \in Users /\ input[r] \in Inputs
    BY <1>0, Shapes DEF Let
  <1>6. PICK d \in Doc \cup {NoDoc} : seen' = [seen EXCEPT ![r] = d]
    <2>1. seen = [seen EXCEPT ![r] = seen[r]] /\ seen[r] \in Doc \cup {NoDoc}
          /\ doc[input[r].user] \in Doc \cup {NoDoc}
      BY <1>0, <1>5 DEF TypeOK
    <2> QED BY <2>1 DEF Proceed, Look, Found, Read, Write, CallFails
  <1>7. TypeOK'
    BY <1>0, <1>1, <1>3, <1>4, <1>6 DEF TypeOK, Calls
  <1>8. ClaimsOnceHeld'
    BY <1>1, <1>3, <1>7, ForwardKeeps DEF ClaimsOnceHeld, Behind
  <1>9. ASSUME NEW q \in Requests PROVE Let(q)' /\ Checked(q)'
    <2>1. CASE q # r
      <3>1. at'[q] = at[q] /\ input'[q] = input[q] /\ seen'[q] = seen[q] /\ Admin(q)' = Admin(q)
        BY <1>0, <1>1, <1>4, <1>6, <2>1 DEF TypeOK, Admin
      <3>2. Checked(q)'
        BY <1>3, <1>7, <3>1, ForwardKeeps
      <3>3. Let(q)'
        BY <1>1, <3>1 DEF MemberInv, Let
      <3> QED BY <3>2, <3>3
    <2>2. CASE q = r
      <3>1. at'[r] = a /\ Admin(r)' = Admin(r) /\ input'[r] = input[r]
        BY <1>0, <1>1, <1>4 DEF TypeOK, Admin
      <3>2. Let(r)'
        BY <1>0, <1>1, <3>1 DEF Let, Calls, Answers
      <3>3. ASSUME at'[r] = "writing", input[r].route \in ById
            PROVE  Found(r)
        BY <1>0, <1>4, <3>1, <3>3 DEF Proceed, Look, Read, Write, CallFails, Goto, Let, ById, Answers, TypeOK
      <3>4. ASSUME at'[r] = "writing", Found(r)
            PROVE  LET u == input[r].user IN
                   /\ doc[u] # NoDoc /\ seen'[r] = doc[u] /\ doc' = doc
                   /\ Admin(r).storeId # NoStore
                   /\ doc[u].storeId = Admin(r).storeId
        BY <1>0, <3>1, <3>4 DEF Found, Goto, Exists, TypeOK
      <3>5. Checked(r)'
        BY <1>1, <3>1, <3>3, <3>4 DEF Checked, Exists
      <3> QED BY <2>2, <3>2, <3>5
    <2> QED BY <2>1, <2>2
  <1>10. doc' # doc => at[r] = "writing" /\ at'[r] # "writing"
    BY <1>0 DEF Proceed, Look, Found, Read, Write, CallFails, Goto, TypeOK
  <1> QED BY <1>1, <1>3, <1>7, <1>8, <1>9, <1>10 DEF MemberInv

\* Every step keeps the invariant and takes the documents forward.
LEMMA NextKeepsMembers == MemberInv /\ [Next]_vars => MemberInv' /\ Forward
  <1> SUFFICES ASSUME MemberInv, [Next]_vars PROVE MemberInv' /\ Forward
    OBVIOUS
  <1>1. ASSUME UNCHANGED <<doc, rewritten>> PROVE Forward
    BY <1>1 DEF Forward, Exists
  <1>2. CASE UNCHANGED vars
    BY <1>1, <1>2
    DEF vars, MemberInv, TypeOK, ClaimsOnceHeld, Let, Checked, Admin, Exists, Calls
  <1>3. ASSUME NEW t \in Tokens, TokenStep(t) PROVE MemberInv' /\ Forward
    BY <1>1, <1>3, TokenStepKeeps
  <1>4. ASSUME NEW u \in Users, NEW b \in Bodies, Register(u, b) PROVE MemberInv' /\ Forward
    BY <1>4, RegisterKeeps
  <1>5. ASSUME NEW r \in Requests, NEW i \in Inputs, Arrive(r, i) PROVE MemberInv' /\ Forward
    BY <1>1, <1>5, ArriveKeeps
  <1>6. ASSUME NEW r \in Requests, Proceed(r) PROVE MemberInv' /\ Forward
    BY <1>6, ProceedKeeps
  <1> QED BY <1>2, <1>3, <1>4, <1>5, <1>6 DEF Next

\* The invariant holds throughout.
THEOREM MembersHold == Spec => []MemberInv
  BY InitMembers, NextKeepsMembers, PTL DEF Spec

\* Every variable keeps its type.
THEOREM TypeCorrect == Spec => []TypeOK
  <1>1. MemberInv => TypeOK
    BY DEF MemberInv
  <1> QED BY <1>1, MembersHold, PTL

\* Where no body wrote, claims fall behind by a deactivation or a removal only.
THEOREM ClaimsHold == Spec => []ClaimsOnceHeld
  <1>1. MemberInv => ClaimsOnceHeld
    BY DEF MemberInv
  <1> QED BY <1>1, MembersHold, PTL

\* A document that exists changes only by the write of a request.
LEMMA ChangedByWrite ==
  ASSUME MemberInv, [Next]_vars, NEW u \in Users, Exists(u), doc'[u] # doc[u]
  PROVE  \E r \in Requests : at[r] = "writing" /\ at'[r] # "writing" /\ Written(r)
  <1>1. PICK r \in Requests : Proceed(r)
    <2>1. ~UNCHANGED vars /\ doc' # doc
      BY DEF vars
    <2>2. \A v \in Users, b \in Bodies : ~Register(v, b)
      BY DEF Register, MemberInv, TypeOK
    <2> QED BY <2>1, <2>2, TokenStepKeeps, ArriveKeeps DEF Next
  <1>2. at[r] = "writing" /\ Written(r) /\ at'[r] # "writing"
    BY <1>1
    DEF Proceed, Look, Found, Read, Write, CallFails, Goto, MemberInv, TypeOK, Exists
  <1> QED BY <1>2

\* What NothingComesBack says of one step and one document.
LEMMA StepUndoesNothing ==
  ASSUME MemberInv, [Next]_vars, NEW u \in Users, Exists(u)
  PROVE  /\ doc'[u] # NoDoc
         /\ "roles" \in rewritten'[u] \/ doc[u].roles \subseteq doc'[u].roles
         /\ Rewrites(u, "storeId") \/ doc'[u].storeId \in {doc[u].storeId, NoStore}
         /\ Rewrites(u, "active") \/ (doc'[u].active => doc[u].active)
  <1>1. /\ doc'[u] # NoDoc
        /\ "roles" \in rewritten'[u] \/ doc[u].roles \subseteq doc'[u].roles
    BY NextKeepsMembers DEF Forward
  <1>2. CASE doc'[u] = doc[u]
    BY <1>1, <1>2
  <1>3. CASE doc'[u] # doc[u]
    <2>1. PICK r \in Requests : at[r] = "writing" /\ at'[r] # "writing" /\ Written(r)
      BY <1>3, ChangedByWrite
    <2>2. OnlyByBody(r)
      BY <2>1, WrittenForward
    <2>3. \A f : ByBody(r, u, f) => Rewrites(u, f)
      BY <2>1 DEF ByBody, Rewrites
    <2> QED BY <1>1, <2>2, <2>3 DEF OnlyByBody
  <1> QED BY <1>2, <1>3

\* No deactivation, no removal and no move is undone, and no role lost, unless by a body.
THEOREM NothingUndone == Spec => NothingComesBack
  <1>1. MemberInv /\ [Next]_vars =>
          [\A u \in Users : Exists(u) =>
             /\ doc'[u] # NoDoc
             /\ "roles" \in rewritten'[u] \/ doc[u].roles \subseteq doc'[u].roles
             /\ Rewrites(u, "storeId") \/ doc'[u].storeId \in {doc[u].storeId, NoStore}
             /\ Rewrites(u, "active") \/ (doc'[u].active => doc[u].active)]_vars
    BY StepUndoesNothing
  <1> QED BY <1>1, MembersHold, PTL DEF Spec, NothingComesBack

\* Only an admin of the user's store changes the user's document, unless a body made the
\* admin or took one of the two elsewhere.
THEOREM WritesStayInStore == Spec => WritesWithinStore
  <1> DEFINE ByAdmin(u) == \E r \in Requests :
               /\ at[r] = "writing" /\ at'[r] # "writing"
               /\ input[r].user = u
               /\ LET h == HolderOf[input[r].token] IN
                  /\ "STORE_ADMIN" \in doc[h].roles \/ "roles" \in rewritten[h]
                  /\ \/ \A s1, s2 \in {doc[h].storeId, doc[u].storeId} \ {NoStore} : s1 = s2
                     \/ "storeId" \in rewritten[h] \cup rewritten[u]
  <1>1. ASSUME MemberInv, [Next]_vars, NEW u \in Users, Exists(u), doc'[u] # doc[u]
        PROVE  ByAdmin(u)
    <2>1. PICK r \in Requests : at[r] = "writing" /\ at'[r] # "writing" /\ Written(r)
      BY <1>1, ChangedByWrite
    <2>2. input[r].route \in ById /\ input[r].user = u
      BY <1>1, <2>1, WrittenForward
    <2>3. /\ Checked(r) /\ Let(r) /\ at[r] \in Calls
      BY <1>1, <2>1 DEF MemberInv, Calls
    <2>4. input[r].token \in Tokens /\ Admin(r) = claims[input[r].token] /\ Admin(r) # NoDoc
      BY <1>1, <2>3, Shapes DEF MemberInv, Let, Admin
    <2>5. "STORE_ADMIN" \in Admin(r).roles
      BY <2>2, <2>3 DEF Let, Permitted, RolesGuard, Required, UserRoutes, ById
    <2>6. LET h == HolderOf[input[r].token] IN
          /\ "STORE_ADMIN" \in doc[h].roles \/ "roles" \in rewritten[h]
          /\ doc[h].storeId \in {Admin(r).storeId, NoStore} \/ "storeId" \in rewritten[h]
      BY <1>1, <2>4, <2>5 DEF MemberInv, ClaimsOnceHeld
    <2>7. doc[u].storeId \in {Admin(r).storeId, NoStore} \/ "storeId" \in rewritten[u]
      BY <2>1, <2>2, <2>3 DEF Checked
    <2> QED BY <2>1, <2>2, <2>6, <2>7
  <1>2. MemberInv /\ [Next]_vars =>
          [\A u \in Users : Exists(u) /\ doc'[u] # doc[u] => ByAdmin(u)]_vars
    BY <1>1
  <1> QED BY <1>2, MembersHold, PTL DEF Spec, WritesWithinStore

-----------------------------------------------------------------------------

\* A login or the end of a token adds no token to those that admit an inactive user.
LEMMA NoTokenAdded ==
  ASSUME TypeOK, NEW t \in Tokens, TokenStep(t), NEW u \in Users, Inactive(u)
  PROVE  Admitting(u)' \subseteq Admitting(u)
  <1> SUFFICES ASSUME NEW v \in Admitting(u)' PROVE v \in Admitting(u)
    OBVIOUS
  <1>1. /\ v \in Tokens /\ HolderOf[v] = u
        /\ token'[v] \in {"signing", "valid"} /\ claims'[v].active
    BY DEF Admitting
  <1>2. CASE v # t
    BY <1>1, <1>2 DEF TokenStep, LogIn, Sign, LogInFails, Expire, TypeOK, Admitting
  <1>3. CASE v = t /\ LogIn(t)
    <2>1. claims'[t] = doc[u]
      BY <1>1, <1>3 DEF LogIn, TypeOK
    <2> QED BY <1>1, <1>3, <2>1 DEF Inactive
  <1>4. CASE v = t /\ ~LogIn(t)
    <2>1. claims' = claims /\ token[t] \in {"signing", "valid"}
      BY <1>1, <1>4 DEF TokenStep, Sign, LogInFails, Expire, TypeOK
    <2> QED BY <1>1, <1>4, <2>1 DEF Admitting
  <1> QED BY <1>2, <1>3, <1>4

\* A request that the guards let in comes with a valid token of active claims.
LEMMA LetInByActive ==
  ASSUME TypeOK, NEW r \in Requests, NEW i \in Inputs, Arrive(r, i), at'[r] \in Calls
  PROVE  input'[r] = i /\ token[i.token] = "valid" /\ claims[i.token].active
  <1>1. Receive(r, i)
    BY DEF Arrive, Refuse, CreateUser, FindUser, GetUserById, UpdateUser, GrantUserWriteAccess,
           DeactivateUser, RemoveUserFromStore, GetStoreUsers, CreateStore, GetStore,
           UpdateStore, DeactivateStore, HandTransaction, Admit
  <1>2. ~Refuse(r, i)
    BY DEF Refuse, Goto, Calls, TypeOK
  <1>3. token[i.token] = "valid" /\ Permitted(claims[i.token], i.route)
    BY <1>2
    DEF Arrive, CreateUser, FindUser, GetUserById, UpdateUser, GrantUserWriteAccess,
        DeactivateUser, RemoveUserFromStore, GetStoreUsers, CreateStore, GetStore,
        UpdateStore, DeactivateStore, HandTransaction, Admit
  <1> QED BY <1>1, <1>3 DEF Receive, TypeOK, Permitted, ActiveGuard

\* From a deactivation on, rights only shrink: all of RightsEnd but the fairness that
\* makes tokens expire and calls end.
THEOREM RightsOnlyShrink == Spec => RightsShrink
  <1>1. ASSUME MemberInv, Next, [Next]_vars, NEW u \in Users,
               Inactive(u), ~Rewrites(u, "active")
        PROVE  NoNewRights(u)
    <2>0. TypeOK
      BY <1>1 DEF MemberInv
    <2>1. Inactive(u)'
      <3>1. doc'[u] # NoDoc /\ (doc'[u].active => doc[u].active)
        BY <1>1, StepUndoesNothing DEF Inactive
      <3> QED BY <1>1, <3>1 DEF Inactive, Exists
    <2>2. Admitting(u)' \subseteq Admitting(u)
      <3>1. CASE UNCHANGED <<token, claims>>
        BY <3>1 DEF Admitting
      <3>2. CASE \E t \in Tokens : TokenStep(t)
        BY <1>1, <2>0, <3>2, NoTokenAdded
      <3>3. CASE \E v \in Users, b \in Bodies : Register(v, b)
        BY <3>1, <3>3 DEF Register
      <3>4. CASE \E r \in Requests : Proceed(r)
        BY <3>1, <3>4 DEF Proceed, Look, Found, Read, Write, CallFails
      <3>5. CASE \E r \in Requests, i \in Inputs : Arrive(r, i)
        <4>1. PICK r \in Requests, i \in Inputs : Arrive(r, i)
          BY <3>5
        <4>2. Receive(r, i)
          BY <4>1
          DEF Arrive, Refuse, CreateUser, FindUser, GetUserById, UpdateUser,
              GrantUserWriteAccess, DeactivateUser, RemoveUserFromStore, GetStoreUsers,
              CreateStore, GetStore, UpdateStore, DeactivateStore, HandTransaction, Admit
        <4> QED BY <3>1, <4>2 DEF Receive
      <3> QED BY <1>1, <3>2, <3>3, <3>4, <3>5 DEF Next
    <2>3. ASSUME NEW r \in Requests, at[r] = "idle", at'[r] \in Calls,
                 HolderOf[input'[r].token] = u
          PROVE  input'[r].token \in Admitting(u)
      <3>1. PICK i \in Inputs : Arrive(r, i)
        <4>1. ASSUME NEW q \in Requests, NEW i \in Inputs, Arrive(q, i) PROVE q = r
          <5>1. Receive(q, i) /\ \E a \in Calls \cup Answers : at' = [at EXCEPT ![q] = a]
            BY <4>1
            DEF Arrive, Refuse, CreateUser, FindUser, GetUserById, UpdateUser,
                GrantUserWriteAccess, DeactivateUser, RemoveUserFromStore, GetStoreUsers,
                CreateStore, GetStore, UpdateStore, DeactivateStore, HandTransaction, Admit,
                Goto, Calls, Answers
          <5> QED BY <2>0, <2>3, <5>1 DEF TypeOK, Calls
        <4>2. at' # at
          BY <2>3 DEF Calls
        <4>3. \A q \in Requests : ~Proceed(q)
          BY <2>0, <2>3 DEF Proceed, Look, Found, Read, Write, CallFails, Goto, Calls, TypeOK
        <4> QED
          BY <1>1, <4>1, <4>2, <4>3 DEF Next, TokenStep, LogIn, Sign, LogInFails, Expire, Register
      <3>2. input'[r] = i /\ token[i.token] = "valid" /\ claims[i.token].active
        BY <2>0, <2>3, <3>1, LetInByActive
      <3>3. i.token \in Tokens
        BY <2>0, Shapes
      <3> QED BY <2>3, <3>2, <3>3 DEF Admitting
    <2> QED BY <2>1, <2>2, <2>3 DEF NoNewRights
  <1>2. MemberInv /\ [Next]_vars =>
          [\A u \in Users : Inactive(u) /\ ~Rewrites(u, "active") => NoNewRights(u)]_vars
    <2> SUFFICES ASSUME MemberInv, [Next]_vars, ~UNCHANGED vars, NEW u \in Users,
                        Inactive(u), ~Rewrites(u, "active")
                 PROVE  NoNewRights(u)
      OBVIOUS
    <2> QED BY <1>1
  <1> QED BY <1>2, MembersHold, PTL DEF Spec, RightsShrink

\* Once the rights of a deactivated user have ended, they have ended for good: neither a
\* login, nor a late write to the document, nor a call that was under way brings any back.
THEOREM RightsEndForGood ==
  ASSUME NEW x \in Users
  PROVE  Spec /\ [][~Rewrites(x, "active")]_vars => [](Out(x) => []Out(x))
  <1> DEFINE Shrinks ==
               \A u \in Users : Inactive(u) /\ ~Rewrites(u, "active") => NoNewRights(u)
             Stays == ~Rewrites(x, "active")
  <1>1. MemberInv /\ [Next]_vars /\ [Shrinks]_vars /\ [Stays]_vars /\ Out(x) => Out(x)'
    <2> SUFFICES ASSUME MemberInv, [Next]_vars, [Shrinks]_vars, [Stays]_vars, Out(x)
                 PROVE  Out(x)'
      OBVIOUS
    <2>1. CASE UNCHANGED vars
      BY <2>1 DEF vars, Out, Inactive, Exists, Admitting
    <2>2. CASE Next /\ Shrinks /\ Stays
      <3>1. Inactive(x)' /\ Admitting(x)' = {}
        BY <2>2 DEF Out, NoNewRights
      <3>2. ASSUME NEW r \in Requests, at'[r] \in Calls PROVE HolderOf[input'[r].token] # x
        <4>1. CASE at[r] = "idle"
          BY <2>2, <3>2, <4>1 DEF Out, NoNewRights
        <4>2. CASE at[r] # "idle"
          <5>1. input'[r] = input[r] /\ at[r] \in Calls
            <6>1. CASE \E q \in Requests, i \in Inputs : Arrive(q, i)
              <7>1. PICK q \in Requests, i \in Inputs : Arrive(q, i)
                BY <6>1
              <7>2. Receive(q, i) /\ \E a \in Calls \cup Answers : at' = [at EXCEPT ![q] = a]
                BY <7>1
                DEF Arrive, Refuse, CreateUser, FindUser, GetUserById, UpdateUser,
                    GrantUserWriteAccess, DeactivateUser, RemoveUserFromStore, GetStoreUsers,
                    CreateStore, GetStore, UpdateStore, DeactivateStore, HandTransaction,
                    Admit, Goto, Calls, Answers
              <7> QED BY <3>2, <4>2, <7>2 DEF Receive, MemberInv, TypeOK
            <6>2. CASE \E q \in Requests : Proceed(q)
              BY <3>2, <6>2
              DEF Proceed, Look, Found, Read, Write, CallFails, Goto, Calls, MemberInv, TypeOK
            <6>3. CASE UNCHANGED <<at, input>>
              BY <3>2, <6>3
            <6> QED
              BY <2>2, <6>1, <6>2, <6>3
              DEF Next, TokenStep, LogIn, Sign, LogInFails, Expire, Register
          <5> QED BY <5>1 DEF Out
        <4> QED BY <4>1, <4>2
      <3> QED BY <3>1, <3>2 DEF Out
    <2> QED BY <2>1, <2>2
  <1>2. Spec => [][Shrinks]_vars
    BY RightsOnlyShrink DEF RightsShrink
  <1> HIDE DEF Shrinks
  <1> QED BY <1>1, <1>2, MembersHold, PTL DEF Spec

=============================================================================

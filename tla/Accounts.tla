------------------------------- MODULE Accounts -------------------------------
(***************************************************************************)
(* Accounts and their passwords: AuthService (auth.service.ts), and of     *)
(* UserService (user.service.ts) what creates accounts and writes an email *)
(* or a password.                                                          *)
(*                                                                         *)
(* Every handler reads a user document, works on what it read (bcrypt takes *)
(* its time) and writes by _id; other requests come in between.  MongoDB   *)
(* executes one call at a time, and its index on the email (user.entity.ts) *)
(* rejects a second document with the same one.                            *)
(*                                                                         *)
(* A password stands for itself and for its hash: compare tells whether    *)
(* they are the same.  The body of updateUser goes to the database as it   *)
(* was sent, so the password it may carry is stored as if it were a hash:  *)
(* some strings are, NoHash is none, and compare never accepts it.         *)
(*                                                                         *)
(* Who may call createUser and updateUser is the business of Membership;   *)
(* here they may be refused at any time.                                   *)
(***************************************************************************)

CONSTANTS
  Users,      \* the documents that exist or may be created, by _id
  Emails,
  Passwords,
  Requests,   \* the calls of the handlers
  Inputs,     \* what they may be called with
  NoEmail,    \* email[u] = NoEmail: there is no document u
  NoUser,
  NoHash,     \* a stored string that is the hash of no password
  Absent      \* a field that the body of an updateUser does not have

\* updateUser is here for the email and the password it may write: `user` is its target.
Ops == {"register", "createUser", "login", "forgotPassword", "resetPassword", "updateUser"}

InputType ==
  [op : Ops, email : Emails \cup {Absent}, password : Passwords \cup {NoHash, Absent},
   newPassword : Passwords, user : Users]

Stored == Passwords \cup {NoHash}

ASSUME AccountAssumption ==
  /\ Inputs \subseteq InputType
  /\ \A i \in Inputs : i.op # "updateUser" => i.email \in Emails /\ i.password \in Passwords
  /\ NoEmail \notin Emails
  /\ NoUser \notin Users
  /\ NoHash \notin Passwords
  /\ Absent \notin Emails \cup {NoEmail} \cup Passwords \cup {NoHash}

VARIABLES
  email, password,   \* the two fields of the user documents
  input,             \* input[r]: what r was called with
  at,                \* at[r]: the call that r waits for, or its answer
  found,             \* found[r]: the user that r has read
  had                \* history, had[r]: <<u, p>> where u had the email of r's input and
                     \* the password p, at some moment from r's call to its answer

vars == <<email, password, input, at, found, had>>

Calls == {"finding", "creating", "signing", "replacing", "updating"}
Answers == {"created", "token", "resetToken", "reset", "updated",
            "conflict", "notFound", "badRequest", "unauthorized", "error"}

Exists(u) == email[u] # NoEmail
Holders(e) == {u \in Users : email[u] = e}

Init ==
  /\ email \in [Users -> Emails \cup {NoEmail}]
  /\ \A u, v \in Users : Exists(u) /\ email[u] = email[v] => u = v
  /\ password \in [Users -> Stored]
  /\ input \in [Requests -> Inputs]
  /\ at = [r \in Requests |-> "idle"]
  /\ found = [r \in Requests |-> NoUser]
  /\ had = [r \in Requests |-> {}]

Goto(r, a) == at' = [at EXCEPT ![r] = a]
Find(r, u) == found' = [found EXCEPT ![r] = u]

Receive(r) ==
  /\ at[r] = "idle"
  /\ Goto(r, "finding")
  /\ UNCHANGED <<email, password, found>>

-----------------------------------------------------------------------------
(* What a handler does with the document it has read *)

Finding(r, ops) == at[r] = "finding" /\ input[r].op \in ops /\ UNCHANGED <<email, password>>

RegisterFinds(r) ==
  /\ Finding(r, {"register", "createUser"})
  /\ Goto(r, IF Holders(input[r].email) = {} THEN "creating" ELSE "conflict")
  /\ UNCHANGED found

\* Bug variant: `!user && !isPasswordValid`.
LoginFindsAnyone(r) ==
  /\ Finding(r, {"login"})
  /\ \E u \in Holders(input[r].email) : Goto(r, "signing") /\ Find(r, u)

\* Bug variant: no answer for a wrong password.
LoginFindsSilently(r) ==
  /\ Finding(r, {"login"})
  /\ \E u \in Holders(input[r].email) :
       IF password[u] = input[r].password
       THEN Goto(r, "signing") /\ Find(r, u)
       ELSE Goto(r, "undefined") /\ UNCHANGED found

\* Without a user, reading user.password throws before `!user` is looked at.
LoginFinds(r) ==
  /\ Finding(r, {"login"})
  /\ \/ Holders(input[r].email) = {} /\ Goto(r, "error") /\ UNCHANGED found
     \/ \E u \in Holders(input[r].email) :
          IF password[u] = input[r].password
          THEN Goto(r, "signing") /\ Find(r, u)
          ELSE Goto(r, "unauthorized") /\ UNCHANGED found

ForgotFinds(r) ==
  /\ Finding(r, {"forgotPassword"})
  /\ Goto(r, IF Holders(input[r].email) = {} THEN "notFound" ELSE "resetToken")
  /\ UNCHANGED found

ResetFinds(r) ==
  /\ Finding(r, {"resetPassword"})
  /\ \/ Holders(input[r].email) = {} /\ Goto(r, "notFound") /\ UNCHANGED found
     \/ \E u \in Holders(input[r].email) :
          IF /\ input[r].password # input[r].newPassword
             /\ password[u] = input[r].password
          THEN Goto(r, "replacing") /\ Find(r, u)
          ELSE Goto(r, "badRequest") /\ UNCHANGED found

\* Without a user, reading user.storeId throws.
UpdateFinds(r) ==
  /\ Finding(r, {"updateUser"})
  /\ IF Exists(input[r].user)
     THEN Goto(r, "updating") /\ Find(r, input[r].user)
     ELSE Goto(r, "error") /\ UNCHANGED found

\* The caller has no store, or another store than the user.
Unauthorized(r) ==
  /\ Finding(r, {"createUser", "updateUser"})
  /\ Goto(r, "unauthorized")
  /\ UNCHANGED found

-----------------------------------------------------------------------------
(* The writes, as what they leave in the documents *)

\* Bug variant: the collection has no unique index.
InsertUnindexed(e, p) ==
  \E u \in Users :
    /\ ~Exists(u)
    /\ email' = [email EXCEPT ![u] = e]
    /\ password' = [password EXCEPT ![u] = p]

Insert(e, p) ==
  /\ Holders(e) = {}
  /\ \E u \in Users :
       /\ ~Exists(u)
       /\ email' = [email EXCEPT ![u] = e]
       /\ password' = [password EXCEPT ![u] = p]

\* findOneAndUpdate by the _id of u, with the body as it is.
SetFields(u, e, p) ==
  /\ Holders(e) \subseteq {u}
  /\ email' = [email EXCEPT ![u] = IF e = Absent THEN @ ELSE e]
  /\ password' = [password EXCEPT ![u] = IF p = Absent THEN @ ELSE p]

\* Bug variant: the document is written by the email of the request.
SetPasswordByEmail(r) ==
  /\ password' = [u \in Users |-> IF email[u] = input[r].email
                                  THEN input[r].newPassword ELSE password[u]]
  /\ UNCHANGED email

SetPassword(r) ==
  /\ password' = [password EXCEPT ![found[r]] = input[r].newPassword]
  /\ UNCHANGED email

Create(r) ==
  /\ at[r] = "creating"
  /\ \/ Insert(input[r].email, input[r].password) /\ Goto(r, "created")
     \/ Holders(input[r].email) # {} /\ Goto(r, "error") /\ UNCHANGED <<email, password>>
  /\ UNCHANGED found

\* lastLoggedInAt is written, and the claims that were read are signed.
Sign(r) == at[r] = "signing" /\ Goto(r, "token") /\ UNCHANGED <<email, password, found>>

Replace(r) ==
  /\ at[r] = "replacing"
  /\ SetPassword(r)
  /\ Goto(r, "reset")
  /\ UNCHANGED found

Update(r) ==
  /\ at[r] = "updating"
  /\ \/ SetFields(found[r], input[r].email, input[r].password) /\ Goto(r, "updated")
     \/ /\ ~(Holders(input[r].email) \subseteq {found[r]})
        /\ Goto(r, "error")
        /\ UNCHANGED <<email, password>>
  /\ UNCHANGED found

\* A call of MongoDB throws, executed or not, or the process of r ends.
CallFails(r) ==
  /\ at[r] \in Calls
  /\ \/ at[r] = "creating" /\ Insert(input[r].email, input[r].password)
     \/ at[r] = "replacing" /\ SetPassword(r)
     \/ at[r] = "updating" /\ SetFields(found[r], input[r].email, input[r].password)
     \/ UNCHANGED <<email, password>>
  /\ Goto(r, "error")
  /\ UNCHANGED found

-----------------------------------------------------------------------------

RequestStep(r) ==
  \/ Receive(r) \/ RegisterFinds(r) \/ LoginFinds(r) \/ ForgotFinds(r) \/ ResetFinds(r)
  \/ UpdateFinds(r) \/ Unauthorized(r) \/ Create(r) \/ Sign(r) \/ Replace(r) \/ Update(r)
  \/ CallFails(r)

\* The credentials of r's email now.
Valid(r) == {<<u, password[u]>> : u \in Holders(input[r].email)}

Observe ==
  had' = [r \in Requests |-> IF at'[r] \in Calls THEN had[r] \cup Valid(r)' ELSE had[r]]

Terminated == (\A r \in Requests : at[r] \in Answers) /\ UNCHANGED vars

Next ==
  \/ UNCHANGED input /\ (\E r \in Requests : RequestStep(r)) /\ Observe
  \/ Terminated

Spec == Init /\ [][Next]_vars

-----------------------------------------------------------------------------
(* Properties *)

\* Every variable has its type.
TypeOK ==
  /\ email \in [Users -> Emails \cup {NoEmail}]
  /\ password \in [Users -> Stored]
  /\ input \in [Requests -> Inputs]
  /\ at \in [Requests -> {"idle"} \cup Calls \cup Answers]
  /\ found \in [Requests -> Users \cup {NoUser}]
  /\ had \in [Requests -> SUBSET (Users \X Stored)]

\* An email names one account, although registrations look for it and insert in two
\* steps and updateUser does not look for it at all.
UniqueEmails == \A u, v \in Users : Exists(u) /\ email[u] = email[v] => u = v

\* The password of an account is replaced in two ways only.  A resetPassword whose caller
\* gave a password that this very account had during the request, under the email that it
\* had then, sets the new one; an updateUser that names the account sets what its body
\* says.  However registrations, resets and changes of emails interleave, no request
\* replaces the password of another account than the one it looked up.
KnownPassword ==
  [][\A u \in Users :
       Exists(u) /\ password'[u] # password[u] =>
         \E r \in Requests :
           \/ /\ at[r] = "replacing" /\ at'[r] # "replacing"
              /\ <<u, input[r].password>> \in had[r]
              /\ password'[u] = input[r].newPassword
           \/ /\ at[r] = "updating" /\ at'[r] # "updating"
              /\ input[r].user = u
              /\ password'[u] = input[r].password]_vars

\* A token is given only for an email and a password that belonged to one account at
\* some moment between the call of login and its answer.
TokenForPassword ==
  \A r \in Requests :
    at[r] = "token" => \E u \in Users : <<u, input[r].password>> \in had[r]

=============================================================================

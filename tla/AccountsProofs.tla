---------------------------- MODULE AccountsProofs ----------------------------
(***************************************************************************)
(* Theorems about Accounts for every set of documents, emails, passwords   *)
(* and requests: type correctness, unique emails, tokens only for those    *)
(* who knew the password, passwords replaced only in the account that was  *)
(* looked up, and that the document which a handler has read is there when *)
(* it writes.                                                              *)
(***************************************************************************)
EXTENDS Accounts, TLAPS

\* What a request has found was valid for its input during the request, and what is valid
\* now has been taken down.
Grounded(r) ==
  /\ at[r] \in Calls => Valid(r) \subseteq had[r]
  /\ at[r] \in {"signing", "token", "replacing"} =>
       found[r] \in Users /\ <<found[r], input[r].password>> \in had[r]
  /\ at[r] \in {"creating", "signing", "replacing"} => input[r].op # "updateUser"
  /\ at[r] = "updating" =>
       input[r].op = "updateUser" /\ found[r] = input[r].user /\ Exists(found[r])

AccountInv == TypeOK /\ UniqueEmails /\ \A r \in Requests : Grounded(r)

\* Initially nobody has found anything.
LEMMA InitAccounts == Init => AccountInv
  BY DEF Init, AccountInv, TypeOK, UniqueEmails, Grounded, Calls, Exists

\* What an input is made of.
LEMMA InputTypes ==
  ASSUME TypeOK, NEW r \in Requests
  PROVE  /\ input[r].email \in Emails \cup {Absent}
         /\ input[r].password \in Stored \cup {Absent}
         /\ input[r].op # "updateUser" =>
              input[r].email \in Emails /\ input[r].password \in Passwords
         /\ input[r].newPassword \in Passwords /\ input[r].user \in Users
         /\ input[r].op \in Ops
  BY AccountAssumption DEF TypeOK, InputType, Stored

\* What a step leaves in the two fields of the documents: it adds one, writes what the
\* body of an updateUser has, or changes the password of what the request has found.
Documents(r) ==
  \/ UNCHANGED <<email, password>>
  \/ at[r] = "creating" /\ Insert(input[r].email, input[r].password)
  \/ at[r] = "updating" /\ SetFields(found[r], input[r].email, input[r].password)
  \/ at[r] = "replacing" /\ SetPassword(r)

\* Every step of a request treats the documents so, and goes on in one of these ways.
LEMMA StepDocuments ==
  ASSUME AccountInv, NEW r \in Requests, RequestStep(r)
  PROVE  /\ Documents(r)
         /\ \E a \in Calls \cup Answers : Goto(r, a)
         /\ \E u \in Users \cup {NoUser} : found' = [found EXCEPT ![r] = u]
         /\ at[r] = "replacing" => at'[r] # "replacing"
         /\ at[r] = "updating" => at'[r] # "updating"
  <1>1. at[r] \in {"idle"} \cup Calls \cup Answers /\ found[r] \in Users \cup {NoUser}
    BY DEF AccountInv, TypeOK
  <1>2. found = [found EXCEPT ![r] = found[r]]
    BY DEF AccountInv, TypeOK
  <1>3. input[r].user \in Users
    BY InputTypes DEF AccountInv
  <1>4. CASE Receive(r)
    BY <1>1, <1>2, <1>4 DEF Receive, Documents, Goto, Calls
  <1>5. CASE RegisterFinds(r) \/ ForgotFinds(r) \/ Unauthorized(r)
    BY <1>1, <1>2, <1>5 DEF RegisterFinds, ForgotFinds, Unauthorized, Finding, Documents, Goto,
                            Calls, Answers
  <1>6. CASE LoginFinds(r) \/ ResetFinds(r) \/ UpdateFinds(r)
    BY <1>1, <1>2, <1>3, <1>6 DEF LoginFinds, ResetFinds, UpdateFinds, Finding, Find,
                            Documents, Goto, Calls, Answers, Holders
  <1>7. CASE Create(r) \/ Sign(r) \/ Replace(r) \/ Update(r) \/ CallFails(r)
    <2>1. at' = [at EXCEPT ![r] = at'[r]] /\ at'[r] \in Answers /\ found' = found
      BY <1>1, <1>7 DEF Create, Sign, Replace, Update, CallFails, Goto, Answers, AccountInv, TypeOK
    <2>2. Documents(r)
      BY <1>7 DEF Create, Sign, Replace, Update, CallFails, Documents, SetPassword, SetFields
    <2>3. at'[r] \notin {"replacing", "updating"}
      BY <2>1 DEF Answers
    <2> QED BY <1>1, <1>2, <2>1, <2>2, <2>3 DEF Goto, Calls, Answers
  <1> QED BY <1>4, <1>5, <1>6, <1>7 DEF RequestStep

\* The documents keep their types, and emails stay unique.
LEMMA DocumentsKeep ==
  ASSUME AccountInv, NEW r \in Requests, Documents(r)
  PROVE  /\ email' \in [Users -> Emails \cup {NoEmail}]
         /\ password' \in [Users -> Stored]
         /\ UniqueEmails'
         /\ \A u \in Users : Exists(u) => Exists(u)'
  <1>0. /\ input[r].email \in Emails \cup {Absent} /\ input[r].password \in Stored \cup {Absent}
        /\ input[r].op # "updateUser" =>
             input[r].email \in Emails /\ input[r].password \in Passwords
        /\ input[r].newPassword \in Passwords
    BY InputTypes DEF AccountInv
  <1>1. CASE UNCHANGED <<email, password>>
    BY <1>1 DEF AccountInv, TypeOK, UniqueEmails, Exists
  <1>2. CASE at[r] = "creating" /\ Insert(input[r].email, input[r].password)
    <2>1. input[r].op # "updateUser"
      BY <1>2 DEF AccountInv, Grounded
    <2> QED BY <1>0, <1>2, <2>1, AccountAssumption
        DEF Insert, Holders, AccountInv, TypeOK, UniqueEmails, Exists, Stored
  <1>3. CASE at[r] = "updating" /\ SetFields(found[r], input[r].email, input[r].password)
    <2>1. found[r] \in Users /\ Exists(found[r])
      BY <1>3, InputTypes DEF AccountInv, Grounded
    <2>2. /\ email \in [Users -> Emails \cup {NoEmail}] /\ password \in [Users -> Stored]
          /\ \A u, v \in Users : Exists(u) /\ email[u] = email[v] => u = v
      BY DEF AccountInv, TypeOK, UniqueEmails
    <2>3. password' \in [Users -> Stored]
      BY <1>0, <1>3, <2>1, <2>2 DEF SetFields
    <2>4. CASE input[r].email = Absent
      <3>1. email' = email
        BY <1>3, <2>1, <2>2, <2>4 DEF SetFields
      <3> QED BY <2>2, <2>3, <3>1 DEF UniqueEmails, Exists
    <2>5. CASE input[r].email # Absent
      <3>1. /\ email' = [email EXCEPT ![found[r]] = input[r].email]
            /\ \A v \in Users : email[v] = input[r].email => v = found[r]
            /\ input[r].email \in Emails
        BY <1>0, <1>3, <2>5 DEF SetFields, Holders
      <3> QED BY <2>1, <2>2, <2>3, <3>1, AccountAssumption DEF UniqueEmails, Exists
    <2> QED BY <2>4, <2>5
  <1>4. CASE SetPassword(r)
    BY <1>0, <1>4 DEF SetPassword, AccountInv, TypeOK, UniqueEmails, Exists, Stored
  <1> QED BY <1>1, <1>2, <1>3, <1>4 DEF Documents

\* A request that goes on to sign or to replace has found credentials that are valid now;
\* one that goes on to update has found a document.
LEMMA FoundValid ==
  ASSUME AccountInv, NEW r \in Requests, RequestStep(r)
  PROVE  /\ at'[r] \in {"signing", "token", "replacing"} =>
              found'[r] \in Users /\ <<found'[r], input[r].password>> \in had[r]
         /\ at'[r] \in {"creating", "signing", "replacing"} => input[r].op # "updateUser"
         /\ at'[r] = "updating" =>
              /\ input[r].op = "updateUser" /\ found'[r] = input[r].user
              /\ found'[r] \in Users /\ Exists(found'[r])
  <1> USE DEF Goto
  <1>1. at[r] = "finding" => Valid(r) \subseteq had[r]
    BY DEF AccountInv, Grounded, Calls
  <1>2. input[r].user \in Users
    BY InputTypes DEF AccountInv
  <1>3. at \in [Requests -> {"idle"} \cup Calls \cup Answers]
        /\ found \in [Requests -> Users \cup {NoUser}]
    BY DEF AccountInv, TypeOK
  <1>4. CASE LoginFinds(r)
    BY <1>1, <1>3, <1>4 DEF LoginFinds, Finding, Find, Holders, Valid
  <1>5. CASE ResetFinds(r)
    BY <1>1, <1>3, <1>5 DEF ResetFinds, Finding, Find, Holders, Valid
  <1>6. CASE UpdateFinds(r)
    BY <1>2, <1>3, <1>6 DEF UpdateFinds, Finding, Find
  <1>7. CASE Receive(r) \/ RegisterFinds(r) \/ ForgotFinds(r) \/ Unauthorized(r)
    BY <1>3, <1>7 DEF Receive, RegisterFinds, ForgotFinds, Unauthorized, Finding
  <1>8. CASE Sign(r)
    BY <1>3, <1>8 DEF Sign, AccountInv, Grounded
  <1>9. CASE Create(r) \/ Replace(r) \/ Update(r) \/ CallFails(r)
    BY <1>3, <1>9 DEF Create, Replace, Update, CallFails
  <1> QED BY <1>4, <1>5, <1>6, <1>7, <1>8, <1>9 DEF RequestStep

\* Every step keeps the invariant.
LEMMA NextKeepsAccounts == AccountInv /\ [Next]_vars => AccountInv'
  <1> SUFFICES ASSUME AccountInv, [Next]_vars PROVE AccountInv'
    OBVIOUS
  <1>1. CASE UNCHANGED vars
    BY <1>1 DEF vars, AccountInv, TypeOK, UniqueEmails, Grounded, Exists, Valid, Holders
  <1>2. ASSUME NEW r \in Requests, RequestStep(r), UNCHANGED input, Observe PROVE AccountInv'
    <2>1. Documents(r)
      BY <1>2, StepDocuments
    <2>2. PICK a \in Calls \cup Answers : at' = [at EXCEPT ![r] = a]
      BY <1>2, StepDocuments DEF Goto
    <2>3. PICK v \in Users \cup {NoUser} : found' = [found EXCEPT ![r] = v]
      BY <1>2, StepDocuments
    <2>4. UniqueEmails' /\ \A u \in Users : Exists(u) => Exists(u)'
      BY <2>1, DocumentsKeep
    <2>5. \A q \in Requests : Valid(q)' \subseteq Users \X Stored
      BY <2>1, DocumentsKeep DEF Valid, Holders
    <2>6. had' \in [Requests -> SUBSET (Users \X Stored)]
      BY <1>2, <2>5 DEF Observe, AccountInv, TypeOK
    <2>7. TypeOK'
      BY <1>2, <2>1, <2>2, <2>3, <2>6, DocumentsKeep DEF AccountInv, TypeOK
    <2>8. ASSUME NEW q \in Requests PROVE Grounded(q)'
      <3>1. had[q] \subseteq had'[q] /\ (at'[q] \in Calls => Valid(q)' \subseteq had'[q])
        BY <1>2 DEF Observe
      <3>2. CASE q = r
        <4>1. /\ at'[r] \in {"signing", "token", "replacing"} =>
                   found'[r] \in Users /\ <<found'[r], input[r].password>> \in had[r]
              /\ at'[r] \in {"creating", "signing", "replacing"} => input[r].op # "updateUser"
              /\ at'[r] = "updating" =>
                   /\ input[r].op = "updateUser" /\ found'[r] = input[r].user
                   /\ found'[r] \in Users /\ Exists(found'[r])
          BY <1>2, FoundValid
        <4> QED BY <1>2, <2>4, <3>1, <3>2, <4>1 DEF Grounded
      <3>3. CASE q # r
        <4>1. at'[q] = at[q] /\ found'[q] = found[q]
          BY <2>2, <2>3, <3>3 DEF AccountInv, TypeOK
        <4>2. at[q] = "updating" => found[q] \in Users
          BY InputTypes DEF AccountInv, Grounded
        <4> QED BY <1>2, <2>4, <3>1, <4>1, <4>2 DEF Grounded, AccountInv
      <3> QED BY <3>2, <3>3
    <2> QED BY <2>4, <2>7, <2>8 DEF AccountInv
  <1> QED BY <1>1, <1>2 DEF Next, Terminated

\* The invariant holds throughout.
THEOREM AccountsHold == Spec => []AccountInv
  BY InitAccounts, NextKeepsAccounts, PTL DEF Spec

\* Every variable keeps its type.
THEOREM TypeCorrect == Spec => []TypeOK
  <1>1. AccountInv => TypeOK
    BY DEF AccountInv
  <1> QED BY <1>1, AccountsHold, PTL

\* An email never names two accounts.
THEOREM EmailsStayUnique == Spec => []UniqueEmails
  <1>1. AccountInv => UniqueEmails
    BY DEF AccountInv
  <1> QED BY <1>1, AccountsHold, PTL

\* A token is given only for credentials that were valid during the login.
THEOREM TokensAreEarned == Spec => []TokenForPassword
  <1>1. AccountInv => TokenForPassword
    BY DEF AccountInv, Grounded, TokenForPassword
  <1> QED BY <1>1, AccountsHold, PTL

\* A password is replaced only in the account of which the caller gave a password, or in
\* the one that an updateUser names.
THEOREM PasswordsAreKnown == Spec => KnownPassword
  <1> DEFINE Known(u) == \E r \in Requests :
               \/ /\ at[r] = "replacing" /\ at'[r] # "replacing"
                  /\ <<u, input[r].password>> \in had[r]
                  /\ password'[u] = input[r].newPassword
               \/ /\ at[r] = "updating" /\ at'[r] # "updating"
                  /\ input[r].user = u
                  /\ password'[u] = input[r].password
  <1>1. ASSUME AccountInv, [Next]_vars, NEW u \in Users, Exists(u), password'[u] # password[u]
        PROVE  Known(u)
    <2>1. PICK r \in Requests : RequestStep(r)
      BY <1>1 DEF Next, Terminated, vars
    <2>2. /\ Documents(r)
          /\ at[r] = "replacing" => at'[r] # "replacing"
          /\ at[r] = "updating" => at'[r] # "updating"
      BY <1>1, <2>1, StepDocuments
    <2>3. password \in [Users -> Stored] /\ Grounded(r)
      BY <1>1 DEF AccountInv, TypeOK
    <2>4. CASE at[r] = "replacing" /\ SetPassword(r)
      <3>1. u = found[r] /\ password'[u] = input[r].newPassword
        BY <1>1, <2>3, <2>4 DEF SetPassword
      <3> QED BY <2>2, <2>3, <2>4, <3>1 DEF Grounded
    <2>5. CASE at[r] = "updating" /\ SetFields(found[r], input[r].email, input[r].password)
      <3>1. u = found[r] /\ password'[u] = input[r].password
        BY <1>1, <2>3, <2>5 DEF SetFields
      <3> QED BY <2>2, <2>3, <2>5, <3>1 DEF Grounded
    <2>6. CASE Insert(input[r].email, input[r].password) \/ UNCHANGED password
      BY <1>1, <2>3, <2>6 DEF Insert, Exists
    <2> QED BY <2>2, <2>4, <2>5, <2>6 DEF Documents
  <1>2. AccountInv /\ [Next]_vars =>
          [\A u \in Users : Exists(u) /\ password'[u] # password[u] => Known(u)]_vars
    BY <1>1
  <1> QED BY <1>2, AccountsHold, PTL DEF Spec, KnownPassword

-----------------------------------------------------------------------------
(* Why a document may be written by the _id that was read earlier *)

\* A step of the system leaves every document that is there.
LEMMA DocumentsStay ==
  ASSUME AccountInv, [Next]_vars, NEW u \in Users, Exists(u)
  PROVE  Exists(u)'
  <1>1. CASE UNCHANGED vars
    BY <1>1 DEF vars, Exists
  <1>2. ASSUME NEW r \in Requests, RequestStep(r) PROVE Exists(u)'
    <2>1. Documents(r)
      BY <1>2, StepDocuments
    <2> QED BY <2>1, DocumentsKeep
  <1> QED BY <1>1, <1>2 DEF Next, Terminated

\* An account is there for good: no operation, failure or race of this part removes one.
THEOREM AccountsStay == ASSUME NEW x \in Users PROVE Spec => [](Exists(x) => []Exists(x))
  <1>1. AccountInv /\ [Next]_vars => (Exists(x) => Exists(x)')
    BY DocumentsStay
  <1> DEFINE There == Exists(x)
  <1>2. AccountInv /\ [Next]_vars => (There => There')
    BY <1>1
  <1> HIDE DEF There
  <1>3. Spec => [](There => []There)
    BY <1>2, AccountsHold, PTL DEF Spec
  <1> QED BY <1>3 DEF There

\* Credentials are taken down only of documents that are there.
HadExist == \A r \in Requests : \A c \in had[r] : c[1] \in Users /\ Exists(c[1])

LEMMA HadStay == AccountInv /\ HadExist /\ [Next]_vars => HadExist'
  <1> SUFFICES ASSUME AccountInv, HadExist, [Next]_vars, NEW q \in Requests, NEW c \in had'[q]
               PROVE  c[1] \in Users /\ Exists(c[1])'
    BY DEF HadExist
  <1>1. CASE c \in had[q]
    BY <1>1, DocumentsStay DEF HadExist
  <1>2. CASE c \notin had[q]
    <2>1. Observe /\ UNCHANGED input
      BY <1>2 DEF Next, Terminated, vars
    <2>2. c \in Valid(q)'
      BY <1>2, <2>1 DEF Observe
    <2>3. PICK u \in Users : c = <<u, password'[u]>> /\ email'[u] = input[q].email
      BY <2>1, <2>2 DEF Valid, Holders
    <2>4. input[q].email \in Emails \cup {Absent}
      BY InputTypes DEF AccountInv
    <2> QED BY <2>3, <2>4, AccountAssumption DEF Exists
  <1> QED BY <1>1, <1>2

\* However long bcrypt takes between the read and the write, the document that login signs
\* for and that resetPassword and updateUser write is still there: no write goes nowhere.
FoundThere ==
  \A r \in Requests :
    at[r] \in {"signing", "replacing", "updating"} => found[r] \in Users /\ Exists(found[r])

\* A handler never writes to a document that is gone.
THEOREM FoundStaysThere == Spec => []FoundThere
  <1>1. Init => HadExist
    BY DEF Init, HadExist
  <1>2. AccountInv /\ HadExist => FoundThere
    <2> SUFFICES ASSUME AccountInv, HadExist, NEW r \in Requests,
                        at[r] \in {"signing", "replacing", "updating"}
                 PROVE  found[r] \in Users /\ Exists(found[r])
      BY DEF FoundThere
    <2>1. CASE at[r] = "updating"
      BY <2>1, InputTypes DEF AccountInv, Grounded
    <2>2. CASE at[r] # "updating"
      <3> DEFINE c == <<found[r], input[r].password>>
      <3>1. c \in had[r] /\ c[1] = found[r]
        BY <2>2 DEF AccountInv, Grounded
      <3> HIDE DEF c
      <3> QED BY <3>1 DEF HadExist
    <2> QED BY <2>1, <2>2
  <1> QED BY <1>1, <1>2, HadStay, AccountsHold, PTL DEF Spec

=============================================================================

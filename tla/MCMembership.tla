----------------------------- MODULE MCMembership -----------------------------
(* The admin a of a store and a user b who is, in turn, a member of that store    *)
(* with and without the admin's role, the admin of another store, in no store, or *)
(* not there yet; a login of each and two requests.  Bodies with nothing of a     *)
(* document, and with each of its fields.                                         *)
EXTENDS Membership

CONSTANTS a, b, s1, s2, ta, tb, r1, r2

MCUsers == {a, b}
MCStores == {s1, s2}
MCTokens == {ta, tb}
MCHolderOf == [t \in MCTokens |-> IF t = ta THEN a ELSE b]
MCRequests == {r1, r2}

D(roles, s) == [roles |-> roles, storeId |-> s, active |-> TRUE]
MCSeeds ==
  {[u \in MCUsers |-> IF u = a THEN D({"READ_ONLY", "STORE_ADMIN"}, s1) ELSE d] :
     d \in {NoDoc, D({"READ_ONLY"}, s1), D({"READ_ONLY", "STORE_ADMIN"}, s1),
            D({"STORE_ADMIN", "SYSTEM_ADMIN"}, s2), D({"READ_ONLY"}, NoStore)}}

Names == [roles |-> Absent, storeId |-> Absent, active |-> Absent]
Active == [Names EXCEPT !.active = TRUE]
Demoted == [Names EXCEPT !.roles = {"READ_ONLY"}]
Moved == [Names EXCEPT !.storeId = s2]
MCBodies == {Names, [roles |-> {"STORE_ADMIN"}, storeId |-> s1, active |-> TRUE]}

In(route, t, u, body) ==
  [route |-> route, token |-> t, user |-> u, store |-> s1, body |-> body]

MCInputs ==
  {In(route, ta, b, Names) : route \in {"getUser", "updateWriteAccess", "deactivateUser",
                                        "removeUserFromStore"}}
  \cup {In("updateUser", ta, b, body) : body \in {Names, Active, Demoted, Moved}}
  \cup {In(route, tb, a, Names) : route \in {"updateWriteAccess", "deactivateUser",
                                             "removeUserFromStore"}}
  \cup {In("updateUser", tb, a, body) : body \in {Active, Demoted}}
  \cup {In(route, tb, b, Names) : route \in {"getStoreUsers", "createStore", "getStoreById",
                                             "createTransaction", "deactivateStore"}}
  \cup {In("createUser", ta, b, Names), In("updateStore", tb, b, Active)}

=============================================================================

-------------------------- MODULE TransactionLedger --------------------------
(***************************************************************************)
(* What a client of POST /transactions may rely on, with nothing said of   *)
(* locks, rates, processes or databases: a request is answered at most     *)
(* once; "created" means that the transaction is in the books; a refusal   *)
(* means that it is not and never will be; an "error", or no answer at all, *)
(* means nothing, for the transaction may be booked before or after it.    *)
(*                                                                         *)
(* TransactionService implements this specification (LedgerRefinement).    *)
(***************************************************************************)

CONSTANT Requests

VARIABLES
  booked,   \* the requests whose transaction is stored
  reply     \* reply[r]: the answer to request r

ledger == <<booked, reply>>

Refusals == {"conflict", "unavailable"}
Replies == {"none", "created", "error", "lost"} \cup Refusals

Init == booked = {} /\ reply = [r \in Requests |-> "none"]

Book(r) ==
  /\ r \notin booked /\ reply[r] \notin Refusals
  /\ booked' = booked \cup {r}
  /\ UNCHANGED reply

Reply(r, s) ==
  /\ reply[r] = "none"
  /\ s = "created" => r \in booked
  /\ s \in Refusals => r \notin booked
  /\ reply' = [reply EXCEPT ![r] = s]
  /\ UNCHANGED booked

\* The answers to the requests of S will never be given.
LoseReplies(S) ==
  /\ reply' = [r \in Requests |->
                 IF r \in S /\ reply[r] = "none" THEN "lost" ELSE reply[r]]
  /\ UNCHANGED booked

Next ==
  \/ \E r \in Requests : Book(r) \/ \E s \in Replies \ {"none", "lost"} : Reply(r, s)
  \/ \E S \in SUBSET Requests : LoseReplies(S)

Spec == Init /\ [][Next]_ledger

TypeOK == booked \subseteq Requests /\ reply \in [Requests -> Replies]

=============================================================================

----------------------------- MODULE RateLimiter -----------------------------
(***************************************************************************)
(* RateLimitInterceptor (rate-limit.interceptor.ts): INCR the counter of   *)
(* client, method and URL; if it is 1, EXPIRE it; refuse above the limit.  *)
(* The two commands are two awaits, and other requests, a lost connection  *)
(* or the end of the process may come between them.                        *)
(*                                                                         *)
(* A window is the life of a Redis counter, from the INCR that creates it  *)
(* until its TTL removes it.  As in DistributedLock, a command whose reply *)
(* is lost is sent again.                                                  *)
(***************************************************************************)
EXTENDS Naturals, FiniteSets

CONSTANTS
  Requests,     \* the requests that reach the interceptor
  Counters,     \* the Redis keys: one for each client, method and URL
  CounterOf,    \* CounterOf[r]: the counter that request r increments
  Instances,    \* the Node processes
  InstanceOf,   \* InstanceOf[r]: the process that serves request r
  Limit,        \* RATE_LIMIT_COUNT
  MaxCount      \* bound on repeated INCRs: counters are not taken beyond it

ASSUME LimiterAssumption ==
  /\ CounterOf \in [Requests -> Counters]
  /\ InstanceOf \in [Requests -> Instances]
  /\ Limit \in Nat \ {0}
  /\ MaxCount \in Nat \ {0}

VARIABLES
  count,      \* count[k]: the value of counter k, 0 if there is no such key
  expiring,   \* the counters that have a TTL
  phase,      \* phase[r]: where request r is in intercept
  passed,     \* history, passed[k]: those let through by an INCR in this window of k
  orphaned,   \* history: counters whose creator failed before its EXPIRE returned
  ahead       \* history: counters with an INCR in this window that nobody got the reply of

vars == <<count, expiring, phase, passed, orphaned, ahead>>

Phases == {"idle", "counting", "arming", "admitted", "limited", "failed", "dead"}
InFlight == {"counting", "arming"}

Init ==
  /\ count = [k \in Counters |-> 0]
  /\ expiring = {}
  /\ phase = [r \in Requests |-> "idle"]
  /\ passed = [k \in Counters |-> {}]
  /\ orphaned = {}
  /\ ahead = {}

Goto(r, p) == phase' = [phase EXCEPT ![r] = p]

Arrive(r) ==
  /\ phase[r] = "idle"
  /\ Goto(r, "counting")
  /\ UNCHANGED <<count, expiring, passed, orphaned, ahead>>

-----------------------------------------------------------------------------
(* const currentRequestCount = await this.redis.incr(rateLimitKey) *)

Increment(k) == count[k] < MaxCount /\ count' = [count EXCEPT ![k] = @ + 1]

\* A request that fails as it creates k, or before it gives k a TTL, orphans k.
Orphan(k) == orphaned' = orphaned \cup {k}
OrphanIfNew(k) == orphaned' = IF count[k] = 0 THEN orphaned \cup {k} ELSE orphaned

IncrementUnheard(k) == Increment(k) /\ OrphanIfNew(k) /\ ahead' = ahead \cup {k}

\* Bug variant: one more than the limit passes.
VerdictOffByOne(n) ==
  IF n = 1 THEN "arming" ELSE IF n > Limit + 1 THEN "limited" ELSE "admitted"

\* Bug variant: the request that reaches the limit is refused.
VerdictEarly(n) ==
  IF n = 1 THEN "arming" ELSE IF n >= Limit THEN "limited" ELSE "admitted"

\* Bug variant: nobody sets the TTL.
VerdictWithoutTTL(n) == IF n > Limit THEN "limited" ELSE "admitted"

\* What the interceptor makes of the reply n.
Verdict(n) ==
  IF n = 1 THEN "arming" ELSE IF n > Limit THEN "limited" ELSE "admitted"

Count(r) ==
  LET k == CounterOf[r] IN
  /\ phase[r] = "counting"
  /\ Increment(k)
  /\ Goto(r, Verdict(count'[k]))
  /\ passed' = [passed EXCEPT ![k] = IF phase'[r] = "limited" THEN @ ELSE @ \cup {r}]
  /\ UNCHANGED <<expiring, orphaned, ahead>>

\* The INCR has been executed and will be sent again, since its reply is lost.
CountUnseen(r) ==
  /\ phase[r] = "counting"
  /\ IncrementUnheard(CounterOf[r])
  /\ UNCHANGED <<expiring, phase, passed>>

\* Bug variant: an INCR that threw is taken back, executed or not.
CountFailsTakenBack(r) ==
  /\ phase[r] = "counting"
  /\ count' = [count EXCEPT ![CounterOf[r]] = @ - 1]
  /\ Goto(r, "failed")
  /\ UNCHANGED <<expiring, passed, orphaned, ahead>>

\* The INCR throws, executed or not, and the request ends with an error.
CountFails(r) ==
  /\ phase[r] = "counting"
  /\ IncrementUnheard(CounterOf[r]) \/ UNCHANGED <<count, orphaned, ahead>>
  /\ Goto(r, "failed")
  /\ UNCHANGED <<expiring, passed>>

-----------------------------------------------------------------------------
(* if (currentRequestCount === 1) await this.redis.expire(rateLimitKey, 60) *)

\* EXPIRE does nothing to a key that does not exist.
Armed(k) == IF count[k] > 0 THEN expiring \cup {k} ELSE expiring

Arm(r) ==
  /\ phase[r] = "arming"
  /\ expiring' = Armed(CounterOf[r])
  /\ Goto(r, "admitted")
  /\ UNCHANGED <<count, passed, orphaned, ahead>>

ArmUnseen(r) ==
  /\ phase[r] = "arming"
  /\ expiring' = Armed(CounterOf[r])
  /\ UNCHANGED <<count, phase, passed, orphaned, ahead>>

\* The EXPIRE throws: a request within the limit ends with an error.
ArmFails(r) ==
  /\ phase[r] = "arming"
  /\ expiring' \in {expiring, Armed(CounterOf[r])}
  /\ Orphan(CounterOf[r])
  /\ Goto(r, "failed")
  /\ UNCHANGED <<count, passed, ahead>>

-----------------------------------------------------------------------------
(* Redis and the processes *)

WindowEnds(k) ==
  /\ k \in expiring
  /\ count' = [count EXCEPT ![k] = 0]
  /\ expiring' = expiring \ {k}
  /\ passed' = [passed EXCEPT ![k] = {}]
  /\ orphaned' = orphaned \ {k}
  /\ ahead' = ahead \ {k}
  /\ UNCHANGED phase

ProcessEnds(i) ==
  LET Lost == {r \in Requests : InstanceOf[r] = i /\ phase[r] \in InFlight} IN
  /\ phase' = [r \in Requests |-> IF r \in Lost THEN "dead" ELSE phase[r]]
  /\ orphaned' = orphaned \cup {CounterOf[r] : r \in {q \in Lost : phase[q] = "arming"}}
  /\ UNCHANGED <<count, expiring, passed, ahead>>

\* No request is left, and no counter will change any more.
Terminated ==
  /\ \A r \in Requests : phase[r] \notin InFlight \cup {"idle"}
  /\ expiring = {}
  /\ UNCHANGED vars

RequestStep(r) ==
  \/ Arrive(r) \/ Count(r) \/ CountUnseen(r) \/ CountFails(r)
  \/ Arm(r) \/ ArmUnseen(r) \/ ArmFails(r)

Next ==
  \/ \E r \in Requests : RequestStep(r)
  \/ \E k \in Counters : WindowEnds(k)
  \/ \E i \in Instances : ProcessEnds(i)
  \/ Terminated

SafeSpec == Init /\ [][Next]_vars

\* A command is answered or throws, and a TTL runs out.
Fairness ==
  /\ \A r \in Requests : WF_vars(Count(r) \/ CountFails(r))
  /\ \A r \in Requests : WF_vars(Arm(r) \/ ArmFails(r))
  /\ \A k \in Counters : WF_vars(WindowEnds(k))

Spec == SafeSpec /\ Fairness

-----------------------------------------------------------------------------
(* Properties *)

\* Every variable has its type.
TypeOK ==
  /\ count \in [Counters -> 0 .. MaxCount]
  /\ expiring \subseteq Counters
  /\ phase \in [Requests -> Phases]
  /\ passed \in [Counters -> SUBSET Requests]
  /\ orphaned \subseteq Counters
  /\ ahead \subseteq Counters

\* However requests, processes and failures interleave, at most Limit requests pass
\* in one window.
AtMostLimit == \A k \in Counters : Cardinality(passed[k]) <= Limit

\* Nobody is refused before Limit requests have passed in the window, unless an INCR of it
\* was executed without a reply and took the counter ahead of the requests: neither the
\* failures of other commands nor what is left of an earlier window count against a client.
RefusedOnlyAtLimit ==
  [][\A r \in Requests :
       LET k == CounterOf[r] IN
       phase[r] = "counting" /\ phase'[r] = "limited" /\ k \notin ahead =>
         Cardinality(passed[k]) = Limit]_vars

\* A counter without a TTL is orphaned, or a request that was told it created the counter
\* is about to give it one: no lost reply, late EXPIRE or end of an earlier window leaves
\* a counter that nobody is responsible for.
TTLOnItsWay ==
  \A k \in Counters :
    count[k] > 0 /\ k \notin expiring \cup orphaned =>
      \E r \in Requests : phase[r] = "arming" /\ CounterOf[r] = k

\* The window ends, and with it the refusals, unless the very request that created
\* the counter failed before its EXPIRE returned: no later request, nor any failure of
\* one, can keep a window open.
WindowEndsUnlessOrphaned ==
  \A k \in Counters : count[k] > 0 ~> count[k] = 0 \/ k \in orphaned

\* "Limit: 10 per 60 seconds": every window ends.
EveryWindowEnds == \A k \in Counters : count[k] > 0 ~> count[k] = 0

=============================================================================

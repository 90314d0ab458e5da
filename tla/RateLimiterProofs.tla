-------------------------- MODULE RateLimiterProofs --------------------------
(***************************************************************************)
(* Theorems about RateLimiter for every set of requests, counters and      *)
(* processes, every limit and every bound on the counters: type            *)
(* correctness, at most Limit requests pass in a window, none is refused   *)
(* before unless a reply was lost, and a counter that has no TTL has its   *)
(* EXPIRE still to come or is orphaned.                                    *)
(*                                                                         *)
(* AtMostLimit is not inductive: it says nothing of the counter.  LimitInv *)
(* adds that a counter is never behind the requests that passed it, though *)
(* lost replies and failures may take it ahead of them, and that it is     *)
(* exact, up to the limit, while they do not.                              *)
(***************************************************************************)
EXTENDS RateLimiter, FiniteSetTheorems, TLAPS

\* The counter of a window is at least the number of requests it let pass.
NeverBehind ==
  \A k \in Counters : IsFiniteSet(passed[k]) /\ Cardinality(passed[k]) <= count[k]

\* While every INCR was heard of, those who passed are counted exactly up to the limit.
Exact ==
  \A k \in Counters \ ahead :
    Cardinality(passed[k]) = IF count[k] <= Limit THEN count[k] ELSE Limit

\* Who passed has been told.
PassedAreTold ==
  \A r \in Requests, k \in Counters : r \in passed[k] => phase[r] \notin {"idle", "counting"}

LimitInv == TypeOK /\ NeverBehind /\ AtMostLimit /\ Exact /\ PassedAreTold

\* The invariant holds when no counter exists yet.
LEMMA LimitInit == Init => LimitInv
  <1> SUFFICES ASSUME Init PROVE LimitInv
    OBVIOUS
  <1>1. TypeOK
    BY LimiterAssumption DEF Init, TypeOK, Phases
  <1>2. NeverBehind /\ AtMostLimit /\ Exact /\ PassedAreTold
    BY FS_EmptySet, LimiterAssumption DEF Init, NeverBehind, AtMostLimit, Exact, PassedAreTold
  <1> QED BY <1>1, <1>2 DEF LimitInv

\* A step that lets nobody pass and takes no counter back keeps the limit.
LEMMA NobodyPasses ==
  ASSUME LimitInv, UNCHANGED passed,
         \A k \in Counters : count'[k] \in Nat /\ count'[k] >= count[k],
         \A k \in Counters \ ahead' : k \notin ahead /\ count'[k] = count[k],
         \A r \in Requests : phase'[r] \in {"idle", "counting"} => phase[r] \in {"idle", "counting"}
  PROVE  NeverBehind' /\ AtMostLimit' /\ Exact' /\ PassedAreTold'
  <1>1. \A k \in Counters : IsFiniteSet(passed[k]) => Cardinality(passed[k]) \in Nat
    BY FS_CardinalityType
  <1>2. NeverBehind' /\ AtMostLimit'
    BY <1>1 DEF LimitInv, NeverBehind, AtMostLimit, TypeOK
  <1>3. Exact' /\ PassedAreTold'
    BY DEF LimitInv, Exact, PassedAreTold
  <1> QED BY <1>2, <1>3

\* An INCR, executed once, takes its counter up by one.
LEMMA IncrementLemma ==
  ASSUME TypeOK, NEW k \in Counters, Increment(k)
  PROVE  /\ count' \in [Counters -> 0 .. MaxCount]
         /\ count'[k] = count[k] + 1
         /\ \A j \in Counters : count'[j] \in Nat /\ count'[j] >= count[j]
  BY LimiterAssumption DEF TypeOK, Increment

\* LimitInv is inductive: what takes a counter back also ends its window.
LEMMA LimitStep == LimitInv /\ [Next]_vars => LimitInv'
  <1> SUFFICES ASSUME LimitInv, [Next]_vars PROVE LimitInv'
    OBVIOUS
  <1> USE DEF LimitInv
  <1>0. \A j \in Counters : count[j] \in Nat
    BY LimiterAssumption DEF TypeOK
  <1>1. ASSUME NEW r \in Requests, Arrive(r) PROVE LimitInv'
    <2>1. TypeOK'
      BY <1>1 DEF Arrive, Goto, TypeOK, Phases
    <2>2. \A q \in Requests : phase'[q] \in {"idle", "counting"} => phase[q] \in {"idle", "counting"}
      BY <1>1 DEF Arrive, Goto, TypeOK
    <2> QED BY <1>0, <1>1, <2>1, <2>2, NobodyPasses DEF Arrive
  <1>2. ASSUME NEW r \in Requests, Count(r) PROVE LimitInv'
    <2> DEFINE k == CounterOf[r]
               n == count[k] + 1
    <2>1. k \in Counters
      BY LimiterAssumption
    <2>2. Increment(k)
      BY <1>2 DEF Count
    <2>3. /\ n \in Nat /\ count'[k] = n /\ phase' = [phase EXCEPT ![r] = Verdict(n)]
          /\ passed' = [passed EXCEPT ![k] = IF phase'[r] = "limited" THEN @ ELSE @ \cup {r}]
          /\ UNCHANGED <<expiring, orphaned, ahead>>
      BY <1>2, <2>1, <2>2, IncrementLemma, <1>0 DEF Count, Goto
    <2>4. phase'[r] = Verdict(n)
      BY <2>3 DEF TypeOK
    <2>5. TypeOK'
      BY <2>1, <2>2, <2>3, IncrementLemma DEF TypeOK, Verdict, Phases
    <2>6. ASSUME NEW j \in Counters
          PROVE  /\ IsFiniteSet(passed'[j]) /\ Cardinality(passed'[j]) <= count'[j]
                 /\ Cardinality(passed'[j]) <= Limit
                 /\ j \notin ahead =>
                      Cardinality(passed'[j]) = IF count'[j] <= Limit THEN count'[j] ELSE Limit
      <3>1. /\ IsFiniteSet(passed[j]) /\ Cardinality(passed[j]) \in Nat
            /\ Cardinality(passed[j]) <= count[j] /\ Cardinality(passed[j]) <= Limit
            /\ count'[j] \in Nat /\ count'[j] >= count[j]
            /\ j \notin ahead =>
                 Cardinality(passed[j]) = IF count[j] <= Limit THEN count[j] ELSE Limit
        BY <2>1, <2>2, IncrementLemma, FS_CardinalityType DEF NeverBehind, AtMostLimit, Exact
      <3>2. CASE passed'[j] = passed[j] /\ count'[j] = count[j]
        BY <3>1, <3>2, <1>0, LimiterAssumption
      <3>4. CASE j = k /\ Verdict(n) = "limited"
        <4>1. passed'[j] = passed[j]
          BY <2>1, <2>3, <2>4, <3>4 DEF TypeOK
        <4>2. n > Limit
          BY <2>3, <3>4, LimiterAssumption DEF Verdict
        <4> QED BY <1>0, <2>3, <3>1, <3>4, <4>1, <4>2, LimiterAssumption
      <3>3. CASE j = k /\ Verdict(n) # "limited"
        <4>1. passed'[j] = passed[j] \cup {r}
          BY <2>1, <2>3, <2>4, <3>3 DEF TypeOK
        <4>2. n <= Limit
          BY <2>3, <3>3, LimiterAssumption DEF Verdict
        <4>3. /\ IsFiniteSet(passed'[j])
              /\ Cardinality(passed'[j]) = Cardinality(passed[j]) + 1
          <5> DEFINE P == passed[j]
          <5>1. IsFiniteSet(P) /\ passed'[j] = P \cup {r} /\ r \notin P
            BY <1>2, <3>1, <4>1 DEF Count, PassedAreTold
          <5> HIDE DEF P
          <5>2. /\ IsFiniteSet(P \cup {r})
                /\ Cardinality(P \cup {r}) = IF r \in P THEN Cardinality(P) ELSE Cardinality(P) + 1
            BY <5>1, FS_AddElement
          <5> QED BY <5>1, <5>2 DEF P
        <4> QED BY <1>0, <2>3, <3>1, <3>3, <4>2, <4>3, LimiterAssumption
      <3>5. j # k => passed'[j] = passed[j] /\ count'[j] = count[j]
        BY <2>1, <2>2, <2>3 DEF Increment, TypeOK
      <3> QED BY <3>2, <3>3, <3>4, <3>5
    <2>7. Exact'
      BY <2>3, <2>6 DEF Exact
    <2>8. PassedAreTold'
      <3>1. phase'[r] \notin {"idle", "counting"}
        BY <2>4 DEF Verdict
      <3>2. \A q \in Requests \ {r} : phase'[q] = phase[q]
        BY <2>3 DEF TypeOK
      <3>3. \A q \in Requests \ {r}, j \in Counters : q \in passed'[j] => q \in passed[j]
        BY <2>1, <2>3 DEF TypeOK
      <3> QED BY <3>1, <3>2, <3>3 DEF PassedAreTold
    <2> QED BY <2>5, <2>6, <2>7, <2>8 DEF NeverBehind, AtMostLimit
  <1>3. ASSUME NEW r \in Requests, CountUnseen(r) \/ CountFails(r) PROVE LimitInv'
    <2>1. CounterOf[r] \in Counters
      BY LimiterAssumption
    <2>2. /\ UNCHANGED <<expiring, passed>>
          /\ \/ Increment(CounterOf[r]) /\ ahead' = ahead \cup {CounterOf[r]}
             \/ UNCHANGED <<count, ahead>>
      BY <1>3 DEF CountUnseen, CountFails, IncrementUnheard
    <2>3. phase' = phase \/ phase' = [phase EXCEPT ![r] = "failed"]
      BY <1>3 DEF CountUnseen, CountFails, Goto
    <2>4. orphaned' \subseteq orphaned \cup {CounterOf[r]}
      BY <1>3 DEF CountUnseen, CountFails, IncrementUnheard, OrphanIfNew
    <2>5. TypeOK'
      BY <2>1, <2>2, <2>3, <2>4, IncrementLemma DEF TypeOK, Phases
    <2>6. \A j \in Counters : count'[j] \in Nat /\ count'[j] >= count[j]
      BY <1>0, <2>1, <2>2, IncrementLemma
    <2>7. \A j \in Counters \ ahead' : j \notin ahead /\ count'[j] = count[j]
      BY <2>1, <2>2 DEF Increment, TypeOK
    <2>8. \A q \in Requests : phase'[q] \in {"idle", "counting"} => phase[q] \in {"idle", "counting"}
      BY <2>3 DEF TypeOK
    <2> QED BY <2>2, <2>5, <2>6, <2>7, <2>8, NobodyPasses
  <1>4. ASSUME NEW r \in Requests, Arm(r) \/ ArmUnseen(r) \/ ArmFails(r) PROVE LimitInv'
    <2>1. CounterOf[r] \in Counters
      BY LimiterAssumption
    <2>2. UNCHANGED <<count, passed, ahead>>
      BY <1>4 DEF Arm, ArmUnseen, ArmFails
    <2>3. TypeOK'
      BY <1>4, <2>1 DEF Arm, ArmUnseen, ArmFails, Armed, Goto, Orphan, TypeOK, Phases
    <2>4. \A q \in Requests : phase'[q] \in {"idle", "counting"} => phase[q] \in {"idle", "counting"}
      BY <1>4 DEF Arm, ArmUnseen, ArmFails, Goto, TypeOK
    <2> QED BY <1>0, <2>2, <2>3, <2>4, NobodyPasses
  <1>5. ASSUME NEW k \in Counters, WindowEnds(k) PROVE LimitInv'
    <2>1. TypeOK'
      BY <1>5, LimiterAssumption DEF WindowEnds, TypeOK
    <2>2. NeverBehind' /\ AtMostLimit'
      BY <1>5, FS_EmptySet, LimiterAssumption
      DEF WindowEnds, NeverBehind, AtMostLimit, TypeOK
    <2>3. Exact'
      <3>1. \A j \in Counters \ {k} : /\ passed'[j] = passed[j] /\ count'[j] = count[j]
                                      /\ j \in ahead' <=> j \in ahead
        BY <1>5 DEF WindowEnds, TypeOK
      <3>2. passed'[k] = {} /\ count'[k] = 0
        BY <1>5 DEF WindowEnds, TypeOK
      <3>3. Cardinality(passed'[k]) = IF count'[k] <= Limit THEN count'[k] ELSE Limit
        BY <3>2, FS_EmptySet, LimiterAssumption
      <3>4. \A j \in Counters \ {k} : j \notin ahead' =>
              Cardinality(passed'[j]) = IF count'[j] <= Limit THEN count'[j] ELSE Limit
        BY <3>1 DEF Exact
      <3> QED BY <3>3, <3>4 DEF Exact
    <2>4. PassedAreTold'
      BY <1>5 DEF WindowEnds, PassedAreTold, TypeOK
    <2> QED BY <2>1, <2>2, <2>3, <2>4
  <1>6. ASSUME NEW i \in Instances, ProcessEnds(i) PROVE LimitInv'
    <2>1. UNCHANGED <<count, passed, expiring, ahead>>
      BY <1>6 DEF ProcessEnds
    <2>2. TypeOK'
      BY <1>6, <2>1, LimiterAssumption DEF ProcessEnds, TypeOK, Phases
    <2>3. \A q \in Requests : phase'[q] \in {"idle", "counting"} => phase[q] \in {"idle", "counting"}
      BY <1>6 DEF ProcessEnds
    <2> QED BY <1>0, <2>1, <2>2, <2>3, NobodyPasses
  <1>7. CASE UNCHANGED vars
    BY <1>7 DEF vars, TypeOK, NeverBehind, AtMostLimit, Exact, PassedAreTold
  <1> QED
    BY <1>1, <1>2, <1>3, <1>4, <1>5, <1>6, <1>7 DEF Next, RequestStep, Terminated

\* LimitInv holds in every reachable state.
LEMMA LimitAlways == SafeSpec => []LimitInv
  BY LimitInit, LimitStep, PTL DEF SafeSpec

\* Every variable keeps its type.
THEOREM TypeCorrect == SafeSpec => []TypeOK
  BY LimitAlways, PTL DEF LimitInv

\* No window of a counter lets more than Limit requests pass.
THEOREM LimitHolds == SafeSpec => []AtMostLimit
  BY LimitAlways, PTL DEF LimitInv

\* No request is refused in a window that has let fewer than Limit pass, unless a lost
\* reply took its counter ahead.
THEOREM RefusalsInTime == SafeSpec => RefusedOnlyAtLimit
  <1> DEFINE InTime ==
        \A r \in Requests :
          LET k == CounterOf[r] IN
          phase[r] = "counting" /\ phase'[r] = "limited" /\ k \notin ahead =>
            Cardinality(passed[k]) = Limit
  <1>1. LimitInv /\ [Next]_vars => [InTime]_vars
    <2> SUFFICES ASSUME LimitInv, Next, NEW r \in Requests,
                        phase[r] = "counting", phase'[r] = "limited", CounterOf[r] \notin ahead
                 PROVE  Cardinality(passed[CounterOf[r]]) = Limit
      OBVIOUS
    <2> DEFINE k == CounterOf[r]
    <2>1. TypeOK /\ k \in Counters
      BY LimiterAssumption DEF LimitInv
    <2>2. Count(r)
      BY <2>1 DEF Next, RequestStep, Arrive, Count, CountUnseen, CountFails, IncrementUnheard,
                  Arm, ArmUnseen, ArmFails, WindowEnds, ProcessEnds, Terminated, vars, Goto,
                  TypeOK, InFlight
    <2>3. count[k] \in Nat /\ count[k] + 1 > Limit
      BY <2>1, <2>2, LimiterAssumption DEF Count, Increment, Goto, Verdict, TypeOK
    <2> QED BY <2>1, <2>3, LimiterAssumption DEF LimitInv, Exact
  <1> QED BY <1>1, LimitAlways, PTL DEF SafeSpec, RefusedOnlyAtLimit

-----------------------------------------------------------------------------

\* A step that neither creates a counter nor takes a TTL or an orphan away, and lets no
\* request leave its EXPIRE undone, keeps every TTL on its way.
LEMMA NothingLetGo ==
  ASSUME TTLOnItsWay,
         \A k \in Counters : count'[k] > 0 => count[k] > 0 \/ k \in orphaned',
         expiring \subseteq expiring', orphaned \subseteq orphaned',
         \A r \in Requests : phase[r] = "arming" =>
            \/ phase'[r] = "arming" \/ CounterOf[r] \in orphaned' \cup expiring'
            \/ ~(count'[CounterOf[r]] > 0)
  PROVE  TTLOnItsWay'
  BY LimiterAssumption DEF TTLOnItsWay

\* TTLOnItsWay is inductive, given the types: the INCR that creates a counter is heard,
\* and its request goes on to the EXPIRE, or it is not, and the counter is orphaned.
LEMMA TTLStep == TypeOK /\ TTLOnItsWay /\ [Next]_vars => TTLOnItsWay'
  <1> SUFFICES ASSUME TypeOK, TTLOnItsWay, [Next]_vars PROVE TTLOnItsWay'
    OBVIOUS
  <1>0. \A r \in Requests : CounterOf[r] \in Counters
    BY LimiterAssumption
  <1>1. ASSUME NEW r \in Requests, Arrive(r) PROVE TTLOnItsWay'
    BY <1>1, NothingLetGo DEF Arrive, Goto, TypeOK
  <1>2. ASSUME NEW r \in Requests, Count(r) PROVE TTLOnItsWay'
    <2> DEFINE k == CounterOf[r]
    <2>1. /\ count'[k] = count[k] + 1 /\ count[k] \in Nat
          /\ \A j \in Counters \ {k} : count'[j] = count[j]
          /\ UNCHANGED <<expiring, orphaned>>
      BY <1>0, <1>2, LimiterAssumption DEF Count, Increment, TypeOK
    <2>2. /\ phase'[r] = Verdict(count'[k])
          /\ \A q \in Requests \ {r} : phase'[q] = phase[q]
          /\ phase[r] # "arming"
      BY <1>2 DEF Count, Goto, TypeOK
    <2>3. CASE count[k] = 0
      BY <2>1, <2>2, <2>3 DEF TTLOnItsWay, Verdict
    <2>4. CASE count[k] > 0
      BY <2>1, <2>2, <2>4 DEF TTLOnItsWay
    <2> QED BY <2>1, <2>3, <2>4
  <1>3. ASSUME NEW r \in Requests, CountUnseen(r) \/ CountFails(r) PROVE TTLOnItsWay'
    <2>1. /\ expiring' = expiring
          /\ \A q \in Requests : phase[q] = "arming" => phase'[q] = "arming"
      BY <1>3 DEF CountUnseen, CountFails, Goto, TypeOK
    <2>2. orphaned \subseteq orphaned'
      BY <1>3 DEF CountUnseen, CountFails, IncrementUnheard, OrphanIfNew
    <2>3. \A k \in Counters : count'[k] > 0 => count[k] > 0 \/ k \in orphaned'
      <3>1. CASE UNCHANGED count
        BY <3>1
      <3>2. CASE IncrementUnheard(CounterOf[r])
        BY <1>0, <3>2, LimiterAssumption DEF IncrementUnheard, Increment, OrphanIfNew, TypeOK
      <3> QED BY <1>3, <3>1, <3>2 DEF CountUnseen, CountFails
    <2> QED BY <2>1, <2>2, <2>3, NothingLetGo
  <1>4. ASSUME NEW r \in Requests, Arm(r) \/ ArmUnseen(r) \/ ArmFails(r) PROVE TTLOnItsWay'
    <2>1. /\ count' = count /\ orphaned \subseteq orphaned' /\ expiring \subseteq expiring'
          /\ \A q \in Requests \ {r} : phase'[q] = phase[q]
      BY <1>4 DEF Arm, ArmUnseen, ArmFails, Armed, Orphan, Goto, TypeOK
    <2>2. \/ phase'[r] = "arming" \/ CounterOf[r] \in orphaned' \cup expiring'
          \/ ~(count'[CounterOf[r]] > 0)
      BY <1>4 DEF Arm, ArmUnseen, ArmFails, Armed, Orphan, Goto, TypeOK
    <2> QED BY <2>1, <2>2, NothingLetGo
  <1>5. ASSUME NEW k \in Counters, WindowEnds(k) PROVE TTLOnItsWay'
    <2>1. count'[k] = 0 /\ phase' = phase
      BY <1>5 DEF WindowEnds, TypeOK
    <2>2. \A j \in Counters \ {k} : count'[j] = count[j]
      BY <1>5 DEF WindowEnds, TypeOK
    <2>3. expiring' = expiring \ {k} /\ orphaned' = orphaned \ {k}
      BY <1>5 DEF WindowEnds
    <2>4. ASSUME NEW j \in Counters, count'[j] > 0, j \notin expiring' \cup orphaned'
          PROVE  \E r \in Requests : phase'[r] = "arming" /\ CounterOf[r] = j
      <3>1. j # k
        BY <2>1, <2>4
      <3>2. count[j] > 0 /\ j \notin expiring \cup orphaned
        BY <2>2, <2>3, <2>4, <3>1
      <3> QED BY <2>1, <3>2 DEF TTLOnItsWay
    <2> QED BY <2>4 DEF TTLOnItsWay
  <1>6. ASSUME NEW i \in Instances, ProcessEnds(i) PROVE TTLOnItsWay'
    <2>1. \A r \in Requests : phase[r] = "arming" =>
            phase'[r] = "arming" \/ CounterOf[r] \in orphaned'
      BY <1>6 DEF ProcessEnds, InFlight
    <2> QED BY <1>6, <2>1, NothingLetGo DEF ProcessEnds
  <1>7. CASE UNCHANGED vars
    BY <1>7 DEF vars, TTLOnItsWay
  <1> QED
    BY <1>1, <1>2, <1>3, <1>4, <1>5, <1>6, <1>7 DEF Next, RequestStep, Terminated

\* A counter without a TTL is orphaned, or gets its TTL from a request under way.  Of
\* WindowEndsUnlessOrphaned this is all but the fairness: no counter is forgotten.
THEOREM NoCounterForgotten == SafeSpec => []TTLOnItsWay
  <1>1. Init => TTLOnItsWay
    BY DEF Init, TTLOnItsWay
  <1> QED BY <1>1, TTLStep, TypeCorrect, PTL DEF SafeSpec

=============================================================================

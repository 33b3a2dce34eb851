--------------------------- MODULE ConnectProofs ----------------------------
(***************************************************************************)
(* Proofs about how the client comes by its connections: the registry of   *)
(* the endpoints (Endpoints) and the pool of transports (ConnPool).        *)
(*                                                                         *)
(* For any URI, any threshold and any tasks that report at once, a host is *)
(* demoted only while no success has followed Threshold failures in a row, *)
(* and every connect starts with an endpoint that is not, or all are.      *)
(*                                                                         *)
(* For any capacity, any callers and any number of refill tasks, the pool  *)
(* exceeds its capacity by no more than the refill tasks, however they,    *)
(* the callers and the filler interleave; and no caller is handed a        *)
(* connection past its time to live.                                       *)
(***************************************************************************)
EXTENDS Endpoints, ConnPool, SequenceLemmas

-----------------------------------------------------------------------------
(* The registry *)

\* Below the threshold, consecutive_failures counts the failures since the last
\* success: that is why the failure that trips it is the Threshold-th in a row.
CountsTheStreak == \A h \in Hosts : streak[h] < Threshold => failures[h] = streak[h]

RegistryType ==
    /\ failures \in [Hosts -> 0..Threshold - 1]
    /\ demoted \in [Hosts -> 0..Demotion]
    /\ streak \in [Hosts -> 0..Threshold]

RegistryInv ==
    /\ RegistryType
    /\ CountsTheStreak
    /\ DemotedIsFailing

\* What RegistryInv says of one host with k failures counted, d ticks of
\* demotion left and a streak of n failures.
HostOK(k, d, n) ==
    /\ k \in 0..Threshold - 1 /\ d \in 0..Demotion /\ n \in 0..Threshold
    /\ n < Threshold => k = n
    /\ d > 0 => n = Threshold

LEMMA ByHost ==
    RegistryInv <=>
        /\ failures \in [Hosts -> 0..Threshold - 1]
        /\ demoted \in [Hosts -> 0..Demotion]
        /\ streak \in [Hosts -> 0..Threshold]
        /\ \A g \in Hosts : HostOK(failures[g], demoted[g], streak[g])
BY DEF RegistryInv, RegistryType, CountsTheStreak, DemotedIsFailing, HostOK

\* A function of the hosts updated at h, which need not be one of them.
LEMMA UpdateAt ==
    ASSUME NEW S, NEW f \in [Hosts -> S], NEW h, NEW v, h \in Hosts => v \in S
    PROVE  /\ [f EXCEPT ![h] = v] \in [Hosts -> S]
           /\ \A g \in Hosts : [f EXCEPT ![h] = v][g] = IF g = h THEN v ELSE f[g]
OBVIOUS

LEMMA InitRegistry == Init => RegistryInv
BY EndpointAssumption, ByHost DEF Init, HostOK

\* A success clears everything the registry holds against the host.
LEMMA RecordSuccessStep ==
    ASSUME RegistryInv, NEW i, RecordSuccess(i)
    PROVE  RegistryInv'
<1>0. PICK h : h = Uri[i]
  OBVIOUS
<1>1. /\ failures' = [failures EXCEPT ![h] = 0]
      /\ demoted' = [demoted EXCEPT ![h] = 0]
      /\ streak' = [streak EXCEPT ![h] = 0]
  BY <1>0 DEF RecordSuccess
<1>2. RegistryType /\ \A g \in Hosts : HostOK(failures[g], demoted[g], streak[g])
  BY ByHost DEF RegistryInv
<1>3. 0 \in 0..Threshold - 1 /\ 0 \in 0..Demotion /\ 0 \in 0..Threshold
  BY EndpointAssumption
<1>4. /\ failures' \in [Hosts -> 0..Threshold - 1]
      /\ demoted' \in [Hosts -> 0..Demotion]
      /\ streak' \in [Hosts -> 0..Threshold]
  BY <1>1, <1>2, <1>3, UpdateAt DEF RegistryType
<1>5. ASSUME NEW g \in Hosts
      PROVE  HostOK(failures'[g], demoted'[g], streak'[g])
  <2>1. CASE g # h
    BY <1>1, <1>2, <2>1 DEF RegistryType
  <2>2. CASE g = h
    <3>1. failures'[g] = 0 /\ demoted'[g] = 0 /\ streak'[g] = 0
      BY <1>1, <1>2, <2>2 DEF RegistryType
    <3> QED BY <1>3, <3>1, EndpointAssumption DEF HostOK
  <2> QED BY <2>1, <2>2
<1> QED BY <1>4, <1>5 DEF RegistryInv, RegistryType, CountsTheStreak, DemotedIsFailing, HostOK

\* The arithmetic of one failure.
LEMMA OneMoreFailure ==
    ASSUME NEW k, NEW d, NEW n, HostOK(k, d, n),
           NEW k2, NEW d2, NEW n2,
           k2 = (IF k + 1 >= Threshold THEN 0 ELSE k + 1),
           d2 = (IF k + 1 >= Threshold THEN Demotion ELSE d),
           n2 = (IF n < Threshold THEN n + 1 ELSE n)
    PROVE  HostOK(k2, d2, n2)
BY EndpointAssumption DEF HostOK

\* A failure adds to the streak, and demotes when it makes it Threshold long.
\* i need not be an endpoint: a host outside Hosts changes nothing.
LEMMA RecordFailureStep ==
    ASSUME RegistryInv, NEW i, RecordFailure(i)
    PROVE  RegistryInv'
<1>0. PICK h : h = Uri[i]
  OBVIOUS
<1>1. PICK k2, d2, n2 :
        /\ k2 = (IF failures[h] + 1 >= Threshold THEN 0 ELSE failures[h] + 1)
        /\ d2 = (IF failures[h] + 1 >= Threshold THEN Demotion ELSE demoted[h])
        /\ n2 = (IF streak[h] < Threshold THEN streak[h] + 1 ELSE streak[h])
  OBVIOUS
<1>2. RegistryType /\ \A g \in Hosts : HostOK(failures[g], demoted[g], streak[g])
  BY ByHost DEF RegistryInv
<1>3. /\ failures' = [failures EXCEPT ![h] = k2]
      /\ demoted' = [demoted EXCEPT ![h] = d2]
      /\ streak' = [streak EXCEPT ![h] = n2]
  BY <1>0, <1>1, <1>2 DEF RecordFailure, RegistryType
<1>4. h \in Hosts => HostOK(k2, d2, n2)
  BY <1>1, <1>2, OneMoreFailure
<1>5. h \in Hosts => k2 \in 0..Threshold - 1 /\ d2 \in 0..Demotion /\ n2 \in 0..Threshold
  BY <1>4 DEF HostOK
<1>6. /\ failures' \in [Hosts -> 0..Threshold - 1]
      /\ demoted' \in [Hosts -> 0..Demotion]
      /\ streak' \in [Hosts -> 0..Threshold]
  BY <1>2, <1>3, <1>5, UpdateAt DEF RegistryType
<1>7. ASSUME NEW g \in Hosts
      PROVE  HostOK(failures'[g], demoted'[g], streak'[g])
  <2>1. CASE g # h
    BY <1>2, <1>3, <2>1 DEF RegistryType
  <2>2. CASE g = h
    <3>1. failures'[g] = k2 /\ demoted'[g] = d2 /\ streak'[g] = n2
      BY <1>2, <1>3, <2>2 DEF RegistryType
    <3> QED BY <1>4, <2>2, <3>1
  <2> QED BY <2>1, <2>2
<1> QED BY <1>6, <1>7 DEF RegistryInv, RegistryType, CountsTheStreak, DemotedIsFailing, HostOK

LEMMA TickStep ==
    ASSUME RegistryInv, Tick
    PROVE  RegistryInv'
BY EndpointAssumption
   DEF Tick, RegistryInv, RegistryType, CountsTheStreak, DemotedIsFailing

LEMMA UnchangedStep ==
    ASSUME RegistryInv, UNCHANGED <<failures, demoted, streak>>
    PROVE  RegistryInv'
BY DEF RegistryInv, RegistryType, CountsTheStreak, DemotedIsFailing

LEMMA RegistryStep ==
    ASSUME RegistryInv, [Next]_vars
    PROVE  RegistryInv'
<1>1. ASSUME NEW t \in Tasks, Start(t) \/ GiveUp(t)
      PROVE  RegistryInv'
  BY <1>1, UnchangedStep DEF Start, GiveUp, registry
<1>2. ASSUME NEW t \in Tasks, TrySucceeds(t)
      PROVE  RegistryInv'
  BY <1>2, RecordSuccessStep DEF TrySucceeds
<1>3. ASSUME NEW t \in Tasks, TryFails(t)
      PROVE  RegistryInv'
  BY <1>3, RecordFailureStep DEF TryFails
<1>4. CASE Tick
  BY <1>4, TickStep
<1>5. CASE UNCHANGED vars
  BY <1>5, UnchangedStep DEF vars
<1> QED BY <1>1, <1>2, <1>3, <1>4, <1>5 DEF Next, Connect

(* "on the 3rd consecutive failure, demote" (endpoints.rs:15), whatever    *)
(* the threshold, the number of tasks and the order in which they report:  *)
(* no host is demoted after fewer failures in a row, and a success lifts   *)
(* the demotion.                                                           *)
THEOREM DemotionsAreEarned == Spec => []DemotedIsFailing
<1>1. RegistryInv => DemotedIsFailing
  BY DEF RegistryInv
<1> QED BY <1>1, InitRegistry, RegistryStep, PTL DEF Spec

-----------------------------------------------------------------------------
(* The order in which endpoints are tried                                  *)

LEMMA InOrderIs ==
    ASSUME NEW S \in SUBSET Idx
    PROVE  /\ InOrder(S) \in Seq(Idx)
           /\ S = {} => InOrder(S) = <<>>
           /\ S # {} => InOrder(S) # <<>> /\ InOrder(S)[1] \in S
<1>1. PICK n \in Nat : n = Len(Uri)
  BY EndpointAssumption
<1>2. PICK s : s = [i \in Idx |-> i]
  OBVIOUS
<1>3. s \in Seq(Idx) /\ Len(s) = n /\ \A i \in Idx : s[i] = i
  <2>1. s \in [1..n -> Idx]
    BY <1>1, <1>2 DEF Idx
  <2>2. s \in Seq(Idx) /\ Len(s) = n
    BY <2>1, IsASeq, LenProperties
  <2> QED BY <1>2, <2>2
<1>4. PICK v : v = InOrder(S) /\ v = Kept(s, S)
  BY <1>2 DEF InOrder
<1>5. PICK c : c = Cardinality(S)
  OBVIOUS
<1>6. S \in SUBSET (1..n) /\ S \in SUBSET (1..Len(s))
  BY <1>1, <1>3 DEF Idx
<1>7. v \in Seq(Idx) /\ Len(v) = c /\ c \in Nat /\ \A k \in 1..c : v[k] = s[NthOf(S, k)]
  <2>1. /\ Kept(s, S) \in Seq(Idx) /\ Len(Kept(s, S)) = Cardinality(S) /\ Cardinality(S) \in Nat
        /\ \A k \in 1..Cardinality(S) : Kept(s, S)[k] = s[NthOf(S, k)]
    BY <1>3, <1>6, KeptElements
  <2> QED BY <1>4, <1>5, <2>1
<1>8. IsFiniteSet(S) /\ (c = 0 <=> S = {})
  <2>1. IsFiniteSet(S)
    BY <1>6, Ranks
  <2> QED BY <1>5, <2>1, FS_EmptySet
<1>9. ASSUME S = {} PROVE v = <<>>
  BY <1>7, <1>8, <1>9, EmptySeq
<1>10. ASSUME S # {} PROVE v # <<>> /\ v[1] \in S
  <2>1. 1 \in 1..c
    BY <1>7, <1>8, <1>10
  <2>2. NthOf(S, 1) \in S
    <3>1. \A k \in 1..Cardinality(S) : NthOf(S, k) \in S
      BY <1>6, NthPlaces
    <3> QED BY <1>5, <2>1, <3>1
  <2>3. v[1] = NthOf(S, 1)
    BY <1>3, <1>7, <2>1, <2>2
  <2> QED BY <1>7, <2>1, <2>2, <2>3, EmptySeq
<1> QED BY <1>4, <1>7, <1>9, <1>10

LEMMA FirstOf ==
    ASSUME NEW S, NEW a \in Seq(S), NEW b \in Seq(S)
    PROVE  /\ a \o b \in Seq(S)
           /\ a = <<>> => a \o b = b
           /\ a # <<>> => (a \o b)[1] = a[1]
<1>1. PICK u : u = a \o b
  OBVIOUS
<1>2. /\ u \in Seq(S) /\ Len(u) = Len(a) + Len(b)
      /\ \A i \in 1..Len(a) : u[i] = a[i]
      /\ \A i \in 1..Len(b) : u[Len(a) + i] = b[i]
  BY <1>1, ConcatProperties
<1>3. Len(a) \in Nat /\ Len(b) \in Nat
  BY LenProperties
<1>4. ASSUME a = <<>> PROVE u = b
  <2>1. Len(a) = 0
    BY <1>4
  <2>2. Len(u) = Len(b) /\ \A i \in 1..Len(b) : u[i] = b[i]
    BY <1>2, <1>3, <2>1
  <2> QED BY <1>2, <2>2, SeqEqual
<1>5. ASSUME a # <<>> PROVE u[1] = a[1]
  <2>1. Len(a) # 0
    BY <1>5, EmptySeq
  <2> QED BY <1>2, <1>3, <2>1
<1> QED BY <1>1, <1>2, <1>4, <1>5

\* What ordered_candidates puts first.
LEMMA FirstCandidate ==
    ASSUME preferred \in Idx \cup {0}
    PROVE  /\ Candidates \in Seq(Idx)
           /\ IsDemoted(Candidates[1]) => \A i \in Idx : IsDemoted(i)
           /\ (preferred # 0 /\ ~IsDemoted(preferred)) => Candidates[1] = preferred
<1>1. PICK first : first = {i \in {preferred} \ {0} : ~IsDemoted(i)}
  OBVIOUS
<1>2. PICK live, down : /\ live = {i \in Idx : ~IsDemoted(i)} \ first
                        /\ down = {i \in Idx : IsDemoted(i)}
  OBVIOUS
<1>3. PICK a, b, c : a = InOrder(first) /\ b = InOrder(live) /\ c = InOrder(down)
  OBVIOUS
<1>4. first \in SUBSET Idx /\ live \in SUBSET Idx /\ down \in SUBSET Idx
  BY <1>1, <1>2
<1>5. a \in Seq(Idx) /\ b \in Seq(Idx) /\ c \in Seq(Idx)
  BY <1>3, <1>4, InOrderIs
<1>6. /\ first = {} => a = <<>>
      /\ first # {} => a # <<>> /\ a[1] \in first
      /\ live # {} => b # <<>> /\ b[1] \in live
  BY <1>3, <1>4, InOrderIs
<1>7. PICK d : d = a \o b
  OBVIOUS
<1>8. d \in Seq(Idx) /\ (a = <<>> => d = b) /\ (a # <<>> => d[1] = a[1])
  BY <1>5, <1>7, FirstOf
<1>9. Candidates = d \o c
  BY <1>1, <1>2, <1>3, <1>7 DEF Candidates
<1>10. Candidates \in Seq(Idx) /\ (d # <<>> => Candidates[1] = d[1])
  BY <1>5, <1>8, <1>9, FirstOf
<1>11. CASE first # {}
  <2>1. a # <<>> /\ d[1] \in first /\ preferred # 0 /\ ~IsDemoted(preferred) /\ first = {preferred}
    BY <1>1, <1>6, <1>8, <1>11
  <2>2. d # <<>>
    <3>1. Len(d) # 0
      BY <1>5, <1>7, <2>1, ConcatProperties, LenProperties, EmptySeq
    <3> QED BY <3>1
  <2>3. Candidates[1] = preferred
    BY <1>10, <2>1, <2>2
  <2> QED BY <1>10, <2>1, <2>3
<1>12. CASE first = {}
  <2>1. preferred = 0 \/ IsDemoted(preferred)
    BY <1>1, <1>12
  <2>2. live = {i \in Idx : ~IsDemoted(i)}
    BY <1>2, <1>12
  <2>3. CASE live # {}
    <3>1. d = b /\ b # <<>> /\ b[1] \in live
      BY <1>6, <1>8, <1>12, <2>3
    <3>2. Candidates[1] \in live
      BY <1>10, <3>1
    <3>3. ~IsDemoted(Candidates[1])
      BY <2>2, <3>2
    <3> QED BY <1>10, <2>1, <3>3
  <2>4. CASE live = {}
    <3>1. \A i \in Idx : IsDemoted(i)
      BY <2>2, <2>4
    <3> QED BY <1>10, <2>1, <3>1
  <2> QED BY <2>3, <2>4
<1> QED BY <1>11, <1>12

\* The tasks work through endpoints of the URI.
PlanInv == plan \in [Tasks -> Seq(Idx)] /\ preferred \in Idx \cup {0}

LEMMA InitPlan == Init => PlanInv
<1>1. <<>> \in Seq(Idx)
  OBVIOUS
<1> QED BY <1>1 DEF Init, PlanInv

\* A plan begins with Start, and is worked through from its head.
LEMMA PlanStep ==
    ASSUME PlanInv, [Next]_vars
    PROVE  /\ PlanInv'
           /\ \A t \in Tasks : plan[t] = <<>> /\ plan'[t] # <<>> => plan'[t] = Candidates
<1>1. plan \in [Tasks -> Seq(Idx)] /\ preferred \in Idx \cup {0}
  BY DEF PlanInv
<1>2. ASSUME NEW t \in Tasks, Start(t)
      PROVE  /\ PlanInv'
             /\ \A u \in Tasks : plan[u] = <<>> /\ plan'[u] # <<>> => plan'[u] = Candidates
  <2>1. PICK c \in Seq(Idx) : c = Candidates
    BY <1>1, FirstCandidate
  <2>2. plan' = [plan EXCEPT ![t] = c] /\ preferred' = preferred
    BY <1>2, <2>1 DEF Start, registry
  <2> QED BY <1>1, <2>1, <2>2 DEF PlanInv
<1>3. ASSUME NEW t \in Tasks, TrySucceeds(t) \/ TryFails(t)
      PROVE  /\ PlanInv'
             /\ \A u \in Tasks : plan[u] = <<>> /\ plan'[u] # <<>> => plan'[u] = Candidates
  <2>1. PICK p \in Seq(Idx) : p = plan[t] /\ p # <<>>
    BY <1>1, <1>3 DEF TrySucceeds, TryFails
  <2>2. Head(p) \in Idx /\ Tail(p) \in Seq(Idx) /\ <<>> \in Seq(Idx)
    BY <2>1, HeadTailProperties
  <2>3. preferred' = preferred \/ preferred' = Head(p)
    BY <1>3, <2>1 DEF TrySucceeds, TryFails, RecordSuccess, RecordFailure
  <2>4. PICK q \in Seq(Idx) : plan' = [plan EXCEPT ![t] = q]
    BY <1>1, <1>3, <2>1, <2>2 DEF TrySucceeds, TryFails
  <2> QED BY <1>1, <2>1, <2>2, <2>3, <2>4 DEF PlanInv
<1>4. ASSUME plan' = plan, preferred' = preferred
      PROVE  /\ PlanInv'
             /\ \A u \in Tasks : plan[u] = <<>> /\ plan'[u] # <<>> => plan'[u] = Candidates
  BY <1>1, <1>4 DEF PlanInv
<1>5. ASSUME NEW t \in Tasks, GiveUp(t)
      PROVE  plan' = plan /\ preferred' = preferred
  BY <1>5 DEF GiveUp, registry
<1>6. CASE Tick \/ UNCHANGED vars
  BY <1>4, <1>6 DEF Tick, tasks, vars
<1> QED BY <1>2, <1>3, <1>4, <1>5, <1>6 DEF Next, Connect

(* StartsWell, for any URI and whatever the other tasks have reported: a   *)
(* connect starts with the endpoint that last succeeded, or with one that  *)
(* is not demoted, or all are.                                             *)
THEOREM ConnectsStartWell == Spec => StartsWell
<1>1. PlanInv /\ [Next]_vars =>
        [\A t \in Tasks : (plan[t] = <<>> /\ plan'[t] # <<>>) =>
            LET first == plan'[t][1] IN
            /\ IsDemoted(first) => \A i \in Idx : IsDemoted(i)
            /\ (preferred # 0 /\ ~IsDemoted(preferred)) => first = preferred]_vars
  <2> SUFFICES ASSUME PlanInv, [Next]_vars, NEW t \in Tasks, plan[t] = <<>>, plan'[t] # <<>>
               PROVE  /\ IsDemoted(plan'[t][1]) => \A i \in Idx : IsDemoted(i)
                      /\ (preferred # 0 /\ ~IsDemoted(preferred)) => plan'[t][1] = preferred
    OBVIOUS
  <2>1. plan'[t] = Candidates
    BY PlanStep
  <2>2. preferred \in Idx \cup {0}
    BY DEF PlanInv
  <2> QED BY <2>1, <2>2, FirstCandidate
<1>2. PlanInv /\ [Next]_vars => PlanInv'
  BY PlanStep
<1> QED BY <1>1, <1>2, InitPlan, PTL DEF Spec, StartsWell

-----------------------------------------------------------------------------
(* The pool *)

Opening == IF filler = "opening" THEN 1 ELSE 0

\* OvershootBounded is inductive with the types of what it counts. A task that
\* passes the check has seen room for one: before it opens, all the refills
\* and the filler may be opening too, and that is the most the pool can gain.
PoolInv ==
    /\ idle \in Seq(0..Ttl)
    /\ refill \in [Refills -> {"none", "spawned", "opening"}]
    /\ filler \in {"check", "opening", "sleep"}
    /\ OvershootBounded

LEMMA PoolNumbers ==
    ASSUME PoolInv
    PROVE  /\ Len(idle) \in Nat /\ PoolSize \in Nat \ {0} /\ Ttl \in Nat \ {0}
           /\ InFlight \in SUBSET Refills /\ IsFiniteSet(InFlight)
           /\ Cardinality(InFlight) \in Nat /\ Cardinality(Refills) \in Nat
           /\ Cardinality(InFlight) <= Cardinality(Refills)
           /\ Opening \in 0..1
           /\ Len(idle) + Cardinality(InFlight) + Opening <= PoolSize + Cardinality(Refills)
<1>1. InFlight \in SUBSET Refills
  BY DEF InFlight
<1>2. /\ IsFiniteSet(Refills) /\ Cardinality(Refills) \in Nat
      /\ PoolSize \in Nat \ {0} /\ Ttl \in Nat \ {0}
  BY PoolAssumption, FS_CardinalityType
<1>3. IsFiniteSet(InFlight) /\ Cardinality(InFlight) <= Cardinality(Refills)
  BY <1>1, <1>2, FS_Subset
<1>4. Cardinality(InFlight) \in Nat
  BY <1>3, FS_CardinalityType
<1>5. Len(idle) \in Nat
  BY LenProperties DEF PoolInv
<1>6. Opening \in 0..1
  BY DEF Opening
<1>7. Len(idle) + Cardinality(InFlight) + Opening <= PoolSize + Cardinality(Refills)
  BY DEF PoolInv, OvershootBounded, Opening
<1> QED BY <1>1, <1>2, <1>3, <1>4, <1>5, <1>6, <1>7

\* pop_fresh stops at the first fresh entry or at the end.
LEMMA StaleFrontStops ==
    ASSUME idle \in Seq(0..Ttl)
    PROVE  /\ StaleFront \in 0..Len(idle)
           /\ \A i \in 1..StaleFront : ~Fresh(idle[i])
           /\ StaleFront = Len(idle) \/ Fresh(idle[StaleFront + 1])
<1> DEFINE Stops == {n \in 0..Len(idle) : n = Len(idle) \/ Fresh(idle[n + 1])}
<1>1. Len(idle) \in Nat
  BY LenProperties
<1>2. Stops \in SUBSET Nat /\ Len(idle) \in Stops
  BY <1>1
<1>3. PICK n \in Stops : \A m \in Stops : n <= m
  <2> HIDE DEF Stops
  <2> QED BY <1>2, LeastElement
<1>4. \A i \in 1..n : ~Fresh(idle[i])
  <2> SUFFICES ASSUME NEW i \in 1..n, Fresh(idle[i])
               PROVE  FALSE
    OBVIOUS
  <2>1. n \in Nat /\ n <= Len(idle) /\ i \in Nat /\ i >= 1 /\ i <= n
    BY <1>1, <1>3
  <2>2. i - 1 \in 0..Len(idle) /\ (i - 1) + 1 = i
    BY <1>1, <2>1
  <2>3. i - 1 \in Stops
    BY <2>2
  <2>4. n <= i - 1
    BY <1>3, <2>3
  <2> QED BY <2>1, <2>4
<1>5. /\ n \in 0..Len(idle)
      /\ \A i \in 1..n : ~Fresh(idle[i])
      /\ n = Len(idle) \/ Fresh(idle[n + 1])
  BY <1>3, <1>4
<1> HIDE DEF Stops
<1> QED BY <1>5 DEF StaleFront

LEMMA InitPool == PoolInit => PoolInv
<1> SUFFICES ASSUME PoolInit PROVE PoolInv
  OBVIOUS
<1>1. idle = <<>> /\ filler = "check" /\ InFlight = {}
  BY DEF PoolInit, InFlight
<1>2. Len(idle) = 0 /\ idle \in Seq(0..Ttl) /\ Cardinality(InFlight) = 0
  BY <1>1, FS_EmptySet
<1>3. OvershootBounded
  BY <1>1, <1>2, PoolAssumption, FS_CardinalityType DEF OvershootBounded
<1> QED BY <1>1, <1>2, <1>3 DEF PoolInit, PoolInv

\* A step that opens nothing, adds no entry and spawns at most one task.
LEMMA NoGain ==
    ASSUME PoolInv,
           idle' \in Seq(0..Ttl), Len(idle') <= Len(idle),
           refill' \in [Refills -> {"none", "spawned", "opening"}],
           InFlight' \subseteq InFlight,
           filler' \in {"check", "opening", "sleep"},
           filler' = "opening" => filler = "opening"
    PROVE  PoolInv'
<1>1. IsFiniteSet(InFlight') /\ Cardinality(InFlight') <= Cardinality(InFlight)
  BY PoolNumbers, FS_Subset
<1>2. Cardinality(InFlight') \in Nat
  BY <1>1, FS_CardinalityType
<1>3. Len(idle') \in Nat
  BY LenProperties
<1>4. Opening' <= Opening /\ Opening' \in 0..1
  BY DEF Opening
<1>5. Len(idle') + Cardinality(InFlight') + Opening' <= PoolSize + Cardinality(Refills)
  BY <1>1, <1>2, <1>3, <1>4, PoolNumbers
<1> QED BY <1>5 DEF PoolInv, OvershootBounded, Opening

\* The same with refill unchanged or a task spawned.
LEMMA SpawnedIsNotOpening ==
    ASSUME PoolInv, Spawn \/ UNCHANGED refill
    PROVE  /\ refill' \in [Refills -> {"none", "spawned", "opening"}]
           /\ InFlight' \subseteq InFlight
BY DEF PoolInv, Spawn, InFlight

LEMMA AcquireStep ==
    ASSUME PoolInv, NEW c \in Callers, Acquire(c)
    PROVE  PoolInv'
<1>1. filler' = filler
  BY DEF Acquire, AcquirePooled, AcquireMiss, AcquireOpened, AcquireFailed
<1>2. Spawn \/ UNCHANGED refill
  BY DEF Acquire, AcquirePooled, AcquireMiss, AcquireOpened, AcquireFailed
<1>3. idle' \in Seq(0..Ttl) /\ Len(idle') <= Len(idle)
  <2>1. idle \in Seq(0..Ttl) /\ Len(idle) \in Nat
    BY PoolNumbers DEF PoolInv
  <2>2. CASE AcquirePooled(c)
    <3>1. StaleFront \in 0..Len(idle) /\ idle' = SubSeq(idle, StaleFront + 2, Len(idle))
      BY <2>1, <2>2, StaleFrontStops DEF AcquirePooled
    <3>2. PICK m \in Nat : m = StaleFront + 2 /\ m >= 1
      BY <2>1, <3>1
    <3>3. idle' = SubSeq(idle, m, Len(idle))
      BY <3>1, <3>2
    <3>4. \A i \in m..Len(idle) : idle[i] \in 0..Ttl
      <4>1. PICK n \in Nat : n = Len(idle)
        BY <2>1
      <4>2. idle \in [1..n -> 0..Ttl]
        BY <2>1, <4>1, LenProperties
      <4>3. \A i \in m..n : i \in 1..n
        BY <3>2
      <4> QED BY <4>1, <4>2, <4>3
    <3>5. /\ idle' \in Seq(0..Ttl)
          /\ Len(idle') = IF m <= Len(idle) THEN Len(idle) - m + 1 ELSE 0
      BY <2>1, <3>2, <3>3, <3>4, SubSeqProperties
    <3> QED BY <2>1, <3>2, <3>5
  <2>3. CASE AcquireMiss(c)
    BY <2>1, <2>3 DEF AcquireMiss
  <2>4. CASE UNCHANGED idle
    BY <2>1, <2>4
  <2> QED BY <2>2, <2>3, <2>4 DEF Acquire, AcquireOpened, AcquireFailed
<1> QED BY <1>1, <1>2, <1>3, NoGain, SpawnedIsNotOpening DEF PoolInv

\* A refill passes the check only where there is room for one more.
LEMMA RefillCheckStep ==
    ASSUME PoolInv, NEW r \in Refills, RefillCheck(r)
    PROVE  PoolInv'
<1>1. CASE Len(idle) >= PoolSize
  <2>1. refill' = [refill EXCEPT ![r] = "none"] /\ idle' = idle /\ filler' = filler
    BY <1>1 DEF RefillCheck
  <2>2. /\ refill' \in [Refills -> {"none", "spawned", "opening"}]
        /\ InFlight' \subseteq InFlight
    BY <2>1 DEF PoolInv, InFlight
  <2> QED BY <2>1, <2>2, NoGain, PoolNumbers DEF PoolInv
<1>2. CASE ~(Len(idle) >= PoolSize)
  <2>1. refill' = [refill EXCEPT ![r] = "opening"] /\ idle' = idle /\ filler' = filler
    BY <1>2 DEF RefillCheck
  <2>2. /\ refill' \in [Refills -> {"none", "spawned", "opening"}]
        /\ InFlight' \in SUBSET Refills
    BY <2>1 DEF PoolInv, InFlight
  <2>3. IsFiniteSet(Refills)
    BY PoolAssumption
  <2>4. IsFiniteSet(InFlight') /\ Cardinality(InFlight') <= Cardinality(Refills)
    BY <2>2, <2>3, FS_Subset
  <2>5. Cardinality(InFlight') \in Nat
    BY <2>4, FS_CardinalityType
  <2>6. Len(idle) + Cardinality(InFlight') + Opening <= PoolSize + Cardinality(Refills)
    BY <1>2, <2>4, <2>5, PoolNumbers
  <2> QED BY <2>1, <2>2, <2>6 DEF PoolInv, OvershootBounded, Opening
<1> QED BY <1>1, <1>2

\* A refill that was opening no longer is.
LEMMA RefillDone ==
    ASSUME PoolInv, NEW r \in Refills, refill[r] = "opening",
           refill' = [refill EXCEPT ![r] = "none"]
    PROVE  /\ refill' \in [Refills -> {"none", "spawned", "opening"}]
           /\ InFlight' \subseteq InFlight
           /\ Cardinality(InFlight') = Cardinality(InFlight) - 1
<1>1. InFlight' = InFlight \ {r} /\ r \in InFlight
  BY DEF PoolInv, InFlight
<1>2. Cardinality(InFlight \ {r}) = Cardinality(InFlight) - 1
  BY <1>1, PoolNumbers, FS_RemoveElement
<1> QED BY <1>1, <1>2 DEF PoolInv

LEMMA RefillEndStep ==
    ASSUME PoolInv, NEW r \in Refills, RefillOpened(r) \/ RefillFailed(r)
    PROVE  PoolInv'
<1>1. /\ refill[r] = "opening" /\ refill' = [refill EXCEPT ![r] = "none"]
      /\ filler' = filler /\ (idle' = Append(idle, 0) \/ idle' = idle)
  BY DEF RefillOpened, RefillFailed
<1>2. 0 \in 0..Ttl /\ idle \in Seq(0..Ttl)
  BY PoolNumbers DEF PoolInv
<1>3. idle' \in Seq(0..Ttl) /\ Len(idle') <= Len(idle) + 1 /\ Len(idle') \in Nat
  <2>1. CASE idle' = Append(idle, 0)
    BY <1>2, <2>1, AppendProperties, PoolNumbers
  <2>2. CASE idle' = idle
    BY <1>2, <2>2, PoolNumbers
  <2> QED BY <1>1, <2>1, <2>2
<1>4. /\ refill' \in [Refills -> {"none", "spawned", "opening"}]
      /\ Cardinality(InFlight') = Cardinality(InFlight) - 1
  BY <1>1, RefillDone
<1>5. Len(idle') + Cardinality(InFlight') + Opening <= PoolSize + Cardinality(Refills)
  BY <1>3, <1>4, PoolNumbers
<1> QED BY <1>1, <1>3, <1>4, <1>5 DEF PoolInv, OvershootBounded, Opening

LEMMA FillerStep ==
    ASSUME PoolInv, Filler
    PROVE  PoolInv'
<1>1. UNCHANGED refill
  BY DEF Filler, FillerCheck, FillerOpened, FillerFailed, FillerWake
<1>2. InFlight' = InFlight /\ refill' \in [Refills -> {"none", "spawned", "opening"}]
  BY <1>1 DEF InFlight, PoolInv
<1>3. CASE FillerCheck /\ ~(Len(idle) >= PoolSize)
  <2>1. filler' = "opening" /\ idle' = idle
    BY <1>3 DEF FillerCheck
  <2>2. Len(idle) + Cardinality(InFlight) + 1 <= PoolSize + Cardinality(Refills)
    BY <1>3, PoolNumbers
  <2> QED BY <1>2, <2>1, <2>2 DEF PoolInv, OvershootBounded
<1>4. CASE FillerOpened
  <2>1. filler = "opening" /\ filler' = "sleep" /\ idle' = Append(idle, 0)
    BY <1>4 DEF FillerOpened
  <2>2. 0 \in 0..Ttl /\ idle \in Seq(0..Ttl)
    BY PoolNumbers DEF PoolInv
  <2>3. idle' \in Seq(0..Ttl) /\ Len(idle') = Len(idle) + 1
    BY <2>1, <2>2, AppendProperties
  <2>4. Opening = 1
    BY <2>1 DEF Opening
  <2>5. Len(idle') + Cardinality(InFlight) + 0 <= PoolSize + Cardinality(Refills)
    BY <2>3, <2>4, PoolNumbers
  <2> QED BY <1>2, <2>1, <2>3, <2>5 DEF PoolInv, OvershootBounded
<1>5. CASE (FillerCheck /\ Len(idle) >= PoolSize) \/ FillerFailed \/ FillerWake
  <2>1. idle' = idle /\ filler' \in {"check", "sleep"}
    BY <1>5 DEF FillerCheck, FillerFailed, FillerWake
  <2> QED BY <1>2, <2>1, NoGain, PoolNumbers DEF PoolInv
<1> QED BY <1>3, <1>4, <1>5 DEF Filler

LEMMA PoolTickStep ==
    ASSUME PoolInv, PoolTick
    PROVE  PoolInv'
<1>1. UNCHANGED <<refill, filler>>
  BY DEF PoolTick
<1>2. PICK n \in Nat : n = Len(idle)
  BY PoolNumbers
<1>3. idle \in [1..n -> 0..Ttl]
  BY <1>2, LenProperties DEF PoolInv
<1>4. idle' = [i \in 1..n |-> IF idle[i] < Ttl THEN idle[i] + 1 ELSE Ttl]
  BY <1>2 DEF PoolTick
<1>5. \A i \in 1..n : (IF idle[i] < Ttl THEN idle[i] + 1 ELSE Ttl) \in 0..Ttl
  BY <1>3, PoolNumbers
<1>6. idle' \in [1..n -> 0..Ttl]
  BY <1>4, <1>5
<1>7. idle' \in Seq(0..Ttl) /\ Len(idle') = n
  BY <1>4, <1>5, SMT
<1> QED BY <1>1, <1>2, <1>7, NoGain, SpawnedIsNotOpening, PoolNumbers DEF PoolInv

LEMMA PoolStep ==
    ASSUME PoolInv, [PoolNext]_poolVars
    PROVE  PoolInv'
<1>1. ASSUME NEW c \in Callers, Acquire(c)
      PROVE  PoolInv'
  BY <1>1, AcquireStep
<1>2. ASSUME NEW r \in Refills, Refill(r)
      PROVE  PoolInv'
  BY <1>2, RefillCheckStep, RefillEndStep DEF Refill
<1>3. CASE Filler
  BY <1>3, FillerStep
<1>4. CASE PoolTick
  BY <1>4, PoolTickStep
<1>5. ASSUME UNCHANGED <<idle, refill, filler>>
      PROVE  PoolInv'
  BY <1>5, PoolNumbers, NoGain, SpawnedIsNotOpening DEF PoolInv
<1> QED BY <1>1, <1>2, <1>3, <1>4, <1>5 DEF PoolNext, Leave, poolVars

-----------------------------------------------------------------------------
(* The order of the entries, and what a caller is handed.                  *)

\* Entries 1..n of `ages` are in the order of their age, the oldest first.
Sorted(ages, n) ==
    /\ \A i \in 1..n : ages[i] \in 0..Ttl
    /\ \A i, j \in 1..n : i < j => ages[i] >= ages[j]

SortedInv == TypeOK /\ OldestFirst

LEMMA IdleSorted ==
    ASSUME PoolInv
    PROVE  OldestFirst <=> Sorted(idle, Len(idle))
<1>1. PICK n \in Nat : n = Len(idle)
  BY PoolNumbers
<1>2. idle \in [1..n -> 0..Ttl]
  BY <1>1, LenProperties DEF PoolInv
<1> QED BY <1>1, <1>2 DEF OldestFirst, Sorted

\* What pop_fresh leaves: the entries after the one it returns, which is fresh.
LEMMA PopFresh ==
    ASSUME PoolInv, OldestFirst, StaleFront < Len(idle),
           NEW rest, rest = SubSeq(idle, StaleFront + 2, Len(idle))
    PROVE  /\ idle[StaleFront + 1] \in 0..Ttl - 1
           /\ rest \in Seq(0..Ttl)
           /\ Sorted(rest, Len(rest))
           /\ \A i \in 1..Len(rest) : rest[i] < Ttl
<1>1. PICK n \in Nat : n = Len(idle)
  BY PoolNumbers
<1>2. idle \in [1..n -> 0..Ttl] /\ idle \in Seq(0..Ttl)
  BY <1>1, LenProperties DEF PoolInv
<1>3. PICK m \in Nat : m = StaleFront + 1 /\ m \in 1..n /\ Fresh(idle[m])
  BY <1>1, <1>2, StaleFrontStops
<1>4. idle[m] \in 0..Ttl - 1
  BY <1>2, <1>3, PoolNumbers DEF Fresh
<1>5. rest = SubSeq(idle, m + 1, n) /\ m + 1 \in Int /\ n \in Int
  <2>1. StaleFront \in Nat
    BY <1>1, <1>2, StaleFrontStops
  <2> QED BY <1>1, <1>3, <2>1
<1>6. \A i \in m + 1..n : idle[i] \in 0..Ttl
  BY <1>2, <1>3
<1>7. /\ rest \in Seq(0..Ttl)
      /\ Len(rest) = IF m + 1 <= n THEN n - (m + 1) + 1 ELSE 0
      /\ \A i \in 1..n - (m + 1) + 1 : rest[i] = idle[(m + 1) + i - 1]
  <2>1. PICK q \in Int : q = m + 1
    BY <1>5
  <2>2. \A i \in q..n : idle[i] \in 0..Ttl
    BY <1>6, <2>1
  <2>3. /\ SubSeq(idle, q, n) \in Seq(0..Ttl)
        /\ Len(SubSeq(idle, q, n)) = IF q <= n THEN n - q + 1 ELSE 0
        /\ \A i \in 1..n - q + 1 : SubSeq(idle, q, n)[i] = idle[q + i - 1]
    BY <1>5, <2>2, SubSeqProperties
  <2> QED BY <1>5, <2>1, <2>3
<1>8. Len(rest) = n - m /\ \A i \in 1..n - m : rest[i] = idle[m + i]
  <2>1. m <= n /\ n - (m + 1) + 1 = n - m
    BY <1>3
  <2>2. Len(rest) = n - m
    BY <1>3, <1>7, <2>1
  <2>3. ASSUME NEW i \in 1..n - m
        PROVE  rest[i] = idle[m + i]
    <3>1. i \in 1..n - (m + 1) + 1 /\ (m + 1) + i - 1 = m + i
      BY <1>3, <2>3
    <3> QED BY <1>7, <3>1
  <2> QED BY <2>2, <2>3
<1>9. \A i, j \in 1..n : i < j => idle[i] >= idle[j]
  BY <1>1 DEF OldestFirst
<1>10. \A i \in 1..n - m : rest[i] \in 0..Ttl /\ rest[i] <= idle[m]
  <2> SUFFICES ASSUME NEW i \in 1..n - m
               PROVE  rest[i] \in 0..Ttl /\ rest[i] <= idle[m]
    OBVIOUS
  <2>1. m + i \in 1..n /\ m < m + i
    BY <1>3
  <2> QED BY <1>2, <1>3, <1>4, <1>8, <1>9, <2>1
<1>11. \A i, j \in 1..n - m : i < j => rest[i] >= rest[j]
  <2> SUFFICES ASSUME NEW i \in 1..n - m, NEW j \in 1..n - m, i < j
               PROVE  rest[i] >= rest[j]
    OBVIOUS
  <2>1. m + i \in 1..n /\ m + j \in 1..n /\ m + i < m + j
    BY <1>3
  <2> QED BY <1>8, <1>9, <2>1
<1>12. \A i \in 1..n - m : rest[i] < Ttl
  <2>1. idle[m] \in 0..Ttl /\ idle[m] < Ttl /\ Ttl \in Nat
    BY <1>4, PoolNumbers
  <2> SUFFICES ASSUME NEW i \in 1..n - m
               PROVE  rest[i] < Ttl
    OBVIOUS
  <2>2. rest[i] \in 0..Ttl /\ rest[i] <= idle[m]
    BY <1>10
  <2>3. \A x, y \in 0..Ttl : (x <= y /\ y < Ttl) => x < Ttl
    BY <2>1
  <2> QED BY <2>1, <2>2, <2>3
<1> QED BY <1>3, <1>4, <1>7, <1>8, <1>10, <1>11, <1>12 DEF Sorted

\* A new entry is the youngest.
LEMMA AppendSorted ==
    ASSUME PoolInv, OldestFirst
    PROVE  Sorted(Append(idle, 0), Len(Append(idle, 0)))
<1>1. PICK n \in Nat : n = Len(idle)
  BY PoolNumbers
<1>2. idle \in [1..n -> 0..Ttl] /\ idle \in Seq(0..Ttl) /\ 0 \in 0..Ttl
  BY <1>1, LenProperties, PoolNumbers DEF PoolInv
<1>3. PICK t : t = Append(idle, 0)
  OBVIOUS
<1>4. /\ Len(t) = n + 1
      /\ \A i \in 1..n : t[i] = idle[i]
      /\ t[n + 1] = 0
  BY <1>1, <1>2, <1>3, AppendProperties
<1>5. \A i, j \in 1..n : i < j => idle[i] >= idle[j]
  BY <1>1 DEF OldestFirst
<1>6. \A i \in 1..n + 1 : t[i] \in 0..Ttl
  BY <1>2, <1>4
<1>7. \A i, j \in 1..n + 1 : i < j => t[i] >= t[j]
  <2> SUFFICES ASSUME NEW i \in 1..n + 1, NEW j \in 1..n + 1, i < j
               PROVE  t[i] >= t[j]
    OBVIOUS
  <2>1. i \in 1..n /\ t[i] = idle[i]
    BY <1>4
  <2>2. CASE j = n + 1
    BY <1>2, <1>4, <2>1, <2>2, PoolNumbers
  <2>3. CASE j # n + 1
    BY <1>4, <1>5, <2>1, <2>3
  <2> QED BY <2>2, <2>3
<1> QED BY <1>3, <1>4, <1>6, <1>7 DEF Sorted

\* Entries age together.
LEMMA TickSorted ==
    ASSUME PoolInv, OldestFirst, PoolTick
    PROVE  Sorted(idle', Len(idle'))
<1>1. PICK n \in Nat : n = Len(idle)
  BY PoolNumbers
<1>2. idle \in [1..n -> 0..Ttl]
  BY <1>1, LenProperties DEF PoolInv
<1>3. PICK t : t = idle'
  OBVIOUS
<1>4. t = [i \in 1..n |-> IF idle[i] < Ttl THEN idle[i] + 1 ELSE Ttl]
  BY <1>1, <1>3 DEF PoolTick
<1>5. Len(t) = n /\ \A i \in 1..n : t[i] = IF idle[i] < Ttl THEN idle[i] + 1 ELSE Ttl
  BY <1>4, SMT
<1>6. \A i, j \in 1..n : i < j => idle[i] >= idle[j]
  BY <1>1 DEF OldestFirst
<1>7. \A i \in 1..n : t[i] \in 0..Ttl
  <2>1. Ttl \in Nat
    BY PoolNumbers
  <2> QED BY <1>2, <1>5, <2>1
<1>8. \A i, j \in 1..n : i < j => t[i] >= t[j]
  <2> SUFFICES ASSUME NEW i \in 1..n, NEW j \in 1..n, i < j
               PROVE  t[i] >= t[j]
    OBVIOUS
  <2>1. idle[i] \in 0..Ttl /\ idle[j] \in 0..Ttl /\ idle[i] >= idle[j]
    BY <1>2, <1>6
  <2>2. /\ t[i] = IF idle[i] < Ttl THEN idle[i] + 1 ELSE Ttl
        /\ t[j] = IF idle[j] < Ttl THEN idle[j] + 1 ELSE Ttl
    BY <1>5
  <2> QED BY <2>1, <2>2, PoolNumbers, SMTT(30)
<1> QED BY <1>3, <1>5, <1>7, <1>8 DEF Sorted

LEMMA InitSorted == PoolInit => SortedInv
<1> SUFFICES ASSUME PoolInit PROVE SortedInv
  OBVIOUS
<1>1. PoolInv /\ Ttl \in 0..Ttl
  BY InitPool, PoolAssumption
<1>2. TypeOK
  BY <1>1 DEF PoolInit, TypeOK, PoolInv
<1>3. OldestFirst
  BY DEF PoolInit, OldestFirst
<1> QED BY <1>2, <1>3 DEF SortedInv

\* The callers' half of TypeOK.
LEMMA CallerTypes ==
    ASSUME PoolInv, SortedInv, [PoolNext]_poolVars
    PROVE  /\ caller' \in [Callers -> {"away", "opening", "served"}]
           /\ got' \in [Callers -> 0..Ttl]
<1>1. /\ caller \in [Callers -> {"away", "opening", "served"}]
      /\ got \in [Callers -> 0..Ttl]
      /\ OldestFirst
      /\ 0 \in 0..Ttl /\ Ttl \in 0..Ttl
  BY PoolNumbers DEF SortedInv, TypeOK
<1>2. ASSUME NEW c \in Callers, AcquirePooled(c)
      PROVE  /\ caller' \in [Callers -> {"away", "opening", "served"}]
             /\ got' \in [Callers -> 0..Ttl]
  <2>1. StaleFront < Len(idle)
    BY <1>2 DEF AcquirePooled
  <2>2. idle[StaleFront + 1] \in 0..Ttl - 1 /\ Ttl \in Nat
    BY <1>1, <2>1, PopFresh, PoolNumbers
  <2>3. idle[StaleFront + 1] \in 0..Ttl
    BY <2>2
  <2> QED BY <1>1, <1>2, <2>3 DEF AcquirePooled
<1>3. ASSUME NEW c \in Callers,
             AcquireMiss(c) \/ AcquireOpened(c) \/ AcquireFailed(c) \/ Leave(c)
      PROVE  /\ caller' \in [Callers -> {"away", "opening", "served"}]
             /\ got' \in [Callers -> 0..Ttl]
  BY <1>1, <1>3 DEF AcquireMiss, AcquireOpened, AcquireFailed, Leave
<1>4. CASE UNCHANGED <<caller, got>>
  BY <1>1, <1>4
<1> QED BY <1>2, <1>3, <1>4
        DEF PoolNext, Acquire, Refill, RefillCheck, RefillOpened, RefillFailed, Filler,
            FillerCheck, FillerOpened, FillerFailed, FillerWake, PoolTick, poolVars

LEMMA SortedStep ==
    ASSUME PoolInv, SortedInv, [PoolNext]_poolVars
    PROVE  SortedInv'
<1>1. PoolInv'
  BY PoolStep
<1>2. TypeOK'
  BY <1>1, CallerTypes DEF PoolInv, TypeOK
<1>3. OldestFirst
  BY DEF SortedInv
<1>4. ASSUME NEW c \in Callers, AcquirePooled(c)
      PROVE  OldestFirst'
  <2>1. Sorted(idle', Len(idle'))
    BY <1>3, <1>4, PopFresh DEF AcquirePooled
  <2> QED BY <2>1 DEF Sorted, OldestFirst
<1>5. ASSUME NEW c \in Callers, AcquireMiss(c)
      PROVE  OldestFirst'
  BY <1>5 DEF AcquireMiss, OldestFirst
<1>6. ASSUME idle' = Append(idle, 0)
      PROVE  OldestFirst'
  <2>1. Sorted(idle', Len(idle'))
    BY <1>3, <1>6, AppendSorted
  <2> QED BY <2>1 DEF Sorted, OldestFirst
<1>7. ASSUME PoolTick
      PROVE  OldestFirst'
  <2>1. Sorted(idle', Len(idle'))
    BY <1>3, <1>7, TickSorted
  <2> QED BY <2>1 DEF Sorted, OldestFirst
<1>8. ASSUME UNCHANGED idle
      PROVE  OldestFirst'
  BY <1>3, <1>8 DEF OldestFirst
<1>9. OldestFirst'
  BY <1>4, <1>5, <1>6, <1>7, <1>8
     DEF PoolNext, Acquire, AcquireOpened, AcquireFailed, Leave, Refill, RefillCheck,
         RefillOpened, RefillFailed, Filler, FillerCheck, FillerOpened, FillerFailed,
         FillerWake, poolVars
<1> QED BY <1>2, <1>9 DEF SortedInv

\* Only AcquirePooled takes a caller from away to served in one step.
LEMMA ServedStep ==
    ASSUME PoolInv, SortedInv, [PoolNext]_poolVars, NEW c \in Callers,
           caller[c] = "away", caller'[c] = "served"
    PROVE  /\ got'[c] < Ttl
           /\ \A i \in 1..Len(idle') : idle'[i] < Ttl
<1>1. caller \in [Callers -> {"away", "opening", "served"}] /\ got \in [Callers -> 0..Ttl]
  BY DEF SortedInv, TypeOK
<1>2. AcquirePooled(c)
  BY <1>1
     DEF PoolNext, Acquire, AcquirePooled, AcquireMiss, AcquireOpened, AcquireFailed, Leave,
         Refill, RefillCheck, RefillOpened, RefillFailed, Filler, FillerCheck,
         FillerOpened, FillerFailed, FillerWake, PoolTick, poolVars
<1>3. /\ StaleFront < Len(idle)
      /\ idle' = SubSeq(idle, StaleFront + 2, Len(idle))
      /\ got'[c] = idle[StaleFront + 1]
  BY <1>1, <1>2 DEF AcquirePooled
<1>4. /\ idle[StaleFront + 1] \in 0..Ttl - 1
      /\ \A i \in 1..Len(idle') : idle'[i] < Ttl
  BY <1>3, PopFresh DEF SortedInv
<1>5. Ttl \in Nat
  BY PoolNumbers
<1>6. got'[c] < Ttl
  BY <1>3, <1>4, <1>5
<1> QED BY <1>4, <1>6

-----------------------------------------------------------------------------
(* However many refills pass the length check of pool.rs:98 before the     *)
(* first of them pushes, the pool never holds more than POOL_SIZE and one  *)
(* entry for each refill task.                                             *)
THEOREM OvershootIsBounded == PoolSpec => []OvershootBounded
<1>1. PoolInv => OvershootBounded
  BY DEF PoolInv
<1> QED BY <1>1, InitPool, PoolStep, PTL DEF PoolSpec

(* Entries stay in the order they were opened, whichever of the tasks      *)
(* pushed them: pop_fresh (pool.rs:73-88) may stop at the first fresh one. *)
THEOREM OldestComesFirst == PoolSpec => []OldestFirst
<1>1. SortedInv => OldestFirst
  BY DEF SortedInv
<1> QED BY <1>1, InitPool, PoolStep, InitSorted, SortedStep, PTL DEF PoolSpec

(* No caller is handed a connection at or past its time to live, and what  *)
(* stays in the pool then is fresh too.                                    *)
THEOREM PooledIsFresh == PoolSpec => ServedFresh
<1>1. PoolInv /\ SortedInv /\ [PoolNext]_poolVars =>
        [\A c \in Callers :
            (caller[c] = "away" /\ caller'[c] = "served") =>
                /\ got'[c] < Ttl
                /\ \A i \in 1..Len(idle') : idle'[i] < Ttl]_poolVars
  BY ServedStep
<1> QED BY <1>1, InitPool, PoolStep, InitSorted, SortedStep, PTL DEF PoolSpec, ServedFresh
=============================================================================

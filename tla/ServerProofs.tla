---------------------------- MODULE ServerProofs ----------------------------
(***************************************************************************)
(* For any number of connections, addresses and UUIDs, sessions_active     *)
(* counts exactly the sessions between the second increment of             *)
(* inc_session_start and the exchange of inc_session_end. Then, for any    *)
(* window, limit and duration: the probe tracker implements ProbePolicy,   *)
(* and a quarantine is told of no probe that was not under way before it.  *)
(***************************************************************************)
EXTENDS Server, SequenceLemmas

\* The points at which a connection is counted.
Counted == {"open", "serving", "splicing", "ended", "loaded"}

Slot == [at : Points, ip : Ips \cup {Free.ip}, cfg : SUBSET Uuids,
         probe : BOOLEAN, cur : Nat]

CountInv ==
    /\ live \in SUBSET Uuids
    /\ conn \in [Conns -> Slot]
    /\ active \in Nat
    /\ ActiveIsExact

LEMMA StartedIsFinite ==
    /\ IsFiniteSet(Started)
    /\ Cardinality(Started) \in Nat
<1>1. IsFiniteSet(Conns) /\ Started \in SUBSET Conns
  BY ServerAssumption DEF Started
<1> QED BY <1>1, FS_Subset, FS_CardinalityType

LEMMA FreeSlot == Free \in Slot /\ Free.at = "free"
BY DEF Free, Slot, Points

LEMMA InitCount == Init => CountInv
<1> SUFFICES ASSUME Init PROVE CountInv
  OBVIOUS
<1>1. conn = [c \in Conns |-> Free] /\ active = 0 /\ live \in SUBSET Uuids
  BY DEF Init
<1>2. conn \in [Conns -> Slot]
  BY <1>1, FreeSlot
<1>3. Started = {}
  BY <1>1, FreeSlot DEF Started
<1>4. Cardinality(Started) = 0
  BY <1>3, FS_EmptySet
<1> QED BY <1>1, <1>2, <1>4 DEF CountInv, ActiveIsExact

\* Connection c moves to another point, or its slot gets another connection.
Moves(c) ==
    /\ live' = live
    /\ conn' \in [Conns -> Slot]
    /\ \A d \in Conns : d # c => conn'[d] = conn[d]

\* How the set of counted connections changes when one of them moves.
LEMMA StartedMoves ==
    ASSUME CountInv, NEW c \in Conns, Moves(c)
    PROVE  /\ c \in Started' <=> conn'[c].at \in Counted
           /\ c \in Started <=> conn[c].at \in Counted
           /\ Started' \ {c} = Started \ {c}
BY DEF CountInv, Moves, Started, Counted

\* A move that crosses neither end of the count.
LEMMA MoveKeepsCount ==
    ASSUME CountInv, NEW c \in Conns, Moves(c), active' = active,
           conn[c].at \in Counted <=> conn'[c].at \in Counted
    PROVE  CountInv'
<1>1. Started' = Started
  BY StartedMoves
<1> QED BY <1>1 DEF CountInv, Moves, ActiveIsExact

\* The second increment of inc_session_start.
LEMMA MoveIn ==
    ASSUME CountInv, NEW c \in Conns, Moves(c), active' = active + 1,
           conn[c].at \notin Counted, conn'[c].at \in Counted
    PROVE  CountInv'
<1>1. Started' = Started \cup {c} /\ c \notin Started
  BY StartedMoves
<1>2. Cardinality(Started') = Cardinality(Started) + 1
  BY <1>1, StartedIsFinite, FS_AddElement
<1> QED BY <1>2 DEF CountInv, Moves, ActiveIsExact

\* The exchange of inc_session_end.
LEMMA MoveOut ==
    ASSUME CountInv, NEW c \in Conns, Moves(c), active' = active - 1,
           conn[c].at \in Counted, conn'[c].at \notin Counted
    PROVE  CountInv'
<1>1. Started' = Started \ {c} /\ c \in Started
  BY StartedMoves
<1>2. Cardinality(Started') = Cardinality(Started) - 1
  BY <1>1, StartedIsFinite, FS_RemoveElement
<1>3. Cardinality(Started') \in Nat
  <2>1. IsFiniteSet(Started')
    BY <1>1, StartedIsFinite, FS_RemoveElement
  <2> QED BY <2>1, FS_CardinalityType
<1> QED BY <1>2, <1>3 DEF CountInv, Moves, ActiveIsExact

\* A counted connection sees a gauge that is not zero: the saturation of
\* inc_session_end never takes effect.
LEMMA NeverSaturates ==
    ASSUME CountInv, NEW c \in Conns, conn[c].at \in Counted
    PROVE  active # 0
<1>1. c \in Started
  BY DEF Started, Counted
<1>2. Cardinality(Started) # 0
  BY <1>1, StartedIsFinite, FS_EmptySet
<1> QED BY <1>2 DEF CountInv, ActiveIsExact

\* One field of one slot is assigned.
LEMMA GotoMoves ==
    ASSUME CountInv, NEW c \in Conns, NEW p \in Points, Goto(c, p), live' = live
    PROVE  Moves(c) /\ conn'[c].at = p
<1>1. conn[c] \in Slot /\ conn \in [Conns -> Slot]
  BY DEF CountInv
<1>2. conn' = [conn EXCEPT ![c] = [conn[c] EXCEPT !.at = p]]
  BY DEF Goto
<1>3. [conn[c] EXCEPT !.at = p] \in Slot /\ [conn[c] EXCEPT !.at = p].at = p
  BY <1>1 DEF Slot
<1> QED BY <1>1, <1>2, <1>3 DEF Moves

\* A slot gets another record.
LEMMA SlotMoves ==
    ASSUME CountInv, NEW c \in Conns, NEW s \in Slot, conn' = [conn EXCEPT ![c] = s], live' = live
    PROVE  Moves(c) /\ conn'[c] = s
BY DEF CountInv, Moves

LEMMA AcceptStep ==
    ASSUME CountInv, NEW c \in Conns, NEW ip \in Ips, Accept(c, ip)
    PROVE  CountInv'
<1> DEFINE s == [Free EXCEPT !.ip = ip, !.cfg = live,
                             !.at = IF StillTarpitted(ip) THEN "held" ELSE "spawned"]
<1>1. /\ conn[c].at = "free" /\ active' = active /\ live' = live
      /\ conn' = [conn EXCEPT ![c] = s]
  BY DEF Accept, At
<1>2. s \in Slot /\ s.at \in {"held", "spawned"}
  BY FreeSlot DEF CountInv, Slot, Points
<1> HIDE DEF s
<1>3. Moves(c) /\ conn'[c] = s
  BY <1>1, <1>2, SlotMoves
<1> QED BY <1>1, <1>2, <1>3, MoveKeepsCount DEF Counted

\* The steps that assign conn[c].at only, or conn[c].at and the gauge.
LEMMA GotoStep ==
    ASSUME CountInv, NEW c \in Conns,
           CountTotal(c) \/ CountActive(c) \/ Served(c) \/ SpliceEnds(c)
    PROVE  CountInv'
<1>1. CASE CountTotal(c)
  <2>1. At(c, "spawned") /\ Goto(c, "counted") /\ active' = active /\ live' = live
    BY <1>1 DEF CountTotal
  <2>2. Moves(c) /\ conn'[c].at = "counted"
    BY <2>1, GotoMoves DEF Points
  <2> QED BY <2>1, <2>2, MoveKeepsCount DEF Counted, At
<1>2. CASE CountActive(c)
  <2>1. At(c, "counted") /\ Goto(c, "open") /\ active' = active + 1 /\ live' = live
    BY <1>2 DEF CountActive
  <2>2. Moves(c) /\ conn'[c].at = "open"
    BY <2>1, GotoMoves DEF Points
  <2> QED BY <2>1, <2>2, MoveIn DEF Counted, At
<1>3. CASE Served(c) \/ SpliceEnds(c)
  <2>1. /\ At(c, "serving") \/ At(c, "splicing")
        /\ Goto(c, "ended") /\ active' = active /\ live' = live
    BY <1>3 DEF Served, SpliceEnds, counters
  <2>2. Moves(c) /\ conn'[c].at = "ended"
    BY <2>1, GotoMoves DEF Points
  <2> QED BY <2>1, <2>2, MoveKeepsCount DEF Counted, At
<1> QED BY <1>1, <1>2, <1>3

\* The outcomes of the handshake: the slot forgets the configuration.
LEMMA OutcomeStep ==
    ASSUME CountInv, NEW c \in Conns,
           \/ HandshakeFails(c)
           \/ \E u \in Uuids : ArkClient(c, u)
           \/ RealPeerDropped(c)
           \/ RealPeerSpliced(c)
    PROVE  CountInv'
<1>1. PICK s \in Slot : /\ conn' = [conn EXCEPT ![c] = s]
                         /\ s.at \in {"ended", "serving", "splicing"}
  <2>1. conn \in [Conns -> Slot] /\ conn[c] \in Slot
    BY DEF CountInv
  <2>2. CASE \/ conn' = [conn EXCEPT ![c].at = "ended", ![c].probe = TRUE, ![c].cfg = {}]
             \/ conn' = [conn EXCEPT ![c].probe = TRUE, ![c].cfg = {}, ![c].at = "ended"]
    <3>1. PICK s : s = [conn[c] EXCEPT !.at = "ended", !.probe = TRUE, !.cfg = {}]
      OBVIOUS
    <3>2. s \in Slot /\ s.at = "ended"
      BY <2>1, <3>1 DEF Slot, Points
    <3>3. s = [conn[c] EXCEPT !.probe = TRUE, !.cfg = {}, !.at = "ended"]
      BY <2>1, <3>1 DEF Slot
    <3>4. conn' = [conn EXCEPT ![c] = s]
      BY <2>1, <2>2, <3>1, <3>3
    <3> QED BY <3>2, <3>4
  <2>3. ASSUME NEW p \in {"ended", "serving", "splicing"},
               \/ conn' = [conn EXCEPT ![c].at = p, ![c].cfg = {}]
               \/ conn' = [conn EXCEPT ![c].cfg = {}, ![c].at = p]
        PROVE  \E s \in Slot : /\ conn' = [conn EXCEPT ![c] = s]
                               /\ s.at \in {"ended", "serving", "splicing"}
    <3>1. PICK s : s = [conn[c] EXCEPT !.at = p, !.cfg = {}]
      OBVIOUS
    <3>2. s \in Slot /\ s.at = p
      BY <2>1, <3>1 DEF Slot, Points
    <3>3. s = [conn[c] EXCEPT !.cfg = {}, !.at = p]
      BY <2>1, <3>1 DEF Slot
    <3>4. conn' = [conn EXCEPT ![c] = s]
      BY <2>1, <2>3, <3>1, <3>3
    <3> QED BY <3>2, <3>4
  <2> QED BY <2>2, <2>3
          DEF HandshakeFails, ArkClient, RealPeerDropped, RealPeerSpliced
<1>2. At(c, "open") /\ active' = active /\ live' = live
  BY DEF HandshakeFails, ArkClient, RealPeerDropped, RealPeerSpliced, counters
<1>3. Moves(c) /\ conn'[c].at \in {"ended", "serving", "splicing"}
  BY <1>1, <1>2, SlotMoves
<1> QED BY <1>2, <1>3, MoveKeepsCount DEF Counted, At

\* inc_session_end: the gauge loaded is not 0, so the connection stays counted
\* until its exchange succeeds.
LEMMA EndStep ==
    ASSUME CountInv, NEW c \in Conns, LoadActive(c) \/ SwapActive(c)
    PROVE  CountInv'
<1>1. conn[c] \in Slot /\ conn \in [Conns -> Slot] /\ active \in Nat
  BY DEF CountInv
<1>2. conn[c].at \in Counted /\ live' = live
  BY DEF LoadActive, SwapActive, At, Counted
<1>3. active # 0
  BY <1>2, NeverSaturates
<1>4. CASE /\ conn' = [conn EXCEPT ![c].cur = active,
                                   ![c].at = IF active = 0 THEN "uncounted" ELSE "loaded"]
           /\ active' = active
  <2>1. PICK s : s = [conn[c] EXCEPT !.cur = active, !.at = "loaded"]
    OBVIOUS
  <2>2. s \in Slot /\ s.at = "loaded"
    BY <1>1, <2>1 DEF Slot, Points
  <2>3. conn' = [conn EXCEPT ![c] = s]
    BY <1>1, <1>3, <1>4, <2>1
  <2>4. Moves(c) /\ conn'[c].at = "loaded"
    BY <1>2, <2>2, <2>3, SlotMoves
  <2> QED BY <1>2, <1>4, <2>4, MoveKeepsCount DEF Counted
<1>5. CASE /\ conn' = [conn EXCEPT ![c].cur = 0, ![c].at = "uncounted"]
           /\ active' = active - 1
  <2>1. PICK s : s = [conn[c] EXCEPT !.cur = 0, !.at = "uncounted"]
    OBVIOUS
  <2>2. s \in Slot /\ s.at = "uncounted"
    BY <1>1, <2>1 DEF Slot, Points
  <2>3. conn' = [conn EXCEPT ![c] = s]
    BY <1>1, <1>5, <2>1
  <2>4. Moves(c) /\ conn'[c].at = "uncounted"
    BY <1>2, <2>2, <2>3, SlotMoves
  <2>5. conn'[c].at \notin Counted
    BY <2>4 DEF Counted
  <2> QED BY <1>2, <1>5, <2>4, <2>5, MoveOut
<1> QED BY <1>3, <1>4, <1>5 DEF LoadActive, SwapActive, counters

\* After the end of a session, the gauge is nobody's business.
LEMMA AfterStep ==
    ASSUME CountInv, NEW c \in Conns, Judge(c) \/ Punish(c) \/ HoldEnds(c)
    PROVE  CountInv'
<1>1. conn[c].at \in {"uncounted", "record", "held"} /\ active' = active /\ live' = live
  BY DEF Judge, Punish, HoldEnds, At, counters
<1>2. CASE conn' = [conn EXCEPT ![c] = Free]
  <2>1. Moves(c) /\ conn'[c].at = "free"
    BY <1>1, <1>2, FreeSlot, SlotMoves
  <2> QED BY <1>1, <2>1, MoveKeepsCount DEF Counted
<1>3. ASSUME NEW p \in {"record", "held"}, Goto(c, p)
      PROVE  CountInv'
  <2>1. Moves(c) /\ conn'[c].at = p
    BY <1>1, <1>3, GotoMoves DEF Points
  <2> QED BY <1>1, <2>1, MoveKeepsCount DEF Counted
<1> QED BY <1>2, <1>3 DEF Judge, Punish, HoldEnds, Goto

LEMMA OtherStep ==
    ASSUME CountInv, GcTask \/ Reload \/ Tick \/ UNCHANGED vars
    PROVE  CountInv'
<1>1. conn' = conn /\ active' = active /\ live' \in SUBSET Uuids
  BY DEF CountInv, GcTask, Reload, Tick, vars, counters
<1>2. Started' = Started
  BY <1>1 DEF Started
<1> QED BY <1>1, <1>2 DEF CountInv, ActiveIsExact

LEMMA CountStep ==
    ASSUME CountInv, [Next]_vars
    PROVE  CountInv'
<1>1. ASSUME NEW c \in Conns, NEW ip \in Ips, Accept(c, ip)
      PROVE  CountInv'
  BY <1>1, AcceptStep
<1>2. ASSUME NEW c \in Conns, Handle(c)
      PROVE  CountInv'
  BY <1>2, GotoStep, OutcomeStep DEF Handle
<1>3. ASSUME NEW c \in Conns, Finish(c)
      PROVE  CountInv'
  BY <1>3, GotoStep, EndStep, AfterStep DEF Finish
<1> QED BY <1>1, <1>2, <1>3, OtherStep DEF Next

(* sessions_active is exact, whatever tasks are stopped between the load   *)
(* and the compare_exchange of metrics.rs:56-67, and however many they are.*)
THEOREM GaugeIsExact == Spec => []ActiveIsExact
<1>1. CountInv => ActiveIsExact
  BY DEF CountInv
<1> QED BY <1>1, InitCount, CountStep, PTL DEF Spec

-----------------------------------------------------------------------------
(* Ages of failures                                                        *)

\* The policy's Kept is the tracker's.
LEMMA PolicyKept == \A s, I : Policy!Kept(s, I) = Kept(s, I)
<1>1. \A S : Policy!Cardinality(S) = Cardinality(S)
  BY Zenon DEF Policy!Cardinality, Cardinality
<1>2. \A I, k : Policy!NthOf(I, k) = NthOf(I, k)
  BY <1>1, Zenon DEF Policy!NthOf, NthOf
<1> QED BY <1>1, <1>2, Zenon DEF Policy!Kept, Kept

LEMMA RetainedTypes ==
    ASSUME NEW f \in Seq(Nat)
    PROVE  /\ Retained(f) \in Seq(Nat) /\ Len(Retained(f)) <= Len(f)
           /\ \A k \in 1..Len(Retained(f)) : Retained(f)[k] < FailWindow
<1>1. PICK I : I = {i \in 1..Len(f) : f[i] < FailWindow} /\ Retained(f) = Kept(f, I)
  BY DEF Retained, InWindow
<1>2. I \in SUBSET (1..Len(f)) /\ \A i \in I : f[i] < FailWindow
  BY <1>1
<1>3. /\ Kept(f, I) \in Seq(Nat) /\ Len(Kept(f, I)) = Cardinality(I)
      /\ Cardinality(I) <= Len(f)
      /\ \A k \in 1..Cardinality(I) : Kept(f, I)[k] = f[NthOf(I, k)]
  BY <1>2, KeptElements
<1>4. \A k \in 1..Cardinality(I) : NthOf(I, k) \in I
  <2>1. Len(f) \in Nat
    BY LenProperties
  <2> QED BY <1>2, <2>1, NthPlaces
<1> QED BY <1>1, <1>2, <1>3, <1>4

LEMMA AllRetained ==
    ASSUME NEW r \in Seq(Nat), \A i \in 1..Len(r) : r[i] < FailWindow
    PROVE  Retained(r) = r
<1>1. {i \in 1..Len(r) : InWindow(r[i])} = 1..Len(r)
  BY DEF InWindow
<1>2. Retained(r) = Kept(r, 1..Len(r))
  BY <1>1 DEF Retained
<1> QED BY <1>2, KeptAll

LEMMA RetainedTwice ==
    ASSUME NEW f \in Seq(Nat)
    PROVE  Retained(Retained(f)) = Retained(f)
BY RetainedTypes, AllRetained

LEMMA RetainedEmpty == Retained(<<>>) = <<>>
<1>1. PICK r : r = <<>>
  OBVIOUS
<1>2. r \in Seq(Nat) /\ Len(r) = 0
  BY <1>1
<1>3. \A i \in 1..Len(r) : r[i] < FailWindow
  BY <1>2
<1>4. Retained(r) = r
  BY <1>2, <1>3, AllRetained
<1> QED BY <1>1, <1>4

\* A failure that happens now is in the window.
LEMMA RetainedAppend ==
    ASSUME NEW f \in Seq(Nat)
    PROVE  Retained(Append(Retained(f), 0)) = Append(Retained(f), 0)
<1>1. PICK r : r = Retained(f)
  OBVIOUS
<1>2. r \in Seq(Nat) /\ \A k \in 1..Len(r) : r[k] < FailWindow
  BY <1>1, RetainedTypes
<1>3. PICK u : u = Append(r, 0)
  OBVIOUS
<1>4. u \in Seq(Nat) /\ Len(u) = Len(r) + 1 /\ u[Len(r) + 1] = 0 /\ \A k \in 1..Len(r) : u[k] = r[k]
  BY <1>2, <1>3, AppendProperties
<1>5. Len(r) \in Nat
  BY <1>2, LenProperties
<1>6. \A k \in 1..Len(u) : u[k] < FailWindow
  <2> TAKE k \in 1..Len(u)
  <2>1. k = Len(r) + 1 \/ k \in 1..Len(r)
    BY <1>4, <1>5
  <2> QED BY <1>2, <1>4, <2>1, TrackerAssumption, SMTT(30)
<1>7. Retained(u) = u
  BY <1>4, <1>6, AllRetained
<1> QED BY <1>1, <1>3, <1>7

\* What a tick makes of the ages.
AgedFails(f) == [i \in 1..Len(f) |-> IF InWindow(f[i]) THEN f[i] + 1 ELSE FailWindow]

\* What the tracker drops late, by its ages counted up to FailWindow, is what
\* the policy drops at once.
LEMMA RetainedOlder ==
    ASSUME NEW f \in Seq(Nat)
    PROVE  /\ AgedFails(f) \in Seq(Nat) /\ Len(AgedFails(f)) = Len(f)
           /\ Retained(AgedFails(f)) = Policy!Older(Retained(f))
<1>1. PICK n, a : n \in Nat /\ n = Len(f) /\ a = AgedFails(f)
  BY LenProperties
<1>2. FailWindow \in Nat /\ \A i \in 1..n : f[i] \in Nat
  BY <1>1, ElementOfSeq, TrackerAssumption
<1>3. \A i \in 1..n : a[i] = (IF f[i] < FailWindow THEN f[i] + 1 ELSE FailWindow) /\ a[i] \in Nat
  BY <1>1, <1>2 DEF AgedFails, InWindow
<1>4. a \in Seq(Nat) /\ Len(a) = n
  <2>1. a = [i \in 1..n |-> a[i]]
    BY <1>1 DEF AgedFails
  <2>2. a \in [1..n -> Nat]
    BY <1>3, <2>1
  <2> QED BY <1>1, <2>2, IsASeq, LenProperties
<1>5. PICK I, c, r : /\ I = {i \in 1..n : f[i] < FailWindow} /\ c = Cardinality(I)
                     /\ r = Kept(f, I)
  OBVIOUS
<1>6. I \in SUBSET (1..n) /\ r = Retained(f)
  BY <1>1, <1>5 DEF Retained, InWindow
<1>7. /\ r \in Seq(Nat) /\ Len(r) = c /\ c \in Nat
      /\ \A j \in 1..c : r[j] = f[NthOf(I, j)]
  <2>1. I \in SUBSET (1..Len(f))
    BY <1>1, <1>6
  <2>2. /\ Kept(f, I) \in Seq(Nat) /\ Len(Kept(f, I)) = Cardinality(I) /\ Cardinality(I) \in Nat
        /\ \A k \in 1..Cardinality(I) : Kept(f, I)[k] = f[NthOf(I, k)]
    BY <2>1, KeptElements
  <2> QED BY <1>5, <2>2
<1>8. /\ \A j \in 1..c : NthOf(I, j) \in I
      /\ \A i \in I : \E j \in 1..c : NthOf(I, j) = i
  <2>1. n \in Nat
    BY <1>1
  <2>2. /\ \A k \in 1..Cardinality(I) : NthOf(I, k) \in I
        /\ \A i \in I : \E k \in 1..Cardinality(I) : NthOf(I, k) = i
    BY <1>6, <2>1, NthPlaces
  <2> QED BY <1>5, <2>2
<1>9. PICK s : s = [j \in 1..c |-> r[j] + 1]
  OBVIOUS
<1>10. PICK J : J = {j \in 1..c : r[j] + 1 < FailWindow}
  OBVIOUS
<1>11. Policy!Older(r) = Kept(s, J)
  <2>1. Policy!Older(r) = Policy!Kept(s, J)
    BY <1>7, <1>9, <1>10 DEF Policy!Older, Policy!InWindow
  <2> QED BY <2>1, PolicyKept
<1>12. s = Kept(a, I)
  <2>1. \A j \in 1..c : r[j] + 1 = a[NthOf(I, j)]
    BY <1>3, <1>5, <1>7, <1>8
  <2> QED BY <1>5, <1>9, <2>1 DEF Kept
<1>13. PICK K : K = {NthOf(I, j) : j \in J}
  OBVIOUS
<1>14. Kept(s, J) = Kept(a, K)
  <2>1. J \in SUBSET (1..Cardinality(I)) /\ I \in SUBSET (1..Len(a))
    BY <1>4, <1>5, <1>6, <1>10
  <2> QED BY <1>4, <1>12, <1>13, <2>1, KeptTwice, SMTT(30)
<1>15. K = {i \in 1..n : a[i] < FailWindow}
  <2>1. ASSUME NEW j \in J
        PROVE  NthOf(I, j) \in 1..n /\ a[NthOf(I, j)] < FailWindow
    <3>1. PICK i \in I : i = NthOf(I, j) /\ r[j] = f[i] /\ r[j] + 1 < FailWindow
      BY <1>7, <1>8, <1>10
    <3>2. i \in 1..n /\ f[i] < FailWindow
      BY <1>5, <3>1
    <3> QED BY <1>3, <3>1, <3>2
  <2>2. ASSUME NEW i \in 1..n, a[i] < FailWindow
        PROVE  \E j \in J : NthOf(I, j) = i
    <3>1. f[i] < FailWindow /\ a[i] = f[i] + 1
      BY <1>2, <1>3, <2>2
    <3>2. PICK j \in 1..c : NthOf(I, j) = i
      BY <1>5, <1>8, <3>1
    <3>3. r[j] = f[i]
      BY <1>7, <3>2
    <3> QED BY <1>10, <2>2, <3>1, <3>2, <3>3
  <2> QED BY <1>13, <2>1, <2>2
<1>16. Retained(a) = Kept(a, K)
  BY <1>4, <1>15 DEF Retained, InWindow
<1>17. Retained(a) = Policy!Older(r)
  BY <1>11, <1>14, <1>16
<1> QED BY <1>1, <1>4, <1>6, <1>17

-----------------------------------------------------------------------------
(* The tracker implements the policy                                       *)

Recs == [fails : Seq(Nat), armed : BOOLEAN, left : Nat]

\* t is a map the tracker may have.
Table(t) ==
    /\ DOMAIN t \subseteq Ips /\ t \in [DOMAIN t -> Recs]
    /\ \A ip \in DOMAIN t : Len(t[ip].fails) < MaxFails

\* What the policy has of an address for which the tracker has t.
RecentOf(t, ip) == IF ip \in DOMAIN t THEN Retained(t[ip].fails) ELSE <<>>
LeftOf(t, ip) == IF ip \in DOMAIN t /\ Tarpitted(t[ip]) THEN t[ip].left ELSE 0

LEMMA Views ==
    /\ Recent = [ip \in Ips |-> RecentOf(inner, ip)]
    /\ Quarantine = [ip \in Ips |-> LeftOf(inner, ip)]
    /\ Recent' = [ip \in Ips |-> RecentOf(inner', ip)]
    /\ Quarantine' = [ip \in Ips |-> LeftOf(inner', ip)]
BY DEF Recent, Quarantine, RecentOf, LeftOf, StillTarpitted, Known

LEMMA SameViews ==
    ASSUME \A ip \in Ips : RecentOf(inner', ip) = RecentOf(inner, ip)
                           /\ LeftOf(inner', ip) = LeftOf(inner, ip)
    PROVE  UNCHANGED Policy!policyVars
<1>1. Recent' = Recent /\ Quarantine' = Quarantine
  BY Views
<1> QED BY <1>1 DEF Policy!policyVars

\* One address gets another record.
LEMMA PutTable ==
    ASSUME Table(inner), NEW ip \in Ips, NEW rec \in Recs, Len(rec.fails) < MaxFails,
           inner' = Put(ip, rec)
    PROVE  /\ Table(inner') /\ ip \in DOMAIN inner' /\ inner'[ip] = rec
           /\ \A j \in Ips \ {ip} :
                 RecentOf(inner', j) = RecentOf(inner, j) /\ LeftOf(inner', j) = LeftOf(inner, j)
<1>1. DOMAIN inner' = DOMAIN inner \cup {ip}
  BY DEF Put, Known
<1>2. inner'[ip] = rec /\ \A j \in DOMAIN inner : j # ip => inner'[j] = inner[j]
  BY DEF Put, Known
<1>3. \A j \in DOMAIN inner' : inner'[j] \in Recs /\ Len(inner'[j].fails) < MaxFails
  BY <1>1, <1>2 DEF Table
<1>4. inner' = [j \in DOMAIN inner' |-> inner'[j]]
  BY <1>1 DEF Put, Known
<1>5. Table(inner')
  <2>1. DOMAIN inner' \subseteq Ips
    BY <1>1 DEF Table
  <2>2. inner' \in [DOMAIN inner' -> Recs]
    BY <1>3, <1>4
  <2> QED BY <1>3, <2>1, <2>2 DEF Table
<1> QED BY <1>1, <1>2, <1>5 DEF RecentOf, LeftOf

\* The record of an address that is not in the map.
LEMMA NewRecordIs ==
    /\ NewRecord \in Recs /\ NewRecord.fails = <<>> /\ Len(NewRecord.fails) < MaxFails
    /\ ~Tarpitted(NewRecord)
<1>1. NewRecord = [fails |-> <<>>, armed |-> FALSE, left |-> 0]
  BY DEF NewRecord, Record
<1>2. <<>> \in Seq(Nat) /\ Len(<<>>) = 0 /\ MaxFails > 1
  BY TrackerAssumption
<1> QED BY <1>1, <1>2, TrackerAssumption DEF Recs, Tarpitted

LEMMA RecTypes ==
    ASSUME NEW t, Table(t), NEW ip \in DOMAIN t
    PROVE  /\ t[ip] \in Recs /\ t[ip].fails \in Seq(Nat) /\ t[ip].armed \in BOOLEAN /\ t[ip].left \in Nat
           /\ Len(t[ip].fails) < MaxFails
BY DEF Table, Recs

\* A query that clears an expired tarpit changes nothing the policy knows of.
LEMMA QueryStep ==
    ASSUME Table(inner), NEW ip \in Ips, IsTarpitted(ip)
    PROVE  Table(inner') /\ UNCHANGED Policy!policyVars
<1>1. CASE ip \in Known /\ inner[ip].armed /\ inner[ip].left = 0
  <2>1. PICK f, rec : f = inner[ip].fails /\ rec = Record(Retained(f), FALSE, 0)
    OBVIOUS
  <2>2. inner' = Put(ip, rec)
    BY <1>1, <2>1 DEF IsTarpitted
  <2>3. f \in Seq(Nat) /\ Len(f) < MaxFails
    BY <1>1, <2>1, RecTypes DEF Known
  <2>4. Retained(f) \in Seq(Nat) /\ Len(Retained(f)) <= Len(f)
    BY <2>3, RetainedTypes
  <2>5. rec \in Recs /\ rec.fails = Retained(f) /\ ~Tarpitted(rec)
    BY <2>1, <2>4 DEF Record, Recs, Tarpitted
  <2>6. Len(rec.fails) < MaxFails
    <3>1. Len(f) \in Nat /\ Len(Retained(f)) \in Nat /\ MaxFails \in Nat
      BY <2>3, <2>4, LenProperties, TrackerAssumption
    <3> QED BY <2>3, <2>4, <2>5, <3>1
  <2>7. /\ Table(inner') /\ ip \in DOMAIN inner' /\ inner'[ip] = rec
        /\ \A j \in Ips \ {ip} :
              RecentOf(inner', j) = RecentOf(inner, j) /\ LeftOf(inner', j) = LeftOf(inner, j)
    BY <2>2, <2>5, <2>6, PutTable
  <2>8. RecentOf(inner', ip) = RecentOf(inner, ip)
    BY <1>1, <2>1, <2>3, <2>5, <2>7, RetainedTwice DEF RecentOf, Known
  <2>9. LeftOf(inner', ip) = LeftOf(inner, ip)
    <3>1. ~Tarpitted(inner[ip])
      BY <1>1 DEF Tarpitted
    <3> QED BY <2>5, <2>7, <3>1 DEF LeftOf
  <2>10. \A j \in Ips : RecentOf(inner', j) = RecentOf(inner, j) /\ LeftOf(inner', j) = LeftOf(inner, j)
    BY <2>7, <2>8, <2>9
  <2> QED BY <2>7, <2>10, SameViews
<1>2. CASE ~(ip \in Known /\ inner[ip].armed /\ inner[ip].left = 0)
  <2>1. inner' = inner
    BY <1>2 DEF IsTarpitted
  <2> QED BY <2>1, SameViews
<1> QED BY <1>1, <1>2

\* A failure is counted, trips the tarpit, or is not counted in the tarpit.
LEMMA FailureStep ==
    ASSUME Table(inner), NEW ip \in Ips, RecordFailure(ip)
    PROVE  Table(inner') /\ [Policy!PolicyNext]_Policy!policyVars
<1>1. PICK rec : rec = IF ip \in Known THEN inner[ip] ELSE NewRecord
  OBVIOUS
<1>2. PICK r, fails : r = Retained(rec.fails) /\ fails = Append(r, 0)
  OBVIOUS
<1>3. inner' = Put(ip,
        IF Tarpitted(rec) THEN rec
        ELSE IF Len(fails) >= MaxFails THEN Record(<<>>, TRUE, TarpitDuration)
        ELSE Record(fails, rec.armed, rec.left))
  BY <1>1, <1>2 DEF RecordFailure
<1>4. <<>> \in Seq(Nat) /\ Len(<<>>) = 0 /\ MaxFails \in Nat /\ MaxFails > 1 /\ TarpitDuration \in Nat \ {0}
  BY TrackerAssumption
<1>5. /\ rec \in Recs /\ rec.fails \in Seq(Nat) /\ rec.armed \in BOOLEAN /\ rec.left \in Nat
      /\ Len(rec.fails) < MaxFails
  <2>1. CASE ip \in Known
    BY <1>1, <2>1, RecTypes DEF Known
  <2>2. CASE ip \notin Known
    BY <1>1, <2>2, NewRecordIs DEF Recs
  <2> QED BY <2>1, <2>2
<1>6. RecentOf(inner, ip) = r
  BY <1>1, <1>2, NewRecordIs, RetainedEmpty DEF RecentOf, Known
<1>7. LeftOf(inner, ip) = IF Tarpitted(rec) THEN rec.left ELSE 0
  BY <1>1, NewRecordIs DEF LeftOf, Known
<1>8. r \in Seq(Nat) /\ Len(r) \in Nat /\ Len(r) < MaxFails
  <2>1. r \in Seq(Nat) /\ Len(r) <= Len(rec.fails)
    BY <1>2, <1>5, RetainedTypes
  <2>2. Len(r) \in Nat /\ Len(rec.fails) \in Nat
    BY <1>5, <2>1, LenProperties
  <2> QED BY <1>4, <1>5, <2>1, <2>2
<1>9. fails \in Seq(Nat) /\ Len(fails) = Len(r) + 1
  BY <1>2, <1>8, AppendProperties
<1>10. CASE Tarpitted(rec)
  <2>1. inner' = Put(ip, rec)
    BY <1>3, <1>10
  <2>2. /\ Table(inner') /\ ip \in DOMAIN inner' /\ inner'[ip] = rec
        /\ \A j \in Ips \ {ip} :
              RecentOf(inner', j) = RecentOf(inner, j) /\ LeftOf(inner', j) = LeftOf(inner, j)
    BY <1>5, <2>1, PutTable
  <2>3. RecentOf(inner', ip) = r /\ LeftOf(inner', ip) = rec.left
    BY <1>2, <1>10, <2>2 DEF RecentOf, LeftOf
  <2>4. \A j \in Ips : RecentOf(inner', j) = RecentOf(inner, j) /\ LeftOf(inner', j) = LeftOf(inner, j)
    BY <1>6, <1>7, <1>10, <2>2, <2>3
  <2> QED BY <2>2, <2>4, SameViews
<1>11. CASE ~Tarpitted(rec) /\ Len(fails) >= MaxFails
  <2>1. PICK new : new = Record(<<>>, TRUE, TarpitDuration)
    OBVIOUS
  <2>2. new \in Recs /\ new.fails = <<>> /\ Tarpitted(new) /\ new.left = TarpitDuration
    BY <1>4, <2>1 DEF Record, Recs, Tarpitted
  <2>3. inner' = Put(ip, new) /\ Len(new.fails) < MaxFails
    <3>1. inner' = Put(ip, new)
      BY <1>3, <1>11, <2>1
    <3>2. Len(new.fails) = 0
      BY <1>4, <2>2
    <3> QED BY <1>4, <3>1, <3>2
  <2>4. /\ Table(inner') /\ ip \in DOMAIN inner' /\ inner'[ip] = new
        /\ \A j \in Ips \ {ip} :
              RecentOf(inner', j) = RecentOf(inner, j) /\ LeftOf(inner', j) = LeftOf(inner, j)
    BY <2>2, <2>3, PutTable
  <2>5. RecentOf(inner', ip) = <<>> /\ LeftOf(inner', ip) = TarpitDuration
    BY <2>2, <2>4, RetainedEmpty DEF RecentOf, LeftOf
  <2>6. Recent' = [Recent EXCEPT ![ip] = <<>>] /\ Quarantine' = [Quarantine EXCEPT ![ip] = TarpitDuration]
    BY <2>4, <2>5, Views
  <2>7. Quarantine[ip] = 0 /\ Recent[ip] = r
    BY <1>6, <1>7, <1>11, Views
  <2>8. Len(r) + 1 = MaxFails
    BY <1>4, <1>8, <1>9, <1>11
  <2>9. Policy!Trip(ip)
    BY <2>6, <2>7, <2>8 DEF Policy!Trip
  <2> QED BY <2>4, <2>9 DEF Policy!PolicyNext
<1>12. CASE ~Tarpitted(rec) /\ ~(Len(fails) >= MaxFails)
  <2>1. PICK new : new = Record(fails, rec.armed, rec.left)
    OBVIOUS
  <2>2. new \in Recs /\ new.fails = fails /\ ~Tarpitted(new)
    BY <1>5, <1>9, <1>12, <2>1 DEF Record, Recs, Tarpitted
  <2>3. inner' = Put(ip, new) /\ Len(new.fails) < MaxFails
    <3>1. Len(fails) \in Nat
      BY <1>8, <1>9
    <3>2. inner' = Put(ip, new)
      BY <1>3, <1>12, <2>1
    <3> QED BY <1>4, <1>12, <2>2, <3>1, <3>2
  <2>4. /\ Table(inner') /\ ip \in DOMAIN inner' /\ inner'[ip] = new
        /\ \A j \in Ips \ {ip} :
              RecentOf(inner', j) = RecentOf(inner, j) /\ LeftOf(inner', j) = LeftOf(inner, j)
    BY <2>2, <2>3, PutTable
  <2>5. RecentOf(inner', ip) = fails
    <3>1. Retained(fails) = fails
      BY <1>2, <1>5, RetainedAppend
    <3> QED BY <2>2, <2>4, <3>1 DEF RecentOf
  <2>6. LeftOf(inner', ip) = 0 /\ LeftOf(inner, ip) = 0
    BY <1>7, <1>12, <2>2, <2>4 DEF LeftOf
  <2>7. Recent' = [Recent EXCEPT ![ip] = fails] /\ Quarantine' = Quarantine
    BY <2>4, <2>5, <2>6, Views
  <2>8. Quarantine[ip] = 0 /\ Recent[ip] = r
    BY <1>6, <2>6, Views
  <2>9. Len(r) + 1 < MaxFails
    BY <1>4, <1>8, <1>9, <1>12
  <2>10. Policy!Count(ip)
    BY <1>2, <2>7, <2>8, <2>9 DEF Policy!Count
  <2> QED BY <2>4, <2>10 DEF Policy!PolicyNext
<1> QED BY <1>10, <1>11, <1>12

\* A sweep takes away only what the policy has forgotten.
LEMMA SweepStep ==
    ASSUME Table(inner), Gc
    PROVE  Table(inner') /\ UNCHANGED Policy!policyVars
<1>1. PICK kept : kept = {ip \in DOMAIN inner : Tarpitted(inner[ip]) \/ Retained(inner[ip].fails) # <<>>}
  OBVIOUS
<1>2. inner' = [ip \in kept |->
            IF Tarpitted(inner[ip]) THEN inner[ip]
            ELSE Record(Retained(inner[ip].fails), FALSE, 0)]
  BY <1>1 DEF Gc, Known
<1>3. /\ DOMAIN inner' = kept /\ kept \subseteq DOMAIN inner /\ kept \subseteq Ips
      /\ inner' = [ip \in kept |-> inner'[ip]]
  BY <1>1, <1>2 DEF Table
<1>4. ASSUME NEW ip \in kept
      PROVE  /\ inner'[ip] \in Recs /\ Len(inner'[ip].fails) < MaxFails
             /\ RecentOf(inner', ip) = RecentOf(inner, ip) /\ LeftOf(inner', ip) = LeftOf(inner, ip)
  <2>1. /\ inner[ip] \in Recs /\ inner[ip].fails \in Seq(Nat) /\ Len(inner[ip].fails) < MaxFails
        /\ ip \in DOMAIN inner
    BY <1>3, RecTypes
  <2>2. CASE Tarpitted(inner[ip])
    <3>1. inner'[ip] = inner[ip]
      BY <1>2, <2>2
    <3> QED BY <1>3, <2>1, <3>1 DEF RecentOf, LeftOf
  <2>3. CASE ~Tarpitted(inner[ip])
    <3>1. PICK f, rec : f = inner[ip].fails /\ rec = Record(Retained(f), FALSE, 0)
      OBVIOUS
    <3>2. inner'[ip] = rec
      BY <1>2, <2>3, <3>1
    <3>3. Retained(f) \in Seq(Nat) /\ Len(Retained(f)) <= Len(f) /\ Retained(Retained(f)) = Retained(f)
      BY <2>1, <3>1, RetainedTypes, RetainedTwice
    <3>4. rec \in Recs /\ rec.fails = Retained(f) /\ ~Tarpitted(rec)
      BY <3>1, <3>3 DEF Record, Recs, Tarpitted
    <3>5. Len(rec.fails) < MaxFails
      <4>1. Len(f) \in Nat /\ Len(Retained(f)) \in Nat /\ MaxFails \in Nat
        BY <2>1, <3>1, <3>3, LenProperties, TrackerAssumption
      <4>2. Len(f) < MaxFails /\ Len(rec.fails) = Len(Retained(f))
        BY <2>1, <3>1, <3>4
      <4> QED BY <3>3, <4>1, <4>2
    <3>6. RecentOf(inner', ip) = RecentOf(inner, ip)
      BY <1>3, <2>1, <3>1, <3>2, <3>3, <3>4 DEF RecentOf
    <3>7. LeftOf(inner', ip) = LeftOf(inner, ip)
      BY <1>3, <2>3, <3>2, <3>4 DEF LeftOf
    <3> QED BY <3>2, <3>4, <3>5, <3>6, <3>7
  <2> QED BY <2>2, <2>3
<1>5. Table(inner')
  <2>1. inner' \in [DOMAIN inner' -> Recs]
    BY <1>3, <1>4
  <2> QED BY <1>3, <1>4, <2>1 DEF Table
<1>6. ASSUME NEW ip \in Ips, ip \notin kept
      PROVE  RecentOf(inner', ip) = RecentOf(inner, ip) /\ LeftOf(inner', ip) = LeftOf(inner, ip)
  BY <1>1, <1>3, <1>6 DEF RecentOf, LeftOf
<1>7. UNCHANGED Policy!policyVars
  BY <1>4, <1>6, SameViews
<1> QED BY <1>5, <1>7

\* Time passes for both.
LEMMA PassStep ==
    ASSUME Table(inner), TrackerTick
    PROVE  Table(inner') /\ Policy!Pass
<1>1. inner' = [ip \in DOMAIN inner |->
        Record(AgedFails(inner[ip].fails), inner[ip].armed,
               IF inner[ip].left > 0 THEN inner[ip].left - 1 ELSE 0)]
  BY DEF TrackerTick, Known, AgedFails
<1>2. DOMAIN inner' = DOMAIN inner /\ DOMAIN inner \subseteq Ips
      /\ inner' = [ip \in DOMAIN inner' |-> inner'[ip]]
  BY <1>1 DEF Table
<1>3. ASSUME NEW ip \in DOMAIN inner
      PROVE  /\ inner'[ip] \in Recs /\ Len(inner'[ip].fails) < MaxFails
             /\ RecentOf(inner', ip) = Policy!Older(RecentOf(inner, ip))
             /\ LeftOf(inner', ip) = IF LeftOf(inner, ip) > 0 THEN LeftOf(inner, ip) - 1 ELSE 0
  <2>1. PICK f, l, rec, new :
           /\ rec = inner[ip] /\ new = inner'[ip] /\ f = rec.fails
           /\ l = IF rec.left > 0 THEN rec.left - 1 ELSE 0
    OBVIOUS
  <2>2. /\ rec \in Recs /\ f \in Seq(Nat) /\ rec.armed \in BOOLEAN /\ rec.left \in Nat
        /\ Len(f) < MaxFails
    BY <2>1, RecTypes
  <2>3. /\ AgedFails(f) \in Seq(Nat) /\ Len(AgedFails(f)) = Len(f)
        /\ Retained(AgedFails(f)) = Policy!Older(Retained(f))
    BY <2>2, RetainedOlder
  <2>4. new = Record(AgedFails(f), rec.armed, l)
    BY <1>1, <2>1
  <2>5. l \in Nat
    BY <2>1, <2>2
  <2>6. new \in Recs /\ new.fails = AgedFails(f) /\ new.left = l /\ (new.armed <=> rec.armed)
    BY <2>2, <2>3, <2>4, <2>5 DEF Record, Recs
  <2>7. RecentOf(inner', ip) = Retained(AgedFails(f)) /\ RecentOf(inner, ip) = Retained(f)
    BY <1>2, <2>1, <2>6 DEF RecentOf
  <2>8. LeftOf(inner', ip) = (IF new.armed /\ l > 0 THEN l ELSE 0)
    BY <1>2, <2>1, <2>6 DEF LeftOf, Tarpitted
  <2>9. LeftOf(inner, ip) = (IF rec.armed /\ rec.left > 0 THEN rec.left ELSE 0)
    BY <2>1 DEF LeftOf, Tarpitted
  <2>10. LeftOf(inner', ip) = (IF LeftOf(inner, ip) > 0 THEN LeftOf(inner, ip) - 1 ELSE 0)
    <3>1. CASE rec.armed
      BY <2>1, <2>2, <2>6, <2>8, <2>9, <3>1
    <3>2. CASE ~rec.armed
      BY <2>6, <2>8, <2>9, <3>2
    <3> QED BY <3>1, <3>2
  <2> QED BY <2>1, <2>2, <2>3, <2>6, <2>7, <2>10
<1>4. Table(inner')
  <2>1. inner' \in [DOMAIN inner' -> Recs]
    BY <1>2, <1>3
  <2> QED BY <1>2, <1>3, <2>1 DEF Table
<1>5. ASSUME NEW ip \in Ips
      PROVE  /\ RecentOf(inner', ip) = Policy!Older(Recent[ip])
             /\ LeftOf(inner', ip) = IF Quarantine[ip] > 0 THEN Quarantine[ip] - 1 ELSE 0
  <2>1. Recent[ip] = RecentOf(inner, ip) /\ Quarantine[ip] = LeftOf(inner, ip)
    BY Views
  <2>2. CASE ip \in DOMAIN inner
    BY <1>3, <2>1, <2>2
  <2>3. CASE ip \notin DOMAIN inner
    <3>1. RecentOf(inner', ip) = <<>> /\ RecentOf(inner, ip) = <<>>
      BY <1>2, <2>3 DEF RecentOf
    <3>2. Policy!Older(<<>>) = <<>>
      <4>1. PICK r : r = <<>>
        OBVIOUS
      <4>2. r \in Seq(Nat) /\ Len(r) = 0
        BY <4>1
      <4>3. /\ Retained(AgedFails(r)) = Policy!Older(Retained(r))
            /\ AgedFails(r) \in Seq(Nat) /\ Len(AgedFails(r)) = 0
        BY <4>2, RetainedOlder
      <4>4. AgedFails(r) = <<>>
        BY <4>3, EmptySeq
      <4> QED BY <4>1, <4>3, <4>4, RetainedEmpty
    <3>3. LeftOf(inner', ip) = 0 /\ LeftOf(inner, ip) = 0
      BY <1>2, <2>3 DEF LeftOf
    <3> QED BY <2>1, <3>1, <3>2, <3>3
  <2> QED BY <2>2, <2>3
<1>6. /\ Recent' = [ip \in Ips |-> Policy!Older(Recent[ip])]
      /\ Quarantine' = [ip \in Ips |-> IF Quarantine[ip] > 0 THEN Quarantine[ip] - 1 ELSE 0]
  BY <1>5, Views
<1> QED BY <1>4, <1>6 DEF Policy!Pass

\* No other task of the server writes the map.
LEMMA TrackerStep ==
    ASSUME CountInv, Table(inner), [Next]_vars
    PROVE  Table(inner') /\ [Policy!PolicyNext]_Policy!policyVars
<1>1. ASSUME inner' = inner
      PROVE  Table(inner') /\ UNCHANGED Policy!policyVars
  BY <1>1, SameViews
<1>2. ASSUME NEW c \in Conns, NEW ip \in Ips, Accept(c, ip)
      PROVE  Table(inner') /\ UNCHANGED Policy!policyVars
  BY <1>2, QueryStep DEF Accept
<1>3. ASSUME NEW c \in Conns, Handle(c)
      PROVE  inner' = inner
  BY <1>3 DEF Handle, HandshakeFails, ArkClient, Served, RealPeerDropped, RealPeerSpliced, SpliceEnds
<1>4. ASSUME NEW c \in Conns,
             CountTotal(c) \/ CountActive(c) \/ LoadActive(c) \/ SwapActive(c) \/ Judge(c) \/ HoldEnds(c)
      PROVE  inner' = inner
  BY <1>4 DEF CountTotal, CountActive, LoadActive, SwapActive, Judge, HoldEnds
<1>5. ASSUME NEW c \in Conns, Punish(c)
      PROVE  Table(inner') /\ [Policy!PolicyNext]_Policy!policyVars
  <2>1. PICK ip \in Ips : ip = conn[c].ip
    <3>1. conn[c] \in Slot /\ Free.ip \in Ips
      BY ServerAssumption DEF CountInv, Free
    <3>2. conn[c].ip \in Ips
      BY <3>1 DEF Slot
    <3> QED BY <3>2
  <2>2. RecordFailure(ip)
    BY <1>5, <2>1 DEF Punish
  <2> QED BY <2>2, FailureStep
<1>6. CASE GcTask
  BY <1>6, SweepStep DEF GcTask
<1>7. CASE Tick
  BY <1>7, PassStep DEF Tick, Policy!PolicyNext
<1>8. CASE Reload
  BY <1>1, <1>8 DEF Reload
<1>9. CASE UNCHANGED vars
  BY <1>1, <1>9 DEF vars
<1> QED BY <1>1, <1>2, <1>3, <1>4, <1>5, <1>6, <1>7, <1>8, <1>9 DEF Next, Finish

LEMMA InitTracker == Init => Table(inner) /\ Policy!PolicyInit
<1> SUFFICES ASSUME Init PROVE Table(inner) /\ Policy!PolicyInit
  OBVIOUS
<1>1. inner = <<>>
  BY DEF Init, TrackerInit
<1>2. DOMAIN inner = {} /\ inner \in [{} -> Recs]
  BY <1>1
<1>3. Table(inner)
  BY <1>2 DEF Table
<1>4. \A ip \in Ips : RecentOf(inner, ip) = <<>> /\ LeftOf(inner, ip) = 0
  BY <1>2 DEF RecentOf, LeftOf
<1>5. Recent = [ip \in Ips |-> <<>>] /\ Quarantine = [ip \in Ips |-> 0]
  BY <1>4, Views
<1> QED BY <1>3, <1>5 DEF Policy!PolicyInit

(* The tracker of probe_defense.rs implements the policy of its module     *)
(* comment, for any window, limit and duration: expired records that lie   *)
(* in the map until they are asked for, and a gc that sweeps at any time,  *)
(* never change whose failures count and who is in the tarpit.             *)
THEOREM TrackerImplementsPolicy == Spec => ImplementsProbePolicy
<1>1. Init => Table(inner) /\ Policy!PolicyInit
  BY InitTracker
<1>2. CountInv /\ Table(inner) /\ [Next]_vars => Table(inner)' /\ [Policy!PolicyNext]_Policy!policyVars
  BY TrackerStep
<1> QED BY <1>1, <1>2, InitCount, CountStep, PTL DEF Spec, ImplementsProbePolicy, Policy!PolicySpec

-----------------------------------------------------------------------------
(* What a quarantine meets                                                 *)

LateInv ==
    /\ late \in [Ips -> [told : Nat, open : Nat]]
    /\ LateProbesAreBounded

LEMMA UndecidedIsFinite ==
    ASSUME NEW ip
    PROVE  IsFiniteSet(Undecided(ip)) /\ Cardinality(Undecided(ip)) \in Nat
<1>1. IsFiniteSet(Conns) /\ Undecided(ip) \in SUBSET Conns
  BY ServerAssumption DEF Undecided
<1> QED BY <1>1, FS_Subset, FS_CardinalityType

LEMMA InitLate == Init => LateInv
<1> SUFFICES ASSUME Init PROVE LateInv
  OBVIOUS
<1>1. late = [ip \in Ips |-> Late(0, 0)] /\ Late(0, 0) \in [told : Nat, open : Nat]
  BY DEF Init, Late
<1>2. \A ip \in Ips : Quarantine[ip] = 0
  BY InitTracker DEF Policy!PolicyInit
<1> QED BY <1>1, <1>2 DEF LateInv, LateProbesAreBounded

\* A step that tells the tracker nothing, begins no quarantine, and begins a
\* handshake with no address that is in one.
LEMMA QuietKeepsLate ==
    ASSUME LateInv, late' = late,
           \A ip \in Ips : Quarantine'[ip] > 0 =>
               Quarantine[ip] > 0 /\ Undecided(ip)' \subseteq Undecided(ip)
    PROVE  LateInv'
<1>1. ASSUME NEW ip \in Ips, Quarantine'[ip] > 0
      PROVE  late'[ip].told + Cardinality(Undecided(ip)') <= late'[ip].open
  <2>1. Quarantine[ip] > 0 /\ Undecided(ip)' \subseteq Undecided(ip)
    BY <1>1
  <2>2. Cardinality(Undecided(ip)') <= Cardinality(Undecided(ip)) /\ Cardinality(Undecided(ip)') \in Nat
    BY <2>1, UndecidedIsFinite, FS_Subset, FS_CardinalityType
  <2>3. late[ip].told + Cardinality(Undecided(ip)) <= late[ip].open
    BY <2>1 DEF LateInv, LateProbesAreBounded
  <2>4. late[ip].told \in Nat /\ late[ip].open \in Nat /\ Cardinality(Undecided(ip)) \in Nat
    BY UndecidedIsFinite DEF LateInv
  <2>5. late'[ip] = late[ip]
    OBVIOUS
  <2> QED BY <2>2, <2>3, <2>4, <2>5
<1> QED BY <1>1 DEF LateInv, LateProbesAreBounded

\* A connection moves on: its address remains, or it frees its slot.
LEMMA SlotUndecided ==
    ASSUME CountInv, NEW c \in Conns, NEW s, conn' = [conn EXCEPT ![c] = s],
           conn[c].at \notin {"free", "held"},
           s.ip = conn[c].ip \/ s.at \in {"free", "held"}
    PROVE  \A ip \in Ips : Undecided(ip)' \subseteq Undecided(ip)
BY DEF CountInv, Undecided

LEMMA HandleLate ==
    ASSUME CountInv, LateInv, NEW c \in Conns,
           Handle(c) \/ CountTotal(c) \/ CountActive(c) \/ LoadActive(c) \/ SwapActive(c)
           \/ Judge(c) \/ HoldEnds(c)
    PROVE  LateInv'
<1>1. inner' = inner /\ late' = late
  BY DEF Handle, HandshakeFails, ArkClient, Served, RealPeerDropped, RealPeerSpliced, SpliceEnds,
         CountTotal, CountActive, LoadActive, SwapActive, Judge, HoldEnds, counters
<1>2. Quarantine' = Quarantine
  BY <1>1, SameViews DEF Policy!policyVars
<1>3. ASSUME NEW s, conn' = [conn EXCEPT ![c] = s], conn[c].at \notin {"free", "held"},
             s.ip = conn[c].ip \/ s.at \in {"free", "held"}
      PROVE  LateInv'
  BY <1>1, <1>2, <1>3, SlotUndecided, QuietKeepsLate
<1>4. conn[c] \in Slot /\ conn \in [Conns -> Slot]
  BY DEF CountInv
<1>5. ASSUME NEW p, Goto(c, p), conn[c].at \notin {"free", "held"}
      PROVE  LateInv'
  <2>1. PICK s : s = [conn[c] EXCEPT !.at = p]
    OBVIOUS
  <2>2. s.ip = conn[c].ip /\ conn' = [conn EXCEPT ![c] = s]
    BY <1>4, <1>5, <2>1 DEF Goto, Slot
  <2> QED BY <1>3, <1>5, <2>2
<1>6. ASSUME HandshakeFails(c) \/ (\E u \in Uuids : ArkClient(c, u))
             \/ RealPeerDropped(c) \/ RealPeerSpliced(c)
      PROVE  LateInv'
  <2>1. conn[c].at = "open"
    BY <1>6 DEF HandshakeFails, ArkClient, RealPeerDropped, RealPeerSpliced, At
  <2>2. PICK s : conn' = [conn EXCEPT ![c] = s] /\ s.ip = conn[c].ip
    <3>1. CASE \/ conn' = [conn EXCEPT ![c].at = "ended", ![c].probe = TRUE, ![c].cfg = {}]
               \/ conn' = [conn EXCEPT ![c].probe = TRUE, ![c].cfg = {}, ![c].at = "ended"]
      <4>1. PICK s : s = [conn[c] EXCEPT !.at = "ended", !.probe = TRUE, !.cfg = {}]
        OBVIOUS
      <4>2. s = [conn[c] EXCEPT !.probe = TRUE, !.cfg = {}, !.at = "ended"] /\ s.ip = conn[c].ip
        BY <1>4, <4>1 DEF Slot
      <4>3. conn' = [conn EXCEPT ![c] = s]
        BY <1>4, <3>1, <4>1, <4>2
      <4> QED BY <4>2, <4>3
    <3>2. ASSUME NEW p, \/ conn' = [conn EXCEPT ![c].at = p, ![c].cfg = {}]
                        \/ conn' = [conn EXCEPT ![c].cfg = {}, ![c].at = p]
          PROVE  \E s : conn' = [conn EXCEPT ![c] = s] /\ s.ip = conn[c].ip
      <4>1. PICK s : s = [conn[c] EXCEPT !.at = p, !.cfg = {}]
        OBVIOUS
      <4>2. s = [conn[c] EXCEPT !.cfg = {}, !.at = p] /\ s.ip = conn[c].ip
        BY <1>4, <4>1 DEF Slot
      <4>3. conn' = [conn EXCEPT ![c] = s]
        BY <1>4, <3>2, <4>1, <4>2
      <4> QED BY <4>2, <4>3
    <3> QED BY <1>6, <3>1, <3>2 DEF HandshakeFails, ArkClient, RealPeerDropped, RealPeerSpliced
  <2> QED BY <1>3, <2>1, <2>2
<1>7. CASE Served(c) \/ SpliceEnds(c) \/ CountTotal(c) \/ CountActive(c)
  BY <1>5, <1>7 DEF Served, SpliceEnds, CountTotal, CountActive, At
<1>8. CASE LoadActive(c) \/ SwapActive(c)
  <2>1. conn[c].at \notin {"free", "held"}
    BY <1>8 DEF LoadActive, SwapActive, At
  <2>2. PICK n, p : conn' = [conn EXCEPT ![c].cur = n, ![c].at = p]
    BY <1>8 DEF LoadActive, SwapActive
  <2>3. PICK s : s = [conn[c] EXCEPT !.cur = n, !.at = p]
    OBVIOUS
  <2>4. s.ip = conn[c].ip
    BY <1>4, <2>3 DEF Slot
  <2>5. conn' = [conn EXCEPT ![c] = s]
    BY <1>4, <2>2, <2>3
  <2> QED BY <1>3, <2>1, <2>4, <2>5
<1>9. CASE Judge(c)
  <2>1. conn[c].at = "uncounted" /\ (Goto(c, "record") \/ conn' = [conn EXCEPT ![c] = Free])
    BY <1>9 DEF Judge, At
  <2> QED BY <1>3, <1>5, <2>1, FreeSlot
<1>10. CASE HoldEnds(c)
  <2>1. conn[c].at = "held" /\ conn' = [conn EXCEPT ![c] = Free]
    BY <1>10 DEF HoldEnds, At
  <2>2. \A ip \in Ips : Undecided(ip)' \subseteq Undecided(ip)
    BY <1>4, <2>1, FreeSlot DEF CountInv, Undecided
  <2> QED BY <1>1, <1>2, <2>2, QuietKeepsLate
<1> QED BY <1>6, <1>7, <1>8, <1>9, <1>10 DEF Handle

\* The accept loop begins a handshake with an address outside its quarantine.
LEMMA AcceptLate ==
    ASSUME CountInv, Table(inner), LateInv, NEW c \in Conns, NEW ip \in Ips, Accept(c, ip)
    PROVE  LateInv'
<1>1. PICK s : s = [Free EXCEPT !.ip = ip, !.cfg = live,
                                !.at = IF StillTarpitted(ip) THEN "held" ELSE "spawned"]
  OBVIOUS
<1>2. s.ip = ip /\ s.at = IF StillTarpitted(ip) THEN "held" ELSE "spawned"
  BY <1>1 DEF Free
<1>3. conn' = [conn EXCEPT ![c] = s] /\ conn \in [Conns -> Slot] /\ conn[c].at = "free" /\ late' = late
  BY <1>1 DEF Accept, At, CountInv
<1>4. Quarantine' = Quarantine
  BY QueryStep DEF Accept, Policy!policyVars
<1>5. Quarantine[ip] > 0 => StillTarpitted(ip)
  BY Views DEF StillTarpitted, LeftOf, Known
<1>6. ASSUME NEW j \in Ips, Quarantine'[j] > 0
      PROVE  Quarantine[j] > 0 /\ Undecided(j)' \subseteq Undecided(j)
  <2>1. conn'[c] = s /\ \A d \in Conns : d # c => conn'[d] = conn[d]
    BY <1>3
  <2>2. j = ip => s.at = "held"
    BY <1>2, <1>4, <1>5, <1>6
  <2> QED BY <1>2, <1>4, <1>6, <2>1, <2>2 DEF Undecided
<1> QED BY <1>3, <1>6, QuietKeepsLate

\* A probe is recorded: in the quarantine one handshake fewer is under way, and
\* outside it those that are left are counted.
LEMMA PunishLate ==
    ASSUME CountInv, Table(inner), LateInv, NEW c \in Conns, Punish(c)
    PROVE  LateInv'
<1>1. PICK ip \in Ips : ip = conn[c].ip
  <2>1. conn[c] \in Slot /\ Free.ip \in Ips
    BY ServerAssumption DEF CountInv, Free
  <2> QED BY <2>1 DEF Slot
<1>2. conn[c] \in Slot /\ conn \in [Conns -> Slot] /\ conn[c].at = "record"
  BY DEF Punish, At, CountInv
<1>3. PICK s : conn' = [conn EXCEPT ![c] = s] /\ s.at \in {"free", "held"}
  <2>1. CASE conn' = [conn EXCEPT ![c] = Free]
    BY <2>1, FreeSlot
  <2>2. CASE Goto(c, "held")
    <3>1. PICK s : s = [conn[c] EXCEPT !.at = "held"]
      OBVIOUS
    <3>2. s.at = "held" /\ conn' = [conn EXCEPT ![c] = s]
      BY <1>2, <2>2, <3>1 DEF Goto, Slot
    <3> QED BY <3>2
  <2> QED BY <2>1, <2>2 DEF Punish, Goto
<1>4. /\ conn'[c].at \in {"free", "held"} /\ \A d \in Conns : d # c => conn'[d] = conn[d]
  BY <1>2, <1>3
<1>5. Undecided(ip)' = Undecided(ip) \ {c} /\ c \in Undecided(ip)
  BY <1>1, <1>2, <1>4 DEF Undecided
<1>6. \A j \in Ips \ {ip} : Undecided(j)' = Undecided(j)
  BY <1>1, <1>2, <1>4 DEF Undecided
<1>7. /\ Cardinality(Undecided(ip)') = Cardinality(Undecided(ip)) - 1
      /\ Cardinality(Undecided(ip)') \in Nat /\ Cardinality(Undecided(ip)) \in Nat
  BY <1>5, UndecidedIsFinite, FS_RemoveElement, FS_CardinalityType
<1>8. late' = [late EXCEPT ![ip] =
            IF StillTarpitted(ip) THEN Late(@.told + 1, @.open)
            ELSE Late(0, Cardinality(Undecided(ip)'))]
  BY <1>1, <1>5 DEF Punish
<1>9. late \in [Ips -> [told : Nat, open : Nat]]
  BY DEF LateInv
<1>10. /\ late'[ip] = IF StillTarpitted(ip) THEN Late(late[ip].told + 1, late[ip].open)
                      ELSE Late(0, Cardinality(Undecided(ip)'))
       /\ \A j \in Ips \ {ip} : late'[j] = late[j]
  BY <1>8, <1>9
<1>11. late'[ip] \in [told : Nat, open : Nat]
  BY <1>7, <1>9, <1>10 DEF Late
<1>12. late' \in [Ips -> [told : Nat, open : Nat]]
  BY <1>8, <1>9, <1>10, <1>11
<1>13. ASSUME NEW j \in Ips \ {ip}, Quarantine'[j] > 0
       PROVE  late'[j].told + Cardinality(Undecided(j)') <= late'[j].open
  <2>1. PICK rec : inner' = Put(ip, rec)
    BY <1>1 DEF Punish, RecordFailure
  <2>2. LeftOf(inner', j) = LeftOf(inner, j)
    BY <2>1 DEF Put, Known, LeftOf
  <2>3. Quarantine[j] > 0
    BY <1>13, <2>2, Views
  <2> QED BY <1>6, <1>10, <2>3 DEF LateInv, LateProbesAreBounded
<1>14. late'[ip].told + Cardinality(Undecided(ip)') <= late'[ip].open
  <2>1. CASE StillTarpitted(ip)
    <3>1. Quarantine[ip] > 0
      <4>1. Quarantine[ip] = inner[ip].left /\ Tarpitted(inner[ip])
        BY <2>1, Views DEF StillTarpitted, LeftOf, Known
      <4> QED BY <4>1 DEF Tarpitted
    <3>2. late[ip].told + Cardinality(Undecided(ip)) <= late[ip].open
      BY <3>1 DEF LateInv, LateProbesAreBounded
    <3>3. late'[ip].told = late[ip].told + 1 /\ late'[ip].open = late[ip].open
      BY <1>10, <2>1 DEF Late
    <3>4. late[ip].told \in Nat /\ late[ip].open \in Nat
      BY <1>9
    <3> QED BY <1>7, <3>2, <3>3, <3>4
  <2>2. CASE ~StillTarpitted(ip)
    <3>1. late'[ip].told = 0 /\ late'[ip].open = Cardinality(Undecided(ip)')
      BY <1>10, <2>2 DEF Late
    <3> QED BY <1>7, <3>1
  <2> QED BY <2>1, <2>2
<1> QED BY <1>12, <1>13, <1>14 DEF LateInv, LateProbesAreBounded

LEMMA OtherLate ==
    ASSUME CountInv, Table(inner), LateInv, GcTask \/ Reload \/ Tick \/ UNCHANGED vars
    PROVE  LateInv'
<1>1. conn' = conn /\ late' = late
  BY DEF GcTask, Reload, Tick, vars, counters
<1>2. \A ip \in Ips : Undecided(ip)' = Undecided(ip)
  BY <1>1 DEF Undecided
<1>3. ASSUME NEW ip \in Ips, Quarantine'[ip] > 0
      PROVE  Quarantine[ip] > 0
  <2>1. CASE GcTask
    BY <1>3, <2>1, SweepStep DEF GcTask, Policy!policyVars
  <2>2. CASE Tick
    <3>1. Quarantine' = [j \in Ips |-> IF Quarantine[j] > 0 THEN Quarantine[j] - 1 ELSE 0]
      BY <2>2, PassStep DEF Tick, Policy!Pass
    <3> QED BY <1>3, <3>1
  <2>3. CASE inner' = inner
    BY <1>3, <2>3, SameViews DEF Policy!policyVars
  <2> QED BY <2>1, <2>2, <2>3 DEF Reload, vars
<1> QED BY <1>1, <1>2, <1>3, QuietKeepsLate

LEMMA LateStep ==
    ASSUME CountInv, Table(inner), LateInv, [Next]_vars
    PROVE  LateInv'
<1>1. ASSUME NEW c \in Conns, NEW ip \in Ips, Accept(c, ip)
      PROVE  LateInv'
  BY <1>1, AcceptLate
<1>2. ASSUME NEW c \in Conns, Handle(c) \/ Finish(c)
      PROVE  LateInv'
  BY <1>2, HandleLate, PunishLate DEF Finish
<1> QED BY <1>1, <1>2, OtherLate DEF Next

(* LateProbesAreBounded, for any number of connections and addresses and   *)
(* whatever the window, the limit and the duration: what a quarantine is   *)
(* told of had been begun before it, however the accept loop, the tasks    *)
(* and gc interleave (run.rs:130-136, :166-170).                           *)
THEOREM LateProbesStayFew == Spec => []LateProbesAreBounded
<1>1. LateInv => LateProbesAreBounded
  BY DEF LateInv
<1>2. CountInv /\ Table(inner) /\ [Next]_vars => Table(inner)'
  BY TrackerStep
<1> QED BY <1>1, <1>2, InitLate, LateStep, InitTracker, InitCount, CountStep, PTL DEF Spec
=============================================================================

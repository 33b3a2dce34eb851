------------------------------ MODULE ConnPool ------------------------------
(***************************************************************************)
(* ark-client/src/pool.rs: the pool of transports that have completed the  *)
(* handshake and not yet sent ARK1, its callers, the refill tasks each     *)
(* acquire spawns, and the background filler.                              *)
(*                                                                         *)
(* A pooled connection is its age in ticks, counted up to Ttl. Opening a   *)
(* transport awaits the network, so every other task may run meanwhile.    *)
(***************************************************************************)
EXTENDS Naturals, Sequences, FiniteSets

CONSTANTS
    PoolSize,    \* POOL_SIZE
    Ttl,         \* ENTRY_TTL_SECS, in ticks
    Callers,     \* tasks that call acquire
    Refills      \* refill tasks an acquire may spawn, bounded by their number

ASSUME PoolAssumption ==
    /\ PoolSize \in Nat \ {0}
    /\ Ttl \in Nat \ {0}
    /\ IsFiniteSet(Refills)

VARIABLES
    idle,        \* idle: ages, front first
    caller,      \* per caller: "away", "opening" a fresh transport, or "served"
    got,         \* per caller: the age of the pooled connection it got, or Ttl
    refill,      \* per refill task: "none", "spawned" or "opening"
    filler       \* background_fill: "check", "opening" or "sleep"

poolVars == <<idle, caller, got, refill, filler>>

\* An XBug is X with a slip a maintainer could make.
FreshBug(age) == age <= Ttl
Fresh(age) == age < Ttl

PoolInit ==
    /\ idle = <<>>
    /\ caller = [c \in Callers |-> "away"]
    /\ got = [c \in Callers |-> Ttl]
    /\ refill = [r \in Refills |-> "none"]
    /\ filler = "check"

\* Entries at the front that pop_fresh discards before the one it returns.
StaleFront == CHOOSE n \in 0..Len(idle) :
    /\ \A i \in 1..n : ~Fresh(idle[i])
    /\ n = Len(idle) \/ Fresh(idle[n + 1])

\* acquire spawns a refill once it has a transport.
Spawn == \E r \in Refills : refill[r] = "none" /\ refill' = [refill EXCEPT ![r] = "spawned"]

\* acquire finds a fresh entry. It holds the lock for the whole of pop_fresh.
AcquirePooled(c) ==
    /\ caller[c] = "away"
    /\ StaleFront < Len(idle)
    /\ idle' = SubSeq(idle, StaleFront + 2, Len(idle))
    /\ got' = [got EXCEPT ![c] = idle[StaleFront + 1]]
    /\ caller' = [caller EXCEPT ![c] = "served"]
    /\ Spawn
    /\ UNCHANGED filler

\* acquire finds none and opens a fresh transport.
AcquireMiss(c) ==
    /\ caller[c] = "away"
    /\ StaleFront = Len(idle)
    /\ idle' = <<>>
    /\ caller' = [caller EXCEPT ![c] = "opening"]
    /\ UNCHANGED <<got, refill, filler>>

AcquireOpened(c) ==
    /\ caller[c] = "opening"
    /\ caller' = [caller EXCEPT ![c] = "served"]
    /\ got' = [got EXCEPT ![c] = 0]
    /\ Spawn
    /\ UNCHANGED <<idle, filler>>

\* The `?` returns before the refill is spawned.
AcquireFailed(c) ==
    /\ caller[c] = "opening"
    /\ caller' = [caller EXCEPT ![c] = "away"]
    /\ UNCHANGED <<idle, got, refill, filler>>

\* The caller's session ends.
Leave(c) ==
    /\ caller[c] = "served"
    /\ caller' = [caller EXCEPT ![c] = "away"]
    /\ got' = [got EXCEPT ![c] = Ttl]
    /\ UNCHANGED <<idle, refill, filler>>

-----------------------------------------------------------------------------
(* maybe_refill: the lock is released between the check and the push.      *)

RefillCheck(r) ==
    /\ refill[r] = "spawned"
    /\ refill' = [refill EXCEPT ![r] = IF Len(idle) >= PoolSize THEN "none" ELSE "opening"]
    /\ UNCHANGED <<idle, caller, got, filler>>

RefillOpened(r) ==
    /\ refill[r] = "opening"
    /\ refill' = [refill EXCEPT ![r] = "none"]
    /\ idle' = Append(idle, 0)
    /\ UNCHANGED <<caller, got, filler>>

RefillFailed(r) ==
    /\ refill[r] = "opening"
    /\ refill' = [refill EXCEPT ![r] = "none"]
    /\ UNCHANGED <<idle, caller, got, filler>>

\* background_fill tops the pool up whatever it holds.
FillerCheckBug ==
    /\ filler = "check"
    /\ filler' = "opening"
    /\ UNCHANGED <<idle, caller, got, refill>>

\* background_fill fills only an empty pool.
FillerCheckEmptyBug ==
    /\ filler = "check"
    /\ filler' = IF idle # <<>> THEN "sleep" ELSE "opening"
    /\ UNCHANGED <<idle, caller, got, refill>>

\* background_fill runs maybe_refill in its own task, then sleeps a second.
FillerCheck ==
    /\ filler = "check"
    /\ filler' = IF Len(idle) >= PoolSize THEN "sleep" ELSE "opening"
    /\ UNCHANGED <<idle, caller, got, refill>>

FillerOpened ==
    /\ filler = "opening"
    /\ filler' = "sleep"
    /\ idle' = Append(idle, 0)
    /\ UNCHANGED <<caller, got, refill>>

FillerFailed ==
    /\ filler = "opening"
    /\ filler' = "sleep"
    /\ UNCHANGED <<idle, caller, got, refill>>

FillerWake ==
    /\ filler = "sleep"
    /\ filler' = "check"
    /\ UNCHANGED <<idle, caller, got, refill>>

\* Time passes.
PoolTick ==
    /\ idle' = [i \in 1..Len(idle) |-> IF idle[i] < Ttl THEN idle[i] + 1 ELSE Ttl]
    /\ idle' # idle
    /\ UNCHANGED <<caller, got, refill, filler>>

Acquire(c) ==
    AcquirePooled(c) \/ AcquireMiss(c) \/ AcquireOpened(c) \/ AcquireFailed(c)

Refill(r) == RefillCheck(r) \/ RefillOpened(r) \/ RefillFailed(r)

Filler == FillerCheck \/ FillerOpened \/ FillerFailed \/ FillerWake

PoolNext ==
    \/ \E c \in Callers : Acquire(c) \/ Leave(c)
    \/ \E r \in Refills : Refill(r)
    \/ Filler
    \/ PoolTick

PoolSpec == PoolInit /\ [][PoolNext]_poolVars

\* The filler's task runs whenever it can, and when it tries again and again
\* the server answers in the end. Entries come from the filler alone once no
\* caller is left.
PoolFairSpec == PoolSpec /\ WF_poolVars(Filler) /\ SF_poolVars(FillerOpened)

-----------------------------------------------------------------------------
(* Properties *)

TypeOK ==
    /\ idle \in Seq(0..Ttl)
    /\ caller \in [Callers -> {"away", "opening", "served"}]
    /\ got \in [Callers -> 0..Ttl]
    /\ refill \in [Refills -> {"none", "spawned", "opening"}]
    /\ filler \in {"check", "opening", "sleep"}

InFlight == {r \in Refills : refill[r] = "opening"}

(* "Capacity: POOL_SIZE idle connections maximum" (pool.rs:10) does not    *)
(* hold: maybe_refill checks and pushes under two locks. What does hold is *)
(* that the pool exceeds its capacity by less than the tasks that may have *)
(* passed the check while others were opening, however acquires, refills   *)
(* and the filler interleave.                                              *)
OvershootBounded ==
    Len(idle) + Cardinality(InFlight) + (IF filler = "opening" THEN 1 ELSE 0)
        <= PoolSize + Cardinality(Refills)

(* Entries are in the order they were opened, so pop_fresh, which stops at *)
(* the first fresh entry, leaves no stale one in the pool.                 *)
OldestFirst == \A i, j \in 1..Len(idle) : i < j => idle[i] >= idle[j]

(* No caller is handed a connection at or past its time to live, and one   *)
(* that is served from the pool leaves only fresh entries behind it.       *)
ServedFresh ==
    [][\A c \in Callers :
        (caller[c] = "away" /\ caller'[c] = "served") =>
            /\ got'[c] < Ttl
            /\ \A i \in 1..Len(idle') : idle'[i] < Ttl]_poolVars

(* The pool is brought back to capacity after it was drained, unless       *)
(* callers keep draining it.                                               *)
RefilledAgain ==
    []<>(Len(idle) >= PoolSize \/ \E c \in Callers : caller[c] # "away")
=============================================================================

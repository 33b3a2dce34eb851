----------------------------- MODULE ProbeTracker ---------------------------
(***************************************************************************)
(* ark-server/src/probe_defense.rs `ProbeTracker`: failures and tarpits    *)
(* per source address. Each operation runs under the tracker's mutex, and  *)
(* reads the clock in the tick in which it takes it.                       *)
(*                                                                         *)
(* An Instant is kept as the ticks that have passed since it (a failure,   *)
(* counted up to FailWindow) or that are left until it (tarpit_until,      *)
(* counted down to 0, which is "expired but not yet cleared").             *)
(***************************************************************************)
EXTENDS Naturals, Sequences, FiniteSets, Selection

CONSTANTS
    Ips,             \* source addresses
    FailWindow,      \* FAIL_WINDOW, in ticks
    MaxFails,        \* MAX_FAILS_PER_WINDOW
    TarpitDuration   \* TARPIT_DURATION, in ticks

ASSUME TrackerAssumption ==
    /\ FailWindow \in Nat \ {0}
    /\ MaxFails \in Nat \ {0, 1}
    /\ TarpitDuration \in Nat \ {0}

VARIABLE inner   \* the map: IpRecord [fails, armed, left] of the addresses in it

\* tarpit_until is None when armed is FALSE.
Record(fails, armed, left) == [fails |-> fails, armed |-> armed, left |-> left]

NewRecord == Record(<<>>, FALSE, 0)

Known == DOMAIN inner

Put(ip, rec) == [i \in Known \cup {ip} |-> IF i = ip THEN rec ELSE inner[i]]

Tarpitted(rec) == rec.armed /\ rec.left > 0

InWindow(age) == age < FailWindow

\* retain: failures that have left the window are dropped.
Retained(fails) == Kept(fails, {i \in 1..Len(fails) : InWindow(fails[i])})

TrackerInit == inner = <<>>

\* is_tarpitted answers TRUE.
StillTarpitted(ip) == ip \in Known /\ Tarpitted(inner[ip])

\* What is_tarpitted leaves in the map: an expired tarpit is cleared.
IsTarpitted(ip) ==
    inner' = IF ip \in Known /\ inner[ip].armed /\ inner[ip].left = 0
             THEN Put(ip, Record(Retained(inner[ip].fails), FALSE, 0))
             ELSE inner

\* record_failure: a tarpit that has expired is left armed until is_tarpitted
\* or gc clears it, or the next one replaces it.
RecordFailure(ip) ==
    LET rec == IF ip \in Known THEN inner[ip] ELSE NewRecord
        fails == Append(Retained(rec.fails), 0)
    IN
    inner' = Put(ip,
        IF Tarpitted(rec) THEN rec
        ELSE IF Len(fails) >= MaxFails THEN Record(<<>>, TRUE, TarpitDuration)
        ELSE Record(fails, rec.armed, rec.left))

\* gc sweeps the records without failures, in the tarpit or not.
GcBug ==
    LET kept == {ip \in Known : Retained(inner[ip].fails) # <<>>}
    IN inner' = [ip \in kept |->
            IF Tarpitted(inner[ip]) THEN inner[ip]
            ELSE Record(Retained(inner[ip].fails), FALSE, 0)]

\* gc
Gc ==
    LET kept == {ip \in Known : Tarpitted(inner[ip]) \/ Retained(inner[ip].fails) # <<>>}
    IN inner' = [ip \in kept |->
            IF Tarpitted(inner[ip]) THEN inner[ip]
            ELSE Record(Retained(inner[ip].fails), FALSE, 0)]

\* Time passes.
TrackerTick ==
    inner' = [ip \in Known |->
        Record([i \in 1..Len(inner[ip].fails) |->
                    IF InWindow(inner[ip].fails[i]) THEN inner[ip].fails[i] + 1 ELSE FailWindow],
               inner[ip].armed,
               IF inner[ip].left > 0 THEN inner[ip].left - 1 ELSE 0)]

-----------------------------------------------------------------------------
(* Properties *)

(* The lazy tracker, swept by gc at any time, implements the policy: what  *)
(* it forgets or keeps too long never changes who is refused.              *)
Recent == [ip \in Ips |-> IF ip \in Known THEN Retained(inner[ip].fails) ELSE <<>>]
Quarantine == [ip \in Ips |-> IF StillTarpitted(ip) THEN inner[ip].left ELSE 0]
Policy == INSTANCE ProbePolicy WITH recent <- Recent, quarantine <- Quarantine
ImplementsProbePolicy == Policy!PolicySpec
=============================================================================

----------------------------- MODULE ProbePolicy ----------------------------
(***************************************************************************)
(* What the probe tracker of ark-server promises: "failures within         *)
(* `FAIL_WINDOW` that trip the per-IP tarpit" are MAX_FAILS_PER_WINDOW     *)
(* (probe_defense.rs:36-37), and a tripped address stays for               *)
(* TARPIT_DURATION (:40-41), with nothing stored lazily: a failure is      *)
(* forgotten the moment it leaves the window, a quarantine ends the moment *)
(* its time is over, and no record is ever swept. (The comment at :13-16   *)
(* has the tarpit begin when an address "exceeds" the limit; the constant, *)
(* the code at :110 and the tests have it begin at the limit.)             *)
(***************************************************************************)
EXTENDS Naturals, Sequences, Selection

CONSTANTS Ips, FailWindow, MaxFails, TarpitDuration

VARIABLES
    recent,      \* per address: ages of its failures in the window, oldest first
    quarantine   \* per address: time left in the tarpit, 0 if it is not in it

policyVars == <<recent, quarantine>>

PolicyInit ==
    /\ recent = [ip \in Ips |-> <<>>]
    /\ quarantine = [ip \in Ips |-> 0]

\* A failure of an address in quarantine is not counted.
Count(ip) ==
    /\ quarantine[ip] = 0
    /\ Len(recent[ip]) + 1 < MaxFails
    /\ recent' = [recent EXCEPT ![ip] = Append(@, 0)]
    /\ UNCHANGED quarantine

Trip(ip) ==
    /\ quarantine[ip] = 0
    /\ Len(recent[ip]) + 1 = MaxFails
    /\ recent' = [recent EXCEPT ![ip] = <<>>]
    /\ quarantine' = [quarantine EXCEPT ![ip] = TarpitDuration]

InWindow(age) == age < FailWindow

Older(ages) == Kept([i \in 1..Len(ages) |-> ages[i] + 1], {i \in 1..Len(ages) : InWindow(ages[i] + 1)})

Pass ==
    /\ recent' = [ip \in Ips |-> Older(recent[ip])]
    /\ quarantine' = [ip \in Ips |-> IF quarantine[ip] > 0 THEN quarantine[ip] - 1 ELSE 0]

PolicyNext == (\E ip \in Ips : Count(ip) \/ Trip(ip)) \/ Pass

PolicySpec == PolicyInit /\ [][PolicyNext]_policyVars
=============================================================================

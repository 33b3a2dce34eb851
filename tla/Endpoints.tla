------------------------------ MODULE Endpoints -----------------------------
(***************************************************************************)
(* ark-client/src/endpoints.rs: the health registry of the configured      *)
(* servers, and connect_with_failover run by several tasks at once (the    *)
(* pool's callers, its refills and its filler).                            *)
(*                                                                         *)
(* A task takes a snapshot of the registry, orders the endpoints by it,    *)
(* and works through them; each attempt takes up to CONNECT_DEADLINE, in   *)
(* which the other tasks change the registry.                              *)
(***************************************************************************)
EXTENDS Naturals, Sequences, FiniteSets, Selection

CONSTANTS
    Uri,         \* the endpoints of the URI, in order: host and port of each
    Threshold,   \* FAILURE_THRESHOLD
    Demotion,    \* DEMOTION_DURATION, in ticks
    Tasks        \* tasks that connect

Idx == 1..Len(Uri)
Hosts == {Uri[i] : i \in Idx}

ASSUME EndpointAssumption ==
    /\ Len(Uri) \in Nat \ {0}
    /\ Threshold \in Nat \ {0}
    /\ Demotion \in Nat \ {0}

VARIABLES
    failures,    \* per host: consecutive_failures
    demoted,     \* per host: ticks until demoted_until, 0 if not demoted
    preferred,   \* preferred_idx, 0 for None
    plan,        \* per task: the endpoints it has yet to try, the first first
    errors,      \* per task: the endpoints it has tried
    result,      \* per task: "idle", "connecting", "connected" or "failed"
    streak       \* per host: failures recorded since the last success, up to
                 \* Threshold

registry == <<failures, demoted, preferred>>
tasks == <<plan, errors, result>>
vars == <<failures, demoted, preferred, plan, errors, result, streak>>

Init ==
    /\ failures = [h \in Hosts |-> 0]
    /\ demoted = [h \in Hosts |-> 0]
    /\ preferred = 0
    /\ plan = [t \in Tasks |-> <<>>]
    /\ errors = [t \in Tasks |-> <<>>]
    /\ result = [t \in Tasks |-> "idle"]
    /\ streak = [h \in Hosts |-> 0]

IsDemoted(i) == demoted[Uri[i]] > 0

\* The endpoints of set S in URI order.
InOrder(S) == Kept([i \in Idx |-> i], S)

\* The preferred endpoint comes first even when it is demoted.
CandidatesStickyBug ==
    LET first == {preferred} \ {0}
    IN InOrder(first)
       \o InOrder({i \in Idx : ~IsDemoted(i)} \ first)
       \o InOrder({i \in Idx : IsDemoted(i)} \ first)

\* ordered_candidates: live, then demoted.
Candidates ==
    LET first == {i \in {preferred} \ {0} : ~IsDemoted(i)}
    IN InOrder(first)
       \o InOrder({i \in Idx : ~IsDemoted(i)} \ first)
       \o InOrder({i \in Idx : IsDemoted(i)})

-----------------------------------------------------------------------------
Start(t) ==
    /\ result[t] # "connecting"
    /\ result' = [result EXCEPT ![t] = "connecting"]
    /\ plan' = [plan EXCEPT ![t] = Candidates]
    /\ errors' = [errors EXCEPT ![t] = <<>>]
    /\ UNCHANGED <<registry, streak>>

\* The demotion of an endpoint that answers again is not lifted.
RecordSuccessBug(i) ==
    /\ failures' = [failures EXCEPT ![Uri[i]] = 0]
    /\ preferred' = i
    /\ streak' = [streak EXCEPT ![Uri[i]] = 0]
    /\ UNCHANGED demoted

\* record_success
RecordSuccess(i) ==
    /\ failures' = [failures EXCEPT ![Uri[i]] = 0]
    /\ demoted' = [demoted EXCEPT ![Uri[i]] = 0]
    /\ preferred' = i
    /\ streak' = [streak EXCEPT ![Uri[i]] = 0]

\* record_failure
RecordFailure(i) ==
    LET h == Uri[i]
        trips == failures[h] + 1 >= Threshold
    IN
    /\ failures' = [failures EXCEPT ![h] = IF trips THEN 0 ELSE @ + 1]
    /\ demoted' = IF trips THEN [demoted EXCEPT ![h] = Demotion] ELSE demoted
    /\ streak' = [streak EXCEPT ![h] = IF @ < Threshold THEN @ + 1 ELSE @]
    /\ UNCHANGED preferred

\* try_endpoint returns the stream.
TrySucceeds(t) ==
    /\ result[t] = "connecting"
    /\ plan[t] # <<>>
    /\ RecordSuccess(Head(plan[t]))
    /\ result' = [result EXCEPT ![t] = "connected"]
    /\ plan' = [plan EXCEPT ![t] = <<>>]
    /\ errors' = [errors EXCEPT ![t] = <<>>]

\* A failed endpoint is put back for a second round.
TryFailsBug(t) ==
    /\ result[t] = "connecting"
    /\ plan[t] # <<>>
    /\ RecordFailure(Head(plan[t]))
    /\ plan' = [plan EXCEPT ![t] = Append(Tail(@), Head(@))]
    /\ UNCHANGED <<errors, result>>

\* try_endpoint fails: name resolution, connect, handshake or the deadline.
TryFails(t) ==
    /\ result[t] = "connecting"
    /\ plan[t] # <<>>
    /\ RecordFailure(Head(plan[t]))
    /\ plan' = [plan EXCEPT ![t] = Tail(@)]
    /\ errors' = [errors EXCEPT ![t] = Append(@, Head(plan[t]))]
    /\ UNCHANGED result

\* "all endpoint(s) failed"
GiveUp(t) ==
    /\ result[t] = "connecting"
    /\ plan[t] = <<>>
    /\ result' = [result EXCEPT ![t] = "failed"]
    /\ errors' = [errors EXCEPT ![t] = <<>>]
    /\ UNCHANGED <<registry, plan, streak>>

Tick ==
    /\ \E h \in Hosts : demoted[h] > 0
    /\ demoted' = [h \in Hosts |-> IF demoted[h] > 0 THEN demoted[h] - 1 ELSE 0]
    /\ UNCHANGED <<failures, preferred, tasks, streak>>

Connect(t) == TrySucceeds(t) \/ TryFails(t) \/ GiveUp(t)

Next == (\E t \in Tasks : Start(t) \/ Connect(t)) \/ Tick

Spec == Init /\ [][Next]_vars

\* CONNECT_DEADLINE ends every attempt (tokio's timer fires), and the system
\* resolver's own timeouts end the lookup before it, which has no deadline.
FairSpec == Spec /\ \A t \in Tasks : WF_vars(Connect(t))

-----------------------------------------------------------------------------
(* Properties *)

(* "on the 3rd consecutive failure, demote" (endpoints.rs:15): whatever    *)
(* the tasks report in whatever order, a host is demoted only while no     *)
(* success has followed Threshold failures in a row.                       *)
DemotedIsFailing == \A h \in Hosts : demoted[h] > 0 => streak[h] = Threshold

(* A connect starts with a demoted endpoint only if all are demoted, and   *)
(* with the endpoint that last succeeded unless that one is demoted.       *)
StartsWell ==
    [][\A t \in Tasks : (plan[t] = <<>> /\ plan'[t] # <<>>) =>
        LET first == plan'[t][1] IN
        /\ IsDemoted(first) => \A i \in Idx : IsDemoted(i)
        /\ (preferred # 0 /\ ~IsDemoted(preferred)) => first = preferred]_vars

(* Every connect ends, with a stream or with the errors of all endpoints.  *)
EveryConnectEnds == \A t \in Tasks : result[t] = "connecting" ~> result[t] # "connecting"
=============================================================================

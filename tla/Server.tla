------------------------------- MODULE Server -------------------------------
(***************************************************************************)
(* ark-server/src/run.rs: the accept loop, one task per connection, the    *)
(* probe tracker they share, the counters of metrics.rs, the gc task and   *)
(* the SIGHUP reload, for the bip324 transport.                            *)
(*                                                                         *)
(* A task of the multi-threaded runtime may be stopped between any two of  *)
(* its atomic operations. conn[c].at is the point it has reached:          *)
(*   "free"     no connection                                              *)
(*   "spawned"  its task is to count it (inc_session_start)                *)
(*   "counted"  sessions_total counts it, sessions_active not yet          *)
(*   "open"     handle_connection awaits the transport handshake           *)
(*   "serving"  a client with a valid UUID is served                       *)
(*   "splicing" a real Bitcoin peer is relayed to bitcoind                 *)
(*   "ended"    handle_connection has returned; inc_session_end is next    *)
(*   "loaded"   inc_session_end has loaded sessions_active                 *)
(*   "uncounted" inc_session_end is done; the probe accounting is next     *)
(*   "record"   probe_like_total counts it; record_failure is next         *)
(*   "held"     tarpit_close holds it                                      *)
(***************************************************************************)
EXTENDS ProbeTracker

CONSTANTS
    Conns,       \* slots for connections
    Uuids,       \* UUIDs an administrator may register
    MaxAccepts   \* bound on the connections of a behaviour

ASSUME ServerAssumption ==
    /\ IsFiniteSet(Conns)
    /\ Ips # {}
    /\ MaxAccepts \in Nat

VARIABLES
    live,        \* the configuration in cfg_rx: its UUIDs
    conn,        \* per slot: where its task is, and what it knows
    accepted,    \* connections accepted
    total,       \* sessions_total
    active,      \* sessions_active
    splices,     \* splice_total
    spliceFails, \* splice_fail_total
    probeLike,   \* probe_like_total
    late         \* history, per address: what its quarantine has met (see Late)

spliceVars == <<splices, spliceFails>>
counters == <<accepted, total, active, splices, spliceFails, probeLike, late>>
vars == <<inner, live, conn, accepted, total, active, splices, spliceFails, probeLike, late>>

\* A slot with no connection. cfg is the configuration the accept loop handed
\* to the task, probe the outcome of handle_connection.
Free == [at |-> "free", ip |-> CHOOSE ip \in Ips : TRUE, cfg |-> {},
         probe |-> FALSE, cur |-> 0]

\* told: the probes recorded in a quarantine; open: the handshakes that had
\* been begun before it and could still turn out to be probes.
Late(told, open) == [told |-> told, open |-> open]

Init ==
    /\ TrackerInit
    /\ live \in SUBSET Uuids
    /\ conn = [c \in Conns |-> Free]
    /\ accepted = 0 /\ total = 0 /\ active = 0
    /\ splices = 0 /\ spliceFails = 0 /\ probeLike = 0
    /\ late = [ip \in Ips |-> Late(0, 0)]

At(c, point) == conn[c].at = point
Goto(c, point) == conn' = [conn EXCEPT ![c].at = point]

\* The connections of an address with which a handshake has been begun and
\* whose outcome the tracker has not been told.
Undecided(ip) == {c \in Conns : conn[c].at \notin {"free", "held"} /\ conn[c].ip = ip}

-----------------------------------------------------------------------------
(* The accept loop                                                         *)

\* The address is not looked up: the tracker is asked only to record.
AcceptBug(c, ip) ==
    /\ At(c, "free")
    /\ accepted < MaxAccepts
    /\ accepted' = accepted + 1
    /\ inner' = inner
    /\ conn' = [conn EXCEPT ![c] = [Free EXCEPT !.ip = ip, !.cfg = live, !.at = "spawned"]]
    /\ UNCHANGED <<live, total, active, spliceVars, probeLike, late>>

\* cfg_rx is read, then the tracker asked; the order does not matter, since no
\* step of another task reads one and writes the other.
Accept(c, ip) ==
    /\ At(c, "free")
    /\ accepted < MaxAccepts
    /\ accepted' = accepted + 1
    /\ IsTarpitted(ip)
    /\ conn' = [conn EXCEPT ![c] = [Free EXCEPT
            !.ip = ip, !.cfg = live,
            !.at = IF StillTarpitted(ip) THEN "held" ELSE "spawned"]]
    /\ UNCHANGED <<live, total, active, spliceVars, probeLike, late>>

-----------------------------------------------------------------------------
(* A connection's task                                                     *)

\* inc_session_start: two atomic increments.
CountTotal(c) ==
    /\ At(c, "spawned")
    /\ Goto(c, "counted")
    /\ total' = total + 1
    /\ UNCHANGED <<inner, live, accepted, active, spliceVars, probeLike, late>>

CountActive(c) ==
    /\ At(c, "counted")
    /\ Goto(c, "open")
    /\ active' = active + 1
    /\ UNCHANGED <<inner, live, accepted, total, spliceVars, probeLike, late>>

\* The transport handshake fails.
HandshakeFails(c) ==
    /\ At(c, "open")
    /\ conn' = [conn EXCEPT ![c].at = "ended", ![c].probe = TRUE, ![c].cfg = {}]
    /\ UNCHANGED <<inner, live, counters>>

\* A client presents a UUID; it is looked up in the configuration of accept,
\* which nothing reads after it.
ArkClient(c, u) ==
    /\ At(c, "open")
    /\ \/ /\ u \in conn[c].cfg
          /\ conn' = [conn EXCEPT ![c].cfg = {}, ![c].at = "serving"]
       \/ /\ u \notin conn[c].cfg
          /\ conn' = [conn EXCEPT ![c].probe = TRUE, ![c].cfg = {}, ![c].at = "ended"]
    /\ UNCHANGED <<inner, live, counters>>

\* The v2 negotiation fails, the request is refused, or the relay ends: from
\* here on nothing the client does is a probe signal.
Served(c) ==
    /\ At(c, "serving")
    /\ Goto(c, "ended")
    /\ UNCHANGED <<inner, live, counters>>

\* A real peer is dropped for want of a bitcoind, or spliced.
RealPeerDropped(c) ==
    /\ At(c, "open")
    /\ conn' = [conn EXCEPT ![c].at = "ended", ![c].cfg = {}]
    /\ UNCHANGED <<inner, live, counters>>

RealPeerSpliced(c) ==
    /\ At(c, "open")
    /\ conn' = [conn EXCEPT ![c].at = "splicing", ![c].cfg = {}]
    /\ splices' = splices + 1
    /\ UNCHANGED <<inner, live, accepted, total, active, spliceFails, probeLike, late>>

\* splice_real_peer returns Ok or, if bitcoind cannot be reached, an error.
SpliceEnds(c) ==
    /\ At(c, "splicing")
    /\ Goto(c, "ended")
    /\ spliceFails' \in {spliceFails, spliceFails + 1}
    /\ UNCHANGED <<inner, live, accepted, total, active, splices, probeLike, late>>

\* inc_session_end: the load.
LoadActive(c) ==
    /\ At(c, "ended")
    /\ conn' = [conn EXCEPT ![c].cur = active,
                            ![c].at = IF active = 0 THEN "uncounted" ELSE "loaded"]
    /\ UNCHANGED <<inner, live, counters>>

\* A store for the compare_exchange.
SwapActiveBug(c) ==
    /\ At(c, "loaded")
    /\ active' = conn[c].cur - 1
    /\ Goto(c, "uncounted")
    /\ UNCHANGED <<inner, live, accepted, total, spliceVars, probeLike, late>>

\* One compare_exchange_weak of its loop, which may also fail spuriously.
SwapActive(c) ==
    /\ At(c, "loaded")
    /\ \/ /\ conn[c].cur = active
          /\ active' = active - 1
          /\ conn' = [conn EXCEPT ![c].cur = 0, ![c].at = "uncounted"]
       \/ /\ conn[c].cur # active
          /\ conn' = [conn EXCEPT ![c].cur = active,
                                  ![c].at = IF active = 0 THEN "uncounted" ELSE "loaded"]
          /\ UNCHANGED active
    /\ UNCHANGED <<inner, live, accepted, total, spliceVars, probeLike, late>>

\* A legitimate connection is over; a probe is counted.
Judge(c) ==
    /\ At(c, "uncounted")
    /\ IF conn[c].probe
       THEN Goto(c, "record") /\ probeLike' = probeLike + 1
       ELSE conn' = [conn EXCEPT ![c] = Free] /\ UNCHANGED probeLike
    /\ UNCHANGED <<inner, live, accepted, total, active, spliceVars, late>>

\* record_failure, and tarpit_close if the descriptor could be duplicated.
Punish(c) ==
    /\ At(c, "record")
    /\ RecordFailure(conn[c].ip)
    /\ conn' \in {[conn EXCEPT ![c].at = "held"], [conn EXCEPT ![c] = Free]}
    /\ late' = [late EXCEPT ![conn[c].ip] =
            IF StillTarpitted(conn[c].ip) THEN Late(@.told + 1, @.open)
            ELSE Late(0, Cardinality(Undecided(conn[c].ip) \ {c}))]
    /\ UNCHANGED <<live, accepted, total, active, spliceVars, probeLike>>

\* tarpit_close drains the socket and never gives up on a peer that stays.
HoldEndsBug(c) ==
    /\ At(c, "held")
    /\ ~conn[c].probe
    /\ conn' = [conn EXCEPT ![c] = Free]
    /\ UNCHANGED <<inner, live, counters>>

\* tarpit_close: the delay is over or the peer has closed.
HoldEnds(c) ==
    /\ At(c, "held")
    /\ conn' = [conn EXCEPT ![c] = Free]
    /\ UNCHANGED <<inner, live, counters>>

-----------------------------------------------------------------------------
(* The other tasks, the administrator and time                             *)

GcTask == Gc /\ inner' # inner /\ UNCHANGED <<live, conn, counters>>

\* SIGHUP: server.toml is loaded as its editors have left it. A file that does
\* not load leaves the configuration in use: a stuttering step.
Reload ==
    /\ live' \in SUBSET Uuids
    /\ live' # live
    /\ UNCHANGED <<inner, conn, counters>>

Tick ==
    /\ TrackerTick
    /\ inner' # inner
    /\ UNCHANGED <<live, conn, counters>>

-----------------------------------------------------------------------------
\* What the task of a connection does on its own, once the peer or the relay
\* is done.
Finish(c) ==
    \/ CountTotal(c) \/ CountActive(c) \/ LoadActive(c) \/ SwapActive(c)
    \/ Judge(c) \/ Punish(c) \/ HoldEnds(c)

Handle(c) ==
    \/ HandshakeFails(c)
    \/ \E u \in Uuids : ArkClient(c, u)
    \/ Served(c)
    \/ RealPeerDropped(c)
    \/ RealPeerSpliced(c)
    \/ SpliceEnds(c)

Next ==
    \/ \E c \in Conns : (\E ip \in Ips : Accept(c, ip)) \/ Handle(c) \/ Finish(c)
    \/ GcTask
    \/ Reload
    \/ Tick

Spec == Init /\ [][Next]_vars

\* The runtime runs every task that is ready; nothing makes a peer finish its
\* handshake, so Handle has no fairness.
FairSpec == Spec /\ \A c \in Conns : WF_vars(Finish(c))

-----------------------------------------------------------------------------
(* Properties *)

Points == {"free", "spawned", "counted", "open", "serving", "splicing", "ended",
           "loaded", "uncounted", "record", "held"}

Started == {c \in Conns : conn[c].at \in {"open", "serving", "splicing", "ended", "loaded"}}

(* sessions_active is exact whatever tasks are stopped between a load and  *)
(* a compare_exchange: no session is forgotten and none is counted twice,  *)
(* and so the saturation at zero (metrics.rs:56) never takes effect.       *)
ActiveIsExact == active = Cardinality(Started)

(* The tracker is asked at accept and told after the handshake, and other  *)
(* connections of the address come between. A quarantine closes the door   *)
(* all the same: the probes recorded while it lasts, with the handshakes   *)
(* that may still become some, are no more than the handshakes that were   *)
(* under way when it began (run.rs:130-136, :166-170).                     *)
LateProbesAreBounded ==
    \A ip \in Ips :
        Quarantine[ip] > 0 => late[ip].told + Cardinality(Undecided(ip)) <= late[ip].open

(* Every connection judged probe-like is released in the end, and leaves   *)
(* its slot: the counting, the tracker and the hold lose none.             *)
ProbesAreReleased == \A c \in Conns : conn[c].probe ~> At(c, "free")
=============================================================================

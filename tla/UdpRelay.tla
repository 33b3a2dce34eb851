------------------------------ MODULE UdpRelay ------------------------------
(***************************************************************************)
(* ark-server/src/run.rs `serve_udp_associate`: one UDP association, its   *)
(* NAT table, the future that forwards the client's datagrams and the one  *)
(* that returns replies. The futures share the table under a mutex, which  *)
(* neither holds while it waits for the client's stream or the resolver.   *)
(*                                                                         *)
(* The table is a sequence of entries, the least recently used first: the  *)
(* instants in the code only grow, so that is the order of last_active.    *)
(***************************************************************************)
EXTENDS Naturals, Sequences, FiniteSets, Selection

CONSTANTS
    Dests,       \* socket addresses of remote hosts
    Targets,     \* FrameTargets a client names them by
    MaxDests,    \* UDP_MAX_DESTINATIONS
    Idle         \* UDP_IDLE_TIMEOUT, in ticks

ASSUME UdpAssumption ==
    /\ MaxDests \in Nat \ {0}
    /\ Idle \in Nat \ {0}
    /\ IsFiniteSet(Dests)

VARIABLES
    nat,         \* the table: entries [dest, target, age]
    reply,       \* the reply being written to the client: <<>> or <<[dest, target]>>
    open,        \* whether the association is alive
    history,     \* every address used so far, as `nat` would keep it if it had
                 \* neither a capacity nor a timeout
    named        \* per address used so far: the targets the client has named it by

natVars == <<nat, reply, open, history, named>>

Entry(d, t, age) == [dest |-> d, target |-> t, age |-> age]

Has(table, d) == \E i \in 1..Len(table) : table[i].dest = d

\* The table without d.
Without(table, d) == Kept(table, {i \in 1..Len(table) : table[i].dest # d})

\* d is used now, as t.
Used(table, d, t) == Append(Without(table, d), Entry(d, t, 0))

Live(table) == Kept(table, {i \in 1..Len(table) : table[i].age < Idle})

UdpInit ==
    /\ nat = <<>>
    /\ reply = <<>>
    /\ open = TRUE
    /\ history = <<>>
    /\ named = [d \in Dests |-> {}]

-----------------------------------------------------------------------------
\* An XBug is X with a slip: here, the entry used last makes room.
EvictedBug(d) ==
    IF ~Has(nat, d) /\ Len(nat) >= MaxDests THEN SubSeq(nat, 1, Len(nat) - 1) ELSE nat

\* A new address finds the table full: the least recently used one makes room.
Evicted(d) == IF ~Has(nat, d) /\ Len(nat) >= MaxDests THEN Tail(nat) ELSE nat

\* A datagram for t, which resolves to d now. A target that does not resolve
\* is dropped, and so is a datagram the socket will not send: no change.
Forward(t, d) ==
    /\ open
    /\ nat' = Used(Live(Evicted(d)), d, t)
    /\ history' = Used(history, d, t)
    /\ named' = [named EXCEPT ![d] = @ \cup {t}]
    /\ UNCHANGED <<reply, open>>

\* The entry of a table for an address it has.
EntryOf(table, d) == CHOOSE e \in {table[i] : i \in 1..Len(table)} : e.dest = d

\* The reply is for whoever was used last.
ReplyBug(d) ==
    /\ open
    /\ reply = <<>>
    /\ Has(nat, d)
    /\ LET t == nat[Len(nat)].target IN
       /\ nat' = Used(nat, d, t)
       /\ history' = Used(history, d, t)
       /\ reply' = <<[dest |-> d, target |-> t]>>
    /\ UNCHANGED <<open, named>>

\* A datagram from d: the entry is refreshed, however old it is, and its
\* target is what the client will see. From an unknown address it is dropped.
Reply(d) ==
    /\ open
    /\ reply = <<>>
    /\ Has(nat, d)
    /\ LET t == EntryOf(nat, d).target IN
       /\ nat' = Used(nat, d, t)
       /\ history' = Used(history, d, t)
       /\ reply' = <<[dest |-> d, target |-> t]>>
    /\ UNCHANGED <<open, named>>

\* write_udp_datagram succeeds.
Written ==
    /\ open
    /\ reply # <<>>
    /\ reply' = <<>>
    /\ UNCHANGED <<nat, open, history, named>>

\* The future returns, and select! ends the association: recv_from fails while
\* it waits for a reply, or the write of one does, because the stream is broken
\* or the datagram exceeds MAX_UDP_PAYLOAD.
ReplyFails ==
    /\ open
    /\ open' = FALSE
    /\ reply' = <<>>
    /\ UNCHANGED <<nat, history, named>>

\* The client's stream ends or carries a malformed datagram: select! drops the
\* other future, and a reply half written with it.
ClientEnds ==
    /\ open
    /\ open' = FALSE
    /\ reply' = <<>>
    /\ UNCHANGED <<nat, history, named>>

Aged(table) ==
    [i \in 1..Len(table) |-> [table[i] EXCEPT !.age = IF @ < Idle THEN @ + 1 ELSE @]]

UdpTick ==
    /\ open
    /\ nat' = Aged(nat)
    /\ history' = Aged(history)
    /\ history' # history
    /\ UNCHANGED <<reply, open, named>>

-----------------------------------------------------------------------------
(* Properties *)

(* An address is forgotten only when it was silent for Idle or MaxDests    *)
(* other addresses were used after it: eviction, which comes before the    *)
(* idle ones are dropped, costs no live address its entry without need.    *)
RecentAreKept ==
    \A i \in 1..Len(history) :
        (history[i].age < Idle /\ i > Len(history) - MaxDests) => Has(nat, history[i].dest)

=============================================================================

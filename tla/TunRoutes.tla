----------------------------- MODULE TunRoutes ------------------------------
(***************************************************************************)
(* `ark-client tun`: run_tun of ark-client/src/main.rs and the routes of   *)
(* ark-client/src/tun.rs on the three systems it knows. install_routes is  *)
(* a list of commands, each run after the one before it has ended; what    *)
(* would undo a command is recorded with the RouteJanitor after it has     *)
(* succeeded. The command may fail for any reason of the system's own;     *)
(* undoing fails only where the table leaves nothing to do.                *)
(*                                                                         *)
(* The routing table is a set of [dest, via, metric]. tun2socks owns the   *)
(* device: when it dies the device goes, and with it the routes through it. *)
(***************************************************************************)
EXTENDS Naturals, Sequences, SequencesExt

CONSTANTS
    Gateways,    \* gateways a default route of the host may name
    Resolvers    \* the system's DNS servers; one may be a gateway

Systems == {"linux", "macos", "windows"}
Tun == "tun"
Nowhere == "blackhole"
Server == "server"

\* What the commands route besides the resolvers.
Names == {"default", Server, "0/1", "128/1", "::/1", "8000::/1"}

\* A resolver is an address, which may be the server's.
ASSUME RouteAssumption ==
    /\ Gateways \cap {Tun, Nowhere} = {}
    /\ Resolvers \cap (Names \ {Server}) = {} /\ IsFiniteSet(Resolvers)

VARIABLES
    os,          \* the system
    ipv6,        \* --ipv6: leave IPv6 alone
    before,      \* the table when the client started
    table,       \* the table now
    device,      \* whether tun2socks runs, and its device exists
    gw,          \* orig_gw
    at,          \* the place in Script
    undo,        \* RouteJanitor.undo
    phase        \* "install", "up", "undo", "done", or "killed"

tunVars == <<os, ipv6, before, table, device, gw, at, undo, phase>>

Cmd(op, dest, via) == [op |-> op, dest |-> dest, via |-> via]
Step(must, cmd, undoing) == [must |-> must, cmd |-> cmd, undoing |-> undoing]

\* A command that must succeed, and one that need not, with what undoes it.
Must(op, dest, via, undoing) == Step(TRUE, Cmd(op, dest, via), undoing)
May(op, dest, via, undoing) == Step(FALSE, Cmd(op, dest, via), undoing)

Unroute(dest) == <<Cmd("del", dest, Tun)>>

BlackHoles ==
    IF ipv6 THEN <<>>
    ELSE <<May("add", "::/1", Nowhere, Unroute("::/1")),
           May("add", "8000::/1", Nowhere, Unroute("8000::/1"))>>

Halves == <<Must("add", "0/1", Tun, Unroute("0/1")), Must("add", "128/1", Tun, Unroute("128/1"))>>

ReadDefault == Must("read", "default", Tun, <<>>)

\* The server's own address keeps the old gateway.
Bypass == Must("add", Server, gw, Unroute(Server))

\* An XBug is X with a slip: the bypass is left for last.
LinuxScriptBug ==
    <<ReadDefault,
      May("del", "default", gw, <<>>),
      Must("add", "default", Tun, <<Cmd("add", "default", gw)>> \o Unroute("default")),
      Bypass>> \o BlackHoles

\* The undoing of the default route is recorded in the order it was done in.
LinuxScriptUndoBug ==
    <<ReadDefault, Bypass, May("del", "default", gw, <<>>),
      Must("add", "default", Tun, Unroute("default") \o <<Cmd("add", "default", gw)>>)>>
    \o BlackHoles

LinuxScript ==
    <<Must("dev", "addr", Tun, <<>>),
      Must("dev", "up", Tun, <<Cmd("dev", "down", Tun), Cmd("dev", "no addr", Tun)>>),
      ReadDefault,
      Bypass,
      May("del", "default", gw, <<>>),
      Must("add", "default", Tun, <<Cmd("add", "default", gw)>> \o Unroute("default"))>>
    \o BlackHoles

\* A resolver that is the gateway itself needs no route of its own.
ResolverBypasses ==
    LET rs == SetToSeq(Resolvers \ {gw}) IN
    [i \in 1..Len(rs) |-> May("add", rs[i], gw, Unroute(rs[i]))]

MacScript ==
    <<ReadDefault,
      Must("dev", "addr", Tun, <<>>),
      Must("dev", "mtu", Tun, <<Cmd("dev", "down", Tun)>>),
      Bypass>>
    \o ResolverBypasses \o Halves \o BlackHoles

WindowsScript == <<ReadDefault, Bypass>> \o Halves \o BlackHoles

Script ==
    CASE os = "linux" -> LinuxScript [] os = "macos" -> MacScript [] os = "windows" -> WindowsScript

-----------------------------------------------------------------------------
(* The routing table                                                       *)

Route(dest, via, metric) == [dest |-> dest, via |-> via, metric |-> metric]

\* Two routes to one destination need different metrics; new ones have none.
CanAdd(c) ==
    /\ ~\E r \in table : r.dest = c.dest /\ r.metric = 0
    /\ c.via = Tun => device

Matching(dest) == {r \in table : r.dest = dest}

\* The system deletes the first match.
First(dest) == CHOOSE r \in Matching(dest) : \A s \in Matching(dest) : r.metric <= s.metric

\* What a deletion takes. On Windows it names a network and no mask, and so all
\* that begin at that address: the half 0/1 and the default route begin at one.
Deleted(dest) ==
    IF os = "windows" /\ dest = "0/1" THEN Matching("0/1") \cup Matching("default")
    ELSE {r \in Matching(dest) : r = First(dest)}

CanRun(c) ==
    CASE c.op = "add" -> CanAdd(c)
      [] c.op = "del" -> Deleted(c.dest) # {}
      [] c.op = "dev" -> device
      [] c.op = "read" -> Matching("default") # {}

After(c) ==
    CASE c.op = "add" -> table \cup {Route(c.dest, c.via, 0)}
      [] c.op = "del" -> table \ Deleted(c.dest)
      [] OTHER -> table

\* What read_default_route takes of several defaults: on Linux the last of
\* `ip route show default`, elsewhere the one in use.
ReadGateway ==
    LET ds == Matching("default") IN
    (CHOOSE r \in ds : \A s \in ds :
        IF os = "linux" THEN s.metric <= r.metric ELSE r.metric <= s.metric).via

\* A host route to a resolver may be there already.
Tables ==
    {{Route("default", g, m)} : g \in Gateways, m \in {0, 1}}
    \cup {{Route("default", g[1], 0), Route("default", g[2], 1)} : g \in Gateways \X Gateways}
    \cup {{Route("default", g, 1), Route(r, g, 0)} : g \in Gateways, r \in Resolvers}

TunInit ==
    /\ os \in Systems /\ ipv6 \in BOOLEAN
    /\ before \in Tables /\ table = before
    /\ device = TRUE /\ gw = Nowhere
    /\ at = 1 /\ undo = <<>> /\ phase = "install"

-----------------------------------------------------------------------------
(* run_tun                                                                 *)

\* The next command succeeds.
Install ==
    /\ phase = "install" /\ at <= Len(Script)
    /\ CanRun(Script[at].cmd)
    /\ table' = After(Script[at].cmd)
    /\ gw' = IF Script[at].cmd.op = "read" THEN ReadGateway ELSE gw
    /\ undo' = undo \o Script[at].undoing
    /\ at' = at + 1
    /\ UNCHANGED <<os, ipv6, before, device, phase>>

\* It fails: install_routes warns and goes on, or gives up, whereupon run_tun
\* kills tun2socks and has the janitor undo what was recorded.
InstallFails ==
    /\ phase = "install" /\ at <= Len(Script)
    /\ IF Script[at].must THEN phase' = "undo" /\ at' = at ELSE phase' = phase /\ at' = at + 1
    /\ UNCHANGED <<os, ipv6, before, table, device, gw, undo>>

Installed ==
    /\ phase = "install" /\ at > Len(Script)
    /\ phase' = "up"
    /\ UNCHANGED <<os, ipv6, before, table, device, gw, at, undo>>

\* Ctrl-C, or the SOCKS5 task or tun2socks has ended.
Stop ==
    /\ phase = "up"
    /\ phase' = "undo"
    /\ UNCHANGED <<os, ipv6, before, table, device, gw, at, undo>>

\* tun2socks dies: by itself at any time, or because it has been killed, which
\* run_tun does not wait for.
DeviceGoes ==
    /\ device
    /\ device' = FALSE
    /\ table' = {r \in table : r.via # Tun}
    /\ UNCHANGED <<os, ipv6, before, gw, at, undo, phase>>

\* run_all: the last recorded first, errors ignored.
Undo ==
    /\ phase = "undo" /\ undo # <<>>
    /\ LET c == undo[Len(undo)] IN table' = IF CanRun(c) THEN After(c) ELSE table
    /\ undo' = SubSeq(undo, 1, Len(undo) - 1)
    /\ UNCHANGED <<os, ipv6, before, device, gw, at, phase>>

Finish ==
    /\ phase = "undo" /\ undo = <<>>
    /\ phase' = "done"
    /\ UNCHANGED <<os, ipv6, before, table, device, gw, at, undo>>

\* A signal nobody handles: SIGTERM at any time, Ctrl-C before the select!. The
\* process is gone, tun2socks is not.
Killed ==
    /\ phase \in {"install", "up", "undo"}
    /\ phase' = "killed"
    /\ UNCHANGED <<os, ipv6, before, table, device, gw, at, undo>>

TunNext ==
    Install \/ InstallFails \/ Installed \/ Stop \/ DeviceGoes \/ Undo \/ Finish \/ Killed

-----------------------------------------------------------------------------
(* Properties *)

(* "otherwise the encrypted ArkTunnel session would loop through itself    *)
(* and dead-lock" (tun.rs:7-8): at no moment, while routes are installed,  *)
(* undone or left behind by a signal, does the host route its traffic into *)
(* the device and not have the server's own route beside it.               *)
NeverLoops ==
    (\E r \in table : r.via = Tun) => \E r \in table : r.dest = Server /\ r.via # Tun

\* Who routes what, whatever the metrics.
Reaches(t) == {<<r.dest, r.via>> : r \in t}

\* The command that failed is the one between the deletion of the default
\* route and the recording of what would bring it back.
Stranded == os = "linux" /\ at <= Len(Script) /\ Script[at].cmd = Cmd("add", "default", Tun)

\* What the undoing leaves: on Windows `route delete 0.0.0.0` takes the host's
\* default routes with the half, whether or not the half is still there.
Spared ==
    IF os = "windows" /\ at > 3 THEN {r \in before : r.dest # "default"} ELSE before

(* "shutdown complete; routes restored" (main.rs:295): when the client has *)
(* ended by itself, after whatever failure of whatever command and however *)
(* tun2socks ended, the host reaches what it reached before. Three cases   *)
(* are excepted, which are findings: the command that follows the deletion *)
(* of the default route fails, a host with several default routes, and     *)
(* Windows once its third command has routed 0/1, where the default routes *)
(* are lost: they, and nothing else.                                       *)
RoutesRestored ==
    phase = "done" =>
        \/ Reaches(table) = Reaches(Spared)
        \/ Stranded
        \/ os = "linux" /\ Cardinality({r \in before : r.dest = "default"}) > 1
=============================================================================

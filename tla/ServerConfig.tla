---------------------------- MODULE ServerConfig ----------------------------
(***************************************************************************)
(* server.toml: the commands that write it (ark-server/src/init.rs,        *)
(* add_user.rs), the operator who edits it, and the server that loads it   *)
(* when it starts and on SIGHUP (ark-server/src/config.rs, run.rs).        *)
(*                                                                         *)
(* A configuration is its set of users: the rest is the same in all. A     *)
(* save is two steps, the truncation and the write; a text that has been   *)
(* cut, or has another's tail, does not parse. (One cut behind the users   *)
(* does, and lists them all.) Every command makes a UUID of its own.       *)
(***************************************************************************)
EXTENDS Naturals, FiniteSets

CONSTANTS
    Admins,      \* terminals in which commands are run
    Users        \* UUIDs, one for each command: a bound on their number

ASSUME ConfigAssumption == Users # {} /\ Users \cap {"absent", "garbled"} = {}

VARIABLES
    file,        \* server.toml: a set of users, Absent or Garbled
    admin,       \* per terminal: "idle", "save", "write" or "print"
    user,        \* per terminal: the UUID of its command
    copy,        \* per terminal: the configuration the command will save
    alone,       \* per terminal: whether nothing else has changed the file, or
                 \* been about to, since its command began
    used,        \* UUIDs made
    kept,        \* users printed by commands that were alone
    revoked,     \* users the operator removed when no command was running
    server,      \* "down", "started" (no signal handler yet) or "up"
    config,      \* the configuration the accept loop clones
    signalled,   \* whether a SIGHUP waits to be received
    loading,     \* "no", or what comes next of a reload: "read" or "send"
    text,        \* the configuration it has read
    changed      \* whether the file has changed since the last SIGHUP or start

commands == <<admin, user, copy, alone, used>>
process == <<server, config, signalled, loading, text>>
configVars == <<commands, file, kept, revoked, process, changed>>

Absent == {"absent"}
Garbled == {"garbled"}
Loads(f) == f \notin {Absent, Garbled}

ConfigInit ==
    /\ file = Absent
    /\ admin = [a \in Admins |-> "idle"]
    /\ user \in [Admins -> {CHOOSE u \in Users : TRUE}]
    /\ copy = [a \in Admins |-> {}]
    /\ alone = [a \in Admins |-> TRUE]
    /\ used = {} /\ kept = {} /\ revoked = {}
    /\ server = "down" /\ config = {} /\ signalled = FALSE
    /\ loading = "no" /\ text = {}
    /\ changed = FALSE

-----------------------------------------------------------------------------
(* The commands                                                            *)

Busy == {a \in Admins : admin[a] # "idle"}

Begin(a, u, users) ==
    /\ admin[a] = "idle"
    /\ u \notin used /\ used' = used \cup {u}
    /\ admin' = [admin EXCEPT ![a] = "save"]
    /\ user' = [user EXCEPT ![a] = u]
    /\ copy' = [copy EXCEPT ![a] = users]
    /\ alone' = IF Busy = {} THEN [alone EXCEPT ![a] = TRUE] ELSE [b \in Admins |-> FALSE]
    /\ UNCHANGED <<file, kept, revoked, process, changed>>

RunInit(a, u) == file = Absent /\ Begin(a, u, {u})

\* An XBug is X with a slip: what does not load is begun anew.
RunAddUserBug(a, u) ==
    /\ file # Absent
    /\ Begin(a, u, IF Loads(file) THEN file \cup {u} ELSE {u})

RunAddUser(a, u) == Loads(file) /\ Begin(a, u, file \cup {u})

Truncate(a) ==
    /\ admin[a] = "save"
    /\ admin' = [admin EXCEPT ![a] = "write"]
    /\ file' = Garbled /\ changed' = TRUE
    /\ UNCHANGED <<user, copy, alone, used, kept, revoked, process>>

\* Over a longer text that another command has written since, its tail stays.
Write(a) ==
    /\ admin[a] = "write"
    /\ admin' = [admin EXCEPT ![a] = "print"]
    /\ file' = IF Loads(file) /\ Cardinality(file) > Cardinality(copy[a]) THEN Garbled ELSE copy[a]
    /\ changed' = TRUE
    /\ UNCHANGED <<user, copy, alone, used, kept, revoked, process>>

\* The disk is full, or the command is killed.
WriteFails(a) ==
    /\ admin[a] \in {"save", "write"}
    /\ admin' = [admin EXCEPT ![a] = "idle"]
    /\ UNCHANGED <<user, copy, alone, used, file, kept, revoked, process, changed>>

Announce(a) ==
    /\ admin[a] = "print"
    /\ admin' = [admin EXCEPT ![a] = "idle"]
    /\ kept' = IF alone[a] THEN kept \cup {user[a]} ELSE kept
    /\ UNCHANGED <<user, copy, alone, used, file, revoked, process, changed>>

\* The operator takes a user out with an editor, which replaces the file, or
\* deletes it, to initialise anew; never in the middle of a command's write.
Revoke(u) ==
    /\ Loads(file) /\ u \in file
    /\ \A a \in Admins : admin[a] # "write"
    /\ file' = file \ {u} /\ changed' = TRUE
    /\ kept' = kept \ {u}
    /\ revoked' = IF Busy = {} THEN revoked \cup {u} ELSE revoked
    /\ alone' = [a \in Admins |-> FALSE]
    /\ UNCHANGED <<admin, user, copy, used, process>>

Delete ==
    /\ file # Absent
    /\ \A a \in Admins : admin[a] # "write"
    /\ file' = Absent /\ changed' = TRUE
    /\ kept' = {} /\ revoked' = {}
    /\ alone' = [a \in Admins |-> FALSE]
    /\ UNCHANGED <<admin, user, copy, used, process>>

-----------------------------------------------------------------------------
(* The server                                                              *)

\* run_server loads before all else, and ends if it cannot.
Start ==
    /\ server = "down"
    /\ Loads(file)
    /\ server' = "started" /\ config' = file
    /\ signalled' = FALSE /\ changed' = FALSE
    /\ UNCHANGED <<commands, file, kept, revoked, loading, text>>

HandlerSet ==
    /\ server = "started"
    /\ server' = "up"
    /\ UNCHANGED <<commands, file, kept, revoked, config, signalled, loading, text, changed>>

\* Without a handler the signal kills; several that wait are one.
Hangup ==
    /\ server # "down"
    /\ IF server = "up"
       THEN signalled' = TRUE /\ changed' = FALSE /\ UNCHANGED server
       ELSE server' = "down" /\ UNCHANGED <<signalled, changed>>
    /\ UNCHANGED <<commands, file, kept, revoked, config, loading, text>>

Receive ==
    /\ server = "up" /\ signalled /\ loading = "no"
    /\ signalled' = FALSE /\ loading' = "read"
    /\ UNCHANGED <<commands, file, kept, revoked, server, config, text, changed>>

\* A configuration that does not load is an empty one.
ReadConfigBug ==
    /\ loading = "read"
    /\ loading' = "send" /\ text' = IF Loads(file) THEN file ELSE {}
    /\ UNCHANGED <<commands, file, kept, revoked, server, config, signalled, changed>>

\* What does not load changes nothing.
ReadConfig ==
    /\ loading = "read"
    /\ IF Loads(file) THEN loading' = "send" /\ text' = file ELSE loading' = "no" /\ UNCHANGED text
    /\ UNCHANGED <<commands, file, kept, revoked, server, config, signalled, changed>>

\* The signals that have come in the meantime are taken to be answered.
SendConfigBug ==
    /\ loading = "send"
    /\ config' = text /\ loading' = "no" /\ signalled' = FALSE
    /\ UNCHANGED <<commands, file, kept, revoked, server, text, changed>>

\* cfg_tx.send: the accept loop sees it at its next connection.
SendConfig ==
    /\ loading = "send"
    /\ config' = text /\ loading' = "no"
    /\ UNCHANGED <<commands, file, kept, revoked, server, signalled, text, changed>>

Crash ==
    /\ server # "down"
    /\ server' = "down"
    /\ signalled' = FALSE /\ loading' = "no" /\ text' = {}
    /\ UNCHANGED <<commands, file, kept, revoked, config, changed>>

ConfigNext ==
    \/ \E a \in Admins :
          \/ \E u \in Users : RunInit(a, u) \/ RunAddUser(a, u)
          \/ Truncate(a) \/ Write(a) \/ WriteFails(a) \/ Announce(a)
    \/ \E u \in Users : Revoke(u)
    \/ Delete \/ Start \/ HandlerSet \/ Hangup \/ Receive \/ ReadConfig \/ SendConfig \/ Crash

-----------------------------------------------------------------------------
(* Properties *)

(* What a command that was alone has added, and what the operator has      *)
(* removed when none was running, is in the file as they left it, whatever *)
(* commands overlap, fail or are killed after it, as long as the file      *)
(* loads at all.                                                           *)
SerialEditsAreKept ==
    Loads(file) => kept \subseteq file /\ file \cap revoked = {}

(* "Live-reload config without dropping connections" (README.md:76): when  *)
(* the last signal, sent after the last change of the file, is answered,   *)
(* the server runs with what the file says; no signal is lost to a reload  *)
(* in progress.                                                            *)
ReloadIsNotLost ==
    (server = "up" /\ ~signalled /\ loading = "no" /\ ~changed /\ Loads(file)) => config = file

(* No reload costs a user whom nobody removed (one in kept before and      *)
(* after), whatever half-written state of the file it finds.               *)
ReloadDropsNobody ==
    [][server = "up" => (config \cap kept \cap kept') \subseteq config']_configVars
=============================================================================

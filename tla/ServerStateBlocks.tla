-------------------------- MODULE ServerStateBlocks --------------------------
(***************************************************************************)
(* How HAProxy's runtime servers survive a restart: after a Reconcile the  *)
(* gateway saves "show servers state" to the global server state file;     *)
(* before HAProxy loads its config, systemd has "nixy                      *)
(* -sync-haproxy-state-config" (haproxy_config_state_blocks.go) write      *)
(* these servers into the marked blocks of the config, as HAProxy restores *)
(* the state only of servers the config has.                               *)
(*                                                                         *)
(* HAProxy, systemd and whoever else writes the two files are external.    *)
(* The text of a line is kept as far as one of them looks at it.           *)
(***************************************************************************)
EXTENDS Integers, SequencesExt

CONSTANTS
    Backends, NoName,
    ServerNames, Addresses,
    NoAddress,    \* "-", the address of a slot of a server template
    NoFile,       \* no state file yet
    Layouts,      \* the columns of "show servers state", one order per HAProxy
    Templates,    \* configs, as their authors write them
    OddFiles,     \* state files of other origin
    Reconciled,   \* servers per backend that a Reconcile may leave behind
    MaxRestarts,  \* bound: starts and reloads of HAProxy
    MaxEdits      \* bound: configs and state files replaced by others

Columns == {"be_name", "srv_name", "srv_addr", "srv_port"}
Ports == 0 .. 65535
ServerType == [name : ServerNames, addr : Addresses \cup {NoAddress}, port : Ports]
Line(kind, name, addr, port) == [kind |-> kind, name |-> name, addr |-> addr, port |-> port]
LineType == [kind : {"begin", "end", "backend", "server", "slot", "other"},
             name : Backends \cup ServerNames \cup {NoName},
             addr : Addresses \cup {NoAddress}, port : Ports]

ASSUME NamesAssumption == NoName \notin Backends \cup ServerNames /\ NoAddress \notin Addresses
ASSUME BoundsAssumption == MaxRestarts \in Nat /\ MaxEdits \in Nat
ASSUME BackendsAssumption == IsFiniteSet(Backends)
ASSUME LayoutsAssumption ==
    \A l \in Layouts : l \in Seq(ToSet(l)) /\ Columns \subseteq ToSet(l) /\ IsInjective(l)

VARIABLES
    layout,
    config,      \* haproxy_config: its lines
    stateFile,   \* haproxy_global_server_state_file_path
    running,     \* HAProxy's servers per backend
    alive,       \* HAProxy runs
    unsaved,     \* a Reconcile succeeded and its state is still to be saved
    pc,          \* of systemd: "up", "read", "parse", "rewrite", "load"
    got,         \* content: the config as it was read
    entries,     \* serversByBackend
    synced,      \* the last sync succeeded
    saved,       \* observer: the servers that are in the state file
    quiet,       \* observer: since nobody else writes the files, no sync has begun,
                 \* one has, or one has succeeded
    restarts, edits

files == <<config, stateFile>>
syncVars == <<got, entries, synced>>
vars == <<layout, files, running, alive, unsaved, pc, syncVars, saved, quiet, restarts, edits>>
----------------------------------------------------------------------------
(* Configs.                                                                *)

LinesOf(lines, kinds) == {i \in DOMAIN lines : lines[i].kind \in kinds}

\* The marker line after line i, 0 if there is none.
NextMarker(lines, i) ==
    LET later == {j \in LinesOf(lines, {"begin", "end"}) : j > i}
    IN  IF later = {} THEN 0 ELSE CHOOSE j \in later : \A k \in later : j <= k

\* A marker without a backend, or a block that is not closed before the next
\* one begins.
Malformed(lines) ==
    \E i \in LinesOf(lines, {"begin"}) :
        \/ lines[i].name = NoName
        \/ NextMarker(lines, i) \notin LinesOf(lines, {"end"})

InBlock(lines, i) ==
    \E b \in LinesOf(lines, {"begin"}) : b < i /\ i < NextMarker(lines, b)

\* haproxyServerStateBlocksPresent
BlocksPresent(lines) == LinesOf(lines, {"begin"}) # {}

Entry(s) == Line("server", s.name, s.addr, s.port)

\* Mutant: what the block had before stays.
RewriteKeepsBlocks(lines, byBackend) ==
    FlattenSeq([i \in DOMAIN lines |->
        IF lines[i].kind = "begin"
        THEN <<lines[i]>> \o [k \in DOMAIN byBackend[lines[i].name] |->
                                 Entry(byBackend[lines[i].name][k])]
        ELSE <<lines[i]>>])

\* Mutant: the line after an end marker is skipped with the block.
RewriteSkipsOneMore(lines, byBackend) ==
    FlattenSeq([i \in DOMAIN lines |->
        IF lines[i].kind = "begin"
        THEN <<lines[i]>> \o [k \in DOMAIN byBackend[lines[i].name] |->
                                 Entry(byBackend[lines[i].name][k])]
        ELSE IF InBlock(lines, i) \/ (i > 1 /\ lines[i - 1].kind = "end")
        THEN <<>> ELSE <<lines[i]>>])

\* rewriteServerStateConfigBlocks, for a config that is not malformed
Rewrite(lines, byBackend) ==
    FlattenSeq([i \in DOMAIN lines |->
        IF lines[i].kind = "begin"
        THEN <<lines[i]>> \o [k \in DOMAIN byBackend[lines[i].name] |->
                                 Entry(byBackend[lines[i].name][k])]
        ELSE IF InBlock(lines, i) THEN <<>> ELSE <<lines[i]>>])
----------------------------------------------------------------------------
(* State files.                                                            *)

\* The index of a column: as in version 1, unless the header says otherwise.
DefaultOrder == <<"be_name", "srv_name", "srv_addr", "srv_port">>
IndexOfColumn(header, c) ==
    LET order == IF c \in ToSet(header) THEN header ELSE DefaultOrder
    IN  CHOOSE i \in DOMAIN order : order[i] = c

UsablePorts == 1 .. 65535

\* Mutant: slots that wait for an address are taken for servers.
UsableSlots(file, row) ==
    LET at(c) == IndexOfColumn(file.header, c)
    IN  \A c \in Columns : at(c) <= Len(row)

\* The rows with an address and a port; short ones are skipped.
Usable(file, row) ==
    LET at(c) == IndexOfColumn(file.header, c)
    IN  /\ \A c \in Columns : at(c) <= Len(row)
        /\ row[at("srv_addr")] # NoAddress
        /\ row[at("srv_port")] \in UsablePorts

\* Mutant: the columns are taken to be in the usual order.
ParseByPosition(file) ==
    [b \in Backends |->
        LET rows == SelectSeq(file.rows, LAMBDA row : Len(row) >= 4 /\ row[1] = b
                                                      /\ row[3] # NoAddress)
        IN  [k \in DOMAIN rows |-> [name |-> rows[k][2], addr |-> rows[k][3],
                                    port |-> rows[k][4]]]]

\* parseServerStateFileByBackend, for a file of version 1
Parse(file) ==
    LET field(row, c) == row[IndexOfColumn(file.header, c)]
        server(row) == [name |-> field(row, "srv_name"), addr |-> field(row, "srv_addr"),
                        port |-> field(row, "srv_port")]
    IN  [b \in Backends |->
            FlattenSeq([k \in DOMAIN file.rows |->
                IF Usable(file, file.rows[k]) /\ field(file.rows[k], "be_name") = b
                THEN <<server(file.rows[k])>> ELSE <<>>])]
NoEntries == [b \in Backends |-> <<>>]

\* "show servers state"
Show(servers) ==
    LET pairs == SetToSeq(UNION {{b} \X servers[b] : b \in Backends})
        field(b, s, c) == CASE c = "be_name" -> b
                            [] c = "srv_name" -> s.name
                            [] c = "srv_addr" -> s.addr
                            [] c = "srv_port" -> s.port
                            [] OTHER -> NoName
    IN  [version |-> 1, header |-> layout,
         rows |-> [k \in DOMAIN pairs |->
                     [i \in DOMAIN layout |-> field(pairs[k][1], pairs[k][2], layout[i])]]]
----------------------------------------------------------------------------
(* HAProxy and the gateway.                                                *)

NoServers == [b \in Backends |-> {}]

\* The backend a line belongs to.
Section(lines, i) ==
    LET heads == {j \in LinesOf(lines, {"backend"}) : j <= i}
    IN  IF heads = {} THEN NoName
        ELSE lines[CHOOSE j \in heads : \A k \in heads : k <= j].name

\* The servers a config has for a backend, slots of server templates included.
Configured(lines, b) ==
    {[name |-> lines[i].name, addr |-> lines[i].addr, port |-> lines[i].port] :
        i \in {i \in LinesOf(lines, {"server", "slot"}) : Section(lines, i) = b}}

Slots(servers) == {s \in servers : s.addr = NoAddress}

----------------------------------------------------------------------------
(* What others write.                                                      *)

\* The servers and slots of a config have names HAProxy knows.
Authored(lines) ==
    /\ lines \in Seq(LineType)
    /\ \A i \in LinesOf(lines, {"begin"}) : lines[i].name \in Backends \cup {NoName}
    /\ \A i \in LinesOf(lines, {"server", "slot"}) : lines[i].name \in ServerNames
ASSUME TemplatesAssumption == \A t \in Templates : Authored(t)

\* A slot is no server, a name is not used twice in a backend, and all server
\* lines of a backend with a block are in it.
SlotNames == UNION {{t[i].name : i \in LinesOf(t, {"slot"})} : t \in Templates}
Loadable(lines) ==
    /\ \A i \in LinesOf(lines, {"server", "slot"}) :
          /\ lines[i].kind = "slot" <=> lines[i].name \in SlotNames
          /\ lines[i].kind = "slot" <=> lines[i].addr = NoAddress
          /\ \A j \in LinesOf(lines, {"server", "slot"}) :
                lines[i].name = lines[j].name /\ Section(lines, i) = Section(lines, j) => i = j
    /\ ~Malformed(lines) =>
          /\ \A i \in LinesOf(lines, {"backend"}) : ~InBlock(lines, i)
          /\ \A b \in LinesOf(lines, {"begin"}) :
                /\ Section(lines, b) = lines[b].name
                /\ \A i \in LinesOf(lines, {"begin", "server"}) :
                      Section(lines, i) = lines[b].name => i = b \/ InBlock(lines, i)
ASSUME LoadableAssumption == \A t \in Templates : Loadable(t)

\* A usable row of a state file has the name and the address of a server in their
\* columns.
Fields == Backends \cup ServerNames \cup Addresses \cup {NoName, NoAddress} \cup Ports
Readable(file) ==
    /\ file.rows \in Seq(Seq(Fields))
    /\ \A row \in ToSet(file.rows) : Usable(file, row) =>
          /\ row[IndexOfColumn(file.header, "srv_name")] \in ServerNames
          /\ row[IndexOfColumn(file.header, "srv_addr")] \in Addresses \cup {NoAddress}
ASSUME OddFilesAssumption == \A f \in OddFiles : Readable(f)
ASSUME NoFileAssumption ==
    NoFile \notin [version : {1}, header : Layouts, rows : Seq(Seq(Fields))]

\* What is not HAProxy's state has no server, whatever is written to it.
ASSUME NoServersAssumption ==
    \A f \in OddFiles : f.version = 1 => \A row \in ToSet(f.rows) : ~Usable(f, row)

\* HAProxy's "add server" refuses a name that is taken, by a slot too.
ASSUME ReconciledAssumption ==
    \A r \in Reconciled :
       /\ r \in [Backends -> SUBSET ServerType]
       /\ \A b \in Backends :
             /\ IsFiniteSet(r[b])
             /\ \A s \in r[b] :
                   /\ s.addr # NoAddress /\ s.name \notin SlotNames
                   /\ \A other \in r[b] : s.name = other.name => s = other
----------------------------------------------------------------------------
(* Steps of HAProxy and the gateway.                                       *)

Init ==
    /\ layout \in Layouts
    /\ config \in Templates /\ stateFile = NoFile
    /\ running = NoServers /\ alive = FALSE /\ unsaved = FALSE
    /\ pc = "read" /\ got = <<>> /\ entries = NoEntries /\ synced = FALSE
    /\ saved = NoServers /\ quiet = "none" /\ restarts = 0 /\ edits = 0

SystemdFrame == UNCHANGED <<layout, pc, syncVars, restarts>>

\* ReconcileAllBackends succeeds: a slot is a stale server like any other, but a
\* backend without hosts is skipped and keeps its slots.
Reconcile ==
    /\ alive /\ ~unsaved
    /\ \E r \in Reconciled :
          running' = [b \in Backends |-> IF r[b] = {} THEN Slots(running[b]) ELSE r[b]]
    /\ unsaved' = TRUE
    /\ UNCHANGED <<files, alive, saved, quiet, edits>> /\ SystemdFrame

\* writeGlobalServerStateFile; by now HAProxy may have been restarted.
SaveState ==
    /\ unsaved /\ unsaved' = FALSE
    /\ \/ /\ alive
          /\ stateFile' = Show(running) /\ saved' = running /\ quiet' = "none"
       \/ UNCHANGED <<stateFile, saved, quiet>>
    /\ UNCHANGED <<config, running, alive, edits>> /\ SystemdFrame

\* An operator, or the worker when it renders the config, replaces one of the
\* files.
Edit ==
    /\ edits < MaxEdits /\ edits' = edits + 1 /\ quiet' = "none"
    /\ \/ config' \in Templates /\ UNCHANGED <<stateFile, saved>>
       \/ stateFile' \in OddFiles /\ saved' = NoServers /\ UNCHANGED config
    /\ UNCHANGED <<running, alive, unsaved>> /\ SystemdFrame
----------------------------------------------------------------------------
(* systemd starts or reloads HAProxy, ExecStartPre and ExecReload first.   *)

GatewayFrame == UNCHANGED <<layout, unsaved, saved, edits>>

\* HAProxy serves on while it is reloaded.
Restart ==
    /\ pc = "up" /\ restarts < MaxRestarts /\ restarts' = restarts + 1
    /\ \/ alive' = FALSE /\ running' = NoServers
       \/ UNCHANGED <<alive, running>>
    /\ pc' = "read" /\ synced' = FALSE
    /\ UNCHANGED <<files, got, entries, quiet>> /\ GatewayFrame

SyncFrame == UNCHANGED <<stateFile, running, alive, restarts>> /\ GatewayFrame

\* HAProxy is started all the same.
SyncFails == /\ pc' = "load" /\ got' = <<>> /\ entries' = NoEntries
             /\ UNCHANGED <<config, synced, quiet>>

ReadConfig ==
    /\ pc = "read"
    /\ pc' = "parse" /\ got' = config
    /\ quiet' = IF quiet = "none" THEN "begun" ELSE quiet
    /\ UNCHANGED <<config, entries, synced>> /\ SyncFrame

ReadFails == pc = "read" /\ SyncFails /\ SyncFrame

\* Without a state file the blocks are emptied.
ParseStateFile ==
    /\ pc = "parse"
    /\ IF stateFile # NoFile /\ stateFile.version # 1
       THEN SyncFails
       ELSE /\ entries' = IF stateFile = NoFile THEN NoEntries ELSE Parse(stateFile)
            /\ pc' = "rewrite"
            /\ UNCHANGED <<config, got, synced, quiet>>
    /\ SyncFrame

\* A config is written only if it differs.
WriteConfig ==
    /\ pc = "rewrite"
    /\ IF Malformed(got) \/ ~BlocksPresent(got)
       THEN SyncFails
       ELSE /\ config' = IF Rewrite(got, entries) = got THEN config ELSE Rewrite(got, entries)
            /\ synced' = TRUE /\ quiet' = IF quiet = "none" THEN "none" ELSE "synced"
            /\ pc' = "load" /\ got' = <<>> /\ entries' = NoEntries
    /\ SyncFrame

WriteFails == pc = "rewrite" /\ SyncFails /\ SyncFrame

\* HAProxy has the servers of its config, in the state that the file has for them.
Load ==
    /\ pc = "load" /\ pc' = "up" /\ alive' = TRUE
    /\ running' = [b \in Backends |->
          {IF \E s \in saved[b] : s.name = c.name
           THEN CHOOSE s \in saved[b] : s.name = c.name ELSE c : c \in Configured(config, b)}]
    /\ UNCHANGED <<files, syncVars, quiet, restarts>> /\ GatewayFrame

SyncNext == ReadConfig \/ ReadFails \/ ParseStateFile \/ WriteConfig \/ WriteFails

Next == Reconcile \/ SaveState \/ Edit \/ Restart \/ SyncNext \/ Load

Spec == Init /\ [][Next]_vars
----------------------------------------------------------------------------
(* Correctness.                                                            *)

\* Also: what a sync takes from the state file HAProxy can read as server lines,
\* each has an address and a port.
TypeOK ==
    /\ layout \in Layouts /\ pc \in {"up", "read", "parse", "rewrite", "load"}
    /\ alive \in BOOLEAN /\ unsaved \in BOOLEAN /\ synced \in BOOLEAN
    /\ running \in [Backends -> SUBSET ServerType] /\ saved \in [Backends -> SUBSET ServerType]
    /\ entries \in [Backends -> Seq([name : ServerNames, addr : Addresses, port : UsablePorts])]
    /\ (pc = "up" => alive) /\ quiet \in {"none", "begun", "synced"}
    /\ restarts \in 0 .. MaxRestarts /\ edits \in 0 .. MaxEdits

HasBlock(lines, b) == \E i \in LinesOf(lines, {"begin"}) : lines[i].name = b
UsableServers(set) == {s \in set : s.addr # NoAddress /\ s.port # 0}

\* src/README.md:224: the block population lets "load-server-state-from-file"
\* succeed.  When a sync succeeded and the files stayed as they were, a restarted
\* HAProxy has exactly the saved servers with an address and a port in each
\* backend that has a block (and no server lines outside it), whatever the columns
\* of the state file and the old content of the blocks.
RestartKeepsServers ==
    [][pc = "load" /\ synced /\ quiet = "synced" /\ pc' = "up" =>
          \A b \in Backends : HasBlock(config, b) =>
              UsableServers(running'[b]) = UsableServers(saved[b])]_vars

\* haproxy_config_state_blocks.go:113 says "Lines outside the markers are
\* preserved verbatim": a sync that no edit overtakes changes nothing outside the
\* blocks, the markers included, so that the next sync finds the same blocks.
OutsideBlocks(lines) ==
    FlattenSeq([i \in DOMAIN lines |-> IF InBlock(lines, i) THEN <<>> ELSE <<lines[i]>>])
LinesPreserved ==
    [][pc = "rewrite" /\ pc' # pc /\ got = config =>
          OutsideBlocks(config') = OutsideBlocks(config)]_vars

\* Once a sync succeeded, another one that finds the files as they were does not
\* write: restarts do not make the blocks grow.
SyncSettles == [][quiet = "synced" /\ edits' = edits => config' = config]_vars

\* HAProxy refuses a backend with two servers of one name: a sync makes none, as
\* long as a backend with a block has no other server lines.
DistinctServers ==
    \A i, j \in LinesOf(config, {"server"}) :
        config[i].name = config[j].name /\ Section(config, i) = Section(config, j) => i = j
=============================================================================

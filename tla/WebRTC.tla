------------------------------- MODULE WebRTC -------------------------------
(***************************************************************************)
(* WebRTC services of one namespace: EnableWebRTC, DisableWebRTC, the      *)
(* stealth mode, and what a restarted node makes of its state file         *)
(* (restoreClusterFromState, restoreClusterOnNode). One SFU per node, TURN *)
(* servers on some of them, gateways that hand out credentials made from   *)
(* the TURN secret.                                                        *)
(*                                                                         *)
(* A call is a program of steps, each a statement on the tables or a       *)
(* request to a node; calls of different managers interleave step by step. *)
(* Each enabling makes a new secret, a number; the ports it allocates are  *)
(* named after it. Rooms, certificates and firewall rules are left out.    *)
(***************************************************************************)
EXTENDS Integers, FiniteSets, Sequences

CONSTANTS NodeCount,    \* nodes of the cluster (3 in the code)
          TurnCount,    \* DefaultTURNNodeCount (2 in the code)
          MaxSecrets,   \* bound: calls of EnableWebRTC
          MaxCalls,     \* bound: calls
          MaxFailures,  \* bound: failing statements and requests
          MaxCrashes,   \* bound: crashes of nodes
          MaxRewrites   \* bound: repairs that rewrite the state files

ASSUME WebRTCAssumption ==
    /\ NodeCount \in Nat \ {0}
    /\ TurnCount \in 1 .. NodeCount
    /\ {MaxSecrets, MaxCalls, MaxFailures, MaxCrashes, MaxRewrites} \subseteq Nat

None == 0
Nodes == 1 .. NodeCount         \* in the order of the query
Secrets == 0 .. MaxSecrets

VARIABLES
    config, stealth,        \* namespace_webrtc_config: the secret, stealth_enabled
    next,                   \* the next random secret
    rows,                   \* webrtc_port_allocations: per service and node
    turnDNS, stealthDNS,    \* dns_records
    sfu, turn, gateway,     \* per node, the configuration a unit runs with
    file,                   \* per node, cluster-state.json
    up,                     \* nodes whose process runs
    call,                   \* per manager, the call it executes
    restore,                \* per node, the restore after a restart
    calls, failures, crashes, rewrites,
    noise                   \* history: what disturbed the system

tables == <<config, stealth, next, rows, turnDNS, stealthDNS>>
units == <<sfu, turn, gateway>>
counters == <<calls, failures, crashes, rewrites>>
vars == <<tables, units, file, up, call, restore, counters, noise>>

NoBlocks == [n \in Nodes |-> None]
NoSFU == [sec |-> None, port |-> None, media |-> None]
NoTURN == [sec |-> None, port |-> None, stealth |-> FALSE]
Plain == [run |-> TRUE, sec |-> None, sfu |-> None, stealth |-> FALSE]
Down == [Plain EXCEPT !.run = FALSE]
NoFile == [here |-> FALSE, sec |-> None, sig |-> None, media |-> None, relay |-> None, stealth |-> FALSE]
PlainFile == [NoFile EXCEPT !.here = TRUE]
NoCall == [op |-> "none", k |-> 0, todo |-> {}, sec |-> None, on |-> {},
           sfu |-> NoBlocks, turn |-> NoBlocks, cut |-> FALSE]
NoRestore == [pc |-> "idle", known |-> FALSE, save |-> FALSE, st |-> NoFile]

\* A provisioned cluster: provisioning does not save state files.
Init ==
    /\ config = None /\ stealth = FALSE /\ next = 1
    /\ rows = [sfu |-> NoBlocks, turn |-> NoBlocks]
    /\ turnDNS = {} /\ stealthDNS = {}
    /\ sfu = [n \in Nodes |-> NoSFU] /\ turn = [n \in Nodes |-> NoTURN]
    /\ gateway = [n \in Nodes |-> Plain]
    /\ file = [n \in Nodes |-> NoFile]
    /\ up = Nodes
    /\ call = [n \in Nodes |-> NoCall] /\ restore = [n \in Nodes |-> NoRestore]
    /\ calls = 0 /\ failures = 0 /\ crashes = 0 /\ rewrites = 0
    /\ noise = {}

-----------------------------------------------------------------------------
(* Programs. *)

Program == [
    none |-> <<>>,
    enable |-> <<"insert", "nodes", "sfu_ports", "select", "turn_ports", "ports", "turn",
                 "sfu", "clear_dns", "dns", "files", "gateways">>,
    cleanup |-> <<"stop_both", "free", "delete">>,
    disable |-> <<"nodes", "stop_sfu", "read_turn", "stop_turn", "free", "clear_dns",
                  "clear_stealth", "delete", "files", "gateways">>,
    stealth_on |-> <<"nodes", "clear_stealth", "stealth_dns", "flag", "respawn", "blocks",
                     "files", "gateways">>,
    rollback |-> <<"flag", "clear_stealth">>,
    stealth_off |-> <<"nodes", "flag", "respawn", "clear_stealth", "blocks", "files",
                      "gateways">>]

OverAll == {"sfu_ports", "sfu", "stop_sfu", "stop_both", "files", "gateways"}
OverTURN == {"turn_ports", "turn", "dns", "stop_turn", "stealth_dns", "respawn"}

\* What an error does; elsewhere it is logged.
Returns == {<<"enable", "insert">>, <<"enable", "nodes">>, <<"disable", "nodes">>,
            <<"stealth_on", "nodes">>, <<"stealth_on", "stealth_dns">>, <<"stealth_on", "flag">>,
            <<"stealth_off", "nodes">>, <<"stealth_off", "flag">>, <<"stealth_off", "respawn">>}

CleansUp == {<<"enable", s>> : s \in {"sfu_ports", "turn_ports", "ports", "turn", "sfu", "dns"}}

\* Mutant: a server that does not come back is logged.
RollsBackNever == {}

RollsBack == {<<"stealth_on", "respawn">>}

Step(p) == Program[call[p].op][call[p].k]
At(p, s) == call[p].op # "none" /\ Step(p) = s
First(S) == CHOOSE n \in S : \A m \in S : n <= m
Node(p) == First(call[p].todo)

Enter(c, k) ==
    [c EXCEPT !.k = k, !.todo = CASE Program[c.op][k] \in OverAll -> Nodes
                                  [] Program[c.op][k] \in OverTURN -> c.on
                                  [] OTHER -> {}]

\* The next step that has something to do.
Follow(c) ==
    LET later == {k \in c.k + 1 .. Len(Program[c.op]) :
                     Program[c.op][k] \in OverTURN => c.on # {}}
    IN  IF later = {} THEN NoCall ELSE Enter(c, First(later))

Proceed(c) ==
    IF Cardinality(c.todo) > 1 THEN [c EXCEPT !.todo = @ \ {First(@)}] ELSE Follow(c)

Fail(c) ==
    LET here == <<c.op, Program[c.op][c.k]>> IN
    CASE here \in Returns -> NoCall
      [] here \in CleansUp -> Enter([c EXCEPT !.op = "cleanup"], 1)
      [] here \in RollsBack -> Enter([c EXCEPT !.op = "rollback"], 1)
      [] OTHER -> Proceed(c)

Goes(p, c) == call' = [call EXCEPT ![p] = Proceed(c)]
Fails(p) == call' = [call EXCEPT ![p] = Fail(call[p])]

-----------------------------------------------------------------------------
(* Failures. *)

Refused(must) ==
    /\ IF must THEN UNCHANGED failures
               ELSE failures < MaxFailures /\ failures' = failures + 1
    /\ UNCHANGED <<calls, crashes, rewrites>>

Works == UNCHANGED counters
Note(what, when) == noise' = IF when THEN noise \cup {what} ELSE noise
Fine == UNCHANGED noise

Quiet == \A n \in Nodes : call[n] = NoCall /\ restore[n] = NoRestore

\* Another task is under way; a call that has yet to insert its row is none.
Overlap(p) == \E n \in Nodes : \/ restore[n] # NoRestore
                               \/ n # p /\ call[n] # NoCall /\ ~At(n, "insert")

\* The calls run under the context of the request: once the client is gone
\* statements and remote requests fail, the clean-up's too.
Reaches(p, n) == n = p \/ (n \in up /\ ~call[p].cut)

\* A statement on the tables succeeds, or fails and changes nothing.
Stated(p) == ~call[p].cut /\ Works /\ Fine
Lost(p, what) == Refused(call[p].cut) /\ UNCHANGED tables /\ Note(what, TRUE) /\ Fails(p)

CallVars == <<up, restore>>

-----------------------------------------------------------------------------
(* Calls. *)

Allowed(op) ==
    CASE op = "enable" -> config = None /\ next <= MaxSecrets
      [] op = "disable" -> config # None
      [] op = "stealth_on" -> config # None /\ ~stealth
      [] op = "stealth_off" -> config # None /\ stealth

\* The checks and reads at the beginning of a call.
Begin(p, op) ==
    /\ p \in up /\ call[p] = NoCall /\ calls < MaxCalls
    /\ Allowed(op)
    /\ call' = [call EXCEPT ![p] = Enter([NoCall EXCEPT !.op = op,
            !.sec = CASE op = "enable" -> next [] op = "disable" -> None [] OTHER -> config], 1)]
    /\ next' = IF op = "enable" THEN next + 1 ELSE next
    /\ calls' = calls + 1
    /\ noise' = IF op = "disable" /\ noise # {} /\ ~Overlap(p) THEN {"healed"}
                ELSE IF Overlap(p) THEN noise \cup {"overlap"} ELSE noise
    /\ UNCHANGED <<CallVars, config, stealth, rows, turnDNS, stealthDNS, units, file,
                   failures, crashes, rewrites>>

\* UNIQUE(namespace_cluster_id); the row may be there although the insert failed.
Insert(p) ==
    /\ At(p, "insert")
    /\ LET row == config' = call[p].sec /\ stealth' = FALSE
                  /\ UNCHANGED <<next, rows, turnDNS, stealthDNS>> IN
       \/ ~call[p].cut /\ config = None /\ Works /\ Note("overlap", Overlap(p))
          /\ row /\ Goes(p, call[p])
       \/ config # None /\ Works /\ Fine /\ Fails(p) /\ UNCHANGED tables
       \/ config = None /\ Lost(p, "lost")
       \/ config = None /\ ~call[p].cut /\ Refused(FALSE) /\ Note("lost", TRUE)
          /\ row /\ Fails(p)
    /\ UNCHANGED <<CallVars, units, file>>

\* The nodes of the cluster and, for the stealth calls, the TURN blocks.
ReadNodes(p) ==
    /\ At(p, "nodes")
    /\ LET on == {n \in Nodes : rows.turn[n] # None}
           read == [call[p] EXCEPT !.turn = rows.turn, !.on = on]
       IN
       \/ /\ Stated(p) /\ UNCHANGED tables
          /\ IF call[p].op \in {"enable", "disable"} THEN Goes(p, call[p])
             ELSE IF call[p].op = "stealth_on" /\ on = {} THEN Fails(p)
             ELSE Goes(p, read)
       \/ Lost(p, "lost")
    /\ UNCHANGED <<CallVars, units, file>>

\* AllocateSFUPorts and AllocateTURNPorts: an existing block is returned.
Allocate(p, s, kind) ==
    /\ At(p, s)
    /\ LET n == Node(p)
           block == IF rows[kind][n] # None THEN rows[kind][n] ELSE call[p].sec
       IN
       \/ /\ Stated(p)
          /\ rows' = [rows EXCEPT ![kind][n] = block]
          /\ UNCHANGED <<config, stealth, next, turnDNS, stealthDNS>>
          /\ Goes(p, IF kind = "sfu" THEN [call[p] EXCEPT !.sfu[n] = block]
                                     ELSE [call[p] EXCEPT !.turn[n] = block])
       \/ Refused(call[p].cut) /\ UNCHANGED tables /\ Fine /\ Fails(p)
    /\ UNCHANGED <<CallVars, units, file>>

\* selectTURNNodes prefers nodes without TURN of any namespace: any nodes.
SelectTURNNodes(p) ==
    /\ At(p, "select")
    /\ \E on \in SUBSET Nodes :
          /\ Cardinality(on) = TurnCount
          /\ Goes(p, [call[p] EXCEPT !.on = on])
    /\ Works /\ Fine
    /\ UNCHANGED <<CallVars, tables, units, file>>

\* GetAllPortBlocks, before anything is started.
ReadPorts(p) ==
    /\ At(p, "ports")
    /\ \/ Stated(p) /\ Goes(p, call[p])
       \/ Refused(call[p].cut) /\ Fine /\ Fails(p)
    /\ UNCHANGED <<CallVars, tables, units, file>>

\* systemctl start: a unit that runs keeps its configuration.
Started(unit, n, cfg) == [unit EXCEPT ![n] = IF @.sec = None THEN cfg ELSE @]

\* A request may fail although the unit comes up.
SpawnTURN(p) ==
    /\ At(p, "turn")
    /\ LET n == Node(p)
           cfg == [sec |-> call[p].sec, port |-> call[p].turn[n], stealth |-> FALSE]
       IN
       \/ Reaches(p, n) /\ Works /\ Fine /\ turn' = Started(turn, n, cfg) /\ Goes(p, call[p])
       \/ Refused(~Reaches(p, n)) /\ Fine /\ UNCHANGED turn /\ Fails(p)
       \/ n \in up /\ Refused(FALSE) /\ Note("lost", TRUE) /\ turn' = Started(turn, n, cfg) /\ Fails(p)
    /\ UNCHANGED <<CallVars, tables, sfu, gateway, file>>

SpawnSFU(p) ==
    /\ At(p, "sfu")
    /\ LET n == Node(p)
           cfg == [sec |-> call[p].sec, port |-> call[p].sfu[n], media |-> call[p].sfu[n]]
       IN
       \/ Reaches(p, n) /\ Works /\ Fine /\ sfu' = Started(sfu, n, cfg) /\ Goes(p, call[p])
       \/ Refused(~Reaches(p, n)) /\ Fine /\ UNCHANGED sfu /\ Fails(p)
       \/ n \in up /\ Refused(FALSE) /\ Note("lost", TRUE) /\ sfu' = Started(sfu, n, cfg) /\ Fails(p)
    /\ UNCHANGED <<CallVars, tables, turn, gateway, file>>

\* A stop that does not arrive is dropped; the unit of a node whose process
\* restarts goes on running.
StopSFU(p) ==
    /\ At(p, "stop_sfu")
    /\ LET n == Node(p) IN
       \/ Reaches(p, n) /\ Works /\ Fine /\ sfu' = [sfu EXCEPT ![n] = NoSFU]
       \/ Refused(~Reaches(p, n)) /\ Note("lost", sfu[n] # NoSFU) /\ UNCHANGED sfu
    /\ Goes(p, call[p])
    /\ UNCHANGED <<CallVars, tables, turn, gateway, file>>

\* Without the blocks no TURN server is stopped.
ReadTURN(p) ==
    /\ At(p, "read_turn")
    /\ \/ Stated(p) /\ UNCHANGED tables
          /\ Goes(p, [call[p] EXCEPT !.on = {n \in Nodes : rows.turn[n] # None}])
       \/ Lost(p, "lost")
    /\ UNCHANGED <<CallVars, units, file>>

StopTURN(p) ==
    /\ At(p, "stop_turn")
    /\ LET n == Node(p) IN
       \/ Reaches(p, n) /\ Works /\ Fine /\ turn' = [turn EXCEPT ![n] = NoTURN]
       \/ Refused(~Reaches(p, n)) /\ Note("lost", turn[n] # NoTURN) /\ UNCHANGED turn
    /\ Goes(p, call[p])
    /\ UNCHANGED <<CallVars, tables, sfu, gateway, file>>

\* cleanupWebRTCOnError stops both kinds on every node.
StopBoth(p) ==
    /\ At(p, "stop_both")
    /\ LET n == Node(p) IN
       \/ /\ Reaches(p, n) /\ Works /\ Fine
          /\ sfu' = [sfu EXCEPT ![n] = NoSFU] /\ turn' = [turn EXCEPT ![n] = NoTURN]
       \/ /\ Refused(~Reaches(p, n))
          /\ Note("lost", sfu[n] # NoSFU \/ turn[n] # NoTURN)
          /\ UNCHANGED <<sfu, turn>>
    /\ Goes(p, call[p])
    /\ UNCHANGED <<CallVars, tables, gateway, file>>

\* Mutant: only the SFU blocks are released.
DeallocateSFU(p) ==
    /\ At(p, "free")
    /\ \/ /\ Stated(p) /\ rows' = [rows EXCEPT !.sfu = NoBlocks]
          /\ UNCHANGED <<config, stealth, next, turnDNS, stealthDNS>>
          /\ Goes(p, call[p])
       \/ Lost(p, "lost")
    /\ UNCHANGED <<CallVars, units, file>>

DeallocateAll(p) ==
    /\ At(p, "free")
    /\ \/ /\ Stated(p) /\ rows' = [sfu |-> NoBlocks, turn |-> NoBlocks]
          /\ UNCHANGED <<config, stealth, next, turnDNS, stealthDNS>>
          /\ Goes(p, call[p])
       \/ Lost(p, "lost")
    /\ UNCHANGED <<CallVars, units, file>>

DeleteConfig(p) ==
    /\ At(p, "delete")
    /\ \/ /\ Stated(p) /\ config' = None /\ stealth' = FALSE
          /\ UNCHANGED <<next, rows, turnDNS, stealthDNS>>
          /\ Goes(p, call[p])
       \/ Lost(p, "lost")
    /\ UNCHANGED <<CallVars, units, file>>

\* DeleteTURNRecords, and the first statement of CreateTURNRecords.
ClearDNS(p) ==
    /\ At(p, "clear_dns")
    /\ \/ /\ Stated(p) /\ turnDNS' = {}
          /\ UNCHANGED <<config, stealth, next, rows, stealthDNS>>
          /\ Goes(p, call[p])
       \/ Lost(p, "lost")
    /\ UNCHANGED <<CallVars, units, file>>

\* One insert per server; the clean-up does not delete what was inserted.
CreateTURNRecords(p) ==
    /\ At(p, "dns")
    /\ \/ /\ Stated(p) /\ Node(p) \notin turnDNS
          /\ turnDNS' = turnDNS \cup {Node(p)}
          /\ UNCHANGED <<config, stealth, next, rows, stealthDNS>>
          /\ Goes(p, call[p])
       \/ /\ Refused(call[p].cut \/ Node(p) \in turnDNS)
          /\ Note("lost", turnDNS # {}) /\ UNCHANGED tables /\ Fails(p)
    /\ UNCHANGED <<CallVars, units, file>>

ClearStealth(p) ==
    /\ At(p, "clear_stealth")
    /\ \/ /\ Stated(p) /\ stealthDNS' = {}
          /\ UNCHANGED <<config, stealth, next, rows, turnDNS>>
          /\ Goes(p, call[p])
       \/ Lost(p, "lost")
    /\ UNCHANGED <<CallVars, units, file>>

\* An insert that fails leaves the records before it.
CreateStealthRecords(p) ==
    /\ At(p, "stealth_dns")
    /\ \/ /\ Stated(p) /\ Node(p) \notin stealthDNS
          /\ stealthDNS' = stealthDNS \cup {Node(p)}
          /\ UNCHANGED <<config, stealth, next, rows, turnDNS>>
          /\ Goes(p, call[p])
       \/ /\ Refused(call[p].cut \/ Node(p) \in stealthDNS)
          /\ Note("lost", stealthDNS # {}) /\ UNCHANGED tables /\ Fails(p)
    /\ UNCHANGED <<CallVars, units, file>>

Wanted(p) == call[p].op = "stealth_on"

\* UPDATE ... WHERE enabled = 1: no row, no effect.
SetStealthEnabled(p) ==
    /\ At(p, "flag")
    /\ \/ /\ Stated(p) /\ stealth' = (Wanted(p) /\ config # None)
          /\ UNCHANGED <<config, next, rows, turnDNS, stealthDNS>>
          /\ Goes(p, call[p])
       \/ Lost(p, "lost")
    /\ UNCHANGED <<CallVars, units, file>>

\* Stop and start; a failure leaves the server stopped or as it was.
Respawn(p) ==
    /\ At(p, "respawn")
    /\ LET n == Node(p)
           cfg == [sec |-> call[p].sec, port |-> call[p].turn[n], stealth |-> Wanted(p)]
       IN
       \/ Reaches(p, n) /\ Works /\ Fine /\ turn' = [turn EXCEPT ![n] = cfg] /\ Goes(p, call[p])
       \/ /\ Refused(~Reaches(p, n))
          /\ Note(IF Wanted(p) THEN "respawn" ELSE "respawn_off", TRUE)
          /\ \/ UNCHANGED turn
             \/ n \in up /\ turn' = [turn EXCEPT ![n] = NoTURN]
          /\ Fails(p)
    /\ UNCHANGED <<CallVars, tables, sfu, gateway, file>>

\* The blocks for the files, by two queries; an error counts as no blocks.
ReadBlocks(p) ==
    /\ At(p, "blocks")
    /\ \E read \in SUBSET {"sfu", "turn"} :
          /\ \/ read = {"sfu", "turn"} /\ Stated(p)
             \/ read # {"sfu", "turn"} /\ Refused(call[p].cut) /\ Note("lost", TRUE)
          /\ Goes(p, [call[p] EXCEPT !.sfu = IF "sfu" \in read THEN rows.sfu ELSE NoBlocks,
                                     !.turn = IF "turn" \in read THEN rows.turn ELSE NoBlocks])
    /\ UNCHANGED <<CallVars, tables, units, file>>

\* Mutant: the file gets a secret of its own.
StateNewSecret(p, n) ==
    LET c == call[p] IN
    [here |-> TRUE, sec |-> next, sig |-> c.sfu[n], media |-> c.sfu[n],
     relay |-> c.turn[n], stealth |-> Wanted(p)]

\* updateClusterStateWithWebRTC: the calls that clear it have no blocks.
State(p, n) ==
    LET c == call[p] IN
    [here |-> TRUE, sec |-> c.sec, sig |-> c.sfu[n], media |-> c.sfu[n],
     relay |-> c.turn[n], stealth |-> Wanted(p)]

SaveState(p) ==
    /\ At(p, "files")
    /\ LET n == Node(p) IN
       \/ /\ Reaches(p, n) /\ Works /\ Fine
          /\ file' = [file EXCEPT ![n] = State(p, n)] /\ Goes(p, call[p])
       \/ /\ Refused(~Reaches(p, n)) /\ Note("lost", n \in up \/ call[p].op = "enable")
          /\ UNCHANGED file /\ Goes(p, call[p])
       \/ /\ call[p].todo = Nodes /\ Refused(call[p].cut) /\ Note("lost", TRUE)
          /\ UNCHANGED file /\ call' = [call EXCEPT ![p] = Follow(@)]
    /\ UNCHANGED <<CallVars, tables, units>>

Gateway(p, n) ==
    [run |-> TRUE, sec |-> call[p].sec, sfu |-> call[p].sfu[n], stealth |-> Wanted(p)]

\* RestartGateway: stop, then start; an error is logged. Only EnableWebRTC has
\* the port blocks at hand: without them no gateway is restarted.
RestartGateway(p) ==
    /\ At(p, "gateways")
    /\ LET n == Node(p) IN
       \/ /\ Reaches(p, n) /\ Works /\ Fine
          /\ gateway' = [gateway EXCEPT ![n] = Gateway(p, n)] /\ Goes(p, call[p])
       \/ /\ Refused(~Reaches(p, n)) /\ Note("lost", n \in up)
          /\ \/ UNCHANGED gateway
             \/ n \in up /\ gateway' = [gateway EXCEPT ![n] = Down]
          /\ Goes(p, call[p])
       \/ /\ call[p].op # "enable" /\ call[p].todo = Nodes
          /\ Refused(call[p].cut) /\ Note("lost", TRUE)
          /\ UNCHANGED gateway /\ call' = [call EXCEPT ![p] = Follow(@)]
    /\ UNCHANGED <<CallVars, tables, sfu, turn, file>>

Disconnect(p) ==
    /\ call[p] # NoCall /\ ~call[p].cut
    /\ Refused(FALSE) /\ Note("lost", TRUE)
    /\ call' = [call EXCEPT ![p].cut = TRUE]
    /\ UNCHANGED <<CallVars, tables, units, file>>

Call(p) ==
    \/ Insert(p) \/ ReadNodes(p)
    \/ Allocate(p, "sfu_ports", "sfu") \/ SelectTURNNodes(p) \/ Allocate(p, "turn_ports", "turn")
    \/ ReadPorts(p) \/ SpawnTURN(p) \/ SpawnSFU(p) \/ ClearDNS(p) \/ CreateTURNRecords(p)
    \/ StopBoth(p) \/ DeallocateAll(p) \/ DeleteConfig(p)
    \/ StopSFU(p) \/ ReadTURN(p) \/ StopTURN(p)
    \/ ClearStealth(p) \/ CreateStealthRecords(p) \/ SetStealthEnabled(p) \/ Respawn(p)
    \/ ReadBlocks(p) \/ SaveState(p) \/ RestartGateway(p)

-----------------------------------------------------------------------------
(* Nodes. *)

\* The process dies, alone or with the machine and all units.
Crash(n) ==
    /\ n \in up /\ crashes < MaxCrashes /\ crashes' = crashes + 1
    /\ up' = up \ {n}
    /\ call' = [call EXCEPT ![n] = NoCall]
    /\ restore' = [restore EXCEPT ![n] = NoRestore]
    /\ \/ UNCHANGED units
       \/ /\ sfu' = [sfu EXCEPT ![n] = NoSFU] /\ turn' = [turn EXCEPT ![n] = NoTURN]
          /\ gateway' = [gateway EXCEPT ![n] = Down]
    /\ Note("crash", call[n] # NoCall)
    /\ UNCHANGED <<tables, file, calls, failures, rewrites>>

RestoreVars == <<tables, up, call>>

Restart(n) ==
    /\ n \notin up
    /\ up' = up \cup {n}
    /\ restore' = [restore EXCEPT ![n].pc = IF file[n].here THEN "resolve" ELSE "tables",
                                  ![n].st = file[n]]
    /\ Note("overlap", Overlap(n)) /\ Works
    /\ UNCHANGED <<tables, units, file, call>>

\* restoreClusterOnNode: no SFU, no TURN, and a file that does not know them;
\* a gateway that runs is kept, whatever its configuration. Nothing at all is
\* done if some other namespace was restored from its file.
RestoreFromTables(n) ==
    /\ restore[n].pc = "tables"
    /\ LET known == config # None /\ rows.sfu[n] # None
           cfg == IF known THEN [run |-> TRUE, sec |-> config, sfu |-> rows.sfu[n], stealth |-> stealth]
                           ELSE Plain
       IN
       \/ /\ Works /\ Note("kept", gateway[n].run /\ gateway[n] # cfg)
          /\ gateway' = [gateway EXCEPT ![n] = IF @.run THEN @ ELSE cfg]
          /\ file' = [file EXCEPT ![n] = PlainFile]
       \/ /\ Works /\ Note("kept", gateway[n] # cfg)
          /\ UNCHANGED <<gateway, file>>
       \/ /\ Refused(FALSE) /\ Note("lost", TRUE)
          /\ \/ UNCHANGED gateway
             \/ ~gateway[n].run /\ gateway' = [gateway EXCEPT ![n] = Plain]
          /\ \/ UNCHANGED file
             \/ file' = [file EXCEPT ![n] = PlainFile]
    /\ restore' = [restore EXCEPT ![n] = NoRestore]
    /\ UNCHANGED <<RestoreVars, sfu, turn>>

\* The state as loaded, with what is known of WebRTC put in; the file is
\* saved if that changes it, and never when nothing could be found out.
Resolved(n, known, sec, port, hidden) ==
    LET st == [restore[n].st EXCEPT !.sec = sec, !.sig = port, !.stealth = hidden]
    IN  restore' = [restore EXCEPT ![n] = [pc |-> "gateway", known |-> known, st |-> st,
                                           save |-> known /\ st # restore[n].st]]

Recorded(n) == Resolved(n, TRUE, config, IF config # None THEN rows.sfu[n] ELSE None,
                        config # None /\ stealth)

Cached(n) == LET st == restore[n].st
             IN  Resolved(n, st.sec # None \/ st.sig # None, st.sec, st.sig, st.stealth)

\* Mutant: as before bug 130: the cache first.
ChooseCacheFirst(n) ==
    /\ restore[n].pc = "resolve"
    /\ \/ /\ Works /\ Fine
          /\ IF restore[n].st.sec # None THEN Cached(n) ELSE Recorded(n)
       \/ Refused(FALSE) /\ Note("lost", TRUE) /\ Cached(n)
    /\ UNCHANGED <<RestoreVars, units, file>>

\* chooseRestoreWebRTC: the tables first, the cache when they cannot be read.
ChooseRestoreWebRTC(n) ==
    /\ restore[n].pc = "resolve"
    /\ \/ Works /\ Fine /\ Recorded(n)
       \/ Refused(FALSE) /\ Note("lost", TRUE) /\ Cached(n)
    /\ UNCHANGED <<RestoreVars, units, file>>

\* A gateway that is down is started, one that runs with another
\* configuration is restarted, unless nothing is known.
RestoreGateway(n) ==
    /\ restore[n].pc = "gateway"
    /\ LET r == restore[n]
           cfg == IF r.known THEN [run |-> TRUE, sec |-> r.st.sec, sfu |-> r.st.sig,
                                   stealth |-> r.st.stealth] ELSE Plain
       IN
       /\ file' = IF r.save THEN [file EXCEPT ![n] = r.st] ELSE file
       /\ \/ Works /\ Fine
             /\ gateway' = [gateway EXCEPT ![n] = IF @.run /\ ~r.known THEN @ ELSE cfg]
          \/ Refused(FALSE) /\ Note("lost", TRUE)
             /\ \/ UNCHANGED gateway
                \/ gateway' = [gateway EXCEPT ![n] = Down]
    /\ restore' = [restore EXCEPT ![n].pc = "turn"]
    /\ UNCHANGED <<RestoreVars, sfu, turn>>

\* The ports come from the loaded state, the secret from the tables.
RestoreTURN(n) ==
    /\ restore[n].pc = "turn"
    /\ LET st == restore[n].st
           cfg == [sec |-> config, port |-> st.relay, stealth |-> stealth]
           wanted == st.sec # None /\ st.relay # None
       IN
       \/ /\ Works /\ Fine
          /\ turn' = IF wanted /\ config # None THEN Started(turn, n, cfg) ELSE turn
       \/ wanted /\ Refused(FALSE) /\ Note("lost", TRUE) /\ UNCHANGED turn
    /\ restore' = [restore EXCEPT ![n].pc = "sfu"]
    /\ UNCHANGED <<RestoreVars, sfu, gateway, file>>

RestoreSFU(n) ==
    /\ restore[n].pc = "sfu"
    /\ LET st == restore[n].st
           cfg == [sec |-> config, port |-> st.sig, media |-> st.media]
       IN
       \/ /\ Works /\ Fine
          /\ sfu' = IF st.sig # None /\ config # None THEN Started(sfu, n, cfg) ELSE sfu
       \/ st.sig # None /\ Refused(FALSE) /\ Note("lost", TRUE) /\ UNCHANGED sfu
    /\ restore' = [restore EXCEPT ![n] = NoRestore]
    /\ UNCHANGED <<RestoreVars, turn, gateway, file>>

Restore(n) ==
    \/ RestoreFromTables(n) \/ ChooseRestoreWebRTC(n) \/ RestoreGateway(n)
    \/ RestoreTURN(n) \/ RestoreSFU(n)

\* A replacement or repair ends with new state files for all nodes
\* (updateClusterStateAfterRecovery), which know nothing of WebRTC.
Rewrite ==
    /\ rewrites < MaxRewrites /\ rewrites' = rewrites + 1
    /\ file' = [n \in Nodes |-> IF n \in up THEN PlainFile ELSE file[n]]
    /\ Note("rewrite", TRUE)
    /\ UNCHANGED <<tables, units, up, call, restore, calls, failures, crashes>>

-----------------------------------------------------------------------------
Ops == {"enable", "disable", "stealth_on", "stealth_off"}

Next ==
    \/ \E n \in Nodes : (\E op \in Ops : Begin(n, op)) \/ Call(n) \/ Disconnect(n)
                        \/ Crash(n) \/ Restart(n) \/ Restore(n)
    \/ Rewrite

Spec == Init /\ [][Next]_vars

-----------------------------------------------------------------------------
(* Properties. *)

\* Every variable has its type (namespace_webrtc_config,
\* webrtc_port_allocations, ClusterLocalState and the calls).
TypeOK ==
    /\ config \in Secrets /\ stealth \in BOOLEAN /\ next \in 1 .. MaxSecrets + 1
    /\ rows \in [{"sfu", "turn"} -> [Nodes -> Secrets]]
    /\ turnDNS \subseteq Nodes /\ stealthDNS \subseteq Nodes /\ up \subseteq Nodes
    /\ sfu \in [Nodes -> [sec : Secrets, port : Secrets, media : Secrets]]
    /\ turn \in [Nodes -> [sec : Secrets, port : Secrets, stealth : BOOLEAN]]
    /\ gateway \in [Nodes -> [run : BOOLEAN, sec : Secrets, sfu : Secrets, stealth : BOOLEAN]]
    /\ file \in [Nodes -> [here : BOOLEAN, sec : Secrets, sig : Secrets, media : Secrets,
                           relay : Secrets, stealth : BOOLEAN]]
    /\ \A n \in Nodes :
          /\ call[n].op \in DOMAIN Program
          /\ call[n].k \in 0 .. Len(Program[call[n].op])
          /\ call[n].todo \subseteq Nodes /\ call[n].on \subseteq Nodes
          /\ call[n].sec \in Secrets
          /\ restore[n].pc \in {"idle", "tables", "resolve", "gateway", "turn", "sfu"}

TURNNodes == {n \in Nodes : rows.turn[n] # None}

\* Node n runs what the tables say it should, on its own ports, with the
\* current secret.
Served(n) ==
    /\ sfu[n] = [sec |-> config, port |-> rows.sfu[n], media |-> rows.sfu[n]]
    /\ turn[n] = IF n \in TURNNodes
                 THEN [sec |-> config, port |-> rows.turn[n], stealth |-> stealth] ELSE NoTURN
    /\ gateway[n] = [run |-> TRUE, sec |-> config, sfu |-> rows.sfu[n], stealth |-> stealth]

AllServed ==
    /\ \A n \in Nodes : rows.sfu[n] # None
    /\ Cardinality(TURNNodes) = TurnCount
    /\ turnDNS = TURNNodes
    /\ stealthDNS = IF stealth THEN TURNNodes ELSE {}
    /\ \A n \in up : Served(n)

\* WebRTC that is enabled, undisturbed, is served by all nodes, on the ports
\* they reserved and with the current secret, also after secrets were rotated
\* and nodes rebooted (EnableWebRTC, restoreClusterFromState).
EnabledIsServed ==
    noise = {} /\ Quiet /\ config # None => AllServed

\* After DisableWebRTC, or an EnableWebRTC that failed and cleaned up, nothing
\* is reserved, runs or is handed out, and a node that was away does not bring
\* back a secret (cleanupWebRTCOnError, chooseRestoreWebRTC). Whatever went wrong
\* before, this holds after a DisableWebRTC that nothing disturbs, but for TURN
\* servers, which it finds by their rows only, for stealth in a gateway, and for
\* the gateway of a node without a state file, which a restart leaves as it is.
DisableHeals ==
    noise \subseteq {"healed"} /\ Quiet /\ config = None =>
        /\ rows = [sfu |-> NoBlocks, turn |-> NoBlocks]
        /\ turnDNS = {} /\ stealthDNS = {}
        /\ \A n \in up : /\ sfu[n] = NoSFU /\ gateway[n].sec = None /\ file[n].sec = None
                         /\ noise = {} => turn[n] = NoTURN /\ gateway[n] = Plain

\* "The board never claims a stealth endpoint that doesn't terminate TLS": also
\* after a failed EnableWebRTCStealth the name resolves and is advertised only
\* if stealth is on, and then the servers have it.
StealthIsHonest ==
    noise \subseteq {"respawn"} /\ Quiet =>
        /\ ~stealth => stealthDNS = {} /\ \A n \in up : ~gateway[n].stealth
        /\ stealth => \A n \in up \cap TURNNodes : turn[n].stealth

\* The services come back after a reboot also when a repair has rewritten the
\* state files in between (saveClusterStateToAllNodes).
ServedAfterRepair ==
    noise \subseteq {"rewrite"} /\ Quiet /\ config # None => AllServed
=============================================================================

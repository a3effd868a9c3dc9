---------------------------- MODULE WebRTCProofs ----------------------------
(* Proofs about WebRTC, for any number of nodes and secrets: the calls, the  *)
(* restores after a crash and the rewrites of the state files, in any order. *)
(*                                                                           *)
(* The invariant has five parts: the types and the place of every call in    *)
(* its program; a node that is down does nothing; tasks that no overlap was  *)
(* noted of are alone; undisturbed, what a call is done with is as the       *)
(* tables say and the rest is as it was; and after a disturbance, what a     *)
(* disable that is itself undisturbed is done with is cleared.               *)
EXTENDS WebRTC, FiniteSetTheorems, TLAPS

-----------------------------------------------------------------------------
(* Types. *)

Operations == {"none", "enable", "cleanup", "disable", "stealth_on", "rollback", "stealth_off"}
Blocks == [Nodes -> Secrets]
SFUs == [sec : Secrets, port : Secrets, media : Secrets]
TURNs == [sec : Secrets, port : Secrets, stealth : BOOLEAN]
Gateways == [run : BOOLEAN, sec : Secrets, sfu : Secrets, stealth : BOOLEAN]
Files == [here : BOOLEAN, sec : Secrets, sig : Secrets, media : Secrets, relay : Secrets,
          stealth : BOOLEAN]
CallTypes == [op : Operations, k : 0 .. 12, todo : SUBSET Nodes, sec : Secrets, on : SUBSET Nodes,
              sfu : Blocks, turn : Blocks, cut : BOOLEAN]
RestoreTypes == [pc : {"idle", "tables", "resolve", "gateway", "turn", "sfu"}, known : BOOLEAN,
                 save : BOOLEAN, st : Files]

\* A call is at a step of its program, with the nodes of the step that are left.
Proper(c) ==
    /\ c \in CallTypes
    /\ c.op = "none" => c = NoCall
    /\ c.op # "none" =>
          /\ c.k \in 1 .. Len(Program[c.op])
          /\ Program[c.op][c.k] \in OverAll => c.todo # {}
          /\ Program[c.op][c.k] \in OverTURN => c.todo # {} /\ c.todo \subseteq c.on
          /\ Program[c.op][c.k] \notin OverAll \cup OverTURN => c.todo = {}
          /\ c.op = "enable" => c.sec # None

TableTypes ==
    /\ config \in Secrets /\ stealth \in BOOLEAN /\ next \in 1 .. MaxSecrets + 1
    /\ rows \in [sfu : Blocks, turn : Blocks]
    /\ turnDNS \subseteq Nodes /\ stealthDNS \subseteq Nodes

UnitTypes ==
    /\ sfu \in [Nodes -> SFUs] /\ turn \in [Nodes -> TURNs] /\ gateway \in [Nodes -> Gateways]
    /\ file \in [Nodes -> Files]

TaskTypes ==
    /\ up \subseteq Nodes
    /\ call \in [Nodes -> CallTypes] /\ (\A n \in Nodes : Proper(call[n]))
    /\ restore \in [Nodes -> RestoreTypes]
    /\ \A n \in Nodes : restore[n].pc = "idle" => restore[n] = NoRestore

Types == TableTypes /\ UnitTypes /\ TaskTypes

\* A node that is down does nothing.
Placed == \A n \in Nodes \ up : call[n] = NoCall /\ restore[n] = NoRestore

\* What is known of a secret is known from a state file that is there.
Written == \A n \in Nodes :
    /\ file[n].here \/ file[n].sec = None
    /\ restore[n].pc \in {"resolve", "gateway"} => restore[n].st.here

-----------------------------------------------------------------------------
(* One task at a time. *)

\* A call that has got by its insert.
Calling(n) == call[n].op # "none" /\ ~(call[n].op = "enable" /\ call[n].k = 1)
Restoring(n) == restore[n].pc # "idle"

Alone ==
    /\ \A n, m \in Nodes : Calling(n) /\ Calling(m) => n = m
    /\ \A n, m \in Nodes : Restoring(n) /\ Restoring(m) => n = m
    /\ \A n, m \in Nodes : Restoring(n) => ~Calling(m)
    /\ \A n \in Nodes : Restoring(n) => call[n] = NoCall

-----------------------------------------------------------------------------
(* What holds of a system that nothing disturbed. *)

\* The nodes a step over all nodes, or over the TURN nodes, is done with.
AllDone(c, i) == IF c.k > i THEN Nodes ELSE IF c.k = i THEN Nodes \ c.todo ELSE {}
TurnDone(c, i) == IF c.k > i THEN c.on ELSE IF c.k = i THEN c.on \ c.todo ELSE {}

NoRows == [sfu |-> NoBlocks, turn |-> NoBlocks]
Steady(n) == n \in up /\ restore[n].pc = "idle"

\* What the tables want a node to run. Without WebRTC that is NoSFU, NoTURN
\* and Plain.
SFUFor(n) == [sec |-> config, port |-> rows.sfu[n], media |-> rows.sfu[n]]
TURNFor(n, s) == [sec |-> config, port |-> rows.turn[n], stealth |-> s]
GatewayFor(n, s) == [run |-> TRUE, sec |-> config, sfu |-> rows.sfu[n], stealth |-> s]

HasSFU(n) == sfu[n] = SFUFor(n) \/ (~Steady(n) /\ sfu[n] = NoSFU)

\* A server that could not be respawned may be anything but secretly plain.
TURNBack(n) == n \in up /\ restore[n].pc \in {"idle", "sfu"}
HasTURN(n, s) ==
    IF "respawn" \in noise
    THEN s /\ n \in TURNNodes => turn[n].stealth \/ (~TURNBack(n) /\ turn[n].sec = None)
    ELSE IF n \in TURNNodes THEN turn[n] = TURNFor(n, s) \/ (~TURNBack(n) /\ turn[n] = NoTURN)
                            ELSE turn[n] = NoTURN

GatewayBack(n) == n \in up /\ restore[n].pc \in {"idle", "turn", "sfu"}
HasGateway(n, s) == GatewayBack(n) => gateway[n] = GatewayFor(n, s)

\* The state file of a node that was away has the ports it does not read from
\* the tables.
HasFile(n) == file[n].here /\ file[n].media = rows.sfu[n] /\ file[n].relay = rows.turn[n]

\* Nothing brings a secret back.
Forgets(n) ==
    /\ ~file[n].here => gateway[n] \in {Plain, Down}
    /\ GatewayBack(n) => file[n].sec = None

TablesServe ==
    /\ config # None /\ (\A n \in Nodes : rows.sfu[n] # None)
    /\ Cardinality(TURNNodes) = TurnCount /\ turnDNS = TURNNodes

\* A restore has what the tables say.
Reads(n) ==
    LET r == restore[n] IN
    /\ r.pc = "tables" => ~file[n].here
    /\ r.pc = "resolve" => r.st = file[n] /\ file[n].here
    /\ r.pc = "gateway" /\ ~r.save => r.st = file[n]
    /\ r.pc \in {"gateway", "turn", "sfu"} =>
          /\ r.known /\ r.st.sec = config /\ r.st.sig = rows.sfu[n] /\ r.st.stealth = stealth
          /\ r.st.here
          /\ config # None => r.st.media = rows.sfu[n] /\ r.st.relay = rows.turn[n]

\* No call is under way.
Rest ==
    /\ config = None => rows = NoRows /\ turnDNS = {} /\ ~stealth /\ \A n \in Nodes : Forgets(n)
    /\ config # None => TablesServe /\ \A n \in Nodes : HasFile(n)
    /\ stealthDNS = IF stealth THEN TURNNodes ELSE {}
    /\ \A n \in Nodes : HasSFU(n) /\ HasTURN(n, stealth) /\ HasGateway(n, stealth) /\ Reads(n)

\* The calls.

Enabling(p) ==
    LET c == call[p] IN
    /\ config = c.sec /\ c.sec # None /\ ~stealth /\ stealthDNS = {}
    /\ c.sfu = rows.sfu /\ c.turn = rows.turn
    /\ \A n \in Nodes : rows.sfu[n] = IF n \in AllDone(c, 3) THEN c.sec ELSE None
    /\ \A n \in Nodes : rows.turn[n] = IF n \in TurnDone(c, 5) THEN c.sec ELSE None
    /\ c.k > 4 => Cardinality(c.on) = TurnCount
    /\ turnDNS = TurnDone(c, 10)
    /\ \A n \in Nodes :
          /\ IF n \in TurnDone(c, 7) THEN HasTURN(n, FALSE) ELSE turn[n] = NoTURN
          /\ IF n \in AllDone(c, 8) THEN HasSFU(n) ELSE sfu[n] = NoSFU
          /\ n \in AllDone(c, 11) => HasFile(n)
          /\ c.k <= 10 => Forgets(n)
          /\ n \in up => gateway[n] = IF n \in AllDone(c, 12) THEN GatewayFor(n, FALSE) ELSE Plain

CleaningUp(p) ==
    LET c == call[p] IN
    /\ ~stealth /\ stealthDNS = {} /\ turnDNS = {}
    /\ c.k > 2 => rows = NoRows
    /\ \A n \in Nodes : /\ n \in AllDone(c, 1) => sfu[n] = NoSFU /\ turn[n] = NoTURN
                        /\ Forgets(n) /\ (n \in up => gateway[n] = Plain)

Disabling(p) ==
    LET c == call[p] IN
    /\ c.sec = None /\ c.sfu = NoBlocks /\ c.turn = NoBlocks
    /\ c.k > 5 => rows = NoRows
    /\ c.k > 6 => turnDNS = {}
    /\ c.k > 7 => stealthDNS = {}
    /\ c.k > 8 => config = None /\ ~stealth
    /\ \A n \in Nodes :
          /\ n \in AllDone(c, 2) => sfu[n] = NoSFU
          /\ turn[n] # NoTURN => IF c.k <= 3 THEN n \in TURNNodes ELSE n \in c.on \ TurnDone(c, 4)
          /\ file[n].here
          /\ n \in up /\ n \in AllDone(c, 9) => file[n].sec = None
          /\ n \in up /\ n \in AllDone(c, 10) => gateway[n] = Plain

Kept == TablesServe /\ \A n \in Nodes : HasFile(n) /\ HasSFU(n)

\* EnableWebRTCStealth and DisableWebRTCStealth: where they set the flag,
\* respawn the servers, read the blocks, and restart the gateways.
Mode(on) == IF on THEN "stealth_on" ELSE "stealth_off"
FlagStep(on) == IF on THEN 4 ELSE 2
RespawnStep(on) == IF on THEN 5 ELSE 3
BlocksStep(on) == IF on THEN 6 ELSE 5
LastStep(on) == IF on THEN 8 ELSE 7

Turning(p, on) ==
    LET c == call[p] IN
    /\ Kept /\ c.sec = config
    /\ c.k > 1 => c.turn = rows.turn /\ c.on = TURNNodes
    /\ c.k > BlocksStep(on) => c.sfu = rows.sfu
    /\ stealth = (on <=> c.k > FlagStep(on))
    /\ stealthDNS = IF on THEN TurnDone(c, 3) ELSE IF c.k <= 4 THEN TURNNodes ELSE {}
    /\ \A n \in Nodes : /\ HasTURN(n, on <=> n \in TurnDone(c, RespawnStep(on)))
                        /\ HasGateway(n, on <=> n \in AllDone(c, LastStep(on)))

RollingBack(p) ==
    /\ Kept /\ "respawn" \in noise
    /\ call[p].k > 1 => ~stealth
    /\ \A n \in Nodes : HasGateway(n, FALSE)

Doing(p) ==
    CASE call[p].op = "enable" -> noise = {} /\ Enabling(p)
      [] call[p].op = "cleanup" -> noise = {} /\ CleaningUp(p)
      [] call[p].op = "disable" -> noise = {} /\ Disabling(p)
      [] call[p].op = "stealth_on" -> Turning(p, TRUE)
      [] call[p].op = "rollback" -> RollingBack(p)
      [] call[p].op = "stealth_off" -> Turning(p, FALSE)

\* A call that has yet to insert its row has no ports.
Fresh == \A n \in Nodes : call[n].op = "enable" /\ call[n].k = 1 =>
    call[n].sfu = NoBlocks /\ call[n].turn = NoBlocks /\ call[n].on = {}

Undisturbed ==
    /\ Fresh
    /\ "respawn" \in noise => config # None
    /\ (\A n \in Nodes : ~Calling(n)) => Rest
    /\ \A p \in Nodes : Calling(p) => Doing(p)

-----------------------------------------------------------------------------
(* What a DisableWebRTC leaves that was itself not disturbed. *)

NoSecret(n) == gateway[n].sec = None /\ file[n].sec = None

HealedRest == config = None =>
    /\ rows = NoRows /\ turnDNS = {} /\ stealthDNS = {}
    /\ \A n \in Nodes :
          /\ sfu[n] = NoSFU /\ (GatewayBack(n) => NoSecret(n))
          /\ restore[n].pc = "tables" => file[n].sec = None
          /\ restore[n].pc = "resolve" => restore[n].st = file[n]
          /\ restore[n].pc = "gateway" =>
                /\ restore[n].known /\ restore[n].st.sec = None
                /\ ~restore[n].save => restore[n].st = file[n]

HealedEnabling(p) ==
    LET c == call[p] IN
    /\ config # None
    /\ c.k <= 9 => turnDNS = {}
    /\ c.k <= 10 => stealthDNS = {} /\ \A n \in up : NoSecret(n)

HealedCleaning(p) ==
    LET c == call[p] IN
    /\ stealthDNS = {} /\ turnDNS = {} /\ (\A n \in up : NoSecret(n))
    /\ c.k > 2 => rows = NoRows
    /\ \A n \in AllDone(c, 1) : sfu[n] = NoSFU

HealedDisabling(p) ==
    LET c == call[p] IN
    /\ c.sec = None
    /\ c.k > 5 => rows = NoRows
    /\ c.k > 6 => turnDNS = {}
    /\ c.k > 7 => stealthDNS = {}
    /\ c.k > 8 => config = None
    /\ \A n \in AllDone(c, 2) : sfu[n] = NoSFU
    /\ \A n \in up \cap AllDone(c, 9) : file[n].sec = None
    /\ \A n \in up \cap AllDone(c, 10) : gateway[n].sec = None

HealedDoing(p) ==
    CASE call[p].op = "enable" -> HealedEnabling(p)
      [] call[p].op = "cleanup" -> HealedCleaning(p)
      [] call[p].op = "disable" -> HealedDisabling(p)
      [] OTHER -> config # None

Healed ==
    /\ (\A n \in Nodes : ~Calling(n)) => HealedRest
    /\ \A p \in Nodes : Calling(p) => HealedDoing(p)

AloneInv == "overlap" \notin noise => Alone
CalmInv == noise \subseteq {"respawn"} => Undisturbed
HealedInv == noise = {"healed"} => Healed

IInv == Types /\ Placed /\ Written /\ AloneInv /\ CalmInv /\ HealedInv

-----------------------------------------------------------------------------
(* Programs. *)

\* What the proofs use of the assumption on the constants.
LEMMA Constants ==
    /\ NodeCount \in Nat \ {0} /\ TurnCount \in 1 .. NodeCount
    /\ MaxSecrets \in Nat /\ Nodes \subseteq Nat /\ IsFiniteSet(Nodes)
    /\ None \in Secrets /\ None = 0 /\ Secrets \subseteq Nat
<1>1. NodeCount \in Nat \ {0} /\ TurnCount \in 1 .. NodeCount /\ MaxSecrets \in Nat
  BY WebRTCAssumption
<1>2. IsFiniteSet(1 .. NodeCount)
  BY <1>1, FS_Interval
<1> QED
  BY <1>1, <1>2 DEF Nodes, Secrets, None

\* The first of a set of numbers.
LEMMA FirstIn ==
    ASSUME NEW S \in SUBSET Nat, S # {}
    PROVE  First(S) \in S /\ \A m \in S : First(S) <= m
<1>1. PICK x \in S : \A y \in S : ~(<<y, x>> \in OpToRel(<, Nat))
  BY NatLessThanWellFounded, WFMin, Zenon
<1>2. \A y \in S : ~(y < x)
  BY <1>1, Zenon DEF OpToRel
<1>3. \A y \in S : x <= y
  BY <1>2
<1> QED
  BY <1>3 DEF First

\* How many steps each call has.
LEMMA Lengths ==
    /\ Len(Program["enable"]) = 12 /\ Len(Program["cleanup"]) = 3 /\ Len(Program["disable"]) = 10
    /\ Len(Program["stealth_on"]) = 8 /\ Len(Program["rollback"]) = 2
    /\ Len(Program["stealth_off"]) = 7 /\ Len(Program["none"]) = 0
BY DEF Program

\* The steps of EnableWebRTC, in order.
LEMMA EnableProgram ==
    /\ Program["enable"][1] = "insert" /\ Program["enable"][2] = "nodes"
    /\ Program["enable"][3] = "sfu_ports" /\ Program["enable"][4] = "select"
    /\ Program["enable"][5] = "turn_ports" /\ Program["enable"][6] = "ports"
    /\ Program["enable"][7] = "turn" /\ Program["enable"][8] = "sfu"
    /\ Program["enable"][9] = "clear_dns" /\ Program["enable"][10] = "dns"
    /\ Program["enable"][11] = "files" /\ Program["enable"][12] = "gateways"
BY DEF Program

\* The steps of DisableWebRTC, in order.
LEMMA DisableProgram ==
    /\ Program["disable"][1] = "nodes" /\ Program["disable"][2] = "stop_sfu"
    /\ Program["disable"][3] = "read_turn" /\ Program["disable"][4] = "stop_turn"
    /\ Program["disable"][5] = "free" /\ Program["disable"][6] = "clear_dns"
    /\ Program["disable"][7] = "clear_stealth" /\ Program["disable"][8] = "delete"
    /\ Program["disable"][9] = "files" /\ Program["disable"][10] = "gateways"
BY DEF Program

\* The steps of EnableWebRTCStealth and DisableWebRTCStealth, in order.
LEMMA StealthProgram ==
    /\ Program["stealth_on"][1] = "nodes" /\ Program["stealth_on"][2] = "clear_stealth"
    /\ Program["stealth_on"][3] = "stealth_dns" /\ Program["stealth_on"][4] = "flag"
    /\ Program["stealth_on"][5] = "respawn" /\ Program["stealth_on"][6] = "blocks"
    /\ Program["stealth_on"][7] = "files" /\ Program["stealth_on"][8] = "gateways"
    /\ Program["stealth_off"][1] = "nodes" /\ Program["stealth_off"][2] = "flag"
    /\ Program["stealth_off"][3] = "respawn" /\ Program["stealth_off"][4] = "clear_stealth"
    /\ Program["stealth_off"][5] = "blocks" /\ Program["stealth_off"][6] = "files"
    /\ Program["stealth_off"][7] = "gateways"
BY DEF Program

\* The steps of cleanupWebRTCOnError and of the rollback of EnableWebRTCStealth.
LEMMA UndoProgram ==
    /\ Program["cleanup"][1] = "stop_both" /\ Program["cleanup"][2] = "free"
    /\ Program["cleanup"][3] = "delete"
    /\ Program["rollback"][1] = "flag" /\ Program["rollback"][2] = "clear_stealth"
BY DEF Program

\* Call c has become d, which is at step k with the nodes todo left.
Moved(c, d, k, todo) ==
    /\ d \in CallTypes
    /\ d.op = c.op /\ d.k = k /\ d.todo = todo /\ d.sec = c.sec /\ d.on = c.on
    /\ d.sfu = c.sfu /\ d.turn = c.turn /\ d.cut = c.cut

\* The fields of a call that is not under way.
LEMMA NoCallFacts ==
    /\ NoCall \in CallTypes /\ NoCall.op = "none" /\ NoCall.k = 0 /\ NoCall.todo = {}
    /\ NoCall.sec = None /\ NoCall.on = {} /\ NoCall.sfu = NoBlocks /\ NoCall.turn = NoBlocks
    /\ NoCall.cut = FALSE /\ NoBlocks \in Blocks
<1>1. NoBlocks \in Blocks
  BY Constants DEF NoBlocks, Blocks
<1> QED
  BY <1>1, Constants DEF NoCall, CallTypes, Operations

\* A call that enters a step has all the nodes of the step left.
LEMMA EnterMoves ==
    ASSUME NEW c \in CallTypes, NEW k \in 0 .. 12
    PROVE  Moved(c, Enter(c, k), k, IF Program[c.op][k] \in OverAll THEN Nodes
                                    ELSE IF Program[c.op][k] \in OverTURN THEN c.on ELSE {})
<1> DEFINE todo == IF Program[c.op][k] \in OverAll THEN Nodes
                   ELSE IF Program[c.op][k] \in OverTURN THEN c.on ELSE {}
<1>1. Enter(c, k) = [c EXCEPT !.k = k, !.todo = todo]
  <2>1. todo = CASE Program[c.op][k] \in OverAll -> Nodes
                 [] Program[c.op][k] \in OverTURN -> c.on
                 [] OTHER -> {}
    BY DEF OverAll, OverTURN
  <2> QED
    BY <2>1 DEF Enter
<1>2. todo \in SUBSET Nodes
  BY DEF CallTypes
<1> HIDE DEF todo
<1>3. Moved(c, [c EXCEPT !.k = k, !.todo = todo], k, todo)
  BY <1>2 DEF Moved, CallTypes
<1> QED
  BY <1>1, <1>3 DEF todo

\* The steps that follow a step.
Later(c) == {k \in c.k + 1 .. Len(Program[c.op]) :
                Program[c.op][k] \in OverTURN => c.on # {}}

\* The step after a finished one: the next, or the one after it when no TURN node is
\* left for it.
LEMMA FollowIs ==
    ASSUME NEW c \in CallTypes, NEW l \in 0 .. 12, Len(Program[c.op]) = l
    PROVE  /\ c.k >= l => Follow(c) = NoCall
           /\ c.k < l /\ (Program[c.op][c.k + 1] \in OverTURN => c.on # {}) =>
                 Follow(c) = Enter(c, c.k + 1)
           /\ /\ c.k + 1 < l /\ Program[c.op][c.k + 1] \in OverTURN /\ c.on = {}
              /\ Program[c.op][c.k + 2] \notin OverTURN
              => Follow(c) = Enter(c, c.k + 2)
<1>1. c.k \in Nat
  BY DEF CallTypes
<1>2. Follow(c) = IF Later(c) = {} THEN NoCall ELSE Enter(c, First(Later(c)))
  BY DEF Follow, Later
<1>3. Later(c) \subseteq Nat /\ \A k \in Later(c) : k >= c.k + 1
  BY <1>1 DEF Later
<1>4. ASSUME c.k >= l PROVE Follow(c) = NoCall
  <2>1. Later(c) = {}
    BY <1>1, <1>4 DEF Later
  <2> QED
    BY <1>2, <2>1
<1>5. ASSUME c.k < l, Program[c.op][c.k + 1] \in OverTURN => c.on # {}
      PROVE  Follow(c) = Enter(c, c.k + 1)
  <2>1. c.k + 1 \in Later(c)
    BY <1>1, <1>5 DEF Later
  <2>2. First(Later(c)) \in Later(c) /\ First(Later(c)) <= c.k + 1
    BY <1>3, <2>1, FirstIn
  <2>3. First(Later(c)) = c.k + 1
    BY <1>1, <1>3, <2>2
  <2> QED
    BY <1>2, <2>1, <2>3
<1>6. ASSUME c.k + 1 < l, Program[c.op][c.k + 1] \in OverTURN, c.on = {},
             Program[c.op][c.k + 2] \notin OverTURN
      PROVE  Follow(c) = Enter(c, c.k + 2)
  <2>1. c.k + 2 \in Later(c) /\ c.k + 1 \notin Later(c)
    BY <1>1, <1>6 DEF Later
  <2>2. First(Later(c)) \in Later(c) /\ First(Later(c)) <= c.k + 2
    BY <1>3, <2>1, FirstIn
  <2>3. First(Later(c)) = c.k + 2
    BY <1>1, <1>3, <2>1, <2>2
  <2> QED
    BY <1>2, <2>1, <2>3
<1> QED
  BY <1>4, <1>5, <1>6

\* The next step is one over all nodes, one over the TURN nodes, or neither;
\* without TURN nodes a step over them is left out.
LEMMA FollowMoves ==
    ASSUME NEW c \in CallTypes, NEW l \in 0 .. 12, Len(Program[c.op]) = l, c.k < l
    PROVE  LET s == Program[c.op][c.k + 1] IN
           /\ s \in OverAll => Moved(c, Follow(c), c.k + 1, Nodes)
           /\ s \in OverTURN /\ c.on # {} => Moved(c, Follow(c), c.k + 1, c.on)
           /\ s \notin OverAll /\ s \notin OverTURN => Moved(c, Follow(c), c.k + 1, {})
<1> DEFINE s == Program[c.op][c.k + 1]
<1>1. c.k + 1 \in 0 .. 12
  BY DEF CallTypes
<1>2. Moved(c, Enter(c, c.k + 1), c.k + 1, IF s \in OverAll THEN Nodes
                                           ELSE IF s \in OverTURN THEN c.on ELSE {})
  BY <1>1, EnterMoves
<1>3. s \in OverAll => s \notin OverTURN
  BY DEF OverAll, OverTURN
<1>4. s \notin OverTURN \/ c.on # {} => Follow(c) = Enter(c, c.k + 1)
  BY FollowIs
<1> QED
  BY <1>2, <1>3, <1>4

\* A step over TURN nodes is skipped when the call knows none.
LEMMA FollowSkips ==
    ASSUME NEW c \in CallTypes, NEW l \in 0 .. 12, Len(Program[c.op]) = l, c.k + 1 < l,
           Program[c.op][c.k + 1] \in OverTURN, c.on = {}
    PROVE  LET s == Program[c.op][c.k + 2] IN
           /\ s \in OverAll => Moved(c, Follow(c), c.k + 2, Nodes)
           /\ s \notin OverAll /\ s \notin OverTURN => Moved(c, Follow(c), c.k + 2, {})
<1> DEFINE s == Program[c.op][c.k + 2]
<1>1. c.k + 2 \in 0 .. 12
  BY DEF CallTypes
<1>2. Moved(c, Enter(c, c.k + 2), c.k + 2, IF s \in OverAll THEN Nodes
                                           ELSE IF s \in OverTURN THEN c.on ELSE {})
  BY <1>1, EnterMoves
<1>3. s \in OverAll => s \notin OverTURN
  BY DEF OverAll, OverTURN
<1>4. s \notin OverTURN => Follow(c) = Enter(c, c.k + 2)
  BY FollowIs
<1> QED
  BY <1>2, <1>3, <1>4

\* The steps of EnableWebRTC that run over all nodes and over the TURN nodes.
LEMMA EnableKinds == \A k \in 1 .. 12 :
    /\ Program["enable"][k] \in OverAll <=> k \in {3, 8, 11, 12}
    /\ Program["enable"][k] \in OverTURN <=> k \in {5, 7, 10}
<1> SUFFICES ASSUME NEW k \in {1, 2, 3, 4, 5, 6, 7, 8, 9, 10, 11, 12}
             PROVE  /\ Program["enable"][k] \in OverAll <=> k \in {3, 8, 11, 12}
                    /\ Program["enable"][k] \in OverTURN <=> k \in {5, 7, 10}
  OBVIOUS
<1>1. Program["enable"][k] \in OverAll <=> k \in {3, 8, 11, 12}
  BY EnableProgram DEF OverAll, OverTURN
<1>2. Program["enable"][k] \in OverTURN <=> k \in {5, 7, 10}
  BY EnableProgram DEF OverAll, OverTURN
<1> QED
  BY <1>1, <1>2

\* The step of cleanupWebRTCOnError that runs over all nodes.
LEMMA CleanupKinds == \A k \in 1 .. 3 :
    /\ Program["cleanup"][k] \in OverAll <=> k \in {1}
    /\ Program["cleanup"][k] \in OverTURN <=> k \in {}
<1> SUFFICES ASSUME NEW k \in {1, 2, 3}
             PROVE  /\ Program["cleanup"][k] \in OverAll <=> k \in {1}
                    /\ Program["cleanup"][k] \in OverTURN <=> k \in {}
  OBVIOUS
<1>1. Program["cleanup"][k] \in OverAll <=> k \in {1}
  BY UndoProgram DEF OverAll, OverTURN
<1>2. Program["cleanup"][k] \in OverTURN <=> k \in {}
  BY UndoProgram DEF OverAll, OverTURN
<1> QED
  BY <1>1, <1>2

\* The steps of DisableWebRTC that run over all nodes and over the TURN nodes.
LEMMA DisableKinds == \A k \in 1 .. 10 :
    /\ Program["disable"][k] \in OverAll <=> k \in {2, 9, 10}
    /\ Program["disable"][k] \in OverTURN <=> k \in {4}
<1> SUFFICES ASSUME NEW k \in {1, 2, 3, 4, 5, 6, 7, 8, 9, 10}
             PROVE  /\ Program["disable"][k] \in OverAll <=> k \in {2, 9, 10}
                    /\ Program["disable"][k] \in OverTURN <=> k \in {4}
  OBVIOUS
<1>1. Program["disable"][k] \in OverAll <=> k \in {2, 9, 10}
  BY DisableProgram DEF OverAll, OverTURN
<1>2. Program["disable"][k] \in OverTURN <=> k \in {4}
  BY DisableProgram DEF OverAll, OverTURN
<1> QED
  BY <1>1, <1>2

\* The steps of EnableWebRTCStealth that run over all nodes and over the TURN nodes.
LEMMA StealthOnKinds == \A k \in 1 .. 8 :
    /\ Program["stealth_on"][k] \in OverAll <=> k \in {7, 8}
    /\ Program["stealth_on"][k] \in OverTURN <=> k \in {3, 5}
<1> SUFFICES ASSUME NEW k \in {1, 2, 3, 4, 5, 6, 7, 8}
             PROVE  /\ Program["stealth_on"][k] \in OverAll <=> k \in {7, 8}
                    /\ Program["stealth_on"][k] \in OverTURN <=> k \in {3, 5}
  OBVIOUS
<1>1. Program["stealth_on"][k] \in OverAll <=> k \in {7, 8}
  BY StealthProgram DEF OverAll, OverTURN
<1>2. Program["stealth_on"][k] \in OverTURN <=> k \in {3, 5}
  BY StealthProgram DEF OverAll, OverTURN
<1> QED
  BY <1>1, <1>2

\* The rollback runs over no nodes.
LEMMA RollbackKinds == \A k \in 1 .. 2 :
    /\ Program["rollback"][k] \in OverAll <=> k \in {}
    /\ Program["rollback"][k] \in OverTURN <=> k \in {}
<1> SUFFICES ASSUME NEW k \in {1, 2}
             PROVE  /\ Program["rollback"][k] \in OverAll <=> k \in {}
                    /\ Program["rollback"][k] \in OverTURN <=> k \in {}
  OBVIOUS
<1>1. Program["rollback"][k] \in OverAll <=> k \in {}
  BY UndoProgram DEF OverAll, OverTURN
<1>2. Program["rollback"][k] \in OverTURN <=> k \in {}
  BY UndoProgram DEF OverAll, OverTURN
<1> QED
  BY <1>1, <1>2

\* The steps of DisableWebRTCStealth that run over all nodes and over the TURN
\* nodes.
LEMMA StealthOffKinds == \A k \in 1 .. 7 :
    /\ Program["stealth_off"][k] \in OverAll <=> k \in {6, 7}
    /\ Program["stealth_off"][k] \in OverTURN <=> k \in {3}
<1> SUFFICES ASSUME NEW k \in {1, 2, 3, 4, 5, 6, 7}
             PROVE  /\ Program["stealth_off"][k] \in OverAll <=> k \in {6, 7}
                    /\ Program["stealth_off"][k] \in OverTURN <=> k \in {3}
  OBVIOUS
<1>1. Program["stealth_off"][k] \in OverAll <=> k \in {6, 7}
  BY StealthProgram DEF OverAll, OverTURN
<1>2. Program["stealth_off"][k] \in OverTURN <=> k \in {3}
  BY StealthProgram DEF OverAll, OverTURN
<1> QED
  BY <1>1, <1>2

\* Two nodes are two.
LEMMA PairCounts ==
    ASSUME NEW x, NEW y, x # y
    PROVE  Cardinality({x} \cup {y}) = 2
<1>1. IsFiniteSet({x}) /\ Cardinality({x}) = 1
  BY FS_Singleton
<1>2. y \notin {x}
  OBVIOUS
<1>3. Cardinality({x} \cup {y}) = Cardinality({x}) + 1
  BY <1>1, <1>2, FS_AddElement
<1> QED
  BY <1>1, <1>3

\* A step is done with its first node; after the last one the call goes on to the
\* next step.
LEMMA ProceedMoves ==
    ASSUME NEW c \in CallTypes
    PROVE  /\ c.todo = {} => Proceed(c) = Follow(c)
           /\ c.todo # {} =>
                 /\ First(c.todo) \in c.todo
                 /\ \/ c.todo = {First(c.todo)} /\ Proceed(c) = Follow(c)
                    \/ /\ c.todo # {First(c.todo)}
                       /\ Moved(c, Proceed(c), c.k, c.todo \ {First(c.todo)})
<1>1. c.todo \subseteq Nodes /\ IsFiniteSet(c.todo) /\ Cardinality(c.todo) \in Nat
  BY Constants, FS_Subset, FS_CardinalityType DEF CallTypes
<1>2. CASE c.todo = {}
  BY <1>2, FS_EmptySet DEF Proceed
<1>3. CASE c.todo # {}
  <2> DEFINE n == First(c.todo)
  <2>1. n \in c.todo
    BY <1>1, <1>3, Constants, FirstIn
  <2>2. CASE c.todo = {n}
    BY <1>3, <2>1, <2>2, FS_Singleton DEF Proceed
  <2>3. CASE c.todo # {n}
    <3>1. PICK m \in c.todo : m # n
      BY <2>1, <2>3
    <3>3. Cardinality({n} \cup {m}) = 2
      BY <3>1, PairCounts
    <3>4. Cardinality({n} \cup {m}) <= Cardinality(c.todo)
      BY <1>1, <2>1, FS_Subset
    <3>5. Cardinality(c.todo) > 1
      BY <1>1, <3>3, <3>4
    <3>6. Proceed(c) = [c EXCEPT !.todo = c.todo \ {n}]
      BY <3>5 DEF Proceed
    <3>7. Moved(c, [c EXCEPT !.todo = c.todo \ {n}], c.k, c.todo \ {n})
      BY <1>1 DEF Moved, CallTypes
    <3> QED
      BY <2>1, <2>3, <3>6, <3>7
  <2> QED
    BY <1>3, <2>2, <2>3
<1> QED
  BY <1>2, <1>3

\* Call c has become d, which is at the beginning of another program.
Became(c, d, op, todo) ==
    d \in CallTypes /\ d.op = op /\ d.k = 1 /\ d.todo = todo

\* An error turns a call into its clean-up or its rollback.
LEMMA BecomesMoves ==
    ASSUME NEW c \in CallTypes
    PROVE  /\ Became(c, Enter([c EXCEPT !.op = "cleanup"], 1), "cleanup", Nodes)
           /\ Became(c, Enter([c EXCEPT !.op = "rollback"], 1), "rollback", {})
<1> DEFINE x == [c EXCEPT !.op = "cleanup"]
           y == [c EXCEPT !.op = "rollback"]
<1>1. x \in CallTypes /\ x.op = "cleanup" /\ y \in CallTypes /\ y.op = "rollback"
  BY DEF CallTypes, Operations
<1> HIDE DEF x, y
<1>2. 1 \in 0 .. 12
  OBVIOUS
<1>3. Moved(x, Enter(x, 1), 1, Nodes)
  BY <1>1, <1>2, EnterMoves, CleanupKinds
<1>4. Moved(y, Enter(y, 1), 1, {})
  BY <1>1, <1>2, EnterMoves, RollbackKinds
<1> QED
  BY <1>1, <1>3, <1>4 DEF Moved, Became, x, y

\* What an error makes of a call: it returns, cleans up, rolls back, or goes on.
LEMMA FailCases ==
    ASSUME NEW c \in CallTypes
    PROVE  LET here == <<c.op, Program[c.op][c.k]>> IN
           /\ here \in Returns => Fail(c) = NoCall
           /\ here \in CleansUp => Became(c, Fail(c), "cleanup", Nodes)
           /\ here \in RollsBack => Became(c, Fail(c), "rollback", {})
           /\ here \notin Returns /\ here \notin CleansUp /\ here \notin RollsBack
                 => Fail(c) = Proceed(c)
<1> DEFINE here == <<c.op, Program[c.op][c.k]>>
<1>1. /\ here \in CleansUp => here \notin Returns
      /\ here \in RollsBack => here \notin Returns /\ here \notin CleansUp
  BY DEF Returns, CleansUp, RollsBack
<1>2. Fail(c) = CASE here \in Returns -> NoCall
                  [] here \in CleansUp -> Enter([c EXCEPT !.op = "cleanup"], 1)
                  [] here \in RollsBack -> Enter([c EXCEPT !.op = "rollback"], 1)
                  [] OTHER -> Proceed(c)
  BY DEF Fail
<1> HIDE DEF here
<1>3. /\ here \in Returns => Fail(c) = NoCall
      /\ here \in CleansUp => Fail(c) = Enter([c EXCEPT !.op = "cleanup"], 1)
      /\ here \in RollsBack => Fail(c) = Enter([c EXCEPT !.op = "rollback"], 1)
      /\ here \notin Returns /\ here \notin CleansUp /\ here \notin RollsBack
            => Fail(c) = Proceed(c)
  BY <1>1, <1>2
<1> QED
  BY <1>3, BecomesMoves DEF here

\* Where an error ends EnableWebRTC, where it cleans up, and where it is only
\* logged.
LEMMA EnableFails ==
    ASSUME NEW c \in CallTypes, c.op = "enable"
    PROVE  /\ c.k \in {1, 2} => Fail(c) = NoCall
           /\ c.k \in {3, 5, 6, 7, 8, 10} => Became(c, Fail(c), "cleanup", Nodes)
           /\ c.k \in {4, 9, 11, 12} => Fail(c) = Proceed(c)
<1>1. /\ c.k \in {1, 2} => <<c.op, Program[c.op][c.k]>> \in Returns
      /\ c.k \in {3, 5, 6, 7, 8, 10} => <<c.op, Program[c.op][c.k]>> \in CleansUp
      /\ c.k \in {4, 9, 11, 12} => /\ <<c.op, Program[c.op][c.k]>> \notin Returns
                                   /\ <<c.op, Program[c.op][c.k]>> \notin CleansUp
                                   /\ <<c.op, Program[c.op][c.k]>> \notin RollsBack
  BY EnableProgram DEF Returns, CleansUp, RollsBack
<1> QED
  BY <1>1, FailCases

\* DisableWebRTC returns when it cannot read the nodes and goes on after every other
\* error.
LEMMA DisableFails ==
    ASSUME NEW c \in CallTypes, c.op = "disable"
    PROVE  /\ c.k = 1 => Fail(c) = NoCall
           /\ c.k \in 2 .. 10 => Fail(c) = Proceed(c)
<1>1. /\ c.k = 1 => <<c.op, Program[c.op][c.k]>> \in Returns
      /\ c.k \in {2, 3, 4, 5, 6, 7, 8, 9, 10} =>
            /\ <<c.op, Program[c.op][c.k]>> \notin Returns
            /\ <<c.op, Program[c.op][c.k]>> \notin CleansUp
            /\ <<c.op, Program[c.op][c.k]>> \notin RollsBack
  BY DisableProgram DEF Returns, CleansUp, RollsBack
<1> QED
  BY <1>1, FailCases

\* Where an error ends EnableWebRTCStealth, where it rolls back, and where it is
\* only logged.
LEMMA StealthOnFails ==
    ASSUME NEW c \in CallTypes, c.op = "stealth_on"
    PROVE  /\ c.k \in {1, 3, 4} => Fail(c) = NoCall
           /\ c.k = 5 => Became(c, Fail(c), "rollback", {})
           /\ c.k \in {2, 6, 7, 8} => Fail(c) = Proceed(c)
<1>1. /\ c.k \in {1, 3, 4} => <<c.op, Program[c.op][c.k]>> \in Returns
      /\ c.k = 5 => <<c.op, Program[c.op][c.k]>> \in RollsBack
      /\ c.k \in {2, 6, 7, 8} => /\ <<c.op, Program[c.op][c.k]>> \notin Returns
                                 /\ <<c.op, Program[c.op][c.k]>> \notin CleansUp
                                 /\ <<c.op, Program[c.op][c.k]>> \notin RollsBack
  BY StealthProgram DEF Returns, CleansUp, RollsBack
<1> QED
  BY <1>1, FailCases

\* Where an error ends DisableWebRTCStealth and where it is only logged.
LEMMA StealthOffFails ==
    ASSUME NEW c \in CallTypes, c.op = "stealth_off"
    PROVE  /\ c.k \in {1, 2, 3} => Fail(c) = NoCall
           /\ c.k \in {4, 5, 6, 7} => Fail(c) = Proceed(c)
<1>1. /\ c.k \in {1, 2, 3} => <<c.op, Program[c.op][c.k]>> \in Returns
      /\ c.k \in {4, 5, 6, 7} => /\ <<c.op, Program[c.op][c.k]>> \notin Returns
                                 /\ <<c.op, Program[c.op][c.k]>> \notin CleansUp
                                 /\ <<c.op, Program[c.op][c.k]>> \notin RollsBack
  BY StealthProgram DEF Returns, CleansUp, RollsBack
<1> QED
  BY <1>1, FailCases

\* Clean-up and rollback go on after every error.
LEMMA UndoFails ==
    ASSUME NEW c \in CallTypes, \/ c.op = "cleanup" /\ c.k \in {1, 2, 3}
                                \/ c.op = "rollback" /\ c.k \in {1, 2}
    PROVE  Fail(c) = Proceed(c)
<1>1. /\ <<c.op, Program[c.op][c.k]>> \notin Returns
      /\ <<c.op, Program[c.op][c.k]>> \notin CleansUp
      /\ <<c.op, Program[c.op][c.k]>> \notin RollsBack
  BY UndoProgram DEF Returns, CleansUp, RollsBack
<1> QED
  BY <1>1, FailCases

\* A call is at step k of program op.
Is(p, op, k) == call[p].op = op /\ call[p].k = k

\* The calls that are at a step.
Places(c) ==
    LET s == Program[c.op][c.k]
        is(op, k) == c.op = op /\ c.k = k
    IN
    /\ s = "insert" => is("enable", 1)
    /\ s = "nodes" => \/ is("enable", 2) \/ is("disable", 1) \/ is("stealth_on", 1)
                      \/ is("stealth_off", 1)
    /\ s = "sfu_ports" => is("enable", 3)
    /\ s = "select" => is("enable", 4)
    /\ s = "turn_ports" => is("enable", 5)
    /\ s = "ports" => is("enable", 6)
    /\ s = "turn" => is("enable", 7)
    /\ s = "sfu" => is("enable", 8)
    /\ s = "clear_dns" => is("enable", 9) \/ is("disable", 6)
    /\ s = "dns" => is("enable", 10)
    /\ s = "files" => \/ is("enable", 11) \/ is("disable", 9) \/ is("stealth_on", 7)
                      \/ is("stealth_off", 6)
    /\ s = "gateways" => \/ is("enable", 12) \/ is("disable", 10) \/ is("stealth_on", 8)
                         \/ is("stealth_off", 7)
    /\ s = "stop_both" => is("cleanup", 1)
    /\ s = "free" => is("cleanup", 2) \/ is("disable", 5)
    /\ s = "delete" => is("cleanup", 3) \/ is("disable", 8)
    /\ s = "stop_sfu" => is("disable", 2)
    /\ s = "read_turn" => is("disable", 3)
    /\ s = "stop_turn" => is("disable", 4)
    /\ s = "clear_stealth" => \/ is("disable", 7) \/ is("stealth_on", 2) \/ is("rollback", 2)
                              \/ is("stealth_off", 4)
    /\ s = "stealth_dns" => is("stealth_on", 3)
    /\ s = "flag" => is("stealth_on", 4) \/ is("rollback", 1) \/ is("stealth_off", 2)
    /\ s = "respawn" => is("stealth_on", 5) \/ is("stealth_off", 3)
    /\ s = "blocks" => is("stealth_on", 6) \/ is("stealth_off", 5)

\* The name of a call's step gives the call and the place in its program.
LEMMA StepPlaces == ASSUME NEW c, Proper(c), c.op # "none" PROVE Places(c)
<1>1. c.k \in 1 .. Len(Program[c.op]) /\ c.op \in Operations
  BY DEF Proper, CallTypes
<1>2. CASE c.op = "enable"
  <2>1. c.k \in 1 .. 12
    BY <1>1, <1>2, Lengths
  <2> QED
    BY <1>2, <2>1, EnableProgram DEF Places
<1>3. CASE c.op = "disable"
  <2>1. c.k \in 1 .. 10
    BY <1>1, <1>3, Lengths
  <2> QED
    BY <1>3, <2>1, DisableProgram DEF Places
<1>4. CASE c.op = "stealth_on"
  <2>1. c.k \in 1 .. 8
    BY <1>1, <1>4, Lengths
  <2> QED
    BY <1>4, <2>1, StealthProgram DEF Places
<1>5. CASE c.op = "stealth_off"
  <2>1. c.k \in 1 .. 7
    BY <1>1, <1>5, Lengths
  <2> QED
    BY <1>5, <2>1, StealthProgram DEF Places
<1>6. CASE c.op \in {"cleanup", "rollback"}
  <2>1. (c.op = "cleanup" => c.k \in 1 .. 3) /\ (c.op = "rollback" => c.k \in 1 .. 2)
    BY <1>1, <1>6, Lengths
  <2> QED
    BY <1>6, <2>1, UndoProgram DEF Places
<1> QED
  BY <1>1, <1>2, <1>3, <1>4, <1>5, <1>6 DEF Operations

\* Which call is at which step.
LEMMA Where ==
    ASSUME TaskTypes, NEW p \in Nodes, NEW s, At(p, s)
    PROVE  /\ call[p].op # "none" /\ Proper(call[p]) /\ Places(call[p])
           /\ Program[call[p].op][call[p].k] = s
BY StepPlaces DEF TaskTypes, At, Step

-----------------------------------------------------------------------------
(* Types are kept. *)

\* A call that moves to a step with the right nodes is well formed.
LEMMA ProperMoved ==
    ASSUME NEW c \in CallTypes, c.op # "none", NEW k \in 1 .. Len(Program[c.op]), NEW todo, NEW d,
           Moved(c, d, k, todo), Program[c.op][k] \in OverAll => todo # {},
           Program[c.op][k] \in OverTURN => todo # {} /\ todo \subseteq c.on,
           Program[c.op][k] \notin OverAll \cup OverTURN => todo = {},
           c.op = "enable" => c.sec # None
    PROVE  Proper(d)
BY DEF Proper, Moved

\* No step over the TURN nodes comes last or right after another.
LEMMA EnableGaps ==
    ASSUME NEW k \in Nat, k >= 1, k < 12, Program["enable"][k + 1] \in OverTURN
    PROVE  k + 1 < 12 /\ Program["enable"][k + 2] \notin OverTURN
<1>1. k + 1 \in 1 .. 12
  OBVIOUS
<1>2. k + 1 \in {5, 7, 10}
  BY <1>1, EnableKinds
<1>3. k + 2 \in 1 .. 12 /\ k + 2 \notin {5, 7, 10}
  BY <1>2
<1> QED
  BY <1>2, <1>3, EnableKinds

\* After a step over TURN nodes DisableWebRTC has another step.
LEMMA DisableGaps ==
    ASSUME NEW k \in Nat, k >= 1, k < 10, Program["disable"][k + 1] \in OverTURN
    PROVE  k + 1 < 10 /\ Program["disable"][k + 2] \notin OverTURN
<1>1. k + 1 \in 1 .. 10
  OBVIOUS
<1>2. k + 1 \in {4}
  BY <1>1, DisableKinds
<1>3. k + 2 \in 1 .. 10 /\ k + 2 \notin {4}
  BY <1>2
<1> QED
  BY <1>2, <1>3, DisableKinds

\* After a step over TURN nodes EnableWebRTCStealth has a step over other nodes.
LEMMA StealthOnGaps ==
    ASSUME NEW k \in Nat, k >= 1, k < 8, Program["stealth_on"][k + 1] \in OverTURN
    PROVE  k + 1 < 8 /\ Program["stealth_on"][k + 2] \notin OverTURN
<1>1. k + 1 \in 1 .. 8
  OBVIOUS
<1>2. k + 1 \in {3, 5}
  BY <1>1, StealthOnKinds
<1>3. k + 2 \in 1 .. 8 /\ k + 2 \notin {3, 5}
  BY <1>2
<1> QED
  BY <1>2, <1>3, StealthOnKinds

\* After a step over TURN nodes DisableWebRTCStealth has a step over other nodes.
LEMMA StealthOffGaps ==
    ASSUME NEW k \in Nat, k >= 1, k < 7, Program["stealth_off"][k + 1] \in OverTURN
    PROVE  k + 1 < 7 /\ Program["stealth_off"][k + 2] \notin OverTURN
<1>1. k + 1 \in 1 .. 7
  OBVIOUS
<1>2. k + 1 \in {3}
  BY <1>1, StealthOffKinds
<1>3. k + 2 \in 1 .. 7 /\ k + 2 \notin {3}
  BY <1>2
<1> QED
  BY <1>2, <1>3, StealthOffKinds

\* The call is well formed when it goes on to the next step,
LEMMA ProperFollow ==
    ASSUME NEW c \in CallTypes, c.op # "none", c.k \in 1 .. Len(Program[c.op]),
           c.op = "enable" => c.sec # None
    PROVE  Proper(Follow(c))
<1>0. Proper(NoCall) /\ Nodes # {}
  BY NoCallFacts, Constants DEF Proper, Nodes
<1>1. ASSUME NEW l \in 0 .. 12, Len(Program[c.op]) = l, c.k < l,
             NEW s, s = Program[c.op][c.k + 1], NEW t, t = Program[c.op][c.k + 2],
             s \in OverTURN => c.k + 1 < l /\ t \notin OverTURN
      PROVE  Proper(Follow(c))
  <2>1. c.k + 1 \in 1 .. Len(Program[c.op])
    BY <1>1 DEF CallTypes
  <2>2. CASE s \in OverAll
    <3>1. Moved(c, Follow(c), c.k + 1, Nodes) /\ s \notin OverTURN
      BY <1>1, <2>2, FollowMoves DEF OverAll, OverTURN
    <3> QED
      BY <1>0, <1>1, <2>1, <2>2, <3>1, ProperMoved
  <2>3. CASE s \in OverTURN /\ c.on # {}
    <3>1. Moved(c, Follow(c), c.k + 1, c.on)
      BY <1>1, <2>3, FollowMoves
    <3> QED
      BY <1>1, <2>1, <2>3, <3>1, ProperMoved
  <2>4. CASE s \notin OverAll /\ s \notin OverTURN
    <3>1. Moved(c, Follow(c), c.k + 1, {})
      BY <1>1, <2>4, FollowMoves
    <3> QED
      BY <1>1, <2>1, <2>4, <3>1, ProperMoved
  <2>5. CASE s \in OverTURN /\ c.on = {}
    <3>1. c.k + 2 \in 1 .. Len(Program[c.op]) /\ c.k + 1 < l /\ t \notin OverTURN
      BY <1>1, <2>5 DEF CallTypes
    <3>2. CASE t \in OverAll
      <4>1. Moved(c, Follow(c), c.k + 2, Nodes)
        BY <1>1, <2>5, <3>1, <3>2, FollowSkips
      <4> QED
        BY <1>0, <1>1, <3>1, <3>2, <4>1, ProperMoved
    <3>3. CASE t \notin OverAll
      <4>1. Moved(c, Follow(c), c.k + 2, {})
        BY <1>1, <2>5, <3>1, <3>3, FollowSkips
      <4> QED
        BY <1>1, <3>1, <3>3, <4>1, ProperMoved
    <3> QED
      BY <3>2, <3>3
  <2> QED
    BY <2>2, <2>3, <2>4, <2>5
<1>2. ASSUME NEW l \in 0 .. 12, Len(Program[c.op]) = l, c.k >= l PROVE Proper(Follow(c))
  BY <1>0, <1>2, FollowIs
<1>3. c.op \in Operations /\ c.k \in Nat /\ c.k >= 1
  <2>1. Len(Program[c.op]) \in Nat
    BY Lengths DEF CallTypes, Operations
  <2> QED
    BY <2>1 DEF CallTypes
<1>4. CASE c.op = "enable"
  <2>1. Len(Program[c.op]) = 12 /\ 12 \in 0 .. 12
    BY <1>4, Lengths
  <2>2. c.k < 12 /\ Program[c.op][c.k + 1] \in OverTURN
           => c.k + 1 < 12 /\ Program[c.op][c.k + 2] \notin OverTURN
    BY <1>3, <1>4, EnableGaps
  <2> QED
    BY <1>1, <1>2, <1>3, <2>1, <2>2
<1>5. CASE c.op = "disable"
  <2>1. Len(Program[c.op]) = 10 /\ 10 \in 0 .. 12
    BY <1>5, Lengths
  <2>2. c.k < 10 /\ Program[c.op][c.k + 1] \in OverTURN
           => c.k + 1 < 10 /\ Program[c.op][c.k + 2] \notin OverTURN
    BY <1>3, <1>5, DisableGaps
  <2> QED
    BY <1>1, <1>2, <1>3, <2>1, <2>2
<1>6. CASE c.op = "stealth_on"
  <2>1. Len(Program[c.op]) = 8 /\ 8 \in 0 .. 12
    BY <1>6, Lengths
  <2>2. c.k < 8 /\ Program[c.op][c.k + 1] \in OverTURN
           => c.k + 1 < 8 /\ Program[c.op][c.k + 2] \notin OverTURN
    BY <1>3, <1>6, StealthOnGaps
  <2> QED
    BY <1>1, <1>2, <1>3, <2>1, <2>2
<1>7. CASE c.op = "stealth_off"
  <2>1. Len(Program[c.op]) = 7 /\ 7 \in 0 .. 12
    BY <1>7, Lengths
  <2>2. c.k < 7 /\ Program[c.op][c.k + 1] \in OverTURN
           => c.k + 1 < 7 /\ Program[c.op][c.k + 2] \notin OverTURN
    BY <1>3, <1>7, StealthOffGaps
  <2> QED
    BY <1>1, <1>2, <1>3, <2>1, <2>2
<1>8. CASE c.op = "cleanup"
  <2>1. Len(Program[c.op]) = 3 /\ 3 \in 0 .. 12
    BY <1>8, Lengths
  <2>2. c.k < 3 => Program[c.op][c.k + 1] \notin OverTURN
    BY <1>3, <1>8, CleanupKinds
  <2> QED
    BY <1>1, <1>2, <1>3, <2>1, <2>2
<1>9. CASE c.op = "rollback"
  <2>1. Len(Program[c.op]) = 2 /\ 2 \in 0 .. 12
    BY <1>9, Lengths
  <2>2. c.k < 2 => Program[c.op][c.k + 1] \notin OverTURN
    BY <1>3, <1>9, RollbackKinds
  <2> QED
    BY <1>1, <1>2, <1>3, <2>1, <2>2
<1> QED
  BY <1>3, <1>4, <1>5, <1>6, <1>7, <1>8, <1>9 DEF Operations

\* when it is done with a node,
LEMMA ProperProceed ==
    ASSUME NEW c, Proper(c), c.op # "none"
    PROVE  Proper(Proceed(c))
<1>1. c \in CallTypes /\ c.k \in 1 .. Len(Program[c.op]) /\ (c.op = "enable" => c.sec # None)
  BY DEF Proper
<1>2. CASE Proceed(c) = Follow(c)
  BY <1>1, <1>2, ProperFollow
<1>3. CASE c.todo # {} /\ c.todo # {First(c.todo)}
           /\ Moved(c, Proceed(c), c.k, c.todo \ {First(c.todo)})
  <2>1. c.todo \ {First(c.todo)} # {} /\ c.todo \ {First(c.todo)} \subseteq c.todo
    BY <1>3
  <2> QED
    BY <1>1, <1>3, <2>1, ProperMoved DEF Proper
<1> QED
  BY <1>1, <1>2, <1>3, ProceedMoves

\* and when it meets an error.
LEMMA ProperFail ==
    ASSUME NEW c, Proper(c), c.op # "none"
    PROVE  Proper(Fail(c))
<1>1. c \in CallTypes /\ Nodes # {} /\ Proper(NoCall)
  BY NoCallFacts, Constants DEF Proper, Nodes
<1>2. ASSUME NEW d, Became(c, d, "cleanup", Nodes) PROVE Proper(d)
  <2>1. /\ 1 \in 1 .. Len(Program["cleanup"])
        /\ Program["cleanup"][1] \notin OverTURN /\ Program["cleanup"][1] \in OverAll
    BY Lengths, CleanupKinds
  <2> QED
    BY <1>1, <1>2, <2>1 DEF Became, Proper
<1>3. ASSUME NEW d, Became(c, d, "rollback", {}) PROVE Proper(d)
  <2>1. /\ 1 \in 1 .. Len(Program["rollback"])
        /\ Program["rollback"][1] \notin OverTURN /\ Program["rollback"][1] \notin OverAll
    BY Lengths, RollbackKinds
  <2> QED
    BY <1>1, <1>3, <2>1 DEF Became, Proper
<1>4. Proper(Proceed(c))
  BY ProperProceed
<1> QED
  BY <1>1, <1>2, <1>3, <1>4, FailCases

\* The call, with what it has read.
LEMMA ProperWith ==
    ASSUME NEW c, Proper(c), c.op # "none", NEW d \in CallTypes,
           d.op = c.op, d.k = c.k, d.todo = c.todo, d.sec = c.sec,
           Program[c.op][c.k] \in OverTURN => d.on = c.on
    PROVE  Proper(d)
BY DEF Proper

\* A step of the call of p.
Steps(p, d) ==
    /\ call' \in [Nodes -> CallTypes] /\ call'[p] = d /\ Proper(d)
    /\ \A n \in Nodes \ {p} : call'[n] = call[n]

\* An assignment of a well-formed call is a step of that call alone.
LEMMA CallSteps ==
    ASSUME TaskTypes, NEW p \in Nodes, NEW d, Proper(d), call' = [call EXCEPT ![p] = d]
    PROVE  Steps(p, d)
BY DEF TaskTypes, Steps, Proper

\* A step of one call keeps the types of all tasks.
LEMMA StepsTyped ==
    ASSUME TaskTypes, NEW p \in Nodes, NEW d, Steps(p, d), up' = up, restore' = restore
    PROVE  TaskTypes'
<1>1. \A n \in Nodes : Proper(call'[n])
  BY DEF TaskTypes, Steps
<1>2. call' \in [Nodes -> CallTypes]
  BY DEF Steps
<1> QED
  BY <1>1, <1>2 DEF TaskTypes, Proper

\* A call that is done with a node steps to where Proceed says.
LEMMA GoesSteps ==
    ASSUME TaskTypes, NEW p \in Nodes, NEW c, Proper(c), c.op # "none", Goes(p, c)
    PROVE  Steps(p, Proceed(c))
BY CallSteps, ProperProceed DEF Goes

\* A call that meets an error steps to where Fail says.
LEMMA FailsSteps ==
    ASSUME TaskTypes, NEW p \in Nodes, call[p].op # "none", Fails(p)
    PROVE  Steps(p, Fail(call[p]))
BY CallSteps, ProperFail DEF Fails, TaskTypes

\* The node a step is about.
LEMMA NodeOf ==
    ASSUME TaskTypes, NEW p \in Nodes, NEW s, At(p, s), s \in OverAll \cup OverTURN
    PROVE  Node(p) \in call[p].todo /\ Node(p) \in Nodes
<1>1. Proper(call[p]) /\ call[p].op # "none" /\ Program[call[p].op][call[p].k] = s
  BY Where
<1>2. call[p].todo # {} /\ call[p].todo \in SUBSET Nat /\ call[p].todo \subseteq Nodes
  BY <1>1, Constants DEF Proper, CallTypes
<1> QED
  BY <1>2, FirstIn DEF Node

\* Unchanged tables keep their types.
LEMMA KeepTables == ASSUME TableTypes, UNCHANGED tables PROVE TableTypes'
BY DEF TableTypes, tables

\* Unchanged services and state files keep their types.
LEMMA KeepUnits == ASSUME UnitTypes, UNCHANGED <<units, file>> PROVE UnitTypes'
BY DEF UnitTypes, units

\* A statement that fails.
LEMMA LostTypes ==
    ASSUME Types, NEW p \in Nodes, call[p].op # "none", NEW w, Lost(p, w),
           UNCHANGED <<CallVars, units, file>>
    PROVE  Types' /\ Steps(p, Fail(call[p]))
<1>1. Fails(p) /\ UNCHANGED tables /\ up' = up /\ restore' = restore
  BY DEF Lost, CallVars
<1>2. Steps(p, Fail(call[p]))
  BY <1>1, FailsSteps DEF Types
<1> QED
  BY <1>1, <1>2, KeepTables, KeepUnits, StepsTyped DEF Types

\* Inserting the row of webrtc_config keeps the types and moves only its own call;
LEMMA InsertTypes == ASSUME Types, NEW p \in Nodes, Insert(p) PROVE Types' /\ \E d : Steps(p, d)
<1>1. call[p].op # "none" /\ Proper(call[p]) /\ call[p].sec \in Secrets
  BY Where DEF Insert, Types, Proper, CallTypes
<1>2. \E d : Steps(p, d)
  <2>1. Goes(p, call[p]) \/ Fails(p)
    BY DEF Insert, Lost
  <2> QED
    BY <1>1, <2>1, GoesSteps, FailsSteps DEF Types
<1>3. TaskTypes'
  BY <1>2, StepsTyped DEF Insert, CallVars, Types
<1>4. TableTypes'
  <2>1. \/ UNCHANGED tables
        \/ config' = call[p].sec /\ stealth' = FALSE /\ UNCHANGED <<next, rows, turnDNS, stealthDNS>>
    BY DEF Insert, Lost
  <2> QED
    BY <1>1, <2>1, KeepTables DEF Types, TableTypes
<1> QED
  BY <1>2, <1>3, <1>4, KeepUnits DEF Insert, Types

\* so does reading the nodes of the cluster,
LEMMA ReadNodesTypes == ASSUME Types, NEW p \in Nodes, ReadNodes(p) PROVE Types' /\ \E d : Steps(p, d)
<1> DEFINE on == {n \in Nodes : rows.turn[n] # None}
           read == [call[p] EXCEPT !.turn = rows.turn, !.on = on]
<1>1. /\ call[p].op # "none" /\ Proper(call[p])
      /\ Program[call[p].op][call[p].k] = "nodes" /\ "nodes" \notin OverTURN
  BY Where DEF ReadNodes, Types, OverTURN
<1>2. call[p] \in CallTypes /\ rows.turn \in Blocks
  BY <1>1 DEF Proper, Types, TableTypes
<1>3. /\ read \in CallTypes /\ read.op = call[p].op /\ read.k = call[p].k
      /\ read.todo = call[p].todo /\ read.sec = call[p].sec
  BY <1>2 DEF CallTypes
<1>4. UNCHANGED tables /\ (Goes(p, call[p]) \/ Fails(p) \/ Goes(p, read))
  BY DEF ReadNodes, Lost
<1> HIDE DEF read
<1>5. Proper(read)
  BY <1>1, <1>3, ProperWith
<1>6. \E d : Steps(p, d)
  BY <1>1, <1>3, <1>4, <1>5, GoesSteps, FailsSteps DEF Types
<1>7. TaskTypes'
  BY <1>6, StepsTyped DEF ReadNodes, CallVars, Types
<1> QED
  BY <1>4, <1>6, <1>7, KeepTables, KeepUnits DEF ReadNodes, Types

\* releasing the ports,
LEMMA DeallocateAllTypes == ASSUME Types, NEW p \in Nodes, DeallocateAll(p) PROVE Types' /\ \E d : Steps(p, d)
<1>1. call[p].op # "none" /\ Proper(call[p]) /\ up' = up /\ restore' = restore
  BY Where DEF DeallocateAll, Types, CallVars
<1>2. \E d : Steps(p, d)
  <2>1. Goes(p, call[p]) \/ Fails(p)
    BY DEF DeallocateAll, Lost
  <2> QED
    BY <1>1, <2>1, GoesSteps, FailsSteps DEF Types
<1>3. TableTypes'
  <2>1. \/ UNCHANGED tables
        \/ rows' = [sfu |-> NoBlocks, turn |-> NoBlocks]
           /\ UNCHANGED <<config, stealth, next, turnDNS, stealthDNS>>
    BY DEF DeallocateAll, Lost
  <2> QED
    BY <2>1, KeepTables, NoCallFacts DEF Types, TableTypes
<1>4. UnitTypes'
  BY KeepUnits DEF DeallocateAll, Types
<1> QED
  BY <1>1, <1>2, <1>3, <1>4, StepsTyped DEF Types

\* deleting the row,
LEMMA DeleteConfigTypes == ASSUME Types, NEW p \in Nodes, DeleteConfig(p) PROVE Types' /\ \E d : Steps(p, d)
<1>1. call[p].op # "none" /\ Proper(call[p]) /\ up' = up /\ restore' = restore
  BY Where DEF DeleteConfig, Types, CallVars
<1>2. \E d : Steps(p, d)
  <2>1. Goes(p, call[p]) \/ Fails(p)
    BY DEF DeleteConfig, Lost
  <2> QED
    BY <1>1, <2>1, GoesSteps, FailsSteps DEF Types
<1>3. TableTypes'
  <2>1. \/ UNCHANGED tables
        \/ config' = None /\ stealth' = FALSE
           /\ UNCHANGED <<next, rows, turnDNS, stealthDNS>>
    BY DEF DeleteConfig, Lost
  <2> QED
    BY <2>1, KeepTables, Constants DEF Types, TableTypes
<1>4. UnitTypes'
  BY KeepUnits DEF DeleteConfig, Types
<1> QED
  BY <1>1, <1>2, <1>3, <1>4, StepsTyped DEF Types

\* deleting the TURN records,
LEMMA ClearDNSTypes == ASSUME Types, NEW p \in Nodes, ClearDNS(p) PROVE Types' /\ \E d : Steps(p, d)
<1>1. call[p].op # "none" /\ Proper(call[p]) /\ up' = up /\ restore' = restore
  BY Where DEF ClearDNS, Types, CallVars
<1>2. \E d : Steps(p, d)
  <2>1. Goes(p, call[p]) \/ Fails(p)
    BY DEF ClearDNS, Lost
  <2> QED
    BY <1>1, <2>1, GoesSteps, FailsSteps DEF Types
<1>3. TableTypes'
  <2>1. \/ UNCHANGED tables
        \/ turnDNS' = {}
           /\ UNCHANGED <<config, stealth, next, rows, stealthDNS>>
    BY DEF ClearDNS, Lost
  <2> QED
    BY <2>1, KeepTables DEF Types, TableTypes
<1>4. UnitTypes'
  BY KeepUnits DEF ClearDNS, Types
<1> QED
  BY <1>1, <1>2, <1>3, <1>4, StepsTyped DEF Types

\* creating the TURN records,
LEMMA CreateTURNRecordsTypes == ASSUME Types, NEW p \in Nodes, CreateTURNRecords(p) PROVE Types' /\ \E d : Steps(p, d)
<1>1. call[p].op # "none" /\ Proper(call[p]) /\ up' = up /\ restore' = restore
  BY Where DEF CreateTURNRecords, Types, CallVars
<1>2. \E d : Steps(p, d)
  <2>1. Goes(p, call[p]) \/ Fails(p)
    BY DEF CreateTURNRecords, Lost
  <2> QED
    BY <1>1, <2>1, GoesSteps, FailsSteps DEF Types
<1>3. TableTypes'
  <2>1. \/ UNCHANGED tables
        \/ turnDNS' = turnDNS \cup {Node(p)}
           /\ UNCHANGED <<config, stealth, next, rows, stealthDNS>>
    BY DEF CreateTURNRecords, Lost
  <2>2. Node(p) \in Nodes
    BY NodeOf DEF CreateTURNRecords, Types, OverTURN
  <2> QED
    BY <2>1, <2>2, KeepTables DEF Types, TableTypes
<1>4. UnitTypes'
  BY KeepUnits DEF CreateTURNRecords, Types
<1> QED
  BY <1>1, <1>2, <1>3, <1>4, StepsTyped DEF Types

\* deleting the stealth records,
LEMMA ClearStealthTypes == ASSUME Types, NEW p \in Nodes, ClearStealth(p) PROVE Types' /\ \E d : Steps(p, d)
<1>1. call[p].op # "none" /\ Proper(call[p]) /\ up' = up /\ restore' = restore
  BY Where DEF ClearStealth, Types, CallVars
<1>2. \E d : Steps(p, d)
  <2>1. Goes(p, call[p]) \/ Fails(p)
    BY DEF ClearStealth, Lost
  <2> QED
    BY <1>1, <2>1, GoesSteps, FailsSteps DEF Types
<1>3. TableTypes'
  <2>1. \/ UNCHANGED tables
        \/ stealthDNS' = {}
           /\ UNCHANGED <<config, stealth, next, rows, turnDNS>>
    BY DEF ClearStealth, Lost
  <2> QED
    BY <2>1, KeepTables DEF Types, TableTypes
<1>4. UnitTypes'
  BY KeepUnits DEF ClearStealth, Types
<1> QED
  BY <1>1, <1>2, <1>3, <1>4, StepsTyped DEF Types

\* creating the stealth records,
LEMMA CreateStealthRecordsTypes == ASSUME Types, NEW p \in Nodes, CreateStealthRecords(p) PROVE Types' /\ \E d : Steps(p, d)
<1>1. call[p].op # "none" /\ Proper(call[p]) /\ up' = up /\ restore' = restore
  BY Where DEF CreateStealthRecords, Types, CallVars
<1>2. \E d : Steps(p, d)
  <2>1. Goes(p, call[p]) \/ Fails(p)
    BY DEF CreateStealthRecords, Lost
  <2> QED
    BY <1>1, <2>1, GoesSteps, FailsSteps DEF Types
<1>3. TableTypes'
  <2>1. \/ UNCHANGED tables
        \/ stealthDNS' = stealthDNS \cup {Node(p)}
           /\ UNCHANGED <<config, stealth, next, rows, turnDNS>>
    BY DEF CreateStealthRecords, Lost
  <2>2. Node(p) \in Nodes
    BY NodeOf DEF CreateStealthRecords, Types, OverTURN
  <2> QED
    BY <2>1, <2>2, KeepTables DEF Types, TableTypes
<1>4. UnitTypes'
  BY KeepUnits DEF CreateStealthRecords, Types
<1> QED
  BY <1>1, <1>2, <1>3, <1>4, StepsTyped DEF Types

\* setting the flag,
LEMMA SetStealthEnabledTypes == ASSUME Types, NEW p \in Nodes, SetStealthEnabled(p) PROVE Types' /\ \E d : Steps(p, d)
<1>1. call[p].op # "none" /\ Proper(call[p]) /\ up' = up /\ restore' = restore
  BY Where DEF SetStealthEnabled, Types, CallVars
<1>2. \E d : Steps(p, d)
  <2>1. Goes(p, call[p]) \/ Fails(p)
    BY DEF SetStealthEnabled, Lost
  <2> QED
    BY <1>1, <2>1, GoesSteps, FailsSteps DEF Types
<1>3. TableTypes'
  <2>1. \/ UNCHANGED tables
        \/ stealth' \in BOOLEAN
           /\ UNCHANGED <<config, next, rows, turnDNS, stealthDNS>>
    BY DEF SetStealthEnabled, Lost
  <2> QED
    BY <2>1, KeepTables DEF Types, TableTypes
<1>4. UnitTypes'
  BY KeepUnits DEF SetStealthEnabled, Types
<1> QED
  BY <1>1, <1>2, <1>3, <1>4, StepsTyped DEF Types

\* reserving a node's ports,
LEMMA AllocateTypes ==
    ASSUME Types, NEW p \in Nodes, NEW kind \in {"sfu", "turn"}, NEW s \in {"sfu_ports", "turn_ports"},
           Allocate(p, s, kind)
    PROVE  Types' /\ \E d : Steps(p, d)
<1> DEFINE n == Node(p)
           block == IF rows[kind][n] # None THEN rows[kind][n] ELSE call[p].sec
           with == IF kind = "sfu" THEN [call[p] EXCEPT !.sfu[n] = block]
                                   ELSE [call[p] EXCEPT !.turn[n] = block]
<1>1. call[p].op # "none" /\ Proper(call[p]) /\ up' = up /\ restore' = restore
  BY Where DEF Allocate, Types, CallVars
<1>2. n \in Nodes
  BY NodeOf DEF Allocate, Types, OverTURN, OverAll
<1>3. rows.sfu \in Blocks /\ rows.turn \in Blocks /\ rows \in [sfu : Blocks, turn : Blocks]
  BY DEF Types, TableTypes
<1>4. block \in Secrets
  <2>1. call[p].sec \in Secrets
    BY <1>1 DEF Proper, CallTypes
  <2>2. rows[kind][n] \in Secrets
    BY <1>2, <1>3 DEF Blocks
  <2> QED
    BY <2>1, <2>2
<1> HIDE DEF n, block
<1>5. /\ with \in CallTypes /\ with.op = call[p].op /\ with.k = call[p].k
      /\ with.todo = call[p].todo /\ with.sec = call[p].sec
      /\ with.on = call[p].on
  <2>1. call[p] \in CallTypes
    BY <1>1 DEF Proper
  <2>2. CASE kind = "sfu"
    <3>1. with = [call[p] EXCEPT !.sfu = [call[p].sfu EXCEPT ![n] = block]]
      BY <2>1, <2>2 DEF CallTypes
    <3>2. [call[p].sfu EXCEPT ![n] = block] \in Blocks
      BY <1>2, <1>4, <2>1 DEF CallTypes, Blocks
    <3> HIDE DEF with
    <3> QED
      BY <2>1, <3>1, <3>2 DEF CallTypes
  <2>3. CASE kind = "turn"
    <3>1. with = [call[p] EXCEPT !.turn = [call[p].turn EXCEPT ![n] = block]]
      BY <2>1, <2>3 DEF CallTypes
    <3>2. [call[p].turn EXCEPT ![n] = block] \in Blocks
      BY <1>2, <1>4, <2>1 DEF CallTypes, Blocks
    <3> HIDE DEF with
    <3> QED
      BY <2>1, <3>1, <3>2 DEF CallTypes
  <2> QED
    BY <2>2, <2>3
<1>6. \/ /\ rows' = [rows EXCEPT ![kind][n] = block]
         /\ UNCHANGED <<config, stealth, next, turnDNS, stealthDNS>> /\ Goes(p, with)
      \/ UNCHANGED tables /\ Fails(p)
  BY DEF Allocate, n, block
<1> HIDE DEF with
<1>7. \E d : Steps(p, d)
  <2>1. Proper(with)
    BY <1>1, <1>5, ProperWith
  <2> QED
    BY <1>1, <1>5, <1>6, <2>1, GoesSteps, FailsSteps DEF Types
<1>8. TableTypes'
  <2>1. CASE rows' = [rows EXCEPT ![kind][n] = block]
             /\ UNCHANGED <<config, stealth, next, turnDNS, stealthDNS>>
    <3>1. rows' \in [sfu : Blocks, turn : Blocks]
      BY <1>2, <1>3, <1>4, <2>1 DEF Blocks
    <3> QED
      BY <2>1, <3>1 DEF Types, TableTypes
  <2> QED
    BY <1>6, <2>1, KeepTables DEF Types
<1>9. UnitTypes'
  BY KeepUnits DEF Allocate, Types
<1> QED
  BY <1>1, <1>7, <1>8, <1>9, StepsTyped DEF Types

\* Steps that change the call only.
LEMMA SelectTURNNodesTypes ==
    ASSUME Types, NEW p \in Nodes, SelectTURNNodes(p) PROVE Types' /\ \E d : Steps(p, d)
<1>1. /\ call[p].op # "none" /\ Proper(call[p]) /\ up' = up /\ restore' = restore
      /\ Program[call[p].op][call[p].k] = "select" /\ "select" \notin OverTURN
  BY Where DEF SelectTURNNodes, Types, CallVars, OverTURN
<1>2. PICK on \in SUBSET Nodes : Goes(p, [call[p] EXCEPT !.on = on])
  BY DEF SelectTURNNodes
<1> DEFINE with == [call[p] EXCEPT !.on = on]
<1>3. /\ with \in CallTypes /\ with.op = call[p].op /\ with.k = call[p].k
      /\ with.todo = call[p].todo /\ with.sec = call[p].sec
  BY <1>1 DEF Proper, CallTypes
<1> HIDE DEF with
<1>4. Proper(with)
  BY <1>1, <1>3, ProperWith
<1>5. \E d : Steps(p, d)
  BY <1>1, <1>2, <1>3, <1>4, GoesSteps DEF Types, with
<1>6. TableTypes' /\ UnitTypes'
  BY KeepTables, KeepUnits DEF SelectTURNNodes, Types
<1> QED
  BY <1>1, <1>5, <1>6, StepsTyped DEF Types

\* reading the ports,
LEMMA ReadPortsTypes ==
    ASSUME Types, NEW p \in Nodes, ReadPorts(p) PROVE Types' /\ \E d : Steps(p, d)
<1>1. call[p].op # "none" /\ Proper(call[p]) /\ up' = up /\ restore' = restore
  BY Where DEF ReadPorts, Types, CallVars
<1>2. Goes(p, call[p]) \/ Fails(p)
  BY DEF ReadPorts
<1>3. \E d : Steps(p, d)
  BY <1>1, <1>2, GoesSteps, FailsSteps DEF Types
<1>4. TableTypes' /\ UnitTypes'
  BY KeepTables, KeepUnits DEF ReadPorts, Types
<1> QED
  BY <1>1, <1>3, <1>4, StepsTyped DEF Types

\* reading the TURN nodes,
LEMMA ReadTURNTypes ==
    ASSUME Types, NEW p \in Nodes, ReadTURN(p) PROVE Types' /\ \E d : Steps(p, d)
<1> DEFINE with == [call[p] EXCEPT !.on = {n \in Nodes : rows.turn[n] # None}]
<1>1. /\ call[p].op # "none" /\ Proper(call[p]) /\ up' = up /\ restore' = restore
      /\ Program[call[p].op][call[p].k] = "read_turn" /\ "read_turn" \notin OverTURN
  BY Where DEF ReadTURN, Types, CallVars, OverTURN
<1>2. UNCHANGED tables /\ (Goes(p, with) \/ Fails(p))
  BY DEF ReadTURN, Lost
<1>3. /\ with \in CallTypes /\ with.op = call[p].op /\ with.k = call[p].k
      /\ with.todo = call[p].todo /\ with.sec = call[p].sec
  BY <1>1 DEF Proper, CallTypes
<1> HIDE DEF with
<1>4. Proper(with)
  BY <1>1, <1>3, ProperWith
<1>5. \E d : Steps(p, d)
  BY <1>1, <1>2, <1>3, <1>4, GoesSteps, FailsSteps DEF Types
<1>6. TableTypes' /\ UnitTypes'
  BY <1>2, KeepTables, KeepUnits DEF ReadTURN, Types
<1> QED
  BY <1>1, <1>5, <1>6, StepsTyped DEF Types

\* and reading all the port blocks.
LEMMA ReadBlocksTypes ==
    ASSUME Types, NEW p \in Nodes, ReadBlocks(p) PROVE Types' /\ \E d : Steps(p, d)
<1>1. /\ call[p].op # "none" /\ Proper(call[p]) /\ up' = up /\ restore' = restore
      /\ Program[call[p].op][call[p].k] = "blocks" /\ "blocks" \notin OverTURN
  BY Where DEF ReadBlocks, Types, CallVars, OverTURN
<1>2. PICK read \in SUBSET {"sfu", "turn"} :
         Goes(p, [call[p] EXCEPT !.sfu = IF "sfu" \in read THEN rows.sfu ELSE NoBlocks,
                                 !.turn = IF "turn" \in read THEN rows.turn ELSE NoBlocks])
  BY DEF ReadBlocks
<1> DEFINE s == IF "sfu" \in read THEN rows.sfu ELSE NoBlocks
           t == IF "turn" \in read THEN rows.turn ELSE NoBlocks
           with == [call[p] EXCEPT !.sfu = s, !.turn = t]
<1>3. s \in Blocks /\ t \in Blocks
  BY NoCallFacts DEF Types, TableTypes
<1>4. Goes(p, with)
  BY <1>2
<1> HIDE DEF s, t
<1>5. /\ with \in CallTypes /\ with.op = call[p].op /\ with.k = call[p].k
      /\ with.todo = call[p].todo /\ with.sec = call[p].sec
  BY <1>1, <1>3 DEF Proper, CallTypes
<1> HIDE DEF with
<1>6. Proper(with)
  BY <1>1, <1>5, ProperWith
<1>7. \E d : Steps(p, d)
  BY <1>1, <1>4, <1>5, <1>6, GoesSteps DEF Types
<1>8. TableTypes' /\ UnitTypes'
  BY KeepTables, KeepUnits DEF ReadBlocks, Types
<1> QED
  BY <1>1, <1>7, <1>8, StepsTyped DEF Types
\* What a node without WebRTC runs and stores is well typed.
LEMMA Values ==
    /\ NoSFU \in SFUs /\ NoTURN \in TURNs /\ Plain \in Gateways /\ Down \in Gateways
    /\ NoFile \in Files /\ PlainFile \in Files /\ NoRestore \in RestoreTypes
<1>1. NoSFU \in SFUs /\ NoTURN \in TURNs /\ Plain \in Gateways /\ NoFile \in Files
  BY Constants DEF NoSFU, SFUs, NoTURN, TURNs, Plain, Gateways, NoFile, Files
<1>2. Down \in Gateways /\ PlainFile \in Files
  BY <1>1 DEF Down, PlainFile, Gateways, Files
<1> QED
  BY <1>1, <1>2 DEF NoRestore, RestoreTypes

\* Starting a unit keeps the types.
LEMMA StartedTypes ==
    ASSUME NEW R, NEW unit \in [Nodes -> R], NEW n \in Nodes, NEW cfg \in R
    PROVE  Started(unit, n, cfg) \in [Nodes -> R]
BY DEF Started

\* What a call gives a node.
LEMMA CallGives ==
    ASSUME NEW p \in Nodes, Proper(call[p]), NEW n \in Nodes
    PROVE  /\ call[p].sec \in Secrets /\ call[p].turn[n] \in Secrets /\ call[p].sfu[n] \in Secrets
           /\ Wanted(p) \in BOOLEAN
BY DEF Proper, CallTypes, Blocks, Wanted

\* Spawning a TURN server keeps the types and moves only its own call;
LEMMA SpawnTURNTypes ==
    ASSUME Types, NEW p \in Nodes, SpawnTURN(p) PROVE Types' /\ \E d : Steps(p, d)
<1> DEFINE n == Node(p)
           cfg == [sec |-> call[p].sec, port |-> call[p].turn[n], stealth |-> FALSE]
<1>1. call[p].op # "none" /\ Proper(call[p]) /\ up' = up /\ restore' = restore
  BY Where DEF SpawnTURN, Types, CallVars
<1>2. n \in Nodes
  BY NodeOf DEF SpawnTURN, Types, OverTURN
<1>3. cfg \in TURNs
  BY <1>1, <1>2, CallGives DEF TURNs
<1>4. /\ turn' = turn \/ turn' = Started(turn, n, cfg)
      /\ Goes(p, call[p]) \/ Fails(p)
      /\ UNCHANGED <<tables, sfu, gateway, file>>
  BY DEF SpawnTURN
<1> HIDE DEF n, cfg
<1>5. \E d : Steps(p, d)
  BY <1>1, <1>4, GoesSteps, FailsSteps DEF Types
<1>6. turn' \in [Nodes -> TURNs]
  <2>1. turn \in [Nodes -> TURNs]
    BY DEF Types, UnitTypes
  <2>2. Started(turn, n, cfg) \in [Nodes -> TURNs]
    BY <1>2, <1>3, <2>1, StartedTypes, Zenon
  <2> QED
    BY <1>4, <2>1, <2>2
<1>7. TableTypes' /\ UnitTypes'
  BY <1>4, <1>6, KeepTables DEF Types, UnitTypes
<1> QED
  BY <1>1, <1>5, <1>7, StepsTyped DEF Types

\* so does spawning an SFU,
LEMMA SpawnSFUTypes ==
    ASSUME Types, NEW p \in Nodes, SpawnSFU(p) PROVE Types' /\ \E d : Steps(p, d)
<1> DEFINE n == Node(p)
           cfg == [sec |-> call[p].sec, port |-> call[p].sfu[n], media |-> call[p].sfu[n]]
<1>1. call[p].op # "none" /\ Proper(call[p]) /\ up' = up /\ restore' = restore
  BY Where DEF SpawnSFU, Types, CallVars
<1>2. n \in Nodes
  BY NodeOf DEF SpawnSFU, Types, OverAll
<1>3. cfg \in SFUs
  BY <1>1, <1>2, CallGives DEF SFUs
<1>4. /\ sfu' = sfu \/ sfu' = Started(sfu, n, cfg)
      /\ Goes(p, call[p]) \/ Fails(p)
      /\ UNCHANGED <<tables, turn, gateway, file>>
  BY DEF SpawnSFU
<1> HIDE DEF n, cfg
<1>5. \E d : Steps(p, d)
  BY <1>1, <1>4, GoesSteps, FailsSteps DEF Types
<1>6. sfu' \in [Nodes -> SFUs]
  <2>1. sfu \in [Nodes -> SFUs]
    BY DEF Types, UnitTypes
  <2>2. Started(sfu, n, cfg) \in [Nodes -> SFUs]
    BY <1>2, <1>3, <2>1, StartedTypes, Zenon
  <2> QED
    BY <1>4, <2>1, <2>2
<1>7. TableTypes' /\ UnitTypes'
  BY <1>4, <1>6, KeepTables DEF Types, UnitTypes
<1> QED
  BY <1>1, <1>5, <1>7, StepsTyped DEF Types

\* stopping either or both,
LEMMA StopTypes ==
    ASSUME Types, NEW p \in Nodes, StopSFU(p) \/ StopTURN(p) \/ StopBoth(p)
    PROVE  Types' /\ \E d : Steps(p, d)
<1> DEFINE n == Node(p)
<1>1. call[p].op # "none" /\ Proper(call[p]) /\ up' = up /\ restore' = restore
  BY Where DEF StopSFU, StopTURN, StopBoth, Types, CallVars
<1>2. n \in Nodes
  BY NodeOf DEF StopSFU, StopTURN, StopBoth, Types, OverTURN, OverAll
<1>3. /\ turn' = turn \/ turn' = [turn EXCEPT ![n] = NoTURN]
      /\ sfu' = sfu \/ sfu' = [sfu EXCEPT ![n] = NoSFU]
      /\ Goes(p, call[p]) /\ UNCHANGED <<tables, gateway, file>>
  BY DEF StopSFU, StopTURN, StopBoth
<1> HIDE DEF n
<1>4. \E d : Steps(p, d)
  BY <1>1, <1>3, GoesSteps DEF Types
<1>5. TableTypes' /\ UnitTypes'
  BY <1>2, <1>3, Values, KeepTables DEF Types, UnitTypes
<1> QED
  BY <1>1, <1>4, <1>5, StepsTyped DEF Types

\* respawning a TURN server,
LEMMA RespawnTypes ==
    ASSUME Types, NEW p \in Nodes, Respawn(p) PROVE Types' /\ \E d : Steps(p, d)
<1> DEFINE n == Node(p)
           cfg == [sec |-> call[p].sec, port |-> call[p].turn[n], stealth |-> Wanted(p)]
<1>1. call[p].op # "none" /\ Proper(call[p]) /\ up' = up /\ restore' = restore
  BY Where DEF Respawn, Types, CallVars
<1>2. n \in Nodes
  BY NodeOf DEF Respawn, Types, OverTURN
<1>3. cfg \in TURNs
  BY <1>1, <1>2, CallGives DEF TURNs
<1>4. /\ turn' = turn \/ turn' = [turn EXCEPT ![n] = cfg] \/ turn' = [turn EXCEPT ![n] = NoTURN]
      /\ Goes(p, call[p]) \/ Fails(p)
      /\ UNCHANGED <<tables, sfu, gateway, file>>
  BY DEF Respawn
<1> HIDE DEF n, cfg
<1>5. \E d : Steps(p, d)
  BY <1>1, <1>4, GoesSteps, FailsSteps DEF Types
<1>6. turn' \in [Nodes -> TURNs]
  BY <1>2, <1>3, <1>4, Values DEF Types, UnitTypes
<1>7. TableTypes' /\ UnitTypes'
  BY <1>4, <1>6, KeepTables DEF Types, UnitTypes
<1> QED
  BY <1>1, <1>5, <1>7, StepsTyped DEF Types

\* A step over the nodes that is left altogether.
LEMMA LeavesSteps ==
    ASSUME TaskTypes, NEW p \in Nodes, Proper(call[p]), call[p].op # "none",
           call' = [call EXCEPT ![p] = Follow(@)]
    PROVE  Steps(p, Follow(call[p]))
<1>1. call' = [call EXCEPT ![p] = Follow(call[p])]
  BY DEF TaskTypes
<1>2. Proper(Follow(call[p]))
  BY ProperFollow DEF Proper
<1> QED
  BY <1>1, <1>2, CallSteps

\* writing a state file,
LEMMA SaveStateTypes ==
    ASSUME Types, NEW p \in Nodes, SaveState(p) PROVE Types' /\ \E d : Steps(p, d)
<1> DEFINE n == Node(p)
<1>1. call[p].op # "none" /\ Proper(call[p]) /\ up' = up /\ restore' = restore
  BY Where DEF SaveState, Types, CallVars
<1>2. n \in Nodes
  BY NodeOf DEF SaveState, Types, OverAll
<1>3. State(p, n) \in Files
  BY <1>1, <1>2, CallGives DEF Files, State
<1>4. /\ file' = file \/ file' = [file EXCEPT ![n] = State(p, n)]
      /\ UNCHANGED <<tables, units>>
      /\ Goes(p, call[p]) \/ call' = [call EXCEPT ![p] = Follow(@)]
  BY DEF SaveState
<1> HIDE DEF n
<1>5. \E d : Steps(p, d)
  BY <1>1, <1>4, GoesSteps, LeavesSteps DEF Types
<1>6. TableTypes' /\ UnitTypes'
  BY <1>2, <1>3, <1>4, KeepTables DEF Types, UnitTypes, units
<1> QED
  BY <1>1, <1>5, <1>6, StepsTyped DEF Types

\* and restarting a gateway.
LEMMA RestartGatewayTypes ==
    ASSUME Types, NEW p \in Nodes, RestartGateway(p) PROVE Types' /\ \E d : Steps(p, d)
<1> DEFINE n == Node(p)
<1>1. call[p].op # "none" /\ Proper(call[p]) /\ up' = up /\ restore' = restore
  BY Where DEF RestartGateway, Types, CallVars
<1>2. n \in Nodes
  BY NodeOf DEF RestartGateway, Types, OverAll
<1>3. Gateway(p, n) \in Gateways
  BY <1>1, <1>2, CallGives DEF Gateways, Gateway
<1>4. /\ \/ gateway' = gateway \/ gateway' = [gateway EXCEPT ![n] = Gateway(p, n)]
         \/ gateway' = [gateway EXCEPT ![n] = Down]
      /\ UNCHANGED <<tables, sfu, turn, file>>
      /\ Goes(p, call[p]) \/ call' = [call EXCEPT ![p] = Follow(@)]
  BY DEF RestartGateway
<1> HIDE DEF n
<1>5. \E d : Steps(p, d)
  BY <1>1, <1>4, GoesSteps, LeavesSteps DEF Types
<1>6. TableTypes' /\ UnitTypes'
  BY <1>2, <1>3, <1>4, Values, KeepTables DEF Types, UnitTypes
<1> QED
  BY <1>1, <1>5, <1>6, StepsTyped DEF Types

\* Every step of a call keeps the types and moves only that call.
LEMMA CallTyped ==
    ASSUME Types, NEW p \in Nodes, Call(p)
    PROVE  Types' /\ call[p].op # "none" /\ UNCHANGED CallVars /\ \E d : Steps(p, d)
<1>1. Types' /\ \E d : Steps(p, d)
  BY InsertTypes, ReadNodesTypes, AllocateTypes, SelectTURNNodesTypes, ReadPortsTypes, SpawnTURNTypes,
     SpawnSFUTypes, ClearDNSTypes, CreateTURNRecordsTypes, StopTypes, DeallocateAllTypes,
     DeleteConfigTypes, ReadTURNTypes, ClearStealthTypes, CreateStealthRecordsTypes,
     SetStealthEnabledTypes, RespawnTypes, ReadBlocksTypes, SaveStateTypes, RestartGatewayTypes
     DEF Call
<1>2. (\E s : At(p, s)) /\ UNCHANGED CallVars
  BY DEF Call, Insert, ReadNodes, Allocate, SelectTURNNodes, ReadPorts, SpawnTURN, SpawnSFU, ClearDNS,
         CreateTURNRecords, StopBoth, DeallocateAll, DeleteConfig, StopSFU, ReadTURN, StopTURN,
         ClearStealth, CreateStealthRecords, SetStealthEnabled, Respawn, ReadBlocks, SaveState,
         RestartGateway
<1> QED
  BY <1>1, <1>2 DEF At

\* When a call may begin.
LEMMA AllowedIs ==
    ASSUME NEW op \in Ops, Allowed(op)
    PROVE  /\ op = "enable" => config = None /\ next <= MaxSecrets
           /\ op # "enable" => config # None
           /\ op = "stealth_on" => ~stealth
           /\ op = "stealth_off" => stealth
<1>1. CASE op = "enable"
  BY <1>1 DEF Allowed
<1>2. CASE op = "disable"
  BY <1>2 DEF Allowed
<1>3. CASE op = "stealth_on"
  BY <1>3 DEF Allowed
<1>4. CASE op = "stealth_off"
  BY <1>4 DEF Allowed
<1> QED
  BY <1>1, <1>2, <1>3, <1>4 DEF Ops

\* A call that begins.
LEMMA BeginSteps ==
    ASSUME Types, NEW p \in Nodes, NEW op \in Ops, Begin(p, op)
    PROVE  \E d : /\ Steps(p, d) /\ d.op = op /\ d.k = 1 /\ d.todo = {} /\ d.on = {} /\ ~d.cut
                  /\ d.sfu = NoBlocks /\ d.turn = NoBlocks
                  /\ d.sec = IF op = "enable" THEN next ELSE IF op = "disable" THEN None ELSE config
<1> DEFINE sec == IF op = "enable" THEN next ELSE IF op = "disable" THEN None ELSE config
           c == [NoCall EXCEPT !.op = op, !.sec = sec]
<1>1. sec \in Secrets
  <2>1. config \in Secrets /\ None \in Secrets /\ next \in 1 .. MaxSecrets + 1 /\ MaxSecrets \in Nat
    BY Constants DEF Types, TableTypes
  <2>2. op = "enable" => next <= MaxSecrets
    BY AllowedIs DEF Begin
  <2> QED
    BY <2>1, <2>2 DEF Secrets
<1>2. sec = CASE op = "enable" -> next [] op = "disable" -> None [] OTHER -> config
  BY DEF Ops
<1>3. call' = [call EXCEPT ![p] = Enter(c, 1)]
  BY <1>2 DEF Begin
<1> HIDE DEF sec
<1>4. /\ c \in CallTypes /\ c.op = op /\ c.sec = sec /\ c.on = {} /\ c.sfu = NoBlocks
      /\ c.turn = NoBlocks /\ ~c.cut
  BY <1>1, NoCallFacts DEF CallTypes, Operations, Ops, NoCall
<1> HIDE DEF c
<1>5. 1 \in 0 .. 12 /\ 1 \in 1 .. Len(Program[op]) /\ Program[op][1] \notin OverAll
      /\ Program[op][1] \notin OverTURN
  <2>1. 1 \in 0 .. 12 /\ 1 \in 1 .. Len(Program[op])
    BY Lengths DEF Ops
  <2>2. Program[op][1] \in {"insert", "nodes"}
    BY EnableProgram, DisableProgram, StealthProgram DEF Ops
  <2> QED
    BY <2>1, <2>2 DEF OverAll, OverTURN
<1>6. Moved(c, Enter(c, 1), 1, {})
  BY <1>4, <1>5, EnterMoves
<1>a. op = "enable" => sec # None
  BY Constants DEF sec, Types, TableTypes
<1>7. Proper(Enter(c, 1))
  BY <1>4, <1>5, <1>6, <1>a, ProperMoved DEF Ops
<1>8. Steps(p, Enter(c, 1))
  BY <1>3, <1>7, CallSteps DEF Types
<1> QED
  BY <1>4, <1>6, <1>8 DEF Moved, sec

\* The beginning of a call keeps the types,
LEMMA BeginTypes ==
    ASSUME Types, NEW p \in Nodes, NEW op \in Ops, Begin(p, op)
    PROVE  Types'
<1>1. \E d : Steps(p, d)
  BY BeginSteps
<1>2. TableTypes'
  <2>1. next' \in 1 .. MaxSecrets + 1
    <3>1. next \in 1 .. MaxSecrets + 1 /\ MaxSecrets \in Nat
      BY Constants DEF Types, TableTypes
    <3>2. (op = "enable" => next <= MaxSecrets) /\ next' = IF op = "enable" THEN next + 1 ELSE next
      BY AllowedIs DEF Begin
    <3> QED
      BY <3>1, <3>2
  <2> QED
    BY <2>1 DEF Types, TableTypes, Begin
<1>3. UnitTypes'
  BY KeepUnits DEF Begin, Types
<1> QED
  BY <1>1, <1>2, <1>3, StepsTyped DEF Types, Begin, CallVars

\* and so does a client that goes away,
LEMMA DisconnectSteps ==
    ASSUME Types, NEW p \in Nodes, Disconnect(p)
    PROVE  Types' /\ \E d : Steps(p, d)
<1> DEFINE d == [call[p] EXCEPT !.cut = TRUE]
<1>1. Proper(call[p]) /\ call[p].op # "none" /\ call[p] \in CallTypes
  <2>1. Proper(call[p]) /\ call[p] # NoCall
    BY DEF Types, TaskTypes, Disconnect
  <2> QED
    BY <2>1 DEF Proper
<1>2. /\ d \in CallTypes /\ d.op = call[p].op /\ d.k = call[p].k /\ d.todo = call[p].todo
      /\ d.on = call[p].on /\ d.sec = call[p].sec
  BY <1>1 DEF CallTypes
<1>3. call' = [call EXCEPT ![p] = d]
  BY <1>1 DEF Disconnect, Types, TaskTypes
<1> HIDE DEF d
<1>4. Proper(d)
  BY <1>1, <1>2, ProperWith
<1>5. Steps(p, d)
  BY <1>3, <1>4, CallSteps DEF Types
<1>6. TableTypes' /\ UnitTypes'
  BY KeepTables, KeepUnits DEF Types, Disconnect
<1> QED
  BY <1>5, <1>6, StepsTyped DEF Types, Disconnect, CallVars

\* a crash,
LEMMA CrashTypes == ASSUME Types, NEW n \in Nodes, Crash(n) PROVE Types'
<1>1. NoCall \in CallTypes /\ Proper(NoCall) /\ NoRestore.pc = "idle"
  BY NoCallFacts DEF Proper, NoRestore
<1>2. TableTypes'
  BY KeepTables DEF Types, Crash
<1>3. UnitTypes'
  <2>1. /\ sfu' = sfu \/ sfu' = [sfu EXCEPT ![n] = NoSFU]
        /\ turn' = turn \/ turn' = [turn EXCEPT ![n] = NoTURN]
        /\ gateway' = gateway \/ gateway' = [gateway EXCEPT ![n] = Down]
        /\ file' = file
    BY DEF Crash, units
  <2> QED
    BY <2>1, Values DEF Types, UnitTypes
<1>4. Steps(n, NoCall)
  BY <1>1, CallSteps DEF Types, Crash
<1>5. call' \in [Nodes -> CallTypes] /\ \A m \in Nodes : Proper(call'[m])
  BY <1>4, <1>1 DEF Types, TaskTypes, Steps
<1>6. /\ restore' \in [Nodes -> RestoreTypes]
      /\ \A m \in Nodes : restore'[m].pc = "idle" => restore'[m] = NoRestore
  BY <1>1, Values DEF Crash, Types, TaskTypes
<1>7. up' \subseteq Nodes
  BY DEF Crash, Types, TaskTypes
<1> QED
  BY <1>2, <1>3, <1>5, <1>6, <1>7 DEF Types, TaskTypes, Proper

\* A task of node n that goes on, or ends.
LEMMA RestoreTyped ==
    ASSUME TaskTypes, NEW n \in Nodes, NEW r \in RestoreTypes, r.pc = "idle" => r = NoRestore,
           restore' = [restore EXCEPT ![n] = r], call' = call, up' \subseteq Nodes
    PROVE  TaskTypes'
<1>1. /\ restore' \in [Nodes -> RestoreTypes]
      /\ \A m \in Nodes : restore'[m].pc = "idle" => restore'[m] = NoRestore
  BY DEF TaskTypes
<1>2. \A m \in Nodes : Proper(call'[m])
  BY DEF TaskTypes
<1> QED
  BY <1>1, <1>2 DEF TaskTypes, Proper

\* a restart,
LEMMA RestartTypes == ASSUME Types, NEW n \in Nodes, Restart(n) PROVE Types'
<1> DEFINE r == [restore[n] EXCEPT !.pc = IF file[n].here THEN "resolve" ELSE "tables",
                                   !.st = file[n]]
<1>1. restore[n] \in RestoreTypes /\ file[n] \in Files
  BY DEF Types, TaskTypes, UnitTypes
<1>2. r \in RestoreTypes /\ r.pc # "idle"
  BY <1>1 DEF RestoreTypes
<1>3. restore' = [restore EXCEPT ![n] = r]
  BY <1>1 DEF Restart, RestoreTypes, Types, TaskTypes
<1> HIDE DEF r
<1>4. call' = call /\ up' \subseteq Nodes
  BY DEF Restart, Types, TaskTypes
<1>5. TaskTypes'
  BY <1>2, <1>3, <1>4, RestoreTyped DEF Types
<1> QED
  BY <1>5, KeepTables, KeepUnits DEF Types, Restart

\* and the rewrite of the state files after a recovery.
LEMMA RewriteTypes == ASSUME Types, Rewrite PROVE Types'
<1>1. TaskTypes'
  BY DEF Types, TaskTypes, Rewrite, Proper
<1>2. UnitTypes'
  BY Values DEF Types, UnitTypes, Rewrite, units
<1> QED
  BY <1>1, <1>2, KeepTables DEF Types, Rewrite

\* What the tables and a loaded state make of a node are of their types.
LEMMA RestoreFromTablesTypes == ASSUME Types, NEW n \in Nodes, RestoreFromTables(n) PROVE Types'
<1> DEFINE known == config # None /\ rows.sfu[n] # None
           cfg == IF known THEN [run |-> TRUE, sec |-> config, sfu |-> rows.sfu[n], stealth |-> stealth]
                           ELSE Plain
<1>1. cfg \in Gateways
  <2>1. config \in Secrets /\ rows.sfu[n] \in Secrets /\ stealth \in BOOLEAN
    BY DEF Types, TableTypes, Blocks
  <2> QED
    BY <2>1, Values DEF Gateways
<1>2. /\ \/ gateway' = gateway \/ gateway' = [gateway EXCEPT ![n] = IF @.run THEN @ ELSE cfg]
         \/ gateway' = [gateway EXCEPT ![n] = Plain]
      /\ file' = file \/ file' = [file EXCEPT ![n] = PlainFile]
      /\ UNCHANGED <<RestoreVars, sfu, turn>> /\ restore' = [restore EXCEPT ![n] = NoRestore]
  BY DEF RestoreFromTables
<1> HIDE DEF cfg
<1>3. UnitTypes'
  BY <1>1, <1>2, Values DEF Types, UnitTypes
<1>4. UNCHANGED tables /\ call' = call /\ up' \subseteq Nodes
  BY <1>2 DEF RestoreVars, Types, TaskTypes
<1>5. TaskTypes'
  BY <1>2, <1>4, Values, RestoreTyped DEF Types
<1> QED
  BY <1>3, <1>4, <1>5, KeepTables DEF Types

\* What a restore resolved is well typed.
LEMMA ResolvedTypes ==
    ASSUME Types, NEW n \in Nodes, NEW known \in BOOLEAN, NEW sec \in Secrets, NEW port \in Secrets,
           NEW hidden \in BOOLEAN, Resolved(n, known, sec, port, hidden), UNCHANGED <<RestoreVars, units, file>>
    PROVE  Types'
<1> DEFINE st == [restore[n].st EXCEPT !.sec = sec, !.sig = port, !.stealth = hidden]
           r == [pc |-> "gateway", known |-> known, st |-> st,
                 save |-> known /\ st # restore[n].st]
<1>1. restore' = [restore EXCEPT ![n] = r]
  BY DEF Resolved
<1>2. st \in Files
  <2>1. restore[n].st \in Files
    BY DEF Types, TaskTypes, RestoreTypes
  <2> QED
    BY <2>1 DEF Files
<1> HIDE DEF st
<1>3. r \in RestoreTypes /\ r.pc # "idle"
  BY <1>2 DEF RestoreTypes
<1> HIDE DEF r
<1>4. UNCHANGED tables /\ call' = call /\ up' \subseteq Nodes
  BY DEF RestoreVars, Types, TaskTypes
<1>5. TaskTypes'
  BY <1>1, <1>3, <1>4, RestoreTyped DEF Types
<1> QED
  BY <1>4, <1>5, KeepTables, KeepUnits DEF Types

\* The restore keeps the types when it chooses between file and tables,
LEMMA ChooseRestoreWebRTCTypes == ASSUME Types, NEW n \in Nodes, ChooseRestoreWebRTC(n) PROVE Types'
<1>1. /\ config \in Secrets /\ rows.sfu[n] \in Secrets /\ stealth \in BOOLEAN /\ None \in Secrets
      /\ restore[n].st \in Files
  BY Constants DEF Types, TableTypes, TaskTypes, RestoreTypes, Blocks
<1>2. CASE Recorded(n)
  <2> DEFINE port == IF config # None THEN rows.sfu[n] ELSE None
             hidden == config # None /\ stealth
  <2>1. port \in Secrets /\ hidden \in BOOLEAN /\ TRUE \in BOOLEAN
    BY <1>1
  <2>2. Resolved(n, TRUE, config, port, hidden)
    BY <1>2 DEF Recorded
  <2> HIDE DEF port, hidden
  <2> QED
    BY <1>1, <2>1, <2>2, ResolvedTypes DEF ChooseRestoreWebRTC
<1>3. CASE Cached(n)
  <2> DEFINE st == restore[n].st
             known == st.sec # None \/ st.sig # None
  <2>1. st.sec \in Secrets /\ st.sig \in Secrets /\ st.stealth \in BOOLEAN /\ known \in BOOLEAN
    BY <1>1 DEF Files
  <2>2. Resolved(n, known, st.sec, st.sig, st.stealth)
    BY <1>3 DEF Cached
  <2> HIDE DEF st, known
  <2> QED
    BY <2>1, <2>2, ResolvedTypes DEF ChooseRestoreWebRTC
<1> QED
  BY <1>2, <1>3 DEF ChooseRestoreWebRTC

\* The restore goes on.
LEMMA NextStep ==
    ASSUME Types, NEW n \in Nodes, NEW pc \in {"turn", "sfu"},
           restore' = [restore EXCEPT ![n].pc = pc], UNCHANGED RestoreVars
    PROVE  TaskTypes'
<1> DEFINE r == [restore[n] EXCEPT !.pc = pc]
<1>1. restore[n] \in RestoreTypes
  BY DEF Types, TaskTypes
<1>2. r \in RestoreTypes /\ r.pc # "idle"
  BY <1>1 DEF RestoreTypes
<1>3. restore' = [restore EXCEPT ![n] = r]
  BY DEF Types, TaskTypes
<1>4. call' = call /\ up' \subseteq Nodes
  BY DEF RestoreVars, Types, TaskTypes
<1> HIDE DEF r
<1> QED
  BY <1>2, <1>3, <1>4, RestoreTyped DEF Types

\* when it starts the gateway,
LEMMA RestoreGatewayTypes == ASSUME Types, NEW n \in Nodes, RestoreGateway(n) PROVE Types'
<1> DEFINE r == restore[n]
           cfg == IF r.known THEN [run |-> TRUE, sec |-> r.st.sec, sfu |-> r.st.sig,
                                   stealth |-> r.st.stealth] ELSE Plain
<1>1. r.st \in Files
  BY DEF Types, TaskTypes, RestoreTypes
<1>2. cfg \in Gateways
  BY <1>1, Values DEF Gateways, Files
<1>3. /\ file' = file \/ file' = [file EXCEPT ![n] = r.st]
      /\ \/ gateway' = gateway \/ gateway' = [gateway EXCEPT ![n] = Down]
         \/ gateway' = [gateway EXCEPT ![n] = IF @.run /\ ~r.known THEN @ ELSE cfg]
      /\ UNCHANGED <<RestoreVars, sfu, turn>> /\ restore' = [restore EXCEPT ![n].pc = "turn"]
  BY DEF RestoreGateway
<1> HIDE DEF r, cfg
<1>4. UnitTypes'
  BY <1>1, <1>2, <1>3, Values DEF Types, UnitTypes
<1>5. TaskTypes'
  BY <1>3, NextStep
<1> QED
  BY <1>3, <1>4, <1>5, KeepTables DEF Types, RestoreVars

\* the TURN server,
LEMMA RestoreTURNTypes == ASSUME Types, NEW n \in Nodes, RestoreTURN(n) PROVE Types'
<1> DEFINE st == restore[n].st
           cfg == [sec |-> config, port |-> st.relay, stealth |-> stealth]
<1>1. cfg \in TURNs
  BY DEF Types, TableTypes, TaskTypes, RestoreTypes, Files, TURNs
<1>2. /\ turn' = turn \/ turn' = Started(turn, n, cfg)
      /\ UNCHANGED <<RestoreVars, sfu, gateway, file>> /\ restore' = [restore EXCEPT ![n].pc = "sfu"]
  BY DEF RestoreTURN
<1> HIDE DEF cfg
<1>3. turn \in [Nodes -> TURNs]
  BY DEF Types, UnitTypes
<1>4. Started(turn, n, cfg) \in [Nodes -> TURNs]
  BY <1>1, <1>3, StartedTypes, Zenon
<1>5. UnitTypes'
  BY <1>2, <1>3, <1>4 DEF Types, UnitTypes
<1>6. TaskTypes'
  BY <1>2, NextStep
<1> QED
  BY <1>2, <1>5, <1>6, KeepTables DEF Types, RestoreVars

\* and the SFU.
LEMMA RestoreSFUTypes == ASSUME Types, NEW n \in Nodes, RestoreSFU(n) PROVE Types'
<1> DEFINE st == restore[n].st
           cfg == [sec |-> config, port |-> st.sig, media |-> st.media]
<1>1. cfg \in SFUs
  BY DEF Types, TableTypes, TaskTypes, RestoreTypes, Files, SFUs
<1>2. /\ sfu' = sfu \/ sfu' = Started(sfu, n, cfg)
      /\ UNCHANGED <<RestoreVars, turn, gateway, file>> /\ restore' = [restore EXCEPT ![n] = NoRestore]
  BY DEF RestoreSFU
<1> HIDE DEF cfg
<1>3. sfu \in [Nodes -> SFUs]
  BY DEF Types, UnitTypes
<1>4. Started(sfu, n, cfg) \in [Nodes -> SFUs]
  BY <1>1, <1>3, StartedTypes, Zenon
<1>5. UnitTypes'
  BY <1>2, <1>3, <1>4 DEF Types, UnitTypes
<1>6. UNCHANGED tables /\ call' = call /\ up' \subseteq Nodes
  BY <1>2 DEF RestoreVars, Types, TaskTypes
<1>7. TaskTypes'
  BY <1>2, <1>6, Values, RestoreTyped DEF Types
<1> QED
  BY <1>5, <1>6, <1>7, KeepTables DEF Types

\* The types hold at first.
LEMMA InitTypes == Init => Types
<1> SUFFICES ASSUME Init PROVE Types
  OBVIOUS
<1>1. NoBlocks \in Blocks /\ Proper(NoCall) /\ NoRestore.pc = "idle" /\ NoCall \in CallTypes
  BY NoCallFacts DEF Proper, NoRestore
<1>2. TableTypes
  <2>1. 1 \in 1 .. MaxSecrets + 1 /\ None \in Secrets
    BY Constants
  <2>2. rows \in [sfu : Blocks, turn : Blocks]
    BY <1>1 DEF Init
  <2> QED
    BY <2>1, <2>2 DEF Init, TableTypes
<1>3. UnitTypes
  BY Values DEF Init, UnitTypes
<1>4. TaskTypes
  BY <1>1, Values DEF Init, TaskTypes
<1> QED
  BY <1>2, <1>3, <1>4 DEF Types

\* Every action keeps the types.
LEMMA TypesKept == Types /\ [Next]_vars => Types'
<1> SUFFICES ASSUME Types, [Next]_vars PROVE Types'
  OBVIOUS
<1>1. ASSUME NEW n \in Nodes, Restore(n) PROVE Types'
  BY <1>1, RestoreFromTablesTypes, ChooseRestoreWebRTCTypes, RestoreGatewayTypes, RestoreTURNTypes,
     RestoreSFUTypes DEF Restore
<1>2. CASE UNCHANGED vars
  BY <1>2 DEF vars, tables, units, Types, TableTypes, UnitTypes, TaskTypes, Proper
<1> QED
  BY <1>1, <1>2, BeginTypes, CallTyped, DisconnectSteps, CrashTypes, RestartTypes, RewriteTypes DEF Next

\* The types are those of TypeOK.
LEMMA TypesGive == Types => TypeOK
<1> SUFFICES ASSUME Types PROVE TypeOK
  OBVIOUS
<1>1. rows \in [{"sfu", "turn"} -> [Nodes -> Secrets]]
  BY DEF Types, TableTypes, Blocks
<1>2. DOMAIN Program = Operations
  BY DEF Program, Operations
<1>3. ASSUME NEW n \in Nodes
      PROVE  /\ call[n].op \in DOMAIN Program
             /\ call[n].k \in 0 .. Len(Program[call[n].op])
             /\ call[n].todo \subseteq Nodes /\ call[n].on \subseteq Nodes
             /\ call[n].sec \in Secrets
             /\ restore[n].pc \in {"idle", "tables", "resolve", "gateway", "turn", "sfu"}
  <2>1. Proper(call[n]) /\ call[n] \in CallTypes /\ restore[n] \in RestoreTypes
    BY DEF Types, TaskTypes, Proper
  <2>2. call[n].k \in 0 .. Len(Program[call[n].op])
    <3>1. CASE call[n].op = "none"
      BY <2>1, <3>1, NoCallFacts, Lengths DEF Proper
    <3>2. CASE call[n].op # "none"
      <4>1. Len(Program[call[n].op]) \in Nat /\ call[n].k \in 1 .. Len(Program[call[n].op])
        BY <2>1, <3>2, Lengths DEF Proper, CallTypes, Operations
      <4> QED
        BY <4>1
    <3> QED
      BY <3>1, <3>2
  <2> QED
    BY <1>2, <2>1, <2>2 DEF CallTypes, RestoreTypes
<1> QED
  BY <1>1, <1>3 DEF Types, TableTypes, UnitTypes, TaskTypes, TypeOK, SFUs, TURNs, Gateways, Files

-----------------------------------------------------------------------------
(* One task at a time. *)

\* A call counts as under way from its insert on.
LEMMA CallingIs ==
    ASSUME Types, NEW n \in Nodes
    PROVE  /\ Calling(n) <=> call[n] # NoCall /\ ~At(n, "insert")
           /\ Restoring(n) <=> restore[n] # NoRestore
           /\ call[n].op = "none" <=> call[n] = NoCall
<1>1. Proper(call[n]) /\ (restore[n].pc = "idle" => restore[n] = NoRestore)
  BY DEF Types, TaskTypes
<1>2. call[n].op = "none" <=> call[n] = NoCall
  BY <1>1, NoCallFacts DEF Proper
<1>3. At(n, "insert") => call[n].op = "enable" /\ call[n].k = 1
  BY Where DEF Types, Places
<1>4. call[n].op = "enable" /\ call[n].k = 1 => At(n, "insert")
  BY EnableProgram DEF At, Step
<1>5. Restoring(n) <=> restore[n] # NoRestore
  BY <1>1 DEF Restoring, NoRestore
<1> QED
  BY <1>2, <1>3, <1>4, <1>5 DEF Calling

\* No overlap is noted exactly when no restore and no other call is under way.
LEMMA OverlapIs ==
    ASSUME Types, NEW p \in Nodes
    PROVE  ~Overlap(p) <=> \A n \in Nodes : ~Restoring(n) /\ (n # p => ~Calling(n))
BY CallingIs DEF Overlap

\* What is noted stays noted, but for a DisableWebRTC that is alone.
Notes == noise \subseteq noise' /\ ("healed" \in noise' => "healed" \in noise)

\* A step of a call only adds to what disturbed the system.
LEMMA CallNotes == ASSUME NEW p \in Nodes, Call(p) PROVE Notes
<1>1. ASSUME NEW w \in {"lost", "overlap", "respawn", "respawn_off"}, NEW b, Note(w, b) PROVE Notes
  BY <1>1 DEF Note, Notes
<1>2. ASSUME Lost(p, "lost") PROVE Notes
  BY <1>1, <1>2 DEF Lost
<1>3. ASSUME Fine PROVE Notes
  BY <1>3 DEF Fine, Notes
<1>4. CASE Insert(p) \/ ReadNodes(p)
  BY <1>1, <1>2, <1>3, <1>4 DEF Insert, ReadNodes, Stated
<1>5. CASE \/ Allocate(p, "sfu_ports", "sfu") \/ SelectTURNNodes(p) \/ Allocate(p, "turn_ports", "turn")
           \/ ReadPorts(p)
  BY <1>1, <1>2, <1>3, <1>5 DEF Allocate, SelectTURNNodes, ReadPorts, Stated
<1>6. CASE SpawnTURN(p) \/ SpawnSFU(p) \/ ClearDNS(p) \/ CreateTURNRecords(p)
  BY <1>1, <1>2, <1>3, <1>6 DEF SpawnTURN, SpawnSFU, ClearDNS, CreateTURNRecords, Stated
<1>7. CASE StopBoth(p) \/ DeallocateAll(p) \/ DeleteConfig(p) \/ StopSFU(p) \/ ReadTURN(p) \/ StopTURN(p)
  BY <1>1, <1>2, <1>3, <1>7 DEF StopBoth, DeallocateAll, DeleteConfig, StopSFU, ReadTURN, StopTURN, Stated
<1>8. CASE ClearStealth(p) \/ CreateStealthRecords(p) \/ SetStealthEnabled(p)
  BY <1>1, <1>2, <1>3, <1>8 DEF ClearStealth, CreateStealthRecords, SetStealthEnabled, Stated
<1>9. CASE Respawn(p)
  BY <1>1, <1>3, <1>9 DEF Respawn
<1>10. CASE ReadBlocks(p) \/ SaveState(p) \/ RestartGateway(p)
  BY <1>1, <1>2, <1>3, <1>10 DEF ReadBlocks, SaveState, RestartGateway, Stated
<1> QED
  BY <1>4, <1>5, <1>6, <1>7, <1>8, <1>9, <1>10 DEF Call

\* A step of a restore only adds to what disturbed the system.
LEMMA RestoreNotes == ASSUME NEW n \in Nodes, Restore(n) PROVE Notes
BY DEF Restore, RestoreFromTables, ChooseRestoreWebRTC, RestoreGateway, RestoreTURN, RestoreSFU, Note, Fine,
       Notes

\* A restore is that of a node alone, and goes on or ends.
LEMMA RestoreSteps ==
    ASSUME Types, NEW n \in Nodes, Restore(n)
    PROVE  /\ Restoring(n) /\ UNCHANGED RestoreVars
           /\ \A m \in Nodes \ {n} : restore'[m] = restore[m]
<1>1. \E r : restore' = [restore EXCEPT ![n] = r]
  BY DEF Restore, RestoreFromTables, ChooseRestoreWebRTC, RestoreGateway, RestoreTURN, RestoreSFU,
         Recorded, Cached, Resolved, Types, TaskTypes
<1>2. restore[n].pc # "idle" /\ UNCHANGED RestoreVars
  BY DEF Restore, RestoreFromTables, ChooseRestoreWebRTC, RestoreGateway, RestoreTURN, RestoreSFU
<1> QED
  BY <1>1, <1>2 DEF Restoring, Types, TaskTypes

\* Every action leaves the nodes that are down idle.
LEMMA PlacedKept == Types /\ Placed /\ [Next]_vars => Placed'
<1> SUFFICES ASSUME Types, Placed, [Next]_vars PROVE Placed'
  OBVIOUS
<1>0. ASSUME NEW p \in Nodes, NEW d, Steps(p, d), p \in up, UNCHANGED CallVars PROVE Placed'
  BY <1>0 DEF Placed, Steps, CallVars
<1>1. ASSUME NEW p \in Nodes, NEW op \in Ops, Begin(p, op) PROVE Placed'
  BY <1>0, <1>1, BeginSteps DEF Begin
<1>2. ASSUME NEW p \in Nodes, Call(p) PROVE Placed'
  BY <1>0, <1>2, CallTyped, CallingIs DEF Placed
<1>3. ASSUME NEW p \in Nodes, Disconnect(p) PROVE Placed'
  BY <1>0, <1>3, DisconnectSteps DEF Placed, Disconnect
<1>4. ASSUME NEW n \in Nodes, Crash(n) PROVE Placed'
  BY <1>4 DEF Placed, Crash, Types, TaskTypes
<1>5. ASSUME NEW n \in Nodes, Restart(n) PROVE Placed'
  BY <1>5 DEF Placed, Restart, Types, TaskTypes
<1>6. ASSUME NEW n \in Nodes, Restore(n) PROVE Placed'
  BY <1>6, RestoreSteps, CallingIs DEF Placed, RestoreVars
<1>7. ASSUME Rewrite PROVE Placed'
  BY <1>7 DEF Placed, Rewrite
<1>8. CASE UNCHANGED vars
  BY <1>8 DEF vars, Placed
<1> QED
  BY <1>1, <1>2, <1>3, <1>4, <1>5, <1>6, <1>7, <1>8 DEF Next

\* A node's state file is there once a secret is in it, and a restore that
\* reads one has found one.
LEMMA WrittenKept == Types /\ Written /\ [Next]_vars => Written'
<1> SUFFICES ASSUME Types, Written, [Next]_vars PROVE Written'
  OBVIOUS
<1>0. /\ file \in [Nodes -> Files] /\ restore \in [Nodes -> RestoreTypes]
      /\ \A n \in Nodes : file[n] \in Files /\ restore[n] \in RestoreTypes
  BY DEF Types, UnitTypes, TaskTypes
<1>00. PlainFile.here /\ NoRestore.pc = "idle"
  BY DEF PlainFile, NoFile, NoRestore
<1>1. ASSUME NEW p \in Nodes, NEW op \in Ops, Begin(p, op) PROVE Written'
  BY <1>1 DEF Begin, CallVars, Written
<1>2. ASSUME NEW p \in Nodes, Call(p) PROVE Written'
  <2>1. restore' = restore
    BY <1>2, CallTyped DEF CallVars
  <2>2. SaveState(p) => file' = file \/ \E n : file' = [file EXCEPT ![n] = State(p, n)]
    BY DEF SaveState
  <2>3. Insert(p) \/ ReadNodes(p) => file' = file
    BY DEF Insert, ReadNodes
  <2>4. Allocate(p, "sfu_ports", "sfu") \/ SelectTURNNodes(p) \/ Allocate(p, "turn_ports", "turn") => file' = file
    BY DEF Allocate, SelectTURNNodes
  <2>5. ReadPorts(p) \/ SpawnTURN(p) \/ SpawnSFU(p) \/ ClearDNS(p) \/ CreateTURNRecords(p) => file' = file
    BY DEF ReadPorts, SpawnTURN, SpawnSFU, ClearDNS, CreateTURNRecords
  <2>6. StopBoth(p) \/ DeallocateAll(p) \/ DeleteConfig(p) \/ StopSFU(p) \/ ReadTURN(p) \/ StopTURN(p)
           => file' = file
    BY DEF StopBoth, DeallocateAll, DeleteConfig, StopSFU, ReadTURN, StopTURN
  <2>7. ClearStealth(p) \/ CreateStealthRecords(p) \/ SetStealthEnabled(p) \/ Respawn(p) => file' = file
    BY DEF ClearStealth, CreateStealthRecords, SetStealthEnabled, Respawn
  <2>8. ReadBlocks(p) \/ RestartGateway(p) => file' = file
    BY DEF ReadBlocks, RestartGateway
  <2>9. file' = file \/ \E n : file' = [file EXCEPT ![n] = State(p, n)]
    BY <1>2, <2>2, <2>3, <2>4, <2>5, <2>6, <2>7, <2>8, Zenon DEF Call
  <2>10. \A n : State(p, n).here
    BY DEF State
  <2> QED
    BY <1>0, <2>1, <2>9, <2>10 DEF Written
<1>3. ASSUME NEW p \in Nodes, Disconnect(p) PROVE Written'
  BY <1>3 DEF Disconnect, CallVars, Written
<1>4. ASSUME NEW n \in Nodes, Crash(n) PROVE Written'
  BY <1>0, <1>00, <1>4 DEF Crash, Written
<1>5. ASSUME NEW n \in Nodes, Restart(n) PROVE Written'
  <2>1. /\ file' = file /\ \A m \in Nodes \ {n} : restore'[m] = restore[m]
        /\ restore'[n].st = file[n] /\ (restore'[n].pc = IF file[n].here THEN "resolve" ELSE "tables")
    BY <1>0, <1>5 DEF Restart, RestoreTypes
  <2> QED
    BY <2>1 DEF Written
<1>6. ASSUME NEW n \in Nodes, RestoreFromTables(n) PROVE Written'
  <2>1. /\ file' = file \/ file' = [file EXCEPT ![n] = PlainFile]
        /\ restore' = [restore EXCEPT ![n] = NoRestore]
    BY <1>6 DEF RestoreFromTables
  <2> QED
    BY <1>0, <1>00, <2>1 DEF Written
<1>7. ASSUME NEW n \in Nodes, ChooseRestoreWebRTC(n) PROVE Written'
  <2>1. file' = file /\ restore[n].pc = "resolve" /\ (Recorded(n) \/ Cached(n))
    BY <1>7 DEF ChooseRestoreWebRTC
  <2>2. PICK known, sec, port, hidden : Resolved(n, known, sec, port, hidden)
    BY <2>1 DEF Recorded, Cached
  <2>3. PICK st : st = [restore[n].st EXCEPT !.sec = sec, !.sig = port, !.stealth = hidden]
    OBVIOUS
  <2>4. st.here
    BY <1>0, <2>1, <2>3 DEF Written, RestoreTypes, Files
  <2>5. restore'[n].st = st /\ \A m \in Nodes \ {n} : restore'[m] = restore[m]
    BY <1>0, <2>2, <2>3 DEF Resolved
  <2> QED
    BY <2>1, <2>4, <2>5 DEF Written
<1>8. ASSUME NEW n \in Nodes, RestoreGateway(n) PROVE Written'
  <2>1. /\ restore[n].pc = "gateway" /\ restore' = [restore EXCEPT ![n].pc = "turn"]
        /\ file' = file \/ file' = [file EXCEPT ![n] = restore[n].st]
    BY <1>8 DEF RestoreGateway
  <2>2. restore[n].st.here
    BY <2>1 DEF Written
  <2>3. restore'[n].pc = "turn" /\ \A m \in Nodes \ {n} : restore'[m] = restore[m]
    BY <1>0, <2>1 DEF RestoreTypes
  <2> QED
    BY <1>0, <2>1, <2>2, <2>3 DEF Written
<1>9. ASSUME NEW n \in Nodes, RestoreTURN(n) \/ RestoreSFU(n) PROVE Written'
  <2>1. /\ file' = file
        /\ \/ restore' = [restore EXCEPT ![n].pc = "sfu"]
           \/ restore' = [restore EXCEPT ![n] = NoRestore]
    BY <1>9 DEF RestoreTURN, RestoreSFU
  <2>2. restore'[n].pc \in {"sfu", "idle"} /\ \A m \in Nodes \ {n} : restore'[m] = restore[m]
    BY <1>0, <1>00, <2>1 DEF RestoreTypes
  <2> QED
    BY <2>1, <2>2 DEF Written
<1>10. ASSUME Rewrite PROVE Written'
  BY <1>0, <1>00, <1>10 DEF Rewrite, Written
<1>11. CASE UNCHANGED vars
  BY <1>11 DEF vars, Written
<1> QED
  BY <1>1, <1>2, <1>3, <1>4, <1>5, <1>6, <1>7, <1>8, <1>9, <1>10, <1>11 DEF Next, Restore

\* A call that inserts its row begins to run, and notes it if it is not alone.
LEMMA InsertAlone ==
    ASSUME Types, NEW p \in Nodes, Call(p), ~Calling(p), "overlap" \notin noise'
    PROVE  Insert(p) /\ (~Calling(p)' \/ ~Overlap(p))
<1>1. call[p].op = "enable" /\ call[p].k = 1 /\ Proper(call[p])
  BY CallTyped DEF Calling, Types, TaskTypes
<1>2. Step(p) = "insert"
  BY <1>1, EnableProgram DEF Step
<1>3. Insert(p)
  BY <1>2 DEF Call, ReadNodes, Allocate, SelectTURNNodes, ReadPorts, SpawnTURN, SpawnSFU, ClearDNS,
         CreateTURNRecords, StopBoth, DeallocateAll, DeleteConfig, StopSFU, ReadTURN, StopTURN,
         ClearStealth, CreateStealthRecords, SetStealthEnabled, Respawn, ReadBlocks, SaveState,
         RestartGateway, At
<1>4. ASSUME Fails(p) PROVE ~Calling(p)'
  <2>1. Steps(p, Fail(call[p])) /\ Fail(call[p]) = NoCall
    BY <1>1, <1>4, FailsSteps, EnableFails DEF Types, Proper
  <2> QED
    BY <2>1, NoCallFacts DEF Steps, Calling
<1>5. Fails(p) \/ Note("overlap", Overlap(p))
  BY <1>3 DEF Insert, Lost
<1> QED
  BY <1>3, <1>4, <1>5 DEF Note

\* Tasks whose overlap would have been noted stay alone.
LEMMA AloneKept == Types /\ Placed /\ AloneInv /\ [Next]_vars => AloneInv'
<1> SUFFICES ASSUME Types, Placed, AloneInv, [Next]_vars, "overlap" \notin noise' PROVE Alone'
  BY DEF AloneInv
<1>1. ASSUME NEW p \in Nodes, NEW op \in Ops, Begin(p, op) PROVE Alone'
  <2>1. ~Overlap(p)
    BY <1>1 DEF Begin
  <2>2. \A n \in Nodes : ~Restoring(n) /\ (n # p => ~Calling(n))
    BY <2>1, OverlapIs
  <2>3. restore' = restore /\ \A n \in Nodes \ {p} : call'[n] = call[n]
    BY <1>1, BeginSteps DEF Begin, CallVars, Steps
  <2> QED
    BY <2>2, <2>3 DEF Alone, Calling, Restoring
<1>2. ASSUME NEW p \in Nodes, Call(p) PROVE Alone'
  <2>1. Alone
    BY <1>2, CallNotes DEF AloneInv, Notes
  <2>2. restore' = restore /\ \A n \in Nodes \ {p} : call'[n] = call[n]
    BY <1>2, CallTyped DEF CallVars, Steps
  <2>3. call[p] # NoCall
    BY <1>2, CallTyped, NoCallFacts
  <2>4. CASE \A n \in Nodes : ~Restoring(n) /\ (n # p => ~Calling(n))
    BY <2>2, <2>4 DEF Alone, Calling, Restoring
  <2>5. CASE ~Calling(p)'
    BY <2>1, <2>2, <2>3, <2>5 DEF Alone, Calling, Restoring
  <2>6. CASE Calling(p)
    BY <2>1, <2>4, <2>6 DEF Alone
  <2> QED
    BY <1>2, <2>4, <2>5, <2>6, InsertAlone, OverlapIs
<1>3. ASSUME NEW p \in Nodes, Disconnect(p) PROVE Alone'
  <2>1. Alone
    BY <1>3 DEF AloneInv, Disconnect, Note
  <2>2. call' = [call EXCEPT ![p] = [call[p] EXCEPT !.cut = TRUE]] /\ restore' = restore
    BY <1>3 DEF Disconnect, CallVars, Types, TaskTypes
  <2>3. call[p] \in CallTypes
    BY DEF Types, TaskTypes
  <2>4. \A n \in Nodes : call'[n].op = call[n].op /\ call'[n].k = call[n].k
    BY <2>2, <2>3 DEF CallTypes, Types, TaskTypes
  <2>5. call[p] # NoCall /\ \A n \in Nodes \ {p} : call'[n] = call[n]
    BY <1>3, <2>2 DEF Disconnect, Types, TaskTypes
  <2> QED
    BY <2>1, <2>2, <2>4, <2>5 DEF Alone, Calling, Restoring
<1>4. ASSUME NEW n \in Nodes, Crash(n) PROVE Alone'
  <2>1. Alone
    BY <1>4 DEF AloneInv, Crash, Note
  <2>2. \A m \in Nodes : /\ call'[m] = IF m = n THEN NoCall ELSE call[m]
                         /\ restore'[m] = IF m = n THEN NoRestore ELSE restore[m]
    BY <1>4 DEF Crash, Types, TaskTypes
  <2>3. \A m \in Nodes : (Calling(m)' => Calling(m)) /\ (Restoring(m)' => Restoring(m))
    BY <2>2, NoCallFacts DEF Calling, Restoring, NoRestore
  <2> QED
    BY <2>1, <2>2, <2>3 DEF Alone
<1>5. ASSUME NEW n \in Nodes, Restart(n) PROVE Alone'
  <2>1. ~Overlap(n)
    BY <1>5 DEF Restart, Note
  <2>2. call[n] = NoCall /\ ~Calling(n)
    BY <1>5, CallingIs DEF Placed, Restart
  <2>3. \A m \in Nodes : ~Restoring(m) /\ ~Calling(m)
    BY <2>1, <2>2, OverlapIs
  <2>4. call' = call /\ \A m \in Nodes \ {n} : restore'[m] = restore[m]
    BY <1>5 DEF Restart, Types, TaskTypes
  <2> QED
    BY <2>2, <2>3, <2>4 DEF Alone, Calling, Restoring
<1>6. ASSUME NEW n \in Nodes, Restore(n) PROVE Alone'
  <2>1. Alone
    BY <1>6, RestoreNotes DEF AloneInv, Notes
  <2>2. call' = call /\ Restoring(n) /\ \A m \in Nodes \ {n} : restore'[m] = restore[m]
    BY <1>6, RestoreSteps DEF RestoreVars
  <2> QED
    BY <2>1, <2>2 DEF Alone, Calling, Restoring
<1>7. ASSUME Rewrite PROVE Alone'
  BY <1>7 DEF Rewrite, Note, Alone, AloneInv, Calling, Restoring
<1>8. CASE UNCHANGED vars
  BY <1>8 DEF vars, Alone, AloneInv, Calling, Restoring
<1> QED
  BY <1>1, <1>2, <1>3, <1>4, <1>5, <1>6, <1>7, <1>8 DEF Next

-----------------------------------------------------------------------------
(* The progress of a call. *)

\* What a call that goes on is done with: node n, if its step is over nodes.
Progress(c, d, n) ==
    LET over(k) == Program[c.op][k] IN
    /\ Proper(d) /\ d.op = c.op /\ d.sec = c.sec /\ d.on = c.on /\ d.sfu = c.sfu /\ d.turn = c.turn
    /\ d.cut = c.cut
    /\ d.k \in {c.k, c.k + 1, c.k + 2}
    /\ d.k = c.k => over(c.k) \in OverAll \cup OverTURN
    /\ d.k = c.k + 2 => c.on = {} /\ over(c.k + 1) \in OverTURN
    /\ \A i \in 1 .. Len(Program[c.op]) :
          /\ over(i) \in OverAll => AllDone(d, i) = IF i = c.k THEN AllDone(c, i) \cup {n} ELSE AllDone(c, i)
          /\ over(i) \in OverTURN => TurnDone(d, i) = IF i = c.k THEN TurnDone(c, i) \cup {n} ELSE TurnDone(c, i)

\* A step that is done with a node adds it to the nodes done, or was the last one of
\* the call.
LEMMA Advance ==
    ASSUME NEW c, Proper(c), c.op # "none"
    PROVE  LET n == First(c.todo) IN
           /\ \/ Progress(c, Proceed(c), n)
              \/ /\ Proceed(c) = NoCall /\ c.k = Len(Program[c.op])
                 /\ Program[c.op][c.k] \in OverAll => AllDone(c, c.k) \cup {n} = Nodes
           /\ c.todo # {} => n \in c.todo /\ n \in Nodes
<1> DEFINE n == First(c.todo)
           l == Len(Program[c.op])
<1>1. /\ c \in CallTypes /\ c.k \in 1 .. l /\ c.op \in Operations /\ c.todo \subseteq Nodes
      /\ c.k \in Nat /\ l \in 1 .. 12 /\ l \in 0 .. 12
  <2>1. c \in CallTypes /\ c.k \in 1 .. l
    BY DEF Proper
  <2>2. c.op \in Operations /\ c.todo \subseteq Nodes /\ c.k \in Nat
    BY <2>1 DEF CallTypes
  <2>3. l \in 1 .. 12
    BY <2>2, Lengths DEF Operations
  <2> QED
    BY <2>1, <2>2, <2>3
<1> DEFINE here == Program[c.op][c.k]
<1>2. c.todo # {} => n \in c.todo /\ n \in Nodes
  BY <1>1, ProceedMoves
<1>3. /\ here \in OverAll => c.todo # {}
      /\ here \in OverTURN => c.todo # {} /\ c.todo \subseteq c.on
  BY DEF Proper
<1>a. here \notin OverAll \cup OverTURN => c.todo = {}
  BY DEF Proper, here
<1>4. Proper(Proceed(c))
  BY ProperProceed
<1> HIDE DEF l, n, here
<1>5. ASSUME c.todo # {}, c.todo # {n}, Moved(c, Proceed(c), c.k, c.todo \ {n})
      PROVE  Progress(c, Proceed(c), n)
  <2> DEFINE d == Proceed(c)
  <2>1. /\ d.op = c.op /\ d.sec = c.sec /\ d.on = c.on /\ d.sfu = c.sfu /\ d.turn = c.turn
        /\ d.cut = c.cut /\ d.k = c.k /\ d.todo = c.todo \ {n}
    BY <1>5 DEF Moved
  <2> HIDE DEF d
  <2>2. ASSUME NEW i \in 1 .. l
        PROVE  /\ Program[c.op][i] \in OverAll =>
                     AllDone(d, i) = IF i = c.k THEN AllDone(c, i) \cup {n} ELSE AllDone(c, i)
               /\ Program[c.op][i] \in OverTURN =>
                     TurnDone(d, i) = IF i = c.k THEN TurnDone(c, i) \cup {n} ELSE TurnDone(c, i)
    BY <1>1, <1>2, <1>3, <1>5, <2>1 DEF AllDone, TurnDone, here
  <2> QED
    BY <1>1, <1>4, <1>5, <1>a, <2>1, <2>2 DEF Progress, l, d, here
<1>6. ASSUME c.todo \in {{}, {n}}, NEW j \in {1, 2}, c.k + j <= l,
             j = 2 => c.on = {} /\ Program[c.op][c.k + 1] \in OverTURN,
             Moved(c, Proceed(c), c.k + j, IF Program[c.op][c.k + j] \in OverAll THEN Nodes
                                           ELSE IF Program[c.op][c.k + j] \in OverTURN THEN c.on ELSE {})
      PROVE  Progress(c, Proceed(c), n)
  <2> DEFINE d == Proceed(c)
             todo == IF Program[c.op][c.k + j] \in OverAll THEN Nodes
                     ELSE IF Program[c.op][c.k + j] \in OverTURN THEN c.on ELSE {}
  <2>1. /\ d.op = c.op /\ d.sec = c.sec /\ d.on = c.on /\ d.sfu = c.sfu /\ d.turn = c.turn
        /\ d.cut = c.cut /\ d.k = c.k + j /\ d.todo = todo
    BY <1>6 DEF Moved
  <2>2. \A s : s \in OverAll => s \notin OverTURN
    BY DEF OverAll, OverTURN
  <2> HIDE DEF d
  <2>3. ASSUME NEW i \in 1 .. l, Program[c.op][i] \in OverAll
        PROVE  AllDone(d, i) = IF i = c.k THEN AllDone(c, i) \cup {n} ELSE AllDone(c, i)
    <3>1. CASE i = c.k
      <4>1. c.todo = {n} /\ n \in Nodes
        BY <1>2, <1>3, <1>6, <2>3, <3>1 DEF here
      <4> QED
        BY <1>1, <2>1, <3>1, <4>1 DEF AllDone
    <3>2. CASE i > c.k
      <4>1. AllDone(c, i) = {}
        BY <1>1, <3>2 DEF AllDone
      <4>2. i # c.k + 1 \/ j = 1
        BY <1>6, <2>2, <2>3
      <4>3. AllDone(d, i) = {}
        BY <1>1, <2>1, <2>3, <3>2, <4>2 DEF AllDone
      <4> QED
        BY <1>1, <3>2, <4>1, <4>3
    <3>3. CASE i < c.k
      BY <1>1, <2>1, <3>3 DEF AllDone
    <3> QED
      BY <1>1, <3>1, <3>2, <3>3
  <2>4. ASSUME NEW i \in 1 .. l, Program[c.op][i] \in OverTURN
        PROVE  TurnDone(d, i) = IF i = c.k THEN TurnDone(c, i) \cup {n} ELSE TurnDone(c, i)
    <3>1. CASE i = c.k
      <4>1. c.todo = {n} /\ n \in c.on
        BY <1>2, <1>3, <1>6, <2>4, <3>1 DEF here
      <4> QED
        BY <1>1, <2>1, <3>1, <4>1 DEF TurnDone
    <3>2. CASE i > c.k
      <4>1. TurnDone(c, i) = {}
        BY <1>1, <3>2 DEF TurnDone
      <4>2. TurnDone(d, i) = {}
        <5>1. CASE j = 2
          BY <1>6, <2>1, <5>1 DEF TurnDone
        <5>2. CASE j = 1
          BY <1>1, <2>1, <2>2, <2>4, <3>2, <5>2 DEF TurnDone
        <5> QED
          BY <5>1, <5>2
      <4> QED
        BY <1>1, <3>2, <4>1, <4>2
    <3>3. CASE i < c.k
      BY <1>1, <2>1, <3>3 DEF TurnDone
    <3> QED
      BY <1>1, <3>1, <3>2, <3>3
  <2>5. d.k \in {c.k, c.k + 1, c.k + 2} /\ d.k # c.k /\ (d.k = c.k + 2 => j = 2)
    BY <1>1, <2>1
  <2> QED
    BY <1>4, <1>6, <2>1, <2>3, <2>4, <2>5 DEF Progress, l, d
<1>7. ASSUME c.todo \in {{}, {n}}, Proceed(c) = Follow(c)
      PROVE  \/ Progress(c, Proceed(c), n)
             \/ /\ Proceed(c) = NoCall /\ c.k = l
                /\ Program[c.op][c.k] \in OverAll => AllDone(c, c.k) \cup {n} = Nodes
  <2>1. CASE c.k = l
    <3>1. Follow(c) = NoCall
      <4>1. Len(Program[c.op]) = l /\ c.k >= l
        BY <1>1, <2>1 DEF l
      <4> QED
        BY <1>1, <4>1, FollowIs
    <3>2. here \in OverAll => AllDone(c, c.k) \cup {n} = Nodes
      BY <1>1, <1>2, <1>3, <1>7 DEF AllDone
    <3> QED
      BY <1>7, <2>1, <3>1, <3>2 DEF here
  <2>2. CASE c.k < l
    <3>1. \/ Follow(c) = Enter(c, c.k + 1)
          \/ /\ c.on = {} /\ Program[c.op][c.k + 1] \in OverTURN /\ c.k + 2 <= l
             /\ Follow(c) = Enter(c, c.k + 2)
      <4>1. Program[c.op][c.k + 1] \in OverTURN => c.k + 2 <= l /\ Program[c.op][c.k + 2] \notin OverTURN
        <5>0. c.k \in Nat /\ c.k >= 1 /\ c.k < l /\ l = Len(Program[c.op])
          BY <1>1, <2>2 DEF l
        <5>1. CASE c.op = "enable"
          <6>1. l = 12
            BY <5>0, <5>1, Lengths
          <6>2. c.k < 12 /\ Program[c.op][c.k + 1] \in OverTURN
                   => c.k + 1 < 12 /\ Program[c.op][c.k + 2] \notin OverTURN
            BY <5>0, <5>1, EnableGaps
          <6> QED
            BY <5>0, <6>1, <6>2
        <5>2. CASE c.op = "disable"
          <6>1. l = 10
            BY <5>0, <5>2, Lengths
          <6>2. c.k < 10 /\ Program[c.op][c.k + 1] \in OverTURN
                   => c.k + 1 < 10 /\ Program[c.op][c.k + 2] \notin OverTURN
            BY <5>0, <5>2, DisableGaps
          <6> QED
            BY <5>0, <6>1, <6>2
        <5>3. CASE c.op = "stealth_on"
          <6>1. l = 8
            BY <5>0, <5>3, Lengths
          <6>2. c.k < 8 /\ Program[c.op][c.k + 1] \in OverTURN
                   => c.k + 1 < 8 /\ Program[c.op][c.k + 2] \notin OverTURN
            BY <5>0, <5>3, StealthOnGaps
          <6> QED
            BY <5>0, <6>1, <6>2
        <5>4. CASE c.op = "stealth_off"
          <6>1. l = 7
            BY <5>0, <5>4, Lengths
          <6>2. c.k < 7 /\ Program[c.op][c.k + 1] \in OverTURN
                   => c.k + 1 < 7 /\ Program[c.op][c.k + 2] \notin OverTURN
            BY <5>0, <5>4, StealthOffGaps
          <6> QED
            BY <5>0, <6>1, <6>2
        <5>5. CASE c.op = "cleanup"
          <6>1. l = 3
            BY <5>0, <5>5, Lengths
          <6> QED
            BY <5>0, <5>5, <6>1, CleanupKinds
        <5>6. CASE c.op = "rollback"
          <6>1. l = 2
            BY <5>0, <5>6, Lengths
          <6> QED
            BY <5>0, <5>6, <6>1, RollbackKinds
        <5> QED
          BY <1>1, <5>1, <5>2, <5>3, <5>4, <5>5, <5>6 DEF Operations
      <4>2. Len(Program[c.op]) = l
        BY DEF l
      <4>3. CASE Program[c.op][c.k + 1] \in OverTURN => c.on # {}
        BY <1>1, <2>2, <4>2, <4>3, FollowIs
      <4>4. CASE Program[c.op][c.k + 1] \in OverTURN /\ c.on = {}
        <5>1. c.k + 1 < l
          BY <1>1, <4>1, <4>4
        <5> QED
          BY <1>1, <4>1, <4>2, <4>4, <5>1, FollowIs
      <4> QED
        BY <4>3, <4>4
    <3>2. c.k + 1 \in 0 .. 12 /\ (c.k + 2 <= l => c.k + 2 \in 0 .. 12)
      BY <1>1, <2>2
    <3>3. CASE Follow(c) = Enter(c, c.k + 1)
      <4>1. c.k + 1 <= l
        BY <1>1, <2>2
      <4>2. Moved(c, Enter(c, c.k + 1), c.k + 1,
                  IF Program[c.op][c.k + 1] \in OverAll THEN Nodes
                  ELSE IF Program[c.op][c.k + 1] \in OverTURN THEN c.on ELSE {})
        BY <1>1, <3>2, EnterMoves
      <4> QED
        BY <1>6, <1>7, <3>3, <4>1, <4>2
    <3>4. CASE /\ c.on = {} /\ Program[c.op][c.k + 1] \in OverTURN /\ c.k + 2 <= l
               /\ Follow(c) = Enter(c, c.k + 2)
      <4>1. Moved(c, Enter(c, c.k + 2), c.k + 2,
                  IF Program[c.op][c.k + 2] \in OverAll THEN Nodes
                  ELSE IF Program[c.op][c.k + 2] \in OverTURN THEN c.on ELSE {})
        BY <1>1, <3>2, <3>4, EnterMoves
      <4> QED
        BY <1>6, <1>7, <3>4, <4>1
    <3> QED
      BY <3>1, <3>3, <3>4
  <2> QED
    BY <1>1, <2>1, <2>2
<1>8. CASE c.todo = {}
  BY <1>1, <1>2, <1>7, <1>8, ProceedMoves DEF l, n
<1>9. CASE c.todo # {}
  <2>1. \/ c.todo = {n} /\ Proceed(c) = Follow(c)
        \/ c.todo # {n} /\ Moved(c, Proceed(c), c.k, c.todo \ {n})
    BY <1>1, <1>9, ProceedMoves DEF n
  <2> QED
    BY <1>2, <1>5, <1>7, <1>9, <2>1 DEF l, n
<1> QED
  BY <1>8, <1>9

-----------------------------------------------------------------------------
(* A call that nothing disturbs. *)

Idle == \A n \in Nodes : restore[n].pc = "idle"

\* Without a restore every node that is up is back.
LEMMA WhenIdle ==
    ASSUME Idle, NEW n \in Nodes
    PROVE  /\ Steady(n) <=> n \in up
           /\ TURNBack(n) <=> n \in up
           /\ GatewayBack(n) <=> n \in up
           /\ Reads(n)
BY DEF Idle, Steady, TURNBack, GatewayBack, Reads

\* Only the call of p runs.
Only(p) == Types /\ Placed /\ Calling(p) /\ Idle /\ \A n \in Nodes : Calling(n) => n = p

\* An undisturbed call is the only task.
LEMMA CallAlone ==
    ASSUME Types, Placed, Alone, NEW p \in Nodes, Calling(p)
    PROVE  Only(p)
BY DEF Alone, Only, Idle, Restoring

\* The call goes on as d, or has ended.
LEMMA CallFrame ==
    ASSUME NEW p \in Nodes, NEW d, Only(p), Fresh, Steps(p, d), UNCHANGED CallVars,
           "respawn" \in noise' => config' # None,
           d.op # "none" => Doing(p)' /\ (d.op # "enable" \/ d.k # 1), d.op = "none" => Rest'
    PROVE  Undisturbed'
<1>1. \A n \in Nodes \ {p} : ~Calling(n)'
  BY DEF Only, Steps, Calling
<1>2. call'[p] = d /\ (Calling(p)' <=> d.op # "none")
  BY DEF Steps, Calling
<1>3. Fresh'
  BY <1>2 DEF Fresh, Steps
<1> QED
  BY <1>1, <1>2, <1>3 DEF Undisturbed

-----------------------------------------------------------------------------
(* EnableWebRTC. *)

EnTables(c) == config = c.sec /\ c.sec # None /\ ~stealth /\ stealthDNS = {}
EnRows(c) ==
    /\ c.sfu = rows.sfu /\ c.turn = rows.turn
    /\ \A n \in Nodes : rows.sfu[n] = IF n \in AllDone(c, 3) THEN c.sec ELSE None
    /\ \A n \in Nodes : rows.turn[n] = IF n \in TurnDone(c, 5) THEN c.sec ELSE None
    /\ c.k > 4 => Cardinality(c.on) = TurnCount
EnDNS(c) == turnDNS = TurnDone(c, 10)
EnTURN(c) == \A n \in Nodes : IF n \in TurnDone(c, 7) THEN HasTURN(n, FALSE) ELSE turn[n] = NoTURN
EnSFU(c) == \A n \in Nodes : IF n \in AllDone(c, 8) THEN HasSFU(n) ELSE sfu[n] = NoSFU
EnFile(c) == \A n \in Nodes : (n \in AllDone(c, 11) => HasFile(n)) /\ (c.k <= 10 => Forgets(n))
EnGateway(c) ==
    \A n \in up : gateway[n] = IF n \in AllDone(c, 12) THEN GatewayFor(n, FALSE) ELSE Plain

EnAll(c) ==
    EnTables(c) /\ EnRows(c) /\ EnDNS(c) /\ EnTURN(c) /\ EnSFU(c) /\ EnFile(c) /\ EnGateway(c)

\* What EnableWebRTC is done with, one part per variable.
LEMMA EnablingIs ==
    ASSUME NEW p \in Nodes
    PROVE  /\ Types /\ Enabling(p) => EnAll(call[p])
           /\ \A d : Types' /\ call'[p] = d /\ EnAll(d)' => Enabling(p)'
<1>1. Types /\ Enabling(p) => EnAll(call[p])
  BY DEF Enabling, EnAll, EnTables, EnRows, EnDNS, EnTURN, EnSFU, EnFile, EnGateway, Types, TaskTypes
<1>2. \A d : Types' /\ call'[p] = d /\ EnAll(d)' => Enabling(p)'
  BY DEF Enabling, EnAll, EnTables, EnRows, EnDNS, EnTURN, EnSFU, EnFile, EnGateway
<1> QED
  BY <1>1, <1>2

\* How the nodes done grow with a step of EnableWebRTC.
LEMMA EnableProgress ==
    ASSUME NEW c, NEW d, NEW n, Proper(c), c.op = "enable", Progress(c, d, n)
    PROVE  /\ AllDone(d, 3) = IF 3 = c.k THEN AllDone(c, 3) \cup {n} ELSE AllDone(c, 3)
           /\ AllDone(d, 8) = IF 8 = c.k THEN AllDone(c, 8) \cup {n} ELSE AllDone(c, 8)
           /\ AllDone(d, 11) = IF 11 = c.k THEN AllDone(c, 11) \cup {n} ELSE AllDone(c, 11)
           /\ AllDone(d, 12) = IF 12 = c.k THEN AllDone(c, 12) \cup {n} ELSE AllDone(c, 12)
           /\ TurnDone(d, 5) = IF 5 = c.k THEN TurnDone(c, 5) \cup {n} ELSE TurnDone(c, 5)
           /\ TurnDone(d, 7) = IF 7 = c.k THEN TurnDone(c, 7) \cup {n} ELSE TurnDone(c, 7)
           /\ TurnDone(d, 10) = IF 10 = c.k THEN TurnDone(c, 10) \cup {n} ELSE TurnDone(c, 10)
           /\ d.sec = c.sec /\ d.on = c.on /\ d.sfu = c.sfu /\ d.turn = c.turn /\ d.op = "enable"
           /\ d.k \in Nat /\ d.k >= c.k /\ c.k \in 1 .. 12
<1>1. Len(Program["enable"]) = 12
  BY Lengths
<1>2. /\ Program["enable"][3] \in OverAll /\ Program["enable"][8] \in OverAll
      /\ Program["enable"][11] \in OverAll /\ Program["enable"][12] \in OverAll
      /\ Program["enable"][5] \in OverTURN /\ Program["enable"][7] \in OverTURN
      /\ Program["enable"][10] \in OverTURN
  BY EnableProgram DEF OverAll, OverTURN
<1>3. c.k \in 1 .. 12
  BY <1>1 DEF Proper
<1>4. \A i \in 1 .. 12 :
         /\ Program["enable"][i] \in OverAll =>
               AllDone(d, i) = IF i = c.k THEN AllDone(c, i) \cup {n} ELSE AllDone(c, i)
         /\ Program["enable"][i] \in OverTURN =>
               TurnDone(d, i) = IF i = c.k THEN TurnDone(c, i) \cup {n} ELSE TurnDone(c, i)
  BY <1>1 DEF Progress
<1>5. /\ d.sec = c.sec /\ d.on = c.on /\ d.sfu = c.sfu /\ d.turn = c.turn /\ d.op = "enable"
      /\ d.k \in Nat /\ d.k >= c.k
  BY <1>3 DEF Progress
<1>6. /\ AllDone(d, 3) = IF 3 = c.k THEN AllDone(c, 3) \cup {n} ELSE AllDone(c, 3)
      /\ AllDone(d, 8) = IF 8 = c.k THEN AllDone(c, 8) \cup {n} ELSE AllDone(c, 8)
      /\ AllDone(d, 11) = IF 11 = c.k THEN AllDone(c, 11) \cup {n} ELSE AllDone(c, 11)
      /\ AllDone(d, 12) = IF 12 = c.k THEN AllDone(c, 12) \cup {n} ELSE AllDone(c, 12)
  BY <1>2, <1>4
<1>7. /\ TurnDone(d, 5) = IF 5 = c.k THEN TurnDone(c, 5) \cup {n} ELSE TurnDone(c, 5)
      /\ TurnDone(d, 7) = IF 7 = c.k THEN TurnDone(c, 7) \cup {n} ELSE TurnDone(c, 7)
      /\ TurnDone(d, 10) = IF 10 = c.k THEN TurnDone(c, 10) \cup {n} ELSE TurnDone(c, 10)
  BY <1>2, <1>4
<1> QED
  BY <1>3, <1>5, <1>6, <1>7

\* A step leaves alone what it does not change.
LEMMA EnableFrame ==
    ASSUME NEW c, NEW d, NEW n, Proper(c), c.op = "enable", Progress(c, d, n), Idle,
           UNCHANGED CallVars, UNCHANGED noise, UNCHANGED config
    PROVE  /\ EnTables(c) /\ UNCHANGED <<stealth, stealthDNS>> => EnTables(d)'
           /\ EnRows(c) /\ UNCHANGED rows /\ c.k \notin {3, 4, 5} => EnRows(d)'
           /\ EnDNS(c) /\ UNCHANGED turnDNS /\ c.k # 10 => EnDNS(d)'
           /\ EnTURN(c) /\ UNCHANGED turn /\ c.k # 7 /\ (rows' = rows \/ c.k < 7) => EnTURN(d)'
           /\ EnSFU(c) /\ UNCHANGED sfu /\ c.k # 8 /\ (rows' = rows \/ c.k < 8) => EnSFU(d)'
           /\ EnFile(c) /\ UNCHANGED <<file, gateway>> /\ c.k \notin {11, 12} => EnFile(d)'
           /\ EnGateway(c) /\ UNCHANGED gateway /\ c.k # 12 => EnGateway(d)'
<1> USE EnableProgress
<1>0. up' = up /\ restore' = restore /\ c.k \in 1 .. 12
  BY DEF CallVars
<1>1. EnTables(c) /\ UNCHANGED <<stealth, stealthDNS>> => EnTables(d)'
  BY DEF EnTables
<1>2. EnRows(c) /\ UNCHANGED rows /\ c.k \notin {3, 4, 5} => EnRows(d)'
  <2> SUFFICES ASSUME EnRows(c), UNCHANGED rows, c.k \notin {3, 4, 5} PROVE EnRows(d)'
    OBVIOUS
  <2>0. c.k # 3 /\ c.k # 4 /\ c.k # 5
    OBVIOUS
  <2>1. AllDone(d, 3) = AllDone(c, 3) /\ TurnDone(d, 5) = TurnDone(c, 5)
    BY <2>0
  <2>2. d.k > 4 => c.k > 4
    BY <1>0, <2>0 DEF Progress
  <2> QED
    BY <2>1, <2>2 DEF EnRows
<1>3. EnDNS(c) /\ UNCHANGED turnDNS /\ c.k # 10 => EnDNS(d)'
  BY <1>0 DEF EnDNS
<1>4. EnTURN(c) /\ UNCHANGED turn /\ c.k # 7 /\ (rows' = rows \/ c.k < 7) => EnTURN(d)'
  <2> SUFFICES ASSUME EnTURN(c), UNCHANGED turn, c.k # 7, rows' = rows \/ c.k < 7 PROVE EnTURN(d)'
    OBVIOUS
  <2>0. TurnDone(d, 7) = TurnDone(c, 7)
    BY <1>0
  <2>1. TurnDone(d, 7) = TurnDone(c, 7) /\ (c.k < 7 => TurnDone(c, 7) = {})
    BY <1>0, <2>0 DEF TurnDone
  <2>2. CASE c.k < 7
    BY <2>1, <2>2 DEF EnTURN
  <2>3. CASE rows' = rows
    <3>1. \A m \in Nodes : HasTURN(m, FALSE) => HasTURN(m, FALSE)'
      BY <1>0, <2>3 DEF HasTURN, TURNNodes, TURNBack, TURNFor
    <3> QED
      BY <2>1, <3>1 DEF EnTURN
  <2> QED
    BY <2>2, <2>3
<1>5. EnSFU(c) /\ UNCHANGED sfu /\ c.k # 8 /\ (rows' = rows \/ c.k < 8) => EnSFU(d)'
  <2> SUFFICES ASSUME EnSFU(c), UNCHANGED sfu, c.k # 8, rows' = rows \/ c.k < 8 PROVE EnSFU(d)'
    OBVIOUS
  <2>0. AllDone(d, 8) = AllDone(c, 8)
    BY <1>0
  <2>1. AllDone(d, 8) = AllDone(c, 8) /\ (c.k < 8 => AllDone(c, 8) = {})
    BY <1>0, <2>0 DEF AllDone
  <2>2. CASE c.k < 8
    BY <2>1, <2>2 DEF EnSFU
  <2>3. CASE rows' = rows
    <3>1. \A m \in Nodes : HasSFU(m) => HasSFU(m)'
      BY <1>0, <2>3 DEF HasSFU, Steady, SFUFor
    <3> QED
      BY <2>1, <3>1 DEF EnSFU
  <2> QED
    BY <2>2, <2>3
<1>6. EnFile(c) /\ UNCHANGED <<file, gateway>> /\ c.k \notin {11, 12}
      => EnFile(d)'
  <2> SUFFICES ASSUME EnFile(c), UNCHANGED <<file, gateway>>, c.k \notin {11, 12} PROVE EnFile(d)'
    OBVIOUS
  <2>0. c.k <= 10 /\ AllDone(d, 11) = AllDone(c, 11)
    BY <1>0
  <2>1. AllDone(d, 11) = {} /\ c.k <= 10
    BY <1>0, <2>0 DEF AllDone
  <2>2. \A m \in Nodes : Forgets(m) => Forgets(m)'
    BY <1>0 DEF Forgets, GatewayBack
  <2> QED
    BY <2>1, <2>2 DEF EnFile
<1>7. EnGateway(c) /\ UNCHANGED gateway /\ c.k # 12 => EnGateway(d)'
  <2> SUFFICES ASSUME EnGateway(c), UNCHANGED gateway, c.k # 12 PROVE EnGateway(d)'
    OBVIOUS
  <2>0. c.k < 12 /\ AllDone(d, 12) = AllDone(c, 12)
    BY <1>0
  <2>1. AllDone(d, 12) = {} /\ AllDone(c, 12) = {}
    BY <1>0, <2>0 DEF AllDone
  <2> QED
    BY <1>0, <2>1 DEF EnGateway
<1> QED
  BY <1>1, <1>2, <1>3, <1>4, <1>5, <1>6, <1>7

\* The step of p is done for node n, its call reading c.
LEMMA GoesOn ==
    ASSUME NEW p \in Nodes, Types, Types', NEW c, Proper(c), c.op = "enable", c.todo = call[p].todo,
           Goes(p, c), c.k < 12
    PROVE  \E d : /\ Steps(p, d) /\ Progress(c, d, Node(p)) /\ call'[p] = d
                  /\ (EnAll(d)' => Enabling(p)')
<1>1. Steps(p, Proceed(c)) /\ c.op # "none"
  BY GoesSteps DEF Types
<1>2. Progress(c, Proceed(c), Node(p))
  <2>1. c.k # Len(Program[c.op])
    BY Lengths
  <2> QED
    BY <1>1, <2>1, Advance DEF Node
<1> QED
  BY <1>1, <1>2, EnablingIs DEF Steps

EnableAt(p, k) ==
    Only(p) /\ call[p].op = "enable" /\ call[p].k = k /\ noise = {} /\ Enabling(p)

\* What a step of EnableWebRTC may lead to.
EnableGoes(p) ==
    /\ noise' = {} /\ UNCHANGED CallVars /\ Types'
    /\ \/ call'[p].op = "enable" /\ call'[p].k # 1 /\ Enabling(p)'
       \/ call'[p].op = "cleanup" /\ CleaningUp(p)'
       \/ call'[p].op = "none" /\ Rest'

\* What is known at a step of EnableWebRTC.
LEMMA EnableHas ==
    ASSUME NEW p \in Nodes, NEW k, EnableAt(p, k)
    PROVE  /\ Proper(call[p]) /\ call[p] \in CallTypes /\ EnAll(call[p]) /\ Types /\ Idle
           /\ k \in 2 .. 12 /\ call[p].sec # None /\ k = call[p].k
           /\ up \subseteq Nodes /\ rows.sfu \in Blocks /\ rows.turn \in Blocks
<1>1. Types /\ Proper(call[p]) /\ call[p] \in CallTypes /\ Idle
  BY DEF EnableAt, Only, Types, TaskTypes, Proper
<1>2. call[p].k \in 1 .. 12 /\ call[p].k # 1
  BY <1>1, Lengths DEF EnableAt, Proper, Only, Calling
<1>3. EnAll(call[p])
  BY <1>1, EnablingIs DEF EnableAt
<1>4. k = call[p].k
  BY DEF EnableAt
<1> QED
  BY <1>1, <1>2, <1>3, <1>4 DEF EnAll, EnTables, Types, TaskTypes, TableTypes

\* An error of EnableWebRTC leaves to the clean-up what the clean-up expects.
LEMMA ToCleanup ==
    ASSUME NEW p \in Nodes, NEW k \in {3, 5, 6, 7, 8, 10}, EnableAt(p, k), Types', Fails(p),
           noise' = {}, UNCHANGED <<CallVars, stealth, stealthDNS, turnDNS, file, gateway>>, turnDNS = {}
    PROVE  EnableGoes(p)
<1> DEFINE c == call[p]
           d == Fail(call[p])
<1>1. Proper(c) /\ c \in CallTypes /\ EnAll(c) /\ Types /\ Idle
  BY EnableHas
<1>2. Became(c, d, "cleanup", Nodes)
  BY <1>1, EnableFails DEF EnableAt
<1>3. Steps(p, d)
  BY <1>1, FailsSteps DEF EnableAt, Types
<1>4. c.k = k /\ AllDone(c, 12) = {}
  BY DEF AllDone, EnableAt
<1>5. /\ ~stealth /\ stealthDNS = {}
      /\ \A n \in Nodes : Forgets(n)
      /\ \A n \in up : gateway[n] = Plain
  <2>1. ~stealth /\ stealthDNS = {}
    BY <1>1 DEF EnAll, EnTables
  <2>2. c.k <= 10
    BY <1>4
  <2>3. \A n \in Nodes : Forgets(n)
    BY <1>1, <2>2 DEF EnAll, EnFile
  <2>4. \A n \in up : gateway[n] = Plain
    BY <1>1, <1>4 DEF EnAll, EnGateway
  <2> QED
    BY <2>1, <2>3, <2>4
<1> HIDE DEF d
<1>6. \A n \in Nodes : Forgets(n)'
  BY <1>5 DEF Forgets, GatewayBack, CallVars
<1>7. call'[p] = d /\ d.op = "cleanup" /\ d.k = 1 /\ d.todo = Nodes /\ up' = up
  BY <1>2, <1>3 DEF Became, Steps, CallVars
<1>8. AllDone(d, 1) = {} /\ ~(d.k > 2)
  BY <1>7 DEF AllDone
<1>9. CleaningUp(p)'
  BY <1>5, <1>6, <1>7, <1>8 DEF CleaningUp
<1> QED
  BY <1>7, <1>9 DEF EnableGoes

\* Nothing but the call changes.
LEMMA EnablePasses ==
    ASSUME NEW p \in Nodes, NEW k \in {2, 6}, EnableAt(p, k), Types', Goes(p, call[p]), noise' = noise,
           UNCHANGED <<CallVars, tables, units, file>>
    PROVE  EnableGoes(p)
<1> DEFINE c == call[p]
<1>1. Proper(c) /\ EnAll(c) /\ Types /\ Idle /\ c.op = "enable" /\ c.k = k
  BY EnableHas DEF EnableAt
<1>2. PICK d : Steps(p, d) /\ Progress(c, d, Node(p)) /\ call'[p] = d /\ (EnAll(d)' => Enabling(p)')
  BY <1>1, GoesOn
<1>3. UNCHANGED <<config, stealth, rows, turnDNS, stealthDNS, turn, sfu, gateway, file>>
  BY DEF tables, units
<1>4. EnAll(d)'
  BY <1>1, <1>2, <1>3, EnableFrame DEF EnAll
<1>5. d.op = "enable" /\ d.k # 1
  BY <1>1, <1>2, EnableProgress
<1> QED
  BY <1>2, <1>4, <1>5 DEF EnableGoes, EnableAt

\* The call reads c, at the same step.
LEMMA SameParts ==
    ASSUME NEW p \in Nodes, NEW c, c.sec = call[p].sec, c.k = call[p].k, c.todo = call[p].todo,
           c.on = call[p].on \/ (call[p].k < 5 /\ call[p].k \in Nat)
    PROVE  /\ EnTables(call[p]) => EnTables(c)
           /\ EnDNS(call[p]) => EnDNS(c)
           /\ EnTURN(call[p]) => EnTURN(c)
           /\ EnSFU(call[p]) => EnSFU(c)
           /\ EnFile(call[p]) => EnFile(c)
           /\ EnGateway(call[p]) => EnGateway(c)
           /\ AllDone(c, 3) = AllDone(call[p], 3) /\ TurnDone(c, 5) = TurnDone(call[p], 5)
<1>1. /\ AllDone(c, 3) = AllDone(call[p], 3) /\ AllDone(c, 8) = AllDone(call[p], 8)
      /\ AllDone(c, 11) = AllDone(call[p], 11) /\ AllDone(c, 12) = AllDone(call[p], 12)
  BY DEF AllDone
<1>2. TurnDone(c, 5) = TurnDone(call[p], 5)
  BY DEF TurnDone
<1>3. TurnDone(c, 7) = TurnDone(call[p], 7)
  BY DEF TurnDone
<1>4. TurnDone(c, 10) = TurnDone(call[p], 10)
  BY DEF TurnDone
<1>5. (EnTables(call[p]) => EnTables(c)) /\ (EnDNS(call[p]) => EnDNS(c))
  BY <1>4 DEF EnTables, EnDNS
<1>6. (EnTURN(call[p]) => EnTURN(c)) /\ (EnSFU(call[p]) => EnSFU(c))
  BY <1>1, <1>3 DEF EnTURN, EnSFU
<1>7. (EnFile(call[p]) => EnFile(c)) /\ (EnGateway(call[p]) => EnGateway(c))
  BY <1>1 DEF EnFile, EnGateway
<1> QED
  BY <1>1, <1>2, <1>5, <1>6, <1>7

\* Step by step, EnableWebRTC keeps what it is done with: reading the nodes,
LEMMA Enable2 ==
    ASSUME NEW p \in Nodes, EnableAt(p, 2), ReadNodes(p), noise' \subseteq {"respawn"}
    PROVE  EnableGoes(p)
<1>1. Types'
  BY ReadNodesTypes DEF EnableAt, Only
<1>2. ~Lost(p, "lost")
  BY DEF Lost, Note
<1>3. Goes(p, call[p]) /\ noise' = noise /\ UNCHANGED <<CallVars, tables, units, file>>
  BY <1>2 DEF ReadNodes, Stated, Fine, EnableAt
<1> QED
  BY <1>1, <1>3, EnablePasses

\* reserving the SFU ports,
LEMMA Enable3 ==
    ASSUME NEW p \in Nodes, EnableAt(p, 3), Allocate(p, "sfu_ports", "sfu"),
           noise' \subseteq {"respawn"}
    PROVE  EnableGoes(p)
<1> DEFINE n == Node(p)
           block == IF rows.sfu[n] # None THEN rows.sfu[n] ELSE call[p].sec
           c == [call[p] EXCEPT !.sfu[n] = block]
<1>1. /\ Proper(call[p]) /\ call[p] \in CallTypes /\ EnAll(call[p]) /\ Types /\ Idle
      /\ call[p].op = "enable" /\ call[p].k = 3
  BY EnableHas DEF EnableAt
<1>2. Types'
  BY <1>1, AllocateTypes
<1>3. noise' = noise /\ UNCHANGED <<CallVars, units, file>>
  BY DEF Allocate, Stated, Fine
<1>4. CASE Fails(p) /\ UNCHANGED tables
  <2>1. turnDNS = {}
    BY <1>1 DEF EnAll, EnDNS, TurnDone
  <2> QED
    BY <1>2, <1>3, <1>4, <2>1, ToCleanup DEF tables, units, EnableAt
<1>5. CASE /\ rows' = [rows EXCEPT !["sfu"][n] = block] /\ Goes(p, c)
           /\ UNCHANGED <<config, stealth, next, turnDNS, stealthDNS>>
  <2>1. n \in call[p].todo /\ n \in Nodes
    BY <1>1, NodeOf DEF Allocate, Types, OverAll
  <2>2. rows.sfu[n] = None /\ block = call[p].sec
    BY <1>1, <2>1 DEF EnAll, EnRows, AllDone
  <2>3. rows.sfu \in Blocks /\ rows.turn \in Blocks /\ rows \in [sfu : Blocks, turn : Blocks]
    BY <1>1 DEF Types, TableTypes
  <2> HIDE DEF block, n
  <2>4. rows'.sfu = [rows.sfu EXCEPT ![n] = block] /\ rows'.turn = rows.turn
    BY <1>5, <2>3
  <2>5. call[p].sfu \in Blocks /\ block \in Secrets
    BY <1>1, <2>2 DEF CallTypes
  <2>6. c = [call[p] EXCEPT !.sfu = [call[p].sfu EXCEPT ![n] = block]]
    BY <1>1 DEF CallTypes
  <2>7. [call[p].sfu EXCEPT ![n] = block] \in Blocks
    BY <2>1, <2>5 DEF Blocks
  <2> HIDE DEF c
  <2>8. /\ c \in CallTypes /\ c.op = "enable" /\ c.k = 3 /\ c.todo = call[p].todo
        /\ c.sec = call[p].sec /\ c.on = call[p].on /\ c.turn = call[p].turn
        /\ c.sfu = [call[p].sfu EXCEPT ![n] = block]
    BY <1>1, <2>6, <2>7 DEF CallTypes
  <2>9. Proper(c)
    BY <1>1, <2>8, ProperWith
  <2>10. PICK d : Steps(p, d) /\ Progress(c, d, n) /\ call'[p] = d /\ (EnAll(d)' => Enabling(p)')
    BY <1>1, <1>2, <1>5, <2>8, <2>9, GoesOn DEF n
  <2>11. AllDone(c, 3) = AllDone(call[p], 3) /\ TurnDone(c, 5) = TurnDone(call[p], 5)
    BY <1>1, <2>8, SameParts
  <2>12. EnTables(c) /\ EnDNS(c) /\ EnTURN(c) /\ EnSFU(c) /\ EnFile(c) /\ EnGateway(c)
    BY <1>1, <2>8, <2>9, SameParts DEF EnAll
  <2>13. /\ EnTables(d)' /\ EnDNS(d)' /\ EnTURN(d)' /\ EnSFU(d)' /\ EnFile(d)' /\ EnGateway(d)'
    BY <1>1, <1>3, <1>5, <2>8, <2>9, <2>10, <2>12, EnableFrame DEF units
  <2>14. /\ AllDone(d, 3) = AllDone(call[p], 3) \cup {n} /\ d.op = "enable" /\ d.k # 1
         /\ TurnDone(d, 5) = TurnDone(call[p], 5) /\ d.k <= 4
         /\ d.sfu = c.sfu /\ d.turn = c.turn /\ d.sec = c.sec
    <3>1. Program["enable"][4] \notin OverTURN
      BY EnableProgram DEF OverTURN
    <3>2. d.k <= 4
      BY <2>8, <2>10, <3>1 DEF Progress
    <3> QED
      BY <2>8, <2>9, <2>10, <2>11, <3>2, EnableProgress
  <2>15. EnRows(d)'
    <3>1. /\ call[p].sfu = rows.sfu /\ call[p].turn = rows.turn
          /\ \A m \in Nodes : rows.sfu[m] = IF m \in AllDone(call[p], 3) THEN call[p].sec ELSE None
          /\ \A m \in Nodes : rows.turn[m] = IF m \in TurnDone(call[p], 5) THEN call[p].sec ELSE None
      BY <1>1 DEF EnAll, EnRows
    <3>2. d.sfu = rows'.sfu /\ d.turn = rows'.turn
      BY <2>4, <2>8, <2>14, <3>1
    <3>3. \A m \in Nodes : rows'.sfu[m] = IF m \in AllDone(d, 3) THEN d.sec ELSE None
      BY <2>1, <2>2, <2>3, <2>4, <2>8, <2>14, <3>1 DEF Blocks
    <3>4. \A m \in Nodes : rows'.turn[m] = IF m \in TurnDone(d, 5) THEN d.sec ELSE None
      BY <2>4, <2>8, <2>14, <3>1
    <3>5. ~(d.k > 4)
      BY <2>10, <2>14 DEF Progress, Proper, CallTypes
    <3> QED
      BY <3>2, <3>3, <3>4, <3>5 DEF EnRows
  <2> QED
    BY <1>2, <1>3, <2>10, <2>13, <2>14, <2>15 DEF EnableGoes, EnAll, EnableAt
<1> QED
  BY <1>4, <1>5 DEF Allocate, Stated

\* selecting the TURN nodes,
LEMMA Enable4 ==
    ASSUME NEW p \in Nodes, EnableAt(p, 4), SelectTURNNodes(p) PROVE EnableGoes(p)
<1>1. /\ Proper(call[p]) /\ call[p] \in CallTypes /\ EnAll(call[p]) /\ Types /\ Idle
      /\ call[p].op = "enable" /\ call[p].k = 4
  BY EnableHas DEF EnableAt
<1>2. Types'
  BY <1>1, SelectTURNNodesTypes
<1>3. PICK on \in SUBSET Nodes :
         Cardinality(on) = TurnCount /\ Goes(p, [call[p] EXCEPT !.on = on])
  BY DEF SelectTURNNodes
<1>4. /\ noise' = noise /\ UNCHANGED CallVars
      /\ UNCHANGED <<config, stealth, rows, turnDNS, stealthDNS, turn, sfu, gateway, file>>
  BY DEF SelectTURNNodes, Fine, tables, units
<1> DEFINE c == [call[p] EXCEPT !.on = on]
<1>5. /\ c \in CallTypes /\ c.op = "enable" /\ c.k = 4 /\ c.todo = call[p].todo
      /\ c.sec = call[p].sec /\ c.on = on /\ c.turn = call[p].turn /\ c.sfu = call[p].sfu
  BY <1>1 DEF CallTypes
<1>a. Goes(p, c)
  BY <1>3
<1> HIDE DEF c
<1>6. Proper(c)
  <2>1. Program["enable"][4] \notin OverTURN
    BY EnableProgram DEF OverTURN
  <2> QED
    BY <1>1, <1>5, <2>1, ProperWith
<1>7. PICK d : Steps(p, d) /\ Progress(c, d, Node(p)) /\ call'[p] = d /\ (EnAll(d)' => Enabling(p)')
  BY <1>1, <1>2, <1>5, <1>6, <1>a, GoesOn
<1>8. /\ EnTables(c) /\ EnDNS(c) /\ EnTURN(c) /\ EnSFU(c) /\ EnFile(c) /\ EnGateway(c)
      /\ AllDone(c, 3) = AllDone(call[p], 3) /\ TurnDone(c, 5) = TurnDone(call[p], 5)
  BY <1>1, <1>5, SameParts DEF EnAll
<1>9. EnTables(d)' /\ EnDNS(d)' /\ EnTURN(d)' /\ EnSFU(d)' /\ EnFile(d)' /\ EnGateway(d)'
  BY <1>1, <1>4, <1>5, <1>6, <1>7, <1>8, EnableFrame
<1>10. /\ AllDone(d, 3) = AllDone(call[p], 3) /\ TurnDone(d, 5) = TurnDone(call[p], 5)
       /\ d.op = "enable" /\ d.k # 1 /\ d.sfu = c.sfu /\ d.turn = c.turn /\ d.sec = c.sec /\ d.on = on
  BY <1>5, <1>6, <1>7, <1>8, EnableProgress
<1>11. EnRows(d)'
  BY <1>1, <1>3, <1>4, <1>5, <1>10 DEF EnRows, EnAll
<1> QED
  BY <1>2, <1>4, <1>7, <1>9, <1>10, <1>11 DEF EnableGoes, EnAll, EnableAt

\* reserving the TURN ports,
LEMMA Enable5 ==
    ASSUME NEW p \in Nodes, EnableAt(p, 5), Allocate(p, "turn_ports", "turn"),
           noise' \subseteq {"respawn"}
    PROVE  EnableGoes(p)
<1> DEFINE n == Node(p)
           block == IF rows.turn[n] # None THEN rows.turn[n] ELSE call[p].sec
           c == [call[p] EXCEPT !.turn[n] = block]
<1>1. /\ Proper(call[p]) /\ call[p] \in CallTypes /\ EnAll(call[p]) /\ Types /\ Idle
      /\ call[p].op = "enable" /\ call[p].k = 5
  BY EnableHas DEF EnableAt
<1>2. Types'
  BY <1>1, AllocateTypes
<1>3. noise' = noise /\ UNCHANGED <<CallVars, units, file>>
  BY DEF Allocate, Stated, Fine
<1>4. CASE Fails(p) /\ UNCHANGED tables
  <2>1. turnDNS = {}
    BY <1>1 DEF EnAll, EnDNS, TurnDone
  <2> QED
    BY <1>2, <1>3, <1>4, <2>1, ToCleanup DEF tables, units, EnableAt
<1>5. CASE /\ rows' = [rows EXCEPT !["turn"][n] = block] /\ Goes(p, c)
           /\ UNCHANGED <<config, stealth, next, turnDNS, stealthDNS>>
  <2>1. n \in call[p].todo /\ n \in Nodes
    BY <1>1, NodeOf DEF Allocate, Types, OverTURN
  <2>2. rows.turn[n] = None /\ block = call[p].sec
    BY <1>1, <2>1 DEF EnAll, EnRows, TurnDone
  <2>3. rows.sfu \in Blocks /\ rows.turn \in Blocks /\ rows \in [sfu : Blocks, turn : Blocks]
    BY <1>1 DEF Types, TableTypes
  <2> HIDE DEF block, n
  <2>4. rows'.turn = [rows.turn EXCEPT ![n] = block] /\ rows'.sfu = rows.sfu
    BY <1>5, <2>3
  <2>5. call[p].turn \in Blocks /\ block \in Secrets
    BY <1>1, <2>2 DEF CallTypes
  <2>6. c = [call[p] EXCEPT !.turn = [call[p].turn EXCEPT ![n] = block]]
    BY <1>1 DEF CallTypes
  <2>7. [call[p].turn EXCEPT ![n] = block] \in Blocks
    BY <2>1, <2>5 DEF Blocks
  <2> HIDE DEF c
  <2>8. /\ c \in CallTypes /\ c.op = "enable" /\ c.k = 5 /\ c.todo = call[p].todo
        /\ c.sec = call[p].sec /\ c.on = call[p].on /\ c.sfu = call[p].sfu
        /\ c.turn = [call[p].turn EXCEPT ![n] = block]
    BY <1>1, <2>6, <2>7 DEF CallTypes
  <2>9. Proper(c)
    BY <1>1, <2>8, ProperWith
  <2>10. PICK d : Steps(p, d) /\ Progress(c, d, n) /\ call'[p] = d /\ (EnAll(d)' => Enabling(p)')
    BY <1>1, <1>2, <1>5, <2>8, <2>9, GoesOn DEF n
  <2>11. /\ EnTables(c) /\ EnDNS(c) /\ EnTURN(c) /\ EnSFU(c) /\ EnFile(c) /\ EnGateway(c)
         /\ AllDone(c, 3) = AllDone(call[p], 3) /\ TurnDone(c, 5) = TurnDone(call[p], 5)
    BY <1>1, <2>8, SameParts DEF EnAll
  <2>12. /\ EnTables(d)' /\ EnDNS(d)' /\ EnTURN(d)' /\ EnSFU(d)' /\ EnFile(d)' /\ EnGateway(d)'
    BY <1>1, <1>3, <1>5, <2>8, <2>9, <2>10, <2>11, EnableFrame DEF units
  <2>13. /\ TurnDone(d, 5) = TurnDone(call[p], 5) \cup {n} /\ d.op = "enable" /\ d.k # 1
         /\ AllDone(d, 3) = AllDone(call[p], 3) /\ d.on = c.on
         /\ d.sfu = c.sfu /\ d.turn = c.turn /\ d.sec = c.sec
    BY <2>8, <2>9, <2>10, <2>11, EnableProgress
  <2>14. EnRows(d)'
    <3>1. /\ call[p].sfu = rows.sfu /\ call[p].turn = rows.turn
          /\ \A m \in Nodes : rows.sfu[m] = IF m \in AllDone(call[p], 3) THEN call[p].sec ELSE None
          /\ \A m \in Nodes : rows.turn[m] = IF m \in TurnDone(call[p], 5) THEN call[p].sec ELSE None
          /\ Cardinality(call[p].on) = TurnCount
      BY <1>1 DEF EnAll, EnRows
    <3>2. d.sfu = rows'.sfu /\ d.turn = rows'.turn
      BY <2>4, <2>8, <2>13, <3>1
    <3>3. \A m \in Nodes : rows'.turn[m] = IF m \in TurnDone(d, 5) THEN d.sec ELSE None
      BY <2>1, <2>2, <2>3, <2>4, <2>8, <2>13, <3>1 DEF Blocks
    <3>4. \A m \in Nodes : rows'.sfu[m] = IF m \in AllDone(d, 3) THEN d.sec ELSE None
      BY <2>4, <2>8, <2>13, <3>1
    <3> QED
      BY <2>8, <2>13, <3>1, <3>2, <3>3, <3>4 DEF EnRows
  <2> QED
    BY <1>2, <1>3, <2>10, <2>12, <2>13, <2>14 DEF EnableGoes, EnAll, EnableAt
<1> QED
  BY <1>4, <1>5 DEF Allocate, Stated

\* reading the ports back,
LEMMA Enable6 ==
    ASSUME NEW p \in Nodes, EnableAt(p, 6), ReadPorts(p), noise' \subseteq {"respawn"}
    PROVE  EnableGoes(p)
<1>1. Types' /\ EnAll(call[p]) /\ call[p].k = 6
  BY ReadPortsTypes, EnableHas DEF EnableAt, Only
<1>2. noise' = noise /\ UNCHANGED <<CallVars, tables, units, file>> /\ (Goes(p, call[p]) \/ Fails(p))
  BY DEF ReadPorts, Stated, Fine
<1>3. turnDNS = {}
  BY <1>1 DEF EnAll, EnDNS, TurnDone
<1>4. CASE Fails(p)
  BY <1>1, <1>2, <1>3, <1>4, ToCleanup DEF tables, units, EnableAt
<1> QED
  BY <1>1, <1>2, <1>4, EnablePasses

\* A node that is not done with.
LEMMA NotYet ==
    ASSUME NEW c, NEW i \in Nat, c.k = i, NEW n \in c.todo
    PROVE  n \notin AllDone(c, i) /\ n \notin TurnDone(c, i)
BY DEF AllDone, TurnDone

\* spawning the TURN servers,
LEMMA Enable7 ==
    ASSUME NEW p \in Nodes, EnableAt(p, 7), SpawnTURN(p), noise' \subseteq {"respawn"}
    PROVE  EnableGoes(p)
<1>0. PICK n \in Nodes : n = Node(p) /\ n \in call[p].todo
  BY NodeOf DEF SpawnTURN, EnableAt, Only, Types, OverTURN
<1> DEFINE c == call[p]
           cfg == [sec |-> c.sec, port |-> c.turn[n], stealth |-> FALSE]
<1>1. Proper(c) /\ c \in CallTypes /\ EnAll(c) /\ Types /\ Idle /\ c.op = "enable" /\ c.k = 7
  BY EnableHas DEF EnableAt
<1>2. Types'
  BY <1>1, SpawnTURNTypes
<1>3. /\ noise' = noise /\ UNCHANGED <<CallVars, tables, sfu, gateway, file>>
      /\ \/ turn' = Started(turn, n, cfg) /\ Goes(p, c)
         \/ turn' = turn /\ Fails(p)
  <2>1. ~Note("lost", TRUE)
    BY DEF Note
  <2> QED
    BY <1>0, <2>1 DEF SpawnTURN, Fine
<1>4. CASE Fails(p) /\ turn' = turn
  <2>1. turnDNS = {}
    BY <1>1 DEF EnAll, EnDNS, TurnDone
  <2> QED
    BY <1>2, <1>3, <1>4, <2>1, ToCleanup DEF tables, EnableAt
<1>5. CASE turn' = Started(turn, n, cfg) /\ Goes(p, c)
  <2>1. n \in c.todo /\ n \in Nodes
    BY <1>0
  <2>2. PICK d : Steps(p, d) /\ Progress(c, d, n) /\ call'[p] = d /\ (EnAll(d)' => Enabling(p)')
    BY <1>0, <1>1, <1>2, <1>5, GoesOn
  <2>3. /\ EnTables(d)' /\ EnRows(d)' /\ EnDNS(d)' /\ EnSFU(d)' /\ EnFile(d)' /\ EnGateway(d)'
    BY <1>1, <1>3, <2>2, EnableFrame DEF EnAll, tables
  <2>4. TurnDone(d, 7) = TurnDone(c, 7) \cup {n} /\ d.op = "enable" /\ d.k # 1
    BY <1>1, <2>2, EnableProgress
  <2>5. n \notin TurnDone(c, 7)
    BY <1>1, <2>1, NotYet
  <2>6. turn[n] = NoTURN /\ turn \in [Nodes -> TURNs]
    BY <1>1, <2>1, <2>5 DEF EnAll, EnTURN, Types, UnitTypes
  <2> HIDE DEF cfg
  <2>7. turn' = [turn EXCEPT ![n] = cfg]
    BY <1>5, <2>1, <2>6 DEF Started, NoTURN
  <2>8. cfg = TURNFor(n, FALSE)
    BY <1>1 DEF EnAll, EnTables, EnRows, TURNFor, cfg
  <2>9. rows.turn[n] # None
    <3>1. n \in TurnDone(c, 5)
      <4>1. Program["enable"][7] \in OverTURN
        BY EnableProgram DEF OverTURN
      <4>2. n \in c.on
        BY <1>1, <2>1, <4>1 DEF Proper
      <4> QED
        BY <1>1, <4>2 DEF TurnDone
    <3> QED
      BY <1>1, <2>1, <3>1 DEF EnAll, EnTables, EnRows
  <2>10. EnTURN(d)'
    <3>1. UNCHANGED <<noise, up, restore, config, rows>>
      BY <1>3 DEF CallVars, tables
    <3>2. ASSUME NEW m \in Nodes, m # n
          PROVE  IF m \in TurnDone(d, 7) THEN HasTURN(m, FALSE)' ELSE turn'[m] = NoTURN
      <4>1. turn'[m] = turn[m] /\ (m \in TurnDone(d, 7) <=> m \in TurnDone(c, 7))
        BY <2>4, <2>6, <2>7, <3>2
      <4>2. HasTURN(m, FALSE) => HasTURN(m, FALSE)'
        BY <3>1, <4>1 DEF HasTURN, TURNNodes, TURNBack, TURNFor
      <4> QED
        BY <1>1, <3>2, <4>1, <4>2 DEF EnAll, EnTURN
    <3>3. HasTURN(n, FALSE)'
      <4>1. turn'[n] = TURNFor(n, FALSE) /\ TURNFor(n, FALSE)' = TURNFor(n, FALSE)
        BY <2>1, <2>6, <2>7, <2>8, <3>1 DEF TURNFor
      <4>2. n \in TURNNodes' /\ noise' = {}
        BY <2>1, <2>9, <3>1 DEF TURNNodes, EnableAt
      <4> QED
        BY <4>1, <4>2 DEF HasTURN
    <3>4. ASSUME NEW m \in Nodes
          PROVE  IF m \in TurnDone(d, 7) THEN HasTURN(m, FALSE)' ELSE turn'[m] = NoTURN
      BY <2>4, <3>2, <3>3
    <3> QED
      BY <3>4 DEF EnTURN
  <2> QED
    BY <1>2, <1>3, <2>2, <2>3, <2>4, <2>10 DEF EnableGoes, EnAll, EnableAt
<1> QED
  BY <1>3, <1>4, <1>5

\* spawning the SFUs,
LEMMA Enable8 ==
    ASSUME NEW p \in Nodes, EnableAt(p, 8), SpawnSFU(p), noise' \subseteq {"respawn"}
    PROVE  EnableGoes(p)
<1>0. PICK n \in Nodes : n = Node(p) /\ n \in call[p].todo
  BY NodeOf DEF SpawnSFU, EnableAt, Only, Types, OverAll
<1> DEFINE c == call[p]
           cfg == [sec |-> c.sec, port |-> c.sfu[n], media |-> c.sfu[n]]
<1>1. Proper(c) /\ c \in CallTypes /\ EnAll(c) /\ Types /\ Idle /\ c.op = "enable" /\ c.k = 8
  BY EnableHas DEF EnableAt
<1>2. Types'
  BY <1>1, SpawnSFUTypes
<1>3. /\ noise' = noise /\ UNCHANGED <<CallVars, tables, turn, gateway, file>>
      /\ \/ sfu' = Started(sfu, n, cfg) /\ Goes(p, c)
         \/ sfu' = sfu /\ Fails(p)
  <2>1. ~Note("lost", TRUE)
    BY DEF Note
  <2> QED
    BY <1>0, <2>1 DEF SpawnSFU, Fine
<1>4. CASE Fails(p) /\ sfu' = sfu
  <2>1. turnDNS = {}
    BY <1>1 DEF EnAll, EnDNS, TurnDone
  <2> QED
    BY <1>2, <1>3, <1>4, <2>1, ToCleanup DEF tables, EnableAt
<1>5. CASE sfu' = Started(sfu, n, cfg) /\ Goes(p, c)
  <2>1. PICK d : Steps(p, d) /\ Progress(c, d, n) /\ call'[p] = d /\ (EnAll(d)' => Enabling(p)')
    BY <1>0, <1>1, <1>2, <1>5, GoesOn
  <2>2. /\ EnTables(d)' /\ EnRows(d)' /\ EnDNS(d)' /\ EnTURN(d)' /\ EnFile(d)' /\ EnGateway(d)'
    BY <1>1, <1>3, <2>1, EnableFrame DEF EnAll, tables
  <2>3. AllDone(d, 8) = AllDone(c, 8) \cup {n} /\ d.op = "enable" /\ d.k # 1
    BY <1>1, <2>1, EnableProgress
  <2>4. n \notin AllDone(c, 8)
    BY <1>0, <1>1, NotYet
  <2>5. sfu[n] = NoSFU /\ sfu \in [Nodes -> SFUs]
    BY <1>1, <2>4 DEF EnAll, EnSFU, Types, UnitTypes
  <2> HIDE DEF cfg
  <2>6. sfu' = [sfu EXCEPT ![n] = cfg]
    BY <1>5, <2>5 DEF Started, NoSFU
  <2>7. cfg = SFUFor(n)
    BY <1>1 DEF EnAll, EnTables, EnRows, SFUFor, cfg
  <2>8. EnSFU(d)'
    <3>1. UNCHANGED <<up, restore, config, rows>>
      BY <1>3 DEF CallVars, tables
    <3>2. ASSUME NEW m \in Nodes, m # n
          PROVE  IF m \in AllDone(d, 8) THEN HasSFU(m)' ELSE sfu'[m] = NoSFU
      <4>1. sfu'[m] = sfu[m] /\ (m \in AllDone(d, 8) <=> m \in AllDone(c, 8))
        BY <2>3, <2>5, <2>6, <3>2
      <4>2. HasSFU(m) => HasSFU(m)'
        BY <3>1, <4>1 DEF HasSFU, Steady, SFUFor
      <4> QED
        BY <1>1, <3>2, <4>1, <4>2 DEF EnAll, EnSFU
    <3>3. HasSFU(n)'
      BY <2>5, <2>6, <2>7, <3>1 DEF HasSFU, SFUFor
    <3>4. ASSUME NEW m \in Nodes
          PROVE  IF m \in AllDone(d, 8) THEN HasSFU(m)' ELSE sfu'[m] = NoSFU
      BY <2>3, <3>2, <3>3
    <3> QED
      BY <3>4 DEF EnSFU
  <2> QED
    BY <1>2, <1>3, <2>1, <2>2, <2>3, <2>8 DEF EnableGoes, EnAll, EnableAt
<1> QED
  BY <1>3, <1>4, <1>5

\* deleting the old TURN records,
LEMMA Enable9 ==
    ASSUME NEW p \in Nodes, EnableAt(p, 9), ClearDNS(p), noise' \subseteq {"respawn"}
    PROVE  EnableGoes(p)
<1> DEFINE c == call[p]
<1>1. Proper(c) /\ c \in CallTypes /\ EnAll(c) /\ Types /\ Idle /\ c.op = "enable" /\ c.k = 9
  BY EnableHas DEF EnableAt
<1>2. Types'
  BY <1>1, ClearDNSTypes
<1>3. /\ noise' = noise /\ turnDNS' = {} /\ Goes(p, c)
      /\ UNCHANGED <<config, stealth, next, rows, stealthDNS>> /\ UNCHANGED <<CallVars, units, file>>
  <2>1. ~Lost(p, "lost")
    BY DEF Lost, Note
  <2> QED
    BY <2>1 DEF ClearDNS, Stated, Fine
<1>4. PICK d : Steps(p, d) /\ Progress(c, d, Node(p)) /\ call'[p] = d /\ (EnAll(d)' => Enabling(p)')
  BY <1>1, <1>2, <1>3, GoesOn
<1>5. TurnDone(c, 10) = {}
  BY <1>1 DEF TurnDone
<1>6. UNCHANGED <<turnDNS, turn, sfu, gateway>>
  BY <1>1, <1>3, <1>5 DEF EnAll, EnDNS, units
<1>7. EnAll(d)'
  BY <1>1, <1>3, <1>4, <1>6, EnableFrame DEF EnAll
<1>8. d.op = "enable" /\ d.k # 1
  BY <1>1, <1>4, EnableProgress
<1> QED
  BY <1>2, <1>3, <1>4, <1>7, <1>8 DEF EnableGoes, EnableAt

\* creating the new ones,
LEMMA Enable10 ==
    ASSUME NEW p \in Nodes, EnableAt(p, 10), CreateTURNRecords(p), noise' \subseteq {"respawn"}
    PROVE  EnableGoes(p)
<1> DEFINE c == call[p]
<1>0. PICK n \in Nodes : n = Node(p) /\ n \in call[p].todo
  BY NodeOf DEF CreateTURNRecords, EnableAt, Only, Types, OverTURN
<1>1. Proper(c) /\ c \in CallTypes /\ EnAll(c) /\ Types /\ Idle /\ c.op = "enable" /\ c.k = 10
  BY EnableHas DEF EnableAt
<1>2. Types'
  BY <1>1, CreateTURNRecordsTypes
<1>3. /\ noise' = noise /\ UNCHANGED <<config, stealth, next, rows, stealthDNS>>
      /\ UNCHANGED <<CallVars, units, file>>
      /\ \/ turnDNS' = turnDNS \cup {n} /\ Goes(p, c)
         \/ turnDNS' = turnDNS /\ turnDNS = {} /\ Fails(p)
  <2>1. Note("lost", turnDNS # {}) => noise' = noise /\ turnDNS = {}
    BY DEF Note
  <2> QED
    BY <1>0, <2>1 DEF CreateTURNRecords, Stated, Fine, tables
<1>4. CASE turnDNS' = turnDNS /\ turnDNS = {} /\ Fails(p)
  BY <1>2, <1>3, <1>4, ToCleanup DEF units, EnableAt
<1>5. CASE turnDNS' = turnDNS \cup {n} /\ Goes(p, c)
  <2>1. PICK d : Steps(p, d) /\ Progress(c, d, n) /\ call'[p] = d /\ (EnAll(d)' => Enabling(p)')
    BY <1>0, <1>1, <1>2, <1>5, GoesOn
  <2>2. /\ EnTables(d)' /\ EnRows(d)' /\ EnTURN(d)' /\ EnSFU(d)' /\ EnFile(d)' /\ EnGateway(d)'
    BY <1>1, <1>3, <2>1, EnableFrame DEF EnAll, units
  <2>3. TurnDone(d, 10) = TurnDone(c, 10) \cup {n} /\ d.op = "enable" /\ d.k # 1
    BY <1>1, <2>1, EnableProgress
  <2>4. EnDNS(d)'
    BY <1>1, <1>5, <2>3 DEF EnAll, EnDNS
  <2> QED
    BY <1>2, <1>3, <2>1, <2>2, <2>3, <2>4 DEF EnableGoes, EnAll, EnableAt
<1> QED
  BY <1>3, <1>4, <1>5

\* writing the state files,
LEMMA Enable11 ==
    ASSUME NEW p \in Nodes, EnableAt(p, 11), SaveState(p), noise' \subseteq {"respawn"}
    PROVE  EnableGoes(p)
<1> DEFINE c == call[p]
<1>0. PICK n \in Nodes : n = Node(p) /\ n \in call[p].todo
  BY NodeOf DEF SaveState, EnableAt, Only, Types, OverAll
<1>1. Proper(c) /\ c \in CallTypes /\ EnAll(c) /\ Types /\ Idle /\ c.op = "enable" /\ c.k = 11
  BY EnableHas DEF EnableAt
<1>2. Types'
  BY <1>1, SaveStateTypes
<1>3. /\ noise' = noise /\ UNCHANGED <<CallVars, tables, units>>
      /\ file' = [file EXCEPT ![n] = State(p, n)] /\ Goes(p, c)
  <2>1. ~Note("lost", TRUE) /\ ~Note("lost", n \in up \/ c.op = "enable")
    BY <1>1 DEF Note
  <2> QED
    BY <1>0, <2>1 DEF SaveState, Fine
<1>4. UNCHANGED <<config, stealth, rows, turnDNS, stealthDNS, turn, sfu, gateway>>
  BY <1>3 DEF tables, units
<1>5. PICK d : Steps(p, d) /\ Progress(c, d, n) /\ call'[p] = d /\ (EnAll(d)' => Enabling(p)')
  BY <1>0, <1>1, <1>2, <1>3, GoesOn
<1>6. /\ EnTables(d)' /\ EnRows(d)' /\ EnDNS(d)' /\ EnTURN(d)' /\ EnSFU(d)' /\ EnGateway(d)'
  BY <1>1, <1>3, <1>4, <1>5, EnableFrame DEF EnAll
<1>7. AllDone(d, 11) = AllDone(c, 11) \cup {n} /\ d.op = "enable" /\ d.k # 1 /\ ~(d.k <= 10)
  BY <1>1, <1>5, EnableProgress
<1>8. EnFile(d)'
  <2>1. c.sfu = rows.sfu /\ c.turn = rows.turn /\ file \in [Nodes -> Files]
    BY <1>1 DEF EnAll, EnRows, Types, UnitTypes
  <2>2. HasFile(n)'
    BY <1>3, <1>4, <2>1 DEF HasFile, State
  <2>3. ASSUME NEW m \in Nodes, m # n, m \in AllDone(c, 11) PROVE HasFile(m)'
    BY <1>1, <1>3, <1>4, <2>1, <2>3 DEF HasFile, EnAll, EnFile
  <2> QED
    BY <1>7, <2>2, <2>3 DEF EnFile
<1> QED
  BY <1>2, <1>3, <1>5, <1>6, <1>7, <1>8 DEF EnableGoes, EnAll, EnableAt

\* and restarting the gateways, after which everything is served.
LEMMA Enable12 ==
    ASSUME NEW p \in Nodes, EnableAt(p, 12), RestartGateway(p), noise' \subseteq {"respawn"}
    PROVE  EnableGoes(p)
<1> DEFINE c == call[p]
<1>0. PICK n \in Nodes : n = Node(p) /\ n \in call[p].todo
  BY NodeOf DEF RestartGateway, EnableAt, Only, Types, OverAll
<1>1. Proper(c) /\ c \in CallTypes /\ EnAll(c) /\ Types /\ Idle /\ c.op = "enable" /\ c.k = 12
  BY EnableHas DEF EnableAt
<1>2. Types'
  BY <1>1, RestartGatewayTypes
<1>3. /\ noise' = noise /\ UNCHANGED <<CallVars, tables, sfu, turn, file>> /\ Goes(p, c)
      /\ \/ gateway' = [gateway EXCEPT ![n] = Gateway(p, n)]
         \/ n \notin up /\ gateway' = gateway
  <2>1. Note("lost", n \in up) => n \notin up /\ noise' = noise
    BY DEF Note
  <2> QED
    BY <1>0, <1>1, <2>1 DEF RestartGateway, Fine
<1>4. /\ UNCHANGED <<config, stealth, rows, turnDNS, stealthDNS>>
      /\ UNCHANGED <<turn, sfu, file, up, restore>> /\ noise' = {}
  BY <1>3 DEF tables, CallVars, EnableAt
<1>5. /\ config = c.sec /\ c.sec # None /\ ~stealth /\ stealthDNS = {} /\ c.sfu = rows.sfu
      /\ gateway \in [Nodes -> Gateways] /\ up \subseteq Nodes
  BY <1>1 DEF EnAll, EnTables, EnRows, Types, UnitTypes, TaskTypes
<1>6. ASSUME NEW m \in up
      PROVE  gateway'[m] = IF m \in AllDone(c, 12) \cup {n} THEN GatewayFor(m, FALSE)' ELSE Plain
  <2>1. GatewayFor(m, FALSE)' = GatewayFor(m, FALSE)
    BY <1>4 DEF GatewayFor
  <2>2. gateway[m] = IF m \in AllDone(c, 12) THEN GatewayFor(m, FALSE) ELSE Plain
    BY <1>1 DEF EnAll, EnGateway
  <2>3. Gateway(p, n) = GatewayFor(n, FALSE)
    BY <1>1, <1>5 DEF Gateway, GatewayFor, Wanted
  <2>4. CASE m = n
    BY <1>3, <1>5, <2>1, <2>3, <2>4
  <2>5. CASE m # n
    BY <1>3, <1>5, <2>1, <2>2, <2>5
  <2> QED
    BY <2>4, <2>5
<1>7. Steps(p, Proceed(c))
  BY <1>1, <1>3, GoesSteps DEF Types
<1>8. \/ Progress(c, Proceed(c), n)
      \/ Proceed(c) = NoCall /\ AllDone(c, 12) \cup {n} = Nodes
  <2>1. Program["enable"][12] \in OverAll
    BY EnableProgram DEF OverAll
  <2> QED
    BY <1>0, <1>1, <2>1, Advance DEF Node
<1>9. CASE Progress(c, Proceed(c), n)
  <2>1. PICK d : d = Proceed(c)
    OBVIOUS
  <2>2. Progress(c, d, n) /\ call'[p] = d
    BY <1>7, <1>9, <2>1 DEF Steps
  <2>3. EnTables(d)' /\ EnRows(d)' /\ EnDNS(d)' /\ EnTURN(d)' /\ EnSFU(d)'
    BY <1>1, <1>3, <1>4, <2>2, EnableFrame DEF EnAll
  <2>4. /\ AllDone(d, 12) = AllDone(c, 12) \cup {n} /\ AllDone(d, 11) = AllDone(c, 11)
        /\ d.op = "enable" /\ d.k # 1 /\ ~(d.k <= 10)
    BY <1>1, <2>2, EnableProgress
  <2>5. EnGateway(d)'
    BY <1>4, <1>6, <2>4 DEF EnGateway
  <2>6. EnFile(d)'
    BY <1>1, <1>4, <2>4 DEF EnAll, EnFile, HasFile
  <2> QED
    BY <1>2, <1>3, <1>4, <2>2, <2>3, <2>4, <2>5, <2>6, EnablingIs DEF EnableGoes, EnAll
<1>10. CASE Proceed(c) = NoCall /\ AllDone(c, 12) \cup {n} = Nodes
  <2>1. call'[p].op = "none"
    BY <1>7, <1>10, NoCallFacts DEF Steps
  <2>2. /\ AllDone(c, 3) = Nodes /\ AllDone(c, 8) = Nodes /\ AllDone(c, 11) = Nodes
        /\ TurnDone(c, 5) = c.on /\ TurnDone(c, 7) = c.on /\ TurnDone(c, 10) = c.on
    BY <1>1 DEF AllDone, TurnDone
  <2>3. /\ \A m \in Nodes : rows.sfu[m] = c.sec
        /\ \A m \in Nodes : rows.turn[m] = IF m \in c.on THEN c.sec ELSE None
        /\ Cardinality(c.on) = TurnCount /\ turnDNS = c.on /\ c.on \subseteq Nodes
    BY <1>1, <2>2 DEF EnAll, EnRows, EnDNS, CallTypes
  <2>4. TURNNodes = c.on
    BY <1>5, <2>3 DEF TURNNodes
  <2>5. TURNNodes' = c.on
    BY <1>4, <2>4 DEF TURNNodes
  <2>6. TablesServe'
    BY <1>4, <1>5, <2>3, <2>5 DEF TablesServe
  <2>7. \A m \in Nodes : HasFile(m)'
    BY <1>1, <1>4, <2>2 DEF EnAll, EnFile, HasFile
  <2>8. \A m \in Nodes : HasSFU(m)'
    BY <1>1, <1>4, <2>2 DEF EnAll, EnSFU, HasSFU, SFUFor, Steady
  <2>9. ASSUME NEW m \in Nodes PROVE HasTURN(m, stealth)'
    <3>1. CASE m \in c.on
      <4>1. HasTURN(m, FALSE)
        BY <1>1, <2>2, <3>1 DEF EnAll, EnTURN
      <4>2. turn[m] = TURNFor(m, FALSE) \/ (~TURNBack(m) /\ turn[m] = NoTURN)
        BY <2>4, <3>1, <4>1 DEF HasTURN, EnableAt
      <4>3. TURNFor(m, stealth)' = TURNFor(m, FALSE) /\ TURNBack(m)' = TURNBack(m)
        BY <1>1, <1>4, <1>5 DEF TURNFor, TURNBack, Types, TableTypes
      <4> QED
        BY <1>4, <2>5, <3>1, <4>2, <4>3 DEF HasTURN
    <3>2. CASE m \notin c.on
      <4>1. turn[m] = NoTURN
        BY <1>1, <2>2, <3>2 DEF EnAll, EnTURN
      <4> QED
        BY <1>4, <2>5, <3>2, <4>1 DEF HasTURN
    <3> QED
      BY <3>1, <3>2
  <2>10. ASSUME NEW m \in Nodes PROVE HasGateway(m, stealth)' /\ Reads(m)'
    <3>1. restore'[m].pc = "idle"
      BY <1>1, <1>4 DEF Idle
    <3>2. Reads(m)'
      BY <3>1 DEF Reads
    <3>3. m \in up' => gateway'[m] = GatewayFor(m, stealth)'
      BY <1>1, <1>4, <1>5, <1>6, <1>10 DEF GatewayFor, Types, TableTypes
    <3> QED
      BY <3>2, <3>3 DEF HasGateway, GatewayBack
  <2>11. Rest'
    BY <1>4, <1>5, <2>6, <2>7, <2>8, <2>9, <2>10 DEF Rest
  <2> QED
    BY <1>2, <1>3, <1>4, <2>1, <2>11 DEF EnableGoes
<1> QED
  BY <1>8, <1>9, <1>10

\* The action of a step.
LEMMA ActionOf ==
    ASSUME NEW p \in Nodes, Call(p)
    PROVE  /\ Step(p) = "insert" => Insert(p)
           /\ Step(p) = "nodes" => ReadNodes(p)
           /\ Step(p) = "sfu_ports" => Allocate(p, "sfu_ports", "sfu")
           /\ Step(p) = "select" => SelectTURNNodes(p)
           /\ Step(p) = "turn_ports" => Allocate(p, "turn_ports", "turn")
           /\ Step(p) = "ports" => ReadPorts(p)
           /\ Step(p) = "turn" => SpawnTURN(p)
           /\ Step(p) = "sfu" => SpawnSFU(p)
           /\ Step(p) = "clear_dns" => ClearDNS(p)
           /\ Step(p) = "dns" => CreateTURNRecords(p)
           /\ Step(p) = "stop_both" => StopBoth(p)
           /\ Step(p) = "free" => DeallocateAll(p)
           /\ Step(p) = "delete" => DeleteConfig(p)
           /\ Step(p) = "stop_sfu" => StopSFU(p)
           /\ Step(p) = "read_turn" => ReadTURN(p)
           /\ Step(p) = "stop_turn" => StopTURN(p)
           /\ Step(p) = "clear_stealth" => ClearStealth(p)
           /\ Step(p) = "stealth_dns" => CreateStealthRecords(p)
           /\ Step(p) = "flag" => SetStealthEnabled(p)
           /\ Step(p) = "respawn" => Respawn(p)
           /\ Step(p) = "blocks" => ReadBlocks(p)
           /\ Step(p) = "files" => SaveState(p)
           /\ Step(p) = "gateways" => RestartGateway(p)
<1>1. /\ Insert(p) => Step(p) = "insert"
      /\ ReadNodes(p) => Step(p) = "nodes"
      /\ Allocate(p, "sfu_ports", "sfu") => Step(p) = "sfu_ports"
      /\ SelectTURNNodes(p) => Step(p) = "select"
      /\ Allocate(p, "turn_ports", "turn") => Step(p) = "turn_ports"
      /\ ReadPorts(p) => Step(p) = "ports"
      /\ SpawnTURN(p) => Step(p) = "turn"
      /\ SpawnSFU(p) => Step(p) = "sfu"
  BY DEF Insert, ReadNodes, Allocate, SelectTURNNodes, ReadPorts, SpawnTURN, SpawnSFU, At
<1>2. /\ ClearDNS(p) => Step(p) = "clear_dns"
      /\ CreateTURNRecords(p) => Step(p) = "dns"
      /\ StopBoth(p) => Step(p) = "stop_both"
      /\ DeallocateAll(p) => Step(p) = "free"
      /\ DeleteConfig(p) => Step(p) = "delete"
      /\ StopSFU(p) => Step(p) = "stop_sfu"
      /\ ReadTURN(p) => Step(p) = "read_turn"
      /\ StopTURN(p) => Step(p) = "stop_turn"
  BY DEF ClearDNS, CreateTURNRecords, StopBoth, DeallocateAll, DeleteConfig, StopSFU, ReadTURN,
         StopTURN, At
<1>3. /\ ClearStealth(p) => Step(p) = "clear_stealth"
      /\ CreateStealthRecords(p) => Step(p) = "stealth_dns"
      /\ SetStealthEnabled(p) => Step(p) = "flag"
      /\ Respawn(p) => Step(p) = "respawn"
      /\ ReadBlocks(p) => Step(p) = "blocks"
      /\ SaveState(p) => Step(p) = "files"
      /\ RestartGateway(p) => Step(p) = "gateways"
  BY DEF ClearStealth, CreateStealthRecords, SetStealthEnabled, Respawn, ReadBlocks, SaveState,
         RestartGateway, At
<1> HIDE DEF Step
<1> QED
  BY <1>1, <1>2, <1>3 DEF Call

\* Every step of an undisturbed EnableWebRTC leaves the system as the invariant
\* says.
LEMMA EnableStep ==
    ASSUME NEW p \in Nodes, NEW k, EnableAt(p, k), Call(p), noise' \subseteq {"respawn"}
    PROVE  EnableGoes(p)
<1>1. k \in 2 .. 12 /\ Step(p) = Program["enable"][k]
  BY EnableHas DEF EnableAt, Step
<1>2. \/ k = 2 \/ k = 3 \/ k = 4 \/ k = 5 \/ k = 6 \/ k = 7 \/ k = 8 \/ k = 9 \/ k = 10 \/ k = 11
      \/ k = 12
  BY <1>1
<1>3. CASE k \in {2, 3, 4, 5}
  BY <1>1, <1>3, EnableProgram, ActionOf, Enable2, Enable3, Enable4, Enable5
<1>4. CASE k \in {6, 7, 8, 9}
  BY <1>1, <1>4, EnableProgram, ActionOf, Enable6, Enable7, Enable8, Enable9
<1>5. CASE k \in {10, 11, 12}
  BY <1>1, <1>5, EnableProgram, ActionOf, Enable10, Enable11, Enable12
<1> QED
  BY <1>2, <1>3, <1>4, <1>5

-----------------------------------------------------------------------------
(* DisableWebRTC, of a system that was disturbed before, and of one that was  *)
(* not.                                                                       *)

DisTables(c) ==
    /\ c.sec = None
    /\ c.k > 5 => rows = NoRows
    /\ c.k > 6 => turnDNS = {}
    /\ c.k > 7 => stealthDNS = {}
    /\ c.k > 8 => config = None
DisSFU(c) == \A n \in AllDone(c, 2) : sfu[n] = NoSFU
DisFile(c) == \A n \in up \cap AllDone(c, 9) : file[n].sec = None
DisGateway(c) == \A n \in up \cap AllDone(c, 10) : gateway[n].sec = None

DxCall(c) == c.sfu = NoBlocks /\ c.turn = NoBlocks /\ (c.k > 8 => ~stealth)
DxTURN(c) == \A n \in Nodes :
    turn[n] # NoTURN => IF c.k <= 3 THEN n \in TURNNodes ELSE n \in c.on \ TurnDone(c, 4)
DxFile == \A n \in Nodes : file[n].here
DxGateway(c) == \A n \in up \cap AllDone(c, 10) : gateway[n] = Plain

DisAll(c) == DisTables(c) /\ DisSFU(c) /\ DisFile(c) /\ DisGateway(c)
DxAll(c) == DxCall(c) /\ DxTURN(c) /\ DxFile /\ DxGateway(c)

\* What DisableWebRTC is done with, one part per variable.
LEMMA DisablingIs ==
    ASSUME NEW p \in Nodes
    PROVE  /\ HealedDisabling(p) => DisAll(call[p])
           /\ Types /\ Disabling(p) => HealedDisabling(p) /\ DxAll(call[p])
           /\ \A d : call'[p] = d /\ DisAll(d)' => HealedDisabling(p)'
           /\ \A d : Types' /\ call'[p] = d /\ DisAll(d)' /\ DxAll(d)' => Disabling(p)'
<1> USE DEF DisAll, DxAll, DisTables, DisSFU, DisFile, DisGateway, DxCall, DxTURN, DxFile, DxGateway,
            HealedDisabling, Disabling
<1>1. HealedDisabling(p) => DisAll(call[p])
  OBVIOUS
<1>2. ASSUME Types, Disabling(p) PROVE HealedDisabling(p) /\ DxAll(call[p])
  <2>1. up \subseteq Nodes /\ Plain.sec = None
    BY <1>2 DEF Types, TaskTypes, Plain
  <2>2. AllDone(call[p], 2) \subseteq Nodes
    BY DEF AllDone
  <2> QED
    BY <1>2, <2>1, <2>2
<1>3. \A d : call'[p] = d /\ DisAll(d)' => HealedDisabling(p)'
  OBVIOUS
<1>4. ASSUME NEW d, Types', call'[p] = d, DisAll(d)', DxAll(d)' PROVE Disabling(p)'
  BY <1>4
<1> QED
  BY <1>1, <1>2, <1>3, <1>4

\* How the nodes done grow with a step of DisableWebRTC.
LEMMA DisableProgress ==
    ASSUME NEW c, NEW d, NEW n, Proper(c), c.op = "disable", Progress(c, d, n)
    PROVE  /\ AllDone(d, 2) = IF 2 = c.k THEN AllDone(c, 2) \cup {n} ELSE AllDone(c, 2)
           /\ AllDone(d, 9) = IF 9 = c.k THEN AllDone(c, 9) \cup {n} ELSE AllDone(c, 9)
           /\ AllDone(d, 10) = IF 10 = c.k THEN AllDone(c, 10) \cup {n} ELSE AllDone(c, 10)
           /\ TurnDone(d, 4) = IF 4 = c.k THEN TurnDone(c, 4) \cup {n} ELSE TurnDone(c, 4)
           /\ d.sec = c.sec /\ d.on = c.on /\ d.sfu = c.sfu /\ d.turn = c.turn /\ d.op = "disable"
           /\ d.k \in Nat /\ d.k >= c.k /\ c.k \in 1 .. 10
           /\ d.k <= c.k + 1 \/ (c.k = 3 /\ d.k = 5)
           /\ c.k \notin {2, 4, 9, 10} => d.k > c.k
<1>1. Len(Program["disable"]) = 10
  BY Lengths
<1>2. /\ Program["disable"][2] \in OverAll /\ Program["disable"][9] \in OverAll
      /\ Program["disable"][10] \in OverAll /\ Program["disable"][4] \in OverTURN
  BY DisableProgram DEF OverAll, OverTURN
<1>3. c.k \in 1 .. 10
  BY <1>1 DEF Proper
<1>4. \A i \in 1 .. 10 :
         /\ Program["disable"][i] \in OverAll =>
               AllDone(d, i) = IF i = c.k THEN AllDone(c, i) \cup {n} ELSE AllDone(c, i)
         /\ Program["disable"][i] \in OverTURN =>
               TurnDone(d, i) = IF i = c.k THEN TurnDone(c, i) \cup {n} ELSE TurnDone(c, i)
  BY <1>1 DEF Progress
<1>5. /\ d.sec = c.sec /\ d.on = c.on /\ d.sfu = c.sfu /\ d.turn = c.turn /\ d.op = "disable"
      /\ d.k \in Nat /\ d.k >= c.k
  BY <1>3 DEF Progress
<1>6. /\ AllDone(d, 2) = IF 2 = c.k THEN AllDone(c, 2) \cup {n} ELSE AllDone(c, 2)
      /\ AllDone(d, 9) = IF 9 = c.k THEN AllDone(c, 9) \cup {n} ELSE AllDone(c, 9)
      /\ AllDone(d, 10) = IF 10 = c.k THEN AllDone(c, 10) \cup {n} ELSE AllDone(c, 10)
      /\ TurnDone(d, 4) = IF 4 = c.k THEN TurnDone(c, 4) \cup {n} ELSE TurnDone(c, 4)
  BY <1>2, <1>4
<1>7. d.k <= c.k + 1 \/ (c.k = 3 /\ d.k = 5)
  <2>1. CASE d.k = c.k + 2
    <3>1. Program["disable"][c.k + 1] \in OverTURN
      BY <2>1 DEF Progress
    <3>2. d.k \in 1 .. 10 /\ c.k + 1 \in 1 .. 10
      BY <1>1, <1>3, <1>5, <2>1 DEF Progress, Proper
    <3>3. c.k + 1 \in {4}
      BY <3>1, <3>2, DisableKinds
    <3> QED
      BY <1>3, <2>1, <3>3
  <2> QED
    BY <1>3, <2>1 DEF Progress
<1>8. c.k \notin {2, 4, 9, 10} => d.k > c.k
  <2>1. c.k \notin {2, 4, 9, 10} => Program["disable"][c.k] \notin OverAll \cup OverTURN
    BY <1>3, DisableKinds
  <2>2. d.k # c.k \/ Program["disable"][c.k] \in OverAll \cup OverTURN
    BY DEF Progress
  <2> QED
    BY <1>3, <1>5, <2>1, <2>2
<1> QED
  BY <1>3, <1>5, <1>6, <1>7, <1>8

\* What a step of DisableWebRTC does not touch it keeps.
LEMMA DisableFrame ==
    ASSUME NEW c, NEW d, NEW n, Proper(c), c.op = "disable", Progress(c, d, n), UNCHANGED CallVars
    PROVE  /\ DisTables(c) /\ UNCHANGED <<config, rows, turnDNS, stealthDNS>> /\ c.k \notin {5, 6, 7, 8}
              => DisTables(d)'
           /\ DisSFU(c) /\ UNCHANGED sfu /\ c.k # 2 => DisSFU(d)'
           /\ DisFile(c) /\ UNCHANGED file /\ c.k # 9 => DisFile(d)'
           /\ DisGateway(c) /\ UNCHANGED gateway /\ c.k # 10 => DisGateway(d)'
           /\ DxCall(c) /\ UNCHANGED stealth /\ c.k # 8 => DxCall(d)'
           /\ DxTURN(c) /\ UNCHANGED turn /\ (rows' = rows \/ c.k > 3) /\ c.k \notin {3, 4} => DxTURN(d)'
           /\ DxFile /\ UNCHANGED file => DxFile'
           /\ DxGateway(c) /\ UNCHANGED gateway /\ c.k # 10 => DxGateway(d)'
<1>0. up' = up
  BY DEF CallVars
<1>1. ASSUME DisTables(c), UNCHANGED <<config, rows, turnDNS, stealthDNS>>, c.k \notin {5, 6, 7, 8}
      PROVE  DisTables(d)'
  <2>1. d.sec = c.sec /\ d.k \in Nat /\ c.k \in 1 .. 10
    BY DisableProgress
  <2>2. (d.k > 5 => c.k > 5) /\ (d.k > 6 => c.k > 6) /\ (d.k > 7 => c.k > 7) /\ (d.k > 8 => c.k > 8)
    <3>1. c.k # 5 /\ c.k # 6 /\ c.k # 7 /\ c.k # 8
      BY <1>1
    <3>2. d.k <= c.k + 1 \/ (c.k = 3 /\ d.k = 5)
      BY DisableProgress
    <3> QED
      BY <2>1, <3>1, <3>2
  <2> QED
    BY <1>1, <2>1, <2>2 DEF DisTables
<1>2. ASSUME DisSFU(c), UNCHANGED sfu, c.k # 2 PROVE DisSFU(d)'
  <2>1. AllDone(d, 2) = AllDone(c, 2)
    BY <1>2, DisableProgress
  <2> QED
    BY <1>2, <2>1 DEF DisSFU
<1>3. ASSUME DisFile(c), UNCHANGED file, c.k # 9 PROVE DisFile(d)'
  <2>1. AllDone(d, 9) = AllDone(c, 9)
    BY <1>3, DisableProgress
  <2> QED
    BY <1>0, <1>3, <2>1 DEF DisFile
<1>4. ASSUME UNCHANGED gateway, c.k # 10
      PROVE  (DisGateway(c) => DisGateway(d)') /\ (DxGateway(c) => DxGateway(d)')
  <2>1. AllDone(d, 10) = AllDone(c, 10)
    BY <1>4, DisableProgress
  <2> QED
    BY <1>0, <1>4, <2>1 DEF DisGateway, DxGateway
<1>5. ASSUME DxCall(c), UNCHANGED stealth, c.k # 8 PROVE DxCall(d)'
  <2>1. d.sfu = c.sfu /\ d.turn = c.turn /\ d.k \in Nat /\ c.k \in 1 .. 10
    BY DisableProgress
  <2>2. d.k > 8 => c.k > 8
    BY <1>5, <2>1, DisableProgress
  <2> QED
    BY <1>5, <2>1, <2>2 DEF DxCall
<1>6. ASSUME DxTURN(c), UNCHANGED turn, rows' = rows \/ c.k > 3, c.k \notin {3, 4} PROVE DxTURN(d)'
  <2>1. d.on = c.on /\ TurnDone(d, 4) = TurnDone(c, 4)
    BY <1>6, DisableProgress
  <2>2. (d.k <= 3 <=> c.k <= 3) /\ d.k \in Nat
    BY <1>6, DisableProgress
  <2>3. c.k <= 3 => TURNNodes' = TURNNodes
    BY <1>6, DisableProgress DEF TURNNodes
  <2> QED
    BY <1>6, <2>1, <2>2, <2>3 DEF DxTURN
<1>7. DxFile /\ UNCHANGED file => DxFile'
  BY DEF DxFile
<1> QED
  BY <1>1, <1>2, <1>3, <1>4, <1>5, <1>6, <1>7

DisableAt(p, k) == Only(p) /\ call[p].op = "disable" /\ call[p].k = k /\ HealedDisabling(p)

\* What a step of DisableWebRTC that succeeds may lead to.
DisableGoes(p) ==
    /\ noise' = noise /\ UNCHANGED CallVars /\ Types'
    /\ \/ call'[p].op = "disable" /\ HealedDisabling(p)' /\ (Disabling(p) => Disabling(p)')
       \/ call'[p].op = "none" /\ HealedRest' /\ (noise = {} /\ Disabling(p) => Rest')

\* What is known at a step of DisableWebRTC.
LEMMA DisableHas ==
    ASSUME NEW p \in Nodes, NEW k, DisableAt(p, k)
    PROVE  /\ Proper(call[p]) /\ call[p] \in CallTypes /\ call[p].op = "disable" /\ call[p].k = k
           /\ DisAll(call[p]) /\ Types /\ Idle /\ k \in 1 .. 10 /\ up \subseteq Nodes
           /\ Disabling(p) => DxAll(call[p])
<1>1. Types /\ Proper(call[p]) /\ call[p] \in CallTypes /\ Idle /\ call[p].op = "disable" /\ call[p].k = k
  BY DEF DisableAt, Only, Types, TaskTypes, Proper
<1>2. call[p].k \in 1 .. 10
  BY <1>1, Lengths DEF Proper
<1> QED
  BY <1>1, <1>2, DisablingIs DEF DisableAt, Types, TaskTypes

\* The call goes on as d.
LEMMA DisableOn ==
    ASSUME NEW p \in Nodes, NEW c, Proper(c), c.op = "disable", c.todo = call[p].todo,
           c.k < 10, Goes(p, c), Types, Types', noise' = noise, UNCHANGED CallVars
    PROVE  \E d : /\ Progress(c, d, Node(p)) /\ d.op = "disable"
                  /\ DisAll(d)' /\ (Disabling(p) => DxAll(d)') => DisableGoes(p)
<1>1. Steps(p, Proceed(c))
  BY GoesSteps DEF Types
<1>2. Progress(c, Proceed(c), Node(p))
  <2>1. c.k # Len(Program[c.op])
    BY Lengths
  <2> QED
    BY <2>1, Advance DEF Node
<1>3. PICK d : d = Proceed(c)
  OBVIOUS
<1>4. call'[p] = d /\ d.op = "disable"
  BY <1>1, <1>2, <1>3 DEF Steps, Progress
<1>5. DisAll(d)' /\ (Disabling(p) => DxAll(d)') => DisableGoes(p)
  BY <1>4, DisablingIs DEF DisableGoes
<1> QED
  BY <1>2, <1>3, <1>4, <1>5

\* In a call that loses nothing no loss is noted,
LEMMA Unlost == ASSUME "lost" \notin noise', NEW b, Note("lost", b) PROVE ~b /\ noise' = noise
BY DEF Note

\* and no statement is lost.
LEMMA NeverLost == ASSUME "lost" \notin noise', NEW p PROVE ~Lost(p, "lost")
BY DEF Lost, Note

\* Step by step, DisableWebRTC keeps what it is done with: reading the nodes,
LEMMA Disable1 ==
    ASSUME NEW p \in Nodes, DisableAt(p, 1), ReadNodes(p), "lost" \notin noise'
    PROVE  DisableGoes(p)
<1> DEFINE c == call[p]
<1>1. /\ Proper(c) /\ c.op = "disable" /\ c.k = 1 /\ DisAll(c) /\ Types /\ (Disabling(p) => DxAll(c))
  BY DisableHas
<1>2. Types' /\ Goes(p, c) /\ noise' = noise /\ UNCHANGED <<CallVars, tables, units, file>>
  BY <1>1, ReadNodesTypes, NeverLost DEF ReadNodes, Stated, Fine
<1>3. PICK d : Progress(c, d, Node(p)) /\ (DisAll(d)' /\ (Disabling(p) => DxAll(d)') => DisableGoes(p))
  BY <1>1, <1>2, DisableOn
<1>4. UNCHANGED <<config, stealth, rows, turnDNS, stealthDNS, sfu, turn, gateway, file>>
  BY <1>2 DEF tables, units
<1>5. DisAll(d)'
  BY <1>1, <1>2, <1>3, <1>4, DisableFrame DEF DisAll
<1>6. Disabling(p) => DxAll(d)'
  BY <1>1, <1>2, <1>3, <1>4, DisableFrame DEF DxAll
<1> QED
  BY <1>3, <1>5, <1>6

\* stopping the SFUs,
LEMMA Disable2 ==
    ASSUME NEW p \in Nodes, DisableAt(p, 2), StopSFU(p), "lost" \notin noise'
    PROVE  DisableGoes(p)
<1> DEFINE c == call[p]
<1>0. PICK n \in Nodes : n = Node(p) /\ n \in c.todo
  BY NodeOf DEF StopSFU, DisableAt, Only, Types, OverAll
<1>1. /\ Proper(c) /\ c.op = "disable" /\ c.k = 2 /\ DisAll(c) /\ Types /\ (Disabling(p) => DxAll(c))
  BY DisableHas
<1>2. /\ Types' /\ Goes(p, c) /\ noise' = noise /\ UNCHANGED <<CallVars, tables, turn, gateway, file>>
      /\ sfu' = [sfu EXCEPT ![n] = NoSFU] \/ (sfu[n] = NoSFU /\ sfu' = sfu)
  BY <1>0, <1>1, StopTypes, Unlost DEF StopSFU, Fine
<1>3. PICK d : Progress(c, d, n) /\ (DisAll(d)' /\ (Disabling(p) => DxAll(d)') => DisableGoes(p))
  BY <1>0, <1>1, <1>2, DisableOn
<1>4. UNCHANGED <<config, stealth, rows, turnDNS, stealthDNS>>
  BY <1>2 DEF tables
<1>5. DisSFU(d)'
  <2>1. AllDone(d, 2) = AllDone(c, 2) \cup {n}
    BY <1>1, <1>3, DisableProgress
  <2>2. \A m \in AllDone(c, 2) : m \in Nodes /\ sfu[m] = NoSFU
    BY <1>1 DEF DisAll, DisSFU, AllDone
  <2> QED
    BY <1>1, <1>2, <2>1, <2>2 DEF DisSFU, Types, UnitTypes
<1>6. DisAll(d)'
  BY <1>1, <1>2, <1>3, <1>4, <1>5, DisableFrame DEF DisAll
<1>7. Disabling(p) => DxAll(d)'
  BY <1>1, <1>2, <1>3, <1>4, DisableFrame DEF DxAll
<1> QED
  BY <1>3, <1>6, <1>7

\* reading the TURN nodes,
LEMMA Disable3 ==
    ASSUME NEW p \in Nodes, DisableAt(p, 3), ReadTURN(p), "lost" \notin noise'
    PROVE  DisableGoes(p)
<1> DEFINE b == call[p]
           c == [b EXCEPT !.on = TURNNodes]
<1>1. /\ Proper(b) /\ b \in CallTypes /\ b.op = "disable" /\ b.k = 3 /\ DisAll(b) /\ Types
      /\ Disabling(p) => DxAll(b)
  BY DisableHas
<1>2. Types' /\ Goes(p, c) /\ noise' = noise /\ UNCHANGED <<CallVars, tables, units, file>>
  BY <1>1, ReadTURNTypes, NeverLost DEF ReadTURN, Stated, Fine, TURNNodes
<1>3. /\ c \in CallTypes /\ c.op = "disable" /\ c.k = 3 /\ c.todo = b.todo /\ c.sec = b.sec
      /\ c.sfu = b.sfu /\ c.turn = b.turn /\ c.on = TURNNodes
  <2>1. TURNNodes \in SUBSET Nodes
    BY DEF TURNNodes
  <2> QED
    BY <1>1, <2>1 DEF CallTypes
<1> HIDE DEF c
<1>4. Proper(c)
  <2>1. Program["disable"][3] \notin OverTURN
    BY DisableProgram DEF OverTURN
  <2> QED
    BY <1>1, <1>3, <2>1, ProperWith
<1>5. PICK d : Progress(c, d, Node(p)) /\ (DisAll(d)' /\ (Disabling(p) => DxAll(d)') => DisableGoes(p))
  BY <1>1, <1>2, <1>3, <1>4, DisableOn
<1>6. UNCHANGED <<config, stealth, rows, turnDNS, stealthDNS, sfu, turn, gateway, file>>
  BY <1>2 DEF tables, units
<1>7. /\ AllDone(c, 2) = AllDone(b, 2) /\ AllDone(c, 9) = AllDone(b, 9)
      /\ AllDone(c, 10) = AllDone(b, 10)
  BY <1>1, <1>3 DEF AllDone
<1>8. DisAll(c)
  BY <1>1, <1>3, <1>7 DEF DisAll, DisTables, DisSFU, DisFile, DisGateway
<1>9. DisAll(d)'
  BY <1>2, <1>3, <1>4, <1>5, <1>6, <1>8, DisableFrame DEF DisAll
<1>10. ASSUME Disabling(p) PROVE DxAll(d)'
  <2>1. DxCall(c) /\ DxFile /\ DxGateway(c)
    BY <1>1, <1>3, <1>7, <1>10 DEF DxAll, DxCall, DxGateway
  <2>2. DxCall(d)' /\ DxFile' /\ DxGateway(d)'
    BY <1>2, <1>3, <1>4, <1>5, <1>6, <2>1, DisableFrame
  <2>3. ~(d.k <= 3) /\ d.on = TURNNodes /\ TurnDone(d, 4) = TurnDone(c, 4)
    BY <1>3, <1>4, <1>5, DisableProgress
  <2>4. TurnDone(d, 4) = {}
    BY <1>3, <2>3 DEF TurnDone
  <2>5. \A m \in Nodes : turn[m] # NoTURN => m \in TURNNodes
    BY <1>1, <1>10 DEF DxAll, DxTURN
  <2>6. DxTURN(d)'
    BY <1>6, <2>3, <2>4, <2>5 DEF DxTURN
  <2> QED
    BY <2>2, <2>6 DEF DxAll
<1> QED
  BY <1>5, <1>9, <1>10

\* stopping the TURN servers,
LEMMA Disable4 ==
    ASSUME NEW p \in Nodes, DisableAt(p, 4), StopTURN(p), "lost" \notin noise'
    PROVE  DisableGoes(p)
<1> DEFINE c == call[p]
<1>0. PICK n \in Nodes : n = Node(p) /\ n \in c.todo
  BY NodeOf DEF StopTURN, DisableAt, Only, Types, OverTURN
<1>1. /\ Proper(c) /\ c.op = "disable" /\ c.k = 4 /\ DisAll(c) /\ Types /\ (Disabling(p) => DxAll(c))
  BY DisableHas
<1>2. /\ Types' /\ Goes(p, c) /\ noise' = noise /\ UNCHANGED <<CallVars, tables, sfu, gateway, file>>
      /\ turn' = [turn EXCEPT ![n] = NoTURN] \/ (turn[n] = NoTURN /\ turn' = turn)
  BY <1>0, <1>1, StopTypes, Unlost DEF StopTURN, Fine
<1>3. PICK d : Progress(c, d, n) /\ (DisAll(d)' /\ (Disabling(p) => DxAll(d)') => DisableGoes(p))
  BY <1>0, <1>1, <1>2, DisableOn
<1>4. UNCHANGED <<config, stealth, rows, turnDNS, stealthDNS>>
  BY <1>2 DEF tables
<1>5. DisAll(d)'
  BY <1>1, <1>2, <1>3, <1>4, DisableFrame DEF DisAll
<1>6. ASSUME Disabling(p) PROVE DxAll(d)'
  <2>1. DxCall(d)' /\ DxFile' /\ DxGateway(d)'
    BY <1>1, <1>2, <1>3, <1>4, <1>6, DisableFrame DEF DxAll
  <2>2. ~(d.k <= 3) /\ d.on = c.on /\ TurnDone(d, 4) = TurnDone(c, 4) \cup {n}
    BY <1>1, <1>3, DisableProgress
  <2>3. \A m \in Nodes : turn[m] # NoTURN => m \in c.on \ TurnDone(c, 4)
    BY <1>1, <1>6 DEF DxAll, DxTURN
  <2>4. DxTURN(d)'
    BY <1>1, <1>2, <2>2, <2>3 DEF DxTURN, Types, UnitTypes
  <2> QED
    BY <2>1, <2>4 DEF DxAll
<1> QED
  BY <1>3, <1>5, <1>6

\* The statements: DeallocateAll, DeleteTURNRecords, the stealth records, the row.
LEMMA DisableStates ==
    ASSUME NEW p \in Nodes, NEW k \in {5, 6, 7, 8}, DisableAt(p, k), "lost" \notin noise',
           \/ k = 5 /\ DeallocateAll(p)
           \/ k = 6 /\ ClearDNS(p)
           \/ k = 7 /\ ClearStealth(p)
           \/ k = 8 /\ DeleteConfig(p)
    PROVE  DisableGoes(p)
<1> DEFINE c == call[p]
<1>1. /\ Proper(c) /\ c.op = "disable" /\ c.k = k /\ DisAll(c) /\ Types /\ (Disabling(p) => DxAll(c))
  BY DisableHas
<1>2. Types'
  BY <1>1, DeallocateAllTypes, ClearDNSTypes, ClearStealthTypes, DeleteConfigTypes
<1>3. /\ Goes(p, c) /\ noise' = noise /\ UNCHANGED <<CallVars, units, file>>
      /\ rows' = IF k = 5 THEN NoRows ELSE rows
      /\ turnDNS' = IF k = 6 THEN {} ELSE turnDNS
      /\ stealthDNS' = IF k = 7 THEN {} ELSE stealthDNS
      /\ config' = IF k = 8 THEN None ELSE config
      /\ (k = 8 => ~stealth') /\ (k # 8 => UNCHANGED stealth)
  <2>1. CASE k = 5
    BY <2>1, NeverLost DEF DeallocateAll, Stated, Fine, NoRows
  <2>2. CASE k = 6
    BY <2>2, NeverLost DEF ClearDNS, Stated, Fine
  <2>3. CASE k = 7
    BY <2>3, NeverLost DEF ClearStealth, Stated, Fine
  <2>4. CASE k = 8
    <3>1. /\ Goes(p, c) /\ noise' = noise /\ UNCHANGED <<CallVars, units, file>>
          /\ config' = None /\ stealth' = FALSE /\ UNCHANGED <<rows, turnDNS, stealthDNS>>
      BY <2>4, NeverLost DEF DeleteConfig, Stated, Fine
    <3> QED
      BY <2>4, <3>1
  <2> QED
    BY <2>1, <2>2, <2>3, <2>4
<1>4. PICK d : Progress(c, d, Node(p)) /\ (DisAll(d)' /\ (Disabling(p) => DxAll(d)') => DisableGoes(p))
  BY <1>1, <1>2, <1>3, DisableOn
<1>5. UNCHANGED <<sfu, turn, gateway, file>>
  BY <1>3 DEF units
<1>6. d.k = k + 1 /\ d.sec = c.sec /\ d.sfu = c.sfu /\ d.turn = c.turn
  <2>1. d.k \in Nat /\ d.k <= k + 1 /\ d.k > k
    BY <1>1, <1>4, DisableProgress
  <2> QED
    BY <1>1, <1>4, <2>1, DisableProgress
<1>a. c.k # 2 /\ c.k > 3 /\ c.k # 4 /\ c.k # 3 /\ c.k # 9 /\ c.k # 10
  BY <1>1
<1>7. DisTables(d)'
  <2>1. /\ c.sec = None /\ (k > 5 => rows = NoRows) /\ (k > 6 => turnDNS = {})
        /\ (k > 7 => stealthDNS = {})
    BY <1>1 DEF DisAll, DisTables
  <2> QED
    BY <1>3, <1>6, <2>1 DEF DisTables
<1>8. DisAll(d)'
  BY <1>1, <1>3, <1>4, <1>5, <1>7, <1>a, DisableFrame DEF DisAll
<1>9. ASSUME Disabling(p) PROVE DxAll(d)'
  <2>1. DxTURN(d)' /\ DxFile' /\ DxGateway(d)'
    BY <1>1, <1>3, <1>4, <1>5, <1>9, <1>a, DisableFrame DEF DxAll
  <2>2. DxCall(d)'
    BY <1>1, <1>3, <1>6, <1>9 DEF DxAll, DxCall
  <2> QED
    BY <2>1, <2>2 DEF DxAll
<1> QED
  BY <1>4, <1>8, <1>9

\* writing the state files,
LEMMA Disable9 ==
    ASSUME NEW p \in Nodes, DisableAt(p, 9), SaveState(p), "lost" \notin noise'
    PROVE  DisableGoes(p)
<1> DEFINE c == call[p]
<1>0. PICK n \in Nodes : n = Node(p) /\ n \in c.todo
  BY NodeOf DEF SaveState, DisableAt, Only, Types, OverAll
<1>1. /\ Proper(c) /\ c.op = "disable" /\ c.k = 9 /\ DisAll(c) /\ Types /\ (Disabling(p) => DxAll(c))
  BY DisableHas
<1>2. /\ Types' /\ Goes(p, c) /\ noise' = noise /\ UNCHANGED <<CallVars, tables, units>>
      /\ file' = [file EXCEPT ![n] = State(p, n)] \/ (n \notin up /\ file' = file)
  <2>1. ~Note("lost", TRUE)
    BY Unlost
  <2>2. Note("lost", n \in up \/ c.op = "enable") => n \notin up /\ noise' = noise
    BY Unlost
  <2> QED
    BY <1>0, <1>1, <2>1, <2>2, SaveStateTypes DEF SaveState, Fine
<1>3. PICK d : Progress(c, d, n) /\ (DisAll(d)' /\ (Disabling(p) => DxAll(d)') => DisableGoes(p))
  BY <1>0, <1>1, <1>2, DisableOn
<1>4. UNCHANGED <<config, stealth, rows, turnDNS, stealthDNS, sfu, turn, gateway, up>>
  BY <1>2 DEF tables, units, CallVars
<1>5. State(p, n).sec = None /\ State(p, n).here /\ file \in [Nodes -> Files] /\ up \subseteq Nodes
  BY <1>1 DEF DisAll, DisTables, State, Types, UnitTypes, TaskTypes
<1>6. DisFile(d)'
  <2>1. AllDone(d, 9) = AllDone(c, 9) \cup {n}
    BY <1>1, <1>3, DisableProgress
  <2>2. \A m \in up \cap AllDone(c, 9) : file[m].sec = None
    BY <1>1 DEF DisAll, DisFile
  <2> QED
    BY <1>2, <1>4, <1>5, <2>1, <2>2 DEF DisFile
<1>7. DisAll(d)'
  BY <1>1, <1>2, <1>3, <1>4, <1>6, DisableFrame DEF DisAll
<1>8. ASSUME Disabling(p) PROVE DxAll(d)'
  <2>1. DxCall(d)' /\ DxTURN(d)' /\ DxGateway(d)'
    BY <1>1, <1>2, <1>3, <1>4, <1>8, DisableFrame DEF DxAll
  <2>2. DxFile'
    BY <1>1, <1>2, <1>5, <1>8 DEF DxAll, DxFile
  <2> QED
    BY <2>1, <2>2 DEF DxAll
<1> QED
  BY <1>3, <1>7, <1>8

\* WebRTC is off, and nothing is left of it.
Off ==
    /\ config = None /\ rows = NoRows /\ turnDNS = {} /\ stealthDNS = {} /\ ~stealth /\ noise = {}
    /\ \A n \in Nodes : /\ sfu[n] = NoSFU /\ turn[n] = NoTURN /\ Forgets(n)
                        /\ n \in up => gateway[n] = Plain

\* Without a row the tables want nothing to run,
LEMMA WhenOff ==
    ASSUME NEW n \in Nodes, config' = None, rows' = NoRows
    PROVE  /\ SFUFor(n)' = NoSFU /\ n \notin TURNNodes'
           /\ \A s : TURNFor(n, s)' = [sec |-> None, port |-> None, stealth |-> s]
           /\ GatewayFor(n, FALSE)' = Plain
BY DEF SFUFor, TURNFor, GatewayFor, TURNNodes, NoRows, NoBlocks, NoSFU, Plain

\* so a system in which nothing runs is at rest.
LEMMA OffRests == ASSUME Idle, UNCHANGED CallVars, Off', Types' PROVE Rest'
<1>1. ~stealth' /\ stealth' = FALSE
  BY DEF Off, Types, TableTypes
<1>2. ASSUME NEW n \in Nodes
      PROVE  HasSFU(n)' /\ HasTURN(n, stealth)' /\ HasGateway(n, stealth)' /\ Reads(n)'
  <2>1. restore'[n].pc = "idle"
    BY DEF CallVars, Idle
  <2>2. Reads(n)' /\ (GatewayBack(n)' => n \in up')
    BY <2>1 DEF Reads, GatewayBack
  <2>3. HasSFU(n)'
    BY WhenOff DEF Off, HasSFU
  <2>4. HasTURN(n, stealth)'
    BY WhenOff DEF Off, HasTURN
  <2>5. GatewayFor(n, stealth)' = Plain
    BY <1>1, WhenOff DEF Off, GatewayFor
  <2>6. HasGateway(n, stealth)'
    BY <2>2, <2>5 DEF Off, HasGateway
  <2> QED
    BY <2>2, <2>3, <2>4, <2>6
<1> QED
  BY <1>1, <1>2 DEF Rest, Off

\* Restarting the gateways, after which nothing of WebRTC is left.
LEMMA Disable10 ==
    ASSUME NEW p \in Nodes, DisableAt(p, 10), RestartGateway(p), "lost" \notin noise'
    PROVE  DisableGoes(p)
<1> DEFINE c == call[p]
<1>0. PICK n \in Nodes : n = Node(p) /\ n \in c.todo
  BY NodeOf DEF RestartGateway, DisableAt, Only, Types, OverAll
<1>1. /\ Proper(c) /\ c.op = "disable" /\ c.k = 10 /\ DisAll(c) /\ Types /\ (Disabling(p) => DxAll(c))
      /\ Idle
  BY DisableHas
<1>2. /\ Types' /\ Goes(p, c) /\ noise' = noise /\ UNCHANGED <<CallVars, tables, sfu, turn, file>>
      /\ gateway' = [gateway EXCEPT ![n] = Gateway(p, n)] \/ (n \notin up /\ gateway' = gateway)
  <2>1. ~Note("lost", TRUE)
    BY Unlost
  <2>2. Note("lost", n \in up) => n \notin up /\ noise' = noise
    BY Unlost
  <2> QED
    BY <1>0, <1>1, <2>1, <2>2, RestartGatewayTypes DEF RestartGateway, Fine
<1>3. UNCHANGED <<config, stealth, rows, turnDNS, stealthDNS, up, restore>>
  BY <1>2 DEF tables, CallVars
<1>4. /\ Gateway(p, n).sec = None /\ gateway \in [Nodes -> Gateways] /\ up \subseteq Nodes
      /\ Disabling(p) => Gateway(p, n) = Plain
  BY <1>1 DEF DisAll, DisTables, DxAll, DxCall, Gateway, Plain, NoBlocks, Wanted, Types, UnitTypes,
              TaskTypes
<1>5. \A m \in up \cap (AllDone(c, 10) \cup {n}) :
         gateway'[m].sec = None /\ (Disabling(p) => gateway'[m] = Plain)
  <2>1. \A m \in up \cap AllDone(c, 10) : gateway[m].sec = None /\ (Disabling(p) => gateway[m] = Plain)
    BY <1>1 DEF DisAll, DisGateway, DxAll, DxGateway
  <2> QED
    BY <1>2, <1>4, <2>1
<1>6. Steps(p, Proceed(c))
  BY <1>1, <1>2, GoesSteps DEF Types
<1>7. \/ Progress(c, Proceed(c), n)
      \/ Proceed(c) = NoCall /\ AllDone(c, 10) \cup {n} = Nodes
  <2>1. Program["disable"][10] \in OverAll
    BY DisableProgram DEF OverAll
  <2> QED
    BY <1>0, <1>1, <2>1, Advance DEF Node
<1>8. CASE Progress(c, Proceed(c), n)
  <2>1. PICK d : d = Proceed(c)
    OBVIOUS
  <2>2. Progress(c, d, n) /\ call'[p] = d /\ d.op = "disable"
    BY <1>1, <1>6, <1>8, <2>1 DEF Steps, Progress
  <2>3. AllDone(d, 10) = AllDone(c, 10) \cup {n}
    BY <1>1, <2>2, DisableProgress
  <2>4. DisGateway(d)' /\ (Disabling(p) => DxGateway(d)')
    BY <1>3, <1>5, <2>3 DEF DisGateway, DxGateway
  <2>5. DisAll(d)'
    BY <1>1, <1>2, <1>3, <2>2, <2>4, DisableFrame DEF DisAll
  <2>6. Disabling(p) => DxAll(d)'
    BY <1>1, <1>2, <1>3, <2>2, <2>4, DisableFrame DEF DxAll
  <2> QED
    BY <1>2, <2>2, <2>5, <2>6, DisablingIs DEF DisableGoes
<1>9. CASE Proceed(c) = NoCall /\ AllDone(c, 10) \cup {n} = Nodes
  <2>1. call'[p].op = "none"
    BY <1>6, <1>9, NoCallFacts DEF Steps
  <2>2. /\ rows' = NoRows /\ turnDNS' = {} /\ stealthDNS' = {} /\ config' = None
    BY <1>1, <1>3 DEF DisAll, DisTables
  <2>3. AllDone(c, 2) = Nodes /\ AllDone(c, 9) = Nodes /\ TurnDone(c, 4) = c.on
    BY <1>1 DEF AllDone, TurnDone
  <2>4. \A m \in Nodes : sfu'[m] = NoSFU
    BY <1>1, <1>2, <2>3 DEF DisAll, DisSFU
  <2>5. \A m \in up : file'[m].sec = None /\ gateway'[m].sec = None
    BY <1>1, <1>2, <1>4, <1>5, <1>9, <2>3 DEF DisAll, DisFile
  <2>6. \A m \in Nodes : restore'[m].pc = "idle"
    BY <1>1, <1>3 DEF Idle
  <2>7. HealedRest'
    BY <1>3, <2>2, <2>4, <2>5, <2>6 DEF HealedRest, NoSecret, GatewayBack
  <2>8. ASSUME noise = {}, Disabling(p) PROVE Rest'
    <3>1. ~stealth' /\ \A m \in Nodes : turn'[m] = NoTURN /\ file'[m].here
      BY <1>1, <1>2, <1>3, <2>3, <2>8 DEF DxAll, DxCall, DxTURN, DxFile
    <3>2. \A m \in up' : gateway'[m] = Plain
      BY <1>3, <1>4, <1>5, <1>9, <2>8
    <3>3. \A m \in Nodes : Forgets(m)'
      BY <1>3, <2>5, <3>1 DEF Forgets, GatewayBack
    <3>4. Off'
      BY <1>2, <2>2, <2>4, <2>8, <3>1, <3>2, <3>3 DEF Off
    <3> QED
      BY <1>1, <1>2, <3>4, OffRests
  <2> QED
    BY <1>2, <2>1, <2>7, <2>8 DEF DisableGoes
<1> QED
  BY <1>7, <1>8, <1>9

\* Every step of a DisableWebRTC that loses nothing leaves the system as the
\* invariants say.
LEMMA DisableStep ==
    ASSUME NEW p \in Nodes, NEW k, DisableAt(p, k), Call(p), "lost" \notin noise'
    PROVE  DisableGoes(p)
<1>1. k \in 1 .. 10 /\ Step(p) = Program["disable"][k]
  BY DisableHas DEF Step
<1>2. \/ k = 1 \/ k = 2 \/ k = 3 \/ k = 4 \/ k = 5 \/ k = 6 \/ k = 7 \/ k = 8 \/ k = 9 \/ k = 10
  BY <1>1
<1>3. CASE k \in {1, 2, 3, 4}
  BY <1>1, <1>3, DisableProgram, ActionOf, Disable1, Disable2, Disable3, Disable4
<1>4. CASE k \in {5, 6, 7, 8}
  BY <1>1, <1>4, DisableProgram, ActionOf, DisableStates
<1>5. CASE k \in {9, 10}
  BY <1>1, <1>5, DisableProgram, ActionOf, Disable9, Disable10
<1> QED
  BY <1>2, <1>3, <1>4, <1>5

-----------------------------------------------------------------------------
(* cleanupWebRTCOnError. *)

CleanupAt(p, k) == Only(p) /\ call[p].op = "cleanup" /\ call[p].k = k

CleanupGoes(p) ==
    /\ noise' = noise /\ UNCHANGED CallVars /\ Types'
    /\ \/ /\ call'[p].op = "cleanup" /\ (HealedCleaning(p) => HealedCleaning(p)')
          /\ CleaningUp(p) => CleaningUp(p)'
       \/ /\ call'[p].op = "none" /\ (HealedCleaning(p) => HealedRest')
          /\ noise = {} /\ CleaningUp(p) => Rest'

\* What is known at a step of the clean-up.
LEMMA CleanupHas ==
    ASSUME NEW p \in Nodes, NEW k, CleanupAt(p, k)
    PROVE  /\ Proper(call[p]) /\ call[p].op = "cleanup" /\ call[p].k = k /\ Types /\ Idle
           /\ k \in 1 .. 3 /\ up \subseteq Nodes
<1>1. Types /\ Proper(call[p]) /\ Idle /\ call[p].op = "cleanup" /\ call[p].k = k
  BY DEF CleanupAt, Only, Types, TaskTypes
<1>2. call[p].k \in 1 .. 3
  BY <1>1, Lengths DEF Proper
<1> QED
  BY <1>1, <1>2 DEF Types, TaskTypes

\* How the nodes done grow with a step of the clean-up.
LEMMA CleanupProgress ==
    ASSUME NEW c, NEW d, NEW n, Proper(c), c.op = "cleanup", Progress(c, d, n)
    PROVE  /\ AllDone(d, 1) = IF 1 = c.k THEN AllDone(c, 1) \cup {n} ELSE AllDone(c, 1)
           /\ d.op = "cleanup" /\ d.k \in Nat /\ d.k <= c.k + 1 /\ c.k \in 1 .. 3
<1>1. Len(Program["cleanup"]) = 3
  BY Lengths
<1>2. Program["cleanup"][1] \in OverAll
  BY UndoProgram DEF OverAll
<1>3. c.k \in 1 .. 3 /\ d.op = "cleanup"
  BY <1>1 DEF Proper, Progress
<1>4. AllDone(d, 1) = IF 1 = c.k THEN AllDone(c, 1) \cup {n} ELSE AllDone(c, 1)
  BY <1>1, <1>2 DEF Progress
<1>5. d.k # c.k + 2
  <2> SUFFICES ASSUME d.k = c.k + 2 PROVE FALSE
    OBVIOUS
  <2>1. d.k \in 1 .. 3
    BY <1>1, <1>3 DEF Progress, Proper
  <2>2. c.k + 1 \in 1 .. 3 /\ Program["cleanup"][c.k + 1] \in OverTURN
    BY <1>3, <2>1 DEF Progress
  <2> QED
    BY <2>2, CleanupKinds
<1> QED
  BY <1>3, <1>4, <1>5 DEF Progress

\* The clean-up stops both services on every node,
LEMMA Cleanup1 ==
    ASSUME NEW p \in Nodes, CleanupAt(p, 1), StopBoth(p), "lost" \notin noise'
    PROVE  CleanupGoes(p)
<1> DEFINE c == call[p]
<1>0. PICK n \in Nodes : n = Node(p) /\ n \in c.todo
  BY NodeOf DEF StopBoth, CleanupAt, Only, Types, OverAll
<1>1. Proper(c) /\ c.op = "cleanup" /\ c.k = 1 /\ Types /\ Idle /\ up \subseteq Nodes
  BY CleanupHas
<1>2. /\ Types' /\ Goes(p, c) /\ noise' = noise /\ UNCHANGED <<CallVars, tables, gateway, file>>
      /\ \/ sfu' = [sfu EXCEPT ![n] = NoSFU] /\ turn' = [turn EXCEPT ![n] = NoTURN]
         \/ sfu[n] = NoSFU /\ turn[n] = NoTURN /\ sfu' = sfu /\ turn' = turn
  BY <1>0, <1>1, StopTypes, Unlost DEF StopBoth, Fine
<1>3. UNCHANGED <<config, stealth, rows, turnDNS, stealthDNS, up, restore>>
  BY <1>2 DEF tables, CallVars
<1>4. Steps(p, Proceed(c)) /\ Progress(c, Proceed(c), n)
  <2>1. c.k # Len(Program[c.op])
    BY <1>1, Lengths
  <2> QED
    BY <1>0, <1>1, <1>2, <2>1, Advance, GoesSteps DEF Types, Node
<1>5. PICK d : d = Proceed(c)
  OBVIOUS
<1>6. /\ call'[p] = d /\ d.op = "cleanup" /\ ~(d.k > 2) /\ AllDone(d, 1) = AllDone(c, 1) \cup {n}
  BY <1>1, <1>4, <1>5, CleanupProgress DEF Steps
<1>7. /\ sfu'[n] = NoSFU /\ turn'[n] = NoTURN
      /\ \A m \in Nodes \ {n} : sfu'[m] = sfu[m] /\ turn'[m] = turn[m]
  BY <1>1, <1>2 DEF Types, UnitTypes
<1>8. AllDone(c, 1) \subseteq Nodes
  BY DEF AllDone
<1>9. ASSUME HealedCleaning(p) PROVE HealedCleaning(p)'
  <2>1. \A m \in AllDone(d, 1) : sfu'[m] = NoSFU
    BY <1>6, <1>7, <1>8, <1>9 DEF HealedCleaning
  <2>2. stealthDNS' = {} /\ turnDNS' = {} /\ \A m \in up' : NoSecret(m)'
    BY <1>2, <1>3, <1>9 DEF HealedCleaning, NoSecret
  <2> QED
    BY <1>6, <2>1, <2>2 DEF HealedCleaning
<1>10. ASSUME CleaningUp(p) PROVE CleaningUp(p)'
  <2>1. \A m \in AllDone(d, 1) : sfu'[m] = NoSFU /\ turn'[m] = NoTURN
    BY <1>6, <1>7, <1>8, <1>10 DEF CleaningUp
  <2>2. \A m \in Nodes : Forgets(m)' /\ (m \in up' => gateway'[m] = Plain)
    BY <1>2, <1>3, <1>10 DEF CleaningUp, Forgets, GatewayBack
  <2>3. ~stealth' /\ stealthDNS' = {} /\ turnDNS' = {}
    BY <1>3, <1>10 DEF CleaningUp
  <2> QED
    BY <1>6, <2>1, <2>2, <2>3 DEF CleaningUp
<1> QED
  BY <1>2, <1>6, <1>9, <1>10 DEF CleanupGoes

\* releases the ports,
LEMMA Cleanup2 ==
    ASSUME NEW p \in Nodes, CleanupAt(p, 2), DeallocateAll(p), "lost" \notin noise'
    PROVE  CleanupGoes(p)
<1> DEFINE c == call[p]
<1>1. Proper(c) /\ c.op = "cleanup" /\ c.k = 2 /\ Types /\ Idle /\ up \subseteq Nodes
  BY CleanupHas
<1>2. /\ Types' /\ Goes(p, c) /\ noise' = noise /\ rows' = NoRows
      /\ UNCHANGED <<config, stealth, turnDNS, stealthDNS>> /\ UNCHANGED <<CallVars, units, file>>
  BY <1>1, DeallocateAllTypes, NeverLost DEF DeallocateAll, Stated, Fine, NoRows
<1>3. UNCHANGED <<sfu, turn, gateway, file, up, restore>>
  BY <1>2 DEF units, CallVars
<1>4. Steps(p, Proceed(c)) /\ Progress(c, Proceed(c), Node(p))
  <2>1. c.k # Len(Program[c.op])
    BY <1>1, Lengths
  <2> QED
    BY <1>1, <1>2, <2>1, Advance, GoesSteps DEF Types, Node
<1>5. PICK d : d = Proceed(c)
  OBVIOUS
<1>6. /\ call'[p] = d /\ d.op = "cleanup" /\ AllDone(d, 1) = AllDone(c, 1)
  BY <1>1, <1>4, <1>5, CleanupProgress DEF Steps
<1>7. ASSUME HealedCleaning(p) PROVE HealedCleaning(p)'
  <2>1. \A m \in AllDone(d, 1) : sfu'[m] = NoSFU
    BY <1>3, <1>6, <1>7 DEF HealedCleaning
  <2>2. stealthDNS' = {} /\ turnDNS' = {} /\ \A m \in up' : NoSecret(m)'
    BY <1>2, <1>3, <1>7 DEF HealedCleaning, NoSecret
  <2> QED
    BY <1>2, <1>6, <2>1, <2>2 DEF HealedCleaning
<1>8. ASSUME CleaningUp(p) PROVE CleaningUp(p)'
  <2>1. \A m \in Nodes : m \in AllDone(d, 1) => sfu'[m] = NoSFU /\ turn'[m] = NoTURN
    BY <1>3, <1>6, <1>8 DEF CleaningUp
  <2>2. \A m \in Nodes : Forgets(m)' /\ (m \in up' => gateway'[m] = Plain)
    BY <1>3, <1>8 DEF CleaningUp, Forgets, GatewayBack
  <2>3. ~stealth' /\ stealthDNS' = {} /\ turnDNS' = {}
    BY <1>2, <1>8 DEF CleaningUp
  <2> QED
    BY <1>2, <1>6, <2>1, <2>2, <2>3 DEF CleaningUp
<1> QED
  BY <1>2, <1>6, <1>7, <1>8 DEF CleanupGoes

\* and deletes the row.
LEMMA Cleanup3 ==
    ASSUME NEW p \in Nodes, CleanupAt(p, 3), DeleteConfig(p), "lost" \notin noise'
    PROVE  CleanupGoes(p)
<1> DEFINE c == call[p]
<1>1. Proper(c) /\ c.op = "cleanup" /\ c.k = 3 /\ Types /\ Idle /\ up \subseteq Nodes
  BY CleanupHas
<1>2. /\ Types' /\ Goes(p, c) /\ noise' = noise /\ config' = None /\ ~stealth'
      /\ UNCHANGED <<rows, turnDNS, stealthDNS>> /\ UNCHANGED <<CallVars, units, file>>
  BY <1>1, DeleteConfigTypes, NeverLost DEF DeleteConfig, Stated, Fine
<1>3. UNCHANGED <<sfu, turn, gateway, file, up, restore>>
  BY <1>2 DEF units, CallVars
<1>4. Steps(p, Proceed(c)) /\ Proceed(c) = NoCall
  <2>1. c.k = Len(Program[c.op])
    BY <1>1, Lengths
  <2>2. Proceed(c) = NoCall \/ Progress(c, Proceed(c), Node(p))
    BY <1>1, Advance DEF Node
  <2>3. ~Progress(c, Proceed(c), Node(p))
    <3> SUFFICES ASSUME Progress(c, Proceed(c), Node(p)) PROVE FALSE
      OBVIOUS
    <3>1. Proceed(c).k \in 1 .. 3 /\ Proceed(c).k \in {3, 4, 5}
      BY <1>1, <2>1, NoCallFacts DEF Progress, Proper
    <3>2. Program["cleanup"][3] \in OverAll \cup OverTURN
      BY <1>1, <3>1 DEF Progress
    <3> QED
      BY <3>2, CleanupKinds
  <2> QED
    BY <1>1, <1>2, <2>2, <2>3, GoesSteps DEF Types
<1>5. call'[p].op = "none" /\ AllDone(c, 1) = Nodes
  BY <1>1, <1>4, NoCallFacts DEF Steps, AllDone
<1>6. ASSUME HealedCleaning(p) PROVE HealedRest'
  <2>1. /\ rows' = NoRows /\ turnDNS' = {} /\ stealthDNS' = {} /\ (\A m \in Nodes : sfu'[m] = NoSFU)
        /\ \A m \in up' : NoSecret(m)'
    BY <1>1, <1>2, <1>3, <1>5, <1>6 DEF HealedCleaning, NoSecret
  <2>2. \A m \in Nodes : restore'[m].pc = "idle"
    BY <1>1, <1>3 DEF Idle
  <2> QED
    BY <2>1, <2>2 DEF HealedRest, GatewayBack
<1>7. ASSUME noise = {}, CleaningUp(p) PROVE Rest'
  <2>1. /\ rows' = NoRows /\ turnDNS' = {} /\ stealthDNS' = {}
        /\ \A m \in Nodes : sfu'[m] = NoSFU /\ turn'[m] = NoTURN /\ (m \in up' => gateway'[m] = Plain)
    BY <1>1, <1>2, <1>3, <1>5, <1>7 DEF CleaningUp
  <2>2. \A m \in Nodes : Forgets(m)'
    BY <1>3, <1>7 DEF CleaningUp, Forgets, GatewayBack
  <2>3. Off'
    BY <1>2, <1>7, <2>1, <2>2 DEF Off
  <2> QED
    BY <1>1, <1>2, <2>3, OffRests
<1> QED
  BY <1>2, <1>5, <1>6, <1>7 DEF CleanupGoes

\* Every step of a clean-up that loses nothing leaves the system as the invariants
\* say.
LEMMA CleanupStep ==
    ASSUME NEW p \in Nodes, NEW k, CleanupAt(p, k), Call(p), "lost" \notin noise'
    PROVE  CleanupGoes(p)
<1>1. k \in 1 .. 3 /\ Step(p) = Program["cleanup"][k]
  BY CleanupHas DEF Step
<1>2. k \in {1, 2, 3}
  BY <1>1
<1> QED
  BY <1>1, <1>2, UndoProgram, ActionOf, Cleanup1, Cleanup2, Cleanup3

-----------------------------------------------------------------------------
(* A call begins, or ends, that has not inserted a row. *)

\* Nothing changes but calls that have yet to insert their rows.
Same ==
    /\ UNCHANGED <<config, stealth, rows, turnDNS, stealthDNS>>
    /\ UNCHANGED <<sfu, turn, gateway, file, up, restore, noise>>
    /\ \A n \in Nodes : (Calling(n)' <=> Calling(n)) /\ (Calling(n) => call'[n] = call[n])

\* A step that leaves tables, services and files alone keeps the system at rest,
LEMMA SameRest == ASSUME Same, Rest PROVE Rest'
<1>1. /\ UNCHANGED <<config, stealth, rows, turnDNS, stealthDNS>>
      /\ UNCHANGED <<sfu, turn, gateway, file, up, restore, noise>>
  BY DEF Same
<1>2. TURNNodes' = TURNNodes /\ (TablesServe => TablesServe')
  BY <1>1 DEF TURNNodes, TablesServe
<1>3. \A n \in Nodes : /\ HasSFU(n) => HasSFU(n)'
                       /\ HasGateway(n, stealth) => HasGateway(n, stealth)'
                       /\ HasFile(n) => HasFile(n)'
                       /\ Forgets(n) => Forgets(n)'
  BY <1>1 DEF HasSFU, Steady, SFUFor, HasGateway, GatewayBack, GatewayFor, HasFile, Forgets
<1>4. \A n \in Nodes : HasTURN(n, stealth) => HasTURN(n, stealth)'
  BY <1>1, <1>2 DEF HasTURN, TURNBack, TURNFor
<1>5. \A n \in Nodes : Reads(n) => Reads(n)'
  BY <1>1 DEF Reads
<1> QED
  BY <1>1, <1>2, <1>3, <1>4, <1>5 DEF Rest

\* a call where it was,
LEMMA SameDoing == ASSUME Types, Same, NEW p \in Nodes, Calling(p), Doing(p) PROVE Doing(p)'
<1>1. /\ UNCHANGED <<config, stealth, rows, turnDNS, stealthDNS>>
      /\ UNCHANGED <<sfu, turn, gateway, file, up, restore, noise>> /\ call'[p] = call[p]
  BY DEF Same
<1>2. TURNNodes' = TURNNodes
  BY <1>1 DEF TURNNodes
<1>3. \A n \in Nodes : /\ HasSFU(n)' <=> HasSFU(n)
                       /\ HasFile(n)' <=> HasFile(n)
                       /\ Forgets(n)' <=> Forgets(n)
  BY <1>1 DEF HasSFU, Steady, SFUFor, HasFile, Forgets, GatewayBack
<1>4. \A n \in Nodes : \A s :
         (HasTURN(n, s)' <=> HasTURN(n, s)) /\ (HasGateway(n, s)' <=> HasGateway(n, s))
  BY <1>1, <1>2 DEF HasTURN, TURNBack, TURNFor, HasGateway, GatewayBack, GatewayFor
<1>5. Kept => Kept'
  BY <1>1, <1>2, <1>3 DEF Kept, TablesServe
<1>6. CASE call[p].op = "enable"
  <2>1. Enabling(p) => Enabling(p)'
    BY <1>1, <1>3, <1>4 DEF Enabling, GatewayFor
  <2> QED
    BY <1>1, <1>6, <2>1 DEF Doing
<1>7. CASE call[p].op = "cleanup"
  <2>1. CleaningUp(p) => CleaningUp(p)'
    BY <1>1, <1>3 DEF CleaningUp
  <2> QED
    BY <1>1, <1>7, <2>1 DEF Doing
<1>8. CASE call[p].op = "disable"
  <2>1. Disabling(p) => Disabling(p)'
    BY <1>1, <1>2 DEF Disabling
  <2> QED
    BY <1>1, <1>8, <2>1 DEF Doing
<1>9. CASE call[p].op \in {"stealth_on", "stealth_off"}
  <2>1. ASSUME NEW on \in BOOLEAN, Turning(p, on) PROVE Turning(p, on)'
    BY <1>1, <1>2, <1>4, <1>5, <2>1 DEF Turning
  <2> QED
    BY <1>1, <1>9, <2>1 DEF Doing
<1>10. CASE call[p].op = "rollback"
  <2>1. RollingBack(p) => RollingBack(p)'
    BY <1>1, <1>4, <1>5 DEF RollingBack
  <2> QED
    BY <1>1, <1>10, <2>1 DEF Doing
<1> QED
  BY <1>6, <1>7, <1>8, <1>9, <1>10 DEF Types, TaskTypes, CallTypes, Operations, Calling

\* and the system undisturbed.
LEMMA SameKept == ASSUME Types, Same, Fresh', Undisturbed PROVE Undisturbed'
<1>1. \A n \in Nodes : Calling(n)' <=> Calling(n)
  BY DEF Same
<1>2. (\A n \in Nodes : ~Calling(n)') => Rest'
  BY <1>1, SameRest DEF Undisturbed
<1>3. \A p \in Nodes : Calling(p)' => Doing(p)'
  BY <1>1, SameDoing DEF Undisturbed
<1>4. "respawn" \in noise' => config' # None
  BY DEF Same, Undisturbed
<1> QED
  BY <1>2, <1>3, <1>4 DEF Undisturbed

\* What holds of a node that is off, and idle.
LEMMA RestOff ==
    ASSUME Types, Rest, config = None, noise = {}, Idle, NEW n \in Nodes
    PROVE  /\ rows = NoRows /\ turnDNS = {} /\ stealthDNS = {} /\ ~stealth /\ Forgets(n)
           /\ sfu[n] = NoSFU /\ turn[n] = NoTURN /\ (n \in up => gateway[n] = Plain)
<1>1. rows = NoRows /\ turnDNS = {} /\ stealthDNS = {} /\ ~stealth /\ Forgets(n) /\ stealth = FALSE
  BY DEF Rest, Types, TableTypes
<1>2. SFUFor(n) = NoSFU /\ n \notin TURNNodes /\ GatewayFor(n, stealth) = Plain
  BY <1>1 DEF SFUFor, GatewayFor, TURNNodes, NoRows, NoBlocks, NoSFU, Plain
<1>3. HasSFU(n) /\ HasTURN(n, stealth) /\ HasGateway(n, stealth)
  BY DEF Rest
<1>4. sfu[n] = NoSFU
  BY <1>2, <1>3 DEF HasSFU
<1>5. turn[n] = NoTURN
  BY <1>2, <1>3 DEF HasTURN
<1>6. n \in up => gateway[n] = Plain
  BY <1>2, <1>3, WhenIdle DEF HasGateway
<1> QED
  BY <1>1, <1>4, <1>5, <1>6

\* The row is inserted while nothing else runs.
LEMMA InsertGoes ==
    ASSUME NEW p \in Nodes, Types, Types', Rest, Fresh, Idle, config = None, noise = {},
           call[p].op = "enable", call[p].k = 1, Goes(p, call[p]), noise' = {},
           config' = call[p].sec, ~stealth', UNCHANGED <<CallVars, rows, turnDNS, stealthDNS, units, file>>
    PROVE  call'[p].op = "enable" /\ call'[p].k # 1 /\ Enabling(p)'
<1> DEFINE c == call[p]
<1>1. /\ Proper(c) /\ c.sec # None /\ c.sfu = NoBlocks /\ c.turn = NoBlocks /\ c.on = {}
      /\ c.op = "enable" /\ c.k = 1
  BY DEF Types, TaskTypes, Proper, Fresh
<1>2. PICK d : Steps(p, d) /\ Progress(c, d, Node(p)) /\ call'[p] = d /\ (EnAll(d)' => Enabling(p)')
  BY <1>1, GoesOn
<1>3. UNCHANGED <<rows, turnDNS, stealthDNS, sfu, turn, gateway, file, up, restore>>
  BY DEF units, CallVars
<1>4. /\ d.op = "enable" /\ d.sec = c.sec /\ d.sfu = NoBlocks /\ d.turn = NoBlocks /\ d.k \in Nat
      /\ AllDone(d, 3) = AllDone(c, 3) /\ AllDone(d, 8) = AllDone(c, 8)
      /\ AllDone(d, 11) = AllDone(c, 11) /\ AllDone(d, 12) = AllDone(c, 12)
      /\ TurnDone(d, 5) = TurnDone(c, 5) /\ TurnDone(d, 7) = TurnDone(c, 7)
      /\ TurnDone(d, 10) = TurnDone(c, 10)
  BY <1>1, <1>2, EnableProgress
<1>5. d.k # 1
  <2>1. Program["enable"][1] \notin OverAll \cup OverTURN
    BY EnableProgram DEF OverAll, OverTURN
  <2> QED
    BY <1>1, <1>2, <2>1 DEF Progress
<1>6. ~(d.k > 4)
  BY <1>1, <1>2 DEF Progress
<1>7. /\ AllDone(d, 3) = {} /\ AllDone(d, 8) = {} /\ AllDone(d, 11) = {} /\ AllDone(d, 12) = {}
      /\ TurnDone(d, 5) = {} /\ TurnDone(d, 7) = {} /\ TurnDone(d, 10) = {}
  BY <1>1, <1>4 DEF AllDone, TurnDone
<1>8. EnTables(d)' /\ EnDNS(d)'
  <2>1. PICK n \in Nodes : TRUE
    OBVIOUS
  <2> QED
    BY <1>1, <1>3, <1>4, <1>7, <2>1, RestOff DEF EnTables, EnDNS
<1>9. EnRows(d)'
  <2>1. rows' = NoRows
    BY <1>3, RestOff
  <2> QED
    BY <1>4, <1>6, <1>7, <2>1 DEF EnRows, NoRows, NoBlocks
<1>10. EnTURN(d)' /\ EnSFU(d)'
  BY <1>3, <1>7, RestOff DEF EnTURN, EnSFU
<1>11. EnFile(d)'
  <2>1. \A n \in Nodes : Forgets(n)'
    BY <1>3, RestOff DEF Forgets, GatewayBack
  <2> QED
    BY <1>7, <2>1 DEF EnFile
<1>12. EnGateway(d)'
  BY <1>3, <1>7, RestOff DEF EnGateway, Types, TaskTypes
<1> QED
  BY <1>2, <1>4, <1>5, <1>8, <1>9, <1>10, <1>11, <1>12 DEF EnAll

\* The insert of EnableWebRTC finds a system at rest and begins the call.
LEMMA InsertCalm ==
    ASSUME NEW p \in Nodes, Types, Undisturbed, noise \subseteq {"respawn"}, noise' \subseteq {"respawn"},
           call[p].op = "enable", call[p].k = 1, Insert(p)
    PROVE  Undisturbed'
<1> DEFINE row == /\ config' = call[p].sec /\ stealth' = FALSE
                  /\ UNCHANGED <<next, rows, turnDNS, stealthDNS>>
<1>0. UNCHANGED <<CallVars, units, file>> /\ Types' /\ Proper(call[p]) /\ ~Calling(p) /\ call[p] \in CallTypes
  BY InsertTypes DEF Insert, Types, TaskTypes, Proper, Calling
<1>1. ~Note("lost", TRUE)
  BY DEF Note
<1>2. \/ config = None /\ Note("overlap", Overlap(p)) /\ row /\ Goes(p, call[p])
      \/ config # None /\ noise' = noise /\ Fails(p) /\ UNCHANGED tables
  BY <1>1 DEF Insert, Lost, Fine
<1>3. CASE config = None /\ Note("overlap", Overlap(p)) /\ row /\ Goes(p, call[p])
  <2>1. ~Overlap(p) /\ noise' = {} /\ noise = {}
    <3>1. "overlap" \notin noise' /\ "respawn" \notin noise
      BY <1>3 DEF Undisturbed
    <3>2. ~Overlap(p) /\ noise' = noise
      BY <1>3, <3>1 DEF Note
    <3> QED
      BY <3>1, <3>2
  <2>2. Idle /\ \A n \in Nodes : ~Calling(n)
    BY <1>0, <2>1, OverlapIs DEF Idle, Restoring
  <2>3. call'[p].op = "enable" /\ call'[p].k # 1 /\ Enabling(p)'
    BY <1>0, <1>3, <2>1, <2>2, InsertGoes DEF Undisturbed
  <2>4. \A n \in Nodes \ {p} : call'[n] = call[n]
    BY <1>3 DEF Goes, Types, TaskTypes
  <2>5. Calling(p)' /\ (\A n \in Nodes \ {p} : ~Calling(n)') /\ Fresh'
    BY <2>2, <2>3, <2>4 DEF Calling, Fresh, Undisturbed
  <2>6. Doing(p)'
    BY <2>1, <2>3 DEF Doing
  <2> QED
    BY <2>1, <2>5, <2>6 DEF Undisturbed
<1>4. CASE config # None /\ noise' = noise /\ Fails(p) /\ UNCHANGED tables
  <2>1. Steps(p, Fail(call[p])) /\ Fail(call[p]) = NoCall
    BY <1>0, <1>4, FailsSteps, EnableFails DEF Types
  <2>2. call'[p].op = "none" /\ \A n \in Nodes \ {p} : call'[n] = call[n]
    BY <2>1, NoCallFacts DEF Steps
  <2>3. Same
    BY <1>0, <1>4, <2>2 DEF Same, tables, units, CallVars, Calling
  <2>4. Fresh'
    BY <2>2 DEF Fresh, Undisturbed
  <2> QED
    BY <2>3, <2>4, SameKept
<1> QED
  BY <1>2, <1>3, <1>4

\* A server, or a gateway, in the mode that the table says.
LEMMA InMode ==
    ASSUME NEW n, NEW s \in BOOLEAN, NEW t \in BOOLEAN, s <=> t
    PROVE  (HasTURN(n, s) <=> HasTURN(n, t)) /\ (HasGateway(n, s) <=> HasGateway(n, t))
<1>1. s = t
  OBVIOUS
<1> QED
  BY <1>1

\* At rest with WebRTC enabled everything is served.
LEMMA RestOn ==
    ASSUME Rest, config # None, Types
    PROVE  /\ Kept /\ stealth \in BOOLEAN
           /\ stealthDNS = IF stealth THEN TURNNodes ELSE {}
           /\ \A n \in Nodes : HasTURN(n, stealth) /\ HasGateway(n, stealth)
BY DEF Rest, Kept, Types, TableTypes

\* Nothing but the calls changes.
LEMMA SameUnits ==
    ASSUME UNCHANGED <<config, stealth, rows, turnDNS, stealthDNS>>,
           UNCHANGED <<sfu, turn, gateway, file, up, restore, noise>>
    PROVE  /\ TURNNodes' = TURNNodes /\ (Kept => Kept')
           /\ \A n \in Nodes : \A s :
                 (HasTURN(n, s)' <=> HasTURN(n, s)) /\ (HasGateway(n, s)' <=> HasGateway(n, s))
<1>1. TURNNodes' = TURNNodes
  BY DEF TURNNodes
<1>2. Kept => Kept'
  BY <1>1 DEF Kept, TablesServe, HasSFU, SFUFor, Steady, HasFile
<1>3. \A n \in Nodes : \A s :
         (HasTURN(n, s)' <=> HasTURN(n, s)) /\ (HasGateway(n, s)' <=> HasGateway(n, s))
  BY <1>1 DEF HasTURN, TURNBack, TURNFor, HasGateway, GatewayBack, GatewayFor
<1> QED
  BY <1>1, <1>2, <1>3

\* A call that begins finds a system at rest.
LEMMA BeginCalm ==
    ASSUME NEW p \in Nodes, NEW op \in Ops, Types, Undisturbed, Begin(p, op),
           noise \subseteq {"respawn"}, noise' \subseteq {"respawn"}
    PROVE  Undisturbed'
<1>1. PICK d : /\ Steps(p, d) /\ d.op = op /\ d.k = 1 /\ d.todo = {} /\ d.on = {} /\ ~d.cut
               /\ d.sfu = NoBlocks /\ d.turn = NoBlocks
               /\ d.sec = IF op = "enable" THEN next ELSE IF op = "disable" THEN None ELSE config
  BY BeginSteps
<1>2. ~Overlap(p) /\ noise' = noise /\ (op = "disable" => noise = {})
  BY DEF Begin
<1>3. ~Calling(p)
  BY NoCallFacts DEF Begin, Calling
<1>4. Idle /\ \A n \in Nodes : ~Calling(n)
  BY <1>2, <1>3, OverlapIs DEF Idle, Restoring
<1>5. Rest /\ Fresh
  BY <1>4 DEF Undisturbed
<1>6. /\ UNCHANGED <<config, stealth, rows, turnDNS, stealthDNS>>
      /\ UNCHANGED <<sfu, turn, gateway, file, up, restore, noise>>
  BY <1>2 DEF Begin, CallVars, units
<1>7. call'[p] = d /\ \A n \in Nodes \ {p} : call'[n] = call[n]
  BY <1>1 DEF Steps
<1>8. CASE op = "enable"
  <2>1. Same
    BY <1>1, <1>3, <1>6, <1>7, <1>8 DEF Same, Calling
  <2>2. Fresh'
    BY <1>1, <1>5, <1>7 DEF Fresh
  <2> QED
    BY <2>1, <2>2, SameKept
<1>9. ASSUME op # "enable" PROVE Undisturbed'
  <2>1. config # None /\ (op = "stealth_on" => ~stealth) /\ (op = "stealth_off" => stealth)
    BY <1>9, AllowedIs DEF Begin
  <2>2. /\ Calling(p)' /\ Fresh' /\ (\A n \in Nodes \ {p} : ~Calling(n)')
        /\ "respawn" \in noise' => config' # None
    BY <1>1, <1>4, <1>5, <1>6, <1>7, <1>9, <2>1 DEF Calling, Fresh, Ops
  <2>3. /\ Kept' /\ stealth' = stealth /\ stealth \in BOOLEAN /\ TURNNodes' = TURNNodes
        /\ stealthDNS' = IF stealth THEN TURNNodes ELSE {}
        /\ \A n \in Nodes : HasTURN(n, stealth) /\ HasGateway(n, stealth)
    BY <1>5, <1>6, <2>1, RestOn, SameUnits
  <2>4. CASE op = "disable"
    <3>1. AllDone(d, 2) = {} /\ AllDone(d, 9) = {} /\ AllDone(d, 10) = {}
      BY <1>1 DEF AllDone
    <3>2. \A n \in Nodes : turn'[n] # NoTURN => n \in TURNNodes'
      <4>1. "respawn" \notin noise
        BY <1>2, <2>4
      <4> QED
        BY <1>6, <2>3, <4>1 DEF HasTURN
    <3>3. \A n \in Nodes : file'[n].here
      BY <2>3 DEF Kept, HasFile
    <3>4. Disabling(p)'
      BY <1>1, <1>7, <2>4, <3>1, <3>2, <3>3 DEF Disabling
    <3>5. Doing(p)'
      BY <1>1, <1>2, <1>7, <2>4, <3>4 DEF Doing
    <3> QED
      BY <2>2, <3>5 DEF Undisturbed
  <2>5. ASSUME NEW on \in BOOLEAN, op = Mode(on) PROVE Doing(p)'
    <3>0. /\ LastStep(on) \in {7, 8} /\ RespawnStep(on) \in {3, 5} /\ FlagStep(on) \in {2, 4}
          /\ BlocksStep(on) \in {5, 6} /\ (on <=> op = "stealth_on") /\ (~on <=> op = "stealth_off")
      BY <2>5 DEF LastStep, RespawnStep, FlagStep, BlocksStep, Mode
    <3>1. AllDone(d, LastStep(on)) = {} /\ TurnDone(d, 3) = {} /\ TurnDone(d, RespawnStep(on)) = {}
      BY <1>1, <3>0 DEF AllDone, TurnDone
    <3>2. ASSUME NEW n \in Nodes
          PROVE  /\ HasTURN(n, on <=> n \in TurnDone(d, RespawnStep(on)))'
                 /\ HasGateway(n, on <=> n \in AllDone(d, LastStep(on)))'
      <4>1. HasTURN(n, stealth) /\ HasGateway(n, stealth)
        BY <2>3
      <4>2. /\ stealth <=> (on <=> n \in TurnDone(d, RespawnStep(on)))
            /\ stealth <=> (on <=> n \in AllDone(d, LastStep(on)))
        BY <2>1, <3>0, <3>1
      <4>3. /\ HasTURN(n, on <=> n \in TurnDone(d, RespawnStep(on)))
            /\ HasGateway(n, on <=> n \in AllDone(d, LastStep(on)))
        BY <2>3, <4>1, <4>2, InMode
      <4> QED
        BY <1>6, <4>3, SameUnits
    <3>3. d.sec = config' /\ ~(d.k > 1) /\ ~(d.k > BlocksStep(on)) /\ ~(d.k > FlagStep(on)) /\ d.k <= 4
      BY <1>1, <1>6, <1>9, <3>0
    <3>4. stealth' = (on <=> d.k > FlagStep(on))
      BY <2>1, <2>3, <3>0, <3>3
    <3>5. stealthDNS' = IF on THEN TurnDone(d, 3) ELSE IF d.k <= 4 THEN TURNNodes' ELSE {}
      BY <2>1, <2>3, <3>0, <3>1, <3>3
    <3>6. Turning(p, on)'
      BY <1>7, <2>3, <3>2, <3>3, <3>4, <3>5 DEF Turning
    <3>7. CASE on
      <4>1. Turning(p, TRUE)'
        BY <3>6, <3>7
      <4> QED
        BY <1>1, <1>7, <3>0, <3>7, <4>1 DEF Doing
    <3>8. CASE ~on
      <4>1. Turning(p, FALSE)'
        BY <3>6, <3>8
      <4> QED
        BY <1>1, <1>7, <3>0, <3>8, <4>1 DEF Doing
    <3> QED
      BY <3>7, <3>8
  <2>6. op # "disable" => \E on \in BOOLEAN : op = Mode(on)
    BY <1>9 DEF Ops, Mode
  <2> QED
    BY <2>2, <2>4, <2>5, <2>6 DEF Undisturbed
<1> QED
  BY <1>8, <1>9

-----------------------------------------------------------------------------
(* EnableWebRTCStealth and DisableWebRTCStealth. *)

StCall(c, on) ==
    /\ c.sec = config
    /\ c.k > 1 => c.turn = rows.turn /\ c.on = TURNNodes
    /\ c.k > BlocksStep(on) => c.sfu = rows.sfu
StFlag(c, on) == stealth = (on <=> c.k > FlagStep(on))
StDNS(c, on) == stealthDNS = IF on THEN TurnDone(c, 3) ELSE IF c.k <= 4 THEN TURNNodes ELSE {}
StTURN(c, on) == \A n \in Nodes : HasTURN(n, on <=> n \in TurnDone(c, RespawnStep(on)))
StGateway(c, on) == \A n \in Nodes : HasGateway(n, on <=> n \in AllDone(c, LastStep(on)))

StAll(c, on) == Kept /\ StCall(c, on) /\ StFlag(c, on) /\ StDNS(c, on) /\ StTURN(c, on) /\ StGateway(c, on)

\* What the stealth calls are done with, one part per variable.
LEMMA TurningIs ==
    ASSUME NEW p \in Nodes, NEW on \in BOOLEAN
    PROVE  /\ Turning(p, on) => StAll(call[p], on)
           /\ \A d : call'[p] = d /\ StAll(d, on)' => Turning(p, on)'
<1> USE DEF Turning, StAll, StCall, StFlag, StDNS, StTURN, StGateway
<1>1. Turning(p, on) => StAll(call[p], on)
  OBVIOUS
<1>2. ASSUME NEW d, call'[p] = d, StAll(d, on)' PROVE Turning(p, on)'
  BY <1>2
<1> QED
  BY <1>1, <1>2

\* Where the stealth calls set the flag, respawn, read the blocks and restart the
\* gateways.
LEMMA StealthSteps ==
    ASSUME NEW on \in BOOLEAN
    PROVE  /\ on => /\ Mode(on) = "stealth_on" /\ FlagStep(on) = 4 /\ RespawnStep(on) = 5
                    /\ BlocksStep(on) = 6 /\ LastStep(on) = 8
           /\ ~on => /\ Mode(on) = "stealth_off" /\ FlagStep(on) = 2 /\ RespawnStep(on) = 3
                     /\ BlocksStep(on) = 5 /\ LastStep(on) = 7
BY DEF Mode, FlagStep, RespawnStep, BlocksStep, LastStep

\* How the nodes done grow with a step of a stealth call.
LEMMA StealthProgress ==
    ASSUME NEW on \in BOOLEAN, NEW c, NEW d, NEW n, Proper(c), c.op = Mode(on), c.on # {},
           Progress(c, d, n)
    PROVE  /\ AllDone(d, LastStep(on)) = IF LastStep(on) = c.k THEN AllDone(c, LastStep(on)) \cup {n}
                                                               ELSE AllDone(c, LastStep(on))
           /\ TurnDone(d, RespawnStep(on)) =
                 IF RespawnStep(on) = c.k THEN TurnDone(c, RespawnStep(on)) \cup {n}
                                          ELSE TurnDone(c, RespawnStep(on))
           /\ TurnDone(d, 3) = IF 3 = c.k THEN TurnDone(c, 3) \cup {n} ELSE TurnDone(c, 3)
           /\ d.sec = c.sec /\ d.on = c.on /\ d.sfu = c.sfu /\ d.turn = c.turn /\ d.op = c.op
           /\ d.k \in Nat /\ d.k \in {c.k, c.k + 1} /\ c.k \in 1 .. LastStep(on)
           /\ c.k \in {1, FlagStep(on), BlocksStep(on), IF on THEN 2 ELSE 4} => d.k = c.k + 1
<1>0. c.op \in {"stealth_on", "stealth_off"} /\ (on <=> c.op = "stealth_on")
  BY DEF Mode
<1>1. Len(Program[c.op]) = LastStep(on) /\ LastStep(on) \in {7, 8}
  BY <1>0, Lengths DEF LastStep
<1>2. /\ Program[c.op][LastStep(on)] \in OverAll /\ Program[c.op][RespawnStep(on)] \in OverTURN
      /\ on => Program[c.op][3] \in OverTURN
      /\ RespawnStep(on) \in 1 .. LastStep(on) /\ LastStep(on) \in 1 .. LastStep(on)
      /\ ~on => RespawnStep(on) = 3
      /\ 3 \in 1 .. LastStep(on)
  BY <1>0, StealthProgram DEF OverAll, OverTURN, LastStep, RespawnStep
<1>3. c.k \in 1 .. LastStep(on)
  BY <1>0, <1>1 DEF Proper
<1>4. \A i \in 1 .. LastStep(on) :
         /\ Program[c.op][i] \in OverAll =>
               AllDone(d, i) = IF i = c.k THEN AllDone(c, i) \cup {n} ELSE AllDone(c, i)
         /\ Program[c.op][i] \in OverTURN =>
               TurnDone(d, i) = IF i = c.k THEN TurnDone(c, i) \cup {n} ELSE TurnDone(c, i)
  BY <1>1 DEF Progress
<1>5. /\ d.sec = c.sec /\ d.on = c.on /\ d.sfu = c.sfu /\ d.turn = c.turn /\ d.op = c.op
      /\ d.k \in Nat /\ d.k \in {c.k, c.k + 1}
  BY <1>1, <1>3 DEF Progress
<1>6. AllDone(d, LastStep(on)) = IF LastStep(on) = c.k THEN AllDone(c, LastStep(on)) \cup {n}
                                                       ELSE AllDone(c, LastStep(on))
  BY <1>2, <1>4
<1>7. TurnDone(d, RespawnStep(on)) =
         IF RespawnStep(on) = c.k THEN TurnDone(c, RespawnStep(on)) \cup {n}
                                  ELSE TurnDone(c, RespawnStep(on))
  BY <1>2, <1>4
<1>8. TurnDone(d, 3) = IF 3 = c.k THEN TurnDone(c, 3) \cup {n} ELSE TurnDone(c, 3)
  <2>1. Program[c.op][3] \in OverTURN
    BY <1>2
  <2> QED
    BY <1>2, <1>4, <2>1
<1>9. c.k \in {1, FlagStep(on), BlocksStep(on), IF on THEN 2 ELSE 4} => d.k = c.k + 1
  <2> SUFFICES ASSUME c.k \in {1, FlagStep(on), BlocksStep(on), IF on THEN 2 ELSE 4} PROVE d.k # c.k
    BY <1>5
  <2>1. Program[c.op][c.k] \in {"nodes", "flag", "blocks", "clear_stealth"}
    BY <1>0, StealthProgram DEF FlagStep, BlocksStep
  <2>2. Program[c.op][c.k] \notin OverAll \cup OverTURN
    BY <2>1 DEF OverAll, OverTURN
  <2> QED
    BY <2>2 DEF Progress
<1> QED
  BY <1>3, <1>5, <1>6, <1>7, <1>8, <1>9

\* What a step of a stealth call does not touch it keeps.
LEMMA StealthFrame ==
    ASSUME NEW on \in BOOLEAN, NEW c, NEW d, NEW n, Proper(c), c.op = Mode(on), c.on # {},
           Progress(c, d, n), UNCHANGED CallVars, UNCHANGED noise, UNCHANGED <<config, rows>>
    PROVE  /\ Kept /\ UNCHANGED <<turnDNS, sfu, file>> => Kept'
           /\ StCall(c, on) /\ c.k \notin {1, BlocksStep(on)} => StCall(d, on)'
           /\ StFlag(c, on) /\ UNCHANGED stealth /\ c.k # FlagStep(on) => StFlag(d, on)'
           /\ StDNS(c, on) /\ UNCHANGED stealthDNS /\ (on => c.k # 3) /\ (~on => c.k # 4) => StDNS(d, on)'
           /\ StTURN(c, on) /\ UNCHANGED turn /\ c.k # RespawnStep(on) => StTURN(d, on)'
           /\ StGateway(c, on) /\ UNCHANGED gateway /\ c.k # LastStep(on) => StGateway(d, on)'
<1>0. UNCHANGED <<up, restore>> /\ TURNNodes' = TURNNodes
  BY DEF CallVars, TURNNodes
<1>a. /\ d.k \in Nat /\ d.k \in {c.k, c.k + 1} /\ c.k \in 1 .. 8 /\ FlagStep(on) \in {2, 4}
      /\ BlocksStep(on) \in {5, 6} /\ d.sec = c.sec /\ d.on = c.on /\ d.sfu = c.sfu /\ d.turn = c.turn
  BY StealthProgress, StealthSteps
<1>1. Kept /\ UNCHANGED <<turnDNS, sfu, file>> => Kept'
  BY <1>0 DEF Kept, TablesServe, HasSFU, SFUFor, Steady, HasFile
<1>2. ASSUME StCall(c, on), c.k \notin {1, BlocksStep(on)} PROVE StCall(d, on)'
  <2>1. (d.k > 1 => c.k > 1) /\ (d.k > BlocksStep(on) => c.k > BlocksStep(on))
    BY <1>2, <1>a
  <2> QED
    BY <1>0, <1>2, <1>a, <2>1 DEF StCall
<1>3. ASSUME StFlag(c, on), UNCHANGED stealth, c.k # FlagStep(on) PROVE StFlag(d, on)'
  <2>1. d.k > FlagStep(on) <=> c.k > FlagStep(on)
    BY <1>3, <1>a
  <2> QED
    BY <1>3, <2>1 DEF StFlag
<1>4. ASSUME StDNS(c, on), UNCHANGED stealthDNS, on => c.k # 3, ~on => c.k # 4 PROVE StDNS(d, on)'
  <2>1. ASSUME on PROVE TurnDone(d, 3) = TurnDone(c, 3)
    <3>1. c.k # 3
      BY <1>4, <2>1
    <3> QED
      BY <3>1, StealthProgress
  <2>2. ~on => (d.k <= 4 <=> c.k <= 4)
    BY <1>4, <1>a
  <2> QED
    BY <1>0, <1>4, <2>1, <2>2 DEF StDNS
<1>5. ASSUME StTURN(c, on), UNCHANGED turn, c.k # RespawnStep(on) PROVE StTURN(d, on)'
  <2>1. TurnDone(d, RespawnStep(on)) = TurnDone(c, RespawnStep(on))
    BY <1>5, StealthProgress
  <2>2. \A m \in Nodes : \A s : HasTURN(m, s) => HasTURN(m, s)'
    BY <1>0, <1>5 DEF HasTURN, TURNBack, TURNFor
  <2> QED
    BY <1>5, <2>1, <2>2 DEF StTURN
<1>6. ASSUME StGateway(c, on), UNCHANGED gateway, c.k # LastStep(on) PROVE StGateway(d, on)'
  <2>1. AllDone(d, LastStep(on)) = AllDone(c, LastStep(on))
    BY <1>6, StealthProgress
  <2>2. \A m \in Nodes : \A s : HasGateway(m, s) => HasGateway(m, s)'
    BY <1>0, <1>6 DEF HasGateway, GatewayBack, GatewayFor
  <2> QED
    BY <1>6, <2>1, <2>2 DEF StGateway
<1> QED
  BY <1>1, <1>2, <1>3, <1>4, <1>5, <1>6

StealthAt(p, on, k) == Only(p) /\ call[p].op = Mode(on) /\ call[p].k = k /\ Turning(p, on)

\* What a step of a stealth call may lead to.
StealthGoes(p, on) ==
    /\ UNCHANGED CallVars /\ UNCHANGED config /\ Types' /\ config # None
    /\ \/ call'[p].op = Mode(on) /\ Turning(p, on)'
       \/ call'[p].op = "rollback" /\ RollingBack(p)'
       \/ call'[p].op = "none" /\ Rest'

\* What is known at a step of a stealth call.
LEMMA StealthHas ==
    ASSUME NEW p \in Nodes, NEW on \in BOOLEAN, NEW k, StealthAt(p, on, k)
    PROVE  /\ Proper(call[p]) /\ call[p] \in CallTypes /\ call[p].op = Mode(on) /\ call[p].k = k
           /\ StAll(call[p], on) /\ Types /\ Idle /\ k \in 1 .. LastStep(on) /\ up \subseteq Nodes
           /\ config # None /\ TURNNodes # {} /\ (k > 1 => call[p].on = TURNNodes /\ call[p].turn = rows.turn)
<1>1. /\ Types /\ Proper(call[p]) /\ call[p] \in CallTypes /\ Idle /\ call[p].op = Mode(on)
      /\ call[p].k = k
  BY DEF StealthAt, Only, Types, TaskTypes, Proper
<1>2. call[p].k \in 1 .. LastStep(on)
  BY <1>1, Lengths DEF Proper, Mode, LastStep
<1>3. StAll(call[p], on)
  BY TurningIs DEF StealthAt
<1>4. config # None /\ Cardinality(TURNNodes) = TurnCount
  BY <1>3 DEF StAll, Kept, TablesServe
<1>5. TURNNodes # {}
  BY <1>4, FS_EmptySet, Constants
<1> QED
  BY <1>1, <1>2, <1>3, <1>4, <1>5 DEF StAll, StCall, Types, TaskTypes

\* The call goes on as d.
LEMMA StealthOn ==
    ASSUME NEW p \in Nodes, NEW on \in BOOLEAN, NEW c, Proper(c), c.op = Mode(on), c.todo = call[p].todo,
           c.k # LastStep(on), Goes(p, c), Types, Types', UNCHANGED CallVars, config' = config,
           config # None
    PROVE  \E d : Progress(c, d, Node(p)) /\ (StAll(d, on)' => StealthGoes(p, on))
<1>0. c.op # "none" /\ c.k # Len(Program[c.op])
  BY Lengths DEF Mode, LastStep
<1>1. Steps(p, Proceed(c))
  BY <1>0, GoesSteps DEF Types
<1>2. Progress(c, Proceed(c), Node(p))
  BY <1>0, Advance DEF Node
<1>3. PICK d : d = Proceed(c)
  OBVIOUS
<1>4. call'[p] = d /\ d.op = Mode(on)
  BY <1>1, <1>2, <1>3 DEF Steps, Progress
<1>5. StAll(d, on)' => StealthGoes(p, on)
  BY <1>4, TurningIs DEF StealthGoes
<1> QED
  BY <1>2, <1>3, <1>5

\* A call that ends.
LEMMA StealthRests ==
    ASSUME Idle, UNCHANGED CallVars, Kept', stealthDNS' = IF stealth' THEN TURNNodes' ELSE {},
           \A n \in Nodes : HasTURN(n, stealth)' /\ HasGateway(n, stealth)'
    PROVE  Rest'
<1>1. \A n \in Nodes : Reads(n)'
  BY DEF Idle, CallVars, Reads
<1>2. config' # None
  BY DEF Kept, TablesServe
<1> QED
  BY <1>1, <1>2 DEF Rest, Kept

\* Step by step, the stealth calls keep what they are done with: reading the nodes,
LEMMA Stealth1 ==
    ASSUME NEW p \in Nodes, NEW on \in BOOLEAN, StealthAt(p, on, 1), ReadNodes(p), "lost" \notin noise'
    PROVE  StealthGoes(p, on)
<1> DEFINE b == call[p]
           c == [b EXCEPT !.turn = rows.turn, !.on = TURNNodes]
<1>1. /\ Proper(b) /\ b \in CallTypes /\ b.op = Mode(on) /\ b.k = 1 /\ StAll(b, on) /\ Types
      /\ config # None /\ TURNNodes # {}
  BY StealthHas
<1>2. b.op \notin {"enable", "disable"}
  BY <1>1 DEF Mode
<1>3. Types' /\ Goes(p, c) /\ noise' = noise /\ UNCHANGED <<CallVars, tables, units, file>>
  <2>1. Types'
    BY <1>1, ReadNodesTypes
  <2>2. Goes(p, c) /\ noise' = noise /\ UNCHANGED <<CallVars, tables, units, file>>
    BY <1>1, <1>2, NeverLost DEF ReadNodes, Stated, Fine, TURNNodes
  <2> QED
    BY <2>1, <2>2
<1>4. /\ c \in CallTypes /\ c.op = Mode(on) /\ c.k = 1 /\ c.todo = b.todo /\ c.sec = b.sec
      /\ c.turn = rows.turn /\ c.on = TURNNodes
  <2>1. TURNNodes \in SUBSET Nodes /\ rows.turn \in Blocks
    BY <1>1 DEF TURNNodes, Types, TableTypes
  <2> QED
    BY <1>1, <2>1 DEF CallTypes
<1> HIDE DEF c
<1>5. Proper(c)
  <2>1. Program[b.op][1] \notin OverTURN
    BY <1>1, StealthProgram DEF OverTURN, Mode
  <2>2. b.op # "none"
    BY <1>1 DEF Mode
  <2> QED
    BY <1>1, <1>4, <2>1, <2>2, ProperWith
<1>6. UNCHANGED <<config, stealth, rows, turnDNS, stealthDNS, sfu, turn, gateway, file>>
  BY <1>3 DEF tables, units
<1>7. PICK d : Progress(c, d, Node(p)) /\ (StAll(d, on)' => StealthGoes(p, on))
  <2>1. c.k # LastStep(on)
    BY <1>4 DEF LastStep
  <2> QED
    BY <1>1, <1>3, <1>4, <1>5, <1>6, <2>1, StealthOn
<1>8. /\ AllDone(c, LastStep(on)) = AllDone(b, LastStep(on))
      /\ TurnDone(c, RespawnStep(on)) = TurnDone(b, RespawnStep(on)) /\ TurnDone(c, 3) = TurnDone(b, 3)
  BY <1>1, <1>4, StealthSteps DEF AllDone, TurnDone
<1>9. StFlag(c, on) /\ StDNS(c, on) /\ StTURN(c, on) /\ StGateway(c, on) /\ Kept
  BY <1>1, <1>4, <1>8 DEF StAll, StFlag, StDNS, StTURN, StGateway
<1>10. c.k # FlagStep(on) /\ c.k # 3 /\ c.k # 4 /\ c.k # RespawnStep(on) /\ c.k # LastStep(on)
  BY <1>4, StealthSteps
<1>11. Kept' /\ StFlag(d, on)' /\ StDNS(d, on)' /\ StTURN(d, on)' /\ StGateway(d, on)'
  BY <1>1, <1>3, <1>4, <1>5, <1>6, <1>7, <1>9, <1>10, StealthFrame
<1>12. StCall(d, on)'
  <2>1. d.k = 2 /\ d.sec = c.sec /\ d.turn = c.turn /\ d.on = c.on
    BY <1>1, <1>4, <1>5, <1>7, StealthProgress
  <2>2. ~(d.k > BlocksStep(on)) /\ TURNNodes' = TURNNodes
    BY <1>6, <2>1, StealthSteps DEF TURNNodes
  <2> QED
    BY <1>1, <1>4, <1>6, <2>1, <2>2 DEF StCall, StAll
<1> QED
  BY <1>7, <1>11, <1>12 DEF StAll

\* deleting the stealth records,
LEMMA StealthClears ==
    ASSUME NEW p \in Nodes, NEW on \in BOOLEAN, NEW k, StealthAt(p, on, k), k = IF on THEN 2 ELSE 4,
           ClearStealth(p), "lost" \notin noise'
    PROVE  StealthGoes(p, on)
<1> DEFINE c == call[p]
<1>1. /\ Proper(c) /\ c.op = Mode(on) /\ c.k = k /\ StAll(c, on) /\ Types /\ config # None /\ c.on # {}
  BY StealthHas
<1>2. /\ Types' /\ Goes(p, c) /\ noise' = noise /\ UNCHANGED CallVars /\ UNCHANGED <<config, rows>>
      /\ UNCHANGED <<stealth, turnDNS, sfu, turn, gateway, file>> /\ stealthDNS' = {}
  BY <1>1, ClearStealthTypes, NeverLost DEF ClearStealth, Stated, Fine, units
<1>3. c.k # FlagStep(on) /\ c.k # 1 /\ c.k # RespawnStep(on) /\ c.k # LastStep(on) /\ c.k # BlocksStep(on)
  BY <1>1, StealthSteps
<1>4. PICK d : Progress(c, d, Node(p)) /\ (StAll(d, on)' => StealthGoes(p, on))
  BY <1>1, <1>2, <1>3, StealthOn
<1>5. Kept' /\ StCall(d, on)' /\ StFlag(d, on)' /\ StTURN(d, on)' /\ StGateway(d, on)'
  BY <1>1, <1>2, <1>3, <1>4, StealthFrame DEF StAll
<1>6. StDNS(d, on)'
  <2>1. CASE on
    <3>0. c.k = 2 /\ c.k # 3
      BY <1>1, <2>1
    <3>1. TurnDone(d, 3) = TurnDone(c, 3)
      BY <1>1, <1>4, <3>0, StealthProgress
    <3>2. TurnDone(d, 3) = {}
      BY <1>1, <2>1, <3>1 DEF TurnDone
    <3> QED
      BY <1>2, <2>1, <3>2 DEF StDNS
  <2>2. CASE ~on
    <3>1. d.k = 5
      BY <1>1, <1>4, <2>2, StealthProgress
    <3> QED
      BY <1>2, <2>2, <3>1 DEF StDNS
  <2> QED
    BY <2>1, <2>2
<1> QED
  BY <1>4, <1>5, <1>6 DEF StAll

\* The records of EnableWebRTCStealth; when the first cannot be made, nothing
\* has changed.
LEMMA StealthRecords ==
    ASSUME NEW p \in Nodes, NEW on \in BOOLEAN, StealthAt(p, on, 3), CreateStealthRecords(p),
           "lost" \notin noise'
    PROVE  StealthGoes(p, on)
<1> DEFINE c == call[p]
<1>0. PICK n \in Nodes : n = Node(p) /\ n \in c.todo
  BY NodeOf DEF CreateStealthRecords, StealthAt, Only, Types, OverTURN
<1>1. /\ Proper(c) /\ c \in CallTypes /\ c.op = Mode(on) /\ c.k = 3
      /\ StAll(c, on) /\ Types /\ Idle /\ config # None /\ c.on # {} /\ c.on = TURNNodes
  BY StealthHas
<1>a. on /\ c.op = "stealth_on"
  <2>1. Program[Mode(on)][3] = "stealth_dns"
    BY <1>1 DEF CreateStealthRecords, At, Step
  <2> QED
    BY <1>1, <2>1, StealthProgram DEF Mode
<1>b. FlagStep(on) = 4 /\ RespawnStep(on) = 5 /\ LastStep(on) = 8 /\ BlocksStep(on) = 6
  BY <1>a DEF FlagStep, RespawnStep, LastStep, BlocksStep
<1>2. Types' /\ noise' = noise /\ UNCHANGED <<CallVars, units, file>>
  BY <1>1, CreateStealthRecordsTypes, Unlost DEF CreateStealthRecords, Stated, Fine
<1>3. UNCHANGED <<config, rows>> /\ UNCHANGED <<stealth, turnDNS, sfu, turn, gateway, file>>
  BY <1>2 DEF CreateStealthRecords, tables, units
<1>4. \/ stealthDNS' = stealthDNS \cup {n} /\ Goes(p, c)
      \/ stealthDNS = {} /\ stealthDNS' = stealthDNS /\ Fails(p)
  BY <1>0, Unlost DEF CreateStealthRecords, tables
<1>5. 3 # FlagStep(on) /\ 3 # RespawnStep(on) /\ 3 # LastStep(on) /\ 3 # BlocksStep(on)
  BY <1>b
<1>6. CASE stealthDNS' = stealthDNS \cup {n} /\ Goes(p, c)
  <2>1. PICK d : Progress(c, d, n) /\ (StAll(d, on)' => StealthGoes(p, on))
    BY <1>0, <1>1, <1>2, <1>3, <1>5, <1>6, StealthOn
  <2>2. Kept' /\ StCall(d, on)' /\ StFlag(d, on)' /\ StTURN(d, on)' /\ StGateway(d, on)'
    BY <1>1, <1>2, <1>3, <1>5, <2>1, StealthFrame DEF StAll
  <2>3. TurnDone(d, 3) = TurnDone(c, 3) \cup {n}
    BY <1>1, <2>1, StealthProgress
  <2>4. StDNS(d, on)'
    BY <1>1, <1>6, <1>a, <2>3 DEF StAll, StDNS
  <2> QED
    BY <2>1, <2>2, <2>4 DEF StAll
<1>7. CASE stealthDNS = {} /\ stealthDNS' = stealthDNS /\ Fails(p)
  <2>1. Steps(p, Fail(c)) /\ Fail(c) = NoCall
    BY <1>1, <1>7, <1>a, FailsSteps, StealthOnFails DEF Types
  <2>2. call'[p].op = "none"
    BY <2>1, NoCallFacts DEF Steps
  <2>3. UNCHANGED <<up, restore>>
    BY <1>2 DEF CallVars
  <2>4. Kept' /\ \A m \in Nodes : \A s :
                    (HasTURN(m, s)' <=> HasTURN(m, s)) /\ (HasGateway(m, s)' <=> HasGateway(m, s))
    BY <1>1, <1>2, <1>3, <1>7, <2>3, SameUnits DEF StAll
  <2>5. stealth = FALSE
    <3>1. stealth = (on <=> 3 > FlagStep(on)) /\ ~(3 > FlagStep(on))
      BY <1>1, <1>b DEF StAll, StFlag
    <3> QED
      BY <1>a, <3>1
  <2>6. TurnDone(c, RespawnStep(on)) = {} /\ AllDone(c, LastStep(on)) = {}
    BY <1>1, <1>b DEF AllDone, TurnDone
  <2>7. ASSUME NEW m \in Nodes PROVE HasTURN(m, stealth)' /\ HasGateway(m, stealth)'
    <3>1. /\ HasTURN(m, on <=> m \in TurnDone(c, RespawnStep(on)))
          /\ HasGateway(m, on <=> m \in AllDone(c, LastStep(on)))
      BY <1>1 DEF StAll, StTURN, StGateway
    <3>2. HasTURN(m, FALSE) /\ HasGateway(m, FALSE)
      <4>1. (on <=> m \in TurnDone(c, RespawnStep(on))) = FALSE
            /\ (on <=> m \in AllDone(c, LastStep(on))) = FALSE
        BY <1>a, <2>6
      <4> QED
        BY <3>1, <4>1
    <3>3. HasTURN(m, FALSE)' /\ HasGateway(m, FALSE)' /\ stealth' = FALSE
      BY <1>3, <2>4, <2>5, <3>2
    <3> QED
      BY <3>3
  <2>8. Rest'
    BY <1>1, <1>2, <1>3, <1>7, <2>4, <2>5, <2>7, StealthRests
  <2> QED
    BY <1>1, <1>2, <1>3, <2>2, <2>8 DEF StealthGoes
<1> QED
  BY <1>4, <1>6, <1>7

\* setting the flag,
LEMMA StealthFlags ==
    ASSUME NEW p \in Nodes, NEW on \in BOOLEAN, StealthAt(p, on, FlagStep(on)), SetStealthEnabled(p),
           "lost" \notin noise'
    PROVE  StealthGoes(p, on)
<1> DEFINE c == call[p]
<1>0. FlagStep(on) # 1 /\ FlagStep(on) > 1
  BY StealthSteps
<1>1. /\ Proper(c) /\ c.op = Mode(on) /\ c.k = FlagStep(on) /\ StAll(c, on) /\ Types /\ config # None
      /\ c.on # {}
  BY <1>0, StealthHas
<1>2. Wanted(p) <=> on
  BY <1>1 DEF Wanted, Mode
<1>3. /\ Types' /\ Goes(p, c) /\ noise' = noise /\ UNCHANGED CallVars /\ UNCHANGED <<config, rows>>
      /\ UNCHANGED <<stealthDNS, turnDNS, sfu, turn, gateway, file>> /\ stealth' = on
  <2>1. Types'
    BY <1>1, SetStealthEnabledTypes
  <2>2. /\ Goes(p, c) /\ noise' = noise /\ UNCHANGED CallVars /\ UNCHANGED <<config, rows>>
        /\ UNCHANGED <<stealthDNS, turnDNS, sfu, turn, gateway, file>>
        /\ stealth' = (Wanted(p) /\ config # None)
    BY NeverLost DEF SetStealthEnabled, Stated, Fine, units
  <2> QED
    BY <1>1, <1>2, <2>1, <2>2
<1>4. /\ c.k # 1 /\ c.k # RespawnStep(on) /\ c.k # LastStep(on) /\ c.k # BlocksStep(on)
      /\ (on => c.k # 3) /\ (~on => c.k # 4)
  BY <1>1, StealthSteps
<1>5. PICK d : Progress(c, d, Node(p)) /\ (StAll(d, on)' => StealthGoes(p, on))
  BY <1>1, <1>3, <1>4, StealthOn
<1>6. Kept' /\ StCall(d, on)' /\ StDNS(d, on)' /\ StTURN(d, on)' /\ StGateway(d, on)'
  BY <1>1, <1>3, <1>4, <1>5, StealthFrame DEF StAll
<1>7. StFlag(d, on)'
  <2>1. d.k = c.k + 1
    BY <1>1, <1>5, StealthProgress
  <2>2. d.k > FlagStep(on)
    BY <1>1, <2>1, StealthSteps
  <2>3. (on <=> d.k > FlagStep(on)) = on
    BY <2>2
  <2> QED
    BY <1>3, <2>3 DEF StFlag
<1> QED
  BY <1>5, <1>6, <1>7 DEF StAll

\* RespawnTURN, in the mode of the call; EnableWebRTCStealth rolls back when
\* one fails.
LEMMA StealthRespawns ==
    ASSUME NEW p \in Nodes, NEW on \in BOOLEAN, StealthAt(p, on, RespawnStep(on)), Respawn(p),
           noise' \subseteq {"respawn"}
    PROVE  StealthGoes(p, on)
<1> DEFINE c == call[p]
<1>0. PICK n \in Nodes : n = Node(p) /\ n \in c.todo
  BY NodeOf DEF Respawn, StealthAt, Only, Types, OverTURN
<1>1. /\ Proper(c) /\ c \in CallTypes /\ c.op = Mode(on) /\ c.k = RespawnStep(on) /\ StAll(c, on) /\ Types
      /\ config # None /\ c.on # {} /\ c.turn = rows.turn /\ c.on = TURNNodes /\ Idle
  BY StealthHas, StealthSteps
<1>2. Wanted(p) <=> on
  BY <1>1 DEF Wanted, Mode
<1> DEFINE cfg == [sec |-> c.sec, port |-> c.turn[n], stealth |-> Wanted(p)]
<1>3. Types' /\ UNCHANGED <<CallVars, tables, sfu, gateway, file>>
  BY <1>1, RespawnTypes DEF Respawn
<1>4. UNCHANGED <<config, rows>> /\ UNCHANGED <<stealth, turnDNS, stealthDNS, sfu, gateway, file, up, restore>>
  BY <1>3 DEF tables, CallVars
<1>5. \/ noise' = noise /\ turn' = [turn EXCEPT ![n] = cfg] /\ Goes(p, c)
      \/ on /\ "respawn" \in noise' /\ Fails(p)
  <2>1. /\ Note("respawn", TRUE) => "respawn" \in noise'
        /\ ~Note("respawn_off", TRUE)
    BY DEF Note
  <2> QED
    BY <1>0, <1>2, <2>1 DEF Respawn, Fine
<1>6. CASE noise' = noise /\ turn' = [turn EXCEPT ![n] = cfg] /\ Goes(p, c)
  <2>0. /\ c.k # 1 /\ c.k # FlagStep(on) /\ c.k # LastStep(on) /\ c.k # BlocksStep(on)
        /\ (on => c.k # 3) /\ (~on => c.k # 4)
    BY <1>1, StealthSteps
  <2>1. PICK d : Progress(c, d, n) /\ (StAll(d, on)' => StealthGoes(p, on))
    BY <1>0, <1>1, <1>3, <1>4, <1>6, <2>0, StealthOn
  <2>2. Kept' /\ StCall(d, on)' /\ StFlag(d, on)' /\ StDNS(d, on)' /\ StGateway(d, on)'
    BY <1>1, <1>3, <1>4, <1>6, <2>0, <2>1, StealthFrame DEF StAll
  <2>3. TurnDone(d, RespawnStep(on)) = TurnDone(c, RespawnStep(on)) \cup {n}
    BY <1>1, <2>1, StealthProgress
  <2>4. TURNNodes' = TURNNodes /\ n \in TURNNodes /\ turn \in [Nodes -> TURNs]
    <3>1. c.todo \subseteq c.on
      <4>1. Program[c.op][c.k] \in OverTURN /\ c.op # "none"
        BY <1>1, StealthProgram DEF Mode, RespawnStep, OverTURN
      <4> QED
        BY <1>1, <4>1 DEF Proper
    <3> QED
      BY <1>0, <1>1, <1>4, <3>1 DEF TURNNodes, Types, UnitTypes
  <2>5. ASSUME NEW m \in Nodes PROVE HasTURN(m, on <=> m \in TurnDone(d, RespawnStep(on)))'
    <3>1. CASE m # n
      <4>1. HasTURN(m, on <=> m \in TurnDone(c, RespawnStep(on)))
        BY <1>1 DEF StAll, StTURN
      <4>2. turn'[m] = turn[m]
        BY <1>6, <2>4, <3>1
      <4>3. \A s : HasTURN(m, s) => HasTURN(m, s)'
        BY <1>4, <1>6, <2>4, <4>2 DEF HasTURN, TURNBack, TURNFor
      <4>4. (m \in TurnDone(d, RespawnStep(on))) = (m \in TurnDone(c, RespawnStep(on)))
        BY <2>3, <3>1
      <4> QED
        BY <4>1, <4>3, <4>4
    <3>2. CASE m = n
      <4>1. turn'[n] = [sec |-> config, port |-> rows.turn[n], stealth |-> on]
        BY <1>1, <1>2, <1>6, <2>4 DEF StAll, StCall, Wanted
      <4>2. turn'[n] = TURNFor(n, on)'
        BY <1>4, <4>1 DEF TURNFor
      <4>3. HasTURN(n, on)'
        BY <2>4, <4>1, <4>2 DEF HasTURN
      <4>4. (on <=> n \in TurnDone(d, RespawnStep(on))) = on
        BY <2>3
      <4> QED
        BY <3>2, <4>3, <4>4
    <3> QED
      BY <3>1, <3>2
  <2>6. StTURN(d, on)'
    BY <2>5 DEF StTURN
  <2> QED
    BY <2>1, <2>2, <2>6 DEF StAll
<1>7. CASE on /\ "respawn" \in noise' /\ Fails(p)
  <2>1. Steps(p, Fail(c)) /\ Became(c, Fail(c), "rollback", {})
    <3>1. c.op = "stealth_on" /\ c.k = 5
      BY <1>1, <1>7, StealthSteps
    <3> QED
      BY <1>1, <1>7, <3>1, FailsSteps, StealthOnFails DEF Types
  <2>2. call'[p].op = "rollback" /\ call'[p].k = 1
    BY <2>1 DEF Steps, Became
  <2>3. Kept'
    <3>1. TURNNodes' = TURNNodes
      BY <1>4 DEF TURNNodes
    <3> QED
      BY <1>1, <1>4, <3>1 DEF StAll, Kept, TablesServe, HasSFU, SFUFor, Steady, HasFile
  <2>4. AllDone(c, LastStep(on)) = {}
    BY <1>1, StealthSteps DEF AllDone
  <2>5. ASSUME NEW m \in Nodes PROVE HasGateway(m, FALSE)'
    <3>1. HasGateway(m, on <=> m \in AllDone(c, LastStep(on)))
      BY <1>1 DEF StAll, StGateway
    <3>2. HasGateway(m, FALSE)
      BY <1>7, <2>4, <3>1, InMode
    <3> QED
      BY <1>4, <3>2 DEF HasGateway, GatewayBack, GatewayFor
  <2>6. ~(call'[p].k > 1)
    BY <2>2
  <2>7. RollingBack(p)'
    BY <1>7, <2>3, <2>5, <2>6 DEF RollingBack
  <2> QED
    BY <1>1, <1>3, <1>4, <2>2, <2>7 DEF StealthGoes
<1> QED
  BY <1>5, <1>6, <1>7

\* reading the port blocks,
LEMMA StealthBlocks ==
    ASSUME NEW p \in Nodes, NEW on \in BOOLEAN, StealthAt(p, on, BlocksStep(on)), ReadBlocks(p),
           "lost" \notin noise'
    PROVE  StealthGoes(p, on)
<1> DEFINE b == call[p]
           c == [b EXCEPT !.sfu = rows.sfu, !.turn = rows.turn]
<1>0. BlocksStep(on) \in {5, 6} /\ BlocksStep(on) # LastStep(on)
  BY StealthSteps
<1>1. /\ Proper(b) /\ b \in CallTypes /\ b.op = Mode(on) /\ b.k = BlocksStep(on) /\ StAll(b, on) /\ Types
      /\ config # None /\ TURNNodes # {} /\ b.on = TURNNodes /\ b.turn = rows.turn
  <2>1. BlocksStep(on) > 1
    BY <1>0
  <2> QED
    BY <2>1, StealthHas
<1>2. Types' /\ Goes(p, c) /\ noise' = noise /\ UNCHANGED <<CallVars, tables, units, file>>
  <2>1. Types'
    BY <1>1, ReadBlocksTypes
  <2>2. ~Note("lost", TRUE)
    BY DEF Note
  <2>3. Goes(p, c) /\ noise' = noise /\ UNCHANGED <<CallVars, tables, units, file>>
    BY <2>2 DEF ReadBlocks, Stated, Fine
  <2> QED
    BY <2>1, <2>3
<1>3. /\ c \in CallTypes /\ c.op = Mode(on) /\ c.k = BlocksStep(on) /\ c.todo = b.todo /\ c.sec = b.sec
      /\ c.turn = rows.turn /\ c.sfu = rows.sfu /\ c.on = b.on
  <2>1. rows.turn \in Blocks /\ rows.sfu \in Blocks
    BY <1>1 DEF Types, TableTypes
  <2> QED
    BY <1>1, <2>1 DEF CallTypes
<1> HIDE DEF c
<1>4. Proper(c)
  <2>1. b.op # "none"
    BY <1>1 DEF Mode
  <2> QED
    BY <1>1, <1>3, <2>1, ProperWith
<1>5. UNCHANGED <<config, stealth, rows, turnDNS, stealthDNS, sfu, turn, gateway, file>>
  BY <1>2 DEF tables, units
<1>6. PICK d : Progress(c, d, Node(p)) /\ (StAll(d, on)' => StealthGoes(p, on))
  BY <1>0, <1>1, <1>2, <1>3, <1>4, <1>5, StealthOn
<1>7. /\ AllDone(c, LastStep(on)) = AllDone(b, LastStep(on))
      /\ TurnDone(c, RespawnStep(on)) = TurnDone(b, RespawnStep(on)) /\ TurnDone(c, 3) = TurnDone(b, 3)
  BY <1>1, <1>3, StealthSteps DEF AllDone, TurnDone
<1>8. StFlag(c, on) /\ StDNS(c, on) /\ StTURN(c, on) /\ StGateway(c, on) /\ Kept
  BY <1>1, <1>3, <1>7 DEF StAll, StFlag, StDNS, StTURN, StGateway
<1>9. /\ c.k # FlagStep(on) /\ c.k # 3 /\ c.k # 4 /\ c.k # RespawnStep(on) /\ c.k # LastStep(on)
      /\ c.on # {}
  BY <1>1, <1>3, StealthSteps
<1>10. Kept' /\ StFlag(d, on)' /\ StDNS(d, on)' /\ StTURN(d, on)' /\ StGateway(d, on)'
  BY <1>2, <1>3, <1>4, <1>5, <1>6, <1>8, <1>9, StealthFrame
<1>11. StCall(d, on)'
  <2>1. d.sec = c.sec /\ d.turn = c.turn /\ d.on = c.on /\ d.sfu = c.sfu
    BY <1>3, <1>4, <1>6, <1>9, StealthProgress
  <2>2. TURNNodes' = TURNNodes /\ c.sec = config
    BY <1>1, <1>3, <1>5 DEF TURNNodes, StAll, StCall
  <2> QED
    BY <1>1, <1>3, <1>5, <2>1, <2>2 DEF StCall
<1> QED
  BY <1>6, <1>10, <1>11 DEF StAll

\* The state files: those of nodes that are up get the ports of the tables.
LEMMA StealthFiles ==
    ASSUME NEW p \in Nodes, NEW on \in BOOLEAN, StealthAt(p, on, BlocksStep(on) + 1), SaveState(p),
           "lost" \notin noise'
    PROVE  StealthGoes(p, on)
<1> DEFINE c == call[p]
<1>0. PICK n \in Nodes : n = Node(p) /\ n \in c.todo
  BY NodeOf DEF SaveState, StealthAt, Only, Types, OverAll
<1>a. BlocksStep(on) \in {5, 6} /\ BlocksStep(on) + 1 > 1
  BY StealthSteps
<1>1. /\ Proper(c) /\ c \in CallTypes /\ c.op = Mode(on) /\ c.k = BlocksStep(on) + 1 /\ StAll(c, on) /\ Types
      /\ config # None /\ c.on # {} /\ c.turn = rows.turn /\ c.on = TURNNodes
  BY <1>a, StealthHas
<1>2. c.sfu = rows.sfu /\ c.sec = config
  BY <1>a, <1>1 DEF StAll, StCall
<1>3. Types' /\ UNCHANGED <<CallVars, tables, units>>
  BY <1>1, SaveStateTypes DEF SaveState
<1>4. UNCHANGED <<config, rows>> /\ UNCHANGED <<stealth, turnDNS, stealthDNS, sfu, turn, gateway, up, restore>>
  BY <1>3 DEF tables, CallVars, units
<1>5. /\ noise' = noise /\ Goes(p, c)
      /\ file' = [file EXCEPT ![n] = State(p, n)] \/ file' = file
  <2>1. ~Note("lost", TRUE) /\ (\A b : Note("lost", b) => noise' = noise)
    BY DEF Note
  <2> QED
    BY <1>0, <2>1 DEF SaveState, Fine
<1>6. /\ c.k # 1 /\ c.k # FlagStep(on) /\ c.k # LastStep(on) /\ c.k # BlocksStep(on)
      /\ c.k # 3 /\ c.k # 4 /\ c.k # RespawnStep(on)
  BY <1>1, StealthSteps
<1>7. PICK d : Progress(c, d, n) /\ (StAll(d, on)' => StealthGoes(p, on))
  BY <1>0, <1>1, <1>3, <1>4, <1>5, <1>6, StealthOn
<1>8. StCall(d, on)' /\ StFlag(d, on)' /\ StDNS(d, on)' /\ StTURN(d, on)' /\ StGateway(d, on)'
  BY <1>1, <1>3, <1>4, <1>5, <1>6, <1>7, StealthFrame DEF StAll
<1>9. ASSUME NEW m \in Nodes PROVE HasFile(m)'
  <2>1. HasFile(m) /\ file \in [Nodes -> Files]
    BY <1>1 DEF StAll, Kept, Types, UnitTypes
  <2>2. CASE file'[m] = file[m]
    BY <1>4, <2>1, <2>2 DEF HasFile
  <2>3. CASE m = n /\ file' = [file EXCEPT ![n] = State(p, n)]
    <3>1. file'[m] = State(p, m)
      BY <2>1, <2>3
    <3> QED
      BY <1>1, <1>2, <1>4, <3>1 DEF HasFile, State
  <2> QED
    BY <1>5, <2>1, <2>2, <2>3
<1>10. Kept'
  <2>1. TURNNodes' = TURNNodes
    BY <1>4 DEF TURNNodes
  <2>2. TablesServe' /\ \A m \in Nodes : HasSFU(m)'
    BY <1>1, <1>4, <2>1 DEF StAll, Kept, TablesServe, HasSFU, SFUFor, Steady
  <2> QED
    BY <1>9, <2>2 DEF Kept
<1> QED
  BY <1>7, <1>8, <1>10 DEF StAll

\* and restarting the gateways.
LEMMA StealthGateways ==
    ASSUME NEW p \in Nodes, NEW on \in BOOLEAN, StealthAt(p, on, LastStep(on)), RestartGateway(p),
           "lost" \notin noise'
    PROVE  StealthGoes(p, on)
<1> DEFINE c == call[p]
<1>0. PICK n \in Nodes : n = Node(p) /\ n \in c.todo
  BY NodeOf DEF RestartGateway, StealthAt, Only, Types, OverAll
<1>a. LastStep(on) > 1 /\ LastStep(on) > BlocksStep(on) /\ LastStep(on) > FlagStep(on)
      /\ LastStep(on) > RespawnStep(on) /\ LastStep(on) > 4 /\ LastStep(on) \in Nat
  BY StealthSteps
<1>1. /\ Proper(c) /\ c \in CallTypes /\ c.op = Mode(on) /\ c.k = LastStep(on) /\ StAll(c, on) /\ Types
      /\ config # None /\ c.on # {} /\ c.turn = rows.turn /\ c.on = TURNNodes /\ Idle
  BY <1>a, StealthHas
<1>2. c.sfu = rows.sfu /\ c.sec = config /\ (Wanted(p) <=> on)
  BY <1>a, <1>1 DEF StAll, StCall, Wanted, Mode
<1>3. Types' /\ UNCHANGED <<CallVars, tables, sfu, turn, file>>
  BY <1>1, RestartGatewayTypes DEF RestartGateway
<1>4. UNCHANGED <<config, rows>> /\ UNCHANGED <<stealth, turnDNS, stealthDNS, sfu, turn, file, up, restore>>
  BY <1>3 DEF tables, CallVars
<1>5. /\ noise' = noise /\ Goes(p, c)
      /\ \/ gateway' = [gateway EXCEPT ![n] = Gateway(p, n)]
         \/ n \notin up /\ gateway' = gateway
  <2>1. ~Note("lost", TRUE) /\ (Note("lost", n \in up) => noise' = noise /\ n \notin up)
    BY DEF Note
  <2> QED
    BY <1>0, <2>1 DEF RestartGateway, Fine
<1>6. ASSUME NEW m \in Nodes, NEW S, S = AllDone(c, LastStep(on)) \cup {n}
      PROVE  HasGateway(m, on <=> m \in S)'
  <2>0. gateway \in [Nodes -> Gateways] /\ Gateway(p, n) = GatewayFor(n, on)
    BY <1>1, <1>2 DEF Types, UnitTypes, Gateway, GatewayFor, Wanted
  <2>1. HasGateway(m, on <=> m \in AllDone(c, LastStep(on)))
    BY <1>1 DEF StAll, StGateway
  <2>2. CASE m = n
    <3>1. (on <=> m \in S) = on
      BY <1>6, <2>2
    <3>2. GatewayBack(n)' <=> n \in up
      BY <1>1, <1>4, WhenIdle DEF GatewayBack
    <3>3. n \in up => gateway'[n] = GatewayFor(n, on)
      BY <1>5, <2>0
    <3>4. HasGateway(n, on)'
      BY <1>4, <3>2, <3>3 DEF HasGateway, GatewayFor
    <3> QED
      BY <2>2, <3>1, <3>4
  <2>3. CASE m # n
    <3>1. (on <=> m \in S) = (on <=> m \in AllDone(c, LastStep(on)))
      BY <1>6, <2>3
    <3>2. gateway'[m] = gateway[m]
      BY <1>5, <2>0, <2>3
    <3>3. \A s : HasGateway(m, s) => HasGateway(m, s)'
      BY <1>4, <3>2 DEF HasGateway, GatewayBack, GatewayFor
    <3> QED
      BY <2>1, <3>1, <3>3
  <2> QED
    BY <2>2, <2>3
<1>7. Steps(p, Proceed(c)) /\ c.op # "none"
  <2>1. c.op # "none"
    BY <1>1 DEF Mode
  <2> QED
    BY <1>1, <1>5, <2>1, GoesSteps DEF Types
<1>8. \/ Progress(c, Proceed(c), n)
      \/ Proceed(c) = NoCall /\ AllDone(c, LastStep(on)) \cup {n} = Nodes
  <2>1. Program[c.op][c.k] \in OverAll
    BY <1>1, StealthProgram DEF OverAll, Mode, LastStep
  <2> QED
    BY <1>0, <1>1, <1>7, <2>1, Advance DEF Node
<1>9. CASE Progress(c, Proceed(c), n)
  <2>1. PICK d : d = Proceed(c)
    OBVIOUS
  <2>2. Progress(c, d, n) /\ call'[p] = d
    BY <1>7, <1>9, <2>1 DEF Steps
  <2>0. /\ c.k # 1 /\ c.k # FlagStep(on) /\ c.k # RespawnStep(on) /\ c.k # BlocksStep(on)
        /\ c.k # 3 /\ c.k # 4
    BY <1>1, StealthSteps
  <2>3. Kept' /\ StCall(d, on)' /\ StFlag(d, on)' /\ StDNS(d, on)' /\ StTURN(d, on)'
    BY <1>1, <1>3, <1>4, <1>5, <2>0, <2>2, StealthFrame DEF StAll
  <2>4. AllDone(d, LastStep(on)) = AllDone(c, LastStep(on)) \cup {n} /\ d.op = Mode(on)
    BY <1>1, <2>2, StealthProgress
  <2>5. StGateway(d, on)'
    BY <1>6, <2>4 DEF StGateway
  <2>6. Turning(p, on)'
    BY <2>2, <2>3, <2>5, TurningIs DEF StAll
  <2> QED
    BY <1>1, <1>3, <1>4, <2>2, <2>4, <2>6 DEF StealthGoes
<1>10. CASE Proceed(c) = NoCall /\ AllDone(c, LastStep(on)) \cup {n} = Nodes
  <2>1. call'[p].op = "none"
    BY <1>7, <1>10, NoCallFacts DEF Steps
  <2>2. stealth = on
    <3>1. stealth = (on <=> LastStep(on) > FlagStep(on))
      BY <1>1 DEF StAll, StFlag
    <3> QED
      BY <1>a, <3>1
  <2>3. stealthDNS = IF on THEN TURNNodes ELSE {}
    <3>1. TurnDone(c, 3) = c.on /\ ~(c.k <= 4)
      BY <1>a, <1>1 DEF TurnDone
    <3> QED
      BY <1>1, <3>1 DEF StAll, StDNS
  <2>4. TURNNodes' = TURNNodes /\ Kept'
    <3>1. TURNNodes' = TURNNodes
      BY <1>4 DEF TURNNodes
    <3> QED
      BY <1>1, <1>4, <3>1 DEF StAll, Kept, TablesServe, HasSFU, SFUFor, Steady, HasFile
  <2>5. TurnDone(c, RespawnStep(on)) = TURNNodes
    BY <1>a, <1>1 DEF TurnDone
  <2>6. ASSUME NEW m \in Nodes PROVE HasTURN(m, on)'
    <3>1. HasTURN(m, on <=> m \in TURNNodes)
      BY <1>1, <2>5 DEF StAll, StTURN
    <3>2. CASE m \in TURNNodes
      <4>1. (on <=> m \in TURNNodes) = on
        BY <3>2
      <4>2. HasTURN(m, on)
        BY <3>1, <4>1
      <4> QED
        BY <1>4, <1>5, <2>4, <4>2 DEF HasTURN, TURNBack, TURNFor
    <3>3. CASE m \notin TURNNodes
      BY <1>4, <1>5, <2>4, <3>1, <3>3 DEF HasTURN
    <3> QED
      BY <3>2, <3>3
  <2>7. ASSUME NEW m \in Nodes PROVE HasTURN(m, stealth)' /\ HasGateway(m, stealth)'
    <3>1. HasGateway(m, on <=> m \in Nodes)'
      BY <1>6, <1>10
    <3>2. (on <=> m \in Nodes) = on /\ stealth' = on
      BY <1>4, <2>2
    <3>3. HasGateway(m, on)' /\ HasTURN(m, on)'
      BY <2>6, <3>1, <3>2
    <3> QED
      BY <3>2, <3>3
  <2>8. stealthDNS' = IF stealth' THEN TURNNodes' ELSE {}
    BY <1>4, <2>2, <2>3, <2>4
  <2>9. Rest'
    BY <1>1, <1>3, <2>4, <2>7, <2>8, StealthRests
  <2> QED
    BY <1>1, <1>3, <1>4, <2>1, <2>9 DEF StealthGoes
<1> QED
  BY <1>8, <1>9, <1>10

\* Every step of an undisturbed stealth call leaves the system as the invariant
\* says.
LEMMA StealthStep ==
    ASSUME NEW p \in Nodes, NEW on \in BOOLEAN, NEW k, StealthAt(p, on, k), Call(p),
           noise' \subseteq {"respawn"}
    PROVE  StealthGoes(p, on)
<1>0. "lost" \notin noise'
  OBVIOUS
<1>1. k \in 1 .. LastStep(on) /\ Step(p) = Program[Mode(on)][k]
  BY StealthHas DEF Step
<1>2. ASSUME on PROVE StealthGoes(p, on)
  <2>0. /\ Mode(on) = "stealth_on" /\ FlagStep(on) = 4 /\ RespawnStep(on) = 5 /\ BlocksStep(on) = 6
        /\ LastStep(on) = 8 /\ BlocksStep(on) + 1 = 7 /\ (IF on THEN 2 ELSE 4) = 2
    BY <1>2 DEF Mode, FlagStep, RespawnStep, BlocksStep, LastStep
  <2>1. k \in {1, 2, 3, 4, 5, 6, 7, 8}
    BY <1>1, <2>0
  <2>2. CASE k = 1
    BY <1>0, <1>1, <2>0, <2>2, StealthProgram, ActionOf, Stealth1
  <2>3. CASE k = 2
    BY <1>0, <1>1, <2>0, <2>3, StealthProgram, ActionOf, StealthClears
  <2>4. CASE k = 3
    BY <1>0, <1>1, <2>0, <2>4, StealthProgram, ActionOf, StealthRecords
  <2>5. CASE k = 4
    BY <1>0, <1>1, <2>0, <2>5, StealthProgram, ActionOf, StealthFlags
  <2>6. CASE k = 5
    BY <1>0, <1>1, <2>0, <2>6, StealthProgram, ActionOf, StealthRespawns
  <2>7. CASE k = 6
    BY <1>0, <1>1, <2>0, <2>7, StealthProgram, ActionOf, StealthBlocks
  <2>8. CASE k = 7
    BY <1>0, <1>1, <2>0, <2>8, StealthProgram, ActionOf, StealthFiles
  <2>9. CASE k = 8
    BY <1>0, <1>1, <2>0, <2>9, StealthProgram, ActionOf, StealthGateways
  <2> QED
    BY <2>1, <2>2, <2>3, <2>4, <2>5, <2>6, <2>7, <2>8, <2>9
<1>3. ASSUME ~on PROVE StealthGoes(p, on)
  <2>0. /\ Mode(on) = "stealth_off" /\ FlagStep(on) = 2 /\ RespawnStep(on) = 3 /\ BlocksStep(on) = 5
        /\ LastStep(on) = 7 /\ BlocksStep(on) + 1 = 6 /\ (IF on THEN 2 ELSE 4) = 4
    BY <1>3 DEF Mode, FlagStep, RespawnStep, BlocksStep, LastStep
  <2>1. k \in {1, 2, 3, 4, 5, 6, 7}
    BY <1>1, <2>0
  <2>2. CASE k = 1
    BY <1>0, <1>1, <2>0, <2>2, StealthProgram, ActionOf, Stealth1
  <2>3. CASE k = 2
    BY <1>0, <1>1, <2>0, <2>3, StealthProgram, ActionOf, StealthFlags
  <2>4. CASE k = 3
    BY <1>0, <1>1, <2>0, <2>4, StealthProgram, ActionOf, StealthRespawns
  <2>5. CASE k = 4
    BY <1>0, <1>1, <2>0, <2>5, StealthProgram, ActionOf, StealthClears
  <2>6. CASE k = 5
    BY <1>0, <1>1, <2>0, <2>6, StealthProgram, ActionOf, StealthBlocks
  <2>7. CASE k = 6
    BY <1>0, <1>1, <2>0, <2>7, StealthProgram, ActionOf, StealthFiles
  <2>8. CASE k = 7
    BY <1>0, <1>1, <2>0, <2>8, StealthProgram, ActionOf, StealthGateways
  <2> QED
    BY <2>1, <2>2, <2>3, <2>4, <2>5, <2>6, <2>7, <2>8
<1> QED
  BY <1>2, <1>3

-----------------------------------------------------------------------------
(* The rollback of EnableWebRTCStealth, and a step of any call. *)

RollbackAt(p, k) == Only(p) /\ call[p].op = "rollback" /\ call[p].k = k /\ RollingBack(p)

RollbackGoes(p) ==
    /\ UNCHANGED CallVars /\ UNCHANGED config /\ Types' /\ config # None
    /\ \/ call'[p].op = "rollback" /\ RollingBack(p)'
       \/ call'[p].op = "none" /\ Rest'

\* What is known at a step of the rollback.
LEMMA RollbackHas ==
    ASSUME NEW p \in Nodes, NEW k, RollbackAt(p, k)
    PROVE  /\ Proper(call[p]) /\ call[p].op = "rollback" /\ call[p].k = k /\ Types /\ Idle
           /\ k \in {1, 2} /\ config # None
<1>1. Types /\ Proper(call[p]) /\ Idle /\ call[p].op = "rollback" /\ call[p].k = k
  BY DEF RollbackAt, Only, Types, TaskTypes
<1>2. call[p].k \in 1 .. 2
  BY <1>1, Lengths DEF Proper
<1> QED
  BY <1>1, <1>2 DEF RollbackAt, RollingBack, Kept, TablesServe

\* The rollback takes back the flag,
LEMMA Rollback1 ==
    ASSUME NEW p \in Nodes, RollbackAt(p, 1), SetStealthEnabled(p), "lost" \notin noise'
    PROVE  RollbackGoes(p)
<1> DEFINE c == call[p]
<1>1. Proper(c) /\ c.op = "rollback" /\ c.k = 1 /\ Types /\ Idle /\ config # None /\ ~Wanted(p)
  BY RollbackHas DEF Wanted
<1>2. /\ Types' /\ Goes(p, c) /\ noise' = noise /\ ~stealth' /\ UNCHANGED CallVars
      /\ UNCHANGED <<config, rows, turnDNS, stealthDNS, sfu, turn, gateway, file>>
  BY <1>1, SetStealthEnabledTypes, NeverLost DEF SetStealthEnabled, Stated, Fine, units
<1>3. UNCHANGED <<up, restore>>
  BY <1>2 DEF CallVars
<1>4. Steps(p, Proceed(c)) /\ Proceed(c).op = "rollback"
  <2>1. c.k # Len(Program[c.op])
    BY <1>1, Lengths
  <2>2. Progress(c, Proceed(c), Node(p))
    BY <1>1, <2>1, Advance DEF Node
  <2> QED
    BY <1>1, <1>2, <2>2, GoesSteps DEF Types, Progress
<1>5. Kept'
  <2>1. TURNNodes' = TURNNodes
    BY <1>2 DEF TURNNodes
  <2> QED
    BY <1>2, <1>3, <2>1 DEF RollbackAt, RollingBack, Kept, TablesServe, HasSFU, SFUFor, Steady, HasFile
<1>6. \A n \in Nodes : HasGateway(n, FALSE)'
  BY <1>2, <1>3 DEF RollbackAt, RollingBack, HasGateway, GatewayBack, GatewayFor
<1>7. RollingBack(p)'
  BY <1>2, <1>5, <1>6 DEF RollbackAt, RollingBack
<1> QED
  BY <1>1, <1>2, <1>4, <1>7 DEF RollbackGoes, Steps

\* and the stealth records.
LEMMA Rollback2 ==
    ASSUME NEW p \in Nodes, RollbackAt(p, 2), ClearStealth(p), "lost" \notin noise'
    PROVE  RollbackGoes(p)
<1> DEFINE c == call[p]
<1>1. Proper(c) /\ c.op = "rollback" /\ c.k = 2 /\ Types /\ Idle /\ config # None
  BY RollbackHas
<1>2. /\ Types' /\ Goes(p, c) /\ noise' = noise /\ stealthDNS' = {} /\ UNCHANGED CallVars
      /\ UNCHANGED <<config, stealth, rows, turnDNS, sfu, turn, gateway, file>>
  BY <1>1, ClearStealthTypes, NeverLost DEF ClearStealth, Stated, Fine, units
<1>3. UNCHANGED <<up, restore>>
  BY <1>2 DEF CallVars
<1>4. Steps(p, Proceed(c)) /\ Proceed(c) = NoCall
  <2>1. c.k = Len(Program[c.op])
    BY <1>1, Lengths
  <2>2. Proceed(c) = NoCall \/ Progress(c, Proceed(c), Node(p))
    BY <1>1, Advance DEF Node
  <2>3. ~Progress(c, Proceed(c), Node(p))
    <3> SUFFICES ASSUME Progress(c, Proceed(c), Node(p)) PROVE FALSE
      OBVIOUS
    <3>1. Proceed(c).k \in 1 .. 2 /\ Proceed(c).k \in {2, 3, 4}
      BY <1>1, <2>1, NoCallFacts DEF Progress, Proper
    <3>2. Program["rollback"][2] \in OverAll \cup OverTURN
      BY <1>1, <3>1 DEF Progress
    <3> QED
      BY <3>2, RollbackKinds
  <2> QED
    BY <1>1, <1>2, <2>2, <2>3, GoesSteps DEF Types
<1>5. call'[p].op = "none"
  BY <1>4, NoCallFacts DEF Steps
<1>6. stealth' = FALSE
  BY <1>1, <1>2 DEF RollbackAt, RollingBack, Types, TableTypes
<1>7. Kept'
  <2>1. TURNNodes' = TURNNodes
    BY <1>2 DEF TURNNodes
  <2> QED
    BY <1>2, <1>3, <2>1 DEF RollbackAt, RollingBack, Kept, TablesServe, HasSFU, SFUFor, Steady, HasFile
<1>8. \A n \in Nodes : HasGateway(n, FALSE)' /\ HasTURN(n, FALSE)'
  BY <1>2, <1>3 DEF RollbackAt, RollingBack, HasGateway, GatewayBack, GatewayFor, HasTURN
<1>9. \A n \in Nodes : HasTURN(n, stealth)' /\ HasGateway(n, stealth)'
  BY <1>6, <1>8
<1>10. Rest'
  BY <1>1, <1>2, <1>6, <1>7, <1>9, StealthRests
<1> QED
  BY <1>1, <1>2, <1>5, <1>10 DEF RollbackGoes

\* Every step of a rollback that loses nothing leaves the system as the invariant
\* says.
LEMMA RollbackStep ==
    ASSUME NEW p \in Nodes, NEW k, RollbackAt(p, k), Call(p), "lost" \notin noise'
    PROVE  RollbackGoes(p)
<1>1. k \in {1, 2} /\ Step(p) = Program["rollback"][k]
  BY RollbackHas DEF Step
<1> QED
  BY <1>1, UndoProgram, ActionOf, Rollback1, Rollback2

\* What an undisturbed DisableWebRTC is done with is what a healing one is done
\* with.
LEMMA DisablingHeals ==
    ASSUME NEW p \in Nodes, Types, Disabling(p)
    PROVE  HealedDisabling(p)
<1>1. up \subseteq Nodes /\ AllDone(call[p], 2) \subseteq Nodes
  BY DEF Types, TaskTypes, AllDone
<1>2. Plain.sec = None
  BY DEF Plain
<1> QED
  BY <1>1, <1>2 DEF Disabling, HealedDisabling

\* Every step of a call keeps an undisturbed system as the invariant says.
LEMMA CallCalm ==
    ASSUME NEW p \in Nodes, Types, Placed, Alone, Undisturbed, Call(p),
           noise \subseteq {"respawn"}, noise' \subseteq {"respawn"}
    PROVE  Undisturbed'
<1>0. PICK d : Steps(p, d)
  BY CallTyped
<1>1. /\ call'[p] = d /\ call[p].op # "none" /\ UNCHANGED CallVars /\ "lost" \notin noise' /\ Fresh
      /\ call[p].op \in Operations
  BY <1>0, CallTyped DEF Steps, Undisturbed, Types, TaskTypes, CallTypes
<1>2. CASE ~Calling(p)
  <2>1. call[p].op = "enable" /\ call[p].k = 1
    BY <1>1, <1>2 DEF Calling
  <2>2. Insert(p)
    <3>1. "overlap" \notin noise'
      OBVIOUS
    <3> QED
      BY <1>2, <3>1, InsertAlone
  <2> QED
    BY <2>1, <2>2, InsertCalm
<1>3. CASE Calling(p)
  <2>0. Only(p) /\ Doing(p)
    BY <1>3, CallAlone DEF Undisturbed
  <2>1. ASSUME "respawn" \in noise' => config' # None, d.op # "none" => Doing(p)',
               d.op # "enable" \/ d.k # 1, d.op = "none" => Rest'
        PROVE  Undisturbed'
    BY <1>0, <1>1, <2>0, <2>1, CallFrame
  <2>2. CASE call[p].op = "enable"
    <3>1. noise = {} /\ Enabling(p)
      BY <2>0, <2>2 DEF Doing
    <3>2. EnableGoes(p)
      BY <2>0, <2>2, <3>1, EnableStep DEF EnableAt
    <3>3. noise' = {} /\ (d.op = "enable" => d.k # 1 /\ Enabling(p)')
          /\ (d.op = "cleanup" => CleaningUp(p)') /\ d.op \in {"enable", "cleanup", "none"}
          /\ (d.op = "none" => Rest')
      BY <1>1, <3>2 DEF EnableGoes
    <3>4. d.op # "none" => Doing(p)'
      BY <1>1, <3>3 DEF Doing
    <3> QED
      BY <2>1, <3>3, <3>4
  <2>3. CASE call[p].op = "cleanup"
    <3>1. noise = {} /\ CleaningUp(p)
      BY <2>0, <2>3 DEF Doing
    <3>2. CleanupGoes(p)
      BY <1>1, <2>0, <2>3, CleanupStep DEF CleanupAt
    <3>3. noise' = {} /\ (d.op = "cleanup" => CleaningUp(p)') /\ d.op \in {"cleanup", "none"}
          /\ (d.op = "none" => Rest')
      BY <1>1, <3>1, <3>2 DEF CleanupGoes
    <3>4. d.op # "none" => Doing(p)'
      BY <1>1, <3>3 DEF Doing
    <3> QED
      BY <2>1, <3>3, <3>4
  <2>4. CASE call[p].op = "disable"
    <3>1. noise = {} /\ Disabling(p) /\ HealedDisabling(p)
      BY <2>0, <2>4, DisablingHeals DEF Doing
    <3>2. DisableGoes(p)
      BY <1>1, <2>0, <2>4, <3>1, DisableStep DEF DisableAt
    <3>3. noise' = {} /\ (d.op = "disable" => Disabling(p)') /\ d.op \in {"disable", "none"}
          /\ (d.op = "none" => Rest')
      BY <1>1, <3>1, <3>2 DEF DisableGoes
    <3>4. d.op # "none" => Doing(p)'
      BY <1>1, <3>3 DEF Doing
    <3> QED
      BY <2>1, <3>3, <3>4
  <2>5. CASE call[p].op = "rollback"
    <3>1. RollingBack(p)
      BY <2>0, <2>5 DEF Doing
    <3>2. RollbackGoes(p)
      BY <1>1, <2>0, <2>5, <3>1, RollbackStep DEF RollbackAt
    <3>3. config' # None /\ (d.op = "rollback" => RollingBack(p)') /\ d.op \in {"rollback", "none"}
          /\ (d.op = "none" => Rest')
      BY <1>1, <3>2 DEF RollbackGoes
    <3>4. d.op # "none" => Doing(p)'
      BY <1>1, <3>3 DEF Doing
    <3> QED
      BY <2>1, <3>3, <3>4
  <2>6. CASE call[p].op = "stealth_on"
    <3>1. Turning(p, TRUE) /\ Mode(TRUE) = "stealth_on"
      BY <2>0, <2>6 DEF Doing, Mode
    <3>2. StealthAt(p, TRUE, call[p].k)
      BY <2>0, <2>6, <3>1 DEF StealthAt
    <3>a. StealthGoes(p, TRUE)
      BY <3>2, StealthStep
    <3>3. /\ config' # None /\ (d.op = "stealth_on" => Turning(p, TRUE)')
          /\ (d.op = "rollback" => RollingBack(p)')
          /\ d.op \in {"rollback", "stealth_on", "none"} /\ (d.op = "none" => Rest')
      BY <1>1, <3>1, <3>a DEF StealthGoes
    <3>4. d.op # "none" => Doing(p)'
      BY <1>1, <3>3 DEF Doing
    <3> QED
      BY <2>1, <3>3, <3>4
  <2>7. CASE call[p].op = "stealth_off"
    <3>1. Turning(p, FALSE) /\ Mode(FALSE) = "stealth_off"
      BY <2>0, <2>7 DEF Doing, Mode
    <3>2. StealthAt(p, FALSE, call[p].k)
      BY <2>0, <2>7, <3>1 DEF StealthAt
    <3>a. StealthGoes(p, FALSE)
      BY <3>2, StealthStep
    <3>3. /\ config' # None /\ (d.op = "stealth_off" => Turning(p, FALSE)')
          /\ (d.op = "rollback" => RollingBack(p)')
          /\ d.op \in {"rollback", "stealth_off", "none"} /\ (d.op = "none" => Rest')
      BY <1>1, <3>1, <3>a DEF StealthGoes
    <3>4. d.op # "none" => Doing(p)'
      BY <1>1, <3>3 DEF Doing
    <3> QED
      BY <2>1, <3>3, <3>4
  <2> QED
    BY <1>1, <2>2, <2>3, <2>4, <2>5, <2>6, <2>7 DEF Operations
<1> QED
  BY <1>2, <1>3

-----------------------------------------------------------------------------
(* Crashes. *)

\* Node n is gone, perhaps with its units.
Vanished(n) ==
    /\ UNCHANGED <<config, stealth, rows, turnDNS, stealthDNS>> /\ UNCHANGED <<file, noise, call>>
    /\ n \notin up' /\ up' \subseteq up /\ restore'[n].pc = "idle"
    /\ \A m \in Nodes : /\ sfu'[m] = sfu[m] \/ (m = n /\ sfu'[m] = NoSFU)
                        /\ turn'[m] = turn[m] \/ (m = n /\ turn'[m] = NoTURN)
                        /\ gateway'[m] = gateway[m] \/ (m = n /\ gateway'[m] = Down)
                        /\ m # n => restore'[m] = restore[m] /\ (m \in up' <=> m \in up)

\* A crash without a call on the node only takes the node's services away,
LEMMA CrashVanishes ==
    ASSUME NEW n \in Nodes, Types, Crash(n), "crash" \notin noise'
    PROVE  Vanished(n)
<1>1. call[n] = NoCall /\ noise' = noise
  BY DEF Crash, Note
<1>2. call' = call
  BY <1>1 DEF Crash, Types, TaskTypes
<1>3. restore'[n].pc = "idle" /\ \A m \in Nodes \ {n} : restore'[m] = restore[m]
  BY DEF Crash, Types, TaskTypes, NoRestore
<1>4. up' = up \ {n}
  BY DEF Crash
<1>5. /\ UNCHANGED <<config, stealth, rows, turnDNS, stealthDNS>> /\ file' = file
      /\ sfu' = sfu \/ sfu' = [sfu EXCEPT ![n] = NoSFU]
      /\ turn' = turn \/ turn' = [turn EXCEPT ![n] = NoTURN]
      /\ gateway' = gateway \/ gateway' = [gateway EXCEPT ![n] = Down]
  BY DEF Crash, units, tables
<1>6. sfu \in [Nodes -> SFUs] /\ turn \in [Nodes -> TURNs] /\ gateway \in [Nodes -> Gateways]
  BY DEF Types, UnitTypes
<1> QED
  BY <1>1, <1>2, <1>3, <1>4, <1>5, <1>6 DEF Vanished

\* which what holds of the nodes allows for,
LEMMA VanishedKeeps ==
    ASSUME NEW n \in Nodes, Vanished(n), NEW m \in Nodes
    PROVE  /\ HasSFU(m) => HasSFU(m)'
           /\ \A s : (HasTURN(m, s) => HasTURN(m, s)') /\ (HasGateway(m, s) => HasGateway(m, s)')
           /\ HasFile(m) => HasFile(m)'
           /\ Forgets(m) => Forgets(m)'
           /\ Reads(m) => Reads(m)'
<1>0. /\ UNCHANGED <<config, stealth, rows>> /\ UNCHANGED <<file, noise>> /\ TURNNodes' = TURNNodes
      /\ SFUFor(m)' = SFUFor(m)
      /\ \A s : TURNFor(m, s)' = TURNFor(m, s) /\ GatewayFor(m, s)' = GatewayFor(m, s)
  BY DEF Vanished, TURNNodes, SFUFor, TURNFor, GatewayFor
<1>1. HasFile(m) => HasFile(m)'
  BY <1>0 DEF HasFile
<1>2. CASE m = n
  <2>1. /\ ~Steady(m)' /\ ~TURNBack(m)' /\ ~GatewayBack(m)' /\ restore'[m].pc = "idle"
        /\ sfu'[m] \in {sfu[m], NoSFU} /\ turn'[m] \in {turn[m], NoTURN} /\ gateway'[m] \in {gateway[m], Down}
    BY <1>2 DEF Vanished, Steady, TURNBack, GatewayBack
  <2>2. HasSFU(m) => HasSFU(m)'
    BY <1>0, <2>1 DEF HasSFU
  <2>3. ASSUME NEW s PROVE HasTURN(m, s) => HasTURN(m, s)'
    <3>1. NoTURN.sec = None
      BY DEF NoTURN
    <3>2. CASE "respawn" \in noise
      BY <1>0, <2>1, <3>1, <3>2 DEF HasTURN
    <3>3. CASE "respawn" \notin noise
      BY <1>0, <2>1, <3>3 DEF HasTURN
    <3> QED
      BY <3>2, <3>3
  <2>4. \A s : HasGateway(m, s)'
    BY <2>1 DEF HasGateway
  <2>5. Forgets(m) => Forgets(m)'
    BY <1>0, <2>1 DEF Forgets
  <2>6. Reads(m)'
    BY <2>1 DEF Reads
  <2> QED
    BY <1>1, <2>2, <2>3, <2>4, <2>5, <2>6
<1>3. CASE m # n
  <2>1. /\ Steady(m)' = Steady(m) /\ TURNBack(m)' = TURNBack(m) /\ GatewayBack(m)' = GatewayBack(m)
        /\ restore'[m] = restore[m] /\ sfu'[m] = sfu[m] /\ turn'[m] = turn[m] /\ gateway'[m] = gateway[m]
    BY <1>3 DEF Vanished, Steady, TURNBack, GatewayBack
  <2>2. HasSFU(m) => HasSFU(m)'
    BY <1>0, <2>1 DEF HasSFU
  <2>3. \A s : HasTURN(m, s) => HasTURN(m, s)'
    BY <1>0, <2>1 DEF HasTURN
  <2>4. \A s : HasGateway(m, s) => HasGateway(m, s)'
    BY <1>0, <2>1 DEF HasGateway
  <2>5. Forgets(m) => Forgets(m)'
    BY <1>0, <2>1 DEF Forgets
  <2>6. Reads(m) => Reads(m)'
    BY <1>0, <2>1 DEF Reads
  <2> QED
    BY <1>1, <2>2, <2>3, <2>4, <2>5, <2>6
<1> QED
  BY <1>2, <1>3

\* and so does what a call is done with.
LEMMA VanishedDoing ==
    ASSUME NEW n \in Nodes, Types, Vanished(n), NEW p \in Nodes, Calling(p), Doing(p)
    PROVE  Doing(p)'
<1>1. /\ UNCHANGED <<config, stealth, rows, turnDNS, stealthDNS>> /\ UNCHANGED <<file, noise, call>>
      /\ TURNNodes' = TURNNodes /\ up' \subseteq up
      /\ \A m \in Nodes : /\ sfu'[m] \in {sfu[m], NoSFU} /\ turn'[m] \in {turn[m], NoTURN}
                          /\ m \in up' => gateway'[m] = gateway[m]
      /\ \A m \in Nodes : \A s : GatewayFor(m, s)' = GatewayFor(m, s)
  BY DEF Vanished, TURNNodes, GatewayFor
<1>2. Kept => Kept'
  <2>1. TablesServe => TablesServe'
    BY <1>1 DEF TablesServe
  <2> QED
    BY <2>1, VanishedKeeps DEF Kept
<1>3. CASE call[p].op = "enable"
  <2> DEFINE c == call[p]
  <2>0. Enabling(p) /\ noise = {}
    BY <1>3 DEF Doing
  <2>1. /\ config' = c.sec /\ c.sec # None /\ ~stealth' /\ stealthDNS' = {}
        /\ c.sfu = rows'.sfu /\ c.turn = rows'.turn
        /\ \A m \in Nodes : rows'.sfu[m] = IF m \in AllDone(c, 3) THEN c.sec ELSE None
        /\ \A m \in Nodes : rows'.turn[m] = IF m \in TurnDone(c, 5) THEN c.sec ELSE None
        /\ c.k > 4 => Cardinality(c.on) = TurnCount
        /\ turnDNS' = TurnDone(c, 10)
    BY <1>1, <2>0 DEF Enabling
  <2>2. ASSUME NEW m \in Nodes
        PROVE  /\ IF m \in TurnDone(c, 7) THEN HasTURN(m, FALSE)' ELSE turn'[m] = NoTURN
               /\ IF m \in AllDone(c, 8) THEN HasSFU(m)' ELSE sfu'[m] = NoSFU
               /\ m \in AllDone(c, 11) => HasFile(m)'
               /\ c.k <= 10 => Forgets(m)'
               /\ m \in up' => gateway'[m] = IF m \in AllDone(c, 12) THEN GatewayFor(m, FALSE)' ELSE Plain
    <3>1. /\ IF m \in TurnDone(c, 7) THEN HasTURN(m, FALSE) ELSE turn[m] = NoTURN
          /\ IF m \in AllDone(c, 8) THEN HasSFU(m) ELSE sfu[m] = NoSFU
          /\ m \in AllDone(c, 11) => HasFile(m)
          /\ c.k <= 10 => Forgets(m)
          /\ m \in up => gateway[m] = IF m \in AllDone(c, 12) THEN GatewayFor(m, FALSE) ELSE Plain
      BY <2>0 DEF Enabling
    <3>2. /\ HasSFU(m) => HasSFU(m)'
          /\ HasTURN(m, FALSE) => HasTURN(m, FALSE)'
          /\ HasFile(m) => HasFile(m)'
          /\ Forgets(m) => Forgets(m)'
      BY VanishedKeeps
    <3>3. /\ GatewayFor(m, FALSE)' = GatewayFor(m, FALSE) /\ up' \subseteq up
          /\ m \in up' => gateway'[m] = gateway[m]
      BY <1>1
    <3>4. /\ IF m \in TurnDone(c, 7) THEN HasTURN(m, FALSE)' ELSE turn'[m] = NoTURN
          /\ IF m \in AllDone(c, 8) THEN HasSFU(m)' ELSE sfu'[m] = NoSFU
      BY <1>1, <3>1, <3>2
    <3>5. m \in up' => gateway'[m] = IF m \in AllDone(c, 12) THEN GatewayFor(m, FALSE)' ELSE Plain
      BY <3>1, <3>3
    <3> QED
      BY <3>1, <3>2, <3>4, <3>5
  <2>3. Enabling(p)'
    BY <1>1, <2>1, <2>2 DEF Enabling
  <2> QED
    BY <1>1, <1>3, <2>0, <2>3 DEF Doing
<1>4. CASE call[p].op = "cleanup"
  <2>1. CleaningUp(p) => CleaningUp(p)'
    BY <1>1, VanishedKeeps DEF CleaningUp
  <2> QED
    BY <1>1, <1>4, <2>1 DEF Doing
<1>5. CASE call[p].op = "disable"
  <2>1. Disabling(p) => Disabling(p)'
    BY <1>1 DEF Disabling
  <2> QED
    BY <1>1, <1>5, <2>1 DEF Doing
<1>6. CASE call[p].op \in {"stealth_on", "stealth_off"}
  <2>1. ASSUME NEW on \in BOOLEAN, Turning(p, on) PROVE Turning(p, on)'
    <3>1. ASSUME NEW m \in Nodes
          PROVE  /\ HasTURN(m, on <=> m \in TurnDone(call[p], RespawnStep(on)))'
                 /\ HasGateway(m, on <=> m \in AllDone(call[p], LastStep(on)))'
      <4>1. PICK s, t : /\ s = (on <=> m \in TurnDone(call[p], RespawnStep(on)))
                        /\ t = (on <=> m \in AllDone(call[p], LastStep(on)))
        OBVIOUS
      <4>2. HasTURN(m, s) /\ HasGateway(m, t)
        BY <2>1, <4>1 DEF Turning
      <4>3. HasTURN(m, s)' /\ HasGateway(m, t)'
        BY <4>2, VanishedKeeps
      <4> QED
        BY <1>1, <4>1, <4>3
    <3> QED
      BY <1>1, <1>2, <2>1, <3>1 DEF Turning
  <2> QED
    BY <1>1, <1>6, <2>1 DEF Doing
<1>7. CASE call[p].op = "rollback"
  <2>1. RollingBack(p) => RollingBack(p)'
    BY <1>1, <1>2, VanishedKeeps DEF RollingBack
  <2> QED
    BY <1>1, <1>7, <2>1 DEF Doing
<1> QED
  BY <1>3, <1>4, <1>5, <1>6, <1>7 DEF Types, TaskTypes, CallTypes, Operations, Calling

\* Such a crash keeps the system undisturbed.
LEMMA CrashCalm ==
    ASSUME NEW n \in Nodes, Types, Undisturbed, Crash(n), noise' \subseteq {"respawn"}
    PROVE  Undisturbed'
<1>1. Vanished(n)
  <2>1. "crash" \notin noise'
    OBVIOUS
  <2> QED
    BY <2>1, CrashVanishes
<1>2. /\ UNCHANGED <<config, stealth, rows, turnDNS, stealthDNS>> /\ UNCHANGED <<file, noise, call>>
      /\ TURNNodes' = TURNNodes
  BY <1>1 DEF Vanished, TURNNodes
<1>3. ASSUME Rest PROVE Rest'
  <2>1. TablesServe => TablesServe'
    BY <1>2 DEF TablesServe
  <2>2. \A m \in Nodes : HasSFU(m)' /\ HasTURN(m, stealth)' /\ HasGateway(m, stealth)' /\ Reads(m)'
    <3> TAKE m \in Nodes
    <3>1. HasSFU(m) /\ HasTURN(m, stealth) /\ HasGateway(m, stealth) /\ Reads(m)
      BY <1>3 DEF Rest
    <3>2. HasSFU(m)' /\ Reads(m)'
      BY <1>1, <3>1, VanishedKeeps
    <3>3. PICK s : s = stealth
      OBVIOUS
    <3>4. HasTURN(m, s)' /\ HasGateway(m, s)' /\ stealth' = s
      BY <1>1, <1>2, <3>1, <3>3, VanishedKeeps
    <3> QED
      BY <3>2, <3>4
  <2>3. \A m \in Nodes : (HasFile(m) => HasFile(m)') /\ (Forgets(m) => Forgets(m)')
    BY <1>1, VanishedKeeps
  <2> QED
    BY <1>2, <1>3, <2>1, <2>2, <2>3 DEF Rest
<1>4. \A p \in Nodes : Calling(p)' <=> Calling(p)
  BY <1>2 DEF Calling
<1>5. Fresh'
  BY <1>2 DEF Fresh, Undisturbed
<1> QED
  BY <1>1, <1>2, <1>3, <1>4, <1>5, VanishedDoing DEF Undisturbed

-----------------------------------------------------------------------------
(* Restarts and restores. *)

\* Node n restores; the other nodes are as they were.
Restored(n) ==
    /\ UNCHANGED <<config, stealth, rows, turnDNS, stealthDNS>> /\ UNCHANGED <<noise, call>>
    /\ \A m \in Nodes \ {n} :
          /\ sfu'[m] = sfu[m] /\ turn'[m] = turn[m] /\ gateway'[m] = gateway[m] /\ file'[m] = file[m]
          /\ restore'[m] = restore[m] /\ (m \in up' <=> m \in up)

\* What Rest says of a node.
RestNode(n) ==
    /\ config = None => Forgets(n)
    /\ config # None => HasFile(n)
    /\ HasSFU(n) /\ HasTURN(n, stealth) /\ HasGateway(n, stealth) /\ Reads(n)

\* A restore that leaves its node as the tables say keeps the system at rest,
LEMMA RestoredRests ==
    ASSUME NEW n \in Nodes, Rest, Restored(n), RestNode(n)'
    PROVE  Rest'
<1>0. /\ UNCHANGED <<config, stealth, rows, turnDNS, stealthDNS>> /\ UNCHANGED <<noise, call>>
      /\ TURNNodes' = TURNNodes
  BY DEF Restored, TURNNodes
<1>1. ASSUME NEW m \in Nodes, m # n PROVE RestNode(m)'
  <2>1. /\ sfu'[m] = sfu[m] /\ turn'[m] = turn[m] /\ gateway'[m] = gateway[m] /\ file'[m] = file[m]
        /\ restore'[m] = restore[m] /\ (m \in up' <=> m \in up)
    BY <1>1 DEF Restored
  <2>2. /\ HasSFU(m)' <=> HasSFU(m)
        /\ HasFile(m)' <=> HasFile(m)
        /\ Forgets(m)' <=> Forgets(m)
        /\ HasGateway(m, stealth)' <=> HasGateway(m, stealth)
    BY <1>0, <2>1 DEF HasSFU, Steady, SFUFor, HasFile, Forgets, GatewayBack, HasGateway, GatewayFor
  <2>3. HasTURN(m, stealth)' <=> HasTURN(m, stealth)
    BY <1>0, <2>1 DEF HasTURN, TURNBack, TURNFor
  <2>4. Reads(m)' <=> Reads(m)
    BY <1>0, <2>1 DEF Reads
  <2> QED
    BY <1>0, <2>2, <2>3, <2>4 DEF RestNode, Rest
<1>2. \A m \in Nodes : RestNode(m)'
  BY <1>1
<1>3. TablesServe => TablesServe'
  BY <1>0 DEF TablesServe
<1> QED
  BY <1>0, <1>2, <1>3 DEF Rest, RestNode

\* and undisturbed, for no call is under way.
LEMMA RestCalm ==
    ASSUME NEW n \in Nodes, Undisturbed, Restored(n), \A m \in Nodes : ~Calling(m), Rest => Rest'
    PROVE  Undisturbed'
<1>1. UNCHANGED <<config, call, noise>>
  BY DEF Restored
<1>2. Fresh' /\ \A m \in Nodes : ~Calling(m)'
  BY <1>1 DEF Fresh, Calling, Undisturbed
<1> QED
  BY <1>1, <1>2 DEF Undisturbed

\* A node restarts while nothing runs.
LEMMA RestartIs ==
    ASSUME NEW n \in Nodes, Types, Placed, Restart(n), "overlap" \notin noise'
    PROVE  /\ Restored(n) /\ (\A m \in Nodes : ~Calling(m)) /\ n \notin up
           /\ UNCHANGED <<sfu, turn, gateway, file>>
           /\ restore'[n].st = file[n] /\ restore'[n].pc \in {"resolve", "tables"}
           /\ restore'[n].pc = "resolve" <=> file[n].here
<1>1. ~Overlap(n) /\ noise' = noise
  BY DEF Restart, Note
<1>2. call[n] = NoCall /\ ~Calling(n) /\ n \notin up
  BY CallingIs DEF Placed, Restart
<1>3. \A m \in Nodes : ~Calling(m)
  BY <1>1, <1>2, OverlapIs
<1>4. PICK r : r = [restore[n] EXCEPT !.pc = IF file[n].here THEN "resolve" ELSE "tables", !.st = file[n]]
  OBVIOUS
<1>5. restore' = [restore EXCEPT ![n] = r] /\ restore[n] \in RestoreTypes
  BY <1>4 DEF Restart, Types, TaskTypes, RestoreTypes
<1>6. /\ restore'[n] = r /\ r.st = file[n] /\ (r.pc = "resolve" <=> file[n].here)
      /\ r.pc \in {"resolve", "tables"} /\ \A m \in Nodes \ {n} : restore'[m] = restore[m]
  BY <1>4, <1>5 DEF Types, TaskTypes, RestoreTypes
<1>7. /\ UNCHANGED <<config, stealth, rows, turnDNS, stealthDNS>>
      /\ UNCHANGED <<sfu, turn, gateway, file, call>> /\ up' = up \cup {n}
  BY DEF Restart, tables, units
<1>8. Restored(n)
  BY <1>1, <1>6, <1>7 DEF Restored
<1> QED
  BY <1>2, <1>3, <1>6, <1>7, <1>8

\* A restart begins a restore of a node that the tables describe,
LEMMA RestartCalm ==
    ASSUME NEW n \in Nodes, Types, Placed, Undisturbed, Restart(n), noise' \subseteq {"respawn"}
    PROVE  Undisturbed'
<1>1. /\ Restored(n) /\ (\A m \in Nodes : ~Calling(m)) /\ n \notin up
      /\ UNCHANGED <<sfu, turn, gateway, file>>
      /\ restore'[n].st = file[n] /\ restore'[n].pc \in {"resolve", "tables"}
      /\ restore'[n].pc = "resolve" <=> file[n].here
  <2>1. "overlap" \notin noise'
    OBVIOUS
  <2> QED
    BY <2>1, RestartIs
<1>2. UNCHANGED <<config, stealth, rows, noise>>
  BY <1>1 DEF Restored
<1>3. ASSUME Rest PROVE RestNode(n)'
  <2>1. /\ ~Steady(n) /\ ~Steady(n)' /\ ~TURNBack(n) /\ ~TURNBack(n)' /\ ~GatewayBack(n)'
        /\ TURNNodes' = TURNNodes
    BY <1>1, <1>2 DEF Steady, TURNBack, GatewayBack, TURNNodes
  <2>2. HasSFU(n)' /\ HasGateway(n, stealth)'
    BY <1>1, <1>2, <1>3, <2>1 DEF Rest, HasSFU, SFUFor, HasGateway
  <2>3. HasTURN(n, stealth)'
    BY <1>1, <1>2, <1>3, <2>1 DEF Rest, HasTURN, TURNFor
  <2>4. Reads(n)'
    BY <1>1 DEF Reads
  <2>5. (config' = None => Forgets(n)') /\ (config' # None => HasFile(n)')
    BY <1>1, <1>2, <1>3, <2>1 DEF Rest, Forgets, HasFile
  <2> QED
    BY <2>2, <2>3, <2>4, <2>5 DEF RestNode
<1> QED
  BY <1>1, <1>3, RestoredRests, RestCalm

\* What a restoring node has, when the system rests.
LEMMA RestHas ==
    ASSUME NEW n \in Nodes, Types, Rest
    PROVE  /\ Reads(n) /\ HasSFU(n) /\ HasTURN(n, stealth) /\ HasGateway(n, stealth)
           /\ (config = None => /\ rows = NoRows /\ ~stealth /\ stealth = FALSE /\ Forgets(n)
                                /\ rows.sfu[n] = None /\ rows.turn[n] = None)
           /\ (config # None => HasFile(n) /\ rows.sfu[n] # None)
           /\ restore[n] \in RestoreTypes /\ file[n] \in Files /\ turn[n] \in TURNs /\ sfu[n] \in SFUs
           /\ gateway[n] \in Gateways
<1>1. /\ restore[n] \in RestoreTypes /\ file[n] \in Files /\ turn[n] \in TURNs /\ sfu[n] \in SFUs
      /\ gateway[n] \in Gateways /\ stealth \in BOOLEAN
  BY DEF Types, TaskTypes, UnitTypes, TableTypes
<1>2. rows = NoRows => rows.sfu[n] = None /\ rows.turn[n] = None
  BY DEF NoRows, NoBlocks
<1> QED
  BY <1>1, <1>2 DEF Rest, TablesServe

\* which resolves the state from the tables when there is no file,
LEMMA TablesCalm ==
    ASSUME NEW n \in Nodes, Types, Written, Rest, "respawn" \in noise => config # None, RestoreFromTables(n),
           noise' \subseteq {"respawn"}
    PROVE  Rest' /\ Restored(n)
<1>1. ~file[n].here /\ restore[n].pc = "tables"
  BY RestHas DEF Reads, RestoreFromTables
<1>2. config = None
  BY <1>1, RestHas DEF HasFile
<1>3. /\ rows = NoRows /\ stealth = FALSE /\ gateway[n] \in {Plain, Down} /\ "respawn" \notin noise
      /\ rows.sfu[n] = None /\ rows.turn[n] = None
  BY <1>1, <1>2, RestHas DEF Forgets
<1>4. /\ noise' = noise
      /\ \/ /\ gateway' = [gateway EXCEPT ![n] = IF @.run THEN @ ELSE Plain]
            /\ file' = [file EXCEPT ![n] = PlainFile]
         \/ gateway[n] = Plain /\ gateway' = gateway /\ file' = file
  <2>1. ~Note("lost", TRUE) /\ (\A b : Note("kept", b) => noise' = noise /\ ~b)
    BY DEF Note
  <2> QED
    BY <1>2, <2>1 DEF RestoreFromTables
<1>5. /\ UNCHANGED <<config, stealth, rows, turnDNS, stealthDNS>> /\ UNCHANGED <<sfu, turn, up, call>>
      /\ restore' = [restore EXCEPT ![n] = NoRestore]
  BY DEF RestoreFromTables, RestoreVars, tables
<1>6. /\ gateway \in [Nodes -> Gateways] /\ file \in [Nodes -> Files] /\ restore \in [Nodes -> RestoreTypes]
  BY DEF Types, UnitTypes, TaskTypes
<1>7. Restored(n)
  BY <1>4, <1>5, <1>6 DEF Restored
<1>8. gateway'[n] = Plain /\ file'[n].sec = None /\ restore'[n].pc = "idle"
  <2>1. Down.run = FALSE /\ PlainFile.sec = None /\ file[n].sec = None
    BY <1>1 DEF Down, Plain, PlainFile, NoFile, Written
  <2> QED
    BY <1>3, <1>4, <1>5, <1>6, <2>1 DEF NoRestore
<1>9. RestNode(n)'
  <2>1. SFUFor(n)' = NoSFU /\ SFUFor(n) = NoSFU /\ n \notin TURNNodes /\ n \notin TURNNodes'
        /\ GatewayFor(n, stealth)' = Plain
    BY <1>2, <1>3, <1>5 DEF SFUFor, TURNNodes, NoSFU, GatewayFor, Plain
  <2>2. sfu[n] = NoSFU /\ turn[n] = NoTURN
    BY <1>3, <2>1, RestHas DEF HasSFU, HasTURN
  <2>3. HasSFU(n)' /\ HasTURN(n, stealth)' /\ HasGateway(n, stealth)'
    BY <1>3, <1>4, <1>5, <1>8, <2>1, <2>2 DEF HasSFU, HasTURN, HasGateway
  <2>4. Reads(n)'
    BY <1>8 DEF Reads
  <2>5. Forgets(n)'
    BY <1>8 DEF Forgets
  <2> QED
    BY <1>2, <1>5, <2>3, <2>4, <2>5 DEF RestNode
<1> QED
  BY <1>7, <1>9, RestoredRests

\* or chooses between the file and the tables,
LEMMA ChooseCalm ==
    ASSUME NEW n \in Nodes, Types, Rest, ChooseRestoreWebRTC(n), noise' \subseteq {"respawn"}
    PROVE  Rest' /\ Restored(n)
<1>1. restore[n].pc = "resolve" /\ restore[n].st = file[n] /\ file[n].here
  BY RestHas DEF Reads, ChooseRestoreWebRTC
<1>2. noise' = noise /\ Recorded(n) /\ UNCHANGED <<RestoreVars, units, file>>
  <2>1. ~Note("lost", TRUE)
    BY DEF Note
  <2> QED
    BY <2>1 DEF ChooseRestoreWebRTC, Fine
<1>3. UNCHANGED <<config, stealth, rows, turnDNS, stealthDNS>> /\ UNCHANGED <<sfu, turn, gateway, file, up, call>>
  BY <1>2 DEF RestoreVars, units, tables
<1>4. PICK port, hidden : /\ port = (IF config # None THEN rows.sfu[n] ELSE None)
                          /\ hidden = (config # None /\ stealth)
  OBVIOUS
<1>5. port = rows.sfu[n] /\ hidden = stealth
  BY <1>4, RestHas DEF Types, TableTypes
<1>6. PICK st : st = [file[n] EXCEPT !.sec = config, !.sig = port, !.stealth = hidden]
  OBVIOUS
<1>7. /\ st.here = file[n].here /\ st.sec = config /\ st.sig = port /\ st.stealth = hidden
      /\ st.media = file[n].media /\ st.relay = file[n].relay
  BY <1>6, RestHas DEF Files
<1>8. restore' = [restore EXCEPT ![n] = [pc |-> "gateway", known |-> TRUE, st |-> st,
                                         save |-> TRUE /\ st # restore[n].st]]
  BY <1>1, <1>2, <1>4, <1>6 DEF Recorded, Resolved
<1>9. /\ restore'[n].pc = "gateway" /\ restore'[n].known /\ restore'[n].st = st
      /\ ~restore'[n].save => st = file[n]
      /\ \A m \in Nodes \ {n} : restore'[m] = restore[m]
  BY <1>1, <1>8 DEF Types, TaskTypes
<1>10. Restored(n)
  BY <1>2, <1>3, <1>9 DEF Restored
<1>11. RestNode(n)'
  <2>1. /\ ~Steady(n) /\ ~Steady(n)' /\ ~TURNBack(n) /\ ~TURNBack(n)' /\ ~GatewayBack(n)'
        /\ TURNNodes' = TURNNodes
    BY <1>1, <1>3, <1>9 DEF Steady, TURNBack, GatewayBack, TURNNodes
  <2>2. HasSFU(n)' /\ HasGateway(n, stealth)'
    BY <1>3, <2>1, RestHas DEF HasSFU, SFUFor, HasGateway
  <2>3. HasTURN(n, stealth)'
    BY <1>2, <1>3, <2>1, RestHas DEF HasTURN, TURNFor
  <2>4. Reads(n)'
    BY <1>1, <1>3, <1>5, <1>7, <1>9, RestHas DEF Reads, HasFile
  <2>5. (config' = None => Forgets(n)') /\ (config' # None => HasFile(n)')
    BY <1>3, <2>1, RestHas DEF Forgets, HasFile
  <2> QED
    BY <2>2, <2>3, <2>4, <2>5 DEF RestNode
<1> QED
  BY <1>10, <1>11, RestoredRests

\* and starts the gateway,
LEMMA GatewayCalm ==
    ASSUME NEW n \in Nodes, Types, Rest, RestoreGateway(n), noise' \subseteq {"respawn"}
    PROVE  Rest' /\ Restored(n)
<1> DEFINE r == restore[n]
<1>1. /\ r.pc = "gateway" /\ r.known /\ r.st.sec = config /\ r.st.sig = rows.sfu[n]
      /\ r.st.stealth = stealth /\ r.st.here /\ (~r.save => r.st = file[n])
      /\ (config # None => r.st.media = rows.sfu[n] /\ r.st.relay = rows.turn[n])
  BY RestHas DEF Reads, RestoreGateway
<1>2. /\ noise' = noise /\ gateway' = [gateway EXCEPT ![n] = GatewayFor(n, stealth)]
      /\ file' = [file EXCEPT ![n] = r.st]
  <2>1. ~Note("lost", TRUE)
    BY DEF Note
  <2>2. /\ Fine /\ gateway' = [gateway EXCEPT ![n] = [run |-> TRUE, sec |-> r.st.sec, sfu |-> r.st.sig,
                                                      stealth |-> r.st.stealth]]
        /\ file' = IF r.save THEN [file EXCEPT ![n] = r.st] ELSE file
    BY <1>1, <2>1 DEF RestoreGateway
  <2>3. file = [file EXCEPT ![n] = file[n]]
    BY DEF Types, UnitTypes
  <2> QED
    BY <1>1, <2>2, <2>3 DEF Fine, GatewayFor
<1>3. UNCHANGED <<config, stealth, rows, turnDNS, stealthDNS>> /\ UNCHANGED <<sfu, turn, up, call>>
  BY DEF RestoreGateway, RestoreVars, tables
<1>4. PICK q : q = [r EXCEPT !.pc = "turn"]
  OBVIOUS
<1>5. /\ q.pc = "turn" /\ q.known = r.known /\ q.st = r.st /\ q.save = r.save
      /\ restore' = [restore EXCEPT ![n] = q]
  BY <1>4, RestHas DEF RestoreTypes, RestoreGateway, Types, TaskTypes
<1>6. /\ gateway \in [Nodes -> Gateways] /\ file \in [Nodes -> Files] /\ restore \in [Nodes -> RestoreTypes]
  BY DEF Types, UnitTypes, TaskTypes
<1>7. /\ gateway'[n] = GatewayFor(n, stealth) /\ file'[n] = r.st /\ restore'[n] = q
      /\ Restored(n)
  BY <1>2, <1>3, <1>5, <1>6 DEF Restored
<1>8. RestNode(n)'
  <2>1. /\ ~Steady(n) /\ ~Steady(n)' /\ ~TURNBack(n) /\ ~TURNBack(n)' /\ TURNNodes' = TURNNodes
    BY <1>1, <1>3, <1>5, <1>7 DEF Steady, TURNBack, TURNNodes
  <2>2. HasSFU(n)'
    BY <1>3, <2>1, RestHas DEF HasSFU, SFUFor
  <2>3. HasTURN(n, stealth)'
    BY <1>2, <1>3, <2>1, RestHas DEF HasTURN, TURNFor
  <2>4. HasGateway(n, stealth)'
    BY <1>3, <1>7 DEF HasGateway, GatewayFor
  <2>5. Reads(n)'
    BY <1>1, <1>3, <1>5, <1>7 DEF Reads
  <2>6. (config' = None => Forgets(n)') /\ (config' # None => HasFile(n)')
    BY <1>1, <1>3, <1>7 DEF Forgets, HasFile
  <2> QED
    BY <2>2, <2>3, <2>4, <2>5, <2>6 DEF RestNode
<1> QED
  BY <1>7, <1>8, RestoredRests

\* the TURN server,
LEMMA TURNCalm ==
    ASSUME NEW n \in Nodes, Types, Rest, "respawn" \in noise => config # None, RestoreTURN(n),
           noise' \subseteq {"respawn"}
    PROVE  Rest' /\ Restored(n)
<1> DEFINE r == restore[n]
           cfg == [sec |-> config, port |-> r.st.relay, stealth |-> stealth]
<1>1. /\ r.pc = "turn" /\ r.known /\ r.st.sec = config /\ r.st.sig = rows.sfu[n]
      /\ r.st.stealth = stealth /\ r.st.here
      /\ (config # None => r.st.media = rows.sfu[n] /\ r.st.relay = rows.turn[n])
  BY RestHas DEF Reads, RestoreTURN
<1>2. /\ noise' = noise
      /\ turn' = IF r.st.sec # None /\ r.st.relay # None /\ config # None THEN Started(turn, n, cfg) ELSE turn
  <2>1. ~Note("lost", TRUE)
    BY DEF Note
  <2> QED
    BY <2>1 DEF RestoreTURN, Fine
<1>3. /\ UNCHANGED <<config, stealth, rows, turnDNS, stealthDNS>>
      /\ UNCHANGED <<sfu, gateway, file, up, call>>
  BY DEF RestoreTURN, RestoreVars, tables
<1>4. PICK q : q = [r EXCEPT !.pc = "sfu"]
  OBVIOUS
<1>5. /\ q.pc = "sfu" /\ q.known = r.known /\ q.st = r.st /\ q.save = r.save
      /\ restore' = [restore EXCEPT ![n] = q]
  BY <1>4, RestHas DEF RestoreTypes, RestoreTURN, Types, TaskTypes
<1>6. turn \in [Nodes -> TURNs] /\ restore \in [Nodes -> RestoreTypes]
  BY DEF Types, UnitTypes, TaskTypes
<1>7. /\ turn'[n] = IF config # None /\ n \in TURNNodes /\ turn[n].sec = None THEN TURNFor(n, stealth) ELSE turn[n]
      /\ \A m \in Nodes \ {n} : turn'[m] = turn[m]
  BY <1>1, <1>2, <1>6 DEF Started, TURNNodes, TURNFor
<1>8. restore'[n] = q /\ Restored(n)
  BY <1>2, <1>3, <1>5, <1>6, <1>7 DEF Restored
<1>9. RestNode(n)'
  <2>1. /\ ~Steady(n) /\ ~Steady(n)' /\ GatewayBack(n)' = GatewayBack(n) /\ TURNNodes' = TURNNodes
        /\ NoTURN.sec = None /\ TURNFor(n, stealth)' = TURNFor(n, stealth)
        /\ TURNFor(n, stealth).stealth = stealth /\ TURNFor(n, stealth).sec = config
    BY <1>1, <1>3, <1>5, <1>8 DEF Steady, GatewayBack, TURNNodes, NoTURN, TURNFor
  <2>2. HasSFU(n)' /\ HasGateway(n, stealth)'
    BY <1>3, <2>1, RestHas DEF HasSFU, SFUFor, HasGateway, GatewayFor
  <2>3. HasTURN(n, stealth)'
    <3>0. n \in TURNNodes => config # None
      BY RestHas DEF TURNNodes
    <3>1. CASE "respawn" \in noise
      <4>1. stealth /\ n \in TURNNodes => turn[n].stealth \/ turn[n].sec = None
        BY <3>1, RestHas DEF HasTURN
      <4>2. stealth /\ n \in TURNNodes => turn'[n].stealth
        BY <1>7, <2>1, <3>0, <4>1
      <4> QED
        BY <1>2, <1>3, <2>1, <3>1, <4>2 DEF HasTURN
    <3>2. CASE "respawn" \notin noise
      <4>1. IF n \in TURNNodes THEN turn[n] = TURNFor(n, stealth) \/ turn[n] = NoTURN ELSE turn[n] = NoTURN
        BY <3>2, RestHas DEF HasTURN
      <4>2. turn'[n] = IF n \in TURNNodes THEN TURNFor(n, stealth) ELSE NoTURN
        BY <1>7, <2>1, <3>0, <4>1
      <4> QED
        BY <1>2, <1>3, <2>1, <3>2, <4>2 DEF HasTURN
    <3> QED
      BY <3>1, <3>2
  <2>4. Reads(n)'
    BY <1>1, <1>3, <1>5, <1>8 DEF Reads
  <2>5. (config' = None => Forgets(n)') /\ (config' # None => HasFile(n)')
    BY <1>3, <2>1, RestHas DEF Forgets, HasFile
  <2> QED
    BY <2>2, <2>3, <2>4, <2>5 DEF RestNode
<1> QED
  BY <1>8, <1>9, RestoredRests

\* and the SFU, as the tables say.
LEMMA SFUCalm ==
    ASSUME NEW n \in Nodes, Types, Rest, RestoreSFU(n), noise' \subseteq {"respawn"}
    PROVE  Rest' /\ Restored(n)
<1> DEFINE r == restore[n]
           cfg == [sec |-> config, port |-> r.st.sig, media |-> r.st.media]
<1>1. /\ r.pc = "sfu" /\ r.st.sec = config /\ r.st.sig = rows.sfu[n]
      /\ (config # None => r.st.media = rows.sfu[n] /\ r.st.relay = rows.turn[n])
  BY RestHas DEF Reads, RestoreSFU
<1>2. /\ noise' = noise
      /\ sfu' = IF r.st.sig # None /\ config # None THEN Started(sfu, n, cfg) ELSE sfu
  <2>1. ~Note("lost", TRUE)
    BY DEF Note
  <2> QED
    BY <2>1 DEF RestoreSFU, Fine
<1>3. /\ UNCHANGED <<config, stealth, rows, turnDNS, stealthDNS>>
      /\ UNCHANGED <<turn, gateway, file, up, call>> /\ restore' = [restore EXCEPT ![n] = NoRestore]
  BY DEF RestoreSFU, RestoreVars, tables
<1>4. sfu \in [Nodes -> SFUs] /\ restore \in [Nodes -> RestoreTypes]
  BY DEF Types, UnitTypes, TaskTypes
<1>5. /\ sfu'[n] = IF config # None /\ sfu[n].sec = None THEN SFUFor(n) ELSE sfu[n]
      /\ \A m \in Nodes \ {n} : sfu'[m] = sfu[m]
  <2>1. config # None => r.st.sig # None /\ cfg = SFUFor(n)
    BY <1>1, RestHas DEF SFUFor
  <2> QED
    BY <1>2, <1>4, <2>1 DEF Started
<1>6. restore'[n].pc = "idle" /\ Restored(n)
  BY <1>2, <1>3, <1>4, <1>5 DEF Restored, NoRestore
<1>7. RestNode(n)'
  <2>1. /\ GatewayBack(n)' = GatewayBack(n) /\ TURNBack(n)' = TURNBack(n) /\ TURNNodes' = TURNNodes
        /\ NoSFU.sec = None /\ SFUFor(n)' = SFUFor(n) /\ (config = None => SFUFor(n) = NoSFU)
    BY <1>1, <1>3, <1>6, RestHas DEF TURNBack, GatewayBack, TURNNodes, NoSFU, SFUFor
  <2>2. HasGateway(n, stealth)'
    BY <1>3, <2>1, RestHas DEF HasGateway, GatewayFor
  <2>3. HasTURN(n, stealth)'
    BY <1>2, <1>3, <2>1, RestHas DEF HasTURN, TURNFor
  <2>4. HasSFU(n)'
    BY <1>5, <2>1, RestHas DEF HasSFU
  <2>5. Reads(n)'
    BY <1>6 DEF Reads
  <2>6. (config' = None => Forgets(n)') /\ (config' # None => HasFile(n)')
    BY <1>3, <2>1, RestHas DEF Forgets, HasFile
  <2> QED
    BY <2>2, <2>3, <2>4, <2>5, <2>6 DEF RestNode
<1> QED
  BY <1>6, <1>7, RestoredRests

\* Every step of a restore keeps the system undisturbed.
LEMMA RestoreCalm ==
    ASSUME NEW n \in Nodes, Types, Written, Alone, Undisturbed, Restore(n), noise' \subseteq {"respawn"}
    PROVE  Undisturbed'
<1>1. \A m \in Nodes : ~Calling(m)
  BY RestoreSteps DEF Alone
<1>2. Rest /\ ("respawn" \in noise => config # None)
  BY <1>1 DEF Undisturbed
<1>3. Rest' /\ Restored(n)
  BY <1>2, TablesCalm, ChooseCalm, GatewayCalm, TURNCalm, SFUCalm DEF Restore
<1> QED
  BY <1>1, <1>3, RestCalm

\* Every action keeps an undisturbed system as the invariant says.
LEMMA CalmKept == Types /\ Placed /\ Written /\ AloneInv /\ CalmInv /\ [Next]_vars => CalmInv'
<1> SUFFICES ASSUME Types, Placed, Written, AloneInv, CalmInv, [Next]_vars, noise' \subseteq {"respawn"}
             PROVE  Undisturbed'
  BY DEF CalmInv
<1>0. ASSUME noise \subseteq noise' PROVE noise \subseteq {"respawn"} /\ Undisturbed /\ Alone
  BY <1>0 DEF CalmInv, AloneInv
<1>n. ~Note("lost", TRUE) /\ ~Note("rewrite", TRUE) /\ (\A w, b : Note(w, b) => noise \subseteq noise')
  BY DEF Note
<1>1. ASSUME NEW p \in Nodes, NEW op \in Ops, Begin(p, op) PROVE Undisturbed'
  <2>1. noise \subseteq noise'
    BY <1>1 DEF Begin
  <2> QED
    BY <1>0, <1>1, <2>1, BeginCalm
<1>2. ASSUME NEW p \in Nodes, Call(p) PROVE Undisturbed'
  BY <1>0, <1>2, CallNotes, CallCalm DEF Notes
<1>3. ASSUME NEW p \in Nodes, Disconnect(p) PROVE FALSE
  BY <1>3, <1>n DEF Disconnect
<1>4. ASSUME NEW n \in Nodes, Crash(n) PROVE Undisturbed'
  BY <1>0, <1>4, <1>n, CrashCalm DEF Crash
<1>5. ASSUME NEW n \in Nodes, Restart(n) PROVE Undisturbed'
  BY <1>0, <1>5, <1>n, RestartCalm DEF Restart
<1>6. ASSUME NEW n \in Nodes, Restore(n) PROVE Undisturbed'
  BY <1>0, <1>6, RestoreNotes, RestoreCalm DEF Notes
<1>7. ASSUME Rewrite PROVE FALSE
  BY <1>7, <1>n DEF Rewrite
<1>8. CASE UNCHANGED vars
  <2>1. /\ UNCHANGED <<config, stealth, rows, turnDNS, stealthDNS, call>>
        /\ UNCHANGED <<sfu, turn, gateway, file, up, restore, noise>>
    BY <1>8 DEF vars, tables, units
  <2>2. Same /\ Undisturbed
    BY <1>0, <2>1 DEF Same, Calling
  <2>3. Fresh'
    BY <2>1, <2>2 DEF Fresh, Undisturbed
  <2> QED
    BY <2>2, <2>3, SameKept
<1> QED
  BY <1>1, <1>2, <1>3, <1>4, <1>5, <1>6, <1>7, <1>8 DEF Next

-----------------------------------------------------------------------------
(* After a DisableWebRTC that was not disturbed. *)

\* The call of p goes on, with what it has read.
Going(p) == \E c : Proper(c) /\ c.op = call[p].op /\ c.k = call[p].k /\ Goes(p, c)

\* A call that goes on stays at its step or comes to a later one.
LEMMA GoingOn ==
    ASSUME NEW p \in Nodes, Types, call[p].op # "none", Going(p)
    PROVE  \/ call'[p] = NoCall
           \/ call'[p].op = call[p].op /\ call'[p].k \in Nat /\ call'[p].k >= call[p].k
<1>1. PICK c : Proper(c) /\ c.op = call[p].op /\ c.k = call[p].k /\ Goes(p, c)
  BY DEF Going
<1>2. Steps(p, Proceed(c))
  BY <1>1, GoesSteps DEF Types
<1>3. PICK d : d = Proceed(c)
  OBVIOUS
<1>4. d = NoCall \/ (d.op = c.op /\ d.k \in {c.k, c.k + 1, c.k + 2})
  BY <1>1, <1>3, Advance DEF Progress
<1>5. c.k \in Nat /\ call'[p] = d
  BY <1>1, <1>2, <1>3 DEF Steps, Proper, CallTypes
<1> QED
  BY <1>1, <1>4, <1>5

\* A call that loses nothing goes on or meets an error that it handles.
LEMMA GoesOrFails ==
    ASSUME NEW p \in Nodes, Types, Call(p), "lost" \notin noise'
    PROVE  Going(p) \/ Fails(p)
<1> DEFINE b == call[p]
<1>1. Proper(b) /\ b \in CallTypes /\ b.op # "none" /\ rows.sfu \in Blocks /\ rows.turn \in Blocks
  BY CallTyped DEF Types, TaskTypes, TableTypes
<1>2. ~Note("lost", TRUE) /\ ~Lost(p, "lost")
  BY NeverLost DEF Note
<1>3. ASSUME Goes(p, b) PROVE Going(p)
  BY <1>1, <1>3 DEF Going
<1>4. ASSUME NEW c \in CallTypes, c.op = b.op, c.k = b.k, c.todo = b.todo, c.sec = b.sec,
             Step(p) \in OverTURN => c.on = b.on, Goes(p, c)
      PROVE  Going(p)
  BY <1>1, <1>4, ProperWith DEF Going, Step
<1>5. CASE ReadNodes(p)
  <2> DEFINE on == {n \in Nodes : rows.turn[n] # None}
             c == [b EXCEPT !.turn = rows.turn, !.on = on]
  <2>1. Goes(p, b) \/ Goes(p, c) \/ Fails(p)
    BY <1>2, <1>5 DEF ReadNodes
  <2>2. on \in SUBSET Nodes
    OBVIOUS
  <2> HIDE DEF on
  <2>3. c \in CallTypes /\ c.op = b.op /\ c.k = b.k /\ c.todo = b.todo /\ c.sec = b.sec
    BY <1>1, <2>2 DEF CallTypes
  <2>4. Step(p) \notin OverTURN
    BY <1>5 DEF ReadNodes, At, OverTURN
  <2> HIDE DEF c
  <2> QED
    BY <1>3, <1>4, <2>1, <2>3, <2>4
<1>6. ASSUME NEW kind \in {"sfu", "turn"}, NEW s, Allocate(p, s, kind), s \in {"sfu_ports", "turn_ports"}
      PROVE  Going(p) \/ Fails(p)
  <2> DEFINE n == Node(p)
             block == IF rows[kind][n] # None THEN rows[kind][n] ELSE b.sec
             x == [b EXCEPT !.sfu[n] = block]
             y == [b EXCEPT !.turn[n] = block]
  <2>0. Goes(p, x) \/ Goes(p, y) \/ Fails(p)
    BY <1>6 DEF Allocate
  <2>1. n \in Nodes
    BY <1>6, NodeOf DEF Allocate, OverAll, OverTURN, Types
  <2>2. block \in Secrets
    <3>1. rows[kind] \in Blocks
      BY <1>1
    <3> QED
      BY <1>1, <2>1, <3>1 DEF CallTypes, Blocks
  <2> HIDE DEF block, n
  <2>3. x = [b EXCEPT !.sfu = [b.sfu EXCEPT ![n] = block]] /\ y = [b EXCEPT !.turn = [b.turn EXCEPT ![n] = block]]
    BY <1>1 DEF CallTypes
  <2>4. [b.sfu EXCEPT ![n] = block] \in Blocks /\ [b.turn EXCEPT ![n] = block] \in Blocks
    BY <1>1, <2>2 DEF CallTypes, Blocks
  <2>5. x \in CallTypes /\ x.op = b.op /\ x.k = b.k /\ x.todo = b.todo /\ x.sec = b.sec /\ x.on = b.on
    BY <1>1, <2>3, <2>4 DEF CallTypes
  <2>6. y \in CallTypes /\ y.op = b.op /\ y.k = b.k /\ y.todo = b.todo /\ y.sec = b.sec /\ y.on = b.on
    BY <1>1, <2>3, <2>4 DEF CallTypes
  <2> HIDE DEF x, y
  <2> QED
    BY <1>4, <2>0, <2>5, <2>6
<1>7. CASE SelectTURNNodes(p) \/ ReadTURN(p)
  <2>1. \/ Fails(p)
        \/ \E on \in SUBSET Nodes : Goes(p, [b EXCEPT !.on = on])
    BY <1>2, <1>7 DEF SelectTURNNodes, ReadTURN
  <2>2. Step(p) \notin OverTURN
    BY <1>7 DEF SelectTURNNodes, ReadTURN, At, OverTURN
  <2>3. ASSUME NEW on \in SUBSET Nodes, Goes(p, [b EXCEPT !.on = on]) PROVE Going(p)
    <3> DEFINE c == [b EXCEPT !.on = on]
    <3>1. c \in CallTypes /\ c.op = b.op /\ c.k = b.k /\ c.todo = b.todo /\ c.sec = b.sec /\ Goes(p, c)
      BY <1>1, <2>3 DEF CallTypes
    <3> HIDE DEF c
    <3> QED
      BY <1>4, <2>2, <3>1
  <2> QED
    BY <2>1, <2>3
<1>8. CASE ReadBlocks(p)
  <2> DEFINE c == [b EXCEPT !.sfu = rows.sfu, !.turn = rows.turn]
  <2>1. Goes(p, c)
    BY <1>2, <1>8 DEF ReadBlocks
  <2>2. c \in CallTypes /\ c.op = b.op /\ c.k = b.k /\ c.todo = b.todo /\ c.sec = b.sec /\ c.on = b.on
    BY <1>1 DEF CallTypes
  <2> HIDE DEF c
  <2> QED
    BY <1>4, <2>1, <2>2
<1>9. CASE Insert(p) \/ ReadPorts(p) \/ SpawnTURN(p) \/ SpawnSFU(p) \/ ClearDNS(p) \/ CreateTURNRecords(p)
  BY <1>2, <1>3, <1>9 DEF Insert, ReadPorts, SpawnTURN, SpawnSFU, ClearDNS, CreateTURNRecords
<1>10. CASE StopBoth(p) \/ DeallocateAll(p) \/ DeleteConfig(p) \/ StopSFU(p) \/ StopTURN(p)
  BY <1>2, <1>3, <1>10 DEF StopBoth, DeallocateAll, DeleteConfig, StopSFU, StopTURN
<1>11. CASE ClearStealth(p) \/ CreateStealthRecords(p) \/ SetStealthEnabled(p) \/ Respawn(p)
  BY <1>2, <1>3, <1>11 DEF ClearStealth, CreateStealthRecords, SetStealthEnabled, Respawn
<1>12. CASE SaveState(p) \/ RestartGateway(p)
  BY <1>2, <1>3, <1>12 DEF SaveState, RestartGateway
<1> QED
  BY <1>5, <1>6, <1>7, <1>8, <1>9, <1>10, <1>11, <1>12 DEF Call

\* What a step of EnableWebRTC after its insert leaves alone.
LEMMA EnableLeaves ==
    ASSUME NEW p \in Nodes, Types, Call(p), call[p].op = "enable", call[p].k # 1, "lost" \notin noise'
    PROVE  LET k == call[p].k IN
           /\ k \in 2 .. 12 /\ config' = config /\ up' = up
           /\ k <= 8 => turnDNS' = turnDNS
           /\ k = 9 => turnDNS' = {}
           /\ k = 10 /\ ~Going(p) => turnDNS' = {}
           /\ k <= 10 => stealthDNS' = stealthDNS /\ gateway' = gateway /\ file' = file
<1> DEFINE k == call[p].k
<1>0. k \in 2 .. 12 /\ Step(p) = Program["enable"][k]
  BY Lengths DEF Types, TaskTypes, Proper, Step, CallTypes
<1>1. up' = up
  BY CallTyped DEF CallVars
<1>2. k \in {2, 3, 4, 5, 6, 7, 8} \/ k \in {9, 10} \/ k \in {11, 12}
  BY <1>0
<1>3. CASE k \in {2, 3, 4, 5, 6, 7, 8}
  <2>1. UNCHANGED <<config, turnDNS, stealthDNS, gateway, file>>
    <3>1. CASE k \in {2, 4, 6}
      <4>1. ReadNodes(p) \/ SelectTURNNodes(p) \/ ReadPorts(p)
        BY <1>0, <3>1, EnableProgram, ActionOf
      <4> QED
        BY <4>1 DEF ReadNodes, SelectTURNNodes, ReadPorts, Lost, tables, units
    <3>2. CASE k \in {3, 5}
      <4>1. Allocate(p, "sfu_ports", "sfu") \/ Allocate(p, "turn_ports", "turn")
        BY <1>0, <3>2, EnableProgram, ActionOf
      <4> QED
        BY <4>1 DEF Allocate, tables, units
    <3>3. CASE k \in {7, 8}
      <4>1. SpawnTURN(p) \/ SpawnSFU(p)
        BY <1>0, <3>3, EnableProgram, ActionOf
      <4> QED
        BY <4>1 DEF SpawnTURN, SpawnSFU, tables
    <3> QED
      BY <1>3, <3>1, <3>2, <3>3
  <2> QED
    BY <1>0, <1>1, <1>3, <2>1
<1>4. CASE k = 9
  <2>1. ClearDNS(p)
    BY <1>0, <1>4, EnableProgram, ActionOf
  <2>2. UNCHANGED <<config, stealthDNS, gateway, file>> /\ turnDNS' = {}
    BY <2>1, NeverLost DEF ClearDNS, units
  <2> QED
    BY <1>0, <1>1, <1>4, <2>2
<1>5. CASE k = 10
  <2>1. CreateTURNRecords(p)
    BY <1>0, <1>5, EnableProgram, ActionOf
  <2>2. Goes(p, call[p]) => Going(p)
    BY DEF Going, Types, TaskTypes
  <2>3. UNCHANGED <<config, stealthDNS, gateway, file>> /\ (~Going(p) => turnDNS' = {})
    BY <2>1, <2>2, Unlost DEF CreateTURNRecords, units, tables
  <2> QED
    BY <1>0, <1>1, <1>5, <2>3
<1>6. CASE k \in {11, 12}
  <2>1. SaveState(p) \/ RestartGateway(p)
    BY <1>0, <1>6, EnableProgram, ActionOf
  <2>2. config' = config
    BY <2>1 DEF SaveState, RestartGateway, tables
  <2> QED
    BY <1>0, <1>1, <1>6, <2>2
<1> QED
  BY <1>2, <1>3, <1>4, <1>5, <1>6

HealedGoes(p) ==
    /\ call'[p].op # "none" => HealedDoing(p)' /\ (call'[p].op # "enable" \/ call'[p].k # 1)
    /\ call'[p].op = "none" => HealedRest'

\* EnableWebRTC on a healed system keeps what it has not come to yet without a
\* secret.
LEMMA EnableHealed ==
    ASSUME NEW p \in Nodes, Types, Call(p), call[p].op = "enable", call[p].k # 1, "lost" \notin noise',
           HealedEnabling(p)
    PROVE  HealedGoes(p)
<1> DEFINE c == call[p]
<1>0. /\ config # None /\ (c.k <= 9 => turnDNS = {})
      /\ (c.k <= 10 => stealthDNS = {} /\ \A n \in up : NoSecret(n))
  BY DEF HealedEnabling
<1>1. /\ c.k \in 2 .. 12 /\ config' # None /\ up' = up /\ (c.k <= 9 => turnDNS' = {})
      /\ (c.k = 10 /\ ~Going(p) => turnDNS' = {})
      /\ (c.k <= 10 => stealthDNS' = {} /\ gateway' = gateway /\ file' = file)
  <2>1. /\ c.k \in 2 .. 12 /\ config' = config /\ up' = up
        /\ c.k <= 8 => turnDNS' = turnDNS
        /\ c.k = 9 => turnDNS' = {}
        /\ c.k = 10 /\ ~Going(p) => turnDNS' = {}
        /\ c.k <= 10 => stealthDNS' = stealthDNS /\ gateway' = gateway /\ file' = file
    BY EnableLeaves
  <2>2. c.k <= 9 => c.k <= 8 \/ c.k = 9
    BY <2>1
  <2> QED
    BY <1>0, <2>1, <2>2
<1>2. c.k <= 10 => \A n \in up' : NoSecret(n)'
  BY <1>0, <1>1 DEF NoSecret
<1>3. CASE Going(p)
  <2>1. \/ call'[p] = NoCall
        \/ call'[p].op = "enable" /\ call'[p].k \in Nat /\ call'[p].k >= c.k
    BY <1>3, GoingOn
  <2>2. CASE call'[p] = NoCall
    BY <1>1, <2>2, NoCallFacts DEF HealedGoes, HealedRest
  <2>3. CASE call'[p].op = "enable" /\ call'[p].k \in Nat /\ call'[p].k >= c.k
    <3>1. /\ call'[p].k <= 9 => c.k <= 9
          /\ call'[p].k <= 10 => c.k <= 10
          /\ call'[p].k # 1
      BY <1>1, <2>3
    <3>2. HealedEnabling(p)'
      BY <1>1, <1>2, <3>1 DEF HealedEnabling
    <3> QED
      BY <2>3, <3>1, <3>2 DEF HealedGoes, HealedDoing
  <2> QED
    BY <2>1, <2>2, <2>3
<1>4. CASE ~Going(p)
  <2>1. Fails(p) /\ c \in CallTypes /\ Proper(c)
    BY <1>4, GoesOrFails DEF Types, TaskTypes
  <2>2. Steps(p, Fail(c))
    BY <2>1, FailsSteps DEF Types
  <2>3. Fail(c) # Proceed(c)
    BY <1>4, <2>1 DEF Going, Goes, Fails
  <2>4. c.k = 2 \/ c.k \in {3, 5, 6, 7, 8, 10}
    <3>1. c.k \notin {4, 9, 11, 12}
      BY <2>1, <2>3, EnableFails
    <3> QED
      BY <1>1, <3>1
  <2>5. CASE c.k = 2
    <3>1. call'[p] = NoCall
      BY <2>1, <2>2, <2>5, EnableFails DEF Steps
    <3> QED
      BY <1>1, <3>1, NoCallFacts DEF HealedGoes, HealedRest
  <2>6. CASE c.k \in {3, 5, 6, 7, 8, 10}
    <3>1. call'[p].op = "cleanup" /\ call'[p].k = 1 /\ call'[p].todo = Nodes
      BY <2>1, <2>2, <2>6, EnableFails DEF Steps, Became
    <3>2. AllDone(call'[p], 1) = {} /\ ~(call'[p].k > 2)
      BY <3>1 DEF AllDone
    <3>3. turnDNS' = {} /\ stealthDNS' = {} /\ \A n \in up' : NoSecret(n)'
      BY <1>1, <1>2, <1>4, <2>6
    <3>4. HealedCleaning(p)'
      BY <3>2, <3>3 DEF HealedCleaning
    <3> QED
      BY <3>1, <3>4 DEF HealedGoes, HealedDoing
  <2> QED
    BY <2>4, <2>5, <2>6
<1> QED
  BY <1>3, <1>4

\* The stealth calls leave the configuration alone.
LEMMA StealthHealed ==
    ASSUME NEW p \in Nodes, Types, Call(p), call[p].op \in {"stealth_on", "stealth_off", "rollback"},
           "lost" \notin noise', config # None
    PROVE  HealedGoes(p)
<1> DEFINE c == call[p]
<1>0. Proper(c) /\ c \in CallTypes /\ Step(p) = Program[c.op][c.k]
  BY DEF Types, TaskTypes, Step
<1>1. config' = config
  <2>1. CASE c.op = "stealth_on"
    <3>1. c.k \in {1, 2, 3, 4, 5, 6, 7, 8}
      BY <1>0, <2>1, Lengths DEF Proper
    <3>2. Step(p) \in {"nodes", "clear_stealth", "stealth_dns", "flag", "respawn", "blocks", "files", "gateways"}
      BY <1>0, <2>1, <3>1, StealthProgram
    <3> QED
      BY <3>2, ActionOf DEF ReadNodes, ClearStealth, CreateStealthRecords, SetStealthEnabled, Respawn,
         ReadBlocks, SaveState, RestartGateway, Lost, tables
  <2>2. CASE c.op = "stealth_off"
    <3>1. c.k \in {1, 2, 3, 4, 5, 6, 7}
      BY <1>0, <2>2, Lengths DEF Proper
    <3>2. Step(p) \in {"nodes", "clear_stealth", "flag", "respawn", "blocks", "files", "gateways"}
      BY <1>0, <2>2, <3>1, StealthProgram
    <3> QED
      BY <3>2, ActionOf DEF ReadNodes, ClearStealth, SetStealthEnabled, Respawn,
         ReadBlocks, SaveState, RestartGateway, Lost, tables
  <2>3. CASE c.op = "rollback"
    <3>1. c.k \in {1, 2}
      BY <1>0, <2>3, Lengths DEF Proper
    <3>2. Step(p) \in {"clear_stealth", "flag"}
      BY <1>0, <2>3, <3>1, UndoProgram
    <3> QED
      BY <3>2, ActionOf DEF ClearStealth, SetStealthEnabled, Lost, tables
  <2> QED
    BY <2>1, <2>2, <2>3
<1>2. call'[p].op \in {"none", "stealth_on", "stealth_off", "rollback"}
  <2>1. CASE Going(p)
    BY <2>1, GoingOn, NoCallFacts
  <2>2. CASE ~Going(p)
    <3>1. Fails(p)
      BY <2>2, GoesOrFails
    <3>2. Steps(p, Fail(c)) /\ Fail(c) # Proceed(c)
      BY <1>0, <2>2, <3>1, FailsSteps DEF Types, Going, Goes, Fails
    <3>3. CASE c.op = "stealth_on"
      <4>1. c.k \in {1, 2, 3, 4, 5, 6, 7, 8}
        BY <1>0, <3>3, Lengths DEF Proper
      <4>2. Fail(c) = NoCall \/ Fail(c).op = "rollback"
        BY <1>0, <3>2, <3>3, <4>1, StealthOnFails DEF Became
      <4> QED
        BY <3>2, <4>2, NoCallFacts DEF Steps
    <3>4. CASE c.op = "stealth_off"
      <4>1. c.k \in {1, 2, 3, 4, 5, 6, 7}
        BY <1>0, <3>4, Lengths DEF Proper
      <4>2. Fail(c) = NoCall
        BY <1>0, <3>2, <3>4, <4>1, StealthOffFails
      <4> QED
        BY <3>2, <4>2, NoCallFacts DEF Steps
    <3>5. CASE c.op = "rollback"
      <4>1. c.k \in {1, 2}
        BY <1>0, <3>5, Lengths DEF Proper
      <4> QED
        BY <1>0, <3>2, <3>5, <4>1, UndoFails
    <3> QED
      BY <3>3, <3>4, <3>5
  <2> QED
    BY <2>1, <2>2
<1>3. CASE call'[p].op = "none"
  BY <1>1, <1>3 DEF HealedGoes, HealedRest
<1>4. CASE call'[p].op # "none"
  BY <1>1, <1>2, <1>4 DEF HealedGoes, HealedDoing
<1> QED
  BY <1>3, <1>4

\* Every step of a call keeps a healed system healed.
LEMMA CallHealed ==
    ASSUME NEW p \in Nodes, Types, Placed, Alone, Healed, Call(p), Calling(p), "lost" \notin noise'
    PROVE  Healed'
<1>0. Only(p) /\ HealedDoing(p) /\ call[p].op \in Operations \ {"none"}
  BY CallAlone DEF Healed, Types, TaskTypes, CallTypes, Calling
<1>1. HealedGoes(p)
  <2>1. CASE call[p].op = "enable"
    <3>1. call[p].k # 1 /\ HealedEnabling(p)
      BY <1>0, <2>1 DEF Calling, HealedDoing
    <3> QED
      BY <2>1, <3>1, EnableHealed
  <2>2. CASE call[p].op = "cleanup"
    <3>1. HealedCleaning(p)
      BY <1>0, <2>2 DEF HealedDoing
    <3>2. CleanupGoes(p)
      BY <1>0, <2>2, CleanupStep DEF CleanupAt
    <3> QED
      BY <3>1, <3>2 DEF CleanupGoes, HealedGoes, HealedDoing
  <2>3. CASE call[p].op = "disable"
    <3>1. HealedDisabling(p)
      BY <1>0, <2>3 DEF HealedDoing
    <3>2. DisableGoes(p)
      BY <1>0, <2>3, <3>1, DisableStep DEF DisableAt
    <3> QED
      BY <3>2 DEF DisableGoes, HealedGoes, HealedDoing
  <2>4. CASE call[p].op \in {"stealth_on", "stealth_off", "rollback"}
    <3>1. config # None
      BY <1>0, <2>4 DEF HealedDoing
    <3> QED
      BY <2>4, <3>1, StealthHealed
  <2> QED
    BY <1>0, <2>1, <2>2, <2>3, <2>4 DEF Operations
<1>2. PICK d : Steps(p, d)
  BY CallTyped
<1>3. \A n \in Nodes \ {p} : ~Calling(n)'
  BY <1>0, <1>2 DEF Only, Steps, Calling
<1>4. Calling(p)' <=> call'[p].op # "none"
  BY <1>1 DEF HealedGoes, Calling
<1> QED
  BY <1>1, <1>3, <1>4 DEF Healed, HealedGoes

\* A step that leaves tables, services and files alone keeps the system healed.
LEMMA SameHealed == ASSUME Same, Healed PROVE Healed'
<1>1. /\ UNCHANGED <<config, stealth, rows, turnDNS, stealthDNS>>
      /\ UNCHANGED <<sfu, turn, gateway, file, up, restore, noise>>
      /\ \A n \in Nodes : (Calling(n)' <=> Calling(n)) /\ (Calling(n) => call'[n] = call[n])
  BY DEF Same
<1>2. HealedRest => HealedRest'
  BY <1>1 DEF HealedRest, GatewayBack, NoSecret
<1>3. ASSUME NEW p \in Nodes, Calling(p), HealedDoing(p) PROVE HealedDoing(p)'
  <2>1. /\ HealedEnabling(p) => HealedEnabling(p)'
        /\ HealedCleaning(p) => HealedCleaning(p)'
        /\ HealedDisabling(p) => HealedDisabling(p)'
    BY <1>1, <1>3 DEF HealedEnabling, HealedCleaning, HealedDisabling, NoSecret
  <2> QED
    BY <1>1, <1>3, <2>1 DEF HealedDoing
<1> QED
  BY <1>1, <1>2, <1>3 DEF Healed

\* The insert of EnableWebRTC finds a healed system and begins the call.
LEMMA InsertHealed ==
    ASSUME NEW p \in Nodes, Types, Healed, Call(p), ~Calling(p), noise' = {"healed"}
    PROVE  Healed'
<1>1. Insert(p) /\ call[p].op = "enable" /\ call[p].k = 1 /\ Proper(call[p]) /\ call[p] \in CallTypes
  <2>1. "overlap" \notin noise'
    OBVIOUS
  <2> QED
    BY <2>1, InsertAlone, CallTyped DEF Calling, Types, TaskTypes
<1>2. UNCHANGED <<CallVars, units, file>>
  BY <1>1 DEF Insert
<1>n. ~Note("lost", TRUE) /\ ~Lost(p, "lost") /\ (Note("overlap", Overlap(p)) => ~Overlap(p))
  BY NeverLost DEF Note
<1>3. \/ /\ config = None /\ ~Overlap(p) /\ Goes(p, call[p]) /\ config' = call[p].sec
         /\ UNCHANGED <<turnDNS, stealthDNS>>
      \/ config # None /\ noise' = noise /\ Fails(p) /\ UNCHANGED tables
  BY <1>1, <1>n DEF Insert, Fine
<1>4. CASE /\ config = None /\ ~Overlap(p) /\ Goes(p, call[p]) /\ config' = call[p].sec
           /\ UNCHANGED <<turnDNS, stealthDNS>>
  <2>1. Idle /\ \A n \in Nodes : ~Calling(n)
    BY <1>4, OverlapIs DEF Idle, Restoring
  <2>2. HealedRest
    BY <2>1 DEF Healed
  <2>3. /\ turnDNS' = {} /\ stealthDNS' = {} /\ \A n \in up' : NoSecret(n)'
    <3>1. up \subseteq Nodes /\ UNCHANGED <<gateway, file, up>>
      BY <1>2 DEF Types, TaskTypes, CallVars, units
    <3>2. turnDNS = {} /\ stealthDNS = {} /\ \A n \in up : NoSecret(n)
      BY <1>4, <2>1, <2>2, <3>1, WhenIdle DEF HealedRest
    <3> QED
      BY <1>4, <3>1, <3>2 DEF NoSecret
  <2>4. call[p].sec # None
    BY <1>1 DEF Proper
  <2>5. HealedEnabling(p)'
    BY <1>4, <2>3, <2>4 DEF HealedEnabling
  <2>6. Steps(p, Proceed(call[p])) /\ Proceed(call[p]).op = "enable" /\ Proceed(call[p]).k # 1
    <3>1. call[p].op # "none" /\ call[p].k # Len(Program[call[p].op])
      BY <1>1, Lengths
    <3>2. Progress(call[p], Proceed(call[p]), Node(p))
      BY <1>1, <3>1, Advance DEF Node
    <3>3. Program["enable"][1] \notin OverAll \cup OverTURN
      BY EnableProgram DEF OverAll, OverTURN
    <3>4. Steps(p, Proceed(call[p]))
      BY <1>1, <1>4, <3>1, GoesSteps DEF Types
    <3> QED
      BY <1>1, <3>2, <3>3, <3>4 DEF Progress
  <2>7. call'[p].op = "enable" /\ call'[p].k # 1 /\ \A n \in Nodes \ {p} : ~Calling(n)'
    BY <2>1, <2>6 DEF Steps, Calling
  <2>8. Calling(p)' /\ HealedDoing(p)'
    BY <2>5, <2>7 DEF Calling, HealedDoing
  <2> QED
    BY <2>7, <2>8 DEF Healed
<1>5. CASE config # None /\ noise' = noise /\ Fails(p) /\ UNCHANGED tables
  <2>1. Steps(p, Fail(call[p])) /\ Fail(call[p]) = NoCall
    BY <1>1, <1>5, FailsSteps, EnableFails DEF Types
  <2>2. call'[p].op = "none" /\ \A n \in Nodes \ {p} : call'[n] = call[n]
    BY <2>1, NoCallFacts DEF Steps
  <2>3. Same
    BY <1>2, <1>5, <2>2 DEF Same, tables, units, CallVars, Calling
  <2> QED
    BY <2>3, SameHealed
<1> QED
  BY <1>3, <1>4, <1>5

\* A disable heals the system from its beginning, whatever disturbed it before.
LEMMA BeginHealed ==
    ASSUME NEW p \in Nodes, NEW op \in Ops, Types, HealedInv, Begin(p, op), noise' = {"healed"}
    PROVE  Healed'
<1>1. PICK d : /\ Steps(p, d) /\ d.op = op /\ d.k = 1 /\ d.todo = {} /\ d.on = {} /\ ~d.cut
               /\ d.sfu = NoBlocks /\ d.turn = NoBlocks
               /\ d.sec = IF op = "enable" THEN next ELSE IF op = "disable" THEN None ELSE config
  BY BeginSteps
<1>2. ~Overlap(p) /\ (op = "disable" \/ noise = {"healed"})
  BY DEF Begin
<1>3. ~Calling(p) /\ call'[p] = d /\ \A n \in Nodes \ {p} : call'[n] = call[n]
  BY <1>1, NoCallFacts DEF Begin, Calling, Steps
<1>4. \A n \in Nodes : ~Calling(n) /\ ~Restoring(n)
  BY <1>2, <1>3, OverlapIs
<1>5. /\ UNCHANGED <<config, stealth, rows, turnDNS, stealthDNS>>
      /\ UNCHANGED <<sfu, turn, gateway, file, up, restore>>
  BY DEF Begin, CallVars, units
<1>6. \A n \in Nodes \ {p} : ~Calling(n)'
  BY <1>3, <1>4 DEF Calling
<1>7. CASE op = "disable"
  <2>1. Calling(p)' /\ d.sec = None /\ d.op = "disable"
    BY <1>1, <1>3, <1>7 DEF Calling
  <2>2. AllDone(d, 2) = {} /\ AllDone(d, 9) = {} /\ AllDone(d, 10) = {}
    BY <1>1 DEF AllDone
  <2>3. HealedDisabling(p)'
    BY <1>1, <1>3, <2>1, <2>2 DEF HealedDisabling
  <2> QED
    BY <1>3, <1>6, <2>1, <2>3 DEF Healed, HealedDoing
<1>8. CASE op = "enable"
  <2>1. Same /\ Healed
    BY <1>1, <1>2, <1>3, <1>5, <1>8 DEF Same, Calling, HealedInv
  <2> QED
    BY <2>1, SameHealed
<1>9. CASE op \in {"stealth_on", "stealth_off"}
  <2>1. config' # None
    BY <1>5, <1>9, AllowedIs DEF Begin
  <2>2. Calling(p)' /\ HealedDoing(p)'
    BY <1>1, <1>3, <1>9, <2>1 DEF Calling, HealedDoing
  <2> QED
    BY <1>6, <2>2 DEF Healed
<1> QED
  BY <1>7, <1>8, <1>9 DEF Ops

\* A crash keeps the system healed.
LEMMA CrashHealed ==
    ASSUME NEW n \in Nodes, Types, Healed, Crash(n), noise' = {"healed"}
    PROVE  Healed'
<1>1. Vanished(n)
  <2>1. "crash" \notin noise'
    OBVIOUS
  <2> QED
    BY <2>1, CrashVanishes
<1>2. /\ UNCHANGED <<config, stealth, rows, turnDNS, stealthDNS>> /\ UNCHANGED <<file, noise, call>>
      /\ up' \subseteq up /\ up \subseteq Nodes
      /\ \A m \in Nodes : sfu'[m] \in {sfu[m], NoSFU} /\ (m \in up' => gateway'[m] = gateway[m] /\ m # n)
      /\ \A m \in Nodes \ {n} : restore'[m] = restore[m]
      /\ restore'[n].pc = "idle"
  BY <1>1 DEF Vanished, Types, TaskTypes
<1>3. ASSUME HealedRest PROVE HealedRest'
  <2> SUFFICES ASSUME config' = None, NEW m \in Nodes
               PROVE  /\ rows' = NoRows /\ turnDNS' = {} /\ stealthDNS' = {}
                      /\ sfu'[m] = NoSFU /\ (GatewayBack(m)' => NoSecret(m)')
                      /\ restore'[m].pc = "tables" => file'[m].sec = None
                      /\ restore'[m].pc = "resolve" => restore'[m].st = file'[m]
                      /\ restore'[m].pc = "gateway" =>
                            /\ restore'[m].known /\ restore'[m].st.sec = None
                            /\ ~restore'[m].save => restore'[m].st = file'[m]
    BY DEF HealedRest
  <2>1. /\ rows = NoRows /\ turnDNS = {} /\ stealthDNS = {}
        /\ sfu[m] = NoSFU /\ (GatewayBack(m) => NoSecret(m))
        /\ restore[m].pc = "tables" => file[m].sec = None
        /\ restore[m].pc = "resolve" => restore[m].st = file[m]
        /\ restore[m].pc = "gateway" =>
              /\ restore[m].known /\ restore[m].st.sec = None
              /\ ~restore[m].save => restore[m].st = file[m]
    BY <1>2, <1>3 DEF HealedRest
  <2>2. GatewayBack(m)' => GatewayBack(m) /\ gateway'[m] = gateway[m]
    BY <1>2 DEF GatewayBack
  <2>3. GatewayBack(m)' => NoSecret(m)'
    BY <1>2, <2>1, <2>2 DEF NoSecret
  <2>4. CASE m = n
    BY <1>2, <2>1, <2>3, <2>4
  <2>5. CASE m # n
    BY <1>2, <2>1, <2>3, <2>5
  <2> QED
    BY <2>4, <2>5
<1>4. ASSUME NEW p \in Nodes, HealedDoing(p) PROVE HealedDoing(p)'
  <2>0. \A m \in up' : NoSecret(m) => NoSecret(m)'
    BY <1>2 DEF NoSecret
  <2>1. /\ HealedEnabling(p) => HealedEnabling(p)'
        /\ HealedCleaning(p) => HealedCleaning(p)'
    <3>1. AllDone(call[p], 1) \subseteq Nodes
      BY DEF AllDone
    <3> QED
      BY <1>2, <2>0, <3>1 DEF HealedEnabling, HealedCleaning
  <2>2. HealedDisabling(p) => HealedDisabling(p)'
    <3>1. AllDone(call[p], 2) \subseteq Nodes
      BY DEF AllDone
    <3> QED
      BY <1>2, <3>1 DEF HealedDisabling
  <2> QED
    BY <1>2, <1>4, <2>1, <2>2 DEF HealedDoing
<1>5. \A p \in Nodes : Calling(p)' <=> Calling(p)
  BY <1>2 DEF Calling
<1> QED
  BY <1>3, <1>4, <1>5 DEF Healed

\* What HealedRest says of a node.
HealedNode(m) ==
    /\ sfu[m] = NoSFU /\ (GatewayBack(m) => NoSecret(m))
    /\ restore[m].pc = "tables" => file[m].sec = None
    /\ restore[m].pc = "resolve" => restore[m].st = file[m]
    /\ restore[m].pc = "gateway" =>
          /\ restore[m].known /\ restore[m].st.sec = None
          /\ ~restore[m].save => restore[m].st = file[m]

\* A restore that leaves its node without a secret keeps the system healed.
LEMMA RestoredHeals ==
    ASSUME NEW n \in Nodes, Healed, \A m \in Nodes : ~Calling(m), Restored(n),
           config = None => (HealedNode(n) => HealedNode(n)')
    PROVE  Healed'
<1>1. UNCHANGED <<config, rows, turnDNS, stealthDNS, call>>
  BY DEF Restored
<1>2. HealedRest /\ \A m \in Nodes : ~Calling(m)'
  BY <1>1 DEF Healed, Calling
<1>3. ASSUME config = None, NEW m \in Nodes PROVE HealedNode(m)'
  <2>1. HealedNode(m) /\ HealedNode(n)
    BY <1>2, <1>3 DEF HealedRest, HealedNode
  <2>2. CASE m # n
    <3>1. /\ sfu'[m] = sfu[m] /\ gateway'[m] = gateway[m] /\ file'[m] = file[m]
          /\ restore'[m] = restore[m] /\ (m \in up' <=> m \in up)
      BY <2>2 DEF Restored
    <3> QED
      BY <2>1, <3>1 DEF HealedNode, GatewayBack, NoSecret
  <2> QED
    BY <1>3, <2>1, <2>2
<1>4. HealedRest'
  BY <1>1, <1>2, <1>3 DEF HealedRest, HealedNode
<1> QED
  BY <1>2, <1>4 DEF Healed

\* A restart keeps the system healed.
LEMMA RestartHealed ==
    ASSUME NEW n \in Nodes, Types, Placed, Written, Healed, Restart(n), noise' = {"healed"}
    PROVE  Healed'
<1>1. /\ Restored(n) /\ (\A m \in Nodes : ~Calling(m)) /\ UNCHANGED <<sfu, file>>
      /\ restore'[n].st = file[n] /\ restore'[n].pc \in {"resolve", "tables"}
      /\ restore'[n].pc = "tables" => file[n].sec = None
  <2>1. "overlap" \notin noise'
    OBVIOUS
  <2> QED
    BY <2>1, RestartIs DEF Written
<1>2. HealedNode(n) => HealedNode(n)'
  BY <1>1 DEF HealedNode, GatewayBack
<1> QED
  BY <1>1, <1>2, RestoredHeals

\* Every step of a restore keeps the system healed.
LEMMA RestoreHealed ==
    ASSUME NEW n \in Nodes, Types, Alone, Healed, Restore(n), noise = {"healed"}, noise' = {"healed"}
    PROVE  Healed'
<1> DEFINE r == restore[n]
<1>0. ~Note("lost", TRUE) /\ (\A b : Note("kept", b) => ~b)
  BY DEF Note
<1>1. /\ \A m \in Nodes : ~Calling(m)
      /\ UNCHANGED <<config, stealth, rows, turnDNS, stealthDNS>> /\ UNCHANGED <<up, call, noise>>
      /\ \A m \in Nodes \ {n} : restore'[m] = restore[m]
  BY RestoreSteps DEF Alone, RestoreVars, tables
<1>2. /\ gateway \in [Nodes -> Gateways] /\ file \in [Nodes -> Files] /\ restore \in [Nodes -> RestoreTypes]
      /\ sfu \in [Nodes -> SFUs] /\ turn \in [Nodes -> TURNs] /\ r \in RestoreTypes /\ file[n] \in Files
  BY DEF Types, UnitTypes, TaskTypes
<1>3. ASSUME \A m \in Nodes \ {n} : /\ sfu'[m] = sfu[m] /\ turn'[m] = turn[m]
                                    /\ gateway'[m] = gateway[m] /\ file'[m] = file[m],
             config = None => (HealedNode(n) => HealedNode(n)')
      PROVE  Healed'
  <2>1. Restored(n)
    BY <1>1, <1>3 DEF Restored
  <2> QED
    BY <1>1, <1>3, <2>1, RestoredHeals
<1>4. CASE RestoreFromTables(n)
  <2>1. \/ \E g : gateway' = [gateway EXCEPT ![n] = g] /\ file' = [file EXCEPT ![n] = PlainFile]
        \/ UNCHANGED <<gateway, file>>
    BY <1>0, <1>4 DEF RestoreFromTables
  <2>2. ASSUME config = None PROVE gateway'[n] = Plain
    <3>1. \/ /\ ~(gateway[n].run /\ gateway[n] # Plain)
             /\ gateway' = [gateway EXCEPT ![n] = IF @.run THEN @ ELSE Plain]
          \/ gateway[n] = Plain /\ gateway' = gateway
      BY <1>0, <1>4, <2>2 DEF RestoreFromTables
    <3> QED
      BY <1>2, <3>1
  <2>3. restore'[n].pc = "idle" /\ UNCHANGED <<sfu, turn>>
    BY <1>2, <1>4 DEF RestoreFromTables, NoRestore
  <2>4. Plain.sec = None /\ (HealedNode(n) => file'[n].sec = None)
    BY <1>2, <1>4, <2>1 DEF PlainFile, NoFile, Plain, HealedNode, RestoreFromTables
  <2>5. config = None => (HealedNode(n) => HealedNode(n)')
    BY <2>2, <2>3, <2>4 DEF HealedNode, NoSecret
  <2> QED
    BY <1>2, <1>3, <2>1, <2>3, <2>5
<1>5. CASE ChooseRestoreWebRTC(n)
  <2>1. Recorded(n) /\ UNCHANGED <<units, file>> /\ r.pc = "resolve"
    BY <1>0, <1>5 DEF ChooseRestoreWebRTC
  <2>2. UNCHANGED <<sfu, turn, gateway, file>>
    BY <2>1 DEF units
  <2>3. PICK port, hidden : Resolved(n, TRUE, config, port, hidden)
    BY <2>1 DEF Recorded
  <2>4. PICK st : st = [r.st EXCEPT !.sec = config, !.sig = port, !.stealth = hidden]
    OBVIOUS
  <2>5. st.sec = config
    BY <1>2, <2>4 DEF RestoreTypes, Files
  <2>6. restore' = [restore EXCEPT ![n] = [pc |-> "gateway", known |-> TRUE, st |-> st,
                                           save |-> TRUE /\ st # r.st]]
    BY <2>3, <2>4 DEF Resolved
  <2>7. /\ restore'[n].pc = "gateway" /\ restore'[n].known /\ restore'[n].st = st
        /\ ~restore'[n].save => st = r.st
    BY <1>2, <2>6
  <2>8. config = None => (HealedNode(n) => HealedNode(n)')
    BY <2>1, <2>2, <2>5, <2>7 DEF HealedNode, GatewayBack
  <2> QED
    BY <1>3, <2>2, <2>8
<1>6. CASE RestoreGateway(n)
  <2> DEFINE cfg == [run |-> TRUE, sec |-> r.st.sec, sfu |-> r.st.sig, stealth |-> r.st.stealth]
  <2>1. /\ r.pc = "gateway" /\ file' = IF r.save THEN [file EXCEPT ![n] = r.st] ELSE file
        /\ gateway' = [gateway EXCEPT ![n] = IF @.run /\ ~r.known THEN @ ELSE IF r.known THEN cfg ELSE Plain]
        /\ UNCHANGED <<sfu, turn>>
    BY <1>0, <1>6 DEF RestoreGateway
  <2>2. restore'[n].pc = "turn"
    BY <1>2, <1>6 DEF RestoreGateway, RestoreTypes
  <2>3. ASSUME HealedNode(n) PROVE HealedNode(n)'
    <3>1. r.known /\ r.st.sec = None /\ (~r.save => r.st = file[n]) /\ sfu[n] = NoSFU
      BY <2>1, <2>3 DEF HealedNode
    <3>2. gateway'[n] = cfg /\ file'[n] = r.st
      BY <1>2, <2>1, <3>1
    <3> QED
      BY <2>1, <2>2, <3>1, <3>2 DEF HealedNode, NoSecret
  <2> QED
    BY <1>2, <1>3, <2>1, <2>3
<1>7. CASE RestoreTURN(n)
  <2>1. r.pc = "turn" /\ UNCHANGED <<sfu, gateway, file>>
    BY <1>7 DEF RestoreTURN
  <2>2. restore'[n].pc = "sfu"
    BY <1>2, <1>7 DEF RestoreTURN, RestoreTypes
  <2>3. \A m \in Nodes \ {n} : turn'[m] = turn[m]
    BY <1>2, <1>7 DEF RestoreTURN, Started
  <2>4. HealedNode(n) => HealedNode(n)'
    BY <1>1, <2>1, <2>2 DEF HealedNode, GatewayBack, NoSecret
  <2> QED
    BY <1>3, <2>1, <2>3, <2>4
<1>8. CASE RestoreSFU(n)
  <2>1. r.pc = "sfu" /\ UNCHANGED <<turn, gateway, file>> /\ (config = None => sfu' = sfu)
    BY <1>8 DEF RestoreSFU
  <2>2. restore'[n].pc = "idle"
    BY <1>2, <1>8 DEF RestoreSFU, NoRestore
  <2>3. \A m \in Nodes \ {n} : sfu'[m] = sfu[m]
    BY <1>2, <1>8 DEF RestoreSFU, Started
  <2>4. config = None => (HealedNode(n) => HealedNode(n)')
    BY <1>1, <2>1, <2>2 DEF HealedNode, GatewayBack, NoSecret
  <2> QED
    BY <1>3, <2>1, <2>3, <2>4
<1> QED
  BY <1>4, <1>5, <1>6, <1>7, <1>8 DEF Restore

\* Every action keeps a healed system healed.
LEMMA HealedKept == Types /\ Placed /\ Written /\ AloneInv /\ HealedInv /\ [Next]_vars => HealedInv'
<1> SUFFICES ASSUME Types, Placed, Written, AloneInv, HealedInv, [Next]_vars, noise' = {"healed"}
             PROVE  Healed'
  BY DEF HealedInv
<1>0. ASSUME Notes PROVE noise = {"healed"} /\ Healed /\ Alone
  BY <1>0 DEF HealedInv, AloneInv, Notes
<1>n. /\ ~Note("lost", TRUE) /\ ~Note("rewrite", TRUE)
      /\ \A b : Note("crash", b) \/ Note("overlap", b) => Notes
  BY DEF Note, Notes
<1>1. ASSUME NEW p \in Nodes, NEW op \in Ops, Begin(p, op) PROVE Healed'
  BY <1>1, BeginHealed
<1>2. ASSUME NEW p \in Nodes, Call(p) PROVE Healed'
  <2>1. "lost" \notin noise'
    OBVIOUS
  <2> QED
    BY <1>0, <1>2, <2>1, CallNotes, CallHealed, InsertHealed
<1>3. ASSUME NEW p \in Nodes, Disconnect(p) PROVE FALSE
  BY <1>3, <1>n DEF Disconnect
<1>4. ASSUME NEW n \in Nodes, Crash(n) PROVE Healed'
  BY <1>0, <1>4, <1>n, CrashHealed DEF Crash
<1>5. ASSUME NEW n \in Nodes, Restart(n) PROVE Healed'
  BY <1>0, <1>5, <1>n, RestartHealed DEF Restart
<1>6. ASSUME NEW n \in Nodes, Restore(n) PROVE Healed'
  BY <1>0, <1>6, RestoreNotes, RestoreHealed
<1>7. ASSUME Rewrite PROVE FALSE
  BY <1>7, <1>n DEF Rewrite
<1>8. CASE UNCHANGED vars
  <2>1. /\ UNCHANGED <<config, stealth, rows, turnDNS, stealthDNS, call>>
        /\ UNCHANGED <<sfu, turn, gateway, file, up, restore, noise>>
    BY <1>8 DEF vars, tables, units
  <2>2. Same /\ Healed
    BY <2>1 DEF Same, Calling, HealedInv
  <2> QED
    BY <2>2, SameHealed
<1> QED
  BY <1>1, <1>2, <1>3, <1>4, <1>5, <1>6, <1>7, <1>8 DEF Next

-----------------------------------------------------------------------------
(* The theorems. *)

\* The invariant holds at first.
LEMMA InitInvariant == Init => IInv
<1> SUFFICES ASSUME Init PROVE IInv
  OBVIOUS
<1>1. Types
  BY InitTypes
<1>2. /\ \A n \in Nodes : call[n] = NoCall /\ restore[n] = NoRestore /\ sfu[n] = NoSFU
      /\ \A n \in Nodes : turn[n] = NoTURN /\ gateway[n] = Plain /\ file[n] = NoFile
      /\ up = Nodes /\ noise = {} /\ config = None /\ stealth = FALSE /\ rows = NoRows
      /\ turnDNS = {} /\ stealthDNS = {}
  BY DEF Init, NoRows
<1>3. \A n \in Nodes : ~Calling(n) /\ ~Restoring(n) /\ restore[n].pc = "idle"
  BY <1>2, NoCallFacts DEF Calling, Restoring, NoRestore
<1>4. Placed /\ Written /\ AloneInv
  BY <1>2, <1>3 DEF Placed, Written, NoFile, AloneInv, Alone
<1>5. Rest
  <2>1. ASSUME NEW n \in Nodes
        PROVE  Forgets(n) /\ HasSFU(n) /\ HasTURN(n, stealth) /\ HasGateway(n, stealth) /\ Reads(n)
    <3>1. NoFile.sec = None
      BY DEF NoFile
    <3>2. SFUFor(n) = NoSFU /\ n \notin TURNNodes /\ GatewayFor(n, stealth) = Plain
      BY <1>2 DEF SFUFor, TURNNodes, GatewayFor, NoRows, NoBlocks, NoSFU, Plain
    <3>3. HasSFU(n) /\ HasTURN(n, stealth) /\ HasGateway(n, stealth)
      BY <1>2, <3>2 DEF HasSFU, HasTURN, HasGateway
    <3> QED
      BY <1>2, <1>3, <3>1, <3>3 DEF Forgets, Reads
  <2> QED
    BY <1>2, <2>1 DEF Rest
<1>6. CalmInv
  BY <1>2, <1>3, <1>5, NoCallFacts DEF CalmInv, Undisturbed, Fresh
<1>7. HealedInv
  BY <1>2 DEF HealedInv
<1> QED
  BY <1>1, <1>4, <1>6, <1>7 DEF IInv

\* The calls, restores, crashes and repairs of WebRTC keep the inductive
\* invariant: the variables have their types, tasks that do not overlap are
\* alone, and what a call is done with is as the tables say.
THEOREM WebRTCInvariance == Spec => []IInv
<1>1. IInv /\ [Next]_vars => IInv'
  BY TypesKept, PlacedKept, WrittenKept, AloneKept, CalmKept, HealedKept DEF IInv
<1> QED
  BY <1>1, InitInvariant, PTL DEF Spec

\* Every variable of the WebRTC calls has its type, and every call is at a
\* step of its program.
THEOREM WebRTCTypeCorrect == Spec => []TypeOK
<1>1. IInv => TypeOK
  BY TypesGive DEF IInv
<1> QED
  BY <1>1, WebRTCInvariance, PTL

\* A quiet system has no task.
LEMMA WhenQuiet ==
    ASSUME Quiet
    PROVE  Idle /\ \A n \in Nodes : ~Calling(n)
BY NoCallFacts DEF Quiet, Idle, Calling, NoRestore

\* An undisturbed, quiet system with WebRTC enabled serves it.
LEMMA ServedWhenOn == ASSUME IInv, noise = {}, Quiet, config # None PROVE AllServed
<1>1. Idle /\ Rest /\ Types
  BY WhenQuiet DEF IInv, CalmInv, Undisturbed
<1>2. TablesServe /\ stealthDNS = IF stealth THEN TURNNodes ELSE {}
  BY <1>1 DEF Rest
<1>3. ASSUME NEW n \in up PROVE Served(n)
  <2>0. n \in Nodes
    BY <1>1 DEF Types, TaskTypes
  <2>1. Steady(n) /\ TURNBack(n) /\ GatewayBack(n) /\ "respawn" \notin noise
    BY <1>1, <2>0, WhenIdle
  <2>2. HasSFU(n) /\ HasTURN(n, stealth) /\ HasGateway(n, stealth)
    BY <1>1, <2>0 DEF Rest
  <2> QED
    BY <2>1, <2>2 DEF Served, HasSFU, SFUFor, HasTURN, TURNFor, HasGateway, GatewayFor
<1> QED
  BY <1>2, <1>3 DEF AllServed, TablesServe

\* WebRTC that EnableWebRTC enabled, when nothing disturbed the system, is
\* served by every node that is up, on the reserved ports and with the current
\* secret, also after reboots and rotations.
THEOREM WebRTCServed == Spec => []EnabledIsServed
<1>1. IInv => EnabledIsServed
  BY ServedWhenOn DEF EnabledIsServed
<1> QED
  BY <1>1, WebRTCInvariance, PTL

\* An undisturbed, quiet system with WebRTC disabled has nothing of it left.
LEMMA ClearedWhenOff ==
    ASSUME IInv, noise = {}, Quiet, config = None
    PROVE  /\ rows = NoRows /\ turnDNS = {} /\ stealthDNS = {}
           /\ \A n \in up : /\ sfu[n] = NoSFU /\ gateway[n].sec = None /\ file[n].sec = None
                            /\ turn[n] = NoTURN /\ gateway[n] = Plain
<1>1. Idle /\ Rest /\ Types /\ up \subseteq Nodes
  BY WhenQuiet DEF IInv, CalmInv, Undisturbed, Types, TaskTypes
<1>2. ASSUME NEW n \in Nodes
      PROVE  /\ rows = NoRows /\ turnDNS = {} /\ stealthDNS = {}
             /\ n \in up => /\ sfu[n] = NoSFU /\ gateway[n].sec = None /\ file[n].sec = None
                            /\ turn[n] = NoTURN /\ gateway[n] = Plain
  <2>1. /\ rows = NoRows /\ turnDNS = {} /\ stealthDNS = {} /\ Forgets(n)
        /\ sfu[n] = NoSFU /\ turn[n] = NoTURN /\ (n \in up => gateway[n] = Plain)
    BY <1>1, RestOff
  <2>2. n \in up => file[n].sec = None
    BY <1>1, <2>1, WhenIdle DEF Forgets
  <2> QED
    BY <2>1, <2>2 DEF Plain
<1>3. PICK n \in Nodes : TRUE
  BY Constants DEF Nodes
<1> QED
  BY <1>1, <1>2, <1>3

\* A healed, quiet system with WebRTC disabled has no port, no SFU and no secret
\* left.
LEMMA HealedWhenOff ==
    ASSUME IInv, noise = {"healed"}, Quiet, config = None
    PROVE  /\ rows = NoRows /\ turnDNS = {} /\ stealthDNS = {}
           /\ \A n \in up : sfu[n] = NoSFU /\ gateway[n].sec = None /\ file[n].sec = None
<1>1. Idle /\ HealedRest /\ up \subseteq Nodes
  BY WhenQuiet DEF IInv, HealedInv, Healed, Types, TaskTypes
<1> QED
  BY <1>1, WhenIdle DEF HealedRest, NoSecret

\* After DisableWebRTC, or the clean-up of a failed EnableWebRTC, no port is
\* reserved, no SFU runs, and no gateway or state file has a secret; whatever
\* went wrong before the call, if nothing disturbs the call itself.
THEOREM WebRTCHeals == Spec => []DisableHeals
<1>1. IInv => DisableHeals
  <2> SUFFICES ASSUME IInv, noise \subseteq {"healed"}, Quiet, config = None
               PROVE  /\ rows = NoRows
                      /\ turnDNS = {} /\ stealthDNS = {}
                      /\ \A n \in up : /\ sfu[n] = NoSFU /\ gateway[n].sec = None /\ file[n].sec = None
                                       /\ noise = {} => turn[n] = NoTURN /\ gateway[n] = Plain
    BY DEF DisableHeals, NoRows
  <2>1. noise = {} \/ (noise = {"healed"} /\ noise # {})
    OBVIOUS
  <2>2. CASE noise = {}
    BY <2>2, ClearedWhenOff
  <2>3. CASE noise = {"healed"} /\ noise # {}
    BY <2>3, HealedWhenOff
  <2> QED
    BY <2>1, <2>2, <2>3
<1> QED
  BY <1>1, WebRTCInvariance, PTL

\* EnableWebRTCStealth and DisableWebRTCStealth, also when a server does not
\* come back and the call rolls back: the stealth name resolves, and gateways
\* advertise it, only while the flag is set and the TURN servers have it.
THEOREM WebRTCHonest == Spec => []StealthIsHonest
<1>1. IInv => StealthIsHonest
  <2> SUFFICES ASSUME IInv, noise \subseteq {"respawn"}, Quiet
               PROVE  /\ ~stealth => stealthDNS = {} /\ \A n \in up : ~gateway[n].stealth
                      /\ stealth => \A n \in up \cap TURNNodes : turn[n].stealth
    BY DEF StealthIsHonest
  <2>1. Idle /\ Rest /\ Types /\ up \subseteq Nodes /\ stealth \in BOOLEAN
    BY WhenQuiet DEF IInv, CalmInv, Undisturbed, Types, TaskTypes, TableTypes
  <2>2. ~stealth => stealthDNS = {} /\ stealth = FALSE
    BY <2>1 DEF Rest
  <2>3. ASSUME NEW n \in up
        PROVE  (~stealth => ~gateway[n].stealth) /\ (stealth /\ n \in TURNNodes => turn[n].stealth)
    <3>0. n \in Nodes
      BY <2>1
    <3>1. TURNBack(n) /\ GatewayBack(n) /\ HasTURN(n, stealth) /\ HasGateway(n, stealth)
      BY <2>1, <3>0, WhenIdle DEF Rest
    <3>2. gateway[n].stealth = stealth
      BY <3>1 DEF HasGateway, GatewayFor
    <3>3. stealth /\ n \in TURNNodes => turn[n].stealth
      BY <3>1 DEF HasTURN, TURNFor
    <3> QED
      BY <3>2, <3>3
  <2> QED
    BY <2>2, <2>3
<1> QED
  BY <1>1, WebRTCInvariance, PTL
=============================================================================

------------------------- MODULE PersistentSockets -------------------------
(***************************************************************************)
(* Persistent WebSocket functions of one gateway: a WASM instance per      *)
(* connection. Three goroutines share an instance: the connection's        *)
(* handler, which reads frames and submits them, Run, which takes them     *)
(* from a bounded channel and calls ws_frame, and the shutdown of the      *)
(* gateway, which closes all instances.                                    *)
(*                                                                         *)
(* Frames are numbered in the order they are read; the caller's identity   *)
(* is the number of auth.refresh frames applied. A guest call ends by      *)
(* itself or at its timeout: the runtime closes a module whose context is  *)
(* done. Pings, acknowledgements and log buffers are left out.             *)
(***************************************************************************)
EXTENDS Integers, FiniteSets, Sequences

CONSTANTS Conns,        \* connections
          Capacity,     \* of the Manager (5000 in the code)
          MaxInflight,  \* frames in the channel (64 in the code)
          MaxFrames,    \* bound: frames per connection
          MaxRefreshes  \* bound: auth.refresh frames per connection

ASSUME PersistentSocketsAssumption ==
    /\ IsFiniteSet(Conns)
    /\ {Capacity, MaxInflight} \subseteq Nat \ {0}
    /\ {MaxFrames, MaxRefreshes} \subseteq Nat

VARIABLES
    active,     \* Manager.activeCount
    registered, \* Manager.instances
    pc,         \* per connection, where its handler is
    sent,       \* frames read from the connection
    identity,   \* Instance.invCtx
    inbound,    \* the channel
    run,        \* the Run goroutine
    cancelled,  \* runCancel was called
    once,       \* Instance.closeOnce and the steps of Close
    open,       \* the channel is open
    live,       \* the module is not closed
    guest,      \* calls that are executing in the module
    handled,    \* the frames ws_frame was called for
    gateway,    \* "up", or ShutdownAll has begun ("closing") or ended ("closed")
    snapshot    \* the instances ShutdownAll closes

handlerVars == <<sent, identity>>
instVars == <<inbound, run, cancelled, once, open, live, guest, handled>>
gatewayVars == <<gateway, snapshot>>
vars == <<active, registered, pc, handlerVars, instVars, gatewayVars>>

Init ==
    /\ active = 0 /\ registered = {} /\ gateway = "up" /\ snapshot = {}
    /\ pc = [c \in Conns |-> "new"]
    /\ sent = [c \in Conns |-> 0] /\ identity = [c \in Conns |-> 0]
    /\ inbound = [c \in Conns |-> <<>>] /\ handled = [c \in Conns |-> <<>>]
    /\ run = [c \in Conns |-> "none"] /\ cancelled = [c \in Conns |-> FALSE]
    /\ once = [c \in Conns |-> "unused"]
    /\ open = [c \in Conns |-> FALSE] /\ live = [c \in Conns |-> FALSE]
    /\ guest = [c \in Conns |-> {}]

Closed(c) == once[c] # "unused"
Goes(c, to) == pc' = [pc EXCEPT ![c] = to]
At(c, where) == pc[c] = where

-----------------------------------------------------------------------------
(* The handler of a connection. *)

\* Acquire reads the counter, then adds.
AcquireCheck(c) ==
    /\ At(c, "new")
    /\ Goes(c, IF active >= Capacity THEN "gone" ELSE "acquire")
    /\ UNCHANGED <<active, registered, handlerVars, instVars, gatewayVars>>

AcquireAdd(c) ==
    /\ At(c, "acquire")
    /\ active' = active + 1
    /\ Goes(c, "slot")
    /\ UNCHANGED <<registered, handlerVars, instVars, gatewayVars>>

\* Mutant: the slot is kept when there is no connection.
UpgradeFailsKeepsSlot(c) ==
    /\ At(c, "slot")
    /\ Goes(c, "gone")
    /\ UNCHANGED <<active, registered, handlerVars, instVars, gatewayVars>>

\* The upgrade, the instantiation or NewInstance fails: releaseSlot.
UpgradeFails(c) ==
    /\ At(c, "slot")
    /\ active' = active - 1
    /\ Goes(c, "gone")
    /\ UNCHANGED <<registered, handlerVars, instVars, gatewayVars>>

Register(c) ==
    /\ At(c, "slot") /\ gateway # "closed"
    /\ registered' = registered \cup {c}
    /\ open' = [open EXCEPT ![c] = TRUE] /\ live' = [live EXCEPT ![c] = TRUE]
    /\ Goes(c, "open")
    /\ UNCHANGED <<active, handlerVars, inbound, run, cancelled, once, guest, handled,
                   gatewayVars>>

OpenCall(c) ==
    /\ At(c, "open") /\ live[c]
    /\ guest' = [guest EXCEPT ![c] = @ \cup {"ws_open"}]
    /\ Goes(c, "opening")
    /\ UNCHANGED <<active, registered, handlerVars, inbound, run, cancelled, once, open,
                   live, handled, gatewayVars>>

\* ws_open accepts, and Run is started, or rejects, traps or finds the module
\* closed; the runtime closes a module whose call is cut off.
OpenReturns(c) ==
    /\ At(c, "opening") \/ (At(c, "open") /\ ~live[c])
    /\ guest' = [guest EXCEPT ![c] = @ \ {"ws_open"}]
    /\ \/ live[c] /\ Goes(c, "loop") /\ run' = [run EXCEPT ![c] = "idle"] /\ UNCHANGED live
       \/ /\ Goes(c, "close") /\ UNCHANGED run
          /\ \E l \in {FALSE, live[c]} : live' = [live EXCEPT ![c] = l]
    /\ UNCHANGED <<active, registered, handlerVars, inbound, cancelled, once, open,
                   handled, gatewayVars>>

\* Submit tests closed before it sends. The test of the token's expiry,
\* which ends the loop, comes first.
ReadFrame(c) ==
    /\ At(c, "loop") /\ sent[c] < MaxFrames
    /\ \/ Goes(c, "teardown") /\ UNCHANGED sent
       \/ /\ sent' = [sent EXCEPT ![c] = @ + 1]
          /\ Goes(c, IF Closed(c) THEN "teardown" ELSE "send")
    /\ UNCHANGED <<active, registered, identity, instVars, gatewayVars>>

\* Mutant: the channel has no bound.
SendUnbounded(c) ==
    /\ At(c, "send")
    /\ inbound' = [inbound EXCEPT ![c] = Append(@, [no |-> sent[c], as |-> identity[c]])]
    /\ Goes(c, "loop")
    /\ UNCHANGED <<active, registered, handlerVars, run, cancelled, once, open, live, guest,
                   handled, gatewayVars>>

\* Mutant: a full channel loses its oldest frame.
SendDropsOldest(c) ==
    /\ At(c, "send")
    /\ LET frame == [no |-> sent[c], as |-> identity[c]] IN
       IF open[c]
       THEN /\ inbound' = [inbound EXCEPT ![c] =
                              Append(IF Len(@) < MaxInflight THEN @ ELSE Tail(@), frame)]
            /\ Goes(c, "loop")
       ELSE UNCHANGED inbound /\ Goes(c, "unwind")
    /\ UNCHANGED <<active, registered, handlerVars, run, cancelled, once, open, live, guest,
                   handled, gatewayVars>>

\* A send on a channel that was closed since the test panics; the server
\* recovers, and the deferred calls run.
Send(c) ==
    /\ At(c, "send")
    /\ IF open[c] /\ Len(inbound[c]) < MaxInflight
       THEN /\ inbound' = [inbound EXCEPT ![c] = Append(@, [no |-> sent[c], as |-> identity[c]])]
            /\ Goes(c, "loop")
       ELSE UNCHANGED inbound /\ Goes(c, IF open[c] THEN "teardown" ELSE "unwind")
    /\ UNCHANGED <<active, registered, handlerVars, run, cancelled, once, open, live,
                   guest, handled, gatewayVars>>

\* auth.refresh: UpdateInvocationContext swaps the identity.
Refresh(c) ==
    /\ At(c, "loop") /\ identity[c] < MaxRefreshes
    /\ identity' = [identity EXCEPT ![c] = @ + 1]
    /\ UNCHANGED <<active, registered, pc, sent, instVars, gatewayVars>>

\* The read fails: the client is gone, or silent for a minute.
Disconnect(c) ==
    /\ At(c, "loop")
    /\ Goes(c, "teardown")
    /\ UNCHANGED <<active, registered, handlerVars, instVars, gatewayVars>>

Teardown(c) ==
    /\ At(c, "teardown")
    /\ cancelled' = [cancelled EXCEPT ![c] = TRUE]
    /\ Goes(c, "close")
    /\ UNCHANGED <<active, registered, handlerVars, inbound, run, once, open, live, guest,
                   handled, gatewayVars>>

\* Mutant: a flag instead of the Once: the second caller does not wait.
CloseReturnsAtOnce(c) ==
    /\ At(c, "close") /\ Closed(c)
    /\ Goes(c, "unwind")
    /\ UNCHANGED <<active, registered, handlerVars, instVars, gatewayVars>>

\* closeOnce.Do: the first executes Close, another waits for it.
CloseReturns(c) ==
    /\ At(c, "close") /\ once[c] = "done"
    /\ Goes(c, "unwind")
    /\ UNCHANGED <<active, registered, handlerVars, instVars, gatewayVars>>

\* The deferred calls, in their order.
Unregister(c) ==
    /\ At(c, "unwind")
    /\ registered' = registered \ {c}
    /\ Goes(c, "release")
    /\ UNCHANGED <<active, handlerVars, instVars, gatewayVars>>

Release(c) ==
    /\ At(c, "release")
    /\ active' = IF active > 0 THEN active - 1 ELSE active
    /\ Goes(c, "gone")
    /\ UNCHANGED <<registered, handlerVars, instVars, gatewayVars>>

Handler(c) ==
    \/ AcquireCheck(c) \/ AcquireAdd(c) \/ UpgradeFails(c) \/ Register(c)
    \/ OpenCall(c) \/ OpenReturns(c) \/ Send(c)
    \/ Teardown(c) \/ CloseReturns(c) \/ Unregister(c) \/ Release(c)

Client(c) == ReadFrame(c) \/ Refresh(c) \/ Disconnect(c)

-----------------------------------------------------------------------------
(* Instance.Close. *)

CloseBegins(c) ==
    /\ once[c] = "unused"
    /\ once' = [once EXCEPT ![c] = "closing"]
    /\ UNCHANGED <<active, registered, pc, handlerVars, inbound, run, cancelled, open, live, guest,
                   handled, gatewayVars>>

\* Mutant: nobody empties the channel.
DrainNever(c) == FALSE /\ UNCHANGED vars

\* Besides, a goroutine empties the channel.
Drain(c) ==
    /\ Closed(c) /\ inbound[c] # <<>>
    /\ inbound' = [inbound EXCEPT ![c] = Tail(@)]
    /\ UNCHANGED <<active, registered, pc, handlerVars, run, cancelled, once, open, live,
                   guest, handled, gatewayVars>>

CloseCall(c) ==
    /\ once[c] = "closing"
    /\ once' = [once EXCEPT ![c] = "calling"]
    /\ guest' = IF live[c] THEN [guest EXCEPT ![c] = @ \cup {"ws_close"}] ELSE guest
    /\ UNCHANGED <<active, registered, pc, handlerVars, inbound, run, cancelled, open,
                   live, handled, gatewayVars>>

\* ws_close has returned or failed: the channel is closed.
CloseInbound(c) ==
    /\ once[c] = "calling"
    /\ once' = [once EXCEPT ![c] = "ending"]
    /\ guest' = [guest EXCEPT ![c] = @ \ {"ws_close"}]
    /\ open' = [open EXCEPT ![c] = FALSE]
    /\ UNCHANGED <<active, registered, pc, handlerVars, inbound, run, cancelled, live, handled,
                   gatewayVars>>

\* The module is closed, and the Once is done.
CloseEnds(c) ==
    /\ once[c] = "ending"
    /\ once' = [once EXCEPT ![c] = "done"]
    /\ live' = [live EXCEPT ![c] = FALSE]
    /\ UNCHANGED <<active, registered, pc, handlerVars, inbound, run, cancelled, open, guest,
                   handled, gatewayVars>>

Close(c) ==
    \/ (At(c, "close") \/ c \in snapshot) /\ CloseBegins(c)
    \/ Drain(c) \/ CloseCall(c) \/ CloseInbound(c) \/ CloseEnds(c)

-----------------------------------------------------------------------------
(* Instance.Run: one frame at a time, under the identity of the moment. *)

\* Mutant: the context of the calls is made once, when Run begins.
TakeFrameAtOpen(c) ==
    /\ run[c] = "idle" /\ inbound[c] # <<>> /\ live[c]
    /\ run' = [run EXCEPT ![c] = "busy"]
    /\ guest' = [guest EXCEPT ![c] = @ \cup {"ws_frame"}]
    /\ LET frame == Head(inbound[c]) IN
       handled' = [handled EXCEPT ![c] = Append(@, [no |-> frame.no, as |-> frame.as, by |-> 0])]
    /\ inbound' = [inbound EXCEPT ![c] = Tail(@)]
    /\ UNCHANGED <<active, registered, pc, handlerVars, cancelled, once, open, live,
                   gatewayVars>>

TakeFrame(c) ==
    /\ run[c] = "idle" /\ inbound[c] # <<>>
    /\ LET frame == Head(inbound[c]) IN
       IF live[c]
       THEN /\ run' = [run EXCEPT ![c] = "busy"]
            /\ guest' = [guest EXCEPT ![c] = @ \cup {"ws_frame"}]
            /\ handled' = [handled EXCEPT ![c] = Append(@, [no |-> frame.no, as |-> frame.as,
                                                            by |-> identity[c]])]
       ELSE /\ run' = [run EXCEPT ![c] = "ended"]
            /\ UNCHANGED <<guest, handled>>
    /\ inbound' = [inbound EXCEPT ![c] = Tail(@)]
    /\ UNCHANGED <<active, registered, pc, handlerVars, cancelled, once, open, live,
                   gatewayVars>>

\* Run ends when ws_frame asks to close, traps or is cut off by its context;
\* the last closes the module.
FrameReturns(c) ==
    /\ run[c] = "busy"
    /\ guest' = [guest EXCEPT ![c] = @ \ {"ws_frame"}]
    /\ \/ live[c] /\ run' = [run EXCEPT ![c] = "idle"] /\ UNCHANGED live
       \/ run' = [run EXCEPT ![c] = "ended"] /\ UNCHANGED live
       \/ run' = [run EXCEPT ![c] = "ended"] /\ live' = [live EXCEPT ![c] = FALSE]
    /\ UNCHANGED <<active, registered, pc, handlerVars, inbound, cancelled, once, open,
                   handled, gatewayVars>>

\* With a frame in the channel the select may take either.
RunStops(c) ==
    /\ run[c] = "idle"
    /\ cancelled[c] \/ (~open[c] /\ inbound[c] = <<>>)
    /\ run' = [run EXCEPT ![c] = "ended"]
    /\ UNCHANGED <<active, registered, pc, handlerVars, inbound, cancelled, once, open,
                   live, guest, handled, gatewayVars>>

Run(c) == TakeFrame(c) \/ FrameReturns(c) \/ RunStops(c)

-----------------------------------------------------------------------------
(* Gateway.Close. *)

ShutdownAll ==
    /\ gateway = "up"
    /\ gateway' = "closing" /\ snapshot' = registered
    /\ UNCHANGED <<active, registered, pc, handlerVars, instVars>>

\* All instances are closed, or the budget is exhausted; then the engine
\* closes its modules.
EngineClose ==
    /\ gateway = "closing"
    /\ gateway' = "closed"
    /\ live' = [c \in Conns |-> FALSE]
    /\ UNCHANGED <<active, registered, pc, handlerVars, inbound, run, cancelled, once, open,
                   guest, handled, snapshot>>

Next ==
    \/ \E c \in Conns : Handler(c) \/ Client(c) \/ Close(c) \/ Run(c)
    \/ ShutdownAll \/ EngineClose

Spec == Init /\ [][Next]_vars

\* Goroutines run on, and guest calls end at their timeout. Clients and the
\* operator owe nothing.
FairSpec ==
    Spec /\ \A c \in Conns : WF_vars(Handler(c)) /\ WF_vars(Close(c)) /\ WF_vars(Run(c))

-----------------------------------------------------------------------------
(* Properties. *)

Frames == [no : 1 .. MaxFrames, as : 0 .. MaxRefreshes]

\* Every variable has its type (Manager, Instance, wsAuthState).
TypeOK ==
    /\ active \in 0 .. Cardinality(Conns) /\ registered \subseteq Conns
    /\ pc \in [Conns -> {"new", "acquire", "slot", "open", "opening", "loop", "send", "teardown",
                          "close", "unwind", "release", "gone"}]
    /\ sent \in [Conns -> 0 .. MaxFrames] /\ identity \in [Conns -> 0 .. MaxRefreshes]
    /\ run \in [Conns -> {"none", "idle", "busy", "ended"}]
    /\ once \in [Conns -> {"unused", "closing", "calling", "ending", "done"}]
    /\ {cancelled, open, live} \subseteq [Conns -> BOOLEAN]
    /\ guest \in [Conns -> SUBSET {"ws_open", "ws_frame", "ws_close"}]
    /\ \A c \in Conns : /\ inbound[c] \in Seq(Frames) /\ Len(inbound[c]) <= MaxInflight
                        /\ \A i \in 1 .. Len(handled[c]) : handled[c][i].no \in 1 .. MaxFrames
    /\ gateway \in {"up", "closing", "closed"} /\ snapshot \subseteq Conns

HasSlot(c) == pc[c] \notin {"new", "acquire", "gone"}

\* "Caller MUST call Release when the connection ends, or the slot leaks": on
\* every path, failed upgrades, rejections and panics included, the counter is
\* the number of connections that hold a slot, and Release finds it positive.
SlotsBalanced == active = Cardinality({c \in Conns : HasSlot(c)})

\* A connection that has ended is not found by Lookup and leaves no open
\* instance behind, whoever closed it; only a handler that panicked in Submit
\* may be gone before the shutdown that closed its channel closes the module.
NothingLeft ==
    \A c \in Conns : pc[c] = "gone" =>
        /\ c \notin registered /\ ~open[c]
        /\ \/ once[c] \in {"unused", "done"} /\ ~live[c]
           \/ once[c] = "ending" /\ c \in snapshot

\* Frames reach ws_frame in the order they were read, none twice, and none is
\* left out as long as the instance is not being closed.
FramesInOrder ==
    \A c \in Conns :
        LET no(i) == handled[c][i].no IN
        /\ \A i, j \in 1 .. Len(handled[c]) : i < j => no(i) < no(j)
        /\ ~Closed(c) => \A i \in 1 .. Len(handled[c]) : no(i) = i

\* A frame read after auth.refresh is never handled under the old identity;
\* one that waited in the channel gets the new one (UpdateInvocationContext).
FreshIdentity ==
    \A c \in Conns : \A i, j \in 1 .. Len(handled[c]) :
        /\ handled[c][i].by >= handled[c][i].as
        /\ i < j => handled[c][i].by <= handled[c][j].by

\* Once the read loop is left, by teardown or by a panic, everything ends:
\* Close returns though shutdown and handler compete for it, the slot is free,
\* the module is closed, Run has ended and the channel is empty.
TeardownEnds ==
    \A c \in Conns :
        (pc[c] \in {"teardown", "unwind"} /\ run[c] # "none") ~>
            /\ pc[c] = "gone" /\ once[c] = "done" /\ ~live[c]
            /\ run[c] = "ended" /\ inbound[c] = <<>>

\* "Frames are processed serially per connection - wazero instances are NOT
\* goroutine-safe": a module executes one call at a time.
SerialGuestCalls == \A c \in Conns : Cardinality(guest[c]) <= 1
=============================================================================

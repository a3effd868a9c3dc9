-------------------------- MODULE ServerlessProofs --------------------------
(***************************************************************************)
(* Proofs about the two ways a serverless function is kept running or      *)
(* invoked: PersistentSockets for any number of connections and frames,    *)
(* any capacity and any size of the channel, and TriggerDispatch for any   *)
(* number of gateways, messages and handlers.                              *)
(***************************************************************************)
EXTENDS PersistentSockets, TriggerDispatch, FiniteSetTheorems, SequenceTheorems, TLAPS

Places == {"new", "acquire", "slot", "open", "opening", "loop", "send", "teardown",
           "close", "unwind", "release", "gone"}
Handled == [no : 1 .. MaxFrames, as : 0 .. MaxRefreshes, by : 0 .. MaxRefreshes]

Types ==
    /\ registered \in SUBSET Conns /\ snapshot \in SUBSET Conns
    /\ gateway \in {"up", "closing", "closed"}
    /\ pc \in [Conns -> Places]
    /\ sent \in [Conns -> 0 .. MaxFrames] /\ identity \in [Conns -> 0 .. MaxRefreshes]
    /\ run \in [Conns -> {"none", "idle", "busy", "ended"}]
    /\ once \in [Conns -> {"unused", "closing", "calling", "ending", "done"}]
    /\ cancelled \in [Conns -> BOOLEAN] /\ open \in [Conns -> BOOLEAN]
    /\ live \in [Conns -> BOOLEAN]
    /\ guest \in [Conns -> SUBSET {"ws_open", "ws_frame", "ws_close"}]
    /\ inbound \in [Conns -> Seq(Frames)] /\ handled \in [Conns -> Seq(Handled)]
    /\ \A c \in Conns : Len(inbound[c]) <= MaxInflight
    /\ gateway = "up" => snapshot = {}

Holders == {c \in Conns : HasSlot(c)}

\* Nothing of an instance exists: before Register, and for ever if it is not
\* reached.
Unopened(c) ==
    /\ once[c] = "unused" /\ ~open[c] /\ ~live[c]
    /\ c \notin registered /\ c \notin snapshot

\* How far the handler is, and what Close has left of the instance.
Stage(c) ==
    /\ pc[c] \in {"new", "acquire", "slot"} => Unopened(c)
    /\ pc[c] \in {"new", "acquire", "slot", "open", "opening"} =>
          sent[c] = 0 /\ run[c] = "none" /\ inbound[c] = <<>> /\ handled[c] = <<>>
    /\ pc[c] \notin {"new", "acquire", "slot", "gone"} =>
          (open[c] <=> once[c] \notin {"ending", "done"})
    /\ pc[c] \in {"unwind", "release"} => once[c] \in {"ending", "done"}
    /\ pc[c] = "gone" => Unopened(c) \/ once[c] \in {"ending", "done"}
    /\ once[c] = "ending" => ~open[c]
    /\ once[c] = "done" => ~open[c] /\ ~live[c]
    /\ once[c] \in {"closing", "calling", "ending"} /\ pc[c] # "close" => c \in snapshot
    /\ pc[c] \in {"release", "gone"} => c \notin registered
    /\ pc[c] = "send" => sent[c] > 0

\* The frames that were read and not lost, in their order: first those handled,
\* then those in the channel, then the one being sent.
Read(c) == IF pc[c] = "send" THEN sent[c] - 1 ELSE sent[c]

Order(c) ==
    /\ \A i \in 1 .. Len(handled[c]) : handled[c][i].no <= Read(c)
    /\ \A i \in 1 .. Len(inbound[c]) : inbound[c][i].no <= Read(c)
    /\ \A i, j \in 1 .. Len(handled[c]) : i < j => handled[c][i].no < handled[c][j].no
    /\ \A i, j \in 1 .. Len(inbound[c]) : i < j => inbound[c][i].no < inbound[c][j].no
    /\ \A i \in 1 .. Len(handled[c]), j \in 1 .. Len(inbound[c]) :
          handled[c][i].no < inbound[c][j].no

\* Until Close begins none is missing, in the channel as long as Run takes them.
Complete(c) ==
    ~Closed(c) =>
        /\ \A i \in 1 .. Len(handled[c]) : handled[c][i].no = i
        /\ run[c] # "ended" =>
              /\ \A i \in 1 .. Len(inbound[c]) : inbound[c][i].no = Len(handled[c]) + i
              /\ pc[c] \in {"loop", "send"} => Read(c) = Len(handled[c]) + Len(inbound[c])

\* Identities only grow.
Identities(c) ==
    /\ \A i \in 1 .. Len(inbound[c]) : inbound[c][i].as <= identity[c]
    /\ \A i \in 1 .. Len(handled[c]) : /\ handled[c][i].by <= identity[c]
                                       /\ handled[c][i].as <= handled[c][i].by
    /\ \A i, j \in 1 .. Len(handled[c]) : i < j => handled[c][i].by <= handled[c][j].by

ConnInv(c) == Stage(c) /\ Order(c) /\ Complete(c) /\ Identities(c)

IInv == Types /\ SlotsBalanced /\ \A c \in Conns : ConnInv(c)


-----------------------------------------------------------------------------
(* Lemmas. *)

\* The constants are naturals; the channel and the manager hold at least one.
LEMMA Constants ==
    /\ IsFiniteSet(Conns)
    /\ Capacity \in Nat /\ Capacity > 0 /\ MaxInflight \in Nat /\ MaxInflight > 0
    /\ MaxFrames \in Nat /\ MaxRefreshes \in Nat
BY PersistentSocketsAssumption

\* What a send does to the channel.
LEMMA AppendFacts ==
    ASSUME NEW S, NEW s \in Seq(S), NEW e \in S
    PROVE  /\ Append(s, e) \in Seq(S) /\ Len(s) \in Nat
           /\ Len(Append(s, e)) = Len(s) + 1
           /\ \A i \in 1 .. Len(s) : Append(s, e)[i] = s[i]
           /\ Append(s, e)[Len(s) + 1] = e
BY AppendProperties, LenProperties

\* What a receive does to it.
LEMMA TailFacts ==
    ASSUME NEW S, NEW s \in Seq(S), s # <<>>
    PROVE  /\ Len(s) \in Nat /\ Len(s) >= 1
           /\ Head(s) = s[1] /\ Head(s) \in S
           /\ Tail(s) \in Seq(S) /\ Len(Tail(s)) = Len(s) - 1
           /\ \A i \in 1 .. Len(s) - 1 : Tail(s)[i] = s[i + 1]
BY HeadTailProperties, LenProperties, EmptySeq

\* The handler of c moves: who holds a slot changes for c alone.
LEMMA HoldersStep ==
    ASSUME Types, NEW c \in Conns, NEW to, pc' = [pc EXCEPT ![c] = to]
    PROVE  Holders' = IF to \in {"new", "acquire", "gone"} THEN Holders \ {c}
                      ELSE Holders \cup {c}
BY DEF Types, Holders, HasSlot

\* The connections that hold a slot can be counted.
LEMMA HoldersFinite ==
    /\ IsFiniteSet(Holders) /\ Cardinality(Holders) \in Nat
    /\ Cardinality(Holders) <= Cardinality(Conns) /\ Cardinality(Conns) \in Nat
BY Constants, FS_Subset, FS_CardinalityType DEF Holders

-----------------------------------------------------------------------------
(* A step of a connection, its instance or its goroutines. *)

ConnStep(c) == Handler(c) \/ Client(c) \/ Close(c) \/ Run(c)

\* Types are kept: a frame is made of the numbers the handler has, and is sent
\* only when there is room.
LEMMA TypesStep ==
    ASSUME IInv, NEW c \in Conns, ConnStep(c)
    PROVE  Types'
<1> USE Constants
<1>0. Types /\ ConnInv(c)
  BY DEF IInv
<1>1. CASE AcquireCheck(c)
  BY <1>0, <1>1 DEF AcquireCheck, Goes, Types, Places, handlerVars, instVars, gatewayVars
<1>2. CASE AcquireAdd(c)
  BY <1>0, <1>2 DEF AcquireAdd, Goes, Types, Places, handlerVars, instVars, gatewayVars
<1>3. CASE UpgradeFails(c)
  BY <1>0, <1>3 DEF UpgradeFails, Goes, Types, Places, handlerVars, instVars, gatewayVars
<1>4. CASE Register(c)
  BY <1>0, <1>4 DEF Register, Goes, Types, Places, handlerVars, instVars, gatewayVars
<1>5. CASE OpenCall(c)
  BY <1>0, <1>5 DEF OpenCall, Goes, Types, Places, handlerVars, instVars, gatewayVars
<1>6. CASE OpenReturns(c)
  <2>1. guest' \in [Conns -> SUBSET {"ws_open", "ws_frame", "ws_close"}]
    BY <1>0, <1>6 DEF OpenReturns, Types
  <2>2. /\ pc' \in [Conns -> Places] /\ live' \in [Conns -> BOOLEAN]
        /\ run' \in [Conns -> {"none", "idle", "busy", "ended"}]
    <3>1. CASE Goes(c, "loop") /\ run' = [run EXCEPT ![c] = "idle"] /\ UNCHANGED live
      BY <1>0, <3>1 DEF Goes, Types, Places
    <3>2. CASE /\ Goes(c, "close") /\ UNCHANGED run
               /\ \E l \in {FALSE, live[c]} : live' = [live EXCEPT ![c] = l]
      <4>1. PICK l \in {FALSE, live[c]} : live' = [live EXCEPT ![c] = l]
        BY <3>2
      <4>2. live[c] \in BOOLEAN
        BY <1>0, <1>0 DEF Types
      <4>3. live' \in [Conns -> BOOLEAN]
        BY <1>0, <4>1, <4>2, Zenon DEF Types
      <4> QED
        BY <1>0, <3>2, <4>3 DEF Goes, Types, Places
    <3> QED
      BY <1>6, <3>1, <3>2 DEF OpenReturns
  <2> QED
    BY <1>0, <1>6, <2>1, <2>2 DEF OpenReturns, Types, handlerVars, instVars, gatewayVars
<1>7. CASE Send(c)
  <2>1. CASE open[c] /\ Len(inbound[c]) < MaxInflight
    <3> DEFINE frame == [no |-> sent[c], as |-> identity[c]]
    <3>1. frame \in Frames
      BY <1>0, <1>7 DEF Send, At, Types, ConnInv, Stage, Frames
    <3>2. inbound[c] \in Seq(Frames) /\ Len(inbound[c]) \in Nat
      BY <1>0, LenProperties DEF Types
    <3>3. Append(inbound[c], frame) \in Seq(Frames) /\ Len(Append(inbound[c], frame)) <= MaxInflight
      BY <2>1, <3>1, <3>2, AppendFacts
    <3>4. inbound' = [inbound EXCEPT ![c] = Append(inbound[c], frame)]
      BY <1>7, <2>1 DEF Send
    <3> HIDE DEF frame
    <3> QED
      BY <1>0, <1>7, <2>1, <3>3, <3>4 DEF Send, Goes, Types, Places, handlerVars, instVars, gatewayVars
  <2>2. CASE ~(open[c] /\ Len(inbound[c]) < MaxInflight)
    BY <1>0, <1>7, <2>2 DEF Send, Goes, Types, Places, handlerVars, instVars, gatewayVars
  <2> QED
    BY <2>1, <2>2
<1>8. CASE Teardown(c)
  BY <1>0, <1>8 DEF Teardown, Goes, Types, Places, handlerVars, instVars, gatewayVars
<1>9. CASE CloseReturns(c)
  BY <1>0, <1>9 DEF CloseReturns, Goes, Types, Places, handlerVars, instVars, gatewayVars
<1>10. CASE Unregister(c)
  BY <1>0, <1>10 DEF Unregister, Goes, Types, Places, handlerVars, instVars, gatewayVars
<1>11. CASE Release(c)
  BY <1>0, <1>11 DEF Release, Goes, Types, Places, handlerVars, instVars, gatewayVars
<1>12. CASE ReadFrame(c)
  <2>1. sent[c] + 1 \in 0 .. MaxFrames
    BY <1>0, <1>12 DEF ReadFrame, Types
  <2>2. sent' \in [Conns -> 0 .. MaxFrames]
    BY <1>0, <2>1, <1>12 DEF ReadFrame, Types
  <2>3. \E to \in {"teardown", "send"} : pc' = [pc EXCEPT ![c] = to]
    BY <1>12 DEF ReadFrame, Goes
  <2>4. pc' \in [Conns -> Places]
    BY <1>0, <2>3 DEF Types, Places
  <2> QED
    BY <1>0, <1>12, <2>2, <2>4 DEF ReadFrame, Types, handlerVars, instVars, gatewayVars
<1>13. CASE Refresh(c)
  BY <1>0, <1>13 DEF Refresh, Goes, Types, Places, handlerVars, instVars, gatewayVars
<1>14. CASE Disconnect(c)
  BY <1>0, <1>14 DEF Disconnect, Goes, Types, Places, handlerVars, instVars, gatewayVars
<1>15. CASE CloseBegins(c)
  BY <1>0, <1>15 DEF CloseBegins, Goes, Types, Places, handlerVars, instVars, gatewayVars
<1>16. CASE Drain(c)
  <2>1. inbound[c] \in Seq(Frames) /\ inbound[c] # <<>>
    BY <1>0, <1>16 DEF Types, Drain
  <2>2. Tail(inbound[c]) \in Seq(Frames) /\ Len(Tail(inbound[c])) <= MaxInflight
    BY <1>0, <2>1, TailFacts DEF Types
  <2> QED
    BY <1>0, <1>16, <2>2 DEF Drain, Types, handlerVars, instVars, gatewayVars
<1>17. CASE CloseCall(c)
  BY <1>0, <1>17 DEF CloseCall, Goes, Types, Places, handlerVars, instVars, gatewayVars
<1>18. CASE CloseEnds(c)
  BY <1>0, <1>18 DEF CloseEnds, Goes, Types, Places, handlerVars, instVars, gatewayVars
<1>22. CASE CloseInbound(c)
  BY <1>0, <1>22 DEF CloseInbound, Goes, Types, Places, handlerVars, instVars, gatewayVars
<1>19. CASE TakeFrame(c)
  <2> DEFINE frame == Head(inbound[c])
             call == [no |-> frame.no, as |-> frame.as, by |-> identity[c]]
  <2>1. inbound[c] \in Seq(Frames) /\ inbound[c] # <<>>
    BY <1>0, <1>19 DEF Types, TakeFrame
  <2>2. /\ Tail(inbound[c]) \in Seq(Frames) /\ Len(Tail(inbound[c])) <= MaxInflight
        /\ frame \in Frames
    BY <1>0, <2>1, TailFacts DEF Types
  <2>3. call \in Handled
    BY <1>0, <2>2 DEF Types, Frames, Handled
  <2>4. Append(handled[c], call) \in Seq(Handled)
    BY <1>0, <2>3, AppendFacts DEF Types
  <2>5. handled' \in [Conns -> Seq(Handled)]
    BY <1>0, <1>19, <2>4 DEF TakeFrame, Types
  <2>6. inbound' = [inbound EXCEPT ![c] = Tail(inbound[c])]
    BY <1>0, <1>19 DEF TakeFrame
  <2>7. inbound' \in [Conns -> Seq(Frames)] /\ \A d \in Conns : Len(inbound'[d]) <= MaxInflight
    BY <1>0, <2>2, <2>6 DEF Types
  <2>8. /\ guest' \in [Conns -> SUBSET {"ws_open", "ws_frame", "ws_close"}]
        /\ run' \in [Conns -> {"none", "idle", "busy", "ended"}]
    <3>1. CASE live[c]
      <4>1. guest' = [guest EXCEPT ![c] = @ \cup {"ws_frame"}] /\ run' = [run EXCEPT ![c] = "busy"]
        BY <1>19, <3>1 DEF TakeFrame
      <4> QED
        BY <1>0, <4>1 DEF Types
    <3>2. CASE ~live[c]
      BY <1>0, <1>19, <3>2 DEF TakeFrame, Types
    <3> QED
      BY <3>1, <3>2
  <2> QED
    BY <1>0, <1>19, <2>5, <2>7, <2>8 DEF TakeFrame, Types, handlerVars, instVars, gatewayVars
<1>20. CASE FrameReturns(c)
  BY <1>0, <1>20 DEF FrameReturns, Goes, Types, Places, handlerVars, instVars, gatewayVars
<1>21. CASE RunStops(c)
  BY <1>0, <1>21 DEF RunStops, Goes, Types, Places, handlerVars, instVars, gatewayVars
<1> QED
  BY <1>1, <1>2, <1>3, <1>4, <1>5, <1>6, <1>7, <1>8, <1>9, <1>10, <1>11, <1>12, <1>13, <1>14, <1>15, <1>16, <1>17, <1>18, <1>19, <1>20, <1>21, <1>22
  DEF ConnStep, Handler, Client, Close, Run

\* A move of the handler that neither takes a slot nor gives one back.
LEMMA SlotsSame ==
    ASSUME Types, SlotsBalanced, NEW c \in Conns, NEW to, Goes(c, to),
           HasSlot(c) <=> to \notin {"new", "acquire", "gone"}, active' = active
    PROVE  SlotsBalanced'
<1>1. Holders' = Holders
  BY HoldersStep DEF Goes, Holders
<1> QED
  BY <1>1 DEF SlotsBalanced, Holders, HasSlot

\* Every step keeps the counter: it is raised and lowered where the handler
\* gets and loses its slot.
LEMMA SlotsStep ==
    ASSUME IInv, NEW c \in Conns, ConnStep(c)
    PROVE  SlotsBalanced'
<1>0. Types /\ SlotsBalanced
  BY DEF IInv
<1>1. active = Cardinality(Holders) /\ (SlotsBalanced' <=> active' = Cardinality(Holders'))
  BY <1>0 DEF SlotsBalanced, Holders, HasSlot
<1>2. CASE pc' = pc /\ active' = active
  BY <1>0, <1>2 DEF SlotsBalanced, HasSlot
<1>3. CASE AcquireAdd(c)
  <2>1. Holders' = Holders \cup {c} /\ c \notin Holders
    BY <1>0, <1>3, HoldersStep DEF AcquireAdd, At, Goes, Holders, HasSlot
  <2>2. Cardinality(Holders') = Cardinality(Holders) + 1
    BY <2>1, HoldersFinite, FS_AddElement
  <2> QED
    BY <1>1, <1>3, <2>2 DEF AcquireAdd
<1>4. CASE UpgradeFails(c) \/ Release(c)
  <2>1. Holders' = Holders \ {c} /\ c \in Holders
    BY <1>0, <1>4, HoldersStep DEF UpgradeFails, Release, At, Goes, Holders, HasSlot
  <2>2. Cardinality(Holders') = Cardinality(Holders) - 1
    BY <2>1, HoldersFinite, FS_RemoveElement
  <2>3. Cardinality(Holders) # 0
    BY <2>1, HoldersFinite, FS_EmptySet
  <2>4. active' = active - 1
    BY <1>1, <1>4, <2>3, HoldersFinite DEF UpgradeFails, Release
  <2> QED
    BY <1>1, <2>2, <2>4
<1>5. CASE AcquireCheck(c)
  <2> DEFINE to == IF active >= Capacity THEN "gone" ELSE "acquire"
  <2>1. Goes(c, to) /\ to \in {"new", "acquire", "gone"} /\ ~HasSlot(c) /\ active' = active
    BY <1>5 DEF AcquireCheck, At, HasSlot
  <2> HIDE DEF to
  <2> QED
    BY <1>0, <2>1, SlotsSame
<1>6. CASE ReadFrame(c)
  <2>1. HasSlot(c) /\ active' = active
        /\ \E to \in {"teardown", "send"} : Goes(c, to)
    BY <1>6 DEF ReadFrame, At, HasSlot
  <2> QED
    BY <1>0, <2>1, SlotsSame
<1>7. CASE Send(c)
  <2>1. HasSlot(c) /\ active' = active
        /\ \E to \in {"loop", "teardown", "unwind"} : Goes(c, to)
    BY <1>7 DEF Send, At, HasSlot
  <2> QED
    BY <1>0, <2>1, SlotsSame
<1>8. CASE \/ Register(c) \/ OpenCall(c) \/ OpenReturns(c) \/ Disconnect(c) \/ Teardown(c)
           \/ CloseReturns(c) \/ Unregister(c)
  <2>1. HasSlot(c) /\ active' = active
        /\ \E to \in {"open", "opening", "loop", "close", "teardown", "unwind", "release"} :
              Goes(c, to)
    BY <1>8 DEF Register, OpenCall, OpenReturns, Disconnect, Teardown, CloseReturns,
                Unregister, At, HasSlot
  <2> QED
    BY <1>0, <2>1, SlotsSame
<1>9. CASE Refresh(c) \/ Close(c) \/ Run(c)
  BY <1>2, <1>9
  DEF Refresh, Close, CloseBegins, Drain, CloseCall, CloseInbound, CloseEnds, Run, TakeFrame, FrameReturns,
      RunStops
<1> QED
  BY <1>3, <1>4, <1>5, <1>6, <1>7, <1>8, <1>9 DEF ConnStep, Handler, Client

-----------------------------------------------------------------------------
(* The other connections. *)

\* Nothing that the invariant says of d changes.
Same(d) ==
    /\ pc'[d] = pc[d] /\ sent'[d] = sent[d] /\ identity'[d] = identity[d]
    /\ inbound'[d] = inbound[d] /\ handled'[d] = handled[d]
    /\ run'[d] = run[d] /\ once'[d] = once[d] /\ open'[d] = open[d] /\ live'[d] = live[d]
    /\ (d \in registered' <=> d \in registered) /\ (d \in snapshot' <=> d \in snapshot)

\* A step of one connection keeps the invariant of the others.
LEMMA SameKeeps ==
    ASSUME NEW d \in Conns, ConnInv(d), Same(d)
    PROVE  ConnInv(d)'
<1>1. Stage(d)'
  BY DEF ConnInv, Same, Stage, Unopened
<1>2. Order(d)'
  BY DEF ConnInv, Same, Order, Read
<1>3. Complete(d)'
  BY DEF ConnInv, Same, Complete, Closed, Read
<1>4. Identities(d)'
  BY DEF ConnInv, Same, Identities
<1> QED
  BY <1>1, <1>2, <1>3, <1>4 DEF ConnInv

\* A step of c is no step of another connection.
LEMMA OthersSame ==
    ASSUME Types, NEW c \in Conns, ConnStep(c), NEW d \in Conns, d # c
    PROVE  Same(d)
<1> USE DEF Types, Same, Goes, handlerVars, instVars, gatewayVars
<1>1. CASE AcquireCheck(c)
  BY <1>1 DEF AcquireCheck
<1>2. CASE AcquireAdd(c)
  BY <1>2 DEF AcquireAdd
<1>3. CASE UpgradeFails(c)
  BY <1>3 DEF UpgradeFails
<1>4. CASE Register(c)
  BY <1>4 DEF Register
<1>5. CASE OpenCall(c)
  BY <1>5 DEF OpenCall
<1>6. CASE OpenReturns(c)
  BY <1>6 DEF OpenReturns
<1>7. CASE Send(c)
  BY <1>7 DEF Send
<1>8. CASE Teardown(c)
  BY <1>8 DEF Teardown
<1>9. CASE CloseReturns(c)
  BY <1>9 DEF CloseReturns
<1>10. CASE Unregister(c)
  BY <1>10 DEF Unregister
<1>11. CASE Release(c)
  BY <1>11 DEF Release
<1>12. CASE ReadFrame(c)
  BY <1>12 DEF ReadFrame
<1>13. CASE Refresh(c)
  BY <1>13 DEF Refresh
<1>14. CASE Disconnect(c)
  BY <1>14 DEF Disconnect
<1>15. CASE CloseBegins(c)
  BY <1>15 DEF CloseBegins
<1>16. CASE Drain(c)
  BY <1>16 DEF Drain
<1>17. CASE CloseCall(c)
  BY <1>17 DEF CloseCall
<1>18. CASE CloseEnds(c)
  BY <1>18 DEF CloseEnds
<1>22. CASE CloseInbound(c)
  BY <1>22 DEF CloseInbound
<1>19. CASE TakeFrame(c)
  BY <1>19 DEF TakeFrame
<1>20. CASE FrameReturns(c)
  BY <1>20 DEF FrameReturns
<1>21. CASE RunStops(c)
  BY <1>21 DEF RunStops
<1> QED
  BY <1>1, <1>2, <1>3, <1>4, <1>5, <1>6, <1>7, <1>8, <1>9, <1>10, <1>11, <1>12, <1>13, <1>14, <1>15, <1>16, <1>17, <1>18, <1>19, <1>20, <1>21, <1>22
  DEF ConnStep, Handler, Client, Close, Run

-----------------------------------------------------------------------------
(* The connection itself. *)

\* The stages of handler, Close and Run stay in step.
LEMMA StageStep ==
    ASSUME IInv, NEW c \in Conns, ConnStep(c)
    PROVE  Stage(c)'
<1>0. Types /\ Stage(c)
  BY DEF IInv, ConnInv
<1> USE <1>0 DEF Types, Places, Stage, Unopened, Goes, At, Closed, handlerVars, instVars, gatewayVars
<1>1. CASE AcquireCheck(c)
  BY <1>1 DEF AcquireCheck
<1>2. CASE AcquireAdd(c)
  BY <1>2 DEF AcquireAdd
<1>3. CASE UpgradeFails(c)
  BY <1>3 DEF UpgradeFails
<1>4. CASE Register(c)
  BY <1>4 DEF Register
<1>5. CASE OpenCall(c)
  BY <1>5 DEF OpenCall
<1>6. CASE OpenReturns(c)
  BY <1>6 DEF OpenReturns
<1>7. CASE Send(c)
  BY <1>7 DEF Send
<1>8. CASE Teardown(c)
  BY <1>8 DEF Teardown
<1>9. CASE CloseReturns(c)
  BY <1>9 DEF CloseReturns
<1>10. CASE Unregister(c)
  BY <1>10 DEF Unregister
<1>11. CASE Release(c)
  BY <1>11 DEF Release
<1>12. CASE ReadFrame(c)
  BY <1>12 DEF ReadFrame
<1>13. CASE Refresh(c)
  BY <1>13 DEF Refresh
<1>14. CASE Disconnect(c)
  BY <1>14 DEF Disconnect
<1>15. CASE (At(c, "close") \/ c \in snapshot) /\ CloseBegins(c)
  BY <1>15 DEF CloseBegins
<1>16. CASE Drain(c)
  BY <1>16 DEF Drain
<1>17. CASE CloseCall(c)
  BY <1>17 DEF CloseCall
<1>18. CASE CloseEnds(c)
  BY <1>18 DEF CloseEnds
<1>22. CASE CloseInbound(c)
  BY <1>22 DEF CloseInbound
<1>19. CASE TakeFrame(c)
  BY <1>19 DEF TakeFrame
<1>20. CASE FrameReturns(c)
  BY <1>20 DEF FrameReturns
<1>21. CASE RunStops(c)
  BY <1>21 DEF RunStops
<1> QED
  BY <1>1, <1>2, <1>3, <1>4, <1>5, <1>6, <1>7, <1>8, <1>9, <1>10, <1>11, <1>12, <1>13, <1>14, <1>15, <1>16, <1>17, <1>18, <1>19, <1>20, <1>21, <1>22
  DEF ConnStep, Handler, Client, Close, Run

\* What a step does to the frames of a connection, as the invariant sees it:
\* most leave channel and handled frames alone.
Quiet(c) ==
    /\ inbound'[c] = inbound[c] /\ handled'[c] = handled[c]
    /\ pc'[c] \in {"loop", "send"} /\ ~Closed(c)' =>
          \/ pc[c] \in {"loop", "send"} /\ Read(c)' = Read(c)
          \/ pc[c] = "opening" /\ Read(c)' = 0
    /\ pc'[c] \in {"new", "acquire", "slot", "open", "opening"} =>
          pc[c] \in {"new", "acquire", "slot", "open", "opening"}

\* Submit puts the frame that was read last at the end.
Sends(c) ==
    /\ pc[c] = "send" /\ pc'[c] = "loop" /\ sent'[c] = sent[c]
    /\ inbound'[c] = Append(inbound[c], [no |-> sent[c], as |-> identity[c]])
    /\ handled'[c] = handled[c]

\* A frame is taken and not handled, which only a closed or ended instance does.
Loses(c) ==
    /\ inbound[c] # <<>> /\ inbound'[c] = Tail(inbound[c]) /\ handled'[c] = handled[c]
    /\ Closed(c)' \/ run'[c] = "ended"

\* The first frame is handled, under the identity of the moment.
Handles(c) ==
    /\ inbound[c] # <<>> /\ inbound'[c] = Tail(inbound[c])
    /\ handled'[c] = Append(handled[c], [no |-> Head(inbound[c]).no, as |-> Head(inbound[c]).as,
                                         by |-> identity[c]])
    /\ pc'[c] = pc[c] /\ sent'[c] = sent[c] /\ run[c] # "ended"

\* Every step is one of these; frame numbers and identities only grow, and an
\* instance that is closed or whose Run has ended stays so.
LEMMA Progress ==
    ASSUME IInv, NEW c \in Conns, ConnStep(c)
    PROVE  /\ Quiet(c) \/ Sends(c) \/ Loses(c) \/ Handles(c)
           /\ Read(c) \in Int /\ Read(c)' \in Int /\ Read(c) <= Read(c)'
           /\ identity[c] \in Int /\ identity'[c] \in Int /\ identity[c] <= identity'[c]
           /\ Closed(c) => Closed(c)'
           /\ run[c] = "ended" => run'[c] = "ended"
<1>0. Types /\ Stage(c)
  BY DEF IInv, ConnInv
<1>a. MaxFrames \in Nat /\ MaxRefreshes \in Nat
  BY Constants
<1> USE <1>0, <1>a
    DEF Types, Places, Stage, Goes, At, Closed, Read, Quiet, handlerVars, instVars, gatewayVars
<1>1. CASE AcquireCheck(c)
  BY <1>1 DEF AcquireCheck
<1>2. CASE AcquireAdd(c)
  BY <1>2 DEF AcquireAdd
<1>3. CASE UpgradeFails(c)
  BY <1>3 DEF UpgradeFails
<1>4. CASE Register(c)
  BY <1>4 DEF Register
<1>5. CASE OpenCall(c)
  BY <1>5 DEF OpenCall
<1>6. CASE OpenReturns(c)
  BY <1>6 DEF OpenReturns
<1>7. CASE Send(c)
  BY <1>7 DEF Send, Sends
<1>8. CASE Teardown(c)
  BY <1>8 DEF Teardown
<1>9. CASE CloseReturns(c)
  BY <1>9 DEF CloseReturns
<1>10. CASE Unregister(c)
  BY <1>10 DEF Unregister
<1>11. CASE Release(c)
  BY <1>11 DEF Release
<1>12. CASE ReadFrame(c)
  <2>1. CASE Goes(c, "teardown") /\ UNCHANGED sent
    BY <1>12, <2>1 DEF ReadFrame
  <2>2. CASE /\ sent' = [sent EXCEPT ![c] = @ + 1]
             /\ Goes(c, IF Closed(c) THEN "teardown" ELSE "send")
    <3>1. sent'[c] = sent[c] + 1 /\ pc[c] = "loop" /\ sent[c] \in Nat
      BY <1>12, <2>2 DEF ReadFrame
    <3>2. CASE Closed(c)
      BY <1>12, <2>2, <3>1, <3>2 DEF ReadFrame
    <3>3. CASE ~Closed(c)
      <4>1. /\ pc'[c] = "send" /\ Read(c) = sent[c] /\ Read(c)' = sent[c]
            /\ inbound' = inbound /\ handled' = handled /\ run' = run /\ once' = once
            /\ identity' = identity
        BY <1>12, <2>2, <3>1, <3>3 DEF ReadFrame
      <4>2. Quiet(c)
        BY <3>1, <4>1
      <4> QED
        BY <3>1, <4>1, <4>2
    <3> QED
      BY <3>2, <3>3
  <2> QED
    BY <1>12, <2>1, <2>2 DEF ReadFrame
<1>13. CASE Refresh(c)
  BY <1>13 DEF Refresh
<1>14. CASE Disconnect(c)
  BY <1>14 DEF Disconnect
<1>15. CASE CloseBegins(c)
  BY <1>15 DEF CloseBegins
<1>16. CASE Drain(c)
  BY <1>16 DEF Drain, Loses
<1>17. CASE CloseCall(c)
  BY <1>17 DEF CloseCall
<1>18. CASE CloseEnds(c)
  BY <1>18 DEF CloseEnds
<1>22. CASE CloseInbound(c)
  BY <1>22 DEF CloseInbound
<1>19. CASE TakeFrame(c)
  BY <1>19 DEF TakeFrame, Loses, Handles
<1>20. CASE FrameReturns(c)
  BY <1>20 DEF FrameReturns
<1>21. CASE RunStops(c)
  BY <1>21 DEF RunStops
<1> QED
  BY <1>1, <1>2, <1>3, <1>4, <1>5, <1>6, <1>7, <1>8, <1>9, <1>10, <1>11, <1>12, <1>13, <1>14, <1>15, <1>16, <1>17, <1>18, <1>19, <1>20, <1>21, <1>22
  DEF ConnStep, Handler, Client, Close, Run

\* The frames as functions: what the lemmas below need of their types.
LEMMA FramesTyped ==
    ASSUME Types, NEW c \in Conns
    PROVE  /\ Len(inbound[c]) \in Nat /\ Len(handled[c]) \in Nat
           /\ inbound[c] \in Seq(Frames) /\ handled[c] \in Seq(Handled)
           /\ \A i \in 1 .. Len(inbound[c]) :
                 inbound[c][i].no \in Int /\ inbound[c][i].as \in Int
           /\ \A i \in 1 .. Len(handled[c]) :
                 handled[c][i].no \in Int /\ handled[c][i].as \in Int /\ handled[c][i].by \in Int
<1>1. inbound[c] \in Seq(Frames) /\ handled[c] \in Seq(Handled)
  BY DEF Types
<1>2. MaxFrames \in Nat /\ MaxRefreshes \in Nat
  BY Constants
<1>3. \A i \in 1 .. Len(inbound[c]) : inbound[c][i] \in Frames
  BY <1>1, ElementOfSeq
<1>4. \A i \in 1 .. Len(handled[c]) : handled[c][i] \in Handled
  BY <1>1, ElementOfSeq
<1>5. Len(inbound[c]) \in Nat /\ Len(handled[c]) \in Nat
  BY <1>1, LenProperties
<1>6. \A f \in Frames : f.no \in Int /\ f.as \in Int
  BY <1>2 DEF Frames
<1>7. \A h \in Handled : h.no \in Int /\ h.as \in Int /\ h.by \in Int
  BY <1>2 DEF Handled
<1> QED
  BY <1>1, <1>3, <1>4, <1>5, <1>6, <1>7

\* What a frame that is handled looks like, at its place.
LEMMA HandlesFacts ==
    ASSUME Types, NEW c \in Conns, Handles(c)
    PROVE  /\ Len(inbound[c]) >= 1 /\ Len(inbound'[c]) = Len(inbound[c]) - 1
           /\ Len(handled'[c]) = Len(handled[c]) + 1
           /\ \A i \in 1 .. Len(inbound'[c]) : inbound'[c][i] = inbound[c][i + 1]
           /\ \A i \in 1 .. Len(handled[c]) : handled'[c][i] = handled[c][i]
           /\ LET call == handled'[c][Len(handled[c]) + 1] IN
              call.no = inbound[c][1].no /\ call.as = inbound[c][1].as /\ call.by = identity[c]
<1> DEFINE call == [no |-> Head(inbound[c]).no, as |-> Head(inbound[c]).as, by |-> identity[c]]
<1>1. inbound[c] \in Seq(Frames) /\ inbound[c] # <<>> /\ handled[c] \in Seq(Handled)
      /\ inbound'[c] = Tail(inbound[c]) /\ handled'[c] = Append(handled[c], call)
  BY FramesTyped DEF Handles
<1>2. Head(inbound[c]) = inbound[c][1] /\ Head(inbound[c]) \in Frames
      /\ Len(inbound[c]) >= 1 /\ Len(inbound'[c]) = Len(inbound[c]) - 1
      /\ \A i \in 1 .. Len(inbound'[c]) : inbound'[c][i] = inbound[c][i + 1]
  BY <1>1, TailFacts
<1>3. call \in Handled
  BY <1>2 DEF Types, Frames, Handled
<1>4. /\ Len(handled'[c]) = Len(handled[c]) + 1
      /\ \A i \in 1 .. Len(handled[c]) : handled'[c][i] = handled[c][i]
      /\ handled'[c][Len(handled[c]) + 1] = call
  <2> HIDE DEF call
  <2> QED
    BY <1>1, <1>3, AppendFacts
<1> QED
  BY <1>2, <1>4

\* What is left of the channel when a frame is lost.
LEMMA LosesFacts ==
    ASSUME Types, NEW c \in Conns, Loses(c)
    PROVE  /\ Len(inbound[c]) >= 1 /\ Len(inbound'[c]) = Len(inbound[c]) - 1
           /\ \A i \in 1 .. Len(inbound'[c]) : inbound'[c][i] = inbound[c][i + 1]
BY FramesTyped, TailFacts DEF Loses

\* What a frame that was sent looks like, at its place.
LEMMA SendsFacts ==
    ASSUME Types, NEW c \in Conns, Stage(c), Sends(c)
    PROVE  /\ Len(inbound'[c]) = Len(inbound[c]) + 1
           /\ \A i \in 1 .. Len(inbound[c]) : inbound'[c][i] = inbound[c][i]
           /\ LET frame == inbound'[c][Len(inbound[c]) + 1] IN
              frame.no = sent[c] /\ frame.as = identity[c]
           /\ Read(c) = sent[c] - 1 /\ Read(c)' = sent[c] /\ sent[c] \in Nat
<1> DEFINE frame == [no |-> sent[c], as |-> identity[c]]
<1>1. frame \in Frames /\ sent[c] \in Nat
  BY Constants DEF Types, Stage, Sends, Frames
<1>2. inbound[c] \in Seq(Frames) /\ inbound'[c] = Append(inbound[c], frame)
  BY FramesTyped DEF Sends
<1>3. /\ Len(inbound'[c]) = Len(inbound[c]) + 1
      /\ \A i \in 1 .. Len(inbound[c]) : inbound'[c][i] = inbound[c][i]
      /\ inbound'[c][Len(inbound[c]) + 1] = frame
  <2> HIDE DEF frame
  <2> QED
    BY <1>1, <1>2, AppendFacts
<1> QED
  BY <1>1, <1>3 DEF Read, Sends

\* The order of the frames is kept: what is sent was read last, what is handled
\* was first in the channel.
LEMMA OrderStep ==
    ASSUME IInv, NEW c \in Conns, ConnStep(c)
    PROVE  Order(c)'
<1>0. Types /\ Stage(c) /\ Order(c)
  BY DEF IInv, ConnInv
<1>1. /\ Quiet(c) \/ Sends(c) \/ Loses(c) \/ Handles(c)
      /\ Read(c) \in Int /\ Read(c)' \in Int /\ Read(c) <= Read(c)'
  BY Progress
<1> DEFINE h == handled[c]  q == inbound[c]  r == Read(c)
           hN == handled'[c]  qN == inbound'[c]  rN == Read(c)'
<1>2. /\ Len(q) \in Nat /\ Len(h) \in Nat
      /\ \A i \in 1 .. Len(q) : q[i].no \in Int
      /\ \A i \in 1 .. Len(h) : h[i].no \in Int
  BY <1>0, FramesTyped
<1>3. /\ \A i \in 1 .. Len(h) : h[i].no <= r
      /\ \A i \in 1 .. Len(q) : q[i].no <= r
      /\ \A i, j \in 1 .. Len(h) : i < j => h[i].no < h[j].no
      /\ \A i, j \in 1 .. Len(q) : i < j => q[i].no < q[j].no
      /\ \A i \in 1 .. Len(h), j \in 1 .. Len(q) : h[i].no < q[j].no
  BY <1>0 DEF Order
<1>4. SUFFICES /\ \A i \in 1 .. Len(hN) : hN[i].no <= rN
               /\ \A i \in 1 .. Len(qN) : qN[i].no <= rN
               /\ \A i, j \in 1 .. Len(hN) : i < j => hN[i].no < hN[j].no
               /\ \A i, j \in 1 .. Len(qN) : i < j => qN[i].no < qN[j].no
               /\ \A i \in 1 .. Len(hN), j \in 1 .. Len(qN) : hN[i].no < qN[j].no
  BY DEF Order
<1>5. CASE Quiet(c)
  <2>1. hN = h /\ qN = q
    BY <1>5 DEF Quiet
  <2>2. r \in Int /\ rN \in Int /\ r <= rN
    BY <1>1
  <2> HIDE DEF h, q, r, hN, qN, rN
  <2>3. \A i \in 1 .. Len(h) : h[i].no <= rN
    BY <1>2, <1>3, <2>2
  <2>4. \A i \in 1 .. Len(q) : q[i].no <= rN
    BY <1>2, <1>3, <2>2
  <2> QED
    BY <1>3, <2>1, <2>3, <2>4
<1>6. CASE Sends(c)
  <2>1. hN = h
    BY <1>6 DEF Sends
  <2>2. /\ Len(qN) = Len(q) + 1 /\ \A i \in 1 .. Len(q) : qN[i] = q[i]
        /\ qN[Len(q) + 1].no = r + 1 /\ rN = r + 1 /\ r \in Int
    BY <1>0, <1>1, <1>6, SendsFacts
  <2> HIDE DEF h, q, r, hN, qN, rN
  <2>3. \A i \in 1 .. Len(qN) : \/ i \in 1 .. Len(q) /\ qN[i].no = q[i].no
                                \/ i = Len(q) + 1 /\ qN[i].no = r + 1
    BY <1>2, <2>2
  <2>4. \A i \in 1 .. Len(qN) : qN[i].no <= rN
    BY <1>2, <1>3, <2>2, <2>3
  <2>5. \A i, j \in 1 .. Len(qN) : i < j => qN[i].no < qN[j].no
    BY <1>2, <1>3, <2>2, <2>3, SMTT(20)
  <2>6. \A i \in 1 .. Len(h), j \in 1 .. Len(qN) : h[i].no < qN[j].no
    BY <1>2, <1>3, <2>2, <2>3
  <2>7. \A i \in 1 .. Len(h) : h[i].no <= rN
    BY <1>2, <1>3, <2>2
  <2> QED
    BY <1>3, <2>1, <2>4, <2>5, <2>6, <2>7
<1>7. CASE Loses(c)
  <2>1. hN = h
    BY <1>7 DEF Loses
  <2>2. Len(qN) = Len(q) - 1 /\ \A i \in 1 .. Len(qN) : qN[i] = q[i + 1]
    BY <1>0, <1>7, LosesFacts
  <2> HIDE DEF h, q, r, hN, qN, rN
  <2>3. \A i \in 1 .. Len(qN) : i + 1 \in 1 .. Len(q) /\ qN[i].no = q[i + 1].no
    BY <1>2, <2>2
  <2>4. r \in Int /\ rN \in Int /\ r <= rN
    BY <1>1 DEF r, rN
  <2>5. ASSUME NEW i \in 1 .. Len(qN) PROVE qN[i].no <= rN
    <3>1. PICK k \in 1 .. Len(q) : qN[i].no = q[k].no
      BY <2>3
    <3> QED
      BY <1>2, <1>3, <2>4, <3>1
  <2>6. \A i, j \in 1 .. Len(qN) : i < j => qN[i].no < qN[j].no
    BY <1>2, <1>3, <2>2, <2>3, SMTT(20)
  <2>7. \A i \in 1 .. Len(h), j \in 1 .. Len(qN) : h[i].no < qN[j].no
    BY <1>2, <1>3, <2>3
  <2>8. \A i \in 1 .. Len(h) : h[i].no <= rN
    BY <1>2, <1>3, <2>4
  <2> QED
    BY <1>3, <2>1, <2>5, <2>6, <2>7, <2>8
<1>8. CASE Handles(c)
  <2>1. /\ Len(q) >= 1 /\ Len(qN) = Len(q) - 1 /\ Len(hN) = Len(h) + 1
        /\ \A i \in 1 .. Len(qN) : qN[i] = q[i + 1]
        /\ \A i \in 1 .. Len(h) : hN[i] = h[i]
        /\ hN[Len(h) + 1].no = q[1].no
    BY <1>0, <1>8, HandlesFacts
  <2> HIDE DEF h, q, r, hN, qN, rN
  <2>2. r \in Int /\ rN \in Int /\ r <= rN
    BY <1>1 DEF r, rN
  <2>3. \A i \in 1 .. Len(qN) : i + 1 \in 1 .. Len(q) /\ qN[i].no = q[i + 1].no
    BY <1>2, <2>1
  <2>4. \A i \in 1 .. Len(hN) : \/ i \in 1 .. Len(h) /\ hN[i].no = h[i].no
                                \/ i = Len(h) + 1 /\ hN[i].no = q[1].no
    BY <1>2, <2>1
  <2>z. 1 \in 1 .. Len(q)
    BY <1>2, <2>1
  <2>5. \A i \in 1 .. Len(hN) : hN[i].no <= rN
    BY <1>2, <1>3, <2>2, <2>4, <2>z
  <2>6. \A i \in 1 .. Len(qN) : qN[i].no <= rN
    BY <1>2, <1>3, <2>2, <2>3
  <2>7. ASSUME NEW i \in 1 .. Len(hN), NEW j \in 1 .. Len(hN), i < j
        PROVE  hN[i].no < hN[j].no
    <3>1. i \in 1 .. Len(h) /\ hN[i].no = h[i].no
      BY <1>2, <2>1, <2>7
    <3>2. CASE j \in 1 .. Len(h) /\ hN[j].no = h[j].no
      BY <1>3, <2>7, <3>1, <3>2
    <3>3. CASE j = Len(h) + 1 /\ hN[j].no = q[1].no
      BY <1>3, <2>z, <3>1, <3>3
    <3> QED
      BY <2>4, <3>2, <3>3
  <2>8. ASSUME NEW i \in 1 .. Len(qN), NEW j \in 1 .. Len(qN), i < j
        PROVE  qN[i].no < qN[j].no
    <3>1. i + 1 \in 1 .. Len(q) /\ j + 1 \in 1 .. Len(q) /\ i + 1 < j + 1
      BY <1>2, <2>1, <2>8
    <3>2. q[i + 1].no < q[j + 1].no
      BY <1>3, <3>1
    <3> QED
      BY <2>3, <3>2
  <2>9. \A i \in 1 .. Len(hN), j \in 1 .. Len(qN) : hN[i].no < qN[j].no
    BY <1>2, <1>3, <2>1, <2>3, <2>4, <2>z
  <2> QED
    BY <2>5, <2>6, <2>7, <2>8, <2>9
<1> QED
  BY <1>1, <1>5, <1>6, <1>7, <1>8

\* None is left out before Close begins.
LEMMA CompleteStep ==
    ASSUME IInv, NEW c \in Conns, ConnStep(c)
    PROVE  Complete(c)'
<1>0. Types /\ Stage(c) /\ Complete(c)
  BY DEF IInv, ConnInv
<1>1. /\ Quiet(c) \/ Sends(c) \/ Loses(c) \/ Handles(c)
      /\ Closed(c) => Closed(c)'
      /\ run[c] = "ended" => run'[c] = "ended"
  BY Progress
<1> DEFINE h == handled[c]  q == inbound[c]  r == Read(c)
           hN == handled'[c]  qN == inbound'[c]  rN == Read(c)'
<1>2. Len(q) \in Nat /\ Len(h) \in Nat
  BY <1>0, FramesTyped
<1>3. SUFFICES ASSUME ~Closed(c)'
               PROVE  /\ \A i \in 1 .. Len(hN) : hN[i].no = i
                      /\ run'[c] # "ended" =>
                            /\ \A i \in 1 .. Len(qN) : qN[i].no = Len(hN) + i
                            /\ pc'[c] \in {"loop", "send"} => rN = Len(hN) + Len(qN)
  BY DEF Complete
<1>4. /\ \A i \in 1 .. Len(h) : h[i].no = i
      /\ run[c] # "ended" => /\ \A i \in 1 .. Len(q) : q[i].no = Len(h) + i
                             /\ pc[c] \in {"loop", "send"} => r = Len(h) + Len(q)
  BY <1>0, <1>1, <1>3 DEF Complete
<1>5. CASE Quiet(c)
  <2>1. /\ hN = h /\ qN = q
        /\ pc'[c] \in {"loop", "send"} =>
              (pc[c] \in {"loop", "send"} /\ rN = r) \/ (pc[c] = "opening" /\ rN = 0)
    BY <1>3, <1>5 DEF Quiet
  <2>2. pc[c] = "opening" => h = <<>> /\ q = <<>>
    BY <1>0 DEF Stage
  <2>3. pc[c] = "opening" => Len(h) = 0 /\ Len(q) = 0
    BY <2>2, EmptySeq
  <2> HIDE DEF h, q, r, hN, qN, rN
  <2> QED
    BY <1>1, <1>2, <1>4, <2>1, <2>3
<1>6. CASE Sends(c)
  <2>1. hN = h /\ pc[c] \in {"loop", "send"}
    BY <1>6 DEF Sends
  <2>2. /\ Len(qN) = Len(q) + 1 /\ \A i \in 1 .. Len(q) : qN[i] = q[i]
        /\ qN[Len(q) + 1].no = r + 1 /\ rN = r + 1
    BY <1>0, <1>6, SendsFacts
  <2> HIDE DEF h, q, r, hN, qN, rN
  <2>3. \A i \in 1 .. Len(qN) : \/ i \in 1 .. Len(q) /\ qN[i].no = q[i].no
                                \/ i = Len(q) + 1 /\ qN[i].no = r + 1
    BY <1>2, <2>2
  <2>4. ASSUME run'[c] # "ended"
        PROVE  (\A i \in 1 .. Len(qN) : qN[i].no = Len(h) + i) /\ rN = Len(h) + Len(qN)
    <3>1. /\ \A i \in 1 .. Len(q) : q[i].no = Len(h) + i
          /\ r = Len(h) + Len(q)
      BY <1>1, <1>4, <2>1, <2>4
    <3>2. rN = Len(h) + Len(qN)
      BY <1>2, <2>2, <3>1
    <3>3. ASSUME NEW i \in 1 .. Len(qN) PROVE qN[i].no = Len(h) + i
      <4>1. CASE i \in 1 .. Len(q) /\ qN[i].no = q[i].no
        BY <3>1, <4>1
      <4>2. CASE i = Len(q) + 1 /\ qN[i].no = r + 1
        BY <1>2, <3>1, <4>2
      <4> QED
        BY <2>3, <4>1, <4>2
    <3> QED
      BY <3>2, <3>3
  <2> QED
    BY <1>4, <2>1, <2>4
<1>7. CASE Loses(c)
  BY <1>3, <1>4, <1>7 DEF Loses
<1>8. CASE Handles(c)
  <2>1. /\ Len(q) >= 1 /\ Len(qN) = Len(q) - 1 /\ Len(hN) = Len(h) + 1
        /\ \A i \in 1 .. Len(qN) : qN[i] = q[i + 1]
        /\ \A i \in 1 .. Len(h) : hN[i] = h[i]
        /\ hN[Len(h) + 1].no = q[1].no
    BY <1>0, <1>8, HandlesFacts
  <2>2. rN = r /\ pc'[c] = pc[c] /\ run[c] # "ended"
    BY <1>8 DEF Handles, Read
  <2> HIDE DEF h, q, r, hN, qN, rN
  <2>3. ASSUME NEW i \in 1 .. Len(qN)
        PROVE  i + 1 \in 1 .. Len(q) /\ qN[i].no = q[i + 1].no
    BY <1>2, <2>1
  <2>4. ASSUME NEW i \in 1 .. Len(hN)
        PROVE  \/ i \in 1 .. Len(h) /\ hN[i].no = h[i].no
               \/ i = Len(h) + 1 /\ hN[i].no = q[1].no
    BY <1>2, <2>1
  <2>5. 1 \in 1 .. Len(q)
    BY <1>2, <2>1
  <2>6. \A i \in 1 .. Len(hN) : hN[i].no = i
    BY <1>2, <1>4, <2>2, <2>4, <2>5
  <2>7. \A i \in 1 .. Len(qN) : qN[i].no = Len(hN) + i
    BY <1>2, <1>4, <2>1, <2>2, <2>3
  <2>8. pc'[c] \in {"loop", "send"} => rN = Len(hN) + Len(qN)
    BY <1>2, <1>4, <2>1, <2>2
  <2> QED
    BY <2>6, <2>7, <2>8
<1> QED
  BY <1>1, <1>5, <1>6, <1>7, <1>8

\* The identity of a call is at least the one its frame was read under, and at
\* least that of the call before.
LEMMA IdentitiesStep ==
    ASSUME IInv, NEW c \in Conns, ConnStep(c)
    PROVE  Identities(c)'
<1>0. Types /\ Stage(c) /\ Identities(c)
  BY DEF IInv, ConnInv
<1> DEFINE h == handled[c]  q == inbound[c]  r == identity[c]
           hN == handled'[c]  qN == inbound'[c]  rN == identity'[c]
<1>1. /\ Quiet(c) \/ Sends(c) \/ Loses(c) \/ Handles(c)
      /\ r \in Int /\ rN \in Int /\ r <= rN
  BY Progress
<1>2. /\ Len(q) \in Nat /\ Len(h) \in Nat
      /\ \A i \in 1 .. Len(q) : q[i].as \in Int
      /\ \A i \in 1 .. Len(h) : h[i].as \in Int /\ h[i].by \in Int
  BY <1>0, FramesTyped
<1>3. /\ \A i \in 1 .. Len(q) : q[i].as <= r
      /\ \A i \in 1 .. Len(h) : h[i].by <= r /\ h[i].as <= h[i].by
      /\ \A i, j \in 1 .. Len(h) : i < j => h[i].by <= h[j].by
  BY <1>0 DEF Identities
<1>4. SUFFICES /\ \A i \in 1 .. Len(qN) : qN[i].as <= rN
               /\ \A i \in 1 .. Len(hN) : hN[i].by <= rN /\ hN[i].as <= hN[i].by
               /\ \A i, j \in 1 .. Len(hN) : i < j => hN[i].by <= hN[j].by
  BY DEF Identities
<1>5. CASE Quiet(c)
  <2>1. hN = h /\ qN = q
    BY <1>5 DEF Quiet
  <2> HIDE DEF h, q, r, hN, qN, rN
  <2> QED
    BY <1>1, <1>2, <1>3, <2>1
<1>6. CASE Sends(c)
  <2>1. hN = h
    BY <1>6 DEF Sends
  <2>2. /\ Len(qN) = Len(q) + 1 /\ \A i \in 1 .. Len(q) : qN[i] = q[i]
        /\ qN[Len(q) + 1].as = r
    BY <1>0, <1>6, SendsFacts
  <2> HIDE DEF h, q, r, hN, qN, rN
  <2> QED
    BY <1>1, <1>2, <1>3, <2>1, <2>2
<1>7. CASE Loses(c)
  <2>1. hN = h
    BY <1>7 DEF Loses
  <2>2. Len(qN) = Len(q) - 1 /\ \A i \in 1 .. Len(qN) : qN[i] = q[i + 1]
    BY <1>0, <1>7, LosesFacts
  <2> HIDE DEF h, q, r, hN, qN, rN
  <2>3. \A i \in 1 .. Len(qN) : i + 1 \in 1 .. Len(q) /\ qN[i].as = q[i + 1].as
    BY <1>2, <2>2
  <2>4. \A i \in 1 .. Len(qN) : qN[i].as <= rN
    BY <1>1, <1>2, <1>3, <2>3
  <2>5. \A i \in 1 .. Len(h) : h[i].by <= rN /\ h[i].as <= h[i].by
    BY <1>1, <1>2, <1>3
  <2> QED
    BY <1>3, <2>1, <2>4, <2>5
<1>8. CASE Handles(c)
  <2>1. /\ Len(q) >= 1 /\ Len(qN) = Len(q) - 1 /\ Len(hN) = Len(h) + 1
        /\ \A i \in 1 .. Len(qN) : qN[i] = q[i + 1]
        /\ \A i \in 1 .. Len(h) : hN[i] = h[i]
        /\ hN[Len(h) + 1].as = q[1].as /\ hN[Len(h) + 1].by = r
    BY <1>0, <1>8, HandlesFacts
  <2> HIDE DEF h, q, r, hN, qN, rN
  <2>2. \A i \in 1 .. Len(qN) : i + 1 \in 1 .. Len(q) /\ qN[i].as = q[i + 1].as
    BY <1>2, <2>1
  <2>3. \A i \in 1 .. Len(hN) :
            \/ i \in 1 .. Len(h) /\ hN[i].as = h[i].as /\ hN[i].by = h[i].by
            \/ i = Len(h) + 1 /\ hN[i].as = q[1].as /\ hN[i].by = r
    BY <1>2, <2>1
  <2>4. 1 \in 1 .. Len(q)
    BY <1>2, <2>1
  <2>5. \A i \in 1 .. Len(qN) : qN[i].as <= rN
    BY <1>1, <1>2, <1>3, <2>2
  <2>6. \A i \in 1 .. Len(hN) : hN[i].by <= rN /\ hN[i].as <= hN[i].by
    BY <1>1, <1>2, <1>3, <2>3, <2>4
  <2>7. \A i, j \in 1 .. Len(hN) : i < j => hN[i].by <= hN[j].by
    BY <1>1, <1>2, <1>3, <2>3
  <2> QED
    BY <2>5, <2>6, <2>7
<1> QED
  BY <1>1, <1>5, <1>6, <1>7, <1>8

-----------------------------------------------------------------------------
(* The inductive invariant. *)

\* The invariant holds at first.
LEMMA IInvInit == Init => IInv
<1> SUFFICES ASSUME Init PROVE IInv
  OBVIOUS
<1>1. Types
  BY Constants, EmptySeq DEF Init, Types, Places
<1>2. SlotsBalanced
  <2>1. {c \in Conns : HasSlot(c)} = {}
    BY DEF Init, HasSlot
  <2> QED
    BY <2>1, FS_EmptySet DEF Init, SlotsBalanced
<1>3. ASSUME NEW c \in Conns PROVE ConnInv(c)
  <2>1. inbound[c] = <<>> /\ handled[c] = <<>> /\ Len(inbound[c]) = 0 /\ Len(handled[c]) = 0
    BY EmptySeq DEF Init
  <2>2. Stage(c)
    BY DEF Init, Stage, Unopened
  <2>3. Order(c) /\ Complete(c) /\ Identities(c)
    BY <2>1 DEF Init, Order, Complete, Identities
  <2> QED
    BY <2>2, <2>3 DEF ConnInv
<1> QED
  BY <1>1, <1>2, <1>3 DEF IInv

\* Shutdown and the end of the engine change no frame and no slot: they take
\* the instances away under their handlers.
LEMMA GatewayStep ==
    ASSUME IInv, ShutdownAll \/ EngineClose
    PROVE  IInv'
<1>0. Types /\ SlotsBalanced /\ \A c \in Conns : ConnInv(c)
  BY DEF IInv
<1>1. Types'
  BY <1>0 DEF ShutdownAll, EngineClose, Types, handlerVars, instVars
<1>2. SlotsBalanced'
  BY <1>0 DEF ShutdownAll, EngineClose, SlotsBalanced, HasSlot
<1>3. ASSUME NEW c \in Conns PROVE ConnInv(c)'
  <2>0. ConnInv(c)
    BY <1>0
  <2>1. Stage(c)'
    BY <1>0, <2>0 DEF ShutdownAll, EngineClose, ConnInv, Stage, Unopened, Types, handlerVars, instVars
  <2>2. Order(c)'
    BY <2>0 DEF ShutdownAll, EngineClose, ConnInv, Order, Read, handlerVars, instVars
  <2>3. Complete(c)'
    BY <2>0 DEF ShutdownAll, EngineClose, ConnInv, Complete, Closed, Read, handlerVars, instVars
  <2>4. Identities(c)'
    BY <2>0 DEF ShutdownAll, EngineClose, ConnInv, Identities, handlerVars, instVars
  <2> QED
    BY <2>1, <2>2, <2>3, <2>4 DEF ConnInv
<1> QED
  BY <1>1, <1>2, <1>3 DEF IInv

\* Every action keeps the invariant.
LEMMA IInvNext == IInv /\ [Next]_vars => IInv'
<1> SUFFICES ASSUME IInv, [Next]_vars PROVE IInv'
  OBVIOUS
<1>1. ASSUME NEW c \in Conns, ConnStep(c) PROVE IInv'
  <2>1. Types' /\ SlotsBalanced'
    BY <1>1, TypesStep, SlotsStep
  <2>2. ConnInv(c)'
    BY <1>1, StageStep, OrderStep, CompleteStep, IdentitiesStep DEF ConnInv
  <2>3. ASSUME NEW d \in Conns, d # c PROVE ConnInv(d)'
    BY <1>1, <2>3, OthersSame, SameKeeps DEF IInv
  <2> QED
    BY <2>1, <2>2, <2>3 DEF IInv
<1>2. CASE ShutdownAll \/ EngineClose
  BY <1>2, GatewayStep
<1>3. CASE UNCHANGED vars
  <2>1. Types' /\ SlotsBalanced'
    BY <1>3 DEF IInv, vars, handlerVars, instVars, gatewayVars, Types, SlotsBalanced, HasSlot
  <2>2. ASSUME NEW c \in Conns PROVE ConnInv(c)'
    <3>1. ConnInv(c) /\ Same(c)
      BY <1>3 DEF IInv, Same, vars, handlerVars, instVars, gatewayVars
    <3> QED
      BY <3>1, SameKeeps
  <2> QED
    BY <2>1, <2>2 DEF IInv
<1> QED
  BY <1>1, <1>2, <1>3 DEF Next, ConnStep

\* The invariant holds in every reachable state.
THEOREM Invariance == Spec => []IInv
BY IInvInit, IInvNext, PTL DEF Spec

-----------------------------------------------------------------------------
(* What it gives. *)

\* Every variable has its type: no channel exceeds its capacity, the counter of
\* the Manager never leaves 0 .. number of connections.
THEOREM TypeCorrect == Spec => []TypeOK
<1>1. ASSUME IInv PROVE TypeOK
  <2>1. Types /\ active = Cardinality(Holders)
    BY <1>1 DEF IInv, SlotsBalanced, Holders
  <2>2. active \in 0 .. Cardinality(Conns)
    BY <2>1, HoldersFinite
  <2>3. ASSUME NEW c \in Conns
        PROVE  /\ inbound[c] \in Seq(Frames) /\ Len(inbound[c]) <= MaxInflight
               /\ \A i \in 1 .. Len(handled[c]) : handled[c][i].no \in 1 .. MaxFrames
    <3>1. handled[c] \in Seq(Handled)
      BY <2>1 DEF Types
    <3>2. \A i \in 1 .. Len(handled[c]) : handled[c][i] \in Handled
      BY <3>1, ElementOfSeq
    <3>3. \A h \in Handled : h.no \in 1 .. MaxFrames
      BY DEF Handled
    <3> QED
      BY <2>1, <3>2, <3>3 DEF Types
  <2> QED
    BY <2>1, <2>2, <2>3 DEF Types, TypeOK, Places
<1> QED
  BY <1>1, Invariance, PTL

\* On every path, failed upgrades, rejections and panics included, the counter
\* of the Manager is the number of connections that hold a slot.
THEOREM SlotsKept == Spec => []SlotsBalanced
<1>1. IInv => SlotsBalanced
  BY DEF IInv
<1> QED
  BY <1>1, Invariance, PTL

\* A connection that has ended leaves no open instance, module or registration
\* behind, whichever of handler and shutdown closed it.
THEOREM NothingLeftBehind == Spec => []NothingLeft
<1>1. ASSUME IInv PROVE NothingLeft
  BY <1>1 DEF IInv, ConnInv, Stage, Unopened, NothingLeft
<1> QED
  BY <1>1, Invariance, PTL

\* Frames are handled in the order they were read, none twice, and none is left
\* out before Close.
THEOREM FramesOrdered == Spec => []FramesInOrder
<1>1. ASSUME IInv PROVE FramesInOrder
  BY <1>1 DEF IInv, ConnInv, Order, Complete, FramesInOrder
<1> QED
  BY <1>1, Invariance, PTL

\* No frame is handled under an identity older than the one it was read under,
\* and the identities of the calls never go back.
THEOREM IdentityFresh == Spec => []FreshIdentity
<1>1. ASSUME IInv PROVE FreshIdentity
  <2>1. SUFFICES ASSUME NEW c \in Conns, NEW i \in 1 .. Len(handled[c]),
                        NEW j \in 1 .. Len(handled[c])
                 PROVE  /\ handled[c][i].by >= handled[c][i].as
                        /\ i < j => handled[c][i].by <= handled[c][j].by
    BY DEF FreshIdentity
  <2>2. Types /\ Identities(c)
    BY <1>1 DEF IInv, ConnInv
  <2>3. handled[c][i].by \in Int /\ handled[c][i].as \in Int
    BY <2>2, FramesTyped
  <2> QED
    BY <2>2, <2>3 DEF Identities
<1> QED
  BY <1>1, Invariance, PTL

-----------------------------------------------------------------------------
(* The dispatch of what is published, for any number of gateways, messages *)
(* and handlers and any size of the local cache.                           *)

\* What the proofs use of the constants.
LEMMA DispatchConstants == MaxHandlers \in Nat /\ DedupSize \in Nat
BY TriggerDispatchAssumption

Calls == [gw : Gateways, msg : Messages, from : {"http", "libp2p", "wasm"},
          at : {"claim", "olric", "match"}]
Mishaps == {"full", "olric", "lookup"}

Known(m) == published[m] # <<"no">>

DispatchTypes ==
    /\ triggers \subseteq Triggers /\ handlers \in [Gateways -> 0 .. MaxHandlers]
    /\ published \in [Messages -> {<<"no">>} \cup ({"http", "wasm"} \X Gateways)]
    /\ outbox \subseteq Messages /\ net \subseteq Gateways \X Messages
    /\ loop \in [Gateways -> [msg : Messages \cup {"none"}, left : 0 .. MaxHandlers]]
    /\ calls \subseteq Calls
    /\ seen \in [Gateways -> SUBSET Messages] /\ claims \subseteq Messages
    /\ \A g \in Gateways : IsFiniteSet(seen[g]) /\ Cardinality(seen[g]) <= DedupSize
    /\ fired \in [Messages -> [Triggers -> [Gateways -> Nat]]]
    /\ mishaps \in [Messages -> SUBSET Mishaps]

\* Only what was published is on its way, and only the publish of a function
\* passes the claims by.
Origin ==
    /\ \A c \in calls : /\ Known(c.msg)
                        /\ c.from = "wasm" => published[c.msg][1] = "wasm" /\ c.at = "match"
    /\ \A d \in net : Known(d[2])
    /\ \A m \in outbox : Known(m)
    /\ \A g \in Gateways : loop[g].left > 0 => loop[g].msg \in Messages /\ Known(loop[g].msg)
    /\ \A m \in Messages, t \in Triggers, g \in Gateways : fired[m][t][g] > 0 => Known(m)

\* A call that has got by the local claim, and one that has won the claim in Olric.
Past(c) == c.from # "wasm" /\ c.at # "claim"
Won(c) == c.from # "wasm" /\ c.at = "match"

\* On a gateway one call gets by the local claim, and it has not invoked yet.
OneOnGateway(m) == "full" \notin mishaps[m] =>
    /\ \A c \in calls : Past(c) /\ c.msg = m =>
          m \in seen[c.gw] /\ \A t \in Counted(m) : fired[m][t][c.gw] = 0
    /\ \A c, d \in calls : Past(c) /\ Past(d) /\ c.msg = m /\ d.msg = m /\ c.gw = d.gw => c = d
    /\ \A t \in Counted(m), g \in Gateways :
          fired[m][t][g] <= 1 /\ (fired[m][t][g] > 0 => m \in seen[g])

\* Of all gateways one call wins the claim in Olric, and it has not invoked yet.
OneWinner(m) == "olric" \notin mishaps[m] =>
    /\ \A c \in calls : Won(c) /\ c.msg = m =>
          m \in claims /\ \A t \in Counted(m), g \in Gateways : fired[m][t][g] = 0
    /\ \A c, d \in calls : Won(c) /\ Won(d) /\ c.msg = m /\ d.msg = m => c = d
    /\ \A t \in Counted(m), g \in Gateways :
          fired[m][t][g] <= 1 /\ (fired[m][t][g] > 0 => m \in claims)
    /\ \A t \in Counted(m), g, h \in Gateways : fired[m][t][g] > 0 /\ fired[m][t][h] > 0 => g = h

DispatchInv == DispatchTypes /\ Origin /\ \A m \in Messages : OneOnGateway(m) /\ OneWinner(m)

\* The invariant of the dispatch holds at first.
LEMMA DispatchInvInit == DispatchInit => DispatchInv
<1> SUFFICES ASSUME DispatchInit PROVE DispatchInv
  OBVIOUS
<1>1. DispatchTypes
  <2>1. /\ triggers \subseteq Triggers /\ handlers \in [Gateways -> 0 .. MaxHandlers]
        /\ published \in [Messages -> {<<"no">>} \cup ({"http", "wasm"} \X Gateways)]
        /\ outbox \subseteq Messages /\ net \subseteq Gateways \X Messages
        /\ loop \in [Gateways -> [msg : Messages \cup {"none"}, left : 0 .. MaxHandlers]]
        /\ calls \subseteq Calls /\ claims \subseteq Messages
    BY DispatchConstants DEF DispatchInit, Idle, Triggers
  <2>2. /\ seen \in [Gateways -> SUBSET Messages]
        /\ \A g \in Gateways : IsFiniteSet(seen[g]) /\ Cardinality(seen[g]) <= DedupSize
    BY FS_EmptySet, DispatchConstants DEF DispatchInit
  <2>3. /\ fired \in [Messages -> [Triggers -> [Gateways -> Nat]]]
        /\ mishaps \in [Messages -> SUBSET Mishaps]
    BY DEF DispatchInit, Triggers
  <2> QED
    BY <2>1, <2>2, <2>3 DEF DispatchTypes
<1>2. \A m \in Messages, t \in Triggers, g \in Gateways : fired[m][t][g] = 0
  BY DEF DispatchInit, Triggers
<1>3. calls = {} /\ net = {} /\ outbox = {} /\ \A g \in Gateways : loop[g].left = 0
  BY DEF DispatchInit, Idle
<1>4. \A m \in Messages : Counted(m) \subseteq Triggers
  BY DEF Counted, Triggers
<1>5. Origin
  BY <1>2, <1>3 DEF Origin
<1> QED
  BY <1>1, <1>2, <1>3, <1>4, <1>5 DEF DispatchInv, OneOnGateway, OneWinner

-----------------------------------------------------------------------------
(* Types and origins. *)

\* The dispatcher's variables that claims and invocations are about.
Settled == <<seen, claims, fired, mishaps>>

\* Publishing, delivery and changes touch no claim and no invocation.
LEMMA DeliveryTypes ==
    ASSUME DispatchTypes, Origin,
           \/ \E g \in Gateways, m \in Messages : PublishHTTP(g, m) \/ PublishWASM(g, m)
           \/ \E m \in outbox : Transmit(m)
           \/ \E d \in net : Lose(d) \/ Receive(d)
           \/ \E g \in Gateways : CallHandler(g)
           \/ \E t \in Triggers : ChangeTrigger(t)
           \/ \E g \in Gateways, n \in 0 .. MaxHandlers : Resubscribe(g, n)
    PROVE  DispatchTypes' /\ UNCHANGED Settled
<1> USE DEF DispatchTypes, Settled
<1>1. ASSUME NEW g \in Gateways, NEW m \in Messages, PublishHTTP(g, m)
      PROVE  DispatchTypes' /\ UNCHANGED Settled
  <2>1. Call(g, m, "http", "claim") \in Calls
    BY DEF Call, Calls
  <2>2. published' \in [Messages -> {<<"no">>} \cup ({"http", "wasm"} \X Gateways)]
    BY <1>1 DEF PublishHTTP
  <2> QED
    BY <1>1, <2>1, <2>2 DEF PublishHTTP, envVars
<1>2. ASSUME NEW g \in Gateways, NEW m \in Messages, PublishWASM(g, m)
      PROVE  DispatchTypes' /\ UNCHANGED Settled
  <2>1. Call(g, m, "wasm", "match") \in Calls
    BY DEF Call, Calls
  <2>2. published' \in [Messages -> {<<"no">>} \cup ({"http", "wasm"} \X Gateways)]
    BY <1>2 DEF PublishWASM
  <2>3. net' \subseteq Gateways \X Messages
    BY <1>2 DEF PublishWASM, Receivers
  <2> QED
    BY <1>2, <2>1, <2>2, <2>3 DEF PublishWASM, envVars
<1>3. ASSUME NEW m \in outbox, Transmit(m) PROVE DispatchTypes' /\ UNCHANGED Settled
  <2>1. net' \subseteq Gateways \X Messages
    BY <1>3 DEF Transmit, Receivers
  <2> QED
    BY <1>3, <2>1 DEF Transmit, envVars, dispatchVars
<1>4. ASSUME NEW d \in net, Lose(d) PROVE DispatchTypes' /\ UNCHANGED Settled
  BY <1>4 DEF Lose, envVars, dispatchVars
<1>5. ASSUME NEW d \in net, Receive(d) PROVE DispatchTypes' /\ UNCHANGED Settled
  <2>1. d[1] \in Gateways /\ d[2] \in Messages /\ handlers[d[1]] \in 0 .. MaxHandlers
    OBVIOUS
  <2>2. loop' \in [Gateways -> [msg : Messages \cup {"none"}, left : 0 .. MaxHandlers]]
    BY <1>5, <2>1 DEF Receive
  <2> QED
    BY <1>5, <2>2 DEF Receive, envVars, dispatchVars
<1>6. ASSUME NEW g \in Gateways, CallHandler(g) PROVE DispatchTypes' /\ UNCHANGED Settled
  <2>1. loop[g].left > 0 /\ loop[g].msg \in Messages /\ loop[g].left \in 0 .. MaxHandlers
    BY <1>6 DEF CallHandler, Origin
  <2>2. Call(g, loop[g].msg, "libp2p", "claim") \in Calls
    BY <2>1 DEF Call, Calls
  <2>3. loop' = [loop EXCEPT ![g] = IF loop[g].left = 1 THEN Idle
                                    ELSE [loop[g] EXCEPT !.left = loop[g].left - 1]]
    BY <1>6 DEF CallHandler
  <2>4. Idle \in [msg : Messages \cup {"none"}, left : 0 .. MaxHandlers]
    BY DispatchConstants DEF Idle
  <2>5. loop[g].left # 1 => [loop[g] EXCEPT !.left = loop[g].left - 1]
                               \in [msg : Messages \cup {"none"}, left : 0 .. MaxHandlers]
    BY <2>1, DispatchConstants
  <2>6. loop' \in [Gateways -> [msg : Messages \cup {"none"}, left : 0 .. MaxHandlers]]
    BY <2>3, <2>4, <2>5
  <2> QED
    BY <1>6, <2>2, <2>6 DEF CallHandler, envVars
<1>7. ASSUME NEW t \in Triggers, ChangeTrigger(t) PROVE DispatchTypes' /\ UNCHANGED Settled
  BY <1>7 DEF ChangeTrigger, messageVars, dispatchVars, Triggers
<1>8. ASSUME NEW g \in Gateways, NEW n \in 0 .. MaxHandlers, Resubscribe(g, n)
      PROVE  DispatchTypes' /\ UNCHANGED Settled
  BY <1>8 DEF Resubscribe, dispatchVars
<1> QED
  BY <1>1, <1>2, <1>3, <1>4, <1>5, <1>6, <1>7, <1>8

\* A call goes on, or ends.
LEMMA CallMoves ==
    ASSUME DispatchTypes, NEW c \in calls, NEW at \in {"olric", "match"}, Moves(c, at)
    PROVE  /\ [c EXCEPT !.at = at] \in Calls
           /\ calls' = (calls \ {c}) \cup {[c EXCEPT !.at = at]} /\ calls' \subseteq Calls
BY DEF DispatchTypes, Moves, Calls

\* A mishap is remembered of its message and of no other.
LEMMA MishapTypes ==
    ASSUME DispatchTypes, NEW c \in calls, NEW what \in Mishaps, Mishap(c, what)
    PROVE  /\ mishaps' \in [Messages -> SUBSET Mishaps] /\ what \in mishaps'[c.msg]
           /\ \A m \in Messages : mishaps[m] \subseteq mishaps'[m]
           /\ \A m \in Messages \ {c.msg} : mishaps'[m] = mishaps[m]
<1>1. c.msg \in Messages /\ mishaps \in [Messages -> SUBSET Mishaps]
  BY DEF DispatchTypes, Calls
<1>2. mishaps' = [mishaps EXCEPT ![c.msg] = mishaps[c.msg] \cup {what}]
  BY DEF Mishap
<1> QED
  BY <1>1, <1>2

\* What an invocation counts.
LEMMA InvokeCounts ==
    ASSUME DispatchTypes, NEW c \in calls,
           fired' = [fired EXCEPT ![c.msg] = [t \in Triggers |-> [g \in Gateways |->
                        IF t \in Matches(c) /\ g = c.gw THEN @[t][g] + 1 ELSE @[t][g]]]]
    PROVE  /\ fired' \in [Messages -> [Triggers -> [Gateways -> Nat]]]
           /\ \A m \in Messages \ {c.msg} : fired'[m] = fired[m]
           /\ \A t \in Triggers, g \in Gateways : fired'[c.msg][t][g] =
                 IF t \in Matches(c) /\ g = c.gw THEN fired[c.msg][t][g] + 1
                 ELSE fired[c.msg][t][g]
<1> DEFINE m == c.msg
           new == [t \in Triggers |-> [g \in Gateways |->
                      IF t \in Matches(c) /\ g = c.gw THEN fired[m][t][g] + 1
                      ELSE fired[m][t][g]]]
<1>1. m \in Messages /\ c.gw \in Gateways
  BY DEF DispatchTypes, Calls
<1>2. fired[m] \in [Triggers -> [Gateways -> Nat]]
  BY <1>1 DEF DispatchTypes
<1>3. fired' = [fired EXCEPT ![m] = new]
  BY DEF Triggers
<1>4. ASSUME NEW t \in Triggers
      PROVE  /\ new[t] \in [Gateways -> Nat]
             /\ \A g \in Gateways : new[t][g] = IF t \in Matches(c) /\ g = c.gw
                                                THEN fired[m][t][g] + 1 ELSE fired[m][t][g]
  BY <1>1, <1>2
<1> HIDE DEF new
<1>5. new \in [Triggers -> [Gateways -> Nat]]
  BY <1>4 DEF new
<1>6. fired \in [Messages -> [Triggers -> [Gateways -> Nat]]]
  BY DEF DispatchTypes
<1>7. fired'[m] = new /\ \A n \in Messages \ {m} : fired'[n] = fired[n]
  BY <1>1, <1>3, <1>6
<1>8. fired' \in [Messages -> [Triggers -> [Gateways -> Nat]]]
  BY <1>1, <1>3, <1>5, <1>6
<1> QED
  BY <1>4, <1>7, <1>8

\* The three outcomes of the local claim: seen before, full, or taken.
LEMMA LocalClaimCases ==
    ASSUME NEW c \in calls, LocalClaim(c)
    PROVE  /\ c.at = "claim" /\ UNCHANGED <<claims, fired>>
           /\ UNCHANGED <<triggers, handlers, changes, published, outbox, net, loop, failures>>
           /\ \/ c.msg \in seen[c.gw] /\ Ends(c) /\ UNCHANGED <<seen, mishaps>>
              \/ /\ c.msg \notin seen[c.gw] /\ Moves(c, "olric")
                 /\ Mishap(c, "full") /\ seen' = seen
              \/ /\ c.msg \notin seen[c.gw] /\ Moves(c, "olric")
                 /\ ~(Cardinality(seen[c.gw]) >= DedupSize)
                 /\ seen' = [seen EXCEPT ![c.gw] = @ \cup {c.msg}] /\ mishaps' = mishaps
<1>1. CASE c.msg \in seen[c.gw]
  BY <1>1 DEF LocalClaim, envVars, messageVars
<1>2. CASE c.msg \notin seen[c.gw] /\ Cardinality(seen[c.gw]) >= DedupSize
  BY <1>2 DEF LocalClaim, envVars, messageVars
<1>3. CASE c.msg \notin seen[c.gw] /\ ~(Cardinality(seen[c.gw]) >= DedupSize)
  BY <1>3 DEF LocalClaim, envVars, messageVars
<1> QED
  BY <1>1, <1>2, <1>3

\* A step of a dispatch keeps the types.
LEMMA CallTypes ==
    ASSUME DispatchTypes, NEW c \in calls, Dispatch(c)
    PROVE  DispatchTypes'
<1>0. c \in Calls /\ c.msg \in Messages /\ c.gw \in Gateways
  BY DEF DispatchTypes, Calls
<1>1. CASE LocalClaim(c)
  <2>1. calls' \subseteq Calls
    BY <1>1, CallMoves DEF LocalClaim, Ends, DispatchTypes
  <2>2. mishaps' \in [Messages -> SUBSET Mishaps]
    BY <1>1, MishapTypes DEF LocalClaim, DispatchTypes, Mishaps
  <2>3. /\ seen' \in [Gateways -> SUBSET Messages]
        /\ \A g \in Gateways : IsFiniteSet(seen'[g]) /\ Cardinality(seen'[g]) <= DedupSize
    <3>1. CASE seen' = seen
      BY <3>1 DEF DispatchTypes
    <3>2. CASE /\ c.msg \notin seen[c.gw] /\ ~(Cardinality(seen[c.gw]) >= DedupSize)
               /\ seen' = [seen EXCEPT ![c.gw] = @ \cup {c.msg}]
      <4>1. /\ IsFiniteSet(seen[c.gw] \cup {c.msg})
            /\ Cardinality(seen[c.gw] \cup {c.msg}) = Cardinality(seen[c.gw]) + 1
            /\ Cardinality(seen[c.gw]) \in Nat
        BY <1>0, <3>2, FS_AddElement, FS_CardinalityType DEF DispatchTypes
      <4>2. Cardinality(seen[c.gw] \cup {c.msg}) <= DedupSize
        BY <3>2, <4>1, DispatchConstants
      <4>3. \A g \in Gateways : seen'[g] = IF g = c.gw THEN seen[c.gw] \cup {c.msg} ELSE seen[g]
        BY <1>0, <3>2 DEF DispatchTypes
      <4>4. seen' \in [Gateways -> SUBSET Messages]
        BY <1>0, <3>2 DEF DispatchTypes
      <4> QED
        BY <4>1, <4>2, <4>3, <4>4 DEF DispatchTypes
    <3>3. \/ seen' = seen
          \/ /\ c.msg \notin seen[c.gw] /\ ~(Cardinality(seen[c.gw]) >= DedupSize)
             /\ seen' = [seen EXCEPT ![c.gw] = @ \cup {c.msg}]
      BY <1>1, LocalClaimCases
    <3> QED
      BY <3>1, <3>2, <3>3
  <2> QED
    BY <1>1, <2>1, <2>2, <2>3
       DEF LocalClaim, envVars, messageVars, DispatchTypes
<1>2. CASE ClaimDispatch(c)
  <2>1. calls' \subseteq Calls
    BY <1>2, CallMoves DEF ClaimDispatch, Ends, DispatchTypes
  <2>2. mishaps' \in [Messages -> SUBSET Mishaps]
    BY <1>2, MishapTypes DEF ClaimDispatch, DispatchTypes, Mishaps
  <2>3. claims' \subseteq Messages
    BY <1>0, <1>2 DEF ClaimDispatch, DispatchTypes
  <2> QED
    BY <1>2, <2>1, <2>2, <2>3
       DEF ClaimDispatch, envVars, messageVars, DispatchTypes
<1>3. CASE Invoke(c)
  <2>1. calls' \subseteq Calls
    BY <1>3 DEF Invoke, Ends, DispatchTypes
  <2>2. mishaps' \in [Messages -> SUBSET Mishaps]
    BY <1>3, MishapTypes DEF Invoke, DispatchTypes, Mishaps
  <2>3. fired' \in [Messages -> [Triggers -> [Gateways -> Nat]]]
    <3>1. CASE fired' = fired
      BY <3>1 DEF DispatchTypes
    <3> QED
      BY <1>3, <3>1, InvokeCounts DEF Invoke
  <2> QED
    BY <1>3, <2>1, <2>2, <2>3 DEF Invoke, envVars, messageVars, DispatchTypes
<1> QED
  BY <1>1, <1>2, <1>3 DEF Dispatch

\* A step that adds messages only to what is on its way, and only known ones.
LEMMA OriginKept ==
    ASSUME DispatchTypes, Origin, DispatchTypes', fired' = fired,
           \A m \in Messages : published[m] # <<"no">> => published'[m] = published[m],
           \A c \in calls' \ calls :
              /\ published'[c.msg] # <<"no">>
              /\ c.from = "wasm" => published'[c.msg][1] = "wasm" /\ c.at = "match",
           \A d \in net' \ net : published'[d[2]] # <<"no">>,
           \A m \in outbox' \ outbox : published'[m] # <<"no">>,
           \A g \in Gateways : \/ loop'[g] = loop[g] \/ loop'[g].left = 0
                               \/ /\ loop'[g].msg \in Messages
                                  /\ published'[loop'[g].msg] # <<"no">>
    PROVE  Origin'
<1> USE DEF Known
<1>1. \A m \in Messages : Known(m) => published'[m] # <<"no">> /\ published'[m] = published[m]
  OBVIOUS
<1>2. \A c \in calls' : /\ published'[c.msg] # <<"no">>
                        /\ c.from = "wasm" => published'[c.msg][1] = "wasm" /\ c.at = "match"
  BY <1>1 DEF Origin, DispatchTypes, Calls
<1>3. \A d \in net' : published'[d[2]] # <<"no">>
  <2> SUFFICES ASSUME NEW d \in net' PROVE published'[d[2]] # <<"no">>
    OBVIOUS
  <2>1. CASE d \in net
    <3>1. d[2] \in Messages /\ Known(d[2])
      BY <2>1 DEF Origin, DispatchTypes
    <3> QED
      BY <1>1, <3>1
  <2> QED
    BY <2>1
<1>4. \A m \in outbox' : published'[m] # <<"no">>
  BY <1>1 DEF Origin, DispatchTypes
<1>5. \A g \in Gateways : loop'[g].left > 0 =>
         loop'[g].msg \in Messages /\ published'[loop'[g].msg] # <<"no">>
  BY <1>1 DEF Origin
<1>6. \A m \in Messages, t \in Triggers, g \in Gateways :
         fired'[m][t][g] > 0 => published'[m] # <<"no">>
  BY <1>1 DEF Origin
<1> QED
  BY <1>2, <1>3, <1>4, <1>5, <1>6 DEF Origin

\* A call that has just been made is before the claims or passes them by.
LEMMA NewCalls ==
    ASSUME DispatchInv, UNCHANGED Settled, calls \subseteq calls',
           \A c \in calls' \ calls : ~Past(c),
           \A m \in Messages : published'[m] = published[m] \/ ~Known(m)
    PROVE  \A m \in Messages : OneOnGateway(m)' /\ OneWinner(m)'
<1> SUFFICES ASSUME NEW m \in Messages PROVE OneOnGateway(m)' /\ OneWinner(m)'
  OBVIOUS
<1>1. \A c \in calls' : (Past(c) \/ Won(c)) => c \in calls
  BY DEF Past, Won
<1>2. OneOnGateway(m) /\ OneWinner(m) /\ Origin /\ DispatchTypes
  BY DEF DispatchInv
<1>3. CASE published'[m] = published[m]
  <2>1. Counted(m)' = Counted(m)
    BY <1>3 DEF Counted
  <2>2. OneOnGateway(m)'
    BY <1>1, <1>2, <2>1 DEF OneOnGateway, Settled
  <2>3. OneWinner(m)'
    BY <1>1, <1>2, <2>1 DEF OneWinner, Settled
  <2> QED
    BY <2>2, <2>3
<1>4. CASE ~Known(m)
  <2>1. \A c \in calls' : c.msg = m => ~Past(c) /\ ~Won(c)
    BY <1>1, <1>2, <1>4 DEF Origin, Past, Won
  <2>2. \A t \in Triggers, g \in Gateways : fired'[m][t][g] = 0
    <3> SUFFICES ASSUME NEW t \in Triggers, NEW g \in Gateways PROVE fired[m][t][g] = 0
      BY DEF Settled
    <3>1. fired[m][t][g] \in Nat /\ ~(fired[m][t][g] > 0)
      BY <1>2, <1>4 DEF Origin, DispatchTypes
    <3> QED
      BY <3>1
  <2>3. Counted(m)' \subseteq Triggers
    BY DEF Counted, Triggers
  <2>4. OneOnGateway(m)'
    BY <2>1, <2>2, <2>3 DEF OneOnGateway
  <2>5. OneWinner(m)'
    BY <2>1, <2>2, <2>3 DEF OneWinner
  <2> QED
    BY <2>4, <2>5
<1> QED
  BY <1>3, <1>4

\* Publishing and delivery keep the invariant.
LEMMA DeliveryKeeps ==
    ASSUME DispatchInv,
           \/ \E g \in Gateways, m \in Messages : PublishHTTP(g, m) \/ PublishWASM(g, m)
           \/ \E m \in outbox : Transmit(m)
           \/ \E d \in net : Lose(d) \/ Receive(d)
           \/ \E g \in Gateways : CallHandler(g)
           \/ \E t \in Triggers : ChangeTrigger(t)
           \/ \E g \in Gateways, n \in 0 .. MaxHandlers : Resubscribe(g, n)
    PROVE  DispatchInv'
<1>1. DispatchTypes /\ Origin /\ DispatchTypes' /\ UNCHANGED Settled
  BY DeliveryTypes DEF DispatchInv
<1>2. fired' = fired
  BY <1>1 DEF Settled
<1> DEFINE Result == Origin' /\ \A m \in Messages : OneOnGateway(m)' /\ OneWinner(m)'
<1>3. ASSUME NEW g \in Gateways, NEW m \in Messages, PublishHTTP(g, m) PROVE Result
  <2> DEFINE c == Call(g, m, "http", "claim")
  <2>1. /\ ~Known(m) /\ published' = [published EXCEPT ![m] = <<"http", g>>]
        /\ calls' = calls \cup {c} /\ outbox' = outbox \cup {m} /\ net' = net /\ loop' = loop
    BY <1>3 DEF PublishHTTP, Known
  <2>2. c.msg = m /\ c.from = "http" /\ ~Past(c)
    BY DEF Call, Past
  <2>3. published'[m] = <<"http", g>> /\ \A n \in Messages \ {m} : published'[n] = published[n]
    BY <1>1, <2>1 DEF DispatchTypes
  <2>4. Known(m)'
    BY <2>3 DEF Known
  <2> HIDE DEF c
  <2>5. Origin'
    BY <1>1, <1>2, <2>1, <2>2, <2>3, <2>4, OriginKept DEF Known
  <2> QED
    BY <1>1, <2>1, <2>2, <2>3, <2>5, NewCalls
<1>4. ASSUME NEW g \in Gateways, NEW m \in Messages, PublishWASM(g, m) PROVE Result
  <2> DEFINE c == Call(g, m, "wasm", "match")
  <2>1. /\ ~Known(m) /\ published' = [published EXCEPT ![m] = <<"wasm", g>>]
        /\ calls' = calls \cup {c} /\ outbox' = outbox /\ loop' = loop
        /\ net' = net \cup Receivers(m)
    BY <1>4 DEF PublishWASM, Known
  <2>2. c.msg = m /\ c.from = "wasm" /\ c.at = "match" /\ ~Past(c)
    BY DEF Call, Past
  <2>3. published'[m] = <<"wasm", g>> /\ \A n \in Messages \ {m} : published'[n] = published[n]
    BY <1>1, <2>1 DEF DispatchTypes
  <2>4. Known(m)' /\ published'[m][1] = "wasm"
    BY <2>3 DEF Known
  <2>5. \A d \in Receivers(m) : d[2] = m
    BY DEF Receivers
  <2> HIDE DEF c
  <2>6. Origin'
    BY <1>1, <1>2, <2>1, <2>2, <2>3, <2>4, <2>5, OriginKept DEF Known
  <2> QED
    BY <1>1, <2>1, <2>2, <2>3, <2>6, NewCalls
<1>5. ASSUME NEW m \in outbox, Transmit(m) PROVE Result
  <2>1. /\ published' = published /\ calls' = calls /\ outbox' \subseteq outbox /\ loop' = loop
        /\ net' \subseteq net \cup Receivers(m)
    BY <1>5 DEF Transmit, dispatchVars
  <2>2. (\A d \in Receivers(m) : d[2] = m) /\ Known(m)'
    BY <1>1, <2>1 DEF Receivers, Origin, Known
  <2>3. Origin'
    BY <1>1, <1>2, <2>1, <2>2, OriginKept DEF Known
  <2> QED
    BY <1>1, <2>1, <2>3, NewCalls
<1>6. ASSUME NEW d \in net, Lose(d) \/ Receive(d) PROVE Result
  <2>1. /\ published' = published /\ calls' = calls /\ outbox' = outbox /\ net' \subseteq net
        /\ \A g \in Gateways : loop'[g] = loop[g] \/ loop'[g].msg = d[2]
    BY <1>1, <1>6 DEF Lose, Receive, dispatchVars, DispatchTypes
  <2>2. Known(d[2])' /\ d[2] \in Messages
    BY <1>1, <2>1 DEF Origin, Known, DispatchTypes
  <2>3. Origin'
    BY <1>1, <1>2, <2>1, <2>2, OriginKept DEF Known
  <2> QED
    BY <1>1, <2>1, <2>3, NewCalls
<1>7. ASSUME NEW g \in Gateways, CallHandler(g) PROVE Result
  <2> DEFINE c == Call(g, loop[g].msg, "libp2p", "claim")
  <2>1. /\ published' = published /\ calls' = calls \cup {c} /\ outbox' = outbox /\ net' = net
        /\ loop' = [loop EXCEPT ![g] = IF loop[g].left = 1 THEN Idle
                                       ELSE [loop[g] EXCEPT !.left = loop[g].left - 1]]
        /\ loop[g].left > 0
    BY <1>7 DEF CallHandler
  <2>2. loop[g].msg \in Messages /\ Known(loop[g].msg)
    BY <1>1, <2>1 DEF Origin
  <2>3. c.msg = loop[g].msg /\ c.from = "libp2p" /\ ~Past(c) /\ published'[c.msg] # <<"no">>
    BY <2>1, <2>2 DEF Call, Past, Known
  <2>4. \A h \in Gateways : loop'[h] = loop[h] \/ loop'[h].left = 0 \/ loop'[h].msg = loop[g].msg
    BY <1>1, <2>1 DEF DispatchTypes, Idle
  <2> HIDE DEF c
  <2>5. Origin'
    BY <1>1, <1>2, <2>1, <2>2, <2>3, <2>4, OriginKept DEF Known
  <2> QED
    BY <1>1, <2>1, <2>3, <2>5, NewCalls
<1>8. ASSUME NEW t \in Triggers, ChangeTrigger(t) PROVE Result
  <2>1. UNCHANGED <<published, calls, outbox, net, loop>>
    BY <1>8 DEF ChangeTrigger, messageVars, dispatchVars
  <2>2. Origin'
    BY <1>1, <1>2, <2>1, OriginKept DEF Known
  <2> QED
    BY <1>1, <2>1, <2>2, NewCalls
<1>9. ASSUME NEW g \in Gateways, NEW n \in 0 .. MaxHandlers, Resubscribe(g, n) PROVE Result
  <2>1. UNCHANGED <<published, calls, outbox, loop>> /\ net' \subseteq net
    BY <1>9 DEF Resubscribe, dispatchVars
  <2>2. Origin'
    BY <1>1, <1>2, <2>1, OriginKept DEF Known
  <2> QED
    BY <1>1, <2>1, <2>2, NewCalls
<1> QED
  BY <1>1, <1>3, <1>4, <1>5, <1>6, <1>7, <1>8, <1>9 DEF DispatchInv

-----------------------------------------------------------------------------
(* Claims and invocations. *)

\* A step after which no more calls have got by the local claim.
LEMMA StillOneOnGateway ==
    ASSUME DispatchInv, NEW m \in Messages, published' = published,
           \A t \in Triggers, g \in Gateways : fired'[m][t][g] = fired[m][t][g],
           mishaps[m] \subseteq mishaps'[m], \A g \in Gateways : seen[g] \subseteq seen'[g],
           \A c \in calls' : Past(c) /\ c.msg = m => c \in calls
    PROVE  OneOnGateway(m)'
<1>1. OneOnGateway(m) /\ Counted(m)' = Counted(m) /\ Counted(m) \subseteq Triggers
  BY DEF DispatchInv, Counted, Triggers
<1>2. \A c \in calls : c.gw \in Gateways
  BY DEF DispatchInv, DispatchTypes, Calls
<1>3. \A c \in calls' : Past(c) /\ c.msg = m => c \in calls /\ c.gw \in Gateways
  BY <1>2
<1> QED
  BY <1>1, <1>3 DEF OneOnGateway

\* A step after which no more calls have won the claim in Olric.
LEMMA StillOneWinner ==
    ASSUME DispatchInv, NEW m \in Messages, published' = published,
           \A t \in Triggers, g \in Gateways : fired'[m][t][g] = fired[m][t][g],
           mishaps[m] \subseteq mishaps'[m], claims \subseteq claims',
           \A c \in calls' : Won(c) /\ c.msg = m => c \in calls
    PROVE  OneWinner(m)'
<1>1. OneWinner(m) /\ Counted(m)' = Counted(m) /\ Counted(m) \subseteq Triggers
  BY DEF DispatchInv, Counted, Triggers
<1> QED
  BY <1>1 DEF OneWinner

\* The call that moves keeps its message, gateway and origin.
LEMMA MovedCall ==
    ASSUME DispatchTypes, Origin, NEW c \in calls, NEW at \in {"olric", "match"},
           Moves(c, at), c.at # "match"
    PROVE  \E d \in Calls :
              /\ d.gw = c.gw /\ d.msg = c.msg /\ d.from = c.from /\ d.at = at
              /\ calls' = (calls \ {c}) \cup {d} /\ c.from # "wasm"
<1> DEFINE d == [c EXCEPT !.at = at]
<1>1. c \in Calls /\ c.from # "wasm"
  BY DEF DispatchTypes, Origin
<1>2. d.gw = c.gw /\ d.msg = c.msg /\ d.from = c.from /\ d.at = at
  BY <1>1 DEF Calls
<1>3. d \in Calls /\ calls' = (calls \ {c}) \cup {d}
  BY <1>1 DEF Calls, Moves
<1> HIDE DEF d
<1> QED
  BY <1>1, <1>2, <1>3

\* A step of a dispatch is about what was published.
LEMMA CallOrigin ==
    ASSUME DispatchInv, NEW c \in calls, Dispatch(c)
    PROVE  Origin'
<1>1. DispatchTypes /\ Origin /\ DispatchTypes' /\ c \in Calls
  BY CallTypes DEF DispatchInv, DispatchTypes
<1>2. UNCHANGED <<published, outbox, net, loop>>
  BY DEF Dispatch, LocalClaim, ClaimDispatch, Invoke, messageVars
<1>3. CASE LocalClaim(c) \/ ClaimDispatch(c)
  <2>1. fired' = fired /\ c.at # "match"
    BY <1>3 DEF LocalClaim, ClaimDispatch
  <2>2. Ends(c) \/ Moves(c, "olric") \/ Moves(c, "match")
    BY <1>3 DEF LocalClaim, ClaimDispatch
  <2>3. \A d \in calls' \ calls : d.msg = c.msg /\ d.from # "wasm"
    BY <1>1, <2>1, <2>2, MovedCall DEF Ends
  <2>4. published'[c.msg] # <<"no">>
    BY <1>1, <1>2 DEF Origin, Known
  <2> QED
    BY <1>1, <1>2, <2>1, <2>3, <2>4, OriginKept
<1>4. CASE Invoke(c)
  <2>1. calls' \subseteq calls
    BY <1>4 DEF Invoke, Ends
  <2>2. Known(c.msg) /\ c.msg \in Messages
    BY <1>1 DEF Origin, Calls
  <2>3. \A m \in Messages \ {c.msg} : fired'[m] = fired[m]
    <3>1. CASE fired' = fired
      BY <3>1
    <3> QED
      BY <1>1, <1>4, <3>1, InvokeCounts DEF Invoke
  <2>4. \A m \in Messages, t \in Triggers, g \in Gateways : fired'[m][t][g] > 0 => Known(m)
    BY <1>1, <2>2, <2>3 DEF Origin
  <2> QED
    BY <1>1, <1>2, <2>1, <2>4 DEF Origin, Known
<1> QED
  BY <1>3, <1>4 DEF Dispatch

\* The local claim lets one call by on a gateway.
LEMMA LocalClaimKeeps ==
    ASSUME DispatchInv, NEW c \in calls, LocalClaim(c), NEW m \in Messages
    PROVE  OneOnGateway(m)' /\ OneWinner(m)'
<1>1. DispatchTypes /\ Origin /\ OneOnGateway(m) /\ c \in Calls /\ c.at = "claim"
  BY LocalClaimCases DEF DispatchInv, DispatchTypes
<1>2. UNCHANGED <<published, claims, fired>>
  BY LocalClaimCases
<1>3. c.msg \in Messages /\ c.gw \in Gateways
  BY <1>1 DEF Calls
<1>4. CASE Ends(c) /\ UNCHANGED <<seen, mishaps>>
  BY <1>2, <1>4, StillOneOnGateway, StillOneWinner DEF Ends
<1>5. CASE Moves(c, "olric") /\ Mishap(c, "full") /\ seen' = seen
  <2>1. PICK d \in Calls : /\ d.gw = c.gw /\ d.msg = c.msg /\ d.from = c.from /\ d.at = "olric"
                           /\ calls' = (calls \ {c}) \cup {d}
    BY <1>1, <1>5, MovedCall
  <2>2. mishaps[m] \subseteq mishaps'[m] /\ "full" \in mishaps'[c.msg]
    BY <1>1, <1>5, MishapTypes DEF Mishaps
  <2>3. OneWinner(m)'
    BY <1>2, <2>1, <2>2, StillOneWinner DEF Won
  <2>4. CASE m = c.msg
    BY <2>2, <2>3, <2>4 DEF OneOnGateway
  <2>5. CASE m # c.msg
    BY <1>2, <1>5, <2>1, <2>2, <2>3, <2>5, StillOneOnGateway
  <2> QED
    BY <2>4, <2>5
<1>6. CASE /\ c.msg \notin seen[c.gw] /\ Moves(c, "olric")
           /\ seen' = [seen EXCEPT ![c.gw] = @ \cup {c.msg}] /\ mishaps' = mishaps
  <2>1. PICK d \in Calls : /\ d.gw = c.gw /\ d.msg = c.msg /\ d.from = c.from /\ d.at = "olric"
                           /\ calls' = (calls \ {c}) \cup {d}
    BY <1>1, <1>6, MovedCall
  <2>2. c.msg \in seen'[c.gw] /\ \A g \in Gateways : seen[g] \subseteq seen'[g]
    BY <1>1, <1>3, <1>6 DEF DispatchTypes
  <2>3. OneWinner(m)'
    BY <1>2, <1>6, <2>1, StillOneWinner DEF Won
  <2>4. CASE m # c.msg
    BY <1>2, <1>6, <2>1, <2>2, <2>3, <2>4, StillOneOnGateway
  <2>5. CASE m = c.msg /\ "full" \notin mishaps[m]
    <3>1. \A e \in calls : Past(e) /\ e.msg = m => e.gw # c.gw
      BY <1>1, <1>6, <2>5 DEF OneOnGateway
    <3>2. Counted(m)' = Counted(m) /\ Counted(m) \subseteq Triggers
      BY <1>2 DEF Counted, Triggers
    <3>3. \A t \in Counted(m) : fired[m][t][c.gw] = 0
      <4> SUFFICES ASSUME NEW t \in Counted(m) PROVE fired[m][t][c.gw] = 0
        OBVIOUS
      <4>1. fired[m][t][c.gw] \in Nat
        BY <1>1, <1>3, <3>2 DEF DispatchTypes
      <4>2. ~(fired[m][t][c.gw] > 0)
        BY <1>1, <1>3, <1>6, <2>5 DEF OneOnGateway
      <4> QED
        BY <4>1, <4>2
    <3>4. \A e \in calls' : Past(e) /\ e.msg = m => e = d \/ (e \in calls /\ e.gw # c.gw)
      BY <2>1, <3>1
    <3>5. \A e \in calls : e.gw \in Gateways
      BY <1>1 DEF DispatchTypes, Calls
    <3>6. \A e \in calls' : Past(e) /\ e.msg = m =>
             m \in seen'[e.gw] /\ \A t \in Counted(m) : fired[m][t][e.gw] = 0
      BY <1>1, <2>1, <2>2, <2>5, <3>3, <3>4, <3>5 DEF OneOnGateway
    <3>7. \A e, f \in calls' :
             Past(e) /\ Past(f) /\ e.msg = m /\ f.msg = m /\ e.gw = f.gw => e = f
      BY <1>1, <2>1, <2>5, <3>4 DEF OneOnGateway
    <3>8. \A t \in Counted(m), g \in Gateways :
             fired[m][t][g] <= 1 /\ (fired[m][t][g] > 0 => m \in seen'[g])
      BY <1>1, <2>2, <2>5 DEF OneOnGateway
    <3> QED
      BY <1>2, <2>3, <3>2, <3>6, <3>7, <3>8 DEF OneOnGateway
  <2>6. CASE "full" \in mishaps[m]
    BY <1>6, <2>3, <2>6 DEF OneOnGateway
  <2> QED
    BY <2>4, <2>5, <2>6
<1> QED
  BY <1>4, <1>5, <1>6, LocalClaimCases

\* The claim in Olric lets one call by in all.
LEMMA ClaimDispatchKeeps ==
    ASSUME DispatchInv, NEW c \in calls, ClaimDispatch(c), NEW m \in Messages
    PROVE  OneOnGateway(m)' /\ OneWinner(m)'
<1>1. /\ DispatchTypes /\ Origin /\ OneOnGateway(m) /\ OneWinner(m) /\ c \in Calls
      /\ c.at = "olric" /\ c.msg \in Messages /\ c.from # "wasm"
  BY DEF DispatchInv, DispatchTypes, ClaimDispatch, Calls, Origin
<1>2. UNCHANGED <<published, seen, fired>>
  BY DEF ClaimDispatch, messageVars
<1>3. ASSUME Moves(c, "match"), mishaps[m] \subseteq mishaps'[m]
      PROVE  OneOnGateway(m)'
  <2>1. PICK d \in Calls : /\ d.gw = c.gw /\ d.msg = c.msg /\ d.from = c.from /\ d.at = "match"
                           /\ calls' = (calls \ {c}) \cup {d}
    BY <1>1, <1>3, MovedCall
  <2>2. CASE m # c.msg
    BY <1>2, <1>3, <2>1, <2>2, StillOneOnGateway
  <2>3. CASE m = c.msg /\ "full" \notin mishaps[m]
    <3>1. Past(c)
      BY <1>1 DEF Past
    <3>2. Counted(m)' = Counted(m)
      BY <1>2 DEF Counted
    <3>3. m \in seen[c.gw] /\ \A t \in Counted(m) : fired[m][t][c.gw] = 0
      BY <1>1, <2>3, <3>1 DEF OneOnGateway
    <3>4. \A e \in calls : Past(e) /\ e.msg = m /\ e.gw = c.gw => e = c
      BY <1>1, <2>3, <3>1 DEF OneOnGateway
    <3>5. \A e \in calls' : Past(e) /\ e.msg = m => e = d \/ (e \in calls /\ e.gw # c.gw)
      BY <2>1, <3>4
    <3>6. \A e \in calls' : Past(e) /\ e.msg = m =>
             m \in seen[e.gw] /\ \A t \in Counted(m) : fired[m][t][e.gw] = 0
      BY <1>1, <2>1, <2>3, <3>3, <3>5 DEF OneOnGateway
    <3>7. \A e, f \in calls' :
             Past(e) /\ Past(f) /\ e.msg = m /\ f.msg = m /\ e.gw = f.gw => e = f
      BY <1>1, <2>1, <2>3, <3>5 DEF OneOnGateway
    <3>8. \A t \in Counted(m), g \in Gateways :
             fired[m][t][g] <= 1 /\ (fired[m][t][g] > 0 => m \in seen[g])
      BY <1>1, <2>3 DEF OneOnGateway
    <3> QED
      BY <1>2, <3>2, <3>6, <3>7, <3>8 DEF OneOnGateway
  <2>4. CASE "full" \in mishaps[m]
    BY <1>3, <2>4 DEF OneOnGateway
  <2> QED
    BY <2>2, <2>3, <2>4
<1>4. CASE c.msg \in claims /\ Ends(c) /\ UNCHANGED <<claims, mishaps>>
  BY <1>2, <1>4, StillOneOnGateway, StillOneWinner DEF Ends
<1>5. CASE /\ Mishap(c, "olric") /\ Moves(c, "match")
           /\ claims' \in {claims, claims \cup {c.msg}}
  <2>1. mishaps[m] \subseteq mishaps'[m] /\ "olric" \in mishaps'[c.msg]
    BY <1>1, <1>5, MishapTypes DEF Mishaps
  <2>2. PICK d \in Calls : d.msg = c.msg /\ calls' = (calls \ {c}) \cup {d}
    BY <1>1, <1>5, MovedCall
  <2>3. CASE m = c.msg
    BY <1>3, <1>5, <2>1, <2>3 DEF OneWinner
  <2>4. CASE m # c.msg
    BY <1>2, <1>3, <1>5, <2>1, <2>2, <2>4, StillOneWinner
  <2> QED
    BY <2>3, <2>4
<1>6. CASE /\ c.msg \notin claims /\ claims' = claims \cup {c.msg}
           /\ Moves(c, "match") /\ mishaps' = mishaps
  <2>1. PICK d \in Calls : /\ d.msg = c.msg /\ d.at = "match"
                           /\ calls' = (calls \ {c}) \cup {d}
    BY <1>1, <1>6, MovedCall
  <2>2. OneOnGateway(m)'
    BY <1>3, <1>6
  <2>3. CASE m # c.msg
    BY <1>2, <1>6, <2>1, <2>2, <2>3, StillOneWinner
  <2>4. CASE m = c.msg /\ "olric" \notin mishaps[m]
    <3>1. \A e \in calls : ~(Won(e) /\ e.msg = m)
      BY <1>1, <1>6, <2>4 DEF OneWinner
    <3>2. Counted(m)' = Counted(m) /\ Counted(m) \subseteq Triggers
      BY <1>2 DEF Counted, Triggers
    <3>3. \A t \in Counted(m), g \in Gateways : fired[m][t][g] = 0
      <4> SUFFICES ASSUME NEW t \in Counted(m), NEW g \in Gateways PROVE fired[m][t][g] = 0
        OBVIOUS
      <4>1. fired[m][t][g] \in Nat
        BY <1>1, <3>2 DEF DispatchTypes
      <4>2. ~(fired[m][t][g] > 0)
        BY <1>1, <1>6, <2>4 DEF OneWinner
      <4> QED
        BY <4>1, <4>2
    <3>4. \A e \in calls' : Won(e) /\ e.msg = m => e = d
      BY <2>1, <3>1
    <3> QED
      BY <1>2, <1>6, <2>2, <2>4, <3>2, <3>3, <3>4 DEF OneWinner
  <2>5. CASE "olric" \in mishaps[m]
    BY <1>6, <2>2, <2>5 DEF OneWinner
  <2> QED
    BY <2>3, <2>4, <2>5
<1> QED
  BY <1>4, <1>5, <1>6 DEF ClaimDispatch

\* The call that invokes is the one that has won, and it ends.
LEMMA InvokeKeeps ==
    ASSUME DispatchInv, NEW c \in calls, Invoke(c), NEW m \in Messages
    PROVE  OneOnGateway(m)' /\ OneWinner(m)'
<1>1. /\ DispatchTypes /\ Origin /\ OneOnGateway(m) /\ OneWinner(m) /\ c \in Calls
      /\ c.at = "match" /\ c.msg \in Messages /\ c.gw \in Gateways
  BY DEF DispatchInv, DispatchTypes, Invoke, Calls
<1>2. UNCHANGED <<published, seen, claims>> /\ calls' = calls \ {c}
  BY DEF Invoke, messageVars, Ends
<1>3. \A e \in calls : e.gw \in Gateways
  BY <1>1 DEF DispatchTypes, Calls
<1>4. CASE Mishap(c, "lookup") /\ fired' = fired
  <2>1. mishaps[m] \subseteq mishaps'[m]
    BY <1>1, <1>4, MishapTypes DEF Mishaps
  <2> QED
    BY <1>2, <1>4, <2>1, StillOneOnGateway, StillOneWinner
<1>5. CASE /\ mishaps' = mishaps
           /\ fired' = [fired EXCEPT ![c.msg] = [t \in Triggers |-> [g \in Gateways |->
                  IF t \in Matches(c) /\ g = c.gw THEN @[t][g] + 1 ELSE @[t][g]]]]
  <2>1. /\ \A n \in Messages \ {c.msg} : fired'[n] = fired[n]
        /\ \A t \in Triggers, g \in Gateways : fired'[c.msg][t][g] =
              IF t \in Matches(c) /\ g = c.gw THEN fired[c.msg][t][g] + 1
              ELSE fired[c.msg][t][g]
    BY <1>1, <1>5, InvokeCounts
  <2>2. Counted(m)' = Counted(m) /\ Counted(m) \subseteq Triggers
    BY <1>2 DEF Counted, Triggers
  <2>3. mishaps' = mishaps
    BY <1>5
  <2>4. CASE \A t \in Triggers, g \in Gateways : fired'[m][t][g] = fired[m][t][g]
    BY <1>2, <1>5, <2>4, StillOneOnGateway, StillOneWinner
  <2>5. CASE m # c.msg
    BY <2>1, <2>4, <2>5
  <2>6. CASE m = c.msg /\ c.from = "wasm"
    <3>1. Counted(m) = {"literal"} /\ "literal" \notin Matches(c)
      BY <1>1, <2>6 DEF Origin, Counted, Matches
    <3>2. \A t \in Counted(m), g \in Gateways : fired'[m][t][g] = fired[m][t][g]
      BY <2>1, <2>2, <2>6, <3>1
    <3>3. OneOnGateway(m)'
      BY <1>1, <1>2, <1>3, <2>2, <2>3, <3>2 DEF OneOnGateway
    <3>4. OneWinner(m)'
      BY <1>1, <1>2, <2>2, <2>3, <3>2 DEF OneWinner
    <3> QED
      BY <3>3, <3>4
  <2>7. CASE m = c.msg /\ c.from # "wasm"
    <3>1. Past(c) /\ Won(c)
      BY <1>1, <2>7 DEF Past, Won
    <3>2. \A t \in Counted(m), g \in Gateways :
             /\ fired[m][t][g] \in Nat /\ (g # c.gw => fired'[m][t][g] = fired[m][t][g])
             /\ fired'[m][t][g] = fired[m][t][g] \/ fired'[m][t][g] = fired[m][t][g] + 1
      BY <1>1, <2>1, <2>2, <2>7 DEF DispatchTypes
    <3>3. ASSUME "full" \notin mishaps[m] PROVE OneOnGateway(m)'
      <4>1. m \in seen[c.gw] /\ \A t \in Counted(m) : fired[m][t][c.gw] = 0
        BY <1>1, <2>7, <3>1, <3>3 DEF OneOnGateway
      <4>2. \A e \in calls' : Past(e) /\ e.msg = m => e \in calls /\ e.gw # c.gw /\ e.gw \in Gateways
        BY <1>1, <1>2, <2>7, <3>1, <3>3 DEF OneOnGateway, DispatchTypes, Calls
      <4>3. \A e \in calls' : Past(e) /\ e.msg = m =>
               m \in seen[e.gw] /\ \A t \in Counted(m) : fired'[m][t][e.gw] = 0
        BY <1>1, <3>2, <3>3, <4>2 DEF OneOnGateway
      <4>4. \A e, f \in calls' :
               Past(e) /\ Past(f) /\ e.msg = m /\ f.msg = m /\ e.gw = f.gw => e = f
        BY <1>1, <1>2, <3>3 DEF OneOnGateway
      <4>5. \A t \in Counted(m), g \in Gateways :
               fired'[m][t][g] <= 1 /\ (fired'[m][t][g] > 0 => m \in seen[g])
        <5> SUFFICES ASSUME NEW t \in Counted(m), NEW g \in Gateways
                     PROVE  fired'[m][t][g] <= 1 /\ (fired'[m][t][g] > 0 => m \in seen[g])
          OBVIOUS
        <5>1. CASE g = c.gw
          BY <3>2, <4>1, <5>1
        <5>2. CASE g # c.gw
          BY <1>1, <3>2, <3>3, <5>2 DEF OneOnGateway
        <5> QED
          BY <5>1, <5>2
      <4> QED
        BY <1>2, <2>2, <2>3, <4>3, <4>4, <4>5 DEF OneOnGateway
    <3>4. OneOnGateway(m)'
      BY <2>3, <3>3 DEF OneOnGateway
    <3>5. ASSUME "olric" \notin mishaps[m] PROVE OneWinner(m)'
      <4>1. m \in claims /\ \A t \in Counted(m), g \in Gateways : fired[m][t][g] = 0
        BY <1>1, <2>7, <3>1, <3>5 DEF OneWinner
      <4>2. \A e \in calls' : ~(Won(e) /\ e.msg = m)
        BY <1>1, <1>2, <2>7, <3>1, <3>5 DEF OneWinner
      <4>3. \A t \in Counted(m), g \in Gateways :
               fired'[m][t][g] <= 1 /\ (fired'[m][t][g] > 0 => g = c.gw)
        BY <3>2, <4>1
      <4> QED
        BY <1>2, <2>2, <2>3, <4>1, <4>2, <4>3 DEF OneWinner
    <3>6. OneWinner(m)'
      BY <2>3, <3>5 DEF OneWinner
    <3> QED
      BY <3>4, <3>6
  <2> QED
    BY <2>5, <2>6, <2>7
<1> QED
  BY <1>4, <1>5 DEF Invoke

\* Every action keeps the invariant of the dispatch.
LEMMA DispatchInvStep == DispatchInv /\ [DispatchNext]_triggerVars => DispatchInv'
<1> SUFFICES ASSUME DispatchInv, [DispatchNext]_triggerVars PROVE DispatchInv'
  OBVIOUS
<1>1. ASSUME NEW g \in Gateways, Runs(g) PROVE DispatchInv'
  <2>1. ASSUME NEW c \in calls, Dispatch(c) PROVE DispatchInv'
    <3>1. DispatchTypes' /\ Origin'
      BY <2>1, CallTypes, CallOrigin DEF DispatchInv
    <3>2. \A m \in Messages : OneOnGateway(m)' /\ OneWinner(m)'
      BY <2>1, LocalClaimKeeps, ClaimDispatchKeeps, InvokeKeeps DEF Dispatch
    <3> QED
      BY <3>1, <3>2 DEF DispatchInv
  <2> QED
    BY <1>1, <2>1, DeliveryKeeps DEF Runs
<1>2. CASE UNCHANGED triggerVars
  BY <1>2 DEF triggerVars, envVars, messageVars, dispatchVars, DispatchInv, DispatchTypes,
     Origin, Known, OneOnGateway, OneWinner, Counted, Past, Won
<1> QED
  BY <1>1, <1>2, DeliveryKeeps DEF DispatchNext

\* Only what was published is dispatched, and each claim has one winner: the
\* invariant of Dispatch and its two claims.
THEOREM DispatchInvariance == DispatchSpec => []DispatchInv
BY DispatchInvInit, DispatchInvStep, PTL DEF DispatchSpec

\* Every variable of the dispatch has its type, and a full local cache takes
\* nothing more (localDedupCache.claim).
THEOREM DispatchTypeCorrect == DispatchSpec => []DispatchTypeOK
<1>1. DispatchInv => DispatchTypeOK
  BY DEF DispatchInv, DispatchTypes, DispatchTypeOK, Triggers, Calls, Mishaps
<1> QED
  BY <1>1, DispatchInvariance, PTL

\* "A SINGLE node never invokes the same publish twice, regardless of Olric
\* health": on any gateway, however often its subscription calls the handler,
\* unless the local cache was full (PubSubDispatcher.Dispatch).
THEOREM OnePerGateway == DispatchSpec => []OncePerGateway
<1>1. DispatchInv => OncePerGateway
  BY DEF DispatchInv, OneOnGateway, Counted, OncePerGateway, Triggers
<1> QED
  BY <1>1, DispatchInvariance, PTL

\* "The trigger fires once cluster-wide instead of once per gateway node", for
\* any number of gateways, as long as Olric answers (claimDispatch).
THEOREM OnePerPublish == DispatchSpec => []OncePerPublish
<1>1. DispatchInv => OncePerPublish
  <2> SUFFICES ASSUME DispatchInv, NEW m \in Messages, "olric" \notin mishaps[m],
                      NEW t \in Counted(m)
               PROVE  Cardinality(Fired(m, t)) <= 1
    BY DEF OncePerPublish, Counted, Triggers
  <2>1. /\ \A g \in Gateways : fired[m][t][g] \in Nat /\ fired[m][t][g] <= 1
        /\ \A g, h \in Gateways : fired[m][t][g] > 0 /\ fired[m][t][h] > 0 => g = h
    BY DEF DispatchInv, DispatchTypes, OneWinner, Counted, Triggers
  <2>2. ASSUME NEW x \in Fired(m, t)
        PROVE  \E g \in Gateways : x = <<g, 1>> /\ fired[m][t][g] > 0
    <3>1. PICK g \in Gateways : x \in {g} \X (1 .. fired[m][t][g])
      BY DEF Fired
    <3>2. x[1] = g /\ x[2] \in 1 .. fired[m][t][g] /\ x = <<x[1], x[2]>>
      BY <3>1
    <3>3. x[2] = 1 /\ fired[m][t][g] > 0
      BY <2>1, <3>2
    <3> QED
      BY <3>2, <3>3
  <2>3. \A x, y \in Fired(m, t) : x = y
    BY <2>1, <2>2
  <2>4. CASE Fired(m, t) = {}
    BY <2>4, FS_EmptySet
  <2>5. ASSUME NEW x \in Fired(m, t) PROVE Cardinality(Fired(m, t)) <= 1
    <3>1. Fired(m, t) = {x}
      BY <2>3
    <3> QED
      BY <3>1, FS_Singleton
  <2> QED
    BY <2>4, <2>5
<1> QED
  BY <1>1, DispatchInvariance, PTL
=============================================================================

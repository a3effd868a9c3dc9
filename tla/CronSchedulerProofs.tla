------------------------ MODULE CronSchedulerProofs ------------------------
(* Proofs about CronScheduler, for any gateways, rows, period and clocks. *)
EXTENDS CronScheduler, FiniteSetTheorems, SequenceTheorems, TLAPS

States == {"idle", "claim", "invoke", "record", "down"}
Busy == {"claim", "invoke", "record"}
Leased == {"invoke", "record"}
Entries == [id : Rows, next : Times]
Loops == [at : States, now : 0 .. MaxTime, due : Seq(Entries)]

\* The loop of a gateway: it works on rows that were due when it polled.
LoopOK(l) ==
    /\ l \in Loops /\ l.now <= clock
    /\ Len(l.due) <= BatchLimit /\ (l.at \in Busy <=> l.due # <<>>)
    /\ \A i \in 1 .. Len(l.due) : l.due[i].next <= l.now

RowTypes == [next : Times \cup {Never}, of : Times \cup {Never},
             status : {"none", "new", "added", "running", "ok", "error"}]

TypeInv ==
    /\ clock \in 0 .. MaxTime /\ failures \in 0 .. MaxFailures /\ stops \in 0 .. MaxStops
    /\ row \in [Rows -> RowTypes] /\ claimed \in [Rows -> Times \cup {Never}]
    /\ invoked \in [Rows -> [Times -> Nat]]
    /\ gw \in [Gateways -> Loops] /\ \A g \in Gateways : LoopOK(gw[g])

-----------------------------------------------------------------------------
(* The operators. *)

\* What the proofs use of the assumption on the constants.
LEMMA Constants ==
    /\ Period \in Nat /\ Period > 0 /\ BatchLimit \in Nat /\ BatchLimit > 0
    /\ MaxSkew \in Nat /\ MaxTime \in Nat /\ MaxFailures \in Nat /\ MaxStops \in Nat
    /\ Far \in Nat /\ Far > MaxTime + Period /\ Bad \subseteq Rows /\ IsFiniteSet(Rows)
    /\ Never \notin Times /\ Far \in Times
<1>1. /\ Period \in Nat /\ Period > 0 /\ BatchLimit \in Nat /\ BatchLimit > 0
      /\ MaxSkew \in Nat /\ MaxTime \in Nat /\ MaxFailures \in Nat /\ MaxStops \in Nat
  BY CronSchedulerAssumption
<1>2. Bad \subseteq Rows /\ IsFiniteSet(Rows)
  BY CronSchedulerAssumption
<1> QED
  BY <1>1, <1>2 DEF Far, Times, Never

\* Division with remainder.
LEMMA Division ==
    ASSUME NEW n \in Nat, NEW p \in Nat, p > 0
    PROVE  n \div p \in Nat /\ (n \div p) * p <= n /\ n < (n \div p) * p + p
OBVIOUS

\* The next run lies after now, by at most the period.
LEMMA NextRunBounds ==
    ASSUME NEW now \in Nat
    PROVE  NextRun(now) \in Nat /\ now < NextRun(now) /\ NextRun(now) <= now + Period
<1> DEFINE q == now \div Period
<1>1. q \in Nat /\ q * Period <= now /\ now < q * Period + Period
  BY Constants, Division
<1>2. (q + 1) * Period = q * Period + Period /\ q * Period \in Nat
  BY <1>1, Constants
<1> HIDE DEF q
<1>3. NextRun(now) = (q + 1) * Period
  BY DEF NextRun, q
<1> QED
  BY <1>1, <1>2, <1>3, Constants

\* The next run of a good expression is a time after now, and a row added with it is
\* well typed.
LEMMA NextRunType ==
    ASSUME NEW now \in 0 .. MaxTime
    PROVE  /\ NextRun(now) \in Times /\ NextRun(now) > now /\ NextRun(now) < Far
           /\ Added(now) \in RowTypes /\ Added(now).next = NextRun(now)
           /\ Added(now).of = Never /\ Added(now).status = "added"
<1>1. now \in Nat /\ NextRun(now) \in Nat /\ now < NextRun(now) /\ NextRun(now) <= now + Period
  BY NextRunBounds, Constants
<1>2. NextRun(now) < Far /\ NextRun(now) \in Times
  BY <1>1, Constants DEF Times
<1> QED
  BY <1>1, <1>2 DEF Added, RowTypes

\* What ListDue returns fits the loop that asked for it.
LEMMA ListDueFits ==
    ASSUME NEW now \in 0 .. MaxTime, row \in [Rows -> RowTypes], NEW q \in ListDue(now)
    PROVE  /\ q \in Seq(Entries) /\ Len(q) <= BatchLimit
           /\ \A i \in 1 .. Len(q) : q[i].next <= now
<1> DEFINE due == {t \in Rows : IsDue(t, now)}
           n == IF Cardinality(due) < BatchLimit THEN Cardinality(due) ELSE BatchLimit
<1>1. IsFiniteSet(due) /\ Cardinality(due) \in Nat
  BY Constants, FS_Subset, FS_CardinalityType
<1>2. n \in Nat /\ n <= BatchLimit /\ 1 .. n \subseteq 1 .. Cardinality(due)
  BY <1>1, Constants
<1>3. PICK p \in [1 .. Cardinality(due) -> due] :
          q = [i \in 1 .. n |-> [id |-> p[i], next |-> row[p[i]].next]]
  BY DEF ListDue
<1> HIDE DEF n
<1>4. \A i \in 1 .. n : p[i] \in Rows /\ row[p[i]].next \in Times /\ row[p[i]].next <= now
  BY <1>2 DEF IsDue, Present, RowTypes
<1>5. q \in [1 .. n -> Entries]
  BY <1>3, <1>4 DEF Entries
<1>6. q \in Seq(Entries) /\ Len(q) = n
  BY <1>2, <1>5
<1> QED
  BY <1>2, <1>3, <1>4, <1>6

-----------------------------------------------------------------------------
(* Steps of a loop. *)

\* The row a loop is at is one that was due when it polled.
LEMMA HeadFits ==
    ASSUME TypeInv, NEW g \in Gateways, gw[g].at \in Busy
    PROVE  /\ Head1(g) \in Entries /\ Head1(g).id \in Rows /\ Head1(g).next \in Times
           /\ gw[g].now \in 0 .. MaxTime /\ Head1(g).next <= gw[g].now
<1>1. gw[g].due \in Seq(Entries) /\ gw[g].due # <<>> /\ gw[g].now \in 0 .. MaxTime
  BY DEF TypeInv, LoopOK, Loops
<1>2. Head1(g) = gw[g].due[1] /\ Head1(g) \in Entries /\ 1 \in 1 .. Len(gw[g].due)
  BY <1>1 DEF Head1
<1> QED
  BY <1>1, <1>2 DEF TypeInv, LoopOK, Entries

\* The rest of a batch.
LEMMA RestFits ==
    ASSUME NEW q \in Seq(Entries), q # <<>>
    PROVE  /\ Tail(q) \in Seq(Entries) /\ Len(Tail(q)) = Len(q) - 1 /\ Len(q) \in Nat
           /\ \A i \in 1 .. Len(Tail(q)) : i + 1 \in 1 .. Len(q) /\ Tail(q)[i] = q[i + 1]
OBVIOUS

\* A loop that goes on to the next row stays well typed and leaves the others alone;
LEMMA ProceedsFits ==
    ASSUME TypeInv, NEW g \in Gateways, gw[g].at \in Busy, Proceeds(g), clock' = clock
    PROVE  /\ gw' \in [Gateways -> Loops] /\ \A x \in Gateways : LoopOK(gw[x])'
           /\ gw'[g].at \in {"idle", "claim"}
           /\ \A x \in Gateways \ {g} : gw'[x] = gw[x]
<1> DEFINE due == gw[g].due
           rest == Tail(due)
           m == IF rest = <<>> THEN Waiting
                ELSE [at |-> "claim", now |-> gw[g].now, due |-> rest]
<1>1. /\ gw[g] \in Loops /\ due \in Seq(Entries) /\ due # <<>> /\ gw[g].now <= clock
      /\ gw[g].now \in 0 .. MaxTime /\ clock \in Nat
      /\ Len(due) <= BatchLimit /\ \A i \in 1 .. Len(due) : due[i].next <= gw[g].now
  BY Constants DEF TypeInv, LoopOK, Loops
<1>2. gw' = [gw EXCEPT ![g] = m]
  BY DEF Proceeds
<1>3. /\ rest \in Seq(Entries) /\ Len(rest) = Len(due) - 1 /\ Len(due) \in Nat
      /\ \A i \in 1 .. Len(rest) : i + 1 \in 1 .. Len(due) /\ rest[i] = due[i + 1]
  BY <1>1, RestFits
<1> HIDE DEF rest, due
<1>4. /\ m \in Loops /\ m.now <= clock /\ m.at \in {"idle", "claim"}
      /\ Len(m.due) <= BatchLimit /\ (m.at \in Busy <=> m.due # <<>>)
      /\ \A i \in 1 .. Len(m.due) : m.due[i].next <= m.now
  <2>1. CASE rest = <<>>
    <3>1. m = [at |-> "idle", now |-> 0, due |-> <<>>]
      BY <2>1 DEF Waiting
    <3> HIDE DEF m
    <3>2. m \in Loops
      <4>1. <<>> \in Seq(Entries) /\ 0 \in 0 .. MaxTime
        BY Constants
      <4> QED
        BY <3>1, <4>1 DEF Loops, States
    <3>3. m.now = 0 /\ m.at = "idle" /\ m.due = <<>> /\ Len(<<>>) = 0
      BY <3>1
    <3> QED
      BY <1>1, <3>2, <3>3, Constants DEF Busy
  <2>2. CASE rest # <<>>
    <3>1. m = [at |-> "claim", now |-> gw[g].now, due |-> rest]
      BY <2>2
    <3>2. m \in Loops
      BY <1>1, <1>3, <3>1 DEF Loops, States
    <3>3. m.now = gw[g].now /\ m.at = "claim" /\ m.due = rest
      BY <3>1
    <3> HIDE DEF m
    <3>4. Len(m.due) <= BatchLimit
      BY <1>1, <1>3, <3>3, Constants
    <3>5. \A i \in 1 .. Len(m.due) : m.due[i].next <= m.now
      BY <1>1, <1>3, <3>3
    <3> QED
      BY <1>1, <2>2, <3>2, <3>3, <3>4, <3>5 DEF Busy
  <2> QED
    BY <2>1, <2>2
<1> HIDE DEF m
<1> QED
  BY <1>2, <1>4 DEF TypeInv, LoopOK

\* so does one that goes on with the same row.
LEMMA SetsFits ==
    ASSUME TypeInv, NEW g \in Gateways, gw[g].at \in Busy, NEW at \in Busy,
           Sets(g, at), clock' = clock
    PROVE  /\ gw' \in [Gateways -> Loops] /\ \A x \in Gateways : LoopOK(gw[x])'
           /\ gw'[g] = [gw[g] EXCEPT !.at = at] /\ gw'[g].at = at
           /\ gw'[g].now = gw[g].now /\ gw'[g].due = gw[g].due
           /\ \A x \in Gateways \ {g} : gw'[x] = gw[x]
<1>1. gw[g] \in Loops /\ gw \in [Gateways -> Loops]
  BY DEF TypeInv
<1>2. /\ gw' = [gw EXCEPT ![g] = [gw[g] EXCEPT !.at = at]]
      /\ gw'[g] = [gw[g] EXCEPT !.at = at] /\ \A x \in Gateways \ {g} : gw'[x] = gw[x]
  BY <1>1 DEF Sets
<1>3. /\ gw'[g].at = at /\ gw'[g].now = gw[g].now /\ gw'[g].due = gw[g].due
      /\ gw'[g] \in Loops
  BY <1>1, <1>2 DEF Loops, States, Busy
<1> QED
  BY <1>1, <1>2, <1>3 DEF TypeInv, LoopOK, Busy

\* A loop that waits, or is down, is well typed.
LEMMA WaitingFits ==
    /\ Waiting \in Loops /\ Waiting.at = "idle" /\ Waiting.now = 0 /\ Waiting.due = <<>>
    /\ [Waiting EXCEPT !.at = "down"] = [at |-> "down", now |-> 0, due |-> <<>>]
    /\ [at |-> "down", now |-> 0, due |-> <<>>] \in Loops /\ Len(<<>>) = 0
<1>1. <<>> \in Seq(Entries) /\ 0 \in 0 .. MaxTime /\ Len(<<>>) = 0
  BY Constants
<1> QED
  BY <1>1 DEF Waiting, Loops, States

\* A loop that waits or is down.
LEMMA RestsFits ==
    ASSUME TypeInv, NEW g \in Gateways, clock' = clock,
           NEW l \in {Waiting, [Waiting EXCEPT !.at = "down"]}, gw' = [gw EXCEPT ![g] = l]
    PROVE  /\ gw' \in [Gateways -> Loops] /\ \A x \in Gateways : LoopOK(gw[x])'
           /\ gw'[g].at \in {"idle", "down"} /\ \A x \in Gateways \ {g} : gw'[x] = gw[x]
<1>1. /\ l \in Loops /\ l.now = 0 /\ l.due = <<>> /\ Len(l.due) = 0
      /\ l.at \in {"idle", "down"} /\ l.at \notin Busy
  BY WaitingFits DEF Busy
<1>2. clock \in Nat /\ BatchLimit \in Nat
  BY Constants DEF TypeInv
<1> QED
  BY <1>1, <1>2 DEF TypeInv, LoopOK

\* A poll that returns rows.
LEMMA TickFits ==
    ASSUME TypeInv, NEW g \in Gateways, Tick(g), ~UNCHANGED gw
    PROVE  /\ gw' \in [Gateways -> Loops] /\ \A x \in Gateways : LoopOK(gw[x])'
           /\ gw[g].at = "idle" /\ gw'[g].at = "claim"
           /\ \A x \in Gateways \ {g} : gw'[x] = gw[x]
<1>1. clock \in 0 .. MaxTime /\ clock' = clock /\ MaxSkew \in Nat /\ MaxTime \in Nat
  BY Constants DEF TypeInv, Tick
<1>2. PICK skew \in 0 .. MaxSkew : clock - skew >= 0 /\ \E q \in ListDue(clock - skew) \ {<<>>} :
          gw' = [gw EXCEPT ![g] = [at |-> "claim", now |-> clock - skew, due |-> q]]
  BY DEF Tick
<1> DEFINE now == clock - skew
<1>3. now \in 0 .. MaxTime /\ now <= clock
  BY <1>1, <1>2
<1>4. PICK q \in ListDue(now) : q # <<>> /\ gw' = [gw EXCEPT ![g] = [at |-> "claim", now |-> now, due |-> q]]
  BY <1>2
<1> HIDE DEF now
<1>5. /\ q \in Seq(Entries) /\ Len(q) <= BatchLimit
      /\ \A i \in 1 .. Len(q) : q[i].next <= now
  BY <1>3, ListDueFits DEF TypeInv
<1>6. [at |-> "claim", now |-> now, due |-> q] \in Loops
  BY <1>3, <1>5 DEF Loops, States
<1> QED
  BY <1>1, <1>3, <1>4, <1>5, <1>6 DEF Tick, TypeInv, LoopOK, Busy

-----------------------------------------------------------------------------
(* Types. *)

\* The types hold at first.
LEMMA TypeInit == Init => TypeInv
<1> SUFFICES ASSUME Init PROVE TypeInv
  OBVIOUS
<1>1. /\ clock \in 0 .. MaxTime /\ failures \in 0 .. MaxFailures /\ stops \in 0 .. MaxStops
      /\ clock = 0 /\ 0 \in 0 .. MaxTime
  BY Constants DEF Init
<1>2. row \in [Rows -> RowTypes]
  <2>1. Added(0) \in RowTypes /\ [Absent EXCEPT !.status = "new"] \in RowTypes
    BY <1>1, NextRunType DEF Absent, RowTypes
  <2> QED
    BY <2>1 DEF Init
<1>3. claimed \in [Rows -> Times \cup {Never}] /\ invoked \in [Rows -> [Times -> Nat]]
  BY DEF Init
<1>4. gw \in [Gateways -> Loops] /\ \A g \in Gateways : gw[g] = Waiting
  BY WaitingFits DEF Init
<1>5. \A g \in Gateways : LoopOK(gw[g])
  BY <1>1, <1>4, WaitingFits, Constants DEF LoopOK, Busy
<1> QED
  BY <1>1, <1>2, <1>3, <1>4, <1>5 DEF TypeInv

\* The result of a run, written over the row it was claimed in.
LEMMA PatchEffect ==
    ASSUME TypeInv, NEW g \in Gateways, gw[g].at \in Busy, NEW status,
           Patch(Head1(g).id, [next |-> Head1(g).next, now |-> gw[g].now], status)
    PROVE  \/ row' = row /\ row[Head1(g).id].next # NextRun(gw[g].now)
           \/ /\ row[Head1(g).id].next = NextRun(gw[g].now)
              /\ row' = [row EXCEPT ![Head1(g).id] = [next |-> row[Head1(g).id].next,
                                         of |-> Head1(g).next, status |-> status]]
<1> DEFINE t == Head1(g).id
           run == [next |-> Head1(g).next, now |-> gw[g].now]
<1>1. t \in Rows /\ row \in [Rows -> RowTypes] /\ row[t] \in RowTypes
  BY HeadFits DEF TypeInv
<1>2. run.now = gw[g].now /\ run.next = Head1(g).next
  OBVIOUS
<1>3. CASE row[t].next # NextRun(gw[g].now)
  BY <1>2, <1>3 DEF Patch, Swaps
<1>4. CASE row[t].next = NextRun(gw[g].now)
  BY <1>2, <1>4 DEF Patch, Swaps
<1> QED
  BY <1>3, <1>4

\* Every action keeps the types.
LEMMA TypeStep == TypeInv /\ [Next]_vars => TypeInv'
<1> SUFFICES ASSUME TypeInv, [Next]_vars PROVE TypeInv'
  OBVIOUS
<1>1. CASE PassTime
  <2>1. clock \in 0 .. MaxTime /\ MaxTime \in Nat /\ clock' \in 0 .. MaxTime /\ clock' > clock
    BY <1>1, Constants DEF PassTime, TypeInv
  <2>2. \A g \in Gateways : gw[g].now \in 0 .. MaxTime
    BY DEF TypeInv, Loops
  <2>3. \A g \in Gateways : LoopOK(gw[g])'
    BY <1>1, <2>1, <2>2 DEF PassTime, TypeInv, LoopOK
  <2> QED
    BY <1>1, <2>1, <2>3 DEF PassTime, TypeInv
<1>2. ASSUME NEW t \in Rows, Add(t) \/ Remove(t) PROVE TypeInv'
  <2>1. Added(clock) \in RowTypes /\ Absent \in RowTypes
    BY NextRunType DEF TypeInv, Absent, RowTypes
  <2>2. row' \in [Rows -> RowTypes]
    BY <1>2, <2>1 DEF Add, Remove, TypeInv
  <2> QED
    BY <1>2, <2>2 DEF Add, Remove, TypeInv, LoopOK
<1>3. ASSUME NEW g \in Gateways, Tick(g) PROVE TypeInv'
  <2>1. CASE UNCHANGED gw
    <3>1. UNCHANGED <<clock, row, invoked, claimed, stops>> /\ (Fails \/ failures' = failures)
      BY <1>3 DEF Tick
    <3>2. failures' \in 0 .. MaxFailures
      BY <3>1, Constants DEF Fails, TypeInv
    <3> QED
      BY <2>1, <3>1, <3>2 DEF TypeInv, LoopOK
  <2>2. CASE ~UNCHANGED gw
    <3>1. failures' = failures
      BY <1>3, <2>2 DEF Tick
    <3> QED
      BY <1>3, <2>2, <3>1, TickFits DEF Tick, TypeInv
  <2> QED
    BY <2>1, <2>2
<1>4. ASSUME NEW g \in Gateways, Postpone(g) PROVE TypeInv'
  <2>1. /\ gw' \in [Gateways -> Loops] /\ \A x \in Gateways : LoopOK(gw[x])'
        /\ Head1(g).id \in Rows /\ Head1(g).next \in Times
    BY <1>4, ProceedsFits, HeadFits DEF Postpone, Busy
  <2>2. [next |-> Far, status |-> "error", of |-> Head1(g).next] \in RowTypes
    BY <2>1, Constants DEF RowTypes
  <2>3. failures' \in 0 .. MaxFailures
    BY <1>4, Constants DEF Postpone, Fails, TypeInv
  <2>4. row' \in [Rows -> RowTypes] /\ claimed' \in [Rows -> Times \cup {Never}]
    BY <1>4, <2>1, <2>2 DEF Postpone, TypeInv
  <2> QED
    BY <1>4, <2>1, <2>3, <2>4 DEF Postpone, TypeInv
<1>5. ASSUME NEW g \in Gateways, Claim(g) PROVE TypeInv'
  <2>1. /\ gw[g].at \in Busy /\ Head1(g).id \in Rows /\ Head1(g).next \in Times
        /\ gw[g].now \in 0 .. MaxTime
    BY <1>5, HeadFits DEF Claim, Busy
  <2>2. gw' \in [Gateways -> Loops] /\ \A x \in Gateways : LoopOK(gw[x])'
    BY <1>5, <2>1, ProceedsFits, SetsFits DEF Claim, Busy
  <2>3. [next |-> NextRun(gw[g].now), status |-> "running", of |-> Head1(g).next] \in RowTypes
    BY <2>1, NextRunType DEF RowTypes
  <2>4. failures' \in 0 .. MaxFailures
    BY <1>5, Constants DEF Claim, Fails, TypeInv
  <2>5. row' \in [Rows -> RowTypes] /\ claimed' \in [Rows -> Times \cup {Never}]
    BY <1>5, <2>1, <2>3 DEF Claim, TypeInv
  <2> QED
    BY <1>5, <2>2, <2>4, <2>5 DEF Claim, TypeInv
<1>6. ASSUME NEW g \in Gateways, Invoke(g) PROVE TypeInv'
  <2>1. gw[g].at \in Busy /\ Head1(g).id \in Rows /\ Head1(g).next \in Times
    BY <1>6, HeadFits DEF Invoke, Busy
  <2>2. gw' \in [Gateways -> Loops] /\ \A x \in Gateways : LoopOK(gw[x])'
    BY <1>6, <2>1, SetsFits DEF Invoke, Busy
  <2>3. invoked' \in [Rows -> [Times -> Nat]]
    BY <1>6, <2>1 DEF Invoke, TypeInv
  <2> QED
    BY <1>6, <2>2, <2>3 DEF Invoke, TypeInv
<1>7. ASSUME NEW g \in Gateways, Record(g) PROVE TypeInv'
  <2>1. /\ gw' \in [Gateways -> Loops] /\ \A x \in Gateways : LoopOK(gw[x])'
        /\ Head1(g).id \in Rows /\ Head1(g).next \in Times
    BY <1>7, ProceedsFits, HeadFits DEF Record, Busy
  <2>2. row' \in [Rows -> RowTypes]
    <3>1. CASE row' = row
      BY <3>1 DEF TypeInv
    <3>2. ASSUME row' # row PROVE row' \in [Rows -> RowTypes]
      <4>1. PICK status \in {"ok", "error"} :
                Patch(Head1(g).id, [next |-> Head1(g).next, now |-> gw[g].now], status)
        BY <1>7, <3>2 DEF Record
      <4>2. row' = [row EXCEPT ![Head1(g).id] = [next |-> row[Head1(g).id].next,
                                       of |-> Head1(g).next, status |-> status]]
        BY <1>7, <3>2, <4>1, PatchEffect DEF Record, Busy
      <4>3. [next |-> row[Head1(g).id].next, of |-> Head1(g).next, status |-> status] \in RowTypes
        BY <2>1 DEF TypeInv, RowTypes
      <4> QED
        BY <4>2, <4>3 DEF TypeInv
    <3> QED
      BY <3>1, <3>2
  <2>3. failures' \in 0 .. MaxFailures
    BY <1>7, Constants DEF Record, Fails, TypeInv
  <2> QED
    BY <1>7, <2>1, <2>2, <2>3 DEF Record, TypeInv
<1>8. ASSUME NEW g \in Gateways, Stop(g) \/ Start(g) PROVE TypeInv'
  <2>1. gw' \in [Gateways -> Loops] /\ \A x \in Gateways : LoopOK(gw[x])'
    BY <1>8, RestsFits DEF Stop, Start
  <2>2. stops' \in 0 .. MaxStops
    BY <1>8, Constants DEF Stop, Start, TypeInv
  <2> QED
    BY <1>8, <2>1, <2>2 DEF Stop, Start, TypeInv
<1>9. CASE UNCHANGED vars
  BY <1>9 DEF vars, TypeInv, LoopOK
<1> QED
  BY <1>1, <1>2, <1>3, <1>4, <1>5, <1>6, <1>7, <1>8, <1>9 DEF Next, Scheduler

\* The types the runs check (CronDueRow, function_cron_triggers).
THEOREM TypeCorrect == Spec => []TypeOK
<1>1. TypeInv => TypeOK
  <2> SUFFICES ASSUME TypeInv PROVE TypeOK
    OBVIOUS
  <2>1. row \in [Rows -> [next : Times \cup {Never}, of : Times \cup {Never},
                         status : {"none", "new", "added", "running", "ok", "error"}]]
    BY DEF TypeInv, RowTypes
  <2>2. \A g \in Gateways : /\ gw[g].at \in {"idle", "claim", "invoke", "record", "down"}
                            /\ Len(gw[g].due) <= BatchLimit
                            /\ gw[g].at \in {"claim", "invoke", "record"} <=> gw[g].due # <<>>
    BY DEF TypeInv, LoopOK, Loops, States, Busy
  <2> QED
    BY <2>1, <2>2 DEF TypeInv, TypeOK
<1> QED
  BY <1>1, TypeInit, TypeStep, PTL DEF Spec

-----------------------------------------------------------------------------
(* What may happen to a row, to the loops and to the count of a run. *)

\* A row that waits to be added has no past.
NewRows == \A t \in Rows : row[t].status = "new" => row[t].next = Never /\ claimed[t] = Never

\* A gateway that runs or has run the head of its batch: the row shows that run
\* as the last one, or has gone on, or is removed.
Lease(g) ==
    LET t == Head1(g).id
    IN \/ row[t] = Absent
       \/ row[t].next > NextRun(gw[g].now) /\ claimed[t] > Head1(g).next
       \/ row[t].next = NextRun(gw[g].now) /\ claimed[t] = Head1(g).next

Leases == \A g \in Gateways : gw[g].at \in Leased => Lease(g)

Past(t, s) == row[t] = Absent \/ row[t].next > s

Same(t) == row'[t] = row[t] /\ claimed'[t] = claimed[t]
Removed(t) == row'[t] = Absent /\ claimed'[t] = claimed[t]
Created(t) ==
    /\ row[t].status = "new" /\ row'[t].status = "added" /\ row'[t].of = Never
    /\ claimed'[t] = claimed[t]
Patched(t) ==
    /\ row[t].next \in Times /\ row'[t].next = row[t].next /\ row'[t].of = claimed[t]
    /\ row'[t].status \in {"ok", "error"} /\ claimed'[t] = claimed[t]
Advanced(t) ==
    /\ row[t].next \in Times /\ row'[t].next > row[t].next /\ row'[t].of = row[t].next
    /\ row'[t].status \in {"running", "error"} /\ claimed'[t] = row[t].next

RowStep(t) == Same(t) \/ Removed(t) \/ Created(t) \/ Patched(t) \/ Advanced(t)

\* Gateway g claims the head of its batch.
Claims(g) ==
    LET t == Head1(g).id
    IN /\ gw[g].at = "claim" /\ gw'[g].at = "invoke"
       /\ gw'[g].now = gw[g].now /\ gw'[g].due = gw[g].due
       /\ row[t].next = Head1(g).next /\ row'[t].next = NextRun(gw[g].now)
       /\ claimed'[t] = Head1(g).next
       /\ \A x \in Gateways \ {g} : gw'[x] = gw[x]

\* Gateway g goes on with the run it holds.
Continues(g) ==
    /\ gw[g].at \in Leased /\ (gw'[g].at = "invoke" => gw[g].at = "invoke")
    /\ gw'[g].now = gw[g].now /\ gw'[g].due = gw[g].due

Counts(t, s) ==
    \/ invoked'[t][s] = invoked[t][s]
    \/ /\ invoked'[t][s] = invoked[t][s] + 1 /\ UNCHANGED <<row, claimed>>
       /\ \E g \in Gateways : /\ gw[g].at = "invoke" /\ Head1(g) = [id |-> t, next |-> s]
                              /\ gw'[g].at = "record"
                              /\ \A x \in Gateways \ {g} : gw'[x] = gw[x]

\* A claim, by what it does to the tables.
LEMMA ClaimEffect ==
    ASSUME TypeInv, NEW g \in Gateways, Claim(g)
    PROVE  /\ \A t \in Rows : RowStep(t)
           /\ Claims(g) \/ gw'[g].at \in {"idle", "claim"}
           /\ \A x \in Gateways \ {g} : gw'[x] = gw[x]
<1> DEFINE t == Head1(g).id
           old == Head1(g).next
           new == NextRun(gw[g].now)
           applied == /\ row[t].next = old
                      /\ row' = [row EXCEPT ![t] = [next |-> new, status |-> "running", of |-> old]]
                      /\ claimed' = [claimed EXCEPT ![t] = old]
<1>1. /\ gw[g].at = "claim" /\ gw[g].at \in Busy /\ clock' = clock
      /\ t \in Rows /\ old \in Times /\ gw[g].now \in 0 .. MaxTime /\ old <= gw[g].now
  BY HeadFits DEF Claim, Busy
<1>2. new \in Times /\ new > gw[g].now
  BY <1>1, NextRunType
<1>3. \/ applied /\ Sets(g, "invoke")
      \/ UNCHANGED <<row, claimed>> /\ Proceeds(g)
      \/ applied /\ Proceeds(g)
  BY DEF Claim, Swaps
<1>4. new > old
  BY <1>1, <1>2, Constants DEF Times
<1> HIDE DEF new, old, t
<1>5. ASSUME applied PROVE /\ \A x \in Rows : RowStep(x)
                           /\ row'[t].next = new /\ claimed'[t] = old /\ row[t].next = old
  <2>1. /\ row'[t] = [next |-> new, status |-> "running", of |-> old] /\ claimed'[t] = old
        /\ \A x \in Rows \ {t} : row'[x] = row[x] /\ claimed'[x] = claimed[x]
    BY <1>1, <1>5 DEF TypeInv
  <2>2. Advanced(t)
    BY <1>1, <1>4, <1>5, <2>1 DEF Advanced
  <2> QED
    BY <1>5, <2>1, <2>2 DEF RowStep, Same
<1>6. ASSUME Proceeds(g)
      PROVE  gw'[g].at \in {"idle", "claim"} /\ \A x \in Gateways \ {g} : gw'[x] = gw[x]
  BY <1>1, <1>6, ProceedsFits
<1>7. CASE UNCHANGED <<row, claimed>> /\ Proceeds(g)
  BY <1>6, <1>7 DEF RowStep, Same
<1>8. CASE applied /\ Proceeds(g)
  BY <1>5, <1>6, <1>8
<1>9. CASE applied /\ Sets(g, "invoke")
  <2>1. /\ gw'[g].at = "invoke" /\ gw'[g].now = gw[g].now /\ gw'[g].due = gw[g].due
        /\ \A x \in Gateways \ {g} : gw'[x] = gw[x]
    BY <1>1, <1>9, SetsFits DEF Busy
  <2>2. Claims(g)
    BY <1>1, <1>5, <1>9, <2>1 DEF Claims, t, old, new
  <2> QED
    BY <1>5, <1>9, <2>1, <2>2
<1> QED
  BY <1>3, <1>7, <1>8, <1>9

\* A broken row is put off.
LEMMA PostponeEffect ==
    ASSUME TypeInv, NEW g \in Gateways, Postpone(g)
    PROVE  /\ \A t \in Rows : RowStep(t)
           /\ gw'[g].at \in {"idle", "claim"} /\ \A x \in Gateways \ {g} : gw'[x] = gw[x]
<1> DEFINE t == Head1(g).id
           old == Head1(g).next
<1>1. /\ gw[g].at \in Busy /\ clock' = clock /\ Proceeds(g)
      /\ t \in Rows /\ old \in Times /\ gw[g].now \in 0 .. MaxTime /\ old <= gw[g].now
  BY HeadFits DEF Postpone, Busy
<1>2. Far > old
  BY <1>1, Constants DEF Times
<1>3. \/ UNCHANGED <<row, claimed>>
      \/ /\ row[t].next = old
         /\ row' = [row EXCEPT ![t] = [next |-> Far, status |-> "error", of |-> old]]
         /\ claimed' = [claimed EXCEPT ![t] = old]
  BY DEF Postpone, Swaps
<1> HIDE DEF old, t
<1>4. CASE UNCHANGED <<row, claimed>>
  BY <1>1, <1>4, ProceedsFits DEF RowStep, Same
<1>5. CASE /\ row[t].next = old
           /\ row' = [row EXCEPT ![t] = [next |-> Far, status |-> "error", of |-> old]]
           /\ claimed' = [claimed EXCEPT ![t] = old]
  <2>1. /\ row'[t] = [next |-> Far, status |-> "error", of |-> old] /\ claimed'[t] = old
        /\ \A x \in Rows \ {t} : row'[x] = row[x] /\ claimed'[x] = claimed[x]
    BY <1>1, <1>5 DEF TypeInv
  <2>2. Advanced(t)
    BY <1>1, <1>2, <1>5, <2>1 DEF Advanced
  <2> QED
    BY <1>1, <2>1, <2>2, ProceedsFits DEF RowStep, Same
<1> QED
  BY <1>3, <1>4, <1>5

\* A result is recorded for the run claimed last, or not at all.
LEMMA RecordEffect ==
    ASSUME TypeInv, Leases, NEW g \in Gateways, Record(g)
    PROVE  /\ \A t \in Rows : RowStep(t)
           /\ row[Head1(g).id].next = NextRun(gw[g].now) =>
                  failures' # failures \/ Patched(Head1(g).id)
           /\ gw'[g].at \in {"idle", "claim"} /\ \A x \in Gateways \ {g} : gw'[x] = gw[x]
<1> DEFINE t == Head1(g).id
<1>1. /\ gw[g].at \in Busy /\ gw[g].at \in Leased /\ clock' = clock /\ Proceeds(g)
      /\ t \in Rows /\ gw[g].now \in 0 .. MaxTime /\ claimed' = claimed
  BY HeadFits DEF Record, Busy, Leased
<1>2. NextRun(gw[g].now) \in Times
  BY <1>1, NextRunType
<1>3. gw'[g].at \in {"idle", "claim"} /\ \A x \in Gateways \ {g} : gw'[x] = gw[x]
  BY <1>1, ProceedsFits
<1>4. Lease(g)
  BY <1>1 DEF Leases
<1>5. CASE Fails /\ row' = row
  <2>1. failures' # failures
    BY <1>5 DEF Fails, TypeInv
  <2> QED
    BY <1>1, <1>3, <1>5, <2>1 DEF RowStep, Same
<1>6. ASSUME NEW status \in {"ok", "error"},
             Patch(t, [next |-> Head1(g).next, now |-> gw[g].now], status)
      PROVE  /\ \A x \in Rows : RowStep(x)
             /\ row[t].next = NextRun(gw[g].now) => Patched(t)
  <2>1. CASE row' = row /\ row[t].next # NextRun(gw[g].now)
    BY <1>1, <2>1 DEF RowStep, Same
  <2>2. CASE /\ row[t].next = NextRun(gw[g].now)
             /\ row' = [row EXCEPT ![t] = [next |-> row[t].next, of |-> Head1(g).next,
                                          status |-> status]]
    <3>1. /\ row'[t] = [next |-> row[t].next, of |-> Head1(g).next, status |-> status]
          /\ \A x \in Rows \ {t} : row'[x] = row[x]
      BY <1>1, <2>2 DEF TypeInv
    <3>2. claimed[t] = Head1(g).next
      BY <1>2, <1>4, <2>2, Constants DEF Lease, Absent, Times
    <3>3. Patched(t)
      BY <1>1, <1>2, <2>2, <3>1, <3>2 DEF Patched
    <3> QED
      BY <1>1, <3>1, <3>3 DEF RowStep, Same
  <2> QED
    BY <1>1, <1>6, <2>1, <2>2, PatchEffect
<1> QED
  BY <1>3, <1>5, <1>6 DEF Record

\* Every step does one of these things to a row.
LEMMA RowSteps ==
    ASSUME TypeInv, Leases, [Next]_vars
    PROVE  \A t \in Rows : RowStep(t)
<1>1. ASSUME UNCHANGED <<row, claimed>> PROVE \A t \in Rows : RowStep(t)
  BY <1>1 DEF RowStep, Same
<1>2. CASE PassTime \/ UNCHANGED vars
  BY <1>1, <1>2 DEF PassTime, vars
<1>3. ASSUME NEW t \in Rows, Add(t) PROVE \A x \in Rows : RowStep(x)
  <2>1. /\ row'[t] = Added(clock) /\ \A x \in Rows \ {t} : row'[x] = row[x]
        /\ claimed' = claimed /\ row[t].status = "new"
    BY <1>3 DEF Add, TypeInv
  <2>2. Created(t)
    BY <2>1, NextRunType DEF Created, TypeInv
  <2> QED
    BY <2>1, <2>2 DEF RowStep, Same
<1>4. ASSUME NEW t \in Rows, Remove(t) PROVE \A x \in Rows : RowStep(x)
  <2>1. row'[t] = Absent /\ (\A x \in Rows \ {t} : row'[x] = row[x]) /\ claimed' = claimed
    BY <1>4 DEF Remove, TypeInv
  <2> QED
    BY <2>1 DEF RowStep, Same, Removed
<1>5. ASSUME NEW g \in Gateways, Tick(g) \/ Invoke(g) \/ Start(g) \/ Stop(g)
      PROVE  \A t \in Rows : RowStep(t)
  BY <1>1, <1>5 DEF Tick, Invoke, Start, Stop
<1>6. ASSUME NEW g \in Gateways, Postpone(g) \/ Claim(g) \/ Record(g)
      PROVE  \A t \in Rows : RowStep(t)
  BY <1>6, PostponeEffect, ClaimEffect, RecordEffect
<1> QED
  BY <1>2, <1>3, <1>4, <1>5, <1>6 DEF Next, Scheduler

\* A gateway holds a run after a step because it claimed it or held it before.
LEMMA LoopSteps ==
    ASSUME TypeInv, Leases, [Next]_vars, NEW g \in Gateways, gw'[g].at \in Leased
    PROVE  Claims(g) \/ Continues(g)
<1>1. ASSUME gw'[g] = gw[g] PROVE Continues(g)
  BY <1>1 DEF Continues
<1>2. CASE gw' = gw
  BY <1>1, <1>2
<1>3. ASSUME NEW x \in Gateways, Tick(x) PROVE Continues(g)
  BY <1>1, <1>2, <1>3, TickFits DEF Leased
<1>4. ASSUME NEW x \in Gateways, Postpone(x) \/ Record(x) PROVE Continues(g)
  BY <1>1, <1>4, PostponeEffect, RecordEffect DEF Leased
<1>5. ASSUME NEW x \in Gateways, Claim(x) PROVE Claims(g) \/ Continues(g)
  BY <1>1, <1>5, ClaimEffect DEF Leased
<1>6. ASSUME NEW x \in Gateways, Invoke(x) PROVE Continues(g)
  <2>1. /\ gw[x].at = "invoke" /\ gw'[x].at = "record" /\ gw'[x].now = gw[x].now
        /\ gw'[x].due = gw[x].due /\ \A y \in Gateways \ {x} : gw'[y] = gw[y]
    BY <1>6, SetsFits DEF Invoke, Busy
  <2> QED
    BY <1>1, <2>1 DEF Continues, Leased
<1>7. ASSUME NEW x \in Gateways, Stop(x) \/ Start(x) PROVE Continues(g)
  <2>1. gw'[x].at \in {"idle", "down"} /\ \A y \in Gateways \ {x} : gw'[y] = gw[y]
    BY <1>7, RestsFits DEF Stop, Start
  <2> QED
    BY <1>1, <2>1 DEF Leased
<1>8. ASSUME PassTime \/ UNCHANGED vars \/ \E t \in Rows : Add(t) \/ Remove(t) PROVE gw' = gw
  BY <1>8 DEF PassTime, vars, Add, Remove
<1> QED
  BY <1>1, <1>2, <1>3, <1>4, <1>5, <1>6, <1>7, <1>8 DEF Next, Scheduler

\* A run is counted when a gateway that holds it invokes it.
LEMMA CountSteps ==
    ASSUME TypeInv, [Next]_vars, NEW t \in Rows, NEW s \in Times
    PROVE  Counts(t, s)
<1>1. ASSUME NEW g \in Gateways, Invoke(g) PROVE Counts(t, s)
  <2>1. /\ gw[g].at = "invoke" /\ gw'[g].at = "record" /\ gw'[g].now = gw[g].now
        /\ gw'[g].due = gw[g].due /\ \A y \in Gateways \ {g} : gw'[y] = gw[y]
        /\ Head1(g) \in Entries /\ UNCHANGED <<row, claimed>>
    BY <1>1, SetsFits, HeadFits DEF Invoke, Busy
  <2>2. invoked' = [invoked EXCEPT ![Head1(g).id] =
                        [invoked[Head1(g).id] EXCEPT ![Head1(g).next] = @ + 1]]
    BY <1>1 DEF Invoke
  <2>3. Head1(g).id \in Rows /\ Head1(g).next \in Times
        /\ Head1(g) = [id |-> Head1(g).id, next |-> Head1(g).next]
    BY <2>1 DEF Entries
  <2>4. CASE Head1(g).id = t /\ Head1(g).next = s
    <3>1. invoked'[t][s] = invoked[t][s] + 1
      BY <2>2, <2>4 DEF TypeInv
    <3> QED
      BY <2>1, <2>3, <2>4, <3>1 DEF Counts
  <2>5. CASE ~(Head1(g).id = t /\ Head1(g).next = s)
    <3>1. invoked'[t][s] = invoked[t][s]
      BY <2>2, <2>3, <2>5 DEF TypeInv
    <3> QED
      BY <3>1 DEF Counts
  <2> QED
    BY <2>4, <2>5
<1>2. ASSUME ~\E g \in Gateways : Invoke(g) PROVE invoked' = invoked
  BY <1>2 DEF Next, Scheduler, vars, PassTime, Add, Remove, Tick, Postpone, Claim, Record, Stop, Start
<1> QED
  BY <1>1, <1>2 DEF Counts

-----------------------------------------------------------------------------
(* The invariant. *)

\* A run that was invoked is past.
PastRuns == \A t \in Rows, s \in Times : invoked[t][s] > 0 => Past(t, s)

\* A run that is about to be invoked has not been invoked.
Fresh == \A g \in Gateways :
    gw[g].at = "invoke" => invoked[Head1(g).id][Head1(g).next] = 0

\* No two gateways are about to invoke the same run.
Alone == \A g, x \in Gateways :
    g # x /\ gw[g].at = "invoke" /\ gw[x].at = "invoke" => Head1(g) # Head1(x)

RunInv ==
    TypeInv /\ NewRows /\ Leases /\ PastRuns /\ Fresh /\ Alone /\ OncePerRun /\ StatusOfLastRun

\* Who holds a run knows it to be past.
LEMMA LeaseIsPast ==
    ASSUME TypeInv, NEW g \in Gateways, gw[g].at \in Leased, Lease(g)
    PROVE  Past(Head1(g).id, Head1(g).next)
<1>1. /\ Head1(g).id \in Rows /\ Head1(g).next \in Times /\ gw[g].now \in 0 .. MaxTime
      /\ Head1(g).next <= gw[g].now
  BY HeadFits DEF Busy, Leased
<1>2. NextRun(gw[g].now) \in Times /\ NextRun(gw[g].now) > gw[g].now
  BY <1>1, NextRunType
<1>3. row[Head1(g).id].next \in Times \cup {Never}
  BY <1>1 DEF TypeInv, RowTypes
<1> QED
  BY <1>1, <1>2, <1>3, Constants DEF Lease, Past, Times, Never

\* A time that lies behind a row stays behind it.
LEMMA PastKept ==
    ASSUME TypeInv, NewRows, TypeInv', NEW t \in Rows, NEW s \in Times, RowStep(t), Past(t, s)
    PROVE  Past(t, s)'
<1>1. /\ row[t].next \in Times \cup {Never} /\ row'[t].next \in Times \cup {Never}
      /\ Absent.status = "none"
  BY DEF TypeInv, RowTypes, Absent
<1>2. CASE Created(t)
  <2>1. row[t].next = Never /\ row[t] # Absent
    BY <1>1, <1>2 DEF Created, NewRows
  <2> QED
    BY <2>1, Constants DEF Past, Times, Never
<1>3. CASE Patched(t) \/ Advanced(t)
  <2>1. row[t] # Absent
    BY <1>3, Constants DEF Patched, Advanced, Absent
  <2> QED
    BY <1>1, <1>3, <2>1, Constants DEF Past, Patched, Advanced, Times, Never
<1> QED
  BY <1>2, <1>3 DEF RowStep, Same, Removed, Past

\* A gateway that has claimed a run keeps it to itself while it is at it.
LEMMA LeaseKept ==
    ASSUME TypeInv, NewRows, TypeInv', NEW g \in Gateways, RowStep(Head1(g).id), Lease(g),
           Continues(g)
    PROVE  Lease(g)'
<1> DEFINE t == Head1(g).id
           s == Head1(g).next
           n == NextRun(gw[g].now)
<1>1. t \in Rows /\ s \in Times /\ gw[g].now \in 0 .. MaxTime /\ s <= gw[g].now
  BY HeadFits DEF Busy, Leased, Continues
<1>2. n \in Times /\ n > gw[g].now
  BY <1>1, NextRunType
<1>3. Head1(g)' = Head1(g) /\ gw'[g].now = gw[g].now
  BY DEF Continues, Head1
<1>4. /\ row[t].next \in Times \cup {Never} /\ row'[t].next \in Times \cup {Never}
      /\ claimed[t] \in Times \cup {Never} /\ Absent.status = "none" /\ Absent.next = Never
  BY <1>1 DEF TypeInv, RowTypes, Absent
<1>5. \/ row[t] = Absent
      \/ row[t].next > n /\ claimed[t] > s
      \/ row[t].next = n /\ claimed[t] = s
  BY DEF Lease
<1>6. SUFFICES \/ row'[t] = Absent
               \/ row'[t].next > n /\ claimed'[t] > s
               \/ row'[t].next = n /\ claimed'[t] = s
  BY <1>3 DEF Lease
<1> HIDE DEF t, s, n
<1>7. CASE Same(t) \/ Removed(t)
  BY <1>5, <1>7 DEF Same, Removed
<1>8. CASE Created(t)
  <2>1. row[t].next = Never /\ row[t] # Absent
    BY <1>1, <1>4, <1>8 DEF Created, NewRows
  <2> QED
    BY <1>2, <1>5, <2>1, Constants DEF Times, Never
<1>9. CASE Patched(t)
  BY <1>4, <1>5, <1>9, Constants DEF Patched
<1>10. CASE Advanced(t)
  <2>1. row[t].next # Never
    BY <1>10, Constants DEF Advanced
  <2>2. row[t].next >= n
    BY <1>2, <1>4, <1>5, <2>1, Constants DEF Times, Never
  <2>3. row'[t].next > row[t].next /\ claimed'[t] = row[t].next /\ row[t].next \in Times
    BY <1>10 DEF Advanced
  <2> QED
    BY <1>1, <1>2, <1>4, <2>2, <2>3, Constants DEF Times, Never
<1> QED
  BY <1>7, <1>8, <1>9, <1>10 DEF RowStep, t

\* The invariant of the runs holds at first.
LEMMA RunInit == Init => RunInv
<1> SUFFICES ASSUME Init PROVE RunInv
  OBVIOUS
<1>1. TypeInv
  BY TypeInit
<1>2. \A g \in Gateways : gw[g].at = "idle"
  BY WaitingFits DEF Init
<1>3. \A t \in Rows : /\ row[t] = Added(0) \/ row[t] = [Absent EXCEPT !.status = "new"]
                      /\ claimed[t] = Never
  BY DEF Init
<1>4. \A t \in Rows : row[t].of = Never /\ (row[t].status = "new" => row[t].next = Never)
  BY <1>3, NextRunType, Constants DEF Absent
<1>5. NewRows /\ StatusOfLastRun
  BY <1>3, <1>4 DEF NewRows, StatusOfLastRun
<1>6. PastRuns /\ OncePerRun
  BY DEF Init, PastRuns, OncePerRun
<1>7. Leases /\ Fresh /\ Alone
  BY <1>2 DEF Leases, Leased, Fresh, Alone
<1> QED
  BY <1>1, <1>5, <1>6, <1>7 DEF RunInv

\* Every action keeps the invariant of the runs.
LEMMA RunStep == RunInv /\ [Next]_vars => RunInv'
<1> SUFFICES ASSUME RunInv, [Next]_vars PROVE RunInv'
  OBVIOUS
<1>1. TypeInv /\ NewRows /\ Leases /\ TypeInv'
  BY TypeStep DEF RunInv
<1>2. \A t \in Rows : RowStep(t)
  BY <1>1, RowSteps
<1>3. ASSUME NEW g \in Gateways, gw'[g].at \in Leased PROVE Claims(g) \/ Continues(g)
  BY <1>1, <1>3, LoopSteps
<1>4. \A t \in Rows, s \in Times : Counts(t, s)
  BY <1>1, CountSteps
<1>5. NewRows'
  BY <1>1, <1>2 DEF NewRows, RowStep, Same, Removed, Created, Patched, Advanced, Absent
<1>6. StatusOfLastRun'
  <2> SUFFICES ASSUME NEW t \in Rows, row'[t].next # Never PROVE row'[t].of = claimed'[t]
    BY DEF StatusOfLastRun, Present
  <2>1. CASE Same(t) \/ Removed(t)
    BY <2>1 DEF RunInv, StatusOfLastRun, Present, Same, Removed, Absent
  <2>2. CASE Created(t)
    BY <1>1, <2>2 DEF NewRows, Created
  <2>3. CASE Patched(t) \/ Advanced(t)
    BY <2>3 DEF Patched, Advanced
  <2> QED
    BY <1>2, <2>1, <2>2, <2>3 DEF RowStep
\* A gateway that claims finds the run neither past nor held by another.
<1>7. ASSUME NEW g \in Gateways, Claims(g)
      PROVE  ~Past(Head1(g).id, Head1(g).next) /\ ~UNCHANGED row
  <2>1. /\ Head1(g).id \in Rows /\ Head1(g).next \in Times /\ gw[g].now \in 0 .. MaxTime
        /\ Head1(g).next <= gw[g].now
    BY <1>1, <1>7, HeadFits DEF Claims, Busy
  <2>2. NextRun(gw[g].now) \in Times /\ NextRun(gw[g].now) > gw[g].now
    BY <2>1, NextRunType
  <2>3. row[Head1(g).id].next = Head1(g).next /\ row'[Head1(g).id].next = NextRun(gw[g].now)
    BY <1>7 DEF Claims
  <2>4. Head1(g).next # Never /\ ~(Head1(g).next > Head1(g).next)
        /\ NextRun(gw[g].now) # Head1(g).next
    BY <2>1, <2>2, Constants DEF Times, Never
  <2> QED
    BY <2>3, <2>4 DEF Past, Absent
<1>8. Leases'
  <2> SUFFICES ASSUME NEW g \in Gateways, gw'[g].at \in Leased PROVE Lease(g)'
    BY DEF Leases
  <2>1. CASE Claims(g)
    <3>1. Head1(g)' = Head1(g)
      BY <2>1 DEF Claims, Head1
    <3> QED
      BY <2>1, <3>1 DEF Claims, Lease
  <2>2. CASE Continues(g)
    <3>1. Head1(g).id \in Rows /\ Lease(g)
      BY <1>1, <2>2, HeadFits DEF Continues, Leased, Busy, Leases
    <3> QED
      BY <1>1, <1>2, <2>2, <3>1, LeaseKept
  <2> QED
    BY <1>3, <2>1, <2>2
\* Who holds a run before the step knows it to be past.
<1>9. ASSUME NEW g \in Gateways, gw[g].at \in Leased
      PROVE  /\ Head1(g).id \in Rows /\ Head1(g).next \in Times
             /\ Past(Head1(g).id, Head1(g).next)
  BY <1>1, <1>9, LeaseIsPast, HeadFits DEF Leases, Leased, Busy
<1>10. ASSUME NEW t \in Rows, NEW s \in Times, invoked'[t][s] # invoked[t][s]
       PROVE  /\ invoked'[t][s] = invoked[t][s] + 1 /\ invoked[t][s] = 0 /\ UNCHANGED row
              /\ Past(t, s)
              /\ \E g \in Gateways : /\ gw[g].at = "invoke" /\ Head1(g) = [id |-> t, next |-> s]
                                     /\ gw'[g].at = "record"
  <2>1. /\ invoked'[t][s] = invoked[t][s] + 1 /\ UNCHANGED row
        /\ \E g \in Gateways : /\ gw[g].at = "invoke" /\ Head1(g) = [id |-> t, next |-> s]
                               /\ gw'[g].at = "record"
    BY <1>4, <1>10 DEF Counts
  <2>2. PICK g \in Gateways : gw[g].at = "invoke" /\ Head1(g) = [id |-> t, next |-> s]
    BY <2>1
  <2>3. Head1(g).id = t /\ Head1(g).next = s
    BY <2>2
  <2>4. invoked[t][s] = 0
    BY <2>2, <2>3 DEF RunInv, Fresh
  <2>5. Past(t, s)
    BY <1>9, <2>2, <2>3 DEF Leased
  <2> QED
    BY <2>1, <2>4, <2>5
<1>11. PastRuns'
  <2> SUFFICES ASSUME NEW t \in Rows, NEW s \in Times, invoked'[t][s] > 0 PROVE Past(t, s)'
    BY DEF PastRuns
  <2>1. Past(t, s)
    BY <1>10 DEF RunInv, PastRuns
  <2> QED
    BY <1>1, <1>2, <2>1, PastKept
<1>12. OncePerRun'
  <2> SUFFICES ASSUME NEW t \in Rows, NEW s \in Times PROVE invoked'[t][s] <= 1
    BY DEF OncePerRun
  <2> QED
    BY <1>10 DEF RunInv, OncePerRun
<1>13. Fresh'
  <2> SUFFICES ASSUME NEW g \in Gateways, gw'[g].at = "invoke"
               PROVE  invoked'[Head1(g)'.id][Head1(g)'.next] = 0
    BY DEF Fresh
  <2>1. Head1(g)' = Head1(g) /\ (Claims(g) \/ Continues(g))
    BY <1>3 DEF Claims, Continues, Head1, Leased
  <2>2. /\ Head1(g).id \in Rows /\ Head1(g).next \in Times
        /\ Head1(g) = [id |-> Head1(g).id, next |-> Head1(g).next]
    BY <1>1, <2>1, HeadFits DEF Claims, Continues, Leased, Busy, Entries
  <2>3. invoked[Head1(g).id][Head1(g).next] = 0
    <3>1. CASE Claims(g)
      <4>1. ~(invoked[Head1(g).id][Head1(g).next] > 0)
        BY <1>7, <2>2, <3>1 DEF RunInv, PastRuns
      <4>2. invoked[Head1(g).id][Head1(g).next] \in Nat
        BY <1>1, <2>2 DEF TypeInv
      <4> QED
        BY <4>1, <4>2
    <3>2. CASE Continues(g)
      BY <3>2 DEF Continues, RunInv, Fresh
    <3> QED
      BY <2>1, <3>1, <3>2
  <2>4. invoked'[Head1(g).id][Head1(g).next] = invoked[Head1(g).id][Head1(g).next]
    <3> SUFFICES ASSUME invoked'[Head1(g).id][Head1(g).next] # invoked[Head1(g).id][Head1(g).next]
                 PROVE  FALSE
      OBVIOUS
    <3>1. PICK x \in Gateways : /\ gw[x].at = "invoke" /\ Head1(x) = Head1(g)
                               /\ gw'[x].at = "record" /\ UNCHANGED row
      BY <1>10, <2>2
    <3>2. x # g /\ Continues(g)
      BY <1>7, <2>1, <3>1
    <3> QED
      BY <3>1, <3>2 DEF Continues, RunInv, Alone
  <2> QED
    BY <2>1, <2>3, <2>4
<1>14. Alone'
  <2> SUFFICES ASSUME NEW g \in Gateways, NEW x \in Gateways, g # x,
                      gw'[g].at = "invoke", gw'[x].at = "invoke"
               PROVE  Head1(g)' # Head1(x)'
    BY DEF Alone
  <2>1. ASSUME NEW y \in Gateways, gw'[y].at = "invoke"
        PROVE  Head1(y)' = Head1(y) /\ (Claims(y) \/ Continues(y))
    BY <1>3, <2>1 DEF Claims, Continues, Head1, Leased
  <2>2. ASSUME NEW y \in Gateways, NEW z \in Gateways, y # z, gw'[z].at = "invoke", Claims(y)
        PROVE  Head1(y) # Head1(z)
    <3>1. gw[z].at = "invoke"
      BY <2>2 DEF Claims
    <3> QED
      BY <1>7, <1>9, <2>2, <3>1 DEF Leased
  <2>3. CASE Continues(g) /\ Continues(x)
    BY <2>1, <2>3 DEF Continues, RunInv, Alone
  <2> QED
    BY <2>1, <2>2, <2>3
<1> QED
  BY <1>1, <1>5, <1>6, <1>8, <1>11, <1>12, <1>13, <1>14 DEF RunInv

\* No run of a cron trigger is invoked twice, for any number of gateways, rows and
\* overlapping polls, any clocks, failing claims and restarts.
THEOREM RunsOnce == Spec => []OncePerRun
<1>1. RunInv => OncePerRun
  BY DEF RunInv
<1> QED
  BY <1>1, RunInit, RunStep, PTL DEF Spec

\* The status of a row is that of the run claimed last: the second
\* compare-and-swap keeps late results out.
THEOREM StatusIsOfLastRun == Spec => []StatusOfLastRun
<1>1. RunInv => StatusOfLastRun
  BY DEF RunInv
<1> QED
  BY <1>1, RunInit, RunStep, PTL DEF Spec

\* No step moves next_run_at back (MarkRun).
THEOREM RunsAdvance == Spec => NextRunAdvances
<1>1. RunInv /\ RunInv' /\ [Next]_vars =>
          [\A t \in Rows : Present(t) /\ row'[t].next # Never => row'[t].next >= row[t].next]_vars
  <2> SUFFICES ASSUME RunInv, RunInv', [Next]_vars, NEW t \in Rows, Present(t), row'[t].next # Never
               PROVE  row'[t].next >= row[t].next
    OBVIOUS
  <2>1. RowStep(t)
    BY RowSteps DEF RunInv
  <2>2. row[t].next \in Nat /\ row'[t].next \in Nat
    BY Constants DEF RunInv, TypeInv, RowTypes, Present, Times
  <2>3. ~Created(t)
    BY DEF RunInv, NewRows, Created, Present
  <2> QED
    BY <2>1, <2>2, <2>3 DEF RowStep, Same, Removed, Patched, Advanced, Absent
<1> QED
  BY <1>1, RunInit, RunStep, PTL DEF Spec, NextRunAdvances

-----------------------------------------------------------------------------
(* What "running" means. *)

HeldBy(t, g) == gw[g].at \in Leased /\ Head1(g) = [id |-> t, next |-> row[t].of]

\* Every action keeps what the status 'running' says.
LEMMA RunningStep == RunInv /\ RunningIsTrue /\ [Next]_vars => RunningIsTrue'
<1> SUFFICES ASSUME RunInv, RunningIsTrue, [Next]_vars, NEW t \in Rows,
                    row'[t].status = "running", failures' + stops' = 0
             PROVE  \E g \in Gateways : HeldBy(t, g)'
  BY DEF RunningIsTrue, HeldBy, Leased
<1>1. TypeInv /\ Leases /\ TypeInv' /\ StatusOfLastRun
  BY TypeStep DEF RunInv
<1>2. failures \in Nat /\ stops \in Nat /\ failures' = 0 /\ stops' = 0
  <2>1. /\ failures \in 0 .. MaxFailures /\ stops \in 0 .. MaxStops
        /\ failures' \in 0 .. MaxFailures /\ stops' \in 0 .. MaxStops
    BY <1>1 DEF TypeInv
  <2>2. failures \in Nat /\ stops \in Nat /\ failures' \in Nat /\ stops' \in Nat
    BY <2>1, Constants
  <2>3. \A a, b \in Nat : a + b = 0 => a = 0 /\ b = 0
    OBVIOUS
  <2> QED
    BY <2>2, <2>3
\* A holder that goes on with its run still holds it.
<1>3. ASSUME NEW g \in Gateways, HeldBy(t, g), gw'[g].at \in Leased,
             gw'[g].due = gw[g].due, row'[t] = row[t]
      PROVE  HeldBy(t, g)'
  BY <1>3 DEF HeldBy, Head1
<1>4. ASSUME row[t].status = "running", failures + stops = 0
      PROVE  \E g \in Gateways : HeldBy(t, g)
  BY <1>4 DEF RunningIsTrue, HeldBy, Leased
\* A step of a gateway that holds no run, with row t as before.
<1>5. ASSUME NEW x \in Gateways, gw[x].at \notin Leased, row'[t] = row[t],
             UNCHANGED <<failures, stops>>, \A y \in Gateways \ {x} : gw'[y] = gw[y]
      PROVE  \E g \in Gateways : HeldBy(t, g)'
  <2>1. PICK g \in Gateways : HeldBy(t, g)
    BY <1>2, <1>4, <1>5
  <2> QED
    BY <1>3, <1>5, <2>1 DEF HeldBy
<1>6. CASE PassTime \/ UNCHANGED vars
  BY <1>2, <1>3, <1>4, <1>6 DEF PassTime, vars, HeldBy
<1>7. ASSUME NEW u \in Rows, Add(u) \/ Remove(u) PROVE \E g \in Gateways : HeldBy(t, g)'
  <2>1. (t # u /\ row'[t] = row[t]) \/ row'[t] = Added(clock) \/ row'[t] = Absent
    BY <1>1, <1>7 DEF Add, Remove, TypeInv
  <2>2. row'[t] = row[t]
    BY <1>1, <2>1, NextRunType DEF Absent, TypeInv
  <2> QED
    BY <1>2, <1>3, <1>4, <1>7, <2>2 DEF Add, Remove, HeldBy
<1>8. ASSUME NEW x \in Gateways, Tick(x) PROVE \E g \in Gateways : HeldBy(t, g)'
  <2>1. ~Fails
    BY <1>2 DEF Fails
  <2>2. CASE gw' = gw
    BY <1>2, <1>3, <1>4, <1>8, <2>1, <2>2 DEF Tick, HeldBy
  <2>3. CASE gw' # gw
    BY <1>1, <1>5, <1>8, <2>1, <2>3, TickFits DEF Tick, Leased
  <2> QED
    BY <2>2, <2>3
<1>9. ASSUME NEW x \in Gateways, Postpone(x) PROVE \E g \in Gateways : HeldBy(t, g)'
  <2>1. ~Fails /\ gw[x].at \notin Leased /\ \A y \in Gateways \ {x} : gw'[y] = gw[y]
    BY <1>1, <1>2, <1>9, PostponeEffect DEF Fails, Postpone, Leased
  <2>2. row'[t] = row[t]
    BY <1>1, <1>9, <2>1 DEF Postpone, TypeInv
  <2> QED
    BY <1>5, <1>9, <2>1, <2>2 DEF Postpone
<1>10. ASSUME NEW x \in Gateways, Claim(x) PROVE \E g \in Gateways : HeldBy(t, g)'
  <2>1. /\ ~Fails /\ gw[x].at \notin Leased /\ gw[x].at \in Busy
        /\ Head1(x) \in Entries /\ Head1(x).id \in Rows
        /\ \A y \in Gateways \ {x} : gw'[y] = gw[y]
    BY <1>1, <1>2, <1>10, ClaimEffect, HeadFits DEF Fails, Claim, Leased, Busy
  <2>2. CASE row'[t] = row[t]
    BY <1>5, <1>10, <2>1, <2>2 DEF Claim
  <2>3. CASE row'[t] # row[t]
    <3>1. /\ Sets(x, "invoke") /\ clock' = clock
          /\ row' = [row EXCEPT ![Head1(x).id] = [next |-> NextRun(gw[x].now),
                                  status |-> "running", of |-> Head1(x).next]]
      BY <1>10, <2>1, <2>3 DEF Claim
    <3>2. t = Head1(x).id /\ row'[t].of = Head1(x).next
      BY <1>1, <2>1, <2>3, <3>1 DEF TypeInv
    <3>3. gw'[x].at = "invoke" /\ gw'[x].due = gw[x].due
      BY <1>1, <2>1, <3>1, SetsFits DEF Busy
    <3>4. Head1(x) = [id |-> t, next |-> row'[t].of]
      BY <2>1, <3>2 DEF Entries
    <3> QED
      BY <3>3, <3>4 DEF HeldBy, Head1, Leased
  <2> QED
    BY <2>2, <2>3
<1>11. ASSUME NEW x \in Gateways, Invoke(x) PROVE \E g \in Gateways : HeldBy(t, g)'
  <2>1. /\ gw'[x].at = "record" /\ gw'[x].due = gw[x].due /\ row' = row
        /\ UNCHANGED <<failures, stops>> /\ \A y \in Gateways \ {x} : gw'[y] = gw[y]
    BY <1>1, <1>11, SetsFits DEF Invoke, Busy
  <2>2. PICK g \in Gateways : HeldBy(t, g)
    BY <1>2, <1>4, <2>1
  <2>3. gw'[g].at \in Leased /\ gw'[g].due = gw[g].due
    BY <2>1, <2>2 DEF HeldBy, Leased
  <2> QED
    BY <1>3, <2>1, <2>2, <2>3
<1>12. ASSUME NEW x \in Gateways, Record(x) PROVE \E g \in Gateways : HeldBy(t, g)'
  <2>1. /\ ~Fails /\ gw[x].at \in Leased /\ gw[x].at \in Busy /\ Head1(x).id \in Rows
        /\ \A y \in Gateways \ {x} : gw'[y] = gw[y]
    BY <1>1, <1>2, <1>12, RecordEffect, HeadFits DEF Fails, Record, Leased, Busy
  <2>2. UNCHANGED <<failures, stops>>
    BY <1>12, <2>1 DEF Record
  <2>3. row'[t] = row[t]
    <3>1. PICK status \in {"ok", "error"} :
              Patch(Head1(x).id, [next |-> Head1(x).next, now |-> gw[x].now], status)
      BY <1>12, <2>1 DEF Record
    <3>2. CASE row' = row
      BY <3>2
    <3>3. CASE row' = [row EXCEPT ![Head1(x).id] = [next |-> row[Head1(x).id].next,
                                      of |-> Head1(x).next, status |-> status]]
      BY <1>1, <3>3 DEF TypeInv
    <3> QED
      BY <1>1, <2>1, <3>1, <3>2, <3>3, PatchEffect
  <2>4. PICK g \in Gateways : HeldBy(t, g)
    BY <1>2, <1>4, <2>2, <2>3
  <2>5. g # x
    <3> SUFFICES ASSUME g = x PROVE FALSE
      OBVIOUS
    <3>1. Head1(x).id = t /\ Head1(x).next = row[t].of
      BY <2>4 DEF HeldBy
    <3>2. Lease(x) /\ row[t] # Absent
      BY <1>1, <2>1, <2>3 DEF Leases, Absent
    <3>3. row[t].next = NextRun(gw[x].now) \/ claimed[t] > row[t].of
      BY <3>1, <3>2 DEF Lease
    <3>4. Present(t)
      <4>1. CASE row[t].next > NextRun(gw[x].now) /\ claimed[t] > row[t].of
        <5>1. gw[x].now \in 0 .. MaxTime
          BY <1>1, <2>1, HeadFits
        <5>2. NextRun(gw[x].now) \in Times
          BY <5>1, NextRunType
        <5> QED
          BY <4>1, <5>2, Constants DEF Present, Times, Never
      <4>2. CASE row[t].next = NextRun(gw[x].now)
        <5>1. gw[x].now \in 0 .. MaxTime
          BY <1>1, <2>1, HeadFits
        <5> QED
          BY <4>2, <5>1, NextRunType, Constants DEF Present
      <4> QED
        BY <3>1, <3>2, <4>1, <4>2 DEF Lease
    <3>5. claimed[t] = row[t].of /\ row[t].of \in Times \cup {Never}
      BY <1>1, <3>4 DEF StatusOfLastRun, TypeInv, RowTypes
    <3>6. row[t].next = NextRun(gw[x].now)
      BY <3>3, <3>5, Constants DEF Times, Never
    <3>7. Patched(t)
      BY <1>1, <1>12, <2>2, <3>1, <3>6, RecordEffect
    <3> QED
      BY <3>7 DEF Patched
  <2> QED
    BY <1>3, <2>1, <2>3, <2>4, <2>5 DEF HeldBy
<1>13. ASSUME NEW x \in Gateways, Start(x) PROVE \E g \in Gateways : HeldBy(t, g)'
  BY <1>1, <1>5, <1>13, RestsFits DEF Start, Leased
<1>14. ASSUME NEW x \in Gateways, Stop(x) PROVE \E g \in Gateways : HeldBy(t, g)'
  BY <1>2, <1>14 DEF Stop
<1> QED
  BY <1>6, <1>7, <1>8, <1>9, <1>10, <1>11, <1>12, <1>13, <1>14 DEF Next, Scheduler

\* As long as nothing fails or stops, a row that says "running" is held by a gateway
\* that runs it (dispatch).
THEOREM RunningRowsRun == Spec => []RunningIsTrue
<1>1. Init => RunningIsTrue
  BY NextRunType, Constants DEF Init, RunningIsTrue, Absent
<1> QED
  BY <1>1, RunInit, RunStep, RunningStep, PTL DEF Spec
=============================================================================

--------------------------- MODULE CronScheduler ---------------------------
(***************************************************************************)
(* Cron triggers: every gateway polls the rows that are due, claims each   *)
(* by a compare-and-swap on next_run_at, invokes the function and records  *)
(* the result by another one.                                              *)
(*                                                                         *)
(* All expressions have the same period; a row of Bad has one that does    *)
(* not parse or has no next match: Add refuses it, so that it is there     *)
(* from the start, left by another version. A run is named by the          *)
(* next_run_at it was claimed with. Clocks of gateways lag behind by up to *)
(* MaxSkew.                                                                *)
(***************************************************************************)
EXTENDS Integers, FiniteSets, Sequences

CONSTANTS Gateways, Rows,
          Bad,         \* rows whose expression gives no next run
          Period,      \* of the expressions
          BatchLimit,  \* rows of one poll (100 in the code)
          MaxSkew,     \* of the gateways' clocks
          MaxTime,     \* bound of the clock
          MaxFailures, \* bound: failed queries
          MaxStops     \* bound: stops and crashes

ASSUME CronSchedulerAssumption ==
    /\ IsFiniteSet(Gateways) /\ IsFiniteSet(Rows) /\ Bad \subseteq Rows
    /\ {Period, BatchLimit} \subseteq Nat \ {0}
    /\ {MaxSkew, MaxTime, MaxFailures, MaxStops} \subseteq Nat

VARIABLES
    clock,
    row,     \* function_cron_triggers
    gw,      \* the loop of each gateway: [at, now, due]
    invoked, \* history: how often a run was invoked
    claimed, \* history: the run claimed last
    failures, stops

vars == <<clock, row, gw, invoked, claimed, failures, stops>>

Far == MaxTime + 2 * Period           \* 365 days
Times == 0 .. Far
Never == -1
Absent == [next |-> Never, status |-> "none", of |-> Never]
Waiting == [at |-> "idle", now |-> 0, due |-> <<>>]

\* CronExpression.Next: strictly after now.
NextRun(now) == (now \div Period + 1) * Period
Added(now) == [next |-> NextRun(now), status |-> "added", of |-> Never]

Init ==
    /\ clock = 0 /\ failures = 0 /\ stops = 0
    /\ row = [t \in Rows |-> IF t \in Bad THEN Added(0) ELSE [Absent EXCEPT !.status = "new"]]
    /\ gw = [g \in Gateways |-> Waiting]
    /\ invoked = [t \in Rows |-> [s \in Times |-> 0]]
    /\ claimed = [t \in Rows |-> Never]

Present(t) == row[t].next # Never
Fails == failures < MaxFailures /\ failures' = failures + 1

PassTime ==
    /\ clock < MaxTime
    /\ clock' = clock + 1
    /\ UNCHANGED <<row, gw, invoked, claimed, failures, stops>>

-----------------------------------------------------------------------------
(* CronTriggerStore. *)

Add(t) ==
    /\ row[t].status = "new"
    /\ row' = [row EXCEPT ![t] = Added(clock)]
    /\ UNCHANGED <<clock, gw, invoked, claimed, failures, stops>>

Remove(t) ==
    /\ Present(t)
    /\ row' = [row EXCEPT ![t] = Absent]
    /\ UNCHANGED <<clock, gw, invoked, claimed, failures, stops>>

IsDue(t, now) == Present(t) /\ row[t].next <= now

\* The earliest rows first, at most BatchLimit of them.
ListDue(now) ==
    LET due == {t \in Rows : IsDue(t, now)}
        sorted == {q \in [1 .. Cardinality(due) -> due] :
                      \A i, j \in DOMAIN q :
                          i < j => q[i] # q[j] /\ row[q[i]].next <= row[q[j]].next}
        listed == 1 .. IF Cardinality(due) < BatchLimit THEN Cardinality(due) ELSE BatchLimit
    IN {[i \in listed |-> [id |-> q[i], next |-> row[q[i]].next]] : q \in sorted}

Swaps(t, expected) == row[t].next = expected

\* Mutant: next_run_at is not compared when the result is recorded.
PatchAlways(t, run, status) ==
    row' = [row EXCEPT ![t].status = status, ![t].of = run.next]

\* MarkRun with the result, by the run that was claimed as run.next.
Patch(t, run, status) ==
    IF Swaps(t, NextRun(run.now))
    THEN row' = [row EXCEPT ![t] = [next |-> row[t].next, status |-> status, of |-> run.next]]
    ELSE UNCHANGED row

-----------------------------------------------------------------------------
(* CronScheduler.tick and dispatch. *)

Head1(g) == Head(gw[g].due)
Sets(g, at) == gw' = [gw EXCEPT ![g].at = at]

\* On with the rows of this tick, or wait for the next.
Proceeds(g) ==
    LET rest == Tail(gw[g].due)
    IN gw' = [gw EXCEPT ![g] = IF rest = <<>> THEN Waiting
                               ELSE [at |-> "claim", now |-> gw[g].now, due |-> rest]]

Tick(g) ==
    /\ gw[g].at = "idle"
    /\ \E skew \in 0 .. MaxSkew :
       LET now == clock - skew IN
       /\ now >= 0
       /\ \/ \E due \in ListDue(now) \ {<<>>} :
                gw' = [gw EXCEPT ![g] = [at |-> "claim", now |-> now, due |-> due]]
                /\ UNCHANGED failures
          \/ Fails /\ UNCHANGED gw
    /\ UNCHANGED <<clock, row, invoked, claimed, stops>>

\* Mutant: a row without a next run is left alone.
PostponeNot(g) ==
    /\ gw[g].at = "claim" /\ Head1(g).id \in Bad
    /\ Proceeds(g)
    /\ UNCHANGED <<clock, row, invoked, claimed, failures, stops>>

\* A row whose expression gives no next run is put off; errors are ignored.
Postpone(g) ==
    /\ gw[g].at = "claim" /\ Head1(g).id \in Bad
    /\ Proceeds(g)
    /\ LET t == Head1(g).id IN
       \/ /\ row' = IF Swaps(t, Head1(g).next)
                    THEN [row EXCEPT ![t] = [next |-> Far, status |-> "error", of |-> Head1(g).next]]
                    ELSE row
          /\ claimed' = IF Swaps(t, Head1(g).next) THEN [claimed EXCEPT ![t] = Head1(g).next]
                        ELSE claimed
          /\ UNCHANGED failures
       \/ Fails /\ UNCHANGED <<row, claimed>>
    /\ UNCHANGED <<clock, invoked, stops>>

\* Mutant: a claim that fails invokes all the same.
ClaimFailsOpen(g) ==
    /\ gw[g].at = "claim" /\ Head1(g).id \notin Bad
    /\ LET t == Head1(g).id
           old == Head1(g).next
           applied == /\ Swaps(t, old)
                      /\ row' = [row EXCEPT ![t] = [next |-> NextRun(gw[g].now),
                                                    status |-> "running", of |-> old]]
                      /\ claimed' = [claimed EXCEPT ![t] = old]
       IN \/ applied /\ Sets(g, "invoke") /\ UNCHANGED failures
          \/ ~Swaps(t, old) /\ Proceeds(g) /\ UNCHANGED <<row, claimed, failures>>
          \/ Fails /\ Sets(g, "invoke") /\ UNCHANGED <<row, claimed>>
    /\ UNCHANGED <<clock, invoked, stops>>

\* The lease is claimed before the function is invoked. An error is no claim,
\* though the UPDATE may have been applied.
Claim(g) ==
    /\ gw[g].at = "claim" /\ Head1(g).id \notin Bad
    /\ LET t == Head1(g).id
           old == Head1(g).next
           applied == /\ Swaps(t, old)
                      /\ row' = [row EXCEPT ![t] = [next |-> NextRun(gw[g].now),
                                                    status |-> "running", of |-> old]]
                      /\ claimed' = [claimed EXCEPT ![t] = old]
       IN \/ applied /\ Sets(g, "invoke") /\ UNCHANGED failures
          \/ ~Swaps(t, old) /\ Proceeds(g) /\ UNCHANGED <<row, claimed, failures>>
          \/ Fails /\ Proceeds(g) /\ (applied \/ UNCHANGED <<row, claimed>>)
    /\ UNCHANGED <<clock, invoked, stops>>

Invoke(g) ==
    /\ gw[g].at = "invoke"
    /\ invoked' = [invoked EXCEPT ![Head1(g).id][Head1(g).next] = @ + 1]
    /\ Sets(g, "record")
    /\ UNCHANGED <<clock, row, claimed, failures, stops>>

Record(g) ==
    /\ gw[g].at = "record"
    /\ Proceeds(g)
    /\ \/ /\ \E status \in {"ok", "error"} :
                Patch(Head1(g).id, [next |-> Head1(g).next, now |-> gw[g].now], status)
          /\ UNCHANGED failures
       \/ Fails /\ UNCHANGED row
    /\ UNCHANGED <<clock, invoked, claimed, stops>>

\* Stop cancels the context of the invocation and of the UPDATE after it; a
\* crash has the same effect.
Stop(g) ==
    /\ gw[g].at # "down" /\ stops < MaxStops
    /\ stops' = stops + 1
    /\ gw' = [gw EXCEPT ![g] = [Waiting EXCEPT !.at = "down"]]
    /\ UNCHANGED <<clock, row, invoked, claimed, failures>>

Start(g) ==
    /\ gw[g].at = "down"
    /\ gw' = [gw EXCEPT ![g] = Waiting]
    /\ UNCHANGED <<clock, row, invoked, claimed, failures, stops>>

Scheduler(g) == Tick(g) \/ Postpone(g) \/ Claim(g) \/ Invoke(g) \/ Record(g) \/ Start(g)

Next ==
    \/ PassTime
    \/ \E t \in Rows : Add(t) \/ Remove(t)
    \/ \E g \in Gateways : Scheduler(g) \/ Stop(g)

Spec == Init /\ [][Next]_vars

\* Gateways poll, their calls return, and a stopped one is started again.
FairSpec == Spec /\ \A g \in Gateways : WF_vars(Scheduler(g))

-----------------------------------------------------------------------------
(* Properties. *)

\* Every variable has its type (CronDueRow, function_cron_triggers).
TypeOK ==
    /\ clock \in 0 .. MaxTime /\ failures \in 0 .. MaxFailures /\ stops \in 0 .. MaxStops
    /\ row \in [Rows -> [next : Times \cup {Never}, of : Times \cup {Never},
                         status : {"none", "new", "added", "running", "ok", "error"}]]
    /\ \A g \in Gateways : /\ gw[g].at \in {"idle", "claim", "invoke", "record", "down"}
                           /\ Len(gw[g].due) <= BatchLimit
                           /\ gw[g].at \in {"claim", "invoke", "record"} <=> gw[g].due # <<>>

\* "Only one gateway wins the race": a run is invoked at most once, whichever
\* gateways see the row as due, however far their clocks differ and whatever
\* errors their claims return.
OncePerRun == \A t \in Rows, s \in Times : invoked[t][s] <= 1

\* "A stale loser from another node can't overwrite": the status a row shows is
\* that of the run claimed last, also when a later run was claimed while an
\* earlier one executes.
StatusOfLastRun == \A t \in Rows : Present(t) => row[t].of = claimed[t]

\* A row that says "running" is being run by a gateway, unless one was stopped
\* or a query failed.
RunningIsTrue ==
    \A t \in Rows :
        row[t].status = "running" /\ failures + stops = 0 =>
            \E g \in Gateways : /\ gw[g].at \in {"invoke", "record"}
                                /\ Head1(g) = [id |-> t, next |-> row[t].of]

\* next_run_at never moves back (MarkRun), or runs would be repeated.
NextRunAdvances ==
    [][\A t \in Rows : Present(t) /\ row'[t].next # Never => row'[t].next >= row[t].next]_vars

\* A row that is due is taken, or removed: a broken row ahead of it in the
\* batch, a lost claim or a stopped gateway do not hold it up for ever.
DueIsTaken ==
    \A t \in Rows, s \in 1 .. MaxTime :
        row[t].next = s /\ s + MaxSkew <= clock ~> row[t].next # s
=============================================================================

------------------------------ MODULE CostLedger ------------------------------
(***************************************************************************)
(* The spend breaker of _lib/runs.py and the two paths that write the      *)
(* agent_runs ledger: agent_run, which checks today's sums on entry and    *)
(* writes one row on exit, and cognee's calls inside a labeled block,      *)
(* which nothing checks and which write one row each.                      *)
(*                                                                         *)
(* Money is counted in whole units. A budget is one of the sums the check  *)
(* asks for: an agent's own, its group's, or the system-wide one.          *)
(***************************************************************************)
EXTENDS Naturals, FiniteSets

CONSTANTS
    Agents,      \* agent names that go through agent_run (DAILY_CEILINGS)
    Labels,      \* agent names of labeled() blocks with no check before them
    Budgets,     \* agents, groups and the whole system
    BudgetsOf,   \* the budgets an agent's spend counts toward
    Ceiling,     \* each budget's daily ceiling
    Runs,        \* invocations that may be in progress at once, in any process
    MaxCalls,    \* provider calls one invocation makes at most
    MaxCost,     \* what one call costs at most
    MaxLedger,   \* bound: no further labeled block past this much on a budget
    Days,        \* bound on the midnights that pass
    Idle         \* a slot with no invocation

RunCost == MaxCalls * MaxCost
Invocation == [pc : {"entering", "running", "labeled"}, agent : Agents \cup Labels,
               calls : 0 .. MaxCalls, cost : 0 .. RunCost, today : BOOLEAN]

ASSUME LedgerAssumption ==
    /\ BudgetsOf \in [Agents \cup Labels -> SUBSET Budgets]
    /\ Ceiling \in [Budgets -> Nat \ {0}]
    /\ IsFiniteSet(Runs)
    /\ MaxCalls \in Nat /\ MaxCost \in Nat /\ Days \in Nat
    /\ Idle \notin Invocation

VARIABLES
    spent,   \* per budget: SUM(usd_cost) of the rows started since local midnight
    owned,   \* the part of it that agent_run's own rows account for
    run,     \* the invocations in progress
    day      \* midnights so far

vars == <<spent, owned, run, day>>

At(i, pc) == run[i] # Idle /\ run[i].pc = pc
Leave(i) == run' = [run EXCEPT ![i] = Idle]
\* The runs in flight that will charge budget b.
InFlight(b) == {i \in Runs : At(i, "running") /\ b \in BudgetsOf[run[i].agent]}

\* The sums after a row of agent a for the amount c, started today.
Added(sums, a, c) ==
    [b \in Budgets |-> IF b \in BudgetsOf[a] THEN sums[b] + c ELSE sums[b]]

\* Mutant of assert_under_ceiling: only the agent's first sum is compared.
MutantAnyCeiling(a) == \E b \in BudgetsOf[a] : spent[b] < Ceiling[b]

\* Every budget of the agent still has something left.
assert_under_ceiling(a) == \A b \in BudgetsOf[a] : spent[b] < Ceiling[b]

-----------------------------------------------------------------------------
Init ==
    /\ spent = [b \in Budgets |-> 0]
    /\ owned = [b \in Budgets |-> 0]
    /\ run = [i \in Runs |-> Idle]
    /\ day = 0

\* agent_run stamps started_at and then asks the database.
agent_run(i, a) ==
    /\ run[i] = Idle
    /\ run' = [run EXCEPT ![i] = [pc |-> "entering", agent |-> a, calls |-> 0,
                                  cost |-> 0, today |-> TRUE]]
    /\ UNCHANGED <<spent, owned, day>>

Admit(i) ==
    /\ At(i, "entering") /\ assert_under_ceiling(run[i].agent)
    /\ run' = [run EXCEPT ![i].pc = "running"]
    /\ UNCHANGED <<spent, owned, day>>

\* DailyCeilingExceeded: no row is written.
Refuse(i) ==
    /\ At(i, "entering") /\ ~assert_under_ceiling(run[i].agent)
    /\ Leave(i)
    /\ UNCHANGED <<spent, owned, day>>

\* A call_* method: the price is known, the provider answers, the cost adds up
\* in memory.
anthropic_call(i, c) ==
    /\ At(i, "running") /\ run[i].calls < MaxCalls
    /\ run' = [run EXCEPT ![i].calls = @ + 1, ![i].cost = @ + c]
    /\ UNCHANGED <<spent, owned, day>>

\* The block ends, by itself or by an exception (an unknown model, a provider
\* error): one row, dated when the run started.
WriteRow(i) ==
    LET r == run[i] IN
    /\ At(i, "running")
    /\ spent' = IF r.today THEN Added(spent, r.agent, r.cost) ELSE spent
    /\ owned' = IF r.today THEN Added(owned, r.agent, r.cost) ELSE owned
    /\ Leave(i)
    /\ UNCHANGED day

\* The INSERT fails and is only printed, or the process dies: what the run paid
\* is on no row.
RowLost(i) ==
    /\ run[i] # Idle
    /\ Leave(i)
    /\ UNCHANGED <<spent, owned, day>>

-----------------------------------------------------------------------------
(* cognee: ingest, retrieval and the graph inserts *)

labeled(i, a) ==
    /\ run[i] = Idle
    /\ \A b \in BudgetsOf[a] : spent[b] <= MaxLedger
    /\ run' = [run EXCEPT ![i] = [pc |-> "labeled", agent |-> a, calls |-> 0,
                                  cost |-> 0, today |-> TRUE]]
    /\ UNCHANGED <<spent, owned, day>>

\* _record_call: each call is a row of its own, dated when the call started.
_record_call(i, c) ==
    /\ At(i, "labeled") /\ run[i].calls < MaxCalls
    /\ run' = [run EXCEPT ![i].calls = @ + 1]
    /\ spent' = Added(spent, run[i].agent, c)
    /\ UNCHANGED <<owned, day>>

EndBlock(i) ==
    /\ At(i, "labeled")
    /\ Leave(i)
    /\ UNCHANGED <<spent, owned, day>>

-----------------------------------------------------------------------------
\* Local midnight: the sums start again, and a run begun before it will be
\* charged to the day it began on.
Midnight ==
    /\ day < Days
    /\ day' = day + 1
    /\ spent' = [b \in Budgets |-> 0]
    /\ owned' = [b \in Budgets |-> 0]
    /\ run' = [i \in Runs |-> IF run[i] = Idle THEN Idle ELSE [run[i] EXCEPT !.today = FALSE]]

OwnAgent(i) ==
    \/ \E a \in Agents : agent_run(i, a)
    \/ Admit(i) \/ Refuse(i) \/ WriteRow(i) \/ RowLost(i)
    \/ \E c \in 0 .. MaxCost : anthropic_call(i, c)

Cognee(i) ==
    \/ \E a \in Labels : labeled(i, a)
    \/ \E c \in 0 .. MaxCost : _record_call(i, c)
    \/ EndBlock(i)

Next == Midnight \/ \E i \in Runs : OwnAgent(i) \/ Cognee(i)

Spec == Init /\ [][Next]_vars

-----------------------------------------------------------------------------
(* Properties *)

\* Every variable keeps its type, and a run's cost is that of its calls.
TypeOK ==
    /\ spent \in [Budgets -> Nat]
    /\ owned \in [Budgets -> Nat]
    /\ run \in [Runs -> Invocation \cup {Idle}]
    /\ \A i \in Runs : run[i] # Idle => run[i].cost <= run[i].calls * MaxCost
    /\ day \in 0 .. Days

\* The check reads only finished rows, so the runs in flight can carry a budget
\* past its ceiling, but by no more than what that many whole runs cost. (The
\* comment says roughly one call's cost.)
OvershootBounded ==
    \A b \in Budgets : owned[b] < Ceiling[b] + Cardinality(Runs) * RunCost

\* Why: each run in flight was let in while the budget was under its ceiling.
RoomForFlights ==
    \A b \in Budgets :
        /\ owned[b] <= spent[b]
        /\ owned[b] + Cardinality(InFlight(b)) * RunCost
              < Ceiling[b] + Cardinality(Runs) * RunCost
=============================================================================

-------------------------- MODULE SpendAndPollProofs --------------------------
(***************************************************************************)
(* Proofs about two components that share nothing but this module.         *)
(*                                                                         *)
(* CostLedger: its type invariant, and how far the own agents' recorded    *)
(* spend can pass a ceiling, for every number of agents, budgets,          *)
(* concurrent runs and calls.                                              *)
(*                                                                         *)
(* ContentPoll: its type invariant, how often the operator is asked about  *)
(* one item, and that a recorded score is followed up by the deep pass and *)
(* the proposal it calls for, for every number of items, sources, topics   *)
(* and overlapping cycles.                                                 *)
(***************************************************************************)
EXTENDS CostLedger, ContentPoll, FiniteSetTheorems, WellFoundedInduction, TLAPS

-----------------------------------------------------------------------------
(* The cost ledger: arithmetic and bookkeeping *)

\* Multiplication by a natural number is monotone and distributes over one step.
LEMMA TimesFacts ==
    ASSUME NEW k \in Nat, NEW n \in Nat, NEW c \in Nat
    PROVE  /\ k * c \in Nat
           /\ (k + 1) * c = k * c + c
           /\ k <= n => k * c <= n * c
<1>1. k * c \in Nat /\ (k + 1) * c = k * c + c
    BY SMT
<1>2. ASSUME k <= n PROVE k * c <= n * c
    <2>1. PICK d \in Nat : n = k + d
        <3>1. n - k \in Nat /\ n = k + (n - k)
            BY <1>2, SMT
        <3> QED BY <3>1
    <2>2. n * c = k * c + d * c
        BY <2>1, SMT
    <2>3. d * c \in Nat
        BY SMT
    <2> QED BY <2>2, <2>3, <1>1, SMT
<1> QED BY <1>1, <1>2

\* What one whole run can cost is a natural number.
LEMMA RunCostIsNat == RunCost \in Nat
BY LedgerAssumption, TimesFacts DEF RunCost

\* Recording a row keeps the sums a function of naturals, and adds the amount to
\* exactly the agent's budgets.
LEMMA AddedFacts ==
    ASSUME NEW sums \in [Budgets -> Nat], NEW a \in Agents \cup Labels, NEW c \in Nat
    PROVE  /\ Added(sums, a, c) \in [Budgets -> Nat]
           /\ \A b \in Budgets :
                 Added(sums, a, c)[b] = IF b \in BudgetsOf[a] THEN sums[b] + c ELSE sums[b]
BY DEF Added

\* A field of an invocation in progress has the field's type.
LEMMA InvocationFacts ==
    ASSUME TypeOK, NEW i \in Runs, run[i] # Idle
    PROVE  /\ run[i] \in Invocation
           /\ run[i].agent \in Agents \cup Labels
           /\ run[i].cost \in 0 .. RunCost
           /\ run[i].calls \in 0 .. MaxCalls
BY DEF TypeOK, Invocation

-----------------------------------------------------------------------------
(* Type correctness *)

\* The ledger starts well typed.
LEMMA TypeOKInit == Init => TypeOK
BY LedgerAssumption DEF Init, TypeOK

\* Freeing a slot keeps run well typed.
LEMMA LeaveType ==
    ASSUME TypeOK, NEW i \in Runs, Leave(i)
    PROVE  /\ run' \in [Runs -> Invocation \cup {Idle}]
           /\ \A j \in Runs : run'[j] # Idle => run'[j].cost <= run'[j].calls * MaxCost
BY DEF TypeOK, Leave

\* So does opening one with nothing spent yet.
LEMMA EnterType ==
    ASSUME TypeOK, NEW i \in Runs, NEW a \in Agents \cup Labels,
           NEW pc \in {"entering", "labeled"},
           run' = [run EXCEPT ![i] = [pc |-> pc, agent |-> a, calls |-> 0,
                                      cost |-> 0, today |-> TRUE]]
    PROVE  /\ run' \in [Runs -> Invocation \cup {Idle}]
           /\ \A j \in Runs : run'[j] # Idle => run'[j].cost <= run'[j].calls * MaxCost
<1> DEFINE new == [pc |-> pc, agent |-> a, calls |-> 0, cost |-> 0, today |-> TRUE]
<1>1. 0 \in 0 .. MaxCalls /\ 0 \in 0 .. RunCost /\ 0 <= 0 * MaxCost
    BY LedgerAssumption, RunCostIsNat
<1>2. new \in Invocation
    BY <1>1 DEF Invocation
<1>3. run'[i] = new /\ \A j \in Runs \ {i} : run'[j] = run[j]
    BY DEF TypeOK
<1> QED BY <1>1, <1>2, <1>3 DEF TypeOK

\* Every step of a run, of cognee and of the clock keeps the types.
LEMMA TypeOKStep == TypeOK /\ [Next]_vars => TypeOK'
<1> SUFFICES ASSUME TypeOK, [Next]_vars PROVE TypeOK'
    OBVIOUS
<1> USE LedgerAssumption
<1>1. ASSUME Midnight PROVE TypeOK'
    <2>1. \A i \in Runs : run[i] # Idle =>
              /\ [run[i] EXCEPT !.today = FALSE] \in Invocation
              /\ [run[i] EXCEPT !.today = FALSE].cost = run[i].cost
              /\ [run[i] EXCEPT !.today = FALSE].calls = run[i].calls
        BY InvocationFacts DEF Invocation
    <2>2. /\ run' \in [Runs -> Invocation \cup {Idle}]
          /\ \A i \in Runs : run'[i] # Idle => run'[i].cost <= run'[i].calls * MaxCost
        BY <1>1, <2>1 DEF Midnight, TypeOK
    <2> QED BY <1>1, <2>2 DEF Midnight, TypeOK
<1>2. ASSUME NEW i \in Runs, OwnAgent(i) PROVE TypeOK'
    <2>1. ASSUME NEW a \in Agents, agent_run(i, a) PROVE TypeOK'
        BY <2>1, EnterType DEF agent_run, TypeOK
    <2>2. CASE Admit(i)
        <3>1. /\ run[i] # Idle /\ run[i] \in Invocation
              /\ run' = [run EXCEPT ![i].pc = "running"]
            BY <2>2, InvocationFacts DEF Admit, At
        <3>2. /\ run'[i] \in Invocation /\ run'[i].cost = run[i].cost
              /\ run'[i].calls = run[i].calls
              /\ \A j \in Runs \ {i} : run'[j] = run[j]
            BY <3>1 DEF TypeOK, Invocation
        <3>3. run' \in [Runs -> Invocation \cup {Idle}]
            BY <3>1, <3>2 DEF TypeOK
        <3> QED BY <2>2, <3>1, <3>2, <3>3 DEF Admit, TypeOK
    <2>3. CASE Refuse(i)
        BY <2>3, LeaveType DEF Refuse, TypeOK
    <2>4. CASE WriteRow(i)
        <3>1. run[i].agent \in Agents \cup Labels /\ run[i].cost \in Nat
            BY <2>4, InvocationFacts, RunCostIsNat DEF WriteRow, At
        <3>2. /\ Added(spent, run[i].agent, run[i].cost) \in [Budgets -> Nat]
              /\ Added(owned, run[i].agent, run[i].cost) \in [Budgets -> Nat]
            BY <3>1, AddedFacts DEF TypeOK
        <3> QED BY <2>4, <3>2, LeaveType DEF WriteRow, TypeOK
    <2>5. CASE RowLost(i)
        BY <2>5, LeaveType DEF RowLost, TypeOK
    <2>6. ASSUME NEW c \in 0 .. MaxCost, anthropic_call(i, c) PROVE TypeOK'
        <3>1. /\ run[i] \in Invocation /\ run[i] # Idle /\ run[i].calls < MaxCalls
              /\ run[i].calls \in Nat /\ run[i].cost \in Nat
              /\ run' = [run EXCEPT ![i].calls = @ + 1, ![i].cost = @ + c]
            BY <2>6, InvocationFacts DEF anthropic_call, At, Invocation
        <3>2. run[i].cost <= run[i].calls * MaxCost
            BY <3>1 DEF TypeOK
        <3>3. run[i].calls + 1 \in 0 .. MaxCalls
            BY <3>1
        <3>4. run[i].cost + c <= (run[i].calls + 1) * MaxCost
            BY <3>1, <3>2, TimesFacts
        <3>5. run[i].cost + c \in 0 .. RunCost
            BY <3>1, <3>3, <3>4, TimesFacts, RunCostIsNat DEF RunCost
        <3>6. /\ run'[i] = [run[i] EXCEPT !.calls = @ + 1, !.cost = @ + c]
              /\ \A j \in Runs \ {i} : run'[j] = run[j]
            BY <3>1 DEF TypeOK
        <3>7. /\ run'[i] \in Invocation /\ run'[i].cost = run[i].cost + c
              /\ run'[i].calls = run[i].calls + 1
            <4> DEFINE r == run[i]
                       called == [r EXCEPT !.calls = @ + 1]
            <4>1. /\ called \in Invocation /\ called.calls = r.calls + 1
                  /\ called.cost = r.cost
                BY <3>1, <3>3 DEF Invocation
            <4>2. [r EXCEPT !.calls = @ + 1, !.cost = @ + c] = [called EXCEPT !.cost = r.cost + c]
                OBVIOUS
            <4> HIDE DEF called
            <4>3. /\ [called EXCEPT !.cost = r.cost + c] \in Invocation
                  /\ [called EXCEPT !.cost = r.cost + c].cost = r.cost + c
                  /\ [called EXCEPT !.cost = r.cost + c].calls = called.calls
                BY <3>5, <4>1 DEF Invocation
            <4> QED BY <3>6, <4>1, <4>2, <4>3
        <3>8. run' \in [Runs -> Invocation \cup {Idle}]
            BY <3>1, <3>6, <3>7 DEF TypeOK
        <3> QED BY <2>6, <3>4, <3>6, <3>7, <3>8 DEF anthropic_call, TypeOK
    <2> QED BY <1>2, <2>1, <2>2, <2>3, <2>4, <2>5, <2>6 DEF OwnAgent
<1>3. ASSUME NEW i \in Runs, Cognee(i) PROVE TypeOK'
    <2>1. ASSUME NEW a \in Labels, labeled(i, a) PROVE TypeOK'
        BY <2>1, EnterType DEF labeled, TypeOK
    <2>2. ASSUME NEW c \in 0 .. MaxCost, _record_call(i, c) PROVE TypeOK'
        <3>1. /\ run[i] \in Invocation /\ run[i] # Idle /\ run[i].calls < MaxCalls
              /\ run[i].calls \in Nat /\ run[i].cost \in Nat
              /\ run' = [run EXCEPT ![i].calls = @ + 1]
            BY <2>2, InvocationFacts, RunCostIsNat DEF _record_call, At, Invocation
        <3>2. run[i].calls + 1 \in 0 .. MaxCalls
            BY <3>1
        <3>3. run[i].cost <= (run[i].calls + 1) * MaxCost
            BY <3>1, TimesFacts DEF TypeOK
        <3>4. /\ run'[i] = [run[i] EXCEPT !.calls = @ + 1]
              /\ \A j \in Runs \ {i} : run'[j] = run[j]
            BY <3>1 DEF TypeOK
        <3>5. /\ run'[i] \in Invocation /\ run'[i].cost = run[i].cost
              /\ run'[i].calls = run[i].calls + 1
            BY <3>1, <3>2, <3>4 DEF Invocation
        <3>6. run' \in [Runs -> Invocation \cup {Idle}]
            BY <3>1, <3>4, <3>5 DEF TypeOK
        <3>7. spent' \in [Budgets -> Nat]
            <4>1. run[i].agent \in Agents \cup Labels /\ c \in Nat
                BY <2>2, <3>1 DEF Invocation
            <4>2. spent' = Added(spent, run[i].agent, c)
                BY <2>2 DEF _record_call
            <4> QED BY <4>1, <4>2, AddedFacts DEF TypeOK
        <3> QED BY <2>2, <3>3, <3>4, <3>5, <3>6, <3>7 DEF _record_call, TypeOK
    <2>3. CASE EndBlock(i)
        BY <2>3, LeaveType DEF EndBlock, TypeOK
    <2> QED BY <1>3, <2>1, <2>2, <2>3 DEF Cognee
<1>4. CASE UNCHANGED vars
    BY <1>4 DEF vars, TypeOK
<1> QED BY <1>1, <1>2, <1>3, <1>4 DEF Next

\* The ledger, its counters and every invocation keep their types, and no run has
\* cost more than the calls it made.
THEOREM LedgerTyped == Spec => []TypeOK
BY TypeOKInit, TypeOKStep, PTL DEF Spec

-----------------------------------------------------------------------------
(* How far a budget is passed *)

\* What RoomForFlights says of one budget.
HasRoom(b) ==
    /\ owned[b] <= spent[b]
    /\ owned[b] + Cardinality(InFlight(b)) * RunCost
          < Ceiling[b] + Cardinality(Runs) * RunCost

\* The runs in flight on a budget are finitely many, at most one per slot; fewer
\* of them never cost more.
LEMMA FlightFacts ==
    ASSUME NEW b \in Budgets
    PROVE  /\ IsFiniteSet(InFlight(b)) /\ IsFiniteSet(InFlight(b)')
           /\ Cardinality(Runs) \in Nat
           /\ Cardinality(InFlight(b)) \in Nat /\ Cardinality(InFlight(b)') \in Nat
           /\ Cardinality(InFlight(b)') * RunCost <= Cardinality(Runs) * RunCost
           /\ Cardinality(InFlight(b)) * RunCost \in Nat
           /\ Cardinality(InFlight(b)') * RunCost \in Nat
           /\ Cardinality(Runs) * RunCost \in Nat
<1>1. InFlight(b) \subseteq Runs /\ InFlight(b)' \subseteq Runs
    BY DEF InFlight
<1>2. /\ IsFiniteSet(InFlight(b)) /\ IsFiniteSet(InFlight(b)')
      /\ Cardinality(InFlight(b)') <= Cardinality(Runs)
    BY <1>1, FS_Subset, LedgerAssumption
<1>3. /\ Cardinality(Runs) \in Nat /\ Cardinality(InFlight(b)) \in Nat
      /\ Cardinality(InFlight(b)') \in Nat
    BY <1>2, FS_CardinalityType, LedgerAssumption
<1> QED BY <1>2, <1>3, RunCostIsNat, TimesFacts

\* A budget keeps its room when nothing was charged and no run was let in.
LEMMA RoomKept ==
    ASSUME TypeOK, TypeOK', NEW b \in Budgets, HasRoom(b),
           owned'[b] = owned[b], spent'[b] >= spent[b], InFlight(b)' \subseteq InFlight(b)
    PROVE  HasRoom(b)'
<1>1. Cardinality(InFlight(b)') <= Cardinality(InFlight(b))
    BY FlightFacts, FS_Subset
<1>2. Cardinality(InFlight(b)') * RunCost <= Cardinality(InFlight(b)) * RunCost
    BY <1>1, FlightFacts, RunCostIsNat, TimesFacts
<1>3. /\ owned[b] \in Nat /\ spent[b] \in Nat /\ spent'[b] \in Nat /\ Ceiling[b] \in Nat
    BY LedgerAssumption DEF TypeOK
<1>4. owned'[b] <= spent'[b]
    BY <1>3 DEF HasRoom
<1>5. owned'[b] + Cardinality(InFlight(b)') * RunCost
          < Ceiling[b] + Cardinality(Runs) * RunCost
    BY <1>2, <1>3, FlightFacts DEF HasRoom
<1> QED BY <1>4, <1>5 DEF HasRoom

\* A slot that is freed, or opened without being admitted, adds no flight.
LEMMA NoNewFlight ==
    ASSUME TypeOK, NEW i \in Runs, NEW b \in Budgets,
           \A j \in Runs \ {i} : run'[j] = run[j],
           run'[i] = Idle \/ run'[i].pc # "running"
                           \/ (At(i, "running") /\ run'[i].agent = run[i].agent)
    PROVE  InFlight(b)' \subseteq InFlight(b)
BY DEF InFlight, At

\* At the start of the day nothing is spent and nothing is in flight.
LEMMA RoomInit == Init => RoomForFlights
<1> SUFFICES ASSUME Init, NEW b \in Budgets PROVE HasRoom(b)
    BY DEF RoomForFlights, HasRoom
<1>1. InFlight(b) = {}
    BY DEF Init, InFlight, At
<1>2. Cardinality(InFlight(b)) * RunCost = 0
    BY <1>1, FS_EmptySet, RunCostIsNat
<1>3. owned[b] = 0 /\ spent[b] = 0
    BY DEF Init
<1> QED BY <1>2, <1>3, FlightFacts, LedgerAssumption DEF HasRoom

\* Every step keeps room for what the runs in flight may still add.
LEMMA RoomStep == TypeOK /\ TypeOK' /\ RoomForFlights /\ [Next]_vars => RoomForFlights'
<1> SUFFICES ASSUME TypeOK, TypeOK', [Next]_vars, NEW b \in Budgets, HasRoom(b)
             PROVE  HasRoom(b)'
    BY DEF RoomForFlights, HasRoom
<1>0. /\ owned[b] \in Nat /\ spent[b] \in Nat /\ Ceiling[b] \in Nat \ {0}
      /\ owned'[b] \in Nat /\ spent'[b] \in Nat
    BY LedgerAssumption DEF TypeOK
<1>1. CASE Midnight
    <2>1. owned'[b] = 0 /\ spent'[b] = 0
        BY <1>1 DEF Midnight
    <2> QED BY <2>1, <1>0, FlightFacts DEF HasRoom
<1>2. ASSUME NEW i \in Runs, OwnAgent(i) PROVE HasRoom(b)'
    <2>1. ASSUME NEW a \in Agents, agent_run(i, a) PROVE HasRoom(b)'
        <3>1. run'[i].pc = "entering" /\ \A j \in Runs \ {i} : run'[j] = run[j]
            BY <2>1 DEF agent_run, TypeOK
        <3> QED BY <2>1, <3>1, <1>0, NoNewFlight, RoomKept DEF agent_run
    <2>2. CASE Admit(i)
        <3>1. /\ run'[i].agent = run[i].agent /\ run[i] # Idle
              /\ \A j \in Runs \ {i} : run'[j] = run[j]
              /\ owned' = owned /\ spent' = spent
            BY <2>2 DEF Admit, At, TypeOK
        <3>2. CASE b \in BudgetsOf[run[i].agent]
            <4>1. spent[b] < Ceiling[b]
                BY <2>2, <3>2 DEF Admit, assert_under_ceiling
            <4> QED BY <3>1, <4>1, <1>0, FlightFacts DEF HasRoom
        <3>3. CASE b \notin BudgetsOf[run[i].agent]
            <4>1. InFlight(b)' \subseteq InFlight(b)
                BY <3>1, <3>3 DEF InFlight, At
            <4> QED BY <3>1, <4>1, <1>0, RoomKept
        <3> QED BY <3>2, <3>3
    <2>3. CASE Refuse(i)
        <3>1. run'[i] = Idle /\ \A j \in Runs \ {i} : run'[j] = run[j]
            BY <2>3 DEF Refuse, Leave, TypeOK
        <3> QED BY <2>3, <3>1, <1>0, NoNewFlight, RoomKept DEF Refuse
    <2>4. CASE WriteRow(i)
        <3>1. /\ run'[i] = Idle /\ \A j \in Runs \ {i} : run'[j] = run[j]
              /\ At(i, "running") /\ run[i] # Idle
            BY <2>4 DEF WriteRow, Leave, At, TypeOK
        <3>2. /\ run[i].agent \in Agents \cup Labels /\ run[i].cost \in Nat
              /\ run[i].cost <= RunCost
            BY <3>1, InvocationFacts, RunCostIsNat
        <3>3. CASE run[i].today /\ b \in BudgetsOf[run[i].agent]
            <4>1. owned'[b] = owned[b] + run[i].cost /\ spent'[b] = spent[b] + run[i].cost
                BY <2>4, <3>3 DEF WriteRow, Added
            <4>2. i \in InFlight(b) /\ InFlight(b)' = InFlight(b) \ {i}
                BY <3>1, <3>3 DEF InFlight, At
            <4> DEFINE n == Cardinality(InFlight(b)')
            <4>3. Cardinality(InFlight(b)) = n + 1 /\ n \in Nat
                <5>1. Cardinality(InFlight(b) \ {i}) = Cardinality(InFlight(b)) - 1
                    BY <4>2, FS_RemoveElement, FlightFacts
                <5> QED BY <5>1, <4>2, FlightFacts
            <4>4. Cardinality(InFlight(b)) * RunCost = n * RunCost + RunCost
                BY <4>3, TimesFacts, RunCostIsNat
            <4>5. owned'[b] + n * RunCost <= owned[b] + Cardinality(InFlight(b)) * RunCost
                BY <4>1, <4>4, <3>2, <1>0, FlightFacts, RunCostIsNat
            <4>6. owned'[b] + n * RunCost < Ceiling[b] + Cardinality(Runs) * RunCost
                BY <4>5, <1>0, FlightFacts DEF HasRoom
            <4>7. owned'[b] <= spent'[b]
                BY <4>1, <3>2, <1>0 DEF HasRoom
            <4> QED BY <4>6, <4>7 DEF HasRoom
        <3>4. CASE ~(run[i].today /\ b \in BudgetsOf[run[i].agent])
            <4>1. owned'[b] = owned[b] /\ spent'[b] = spent[b]
                BY <2>4, <3>4 DEF WriteRow, Added
            <4> QED BY <3>1, <4>1, <1>0, NoNewFlight, RoomKept
        <3> QED BY <3>3, <3>4
    <2>5. CASE RowLost(i)
        <3>1. run'[i] = Idle /\ \A j \in Runs \ {i} : run'[j] = run[j]
            BY <2>5 DEF RowLost, Leave, TypeOK
        <3> QED BY <2>5, <3>1, <1>0, NoNewFlight, RoomKept DEF RowLost
    <2>6. ASSUME NEW c \in 0 .. MaxCost, anthropic_call(i, c) PROVE HasRoom(b)'
        <3>1. /\ run' = [run EXCEPT ![i].calls = @ + 1, ![i].cost = @ + c]
              /\ At(i, "running") /\ run[i] \in Invocation
            BY <2>6, InvocationFacts DEF anthropic_call, At
        <3>2. /\ run'[i].agent = run[i].agent
              /\ \A j \in Runs \ {i} : run'[j] = run[j]
            BY <3>1 DEF Invocation, TypeOK
        <3>3. InFlight(b)' \subseteq InFlight(b)
            BY <3>1, <3>2, NoNewFlight
        <3>4. owned'[b] = owned[b] /\ spent'[b] = spent[b]
            BY <2>6 DEF anthropic_call
        <3> QED BY <3>3, <3>4, <1>0, RoomKept
    <2> QED BY <1>2, <2>1, <2>2, <2>3, <2>4, <2>5, <2>6 DEF OwnAgent
<1>3. ASSUME NEW i \in Runs, Cognee(i) PROVE HasRoom(b)'
    <2>1. ASSUME NEW a \in Labels, labeled(i, a) PROVE HasRoom(b)'
        <3>1. run'[i].pc = "labeled" /\ \A j \in Runs \ {i} : run'[j] = run[j]
            BY <2>1 DEF labeled, TypeOK
        <3> QED BY <2>1, <3>1, <1>0, NoNewFlight, RoomKept DEF labeled
    <2>2. ASSUME NEW c \in 0 .. MaxCost, _record_call(i, c) PROVE HasRoom(b)'
        <3>1. /\ run'[i].pc = "labeled" /\ \A j \in Runs \ {i} : run'[j] = run[j]
              /\ owned' = owned /\ c \in Nat
              /\ spent' = Added(spent, run[i].agent, c)
            BY <2>2, LedgerAssumption DEF _record_call, At, TypeOK
        <3>2. spent'[b] >= spent[b]
            BY <3>1, <1>0 DEF Added
        <3> QED BY <3>1, <3>2, NoNewFlight, RoomKept
    <2>3. CASE EndBlock(i)
        <3>1. run'[i] = Idle /\ \A j \in Runs \ {i} : run'[j] = run[j]
            BY <2>3 DEF EndBlock, Leave, TypeOK
        <3> QED BY <2>3, <3>1, <1>0, NoNewFlight, RoomKept DEF EndBlock
    <2> QED BY <1>3, <2>1, <2>2, <2>3 DEF Cognee
<1>4. CASE UNCHANGED vars
    <2>1. InFlight(b)' \subseteq InFlight(b) /\ owned' = owned /\ spent' = spent
        BY <1>4 DEF vars, InFlight, At
    <2> QED BY <2>1, <1>0, RoomKept
<1> QED BY <1>1, <1>2, <1>3, <1>4 DEF Next

\* At every moment a budget has room, past its ceiling, for no more than the runs
\* already let in: whatever the own agents record stays below the ceiling plus
\* what one whole run in every slot costs.
THEOREM LedgerHasRoom == Spec => []RoomForFlights
<1>1. Init => TypeOK /\ RoomForFlights
    BY TypeOKInit, RoomInit
<1>2. TypeOK /\ RoomForFlights /\ [Next]_vars => (TypeOK /\ RoomForFlights)'
    BY TypeOKStep, RoomStep
<1> QED BY <1>1, <1>2, PTL DEF Spec

\* Own agents never record a budget as far past its ceiling as one whole run per
\* slot, however the checks, the calls, the rows and the midnights interleave.
THEOREM LedgerOvershootBounded == Spec => []OvershootBounded
<1>1. ASSUME TypeOK, RoomForFlights PROVE OvershootBounded
    <2> SUFFICES ASSUME NEW b \in Budgets
                 PROVE  owned[b] < Ceiling[b] + Cardinality(Runs) * RunCost
        BY DEF OvershootBounded
    <2>1. /\ owned[b] \in Nat /\ Ceiling[b] \in Nat
          /\ owned[b] + Cardinality(InFlight(b)) * RunCost
                < Ceiling[b] + Cardinality(Runs) * RunCost
        BY <1>1, LedgerAssumption DEF TypeOK, RoomForFlights
    <2> QED BY <2>1, FlightFacts
<1> QED BY <1>1, LedgerTyped, LedgerHasRoom, PTL

-----------------------------------------------------------------------------
(* The content poller: what its proofs are about *)

InPass == {"summarize", "record", "deep", "propose"}

\* What a cycle holds: the item of its pass, from its batch; the node, the tracker
\* row and the deep pass as far as it got; a source left to do.
Carries(c) ==
    LET y == cycle[c]
    IN  /\ y.step \in InPass <=> y.item # None
        /\ y.item # None => y.item \in y.batch
        /\ y.step # "idle" <=> y.todo # {}
        /\ y.step \in {"record", "deep", "propose"} => y.item \in nodes
        /\ y.step \in {"deep", "propose"} => interest_score[y.item] # None
        /\ y.step = "propose" => y.item \in deep

CyclesCarry == \A c \in Cycles : Carries(c)

PollTyped == PollTypeOK /\ CyclesCarry

\* The cycles that have item i left to do.
Holders(i) == {c \in Cycles : i \in cycle[c].batch}

\* Nothing is proposed of an item before it is tracked; from then on no cycle takes
\* it any more, and each that holds it proposes it at most once.
Asked(i) ==
    IF interest_score[i] = None THEN candidates[i] = 0
    ELSE candidates[i] + Cardinality(Holders(i)) <= Cardinality(Cycles)

AskedOnce == \A i \in Items : Asked(i)

\* Cycle c is on its way to do what the score recorded for i calls for.
FollowsUp(c, i) ==
    /\ cycle[c].item = i /\ cycle[c].step \in {"deep", "propose"}
    /\ cycle[c].score = interest_score[i]

FollowedUp(i) ==
    interest_score[i] \in 1..2 /\ i \notin cut =>
        \/ i \in deep /\ (interest_score[i] = 2 => candidates[i] > 0)
        \/ \E c \in Cycles : FollowsUp(c, i)

PassesEnd == \A i \in Items : FollowedUp(i)

-----------------------------------------------------------------------------
(* The data of a cycle *)

Poll == [step : Steps, todo : SUBSET Sources, batch : SUBSET Items,
         src : Sources \cup {None}, item : Items \cup {None}, score : 0..2]

\* A set of numbers up to n that is not empty has a greatest one.
LEMMA HasMaximum ==
    ASSUME NEW n \in Nat, NEW S \in SUBSET (1..n), S # {}
    PROVE  \E i \in S : \A j \in S : j <= i
<1> DEFINE T == {n - i : i \in S}
           R == {ss \in Nat \X Nat : ss[1] < ss[2]}
<1>1. IsWellFoundedOn(R, Nat)
    <2>1. IsWellFoundedOn(OpToRel(<,Nat), Nat)
        BY NatLessThanWellFounded
    <2>2. OpToRel(<,Nat) = R
        BY DEF OpToRel
    <2> QED BY <2>1, <2>2
<1>2. T \subseteq Nat /\ T # {}
    <2>1. T \subseteq Nat
        OBVIOUS
    <2>2. PICK i \in S : TRUE
        OBVIOUS
    <2>3. n - i \in T
        OBVIOUS
    <2> QED BY <2>1, <2>3
<1> HIDE DEF R
<1>3. PICK x \in T : \A y \in T : <<y, x>> \notin R
    BY <1>1, <1>2, WFMin
<1>4. \A y \in T : ~(y < x)
    BY <1>2, <1>3 DEF R
<1>5. PICK i \in S : x = n - i
    OBVIOUS
<1>6. ASSUME NEW j \in S PROVE j <= i
    <2>1. n - j \in T
        OBVIOUS
    <2> QED BY <1>4, <1>5, <2>1
<1> QED BY <1>6

\* The item that TakeItem takes is one of the batch.
LEMMA HasNewest ==
    ASSUME NEW S \in SUBSET Items, S # {}
    PROVE  Newest(S) \in S
<1>1. N \in Nat
    BY PollAssumption
<1>2. \E i \in S : \A j \in S : j <= i
    BY <1>1, HasMaximum DEF Items
<1> QED BY <1>2 DEF Newest

\* Every item has a score, which is the best of its relevances or 0.
LEMMA ScoreFacts ==
    ASSUME interests \subseteq Topics, NEW i \in Items
    PROVE  score_content_item(i) \in 0..2
<1> DEFINE best(v) == /\ v = 0 \/ \E t \in interests : Relevance[i][t] = v
                      /\ \A t \in interests : Relevance[i][t] <= v
<1>1. \A t \in interests : Relevance[i][t] \in 0..2
    BY PollAssumption
<1>2. \E v \in 0..2 : best(v)
    <2>1. CASE \E t \in interests : Relevance[i][t] = 2
        BY <1>1, <2>1
    <2>2. CASE /\ ~\E t \in interests : Relevance[i][t] = 2
               /\ \E t \in interests : Relevance[i][t] = 1
        <3>1. \A t \in interests : Relevance[i][t] <= 1
            BY <1>1, <2>2
        <3>2. best(1)
            BY <2>2, <3>1
        <3> QED BY <3>2
    <2>3. CASE \A t \in interests : Relevance[i][t] = 0
        <3>1. best(0)
            BY <2>3
        <3> QED BY <3>1
    <2>4. \/ \E t \in interests : Relevance[i][t] = 2
          \/ /\ ~\E t \in interests : Relevance[i][t] = 2
             /\ \E t \in interests : Relevance[i][t] = 1
          \/ \A t \in interests : Relevance[i][t] = 0
        BY <1>1
    <2> QED BY <2>1, <2>2, <2>3, <2>4
<1> QED BY <1>2 DEF score_content_item

\* The type invariant's cycles are records of Poll.
LEMMA PollType == PollTypeOK => cycle \in [Cycles -> Poll]
BY DEF PollTypeOK, Poll

\* An idle cycle is a record of Poll.
LEMMA NotPollingTyped == NotPolling \in Poll
BY DEF NotPolling, Poll, Steps

\* The other cycles are where they were.
OthersStand(c) == \A d \in Cycles \ {c} : cycle'[d] = cycle[d]

\* Cycle c is before a source, or over.
LEMMA TurnToFacts ==
    ASSUME PollTypeOK, NEW c \in Cycles, NEW todo \in SUBSET Sources, TurnTo(c, todo)
    PROVE  /\ cycle' \in [Cycles -> Poll] /\ OthersStand(c)
           /\ cycle'[c].step = IF todo = {} THEN "idle" ELSE "source"
           /\ cycle'[c].todo = todo /\ cycle'[c].item = None /\ cycle'[c].batch = {}
<1> DEFINE next == IF todo = {} THEN NotPolling
                   ELSE [NotPolling EXCEPT !.step = "source", !.todo = todo]
<1>1. /\ next \in Poll
      /\ next.step = IF todo = {} THEN "idle" ELSE "source"
      /\ next.todo = todo /\ next.item = None /\ next.batch = {}
    <2>1. CASE todo = {}
        BY <2>1, NotPollingTyped DEF NotPolling
    <2>2. CASE todo # {}
        <3>1. next = [step |-> "source", todo |-> todo, batch |-> {}, src |-> None,
                      item |-> None, score |-> 0]
            BY <2>2 DEF NotPolling
        <3> HIDE DEF next
        <3> QED BY <2>2, <3>1 DEF Poll, Steps
    <2> QED BY <2>1, <2>2
<1>2. cycle' = [cycle EXCEPT ![c] = next]
    BY DEF TurnTo
<1> HIDE DEF next
<1> QED BY <1>1, <1>2, PollType DEF OthersStand

\* A cycle with another step, item, score and batch.
With(y, s, i, v, b) == [y EXCEPT !.step = s, !.item = i, !.score = v, !.batch = b]

\* What With changes, and what it leaves.
LEMMA WithFacts ==
    ASSUME NEW y \in Poll, NEW s \in Steps, NEW i \in Items \cup {None}, NEW v \in 0..2,
           NEW b \in SUBSET Items
    PROVE  /\ With(y, s, i, v, b) \in Poll
           /\ With(y, s, i, v, b).step = s /\ With(y, s, i, v, b).item = i
           /\ With(y, s, i, v, b).score = v /\ With(y, s, i, v, b).batch = b
           /\ With(y, s, i, v, b).todo = y.todo
BY DEF Poll, With

\* Cycle c has one item less to do.
LEMMA NextItemFacts ==
    ASSUME PollTypeOK, NEW c \in Cycles, NextItem(c)
    PROVE  /\ cycle' \in [Cycles -> Poll] /\ OthersStand(c)
           /\ cycle'[c].step = "items" /\ cycle'[c].item = None
           /\ cycle'[c].batch = cycle[c].batch \ {cycle[c].item}
           /\ cycle'[c].todo = cycle[c].todo
<1> DEFINE left == cycle[c].batch \ {cycle[c].item}
           next == With(cycle[c], "items", None, 0, left)
<1>1. cycle \in [Cycles -> Poll] /\ cycle[c] \in Poll /\ left \in SUBSET Items
    BY PollType DEF Poll
<1>2. cycle' = [cycle EXCEPT ![c] = next]
    BY <1>1 DEF NextItem, Poll, With
<1> HIDE DEF left
<1>3. /\ next \in Poll /\ next.step = "items" /\ next.item = None
      /\ next.batch = left /\ next.todo = cycle[c].todo
    <2>1. "items" \in Steps /\ 0 \in 0..2 /\ None \in Items \cup {None}
        BY DEF Steps
    <2> QED BY <1>1, <2>1, WithFacts
<1> HIDE DEF next
<1> QED BY <1>1, <1>2, <1>3 DEF OthersStand, left

\* The next source is one of those left to do.
LEMMA NextSourceFacts ==
    ASSUME PollTyped, NEW c \in Cycles, cycle[c].step # "idle"
    PROVE  NextSource(cycle[c].todo) \in cycle[c].todo /\ cycle[c].todo \subseteq Sources
BY PollType DEF PollTyped, CyclesCarry, Carries, Poll, NextSource

\* The batch is new to the tracker.
LEMMA StartSourceFacts ==
    ASSUME PollTyped, NEW c \in Cycles, StartSource(c)
    PROVE  /\ cycle' \in [Cycles -> Poll] /\ OthersStand(c)
           /\ cycle'[c].step = "items" /\ cycle'[c].item = cycle[c].item
           /\ cycle'[c].todo = cycle[c].todo
           /\ \A i \in cycle'[c].batch : interest_score[i] = None
<1> DEFINE s == NextSource(cycle[c].todo)
           b == unseen_items({i \in listed : Home[i] = s})
           next == [cycle[c] EXCEPT !.step = "items", !.src = s, !.batch = b]
<1>1. cycle \in [Cycles -> Poll] /\ cycle[c] \in Poll
    BY PollType DEF PollTyped
<1>2. s \in Sources
    <2>1. cycle[c].step # "idle"
        BY DEF StartSource
    <2> QED BY <2>1, NextSourceFacts
<1>3. b \in SUBSET Items /\ \A i \in b : interest_score[i] = None
    <2>1. listed \subseteq Items
        BY PollAssumption DEF PollTyped, PollTypeOK, Items
    <2>2. b \subseteq listed /\ \A i \in b : interest_score[i] = None
        BY DEF unseen_items
    <2> QED BY <2>1, <2>2
<1>4. cycle' = [cycle EXCEPT ![c] = next]
    BY <1>1 DEF StartSource
<1>5. "items" \in Steps
    BY DEF Steps
<1> HIDE DEF s, b
<1>6. /\ next \in Poll /\ next.step = "items" /\ next.item = cycle[c].item
      /\ next.todo = cycle[c].todo /\ next.batch = b
    BY <1>1, <1>2, <1>3, <1>5 DEF Poll
<1> HIDE DEF next
<1> QED BY <1>1, <1>3, <1>4, <1>6 DEF OthersStand

\* An empty feed.
LEMMA FeedFailsFacts ==
    ASSUME PollTyped, NEW c \in Cycles, FeedFails(c)
    PROVE  /\ cycle' \in [Cycles -> Poll] /\ OthersStand(c)
           /\ cycle'[c].step = "items" /\ cycle'[c].item = cycle[c].item
           /\ cycle'[c].todo = cycle[c].todo /\ cycle'[c].batch = cycle[c].batch
<1> DEFINE s == NextSource(cycle[c].todo)
           next == [cycle[c] EXCEPT !.step = "items", !.src = s]
<1>1. cycle \in [Cycles -> Poll] /\ cycle[c] \in Poll
    BY PollType DEF PollTyped
<1>2. s \in Sources
    <2>1. cycle[c].step # "idle"
        BY DEF FeedFails
    <2> QED BY <2>1, NextSourceFacts
<1>3. cycle' = [cycle EXCEPT ![c] = next]
    BY <1>1 DEF FeedFails
<1>4. "items" \in Steps
    BY DEF Steps
<1> HIDE DEF s
<1>5. /\ next \in Poll /\ next.step = "items" /\ next.item = cycle[c].item
      /\ next.todo = cycle[c].todo /\ next.batch = cycle[c].batch
    BY <1>1, <1>2, <1>4 DEF Poll
<1> HIDE DEF next
<1> QED BY <1>1, <1>3, <1>5 DEF OthersStand

\* The newest of the batch in hand, or out of it.
LEMMA TakeItemFacts ==
    ASSUME PollTyped, NEW c \in Cycles, TakeItem(c)
    PROVE  /\ cycle' \in [Cycles -> Poll] /\ OthersStand(c)
           /\ cycle'[c].todo = cycle[c].todo
           /\ \/ /\ cycle'[c].step = "summarize" /\ cycle'[c].item \in cycle[c].batch
                 /\ cycle'[c].batch = cycle[c].batch
              \/ /\ cycle'[c].step = "items" /\ cycle'[c].item = cycle[c].item
                 /\ cycle'[c].batch \subseteq cycle[c].batch
<1> DEFINE i == Newest(cycle[c].batch)
<1>1. cycle \in [Cycles -> Poll] /\ cycle[c] \in Poll /\ cycle[c].step = "items"
    BY PollType DEF PollTyped, TakeItem
<1>2. i \in cycle[c].batch /\ i \in Items
    BY <1>1, HasNewest DEF TakeItem, Poll
<1>3. "summarize" \in Steps
    BY DEF Steps
<1>4. CASE i \notin Unreadable
    <2> DEFINE next == [cycle[c] EXCEPT !.step = "summarize", !.item = i]
    <2>1. cycle' = [cycle EXCEPT ![c] = next]
        BY <1>1, <1>4 DEF TakeItem
    <2> HIDE DEF i
    <2>2. /\ next \in Poll /\ next.step = "summarize" /\ next.item = i
          /\ next.todo = cycle[c].todo /\ next.batch = cycle[c].batch
        BY <1>1, <1>2, <1>3 DEF Poll
    <2> HIDE DEF next
    <2> QED BY <1>1, <1>2, <2>1, <2>2 DEF OthersStand
<1>5. CASE i \in Unreadable
    <2> DEFINE left == cycle[c].batch \ {i}
               next == [cycle[c] EXCEPT !.batch = left]
    <2>1. cycle' = [cycle EXCEPT ![c] = next]
        BY <1>1, <1>5 DEF TakeItem
    <2>2. left \in SUBSET Items /\ left \subseteq cycle[c].batch
        BY <1>1 DEF Poll
    <2> HIDE DEF left
    <2>3. /\ next \in Poll /\ next.step = "items" /\ next.item = cycle[c].item
          /\ next.todo = cycle[c].todo /\ next.batch = left
        BY <1>1, <2>2 DEF Poll
    <2> HIDE DEF next
    <2> QED BY <1>1, <2>1, <2>2, <2>3 DEF OthersStand
<1> QED BY <1>4, <1>5

\* Cycle c goes from one step of its pass to the next.
GoesOn(c, s) ==
    /\ cycle' \in [Cycles -> Poll] /\ OthersStand(c)
    /\ cycle'[c].step = s /\ cycle'[c].item = cycle[c].item
    /\ cycle'[c].todo = cycle[c].todo /\ cycle'[c].batch = cycle[c].batch

\* A step that changes nothing of its cycle but where it is.
LEMMA GoesOnFacts ==
    ASSUME PollTypeOK, NEW c \in Cycles, NEW s \in Steps,
           cycle' = [cycle EXCEPT ![c].step = s]
    PROVE  GoesOn(c, s) /\ cycle'[c].score = cycle[c].score
<1> DEFINE next == [cycle[c] EXCEPT !.step = s]
<1>1. cycle \in [Cycles -> Poll] /\ cycle[c] \in Poll
    BY PollType
<1>2. cycle' = [cycle EXCEPT ![c] = next]
    BY <1>1
<1>3. /\ next \in Poll /\ next.step = s /\ next.item = cycle[c].item
      /\ next.todo = cycle[c].todo /\ next.batch = cycle[c].batch
      /\ next.score = cycle[c].score
    BY <1>1 DEF Poll
<1> HIDE DEF next
<1> QED BY <1>1, <1>2, <1>3 DEF GoesOn, OthersStand

\* Summarize keeps the item and the batch, and takes a score along.
LEMMA SummarizeFacts ==
    ASSUME PollTyped, NEW c \in Cycles, Summarize(c)
    PROVE  GoesOn(c, "record")
<1> DEFINE v == score_content_item(cycle[c].item)
           next == [cycle[c] EXCEPT !.step = "record", !.score = v]
<1>1. cycle \in [Cycles -> Poll] /\ cycle[c] \in Poll /\ "record" \in Steps
    BY PollType DEF PollTyped, Steps
<1>2. cycle[c].item # None
    BY DEF Summarize, PollTyped, CyclesCarry, Carries, InPass
<1>3. cycle[c].item \in Items
    BY <1>1, <1>2 DEF Poll
<1>4. v \in 0..2
    BY <1>3, ScoreFacts DEF PollTyped, PollTypeOK
<1>5. cycle' = [cycle EXCEPT ![c] = next]
    BY <1>1 DEF Summarize
<1> HIDE DEF v
<1>6. /\ next \in Poll /\ next.step = "record" /\ next.item = cycle[c].item
      /\ next.todo = cycle[c].todo /\ next.batch = cycle[c].batch
    BY <1>1, <1>4 DEF Poll
<1> HIDE DEF next
<1> QED BY <1>1, <1>5, <1>6 DEF GoesOn, OthersStand

-----------------------------------------------------------------------------
(* Types *)

\* Nothing is polled and nothing stored at the start.
LEMMA PollTypedInit == PollInit => PollTyped
<1> SUFFICES ASSUME PollInit PROVE PollTyped
    OBVIOUS
<1>1. cycle \in [Cycles -> Poll]
    BY NotPollingTyped DEF PollInit
<1>2. PollTypeOK
    BY <1>1, PollAssumption DEF PollInit, PollTypeOK, Poll, Items
<1>3. CyclesCarry
    BY DEF PollInit, CyclesCarry, Carries, NotPolling, InPass
<1> QED BY <1>2, <1>3 DEF PollTyped

\* The stores only grow.
StoresGrow ==
    /\ nodes \subseteq nodes' /\ deep \subseteq deep'
    /\ \A i \in Items : interest_score[i] # None => interest_score'[i] # None

\* What a cycle holds, it holds on to while another moves.
LEMMA CarryStays ==
    ASSUME PollTyped, NEW c \in Cycles, OthersStand(c), StoresGrow, Carries(c)'
    PROVE  CyclesCarry'
<1> SUFFICES ASSUME NEW d \in Cycles \ {c} PROVE Carries(d)'
    BY DEF CyclesCarry
<1>1. cycle'[d] = cycle[d] /\ cycle[d] \in Poll /\ Carries(d)
    BY PollType DEF OthersStand, PollTyped, CyclesCarry
<1>2. cycle[d].item # None => cycle[d].item \in Items
    BY <1>1 DEF Poll
<1> QED BY <1>1, <1>2 DEF Carries, StoresGrow, InPass

\* The stores keep their types, and so do the others.
StoresTyped ==
    /\ nodes' \subseteq Items /\ deep' \subseteq nodes'
    /\ interest_score' \in [Items -> 0..2 \cup {None}]
    /\ candidates' \in [Items -> Nat]

\* The type invariant after a step, from the types of what the step changes.
LEMMA TypedStays ==
    ASSUME PollTyped, UNCHANGED <<status, world, interests>>, due' \subseteq due,
           trust' \in [Sources -> 0..MaxTrust], StoresTyped, cycle' \in [Cycles -> Poll],
           cut' \subseteq Items, faults' \in 0..MaxFaults
    PROVE  PollTypeOK'
BY DEF PollTyped, PollTypeOK, world, StoresTyped, Poll

\* A step that leaves the stores alone keeps their types.
LEMMA SameStores ==
    ASSUME PollTyped, UNCHANGED stores
    PROVE  StoresTyped /\ StoresGrow
BY DEF stores, StoresTyped, StoresGrow, PollTyped, PollTypeOK

\* The feeds, the clock and the operator.
World ==
    \/ Publish \/ (\E i \in Items : Age(i)) \/ (\E s \in Sources : Elapse(s))
    \/ Operator

\* The feeds, the clock and the operator change no store and no cycle.
LEMMA WorldStands ==
    ASSUME World \/ UNCHANGED pollVars
    PROVE  UNCHANGED <<stores, cycle, cut, faults>>
BY DEF World, Publish, Age, Elapse, Operator, add_feed, remove_feed, add_interest,
   remove_interest, pollVars, stores

\* Nor do they disturb the types.
LEMMA WorldTyped ==
    ASSUME PollTyped, World \/ UNCHANGED pollVars
    PROVE  PollTyped'
<1> USE PollAssumption
<1>1. UNCHANGED <<nodes, interest_score, deep, candidates, cycle, cut, faults>>
    BY WorldStands DEF stores
<1>2. CyclesCarry'
    BY <1>1 DEF PollTyped, CyclesCarry, Carries, InPass
<1>3. /\ status' \in [Sources -> {"absent", "active", "paused"}] /\ due' \subseteq Sources
      /\ trust' = trust /\ interests' \subseteq Topics
    BY DEF World, Publish, Age, Elapse, Operator, add_feed, remove_feed, add_interest,
       remove_interest, pollVars, feeds, world, PollTyped, PollTypeOK
<1>4. published' \in 0..N /\ listed' \subseteq 1..published'
    <2>1. CASE Publish
        BY <2>1 DEF Publish, PollTyped, PollTypeOK
    <2>2. CASE \E i \in Items : Age(i)
        BY <2>2 DEF Age, PollTyped, PollTypeOK
    <2>3. CASE UNCHANGED world
        BY <2>3 DEF world, PollTyped, PollTypeOK
    <2> QED BY <2>1, <2>2, <2>3 DEF World, Elapse, Operator, add_feed, remove_feed,
               add_interest, remove_interest, pollVars, world
<1> QED BY <1>1, <1>2, <1>3, <1>4 DEF PollTyped, PollTypeOK

\* The item of a pass.
LEMMA InPassFacts ==
    ASSUME PollTyped, NEW c \in Cycles, cycle[c].item # None
    PROVE  cycle[c].item \in Items /\ cycle[c].item \in cycle[c].batch
BY PollType DEF PollTyped, CyclesCarry, Carries, Poll

\* The steps of a cycle that succeed keep the types.
LEMMA WorkTyped ==
    ASSUME PollTyped, NEW c \in Cycles, Work(c)
    PROVE  PollTyped'
<1> DEFINE i == cycle[c].item
<1>0. /\ PollTypeOK /\ Carries(c) /\ cycle[c] \in Poll
      /\ trust \in [Sources -> 0..MaxTrust] /\ cut \subseteq Items
      /\ faults \in 0..MaxFaults /\ nodes \subseteq Items /\ deep \subseteq nodes
      /\ interest_score \in [Items -> 0..2 \cup {None}]
      /\ candidates \in [Items -> Nat]
    BY PollType DEF PollTyped, CyclesCarry, PollTypeOK
<1>1. CASE StartPoll(c) \/ mark_polled(c)
    <2>1. PICK todo \in SUBSET Sources : TurnTo(c, todo)
        BY <1>0, <1>1 DEF StartPoll, mark_polled, Poll, PollTypeOK
    <2>2. Carries(c)'
        BY <1>0, <2>1, TurnToFacts DEF Carries, InPass
    <2>3. UNCHANGED <<status, trust, world, interests, stores, cut, faults>> /\ due' \subseteq due
        BY <1>1 DEF StartPoll, mark_polled, feeds
    <2> QED BY <1>0, <2>1, <2>2, <2>3, TurnToFacts, SameStores, CarryStays, TypedStays
            DEF PollTyped
<1>2. CASE StartSource(c)
    <2>1. UNCHANGED <<feeds, world, interests, stores, cut, faults>> /\ cycle[c].step = "source"
        BY <1>2 DEF StartSource
    <2>2. Carries(c)'
        BY <1>0, <1>2, <2>1, StartSourceFacts DEF Carries, InPass
    <2> QED BY <1>0, <1>2, <2>1, <2>2, StartSourceFacts, SameStores, CarryStays, TypedStays
            DEF PollTyped, feeds
<1>3. CASE TakeItem(c)
    <2>1. UNCHANGED <<status, due, world, interests, stores, cut, faults>>
          /\ cycle[c].step = "items"
        BY <1>3 DEF TakeItem
    <2>2. trust' \in [Sources -> 0..MaxTrust]
        <3>1. UNCHANGED trust \/ (/\ trust[cycle[c].src] > 0
                                  /\ trust' = [trust EXCEPT ![cycle[c].src] = @ - 1])
            BY <1>3 DEF TakeItem
        <3> QED BY <1>0, <3>1, PollAssumption
    <2>3. Carries(c)'
        <3>1. cycle[c].item = None /\ cycle[c].todo # {}
            BY <1>0, <2>1 DEF Carries, InPass
        <3>2. cycle'[c].item \in cycle[c].batch => cycle'[c].item # None
            BY <1>0, PollAssumption DEF Poll
        <3> QED BY <1>3, <3>1, <3>2, TakeItemFacts DEF Carries, InPass
    <2> QED BY <1>0, <1>3, <2>1, <2>2, <2>3, TakeItemFacts, SameStores, CarryStays, TypedStays
            DEF PollTyped
<1>4. CASE Summarize(c)
    <2>1. /\ UNCHANGED <<feeds, world, interests, interest_score, deep, candidates, cut, faults>>
          /\ cycle[c].step = "summarize" /\ nodes' = nodes \cup {i}
        BY <1>4 DEF Summarize
    <2>2. i # None /\ i \in Items /\ GoesOn(c, "record")
        BY <1>0, <1>4, <2>1, InPassFacts, SummarizeFacts DEF Carries, InPass
    <2>3. StoresTyped /\ StoresGrow
        BY <1>0, <2>1, <2>2 DEF StoresTyped, StoresGrow
    <2>4. Carries(c)'
        BY <1>0, <2>1, <2>2 DEF Carries, InPass, GoesOn
    <2> QED BY <1>0, <2>1, <2>2, <2>3, <2>4, CarryStays, TypedStays
            DEF PollTyped, feeds, GoesOn
<1>5. CASE record_content(c)
    <2>1. /\ UNCHANGED <<feeds, world, interests, nodes, deep, candidates, cut, faults>>
          /\ cycle[c].step = "record"
          /\ interest_score' = IF interest_score[i] = None
                               THEN [interest_score EXCEPT ![i] = cycle[c].score]
                               ELSE interest_score
          /\ cycle' = [cycle EXCEPT ![c].step = "deep"] \/ NextItem(c)
        BY <1>5 DEF record_content
    <2>2. i # None /\ i \in Items /\ cycle[c].score \in 0..2
        BY <1>0, <2>1, InPassFacts DEF Carries, InPass, Poll
    <2>3. StoresTyped /\ StoresGrow /\ interest_score'[i] # None
        BY <1>0, <2>1, <2>2, PollAssumption DEF StoresTyped, StoresGrow
    <2>4. CASE NextItem(c)
        <3>1. Carries(c)'
            BY <1>0, <2>1, <2>4, NextItemFacts DEF Carries, InPass
        <3> QED BY <1>0, <2>1, <2>3, <2>4, <3>1, NextItemFacts, CarryStays, TypedStays
                DEF PollTyped, feeds
    <2>5. CASE cycle' = [cycle EXCEPT ![c].step = "deep"]
        <3>1. GoesOn(c, "deep")
            BY <1>0, <2>5, GoesOnFacts DEF Steps
        <3>2. Carries(c)'
            BY <1>0, <2>1, <2>2, <2>3, <3>1 DEF Carries, InPass, GoesOn
        <3> QED BY <1>0, <2>1, <2>3, <3>1, <3>2, CarryStays, TypedStays
                DEF PollTyped, feeds, GoesOn
    <2> QED BY <2>1, <2>4, <2>5
<1>6. CASE DeepPass(c)
    <2>1. /\ UNCHANGED <<feeds, world, interests, nodes, interest_score, candidates, cut, faults>>
          /\ cycle[c].step = "deep" /\ deep' = deep \cup {i}
          /\ cycle' = [cycle EXCEPT ![c].step = "propose"] \/ NextItem(c)
        BY <1>6 DEF DeepPass
    <2>2. i # None /\ i \in nodes
        BY <1>0, <2>1 DEF Carries, InPass
    <2>3. StoresTyped /\ StoresGrow /\ i \in deep'
        BY <1>0, <2>1, <2>2 DEF StoresTyped, StoresGrow
    <2>4. CASE NextItem(c)
        <3>1. Carries(c)'
            BY <1>0, <2>1, <2>4, NextItemFacts DEF Carries, InPass
        <3> QED BY <1>0, <2>1, <2>3, <2>4, <3>1, NextItemFacts, CarryStays, TypedStays
                DEF PollTyped, feeds
    <2>5. CASE cycle' = [cycle EXCEPT ![c].step = "propose"]
        <3>1. GoesOn(c, "propose")
            BY <1>0, <2>5, GoesOnFacts DEF Steps
        <3>2. Carries(c)'
            BY <1>0, <2>1, <2>2, <2>3, <3>1 DEF Carries, InPass, GoesOn
        <3> QED BY <1>0, <2>1, <2>3, <3>1, <3>2, CarryStays, TypedStays
                DEF PollTyped, feeds, GoesOn
    <2> QED BY <2>1, <2>4, <2>5
<1>7. CASE propose_task_candidate(c)
    <2>1. /\ UNCHANGED <<feeds, world, interests, nodes, interest_score, deep, cut, faults>>
          /\ cycle[c].step = "propose" /\ NextItem(c)
          /\ candidates' = [candidates EXCEPT ![i] = @ + 1]
        BY <1>7 DEF propose_task_candidate
    <2>2. StoresTyped /\ StoresGrow
        <3>1. i \in Items
            BY <1>0, <2>1, InPassFacts DEF Carries, InPass
        <3> HIDE DEF i
        <3>2. candidates' \in [Items -> Nat]
            BY <1>0, <2>1, <3>1
        <3> QED BY <1>0, <2>1, <3>2 DEF StoresTyped, StoresGrow
    <2>3. Carries(c)'
        BY <1>0, <2>1, NextItemFacts DEF Carries, InPass
    <2> QED BY <1>0, <2>1, <2>2, <2>3, NextItemFacts, CarryStays, TypedStays
            DEF PollTyped, feeds
<1> QED BY <1>1, <1>2, <1>3, <1>4, <1>5, <1>6, <1>7 DEF Work

Fails(c) == FeedFails(c) \/ SourceFails(c) \/ ItemFails(c) \/ Crash(c)

\* Crash(c) leaves the cycle idle.
LEMMA CrashFacts ==
    ASSUME PollTypeOK, NEW c \in Cycles, Crash(c)
    PROVE  cycle' \in [Cycles -> Poll] /\ OthersStand(c) /\ cycle'[c] = NotPolling
BY PollType, NotPollingTyped DEF Crash, OthersStand

\* So do those that fail.
LEMMA FailsTyped ==
    ASSUME PollTyped, NEW c \in Cycles, Fails(c)
    PROVE  PollTyped'
<1>0. /\ PollTypeOK /\ Carries(c) /\ cycle[c] \in Poll
      /\ trust \in [Sources -> 0..MaxTrust] /\ cut \subseteq Items
    BY PollType DEF PollTyped, CyclesCarry, PollTypeOK
<1>1. /\ UNCHANGED <<feeds, world, interests, stores>>
      /\ faults' \in 0..MaxFaults
    BY PollAssumption
       DEF Fails, FeedFails, SourceFails, ItemFails, Crash, PollTyped, PollTypeOK
<1>2. cut' \subseteq Items
    <2>1. UNCHANGED cut \/ CutShort(c)
        BY DEF Fails, FeedFails, SourceFails, ItemFails, Crash
    <2>2. cycle[c].step \in {"deep", "propose"} => cycle[c].item \in Items
        BY <1>0, InPassFacts DEF Carries, InPass
    <2> QED BY <1>0, <2>1, <2>2 DEF CutShort
<1>3. ASSUME cycle' \in [Cycles -> Poll], OthersStand(c), Carries(c)' PROVE PollTyped'
    BY <1>0, <1>1, <1>2, <1>3, SameStores, CarryStays, TypedStays DEF PollTyped, feeds
<1>4. CASE FeedFails(c)
    <2>1. Carries(c)'
        BY <1>0, <1>4, FeedFailsFacts DEF FeedFails, Carries, InPass
    <2> QED BY <1>3, <1>4, <2>1, FeedFailsFacts
<1>5. CASE SourceFails(c)
    <2>1. PICK todo \in SUBSET Sources : TurnTo(c, todo)
        <3>1. cycle[c].todo \ {NextSource(cycle[c].todo)} \in SUBSET Sources
            BY <1>0 DEF Poll
        <3> QED BY <1>5, <3>1 DEF SourceFails
    <2>2. Carries(c)'
        BY <1>0, <2>1, TurnToFacts DEF Carries, InPass
    <2> QED BY <1>0, <1>3, <2>1, <2>2, TurnToFacts
<1>6. CASE ItemFails(c)
    <2>1. NextItem(c) /\ cycle[c].todo # {}
        BY <1>0, <1>6 DEF ItemFails, Carries, InPass
    <2>2. Carries(c)'
        BY <1>0, <2>1, NextItemFacts DEF Carries, InPass
    <2> QED BY <1>0, <1>3, <2>1, <2>2, NextItemFacts
<1>7. CASE Crash(c)
    <2>1. Carries(c)'
        BY <1>0, <1>7, CrashFacts DEF Carries, InPass, NotPolling
    <2> QED BY <1>0, <1>3, <1>7, <2>1, CrashFacts
<1> QED BY <1>4, <1>5, <1>6, <1>7 DEF Fails

\* Every step keeps the types and what the cycles hold.
LEMMA PollTypedStep == PollTyped /\ [PollNext]_pollVars => PollTyped'
BY WorldTyped, WorkTyped, FailsTyped DEF PollNext, World, Fails

\* The poller is well typed.
THEOREM PollIsTyped == PollSpec => []PollTypeOK
<1>1. PollTyped => PollTypeOK
    BY DEF PollTyped
<1> QED BY <1>1, PollTypedInit, PollTypedStep, PTL DEF PollSpec

-----------------------------------------------------------------------------
(* Proposals *)

\* The cycles that hold an item are at most all of them.
LEMMA HoldersFinite ==
    ASSUME NEW i
    PROVE  /\ Holders(i) \subseteq Cycles /\ IsFiniteSet(Holders(i))
           /\ Cardinality(Holders(i)) \in Nat /\ Cardinality(Cycles) \in Nat
           /\ Cardinality(Holders(i)) <= Cardinality(Cycles)
BY PollAssumption, FS_Subset, FS_CardinalityType DEF Holders

\* Nobody takes a tracked item into a batch.
NoneTakesTracked ==
    \A i \in Items, c \in Cycles :
        interest_score[i] # None /\ i \in cycle'[c].batch => i \in cycle[c].batch

\* A step without a proposal that takes no tracked item.
LEMMA AskedStays ==
    ASSUME PollTyped, AskedOnce, UNCHANGED candidates, NoneTakesTracked,
           \A i \in Items : interest_score[i] # None => interest_score'[i] # None
    PROVE  AskedOnce'
<1> SUFFICES ASSUME NEW i \in Items PROVE Asked(i)'
    BY DEF AskedOnce
<1>1. candidates[i] \in Nat /\ candidates'[i] = candidates[i] /\ Asked(i)
    BY DEF PollTyped, PollTypeOK, AskedOnce
<1> DEFINE after == {c \in Cycles : i \in cycle'[c].batch}
<1>2. Holders(i)' = after
    BY DEF Holders
<1>3. /\ after \subseteq Cycles /\ IsFiniteSet(after) /\ Cardinality(after) \in Nat
      /\ Cardinality(after) <= Cardinality(Cycles)
    BY PollAssumption, FS_Subset, FS_CardinalityType
<1>4. CASE interest_score[i] = None
    BY <1>1, <1>2, <1>3, <1>4, HoldersFinite DEF Asked
<1>5. CASE interest_score[i] # None
    <2>1. after \subseteq Holders(i)
        BY <1>5 DEF Holders, NoneTakesTracked
    <2>2. Cardinality(after) <= Cardinality(Holders(i))
        BY <2>1, HoldersFinite, FS_Subset
    <2>3. interest_score'[i] # None
        BY <1>5
    <2> QED BY <1>1, <1>2, <1>3, <1>5, <2>2, <2>3, HoldersFinite DEF Asked
<1> QED BY <1>4, <1>5

\* The proposal of the item in hand takes the cycle from those that hold it.
LEMMA ProposalAsked ==
    ASSUME PollTyped, AskedOnce, NEW c \in Cycles, propose_task_candidate(c)
    PROVE  AskedOnce'
<1> SUFFICES ASSUME NEW i \in Items PROVE Asked(i)'
    BY DEF AskedOnce
<1> DEFINE h == cycle[c].item
           after == {d \in Cycles : i \in cycle'[d].batch}
<1>1. /\ cycle[c].step = "propose" /\ NextItem(c) /\ UNCHANGED interest_score
      /\ candidates' = [candidates EXCEPT ![h] = @ + 1]
    BY DEF propose_task_candidate
<1>2. h # None /\ interest_score[h] # None
    BY <1>1 DEF PollTyped, CyclesCarry, Carries, InPass
<1>3. h \in Items /\ h \in cycle[c].batch
    BY <1>2, InPassFacts
<1>4. /\ cycle'[c].batch = cycle[c].batch \ {h}
      /\ \A d \in Cycles \ {c} : cycle'[d] = cycle[d]
    BY <1>1, NextItemFacts DEF PollTyped, OthersStand
<1>5. candidates \in [Items -> Nat] /\ Asked(i)
    BY DEF PollTyped, PollTypeOK, AskedOnce
<1>6. Holders(i)' = after
    BY DEF Holders
<1> HIDE DEF h
<1>7. CASE i = h
    <2>1. after = Holders(i) \ {c} /\ c \in Holders(i)
        BY <1>3, <1>4, <1>7 DEF Holders
    <2>2. Cardinality(after) = Cardinality(Holders(i)) - 1
        BY <2>1, HoldersFinite, FS_RemoveElement
    <2>3. candidates'[i] = candidates[i] + 1
        BY <1>1, <1>3, <1>5, <1>7
    <2>4. candidates[i] + Cardinality(Holders(i)) <= Cardinality(Cycles)
        BY <1>2, <1>5, <1>7 DEF Asked
    <2> QED BY <1>1, <1>2, <1>5, <1>6, <1>7, <2>2, <2>3, <2>4, HoldersFinite DEF Asked
<1>8. CASE i # h
    <2>1. after = Holders(i)
        BY <1>4, <1>8 DEF Holders
    <2>2. candidates'[i] = candidates[i]
        BY <1>1, <1>5, <1>8
    <2> QED BY <1>1, <1>5, <1>6, <2>1, <2>2 DEF Asked
<1> QED BY <1>7, <1>8

\* A source brings items that are not tracked; every other step leaves a batch or
\* takes from it.
LEMMA NoneTaken ==
    ASSUME PollTyped, \/ World \/ UNCHANGED pollVars
                      \/ \E c \in Cycles : Work(c) \/ Fails(c)
    PROVE  NoneTakesTracked
<1>1. CASE World \/ UNCHANGED pollVars
    BY <1>1, WorldStands DEF NoneTakesTracked
<1>2. ASSUME NEW c \in Cycles, Work(c) \/ Fails(c) PROVE NoneTakesTracked
    <2>0. PollTypeOK /\ cycle[c] \in Poll
        BY PollType DEF PollTyped
    <2>1. ASSUME OthersStand(c), cycle'[c].batch \subseteq cycle[c].batch
          PROVE  NoneTakesTracked
        BY <2>1 DEF OthersStand, NoneTakesTracked
    <2>2. ASSUME NEW todo \in SUBSET Sources, TurnTo(c, todo) PROVE NoneTakesTracked
        BY <2>0, <2>1, <2>2, TurnToFacts
    <2>3. CASE StartPoll(c) \/ mark_polled(c) \/ SourceFails(c)
        <3>1. {s \in due : status[s] = "active"} \in SUBSET Sources
              /\ \A S : cycle[c].todo \ S \in SUBSET Sources
            BY <2>0 DEF PollTypeOK, Poll
        <3> QED BY <2>2, <2>3, <3>1 DEF StartPoll, mark_polled, SourceFails
    <2>4. CASE StartSource(c)
        BY <2>4, StartSourceFacts DEF OthersStand, NoneTakesTracked
    <2>5. CASE FeedFails(c)
        BY <2>1, <2>5, FeedFailsFacts
    <2>6. CASE TakeItem(c)
        BY <2>1, <2>6, TakeItemFacts
    <2>7. CASE Summarize(c)
        BY <2>1, <2>7, SummarizeFacts DEF GoesOn
    <2>8. CASE NextItem(c)
        BY <2>0, <2>1, <2>8, NextItemFacts
    <2>9. ASSUME NEW s \in Steps, cycle' = [cycle EXCEPT ![c].step = s] PROVE NoneTakesTracked
        BY <2>0, <2>1, <2>9, GoesOnFacts DEF GoesOn
    <2>10. CASE Crash(c)
        BY <2>0, <2>1, <2>10, CrashFacts DEF NotPolling
    <2>11. {"deep", "propose"} \subseteq Steps
        BY DEF Steps
    <2> QED BY <1>2, <2>3, <2>4, <2>5, <2>6, <2>7, <2>8, <2>9, <2>10, <2>11
            DEF Work, Fails, record_content, DeepPass, propose_task_candidate, ItemFails
<1> QED BY <1>1, <1>2

\* Every step keeps the count of proposals and holders below the number of cycles.
LEMMA AskedStep ==
    ASSUME PollTyped, AskedOnce, [PollNext]_pollVars
    PROVE  AskedOnce'
<1>1. NoneTakesTracked
    BY NoneTaken DEF PollNext, World, Fails
<1>2. ASSUME UNCHANGED candidates,
             UNCHANGED interest_score \/ \E c \in Cycles : record_content(c)
      PROVE  AskedOnce'
    <2>1. ASSUME NEW i \in Items, interest_score[i] # None PROVE interest_score'[i] # None
        BY <1>2, <2>1 DEF record_content, PollTyped, PollTypeOK
    <2> QED BY <1>1, <1>2, <2>1, AskedStays
<1>3. CASE World \/ UNCHANGED pollVars
    BY <1>2, <1>3, WorldStands DEF stores
<1>4. ASSUME NEW c \in Cycles, Work(c) PROVE AskedOnce'
    <2>1. CASE propose_task_candidate(c)
        BY <2>1, ProposalAsked
    <2>2. CASE record_content(c)
        BY <1>2, <2>2 DEF record_content
    <2>3. CASE Summarize(c) \/ DeepPass(c)
        BY <1>2, <2>3 DEF Summarize, DeepPass
    <2>4. CASE StartPoll(c) \/ StartSource(c) \/ TakeItem(c) \/ mark_polled(c)
        BY <1>2, <2>4 DEF StartPoll, StartSource, TakeItem, mark_polled, stores
    <2> QED BY <1>4, <2>1, <2>2, <2>3, <2>4 DEF Work
<1>5. ASSUME NEW c \in Cycles, Fails(c) PROVE AskedOnce'
    BY <1>2, <1>5 DEF Fails, FeedFails, SourceFails, ItemFails, Crash, stores
<1> QED BY <1>3, <1>4, <1>5 DEF PollNext, World, Fails

\* However many cycles fail, overlap and start over, the operator is asked about an
\* item no more often than there are cycles that may run at once.
THEOREM ProposalsStayBounded == PollSpec => []ProposalsBounded
<1> DEFINE Inv == PollTyped /\ AskedOnce
<1>1. PollInit => Inv
    BY PollTypedInit DEF PollInit, AskedOnce, Asked
<1>2. Inv /\ [PollNext]_pollVars => Inv'
    BY PollTypedStep, AskedStep
<1>3. Inv => ProposalsBounded
    <2> SUFFICES ASSUME Inv, NEW i \in Items PROVE candidates[i] <= Cardinality(Cycles)
        BY DEF ProposalsBounded
    <2>1. candidates[i] \in Nat /\ Asked(i)
        BY DEF PollTyped, PollTypeOK, AskedOnce
    <2> QED BY <2>1, HoldersFinite DEF Asked
<1> QED BY <1>1, <1>2, <1>3, PTL DEF PollSpec

-----------------------------------------------------------------------------
(* Follow-up *)

\* A pass under way goes on, or has done its work, or was cut short.
LEMMA FollowedUpStays ==
    ASSUME PollTyped, NEW i \in Items, FollowedUp(i), NEW c \in Cycles, OthersStand(c),
           interest_score'[i] = interest_score[i], deep \subseteq deep', cut \subseteq cut',
           candidates[i] > 0 => candidates'[i] > 0,
           interest_score[i] \in 1..2 /\ FollowsUp(c, i) =>
              \/ FollowsUp(c, i)' \/ i \in cut'
              \/ i \in deep' /\ (interest_score[i] = 2 => candidates'[i] > 0)
    PROVE  FollowedUp(i)'
<1>1. \A d \in Cycles \ {c} : FollowsUp(d, i) => FollowsUp(d, i)'
    BY DEF FollowsUp, OthersStand
<1> QED BY <1>1 DEF FollowedUp

\* Every step keeps a recorded score followed up, on its way, or cut short.
LEMMA FollowStep ==
    ASSUME PollTyped, PassesEnd, [PollNext]_pollVars
    PROVE  PassesEnd'
<1> SUFFICES ASSUME NEW i \in Items PROVE FollowedUp(i)'
    BY DEF PassesEnd
<1>1. FollowedUp(i)
    BY DEF PassesEnd
<1>2. CASE World \/ UNCHANGED pollVars
    BY <1>1, <1>2, WorldStands DEF FollowedUp, FollowsUp, stores
<1>3. ASSUME NEW c \in Cycles, Work(c) PROVE FollowedUp(i)'
    <2>0. /\ PollTypeOK /\ cycle[c] \in Poll /\ Carries(c)
          /\ interest_score \in [Items -> 0..2 \cup {None}]
          /\ candidates \in [Items -> Nat]
        BY PollType DEF PollTyped, CyclesCarry, PollTypeOK
    <2> DEFINE h == cycle[c].item
    <2>1. CASE cycle[c].step \notin {"record", "deep", "propose"}
        <3>1. OthersStand(c)
            <4>1. \A S : cycle[c].todo \ S \in SUBSET Sources
                  /\ {s \in due : status[s] = "active"} \in SUBSET Sources
                BY <2>0 DEF PollTypeOK, Poll
            <4>2. \A todo \in SUBSET Sources : TurnTo(c, todo) => OthersStand(c)
                BY <2>0, TurnToFacts
            <4>3. StartPoll(c) \/ mark_polled(c) => OthersStand(c)
                BY <4>1, <4>2 DEF StartPoll, mark_polled
            <4>4. StartSource(c) \/ TakeItem(c) \/ Summarize(c) => OthersStand(c)
                BY StartSourceFacts, TakeItemFacts, SummarizeFacts DEF GoesOn
            <4> QED BY <1>3, <2>1, <4>3, <4>4
                    DEF Work, record_content, DeepPass, propose_task_candidate
        <3>2. UNCHANGED <<interest_score, deep, candidates, cut>>
            BY <1>3, <2>1 DEF Work, StartPoll, StartSource, TakeItem, Summarize, mark_polled,
               record_content, DeepPass, propose_task_candidate, stores
        <3>3. ~FollowsUp(c, i)
            BY <2>1 DEF FollowsUp
        <3> QED BY <1>1, <3>1, <3>2, <3>3, FollowedUpStays
    <2>2. CASE cycle[c].step = "record"
        <3>1. record_content(c)
            BY <1>3, <2>2 DEF Work, StartPoll, StartSource, TakeItem, Summarize, mark_polled,
               DeepPass, propose_task_candidate
        <3>2. /\ UNCHANGED <<deep, candidates, cut>> /\ ~FollowsUp(c, i)
              /\ interest_score' = IF interest_score[h] = None
                                   THEN [interest_score EXCEPT ![h] = cycle[c].score]
                                   ELSE interest_score
              /\ IF cycle[c].score >= 1 THEN cycle' = [cycle EXCEPT ![c].step = "deep"]
                 ELSE NextItem(c)
            BY <2>2, <3>1 DEF record_content, FollowsUp, should_cognify
        <3>3. OthersStand(c)
            BY <2>0, <3>2, GoesOnFacts, NextItemFacts DEF GoesOn, Steps
        <3>4. CASE interest_score'[i] = interest_score[i]
            BY <1>1, <3>2, <3>3, <3>4, FollowedUpStays
        <3>5. CASE interest_score'[i] # interest_score[i]
            <4>1. i = h /\ interest_score'[i] = cycle[c].score
                BY <2>0, <3>2, <3>5
            <4>2. CASE cycle[c].score >= 1
                <5>1. GoesOn(c, "deep") /\ cycle'[c].score = cycle[c].score
                    BY <2>0, <3>2, <4>2, GoesOnFacts DEF Steps
                <5>2. FollowsUp(c, i)'
                    BY <4>1, <5>1 DEF FollowsUp, GoesOn
                <5> QED BY <5>2 DEF FollowedUp
            <4>3. CASE ~(cycle[c].score >= 1)
                BY <2>0, <4>1, <4>3 DEF FollowedUp, Poll
            <4> QED BY <4>2, <4>3
        <3> QED BY <3>4, <3>5
    <2>3. CASE cycle[c].step = "deep"
        <3>1. DeepPass(c)
            BY <1>3, <2>3 DEF Work, StartPoll, StartSource, TakeItem, Summarize, mark_polled,
               record_content, propose_task_candidate
        <3>2. /\ UNCHANGED <<interest_score, candidates, cut>> /\ deep' = deep \cup {h}
              /\ IF cycle[c].score >= 2 THEN cycle' = [cycle EXCEPT ![c].step = "propose"]
                 ELSE NextItem(c)
            BY <3>1 DEF DeepPass, is_task_worthy
        <3>3. OthersStand(c)
            BY <2>0, <3>2, GoesOnFacts, NextItemFacts DEF GoesOn, Steps
        <3>4. ASSUME FollowsUp(c, i), interest_score[i] \in 1..2
              PROVE  \/ FollowsUp(c, i)'
                     \/ i \in deep' /\ (interest_score[i] = 2 => candidates'[i] > 0)
            <4>1. CASE cycle[c].score >= 2
                <5>1. GoesOn(c, "propose") /\ cycle'[c].score = cycle[c].score
                    BY <2>0, <3>2, <4>1, GoesOnFacts DEF Steps
                <5> QED BY <3>2, <3>4, <5>1 DEF FollowsUp, GoesOn
            <4>2. CASE ~(cycle[c].score >= 2)
                BY <3>2, <3>4, <4>2 DEF FollowsUp
            <4> QED BY <4>1, <4>2
        <3> QED BY <1>1, <3>2, <3>3, <3>4, FollowedUpStays
    <2>4. CASE cycle[c].step = "propose"
        <3>1. propose_task_candidate(c)
            BY <1>3, <2>4 DEF Work, StartPoll, StartSource, TakeItem, Summarize, mark_polled,
               record_content, DeepPass
        <3>2. /\ UNCHANGED <<interest_score, deep, cut>> /\ NextItem(c)
              /\ candidates' = [candidates EXCEPT ![h] = @ + 1]
            BY <3>1 DEF propose_task_candidate
        <3>3. OthersStand(c) /\ h \in deep
            BY <2>0, <2>4, <3>2, NextItemFacts DEF Carries
        <3>4. candidates'[i] >= candidates[i] /\ (i = h => candidates'[i] > 0)
            BY <2>0, <3>2
        <3>5. FollowsUp(c, i) => i \in deep' /\ candidates'[i] > 0
            BY <3>2, <3>3, <3>4 DEF FollowsUp
        <3> QED BY <1>1, <2>0, <3>2, <3>3, <3>4, <3>5, FollowedUpStays
    <2> QED BY <2>1, <2>2, <2>3, <2>4
<1>4. ASSUME NEW c \in Cycles, Fails(c) PROVE FollowedUp(i)'
    <2>0. PollTypeOK /\ cycle[c] \in Poll
        BY PollType DEF PollTyped
    <2>1. UNCHANGED <<interest_score, deep, candidates>>
        BY <1>4 DEF Fails, FeedFails, SourceFails, ItemFails, Crash, stores
    <2>2. OthersStand(c)
        <3>1. SourceFails(c) => OthersStand(c)
            <4>1. cycle[c].todo \ {NextSource(cycle[c].todo)} \in SUBSET Sources
                BY <2>0 DEF Poll
            <4> QED BY <2>0, <4>1, TurnToFacts DEF SourceFails
        <3>2. FeedFails(c) \/ ItemFails(c) \/ Crash(c) => OthersStand(c)
            BY <2>0, FeedFailsFacts, NextItemFacts, CrashFacts DEF ItemFails
        <3> QED BY <1>4, <3>1, <3>2 DEF Fails
    <2>3. cut \subseteq cut' /\ (FollowsUp(c, i) => i \in cut')
        BY <1>4 DEF Fails, FeedFails, SourceFails, ItemFails, Crash, CutShort, FollowsUp
    <2> QED BY <1>1, <2>1, <2>2, <2>3, FollowedUpStays
<1> QED BY <1>2, <1>3, <1>4 DEF PollNext, World, Fails

\* Whatever two overlapping cycles record, take and skip: when no cycle has an item
\* in hand, the deep pass and the proposal that its recorded score calls for are
\* done, or a failure cut the pass short.
THEOREM RecordedItemsGetTheirPass == PollSpec => []RecordedItemsAreFollowedUp
<1> DEFINE Inv == PollTyped /\ PassesEnd
<1>1. PollInit => Inv
    <2>1. PollInit => PassesEnd
        BY PollAssumption DEF PollInit, PassesEnd, FollowedUp
    <2> QED BY <2>1, PollTypedInit
<1>2. Inv /\ [PollNext]_pollVars => Inv'
    BY PollTypedStep, FollowStep
<1>3. Inv => RecordedItemsAreFollowedUp
    BY DEF PassesEnd, FollowedUp, FollowsUp, RecordedItemsAreFollowedUp, InHand
<1> QED BY <1>1, <1>2, <1>3, PTL DEF PollSpec
=============================================================================

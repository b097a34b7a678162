------------------------ MODULE OutreachPipelineProofs ------------------------
(***************************************************************************)
(* Proofs about OutreachPipeline for every set of firms, every ceiling and *)
(* every number of concurrent decisions: its types, what a Gate 0 and a    *)
(* Gate 1 yes leave behind, that no firm is worked twice, and how far the  *)
(* capacity can be passed.                                                 *)
(***************************************************************************)
EXTENDS OutreachPipeline, FiniteSetTheorems, TLAPS

-----------------------------------------------------------------------------
(* The inductive invariant *)

\* A decision that passed its checks is about to admit a target that was ready.
AdmitsReady == \A i \in Decisions : At(i, "admit") => ready[op[i].firm]

\* One about to accept read a row the agent had scored.
AcceptsScored == \A i \in Decisions : At(i, "accept") => proposal[op[i].firm] # "missing"

IInv == TypeOK /\ AcceptedIsPromoted /\ SlotsHoldArcs /\ AdmitsReady /\ AcceptsScored

\* A decision in progress names a firm and a gate.
LEMMA OperationFacts ==
    ASSUME TypeOK, NEW i \in Decisions, op[i] # Idle
    PROVE  op[i] \in Operation /\ op[i].firm \in Firms
BY DEF TypeOK, Operation

\* Freeing a slot touches no other and adds no admission.
LEMMA FinishFacts ==
    ASSUME TypeOK, NEW i \in Decisions, Finish(i)
    PROVE  /\ op' \in [Decisions -> Operation \cup {Idle}]
           /\ op'[i] = Idle /\ \A j \in Decisions \ {i} : op'[j] = op[j]
BY DEF TypeOK, Finish

\* Moving one to another program counter keeps its firm.
LEMMA MoveFacts ==
    ASSUME TypeOK, NEW i \in Decisions, NEW pc \in {"accept", "start", "admit"},
           op[i] # Idle, op' = [op EXCEPT ![i].pc = pc]
    PROVE  /\ op' \in [Decisions -> Operation \cup {Idle}]
           /\ op'[i] \in Operation /\ op'[i].pc = pc /\ op'[i].firm = op[i].firm
           /\ \A j \in Decisions \ {i} : op'[j] = op[j]
<1>1. op[i] \in Operation
    BY OperationFacts
<1>2. /\ op'[i] = [op[i] EXCEPT !.pc = pc]
      /\ \A j \in Decisions \ {i} : op'[j] = op[j]
    BY DEF TypeOK
<1>3. op'[i] \in Operation /\ op'[i].pc = pc /\ op'[i].firm = op[i].firm
    BY <1>1, <1>2 DEF Operation
<1> QED BY <1>2, <1>3 DEF TypeOK

\* Opening one.
LEMMA OpenFacts ==
    ASSUME TypeOK, NEW i \in Decisions, NEW pc \in {"accept", "admit"}, NEW f \in Firms,
           NEW gate \in {0, 1}, op' = [op EXCEPT ![i] = [pc |-> pc, firm |-> f, gate |-> gate]]
    PROVE  /\ op' \in [Decisions -> Operation \cup {Idle}]
           /\ op'[i] \in Operation /\ op'[i].pc = pc /\ op'[i].firm = f
           /\ \A j \in Decisions \ {i} : op'[j] = op[j]
<1>1. [pc |-> pc, firm |-> f, gate |-> gate] \in Operation
    BY DEF Operation
<1> QED BY <1>1 DEF TypeOK

-----------------------------------------------------------------------------
(* Type correctness *)

\* The pipeline starts well typed.
LEMMA TypeOKInit == Init => TypeOK
BY DEF Init, TypeOK, Treatments

\* Every step keeps the types; an acceptance copies scores that exist.
LEMMA TypeOKStep == TypeOK /\ AcceptsScored /\ [Next]_vars => TypeOK'
<1> SUFFICES ASSUME TypeOK, AcceptsScored, [Next]_vars PROVE TypeOK'
    OBVIOUS
<1> USE DEF poolVars, targetVars
<1>1. ASSUME NEW i \in Decisions, Decide(i) PROVE TypeOK'
    <2>1. ASSUME NEW f \in Firms, StartApprove(i, f) PROVE TypeOK'
        BY <2>1, OpenFacts DEF StartApprove, TypeOK
    <2>2. ASSUME NEW f \in Firms, ClickWork(i, f) PROVE TypeOK'
        BY <2>2, OpenFacts DEF ClickWork, TypeOK
    <2>3. CASE approve(i)
        <3>1. op' \in [Decisions -> Operation \cup {Idle}]
            BY <2>3, MoveFacts DEF approve, At
        <3>2. op[i].firm \in Firms
            BY <2>3, OperationFacts DEF approve, At
        <3>3. /\ status' \in [Firms -> {"absent", "candidate", "in_sequence", "watchlist", "dropped"}]
              /\ decision' \in [Firms -> {"none", "accept", "reject"}]
              /\ promoted' \in [Firms -> BOOLEAN]
            BY <2>3, <3>2 DEF approve, Upserted, TypeOK
        <3>4. ready' \in [Firms -> BOOLEAN]
            BY <2>3 DEF approve, TypeOK
        <3>5. treatment' \in [Firms -> {"unscored"} \cup Treatments]
            <4>1. CASE Upserted(op[i].firm) # "candidate"
                BY <2>3, <4>1 DEF approve, TypeOK
            <4>2. CASE treatment' = [treatment EXCEPT ![op[i].firm] = proposal[op[i].firm]]
                <5>1. proposal[op[i].firm] \in Treatments
                    BY <2>3, <3>2 DEF approve, AcceptsScored, TypeOK
                <5> QED BY <4>2, <5>1 DEF TypeOK
            <4> QED BY <2>3, <4>1, <4>2 DEF approve
        <3> QED BY <2>3, <3>1, <3>3, <3>4, <3>5 DEF approve, TypeOK
    <2>4. CASE ApproveLost(i)
        BY <2>4, FinishFacts DEF ApproveLost, TypeOK
    <2>5. CASE StartSequence(i)
        BY <2>5, MoveFacts DEF StartSequence, At, TypeOK
    <2>6. CASE NotStarted(i)
        BY <2>6, FinishFacts DEF NotStarted, TypeOK
    <2>7. CASE decide_work(i)
        <3>1. PICK touches \in {"open", "resolved"} : arc' = [arc EXCEPT ![op[i].firm] = touches]
            BY <2>7 DEF decide_work
        <3>2. arc' \in [Firms -> {"none", "open", "resolved"}]
            BY <3>1 DEF TypeOK
        <3> QED BY <2>7, <3>2, FinishFacts DEF decide_work, TypeOK
    <2>8. CASE AdmitLost(i)
        BY <2>8, FinishFacts DEF AdmitLost, TypeOK
    <2>9. CASE Interrupt(i)
        BY <2>9, FinishFacts DEF Interrupt, TypeOK
    <2> QED BY <1>1, <2>1, <2>2, <2>3, <2>4, <2>5, <2>6, <2>7, <2>8, <2>9 DEF Decide
<1>2. ASSUME NEW f \in Firms, FirmStep(f) PROVE TypeOK'
    <2>1. CASE reject(f)
        BY <2>1 DEF reject, TypeOK
    <2>2. CASE watchlist(f)
        BY <2>2 DEF watchlist, TypeOK
    <2>3. CASE drop(f)
        BY <2>3 DEF drop, TypeOK
    <2>4. CASE PostCard(f)
        BY <2>4 DEF PostCard, list_undelivered, mark_posted, TypeOK
    <2>5. CASE Propose(f)
        BY <2>5 DEF Propose, TypeOK
    <2>6. CASE upsert_target(f)
        BY <2>6 DEF upsert_target, TypeOK
    <2>7. CASE Rescore(f)
        BY <2>7 DEF Rescore, TypeOK
    <2>8. CASE ResolveTouches(f)
        BY <2>8 DEF ResolveTouches, TypeOK
    <2>9. CASE run_drain(f)
        BY <2>9 DEF run_drain, TypeOK
    <2> QED BY <1>2, <2>1, <2>2, <2>3, <2>4, <2>5, <2>6, <2>7, <2>8, <2>9 DEF FirmStep
<1>3. CASE UNCHANGED vars
    BY <1>3 DEF vars, TypeOK
<1> QED BY <1>1, <1>2, <1>3 DEF Next

-----------------------------------------------------------------------------
(* What the two gates leave behind *)

\* The gate parts of the invariant speak of the decisions, the targets and the
\* decisions in progress; a step that frees or opens a slot and changes none of
\* the rest keeps them.
GatesInv == AcceptedIsPromoted /\ SlotsHoldArcs /\ AdmitsReady /\ AcceptsScored

\* A step that only moves one decision along keeps the gates, if that decision is sound.
LEMMA GatesKept ==
    ASSUME TypeOK, GatesInv, NEW i \in Decisions,
           \A j \in Decisions \ {i} : op'[j] = op[j],
           op'[i] # Idle =>
               /\ op'[i].pc = "admit" => ready[op'[i].firm]
               /\ op'[i].pc = "accept" => proposal[op'[i].firm] # "missing",
           UNCHANGED <<poolVars, targetVars>>
    PROVE  GatesInv'
<1>1. AcceptedIsPromoted' /\ SlotsHoldArcs'
    BY DEF GatesInv, AcceptedIsPromoted, SlotsHoldArcs, poolVars, targetVars
<1>2. ready' = ready /\ proposal' = proposal
    BY DEF poolVars, targetVars
<1>3. ASSUME NEW j \in Decisions
      PROVE  /\ At(j, "admit")' => ready'[op'[j].firm]
             /\ At(j, "accept")' => proposal'[op'[j].firm] # "missing"
    <2>1. CASE j = i
        BY <1>2, <2>1 DEF At
    <2>2. CASE j # i
        BY <1>2, <2>2 DEF At, GatesInv, AdmitsReady, AcceptsScored
    <2> QED BY <2>1, <2>2
<1>4. AdmitsReady' /\ AcceptsScored'
    BY <1>3 DEF AdmitsReady, AcceptsScored
<1> QED BY <1>1, <1>4 DEF GatesInv

\* The seeded sequences satisfy the gates.
LEMMA GatesInit == Init => GatesInv
<1> SUFFICES ASSUME Init PROVE GatesInv
    OBVIOUS
<1>1. AcceptedIsPromoted
    BY DEF Init, AcceptedIsPromoted
<1>2. SlotsHoldArcs
    BY DEF Init, SlotsHoldArcs
<1>3. AdmitsReady /\ AcceptsScored
    BY DEF Init, AdmitsReady, AcceptsScored, At
<1> QED BY <1>1, <1>2, <1>3 DEF GatesInv

\* Every step of both gates, the rescore and the drain keeps them.
LEMMA GatesStep == TypeOK /\ GatesInv /\ [Next]_vars => GatesInv'
<1> SUFFICES ASSUME TypeOK, GatesInv, [Next]_vars PROVE GatesInv'
    OBVIOUS
<1>1. ASSUME NEW i \in Decisions, Decide(i) PROVE GatesInv'
    <2>1. ASSUME NEW f \in Firms, StartApprove(i, f) PROVE GatesInv'
        <3>1. /\ op'[i].pc = "accept" /\ op'[i].firm = f
              /\ \A j \in Decisions \ {i} : op'[j] = op[j]
            BY <2>1, OpenFacts DEF StartApprove
        <3> QED BY <2>1, <3>1, GatesKept DEF StartApprove
    <2>2. ASSUME NEW f \in Firms, ClickWork(i, f) PROVE GatesInv'
        <3>1. /\ op'[i].pc = "admit" /\ op'[i].firm = f
              /\ \A j \in Decisions \ {i} : op'[j] = op[j]
            BY <2>2, OpenFacts DEF ClickWork
        <3> QED BY <2>2, <3>1, GatesKept DEF ClickWork, CheckWork
    <2>3. CASE approve(i)
        <3> DEFINE f == op[i].firm
        <3>1. /\ f \in Firms /\ op'[i].pc = "start"
              /\ \A j \in Decisions \ {i} : op'[j] = op[j]
            BY <2>3, OperationFacts, MoveFacts DEF approve, At
        <3>2. /\ decision' = [decision EXCEPT ![f] = "accept"]
              /\ promoted' = [promoted EXCEPT ![f] = TRUE]
              /\ status' = [status EXCEPT ![f] = Upserted(f)]
              /\ ready' = ready \/ ready' = [ready EXCEPT ![f] = TRUE]
              /\ arc' = arc /\ proposal' = proposal
            BY <2>3 DEF approve
        <3>3. Upserted(f) # "absent" /\ (Upserted(f) = status[f] \/ status[f] = "absent")
              /\ (Upserted(f) = "candidate" \/ Upserted(f) = status[f])
            BY DEF Upserted
        <3> HIDE DEF f
        <3>4. AcceptedIsPromoted'
            BY <3>1, <3>2, <3>3 DEF GatesInv, AcceptedIsPromoted, TypeOK
        <3>5. \A g \in Firms : ready[g] => ready'[g]
            BY <3>1, <3>2 DEF TypeOK
        <3>6. SlotsHoldArcs'
            BY <3>1, <3>2, <3>3, <3>5 DEF GatesInv, SlotsHoldArcs, TypeOK
        <3>7. AdmitsReady' /\ AcceptsScored'
            BY <3>1, <3>2, <3>5, OperationFacts DEF GatesInv, AdmitsReady, AcceptsScored, At
        <3> QED BY <3>4, <3>6, <3>7 DEF GatesInv
    <2>4. CASE ApproveLost(i)
        <3>1. Finish(i) /\ UNCHANGED <<poolVars, targetVars>>
            BY <2>4 DEF ApproveLost
        <3>2. op'[i] = Idle /\ \A j \in Decisions \ {i} : op'[j] = op[j]
            BY <3>1, FinishFacts
        <3> QED BY <3>1, <3>2, GatesKept
    <2>5. CASE StartSequence(i)
        <3>1. /\ op'[i].pc = "admit" /\ op'[i].firm = op[i].firm
              /\ \A j \in Decisions \ {i} : op'[j] = op[j]
            BY <2>5, MoveFacts DEF StartSequence, At
        <3> QED BY <2>5, <3>1, GatesKept DEF StartSequence, CheckWork
    <2>6. CASE NotStarted(i)
        <3>1. Finish(i) /\ UNCHANGED <<poolVars, targetVars>>
            BY <2>6 DEF NotStarted
        <3>2. op'[i] = Idle /\ \A j \in Decisions \ {i} : op'[j] = op[j]
            BY <3>1, FinishFacts
        <3> QED BY <3>1, <3>2, GatesKept
    <2>7. CASE decide_work(i)
        <3> DEFINE f == op[i].firm
        <3>1. /\ f \in Firms /\ op'[i] = Idle /\ ready[f] /\ status[f] = "candidate"
              /\ \A j \in Decisions \ {i} : op'[j] = op[j]
            BY <2>7, OperationFacts, FinishFacts DEF decide_work, At, GatesInv, AdmitsReady
        <3>2. PICK touches \in {"open", "resolved"} : arc' = [arc EXCEPT ![f] = touches]
            BY <2>7 DEF decide_work
        <3>3. /\ status' = [status EXCEPT ![f] = "in_sequence"] /\ ready' = ready
              /\ decision' = decision /\ promoted' = promoted /\ proposal' = proposal
            BY <2>7 DEF decide_work, poolVars
        <3> HIDE DEF f
        <3>4. AcceptedIsPromoted'
            BY <3>1, <3>3 DEF GatesInv, AcceptedIsPromoted, TypeOK
        <3>5. SlotsHoldArcs'
            BY <3>1, <3>2, <3>3 DEF GatesInv, SlotsHoldArcs, TypeOK
        <3>6. AdmitsReady' /\ AcceptsScored'
            BY <3>1, <3>3 DEF GatesInv, AdmitsReady, AcceptsScored, At
        <3> QED BY <3>4, <3>5, <3>6 DEF GatesInv
    <2>8. CASE AdmitLost(i)
        <3>1. Finish(i) /\ UNCHANGED <<poolVars, targetVars>>
            BY <2>8 DEF AdmitLost
        <3>2. op'[i] = Idle /\ \A j \in Decisions \ {i} : op'[j] = op[j]
            BY <3>1, FinishFacts
        <3> QED BY <3>1, <3>2, GatesKept
    <2>9. CASE Interrupt(i)
        <3>1. Finish(i) /\ UNCHANGED <<poolVars, targetVars>>
            BY <2>9 DEF Interrupt
        <3>2. op'[i] = Idle /\ \A j \in Decisions \ {i} : op'[j] = op[j]
            BY <3>1, FinishFacts
        <3> QED BY <3>1, <3>2, GatesKept
    <2> QED BY <1>1, <2>1, <2>2, <2>3, <2>4, <2>5, <2>6, <2>7, <2>8, <2>9 DEF Decide
<1>2. ASSUME NEW f \in Firms, FirmStep(f) PROVE GatesInv'
    <2> USE DEF poolVars, targetVars
    <2>1. CASE reject(f)
        BY <2>1 DEF reject, TypeOK, GatesInv, AcceptedIsPromoted, SlotsHoldArcs,
                    AdmitsReady, AcceptsScored, At
    <2>2. CASE watchlist(f)
        BY <2>2 DEF watchlist, TypeOK, GatesInv, AcceptedIsPromoted, SlotsHoldArcs,
                    AdmitsReady, AcceptsScored, At
    <2>3. CASE drop(f)
        BY <2>3 DEF drop, TypeOK, GatesInv, AcceptedIsPromoted, SlotsHoldArcs,
                    AdmitsReady, AcceptsScored, At
    <2>4. CASE PostCard(f)
        BY <2>4 DEF PostCard, list_undelivered, mark_posted, GatesInv, AcceptedIsPromoted, SlotsHoldArcs,
                    AdmitsReady, AcceptsScored, At
    <2>5. CASE Propose(f)
        <3>1. \A g \in Firms : proposal[g] # "missing" => proposal'[g] # "missing"
            BY <2>5 DEF Propose, TypeOK, Treatments
        <3>2. AcceptsScored'
            BY <2>5, <3>1, OperationFacts DEF Propose, GatesInv, AcceptsScored, At
        <3> QED BY <2>5, <3>2 DEF Propose, GatesInv, AcceptedIsPromoted, SlotsHoldArcs,
                                  AdmitsReady, At
    <2>6. CASE upsert_target(f)
        BY <2>6 DEF upsert_target, TypeOK, GatesInv, AcceptedIsPromoted, SlotsHoldArcs,
                    AdmitsReady, AcceptsScored, At
    <2>7. CASE Rescore(f)
        <3>1. \A g \in Firms : ready[g] => ready'[g]
            BY <2>7 DEF Rescore, TypeOK
        <3>2. AdmitsReady' /\ SlotsHoldArcs'
            BY <2>7, <3>1, OperationFacts DEF Rescore, GatesInv, AdmitsReady, SlotsHoldArcs, At
        <3> QED BY <2>7, <3>2 DEF Rescore, GatesInv, AcceptedIsPromoted, AcceptsScored, At
    <2>8. CASE ResolveTouches(f)
        BY <2>8 DEF ResolveTouches, TypeOK, GatesInv, AcceptedIsPromoted, SlotsHoldArcs,
                    AdmitsReady, AcceptsScored, At
    <2>9. CASE run_drain(f)
        BY <2>9 DEF run_drain, TypeOK, GatesInv, AcceptedIsPromoted, SlotsHoldArcs,
                    AdmitsReady, AcceptsScored, At
    <2> QED BY <1>2, <2>1, <2>2, <2>3, <2>4, <2>5, <2>6, <2>7, <2>8, <2>9 DEF FirmStep
<1>3. CASE UNCHANGED vars
    BY <1>3 DEF vars, poolVars, targetVars, GatesInv, AcceptedIsPromoted, SlotsHoldArcs,
                AdmitsReady, AcceptsScored, At
<1> QED BY <1>1, <1>2, <1>3 DEF Next

\* The strengthened invariant holds at the start.
LEMMA IInvInit == Init => IInv
BY TypeOKInit, GatesInit DEF IInv, GatesInv

\* And it is inductive.
LEMMA IInvStep == IInv /\ [Next]_vars => IInv'
BY TypeOKStep, GatesStep DEF IInv, GatesInv

\* The pool, the targets and the decisions in progress keep their types.
THEOREM PipelineTyped == Spec => []TypeOK
<1>1. IInv => TypeOK
    BY DEF IInv
<1> QED BY <1>1, IInvInit, IInvStep, PTL DEF Spec

\* A Gate 0 yes is recorded whole: accepted exactly when promoted, and then with a
\* target, wherever the decisions in progress are interrupted.
THEOREM PipelineAcceptedIsPromoted == Spec => []AcceptedIsPromoted
<1>1. IInv => AcceptedIsPromoted
    BY DEF IInv
<1> QED BY <1>1, IInvInit, IInvStep, PTL DEF Spec

\* A target that holds a capacity slot has its touches and was ready for them.
THEOREM PipelineSlotsHoldArcs == Spec => []SlotsHoldArcs
<1>1. IInv => SlotsHoldArcs
    BY DEF IInv
<1> QED BY <1>1, IInvInit, IInvStep, PTL DEF Spec

-----------------------------------------------------------------------------
(* No firm is worked twice *)

\* What NeverWorkedTwice asks of one firm's step.
OnceOnly(f) ==
    /\ status[f] \notin {"absent", "candidate"} => status'[f] \in {status[f], "watchlist"}
    /\ status[f] \in {"watchlist", "dropped"} => status'[f] = status[f]
    /\ arc[f] = "resolved" => arc'[f] = "resolved"
    /\ decision[f] # "none" => decision'[f] = decision[f]

\* No step puts a firm in a sequence that has been in one.
LEMMA OnceOnlyStep == TypeOK /\ SlotsHoldArcs /\ [Next]_vars => \A f \in Firms : OnceOnly(f)
<1> SUFFICES ASSUME TypeOK, SlotsHoldArcs, [Next]_vars, NEW f \in Firms PROVE OnceOnly(f)
    OBVIOUS
<1> USE DEF poolVars, targetVars
<1>1. ASSUME UNCHANGED <<status, arc, decision>> PROVE OnceOnly(f)
    BY <1>1 DEF OnceOnly
<1>2. ASSUME NEW i \in Decisions, Decide(i) PROVE OnceOnly(f)
    <2>1. ASSUME NEW g \in Firms, StartApprove(i, g) \/ ClickWork(i, g) PROVE OnceOnly(f)
        BY <1>1, <2>1 DEF StartApprove, ClickWork
    <2>2. CASE approve(i)
        BY <2>2 DEF approve, Upserted, OnceOnly, TypeOK
    <2>3. CASE ApproveLost(i) \/ StartSequence(i) \/ NotStarted(i) \/ AdmitLost(i)
               \/ Interrupt(i)
        BY <1>1, <2>3 DEF ApproveLost, StartSequence, NotStarted, AdmitLost, Interrupt
    <2>4. CASE decide_work(i)
        <3>1. PICK touches : arc' = [arc EXCEPT ![op[i].firm] = touches]
            BY <2>4 DEF decide_work
        <3>2. /\ op[i].firm \in Firms /\ status[op[i].firm] = "candidate"
              /\ arc[op[i].firm] = "none"
              /\ status' = [status EXCEPT ![op[i].firm] = "in_sequence"]
              /\ decision' = decision
            BY <2>4, OperationFacts DEF decide_work, At, SlotsHoldArcs
        <3> QED BY <3>1, <3>2 DEF OnceOnly, TypeOK
    <2> QED BY <1>2, <2>1, <2>2, <2>3, <2>4 DEF Decide
<1>3. ASSUME NEW g \in Firms, FirmStep(g) PROVE OnceOnly(f)
    <2>1. CASE reject(g)
        BY <2>1 DEF reject, OnceOnly, TypeOK
    <2>2. CASE watchlist(g)
        BY <2>2 DEF watchlist, OnceOnly, TypeOK
    <2>3. CASE drop(g)
        BY <2>3 DEF drop, OnceOnly, TypeOK
    <2>4. CASE PostCard(g) \/ Propose(g) \/ Rescore(g)
        BY <1>1, <2>4 DEF PostCard, list_undelivered, mark_posted, Propose, Rescore
    <2>5. CASE upsert_target(g)
        BY <2>5 DEF upsert_target, OnceOnly, TypeOK
    <2>6. CASE ResolveTouches(g)
        BY <2>6 DEF ResolveTouches, OnceOnly, TypeOK
    <2>7. CASE run_drain(g)
        BY <2>7 DEF run_drain, OnceOnly, TypeOK
    <2> QED BY <1>3, <2>1, <2>2, <2>3, <2>4, <2>5, <2>6, <2>7 DEF FirmStep
<1>4. CASE UNCHANGED vars
    BY <1>1, <1>4 DEF vars
<1> QED BY <1>2, <1>3, <1>4 DEF Next

\* No step returns a target to candidate, restarts a finished arc or revises a
\* Gate 0 decision.
THEOREM PipelineNeverWorkedTwice == Spec => NeverWorkedTwice
<1>1. IInv /\ [Next]_vars =>
          [\A f \in Firms :
              /\ status[f] \notin {"absent", "candidate"} =>
                    status'[f] \in {status[f], "watchlist"}
              /\ status[f] \in {"watchlist", "dropped"} => status'[f] = status[f]
              /\ arc[f] = "resolved" => arc'[f] = "resolved"
              /\ decision[f] # "none" => decision'[f] = decision[f]]_vars
    BY OnceOnlyStep DEF IInv, OnceOnly
<1> QED BY <1>1, IInvInit, IInvStep, PTL DEF Spec, NeverWorkedTwice

-----------------------------------------------------------------------------
(* How far the capacity is passed *)

\* The live sequences on a firm's meter, and the decisions that passed the check
\* for it and have not committed.
LiveOn(f) == {g \in Meter(f) : status[g] \in Live}
Admitting(f) == {i \in Decisions : At(i, "admit") /\ op[i].firm \in Meter(f)}

\* Each live sequence and each admission still to commit was let in below the
\* ceiling.
HasSlack(f) ==
    Cardinality(LiveOn(f)) + Cardinality(Admitting(f)) < Ceiling(f) + Cardinality(Decisions)
Slack == \A f \in Firms : HasSlack(f)

\* The sets counted are finite, whatever the state.
LEMMA CountFacts ==
    ASSUME NEW f \in Firms
    PROVE  /\ Meter(f) \subseteq Firms /\ Ceiling(f) \in Nat \ {0}
           /\ IsFiniteSet(LiveOn(f)) /\ IsFiniteSet(LiveOn(f)')
           /\ IsFiniteSet(Admitting(f)) /\ IsFiniteSet(Admitting(f)')
           /\ Cardinality(LiveOn(f)) \in Nat /\ Cardinality(LiveOn(f)') \in Nat
           /\ Cardinality(Admitting(f)) \in Nat /\ Cardinality(Admitting(f)') \in Nat
           /\ Cardinality(Decisions) \in Nat \ {0}
           /\ Cardinality(Admitting(f)') <= Cardinality(Decisions)
<1>1. Meter(f) \subseteq Firms /\ Ceiling(f) \in Nat \ {0}
    BY PipelineAssumption DEF Meter, Ceiling
<1>2. /\ LiveOn(f) \subseteq Firms /\ LiveOn(f)' \subseteq Firms
      /\ Admitting(f) \subseteq Decisions /\ Admitting(f)' \subseteq Decisions
    BY <1>1 DEF LiveOn, Admitting
<1>3. /\ IsFiniteSet(LiveOn(f)) /\ IsFiniteSet(LiveOn(f)')
      /\ IsFiniteSet(Admitting(f)) /\ IsFiniteSet(Admitting(f)')
      /\ Cardinality(Admitting(f)') <= Cardinality(Decisions)
    BY <1>2, FS_Subset, PipelineAssumption
<1>4. Cardinality(Decisions) \in Nat \ {0}
    BY FS_CardinalityType, FS_EmptySet, PipelineAssumption
<1> QED BY <1>1, <1>3, <1>4, FS_CardinalityType

\* A step that starts no sequence and lets no decision past the check keeps the
\* slack.
LEMMA SlackKept ==
    ASSUME NEW f \in Firms, HasSlack(f),
           LiveOn(f)' \subseteq LiveOn(f), Admitting(f)' \subseteq Admitting(f)
    PROVE  HasSlack(f)'
<1>1. /\ Cardinality(LiveOn(f)') <= Cardinality(LiveOn(f))
      /\ Cardinality(Admitting(f)') <= Cardinality(Admitting(f))
    BY CountFacts, FS_Subset
<1>2. Ceiling(f)' = Ceiling(f)
    BY DEF Ceiling
<1> QED BY <1>1, <1>2, CountFacts DEF HasSlack

\* A decision passes the check only while the meter is below its ceiling.
LEMMA SlackAtAdmission ==
    ASSUME NEW f \in Firms, NEW g \in Firms, HasSlack(f), ~capacity_blocks(g),
           status' = status, Admitting(f)' \subseteq Admitting(f) \/ g \in Meter(f)
    PROVE  HasSlack(f)'
<1>1. LiveOn(f)' = LiveOn(f)
    BY DEF LiveOn
<1>2. CASE g \in Meter(f)
    <2>1. Meter(g) = Meter(f) /\ Ceiling(g) = Ceiling(f)
        BY <1>2 DEF Meter, Ceiling
    <2>2. Cardinality(LiveOn(f)) < Ceiling(f)
        BY <2>1, CountFacts DEF capacity_blocks, LiveIn, LiveOn
    <2>3. Ceiling(f)' = Ceiling(f)
        BY DEF Ceiling
    <2> QED BY <1>1, <2>2, <2>3, CountFacts DEF HasSlack
<1> QED BY <1>1, <1>2, SlackKept

\* At the start no meter is past its ceiling.
LEMMA SlackInit == Init => Slack
<1> SUFFICES ASSUME Init, NEW f \in Firms PROVE HasSlack(f)
    BY DEF Slack
<1>1. LiveOn(f) = Seeded \cap Meter(f) /\ Admitting(f) = {}
    BY CountFacts, PipelineAssumption DEF Init, LiveOn, Live, Admitting, At
<1>2. Cardinality(Seeded \cap Meter(f)) <= Ceiling(f)
    BY PipelineAssumption DEF Meter, Ceiling
<1>3. Cardinality(Admitting(f)) = 0
    BY <1>1, FS_EmptySet
<1>4. Cardinality(LiveOn(f)) <= Ceiling(f)
    BY <1>1, <1>2
<1>5. /\ Cardinality(LiveOn(f)) \in Nat /\ Ceiling(f) \in Nat
      /\ Cardinality(Decisions) \in Nat \ {0}
    BY CountFacts
<1> QED BY <1>3, <1>4, <1>5 DEF HasSlack

\* Every step keeps live sequences and admissions in progress within the slack.
LEMMA SlackStep == TypeOK /\ Slack /\ [Next]_vars => Slack'
<1> SUFFICES ASSUME TypeOK, [Next]_vars, NEW f \in Firms, HasSlack(f) PROVE HasSlack(f)'
    BY DEF Slack
<1> USE DEF poolVars, targetVars
<1>1. ASSUME status' = status, op' = op PROVE HasSlack(f)'
    BY <1>1, SlackKept DEF LiveOn, Admitting, At
<1>2. ASSUME NEW i \in Decisions, \A j \in Decisions \ {i} : op'[j] = op[j],
             op'[i] = Idle \/ op'[i].pc # "admit"
      PROVE  Admitting(f)' \subseteq Admitting(f)
    BY <1>2 DEF Admitting, At
<1>3. ASSUME NEW i \in Decisions, status' = status, Finish(i) PROVE HasSlack(f)'
    <2>1. Admitting(f)' \subseteq Admitting(f)
        BY <1>2, <1>3, FinishFacts
    <2> QED BY <1>3, <2>1, SlackKept DEF LiveOn
<1>4. ASSUME NEW i \in Decisions, Decide(i) PROVE HasSlack(f)'
    <2>1. ASSUME NEW g \in Firms, StartApprove(i, g) PROVE HasSlack(f)'
        <3>1. op'[i].pc = "accept" /\ \A j \in Decisions \ {i} : op'[j] = op[j]
            BY <2>1, OpenFacts DEF StartApprove
        <3>2. Admitting(f)' \subseteq Admitting(f)
            BY <1>2, <3>1
        <3> QED BY <2>1, <3>2, SlackKept DEF StartApprove, LiveOn
    <2>2. ASSUME NEW g \in Firms, ClickWork(i, g) PROVE HasSlack(f)'
        <3>1. op'[i].firm = g /\ \A j \in Decisions \ {i} : op'[j] = op[j]
            BY <2>2, OpenFacts DEF ClickWork
        <3>2. Admitting(f)' \subseteq Admitting(f) \/ g \in Meter(f)
            BY <3>1 DEF Admitting, At, Meter
        <3> QED BY <2>2, <3>2, SlackAtAdmission DEF ClickWork, CheckWork
    <2>3. CASE approve(i)
        <3>1. /\ op[i].firm \in Firms /\ op'[i].pc = "start"
              /\ \A j \in Decisions \ {i} : op'[j] = op[j]
            BY <2>3, OperationFacts, MoveFacts DEF approve, At
        <3>2. Admitting(f)' \subseteq Admitting(f)
            BY <1>2, <3>1
        <3>3. \A g \in Firms : status'[g] \in Live => status[g] \in Live
            BY <2>3, <3>1 DEF approve, Upserted, Live, TypeOK
        <3>4. LiveOn(f)' \subseteq LiveOn(f)
            BY <3>3, CountFacts DEF LiveOn, Meter
        <3> QED BY <3>2, <3>4, SlackKept
    <2>4. CASE ApproveLost(i) \/ NotStarted(i) \/ AdmitLost(i) \/ Interrupt(i)
        BY <1>3, <2>4 DEF ApproveLost, NotStarted, AdmitLost, Interrupt
    <2>5. CASE StartSequence(i)
        <3>1. /\ op[i].firm \in Firms /\ op'[i].firm = op[i].firm
              /\ \A j \in Decisions \ {i} : op'[j] = op[j]
            BY <2>5, OperationFacts, MoveFacts DEF StartSequence, At
        <3>2. Admitting(f)' \subseteq Admitting(f) \/ op[i].firm \in Meter(f)
            BY <3>1 DEF Admitting, At, Meter
        <3> QED BY <2>5, <3>1, <3>2, SlackAtAdmission DEF StartSequence, CheckWork
    <2>6. CASE decide_work(i)
        <3> DEFINE g == op[i].firm
        <3>1. /\ g \in Firms /\ At(i, "admit") /\ status[g] = "candidate"
              /\ status' = [status EXCEPT ![g] = "in_sequence"]
              /\ op'[i] = Idle /\ \A j \in Decisions \ {i} : op'[j] = op[j]
            BY <2>6, OperationFacts, FinishFacts DEF decide_work, At
        <3>2. CASE g \in Meter(f)
            <4>1. i \in Admitting(f) /\ Admitting(f)' = Admitting(f) \ {i}
                BY <3>1, <3>2 DEF Admitting, At, Meter
            <4>2. g \notin LiveOn(f) /\ LiveOn(f)' = LiveOn(f) \cup {g}
                BY <3>1, <3>2, CountFacts DEF LiveOn, Live, Meter, TypeOK
            <4>3. Cardinality(Admitting(f)') = Cardinality(Admitting(f)) - 1
                <5>1. Cardinality(Admitting(f) \ {i}) = Cardinality(Admitting(f)) - 1
                    BY <4>1, CountFacts, FS_RemoveElement
                <5> QED BY <5>1, <4>1
            <4>4. Cardinality(LiveOn(f)') = Cardinality(LiveOn(f)) + 1
                BY <4>2, CountFacts, FS_AddElement
            <4>5. Ceiling(f)' = Ceiling(f)
                BY DEF Ceiling
            <4> QED BY <4>3, <4>4, <4>5, CountFacts DEF HasSlack
        <3>3. CASE g \notin Meter(f)
            <4>1. LiveOn(f)' \subseteq LiveOn(f)
                BY <3>1, <3>3, CountFacts DEF LiveOn, Meter, TypeOK
            <4>2. Admitting(f)' \subseteq Admitting(f)
                BY <1>2, <3>1
            <4> QED BY <4>1, <4>2, SlackKept
        <3> QED BY <3>2, <3>3
    <2> QED BY <1>4, <2>1, <2>2, <2>3, <2>4, <2>5, <2>6 DEF Decide
<1>5. ASSUME NEW g \in Firms, FirmStep(g) PROVE HasSlack(f)'
    <2>1. ASSUME op' = op, \A h \in Firms : status'[h] \in Live => status[h] \in Live
          PROVE  HasSlack(f)'
        <3>1. LiveOn(f)' \subseteq LiveOn(f)
            BY <2>1, CountFacts DEF LiveOn, Meter
        <3>2. Admitting(f)' \subseteq Admitting(f)
            BY <2>1 DEF Admitting, At
        <3> QED BY <3>1, <3>2, SlackKept
    <2>2. CASE reject(g) \/ PostCard(g) \/ Propose(g) \/ Rescore(g) \/ ResolveTouches(g)
        BY <1>1, <2>2 DEF reject, PostCard, mark_posted, Propose, Rescore, ResolveTouches
    <2>3. CASE watchlist(g)
        BY <2>1, <2>3 DEF watchlist, Live, TypeOK
    <2>4. CASE drop(g)
        BY <2>1, <2>4 DEF drop, Live, TypeOK
    <2>5. CASE upsert_target(g)
        BY <2>1, <2>5 DEF upsert_target, Live, TypeOK
    <2>6. CASE run_drain(g)
        BY <2>1, <2>6 DEF run_drain, Live, TypeOK
    <2> QED BY <1>5, <2>2, <2>3, <2>4, <2>5, <2>6 DEF FirmStep
<1>6. CASE UNCHANGED vars
    BY <1>1, <1>6 DEF vars
<1> QED BY <1>4, <1>5, <1>6 DEF Next

\* However the capacity checks and the admissions interleave, a meter is passed by
\* fewer live sequences than there are decisions in progress.
THEOREM PipelineOvershootBounded == Spec => []CapacityOvershootBounded
<1>1. Slack => CapacityOvershootBounded
    <2> SUFFICES ASSUME Slack, NEW f \in Firms
                 PROVE  LiveIn(Meter(f)) < Ceiling(f) + Cardinality(Decisions)
        BY DEF CapacityOvershootBounded
    <2>1. LiveIn(Meter(f)) = Cardinality(LiveOn(f)) /\ HasSlack(f)
        BY DEF LiveIn, LiveOn, Slack
    <2> QED BY <2>1, CountFacts DEF HasSlack
<1>2. TypeOK /\ Slack /\ [Next]_vars => Slack'
    BY SlackStep
<1> QED BY <1>1, <1>2, SlackInit, PipelineTyped, PTL DEF Spec
=============================================================================

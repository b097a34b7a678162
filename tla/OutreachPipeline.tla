-------------------------- MODULE OutreachPipeline --------------------------
(***************************************************************************)
(* A firm's way from the discovery pool to a five-touch sequence and out   *)
(* of it: Gate 0 (outreach_discovery.approve / decide), promotion to an    *)
(* outreach_targets row, Gate 1 (outreach_intake.decide) and the drain of  *)
(* the daily run. Decisions run in threads, one database statement or      *)
(* transaction at a time, so two of them interleave: what a decision read  *)
(* before its transaction may be stale inside it.                          *)
(***************************************************************************)
EXTENDS Naturals, FiniteSets

CONSTANTS
    Firms,          \* company domains
    Seeded,         \* those already in a sequence when the model starts
    Reengagement,   \* the firms metered as re-engagement (E1), not cold
    ColdCeiling,    \* v_outreach_capacity.cold_ceiling
    WarmCeiling,    \* v_outreach_capacity.reengagement_ceiling
    Decisions,      \* decisions that may be in progress at once
    Idle            \* a decision slot that is free

Treatments == {"work", "parked"}      \* parked: watch or drop, no Gate 1 card
Operation == [pc : {"accept", "start", "admit"}, firm : Firms, gate : {0, 1}]

ASSUME PipelineAssumption ==
    /\ Reengagement \subseteq Firms /\ Seeded \subseteq Firms
    /\ \A m \in {Reengagement, Firms \ Reengagement} :
          Cardinality(Seeded \cap m) <= IF m = Reengagement THEN WarmCeiling ELSE ColdCeiling
    /\ IsFiniteSet(Firms) /\ IsFiniteSet(Decisions) /\ Decisions # {}
    /\ ColdCeiling \in Nat \ {0} /\ WarmCeiling \in Nat \ {0}
    /\ Idle \notin Operation

VARIABLES
    proposal,   \* the agent's proposed scores: missing, or the treatment they give
    decision,   \* outreach_discoveries.review_decision ("none": unreviewed)
    promoted,   \* outreach_discoveries.promoted_target_id is set
    status,     \* outreach_targets.status ("absent": no row)
    treatment,  \* v_outreach_scored.treatment ("unscored": NULL)
    ready,      \* stage and function_state are both set on the target
    carded,     \* a Gate 1 card for it is in the channel
    arc,        \* its touches: none, open (some unresolved) or resolved
    op          \* the decisions in progress

poolVars   == <<proposal, decision, promoted>>
targetVars == <<status, treatment, ready, carded, arc>>
vars == <<poolVars, targetVars, op>>

Live == {"in_sequence"}      \* the counted statuses the code itself sets

Meter(f)   == IF f \in Reengagement THEN Reengagement ELSE Firms \ Reengagement
Ceiling(f) == IF f \in Reengagement THEN WarmCeiling ELSE ColdCeiling

\* read_capacity over one meter: its live sequences.
LiveIn(meter) == Cardinality({f \in meter : status[f] \in Live})

\* capacity_blocks: there is no room on this firm's meter (Gate 0 always asks
\* about the cold one).
capacity_blocks(f) == LiveIn(Meter(f)) >= Ceiling(f)
cold_blocks == LiveIn(Firms \ Reengagement) >= ColdCeiling

At(i, pc) == op[i] # Idle /\ op[i].pc = pc
Finish(i) == op' = [op EXCEPT ![i] = Idle]

-----------------------------------------------------------------------------
Init ==
    /\ proposal \in [Firms -> {"missing"} \cup Treatments]
    /\ \A f \in Seeded : proposal[f] = "work"
    /\ decision = [f \in Firms |-> IF f \in Seeded THEN "accept" ELSE "none"]
    /\ promoted = [f \in Firms |-> f \in Seeded]
    /\ status = [f \in Firms |-> IF f \in Seeded THEN "in_sequence" ELSE "absent"]
    /\ treatment = [f \in Firms |-> IF f \in Seeded THEN "work" ELSE "unscored"]
    /\ ready = [f \in Firms |-> f \in Seeded]
    /\ carded = [f \in Firms |-> f \in Seeded]
    /\ arc = [f \in Firms |-> IF f \in Seeded THEN "open" ELSE "none"]
    /\ op = [i \in Decisions |-> Idle]

-----------------------------------------------------------------------------
(* Gate 0 *)

\* approve, before its transaction: an unreviewed row whose proposals are
\* complete, with room on the cold meter; anything else changes nothing.
StartApprove(i, f) ==
    /\ op[i] = Idle
    /\ decision[f] = "none"
    /\ proposal[f] # "missing" /\ ~cold_blocks          \* approval_blocks
    /\ op' = [op EXCEPT ![i] = [pc |-> "accept", firm |-> f, gate |-> 0]]
    /\ UNCHANGED <<poolVars, targetVars>>

\* upsert_target as promote calls it: a new candidate, or the existing row
\* with its judgement columns kept.
Upserted(f) == IF status[f] = "absent" THEN "candidate" ELSE status[f]

\* Mutant of approve: the promotion is left for after the commit.
MutantApproveSplit(i) ==
    LET f == op[i].firm IN
    /\ At(i, "accept") /\ decision[f] = "none"
    /\ decision' = [decision EXCEPT ![f] = "accept"]
    /\ op' = [op EXCEPT ![i].pc = "start"]
    /\ UNCHANGED <<proposal, promoted, targetVars>>

\* approve's one transaction: accept, promote, copy the scores to a candidate.
approve(i) ==
    LET f == op[i].firm IN
    /\ At(i, "accept") /\ decision[f] = "none"
    /\ decision' = [decision EXCEPT ![f] = "accept"]
    /\ promoted' = [promoted EXCEPT ![f] = TRUE]
    /\ status' = [status EXCEPT ![f] = Upserted(f)]
    /\ IF Upserted(f) = "candidate"
         THEN /\ treatment' = [treatment EXCEPT ![f] = proposal[f]]
              /\ ready' = [ready EXCEPT ![f] = TRUE]
         ELSE UNCHANGED <<treatment, ready>>
    /\ op' = [op EXCEPT ![i].pc = "start"]
    /\ UNCHANGED <<proposal, carded, arc>>

\* decide returned None inside it: another submit won, and it rolls back.
ApproveLost(i) ==
    /\ At(i, "accept") /\ decision[op[i].firm] # "none"
    /\ Finish(i)
    /\ UNCHANGED <<poolVars, targetVars>>

\* decide(reject): one guarded UPDATE. A deferral writes nothing at all.
reject(f) ==
    /\ decision[f] = "none"
    /\ decision' = [decision EXCEPT ![f] = "reject"]
    /\ UNCHANGED <<proposal, promoted, targetVars, op>>

-----------------------------------------------------------------------------
(* Gate 1 *)

\* Mutant of CheckWork: the capacity check is dropped.
MutantCheckWorkNoCap(f) == status[f] = "candidate" /\ ready[f]

\* intake.decide("work") up to its transaction. It is refused, with nothing
\* changed, unless the target is a ready candidate and its meter has room.
CheckWork(f) == status[f] = "candidate" /\ ready[f] /\ ~capacity_blocks(f)

StartSequence(i) ==          \* called by approve, after its commit
    /\ At(i, "start") /\ CheckWork(op[i].firm)
    /\ op' = [op EXCEPT ![i].pc = "admit"]
    /\ UNCHANGED <<poolVars, targetVars>>

NotStarted(i) ==             \* ... which reports "promoted but not started"
    /\ At(i, "start") /\ ~CheckWork(op[i].firm)
    /\ Finish(i)
    /\ UNCHANGED <<poolVars, targetVars>>

ClickWork(i, f) ==           \* the card's "Work this"
    /\ op[i] = Idle
    /\ carded[f] /\ CheckWork(f)
    /\ op' = [op EXCEPT ![i] = [pc |-> "admit", firm |-> f, gate |-> 1]]
    /\ UNCHANGED <<poolVars, targetVars>>

\* Mutant of decide_work: the touches are left for after the commit.
MutantWorkNoTouches(i) ==
    LET f == op[i].firm IN
    /\ At(i, "admit") /\ status[f] = "candidate"
    /\ status' = [status EXCEPT ![f] = "in_sequence"]
    /\ Finish(i)
    /\ UNCHANGED <<poolVars, treatment, ready, carded, arc>>

\* Mutant of decide_work: the UPDATE loses its WHERE status = 'candidate'.
MutantWorkUnguarded(i) ==
    LET f == op[i].firm IN
    /\ At(i, "admit")
    /\ status' = [status EXCEPT ![f] = "in_sequence"]
    /\ arc' = [arc EXCEPT ![f] = "open"]
    /\ Finish(i)
    /\ UNCHANGED <<poolVars, treatment, ready, carded>>

\* The transaction: guarded UPDATE and the five touches together. A slot whose
\* window has closed is born skipped, so an old trigger may leave none open.
decide_work(i) ==
    LET f == op[i].firm IN
    /\ At(i, "admit") /\ status[f] = "candidate"
    /\ status' = [status EXCEPT ![f] = "in_sequence"]
    /\ \E touches \in {"open", "resolved"} : arc' = [arc EXCEPT ![f] = touches]
    /\ Finish(i)
    /\ UNCHANGED <<poolVars, treatment, ready, carded>>

AdmitLost(i) ==
    /\ At(i, "admit") /\ status[op[i].firm] # "candidate"
    /\ Finish(i)
    /\ UNCHANGED <<poolVars, targetVars>>

\* "Watchlist" and "Drop" check nothing, so their one UPDATE is the decision.
watchlist(f) ==
    /\ carded[f] /\ status[f] = "candidate"
    /\ status' = [status EXCEPT ![f] = "watchlist"]
    /\ UNCHANGED <<poolVars, treatment, ready, carded, arc, op>>

drop(f) ==
    /\ carded[f] /\ status[f] = "candidate"
    /\ status' = [status EXCEPT ![f] = "dropped"]
    /\ UNCHANGED <<poolVars, treatment, ready, carded, arc, op>>

\* Firms scored to work that have never been surfaced.
list_undelivered ==
    {f \in Firms : status[f] = "candidate" /\ treatment[f] = "work" /\ ~carded[f]}

mark_posted(f) == carded' = [carded EXCEPT ![f] = TRUE]

\* The intake poll, its channel.send included. (A send that is never marked is
\* sent again by a later tick: one more card, same buttons.)
PostCard(f) ==
    /\ f \in list_undelivered
    /\ mark_posted(f)
    /\ UNCHANGED <<poolVars, status, treatment, ready, arc, op>>

-----------------------------------------------------------------------------
(* What happens around the two gates *)

\* The agent completes a row it had not scored (sourcing's stuck pool).
Propose(f) ==
    /\ decision[f] = "none" /\ proposal[f] = "missing"
    /\ \E t \in Treatments : proposal' = [proposal EXCEPT ![f] = t]
    /\ UNCHANGED <<decision, promoted, targetVars, op>>

\* A target that did not come through the pool: an import, a qualified lead.
upsert_target(f) ==
    /\ status[f] = "absent"
    /\ status' = [status EXCEPT ![f] = "candidate"]
    /\ UNCHANGED <<poolVars, treatment, ready, carded, arc, op>>

\* The operator scores it, or the calendar and the rescore move its band.
Rescore(f) ==
    /\ status[f] = "candidate"
    /\ \E t \in Treatments : treatment' = [treatment EXCEPT ![f] = t]
    /\ ready' \in {ready, [ready EXCEPT ![f] = TRUE]}
    /\ UNCHANGED <<poolVars, status, carded, arc, op>>

\* The last unresolved touch is sent.
ResolveTouches(f) ==
    /\ status[f] = "in_sequence" /\ arc[f] = "open"
    /\ arc' = [arc EXCEPT ![f] = "resolved"]
    /\ UNCHANGED <<poolVars, status, treatment, ready, carded, op>>

\* run_drain: a finished arc frees its slot once the operator has said what
\* stalled it; one without a reason keeps the slot.
run_drain(f) ==
    /\ status[f] = "in_sequence" /\ arc[f] = "resolved"
    /\ status' = [status EXCEPT ![f] = "watchlist"]
    /\ UNCHANGED <<poolVars, treatment, ready, carded, arc, op>>

\* The bot restarts, or a database call raises out of the decision: whatever
\* was not committed is lost, what was committed stays.
Interrupt(i) ==
    /\ op[i] # Idle
    /\ Finish(i)
    /\ UNCHANGED <<poolVars, targetVars>>

-----------------------------------------------------------------------------
Decide(i) ==
    \/ \E f \in Firms : StartApprove(i, f) \/ ClickWork(i, f)
    \/ approve(i) \/ ApproveLost(i) \/ StartSequence(i) \/ NotStarted(i)
    \/ decide_work(i) \/ AdmitLost(i) \/ Interrupt(i)

FirmStep(f) ==
    \/ reject(f) \/ watchlist(f) \/ drop(f) \/ PostCard(f)
    \/ Propose(f) \/ upsert_target(f) \/ Rescore(f)
    \/ ResolveTouches(f) \/ run_drain(f)

Next == (\E i \in Decisions : Decide(i)) \/ (\E f \in Firms : FirmStep(f))

Spec == Init /\ [][Next]_vars

-----------------------------------------------------------------------------
(* Properties *)

\* Every variable keeps its type.
TypeOK ==
    /\ proposal \in [Firms -> {"missing"} \cup Treatments]
    /\ decision \in [Firms -> {"none", "accept", "reject"}]
    /\ promoted \in [Firms -> BOOLEAN]
    /\ status \in [Firms -> {"absent", "candidate", "in_sequence", "watchlist", "dropped"}]
    /\ treatment \in [Firms -> {"unscored"} \cup Treatments]
    /\ ready \in [Firms -> BOOLEAN]
    /\ carded \in [Firms -> BOOLEAN]
    /\ arc \in [Firms -> {"none", "open", "resolved"}]
    /\ op \in [Decisions -> Operation \cup {Idle}]

\* What the code keeps: the check is made before the transaction, so each
\* decision in progress can take one meter one past its ceiling, no more.
CapacityOvershootBounded ==
    \A f \in Firms : LiveIn(Meter(f)) < Ceiling(f) + Cardinality(Decisions)

\* A Gate 0 yes is never half recorded, whatever raises or dies in between: the
\* row is accepted exactly when it is promoted, and then its target exists.
AcceptedIsPromoted ==
    \A f \in Firms :
        /\ promoted[f] <=> decision[f] = "accept"
        /\ promoted[f] => status[f] # "absent"

\* A capacity slot is held by a target with touches to work, and no target has
\* touches before it was admitted.
SlotsHoldArcs ==
    \A f \in Firms :
        /\ status[f] = "in_sequence" => arc[f] # "none" /\ ready[f]
        /\ status[f] \in {"absent", "candidate", "dropped"} => arc[f] = "none"

\* A target never returns to candidate and a finished arc never restarts, so no
\* firm is sequenced a second time; a Gate 0 decision is never revised.
NeverWorkedTwice ==
    [][\A f \in Firms :
          /\ status[f] \notin {"absent", "candidate"} =>
                status'[f] \in {status[f], "watchlist"}
          /\ status[f] \in {"watchlist", "dropped"} => status'[f] = status[f]
          /\ arc[f] = "resolved" => arc'[f] = "resolved"
          /\ decision[f] # "none" => decision'[f] = decision[f]]_vars
=============================================================================

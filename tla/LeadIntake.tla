------------------------------ MODULE LeadIntake ------------------------------
(***************************************************************************)
(* A WordPress lead from the gateway's 202 to a task candidate and an      *)
(* outreach target: POST /webhook/leads acknowledges and hands the lead to *)
(* a background task, roy_kent.process_lead, which records, scores,        *)
(* embeds, proposes and seeds one statement at a time (the connections are *)
(* in autocommit).  Deliveries repeat and overlap; the gateway restarts.   *)
(* The target a lead seeds is the row that imports and promotions upsert   *)
(* too, and that Gate 1 admits to a sequence.                              *)
(***************************************************************************)
EXTENDS Naturals, FiniteSets

CONSTANTS
    Leads,          \* wordpress_profile_ids
    Firms,          \* company domains
    Hosts,          \* lead -> the firms its address may tell, None for a free host
    Workers,        \* background tasks under way at once
    Pains,          \* pain-point statements in a lead's answers
    MaxPosts,       \* bound: lead -> deliveries
    MaxDays,        \* bound: days
    MaxFaults,      \* bound: failed calls and restarts
    None

ASSUME LeadAssumption ==
    /\ IsFiniteSet(Leads) /\ IsFiniteSet(Workers)
    /\ MaxPosts \in [Leads -> Nat]
    /\ Hosts \in [Leads -> SUBSET (Firms \cup {None})]
    /\ Pains \in Nat /\ MaxDays \in Nat \ {0} /\ MaxFaults \in Nat
    /\ None \notin Firms \cup Leads

VARIABLES
    firm,           \* lead -> the firm its address tells, None if a free host
    posts,          \* lead -> deliveries acknowledged
    prospect,       \* lead -> "absent", or prospects.status
    score,          \* lead -> prospects.icp_fit_score: None, "low" or "high"
    signals,        \* lead -> rows in icp_signals
    tasks,          \* lead -> rows in task_candidates
    target,         \* firm -> the outreach_targets row, None if there is none
    deciding,       \* firm -> what a Gate 1 decision has read of the row, or None
    work,           \* worker -> what it is doing
    today,
    heard,          \* history: firm -> the triggers it was upserted with
    cut,            \* history: leads whose processing was cut short
    faults

leadVars == <<prospect, score, signals, tasks>>
gateVars == <<deciding, firm>>
vars == <<firm, posts, prospect, score, signals, tasks, target, deciding, work,
          today, heard, cut, faults>>

Days == 1..MaxDays
Kinds == {"inbound_enquiry", "cold"}    \* cold: any of the eight triggers
\* closed: on the watchlist or dropped.
Target == [status : {"candidate", "in_sequence", "closed"},
           kind : Kinds, date : Days, ready : BOOLEAN,
           prospect : Leads \cup {None}, arc : {"none"} \cup Kinds]
ASSUME TargetAssumption == None \notin Target

Steps == {"free", "find", "insert", "qualify", "apply", "signal", "propose",
          "seed"}
Jobs == [step : Steps, lead : Leads \cup {None}, fit : {None, "low", "high"},
         left : 0..Pains]
Free == [step |-> "free", lead |-> None, fit |-> None, left |-> 0]

TypeOK ==
    /\ firm \in [Leads -> Firms \cup {None}]
    /\ posts \in [Leads -> Nat]
    /\ prospect \in [Leads -> {"absent", "new", "qualified"}]
    /\ score \in [Leads -> {None, "low", "high"}]
    /\ signals \in [Leads -> Nat] /\ tasks \in [Leads -> Nat]
    /\ target \in [Firms -> Target \cup {None}]
    /\ deciding \in [Firms -> [kind : Kinds, ready : BOOLEAN] \cup {None}]
    /\ work \in [Workers -> Jobs]
    /\ today \in Days
    /\ heard \in [Firms -> SUBSET (Kinds \X Days)]
    /\ cut \subseteq Leads
    /\ faults \in 0..MaxFaults

Init ==
    /\ firm \in {g \in [Leads -> Firms \cup {None}] : \A l \in Leads : g[l] \in Hosts[l]}
    /\ posts = [l \in Leads |-> 0]
    /\ prospect = [l \in Leads |-> "absent"]
    /\ score = [l \in Leads |-> None]
    /\ signals = [l \in Leads |-> 0] /\ tasks = [l \in Leads |-> 0]
    /\ target = [f \in Firms |-> None]
    /\ deciding = [f \in Firms |-> None]
    /\ work = [w \in Workers |-> Free]
    /\ today = 1
    /\ heard = [f \in Firms |-> {}]
    /\ cut = {}
    /\ faults = 0

-----------------------------------------------------------------------------
(* The outreach target.                                                    *)

\* The kind is whatever came last.
MutantLastKind(f, kind, date, l) ==
    /\ heard' = [heard EXCEPT ![f] = @ \cup {<<kind, date>>}]
    /\ target' = [target EXCEPT ![f] =
          IF @ = None
          THEN [status |-> "candidate", kind |-> kind, date |-> date,
                ready |-> FALSE, prospect |-> l, arc |-> "none"]
          ELSE [@ EXCEPT !.kind = kind, !.date = IF date > @ THEN date ELSE @,
                         !.prospect = IF @ # None THEN @ ELSE l]]

\* The row an upsert leaves.  A newer trigger replaces the anchor and its kind
\* together, and an older one changes nothing; the first prospect stays; the
\* operator's columns and the status are not the import's.
Upserted(t, kind, date, l) ==
    IF t = None
    THEN [status |-> "candidate", kind |-> kind, date |-> date,
          ready |-> FALSE, prospect |-> l, arc |-> "none"]
    ELSE [t EXCEPT !.kind = IF date > t.date THEN kind ELSE @,
                   !.date = IF date > @ THEN date ELSE @,
                   !.prospect = IF @ # None THEN @ ELSE l]

upsert_target(f, kind, date, l) ==
    /\ heard' = [heard EXCEPT ![f] = @ \cup {<<kind, date>>}]
    /\ target' = [target EXCEPT ![f] = Upserted(@, kind, date, l)]

\* An import or a promotion, of a trigger of any age.
Import(f) ==
    /\ \E date \in 1..today : upsert_target(f, "cold", date, None)
    /\ UNCHANGED <<leadVars, gateVars, posts, work, today, cut, faults>>

\* The operator sets the stage and function_state.
Judge(f) ==
    /\ target[f] # None /\ target[f].status = "candidate" /\ ~target[f].ready
    /\ target' = [target EXCEPT ![f].ready = TRUE]
    /\ UNCHANGED <<leadVars, gateVars, posts, work, today, heard, cut, faults>>

\* intake.decide up to its transaction: the row is read, and Work asks for a
\* stage and a function_state, not for the kind of the trigger.
work_blocks(t) == ~t.ready

ReadTarget(f) ==
    /\ deciding[f] = None
    /\ target[f] # None /\ target[f].status = "candidate"
    /\ deciding' = [deciding EXCEPT ![f] =
          [kind |-> target[f].kind, ready |-> target[f].ready]]
    /\ UNCHANGED <<leadVars, firm, posts, target, work, today, heard, cut, faults>>

\* The transaction: the status, guarded, and for Work the touches of the row as
\* it was read.
decide(f, action) ==
    /\ deciding[f] # None
    /\ action = "in_sequence" => ~work_blocks(deciding[f])
    /\ target' = IF target[f].status # "candidate" THEN target
                 ELSE [target EXCEPT
                         ![f].status = action,
                         ![f].arc = IF action = "in_sequence"
                                    THEN deciding[f].kind ELSE @]
    /\ deciding' = [deciding EXCEPT ![f] = None]
    /\ UNCHANGED <<leadVars, firm, posts, work, today, heard, cut, faults>>

Gate(f) ==
    \/ Import(f) \/ Judge(f) \/ ReadTarget(f)
    \/ \E action \in {"in_sequence", "closed"} : decide(f, action)

-----------------------------------------------------------------------------
(* The lead.                                                               *)

Doing(w, step) == work[w].step = step
Goto(w, step) == work' = [work EXCEPT ![w].step = step]
End(w) == work' = [work EXCEPT ![w] = Free]

\* An authenticated, well-formed delivery: 202, and the task is queued.
leads_webhook(l) ==
    /\ posts[l] < MaxPosts[l]
    /\ posts' = [posts EXCEPT ![l] = @ + 1]
    /\ \E w \in Workers :
          /\ work[w] = Free
          /\ work' = [work EXCEPT ![w] = [Free EXCEPT !.step = "find", !.lead = l]]
    /\ UNCHANGED <<leadVars, gateVars, target, today, heard, cut, faults>>

find_existing_prospect(w) ==
    /\ Doing(w, "find")
    /\ IF prospect[work[w].lead] # "absent" THEN End(w) ELSE Goto(w, "insert")
    /\ UNCHANGED <<leadVars, gateVars, posts, target, today, heard, cut, faults>>

\* The row is there whoever wrote it.
MutantInsertOrGo(w) ==
    LET l == work[w].lead
    IN  /\ Doing(w, "insert")
        /\ prospect' = IF prospect[l] = "absent" THEN [prospect EXCEPT ![l] = "new"]
                       ELSE prospect
        /\ Goto(w, "qualify")
        /\ cut' = cut \ {l}
        /\ UNCHANGED <<score, signals, tasks, gateVars, posts, target, today, heard,
                       faults>>

\* ON CONFLICT DO NOTHING: the loser of two deliveries has a duplicate.
insert_prospect(w) ==
    LET l == work[w].lead
    IN  /\ Doing(w, "insert")
        /\ IF prospect[l] # "absent"
           THEN End(w) /\ UNCHANGED <<prospect, cut>>
           ELSE /\ prospect' = [prospect EXCEPT ![l] = "new"]
                /\ Goto(w, "qualify")
                /\ cut' = cut \ {l}
        /\ UNCHANGED <<score, signals, tasks, gateVars, posts, target, today, heard,
                       faults>>

\* The criteria are read, and the model scores.
qualify_fit(w) ==
    /\ Doing(w, "qualify")
    /\ \E fit \in {"low", "high"} :
          work' = [work EXCEPT ![w].step = "apply", ![w].fit = fit]
    /\ UNCHANGED <<leadVars, gateVars, posts, target, today, heard, cut, faults>>

\* Where a worker goes after it embedded, and after it scored.
Last(w) == IF work[w].fit = "high" THEN Goto(w, "propose") ELSE End(w)
Scored(w) ==
    IF Pains > 0 THEN work' = [work EXCEPT ![w].step = "signal", ![w].left = Pains]
    ELSE Last(w)

apply_qualification(w) ==
    LET l == work[w].lead
    IN  /\ Doing(w, "apply")
        /\ prospect' = [prospect EXCEPT ![l] = "qualified"]
        /\ score' = [score EXCEPT ![l] = work[w].fit]
        /\ Scored(w)
        /\ UNCHANGED <<signals, tasks, gateVars, posts, target, today, heard, cut,
                       faults>>

\* One statement per pain point, after one embedding of them all.
insert_pain_signal(w) ==
    /\ Doing(w, "signal")
    /\ signals' = [signals EXCEPT ![work[w].lead] = @ + 1]
    /\ IF work[w].left > 1 THEN work' = [work EXCEPT ![w].left = @ - 1]
       ELSE Last(w)
    /\ UNCHANGED <<prospect, score, tasks, gateVars, posts, target, today, heard, cut,
                   faults>>

\* Proposing ends the work: the seed is left to an import.
MutantNoSeed(w) ==
    /\ Doing(w, "propose")
    /\ tasks' = [tasks EXCEPT ![work[w].lead] = @ + 1]
    /\ End(w)
    /\ UNCHANGED <<prospect, score, signals, gateVars, posts, target, today, heard,
                   cut, faults>>

propose_task_candidate(w) ==
    /\ Doing(w, "propose")
    /\ tasks' = [tasks EXCEPT ![work[w].lead] = @ + 1]
    /\ Goto(w, "seed")
    /\ UNCHANGED <<prospect, score, signals, gateVars, posts, target, today, heard,
                   cut, faults>>

\* A lead of a free mail host has no domain to key a target on.
seed_outreach_target(w) ==
    LET l == work[w].lead
    IN  /\ Doing(w, "seed")
        /\ IF firm[l] = None THEN UNCHANGED <<target, heard>>
           ELSE upsert_target(firm[l], "inbound_enquiry", today, l)
        /\ End(w)
        /\ UNCHANGED <<leadVars, gateVars, posts, today, cut, faults>>

\* A call fails.  Scoring and embedding are best effort: the worker goes on,
\* with the score the model gave even if it could not be stored.  Anything else,
\* the read of the criteria included, raises, and the task ends with a line in
\* the log.
Fails(w) ==
    LET l == work[w].lead
    IN  /\ work[w].step # "free"
        /\ faults < MaxFaults /\ faults' = faults + 1
        /\ cut' = cut \cup {l}
        /\ \/ work[w].step \in {"qualify", "apply"} /\ Scored(w)
           \/ work[w].step = "signal" /\ Last(w)
           \/ work[w].step \notin {"apply", "signal"} /\ End(w)
        /\ UNCHANGED <<leadVars, gateVars, posts, target, today, heard>>

\* The gateway restarts: its background tasks are gone, and nobody retries what
\* was acknowledged.
Restart ==
    /\ faults < MaxFaults /\ faults' = faults + 1
    /\ \E w \in Workers : work[w] # Free
    /\ cut' = cut \cup {work[w].lead : w \in {x \in Workers : work[x] # Free}}
    /\ work' = [w \in Workers |-> Free]
    /\ UNCHANGED <<leadVars, gateVars, posts, target, today, heard>>

process_lead(w) ==
    \/ find_existing_prospect(w) \/ insert_prospect(w) \/ qualify_fit(w)
    \/ apply_qualification(w) \/ insert_pain_signal(w)
    \/ propose_task_candidate(w) \/ seed_outreach_target(w)

Midnight ==
    /\ today < MaxDays /\ today' = today + 1
    /\ UNCHANGED <<leadVars, gateVars, posts, target, work, heard, cut, faults>>

-----------------------------------------------------------------------------

Next ==
    \/ \E l \in Leads : leads_webhook(l)
    \/ \E w \in Workers : process_lead(w) \/ Fails(w)
    \/ Restart \/ Midnight
    \/ \E f \in Firms : Gate(f)

Spec == Init /\ [][Next]_vars

\* A background task runs until it ends.
FairSpec == Spec /\ \A w \in Workers : WF_vars(process_lead(w))

-----------------------------------------------------------------------------
(* Properties.                                                             *)

\* However often a lead is delivered, and however its deliveries overlap, it is
\* qualified, embedded and proposed once, by one worker (auth.py keeps no nonce
\* because of it).
QualifiedOnce ==
    \A l \in Leads :
        /\ tasks[l] <= 1 /\ signals[l] <= Pains
        /\ Cardinality({w \in Workers :
              work[w].lead = l /\ work[w].step \notin {"find", "insert"}}) <= 1

\* Everything a lead asks for is there.
DealtWith(l) ==
    /\ prospect[l] = "qualified" /\ signals[l] = Pains
    /\ score[l] = "high" =>
          /\ tasks[l] = 1
          /\ firm[l] # None => target[firm[l]] # None /\ target[firm[l]].prospect # None

\* A lead that was acknowledged is dealt with in the end, unless a call failed
\* or the gateway restarted on the delivery that has it.
LeadsAreDealtWith == \A l \in Leads : posts[l] > 0 ~> DealtWith(l) \/ l \in cut

\* In whatever order imports, promotions and leads arrive, and however late, a
\* target carries the newest trigger it was ever told of, kind and date of the
\* same one.
NewestTriggerWins ==
    \A f \in Firms : target[f] # None =>
        /\ <<target[f].kind, target[f].date>> \in heard[f]
        /\ \A h \in heard[f] : h[2] <= target[f].date

\* And whichever import, promotion or lead comes next, the first prospect a target
\* was linked to stays its prospect, also when a newer trigger replaces the anchor:
\* the lead that opened the firm keeps its row, however many more write to it.
FirstProspectStays ==
    [][\A f \in Firms : target[f] # None /\ target[f].prospect # None =>
          target'[f] # None /\ target'[f].prospect = target[f].prospect]_vars

\* architecture/36-inbound-leads.md, I1: targets of trigger_kind
\* 'inbound_enquiry' "never materialise the five-touch sequence".
InboundNeverRunsTheArc ==
    \A f \in Firms : target[f] # None => target[f].arc # "inbound_enquiry"
=============================================================================

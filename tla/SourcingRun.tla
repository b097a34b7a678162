----------------------------- MODULE SourcingRun ----------------------------
(***************************************************************************)
(* The autonomous sourcing run (agents/outreach_sourcing/run.py): release  *)
(* what an earlier run held, then up to MAX_ROUNDS rounds of briefs (stuck *)
(* pool rows first, planned new firms after), each checked and absorbed in *)
(* brief order, while the operator reviews rows and the process may die.   *)
(*                                                                         *)
(* Research, checks, planning and money are choices: a brief's outcome is  *)
(* any the code can see, a round is as large as some budget left allows.   *)
(***************************************************************************)
EXTENDS Naturals, FiniteSets

CONSTANTS
    Firms,      \* company domains
    OutOfList,  \* those in a segment outside the in-list ones
    TargetN,    \* target_n: cards to aim for
    Share,      \* EXPLORATION_SHARE, in percent
    ShareMax,   \* EXPLORATION_SHARE_MAX, in percent
    MaxRounds,  \* MAX_ROUNDS
    StuckPerRound, \* STUCK_POOL_PER_ROUND
    MaxRuns,    \* bound on the runs started
    MayCrash    \* whether the process may die

ASSUME SourcingAssumption ==
    /\ OutOfList \subseteq Firms /\ IsFiniteSet(Firms)
    /\ Share \in 0 .. 100 /\ ShareMax \in 0 .. 100
    /\ TargetN \in Nat \ {0} /\ MaxRounds \in Nat \ {0} /\ MaxRuns \in Nat
    /\ StuckPerRound \in Nat
    /\ MayCrash \in BOOLEAN

VARIABLES
    row,      \* the firm's outreach_discoveries row, see RowStates
    claimed,  \* rows whose sourcing_run_id is set
    pc,       \* idle | round | absorb | finish
    dry,      \* --dry-run
    known,    \* ctx["known_domains"] as the round's workers see it
    fresh,    \* the domains added to it while absorbing this round
    tried,    \* state.tried_ids
    verify,   \* verify briefs of this round still to be absorbed
    finds,    \* in-list find briefs of this round still to be absorbed
    tests,    \* the same, for briefs that test a hypothesis
    stop,     \* _absorb's stop flag
    rounds,   \* rounds started in this run
    passed,   \* state.passed
    explored, \* state.passed_out_of_list
    sheet,    \* ghost: firms this run put on the review sheet, see Sheets
    excused,  \* ghost: claimed rows whose brief errored, found nothing or died
    started   \* runs started (bounds the model)

runVars == <<pc, dry, known, fresh, tried, verify, finds, tests, stop, rounds, passed,
             explored, sheet>>
vars == <<row, claimed, runVars, excused, started>>

\* stuck: below the bar or unscored. eligible: on the review sheet.
\* failed: a check failed. explore, held: passed, with the exploration_share or
\* held_for_next_run marker in check_failures.
Unreviewed == {"stuck", "eligible", "failed", "explore", "held"}
RowStates  == {"none", "reviewed"} \cup Unreviewed

\* How a firm came to the sheet: released, re-opened, or found by this run.
Sheets  == [released : SUBSET Firms, reopened : SUBSET Firms, own : SUBSET Firms]
NoSheet == [released |-> {}, reopened |-> {}, own |-> {}]

exploration_max   == (TargetN * ShareMax) \div 100
exploration_slots == (TargetN * Share) \div 100
At_most(n) == (3 * n + 1) \div 2               \* ceil(n * BRIEFS_PER_NEEDED)

InState(s) == {f \in Firms : row[f] = s}
Lesser(m, n) == IF m < n THEN m ELSE n

-----------------------------------------------------------------------------
Init ==
    /\ row \in [Firms -> {"none", "stuck"}]
    /\ claimed = {} /\ excused = {}
    /\ pc = "idle" /\ dry = FALSE
    /\ known = {} /\ fresh = {} /\ tried = {}
    /\ verify = {} /\ finds = 0 /\ tests = 0 /\ stop = FALSE
    /\ rounds = 0 /\ passed = 0 /\ explored = 0 /\ sheet = NoSheet
    /\ started = 0

-----------------------------------------------------------------------------
(* The run *)

\* The held rows that a release of up to limit may choose; the oldest, for one.
release_held(limit) ==
    {rows \in SUBSET InState("held") :
        Cardinality(rows) = Lesser(limit, Cardinality(InState("held")))}

\* Housekeeping re-opens the exploration holds, all of them: they are back on
\* the sheet and count toward neither the target nor the exploration maximum.
housekeeping == InState("explore")

\* The pool, less what is in either table.
known_domains == Firms \ InState("none")

\* run, up to its rounds. A dry run skips the housekeeping and the release.
StartRun(dryRun) ==
    LET opened == IF dryRun THEN {} ELSE housekeeping IN
    /\ pc = "idle" /\ started < MaxRuns
    /\ \E released \in release_held(IF dryRun THEN 0 ELSE TargetN) :
          /\ row' = [f \in Firms |->
                        IF f \in released \cup opened THEN "eligible" ELSE row[f]]
          /\ passed' = Cardinality(released)
          /\ sheet' = [released |-> released, reopened |-> opened, own |-> {}]
    /\ known' = known_domains
    /\ pc' = "round" /\ dry' = dryRun
    /\ started' = started + 1
    /\ UNCHANGED <<claimed, fresh, tried, verify, finds, tests, stop, rounds,
                   explored, excused>>

\* The run stops before a round: target met, deadline, budget, or no round left.
StopRun ==
    /\ pc = "round"
    /\ pc' = "finish"
    /\ UNCHANGED <<row, claimed, dry, known, fresh, tried, verify, finds, tests, stop,
                   rounds, passed, explored, sheet, excused, started>>

\* stuck_pool, less the rows this run has tried.
StuckPool == (InState("stuck") \ claimed) \ tried

\* How many of them a round of up to cap briefs takes.
Offered(cap) == Lesser(Lesser(StuckPerRound, cap), Cardinality(StuckPool))

\* Mutant of StartRound: the claim comes before the cut, as it once did.
MutantClaimBeforeCut ==
    /\ pc = "round" /\ rounds < MaxRounds /\ passed < TargetN
    /\ \E cap \in 1 .. At_most(TargetN - passed) :
       \E stuck \in SUBSET StuckPool :
          /\ Cardinality(stuck) = Offered(cap) /\ stuck # {}
          /\ verify' = stuck /\ tried' = tried \cup stuck
          /\ claimed' = IF dry THEN claimed ELSE claimed \cup StuckPool
    /\ pc' = "absorb"
    /\ known' = known \cup fresh /\ fresh' = {}
    /\ rounds' = rounds + 1
    /\ UNCHANGED <<row, dry, finds, tests, stop, passed, explored, sheet, excused, started>>

\* What a plan for up to room new firms expands to: in-list briefs and briefs
\* that test a hypothesis, of which only the exploration share is kept. A
\* planner that fails leaves no brief.
expand_plan(room) ==
    {plan \in [inList : 0 .. room, testing : 0 .. room] :
        plan.inList + plan.testing <= room /\ plan.testing <= exploration_slots}

\* One round: stuck rows up to the cap, planned firms for what is left of it,
\* and the claim of the rows that will run. An empty round ends the run.
StartRound ==
    /\ pc = "round" /\ rounds < MaxRounds /\ passed < TargetN
    /\ \E cap \in 1 .. At_most(TargetN - passed) :
       \E stuck \in {rows \in SUBSET StuckPool : Cardinality(rows) = Offered(cap)} :
       \E plan \in expand_plan(cap - Cardinality(stuck)) :
             IF stuck = {} /\ plan.inList + plan.testing = 0
               THEN pc' = "finish" /\ UNCHANGED <<verify, finds, tests, tried, claimed>>
               ELSE /\ pc' = "absorb"
                    /\ verify' = stuck /\ finds' = plan.inList /\ tests' = plan.testing
                    /\ tried' = tried \cup stuck
                    /\ claimed' = IF dry THEN claimed ELSE claimed \cup stuck
    /\ known' = known \cup fresh /\ fresh' = {}
    /\ rounds' = rounds + 1
    /\ UNCHANGED <<row, dry, stop, passed, explored, sheet, excused, started>>

-----------------------------------------------------------------------------
(* _absorb: one outcome per step, verify briefs first *)

\* Mutant of Verdict: passes beyond the target are shown, not held.
MutantNeverHold(outOfList) ==
    IF outOfList /\ explored >= exploration_max THEN "explore" ELSE "eligible"

\* What a passing dossier becomes: over the exploration maximum or over the
\* target it is put by, otherwise it counts.
Verdict(outOfList) ==
    IF outOfList /\ explored >= exploration_max THEN "explore"
    ELSE IF passed >= TargetN THEN "held"
    ELSE "eligible"

\* The counters for a checked dossier, its verdict given.
Count(verdict, outOfList) ==
    /\ passed' = passed + IF verdict = "eligible" THEN 1 ELSE 0
    /\ explored' = explored + IF verdict = "eligible" /\ outOfList THEN 1 ELSE 0

\* Mutant of Writable: the verify UPDATE loses its reviewed_at IS NULL.
MutantWriteReviewed(f) == f \in verify \/ row[f] = "none"

\* store: a find is inserted unless the domain is there (ON CONFLICT DO
\* NOTHING), a verified row is updated while unreviewed.
Writable(f) == IF f \in verify THEN row[f] \in Unreviewed ELSE row[f] = "none"

\* The store of an absorbed dossier. It may raise: then nothing is written, and
\* the counters have moved all the same. A dry run stores nothing.
store(f, verdict) ==
    \/ /\ ~dry /\ Writable(f)
       /\ row' = [row EXCEPT ![f] = verdict]
       /\ claimed' = claimed \cup {f}
       /\ sheet' = IF verdict = "eligible" THEN [sheet EXCEPT !.own = @ \cup {f}] ELSE sheet
       /\ UNCHANGED excused
    \/ /\ UNCHANGED <<row, claimed, sheet>>
       /\ excused' = IF ~dry /\ f \in verify THEN excused \cup {f} ELSE excused

\* The firm a brief is about: a verify row, or, with the verify briefs done, any
\* firm of its brief's segment that a find brief's worker came back with.
Subject(f) ==
    \/ f \in verify
    \/ verify = {} /\ IF f \in OutOfList THEN tests > 0 ELSE finds > 0

\* Its outcome absorbed, the brief leaves the round.
Consume(f) ==
    CASE f \in verify -> verify' = verify \ {f} /\ UNCHANGED <<finds, tests>>
      [] f \in OutOfList \ verify -> tests' = tests - 1 /\ UNCHANGED <<verify, finds>>
      [] OTHER -> finds' = finds - 1 /\ UNCHANGED <<verify, tests>>

AbsorbPass(f) ==
    /\ pc = "absorb" /\ Subject(f)
    /\ f \notin verify => f \notin known                      \* "duplicate"
    /\ LET v == Verdict(f \in OutOfList) IN
          Count(v, f \in OutOfList) /\ store(f, v)
    /\ fresh' = IF dry THEN fresh ELSE fresh \cup {f}
    /\ Consume(f)
    /\ UNCHANGED <<pc, dry, known, tried, stop, rounds, started>>

\* A failed check is stored with its codes, so the row is not researched again.
AbsorbFailure(f) ==
    /\ pc = "absorb" /\ Subject(f)
    /\ store(f, "failed")
    /\ fresh' = IF dry THEN fresh ELSE fresh \cup {f}
    /\ Consume(f)
    /\ UNCHANGED <<pc, dry, known, tried, stop, rounds, passed, explored, started>>

\* An error or a no_candidate outcome stores nothing; a ceiling or credit error
\* also stops the run after the round.
AbsorbNothing(f) ==
    /\ pc = "absorb" /\ Subject(f)
    /\ stop' \in {stop, TRUE}
    /\ Consume(f)
    /\ excused' = IF f \in verify /\ ~dry THEN excused \cup {f} ELSE excused
    /\ UNCHANGED <<row, claimed, pc, dry, known, fresh, tried, rounds, passed,
                   explored, sheet, started>>

EndRound ==
    /\ pc = "absorb" /\ verify = {} /\ finds + tests = 0
    /\ pc' = IF stop THEN "finish" ELSE "round"
    /\ UNCHANGED <<row, claimed, dry, known, fresh, tried, verify, finds, tests, stop,
                   rounds, passed, explored, sheet, excused, started>>

\* The process is gone, and with it everything but the database.
Exit ==
    /\ pc' = "idle" /\ dry' = FALSE
    /\ known' = {} /\ fresh' = {} /\ tried' = {}
    /\ verify' = {} /\ finds' = 0 /\ tests' = 0 /\ stop' = FALSE
    /\ rounds' = 0 /\ passed' = 0 /\ explored' = 0 /\ sheet' = NoSheet

\* _finish records the counters; the process exits.
Finish ==
    /\ pc = "finish"
    /\ Exit
    /\ UNCHANGED <<row, claimed, excused, started>>

\* The process dies; what it had claimed and not absorbed stays claimed.
Crash ==
    /\ MayCrash /\ pc # "idle"
    /\ Exit
    /\ excused' = IF dry THEN excused ELSE excused \cup verify
    /\ UNCHANGED <<row, claimed, started>>

-----------------------------------------------------------------------------
(* Around it *)

\* The operator decides a row on the review sheet, or one on an older page.
Review(f) ==
    /\ row[f] \in Unreviewed
    /\ row' = [row EXCEPT ![f] = "reviewed"]
    /\ UNCHANGED <<claimed, runVars, excused, started>>

\* Another source inserts a firm that is below the bar.
insert_discovery(f) ==
    /\ row[f] = "none"
    /\ row' = [row EXCEPT ![f] = "stuck"]
    /\ UNCHANGED <<claimed, runVars, excused, started>>

-----------------------------------------------------------------------------
Next ==
    \/ \E d \in BOOLEAN : StartRun(d)
    \/ StopRun \/ StartRound \/ EndRound \/ Finish \/ Crash
    \/ \E f \in Firms :
          \/ AbsorbPass(f) \/ AbsorbFailure(f) \/ AbsorbNothing(f)
          \/ Review(f) \/ insert_discovery(f)

Spec == Init /\ [][Next]_vars

-----------------------------------------------------------------------------
(* Properties *)

\* Every variable keeps its type.
TypeOK ==
    /\ row \in [Firms -> RowStates]
    /\ claimed \subseteq Firms /\ excused \subseteq Firms
    /\ pc \in {"idle", "round", "absorb", "finish"}
    /\ dry \in BOOLEAN /\ stop \in BOOLEAN
    /\ known \subseteq Firms /\ fresh \subseteq Firms /\ tried \subseteq Firms
    /\ verify \subseteq Firms /\ finds \in Nat /\ tests \in Nat
    /\ rounds \in 0 .. MaxRounds
    /\ passed \in Nat /\ explored \in Nat
    /\ sheet \in Sheets
    /\ started \in 0 .. MaxRuns

\* However the rounds overshoot, a run shows no more than it counts: the firms it
\* released and those of its own are at most target_n together, and of its own at
\* most the exploration maximum lie outside the list; passes beyond that are held.
\* The exploration holds it re-opened are in neither count: the sheet carries them
\* on top, however many there are.
SheetWithinTarget ==
    /\ Cardinality(sheet.released) + Cardinality(sheet.own) <= passed
    /\ passed <= TargetN
    /\ Cardinality(sheet.own \cap OutOfList) <= explored
    /\ explored <= exploration_max

\* A claimed row is never left without a result by the run's own bookkeeping
\* (the cut, the round limit, the target): only an error, a refused store, an
\* empty-handed worker or a dead process can do that.
ClaimsAreAnswered ==
    pc = "idle" => \A f \in claimed : row[f] = "stuck" => f \in excused

\* The reviewed are done with: a dossier that arrives after the decision, a
\* release or a re-opening never touches the row again.
ReviewIsFinal ==
    [][\A f \in Firms : row[f] = "reviewed" => row'[f] = "reviewed"]_vars

\* A dry run writes no rows: only the operator and other sources do meanwhile.
DryRunWritesNothing ==
    [][pc # "idle" /\ dry =>
          /\ claimed' = claimed
          /\ \A f \in Firms : row'[f] \in {row[f], "reviewed", "stuck"}]_vars
=============================================================================

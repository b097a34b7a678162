---------------------------- MODULE SourcingProofs ----------------------------
(***************************************************************************)
(* The sourcing run fills the pool, and the review sheet shows it to the   *)
(* operator.  What the run keeps for any pool, target and shares: what it  *)
(* counts stays within the target and the exploration maximum, a claim is  *)
(* answered unless an error or a crash excuses it, a decision of the       *)
(* operator is final, and a dry run writes nothing.  What the cog of the   *)
(* sheet keeps for any rows, window and hands at work on them: what of a   *)
(* contact promotion copies, the target has as corrected, and what it      *)
(* leaves out the target has as corrected or not at all.                   *)
(***************************************************************************)
EXTENDS SourcingRun, ReviewSheet, FiniteSetTheorems, TLAPS

-----------------------------------------------------------------------------
(* The sourcing run *)

\* Between rounds no verify brief is outstanding.
RoundsAreClosed == pc # "absorb" => verify = {}

\* A claim is of a row that is there, and one without a result is in this real
\* run's hands unless it is excused.
ClaimsInHand ==
    \A f \in claimed :
       /\ row[f] # "none"
       /\ row[f] = "stuck" => f \in excused \/ (f \in verify /\ ~dry)

IInv == TypeOK /\ SheetWithinTarget /\ RoundsAreClosed /\ ClaimsInHand

-----------------------------------------------------------------------------
(* Data lemmas *)

\* The exploration maximum is a number.
LEMMA ExplorationMaxNat == exploration_max \in Nat
BY SourcingAssumption DEF exploration_max

\* Any set of firms can be counted, and one firm more counts at most one more.
LEMMA FirmSets ==
    ASSUME NEW S, S \subseteq Firms
    PROVE  /\ IsFiniteSet(S) /\ Cardinality(S) \in Nat
           /\ \A f \in Firms : Cardinality(S \cup {f}) <= Cardinality(S) + 1
BY SourcingAssumption, FS_Subset, FS_CardinalityType, FS_AddElement

\* An empty sheet with the counters at zero is within every bound.
LEMMA EmptySheet ==
    ASSUME sheet = NoSheet, passed = 0, explored = 0
    PROVE  SheetWithinTarget
<1>1. Cardinality({}) = 0 BY FS_EmptySet
<1>2. sheet.own \cap OutOfList = {} BY DEF NoSheet
<1> QED BY <1>1, <1>2, SourcingAssumption, ExplorationMaxNat DEF SheetWithinTarget, NoSheet

\* A firm of the run's own: the sheet grows by one at most, and by a firm outside
\* the list only if it is one.
LEMMA OwnGrows ==
    ASSUME sheet \in Sheets, NEW f \in Firms,
           sheet' = [sheet EXCEPT !.own = @ \cup {f}]
    PROVE  /\ sheet'.released = sheet.released
           /\ Cardinality(sheet'.own) \in Nat
           /\ Cardinality(sheet'.own) <= Cardinality(sheet.own) + 1
           /\ Cardinality(sheet'.own \cap OutOfList) \in Nat
           /\ Cardinality(sheet'.own \cap OutOfList) <=
                 Cardinality(sheet.own \cap OutOfList) + IF f \in OutOfList THEN 1 ELSE 0
<1> DEFINE own == sheet.own
           out == sheet.own \cap OutOfList
<1>1. own \subseteq Firms /\ out \subseteq Firms BY DEF Sheets
<1>2. sheet'.released = sheet.released /\ sheet'.own = own \cup {f} BY DEF Sheets
<1>3. sheet'.own \cap OutOfList = IF f \in OutOfList THEN out \cup {f} ELSE out
    BY <1>2
<1> HIDE DEF own, out
<1>4. /\ Cardinality(own \cup {f}) <= Cardinality(own) + 1
      /\ Cardinality(out \cup {f}) <= Cardinality(out) + 1 /\ Cardinality(out) \in Nat
    BY <1>1, FirmSets
<1>5. Cardinality(own \cup {f}) \in Nat /\ Cardinality(out \cup {f}) \in Nat
    BY <1>1, FirmSets
<1>6. Cardinality(sheet'.own) \in Nat /\ Cardinality(sheet'.own) <= Cardinality(own) + 1
    BY <1>2, <1>4, <1>5
<1>7. /\ Cardinality(sheet'.own \cap OutOfList) \in Nat
      /\ Cardinality(sheet'.own \cap OutOfList) <=
            Cardinality(out) + IF f \in OutOfList THEN 1 ELSE 0
    <2> DEFINE new == sheet'.own \cap OutOfList
               more == out \cup {f}
    <2>1. new = IF f \in OutOfList THEN more ELSE out BY <1>3
    <2>2. Cardinality(more) \in Nat /\ Cardinality(more) <= Cardinality(out) + 1
        BY <1>4, <1>5
    <2> HIDE DEF new, more
    <2>3. Cardinality(new) \in Nat
          /\ Cardinality(new) <= Cardinality(out) + IF f \in OutOfList THEN 1 ELSE 0
        BY <1>4, <2>1, <2>2
    <2> QED BY <2>3 DEF new
<1> QED BY <1>2, <1>6, <1>7 DEF own, out

\* A verdict is never "stuck", "none" or a decision, and a firm is only shown while
\* there is room in the target and, outside the list, in the exploration maximum.
LEMMA VerdictFacts ==
    ASSUME NEW f
    PROVE  /\ Verdict(f \in OutOfList) \in {"explore", "held", "eligible"}
           /\ Verdict(f \in OutOfList) = "eligible" => ~(passed >= TargetN)
           /\ Verdict(f \in OutOfList) = "eligible" /\ f \in OutOfList =>
                 ~(explored >= exploration_max)
BY DEF Verdict

\* Absorbing a brief takes it out of the round, and nothing else.
LEMMA ConsumeFacts ==
    ASSUME TypeOK, NEW f \in Firms, Subject(f), Consume(f)
    PROVE  /\ verify' = verify \ {f}
           /\ finds' \in Nat /\ tests' \in Nat
<1>1. CASE f \in verify
    BY <1>1 DEF TypeOK, Consume
<1>2. CASE f \in OutOfList \ verify
    <2>1. tests \in Nat /\ tests > 0 BY <1>2 DEF TypeOK, Subject
    <2>2. tests' = tests - 1 /\ verify' = verify /\ finds' = finds
        BY <1>2 DEF Consume
    <2> QED BY <1>2, <2>1, <2>2 DEF TypeOK
<1>3. CASE f \notin verify /\ f \notin OutOfList
    <2>1. finds \in Nat /\ finds > 0 BY <1>3 DEF TypeOK, Subject
    <2>2. finds' = finds - 1 /\ verify' = verify /\ tests' = tests
        BY <1>3 DEF Consume
    <2> QED BY <1>3, <2>1, <2>2 DEF TypeOK
<1> QED BY <1>1, <1>2, <1>3

\* A store writes one verdict on a row that is the run's to write, or nothing.
LEMMA StoreFacts ==
    ASSUME TypeOK, NEW f \in Firms, NEW v \in {"explore", "held", "eligible", "failed"},
           store(f, v)
    PROVE  /\ row' \in [Firms -> RowStates] /\ claimed' \subseteq Firms
           /\ excused' \subseteq Firms /\ sheet' \in Sheets
           /\ sheet' = sheet \/ (v = "eligible" /\ sheet' = [sheet EXCEPT !.own = @ \cup {f}])
           /\ \A g \in Firms : g # f => /\ row'[g] = row[g]
                                        /\ g \in claimed' <=> g \in claimed
           /\ excused \subseteq excused'
           /\ dry => row' = row /\ claimed' = claimed
           /\ row[f] = "reviewed" => row'[f] = "reviewed"
           /\ \/ row'[f] = v
              \/ /\ row' = row /\ claimed' = claimed
                 /\ f \in verify /\ ~dry => f \in excused'
BY DEF TypeOK, store, Writable, RowStates, Unreviewed, Sheets

-----------------------------------------------------------------------------
(* The inductive invariant *)

\* It holds before the first run.
LEMMA IInvInit == Init => IInv
<1> SUFFICES ASSUME Init PROVE IInv OBVIOUS
<1> USE DEF Init
<1>1. TypeOK
    <2>1. rounds \in 0 .. MaxRounds /\ started \in 0 .. MaxRuns BY SourcingAssumption
    <2>2. row \in [Firms -> RowStates] BY DEF RowStates, Unreviewed
    <2> QED BY <2>1, <2>2 DEF TypeOK, Sheets, NoSheet
<1>2. SheetWithinTarget BY EmptySheet DEF NoSheet
<1> QED BY <1>1, <1>2 DEF IInv, RoundsAreClosed, ClaimsInHand

\* Starting a run releases at most TargetN held rows; what it re-opens counts
\* nowhere.
LEMMA StartRunStep ==
    ASSUME IInv, NEW d \in BOOLEAN, StartRun(d) PROVE IInv'
<1> DEFINE opened == IF d THEN {} ELSE InState("explore")
<1> DEFINE limit == IF d THEN 0 ELSE TargetN
<1> USE DEF IInv
<1>1. PICK released \in SUBSET InState("held") :
          /\ Cardinality(released) = Lesser(limit, Cardinality(InState("held")))
          /\ row' = [f \in Firms |->
                        IF f \in released \cup opened THEN "eligible" ELSE row[f]]
          /\ passed' = Cardinality(released)
          /\ sheet' = [released |-> released, reopened |-> opened, own |-> {}]
    BY DEF StartRun, release_held, housekeeping
<1>2. released \subseteq Firms /\ InState("held") \subseteq Firms BY DEF InState
<1>3. Cardinality(released) \in Nat /\ Cardinality(InState("held")) \in Nat
    BY <1>2, FirmSets
<1>4. Cardinality(released) <= TargetN
    BY <1>1, <1>3, SourcingAssumption DEF Lesser
<1>5. \A f \in Firms : row'[f] = row[f] \/ (row[f] \in {"held", "explore"} /\ row'[f] = "eligible")
    BY <1>1 DEF InState
<1>6. UNCHANGED <<claimed, verify, excused>> /\ verify = {} /\ pc' = "round"
    BY DEF StartRun, RoundsAreClosed
<1>7. row' \in [Firms -> RowStates]
    BY <1>1, <1>2 DEF TypeOK, RowStates, Unreviewed
<1>8. TypeOK'
    <2>1. started' \in 0 .. MaxRuns BY SourcingAssumption DEF TypeOK, StartRun
    <2>2. /\ known' \subseteq Firms /\ dry' \in BOOLEAN
          /\ UNCHANGED <<fresh, tried, finds, tests, stop, rounds, explored>>
        BY DEF StartRun, known_domains
    <2>3. sheet' \in Sheets BY <1>1, <1>2 DEF Sheets, InState
    <2> QED BY <1>1, <1>2, <1>3, <1>6, <1>7, <2>1, <2>2, <2>3 DEF TypeOK
<1>9. SheetWithinTarget'
    <2>1. /\ sheet'.released = released /\ sheet'.own = {}
          /\ passed' = Cardinality(released) /\ explored' = explored
        BY <1>1 DEF StartRun
    <2>2. Cardinality({}) = 0 BY FS_EmptySet
    <2>3. sheet'.own \cap OutOfList = {} BY <2>1
    <2>4. explored \in Nat /\ explored <= exploration_max BY DEF TypeOK, SheetWithinTarget
    <2> QED BY <1>3, <1>4, <2>1, <2>2, <2>3, <2>4 DEF SheetWithinTarget
<1>10. ClaimsInHand'
    BY <1>5, <1>6 DEF TypeOK, ClaimsInHand
<1> QED BY <1>6, <1>8, <1>9, <1>10 DEF RoundsAreClosed

\* A round claims stuck rows only, and holds what it claims.
LEMMA StartRoundStep ==
    ASSUME IInv, StartRound PROVE IInv'
<1> USE DEF IInv
<1>0. PICK cap \in 1 .. At_most(TargetN - passed) :
          \E stuck \in SUBSET StuckPool : \E plan \in [inList : Nat, testing : Nat] :
             IF stuck = {} /\ plan.inList + plan.testing = 0
               THEN pc' = "finish" /\ UNCHANGED <<verify, finds, tests, tried, claimed>>
               ELSE /\ pc' = "absorb"
                    /\ verify' = stuck /\ finds' = plan.inList /\ tests' = plan.testing
                    /\ tried' = tried \cup stuck
                    /\ claimed' = IF dry THEN claimed ELSE claimed \cup stuck
    <2>1. \A room : \A plan \in expand_plan(room) : plan \in [inList : Nat, testing : Nat]
        BY DEF expand_plan
    <2> QED BY <2>1 DEF StartRound
<1>1. PICK stuck \in SUBSET StuckPool, plan \in [inList : Nat, testing : Nat] :
          IF stuck = {} /\ plan.inList + plan.testing = 0
            THEN pc' = "finish" /\ UNCHANGED <<verify, finds, tests, tried, claimed>>
            ELSE /\ pc' = "absorb"
                 /\ verify' = stuck /\ finds' = plan.inList /\ tests' = plan.testing
                 /\ tried' = tried \cup stuck
                 /\ claimed' = IF dry THEN claimed ELSE claimed \cup stuck
    BY <1>0
<1>2. \A f \in stuck : f \in Firms /\ row[f] = "stuck" BY DEF StuckPool, InState
<1>3. verify = {} BY DEF StartRound, RoundsAreClosed
<1>4. UNCHANGED <<row, dry, stop, passed, explored, sheet, excused, started>>
    BY DEF StartRound
<1>5. rounds' \in 0 .. MaxRounds
    BY SourcingAssumption DEF StartRound, TypeOK
<1>6. known' \subseteq Firms /\ fresh' \subseteq Firms
    BY DEF StartRound, TypeOK
<1>7. CASE stuck = {} /\ plan.inList + plan.testing = 0
    <2>1. pc' = "finish" /\ UNCHANGED <<verify, finds, tests, tried, claimed>>
        BY <1>1, <1>7
    <2> QED BY <2>1, <1>3, <1>4, <1>5, <1>6
            DEF TypeOK, SheetWithinTarget, RoundsAreClosed, ClaimsInHand
<1>8. CASE ~(stuck = {} /\ plan.inList + plan.testing = 0)
    <2>1. /\ pc' = "absorb" /\ verify' = stuck /\ finds' = plan.inList /\ tests' = plan.testing
          /\ tried' = tried \cup stuck
          /\ claimed' = IF dry THEN claimed ELSE claimed \cup stuck
        BY <1>1, <1>8
    <2>2. plan.inList \in Nat /\ plan.testing \in Nat OBVIOUS
    <2>3. TypeOK' BY <1>2, <1>4, <1>5, <1>6, <2>1, <2>2 DEF TypeOK
    <2>4. ClaimsInHand' BY <1>2, <1>3, <1>4, <2>1 DEF ClaimsInHand
    <2> QED BY <1>4, <2>1, <2>3, <2>4 DEF SheetWithinTarget, RoundsAreClosed
<1> QED BY <1>7, <1>8

\* What absorbing a dossier with verdict v does to the claims and the types.
LEMMA AbsorbStep ==
    ASSUME IInv, NEW f \in Firms, NEW v \in {"explore", "held", "eligible", "failed"},
           pc = "absorb", Subject(f), store(f, v), Consume(f),
           fresh' = IF dry THEN fresh ELSE fresh \cup {f},
           passed' \in Nat, explored' \in Nat,
           UNCHANGED <<pc, dry, known, tried, stop, rounds, started>>
    PROVE  TypeOK' /\ RoundsAreClosed' /\ ClaimsInHand'
<1> USE DEF IInv
<1>1. verify' = verify \ {f} /\ finds' \in Nat /\ tests' \in Nat BY ConsumeFacts
<1>2. /\ row' \in [Firms -> RowStates] /\ claimed' \subseteq Firms
      /\ excused' \subseteq Firms /\ sheet' \in Sheets
    BY StoreFacts
<1>3. TypeOK' BY <1>1, <1>2 DEF TypeOK
<1>4. ASSUME NEW g \in claimed', g # f
      PROVE  row'[g] # "none" /\ (row'[g] = "stuck" => g \in excused' \/ (g \in verify' /\ ~dry'))
    <2>1. g \in claimed /\ row'[g] = row[g] BY <1>2, <1>4, StoreFacts
    <2>2. excused \subseteq excused' BY StoreFacts
    <2> QED BY <1>1, <1>4, <2>1, <2>2 DEF ClaimsInHand
<1>5. ASSUME f \in claimed'
      PROVE  row'[f] # "none" /\ (row'[f] = "stuck" => f \in excused')
    <2>1. CASE row'[f] = v BY <2>1
    <2>2. CASE row' = row /\ claimed' = claimed /\ (f \in verify /\ ~dry => f \in excused')
        <3>1. excused \subseteq excused' BY StoreFacts
        <3> QED BY <1>5, <2>2, <3>1 DEF ClaimsInHand
    <2> QED BY <2>1, <2>2, StoreFacts
<1>6. ClaimsInHand' BY <1>4, <1>5 DEF ClaimsInHand
<1> QED BY <1>3, <1>6 DEF RoundsAreClosed

\* A passing dossier is counted and shown only while there is room for it.
LEMMA AbsorbPassStep ==
    ASSUME IInv, NEW f \in Firms, AbsorbPass(f) PROVE IInv'
<1> DEFINE out == f \in OutOfList
           v == Verdict(out)
<1> USE DEF IInv
<1>1. /\ v \in {"explore", "held", "eligible"}
      /\ v = "eligible" => ~(passed >= TargetN)
      /\ v = "eligible" /\ out => ~(explored >= exploration_max)
    BY VerdictFacts
<1>2. Count(v, out) /\ store(f, v) BY DEF AbsorbPass
<1>3. /\ passed' = passed + (IF v = "eligible" THEN 1 ELSE 0)
      /\ explored' = explored + (IF v = "eligible" /\ out THEN 1 ELSE 0)
    BY <1>2 DEF Count
<1> HIDE DEF v, out
<1>4. passed \in Nat /\ explored \in Nat /\ sheet \in Sheets BY DEF TypeOK
<1>5. passed' \in Nat /\ explored' \in Nat BY <1>3, <1>4
<1>6. TypeOK' /\ RoundsAreClosed' /\ ClaimsInHand'
    BY <1>1, <1>2, <1>5, AbsorbStep DEF AbsorbPass
<1>7. /\ Cardinality(sheet.released) + Cardinality(sheet.own) <= passed
      /\ Cardinality(sheet.own \cap OutOfList) <= explored
    BY DEF SheetWithinTarget
<1>8. /\ Cardinality(sheet.released) \in Nat /\ Cardinality(sheet.own) \in Nat
      /\ Cardinality(sheet.own \cap OutOfList) \in Nat
    <2>1. /\ sheet.released \subseteq Firms /\ sheet.own \subseteq Firms
          /\ sheet.own \cap OutOfList \subseteq Firms
        BY <1>4 DEF Sheets
    <2> QED BY <2>1, FirmSets
<1>9. /\ Cardinality(sheet'.released) + Cardinality(sheet'.own) <= passed'
      /\ Cardinality(sheet'.own \cap OutOfList) <= explored'
    <2>1. CASE sheet' = sheet BY <1>3, <1>4, <1>7, <1>8, <2>1
    <2>2. CASE v = "eligible" /\ sheet' = [sheet EXCEPT !.own = @ \cup {f}]
        <3>1. /\ passed' = passed + 1
              /\ explored' = explored + IF f \in OutOfList THEN 1 ELSE 0
            BY <1>3, <2>2 DEF out
        <3>2. /\ sheet'.released = sheet.released
              /\ Cardinality(sheet'.own) \in Nat
              /\ Cardinality(sheet'.own) <= Cardinality(sheet.own) + 1
              /\ Cardinality(sheet'.own \cap OutOfList) \in Nat
              /\ Cardinality(sheet'.own \cap OutOfList) <=
                    Cardinality(sheet.own \cap OutOfList) + IF f \in OutOfList THEN 1 ELSE 0
            BY <1>4, <2>2, OwnGrows
        <3> QED BY <1>4, <1>7, <1>8, <3>1, <3>2
    <2> QED BY <1>1, <1>2, <2>1, <2>2, StoreFacts
<1>10. passed' <= TargetN /\ explored' <= exploration_max
    BY <1>1, <1>3, <1>4, SourcingAssumption, ExplorationMaxNat DEF SheetWithinTarget
<1> QED BY <1>6, <1>9, <1>10 DEF SheetWithinTarget

\* A failed one is stored and never shown.
LEMMA AbsorbFailureStep ==
    ASSUME IInv, NEW f \in Firms, AbsorbFailure(f) PROVE IInv'
<1> USE DEF IInv
<1>1. passed' = passed /\ explored' = explored /\ store(f, "failed") BY DEF AbsorbFailure
<1>2. passed \in Nat /\ explored \in Nat BY DEF TypeOK
<1>3. TypeOK' /\ RoundsAreClosed' /\ ClaimsInHand'
    BY <1>1, <1>2, AbsorbStep DEF AbsorbFailure
<1>4. sheet' = sheet BY <1>1, StoreFacts
<1> QED BY <1>1, <1>3, <1>4 DEF SheetWithinTarget

\* A brief without a result excuses the row it was about.
LEMMA AbsorbNothingStep ==
    ASSUME IInv, NEW f \in Firms, AbsorbNothing(f) PROVE IInv'
<1> USE DEF IInv
<1>1. verify' = verify \ {f} /\ finds' \in Nat /\ tests' \in Nat
    BY ConsumeFacts DEF AbsorbNothing
<1>2. excused' = IF f \in verify /\ ~dry THEN excused \cup {f} ELSE excused
    BY DEF AbsorbNothing
<1>3. UNCHANGED <<row, claimed, pc, dry, known, fresh, tried, rounds, passed, explored,
                  sheet, started>>
    BY DEF AbsorbNothing
<1>4. stop' \in BOOLEAN BY DEF AbsorbNothing, TypeOK
<1>5. TypeOK' BY <1>1, <1>2, <1>3, <1>4 DEF TypeOK
<1>6. ClaimsInHand' BY <1>1, <1>2, <1>3 DEF ClaimsInHand
<1>7. pc = "absorb" BY DEF AbsorbNothing
<1> QED BY <1>3, <1>5, <1>6, <1>7 DEF SheetWithinTarget, RoundsAreClosed

\* The end of a process, orderly or not, leaves no claim in hand.
LEMMA ExitStep ==
    ASSUME IInv, Exit, UNCHANGED <<row, claimed, started>>, excused' \subseteq Firms,
           excused \subseteq excused', ~dry => verify \subseteq excused'
    PROVE  IInv'
<1> USE DEF IInv
<1>1. TypeOK'
    <2>1. rounds' \in 0 .. MaxRounds BY SourcingAssumption DEF Exit
    <2> QED BY <2>1 DEF Exit, TypeOK, Sheets, NoSheet
<1>2. SheetWithinTarget'
    <2>1. sheet'.own = {} /\ sheet'.released = {} /\ passed' = 0 /\ explored' = 0
        BY DEF Exit, NoSheet
    <2>2. Cardinality({}) = 0 BY FS_EmptySet
    <2>3. sheet'.own \cap OutOfList = {} BY <2>1
    <2> QED BY <2>1, <2>2, <2>3, SourcingAssumption, ExplorationMaxNat DEF SheetWithinTarget
<1>3. ClaimsInHand' BY DEF ClaimsInHand
<1> QED BY <1>1, <1>2, <1>3 DEF Exit, RoundsAreClosed

\* Every step keeps the invariant.
LEMMA IInvStep == IInv /\ [Next]_vars => IInv'
<1> SUFFICES ASSUME IInv, [Next]_vars PROVE IInv' OBVIOUS
<1>1. ASSUME NEW d \in BOOLEAN, StartRun(d) PROVE IInv' BY <1>1, StartRunStep
<1>2. CASE StopRun
    <2>1. verify = {} BY <1>2 DEF StopRun, IInv, RoundsAreClosed
    <2> QED BY <1>2, <2>1
            DEF StopRun, IInv, TypeOK, SheetWithinTarget, RoundsAreClosed, ClaimsInHand
<1>3. CASE StartRound BY <1>3, StartRoundStep
<1>4. CASE EndRound
    BY <1>4 DEF EndRound, IInv, TypeOK, SheetWithinTarget, RoundsAreClosed, ClaimsInHand
<1>5. CASE Finish
    <2>1. verify = {} BY <1>5 DEF Finish, IInv, RoundsAreClosed
    <2>2. excused \subseteq Firms BY DEF IInv, TypeOK
    <2> QED BY <1>5, <2>1, <2>2, ExitStep DEF Finish
<1>6. CASE Crash
    <2>1. excused \subseteq Firms /\ verify \subseteq Firms BY DEF IInv, TypeOK
    <2> QED BY <1>6, <2>1, ExitStep DEF Crash
<1>7. ASSUME NEW f \in Firms, AbsorbPass(f) PROVE IInv' BY <1>7, AbsorbPassStep
<1>8. ASSUME NEW f \in Firms, AbsorbFailure(f) PROVE IInv' BY <1>8, AbsorbFailureStep
<1>9. ASSUME NEW f \in Firms, AbsorbNothing(f) PROVE IInv' BY <1>9, AbsorbNothingStep
<1>10. ASSUME NEW f \in Firms, Review(f) PROVE IInv'
    <2>1. row' = [row EXCEPT ![f] = "reviewed"] /\ UNCHANGED <<claimed, runVars, excused, started>>
        BY <1>10 DEF Review
    <2>2. TypeOK' BY <2>1 DEF IInv, TypeOK, runVars, RowStates
    <2>3. ClaimsInHand' BY <2>1 DEF IInv, TypeOK, runVars, ClaimsInHand
    <2> QED BY <2>1, <2>2, <2>3 DEF IInv, runVars, SheetWithinTarget, RoundsAreClosed
<1>11. ASSUME NEW f \in Firms, insert_discovery(f) PROVE IInv'
    <2>1. /\ row' = [row EXCEPT ![f] = "stuck"] /\ UNCHANGED <<claimed, runVars, excused, started>>
          /\ row[f] = "none"
        BY <1>11 DEF insert_discovery
    <2>2. f \notin claimed BY <2>1 DEF IInv, ClaimsInHand
    <2>3. TypeOK' BY <2>1 DEF IInv, TypeOK, runVars, RowStates, Unreviewed
    <2>4. ClaimsInHand' BY <2>1, <2>2 DEF IInv, TypeOK, runVars, ClaimsInHand
    <2> QED BY <2>1, <2>3, <2>4 DEF IInv, runVars, SheetWithinTarget, RoundsAreClosed
<1>12. CASE UNCHANGED vars
    BY <1>12 DEF vars, runVars, IInv, TypeOK, SheetWithinTarget, RoundsAreClosed, ClaimsInHand
<1> QED
    BY <1>1, <1>2, <1>3, <1>4, <1>5, <1>6, <1>7, <1>8, <1>9, <1>10, <1>11, <1>12 DEF Next

-----------------------------------------------------------------------------
(* Theorems *)

\* However the runs, the crashes and the operator interleave, the invariant holds.
THEOREM SourcingInvariant == Spec => []IInv
BY IInvInit, IInvStep, PTL DEF Spec

\* Every variable keeps its type, for any pool and any number of runs.
THEOREM SourcingTyped == Spec => []TypeOK
<1>1. IInv => TypeOK BY DEF IInv
<1> QED BY <1>1, SourcingInvariant, PTL

\* A run never releases and finds more than its target, nor finds more than the
\* exploration maximum of firms outside the list, however a round overshoots. The
\* exploration holds it re-opens come on top.
THEOREM SheetStaysWithinTarget == Spec => []SheetWithinTarget
<1>1. IInv => SheetWithinTarget BY DEF IInv
<1> QED BY <1>1, SourcingInvariant, PTL

\* Between runs every claimed row without a result is excused by an error, a refused
\* store, an empty-handed worker or a crash.
THEOREM EveryClaimIsAnswered == Spec => []ClaimsAreAnswered
<1>1. IInv => ClaimsAreAnswered
    BY DEF IInv, ClaimsAreAnswered, RoundsAreClosed, ClaimsInHand
<1> QED BY <1>1, SourcingInvariant, PTL

\* A store leaves the decided rows alone.
LEMMA StoreKeepsReviews ==
    ASSUME TypeOK, NEW f \in Firms, NEW v \in {"explore", "held", "eligible", "failed"},
           store(f, v), NEW g \in Firms, row[g] = "reviewed"
    PROVE  row'[g] = "reviewed"
BY StoreFacts

\* No step touches a row the operator has decided.
LEMMA ReviewStep ==
    ASSUME TypeOK, [Next]_vars, NEW g \in Firms, row[g] = "reviewed"
    PROVE  row'[g] = "reviewed"
<1>1. ASSUME NEW d \in BOOLEAN, StartRun(d) PROVE row'[g] = "reviewed"
    BY <1>1 DEF StartRun, InState, release_held, housekeeping
<1>2. ASSUME NEW f \in Firms, AbsorbPass(f) PROVE row'[g] = "reviewed"
    <2>1. store(f, Verdict(f \in OutOfList)) BY <1>2 DEF AbsorbPass
    <2>2. Verdict(f \in OutOfList) \in {"explore", "held", "eligible"} BY VerdictFacts
    <2> QED BY <2>1, <2>2, StoreKeepsReviews
<1>3. ASSUME NEW f \in Firms, AbsorbFailure(f) PROVE row'[g] = "reviewed"
    BY <1>3, StoreKeepsReviews DEF AbsorbFailure
<1>4. ASSUME NEW f \in Firms, Review(f) PROVE row'[g] = "reviewed"
    BY <1>4 DEF Review, TypeOK
<1>5. ASSUME NEW f \in Firms, insert_discovery(f) PROVE row'[g] = "reviewed"
    BY <1>5 DEF insert_discovery, TypeOK
<1>6. CASE StopRun \/ StartRound \/ EndRound \/ Finish \/ Crash
    BY <1>6 DEF StopRun, StartRound, EndRound, Finish, Crash
<1>7. ASSUME NEW f \in Firms, AbsorbNothing(f) PROVE row'[g] = "reviewed"
    BY <1>7 DEF AbsorbNothing
<1>8. CASE UNCHANGED vars BY <1>8 DEF vars
<1> QED BY <1>1, <1>2, <1>3, <1>4, <1>5, <1>6, <1>7, <1>8 DEF Next

\* A decision of the operator is final, whatever a late brief brings.
THEOREM ReviewsAreFinal == Spec => ReviewIsFinal
<1>1. TypeOK /\ [Next]_vars =>
         [\A f \in Firms : row[f] = "reviewed" => row'[f] = "reviewed"]_vars
    BY ReviewStep
<1> QED BY <1>1, SourcingTyped, PTL DEF Spec, ReviewIsFinal

\* During a dry run only the operator and other sources write.
LEMMA DryStep ==
    ASSUME TypeOK, [Next]_vars, pc # "idle", dry
    PROVE  /\ claimed' = claimed
           /\ \A f \in Firms : row'[f] \in {row[f], "reviewed", "stuck"}
<1>1. ASSUME NEW d \in BOOLEAN, StartRun(d) PROVE FALSE
    BY <1>1 DEF StartRun
<1>2. ASSUME NEW f \in Firms, AbsorbPass(f) PROVE row' = row /\ claimed' = claimed
    BY <1>2 DEF AbsorbPass, store
<1>3. ASSUME NEW f \in Firms, AbsorbFailure(f) PROVE row' = row /\ claimed' = claimed
    BY <1>3 DEF AbsorbFailure, store
<1>4. ASSUME NEW f \in Firms, Review(f)
      PROVE  claimed' = claimed /\ \A g \in Firms : row'[g] \in {row[g], "reviewed"}
    BY <1>4 DEF Review, TypeOK
<1>5. ASSUME NEW f \in Firms, insert_discovery(f)
      PROVE  claimed' = claimed /\ \A g \in Firms : row'[g] \in {row[g], "stuck"}
    BY <1>5 DEF insert_discovery, TypeOK
<1>6. CASE StartRound
    BY <1>6 DEF StartRound
<1>7. CASE StopRun \/ EndRound \/ Finish \/ Crash
    BY <1>7 DEF StopRun, EndRound, Finish, Crash
<1>8. ASSUME NEW f \in Firms, AbsorbNothing(f) PROVE row' = row /\ claimed' = claimed
    BY <1>8 DEF AbsorbNothing
<1>9. CASE UNCHANGED vars BY <1>9 DEF vars
<1> QED BY <1>1, <1>2, <1>3, <1>4, <1>5, <1>6, <1>7, <1>8, <1>9 DEF Next

\* A dry run writes nothing, whatever it finds.
THEOREM DryRunsWriteNothing == Spec => DryRunWritesNothing
<1>1. TypeOK /\ [Next]_vars =>
         [pc # "idle" /\ dry =>
             /\ claimed' = claimed
             /\ \A f \in Firms : row'[f] \in {row[f], "reviewed", "stuck"}]_vars
    BY DryStep
<1> QED BY <1>1, SourcingTyped, PTL DEF Spec, DryRunWritesNothing

-----------------------------------------------------------------------------
(* The review sheet *)

\* What a hand that is busy holds: its row; what it read, as its step needs it.
HandsHold ==
    /\ poll.step = "mark" => Len(card) > 0
    /\ \A h \in Hands :
          /\ hand[h].step # "free" => hand[h].row \in Rows
          /\ hand[h].step = "edit" => hand[h].read \in Reading
          /\ hand[h].step = "redraw" => hand[h].read \in Rendered /\ hand[h].msg # None

SheetTyped == SheetTypeOK /\ HandsHold

\* A target comes with the decision.
PromotedDecided ==
    \A r \in Rows : target[r] # None => decision[r] # None

\* An edit writes the target of a promoted row, unless the row was promoted
\* after the edit had read it.
EditsKnow ==
    \A h \in Hands : hand[h].step = "edit" =>
        IF hand[h].read.both THEN target[hand[h].row] # None
        ELSE target[hand[h].row] # None => hand[h].row \in crossed

\* TargetCarriesCorrections of one row.
RowCarries(r) ==
    target[r] # None =>
        /\ target[r]["first_name"] \in {target[r]["name"], None}
        /\ r \notin crossed =>
              /\ \A f \in Copied : target[r][f] = contact[r][f]
              /\ target[r]["confidence"] \in {contact[r]["confidence"], None}

SheetInv == SheetTyped /\ PromotedDecided /\ EditsKnow /\ TargetCarriesCorrections

-----------------------------------------------------------------------------
(* The types of the sheet *)

\* What is shown of any set of rows is a message.
LEMMA RenderedFacts ==
    /\ \A S \in SUBSET Rows : \A v : v \in [S -> BOOLEAN] => v \in Rendered
    /\ \A v \in Rendered : DOMAIN v \subseteq Rows
BY DEF Rendered

\* Stamping rows with the last message.
LEMMA SurfaceTyped ==
    ASSUME NEW S, message \in [Rows -> 1..Len(card) \cup {None}],
           Len(card) \in Nat, Len(card) > 0, Surface(S)
    PROVE  message' \in [Rows -> 1..Len(card) \cup {None}]
BY SMT DEF Surface

\* The window looked up is that of what is eligible.
LEMMA WindowLookup == list_for_review = window_of(Eligible)
<1> DEFINE w == <<Eligible, window_of(Eligible)>>
<1>1. w \in Windows
    <2>1. Eligible \in SUBSET Rows
        BY DEF Eligible
    <2> QED BY <2>1 DEF Windows
<1>2. \A v \in Windows : v[1] = Eligible => v[2] = window_of(Eligible)
    BY DEF Windows
<1>3. (CHOOSE v \in Windows : v[1] = Eligible) \in {v \in Windows : v[1] = Eligible}
    BY <1>1
<1> QED BY <1>2, <1>3 DEF list_for_review

\* An edit of a row's contact.
LEMMA CorrectedFacts ==
    ASSUME NEW c \in [Fields -> 0..MaxEdits], NEW x \in Reading
    PROVE  /\ Corrected(c, x) \in [Fields -> 0..MaxEdits]
           /\ \A f \in Fields :
                 Corrected(c, x)[f] = IF f \in x.fields THEN x.by ELSE c[f]
BY SheetAssumption DEF Corrected, Reading

\* An edit of a target's.
LEMMA CorrectedTargetFacts ==
    ASSUME NEW t \in [TargetFields -> Values], NEW x \in Reading
    PROVE  /\ CorrectedTarget(t, x) \in [TargetFields -> Values]
           /\ CorrectedTarget(t, x) # None
           /\ \A f \in Fields :
                 CorrectedTarget(t, x)[f] = IF f \in x.fields THEN x.by ELSE t[f]
           /\ CorrectedTarget(t, x)["first_name"] =
                 IF "name" \in x.fields THEN x.by ELSE t["first_name"]
<1>1. x.by \in Values /\ x.fields \in SUBSET Fields
    BY SheetAssumption DEF Reading, Values
<1>2. DOMAIN t = TargetFields /\ \A f \in Fields : f \in TargetFields /\ f # "first_name"
    BY DEF TargetFields, Fields, Copied
<1>3. CorrectedTarget(t, x) = [f \in TargetFields |->
          IF f = "first_name" THEN IF "name" \in x.fields THEN x.by ELSE t[f]
          ELSE IF f \in x.fields THEN x.by ELSE t[f]]
    BY <1>1, <1>2 DEF CorrectedTarget, Corrected, TargetFields
<1>4. CorrectedTarget(t, x) \in [TargetFields -> Values]
    BY <1>1, <1>3
<1> QED BY <1>2, <1>3, <1>4, SheetAssumption DEF TargetFields

\* A new target: what promotion copies, and nothing else.
LEMMA PromotedFacts ==
    ASSUME NEW c \in [Fields -> 0..MaxEdits], NEW t,
           t = [f \in TargetFields |-> IF f \in Copied THEN c[f] ELSE None]
    PROVE  /\ t \in [TargetFields -> Values] /\ t # None
           /\ \A f \in Copied : t[f] = c[f]
           /\ t["confidence"] = None /\ t["first_name"] = None
<1>1. /\ Copied \subseteq Fields /\ Copied \subseteq TargetFields
      /\ {"confidence", "first_name"} \subseteq TargetFields \ Copied
    BY DEF TargetFields, Fields, Copied
<1>2. t \in [TargetFields -> Values]
    BY <1>1 DEF Values
<1> QED BY <1>1, <1>2, SheetAssumption

\* The sheet starts empty.
LEMMA SheetTypedInit == SheetInit => SheetTyped
<1> SUFFICES ASSUME SheetInit PROVE SheetTyped
    OBVIOUS
<1>1. card \in Seq(Rendered) /\ Len(card) = 0
    BY DEF SheetInit
<1>2. SheetTypeOK
    <2>1. /\ poll = [step |-> "start", pending |-> {}, page |-> {}]
          /\ hand = [h \in Hands |-> Free]
          /\ message = [r \in Rows |-> None] /\ attached = {}
        BY DEF SheetInit, Idle
    <2>2. /\ decision \in [Rows -> Decisions \cup {None}]
          /\ contact \in [Rows -> [Fields -> 0..MaxEdits]]
          /\ target \in [Rows -> [TargetFields -> Values] \cup {None}]
          /\ edits \in 0..MaxEdits /\ faults \in 0..MaxFaults
          /\ crossed = {} /\ stale = {}
        BY SheetAssumption DEF SheetInit
    <2> QED BY <1>1, <2>1, <2>2 DEF SheetTypeOK, Free
<1>3. HandsHold
    BY DEF SheetInit, HandsHold, Idle, Free
<1> QED BY <1>2, <1>3 DEF SheetTyped

\* The poll.
LEMMA PollTyped ==
    ASSUME SheetTyped, Poll \/ Restart
    PROVE  SheetTyped'
<1> USE SheetAssumption
<1>0. card \in Seq(Rendered) /\ Len(card) \in Nat
    BY DEF SheetTyped, SheetTypeOK
<1>1. CASE reattach_views
    <2>1. surfaced_pages \subseteq 1..Len(card)
        BY DEF SheetTyped, SheetTypeOK, surfaced_pages
    <2>2. faults' \in 0..MaxFaults
        BY <1>1 DEF SheetTyped, SheetTypeOK, reattach_views, Fault
    <2> QED BY <1>1, <2>1, <2>2 DEF SheetTyped, SheetTypeOK, HandsHold, reattach_views,
               rowVars, Idle
<1>2. CASE FetchWindow
    <2>1. poll' \in [step : {"send"}, pending : SUBSET Rows, page : SUBSET Rows]
        <3> DEFINE pending == {r \in list_for_review : message[r] = None}
        <3>1. list_for_review \subseteq Rows
            BY WindowLookup DEF window_of, Eligible, UnscoredPicks, ReservePicks, First, Ranked
        <3>2. poll' = [step |-> "send", pending |-> pending, page |-> {}]
            BY <1>2 DEF FetchWindow
        <3> QED BY <3>1, <3>2
    <2> QED BY <1>2, <2>1 DEF SheetTyped, SheetTypeOK, HandsHold, FetchWindow, rowVars
<1>3. CASE SendPage
    <2> DEFINE page == Ranked(poll.pending, PageSize)
               m == [r \in page |-> FALSE]
    <2>1. page \subseteq Rows /\ poll.pending \ page \subseteq Rows
        BY DEF SheetTyped, SheetTypeOK, Ranked
    <2>2. m \in Rendered
        BY <2>1, RenderedFacts
    <2> HIDE DEF page, m
    <2>3. /\ card' = Append(card, m)
          /\ attached' = attached \cup {Len(card) + 1}
          /\ poll' = [step |-> "mark", pending |-> poll.pending \ page, page |-> page]
          /\ UNCHANGED <<rowVars, hand, edits, faults, crossed, stale>>
        BY <1>3 DEF SendPage, page, m
    <2>4. card' \in Seq(Rendered) /\ Len(card') = Len(card) + 1
        BY <1>0, <2>2, <2>3
    <2>5. 1..Len(card) \subseteq 1..Len(card') /\ Len(card) + 1 \in 1..Len(card')
        BY <1>0, <2>4
    <2>6. SheetTypeOK'
        <3>1. /\ message' \in [Rows -> 1..Len(card') \cup {None}]
              /\ attached' \subseteq 1..Len(card')
            BY <2>3, <2>5 DEF SheetTyped, SheetTypeOK, rowVars
        <3>2. poll' \in [step : {"start", "idle", "send", "mark", "dead"},
                         pending : SUBSET Rows, page : SUBSET Rows]
            BY <2>1, <2>3
        <3>3. hand' \in [Hands -> [step : {"free", "edit", "refresh", "redraw"},
                           row : Rows \cup {None}, msg : 1..Len(card') \cup {None},
                           read : {None} \cup Rendered \cup Reading]]
            <4> SUFFICES ASSUME NEW h \in Hands
                         PROVE  hand[h] \in [step : {"free", "edit", "refresh", "redraw"},
                           row : Rows \cup {None}, msg : 1..Len(card') \cup {None},
                           read : {None} \cup Rendered \cup Reading]
                BY <2>3 DEF SheetTyped, SheetTypeOK
            <4>1. hand[h] \in [step : {"free", "edit", "refresh", "redraw"},
                           row : Rows \cup {None}, msg : 1..Len(card) \cup {None},
                           read : {None} \cup Rendered \cup Reading]
                BY DEF SheetTyped, SheetTypeOK
            <4> QED BY <4>1, <2>5
        <3> QED BY <2>3, <2>4, <3>1, <3>2, <3>3 DEF SheetTyped, SheetTypeOK, rowVars
    <2>7. HandsHold'
        BY <1>0, <2>3, <2>4 DEF SheetTyped, HandsHold
    <2> QED BY <2>6, <2>7 DEF SheetTyped
<1>4. CASE SendFails
    <2>1. faults' \in 0..MaxFaults
        BY <1>4 DEF SheetTyped, SheetTypeOK, SendFails, Fault
    <2> QED BY <1>4, <2>1 DEF SheetTyped, SheetTypeOK, HandsHold, SendFails, rowVars, Idle
<1>5. CASE MarkPage
    <2>1. message' \in [Rows -> 1..Len(card) \cup {None}]
        BY <1>0, <1>5, SurfaceTyped DEF SheetTyped, SheetTypeOK, HandsHold, MarkPage
    <2>2. /\ poll' \in [step : {"idle", "send"}, pending : SUBSET Rows, page : SUBSET Rows]
          /\ UNCHANGED <<decision, contact, target, card, attached, hand, edits,
                         faults, crossed, stale>>
        BY <1>5 DEF SheetTyped, SheetTypeOK, MarkPage, Idle
    <2> QED BY <2>1, <2>2 DEF SheetTyped, SheetTypeOK, HandsHold
<1>6. CASE MarkFails
    <2>1. message' \in [Rows -> 1..Len(card) \cup {None}]
        BY <1>0, <1>6, SurfaceTyped DEF SheetTyped, SheetTypeOK, HandsHold, MarkFails
    <2>2. faults' \in 0..MaxFaults
        BY <1>6 DEF SheetTyped, SheetTypeOK, MarkFails, Fault
    <2> QED BY <1>6, <2>1, <2>2 DEF SheetTyped, SheetTypeOK, HandsHold, MarkFails, Idle
<1>7. CASE Restart
    <2>1. faults' \in 0..MaxFaults
        BY <1>7 DEF SheetTyped, SheetTypeOK, Restart, Fault
    <2>2. hand' = [h \in Hands |-> Free]
          /\ poll' = [step |-> "start", pending |-> {}, page |-> {}]
          /\ attached' = {} /\ UNCHANGED <<rowVars, card, edits, crossed>>
        BY <1>7 DEF Restart, Idle
    <2>3. stale' \subseteq Rows
        BY <1>7 DEF SheetTyped, SheetTypeOK, HandsHold, Restart
    <2> QED BY <2>1, <2>2, <2>3 DEF SheetTyped, SheetTypeOK, HandsHold, rowVars, Free
<1> QED BY <1>1, <1>2, <1>3, <1>4, <1>5, <1>6, <1>7 DEF Poll

\* A hand that gets what its next step needs leaves the others as they are.
LEMMA HandTyped ==
    ASSUME SheetTyped, NEW h \in Hands, card' = card, poll' = poll,
           NEW v \in [step : {"free", "edit", "refresh", "redraw"},
                      row : Rows \cup {None}, msg : 1..Len(card) \cup {None},
                      read : {None} \cup Rendered \cup Reading],
           hand' = [hand EXCEPT ![h] = v],
           v.step # "free" => v.row \in Rows,
           v.step = "edit" => v.read \in Reading,
           v.step = "redraw" => v.read \in Rendered /\ v.msg # None
    PROVE  /\ HandsHold'
           /\ hand' \in [Hands -> [step : {"free", "edit", "refresh", "redraw"},
                           row : Rows \cup {None}, msg : 1..Len(card) \cup {None},
                           read : {None} \cup Rendered \cup Reading]]
<1>1. hand \in [Hands -> [step : {"free", "edit", "refresh", "redraw"},
                           row : Rows \cup {None}, msg : 1..Len(card) \cup {None},
                           read : {None} \cup Rendered \cup Reading]]
    BY DEF SheetTyped, SheetTypeOK
<1>2. \A i \in Hands : hand'[i] = IF i = h THEN v ELSE hand[i]
    BY <1>1
<1> QED BY <1>1, <1>2 DEF SheetTyped, HandsHold

\* Clicks, redraws and corrections.
LEMMA HandStepTyped ==
    ASSUME SheetTyped, EditsKnow, NEW h \in Hands, Hand(h)
    PROVE  SheetTyped'
<1> USE SheetAssumption
<1> DEFINE Held == [step : {"free", "edit", "refresh", "redraw"},
                    row : Rows \cup {None}, msg : 1..Len(card) \cup {None},
                    read : {None} \cup Rendered \cup Reading]
<1>0. /\ hand \in [Hands -> Held] /\ card \in Seq(Rendered) /\ Free \in Held
      /\ message \in [Rows -> 1..Len(card) \cup {None}] /\ Len(card) \in Nat
    BY DEF SheetTyped, SheetTypeOK, Free
<1>1. ASSUME NEW m, NEW r \in Rows, NEW d \in Decisions, Click(h, m, r, d)
      PROVE  /\ decision' \in [Rows -> Decisions \cup {None}]
             /\ hand' \in [Hands -> Held] /\ HandsHold'
             /\ UNCHANGED <<message, contact, card, attached, poll, edits, faults, stale>>
    <2> DEFINE v == [step |-> "refresh", row |-> r, msg |-> message[r], read |-> None]
    <2>1. v \in Held
        BY <1>0
    <2>2. hand' = [hand EXCEPT ![h] = v]
          /\ UNCHANGED <<message, contact, card, attached, poll, edits, faults, stale>>
        BY <1>1 DEF Click
    <2>3. hand' \in [Hands -> Held] /\ HandsHold'
        BY <2>1, <2>2, HandTyped
    <2> QED BY <1>1, <2>2, <2>3 DEF Click, SheetTyped, SheetTypeOK
<1>2. ASSUME NEW m, NEW r \in Rows, Reject(h, m, r) PROVE SheetTyped'
    <2>1. Click(h, m, r, "reject") /\ UNCHANGED <<target, crossed>>
        BY <1>2 DEF Reject
    <2> QED BY <1>1, <2>1 DEF SheetTyped, SheetTypeOK, Decisions
<1>3. ASSUME NEW m, NEW r \in Rows, approve(h, m, r) PROVE SheetTyped'
    <2> DEFINE t == [f \in TargetFields |-> IF f \in Copied THEN contact[r][f] ELSE None]
    <2>1. Click(h, m, r, "accept") /\ target' = [target EXCEPT ![r] = t]
          /\ crossed' \subseteq crossed \cup {r}
        BY <1>3 DEF approve, promote
    <2>2. contact[r] \in [Fields -> 0..MaxEdits]
        BY DEF SheetTyped, SheetTypeOK
    <2>3. t \in [TargetFields -> Values]
        BY <2>2, PromotedFacts
    <2> HIDE DEF t
    <2>4. target' \in [Rows -> [TargetFields -> Values] \cup {None}] /\ crossed' \subseteq Rows
        BY <2>1, <2>3 DEF SheetTyped, SheetTypeOK
    <2> QED BY <1>1, <2>1, <2>4 DEF SheetTyped, SheetTypeOK, Decisions
<1>4. ASSUME End(h), UNCHANGED <<card, poll>>
      PROVE  hand' \in [Hands -> Held] /\ HandsHold'
    BY <1>0, <1>4, HandTyped DEF End, Free
<1>5. CASE ReadPage(h)
    <2>1. CASE hand[h].msg = None \/ page_rows(hand[h].msg) = {}
        <3>1. End(h) /\ UNCHANGED <<rowVars, card, attached, poll, edits, faults, crossed>>
              /\ stale' \subseteq stale \cup {hand[h].row} /\ hand[h].row \in Rows
            BY <1>5, <2>1 DEF ReadPage, Doing, SheetTyped, HandsHold
        <3> QED BY <1>4, <3>1 DEF SheetTyped, SheetTypeOK, rowVars
    <2>2. CASE ~(hand[h].msg = None \/ page_rows(hand[h].msg) = {})
        <3> DEFINE rows == page_rows(hand[h].msg)
                   seen == [r \in rows |-> decision[r] # None]
                   v == [hand[h] EXCEPT !.step = "redraw", !.read = seen]
        <3>1. hand[h] \in Held /\ hand[h].row \in Rows /\ hand[h].msg # None
            BY <1>0, <1>5, <2>2 DEF ReadPage, Doing, SheetTyped, HandsHold
        <3>2. seen \in Rendered
            BY RenderedFacts DEF page_rows
        <3>3. hand' = [hand EXCEPT ![h] = v]
              /\ UNCHANGED <<rowVars, card, attached, poll, edits, faults, crossed, stale>>
            BY <1>0, <1>5, <2>2 DEF ReadPage
        <3> HIDE DEF seen
        <3>4. v \in Held /\ v.step = "redraw" /\ v.read = seen /\ v.row = hand[h].row
              /\ v.msg = hand[h].msg
            BY <3>1, <3>2
        <3> HIDE DEF v
        <3>5. hand' \in [Hands -> Held] /\ HandsHold'
            BY <3>1, <3>2, <3>3, <3>4, HandTyped DEF rowVars
        <3> QED BY <3>3, <3>5 DEF SheetTyped, SheetTypeOK, rowVars
    <2> QED BY <2>1, <2>2
<1>6. CASE EditMessage(h)
    <2> DEFINE m == hand[h].msg
    <2>1. m \in 1..Len(card) /\ hand[h].read \in Rendered
        BY <1>0, <1>6 DEF EditMessage, Doing, SheetTyped, HandsHold
    <2>2. card' = [card EXCEPT ![m] = hand[h].read] /\ attached' = attached \cup {m}
          /\ End(h) /\ UNCHANGED <<rowVars, poll, edits, faults, crossed>>
        BY <1>6 DEF EditMessage
    <2>3. card' \in Seq(Rendered) /\ Len(card') = Len(card)
        BY <1>0, <2>1, <2>2
    <2>4. stale' \subseteq Rows
        BY <1>6 DEF EditMessage, SheetTyped, SheetTypeOK, page_rows
    <2>5. hand' \in [Hands -> Held] /\ (poll.step = "mark" => Len(card) > 0)
          /\ \A i \in Hands : hand'[i] = IF i = h THEN Free ELSE hand[i]
        BY <1>0, <2>2 DEF End, SheetTyped, HandsHold
    <2>6. HandsHold'
        BY <2>2, <2>3, <2>5 DEF SheetTyped, HandsHold, Free
    <2> QED BY <2>1, <2>2, <2>3, <2>4, <2>5, <2>6 DEF SheetTyped, SheetTypeOK, rowVars
<1>7. CASE HandFails(h)
    <2>1. End(h) /\ UNCHANGED <<rowVars, card, attached, poll, edits, crossed>>
          /\ stale' \subseteq stale \cup {hand[h].row} /\ hand[h].row \in Rows
        BY <1>7 DEF HandFails, SheetTyped, HandsHold
    <2>2. faults' \in 0..MaxFaults
        BY <1>7 DEF HandFails, SheetTyped, SheetTypeOK, Fault
    <2> QED BY <1>4, <2>1, <2>2 DEF SheetTyped, SheetTypeOK, rowVars
<1>8. ASSUME NEW r \in Rows, ReadRecord(h, r) PROVE SheetTyped'
    <2>0. PICK fields \in Modals :
              hand' = [hand EXCEPT ![h] =
                          [step |-> "edit", row |-> r, msg |-> None,
                           read |-> [both |-> target[r] # None, by |-> edits + 1,
                                     fields |-> fields]]]
        BY <1>8 DEF ReadRecord
    <2> DEFINE reading == [both |-> target[r] # None, by |-> edits + 1, fields |-> fields]
               v == [step |-> "edit", row |-> r, msg |-> None, read |-> reading]
    <2>1. edits' \in 0..MaxEdits /\ reading \in Reading
        BY <1>8 DEF ReadRecord, SheetTyped, SheetTypeOK, Reading
    <2>2. hand' = [hand EXCEPT ![h] = v]
          /\ UNCHANGED <<rowVars, card, attached, poll, faults, crossed, stale>>
        BY <1>8, <2>0 DEF ReadRecord
    <2>3. v \in Held
        BY <2>1
    <2>4. hand' \in [Hands -> Held] /\ HandsHold'
        BY <2>1, <2>2, <2>3, HandTyped
    <2> QED BY <2>1, <2>2, <2>4 DEF SheetTyped, SheetTypeOK, rowVars
<1>9. CASE update_contact(h)
    <2> DEFINE r == hand[h].row
    <2>1. r \in Rows /\ hand[h].read \in Reading /\ hand[h] \in Held
        BY <1>0, <1>9 DEF update_contact, Doing, SheetTyped, HandsHold
    <2>2. /\ Corrected(contact[r], hand[h].read) \in [Fields -> 0..MaxEdits]
          /\ hand[h].read.both =>
                CorrectedTarget(target[r], hand[h].read) \in [TargetFields -> Values]
        <3>1. contact[r] \in [Fields -> 0..MaxEdits]
            BY <2>1 DEF SheetTyped, SheetTypeOK
        <3>2. hand[h].read.both => target[r] \in [TargetFields -> Values]
            BY <1>9, <2>1 DEF update_contact, Doing, EditsKnow, SheetTyped, SheetTypeOK
        <3> QED BY <2>1, <3>1, <3>2, CorrectedFacts, CorrectedTargetFacts
    <2>3. /\ contact' \in [Rows -> [Fields -> 0..MaxEdits]]
          /\ target' \in [Rows -> [TargetFields -> Values] \cup {None}]
        BY <1>9, <2>1, <2>2 DEF update_contact, SheetTyped, SheetTypeOK
    <2>4. UNCHANGED <<decision, message, card, attached, poll, edits, faults,
                      crossed, stale>>
        BY <1>9 DEF update_contact
    <2>5. hand' \in [Hands -> Held] /\ HandsHold'
        <3>1. CASE message[r] = None
            BY <1>4, <1>9, <2>4, <3>1 DEF update_contact
        <3>2. CASE message[r] # None
            <4> DEFINE v == [hand[h] EXCEPT !.step = "refresh", !.msg = message[r]]
            <4>1. hand' = [hand EXCEPT ![h] = v]
                BY <1>0, <1>9, <3>2 DEF update_contact
            <4>2. v \in Held /\ v.step = "refresh" /\ v.row = r
                BY <1>0, <2>1
            <4> HIDE DEF v
            <4> QED BY <2>1, <2>4, <4>1, <4>2, HandTyped
        <3> QED BY <3>1, <3>2
    <2> QED BY <2>3, <2>4, <2>5 DEF SheetTyped, SheetTypeOK
<1> QED BY <1>2, <1>3, <1>5, <1>6, <1>7, <1>8, <1>9 DEF Hand

\* And every step.
LEMMA SheetTypedStep ==
    ASSUME SheetTyped, EditsKnow, [SheetNext]_sheetVars
    PROVE  SheetTyped'
<1>1. CASE UNCHANGED sheetVars
    BY <1>1 DEF SheetTyped, SheetTypeOK, HandsHold, sheetVars, rowVars
<1> QED BY <1>1, PollTyped, HandStepTyped DEF SheetNext

-----------------------------------------------------------------------------
(* Corrections *)

\* Nothing is promoted yet.
LEMMA CarriedInit ==
    SheetInit => PromotedDecided /\ EditsKnow /\ TargetCarriesCorrections
BY DEF SheetInit, PromotedDecided, EditsKnow, TargetCarriesCorrections, Free

\* Promotion copies the row, and an edit that has read its row before counts as
\* crossed; an edit that has read it after writes both.
LEMMA CarriedStep ==
    ASSUME SheetInv, [SheetNext]_sheetVars
    PROVE  PromotedDecided' /\ EditsKnow' /\ TargetCarriesCorrections'
<1> USE SheetAssumption
<1> DEFINE Carried == PromotedDecided /\ EditsKnow /\ TargetCarriesCorrections
<1>0. /\ decision \in [Rows -> Decisions \cup {None}]
      /\ contact \in [Rows -> [Fields -> 0..MaxEdits]]
      /\ target \in [Rows -> [TargetFields -> Values] \cup {None}]
      /\ hand \in [Hands -> [step : {"free", "edit", "refresh", "redraw"},
                            row : Rows \cup {None}, msg : 1..Len(card) \cup {None},
                            read : {None} \cup Rendered \cup Reading]]
      /\ Carried /\ HandsHold
    BY DEF SheetInv, SheetTyped, SheetTypeOK
\* No edit begins, and the rows stay as they are.
<1>1. ASSUME UNCHANGED <<decision, contact, target, crossed>>,
             \A h \in Hands : hand'[h].step = "edit" => hand'[h] = hand[h]
      PROVE  Carried'
    BY <1>0, <1>1 DEF PromotedDecided, EditsKnow, TargetCarriesCorrections
<1>2. CASE UNCHANGED sheetVars
    BY <1>1, <1>2 DEF sheetVars, rowVars
<1>3. CASE Poll \/ Restart
    <2>1. UNCHANGED <<decision, contact, target, crossed>>
          /\ (hand' = hand \/ hand' = [h \in Hands |-> Free])
        BY <1>3 DEF Poll, Restart, reattach_views, FetchWindow, SendPage, SendFails,
           MarkPage, MarkFails, rowVars
    <2> QED BY <1>1, <2>1 DEF Free
<1>4. ASSUME NEW h \in Hands, Hand(h) PROVE Carried'
    <2>1. ASSUME NEW m, NEW r \in Rows, Reject(h, m, r) PROVE Carried'
        <3>1. /\ UNCHANGED <<contact, target, crossed>>
              /\ decision' = [decision EXCEPT ![r] = "reject"]
              /\ \A i \in Hands : hand'[i].step = "edit" => hand'[i] = hand[i]
            BY <1>0, <2>1 DEF Reject, Click
        <3> QED BY <1>0, <3>1 DEF PromotedDecided, EditsKnow, TargetCarriesCorrections
    <2>2. ASSUME NEW m, NEW r \in Rows, approve(h, m, r) PROVE Carried'
        <3> DEFINE t == [f \in TargetFields |-> IF f \in Copied THEN contact[r][f] ELSE None]
        <3>1. /\ UNCHANGED contact /\ decision[r] = None
              /\ decision' = [decision EXCEPT ![r] = "accept"]
              /\ target' = [target EXCEPT ![r] = t]
              /\ \A i \in Hands : hand'[i].step = "edit" => hand'[i] = hand[i]
              /\ crossed \subseteq crossed'
              /\ \A i \in Hands : hand[i].step = "edit" /\ hand[i].row = r => r \in crossed'
            BY <1>0, <2>2 DEF approve, promote, Click, Doing
        <3>0. /\ t = [f \in TargetFields |-> IF f \in Copied THEN contact[r][f] ELSE None]
              /\ contact[r] \in [Fields -> 0..MaxEdits]
            BY <1>0
        <3> HIDE DEF t
        <3>2. /\ t # None /\ \A f \in Copied : t[f] = contact[r][f]
              /\ t["confidence"] = None /\ t["first_name"] = None
            BY <3>0, PromotedFacts
        <3>3. target'[r] = t /\ \A s \in Rows : s # r => target'[s] = target[s]
            BY <1>0, <3>1
        <3>4. PromotedDecided' /\ EditsKnow'
            BY <1>0, <3>1, <3>2, <3>3 DEF PromotedDecided, EditsKnow, HandsHold
        <3>5. TargetCarriesCorrections'
            BY <1>0, <3>1, <3>2, <3>3 DEF TargetCarriesCorrections
        <3> QED BY <3>4, <3>5
    <2>3. CASE ReadPage(h) \/ EditMessage(h) \/ HandFails(h)
        <3>1. UNCHANGED <<decision, contact, target, crossed>>
            BY <2>3 DEF ReadPage, EditMessage, HandFails, rowVars
        <3>2. hand'[h].step # "edit" /\ \A i \in Hands : i # h => hand'[i] = hand[i]
            <4>1. CASE End(h)
                BY <1>0, <4>1 DEF End, Free
            <4>2. CASE ReadPage(h) /\ ~End(h)
                <5>1. PICK v : hand' = [hand EXCEPT ![h].step = "redraw", ![h].read = v]
                    BY <4>2 DEF ReadPage
                <5> QED BY <1>0, <5>1
            <4> QED BY <2>3, <4>1, <4>2 DEF EditMessage, HandFails
        <3> QED BY <1>1, <3>1, <3>2
    <2>4. ASSUME NEW r \in Rows, ReadRecord(h, r) PROVE Carried'
        <3>1. /\ UNCHANGED <<decision, contact, target, crossed>>
              /\ \A i \in Hands : i # h => hand'[i] = hand[i]
              /\ hand'[h].row = r /\ hand'[h].read.both = (target[r] # None)
            BY <1>0, <2>4, \A fields : [both |-> target[r] # None, by |-> edits + 1,
                                        fields |-> fields].both = (target[r] # None)
               DEF ReadRecord, rowVars
        <3> QED BY <1>0, <3>1 DEF PromotedDecided, EditsKnow, TargetCarriesCorrections
    <2>5. CASE update_contact(h)
        <3> DEFINE r == hand[h].row
                   x == hand[h].read
        <3>1. r \in Rows /\ x \in Reading /\ hand[h].step = "edit"
            BY <1>0, <2>5 DEF update_contact, Doing, HandsHold
        <3>2. /\ UNCHANGED <<decision, crossed>>
              /\ contact' = [contact EXCEPT ![r] = Corrected(@, x)]
              /\ target' = IF x.both THEN [target EXCEPT ![r] = CorrectedTarget(@, x)]
                           ELSE target
            BY <2>5 DEF update_contact
        <3>3. hand'[h].step # "edit" /\ \A i \in Hands : i # h => hand'[i] = hand[i]
            <4>1. CASE End(h)
                BY <1>0, <4>1 DEF End, Free
            <4>2. CASE ~End(h)
                BY <1>0, <2>5, <4>2 DEF update_contact
            <4> QED BY <4>1, <4>2
        <3>4. x.both => target[r] # None /\ target[r] \in [TargetFields -> Values]
            BY <1>0, <3>1 DEF EditsKnow
        <3>5. \A s \in Rows : s # r => target'[s] = target[s] /\ contact'[s] = contact[s]
            BY <1>0, <3>1, <3>2
        <3>6. contact'[r] = Corrected(contact[r], x)
              /\ target'[r] = IF x.both THEN CorrectedTarget(target[r], x) ELSE target[r]
            BY <1>0, <3>1, <3>2
        <3>7. \A f \in Fields : contact'[r][f] = IF f \in x.fields THEN x.by ELSE contact[r][f]
            <4>1. contact[r] \in [Fields -> 0..MaxEdits]
                BY <1>0, <3>1
            <4> QED BY <3>1, <3>6, <4>1, CorrectedFacts
        <3>8. x.both => /\ target'[r] # None
                        /\ \A f \in Fields :
                              target'[r][f] = IF f \in x.fields THEN x.by ELSE target[r][f]
                        /\ target'[r]["first_name"] =
                              IF "name" \in x.fields THEN x.by ELSE target[r]["first_name"]
            BY <3>1, <3>4, <3>6, CorrectedTargetFacts
        <3>9. \A s \in Rows : target'[s] # None <=> target[s] # None
            BY <3>4, <3>5, <3>6, <3>8
        <3>10. PromotedDecided' /\ EditsKnow'
            BY <1>0, <3>1, <3>2, <3>3, <3>9 DEF PromotedDecided, EditsKnow, HandsHold
        <3>11. TargetCarriesCorrections'
            <4>1. /\ "name" \in Copied /\ "confidence" \in Fields
                  /\ Copied \subseteq Fields /\ Copied \subseteq TargetFields
                BY DEF TargetFields, Fields, Copied
            <4>2. ASSUME NEW s \in Rows PROVE RowCarries(s)'
                <5>1. RowCarries(s)
                    BY <1>0 DEF TargetCarriesCorrections, RowCarries
                <5>2. CASE s # r
                    BY <3>2, <3>5, <5>1, <5>2 DEF RowCarries
                <5>3. CASE s = r /\ x.both
                    <6>1. target[s] # None
                        BY <3>4, <5>3
                    <6>2. \A f \in Fields :
                              contact'[s][f] = IF f \in x.fields THEN x.by ELSE contact[s][f]
                        BY <3>7, <5>3
                    <6>3. /\ \A f \in Fields :
                                target'[s][f] = IF f \in x.fields THEN x.by ELSE target[s][f]
                          /\ target'[s]["first_name"] =
                                IF "name" \in x.fields THEN x.by ELSE target[s]["first_name"]
                        BY <3>8, <5>3
                    <6> QED BY <3>2, <4>1, <5>1, <6>1, <6>2, <6>3 DEF RowCarries
                <5>4. CASE s = r /\ ~x.both
                    <6>1. target'[s] = target[s] /\ (target[s] # None => s \in crossed')
                        BY <1>0, <3>1, <3>2, <3>6, <5>4 DEF EditsKnow
                    <6> QED BY <5>1, <6>1 DEF RowCarries
                <5> QED BY <5>2, <5>3, <5>4
            <4> QED BY <4>2 DEF TargetCarriesCorrections, RowCarries
        <3> QED BY <3>10, <3>11
    <2> QED BY <1>4, <2>1, <2>2, <2>3, <2>4, <2>5 DEF Hand
<1> QED BY <1>2, <1>3, <1>4 DEF SheetNext

\* What is proved of the sheet is one invariant.
THEOREM SheetInvariant == SheetSpec => []SheetInv
<1>1. SheetInit => SheetInv
    BY SheetTypedInit, CarriedInit DEF SheetInv
<1>2. SheetInv /\ [SheetNext]_sheetVars => SheetInv'
    <2> SUFFICES ASSUME SheetInv, [SheetNext]_sheetVars PROVE SheetInv'
        OBVIOUS
    <2> QED BY SheetTypedStep, CarriedStep DEF SheetInv
<1> QED BY <1>1, <1>2, PTL DEF SheetSpec

\* Whatever is clicked, corrected, redrawn and restarted, the sheet's rows, cards
\* and hands keep their types: an edit writes into a target only when there is one.
THEOREM SheetIsTyped == SheetSpec => []SheetTypeOK
<1>1. SheetInv => SheetTypeOK
    BY DEF SheetInv, SheetTyped
<1> QED BY <1>1, SheetInvariant, PTL

\* However corrections, approvals and restarts interleave, what promotion copies
\* of a contact is the same in a promoted firm's target and in its pool row,
\* unless the approval committed between an edit's read and its write; a confidence
\* is the row's or unset (promotion leaves it out), and a first name is that of the
\* target's name or unset, crossed or not.
THEOREM CorrectionsReachTheTarget == SheetSpec => []TargetCarriesCorrections
<1>1. SheetInv => TargetCarriesCorrections
    BY DEF SheetInv
<1> QED BY <1>1, SheetInvariant, PTL
=============================================================================

--------------------------- MODULE LeadIntakeProofs ---------------------------
(***************************************************************************)
(* What the lead intake keeps for any number of leads, firms, deliveries,  *)
(* background tasks and failures: one worker at most is past the insert of *)
(* a lead, so that it is qualified, embedded and proposed once; and a      *)
(* target carries the newest trigger of all it was ever told, and the      *)
(* first prospect it was linked to.                                        *)
(***************************************************************************)
EXTENDS LeadIntake, FiniteSetTheorems, TLAPS

\* The workers that have a lead for themselves.
Past(l) == {w \in Workers : work[w].lead = l /\ work[w].step \notin {"find", "insert"}}

\* Nothing was done for a lead that has no prospect row.
AbsentIsUntouched ==
    \A l \in Leads : prospect[l] = "absent" =>
        Past(l) = {} /\ tasks[l] = 0 /\ signals[l] = 0

\* One worker has the lead, and what it has still to do is not done yet.
OneWorkerEach ==
    \A l \in Leads :
        /\ tasks[l] <= 1 /\ signals[l] <= Pains
        /\ \A v, w \in Past(l) : v = w
        /\ \A w \in Past(l) :
              /\ work[w].step # "seed" => tasks[l] = 0
              /\ work[w].step \in {"qualify", "apply"} => signals[l] = 0
              /\ work[w].step = "signal" =>
                    work[w].left > 0 /\ signals[l] + work[w].left <= Pains

\* A worker with work has a lead, and a free one has nothing.
WorkHasLead == \A w \in Workers : IF work[w].step = "free" THEN work[w] = Free
                                  ELSE work[w].lead \in Leads

\* A firm without a target was told nothing, and nothing is decided about it.
NoTargetNoWord ==
    \A f \in Firms : target[f] = None => heard[f] = {} /\ deciding[f] = None

IInv == /\ TypeOK /\ AbsentIsUntouched /\ OneWorkerEach /\ WorkHasLead
        /\ NoTargetNoWord /\ NewestTriggerWins

-----------------------------------------------------------------------------
(* Data lemmas *)

\* A set whose members are all one has at most one.
LEMMA AtMostOne ==
    ASSUME NEW S, \A v, w \in S : v = w PROVE Cardinality(S) <= 1
<1>1. CASE S = {} BY <1>1, FS_EmptySet
<1>2. CASE S # {}
    <2>1. PICK w : S = {w} BY <1>2
    <2>2. Cardinality({w}) = 1 BY FS_Singleton
    <2> QED BY <2>1, <2>2
<1> QED BY <1>1, <1>2

\* Bounds that a zero is within, and a free worker.
LEMMA Zeros ==
    0 \in 0..Pains /\ 0 \in 0..MaxFaults /\ 1 \in Days /\ Pains \in 0..Pains /\ Free \in Jobs
<1>1. 0 \in 0..Pains /\ 0 \in 0..MaxFaults /\ 1 \in Days /\ Pains \in 0..Pains
    BY LeadAssumption DEF Days
<1> QED BY <1>1 DEF Free, Jobs, Steps

-----------------------------------------------------------------------------
(* The target *)

\* What a trigger does to a target.
LEMMA UpsertStep ==
    ASSUME TypeOK, NoTargetNoWord, NewestTriggerWins,
           NEW f \in Firms, NEW kind \in Kinds, NEW date \in 1..today,
           NEW l \in Leads \cup {None}, upsert_target(f, kind, date, l)
    PROVE  /\ target' \in [Firms -> Target \cup {None}]
           /\ heard' \in [Firms -> SUBSET (Kinds \X Days)]
           /\ \A g \in Firms : target'[g] = None => target[g] = None /\ heard'[g] = {}
           /\ NewestTriggerWins'
<1>0. PICK t, row : t = target[f] /\ row = Upserted(t, kind, date, l) OBVIOUS
<1>1. /\ heard' = [heard EXCEPT ![f] = @ \cup {<<kind, date>>}]
      /\ target' = [target EXCEPT ![f] = row]
    BY <1>0 DEF upsert_target
<1>2. date \in Days /\ Days \subseteq Nat BY LeadAssumption DEF TypeOK, Days
<1>3. t = None => row \in Target /\ row.kind = kind /\ row.date = date
    BY <1>0, <1>2 DEF Target, Upserted
<1>4. t # None => t \in Target BY <1>0 DEF TypeOK
<1>5. t # None => row \in Target /\ row.kind = (IF date > t.date THEN kind ELSE t.kind)
                                /\ row.date = (IF date > t.date THEN date ELSE t.date)
    BY <1>0, <1>2, <1>4 DEF Target, Upserted
<1>6. heard' \in [Firms -> SUBSET (Kinds \X Days)] BY <1>1, <1>2 DEF TypeOK
<1>7. target' \in [Firms -> Target \cup {None}] BY <1>1, <1>3, <1>5 DEF TypeOK
<1>8. /\ \A g \in Firms \ {f} : target'[g] = target[g] /\ heard'[g] = heard[g]
      /\ heard'[f] = heard[f] \cup {<<kind, date>>}
      /\ target'[f] = row
    BY <1>1 DEF TypeOK
<1>9. \A g \in Firms : target'[g] = None => target[g] = None /\ heard'[g] = {}
    BY <1>0, <1>3, <1>5, <1>8, TargetAssumption DEF NoTargetNoWord
<1>10. NewestTriggerWins'
    <2>1. /\ <<target'[f].kind, target'[f].date>> \in heard'[f]
          /\ \A h \in heard'[f] : h[2] <= target'[f].date
        <3>1. CASE t = None
            <4>1. heard'[f] = {<<kind, date>>} BY <1>0, <1>8, <3>1 DEF NoTargetNoWord
            <4> QED BY <1>2, <1>3, <1>8, <3>1, <4>1
        <3>2. CASE t # None
            <4>1. <<t.kind, t.date>> \in heard[f] /\ \A h \in heard[f] : h[2] <= t.date
                BY <1>0, <3>2 DEF NewestTriggerWins
            <4>2. t.date \in Nat BY <1>2, <1>4, <3>2 DEF Target
            <4>3. heard[f] \subseteq Kinds \X Days BY <1>0 DEF TypeOK
            <4>4. \A h \in heard[f] : h[2] \in Nat BY <1>2, <4>3
            <4> QED BY <1>2, <1>5, <1>8, <3>2, <4>1, <4>2, <4>4
        <3> QED BY <3>1, <3>2
    <2> QED BY <1>8, <2>1 DEF NewestTriggerWins
<1> QED BY <1>6, <1>7, <1>9, <1>10

\* The part of the state that belongs to the gates.
GateTyped ==
    /\ firm \in [Leads -> Firms \cup {None}]
    /\ target \in [Firms -> Target \cup {None}]
    /\ deciding \in [Firms -> [kind : Kinds, ready : BOOLEAN] \cup {None}]
    /\ today \in Days
    /\ heard \in [Firms -> SUBSET (Kinds \X Days)]

GateInv == GateTyped /\ NoTargetNoWord /\ NewestTriggerWins

\* Imports, judgements and decisions.
LEMMA GateStep ==
    ASSUME TypeOK, GateInv, NEW f \in Firms, Gate(f) PROVE GateInv'
<1> USE DEF GateInv
<1>1. CASE Import(f)
    <2>1. PICK date \in 1..today : upsert_target(f, "cold", date, None)
        BY <1>1 DEF Import
    <2>2. UNCHANGED <<deciding, firm, today>> BY <1>1 DEF Import, gateVars
    <2> QED BY <2>1, <2>2, UpsertStep DEF GateTyped, NoTargetNoWord, Kinds
<1>2. CASE Judge(f)
    <2>1. /\ target[f] \in Target /\ target' = [target EXCEPT ![f].ready = TRUE]
          /\ UNCHANGED <<deciding, firm, today, heard>>
        BY <1>2 DEF Judge, gateVars, TypeOK
    <2>2. [target[f] EXCEPT !.ready = TRUE] \in Target BY <2>1 DEF Target
    <2>3. /\ target'[f] \in Target /\ target'[f].kind = target[f].kind
          /\ target'[f].date = target[f].date
          /\ \A g \in Firms \ {f} : target'[g] = target[g]
        BY <2>1, <2>2 DEF TypeOK, Target
    <2>4. GateTyped' BY <2>1, <2>2 DEF GateTyped
    <2>5. NoTargetNoWord' BY <2>1, <2>3, TargetAssumption DEF NoTargetNoWord
    <2>6. NewestTriggerWins'
        BY <1>2, <2>1, <2>3 DEF NewestTriggerWins, Judge
    <2> QED BY <2>4, <2>5, <2>6
<1>3. CASE ReadTarget(f)
    <2>1. target[f] \in Target BY <1>3 DEF ReadTarget, TypeOK
    <2>2. GateTyped' BY <1>3, <2>1 DEF ReadTarget, GateTyped, Target
    <2>3. NoTargetNoWord' /\ NewestTriggerWins'
        BY <1>3 DEF ReadTarget, NoTargetNoWord, NewestTriggerWins, TypeOK
    <2> QED BY <2>2, <2>3
<1>4. ASSUME NEW action \in {"in_sequence", "closed"}, decide(f, action) PROVE GateInv'
    <2>1. /\ target[f] \in Target /\ deciding[f] \in [kind : Kinds, ready : BOOLEAN]
          /\ UNCHANGED <<firm, today, heard>> /\ deciding' = [deciding EXCEPT ![f] = None]
        BY <1>4 DEF decide, TypeOK, NoTargetNoWord
    <2>2. PICK a \in {"none"} \cup Kinds :
              target' = target \/ target' = [target EXCEPT ![f].status = action, ![f].arc = a]
        BY <1>4, <2>1 DEF decide, TypeOK, Target
    <2>3. [target[f] EXCEPT !.status = action, !.arc = a] \in Target
        BY <2>1 DEF Target
    <2>4. /\ target'[f] \in Target /\ target'[f].kind = target[f].kind
          /\ target'[f].date = target[f].date
          /\ \A g \in Firms \ {f} : target'[g] = target[g]
        BY <2>1, <2>2, <2>3 DEF TypeOK, Target
    <2>5. target' \in [Firms -> Target \cup {None}]
        BY <2>1, <2>2, <2>3 DEF TypeOK
    <2>6. GateTyped' BY <2>1, <2>5 DEF GateTyped
    <2>7. NoTargetNoWord' BY <2>1, <2>4, TargetAssumption DEF NoTargetNoWord, TypeOK
    <2>8. NewestTriggerWins'
        BY <2>1, <2>4, TargetAssumption DEF NewestTriggerWins
    <2> QED BY <2>6, <2>7, <2>8
<1> QED BY <1>1, <1>2, <1>3, <1>4 DEF Gate

\* A seed.
LEMMA SeedStep ==
    ASSUME TypeOK, GateInv, WorkHasLead, NEW w \in Workers, seed_outreach_target(w)
    PROVE  GateInv'
<1> DEFINE l == work[w].lead
<1>1. l \in Leads /\ firm[l] \in Firms \cup {None}
    BY DEF seed_outreach_target, Doing, WorkHasLead, TypeOK
<1>2. UNCHANGED <<deciding, firm, today>> BY DEF seed_outreach_target, gateVars
<1>3. CASE firm[l] = None
    BY <1>2, <1>3 DEF seed_outreach_target, GateInv, GateTyped, NoTargetNoWord,
                      NewestTriggerWins
<1>4. CASE firm[l] # None
    <2>1. upsert_target(firm[l], "inbound_enquiry", today, l)
        BY <1>4 DEF seed_outreach_target
    <2>2. today \in 1..today BY LeadAssumption DEF TypeOK, Days
    <2>3. firm[l] \in Firms BY <1>1, <1>4
    <2> HIDE DEF l
    <2> QED BY <1>1, <1>2, <2>1, <2>2, <2>3, UpsertStep
            DEF GateInv, GateTyped, NoTargetNoWord, Kinds
<1> QED BY <1>3, <1>4

-----------------------------------------------------------------------------
(* The lead *)

\* The part of the state that belongs to the leads.
LeadTyped ==
    /\ posts \in [Leads -> Nat]
    /\ prospect \in [Leads -> {"absent", "new", "qualified"}]
    /\ score \in [Leads -> {None, "low", "high"}]
    /\ signals \in [Leads -> Nat] /\ tasks \in [Leads -> Nat]
    /\ work \in [Workers -> Jobs]
    /\ cut \subseteq Leads
    /\ faults \in 0..MaxFaults

LeadInv == AbsentIsUntouched /\ OneWorkerEach /\ WorkHasLead

\* Types and lead invariants do not look at the gates.
LEMMA LeadElsewhere ==
    ASSUME LeadTyped, LeadInv, UNCHANGED <<leadVars, posts, work, cut, faults>>
    PROVE  LeadTyped' /\ LeadInv'
BY DEF LeadTyped, LeadInv, AbsentIsUntouched, OneWorkerEach, WorkHasLead, Past, leadVars

\* What the worker in sole possession of lead l may leave behind.
Owed(j, l) ==
    /\ tasks[l] <= 1 /\ signals[l] <= Pains
    /\ j.step # "free" =>
          /\ j.lead = l /\ j.step \notin {"find", "insert"}
          /\ j.step # "seed" => tasks[l] = 0
          /\ j.step \in {"qualify", "apply"} => signals[l] = 0
          /\ j.step = "signal" => j.left > 0 /\ signals[l] + j.left <= Pains
    /\ j.step = "free" => j = Free

\* A worker past the insert is the only one of its lead, and may go on with it.
LEMMA PossessionStep ==
    ASSUME LeadTyped, LeadInv, NEW w \in Workers, NEW l \in Leads, NEW j \in Jobs,
           w \in Past(l), work' = [work EXCEPT ![w] = j],
           \A k \in Leads \ {l} : UNCHANGED <<prospect[k], tasks[k], signals[k]>>,
           prospect'[l] # "absent", Owed(j, l)'
    PROVE  LeadInv'
<1>1. /\ work'[w] = j /\ \A v \in Workers \ {w} : work'[v] = work[v]
      /\ work[w].lead = l /\ work[w].step # "free" /\ \A v \in Past(l) : v = w
    BY LeadAssumption DEF Free, LeadTyped, Past, LeadInv, OneWorkerEach, WorkHasLead
<1>2. /\ tasks'[l] <= 1 /\ signals'[l] <= Pains
      /\ j.step # "free" =>
            /\ j.lead = l /\ j.step \notin {"find", "insert"}
            /\ j.step # "seed" => tasks'[l] = 0
            /\ j.step \in {"qualify", "apply"} => signals'[l] = 0
            /\ j.step = "signal" => j.left > 0 /\ signals'[l] + j.left <= Pains
      /\ j.step = "free" => j = Free
    BY DEF Owed
<1>3. None \notin Leads /\ Free.step = "free" /\ Free.lead = None
    BY LeadAssumption DEF Free
<1>4. \A k \in Leads \ {l} : Past(k)' = Past(k) BY <1>1, <1>2, <1>3 DEF Past
<1>5. Past(l)' = IF j.step = "free" THEN {} ELSE {w}
    BY <1>1, <1>2, <1>3 DEF Past
<1>6. AbsentIsUntouched' BY <1>4 DEF AbsentIsUntouched, LeadInv
<1>7. OneWorkerEach'
    <2>1. ASSUME NEW k \in Leads \ {l}
          PROVE  /\ tasks'[k] <= 1 /\ signals'[k] <= Pains
                 /\ \A v, u \in Past(k)' : v = u
                 /\ \A v \in Past(k)' :
                       /\ work'[v].step # "seed" => tasks'[k] = 0
                       /\ work'[v].step \in {"qualify", "apply"} => signals'[k] = 0
                       /\ work'[v].step = "signal" =>
                             work'[v].left > 0 /\ signals'[k] + work'[v].left <= Pains
        <3>1. \A v \in Past(k) : v # w /\ v \in Workers BY <1>1 DEF Past
        <3> QED BY <1>1, <1>4, <3>1 DEF LeadInv, OneWorkerEach
    <2>2. /\ \A v, u \in Past(l)' : v = u
          /\ \A v \in Past(l)' :
                /\ work'[v].step # "seed" => tasks'[l] = 0
                /\ work'[v].step \in {"qualify", "apply"} => signals'[l] = 0
                /\ work'[v].step = "signal" =>
                      work'[v].left > 0 /\ signals'[l] + work'[v].left <= Pains
        BY <1>1, <1>2, <1>5
    <2> QED BY <1>2, <2>1, <2>2 DEF OneWorkerEach
<1>8. WorkHasLead' BY <1>1, <1>2, <1>3 DEF WorkHasLead, LeadInv
<1> QED BY <1>6, <1>7, <1>8 DEF LeadInv

\* A worker that has not inserted anything changes nothing that counts.
LEMMA OutsiderStep ==
    ASSUME LeadTyped, LeadInv, NEW w \in Workers, NEW j \in Jobs,
           work' = [work EXCEPT ![w] = j], UNCHANGED leadVars,
           work[w].step \in {"free", "find", "insert"},
           j = Free \/ (j.step \in {"find", "insert"} /\ j.lead \in Leads)
    PROVE  LeadInv'
<1>1. work'[w] = j /\ \A v \in Workers \ {w} : work'[v] = work[v]
    BY DEF LeadTyped
<1>2. None \notin Leads /\ Free.step = "free" /\ Free.lead = None
    BY LeadAssumption DEF Free
<1>3. \A k \in Leads : Past(k)' = Past(k)
    BY <1>1, <1>2 DEF Past, LeadInv, WorkHasLead
<1>4. \A k \in Leads : w \notin Past(k)
    BY <1>2 DEF Past, LeadInv, WorkHasLead
<1>5. AbsentIsUntouched' BY <1>3 DEF LeadInv, AbsentIsUntouched, leadVars
<1>6. OneWorkerEach'
    <2>1. \A k \in Leads : \A v \in Past(k) : work'[v] = work[v] BY <1>1, <1>4 DEF Past
    <2> QED BY <1>3, <2>1 DEF LeadInv, OneWorkerEach, leadVars
<1>7. WorkHasLead' BY <1>1, <1>2 DEF LeadInv, WorkHasLead
<1> QED BY <1>5, <1>6, <1>7 DEF LeadInv

\* The winner of the insert takes possession of its lead.
LEMMA InsertStep ==
    ASSUME LeadTyped, LeadInv, NEW w \in Workers, NEW l \in Leads,
           work[w].step = "insert", work[w].lead = l, prospect[l] = "absent",
           prospect' = [prospect EXCEPT ![l] = "new"], UNCHANGED <<tasks, signals>>,
           work' = [work EXCEPT ![w].step = "qualify"]
    PROVE  LeadInv'
<1>1. /\ work'[w].step = "qualify" /\ work'[w].lead = l
      /\ \A v \in Workers \ {w} : work'[v] = work[v]
    BY DEF LeadTyped, Jobs
<1>2. Past(l) = {} /\ tasks[l] = 0 /\ signals[l] = 0 BY DEF LeadInv, AbsentIsUntouched
<1>3. Past(l)' = {w} BY <1>1, <1>2 DEF Past
<1>4. \A k \in Leads \ {l} : Past(k)' = Past(k) /\ w \notin Past(k) BY <1>1 DEF Past
<1>5. AbsentIsUntouched' BY <1>4 DEF LeadInv, AbsentIsUntouched, LeadTyped
<1>6. OneWorkerEach'
    <2>1. \A k \in Leads \ {l} : \A v \in Past(k) : work'[v] = work[v]
        BY <1>1, <1>4 DEF Past
    <2>2. \A k \in Leads \ {l} :
             /\ \A v, u \in Past(k)' : v = u
             /\ \A v \in Past(k)' :
                   /\ work'[v].step # "seed" => tasks'[k] = 0
                   /\ work'[v].step \in {"qualify", "apply"} => signals'[k] = 0
                   /\ work'[v].step = "signal" =>
                         work'[v].left > 0 /\ signals'[k] + work'[v].left <= Pains
        BY <1>4, <2>1 DEF LeadInv, OneWorkerEach
    <2>3. \A k \in Leads : tasks'[k] <= 1 /\ signals'[k] <= Pains
        BY DEF LeadInv, OneWorkerEach
    <2>4. \A v \in Past(l)' : v = w /\ work'[v].step = "qualify" BY <1>1, <1>3
    <2> QED BY <1>2, <2>2, <2>3, <2>4 DEF OneWorkerEach
<1>7. WorkHasLead' BY <1>1, LeadAssumption DEF LeadInv, WorkHasLead
<1> QED BY <1>5, <1>6, <1>7 DEF LeadInv

\* A job with another step, where Last leads, and where Scored does.
LEMMA Jobwise ==
    ASSUME LeadTyped, NEW w \in Workers
    PROVE  /\ work[w] \in Jobs
           /\ \A s \in Steps : /\ [work[w] EXCEPT !.step = s] \in Jobs
                               /\ [work[w] EXCEPT !.step = s].step = s
                               /\ [work[w] EXCEPT !.step = s].lead = work[w].lead
<1>1. work[w] \in Jobs BY DEF LeadTyped
<1> QED BY <1>1 DEF Jobs

\* The last step of a lead ends its work or goes on to the proposal.
LEMMA LastStep ==
    ASSUME LeadTyped, NEW w \in Workers, Last(w)
    PROVE  \E j \in Jobs : /\ work' = [work EXCEPT ![w] = j]
                           /\ j = Free \/ (j.step = "propose" /\ j.lead = work[w].lead)
<1>1. CASE work[w].fit = "high"
    <2>1. PICK j : j = [work[w] EXCEPT !.step = "propose"] OBVIOUS
    <2>2. work' = [work EXCEPT ![w] = j] BY <1>1, <2>1 DEF Last, Goto
    <2>3. j \in Jobs /\ j.step = "propose" /\ j.lead = work[w].lead
        BY <2>1, Jobwise DEF Steps
    <2> QED BY <2>2, <2>3
<1>2. CASE work[w].fit # "high"
    BY <1>2, Zeros DEF Last, End
<1> QED BY <1>1, <1>2

\* A scored lead gets its signals first, if it has any.
LEMMA ScoredStep ==
    ASSUME LeadTyped, NEW w \in Workers, Scored(w)
    PROVE  \E j \in Jobs :
              /\ work' = [work EXCEPT ![w] = j]
              /\ \/ j = Free \/ (j.step = "propose" /\ j.lead = work[w].lead)
                 \/ j.step = "signal" /\ j.lead = work[w].lead /\ j.left = Pains /\ Pains > 0
<1>1. CASE Pains > 0
    <2>1. PICK j : j = [work[w] EXCEPT !.step = "signal", !.left = Pains] OBVIOUS
    <2>2. work' = [work EXCEPT ![w] = j] BY <1>1, <2>1 DEF Scored
    <2>3. work[w] \in Jobs /\ Pains \in 0..Pains BY Jobwise, Zeros
    <2>4. j \in Jobs /\ j.step = "signal" /\ j.lead = work[w].lead /\ j.left = Pains
        BY <2>1, <2>3 DEF Jobs, Steps
    <2> QED BY <1>1, <2>2, <2>4
<1>2. CASE ~(Pains > 0)
    <2>1. Last(w) BY <1>2 DEF Scored
    <2>2. PICK j \in Jobs : /\ work' = [work EXCEPT ![w] = j]
                            /\ j = Free \/ (j.step = "propose" /\ j.lead = work[w].lead)
        BY <2>1, LastStep
    <2> QED BY <2>2
<1> QED BY <1>1, <1>2

\* A delivery.
LEMMA WebhookStep ==
    ASSUME LeadTyped, LeadInv, NEW l \in Leads, leads_webhook(l)
    PROVE  LeadTyped' /\ LeadInv'
<1>1. PICK w \in Workers :
          work[w] = Free /\ work' = [work EXCEPT ![w] = [Free EXCEPT !.step = "find", !.lead = l]]
    BY DEF leads_webhook
<1>2. PICK j : j = [Free EXCEPT !.step = "find", !.lead = l] OBVIOUS
<1>3. j \in Jobs /\ j.step = "find" /\ j.lead = l
    BY <1>2, Zeros DEF Jobs, Steps, Free
<1>4. LeadTyped' BY <1>1, <1>2, <1>3 DEF leads_webhook, LeadTyped, leadVars
<1>5. work' = [work EXCEPT ![w] = j] BY <1>1, <1>2
<1>6. UNCHANGED leadVars BY DEF leads_webhook
<1>7. work[w].step = "free" BY <1>1 DEF Free
<1>8. LeadInv' BY <1>3, <1>5, <1>6, <1>7, OutsiderStep
<1> QED BY <1>4, <1>8

\* A worker before or at its insert.
LEMMA EntryStep ==
    ASSUME LeadTyped, LeadInv, NEW w \in Workers,
           find_existing_prospect(w) \/ insert_prospect(w)
    PROVE  LeadTyped' /\ LeadInv'
<1> DEFINE l == work[w].lead
<1>1. work[w].step \in {"find", "insert"} /\ l \in Leads
    BY DEF find_existing_prospect, insert_prospect, Doing, LeadInv, WorkHasLead
<1>2. UNCHANGED <<posts, score, signals, tasks, faults>>
    BY DEF find_existing_prospect, insert_prospect, leadVars
<1>3. CASE prospect[l] # "absent"
    <2>1. work' = [work EXCEPT ![w] = Free] /\ UNCHANGED <<prospect, cut>>
        BY <1>3 DEF find_existing_prospect, insert_prospect, leadVars, End
    <2> QED BY <1>1, <1>2, <2>1, Zeros, OutsiderStep DEF LeadTyped, leadVars
<1>4. CASE prospect[l] = "absent" /\ find_existing_prospect(w)
    <2>1. work' = [work EXCEPT ![w] = [work[w] EXCEPT !.step = "insert"]]
        BY <1>4 DEF find_existing_prospect, Goto
    <2>2. PICK j : j = [work[w] EXCEPT !.step = "insert"] OBVIOUS
    <2>3. j \in Jobs /\ j.step = "insert" /\ j.lead = l
        BY <2>2, Jobwise DEF Steps
    <2>4. UNCHANGED leadVars /\ cut' = cut BY <1>4 DEF find_existing_prospect
    <2>5. LeadInv' BY <1>1, <2>1, <2>2, <2>3, <2>4, OutsiderStep
    <2> QED BY <1>2, <2>1, <2>2, <2>3, <2>4, <2>5 DEF LeadTyped, leadVars
<1>5. CASE prospect[l] = "absent" /\ insert_prospect(w)
    <2>1. /\ work[w].step = "insert"
          /\ prospect' = [prospect EXCEPT ![l] = "new"] /\ cut' = cut \ {l}
          /\ work' = [work EXCEPT ![w].step = "qualify"]
        BY <1>5 DEF insert_prospect, Goto, Doing
    <2>2. work' \in [Workers -> Jobs] BY <2>1 DEF LeadTyped, Jobs, Steps
    <2>3. prospect' \in [Leads -> {"absent", "new", "qualified"}]
        BY <1>1, <2>1 DEF LeadTyped
    <2>4. LeadTyped' BY <1>2, <2>1, <2>2, <2>3 DEF LeadTyped
    <2> HIDE DEF l
    <2>5. LeadInv' BY <1>1, <1>2, <1>5, <2>1, InsertStep DEF l
    <2> QED BY <2>4, <2>5
<1> QED BY <1>3, <1>4, <1>5

\* A worker in possession of its lead, and the one step it takes.
LEMMA OwnerStep ==
    ASSUME LeadTyped, LeadInv, NEW w \in Workers,
           \/ qualify_fit(w) \/ apply_qualification(w) \/ insert_pain_signal(w)
           \/ propose_task_candidate(w) \/ seed_outreach_target(w)
    PROVE  LeadTyped' /\ LeadInv'
<1>0. PICK l : l = work[w].lead OBVIOUS
<1>1. /\ work[w].step \in {"qualify", "apply", "signal", "propose", "seed"}
      /\ l \in Leads /\ w \in Past(l)
    BY <1>0 DEF qualify_fit, apply_qualification, insert_pain_signal, propose_task_candidate,
                seed_outreach_target, Doing, LeadInv, WorkHasLead, Past
<1>2. /\ prospect[l] # "absent" /\ tasks[l] <= 1 /\ signals[l] <= Pains
      /\ work[w].step # "seed" => tasks[l] = 0
      /\ work[w].step \in {"qualify", "apply"} => signals[l] = 0
      /\ work[w].step = "signal" => work[w].left > 0 /\ signals[l] + work[w].left <= Pains
    BY <1>1 DEF LeadInv, AbsentIsUntouched, OneWorkerEach
<1>3. work[w] \in Jobs /\ signals[l] \in Nat /\ tasks[l] \in Nat /\ Pains \in Nat
    BY <1>1, LeadAssumption DEF LeadTyped
<1>4. UNCHANGED <<posts, cut, faults>>
    BY DEF qualify_fit, apply_qualification, insert_pain_signal, propose_task_candidate,
           seed_outreach_target
<1>5. ASSUME NEW j \in Jobs, work' = [work EXCEPT ![w] = j], Owed(j, l)',
             prospect' \in [Leads -> {"absent", "new", "qualified"}], prospect'[l] # "absent",
             score' \in [Leads -> {None, "low", "high"}],
             signals' \in [Leads -> Nat], tasks' \in [Leads -> Nat],
             \A k \in Leads \ {l} : UNCHANGED <<prospect[k], tasks[k], signals[k]>>
      PROVE  LeadTyped' /\ LeadInv'
    <2>1. LeadTyped' BY <1>4, <1>5 DEF LeadTyped
    <2> QED BY <1>1, <1>5, <2>1, PossessionStep
<1>6. UNCHANGED leadVars =>
          /\ prospect' \in [Leads -> {"absent", "new", "qualified"}] /\ prospect'[l] # "absent"
          /\ score' \in [Leads -> {None, "low", "high"}]
          /\ signals' \in [Leads -> Nat] /\ tasks' \in [Leads -> Nat]
          /\ \A k \in Leads \ {l} : UNCHANGED <<prospect[k], tasks[k], signals[k]>>
    BY <1>2 DEF leadVars, LeadTyped
<1>7. CASE qualify_fit(w)
    <2>1. PICK fit \in {"low", "high"} :
              work' = [work EXCEPT ![w] = [work[w] EXCEPT !.step = "apply", !.fit = fit]]
        BY <1>7 DEF qualify_fit
    <2>2. PICK j : j = [work[w] EXCEPT !.step = "apply", !.fit = fit] OBVIOUS
    <2>3. j \in Jobs /\ j.step = "apply" /\ j.lead = l BY <1>0, <1>3, <2>2 DEF Jobs, Steps
    <2>4. UNCHANGED leadVars /\ work[w].step = "qualify" BY <1>7 DEF qualify_fit, Doing
    <2>5. Owed(j, l)' BY <1>2, <2>3, <2>4 DEF Owed, leadVars
    <2> QED BY <1>5, <1>6, <2>1, <2>2, <2>3, <2>4, <2>5
<1>8. CASE apply_qualification(w)
    <2>1. /\ work[w].step = "apply" /\ Scored(w) /\ UNCHANGED <<signals, tasks>>
          /\ prospect' = [prospect EXCEPT ![l] = "qualified"]
          /\ score' = [score EXCEPT ![l] = work[w].fit]
        BY <1>0, <1>8 DEF apply_qualification, Doing
    <2>2. PICK j \in Jobs :
              /\ work' = [work EXCEPT ![w] = j]
              /\ \/ j = Free \/ (j.step = "propose" /\ j.lead = l)
                 \/ j.step = "signal" /\ j.lead = l /\ j.left = Pains /\ Pains > 0
        BY <1>0, <2>1, ScoredStep
    <2>3. Owed(j, l)' BY <1>2, <1>3, <2>1, <2>2 DEF Owed, Free
    <2>4. score' \in [Leads -> {None, "low", "high"}] BY <1>3, <2>1 DEF LeadTyped, Jobs
    <2>5. /\ prospect' \in [Leads -> {"absent", "new", "qualified"}] /\ prospect'[l] # "absent"
          /\ \A k \in Leads \ {l} : UNCHANGED <<prospect[k], tasks[k], signals[k]>>
        BY <1>1, <2>1 DEF LeadTyped
    <2>6. signals' \in [Leads -> Nat] /\ tasks' \in [Leads -> Nat] BY <2>1 DEF LeadTyped
    <2> QED BY <1>5, <2>2, <2>3, <2>4, <2>5, <2>6
<1>9. CASE insert_pain_signal(w)
    <2>1. /\ work[w].step = "signal" /\ UNCHANGED <<prospect, score, tasks>>
          /\ signals' = [signals EXCEPT ![l] = @ + 1]
          /\ IF work[w].left > 1 THEN work' = [work EXCEPT ![w].left = @ - 1] ELSE Last(w)
        BY <1>0, <1>9 DEF insert_pain_signal, Doing
    <2>2. /\ signals' \in [Leads -> Nat] /\ signals'[l] = signals[l] + 1
          /\ tasks' \in [Leads -> Nat] /\ prospect'[l] # "absent"
          /\ prospect' \in [Leads -> {"absent", "new", "qualified"}]
          /\ score' \in [Leads -> {None, "low", "high"}]
          /\ \A k \in Leads \ {l} : UNCHANGED <<prospect[k], tasks[k], signals[k]>>
        BY <1>1, <1>2, <2>1 DEF LeadTyped
    <2>3. work[w].left \in Nat BY <1>3 DEF Jobs
    <2>4. CASE work[w].left > 1
        <3>1. work' = [work EXCEPT ![w] = [work[w] EXCEPT !.left = work[w].left - 1]]
            BY <2>1, <2>4
        <3>2. PICK j : j = [work[w] EXCEPT !.left = work[w].left - 1] OBVIOUS
        <3>3. j \in Jobs /\ j.step = "signal" /\ j.lead = l /\ j.left = work[w].left - 1
            BY <1>0, <1>3, <2>1, <2>3, <2>4, <3>2 DEF Jobs
        <3>4. Owed(j, l)' BY <1>2, <1>3, <2>1, <2>2, <2>3, <2>4, <3>3 DEF Owed
        <3> QED BY <1>5, <2>2, <3>1, <3>2, <3>3, <3>4
    <2>5. CASE ~(work[w].left > 1)
        <3>1. PICK j \in Jobs : /\ work' = [work EXCEPT ![w] = j]
                                /\ j = Free \/ (j.step = "propose" /\ j.lead = l)
            BY <1>0, <2>1, <2>5, LastStep
        <3>2. Owed(j, l)' BY <1>2, <1>3, <2>1, <2>2, <2>3, <3>1 DEF Owed, Free
        <3> QED BY <1>5, <2>2, <3>1, <3>2
    <2> QED BY <2>4, <2>5
<1>10. CASE propose_task_candidate(w)
    <2>1. /\ work[w].step = "propose" /\ UNCHANGED <<prospect, score, signals>>
          /\ tasks' = [tasks EXCEPT ![l] = @ + 1]
          /\ work' = [work EXCEPT ![w] = [work[w] EXCEPT !.step = "seed"]]
        BY <1>0, <1>10 DEF propose_task_candidate, Doing, Goto
    <2>2. PICK j : j = [work[w] EXCEPT !.step = "seed"] OBVIOUS
    <2>3. j \in Jobs /\ j.step = "seed" /\ j.lead = l BY <1>0, <1>3, <2>2 DEF Jobs, Steps
    <2>4. /\ tasks' \in [Leads -> Nat] /\ tasks'[l] = tasks[l] + 1
          /\ signals' \in [Leads -> Nat] /\ prospect'[l] # "absent"
          /\ prospect' \in [Leads -> {"absent", "new", "qualified"}]
          /\ score' \in [Leads -> {None, "low", "high"}]
          /\ \A k \in Leads \ {l} : UNCHANGED <<prospect[k], tasks[k], signals[k]>>
        BY <1>1, <1>2, <2>1 DEF LeadTyped
    <2>5. Owed(j, l)' BY <1>2, <2>1, <2>3, <2>4 DEF Owed
    <2> QED BY <1>5, <2>1, <2>2, <2>3, <2>4, <2>5
<1>11. CASE seed_outreach_target(w)
    <2>1. work' = [work EXCEPT ![w] = Free] /\ UNCHANGED leadVars
        BY <1>11 DEF seed_outreach_target, End
    <2>2. Owed(Free, l)' BY <1>2, <2>1 DEF Owed, Free, leadVars
    <2> QED BY <1>5, <1>6, <2>1, <2>2, Zeros
<1> QED BY <1>7, <1>8, <1>9, <1>10, <1>11

\* A call that fails.
LEMMA FailStep ==
    ASSUME LeadTyped, LeadInv, NEW w \in Workers, Fails(w)
    PROVE  LeadTyped' /\ LeadInv'
<1>0. PICK l : l = work[w].lead OBVIOUS
<1>1. /\ work[w].step # "free" /\ l \in Leads /\ UNCHANGED <<leadVars, posts>>
      /\ cut' = cut \cup {l} /\ faults' = faults + 1 /\ faults < MaxFaults
      /\ \/ work[w].step \in {"qualify", "apply"} /\ Scored(w)
         \/ work[w].step = "signal" /\ Last(w)
         \/ work[w].step \notin {"apply", "signal"} /\ End(w)
    BY <1>0 DEF Fails, LeadInv, WorkHasLead
<1>2. faults' \in 0..MaxFaults /\ cut' \subseteq Leads
    BY <1>1, LeadAssumption DEF LeadTyped
<1>3. CASE End(w) /\ work[w].step \in {"find", "insert"}
    <2>1. work' = [work EXCEPT ![w] = Free] BY <1>3 DEF End
    <2>2. LeadTyped' BY <1>1, <1>2, <2>1, Zeros DEF LeadTyped, leadVars
    <2> QED BY <1>1, <1>3, <2>1, <2>2, Zeros, OutsiderStep
<1>4. CASE work[w].step \notin {"find", "insert"}
    <2>1. w \in Past(l) BY <1>0, <1>4 DEF Past
    <2>2. /\ prospect[l] # "absent" /\ tasks[l] <= 1 /\ signals[l] <= Pains
          /\ work[w].step # "seed" => tasks[l] = 0
          /\ work[w].step \in {"qualify", "apply"} => signals[l] = 0
        BY <1>1, <2>1 DEF LeadInv, AbsentIsUntouched, OneWorkerEach
    <2>3. signals[l] \in Nat /\ Pains \in Nat BY <1>1, LeadAssumption DEF LeadTyped
    <2>4. PICK j \in Jobs :
              /\ work' = [work EXCEPT ![w] = j]
              /\ \/ j = Free
                 \/ j.step = "propose" /\ j.lead = l /\ work[w].step # "seed"
                 \/ /\ work[w].step \in {"qualify", "apply"}
                    /\ j.step = "signal" /\ j.lead = l /\ j.left = Pains /\ Pains > 0
        <3>1. CASE work[w].step \in {"qualify", "apply"} /\ Scored(w)
            BY <1>0, <3>1, ScoredStep
        <3>2. CASE work[w].step = "signal" /\ Last(w)
            BY <1>0, <3>2, LastStep
        <3>3. CASE End(w)
            BY <3>3, Zeros DEF End
        <3> QED BY <1>1, <3>1, <3>2, <3>3
    <2>5. Owed(j, l)' BY <1>1, <2>2, <2>3, <2>4 DEF Owed, Free, leadVars
    <2>6. LeadTyped' BY <1>1, <1>2, <2>4 DEF LeadTyped, leadVars
    <2>7. /\ prospect'[l] # "absent"
          /\ \A k \in Leads \ {l} : UNCHANGED <<prospect[k], tasks[k], signals[k]>>
        BY <1>1, <2>2 DEF leadVars
    <2> QED BY <1>1, <2>1, <2>4, <2>5, <2>6, <2>7, PossessionStep
<1> QED BY <1>1, <1>3, <1>4

\* The gateway restarts, and every worker is free.
LEMMA RestartStep ==
    ASSUME LeadTyped, LeadInv, Restart PROVE LeadTyped' /\ LeadInv'
<1>1. /\ work' = [w \in Workers |-> Free] /\ UNCHANGED <<leadVars, posts>>
      /\ faults < MaxFaults /\ faults' = faults + 1
      /\ cut' = cut \cup {work[w].lead : w \in {x \in Workers : work[x] # Free}}
    BY DEF Restart
<1>2. faults' \in 0..MaxFaults BY <1>1, LeadAssumption DEF LeadTyped
<1>3. \A w \in Workers : work[w] # Free => work[w].lead \in Leads
    BY DEF LeadInv, WorkHasLead
<1>4. cut' \subseteq Leads BY <1>1, <1>3 DEF LeadTyped
<1>5. LeadTyped' BY <1>1, <1>2, <1>4, Zeros DEF LeadTyped, leadVars
<1>6. \A w \in Workers : work'[w] = Free BY <1>1
<1>7. Free.step = "free" /\ Free.lead = None /\ None \notin Leads
    BY LeadAssumption DEF Free
<1>8. \A l \in Leads : Past(l)' = {} BY <1>6, <1>7 DEF Past
<1>9. AbsentIsUntouched' BY <1>1, <1>8 DEF LeadInv, AbsentIsUntouched, leadVars
<1>10. OneWorkerEach' BY <1>1, <1>8 DEF LeadInv, OneWorkerEach, leadVars
<1>11. WorkHasLead' BY <1>6, <1>7 DEF WorkHasLead
<1> QED BY <1>5, <1>9, <1>10, <1>11 DEF LeadInv

-----------------------------------------------------------------------------
(* The theorems *)

\* The two parts of the state are the whole of it.
LEMMA Halves == TypeOK <=> GateTyped /\ LeadTyped
BY DEF TypeOK, GateTyped, LeadTyped

\* IInv in the same two parts.
LEMMA InvHalves == IInv <=> GateInv /\ LeadTyped /\ LeadInv
BY Halves DEF IInv, GateInv, LeadInv

\* Nothing is known and nobody works.
LEMMA IInvInit == Init => IInv
<1> SUFFICES ASSUME Init PROVE IInv OBVIOUS
<1>1. Free.step = "free" /\ Free.lead = None /\ None \notin Leads
    BY LeadAssumption DEF Free
<1>2. GateTyped BY Zeros DEF Init, GateTyped
<1>3. LeadTyped BY Zeros DEF Init, LeadTyped
<1>4. \A w \in Workers : work[w] = Free BY DEF Init
<1>5. \A l \in Leads : Past(l) = {} BY <1>1, <1>4 DEF Past
<1>6. LeadInv
    <2>1. AbsentIsUntouched BY <1>5 DEF Init, AbsentIsUntouched
    <2>2. \A l \in Leads : tasks[l] <= 1 /\ signals[l] <= Pains
        BY LeadAssumption DEF Init
    <2>3. OneWorkerEach BY <1>5, <2>2 DEF OneWorkerEach
    <2>4. WorkHasLead BY <1>1, <1>4 DEF WorkHasLead
    <2> QED BY <2>1, <2>3, <2>4 DEF LeadInv
<1>7. NoTargetNoWord /\ NewestTriggerWins
    BY DEF Init, NoTargetNoWord, NewestTriggerWins
<1> QED BY <1>2, <1>3, <1>6, <1>7, InvHalves DEF GateInv

\* Every action keeps it.
LEMMA IInvStep == IInv /\ [Next]_vars => IInv'
<1> SUFFICES ASSUME IInv, [Next]_vars PROVE IInv' OBVIOUS
<1>1. TypeOK /\ GateInv /\ LeadTyped /\ LeadInv /\ WorkHasLead
    BY InvHalves DEF IInv
<1>2. SUFFICES GateInv' /\ LeadTyped' /\ LeadInv'
    BY InvHalves, PTL
<1>3. UNCHANGED <<gateVars, target, today, heard>> => GateInv'
    BY <1>1 DEF GateInv, GateTyped, NoTargetNoWord, NewestTriggerWins, gateVars
<1>4. UNCHANGED <<leadVars, posts, work, cut, faults>> => LeadTyped' /\ LeadInv'
    BY <1>1, LeadElsewhere
<1>5. ASSUME NEW l \in Leads, leads_webhook(l) PROVE GateInv' /\ LeadTyped' /\ LeadInv'
    <2>1. UNCHANGED <<gateVars, target, today, heard>> BY <1>5 DEF leads_webhook
    <2> QED BY <1>1, <1>3, <1>5, <2>1, WebhookStep
<1>6. ASSUME NEW w \in Workers, process_lead(w) PROVE GateInv' /\ LeadTyped' /\ LeadInv'
    <2>1. LeadTyped' /\ LeadInv' BY <1>1, <1>6, EntryStep, OwnerStep DEF process_lead
    <2>2. CASE seed_outreach_target(w) BY <1>1, <2>1, <2>2, SeedStep
    <2>3. CASE ~seed_outreach_target(w)
        <3>1. UNCHANGED <<gateVars, target, today, heard>>
            BY <1>6, <2>3 DEF process_lead, find_existing_prospect, insert_prospect,
               qualify_fit, apply_qualification, insert_pain_signal, propose_task_candidate
        <3> QED BY <1>3, <2>1, <3>1
    <2> QED BY <2>2, <2>3
<1>7. ASSUME NEW w \in Workers, Fails(w) PROVE GateInv' /\ LeadTyped' /\ LeadInv'
    <2>1. UNCHANGED <<gateVars, target, today, heard>> BY <1>7 DEF Fails
    <2> QED BY <1>1, <1>3, <1>7, <2>1, FailStep
<1>8. CASE Restart
    <2>1. UNCHANGED <<gateVars, target, today, heard>> BY <1>8 DEF Restart
    <2> QED BY <1>1, <1>3, <1>8, <2>1, RestartStep
<1>9. CASE Midnight
    <2>1. today' \in Days BY <1>1, <1>9, LeadAssumption DEF Midnight, TypeOK, Days
    <2>2. GateInv'
        BY <1>1, <1>9, <2>1
        DEF Midnight, GateInv, GateTyped, NoTargetNoWord, NewestTriggerWins, gateVars
    <2>3. UNCHANGED <<leadVars, posts, work, cut, faults>> BY <1>9 DEF Midnight
    <2> QED BY <1>4, <2>2, <2>3
<1>10. ASSUME NEW f \in Firms, Gate(f) PROVE GateInv' /\ LeadTyped' /\ LeadInv'
    <2>1. UNCHANGED <<leadVars, posts, work, cut, faults>>
        BY <1>10 DEF Gate, Import, Judge, ReadTarget, decide
    <2> QED BY <1>1, <1>4, <1>10, <2>1, GateStep
<1>11. CASE UNCHANGED vars
    BY <1>3, <1>4, <1>11 DEF vars, leadVars, gateVars
<1> QED BY <1>5, <1>6, <1>7, <1>8, <1>9, <1>10, <1>11 DEF Next

\* The strengthened invariant holds.
LEMMA Inductive == Spec => []IInv
BY IInvInit, IInvStep, PTL DEF Spec

\* Every variable stays within its type.
THEOREM LeadsTyped == Spec => []TypeOK
BY Inductive, PTL DEF IInv

\* However many deliveries of a lead overlap, and however often the gateway
\* restarts, it is qualified, embedded and proposed once, by one worker.
THEOREM LeadsAreQualifiedOnce == Spec => []QualifiedOnce
<1>1. IInv => QualifiedOnce
    <2> SUFFICES ASSUME IInv, NEW l \in Leads
                 PROVE  /\ tasks[l] <= 1 /\ signals[l] <= Pains
                        /\ Cardinality(Past(l)) <= 1
        BY DEF QualifiedOnce, Past
    <2>1. \A v, w \in Past(l) : v = w BY DEF IInv, OneWorkerEach
    <2>2. Cardinality(Past(l)) <= 1 BY <2>1, AtMostOne
    <2> QED BY <2>2 DEF IInv, OneWorkerEach
<1> QED BY <1>1, Inductive, PTL

\* Whatever the order of imports, promotions, leads and decisions, a target
\* carries the newest trigger it was ever told of.
THEOREM NewestTriggerIsKept == Spec => []NewestTriggerWins
BY Inductive, PTL DEF IInv

\* An upsert leaves a linked prospect alone.
LEMMA UpsertKeepsProspect ==
    ASSUME TypeOK, NEW f \in Firms, NEW kind \in Kinds, NEW date \in 1..today,
           NEW l \in Leads \cup {None}, upsert_target(f, kind, date, l),
           NEW g \in Firms, target[g] # None, target[g].prospect # None
    PROVE  target'[g] # None /\ target'[g].prospect = target[g].prospect
<1>0. PICK t, row : t = target[f] /\ row = Upserted(t, kind, date, l) OBVIOUS
<1>1. /\ \A h \in Firms \ {f} : target'[h] = target[h]
      /\ target'[f] = row
    BY <1>0 DEF upsert_target, TypeOK
<1>2. t # None => t \in Target BY <1>0 DEF TypeOK
<1>3. date \in Days BY LeadAssumption DEF TypeOK, Days
<1>4. t # None /\ t.prospect # None => row \in Target /\ row.prospect = t.prospect
    BY <1>0, <1>2, <1>3 DEF Target, Upserted
<1> QED BY <1>0, <1>1, <1>4, TargetAssumption

\* So does every other step that writes the row: Judge and decide.
LEMMA ProspectStep ==
    ASSUME IInv, [Next]_vars,
           NEW g \in Firms, target[g] # None, target[g].prospect # None
    PROVE  target'[g] # None /\ target'[g].prospect = target[g].prospect
<1> DEFINE Stays == target'[g] # None /\ target'[g].prospect = target[g].prospect
<1>0. TypeOK /\ target[g] \in Target /\ WorkHasLead /\ NoTargetNoWord
    BY DEF IInv, TypeOK
<1>1. ASSUME NEW f \in Firms, Import(f) PROVE Stays
    <2>1. PICK date \in 1..today : upsert_target(f, "cold", date, None)
        BY <1>1 DEF Import
    <2> QED BY <1>0, <2>1, UpsertKeepsProspect DEF Kinds
<1>2. ASSUME NEW f \in Firms, Judge(f) PROVE Stays
    <2>1. target[f] \in Target /\ target' = [target EXCEPT ![f].ready = TRUE]
        BY <1>0, <1>2 DEF Judge, TypeOK
    <2>2. [target[f] EXCEPT !.ready = TRUE] \in Target BY <2>1 DEF Target
    <2> QED BY <1>0, <2>1, <2>2, TargetAssumption DEF Target, TypeOK
<1>3. ASSUME NEW f \in Firms, NEW action \in {"in_sequence", "closed"}, decide(f, action)
      PROVE Stays
    <2>1. /\ target[f] \in Target /\ deciding[f] \in [kind : Kinds, ready : BOOLEAN]
        BY <1>0, <1>3 DEF decide, TypeOK, NoTargetNoWord
    <2>2. PICK a \in {"none"} \cup Kinds :
              target' = target \/ target' = [target EXCEPT ![f].status = action, ![f].arc = a]
        BY <1>3, <2>1 DEF decide, Target
    <2>3. [target[f] EXCEPT !.status = action, !.arc = a] \in Target
        BY <2>1 DEF Target
    <2> QED BY <1>0, <2>1, <2>2, <2>3, TargetAssumption DEF Target, TypeOK
<1>4. ASSUME NEW w \in Workers, seed_outreach_target(w) PROVE Stays
    <2> DEFINE l == work[w].lead
    <2>1. l \in Leads /\ firm[l] \in Firms \cup {None}
        BY <1>0, <1>4 DEF seed_outreach_target, Doing, WorkHasLead, TypeOK
    <2>2. CASE firm[l] = None BY <1>4, <2>2 DEF seed_outreach_target
    <2>3. CASE firm[l] # None
        <3>1. upsert_target(firm[l], "inbound_enquiry", today, l)
            BY <1>4, <2>3 DEF seed_outreach_target
        <3>2. today \in 1..today BY <1>0, LeadAssumption DEF TypeOK, Days
        <3> HIDE DEF l
        <3> QED BY <1>0, <2>1, <2>3, <3>1, <3>2, UpsertKeepsProspect DEF Kinds
    <2> QED BY <2>2, <2>3
<1>5. CASE UNCHANGED target BY <1>5
<1>6. \/ UNCHANGED target
      \/ \E w \in Workers : seed_outreach_target(w)
      \/ \E f \in Firms : Import(f) \/ Judge(f)
                         \/ \E action \in {"in_sequence", "closed"} : decide(f, action)
    BY DEF Next, vars, leads_webhook, process_lead, find_existing_prospect, insert_prospect,
           qualify_fit, apply_qualification, insert_pain_signal, propose_task_candidate,
           Fails, Restart, Midnight, Gate, ReadTarget
<1> QED BY <1>1, <1>2, <1>3, <1>4, <1>5, <1>6

\* Whatever is imported, promoted, delivered, judged or decided, the first prospect
\* of a target stays its prospect.
THEOREM FirstProspectIsKept == Spec => FirstProspectStays
<1>1. IInv /\ [Next]_vars =>
         [\A f \in Firms : target[f] # None /\ target[f].prospect # None =>
             target'[f] # None /\ target'[f].prospect = target[f].prospect]_vars
    BY ProspectStep
<1> QED BY <1>1, Inductive, PTL DEF Spec, FirstProspectStays
=============================================================================

------------------------------- MODULE TodoSync -------------------------------
(***************************************************************************)
(* A to-do from the card in #task-tinder to its row in Notion: accept and  *)
(* promote, the pinned checklist, initiatives, and the sync that moves     *)
(* Done both ways.                                                         *)
(*                                                                         *)
(* A sync cycle reads the tasks, then the pages, plans, and only then      *)
(* writes: every write is a transaction or an API call of its own, the     *)
(* operator goes on in Discord and in Notion meanwhile, and a slow cycle   *)
(* overlaps the next one.  Of a row's properties the model keeps Done and  *)
(* Initiative; a follow-up has the status of its task (one statement       *)
(* writes both).                                                           *)
(***************************************************************************)
EXTENDS Naturals

CONSTANTS
    Cards,          \* task_candidates, each with the task it may become
    Initiatives,    \* okr_initiatives
    Syncs,          \* sync cycles that may run at once
    MaxEvents,      \* bound: changes by the operator and the OKR pull, failed
                    \*        calls and crashes
    MaxPages,       \* bound: rows that exist or are referred to at a time
    Nil

VARIABLES
    card,           \* card -> task_candidates.status, or "absent"
    posted,         \* cards in #task-tinder
    aim,            \* card -> task_candidates.okr_initiative_id
    accepting,      \* card -> the row between decide and promote, Nil if neither
    task,           \* card -> status of its task, or "absent"
    goal,           \* card -> tasks.okr_initiative_id
    okr,            \* initiative -> its Standing
    page,           \* page id -> the To-Do row, Nil if there is none
    synced,         \* notion_sync: card -> page, hash and synced_done, or Nil
    sync,           \* cycle -> what it is doing
    wanted,         \* history: card -> the initiative last assigned
    stray,          \* history: cards whose row may not be what `synced` says
    events

todoVars == <<card, posted, aim, accepting, task, goal, okr, page, synced, sync,
              wanted, stray, events>>

tinder == <<card, posted, aim, accepting>>
history == <<wanted, stray>>

Assignment == Initiatives \cup {Nil}
Projection == [done : BOOLEAN, initiative : Assignment]
PageIds == 1..MaxPages

\* What a pull can make of an initiative: assignable; in Notion still, but under
\* another Status or malformed (no Key Result, or more than one); archived.
Standing == {"Active", "Unfit", "Gone"}

Row == [of : Cards, props : Projection]
Synced == [page : PageIds, hash : Projection, done : BOOLEAN]
Plan == [done : {"push", "pull", "agree"}, write : {"create", "update", "skip"},
         page : PageIds \cup {Nil}, props : Projection]
Loaded == [status : {"absent", "open", "completed"}, goal : Assignment,
           synced : Synced \cup {Nil}]

ASSUME SyncAssumption ==
    /\ MaxEvents \in Nat /\ MaxPages \in Nat
    /\ Nil \notin Initiatives \cup Nat \cup BOOLEAN \cup [goal : Assignment]
    /\ Nil \notin Row \cup Synced \cup Plan

NotLoaded == [c \in Cards |-> [status |-> "absent", goal |-> Nil, synced |-> Nil]]

Idle == [step |-> "idle", tasks |-> NotLoaded, plan |-> [c \in Cards |-> Nil],
         todo |-> {}, touched |-> {}]

TodoTypeOK ==
    /\ card \in [Cards -> {"absent", "pending", "accepted", "declined", "deferred"}]
    /\ posted \subseteq Cards
    /\ aim \in [Cards -> Assignment]
    /\ accepting \in [Cards -> {Nil} \cup [goal : Assignment]]
    /\ task \in [Cards -> {"absent", "open", "completed"}]
    /\ goal \in [Cards -> Assignment]
    /\ okr \in [Initiatives -> Standing]
    /\ page \in [PageIds -> Row \cup {Nil}]
    /\ synced \in [Cards -> Synced \cup {Nil}]
    /\ sync \in [Syncs -> [step : {"idle", "pages", "pull", "write", "record"},
                           tasks : [Cards -> Loaded],
                           plan : [Cards -> Plan \cup {Nil}],
                           todo : SUBSET Cards, touched : SUBSET Cards]]
    /\ wanted \in [Cards -> Assignment]
    /\ stray \subseteq Cards
    /\ events \in 0..MaxEvents

TodoInit ==
    /\ card = [c \in Cards |-> "absent"]
    /\ posted = {}
    /\ aim = [c \in Cards |-> Nil]
    /\ accepting = [c \in Cards |-> Nil]
    /\ task = [c \in Cards |-> "absent"]
    /\ goal = [c \in Cards |-> Nil]
    /\ okr = [g \in Initiatives |-> "Active"]
    /\ page = [p \in PageIds |-> Nil]
    /\ synced = [c \in Cards |-> Nil]
    /\ sync = [y \in Syncs |-> Idle]
    /\ wanted = [c \in Cards |-> Nil]
    /\ stray = {}
    /\ events = 0

Event ==
    /\ events < MaxEvents
    /\ events' = events + 1

\* History: the cycles under way no longer have card c to themselves.
Touch(c) ==
    sync' = [y \in Syncs |->
               IF sync[y].step = "idle" THEN sync[y]
               ELSE [sync[y] EXCEPT !.touched = @ \cup {c}]]

-----------------------------------------------------------------------------
(* #task-tinder, /todo and /initiative.                                    *)

Assignable == {Nil} \cup {g \in Initiatives : okr[g] = "Active"}

\* /todo, or a proposal of Tartt (without an initiative).
add_todo(c, g) ==
    /\ card[c] = "absent"
    /\ g \in Assignable
    /\ card' = [card EXCEPT ![c] = "pending"]
    /\ aim' = [aim EXCEPT ![c] = g]
    /\ wanted' = [wanted EXCEPT ![c] = g]
    /\ UNCHANGED <<posted, accepting, task, goal, okr, page, synced, sync,
                   stray, events>>

PostCard(c) ==
    /\ card[c] = "pending"
    /\ c \notin posted
    /\ posted' = posted \cup {c}
    /\ UNCHANGED <<card, aim, accepting, task, goal, okr, page, synced, sync,
                   history, events>>

\* The guarded UPDATE of a click; an accept carries the row it returned.
decide(c, status) ==
    /\ c \in posted
    /\ card[c] = "pending"
    /\ card' = [card EXCEPT ![c] = status]
    /\ accepting' = IF status = "accepted"
                    THEN [accepting EXCEPT ![c] = [goal |-> aim[c]]] ELSE accepting
    /\ UNCHANGED <<posted, aim, task, goal, okr, page, synced, sync, history,
                   events>>

\* The follow-up and the task, in a second transaction.
promote(c) ==
    /\ accepting[c] # Nil
    /\ task' = [task EXCEPT ![c] = "open"]
    /\ goal' = [goal EXCEPT ![c] = accepting[c].goal]
    /\ accepting' = [accepting EXCEPT ![c] = Nil]
    /\ UNCHANGED <<card, posted, aim, okr, page, synced, sync, history, events>>

\* The transaction fails or the bot dies: nothing promotes the card again.
PromoteFails(c) ==
    /\ accepting[c] # Nil
    /\ Event
    /\ accepting' = [accepting EXCEPT ![c] = Nil]
    /\ UNCHANGED <<card, posted, aim, task, goal, okr, page, synced, sync,
                   history>>

\* A card takes an initiative whatever became of it.
MutantAssignDecided(kind, c, g) ==
    /\ Event
    /\ g \in Assignable
    /\ wanted' = [wanted EXCEPT ![c] = g]
    /\ \/ kind = "card" /\ card[c] # "absent" /\ task[c] = "absent"
          /\ aim' = [aim EXCEPT ![c] = g] /\ UNCHANGED <<goal, sync>>
       \/ kind = "task" /\ task[c] = "open"
          /\ goal' = [goal EXCEPT ![c] = g] /\ Touch(c) /\ UNCHANGED aim
    /\ UNCHANGED <<card, posted, accepting, task, okr, page, synced, stray>>

\* /initiative, on a pending card or an open task.
assign(kind, c, g) ==
    /\ Event
    /\ g \in Assignable
    /\ wanted' = [wanted EXCEPT ![c] = g]
    /\ \/ kind = "card" /\ card[c] = "pending"
          /\ aim' = [aim EXCEPT ![c] = g] /\ UNCHANGED <<goal, sync>>
       \/ kind = "task" /\ task[c] = "open"
          /\ goal' = [goal EXCEPT ![c] = g] /\ Touch(c) /\ UNCHANGED aim
    /\ UNCHANGED <<card, posted, accepting, task, okr, page, synced, stray>>

Tinder(c) ==
    \/ \E g \in Assignment : add_todo(c, g)
    \/ PostCard(c)
    \/ \E status \in {"accepted", "declined", "deferred"} : decide(c, status)
    \/ promote(c)
    \/ \E kind \in {"card", "task"}, g \in Assignment : assign(kind, c, g)

\* The OKR pull replaces what it knows of the initiatives in one transaction.
okr_pull(pulled) ==
    /\ Event
    /\ pulled # okr
    /\ okr' = pulled
    /\ sync' = [y \in Syncs |->
                  IF sync[y].step = "idle" THEN sync[y]
                  ELSE [sync[y] EXCEPT !.touched = Cards]]
    /\ UNCHANGED <<tinder, task, goal, page, synced, history>>

-----------------------------------------------------------------------------
(* Done, in Discord and in Notion.                                         *)

Completed(c) == task[c] = "completed"

\* complete_task and reopen_task: nothing happens if the task is there already.
SetDone(c, done) ==
    task' = IF task[c] = "absent" THEN task
            ELSE [task EXCEPT ![c] = IF done THEN "completed" ELSE "open"]

\* A button of the checklist.
handle_toggle(c) ==
    /\ Event
    /\ task[c] # "absent"
    /\ SetDone(c, ~Completed(c))
    /\ Touch(c)
    /\ UNCHANGED <<tinder, goal, okr, page, synced, history>>

\* The operator ticks or unticks a row, or deletes it.
Tick(p) ==
    /\ Event
    /\ page[p] # Nil
    /\ page' = [page EXCEPT ![p].props.done = ~@]
    /\ Touch(page[p].of)
    /\ UNCHANGED <<tinder, task, goal, okr, synced, history>>

\* The operator changes the Initiative of a row.
Retarget(p, g) ==
    /\ Event
    /\ page[p] # Nil /\ page[p].props.initiative # g
    /\ page' = [page EXCEPT ![p].props.initiative = g]
    /\ stray' = stray \cup {page[p].of}
    /\ Touch(page[p].of)
    /\ UNCHANGED <<tinder, task, goal, okr, synced, wanted>>

Delete(p) ==
    /\ Event
    /\ page[p] # Nil
    /\ page' = [page EXCEPT ![p] = Nil]
    /\ Touch(page[p].of)
    /\ UNCHANGED <<tinder, task, goal, okr, synced, history>>

-----------------------------------------------------------------------------
(* A sync cycle.                                                           *)

\* Notion's value is kept whenever the sides differ.
MutantNotionWins(pg_done, notion_done, synced_done) ==
    IF notion_done = Nil THEN "push"
    ELSE IF pg_done = notion_done THEN "agree" ELSE "pull"

\* Which side's Done to keep; there is no row if notion_done is Nil.
merge_done(pg_done, notion_done, synced_done) ==
    IF notion_done = Nil THEN "push"
    ELSE IF pg_done = notion_done THEN "agree"
    ELSE IF synced_done = Nil THEN "push"
    ELSE IF notion_done # synced_done THEN "pull" ELSE "push"

content_hash(props) == props

\* The initiative of a task leaves the row when the initiative leaves Notion.
shown(g) == IF g # Nil /\ okr[g] = "Gone" THEN Nil ELSE g

\* The tasks with their mapping, as one query reads them.
LoadTasks(y) ==
    /\ sync[y].step = "idle"
    /\ \E c \in Cards : task[c] # "absent"
    /\ sync' = [sync EXCEPT ![y] = [Idle EXCEPT
          !.step = "pages",
          !.tasks = [c \in Cards |->
             IF task[c] = "absent" THEN Idle.tasks[c]
             ELSE [status |-> task[c], goal |-> shown(goal[c]),
                   synced |-> synced[c]]]]]
    /\ UNCHANGED <<tinder, task, goal, okr, page, synced, history, events>>

\* A task with a record is not given another row.
MutantNeverAgain(t) ==
    LET kept == t.synced # Nil
    IN  [done |-> IF kept THEN "agree" ELSE "push",
         page |-> IF kept THEN t.synced.page ELSE Nil,
         props |-> [done |-> t.status = "completed", initiative |-> t.goal],
         write |-> IF ~kept THEN "create"
                   ELSE IF page[t.synced.page] # Nil THEN "update" ELSE "skip"]

\* What the cycle does for a task, given the row it found.
plan(t) ==
    LET found == IF t.synced # Nil /\ page[t.synced.page] # Nil
                 THEN t.synced.page ELSE Nil
        pg_done == t.status = "completed"
        notion_done == IF found # Nil THEN page[found].props.done ELSE Nil
        merge == merge_done(pg_done, notion_done,
                            IF t.synced # Nil THEN t.synced.done ELSE Nil)
        props == [done |-> IF merge = "pull" THEN notion_done ELSE pg_done,
                  initiative |-> t.goal]
    IN  [done |-> merge, page |-> found, props |-> props,
         write |-> IF found = Nil THEN "create"
                   ELSE IF content_hash(props) # t.synced.hash THEN "update"
                   ELSE "skip"]

\* The task in hand.
FirstOf(todo) == CHOOSE c \in todo : TRUE
InHand(y) == FirstOf(sync[y].todo)
Doing(y) == sync[y].plan[InHand(y)]

\* A cycle that has `todo` left of its plan, before the first of them.
Turn(cycle, planned, todo) ==
    IF todo = {} THEN Idle
    ELSE [cycle EXCEPT
            !.tasks = NotLoaded, !.plan = planned, !.todo = todo,
            !.step = IF planned[FirstOf(todo)].done = "pull" THEN "pull" ELSE "write"]

\* Cycle y goes on as `cycle`, having written something of card c.
GoOn(y, cycle, c) ==
    sync' = [x \in Syncs |->
               IF x = y THEN cycle
               ELSE IF sync[x].step = "idle" THEN sync[x]
               ELSE [sync[x] EXCEPT !.touched = @ \cup {c}]]

\* History: cycle y writes the row of c beside another cycle.
Strayed(y, c) ==
    IF Doing(y).write # "skip" /\ \E x \in Syncs \ {y} : sync[x].step # "idle"
    THEN stray \cup {c} ELSE stray

\* The live pages, and the plan.
LoadPages(y) ==
    LET live == {c \in Cards : sync[y].tasks[c].status # "absent"}
    IN  /\ sync[y].step = "pages"
        /\ sync' = [sync EXCEPT ![y] =
              Turn(@, [c \in Cards |-> IF c \in live THEN plan(@.tasks[c]) ELSE Nil],
                   live)]
        /\ UNCHANGED <<tinder, task, goal, okr, page, synced, history, events>>

\* Whether the task moved is not looked at.
Pull(y) ==
    LET c == InHand(y)
    IN  /\ sync[y].step = "pull"
        /\ SetDone(c, Doing(y).props.done)
        /\ GoOn(y, [sync[y] EXCEPT !.step = "write"], c)
        /\ UNCHANGED <<tinder, goal, okr, page, synced, history, events>>

\* The record of card c, a cycle's copy of it or its plan names page p.
Refers(c, p) ==
    \/ synced[c] # Nil /\ synced[c].page = p
    \/ \E y \in Syncs :
          \/ sync[y].plan[c] # Nil /\ sync[y].plan[c].page = p
          \/ LET loaded == sync[y].tasks[c].synced
             IN  loaded # Nil /\ loaded.page = p

\* Ids are not told apart: one that nothing refers to is as good as a new one.
FreePages == {p \in PageIds : page[p] = Nil /\ \A c \in Cards : ~Refers(c, p)}

NewPage == CHOOSE p \in FreePages : TRUE

\* create_page, or update_page over what the page says by now; an update of a
\* page deleted meanwhile changes the trash.
Write(y) ==
    LET c == InHand(y)
        s == Doing(y)
        p == IF s.write = "create" THEN NewPage ELSE s.page
    IN  /\ sync[y].step = "write"
        /\ s.write = "create" => FreePages # {}
        /\ page' = IF s.write = "create" \/ (s.write = "update" /\ page[p] # Nil)
                   THEN [page EXCEPT ![p] = [of |-> c, props |-> s.props]] ELSE page
        /\ GoOn(y, [sync[y] EXCEPT !.step = "record", !.plan[c].page = p], c)
        /\ stray' = Strayed(y, c)
        /\ UNCHANGED <<tinder, task, goal, okr, synced, wanted, events>>

\* Or the API refuses it, and the cycle is over.
Refused(y) ==
    /\ sync[y].step = "write"
    /\ Doing(y).write = "update" /\ page[Doing(y).page] = Nil
    /\ sync' = [sync EXCEPT ![y] = Idle]
    /\ UNCHANGED <<tinder, task, goal, okr, page, synced, history, events>>

\* A record that exists keeps its page.
MutantRecordOnce(y) ==
    LET c == InHand(y)
        s == Doing(y)
    IN  /\ sync[y].step = "record"
        /\ synced' = [synced EXCEPT ![c] =
              [page |-> IF @ = Nil THEN s.page ELSE @.page,
               hash |-> content_hash(s.props), done |-> s.props.done]]
        /\ GoOn(y, Turn(sync[y], [sync[y].plan EXCEPT ![c] = Nil],
                        sync[y].todo \ {c}), c)
        /\ stray' = Strayed(y, c)
        /\ UNCHANGED <<tinder, task, goal, okr, page, wanted, events>>

\* The upsert of notion_sync.
Record(y) ==
    LET c == InHand(y)
        s == Doing(y)
    IN  /\ sync[y].step = "record"
        /\ synced' = [synced EXCEPT ![c] =
              [page |-> s.page, hash |-> content_hash(s.props),
               done |-> s.props.done]]
        /\ GoOn(y, Turn(sync[y], [sync[y].plan EXCEPT ![c] = Nil],
                        sync[y].todo \ {c}), c)
        /\ stray' = Strayed(y, c)
        /\ UNCHANGED <<tinder, task, goal, okr, page, wanted, events>>

\* A call raises, or the process dies: the cycle is over.
SyncFails(y) ==
    /\ sync[y].step # "idle"
    /\ Event
    /\ sync' = [sync EXCEPT ![y] = Idle]
    /\ stray' = IF sync[y].step = "record" /\ Doing(y).write # "skip"
                THEN stray \cup {InHand(y)} ELSE stray
    /\ UNCHANGED <<tinder, task, goal, okr, page, synced, wanted>>

run_once(y) ==
    LoadTasks(y) \/ LoadPages(y) \/ Pull(y) \/ Write(y) \/ Refused(y) \/ Record(y)

-----------------------------------------------------------------------------

TodoNext ==
    \/ \E c \in Cards : Tinder(c) \/ PromoteFails(c) \/ handle_toggle(c)
    \/ \E pulled \in [Initiatives -> Standing] : okr_pull(pulled)
    \/ \E p \in PageIds :
          Tick(p) \/ Delete(p) \/ \E g \in Assignment : Retarget(p, g)
    \/ \E y \in Syncs : run_once(y) \/ SyncFails(y)

TodoSpec == TodoInit /\ [][TodoNext]_todoVars

\* The scheduler launches the sync every five minutes.
TodoFairSpec == TodoSpec /\ \A y \in Syncs : WF_todoVars(run_once(y))

-----------------------------------------------------------------------------
(* Properties.                                                             *)

\* An initiative set with /initiative is never lost to an accept that was
\* under way: the task has the initiative that was last assigned.
AssignmentIsKept ==
    \A c \in Cards : task[c] # "absent" => goal[c] = wanted[c]

IsRow(p, c) == page[p] # Nil /\ page[p].of = c

\* A card has one row, unless a cycle was cut off between create_page and the
\* upsert or two cycles ran at once: deleting the row does not make the sync
\* create more than the one that replaces it.
OneRowPerTask ==
    \A c \in Cards \ stray : \A p, q \in PageIds :
        IsRow(p, c) /\ IsRow(q, c) => p = q

\* A cycle that has a card to itself leaves the task, the row and the record of
\* the sync with the same Done, and when the sides differed it is the one that
\* the last record did not have: the side that changed wins.
TheChangeWins ==
    [][\A y \in Syncs :
          LET c == InHand(y)
              done == Doing(y).props.done
          IN  sync[y].step = "record" /\ sync'[y].step # "record"
                /\ events' = events /\ c \notin sync[y].touched =>
                  /\ Completed(c) = done
                  /\ page[Doing(y).page].props.done = done
                  /\ synced'[c].done = done
                  /\ Doing(y).done # "agree" /\ synced[c] # Nil
                       /\ Doing(y).write # "create" => done # synced[c].done]_todoVars

\* The row the sync knows of for c, Nil if there is none.
RowOf(c) == IF synced[c] = Nil THEN Nil ELSE page[synced[c].page]

Alone == \A x, y \in Syncs : x # y => sync[x].step = "idle" \/ sync[y].step = "idle"

\* Once the operator stops and cycles no longer overlap (two that do can undo
\* each other for as long as they overlap), a task and its row have the same Done
\* for good, whatever was deleted, lost or duplicated on the way; and the same
\* Initiative, unless the row was changed behind the back of the hash: by hand,
\* by a cycle that was cut off before its upsert, or by two cycles at once.
SyncConverges ==
    <>[]Alone =>
      \A c \in Cards :
        <>[](task[c] # "absent" =>
                /\ RowOf(c) # Nil
                /\ RowOf(c).props.done = Completed(c)
                /\ c \notin stray => RowOf(c).props.initiative = shown(goal[c]))

=============================================================================

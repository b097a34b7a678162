# Verification of the AFC Chief of Staff

TLA+ models of the agents' state machines, the TLC configurations that check
them on small instances, and theorems about them checked by TLAPS. Every
definition is translated from the Python code and the SQL migrations of this
repository; `PROJECT.json` maps each one to its lines (`map`), lists the runs,
the mutations each property detects, the hazards of the code and the findings.

Paths below are relative to the repository root (`agents/...`, `migrations/...`).

## 1. The system

One Postgres database, a handful of long-lived processes and a set of short
ones. They share nothing but the database, the Discord channels and the
operator's mailbox.

* **Discord bot** (`agents/discord_bot`, launchd `KeepAlive`): one process, a
  cog per channel. A cog polls the database every few seconds or minutes, posts
  a card per new row, stores the message id, and on startup re-attaches the
  buttons of the cards that are still pending. Clicks are coroutines; each
  database call runs in a worker thread, so any two clicks interleave at every
  call.
* **Scheduler** (`agents/scheduler`): reads the loop manifests and launches each
  agent (drafting, capture, drain, pollers, sourcing run, Notion sync, briefing)
  as a process of its own.
* **Gateway** (`agents/gateway`): acknowledges a webhook and works on it later.
* **The operator**: presses buttons, submits modals, edits rows in NocoDB, edits
  and sends drafts in Gmail. Nothing forces the operator to do anything.

| Component | State | Operations | What is hard | What makes it correct |
|---|---|---|---|---|
| Approval gate: `_lib/approvals.py`, `cogs/approvals.py` | `approval_queue` rows; posted cards; live views of the bot process | request, poll and post, re-attach, click, modal, decide, dispatch | two clicks or two cards of a row at once; a restart between send, mark and dispatch; a stale modal | a handler runs at most once, on the operator's word, with the text decided; decisions are final; every request reaches the operator |
| Outreach gates: `_lib/outreach_discovery.py`, `_lib/outreach_intake.py`, their cogs, `_lib/outreach_rescore.py` | `outreach_discoveries`, `outreach_targets`, `outreach_touches`, the capacity view | approve, reject, start a sequence, work, watchlist, drop, rescore | capacity read outside the transaction; two decisions on a firm; failure between promotion and start | a firm is sequenced at most once; accept and promotion stand together; the ceiling holds up to the decisions in flight |
| Sourcing run: `outreach_sourcing/` | the discovery pool, its claims, a run's counters | housekeeping, select, claim, briefs in parallel, absorb, verify, finish | claims and crashes, worker errors, the operator reviewing meanwhile | what a run releases and finds stays within the target, a claim is answered, a review is never overwritten, a dry run writes nothing |
| Cost ledger: `_lib/runs.py`, `_lib/telemetry_context.py` | `agent_runs`; runs in flight | enter, refuse, call, write the row; cognee's callback | the check reads finished rows; midnight; lost inserts | the daily sums pass a ceiling by at most what was in flight |
| Gmail: `outreach/gmail.py`, `outreach/gmail_capture.py` | draft and thread ids, hash, watermark, the mailbox, the BCC inbox | create, refresh, stamp, read history, correlate, read copies | the operator edits meanwhile; crash between create and save; re-read history | a send is recorded, only a send is; edits survive; one live draft per touch |
| Daily surface and drain: `_lib/outreach_daily_surface.py`, `cogs/outreach_today.py`, `outreach/daily.py` | touch windows, snoozes, card ids, target status | list due, post, re-attach, Contact, Defer, drain | restart between post and mark; Defer against capture; drain's stale SELECT | one card per due touch, which answers until a Defer greys it; resolved touches left alone; only finished arcs drain, and they do |
| Review sheet: `_lib/outreach_discovery.py`, `cogs/outreach_discovery.py` | the day's window; posted pages, their live buttons; the contact columns of pool row and target | rank, post, stamp, re-attach, click, redraw, correct a contact, promote | two redraws of one message; a failed stamp; a correction beside an approval | what is decided shows as decided; ranking starves no candidate; a correction of what promotion copies reaches the record the packet reads |
| Granola poller and ingest core: `granola/run.py`, `_lib/ingest.py` | watermark, content hashes, the graph | seed, list, fetch, check, cognify, record, save | notes edited while a cycle reads them; two cycles, two channels, one text; a failure mid-batch | nothing behind the watermark is missing; copies are bounded |
| Tartt: `tartt/`, `_lib/tartt_control.py` | feeds, trust, interests, tracked URLs | add, pause, score, record, deep pass, propose, mark polled | the URL is tracked before the work it calls for; overlapping cycles; the cap | a tracked item is followed up, is proposed a bounded number of times, and none starves |
| Tasks: `_lib/task_tinder.py`, `_lib/tasks_checklist.py`, `_lib/initiatives.py`, `notion/todo_sync.py` | candidates, tasks, initiatives, Notion rows, the record of the sync | accept, promote, toggle, assign, three-way merge of Done | two transactions per accept; a plan made on a snapshot; create before record; both ends edit | the side that changed wins; one row per task; both ends converge |
| Gateway and lead qualification: `gateway/`, `roy_kent/qualify.py` | prospects, signals, candidates, the seeded target | acknowledge, dedup, insert, score, embed, propose, seed | acknowledged, then lost; overlapping deliveries; triggers in any order | a lead is qualified once; a target carries its newest trigger |
| Scheduler: `scheduler/run.py` | countdowns | reload, fire | overlap of a slow run with its next | in the modules of what it launches |

The remaining components (recall and graph queries, research agents, briefing,
MCP tools, outcomes, infrastructure clients, CLI) are in `PROJECT.json` with the
reason each is left out: they are reads, pure I/O, or one guarded statement.

How they interact: sourcing fills the pool Gate 0 decides on; Gate 0 promotes a
firm to a target, Gate 1 admits it and materialises its touches; the 05:45 loop
assembles packets, drafts and drains; the surface shows the due touches; the
operator sends; capture records it; the drain frees the slot the gates meter.
Every model call is charged to the ledger. The modules keep these boundaries:
what a component reads from a neighbour appears in its module as an action of
the environment (for example `Resolve` in `DailySurface` is the capture pass,
`ResolveTouches` in `OutreachPipeline` the whole surface, `Import` in `LeadIntake`
the imports and promotions that upsert the same target, `okr_pull` in `TodoSync`
the OKR pull as the to-dos see it).

## 2. Modules

| Module | Models | Variables and the code they stand for |
|---|---|---|
| `ApprovalGate` | the promise of the gate, without Discord, database or process | `ticket`, `draft`, `sent` |
| `Approvals` | the queue, the cog, the bot process | `status`, `payload`, `message` are columns; `cards`, `greyed` the channel; `views`, `deaf`, `poll`, `unmarked` the process; `click` the interactions; `shipped`, `runs` what the handlers did |
| `OutreachPipeline` | a firm from the pool to a drained sequence | `proposal`, `decision`, `promoted` on the discovery; `status`, `treatment`, `ready`, `arc` on the target; `op` the decisions in progress, each with its own program counter |
| `SourcingRun` | one process of the sourcing run after the other, over a shared pool | verdicts, claims, reviews; the run's round, counters and queue of results |
| `CostLedger` | the daily breaker | `spent` the sums the check reads, `owned` the part written by `agent_run`, `run` the blocks in flight |
| `GmailChannel` | drafting and capture passes against a mailbox a human uses | touch columns; `mail`, `history`, `copies` the mailbox; `pass`, `capture` the two processes; `mark` the watermark |
| `DailySurface` | one arc's touches, cards and drain | touch and target columns; `cards`, `bound` the channel and the bot; `bot`, `click`, `drain` the processes |
| `ReviewSheet` | the Gate 0 sheet, from the ranking to the redraw | `decision`, `message`, `contact` on the discovery, `target` the promoted copy; `card` the channel, `attached` the live views; `poll` the loop, `hand` the clicks, modals and redraws under way |
| `KnowledgeIngest` | the ingest core under the Granola poller, #capture and /ingest | `updated`, `text`, `clock` the notes; `mark` the channel's cursor, `hashes` `capture_messages`, `graph` cognee; `step`, `doc`, `poll` the workers |
| `ContentPoll` | Tartt's cycles and the operator's control of feeds and interests | `status`, `due`, `trust` on `sources`, `interest_score` on `content_items`, `candidates`; `nodes`, `deep`, `interests` the graph; `cycle` the processes |
| `TodoSync` | a to-do from its card to its Notion row, and back | `card`, `aim` the candidate, `task`, `goal` the task, `okr` the initiatives, `page` Notion, `synced` `notion_sync`; `accepting`, `sync` the handlers and cycles |
| `LeadIntake` | a lead from the 202 to its target, and the target under upserts and Gate 1 | `prospect`, `score`, `signals`, `tasks`, `target` are rows; `deciding` a decision, `work` the background tasks |
| `ApprovalsProofs`, `OutreachPipelineProofs`, `GmailChannelProofs`, `DailySurfaceProofs`, `LeadIntakeProofs` | the theorems about the module they are named after | |
| `SourcingProofs` | the theorems about `SourcingRun` and `ReviewSheet`: how firms come to the sheet and how the sheet decides them | |
| `SpendAndPollProofs` | the theorems about `CostLedger` and `ContentPoll` | |
| `IngestAndSyncProofs` | the theorems about `KnowledgeIngest` and `TodoSync`: what comes into the knowledge base and what goes out to Notion | |
| `MC...` | the instance TLC runs | |

Conventions. An action is a whole handler, or the part of a handler between two
points where another process can act (an `await`, a commit, a remote call). A
handler that spans several such points keeps a program counter (`click`, `op`,
`pass`, `capture`, `drain`). Names are those of the functions; an action that is
part of a function has a name of its own and says which part. Crashes and failed
calls are actions that lose what the process holds and keep what was committed;
each draws on `MaxFaults`. Variables commented
`history` are read by properties only. Where two components share a proof module they
share no state; the younger of the two has a prefix on the names every module has
(`SheetInit`, `PollNext`, `todoVars`), so that both can be extended at once. A definition called `Mutant...` is a plausible bug in
the definition after it, used to test that a property can fail; no specification
uses it.

What is abstracted, module by module:

* `Approvals`: a payload is "drafted" or "amended"; the wording of cards and the
  typed word itself are not modelled, only whether it was typed.
* `OutreachPipeline`: scores are the treatment they lead to; `ready` is that
  stage and function state are both set; a reply, a meeting and other later
  statuses are NocoDB edits and not modelled.
* `SourcingRun`: what a brief returns (sendable, held, not verified, an error)
  is a free choice; the pool's order is a free choice of the round. The exploration
  holds that housekeeping re-opens go on the sheet as they are (`sheet.reopened`);
  the code counts them against neither the target nor the quota.
* `CostLedger`: a call costs a small natural number; each budget is a name.
* `GmailChannel`: a text is the packet it came from or the operator's own; the
  packet's ready flag and the alert about a reply are left out; the guard that
  once refused an observed send was removed by `migrations/0025_gmail_channel.sql`.
* `DailySurface`: one Defer is handled at a time; packets and evidence are left
  out; snoozes typed into NocoDB are left out. Greying a card takes its buttons
  away from the bot: `_disable_card` sends a view whose items do nothing.
* `ReviewSheet`: a contact is a record of its fields (name, address and
  confidence; in the target a first name too), and the value of a field is the
  number of the edit it comes from. One edit corrects a set of fields (`Modals`);
  promotion copies the name and the address only (`Copied`). Scores are a
  rank (`Fit`) and whether a segment was ever rated; treatment and sequences are
  `OutreachPipeline`'s. The ranking itself is modelled whole, buckets included.
* `KnowledgeIngest`: a text stands for all that has its hash; an error of a call
  and the death of a process are two different actions, since only the first
  saves the watermark. The typed Meeting insert after a note's ingest is left
  out: it is guarded and keyed by the note. The skip of a note without text is
  left out because `assemble_note_text` always writes a header, so it never happens.
* `ContentPoll`: a score is low, deep or task-worthy, by the interests of the
  moment; a source is due or not. A feed is taken to list each URL once:
  `unseen_items` drops the URLs already tracked and would keep two entries of one listing.
* `TodoSync`: of a row's properties Done and Initiative; a page id is a number
  that is used again once nothing refers to it.
* `LeadIntake`: the target keeps what Gate 1 and the upsert decide on; any of the
  eight triggers that are not an enquiry is `cold`.

Every module has a type invariant (`TypeOK`, `SheetTypeOK`, `PollTypeOK`,
`TodoTypeOK`). Each is proved, and no run spends a property on it.

## 3. Runs

All bounds are CONSTANTS of the cfg. Deadlock is checked in `ledger` and `content`.
The other cfgs turn it off: once every request is decided, every arc drained or
the bounded days, edits and runs are used up, there is rightly nothing left to do.

| Run | Instance | What it shows |
|---|---|---|
| `approvals` | 1 high-consequence row, 2 interactions, the operator and a stranger, 3 faults | duplicate cards never run a handler twice or with another text; decisions are final; a posted pending card answers while the bot is up unless its re-attach failed; every request reaches the operator or is decided; the queue implements `ApprovalGate` |
| `pipeline` | 3 firms (1 already in sequence), ceiling 1, 2 decisions; the two free firms and the two decision slots symmetric | the overshoot of the ceiling is bounded by the decisions in progress; accept and promotion stand together; a live sequence has an arc; no firm is worked twice |
| `sourcing` | 3 firms (1 out of list), target 2, exploration share 50 %, 2 rounds, 2 runs | what a run releases and finds stays within the target and the exploration quota, whatever it re-opens on top; a claim is answered, a review is final, a dry run writes nothing |
| `ledger` | 2 agents, 5 budgets, 2 runs in flight, 2 calls each of cost at most 1, sums up to 3, one midnight | what `agent_run` adds to a budget passes its ceiling by at most what is in flight |
| `gmail` | 1 touch, 2 drafts, 2 packets, 1 fault, BCC configured | every send is recorded, only a send is; body edits made outside a pass survive; a known draft is not doubled; hashes are current |
| `surface` | 2 touches with windows 0-1 and 1-1, grace 1, 4 days, 1 fault | a due touch has one recorded card, which answers across restarts unless a Defer of its touch greyed it; resolved touches are left alone; only finished arcs drain and they all do |
| `ingest` | 2 notes, 2 texts, 3 edits, 2 overlapping cycles of 1 note each and a request, 1 fault; notes, texts and cycles symmetric | a text is cognified at most once per worker and failure; every note behind the watermark was ingested as it stands unless the watermark overtook it |
| `content` | 1 feed of 3 items (1 without text, 1 that trips the screen), cap 2, 2 overlapping cycles, 1 fault, feed and interest switched at will | a tracked item is followed up unless cut short; proposals are bounded; no readable item starves |
| `todo` | 1 card, 1 initiative, 2 cycles that may overlap, any 2 of: edits in Discord, in Notion, OKR pulls, failures | the assignment is kept; one row per task; the side that changed wins; both ends settle alike |
| `leads` | 2 leads (one delivered twice, one perhaps of a free mail host), 1 firm, 2 workers, 2 days, 1 fault, imports and decisions beside them | a lead is qualified once, and dealt with in the end unless cut short; a target carries its newest trigger |
| `inbound` (violation) | the same, no faults | an inbound enquiry is admitted to the five-touch arc |
| `sheet` | 3 candidates of 2 segments (1 never rated), window 2, 2 to a page, 2 hands, 1 correction (of name and confidence, or of the address), 1 fault or restart | a target carries the corrections of name and address, whenever they are made; the sheet settles on what was decided; no candidate starves |

Why the bounds are enough. The approval, Gmail and surface races need two
actors on one row and one failure at the wrong moment: two interactions (or two
passes), and enough faults that a card or a draft is duplicated and something
fails again afterwards. The pipeline's races need two decisions and one slot;
the third, seeded, firm makes the slot taken at the start so that draining,
admission and overshoot all occur. The pollers and the sync need two cycles that
overlap, one edit or failure inside the window of the other, and one repetition
afterwards (a third item past the cap, a second edit, a page recreated). Leads
need two deliveries of one lead, two leads of one firm and two days for triggers
to arrive out of order. The sheet needs a page with two rows, two redraws of it,
and a segment that ranks below the window. Sourcing needs a round with a surplus
(3 firms, target 2), an out-of-list firm for the quota and a second run that
finds what the first left. The ledger needs two runs in flight on a budget they
share and one they do not. Every action of every specification fires in the
passing runs.

Each property of a passing run has a mutation of a mapped definition that
breaks it (`mutants`): a guard dropped, a filter lost, two steps swapped.

### Fairness and liveness

Safety runs use no fairness. The liveness properties assume only what the
deployment gives:

* `Approvals`: weak fairness of the poller (`Poller`): launchd restarts the bot
  (`KeepAlive`), it re-attaches once and polls every 10 s. With it
  `RequestsReachTheOperator`: a request is decided or has a card with live
  buttons, unless the process could not re-attach its views (`deaf`). Whether the operator ever presses it is not assumed.
* `GmailChannel`: weak fairness of the capture pass, which the scheduler starts
  again and again. With it `SendsAreRecorded`: a draft that was sent has its
  touch recorded as sent, unless a call failed or the mail of a skipped touch
  stops every pass (see below), and `SendsLeaveACopy` says why: until it is
  recorded there is an unread copy.
* `DailySurface`: weak fairness of the bot (KeepAlive and its 5 minute loop) and
  of the drain (the 05:45 loop). With it `DueTouchesAreCarded` and
  `FinishedArcsDrain`. Time itself is not fair; the properties allow for the
  window closing first.
* `ContentPoll`: intervals elapse and a cycle that is launched goes on (launchd
  and the scheduler). With it `ReadableItemsAreTracked`: an item that stays listed
  on a feed that stays active is tracked, as long as fewer pages than the cap
  have no text (such pages are never tracked and fill the cap again every time).
* `TodoSync`: the scheduler launches a cycle every five minutes and it runs to
  its end or fails. With it `SyncConverges`, stated for behaviours whose cycles
  overlap no more in the end: two overlapping cycles can undo each other for ever.
* `LeadIntake`: a background task runs until it ends; nothing retries. With it
  `LeadsAreDealtWith`, for leads whose delivery was not cut short.
* `ReviewSheet`: the half-hourly loop ticks and a redraw runs to its end; no
  restart is assumed. With it `SheetShowsDecisions` and `CandidatesSurface`; a loop
  that died on a failed stamp (`dead`) waits for a restart.

## 4. Theorems

Each proof module proves `Spec => []IInv` for an inductive invariant, one lemma
per action and conjunct it can disturb, and derives the properties from it.
TLC checked each inductive invariant as an invariant before it was proved. The
constants are arbitrary; the only assumptions are the named `ASSUME` of the
module (finite sets, naturals, and that the null values are not data).

* **`ApprovalsProofs`**. `IInv` = `TypeOK`, that every known message is a card
  of its row (`CardsKnown`: the views, the card in hand and the recorded
  message ids are real cards, the last of the row itself), and `GateInv`: an interaction past the authorisation
  check was the operator's (`ClicksAuthorised`), at most one interaction is
  between decision and handler for a row, and none if the handler ran
  (`OneDispatcher`), and what ran is what was decided
  (`ShippedOnlyAsDecided`). `ShippedOnlyAsDecided` alone is not inductive: the
  dispatch step needs to know that it is the only one and that it carries the
  decided text. Results: `ApprovalsTyped`, `HandlerRunsAsDecided`,
  `DecisionsAreFinal`, and `ApprovalsImplementGate`, the refinement of
  `ApprovalGate`, for any number of rows, users, interactions and faults.
  `PostedCardsStayLive` (`PostedCardsAnswer`) has an invariant of its own,
  `CardsLive`: only rows asked for are carded (`CardsAsked`), a card is greyed only
  once its row is decided (`GreyedDecided`), a click acts on the row of its own
  card (`ClicksOnCards`), and the card in the poller's hand has its view, like
  the recorded ones (`ViewsLive`): between the send and the mark the message id is
  not yet in the row, so the property alone does not survive the mark.
* **`OutreachPipelineProofs`**. `IInv` adds to the checked invariants that an
  admission in progress is for a ready target (`AdmitsReady`), an acceptance in
  progress for a scored row (`AcceptsScored`), and the counting invariant: on
  each meter the live sequences plus the admissions in progress number less
  than the ceiling plus the number of decision slots. The last is what makes
  the overshoot bound inductive: a check that passes has a free slot to move
  into. Results: type, `AcceptedIsPromoted`, `SlotsHoldArcs`,
  `NeverWorkedTwice`, `CapacityOvershootBounded`.
* **`SpendAndPollProofs`**, the ledger. `RoomForFlights`, the sum written plus the most the
  runs in flight can still add, is the inductive form of
  `OvershootBounded`; sums over the runs in flight are handled by cardinality
  lemmas.
* **`GmailChannelProofs`**. `IInv` = type, drafts are numbered in order, a
  draft a touch knows is that touch's (`DraftsOwned`), a history event or a
  copy is of a draft that was sent (`EventsWereSent`), what a pass holds is a
  draft of the touch it works on (`PassInHand`), a touch to be drafted has no
  draft (`JobsAreFresh`), and `RecordedWasMailed`. Results: type,
  `OnlySendsAreRecorded`, `DraftsAreNotDoubled`, `EditsOutsideAPassSurvive`.
  On top of it, `StampsStayCurrent` says of every touch what `Stamped` does: the
  draft that no pass has in hand carries its stamp's text or the operator's; a
  pass takes a touch in hand before it writes to the mailbox and lets go of it after the
  stamp, and only a failure comes between. `SendsAreToldOf` follows the BCC copy of a
  send from the mailbox to the hands of `capture_bcc` (`Told`), until the touch is
  recorded or was skipped (`Untold`).
* **`SourcingProofs`**, the run. `IInv` = type, `SheetWithinTarget`, that no verify
  brief is outstanding between rounds (`RoundsAreClosed`), and that a claimed row
  exists and, if it has no result, is in the hands of a real run or excused
  (`ClaimsInHand`). `SheetWithinTarget` ties the sets of firms released and found to
  the two counters the code keeps, by cardinality: a stored pass adds one firm
  at most to each set it is counted in (`OwnGrows`). Nothing is said of the firms re-opened,
  since the code does not count them. `ClaimsAreAnswered` speaks of the moments between runs only
  and is not inductive; `ClaimsInHand` is what every step keeps. Results: type,
  `SheetStaysWithinTarget`, `EveryClaimIsAnswered`, `ReviewsAreFinal`,
  `DryRunsWriteNothing`.
* **`SourcingProofs`**, the sheet. `SheetInv` = type and what a busy hand holds
  (`HandsHold`), a target exists only of a decided row (`PromotedDecided`), and
  `EditsKnow`: an edit that read "both records" still has both, and one that read
  only the pool row is of a firm not promoted since, or `crossed`. The type needs it
  too: an edit writes into the target it read of, so there must be one.
  `TargetCarriesCorrections` is kept row by row (`RowCarries`), field by field: an edit
  of a promoted firm writes the same value to both, and what promotion does not
  copy stays unset until then. Results: `SheetIsTyped`, `CorrectionsReachTheTarget`.
* **`DailySurfaceProofs`**. `IInv` = type, cards posted in order
  (`CardsInOrder`), a recorded card is its touch's (`CardsKnown`), the card in
  the poll's hand is bound unless it is greyed, and its touch still on the list
  (`BotInHand`), a Defer stays in its window and has its snooze written before it
  greys the card (`ClickInHand`), a greyed card's touch has a snooze
  (`GreyedDeferred`, what `CardsAnswerAcrossRestarts` rests on), while nothing failed every card is
  recorded or in hand (`OneCardEach`), a candidate has no touches yet
  (`CandidateIsNew`), and what the drain's SELECT saw still holds
  (`DrainInHand`: nothing un-resolves a touch, so the UPDATE's guard on the
  status alone is enough). Results: type, `TouchesAreCardedOnce`,
  `ResolvedTouchesAreLeftAlone`, `CardsAnswerAcrossRestarts`,
  `OnlyFinishedArcsDrain`.
* **`SpendAndPollProofs`**, the poller. `CyclesCarry` says what a cycle holds at
  each step: an item of its own batch, its node, its tracker row and its deep pass as
  far as it got. `AskedOnce` counts: of an item tracked, the proposals made and the
  cycles that still have it in their batch are together no more than the cycles
  there are, and of one not tracked nothing was proposed; `unseen_items` lets
  no cycle take a tracked item, and a proposal takes it from the cycle's batch.
  `PassesEnd`: the deep pass and the proposal a recorded score calls for are
  done, or cut short, or a cycle with that very score is on its way. Both
  properties speak of the moment after; the counts and the cycle on its way are what
  each step keeps. Results: `PollIsTyped`, `ProposalsStayBounded`,
  `RecordedItemsGetTheirPass`.
* **`IngestAndSyncProofs`**, the ingest core. `IInv` = type; `CopiesBounded`, which counts the
  copies of a text against the failures and the workers past their check of it:
  while the hash is missing each copy beyond the failures is of a worker about to
  record it, and once it is there only those at the model call may add one; that a note with a
  stamp has a text, and stamps are unique and at most the clock (`NotesStamped`);
  `WatermarksStand`, which says of the watermark a cycle holds in memory what
  `WatermarkCovers` says of the stored one, since that is what gets saved;
  `BatchStands`, that what is older than a note still in a batch is in it too or
  covered; and what a worker has in hand (`NoteInHand`, `TextInHand`). Results: `IngestTyped`,
  `CopiesAreBounded`, `WatermarkIsCovered`.
* **`LeadIntakeProofs`**. The state splits in two halves that no action but the
  seed touches together (`GateInv`, `LeadInv`). `LeadInv`: a lead without a
  prospect row is untouched (`AbsentIsUntouched`), and one worker at most is past
  its insert, with what it has still to write not written yet
  (`OneWorkerEach`); `QualifiedOnce` alone does not say which worker may still
  write. `GateInv`: a firm without a target was told nothing and nothing is
  decided about it, and `NewestTriggerWins`. Results: `LeadsTyped`,
  `LeadsAreQualifiedOnce`, `NewestTriggerIsKept`, and `FirstProspectIsKept`: no upsert
  of a later lead takes a target from the prospect that seeded it
  (`FirstProspectStays`, an action property that is proved and in no cfg).

* **`IngestAndSyncProofs`**, the to-do sync. `CyclesHold`: a cycle has a plan for
  exactly the cards left to do, with a page unless it is to create one.
  `AssignmentInHand`: the initiative a card, or its accept under way, carries is
  the one last wanted; with it `AssignmentsAreKept`. `PagesAreOwn`: whatever a
  record, a cycle's copy of it or a plan names is a row of that card or none, which
  is what keeps a page that is written from being another's. `RowsSettled`: a
  row beside the recorded one is one that a cycle has just created and is about to
  record, and no other cycle has one too; with it `RowsAreOnePerTask`. `HashesAgree` and
  `CyclesAreCurrent`: what a cycle has loaded and planned of a card nobody else
  touched is still so, step by step to the record; with them
  `TheSideThatChangedWins`, the action property `TheChangeWins`.

Checked by TLC only: the liveness properties (`RequestsReachTheOperator`,
`SendsAreRecorded`, `DueTouchesAreCarded`, `FinishedArcsDrain`,
`ReadableItemsAreTracked`, `SyncConverges`, `LeadsAreDealtWith`,
`SheetShowsDecisions`, `CandidatesSurface`), since TLAPS does not do fairness or
ENABLED. Every other property of a passing run is a theorem, `ImplementsGate`
included. No module proved about has a recursive operator.

Three changes to the models came from the proofs. A cycle of `TodoSync` creates
a row only under an id nothing refers to (`FreePages`, the bound `MaxPages`):
an unbounded `CHOOSE` was no id at all once they ran out. The source a cycle of
`ContentPoll` takes next has a name (`NextSource`), and the constants that stand for
"none" are assumed different from data in every module.

## 5. Findings

One run checks what a document of the repository says and finds it violated;
`PROJECT.json` quotes both sides.

* `InboundNeverRunsTheArc` (run `inbound`): `architecture/36-inbound-leads.md` says
  that targets whose trigger is an inbound enquiry never materialise the
  five-touch sequence and that this is enforced; nothing between `intake.decide` and
  `materialize_sequence` looks at the kind of the trigger.

Other disagreements and limits met while modelling. Each can be read off the
model; none has a run of its own.

* `cogs/approvals.py:15-17` says views are re-attached on startup; one failed
  query there leaves every older card dead until the next restart
  (`PostedCardsAnswer` excepts it, as `deaf`). The Gate 0 sheet has the same.
* `_lib/outreach_intake.py:69-75` says the cap refuses an admission rather than
  exceed it; two decisions in flight both read the last free slot, and what is
  proved is `CapacityOvershootBounded`.
* `outreach_sourcing/run.py:136-138` says `stuck_pool` returns rows no run has tried;
  a claimed row whose brief a ceiling refused was not tried and is not returned
  (`StuckPerRound` and `ClaimsAreAnswered`).
* `_lib/runs.py:9-15` says the breaker blocks the next invocation; the labelled
  calls of cognee never ask it. Lines 524-525 bound the overshoot by "roughly one
  call's cost"; the proved bound is all the calls of all the runs in flight.
* `outreach/gmail.py:12-16` says an edited draft is never overwritten; the hash
  covers the body only, and the read and the write are two calls. What holds is
  `BodyEditsSurvive`, for edits made outside a pass.
* The exploration holds that `housekeeping` re-opens
  (`outreach_sourcing/run.py:224-231`) go on the day's sheet on top of what the run
  finds and count against neither `target_n` nor the exploration maximum.
* Defer on the daily surface says the touch re-surfaces tomorrow; its card is
  greyed, its buttons are replaced by ones that do nothing, and no other card is
  posted (`Answering` excepts it). Gate 0's "deferred" says "it returns tomorrow": the row is
  undecided and stays in the window, but its card is not posted again, and a
  window full of such rows stops new cards.
* The Gate 0 modal tells the operator that a target parked at Gate 0 waits on the
  Gate 1 card; the intake poll lists treatment "work" only. An exception between
  promotion and the start of the sequence is reported as "nothing changed"
  although the promotion is committed.
* `update_contact` reads whether a firm was promoted before its transaction; an
  approval in between leaves the target with the old contact (`crossed`).
* `migrations/0020_operator_verified_contacts.sql:60-63` says a correction made before
  promotion is not lost at promotion; `promote` (`_lib/outreach_discovery.py:892-915`)
  copies neither `email_confidence` nor `contact_first_name`. A confidence the operator set
  before the approval is unset in the target, and the guard of
  `_lib/outreach.py:362-395` on an address the operator verified has nothing to go by.
  `TargetCarriesCorrections` asks of these two that they are unset or right.
* A failed stamp ends the Gate 0 poll loop until the bot restarts (`dead`).
  Overlapping redraws of one message can leave the older one standing (`stale`).
* `architecture/35-outreach-crm.md:645-646` says a touch whose window closes
  unsent drains; the drain needs every touch sent or skipped, and nothing marks
  such a touch skipped.
* A row approved, or a task candidate accepted, just before a crash stays so and
  its handler or promotion never runs; no column would show it.
* A draft sent after its touch was skipped breaks a table constraint in every
  later capture pass, so `SendsAreRecorded` is stated for mailboxes without one
  (`SkippedMail`).
* `granola/run.py:161` gives the watermark the stamp a note had when it was
  fetched: when the note was edited since the listing, notes between the two
  stamps are passed over (`overtaken`).
* The comment at `tartt/run.py:209` says a failed item stays untracked; once its URL
  is recorded it is tracked and its deep pass and proposal are lost (`cut`). Pages
  without text are never tracked and count against the cap on every poll.
* `notion/todo_schema.py:31-35` says edits of other properties in Notion are
  overwritten; they stay as long as the hash of the task does not change.
  A cycle cut off between `create_page` and the upsert leaves a second row, and
  between `update_page` and the upsert a stale `synced_done` (`stray`).
* A lead whose qualification failed is never qualified again: the redelivery
  finds its row and stops. When only storing the score fails, the worker goes
  on with it. A lead of a firm already in sequence replaces the trigger of its
  target. `upsert_target` overwrites an address the operator verified.

Where the code gives up on its own accord (`deaf`, `excused`, `crossed`, `stale`, `cut`,
`overtaken`, `stray`, `touched`, or no failure yet), the property excepts that very
case and shows that nothing else breaks the promise; the `note` of each hazard in
`PROJECT.json` says which.

## 6. Plan

Done, in this order: the approval gate with its abstract specification and
refinement; the outreach pipeline; the sourcing run; the ledger; Gmail; the
daily surface; the Granola poller over the ingest core; Tartt; the to-do sync;
lead intake; the review sheet. Next:

1. An abstract specification of `TodoSync` (a register with two writers) and the
   part of it the sync implements; one of the ingest core (a set of texts, each
   remembered at least once).
2. Safety lemmas under the liveness properties: what stays true until the step
   that fairness promises.
3. The hypotheses' life cycle at the end of a sourcing run, and the evidence
   poller as what feeds a packet.

### Not modelled

* **Research agents, recall, briefing, MCP tools.** Calls to models and external
  services around single guarded writes or plain reads. What they may leave
  behind is a free choice in the modules of their callers.
* **The scheduler's own bookkeeping.** Countdowns, reload and edits of a
  schedule decide when a loop is launched. The modules allow any moment and,
  for the pollers and the sync, any overlap.
* **Cards of `#task-tinder`, outcomes and rescore.** The pattern of the approvals
  cog and the sheet (post, stamp, re-attach, grey out), modelled there.
* **Hypotheses** (opened and closed at the end of a sourcing run) and the **typed
  Meeting** after a note: written in one guarded statement each.
* **Time of day, prices, texts, layout** of cards and messages.

## 7. Running it

    tlc -workers 2 -config MCApprovals.cfg MCApprovals
    tlapm ApprovalsProofs.tla

and likewise for the other configurations and proof modules.

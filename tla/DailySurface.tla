----------------------------- MODULE DailySurface -----------------------------
(***************************************************************************)
(* One target's arc once it is admitted: its touches with their windows,   *)
(* the #outreach surface that posts a card per due touch and takes Contact *)
(* and Defer (cogs/outreach_today.py over outreach_daily_surface.py), the  *)
(* bot restarting meanwhile, and the drain of the 05:45 loop               *)
(* (outreach/daily.py) that frees the capacity slot of a finished arc.     *)
(* Sends come from the capture pass; skips, replies and reasons from the   *)
(* operator in NocoDB.                                                     *)
(***************************************************************************)
EXTENDS Naturals, FiniteSets

CONSTANTS
    Touches,   \* the slots of the arc
    Opens,     \* the first day of each touch's window
    Closes,    \* and its last
    ShortArc,  \* the slots a hypothesis_test target is not offered
    Grace,     \* DRAIN_GRACE_DAYS
    MaxDay,    \* bound on the days
    MaxFaults, \* bound on crashes and failed calls
    NoCard     \* a card not posted

ASSUME SurfaceAssumption ==
    /\ IsFiniteSet(Touches) /\ Touches # {} /\ ShortArc \subseteq Touches
    /\ Opens \in [Touches -> Nat] /\ Closes \in [Touches -> Nat]
    /\ \A t \in Touches : Opens[t] <= Closes[t]
    /\ Grace \in Nat /\ MaxDay \in Nat /\ MaxFaults \in Nat
    /\ NoCard \notin [touch : Touches, enabled : BOOLEAN]

\* A card per touch, and one more for each posting a failure cut short.
Cards == 1 .. Cardinality(Touches) + MaxFaults

VARIABLES
    day,     \* date.today()
    status,  \* outreach_targets.status
    reason,  \* stalled_reason is set
    state,   \* a touch is not materialised, live, sent or skipped
    working, \* marked_working_at is set
    snooze,  \* snoozed_until (0: NULL)
    card,    \* daily_message_id (0: NULL)
    replied, \* touches with replied_at
    cards,   \* the cards in the channel
    bound,   \* the cards whose view the bot process has registered
    bot,     \* the bot process and its poll
    click,   \* a Defer being handled
    drain,   \* the drain, between its SELECT and its UPDATE
    faults   \* faults so far (bounds the model)

rowVars == <<state, working, snooze, card>>
vars == <<day, status, reason, rowVars, replied, cards, bound, bot, click, drain, faults>>

Down  == [pc |-> "down", todo |-> {}, card |-> 0]
Ready == [pc |-> "ready", todo |-> {}, card |-> 0]
NoClick == [pc |-> "idle", card |-> 0, until |-> 0]

Posted    == {c \in Cards : cards[c] # NoCard}
Live(t)   == state[t] = "live"
Resolved(t) == state[t] \in {"sent", "skipped"}

\* The due-touch query: the window is open and no snooze runs past today.
Due(t) == /\ status = "in_sequence" /\ Live(t)
          /\ Opens[t] <= day /\ day <= Closes[t] /\ snooze[t] <= day

-----------------------------------------------------------------------------
Init ==
    /\ day = 0 /\ status = "candidate" /\ reason = FALSE /\ replied = {}
    /\ state = [t \in Touches |-> "none"] /\ working = [t \in Touches |-> FALSE]
    /\ snooze = [t \in Touches |-> 0] /\ card = [t \in Touches |-> 0]
    /\ cards = [c \in Cards |-> NoCard] /\ bound = {}
    /\ bot = Down /\ click = NoClick /\ drain = "idle" /\ faults = 0

-----------------------------------------------------------------------------
(* The arc *)

\* The next day.
Tick ==
    /\ day < MaxDay
    /\ day' = day + 1
    /\ UNCHANGED <<status, reason, rowVars, replied, cards, bound, bot, click, drain, faults>>

\* Gate 1 accepts: slots whose window is over, or that a short arc leaves out,
\* are created skipped.
materialize_sequence ==
    /\ status = "candidate"
    /\ \E short \in BOOLEAN :
          state' = [t \in Touches |-> IF Closes[t] < day \/ (short /\ t \in ShortArc)
                                      THEN "skipped" ELSE "live"]
    /\ status' = "in_sequence"
    /\ UNCHANGED <<day, reason, working, snooze, card, replied, cards, bound, bot, click,
                   drain, faults>>

\* The capture pass sees the send; the operator skips a touch in NocoDB.
Resolve(t) ==
    /\ Live(t)
    /\ \E s \in {"sent", "skipped"} : state' = [state EXCEPT ![t] = s]
    /\ UNCHANGED <<day, status, reason, working, snooze, card, replied, cards, bound, bot,
                   click, drain, faults>>

\* The operator logs a reply, moves the target on, or answers why it stalled.
Reply(t) ==
    /\ state[t] = "sent" /\ t \notin replied
    /\ replied' = replied \cup {t}
    /\ UNCHANGED <<day, status, reason, rowVars, cards, bound, bot, click, drain, faults>>

Engage ==
    /\ status = "in_sequence" /\ replied # {}
    /\ status' = "engaged"
    /\ UNCHANGED <<day, reason, rowVars, replied, cards, bound, bot, click, drain, faults>>

AnswerReason ==
    /\ status = "in_sequence" /\ ~reason
    /\ reason' = TRUE
    /\ UNCHANGED <<day, status, rowVars, replied, cards, bound, bot, click, drain, faults>>

-----------------------------------------------------------------------------
(* The bot's poll *)

Start ==
    /\ bot.pc = "down"
    /\ bot' = [Down EXCEPT !.pc = "starting"]
    /\ UNCHANGED <<day, status, reason, rowVars, replied, cards, bound, click, drain, faults>>

\* Mutant of reattach_views: only the touches due today get their view back.
MutantReattachDue ==
    /\ bot.pc = "starting"
    /\ bound' = bound \cup {card[t] : t \in {u \in Touches : Due(u) /\ card[u] # 0}}
    /\ bot' = Ready
    /\ UNCHANGED <<day, status, reason, rowVars, replied, cards, click, drain, faults>>

list_carded_live == {t \in Touches : Live(t) /\ card[t] # 0}

\* Once per process, every live carded touch gets its view back.
reattach_views ==
    /\ bot.pc = "starting"
    /\ bound' = bound \cup {card[t] : t \in list_carded_live}
    /\ bot' = Ready
    /\ UNCHANGED <<day, status, reason, rowVars, replied, cards, click, drain, faults>>

\* The listing fails: the loop goes on with no view bound.
ReattachFails ==
    /\ bot.pc = "starting" /\ faults < MaxFaults
    /\ bot' = Ready /\ faults' = faults + 1
    /\ UNCHANGED <<day, status, reason, rowVars, replied, cards, bound, click, drain>>

\* Mutant of list_due_uncarded: daily_message_id IS NULL is dropped.
MutantDueAgain == {t \in Touches : Due(t)}

list_due_uncarded == {t \in Touches : Due(t) /\ card[t] = 0}

poll ==
    /\ bot.pc = "ready" /\ list_due_uncarded # {}
    /\ bot' = [pc |-> "posting", todo |-> list_due_uncarded, card |-> 0]
    /\ UNCHANGED <<day, status, reason, rowVars, replied, cards, bound, click, drain, faults>>

\* post_card, its channel.send: the card is up with its view, not yet recorded.
post_card(t) ==
    /\ bot.pc = "posting" /\ t \in bot.todo /\ Posted # Cards
    /\ LET c == Cardinality(Posted) + 1 IN
          /\ cards' = [cards EXCEPT ![c] = [touch |-> t, enabled |-> TRUE]]
          /\ bound' = bound \cup {c}
          /\ bot' = [bot EXCEPT !.pc = "marking", !.card = c]
    /\ UNCHANGED <<day, status, reason, rowVars, replied, click, drain, faults>>

NextCard(t) == [pc |-> IF bot.todo = {t} THEN "ready" ELSE "posting",
                todo |-> bot.todo \ {t}, card |-> 0]

\* Mutant of mark_carded: the message id is not stored.
MutantUnmarked ==
    /\ bot.pc = "marking"
    /\ bot' = NextCard(cards[bot.card].touch)
    /\ UNCHANGED <<day, status, reason, rowVars, replied, cards, bound, click, drain, faults>>

mark_carded ==
    LET t == cards[bot.card].touch IN
    /\ bot.pc = "marking"
    /\ card' = [card EXCEPT ![t] = bot.card]
    /\ bot' = NextCard(t)
    /\ UNCHANGED <<day, status, reason, state, working, snooze, replied, cards, bound, click,
                   drain, faults>>

\* The send or the UPDATE raises: this touch is given up for now.
PostFails ==
    /\ faults < MaxFaults
    /\ \/ bot.pc = "posting" /\ \E t \in bot.todo : bot' = NextCard(t)
       \/ bot.pc = "marking" /\ bot' = NextCard(cards[bot.card].touch)
    /\ faults' = faults + 1
    /\ UNCHANGED <<day, status, reason, rowVars, replied, cards, bound, click, drain>>

\* The process dies: views, poll and interaction are gone.
Crash ==
    /\ bot.pc # "down" /\ faults < MaxFaults
    /\ bot' = Down /\ bound' = {} /\ click' = NoClick
    /\ faults' = faults + 1
    /\ UNCHANGED <<day, status, reason, rowVars, replied, cards, drain>>

-----------------------------------------------------------------------------
(* The operator's clicks *)

Pressable(c) == c \in bound /\ cards[c].enabled

\* Contact: one guarded UPDATE.
mark_working(c) ==
    LET t == cards[c].touch IN
    /\ Pressable(c) /\ Live(t) /\ ~working[t]
    /\ working' = [working EXCEPT ![t] = TRUE]
    /\ UNCHANGED <<day, status, reason, state, snooze, card, replied, cards, bound, bot, click,
                   drain, faults>>

\* Defer, with its note: the touch is read, and tomorrow (snooze_date) is still in
\* its window.
StartDefer(c) ==
    LET t == cards[c].touch IN
    /\ Pressable(c) /\ click = NoClick
    /\ Live(t) /\ day + 1 <= Closes[t]
    /\ click' = [pc |-> "write", card |-> c, until |-> day + 1]
    /\ UNCHANGED <<day, status, reason, rowVars, replied, cards, bound, bot, drain, faults>>

\* Mutant of defer: the UPDATE trusts the row read before.
MutantDeferUnguarded ==
    LET t == cards[click.card].touch IN
    /\ click.pc = "write"
    /\ snooze' = [snooze EXCEPT ![t] = click.until]
    /\ click' = [click EXCEPT !.pc = "disable"]
    /\ UNCHANGED <<day, status, reason, state, working, card, replied, cards, bound, bot, drain,
                   faults>>

\* The guarded UPDATE; it may have lost the race to a send.
defer ==
    LET t == cards[click.card].touch IN
    /\ click.pc = "write"
    /\ IF Live(t)
         THEN /\ snooze' = [snooze EXCEPT ![t] = click.until]
              /\ click' = [click EXCEPT !.pc = "disable"]
         ELSE snooze' = snooze /\ click' = NoClick
    /\ UNCHANGED <<day, status, reason, state, working, card, replied, cards, bound, bot, drain,
                   faults>>

\* The edit that greys the card out; its view, made from the message, takes the
\* place of the registered one and its buttons do nothing.  A failed edit is
\* swallowed and leaves both.
disable_card ==
    /\ click.pc = "disable"
    /\ \/ /\ cards' = [cards EXCEPT ![click.card].enabled = FALSE]
          /\ bound' = bound \ {click.card}
          /\ UNCHANGED faults
       \/ faults < MaxFaults /\ faults' = faults + 1 /\ UNCHANGED <<cards, bound>>
    /\ click' = NoClick
    /\ UNCHANGED <<day, status, reason, rowVars, replied, bot, drain>>

-----------------------------------------------------------------------------
(* The drain *)


\* Every touch resolved, no reply, and the last window over for long enough.
Drainable ==
    /\ status = "in_sequence" /\ replied = {}
    /\ \A t \in Touches : Resolved(t)
    /\ \A t \in Touches : day > Closes[t] + Grace

\* Mutant of run_drain: an arc counts as finished only if every touch was sent.
MutantAllSent ==
    /\ drain = "idle" /\ Drainable /\ reason /\ \A t \in Touches : state[t] = "sent"
    /\ drain' = "write"
    /\ UNCHANGED <<day, status, reason, rowVars, replied, cards, bound, bot, click, faults>>

\* The SELECT; a target without a stalled reason is only reported.
run_drain ==
    /\ drain = "idle" /\ Drainable /\ reason
    /\ drain' = "write"
    /\ UNCHANGED <<day, status, reason, rowVars, replied, cards, bound, bot, click, faults>>

\* Mutant of DrainWrite: the UPDATE is not guarded on in_sequence.
MutantDrainAnyway ==
    /\ drain = "write"
    /\ status' = "watchlist"
    /\ drain' = "idle"
    /\ UNCHANGED <<day, reason, rowVars, replied, cards, bound, bot, click, faults>>

\* The UPDATE, guarded on the status alone.
DrainWrite ==
    /\ drain = "write"
    /\ status' = IF status = "in_sequence" THEN "watchlist" ELSE status
    /\ drain' = "idle"
    /\ UNCHANGED <<day, reason, rowVars, replied, cards, bound, bot, click, faults>>

DrainFails ==
    /\ drain = "write" /\ faults < MaxFaults
    /\ drain' = "idle" /\ faults' = faults + 1
    /\ UNCHANGED <<day, status, reason, rowVars, replied, cards, bound, bot, click>>

-----------------------------------------------------------------------------
BotStep == Start \/ reattach_views \/ poll \/ (\E t \in Touches : post_card(t)) \/ mark_carded
DrainStep == run_drain \/ DrainWrite

Next ==
    \/ Tick \/ materialize_sequence \/ Engage \/ AnswerReason
    \/ \E t \in Touches : Resolve(t) \/ Reply(t) \/ post_card(t)
    \/ Start \/ reattach_views \/ ReattachFails \/ poll \/ mark_carded \/ PostFails \/ Crash
    \/ \E c \in Cards : mark_working(c) \/ StartDefer(c)
    \/ defer \/ disable_card
    \/ run_drain \/ DrainWrite \/ DrainFails

Spec == Init /\ [][Next]_vars

\* launchd keeps the bot alive and its loop polls every five minutes; the
\* scheduler runs the drain every morning. Nothing is assumed of the operator.
FairSpec == Spec /\ WF_vars(BotStep) /\ WF_vars(DrainStep)

-----------------------------------------------------------------------------
(* Properties *)

\* Every variable keeps its type; a snooze stays in the touch's window.
TypeOK ==
    /\ day \in 0 .. MaxDay /\ reason \in BOOLEAN
    /\ status \in {"candidate", "in_sequence", "engaged", "watchlist"}
    /\ state \in [Touches -> {"none", "live", "sent", "skipped"}]
    /\ working \in [Touches -> BOOLEAN]
    /\ snooze \in [Touches -> 0 .. MaxDay + 1] /\ \A t \in Touches : snooze[t] <= Closes[t]
    /\ card \in [Touches -> Cards \cup {0}]
    /\ replied \subseteq Touches
    /\ cards \in [Cards -> {NoCard} \cup [touch : Touches, enabled : BOOLEAN]]
    /\ bound \subseteq Posted
    /\ bot \in [pc : {"down", "starting", "ready", "posting", "marking"},
                todo : SUBSET Touches, card : Cards \cup {0}]
    /\ click \in [pc : {"idle", "write", "disable"}, card : Cards \cup {0},
                  until : 0 .. MaxDay + 1]
    /\ drain \in {"idle", "write"} /\ faults \in 0 .. MaxFaults

\* However the clicks and the capture of a send interleave, a touch that is sent or
\* skipped is neither snoozed nor marked as being worked on afterwards.
ResolvedAreLeftAlone ==
    [][\A t \in Touches : Resolved(t) =>
          snooze'[t] = snooze[t] /\ working'[t] = working[t] /\ state'[t] = state[t]]_vars

\* While no call failed and the bot did not die, each touch has one card at most.
CardedOnce ==
    faults = 0 => \A c, d \in Posted : cards[c].touch = cards[d].touch => c = d

Up == bot.pc \in {"ready", "posting", "marking"}

\* The recorded card of a live touch answers, or a Defer of that touch greyed it.
Answering ==
    \A t \in Touches : Live(t) /\ card[t] # 0 =>
        \/ Pressable(card[t])
        \/ ~cards[card[t]].enabled /\ snooze[t] # 0

\* The recorded cards of the live touches answer from the moment a restarted bot has
\* listed them, and as long as it lives: those whose window is over, and those whose
\* Defer could not grey them, as well as those due today.  Only a card that a Defer of
\* its touch greyed does not, and it stays so when the snooze is over.
RecordedCardsAnswer ==
    [][(Up /\ Answering) \/ (bot.pc = "starting" /\ faults' = faults) =>
          (Up' => Answering')]_vars

\* A capacity slot is freed by the drain only when no touch of the arc is open, its
\* grace is over and the operator said why it stalled, whatever happened between the
\* SELECT and the UPDATE; a target that moved on meanwhile is never parked.
DrainsOnlyFinished ==
    [][status' = "watchlist" /\ status # "watchlist" =>
          /\ reason /\ \A t \in Touches : Resolved(t)
          /\ \A t \in Touches : day > Closes[t] + Grace
          /\ status = "in_sequence"]_vars

\* Every due touch gets a card, or stops being due.
DueTouchesAreCarded ==
    \A t \in Touches : (Due(t) /\ card[t] = 0) ~> (card[t] # 0 \/ ~Due(t))

\* A finished, explained arc past its grace frees its slot, unless a reply is in.
FinishedArcsDrain ==
    (Drainable /\ reason) ~> (status # "in_sequence" \/ replied # {})
=============================================================================

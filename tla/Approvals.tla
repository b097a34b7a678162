----------------------------- MODULE Approvals ------------------------------
(***************************************************************************)
(* The human "yes" gate (B2): the approval_queue table, the Discord cog    *)
(* that posts a card per pending row and runs the item's handler after the *)
(* operator decides, and the restarts of the bot process in between.       *)
(*                                                                         *)
(* Clicks are concurrent coroutines (the database calls run in threads),   *)
(* so each Discord interaction carries its own program counter.            *)
(***************************************************************************)
EXTENDS Naturals, FiniteSets

CONSTANTS
    Rows,            \* approval_queue rows agents may insert
    HighConsequence, \* the rows whose item_type needs the typed SEND
    Registered,      \* the rows whose item_type has a handler in the bot
    Users,           \* Discord accounts that can see the channel
    Operator,        \* OPERATOR_DISCORD_ID
    Unset,           \* its value 0: the allowlist was never configured
    Interactions,    \* Discord interactions that may be in progress
    MaxFaults,       \* bound on restarts and failed calls
    NoRow,           \* no row (an unused message id)
    Nothing,         \* nothing shipped
    Idle             \* an interaction that is not in progress

VARIABLES
    status,    \* approval_queue.status ("absent" before the insert)
    payload,   \* the stored draft: as requested, or amended by an Edit
    message,   \* approval_queue.discord_message_id (0 is NULL)
    cards,     \* the messages in #approvals: [message id -> row]
    greyed,    \* messages whose buttons were disabled
    bot,       \* the bot process: down | starting | running
    views,     \* messages this process holds a live View for
    deaf,      \* this process's re-attach failed (its flag is set all the same)
    poll,      \* rows of the current _poll tick still to be posted
    unmarked,  \* the message sent for the row being posted (0: none)
    click,     \* the interactions
    shipped,   \* what each row's handler was last run with
    runs,      \* how many times each row's handler ran
    faults     \* faults so far (bounds the model)

queueVars == <<status, payload, message>>
botVars   == <<bot, views, deaf, poll, unmarked>>
vars == <<queueVars, cards, greyed, botVars, click, shipped, runs, faults>>

-----------------------------------------------------------------------------
(* Data *)

Payloads == {"drafted", "amended"}
Dispatch == {"approved", "edited"}                 \* DISPATCH_STATUSES
Decided  == Dispatch \cup {"rejected"}
Actions  == {"approve", "reject", "edit"}
StatusOf == [approve |-> "approved", reject |-> "rejected", edit |-> "edited"]

\* Each row is carded once and once more per fault, so ids never run out.
MessageIds == 1 .. (Cardinality(Rows) + MaxFaults)

\* A handler run, with the authority it ran under.
Shipments == [what : Payloads, user : Users, typed : BOOLEAN]

Interaction == [pc : {"modal", "decide", "dispatch"}, user : Users,
                row : Rows, card : MessageIds, action : Actions,
                typed : BOOLEAN, what : Payloads]

ASSUME ApprovalsAssumption ==
    /\ HighConsequence \subseteq Rows
    /\ Registered \subseteq Rows
    /\ Unset \notin Users
    /\ NoRow \notin Rows
    /\ Idle \notin Interaction
    /\ Nothing \notin Shipments \cup Payloads
    /\ IsFiniteSet(Rows)
    /\ MaxFaults \in Nat

requires_typed_confirm(r) == r \in HighConsequence
opens_modal(r, a) == a = "edit" \/ (a = "approve" /\ requires_typed_confirm(r))
is_authorized(u) == Operator # Unset /\ u = Operator

At(i, pc) == click[i] # Idle /\ click[i].pc = pc
Close(i) == click' = [click EXCEPT ![i] = Idle]

-----------------------------------------------------------------------------
Init ==
    /\ status = [r \in Rows |-> "absent"]
    /\ payload = [r \in Rows |-> "drafted"]
    /\ message = [r \in Rows |-> 0]
    /\ cards = [m \in MessageIds |-> NoRow]
    /\ greyed = {}
    /\ bot = "down" /\ views = {} /\ deaf = FALSE
    /\ poll = {} /\ unmarked = 0
    /\ click = [i \in Interactions |-> Idle]
    /\ shipped = [r \in Rows |-> Nothing]
    /\ runs = [r \in Rows |-> 0]
    /\ faults = 0

-----------------------------------------------------------------------------
(* Agents and the bot's poller *)

\* request_approval: any agent process inserts a pending row.
request_approval(r) ==
    /\ status[r] = "absent"
    /\ status' = [status EXCEPT ![r] = "pending"]
    /\ UNCHANGED <<payload, message, cards, greyed, botVars, click, shipped, runs, faults>>

\* The process comes up; before it is ready it holds no views.
Connect ==
    /\ bot = "down"
    /\ bot' = "starting"
    /\ UNCHANGED <<queueVars, cards, greyed, views, deaf, poll, unmarked,
                   click, shipped, runs, faults>>

\* Mutant of Reattach: the loop that adds the views is gone.
MutantReattachNone ==
    /\ bot = "starting"
    /\ bot' = "running"
    /\ deaf' = FALSE
    /\ UNCHANGED <<queueVars, cards, greyed, views, poll, unmarked, click, shipped,
                   runs, faults>>

\* _before_poll: re-attach the posted pending cards, once per process.
Reattach ==
    /\ bot = "starting"
    /\ bot' = "running"
    /\ views' = views \cup {message[r] : r \in {r \in Rows :
                               status[r] = "pending" /\ message[r] # 0}}
    /\ deaf' = FALSE
    /\ UNCHANGED <<queueVars, cards, greyed, poll, unmarked, click, shipped, runs, faults>>

\* The same when listing the rows fails: logged, and never tried again.
ReattachFails ==
    /\ bot = "starting" /\ faults < MaxFaults
    /\ bot' = "running"
    /\ deaf' = TRUE
    /\ faults' = faults + 1
    /\ UNCHANGED <<queueVars, cards, greyed, views, poll, unmarked, click, shipped, runs>>

\* list_undelivered: the pending rows with no message id.
PollTick ==
    /\ bot = "running" /\ poll = {} /\ unmarked = 0
    /\ poll' = {r \in Rows : status[r] = "pending" /\ message[r] = 0}
    /\ poll' # {}
    /\ UNCHANGED <<queueVars, cards, greyed, bot, views, deaf, unmarked,
                   click, shipped, runs, faults>>

\* _post_card, first half: channel.send with a live View.
SendCard(r) ==
    /\ bot = "running" /\ r \in poll /\ unmarked = 0
    /\ \E m \in MessageIds :
          /\ cards[m] = NoRow
          /\ \A n \in MessageIds : n < m => cards[n] # NoRow
          /\ cards' = [cards EXCEPT ![m] = r]
          /\ views' = views \cup {m}
          /\ unmarked' = m
    /\ UNCHANGED <<queueVars, greyed, bot, deaf, poll, click, shipped, runs, faults>>

\* _post_card when the send raises: logged; a later tick lists the row again.
SendFails(r) ==
    /\ bot = "running" /\ r \in poll /\ unmarked = 0 /\ faults < MaxFaults
    /\ poll' = poll \ {r}
    /\ faults' = faults + 1
    /\ UNCHANGED <<queueVars, cards, greyed, bot, views, deaf, unmarked,
                   click, shipped, runs>>

\* _post_card, second half: mark_posted, guarded by nothing but the row's id.
mark_posted ==
    /\ bot = "running" /\ unmarked # 0
    /\ message' = [message EXCEPT ![cards[unmarked]] = unmarked]
    /\ poll' = poll \ {cards[unmarked]}
    /\ unmarked' = 0
    /\ UNCHANGED <<status, payload, cards, greyed, bot, views, deaf, click,
                   shipped, runs, faults>>

\* ... or it raises: the card stays up, the row is listed and carded again.
MarkFails ==
    /\ bot = "running" /\ unmarked # 0 /\ faults < MaxFaults
    /\ poll' = poll \ {cards[unmarked]}
    /\ unmarked' = 0
    /\ faults' = faults + 1
    /\ UNCHANGED <<queueVars, cards, greyed, bot, views, deaf, click, shipped, runs>>

\* The process dies: views, the poll tick and every interaction are gone.
Crash ==
    /\ bot # "down" /\ faults < MaxFaults
    /\ bot' = "down" /\ views' = {} /\ deaf' = FALSE
    /\ poll' = {} /\ unmarked' = 0
    /\ click' = [i \in Interactions |-> Idle]
    /\ faults' = faults + 1
    /\ UNCHANGED <<queueVars, cards, greyed, shipped, runs>>

-----------------------------------------------------------------------------
(* The operator's clicks *)

\* A button press on card m, answered only if this process holds its View.
\* _approve opens the typed-confirm modal for a high-consequence item; _edit
\* refuses a row that is no longer pending; an unauthorised click ends here.
Click(i, u, m, a) ==
    /\ click[i] = Idle
    /\ m \in views /\ m \notin greyed
    /\ is_authorized(u)
    /\ a = "edit" => status[cards[m]] = "pending"
    /\ click' = [click EXCEPT ![i] =
          [pc |-> IF opens_modal(cards[m], a) THEN "modal" ELSE "decide",
           user |-> u, row |-> cards[m], card |-> m, action |-> a,
           typed |-> FALSE, what |-> "drafted"]]
    /\ UNCHANGED <<queueVars, cards, greyed, botVars, shipped, runs, faults>>

\* on_submit of either modal: without the token a high-consequence item stops.
Submit(i, token) ==
    /\ At(i, "modal")
    /\ token = requires_typed_confirm(click[i].row)  \* no field otherwise
    /\ click' = [click EXCEPT ![i].pc = "decide", ![i].typed = token]
    /\ UNCHANGED <<queueVars, cards, greyed, botVars, shipped, runs, faults>>

\* The modal is dismissed or mistyped, or the database call raises.
Abandon(i) ==
    /\ At(i, "modal") \/ At(i, "decide")
    /\ Close(i)
    /\ UNCHANGED <<queueVars, cards, greyed, botVars, shipped, runs, faults>>

\* Mutant of decide: the UPDATE loses its WHERE status = 'pending'.
MutantDecideUnguarded(i) ==
    LET c == click[i]
        new == StatusOf[c.action]
        text == IF c.action = "edit" THEN "amended" ELSE payload[c.row]
    IN
    /\ At(i, "decide")
    /\ status' = [status EXCEPT ![c.row] = new]
    /\ payload' = [payload EXCEPT ![c.row] = text]
    /\ click' = [click EXCEPT ![i] =
          IF new \in Dispatch THEN [c EXCEPT !.pc = "dispatch", !.what = text] ELSE Idle]
    /\ greyed' = greyed \cup {c.card}
    /\ UNCHANGED <<message, cards, botVars, shipped, runs, faults>>

\* decide: the one guarded UPDATE, with the edit's read-merge in the same
\* transaction; then the clicked card is greyed, unless that edit fails.
decide(i) ==
    LET c == click[i]
        new == StatusOf[c.action]
        text == IF c.action = "edit" THEN "amended" ELSE payload[c.row]
    IN
    /\ At(i, "decide") /\ status[c.row] = "pending"
    /\ status' = [status EXCEPT ![c.row] = new]
    /\ payload' = [payload EXCEPT ![c.row] = text]
    /\ click' = [click EXCEPT ![i] =
          IF new \in Dispatch THEN [c EXCEPT !.pc = "dispatch", !.what = text] ELSE Idle]
    /\ greyed' \in {greyed, greyed \cup {c.card}}
    /\ UNCHANGED <<message, cards, botVars, shipped, runs, faults>>

\* decide returned None: "was already decided".
AlreadyDecided(i) ==
    /\ At(i, "decide") /\ status[click[i].row] # "pending"
    /\ Close(i)
    /\ UNCHANGED <<queueVars, cards, greyed, botVars, shipped, runs, faults>>

\* Mutant of RunHandler: the handler gets the payload read before the edit.
MutantRunHandlerStale(i) ==
    LET c == click[i] IN
    /\ At(i, "dispatch") /\ c.row \in Registered
    /\ shipped' = [shipped EXCEPT ![c.row] =
                      [what |-> "drafted", user |-> c.user, typed |-> c.typed]]
    /\ runs' = [runs EXCEPT ![c.row] = @ + 1]
    /\ Close(i)
    /\ UNCHANGED <<queueVars, cards, greyed, botVars, faults>>

\* finish_decision: the handler runs with the payload decide returned.
RunHandler(i) ==
    LET c == click[i] IN
    /\ At(i, "dispatch") /\ c.row \in Registered
    /\ shipped' = [shipped EXCEPT ![c.row] =
                      [what |-> c.what, user |-> c.user, typed |-> c.typed]]
    /\ runs' = [runs EXCEPT ![c.row] = @ + 1]
    /\ Close(i)
    /\ UNCHANGED <<queueVars, cards, greyed, botVars, faults>>

\* get_handler or the handler raises: reported, never retried.
HandlerFails(i) ==
    /\ At(i, "dispatch")
    /\ Close(i)
    /\ UNCHANGED <<queueVars, cards, greyed, botVars, shipped, runs, faults>>

-----------------------------------------------------------------------------
Poller == Connect \/ Reattach \/ PollTick \/ mark_posted \/ \E r \in Rows : SendCard(r)

Next ==
    \/ \E r \in Rows : request_approval(r) \/ SendCard(r) \/ SendFails(r)
    \/ Connect \/ Reattach \/ ReattachFails \/ PollTick
    \/ mark_posted \/ MarkFails \/ Crash
    \/ \E i \in Interactions, u \in Users, m \in MessageIds, a \in Actions :
          Click(i, u, m, a)
    \/ \E i \in Interactions :
          \/ \E token \in BOOLEAN : Submit(i, token)
          \/ Abandon(i) \/ decide(i) \/ AlreadyDecided(i)
          \/ RunHandler(i) \/ HandlerFails(i)

Spec == Init /\ [][Next]_vars

\* launchd restarts the bot and the 10-second loop keeps ticking; nothing obliges
\* the operator to click.
FairSpec == Spec /\ WF_vars(Poller)

-----------------------------------------------------------------------------
(* Properties *)

\* Every variable keeps its type.
TypeOK ==
    /\ status \in [Rows -> {"absent", "pending"} \cup Decided]
    /\ payload \in [Rows -> Payloads]
    /\ message \in [Rows -> {0} \cup MessageIds]
    /\ cards \in [MessageIds -> Rows \cup {NoRow}]
    /\ greyed \subseteq MessageIds
    /\ bot \in {"down", "starting", "running"}
    /\ views \subseteq MessageIds
    /\ deaf \in BOOLEAN
    /\ poll \subseteq Rows
    /\ unmarked \in {0} \cup MessageIds
    /\ click \in [Interactions -> Interaction \cup {Idle}]
    /\ shipped \in [Rows -> Shipments \cup {Nothing}]
    /\ runs \in [Rows -> Nat]
    /\ faults \in 0 .. MaxFaults

\* A handler runs at most once per row, however many cards, clicks, modals and
\* restarts there were, and only for a row the operator approved, with the text
\* the row holds, after the typed SEND where the item type asks for it.
ShippedOnlyAsDecided ==
    \A r \in Rows :
        /\ runs[r] <= 1
        /\ runs[r] = 1 =>
              /\ status[r] \in Dispatch
              /\ shipped[r] # Nothing
              /\ shipped[r].what = payload[r]
              /\ shipped[r].user = Operator
              /\ r \in HighConsequence => shipped[r].typed

\* At any moment at most one interaction is about to run a row's handler, and
\* none is once it has run.
OneDispatcher ==
    \A i \in Interactions : At(i, "dispatch") =>
        /\ runs[click[i].row] = 0
        /\ \A j \in Interactions \ {i} :
              At(j, "dispatch") => click[j].row # click[i].row

\* While the process re-attached its views, a pending row that says it was
\* posted under a message can be decided on that very message.
PostedCardsAnswer ==
    bot = "running" /\ ~deaf =>
        \A r \in Rows : status[r] = "pending" /\ message[r] # 0 =>
            message[r] \in views \ greyed

\* A row's card has live buttons somewhere.
Answerable(r) == \E m \in views \ greyed : cards[m] = r

\* What is recorded about a decided row never changes again.
DecisionIsFinal ==
    [][\A r \in Rows : status[r] \in Decided =>
          status'[r] = status[r] /\ payload'[r] = payload[r]]_vars

\* A request is eventually decided or has a card with live buttons, unless the
\* process could not re-attach its views; no fault loses it for good.
RequestsReachTheOperator ==
    \A r \in Rows : status[r] = "pending" ~>
        (status[r] # "pending" \/ Answerable(r) \/ deaf)

-----------------------------------------------------------------------------
(* The promise this implements *)

Ticket(s) == CASE s = "absent"   -> "none"
               [] s = "pending"  -> "waiting"
               [] s = "rejected" -> "refused"
               [] OTHER          -> "authorised"

Gate == INSTANCE ApprovalGate WITH
    ticket <- [r \in Rows |-> Ticket(status[r])],
    draft  <- payload,
    sent   <- [r \in Rows |-> IF runs[r] = 0 THEN Nothing ELSE shipped[r].what]

\* The table, the cog and its restarts implement the abstract gate.
ImplementsGate == Gate!Spec
=============================================================================

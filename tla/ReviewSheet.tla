----------------------------- MODULE ReviewSheet -----------------------------
(***************************************************************************)
(* The Gate 0 review sheet: which candidates of the pool make the daily    *)
(* window, how the cog posts them, and what a click, a decision, a contact *)
(* correction and a restart of the bot do to the rows and to the cards     *)
(* already in the channel.  Every database call and every Discord call of  *)
(* a handler is a step of its own; the operator may have several modals    *)
(* and redraws under way.  Sequences, capacity and the treatment of an     *)
(* approved firm are OutreachPipeline's.                                   *)
(***************************************************************************)
EXTENDS Naturals, Sequences, FiniteSets

CONSTANTS
    Rows,           \* verified discoveries, with proposed scores
    Segment,        \* row -> its segment, a number in the order of the names
    Fit,            \* row -> its place in ORDER BY icp_fit_score, discovered_at
    Hands,          \* clicks, modals and redraws under way at once
    Window,         \* DAILY_WINDOW
    UnscoredSlots, ReserveSlots,    \* UNSCORED_SEGMENT_SLOTS, EXPLORATION_...
    MinSample,      \* MIN_SAMPLE_FOR_RATE
    Scored,         \* segments rated on the six criteria
    PageSize,       \* ROWS_PER_MESSAGE
    Modals,         \* the sets of fields that one correction may change
    MaxEdits,       \* bound: contact corrections
    MaxFaults,      \* bound: failed calls and restarts
    None

\* CONTACT_FIELD_MAP, title, address and profile as one field: the operator can
\* correct them all, promotion copies the first two.  A target has the first name
\* of its greeting besides, derived from the name.
Copied == {"name", "address"}
Fields == Copied \cup {"confidence"}
TargetFields == Fields \cup {"first_name"}

\* The values of a field: the edit it comes from (0: as sourced), or unset.
Values == 0..MaxEdits \cup {None}

ASSUME SheetAssumption ==
    /\ IsFiniteSet(Rows) /\ IsFiniteSet(Hands)
    /\ Segment \in [Rows -> Nat] /\ Fit \in [Rows -> Nat]
    /\ \A r, s \in Rows : Fit[r] = Fit[s] => r = s
    /\ Window \in Nat \ {0} /\ PageSize \in Nat \ {0}
    /\ Modals \subseteq SUBSET Fields
    /\ {UnscoredSlots, ReserveSlots, MinSample, MaxEdits, MaxFaults} \subseteq Nat
    /\ None \notin Nat \cup {"accept", "reject"} \cup [TargetFields -> Values]

VARIABLES
    decision,       \* row -> review_decision
    message,        \* row -> review_message_id (surfaced_at is set with it)
    contact,        \* row -> field -> the edit its value comes from, see Fields
    target,         \* row -> the same of its target, None before promotion
    card,           \* the messages posted: row -> whether it shows as decided
    attached,       \* the messages whose buttons the live bot answers
    poll,           \* the poll: its step, rows pending, rows of the page sent
    hand,           \* hand -> what a click or a modal is doing
    edits, faults,
    crossed,        \* history: rows promoted while an edit had them in hand
    stale           \* history: rows whose last redraw was lost or overtaken

rowVars == <<decision, message, contact, target>>
sheetVars == <<rowVars, card, attached, poll, hand, edits, faults, crossed, stale>>

Decisions == {"accept", "reject"}
Free == [step |-> "free", row |-> None, msg |-> None, read |-> None]
Idle == [step |-> "idle", pending |-> {}, page |-> {}]

\* A message: row -> whether it shows as decided.  What an edit has read of its
\* row, the edit, and the fields it corrects.
Rendered == UNION {[S -> BOOLEAN] : S \in SUBSET Rows}
Reading == [both : BOOLEAN, by : 1..MaxEdits, fields : SUBSET Fields]

SheetInit ==
    /\ decision = [r \in Rows |-> None]
    /\ message = [r \in Rows |-> None]
    /\ contact = [r \in Rows |-> [f \in Fields |-> 0]]
    /\ target = [r \in Rows |-> None]
    /\ card = <<>>
    /\ attached = {}
    /\ poll = [Idle EXCEPT !.step = "start"]
    /\ hand = [h \in Hands |-> Free]
    /\ edits = 0 /\ faults = 0
    /\ crossed = {} /\ stale = {}

Fault == faults < MaxFaults /\ faults' = faults + 1

-----------------------------------------------------------------------------
(* The window.                                                             *)

Least(m, n) == IF m < n THEN m ELSE n

\* The order of Python's tuples.
Before(a, b) == \E i \in DOMAIN a : a[i] < b[i] /\ \A j \in 1..(i - 1) : a[j] = b[j]

\* The first n of S in the order of key.
First(S, n, key) == {r \in S : Cardinality({s \in S : Before(key[s], key[r])}) < n}

Above(S, r) == {s \in S : Fit[s] > Fit[r]}
Peers(S, r) == {s \in S : Segment[s] = Segment[r]}

\* Rows are verified and scored: what is left to review is what is undecided.
Eligible == {r \in Rows : decision[r] = None}

segment_label_counts(C, g) == Cardinality({r \in Rows \ C : Segment[r] = g})

\* Round robin over segments never rated, in the order of their names; the best
\* of each first.
UnscoredPicks(S, slots) ==
    LET U == {r \in S : Segment[r] \notin Scored}
        key == [r \in U |-> <<Cardinality(Above(Peers(U, r), r)), Segment[r]>>]
    IN  First(U, slots, key)

\* Round robin over segments with few labels: fewest labels first, then the one
\* whose best row ranks worst.
ReservePicks(C, S, slots) ==
    LET R == {r \in S : segment_label_counts(C, Segment[r]) < MinSample}
        best(r) == CHOOSE f \in {Fit[s] : s \in Peers(R, r)} :
                      \A s \in Peers(R, r) : Fit[s] <= f
        key == [r \in R |-> <<Cardinality(Above(Peers(R, r), r)),
                              segment_label_counts(C, Segment[r]), best(r), Segment[r]>>]
    IN  First(R, slots, key)

Ranked(S, slots) == {r \in S : Cardinality(Above(S, r)) < slots}

\* Mutant of window_of: the buckets fill whatever the window, and the best of what
\* they hold stays.
MutantTrimmed(C) ==
    LET U == UnscoredPicks(C, UnscoredSlots)
        R == ReservePicks(C, C \ U, ReserveSlots)
    IN  Ranked(U \cup R \cup Ranked(C \ (U \cup R), Window), Window)

\* The window of the candidates C.  Each bucket leaves out what the ones before
\* it took, and counts against the window as it fills.
window_of(C) ==
    LET U == UnscoredPicks(C, Least(UnscoredSlots, Window))
        R == ReservePicks(C, C \ U, Least(ReserveSlots, Window - Cardinality(U)))
    IN  U \cup R \cup Ranked(C \ (U \cup R), Window - Cardinality(U \cup R))

\* The window of what is eligible now, looked up in the windows of all candidates.
Windows == {<<C, window_of(C)>> : C \in SUBSET Rows}
list_for_review == (CHOOSE w \in Windows : w[1] = Eligible)[2]

-----------------------------------------------------------------------------
(* The poll.                                                               *)

\* The messages that still carry a row to decide.
surfaced_pages == {message[r] : r \in {s \in Rows : message[s] # None /\ decision[s] = None}}

\* Before the first poll the views are registered again; if the list cannot be
\* read they are not, and nothing tries again.
reattach_views ==
    /\ poll.step = "start"
    /\ \/ attached' = attached \cup surfaced_pages /\ UNCHANGED faults
       \/ Fault /\ UNCHANGED attached
    /\ poll' = Idle
    /\ UNCHANGED <<rowVars, card, hand, edits, crossed, stale>>

\* The rows of the window not surfaced yet.
FetchWindow ==
    /\ poll.step = "idle"
    /\ LET pending == {r \in list_for_review : message[r] = None}
       IN  /\ pending # {}
           /\ poll' = [step |-> "send", pending |-> pending, page |-> {}]
    /\ UNCHANGED <<rowVars, card, attached, hand, edits, faults, crossed, stale>>

\* A page goes out as it was read; sending it registers its view.
SendPage ==
    /\ poll.step = "send"
    /\ LET page == Ranked(poll.pending, PageSize)
       IN  /\ card' = Append(card, [r \in page |-> FALSE])
           /\ attached' = attached \cup {Len(card) + 1}
           /\ poll' = [step |-> "mark", pending |-> poll.pending \ page, page |-> page]
    /\ UNCHANGED <<rowVars, hand, edits, faults, crossed, stale>>

\* A page Discord refuses ends the poll until the next tick.
SendFails ==
    /\ poll.step = "send" /\ Fault
    /\ poll' = Idle
    /\ UNCHANGED <<rowVars, card, attached, hand, edits, crossed, stale>>

\* mark_surfaced, row by row, leaving alone what is surfaced.
Surface(S) ==
    message' = [r \in Rows |-> IF r \in S /\ message[r] = None THEN Len(card)
                               ELSE message[r]]

\* The page is stamped with its message.
MarkPage ==
    /\ poll.step = "mark"
    /\ Surface(poll.page)
    /\ poll' = IF poll.pending = {} THEN Idle
               ELSE [poll EXCEPT !.step = "send", !.page = {}]
    /\ UNCHANGED <<decision, contact, target, card, attached, hand, edits,
                   faults, crossed, stale>>

\* One of the statements raises: the rows before it are stamped, and the loop,
\* which does not catch it, is over until the bot restarts.
MarkFails ==
    /\ poll.step = "mark" /\ Fault
    /\ \E n \in 0..(Cardinality(poll.page) - 1) : Surface(Ranked(poll.page, n))
    /\ poll' = [Idle EXCEPT !.step = "dead"]
    /\ UNCHANGED <<decision, contact, target, card, attached, hand, edits,
                   crossed, stale>>

\* launchd restarts the bot: views, modals and redraws are gone.
Restart ==
    /\ Fault
    /\ attached' = {}
    /\ poll' = [Idle EXCEPT !.step = "start"]
    /\ hand' = [h \in Hands |-> Free]
    /\ stale' = stale \cup
          {hand[h].row : h \in {i \in Hands : hand[i].step \in {"refresh", "redraw"}}}
    /\ UNCHANGED <<rowVars, card, edits, crossed>>

Poll == reattach_views \/ FetchWindow \/ SendPage \/ SendFails \/ MarkPage \/ MarkFails

-----------------------------------------------------------------------------
(* Clicks, decisions and redraws.                                          *)

Doing(h, step) == hand[h].step = step
End(h) == hand' = [hand EXCEPT ![h] = Free]

\* A live button that is not greyed out, of a row that is still undecided when
\* the click reads it again ("Already decided" otherwise), and its modal
\* submitted: a modal holds the row and the message it was posted under, nothing
\* else, and decide guards the write by reviewed_at, so that two modals of a row
\* are one decision.  Defer writes nothing.
Click(h, m, r, d) ==
    /\ hand[h] = Free
    /\ m \in attached /\ r \in DOMAIN card[m] /\ ~card[m][r]
    /\ decision[r] = None
    /\ decision' = [decision EXCEPT ![r] = d]
    /\ hand' = [hand EXCEPT ![h] = [step |-> "refresh", row |-> r, msg |-> message[r],
                                    read |-> None]]
    /\ UNCHANGED <<message, contact, card, attached, poll, edits, faults, stale>>

Reject(h, m, r) == Click(h, m, r, "reject") /\ UNCHANGED <<target, crossed>>

\* The row is read afresh and the target inserted: how well the address is known
\* stays behind, and the first name is not derived.
promote(r) ==
    target' = [target EXCEPT ![r] = [f \in TargetFields |->
                                        IF f \in Copied THEN contact[r][f] ELSE None]]

\* approve, when nothing blocks it: one transaction accepts and promotes.
approve(h, m, r) ==
    /\ Click(h, m, r, "accept")
    /\ promote(r)
    /\ crossed' = crossed \cup
          {s \in {r} : \E i \in Hands : Doing(i, "edit") /\ hand[i].row = s}

\* Only the messages with a row left to decide.
MutantPendingPage(m) ==
    {r \in Rows : message[r] = m /\ m \in surfaced_pages}

\* Every row of a message, decided or not.
page_rows(m) == {r \in Rows : message[r] = m}

\* refresh_sheet reads the page; a row opened before its page was stamped has no
\* message to redraw.
ReadPage(h) ==
    LET rows == page_rows(hand[h].msg)
    IN  /\ Doing(h, "refresh")
        /\ IF hand[h].msg = None \/ rows = {}
           THEN /\ End(h)
                /\ stale' = IF hand[h].msg = None THEN stale \cup {hand[h].row}
                            ELSE stale
           ELSE /\ hand' = [hand EXCEPT ![h].step = "redraw",
                                        ![h].read = [r \in rows |-> decision[r] # None]]
                /\ UNCHANGED stale
        /\ UNCHANGED <<rowVars, card, attached, poll, edits, faults, crossed>>

\* The whole view is sent again, and registered; a redraw that an older one
\* overtakes is lost.
EditMessage(h) ==
    LET m == hand[h].msg
    IN  /\ Doing(h, "redraw")
        /\ card' = [card EXCEPT ![m] = hand[h].read]
        /\ attached' = attached \cup {m}
        /\ stale' = stale \cup
              {r \in page_rows(m) : r \notin DOMAIN hand[h].read
                                    \/ hand[h].read[r] # (decision[r] # None)}
        /\ End(h)
        /\ UNCHANGED <<rowVars, poll, edits, faults, crossed>>

\* A call of a handler raises.  Before the write nothing changed; after it (the
\* redraw, or intake.decide once approve has committed) the sheet is not redrawn.
HandFails(h) ==
    /\ hand[h].step \in {"edit", "refresh", "redraw"} /\ Fault
    /\ stale' = IF hand[h].step \in {"refresh", "redraw"}
                THEN stale \cup {hand[h].row} ELSE stale
    /\ End(h)
    /\ UNCHANGED <<rowVars, card, attached, poll, edits, crossed>>

-----------------------------------------------------------------------------
(* Contact corrections.                                                    *)

\* A modal with fields corrected: update_contact reads which of the two
\* records the firm has, before its transaction.
ReadRecord(h, r) ==
    /\ hand[h] = Free
    /\ edits < MaxEdits /\ edits' = edits + 1
    /\ \E fields \in Modals :
          hand' = [hand EXCEPT ![h] =
                      [step |-> "edit", row |-> r, msg |-> None,
                       read |-> [both |-> target[r] # None, by |-> edits + 1,
                                 fields |-> fields]]]
    /\ UNCHANGED <<rowVars, card, attached, poll, faults, crossed, stale>>

\* The fields of a record, an edit applied.
Corrected(record, read) ==
    [f \in DOMAIN record |-> IF f \in read.fields THEN read.by ELSE record[f]]

\* Those of a target: the first name is derived again when the name changes.
CorrectedTarget(record, read) ==
    [Corrected(record, read) EXCEPT
        !["first_name"] = IF "name" \in read.fields THEN read.by ELSE @]

\* Mutant of update_contact: the pool row, or else the target.
MutantPoolFirst(h) ==
    LET r == hand[h].row
    IN  /\ Doing(h, "edit")
        /\ contact' = [contact EXCEPT ![r] = Corrected(@, hand[h].read)]
        /\ IF message[r] = None THEN End(h)
           ELSE hand' = [hand EXCEPT ![h].step = "refresh", ![h].msg = message[r]]
        /\ UNCHANGED <<decision, message, target, card, attached, poll, edits, faults,
                       crossed, stale>>

\* The transaction writes the records that were read; then the sheet that carries
\* the firm is redrawn, if one does.
update_contact(h) ==
    LET r == hand[h].row
    IN  /\ Doing(h, "edit")
        /\ contact' = [contact EXCEPT ![r] = Corrected(@, hand[h].read)]
        /\ target' = IF hand[h].read.both
                     THEN [target EXCEPT ![r] = CorrectedTarget(@, hand[h].read)]
                     ELSE target
        /\ IF message[r] = None THEN End(h)
           ELSE hand' = [hand EXCEPT ![h].step = "refresh", ![h].msg = message[r]]
        /\ UNCHANGED <<decision, message, card, attached, poll, edits, faults,
                       crossed, stale>>

Hand(h) ==
    \/ \E m \in 1..Len(card), r \in Rows : Reject(h, m, r) \/ approve(h, m, r)
    \/ ReadPage(h) \/ EditMessage(h) \/ HandFails(h)
    \/ \E r \in Rows : ReadRecord(h, r)
    \/ update_contact(h)

-----------------------------------------------------------------------------

SheetNext ==
    \/ Poll \/ Restart
    \/ \E h \in Hands : Hand(h)

SheetSpec == SheetInit /\ [][SheetNext]_sheetVars

\* The half-hourly loop ticks and a redraw runs to its end; nobody owes the
\* sheet a click, and nobody a restart.
SheetFairSpec ==
    /\ SheetSpec
    /\ WF_sheetVars(reattach_views) /\ WF_sheetVars(FetchWindow \/ SendPage \/ MarkPage)
    /\ \A h \in Hands : WF_sheetVars(ReadPage(h) \/ EditMessage(h))

-----------------------------------------------------------------------------
(* Properties.                                                             *)

SheetTypeOK ==
    /\ decision \in [Rows -> Decisions \cup {None}]
    /\ message \in [Rows -> 1..Len(card) \cup {None}]
    /\ contact \in [Rows -> [Fields -> 0..MaxEdits]]
    /\ target \in [Rows -> [TargetFields -> Values] \cup {None}]
    /\ card \in Seq(Rendered)
    /\ attached \subseteq 1..Len(card)
    /\ poll \in [step : {"start", "idle", "send", "mark", "dead"},
                 pending : SUBSET Rows, page : SUBSET Rows]
    /\ hand \in [Hands -> [step : {"free", "edit", "refresh", "redraw"},
                           row : Rows \cup {None}, msg : 1..Len(card) \cup {None},
                           read : {None} \cup Rendered \cup Reading]]
    /\ edits \in 0..MaxEdits /\ faults \in 0..MaxFaults
    /\ crossed \subseteq Rows /\ stale \subseteq Rows

\* Whatever corrections, approvals and restarts interleave, what promotion copies
\* of a contact is the same in a promoted firm's target and in its pool row: the
\* packet reads the target, so a correction that stopped at the pool would reach
\* nobody (update_contact).  What promotion leaves out is corrected there or unset:
\* a confidence corrected before it is lost to the target, one corrected after it
\* is not, and a greeting is never of another name than the target's.  An approval
\* that commits between an edit's read and its write leaves the target behind.
TargetCarriesCorrections ==
    \A r \in Rows : target[r] # None =>
        /\ target[r]["first_name"] \in {target[r]["name"], None}
        /\ r \notin crossed =>
              /\ \A f \in Copied : target[r][f] = contact[r][f]
              /\ target[r]["confidence"] \in {contact[r]["confidence"], None}

Shown(r) ==
    message[r] # None /\ r \in DOMAIN card[message[r]] /\ card[message[r]][r]

\* The sheet settles on what was decided, the last row of a card as well as the
\* first, but for a decision whose redraw was lost: a fault, a click before the
\* page was stamped, or a slower redraw that had read the page earlier.
SheetShowsDecisions ==
    <>[](\A r \in Rows : decision[r] # None => Shown(r) \/ r \in stale)

Posted(r) == \E m \in 1..Len(card) : r \in DOMAIN card[m]

\* The window is spent: full, all of it already in the channel, and with a row
\* of every segment never rated that still has one.
Spent ==
    LET today == list_for_review
    IN  /\ Cardinality(today) = Window
        /\ \A r \in today : message[r] # None
        /\ \A r \in Eligible : Segment[r] \notin Scored =>
              \E s \in today : Segment[s] = Segment[r]

\* Every candidate gets its card, with no window to wait for but one full of
\* cards the operator has not decided, where ranking keeps no segment out that
\* was never rated: no page Discord refused is forgotten.  A poll that died on a
\* failed stamp waits for a restart.
CandidatesSurface ==
    []<>((\A r \in Rows : Posted(r)) \/ Spent \/ poll.step = "dead")
=============================================================================

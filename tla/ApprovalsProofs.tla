--------------------------- MODULE ApprovalsProofs ----------------------------
(***************************************************************************)
(* Proofs about Approvals for every set of rows, users and concurrent      *)
(* interactions and every number of restarts and failed calls: its types,  *)
(* the exactly-as-decided execution of a row's handler, the finality of a  *)
(* decision, that the recorded card of a pending row answers, and that the *)
(* module implements ApprovalGate.                                         *)
(***************************************************************************)
EXTENDS Approvals, FiniteSetTheorems, TLAPS

-----------------------------------------------------------------------------
(* The inductive invariant *)

\* Every message the poller and the views speak of is the card of a row, and a
\* row's message id is that of one of its own cards.
CardsKnown ==
    /\ \A m \in views : cards[m] \in Rows
    /\ unmarked # 0 => cards[unmarked] \in Rows
    /\ \A r \in Rows : message[r] # 0 => cards[message[r]] = r

\* Each interaction acts for the operator; one that may approve or edit a
\* high-consequence row has the typed SEND; one that is about to run a handler
\* holds the very text of a row that was approved.
ClicksAuthorised ==
    \A i \in Interactions : click[i] # Idle =>
        /\ click[i].user = Operator
        /\ click[i].pc = "decide" /\ click[i].action # "reject" =>
              (click[i].row \in HighConsequence => click[i].typed)
        /\ click[i].pc = "dispatch" =>
              /\ status[click[i].row] \in Dispatch
              /\ click[i].what = payload[click[i].row]
              /\ click[i].row \in HighConsequence => click[i].typed

GateInv == ClicksAuthorised /\ OneDispatcher /\ ShippedOnlyAsDecided
IInv == TypeOK /\ CardsKnown /\ GateInv

-----------------------------------------------------------------------------
(* Data lemmas *)

\* Message ids are positive: 0 stands for NULL.
LEMMA MessageIdsPositive == 0 \notin MessageIds /\ MessageIds \subseteq Nat
BY DEF MessageIds

\* A well-typed interaction moved to another program counter.
LEMMA MovedTo ==
    ASSUME NEW c \in Interaction, NEW pc \in {"modal", "decide", "dispatch"}
    PROVE  LET d == [c EXCEPT !.pc = pc] IN
           /\ d \in Interaction /\ d.pc = pc
           /\ d.user = c.user /\ d.row = c.row /\ d.card = c.card
           /\ d.action = c.action /\ d.typed = c.typed /\ d.what = c.what
BY DEF Interaction

\* ... that also notes whether the typed token was given ...
LEMMA TypedAs ==
    ASSUME NEW c \in Interaction, NEW token \in BOOLEAN
    PROVE  LET d == [c EXCEPT !.pc = "decide", !.typed = token] IN
           /\ d \in Interaction /\ d.pc = "decide" /\ d.typed = token
           /\ d.user = c.user /\ d.row = c.row /\ d.action = c.action
<1> DEFINE moved == [c EXCEPT !.pc = "decide"]
           d == [moved EXCEPT !.typed = token]
<1>1. /\ moved \in Interaction /\ moved.pc = "decide"
      /\ moved.user = c.user /\ moved.row = c.row /\ moved.action = c.action
    BY MovedTo
<1>2. [c EXCEPT !.pc = "decide", !.typed = token] = [moved EXCEPT !.typed = token]
    OBVIOUS
<1> HIDE DEF moved
<1>3. /\ d \in Interaction /\ d.pc = moved.pc /\ d.typed = token
      /\ d.user = moved.user /\ d.row = moved.row /\ d.action = moved.action
    BY <1>1 DEF Interaction
<1> QED BY <1>1, <1>2, <1>3

\* ... or the text its row was approved with.
LEMMA CarriedWith ==
    ASSUME NEW c \in Interaction, NEW text \in Payloads
    PROVE  LET d == [c EXCEPT !.pc = "dispatch", !.what = text] IN
           /\ d \in Interaction /\ d.pc = "dispatch" /\ d.what = text
           /\ d.user = c.user /\ d.row = c.row /\ d.typed = c.typed
<1> DEFINE moved == [c EXCEPT !.pc = "dispatch"]
           d == [moved EXCEPT !.what = text]
<1>1. /\ moved \in Interaction /\ moved.pc = "dispatch"
      /\ moved.user = c.user /\ moved.row = c.row /\ moved.typed = c.typed
    BY MovedTo
<1>2. [c EXCEPT !.pc = "dispatch", !.what = text] = [moved EXCEPT !.what = text]
    OBVIOUS
<1> HIDE DEF moved
<1>3. /\ d \in Interaction /\ d.pc = moved.pc /\ d.what = text
      /\ d.user = moved.user /\ d.row = moved.row /\ d.typed = moved.typed
    BY <1>1 DEF Interaction
<1> QED BY <1>1, <1>2, <1>3

\* The status an operator's action leaves, and the text it is approved with.
LEMMA DecisionFacts ==
    ASSUME TypeOK, NEW c \in Interaction
    PROVE  /\ StatusOf[c.action] \in Decided
           /\ StatusOf[c.action] \in Dispatch <=> c.action # "reject"
           /\ (IF c.action = "edit" THEN "amended" ELSE payload[c.row]) \in Payloads
BY DEF TypeOK, Interaction, StatusOf, Actions, Decided, Dispatch, Payloads

\* A click opens an interaction of the clicking user on the card's row, in a
\* modal or, when none is asked for, right before the decision.
LEMMA Opened ==
    ASSUME TypeOK, CardsKnown, NEW i \in Interactions, NEW u \in Users,
           NEW m \in MessageIds, NEW a \in Actions, Click(i, u, m, a)
    PROVE  \E d \in Interaction :
              /\ click' = [click EXCEPT ![i] = d]
              /\ d.pc \in {"modal", "decide"} /\ d.user = u /\ d.action = a
              /\ d.pc = "decide" /\ a # "reject" => d.row \notin HighConsequence
<1> DEFINE d == [pc |-> IF opens_modal(cards[m], a) THEN "modal" ELSE "decide",
                user |-> u, row |-> cards[m], card |-> m, action |-> a,
                typed |-> FALSE, what |-> "drafted"]
<1>1. click' = [click EXCEPT ![i] = d]
    BY DEF Click
<1>2. cards[m] \in Rows /\ "drafted" \in Payloads
    BY DEF Click, CardsKnown, Payloads
<1>3. d \in Interaction
    BY <1>2 DEF Interaction
<1>4. d.pc = "decide" /\ a # "reject" => d.row \notin HighConsequence
    BY DEF Actions, opens_modal, requires_typed_confirm
<1> QED BY <1>1, <1>3, <1>4

-----------------------------------------------------------------------------
(* Type correctness and the cards *)

\* The strengthened invariant holds before any request is made.
LEMMA InitIInv == Init => IInv
<1> SUFFICES ASSUME Init PROVE IInv
    OBVIOUS
<1>1. TypeOK
    <2>1. /\ cards \in [MessageIds -> Rows \cup {NoRow}]
          /\ click \in [Interactions -> Interaction \cup {Idle}]
          /\ shipped \in [Rows -> Shipments \cup {Nothing}]
        BY DEF Init
    <2>2. /\ faults \in 0 .. MaxFaults
          /\ runs \in [Rows -> Nat]
          /\ message \in [Rows -> {0} \cup MessageIds]
        BY ApprovalsAssumption DEF Init
    <2>3. /\ status \in [Rows -> {"absent", "pending"} \cup Decided]
          /\ payload \in [Rows -> Payloads]
          /\ bot \in {"down", "starting", "running"} /\ deaf \in BOOLEAN
          /\ greyed = {} /\ views = {} /\ poll = {} /\ unmarked = 0
        BY DEF Init, Payloads
    <2> QED BY <2>1, <2>2, <2>3 DEF TypeOK
<1>2. CardsKnown
    BY DEF Init, CardsKnown
<1>3. GateInv
    BY DEF Init, GateInv, ClicksAuthorised, OneDispatcher, ShippedOnlyAsDecided, At
<1> QED BY <1>1, <1>2, <1>3 DEF IInv

\* Every step keeps the types; the message of a row must be a card for it.
LEMMA TypeOKStep == TypeOK /\ CardsKnown /\ [Next]_vars => TypeOK'
<1> SUFFICES ASSUME TypeOK, CardsKnown, [Next]_vars PROVE TypeOK'
    OBVIOUS
<1> USE DEF queueVars, botVars
<1>1. ASSUME NEW r \in Rows, request_approval(r) PROVE TypeOK'
    BY <1>1 DEF request_approval, TypeOK
<1>2. CASE Connect
    BY <1>2 DEF Connect, TypeOK
<1>3. CASE Reattach
    <2>1. views' \subseteq MessageIds
        BY <1>3 DEF Reattach, TypeOK
    <2>2. bot' = "running" /\ deaf' = FALSE
        BY <1>3 DEF Reattach
    <2> QED BY <1>3, <2>1, <2>2 DEF Reattach, TypeOK
<1>4. CASE ReattachFails
    BY <1>4, ApprovalsAssumption DEF ReattachFails, TypeOK
<1>5. CASE PollTick
    BY <1>5 DEF PollTick, TypeOK
<1>6. ASSUME NEW r \in Rows, SendCard(r) PROVE TypeOK'
    BY <1>6 DEF SendCard, TypeOK
<1>7. ASSUME NEW r \in Rows, SendFails(r) PROVE TypeOK'
    BY <1>7, ApprovalsAssumption DEF SendFails, TypeOK
<1>8. CASE mark_posted
    BY <1>8 DEF mark_posted, TypeOK
<1>9. CASE MarkFails
    BY <1>9, ApprovalsAssumption DEF MarkFails, TypeOK
<1>10. CASE Crash
    <2>1. click' \in [Interactions -> Interaction \cup {Idle}]
        BY <1>10 DEF Crash
    <2>2. faults' \in 0 .. MaxFaults
        BY <1>10, ApprovalsAssumption DEF Crash, TypeOK
    <2>3. bot' = "down" /\ views' = {} /\ deaf' = FALSE /\ poll' = {} /\ unmarked' = 0
        BY <1>10 DEF Crash
    <2> QED BY <1>10, <2>1, <2>2, <2>3 DEF Crash, TypeOK
<1>11. ASSUME NEW i \in Interactions, NEW u \in Users, NEW m \in MessageIds,
              NEW a \in Actions, Click(i, u, m, a)
       PROVE  TypeOK'
    <2>1. click' \in [Interactions -> Interaction \cup {Idle}]
        BY <1>11, Opened DEF TypeOK
    <2> QED BY <1>11, <2>1 DEF Click, TypeOK
<1>12. ASSUME NEW i \in Interactions, NEW token \in BOOLEAN, Submit(i, token) PROVE TypeOK'
    <2>1. click[i] \in Interaction
        BY <1>12 DEF Submit, At, TypeOK
    <2>2. [click[i] EXCEPT !.pc = "decide", !.typed = token] \in Interaction
        BY <2>1, TypedAs
    <2>3. click' \in [Interactions -> Interaction \cup {Idle}]
        BY <1>12, <2>2 DEF Submit, TypeOK
    <2> QED BY <1>12, <2>3 DEF Submit, TypeOK
<1>13. ASSUME NEW i \in Interactions, Abandon(i) PROVE TypeOK'
    BY <1>13 DEF Abandon, Close, TypeOK
<1>14. ASSUME NEW i \in Interactions, decide(i) PROVE TypeOK'
    <2> DEFINE c == click[i]
               text == IF c.action = "edit" THEN "amended" ELSE payload[c.row]
    <2>1. c \in Interaction
        BY <1>14 DEF decide, At, TypeOK
    <2>2. StatusOf[c.action] \in Decided /\ text \in Payloads
        BY <2>1, DecisionFacts
    <2>3. c.row \in Rows /\ c.card \in MessageIds
        BY <2>1 DEF Interaction
    <2>4. [c EXCEPT !.pc = "dispatch", !.what = text] \in Interaction
        BY <2>1, <2>2, CarriedWith
    <2>5. click' \in [Interactions -> Interaction \cup {Idle}]
        BY <1>14, <2>4 DEF decide, TypeOK
    <2>6. status' \in [Rows -> {"absent", "pending"} \cup Decided]
        BY <1>14, <2>2 DEF decide, TypeOK
    <2>7. payload' \in [Rows -> Payloads]
        BY <1>14, <2>2 DEF decide, TypeOK
    <2>8. greyed' \subseteq MessageIds
        BY <1>14, <2>3 DEF decide, TypeOK
    <2> QED BY <1>14, <2>5, <2>6, <2>7, <2>8 DEF decide, TypeOK
<1>15. ASSUME NEW i \in Interactions, AlreadyDecided(i) PROVE TypeOK'
    BY <1>15 DEF AlreadyDecided, Close, TypeOK
<1>16. ASSUME NEW i \in Interactions, RunHandler(i) PROVE TypeOK'
    <2>1. click[i] \in Interaction
        BY <1>16 DEF RunHandler, At, TypeOK
    <2>2. [what |-> click[i].what, user |-> click[i].user, typed |-> click[i].typed]
              \in Shipments
        BY <2>1 DEF Interaction, Shipments
    <2>3. shipped' \in [Rows -> Shipments \cup {Nothing}]
        BY <1>16, <2>2 DEF RunHandler, TypeOK
    <2>4. runs' \in [Rows -> Nat]
        BY <1>16, <2>1 DEF RunHandler, TypeOK, Interaction
    <2> QED BY <1>16, <2>3, <2>4 DEF RunHandler, Close, TypeOK
<1>17. ASSUME NEW i \in Interactions, HandlerFails(i) PROVE TypeOK'
    BY <1>17 DEF HandlerFails, Close, TypeOK
<1>18. CASE UNCHANGED vars
    BY <1>18 DEF vars, TypeOK
<1> QED BY <1>1, <1>2, <1>3, <1>4, <1>5, <1>6, <1>7, <1>8, <1>9, <1>10, <1>11,
           <1>12, <1>13, <1>14, <1>15, <1>16, <1>17, <1>18 DEF Next

\* Every step keeps the views, the message in hand and the recorded ids on real cards.
LEMMA CardsKnownStep == TypeOK /\ CardsKnown /\ [Next]_vars => CardsKnown'
<1> SUFFICES ASSUME TypeOK, CardsKnown, [Next]_vars PROVE CardsKnown'
    OBVIOUS
<1> USE DEF queueVars, botVars
<1>1. ASSUME UNCHANGED <<cards, views, unmarked, message>> PROVE CardsKnown'
    BY <1>1 DEF CardsKnown
<1>2. ASSUME NEW r \in Rows, request_approval(r) PROVE CardsKnown'
    BY <1>1, <1>2 DEF request_approval
<1>3. CASE Connect
    BY <1>1, <1>3 DEF Connect
<1>4. CASE Reattach
    BY <1>4 DEF Reattach, CardsKnown
<1>5. CASE ReattachFails
    BY <1>1, <1>5 DEF ReattachFails
<1>6. CASE PollTick
    BY <1>1, <1>6 DEF PollTick
<1>7. ASSUME NEW r \in Rows, SendCard(r) PROVE CardsKnown'
    <2>1. PICK m \in MessageIds :
              /\ cards[m] = NoRow
              /\ cards' = [cards EXCEPT ![m] = r]
              /\ views' = views \cup {m}
              /\ unmarked' = m
        BY <1>7 DEF SendCard
    <2>2. message' = message
        BY <1>7 DEF SendCard
    <2>3. \A q \in Rows : message[q] # 0 => message[q] # m
        BY <2>1, ApprovalsAssumption DEF CardsKnown
    <2>4. cards'[m] = r /\ \A n \in MessageIds \ {m} : cards'[n] = cards[n]
        BY <2>1 DEF TypeOK
    <2>5. views \subseteq MessageIds /\ \A q \in Rows : message[q] \in {0} \cup MessageIds
        BY DEF TypeOK
    <2> QED BY <2>1, <2>2, <2>3, <2>4, <2>5 DEF CardsKnown
<1>8. ASSUME NEW r \in Rows, SendFails(r) PROVE CardsKnown'
    BY <1>1, <1>8 DEF SendFails
<1>9. CASE mark_posted
    <2>1. cards[unmarked] \in Rows
        BY <1>9 DEF mark_posted, CardsKnown
    <2>2. /\ message'[cards[unmarked]] = unmarked
          /\ \A q \in Rows \ {cards[unmarked]} : message'[q] = message[q]
          /\ cards' = cards /\ views' = views /\ unmarked' = 0
        BY <1>9, <2>1 DEF mark_posted, TypeOK
    <2> QED BY <2>1, <2>2 DEF CardsKnown
<1>10. CASE MarkFails
    BY <1>10 DEF MarkFails, CardsKnown
<1>11. CASE Crash
    BY <1>11 DEF Crash, CardsKnown
<1>12. ASSUME NEW i \in Interactions, NEW u \in Users, NEW m \in MessageIds,
              NEW a \in Actions, Click(i, u, m, a)
       PROVE  CardsKnown'
    BY <1>1, <1>12 DEF Click
<1>13. ASSUME NEW i \in Interactions,
              \/ \E token \in BOOLEAN : Submit(i, token)
              \/ Abandon(i) \/ decide(i) \/ AlreadyDecided(i)
              \/ RunHandler(i) \/ HandlerFails(i)
       PROVE  CardsKnown'
    BY <1>1, <1>13 DEF Submit, Abandon, decide, AlreadyDecided, RunHandler, HandlerFails
<1>14. CASE UNCHANGED vars
    BY <1>1, <1>14 DEF vars
<1> QED BY <1>2, <1>3, <1>4, <1>5, <1>6, <1>7, <1>8, <1>9, <1>10, <1>11, <1>12,
           <1>13, <1>14 DEF Next

-----------------------------------------------------------------------------
(* The gate *)

\* A step that touches no decision, no interaction and no handler run keeps the
\* gate.
LEMMA GateKept ==
    ASSUME GateInv, UNCHANGED <<status, payload, click, shipped, runs>>
    PROVE  GateInv'
BY DEF GateInv, ClicksAuthorised, OneDispatcher, ShippedOnlyAsDecided, At

\* So does one that only ends an interaction.
LEMMA GateKeptByClose ==
    ASSUME TypeOK, GateInv, NEW i \in Interactions, Close(i),
           UNCHANGED <<status, payload, shipped, runs>>
    PROVE  GateInv'
<1>1. \A j \in Interactions : click'[j] = Idle \/ click'[j] = click[j]
    BY DEF Close, TypeOK
<1>2. ClicksAuthorised'
    BY <1>1 DEF GateInv, ClicksAuthorised
<1>3. OneDispatcher'
    BY <1>1 DEF GateInv, OneDispatcher, At
<1>4. ShippedOnlyAsDecided'
    BY DEF GateInv, ShippedOnlyAsDecided
<1> QED BY <1>2, <1>3, <1>4 DEF GateInv

\* ... or that opens or moves one short of the dispatch, with the authority it
\* needs there.
LEMMA GateKeptByMove ==
    ASSUME TypeOK, GateInv, NEW i \in Interactions, NEW d \in Interaction,
           click' = [click EXCEPT ![i] = d],
           d.pc # "dispatch", d.user = Operator,
           d.pc = "decide" /\ d.action # "reject" => (d.row \in HighConsequence => d.typed),
           UNCHANGED <<status, payload, shipped, runs>>
    PROVE  GateInv'
<1>1. click'[i] = d /\ \A j \in Interactions \ {i} : click'[j] = click[j]
    BY DEF TypeOK
<1>2. ClicksAuthorised'
    BY <1>1 DEF GateInv, ClicksAuthorised
<1>3. OneDispatcher'
    BY <1>1 DEF GateInv, OneDispatcher, At
<1>4. ShippedOnlyAsDecided'
    BY DEF GateInv, ShippedOnlyAsDecided
<1> QED BY <1>2, <1>3, <1>4 DEF GateInv

\* A request only gives a row nobody has seen yet a status.
LEMMA GateKeptByRequest ==
    ASSUME TypeOK, GateInv, NEW r \in Rows, request_approval(r)
    PROVE  GateInv'
<1>1. /\ status[r] = "absent" /\ \A q \in Rows \ {r} : status'[q] = status[q]
      /\ payload' = payload /\ click' = click /\ shipped' = shipped /\ runs' = runs
    BY DEF request_approval, queueVars, TypeOK
<1>2. ClicksAuthorised'
    <2> SUFFICES ASSUME NEW i \in Interactions, click[i] # Idle, click[i].pc = "dispatch"
                 PROVE  status'[click[i].row] \in Dispatch
        BY <1>1 DEF GateInv, ClicksAuthorised
    <2>1. click[i].row \in Rows /\ status[click[i].row] \in Dispatch
        BY DEF TypeOK, Interaction, GateInv, ClicksAuthorised
    <2> QED BY <1>1, <2>1 DEF Dispatch
<1>3. OneDispatcher'
    BY <1>1 DEF GateInv, OneDispatcher, At
<1>4. ShippedOnlyAsDecided'
    BY <1>1 DEF GateInv, ShippedOnlyAsDecided, Dispatch
<1> QED BY <1>2, <1>3, <1>4 DEF GateInv

\* The guarded UPDATE decides a pending row, which nothing dispatches and no
\* handler has run for, so it alone may dispatch it next.
LEMMA GateKeptByDecide ==
    ASSUME TypeOK, GateInv, NEW i \in Interactions, decide(i)
    PROVE  GateInv'
<1> DEFINE c == click[i]
           new == StatusOf[c.action]
           text == IF c.action = "edit" THEN "amended" ELSE payload[c.row]
           next == [c EXCEPT !.pc = "dispatch", !.what = text]
<1>1. /\ c # Idle /\ c.pc = "decide" /\ c \in Interaction /\ c.row \in Rows
      /\ status[c.row] = "pending"
    BY DEF decide, At, TypeOK, Interaction
<1>2. /\ new \in Dispatch <=> c.action # "reject"
      /\ text \in Payloads
    BY <1>1, DecisionFacts
<1>3. /\ next \in Interaction /\ next.pc = "dispatch" /\ next.what = text
      /\ next.user = c.user /\ next.row = c.row /\ next.typed = c.typed
    BY <1>1, <1>2, CarriedWith
<1>4. /\ status'[c.row] = new /\ payload'[c.row] = text
      /\ \A r \in Rows \ {c.row} : status'[r] = status[r] /\ payload'[r] = payload[r]
      /\ click'[i] = IF new \in Dispatch THEN next ELSE Idle
      /\ \A j \in Interactions \ {i} : click'[j] = click[j]
      /\ shipped' = shipped /\ runs' = runs
    <2>1. /\ status' = [status EXCEPT ![c.row] = new]
          /\ payload' = [payload EXCEPT ![c.row] = text]
          /\ click' = [click EXCEPT ![i] = IF new \in Dispatch THEN next ELSE Idle]
          /\ shipped' = shipped /\ runs' = runs
        BY DEF decide
    <2> HIDE DEF new, text, next
    <2> QED BY <1>1, <2>1 DEF TypeOK
<1>5. runs[c.row] = 0
    BY <1>1 DEF GateInv, ShippedOnlyAsDecided, Dispatch, TypeOK
<1>6. \A j \in Interactions : At(j, "dispatch") => click[j].row # c.row
    BY <1>1 DEF GateInv, ClicksAuthorised, At, Dispatch
<1> HIDE DEF next, new, text
<1>7. ClicksAuthorised'
    <2>1. ASSUME click'[i] # Idle
          PROVE  /\ click'[i].user = Operator /\ click'[i].pc = "dispatch"
                 /\ status'[click'[i].row] \in Dispatch
                 /\ click'[i].what = payload'[click'[i].row]
                 /\ click'[i].row \in HighConsequence => click'[i].typed
        <3>1. new \in Dispatch /\ click'[i] = next
            BY <1>4, <2>1
        <3>2. c.user = Operator /\ (c.row \in HighConsequence => c.typed)
            BY <1>1, <1>2, <3>1 DEF GateInv, ClicksAuthorised
        <3> QED BY <1>3, <1>4, <3>1, <3>2
    <2>2. ASSUME NEW j \in Interactions \ {i}, click'[j] # Idle
          PROVE  /\ click'[j].user = Operator
                 /\ click'[j].pc = "decide" /\ click'[j].action # "reject" =>
                       (click'[j].row \in HighConsequence => click'[j].typed)
                 /\ click'[j].pc = "dispatch" =>
                       /\ status'[click'[j].row] \in Dispatch
                       /\ click'[j].what = payload'[click'[j].row]
                       /\ click'[j].row \in HighConsequence => click'[j].typed
        <3>1. click'[j] = click[j] /\ click[j].row \in Rows
            BY <1>4, <2>2 DEF TypeOK, Interaction
        <3>2. click[j].pc = "dispatch" => click[j].row \in Rows \ {c.row}
            BY <1>6, <2>2, <3>1 DEF At
        <3> QED BY <1>4, <2>2, <3>1, <3>2 DEF GateInv, ClicksAuthorised
    <2>3. \A j \in Interactions : j = i \/ j \in Interactions \ {i}
        OBVIOUS
    <2> QED BY <2>1, <2>2, <2>3 DEF ClicksAuthorised
<1>8. OneDispatcher'
    <2>1. \A j \in Interactions : At(j, "dispatch")' =>
              \/ j = i /\ click'[j].row = c.row
              \/ j # i /\ At(j, "dispatch") /\ click'[j].row = click[j].row
        BY <1>3, <1>4 DEF At
    <2> QED BY <2>1, <1>4, <1>5, <1>6 DEF GateInv, OneDispatcher
<1>9. ShippedOnlyAsDecided'
    BY <1>4, <1>5 DEF GateInv, ShippedOnlyAsDecided
<1> QED BY <1>7, <1>8, <1>9 DEF GateInv

\* The dispatching interaction runs the handler of its own approved row, for the
\* first time.
LEMMA GateKeptByRun ==
    ASSUME TypeOK, GateInv, NEW i \in Interactions, RunHandler(i)
    PROVE  GateInv'
<1> DEFINE c == click[i]
           run == [what |-> c.what, user |-> c.user, typed |-> c.typed]
<1>1. /\ c # Idle /\ c.pc = "dispatch" /\ c \in Interaction /\ c.row \in Rows
      /\ At(i, "dispatch")
    BY DEF RunHandler, At, TypeOK, Interaction
<1>2. /\ shipped'[c.row] = run /\ runs'[c.row] = runs[c.row] + 1
      /\ \A r \in Rows \ {c.row} : shipped'[r] = shipped[r] /\ runs'[r] = runs[r]
      /\ click'[i] = Idle /\ \A j \in Interactions \ {i} : click'[j] = click[j]
      /\ status' = status /\ payload' = payload
    BY <1>1 DEF RunHandler, Close, queueVars, TypeOK
<1>3. run \in Shipments /\ run # Nothing
    BY <1>1, ApprovalsAssumption DEF Interaction, Shipments
<1>4. ClicksAuthorised'
    BY <1>2 DEF GateInv, ClicksAuthorised
<1>5. OneDispatcher'
    <2>1. \A j \in Interactions : At(j, "dispatch")' =>
              j # i /\ At(j, "dispatch") /\ click'[j] = click[j]
        BY <1>2 DEF At
    <2>2. \A j \in Interactions : At(j, "dispatch") => click[j].row \in Rows
        BY DEF At, TypeOK, Interaction
    <2> QED BY <1>1, <1>2, <2>1, <2>2 DEF GateInv, OneDispatcher
<1>6. ShippedOnlyAsDecided'
    <2>1. runs[c.row] = 0
        BY <1>1 DEF GateInv, OneDispatcher
    <2>2. /\ status[c.row] \in Dispatch /\ c.what = payload[c.row] /\ c.user = Operator
          /\ c.row \in HighConsequence => c.typed
        BY <1>1 DEF GateInv, ClicksAuthorised
    <2>3. runs'[c.row] = 1
        BY <1>2, <2>1
    <2>4. /\ shipped'[c.row] # Nothing /\ shipped'[c.row].what = payload[c.row]
          /\ shipped'[c.row].user = Operator
          /\ c.row \in HighConsequence => shipped'[c.row].typed
        BY <1>2, <1>3, <2>2
    <2> QED BY <1>2, <2>2, <2>3, <2>4 DEF GateInv, ShippedOnlyAsDecided
<1> QED BY <1>4, <1>5, <1>6 DEF GateInv

\* Every step keeps the gate: decisions stay authorised and dispatched once.
LEMMA GateInvStep == TypeOK /\ CardsKnown /\ GateInv /\ [Next]_vars => GateInv'
<1> SUFFICES ASSUME TypeOK, CardsKnown, GateInv, [Next]_vars PROVE GateInv'
    OBVIOUS
<1> USE DEF queueVars, botVars
<1>1. ASSUME NEW r \in Rows, request_approval(r) PROVE GateInv'
    BY <1>1, GateKeptByRequest
<1>2. CASE Connect
    BY <1>2, GateKept DEF Connect
<1>3. CASE Reattach
    BY <1>3, GateKept DEF Reattach
<1>4. CASE ReattachFails
    BY <1>4, GateKept DEF ReattachFails
<1>5. CASE PollTick
    BY <1>5, GateKept DEF PollTick
<1>6. ASSUME NEW r \in Rows, SendCard(r) PROVE GateInv'
    BY <1>6, GateKept DEF SendCard
<1>7. ASSUME NEW r \in Rows, SendFails(r) PROVE GateInv'
    BY <1>7, GateKept DEF SendFails
<1>8. CASE mark_posted
    BY <1>8, GateKept DEF mark_posted
<1>9. CASE MarkFails
    BY <1>9, GateKept DEF MarkFails
<1>10. CASE Crash
    <2>1. /\ \A j \in Interactions : click'[j] = Idle
          /\ UNCHANGED <<status, payload, shipped, runs>>
        BY <1>10 DEF Crash
    <2> QED BY <2>1 DEF GateInv, ClicksAuthorised, OneDispatcher, ShippedOnlyAsDecided, At
<1>11. ASSUME NEW i \in Interactions, NEW u \in Users, NEW m \in MessageIds,
              NEW a \in Actions, Click(i, u, m, a)
       PROVE  GateInv'
    <2>1. PICK d \in Interaction :
              /\ click' = [click EXCEPT ![i] = d]
              /\ d.pc \in {"modal", "decide"} /\ d.user = u /\ d.action = a
              /\ d.pc = "decide" /\ a # "reject" => d.row \notin HighConsequence
        BY <1>11, Opened
    <2>2. u = Operator /\ UNCHANGED <<status, payload, shipped, runs>>
        BY <1>11 DEF Click, is_authorized
    <2> QED BY <2>1, <2>2, GateKeptByMove
<1>12. ASSUME NEW i \in Interactions, NEW token \in BOOLEAN, Submit(i, token) PROVE GateInv'
    <2> DEFINE d == [click[i] EXCEPT !.pc = "decide", !.typed = token]
    <2>1. /\ click[i] \in Interaction /\ click[i] # Idle
          /\ click' = [click EXCEPT ![i].pc = "decide", ![i].typed = token]
          /\ token = requires_typed_confirm(click[i].row)
          /\ UNCHANGED <<status, payload, shipped, runs>>
        BY <1>12 DEF Submit, At, TypeOK
    <2>2. click' = [click EXCEPT ![i] = d]
        BY <2>1 DEF TypeOK
    <2>3. /\ d \in Interaction /\ d.pc = "decide" /\ d.typed = token
          /\ d.user = click[i].user /\ d.row = click[i].row
        BY <2>1, TypedAs
    <2>4. d.user = Operator
        BY <2>1, <2>3 DEF GateInv, ClicksAuthorised
    <2>5. d.row \in HighConsequence => d.typed
        BY <2>1, <2>3 DEF requires_typed_confirm
    <2> HIDE DEF d
    <2> QED BY <2>1, <2>2, <2>3, <2>4, <2>5, GateKeptByMove
<1>13. ASSUME NEW i \in Interactions, Abandon(i) PROVE GateInv'
    BY <1>13, GateKeptByClose DEF Abandon
<1>14. ASSUME NEW i \in Interactions, decide(i) PROVE GateInv'
    BY <1>14, GateKeptByDecide
<1>15. ASSUME NEW i \in Interactions, AlreadyDecided(i) PROVE GateInv'
    BY <1>15, GateKeptByClose DEF AlreadyDecided
<1>16. ASSUME NEW i \in Interactions, RunHandler(i) PROVE GateInv'
    BY <1>16, GateKeptByRun
<1>17. ASSUME NEW i \in Interactions, HandlerFails(i) PROVE GateInv'
    BY <1>17, GateKeptByClose DEF HandlerFails
<1>18. CASE UNCHANGED vars
    BY <1>18, GateKept DEF vars
<1> QED BY <1>1, <1>2, <1>3, <1>4, <1>5, <1>6, <1>7, <1>8, <1>9, <1>10, <1>11,
           <1>12, <1>13, <1>14, <1>15, <1>16, <1>17, <1>18 DEF Next

-----------------------------------------------------------------------------
(* Theorems *)

\* The inductive invariant holds of every reachable state.
THEOREM ApprovalsInvariant == Spec => []IInv
<1>1. IInv /\ [Next]_vars => IInv'
    BY TypeOKStep, CardsKnownStep, GateInvStep DEF IInv
<1> QED BY <1>1, InitIInv, PTL DEF Spec

\* The queue, the cards, the process and the interactions keep their types.
THEOREM ApprovalsTyped == Spec => []TypeOK
<1>1. IInv => TypeOK
    BY DEF IInv
<1> QED BY <1>1, ApprovalsInvariant, PTL

\* A row's handler runs at most once, and only as the operator decided, through
\* any number of cards, clicks, modals, restarts and failed calls.
THEOREM HandlerRunsAsDecided == Spec => []ShippedOnlyAsDecided
<1>1. IInv => ShippedOnlyAsDecided
    BY DEF IInv, GateInv
<1> QED BY <1>1, ApprovalsInvariant, PTL

\* No step of the queue or the cog changes what was recorded about a decided row.
THEOREM DecisionsAreFinal == Spec => DecisionIsFinal
<1>1. TypeOK /\ [Next]_vars =>
          [\A r \in Rows : status[r] \in Decided =>
              status'[r] = status[r] /\ payload'[r] = payload[r]]_vars
    <2> SUFFICES ASSUME TypeOK, [Next]_vars, NEW r \in Rows, status[r] \in Decided
                 PROVE  status'[r] = status[r] /\ payload'[r] = payload[r]
        OBVIOUS
    <2> USE DEF queueVars
    <2>1. ASSUME NEW q \in Rows, request_approval(q)
          PROVE  status'[r] = status[r] /\ payload'[r] = payload[r]
        BY <2>1 DEF request_approval, TypeOK, Decided, Dispatch
    <2>2. ASSUME NEW i \in Interactions, decide(i)
          PROVE  status'[r] = status[r] /\ payload'[r] = payload[r]
        BY <2>2 DEF decide, TypeOK, Decided, Dispatch
    <2>3. ASSUME UNCHANGED <<status, payload>>
          PROVE  status'[r] = status[r] /\ payload'[r] = payload[r]
        BY <2>3
    <2>4. CASE Connect \/ Reattach \/ ReattachFails \/ PollTick \/ mark_posted
               \/ MarkFails \/ Crash \/ \E q \in Rows : SendCard(q) \/ SendFails(q)
        BY <2>3, <2>4 DEF Connect, Reattach, ReattachFails, PollTick, mark_posted,
                          MarkFails, Crash, SendCard, SendFails
    <2>5. ASSUME NEW i \in Interactions, NEW u \in Users, NEW m \in MessageIds,
                 NEW a \in Actions, Click(i, u, m, a)
          PROVE  status'[r] = status[r] /\ payload'[r] = payload[r]
        BY <2>3, <2>5 DEF Click
    <2>6. ASSUME NEW i \in Interactions,
                 \/ \E token \in BOOLEAN : Submit(i, token)
                 \/ Abandon(i) \/ AlreadyDecided(i) \/ RunHandler(i) \/ HandlerFails(i)
          PROVE  status'[r] = status[r] /\ payload'[r] = payload[r]
        BY <2>3, <2>6 DEF Submit, Abandon, AlreadyDecided, RunHandler, HandlerFails
    <2>7. CASE UNCHANGED vars
        BY <2>3, <2>7 DEF vars
    <2> QED BY <2>1, <2>2, <2>4, <2>5, <2>6, <2>7 DEF Next
<1> QED BY <1>1, ApprovalsTyped, PTL DEF Spec, DecisionIsFinal

-----------------------------------------------------------------------------
(* Cards and their buttons *)

\* Only rows that were asked for are listed and carded.
CardsAsked ==
    /\ \A m \in MessageIds : cards[m] # NoRow => status[cards[m]] # "absent"
    /\ \A r \in poll : status[r] # "absent"

\* A card is greyed only once its row is decided.
GreyedDecided == \A m \in greyed : cards[m] \in Rows /\ status[cards[m]] \in Decided

\* An interaction acts on the row of the card it was opened from.
ClicksOnCards ==
    \A i \in Interactions : click[i] # Idle => cards[click[i].card] = click[i].row

\* The card being posted has its view; and so have the recorded ones of what is
\* pending, unless the process could not re-attach them.
ViewsLive ==
    /\ unmarked # 0 => unmarked \in views
    /\ bot = "running" /\ ~deaf =>
          \A r \in Rows : status[r] = "pending" /\ message[r] # 0 => message[r] \in views

CardsLive == CardsAsked /\ GreyedDecided /\ ClicksOnCards /\ ViewsLive

\* What an action may do to the statuses and the cards: a row is asked for once
\* and decided once, a card stays the card of its row.
Onward ==
    /\ \A r \in Rows : status'[r] # status[r] =>
          \/ status[r] = "absent" /\ status'[r] = "pending"
          \/ status[r] = "pending" /\ status'[r] \in Decided
    /\ \A m \in MessageIds : cards[m] # NoRow => cards'[m] = cards[m]

\* The steps of an interaction other than its decision.
Aside(i) ==
    \/ \E token \in BOOLEAN : Submit(i, token)
    \/ Abandon(i) \/ AlreadyDecided(i) \/ RunHandler(i) \/ HandlerFails(i)

\* Every step goes that way.
LEMMA OnwardStep == TypeOK /\ [Next]_vars => Onward
<1> SUFFICES ASSUME TypeOK, [Next]_vars PROVE Onward
    OBVIOUS
<1> USE DEF queueVars
<1>0. ASSUME UNCHANGED <<status, cards>> PROVE Onward
    BY <1>0 DEF Onward
<1>1. ASSUME NEW r \in Rows, request_approval(r) PROVE Onward
    BY <1>1 DEF request_approval, Onward, TypeOK
<1>2. ASSUME NEW i \in Interactions, decide(i) PROVE Onward
    <2>1. click[i] \in Interaction
        BY <1>2 DEF decide, At, TypeOK
    <2>2. StatusOf[click[i].action] \in Decided /\ click[i].row \in Rows
        BY <2>1, DecisionFacts DEF Interaction
    <2> QED BY <1>2, <2>2 DEF decide, Onward, TypeOK
<1>3. ASSUME NEW r \in Rows, SendCard(r) PROVE Onward
    BY <1>3 DEF SendCard, Onward, TypeOK
<1>4. CASE Connect \/ Reattach \/ ReattachFails \/ PollTick \/ mark_posted
           \/ MarkFails \/ Crash \/ \E q \in Rows : SendFails(q)
    BY <1>0, <1>4 DEF Connect, Reattach, ReattachFails, PollTick, mark_posted,
                      MarkFails, Crash, SendFails
<1>5. ASSUME NEW i \in Interactions, NEW u \in Users, NEW m \in MessageIds,
             NEW a \in Actions, Click(i, u, m, a)
      PROVE  Onward
    BY <1>0, <1>5 DEF Click
<1>6. ASSUME NEW i \in Interactions, Aside(i) PROVE Onward
    BY <1>0, <1>6 DEF Aside, Submit, Abandon, AlreadyDecided, RunHandler, HandlerFails
<1>7. CASE UNCHANGED vars
    BY <1>0, <1>7 DEF vars
<1> QED BY <1>1, <1>2, <1>3, <1>4, <1>5, <1>6, <1>7 DEF Next, Aside

\* What is listed and carded stays asked for.
LEMMA CardsAskedStep ==
    TypeOK /\ CardsAsked /\ [Next]_vars => CardsAsked'
<1> SUFFICES ASSUME TypeOK, CardsAsked, [Next]_vars PROVE CardsAsked'
    OBVIOUS
<1> USE DEF queueVars, botVars
<1>k. Onward
    BY OnwardStep
<1>a. \A r \in Rows : status[r] # "absent" => status'[r] # "absent"
    BY <1>k DEF Onward, Decided, Dispatch
<1>0. ASSUME cards' = cards, poll' \subseteq poll PROVE CardsAsked'
    BY <1>0, <1>a DEF CardsAsked, TypeOK
<1>1. ASSUME NEW r \in Rows, request_approval(r) PROVE CardsAsked'
    BY <1>0, <1>1 DEF request_approval
<1>2. ASSUME NEW i \in Interactions, decide(i) PROVE CardsAsked'
    BY <1>0, <1>2 DEF decide
<1>3. ASSUME NEW r \in Rows, SendCard(r) PROVE CardsAsked'
    <2>1. PICK m \in MessageIds : cards' = [cards EXCEPT ![m] = r]
        BY <1>3 DEF SendCard
    <2>2. r \in poll /\ poll' = poll /\ status' = status
        BY <1>3 DEF SendCard
    <2> QED BY <2>1, <2>2 DEF CardsAsked, TypeOK
<1>4. CASE PollTick
    BY <1>4 DEF PollTick, CardsAsked
<1>5. CASE Connect \/ Reattach \/ ReattachFails \/ mark_posted
           \/ MarkFails \/ Crash \/ \E q \in Rows : SendFails(q)
    BY <1>0, <1>5 DEF Connect, Reattach, ReattachFails, mark_posted, MarkFails, Crash,
                      SendFails
<1>6. ASSUME NEW i \in Interactions, NEW u \in Users, NEW m \in MessageIds,
             NEW a \in Actions, Click(i, u, m, a)
      PROVE  CardsAsked'
    BY <1>0, <1>6 DEF Click
<1>7. ASSUME NEW i \in Interactions, Aside(i) PROVE CardsAsked'
    BY <1>0, <1>7 DEF Aside, Submit, Abandon, AlreadyDecided, RunHandler, HandlerFails
<1>8. CASE UNCHANGED vars
    BY <1>0, <1>8 DEF vars
<1> QED BY <1>1, <1>2, <1>3, <1>4, <1>5, <1>6, <1>7, <1>8 DEF Next, Aside

\* An interaction keeps its card, and what it greys is the card of the row it
\* decided.
LEMMA GreyedStep ==
    TypeOK /\ ClicksOnCards /\ GreyedDecided /\ [Next]_vars =>
        ClicksOnCards' /\ GreyedDecided'
<1> SUFFICES ASSUME TypeOK, ClicksOnCards, GreyedDecided, [Next]_vars
             PROVE  ClicksOnCards' /\ GreyedDecided'
    OBVIOUS
<1> USE ApprovalsAssumption DEF queueVars, botVars
<1>k. Onward
    BY OnwardStep
<1>a. \A r \in Rows : status[r] \in Decided => status'[r] \in Decided
    BY <1>k DEF Onward, Decided, Dispatch
<1>g. ASSUME greyed' = greyed PROVE GreyedDecided'
    BY <1>g, <1>a, <1>k DEF GreyedDecided, Onward, TypeOK
<1>c. ASSUME \A i \in Interactions : click'[i] # Idle =>
                 click[i] # Idle /\ click'[i].card = click[i].card /\ click'[i].row = click[i].row
      PROVE  ClicksOnCards'
    <2> SUFFICES ASSUME NEW i \in Interactions, click'[i] # Idle
                 PROVE  cards'[click'[i].card] = click'[i].row
        BY DEF ClicksOnCards
    <2>1. click[i] \in Interaction /\ cards[click[i].card] = click[i].row
        BY <1>c DEF TypeOK, ClicksOnCards
    <2>2. click[i].row \in Rows /\ click[i].card \in MessageIds
        BY <2>1 DEF Interaction
    <2> QED BY <1>c, <1>k, <2>1, <2>2 DEF Onward
<1>0. ASSUME greyed' = greyed, click' = click PROVE ClicksOnCards' /\ GreyedDecided'
    BY <1>0, <1>g, <1>c
<1>1. ASSUME NEW r \in Rows, request_approval(r) \/ SendCard(r) \/ SendFails(r)
      PROVE  ClicksOnCards' /\ GreyedDecided'
    BY <1>0, <1>1 DEF request_approval, SendCard, SendFails
<1>2. CASE Connect \/ Reattach \/ ReattachFails \/ PollTick \/ mark_posted \/ MarkFails
    BY <1>0, <1>2 DEF Connect, Reattach, ReattachFails, PollTick, mark_posted, MarkFails
<1>3. CASE Crash
    BY <1>3, <1>g, <1>c DEF Crash
<1>4. ASSUME NEW i \in Interactions, NEW u \in Users, NEW m \in MessageIds,
             NEW a \in Actions, Click(i, u, m, a)
      PROVE  ClicksOnCards' /\ GreyedDecided'
    <2> DEFINE d == [pc |-> IF opens_modal(cards[m], a) THEN "modal" ELSE "decide",
                     user |-> u, row |-> cards[m], card |-> m, action |-> a,
                     typed |-> FALSE, what |-> "drafted"]
    <2>1. click' = [click EXCEPT ![i] = d] /\ cards' = cards /\ greyed' = greyed
        BY <1>4 DEF Click
    <2>2. d.card = m /\ d.row = cards[m]
        OBVIOUS
    <2> HIDE DEF d
    <2> QED BY <2>1, <2>2, <1>g DEF ClicksOnCards, TypeOK
<1>5. ASSUME NEW i \in Interactions, NEW token \in BOOLEAN, Submit(i, token)
      PROVE  ClicksOnCards' /\ GreyedDecided'
    <2> DEFINE d == [click[i] EXCEPT !.pc = "decide", !.typed = token]
    <2>1. click[i] # Idle /\ click[i] \in Interaction /\ click' = [click EXCEPT ![i] = d]
        BY <1>5 DEF Submit, At, TypeOK
    <2>2. d.card = click[i].card /\ d.row = click[i].row
        BY <2>1 DEF Interaction
    <2> HIDE DEF d
    <2> QED BY <1>5, <2>1, <2>2, <1>g, <1>c DEF Submit, TypeOK
<1>6. ASSUME NEW i \in Interactions,
             Abandon(i) \/ AlreadyDecided(i) \/ RunHandler(i) \/ HandlerFails(i)
      PROVE  ClicksOnCards' /\ GreyedDecided'
    BY <1>6, <1>g, <1>c DEF Abandon, AlreadyDecided, RunHandler, HandlerFails, Close, TypeOK
<1>7. ASSUME NEW i \in Interactions, decide(i) PROVE ClicksOnCards' /\ GreyedDecided'
    <2> DEFINE c == click[i]
               text == IF c.action = "edit" THEN "amended" ELSE payload[c.row]
               d == [c EXCEPT !.pc = "dispatch", !.what = text]
    <2>1. c # Idle /\ c \in Interaction
        BY <1>7 DEF decide, At, TypeOK
    <2>2. /\ c.row \in Rows /\ c.card \in MessageIds /\ cards[c.card] = c.row
          /\ StatusOf[c.action] \in Decided
        BY <2>1, DecisionFacts DEF Interaction, ClicksOnCards
    <2>3. d.card = c.card /\ d.row = c.row
        BY <2>1 DEF Interaction
    <2>4. \E e \in {d, Idle} : click' = [click EXCEPT ![i] = e]
        BY <1>7 DEF decide
    <2>5. status'[c.row] \in Decided /\ cards' = cards
        BY <1>7, <2>2 DEF decide, TypeOK
    <2>6. greyed' \subseteq greyed \cup {c.card}
        BY <1>7 DEF decide
    <2> HIDE DEF c, d
    <2>7. ClicksOnCards'
        BY <2>1, <2>3, <2>4, <1>c DEF TypeOK, c
    <2>8. GreyedDecided'
        BY <2>2, <2>5, <2>6, <1>a DEF GreyedDecided
    <2> QED BY <2>7, <2>8
<1>8. CASE UNCHANGED vars
    BY <1>0, <1>8 DEF vars
<1> QED BY <1>1, <1>2, <1>3, <1>4, <1>5, <1>6, <1>7, <1>8 DEF Next

\* The views keep up with what is posted, marked and re-attached.
LEMMA ViewsLiveStep ==
    TypeOK /\ CardsKnown /\ CardsAsked /\ ViewsLive /\ [Next]_vars => ViewsLive'
<1> SUFFICES ASSUME TypeOK, CardsKnown, CardsAsked, ViewsLive, [Next]_vars
             PROVE  ViewsLive'
    OBVIOUS
<1> USE DEF queueVars, botVars
<1>k. Onward
    BY OnwardStep
<1>a. \A r \in Rows : message[r] # 0 => status[r] # "absent"
    BY ApprovalsAssumption DEF CardsKnown, CardsAsked, TypeOK
<1>p. \A r \in Rows : message[r] # 0 /\ status'[r] = "pending" => status[r] = "pending"
    BY <1>a, <1>k DEF Onward
<1>0. ASSUME unmarked' \in {0, unmarked}, bot' = bot, deaf' = deaf, message' = message,
             views \subseteq views'
      PROVE  ViewsLive'
    BY <1>0, <1>p DEF ViewsLive
<1>1. ASSUME NEW r \in Rows, request_approval(r) \/ SendFails(r) PROVE ViewsLive'
    BY <1>0, <1>1 DEF request_approval, SendFails
<1>2. ASSUME NEW r \in Rows, SendCard(r) PROVE ViewsLive'
    BY <1>2 DEF SendCard, ViewsLive
<1>3. CASE Connect
    BY <1>3 DEF Connect, ViewsLive
<1>4. CASE Reattach
    BY <1>4 DEF Reattach, ViewsLive
<1>5. CASE ReattachFails
    BY <1>5 DEF ReattachFails, ViewsLive
<1>6. CASE PollTick \/ MarkFails
    BY <1>0, <1>6 DEF PollTick, MarkFails
<1>7. CASE mark_posted
    <2>1. unmarked \in views /\ unmarked' = 0 /\ bot' = bot /\ deaf' = deaf
          /\ views' = views /\ status' = status
          /\ message' = [message EXCEPT ![cards[unmarked]] = unmarked]
        BY <1>7 DEF mark_posted, ViewsLive
    <2>2. \A r \in Rows : message'[r] \in {message[r], unmarked}
        BY <2>1 DEF TypeOK
    <2> QED BY <2>1, <2>2 DEF ViewsLive
<1>8. CASE Crash
    BY <1>8 DEF Crash, ViewsLive
<1>9. ASSUME NEW i \in Interactions, NEW u \in Users, NEW m \in MessageIds,
             NEW a \in Actions, Click(i, u, m, a)
      PROVE  ViewsLive'
    BY <1>0, <1>9 DEF Click
<1>10. ASSUME NEW i \in Interactions, Aside(i) \/ decide(i) PROVE ViewsLive'
    BY <1>0, <1>10 DEF Aside, Submit, Abandon, AlreadyDecided, RunHandler, HandlerFails, decide
<1>11. CASE UNCHANGED vars
    BY <1>0, <1>11 DEF vars
<1> QED BY <1>1, <1>2, <1>3, <1>4, <1>5, <1>6, <1>7, <1>8, <1>9, <1>10, <1>11 DEF Next, Aside

\* A pending row whose message id is recorded can be decided on that message,
\* across any number of restarts, duplicate cards and failed calls, unless the
\* process could not re-attach its views.
THEOREM PostedCardsStayLive == Spec => []PostedCardsAnswer
<1>1. Init => CardsLive
    BY DEF Init, CardsLive, CardsAsked, GreyedDecided, ClicksOnCards, ViewsLive
<1>2. IInv /\ CardsLive /\ [Next]_vars => CardsLive'
    BY CardsAskedStep, GreyedStep, ViewsLiveStep DEF IInv, CardsLive
<1>3. IInv /\ CardsLive => PostedCardsAnswer
    <2> SUFFICES ASSUME IInv, CardsLive, bot = "running", ~deaf, NEW r \in Rows,
                        status[r] = "pending", message[r] # 0
                 PROVE  message[r] \in views /\ message[r] \notin greyed
        BY DEF PostedCardsAnswer
    <2>1. message[r] \in views
        BY DEF CardsLive, ViewsLive
    <2>2. cards[message[r]] = r
        BY DEF IInv, CardsKnown
    <2>3. message[r] \notin greyed
        BY <2>2 DEF CardsLive, GreyedDecided, Decided, Dispatch
    <2> QED BY <2>1, <2>3
<1> QED BY <1>1, <1>2, <1>3, ApprovalsInvariant, PTL DEF Spec

-----------------------------------------------------------------------------
(* Refinement of ApprovalGate *)

\* What the gate sees of each status.
LEMMA TicketFacts ==
    /\ Ticket("absent") = "none" /\ Ticket("pending") = "waiting"
    /\ Ticket("rejected") = "refused"
    /\ \A s \in Dispatch : Ticket(s) = "authorised"
BY DEF Ticket, Dispatch

\* A step that leaves the decisions, the texts and the handler runs alone is a
\* stutter of the gate.
LEMMA GateStutters ==
    ASSUME UNCHANGED <<status, payload, shipped, runs>>
    PROVE  UNCHANGED Gate!gateVars
BY DEF Gate!gateVars

\* A request asks.
LEMMA RequestAsks ==
    ASSUME TypeOK, NEW r \in Rows, request_approval(r)
    PROVE  Gate!Ask(r)
<1>1. /\ status[r] = "absent" /\ status' = [status EXCEPT ![r] = "pending"]
      /\ payload' = payload /\ shipped' = shipped /\ runs' = runs
    BY DEF request_approval
<1>2. \A q \in Rows : Ticket(status'[q]) = IF q = r THEN "waiting" ELSE Ticket(status[q])
    BY <1>1, TicketFacts DEF TypeOK
<1> QED BY <1>1, <1>2, TicketFacts DEF Gate!Ask

\* A decision refuses or authorises a waiting request.
LEMMA DecideDecides ==
    ASSUME TypeOK, NEW i \in Interactions, decide(i)
    PROVE  \E r \in Rows : Gate!Refuse(r) \/ Gate!Authorise(r)
<1> DEFINE c == click[i]
           new == StatusOf[c.action]
           text == IF c.action = "edit" THEN "amended" ELSE payload[c.row]
<1>1. /\ c \in Interaction /\ c.row \in Rows /\ status[c.row] = "pending"
    BY DEF decide, At, TypeOK, Interaction
<1>2. /\ new \in Decided /\ text \in Payloads
      /\ new \notin Dispatch => new = "rejected" /\ text = payload[c.row]
    BY <1>1, DecisionFacts DEF Decided, Interaction, StatusOf, Actions, Dispatch
<1>3. /\ status' = [status EXCEPT ![c.row] = new]
      /\ payload' = [payload EXCEPT ![c.row] = text]
      /\ shipped' = shipped /\ runs' = runs
    BY DEF decide
<1> HIDE DEF new, text
<1>4. \A q \in Rows : Ticket(status'[q]) = IF q = c.row THEN Ticket(new) ELSE Ticket(status[q])
    BY <1>1, <1>3 DEF TypeOK
<1>5. CASE new \in Dispatch
    <2>1. Ticket(new) = "authorised"
        BY <1>5, TicketFacts
    <2> QED BY <1>1, <1>2, <1>3, <1>4, <2>1, TicketFacts DEF Gate!Authorise
<1>6. CASE new \notin Dispatch
    <2>1. Ticket(new) = "refused" /\ payload' = payload
        BY <1>1, <1>2, <1>3, <1>6, TicketFacts DEF TypeOK
    <2> QED BY <1>1, <1>3, <1>4, <2>1, TicketFacts DEF Gate!Refuse
<1> QED BY <1>5, <1>6

\* A handler run carries out an authorised request that was not carried out yet.
LEMMA RunCarriesOut ==
    ASSUME TypeOK, GateInv, NEW i \in Interactions, RunHandler(i)
    PROVE  \E r \in Rows : Gate!CarryOut(r)
<1> DEFINE c == click[i]
<1>1. /\ c # Idle /\ c.pc = "dispatch" /\ c \in Interaction /\ c.row \in Rows
      /\ At(i, "dispatch")
    BY DEF RunHandler, At, TypeOK, Interaction
<1>2. runs[c.row] = 0 /\ status[c.row] \in Dispatch /\ c.what = payload[c.row]
    BY <1>1 DEF GateInv, OneDispatcher, ClicksAuthorised
<1>3. /\ shipped'[c.row].what = c.what /\ runs'[c.row] = 1
      /\ \A r \in Rows \ {c.row} : shipped'[r] = shipped[r] /\ runs'[r] = runs[r]
      /\ status' = status /\ payload' = payload
    BY <1>1, <1>2 DEF RunHandler, queueVars, TypeOK
<1>4. Ticket(status[c.row]) = "authorised"
    BY <1>2, TicketFacts
<1>5. \A r \in Rows :
          (IF runs'[r] = 0 THEN Nothing ELSE shipped'[r].what)
              = IF r = c.row THEN payload[r]
                ELSE IF runs[r] = 0 THEN Nothing ELSE shipped[r].what
    BY <1>2, <1>3
<1> DEFINE sent == [r \in Rows |-> IF runs[r] = 0 THEN Nothing ELSE shipped[r].what]
<1>6. sent[c.row] = Nothing /\ sent' = [sent EXCEPT ![c.row] = payload[c.row]]
    BY <1>1, <1>2, <1>5
<1>7. [r \in Rows |-> Ticket(status[r])][c.row] = "authorised"
    BY <1>1, <1>4
<1> QED BY <1>1, <1>3, <1>6, <1>7 DEF Gate!CarryOut

\* The table, the cog and its restarts implement the gate: every step of theirs is
\* a step of the gate or leaves it alone.
THEOREM ApprovalsImplementGate == Spec => ImplementsGate
<1>1. Init => Gate!Init
    BY TicketFacts DEF Init, Gate!Init, Payloads
<1>2. IInv /\ [Next]_vars => [Gate!Next]_(Gate!gateVars)
    <2> SUFFICES ASSUME IInv, [Next]_vars PROVE Gate!Next \/ UNCHANGED Gate!gateVars
        OBVIOUS
    <2> USE DEF queueVars
    <2>0. TypeOK /\ CardsKnown /\ GateInv
        BY DEF IInv
    <2>1. ASSUME NEW r \in Rows, request_approval(r) PROVE Gate!Next
        BY <2>0, <2>1, RequestAsks DEF Gate!Next
    <2>2. ASSUME NEW i \in Interactions, decide(i) PROVE Gate!Next
        BY <2>0, <2>2, DecideDecides DEF Gate!Next
    <2>3. ASSUME NEW i \in Interactions, RunHandler(i) PROVE Gate!Next
        BY <2>0, <2>3, RunCarriesOut DEF Gate!Next
    <2>4. CASE Connect \/ Reattach \/ ReattachFails \/ PollTick \/ mark_posted
               \/ MarkFails \/ Crash \/ \E q \in Rows : SendCard(q) \/ SendFails(q)
        BY <2>4, GateStutters DEF Connect, Reattach, ReattachFails, PollTick, mark_posted,
                                  MarkFails, Crash, SendCard, SendFails
    <2>5. ASSUME NEW i \in Interactions, NEW u \in Users, NEW m \in MessageIds,
                 NEW a \in Actions, Click(i, u, m, a)
          PROVE  UNCHANGED Gate!gateVars
        BY <2>5, GateStutters DEF Click
    <2>6. ASSUME NEW i \in Interactions,
                 \/ \E token \in BOOLEAN : Submit(i, token)
                 \/ Abandon(i) \/ AlreadyDecided(i) \/ HandlerFails(i)
          PROVE  UNCHANGED Gate!gateVars
        BY <2>6, GateStutters DEF Submit, Abandon, AlreadyDecided, HandlerFails
    <2>7. CASE UNCHANGED vars
        BY <2>7, GateStutters DEF vars
    <2> QED BY <2>1, <2>2, <2>3, <2>4, <2>5, <2>6, <2>7 DEF Next
<1> QED BY <1>1, <1>2, ApprovalsInvariant, PTL DEF Spec, ImplementsGate, Gate!Spec
=============================================================================

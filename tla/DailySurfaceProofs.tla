------------------------- MODULE DailySurfaceProofs -------------------------
(***************************************************************************)
(* What the daily surface and the drain keep for any arc, any windows and  *)
(* any number of restarts: a touch is carded once unless something failed, *)
(* the recorded cards answer but for those a Defer greyed, what is sent or *)
(* skipped is left alone, and only a finished arc frees its slot.          *)
(***************************************************************************)
EXTENDS DailySurface, FiniteSetTheorems, TLAPS

Messages == [touch : Touches, enabled : BOOLEAN]

\* Cards are posted in the order of their ids.
CardsInOrder == \E n \in 0 .. Cardinality(Touches) + MaxFaults : Posted = 1 .. n

\* A touch's recorded card was posted for it.
CardsKnown ==
    \A t \in Touches : card[t] # 0 => card[t] \in Posted /\ cards[card[t]].touch = t

\* The card the poll has in hand is bound unless it was greyed meanwhile, and for a
\* touch still on its list.
BotInHand ==
    /\ bot.pc \notin {"posting", "marking"} => bot.todo = {}
    /\ bot.pc = "marking" =>
          /\ bot.card \in Posted /\ cards[bot.card].touch \in bot.todo
          /\ cards[bot.card].enabled => bot.card \in bound

\* A Defer in progress is about a posted card and stays in the touch's window; it
\* greys the card when the snooze is written.
ClickInHand ==
    click.pc # "idle" =>
        /\ click.card \in Posted
        /\ click.until # 0 /\ click.until <= Closes[cards[click.card].touch]
        /\ click.pc = "disable" => snooze[cards[click.card].touch] # 0

\* A card is greyed for a Defer of its touch.
GreyedDeferred ==
    \A c \in Posted : ~cards[c].enabled => snooze[cards[c].touch] # 0

\* While nothing failed, a posted card is the recorded one of its touch or the one
\* in hand, and a touch still on the list has no other.
OneCardEach ==
    faults = 0 => \A c \in Posted :
        LET inHand == bot.pc = "marking" /\ bot.card = c IN
        /\ inHand \/ card[cards[c].touch] = c
        /\ cards[c].touch \in bot.todo => inHand

\* Before Gate 1 accepts there is no touch, so nothing to card.
CandidateIsNew ==
    status = "candidate" =>
        bot.todo = {} /\ \A t \in Touches : state[t] = "none" /\ card[t] = 0

\* What the drain's SELECT saw of the touches, the days and the reason still holds.
DrainInHand ==
    drain = "write" =>
        /\ reason /\ \A t \in Touches : Resolved(t)
        /\ \A t \in Touches : day > Closes[t] + Grace

SurfaceInv ==
    CardsInOrder /\ CardsKnown /\ BotInHand /\ ClickInHand /\ GreyedDeferred /\ OneCardEach
ArcInv == CandidateIsNew /\ DrainInHand
IInv == TypeOK /\ SurfaceInv /\ ArcInv

-----------------------------------------------------------------------------
(* Data lemmas *)

\* Card ids are positive numbers up to a bound; 0 stands for NULL.
LEMMA CardIds ==
    /\ Cardinality(Touches) + MaxFaults \in Nat
    /\ Cards \subseteq Nat /\ 0 \notin Cards
<1>1. Cardinality(Touches) \in Nat BY SurfaceAssumption, FS_CardinalityType
<1> QED BY <1>1, SurfaceAssumption DEF Cards

\* A posted card is a message for a touch.
LEMMA PostedFacts ==
    ASSUME TypeOK, NEW c \in Posted
    PROVE  c \in Cards /\ cards[c] \in Messages /\ cards[c].touch \in Touches
BY DEF TypeOK, Posted, Messages

\* A new card takes the next id.
LEMMA NewCard ==
    ASSUME TypeOK, CardsInOrder, Posted # Cards, NEW c, c = Cardinality(Posted) + 1,
           NEW m \in Messages, cards' = [cards EXCEPT ![c] = m]
    PROVE  /\ c \in Cards /\ c \notin Posted
           /\ cards' \in [Cards -> {NoCard} \cup Messages]
           /\ cards'[c] = m /\ \A d \in Cards \ {c} : cards'[d] = cards[d]
           /\ Posted' = Posted \cup {c} /\ CardsInOrder'
<1> DEFINE N == Cardinality(Touches) + MaxFaults
<1>1. N \in Nat BY CardIds
<1>2. Cards = 1 .. N BY DEF Cards
<1> HIDE DEF N
<1>3. PICK n \in 0 .. N : Posted = 1 .. n BY DEF CardsInOrder, N
<1>4. n \in Nat /\ n < N BY <1>1, <1>2, <1>3
<1>5. Cardinality(Posted) = n
    <2>1. Cardinality(1 .. n) = IF 1 > n THEN 0 ELSE n - 1 + 1 BY <1>4, FS_Interval
    <2> QED BY <1>3, <1>4, <2>1
<1>6. c = n + 1 /\ c \in Cards /\ c \notin Posted BY <1>1, <1>2, <1>3, <1>4, <1>5
<1>7. cards \in [Cards -> {NoCard} \cup Messages] BY DEF TypeOK, Messages
<1>8. cards'[c] = m /\ \A d \in Cards \ {c} : cards'[d] = cards[d] BY <1>6, <1>7
<1>9. cards' \in [Cards -> {NoCard} \cup Messages] BY <1>6, <1>7
<1>10. m # NoCard BY SurfaceAssumption DEF Messages
<1>11. Posted' = Posted \cup {c} BY <1>6, <1>8, <1>10 DEF Posted
<1>12. Posted' = 1 .. (n + 1) BY <1>3, <1>4, <1>6, <1>11
<1>13. n + 1 \in 0 .. N BY <1>1, <1>4
<1>14. CardsInOrder' BY <1>12, <1>13 DEF CardsInOrder, N
<1> QED BY <1>6, <1>8, <1>9, <1>11, <1>14

\* Greying a card out changes neither which cards are there nor what they are for.
LEMMA GreyedCard ==
    ASSUME TypeOK, NEW k \in Posted,
           cards' = [cards EXCEPT ![k].enabled = FALSE]
    PROVE  /\ cards' \in [Cards -> {NoCard} \cup Messages]
           /\ Posted' = Posted
           /\ \A c \in Posted : cards'[c].touch = cards[c].touch
          /\ ~cards'[k].enabled /\ \A c \in Posted \ {k} : cards'[c] = cards[c]
<1> DEFINE m == [cards[k] EXCEPT !.enabled = FALSE]
<1>1. m \in Messages /\ m.touch = cards[k].touch /\ ~m.enabled BY PostedFacts DEF Messages
<1>2. k \in Cards BY PostedFacts
<1>3. cards' = [cards EXCEPT ![k] = m] OBVIOUS
<1> HIDE DEF m
<1>4. cards \in [Cards -> {NoCard} \cup Messages] BY DEF TypeOK, Messages
<1>5. cards' \in [Cards -> {NoCard} \cup Messages] BY <1>1, <1>2, <1>3, <1>4
<1>6. cards'[k] = m /\ \A d \in Cards \ {k} : cards'[d] = cards[d] BY <1>2, <1>3, <1>4
<1>7. m # NoCard BY <1>1, SurfaceAssumption DEF Messages
<1>8. Posted' = Posted BY <1>2, <1>6, <1>7 DEF Posted
<1>9. \A c \in Posted : cards'[c].touch = cards[c].touch
    BY <1>1, <1>6, PostedFacts
<1>10. ~cards'[k].enabled /\ \A c \in Posted \ {k} : cards'[c] = cards[c]
    BY <1>1, <1>6, PostedFacts
<1> QED BY <1>5, <1>8, <1>9, <1>10

\* Going on to the next card keeps the poll's shape.
LEMMA NextCardFacts ==
    ASSUME TypeOK, NEW t
    PROVE  /\ NextCard(t) \in [pc : {"ready", "posting"}, todo : SUBSET Touches, card : {0}]
           /\ NextCard(t).todo = bot.todo \ {t}
           /\ NextCard(t).pc = "ready" => NextCard(t).todo = {}
BY DEF TypeOK, NextCard

-----------------------------------------------------------------------------
(* Types *)

\* The strengthened invariant holds before Gate 1 accepts.
LEMMA IInvInit == Init => IInv
<1> SUFFICES ASSUME Init PROVE IInv OBVIOUS
<1>1. Posted = {} BY DEF Init, Posted
<1>2. CardsInOrder
    <2>1. Posted = 1 .. 0 BY <1>1
    <2> QED BY <2>1, CardIds DEF CardsInOrder
<1>3. TypeOK
    <2>1. 0 \in 0 .. MaxDay /\ 0 \in 0 .. MaxDay + 1 /\ 0 \in 0 .. MaxFaults
        BY SurfaceAssumption
    <2>2. \A t \in Touches : snooze[t] <= Closes[t]
        BY SurfaceAssumption DEF Init
    <2> QED BY <1>1, <2>1, <2>2 DEF Init, TypeOK, Down, NoClick
<1>4. ArcInv BY DEF Init, ArcInv, CandidateIsNew, DrainInHand, Down
<1>5. CardsKnown /\ BotInHand /\ ClickInHand /\ GreyedDeferred /\ OneCardEach
    BY <1>1 DEF Init, CardsKnown, BotInHand, ClickInHand, GreyedDeferred, OneCardEach, Down,
       NoClick
<1> QED BY <1>2, <1>3, <1>4, <1>5 DEF IInv, SurfaceInv

\* Faults are counted up to their bound.
LEMMA FaultCount ==
    ASSUME TypeOK, faults < MaxFaults, faults' = faults + 1
    PROVE  faults' \in 0 .. MaxFaults /\ faults' # 0
BY SurfaceAssumption DEF TypeOK

\* Every step keeps the types.
LEMMA TypeStep == IInv /\ [Next]_vars => TypeOK'
<1> SUFFICES ASSUME IInv, [Next]_vars PROVE TypeOK' OBVIOUS
<1> USE DEF IInv, SurfaceInv, ArcInv
<1>0. TypeOK OBVIOUS
<1>1. CASE Tick
    <2>1. day' \in 0 .. MaxDay BY <1>1, SurfaceAssumption DEF Tick, TypeOK
    <2> QED BY <1>1, <2>1 DEF Tick, rowVars, TypeOK, Posted
<1>2. CASE materialize_sequence
    BY <1>2 DEF materialize_sequence, TypeOK, Posted
<1>3. CASE Engage BY <1>3 DEF Engage, rowVars, TypeOK, Posted
<1>4. CASE AnswerReason BY <1>4 DEF AnswerReason, rowVars, TypeOK, Posted
<1>5. ASSUME NEW t \in Touches, Resolve(t) PROVE TypeOK'
    BY <1>5 DEF Resolve, TypeOK, Posted
<1>6. ASSUME NEW t \in Touches, Reply(t) PROVE TypeOK'
    BY <1>6 DEF Reply, rowVars, TypeOK, Posted
<1>7. ASSUME NEW t \in Touches, post_card(t) PROVE TypeOK'
    <2> DEFINE c == Cardinality(Posted) + 1
               m == [touch |-> t, enabled |-> TRUE]
    <2>1. /\ cards' = [cards EXCEPT ![c] = m] /\ bound' = bound \cup {c}
          /\ bot' = [bot EXCEPT !.pc = "marking", !.card = c] /\ Posted # Cards
          /\ UNCHANGED <<day, status, reason, rowVars, replied, click, drain, faults>>
        BY <1>7 DEF post_card
    <2>2. m \in Messages BY DEF Messages
    <2> HIDE DEF c, m
    <2>3. /\ c \in Cards /\ cards' \in [Cards -> {NoCard} \cup Messages]
          /\ Posted' = Posted \cup {c}
        BY <2>1, <2>2, NewCard DEF c
    <2>4. bot' \in [pc : {"down", "starting", "ready", "posting", "marking"},
                    todo : SUBSET Touches, card : Cards \cup {0}]
        BY <2>1, <2>3 DEF TypeOK
    <2> QED BY <2>1, <2>3, <2>4 DEF rowVars, TypeOK, Messages
<1>8. CASE Start BY <1>8 DEF Start, Down, rowVars, TypeOK, Posted
<1>9. CASE reattach_views
    <2>1. bound' \subseteq Posted BY <1>9 DEF reattach_views, list_carded_live, CardsKnown, TypeOK
    <2> QED BY <1>9, <2>1 DEF reattach_views, Ready, rowVars, TypeOK, Posted
<1>10. CASE ReattachFails
    <2>1. faults' \in 0 .. MaxFaults BY <1>10, FaultCount DEF ReattachFails
    <2> QED BY <1>10, <2>1 DEF ReattachFails, Ready, rowVars, TypeOK, Posted
<1>11. CASE poll
    BY <1>11 DEF poll, list_due_uncarded, rowVars, TypeOK, Posted
<1>12. CASE mark_carded
    <2> DEFINE t == cards[bot.card].touch
    <2>1. bot.card \in Posted /\ t \in Touches
        BY <1>12, PostedFacts DEF mark_carded, BotInHand, TypeOK
    <2>2. card' = [card EXCEPT ![t] = bot.card] /\ bot' = NextCard(t)
        BY <1>12 DEF mark_carded
    <2>3. bot.card \in Cards BY <2>1, PostedFacts
    <2> HIDE DEF t
    <2>4. card' \in [Touches -> Cards \cup {0}] BY <2>1, <2>2, <2>3 DEF TypeOK
    <2>5. bot' \in [pc : {"ready", "posting"}, todo : SUBSET Touches, card : {0}]
        BY <2>2, NextCardFacts
    <2> QED BY <1>12, <2>4, <2>5 DEF mark_carded, TypeOK, Posted
<1>13. CASE PostFails
    <2>1. faults' \in 0 .. MaxFaults BY <1>13, FaultCount DEF PostFails
    <2>2. bot' \in [pc : {"ready", "posting"}, todo : SUBSET Touches, card : {0}]
        BY <1>13, NextCardFacts DEF PostFails
    <2> QED BY <1>13, <2>1, <2>2 DEF PostFails, rowVars, TypeOK, Posted
<1>14. CASE Crash
    <2>1. faults' \in 0 .. MaxFaults BY <1>14, FaultCount DEF Crash
    <2>2. 0 \in 0 .. MaxDay + 1 BY SurfaceAssumption
    <2> QED BY <1>14, <2>1, <2>2 DEF Crash, Down, NoClick, rowVars, TypeOK, Posted
<1>15. ASSUME NEW c \in Cards, mark_working(c) PROVE TypeOK'
    BY <1>15 DEF mark_working, TypeOK, Posted
<1>16. ASSUME NEW c \in Cards, StartDefer(c) PROVE TypeOK'
    <2>1. day + 1 \in 0 .. MaxDay + 1 BY SurfaceAssumption DEF TypeOK
    <2> QED BY <1>16, <2>1 DEF StartDefer, rowVars, TypeOK, Posted
<1>17. CASE defer
    <2> DEFINE t == cards[click.card].touch
    <2>1. click.until <= Closes[t] /\ click.until \in 0 .. MaxDay + 1 /\ t \in Touches
        BY <1>17, PostedFacts DEF defer, ClickInHand, TypeOK
    <2>2. \/ snooze' = [snooze EXCEPT ![t] = click.until] /\ click' = [click EXCEPT !.pc = "disable"]
          \/ snooze' = snooze /\ click' = NoClick
        BY <1>17 DEF defer
    <2> HIDE DEF t
    <2>3. snooze' \in [Touches -> 0 .. MaxDay + 1] BY <2>1, <2>2 DEF TypeOK
    <2>4. \A u \in Touches : snooze'[u] <= Closes[u] BY <2>1, <2>2 DEF TypeOK
    <2>5. 0 \in 0 .. MaxDay + 1 BY SurfaceAssumption
    <2>6. click' \in [pc : {"idle", "write", "disable"}, card : Cards \cup {0},
                      until : 0 .. MaxDay + 1]
        BY <2>2, <2>5 DEF TypeOK, NoClick
    <2> QED BY <1>17, <2>3, <2>4, <2>6 DEF defer, TypeOK, Posted
<1>18. CASE disable_card
    <2>1. /\ cards' \in [Cards -> {NoCard} \cup Messages] /\ Posted' = Posted
          /\ faults' \in 0 .. MaxFaults /\ bound' \subseteq bound
        <3>1. CASE /\ cards' = [cards EXCEPT ![click.card].enabled = FALSE]
                   /\ bound' = bound \ {click.card} /\ UNCHANGED faults
            <4>1. click.card \in Posted BY <1>18 DEF disable_card, ClickInHand
            <4> QED BY <3>1, <4>1, GreyedCard DEF TypeOK
        <3>2. CASE faults < MaxFaults /\ faults' = faults + 1 /\ UNCHANGED <<cards, bound>>
            BY <3>2, FaultCount DEF TypeOK, Messages, Posted
        <3> QED BY <1>18, <3>1, <3>2 DEF disable_card
    <2>2. 0 \in 0 .. MaxDay + 1 BY SurfaceAssumption
    <2> QED BY <1>18, <2>1, <2>2 DEF disable_card, NoClick, rowVars, TypeOK, Messages
<1>19. CASE run_drain BY <1>19 DEF run_drain, rowVars, TypeOK, Posted
<1>20. CASE DrainWrite BY <1>20 DEF DrainWrite, rowVars, TypeOK, Posted
<1>21. CASE DrainFails
    <2>1. faults' \in 0 .. MaxFaults BY <1>21, FaultCount DEF DrainFails
    <2> QED BY <1>21, <2>1 DEF DrainFails, rowVars, TypeOK, Posted
<1>22. CASE UNCHANGED vars BY <1>22 DEF vars, rowVars, TypeOK, Posted
<1> QED
    BY <1>1, <1>2, <1>3, <1>4, <1>5, <1>6, <1>7, <1>8, <1>9, <1>10, <1>11, <1>12, <1>13,
       <1>14, <1>15, <1>16, <1>17, <1>18, <1>19, <1>20, <1>21, <1>22 DEF Next

-----------------------------------------------------------------------------
(* Cards, views and clicks *)

\* A step that touches none of them keeps what they know of each other.
LEMMA QuietStep ==
    ASSUME SurfaceInv, UNCHANGED <<card, cards, bound, bot, click, snooze>>,
           faults' = 0 => faults = 0
    PROVE  SurfaceInv'
<1>1. Posted' = Posted BY DEF Posted
<1> QED
    BY <1>1 DEF SurfaceInv, CardsInOrder, CardsKnown, BotInHand, ClickInHand, GreyedDeferred,
       OneCardEach

\* Posting a card: it gets a fresh id, and its touch has no other while all is well.
LEMMA PostStep ==
    ASSUME IInv, NEW t \in Touches, post_card(t) PROVE SurfaceInv'
<1> USE DEF IInv, SurfaceInv
<1> DEFINE c == Cardinality(Posted) + 1
           m == [touch |-> t, enabled |-> TRUE]
<1>1. /\ cards' = [cards EXCEPT ![c] = m] /\ bound' = bound \cup {c}
      /\ bot' = [bot EXCEPT !.pc = "marking", !.card = c] /\ Posted # Cards
      /\ bot.pc = "posting" /\ t \in bot.todo
      /\ UNCHANGED <<card, click, snooze, faults>>
    BY DEF post_card, rowVars
<1>2. m \in Messages /\ m.touch = t /\ m.enabled BY DEF Messages
<1> HIDE DEF c, m
<1>3. /\ c \in Cards /\ c \notin Posted
      /\ cards'[c] = m /\ \A d \in Cards \ {c} : cards'[d] = cards[d]
      /\ Posted' = Posted \cup {c} /\ CardsInOrder'
    BY <1>1, <1>2, NewCard DEF c
<1>4. /\ bot'.pc = "marking" /\ bot'.card = c /\ bot'.todo = bot.todo
    BY <1>1 DEF TypeOK
<1>5. \A d \in Posted : cards'[d] = cards[d] BY <1>3, PostedFacts
<1>6. CardsKnown' BY <1>1, <1>3, <1>5 DEF CardsKnown
<1>7. BotInHand' BY <1>1, <1>2, <1>3, <1>4 DEF BotInHand
<1>8. ClickInHand' /\ GreyedDeferred'
    BY <1>1, <1>2, <1>3, <1>5 DEF ClickInHand, GreyedDeferred
<1>9. OneCardEach'
    <2> SUFFICES ASSUME faults' = 0, NEW d \in Posted'
                 PROVE  /\ (bot'.pc = "marking" /\ bot'.card = d) \/ card'[cards'[d].touch] = d
                        /\ cards'[d].touch \in bot'.todo => bot'.pc = "marking" /\ bot'.card = d
        BY DEF OneCardEach
    <2>1. CASE d = c BY <2>1, <1>4
    <2>2. CASE d # c
        <3>1. d \in Posted /\ faults = 0 BY <2>2, <1>1, <1>3
        <3> QED BY <3>1, <1>1, <1>4, <1>5 DEF OneCardEach
    <2> QED BY <2>1, <2>2
<1> QED BY <1>3, <1>6, <1>7, <1>8, <1>9

\* Recording it: from now on it is the touch's card.
LEMMA MarkStep ==
    ASSUME IInv, mark_carded PROVE SurfaceInv'
<1> USE DEF IInv, SurfaceInv
<1> DEFINE k == bot.card
           t == cards[k].touch
<1>1. /\ bot.pc = "marking" /\ card' = [card EXCEPT ![t] = k] /\ bot' = NextCard(t)
      /\ UNCHANGED <<cards, bound, click, snooze, faults>>
    BY DEF mark_carded
<1>2. k \in Posted /\ t \in Touches /\ t \in bot.todo
    BY <1>1, PostedFacts DEF BotInHand, TypeOK
<1> HIDE DEF k, t
<1>3. Posted' = Posted /\ CardsInOrder' BY <1>1 DEF Posted, CardsInOrder
<1>4. card'[t] = k /\ \A u \in Touches \ {t} : card'[u] = card[u]
    BY <1>1, <1>2 DEF TypeOK
<1>5. /\ bot'.pc \in {"ready", "posting"} /\ bot'.todo = bot.todo \ {t}
      /\ bot'.pc = "ready" => bot'.todo = {}
    BY <1>1, NextCardFacts
<1>6. CardsKnown' BY <1>1, <1>2, <1>3, <1>4 DEF CardsKnown, t
<1>7. BotInHand' BY <1>5 DEF BotInHand
<1>8. ClickInHand' /\ GreyedDeferred' BY <1>1, <1>3 DEF ClickInHand, GreyedDeferred
<1>9. OneCardEach'
    <2> SUFFICES ASSUME faults = 0, NEW d \in Posted
                 PROVE  card'[cards[d].touch] = d /\ cards[d].touch \notin bot'.todo
        BY <1>1, <1>3 DEF OneCardEach
    <2>1. /\ bot.card = d \/ card[cards[d].touch] = d
          /\ cards[d].touch \in bot.todo => bot.card = d
          /\ cards[d].touch \in Touches
        BY PostedFacts DEF OneCardEach
    <2>2. CASE d = k BY <2>2, <1>4, <1>5 DEF t
    <2>3. CASE d # k
        <3>1. cards[d].touch \notin bot.todo /\ card[cards[d].touch] = d
            BY <2>1, <2>3 DEF k
        <3> QED BY <3>1, <2>1, <1>2, <1>4, <1>5
    <2> QED BY <2>2, <2>3
<1> QED BY <1>3, <1>6, <1>7, <1>8, <1>9

\* Every other step of the bot and of a click.
LEMMA SurfaceStep == IInv /\ [Next]_vars => SurfaceInv'
<1> SUFFICES ASSUME IInv, [Next]_vars PROVE SurfaceInv' OBVIOUS
<1> USE DEF IInv
<1>0. faults \in Nat BY SurfaceAssumption DEF TypeOK
<1>1. ASSUME NEW t \in Touches, Resolve(t) PROVE SurfaceInv'
    BY <1>1, QuietStep DEF Resolve
<1>2. ASSUME NEW t \in Touches, Reply(t) PROVE SurfaceInv'
    BY <1>2, QuietStep DEF Reply, rowVars
<1>3. ASSUME NEW c \in Cards, mark_working(c) PROVE SurfaceInv'
    BY <1>3, QuietStep DEF mark_working
<1>4. CASE Tick \/ materialize_sequence \/ Engage \/ AnswerReason
    BY <1>4, QuietStep DEF Tick, materialize_sequence, Engage, AnswerReason, rowVars
<1>5. CASE run_drain \/ DrainWrite \/ DrainFails
    BY <1>5, <1>0, QuietStep DEF run_drain, DrainWrite, DrainFails, rowVars
<1>6. CASE UNCHANGED vars BY <1>6, QuietStep DEF vars, rowVars
<1>7. ASSUME NEW t \in Touches, post_card(t) PROVE SurfaceInv' BY <1>7, PostStep
<1>8. CASE mark_carded BY <1>8, MarkStep
<1> USE DEF SurfaceInv
<1>9. CASE Start
    <2>1. /\ bot.pc = "down" /\ bot'.pc = "starting" /\ bot'.todo = {}
          /\ UNCHANGED <<card, cards, bound, click, snooze, faults>>
        BY <1>9 DEF Start, Down, rowVars
    <2>2. Posted' = Posted BY <2>1 DEF Posted
    <2> QED BY <2>1, <2>2
            DEF CardsInOrder, CardsKnown, BotInHand, ClickInHand, GreyedDeferred, OneCardEach
<1>10. CASE reattach_views
    <2>1. /\ bot.pc = "starting" /\ bot'.pc = "ready" /\ bot'.todo = {}
          /\ UNCHANGED <<card, cards, click, snooze, faults>>
        BY <1>10 DEF reattach_views, Ready, rowVars
    <2>2. Posted' = Posted BY <2>1 DEF Posted
    <2> QED BY <2>1, <2>2
            DEF CardsInOrder, CardsKnown, BotInHand, ClickInHand, GreyedDeferred, OneCardEach
<1>11. CASE ReattachFails
    <2>1. /\ bot'.pc = "ready" /\ bot'.todo = {} /\ faults' # 0
          /\ UNCHANGED <<card, cards, click, snooze>>
        BY <1>0, <1>11 DEF ReattachFails, Ready, rowVars
    <2>2. Posted' = Posted BY <2>1 DEF Posted
    <2> QED BY <2>1, <2>2
            DEF CardsInOrder, CardsKnown, BotInHand, ClickInHand, GreyedDeferred, OneCardEach
<1>12. CASE poll
    <2>1. /\ bot.pc = "ready" /\ bot'.pc = "posting"
          /\ \A t \in bot'.todo : t \in Touches /\ card[t] = 0
          /\ UNCHANGED <<card, cards, bound, click, snooze, faults>>
        BY <1>12 DEF poll, list_due_uncarded, rowVars
    <2>2. Posted' = Posted BY <2>1 DEF Posted
    <2>3. OneCardEach'
        <3> SUFFICES ASSUME faults = 0, NEW d \in Posted
                     PROVE  card[cards[d].touch] = d /\ cards[d].touch \notin bot'.todo
            BY <2>1, <2>2 DEF OneCardEach
        <3>1. card[cards[d].touch] = d BY <2>1 DEF OneCardEach
        <3>2. d # 0 BY PostedFacts, CardIds
        <3> QED BY <2>1, <3>1, <3>2
    <2> QED BY <2>1, <2>2, <2>3 DEF CardsInOrder, CardsKnown, BotInHand, ClickInHand,
               GreyedDeferred
<1>13. CASE PostFails
    <2>1. /\ bot'.pc \in {"ready", "posting"} /\ (bot'.pc = "ready" => bot'.todo = {})
          /\ faults' # 0 /\ UNCHANGED <<card, cards, click, snooze>>
        BY <1>0, <1>13, NextCardFacts DEF PostFails, rowVars
    <2>2. Posted' = Posted BY <2>1 DEF Posted
    <2> QED BY <2>1, <2>2
            DEF CardsInOrder, CardsKnown, BotInHand, ClickInHand, GreyedDeferred, OneCardEach
<1>14. CASE Crash
    <2>1. /\ bot'.pc = "down" /\ bot'.todo = {} /\ click'.pc = "idle"
          /\ faults' # 0 /\ UNCHANGED <<card, cards, snooze>>
        BY <1>0, <1>14 DEF Crash, Down, NoClick, rowVars
    <2>2. Posted' = Posted BY <2>1 DEF Posted
    <2> QED BY <2>1, <2>2
            DEF CardsInOrder, CardsKnown, BotInHand, ClickInHand, GreyedDeferred, OneCardEach
<1>15. ASSUME NEW c \in Cards, StartDefer(c) PROVE SurfaceInv'
    <2>1. /\ c \in Posted /\ day + 1 <= Closes[cards[c].touch] /\ day + 1 # 0
          /\ click'.card = c /\ click'.until = day + 1 /\ click'.pc = "write"
          /\ UNCHANGED <<card, cards, bound, bot, snooze, faults>>
        BY <1>15 DEF StartDefer, Pressable, TypeOK, rowVars
    <2>2. Posted' = Posted BY <2>1 DEF Posted
    <2> QED BY <2>1, <2>2
            DEF CardsInOrder, CardsKnown, BotInHand, ClickInHand, GreyedDeferred, OneCardEach
<1>16. CASE defer
    <2> DEFINE t == cards[click.card].touch
    <2>1. /\ click.card \in Posted /\ click.until # 0 /\ click.until <= Closes[t]
          /\ UNCHANGED <<card, cards, bound, bot, faults>>
        BY <1>16 DEF defer, ClickInHand
    <2>2. t \in Touches BY <2>1, PostedFacts
    <2>3. \/ /\ snooze' = [snooze EXCEPT ![t] = click.until]
             /\ click' = [click EXCEPT !.pc = "disable"]
          \/ snooze' = snooze /\ click' = NoClick
        BY <1>16 DEF defer
    <2> HIDE DEF t
    <2>4. \A u \in Touches : snooze[u] # 0 => snooze'[u] # 0
        BY <2>1, <2>2, <2>3 DEF TypeOK
    <2>5. Posted' = Posted BY <2>1 DEF Posted
    <2>6. ClickInHand'
        <3>1. CASE click' = [click EXCEPT !.pc = "disable"] /\ snooze' = [snooze EXCEPT ![t] = click.until]
            <4>1. click'.card = click.card /\ click'.until = click.until BY <3>1 DEF TypeOK
            <4>2. snooze'[t] # 0 BY <2>1, <2>2, <3>1 DEF TypeOK
            <4> QED BY <2>1, <2>5, <4>1, <4>2 DEF ClickInHand, t
        <3>2. CASE click' = NoClick BY <3>2 DEF ClickInHand, NoClick
        <3> QED BY <2>3, <3>1, <3>2
    <2>7. GreyedDeferred' BY <2>1, <2>4, <2>5, PostedFacts DEF GreyedDeferred
    <2> QED BY <2>1, <2>5, <2>6, <2>7 DEF CardsInOrder, CardsKnown, BotInHand, OneCardEach
<1>17. CASE disable_card
    <2>1. /\ click'.pc = "idle" /\ UNCHANGED <<card, bot, snooze>>
          /\ (faults' = 0 => faults = 0) /\ click.pc = "disable"
        BY <1>0, <1>17 DEF disable_card, NoClick, rowVars
    <2>2. click.card \in Posted /\ snooze[cards[click.card].touch] # 0
        BY <2>1 DEF ClickInHand
    <2>3. CASE /\ cards' = [cards EXCEPT ![click.card].enabled = FALSE]
               /\ bound' = bound \ {click.card}
        <3> DEFINE k == click.card
        <3>1. /\ Posted' = Posted /\ ~cards'[k].enabled
              /\ \A c \in Posted : cards'[c].touch = cards[c].touch
              /\ \A c \in Posted \ {k} : cards'[c] = cards[c]
            BY <2>2, <2>3, GreyedCard
        <3> HIDE DEF k
        <3>2. CardsInOrder' /\ CardsKnown' /\ ClickInHand' /\ OneCardEach'
            BY <2>1, <3>1 DEF CardsInOrder, CardsKnown, ClickInHand, OneCardEach
        <3>3. BotInHand' BY <2>1, <2>3, <3>1 DEF BotInHand, k
        <3>4. GreyedDeferred' BY <2>1, <2>2, <3>1 DEF GreyedDeferred, k
        <3> QED BY <3>2, <3>3, <3>4
    <2>4. CASE UNCHANGED <<cards, bound>>
        <3>1. Posted' = Posted BY <2>4 DEF Posted
        <3> QED BY <2>1, <2>4, <3>1
                DEF CardsInOrder, CardsKnown, BotInHand, ClickInHand, GreyedDeferred, OneCardEach
    <2> QED BY <1>17, <2>3, <2>4 DEF disable_card
<1> QED
    BY <1>1, <1>2, <1>3, <1>4, <1>5, <1>6, <1>7, <1>8, <1>9, <1>10, <1>11, <1>12, <1>13,
       <1>14, <1>15, <1>16, <1>17 DEF Next

-----------------------------------------------------------------------------
(* The arc and the drain *)

\* A step that leaves the rows of the touches alone.
LEMMA BotLeavesRows ==
    ASSUME [Next]_vars
    PROVE  \/ UNCHANGED <<state, working, snooze>>
           \/ materialize_sequence
           \/ \E t \in Touches : Resolve(t)
           \/ \E c \in Cards : mark_working(c)
           \/ defer
BY DEF Next, vars, rowVars, Tick, Engage, AnswerReason, Reply, post_card, Start,
       reattach_views, ReattachFails, poll, mark_carded, PostFails, Crash, StartDefer,
       disable_card, run_drain, DrainWrite, DrainFails

\* Nothing is resolved before Gate 1 accepts, and what is resolved stays as it is.
LEMMA ResolvedStep ==
    ASSUME IInv, [Next]_vars, NEW t \in Touches, Resolved(t)
    PROVE  snooze'[t] = snooze[t] /\ working'[t] = working[t] /\ state'[t] = state[t]
<1> USE DEF IInv, ArcInv
<1>1. ~Live(t) /\ state[t] # "none" BY DEF Resolved, Live
<1>2. CASE materialize_sequence
    BY <1>1, <1>2 DEF materialize_sequence, CandidateIsNew
<1>3. ASSUME NEW u \in Touches, Resolve(u)
      PROVE snooze'[t] = snooze[t] /\ working'[t] = working[t] /\ state'[t] = state[t]
    BY <1>1, <1>3 DEF Resolve, Live, TypeOK
<1>4. ASSUME NEW c \in Cards, mark_working(c)
      PROVE snooze'[t] = snooze[t] /\ working'[t] = working[t] /\ state'[t] = state[t]
    <2>1. Live(cards[c].touch) /\ UNCHANGED <<state, snooze>>
          /\ working' = [working EXCEPT ![cards[c].touch] = TRUE]
        BY <1>4 DEF mark_working
    <2>2. cards[c].touch # t BY <1>1, <2>1
    <2> QED BY <2>1, <2>2 DEF TypeOK
<1>5. CASE defer
    <2> DEFINE u == cards[click.card].touch
    <2>1. /\ UNCHANGED <<state, working>>
          /\ \/ Live(u) /\ snooze' = [snooze EXCEPT ![u] = click.until]
             \/ snooze' = snooze
        BY <1>5 DEF defer
    <2> HIDE DEF u
    <2> QED BY <1>1, <2>1 DEF TypeOK
<1> QED BY <1>2, <1>3, <1>4, <1>5, BotLeavesRows

\* The target starts as a candidate and never becomes one again.
LEMMA StatusStep ==
    ASSUME [Next]_vars, status' = "candidate"
    PROVE  status = "candidate"
BY DEF Next, vars, rowVars, Tick, materialize_sequence, Engage, AnswerReason, Resolve, Reply,
       post_card, Start, reattach_views, ReattachFails, poll, mark_carded, PostFails, Crash,
       mark_working, StartDefer, defer, disable_card, run_drain, DrainWrite, DrainFails

\* A candidate has no touch to card, post or resolve.
LEMMA CandidateStep == IInv /\ [Next]_vars => CandidateIsNew'
<1> SUFFICES ASSUME IInv, [Next]_vars, status' = "candidate"
             PROVE  bot'.todo = {} /\ \A t \in Touches : state'[t] = "none" /\ card'[t] = 0
    BY DEF CandidateIsNew
<1>1. status = "candidate" BY StatusStep
<1>2. /\ bot.todo = {} /\ \A t \in Touches : state[t] = "none" /\ card[t] = 0
      /\ \A t \in Touches : ~Live(t) /\ ~Due(t)
    BY <1>1 DEF IInv, ArcInv, CandidateIsNew, Live, Due
<1>3. bot.pc # "marking" BY <1>2 DEF IInv, SurfaceInv, BotInHand
<1>4. ~materialize_sequence BY <1>1 DEF materialize_sequence
<1>5. list_due_uncarded = {} BY <1>2 DEF list_due_uncarded
<1>6. ASSUME NEW t \in Touches PROVE ~Resolve(t) /\ ~post_card(t)
    BY <1>2 DEF Resolve, post_card
<1>7. ~poll /\ ~mark_carded BY <1>3, <1>5 DEF poll, mark_carded
<1>8. CASE PostFails
    <2>1. UNCHANGED <<state, card>> /\ \E t : bot' = NextCard(t)
        BY <1>8 DEF PostFails, rowVars
    <2>2. TypeOK BY DEF IInv
    <2> QED BY <1>2, <2>1, <2>2, NextCardFacts
<1>9. CASE Start \/ reattach_views \/ ReattachFails \/ Crash
    BY <1>2, <1>9 DEF Start, reattach_views, ReattachFails, Crash, Down, Ready, rowVars
<1>10. CASE Tick \/ Engage \/ AnswerReason \/ run_drain \/ DrainWrite \/ DrainFails
            \/ disable_card \/ (\E t \in Touches : Reply(t)) \/ UNCHANGED vars
    BY <1>2, <1>10 DEF Tick, Engage, AnswerReason, run_drain, DrainWrite, DrainFails,
                       disable_card, Reply, vars, rowVars
<1>11. CASE defer \/ \E c \in Cards : mark_working(c) \/ StartDefer(c)
    BY <1>2, <1>11 DEF defer, mark_working, StartDefer, rowVars
<1> QED BY <1>4, <1>6, <1>7, <1>8, <1>9, <1>10, <1>11 DEF Next

\* Days pass and reasons stay; the drain writes what its SELECT allowed.
LEMMA DrainStepKeeps == IInv /\ [Next]_vars => DrainInHand'
<1> SUFFICES ASSUME IInv, [Next]_vars, drain' = "write"
             PROVE  /\ reason' /\ \A t \in Touches : Resolved(t)'
                    /\ \A t \in Touches : day' > Closes[t] + Grace
    BY DEF DrainInHand
<1> USE DEF IInv, ArcInv
<1>1. CASE drain = "write"
    <2>1. /\ reason /\ \A t \in Touches : Resolved(t)
          /\ \A t \in Touches : day > Closes[t] + Grace
        BY <1>1 DEF DrainInHand
    <2>2. \A t \in Touches : Resolved(t)' BY <2>1, ResolvedStep DEF Resolved
    <2>3. (day' = day \/ day' = day + 1) /\ (reason' = reason \/ reason')
        BY DEF Next, vars, rowVars, Tick, materialize_sequence, Engage, AnswerReason, Resolve,
               Reply, post_card, Start, reattach_views, ReattachFails, poll, mark_carded,
               PostFails, Crash, mark_working, StartDefer, defer, disable_card, run_drain,
               DrainWrite, DrainFails
    <2>4. day \in Nat /\ \A t \in Touches : Closes[t] + Grace \in Nat
        BY SurfaceAssumption DEF TypeOK
    <2>5. \A t \in Touches : day' > Closes[t] + Grace BY <2>1, <2>3, <2>4
    <2> QED BY <2>1, <2>2, <2>3, <2>5
<1>2. CASE drain # "write"
    <2>1. run_drain
        BY <1>2 DEF Next, vars, rowVars, Tick, materialize_sequence, Engage, AnswerReason,
               Resolve, Reply, post_card, Start, reattach_views, ReattachFails, poll,
               mark_carded, PostFails, Crash, mark_working, StartDefer, defer, disable_card,
               DrainWrite, DrainFails
    <2> QED BY <2>1 DEF run_drain, Drainable, Resolved, rowVars
<1> QED BY <1>1, <1>2

-----------------------------------------------------------------------------
(* Theorems *)

\* However the bot, the clicks, the capture and the drain interleave, the invariant
\* holds.
THEOREM SurfaceInvariant == Spec => []IInv
<1>1. IInv /\ [Next]_vars => IInv'
    BY TypeStep, SurfaceStep, CandidateStep, DrainStepKeeps DEF IInv, ArcInv
<1> QED BY <1>1, IInvInit, PTL DEF Spec

\* Every variable keeps its type, and a snooze stays in its touch's window.
THEOREM SurfaceTyped == Spec => []TypeOK
<1>1. IInv => TypeOK BY DEF IInv
<1> QED BY <1>1, SurfaceInvariant, PTL

\* While nothing failed, no touch is ever posted twice.
THEOREM TouchesAreCardedOnce == Spec => []CardedOnce
<1>1. IInv => CardedOnce
    <2> SUFFICES ASSUME IInv, faults = 0, NEW c \in Posted, NEW d \in Posted,
                        cards[c].touch = cards[d].touch
                 PROVE  c = d
        BY DEF CardedOnce
    <2>1. OneCardEach /\ BotInHand BY DEF IInv, SurfaceInv
    <2>2. CASE bot.pc = "marking"
        <3>1. cards[bot.card].touch \in bot.todo BY <2>1, <2>2 DEF BotInHand
        <3>2. c = bot.card \/ d = bot.card => cards[c].touch \in bot.todo BY <3>1
        <3> QED BY <2>1, <3>2 DEF OneCardEach
    <2>3. CASE bot.pc # "marking" BY <2>1, <2>3 DEF OneCardEach
    <2> QED BY <2>2, <2>3
<1> QED BY <1>1, SurfaceInvariant, PTL

\* What is sent or skipped is neither snoozed nor marked as worked on, whichever of
\* the click and the capture came first.
THEOREM ResolvedTouchesAreLeftAlone == Spec => ResolvedAreLeftAlone
<1>1. IInv /\ [Next]_vars =>
         [\A t \in Touches : Resolved(t) =>
             snooze'[t] = snooze[t] /\ working'[t] = working[t] /\ state'[t] = state[t]]_vars
    BY ResolvedStep
<1> QED BY <1>1, SurfaceInvariant, PTL DEF Spec, ResolvedAreLeftAlone

\* A greyed card is excused by its Defer, so that what is left to keep is the view of
\* the others.
LEMMA AnsweringMeans ==
    ASSUME IInv
    PROVE  Answering <=> \A t \in Touches :
               Live(t) /\ card[t] # 0 /\ cards[card[t]].enabled => card[t] \in bound
BY DEF IInv, SurfaceInv, CardsKnown, GreyedDeferred, Answering, Pressable

\* The recorded cards of the live touches answer from the moment a restarted bot has
\* listed them, as long as it lives, but for those greyed by a Defer.
LEMMA AnsweringStep ==
    ASSUME IInv, IInv', [Next]_vars,
           (Up /\ Answering) \/ (bot.pc = "starting" /\ faults' = faults), Up'
    PROVE  Answering'
<1> DEFINE Kept == \A t \in Touches :
               Live(t) /\ card[t] # 0 /\ cards[card[t]].enabled => card[t] \in bound
<1>0. /\ TypeOK /\ CardsKnown /\ faults \in Nat
      /\ Answering <=> Kept
    BY AnsweringMeans, SurfaceAssumption DEF IInv, SurfaceInv, TypeOK
<1> SUFFICES Kept'
    BY DEF IInv, SurfaceInv, CardsKnown, GreyedDeferred, Answering, Pressable
<1>1. CASE reattach_views
    BY <1>1 DEF reattach_views, list_carded_live, Live, rowVars
<1>2. CASE Crash \/ Start
    BY <1>2 DEF Crash, Start, Down, Up
<1>3. CASE ReattachFails
    BY <1>0, <1>3 DEF ReattachFails, Up
<1>4. ASSUME Up /\ Answering, bound \subseteq bound', UNCHANGED <<state, card>>,
             \A c \in Posted : cards'[c] = cards[c]
      PROVE Kept'
    BY <1>0, <1>4 DEF CardsKnown, Live
<1>5. CASE mark_carded
    <2> DEFINE t == cards[bot.card].touch
    <2>1. /\ card' = [card EXCEPT ![t] = bot.card] /\ UNCHANGED <<state, bound, cards>>
          /\ bot.pc = "marking"
        BY <1>5 DEF mark_carded
    <2>2. cards[bot.card].enabled => bot.card \in bound
        BY <2>1 DEF IInv, SurfaceInv, BotInHand
    <2>3. Kept BY <1>0, <2>1
    <2> HIDE DEF t
    <2> QED BY <1>0, <2>1, <2>2, <2>3 DEF Live, TypeOK
<1>6. CASE materialize_sequence
    <2>1. \A t \in Touches : card[t] = 0
        BY <1>6 DEF materialize_sequence, IInv, ArcInv, CandidateIsNew
    <2> QED BY <1>6, <2>1 DEF materialize_sequence
<1>7. ASSUME NEW t \in Touches, Resolve(t) PROVE Kept'
    <2>1. /\ UNCHANGED <<card, cards, bound, bot, faults>>
          /\ \A u \in Touches : state'[u] = "live" => state[u] = "live"
        BY <1>0, <1>7 DEF Resolve, TypeOK
    <2>2. Kept BY <1>0, <2>1 DEF Up
    <2> QED BY <2>1, <2>2 DEF Live
<1>8. ASSUME NEW t \in Touches, post_card(t) PROVE Kept'
    <2> DEFINE c == Cardinality(Posted) + 1
               m == [touch |-> t, enabled |-> TRUE]
    <2>1. /\ bot.pc = "posting" /\ bound \subseteq bound' /\ UNCHANGED <<state, card>>
          /\ cards' = [cards EXCEPT ![c] = m] /\ Posted # Cards
        BY <1>8 DEF post_card, rowVars
    <2>2. m \in Messages BY DEF Messages
    <2> HIDE DEF m, c
    <2>3. c \notin Posted /\ \A d \in Cards \ {c} : cards'[d] = cards[d]
        BY <2>1, <2>2, NewCard DEF IInv, SurfaceInv, c
    <2>4. \A d \in Posted : cards'[d] = cards[d] BY <1>0, <2>3, PostedFacts
    <2> QED BY <1>4, <2>1, <2>4
<1>9. CASE poll \/ PostFails
    <2>1. bot.pc # "starting" /\ UNCHANGED <<state, card, cards, bound>>
        BY <1>9 DEF poll, PostFails, rowVars
    <2> QED BY <1>4, <2>1
<1>10. CASE \/ Tick \/ Engage \/ AnswerReason \/ defer
            \/ run_drain \/ DrainWrite \/ DrainFails \/ UNCHANGED vars
            \/ (\E t \in Touches : Reply(t))
            \/ \E c \in Cards : mark_working(c) \/ StartDefer(c)
    <2>1. UNCHANGED <<state, card, cards, bound, bot>>
        BY <1>10 DEF Tick, Engage, AnswerReason, defer, run_drain, DrainWrite,
                     DrainFails, Reply, mark_working, StartDefer, vars, rowVars
    <2> QED BY <1>4, <2>1 DEF Up
<1>11. CASE disable_card
    <2>1. /\ click.card \in Posted /\ UNCHANGED <<state, card, bot>>
        BY <1>11 DEF disable_card, rowVars, IInv, SurfaceInv, ClickInHand
    <2>2. Kept BY <1>0, <2>1 DEF Up
    <2>3. CASE /\ cards' = [cards EXCEPT ![click.card].enabled = FALSE]
               /\ bound' = bound \ {click.card}
        <3> DEFINE k == click.card
        <3>1. ~cards'[k].enabled /\ \A c \in Posted \ {k} : cards'[c] = cards[c]
            BY <1>0, <2>1, <2>3, GreyedCard
        <3> HIDE DEF k
        <3> QED BY <1>0, <2>1, <2>2, <2>3, <3>1 DEF CardsKnown, Live, k
    <2>4. CASE UNCHANGED <<cards, bound>>
        BY <2>1, <2>2, <2>4 DEF Live
    <2> QED BY <1>11, <2>3, <2>4 DEF disable_card
<1> QED BY <1>1, <1>2, <1>3, <1>5, <1>6, <1>7, <1>8, <1>9, <1>10, <1>11 DEF Next

\* A card posted before a restart still works after it, once the listing succeeded,
\* and one that does not was greyed by a Defer of its own touch.
THEOREM CardsAnswerAcrossRestarts == Spec => RecordedCardsAnswer
<1>1. IInv /\ IInv' /\ [Next]_vars =>
         [(Up /\ Answering) \/ (bot.pc = "starting" /\ faults' = faults) =>
             (Up' => Answering')]_vars
    BY AnsweringStep
<1> QED BY <1>1, SurfaceInvariant, PTL DEF Spec, RecordedCardsAnswer

\* A slot is freed only by the drain, of an arc that is finished and explained at that
\* moment and of a target still in sequence.
THEOREM OnlyFinishedArcsDrain == Spec => DrainsOnlyFinished
<1>1. ASSUME IInv, [Next]_vars, status' = "watchlist", status # "watchlist"
      PROVE  /\ reason /\ \A t \in Touches : Resolved(t)
             /\ \A t \in Touches : day > Closes[t] + Grace
             /\ status = "in_sequence"
    <2>1. DrainWrite
        BY <1>1 DEF Next, vars, rowVars, Tick, materialize_sequence, Engage, AnswerReason,
               Resolve, Reply, post_card, Start, reattach_views, ReattachFails, poll,
               mark_carded, PostFails, Crash, mark_working, StartDefer, defer, disable_card,
               run_drain, DrainFails
    <2>2. drain = "write" /\ status = "in_sequence" BY <1>1, <2>1 DEF DrainWrite
    <2> QED BY <1>1, <2>2 DEF IInv, ArcInv, DrainInHand
<1>2. IInv /\ [Next]_vars =>
         [status' = "watchlist" /\ status # "watchlist" =>
             /\ reason /\ \A t \in Touches : Resolved(t)
             /\ \A t \in Touches : day > Closes[t] + Grace
             /\ status = "in_sequence"]_vars
    BY <1>1
<1> QED BY <1>2, SurfaceInvariant, PTL DEF Spec, DrainsOnlyFinished
=============================================================================

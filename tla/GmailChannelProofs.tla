-------------------------- MODULE GmailChannelProofs --------------------------
(***************************************************************************)
(* Proofs about GmailChannel, for every number of touches, drafts, packets *)
(* and failures: its type invariant, that only a touch whose own draft     *)
(* went out is marked sent, that a known draft is never doubled, that an   *)
(* operator's edit made outside a pass is never taken back, that a stamp   *)
(* is of what the draft says, and that a send still to be recorded has an  *)
(* unread copy.                                                            *)
(***************************************************************************)
EXTENDS GmailChannel, FiniteSetTheorems, TLAPS

-----------------------------------------------------------------------------
(* The inductive invariant *)

Sent(d) == d \in Drafts /\ mail[d] # NoDraft /\ mail[d].state = "sent"

\* Draft ids are given out in order.
DraftsInOrder == \E n \in 0 .. MaxDrafts : Created = 1 .. n

\* A touch's known draft was created for it.
DraftsOwned ==
    \A t \in Touches : draft[t] # 0 => draft[t] \in Created /\ mail[draft[t]].touch = t

\* What capture reads is about messages that went out.
EventsWereSent ==
    /\ \A i \in 1 .. Len(history) : Sent(history[i])
    /\ \A d \in copies : Sent(d)
    /\ capture.pc = "body" => Sent(capture.at)

\* The draft a pass has in hand is that of the touch it works on.
PassInHand ==
    /\ pass.pc \in {"idle", "items"} => pass.touches = {}
    /\ pass.pc \in {"update", "stamp"} =>
          /\ pass.draft \in Created
          /\ pass.touches = {mail[pass.draft].touch}

\* A pass creates drafts only for touches without a known one, and refreshes
\* known ones only.
JobsAreFresh ==
    \A t \in Touches :
       /\ pass.jobs[t] = "create" => draft[t] = 0
       /\ pass.jobs[t] = "refresh" => draft[t] # 0
       /\ pass.pc \in {"update", "stamp"} /\ t \in pass.touches /\ draft[t] # 0 =>
             draft[t] = pass.draft

IInv ==
    /\ TypeOK
    /\ DraftsInOrder
    /\ DraftsOwned
    /\ EventsWereSent
    /\ PassInHand
    /\ JobsAreFresh
    /\ RecordedWasMailed
-----------------------------------------------------------------------------
(* Init *)

\* The strengthened invariant holds before the first pass.
LEMMA IInvInit == Init => IInv
<1> SUFFICES ASSUME Init PROVE IInv
    OBVIOUS
<1> USE GmailAssumption
<1>1. mail \in [Drafts -> {NoDraft} \cup Mails] /\ Created = {}
    BY DEF Init, Created
<1>2. pass \in Passes /\ capture \in Captures
    BY DEF Init, NoPass, NoCapture, Passes, Captures, Jobs
<1>3. Len(history) = 0 /\ history \in Seq(Drafts) /\ copies \subseteq Drafts
    BY DEF Init
<1>4. TypeOK
    BY <1>1, <1>2, <1>3 DEF Init, TypeOK, None, Texts, Own, NoCapture
<1>5. DraftsInOrder
    BY <1>1 DEF DraftsInOrder
<1>6. DraftsOwned /\ RecordedWasMailed /\ PassInHand /\ JobsAreFresh
    BY DEF Init, DraftsOwned, RecordedWasMailed, PassInHand, JobsAreFresh, NoPass
<1>7. EventsWereSent
    BY <1>3 DEF Init, EventsWereSent, NoCapture
<1> QED BY <1>4, <1>5, <1>6, <1>7 DEF IInv

-----------------------------------------------------------------------------
(* The mailbox: drafts are added and changed, never given to another touch and *)
(* never unsent                                                                *)

MailKeeps ==
    \A d \in Drafts : mail[d] # NoDraft =>
       /\ mail'[d] # NoDraft
       /\ mail'[d].touch = mail[d].touch
       /\ mail[d].state = "sent" => mail'[d].state = "sent"

MailType == mail \in [Drafts -> {NoDraft} \cup Mails]

\* The null draft is no mail.
LEMMA NoDraftIsNoMail == NoDraft \notin Mails
BY GmailAssumption DEF Mails, Texts, Own

\* A draft in the mailbox is a record of its fields.
LEMMA MailFields ==
    ASSUME MailType, NEW d \in Drafts, mail[d] # NoDraft
    PROVE  /\ mail[d] \in Mails
           /\ mail[d].touch \in Touches /\ mail[d].body \in Texts
           /\ mail[d].state \in {"draft", "gone", "sent"}
BY DEF MailType, Mails

\* Changing a draft of the Drafts folder, its touch apart, keeps all of that.
LEMMA MailChanged ==
    ASSUME MailType, NEW d \in Drafts, InBox(d), NEW m \in Mails,
           m.touch = mail[d].touch, mail' = [mail EXCEPT ![d] = m]
    PROVE  MailType' /\ MailKeeps /\ Created' = Created
<1>1. MailType'
    BY DEF MailType
<1>2. mail'[d] = m /\ \A e \in Drafts \ {d} : mail'[e] = mail[e]
    BY DEF MailType
<1>3. m # NoDraft /\ mail[d] # NoDraft /\ mail[d].state = "draft"
    BY NoDraftIsNoMail DEF InBox
<1>4. MailKeeps
    <2> SUFFICES ASSUME NEW e \in Drafts, mail[e] # NoDraft
                 PROVE  /\ mail'[e] # NoDraft /\ mail'[e].touch = mail[e].touch
                        /\ mail[e].state = "sent" => mail'[e].state = "sent"
        BY DEF MailKeeps
    <2>1. CASE e = d
        BY <2>1, <1>2, <1>3
    <2>2. CASE e # d
        BY <2>2, <1>2
    <2> QED BY <2>1, <2>2
<1>5. Created' = Created
    BY <1>2, <1>3 DEF Created
<1> QED BY <1>1, <1>4, <1>5

\* The operator's and the refresh's writes are such changes.
LEMMA EditBodyMail ==
    ASSUME MailType, NEW d \in Drafts, EditBody(d)
    PROVE  MailType' /\ MailKeeps /\ Created' = Created
<1> DEFINE m == [mail[d] EXCEPT !.body = Own]
<1>1. m \in Mails /\ m.touch = mail[d].touch
    BY MailFields DEF EditBody, InBox, Mails, Texts
<1>2. mail' = [mail EXCEPT ![d] = m] /\ InBox(d)
    BY DEF EditBody
<1> HIDE DEF m
<1> QED BY <1>1, <1>2, MailChanged

\* An edit of a subject keeps the mailbox well typed and every draft in it.
LEMMA EditSubjectMail ==
    ASSUME MailType, NEW d \in Drafts, EditSubject(d)
    PROVE  MailType' /\ MailKeeps /\ Created' = Created
<1> DEFINE m == [mail[d] EXCEPT !.subject = Own]
<1>1. m \in Mails /\ m.touch = mail[d].touch
    BY MailFields DEF EditSubject, InBox, Mails, Texts
<1>2. mail' = [mail EXCEPT ![d] = m] /\ InBox(d)
    BY DEF EditSubject
<1> HIDE DEF m
<1> QED BY <1>1, <1>2, MailChanged

\* So does a draft being deleted or sent.
LEMMA StateMail ==
    ASSUME MailType, NEW d \in Drafts, NEW s \in {"gone", "sent"}, InBox(d),
           mail' = [mail EXCEPT ![d].state = s]
    PROVE  MailType' /\ MailKeeps /\ Created' = Created /\ (s = "sent" => Sent(d)')
<1> DEFINE m == [mail[d] EXCEPT !.state = s]
<1>1. m \in Mails /\ m.touch = mail[d].touch /\ m.state = s
    BY MailFields DEF InBox, Mails
<1>2. mail' = [mail EXCEPT ![d] = m] /\ mail'[d] = m
    BY DEF MailType
<1> HIDE DEF m
<1>3. MailType' /\ MailKeeps /\ Created' = Created
    BY <1>1, <1>2, MailChanged
<1>4. s = "sent" => Sent(d)'
    BY <1>1, <1>2, NoDraftIsNoMail DEF Sent, Drafts
<1> QED BY <1>3, <1>4

\* So does a rewrite of a draft by update_draft.
LEMMA RewriteMail ==
    ASSUME MailType, NEW d \in Drafts, InBox(d), NEW x \in Texts,
           mail' = [mail EXCEPT ![d].body = x, ![d].subject = x]
    PROVE  /\ MailType' /\ MailKeeps /\ Created' = Created
           /\ \A e \in Drafts \ {d} : mail'[e] = mail[e]
<1> DEFINE b == [mail[d] EXCEPT !.body = x]
           m == [b EXCEPT !.subject = x]
<1>1. b \in Mails /\ b.touch = mail[d].touch
    BY MailFields DEF InBox, Mails
<1>2. mail' = [[mail EXCEPT ![d] = b] EXCEPT ![d].subject = x]
    OBVIOUS
<1> HIDE DEF b
<1>3. m \in Mails /\ m.touch = mail[d].touch
    BY <1>1 DEF Mails
<1>4. mail' = [mail EXCEPT ![d] = m]
    BY <1>2 DEF MailType
<1> HIDE DEF m
<1>5. \A e \in Drafts \ {d} : mail'[e] = mail[e]
    BY <1>4 DEF MailType
<1> QED BY <1>3, <1>4, <1>5, MailChanged

\* A new draft takes the next id.
LEMMA NewMail ==
    ASSUME MailType, DraftsInOrder, NEW d, d = Cardinality(Created) + 1,
           Cardinality(Created) < MaxDrafts, NEW m \in Mails, mail' = [mail EXCEPT ![d] = m]
    PROVE  /\ d \in Drafts /\ mail[d] = NoDraft
           /\ MailType' /\ MailKeeps
           /\ Created' = 1 .. d /\ mail'[d] = m
           /\ \A e \in Drafts \ {d} : mail'[e] = mail[e]
<1>1. PICK n \in 0 .. MaxDrafts : Created = 1 .. n
    BY DEF DraftsInOrder
<1>2. n \in Nat /\ Cardinality(Created) = n
    <2>1. n \in Nat
        BY GmailAssumption
    <2>2. Cardinality(1 .. n) = IF 1 > n THEN 0 ELSE n - 1 + 1
        BY <2>1, FS_Interval
    <2> QED BY <1>1, <2>1, <2>2
<1>3. d = n + 1 /\ d \in Drafts /\ d \notin Created
    BY <1>1, <1>2, GmailAssumption DEF Drafts
<1>4. mail[d] = NoDraft
    BY <1>3 DEF Created
<1>5. mail'[d] = m /\ \A e \in Drafts \ {d} : mail'[e] = mail[e]
    BY <1>3 DEF MailType
<1>6. MailType'
    BY <1>3 DEF MailType
<1>7. MailKeeps
    BY <1>4, <1>5 DEF MailKeeps
<1>8. Created' = Created \cup {d}
    BY <1>3, <1>5, NoDraftIsNoMail DEF Created
<1>9. Created' = 1 .. d
    BY <1>1, <1>2, <1>3, <1>8
<1> QED BY <1>3, <1>4, <1>5, <1>6, <1>7, <1>9

\* No step loses a draft, changes its touch or takes a send back.
LEMMA MailStep ==
    ASSUME TypeOK, DraftsInOrder, PassInHand, [Next]_vars
    PROVE  MailType' /\ MailKeeps /\ DraftsInOrder'
<1> MailType
    BY DEF TypeOK, MailType
<1>0. ASSUME mail' = mail PROVE MailType' /\ MailKeeps /\ DraftsInOrder'
    BY <1>0 DEF MailType, MailKeeps, DraftsInOrder, Created
<1>1. ASSUME regenerate_packets PROVE MailType' /\ MailKeeps /\ DraftsInOrder'
    BY <1>1, <1>0 DEF regenerate_packets, boxVars
<1>2. ASSUME NEW t \in Touches, Skip(t) PROVE MailType' /\ MailKeeps /\ DraftsInOrder'
    BY <1>2, <1>0 DEF Skip, boxVars
<1>3. ASSUME NEW t \in Touches, create_draft(t) PROVE MailType' /\ MailKeeps /\ DraftsInOrder'
    <2> DEFINE d == Cardinality(Created) + 1
               m == [touch |-> t, body |-> pass.texts[t], subject |-> pass.texts[t],
                     state |-> "draft"]
    <2>1. m \in Mails
        BY GmailAssumption DEF Mails, TypeOK, Passes, Texts, Own
    <2>2. mail' = [mail EXCEPT ![d] = m] /\ Cardinality(Created) < MaxDrafts
        BY <1>3 DEF create_draft
    <2> HIDE DEF d, m
    <2>3. MailType' /\ MailKeeps /\ Created' = 1 .. d /\ d \in Drafts
        <3>1. d = Cardinality(Created) + 1
            BY DEF d
        <3> QED BY <2>1, <2>2, <3>1, NewMail
    <2>4. DraftsInOrder'
        BY <2>3, GmailAssumption DEF DraftsInOrder, Drafts
    <2> QED BY <2>3, <2>4
<1>4. ASSUME NEW t \in Touches, LeaveDraft(t) PROVE MailType' /\ MailKeeps /\ DraftsInOrder'
    BY <1>4, <1>0 DEF LeaveDraft, boxVars
<1>5. ASSUME NEW t \in Touches, FindUnedited(t) PROVE MailType' /\ MailKeeps /\ DraftsInOrder'
    BY <1>5, <1>0 DEF FindUnedited, boxVars
<1>6. ASSUME NEW t \in Touches, update_draft(t) PROVE MailType' /\ MailKeeps /\ DraftsInOrder'
    <2>1. CASE InBox(pass.draft)
        <3>1. pass.draft \in Drafts
            BY <1>6 DEF update_draft, PassInHand, Created
        <3>2. pass.texts[t] \in Texts
            BY DEF TypeOK, Passes, Texts, Own
        <3>3. mail' = [mail EXCEPT ![pass.draft].body = pass.texts[t],
                                   ![pass.draft].subject = pass.texts[t]]
            BY <1>6, <2>1 DEF update_draft
        <3> QED BY <2>1, <3>1, <3>2, <3>3, RewriteMail DEF DraftsInOrder
    <2>2. CASE ~InBox(pass.draft)
        BY <1>6, <2>2, <1>0 DEF update_draft
    <2> QED BY <2>1, <2>2
<1>7. ASSUME NEW t \in Touches, Stamp(t) PROVE MailType' /\ MailKeeps /\ DraftsInOrder'
    BY <1>7, <1>0 DEF Stamp, boxVars
<1>8. ASSUME NEW d \in Drafts, EditBody(d) PROVE MailType' /\ MailKeeps /\ DraftsInOrder'
    BY <1>8, EditBodyMail DEF DraftsInOrder
<1>9. ASSUME NEW d \in Drafts, EditSubject(d) PROVE MailType' /\ MailKeeps /\ DraftsInOrder'
    BY <1>9, EditSubjectMail DEF DraftsInOrder
<1>10. ASSUME NEW d \in Drafts, Delete(d) PROVE MailType' /\ MailKeeps /\ DraftsInOrder'
    BY <1>10, StateMail DEF Delete, DraftsInOrder
<1>11. ASSUME NEW d \in Drafts, Send(d) PROVE MailType' /\ MailKeeps /\ DraftsInOrder'
    BY <1>11, StateMail DEF Send, DraftsInOrder
<1>12. ASSUME NEW d \in Drafts, FetchCopy(d) PROVE MailType' /\ MailKeeps /\ DraftsInOrder'
    BY <1>12, <1>0 DEF FetchCopy, boxVars
<1>13. CASE StartPass
    BY <1>13, <1>0 DEF StartPass, boxVars
<1>14. CASE EndPass
    BY <1>14, <1>0 DEF EndPass, boxVars
<1>15. CASE PassFails
    BY <1>15, <1>0 DEF PassFails, boxVars
<1>16. CASE Bootstrap
    BY <1>16, <1>0 DEF Bootstrap, boxVars
<1>17. CASE ReadHistory
    BY <1>17, <1>0 DEF ReadHistory, boxVars
<1>18. CASE record_send
    BY <1>18, <1>0 DEF record_send, boxVars
<1>19. CASE save_watermark
    BY <1>19, <1>0 DEF save_watermark, boxVars
<1>20. CASE record_body
    BY <1>20, <1>0 DEF record_body, boxVars
<1>21. CASE EndCapture
    BY <1>21, <1>0 DEF EndCapture, boxVars
<1>22. CASE CaptureFails
    BY <1>22, <1>0 DEF CaptureFails, boxVars
<1>23. CASE UNCHANGED vars
    BY <1>23, <1>0 DEF vars, boxVars
<1> QED
    BY <1>1, <1>2, <1>3, <1>4, <1>5, <1>6, <1>7, <1>8, <1>9, <1>10, <1>11, <1>12, <1>13, <1>14, <1>15, <1>16, <1>17, <1>18, <1>19, <1>20, <1>21, <1>22, <1>23 DEF Next

-----------------------------------------------------------------------------
(* Type correctness *)

\* A pass that goes on to its next item, or ends, is well typed.
LEMMA PassTypes ==
    ASSUME TypeOK
    PROVE  NoPass \in Passes /\ \A t \in Touches : NextItem(t) \in Passes
<1>1. NoPass \in Passes
    BY GmailAssumption DEF NoPass, Passes, Jobs
<1>2. ASSUME NEW t \in Touches PROVE NextItem(t) \in Passes
    <2>1. [pass.jobs EXCEPT ![t] = "none"] \in [Touches -> Jobs]
        BY DEF TypeOK, Passes, Jobs
    <2> QED BY <2>1, GmailAssumption DEF NextItem, TypeOK, Passes
<1> QED BY <1>1, <1>2

\* Every step keeps the types.
LEMMA TypeStep ==
    ASSUME TypeOK, DraftsInOrder, PassInHand, [Next]_vars
    PROVE  TypeOK'
<1> USE GmailAssumption
<1>0. MailType'
    BY MailStep
<1>1. ASSUME regenerate_packets PROVE TypeOK'
    BY <1>1, <1>0 DEF TypeOK, regenerate_packets, save_packet, assemble_packet, touchVars, boxVars, Passes, Jobs, MailType
<1>2. ASSUME NEW t \in Touches, Skip(t) PROVE TypeOK'
    BY <1>2, <1>0 DEF TypeOK, Skip, touchVars, boxVars, Passes, Jobs, MailType
<1>3. ASSUME NEW t \in Touches, create_draft(t) PROVE TypeOK'
    <2>1. Cardinality(Created) + 1 \in 0 .. MaxDrafts
        <3>1. PICK n \in 0 .. MaxDrafts : Created = 1 .. n
            BY DEF DraftsInOrder
        <3>2. Cardinality(1 .. n) = IF 1 > n THEN 0 ELSE n - 1 + 1
            BY FS_Interval
        <3> QED BY <1>3, <3>1, <3>2 DEF create_draft
    <2>2. pass' = [pass EXCEPT !.pc = "stamp", !.draft = Cardinality(Created) + 1,
                              !.touches = {t}]
        BY <1>3 DEF create_draft
    <2>3. pass' \in Passes
        BY <2>1, <2>2 DEF TypeOK, Passes
    <2> QED BY <1>3, <1>0, <2>3 DEF create_draft, TypeOK, touchVars, boxVars, MailType
<1>4. ASSUME NEW t \in Touches, LeaveDraft(t) PROVE TypeOK'
    BY <1>4, <1>0, PassTypes DEF LeaveDraft, TypeOK, touchVars, boxVars, MailType, NoPass
<1>5. ASSUME NEW t \in Touches, FindUnedited(t) PROVE TypeOK'
    BY <1>5, <1>0 DEF TypeOK, FindUnedited, touchVars, boxVars, Passes, Jobs, MailType
<1>6. ASSUME NEW t \in Touches, update_draft(t) PROVE TypeOK'
    <2>1. pass' \in Passes
        <3>1. CASE InBox(pass.draft)
            <4>1. pass' = [pass EXCEPT !.pc = "stamp"]
                BY <1>6, <3>1 DEF update_draft
            <4> QED BY <4>1 DEF TypeOK, Passes
        <3>2. CASE ~InBox(pass.draft)
            BY <1>6, <3>2, PassTypes DEF update_draft
        <3> QED BY <3>1, <3>2
    <2> QED BY <1>6, <1>0, <2>1 DEF update_draft, TypeOK, touchVars, boxVars, MailType
<1>7. ASSUME NEW t \in Touches, Stamp(t) PROVE TypeOK'
    <2>1. pass' \in Passes
        BY <1>7, PassTypes DEF Stamp
    <2>2. pass.draft \in Drafts /\ mail[pass.draft] # NoDraft
        BY <1>7 DEF Stamp, PassInHand, Created
    <2>3. mail[pass.draft].body \in Texts /\ pass.draft \in 0 .. MaxDrafts
        BY <2>2, MailFields DEF TypeOK, MailType, Drafts
    <2>4. /\ draft' \in [Touches -> 0 .. MaxDrafts]
          /\ hash' \in [Touches -> Texts]
        BY <1>7, <2>3 DEF Stamp, TypeOK
    <2> QED BY <1>7, <1>0, <2>1, <2>4 DEF Stamp, TypeOK, touchVars, boxVars, MailType
<1>8. ASSUME NEW d \in Drafts, EditBody(d) PROVE TypeOK'
    BY <1>8, <1>0 DEF TypeOK, EditBody, touchVars, boxVars, Passes, Jobs, MailType
<1>9. ASSUME NEW d \in Drafts, EditSubject(d) PROVE TypeOK'
    BY <1>9, <1>0 DEF TypeOK, EditSubject, touchVars, boxVars, Passes, Jobs, MailType
<1>10. ASSUME NEW d \in Drafts, Delete(d) PROVE TypeOK'
    BY <1>10, <1>0 DEF TypeOK, Delete, touchVars, boxVars, Passes, Jobs, MailType
<1>11. ASSUME NEW d \in Drafts, Send(d) PROVE TypeOK'
    <2>1. history' \in Seq(Drafts) /\ Len(history') = Len(history) + 1 /\ Len(history) \in Nat
        BY <1>11 DEF Send, TypeOK
    <2>2. capture.pc = "events" => capture.upto <= Len(history')
        BY <2>1 DEF TypeOK, Captures
    <2>3. mark = None \/ mark <= Len(history')
        BY <2>1 DEF TypeOK, None
    <2> QED BY <1>11, <1>0, <2>1, <2>2, <2>3 DEF Send, TypeOK, touchVars, MailType
<1>12. ASSUME NEW d \in Drafts, FetchCopy(d) PROVE TypeOK'
    <2>1. capture' \in Captures /\ capture'.pc # "events"
        <3>1. capture' = [capture EXCEPT !.pc = "body", !.at = d]
            BY <1>12 DEF FetchCopy
        <3>2. capture' = [pc |-> "body", at |-> d, upto |-> capture.upto]
            BY <3>1 DEF TypeOK, Captures
        <3> QED BY <3>2 DEF TypeOK, Captures, Drafts
    <2> QED BY <1>12, <1>0, <2>1 DEF FetchCopy, TypeOK, touchVars, boxVars, MailType
<1>13. CASE StartPass
    BY <1>13, <1>0 DEF TypeOK, StartPass, touchVars, boxVars, Passes, Jobs, MailType
<1>14. CASE EndPass
    BY <1>14, <1>0, PassTypes DEF EndPass, TypeOK, touchVars, boxVars, MailType, NoPass
<1>15. CASE PassFails
    <2>1. pass' \in Passes
        <3>1. pass.touches \subseteq Touches
            BY DEF TypeOK, Passes
        <3>2. pass' = NoPass \/ \E t \in Touches : pass' = NextItem(t)
            BY <1>15, <3>1 DEF PassFails
        <3> QED BY <3>2, PassTypes
    <2>2. faults' \in 0 .. MaxFaults
        BY <1>15 DEF PassFails, TypeOK
    <2> QED BY <1>15, <1>0, <2>1, <2>2 DEF PassFails, TypeOK, touchVars, boxVars, MailType
<1>16. CASE Bootstrap
    <2>1. capture' \in Captures /\ capture'.pc # "events"
        <3>1. capture' = [capture EXCEPT !.pc = "inbox"]
            BY <1>16 DEF Bootstrap
        <3> QED BY <3>1 DEF TypeOK, Captures, NoCapture
    <2>2. mark' \in Nat /\ mark' <= Len(history)
        BY <1>16 DEF Bootstrap, TypeOK
    <2>3. faults' \in 0 .. MaxFaults
        BY <1>16 DEF Bootstrap, TypeOK
    <2> QED BY <1>16, <1>0, <2>1, <2>2, <2>3 DEF Bootstrap, TypeOK, touchVars, boxVars, MailType
<1>17. CASE ReadHistory
    <2>1. Len(history) \in Nat /\ mark \in Nat
        BY DEF TypeOK
    <2>2. capture' \in Captures /\ (capture'.pc = "events" => capture'.upto <= Len(history))
        BY <1>17, <2>1 DEF ReadHistory, Captures
    <2> QED BY <1>17, <1>0, <2>2 DEF ReadHistory, TypeOK, touchVars, boxVars, MailType
<1>18. CASE record_send
    <2>1. capture' \in Captures /\ (capture'.pc = "events" => capture'.upto <= Len(history))
        <3>1. capture' = [capture EXCEPT !.at = @ + 1] \/ capture' = NoCapture
            BY <1>18 DEF record_send
        <3> QED BY <3>1 DEF TypeOK, Captures, NoCapture
    <2>2. sent' \in [Touches -> {"none", "gmail_api", "bcc"}]
        <3>1. sent' = sent \/ \E t \in Touches : sent' = [sent EXCEPT ![t] = "gmail_api"]
            BY <1>18 DEF record_send, correlate
        <3> QED BY <3>1 DEF TypeOK
    <2> QED BY <1>18, <1>0, <2>1, <2>2 DEF record_send, TypeOK, touchVars, boxVars, MailType
<1>19. CASE save_watermark
    <2>1. capture' \in Captures /\ capture'.pc # "events"
        <3>1. capture' = [NoCapture EXCEPT !.pc = "inbox"]
            BY <1>19 DEF save_watermark
        <3> QED BY <3>1 DEF TypeOK, Captures, NoCapture
    <2>2. mark' \in Nat /\ mark' <= Len(history)
        BY <1>19 DEF save_watermark, TypeOK, Captures
    <2> QED BY <1>19, <1>0, <2>1, <2>2 DEF save_watermark, TypeOK, touchVars, boxVars, MailType
<1>20. CASE record_body
    <2>1. capture' \in Captures /\ capture'.pc # "events"
        <3>1. capture' = NoCapture \/ capture' = [NoCapture EXCEPT !.pc = "inbox"]
            BY <1>20 DEF record_body
        <3>2. NoCapture \in Captures /\ [NoCapture EXCEPT !.pc = "inbox"] \in Captures
            BY DEF Captures, NoCapture
        <3>3. NoCapture.pc = "idle" /\ [NoCapture EXCEPT !.pc = "inbox"].pc = "inbox"
            BY DEF NoCapture
        <3> QED BY <3>1, <3>2, <3>3
    <2>2. sent' \in [Touches -> {"none", "gmail_api", "bcc"}]
        <3> DEFINE t == mail[capture.at].touch
        <3>1. sent' = sent \/ sent' = [sent EXCEPT ![t] = IF sent[t] = "none" THEN "bcc" ELSE sent[t]]
            BY <1>20 DEF record_body
        <3> HIDE DEF t
        <3>2. CASE t \in Touches
            BY <3>1, <3>2 DEF TypeOK
        <3>3. CASE t \notin Touches
            BY <3>1, <3>3 DEF TypeOK
        <3> QED BY <3>2, <3>3
    <2> QED BY <1>20, <1>0, <2>1, <2>2 DEF record_body, TypeOK, touchVars, boxVars, MailType
<1>21. CASE EndCapture
    <2>1. capture' \in Captures /\ capture'.pc # "events"
        <3>1. capture' = NoCapture
            BY <1>21 DEF EndCapture
        <3> QED BY <3>1 DEF TypeOK, Captures, NoCapture
    <2> QED BY <1>21, <1>0, <2>1 DEF EndCapture, TypeOK, touchVars, boxVars, MailType
<1>22. CASE CaptureFails
    <2>1. capture' \in Captures /\ capture'.pc # "events"
        <3>1. capture' = NoCapture
            BY <1>22 DEF CaptureFails
        <3> QED BY <3>1 DEF TypeOK, Captures, NoCapture
    <2>2. faults' \in 0 .. MaxFaults
        BY <1>22 DEF CaptureFails, TypeOK
    <2> QED BY <1>22, <1>0, <2>1, <2>2 DEF CaptureFails, TypeOK, touchVars, boxVars, MailType
<1>23. CASE UNCHANGED vars
    BY <1>23, <1>0 DEF TypeOK, vars, touchVars, boxVars, MailType
<1> QED
    BY <1>1, <1>2, <1>3, <1>4, <1>5, <1>6, <1>7, <1>8, <1>9, <1>10, <1>11, <1>12, <1>13, <1>14, <1>15, <1>16, <1>17, <1>18, <1>19, <1>20, <1>21, <1>22, <1>23 DEF Next

-----------------------------------------------------------------------------
(* The drafting pass *)

\* Every step keeps what the drafting pass has in hand consistent with the touches.
LEMMA PassStep ==
    ASSUME TypeOK, DraftsInOrder, DraftsOwned, PassInHand, JobsAreFresh, [Next]_vars
    PROVE  DraftsOwned' /\ PassInHand' /\ JobsAreFresh'
<1>0. MailKeeps /\ MailType'
    BY MailStep
<1>d. ASSUME draft' = draft PROVE DraftsOwned'
    BY <1>0, <1>d DEF DraftsOwned, MailKeeps, Created
<1>a. ASSUME draft' = draft, pass' = pass PROVE DraftsOwned' /\ PassInHand' /\ JobsAreFresh'
    <2>1. PassInHand'
        BY <1>0, <1>a DEF PassInHand, MailKeeps, Created
    <2>2. JobsAreFresh'
        BY <1>a DEF JobsAreFresh
    <2> QED BY <2>1, <2>2, <1>a, <1>d
<1>b. ASSUME draft' = draft, pass' = NoPass PROVE DraftsOwned' /\ PassInHand' /\ JobsAreFresh'
    BY <1>b, <1>d DEF PassInHand, JobsAreFresh, NoPass
<1>c. ASSUME draft' = draft, NEW t \in Touches, pass' = NextItem(t)
      PROVE  DraftsOwned' /\ PassInHand' /\ JobsAreFresh'
    <2>1. /\ pass'.pc = "items" /\ pass'.touches = {}
          /\ \A u \in Touches : pass'.jobs[u] # "none" => pass'.jobs[u] = pass.jobs[u]
        BY <1>c DEF NextItem, TypeOK, Passes
    <2> QED BY <2>1, <1>c, <1>d DEF PassInHand, JobsAreFresh
<1>1. ASSUME regenerate_packets PROVE DraftsOwned' /\ PassInHand' /\ JobsAreFresh'
    BY <1>1, <1>a DEF regenerate_packets, touchVars
<1>2. ASSUME NEW t \in Touches, Skip(t) PROVE DraftsOwned' /\ PassInHand' /\ JobsAreFresh'
    BY <1>2, <1>a DEF Skip, touchVars
<1>3. ASSUME NEW t \in Touches, create_draft(t) PROVE DraftsOwned' /\ PassInHand' /\ JobsAreFresh'
    <2> DEFINE d == Cardinality(Created) + 1
               m == [touch |-> t, body |-> pass.texts[t], subject |-> pass.texts[t],
                     state |-> "draft"]
    <2>1. m \in Mails /\ m.touch = t
        BY GmailAssumption DEF Mails, TypeOK, Passes, Texts, Own
    <2>2. mail' = [mail EXCEPT ![d] = m] /\ Cardinality(Created) < MaxDrafts
        BY <1>3 DEF create_draft
    <2>3. pass' = [pass EXCEPT !.pc = "stamp", !.draft = d, !.touches = {t}]
        BY <1>3 DEF create_draft
    <2>4. draft' = draft /\ draft[t] = 0
        BY <1>3 DEF create_draft, touchVars, JobsAreFresh
    <2> HIDE DEF d, m
    <2>5. d \in Drafts /\ mail'[d] = m /\ m # NoDraft
        <3>1. d = Cardinality(Created) + 1
            BY DEF d
        <3> QED BY <2>1, <2>2, <3>1, NewMail, NoDraftIsNoMail DEF TypeOK, MailType
    <2>6. pass'.pc = "stamp" /\ pass'.draft = d /\ pass'.touches = {t} /\ pass'.jobs = pass.jobs
        BY <2>3 DEF TypeOK, Passes
    <2>7. PassInHand'
        BY <2>1, <2>5, <2>6 DEF PassInHand, Created
    <2>8. JobsAreFresh'
        BY <2>4, <2>6 DEF JobsAreFresh
    <2> QED BY <2>4, <2>7, <2>8, <1>d
<1>4. ASSUME NEW t \in Touches, LeaveDraft(t) PROVE DraftsOwned' /\ PassInHand' /\ JobsAreFresh'
    BY <1>4, <1>c DEF LeaveDraft, touchVars
<1>5. ASSUME NEW t \in Touches, FindUnedited(t) PROVE DraftsOwned' /\ PassInHand' /\ JobsAreFresh'
    <2>1. pass' = [pass EXCEPT !.pc = "update", !.draft = draft[t], !.touches = {t}]
        BY <1>5 DEF FindUnedited
    <2>2. pass'.pc = "update" /\ pass'.draft = draft[t] /\ pass'.touches = {t} /\ pass'.jobs = pass.jobs
        BY <2>1 DEF TypeOK, Passes
    <2>3. mail' = mail /\ draft' = draft
        BY <1>5 DEF FindUnedited, touchVars, boxVars
    <2>4. draft[t] # 0 /\ draft[t] \in Created /\ mail[draft[t]].touch = t
        <3>1. draft[t] # 0
            BY <1>5 DEF FindUnedited, Refreshing, JobsAreFresh
        <3> QED BY <3>1 DEF DraftsOwned
    <2>5. PassInHand' /\ JobsAreFresh'
        BY <2>2, <2>3, <2>4 DEF PassInHand, JobsAreFresh, Created
    <2> QED BY <2>3, <2>5, <1>d
<1>6. ASSUME NEW t \in Touches, update_draft(t) PROVE DraftsOwned' /\ PassInHand' /\ JobsAreFresh'
    <2>1. draft' = draft
        BY <1>6 DEF update_draft, touchVars
    <2>2. CASE ~InBox(pass.draft)
        BY <1>6, <2>1, <2>2, <1>c DEF update_draft
    <2>3. CASE InBox(pass.draft)
        <3>1. pass' = [pass EXCEPT !.pc = "stamp"]
            BY <1>6, <2>3 DEF update_draft
        <3>2. /\ pass'.pc = "stamp" /\ pass'.draft = pass.draft
              /\ pass'.touches = pass.touches /\ pass'.jobs = pass.jobs
            BY <3>1 DEF TypeOK, Passes
        <3>3. pass.pc = "update"
            BY <1>6 DEF update_draft
        <3>4. PassInHand'
            BY <3>2, <3>3, <1>0 DEF PassInHand, MailKeeps, Created
        <3>5. JobsAreFresh'
            BY <3>2, <3>3, <2>1 DEF JobsAreFresh
        <3> QED BY <2>1, <3>4, <3>5, <1>d
    <2> QED BY <2>2, <2>3
<1>7. ASSUME NEW t \in Touches, Stamp(t) PROVE DraftsOwned' /\ PassInHand' /\ JobsAreFresh'
    <2>1. pass' = NextItem(t) /\ pass.pc = "stamp" /\ pass.touches = {t} /\ mail' = mail
        BY <1>7 DEF Stamp, boxVars
    <2>2. pass.draft \in Created /\ mail[pass.draft].touch = t /\ pass.draft # 0
        BY <2>1, GmailAssumption DEF PassInHand, Created, Drafts
    <2>3. draft' = draft \/ draft' = [draft EXCEPT ![t] = pass.draft]
        BY <1>7 DEF Stamp
    <2>4. \A u \in Touches : draft'[u] = draft[u] \/ (u = t /\ draft'[u] = pass.draft)
        BY <2>3 DEF TypeOK
    <2>5. DraftsOwned'
        BY <2>1, <2>2, <2>4 DEF DraftsOwned, Created
    <2>6. PassInHand'
        BY <2>1 DEF PassInHand, NextItem
    <2>7. JobsAreFresh'
        <3>1. pass'.pc = "items" /\ \A u \in Touches : pass'.jobs[u] # "none" =>
                 u # t /\ pass'.jobs[u] = pass.jobs[u]
            BY <2>1 DEF NextItem, TypeOK, Passes
        <3> QED BY <3>1, <2>4 DEF JobsAreFresh
    <2> QED BY <2>5, <2>6, <2>7
<1>8. ASSUME NEW d \in Drafts, EditBody(d) PROVE DraftsOwned' /\ PassInHand' /\ JobsAreFresh'
    BY <1>8, <1>a DEF EditBody, touchVars
<1>9. ASSUME NEW d \in Drafts, EditSubject(d) PROVE DraftsOwned' /\ PassInHand' /\ JobsAreFresh'
    BY <1>9, <1>a DEF EditSubject, touchVars
<1>10. ASSUME NEW d \in Drafts, Delete(d) PROVE DraftsOwned' /\ PassInHand' /\ JobsAreFresh'
    BY <1>10, <1>a DEF Delete, touchVars
<1>11. ASSUME NEW d \in Drafts, Send(d) PROVE DraftsOwned' /\ PassInHand' /\ JobsAreFresh'
    BY <1>11, <1>a DEF Send, touchVars
<1>12. ASSUME NEW d \in Drafts, FetchCopy(d) PROVE DraftsOwned' /\ PassInHand' /\ JobsAreFresh'
    BY <1>12, <1>a DEF FetchCopy, touchVars
<1>13. CASE StartPass
    <2>1. draft' = draft /\ pass'.pc = "items" /\ pass'.touches = {}
        BY <1>13 DEF StartPass, touchVars
    <2>2. \A t \in Touches : (pass'.jobs[t] = "create" => draft[t] = 0)
                              /\ (pass'.jobs[t] = "refresh" => draft[t] # 0)
        BY <1>13 DEF StartPass, Draftable, Existing
    <2> QED BY <2>1, <2>2, <1>d DEF PassInHand, JobsAreFresh
<1>14. CASE EndPass
    BY <1>14, <1>b DEF EndPass, touchVars, NoPass
<1>15. CASE PassFails
    <2>1. draft' = draft /\ (pass' = NoPass \/ \E t \in Touches : pass' = NextItem(t))
        BY <1>15 DEF PassFails, touchVars, TypeOK, Passes
    <2>2. CASE pass' = NoPass
        BY <2>1, <2>2, <1>b DEF NoPass
    <2> QED BY <2>1, <2>2, <1>c
<1>16. CASE Bootstrap
    BY <1>16, <1>a DEF Bootstrap, touchVars
<1>17. CASE ReadHistory
    BY <1>17, <1>a DEF ReadHistory, touchVars
<1>18. CASE record_send
    BY <1>18, <1>a DEF record_send, touchVars
<1>19. CASE save_watermark
    BY <1>19, <1>a DEF save_watermark, touchVars
<1>20. CASE record_body
    BY <1>20, <1>a DEF record_body, touchVars
<1>21. CASE EndCapture
    BY <1>21, <1>a DEF EndCapture, touchVars
<1>22. CASE CaptureFails
    BY <1>22, <1>a DEF CaptureFails, touchVars
<1>23. CASE UNCHANGED vars
    BY <1>23, <1>a DEF vars, touchVars
<1> QED
    BY <1>1, <1>2, <1>3, <1>4, <1>5, <1>6, <1>7, <1>8, <1>9, <1>10, <1>11, <1>12, <1>13, <1>14, <1>15, <1>16, <1>17, <1>18, <1>19, <1>20, <1>21, <1>22, <1>23 DEF Next

-----------------------------------------------------------------------------
(* The capture pass *)

\* Every step keeps the events, the copies and what is recorded about real sends.
LEMMA CaptureInvStep ==
    ASSUME IInv, [Next]_vars
    PROVE  EventsWereSent' /\ RecordedWasMailed'
<1> USE DEF IInv
<1>0. MailKeeps /\ MailType'
    BY MailStep
<1>s. \A d : Sent(d) => Sent(d)'
    BY <1>0 DEF Sent, MailKeeps
<1>m. \A t \in Touches : Mailed(t) => Mailed(t)'
    BY <1>0 DEF Mailed, MailKeeps, Created
<1>e. ASSUME history' = history, copies' = copies, capture' = capture PROVE EventsWereSent'
    BY <1>e, <1>s DEF EventsWereSent
<1>r. ASSUME sent' = sent, skipped' = skipped PROVE RecordedWasMailed'
    BY <1>r, <1>m DEF RecordedWasMailed
<1> HIDE DEF IInv
<1>i. /\ TypeOK /\ DraftsOwned /\ EventsWereSent /\ RecordedWasMailed
    BY DEF IInv
<1> USE <1>i
<1>1. ASSUME regenerate_packets PROVE EventsWereSent' /\ RecordedWasMailed'
    BY <1>1, <1>e, <1>r DEF regenerate_packets, touchVars, boxVars
<1>2. ASSUME NEW t \in Touches, Skip(t) PROVE EventsWereSent' /\ RecordedWasMailed'
    <2>1. sent' = sent /\ sent[t] = "none" /\ \A u \in Touches \ {t} : skipped'[u] = skipped[u]
        BY <1>2 DEF Skip, Live, TypeOK
    <2>2. RecordedWasMailed'
        BY <2>1, <1>m DEF RecordedWasMailed
    <2> QED BY <1>2, <2>2, <1>e DEF Skip, boxVars
<1>3. ASSUME NEW t \in Touches, create_draft(t) PROVE EventsWereSent' /\ RecordedWasMailed'
    BY <1>3, <1>e, <1>r DEF create_draft, touchVars, boxVars
<1>4. ASSUME NEW t \in Touches, LeaveDraft(t) PROVE EventsWereSent' /\ RecordedWasMailed'
    BY <1>4, <1>e, <1>r DEF LeaveDraft, touchVars, boxVars
<1>5. ASSUME NEW t \in Touches, FindUnedited(t) PROVE EventsWereSent' /\ RecordedWasMailed'
    BY <1>5, <1>e, <1>r DEF FindUnedited, touchVars, boxVars
<1>6. ASSUME NEW t \in Touches, update_draft(t) PROVE EventsWereSent' /\ RecordedWasMailed'
    BY <1>6, <1>e, <1>r DEF update_draft, touchVars, boxVars
<1>7. ASSUME NEW t \in Touches, Stamp(t) PROVE EventsWereSent' /\ RecordedWasMailed'
    BY <1>7, <1>e, <1>r DEF Stamp, touchVars, boxVars
<1>8. ASSUME NEW d \in Drafts, EditBody(d) PROVE EventsWereSent' /\ RecordedWasMailed'
    BY <1>8, <1>e, <1>r DEF EditBody, touchVars, boxVars
<1>9. ASSUME NEW d \in Drafts, EditSubject(d) PROVE EventsWereSent' /\ RecordedWasMailed'
    BY <1>9, <1>e, <1>r DEF EditSubject, touchVars, boxVars
<1>10. ASSUME NEW d \in Drafts, Delete(d) PROVE EventsWereSent' /\ RecordedWasMailed'
    BY <1>10, <1>e, <1>r DEF Delete, touchVars, boxVars
<1>11. ASSUME NEW d \in Drafts, Send(d) PROVE EventsWereSent' /\ RecordedWasMailed'
    <2>1. Sent(d)'
        BY <1>11, StateMail DEF Send, TypeOK, MailType
    <2>2. history' = Append(history, d) /\ copies' = copies \cup {d} /\ capture' = capture
        BY <1>11 DEF Send
    <2>3. \A i \in 1 .. Len(history') : Sent(history[i])'
        <3>1. Len(history') = Len(history) + 1 /\ Len(history) \in Nat
            BY <2>2 DEF TypeOK
        <3>2. \A i \in 1 .. Len(history) : history'[i] = history[i]
            BY <2>2 DEF TypeOK
        <3>3. history'[Len(history) + 1] = d
            BY <2>2 DEF TypeOK
        <3>4. ASSUME NEW i \in 1 .. Len(history') PROVE Sent(history[i])'
            <4>1. CASE i \in 1 .. Len(history)
                <5>1. PICK e \in Drafts : e = history[i]
                    BY <4>1 DEF EventsWereSent, Sent
                <5>2. Sent(e) /\ history'[i] = e
                    BY <4>1, <5>1, <3>2 DEF EventsWereSent
                <5>3. Sent(e)'
                    BY <5>2, <1>s
                <5> QED BY <5>2, <5>3 DEF Sent
            <4>2. CASE i = Len(history) + 1
                BY <4>2, <3>3, <2>1 DEF Sent
            <4> QED BY <4>1, <4>2, <3>1
        <3> QED BY <3>4
    <2>4. EventsWereSent'
        BY <2>1, <2>2, <2>3, <1>s DEF EventsWereSent, Sent
    <2>5. RecordedWasMailed'
        BY <1>11, <1>r DEF Send, touchVars
    <2> QED BY <2>4, <2>5
<1>12. ASSUME NEW d \in Drafts, FetchCopy(d) PROVE EventsWereSent' /\ RecordedWasMailed'
    <2>1. capture' = [capture EXCEPT !.pc = "body", !.at = d] /\ d \in copies
        BY <1>12 DEF FetchCopy
    <2>2. capture'.at = d
        BY <2>1 DEF TypeOK, Captures
    <2>3. history' = history /\ copies' \subseteq copies
        BY <1>12 DEF FetchCopy
    <2>4. EventsWereSent'
        BY <2>1, <2>2, <2>3, <1>s DEF EventsWereSent
    <2> QED BY <1>12, <2>4, <1>r DEF FetchCopy, touchVars
<1>13. CASE StartPass
    BY <1>13, <1>e, <1>r DEF StartPass, touchVars, boxVars
<1>14. CASE EndPass
    BY <1>14, <1>e, <1>r DEF EndPass, touchVars, boxVars
<1>15. CASE PassFails
    BY <1>15, <1>e, <1>r DEF PassFails, touchVars, boxVars
<1>16. CASE Bootstrap
    <2>1. capture'.pc # "body" /\ history' = history /\ copies' = copies
        BY <1>16 DEF Bootstrap, boxVars, NoCapture, TypeOK, Captures
    <2>2. EventsWereSent'
        BY <2>1, <1>s DEF EventsWereSent
    <2> QED BY <1>16, <2>2, <1>r DEF Bootstrap, touchVars
<1>17. CASE ReadHistory
    <2>1. capture'.pc # "body" /\ history' = history /\ copies' = copies
        BY <1>17 DEF ReadHistory, boxVars, NoCapture, TypeOK, Captures
    <2>2. EventsWereSent'
        BY <2>1, <1>s DEF EventsWereSent
    <2> QED BY <1>17, <2>2, <1>r DEF ReadHistory, touchVars
<1>18. CASE record_send
    <2>1. mail' = mail /\ history' = history /\ copies' = copies /\ skipped' = skipped
        BY <1>18 DEF record_send, boxVars
    <2>2. capture'.pc # "body"
        <3>1. capture' = [capture EXCEPT !.at = @ + 1] \/ capture' = NoCapture
            BY <1>18 DEF record_send
        <3>2. capture.pc = "events"
            BY <1>18 DEF record_send
        <3>3. CASE capture' = [capture EXCEPT !.at = @ + 1]
            BY <3>2, <3>3 DEF TypeOK, Captures
        <3>4. CASE capture' = NoCapture
            BY <3>4 DEF NoCapture
        <3> QED BY <3>1, <3>3, <3>4
    <2>3. EventsWereSent'
        BY <2>1, <2>2, <1>s DEF EventsWereSent
    <2>4. sent' = sent \/ \E t \in Touches : t \in correlate(history[capture.at]) /\ ~skipped[t]
                                      /\ sent' = [sent EXCEPT ![t] = "gmail_api"]
        BY <1>18 DEF record_send, correlate
    <2>5. ASSUME NEW t \in Touches, t \in correlate(history[capture.at]), ~skipped[t],
                 sent' = [sent EXCEPT ![t] = "gmail_api"]
          PROVE  RecordedWasMailed'
        <3>1. capture.at \in 1 .. Len(history)
            BY <1>18 DEF record_send, TypeOK, Captures
        <3>2. Sent(history[capture.at]) /\ draft[t] = history[capture.at]
            BY <3>1, <2>5 DEF EventsWereSent, correlate
        <3>3. draft[t] # 0
            BY <3>2, GmailAssumption DEF Sent, Drafts
        <3>4. Mailed(t)
            BY <3>2, <3>3 DEF DraftsOwned, Mailed, Sent
        <3>5. \A u \in Touches \ {t} : sent'[u] = sent[u]
            BY <2>5 DEF TypeOK
        <3> QED BY <2>1, <2>5, <3>4, <3>5, <1>m DEF RecordedWasMailed
    <2> QED BY <2>1, <2>3, <2>4, <2>5, <1>r
<1>19. CASE save_watermark
    <2>1. capture'.pc # "body" /\ history' = history /\ copies' = copies
        BY <1>19 DEF save_watermark, boxVars, NoCapture, TypeOK, Captures
    <2>2. EventsWereSent'
        BY <2>1, <1>s DEF EventsWereSent
    <2> QED BY <1>19, <2>2, <1>r DEF save_watermark, touchVars
<1>20. CASE record_body
    <2> DEFINE t == mail[capture.at].touch
    <2>1. mail' = mail /\ history' = history /\ copies' = copies /\ skipped' = skipped
        BY <1>20 DEF record_body, boxVars
    <2>2. capture'.pc # "body"
        BY <1>20 DEF record_body, NoCapture
    <2>3. EventsWereSent'
        BY <2>1, <2>2, <1>s DEF EventsWereSent
    <2>4. Sent(capture.at)
        BY <1>20 DEF record_body, EventsWereSent
    <2>5. t \in Touches /\ Mailed(t)
        BY <2>4, MailFields DEF Sent, Mailed, Created, TypeOK, MailType
    <2>6. sent' = sent \/ (~skipped[t] /\ sent' = [sent EXCEPT ![t] = IF @ = "none" THEN "bcc" ELSE @])
        BY <1>20 DEF record_body
    <2> HIDE DEF t
    <2>7. ASSUME ~skipped[t], sent' = [sent EXCEPT ![t] = IF @ = "none" THEN "bcc" ELSE @]
          PROVE  RecordedWasMailed'
        <3>1. \A u \in Touches \ {t} : sent'[u] = sent[u]
            BY <2>7 DEF TypeOK
        <3> QED BY <2>1, <2>5, <2>7, <3>1, <1>m DEF RecordedWasMailed
    <2> QED BY <2>1, <2>3, <2>6, <2>7, <1>r
<1>21. CASE EndCapture
    <2>1. capture'.pc # "body" /\ history' = history /\ copies' = copies
        BY <1>21 DEF EndCapture, boxVars, NoCapture, TypeOK, Captures
    <2>2. EventsWereSent'
        BY <2>1, <1>s DEF EventsWereSent
    <2> QED BY <1>21, <2>2, <1>r DEF EndCapture, touchVars
<1>22. CASE CaptureFails
    <2>1. capture'.pc # "body" /\ history' = history /\ copies' = copies
        BY <1>22 DEF CaptureFails, boxVars, NoCapture, TypeOK, Captures
    <2>2. EventsWereSent'
        BY <2>1, <1>s DEF EventsWereSent
    <2> QED BY <1>22, <2>2, <1>r DEF CaptureFails, touchVars
<1>23. CASE UNCHANGED vars
    BY <1>23, <1>e, <1>r DEF vars, touchVars, boxVars
<1> QED
    BY <1>1, <1>2, <1>3, <1>4, <1>5, <1>6, <1>7, <1>8, <1>9, <1>10, <1>11, <1>12, <1>13, <1>14, <1>15, <1>16, <1>17, <1>18, <1>19, <1>20, <1>21, <1>22, <1>23 DEF Next

-----------------------------------------------------------------------------
(* The theorems *)

\* The strengthened invariant is inductive.
LEMMA IInvStep == IInv /\ [Next]_vars => IInv'
BY TypeStep, MailStep, PassStep, CaptureInvStep DEF IInv

\* So it always holds.
LEMMA IInvHolds == Spec => []IInv
<1>1. Init => IInv
    BY IInvInit
<1>2. IInv /\ [Next]_vars => IInv'
    BY IInvStep
<1> QED BY <1>1, <1>2, PTL DEF Spec

\* Every variable keeps its type, and neither the watermark nor a pass under way
\* is ever past the end of the mailbox history.
THEOREM TypeCorrect == Spec => []TypeOK
<1>1. IInv => TypeOK
    BY DEF IInv
<1> QED BY <1>1, IInvHolds, PTL

\* Only a touch one of whose own drafts really went out is marked sent, by
\* record_send or record_body, and never a skipped one.
THEOREM OnlySendsAreRecorded == Spec => []RecordedWasMailed
<1>1. IInv => RecordedWasMailed
    BY DEF IInv
<1> QED BY <1>1, IInvHolds, PTL

-----------------------------------------------------------------------------
(* Create-once and the operator's edits *)

KnownStays ==
    \A u \in Touches : draft[u] # 0 =>
       /\ draft'[u] = draft[u]
       /\ \A e \in Drafts : mail[e] = NoDraft /\ mail'[e] # NoDraft => mail'[e].touch # u

\* No step replaces a known draft or creates one for a touch that has one.
LEMMA DraftStep ==
    ASSUME IInv, [Next]_vars
    PROVE  KnownStays
<1>i. /\ TypeOK /\ DraftsInOrder /\ PassInHand /\ JobsAreFresh
    BY DEF IInv
<1> USE <1>i DEF KnownStays
<1>k. ASSUME draft' = draft, Created' = Created PROVE KnownStays
    BY <1>k DEF Created
<1>1. ASSUME regenerate_packets PROVE KnownStays
    BY <1>1, <1>k DEF regenerate_packets, touchVars, boxVars, Created
<1>2. ASSUME NEW t \in Touches, Skip(t) PROVE KnownStays
    BY <1>2, <1>k DEF Skip, touchVars, boxVars, Created
<1>3. ASSUME NEW t \in Touches, create_draft(t) PROVE KnownStays
    <2> DEFINE d == Cardinality(Created) + 1
               m == [touch |-> t, body |-> pass.texts[t], subject |-> pass.texts[t],
                     state |-> "draft"]
    <2>1. m \in Mails /\ m.touch = t
        BY GmailAssumption DEF Mails, TypeOK, Passes, Texts, Own
    <2>2. mail' = [mail EXCEPT ![d] = m] /\ Cardinality(Created) < MaxDrafts
        BY <1>3 DEF create_draft
    <2>3. draft' = draft /\ draft[t] = 0
        BY <1>3 DEF create_draft, touchVars, JobsAreFresh
    <2> HIDE DEF d, m
    <2>4. mail'[d] = m /\ \A e \in Drafts \ {d} : mail'[e] = mail[e]
        <3>1. d = Cardinality(Created) + 1
            BY DEF d
        <3> QED BY <2>1, <2>2, <3>1, NewMail DEF TypeOK, MailType
    <2> QED BY <2>1, <2>3, <2>4
<1>4. ASSUME NEW t \in Touches, LeaveDraft(t) PROVE KnownStays
    BY <1>4, <1>k DEF LeaveDraft, touchVars, boxVars, Created
<1>5. ASSUME NEW t \in Touches, FindUnedited(t) PROVE KnownStays
    BY <1>5, <1>k DEF FindUnedited, touchVars, boxVars, Created
<1>6. ASSUME NEW t \in Touches, update_draft(t) PROVE KnownStays
    <2>1. draft' = draft /\ pass.draft \in Created
        BY <1>6 DEF update_draft, touchVars, PassInHand
    <2>2. CASE ~InBox(pass.draft)
        BY <1>6, <2>1, <2>2, <1>k DEF update_draft
    <2>3. CASE InBox(pass.draft)
        <3>1. pass.texts[t] \in Texts
            BY DEF TypeOK, Passes, Texts, Own
        <3>2. mail' = [mail EXCEPT ![pass.draft].body = pass.texts[t],
                                   ![pass.draft].subject = pass.texts[t]]
            BY <1>6, <2>3 DEF update_draft
        <3>3. Created' = Created
            BY <2>1, <2>3, <3>1, <3>2, RewriteMail DEF TypeOK, MailType, Created
        <3> QED BY <2>1, <3>3, <1>k
    <2> QED BY <2>2, <2>3
<1>7. ASSUME NEW t \in Touches, Stamp(t) PROVE KnownStays
    <2>1. mail' = mail /\ pass.pc = "stamp" /\ pass.touches = {t}
        BY <1>7 DEF Stamp, boxVars
    <2>2. draft' = draft \/ draft' = [draft EXCEPT ![t] = pass.draft]
        BY <1>7 DEF Stamp
    <2>3. \A u \in Touches : draft[u] # 0 => draft'[u] = draft[u]
        BY <2>1, <2>2 DEF TypeOK, JobsAreFresh
    <2> QED BY <2>1, <2>3
<1>8. ASSUME NEW d \in Drafts, EditBody(d) PROVE KnownStays
    BY <1>8, <1>k, EditBodyMail DEF EditBody, touchVars, TypeOK, MailType
<1>9. ASSUME NEW d \in Drafts, EditSubject(d) PROVE KnownStays
    BY <1>9, <1>k, EditSubjectMail DEF EditSubject, touchVars, TypeOK, MailType
<1>10. ASSUME NEW d \in Drafts, Delete(d) PROVE KnownStays
    BY <1>10, <1>k, StateMail DEF Delete, touchVars, TypeOK, MailType
<1>11. ASSUME NEW d \in Drafts, Send(d) PROVE KnownStays
    BY <1>11, <1>k, StateMail DEF Send, touchVars, TypeOK, MailType
<1>12. ASSUME NEW d \in Drafts, FetchCopy(d) PROVE KnownStays
    BY <1>12, <1>k DEF FetchCopy, touchVars, boxVars, Created
<1>13. CASE StartPass
    BY <1>13, <1>k DEF StartPass, touchVars, boxVars, Created
<1>14. CASE EndPass
    BY <1>14, <1>k DEF EndPass, touchVars, boxVars, Created
<1>15. CASE PassFails
    BY <1>15, <1>k DEF PassFails, touchVars, boxVars, Created
<1>16. CASE Bootstrap
    BY <1>16, <1>k DEF Bootstrap, touchVars, boxVars, Created
<1>17. CASE ReadHistory
    BY <1>17, <1>k DEF ReadHistory, touchVars, boxVars, Created
<1>18. CASE record_send
    BY <1>18, <1>k DEF record_send, touchVars, boxVars, Created
<1>19. CASE save_watermark
    BY <1>19, <1>k DEF save_watermark, touchVars, boxVars, Created
<1>20. CASE record_body
    BY <1>20, <1>k DEF record_body, touchVars, boxVars, Created
<1>21. CASE EndCapture
    BY <1>21, <1>k DEF EndCapture, touchVars, boxVars, Created
<1>22. CASE CaptureFails
    BY <1>22, <1>k DEF CaptureFails, touchVars, boxVars, Created
<1>23. CASE UNCHANGED vars
    BY <1>23, <1>k DEF vars, touchVars, boxVars, Created
<1> QED
    BY <1>1, <1>2, <1>3, <1>4, <1>5, <1>6, <1>7, <1>8, <1>9, <1>10, <1>11, <1>12, <1>13, <1>14, <1>15, <1>16, <1>17, <1>18, <1>19, <1>20, <1>21, <1>22, <1>23 DEF Next

\* No step takes away a body edit that no pass had in hand when it was made.
LEMMA EditStep ==
    ASSUME IInv, [Next]_vars, NEW u \in Touches, HeldEdit(u)
    PROVE  HeldEdit(u)'
<1>i. /\ TypeOK /\ DraftsInOrder /\ DraftsOwned /\ PassInHand /\ JobsAreFresh
    BY DEF IInv
<1>0. MailKeeps
    BY <1>i, MailStep
<1>j. draft[u] \in Drafts
    BY GmailAssumption, <1>i DEF HeldEdit, TypeOK, Drafts
<1> USE <1>i, <1>j
<1>h. ASSUME draft'[u] = draft[u], hash'[u] = hash[u], mail'[draft[u]].body = Own,
             u \notin pass'.touches
      PROVE  HeldEdit(u)'
    BY <1>h, <1>0 DEF HeldEdit, MailKeeps
<1>1. ASSUME regenerate_packets PROVE HeldEdit(u)'
    BY <1>1, <1>h DEF HeldEdit, regenerate_packets, touchVars, boxVars
<1>2. ASSUME NEW t \in Touches, Skip(t) PROVE HeldEdit(u)'
    BY <1>2, <1>h DEF HeldEdit, Skip, touchVars, boxVars
<1>3. ASSUME NEW t \in Touches, create_draft(t) PROVE HeldEdit(u)'
    <2> DEFINE d == Cardinality(Created) + 1
               m == [touch |-> t, body |-> pass.texts[t], subject |-> pass.texts[t],
                     state |-> "draft"]
    <2>1. m \in Mails
        BY GmailAssumption DEF Mails, TypeOK, Passes, Texts, Own
    <2>2. mail' = [mail EXCEPT ![d] = m] /\ Cardinality(Created) < MaxDrafts
        BY <1>3 DEF create_draft
    <2>3. pass' = [pass EXCEPT !.pc = "stamp", !.draft = d, !.touches = {t}]
        BY <1>3 DEF create_draft
    <2>4. hash' = hash /\ draft' = draft /\ draft[t] = 0
        BY <1>3 DEF create_draft, touchVars, JobsAreFresh
    <2> HIDE DEF d, m
    <2>5. mail[d] = NoDraft /\ \A e \in Drafts \ {d} : mail'[e] = mail[e]
        <3>1. d = Cardinality(Created) + 1
            BY DEF d
        <3> QED BY <2>1, <2>2, <3>1, NewMail DEF TypeOK, MailType
    <2>6. u # t /\ mail'[draft[u]] = mail[draft[u]]
        BY <2>4, <2>5 DEF HeldEdit
    <2>7. u \notin pass'.touches
        BY <2>3, <2>6 DEF TypeOK, Passes
    <2> QED BY <2>4, <2>6, <2>7, <1>h DEF HeldEdit
<1>4. ASSUME NEW t \in Touches, LeaveDraft(t) PROVE HeldEdit(u)'
    BY <1>4, <1>h DEF HeldEdit, LeaveDraft, touchVars, boxVars, NextItem, NoPass
<1>5. ASSUME NEW t \in Touches, FindUnedited(t) PROVE HeldEdit(u)'
    <2>1. pass' = [pass EXCEPT !.pc = "update", !.draft = draft[t], !.touches = {t}]
        BY <1>5 DEF FindUnedited
    <2>2. u # t
        BY <1>5 DEF FindUnedited, Unedited, HeldEdit
    <2>3. u \notin pass'.touches
        BY <2>1, <2>2 DEF TypeOK, Passes
    <2> QED BY <1>5, <2>3, <1>h DEF FindUnedited, touchVars, boxVars, HeldEdit
<1>6. ASSUME NEW t \in Touches, update_draft(t) PROVE HeldEdit(u)'
    <2>1. draft' = draft /\ hash' = hash /\ pass.draft \in Created /\ pass.touches = {t}
                                  /\ mail[pass.draft].touch = t
        BY <1>6 DEF update_draft, touchVars, PassInHand
    <2>2. draft[u] # pass.draft
        BY <2>1 DEF HeldEdit, DraftsOwned
    <2>3. mail'[draft[u]] = mail[draft[u]]
        <3>1. CASE ~InBox(pass.draft)
            BY <1>6, <3>1 DEF update_draft
        <3>2. CASE InBox(pass.draft)
            <4>1. pass.texts[t] \in Texts
                BY DEF TypeOK, Passes, Texts, Own
            <4>2. mail' = [mail EXCEPT ![pass.draft].body = pass.texts[t],
                                       ![pass.draft].subject = pass.texts[t]]
                BY <1>6, <3>2 DEF update_draft
            <4>3. \A e \in Drafts \ {pass.draft} : mail'[e] = mail[e]
                BY <2>1, <3>2, <4>1, <4>2, RewriteMail DEF TypeOK, MailType, Created
            <4> QED BY <2>2, <4>3
        <3> QED BY <3>1, <3>2
    <2>4. pass'.touches \subseteq pass.touches
        <3>1. pass' = NextItem(t) \/ pass' = [pass EXCEPT !.pc = "stamp"]
            BY <1>6 DEF update_draft
        <3>2. NextItem(t).touches = {}
            BY DEF NextItem
        <3>3. CASE pass' = [pass EXCEPT !.pc = "stamp"]
            BY <3>3 DEF TypeOK, Passes
        <3> QED BY <3>1, <3>2, <3>3
    <2> QED BY <2>1, <2>3, <2>4, <1>h DEF HeldEdit
<1>7. ASSUME NEW t \in Touches, Stamp(t) PROVE HeldEdit(u)'
    <2>1. pass' = NextItem(t) /\ pass.touches = {t} /\ mail' = mail
        BY <1>7 DEF Stamp, boxVars
    <2>2. u # t
        BY <2>1 DEF HeldEdit
    <2>3. draft' \in {draft, [draft EXCEPT ![t] = pass.draft]}
          /\ hash' \in {hash, [hash EXCEPT ![t] = mail[pass.draft].body]}
        BY <1>7 DEF Stamp
    <2>4. draft'[u] = draft[u] /\ hash'[u] = hash[u]
        BY <2>2, <2>3 DEF TypeOK
    <2> QED BY <2>1, <2>4, <1>h DEF NextItem, HeldEdit
<1>8. ASSUME NEW d \in Drafts, EditBody(d) PROVE HeldEdit(u)'
    <2>1. mail' = [mail EXCEPT ![d].body = Own]
        BY <1>8 DEF EditBody
    <2>2. \A e \in Drafts : mail[e] # NoDraft /\ mail[e].body = Own => mail'[e].body = Own
        BY <1>8, <2>1, MailFields DEF EditBody, InBox, TypeOK, MailType, Mails
    <2> QED BY <1>8, <2>2, <1>h DEF HeldEdit, EditBody, touchVars
<1>9. ASSUME NEW d \in Drafts, EditSubject(d) PROVE HeldEdit(u)'
    <2>1. mail' = [mail EXCEPT ![d].subject = Own] /\ d \in Drafts /\ InBox(d)
        BY <1>9 DEF EditSubject
    <2>2. \A e \in Drafts : mail[e] # NoDraft => mail'[e].body = mail[e].body
        BY <2>1, MailFields DEF TypeOK, MailType, InBox, Mails
    <2> QED BY <1>9, <2>2, <1>h DEF HeldEdit, EditSubject, touchVars
<1>10. ASSUME NEW d \in Drafts, Delete(d) PROVE HeldEdit(u)'
    <2>1. mail' = [mail EXCEPT ![d].state = "gone"] /\ d \in Drafts /\ InBox(d)
        BY <1>10 DEF Delete
    <2>2. \A e \in Drafts : mail[e] # NoDraft => mail'[e].body = mail[e].body
        BY <2>1, MailFields DEF TypeOK, MailType, InBox, Mails
    <2> QED BY <1>10, <2>2, <1>h DEF HeldEdit, Delete, touchVars
<1>11. ASSUME NEW d \in Drafts, Send(d) PROVE HeldEdit(u)'
    <2>1. mail' = [mail EXCEPT ![d].state = "sent"] /\ d \in Drafts /\ InBox(d)
        BY <1>11 DEF Send
    <2>2. \A e \in Drafts : mail[e] # NoDraft => mail'[e].body = mail[e].body
        BY <2>1, MailFields DEF TypeOK, MailType, InBox, Mails
    <2> QED BY <1>11, <2>2, <1>h DEF HeldEdit, Send, touchVars
<1>12. ASSUME NEW d \in Drafts, FetchCopy(d) PROVE HeldEdit(u)'
    BY <1>12, <1>h DEF HeldEdit, FetchCopy, touchVars, boxVars
<1>13. CASE StartPass
    BY <1>13, <1>h DEF HeldEdit, StartPass, touchVars, boxVars, NextItem, NoPass
<1>14. CASE EndPass
    BY <1>14, <1>h DEF HeldEdit, EndPass, touchVars, boxVars, NextItem, NoPass
<1>15. CASE PassFails
    <2>1. pass' = NoPass \/ \E t \in Touches : pass' = NextItem(t)
        BY <1>15 DEF PassFails, TypeOK, Passes
    <2>2. pass'.touches = {}
        BY <2>1 DEF NoPass, NextItem
    <2> QED BY <1>15, <2>2, <1>h DEF HeldEdit, PassFails, touchVars, boxVars
<1>16. CASE Bootstrap
    BY <1>16, <1>h DEF HeldEdit, Bootstrap, touchVars, boxVars
<1>17. CASE ReadHistory
    BY <1>17, <1>h DEF HeldEdit, ReadHistory, touchVars, boxVars
<1>18. CASE record_send
    BY <1>18, <1>h DEF HeldEdit, record_send, touchVars, boxVars
<1>19. CASE save_watermark
    BY <1>19, <1>h DEF HeldEdit, save_watermark, touchVars, boxVars
<1>20. CASE record_body
    BY <1>20, <1>h DEF HeldEdit, record_body, touchVars, boxVars
<1>21. CASE EndCapture
    BY <1>21, <1>h DEF HeldEdit, EndCapture, touchVars, boxVars
<1>22. CASE CaptureFails
    BY <1>22, <1>h DEF HeldEdit, CaptureFails, touchVars, boxVars
<1>23. CASE UNCHANGED vars
    BY <1>23, <1>h DEF vars, touchVars, boxVars, HeldEdit
<1> QED
    BY <1>1, <1>2, <1>3, <1>4, <1>5, <1>6, <1>7, <1>8, <1>9, <1>10, <1>11, <1>12, <1>13, <1>14, <1>15, <1>16, <1>17, <1>18, <1>19, <1>20, <1>21, <1>22, <1>23 DEF Next

-----------------------------------------------------------------------------
(* The action properties *)

\* Create-once: a touch's known draft stays its draft, and no pass of run makes
\* another one for it.
THEOREM DraftsAreNotDoubled == Spec => NoSecondDraft
<1>1. IInv /\ [Next]_vars =>
        [\A t \in Touches : draft[t] # 0 =>
           /\ draft'[t] = draft[t]
           /\ \A d \in Drafts : mail[d] = NoDraft /\ mail'[d] # NoDraft =>
                 mail'[d].touch # t]_vars
    BY DraftStep DEF KnownStays
<1> QED BY <1>1, IInvHolds, PTL DEF Spec, NoSecondDraft

\* The operator's body edit, on a draft that no pass has in hand, is never taken
\* in hand, rewritten or stamped over by refresh_draft.
THEOREM EditsOutsideAPassSurvive == Spec => BodyEditsSurvive
<1>1. IInv /\ [Next]_vars =>
        [\A t \in Touches : HeldEdit(t) => HeldEdit(t)']_vars
    BY EditStep
<1> QED BY <1>1, IInvHolds, PTL DEF Spec, BodyEditsSurvive

-----------------------------------------------------------------------------
(* Stamps, and copies of what was sent                                     *)

\* The stamp of a known draft that no pass has in hand is of its text, or the
\* text is the operator's.
Stamped(u) ==
    draft[u] # 0 /\ InBox(draft[u]) /\ u \notin pass.touches =>
        mail[draft[u]].body \in {hash[u], Own}

\* Without a failure a step leaves the stamps current: what a pass writes it has
\* in hand until it is stamped, and what leaves the Drafts folder does not return.
LEMMA StampStep ==
    ASSUME IInv, [Next]_vars, NEW u \in Touches, Stamped(u), faults' = faults
    PROVE  Stamped(u)'
<1>i. /\ TypeOK /\ DraftsInOrder /\ DraftsOwned /\ PassInHand /\ JobsAreFresh
    BY DEF IInv
<1> USE <1>i
<1>j. draft[u] # 0 => draft[u] \in Drafts
    BY GmailAssumption DEF TypeOK, Drafts
<1>k. MailType
    BY DEF TypeOK, MailType
<1>h. ASSUME draft'[u] = draft[u], hash'[u] = hash[u],
             u \in pass.touches => u \in pass'.touches \/ draft[u] = 0 \/ ~InBox(draft[u])',
             draft[u] # 0 /\ InBox(draft[u])' =>
                 InBox(draft[u]) /\ mail'[draft[u]].body \in {mail[draft[u]].body, Own}
      PROVE  Stamped(u)'
    BY <1>h DEF Stamped, InBox
<1>s. ASSUME draft' = draft, hash' = hash, pass'.touches = pass.touches, mail' = mail
      PROVE  Stamped(u)'
    BY <1>s DEF Stamped, InBox
<1>1. ASSUME regenerate_packets PROVE Stamped(u)'
    BY <1>1, <1>s DEF regenerate_packets, boxVars
<1>2. ASSUME NEW t \in Touches, Skip(t) PROVE Stamped(u)'
    BY <1>2, <1>s DEF Skip, boxVars
<1>3. ASSUME NEW t \in Touches, create_draft(t) PROVE Stamped(u)'
    <2> DEFINE d == Cardinality(Created) + 1
               m == [touch |-> t, body |-> pass.texts[t], subject |-> pass.texts[t],
                     state |-> "draft"]
    <2>1. m \in Mails
        BY GmailAssumption DEF Mails, TypeOK, Passes, Texts, Own
    <2>2. mail' = [mail EXCEPT ![d] = m] /\ Cardinality(Created) < MaxDrafts
        BY <1>3 DEF create_draft
    <2>3. hash' = hash /\ draft' = draft /\ draft[t] = 0 /\ pass.pc = "items"
        BY <1>3 DEF create_draft, touchVars, JobsAreFresh
    <2> HIDE DEF d, m
    <2>4. mail[d] = NoDraft /\ \A e \in Drafts \ {d} : mail'[e] = mail[e]
        <3>1. d = Cardinality(Created) + 1
            BY DEF d
        <3> QED BY <2>1, <2>2, <3>1, <1>k, NewMail
    <2>5. draft[u] # 0 => mail'[draft[u]] = mail[draft[u]]
        BY <2>4, <1>j DEF DraftsOwned, Created
    <2>6. pass.touches = {}
        BY <2>3 DEF PassInHand
    <2> QED BY <2>3, <2>5, <2>6, <1>h DEF InBox
<1>4. ASSUME NEW t \in Touches, LeaveDraft(t) PROVE Stamped(u)'
    <2>1. pass.touches = {} /\ pass'.touches = {}
        BY <1>4 DEF LeaveDraft, Refreshing, PassInHand, NextItem
    <2> QED BY <1>4, <2>1, <1>s DEF LeaveDraft, touchVars, boxVars
<1>5. ASSUME NEW t \in Touches, FindUnedited(t) PROVE Stamped(u)'
    <2>1. pass.touches = {}
        BY <1>5 DEF FindUnedited, Refreshing, PassInHand
    <2>2. draft' = draft /\ hash' = hash /\ mail' = mail
        BY <1>5 DEF FindUnedited, touchVars, boxVars
    <2> QED BY <2>1, <2>2, <1>h DEF InBox
<1>6. ASSUME NEW t \in Touches, update_draft(t) PROVE Stamped(u)'
    <2>1. /\ draft' = draft /\ hash' = hash /\ pass.draft \in Created
          /\ pass.touches = {t} /\ mail[pass.draft].touch = t /\ pass.pc = "update"
        BY <1>6 DEF update_draft, touchVars, PassInHand
    <2>2. draft[t] # 0 => draft[t] = pass.draft
        BY <2>1 DEF JobsAreFresh
    <2>3. CASE ~InBox(pass.draft)
        BY <1>6, <2>1, <2>2, <2>3, <1>h DEF update_draft, InBox
    <2>4. CASE InBox(pass.draft)
        <3>1. pass.texts[t] \in Texts
            BY DEF TypeOK, Passes, Texts, Own
        <3>2. mail' = [mail EXCEPT ![pass.draft].body = pass.texts[t],
                                   ![pass.draft].subject = pass.texts[t]]
            BY <1>6, <2>4 DEF update_draft
        <3>3. \A e \in Drafts \ {pass.draft} : mail'[e] = mail[e]
            BY <2>1, <2>4, <3>1, <3>2, <1>k, RewriteMail DEF Created
        <3>4. pass' = [pass EXCEPT !.pc = "stamp"]
            BY <1>6, <2>4 DEF update_draft
        <3>5. pass'.touches = pass.touches
            BY <3>4 DEF TypeOK, Passes
        <3>6. CASE u = t
            BY <3>5, <3>6, <2>1 DEF Stamped
        <3>7. CASE u # t
            <4>1. draft[u] # 0 => draft[u] # pass.draft
                BY <2>1, <3>7 DEF DraftsOwned
            <4>2. draft[u] # 0 => mail'[draft[u]] = mail[draft[u]]
                BY <4>1, <3>3, <1>j
            <4> QED BY <2>1, <3>5, <4>2, <1>h DEF InBox
        <3> QED BY <3>6, <3>7
    <2> QED BY <2>3, <2>4
<1>7. ASSUME NEW t \in Touches, Stamp(t) PROVE Stamped(u)'
    <2>1. pass.touches = {t} /\ mail' = mail /\ pass.pc = "stamp"
        BY <1>7 DEF Stamp, boxVars
    <2>2. draft[t] # 0 => draft[t] = pass.draft
        BY <2>1 DEF JobsAreFresh
    <2>3. CASE ~InBox(pass.draft)
        BY <1>7, <2>1, <2>2, <2>3, <1>h DEF Stamp, InBox
    <2>4. CASE InBox(pass.draft)
        <3>1. /\ draft' = [draft EXCEPT ![t] = pass.draft]
              /\ hash' = [hash EXCEPT ![t] = mail[pass.draft].body]
            BY <1>7, <2>4 DEF Stamp
        <3>2. CASE u = t
            BY <3>1, <3>2, <2>1 DEF Stamped, TypeOK
        <3>3. CASE u # t
            <4>1. draft'[u] = draft[u] /\ hash'[u] = hash[u] /\ u \notin pass.touches
                BY <3>1, <3>3, <2>1 DEF TypeOK
            <4> QED BY <4>1, <2>1, <1>h DEF InBox
        <3> QED BY <3>2, <3>3
    <2> QED BY <2>3, <2>4
<1>e. ASSUME NEW d \in Drafts, InBox(d), draft' = draft, hash' = hash, pass' = pass,
             NEW m, mail' = [mail EXCEPT ![d] = m], m.body \in {mail[d].body, Own}
      PROVE  Stamped(u)'
    <2>1. draft[u] # 0 /\ InBox(draft[u])' =>
              InBox(draft[u]) /\ mail'[draft[u]].body \in {mail[draft[u]].body, Own}
        BY <1>e, <1>j, <1>k DEF InBox, MailType
    <2> QED BY <1>e, <2>1, <1>h
<1>8. ASSUME NEW d \in Drafts, EditBody(d) PROVE Stamped(u)'
    <2> DEFINE m == [mail[d] EXCEPT !.body = Own]
    <2>1. m.body = Own
        BY <1>8, <1>k, MailFields DEF EditBody, InBox, Mails
    <2>2. mail' = [mail EXCEPT ![d] = m]
        BY <1>8 DEF EditBody
    <2> HIDE DEF m
    <2> QED BY <1>8, <1>e, <2>1, <2>2 DEF EditBody, touchVars
<1>9. ASSUME NEW d \in Drafts, EditSubject(d) PROVE Stamped(u)'
    <2> DEFINE m == [mail[d] EXCEPT !.subject = Own]
    <2>1. m.body = mail[d].body
        BY <1>9, <1>k, MailFields DEF EditSubject, InBox, Mails
    <2>2. mail' = [mail EXCEPT ![d] = m]
        BY <1>9 DEF EditSubject
    <2> HIDE DEF m
    <2> QED BY <1>9, <1>e, <2>1, <2>2 DEF EditSubject, touchVars
<1>10. ASSUME NEW d \in Drafts, Delete(d) PROVE Stamped(u)'
    <2> DEFINE m == [mail[d] EXCEPT !.state = "gone"]
    <2>1. m.body = mail[d].body
        BY <1>10, <1>k, MailFields DEF Delete, InBox, Mails
    <2>2. mail' = [mail EXCEPT ![d] = m]
        BY <1>10 DEF Delete
    <2> HIDE DEF m
    <2> QED BY <1>10, <1>e, <2>1, <2>2 DEF Delete, touchVars
<1>11. ASSUME NEW d \in Drafts, Send(d) PROVE Stamped(u)'
    <2> DEFINE m == [mail[d] EXCEPT !.state = "sent"]
    <2>1. m.body = mail[d].body
        BY <1>11, <1>k, MailFields DEF Send, InBox, Mails
    <2>2. mail' = [mail EXCEPT ![d] = m]
        BY <1>11 DEF Send
    <2> HIDE DEF m
    <2> QED BY <1>11, <1>e, <2>1, <2>2 DEF Send, touchVars
<1>12. ASSUME NEW d \in Drafts, FetchCopy(d) PROVE Stamped(u)'
    BY <1>12, <1>s DEF FetchCopy, touchVars
<1>13. CASE StartPass
    <2>1. pass.touches = {} /\ pass'.touches = {}
        BY <1>13 DEF StartPass, PassInHand
    <2> QED BY <1>13, <2>1, <1>s DEF StartPass, touchVars, boxVars
<1>14. CASE EndPass
    <2>1. pass.touches = {} /\ pass'.touches = {}
        BY <1>14 DEF EndPass, PassInHand, NoPass
    <2> QED BY <1>14, <2>1, <1>s DEF EndPass, touchVars, boxVars
<1>15. CASE PassFails
    BY <1>15, GmailAssumption DEF PassFails, TypeOK
<1>16. CASE Bootstrap
    BY <1>16, <1>s DEF Bootstrap, touchVars, boxVars
<1>17. CASE ReadHistory
    BY <1>17, <1>s DEF ReadHistory, touchVars, boxVars
<1>18. CASE record_send
    BY <1>18, <1>s DEF record_send, boxVars
<1>19. CASE save_watermark
    BY <1>19, <1>s DEF save_watermark, touchVars, boxVars
<1>20. CASE record_body
    BY <1>20, <1>s DEF record_body, boxVars
<1>21. CASE EndCapture
    BY <1>21, <1>s DEF EndCapture, touchVars, boxVars
<1>22. CASE CaptureFails
    BY <1>22, <1>s DEF CaptureFails, touchVars, boxVars
<1>23. CASE UNCHANGED vars
    BY <1>23, <1>s DEF vars, touchVars, boxVars
<1> QED
    BY <1>1, <1>2, <1>3, <1>4, <1>5, <1>6, <1>7, <1>8, <1>9, <1>10, <1>11, <1>12, <1>13, <1>14, <1>15, <1>16, <1>17, <1>18, <1>19, <1>20, <1>21, <1>22, <1>23 DEF Next

\* Failures are only ever added to.
LEMMA FaultsGrow ==
    ASSUME TypeOK, [Next]_vars, faults' = 0
    PROVE  faults' = faults
<1>1. CASE PassFails \/ CaptureFails \/ Bootstrap
    BY <1>1, GmailAssumption DEF PassFails, CaptureFails, Bootstrap, TypeOK
<1>2. CASE UNCHANGED faults
    BY <1>2
<1> QED
    BY <1>1, <1>2 DEF Next, vars, regenerate_packets, Skip, StartPass, create_draft, LeaveDraft,
       FindUnedited, update_draft, Stamp, EndPass, EditBody, EditSubject, Delete, Send,
       ReadHistory, record_send, save_watermark, FetchCopy, record_body, EndCapture

\* The copy that will still tell of a send: in the inbox, or in the hands of
\* capture_bcc.
Told(d) == d \in copies \/ (capture.pc = "body" /\ capture.at = d)

\* The send of d needs one.
Untold(d) == mail[d] # NoDraft /\ mail[d].state = "sent" /\ Live(mail[d].touch)

\* Without a failure a step neither loses a copy that is needed nor makes a
\* send without one.
LEMMA CopyStep ==
    ASSUME IInv, [Next]_vars, NEW d \in Drafts, Untold(d) => Told(d), faults' = faults
    PROVE  Untold(d)' => Told(d)'
<1>i. TypeOK /\ DraftsInOrder /\ PassInHand /\ MailType
    BY DEF IInv, TypeOK, MailType
<1> USE <1>i
<1>k. ASSUME copies \subseteq copies', Untold(d)' => Untold(d),
             capture.pc = "body" => capture' = capture
      PROVE  Untold(d)' => Told(d)'
    BY <1>k DEF Told
<1>s. ASSUME sent' = sent, skipped' = skipped, mail' = mail, copies' = copies,
             capture.pc = "body" => capture' = capture
      PROVE  Untold(d)' => Told(d)'
    BY <1>s, <1>k DEF Untold, Live
<1>e. ASSUME sent' = sent, skipped' = skipped, copies' = copies, capture' = capture,
             NEW e \in Drafts, NEW m, mail' = [mail EXCEPT ![e] = m],
             m.state # "sent"
      PROVE  Untold(d)' => Told(d)'
    <2>1. Untold(d)' => Untold(d)
        BY <1>e DEF Untold, Live, MailType
    <2> QED BY <1>e, <2>1, <1>k
<1>1. ASSUME regenerate_packets PROVE Untold(d)' => Told(d)'
    BY <1>1, <1>s DEF regenerate_packets, boxVars
<1>2. ASSUME NEW t \in Touches, Skip(t) PROVE Untold(d)' => Told(d)'
    <2>1. sent' = sent /\ skipped' = [skipped EXCEPT ![t] = TRUE] /\ mail' = mail
        BY <1>2 DEF Skip, boxVars
    <2>2. Untold(d)' => Untold(d)
        <3> SUFFICES ASSUME Untold(d)' PROVE Untold(d)
            OBVIOUS
        <3>1. mail[d] # NoDraft /\ mail[d].state = "sent" /\ Live(mail[d].touch)'
            BY <2>1 DEF Untold
        <3>2. mail[d].touch \in Touches
            BY <3>1, MailFields
        <3>3. sent[mail[d].touch] = "none" /\ ~skipped'[mail[d].touch]
            BY <3>1, <2>1 DEF Live
        <3>4. CASE mail[d].touch = t
            BY <3>3, <3>4, <2>1 DEF TypeOK
        <3>5. CASE mail[d].touch # t
            BY <3>1, <3>2, <3>3, <3>5, <2>1 DEF TypeOK, Untold, Live
        <3> QED BY <3>4, <3>5
    <2> QED BY <1>2, <2>2, <1>k DEF Skip, boxVars
<1>3. ASSUME NEW t \in Touches, create_draft(t) PROVE Untold(d)' => Told(d)'
    <2> DEFINE c == Cardinality(Created) + 1
               m == [touch |-> t, body |-> pass.texts[t], subject |-> pass.texts[t],
                     state |-> "draft"]
    <2>1. m \in Mails /\ m.state = "draft"
        BY GmailAssumption DEF Mails, TypeOK, Passes, Texts, Own
    <2>2. mail' = [mail EXCEPT ![c] = m] /\ Cardinality(Created) < MaxDrafts
        BY <1>3 DEF create_draft
    <2>3. c = Cardinality(Created) + 1
        OBVIOUS
    <2> HIDE DEF c, m
    <2>4. c \in Drafts
        BY <2>1, <2>2, <2>3, NewMail
    <2> QED BY <1>3, <2>1, <2>2, <2>4, <1>e DEF create_draft, touchVars
<1>4. ASSUME NEW t \in Touches, LeaveDraft(t) PROVE Untold(d)' => Told(d)'
    BY <1>4, <1>s DEF LeaveDraft, touchVars, boxVars
<1>5. ASSUME NEW t \in Touches, FindUnedited(t) PROVE Untold(d)' => Told(d)'
    BY <1>5, <1>s DEF FindUnedited, touchVars, boxVars
<1>6. ASSUME NEW t \in Touches, update_draft(t) PROVE Untold(d)' => Told(d)'
    <2>1. /\ pass.draft \in Drafts /\ capture' = capture
          /\ sent' = sent /\ skipped' = skipped /\ copies' = copies
        BY <1>6 DEF update_draft, PassInHand, Created, touchVars
    <2>2. CASE ~InBox(pass.draft)
        BY <1>6, <2>1, <2>2, <1>s DEF update_draft
    <2>3. CASE InBox(pass.draft)
        <3> DEFINE b == [mail[pass.draft] EXCEPT !.body = pass.texts[t]]
                   m == [b EXCEPT !.subject = pass.texts[t]]
        <3>1. m.state = "draft"
            BY <2>1, <2>3, MailFields DEF InBox, Mails
        <3>2. mail' = [mail EXCEPT ![pass.draft] = m]
            BY <1>6, <2>1, <2>3 DEF update_draft, MailType
        <3> HIDE DEF m
        <3> QED BY <2>1, <3>1, <3>2, <1>e
    <2> QED BY <2>2, <2>3
<1>7. ASSUME NEW t \in Touches, Stamp(t) PROVE Untold(d)' => Told(d)'
    BY <1>7, <1>s DEF Stamp, boxVars
<1>8. ASSUME NEW e \in Drafts, EditBody(e) PROVE Untold(d)' => Told(d)'
    <2> DEFINE m == [mail[e] EXCEPT !.body = Own]
    <2>1. m.state = "draft"
        BY <1>8, MailFields DEF EditBody, InBox, Mails
    <2>2. mail' = [mail EXCEPT ![e] = m]
        BY <1>8 DEF EditBody
    <2> HIDE DEF m
    <2> QED BY <1>8, <1>e, <2>1, <2>2 DEF EditBody, touchVars
<1>9. ASSUME NEW e \in Drafts, EditSubject(e) PROVE Untold(d)' => Told(d)'
    <2> DEFINE m == [mail[e] EXCEPT !.subject = Own]
    <2>1. m.state = "draft"
        BY <1>9, MailFields DEF EditSubject, InBox, Mails
    <2>2. mail' = [mail EXCEPT ![e] = m]
        BY <1>9 DEF EditSubject
    <2> HIDE DEF m
    <2> QED BY <1>9, <1>e, <2>1, <2>2 DEF EditSubject, touchVars
<1>10. ASSUME NEW e \in Drafts, Delete(e) PROVE Untold(d)' => Told(d)'
    <2> DEFINE m == [mail[e] EXCEPT !.state = "gone"]
    <2>1. m.state = "gone"
        BY <1>10, MailFields DEF Delete, InBox, Mails
    <2>2. mail' = [mail EXCEPT ![e] = m]
        BY <1>10 DEF Delete
    <2> HIDE DEF m
    <2> QED BY <1>10, <1>e, <2>1, <2>2 DEF Delete, touchVars
<1>11. ASSUME NEW e \in Drafts, Send(e) PROVE Untold(d)' => Told(d)'
    <2>1. CASE e = d
        BY <1>11, <2>1 DEF Send, Told
    <2>2. CASE e # d
        <3>1. mail'[d] = mail[d]
            BY <1>11, <2>2 DEF Send, MailType
        <3>2. Untold(d)' => Untold(d)
            BY <1>11, <3>1 DEF Send, touchVars, Untold, Live
        <3> QED BY <1>11, <3>2, <1>k DEF Send
    <2> QED BY <2>1, <2>2
<1>12. ASSUME NEW e \in Drafts, FetchCopy(e) PROVE Untold(d)' => Told(d)'
    <2>1. Untold(d)' => Untold(d)
        BY <1>12 DEF FetchCopy, touchVars, Untold, Live
    <2>2. capture.pc = "inbox" /\ capture'.pc = "body" /\ capture'.at = e
        BY <1>12 DEF FetchCopy, TypeOK, Captures
    <2>3. copies' = copies \ {e}
        BY <1>12 DEF FetchCopy
    <2> QED BY <2>1, <2>2, <2>3 DEF Told
<1>13. CASE StartPass
    BY <1>13, <1>s DEF StartPass, touchVars, boxVars
<1>14. CASE EndPass
    BY <1>14, <1>s DEF EndPass, touchVars, boxVars
<1>15. CASE PassFails
    BY <1>15, GmailAssumption DEF PassFails, TypeOK
<1>16. CASE Bootstrap
    BY <1>16, <1>s DEF Bootstrap, touchVars, boxVars
<1>17. CASE ReadHistory
    BY <1>17, <1>s DEF ReadHistory, touchVars, boxVars
<1>18. CASE record_send
    <2>1. Untold(d)' => Untold(d)
        <3> SUFFICES ASSUME Untold(d)' PROVE Untold(d)
            OBVIOUS
        <3>1. mail' = mail /\ skipped' = skipped
            BY <1>18 DEF record_send, boxVars
        <3>2. mail[d] # NoDraft /\ mail[d].touch \in Touches
            BY <3>1, MailFields DEF Untold
        <3>3. sent' = sent \/ \E t \in Touches : sent' = [sent EXCEPT ![t] = "gmail_api"]
            BY <1>18 DEF record_send, correlate
        <3>4. sent'[mail[d].touch] = "none" => sent[mail[d].touch] = "none"
            BY <3>2, <3>3 DEF TypeOK
        <3> QED BY <3>1, <3>4 DEF Untold, Live
    <2> QED BY <1>18, <2>1, <1>k DEF record_send, boxVars
<1>19. CASE save_watermark
    BY <1>19, <1>s DEF save_watermark, touchVars, boxVars
<1>20. CASE record_body
    <2> SUFFICES ASSUME Untold(d)' PROVE Told(d)'
        OBVIOUS
    <2> DEFINE t == mail[capture.at].touch
    <2>1. mail' = mail /\ skipped' = skipped /\ copies' = copies /\ capture.pc = "body"
        BY <1>20 DEF record_body, boxVars
    <2>2. mail[d] # NoDraft /\ mail[d].state = "sent" /\ mail[d].touch \in Touches
        BY <2>1, MailFields DEF Untold
    <2>3. sent'[mail[d].touch] = "none" /\ ~skipped[mail[d].touch]
        BY <2>1 DEF Untold, Live
    <2>4. ~skipped[t] => sent' = [sent EXCEPT ![t] = IF @ = "none" THEN "bcc" ELSE @]
        BY <1>20 DEF record_body
    <2>5. skipped[t] => sent' = sent
        BY <1>20 DEF record_body
    <2> HIDE DEF t
    <2>6. sent[mail[d].touch] = "none"
        BY <2>2, <2>3, <2>4, <2>5 DEF TypeOK
    <2>7. mail[d].touch # t
        BY <2>2, <2>3, <2>4, <2>5 DEF TypeOK
    <2>8. Untold(d) /\ capture.at # d
        BY <2>2, <2>3, <2>6, <2>7 DEF Untold, Live, t
    <2> QED BY <2>1, <2>8 DEF Told
<1>21. CASE EndCapture
    BY <1>21, <1>s DEF EndCapture, touchVars, boxVars
<1>22. CASE CaptureFails
    BY <1>22, GmailAssumption DEF CaptureFails, TypeOK
<1>23. CASE UNCHANGED vars
    BY <1>23, <1>s DEF vars, touchVars, boxVars
<1> QED
    BY <1>1, <1>2, <1>3, <1>4, <1>5, <1>6, <1>7, <1>8, <1>9, <1>10, <1>11, <1>12, <1>13, <1>14, <1>15, <1>16, <1>17, <1>18, <1>19, <1>20, <1>21, <1>22, <1>23 DEF Next

\* While no call failed, a stamped draft that no pass has in hand holds what was
\* last stamped or the operator's text: a refresh that is followed by its stamp
\* never reads its own write as an edit.
THEOREM StampsStayCurrent == Spec => []StampsAreCurrent
<1>1. Init => StampsAreCurrent
    BY DEF Init, StampsAreCurrent
<1>2. IInv /\ StampsAreCurrent /\ [Next]_vars => StampsAreCurrent'
    <2> SUFFICES ASSUME IInv, StampsAreCurrent, [Next]_vars, faults' = 0, NEW u \in Touches
                 PROVE  Stamped(u)'
        BY DEF StampsAreCurrent, Stamped
    <2>1. faults' = faults
        BY FaultsGrow DEF IInv
    <2>2. Stamped(u)
        BY <2>1 DEF StampsAreCurrent, Stamped
    <2> QED BY <2>1, <2>2, StampStep
<1> QED BY <1>1, <1>2, IInvHolds, PTL DEF Spec

\* With the bcc@ mailbox read and no failed call, a send that neither path has
\* recorded has an unread copy: the quick send whose thread was never stamped and
\* the event a bootstrap passed over are still told of.
THEOREM SendsAreToldOf == Spec => []SendsLeaveACopy
<1>1. Init => SendsLeaveACopy
    BY DEF Init, SendsLeaveACopy, Created
<1>2. IInv /\ SendsLeaveACopy /\ [Next]_vars => SendsLeaveACopy'
    <2> SUFFICES ASSUME IInv, SendsLeaveACopy, [Next]_vars, faults' = 0, BccConfigured,
                        NEW d \in Drafts, Untold(d)'
                 PROVE  Told(d)'
        BY DEF SendsLeaveACopy, Untold, Told, Created
    <2>1. faults' = faults
        BY FaultsGrow DEF IInv
    <2>2. Untold(d) => Told(d)
        BY <2>1 DEF SendsLeaveACopy, Untold, Told, Created
    <2> QED BY <2>1, <2>2, CopyStep
<1> QED BY <1>1, <1>2, IInvHolds, PTL DEF Spec
=============================================================================

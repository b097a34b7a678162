----------------------------- MODULE GmailChannel -----------------------------
(***************************************************************************)
(* The Gmail half of a touch: the drafting pass (outreach/gmail.py) that   *)
(* creates and refreshes drafts in the operator's mailbox, the operator    *)
(* editing, deleting and sending them meanwhile, and the capture pass      *)
(* (outreach/gmail_capture.py) that learns of a send twice, from the       *)
(* mailbox history by thread and from the BCC copy by token.               *)
(*                                                                         *)
(* A draft opens a thread of its own, so a draft id stands for its thread  *)
(* too. A text is the packet it came from, or the operator's own.          *)
(***************************************************************************)
EXTENDS Naturals, Sequences, FiniteSets

CONSTANTS
    Touches,       \* the touches of sequences in progress, with a contact
    MaxDrafts,     \* bound on the drafts ever created
    MaxPackets,    \* bound on the packets assembled per touch
    MaxFaults,     \* bound on crashes, failed calls and expired histories
    BccConfigured, \* the bcc@ mailbox credential is set up
    NoDraft        \* an unused draft id

ASSUME GmailAssumption ==
    /\ IsFiniteSet(Touches) /\ BccConfigured \in BOOLEAN
    /\ MaxDrafts \in Nat \ {0} /\ MaxPackets \in Nat \ {0} /\ MaxFaults \in Nat
    /\ NoDraft \notin [touch : Touches, body : Nat, subject : Nat,
                       state : {"draft", "gone", "sent"}]

Drafts == 1 .. MaxDrafts
Own    == 0                          \* the operator's text
Texts  == {Own} \cup 1 .. MaxPackets \* ... or that of a packet

VARIABLES
    packet,    \* the touch's latest packet (0: none assembled yet)
    draft,     \* outreach_touches.gmail_draft_id and gmail_thread_id (0: NULL)
    hash,      \* draft_body_hash: the body it is the hash of
    sent,      \* sent_via: none, gmail_api or bcc
    skipped,   \* skipped_at is set
    mail,      \* the drafts in Gmail
    history,   \* the SENT events of the mailbox, by draft
    copies,    \* unseen messages in the bcc@ inbox, by draft
    mark,      \* gmail_channel_state.history_id: events read (0 .. , NULL = None)
    pass,      \* the drafting pass
    capture,   \* the capture pass
    faults     \* faults so far (bounds the model)

touchVars == <<packet, draft, hash, sent, skipped>>
boxVars   == <<mail, history, copies>>
vars == <<touchVars, boxVars, mark, pass, capture, faults>>

None == MaxDrafts + 1                \* no watermark yet

Jobs == {"none", "create", "refresh"}
Passes == [pc : {"idle", "items", "update", "stamp"}, jobs : [Touches -> Jobs],
           texts : [Touches -> 0 .. MaxPackets], draft : 0 .. MaxDrafts,
           touches : SUBSET Touches]
Captures == [pc : {"idle", "events", "inbox", "body"}, at : Nat \ {0}, upto : Nat]
Mails == [touch : Touches, body : Texts, subject : Texts, state : {"draft", "gone", "sent"}]

NoPass    == [pc |-> "idle", jobs |-> [t \in Touches |-> "none"],
              texts |-> [t \in Touches |-> 0], draft |-> 0, touches |-> {}]
NoCapture == [pc |-> "idle", at |-> 1, upto |-> 0]

InBox(d) == mail[d] # NoDraft /\ mail[d].state = "draft"
Created  == {d \in Drafts : mail[d] # NoDraft}
Mailed(t) == \E d \in Created : mail[d].touch = t /\ mail[d].state = "sent"

-----------------------------------------------------------------------------
Init ==
    /\ packet = [t \in Touches |-> 0]
    /\ draft = [t \in Touches |-> 0] /\ hash = [t \in Touches |-> Own]
    /\ sent = [t \in Touches |-> "none"] /\ skipped = [t \in Touches |-> FALSE]
    /\ mail = [d \in Drafts |-> NoDraft]
    /\ history = <<>> /\ copies = {} /\ mark = None
    /\ pass = NoPass /\ capture = NoCapture /\ faults = 0

-----------------------------------------------------------------------------
(* The touch *)

Live(t) == sent[t] = "none" /\ ~skipped[t]

\* Of what it is assembled from, only that it differs from the last one.
assemble_packet(t) == packet[t] + 1

\* The newest packet of a touch wins; none is ever rewritten.
save_packet(built) ==
    packet' = [t \in Touches |-> IF t \in built THEN assemble_packet(t) ELSE packet[t]]

\* The 05:45 loop, in one transaction: touches inside their window whose packet
\* comes out different, less those whose assembly raises.
regenerate_packets ==
    /\ \E built \in SUBSET {t \in Touches : Live(t) /\ packet[t] < MaxPackets} :
          built # {} /\ save_packet(built)
    /\ UNCHANGED <<draft, hash, sent, skipped, boxVars, mark, pass, capture, faults>>

\* The operator skips it in NocoDB, whether it is drafted or not.
Skip(t) ==
    /\ Live(t)
    /\ skipped' = [skipped EXCEPT ![t] = TRUE]
    /\ UNCHANGED <<packet, draft, hash, sent, boxVars, mark, pass, capture, faults>>

-----------------------------------------------------------------------------
(* The drafting pass *)

\* Mutant of Draftable: the create-once filter is dropped.
MutantDraftableAgain(t) == Live(t) /\ packet[t] # 0

\* list_draftable and list_existing_drafts.
Draftable(t) == Live(t) /\ packet[t] # 0 /\ draft[t] = 0
Existing(t)  == Live(t) /\ packet[t] # 0 /\ draft[t] # 0

\* Both lists are read at the start, with each touch's latest packet.
StartPass ==
    /\ pass.pc = "idle"
    /\ \E t \in Touches : Draftable(t) \/ Existing(t)
    /\ pass' = [pc |-> "items", draft |-> 0, touches |-> {}, texts |-> packet,
                jobs |-> [t \in Touches |-> IF Draftable(t) THEN "create"
                                            ELSE IF Existing(t) THEN "refresh" ELSE "none"]]
    /\ UNCHANGED <<touchVars, boxVars, mark, capture, faults>>

\* The item in hand is done with; the pass goes on to the next one.
NextItem(t) == [pc |-> "items", draft |-> 0, touches |-> {}, texts |-> pass.texts,
                jobs |-> [pass.jobs EXCEPT ![t] = "none"]]

\* Mutant of create_draft: sent_events loses its label filter, so the message
\* added by the draft itself is an event.
MutantDraftIsEvent(t) ==
    /\ pass.pc = "items" /\ pass.jobs[t] = "create" /\ Cardinality(Created) < MaxDrafts
    /\ LET d == Cardinality(Created) + 1 IN
          /\ mail' = [mail EXCEPT ![d] = [touch |-> t, body |-> pass.texts[t],
                                          subject |-> pass.texts[t], state |-> "draft"]]
          /\ pass' = [pass EXCEPT !.pc = "stamp", !.draft = d, !.touches = {t}]
          /\ history' = IF Len(history) < MaxDrafts THEN Append(history, d) ELSE history
    /\ UNCHANGED <<touchVars, copies, mark, capture, faults>>

\* create_draft: a draft with the listed text, not yet known to the database.
create_draft(t) ==
    /\ pass.pc = "items" /\ pass.jobs[t] = "create" /\ Cardinality(Created) < MaxDrafts
    /\ LET d == Cardinality(Created) + 1 IN
          /\ mail' = [mail EXCEPT ![d] = [touch |-> t, body |-> pass.texts[t],
                                          subject |-> pass.texts[t], state |-> "draft"]]
          /\ pass' = [pass EXCEPT !.pc = "stamp", !.draft = d, !.touches = {t}]
    /\ UNCHANGED <<touchVars, history, copies, mark, capture, faults>>

\* refresh_draft, up to its write, once the new drafts are made. A draft that is
\* gone, or whose body is no longer the stamped one, is left alone.
Refreshing(t) == pass.pc = "items" /\ pass.jobs[t] = "refresh"
                 /\ \A u \in Touches : pass.jobs[u] # "create"

\* Mutant of Unedited: the hash is not compared.
MutantUnedited(t) == InBox(draft[t])

Unedited(t) == InBox(draft[t]) /\ mail[draft[t]].body = hash[t]

LeaveDraft(t) ==
    /\ Refreshing(t) /\ ~Unedited(t)
    /\ pass' = NextItem(t)
    /\ UNCHANGED <<touchVars, boxVars, mark, capture, faults>>

FindUnedited(t) ==
    /\ Refreshing(t) /\ Unedited(t)
    /\ pass' = [pass EXCEPT !.pc = "update", !.draft = draft[t], !.touches = {t}]
    /\ UNCHANGED <<touchVars, boxVars, mark, capture, faults>>

\* Mutant of update_draft: the fresh text is not stamped afterwards.
MutantUpdateUnstamped(t) ==
    /\ pass.pc = "update" /\ pass.touches = {t}
    /\ InBox(pass.draft)
    /\ mail' = [mail EXCEPT ![pass.draft].body = pass.texts[t],
                            ![pass.draft].subject = pass.texts[t]]
    /\ pass' = NextItem(t)
    /\ UNCHANGED <<touchVars, history, copies, mark, capture, faults>>

\* update_draft rewrites the whole message; one that is gone by now raises.
update_draft(t) ==
    /\ pass.pc = "update" /\ pass.touches = {t}
    /\ IF InBox(pass.draft)
         THEN /\ mail' = [mail EXCEPT ![pass.draft].body = pass.texts[t],
                                      ![pass.draft].subject = pass.texts[t]]
              /\ pass' = [pass EXCEPT !.pc = "stamp"]
         ELSE UNCHANGED mail /\ pass' = NextItem(t)
    /\ UNCHANGED <<touchVars, history, copies, mark, capture, faults>>

\* roundtrip_hash reads the draft back as Gmail holds it now, and it is saved:
\* save_draft_state after a create, update_draft_hash after a refresh. A draft
\* that has left the Drafts folder cannot be read, and nothing is saved.
Stamp(t) ==
    /\ pass.pc = "stamp" /\ pass.touches = {t}
    /\ IF InBox(pass.draft)
         THEN /\ draft' = [draft EXCEPT ![t] = pass.draft]
              /\ hash' = [hash EXCEPT ![t] = mail[pass.draft].body]
         ELSE UNCHANGED <<draft, hash>>
    /\ pass' = NextItem(t)
    /\ UNCHANGED <<packet, sent, skipped, boxVars, mark, capture, faults>>

EndPass ==
    /\ pass.pc = "items" /\ \A t \in Touches : pass.jobs[t] = "none"
    /\ pass' = NoPass
    /\ UNCHANGED <<touchVars, boxVars, mark, capture, faults>>

\* A Gmail or database call raises and the item is given up, or the process dies
\* and the whole pass is.
PassFails ==
    /\ pass.pc # "idle" /\ faults < MaxFaults
    /\ \/ \E t \in pass.touches : pass' = NextItem(t)
       \/ pass' = NoPass
    /\ faults' = faults + 1
    /\ UNCHANGED <<touchVars, boxVars, mark, capture>>

-----------------------------------------------------------------------------
(* The operator, in the mailbox *)

EditBody(d) ==
    /\ InBox(d)
    /\ mail' = [mail EXCEPT ![d].body = Own]
    /\ UNCHANGED <<touchVars, history, copies, mark, pass, capture, faults>>

EditSubject(d) ==
    /\ InBox(d)
    /\ mail' = [mail EXCEPT ![d].subject = Own]
    /\ UNCHANGED <<touchVars, history, copies, mark, pass, capture, faults>>

Delete(d) ==
    /\ InBox(d)
    /\ mail' = [mail EXCEPT ![d].state = "gone"]
    /\ UNCHANGED <<touchVars, history, copies, mark, pass, capture, faults>>

Send(d) ==
    /\ InBox(d)
    /\ mail' = [mail EXCEPT ![d].state = "sent"]
    /\ history' = Append(history, d)
    /\ copies' = copies \cup {d}
    /\ UNCHANGED <<touchVars, mark, pass, capture, faults>>

-----------------------------------------------------------------------------
(* The capture pass: run, then run_bcc *)

\* The first pass, and one whose watermark has expired, only set the watermark.
Bootstrap ==
    /\ capture.pc = "idle"
    /\ \/ mark = None /\ UNCHANGED faults
       \/ mark # None /\ faults < MaxFaults /\ faults' = faults + 1
    /\ mark' = Len(history)
    /\ capture' = [capture EXCEPT !.pc = "inbox"]
    /\ UNCHANGED <<touchVars, boxVars, pass>>

\* sent_events: everything since the watermark.
ReadHistory ==
    /\ capture.pc = "idle" /\ mark # None
    /\ Len(history) > mark \/ copies # {}
    /\ capture' = [pc |-> "events", at |-> mark + 1, upto |-> Len(history)]
    /\ UNCHANGED <<touchVars, boxVars, mark, pass, faults>>

\* correlate: the touch whose thread this is, not yet marked sent.
correlate(d) == {t \in Touches : draft[t] = d /\ sent[t] = "none"}

\* One event. The UPDATE of a skipped touch breaks a CHECK and ends the program
\* before its watermark is saved.
record_send ==
    LET d == history[capture.at]
        found == correlate(d)
        on == [capture EXCEPT !.at = @ + 1]
    IN
    /\ capture.pc = "events" /\ capture.at <= capture.upto
    /\ IF found = {} THEN UNCHANGED sent /\ capture' = on
       ELSE \E t \in found :
              IF skipped[t] THEN UNCHANGED sent /\ capture' = NoCapture
              ELSE sent' = [sent EXCEPT ![t] = "gmail_api"] /\ capture' = on
    /\ UNCHANGED <<packet, draft, hash, skipped, boxVars, mark, pass, faults>>

save_watermark ==
    /\ capture.pc = "events" /\ capture.at > capture.upto
    /\ mark' = capture.upto
    /\ capture' = [NoCapture EXCEPT !.pc = "inbox"]
    /\ UNCHANGED <<touchVars, boxVars, pass, faults>>

\* capture_bcc: fetching a message marks it seen.
FetchCopy(d) ==
    /\ capture.pc = "inbox" /\ BccConfigured /\ d \in copies
    /\ copies' = copies \ {d}
    /\ capture' = [capture EXCEPT !.pc = "body", !.at = d]
    /\ UNCHANGED <<touchVars, mail, history, mark, pass, faults>>

\* Mutant of record_body: the body is attached, the send is not claimed.
MutantBodyOnly ==
    /\ capture.pc = "body"
    /\ capture' = [NoCapture EXCEPT !.pc = "inbox"]
    /\ UNCHANGED <<touchVars, boxVars, mark, pass, faults>>

\* record_body: the touch of this token, marked sent unless it already is; the
\* same CHECK ends the program for a skipped one.
record_body ==
    LET t == mail[capture.at].touch IN
    /\ capture.pc = "body"
    /\ IF skipped[t]
         THEN UNCHANGED sent /\ capture' = NoCapture
         ELSE /\ sent' = [sent EXCEPT ![t] = IF @ = "none" THEN "bcc" ELSE @]
              /\ capture' = [NoCapture EXCEPT !.pc = "inbox"]
    /\ UNCHANGED <<packet, draft, hash, skipped, boxVars, mark, pass, faults>>

EndCapture ==
    /\ capture.pc = "inbox" /\ (BccConfigured => copies = {})
    /\ capture' = NoCapture
    /\ UNCHANGED <<touchVars, boxVars, mark, pass, faults>>

CaptureFails ==
    /\ capture.pc # "idle" /\ faults < MaxFaults
    /\ capture' = NoCapture
    /\ faults' = faults + 1
    /\ UNCHANGED <<touchVars, boxVars, mark, pass>>

-----------------------------------------------------------------------------
CaptureStep ==
    \/ (mark = None /\ Bootstrap) \/ ReadHistory \/ record_send \/ save_watermark
    \/ (\E d \in Drafts : FetchCopy(d)) \/ record_body \/ EndCapture

Next ==
    \/ \E t \in Touches :
          \/ Skip(t) \/ create_draft(t) \/ LeaveDraft(t)
          \/ FindUnedited(t) \/ update_draft(t) \/ Stamp(t)
    \/ regenerate_packets \/ StartPass \/ EndPass \/ PassFails
    \/ \E d \in Drafts : EditBody(d) \/ EditSubject(d) \/ Delete(d) \/ Send(d) \/ FetchCopy(d)
    \/ Bootstrap \/ ReadHistory \/ record_send \/ save_watermark
    \/ record_body \/ EndCapture \/ CaptureFails

Spec == Init /\ [][Next]_vars

\* The scheduler starts the capture pass again and again, and a started one
\* runs on unless it fails; nothing is assumed of the operator or the drafts.
FairSpec == Spec /\ WF_vars(CaptureStep)

-----------------------------------------------------------------------------
(* Properties *)

\* Every variable keeps its type, and neither the watermark nor a pass under way
\* is ever past the end of the mailbox history.
TypeOK ==
    /\ packet \in [Touches -> 0 .. MaxPackets]
    /\ draft \in [Touches -> 0 .. MaxDrafts]
    /\ hash \in [Touches -> Texts]
    /\ sent \in [Touches -> {"none", "gmail_api", "bcc"}]
    /\ skipped \in [Touches -> BOOLEAN]
    /\ mail \in [Drafts -> {NoDraft} \cup Mails]
    /\ history \in Seq(Drafts) /\ copies \subseteq Drafts
    /\ mark \in Nat /\ (mark = None \/ mark <= Len(history))
    /\ pass \in Passes
    /\ capture \in Captures /\ (capture.pc = "events" => capture.upto <= Len(history))
    /\ faults \in 0 .. MaxFaults

\* A touch is marked sent only if one of its own drafts really went out, however
\* the two capture paths, replays and re-bootstraps mix, and never if skipped.
RecordedWasMailed ==
    \A t \in Touches : sent[t] # "none" => Mailed(t) /\ ~skipped[t]

\* While no call failed, a stamped draft holds either what was last stamped or
\* the operator's text: the refresh never mistakes its own write for an edit.
StampsAreCurrent ==
    faults = 0 => \A t \in Touches :
        draft[t] # 0 /\ InBox(draft[t]) /\ t \notin pass.touches =>
            mail[draft[t]].body \in {hash[t], Own}

\* The operator's own body, on a draft no pass has in hand, differs from its stamp.
HeldEdit(t) ==
    /\ draft[t] # 0 /\ mail[draft[t]] # NoDraft /\ mail[draft[t]].body = Own
    /\ hash[t] # Own /\ t \notin pass.touches

\* Such an edit is the operator's for good: no later pass takes the draft in hand
\* again, rewrites it or stamps it over.
BodyEditsSurvive == [][\A t \in Touches : HeldEdit(t) => HeldEdit(t)']_vars

\* Create-once: a touch whose draft is known never gets another one, not even
\* after the operator deleted it.
NoSecondDraft ==
    [][\A t \in Touches : draft[t] # 0 =>
          /\ draft'[t] = draft[t]
          /\ \A d \in Drafts : mail[d] = NoDraft /\ mail'[d] # NoDraft =>
                mail'[d].touch # t]_vars

\* With the bcc@ mailbox read and no failed call, a send that is not recorded
\* yet has an unread copy, though its thread was never known or its event was
\* passed over: neither a quick send nor a bootstrap loses it.
SendsLeaveACopy ==
    faults = 0 /\ BccConfigured =>
        \A d \in Created : mail[d].state = "sent" /\ Live(mail[d].touch) =>
            d \in copies \/ (capture.pc = "body" /\ capture.at = d)

\* The mail of a skipped touch, which no capture can record.
SkippedMail == \E t \in Touches : skipped[t] /\ Mailed(t)

\* A send is eventually recorded, unless a call failed, or the mail of a skipped
\* touch stops every pass.
SendsAreRecorded ==
    BccConfigured => \A t \in Touches :
        Mailed(t) ~> sent[t] # "none" \/ SkippedMail \/ faults > 0
=============================================================================

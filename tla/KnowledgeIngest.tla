--------------------------- MODULE KnowledgeIngest ---------------------------
(***************************************************************************)
(* The ingest core that every channel shares, under the Granola poller and *)
(* the requests of the other channels (#capture messages and the gateway). *)
(*                                                                         *)
(* The scheduler launches the poller every 15 minutes and never waits for  *)
(* it, so that two cycles may overlap.  Notes are edited while a cycle     *)
(* works through them.  A text stands for everything that has the same     *)
(* hash: harden and message_hash drop invisible characters, spacing and    *)
(* case before the comparison.                                             *)
(***************************************************************************)
EXTENDS Naturals, FiniteSets

CONSTANTS
    Notes,          \* Granola notes
    Texts,          \* what a note or a message can say
    Pollers,        \* cycles of the Granola loop that may run at once
    Requests,       \* other ingests that may run at once
    MaxNotesPerRun,
    MaxClock,       \* bound: edits of notes
    MaxFaults,      \* bound: failed calls and crashes
    None            \* no watermark, or nothing in hand

ASSUME IngestAssumption ==
    /\ IsFiniteSet(Notes) /\ IsFiniteSet(Pollers \cup Requests)
    /\ Pollers \cap Requests = {}
    /\ Texts # {} /\ None \notin Texts \cup Notes \cup Nat
    /\ MaxNotesPerRun \in Nat \ {0} /\ MaxClock \in Nat /\ MaxFaults \in Nat

VARIABLES
    updated,        \* note -> updated_at, 0 before it exists
    text,           \* note -> what it says now
    clock,          \* the last updated_at given
    mark,           \* channel_state.cursor of the granola channel
    hashes,         \* capture_messages: the texts recorded as ingested
    graph,          \* text -> how often it was cognified
    step,           \* worker -> where its ingest is
    doc,            \* worker -> the text it ingests
    poll,           \* poller -> its cycle
    overtaken,      \* history: notes the watermark passed unread
    faults

vars == <<updated, text, clock, mark, hashes, graph, step, doc, poll,
          overtaken, faults>>

Workers == Pollers \cup Requests

Steps == {"idle", "next", "check", "cognify", "record", "save"}

Polls == [listed : [Notes -> 0..MaxClock], since : 0..MaxClock, upto : 0..MaxClock,
          note : Notes \cup {None}, stamp : 0..MaxClock]

NoPoll == [listed |-> [n \in Notes |-> 0], since |-> 0, upto |-> 0,
           note |-> None, stamp |-> 0]

TypeOK ==
    /\ updated \in [Notes -> 0..MaxClock]
    /\ text \in [Notes -> Texts \cup {None}]
    /\ clock \in 0..MaxClock
    /\ mark \in 0..MaxClock \cup {None}
    /\ hashes \subseteq Texts
    /\ graph \in [Texts -> Nat]
    /\ step \in [Workers -> Steps]
    /\ doc \in [Workers -> Texts \cup {None}]
    /\ poll \in [Pollers -> Polls]
    /\ overtaken \subseteq Notes
    /\ faults \in 0..MaxFaults

Init ==
    /\ updated = [n \in Notes |-> 0]
    /\ text = [n \in Notes |-> None]
    /\ clock = 0
    /\ mark = None
    /\ hashes = {}
    /\ graph = [x \in Texts |-> 0]
    /\ step = [w \in Workers |-> "idle"]
    /\ doc = [w \in Workers |-> None]
    /\ poll = [p \in Pollers |-> NoPoll]
    /\ overtaken = {}
    /\ faults = 0

-----------------------------------------------------------------------------
(* The meeting app.                                                        *)

\* A note is written or edited; its text may come out the same.
Edit(n, x) ==
    /\ clock < MaxClock
    /\ clock' = clock + 1
    /\ updated' = [updated EXCEPT ![n] = clock + 1]
    /\ text' = [text EXCEPT ![n] = x]
    /\ overtaken' = overtaken \ {n}
    /\ UNCHANGED <<mark, hashes, graph, step, doc, poll, faults>>

-----------------------------------------------------------------------------
(* A cycle of the poller.                                                  *)

\* The batch of a cycle: the oldest MaxNotesPerRun of the notes listed.
Batch(fresh) ==
    {n \in fresh : Cardinality({m \in fresh : updated[m] < updated[n]})
                       < MaxNotesPerRun}

\* What is left of the batch of p, oldest first.
Rest(p) == {n \in Notes : poll[p].listed[n] # 0}

Oldest(p, n) == \A m \in Rest(p) : poll[p].listed[n] <= poll[p].listed[m]

\* The first cycle, without --backfill: history is skipped.
SeedWatermark(p) ==
    /\ step[p] = "idle"
    /\ mark = None
    /\ mark' = clock
    /\ overtaken' = {n \in Notes : updated[n] # 0}
    /\ UNCHANGED <<updated, text, clock, hashes, graph, step, doc, poll, faults>>

\* The notes updated since the watermark; without one, all (--backfill).
ListNotes(p) ==
    LET since == IF mark = None THEN 0 ELSE mark
        batch == Batch({n \in Notes : updated[n] > since})
    IN  /\ step[p] = "idle"
        /\ batch # {}
        /\ poll' = [poll EXCEPT ![p] =
              [listed |-> [n \in Notes |-> IF n \in batch THEN updated[n] ELSE 0],
               since |-> since, upto |-> since, note |-> None, stamp |-> 0]]
        /\ step' = [step EXCEPT ![p] = "next"]
        /\ UNCHANGED <<updated, text, clock, mark, hashes, graph, doc,
                       overtaken, faults>>

\* The note n, which had the stamp s when it was fetched, is done: the
\* watermark to be saved takes its stamp.
Advance(p, n, s) ==
    LET late == poll[p].listed[n] # s
    IN  /\ poll' = [poll EXCEPT
              ![p].listed = [@ EXCEPT ![n] = 0],
              ![p].upto = IF s > @ THEN s ELSE @,
              ![p].note = None, ![p].stamp = 0]
        /\ overtaken' = overtaken \cup
              {m \in Notes \ {n} : late /\ 0 < updated[m] /\ updated[m] < s}
        /\ step' = [step EXCEPT ![p] = "next"]
        /\ doc' = [doc EXCEPT ![p] = None]

\* The full note, as it is now.  assemble_note_text heads it with its title, so
\* that the test for a note without text never skips one.
FetchNote(p) ==
    /\ step[p] = "next"
    /\ \E n \in Rest(p) :
         /\ Oldest(p, n)
         /\ poll' = [poll EXCEPT ![p].note = n, ![p].stamp = updated[n]]
         /\ doc' = [doc EXCEPT ![p] = text[n]]
    /\ step' = [step EXCEPT ![p] = "check"]
    /\ UNCHANGED <<updated, text, clock, mark, hashes, graph, overtaken, faults>>

\* The end of the loop, or a break out of it: the watermark is written over
\* whatever another cycle has written meanwhile.
SaveWatermark(p) ==
    /\ step[p] = "save" \/ (step[p] = "next" /\ Rest(p) = {})
    /\ mark' = IF poll[p].upto # poll[p].since THEN poll[p].upto ELSE mark
    /\ poll' = [poll EXCEPT ![p] = NoPoll]
    /\ step' = [step EXCEPT ![p] = "idle"]
    /\ UNCHANGED <<updated, text, clock, hashes, graph, doc, overtaken, faults>>

-----------------------------------------------------------------------------
(* ingest_note, for any worker.                                            *)

\* A #capture message, or a gateway request that already has its 202.
Deliver(r, x) ==
    /\ step[r] = "idle"
    /\ step' = [step EXCEPT ![r] = "check"]
    /\ doc' = [doc EXCEPT ![r] = x]
    /\ UNCHANGED <<updated, text, clock, mark, hashes, graph, poll,
                   overtaken, faults>>

\* The ingest of w is over.
Done(w) ==
    IF w \in Pollers
    THEN Advance(w, poll[w].note, poll[w].stamp)
    ELSE /\ step' = [step EXCEPT ![w] = "idle"]
         /\ doc' = [doc EXCEPT ![w] = None]
         /\ UNCHANGED <<poll, overtaken>>

\* _message_seen, in a transaction of its own: a text seen before is a repost.
MessageSeen(w) ==
    /\ step[w] = "check"
    /\ IF doc[w] \in hashes
       THEN Done(w)
       ELSE /\ step' = [step EXCEPT ![w] = "cognify"]
            /\ UNCHANGED <<doc, poll, overtaken>>
    /\ UNCHANGED <<updated, text, clock, mark, hashes, graph, faults>>

\* The slow model call that writes the graph.
Cognify(w) ==
    /\ step[w] = "cognify"
    /\ graph' = [graph EXCEPT ![doc[w]] = @ + 1]
    /\ step' = [step EXCEPT ![w] = "record"]
    /\ UNCHANGED <<updated, text, clock, mark, hashes, doc, poll, overtaken,
                   faults>>

\* The hash is not recorded.
MutantRecordNothing(w) ==
    /\ step[w] = "record"
    /\ Done(w)
    /\ UNCHANGED <<updated, text, clock, mark, hashes, graph, faults>>

\* _record_message, ON CONFLICT DO NOTHING.
RecordMessage(w) ==
    /\ step[w] = "record"
    /\ hashes' = hashes \cup {doc[w]}
    /\ Done(w)
    /\ UNCHANGED <<updated, text, clock, mark, graph, faults>>

-----------------------------------------------------------------------------
(* Failures.                                                               *)

\* The loop goes on with the next note after one that failed.
MutantFailsGoOn(w) ==
    /\ faults < MaxFaults
    /\ faults' = faults + 1
    /\ w \in Pollers => poll[w].note # None
    /\ step[w] \in {"check", "cognify", "record"}
    /\ step' = [step EXCEPT ![w] = IF w \in Pollers THEN "next" ELSE "idle"]
    /\ doc' = [doc EXCEPT ![w] = None]
    /\ poll' = IF w \in Pollers
               THEN [poll EXCEPT ![w].listed = [@ EXCEPT ![poll[w].note] = 0],
                                 ![w].upto = poll[w].stamp,
                                 ![w].note = None, ![w].stamp = 0]
               ELSE poll
    /\ UNCHANGED <<updated, text, clock, mark, hashes, graph, overtaken>>

\* A call raises: the poller leaves its loop and saves what it has; a request
\* answers with a warning or only logs.
Fails(w) ==
    /\ faults < MaxFaults
    /\ faults' = faults + 1
    /\ step[w] \in {"check", "cognify", "record"} \/ (step[w] = "next" /\ Rest(w) # {})
    /\ step' = [step EXCEPT ![w] = IF w \in Pollers THEN "save" ELSE "idle"]
    /\ doc' = [doc EXCEPT ![w] = None]
    /\ poll' = IF w \in Pollers
               THEN [poll EXCEPT ![w].note = None, ![w].stamp = 0]
               ELSE poll
    /\ UNCHANGED <<updated, text, clock, mark, hashes, graph, overtaken>>

\* The process dies, with the watermark it meant to save.
Crash(w) ==
    /\ faults < MaxFaults
    /\ faults' = faults + 1
    /\ step[w] # "idle"
    /\ step' = [step EXCEPT ![w] = "idle"]
    /\ doc' = [doc EXCEPT ![w] = None]
    /\ poll' = IF w \in Pollers THEN [poll EXCEPT ![w] = NoPoll] ELSE poll
    /\ UNCHANGED <<updated, text, clock, mark, hashes, graph, overtaken>>

-----------------------------------------------------------------------------

Cycle(p) == SeedWatermark(p) \/ ListNotes(p) \/ FetchNote(p) \/ SaveWatermark(p)

Ingest(w) == MessageSeen(w) \/ Cognify(w) \/ RecordMessage(w)

Next ==
    \/ \E n \in Notes, x \in Texts : Edit(n, x)
    \/ \E p \in Pollers : Cycle(p)
    \/ \E r \in Requests, x \in Texts : Deliver(r, x)
    \/ \E w \in Workers : Ingest(w) \/ Fails(w) \/ Crash(w)

Spec == Init /\ [][Next]_vars

-----------------------------------------------------------------------------
(* Properties.                                                             *)

\* However the channels, overlapping cycles and retries interleave, a text is
\* cognified at most once per worker that may run at once, and once more per
\* failure: the check before the model call is not a lock, but what it lets
\* through is bounded.
DuplicatesBounded ==
    \A x \in Texts : graph[x] <= Cardinality(Workers) + faults

\* A note behind the watermark has been ingested as it stands, whatever failed
\* in between, unless the watermark overtook it: at the go-forward seed, or
\* when a note edited during a cycle lent the watermark its newer stamp.
WatermarkCovers ==
    \A n \in Notes :
        mark # None /\ 0 < updated[n] /\ updated[n] <= mark =>
            n \in overtaken \/ text[n] \in hashes
=============================================================================

------------------------ MODULE IngestAndSyncProofs -------------------------
(***************************************************************************)
(* What the way in and the way out of the knowledge base keep, for any     *)
(* number of notes, texts, cards, pages, overlapping cycles, requests and  *)
(* failures.  The two components share no state and the module proves of   *)
(* each what is its own.                                                   *)
(*                                                                         *)
(* The ingest core and the Granola watermark: DuplicatesBounded counts the *)
(* workers that hold a text beside its hash, WatermarkCovers follows a     *)
(* batch from its listing to the watermark while the notes in it change.   *)
(*                                                                         *)
(* The Notion To-Do sync: AssignmentIsKept follows an initiative through   *)
(* an accept, OneRowPerTask the row from create_page to the upsert, and    *)
(* TheChangeWins what a cycle has read and planned of a card until it      *)
(* records it.                                                             *)
(***************************************************************************)
EXTENDS KnowledgeIngest, TodoSync, FiniteSetTheorems, TLAPS

\* Workers past the test for a repost, by where they are.
At(s, x) == {w \in Workers : step[w] = s /\ doc[w] = x}

\* Until a text has its hash, only those who are about to record it have
\* cognified it; from then on only those who were past the test still will.
CopiesBounded ==
    \A x \in Texts :
        /\ x \notin hashes => graph[x] <= Cardinality(At("record", x)) + faults
        /\ x \in hashes =>
              graph[x] + Cardinality(At("cognify", x)) <= Cardinality(Workers) + faults

Working == {"check", "cognify", "record"}

\* An updated_at is given once, and a note that has one has a text.
NotesStamped ==
    /\ \A n \in Notes : /\ updated[n] <= clock
                        /\ updated[n] # 0 => text[n] \in Texts
    /\ \A m, n \in Notes : updated[m] = updated[n] /\ updated[m] # 0 => m = n

\* Ingested as it stands, or passed over.
Covered(n) == n \in overtaken \/ text[n] \in hashes

CoveredUpto(t) == \A n \in Notes : 0 < updated[n] /\ updated[n] <= t => Covered(n)

\* The watermark, and the one a cycle is about to save.
WatermarksStand ==
    /\ mark # None => mark <= clock /\ CoveredUpto(mark)
    /\ \A p \in Pollers : poll[p].upto <= clock /\ CoveredUpto(poll[p].upto)

\* A batch was listed with the stamps the notes had; what is older than a note
\* still in it is in it too, or covered.
BatchStands ==
    \A p \in Pollers :
        /\ \A n \in Notes : poll[p].listed[n] <= updated[n]
        /\ \A n \in Rest(p), m \in Notes \ Rest(p) :
              0 < updated[m] /\ updated[m] < poll[p].listed[n] => Covered(m)

\* The note of a cycle is the oldest of its batch, and its text is the note's as
\* long as the note keeps the stamp; an edit makes it newer than all the batch.
Held(p, n, s) ==
    /\ n \in Rest(p)
    /\ Oldest(p, n)
    /\ poll[p].listed[n] <= s /\ s <= updated[n]
    /\ \A m \in Notes \ {n} : updated[m] # s
    /\ s = updated[n] => doc[p] = text[n]
    /\ s # updated[n] => \A m \in Notes : poll[p].listed[m] < updated[n]

NoteInHand ==
    \A p \in Pollers : step[p] \in Working => Held(p, poll[p].note, poll[p].stamp)

\* A worker past its start holds a text.
TextInHand == \A w \in Workers : step[w] \in Working => doc[w] \in Texts

IInv == /\ TypeOK /\ CopiesBounded /\ NotesStamped /\ WatermarksStand
        /\ BatchStands /\ NoteInHand /\ TextInHand

-----------------------------------------------------------------------------
(* Data lemmas *)

\* The workers in any place can be counted, and are at most all of them.
LEMMA AtFacts ==
    ASSUME NEW S, S \subseteq Workers
    PROVE  /\ IsFiniteSet(S) /\ Cardinality(S) \in Nat
           /\ Cardinality(Workers) \in Nat /\ Cardinality(S) <= Cardinality(Workers)
<1>1. IsFiniteSet(Workers) BY IngestAssumption DEF Workers
<1> QED BY <1>1, FS_Subset, FS_CardinalityType

\* Sets of workers that share none are together at most all of them.
LEMMA DisjointAt ==
    ASSUME NEW S, NEW T, S \subseteq Workers, T \subseteq Workers, S \cap T = {}
    PROVE  Cardinality(S) + Cardinality(T) <= Cardinality(Workers)
<1>1. IsFiniteSet(S) /\ IsFiniteSet(T) BY AtFacts
<1>2. Cardinality(S \cup T) = Cardinality(S) + Cardinality(T) - Cardinality(S \cap T)
    BY <1>1, FS_Union
<1>3. Cardinality(S \cap T) = 0 BY FS_EmptySet
<1>4. S \cup T \subseteq Workers OBVIOUS
<1>5. Cardinality(S \cup T) <= Cardinality(Workers) BY <1>4, AtFacts
<1> QED BY <1>2, <1>3, <1>5, AtFacts

\* What is older than a note of the batch is in the batch, if it was listed.
LEMMA BatchIsOldest ==
    ASSUME TypeOK, NEW fresh \in SUBSET Notes, NEW n \in Batch(fresh), NEW m \in fresh,
           updated[m] < updated[n]
    PROVE  m \in Batch(fresh)
<1> DEFINE Older(k) == {j \in fresh : updated[j] < updated[k]}
<1>1. n \in Notes /\ m \in Notes BY DEF Batch
<1>2. \A k \in Notes : updated[k] \in Nat BY IngestAssumption DEF TypeOK
<1>3. Older(m) \subseteq Older(n) BY <1>1, <1>2
<1>4. IsFiniteSet(Notes) BY IngestAssumption
<1>5. IsFiniteSet(Older(n)) /\ IsFiniteSet(Older(m)) BY <1>4, FS_Subset
<1>6. Cardinality(Older(m)) <= Cardinality(Older(n)) BY <1>3, <1>5, FS_Subset
<1>7. Cardinality(Older(m)) \in Nat /\ Cardinality(Older(n)) \in Nat
    BY <1>5, FS_CardinalityType
<1>8. Cardinality(Older(n)) < MaxNotesPerRun BY DEF Batch
<1>9. Cardinality(Older(m)) < MaxNotesPerRun BY <1>6, <1>7, <1>8, IngestAssumption
<1> QED BY <1>9 DEF Batch

-----------------------------------------------------------------------------
(* The type invariant *)

\* The end of an ingest keeps the types, whoever's it is.
LEMMA DoneTyped ==
    ASSUME TypeOK, NEW w \in Workers, step[w] \in Working, NoteInHand, Done(w)
    PROVE  /\ step' \in [Workers -> Steps]
           /\ doc' \in [Workers -> Texts \cup {None}]
           /\ poll' \in [Pollers -> Polls]
           /\ overtaken' \subseteq Notes
<1>1. CASE w \in Pollers
    <2> DEFINE r == poll[w]
    <2> DEFINE upto == IF r.stamp > r.upto THEN r.stamp ELSE r.upto
    <2>1. r \in Polls BY <1>1 DEF TypeOK
    <2>2. 0 \in 0..MaxClock BY IngestAssumption
    <2>3. upto \in 0..MaxClock BY <2>1 DEF Polls
    <2>4. [r.listed EXCEPT ![r.note] = 0] \in [Notes -> 0..MaxClock] BY <2>1, <2>2 DEF Polls
    <2>5. [r EXCEPT !.listed = [r.listed EXCEPT ![r.note] = 0], !.upto = upto,
                    !.note = None, !.stamp = 0] \in Polls
        BY <2>1, <2>2, <2>3, <2>4 DEF Polls
    <2>6. poll' = [poll EXCEPT ![w] = [r EXCEPT !.listed = [r.listed EXCEPT ![r.note] = 0],
                    !.upto = upto, !.note = None, !.stamp = 0]]
        BY <1>1, <2>1 DEF Done, Advance, TypeOK, Polls
    <2>7. poll' \in [Pollers -> Polls] BY <2>5, <2>6 DEF TypeOK
    <2>8. step' = [step EXCEPT ![w] = "next"] /\ doc' = [doc EXCEPT ![w] = None]
        BY <1>1 DEF Done, Advance
    <2>9. overtaken' \subseteq Notes BY <1>1 DEF Done, Advance, TypeOK
    <2> QED BY <2>7, <2>8, <2>9 DEF TypeOK, Steps
<1>2. CASE w \notin Pollers
    BY <1>2 DEF Done, TypeOK, Steps
<1> QED BY <1>1, <1>2

\* The constants every step needs.
LEMMA Numbers ==
    /\ 0 \in 0..MaxClock /\ 0 \in 0..MaxFaults
    /\ NoPoll \in Polls /\ Pollers \subseteq Workers /\ Requests \subseteq Workers
<1>1. 0 \in 0..MaxClock /\ 0 \in 0..MaxFaults BY IngestAssumption
<1> QED BY <1>1 DEF NoPoll, Polls, Workers

\* Types hold before the first note.
LEMMA TypesInit == Init => TypeOK
BY Numbers DEF Init, TypeOK, Steps

\* An edit of a note.
LEMMA TypesEdit ==
    ASSUME TypeOK, NEW n \in Notes, NEW x \in Texts, Edit(n, x) PROVE TypeOK'
<1>1. clock + 1 \in 0..MaxClock BY IngestAssumption DEF TypeOK, Edit
<1> QED BY <1>1 DEF TypeOK, Edit

\* The steps of a cycle.
LEMMA TypesCycle ==
    ASSUME TypeOK, NEW p \in Pollers, Cycle(p) PROVE TypeOK'
<1>1. CASE SeedWatermark(p)
    BY <1>1 DEF TypeOK, SeedWatermark
<1>2. CASE ListNotes(p)
    <2> DEFINE since == IF mark = None THEN 0 ELSE mark
    <2> DEFINE batch == Batch({n \in Notes : updated[n] > since})
    <2>1. since \in 0..MaxClock BY Numbers DEF TypeOK
    <2>2. [n \in Notes |-> IF n \in batch THEN updated[n] ELSE 0] \in [Notes -> 0..MaxClock]
        BY Numbers DEF TypeOK
    <2>3. poll' = [poll EXCEPT ![p] =
              [listed |-> [n \in Notes |-> IF n \in batch THEN updated[n] ELSE 0],
               since |-> since, upto |-> since, note |-> None, stamp |-> 0]]
        BY <1>2 DEF ListNotes
    <2> HIDE DEF since, batch
    <2>4. poll' \in [Pollers -> Polls] BY <2>1, <2>2, <2>3, Numbers DEF TypeOK, Polls
    <2>5. step' \in [Workers -> Steps] BY <1>2 DEF ListNotes, TypeOK, Steps
    <2> QED BY <1>2, <2>4, <2>5 DEF ListNotes, TypeOK
<1>3. CASE FetchNote(p)
    <2>1. PICK n \in Rest(p) :
              /\ poll' = [poll EXCEPT ![p].note = n, ![p].stamp = updated[n]]
              /\ doc' = [doc EXCEPT ![p] = text[n]]
        BY <1>3 DEF FetchNote
    <2>2. n \in Notes BY DEF Rest
    <2>3. poll' \in [Pollers -> Polls] BY <2>1, <2>2 DEF TypeOK, Polls
    <2>4. doc' \in [Workers -> Texts \cup {None}] BY <2>1, <2>2 DEF TypeOK
    <2>5. step' \in [Workers -> Steps] BY <1>3 DEF FetchNote, TypeOK, Steps
    <2> QED BY <1>3, <2>3, <2>4, <2>5 DEF FetchNote, TypeOK
<1>4. CASE SaveWatermark(p)
    <2>1. mark' \in 0..MaxClock \cup {None} BY <1>4 DEF SaveWatermark, TypeOK, Polls
    <2>2. poll' \in [Pollers -> Polls] BY <1>4, Numbers DEF SaveWatermark, TypeOK
    <2>3. step' \in [Workers -> Steps] BY <1>4 DEF SaveWatermark, TypeOK, Steps
    <2> QED BY <1>4, <2>1, <2>2, <2>3 DEF SaveWatermark, TypeOK
<1> QED BY <1>1, <1>2, <1>3, <1>4 DEF Cycle

\* The steps of an ingest.
LEMMA TypesIngest ==
    ASSUME TypeOK, NoteInHand, TextInHand, NEW w \in Workers, Ingest(w) PROVE TypeOK'
<1>1. CASE MessageSeen(w)
    <2>1. CASE doc[w] \in hashes
        <3>1. step[w] \in Working /\ Done(w) BY <1>1, <2>1 DEF MessageSeen, Working
        <3> QED BY <1>1, <3>1, DoneTyped DEF MessageSeen, TypeOK
    <2>2. CASE doc[w] \notin hashes
        BY <1>1, <2>2 DEF MessageSeen, TypeOK, Steps
    <2> QED BY <2>1, <2>2
<1>2. CASE Cognify(w)
    <2>1. doc[w] \in Texts BY <1>2 DEF Cognify, TextInHand, Working
    <2>2. graph[doc[w]] + 1 \in Nat BY <2>1 DEF TypeOK
    <2> QED BY <1>2, <2>2 DEF Cognify, TypeOK, Steps
<1>3. CASE RecordMessage(w)
    <2>1. step[w] \in Working /\ Done(w) BY <1>3 DEF RecordMessage, Working
    <2>2. doc[w] \in Texts BY <2>1 DEF TextInHand
    <2> QED BY <1>3, <2>1, <2>2, DoneTyped DEF RecordMessage, TypeOK
<1> QED BY <1>1, <1>2, <1>3 DEF Ingest

\* A request.
LEMMA TypesDeliver ==
    ASSUME TypeOK, NEW r \in Requests, NEW x \in Texts, Deliver(r, x) PROVE TypeOK'
BY Numbers DEF Deliver, TypeOK, Steps

\* A failure.
LEMMA TypesFails ==
    ASSUME TypeOK, NEW w \in Workers, Fails(w) PROVE TypeOK'
<1>1. faults' \in 0..MaxFaults BY IngestAssumption DEF Fails, TypeOK
<1>2. poll' \in [Pollers -> Polls] BY Numbers DEF Fails, TypeOK, Polls
<1> QED BY <1>1, <1>2 DEF Fails, TypeOK, Steps

\* A crash.
LEMMA TypesCrash ==
    ASSUME TypeOK, NEW w \in Workers, Crash(w) PROVE TypeOK'
<1>1. faults' \in 0..MaxFaults BY IngestAssumption DEF Crash, TypeOK
<1>2. poll' \in [Pollers -> Polls] BY Numbers DEF Crash, TypeOK
<1> QED BY <1>1, <1>2 DEF Crash, TypeOK, Steps

-----------------------------------------------------------------------------
(* DuplicatesBounded *)

\* A step of w leaves the other workers where they are.
Only(w) == \A v \in Workers \ {w} : step'[v] = step[v] /\ doc'[v] = doc[v]

\* The end of an ingest is a step of its worker, which is then past recording.
LEMMA DoneStep ==
    ASSUME TypeOK, NEW w \in Workers, Done(w)
    PROVE  Only(w) /\ step'[w] \in {"next", "idle"} /\ doc'[w] = None
BY DEF Done, Advance, TypeOK, Only

\* What a step of w does to the workers in a place.
LEMMA OnlyAt ==
    ASSUME TypeOK, NEW w \in Workers, Only(w), NEW s, NEW x
    PROVE  /\ step[w] # s /\ step'[w] # s => At(s, x)' = At(s, x)
           /\ step[w] = s /\ step'[w] # s =>
                At(s, x)' = IF doc[w] = x THEN At(s, x) \ {w} ELSE At(s, x)
           /\ step[w] # s /\ step'[w] = s =>
                At(s, x)' = IF doc'[w] = x THEN At(s, x) \cup {w} ELSE At(s, x)
BY DEF At, Only

\* Sets of workers, before and after a step.
LEMMA AtSets ==
    ASSUME NEW s, NEW x
    PROVE  At(s, x) \subseteq Workers /\ At(s, x)' \subseteq Workers
BY DEF At, Workers

\* A step of a worker that neither leaves nor enters the two places that count.
LEMMA CopiesElsewhere ==
    ASSUME TypeOK, CopiesBounded, NEW w \in Workers, Only(w),
           UNCHANGED <<graph, hashes, faults>>,
           step[w] \notin {"cognify", "record"}, step'[w] \notin {"cognify", "record"}
    PROVE  CopiesBounded'
<1>1. \A x : At("cognify", x)' = At("cognify", x) /\ At("record", x)' = At("record", x)
    BY OnlyAt
<1> QED BY <1>1 DEF CopiesBounded, Workers

\* The test for a repost.
LEMMA CopiesMessageSeen ==
    ASSUME TypeOK, CopiesBounded, NEW w \in Workers, MessageSeen(w) PROVE CopiesBounded'
<1>1. CASE doc[w] \in hashes
    BY <1>1, DoneStep, CopiesElsewhere DEF MessageSeen
<1>2. CASE doc[w] \notin hashes
    <2>1. Only(w) /\ step'[w] = "cognify" /\ step[w] = "check" /\ doc' = doc
        BY <1>2 DEF MessageSeen, Only, TypeOK
    <2>2. \A x \in Texts : At("record", x)' = At("record", x) BY <2>1, OnlyAt
    <2>3. \A x \in hashes : At("cognify", x)' = At("cognify", x) BY <1>2, <2>1, OnlyAt
    <2> QED BY <2>2, <2>3 DEF CopiesBounded, MessageSeen, Workers
<1> QED BY <1>1, <1>2

\* The model call: one copy more, one worker on.
LEMMA CopiesCognify ==
    ASSUME TypeOK, TextInHand, CopiesBounded, NEW w \in Workers, Cognify(w)
    PROVE  CopiesBounded'
<1> DEFINE d == doc[w]
<1>1. /\ Only(w) /\ step'[w] = "record" /\ step[w] = "cognify" /\ doc' = doc
      /\ graph' = [graph EXCEPT ![d] = @ + 1] /\ hashes' = hashes /\ faults' = faults
    BY DEF Cognify, Only, TypeOK
<1>2. d \in Texts BY <1>1 DEF TextInHand, Working
<1>3. ASSUME NEW x \in Texts
      PROVE  /\ x \notin hashes' => graph'[x] <= Cardinality(At("record", x)') + faults'
             /\ x \in hashes' =>
                  graph'[x] + Cardinality(At("cognify", x)') <= Cardinality(Workers) + faults'
    <2> DEFINE R == At("record", x)
    <2> DEFINE C == At("cognify", x)
    <2>1. R \subseteq Workers /\ C \subseteq Workers BY AtSets
    <2>2. /\ Cardinality(R) \in Nat /\ Cardinality(C) \in Nat
          /\ IsFiniteSet(R) /\ IsFiniteSet(C) /\ Cardinality(Workers) \in Nat
        BY <2>1, AtFacts
    <2>3. graph[x] \in Nat /\ faults \in Nat BY IngestAssumption DEF TypeOK
    <2>4. /\ x \notin hashes => graph[x] <= Cardinality(R) + faults
          /\ x \in hashes => graph[x] + Cardinality(C) <= Cardinality(Workers) + faults
        BY DEF CopiesBounded
    <2>5. CASE x = d
        <3>1. At("record", x)' = R \cup {w} /\ At("cognify", x)' = C \ {w}
            BY <1>1, <2>5, OnlyAt
        <3>2. w \notin R /\ w \in C BY <1>1, <2>5 DEF At
        <3> HIDE DEF R, C, d
        <3>3. Cardinality(R \cup {w}) = Cardinality(R) + 1
            BY <2>2, <3>2, FS_AddElement
        <3>4. Cardinality(C \ {w}) = Cardinality(C) - 1
            BY <2>2, <3>2, FS_RemoveElement
        <3>5. graph'[x] = graph[x] + 1 BY <1>1, <2>5 DEF TypeOK
        <3>6. /\ Cardinality(At("record", x)') = Cardinality(R) + 1
              /\ Cardinality(At("cognify", x)') = Cardinality(C) - 1
            BY <3>1, <3>3, <3>4
        <3> QED BY <1>1, <2>2, <2>3, <2>4, <3>5, <3>6
    <2>6. CASE x # d
        <3>1. At("record", x)' = R /\ At("cognify", x)' = C BY <1>1, <2>6, OnlyAt
        <3>2. graph'[x] = graph[x] BY <1>1, <2>6 DEF TypeOK
        <3> QED BY <1>1, <2>4, <3>1, <3>2
    <2> QED BY <2>5, <2>6
<1> QED BY <1>3 DEF CopiesBounded, Workers

\* The record: who was about to record and who will still cognify share nobody.
LEMMA CopiesRecord ==
    ASSUME TypeOK, TextInHand, CopiesBounded, NEW w \in Workers, RecordMessage(w)
    PROVE  CopiesBounded'
<1> DEFINE d == doc[w]
<1>1. /\ Only(w) /\ step'[w] \notin {"record", "cognify"} /\ step[w] = "record"
      /\ graph' = graph /\ hashes' = hashes \cup {d} /\ faults' = faults
    BY DoneStep DEF RecordMessage
<1>3. ASSUME NEW x \in Texts
      PROVE  /\ x \notin hashes' => graph'[x] <= Cardinality(At("record", x)') + faults'
             /\ x \in hashes' =>
                  graph'[x] + Cardinality(At("cognify", x)') <= Cardinality(Workers) + faults'
    <2> DEFINE R == At("record", x)
    <2> DEFINE C == At("cognify", x)
    <2>1. R \subseteq Workers /\ C \subseteq Workers /\ R \cap C = {} BY DEF At
    <2>2. Cardinality(R) \in Nat /\ Cardinality(C) \in Nat /\ Cardinality(Workers) \in Nat
        BY <2>1, AtFacts
    <2>3. graph[x] \in Nat /\ faults \in Nat BY IngestAssumption DEF TypeOK
    <2>4. /\ x \notin hashes => graph[x] <= Cardinality(R) + faults
          /\ x \in hashes => graph[x] + Cardinality(C) <= Cardinality(Workers) + faults
        BY DEF CopiesBounded
    <2>5. Cardinality(R) + Cardinality(C) <= Cardinality(Workers) BY <2>1, DisjointAt
    <2>6. At("cognify", x)' = C BY <1>1, OnlyAt
    <2>7. x # d => At("record", x)' = R BY <1>1, OnlyAt
    <2> HIDE DEF R, C
    <2> QED BY <1>1, <2>2, <2>3, <2>4, <2>5, <2>6, <2>7
<1> QED BY <1>3 DEF CopiesBounded, Workers

\* A failure or a crash takes one worker out, and is counted.
LEMMA CopiesFault ==
    ASSUME TypeOK, CopiesBounded, NEW w \in Workers, Fails(w) \/ Crash(w)
    PROVE  CopiesBounded'
<1>1. /\ Only(w) /\ step'[w] \notin {"record", "cognify"}
      /\ graph' = graph /\ hashes' = hashes /\ faults' = faults + 1
    BY DEF Fails, Crash, Only, TypeOK
<1>2. ASSUME NEW x \in Texts
      PROVE  /\ x \notin hashes' => graph'[x] <= Cardinality(At("record", x)') + faults'
             /\ x \in hashes' =>
                  graph'[x] + Cardinality(At("cognify", x)') <= Cardinality(Workers) + faults'
    <2> DEFINE R == At("record", x)
    <2> DEFINE C == At("cognify", x)
    <2>1. R \subseteq Workers /\ C \subseteq Workers BY AtSets
    <2>2. /\ Cardinality(R) \in Nat /\ Cardinality(C) \in Nat
          /\ IsFiniteSet(R) /\ IsFiniteSet(C) /\ Cardinality(Workers) \in Nat
        BY <2>1, AtFacts
    <2>3. graph[x] \in Nat /\ faults \in Nat BY IngestAssumption DEF TypeOK
    <2>4. /\ x \notin hashes => graph[x] <= Cardinality(R) + faults
          /\ x \in hashes => graph[x] + Cardinality(C) <= Cardinality(Workers) + faults
        BY DEF CopiesBounded
    <2>5. At("record", x)' \in {R, R \ {w}} /\ At("cognify", x)' \in {C, C \ {w}}
        BY <1>1, OnlyAt
    <2> HIDE DEF R, C
    <2>6. Cardinality(R \ {w}) \in {Cardinality(R), Cardinality(R) - 1}
        BY <2>2, FS_RemoveElement
    <2>7. Cardinality(C \ {w}) \in {Cardinality(C), Cardinality(C) - 1}
        BY <2>2, FS_RemoveElement
    <2>8. Cardinality(At("record", x)') \in {Cardinality(R), Cardinality(R) - 1}
        BY <2>5, <2>6
    <2>9. Cardinality(At("cognify", x)') \in {Cardinality(C), Cardinality(C) - 1}
        BY <2>5, <2>7
    <2> DEFINE r == Cardinality(At("record", x)')
    <2> DEFINE c == Cardinality(At("cognify", x)')
    <2> HIDE DEF r, c
    <2> QED BY <1>1, <2>2, <2>3, <2>4, <2>8, <2>9 DEF r, c
<1> QED BY <1>2 DEF CopiesBounded, Workers

-----------------------------------------------------------------------------
(* WatermarkCovers *)

Watermarks == NotesStamped /\ WatermarksStand /\ BatchStands /\ NoteInHand

\* The stamps are numbers.
LEMMA Stamps ==
    ASSUME TypeOK
    PROVE  /\ clock \in Nat /\ mark \in Nat \cup {None}
           /\ \A n \in Notes : updated[n] \in Nat
           /\ \A p \in Pollers : /\ poll[p] \in Polls
                                 /\ poll[p].upto \in Nat /\ poll[p].stamp \in Nat
                                 /\ \A n \in Notes : poll[p].listed[n] \in Nat
BY IngestAssumption DEF TypeOK, Polls

\* Steps that leave notes, watermarks and batches alone.
LEMMA WatermarksElsewhere ==
    ASSUME Watermarks, UNCHANGED <<updated, text, clock, mark, poll, overtaken>>,
           hashes \subseteq hashes',
           \A p \in Pollers : step'[p] \in Working => step[p] \in Working /\ doc'[p] = doc[p]
    PROVE  Watermarks'
<1>1. \A n : Covered(n) => Covered(n)' BY DEF Covered
<1>2. NotesStamped' BY DEF Watermarks, NotesStamped
<1>3. WatermarksStand'
    BY <1>1 DEF Watermarks, WatermarksStand, CoveredUpto
<1>4. BatchStands' BY <1>1 DEF Watermarks, BatchStands, Rest
<1>5. NoteInHand' BY DEF Watermarks, NoteInHand, Held, Rest, Oldest
<1> QED BY <1>2, <1>3, <1>4, <1>5 DEF Watermarks

\* An edited note is newer than every watermark, batch and note in hand.
LEMMA WatermarksEdit ==
    ASSUME TypeOK, Watermarks, NEW k \in Notes, NEW x \in Texts, Edit(k, x)
    PROVE  Watermarks'
<1>1. /\ updated' = [updated EXCEPT ![k] = clock + 1]
      /\ text' = [text EXCEPT ![k] = x]
      /\ clock' = clock + 1 /\ overtaken' = overtaken \ {k}
      /\ UNCHANGED <<mark, hashes, poll, step, doc>>
    BY DEF Edit
<1>2. /\ \A n \in Notes : updated[n] <= clock
      /\ \A n \in Notes \ {k} : updated'[n] = updated[n] /\ text'[n] = text[n]
      /\ updated'[k] = clock + 1 /\ text'[k] = x
    BY <1>1 DEF TypeOK, Watermarks, NotesStamped
<1>3. \A n \in Notes \ {k} : Covered(n) => Covered(n)' BY <1>1, <1>2 DEF Covered
<1>4. NotesStamped'
    BY <1>1, <1>2, Stamps DEF Watermarks, NotesStamped
<1>5. ASSUME NEW t \in Nat, t <= clock, CoveredUpto(t) PROVE CoveredUpto(t)'
    BY <1>2, <1>3, <1>5, Stamps DEF CoveredUpto
<1>6. WatermarksStand'
    BY <1>1, <1>5, Stamps DEF Watermarks, WatermarksStand
<1>7. \A p \in Pollers, n \in Notes : poll[p].listed[n] <= clock
    BY <1>2, Stamps DEF Watermarks, BatchStands
<1>8. BatchStands'
    <2> SUFFICES ASSUME NEW p \in Pollers
                 PROVE  /\ \A n \in Notes : poll'[p].listed[n] <= updated'[n]
                        /\ \A n \in Rest(p)', m \in Notes \ Rest(p)' :
                              0 < updated'[m] /\ updated'[m] < poll'[p].listed[n] => Covered(m)'
        BY DEF BatchStands
    <2>1. Rest(p)' = Rest(p) /\ Rest(p) \subseteq Notes BY <1>1 DEF Rest
    <2>2. \A n \in Notes : poll'[p].listed[n] <= updated'[n]
        BY <1>1, <1>2, <1>7, Stamps DEF Watermarks, BatchStands
    <2>3. ASSUME NEW n \in Rest(p), NEW m \in Notes \ Rest(p),
                 0 < updated'[m], updated'[m] < poll[p].listed[n]
          PROVE  Covered(m)'
        <3>1. m # k BY <1>2, <1>7, <2>1, <2>3, Stamps
        <3> QED BY <1>2, <1>3, <2>3, <3>1 DEF Watermarks, BatchStands
    <2> QED BY <1>1, <2>1, <2>2, <2>3
<1>9. ASSUME NEW p \in Pollers, NEW n \in Notes, NEW s \in Nat, Held(p, n, s)
      PROVE  Held(p, n, s)'
    <2>1. /\ n \in Rest(p) /\ Oldest(p, n)
          /\ poll[p].listed[n] <= s /\ s <= updated[n]
          /\ \A m \in Notes \ {n} : updated[m] # s
          /\ s = updated[n] => doc[p] = text[n]
          /\ s # updated[n] => \A m \in Notes : poll[p].listed[m] < updated[n]
        BY <1>9 DEF Held
    <2>2. Rest(p)' = Rest(p) /\ Oldest(p, n)' = Oldest(p, n) BY <1>1 DEF Rest, Oldest
    <2>3. s <= updated'[n] /\ \A m \in Notes \ {n} : updated'[m] # s
        BY <1>2, <2>1, Stamps
    <2>4. s = updated'[n] => doc[p] = text'[n] BY <1>2, <2>1, Stamps
    <2>5. s # updated'[n] => \A m \in Notes : poll[p].listed[m] < updated'[n]
        BY <1>2, <1>7, <2>1, Stamps
    <2> QED BY <1>1, <2>1, <2>2, <2>3, <2>4, <2>5 DEF Held
<1>10. NoteInHand'
    <2> SUFFICES ASSUME NEW p \in Pollers, step'[p] \in Working
                 PROVE  Held(p, poll[p].note, poll[p].stamp)'
        BY DEF NoteInHand
    <2>1. PICK n \in Notes, s \in Nat :
              n = poll[p].note /\ s = poll[p].stamp /\ Held(p, n, s)
        BY <1>1, Stamps DEF Watermarks, NoteInHand, Held, Rest
    <2>2. Held(p, n, s)' BY <1>9, <2>1
    <2> QED BY <1>1, <2>1, <2>2
<1> QED BY <1>4, <1>6, <1>8, <1>10 DEF Watermarks

\* Seeding the watermark passes over all there is.
LEMMA WatermarksSeed ==
    ASSUME TypeOK, Watermarks, NEW p \in Pollers, SeedWatermark(p) PROVE Watermarks'
<1>1. /\ mark' = clock /\ overtaken' = {n \in Notes : updated[n] # 0}
      /\ UNCHANGED <<updated, text, clock, hashes, step, doc, poll>>
    BY DEF SeedWatermark
<1>2. \A n \in Notes : 0 < updated[n] => Covered(n)' BY <1>1, Stamps DEF Covered
<1>3. NotesStamped' BY <1>1 DEF Watermarks, NotesStamped
<1>4. \A t : CoveredUpto(t)' BY <1>1, <1>2 DEF CoveredUpto
<1>5. WatermarksStand' BY <1>1, <1>4, Stamps DEF Watermarks, WatermarksStand
<1>6. BatchStands' BY <1>1, <1>2 DEF Watermarks, BatchStands, Rest
<1>7. NoteInHand' BY <1>1 DEF Watermarks, NoteInHand, Held, Rest, Oldest
<1> QED BY <1>3, <1>5, <1>6, <1>7 DEF Watermarks

\* A listing takes the oldest of what is newer than the watermark.
LEMMA WatermarksList ==
    ASSUME TypeOK, Watermarks, NEW p \in Pollers, ListNotes(p) PROVE Watermarks'
<1> DEFINE since == IF mark = None THEN 0 ELSE mark
<1> DEFINE fresh == {n \in Notes : updated[n] > since}
<1> DEFINE batch == Batch(fresh)
<1>1. /\ poll' = [poll EXCEPT ![p] =
              [listed |-> [n \in Notes |-> IF n \in batch THEN updated[n] ELSE 0],
               since |-> since, upto |-> since, note |-> None, stamp |-> 0]]
      /\ step' = [step EXCEPT ![p] = "next"]
      /\ UNCHANGED <<updated, text, clock, mark, hashes, doc, overtaken>>
    BY DEF ListNotes
<1>2. since \in Nat /\ since <= clock /\ CoveredUpto(since)
    BY Stamps DEF Watermarks, WatermarksStand, CoveredUpto
<1>3. batch \subseteq fresh /\ fresh \in SUBSET Notes BY DEF Batch
<1>4. /\ \A n \in Notes : poll'[p].listed[n] = IF n \in batch THEN updated[n] ELSE 0
      /\ poll'[p].upto = since
      /\ \A q \in Pollers \ {p} : poll'[q] = poll[q]
      /\ step'[p] = "next" /\ \A q \in Pollers \ {p} : step'[q] = step[q]
    BY <1>1, Numbers DEF TypeOK
<1>5. \A n \in Notes \ batch : 0 < updated[n] /\ (\E m \in batch : updated[n] < updated[m]) =>
          Covered(n)
    <2> SUFFICES ASSUME NEW n \in Notes \ batch, 0 < updated[n],
                        NEW m \in batch, updated[n] < updated[m]
                 PROVE  Covered(n)
        OBVIOUS
    <2>1. n \notin fresh BY <1>3, BatchIsOldest
    <2>2. updated[n] <= since BY <1>2, <2>1, Stamps
    <2> QED BY <1>2, <2>2 DEF CoveredUpto
<1> HIDE DEF since, fresh, batch
<1>6. \A n : Covered(n)' = Covered(n) BY <1>1 DEF Covered
<1>7. NotesStamped' BY <1>1 DEF Watermarks, NotesStamped
<1>8. WatermarksStand'
    BY <1>1, <1>2, <1>4, <1>6 DEF Watermarks, WatermarksStand, CoveredUpto
<1>9. BatchStands'
    <2>1. ASSUME NEW q \in Pollers \ {p}
          PROVE  /\ Rest(q)' = Rest(q)
                 /\ \A n \in Notes : poll'[q].listed[n] <= updated'[n]
                 /\ \A n \in Rest(q)', m \in Notes \ Rest(q)' :
                       0 < updated'[m] /\ updated'[m] < poll'[q].listed[n] => Covered(m)'
        BY <1>1, <1>4, <1>6 DEF Watermarks, BatchStands, Rest
    <2>2. \A n \in Notes : poll'[p].listed[n] <= updated'[n]
        BY <1>1, <1>4, Stamps
    <2>3. \A n \in batch : updated[n] > 0 /\ n \in Notes
        BY <1>2, <1>3, Stamps DEF fresh
    <2>4. Rest(p)' = batch
        BY <1>3, <1>4, <2>3, Stamps DEF Rest
    <2>5. \A n \in Rest(p)', m \in Notes \ Rest(p)' :
              0 < updated'[m] /\ updated'[m] < poll'[p].listed[n] => Covered(m)'
        BY <1>1, <1>4, <1>5, <1>6, <2>3, <2>4
    <2> QED BY <2>1, <2>2, <2>5 DEF BatchStands
<1>10. NoteInHand'
    BY <1>1, <1>4 DEF Watermarks, NoteInHand, Held, Rest, Oldest, Working
<1> QED BY <1>7, <1>8, <1>9, <1>10 DEF Watermarks

\* The oldest note of the batch, fetched as it is now.
LEMMA WatermarksFetch ==
    ASSUME TypeOK, Watermarks, NEW p \in Pollers, FetchNote(p) PROVE Watermarks'
<1>1. PICK n \in Rest(p) :
          /\ Oldest(p, n)
          /\ poll' = [poll EXCEPT ![p].note = n, ![p].stamp = updated[n]]
          /\ doc' = [doc EXCEPT ![p] = text[n]]
    BY DEF FetchNote
<1>2. /\ step' = [step EXCEPT ![p] = "check"]
      /\ UNCHANGED <<updated, text, clock, mark, hashes, overtaken>>
    BY DEF FetchNote
<1>3. /\ \A q \in Pollers : /\ poll'[q].listed = poll[q].listed
                             /\ poll'[q].upto = poll[q].upto
      /\ \A q \in Pollers \ {p} : /\ poll'[q] = poll[q] /\ step'[q] = step[q]
                                   /\ doc'[q] = doc[q]
      /\ poll'[p].note = n /\ poll'[p].stamp = updated[n] /\ doc'[p] = text[n]
    BY <1>1, <1>2, Numbers DEF TypeOK, Polls
<1>4. \A k : Covered(k)' = Covered(k) BY <1>2 DEF Covered
<1>5. \A q \in Pollers : Rest(q)' = Rest(q) /\ \A k : Oldest(q, k)' = Oldest(q, k)
    BY <1>3 DEF Rest, Oldest
<1>6. NotesStamped' BY <1>2 DEF Watermarks, NotesStamped
<1>7. WatermarksStand'
    BY <1>2, <1>3, <1>4 DEF Watermarks, WatermarksStand, CoveredUpto
<1>8. BatchStands'
    BY <1>2, <1>3, <1>4, <1>5 DEF Watermarks, BatchStands
<1>9. NoteInHand'
    <2>1. n \in Notes /\ updated[n] # 0
        BY <1>1, Stamps DEF Rest, Watermarks, BatchStands
    <2>2. poll[p].listed[n] <= updated[n] /\ \A m \in Notes \ {n} : updated[m] # updated[n]
        BY <2>1 DEF Watermarks, BatchStands, NotesStamped
    <2>3. ASSUME NEW q \in Pollers \ {p}, step'[q] \in Working
          PROVE  Held(q, poll[q].note, poll[q].stamp)'
        <3>1. PICK k, t : k = poll[q].note /\ t = poll[q].stamp /\ Held(q, k, t)
            BY <1>3, <2>3 DEF Watermarks, NoteInHand
        <3>2. Held(q, k, t)' BY <1>2, <1>3, <1>5, <3>1 DEF Held
        <3> QED BY <1>3, <3>1, <3>2
    <2>4. PICK u : u = updated[n] /\ u \in Nat BY <2>1, Stamps
    <2>5. Held(p, n, u)'
        <3>1. (n \in Rest(p) /\ Oldest(p, n))' BY <1>1, <1>5
        <3>2. (poll[p].listed[n] <= u /\ u <= updated[n])' BY <1>2, <1>3, <2>2, <2>4
        <3>3. (\A m \in Notes \ {n} : updated[m] # u)' BY <1>2, <2>2, <2>4
        <3>4. doc'[p] = text'[n] /\ u = updated'[n] BY <1>2, <1>3, <2>4
        <3> QED BY <3>1, <3>2, <3>3, <3>4 DEF Held
    <2>6. Held(p, poll[p].note, poll[p].stamp)' BY <1>3, <2>4, <2>5
    <2> QED BY <2>3, <2>6 DEF NoteInHand
<1> QED BY <1>6, <1>7, <1>8, <1>9 DEF Watermarks

\* A cycle ends: what it saves is covered.
LEMMA WatermarksEnd ==
    ASSUME TypeOK, Watermarks, NEW p \in Pollers, SaveWatermark(p) \/ Crash(p)
    PROVE  Watermarks'
<1>1. /\ poll' = [poll EXCEPT ![p] = NoPoll]
      /\ step' = [step EXCEPT ![p] = "idle"]
      /\ mark' \in {mark, poll[p].upto}
      /\ \A q \in Pollers \ {p} : doc'[q] = doc[q]
      /\ UNCHANGED <<updated, text, clock, hashes, overtaken>>
    BY Numbers DEF SaveWatermark, Crash, TypeOK
<1>2. /\ poll'[p] = NoPoll /\ step'[p] = "idle"
      /\ \A q \in Pollers \ {p} : poll'[q] = poll[q] /\ step'[q] = step[q]
    BY <1>1, Numbers DEF TypeOK
<1>3. \A k : Covered(k)' = Covered(k) BY <1>1 DEF Covered
<1>4. NotesStamped' BY <1>1 DEF Watermarks, NotesStamped
<1>5. \A t : CoveredUpto(t)' <=> CoveredUpto(t) BY <1>1, <1>3 DEF CoveredUpto
<1>6. CoveredUpto(0) BY Stamps DEF CoveredUpto
<1>7. WatermarksStand'
    BY <1>1, <1>2, <1>5, <1>6, Stamps DEF Watermarks, WatermarksStand, NoPoll
<1>8. Rest(p)' = {} BY <1>2 DEF Rest, NoPoll
<1>9. \A n \in Notes : poll'[p].listed[n] <= updated'[n]
    BY <1>1, <1>2, Stamps DEF NoPoll
<1>10. BatchStands'
    <2>1. ASSUME NEW q \in Pollers \ {p}
          PROVE  /\ \A n \in Notes : poll'[q].listed[n] <= updated'[n]
                 /\ \A n \in Rest(q)', m \in Notes \ Rest(q)' :
                       0 < updated'[m] /\ updated'[m] < poll'[q].listed[n] => Covered(m)'
        BY <1>1, <1>2, <1>3 DEF Watermarks, BatchStands, Rest
    <2> QED BY <1>8, <1>9, <2>1 DEF BatchStands
<1>11. NoteInHand'
    BY <1>1, <1>2 DEF Watermarks, NoteInHand, Held, Rest, Oldest, Working
<1> QED BY <1>4, <1>7, <1>10, <1>11 DEF Watermarks

\* A cycle leaves its loop with the watermark it has come to.
LEMMA WatermarksFail ==
    ASSUME TypeOK, Watermarks, NEW p \in Pollers, Fails(p) PROVE Watermarks'
<1>1. /\ poll' = [poll EXCEPT ![p].note = None, ![p].stamp = 0]
      /\ step' = [step EXCEPT ![p] = "save"] /\ doc' = [doc EXCEPT ![p] = None]
      /\ UNCHANGED <<updated, text, clock, mark, hashes, overtaken>>
    BY DEF Fails
<1>2. /\ \A q \in Pollers : /\ poll'[q].listed = poll[q].listed
                             /\ poll'[q].upto = poll[q].upto
      /\ \A q \in Pollers \ {p} : /\ poll'[q] = poll[q] /\ step'[q] = step[q]
                                   /\ doc'[q] = doc[q]
      /\ step'[p] = "save"
    BY <1>1, Numbers DEF TypeOK, Polls
<1>3. \A k : Covered(k)' = Covered(k) BY <1>1 DEF Covered
<1>4. \A q \in Pollers : Rest(q)' = Rest(q) BY <1>2 DEF Rest
<1>5. NotesStamped' BY <1>1 DEF Watermarks, NotesStamped
<1>6. WatermarksStand'
    BY <1>1, <1>2, <1>3 DEF Watermarks, WatermarksStand, CoveredUpto
<1>7. BatchStands'
    BY <1>1, <1>2, <1>3, <1>4 DEF Watermarks, BatchStands
<1>8. NoteInHand'
    <2> SUFFICES ASSUME NEW q \in Pollers, step'[q] \in Working
                 PROVE  Held(q, poll[q].note, poll[q].stamp)'
        BY DEF NoteInHand
    <2>1. q # p BY <1>2 DEF Working
    <2>2. PICK k, t : k = poll[q].note /\ t = poll[q].stamp /\ Held(q, k, t)
        BY <1>2, <2>1 DEF Watermarks, NoteInHand
    <2>3. Held(q, k, t)' BY <1>1, <1>2, <2>1, <2>2 DEF Held, Rest, Oldest
    <2> QED BY <1>2, <2>1, <2>2, <2>3
<1> QED BY <1>5, <1>6, <1>7, <1>8 DEF Watermarks

\* The note in hand is ingested: whatever is older than its stamp is covered, for
\* it was older when the batch was listed, or the note has overtaken it.
LEMMA WatermarksAdvance ==
    ASSUME TypeOK, Watermarks, NEW p \in Pollers, step[p] \in Working, Done(p),
           UNCHANGED <<updated, text, clock, mark>>,
           hashes \subseteq hashes', doc[p] \in hashes'
    PROVE  Watermarks'
<1>0. PICK n, s, r : n = poll[p].note /\ s = poll[p].stamp /\ r = poll[p]
    OBVIOUS
<1>1. /\ n \in Rest(p) /\ n \in Notes /\ Oldest(p, n)
      /\ r.listed[n] <= s /\ s <= updated[n]
      /\ \A m \in Notes \ {n} : updated[m] # s
      /\ s = updated[n] => doc[p] = text[n]
      /\ s # updated[n] => \A m \in Notes : r.listed[m] < updated[n]
    BY <1>0 DEF Watermarks, NoteInHand, Held, Rest
<1>2. /\ poll' = [poll EXCEPT ![p].listed = [@ EXCEPT ![n] = 0],
                              ![p].upto = IF s > @ THEN s ELSE @,
                              ![p].note = None, ![p].stamp = 0]
      /\ overtaken' = overtaken \cup
              {m \in Notes \ {n} : r.listed[n] # s /\ 0 < updated[m] /\ updated[m] < s}
      /\ step' = [step EXCEPT ![p] = "next"] /\ doc' = [doc EXCEPT ![p] = None]
    BY <1>0 DEF Done, Advance
<1>3. /\ \A q \in Pollers \ {p} : /\ poll'[q] = poll[q] /\ step'[q] = step[q]
                                   /\ doc'[q] = doc[q]
      /\ poll'[p].listed = [r.listed EXCEPT ![n] = 0]
      /\ poll'[p].upto = IF s > r.upto THEN s ELSE r.upto
      /\ step'[p] = "next"
    BY <1>0, <1>2, Numbers DEF TypeOK, Polls
<1>4. s \in Nat /\ r.upto \in Nat /\ \A m \in Notes : r.listed[m] \in Nat
    BY <1>0, Stamps
<1>5. /\ \A m \in Notes \ {n} : poll'[p].listed[m] = r.listed[m]
      /\ poll'[p].listed[n] = 0
    BY <1>0, <1>1, <1>3, <1>4, Stamps DEF Polls
<1>6. \A k : Covered(k) => Covered(k)' BY <1>2 DEF Covered
<1>7. s = updated[n] => Covered(n)' BY <1>1 DEF Covered
<1>8. NotesStamped' BY DEF Watermarks, NotesStamped
<1>9. CoveredUpto(s)'
    <2> SUFFICES ASSUME NEW m \in Notes, 0 < updated[m], updated[m] <= s PROVE Covered(m)'
        BY DEF CoveredUpto
    <2>1. CASE m = n BY <1>1, <1>4, <1>7, <2>1, Stamps
    <2>2. CASE m # n /\ r.listed[n] # s
        <3>1. updated[m] < s BY <1>1, <1>4, <2>2, Stamps
        <3> QED BY <1>2, <2>2, <3>1 DEF Covered
    <2>3. CASE m # n /\ r.listed[n] = s
        <3>1. updated[m] < r.listed[n] BY <1>1, <1>4, <2>3, Stamps
        <3>2. m \notin Rest(p)
            BY <1>0, <1>1, <1>4, <3>1, Stamps DEF Oldest, Watermarks, BatchStands
        <3>3. Covered(m) BY <1>0, <1>1, <2>3, <3>1, <3>2 DEF Watermarks, BatchStands
        <3> QED BY <1>6, <3>3
    <2> QED BY <2>1, <2>2, <2>3
<1>10. WatermarksStand'
    <2>1. \A t : CoveredUpto(t) => CoveredUpto(t)' BY <1>6 DEF CoveredUpto
    <2>2. mark' # None => mark' <= clock' /\ CoveredUpto(mark)'
        BY <2>1 DEF Watermarks, WatermarksStand
    <2>3. ASSUME NEW q \in Pollers
          PROVE  (poll[q].upto <= clock /\ CoveredUpto(poll[q].upto))'
        <3>1. PICK t : t = poll[q].upto /\ CoveredUpto(t) /\ t <= clock
            BY DEF Watermarks, WatermarksStand
        <3>2. s <= clock BY <1>1, <1>4, Stamps DEF Watermarks, NotesStamped
        <3>3. PICK u \in {s, t} : u = poll'[q].upto BY <1>0, <1>3, <3>1
        <3>4. CoveredUpto(u)' BY <1>9, <2>1, <3>1
        <3> QED BY <3>1, <3>2, <3>3, <3>4
    <2> QED BY <2>2, <2>3 DEF WatermarksStand
<1>11. BatchStands'
    <2>1. ASSUME NEW q \in Pollers \ {p}
          PROVE  /\ \A k \in Notes : poll'[q].listed[k] <= updated'[k]
                 /\ \A k \in Rest(q)', m \in Notes \ Rest(q)' :
                       0 < updated'[m] /\ updated'[m] < poll'[q].listed[k] => Covered(m)'
        BY <1>3, <1>6 DEF Watermarks, BatchStands, Rest
    <2>2. \A k \in Notes : poll'[p].listed[k] <= updated'[k]
        BY <1>0, <1>5, Stamps DEF Watermarks, BatchStands
    <2>3. Rest(p)' = Rest(p) \ {n} BY <1>0, <1>1, <1>5 DEF Rest
    <2>4. ASSUME NEW k \in Rest(p) \ {n}, NEW m \in Notes \ (Rest(p) \ {n}),
                 0 < updated[m], updated[m] < poll'[p].listed[k]
          PROVE  Covered(m)'
        <3>1. k \in Notes /\ poll'[p].listed[k] = r.listed[k] BY <1>5 DEF Rest
        <3>2. CASE m = n
            BY <1>1, <1>4, <1>7, <2>4, <3>1, <3>2, Stamps
        <3>3. CASE m # n
            BY <1>0, <1>6, <2>4, <3>1, <3>3 DEF Watermarks, BatchStands
        <3> QED BY <3>2, <3>3
    <2> QED BY <2>1, <2>2, <2>3, <2>4 DEF BatchStands
<1>12. NoteInHand'
    BY <1>3 DEF Watermarks, NoteInHand, Held, Rest, Oldest, Working
<1> QED BY <1>8, <1>10, <1>11, <1>12 DEF Watermarks

-----------------------------------------------------------------------------
(* The invariant *)

\* It holds before the first note.
LEMMA IInvInit == Init => IInv
<1> SUFFICES ASSUME Init PROVE IInv OBVIOUS
<1>1. TypeOK BY TypesInit
<1>2. CopiesBounded
    <2>1. ASSUME NEW x PROVE Cardinality(At("record", x)) \in Nat
        BY AtSets, AtFacts
    <2> QED BY <2>1, IngestAssumption DEF Init, CopiesBounded
<1>3. NotesStamped /\ WatermarksStand /\ BatchStands
    BY DEF Init, NotesStamped, WatermarksStand, CoveredUpto, BatchStands, Rest, NoPoll
<1>4. NoteInHand /\ TextInHand
    BY Numbers DEF Init, NoteInHand, TextInHand, Working
<1> QED BY <1>1, <1>2, <1>3, <1>4 DEF IInv

\* What a worker holds is a text.
LEMMA TextStep ==
    ASSUME IInv, Next PROVE TextInHand'
<1>1. ASSUME NEW w \in Workers, Done(w) PROVE step'[w] \notin Working /\ Only(w)
    BY <1>1, DoneStep DEF IInv, Working
<1>2. ASSUME NEW w \in Workers, Ingest(w) PROVE TextInHand'
    <2>1. CASE Done(w)
        BY <1>1, <2>1 DEF IInv, TextInHand, Only
    <2>2. CASE ~Done(w)
        BY <1>2, <2>2 DEF Ingest, MessageSeen, Cognify, RecordMessage, IInv, TextInHand,
                          TypeOK, Working
    <2> QED BY <2>1, <2>2
<1>3. ASSUME NEW p \in Pollers, Cycle(p) PROVE TextInHand'
    <2>1. CASE FetchNote(p)
        <3>1. PICK n \in Rest(p) : doc' = [doc EXCEPT ![p] = text[n]]
            BY <2>1 DEF FetchNote
        <3>2. n \in Notes /\ text[n] \in Texts
            BY <3>1, Stamps DEF Rest, IInv, BatchStands, NotesStamped
        <3> QED BY <2>1, <3>1, <3>2 DEF FetchNote, IInv, TextInHand, TypeOK, Working
    <2>2. CASE ~FetchNote(p)
        BY <1>3, <2>2 DEF Cycle, SeedWatermark, ListNotes, SaveWatermark, IInv, TextInHand,
                          TypeOK, Working
    <2> QED BY <2>1, <2>2
<1>4. ASSUME NEW n \in Notes, NEW x \in Texts, Edit(n, x) PROVE TextInHand'
    BY <1>4 DEF Edit, IInv, TextInHand
<1>5. ASSUME NEW r \in Requests, NEW x \in Texts, Deliver(r, x) PROVE TextInHand'
    BY <1>5 DEF Deliver, IInv, TextInHand, TypeOK, Working
<1>6. ASSUME NEW w \in Workers, Fails(w) \/ Crash(w) PROVE TextInHand'
    BY <1>6 DEF Fails, Crash, IInv, TextInHand, TypeOK, Working
<1> QED BY <1>2, <1>3, <1>4, <1>5, <1>6 DEF Next

\* Every step of an ingest keeps the watermarks covered.
LEMMA WatermarksIngest ==
    ASSUME IInv, NEW w \in Workers, Ingest(w) PROVE Watermarks'
<1>1. TypeOK /\ Watermarks BY DEF IInv, Watermarks
<1>2. step[w] \in Working BY DEF Ingest, MessageSeen, Cognify, RecordMessage, Working
<1>3. hashes \subseteq hashes' /\ UNCHANGED <<updated, text, clock, mark>>
    BY DEF Ingest, MessageSeen, Cognify, RecordMessage
<1>4. CASE Done(w) /\ doc[w] \in hashes'
    <2>1. CASE w \in Pollers BY <1>1, <1>2, <1>3, <1>4, <2>1, WatermarksAdvance
    <2>2. CASE w \notin Pollers
        <3>1. UNCHANGED <<poll, overtaken>> BY <1>4, <2>2 DEF Done
        <3>2. \A p \in Pollers : step'[p] = step[p] /\ doc'[p] = doc[p]
            BY <1>1, <1>4, <2>2, DoneStep, Numbers DEF Only
        <3> QED BY <1>1, <1>3, <3>1, <3>2, WatermarksElsewhere
    <2> QED BY <2>1, <2>2
<1>5. CASE UNCHANGED <<poll, overtaken, doc>> /\ Only(w)
    BY <1>1, <1>2, <1>3, <1>5, WatermarksElsewhere, Numbers DEF Only
<1>6. Only(w) BY <1>1, DoneStep
          DEF Ingest, MessageSeen, Cognify, RecordMessage, Only, TypeOK
<1>7. \/ Done(w) /\ doc[w] \in hashes'
      \/ UNCHANGED <<poll, overtaken, doc>>
    BY DEF Ingest, MessageSeen, Cognify, RecordMessage
<1> QED BY <1>4, <1>5, <1>6, <1>7

\* One step, of anyone.
LEMMA IInvStep ==
    ASSUME IInv, [Next]_vars PROVE IInv'
<1>0. TypeOK /\ CopiesBounded /\ Watermarks /\ NoteInHand /\ TextInHand
    BY DEF IInv, Watermarks
<1>1. CASE UNCHANGED vars
    <2>1. UNCHANGED <<updated, text, clock, mark, hashes, graph, step, doc, poll,
                      overtaken, faults>>
        BY <1>1 DEF vars
    <2>2. TypeOK' /\ TextInHand' BY <1>0, <2>1 DEF TypeOK, TextInHand
    <2>3. Watermarks' BY <1>0, <2>1, WatermarksElsewhere
    <2>4. CopiesBounded' BY <1>0, <2>1 DEF CopiesBounded, At
    <2> QED BY <2>2, <2>3, <2>4 DEF IInv, Watermarks
<1>2. CASE Next
    <2>1. TypeOK'
        BY <1>0, <1>2, TypesEdit, TypesCycle, TypesDeliver, TypesIngest, TypesFails,
           TypesCrash DEF Next
    <2>2. TextInHand' BY <1>2, TextStep
    <2>3. CopiesBounded'
        <3>1. ASSUME NEW w \in Workers, Ingest(w) PROVE CopiesBounded'
            BY <1>0, <3>1, CopiesMessageSeen, CopiesCognify, CopiesRecord DEF Ingest
        <3>2. ASSUME NEW w \in Workers, Fails(w) \/ Crash(w) PROVE CopiesBounded'
            BY <1>0, <3>2, CopiesFault
        <3>3. ASSUME NEW p \in Pollers, Cycle(p) PROVE CopiesBounded'
            <4>1. CASE SeedWatermark(p)
                BY <1>0, <4>1 DEF SeedWatermark, CopiesBounded, At
            <4>2. CASE ListNotes(p) \/ FetchNote(p) \/ SaveWatermark(p)
                <5>1. /\ Only(p) /\ UNCHANGED <<graph, hashes, faults>>
                      /\ step[p] \notin {"cognify", "record"}
                      /\ step'[p] \notin {"cognify", "record"}
                    BY <1>0, <4>2, Numbers
                       DEF ListNotes, FetchNote, SaveWatermark, Only, TypeOK
                <5> QED BY <1>0, <5>1, CopiesElsewhere, Numbers
            <4> QED BY <3>3, <4>1, <4>2 DEF Cycle
        <3>4. ASSUME NEW r \in Requests, NEW x \in Texts, Deliver(r, x) PROVE CopiesBounded'
            <4>1. /\ Only(r) /\ UNCHANGED <<graph, hashes, faults>>
                  /\ step[r] \notin {"cognify", "record"}
                  /\ step'[r] \notin {"cognify", "record"}
                BY <1>0, <3>4, Numbers DEF Deliver, Only, TypeOK
            <4> QED BY <1>0, <4>1, CopiesElsewhere, Numbers
        <3>5. ASSUME NEW n \in Notes, NEW x \in Texts, Edit(n, x) PROVE CopiesBounded'
            BY <1>0, <3>5 DEF Edit, CopiesBounded, At
        <3> QED BY <1>2, <3>1, <3>2, <3>3, <3>4, <3>5 DEF Next
    <2>4. Watermarks'
        <3>1. ASSUME NEW n \in Notes, NEW x \in Texts, Edit(n, x) PROVE Watermarks'
            BY <1>0, <3>1, WatermarksEdit
        <3>2. ASSUME NEW p \in Pollers, Cycle(p) PROVE Watermarks'
            BY <1>0, <3>2, WatermarksSeed, WatermarksList, WatermarksFetch, WatermarksEnd
               DEF Cycle
        <3>3. ASSUME NEW r \in Requests, NEW x \in Texts, Deliver(r, x) PROVE Watermarks'
            <4>1. \A p \in Pollers : step'[p] = step[p] /\ doc'[p] = doc[p]
                BY <1>0, <3>3, IngestAssumption DEF Deliver, TypeOK
            <4> QED BY <1>0, <3>3, <4>1, WatermarksElsewhere DEF Deliver
        <3>4. ASSUME NEW w \in Workers, Ingest(w) PROVE Watermarks'
            BY <3>4, WatermarksIngest
        <3>5. ASSUME NEW w \in Workers, Fails(w) \/ Crash(w) PROVE Watermarks'
            <4>1. CASE w \in Pollers
                BY <1>0, <3>5, <4>1, WatermarksFail, WatermarksEnd
            <4>2. CASE w \notin Pollers
                <5>1. \A p \in Pollers : step'[p] = step[p] /\ doc'[p] = doc[p]
                    BY <1>0, <3>5, <4>2, Numbers DEF Fails, Crash, TypeOK
                <5> QED BY <1>0, <3>5, <4>2, <5>1, WatermarksElsewhere DEF Fails, Crash
            <4> QED BY <4>1, <4>2
        <3> QED BY <1>2, <3>1, <3>2, <3>3, <3>4, <3>5 DEF Next
    <2> QED BY <2>1, <2>2, <2>3, <2>4 DEF IInv, Watermarks
<1> QED BY <1>1, <1>2

\* The invariant of the ingest core holds throughout.
LEMMA IInvHolds == Spec => []IInv
BY IInvInit, IInvStep, PTL DEF Spec

-----------------------------------------------------------------------------
(* Theorems *)

\* The variables keep their types.
THEOREM IngestTyped == Spec => []TypeOK
<1>1. IInv => TypeOK BY DEF IInv
<1> QED BY <1>1, IInvHolds, PTL

\* The check before the model call lets a text through once per worker and failure.
THEOREM CopiesAreBounded == Spec => []DuplicatesBounded
<1>1. IInv => DuplicatesBounded
    <2> SUFFICES ASSUME IInv, NEW x \in Texts
                 PROVE  graph[x] <= Cardinality(Workers) + faults
        BY DEF DuplicatesBounded
    <2> DEFINE R == Cardinality(At("record", x))
    <2> DEFINE C == Cardinality(At("cognify", x))
    <2> DEFINE W == Cardinality(Workers)
    <2>1. R \in Nat /\ C \in Nat /\ W \in Nat /\ R <= W BY AtSets, AtFacts
    <2>2. graph[x] \in Nat /\ faults \in Nat BY IngestAssumption DEF IInv, TypeOK
    <2>3. /\ x \notin hashes => graph[x] <= R + faults
          /\ x \in hashes => graph[x] + C <= W + faults
        BY DEF IInv, CopiesBounded
    <2> HIDE DEF R, C, W
    <2>4. graph[x] <= W + faults BY <2>1, <2>2, <2>3
    <2> QED BY <2>4 DEF W
<1> QED BY <1>1, IInvHolds, PTL

\* What the watermark has passed is ingested, or was overtaken on the way.
THEOREM WatermarkIsCovered == Spec => []WatermarkCovers
<1>1. IInv => WatermarkCovers
    BY DEF IInv, WatermarksStand, CoveredUpto, Covered, WatermarkCovers
<1> QED BY <1>1, IInvHolds, PTL

-----------------------------------------------------------------------------
(* The Notion To-Do sync: the invariants *)

\* A card's initiative on its way to the task.
AssignmentInHand ==
    \A c \in Cards :
        /\ card[c] = "absent" => task[c] = "absent" /\ accepting[c] = Nil
        /\ card[c] = "pending" =>
              task[c] = "absent" /\ accepting[c] = Nil /\ aim[c] = wanted[c]
        /\ accepting[c] # Nil => task[c] = "absent" /\ accepting[c].goal = wanted[c]

\* What a cycle holds: a plan for each card left to do and for no other, with a
\* page unless there is one to create.
Holds(y) ==
    LET s == sync[y]
    IN  /\ s.step \in {"idle", "pages"} <=> s.todo = {}
        /\ s.step # "pages" => s.tasks = NotLoaded
        /\ \A c \in Cards :
              /\ s.plan[c] # Nil <=> c \in s.todo
              /\ c \in s.todo =>
                    /\ s.plan[c].write # "create" => s.plan[c].page # Nil
                    /\ s.step = "record" /\ InHand(y) = c => s.plan[c].page # Nil
              /\ s.tasks[c].status # "absent" \/ c \in s.todo => task[c] # "absent"

CyclesHold == \A y \in Syncs : Holds(y)

\* A page that a card refers to is a row of that card, or none.
PagesAreOwn ==
    \A c \in Cards, p \in PageIds : Refers(c, p) /\ page[p] # Nil => page[p].of = c

Live(y, c) == sync[y].tasks[c].status # "absent"
Vacant(c) == synced[c] = Nil \/ page[synced[c].page] = Nil

Created(y, c) ==
    /\ sync[y].step = "record" /\ c \in sync[y].todo /\ InHand(y) = c
    /\ sync[y].plan[c].write = "create"

\* Cycle x knows the row that the record of c names.
Knows(x, c) ==
    /\ Live(x, c) =>
          IF sync[x].tasks[c].synced = Nil THEN synced[c] = Nil
          ELSE synced[c] # Nil /\ sync[x].tasks[c].synced.page = synced[c].page
    /\ c \in sync[x].todo =>
          IF sync[x].plan[c].write = "create" THEN Vacant(c)
          ELSE synced[c] # Nil /\ sync[x].plan[c].page = synced[c].page

\* A row beside the one that the record names is one that a cycle has just created
\* and will record.
Settled(c) ==
    /\ \A x \in Syncs : Knows(x, c)
    /\ \A x, y \in Syncs : Created(x, c) /\ Created(y, c) => x = y
    /\ \A p \in PageIds : IsRow(p, c) =>
          \/ synced[c] # Nil /\ synced[c].page = p
          \/ \E x \in Syncs : Created(x, c) /\ sync[x].plan[c].page = p

RowsSettled == \A c \in Cards \ stray : Settled(c)

\* The Done a record keeps is the one it was hashed with.
HashesAgree ==
    \A c \in Cards :
        /\ synced[c] # Nil => synced[c].hash.done = synced[c].done
        /\ \A y \in Syncs :
              LET loaded == sync[y].tasks[c].synced
              IN  loaded # Nil => loaded.hash.done = loaded.done

\* What cycle y has loaded of a card that nobody else touched is current.
LoadIsCurrent(y, c) ==
    Live(y, c) => /\ sync[y].tasks[c].status = task[c]
                  /\ sync[y].tasks[c].synced = synced[c]

\* And so is what it plans: a row to update is there; the side that keeps its
\* Done is the one that changed; the task has the Done the plan settles on unless
\* it is still to be pulled; a row that needs no update has it, and a row
\* written.
PlanIsCurrent(y, c) ==
    c \in sync[y].todo =>
        LET s == sync[y].plan[c]
            hand == c = InHand(y)
        IN  /\ s.write # "create" =>
                  /\ synced[c] # Nil /\ page[s.page] # Nil
                  /\ s.done # "agree" => s.props.done # synced[c].done
                  /\ s.write = "skip" => page[s.page].props.done = s.props.done
            /\ \/ s.done = "pull" /\ (~hand \/ sync[y].step = "pull")
               \/ Completed(c) = s.props.done
            /\ hand /\ sync[y].step = "record" =>
                  page[s.page] # Nil /\ page[s.page].props.done = s.props.done

CyclesAreCurrent ==
    \A y \in Syncs : \A c \in Cards \ sync[y].touched :
        LoadIsCurrent(y, c) /\ PlanIsCurrent(y, c)

-----------------------------------------------------------------------------
(* The data of a cycle *)

CycleState == [step : {"idle", "pages", "pull", "write", "record"},
               tasks : [Cards -> Loaded], plan : [Cards -> Plan \cup {Nil}],
               todo : SUBSET Cards, touched : SUBSET Cards]

\* Cycle x works on as it did; some cards may have been touched.
SameWork(x) ==
    /\ sync'[x].step = sync[x].step /\ sync'[x].tasks = sync[x].tasks
    /\ sync'[x].plan = sync[x].plan /\ sync'[x].todo = sync[x].todo
    /\ sync[x].touched \subseteq sync'[x].touched

\* A set that is not empty has a first card.
LEMMA FirstOfFacts ==
    ASSUME NEW S, S # {}
    PROVE  FirstOf(S) \in S
BY DEF FirstOf

\* An idle cycle is in the range of the cycles.
LEMMA IdleTyped == NotLoaded \in [Cards -> Loaded] /\ Idle \in CycleState
BY DEF NotLoaded, Loaded, Idle, CycleState, Assignment

\* A step that touches a card changes nothing else of a cycle.
LEMMA TouchFacts ==
    ASSUME sync \in [Syncs -> CycleState], NEW c \in Cards, Touch(c)
    PROVE  /\ sync' \in [Syncs -> CycleState]
           /\ \A x \in Syncs :
                 SameWork(x) /\ (sync[x].step # "idle" => c \in sync'[x].touched)
<1>1. \A x \in Syncs : sync[x] \in CycleState
    OBVIOUS
<1>2. \A x \in Syncs :
         /\ [sync[x] EXCEPT !.touched = @ \cup {c}] \in CycleState
         /\ sync'[x] = IF sync[x].step = "idle" THEN sync[x]
                       ELSE [sync[x] EXCEPT !.touched = @ \cup {c}]
    BY <1>1 DEF Touch, CycleState
<1>3. sync' \in [Syncs -> CycleState]
    BY <1>1, <1>2 DEF Touch
<1>4. ASSUME NEW x \in Syncs
      PROVE  SameWork(x) /\ (sync[x].step # "idle" => c \in sync'[x].touched)
    <2> DEFINE s == [sync[x] EXCEPT !.touched = @ \cup {c}]
    <2>1. /\ s.step = sync[x].step /\ s.tasks = sync[x].tasks /\ s.plan = sync[x].plan
          /\ s.todo = sync[x].todo /\ s.touched = sync[x].touched \cup {c}
        BY <1>1 DEF CycleState
    <2> HIDE DEF s
    <2>2. sync'[x] = IF sync[x].step = "idle" THEN sync[x] ELSE s
        BY <1>2 DEF s
    <2> QED BY <2>1, <2>2 DEF SameWork
<1> QED BY <1>3, <1>4

\* The OKR pull touches every card of every cycle under way.
LEMMA PullTouches ==
    ASSUME sync \in [Syncs -> CycleState], NEW pulled, okr_pull(pulled)
    PROVE  /\ sync' \in [Syncs -> CycleState]
           /\ \A x \in Syncs :
                 SameWork(x) /\ (sync[x].step # "idle" => sync'[x].touched = Cards)
<1>1. \A x \in Syncs : sync[x] \in CycleState
    OBVIOUS
<1>2. \A x \in Syncs : [sync[x] EXCEPT !.touched = Cards] \in CycleState
    BY <1>1 DEF CycleState
<1>3. sync' = [x \in Syncs |-> IF sync[x].step = "idle" THEN sync[x]
                               ELSE [sync[x] EXCEPT !.touched = Cards]]
    BY DEF okr_pull
<1>4. sync' \in [Syncs -> CycleState]
    BY <1>1, <1>2, <1>3
<1>5. ASSUME NEW x \in Syncs
      PROVE  SameWork(x) /\ (sync[x].step # "idle" => sync'[x].touched = Cards)
    <2> DEFINE s == [sync[x] EXCEPT !.touched = Cards]
    <2>1. /\ s.step = sync[x].step /\ s.tasks = sync[x].tasks /\ s.plan = sync[x].plan
          /\ s.todo = sync[x].todo /\ s.touched = Cards /\ sync[x].touched \subseteq Cards
        BY <1>1 DEF CycleState
    <2> HIDE DEF s
    <2>2. sync'[x] = IF sync[x].step = "idle" THEN sync[x] ELSE s
        BY <1>3 DEF s
    <2> QED BY <2>1, <2>2 DEF SameWork
<1> QED BY <1>4, <1>5

\* Going on with one card: the cycle is what it was made, the others are touched.
LEMMA GoOnFacts ==
    ASSUME sync \in [Syncs -> CycleState], NEW c \in Cards, NEW y \in Syncs,
           NEW cycle \in CycleState, GoOn(y, cycle, c)
    PROVE  /\ sync' \in [Syncs -> CycleState]
           /\ sync'[y] = cycle
           /\ \A x \in Syncs \ {y} :
                 SameWork(x) /\ (sync[x].step # "idle" => c \in sync'[x].touched)
<1>1. \A x \in Syncs : sync[x] \in CycleState
    OBVIOUS
<1>2. \A x \in Syncs :
         /\ [sync[x] EXCEPT !.touched = @ \cup {c}] \in CycleState
         /\ sync'[x] = IF x = y THEN cycle
                       ELSE IF sync[x].step = "idle" THEN sync[x]
                       ELSE [sync[x] EXCEPT !.touched = @ \cup {c}]
    BY <1>1 DEF GoOn, CycleState
<1>3. sync' \in [Syncs -> CycleState]
    BY <1>1, <1>2 DEF GoOn
<1>4. ASSUME NEW x \in Syncs \ {y}
      PROVE  SameWork(x) /\ (sync[x].step # "idle" => c \in sync'[x].touched)
    <2> DEFINE s == [sync[x] EXCEPT !.touched = @ \cup {c}]
    <2>1. /\ s.step = sync[x].step /\ s.tasks = sync[x].tasks /\ s.plan = sync[x].plan
          /\ s.todo = sync[x].todo /\ s.touched = sync[x].touched \cup {c}
        BY <1>1 DEF CycleState
    <2> HIDE DEF s
    <2>2. sync'[x] = IF sync[x].step = "idle" THEN sync[x] ELSE s
        BY <1>2 DEF s
    <2> QED BY <2>1, <2>2 DEF SameWork
<1> QED BY <1>2, <1>3, <1>4

\* The next card of a plan, or the end of it.
LEMMA TurnFacts ==
    ASSUME NEW cycle \in CycleState, NEW planned \in [Cards -> Plan \cup {Nil}],
           NEW todo \in SUBSET Cards
    PROVE  LET next == Turn(cycle, planned, todo)
           IN  /\ next \in CycleState
               /\ next.tasks = NotLoaded /\ next.todo = todo
               /\ todo = {} => next = Idle
               /\ todo # {} =>
                     /\ next.plan = planned /\ next.touched = cycle.touched
                     /\ next.step = IF planned[FirstOf(todo)].done = "pull"
                                    THEN "pull" ELSE "write"
<1>1. CASE todo = {}
    BY <1>1, IdleTyped DEF Turn, Idle
<1>2. CASE todo # {}
    <2> DEFINE next == [cycle EXCEPT !.tasks = NotLoaded, !.plan = planned, !.todo = todo,
                          !.step = IF planned[FirstOf(todo)].done = "pull"
                                   THEN "pull" ELSE "write"]
    <2>1. Turn(cycle, planned, todo) = next
        BY <1>2 DEF Turn
    <2>2. /\ next \in CycleState
          /\ next.tasks = NotLoaded /\ next.todo = todo
          /\ next.plan = planned /\ next.touched = cycle.touched
          /\ next.step = IF planned[FirstOf(todo)].done = "pull" THEN "pull" ELSE "write"
        BY IdleTyped DEF CycleState
    <2> QED BY <1>2, <2>1, <2>2
<1> QED BY <1>1, <1>2

\* What plan makes of a task: a row is created exactly when none is found; the Done it
\* keeps is the task's unless it pulls, and is not the recorded one unless both agree; a
\* row it skips has that Done.
LEMMA PlanFacts ==
    ASSUME NEW t \in Loaded, page \in [PageIds -> Row \cup {Nil}]
    PROVE  LET s == plan(t)
           IN  /\ s \in Plan
               /\ s.write = "create" <=> t.synced = Nil \/ page[t.synced.page] = Nil
               /\ s.write # "create" => s.page = t.synced.page
               /\ s.write = "create" => s.page = Nil
               /\ s.done # "pull" => s.props.done = (t.status = "completed")
               /\ s.write # "create" /\ t.synced.hash.done = t.synced.done =>
                     /\ s.done # "agree" => s.props.done # t.synced.done
                     /\ s.write = "skip" => page[s.page].props.done = s.props.done
<1> USE SyncAssumption
<1> DEFINE found == IF t.synced # Nil /\ page[t.synced.page] # Nil
                    THEN t.synced.page ELSE Nil
           pg_done == t.status = "completed"
           notion_done == IF found # Nil THEN page[found].props.done ELSE Nil
           merge == merge_done(pg_done, notion_done,
                               IF t.synced # Nil THEN t.synced.done ELSE Nil)
           props == [done |-> IF merge = "pull" THEN notion_done ELSE pg_done,
                     initiative |-> t.goal]
           s == [done |-> merge, page |-> found, props |-> props,
                 write |-> IF found = Nil THEN "create"
                           ELSE IF props # t.synced.hash THEN "update" ELSE "skip"]
<1>1. plan(t) = s
    BY DEF plan, content_hash
<1>2. CASE found = Nil
    <2>1. t.synced = Nil \/ page[t.synced.page] = Nil
        BY <1>2 DEF Loaded, Synced, PageIds
    <2>2. merge = "push" /\ props = [done |-> pg_done, initiative |-> t.goal]
          /\ s.write = "create"
        BY <1>2 DEF merge_done
    <2>3. s \in Plan
        BY <1>2, <2>2 DEF Plan, Projection, Loaded
    <2>4. s.page = Nil /\ s.done = "push" /\ s.props.done = pg_done
        BY <1>2, <2>2
    <2> HIDE DEF s, found, merge, props
    <2> QED BY <1>1, <2>1, <2>2, <2>3, <2>4
<1>3. CASE found # Nil
    <2>1. /\ t.synced \in Synced /\ page[t.synced.page] \in Row /\ page[t.synced.page] # Nil
          /\ t.synced # Nil /\ found = t.synced.page /\ found \in PageIds
        BY <1>3 DEF Loaded, Synced
    <2>2. notion_done \in BOOLEAN /\ t.synced.done \in BOOLEAN /\ pg_done \in BOOLEAN
          /\ notion_done = page[t.synced.page].props.done
        BY <1>3, <2>1 DEF Row, Projection, Synced
    <2>3. /\ merge \in {"push", "pull", "agree"}
          /\ merge = "agree" => pg_done = notion_done
          /\ merge = "pull" => notion_done # t.synced.done
          /\ merge = "push" => pg_done # notion_done /\ notion_done = t.synced.done
        BY <1>3, <2>1, <2>2 DEF merge_done
    <2> HIDE DEF merge, notion_done, pg_done, found
    <2>4. props \in Projection /\ props.done = IF merge = "pull" THEN notion_done ELSE pg_done
        BY <2>2 DEF Projection, Loaded
    <2>5. s \in Plan /\ s.write # "create"
        BY <1>3, <2>1, <2>3, <2>4 DEF Plan
    <2>6. t.synced.hash.done = t.synced.done /\ merge # "agree" => props.done # t.synced.done
        BY <2>2, <2>3, <2>4
    <2>7. t.synced.hash.done = t.synced.done /\ s.write = "skip" => notion_done = props.done
        BY <1>3, <2>2, <2>3, <2>4
    <2>8. s.page = found /\ s.done = merge /\ s.props = props
        OBVIOUS
    <2> HIDE DEF s, props
    <2> QED BY <1>1, <2>1, <2>2, <2>3, <2>4, <2>5, <2>6, <2>7, <2>8 DEF pg_done
<1> QED BY <1>2, <1>3

-----------------------------------------------------------------------------
(* What a step makes of the cycles *)

TodoTyped == TodoTypeOK /\ CyclesHold

TasksStay == \A c \in Cards : task[c] # "absent" => task'[c] # "absent"

\* Cycle y has written something of card c.
OthersTouched(y, c) ==
    \A x \in Syncs \ {y} :
        SameWork(x) /\ (sync[x].step # "idle" => c \in sync'[x].touched)

\* The type invariant's cycles are records of CycleState.
LEMMA SyncType == TodoTypeOK => sync \in [Syncs -> CycleState]
BY DEF TodoTypeOK, CycleState

\* A cycle that works on as it did has the same card in hand.
LEMMA SameHand ==
    ASSUME NEW x, SameWork(x)
    PROVE  InHand(x)' = InHand(x) /\ Doing(x)' = Doing(x)
BY DEF SameWork, InHand, Doing

\* And holds the same, as long as no task goes away.
LEMMA HeldSame ==
    ASSUME NEW x \in Syncs, Holds(x), SameWork(x), TasksStay
    PROVE  Holds(x)'
BY SameHand DEF Holds, SameWork, TasksStay

\* The card in hand, and what is planned for it.
LEMMA HandFacts ==
    ASSUME TodoTyped, NEW y \in Syncs, sync[y].step \in {"pull", "write", "record"}
    PROVE  /\ sync[y] \in CycleState
           /\ sync[y].todo # {} /\ InHand(y) \in sync[y].todo /\ InHand(y) \in Cards
           /\ Doing(y) \in Plan /\ Doing(y) = sync[y].plan[InHand(y)]
           /\ Doing(y).write # "create" \/ sync[y].step = "record" =>
                 Doing(y).page \in PageIds
<1>1. sync[y] \in CycleState /\ Holds(y)
    BY SyncType DEF TodoTyped, CyclesHold
<1>2. sync[y].todo # {}
    BY <1>1 DEF Holds
<1>3. InHand(y) \in sync[y].todo /\ InHand(y) \in Cards
    BY <1>1, <1>2, FirstOfFacts DEF InHand, CycleState
<1>4. Doing(y) \in Plan
    BY <1>1, <1>3 DEF Doing, Holds, CycleState
<1>5. Doing(y).write # "create" \/ sync[y].step = "record" => Doing(y).page # Nil
    BY <1>1, <1>3 DEF Doing, Holds
<1>6. Doing(y).page # Nil => Doing(y).page \in PageIds
    BY <1>4 DEF Plan
<1> QED BY <1>1, <1>2, <1>3, <1>4, <1>5, <1>6 DEF Doing

\* A copy of the tasks and their records.
LEMMA LoadTasksFacts ==
    ASSUME TodoTyped, NEW y \in Syncs, LoadTasks(y)
    PROVE  /\ sync' \in [Syncs -> CycleState]
           /\ \A x \in Syncs \ {y} : sync'[x] = sync[x]
           /\ sync'[y].step = "pages" /\ sync'[y].todo = {}
           /\ sync'[y].plan = [c \in Cards |-> Nil]
           /\ \A c \in Cards :
                 /\ task[c] = "absent" => sync'[y].tasks[c] = NotLoaded[c]
                 /\ task[c] # "absent" => /\ sync'[y].tasks[c].status = task[c]
                                          /\ sync'[y].tasks[c].synced = synced[c]
<1> DEFINE tasks == [c \in Cards |->
             IF task[c] = "absent" THEN Idle.tasks[c]
             ELSE [status |-> task[c], goal |-> shown(goal[c]), synced |-> synced[c]]]
           s == [Idle EXCEPT !.step = "pages", !.tasks = tasks]
<1>1. \A c \in Cards : tasks[c] \in Loaded
    <2> SUFFICES ASSUME NEW c \in Cards PROVE tasks[c] \in Loaded
        OBVIOUS
    <2>1. goal[c] \in Assignment /\ synced[c] \in Synced \cup {Nil}
          /\ task[c] \in {"absent", "open", "completed"}
        BY DEF TodoTyped, TodoTypeOK
    <2>2. shown(goal[c]) \in Assignment
        BY <2>1 DEF shown, Assignment
    <2> QED BY <2>1, <2>2, IdleTyped DEF Loaded, Idle
<1>2. sync' = [sync EXCEPT ![y] = s]
    BY DEF LoadTasks
<1>3. /\ s \in CycleState /\ s.step = "pages" /\ s.tasks = tasks
      /\ s.todo = {} /\ s.plan = [c \in Cards |-> Nil]
    <2>1. Idle.todo = {} /\ Idle.plan = [c \in Cards |-> Nil] /\ tasks \in [Cards -> Loaded]
        BY <1>1 DEF Idle
    <2> HIDE DEF tasks
    <2> QED BY <2>1, IdleTyped DEF CycleState
<1>4. \A c \in Cards :
         /\ task[c] = "absent" => tasks[c] = NotLoaded[c]
         /\ task[c] # "absent" => tasks[c].status = task[c] /\ tasks[c].synced = synced[c]
    BY DEF Idle
<1> HIDE DEF s, tasks
<1>5. sync' \in [Syncs -> CycleState] /\ sync'[y] = s
      /\ \A x \in Syncs \ {y} : sync'[x] = sync[x]
    BY <1>2, <1>3, SyncType DEF TodoTyped
<1> QED BY <1>3, <1>4, <1>5

\* A plan for each of them, made from the copy.
LEMMA LoadPagesFacts ==
    ASSUME TodoTyped, NEW y \in Syncs, LoadPages(y)
    PROVE  LET live == {c \in Cards : Live(y, c)}
           IN  /\ sync' \in [Syncs -> CycleState]
               /\ \A x \in Syncs \ {y} : sync'[x] = sync[x]
               /\ sync'[y].tasks = NotLoaded /\ sync'[y].todo = live
               /\ live = {} => sync'[y] = Idle
               /\ live # {} =>
                     /\ sync'[y].touched = sync[y].touched
                     /\ \A c \in Cards : sync'[y].plan[c] =
                           IF c \in live THEN plan(sync[y].tasks[c]) ELSE Nil
                     /\ sync'[y].step = IF sync'[y].plan[FirstOf(live)].done = "pull"
                                        THEN "pull" ELSE "write"
<1> DEFINE live == {c \in Cards : Live(y, c)}
           planned == [c \in Cards |->
                         IF c \in live THEN plan(sync[y].tasks[c]) ELSE Nil]
           next == Turn(sync[y], planned, live)
<1>1. sync[y] \in CycleState /\ sync[y].tasks \in [Cards -> Loaded]
      /\ page \in [PageIds -> Row \cup {Nil}]
    BY SyncType DEF TodoTyped, TodoTypeOK, CycleState
<1>2. planned \in [Cards -> Plan \cup {Nil}]
    BY <1>1, PlanFacts
<1>3. sync' = [sync EXCEPT ![y] = next]
    BY SyncType DEF TodoTyped, LoadPages, Live
<1>4. /\ next \in CycleState
      /\ next.tasks = NotLoaded /\ next.todo = live
      /\ live = {} => next = Idle
      /\ live # {} =>
            /\ next.plan = planned /\ next.touched = sync[y].touched
            /\ next.step = IF planned[FirstOf(live)].done = "pull" THEN "pull" ELSE "write"
    <2>1. live \in SUBSET Cards
        OBVIOUS
    <2> HIDE DEF planned, live
    <2> QED BY <1>1, <1>2, <2>1, TurnFacts
<1>5. \A c \in Cards : planned[c] = IF c \in live THEN plan(sync[y].tasks[c]) ELSE Nil
    OBVIOUS
<1> HIDE DEF next, planned
<1>6. /\ sync' \in [Syncs -> CycleState] /\ sync'[y] = next
      /\ \A x \in Syncs \ {y} : sync'[x] = sync[x]
    BY <1>3, <1>4, SyncType DEF TodoTyped
<1> QED BY <1>4, <1>5, <1>6

\* A pull leaves the plan alone.
LEMMA PullFacts ==
    ASSUME TodoTyped, NEW y \in Syncs, Pull(y)
    PROVE  /\ sync' \in [Syncs -> CycleState]
           /\ OthersTouched(y, InHand(y))
           /\ sync'[y].step = "write" /\ sync'[y].tasks = sync[y].tasks
           /\ sync'[y].plan = sync[y].plan /\ sync'[y].todo = sync[y].todo
           /\ sync'[y].touched = sync[y].touched
<1> DEFINE s == [sync[y] EXCEPT !.step = "write"]
<1>1. InHand(y) \in Cards /\ sync[y] \in CycleState
    BY HandFacts DEF Pull
<1>2. /\ s \in CycleState /\ s.step = "write" /\ s.tasks = sync[y].tasks
      /\ s.plan = sync[y].plan /\ s.todo = sync[y].todo /\ s.touched = sync[y].touched
    BY <1>1 DEF CycleState
<1>3. GoOn(y, s, InHand(y))
    BY DEF Pull
<1> HIDE DEF s
<1>4. sync \in [Syncs -> CycleState]
    BY SyncType DEF TodoTyped
<1> QED BY <1>1, <1>2, <1>3, <1>4, GoOnFacts DEF OthersTouched

\* The page that Write writes.
Written(y) == IF Doing(y).write = "create" THEN NewPage ELSE Doing(y).page

\* A write puts the page into the plan.
LEMMA WriteFacts ==
    ASSUME TodoTyped, NEW y \in Syncs, Write(y)
    PROVE  /\ sync' \in [Syncs -> CycleState]
           /\ OthersTouched(y, InHand(y))
           /\ Written(y) \in PageIds
           /\ Doing(y).write = "create" => Written(y) \in FreePages
           /\ sync'[y].step = "record" /\ sync'[y].tasks = sync[y].tasks
           /\ sync'[y].todo = sync[y].todo /\ sync'[y].touched = sync[y].touched
           /\ \A c \in Cards : c # InHand(y) => sync'[y].plan[c] = sync[y].plan[c]
           /\ sync'[y].plan[InHand(y)] = [Doing(y) EXCEPT !.page = Written(y)]
           /\ sync'[y].plan[InHand(y)] \in Plan
<1> DEFINE c == InHand(y)
           s == [sync[y] EXCEPT !.step = "record", !.plan[c].page = Written(y)]
<1>1. /\ c \in Cards /\ sync[y] \in CycleState /\ Doing(y) \in Plan
      /\ Doing(y) = sync[y].plan[c]
      /\ Doing(y).write # "create" => Doing(y).page \in PageIds
    BY HandFacts DEF Write
<1>2. Doing(y).write = "create" => Written(y) \in FreePages
    BY DEF Write, Written, NewPage
<1>3. Written(y) \in PageIds
    BY <1>1, <1>2 DEF Written, FreePages
<1>4. GoOn(y, s, c)
    BY DEF Write, Written
<1> HIDE DEF c
<1>5. [Doing(y) EXCEPT !.page = Written(y)] \in Plan
    BY <1>1, <1>3 DEF Plan
<1>6. s = [sync[y] EXCEPT !.step = "record",
                          !.plan = [sync[y].plan EXCEPT
                                      ![c] = [Doing(y) EXCEPT !.page = Written(y)]]]
    BY <1>1
<1>7. /\ s \in CycleState /\ s.step = "record" /\ s.tasks = sync[y].tasks
      /\ s.todo = sync[y].todo /\ s.touched = sync[y].touched
      /\ s.plan = [sync[y].plan EXCEPT ![c] = [Doing(y) EXCEPT !.page = Written(y)]]
    <2> HIDE DEF s
    <2> QED BY <1>1, <1>5, <1>6 DEF CycleState
<1> HIDE DEF s
<1>8. /\ \A d \in Cards : d # c => s.plan[d] = sync[y].plan[d]
      /\ s.plan[c] = [Doing(y) EXCEPT !.page = Written(y)]
    BY <1>1, <1>7 DEF CycleState
<1>9. sync \in [Syncs -> CycleState]
    BY SyncType DEF TodoTyped
<1>10. sync' \in [Syncs -> CycleState] /\ sync'[y] = s /\ OthersTouched(y, c)
    BY <1>1, <1>4, <1>7, <1>9, GoOnFacts DEF OthersTouched
<1> QED BY <1>2, <1>3, <1>5, <1>7, <1>8, <1>10 DEF c

\* A record takes the card out of the plan.
LEMMA RecordFacts ==
    ASSUME TodoTyped, NEW y \in Syncs, Record(y)
    PROVE  LET c == InHand(y)
               left == sync[y].todo \ {c}
           IN  /\ sync' \in [Syncs -> CycleState]
               /\ OthersTouched(y, c)
               /\ sync'[y].tasks = NotLoaded /\ sync'[y].todo = left
               /\ left = {} => sync'[y] = Idle
               /\ left # {} =>
                     /\ sync'[y].touched = sync[y].touched
                     /\ sync'[y].plan[c] = Nil
                     /\ \A d \in Cards : d # c => sync'[y].plan[d] = sync[y].plan[d]
                     /\ sync'[y].step = IF sync'[y].plan[FirstOf(left)].done = "pull"
                                        THEN "pull" ELSE "write"
<1> DEFINE c == InHand(y)
           left == sync[y].todo \ {c}
           planned == [sync[y].plan EXCEPT ![c] = Nil]
           next == Turn(sync[y], planned, left)
<1>1. c \in Cards /\ sync[y] \in CycleState
    BY HandFacts DEF Record
<1>2. left \in SUBSET Cards /\ planned \in [Cards -> Plan \cup {Nil}]
    BY <1>1 DEF CycleState
<1>3. planned[c] = Nil /\ \A d \in Cards : d # c => planned[d] = sync[y].plan[d]
    BY <1>1 DEF CycleState
<1>4. GoOn(y, next, c)
    BY DEF Record
<1> HIDE DEF c, left, planned
<1>5. /\ next \in CycleState /\ next.tasks = NotLoaded /\ next.todo = left
      /\ left = {} => next = Idle
      /\ left # {} =>
            /\ next.plan = planned /\ next.touched = sync[y].touched
            /\ next.step = IF planned[FirstOf(left)].done = "pull" THEN "pull" ELSE "write"
    BY <1>1, <1>2, TurnFacts
<1>6. sync \in [Syncs -> CycleState]
    BY SyncType DEF TodoTyped
<1> HIDE DEF next
<1>7. sync' \in [Syncs -> CycleState] /\ sync'[y] = next /\ OthersTouched(y, c)
    BY <1>1, <1>4, <1>5, <1>6, GoOnFacts DEF OthersTouched
<1> QED BY <1>3, <1>5, <1>7 DEF c, left

-----------------------------------------------------------------------------
(* Types *)

\* Cycles that work on as they did hold what they held.
LEMMA AllHeldSame ==
    ASSUME CyclesHold, TasksStay, \A x \in Syncs : SameWork(x)
    PROVE  CyclesHold'
BY HeldSame DEF CyclesHold

\* An idle cycle holds nothing.
LEMMA IdleHeld ==
    ASSUME NEW y \in Syncs, sync'[y] = Idle
    PROVE  Holds(y)'
BY DEF Holds, Idle, NotLoaded

\* Done makes no task appear or go.
LEMMA SetDoneFacts ==
    ASSUME task \in [Cards -> {"absent", "open", "completed"}],
           NEW c \in Cards, NEW done \in BOOLEAN, SetDone(c, done)
    PROVE  /\ task' \in [Cards -> {"absent", "open", "completed"}]
           /\ \A d \in Cards : /\ task'[d] = "absent" <=> task[d] = "absent"
                               /\ d # c => task'[d] = task[d]
           /\ task[c] # "absent" => Completed(c)' = done
BY DEF SetDone, Completed

\* No card, task, row or record at the start.
LEMMA TodoTypedInit == TodoInit => TodoTyped
<1> SUFFICES ASSUME TodoInit PROVE TodoTyped
    OBVIOUS
<1>1. sync \in [Syncs -> CycleState] /\ \A y \in Syncs : sync[y] = Idle
    BY IdleTyped DEF TodoInit
<1>2. TodoTypeOK
    BY <1>1, SyncAssumption DEF TodoInit, TodoTypeOK, CycleState, Assignment, Standing
<1>3. CyclesHold
    BY <1>1 DEF CyclesHold, Holds, Idle, NotLoaded
<1> QED BY <1>2, <1>3 DEF TodoTyped

\* #task-tinder.
LEMMA CardTyped ==
    ASSUME TodoTyped, NEW c \in Cards, Tinder(c) \/ PromoteFails(c)
    PROVE  TodoTyped'
<1> USE SyncAssumption
<1>1. ASSUME UNCHANGED sync, TodoTypeOK', TasksStay
      PROVE  TodoTyped'
    <2>1. \A x \in Syncs : SameWork(x)
        BY <1>1 DEF SameWork
    <2> QED BY <1>1, <2>1, AllHeldSame DEF TodoTyped
<1>2. ASSUME NEW g \in Assignment, add_todo(c, g) PROVE TodoTyped'
    <2>1. TodoTypeOK' /\ TasksStay /\ UNCHANGED sync
        BY <1>2 DEF add_todo, TodoTyped, TodoTypeOK, TasksStay
    <2> QED BY <1>1, <2>1
<1>3. CASE PostCard(c)
    <2>1. TodoTypeOK' /\ TasksStay /\ UNCHANGED sync
        BY <1>3 DEF PostCard, TodoTyped, TodoTypeOK, TasksStay, history
    <2> QED BY <1>1, <2>1
<1>4. ASSUME NEW status \in {"accepted", "declined", "deferred"}, decide(c, status)
      PROVE  TodoTyped'
    <2>1. accepting' \in [Cards -> {Nil} \cup [goal : Assignment]]
        BY <1>4 DEF decide, TodoTyped, TodoTypeOK
    <2>2. TodoTypeOK' /\ TasksStay /\ UNCHANGED sync
        BY <1>4, <2>1 DEF decide, TodoTyped, TodoTypeOK, TasksStay, history
    <2> QED BY <1>1, <2>2
<1>5. CASE promote(c)
    <2>1. accepting[c].goal \in Assignment
        BY <1>5 DEF promote, TodoTyped, TodoTypeOK
    <2>2. TodoTypeOK' /\ TasksStay /\ UNCHANGED sync
        BY <1>5, <2>1 DEF promote, TodoTyped, TodoTypeOK, TasksStay, history
    <2> QED BY <1>1, <2>2
<1>6. CASE PromoteFails(c)
    <2>1. TodoTypeOK' /\ TasksStay /\ UNCHANGED sync
        BY <1>6 DEF PromoteFails, Event, TodoTyped, TodoTypeOK, TasksStay, history
    <2> QED BY <1>1, <2>1
<1>7. ASSUME NEW kind \in {"card", "task"}, NEW g \in Assignment, assign(kind, c, g)
      PROVE  TodoTyped'
    <2>1. sync' \in [Syncs -> CycleState] /\ \A x \in Syncs : SameWork(x)
        <3>1. CASE Touch(c)
            BY <3>1, SyncType, TouchFacts DEF TodoTyped
        <3>2. CASE UNCHANGED sync
            BY <3>2, SyncType DEF TodoTyped, SameWork
        <3> QED BY <1>7, <3>1, <3>2 DEF assign
    <2>2. TodoTypeOK' /\ TasksStay
        BY <1>7, <2>1 DEF assign, Event, TodoTyped, TodoTypeOK, CycleState, TasksStay
    <2> QED BY <2>1, <2>2, AllHeldSame DEF TodoTyped
<1> QED BY <1>2, <1>3, <1>4, <1>5, <1>6, <1>7 DEF Tinder

\* The operator's other acts, and the OKR pull.
LEMMA ActTyped ==
    ASSUME TodoTyped,
           \/ \E c \in Cards : handle_toggle(c)
           \/ \E pulled \in [Initiatives -> Standing] : okr_pull(pulled)
           \/ \E p \in PageIds : Tick(p) \/ Delete(p) \/ \E g \in Assignment : Retarget(p, g)
    PROVE  TodoTyped'
<1> USE SyncAssumption
<1>0. sync \in [Syncs -> CycleState] /\ page \in [PageIds -> Row \cup {Nil}]
    BY SyncType DEF TodoTyped, TodoTypeOK
<1>1. ASSUME NEW c \in Cards, Touch(c)
      PROVE  sync' \in [Syncs -> CycleState] /\ \A x \in Syncs : SameWork(x)
    BY <1>0, <1>1, TouchFacts
<1>2. ASSUME NEW c \in Cards, handle_toggle(c) PROVE TodoTyped'
    <2>1. sync' \in [Syncs -> CycleState] /\ \A x \in Syncs : SameWork(x)
        BY <1>1, <1>2 DEF handle_toggle
    <2>2. task' \in [Cards -> {"absent", "open", "completed"}] /\ TasksStay
        BY <1>2, SetDoneFacts DEF handle_toggle, TodoTyped, TodoTypeOK, TasksStay, Completed
    <2>3. TodoTypeOK'
        BY <1>2, <2>1, <2>2 DEF handle_toggle, Event, TodoTyped, TodoTypeOK, CycleState,
           tinder, history
    <2> QED BY <2>1, <2>2, <2>3, AllHeldSame DEF TodoTyped
<1>3. ASSUME NEW pulled \in [Initiatives -> Standing], okr_pull(pulled) PROVE TodoTyped'
    <2>1. sync' \in [Syncs -> CycleState] /\ \A x \in Syncs : SameWork(x)
        BY <1>0, <1>3, PullTouches
    <2>2. events' \in 0..MaxEvents /\ okr' \in [Initiatives -> Standing]
          /\ UNCHANGED <<tinder, task, goal, page, synced, history>>
        BY <1>3 DEF okr_pull, Event, TodoTyped, TodoTypeOK
    <2>3. TodoTypeOK' /\ TasksStay
        BY <2>1, <2>2 DEF TodoTyped, TodoTypeOK, CycleState, TasksStay, tinder, history
    <2> QED BY <2>1, <2>3, AllHeldSame DEF TodoTyped
<1>4. ASSUME NEW p \in PageIds,
             Tick(p) \/ Delete(p) \/ \E g \in Assignment : Retarget(p, g)
      PROVE  TodoTyped'
    <2>1. page[p] \in Row /\ page[p].of \in Cards
        BY <1>0, <1>4 DEF Tick, Delete, Retarget, Row
    <2>2. sync' \in [Syncs -> CycleState] /\ \A x \in Syncs : SameWork(x)
        BY <1>1, <1>4, <2>1 DEF Tick, Delete, Retarget
    <2>3. page' \in [PageIds -> Row \cup {Nil}]
        <3>1. CASE Tick(p)
            BY <1>0, <2>1, <3>1 DEF Tick, Row, Projection
        <3>2. CASE Delete(p)
            BY <1>0, <3>2 DEF Delete
        <3>3. ASSUME NEW g \in Assignment, Retarget(p, g) PROVE page' \in [PageIds -> Row \cup {Nil}]
            BY <1>0, <2>1, <3>3 DEF Retarget, Row, Projection
        <3> QED BY <1>4, <3>1, <3>2, <3>3
    <2>4. stray' \subseteq Cards
        BY <1>4, <2>1 DEF Tick, Delete, Retarget, TodoTyped, TodoTypeOK, history
    <2>5. events' \in 0..MaxEvents /\ UNCHANGED <<tinder, task, goal, okr, synced, wanted>>
        BY <1>4 DEF Tick, Delete, Retarget, Event, TodoTyped, TodoTypeOK, history
    <2>6. TodoTypeOK' /\ TasksStay
        BY <2>2, <2>3, <2>4, <2>5 DEF TodoTyped, TodoTypeOK, CycleState, TasksStay, tinder
    <2> QED BY <2>2, <2>6, AllHeldSame DEF TodoTyped
<1> QED BY <1>2, <1>3, <1>4

\* A cycle's own steps and its failures.
LEMMA CycleTyped ==
    ASSUME TodoTyped, NEW y \in Syncs, run_once(y) \/ SyncFails(y)
    PROVE  TodoTyped'
<1> USE SyncAssumption
<1>0. /\ sync \in [Syncs -> CycleState] /\ page \in [PageIds -> Row \cup {Nil}]
      /\ task \in [Cards -> {"absent", "open", "completed"}]
      /\ synced \in [Cards -> Synced \cup {Nil}] /\ stray \subseteq Cards
      /\ \A x \in Syncs : Holds(x)
    BY SyncType DEF TodoTyped, TodoTypeOK, CyclesHold
\* The rest of a step whose data are typed and whose own cycle holds together.
<1>1. ASSUME sync' \in [Syncs -> CycleState], Holds(y)', TasksStay,
             \A x \in Syncs \ {y} : SameWork(x),
             UNCHANGED <<card, posted, aim, accepting, goal, okr, wanted>>,
             task' \in [Cards -> {"absent", "open", "completed"}],
             page' \in [PageIds -> Row \cup {Nil}],
             synced' \in [Cards -> Synced \cup {Nil}], stray' \subseteq Cards,
             events' \in 0..MaxEvents
      PROVE  TodoTyped'
    <2>1. CyclesHold'
        BY <1>0, <1>1, HeldSame DEF CyclesHold
    <2>2. TodoTypeOK'
        BY <1>1 DEF TodoTyped, TodoTypeOK, CycleState
    <2> QED BY <2>1, <2>2 DEF TodoTyped
<1>2. events \in 0..MaxEvents
    BY DEF TodoTyped, TodoTypeOK
<1>3. ASSUME NEW x \in Syncs, sync'[x] = sync[x] PROVE SameWork(x)
    BY <1>3 DEF SameWork
<1>4. CASE LoadTasks(y)
    <2>1. /\ UNCHANGED <<card, posted, aim, accepting, goal, okr, wanted, task, page,
                        synced, stray, events>>
        BY <1>4 DEF LoadTasks, tinder, history
    <2>2. Holds(y)'
        BY <1>4, <2>1, LoadTasksFacts DEF Holds, NotLoaded
    <2> QED BY <1>0, <1>1, <1>2, <1>3, <1>4, <2>1, <2>2, LoadTasksFacts DEF TasksStay
<1>5. CASE LoadPages(y)
    <2> DEFINE live == {c \in Cards : Live(y, c)}
    <2>1. /\ UNCHANGED <<card, posted, aim, accepting, goal, okr, wanted, task, page,
                        synced, stray, events>>
        BY <1>5 DEF LoadPages, tinder, history
    <2>2. Holds(y)'
        <3>1. CASE live = {}
            BY <1>5, <3>1, LoadPagesFacts, IdleHeld
        <3>2. CASE live # {}
            <4>1. ASSUME NEW c \in live
                  PROVE  /\ plan(sync[y].tasks[c]) \in Plan
                         /\ plan(sync[y].tasks[c]).write # "create" =>
                               plan(sync[y].tasks[c]).page # Nil
                <5>1. sync[y].tasks[c] \in Loaded
                    BY <1>0 DEF CycleState
                <5>2. /\ plan(sync[y].tasks[c]) \in Plan
                      /\ plan(sync[y].tasks[c]).write # "create" =>
                            /\ sync[y].tasks[c].synced # Nil
                            /\ plan(sync[y].tasks[c]).page = sync[y].tasks[c].synced.page
                    BY <1>0, <5>1, PlanFacts
                <5> QED BY <5>1, <5>2 DEF Loaded, Synced, PageIds
            <4>2. /\ sync'[y].tasks = NotLoaded /\ sync'[y].todo = live
                  /\ \A c \in Cards : sync'[y].plan[c] =
                        IF c \in live THEN plan(sync[y].tasks[c]) ELSE Nil
                  /\ sync'[y].step \in {"pull", "write"}
                BY <1>5, <3>2, LoadPagesFacts
            <4>3. \A c \in live : task[c] # "absent"
                BY <1>0 DEF Holds, Live
            <4> HIDE DEF live
            <4>4. live \subseteq Cards
                BY DEF live
            <4> QED BY <2>1, <3>2, <4>1, <4>2, <4>3, <4>4 DEF Holds, NotLoaded
        <3> QED BY <3>1, <3>2
    <2> QED BY <1>0, <1>1, <1>2, <1>3, <1>5, <2>1, <2>2, LoadPagesFacts DEF TasksStay
<1>6. CASE Pull(y)
    <2>1. /\ UNCHANGED <<card, posted, aim, accepting, goal, okr, wanted, page,
                        synced, stray, events>>
          /\ SetDone(InHand(y), Doing(y).props.done) /\ sync[y].step = "pull"
        BY <1>6 DEF Pull, tinder, history
    <2>2. InHand(y) \in Cards /\ Doing(y).props.done \in BOOLEAN
        BY <2>1, HandFacts DEF Plan, Projection
    <2>3. task' \in [Cards -> {"absent", "open", "completed"}] /\ TasksStay
        BY <1>0, <2>1, <2>2, SetDoneFacts DEF TasksStay
    <2>4. Holds(y)'
        BY <1>0, <1>6, <2>1, <2>3, PullFacts DEF Holds, TasksStay
    <2> QED BY <1>0, <1>1, <1>2, <1>6, <2>1, <2>3, <2>4, PullFacts DEF OthersTouched
<1>7. CASE Write(y)
    <2>1. /\ UNCHANGED <<card, posted, aim, accepting, goal, okr, wanted, task,
                        synced, events>>
          /\ sync[y].step = "write"
        BY <1>7 DEF Write, tinder
    <2>2. InHand(y) \in Cards /\ Doing(y) \in Plan /\ InHand(y) \in sync[y].todo
          /\ Doing(y).props \in Projection
        BY <2>1, HandFacts DEF Plan
    <2>3. page' \in [PageIds -> Row \cup {Nil}]
        <3>1. [of |-> InHand(y), props |-> Doing(y).props] \in Row
            BY <2>2 DEF Row
        <3> QED BY <1>0, <1>7, <3>1, WriteFacts DEF Write, Written
    <2>4. stray' \subseteq Cards
        BY <1>0, <1>7, <2>2 DEF Write, Strayed
    <2>5. Holds(y)'
        <3>1. /\ sync'[y].step = "record" /\ sync'[y].tasks = sync[y].tasks
              /\ sync'[y].todo = sync[y].todo
              /\ \A c \in Cards : c # InHand(y) => sync'[y].plan[c] = sync[y].plan[c]
              /\ sync'[y].plan[InHand(y)] \in Plan
              /\ sync'[y].plan[InHand(y)].page \in PageIds
            BY <1>7, <2>2, WriteFacts DEF Plan
        <3>2. InHand(y)' = InHand(y)
            BY <3>1 DEF InHand
        <3>3. Nil \notin PageIds /\ Nil \notin Plan
            BY DEF PageIds
        <3> QED BY <1>0, <2>1, <2>2, <3>1, <3>2, <3>3 DEF Holds
    <2> QED BY <1>0, <1>1, <1>2, <1>7, <2>1, <2>3, <2>4, <2>5, WriteFacts
            DEF OthersTouched, TasksStay
<1>8. CASE Record(y)
    <2>1. /\ UNCHANGED <<card, posted, aim, accepting, goal, okr, wanted, task,
                        page, events>>
          /\ sync[y].step = "record"
        BY <1>8 DEF Record, tinder
    <2>2. InHand(y) \in Cards /\ Doing(y) \in Plan /\ Doing(y).page \in PageIds
        BY <2>1, HandFacts
    <2>3. synced' \in [Cards -> Synced \cup {Nil}]
        <3>1. [page |-> Doing(y).page, hash |-> content_hash(Doing(y).props),
               done |-> Doing(y).props.done] \in Synced
            BY <2>2 DEF Synced, Plan, Projection, content_hash
        <3> QED BY <1>0, <1>8, <3>1 DEF Record
    <2>4. stray' \subseteq Cards
        BY <1>0, <1>8, <2>2 DEF Record, Strayed
    <2>5. Holds(y)'
        <3> DEFINE left == sync[y].todo \ {InHand(y)}
        <3>1. CASE left = {}
            BY <1>8, <3>1, RecordFacts, IdleHeld
        <3>2. CASE left # {}
            <4>1. /\ sync'[y].tasks = NotLoaded /\ sync'[y].todo = left
                  /\ sync'[y].plan[InHand(y)] = Nil
                  /\ \A d \in Cards : d # InHand(y) => sync'[y].plan[d] = sync[y].plan[d]
                  /\ sync'[y].step \in {"pull", "write"}
                BY <1>8, <3>2, RecordFacts
            <4> QED BY <1>0, <2>1, <2>2, <3>2, <4>1 DEF Holds, NotLoaded
        <3> QED BY <3>1, <3>2
    <2> QED BY <1>0, <1>1, <1>2, <1>8, <2>1, <2>3, <2>4, <2>5, RecordFacts
            DEF OthersTouched, TasksStay
<1>9. CASE Refused(y) \/ SyncFails(y)
    <2>1. /\ UNCHANGED <<card, posted, aim, accepting, goal, okr, wanted, task, page,
                        synced>>
          /\ events' \in 0..MaxEvents /\ sync' = [sync EXCEPT ![y] = Idle]
        BY <1>2, <1>9 DEF Refused, SyncFails, Event, tinder, history
    <2>2. sync' \in [Syncs -> CycleState] /\ sync'[y] = Idle
          /\ \A x \in Syncs \ {y} : sync'[x] = sync[x]
        BY <1>0, <2>1, IdleTyped
    <2>3. stray' \subseteq Cards
        <3>1. sync[y].step = "record" => InHand(y) \in Cards
            BY HandFacts
        <3> QED BY <1>0, <1>9, <3>1 DEF Refused, SyncFails, history
    <2>4. Holds(y)'
        BY <2>2, IdleHeld
    <2> QED BY <1>0, <1>1, <1>3, <2>1, <2>2, <2>3, <2>4 DEF TasksStay
<1> QED BY <1>4, <1>5, <1>6, <1>7, <1>8, <1>9 DEF run_once

\* Every action keeps the types and what the cycles hold.
LEMMA TodoTypedStep == TodoTyped /\ [TodoNext]_todoVars => TodoTyped'
<1> SUFFICES ASSUME TodoTyped, [TodoNext]_todoVars PROVE TodoTyped'
    OBVIOUS
<1>1. CASE UNCHANGED todoVars
    <2>1. TodoTypeOK' /\ TasksStay /\ UNCHANGED sync
        BY <1>1 DEF TodoTyped, TodoTypeOK, todoVars, TasksStay
    <2> QED BY <2>1, AllHeldSame DEF TodoTyped, SameWork
<1> QED BY <1>1, CardTyped, ActTyped, CycleTyped DEF TodoNext

\* Cards, tasks, rows, records and cycles keep their types, for any cards,
\* initiatives and overlapping cycles.
THEOREM TodoIsTyped == TodoSpec => []TodoTypeOK
<1>1. TodoTyped => TodoTypeOK
    BY DEF TodoTyped
<1> QED BY <1>1, TodoTypedInit, TodoTypedStep, PTL DEF TodoSpec

-----------------------------------------------------------------------------
(* The assignment *)

\* No cycle takes a task away or gives one an initiative.
LEMMA CyclesKeepGoals ==
    ASSUME TodoTyped, NEW y \in Syncs, run_once(y) \/ SyncFails(y)
    PROVE  /\ UNCHANGED <<card, aim, accepting, goal, wanted>>
           /\ \A c \in Cards : task'[c] = "absent" <=> task[c] = "absent"
<1>1. UNCHANGED <<card, aim, accepting, goal, wanted>>
    BY DEF run_once, LoadTasks, LoadPages, Pull, Write, Refused, Record, SyncFails,
       tinder, history
<1>2. CASE UNCHANGED task
    BY <1>1, <1>2
<1>3. CASE Pull(y)
    <2>1. SetDone(InHand(y), Doing(y).props.done) /\ InHand(y) \in Cards
          /\ Doing(y).props.done \in BOOLEAN
        BY <1>3, HandFacts DEF Pull, Plan, Projection
    <2> QED BY <1>1, <2>1, SetDoneFacts DEF TodoTyped, TodoTypeOK
<1> QED BY <1>2, <1>3 DEF run_once, LoadTasks, LoadPages, Write, Refused, Record, SyncFails

\* No card has an initiative at the start.
LEMMA AssignmentInit == TodoInit => AssignmentInHand /\ AssignmentIsKept
BY DEF TodoInit, AssignmentInHand, AssignmentIsKept

\* An accept carries the initiative of the row that it decided, and nothing assigns the
\* card before the task is there to take it.
LEMMA AssignmentStep ==
    ASSUME TodoTyped, AssignmentInHand, AssignmentIsKept, [TodoNext]_todoVars
    PROVE  AssignmentInHand' /\ AssignmentIsKept'
<1> USE SyncAssumption
<1>0. /\ card \in [Cards -> {"absent", "pending", "accepted", "declined", "deferred"}]
      /\ aim \in [Cards -> Assignment] /\ goal \in [Cards -> Assignment]
      /\ accepting \in [Cards -> {Nil} \cup [goal : Assignment]]
      /\ task \in [Cards -> {"absent", "open", "completed"}]
      /\ wanted \in [Cards -> Assignment]
    BY DEF TodoTyped, TodoTypeOK
<1> DEFINE Kept == AssignmentInHand /\ AssignmentIsKept
<1>1. ASSUME UNCHANGED <<card, aim, accepting, goal, wanted>>,
             \A c \in Cards : task'[c] = "absent" <=> task[c] = "absent"
      PROVE  Kept'
    BY <1>1 DEF AssignmentInHand, AssignmentIsKept
<1>2. CASE UNCHANGED todoVars
    BY <1>1, <1>2 DEF todoVars
<1>3. ASSUME NEW c \in Cards, Tinder(c) \/ PromoteFails(c) PROVE Kept'
    <2>1. ASSUME NEW g \in Assignment, add_todo(c, g) PROVE Kept'
        BY <1>0, <2>1 DEF add_todo, AssignmentInHand, AssignmentIsKept
    <2>2. CASE PostCard(c)
        BY <1>1, <2>2 DEF PostCard, history
    <2>3. ASSUME NEW status \in {"accepted", "declined", "deferred"}, decide(c, status)
          PROVE  Kept'
        <3>1. /\ card[c] = "pending" /\ UNCHANGED <<aim, task, goal, wanted>>
              /\ card' = [card EXCEPT ![c] = status]
              /\ \A d \in Cards : d # c => accepting'[d] = accepting[d]
              /\ accepting'[c] # Nil => accepting'[c] = [goal |-> aim[c]]
            BY <1>0, <2>3 DEF decide, AssignmentInHand, history
        <3> QED BY <1>0, <3>1 DEF AssignmentInHand, AssignmentIsKept
    <2>4. CASE promote(c)
        <3>1. /\ accepting[c] # Nil /\ UNCHANGED <<card, aim, wanted>>
              /\ task' = [task EXCEPT ![c] = "open"]
              /\ goal' = [goal EXCEPT ![c] = accepting[c].goal]
              /\ accepting' = [accepting EXCEPT ![c] = Nil]
            BY <2>4 DEF promote, history
        <3>2. card[c] \notin {"absent", "pending"} /\ accepting[c].goal = wanted[c]
            BY <3>1 DEF AssignmentInHand
        <3> QED BY <1>0, <3>1, <3>2 DEF AssignmentInHand, AssignmentIsKept
    <2>5. CASE PromoteFails(c)
        <3>1. UNCHANGED <<card, aim, task, goal, wanted>>
              /\ accepting' = [accepting EXCEPT ![c] = Nil]
            BY <2>5 DEF PromoteFails, history
        <3> QED BY <1>0, <3>1 DEF AssignmentInHand, AssignmentIsKept
    <2>6. ASSUME NEW kind \in {"card", "task"}, NEW g \in Assignment, assign(kind, c, g)
          PROVE  Kept'
        <3>1. wanted' = [wanted EXCEPT ![c] = g] /\ UNCHANGED <<card, accepting, task>>
            BY <2>6 DEF assign
        <3>2. CASE card[c] = "pending" /\ aim' = [aim EXCEPT ![c] = g] /\ UNCHANGED goal
            BY <1>0, <3>1, <3>2 DEF AssignmentInHand, AssignmentIsKept
        <3>3. CASE task[c] = "open" /\ goal' = [goal EXCEPT ![c] = g] /\ UNCHANGED aim
            BY <1>0, <3>1, <3>3 DEF AssignmentInHand, AssignmentIsKept
        <3> QED BY <2>6, <3>2, <3>3 DEF assign
    <2> QED BY <1>3, <2>1, <2>2, <2>3, <2>4, <2>5, <2>6 DEF Tinder
<1>4. ASSUME NEW c \in Cards, handle_toggle(c) PROVE Kept'
    <2>1. /\ SetDone(c, ~Completed(c)) /\ UNCHANGED <<card, aim, accepting, goal, wanted>>
        BY <1>4 DEF handle_toggle, tinder, history
    <2> QED BY <1>0, <1>1, <2>1, SetDoneFacts DEF Completed
<1>5. CASE \/ \E pulled \in [Initiatives -> Standing] : okr_pull(pulled)
           \/ \E p \in PageIds : Tick(p) \/ Delete(p) \/ \E g \in Assignment : Retarget(p, g)
    <2>1. UNCHANGED <<card, aim, accepting, goal, wanted, task>>
        BY <1>5 DEF okr_pull, Tick, Delete, Retarget, tinder, history
    <2> QED BY <1>1, <2>1
<1>6. ASSUME NEW y \in Syncs, run_once(y) \/ SyncFails(y) PROVE Kept'
    BY <1>1, <1>6, CyclesKeepGoals
<1> QED BY <1>2, <1>3, <1>4, <1>5, <1>6 DEF TodoNext

\* An initiative assigned before, while or after a card is accepted is the one the
\* task has: /initiative and the two transactions of an accept do not lose each
\* other's write.
THEOREM AssignmentsAreKept == TodoSpec => []AssignmentIsKept
<1> DEFINE Inv == TodoTyped /\ AssignmentInHand /\ AssignmentIsKept
<1>1. TodoInit => Inv
    BY TodoTypedInit, AssignmentInit
<1>2. Inv /\ [TodoNext]_todoVars => Inv'
    BY TodoTypedStep, AssignmentStep
<1>3. Inv => AssignmentIsKept
    OBVIOUS
<1> QED BY <1>1, <1>2, <1>3, PTL DEF TodoSpec

-----------------------------------------------------------------------------
(* Rows *)

\* What cycle x knows refers to page p for card c.
Uses(x, c, p) ==
    \/ sync[x].plan[c] # Nil /\ sync[x].plan[c].page = p
    \/ sync[x].tasks[c].synced # Nil /\ sync[x].tasks[c].synced.page = p

\* Who refers to a page: the record, or a cycle.
LEMMA RefersUses ==
    ASSUME NEW c, NEW p
    PROVE  Refers(c, p) <=> \/ synced[c] # Nil /\ synced[c].page = p
                            \/ \E x \in Syncs : Uses(x, c, p)
BY DEF Refers, Uses

\* A cycle that works on as it did refers to the same pages.
LEMMA UsesSame ==
    ASSUME NEW x, SameWork(x), NEW c, NEW p
    PROVE  Uses(x, c, p)' <=> Uses(x, c, p)
BY DEF Uses, SameWork

\* Nothing that is not referred to becomes so, and rows stay their card's.
LEMMA PagesStayOwn ==
    ASSUME PagesAreOwn,
           \A c \in Cards, p \in PageIds : Refers(c, p)' => Refers(c, p),
           \A p \in PageIds : page'[p] # Nil => page[p] # Nil /\ page'[p].of = page[p].of
    PROVE  PagesAreOwn'
BY DEF PagesAreOwn

\* A step that writes none of a row, a record or a plan.
Quiet ==
    /\ UNCHANGED synced
    /\ \A x \in Syncs : SameWork(x)
    /\ \A p \in PageIds : page'[p] # Nil => page[p] # Nil /\ page'[p].of = page[p].of
    /\ stray \subseteq stray'

\* A quiet step refers to no other page.
LEMMA QuietRefers ==
    ASSUME Quiet, NEW c, NEW p
    PROVE  Refers(c, p)' <=> Refers(c, p)
<1>1. \A x \in Syncs : Uses(x, c, p)' <=> Uses(x, c, p)
    BY UsesSame DEF Quiet
<1>2. Refers(c, p)' <=> \/ synced'[c] # Nil /\ synced'[c].page = p
                        \/ \E x \in Syncs : Uses(x, c, p)'
    BY DEF Refers, Uses
<1> QED BY <1>1, <1>2, RefersUses DEF Quiet

\* What the operator does is quiet.
LEMMA ActsAreQuiet ==
    ASSUME TodoTyped,
           \/ UNCHANGED todoVars
           \/ \E c \in Cards : Tinder(c) \/ PromoteFails(c) \/ handle_toggle(c)
           \/ \E pulled \in [Initiatives -> Standing] : okr_pull(pulled)
           \/ \E p \in PageIds : Tick(p) \/ Delete(p) \/ \E g \in Assignment : Retarget(p, g)
    PROVE  Quiet
<1>0. sync \in [Syncs -> CycleState] /\ page \in [PageIds -> Row \cup {Nil}]
    BY SyncType DEF TodoTyped, TodoTypeOK
<1>1. ASSUME UNCHANGED <<synced, page, stray>>, \A x \in Syncs : SameWork(x) PROVE Quiet
    BY <1>1 DEF Quiet
<1>2. ASSUME UNCHANGED sync PROVE \A x \in Syncs : SameWork(x)
    BY <1>2 DEF SameWork
<1>3. ASSUME NEW c \in Cards, Touch(c) PROVE \A x \in Syncs : SameWork(x)
    BY <1>0, <1>3, TouchFacts
<1>4. CASE UNCHANGED todoVars
    BY <1>1, <1>2, <1>4 DEF todoVars
<1>5. ASSUME NEW c \in Cards, Tinder(c) \/ PromoteFails(c) \/ handle_toggle(c) PROVE Quiet
    <2>1. UNCHANGED <<synced, page, stray>> /\ (UNCHANGED sync \/ Touch(c))
        BY <1>5 DEF Tinder, add_todo, PostCard, decide, promote, assign, PromoteFails,
           handle_toggle, history
    <2> QED BY <1>1, <1>2, <1>3, <2>1
<1>6. ASSUME NEW pulled \in [Initiatives -> Standing], okr_pull(pulled) PROVE Quiet
    BY <1>0, <1>1, <1>6, PullTouches DEF okr_pull, history
<1>7. ASSUME NEW p \in PageIds,
             Tick(p) \/ Delete(p) \/ \E g \in Assignment : Retarget(p, g)
      PROVE  Quiet
    <2>1. page[p] # Nil /\ page[p] \in Row /\ page[p].of \in Cards
        BY <1>0, <1>7 DEF Tick, Delete, Retarget, Row
    <2>2. \A x \in Syncs : SameWork(x)
        BY <1>3, <1>7, <2>1 DEF Tick, Delete, Retarget
    <2>3. \A q \in PageIds : page'[q] # Nil => page[q] # Nil /\ page'[q].of = page[q].of
        <3>1. CASE Tick(p)
            BY <1>0, <2>1, <3>1 DEF Tick, Row
        <3>2. CASE Delete(p)
            BY <1>0, <3>2 DEF Delete
        <3>3. ASSUME NEW g \in Assignment, Retarget(p, g)
              PROVE  \A q \in PageIds : page'[q] # Nil => page[q] # Nil /\ page'[q].of = page[q].of
            BY <1>0, <2>1, <3>3 DEF Retarget, Row
        <3> QED BY <1>7, <3>1, <3>2, <3>3
    <2>4. UNCHANGED synced /\ stray \subseteq stray'
        BY <1>7 DEF Tick, Delete, Retarget, history
    <2> QED BY <2>2, <2>3, <2>4 DEF Quiet
<1> QED BY <1>4, <1>5, <1>6, <1>7

\* What Write makes of the rows: the one it writes is the card's, and nobody else
\* refers to it.
LEMMA WrittenFacts ==
    ASSUME TodoTyped, PagesAreOwn, NEW y \in Syncs, Write(y)
    PROVE  LET c == InHand(y)
               p == Written(y)
           IN  /\ c \in Cards /\ p \in PageIds
               /\ \A q \in PageIds \ {p} : page'[q] = page[q]
               /\ \/ page'[p] = page[p]
                  \/ page'[p] = [of |-> c, props |-> Doing(y).props]
               /\ Doing(y).write = "create" =>
                     /\ page[p] = Nil /\ page'[p] = [of |-> c, props |-> Doing(y).props]
                     /\ \A d \in Cards : ~Refers(d, p)
               /\ Doing(y).write # "create" =>
                     /\ p = Doing(y).page /\ Refers(c, p)
                     /\ page[p] = Nil => page'[p] = Nil
               /\ Doing(y).write = "update" /\ page[p] # Nil =>
                     page'[p] = [of |-> c, props |-> Doing(y).props]
               /\ Doing(y).write = "skip" => page'[p] = page[p]
               /\ \A d \in Cards : d # c /\ Refers(d, p) => page[p] = Nil /\ page'[p] = Nil
<1> DEFINE c == InHand(y)
           p == Written(y)
           row == [of |-> c, props |-> Doing(y).props]
<1>1. /\ c \in Cards /\ p \in PageIds /\ Doing(y) \in Plan
      /\ Doing(y) = sync[y].plan[c]
      /\ Doing(y).write = "create" => p \in FreePages
    BY HandFacts, WriteFacts DEF Write
<1>2. page \in [PageIds -> Row \cup {Nil}]
    BY DEF TodoTyped, TodoTypeOK
<1>3. page' = IF Doing(y).write = "create" \/ (Doing(y).write = "update" /\ page[p] # Nil)
              THEN [page EXCEPT ![p] = row] ELSE page
    BY DEF Write, Written
<1>4. Doing(y).write = "create" => page[p] = Nil /\ \A d \in Cards : ~Refers(d, p)
    BY <1>1 DEF FreePages
<1>5. Doing(y).write # "create" => p = Doing(y).page /\ Refers(c, p)
    <2>1. Doing(y) # Nil
        BY <1>1, SyncAssumption
    <2> QED BY <1>1, <2>1 DEF Refers, Written
<1>6. \A d \in Cards : d # c /\ Refers(d, p) => page[p] = Nil
    BY <1>1, <1>4, <1>5 DEF PagesAreOwn
<1> HIDE DEF c, p, row
<1>7. \A q \in PageIds : q # p => page'[q] = page[q]
    BY <1>1, <1>2, <1>3
<1>8. page'[p] = IF Doing(y).write = "create" \/ (Doing(y).write = "update" /\ page[p] # Nil)
                 THEN row ELSE page[p]
    BY <1>1, <1>2, <1>3
<1> QED BY <1>1, <1>4, <1>5, <1>6, <1>7, <1>8 DEF c, p, row

\* A step of cycle y that leaves the records alone refers to no more than y does.
LEMMA OwnReferences ==
    ASSUME NEW y \in Syncs, UNCHANGED synced, \A x \in Syncs \ {y} : SameWork(x),
           NEW c, NEW p, Refers(c, p)'
    PROVE  Refers(c, p) \/ Uses(y, c, p)'
<1>1. \/ synced'[c] # Nil /\ synced'[c].page = p
      \/ \E x \in Syncs : Uses(x, c, p)'
    BY DEF Refers, Uses
<1>2. \A x \in Syncs \ {y} : Uses(x, c, p)' => Uses(x, c, p)
    BY UsesSame
<1> QED BY <1>1, <1>2, RefersUses

\* An idle cycle refers to no page.
LEMMA IdleUses ==
    ASSUME NEW y \in Syncs, sync'[y] = Idle, NEW c \in Cards, NEW p
    PROVE  ~Uses(y, c, p)'
BY DEF Uses, Idle, NotLoaded

\* What a cycle loads or plans, somebody refers to already.
LEMMA LoadTasksUses ==
    ASSUME TodoTyped, NEW y \in Syncs, LoadTasks(y), NEW c \in Cards, NEW p
    PROVE  Uses(y, c, p)' => synced[c] # Nil /\ synced[c].page = p
BY LoadTasksFacts DEF Uses, NotLoaded

\* What a cycle plans, it has loaded.
LEMMA LoadPagesUses ==
    ASSUME TodoTyped, NEW y \in Syncs, LoadPages(y), NEW c \in Cards, NEW p \in PageIds
    PROVE  Uses(y, c, p)' => Uses(y, c, p)
<1> USE SyncAssumption
<1> DEFINE live == {d \in Cards : Live(y, d)}
<1> SUFFICES ASSUME Uses(y, c, p)' PROVE Uses(y, c, p)
    OBVIOUS
<1>1. live # {}
    BY LoadPagesFacts, IdleUses
<1>2. sync'[y].tasks = NotLoaded /\ sync'[y].plan[c] =
         IF c \in live THEN plan(sync[y].tasks[c]) ELSE Nil
    BY <1>1, LoadPagesFacts
<1>3. c \in live /\ plan(sync[y].tasks[c]).page = p
    BY <1>2 DEF Uses, NotLoaded
<1>4. sync[y].tasks[c] \in Loaded /\ page \in [PageIds -> Row \cup {Nil}]
    BY SyncType DEF TodoTyped, TodoTypeOK, CycleState
<1>5. p # Nil
    BY DEF PageIds
<1>6. sync[y].tasks[c].synced # Nil /\ sync[y].tasks[c].synced.page = p
    BY <1>3, <1>4, <1>5, PlanFacts
<1> QED BY <1>6 DEF Uses

\* No page is referred to at the start.
LEMMA PagesOwnInit == TodoInit => PagesAreOwn
BY DEF TodoInit, PagesAreOwn

\* A page is only created where nothing refers to it.
LEMMA PagesOwnStep ==
    ASSUME TodoTyped, PagesAreOwn, [TodoNext]_todoVars
    PROVE  PagesAreOwn'
<1>1. ASSUME Quiet PROVE PagesAreOwn'
    BY <1>1, QuietRefers, PagesStayOwn DEF Quiet
<1>2. ASSUME NEW y \in Syncs, run_once(y) \/ SyncFails(y) PROVE PagesAreOwn'
    <2>1. ASSUME UNCHANGED <<page, synced>>, \A x \in Syncs \ {y} : SameWork(x),
                 \A c \in Cards, p \in PageIds : Uses(y, c, p)' => Refers(c, p)
          PROVE  PagesAreOwn'
        <3>1. \A c \in Cards, p \in PageIds : Refers(c, p)' => Refers(c, p)
            BY <2>1, OwnReferences
        <3> QED BY <2>1, <3>1, PagesStayOwn
    <2>2. ASSUME NEW x, sync'[x] = sync[x] PROVE SameWork(x)
        BY <2>2 DEF SameWork
    <2>3. CASE LoadTasks(y)
        <3>1. UNCHANGED <<page, synced>> /\ \A x \in Syncs \ {y} : SameWork(x)
            BY <2>2, <2>3, LoadTasksFacts DEF LoadTasks
        <3> QED BY <2>1, <2>3, <3>1, LoadTasksUses, RefersUses
    <2>4. CASE LoadPages(y)
        <3>1. UNCHANGED <<page, synced>> /\ \A x \in Syncs \ {y} : SameWork(x)
            BY <2>2, <2>4, LoadPagesFacts DEF LoadPages
        <3> QED BY <2>1, <2>4, <3>1, LoadPagesUses, RefersUses
    <2>5. CASE Pull(y)
        <3>1. UNCHANGED <<page, synced>> /\ \A x \in Syncs \ {y} : SameWork(x)
            BY <2>5, PullFacts DEF Pull, OthersTouched
        <3>2. \A c \in Cards, p \in PageIds : Uses(y, c, p)' => Uses(y, c, p)
            BY <2>5, PullFacts DEF Uses
        <3> QED BY <2>1, <3>1, <3>2, RefersUses
    <2>6. CASE Write(y)
        <3> DEFINE c == InHand(y)
                   p == Written(y)
        <3>1. UNCHANGED synced /\ \A x \in Syncs \ {y} : SameWork(x)
            BY <2>6, WriteFacts DEF Write, OthersTouched
        <3>2. ASSUME NEW d \in Cards, NEW q \in PageIds, Uses(y, d, q)'
              PROVE  Uses(y, d, q) \/ (d = c /\ q = p)
            <4>1. CASE d # c
                BY <2>6, <3>2, <4>1, WriteFacts DEF Uses
            <4>2. CASE d = c
                <5>1. sync'[y].plan[c].page = p /\ sync'[y].tasks = sync[y].tasks
                    BY <2>6, WriteFacts, HandFacts DEF Plan, Write
                <5> QED BY <3>2, <4>2, <5>1 DEF Uses
            <4> QED BY <4>1, <4>2
        <3>3. \A d \in Cards, q \in PageIds :
                 Refers(d, q)' => Refers(d, q) \/ (d = c /\ q = p)
            BY <3>1, <3>2, OwnReferences, RefersUses
        <3>4. ASSUME NEW d \in Cards, NEW q \in PageIds, Refers(d, q)', page'[q] # Nil
              PROVE  page'[q].of = d
            <4>1. CASE q # p
                <5>1. page'[q] = page[q]
                    BY <2>6, <4>1, WrittenFacts
                <5>2. Refers(d, q)
                    BY <3>3, <3>4, <4>1
                <5> QED BY <3>4, <5>1, <5>2 DEF PagesAreOwn
            <4>2. CASE q = p
                <5>1. d = c
                    BY <2>6, <3>3, <3>4, <4>2, WrittenFacts
                <5>2. CASE page'[p] = page[p]
                    <6>1. Doing(y).write # "create"
                        BY <2>6, <3>4, <4>2, <5>2, WrittenFacts
                    <6> QED BY <2>6, <3>4, <4>2, <5>1, <5>2, <6>1, WrittenFacts DEF PagesAreOwn
                <5>3. CASE page'[p] = [of |-> c, props |-> Doing(y).props]
                    BY <4>2, <5>1, <5>3
                <5> QED BY <2>6, <5>2, <5>3, WrittenFacts
            <4> QED BY <4>1, <4>2
        <3> QED BY <3>4 DEF PagesAreOwn
    <2>7. CASE Record(y)
        <3> DEFINE c == InHand(y)
        <3>1. UNCHANGED page /\ sync[y].step = "record"
            BY <2>7 DEF Record
        <3>2. c \in Cards /\ Doing(y) # Nil /\ Doing(y) = sync[y].plan[c]
            BY <3>1, HandFacts, SyncAssumption
        <3>3. /\ \A d \in Cards : d # c => synced'[d] = synced[d]
              /\ synced'[c].page = Doing(y).page
            BY <2>7, <3>2 DEF Record, TodoTyped, TodoTypeOK
        <3>4. ASSUME NEW d \in Cards, NEW q \in PageIds, Uses(y, d, q)'
              PROVE  Uses(y, d, q)
            <4>1. sync'[y] # Idle
                BY <3>4, IdleUses
            <4>2. sync'[y].tasks = NotLoaded /\ sync'[y].plan[c] = Nil
                  /\ (d # c => sync'[y].plan[d] = sync[y].plan[d])
                BY <2>7, <4>1, RecordFacts
            <4> QED BY <3>4, <4>2 DEF Uses, NotLoaded
        <3>5. ASSUME NEW d \in Cards, NEW q \in PageIds, Refers(d, q)'
              PROVE  Refers(d, q)
            <4>1. \/ synced'[d] # Nil /\ synced'[d].page = q
                  \/ \E x \in Syncs : Uses(x, d, q)'
                BY <3>5 DEF Refers, Uses
            <4>2. \A x \in Syncs : Uses(x, d, q)' => Uses(x, d, q)
                BY <2>7, <3>4, UsesSame, RecordFacts DEF OthersTouched
            <4>3. synced'[d] # Nil /\ synced'[d].page = q => Refers(d, q)
                BY <3>2, <3>3 DEF Refers
            <4> QED BY <4>1, <4>2, <4>3, RefersUses
        <3> QED BY <3>1, <3>5, PagesStayOwn
    <2>8. CASE Refused(y) \/ SyncFails(y)
        <3>1. UNCHANGED <<page, synced>> /\ sync' = [sync EXCEPT ![y] = Idle]
            BY <2>8 DEF Refused, SyncFails
        <3>2. sync'[y] = Idle /\ \A x \in Syncs \ {y} : SameWork(x)
            BY <2>2, <3>1, SyncType DEF TodoTyped
        <3> QED BY <2>1, <3>1, <3>2, IdleUses
    <2> QED BY <1>2, <2>3, <2>4, <2>5, <2>6, <2>7, <2>8 DEF run_once
<1> QED BY <1>1, <1>2, ActsAreQuiet DEF TodoNext

-----------------------------------------------------------------------------
(* One row for a task *)

\* The record of c goes on naming the page it named.
SamePage(c) ==
    /\ synced'[c] = Nil <=> synced[c] = Nil
    /\ synced[c] # Nil => synced'[c].page = synced[c].page

\* A cycle that did not move knows what the record still says.
LEMMA KnowsSame ==
    ASSUME NEW c \in Cards, NEW x \in Syncs, Knows(x, c), SameWork(x), SamePage(c),
           Vacant(c) => Vacant(c)'
    PROVE  Knows(x, c)'
BY DEF Knows, SameWork, SamePage, Live

\* Of a cycle that works on as it did, what it has just created is the same.
LEMMA CreatedSame ==
    ASSUME NEW c, NEW x, SameWork(x)
    PROVE  Created(x, c)' <=> Created(x, c)
BY SameHand DEF Created, SameWork

\* A step of cycle y after which no row, record or creation of card c is new.
LEMMA SettledStays ==
    ASSUME NEW c \in Cards, Settled(c), NEW y \in Syncs,
           \A x \in Syncs \ {y} : SameWork(x),
           SamePage(c), Vacant(c) => Vacant(c)', Knows(y, c)',
           Created(y, c)' => Created(y, c),
           Created(y, c) => Created(y, c)' /\ sync'[y].plan[c].page = sync[y].plan[c].page,
           \A p \in PageIds : IsRow(p, c)' => IsRow(p, c)
    PROVE  Settled(c)'
<1>1. \A x \in Syncs : Knows(x, c)'
    BY KnowsSame DEF Settled
<1>2. \A x \in Syncs : Created(x, c)' <=> Created(x, c)
    BY CreatedSame
<1>3. \A x, z \in Syncs : Created(x, c)' /\ Created(z, c)' => x = z
    BY <1>2 DEF Settled
<1>4. ASSUME NEW p \in PageIds, IsRow(p, c)'
      PROVE  \/ synced'[c] # Nil /\ synced'[c].page = p
             \/ \E x \in Syncs : Created(x, c)' /\ sync'[x].plan[c].page = p
    <2>1. CASE synced[c] # Nil /\ synced[c].page = p
        BY <2>1 DEF SamePage
    <2>2. ASSUME NEW x \in Syncs, Created(x, c), sync[x].plan[c].page = p
          PROVE  Created(x, c)' /\ sync'[x].plan[c].page = p
        BY <1>2, <2>2 DEF SameWork
    <2> QED BY <1>4, <2>1, <2>2 DEF Settled
<1> QED BY <1>1, <1>3, <1>4 DEF Settled

\* What the operator does settles or unsettles nothing.
LEMMA QuietSettled ==
    ASSUME TodoTyped, NEW c \in Cards, Settled(c), Quiet
    PROVE  Settled(c)'
<1>1. \A p \in PageIds : page'[p] # Nil => page[p] # Nil /\ page'[p].of = page[p].of
    BY DEF Quiet
<1>2. SamePage(c) /\ \A p \in PageIds : IsRow(p, c)' => IsRow(p, c)
    BY <1>1 DEF Quiet, SamePage, IsRow
<1>3. Vacant(c) => Vacant(c)'
    <2>1. synced[c] # Nil => synced[c].page \in PageIds
        BY DEF TodoTyped, TodoTypeOK, Synced
    <2> QED BY <1>1, <2>1 DEF Quiet, Vacant
<1>4. \A x \in Syncs : Knows(x, c)' /\ (Created(x, c)' <=> Created(x, c))
                       /\ sync'[x].plan = sync[x].plan
    BY <1>2, <1>3, KnowsSame, CreatedSame DEF Settled, Quiet, SameWork
<1>5. CASE Syncs = {}
    BY <1>1, <1>2, <1>5 DEF Settled, Quiet, IsRow
<1>6. ASSUME NEW y \in Syncs PROVE Settled(c)'
    BY <1>2, <1>3, <1>4, SettledStays DEF Quiet
<1> QED BY <1>5, <1>6

\* An idle cycle has created no row, so there is none it fails to know.
LEMMA IdleKnows ==
    ASSUME NEW y \in Syncs, sync'[y] = Idle, NEW c \in Cards
    PROVE  Knows(y, c)' /\ ~Created(y, c)'
BY DEF Knows, Created, Idle, Live, NotLoaded

\* An idle cycle has created nothing and knows of nothing.
LEMMA IdleCycle ==
    ASSUME TodoTyped, NEW x \in Syncs, sync[x].step = "idle", NEW c \in Cards
    PROVE  ~Live(x, c) /\ c \notin sync[x].todo /\ ~Created(x, c)
BY DEF TodoTyped, CyclesHold, Holds, Live, NotLoaded, Created

\* Reading.
LEMMA LoadSettled ==
    ASSUME TodoTyped, NEW y \in Syncs, LoadTasks(y) \/ LoadPages(y),
           NEW c \in Cards, Settled(c)
    PROVE  Settled(c)'
<1> USE SyncAssumption
<1>1. UNCHANGED <<synced, page>> /\ sync[y].step # "record"
    BY DEF LoadTasks, LoadPages
<1>2. SamePage(c) /\ (Vacant(c) <=> Vacant(c)') /\ \A p : IsRow(p, c)' <=> IsRow(p, c)
    BY <1>1 DEF SamePage, Vacant, IsRow
<1>3. \A x \in Syncs \ {y} : SameWork(x)
    BY LoadTasksFacts, LoadPagesFacts DEF SameWork
<1>4. sync'[y].step # "record"
    <2>1. LoadTasks(y) => sync'[y].step = "pages"
        BY LoadTasksFacts
    <2>2. LoadPages(y) => sync'[y] = Idle \/ sync'[y].step \in {"pull", "write"}
        BY LoadPagesFacts
    <2> QED BY <2>1, <2>2 DEF Idle
<1>5. Knows(y, c)'
    <2>1. CASE LoadTasks(y)
        BY <1>1, <2>1, LoadTasksFacts DEF Knows, Live, NotLoaded
    <2>2. CASE LoadPages(y)
        <3> DEFINE live == {d \in Cards : Live(y, d)}
                   t == sync[y].tasks[c]
        <3>1. CASE live = {}
            BY <2>2, <3>1, LoadPagesFacts, IdleKnows
        <3>2. CASE live # {}
            <4>1. /\ sync'[y].tasks = NotLoaded /\ sync'[y].todo = live
                  /\ c \in live => sync'[y].plan[c] = plan(t)
                BY <2>2, <3>2, LoadPagesFacts
            <4>2. t \in Loaded /\ page \in [PageIds -> Row \cup {Nil}]
                BY SyncType DEF TodoTyped, TodoTypeOK, CycleState
            <4>3. /\ plan(t).write = "create" <=> t.synced = Nil \/ page[t.synced.page] = Nil
                  /\ plan(t).write # "create" => plan(t).page = t.synced.page
                BY <4>2, PlanFacts
            <4>4. c \in live =>
                     IF t.synced = Nil THEN synced[c] = Nil
                     ELSE synced[c] # Nil /\ t.synced.page = synced[c].page
                BY DEF Settled, Knows
            <4>5. c \in live =>
                     IF plan(t).write = "create" THEN Vacant(c)
                     ELSE synced[c] # Nil /\ plan(t).page = synced[c].page
                BY <4>3, <4>4 DEF Vacant
            <4>6. ~Live(y, c)'
                BY <4>1 DEF Live, NotLoaded
            <4> HIDE DEF live, t
            <4> QED BY <1>1, <1>2, <4>1, <4>5, <4>6 DEF Knows
        <3> QED BY <3>1, <3>2
    <2> QED BY <2>1, <2>2
<1> QED BY <1>1, <1>2, <1>3, <1>4, <1>5, SettledStays DEF Created

\* Stopping: a card whose row was created and not recorded is stray.
LEMMA StopSettled ==
    ASSUME TodoTyped, NEW y \in Syncs, Refused(y) \/ SyncFails(y),
           NEW c \in Cards \ stray', Settled(c)
    PROVE  Settled(c)'
<1>1. UNCHANGED <<synced, page>> /\ sync' = [sync EXCEPT ![y] = Idle]
    BY DEF Refused, SyncFails
<1>2. SamePage(c) /\ (Vacant(c) <=> Vacant(c)') /\ \A p : IsRow(p, c)' <=> IsRow(p, c)
    BY <1>1 DEF SamePage, Vacant, IsRow
<1>3. sync'[y] = Idle /\ \A x \in Syncs \ {y} : SameWork(x)
    BY <1>1, SyncType DEF TodoTyped, SameWork
<1>4. ~Created(y, c)
    BY DEF Created, Refused, SyncFails, Doing
<1> QED BY <1>2, <1>3, <1>4, IdleKnows, SettledStays

\* Pulling writes the task alone.
LEMMA PullSettled ==
    ASSUME TodoTyped, NEW y \in Syncs, Pull(y), NEW c \in Cards, Settled(c)
    PROVE  Settled(c)'
<1>1. UNCHANGED <<synced, page>> /\ sync[y].step = "pull"
    BY DEF Pull
<1>2. SamePage(c) /\ (Vacant(c) <=> Vacant(c)') /\ \A p : IsRow(p, c)' <=> IsRow(p, c)
    BY <1>1 DEF SamePage, Vacant, IsRow
<1>3. /\ \A x \in Syncs \ {y} : SameWork(x)
      /\ sync'[y].step = "write" /\ sync'[y].tasks = sync[y].tasks
      /\ sync'[y].plan = sync[y].plan /\ sync'[y].todo = sync[y].todo
    BY PullFacts DEF OthersTouched
<1>4. Knows(y, c)'
    BY <1>1, <1>3 DEF Settled, Knows, Live, Vacant
<1> QED BY <1>1, <1>2, <1>3, <1>4, SettledStays DEF Created

\* Updating a row, or writing that of another card.
LEMMA UpdateSettled ==
    ASSUME TodoTyped, PagesAreOwn, NEW y \in Syncs, Write(y), NEW c \in Cards, Settled(c),
           c # InHand(y) \/ Doing(y).write # "create"
    PROVE  Settled(c)'
<1> DEFINE h == InHand(y)
           p == Written(y)
<1>1. UNCHANGED synced /\ sync[y].step = "write"
    BY DEF Write
<1>2. /\ h \in sync[y].todo /\ Doing(y) \in Plan /\ Doing(y) = sync[y].plan[h]
      /\ sync[y].tasks = NotLoaded
    BY <1>1, HandFacts DEF TodoTyped, CyclesHold, Holds
<1>3. /\ \A x \in Syncs \ {y} : SameWork(x)
      /\ sync'[y].step = "record" /\ sync'[y].tasks = NotLoaded
      /\ sync'[y].todo = sync[y].todo
      /\ \A d \in Cards : d # h => sync'[y].plan[d] = sync[y].plan[d]
    BY <1>2, WriteFacts DEF OthersTouched
<1>4. c = h => sync'[y].plan[c].write # "create" /\ sync'[y].plan[c].page = sync[y].plan[c].page
    <2>1. sync'[y].plan[h] = [Doing(y) EXCEPT !.page = Written(y)]
        BY WriteFacts
    <2>2. c = h => Written(y) = Doing(y).page
        BY DEF Written
    <2> QED BY <1>2, <2>1, <2>2 DEF Plan
<1>5. /\ \A q \in PageIds \ {p} : page'[q] = page[q]
      /\ p \in PageIds /\ h \in Cards
      /\ c # h /\ Refers(c, p) => page'[p] = Nil
      /\ c = h => Refers(c, p) /\ (page[p] = Nil => page'[p] = Nil)
      /\ page'[p] = page[p] \/ page'[p].of = h
    <2>1. /\ \A q \in PageIds \ {p} : page'[q] = page[q]
          /\ p \in PageIds /\ h \in Cards
          /\ page'[p] = page[p] \/ page'[p] = [of |-> h, props |-> Doing(y).props]
        BY WrittenFacts
    <2>2. c # h /\ Refers(c, p) => page'[p] = Nil
        BY WrittenFacts
    <2>3. c = h => Refers(c, p) /\ (page[p] = Nil => page'[p] = Nil)
        BY WrittenFacts
    <2> HIDE DEF h, p
    <2> QED BY <2>1, <2>2, <2>3
<1>6. SamePage(c)
    BY <1>1 DEF SamePage
<1>7. ASSUME Vacant(c) PROVE Vacant(c)'
    <2>1. ASSUME synced[c] # Nil, synced[c].page = p PROVE page'[p] = Nil
        BY <1>5, <1>7, <2>1 DEF Refers, Vacant
    <2>2. synced[c] # Nil => synced[c].page \in PageIds
        BY DEF TodoTyped, TodoTypeOK, Synced
    <2> QED BY <1>1, <1>5, <1>7, <2>1, <2>2 DEF Vacant
<1>8. ASSUME NEW q \in PageIds, IsRow(q, c)' PROVE IsRow(q, c)
    <2>1. CASE q # p
        BY <1>5, <1>8, <2>1 DEF IsRow
    <2>2. CASE q = p
        BY <1>5, <1>8, <2>2 DEF IsRow, PagesAreOwn
    <2> QED BY <2>1, <2>2
<1> HIDE DEF h, p
<1>9. sync'[y].plan[c].write = "create" <=> c # h /\ sync[y].plan[c].write = "create"
    <2>1. CASE c = h
        BY <1>4, <2>1
    <2>2. CASE c # h
        BY <1>3, <2>2
    <2> QED BY <2>1, <2>2
<1>10. Knows(y, c)'
    <2>1. ~Live(y, c)'
        BY <1>3 DEF Live, NotLoaded
    <2>2. c = h => sync[y].plan[c].write # "create"
        BY <1>2 DEF h
    <2>3. c \in sync[y].todo =>
             IF sync[y].plan[c].write = "create" THEN Vacant(c)
             ELSE synced[c] # Nil /\ sync[y].plan[c].page = synced[c].page
        BY DEF Settled, Knows
    <2>4. sync'[y].plan[c].page = sync[y].plan[c].page
        BY <1>3, <1>4
    <2> QED BY <1>1, <1>3, <1>7, <1>9, <2>1, <2>2, <2>3, <2>4 DEF Knows
<1>11. ~Created(y, c) /\ ~Created(y, c)'
    <2>1. InHand(y)' = h
        BY <1>3 DEF InHand, h
    <2> QED BY <1>1, <1>9, <2>1 DEF Created
<1> QED BY <1>3, <1>6, <1>7, <1>8, <1>10, <1>11, SettledStays

\* A cycle that writes a row by itself finds every other idle.
LEMMA OthersIdle ==
    ASSUME NEW y \in Syncs, NEW c \in Cards, Doing(y).write = "create", c \notin Strayed(y, c)
    PROVE  \A x \in Syncs \ {y} : sync[x].step = "idle"
BY DEF Strayed

\* Creating the row of a card that has none.
LEMMA CreateSettled ==
    ASSUME TodoTyped, PagesAreOwn, NEW y \in Syncs, Write(y), Doing(y).write = "create",
           NEW c \in Cards \ stray', c = InHand(y), Settled(c)
    PROVE  Settled(c)'
<1> DEFINE p == Written(y)
<1>1. UNCHANGED synced /\ sync[y].step = "write" /\ c \in sync[y].todo
      /\ sync[y].plan[c].write = "create"
    BY HandFacts DEF Write
<1>2. \A x \in Syncs \ {y} : sync[x].step = "idle"
    BY OthersIdle DEF Write
<1>3. /\ \A x \in Syncs \ {y} : SameWork(x)
      /\ sync'[y].step = "record" /\ sync'[y].todo = sync[y].todo
      /\ sync'[y].tasks = NotLoaded
      /\ sync'[y].plan[c] = [Doing(y) EXCEPT !.page = p]
    <2>1. sync[y].tasks = NotLoaded
        BY <1>1 DEF TodoTyped, CyclesHold, Holds
    <2> QED BY <2>1, WriteFacts DEF OthersTouched
<1>4. Doing(y) \in Plan
    BY <1>1, HandFacts
<1>5. sync'[y].plan[c].page = p /\ sync'[y].plan[c].write = "create"
    BY <1>3, <1>4 DEF Plan
<1>6. p \in PageIds /\ page[p] = Nil /\ ~Refers(c, p)
      /\ \A q \in PageIds \ {p} : page'[q] = page[q]
    BY WrittenFacts
<1>7. Vacant(c)
    BY <1>1 DEF Settled, Knows
<1>8. Vacant(c)'
    <2>1. synced[c] # Nil => synced[c].page \in PageIds \ {p}
        BY <1>6 DEF TodoTyped, TodoTypeOK, Synced, Refers
    <2> QED BY <1>1, <1>6, <1>7, <2>1 DEF Vacant
<1> HIDE DEF p
<1>9. Knows(y, c)'
    BY <1>3, <1>5, <1>8 DEF Knows, Live, NotLoaded
<1>10. ASSUME NEW x \in Syncs \ {y} PROVE Knows(x, c)' /\ ~Created(x, c) /\ ~Created(x, c)'
    <2>1. ~Live(x, c) /\ c \notin sync[x].todo /\ ~Created(x, c)
        BY <1>2, IdleCycle
    <2> QED BY <1>3, <2>1, CreatedSame DEF SameWork, Live, Knows
<1>11. Created(y, c)'
    <2>1. InHand(y)' = InHand(y)
        BY <1>3 DEF InHand
    <2> QED BY <1>1, <1>3, <1>5, <2>1 DEF Created
<1>12. ASSUME NEW q \in PageIds, IsRow(q, c)' PROVE q = p
    <2> SUFFICES ASSUME q # p PROVE FALSE
        OBVIOUS
    <2>1. IsRow(q, c) /\ page[q] # Nil
        BY <1>6, <1>12 DEF IsRow
    <2>2. ~Created(y, c)
        BY <1>1 DEF Created
    <2>3. synced[c] # Nil /\ synced[c].page = q
        BY <1>10, <2>1, <2>2 DEF Settled
    <2> QED BY <1>7, <2>1, <2>3 DEF Vacant
<1>13. \A x \in Syncs : Knows(x, c)'
    BY <1>9, <1>10
<1>14. \A x, z \in Syncs : Created(x, c)' /\ Created(z, c)' => x = z
    BY <1>10
<1>15. \A q \in PageIds : IsRow(q, c)' => Created(y, c)' /\ sync'[y].plan[c].page = q
    BY <1>5, <1>11, <1>12
<1> QED BY <1>13, <1>14, <1>15 DEF Settled

\* Recording: the row created becomes the one that the record names.
LEMMA RecordSettled ==
    ASSUME TodoTyped, NEW y \in Syncs, Record(y), NEW c \in Cards \ stray', Settled(c)
    PROVE  Settled(c)'
<1> DEFINE h == InHand(y)
<1>1. UNCHANGED page /\ sync[y].step = "record" /\ stray' = Strayed(y, h)
    BY DEF Record
<1>2. /\ h \in Cards /\ h \in sync[y].todo /\ Doing(y) = sync[y].plan[h]
      /\ Doing(y).page \in PageIds
    BY <1>1, HandFacts
<1>3. /\ \A d \in Cards : d # h => synced'[d] = synced[d]
      /\ synced'[h] # Nil /\ synced'[h].page = Doing(y).page
    <2>1. synced'[h] = [page |-> Doing(y).page, hash |-> Doing(y).props,
                        done |-> Doing(y).props.done]
        BY <1>2 DEF Record, content_hash, TodoTyped, TodoTypeOK
    <2>2. Doing(y).props \in Projection /\ Doing(y).props.done \in BOOLEAN
        BY <1>1, HandFacts DEF Plan, Projection
    <2>3. synced'[h] \in Synced
        BY <1>2, <2>1, <2>2 DEF Synced
    <2> QED BY <1>2, <2>1, <2>3, SyncAssumption DEF Record, TodoTyped, TodoTypeOK
<1>4. /\ \A x \in Syncs \ {y} : SameWork(x)
      /\ sync'[y].tasks = NotLoaded /\ sync'[y].todo = sync[y].todo \ {h}
      /\ sync'[y].step # "record"
      /\ c # h /\ c \in sync'[y].todo => sync'[y].plan[c] = sync[y].plan[c]
    <2>1. CASE sync[y].todo \ {h} = {}
        <3>1. sync'[y] = Idle /\ \A x \in Syncs \ {y} : SameWork(x)
            BY <2>1, RecordFacts DEF OthersTouched
        <3> QED BY <2>1, <3>1 DEF Idle
    <2>2. CASE sync[y].todo \ {h} # {}
        BY <2>2, RecordFacts DEF OthersTouched
    <2> QED BY <2>1, <2>2
<1>5. ~Live(y, c)' /\ ~Created(y, c)'
    BY <1>4 DEF Live, NotLoaded, Created
<1> HIDE DEF h
<1>6. CASE c # h
    <2>1. SamePage(c) /\ (Vacant(c) <=> Vacant(c)')
          /\ \A q : IsRow(q, c)' <=> IsRow(q, c)
        BY <1>1, <1>3, <1>6 DEF SamePage, Vacant, IsRow
    <2>2. ~Created(y, c)
        BY <1>6 DEF Created, h
    <2>3. c \in sync'[y].todo => c \in sync[y].todo /\ sync'[y].plan[c] = sync[y].plan[c]
        BY <1>4, <1>6
    <2>4. Knows(y, c)'
        BY <1>3, <1>5, <1>6, <2>1, <2>3 DEF Settled, Knows
    <2> QED BY <1>4, <1>5, <2>1, <2>2, <2>4, SettledStays
<1>7. CASE c = h /\ Doing(y).write # "create"
    <2>1. synced[c] # Nil /\ Doing(y).page = synced[c].page
        BY <1>2, <1>7 DEF Settled, Knows
    <2>2. SamePage(c) /\ (Vacant(c) <=> Vacant(c)')
          /\ \A q : IsRow(q, c)' <=> IsRow(q, c)
        BY <1>1, <1>3, <1>7, <2>1 DEF SamePage, Vacant, IsRow
    <2>3. ~Created(y, c)
        BY <1>2, <1>7 DEF Created
    <2>4. Knows(y, c)'
        BY <1>4, <1>5, <1>7 DEF Knows
    <2> QED BY <1>4, <1>5, <2>2, <2>3, <2>4, SettledStays
<1>8. CASE c = h /\ Doing(y).write = "create"
    <2>1. \A x \in Syncs \ {y} : sync[x].step = "idle"
        BY <1>1, <1>8, OthersIdle
    <2>2. ASSUME NEW x \in Syncs \ {y}
          PROVE  Knows(x, c)' /\ ~Created(x, c) /\ ~Created(x, c)'
        <3>1. ~Live(x, c) /\ c \notin sync[x].todo /\ ~Created(x, c)
            BY <2>1, IdleCycle
        <3> QED BY <1>4, <3>1, CreatedSame DEF SameWork, Live, Knows
    <2>3. Knows(y, c)'
        BY <1>4, <1>5, <1>8 DEF Knows
    <2>4. Vacant(c)
        BY <1>2, <1>8 DEF Settled, Knows
    <2>5. ASSUME NEW q \in PageIds, IsRow(q, c)' PROVE synced'[c].page = q
        <3>1. IsRow(q, c) /\ page[q] # Nil
            BY <1>1, <2>5 DEF IsRow
        <3>2. ~(synced[c] # Nil /\ synced[c].page = q)
            BY <2>4, <3>1 DEF Vacant
        <3>3. sync[y].plan[c].page = q
            BY <2>2, <3>1, <3>2 DEF Settled
        <3> QED BY <1>2, <1>3, <1>8, <3>3
    <2>6. \A x \in Syncs : Knows(x, c)' /\ ~Created(x, c)'
        BY <1>5, <2>2, <2>3
    <2> QED BY <1>3, <1>8, <2>5, <2>6 DEF Settled
<1> QED BY <1>6, <1>7, <1>8

\* There is no row at the start.
LEMMA RowsSettledInit == TodoInit => RowsSettled
<1> SUFFICES ASSUME TodoInit, NEW c \in Cards PROVE Settled(c)
    BY DEF RowsSettled
<1>1. \A x \in Syncs : ~Live(x, c) /\ c \notin sync[x].todo
    BY DEF TodoInit, Live, Idle, NotLoaded
<1>2. \A p \in PageIds : ~IsRow(p, c)
    BY DEF TodoInit, IsRow
<1> QED BY <1>1, <1>2 DEF Settled, Knows, Created

\* Every action keeps the rows of the cards that are not stray settled.
LEMMA RowsSettledStep ==
    ASSUME TodoTyped, PagesAreOwn, RowsSettled, [TodoNext]_todoVars
    PROVE  RowsSettled'
<1>1. ASSUME Quiet PROVE RowsSettled'
    <2>1. \A c \in Cards \ stray' : Settled(c)
        BY <1>1 DEF Quiet, RowsSettled
    <2> QED BY <1>1, <2>1, QuietSettled DEF RowsSettled
<1>2. ASSUME NEW y \in Syncs, run_once(y) \/ SyncFails(y) PROVE RowsSettled'
    <2> SUFFICES ASSUME NEW c \in Cards \ stray' PROVE Settled(c)'
        BY DEF RowsSettled
    <2>1. stray \subseteq stray'
        BY <1>2 DEF run_once, LoadTasks, LoadPages, Pull, Write, Refused, Record, SyncFails,
           history, Strayed
    <2>2. Settled(c)
        BY <2>1 DEF RowsSettled
    <2>3. CASE LoadTasks(y) \/ LoadPages(y)
        BY <2>2, <2>3, LoadSettled
    <2>4. CASE Pull(y)
        BY <2>2, <2>4, PullSettled
    <2>5. CASE Write(y)
        <3>1. CASE c # InHand(y) \/ Doing(y).write # "create"
            BY <2>2, <2>5, <3>1, UpdateSettled
        <3>2. CASE c = InHand(y) /\ Doing(y).write = "create"
            BY <2>2, <2>5, <3>2, CreateSettled
        <3> QED BY <3>1, <3>2
    <2>6. CASE Record(y)
        BY <2>2, <2>6, RecordSettled
    <2>7. CASE Refused(y) \/ SyncFails(y)
        BY <2>2, <2>7, StopSettled
    <2> QED BY <1>2, <2>3, <2>4, <2>5, <2>6, <2>7 DEF run_once
<1> QED BY <1>1, <1>2, ActsAreQuiet DEF TodoNext

\* A row created stands beside no live row, so a settled card has one.
LEMMA SettledIsOneRow == RowsSettled => OneRowPerTask
<1> SUFFICES ASSUME RowsSettled, NEW c \in Cards \ stray, NEW p \in PageIds,
                    NEW q \in PageIds, IsRow(p, c), IsRow(q, c)
             PROVE  p = q
    BY DEF OneRowPerTask
<1>1. Settled(c) /\ page[p] # Nil /\ page[q] # Nil
    BY DEF RowsSettled, IsRow
<1>2. \A x \in Syncs : Created(x, c) => Vacant(c)
    BY <1>1 DEF Settled, Created, Knows
<1>3. CASE synced[c] # Nil /\ synced[c].page \in {p, q}
    BY <1>1, <1>2, <1>3 DEF Settled, Vacant
<1>4. CASE ~(synced[c] # Nil /\ synced[c].page \in {p, q})
    BY <1>1, <1>4 DEF Settled
<1> QED BY <1>3, <1>4

\* Whatever the operator deletes, changes or toggles and wherever a cycle stops, a
\* card whose row was neither created and left unrecorded nor written by two
\* cycles at once has at most one row.
THEOREM RowsAreOnePerTask == TodoSpec => []OneRowPerTask
<1> DEFINE Inv == TodoTyped /\ PagesAreOwn /\ RowsSettled
<1>1. TodoInit => Inv
    BY TodoTypedInit, PagesOwnInit, RowsSettledInit
<1>2. Inv /\ [TodoNext]_todoVars => Inv'
    BY TodoTypedStep, PagesOwnStep, RowsSettledStep
<1>3. Inv => OneRowPerTask
    BY SettledIsOneRow
<1> QED BY <1>1, <1>2, <1>3, PTL DEF TodoSpec

-----------------------------------------------------------------------------
(* The side that changed *)

\* A step of y that makes no record leaves every copy of a record as it was made.
LEMMA HashesStay ==
    ASSUME HashesAgree, UNCHANGED synced, NEW y \in Syncs,
           \A x \in Syncs \ {y} : SameWork(x),
           \A c \in Cards : sync'[y].tasks[c].synced \in
                               {Nil, synced[c], sync[y].tasks[c].synced}
    PROVE  HashesAgree'
<1>1. \A x \in Syncs \ {y} : sync'[x].tasks = sync[x].tasks
    BY DEF SameWork
<1>2. ASSUME NEW x \in Syncs, NEW c \in Cards
      PROVE  sync'[x].tasks[c].synced \in {Nil, synced[c], sync[x].tasks[c].synced}
    BY <1>1
<1>3. ASSUME NEW x \in Syncs, NEW c \in Cards, sync'[x].tasks[c].synced # Nil
      PROVE  sync'[x].tasks[c].synced.hash.done = sync'[x].tasks[c].synced.done
    BY <1>2, <1>3 DEF HashesAgree
<1> QED BY <1>3 DEF HashesAgree

\* Only the upsert makes a record, its hash and its Done from the same properties.
LEMMA HashesStep ==
    ASSUME TodoTyped, HashesAgree, [TodoNext]_todoVars
    PROVE  HashesAgree'
<1>1. ASSUME Quiet PROVE HashesAgree'
    BY <1>1 DEF Quiet, SameWork, HashesAgree
<1>2. ASSUME NEW y \in Syncs, run_once(y) \/ SyncFails(y) PROVE HashesAgree'
    <2>1. \A c \in Cards : NotLoaded[c].synced = Nil
        BY DEF NotLoaded
    <2>2. CASE LoadTasks(y)
        <3>1. UNCHANGED synced /\ \A x \in Syncs \ {y} : SameWork(x)
            BY <2>2, LoadTasksFacts DEF LoadTasks, SameWork
        <3>2. \A c \in Cards : sync'[y].tasks[c].synced \in {Nil, synced[c]}
            BY <2>1, <2>2, LoadTasksFacts
        <3> QED BY <3>1, <3>2, HashesStay
    <2>3. CASE LoadPages(y)
        <3>1. UNCHANGED synced /\ (\A x \in Syncs \ {y} : SameWork(x))
              /\ sync'[y].tasks = NotLoaded
            BY <2>3, LoadPagesFacts DEF LoadPages, SameWork
        <3> QED BY <2>1, <3>1, HashesStay
    <2>4. CASE Pull(y)
        <3>1. UNCHANGED synced /\ (\A x \in Syncs \ {y} : SameWork(x))
              /\ sync'[y].tasks = sync[y].tasks
            BY <2>4, PullFacts DEF Pull, OthersTouched
        <3> QED BY <3>1, HashesStay
    <2>5. CASE Write(y)
        <3>1. UNCHANGED synced /\ (\A x \in Syncs \ {y} : SameWork(x))
              /\ sync'[y].tasks = sync[y].tasks
            BY <2>5, WriteFacts DEF Write, OthersTouched
        <3> QED BY <3>1, HashesStay
    <2>6. CASE Record(y)
        <3> DEFINE h == InHand(y)
        <3>1. \A d \in Cards : d # h => synced'[d] = synced[d]
            BY <2>6 DEF Record, TodoTyped, TodoTypeOK
        <3>2. h \in Cards => synced'[h] = [page |-> Doing(y).page, hash |-> Doing(y).props,
                                           done |-> Doing(y).props.done]
            BY <2>6 DEF Record, content_hash, TodoTyped, TodoTypeOK
        <3>3. (\A x \in Syncs \ {y} : SameWork(x)) /\ sync'[y].tasks = NotLoaded
            BY <2>6, RecordFacts DEF OthersTouched
        <3>4. \A x \in Syncs \ {y} : sync'[x].tasks = sync[x].tasks
            BY <3>3 DEF SameWork
        <3> HIDE DEF h
        <3>5. \A d \in Cards : synced'[d] # Nil => synced'[d].hash.done = synced'[d].done
            BY <3>1, <3>2 DEF HashesAgree
        <3> QED BY <2>1, <3>3, <3>4, <3>5 DEF HashesAgree
    <2>7. CASE Refused(y) \/ SyncFails(y)
        <3>1. UNCHANGED synced /\ sync' = [sync EXCEPT ![y] = Idle]
            BY <2>7 DEF Refused, SyncFails
        <3>2. sync'[y].tasks = NotLoaded /\ \A x \in Syncs \ {y} : SameWork(x)
            BY <3>1, SyncType DEF TodoTyped, SameWork, Idle
        <3> QED BY <2>1, <3>1, <3>2, HashesStay
    <2> QED BY <1>2, <2>2, <2>3, <2>4, <2>5, <2>6, <2>7 DEF run_once
<1> QED BY <1>1, <1>2, ActsAreQuiet DEF TodoNext

Current(x, c) == LoadIsCurrent(x, c) /\ PlanIsCurrent(x, c)

\* An idle cycle has loaded and planned nothing that could be out of date.
LEMMA IdleIsCurrent ==
    ASSUME NEW x \in Syncs, sync[x] = Idle, NEW c \in Cards
    PROVE  Current(x, c)
BY DEF Current, LoadIsCurrent, PlanIsCurrent, Live, Idle, NotLoaded

\* What a cycle knows of a card stays current when neither the task nor the record
\* nor the rows of the card change.
LEMMA CurrentSame ==
    ASSUME TodoTyped, NEW x \in Syncs, SameWork(x), NEW c \in Cards, Current(x, c),
           task[c] # "absent" => task'[c] = task[c], synced'[c] = synced[c],
           \A p \in PageIds : Refers(c, p) => page'[p] = page[p]
    PROVE  Current(x, c)'
<1>1. Holds(x) /\ sync[x] \in CycleState
    BY SyncType DEF TodoTyped, CyclesHold
<1>2. LoadIsCurrent(x, c)'
    BY <1>1 DEF Current, LoadIsCurrent, Live, SameWork, Holds
<1>3. ASSUME c \in sync[x].todo PROVE PlanIsCurrent(x, c)'
    <2> DEFINE s == sync[x].plan[c]
    <2>1. s \in Plan /\ s # Nil /\ task[c] # "absent"
        BY <1>1, <1>3 DEF Holds, CycleState
    <2>2. s.write # "create" \/ (c = InHand(x) /\ sync[x].step = "record") =>
             page'[s.page] = page[s.page]
        <3>1. s.page # Nil => s.page \in PageIds
            BY <2>1 DEF Plan
        <3>2. s.page # Nil => Refers(c, s.page)
            BY <2>1 DEF Refers
        <3> QED BY <1>1, <1>3, <3>1, <3>2 DEF Holds
    <2>3. /\ sync'[x].plan[c] = s /\ InHand(x)' = InHand(x) /\ sync'[x].step = sync[x].step
          /\ Completed(c)' = Completed(c) /\ synced'[c] = synced[c]
        BY <2>1, SameHand DEF SameWork, Completed
    <2>4. PlanIsCurrent(x, c)
        BY DEF Current
    <2> HIDE DEF s
    <2> QED BY <1>3, <2>2, <2>3, <2>4 DEF PlanIsCurrent, s
<1>4. PlanIsCurrent(x, c)'
    BY <1>3 DEF PlanIsCurrent, SameWork
<1> QED BY <1>2, <1>4 DEF Current

\* Card c, as cycle x sees it.
StaysCurrent(x, c) == c \notin sync'[x].touched => Current(x, c)'

\* A step that touches, in cycle x, each card that it changes anything of.
LEMMA UntouchedStays ==
    ASSUME TodoTyped, CyclesAreCurrent, NEW x \in Syncs, SameWork(x), NEW c \in Cards,
           sync[x].step # "idle" /\ c \notin sync'[x].touched =>
              /\ task[c] # "absent" => task'[c] = task[c]
              /\ synced'[c] = synced[c]
              /\ \A p \in PageIds : Refers(c, p) => page'[p] = page[p]
    PROVE  StaysCurrent(x, c)
<1>1. CASE sync[x].step = "idle"
    <2>1. ~Live(x, c) /\ c \notin sync[x].todo
        BY <1>1, IdleCycle
    <2> QED BY <2>1 DEF StaysCurrent, Current, LoadIsCurrent, PlanIsCurrent, Live, SameWork
<1>2. CASE sync[x].step # "idle"
    <2>1. c \notin sync'[x].touched => Current(x, c)
        BY DEF CyclesAreCurrent, Current, SameWork
    <2> QED BY <1>2, <2>1, CurrentSame DEF StaysCurrent
<1> QED BY <1>1, <1>2

\* What the operator does, in Discord or in Notion.
LEMMA ActsStayCurrent ==
    ASSUME TodoTyped, AssignmentInHand, PagesAreOwn, CyclesAreCurrent,
           \/ UNCHANGED todoVars
           \/ \E c \in Cards : Tinder(c) \/ PromoteFails(c) \/ handle_toggle(c)
           \/ \E pulled \in [Initiatives -> Standing] : okr_pull(pulled)
           \/ \E p \in PageIds : Tick(p) \/ Delete(p) \/ \E g \in Assignment : Retarget(p, g),
           NEW x \in Syncs, NEW c \in Cards
    PROVE  StaysCurrent(x, c)
<1>0. /\ sync \in [Syncs -> CycleState] /\ page \in [PageIds -> Row \cup {Nil}]
      /\ task \in [Cards -> {"absent", "open", "completed"}]
    BY SyncType DEF TodoTyped, TodoTypeOK
<1>1. SameWork(x)
    BY ActsAreQuiet DEF Quiet
<1>2. UNCHANGED synced
    BY ActsAreQuiet DEF Quiet
<1>3. CASE UNCHANGED todoVars
    BY <1>1, <1>3, UntouchedStays DEF todoVars
<1>4. ASSUME NEW d \in Cards, Tinder(d) \/ PromoteFails(d) PROVE StaysCurrent(x, c)
    <2>1. UNCHANGED page
        BY <1>4 DEF Tinder, add_todo, PostCard, decide, promote, assign, PromoteFails
    <2>2. CASE promote(d)
        <3>1. task' = [task EXCEPT ![d] = "open"] /\ task[d] = "absent"
            BY <2>2 DEF promote, AssignmentInHand
        <3>2. task[c] # "absent" => task'[c] = task[c]
            BY <1>0, <3>1
        <3> QED BY <1>1, <1>2, <2>1, <3>2, UntouchedStays
    <2>3. CASE UNCHANGED task
        BY <1>1, <1>2, <2>1, <2>3, UntouchedStays
    <2> QED BY <1>4, <2>2, <2>3 DEF Tinder, add_todo, PostCard, decide, assign, PromoteFails
<1>5. ASSUME NEW d \in Cards, handle_toggle(d) PROVE StaysCurrent(x, c)
    <2>1. UNCHANGED page /\ SetDone(d, ~Completed(d)) /\ Touch(d)
        BY <1>5 DEF handle_toggle
    <2>2. sync[x].step # "idle" => d \in sync'[x].touched
        BY <1>0, <2>1, TouchFacts
    <2>3. c # d => task'[c] = task[c]
        BY <1>0, <2>1 DEF SetDone
    <2> QED BY <1>1, <1>2, <2>1, <2>2, <2>3, UntouchedStays
<1>6. ASSUME NEW pulled \in [Initiatives -> Standing], okr_pull(pulled)
      PROVE  StaysCurrent(x, c)
    BY <1>0, <1>1, <1>6, PullTouches, UntouchedStays
<1>7. ASSUME NEW p \in PageIds, Tick(p) \/ Delete(p) \/ \E g \in Assignment : Retarget(p, g)
      PROVE  StaysCurrent(x, c)
    <2>1. /\ page[p] # Nil /\ page[p] \in Row /\ page[p].of \in Cards
          /\ Touch(page[p].of) /\ UNCHANGED task
        BY <1>0, <1>7 DEF Tick, Delete, Retarget, Row
    <2>2. \A q \in PageIds : q # p => page'[q] = page[q]
        BY <1>0, <1>7 DEF Tick, Delete, Retarget
    <2>3. sync[x].step # "idle" => page[p].of \in sync'[x].touched
        BY <1>0, <2>1, TouchFacts
    <2>4. Refers(c, p) => c = page[p].of
        BY <2>1 DEF PagesAreOwn
    <2> QED BY <1>1, <1>2, <2>1, <2>2, <2>3, <2>4, UntouchedStays
<1> QED BY <1>3, <1>4, <1>5, <1>6, <1>7

\* What another cycle does.
LEMMA OthersStayCurrent ==
    ASSUME TodoTyped, PagesAreOwn, CyclesAreCurrent, NEW y \in Syncs,
           run_once(y) \/ SyncFails(y), NEW x \in Syncs \ {y}, NEW c \in Cards
    PROVE  StaysCurrent(x, c)
<1> DEFINE h == InHand(y)
<1>0. /\ sync \in [Syncs -> CycleState]
      /\ task \in [Cards -> {"absent", "open", "completed"}]
    BY SyncType DEF TodoTyped, TodoTypeOK
<1>1. CASE LoadTasks(y) \/ LoadPages(y)
    <2>1. SameWork(x)
        BY <1>1, LoadTasksFacts, LoadPagesFacts DEF SameWork
    <2> QED BY <1>1, <2>1, UntouchedStays DEF LoadTasks, LoadPages
<1>2. CASE Refused(y) \/ SyncFails(y)
    <2>1. SameWork(x)
        BY <1>0, <1>2 DEF Refused, SyncFails, SameWork
    <2> QED BY <1>2, <2>1, UntouchedStays DEF Refused, SyncFails
<1>3. CASE Pull(y)
    <2>1. SameWork(x) /\ (sync[x].step # "idle" => h \in sync'[x].touched)
        BY <1>3, PullFacts DEF OthersTouched
    <2>2. UNCHANGED <<page, synced>> /\ (c # h => task'[c] = task[c])
        BY <1>0, <1>3 DEF Pull, SetDone
    <2> QED BY <2>1, <2>2, UntouchedStays
<1>4. CASE Write(y)
    <2>1. SameWork(x) /\ (sync[x].step # "idle" => h \in sync'[x].touched)
        BY <1>4, WriteFacts DEF OthersTouched
    <2>2. UNCHANGED <<task, synced>>
        BY <1>4 DEF Write
    <2>3. ASSUME c # h, NEW p \in PageIds, Refers(c, p) PROVE page'[p] = page[p]
        <3>1. CASE p # Written(y)
            BY <1>4, <3>1, WrittenFacts
        <3>2. CASE p = Written(y)
            BY <1>4, <2>3, <3>2, WrittenFacts
        <3> QED BY <3>1, <3>2
    <2> QED BY <2>1, <2>2, <2>3, UntouchedStays
<1>5. CASE Record(y)
    <2>1. SameWork(x) /\ (sync[x].step # "idle" => h \in sync'[x].touched)
        BY <1>5, RecordFacts DEF OthersTouched
    <2>2. UNCHANGED <<task, page>> /\ (c # h => synced'[c] = synced[c])
        BY <1>5 DEF Record, TodoTyped, TodoTypeOK
    <2> QED BY <2>1, <2>2, UntouchedStays
<1> QED BY <1>1, <1>2, <1>3, <1>4, <1>5 DEF run_once

\* What is loaded is current, and so is the plan made from it.
LEMMA LoadStaysCurrent ==
    ASSUME TodoTyped, HashesAgree, CyclesAreCurrent, NEW y \in Syncs,
           LoadTasks(y) \/ LoadPages(y), NEW c \in Cards
    PROVE  StaysCurrent(y, c)
<1>1. UNCHANGED <<task, synced, page>>
    BY DEF LoadTasks, LoadPages
<1>2. CASE LoadTasks(y)
    <2>1. /\ sync'[y].todo = {}
          /\ task[c] = "absent" => sync'[y].tasks[c] = NotLoaded[c]
          /\ task[c] # "absent" =>
                sync'[y].tasks[c].status = task[c] /\ sync'[y].tasks[c].synced = synced[c]
        BY <1>2, LoadTasksFacts
    <2>2. NotLoaded[c].status = "absent"
        BY DEF NotLoaded
    <2> QED BY <1>1, <2>1, <2>2
            DEF StaysCurrent, Current, LoadIsCurrent, PlanIsCurrent, Live
<1>3. CASE LoadPages(y)
    <2> DEFINE live == {d \in Cards : Live(y, d)}
               t == sync[y].tasks[c]
    <2>1. CASE live = {}
        <3>1. sync'[y] = Idle
            BY <1>3, <2>1, LoadPagesFacts
        <3> QED BY <3>1, <1>1 DEF StaysCurrent, Current, LoadIsCurrent, PlanIsCurrent, Live,
                              Idle, NotLoaded
    <2>2. CASE live # {}
        <3>1. /\ sync'[y].tasks = NotLoaded /\ sync'[y].todo = live
              /\ sync'[y].touched = sync[y].touched
              /\ c \in live => sync'[y].plan[c] = plan(t)
              /\ sync'[y].step = IF sync'[y].plan[FirstOf(live)].done = "pull"
                                 THEN "pull" ELSE "write"
            BY <1>3, <2>2, LoadPagesFacts
        <3>a. LoadIsCurrent(y, c)'
            BY <3>1 DEF LoadIsCurrent, Live, NotLoaded
        <3>b. c \notin live => PlanIsCurrent(y, c)'
            BY <3>1 DEF PlanIsCurrent
        <3> SUFFICES ASSUME c \notin sync[y].touched, c \in live
                     PROVE  PlanIsCurrent(y, c)'
            BY <3>1, <3>a, <3>b DEF StaysCurrent, Current
        <3>2. t.status = task[c] /\ t.synced = synced[c]
            BY DEF CyclesAreCurrent, LoadIsCurrent
        <3>3. t \in Loaded /\ page \in [PageIds -> Row \cup {Nil}]
            BY SyncType DEF TodoTyped, TodoTypeOK, CycleState
        <3>4. t.synced # Nil => t.synced.hash.done = t.synced.done
            BY DEF HashesAgree
        <3> DEFINE s == plan(t)
        <3>5. /\ s.write = "create" <=> t.synced = Nil \/ page[t.synced.page] = Nil
              /\ s.write # "create" => s.page = t.synced.page
              /\ s.done # "pull" => s.props.done = (t.status = "completed")
              /\ s.write # "create" /\ t.synced.hash.done = t.synced.done =>
                     /\ s.done # "agree" => s.props.done # t.synced.done
                     /\ s.write = "skip" => page[s.page].props.done = s.props.done
            BY <3>3, PlanFacts
        <3> HIDE DEF s, t
        <3>6. sync'[y].plan[c] = s
            BY <3>1 DEF s
        <3>7. /\ s.write # "create" =>
                    /\ synced'[c] # Nil /\ page'[s.page] # Nil
                    /\ s.done # "agree" => s.props.done # synced'[c].done
                    /\ s.write = "skip" => page'[s.page].props.done = s.props.done
              /\ s.done # "pull" => Completed(c)' = s.props.done
            BY <1>1, <3>2, <3>4, <3>5 DEF Completed
        <3>8. s.done = "pull" /\ c = InHand(y)' => sync'[y].step = "pull"
            BY <3>1, <3>6 DEF InHand
        <3>9. sync'[y].step # "record"
            BY <3>1
        <3> QED BY <3>6, <3>7, <3>8, <3>9 DEF PlanIsCurrent
    <2> QED BY <2>1, <2>2
<1> QED BY <1>2, <1>3

\* The task takes the Done of the plan.
LEMMA PullStaysCurrent ==
    ASSUME TodoTyped, CyclesAreCurrent, NEW y \in Syncs, Pull(y), NEW c \in Cards
    PROVE  StaysCurrent(y, c)
<1> DEFINE h == InHand(y)
           s == sync[y].plan[c]
<1>0. /\ task \in [Cards -> {"absent", "open", "completed"}]
      /\ UNCHANGED <<page, synced>> /\ sync[y].step = "pull"
      /\ SetDone(h, Doing(y).props.done)
    BY DEF Pull, TodoTyped, TodoTypeOK
<1>1. /\ h \in Cards /\ h \in sync[y].todo /\ Doing(y) = sync[y].plan[h] /\ Doing(y) \in Plan
      /\ Holds(y)
    BY <1>0, HandFacts DEF TodoTyped, CyclesHold
<1>2. /\ sync'[y].step = "write" /\ sync'[y].tasks = NotLoaded
      /\ sync'[y].plan = sync[y].plan /\ sync'[y].todo = sync[y].todo
      /\ sync'[y].touched = sync[y].touched /\ InHand(y)' = h
    BY <1>0, <1>1, PullFacts DEF Holds, InHand
<1> SUFFICES ASSUME c \notin sync[y].touched, c \in sync[y].todo
             PROVE  PlanIsCurrent(y, c)'
    BY <1>2 DEF StaysCurrent, Current, LoadIsCurrent, PlanIsCurrent, Live, NotLoaded
<1>3. PlanIsCurrent(y, c)
    BY DEF CyclesAreCurrent
<1>4. CASE c = h
    <2>1. task[c] # "absent" /\ Doing(y).props.done \in BOOLEAN
        BY <1>1, <1>4 DEF Holds, Plan, Projection
    <2>2. Completed(c)' = Doing(y).props.done
        BY <1>0, <1>1, <1>4, <2>1 DEF SetDone, Completed
    <2>3. Doing(y) = s
        BY <1>1, <1>4
    <2> HIDE DEF h, s
    <2> QED BY <1>0, <1>2, <1>3, <2>2, <2>3 DEF PlanIsCurrent, s
<1>5. CASE c # h
    <2>1. Completed(c)' = Completed(c)
        BY <1>0, <1>5 DEF SetDone, Completed
    <2> HIDE DEF s
    <2> QED BY <1>0, <1>2, <1>3, <1>5, <2>1 DEF PlanIsCurrent, s
<1> QED BY <1>4, <1>5

\* The row takes it.
LEMMA WriteStaysCurrent ==
    ASSUME TodoTyped, PagesAreOwn, CyclesAreCurrent, NEW y \in Syncs, Write(y),
           NEW c \in Cards
    PROVE  StaysCurrent(y, c)
<1> DEFINE h == InHand(y)
           p == Written(y)
           s == sync[y].plan[c]
           row == [of |-> h, props |-> Doing(y).props]
<1>0. UNCHANGED <<task, synced>> /\ sync[y].step = "write"
    BY DEF Write
<1>1. /\ h \in Cards /\ h \in sync[y].todo /\ Doing(y) = sync[y].plan[h] /\ Doing(y) \in Plan
      /\ Holds(y)
    BY <1>0, HandFacts DEF TodoTyped, CyclesHold
<1>2. /\ sync'[y].step = "record" /\ sync'[y].tasks = NotLoaded
      /\ sync'[y].todo = sync[y].todo /\ sync'[y].touched = sync[y].touched
      /\ c # h => sync'[y].plan[c] = s
      /\ sync'[y].plan[h] = [Doing(y) EXCEPT !.page = p]
    BY <1>0, <1>1, WriteFacts DEF Holds
<1>3. InHand(y)' = h /\ Completed(c)' = Completed(c)
    BY <1>0, <1>2 DEF InHand, Completed
<1> SUFFICES ASSUME c \notin sync[y].touched, c \in sync[y].todo
             PROVE  PlanIsCurrent(y, c)'
    BY <1>2 DEF StaysCurrent, Current, LoadIsCurrent, PlanIsCurrent, Live, NotLoaded
<1>4. PlanIsCurrent(y, c)
    BY DEF CyclesAreCurrent
<1>5. CASE c = h
    <2> DEFINE w == sync'[y].plan[c]
    <2>1. /\ w.write = Doing(y).write /\ w.done = Doing(y).done /\ w.props = Doing(y).props
          /\ w.page = p
        BY <1>1, <1>2, <1>5 DEF Plan
    <2>2. s = Doing(y) /\ Completed(c) = Doing(y).props.done
        BY <1>0, <1>1, <1>4, <1>5 DEF PlanIsCurrent
    <2>3. /\ Doing(y).write # "create" =>
                /\ synced[c] # Nil /\ page[p] # Nil
                /\ Doing(y).done # "agree" => Doing(y).props.done # synced[c].done
                /\ Doing(y).write = "skip" => page[p].props.done = Doing(y).props.done
        BY <1>4, <2>2 DEF PlanIsCurrent, Written
    <2>4. row # Nil /\ row.props.done = Doing(y).props.done
        BY <1>1, SyncAssumption DEF Row, Plan
    <2>5. page'[p] # Nil /\ page'[p].props.done = Doing(y).props.done
        <3>1. CASE Doing(y).write = "create"
            BY <2>4, <3>1, WrittenFacts
        <3>2. CASE Doing(y).write = "update"
            BY <2>3, <2>4, <3>2, WrittenFacts
        <3>3. CASE Doing(y).write = "skip"
            BY <2>3, <3>3, WrittenFacts
        <3> QED BY <1>1, <3>1, <3>2, <3>3 DEF Plan
    <2> HIDE DEF h, p, s, w, row
    <2> QED BY <1>0, <1>2, <1>3, <2>1, <2>2, <2>3, <2>5 DEF PlanIsCurrent, w
<1>6. CASE c # h
    <2>1. s \in Plan /\ s # Nil /\ (s.write # "create" => s.page \in PageIds)
        BY <1>1, SyncType DEF Holds, CycleState, TodoTyped, Plan
    <2>2. ASSUME s.write # "create" PROVE page'[s.page] = page[s.page]
        <3>1. Refers(c, s.page) /\ s.page \in PageIds
            BY <2>1, <2>2 DEF Refers
        <3>2. CASE s.page = p
            BY <1>6, <3>1, <3>2, WrittenFacts
        <3>3. CASE s.page # p
            BY <3>1, <3>3, WrittenFacts
        <3> QED BY <3>2, <3>3
    <2>3. sync'[y].plan[c] = s
        BY <1>2, <1>6
    <2> HIDE DEF h, p, s
    <2> QED BY <1>0, <1>3, <1>4, <1>6, <2>2, <2>3 DEF PlanIsCurrent, s, h
<1> QED BY <1>5, <1>6

\* The record takes it, and the plans of the other cards are what they were.
LEMMA RecordStaysCurrent ==
    ASSUME TodoTyped, CyclesAreCurrent, NEW y \in Syncs, Record(y), NEW c \in Cards
    PROVE  StaysCurrent(y, c)
<1> DEFINE h == InHand(y)
           left == sync[y].todo \ {h}
           s == sync[y].plan[c]
<1>1. UNCHANGED <<task, page>> /\ (c # h => synced'[c] = synced[c])
    BY DEF Record, TodoTyped, TodoTypeOK
<1>2. CASE left = {}
    <2>1. sync'[y] = Idle
        BY <1>2, RecordFacts
    <2> QED BY <2>1 DEF StaysCurrent, Current, LoadIsCurrent, PlanIsCurrent, Live,
                    Idle, NotLoaded
<1>3. CASE left # {}
    <2>1. /\ sync'[y].tasks = NotLoaded /\ sync'[y].todo = left
          /\ sync'[y].touched = sync[y].touched
          /\ c # h => sync'[y].plan[c] = s
          /\ sync'[y].step = IF sync'[y].plan[FirstOf(left)].done = "pull"
                             THEN "pull" ELSE "write"
        BY <1>3, RecordFacts
    <2> SUFFICES ASSUME c \notin sync[y].touched, c \in left
                 PROVE  PlanIsCurrent(y, c)'
        BY <2>1 DEF StaysCurrent, Current, LoadIsCurrent, PlanIsCurrent, Live, NotLoaded
    <2>2. PlanIsCurrent(y, c) /\ c \in sync[y].todo /\ c # h
        BY DEF CyclesAreCurrent
    <2>3. sync'[y].plan[c] = s /\ synced'[c] = synced[c] /\ Completed(c)' = Completed(c)
        BY <1>1, <2>1, <2>2 DEF Completed
    <2>4. s.done = "pull" /\ c = InHand(y)' => sync'[y].step = "pull"
        BY <2>1, <2>3 DEF InHand
    <2>5. sync'[y].step # "record"
        BY <2>1
    <2>6. c # InHand(y)
        BY <2>2
    <2> HIDE DEF s, h, left
    <2> QED BY <1>1, <2>2, <2>3, <2>4, <2>5, <2>6 DEF PlanIsCurrent, s
<1> QED BY <1>2, <1>3

\* Nothing is recorded, loaded or planned at the start.
LEMMA CurrentInit == TodoInit => HashesAgree /\ CyclesAreCurrent
<1> SUFFICES ASSUME TodoInit PROVE HashesAgree /\ CyclesAreCurrent
    OBVIOUS
<1>1. HashesAgree
    BY DEF TodoInit, HashesAgree, Idle, NotLoaded
<1>2. CyclesAreCurrent
    BY IdleIsCurrent DEF TodoInit, CyclesAreCurrent, Current
<1> QED BY <1>1, <1>2

\* Every action keeps what the cycles hold of a card current, unless it touches the card.
LEMMA CurrentStep ==
    ASSUME TodoTyped, AssignmentInHand, PagesAreOwn, HashesAgree, CyclesAreCurrent,
           [TodoNext]_todoVars
    PROVE  CyclesAreCurrent'
<1> SUFFICES ASSUME NEW x \in Syncs, NEW c \in Cards PROVE StaysCurrent(x, c)
    BY DEF CyclesAreCurrent, StaysCurrent, Current
<1>1. ASSUME NEW y \in Syncs, run_once(y) \/ SyncFails(y) PROVE StaysCurrent(x, c)
    <2>1. CASE x # y
        BY <1>1, <2>1, OthersStayCurrent
    <2>2. CASE x = y
        <3>1. CASE LoadTasks(y) \/ LoadPages(y)
            BY <2>2, <3>1, LoadStaysCurrent
        <3>2. CASE Pull(y)
            BY <2>2, <3>2, PullStaysCurrent
        <3>3. CASE Write(y)
            BY <2>2, <3>3, WriteStaysCurrent
        <3>4. CASE Record(y)
            BY <2>2, <3>4, RecordStaysCurrent
        <3>5. CASE Refused(y) \/ SyncFails(y)
            <4>1. sync'[y] = Idle
                BY <3>5, SyncType DEF TodoTyped, Refused, SyncFails
            <4> QED BY <2>2, <4>1 DEF StaysCurrent, Current, LoadIsCurrent, PlanIsCurrent,
                                      Live, Idle, NotLoaded
        <3> QED BY <1>1, <3>1, <3>2, <3>3, <3>4, <3>5 DEF run_once
    <2> QED BY <2>1, <2>2
<1> QED BY <1>1, ActsStayCurrent DEF TodoNext

\* The step of TheChangeWins.
ChangeWins(y) ==
    LET c == InHand(y)
        done == Doing(y).props.done
    IN  sync[y].step = "record" /\ sync'[y].step # "record"
          /\ events' = events /\ c \notin sync[y].touched =>
            /\ Completed(c) = done
            /\ page[Doing(y).page].props.done = done
            /\ synced'[c].done = done
            /\ Doing(y).done # "agree" /\ synced[c] # Nil
                 /\ Doing(y).write # "create" => done # synced[c].done

\* Only the upsert takes a cycle out of "record" without an event.
LEMMA ChangeWinsStep ==
    ASSUME TodoTyped, CyclesAreCurrent, TodoNext, NEW y \in Syncs
    PROVE  ChangeWins(y)
<1> SUFFICES ASSUME sync[y].step = "record", sync'[y].step # "record", events' = events,
                    InHand(y) \notin sync[y].touched
             PROVE  ChangeWins(y)
    BY DEF ChangeWins
<1>1. ~SameWork(y)
    BY DEF SameWork
<1>2. Record(y)
    <2>1. PICK x \in Syncs : run_once(x) \/ SyncFails(x)
        BY <1>1, ActsAreQuiet DEF TodoNext, Quiet
    <2>2. ~SyncFails(x)
        BY DEF SyncFails, Event, TodoTyped, TodoTypeOK
    <2>3. x = y
        <3>1. LoadTasks(x) \/ LoadPages(x) => \A z \in Syncs \ {x} : SameWork(z)
            BY LoadTasksFacts, LoadPagesFacts DEF SameWork
        <3>2. Pull(x) \/ Write(x) \/ Record(x) => \A z \in Syncs \ {x} : SameWork(z)
            BY PullFacts, WriteFacts, RecordFacts DEF OthersTouched
        <3>3. Refused(x) => \A z \in Syncs \ {x} : SameWork(z)
            BY SyncType DEF TodoTyped, Refused, SameWork
        <3> QED BY <1>1, <2>1, <2>2, <3>1, <3>2, <3>3 DEF run_once
    <2> QED BY <2>1, <2>2, <2>3 DEF run_once, LoadTasks, LoadPages, Pull, Write, Refused
<1>3. InHand(y) \in Cards /\ InHand(y) \in sync[y].todo /\ Doing(y) = sync[y].plan[InHand(y)]
    BY HandFacts
<1>4. PlanIsCurrent(y, InHand(y))
    BY <1>3 DEF CyclesAreCurrent
<1>5. synced'[InHand(y)].done = Doing(y).props.done
    BY <1>2, <1>3 DEF Record, TodoTyped, TodoTypeOK
<1> QED BY <1>3, <1>4, <1>5 DEF PlanIsCurrent, ChangeWins

\* A cycle that finishes a card which nobody else touched leaves the task, the row
\* and the record with one Done, that of the side that changed.
THEOREM TheSideThatChangedWins == TodoSpec => TheChangeWins
<1> DEFINE Inv == /\ TodoTyped /\ AssignmentInHand /\ AssignmentIsKept
                  /\ PagesAreOwn /\ HashesAgree /\ CyclesAreCurrent
<1>1. TodoInit => Inv
    BY TodoTypedInit, AssignmentInit, PagesOwnInit, CurrentInit
<1>2. Inv /\ [TodoNext]_todoVars => Inv'
    BY TodoTypedStep, AssignmentStep, PagesOwnStep, HashesStep, CurrentStep
<1>3. Inv /\ [TodoNext]_todoVars => [\A y \in Syncs : ChangeWins(y)]_todoVars
    BY ChangeWinsStep
<1> QED BY <1>1, <1>2, <1>3, PTL DEF TodoSpec, TheChangeWins, ChangeWins
=============================================================================

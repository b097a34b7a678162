----------------------------- MODULE ContentPoll -----------------------------
(***************************************************************************)
(* Tartt, the content poller, and the operator's control of its feeds and  *)
(* interests from #briefing.                                               *)
(*                                                                         *)
(* A cycle is a process of its own that the scheduler launches and does    *)
(* not wait for, and its connection is in autocommit mode: every statement *)
(* of an item's pipeline is a transaction by itself, and the process may   *)
(* stop between any two.  Items are numbered in the order they are         *)
(* published; a feed lists the newest first.  Whether a source is due is   *)
(* kept in place of the time of its last poll.                             *)
(***************************************************************************)
EXTENDS Naturals, FiniteSets

CONSTANTS
    Sources,        \* feeds
    N,              \* bound: items that are ever published
    Home,           \* item -> the source that lists it
    Topics,         \* what the operator may be interested in
    Relevance,      \* item -> topic -> 0 (low), 1 (worth a deep pass), 2 (a task)
    Hostile,        \* items whose text trips the screen
    Unreadable,     \* items whose page has no text that can be extracted
    Cycles,         \* cycles of the poller that may run at once
    MAX_ITEMS_PER_POLL,
    MaxTrust,       \* trust_score, in steps of TRUST_DECAY_STEP
    MaxFaults,      \* bound: failed calls and crashes
    None            \* nothing in hand, or not tracked

Items == 1..N

ASSUME PollAssumption ==
    /\ N \in Nat /\ MaxTrust \in Nat /\ MaxFaults \in Nat
    /\ MAX_ITEMS_PER_POLL \in Nat \ {0}
    /\ Home \in [Items -> Sources]
    /\ Relevance \in [Items -> [Topics -> 0..2]]
    /\ Hostile \cup Unreadable \subseteq Items
    /\ IsFiniteSet(Cycles)
    /\ None \notin Sources \cup Items \cup 0..2

VARIABLES
    status,         \* source -> "absent", "active", "paused"
    due,            \* sources whose poll_interval_hours have elapsed
    trust,          \* source -> trust_score
    listed,         \* items in the feeds now
    published,      \* items 1..published have appeared
    interests,      \* InterestSignal nodes
    nodes,          \* ContentItem nodes
    interest_score, \* content_items: item -> score, None if its URL is not tracked
    deep,           \* items cognified in mode 1
    candidates,     \* task_candidates: item -> how often it was proposed
    cycle,          \* cycle -> what it is doing
    cut,            \* history: tracked items whose pass was cut short
    faults

pollVars == <<status, due, trust, listed, published, interests, nodes,
              interest_score, deep, candidates, cycle, cut, faults>>

feeds == <<status, due, trust>>
world == <<listed, published>>
stores == <<nodes, interest_score, deep, candidates>>

Steps == {"idle", "source", "items", "summarize", "record", "deep", "propose"}

NotPolling == [step |-> "idle", todo |-> {}, batch |-> {}, src |-> None,
               item |-> None, score |-> 0]

PollTypeOK ==
    /\ status \in [Sources -> {"absent", "active", "paused"}]
    /\ due \subseteq Sources
    /\ trust \in [Sources -> 0..MaxTrust]
    /\ published \in 0..N /\ listed \subseteq 1..published
    /\ interests \subseteq Topics
    /\ nodes \subseteq Items /\ deep \subseteq nodes
    /\ interest_score \in [Items -> 0..2 \cup {None}]
    /\ candidates \in [Items -> Nat]
    /\ cycle \in [Cycles -> [step : Steps, todo : SUBSET Sources,
                             batch : SUBSET Items, src : Sources \cup {None},
                             item : Items \cup {None}, score : 0..2]]
    /\ cut \subseteq Items
    /\ faults \in 0..MaxFaults

PollInit ==
    /\ status = [s \in Sources |-> "absent"]
    /\ due = Sources
    /\ trust = [s \in Sources |-> MaxTrust]
    /\ published = 0 /\ listed = {}
    /\ interests = {}
    /\ nodes = {} /\ deep = {}
    /\ interest_score = [i \in Items |-> None]
    /\ candidates = [i \in Items |-> 0]
    /\ cycle = [c \in Cycles |-> NotPolling]
    /\ cut = {}
    /\ faults = 0

-----------------------------------------------------------------------------
(* The feeds and the clock.                                                *)

Publish ==
    /\ published < N
    /\ published' = published + 1
    /\ listed' = listed \cup {published + 1}
    /\ UNCHANGED <<feeds, interests, stores, cycle, cut, faults>>

\* A feed keeps its latest entries: the oldest of a source drops out.
Age(i) ==
    /\ i \in listed
    /\ \A j \in listed : Home[j] = Home[i] => i <= j
    /\ listed' = listed \ {i}
    /\ UNCHANGED <<feeds, published, interests, stores, cycle, cut,
                   faults>>

Elapse(s) ==
    /\ s \notin due
    /\ due' = due \cup {s}
    /\ UNCHANGED <<status, trust, world, interests, stores, cycle, cut, faults>>

-----------------------------------------------------------------------------
(* The operator, through tartt_control.                                    *)

\* A new feed has never been polled, so it is due; a paused one resumes.
add_feed(s) ==
    /\ status[s] # "active"
    /\ status' = [status EXCEPT ![s] = "active"]
    /\ UNCHANGED <<due, trust, world, interests, stores, cycle, cut, faults>>

\* What the operator typed must match one active feed and no other.
remove_feed(matches) ==
    \E s \in Sources :
        /\ {m \in matches : status[m] = "active"} = {s}
        /\ status' = [status EXCEPT ![s] = "paused"]
        /\ UNCHANGED <<due, trust, world, interests, stores, cycle, cut, faults>>

add_interest(t) ==
    /\ t \notin interests
    /\ interests' = interests \cup {t}
    /\ UNCHANGED <<feeds, world, stores, cycle, cut, faults>>

remove_interest(t) ==
    /\ t \in interests
    /\ interests' = interests \ {t}
    /\ UNCHANGED <<feeds, world, stores, cycle, cut, faults>>

Operator ==
    \/ \E s \in Sources : add_feed(s)
    \/ \E matches \in SUBSET Sources : remove_feed(matches)
    \/ \E t \in Topics : add_interest(t) \/ remove_interest(t)

-----------------------------------------------------------------------------
(* A cycle.                                                                *)

\* The best cosine against the interests of the moment; 0 without any.
score_content_item(i) ==
    CHOOSE v \in 0..2 :
        /\ v = 0 \/ \E t \in interests : Relevance[i][t] = v
        /\ \A t \in interests : Relevance[i][t] <= v

should_cognify(v) == v >= 1
is_task_worthy(v) == v >= 2

Newest(S) == CHOOSE i \in S : \A j \in S : j <= i

\* The cap is taken before the tracked items are dropped.
MutantCapFirst(feed) ==
    {i \in feed : /\ interest_score[i] = None
                  /\ Cardinality({j \in feed : j > i}) < MAX_ITEMS_PER_POLL}

\* Tracked items are taken again.
MutantSeenAgain(feed) ==
    {i \in feed : Cardinality({j \in feed : j > i}) < MAX_ITEMS_PER_POLL}

\* The newest MAX_ITEMS_PER_POLL of the items that are not tracked.  A feed is
\* assumed to list each URL once: the filter looks at what is tracked, not at the
\* feed itself, so that a URL listed twice would go through the pipeline twice.
unseen_items(feed) ==
    LET fresh == {i \in feed : interest_score[i] = None}
    IN  {i \in fresh : Cardinality({j \in fresh : j > i}) < MAX_ITEMS_PER_POLL}

\* The cycle turns to the next of its sources, or ends.
TurnTo(c, todo) ==
    cycle' = [cycle EXCEPT ![c] =
                IF todo = {} THEN NotPolling
                ELSE [NotPolling EXCEPT !.step = "source", !.todo = todo]]

\* The source a cycle turns to next.
NextSource(todo) == CHOOSE s \in todo : TRUE

\* The item in hand is finished with, well or not.
NextItem(c) ==
    cycle' = [cycle EXCEPT ![c].step = "items", ![c].item = None,
                           ![c].score = 0, ![c].batch = @ \ {cycle[c].item}]

StartPoll(c) ==
    LET todo == {s \in due : status[s] = "active"}
    IN  /\ cycle[c].step = "idle"
        /\ todo # {}
        /\ TurnTo(c, todo)
        /\ UNCHANGED <<feeds, world, interests, stores, cut, faults>>

\* The feed, then the URLs tracked so far: what is tracked later by another
\* cycle is not noticed.
StartSource(c) ==
    LET s == NextSource(cycle[c].todo)
    IN  /\ cycle[c].step = "source"
        /\ cycle' = [cycle EXCEPT
              ![c].step = "items", ![c].src = s,
              ![c].batch = unseen_items({i \in listed : Home[i] = s})]
        /\ UNCHANGED <<feeds, world, interests, stores, cut, faults>>

\* A page without text is skipped untracked; flagged text costs the source
\* some trust.
TakeItem(c) ==
    /\ cycle[c].step = "items"
    /\ cycle[c].batch # {}
    /\ LET i == Newest(cycle[c].batch)
           s == cycle[c].src
       IN  IF i \notin Unreadable
           THEN /\ cycle' = [cycle EXCEPT ![c].step = "summarize", ![c].item = i]
                /\ trust' = IF i \in Hostile /\ trust[s] > 0
                            THEN [trust EXCEPT ![s] = @ - 1] ELSE trust
           ELSE /\ cycle' = [cycle EXCEPT ![c].batch = @ \ {i}]
                /\ UNCHANGED trust
    /\ UNCHANGED <<status, due, world, interests, stores, cut, faults>>

\* Summary, typed node (its id is a function of the URL) and score.
Summarize(c) ==
    LET i == cycle[c].item
    IN  /\ cycle[c].step = "summarize"
        /\ nodes' = nodes \cup {i}
        /\ cycle' = [cycle EXCEPT ![c].step = "record",
                                  ![c].score = score_content_item(i)]
        /\ UNCHANGED <<feeds, world, interests, interest_score, deep, candidates,
                       cut, faults>>

\* The tracker row, ON CONFLICT (url) DO NOTHING.
record_content(c) ==
    LET i == cycle[c].item
        v == cycle[c].score
    IN  /\ cycle[c].step = "record"
        /\ interest_score' = IF interest_score[i] = None
                             THEN [interest_score EXCEPT ![i] = v]
                             ELSE interest_score
        /\ IF should_cognify(v)
           THEN cycle' = [cycle EXCEPT ![c].step = "deep"]
           ELSE NextItem(c)
        /\ UNCHANGED <<feeds, world, interests, nodes, deep, candidates, cut,
                       faults>>

\* A deep item is never a task.
MutantDeepOnly(c) ==
    /\ cycle[c].step = "deep"
    /\ deep' = deep \cup {cycle[c].item}
    /\ NextItem(c)
    /\ UNCHANGED <<feeds, world, interests, nodes, interest_score, candidates,
                   cut, faults>>

\* ingest_note (module KnowledgeIngest).
DeepPass(c) ==
    /\ cycle[c].step = "deep"
    /\ deep' = deep \cup {cycle[c].item}
    /\ IF is_task_worthy(cycle[c].score)
       THEN cycle' = [cycle EXCEPT ![c].step = "propose"]
       ELSE NextItem(c)
    /\ UNCHANGED <<feeds, world, interests, nodes, interest_score, candidates,
                   cut, faults>>

\* An insert that nothing deduplicates.
propose_task_candidate(c) ==
    /\ cycle[c].step = "propose"
    /\ candidates' = [candidates EXCEPT ![cycle[c].item] = @ + 1]
    /\ NextItem(c)
    /\ UNCHANGED <<feeds, world, interests, nodes, interest_score, deep, cut,
                   faults>>

\* The source waits for its interval again, counted from the cycle's start.
mark_polled(c) ==
    /\ cycle[c].step = "items"
    /\ cycle[c].batch = {}
    /\ due' = due \ {cycle[c].src}
    /\ TurnTo(c, cycle[c].todo \ {cycle[c].src})
    /\ UNCHANGED <<status, trust, world, interests, stores, cut, faults>>

Work(c) ==
    \/ StartPoll(c) \/ StartSource(c) \/ TakeItem(c) \/ Summarize(c)
    \/ record_content(c) \/ DeepPass(c) \/ propose_task_candidate(c)
    \/ mark_polled(c)

-----------------------------------------------------------------------------
(* Failures.                                                               *)

\* The item in hand, if it is tracked, loses what its pass still had to do.
CutShort(c) ==
    cut' = IF cycle[c].step \in {"deep", "propose"}
           THEN cut \cup {cycle[c].item} ELSE cut

\* feedparser returns an empty feed when the download fails.
FeedFails(c) ==
    /\ cycle[c].step = "source"
    /\ faults < MaxFaults
    /\ faults' = faults + 1
    /\ cycle' = [cycle EXCEPT ![c].step = "items",
                              ![c].src = NextSource(cycle[c].todo)]
    /\ UNCHANGED <<feeds, world, interests, stores, cut>>

\* The source raises: it keeps its watermark and the next one is polled.
SourceFails(c) ==
    /\ cycle[c].step = "source" \/ (cycle[c].step = "items" /\ cycle[c].batch = {})
    /\ faults < MaxFaults
    /\ faults' = faults + 1
    /\ TurnTo(c, cycle[c].todo \ {NextSource(cycle[c].todo)})
    /\ UNCHANGED <<feeds, world, interests, stores, cut>>

\* The item raises: it is skipped.
ItemFails(c) ==
    /\ cycle[c].item # None
    /\ faults < MaxFaults
    /\ faults' = faults + 1
    /\ CutShort(c)
    /\ NextItem(c)
    /\ UNCHANGED <<feeds, world, interests, stores>>

Crash(c) ==
    /\ cycle[c].step # "idle"
    /\ faults < MaxFaults
    /\ faults' = faults + 1
    /\ CutShort(c)
    /\ cycle' = [cycle EXCEPT ![c] = NotPolling]
    /\ UNCHANGED <<feeds, world, interests, stores>>

-----------------------------------------------------------------------------

PollNext ==
    \/ Publish \/ (\E i \in Items : Age(i)) \/ (\E s \in Sources : Elapse(s))
    \/ Operator
    \/ \E c \in Cycles :
          Work(c) \/ FeedFails(c) \/ SourceFails(c) \/ ItemFails(c) \/ Crash(c)

PollSpec == PollInit /\ [][PollNext]_pollVars

\* Intervals elapse, the scheduler launches cycles, and a cycle goes on.
PollFairSpec ==
    /\ PollSpec
    /\ \A s \in Sources : WF_pollVars(Elapse(s))
    /\ \A c \in Cycles : WF_pollVars(Work(c))

-----------------------------------------------------------------------------
(* Properties.                                                             *)

InHand(i) == \E c \in Cycles : cycle[c].item = i

\* What the score recorded for an item calls for has been done once no cycle
\* has it in hand, unless a failure cut the pass short after the record:
\* whichever of two overlapping cycles records first sees its own pass through.
RecordedItemsAreFollowedUp ==
    \A i \in Items :
        interest_score[i] \in 1..2 /\ ~InHand(i) /\ i \notin cut =>
            /\ i \in deep
            /\ interest_score[i] = 2 => candidates[i] > 0

\* The operator is asked about an item at most once per cycle that may run at
\* once, however many cycles fail and start over.
ProposalsBounded ==
    \A i \in Items : candidates[i] <= Cardinality(Cycles)

\* No item starves while fewer pages than the cap are without text: an item
\* that stays listed by a feed that stays active gets tracked, whatever newer
\* items, failures and pauses come in between.
ReadableItemsAreTracked ==
    Cardinality(Unreadable) < MAX_ITEMS_PER_POLL =>
        \A i \in Items \ Unreadable :
            []<>(\/ interest_score[i] # None
                 \/ i \notin listed \/ status[Home[i]] # "active")
=============================================================================

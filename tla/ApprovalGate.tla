---------------------------- MODULE ApprovalGate ----------------------------
(***************************************************************************)
(* What the approval gate promises, with no Discord, no database and no    *)
(* process in sight: a request waits until it is refused or authorised,    *)
(* what is authorised is fixed at that moment, and an authorised request   *)
(* is carried out at most once, with exactly the text that was authorised. *)
(*                                                                         *)
(* agents/_lib/approvals.py and the approvals cog implement it             *)
(* (Approvals.tla); the promise is the one their docstrings make.          *)
(***************************************************************************)
CONSTANTS
    Rows,     \* the requests
    Payloads, \* what a request may say
    Nothing   \* "nothing has left the box"

VARIABLES
    ticket,   \* [Rows -> none | waiting | refused | authorised]
    draft,    \* [Rows -> Payloads]: what the request says
    sent      \* [Rows -> Payloads \cup {Nothing}]: what left the box for it

gateVars == <<ticket, draft, sent>>

Init ==
    /\ ticket = [r \in Rows |-> "none"]
    /\ draft \in [Rows -> Payloads]
    /\ sent = [r \in Rows |-> Nothing]

\* An agent asks; nothing happens yet.
Ask(r) ==
    /\ ticket[r] = "none"
    /\ ticket' = [ticket EXCEPT ![r] = "waiting"]
    /\ UNCHANGED <<draft, sent>>

Refuse(r) ==
    /\ ticket[r] = "waiting"
    /\ ticket' = [ticket EXCEPT ![r] = "refused"]
    /\ UNCHANGED <<draft, sent>>

\* The human says yes, possibly to an amended text.
Authorise(r) ==
    /\ ticket[r] = "waiting"
    /\ ticket' = [ticket EXCEPT ![r] = "authorised"]
    /\ \E p \in Payloads : draft' = [draft EXCEPT ![r] = p]
    /\ UNCHANGED sent

CarryOut(r) ==
    /\ ticket[r] = "authorised"
    /\ sent[r] = Nothing
    /\ sent' = [sent EXCEPT ![r] = draft[r]]
    /\ UNCHANGED <<ticket, draft>>

Next == \E r \in Rows : Ask(r) \/ Refuse(r) \/ Authorise(r) \/ CarryOut(r)

Spec == Init /\ [][Next]_gateVars
=============================================================================

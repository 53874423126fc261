------------------------------ MODULE Escalation ------------------------------
(***************************************************************************)
(* cua.escalation: a run that needs a human leaves a ticket on the queue   *)
(* and a marker on the live page; operators work the ticket and look for   *)
(* the page over a connection of their own, while it goes on changing.     *)
(*                                                                         *)
(* Tickets and markers are numbered in the order they are made (the code   *)
(* draws random ids; two never coincide).                                  *)
(***************************************************************************)
EXTENDS Integers, Sequences, FiniteSets, SequencesExt

CONSTANTS Tabs,          \* the pages of the browser
          Operators,     \* the humans' processes, each with its own connection
          MaxTickets     \* bound: escalations in all

ASSUME EscalationAssumption == MaxTickets \in Nat /\ IsFiniteSet(Tabs)

\* ReplayStatus and DiscoveryStatus, and which of them escalate.
ReplayStatuses    == {"success", "business_outcome", "recoverable", "hard_failure",
                      "unrecognized", "policy_blocked"}
DiscoveryStatuses == {"goal_reached", "stuck", "max_steps_exceeded"}
NeedsEscalation(status) ==
  status \in {"recoverable", "hard_failure", "unrecognized", "policy_blocked"}
             \cup {"stuck", "max_steps_exceeded"}

Terminal == {"resolved", "abandoned"}

VARIABLES tickets,    \* the queue, by ticket id: [tab, status, claimedBy]
          windows,    \* the marker on each tab's window: 0 none, -1 when the tab is
                      \* closed or between documents and evaluate() raises
          search,     \* an operator's reconnect: [state, ticket, left]
          absent      \* history: was the marker missing at any time of that search?

vars == <<tickets, windows, search, absent>>

NoSearch == [state |-> "none", ticket |-> 0, left |-> <<>>, joined |-> {}]

Init == /\ tickets = <<>>
        /\ windows = [tab \in Tabs |-> 0]
        /\ search = [op \in Operators |-> NoSearch]
        /\ absent = [op \in Operators |-> FALSE]

\* Whether each search has yet seen the marker it looks for go missing.
NoteAbsence ==
  absent' = [op \in Operators |->
               \/ absent[op]
               \/ /\ search[op].state = "looking"
                  /\ \A tab \in Tabs : windows'[tab] # search[op].ticket]

-----------------------------------------------------------------------------
\* A run on a tab ends: the page is marked, ticket_from_replay or
\* ticket_from_discovery makes a ticket of it, and open() queues it.
Escalate(tab, code) ==
  /\ NeedsEscalation(code)
  /\ Len(tickets) < MaxTickets
  /\ windows[tab] # -1
  /\ windows' = [windows EXCEPT ![tab] = Len(tickets) + 1]
  /\ tickets' = Append(tickets, [tab |-> tab, status |-> "open", claimedBy |-> {}])
  /\ NoteAbsence
  /\ UNCHANGED search

\* claim: any status but OPEN raises.
Claim(op, id) ==
  /\ tickets[id].status = "open"
  /\ tickets' = [tickets EXCEPT ![id].status = "claimed", ![id].claimedBy = {op}]
  /\ UNCHANGED <<windows, search, absent>>

\* Mutant: a closed ticket can be closed again, the other way.
CloseAgain(id, status) ==
  /\ tickets' = [tickets EXCEPT ![id].status = status]
  /\ UNCHANGED <<windows, search, absent>>

\* _close, for resolve and abandon: from OPEN or CLAIMED, by anyone.
Close(id, status) ==
  /\ tickets[id].status \in {"open", "claimed"}
  /\ tickets' = [tickets EXCEPT ![id].status = status]
  /\ UNCHANGED <<windows, search, absent>>

-----------------------------------------------------------------------------
(***************************************************************************)
(* reconnect_to_marked_page, one evaluate() a step.                        *)
(***************************************************************************)

\* Mutant: some of the pages are left out.
OnePage == SubSeq(SetToSeq(Tabs), 1, 1)

\* context.pages of every context, listed anew for each sweep.
Pages == SetToSeq(Tabs)

Reconnect(op, id) ==
  /\ search[op].state # "looking"
  /\ search' = [search EXCEPT ![op] = [state |-> "looking", ticket |-> id, left |-> Pages,
                                       joined |-> {}]]
  /\ absent' = [absent EXCEPT ![op] = \A tab \in Tabs : windows[tab] # id]
  /\ UNCHANGED <<tickets, windows>>

Looking(op) == search[op].state = "looking" /\ search[op].left # <<>>

\* Mutant: any marked page will do.
LookAndJoinAny(op) ==
  LET tab == Head(search[op].left)
  IN  /\ Looking(op)
      /\ windows[tab] > 0
      /\ search' = [search EXCEPT ![op].state = "joined", ![op].joined = {tab}]
      /\ UNCHANGED <<tickets, windows, absent>>

\* The page looked at carries the marker.
LookAndJoin(op) ==
  LET tab == Head(search[op].left)
  IN  /\ Looking(op)
      /\ windows[tab] = search[op].ticket
      /\ search' = [search EXCEPT ![op].state = "joined", ![op].joined = {tab}]
      /\ UNCHANGED <<tickets, windows, absent>>

\* It does not, or evaluate() raised: "keep looking, don't fail the search".
LookOn(op) ==
  /\ Looking(op)
  /\ windows[Head(search[op].left)] # search[op].ticket
  /\ search' = [search EXCEPT ![op].left = Tail(@)]
  /\ UNCHANGED <<tickets, windows, absent>>

\* After a sweep the deadline may have passed (PageNotFoundError), or not.
SweepEnds(op) ==
  /\ search[op].state = "looking"
  /\ search[op].left = <<>>
  /\ \/ search' = [search EXCEPT ![op].state = "not found"]
     \/ search' = [search EXCEPT ![op].left = Pages]
  /\ UNCHANGED <<tickets, windows, absent>>

-----------------------------------------------------------------------------
\* The browser: a tab starts loading another document or closes, and a new
\* document has no marker.
LeavePage(tab) ==
  /\ windows[tab] # -1
  /\ windows' = [windows EXCEPT ![tab] = -1]
  /\ NoteAbsence
  /\ UNCHANGED <<tickets, search>>

NewPage(tab) ==
  /\ windows[tab] = -1
  /\ windows' = [windows EXCEPT ![tab] = 0]
  /\ NoteAbsence
  /\ UNCHANGED <<tickets, search>>

Human(op) == \/ \E id \in DOMAIN tickets : Claim(op, id) \/ Reconnect(op, id)
             \/ LookAndJoin(op) \/ LookOn(op) \/ SweepEnds(op)

Next == \/ \E tab \in Tabs, code \in ReplayStatuses \cup DiscoveryStatuses : Escalate(tab, code)
        \/ \E id \in DOMAIN tickets, status \in Terminal : Close(id, status)
        \/ \E op \in Operators : Human(op)
        \/ \E tab \in Tabs : LeavePage(tab) \/ NewPage(tab)

Spec == Init /\ [][Next]_vars

-----------------------------------------------------------------------------
\* "Every other transition raises rather than silently coercing": a ticket
\* moves OPEN, CLAIMED, closed, skipping CLAIMED at most; whoever claimed it
\* first stays its claimant, and how it was closed stays how it was closed.
TicketsMoveForward ==
  [][\A id \in DOMAIN tickets :
       /\ tickets'[id].status # tickets[id].status =>
            \/ tickets[id].status = "open"
            \/ tickets[id].status = "claimed" /\ tickets'[id].status \in Terminal
       /\ tickets'[id].claimedBy # tickets[id].claimedBy => tickets[id].claimedBy = {}]_vars

\* "The exact tab discovery or replay was just driving": an operator who joins
\* a page is on the one the ticket's run left behind, not on one marked for
\* another ticket, whatever else was escalated, navigated or closed meanwhile.
JoinsTheTabOfTheTicket ==
  \A op \in Operators :
    search[op].state = "joined" => search[op].joined = {tickets[search[op].ticket].tab}

\* PageNotFoundError is never a race: a search that fails did so because its
\* marker was gone (closed, replaced or marked over) at some time it was on.
NotFoundMeansGone ==
  \A op \in Operators : search[op].state = "not found" => absent[op]
=============================================================================

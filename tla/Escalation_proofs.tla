--------------------------- MODULE Escalation_proofs ---------------------------
(***************************************************************************)
(* Theorems about Escalation, for every finite set of pages, every set of  *)
(* operators and every number of tickets.                                  *)
(***************************************************************************)
EXTENDS Escalation, FiniteSetTheorems, TLAPS

\* A sweep looks at every page.
LEMMA PagesAreTheTabs ==
  /\ Pages \in Seq(Tabs)
  /\ \A tab \in Tabs : \E k \in DOMAIN Pages : Pages[k] = tab
<1> DEFINE n == Cardinality(Tabs)
<1>1. n \in Nat /\ ExistsBijection(1..n, Tabs) /\ IsFiniteSet(Tabs)
  BY FS_CardinalityType, EscalationAssumption
<1>2. PICK f \in Bijection(1..n, Tabs) : TRUE
  BY <1>1 DEF ExistsBijection
<1>3. f \in [1..n -> Tabs] /\ IsInjective(f)
  BY <1>2 DEF Bijection, Injection, IsInjective
<1>4. Pages \in [1..n -> Tabs] /\ IsInjective(Pages)
  BY <1>3 DEF Pages, SetToSeq
<1> DEFINE seen == {Pages[k] : k \in 1..n}
<1>5. Pages \in Bijection(1..n, seen)
  BY <1>4 DEF Bijection, Injection, Surjection, IsInjective
<1>6. Cardinality(seen) = n
  BY <1>1, <1>5, FS_CountingElements DEF ExistsBijection
<1>7. seen \in SUBSET Tabs
  BY <1>4
<1> HIDE DEF seen
<1>8. seen = Tabs
  BY <1>1, <1>6, <1>7, FS_Subset
<1> QED
  BY <1>1, <1>4, <1>8 DEF seen

-----------------------------------------------------------------------------
(***************************************************************************)
(* The inductive invariant.                                                *)
(***************************************************************************)

TicketType == [tab : Tabs, status : {"open", "claimed"} \cup Terminal,
               claimedBy : SUBSET Operators]
SearchType == [state : {"none", "looking", "joined", "not found"}, ticket : Nat,
               left : Seq(Tabs), joined : SUBSET Tabs]

\* The queue, the markers and the searches are what they are declared to be.
TypeOK ==
  /\ tickets \in Seq(TicketType)
  /\ windows \in [Tabs -> -1..Len(tickets)]
  /\ search \in [Operators -> SearchType]
  /\ absent \in [Operators -> BOOLEAN]
  /\ \A op \in Operators : search[op].state # "none" => search[op].ticket \in DOMAIN tickets

\* A ticket nobody has claimed has no claimant.
OpenIsUnclaimed ==
  \A id \in DOMAIN tickets : tickets[id].status = "open" => tickets[id].claimedBy = {}

\* A marker is on the tab its ticket was made of.
MarkedByItsTicket ==
  \A tab \in Tabs : windows[tab] > 0 => tickets[windows[tab]].tab = tab

\* While the marker stays, it is on the ticket's tab, and the sweep has yet to
\* look there.
StillToBeFound ==
  \A op \in Operators :
    (search[op].state = "looking" /\ ~absent[op]) =>
      LET tab == tickets[search[op].ticket].tab
      IN  /\ windows[tab] = search[op].ticket
          /\ \E k \in DOMAIN search[op].left : search[op].left[k] = tab

EscalationInv == /\ TypeOK
                 /\ OpenIsUnclaimed
                 /\ MarkedByItsTicket
                 /\ StillToBeFound
                 /\ JoinsTheTabOfTheTicket
                 /\ NotFoundMeansGone

-----------------------------------------------------------------------------
\* While the browser changes under a search, the marker is missing, or it is
\* where its ticket says.
LEMMA AbsenceIsNoted ==
  ASSUME TypeOK, StillToBeFound, NoteAbsence, search' = search, TypeOK', MarkedByItsTicket',
         \A id \in DOMAIN tickets : id \in DOMAIN tickets' /\ tickets'[id] = tickets[id]
  PROVE  StillToBeFound'
<1> SUFFICES ASSUME NEW op \in Operators, search[op].state = "looking", ~absent'[op]
             PROVE  LET tab == tickets'[search[op].ticket].tab
                    IN  /\ windows'[tab] = search[op].ticket
                        /\ \E k \in DOMAIN search[op].left : search[op].left[k] = tab
  BY DEF StillToBeFound
<1> DEFINE id == search[op].ticket
<1>1. ~absent[op] /\ \E tab \in Tabs : windows'[tab] = id
  BY DEF NoteAbsence
<1>2. id \in DOMAIN tickets /\ id > 0 /\ tickets'[id] = tickets[id]
  <2>1. id \in DOMAIN tickets
    BY DEF TypeOK
  <2>2. DOMAIN tickets \subseteq Nat \ {0}
    BY DEF TypeOK
  <2> QED
    BY <2>1, <2>2
<1>3. PICK tab \in Tabs : windows'[tab] = id
  BY <1>1
<1>4. tickets'[id].tab = tab
  BY <1>2, <1>3 DEF MarkedByItsTicket
<1>5. \E k \in DOMAIN search[op].left : search[op].left[k] = tickets[id].tab
  BY <1>1 DEF StillToBeFound
<1> QED
  BY <1>2, <1>3, <1>4, <1>5

\* A run ends: a ticket joins the queue, and its number marks the page.
LEMMA EscalateStep ==
  ASSUME EscalationInv, NEW tab \in Tabs, NEW code, Escalate(tab, code)
  PROVE  EscalationInv'
<1> DEFINE ticket == [tab |-> tab, status |-> "open", claimedBy |-> {}]
<1> USE DEF EscalationInv
<1>1. /\ tickets' = Append(tickets, ticket)
      /\ windows' = [windows EXCEPT ![tab] = Len(tickets) + 1]
      /\ search' = search
      /\ NoteAbsence
  BY DEF Escalate
<1>2. ticket \in TicketType
  BY DEF TicketType
<1> HIDE DEF ticket
<1>3. /\ tickets' \in Seq(TicketType) /\ Len(tickets') = Len(tickets) + 1 /\ Len(tickets) \in Nat
      /\ DOMAIN tickets = 1..Len(tickets) /\ DOMAIN tickets' = 1..Len(tickets')
      /\ \A id \in DOMAIN tickets : id \in DOMAIN tickets' /\ tickets'[id] = tickets[id]
      /\ tickets'[Len(tickets')] = ticket
  BY <1>1, <1>2 DEF TypeOK
<1>4. ticket.tab = tab /\ ticket.claimedBy = {}
  BY DEF ticket
<1>5. TypeOK'
  <2>1. windows' \in [Tabs -> -1..Len(tickets')]
    BY <1>1, <1>3 DEF TypeOK
  <2>2. absent' \in [Operators -> BOOLEAN]
    BY <1>1 DEF NoteAbsence
  <2> QED
    BY <1>1, <1>3, <2>1, <2>2 DEF TypeOK
<1>6. OpenIsUnclaimed'
  BY <1>3, <1>4 DEF OpenIsUnclaimed
<1>7. MarkedByItsTicket'
  <2> SUFFICES ASSUME NEW other \in Tabs, windows'[other] > 0
               PROVE  tickets'[windows'[other]].tab = other
    BY DEF MarkedByItsTicket
  <2>1. CASE other = tab
    BY <1>1, <1>3, <1>4, <2>1 DEF TypeOK
  <2>2. CASE other # tab
    BY <1>1, <1>3, <2>2 DEF TypeOK, MarkedByItsTicket
  <2> QED
    BY <2>1, <2>2
<1>8. StillToBeFound'
  BY <1>1, <1>3, <1>5, <1>7, AbsenceIsNoted
<1>9. JoinsTheTabOfTheTicket'
  BY <1>1, <1>3 DEF JoinsTheTabOfTheTicket, TypeOK
<1>10. NotFoundMeansGone'
  BY <1>1 DEF NotFoundMeansGone, NoteAbsence
<1> QED
  BY <1>5, <1>6, <1>7, <1>8, <1>9, <1>10

\* A ticket is claimed or closed, and its tab stays.
LEMMA TicketStep ==
  ASSUME EscalationInv, NEW id \in DOMAIN tickets,
         \/ \E op \in Operators : Claim(op, id)
         \/ \E status \in Terminal : Close(id, status)
  PROVE  EscalationInv'
<1> USE DEF EscalationInv
<1>1. UNCHANGED <<windows, search, absent>>
  BY DEF Claim, Close
<1>3. /\ tickets' \in Seq(TicketType) /\ DOMAIN tickets' = DOMAIN tickets
      /\ Len(tickets') = Len(tickets)
      /\ \A other \in DOMAIN tickets : /\ tickets'[other].tab = tickets[other].tab
                                       /\ other # id => tickets'[other] = tickets[other]
      /\ tickets'[id].status # "open"
  <2>1. tickets[id] \in TicketType
    BY DEF TypeOK
  <2>2. CASE \E op \in Operators : Claim(op, id)
    <3>1. PICK op \in Operators : Claim(op, id)
      BY <2>2
    <3> DEFINE claimed == [tab |-> tickets[id].tab, status |-> "claimed", claimedBy |-> {op}]
    <3>2. tickets' = [tickets EXCEPT ![id].status = "claimed", ![id].claimedBy = {op}]
      BY <3>1 DEF Claim
    <3>3. DOMAIN tickets' = DOMAIN tickets
          /\ \A other \in DOMAIN tickets : other # id => tickets'[other] = tickets[other]
      BY <3>2
    <3>4. tickets'[id] = claimed
      BY <2>1, <3>2 DEF TicketType
    <3>5. claimed \in TicketType
      BY <2>1 DEF TicketType
    <3> HIDE DEF claimed
    <3>6. tickets' \in [DOMAIN tickets -> TicketType]
      <4>1. tickets' = [other \in DOMAIN tickets |-> tickets'[other]]
        BY <3>2
      <4>2. \A other \in DOMAIN tickets : tickets'[other] \in TicketType
        BY <3>3, <3>4, <3>5 DEF TypeOK
      <4> QED
        BY <4>1, <4>2
    <3>7. tickets' \in Seq(TicketType) /\ Len(tickets') = Len(tickets)
      BY <3>6 DEF TypeOK
    <3> QED
      BY <3>3, <3>4, <3>7 DEF claimed
  <2>3. CASE \E status \in Terminal : Close(id, status)
    <3>1. PICK status \in Terminal : Close(id, status)
      BY <2>3
    <3>2. tickets' = [tickets EXCEPT ![id].status = status]
      BY <3>1 DEF Close
    <3>3. tickets'[id] = [tickets[id] EXCEPT !.status = status]
      BY <3>2 DEF TypeOK
    <3>4. tickets'[id] \in TicketType /\ tickets'[id].tab = tickets[id].tab
          /\ tickets'[id].status = status /\ status # "open"
      BY <2>1, <3>3 DEF TicketType, Terminal
    <3>5. DOMAIN tickets' = DOMAIN tickets
          /\ \A other \in DOMAIN tickets : other # id => tickets'[other] = tickets[other]
      BY <3>2
    <3>6. tickets' \in Seq(TicketType)
      BY <3>2, <3>4, <3>5 DEF TypeOK
    <3> QED
      BY <3>4, <3>5, <3>6 DEF TypeOK
  <2> QED
    BY <2>2, <2>3
<1>4. TypeOK'
  BY <1>1, <1>3 DEF TypeOK
<1>5. OpenIsUnclaimed'
  BY <1>3 DEF OpenIsUnclaimed
<1>6. MarkedByItsTicket'
  BY <1>1, <1>3 DEF MarkedByItsTicket, TypeOK
<1>7. StillToBeFound'
  BY <1>1, <1>3 DEF StillToBeFound, TypeOK
<1>8. JoinsTheTabOfTheTicket'
  BY <1>1, <1>3 DEF JoinsTheTabOfTheTicket, TypeOK
<1>9. NotFoundMeansGone'
  BY <1>1 DEF NotFoundMeansGone
<1> QED
  BY <1>4, <1>5, <1>6, <1>7, <1>8, <1>9

-----------------------------------------------------------------------------
\* A search begins, and its sweep will come to the marker if there is one.
LEMMA ReconnectStep ==
  ASSUME EscalationInv, NEW op \in Operators, NEW id \in DOMAIN tickets, Reconnect(op, id)
  PROVE  EscalationInv'
<1> DEFINE begun == [state |-> "looking", ticket |-> id, left |-> Pages, joined |-> {}]
<1> USE DEF EscalationInv
<1>1. /\ search' = [search EXCEPT ![op] = begun]
      /\ absent' = [absent EXCEPT ![op] = \A tab \in Tabs : windows[tab] # id]
      /\ tickets' = tickets /\ windows' = windows
  BY DEF Reconnect
<1>2. id \in Nat \ {0}
  BY DEF TypeOK
<1>3. begun \in SearchType
  BY <1>2, PagesAreTheTabs DEF SearchType
<1>4. begun.state = "looking" /\ begun.ticket = id /\ begun.left = Pages
  OBVIOUS
<1> HIDE DEF begun
<1>5. /\ search'[op] = begun /\ absent'[op] = (\A tab \in Tabs : windows[tab] # id)
      /\ \A other \in Operators :
           other # op => search'[other] = search[other] /\ absent'[other] = absent[other]
  BY <1>1 DEF TypeOK
<1>6. TypeOK'
  <2>1. search' \in [Operators -> SearchType]
    BY <1>1, <1>3 DEF TypeOK
  <2>2. absent' \in [Operators -> BOOLEAN]
    BY <1>1 DEF TypeOK
  <2>3. \A who \in Operators :
          search'[who].state # "none" => search'[who].ticket \in DOMAIN tickets
    BY <1>4, <1>5 DEF TypeOK
  <2> QED
    BY <1>1, <2>1, <2>2, <2>3 DEF TypeOK
<1>7. OpenIsUnclaimed' /\ MarkedByItsTicket'
  BY <1>1 DEF OpenIsUnclaimed, MarkedByItsTicket
<1>8. StillToBeFound'
  <2>1. ASSUME ~absent'[op]
        PROVE  /\ windows[tickets[id].tab] = id
               /\ \E k \in DOMAIN Pages : Pages[k] = tickets[id].tab
    <3>1. PICK tab \in Tabs : windows[tab] = id
      BY <1>5, <2>1
    <3>2. tickets[id].tab = tab
      BY <1>2, <3>1 DEF MarkedByItsTicket
    <3> QED
      BY <3>1, <3>2, PagesAreTheTabs
  <2> QED
    BY <1>1, <1>4, <1>5, <2>1 DEF StillToBeFound
<1>9. JoinsTheTabOfTheTicket' /\ NotFoundMeansGone'
  BY <1>1, <1>4, <1>5 DEF JoinsTheTabOfTheTicket, NotFoundMeansGone
<1> QED
  BY <1>6, <1>7, <1>8, <1>9

\* What is in a list and not at its head is in its tail.
LEMMA InTheTail ==
  ASSUME NEW S, NEW list \in Seq(S), NEW k \in DOMAIN list, k # 1
  PROVE  k - 1 \in DOMAIN Tail(list) /\ Tail(list)[k - 1] = list[k]
<1>1. k \in 1..Len(list) /\ Len(list) \in Nat
  OBVIOUS
<1>2. list # <<>> /\ k - 1 \in 1..(Len(list) - 1)
  BY <1>1
<1>3. Len(Tail(list)) = Len(list) - 1 /\ Tail(list) \in Seq(S)
  BY <1>2
<1>4. DOMAIN Tail(list) = 1..(Len(list) - 1)
  BY <1>1, <1>3
<1> QED
  BY <1>1, <1>2, <1>4

\* A page is looked at, or a sweep ends.
LEMMA LookingStep ==
  ASSUME EscalationInv, NEW op \in Operators,
         LookAndJoin(op) \/ LookOn(op) \/ SweepEnds(op)
  PROVE  EscalationInv'
<1> DEFINE s == search[op]
<1> USE DEF EscalationInv
<1>1. /\ tickets' = tickets /\ windows' = windows /\ absent' = absent
      /\ s.state = "looking" /\ s \in SearchType
      /\ s.ticket \in DOMAIN tickets /\ s.ticket \in Nat \ {0}
  <2>1. tickets' = tickets /\ windows' = windows /\ absent' = absent /\ s.state = "looking"
    BY DEF LookAndJoin, LookOn, SweepEnds, Looking
  <2>2. s \in SearchType /\ s.ticket \in DOMAIN tickets
    BY <2>1 DEF TypeOK
  <2>3. DOMAIN tickets \subseteq Nat \ {0}
    BY DEF TypeOK
  <2> QED
    BY <2>1, <2>2, <2>3
<1>2. ASSUME search' = [search EXCEPT ![op] = search'[op]],
             search'[op] \in SearchType, search'[op].ticket = s.ticket,
             search'[op].state # "none",
             (search'[op].state = "looking" /\ ~absent[op]) =>
               \E k \in DOMAIN search'[op].left :
                 search'[op].left[k] = tickets[s.ticket].tab,
             search'[op].state = "joined" => search'[op].joined = {tickets[s.ticket].tab},
             search'[op].state = "not found" => absent[op]
      PROVE  EscalationInv'
  <2>1. \A other \in Operators : other # op => search'[other] = search[other]
    BY <1>2 DEF TypeOK
  <2>2. TypeOK'
    <3>1. search' \in [Operators -> SearchType]
      BY <1>2 DEF TypeOK
    <3>2. \A who \in Operators :
            search'[who].state # "none" => search'[who].ticket \in DOMAIN tickets
      BY <1>1, <1>2, <2>1 DEF TypeOK
    <3> QED
      BY <1>1, <3>1, <3>2 DEF TypeOK
  <2>3. OpenIsUnclaimed' /\ MarkedByItsTicket'
    BY <1>1 DEF OpenIsUnclaimed, MarkedByItsTicket
  <2>4. StillToBeFound'
    <3> SUFFICES ASSUME NEW who \in Operators, search'[who].state = "looking", ~absent[who]
                 PROVE  LET tab == tickets[search'[who].ticket].tab
                        IN  /\ windows[tab] = search'[who].ticket
                            /\ \E k \in DOMAIN search'[who].left : search'[who].left[k] = tab
      BY <1>1 DEF StillToBeFound
    <3>1. CASE who # op
      BY <2>1, <3>1 DEF StillToBeFound
    <3>2. CASE who = op
      <4>1. windows[tickets[s.ticket].tab] = s.ticket
        BY <1>1, <3>2 DEF StillToBeFound
      <4> QED
        BY <1>2, <3>2, <4>1
    <3> QED
      BY <3>1, <3>2
  <2>5. JoinsTheTabOfTheTicket' /\ NotFoundMeansGone'
    BY <1>1, <1>2, <2>1 DEF JoinsTheTabOfTheTicket, NotFoundMeansGone
  <2> QED
    BY <2>2, <2>3, <2>4, <2>5
<1>3. CASE LookAndJoin(op)
  <2> DEFINE tab  == Head(s.left)
             next == [s EXCEPT !.state = "joined", !.joined = {tab}]
  <2>1. search' = [search EXCEPT ![op] = next] /\ windows[tab] = s.ticket /\ s.left # <<>>
    BY <1>3 DEF LookAndJoin, Looking
  <2>2. tab \in Tabs
    <3>1. s.left \in Seq(Tabs)
      BY <1>1 DEF SearchType
    <3> QED
      BY <2>1, <3>1
  <2>3. tickets[s.ticket].tab = tab
    BY <1>1, <2>1, <2>2 DEF MarkedByItsTicket
  <2>4. next \in SearchType /\ next.state = "joined" /\ next.joined = {tab}
        /\ next.ticket = s.ticket
    BY <1>1, <2>2 DEF SearchType
  <2> HIDE DEF next
  <2>5. search'[op] = next
    BY <2>1 DEF TypeOK
  <2> QED
    BY <1>2, <2>1, <2>3, <2>4, <2>5
<1>4. CASE LookOn(op)
  <2> DEFINE next == [s EXCEPT !.left = Tail(@)]
  <2>1. /\ search' = [search EXCEPT ![op] = next] /\ s.left # <<>>
        /\ windows[Head(s.left)] # s.ticket
    BY <1>4 DEF LookOn, Looking
  <2>2. next \in SearchType /\ next.state = "looking" /\ next.ticket = s.ticket
        /\ next.left = Tail(s.left)
    <3>1. s.left \in Seq(Tabs)
      BY <1>1 DEF SearchType
    <3>2. Tail(s.left) \in Seq(Tabs)
      BY <2>1, <3>1
    <3> QED
      BY <1>1, <3>2 DEF SearchType
  <2> HIDE DEF next
  <2>3. search'[op] = next
    BY <2>1 DEF TypeOK
  <2>4. ASSUME ~absent[op]
        PROVE  \E k \in DOMAIN Tail(s.left) : Tail(s.left)[k] = tickets[s.ticket].tab
    <3> DEFINE tab == tickets[s.ticket].tab
    <3>1. windows[tab] = s.ticket
      BY <1>1, <2>4 DEF StillToBeFound
    <3>2. PICK k \in DOMAIN s.left : s.left[k] = tab
      BY <1>1, <2>4 DEF StillToBeFound
    <3>3. s.left \in Seq(Tabs)
      BY <1>1 DEF SearchType
    <3>4. k # 1
      BY <2>1, <3>1, <3>2, <3>3
    <3>5. k - 1 \in DOMAIN Tail(s.left) /\ Tail(s.left)[k - 1] = s.left[k]
      BY <3>2, <3>3, <3>4, InTheTail
    <3> QED
      BY <3>2, <3>5
  <2> QED
    BY <1>2, <2>1, <2>2, <2>3, <2>4
<1>5. CASE SweepEnds(op)
  <2>1. s.left = <<>>
    BY <1>5 DEF SweepEnds
  <2>2. absent[op]
    <3> SUFFICES ASSUME ~absent[op] PROVE FALSE
      OBVIOUS
    <3>1. PICK k \in DOMAIN s.left : TRUE
      BY <1>1 DEF StillToBeFound
    <3> QED
      BY <2>1, <3>1
  <2>3. CASE search' = [search EXCEPT ![op].state = "not found"]
    <3> DEFINE next == [s EXCEPT !.state = "not found"]
    <3>1. search' = [search EXCEPT ![op] = next]
      BY <2>3
    <3>2. next \in SearchType /\ next.state = "not found" /\ next.ticket = s.ticket
      BY <1>1 DEF SearchType
    <3> HIDE DEF next
    <3>3. search'[op] = next
      BY <3>1 DEF TypeOK
    <3> QED
      BY <1>2, <2>2, <3>1, <3>2, <3>3
  <2>4. CASE search' = [search EXCEPT ![op].left = Pages]
    <3> DEFINE next == [s EXCEPT !.left = Pages]
    <3>1. search' = [search EXCEPT ![op] = next]
      BY <2>4
    <3>2. next \in SearchType /\ next.state = "looking" /\ next.ticket = s.ticket
      BY <1>1, PagesAreTheTabs DEF SearchType
    <3> HIDE DEF next
    <3>3. search'[op] = next
      BY <3>1 DEF TypeOK
    <3> QED
      BY <1>2, <2>2, <3>1, <3>2, <3>3
  <2> QED
    BY <1>5, <2>3, <2>4 DEF SweepEnds
<1> QED
  BY <1>3, <1>4, <1>5

\* The browser replaces a document or closes a tab, and the marker with it.
LEMMA BrowserStep ==
  ASSUME EscalationInv, NEW tab \in Tabs, LeavePage(tab) \/ NewPage(tab)
  PROVE  EscalationInv'
<1> USE DEF EscalationInv
<1>1. /\ tickets' = tickets /\ search' = search /\ NoteAbsence
      /\ \E mark \in {-1, 0} : windows' = [windows EXCEPT ![tab] = mark]
  BY DEF LeavePage, NewPage
<1>2. PICK mark \in {-1, 0} : windows' = [windows EXCEPT ![tab] = mark]
  BY <1>1
<1>3. /\ windows'[tab] = mark
      /\ \A other \in Tabs : other # tab => windows'[other] = windows[other]
  BY <1>2 DEF TypeOK
<1>4. TypeOK'
  <2>1. Len(tickets) \in Nat
    BY DEF TypeOK
  <2>2. windows' \in [Tabs -> -1..Len(tickets)]
    BY <1>2, <2>1 DEF TypeOK
  <2>3. absent' \in [Operators -> BOOLEAN]
    BY <1>1 DEF NoteAbsence
  <2> QED
    BY <1>1, <2>2, <2>3 DEF TypeOK
<1>5. OpenIsUnclaimed' /\ JoinsTheTabOfTheTicket'
  BY <1>1 DEF OpenIsUnclaimed, JoinsTheTabOfTheTicket
<1>6. MarkedByItsTicket'
  BY <1>1, <1>3 DEF MarkedByItsTicket
<1>7. StillToBeFound'
  BY <1>1, <1>4, <1>6, AbsenceIsNoted
<1>8. NotFoundMeansGone'
  BY <1>1 DEF NotFoundMeansGone, NoteAbsence
<1> QED
  BY <1>4, <1>5, <1>6, <1>7, <1>8

\* The queue, the markers and the searches keep the invariant.
THEOREM EscalationInvariance == Spec => []EscalationInv
<1>1. Init => EscalationInv
  <2> SUFFICES ASSUME Init PROVE EscalationInv
    OBVIOUS
  <2>1. NoSearch \in SearchType /\ NoSearch.state = "none"
    BY DEF NoSearch, SearchType
  <2>2. /\ tickets = <<>> /\ windows = [tab \in Tabs |-> 0]
        /\ search = [op \in Operators |-> NoSearch] /\ absent = [op \in Operators |-> FALSE]
    BY DEF Init
  <2>3. TypeOK
    BY <2>1, <2>2 DEF TypeOK
  <2>4. OpenIsUnclaimed /\ MarkedByItsTicket
    BY <2>2 DEF OpenIsUnclaimed, MarkedByItsTicket
  <2>5. StillToBeFound /\ JoinsTheTabOfTheTicket /\ NotFoundMeansGone
    BY <2>1, <2>2 DEF StillToBeFound, JoinsTheTabOfTheTicket, NotFoundMeansGone
  <2> QED
    BY <2>3, <2>4, <2>5 DEF EscalationInv
<1>2. EscalationInv /\ [Next]_vars => EscalationInv'
  <2> SUFFICES ASSUME EscalationInv, [Next]_vars PROVE EscalationInv'
    OBVIOUS
  <2>1. CASE \E tab \in Tabs, code \in ReplayStatuses \cup DiscoveryStatuses :
               Escalate(tab, code)
    BY <2>1, EscalateStep
  <2>2. CASE \E id \in DOMAIN tickets, status \in Terminal : Close(id, status)
    BY <2>2, TicketStep
  <2>3. CASE \E op \in Operators : Human(op)
    <3>1. PICK op \in Operators : Human(op)
      BY <2>3
    <3>2. CASE \E id \in DOMAIN tickets : Claim(op, id)
      BY <3>2, TicketStep
    <3>3. CASE \E id \in DOMAIN tickets : Reconnect(op, id)
      BY <3>3, ReconnectStep
    <3>4. CASE LookAndJoin(op) \/ LookOn(op) \/ SweepEnds(op)
      BY <3>4, LookingStep
    <3> QED
      BY <3>1, <3>2, <3>3, <3>4 DEF Human
  <2>4. CASE \E tab \in Tabs : LeavePage(tab) \/ NewPage(tab)
    BY <2>4, BrowserStep
  <2>5. CASE UNCHANGED vars
    BY <2>5 DEF vars, EscalationInv, TypeOK, OpenIsUnclaimed, MarkedByItsTicket,
                StillToBeFound, JoinsTheTabOfTheTicket, NotFoundMeansGone
  <2> QED
    BY <2>1, <2>2, <2>3, <2>4, <2>5 DEF Next
<1> QED
  BY <1>1, <1>2, PTL DEF Spec

-----------------------------------------------------------------------------
\* Whoever joins a page over a connection of their own is on the tab the
\* ticket's run left behind.
THEOREM JoinedTheRightTab == Spec => []JoinsTheTabOfTheTicket
<1>1. EscalationInv => JoinsTheTabOfTheTicket
  BY DEF EscalationInv
<1> QED
  BY <1>1, EscalationInvariance, PTL

\* A reconnect that fails never lost a race: its marker was gone.
THEOREM FailedMeansGone == Spec => []NotFoundMeansGone
<1>1. EscalationInv => NotFoundMeansGone
  BY DEF EscalationInv
<1> QED
  BY <1>1, EscalationInvariance, PTL

\* The queue's tickets never go back, change hands or change how they ended.
THEOREM QueueMovesForward == Spec => TicketsMoveForward
<1> DEFINE Forward ==
      \A id \in DOMAIN tickets :
        /\ tickets'[id].status # tickets[id].status =>
             \/ tickets[id].status = "open"
             \/ tickets[id].status = "claimed" /\ tickets'[id].status \in Terminal
        /\ tickets'[id].claimedBy # tickets[id].claimedBy => tickets[id].claimedBy = {}
<1>1. ASSUME EscalationInv, [Next]_vars
      PROVE  [Forward]_vars
  <2> USE DEF EscalationInv
  <2>1. ASSUME NEW tab \in Tabs, NEW code, Escalate(tab, code)
        PROVE  Forward
    <3>1. tickets' = Append(tickets, [tab |-> tab, status |-> "open", claimedBy |-> {}])
      BY <2>1 DEF Escalate
    <3>2. \A id \in DOMAIN tickets : tickets'[id] = tickets[id]
      BY <1>1, <3>1 DEF TypeOK
    <3> QED
      BY <3>2
  <2>2. ASSUME NEW op \in Operators, NEW id \in DOMAIN tickets, Claim(op, id)
        PROVE  Forward
    <3>1. tickets[id].status = "open" /\ tickets[id].claimedBy = {}
      BY <1>1, <2>2 DEF Claim, OpenIsUnclaimed
    <3>2. \A other \in DOMAIN tickets : other # id => tickets'[other] = tickets[other]
      BY <2>2 DEF Claim
    <3> QED
      BY <3>1, <3>2
  <2>3. ASSUME NEW id \in DOMAIN tickets, NEW status \in Terminal, Close(id, status)
        PROVE  Forward
    <3>1. /\ tickets[id].status \in {"open", "claimed"}
          /\ tickets' = [tickets EXCEPT ![id].status = status]
      BY <2>3 DEF Close
    <3>2. \A other \in DOMAIN tickets : other # id => tickets'[other] = tickets[other]
      BY <3>1
    <3>3. tickets'[id] = [tickets[id] EXCEPT !.status = status]
      BY <3>1
    <3>4. tickets'[id].status = status /\ tickets'[id].claimedBy = tickets[id].claimedBy
      BY <1>1, <3>3 DEF TypeOK, TicketType
    <3> QED
      BY <3>1, <3>2, <3>4
  <2>4. ASSUME tickets' = tickets
        PROVE  Forward
    BY <2>4
  <2>5. \/ tickets' = tickets
        \/ \E tab \in Tabs, code \in ReplayStatuses \cup DiscoveryStatuses :
             Escalate(tab, code)
        \/ \E op \in Operators, id \in DOMAIN tickets : Claim(op, id)
        \/ \E id \in DOMAIN tickets, status \in Terminal : Close(id, status)
    BY <1>1 DEF Next, Human, Reconnect, LookAndJoin, LookOn, SweepEnds, LeavePage, NewPage,
                vars
  <2> QED
    BY <2>1, <2>2, <2>3, <2>4, <2>5
<1>2. Spec => [][Forward]_vars
  BY <1>1, EscalationInvariance, PTL DEF Spec
<1> QED
  BY <1>2 DEF TicketsMoveForward
=============================================================================

CONSTANTS
  Tabs = {left, right}
  Operators = {ann, bob}
  MaxTickets = 2
SPECIFICATION Spec
SYMMETRY Symmetry
INVARIANTS
  JoinsTheTabOfTheTicket
  NotFoundMeansGone
PROPERTY
  TicketsMoveForward

CONSTANTS
  Threads = {t1, t2, t3}
  Customers = {c1, c2, c3, c4}
  NumTickets = 2
SPECIFICATION FairSpec
INVARIANTS TypeOK BooksBalance FirstComeFirstServed
PROPERTIES Terminates

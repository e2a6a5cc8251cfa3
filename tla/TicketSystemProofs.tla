------------------------- MODULE TicketSystemProofs -------------------------
(***************************************************************************)
(* Proofs about TicketSystem, for any number of threads, customers and     *)
(* tickets: the tickets are not oversold, and they go to the customers in  *)
(* the order of their requests.                                            *)
(***************************************************************************)
EXTENDS TicketSystem, SequenceTheorems, TLAPS

Waiting(t) == pc[t] \in {"check", "take", "push", "release"}

\* The lock admits the first in line, and everybody who waits is in line once.
Line == /\ \A t \in Threads : Waiting(t) <=> \E i \in 1..Len(waiters) : waiters[i] = t
        /\ \A i, j \in 1..Len(waiters) : waiters[i] = waiters[j] => i = j
        /\ \A t \in Threads : Inside(t) => Len(waiters) > 0 /\ waiters[1] = t

\* Between the two updates one ticket is neither available nor booked.
Books == /\ \A t \in Threads : pc[t] = "take" => available > 0
         /\ (\E t \in Threads : pc[t] = "push") => Len(bookings) + available + 1 = NumTickets
         /\ (\A t \in Threads : pc[t] # "push") => Len(bookings) + available = NumTickets

\* How many requests have been answered.
Served == Len(arrivals) - Len(waiters)

\* The line holds the latest requests, in their order.
Requests == /\ Served \in Nat
            /\ \A i \in 1..Len(waiters) : arrivals[Served + i] = customer[waiters[i]]

\* The bookings are the first requests: all of those answered, while there are
\* tickets, and the one being answered, once it is booked.
Order == /\ Len(bookings) <= Len(arrivals)
         /\ \A i \in 1..Len(bookings) : bookings[i] = arrivals[i]
         /\ \A t \in Threads : pc[t] \in {"take", "push"} => Len(bookings) = Served
         /\ \A t \in Threads : pc[t] = "release" => available = 0 \/ Len(bookings) = Served + 1
         /\ (\A t \in Threads : pc[t] # "release") => available = 0 \/ Len(bookings) = Served

IInv == TypeOK /\ Line /\ Books /\ Requests /\ Order
-----------------------------------------------------------------------------
\* Joining a sequence at its end.
LEMMA Appended ==
  ASSUME NEW S, NEW q \in Seq(S), NEW x \in S
  PROVE  /\ Append(q, x) \in Seq(S)
         /\ Len(q) \in Nat
         /\ Len(Append(q, x)) = Len(q) + 1
         /\ Append(q, x)[Len(q) + 1] = x
         /\ \A i \in 1..Len(q) : Append(q, x)[i] = q[i]
OBVIOUS

\* Leaving a sequence at its head.
LEMMA Left ==
  ASSUME NEW S, NEW q \in Seq(S), Len(q) > 0
  PROVE  /\ Tail(q) \in Seq(S)
         /\ Len(q) \in Nat
         /\ Len(Tail(q)) = Len(q) - 1
         /\ \A i \in 1..Len(Tail(q)) : Tail(q)[i] = q[i + 1]
BY HeadTailProperties, EmptySeq

\* A sequence that agrees with a longer one as far as it goes is its prefix.
LEMMA PrefixByIndex ==
  ASSUME NEW S, NEW s \in Seq(S), NEW t \in Seq(S), Len(s) <= Len(t),
         \A i \in 1..Len(s) : s[i] = t[i]
  PROVE  IsPrefix(s, t)
<1>1. /\ Len(s) \in Nat /\ Len(t) \in Nat
      /\ \A i \in 1..Len(s) : s[i] \in S /\ t[i] \in S
  OBVIOUS
<1>2. /\ SubSeq(t, 1, Len(s)) \in Seq(S)
      /\ Len(SubSeq(t, 1, Len(s))) = Len(s)
      /\ \A i \in 1..Len(s) : SubSeq(t, 1, Len(s))[i] = t[i]
  BY <1>1, SubSeqProperties
<1>3. SubSeq(t, 1, Len(s)) = s
  BY <1>2, SeqEqual
<1> QED
  BY <1>3, SubSeqFull DEF IsPrefix
-----------------------------------------------------------------------------
\* Nobody has asked, and every ticket is available.
LEMMA InitInv == Init => IInv
<1> SUFFICES ASSUME Init PROVE IInv
  OBVIOUS
<1>1. Len(waiters) = 0 /\ Len(bookings) = 0 /\ Len(arrivals) = 0
  BY EmptySeq DEF Init
<1>2. TypeOK
  <2>1. /\ available \in 0..NumTickets
        /\ pc \in [Threads -> {"idle", "check", "take", "push", "release", "count"}]
        /\ booked \in [Threads -> BOOLEAN]
    BY TicketAssumption DEF Init
  <2>2. waiters \in Seq(Threads) /\ bookings \in Seq(Customers) /\ arrivals \in Seq(Customers)
    BY EmptySeq DEF Init
  <2> QED
    BY <2>1, <2>2 DEF Init, TypeOK
<1>3. Line
  BY <1>1 DEF Init, Line, Waiting, Inside
<1>4. Books /\ Requests /\ Order
  BY <1>1, TicketAssumption DEF Init, Books, Requests, Order, Served
<1> QED
  BY <1>2, <1>3, <1>4 DEF IInv

\* A request joins the end of the line and of the history.
LEMMA AskInv == ASSUME IInv, NEW t \in Threads, Ask(t) PROVE IInv'
<1> PICK c \in remaining : /\ customer' = [customer EXCEPT ![t] = c]
                           /\ remaining' = remaining \ {c}
                           /\ arrivals' = Append(arrivals, c)
  BY DEF Ask
<1>1. /\ c \in Customers
      /\ pc[t] = "idle" /\ pc' = [pc EXCEPT ![t] = "check"]
      /\ waiters' = Append(waiters, t)
      /\ UNCHANGED <<available, bookings, booked, successful, failed, reported>>
  BY DEF Ask, Goto, IInv, TypeOK, shared, counts
<1>2. /\ waiters' \in Seq(Threads)
      /\ Len(waiters) \in Nat
      /\ Len(waiters') = Len(waiters) + 1
      /\ waiters'[Len(waiters) + 1] = t
      /\ \A i \in 1..Len(waiters) : waiters'[i] = waiters[i]
  BY <1>1, Appended DEF IInv, TypeOK
<1>3. /\ arrivals' \in Seq(Customers)
      /\ Len(arrivals) \in Nat
      /\ Len(arrivals') = Len(arrivals) + 1
      /\ arrivals'[Len(arrivals) + 1] = c
      /\ \A i \in 1..Len(arrivals) : arrivals'[i] = arrivals[i]
  BY <1>1, Appended DEF IInv, TypeOK
<1>4. TypeOK'
  BY <1>1, <1>2, <1>3 DEF IInv, TypeOK
<1>5. \A i \in 1..Len(waiters) : waiters[i] # t
  BY <1>1 DEF IInv, Line, Waiting
<1>6. Line'
  <2>1. \A u \in Threads : Waiting(u)' <=> \E i \in 1..Len(waiters') : waiters'[i] = u
    BY <1>1, <1>2 DEF IInv, TypeOK, Line, Waiting
  <2>2. \A i, j \in 1..Len(waiters') : waiters'[i] = waiters'[j] => i = j
    BY <1>2, <1>5 DEF IInv, Line
  <2>3. \A u \in Threads : Inside(u)' => Len(waiters') > 0 /\ waiters'[1] = u
    BY <1>1, <1>2 DEF IInv, TypeOK, Line, Inside
  <2> QED
    BY <2>1, <2>2, <2>3 DEF Line
<1>7. Books'
  BY <1>1 DEF IInv, TypeOK, Books
<1>8. Served' = Served
  BY <1>2, <1>3 DEF Served
<1>9. Requests'
  <2> SUFFICES ASSUME NEW i \in 1..Len(waiters')
               PROVE  arrivals'[Served + i] = customer'[waiters'[i]]
    BY <1>8 DEF IInv, Requests
  <2>1. CASE i = Len(waiters) + 1
    BY <2>1, <1>1, <1>2, <1>3 DEF IInv, TypeOK, Served
  <2>2. CASE i # Len(waiters) + 1
    <3>1. i \in 1..Len(waiters) /\ Served + i \in 1..Len(arrivals)
      BY <2>2, <1>2, <1>3 DEF IInv, Requests, Served
    <3>2. waiters[i] \in Threads /\ waiters[i] # t
      BY <3>1, <1>5 DEF IInv, TypeOK
    <3> QED
      BY <3>1, <3>2, <1>2, <1>3 DEF IInv, TypeOK, Requests
  <2> QED
    BY <2>1, <2>2
<1>10. Order'
  <2>1. Len(bookings) \in Nat
    BY DEF IInv, TypeOK
  <2>2. /\ Len(bookings') <= Len(arrivals')
        /\ \A i \in 1..Len(bookings') : bookings'[i] = arrivals'[i]
    BY <2>1, <1>1, <1>3 DEF IInv, Order
  <2> QED
    BY <2>2, <1>1, <1>8 DEF IInv, TypeOK, Order
<1> QED
  BY <1>4, <1>6, <1>7, <1>9, <1>10 DEF IInv

\* The owner finds a ticket.
LEMMA AvailableInv == ASSUME IInv, NEW t \in Threads, Available(t) PROVE IInv'
<1>1. /\ Len(waiters) > 0 /\ waiters[1] = t
      /\ available > 0
      /\ pc[t] = "check" /\ pc' = [pc EXCEPT ![t] = "take"]
      /\ UNCHANGED <<waiters, available, bookings, customer, booked, remaining, successful,
                     failed, arrivals, reported>>
  BY EmptySeq DEF Available, Owns, Goto, IInv, TypeOK, shared, counts
<1>2. \A u \in Threads : ~Inside(u)
  BY <1>1 DEF IInv, Line, Inside
<1>3. TypeOK'
  BY <1>1 DEF IInv, TypeOK
<1>4. Line'
  BY <1>1 DEF IInv, TypeOK, Line, Waiting, Inside
<1>5. Books'
  BY <1>1 DEF IInv, TypeOK, Books
<1>6. Requests' /\ Served' = Served
  BY <1>1 DEF IInv, Requests, Served
<1>7. Len(bookings) = Served
  BY <1>1, <1>2 DEF IInv, TypeOK, Order, Inside
<1>8. Order'
  BY <1>1, <1>2, <1>6, <1>7 DEF IInv, TypeOK, Order, Inside
<1> QED
  BY <1>3, <1>4, <1>5, <1>6, <1>8 DEF IInv

\* The owner finds no ticket.
LEMMA SoldOutInv == ASSUME IInv, NEW t \in Threads, SoldOut(t) PROVE IInv'
<1>1. /\ Len(waiters) > 0 /\ waiters[1] = t
      /\ available = 0
      /\ pc[t] = "check" /\ pc' = [pc EXCEPT ![t] = "release"]
      /\ booked' = [booked EXCEPT ![t] = FALSE]
      /\ UNCHANGED <<waiters, available, bookings, customer, remaining, successful, failed,
                     arrivals, reported>>
  BY EmptySeq DEF SoldOut, Owns, Goto, IInv, TypeOK, shared, counts
<1>2. \A u \in Threads : ~Inside(u)
  BY <1>1 DEF IInv, Line, Inside
<1>3. TypeOK'
  BY <1>1 DEF IInv, TypeOK
<1>4. Line'
  BY <1>1 DEF IInv, TypeOK, Line, Waiting, Inside
<1>5. Books'
  BY <1>1 DEF IInv, TypeOK, Books
<1>6. Requests' /\ Served' = Served
  BY <1>1 DEF IInv, Requests, Served
<1>7. Order'
  BY <1>1, <1>2, <1>6 DEF IInv, TypeOK, Order, Inside
<1> QED
  BY <1>3, <1>4, <1>5, <1>6, <1>7 DEF IInv

\* The owner takes a ticket: it is no longer available and not yet booked.
LEMMA TakeInv == ASSUME IInv, NEW t \in Threads, Take(t) PROVE IInv'
<1>1. /\ pc[t] = "take" /\ pc' = [pc EXCEPT ![t] = "push"]
      /\ available' = available - 1
      /\ UNCHANGED <<waiters, bookings, customer, booked, remaining, successful, failed,
                     arrivals, reported>>
  BY DEF Take, Goto, counts
<1>2. \A u \in Threads : Inside(u) => u = t
  BY <1>1 DEF IInv, Line, Inside
<1>3. available > 0 /\ Len(bookings) + available = NumTickets /\ Len(bookings) \in Nat
  BY <1>1, <1>2 DEF IInv, TypeOK, Books, Inside
<1>4. TypeOK'
  BY <1>1, <1>3, TicketAssumption DEF IInv, TypeOK
<1>5. Line'
  BY <1>1 DEF IInv, TypeOK, Line, Waiting, Inside
<1>6. Books'
  <2>1. pc'[t] = "push" /\ \A u \in Threads : pc'[u] # "take"
    BY <1>1, <1>2 DEF IInv, TypeOK, Inside
  <2>2. Len(bookings') + available' + 1 = NumTickets
    BY <1>1, <1>3, TicketAssumption DEF IInv, TypeOK
  <2> QED
    BY <2>1, <2>2 DEF Books
<1>7. Requests' /\ Served' = Served
  BY <1>1 DEF IInv, Requests, Served
<1>8. Order'
  <2>1. Len(bookings) = Served
    BY <1>1 DEF IInv, Order
  <2> QED
    BY <2>1, <1>1, <1>2, <1>7 DEF IInv, TypeOK, Order, Inside
<1> QED
  BY <1>4, <1>5, <1>6, <1>7, <1>8 DEF IInv

\* The owner books the ticket for the first request not yet answered.
LEMMA PushInv == ASSUME IInv, NEW t \in Threads, Push(t) PROVE IInv'
<1>1. /\ pc[t] = "push" /\ pc' = [pc EXCEPT ![t] = "release"]
      /\ bookings' = Append(bookings, customer[t])
      /\ booked' = [booked EXCEPT ![t] = TRUE]
      /\ UNCHANGED <<waiters, available, customer, remaining, successful, failed, arrivals,
                     reported>>
  BY DEF Push, Goto, counts
<1>2. /\ \A u \in Threads : Inside(u) => u = t
      /\ Len(waiters) > 0 /\ waiters[1] = t
  BY <1>1 DEF IInv, Line, Inside
<1>3. /\ bookings' \in Seq(Customers)
      /\ Len(bookings) \in Nat
      /\ Len(bookings') = Len(bookings) + 1
      /\ bookings'[Len(bookings) + 1] = customer[t]
      /\ \A i \in 1..Len(bookings) : bookings'[i] = bookings[i]
  <2>1. customer[t] \in Customers
    BY DEF IInv, TypeOK
  <2> QED
    BY <2>1, <1>1, Appended DEF IInv, TypeOK
<1>4. TypeOK'
  BY <1>1, <1>3 DEF IInv, TypeOK
<1>5. Line'
  BY <1>1 DEF IInv, TypeOK, Line, Waiting, Inside
<1>6. Books'
  <2>1. \A u \in Threads : pc'[u] \notin {"push", "take"}
    BY <1>1, <1>2 DEF IInv, TypeOK, Inside
  <2>2. Len(bookings') + available' = NumTickets
    BY <1>1, <1>3, TicketAssumption DEF IInv, TypeOK, Books
  <2> QED
    BY <2>1, <2>2 DEF Books
<1>7. Requests' /\ Served' = Served
  BY <1>1 DEF IInv, Requests, Served
<1>8. Order'
  <2>1. /\ Len(bookings) = Served
        /\ Served \in Nat /\ Len(waiters) \in Nat /\ Len(arrivals) \in Nat
        /\ arrivals[Served + 1] = customer[t]
        /\ Len(arrivals) = Served + Len(waiters)
    BY <1>1, <1>2 DEF IInv, TypeOK, Order, Requests, Served
  <2>2. /\ Len(bookings') <= Len(arrivals')
        /\ \A i \in 1..Len(bookings') : bookings'[i] = arrivals'[i]
    BY <2>1, <1>1, <1>2, <1>3 DEF IInv, Order
  <2>3. \A u \in Threads : pc'[u] \notin {"push", "take"}
    BY <1>1, <1>2 DEF IInv, TypeOK, Inside
  <2>4. pc'[t] = "release" /\ Len(bookings') = Served' + 1
    BY <2>1, <1>1, <1>3, <1>7 DEF IInv, TypeOK
  <2> QED
    BY <2>2, <2>3, <2>4 DEF Order
<1> QED
  BY <1>4, <1>5, <1>6, <1>7, <1>8 DEF IInv

\* The owner leaves the line: its request is answered.
LEMMA ReleaseInv == ASSUME IInv, NEW t \in Threads, Release(t) PROVE IInv'
<1>1. /\ pc[t] = "release" /\ pc' = [pc EXCEPT ![t] = "count"]
      /\ waiters' = Tail(waiters)
      /\ UNCHANGED <<available, bookings, customer, booked, remaining, successful, failed,
                     arrivals, reported>>
  BY DEF Release, Goto, shared, counts
<1>2. /\ \A u \in Threads : Inside(u) => u = t
      /\ Len(waiters) > 0 /\ waiters[1] = t
  BY <1>1 DEF IInv, Line, Inside
<1>3. /\ waiters' \in Seq(Threads)
      /\ Len(waiters) \in Nat
      /\ Len(waiters') = Len(waiters) - 1
      /\ \A i \in 1..Len(waiters') : waiters'[i] = waiters[i + 1]
  BY <1>1, <1>2, Left DEF IInv, TypeOK
<1>4. TypeOK'
  BY <1>1, <1>3 DEF IInv, TypeOK
<1>5. \A u \in Threads : ~Inside(u)'
  BY <1>1, <1>2 DEF IInv, TypeOK, Inside
<1>6. Line'
  <2>1. ASSUME NEW u \in Threads, Waiting(u)' PROVE \E i \in 1..Len(waiters') : waiters'[i] = u
    <3>1. u # t /\ Waiting(u)
      BY <2>1, <1>1 DEF IInv, TypeOK, Waiting
    <3>2. PICK i \in 1..Len(waiters) : waiters[i] = u
      BY <3>1 DEF IInv, Line
    <3>3. i # 1 /\ i - 1 \in 1..Len(waiters') /\ waiters'[i - 1] = u
      BY <3>1, <3>2, <1>2, <1>3
    <3> QED
      BY <3>3
  <2>2. ASSUME NEW u \in Threads, NEW i \in 1..Len(waiters'), waiters'[i] = u PROVE Waiting(u)'
    <3>1. i + 1 \in 1..Len(waiters) /\ waiters[i + 1] = u
      BY <2>2, <1>3
    <3>2. 1 \in 1..Len(waiters) /\ i + 1 # 1
      BY <1>2, <1>3
    <3>3. u # t /\ Waiting(u)
      BY <3>1, <3>2, <1>2 DEF IInv, Line
    <3> QED
      BY <3>3, <1>1 DEF IInv, TypeOK, Waiting
  <2>3. \A i, j \in 1..Len(waiters') : waiters'[i] = waiters'[j] => i = j
    <3> SUFFICES ASSUME NEW i \in 1..Len(waiters'), NEW j \in 1..Len(waiters'),
                        waiters'[i] = waiters'[j]
                 PROVE  i = j
      OBVIOUS
    <3>1. i + 1 \in 1..Len(waiters) /\ j + 1 \in 1..Len(waiters) /\ waiters[i + 1] = waiters[j + 1]
      BY <1>3
    <3>2. i + 1 = j + 1
      BY <3>1 DEF IInv, Line
    <3> QED
      BY <3>2
  <2> QED
    BY <2>1, <2>2, <2>3, <1>5 DEF Line
<1>7. Books'
  <2>1. \A u \in Threads : pc'[u] \notin {"push", "take"} /\ pc[u] # "push"
    BY <1>1, <1>2, <1>5 DEF IInv, TypeOK, Inside
  <2> QED
    BY <2>1, <1>1 DEF IInv, Books
<1>8. Served' = Served + 1
  BY <1>1, <1>3 DEF IInv, TypeOK, Served
<1>9. Requests'
  <2>1. Served' \in Nat
    BY <1>8 DEF IInv, Requests
  <2>2. ASSUME NEW i \in 1..Len(waiters') PROVE arrivals'[Served' + i] = customer'[waiters'[i]]
    <3>1. i + 1 \in 1..Len(waiters) /\ Served' + i = Served + (i + 1) /\ waiters'[i] = waiters[i + 1]
      BY <1>3, <1>8 DEF IInv, Requests
    <3> QED
      BY <3>1, <1>1 DEF IInv, Requests
  <2> QED
    BY <2>1, <2>2 DEF Requests
<1>10. Order'
  <2>1. available' = 0 \/ Len(bookings') = Served'
    BY <1>1, <1>8 DEF IInv, Order
  <2>2. /\ Len(bookings') <= Len(arrivals')
        /\ \A i \in 1..Len(bookings') : bookings'[i] = arrivals'[i]
    BY <1>1 DEF IInv, Order
  <2>3. \A u \in Threads : pc'[u] \notin {"push", "take", "release"}
    BY <1>5 DEF Inside
  <2> QED
    BY <2>1, <2>2, <2>3 DEF Order
<1> QED
  BY <1>4, <1>6, <1>7, <1>9, <1>10 DEF IInv

\* Counting the answer and reporting touch neither the line nor the books.
LEMMA CountInv == ASSUME IInv, NEW t \in Threads, Count(t) PROVE IInv'
<1>1. /\ pc[t] = "count" /\ pc' = [pc EXCEPT ![t] = "idle"]
      /\ UNCHANGED <<waiters, available, bookings, customer, booked, remaining, arrivals, reported>>
  BY DEF Count, Goto, shared
<1>2. TypeOK'
  BY <1>1 DEF Count, counts, IInv, TypeOK
<1>3. Line'
  BY <1>1 DEF IInv, TypeOK, Line, Waiting, Inside
<1>4. Books' /\ Requests'
  BY <1>1 DEF IInv, TypeOK, Books, Requests, Served
<1>5. Order'
  BY <1>1 DEF IInv, TypeOK, Order, Served
<1> QED
  BY <1>2, <1>3, <1>4, <1>5 DEF IInv

\* The invariant is inductive.
LEMMA NextInv == IInv /\ [Next]_vars => IInv'
<1> SUFFICES ASSUME IInv, [Next]_vars PROVE IInv'
  OBVIOUS
<1>1. ASSUME NEW t \in Threads, Thread(t) PROVE IInv'
  BY <1>1, AskInv, AvailableInv, SoldOutInv, TakeInv, PushInv, ReleaseInv, CountInv DEF Thread
<1>2. CASE Report
  BY <1>2 DEF Report, shared, counts, IInv, TypeOK, Line, Waiting, Inside, Books, Requests,
              Order, Served
<1>3. CASE UNCHANGED vars
  BY <1>3 DEF vars, shared, counts, IInv, TypeOK, Line, Waiting, Inside, Books, Requests,
              Order, Served
<1> QED
  BY <1>1, <1>2, <1>3 DEF Next, Finished

\* The line, the books and the history hold what they are meant to hold.
THEOREM TypeCorrect == Spec => []TypeOK
<1>1. IInv => TypeOK
  BY DEF IInv
<1> QED
  BY <1>1, InitInv, NextInv, PTL DEF Spec

\* However many threads ask, no ticket is sold that is not there, and outside
\* the two updates of book_ticket the books balance.
THEOREM NeverOversold == Spec => []BooksBalance
<1>1. IInv => BooksBalance
  <2> SUFFICES ASSUME IInv PROVE BooksBalance
    OBVIOUS
  <2>1. Len(bookings) \in Nat /\ available \in Nat
    BY TicketAssumption DEF IInv, TypeOK
  <2>2. \/ Len(bookings) + available = NumTickets
        \/ Len(bookings) + available + 1 = NumTickets
    BY DEF IInv, Books
  <2> QED
    BY <2>1, <2>2, TicketAssumption DEF IInv, Books, BooksBalance
<1> QED
  BY <1>1, InitInv, NextInv, PTL DEF Spec

\* Because the queuing_mutex serves requests in their order, the tickets go to
\* the first customers to ask, in that order.
THEOREM FirstCome == Spec => []FirstComeFirstServed
<1>1. IInv => FirstComeFirstServed
  BY PrefixByIndex DEF IInv, TypeOK, Order, FirstComeFirstServed
<1> QED
  BY <1>1, InitInv, NextInv, PTL DEF Spec
=============================================================================

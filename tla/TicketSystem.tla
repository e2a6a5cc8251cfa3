---------------------------- MODULE TicketSystem ----------------------------
(***************************************************************************)
(* examples/21_queuing_mutex.cpp, example 5: customers book tickets from   *)
(* the threads of a parallel_for; a queuing_mutex, which grants the lock   *)
(* in the order of the requests, guards the tickets and the bookings.      *)
(* Each access to them inside the lock is one action.                      *)
(***************************************************************************)
EXTENDS Naturals, SequencesExt

CONSTANTS Threads,     \* the threads running the parallel_for
          Customers,   \* the iterations of the parallel_for
          NumTickets   \* what TicketSystem is constructed with

ASSUME TicketAssumption == IsFiniteSet(Customers) /\ NumTickets \in Nat

VARIABLES waiters,     \* mtx: the threads that asked for the lock, owner first
          available,   \* available_tickets
          bookings,    \* bookings
          pc,          \* where each thread is
          customer,    \* the customer each thread serves
          booked,      \* what book_ticket returns
          remaining,   \* the iterations not yet started
          successful,  \* successful
          failed,      \* failed
          arrivals,    \* history: the customers, in the order of their requests
          reported     \* main has printed the report

shared == <<available, bookings>>
counts == <<successful, failed>>
vars == <<waiters, shared, pc, customer, booked, remaining, counts, arrivals, reported>>

Init == /\ waiters = <<>>
        /\ available = NumTickets
        /\ bookings = <<>>
        /\ pc = [t \in Threads |-> "idle"]
        /\ customer \in [Threads -> Customers]
        /\ booked = [t \in Threads |-> FALSE]
        /\ remaining = Customers
        /\ successful = 0
        /\ failed = 0
        /\ arrivals = <<>>
        /\ reported = FALSE

Goto(t, from, to) == pc[t] = from /\ pc' = [pc EXCEPT ![t] = to]

\* t has been granted the lock.
Owns(t) == waiters # <<>> /\ Head(waiters) = t
-----------------------------------------------------------------------------
\* Mutant: the lock goes to whoever asked last.
JumpQueue(t) ==
  /\ Goto(t, "idle", "check")
  /\ \E c \in remaining : /\ customer' = [customer EXCEPT ![t] = c]
                          /\ remaining' = remaining \ {c}
                          /\ arrivals' = Append(arrivals, c)
  /\ waiters' = IF Len(waiters) < 2 THEN Append(waiters, t)
                ELSE <<Head(waiters), t>> \o Tail(waiters)
  /\ UNCHANGED <<shared, booked, counts, reported>>

\* A thread takes an iteration and asks for the lock.
Ask(t) ==
  /\ Goto(t, "idle", "check")
  /\ \E c \in remaining : /\ customer' = [customer EXCEPT ![t] = c]
                          /\ remaining' = remaining \ {c}
                          /\ arrivals' = Append(arrivals, c)
  /\ waiters' = Append(waiters, t)
  /\ UNCHANGED <<shared, booked, counts, reported>>

\* Mutant: the test lets the last ticket go twice.
AvailableOffByOne(t) ==
  /\ Owns(t)
  /\ available >= 0
  /\ Goto(t, "check", "take")
  /\ UNCHANGED <<waiters, shared, customer, booked, remaining, counts, arrivals, reported>>

\* available_tickets > 0.
Available(t) ==
  /\ Owns(t)
  /\ available > 0
  /\ Goto(t, "check", "take")
  /\ UNCHANGED <<waiters, shared, customer, booked, remaining, counts, arrivals, reported>>

\* Sold out: book_ticket will return false.
SoldOut(t) ==
  /\ Owns(t)
  /\ available = 0
  /\ Goto(t, "check", "release")
  /\ booked' = [booked EXCEPT ![t] = FALSE]
  /\ UNCHANGED <<waiters, shared, customer, remaining, counts, arrivals, reported>>

\* available_tickets--.
Take(t) ==
  /\ Goto(t, "take", "push")
  /\ available' = available - 1
  /\ UNCHANGED <<waiters, bookings, customer, booked, remaining, counts, arrivals, reported>>

\* bookings.push_back(customer); book_ticket will return true.
Push(t) ==
  /\ Goto(t, "push", "release")
  /\ bookings' = Append(bookings, customer[t])
  /\ booked' = [booked EXCEPT ![t] = TRUE]
  /\ UNCHANGED <<waiters, available, customer, remaining, counts, arrivals, reported>>

\* Mutant: the lock is released on the successful path only.
ReleaseIfBooked(t) ==
  /\ Goto(t, "release", "count")
  /\ waiters' = IF booked[t] THEN Tail(waiters) ELSE waiters
  /\ UNCHANGED <<shared, customer, booked, remaining, counts, arrivals, reported>>

\* The scoped_lock's destructor hands the lock to the next in line.
Release(t) ==
  /\ Goto(t, "release", "count")
  /\ waiters' = Tail(waiters)
  /\ UNCHANGED <<shared, customer, booked, remaining, counts, arrivals, reported>>

\* successful++ or failed++, both atomic.
Count(t) ==
  /\ Goto(t, "count", "idle")
  /\ IF booked[t]
     THEN successful' = successful + 1 /\ UNCHANGED failed
     ELSE failed' = failed + 1 /\ UNCHANGED successful
  /\ UNCHANGED <<waiters, shared, customer, booked, remaining, arrivals, reported>>

\* The parallel_for has returned, and main calls report().
Report ==
  /\ ~reported
  /\ remaining = {}
  /\ \A t \in Threads : pc[t] = "idle"
  /\ reported' = TRUE
  /\ UNCHANGED <<waiters, shared, pc, customer, booked, remaining, counts, arrivals>>
-----------------------------------------------------------------------------
Thread(t) == \/ Ask(t) \/ Available(t) \/ SoldOut(t) \/ Take(t) \/ Push(t)
             \/ Release(t) \/ Count(t)

\* The program stops when main has reported.
Finished == reported /\ UNCHANGED vars

Next == (\E t \in Threads : Thread(t)) \/ Report \/ Finished

Spec == Init /\ [][Next]_vars

\* Every thread that can run does run.
FairSpec == Spec /\ WF_vars(Report) /\ \A t \in Threads : WF_vars(Thread(t))
-----------------------------------------------------------------------------
Inside(t) == pc[t] \in {"take", "push", "release"}

\* Type invariant: the number of tickets stays between zero and what there was.
TypeOK == /\ waiters \in Seq(Threads)
          /\ available \in 0..NumTickets
          /\ bookings \in Seq(Customers)
          /\ pc \in [Threads -> {"idle", "check", "take", "push", "release", "count"}]
          /\ customer \in [Threads -> Customers]
          /\ booked \in [Threads -> BOOLEAN]
          /\ remaining \subseteq Customers
          /\ successful \in Nat /\ failed \in Nat
          /\ arrivals \in Seq(Customers)
          /\ reported \in BOOLEAN

\* The books balance whenever nobody is between the two updates, and tickets
\* are never oversold.
BooksBalance ==
  /\ (\A t \in Threads : pc[t] # "push") => Len(bookings) + available = NumTickets
  /\ Len(bookings) <= NumTickets

\* "FIFO ensures fair first-come-first-served": the tickets go to the customers
\* who asked first, in the order in which they asked.
FirstComeFirstServed == IsPrefix(bookings, arrivals)

\* Every customer gets an answer, and the report is printed.
Terminates == <>reported
=============================================================================

------------------------------ MODULE BookView ------------------------------
(***************************************************************************)
(* The order books as their readers meet them: every change is made under  *)
(* the write lock and counted by "version", every read takes the read lock *)
(* once.  The levels of a book are a function of the changes made to it,   *)
(* so the number of changes stands for them (module OrderBook has the      *)
(* levels themselves).  A process that dies takes its books with it;       *)
(* "life" counts the processes.                                            *)
(***************************************************************************)
EXTENDS Integers, Sequences, FiniteSets, Functions

CONSTANTS
  Symbols,     \* the configured symbols, each with a book
  MaxChanges,  \* bound on the changes of all books in one life
  MaxLives     \* bound on the processes started one after the other

ASSUME ViewAssumption ==
  IsFiniteSet(Symbols) /\ MaxChanges \in Nat /\ MaxLives \in Nat \ {0}

VARIABLES
  life,  \* the process that runs, or ran last
  book   \* its books: "changes" is version, "orders" is stats.OrdersProcessed

Book == [life : 1 .. MaxLives, changes : 0 .. MaxChanges, orders : 0 .. MaxChanges]

EmptyBook(k) == [life |-> k, changes |-> 0, orders |-> 0]

Changes == SumFunction([s \in Symbols |-> book[s].changes])

\* The end of Match: updateStats and version, under the lock of the whole call.
Match(s) ==
  /\ Changes < MaxChanges
  /\ book' = [book EXCEPT ![s].changes = @ + 1, ![s].orders = @ + 1]

\* A cancellation changes the book and counts no order.
Cancel(s) ==
  /\ Changes < MaxChanges /\ book[s].orders > 0
  /\ book' = [book EXCEPT ![s].changes = @ + 1]

\* GetSnapshot and GetStats: one read lock each.
GetSnapshot(s) == book[s]

GetStats(s) == [life |-> book[s].life, orders |-> book[s].orders]

\* The first b is not newer than the second.
NotNewer(b, c) ==
  \/ b.life < c.life
  \/ b.life = c.life /\ b.changes <= c.changes /\ b.orders <= c.orders
=============================================================================

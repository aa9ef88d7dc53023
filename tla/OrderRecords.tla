---------------------------- MODULE OrderRecords ----------------------------
(***************************************************************************)
(* What the orders table promises of the orders of a trade, of whatever    *)
(* places, cancels and fetches them: the record of an order follows the    *)
(* order through its life, never backwards and never ahead of it, until    *)
(* the trade is dropped with all its records, once and for all.            *)
(***************************************************************************)
EXTENDS Naturals

CONSTANT Orders

VARIABLES
    order,     \* the orders as the exchange has them
    record,    \* what is recorded of them
    dropped    \* the trade was deleted

rvars == <<order, record, dropped>>

Unknown == [status |-> "none", filled |-> 0]

\* v is u or comes after it: fills do not get lost, and a final order does not change.
Follows(v, u) ==
    \/ v = u
    \/ u.status = "none"
    \/ u.status = "open" /\ v.status # "none" /\ v.filled >= u.filled

\* Orders are placed, fill and become final.
Proceed == \A o \in Orders : Follows(order'[o], order[o])

RInit ==
    /\ order = [o \in Orders |-> Unknown]
    /\ record = [o \in Orders |-> Unknown]
    /\ dropped = FALSE

Exchange == Proceed /\ UNCHANGED <<record, dropped>>

\* The bot records what it knows of one order, however old that is.
Learn(o) ==
    /\ ~dropped
    /\ record' = [record EXCEPT ![o] = record'[o]]
    /\ Follows(record'[o], record[o]) /\ Follows(order[o], record'[o])
    /\ UNCHANGED <<order, dropped>>

\* Trade.delete, possibly with requests to cancel the orders.
Drop ==
    /\ ~dropped /\ dropped' = TRUE
    /\ record' = [o \in Orders |-> Unknown]
    /\ Proceed

RNext == Exchange \/ (\E o \in Orders : Learn(o)) \/ Drop

RSpec == RInit /\ [][RNext]_rvars

=============================================================================

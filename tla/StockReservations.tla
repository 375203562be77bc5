-------------------------- MODULE StockReservations --------------------------
(***************************************************************************)
(* Reservations of one item in one warehouse against its stock and against *)
(* the order lines and demands they are made for                           *)
(* (mesaerp/planningService.ts).  A creation holds an advisory lock of its *)
(* batch and one of its source from its reads to its commit; nothing locks *)
(* the stock, which postings change meanwhile (InventoryPosting).          *)
(***************************************************************************)
EXTENDS Integers, FiniteSets, Functions

CONSTANTS Reservations, Clients, Batches,
          Blank,         \* no batch named
          Sources, Limit,  \* approved order lines and demands, with their quantities
          Manual,        \* no source
          Quantities, MaxStock, Nothing

ReservationsAssumption ==
    /\ IsFiniteSet(Reservations) /\ IsFiniteSet(Batches) /\ Blank \notin Batches
    /\ Limit \in [Sources -> Nat] /\ Manual \notin Sources
    /\ Quantities \subseteq Nat /\ MaxStock \in Nat

VARIABLES stock,        \* stock[b]: what the movements of batch b add up to
          tracked,      \* the item is batch tracked
          issued,       \* history: stock has been issued
          reservation,  \* reservation[r]
          creating      \* creating[c]: the reservation client c has found available

vars == <<stock, tracked, issued, reservation, creating>>

None == [stage |-> "none"]
Row(b, q, s) == [stage |-> "active", batch |-> b, quantity |-> q, source |-> s]

Rows == [stage : {"active", "released", "cancelled"}, batch : Batches \cup (IF tracked THEN {} ELSE {Blank}),
         quantity : Quantities, source : Sources \cup {Manual}]
TypeOK ==
    /\ stock \in [Batches -> 0..MaxStock] /\ tracked \in BOOLEAN /\ issued \in BOOLEAN
    /\ reservation \in [Reservations -> {None} \cup Rows]
    /\ creating \in [Clients -> {Nothing} \cup [id : Reservations, row : Rows]]

Init ==
    /\ stock = [b \in Batches |-> 0]
    /\ tracked \in BOOLEAN
    /\ issued = FALSE
    /\ reservation = [r \in Reservations |-> None]
    /\ creating = [c \in Clients |-> Nothing]

-----------------------------------------------------------------------------
Active == {r \in Reservations : reservation[r] # None /\ reservation[r].stage = "active"}
Reserved(rs) == SumFunction([r \in rs |-> reservation[r].quantity])
OfBatch(b) == {r \in Active : b = Blank \/ reservation[r].batch = b}
OfSource(s) == {r \in Active : reservation[r].source = s}
InStock(b) == IF b = Blank THEN SumFunction(stock) ELSE stock[b]

\* What may still be promised: stock on hand less what is reserved.
Atp(b) == InStock(b) - Reserved(OfBatch(b))

Held == {c \in Clients : creating[c] # Nothing}
BatchLockFree(b) == \A c \in Held : creating[c].row.batch # b
\* Mutant of SourceLockFree: reservations of one source do not exclude each other.
SourceLockIgnored(s) == TRUE
SourceLockFree(s) == s # Manual => \A c \in Held : creating[c].row.source # s

\* Mutant of Available: reservations of the same batch are not subtracted.
AvailableGross(b, q) == q <= InStock(b)
Available(b, q) == q <= Atp(b)
WithinSource(s, q) == s # Manual => Reserved(OfSource(s)) + q <= Limit[s]

BeginReservation(c, r, b, q, s) ==
    /\ creating[c] = Nothing
    /\ reservation[r] = None /\ \A o \in Held : creating[o].id # r
    /\ tracked => b # Blank
    /\ BatchLockFree(b) /\ SourceLockFree(s)
    /\ WithinSource(s, q) /\ Available(b, q)
    /\ creating' = [creating EXCEPT ![c] = [id |-> r, row |-> Row(b, q, s)]]
    /\ UNCHANGED <<stock, tracked, issued, reservation>>

CommitReservation(c) ==
    /\ creating[c] # Nothing
    /\ reservation' = [reservation EXCEPT ![creating[c].id] = creating[c].row]
    /\ creating' = [creating EXCEPT ![c] = Nothing]
    /\ UNCHANGED <<stock, tracked, issued>>

AbortReservation(c) ==
    /\ creating[c] # Nothing
    /\ creating' = [creating EXCEPT ![c] = Nothing]
    /\ UNCHANGED <<stock, tracked, issued, reservation>>

\* The row lock and the row version make this one step.
TransitionReservation(r, to) ==
    /\ r \in Active
    /\ reservation' = [reservation EXCEPT ![r].stage = to]
    /\ UNCHANGED <<stock, tracked, issued, creating>>

\* Postings of InventoryPosting, which do not look at reservations.
Receive(b) ==
    /\ stock[b] < MaxStock
    /\ stock' = [stock EXCEPT ![b] = @ + 1]
    /\ UNCHANGED <<tracked, issued, reservation, creating>>
Issue(b) ==
    /\ stock[b] > 0
    /\ stock' = [stock EXCEPT ![b] = @ - 1]
    /\ issued' = TRUE
    /\ UNCHANGED <<tracked, reservation, creating>>

Next ==
    \/ \E c \in Clients, r \in Reservations, b \in Batches \cup {Blank}, q \in Quantities,
          s \in Sources \cup {Manual} : BeginReservation(c, r, b, q, s)
    \/ \E c \in Clients : CommitReservation(c) \/ AbortReservation(c)
    \/ \E r \in Reservations, to \in {"released", "cancelled"} : TransitionReservation(r, to)
    \/ \E b \in Batches : Receive(b) \/ Issue(b)

Spec == Init /\ [][Next]_vars

-----------------------------------------------------------------------------
\* However creations overlap, no order line or demand is reserved beyond its quantity
\* and, of a tracked item, no batch beyond the stock that was there: only a later
\* issue, which ignores reservations, can leave one uncovered.
NoOverReservation ==
    /\ \A s \in Sources : Reserved(OfSource(s)) <= Limit[s]
    /\ (tracked /\ ~issued) => \A b \in Batches : Atp(b) >= 0
=============================================================================

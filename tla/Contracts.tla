------------------------------ MODULE Contracts ------------------------------
(***************************************************************************)
(* What the legal ledger and the integration outbox promise, whatever      *)
(* carries it out.  VoucherLedger implements JournalSpec and               *)
(* IntegrationOutbox implements OutboxSpec.                                *)
(***************************************************************************)
EXTENDS Sequences

-----------------------------------------------------------------------------
(* Per voucher family a journal that only grows, one entry at a time, and  *)
(* never changes what it holds (docs/architecture/architecture.md,         *)
(* "Posted evidence is immutable").                                        *)

CONSTANTS Families, Entries
VARIABLE journal     \* journal[f]: entries of family f in the order of their numbers

JournalInit == journal = [f \in Families |-> <<>>]

Record(f, entry) == journal' = [journal EXCEPT ![f] = Append(@, entry)]

JournalNext == \E f \in Families, entry \in Entries : Record(f, entry)

JournalSpec == JournalInit /\ [][JournalNext]_journal

-----------------------------------------------------------------------------
(* An event is announced by the commit of the domain change it belongs to, *)
(* an abandoned change announces nothing, and delivery happens once and is *)
(* final (docs/adr/0003, "transactional outbox/inbox").                    *)

CONSTANT Events
VARIABLE stage      \* "none", "pending", "delivered" or "void", per event

OutboxInit == stage = [e \in Events |-> "none"]

Announce(e) == stage[e] = "none" /\ stage' = [stage EXCEPT ![e] = "pending"]

\* One failed process abandons all its open changes together.
Abandon(S) ==
    /\ \A e \in S : stage[e] = "none"
    /\ stage' = [e \in Events |-> IF e \in S THEN "void" ELSE stage[e]]

\* One worker transaction delivers a batch.
Deliver(S) ==
    /\ \A e \in S : stage[e] = "pending"
    /\ stage' = [e \in Events |-> IF e \in S THEN "delivered" ELSE stage[e]]

OutboxNext ==
    \/ \E e \in Events : Announce(e)
    \/ \E S \in SUBSET Events : Abandon(S) \/ Deliver(S)

OutboxSpec == OutboxInit /\ [][OutboxNext]_stage
=============================================================================

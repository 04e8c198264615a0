--------------------------- MODULE LeaseContract ---------------------------
(***************************************************************************)
(* What a lease backend of the automation controller promises, whatever it *)
(* is stored in: leadership periods are numbered, every grant of the lease *)
(* opens a period with a larger number than any before it, and the lease   *)
(* never passes from one holder to another without such a grant            *)
(* (services/automations/lease/__init__.py, LeaseToken and Lease).         *)
(***************************************************************************)
EXTENDS Naturals

CONSTANTS Holder,   \* controller processes that compete for the lease
          None      \* "nobody"

VARIABLES term,     \* number of the newest leadership period
          owner     \* the process it was granted to, None once given back

Init == term = 0 /\ owner = None

\* acquire() returned a token, or updated the lease although its answer was lost.
Grant == /\ owner' \in Holder
         /\ term' \in Nat
         /\ term' > term

\* release() of the newest token.
Vacate == owner' = None /\ UNCHANGED term

Next == Grant \/ Vacate

Spec == Init /\ [][Next]_<<term, owner>>
=============================================================================

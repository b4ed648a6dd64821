-------------------------- MODULE MCPrivateSessions --------------------------
(* Small instances of PrivateSessions for TLC. *)
EXTENDS PrivateSessions, TLC

CONSTANTS alice, bob, p1, p2, k1

\* Three windows of one creator: the second overlaps both others.
MCWindows == {[creator |-> "maya", start |-> 2, end |-> 4],
              [creator |-> "maya", start |-> 3, end |-> 5],
              [creator |-> "maya", start |-> 4, end |-> 6]}

Symmetry == Permutations(Fans) \cup Permutations(Payments)

OneWindow == {[creator |-> "maya", start |-> 1, end |-> 2]}
=============================================================================

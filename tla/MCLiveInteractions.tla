------------------------- MODULE MCLiveInteractions -------------------------
(* Small instances of LiveInteractions for TLC. *)
EXTENDS LiveInteractions, TLC

CONSTANTS maya, velvet, dance, p1, p2, k1, r1, r2

\* The seeded creator and her alias, with the demo items of each.
MCAlias == maya :> velvet @@ velvet :> maya
MCSeeds == maya :> <<"ACCEPTED", "PENDING">> @@ velvet :> <<"ACCEPTED", "PENDING">>
MCPrice == dance :> 2
MCStock == dance :> 1

\* Two calls under one key.
MCOf == p1 :> [creator |-> maya, offer |-> dance, key |-> k1]
        @@ p2 :> [creator |-> maya, offer |-> dance, key |-> k1]

MCOn == r1 :> maya @@ r2 :> maya

Symmetry == Permutations(Refunds)
=============================================================================

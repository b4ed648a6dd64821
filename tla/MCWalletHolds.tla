--------------------------- MODULE MCWalletHolds ---------------------------
(* A small instance of WalletHolds for TLC. *)
EXTENDS WalletHolds, TLC

CONSTANTS c1, c2, s1, h1, h2

\* Every two of the payments and holds together are more than the wallet has.
MCAmount == c1 :> 2 @@ c2 :> 3 @@ s1 :> 1 @@ h1 :> 2 @@ h2 :> 1
=============================================================================

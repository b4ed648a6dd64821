--------------------------- MODULE MCWalletLedger ---------------------------
(* Small instances of WalletLedger for TLC. *)
EXTENDS WalletLedger, TLC

CONSTANTS alice, maya, k1, k2, k3, k4

MCUsers == {alice, maya}
MCFans == {alice, maya}
MCBuyers == {alice}
MCCreators == {maya}
MCKeys == {k1, k2, k3, k4}
KeySymmetry == Permutations(MCKeys)

MCDeposits == {<<6, 3>>}
MCGrants == {<<3, 1>>, <<3, 2>>}
MCContents == [clip |-> [seller |-> maya, price |-> 6]]
MCProducts == [shirt |-> [seller |-> maya, price |-> 5, stock |-> 2]]
=============================================================================

--------------------------- MODULE MCWalletSession ---------------------------
EXTENDS WalletSession, TLC

Symmetry == Permutations(Locker)
=============================================================================

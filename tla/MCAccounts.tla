---------------------------- MODULE MCAccounts ----------------------------
EXTENDS Accounts, TLC

\* Processes and tokens only have their identity.
MCSymmetry == Permutations(Processes) \cup Permutations(Tokens)
=============================================================================

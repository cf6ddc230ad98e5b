------------------------------ MODULE MCBcache ------------------------------
EXTENDS Bcache, TLC

\* panic() does not return.
Panicked == panicked # 0 /\ UNCHANGED vars

MCSpec == Init /\ [][Next \/ Panicked]_vars

Symmetry == Permutations(Process) \cup Permutations(Block)
=============================================================================

------------------------------- MODULE MCPort -------------------------------
\* Instances of Port for TLC.
EXTENDS Port, TLC

CONSTANTS d1, h1, h2

\* One object, watched through one handle or through two.
OneHandle  == h1 :> d1
TwoHandles == (h1 :> d1) @@ (h2 :> d1)

Symmetry == Permutations(Threads) \cup Permutations(Observers) \cup Permutations(UserPackets)
=============================================================================

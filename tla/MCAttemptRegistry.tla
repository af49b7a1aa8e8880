------------------------- MODULE MCAttemptRegistry -------------------------
(***************************************************************************)
(* Model values for AttemptRegistry.  Three attempts on one key are an old *)
(* one, its replacement and a third that finds the key taken; two          *)
(* cancellers are the main thread and the connectivity thread.             *)
(***************************************************************************)
EXTENDS AttemptRegistry, TLC

CONSTANTS k1, k2, a1, a2, a3, t1, t2

TwoKeys == {k1, k2}
OneKey == {k1}
ThreeAttempts == {a1, a2, a3}
TwoAttempts == {a1, a2}
TwoCancellers == {t1, t2}

Symmetry ==
    Permutations(TwoKeys) \cup Permutations(ThreeAttempts) \cup Permutations(TwoCancellers)
=============================================================================

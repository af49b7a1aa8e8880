--------------------------- MODULE MCWifiListener ---------------------------
(***************************************************************************)
(* Model values for WifiListener.  Two listeners that exist at once are an *)
(* old one and its replacement, or two that two threads start together.    *)
(***************************************************************************)
EXTENDS WifiListener, TLC

CONSTANTS l1, l2, r1, n1, n2

TwoListeners == {l1, l2}
OneRestart == {r1}
OneNetwork == {n1}
TwoNetworks == {n1, n2}

\* Listeners, restarts and networks are interchangeable; safety runs only.
Symmetry ==
    Permutations(Listeners) \cup Permutations(Restarts) \cup Permutations(Networks)
=============================================================================

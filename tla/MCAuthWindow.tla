---------------------------- MODULE MCAuthWindow ----------------------------
(***************************************************************************)
(* Model values for AuthWindow: with two or three connections a stale      *)
(* handshake, one of the present window and one that is refused can exist  *)
(* at the same time; two phones are a trusted one and a stranger.          *)
(***************************************************************************)
EXTENDS AuthWindow, TLC

CONSTANTS c1, c2, c3, p1, p2

TwoConns == {c1, c2}
ThreeConns == {c1, c2, c3}
TwoPhones == {p1, p2}

\* Connections and phones are interchangeable; used by safety runs only.
Symmetry2 == Permutations(TwoConns) \cup Permutations(TwoPhones)
Symmetry3 == Permutations(ThreeConns) \cup Permutations(TwoPhones)
=============================================================================

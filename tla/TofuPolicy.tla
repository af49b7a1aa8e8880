----------------------------- MODULE TofuPolicy -----------------------------
(***************************************************************************)
(* What the daemon promises about the phone key it trusts (README.md,      *)
(* "Безопасность" and steps 5 and 8 of the protocol), with no network, no  *)
(* window and no process in it:                                            *)
(*                                                                         *)
(*   - a key is pinned only by a proof of possession of that key, and only *)
(*     while nothing is pinned;                                            *)
(*   - once pinned, a key stays pinned, whatever is restarted;             *)
(*   - sessions are unlocked only by a proof of the pinned key, and the    *)
(*     proof that pinned a key unlocks nothing: it is used up.             *)
(*                                                                         *)
(* AuthWindow implements this specification.                               *)
(***************************************************************************)
CONSTANTS
    Phones,     \* the phone keys there are
    NoKey       \* "no key"

VARIABLES
    pinned,     \* the key on the PC's disk, NoKey if none is readable
    proof,      \* the key whose possession was just proved and not yet used
    unlockedBy  \* the key whose proof unlocked the sessions, NoKey if locked

policyVars == <<pinned, proof, unlockedBy>>

PolicyTypeOK ==
    /\ pinned \in Phones \cup {NoKey}
    /\ proof \in Phones \cup {NoKey}
    /\ unlockedBy \in Phones \cup {NoKey}

PolicyInit ==
    /\ pinned \in Phones \cup {NoKey}
    /\ proof = NoKey
    /\ unlockedBy = NoKey

\* A phone proves possession of a key the PC could use: the pinned one, or
\* any one while nothing is pinned.
Prove(k) ==
    /\ proof = NoKey
    /\ pinned \in {NoKey, k}
    /\ proof' = k
    /\ UNCHANGED <<pinned, unlockedBy>>

\* Trust on first use.
Pin ==
    /\ proof # NoKey
    /\ pinned = NoKey
    /\ pinned' = proof
    /\ proof' = NoKey
    /\ UNCHANGED unlockedBy

Unlock ==
    /\ proof # NoKey
    /\ pinned = proof
    /\ unlockedBy' = proof
    /\ proof' = NoKey
    /\ UNCHANGED pinned

\* The proof is thrown away: the key could not be saved, the process died.
Abandon ==
    /\ proof # NoKey
    /\ proof' = NoKey
    /\ UNCHANGED <<pinned, unlockedBy>>

\* The desktop locks the sessions again, which the daemon does not control.
Lock ==
    /\ unlockedBy' = NoKey
    /\ UNCHANGED <<pinned, proof>>

PolicyNext ==
    \/ \E k \in Phones : Prove(k)
    \/ Pin
    \/ Unlock
    \/ Abandon
    \/ Lock

PolicySpec == PolicyInit /\ [][PolicyNext]_policyVars

-----------------------------------------------------------------------------
\* Sessions were only ever unlocked by the key that is pinned.
UnlockedByPinned == unlockedBy # NoKey => unlockedBy = pinned

\* A pinned key is never dropped and never replaced (README.md:55).
PinnedForever == [][pinned # NoKey => pinned' = pinned]_pinned
=============================================================================

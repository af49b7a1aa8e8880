------------------------------ MODULE KeyLease ------------------------------
(***************************************************************************)
(* What the phone's registry of attempts promises, with no threads, no     *)
(* locks and no sockets in it: a key is lent to one attempt at a time.     *)
(*                                                                         *)
(*   - a key is lent only while no attempt holds it;                       *)
(*   - an attempt holds the one key it was made for, for one stretch of    *)
(*     time: what it has given back or lost it never has again;            *)
(*   - an attempt may be made in vain, and then never holds a key.         *)
(*                                                                         *)
(* AttemptRegistry implements this specification.                          *)
(***************************************************************************)
CONSTANTS
    Keys,       \* discovery keys
    Attempts    \* attempt objects

VARIABLES
    holders,    \* key -> the attempts that may work for it
    made        \* the attempts that have been made

leaseVars == <<holders, made>>

LeaseInit ==
    /\ holders = [k \in Keys |-> {}]
    /\ made = {}

\* A new attempt is made and gets the key.
Lend(k, a) ==
    /\ holders[k] = {}
    /\ a \in Attempts \ made
    /\ holders' = [holders EXCEPT ![k] = {a}]
    /\ made' = made \cup {a}

\* The scope is cancelled: a new attempt is made that never works.
Refuse(a) ==
    /\ a \in Attempts \ made
    /\ made' = made \cup {a}
    /\ UNCHANGED holders

\* The holder is done, or its key is taken away.
Return(k) ==
    /\ holders[k] # {}
    /\ holders' = [holders EXCEPT ![k] = {}]
    /\ UNCHANGED made

LeaseNext ==
    \/ \E k \in Keys, a \in Attempts : Lend(k, a)
    \/ \E a \in Attempts : Refuse(a)
    \/ \E k \in Keys : Return(k)

LeaseSpec == LeaseInit /\ [][LeaseNext]_leaseVars
=============================================================================

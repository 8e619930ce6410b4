-------------------------- MODULE ReplicatedGraph --------------------------
(***************************************************************************)
(* What the projection promises: a replica that may lag behind its source  *)
(* only on keys it knows to be dirty, and that declares a key clean only   *)
(* when the replica shows one of the key's current facts, or no            *)
(* relationship if there is none.                                          *)
(***************************************************************************)
CONSTANTS Keys, Facts, NoFact

VARIABLES
    source,   \* the current facts of each key
    replica,  \* the fact the replica shows for each key, NoFact if none
    dirty     \* keys the replica still owes a write

rvars == <<source, replica, dirty>>

InSync(k) == \/ replica[k] \in source[k]
             \/ source[k] = {} /\ replica[k] = NoFact

Init == /\ source = [k \in Keys |-> {}]
        /\ replica = [k \in Keys |-> NoFact]
        /\ dirty \in SUBSET Keys

\* The source may change any key, which dirties it; keys may be dirtied without cause.
Change ==
    /\ source' \in [Keys -> SUBSET Facts]
    /\ dirty' \in SUBSET Keys
    /\ dirty \subseteq dirty'
    /\ \A k \in Keys : source'[k] # source[k] => k \in dirty'
    /\ UNCHANGED replica

\* A write to the replica touches dirty keys only, and cleans none.
Write ==
    /\ replica' \in [Keys -> Facts \cup {NoFact}]
    /\ \A k \in Keys : replica'[k] # replica[k] => k \in dirty
    /\ UNCHANGED <<source, dirty>>

\* Keys are declared clean only when they are.
Clean ==
    /\ dirty' \in SUBSET dirty
    /\ \A k \in dirty \ dirty' : InSync(k)
    /\ UNCHANGED <<source, replica>>

\* The replica is replaced by another that was built aside: clean keys keep their fact, and
\* the keys the new one cleans are in sync in it.
Switch ==
    /\ replica' \in [Keys -> Facts \cup {NoFact}]
    /\ \A k \in Keys : replica'[k] # replica[k] => k \in dirty
    /\ dirty' \in SUBSET dirty
    /\ \A k \in dirty \ dirty' : InSync(k)'
    /\ UNCHANGED source

Next == Change \/ Write \/ Clean \/ Switch

Spec == Init /\ [][Next]_rvars
=============================================================================

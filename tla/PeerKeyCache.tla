----------------------------- MODULE PeerKeyCache -----------------------------
(***************************************************************************)
(* What the key registry of pathweave-core promises, without saying how:   *)
(* a set of peers whose key was confirmed by a direct Noise handshake, and *)
(* a bounded set of peers whose key was only heard of through gossip.      *)
(* Gossip may push one gossiped entry out; it never touches a confirmed    *)
(* one.  KeyRegistry implements this specification.                        *)
(***************************************************************************)
EXTENDS Integers, FiniteSets

CONSTANTS
    PeerId,     \* the identities
    Bounded,    \* is there a limit at all?
    MaxSize     \* the limit, when there is one

VARIABLES
    confirmed,  \* peers known from a direct handshake
    heard       \* peers known from gossip only

cacheVars == <<confirmed, heard>>

CacheInit ==
    /\ confirmed = {}
    /\ heard = {}

(* A direct handshake with p confirms p's key, whatever was known before.  *)
Confirm(p) ==
    /\ confirmed' = confirmed \cup {p}
    /\ heard' = heard \ {p}

(* Gossip about an unknown p adds p, at the cost of at most one other      *)
(* gossiped peer, and keeps the gossiped peers within the limit.           *)
Hear(p) ==
    /\ p \notin confirmed \cup heard
    /\ \E out \in SUBSET heard :
          /\ Cardinality(out) <= 1
          /\ heard' = (heard \ out) \cup {p}
    /\ Bounded => Cardinality(heard') <= MaxSize
    /\ UNCHANGED confirmed

(* A failed use of p's key drops it.                                       *)
Forget(p) ==
    /\ confirmed' = confirmed \ {p}
    /\ heard' = heard \ {p}

CacheNext == \E p \in PeerId : Confirm(p) \/ Hear(p) \/ Forget(p)

CacheSpec == CacheInit /\ [][CacheNext]_cacheVars
=============================================================================

------------------------------ MODULE Envelope ------------------------------
(***************************************************************************)
(* What the sync engine can see of a stored record, and the compare-and-   *)
(* swap put of a store.  An envelope carries a version `_v` and is one of  *)
(* three shapes: a live body, a delete marker (`_del`) or a crypto-shred   *)
(* tombstone.  Bodies are opaque ciphertext, so a body is a member of a    *)
(* small set; markers and tombstones carry none.                           *)
(***************************************************************************)
EXTENDS Naturals

CONSTANTS
  Bodies,   \* ciphertexts an application write can seal
  NoBody,   \* the empty `_data` of a marker or a tombstone
  Nil       \* what a store answers for an absent record

Envelopes ==
  [kind : {"live"}, v : Nat, body : Bodies]
    \cup [kind : {"marker", "tombstone"}, v : Nat, body : {NoBody}]

Slots == Envelopes \cup {Nil}

Live(v, body) == [kind |-> "live", v |-> v, body |-> body]
Marker(v) == [kind |-> "marker", v |-> v, body |-> NoBody]

\* Mutant of Tombstone: an erasure that keeps the ciphertext it should shred.
TombstoneUnshredded(v) ==
  [kind |-> "tombstone", v |-> v, body |-> CHOOSE body \in Bodies : TRUE]

Tombstone(v) == [kind |-> "tombstone", v |-> v, body |-> NoBody]

IsKind(slot, kind) == slot # Nil /\ slot.kind = kind

\* The version a cache entry decoded from this slot carries; 0 is "not cached".
CachedVersion(slot) == IF IsKind(slot, "live") THEN slot.v ELSE 0

\* A compare-and-swap put is refused only when a record exists at another version.
CasAccepts(slot, expected) == slot # Nil => slot.v = expected

\* The same body (or shred) restamped at another version.
AtVersion(envelope, v) == [envelope EXCEPT !.v = v]
=============================================================================

----------------------------- MODULE CasCounter -----------------------------
(***************************************************************************)
(* What a sequence promises: one number, handed out in one atomic step per *)
(* caller.  A number may be burned (its caller never learns of it), and a  *)
(* seed moves the number up to a floor, never down.                        *)
(***************************************************************************)
EXTENDS Naturals

CONSTANTS
  Calls,   \* the calls of next and seedTo
  Seeds    \* the floors a call may seed

VARIABLES
  value,   \* the last number taken
  got      \* the number each call has returned, 0 for none

Init == value = 0 /\ got = [c \in Calls |-> 0]

Take(c) ==
  /\ got[c] = 0
  /\ value' = value + 1
  /\ got' = [got EXCEPT ![c] = value + 1]

Burn == value' = value + 1 /\ UNCHANGED got

Seed(n) == n > value /\ value' = n /\ UNCHANGED got

Next == (\E c \in Calls : Take(c)) \/ Burn \/ \E n \in Seeds : Seed(n)

Spec == Init /\ [][Next]_<<value, got>>
=============================================================================

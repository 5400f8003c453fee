---------------------------- MODULE RegisterPool ----------------------------
(***************************************************************************)
(* What the compiler needs of its register allocator: registers that       *)
(* nobody else holds, in a row when it asks for several, and never r0,     *)
(* which stays free for scratch use.                                       *)
(***************************************************************************)
EXTENDS Naturals

CONSTANT Counts  \* how many registers in a row a client may ask for

VARIABLE held    \* the registers clients hold

Init == held = {}

(* The n registers that become held were not held before.                  *)
Acquire(n) ==
  /\ held \subseteq held'
  /\ \E first \in held' \ held :
       /\ first > 0
       /\ held' \ held = first .. first + n - 1

Release == \E r \in held : held' = held \ {r}

Next == (\E n \in Counts \cup {1} : Acquire(n)) \/ Release

Spec == Init /\ [][Next]_held

=============================================================================

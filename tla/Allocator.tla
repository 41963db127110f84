----------------------------- MODULE Allocator -----------------------------
(***************************************************************************)
(* What a heap promises its callers, without a word on how it looks for    *)
(* room: the pieces of memory held do not overlap, each has room for a     *)
(* header and what was asked for, nobody else's piece moves or changes, a  *)
(* piece may be made smaller, and a request is refused only if no free     *)
(* stretch could hold it.                                                  *)
(***************************************************************************)
EXTENDS Integers, FiniteSets

CONSTANTS Size,       \* bytes of memory
          Header,     \* bytes each piece needs for itself
          Requests    \* what callers may ask for, in bytes

VARIABLE held   \* [start of a piece -> the byte after its end]

\* The bytes from a up to b are nobody's.
Unheld(a, b) == \A s \in DOMAIN held : b <= s \/ held[s] <= a

Init == held = [s \in {} |-> 0]

Allocate == \E a \in 0..Size : \E b \in a + Header .. Size :
    /\ held' = [s \in DOMAIN held \cup {a} |-> IF s = a THEN b ELSE held[s]]
    /\ \E n \in Requests : b - a >= Header + n
    /\ Unheld(a, b)

Return == \E a \in DOMAIN held : held' = [s \in DOMAIN held \ {a} |-> held[s]]

Shrink == \E a \in DOMAIN held : \E b \in a + Header .. held[a] :
    held' = [held EXCEPT ![a] = b]

Next == Allocate \/ Return \/ Shrink

Spec == Init /\ [][Next]_held
=============================================================================

------------------------------- MODULE Allocator -------------------------------
(***************************************************************************)
(* What an allocator promises its clients, whatever its lists, guard pages *)
(* and threads do: a step hands out one extent of memory, takes one back,  *)
(* or does neither; an extent that is handed out shares no byte with one   *)
(* somebody has; and memory goes back to the system only when nobody has   *)
(* an extent of it.                                                        *)
(***************************************************************************)
EXTENDS Integers

CONSTANT Places    \* pieces of memory the system may give

VARIABLES
  space,    \* the pieces the allocator holds
  granted   \* the extents clients have

Disjoint(d, e) == d.m # e.m \/ d.hi <= e.lo \/ e.hi <= d.lo

Init == space = {} /\ granted = {}

(* A piece may be obtained for nothing: a request that fails may leave one. *)
Grow ==
  /\ \E m \in Places : space' = space \cup {m}
  /\ UNCHANGED granted

Grant ==
  \E e \in granted' :
    /\ e \notin granted
    /\ granted' = granted \cup {e}
    /\ \A d \in granted : Disjoint(d, e)
    /\ space' \in {space, space \cup {e.m}}
    /\ e.m \in space'

Release ==
  \E e \in granted :
    /\ granted' = granted \ {e}
    /\ \/ UNCHANGED space
       \/ /\ \A d \in granted' : d.m # e.m
          /\ space' = space \ {e.m}

Next == Grow \/ Grant \/ Release

Spec == Init /\ [][Next]_<<space, granted>>
================================================================================

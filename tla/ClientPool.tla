------------------------------ MODULE ClientPool ------------------------------
(***************************************************************************)
(* What the slots of components/https_get promise their caller: a pool of  *)
(* resources of which each is free, in use, or gone.  A free one may be    *)
(* taken, one in use comes back.  A resource that is gone stays so: the    *)
(* code gives nobody the duty to return a slot whose task could not be     *)
(* created.                                                                *)
(***************************************************************************)
CONSTANT Resources

VARIABLES
  inUse,   \* taken and not yet given back
  gone     \* taken by somebody who will never give it back

Init ==
  /\ inUse = {}
  /\ gone = {}

Take(r) ==
  /\ r \notin inUse \cup gone
  /\ inUse' = inUse \cup {r}
  /\ UNCHANGED gone

Give(r) ==
  /\ r \in inUse
  /\ inUse' = inUse \ {r}
  /\ UNCHANGED gone

Lose(r) ==
  /\ r \notin inUse \cup gone
  /\ gone' = gone \cup {r}
  /\ UNCHANGED inUse

Next == \E r \in Resources : Take(r) \/ Give(r) \/ Lose(r)

Spec == Init /\ [][Next]_<<inUse, gone>>
=============================================================================

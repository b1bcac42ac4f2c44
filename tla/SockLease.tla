----------------------------- MODULE SockLease -----------------------------
(***************************************************************************)
(* What the reference count and the pool of src/socks_nio.c promise        *)
(* together: a struct sock is lent to one connection with its client's     *)
(* descriptor, shared with the descriptor of the origin at most once, and  *)
(* lent again only after both have come back; no descriptor is ever in two *)
(* leases.  Counts, pool and heap do not appear.                           *)
(***************************************************************************)
CONSTANTS Obj,   \* the structs
          Fd     \* the descriptors

VARIABLES lent,  \* structs that belong to a connection
          held   \* held[o]: the descriptors that struct o is lent for

vars == <<lent, held>>

TypeOK == lent \subseteq Obj /\ held \in [Obj -> SUBSET Fd]

Init == lent = {} /\ held = [o \in Obj |-> {}]

Unheld(f) == \A o \in Obj : f \notin held[o]

Lend(o, f) ==
  /\ o \notin lent
  /\ Unheld(f)
  /\ lent' = lent \cup {o}
  /\ held' = [held EXCEPT ![o] = {f}]

Share(o, f) ==
  /\ o \in lent
  /\ \E g \in Fd : held[o] = {g}
  /\ Unheld(f)
  /\ held' = [held EXCEPT ![o] = @ \cup {f}]
  /\ UNCHANGED lent

GiveBack(o, f) ==
  /\ f \in held[o]
  /\ held' = [held EXCEPT ![o] = @ \ {f}]
  /\ lent' = IF held[o] = {f} THEN lent \ {o} ELSE lent

Next == \E o \in Obj, f \in Fd : Lend(o, f) \/ Share(o, f) \/ GiveBack(o, f)

Spec == Init /\ [][Next]_vars
=============================================================================

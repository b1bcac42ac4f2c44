----------------------------- MODULE EventLoop -----------------------------
(***************************************************************************)
(* What include/selector.h promises its users, without table, descriptor   *)
(* sets, job list, mutex or signal: handlers run one at a time, a read or  *)
(* write handler only for a descriptor that is registered with that        *)
(* interest at that moment, and a notification is presented exactly once,  *)
(* to a descriptor that is registered when its turn comes.                 *)
(***************************************************************************)
EXTENDS Naturals

CONSTANTS Fd,        \* descriptors
          Interest,  \* the interests a descriptor can be registered with
          NoCall     \* no handler is running

VARIABLES
  registered,  \* descriptors with a handler
  interest,    \* what each is interested in
  posted,      \* posted[f]: notifications for f not yet presented
  running      \* the handler that runs, as <<descriptor, operation>>

vars == <<registered, interest, posted, running>>

Init ==
  /\ registered = {}
  /\ interest = [f \in Fd |-> {}]
  /\ posted = [f \in Fd |-> 0]
  /\ running = NoCall

Attach(f, i) ==
  /\ f \notin registered
  /\ registered' = registered \cup {f}
  /\ interest' = [interest EXCEPT ![f] = i]
  /\ UNCHANGED <<posted, running>>

Alter(f, i) ==
  /\ f \in registered
  /\ interest' = [interest EXCEPT ![f] = i]
  /\ UNCHANGED <<registered, posted, running>>

Detach(f) ==
  /\ f \in registered
  /\ registered' = registered \ {f}
  /\ interest' = [interest EXCEPT ![f] = {}]
  /\ UNCHANGED <<posted, running>>

Dispatch(f, op) ==
  /\ running = NoCall
  /\ f \in registered
  /\ op \in interest[f]
  /\ running' = <<f, op>>
  /\ UNCHANGED <<registered, interest, posted>>

Return ==
  /\ running # NoCall
  /\ running' = NoCall
  /\ UNCHANGED <<registered, interest, posted>>

Post(f) ==
  /\ posted' = [posted EXCEPT ![f] = @ + 1]
  /\ UNCHANGED <<registered, interest, running>>

Present(f) ==
  /\ running = NoCall
  /\ posted[f] > 0
  /\ posted' = [posted EXCEPT ![f] = @ - 1]
  /\ running' = IF f \in registered THEN <<f, "BLOCK">> ELSE NoCall
  /\ UNCHANGED <<registered, interest>>

Next ==
  \E f \in Fd :
    \/ \E i \in Interest : Attach(f, i) \/ Alter(f, i)
    \/ Detach(f)
    \/ \E op \in {"READ", "WRITE"} : Dispatch(f, op)
    \/ Return
    \/ Post(f)
    \/ Present(f)

Spec == Init /\ [][Next]_vars
=============================================================================

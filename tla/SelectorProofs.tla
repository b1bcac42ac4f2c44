--------------------------- MODULE SelectorProofs ---------------------------
(***************************************************************************)
(* Proofs about Selector: for every set of descriptors, size of the table, *)
(* number of threads and of jobs, the table, the sets for pselect and the  *)
(* list of jobs stay what the code takes them for.                         *)
(***************************************************************************)
EXTENDS Selector, WellFoundedInduction, TLAPS

(***************************************************************************)
(* Least and greatest                                                      *)
(***************************************************************************)

\* A set of numbers has a least one: what a scan in ascending order stops at.
LEMMA Smallest ==
  ASSUME NEW S \in SUBSET Nat, S # {}
  PROVE  \E m \in S : \A k \in S : m <= k
<1> DEFINE less == OpToRel(<, Nat)
<1>1. ASSUME NEW i \in Nat, NEW j \in Nat, i < j
      PROVE  <<i, j>> \in less
  BY <1>1 DEF OpToRel
<1>2. PICK m \in S : \A k \in S : ~(<<k, m>> \in less)
  <2> HIDE DEF less
  <2>1. IsWellFoundedOn(less, Nat)
    BY NatLessThanWellFounded DEF less
  <2> QED
    BY <2>1, WFMin
<1>3. ASSUME NEW k \in S
      PROVE  m <= k
  <2>1. ~(k < m)
    BY <1>1, <1>2
  <2> QED
    BY <2>1
<1> QED
  BY <1>3

\* The table grows to hold entry size as well, or as far as the platform goes.
LEMMA CapacitySuffices ==
  ASSUME NEW size \in Nat
  PROVE  /\ next_capacity(size) \in 1 .. ITEMS_MAX_SIZE + 1
         /\ next_capacity(size) > size + 1 \/ next_capacity(size) = ITEMS_MAX_SIZE + 1
<1> DEFINE fits(c) == \/ c = ITEMS_MAX_SIZE
                      \/ c > size /\ \E bits \in 0 .. c : c = 2 ^ bits
           fit == {c \in 1 .. ITEMS_MAX_SIZE : fits(c)}
           least == CHOOSE c \in fit : \A d \in fit : c <= d
<1>1. /\ fit \in SUBSET Nat
      /\ ITEMS_MAX_SIZE \in fit
      /\ \A c \in fit : c \in 1 .. ITEMS_MAX_SIZE /\ (c = ITEMS_MAX_SIZE \/ c > size)
  BY SelectorAssumption
<1>2. next_capacity(size) = 1 + least
  BY DEF next_capacity
<1>3. least \in fit
  <2> HIDE DEF fit
  <2>1. \E c \in fit : \A d \in fit : c <= d
    BY <1>1, Smallest
  <2> QED
    BY <2>1
<1> HIDE DEF fit, least
<1> QED
  BY <1>1, <1>2, <1>3, SelectorAssumption

\* items_max_fd finds the greatest of the items up to max_fd, or 0 when there is
\* none.
LEMMA GreatestFound ==
  ASSUME NEW items \in SUBSET Nat, max_fd \in Nat
  PROVE  /\ items_max_fd(items) \in items \cup {0}
         /\ items_max_fd(items) <= max_fd
         /\ \A f \in items : f <= max_fd => f <= items_max_fd(items)
<1> DEFINE found == {f \in items : f <= max_fd}
           greatest == CHOOSE f \in found : \A g \in found : g <= f
<1>1. items_max_fd(items) = IF found = {} THEN 0 ELSE greatest
  BY DEF items_max_fd
<1>2. ASSUME found # {}
      PROVE  greatest \in found /\ \A g \in found : g <= greatest
  <2> DEFINE gaps == {max_fd - f : f \in found}
  <2>1. gaps \in SUBSET Nat /\ gaps # {}
    <3>1. \A f \in found : max_fd - f \in Nat /\ max_fd - f \in gaps
      OBVIOUS
    <3>2. \E f \in found : TRUE
      BY <1>2
    <3>3. \A h \in gaps : \E f \in found : h = max_fd - f
      OBVIOUS
    <3> HIDE DEF gaps, found
    <3> QED
      BY <3>1, <3>2, <3>3
  <2>2. PICK gap \in gaps : \A h \in gaps : gap <= h
    <3> HIDE DEF gaps
    <3> QED
      BY <2>1, Smallest
  <2>3. PICK top \in found : gap = max_fd - top
    OBVIOUS
  <2>4. ASSUME NEW g \in found
        PROVE  g <= top
    <3>1. max_fd - g \in gaps
      OBVIOUS
    <3>2. max_fd - top <= max_fd - g
      BY <2>2, <2>3, <3>1
    <3> QED
      BY <3>2
  <2> QED
    BY <2>4
<1> QED
  BY <1>1, <1>2

(***************************************************************************)
(* The table                                                               *)
(***************************************************************************)

TableInv == TableTypes /\ TableExact

\* Four operations change the table.
LEMMA TableSteps ==
  ASSUME TableInv, [Next]_vars
  PROVE  \/ \E f \in Fd, i \in Interest : selector_register(f, i)
         \/ \E f \in Fd, i \in Interest : selector_set_interest(f, i)
         \/ \E f \in Fd : f \in used /\ Unregister(f)
         \/ UNCHANGED tableVars
<1>1. CASE UsesTable
  BY <1>1 DEF UsesTable, selector_unregister_fd
<1>2. CASE DestroyItem
  BY <1>2 DEF DestroyItem, Left, TableInv, TableTypes
<1>3. CASE UNCHANGED vars
  BY <1>3 DEF vars
<1>4. CASE PselectReady \/ PselectTimeout
  BY <1>4 DEF PselectReady, PselectTimeout, Reports
<1> QED
  BY <1>1, <1>2, <1>3, <1>4 DEF Next, Proceeds, NotifyBlock, Enter, handle_iteration,
     HandlerReturns, LockJobs, PresentJob, BlockReturns, UnlockJobs, DestroyJobs,
     PselectInterrupted, Stop, Spawn, AllocateJob, LinkJob, PushJob, RaiseAlarm, Ended,
     vars

\* A descriptor that the table has room for, or is grown for, is entered with its
\* interest and raises max_fd.
LEMMA RegisterKeepsTable ==
  ASSUME TableInv, NEW f \in Fd, NEW i \in Interest, selector_register(f, i)
  PROVE  TableInv'
<1>1. CASE OutOfBounds
  BY <1>1 DEF OutOfBounds, tableVars, TableInv, TableTypes, TableExact
<1>2. CASE ~OutOfBounds
  <2>1. PICK size \in IF f > fd_size THEN ensure_capacity(f) ELSE {fd_size} :
          /\ f < size
          /\ fd_size' = size
          /\ used' = used \cup {f}
          /\ interest' = [interest EXCEPT ![f] = i]
          /\ max_fd' = IF f > max_fd THEN f ELSE max_fd
          /\ items_update_fdset_for_fd(f, i)
    <3>1. PICK size \in IF f > fd_size THEN ensure_capacity(f) ELSE {fd_size} :
            IF f >= size
            THEN OutOfBounds
            ELSE /\ fd_size' = size
                 /\ used' = used \cup {f}
                 /\ interest' = [interest EXCEPT ![f] = i]
                 /\ max_fd' = IF f > max_fd THEN f ELSE max_fd
                 /\ items_update_fdset_for_fd(f, i)
      BY DEF selector_register
    <3>2. f \in Nat /\ size \in Nat
      <4>1. f \in Nat /\ fd_size \in Nat
        BY SelectorAssumption DEF TableInv, TableTypes
      <4>2. ensure_capacity(f) \subseteq Nat
        BY <4>1, CapacitySuffices, SelectorAssumption DEF ensure_capacity
      <4> QED
        BY <4>1, <4>2
    <3> QED
      BY <1>2, <3>1, <3>2
  <2>2. /\ f \in Nat
        /\ f < ITEMS_MAX_SIZE
        /\ i \in SUBSET {"READ", "WRITE"}
    BY SelectorAssumption DEF selector_register, INVALID_FD
  <2>3. size \in 1 .. ITEMS_MAX_SIZE + 1 /\ size >= fd_size
    <3>1. fd_size \in 1 .. ITEMS_MAX_SIZE + 1
      BY DEF TableInv, TableTypes
    <3> QED
      BY <2>1, <2>2, <3>1, CapacitySuffices, SelectorAssumption DEF ensure_capacity
  <2>4. TableTypes'
    BY <2>1, <2>2, <2>3, SelectorAssumption DEF TableInv, TableTypes
  <2>5. TableExact'
    BY <2>1, <2>2, SelectorAssumption
       DEF TableInv, TableTypes, TableExact, items_update_fdset_for_fd
  <2> QED
    BY <2>4, <2>5 DEF TableInv
<1> QED
  BY <1>1, <1>2

LEMMA SetInterestKeepsTable ==
  ASSUME TableInv, NEW f \in Fd, NEW i \in Interest, selector_set_interest(f, i)
  PROVE  TableInv'
  BY SelectorAssumption DEF selector_set_interest, items_update_fdset_for_fd, TableInv,
     TableTypes, TableExact

\* Without the descriptor, the greatest of the others is the greatest.
LEMMA UnregisterKeepsTable ==
  ASSUME TableInv, NEW f \in Fd, f \in used, Unregister(f)
  PROVE  TableInv'
<1>1. /\ used' = used \ {f}
      /\ interest' = [interest EXCEPT ![f] = {}]
      /\ max_fd' = items_max_fd(used \ {f})
      /\ fd_size' = fd_size
      /\ items_update_fdset_for_fd(f, {})
  BY DEF Unregister
<1>2. used \ {f} \in SUBSET Nat /\ max_fd \in Nat
  <2>1. Fd \subseteq Nat /\ ITEMS_MAX_SIZE \in Nat
    BY SelectorAssumption
  <2> QED
    BY <2>1 DEF TableInv, TableTypes
<1>3. /\ max_fd' \in (used \ {f}) \cup {0}
      /\ max_fd' <= max_fd
      /\ \A g \in used \ {f} : g <= max_fd => g <= max_fd'
  BY <1>1, <1>2, GreatestFound
<1>4. TableTypes'
  BY <1>1, <1>2, <1>3, SelectorAssumption DEF TableInv, TableTypes
<1>5. TableExact'
  BY <1>1, <1>3 DEF TableInv, TableTypes, TableExact, items_update_fdset_for_fd
<1> QED
  BY <1>4, <1>5 DEF TableInv

LEMMA StepKeepsTable ==
  ASSUME TableInv, [Next]_vars
  PROVE  TableInv'
<1>1. CASE UNCHANGED tableVars
  BY <1>1 DEF tableVars, TableInv, TableTypes, TableExact
<1> QED
  BY <1>1, TableSteps, RegisterKeepsTable, SetInterestKeepsTable, UnregisterKeepsTable

(***************************************************************************)
(* The scan and the end                                                    *)
(***************************************************************************)

\* What the scan has ahead are read and write parts of used items.
LEMMA AheadAreParts ==
  ASSUME TableInv, NEW c \in Ahead
  PROVE  /\ c \in Fd \X {"READ", "WRITE"}
         /\ c[1] \in Nat
         /\ c[1] <= n
         /\ Part(c) \in {2 * c[1], 2 * c[1] + 1}
<1>1. c[1] \in used /\ c[1] <= n
  BY DEF Ahead
<1>2. c[1] \in Nat /\ c[1] \in Fd
  BY <1>1, SelectorAssumption DEF TableInv, TableTypes
<1>3. c = <<c[1], "READ">> \/ c = <<c[1], "WRITE">>
  BY DEF Ahead
<1>4. Part(c) \in {2 * c[1], 2 * c[1] + 1}
  BY <1>2, <1>3 DEF Part
<1> QED
  BY <1>1, <1>2, <1>3, <1>4

\* The scan finds the first of them.
LEMMA FirstAhead ==
  ASSUME TableInv, Ahead # {}
  PROVE  (CHOOSE c \in Ahead : \A d \in Ahead : Part(c) <= Part(d)) \in Ahead
<1> DEFINE parts == {Part(c) : c \in Ahead}
<1>1. \A c \in Ahead : Part(c) \in Nat /\ Part(c) \in parts
  BY AheadAreParts
<1>2. \A p \in parts : \E c \in Ahead : p = Part(c)
  OBVIOUS
<1> HIDE DEF parts
<1>3. PICK p \in parts : \A q \in parts : p <= q
  <2>1. parts \in SUBSET Nat /\ parts # {}
    BY <1>1, <1>2
  <2> QED
    BY <2>1, Smallest
<1>4. \E c \in Ahead : \A d \in Ahead : Part(c) <= Part(d)
  BY <1>1, <1>2, <1>3
<1> QED
  BY <1>4

LEMMA IterateKeepsScan ==
  ASSUME TableInv, ScanTypes, handle_iteration
  PROVE  ScanTypes'
<1>1. CASE Ahead = {}
  <2>1. pc' = "notify" /\ n' = 0 /\ at' = 0 /\ moved' = FALSE /\ call' = call
    BY <1>1 DEF handle_iteration
  <2>2. n' \in 0 .. ITEMS_MAX_SIZE - 1 /\ at' \in 0 .. 2 * ITEMS_MAX_SIZE
    BY <2>1, SelectorAssumption
  <2> QED
    BY <2>1, <2>2 DEF ScanTypes
<1>2. CASE Ahead # {}
  <2> DEFINE first == CHOOSE c \in Ahead : \A d \in Ahead : Part(c) <= Part(d)
  <2>1. /\ call' = first
        /\ at' = Part(first) + 1
        /\ moved' = FALSE
        /\ UNCHANGED <<pc, n>>
    BY <1>2 DEF handle_iteration
  <2>2. first \in Ahead
    BY <1>2, FirstAhead
  <2> HIDE DEF first
  <2>3. /\ first \in Fd \X {"READ", "WRITE"}
        /\ first[1] \in Nat
        /\ first[1] <= n
        /\ Part(first) \in {2 * first[1], 2 * first[1] + 1}
    BY <2>2, AheadAreParts
  <2>4. at' \in 0 .. 2 * ITEMS_MAX_SIZE
    BY <2>1, <2>3, SelectorAssumption DEF ScanTypes
  <2> QED
    BY <2>1, <2>3, <2>4 DEF ScanTypes
<1> QED
  BY <1>1, <1>2

LEMMA StepKeepsScan ==
  ASSUME TableInv, ScanTypes, [Next]_vars
  PROVE  ScanTypes'
<1>1. ASSUME NEW f \in Fd, NEW i \in Interest, selector_register(f, i)
      PROVE  ScanTypes'
  <2>1. /\ UNCHANGED <<n, at, call>>
        /\ pc' \in {pc, "wild"}
        /\ moved' \in BOOLEAN
    BY <1>1 DEF selector_register, OutOfBounds, Untouched, ScanTypes
  <2> QED
    BY <2>1 DEF ScanTypes
<1>2. ASSUME NEW f \in Fd, NEW i \in Interest, selector_set_interest(f, i)
      PROVE  ScanTypes'
  BY <1>2 DEF selector_set_interest, Untouched, ScanTypes
<1>3. ASSUME NEW f \in Fd, selector_unregister_fd(f)
      PROVE  ScanTypes'
  BY <1>3 DEF selector_unregister_fd, Untouched, ScanTypes
<1>4. CASE handle_iteration
  BY <1>4, IterateKeepsScan
<1>5. CASE PselectReady \/ PselectTimeout
  <2>1. n' = max_fd /\ at' = 0 /\ moved' = FALSE /\ pc' = "iterate" /\ call' = call
    BY <1>5 DEF PselectReady, PselectTimeout, Reports
  <2>2. n' \in 0 .. ITEMS_MAX_SIZE - 1 /\ at' \in 0 .. 2 * ITEMS_MAX_SIZE
    BY <2>1, SelectorAssumption DEF TableInv, TableTypes
  <2> QED
    BY <2>1, <2>2 DEF ScanTypes
<1>6. CASE PresentJob
  <2>1. \/ call' = call
        \/ jfd[cursor] \in used /\ call' = <<jfd[cursor], "BLOCK">>
    BY <1>6 DEF PresentJob
  <2>2. call' \in (Fd \X {"READ", "WRITE", "BLOCK"}) \cup {NoCall}
    BY <2>1 DEF ScanTypes, TableInv, TableTypes
  <2> QED
    BY <1>6, <2>2 DEF PresentJob, ScanTypes, scanVars
<1>7. CASE Enter \/ HandlerReturns \/ LockJobs \/ BlockReturns \/ UnlockJobs
           \/ DestroyItem \/ DestroyJobs \/ PselectInterrupted \/ Stop
  BY <1>7 DEF Enter, HandlerReturns, LockJobs, BlockReturns, UnlockJobs, DestroyItem,
     DestroyJobs, PselectInterrupted, Stop, ScanTypes, scanVars
<1>8. ASSUME NEW t \in Thread, Spawn(t) \/ NotifyBlock(t)
      PROVE  ScanTypes'
  BY <1>8 DEF Spawn, NotifyBlock, AllocateJob, LinkJob, PushJob, RaiseAlarm, ScanTypes,
     scanVars
<1>9. CASE UNCHANGED vars
  BY <1>9 DEF vars, scanVars, ScanTypes
<1> QED
  BY <1>1, <1>2, <1>3, <1>4, <1>5, <1>6, <1>7, <1>8, <1>9
     DEF Next, UsesTable, Proceeds, Ended

\* Nothing happens to the table after selector_destroy, which stops only when no
\* item is left.
LEMMA StepKeepsClosed ==
  ASSUME TableInv, LoopInv, DestroyClosesAll, [Next]_vars
  PROVE  DestroyClosesAll'
<1>1. CASE DestroyJobs
  <2>1. used = {}
    BY <1>1 DEF DestroyJobs, Left, TableInv, TableTypes
  <2>2. master_r = {} /\ master_w = {}
    BY <2>1 DEF TableInv, TableExact
  <2> QED
    BY <1>1, <2>1, <2>2 DEF DestroyJobs, tableVars, DestroyClosesAll
<1>2. CASE pc' # "gone"
  BY <1>2 DEF DestroyClosesAll
<1>3. CASE ~DestroyJobs /\ pc' = "gone"
  <2>1. pc = "gone"
    BY <1>3 DEF Next, UsesTable, Proceeds, selector_register, OutOfBounds,
       selector_set_interest, selector_unregister_fd, Enter, handle_iteration,
       HandlerReturns, LockJobs, PresentJob, BlockReturns, UnlockJobs, DestroyItem,
       PselectReady, PselectTimeout, Reports, PselectInterrupted, Stop, Spawn,
       NotifyBlock, AllocateJob, LinkJob, PushJob, RaiseAlarm, Ended, vars
  <2>2. UNCHANGED tableVars
    BY <1>3, <2>1 DEF Next, UsesTable, Proceeds, selector_register,
       selector_set_interest, selector_unregister_fd, Enter, handle_iteration,
       HandlerReturns, LockJobs, PresentJob, BlockReturns, UnlockJobs, DestroyItem,
       PselectReady, PselectTimeout, Reports, PselectInterrupted, Stop, Spawn,
       NotifyBlock, AllocateJob, LinkJob, PushJob, RaiseAlarm, Ended, vars, InHandler,
       Running
  <2> QED
    BY <2>1, <2>2 DEF tableVars, DestroyClosesAll
<1> QED
  BY <1>1, <1>2, <1>3

(***************************************************************************)
(* The jobs                                                                *)
(***************************************************************************)

JobInv == JobTypes /\ LockInv /\ ListInv

\* The main thread takes the mutex, and the list with it.
LEMMA LockKeepsJobs ==
  ASSUME JobInv, LockJobs
  PROVE  JobInv'
<1>1. /\ mutex = NULL /\ mutex' = "main" /\ cursor' = head
      /\ UNCHANGED <<head, next, jfd, heap, alarm, tpc, tfd, tjob>>
  BY DEF LockJobs, listVars, threadVars
<1>2. head \in heap \cup {NULL} /\ Front = head /\ Front' = head
  BY <1>1, SelectorAssumption DEF JobInv, LockInv, Front
<1>3. JobTypes'
  BY <1>1, <1>2 DEF JobInv, JobTypes
<1>4. LockInv'
  BY <1>1, SelectorAssumption DEF JobInv, LockInv
<1>5. ListInv'
  BY <1>1, <1>2 DEF JobInv, ListInv, Pushing
<1> QED
  BY <1>3, <1>4, <1>5 DEF JobInv

\* The job that was presented is freed.  Nothing else points to it, so that no
\* pointer is left to freed memory, and the one after it has only it before it.
LEMMA NextJobKeepsJobs ==
  ASSUME JobInv, mutex = "main", cursor # NULL, NextJob,
         UNCHANGED <<head, mutex, alarm, tpc, tfd, tjob>>
  PROVE  JobInv'
<1>1. /\ cursor' = next[cursor]
      /\ heap' = heap \ {cursor}
      /\ next' = [next EXCEPT ![cursor] = NULL]
      /\ jfd' = [jfd EXCEPT ![cursor] = 0]
  BY DEF NextJob, FreeJob
<1>2. /\ cursor \in heap /\ heap \subseteq Job
      /\ next \in [Job -> heap \cup {NULL}]
      /\ tjob \in [Thread -> heap \cup {NULL}]
  BY DEF JobInv, JobTypes
<1>3. Front = cursor /\ Front' = next[cursor]
  BY <1>1 DEF Front
<1>4. \A t \in Thread : ~Pushing(t)
  BY SelectorAssumption DEF JobInv, LockInv, Pushing
<1>5. /\ \A i \in Job : next[i] # cursor
      /\ \A t \in Thread : tjob[t] # cursor
  BY <1>2, <1>3, <1>4 DEF JobInv, ListInv
<1>6. JobTypes'
  <2>1. cursor' \in heap' \cup {NULL}
    BY <1>1, <1>2, <1>5
  <2>2. next' \in [Job -> heap' \cup {NULL}]
    BY <1>1, <1>2, <1>5
  <2>3. tjob' \in [Thread -> heap' \cup {NULL}]
    BY <1>1, <1>2, <1>5
  <2> QED
    BY <1>1, <2>1, <2>2, <2>3 DEF JobInv, JobTypes
<1>7. LockInv'
  BY DEF JobInv, LockInv
<1>8. ListInv'
  <2>1. ASSUME NEW i \in Job
        PROVE  next'[i] = IF i = cursor THEN NULL ELSE next[i]
    BY <1>1, <1>2
  <2>2. \A i \in Job \ heap' : next'[i] = NULL
    BY <1>1, <2>1 DEF JobInv, ListInv
  <2>3. \A i, j \in Job : i # j /\ next'[i] # NULL => next'[i] # next'[j]
    BY <2>1 DEF JobInv, ListInv
  <2>4. \A i \in Job : next'[i] # NULL => next'[i] # Front'
    BY <1>2, <1>3, <2>1 DEF JobInv, ListInv
  <2>5. ASSUME NEW t \in Thread, tjob[t] # NULL
        PROVE  /\ tjob[t] # Front'
               /\ \A i \in Job : next'[i] # tjob[t]
               /\ \A u \in Thread \ {t} : tjob[u] # tjob[t]
               /\ next'[tjob[t]] = NULL
    <3>1. tjob[t] \in Job /\ next[tjob[t]] = NULL
      BY <1>2, <1>4, <2>5 DEF JobInv, ListInv
    <3> QED
      BY <1>2, <1>3, <2>1, <2>5, <3>1 DEF JobInv, ListInv
  <2> QED
    BY <1>4, <2>2, <2>3, <2>4, <2>5 DEF ListInv, Pushing
<1> QED
  BY <1>6, <1>7, <1>8 DEF JobInv

\* The list is empty when the mutex is released.
LEMMA UnlockKeepsJobs ==
  ASSUME JobInv, LoopInv, UnlockJobs
  PROVE  JobInv'
<1>1. /\ mutex = "main" /\ cursor = NULL /\ head' = NULL /\ mutex' = NULL
      /\ UNCHANGED <<next, jfd, heap, cursor, alarm, tpc, tfd, tjob>>
  BY DEF UnlockJobs, LoopInv, threadVars
<1>2. Front = NULL /\ Front' = NULL
  BY <1>1, SelectorAssumption DEF Front
<1>3. JobTypes'
  BY <1>1 DEF JobInv, JobTypes
<1>4. LockInv'
  BY <1>1, SelectorAssumption DEF JobInv, LockInv
<1>5. ListInv'
  BY <1>1, <1>2 DEF JobInv, ListInv, Pushing
<1> QED
  BY <1>3, <1>4, <1>5 DEF JobInv

\* malloc returns memory that no pointer leads to.
LEMMA AllocateKeepsJobs ==
  ASSUME JobInv, NEW t \in Thread, AllocateJob(t)
  PROVE  JobInv'
<1>1. /\ tpc[t] = "work"
      /\ tfd' = [tfd EXCEPT ![t] = 0]
      /\ UNCHANGED <<head, next, mutex, cursor, alarm>>
  BY DEF AllocateJob, Forget, listVars
<1>2. /\ tpc \in [Thread -> {"idle", "work", "lock", "push", "kill"}]
      /\ tjob \in [Thread -> heap \cup {NULL}]
      /\ next \in [Job -> heap \cup {NULL}]
      /\ heap \subseteq Job /\ cursor \in heap \cup {NULL}
  BY DEF JobInv, JobTypes
<1>3. /\ \A u \in Thread : mutex = u <=> tpc[u] = "push"
      /\ Front \in heap \cup {NULL} /\ Front' = Front
  BY <1>1, <1>2 DEF JobInv, LockInv, Front
<1>4. CASE tpc' = [tpc EXCEPT ![t] = "idle"] /\ UNCHANGED <<listVars, tjob>>
  <2>1. JobTypes'
    BY <1>1, <1>2, <1>4 DEF JobInv, JobTypes, listVars
  <2>2. LockInv'
    BY <1>1, <1>2, <1>4 DEF JobInv, LockInv, listVars
  <2>3. ListInv'
    BY <1>1, <1>2, <1>3, <1>4 DEF JobInv, ListInv, Pushing, listVars
  <2> QED
    BY <2>1, <2>2, <2>3 DEF JobInv
<1>5. ASSUME NEW j \in Job \ heap,
             heap' = heap \cup {j},
             jfd' = [jfd EXCEPT ![j] = tfd[t]],
             tjob' = [tjob EXCEPT ![t] = j],
             tpc' = [tpc EXCEPT ![t] = "lock"]
      PROVE  JobInv'
  <2>1. /\ j # NULL /\ next[j] = NULL /\ j # Front
        /\ \A i \in Job : next[i] # j
        /\ \A u \in Thread : tjob[u] # j
    BY <1>2, <1>3, <1>5, SelectorAssumption DEF JobInv, ListInv
  <2>2. JobTypes'
    <3>1. jfd' \in [Job -> Fd \cup {0}]
      BY <1>5 DEF JobInv, JobTypes
    <3> QED
      BY <1>1, <1>2, <1>5, <3>1 DEF JobInv, JobTypes
  <2>3. LockInv'
    BY <1>1, <1>2, <1>5, <2>1 DEF JobInv, LockInv
  <2>4. \A u \in Thread : Pushing(u)' <=> Pushing(u)
    BY <1>1, <1>2, <1>5 DEF Pushing
  <2>5. ~Pushing(t)
    BY <1>1 DEF Pushing
  <2>6. ListInv'
    <3>1. \A i \in Job \ heap' : next'[i] = NULL
      BY <1>1, <1>5 DEF JobInv, ListInv
    <3>2. \A i, k \in Job : i # k /\ next'[i] # NULL => next'[i] # next'[k]
      BY <1>1 DEF JobInv, ListInv
    <3>3. \A i \in Job : next'[i] # NULL /\ next'[i] = Front' =>
            \E u \in Thread : Pushing(u)' /\ tjob'[u] = i
      BY <1>1, <1>2, <1>3, <1>5, <2>4, <2>5 DEF JobInv, ListInv
    <3>4. ASSUME NEW u \in Thread, tjob'[u] # NULL
          PROVE  /\ tjob'[u] # Front'
                 /\ \A i \in Job : next'[i] # tjob'[u]
                 /\ \A v \in Thread \ {u} : tjob'[v] # tjob'[u]
                 /\ next'[tjob'[u]] = IF Pushing(u)' THEN Front' ELSE NULL
      BY <1>1, <1>2, <1>3, <1>5, <2>1, <2>4, <2>5, <3>4 DEF JobInv, ListInv
    <3> QED
      BY <3>1, <3>2, <3>3, <3>4 DEF ListInv
  <2> QED
    BY <2>2, <2>3, <2>6 DEF JobInv
<1> QED
  BY <1>4, <1>5 DEF AllocateJob, Goto

\* With the mutex, a thread lets its job point to the front of the list ...
LEMMA LinkKeepsJobs ==
  ASSUME JobInv, NEW t \in Thread, LinkJob(t)
  PROVE  JobInv'
<1>1. /\ tpc[t] = "lock" /\ mutex = NULL /\ mutex' = t
      /\ next' = [next EXCEPT ![tjob[t]] = head]
      /\ tpc' = [tpc EXCEPT ![t] = "push"]
      /\ UNCHANGED <<head, jfd, heap, cursor, alarm, tfd, tjob>>
  BY DEF LinkJob, Goto
<1>2. /\ tpc \in [Thread -> {"idle", "work", "lock", "push", "kill"}]
      /\ tjob \in [Thread -> heap \cup {NULL}]
      /\ next \in [Job -> heap \cup {NULL}]
      /\ heap \subseteq Job
  BY DEF JobInv, JobTypes
<1>3. /\ t # NULL /\ t # "main" /\ NULL # "main"
      /\ \A u \in Thread : u # NULL
  BY SelectorAssumption
<1>4. /\ head \in heap \cup {NULL} /\ cursor = NULL
      /\ tjob[t] # NULL /\ tjob[t] \in heap
      /\ \A u \in Thread : tpc[u] # "push"
  BY <1>1, <1>2, <1>3 DEF JobInv, LockInv
<1>5. Front = head /\ Front' = head
  BY <1>1, <1>3 DEF Front
<1>6. JobTypes'
  BY <1>1, <1>2, <1>4 DEF JobInv, JobTypes
<1>7. LockInv'
  BY <1>1, <1>2, <1>3, <1>4 DEF JobInv, LockInv
<1>8. ListInv'
  <2>1. /\ \A i \in Job : next'[i] = IF i = tjob[t] THEN head ELSE next[i]
        /\ \A u \in Thread : Pushing(u)' <=> u = t
        /\ \A u \in Thread : ~Pushing(u)
    BY <1>1, <1>2, <1>4 DEF Pushing
  <2>2. \A i \in Job : next[i] # NULL => next[i] # head
    BY <1>5, <2>1 DEF JobInv, ListInv
  <2>3. \A i \in Job \ heap' : next'[i] = NULL
    BY <1>1, <1>4, <2>1 DEF JobInv, ListInv
  <2>4. \A i, j \in Job : i # j /\ next'[i] # NULL => next'[i] # next'[j]
    BY <2>1, <2>2 DEF JobInv, ListInv
  <2>5. \A i \in Job : next'[i] # NULL /\ next'[i] = Front' =>
          \E u \in Thread : Pushing(u)' /\ tjob'[u] = i
    BY <1>1, <1>5, <2>1, <2>2
  <2>6. ASSUME NEW u \in Thread, tjob[u] # NULL
        PROVE  /\ tjob[u] # Front'
               /\ \A i \in Job : next'[i] # tjob[u]
               /\ \A v \in Thread \ {u} : tjob[v] # tjob[u]
               /\ next'[tjob[u]] = IF Pushing(u)' THEN Front' ELSE NULL
    <3>1. /\ tjob[u] \in Job
          /\ tjob[u] # head
          /\ \A i \in Job : next[i] # tjob[u]
          /\ \A v \in Thread \ {u} : tjob[v] # tjob[u]
          /\ next[tjob[u]] = NULL
      BY <1>2, <1>5, <2>1, <2>6 DEF JobInv, ListInv
    <3> QED
      BY <1>5, <2>1, <3>1
  <2> QED
    BY <1>1, <2>3, <2>4, <2>5, <2>6 DEF ListInv
<1> QED
  BY <1>6, <1>7, <1>8 DEF JobInv

\* ... and becomes the front.
LEMMA PushKeepsJobs ==
  ASSUME JobInv, NEW t \in Thread, PushJob(t)
  PROVE  JobInv'
<1>1. /\ tpc[t] = "push"
      /\ head' = tjob[t]
      /\ mutex' = NULL
      /\ tjob' = [tjob EXCEPT ![t] = NULL]
      /\ tpc' = [tpc EXCEPT ![t] = "kill"]
      /\ UNCHANGED <<next, jfd, heap, cursor, alarm, tfd>>
  BY DEF PushJob, Goto
<1>2. /\ tpc \in [Thread -> {"idle", "work", "lock", "push", "kill"}]
      /\ tjob \in [Thread -> heap \cup {NULL}]
      /\ next \in [Job -> heap \cup {NULL}]
      /\ heap \subseteq Job
  BY DEF JobInv, JobTypes
<1>3. /\ t # NULL /\ t # "main" /\ NULL # "main"
      /\ \A u \in Thread : u # NULL
  BY SelectorAssumption
<1>4. /\ mutex = t /\ cursor = NULL
      /\ tjob[t] # NULL /\ tjob[t] \in heap
      /\ \A u \in Thread : tpc[u] = "push" <=> u = t
  BY <1>1, <1>2, <1>3 DEF JobInv, LockInv
<1>5. Front = head /\ Front' = tjob[t]
  BY <1>1, <1>3, <1>4 DEF Front
<1>6. JobTypes'
  BY <1>1, <1>2, <1>4 DEF JobInv, JobTypes
<1>7. LockInv'
  BY <1>1, <1>2, <1>3, <1>4 DEF JobInv, LockInv
<1>8. ListInv'
  <2>1. /\ \A u \in Thread : ~Pushing(u)'
        /\ \A u \in Thread : Pushing(u) <=> u = t
        /\ \A u \in Thread : tjob'[u] = IF u = t THEN NULL ELSE tjob[u]
    BY <1>1, <1>2, <1>4 DEF Pushing
  <2>2. \A i \in Job : next[i] # tjob[t]
    BY <1>4 DEF JobInv, ListInv
  <2>3. ASSUME NEW u \in Thread, tjob'[u] # NULL
        PROVE  /\ tjob'[u] # Front'
               /\ \A i \in Job : next'[i] # tjob'[u]
               /\ \A v \in Thread \ {u} : tjob'[v] # tjob'[u]
               /\ next'[tjob'[u]] = NULL
    <3>1. u # t /\ tjob'[u] = tjob[u]
      BY <2>1, <2>3
    <3> QED
      BY <1>1, <1>5, <2>1, <2>3, <3>1 DEF JobInv, ListInv
  <2> QED
    BY <1>1, <1>5, <2>1, <2>2, <2>3 DEF JobInv, ListInv
<1> QED
  BY <1>6, <1>7, <1>8 DEF JobInv

\* What the other steps do to the jobs is nothing.
LEMMA OtherStepsKeepJobs ==
  ASSUME JobInv, UNCHANGED <<listVars, mutex, cursor, tpc, tjob>>,
         alarm' \in BOOLEAN, tfd' \in [Thread -> Fd \cup {0}]
  PROVE  JobInv'
<1>1. JobTypes'
  BY DEF JobInv, JobTypes, listVars
<1>2. LockInv'
  BY DEF JobInv, LockInv, listVars
<1>3. ListInv'
  BY DEF JobInv, ListInv, Front, Pushing, listVars
<1> QED
  BY <1>1, <1>2, <1>3 DEF JobInv

LEMMA RaiseKeepsJobs ==
  ASSUME JobInv, NEW t \in Thread, RaiseAlarm(t)
  PROVE  JobInv'
<1>1. /\ tpc[t] = "kill"
      /\ tpc' = [tpc EXCEPT ![t] = "idle"]
      /\ alarm' = TRUE
      /\ UNCHANGED <<head, next, jfd, heap, mutex, cursor, tfd, tjob>>
  BY DEF RaiseAlarm, Goto, listVars
<1>2. tpc \in [Thread -> {"idle", "work", "lock", "push", "kill"}]
  BY DEF JobInv, JobTypes
<1>3. JobTypes'
  BY <1>1 DEF JobInv, JobTypes
<1>4. LockInv'
  BY <1>1, <1>2 DEF JobInv, LockInv
<1>5. \A u \in Thread : Pushing(u)' <=> Pushing(u)
  BY <1>1, <1>2 DEF Pushing
<1>6. ListInv'
  BY <1>1, <1>5 DEF JobInv, ListInv, Front
<1> QED
  BY <1>3, <1>4, <1>6 DEF JobInv

LEMMA SpawnKeepsJobs ==
  ASSUME JobInv, TableInv, NEW t \in Thread, Spawn(t)
  PROVE  JobInv'
<1>1. /\ tpc[t] = "idle"
      /\ tpc' = [tpc EXCEPT ![t] = "work"]
      /\ UNCHANGED <<head, next, jfd, heap, mutex, cursor, alarm, tjob>>
  BY DEF Spawn, listVars
<1>2. PICK f \in used : tfd' = [tfd EXCEPT ![t] = f]
  BY DEF Spawn
<1>3. /\ tpc \in [Thread -> {"idle", "work", "lock", "push", "kill"}]
      /\ f \in Fd
  BY DEF JobInv, JobTypes, TableInv, TableTypes
<1>4. JobTypes'
  BY <1>1, <1>2, <1>3 DEF JobInv, JobTypes
<1>5. LockInv'
  BY <1>1, <1>3 DEF JobInv, LockInv
<1>6. \A u \in Thread : Pushing(u)' <=> Pushing(u)
  BY <1>1, <1>3 DEF Pushing
<1>7. ListInv'
  BY <1>1, <1>6 DEF JobInv, ListInv, Front
<1> QED
  BY <1>4, <1>5, <1>7 DEF JobInv

LEMMA StepKeepsJobs ==
  ASSUME JobInv, TableInv, LoopInv, [Next]_vars
  PROVE  JobInv'
<1>1. CASE LockJobs
  BY <1>1, LockKeepsJobs
<1>2. CASE PresentJob
  <2>1. CASE jfd[cursor] \in used
    <3>1. UNCHANGED <<listVars, mutex, cursor, alarm, threadVars>>
      BY <1>2, <2>1 DEF PresentJob
    <3> QED
      BY <3>1, OtherStepsKeepJobs DEF JobInv, JobTypes, threadVars
  <2>2. CASE jfd[cursor] \notin used
    BY <1>2, <2>2, NextJobKeepsJobs DEF PresentJob, LoopInv, threadVars
  <2> QED
    BY <2>1, <2>2
<1>3. CASE BlockReturns
  BY <1>3, NextJobKeepsJobs DEF BlockReturns, InHandler, LoopInv, threadVars
<1>4. CASE UnlockJobs
  BY <1>4, UnlockKeepsJobs
<1>5. ASSUME NEW t \in Thread, Spawn(t)
      PROVE  JobInv'
  BY <1>5, SpawnKeepsJobs
<1>6. ASSUME NEW t \in Thread, NotifyBlock(t)
      PROVE  JobInv'
  BY <1>6, AllocateKeepsJobs, LinkKeepsJobs, PushKeepsJobs, RaiseKeepsJobs
     DEF NotifyBlock
<1>7. CASE PselectInterrupted
  <2>1. alarm' = FALSE /\ UNCHANGED <<listVars, mutex, cursor, threadVars>>
    BY <1>7 DEF PselectInterrupted
  <2> QED
    BY <2>1, OtherStepsKeepJobs DEF JobInv, JobTypes, threadVars
<1>8. CASE UNCHANGED <<listVars, mutex, cursor, alarm, threadVars>>
  BY <1>8, OtherStepsKeepJobs DEF JobInv, JobTypes, threadVars
<1>9. CASE UsesTable
  <2>1. UNCHANGED <<listVars, mutex, cursor, alarm, threadVars>>
    BY <1>9 DEF UsesTable, selector_register, selector_set_interest,
       selector_unregister_fd, Untouched
  <2> QED
    BY <1>8, <2>1
<1>10. CASE PselectReady \/ PselectTimeout
  <2>1. UNCHANGED <<listVars, mutex, cursor, alarm, threadVars>>
    BY <1>10 DEF PselectReady, PselectTimeout, Reports
  <2> QED
    BY <1>8, <2>1
<1>11. CASE \/ Enter \/ handle_iteration \/ HandlerReturns \/ DestroyItem
            \/ DestroyJobs \/ Stop \/ UNCHANGED vars
  <2>1. UNCHANGED <<listVars, mutex, cursor, alarm, threadVars>>
    BY <1>11 DEF Enter, handle_iteration, HandlerReturns, DestroyItem, DestroyJobs,
       Stop, vars
  <2> QED
    BY <1>8, <2>1
<1> QED
  BY <1>1, <1>2, <1>3, <1>4, <1>5, <1>6, <1>7, <1>9, <1>10, <1>11 DEF Next, Proceeds,
     Ended

\* Who waits for the mutex does not disturb who holds it.
LEMMA StepKeepsLoop ==
  ASSUME LoopInv, LockInv, [Next]_vars
  PROVE  LoopInv'
<1>1. ASSUME NEW f \in Fd, NEW i \in Interest, selector_register(f, i)
      PROVE  LoopInv'
  <2>1. pc' \in {pc, "wild"} /\ UNCHANGED <<mutex, cursor, call>>
    BY <1>1 DEF selector_register, OutOfBounds, Untouched
  <2> QED
    BY <2>1 DEF LoopInv
<1>2. CASE UNCHANGED <<pc, mutex, cursor, call>>
  BY <1>2 DEF LoopInv
<1>3. ASSUME NEW f \in Fd,
             (\E i \in Interest : selector_set_interest(f, i)) \/ selector_unregister_fd(f)
      PROVE  LoopInv'
  BY <1>2, <1>3 DEF selector_set_interest, selector_unregister_fd, Untouched
<1>4. CASE Enter \/ PselectInterrupted \/ Stop \/ DestroyJobs
  BY <1>4 DEF Enter, PselectInterrupted, Stop, DestroyJobs, LoopInv
<1>5. CASE PselectReady \/ PselectTimeout
  BY <1>5 DEF PselectReady, PselectTimeout, Reports, LoopInv
<1>6. CASE handle_iteration
  <2>1. /\ pc = "iterate" /\ UNCHANGED <<mutex, cursor>>
        /\ \/ pc' = "notify" /\ call' = NoCall
           \/ pc' = "iterate"
    BY <1>6 DEF handle_iteration
  <2> QED
    BY <2>1 DEF LoopInv
<1>7. CASE HandlerReturns
  BY <1>7 DEF HandlerReturns, LoopInv
<1>8. CASE LockJobs
  BY <1>8, SelectorAssumption DEF LockJobs, LoopInv
<1>9. CASE PresentJob
  <2>1. /\ pc = "drain" /\ cursor # NULL /\ UNCHANGED <<pc, mutex>>
        /\ \/ UNCHANGED cursor
           \/ UNCHANGED call /\ call = NoCall
    BY <1>9 DEF PresentJob
  <2> QED
    BY <2>1 DEF LoopInv
<1>10. CASE BlockReturns
  BY <1>10 DEF BlockReturns, LoopInv
<1>11. CASE UnlockJobs
  BY <1>11, SelectorAssumption DEF UnlockJobs, LoopInv
<1>12. CASE DestroyItem
  BY <1>2, <1>12 DEF DestroyItem
<1>13. ASSUME NEW t \in Thread, Spawn(t) \/ AllocateJob(t) \/ RaiseAlarm(t)
       PROVE  LoopInv'
  BY <1>2, <1>13 DEF Spawn, AllocateJob, RaiseAlarm
<1>14. ASSUME NEW t \in Thread, LinkJob(t)
       PROVE  LoopInv'
  BY <1>14, SelectorAssumption DEF LinkJob, LoopInv
<1>15. ASSUME NEW t \in Thread, PushJob(t)
       PROVE  LoopInv'
  BY <1>15, SelectorAssumption DEF PushJob, LoopInv, LockInv
<1>16. CASE UNCHANGED vars
  BY <1>2, <1>16 DEF vars
<1> QED
  BY <1>1, <1>3, <1>4, <1>5, <1>6, <1>7, <1>8, <1>9, <1>10, <1>11, <1>12, <1>13, <1>14,
     <1>15, <1>16 DEF Next, UsesTable, Proceeds, NotifyBlock, Ended

(***************************************************************************)
(* Theorems                                                                *)
(***************************************************************************)

LEMMA InitEstablishes ==
  ASSUME Init
  PROVE  IInv
<1>1. fd_size \in 1 .. ITEMS_MAX_SIZE + 1
  <2>1. PICK size \in Initial : fd_size = next_capacity(size)
    BY DEF Init
  <2>2. size \in Nat
    BY <2>1, SelectorAssumption
  <2> QED
    BY <2>1, <2>2, CapacitySuffices
<1>2. TableTypes
  BY <1>1, SelectorAssumption DEF Init, TableTypes
<1>3. ScanTypes
  <2>1. n \in 0 .. ITEMS_MAX_SIZE - 1 /\ at \in 0 .. 2 * ITEMS_MAX_SIZE
    BY SelectorAssumption DEF Init
  <2> QED
    BY <2>1 DEF Init, ScanTypes
<1>4. JobTypes
  BY DEF Init, JobTypes
<1>5. TableExact /\ DestroyClosesAll
  BY DEF Init, TableExact, DestroyClosesAll
<1>6. LoopInv /\ LockInv
  BY SelectorAssumption DEF Init, LoopInv, LockInv
<1>7. ListInv
  BY DEF Init, ListInv, Pushing
<1> QED
  BY <1>2, <1>3, <1>4, <1>5, <1>6, <1>7 DEF IInv, TypeOK

\* The loop's, the handlers' and the threads' steps keep the table, the sets and the
\* list of jobs what the others rely on.
THEOREM Invariance == Spec => []IInv
<1>1. Init => IInv
  BY InitEstablishes
<1>2. IInv /\ [Next]_vars => IInv'
  <2> SUFFICES ASSUME IInv, [Next]_vars
               PROVE  IInv'
    OBVIOUS
  <2>1. TableInv /\ JobInv /\ ScanTypes /\ LoopInv /\ LockInv /\ DestroyClosesAll
    BY DEF IInv, TypeOK, TableInv, JobInv
  <2>2. TableInv' /\ ScanTypes' /\ DestroyClosesAll'
    BY <2>1, StepKeepsTable, StepKeepsScan, StepKeepsClosed
  <2>3. JobInv' /\ LoopInv'
    BY <2>1, StepKeepsJobs, StepKeepsLoop
  <2> QED
    BY <2>2, <2>3 DEF IInv, TypeOK, TableInv, JobInv
<1> QED
  BY <1>1, <1>2, PTL DEF Spec

\* The table, the scan and the pointers of the job list have their types: an index
\* is inside the table, and a pointer leads to a job that is allocated.
THEOREM TypeCorrect == Spec => []TypeOK
<1>1. IInv => TypeOK
  BY DEF IInv
<1> QED
  BY <1>1, Invariance, PTL

\* max_fd and the sets given to pselect are those of the registered descriptors.
THEOREM TableIsExact == Spec => []TableExact
<1>1. IInv => TableExact
  BY DEF IInv
<1> QED
  BY <1>1, Invariance, PTL

\* selector_destroy unregisters every descriptor, although each time it does the
\* bound of what is left to scan may go down.
THEOREM DestructionCloses == Spec => []DestroyClosesAll
<1>1. IInv => DestroyClosesAll
  BY DEF IInv
<1> QED
  BY <1>1, Invariance, PTL
=============================================================================

----------------------------- MODULE Selector ------------------------------
(***************************************************************************)
(* The I/O multiplexer of src/selector.c: the item table and how it grows, *)
(* the descriptor sets for pselect, the scan that calls handlers which     *)
(* change the table under it, and the list of finished blocking jobs that  *)
(* other threads push under a mutex and announce with a signal.            *)
(*                                                                         *)
(* Two kinds of actors take steps: the main thread (pc: the loop of        *)
(* main.c, the scan, the handlers it calls, selector_destroy) and the      *)
(* threads that handlers start.  Which descriptors are ready, what a       *)
(* handler does and when the loop ends is left to chance.  Proxy uses this *)
(* module's table with sessions in it; here are the parts Proxy abstracts. *)
(*                                                                         *)
(* A definition X_y next to X is X with a defect; nothing uses it but the  *)
(* experiments that show which property would notice.                      *)
(***************************************************************************)
EXTENDS Integers, FiniteSets

CONSTANTS
  Fd,              \* descriptors the kernel hands out
  ITEMS_MAX_SIZE,  \* FD_SETSIZE: descriptors from here on are refused
  Initial,         \* arguments selector_new is called with
  Interest,        \* interests handlers ask for: sets of READ and WRITE
  Thread,          \* threads that run blocking jobs (bound)
  Job,             \* addresses malloc can return for a job (bound)
  NULL,            \* the null pointer
  NoCall           \* no handler is running

ASSUME SelectorAssumption ==
  /\ Fd \subseteq Nat
  /\ ITEMS_MAX_SIZE \in Nat \ {0}
  /\ Initial \subseteq 0 .. ITEMS_MAX_SIZE
  /\ Interest \subseteq SUBSET {"READ", "WRITE"}
  /\ IsFiniteSet(Job)
  /\ NULL \notin Job
  /\ NULL # "main"
  /\ Thread \cap {"main", NULL} = {}
  /\ NoCall \notin Fd \X {"READ", "WRITE", "BLOCK"}

VARIABLES
  \* struct fdselector: the item table
  fd_size,   \* entries in fds
  used,      \* entries whose fd is not FD_UNUSED
  interest,  \* item->interest
  max_fd,
  master_r,
  master_w,
  \* pselect and the scan of its result
  slave_r,
  slave_w,
  n,         \* handle_iteration's copy of max_fd
  at,        \* the next read or write part of the scan, in its order
  moved,     \* realloc ran while a read handler was on the stack
  \* jobs
  head,      \* resolution_jobs
  next,      \* job->next
  jfd,       \* job->fd
  heap,      \* jobs that are allocated
  mutex,     \* who holds resolution_mutex, or NULL
  cursor,    \* the job handle_block_notifications is at
  alarm,     \* the signal is pending at the main thread
  \* threads
  tpc,
  tfd,       \* the descriptor the thread works for
  tjob,      \* the job it allocated
  \* main thread
  pc,
  call       \* the handler that runs, as <<descriptor, operation>>

tableVars  == <<fd_size, used, interest, max_fd, master_r, master_w>>
scanVars   == <<slave_r, slave_w, n, at, moved>>
listVars   == <<head, next, jfd, heap>>
threadVars == <<tpc, tfd, tjob>>
vars == <<tableVars, scanVars, listVars, mutex, cursor, alarm, threadVars, pc,
          call>>

(***************************************************************************)
(* The size of the table                                                   *)
(***************************************************************************)

\* The least power of two above size, unless the platform's limit is smaller, and
\* one more entry.
next_capacity(size) ==
  LET fit == {c \in 1 .. ITEMS_MAX_SIZE :
                c = ITEMS_MAX_SIZE \/ (c > size /\ \E bits \in 0 .. c : c = 2 ^ bits)}
  IN 1 + CHOOSE c \in fit : \A d \in fit : c <= d

\* The sizes the table may have after ensure_capacity(size) succeeded: none if
\* the platform cannot have so many, and none if realloc fails.
ensure_capacity(size) ==
  IF size < fd_size THEN {fd_size}
  ELSE {c \in {next_capacity(size)} : size <= ITEMS_MAX_SIZE}

INVALID_FD_over(f) == f > ITEMS_MAX_SIZE
INVALID_FD(f) == f >= ITEMS_MAX_SIZE

(***************************************************************************)
(* Registration                                                            *)
(***************************************************************************)

items_max_fd_short(items) ==
  LET found == {f \in items : f < max_fd} IN
  IF found = {} THEN 0 ELSE CHOOSE f \in found : \A g \in found : g <= f

items_max_fd(items) ==
  LET found == {f \in items : f <= max_fd} IN
  IF found = {} THEN 0 ELSE CHOOSE f \in found : \A g \in found : g <= f

\* The descriptor's bits in both prototype sets follow its interest.
items_update_fdset_for_fd_set(f, i) ==
  /\ master_r' = master_r \cup {g \in {f} : "READ" \in i}
  /\ master_w' = master_w \cup {g \in {f} : "WRITE" \in i}

items_update_fdset_for_fd(f, i) ==
  /\ master_r' = (master_r \ {f}) \cup {g \in {f} : "READ" \in i}
  /\ master_w' = (master_w \ {f}) \cup {g \in {f} : "WRITE" \in i}

\* A table operation runs in a handler; main.c also registers before its loop.
Running == pc \notin {"gone", "wild"}
InHandler == Running /\ call # NoCall
Untouched == UNCHANGED <<slave_r, slave_w, n, at, listVars, mutex, cursor, alarm,
                         threadVars, call>>

\* fds + f lies behind the table: what is there is not an item.
OutOfBounds ==
  /\ pc' = "wild"
  /\ UNCHANGED <<tableVars, moved>>

\* Room is asked for only when f is above the number of entries, so that the
\* index just behind the last entry passes.  The kernel does not hand out a
\* descriptor that is registered, nor the one the running handler is called for.
selector_register(f, i) ==
  /\ pc = "setup" \/ (InHandler /\ f # call[1])
  /\ f \notin used
  /\ ~INVALID_FD(f)
  /\ \E size \in IF f > fd_size THEN ensure_capacity(f) ELSE {fd_size} :
       IF f >= size
       THEN OutOfBounds
       ELSE /\ fd_size' = size
            /\ moved' = (moved \/ (InHandler /\ size # fd_size))
            /\ used' = used \cup {f}
            /\ interest' = [interest EXCEPT ![f] = i]
            /\ max_fd' = IF f > max_fd THEN f ELSE max_fd
            /\ items_update_fdset_for_fd(f, i)
            /\ UNCHANGED pc
  /\ Untouched

\* Without handle_close, which does not touch the selector.
Unregister(f) ==
  /\ items_update_fdset_for_fd(f, {})
  /\ used' = used \ {f}
  /\ interest' = [interest EXCEPT ![f] = {}]
  /\ max_fd' = items_max_fd(used \ {f})
  /\ UNCHANGED fd_size

selector_unregister_fd(f) ==
  /\ InHandler
  /\ f \in used
  /\ Unregister(f)
  /\ Untouched
  /\ UNCHANGED <<pc, moved>>

selector_set_interest(f, i) ==
  /\ InHandler
  /\ f \in used
  /\ interest' = [interest EXCEPT ![f] = i]
  /\ items_update_fdset_for_fd(f, i)
  /\ Untouched
  /\ UNCHANGED <<fd_size, used, max_fd, pc, moved>>

(***************************************************************************)
(* selector_select                                                         *)
(***************************************************************************)

\* The parts of the scan in its order: the read part of an item, then its
\* write part.
Part(c) == 2 * c[1] + (IF c[2] = "WRITE" THEN 1 ELSE 0)

Enter ==
  /\ pc \in {"setup", "select"}
  /\ pc' = "pselect"
  /\ UNCHANGED <<tableVars, scanVars, listVars, mutex, cursor, alarm, threadVars,
                 call>>

\* pselect looks at the descriptors up to max_fd and reports those, among the
\* ones of the two sets, that are ready: any of them may be.
Reports(rs, ws) ==
  /\ pc = "pselect"
  /\ slave_r' = rs
  /\ slave_w' = ws
  /\ n' = max_fd
  /\ at' = 0
  /\ moved' = FALSE
  /\ pc' = "iterate"
  /\ UNCHANGED <<tableVars, listVars, mutex, cursor, alarm, threadVars, call>>

Watched(master) == {f \in master : f <= max_fd}

PselectReady ==
  \E rs \in SUBSET Watched(master_r), ws \in SUBSET Watched(master_w) :
    rs \cup ws # {} /\ Reports(rs, ws)

\* The timeout, after which the empty result is scanned as well.
PselectTimeout == Reports({}, {})

\* A pending signal ends the wait (its handler has run): only pselect unblocks
\* it.  The scan is skipped.
PselectInterrupted ==
  /\ pc = "pselect"
  /\ alarm
  /\ alarm' = FALSE
  /\ pc' = "notify"
  /\ UNCHANGED <<tableVars, scanVars, listVars, mutex, cursor, threadVars, call>>

\* Another failure, or the end of main.c's loop: main.c destroys the selector.
Stop ==
  /\ pc \in {"setup", "select", "pselect"}
  /\ pc' = "destroy"
  /\ UNCHANGED <<tableVars, scanVars, listVars, mutex, cursor, alarm, threadVars,
                 call>>

\* handle_iteration up to the next handler to call: the item is used, the
\* result has the descriptor, and its interest is still there.
Ahead_stale ==
  {c \in {<<f, "READ">> : f \in slave_r} \cup {<<f, "WRITE">> : f \in slave_w} :
     /\ c[1] <= n
     /\ Part(c) >= at
     /\ c[1] \in used}

Ahead ==
  {c \in {<<f, "READ">> : f \in slave_r} \cup {<<f, "WRITE">> : f \in slave_w} :
     /\ c[1] <= n
     /\ Part(c) >= at
     /\ c[1] \in used
     /\ c[2] \in interest[c[1]]}

handle_iteration ==
  /\ pc = "iterate"
  /\ call = NoCall
  /\ IF Ahead = {}
     THEN /\ pc' = "notify"
          /\ slave_r' = {} /\ slave_w' = {} /\ n' = 0 /\ at' = 0
          /\ moved' = FALSE
          /\ UNCHANGED call
     ELSE LET first == CHOOSE c \in Ahead : \A d \in Ahead : Part(c) <= Part(d) IN
          /\ call' = first
          /\ at' = Part(first) + 1
          /\ moved' = FALSE
          /\ UNCHANGED <<pc, slave_r, slave_w, n>>
  /\ UNCHANGED <<tableVars, listVars, mutex, cursor, alarm, threadVars>>

\* A read or write handler returns.  The write part of the same item goes
\* through the pointer taken before the read part.
HandlerReturns ==
  /\ pc = "iterate"
  /\ InHandler
  /\ call' = NoCall
  /\ pc' = IF moved /\ call[2] = "READ" /\ call[1] \in slave_w THEN "wild" ELSE pc
  /\ UNCHANGED <<tableVars, scanVars, listVars, mutex, cursor, alarm, threadVars>>

(***************************************************************************)
(* handle_block_notifications                                              *)
(***************************************************************************)

LockJobs ==
  /\ pc = "notify"
  /\ mutex = NULL
  /\ mutex' = "main"
  /\ cursor' = head
  /\ pc' = "drain"
  /\ UNCHANGED <<tableVars, scanVars, listVars, alarm, threadVars, call>>

\* The address is free for malloc again; what it held is of no interest.
FreeJob(j) ==
  /\ heap' = heap \ {j}
  /\ next' = [next EXCEPT ![j] = NULL]
  /\ jfd' = [jfd EXCEPT ![j] = 0]

NextJob ==
  /\ cursor' = next[cursor]
  /\ FreeJob(cursor)

\* One round of the loop: the handler of a used item is called, and the job is
\* freed when it returns.
PresentJob ==
  /\ pc = "drain"
  /\ call = NoCall
  /\ cursor # NULL
  /\ IF jfd[cursor] \in used
     THEN /\ call' = <<jfd[cursor], "BLOCK">>
          /\ UNCHANGED <<cursor, listVars>>
     ELSE /\ NextJob
          /\ UNCHANGED <<call, head>>
  /\ UNCHANGED <<tableVars, scanVars, mutex, alarm, threadVars, pc>>

BlockReturns ==
  /\ pc = "drain"
  /\ InHandler
  /\ call' = NoCall
  /\ NextJob
  /\ UNCHANGED <<tableVars, scanVars, head, mutex, alarm, threadVars, pc>>

UnlockJobs_listed ==
  /\ pc = "drain"
  /\ call = NoCall
  /\ cursor = NULL
  /\ mutex' = NULL
  /\ pc' = "select"
  /\ UNCHANGED <<tableVars, scanVars, listVars, cursor, alarm, threadVars, call>>

\* The list is emptied before the mutex is released.
UnlockJobs ==
  /\ pc = "drain"
  /\ call = NoCall
  /\ cursor = NULL
  /\ head' = NULL
  /\ mutex' = NULL
  /\ pc' = "select"
  /\ UNCHANGED <<tableVars, scanVars, next, jfd, heap, cursor, alarm, threadVars,
                 call>>

(***************************************************************************)
(* The threads                                                             *)
(***************************************************************************)

\* dns_resolution: a write handler hands a blocking job for its own descriptor to a
\* thread.
Spawn(t) ==
  /\ InHandler
  /\ call[2] = "WRITE"
  /\ call[1] \in used
  /\ tpc[t] = "idle"
  /\ tpc' = [tpc EXCEPT ![t] = "work"]
  /\ tfd' = [tfd EXCEPT ![t] = call[1]]
  /\ UNCHANGED <<tableVars, scanVars, listVars, mutex, cursor, alarm, tjob, pc,
                 call>>

Goto(t, label) == tpc' = [tpc EXCEPT ![t] = label]
\* tfd only matters until the job has it.
Forget(t) == tfd' = [tfd EXCEPT ![t] = 0]

\* selector_notify_block: malloc, which may fail ...
AllocateJob(t) ==
  /\ Running
  /\ tpc[t] = "work"
  /\ Forget(t)
  /\ \/ /\ Goto(t, "idle")
        /\ UNCHANGED <<listVars, tjob>>
     \/ \E j \in Job \ heap :
          /\ heap' = heap \cup {j}
          /\ jfd' = [jfd EXCEPT ![j] = tfd[t]]
          /\ tjob' = [tjob EXCEPT ![t] = j]
          /\ Goto(t, "lock")
          /\ UNCHANGED <<head, next>>
  /\ UNCHANGED <<tableVars, scanVars, mutex, cursor, alarm, pc, call>>

\* ... lock, and job->next = s->resolution_jobs ...
LinkJob_unlocked(t) ==
  /\ Running
  /\ tpc[t] = "lock"
  /\ mutex' = mutex
  /\ next' = [next EXCEPT ![tjob[t]] = head]
  /\ Goto(t, "push")
  /\ UNCHANGED <<tableVars, scanVars, head, jfd, heap, cursor, alarm, tfd, tjob,
                 pc, call>>

LinkJob(t) ==
  /\ Running
  /\ tpc[t] = "lock"
  /\ mutex = NULL
  /\ mutex' = t
  /\ next' = [next EXCEPT ![tjob[t]] = head]
  /\ Goto(t, "push")
  /\ UNCHANGED <<tableVars, scanVars, head, jfd, heap, cursor, alarm, tfd, tjob,
                 pc, call>>

\* ... s->resolution_jobs = job, and unlock ...
PushJob(t) ==
  /\ Running
  /\ tpc[t] = "push"
  /\ head' = tjob[t]
  /\ mutex' = NULL
  /\ tjob' = [tjob EXCEPT ![t] = NULL]
  /\ Goto(t, "kill")
  /\ UNCHANGED <<tableVars, scanVars, next, jfd, heap, cursor, alarm, tfd, pc, call>>

\* ... and pthread_kill.
RaiseAlarm_awake(t) ==
  /\ Running
  /\ tpc[t] = "kill"
  /\ alarm' = (alarm \/ pc = "pselect")
  /\ Goto(t, "idle")
  /\ UNCHANGED <<tableVars, scanVars, listVars, mutex, cursor, tfd, tjob, pc, call>>

RaiseAlarm(t) ==
  /\ Running
  /\ tpc[t] = "kill"
  /\ alarm' = TRUE
  /\ Goto(t, "idle")
  /\ UNCHANGED <<tableVars, scanVars, listVars, mutex, cursor, tfd, tjob, pc, call>>

(***************************************************************************)
(* selector_destroy                                                        *)
(***************************************************************************)

\* The items that the loop has yet to unregister.
Left_below(items) == {f \in items : f < max_fd}
Left(items) == {f \in items : f < fd_size}

DestroyItem ==
  /\ pc = "destroy"
  /\ \E f \in Left(used) :
       /\ \A g \in Left(used) : f <= g
       /\ Unregister(f)
  /\ UNCHANGED <<scanVars, listVars, mutex, cursor, alarm, threadVars, pc, call>>

\* The loop over the jobs reads the next pointer of the job it freed.
DestroyJobs ==
  /\ pc = "destroy"
  /\ Left(used) = {}
  /\ pc' = IF head = NULL THEN "gone" ELSE "wild"
  /\ UNCHANGED <<tableVars, scanVars, listVars, mutex, cursor, alarm, threadVars,
                 call>>

(***************************************************************************)
(* Specification                                                           *)
(***************************************************************************)

\* selector_init has blocked the signal; selector_new made an empty table.
Init ==
  /\ fd_size \in {next_capacity(size) : size \in Initial}
  /\ used = {}
  /\ interest = [f \in Fd |-> {}]
  /\ max_fd = 0
  /\ master_r = {} /\ master_w = {}
  /\ slave_r = {} /\ slave_w = {}
  /\ n = 0 /\ at = 0
  /\ moved = FALSE
  /\ head = NULL
  /\ next = [j \in Job |-> NULL]
  /\ jfd = [j \in Job |-> 0]
  /\ heap = {}
  /\ mutex = NULL
  /\ cursor = NULL
  /\ alarm = FALSE
  /\ tpc = [t \in Thread |-> "idle"]
  /\ tfd = [t \in Thread |-> 0]
  /\ tjob = [t \in Thread |-> NULL]
  /\ pc = "setup"
  /\ call = NoCall

\* What a handler does to the table, and main.c before its loop.
UsesTable ==
  \E f \in Fd : \/ \E i \in Interest : selector_register(f, i)
                \/ \E i \in Interest : selector_set_interest(f, i)
                \/ selector_unregister_fd(f)

\* The steps of the main thread that do not wait for anything but the mutex.
Proceeds ==
  \/ Enter \/ handle_iteration \/ HandlerReturns
  \/ LockJobs \/ PresentJob \/ BlockReturns \/ UnlockJobs
  \/ DestroyItem \/ DestroyJobs

NotifyBlock(t) == AllocateJob(t) \/ LinkJob(t) \/ PushJob(t) \/ RaiseAlarm(t)

Ended == pc \in {"gone", "wild"} /\ UNCHANGED vars

Next ==
  \/ UsesTable
  \/ Proceeds
  \/ PselectReady \/ PselectTimeout \/ PselectInterrupted
  \/ Stop
  \/ \E t \in Thread : Spawn(t) \/ NotifyBlock(t)
  \/ Ended

\* A handler returns, whatever it does before; a signal ends pselect; a thread
\* that asks for the mutex again and again gets it.  Nothing is said of the
\* timeout: the loop must not need it.
Fairness ==
  /\ WF_vars(Proceeds)
  /\ WF_vars(PselectInterrupted)
  /\ \A t \in Thread : SF_vars(NotifyBlock(t))

Spec == Init /\ [][Next]_vars /\ Fairness

(***************************************************************************)
(* Properties                                                              *)
(***************************************************************************)

TableTypes ==
  /\ fd_size \in 1 .. ITEMS_MAX_SIZE + 1
  /\ used \subseteq {f \in Fd : f < ITEMS_MAX_SIZE /\ f < fd_size}
  /\ interest \in [Fd -> SUBSET {"READ", "WRITE"}]
  /\ max_fd \in 0 .. ITEMS_MAX_SIZE - 1

ScanTypes ==
  /\ n \in 0 .. ITEMS_MAX_SIZE - 1
  /\ at \in 0 .. 2 * ITEMS_MAX_SIZE
  /\ moved \in BOOLEAN
  /\ pc \in {"setup", "select", "pselect", "iterate", "notify", "drain",
             "destroy", "gone", "wild"}
  /\ call \in (Fd \X {"READ", "WRITE", "BLOCK"}) \cup {NoCall}

\* The pointers a step follows are to jobs that are allocated.
JobTypes ==
  /\ heap \subseteq Job
  /\ head \in Job \cup {NULL}
  /\ cursor \in heap \cup {NULL}
  /\ next \in [Job -> heap \cup {NULL}]
  /\ jfd \in [Job -> Fd \cup {0}]
  /\ mutex \in Thread \cup {"main", NULL}
  /\ alarm \in BOOLEAN
  /\ tpc \in [Thread -> {"idle", "work", "lock", "push", "kill"}]
  /\ tfd \in [Thread -> Fd \cup {0}]
  /\ tjob \in [Thread -> heap \cup {NULL}]

TypeOK == TableTypes /\ ScanTypes /\ JobTypes

\* max_fd and the sets for pselect are what the table says: the greatest used
\* descriptor, and the used descriptors by interest, after any sequence of
\* registrations and unregistrations ("max(.fds[].fd)" in struct fdselector).
TableExact ==
  /\ \A f \in used : f <= max_fd
  /\ max_fd \in used \cup {0}
  /\ master_r = {f \in used : "READ" \in interest[f]}
  /\ master_w = {f \in used : "WRITE" \in interest[f]}

\* The jobs that can be reached from j.
Chain(j) ==
  LET chain[k \in 0 .. Cardinality(Job)] ==
        IF k = 0 THEN {j} \ {NULL}
                 ELSE chain[k - 1] \cup ({next[i] : i \in chain[k - 1]} \ {NULL})
  IN chain[Cardinality(Job)]

\* The first of the jobs that await their presentation; the main thread resets
\* head only when it has freed them all.
Front == IF mutex = "main" THEN cursor ELSE head
Waiting == Chain(Front)

\* A job is in the list or in the hands of one thread that has yet to push it,
\* never both, never freed while it is there, and none is forgotten.
JobsAccounted ==
  /\ heap = Waiting \cup {tjob[t] : t \in {u \in Thread : tjob[u] # NULL}}
  /\ \A t \in Thread : tjob[t] \notin Waiting
  /\ \A t, u \in Thread : t # u /\ tjob[t] # NULL => tjob[t] # tjob[u]
  /\ \A i, j \in Waiting : i # j /\ next[i] # NULL => next[i] # next[j]

\* selector_destroy leaves no descriptor registered, so that handle_close has
\* run for each (its loop over the table while each step lowers max_fd).
DestroyClosesAll == pc = "gone" => used = {} /\ master_r = {} /\ master_w = {}

\* The main thread presents jobs, and only then, in its critical section; a handler
\* that runs there is the one of a job.
LoopInv ==
  /\ mutex = "main" => pc \in {"drain", "wild"}
  /\ pc = "drain" => mutex = "main"
  /\ call # NoCall => pc \in {"iterate", "drain", "wild"}
  /\ pc = "drain" /\ call # NoCall => cursor # NULL

\* Who holds the mutex, and who holds a job.
LockInv ==
  /\ mutex # "main" => cursor = NULL /\ head \in heap \cup {NULL}
  /\ \A t \in Thread : mutex = t <=> tpc[t] = "push"
  /\ \A t \in Thread : tjob[t] # NULL <=> tpc[t] \in {"lock", "push"}

\* No two pointers to the same job: next, the front of the list and the threads'
\* own, but for the thread that has linked its job and not yet moved the head.
Pushing(t) == tpc[t] = "push"
ListInv ==
  /\ \A i \in Job \ heap : next[i] = NULL
  /\ \A i, j \in Job : i # j /\ next[i] # NULL => next[i] # next[j]
  /\ \A i \in Job : next[i] # NULL /\ next[i] = Front =>
       \E t \in Thread : Pushing(t) /\ tjob[t] = i
  /\ \A t \in Thread : tjob[t] # NULL =>
       /\ tjob[t] # Front
       /\ \A i \in Job : next[i] # tjob[t]
       /\ \A u \in Thread \ {t} : tjob[u] # tjob[t]
       /\ next[tjob[t]] = IF Pushing(t) THEN Front ELSE NULL

\* What every step of the loop and of the threads relies on and keeps: the pointers
\* they follow lead to allocated jobs only because no other pointer leads there.
IInv == TypeOK /\ TableExact /\ DestroyClosesAll /\ LoopInv /\ LockInv /\ ListInv

\* Notifications for f that EventLoop counts: the one that is being presented is
\* no longer among them.
Presented == IF mutex = "main" /\ call # NoCall THEN {cursor} ELSE {}
Posted(f) == Cardinality({j \in Waiting \ Presented : jfd[j] = f})

\* A job that is allocated, and a thread that has yet to allocate one, know the
\* descriptor to notify.
Addressed ==
  /\ \A j \in heap : jfd[j] \in Fd
  /\ \A t \in Thread : tpc[t] = "work" => tfd[t] \in Fd

\* What makes each notification reach the loop: every allocated job has its
\* descriptor, and is in the list unless a thread still holds it.
PromiseInv == IInv /\ JobsAccounted /\ Addressed

\* What the header promises: handlers one at a time, for descriptors that have the
\* interest when they are called, and each notification presented once.
Promise == INSTANCE EventLoop WITH
  registered <- used,
  posted <- [f \in Fd |-> Posted(f)],
  running <- call
LoopSpec == Promise!Spec

\* A job in the list leaves it without waiting for pselect's timeout: the signal
\* is blocked outside pselect, so one that comes early is not lost.
Notified == \A j \in Job : []<>(j \notin Waiting \/ pc \in {"destroy", "wild"})

\* No registered descriptor is out of the scan's reach: whoever is reported again
\* and again is served, whatever handlers register and unregister around it.
Reported(f, op) == PselectReady /\ f \in IF op = "READ" THEN slave_r' ELSE slave_w'

Served ==
  \A f \in Fd, op \in {"READ", "WRITE"} :
    SF_vars(Reported(f, op)) =>
      []<>(f \notin used \/ op \notin interest[f] \/ call = <<f, op>>
          \/ pc \in {"destroy", "gone", "wild"})
=============================================================================

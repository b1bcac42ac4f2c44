------------------------------- MODULE Proxy -------------------------------
(***************************************************************************)
(* The life of the proxied sessions: the pselect loop of src/selector.c,   *)
(* the per-connection `struct sock' of src/socks_nio.c with its reference  *)
(* count and its free pool, the state machine of src/stm.c with the        *)
(* handlers of every state, the resolver threads of                        *)
(* src/dns_resolution_events.c and the shutdown of main.c.                 *)
(*                                                                         *)
(* Two kinds of actors take steps: the main thread (the loop, the handlers *)
(* it calls and the shutdown, sequenced by pc) and the resolver threads.   *)
(*                                                                         *)
(* A definition X_y next to X is X with a defect; nothing uses it but the  *)
(* experiments that show which property would notice.                      *)
(*                                                                         *)
(* What the bytes of a message decide (is the greeting complete? did send  *)
(* accept anything?) is a nondeterministic outcome of the handler here.    *)
(***************************************************************************)
EXTENDS Integers, FiniteSets

CONSTANTS
  LastFd,           \* the largest descriptor the kernel hands out (bound)
  Passive,          \* the listening descriptors main.c registers first
  ITEMS_MAX_SIZE,   \* selector.c: descriptors from here on are refused
  Obj,              \* addresses malloc can return for a struct sock
  Thread,           \* resolver threads that can run at once (bound)
  MAX_POOL,         \* socks_nio.c: how many idle structs the pool keeps
  NULL,             \* the null pointer
  MaxConnections,   \* accepted connections in one behaviour (bound)
  JobMallocFails,   \* may malloc fail in selector_notify_block?
  ShutdownAllowed   \* may SIGTERM arrive, or pselect fail?

Descriptor == 0 .. LastFd
NoFd == -1

ASSUME ConstantAssumption ==
  /\ LastFd \in Nat
  /\ ITEMS_MAX_SIZE \in Nat
  /\ MAX_POOL \in Nat
  /\ MaxConnections \in Nat
  /\ JobMallocFails \in BOOLEAN
  /\ ShutdownAllowed \in BOOLEAN
  /\ NULL \notin Obj

\* The listening sockets are created before any session, so they hold the
\* lowest descriptors, and selector_register took them.
ASSUME PassiveAssumption ==
  /\ Passive \subseteq Descriptor
  /\ \A p \in Passive : p < ITEMS_MAX_SIZE
  /\ \A p \in Passive, f \in Descriptor \ Passive : p < f

(***************************************************************************)
(* Values                                                                  *)
(***************************************************************************)

Interest == {"NOOP", "READ", "WRITE"}

\* "NONE" is stm.current = NULL.  COPYING_ST and DONE_ST are missing: no
\* handler ever returns them.
SocksState == {"NONE", "DNS_RESOLUTION", "CONNECTING", "GREETINGS", "CAPA",
               "REQUEST", "RESPONSE", "ERROR"}

\* Ways in which a handler ends the process: an event for which the state has
\* no handler (abort in stm.c), a failed selector_unregister_fd (abort in
\* socks_done), connect() succeeding at once (abort in request_connect), a
\* send to a closed peer (SIGPIPE is not ignored), a failed assert or a wild
\* copy in a data handler, and a touch of freed memory.
Death == {"no_handler", "not_registered", "connected", "sigpipe", "crash",
          "use_after_free"}

Serving == {"select", "iterate", "notify"}
Stopped == Death \cup {"exit"}
Control == Serving \cup {"destroy", "pool", "close"} \cup Stopped

Result == SocksState \cup Death

NoKey == [fd |-> NoFd, data |-> NULL]
NoFds == [client |-> NoFd, origin |-> NoFd]

(***************************************************************************)
(* State                                                                   *)
(***************************************************************************)

VARIABLES
  \* struct fdselector: the registered items
  used,         \* descriptors whose item is in use
  interest,     \* item->interest
  data,         \* item->data: the session, NULL for a listening socket
  slave_r,      \* readable descriptors not yet handled in this iteration
  slave_w,      \* writable descriptors not yet handled in this iteration
  jobs,         \* resolution_jobs, as the number of entries per descriptor
  \* struct sock, by address
  stm,          \* stm.current
  client_fd,
  origin_fd,
  references,
  resolution,   \* origin_resolution # NULL
  \* the heap
  alloc,        \* allocated struct socks, the pooled ones included
  pool,         \* the structs of the free pool (its LIFO order is left out)
  pool_size,
  \* the kernel
  open,         \* open descriptors
  \* resolver threads
  tpc,
  tkey,         \* the private copy of the key the thread was started with
  \* main thread
  pc,
  fds,          \* the local array of socks_done: what is still to be closed
  done,
  \* struct udp_stats
  historic_connections,
  curent_connections

tableVars  == <<used, interest, data>>
sockVars   == <<stm, client_fd, origin_fd, references, resolution>>
heapVars   == <<alloc, pool, pool_size>>
threadVars == <<tpc, tkey>>
statVars   == <<historic_connections, curent_connections>>
slaveVars  == <<slave_r, slave_w>>

vars == <<tableVars, slaveVars, jobs, sockVars, heapVars, open, threadVars,
          pc, fds, done, statVars>>

Init ==
  /\ used = Passive
  /\ interest = [f \in Descriptor |-> IF f \in Passive THEN "READ" ELSE "NOOP"]
  /\ data = [f \in Descriptor |-> NULL]
  /\ slave_r = {}
  /\ slave_w = {}
  /\ jobs = [f \in Descriptor |-> 0]
  /\ stm = [o \in Obj |-> "NONE"]
  /\ client_fd = [o \in Obj |-> NoFd]
  /\ origin_fd = [o \in Obj |-> NoFd]
  /\ references = [o \in Obj |-> 0]
  /\ resolution = [o \in Obj |-> FALSE]
  /\ alloc = {}
  /\ pool = {}
  /\ pool_size = 0
  /\ open = Passive
  /\ tpc = [t \in Thread |-> "idle"]
  /\ tkey = [t \in Thread |-> NoKey]
  /\ pc = "select"
  /\ fds = NoFds
  /\ done = FALSE
  /\ historic_connections = 0
  /\ curent_connections = 0

(***************************************************************************)
(* The selector's table                                                    *)
(***************************************************************************)

\* Descriptors whose item is bound to session o.
FdsOf(o) == {f \in used : data[f] = o}

\* selector_register succeeds for f (ensure_capacity never has to grow: main.c
\* asks for more items than ITEMS_MAX_SIZE allows descriptors).
Registrable(f) == f < ITEMS_MAX_SIZE /\ f \notin used

\* selector_set_interest_key(key, a) and then selector_set_interest(f, b), and
\* the state that "SUCCESS == ss ? next : ERROR_ST" gives.
SetInterests_both(k, a, f, b, next, ret) ==
  IF f \in used
  THEN /\ interest' = [interest EXCEPT ![f] = b]
       /\ ret = next
  ELSE /\ UNCHANGED interest
       /\ ret = "ERROR"

SetInterests(k, a, f, b, next, ret) ==
  IF f \in used
  THEN /\ interest' = [interest EXCEPT ![k] = a, ![f] = b]
       /\ ret = next
  ELSE /\ interest' = [interest EXCEPT ![k] = a]
       /\ ret = "ERROR"

\* socks_destroy of a session: the last reference returns the struct to the
\* pool, or to malloc when the pool is full.
socks_destroy_overfull(s) ==
  IF references[s] = 1
  THEN IF pool_size <= MAX_POOL
       THEN /\ pool' = pool \cup {s}
            /\ pool_size' = pool_size + 1
            /\ references' = [references EXCEPT ![s] = 0]
            /\ UNCHANGED alloc
       ELSE /\ alloc' = alloc \ {s}
            /\ UNCHANGED <<pool, pool_size, references>>
  ELSE /\ references' = [references EXCEPT ![s] = @ - 1]
       /\ UNCHANGED heapVars

socks_destroy(s) ==
  IF references[s] = 1
  THEN IF pool_size < MAX_POOL
       THEN /\ pool' = pool \cup {s}
            /\ pool_size' = pool_size + 1
            /\ references' = [references EXCEPT ![s] = 0]
            /\ UNCHANGED alloc
       ELSE /\ alloc' = alloc \ {s}
            /\ UNCHANGED <<pool, pool_size, references>>
  ELSE /\ references' = [references EXCEPT ![s] = @ - 1]
       /\ UNCHANGED heapVars

\* selector_unregister_fd of a used item, with the handle_close it calls.
Unregister(f) ==
  /\ used' = used \ {f}
  /\ interest' = [interest EXCEPT ![f] = "NOOP"]
  /\ data' = [data EXCEPT ![f] = NULL]
  /\ IF data[f] = NULL THEN UNCHANGED <<references, heapVars>>
                       ELSE socks_destroy(data[f])

(***************************************************************************)
(* Handlers of the states.  Each relates the session s, the descriptor k   *)
(* it was called for and the state ret it returns.                         *)
(***************************************************************************)

\* Start the resolver thread with its own copy of the key, and wait for it.
dns_resolution_armed(s, k, ret) ==
  \/ /\ ret = "ERROR"
     /\ UNCHANGED <<interest, threadVars>>
  \/ \E t \in Thread :
       /\ tpc[t] = "idle"
       /\ tpc' = [tpc EXCEPT ![t] = "lookup"]
       /\ tkey' = [tkey EXCEPT ![t] = [fd |-> k, data |-> s]]
       /\ UNCHANGED interest
       /\ ret = "DNS_RESOLUTION"

dns_resolution(s, k, ret) ==
  \/ /\ ret = "ERROR"                       \* malloc or pthread_create failed
     /\ UNCHANGED <<interest, threadVars>>
  \/ \E t \in Thread :
       /\ tpc[t] = "idle"
       /\ tpc' = [tpc EXCEPT ![t] = "lookup"]
       /\ tkey' = [tkey EXCEPT ![t] = [fd |-> k, data |-> s]]
       /\ interest' = [interest EXCEPT ![k] = "NOOP"]
       /\ ret = "DNS_RESOLUTION"

\* The new socket f waits for the connection, with a reference of its own.
AttachOrigin_uncounted(s, k, f) ==
  /\ used' = used \cup {f}
  /\ interest' = [interest EXCEPT ![k] = "NOOP", ![f] = "WRITE"]
  /\ data' = [data EXCEPT ![f] = s]
  /\ open' = open \cup {f}
  /\ UNCHANGED references

AttachOrigin(s, k, f) ==
  /\ used' = used \cup {f}
  /\ interest' = [interest EXCEPT ![k] = "NOOP", ![f] = "WRITE"]
  /\ data' = [data EXCEPT ![f] = s]
  /\ open' = open \cup {f}
  /\ references' = [references EXCEPT ![s] = @ + 1]

\* The item table refused the new socket f: close it.  The client's interest is
\* gone by then.
AbandonOrigin_open(s, k, f) ==
  /\ interest' = [interest EXCEPT ![k] = "NOOP"]
  /\ open' = open \cup {f}
  /\ UNCHANGED <<used, data, references>>

AbandonOrigin_counted(s, k, f) ==
  /\ interest' = [interest EXCEPT ![k] = "NOOP"]
  /\ open' = open \ {f}
  /\ references' = [references EXCEPT ![s] = @ + 1]
  /\ UNCHANGED <<used, data>>

AbandonOrigin(s, k, f) ==
  /\ interest' = [interest EXCEPT ![k] = "NOOP"]
  /\ open' = open \ {f}
  /\ UNCHANGED <<used, data, references>>

\* Open the socket to the origin server and register it with the session.
request_connect(s, k, ret) ==
  \/ /\ ret \in {"ERROR", "connected"}      \* socket, nio or connect failed,
     /\ UNCHANGED <<tableVars, open, references>>   \* or connect() gave 0
  \/ \E f \in Descriptor \ open :
       IF Registrable(f)
       THEN AttachOrigin(s, k, f) /\ ret = "CONNECTING"
       ELSE AbandonOrigin(s, k, f) /\ ret = "ERROR"

dns_resolution_done(s, k, ret) ==
  \/ /\ ~resolution[s]
     /\ ret = "ERROR"
     /\ UNCHANGED <<tableVars, open, references, resolution>>
  \/ /\ resolution[s]
     /\ resolution' = [resolution EXCEPT ![s] = FALSE]
     /\ request_connect(s, k, ret)

\* The non-blocking connect ended; k is the origin's descriptor.
connecting_late(s, k, ret) ==
  \/ /\ ret = "ERROR"
     /\ interest' = [interest EXCEPT ![k] = "NOOP"]
     /\ UNCHANGED origin_fd
  \/ /\ origin_fd' = [origin_fd EXCEPT ![s] = k]
     /\ SetInterests(k, "WRITE", client_fd[s], "NOOP", "GREETINGS", ret)

connecting(s, k, ret) ==
  /\ origin_fd' = [origin_fd EXCEPT ![s] = k]
  /\ \/ /\ ret = "ERROR"
        /\ interest' = [interest EXCEPT ![k] = "NOOP"]
     \/ /\ ret = "sigpipe"                  \* telling the client
        /\ UNCHANGED interest
     \/ SetInterests(k, "WRITE", client_fd[s], "NOOP", "GREETINGS", ret)

greetings_read(s, k, ret) ==
  \/ /\ ret \in {"GREETINGS", "ERROR"}
     /\ UNCHANGED interest
  \/ SetInterests(k, "NOOP", client_fd[s], "WRITE", "GREETINGS", ret)

greetings_write(s, k, ret) ==
  \/ /\ ret \in {"GREETINGS", "ERROR", "sigpipe"}
     /\ UNCHANGED interest
  \/ SetInterests(k, "NOOP", origin_fd[s], "READ", "GREETINGS", ret)
  \/ SetInterests(k, "NOOP", origin_fd[s], "WRITE", "CAPA", ret)

capa_send(s, k, ret) ==
  \/ /\ ret \in {"ERROR", "sigpipe"}
     /\ UNCHANGED interest
  \/ /\ origin_fd[s] \in used
     /\ interest' = [interest EXCEPT ![origin_fd[s]] = "READ"]
     /\ ret = "CAPA"

capa_read(s, k, ret) ==
  \/ /\ ret \in {"CAPA", "ERROR", "crash"}  \* the reply overflows the buffer
     /\ UNCHANGED interest
  \/ SetInterests(k, "NOOP", client_fd[s], "READ", "REQUEST", ret)

request_read(s, k, ret) ==
  \/ /\ ret \in {"REQUEST", "ERROR", "crash"}  \* copy of a wild cmd_size
     /\ UNCHANGED interest
  \/ SetInterests(k, "NOOP", origin_fd[s], "WRITE", "REQUEST", ret)

\* With an empty queue the interests move although the result is ERROR_ST.  (The
\* statistics it adds to follow the data, which Relay has.)
request_send(s, k, ret) ==
  \/ /\ ret \in {"ERROR", "sigpipe"}
     /\ UNCHANGED interest
  \/ \E next \in {"RESPONSE", "ERROR"} :
       SetInterests(k, "READ", client_fd[s], "NOOP", next, ret)

response_read(s, k, ret) ==
  \/ /\ ret \in {"RESPONSE", "ERROR", "crash"}  \* buffer_write_adv's assert
     /\ UNCHANGED interest
  \/ SetInterests(k, "NOOP", client_fd[s], "WRITE", "RESPONSE", ret)

response_send(s, k, ret) ==
  \/ /\ ret \in {"ERROR", "sigpipe"}
     /\ UNCHANGED interest
  \/ SetInterests(k, "NOOP", client_fd[s], "READ", "REQUEST", ret)
  \/ SetInterests(k, "NOOP", origin_fd[s], "READ", "RESPONSE", ret)

(***************************************************************************)
(* The state machine engine (stm.c) and the three top-level handlers       *)
(***************************************************************************)

\* A state with no handler for the event aborts.
OnReadReady(s, k, ret) ==
  \/ stm[s] = "GREETINGS" /\ greetings_read(s, k, ret)
  \/ stm[s] = "CAPA" /\ capa_read(s, k, ret)
  \/ stm[s] = "REQUEST" /\ request_read(s, k, ret)
  \/ stm[s] = "RESPONSE" /\ response_read(s, k, ret)
  \/ /\ stm[s] \in {"NONE", "DNS_RESOLUTION", "CONNECTING", "ERROR"}
     /\ ret = "no_handler"
     /\ UNCHANGED interest

OnWriteReady(s, k, ret) ==
  \/ /\ stm[s] \in {"NONE", "DNS_RESOLUTION"}
     /\ dns_resolution(s, k, ret)
     /\ UNCHANGED origin_fd
  \/ /\ stm[s] = "CONNECTING"
     /\ connecting(s, k, ret)
     /\ UNCHANGED threadVars
  \/ /\ \/ stm[s] = "GREETINGS" /\ greetings_write(s, k, ret)
        \/ stm[s] = "CAPA" /\ capa_send(s, k, ret)
        \/ stm[s] = "REQUEST" /\ request_send(s, k, ret)
        \/ stm[s] = "RESPONSE" /\ response_send(s, k, ret)
        \/ stm[s] = "ERROR" /\ ret = "no_handler" /\ UNCHANGED interest
     /\ UNCHANGED <<origin_fd, threadVars>>

OnBlockReady(s, k, ret) ==
  IF k \notin Passive /\ stm[s] \in {"NONE", "DNS_RESOLUTION"}
  THEN dns_resolution_done(s, k, ret)
  ELSE /\ ret = "no_handler"
       /\ UNCHANGED <<tableVars, open, references, resolution>>

\* Enter the state the handler returned; socks_done takes a copy of both
\* descriptors when that is ERROR_ST.
Jump(s, ret) ==
  IF ret \in Death
  THEN pc' = ret /\ UNCHANGED <<stm, fds>>
  ELSE /\ stm' = [stm EXCEPT ![s] = ret]
       /\ fds' = IF ret = "ERROR"
                 THEN [client |-> client_fd[s], origin |-> origin_fd'[s]]
                 ELSE fds
       /\ UNCHANGED pc

\* handle_iteration calls the handlers in the order of the descriptors, and
\* looks at the interest an item has when its turn comes.
Pending(k) ==
  /\ k \in used
  /\ \/ k \in slave_r /\ interest[k] = "READ"
     \/ k \in slave_w /\ interest[k] = "WRITE"

Turn(k) == Pending(k) /\ \A j \in Descriptor : Pending(j) => k <= j

\* The scan has passed every descriptor below k, and k's readability too; the
\* write part of k still follows its read part.
PassTo(k) ==
  /\ slave_r' = {j \in slave_r : j > k}
  /\ slave_w' = {j \in slave_w : j > k} \cup
                (IF k \in slave_r THEN slave_w \cap {k} ELSE {})

InHandler == fds # NoFds

Dispatch(k, event) ==
  /\ pc = "iterate"
  /\ ~InHandler
  /\ Turn(k)
  /\ interest[k] = event
  /\ PassTo(k)

socks_read(k) ==
  /\ k \notin Passive
  /\ Dispatch(k, "READ")
  /\ \E ret \in Result : OnReadReady(data[k], k, ret) /\ UNCHANGED origin_fd
                                                      /\ Jump(data[k], ret)
  /\ UNCHANGED <<used, data, jobs, client_fd, references, resolution, heapVars,
                 open, threadVars, done, statVars>>

socks_write(k) ==
  /\ k \notin Passive
  /\ Dispatch(k, "WRITE")
  /\ \E ret \in Result : OnWriteReady(data[k], k, ret) /\ Jump(data[k], ret)
  /\ UNCHANGED <<used, data, jobs, client_fd, references, resolution, heapVars,
                 open, done, statVars>>

\* handle_block_notifications: present one queued job to its item, if the item
\* is still in use.  The mutex is held for as long as pc = "notify".
socks_block(k) ==
  /\ pc = "notify"
  /\ ~InHandler
  /\ jobs[k] > 0
  /\ jobs' = [jobs EXCEPT ![k] = @ - 1]
  /\ IF k \in used
     THEN \E ret \in Result : /\ UNCHANGED origin_fd
                              /\ OnBlockReady(data[k], k, ret)
                              /\ Jump(data[k], ret)
     ELSE UNCHANGED <<tableVars, sockVars, open, pc, fds>>
  /\ UNCHANGED <<slaveVars, client_fd, heapVars, threadVars, done, statVars>>

\* socks_done: unregister and close the client's descriptor, then the origin's.
socks_done(end) ==
  /\ pc \in {"iterate", "notify"}
  /\ fds[end] # NoFd
  /\ end = "origin" => fds.client = NoFd
  /\ IF fds[end] \in used
     THEN /\ Unregister(fds[end])
          /\ open' = open \ {fds[end]}
          /\ fds' = [fds EXCEPT ![end] = NoFd]
          /\ UNCHANGED pc
     ELSE /\ pc' = "not_registered"
          /\ UNCHANGED <<tableVars, references, heapVars, open, fds>>
  /\ UNCHANGED <<slaveVars, jobs, stm, client_fd, origin_fd, resolution,
                 threadVars, done, statVars>>

(***************************************************************************)
(* Accepting a client                                                      *)
(***************************************************************************)

\* socks_new takes the struct from the pool, or from malloc if it is empty.
Available == IF pool # {} THEN pool ELSE Obj \ alloc

\* accept, selector_fd_set_nio or malloc failed.
socks_passive_accept_fails(k) ==
  /\ k \in Passive
  /\ Dispatch(k, "READ")
  /\ UNCHANGED <<tableVars, jobs, sockVars, heapVars, open, threadVars, pc, fds,
                 done, statVars>>

\* A struct that cannot be registered goes where socks_destroy puts it: its one
\* reference is the last.
socks_passive_accept(k) ==
  /\ k \in Passive
  /\ Dispatch(k, "READ")
  /\ \E client \in Descriptor \ open, s \in Available :
       LET taken == IF pool # {} THEN pool_size - 1 ELSE pool_size IN
       /\ stm' = [stm EXCEPT ![s] = "NONE"]
       /\ client_fd' = [client_fd EXCEPT ![s] = client]
       /\ origin_fd' = [origin_fd EXCEPT ![s] = NoFd]
       /\ resolution' = [resolution EXCEPT ![s] = FALSE]
       /\ IF Registrable(client)
          THEN /\ used' = used \cup {client}
               /\ interest' = [interest EXCEPT ![client] = "WRITE"]
               /\ data' = [data EXCEPT ![client] = s]
               /\ open' = open \cup {client}
               /\ references' = [references EXCEPT ![s] = 1]
               /\ alloc' = alloc \cup {s}
               /\ pool' = pool \ {s}
               /\ pool_size' = taken
               /\ historic_connections' = historic_connections + 1
               /\ curent_connections' = curent_connections + 1
          ELSE /\ UNCHANGED <<tableVars, open, statVars>>
               /\ IF taken < MAX_POOL
                  THEN /\ references' = [references EXCEPT ![s] = 0]
                       /\ alloc' = alloc \cup {s}
                       /\ pool' = pool \cup {s}
                       /\ pool_size' = taken + 1
                  ELSE /\ references' = [references EXCEPT ![s] = 1]
                       /\ alloc' = alloc \ {s}
                       /\ pool' = pool \ {s}
                       /\ pool_size' = taken
  /\ UNCHANGED <<jobs, threadVars, pc, fds, done>>

(***************************************************************************)
(* The loop: selector_select and main.c                                    *)
(***************************************************************************)

Armed(event) == {f \in used : interest[f] = event}

\* New clients arrive only up to the bound.
Arriving(R) == historic_connections >= MaxConnections => R \cap Passive = {}

\* pselect reports any set of armed descriptors, none of them on a timeout.
pselect ==
  /\ pc = "select"
  /\ Armed("READ") \cup Armed("WRITE") \subseteq open
  /\ \E R \in SUBSET Armed("READ"), W \in SUBSET Armed("WRITE") :
       Arriving(R) /\ slave_r' = R /\ slave_w' = W
  /\ pc' = "iterate"
  /\ UNCHANGED <<tableVars, jobs, sockVars, heapVars, open, threadVars, fds,
                 done, statVars>>

\* EINTR: a resolver's SIGALRM or the termination signal; nothing is scanned.
pselect_interrupted ==
  /\ pc = "select"
  /\ pc' = "notify"
  /\ UNCHANGED <<tableVars, slaveVars, jobs, sockVars, heapVars, open,
                 threadVars, fds, done, statVars>>

\* EBADF (an armed descriptor that is not open), or another error.
pselect_fails ==
  /\ pc = "select"
  /\ \/ ShutdownAllowed
     \/ ~(Armed("READ") \cup Armed("WRITE") \subseteq open)
  /\ pc' = "destroy"
  /\ UNCHANGED <<tableVars, slaveVars, jobs, sockVars, heapVars, open,
                 threadVars, fds, done, statVars>>

EndIteration ==
  /\ pc = "iterate"
  /\ ~InHandler
  /\ \A k \in Descriptor : ~Pending(k)
  /\ slave_r' = {}
  /\ slave_w' = {}
  /\ pc' = "notify"
  /\ UNCHANGED <<tableVars, jobs, sockVars, heapVars, open, threadVars, fds,
                 done, statVars>>

\* main's loop condition.
AfterTurn_drained == IF done /\ used = Passive THEN "destroy" ELSE "select"
AfterTurn == IF done THEN "destroy" ELSE "select"

\* The job list is empty: release the mutex, return to main and test done.
EndNotifications ==
  /\ pc = "notify"
  /\ ~InHandler
  /\ \A k \in Descriptor : jobs[k] = 0
  /\ pc' = AfterTurn
  /\ UNCHANGED <<tableVars, slaveVars, jobs, sockVars, heapVars, open,
                 threadVars, fds, done, statVars>>

sigterm_handler ==
  /\ ShutdownAllowed
  /\ pc \in Serving
  /\ ~done
  /\ done' = TRUE
  /\ UNCHANGED <<tableVars, slaveVars, jobs, sockVars, heapVars, open,
                 threadVars, pc, fds, statVars>>

\* selector_destroy unregisters the items in order, and closes nothing.
DestroyItem(f) ==
  /\ pc = "destroy"
  /\ f \in used
  /\ \A g \in used : f <= g
  /\ Unregister(f)
  /\ UNCHANGED <<slaveVars, jobs, stm, client_fd, origin_fd, resolution, open,
                 threadVars, pc, fds, done, statVars>>

\* ... and frees the job list, reading the link of a job it has just freed.
FreeSelector ==
  /\ pc = "destroy"
  /\ used = {}
  /\ \/ pc' = "pool"
     \/ (\E f \in Descriptor : jobs[f] > 0) /\ pc' = "use_after_free"
  /\ jobs' = [f \in Descriptor |-> 0]
  /\ UNCHANGED <<tableVars, slaveVars, sockVars, heapVars, open, threadVars,
                 fds, done, statVars>>

\* The list head is left dangling; nobody reads it again.
socks_pool_destroy ==
  /\ pc = "pool"
  /\ alloc' = alloc \ pool
  /\ pc' = "close"
  /\ UNCHANGED <<tableVars, slaveVars, jobs, sockVars, pool, pool_size, open,
                 threadVars, fds, done, statVars>>

CloseServers ==
  /\ pc = "close"
  /\ open' = open \ Passive
  /\ pc' = "exit"
  /\ UNCHANGED <<tableVars, slaveVars, jobs, sockVars, heapVars, threadVars,
                 fds, done, statVars>>

(***************************************************************************)
(* Resolver threads: dns_resolution_blocking                               *)
(***************************************************************************)

\* getaddrinfo stores its result through the session of the thread's key.  A
\* store to a freed struct may do anything.
Lookup(t) ==
  /\ pc \notin Stopped
  /\ tpc[t] = "lookup"
  /\ tpc' = [tpc EXCEPT ![t] = "notify"]
  /\ LET s == tkey[t].data IN
     IF s \in alloc
     THEN /\ \E found \in BOOLEAN :
               resolution' = [resolution EXCEPT ![s] = found]
          /\ UNCHANGED pc
     ELSE /\ pc' \in {pc, "use_after_free"}
          /\ UNCHANGED resolution
  /\ UNCHANGED <<tableVars, slaveVars, jobs, stm, client_fd, origin_fd,
                 references, heapVars, open, tkey, fds, done, statVars>>

\* job->next = s->resolution_jobs; s->resolution_jobs = job
Enqueue_unlinked(f) == jobs' = [g \in Descriptor |-> IF g = f THEN 1 ELSE 0]
Enqueue(f) == jobs' = [jobs EXCEPT ![f] = @ + 1]

\* selector_notify_block: queue a job under the mutex and end.  A failed malloc
\* is reported to nobody; after the shutdown the selector itself is gone.
selector_notify_block(t) ==
  /\ pc \notin Stopped
  /\ tpc[t] = "notify"
  /\ tpc' = [tpc EXCEPT ![t] = "idle"]
  /\ tkey' = [tkey EXCEPT ![t] = NoKey]
  /\ \/ /\ JobMallocFails
        /\ UNCHANGED <<jobs, pc>>
     \/ /\ pc \in {"select", "iterate", "destroy"}
        /\ Enqueue(tkey[t].fd)
        /\ UNCHANGED pc
     \/ /\ pc \in {"pool", "close"}
        /\ pc' \in {pc, "use_after_free"}
        /\ UNCHANGED jobs
  /\ UNCHANGED <<tableVars, slaveVars, sockVars, heapVars, open, fds, done,
                 statVars>>

(***************************************************************************)
(* Specification                                                           *)
(***************************************************************************)

\* The process is over.
Halted == pc \in Stopped /\ UNCHANGED vars

Main ==
  \/ pselect \/ pselect_interrupted \/ pselect_fails
  \/ \E k \in Descriptor : \/ socks_passive_accept_fails(k)
                           \/ socks_passive_accept(k)
                           \/ socks_read(k)
                           \/ socks_write(k)
                           \/ socks_block(k)
  \/ \E end \in {"client", "origin"} : socks_done(end)
  \/ EndIteration \/ EndNotifications
  \/ \E f \in Descriptor : DestroyItem(f)
  \/ FreeSelector \/ socks_pool_destroy \/ CloseServers

Next ==
  \/ Main
  \/ sigterm_handler
  \/ \E t \in Thread : Lookup(t) \/ selector_notify_block(t)
  \/ Halted

\* pselect returns within its ten seconds and no handler blocks, so the main
\* thread always goes on; getaddrinfo gives up in the end; a thread that waits
\* for the mutex gets it, which the main thread lets go in every turn.
Fairness ==
  /\ WF_vars(Main)
  /\ \A t \in Thread : /\ WF_vars(Lookup(t))
                       /\ SF_vars(selector_notify_block(t))

Spec == Init /\ [][Next]_vars
FairSpec == Spec /\ Fairness

(***************************************************************************)
(* Properties                                                              *)
(***************************************************************************)

End == Descriptor \cup {NoFd}

\* Every variable has a value of its type; in particular the unsigned
\* reference count (socks_nio.h) never goes below zero.
TypeOK ==
  /\ used \subseteq Descriptor
  /\ interest \in [Descriptor -> Interest]
  /\ data \in [Descriptor -> Obj \cup {NULL}]
  /\ slave_r \subseteq Descriptor
  /\ slave_w \subseteq Descriptor
  /\ jobs \in [Descriptor -> Nat]
  /\ stm \in [Obj -> SocksState]
  /\ client_fd \in [Obj -> End]
  /\ origin_fd \in [Obj -> End]
  /\ references \in [Obj -> Nat]
  /\ resolution \in [Obj -> BOOLEAN]
  /\ alloc \subseteq Obj
  /\ pool \subseteq Obj
  /\ pool_size \in Nat
  /\ open \subseteq Descriptor
  /\ tpc \in [Thread -> {"idle", "lookup", "notify"}]
  /\ tkey \in [Thread -> [fd : End, data : Obj \cup {NULL}]]
  /\ pc \in Control
  /\ fds \in [client : End, origin : End]
  /\ done \in BOOLEAN
  /\ historic_connections \in Nat
  /\ curent_connections \in Nat

\* Structs that belong to a connection.
Live == alloc \ pool

\* The reference count of a live struct is the number of descriptors the
\* selector holds with it, and the selector holds none with a struct that was
\* freed or sits in the pool (socks_passive_accept, request_connect and
\* socks_destroy keep the count in step with the table).
RefsExact ==
  /\ \A o \in Live : /\ references[o] = Cardinality(FdsOf(o))
                     /\ references[o] # 0
  /\ \A f \in used \ Passive : data[f] \in Live

\* The reference count and the pool implement the lending of structs that
\* SockLease describes: no struct goes to a new connection while a descriptor
\* of the old one is registered, and it comes back with the last of them.
Lease == INSTANCE SockLease WITH Fd <- Descriptor,
                                 lent <- Live,
                                 held <- [o \in Obj |-> FdsOf(o)]
LeaseSpec == Lease!Spec

\* The pool holds what its counter says, at most MAX_POOL structs, all of them
\* still allocated until socks_pool_destroy frees them.
PoolSound ==
  /\ pool_size = Cardinality(pool)
  /\ pool_size <= MAX_POOL
  /\ pc \in Serving => pool \subseteq alloc

\* While the proxy serves, the open descriptors are the registered ones: every
\* path that gives a descriptor up, the failed accept, connect and register
\* included, closes it once and unregisters it once, so that pselect never
\* meets a bad descriptor.
NoDescriptorLeak == pc \in Serving => open = used

\* No sequence of events reaches a state without a handler for the event
\* (abort in stm.c) nor makes socks_done unregister a free item (abort).
NoAbort == pc \notin {"no_handler", "not_registered"}

\* The inductive invariant behind RefsExact, PoolSound and LeaseSpec.  RefShape
\* says the count without a cardinality; request_connect may add a second
\* reference because a session that has not connected yet has exactly one.
RefShape(o) ==
  \/ references[o] = 1 /\ \E f \in Descriptor : FdsOf(o) = {f}
  \/ references[o] = 2 /\ \E f, g \in Descriptor : f # g /\ FdsOf(o) = {f, g}

OwnerInv ==
  /\ \A f \in used : data[f] \in Live \cup {NULL}
  /\ \A f \in used \ Passive : data[f] \in Live

RefInv ==
  \A o \in Live : /\ RefShape(o)
                  /\ stm[o] \in {"NONE", "DNS_RESOLUTION"} => references[o] = 1

PoolInv ==
  /\ IsFiniteSet(pool)
  /\ pool_size = Cardinality(pool)
  /\ pool_size <= MAX_POOL
  /\ pc \in Serving \cup {"destroy", "pool"} => pool \subseteq alloc

IInv == TypeOK /\ OwnerInv /\ RefInv /\ PoolInv

\* How many things can make the main thread work for session o again: armed
\* descriptors, resolver threads on its behalf and queued jobs.
WakeUps(o) ==
  Cardinality({f \in FdsOf(o) : interest[f] # "NOOP"})
  + Cardinality({t \in Thread : tkey[t].data = o})
  + Cardinality({f \in FdsOf(o) : jobs[f] > 0})

\* Between two handlers every session waits for exactly one thing: with none
\* it would stay for ever, with two its handlers could overlap.  What one
\* handler disarms another must have armed, on a different descriptor.  Only a
\* resolver that cannot allocate its job leaves a session with nothing.
SingleWakeUp ==
  pc \in Serving /\ ~InHandler =>
    \A o \in Live :
      \/ WakeUps(o) = 1
      \/ JobMallocFails /\ stm[o] = "DNS_RESOLUTION" /\ WakeUps(o) = 0

\* A resolver thread and the job it leaves refer to the session that started
\* it, still alive and still waiting: its descriptor has not been reused for
\* another connection in the meantime.
ResolverLive ==
  pc \in Serving =>
    /\ \A t \in Thread : tpc[t] # "idle" =>
         /\ tkey[t].data \in Live
         /\ stm[tkey[t].data] = "DNS_RESOLUTION"
         /\ tkey[t].fd \in FdsOf(tkey[t].data)
    /\ \A f \in Descriptor : jobs[f] > 0 =>
         /\ f \in used
         /\ stm[data[f]] = "DNS_RESOLUTION"

\* What pselect reported for a descriptor still stands when its turn comes in
\* handle_iteration: no handler called before it, of whatever session, has
\* closed it, handed its number to a new connection or changed its interest.
ReportedEventsStand ==
  pc = "iterate" /\ ~InHandler =>
    /\ \A f \in slave_r : f \in used /\ interest[f] = "READ"
    /\ \A f \in slave_w : f \in used /\ interest[f] = "WRITE"

\* When main returns, every struct sock has been freed, whatever state each
\* session was in when the termination signal came.
ShutdownFreesAll == pc = "exit" => alloc = {}

\* The inductive invariant behind the properties above.  First the table: what
\* is open is registered, and the listening sockets stay as main.c left them.
TableInv ==
  /\ open = used
  /\ Passive \subseteq used
  /\ \A p \in Passive : data[p] = NULL /\ interest[p] = "READ"

\* A session with the client's descriptor only, armed as i says.
Alone(o, i) ==
  /\ FdsOf(o) = {client_fd[o]}
  /\ origin_fd[o] = NoFd
  /\ interest[client_fd[o]] = i

\* A session with the client's descriptor, armed as i says, and the origin's
\* descriptor g, armed as j says.
Joined(o, g, i, j) ==
  /\ client_fd[o] # g
  /\ FdsOf(o) = {client_fd[o], g}
  /\ interest[client_fd[o]] = i
  /\ interest[g] = j

\* What socks_done has still to unregister.
ToClose == {fds.client, fds.origin} \ {NoFd}

\* The descriptors of session o and what they are armed for when it is in
\* state st.  CAPA waits for the origin alone; a session in REQUEST reads the
\* client or writes to the origin, never the other way round, because
\* request_send arms k for reading and disarms the client without a look at
\* which of the two k is.
Phase(o, st) ==
  \/ st = "NONE" /\ Alone(o, "WRITE")
  \/ st = "DNS_RESOLUTION" /\ Alone(o, "NOOP")
  \/ /\ st = "CONNECTING" /\ origin_fd[o] = NoFd
     /\ \E g \in Descriptor : Joined(o, g, "NOOP", "WRITE")
  \/ /\ st \in {"GREETINGS", "RESPONSE"}
     /\ \E e \in {"READ", "WRITE"} : \/ Joined(o, origin_fd[o], e, "NOOP")
                                     \/ Joined(o, origin_fd[o], "NOOP", e)
  \/ /\ st = "CAPA"
     /\ \E e \in {"READ", "WRITE"} : Joined(o, origin_fd[o], "NOOP", e)
  \/ /\ st = "REQUEST"
     /\ \/ Joined(o, origin_fd[o], "READ", "NOOP")
        \/ Joined(o, origin_fd[o], "NOOP", "WRITE")
  \/ st = "ERROR" /\ InHandler /\ FdsOf(o) = ToClose

\* socks_done works for a session, on descriptors the scan has done with.
ClosingInv ==
  InHandler => /\ pc \in {"iterate", "notify"}
               /\ fds.client # fds.origin
               /\ ToClose \cap (slave_r \cup slave_w) = {}
               /\ \E o \in Live : stm[o] = "ERROR"

\* A session waits for one resolver thread or for the job it left, not both.
ResolverInv ==
  /\ \A t \in Thread :
       IF tpc[t] = "idle"
       THEN tkey[t].data = NULL
       ELSE /\ tkey[t].data \in Live
            /\ stm[tkey[t].data] = "DNS_RESOLUTION"
            /\ tkey[t].fd = client_fd[tkey[t].data]
            /\ jobs[tkey[t].fd] = 0
  /\ \A t, u \in Thread :
       tkey[t].data = tkey[u].data => t = u \/ tkey[t].data = NULL
  /\ \A f \in Descriptor : jobs[f] > 0 => /\ jobs[f] = 1
                                          /\ f \in used \ Passive
                                          /\ stm[data[f]] = "DNS_RESOLUTION"
  /\ \A o \in Live : stm[o] = "DNS_RESOLUTION" =>
       \/ JobMallocFails
       \/ jobs[client_fd[o]] = 1
       \/ \E t \in Thread : tkey[t].data = o

SlaveInv ==
  /\ \A f \in slave_r : f \in used /\ interest[f] = "READ"
  /\ \A f \in slave_w : f \in used /\ interest[f] = "WRITE"
  /\ pc # "iterate" => slave_r = {} /\ slave_w = {}

ServingInv ==
  pc \in Serving => /\ TableInv
                    /\ \A o \in Live : Phase(o, stm[o])
                    /\ ClosingInv
                    /\ ResolverInv
                    /\ SlaveInv

\* ... and behind ShutdownFreesAll: once selector_destroy has unregistered
\* everything the pool holds every struct there is, and then it is freed too.
ShutdownInv ==
  /\ pc = "pool" => used = {}
  /\ pc \in {"close", "exit"} => alloc = {}

\* The whole inductive invariant.
SessionInv == IInv /\ ServingInv /\ NoAbort /\ ShutdownInv

\* main.c's loop ends after the termination signal.
ShutdownTerminates == done ~> pc \in Stopped

\* A session that waits for its resolver thread gets the answer.
ResolutionEnds ==
  \A o \in Obj : stm[o] = "DNS_RESOLUTION" ~>
                   stm[o] # "DNS_RESOLUTION" \/ pc \in Stopped

\* socks_nio.h: the reference count tells when a struct can be freed at last,
\* so that a resolver thread never works on a freed one.
ResolverHoldsLiveSock ==
  \A t \in Thread : tpc[t] # "idle" /\ pc \notin Stopped =>
                      tkey[t].data \in alloc
=============================================================================

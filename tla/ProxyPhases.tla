---------------------------- MODULE ProxyPhases ----------------------------
(***************************************************************************)
(* Proofs about the sessions of Proxy while the loop runs, for every       *)
(* number of descriptors, structs, threads and connections: in each state  *)
(* a session holds the descriptors its state calls for and waits for one   *)
(* event, so no handler is missing, no descriptor leaks, what pselect      *)
(* reported stands until its turn comes, and the shutdown frees everything.*)
(***************************************************************************)
EXTENDS ProxyProofs

\* Session s keeps the descriptors socks_done is going to close.
Leaving(s) ==
  /\ client_fd[s] # origin_fd'[s]
  /\ FdsOf(s) = {client_fd[s], origin_fd'[s]} \ {NoFd}

\* A step leaves session o as it was.
Untouched(o) ==
  /\ FdsOf(o)' = FdsOf(o)
  /\ stm'[o] = stm[o]
  /\ client_fd'[o] = client_fd[o]
  /\ origin_fd'[o] = origin_fd[o]
  /\ \A f \in FdsOf(o) : interest'[f] = interest[f]

-----------------------------------------------------------------------------
(* One session *)

\* A descriptor that is not a listening socket's belongs to a live session.
LEMMA Bound ==
  ASSUME TypeOK, OwnerInv, NEW k \in used, k \notin Passive
  PROVE  \E s \in Obj : s = data[k] /\ s \in Live /\ k \in FdsOf(s)
  BY DEF TypeOK, OwnerInv, Live, FdsOf

\* A session nobody touches stays in its phase.
LEMMA PhaseKept ==
  ASSUME NEW o, Phase(o, stm[o]), stm[o] # "ERROR", Untouched(o)
  PROVE  Phase(o, stm[o])'
<1>1. /\ \A i : Alone(o, i) => Alone(o, i)'
  BY DEF Untouched, Alone
<1>2. \A i, j : Joined(o, origin_fd[o], i, j) => Joined(o, origin_fd[o], i, j)'
  BY DEF Untouched, Joined
<1>3. \A g, i, j : Joined(o, g, i, j) => Joined(o, g, i, j)'
  BY DEF Untouched, Joined
<1> QED BY <1>1, <1>2, <1>3 DEF Phase, Untouched

\* The descriptors of a session that is being served.
LEMMA FdsShape ==
  ASSUME TypeOK, NEW s \in Obj, Phase(s, stm[s]), stm[s] # "ERROR"
  PROVE  /\ client_fd[s] \in FdsOf(s)
         /\ FdsOf(s) \subseteq used /\ FdsOf(s) \subseteq Descriptor
         /\ \A f \in FdsOf(s) : data[f] = s
         /\ \A f, g \in FdsOf(s) :
              interest[f] # "NOOP" /\ f # g => interest[g] = "NOOP"
<1>1. /\ FdsOf(s) \subseteq used /\ FdsOf(s) \subseteq Descriptor
      /\ \A f \in FdsOf(s) : data[f] = s
  BY DEF FdsOf, TypeOK
<1>2. ASSUME NEW i, Alone(s, i)
      PROVE  /\ client_fd[s] \in FdsOf(s)
             /\ \A f, g \in FdsOf(s) : f = g
  BY <1>2 DEF Alone
<1>3. ASSUME NEW g, NEW i, NEW j, Joined(s, g, i, j), i = "NOOP" \/ j = "NOOP"
      PROVE  /\ client_fd[s] \in FdsOf(s)
             /\ \A f, h \in FdsOf(s) :
                  interest[f] # "NOOP" /\ f # h => interest[h] = "NOOP"
  BY <1>3 DEF Joined
<1> QED BY <1>1, <1>2, <1>3 DEF Phase

\* A read handler is called in a state that has one, and leaves its session
\* in the phase of the state it returns.
LEMMA ReadPhase ==
  ASSUME TypeOK, NEW s \in Obj, NEW k \in Descriptor, NEW ret,
         k \in FdsOf(s), interest[k] = "READ", ~InHandler, Phase(s, stm[s]),
         OnReadReady(s, k, ret), UNCHANGED <<used, data, client_fd, origin_fd>>
  PROVE  /\ ret \notin {"no_handler", "not_registered"}
         /\ \A f \in Descriptor : f \notin FdsOf(s) => interest'[f] = interest[f]
         /\ ret = "ERROR" => Leaving(s)
         /\ ret \notin Death \cup {"ERROR"} => Phase(s, ret)'
<1>1. FdsOf(s)' = FdsOf(s)
  BY DEF FdsOf
<1>2. stm[s] # "ERROR"
  BY DEF Phase
<1>3. /\ FdsOf(s) \subseteq used /\ FdsOf(s) \subseteq Descriptor
  BY DEF FdsOf, TypeOK
<1>4. PICK g \in Descriptor, e \in {"READ", "WRITE"} :
        /\ g = origin_fd[s]
        /\ \/ Joined(s, g, e, "NOOP") /\ stm[s] # "CAPA"
           \/ Joined(s, g, "NOOP", e) /\ stm[s] # "REQUEST"
        /\ stm[s] \in {"GREETINGS", "CAPA", "REQUEST", "RESPONSE"}
  BY <1>2, <1>3 DEF Phase, Alone, Joined
<1>5. /\ client_fd[s] \in Descriptor /\ client_fd[s] # g
      /\ FdsOf(s) = {client_fd[s], g} /\ client_fd[s] \in used /\ g \in used
  BY <1>3, <1>4 DEF Joined
<1>6. Leaving(s)
  BY <1>4, <1>5 DEF Leaving, NoFd, Descriptor
<1> QED
  BY <1>1, <1>4, <1>5, <1>6
  DEF OnReadReady, greetings_read, capa_read, request_read, response_read,
      SetInterests, Phase, Joined, TypeOK, Death

\* A resolver thread starts for session s, whose client waits for it.
Started(s, k) ==
  \E t \in Thread :
    /\ tpc[t] = "idle"
    /\ tpc' = [tpc EXCEPT ![t] = "lookup"]
    /\ tkey' = [tkey EXCEPT ![t] = [fd |-> k, data |-> s]]

\* A write handler does so too.  Only a new session starts a resolver.
LEMMA WritePhase ==
  ASSUME TypeOK, NEW s \in Obj, NEW k \in Descriptor, NEW ret,
         k \in FdsOf(s), interest[k] = "WRITE", ~InHandler, Phase(s, stm[s]),
         OnWriteReady(s, k, ret), UNCHANGED <<used, data, client_fd>>
  PROVE  /\ ret \notin {"no_handler", "not_registered"}
         /\ \A f \in Descriptor : f \notin FdsOf(s) => interest'[f] = interest[f]
         /\ \A o \in Obj : o # s => origin_fd'[o] = origin_fd[o]
         /\ ret = "ERROR" => Leaving(s)
         /\ ret \notin Death \cup {"ERROR"} => Phase(s, ret)'
         /\ stm[s] # "DNS_RESOLUTION"
         /\ \/ ret # "DNS_RESOLUTION" /\ UNCHANGED threadVars
            \/ /\ ret = "DNS_RESOLUTION" /\ stm[s] = "NONE"
               /\ k = client_fd[s] /\ Started(s, k)
<1>1. FdsOf(s)' = FdsOf(s)
  BY DEF FdsOf
<1>2. stm[s] # "ERROR"
  BY DEF Phase
<1>3. /\ FdsOf(s) \subseteq used /\ FdsOf(s) \subseteq Descriptor
  BY DEF FdsOf, TypeOK
<1>4. \/ stm[s] = "NONE" /\ Alone(s, "WRITE")
      \/ /\ stm[s] = "CONNECTING" /\ origin_fd[s] = NoFd
         /\ \E g \in Descriptor : Joined(s, g, "NOOP", "WRITE")
      \/ \E g \in Descriptor, e \in {"READ", "WRITE"} :
           /\ g = origin_fd[s]
           /\ \/ Joined(s, g, e, "NOOP") /\ stm[s] \notin {"CAPA", "REQUEST"}
              \/ Joined(s, g, "NOOP", e)
           /\ stm[s] \in {"GREETINGS", "CAPA", "REQUEST", "RESPONSE"}
  BY <1>2, <1>3 DEF Phase, Alone, Joined
<1>5. CASE stm[s] = "NONE" /\ Alone(s, "WRITE")
  <2>1. /\ FdsOf(s) = {client_fd[s]} /\ k = client_fd[s]
        /\ origin_fd[s] = NoFd /\ NoFd \notin Descriptor
    BY <1>5 DEF Alone, NoFd, Descriptor
  <2>2. dns_resolution(s, k, ret) /\ UNCHANGED origin_fd
    BY <1>5 DEF OnWriteReady
  <2> QED
    BY <1>1, <1>5, <2>1, <2>2
    DEF dns_resolution, Started, Leaving, Phase, Alone, TypeOK, Death, threadVars
<1>6. ASSUME stm[s] = "CONNECTING", origin_fd[s] = NoFd,
             NEW g \in Descriptor, Joined(s, g, "NOOP", "WRITE")
      PROVE  /\ ret \in {"ERROR", "sigpipe", "GREETINGS"}
             /\ UNCHANGED threadVars
             /\ \A f \in Descriptor : f \notin FdsOf(s) => interest'[f] = interest[f]
             /\ \A o \in Obj : o # s => origin_fd'[o] = origin_fd[o]
             /\ ret = "ERROR" => Leaving(s)
             /\ ret = "GREETINGS" => Phase(s, ret)'
  <2>1. /\ FdsOf(s) = {client_fd[s], g} /\ k = g /\ client_fd[s] # g
        /\ client_fd[s] \in used /\ client_fd[s] \in Descriptor
        /\ NoFd \notin Descriptor
    BY <1>3, <1>6 DEF Joined, NoFd, Descriptor
  <2>2. connecting(s, k, ret) /\ UNCHANGED threadVars
    BY <1>6 DEF OnWriteReady
  <2>3. /\ origin_fd'[s] = k
        /\ \A o \in Obj : o # s => origin_fd'[o] = origin_fd[o]
    BY <2>2 DEF connecting, TypeOK
  <2> QED
    BY <1>1, <2>1, <2>2, <2>3
    DEF connecting, SetInterests, Leaving, Phase, Joined, TypeOK
<1>7. ASSUME NEW g \in Descriptor, NEW e \in {"READ", "WRITE"},
             g = origin_fd[s],
             \/ Joined(s, g, e, "NOOP") /\ stm[s] \notin {"CAPA", "REQUEST"}
             \/ Joined(s, g, "NOOP", e),
             stm[s] \in {"GREETINGS", "CAPA", "REQUEST", "RESPONSE"}
      PROVE  /\ ret \notin {"no_handler", "not_registered", "DNS_RESOLUTION"}
             /\ UNCHANGED <<origin_fd, threadVars>>
             /\ \A f \in Descriptor : f \notin FdsOf(s) => interest'[f] = interest[f]
             /\ ret = "ERROR" => Leaving(s)
             /\ ret \notin Death \cup {"ERROR"} => Phase(s, ret)'
  <2>1. /\ client_fd[s] \in Descriptor /\ client_fd[s] # g
        /\ FdsOf(s) = {client_fd[s], g} /\ client_fd[s] \in used /\ g \in used
    BY <1>3, <1>7 DEF Joined
  <2>2. UNCHANGED <<origin_fd, threadVars>>
    BY <1>7 DEF OnWriteReady
  <2>3. Leaving(s)
    BY <1>7, <2>1, <2>2 DEF Leaving, NoFd, Descriptor
  <2> QED
    BY <1>1, <1>7, <2>1, <2>2, <2>3
    DEF OnWriteReady, greetings_write, capa_send, request_send, response_send,
        SetInterests, Phase, Joined, TypeOK, Death
<1> QED BY <1>4, <1>5, <1>6, <1>7 DEF Death

\* So does the handler of a resolver's answer, which may register the socket
\* to the origin.
LEMMA BlockPhase ==
  ASSUME TypeOK, NEW s \in Obj, NEW k \in Descriptor, NEW ret,
         k \in FdsOf(s), k \notin Passive, open = used,
         stm[s] = "DNS_RESOLUTION", Phase(s, stm[s]),
         OnBlockReady(s, k, ret), UNCHANGED <<client_fd, origin_fd>>
  PROVE  /\ ret \in {"ERROR", "connected", "CONNECTING"}
         /\ open' = used' /\ used \subseteq used'
         /\ \A f \in used : data'[f] = data[f]
         /\ \A f \in used : f # k => interest'[f] = interest[f]
         /\ \A o \in Obj : o # s => FdsOf(o)' = FdsOf(o)
         /\ ret = "ERROR" => Leaving(s) /\ FdsOf(s)' = FdsOf(s)
         /\ ret = "CONNECTING" => Phase(s, ret)'
<1>1. /\ FdsOf(s) = {k} /\ k = client_fd[s] /\ origin_fd[s] = NoFd
      /\ interest[k] = "NOOP" /\ k \in used /\ NoFd \notin Descriptor
  BY DEF Phase, Alone, FdsOf, NoFd, Descriptor
<1>2. dns_resolution_done(s, k, ret)
  BY DEF OnBlockReady
<1>3. Leaving(s)
  BY <1>1 DEF Leaving
<1>4. CASE /\ ret \in {"ERROR", "connected"}
           /\ UNCHANGED <<tableVars, open>>
  <2>1. \A o : FdsOf(o)' = FdsOf(o)
    BY <1>4 DEF tableVars, FdsOf
  <2> QED BY <1>3, <1>4, <2>1 DEF tableVars
<1>5. ASSUME NEW f \in Descriptor \ open, Registrable(f),
             AttachOrigin(s, k, f), ret = "CONNECTING"
      PROVE  /\ open' = used' /\ used \subseteq used'
             /\ \A g \in used : data'[g] = data[g]
             /\ \A g \in used : g # k => interest'[g] = interest[g]
             /\ \A o \in Obj : o # s => FdsOf(o)' = FdsOf(o)
             /\ Phase(s, ret)'
  <2>1. /\ f \notin used /\ used' = used \cup {f} /\ open' = open \cup {f}
        /\ data' = [data EXCEPT ![f] = s]
        /\ interest' = [interest EXCEPT ![k] = "NOOP", ![f] = "WRITE"]
    BY <1>5 DEF AttachOrigin
  <2>2. /\ FdsOf(s)' = FdsOf(s) \cup {f}
        /\ \A o \in Obj : o # s => FdsOf(o)' = FdsOf(o)
    BY <2>1, FdsAdded
  <2>3. Joined(s, f, "NOOP", "WRITE")'
    BY <1>1, <2>1, <2>2 DEF Joined, TypeOK
  <2>4. Phase(s, ret)'
    BY <1>1, <1>5, <2>3 DEF Phase
  <2>5. /\ \A g \in used : data'[g] = data[g]
        /\ \A g \in used : g # k => interest'[g] = interest[g]
    BY <2>1 DEF TypeOK
  <2> QED BY <2>1, <2>2, <2>4, <2>5
<1>6. ASSUME NEW f \in Descriptor \ open, AbandonOrigin(s, k, f), ret = "ERROR"
      PROVE  /\ open' = used' /\ UNCHANGED <<used, data>>
             /\ \A g \in used : g # k => interest'[g] = interest[g]
             /\ \A o : FdsOf(o)' = FdsOf(o)
  BY <1>6 DEF AbandonOrigin, FdsOf, TypeOK
<1> QED BY <1>2, <1>3, <1>4, <1>5, <1>6
        DEF dns_resolution_done, request_connect

-----------------------------------------------------------------------------
(* A handler and the other sessions *)

\* A handler returns the state ret in session s and leaves the others alone.
Handled(s, ret) ==
  /\ Live' = Live
  /\ \A o \in Live : o # s => /\ FdsOf(o)' = FdsOf(o)
                              /\ client_fd'[o] = client_fd[o]
                              /\ origin_fd'[o] = origin_fd[o]
                              /\ \A f \in FdsOf(o) : interest'[f] = interest[f]
  /\ client_fd'[s] = client_fd[s]
  /\ ret = "ERROR" => Leaving(s) /\ FdsOf(s)' = FdsOf(s)
  /\ ret # "ERROR" => Phase(s, ret)'

\* Every session is in its phase after a handler, and socks_done has work to do
\* exactly when the handler returned ERROR_ST.
LEMMA HandledPhases ==
  ASSUME TypeOK, \A o \in Live : Phase(o, stm[o]), ~InHandler,
         NEW s \in Live, NEW ret, ret \notin Death, Jump(s, ret), Handled(s, ret)
  PROVE  /\ \A o \in Live' : Phase(o, stm[o])'
         /\ stm' = [stm EXCEPT ![s] = ret] /\ pc' = pc
         /\ ret # "ERROR" => ~InHandler'
         /\ ret = "ERROR" => /\ fds'.client # fds'.origin
                             /\ ToClose' = FdsOf(s)
<1>1. s \in Obj /\ Live \subseteq Obj
  BY DEF Live, TypeOK
<1>2. \A o \in Live : stm[o] # "ERROR"
  BY DEF Phase
<1>3. /\ stm' = [stm EXCEPT ![s] = ret] /\ pc' = pc
      /\ fds' = IF ret = "ERROR"
                THEN [client |-> client_fd[s], origin |-> origin_fd'[s]]
                ELSE fds
  BY DEF Jump
<1>4. ASSUME ret = "ERROR"
      PROVE  /\ fds'.client # fds'.origin /\ ToClose' = FdsOf(s)
             /\ InHandler'
  <2>1. client_fd[s] \in FdsOf(s) /\ client_fd[s] # NoFd
    BY <1>1, <1>2, FdsShape DEF NoFd, Descriptor
  <2> QED BY <1>3, <1>4, <2>1 DEF Handled, Leaving, ToClose, InHandler, NoFds
<1>5. ret # "ERROR" => ~InHandler'
  BY <1>3 DEF InHandler
<1>6. ASSUME NEW o \in Live', o # s
      PROVE  Phase(o, stm[o])'
  <2>1. Untouched(o) /\ o \in Live
    BY <1>1, <1>3, <1>6 DEF Handled, Untouched, TypeOK
  <2> QED BY <1>2, <2>1, PhaseKept
<1>7. stm'[s] = ret
  BY <1>1, <1>3 DEF TypeOK
<1>8. Phase(s, ret)'
  <2>1. CASE ret = "ERROR"
    BY <1>4, <2>1 DEF Phase, Handled
  <2> QED BY <2>1 DEF Handled
<1>9. Phase(s, stm[s])'
  BY <1>7, <1>8 DEF Phase
<1> QED BY <1>3, <1>4, <1>5, <1>6, <1>9

\* The scan goes on past k; the other descriptor of k's session was disarmed.
LEMMA SlavesHandled ==
  ASSUME TypeOK, SlaveInv, NEW s \in Obj, Phase(s, stm[s]), stm[s] # "ERROR",
         NEW k \in Descriptor, k \in FdsOf(s),
         NEW event \in {"READ", "WRITE"}, Dispatch(k, event),
         UNCHANGED <<used, pc>>,
         \A f \in Descriptor : f \notin FdsOf(s) => interest'[f] = interest[f]
  PROVE  SlaveInv' /\ FdsOf(s) \cap (slave_r' \cup slave_w') = {}
<1>1. /\ interest[k] = event /\ pc = "iterate"
      /\ slave_r' \subseteq slave_r /\ slave_w' \subseteq slave_w
      /\ k \notin slave_r'
      /\ k \in slave_w' => k \in slave_r /\ k \in slave_w
  BY DEF Dispatch, PassTo, TypeOK, Descriptor
<1>2. k \notin slave_r' /\ k \notin slave_w'
  BY <1>1 DEF SlaveInv
<1>3. \A f \in FdsOf(s) : f # k => f \notin slave_r /\ f \notin slave_w
  BY <1>1, FdsShape DEF SlaveInv
<1>4. FdsOf(s) \cap (slave_r' \cup slave_w') = {}
  BY <1>1, <1>2, <1>3
<1> QED BY <1>1, <1>4 DEF SlaveInv, TypeOK

-----------------------------------------------------------------------------
(* Resolver threads and their jobs *)

\* A step that neither starts nor ends a resolution.
LEMMA ResolverKept ==
  ASSUME TypeOK, TypeOK', OwnerInv, ResolverInv, UNCHANGED <<tkey, jobs>>,
         \A t \in Thread : tpc'[t] = "idle" <=> tpc[t] = "idle",
         \A o \in Obj : o \in Live' /\ stm'[o] = "DNS_RESOLUTION"
                          <=> o \in Live /\ stm[o] = "DNS_RESOLUTION",
         \A o \in Live : stm[o] = "DNS_RESOLUTION" =>
                           client_fd'[o] = client_fd[o],
         \A f \in used : jobs[f] > 0 => f \in used' /\ data'[f] = data[f]
  PROVE  ResolverInv'
<1>1. ASSUME NEW t \in Thread
      PROVE  (IF tpc[t] = "idle"
              THEN tkey[t].data = NULL
              ELSE /\ tkey[t].data \in Live
                   /\ stm[tkey[t].data] = "DNS_RESOLUTION"
                   /\ tkey[t].fd = client_fd[tkey[t].data]
                   /\ jobs[tkey[t].fd] = 0)'
  BY DEF ResolverInv, Live, TypeOK
<1>2. \A t, u \in Thread :
        tkey'[t].data = tkey'[u].data => t = u \/ tkey'[t].data = NULL
  BY DEF ResolverInv
<1>3. \A f \in Descriptor : jobs'[f] > 0 =>
        /\ jobs'[f] = 1
        /\ f \in used' \ Passive
        /\ stm'[data'[f]] = "DNS_RESOLUTION"
  BY DEF ResolverInv, OwnerInv, Live, TypeOK
<1>4. ASSUME NEW o \in Live', stm'[o] = "DNS_RESOLUTION"
      PROVE  \/ JobMallocFails
             \/ jobs'[client_fd'[o]] = 1
             \/ \E t \in Thread : tkey'[t].data = o
  BY <1>4 DEF ResolverInv, Live, TypeOK
<1> QED BY <1>1, <1>2, <1>3, <1>4 DEF ResolverInv

\* A new session starts its resolver.
LEMMA ResolverStarted ==
  ASSUME TypeOK, TypeOK', OwnerInv, ResolverInv, NEW s \in Live, NEW k \in used,
         k = client_fd[s], data[k] = s, stm[s] = "NONE", Started(s, k),
         stm' = [stm EXCEPT ![s] = "DNS_RESOLUTION"], Live' = Live,
         UNCHANGED <<used, data, jobs, client_fd>>
  PROVE  ResolverInv'
<1>1. PICK t \in Thread :
        /\ tpc[t] = "idle"
        /\ tpc' = [tpc EXCEPT ![t] = "lookup"]
        /\ tkey' = [tkey EXCEPT ![t] = [fd |-> k, data |-> s]]
  BY DEF Started
<1>2. /\ s \in Obj /\ s # NULL /\ k \in Descriptor
      /\ tpc'[t] = "lookup" /\ tkey'[t].data = s /\ tkey'[t].fd = k
      /\ \A u \in Thread : u # t => tpc'[u] = tpc[u] /\ tkey'[u] = tkey[u]
      /\ stm'[s] = "DNS_RESOLUTION"
      /\ \A o \in Obj : o # s => stm'[o] = stm[o]
  BY <1>1, ConstantAssumption DEF TypeOK, Live
<1>3. jobs[k] = 0
  BY <1>2 DEF ResolverInv, TypeOK
<1>4. \A u \in Thread : tkey[u].data # s
  BY <1>2 DEF ResolverInv
<1>5. ASSUME NEW u \in Thread
      PROVE  (IF tpc[u] = "idle"
              THEN tkey[u].data = NULL
              ELSE /\ tkey[u].data \in Live
                   /\ stm[tkey[u].data] = "DNS_RESOLUTION"
                   /\ tkey[u].fd = client_fd[tkey[u].data]
                   /\ jobs[tkey[u].fd] = 0)'
  <2>1. CASE u = t
    BY <1>2, <1>3, <2>1
  <2>2. CASE u # t
    BY <1>2, <1>4, <2>2 DEF ResolverInv, TypeOK, Live
  <2> QED BY <2>1, <2>2
<1>6. \A u, v \in Thread :
        tkey'[u].data = tkey'[v].data => u = v \/ tkey'[u].data = NULL
  BY <1>2, <1>4 DEF ResolverInv
<1>7. \A f \in Descriptor : jobs'[f] > 0 =>
        /\ jobs'[f] = 1
        /\ f \in used' \ Passive
        /\ stm'[data'[f]] = "DNS_RESOLUTION"
  BY <1>2 DEF ResolverInv, OwnerInv, Live, TypeOK
<1>8. \A o \in Live' : stm'[o] = "DNS_RESOLUTION" =>
        \/ JobMallocFails
        \/ jobs'[client_fd'[o]] = 1
        \/ \E u \in Thread : tkey'[u].data = o
  <2>1. ASSUME NEW o \in Live, o # s, stm[o] = "DNS_RESOLUTION"
        PROVE  \/ JobMallocFails
               \/ jobs'[client_fd'[o]] = 1
               \/ \E u \in Thread : tkey'[u].data = o
    <3>1. \A u \in Thread : tkey[u].data = o => u # t
      BY <1>1, <1>2, <2>1, ConstantAssumption DEF ResolverInv, Live, TypeOK
    <3> QED BY <1>2, <2>1, <3>1 DEF ResolverInv
  <2> QED BY <1>2, <2>1 DEF Live, TypeOK
<1> QED BY <1>5, <1>6, <1>7, <1>8 DEF ResolverInv

\* A resolver thread ends, with a job for its session or without one.
LEMMA ResolverEnded ==
  ASSUME TypeOK, TypeOK', OwnerInv, ResolverInv, NEW t \in Thread,
         pc \in Serving, \A o \in Live : Phase(o, stm[o]), TableInv,
         selector_notify_block(t)
  PROVE  ResolverInv'
<1>1. /\ tpc[t] # "idle"
      /\ tpc'[t] = "idle" /\ tkey'[t].data = NULL
      /\ \A u \in Thread : u # t => tpc'[u] = tpc[u] /\ tkey'[u] = tkey[u]
      /\ UNCHANGED <<used, data, stm, client_fd, alloc, pool>> /\ Live' = Live
  BY DEF selector_notify_block, NoKey, TypeOK, tableVars, sockVars, heapVars, Live
<1>2. PICK s \in Live : s = tkey[t].data
  BY <1>1 DEF ResolverInv
<1>3. /\ s \in Obj /\ s # NULL /\ stm[s] = "DNS_RESOLUTION"
      /\ FdsOf(s) = {client_fd[s]}
      /\ client_fd[s] = tkey[t].fd /\ jobs[client_fd[s]] = 0
  BY <1>1, <1>2, ConstantAssumption DEF ResolverInv, Phase, Alone, Live, TypeOK
<1>4. client_fd[s] \in used \ Passive /\ data[client_fd[s]] = s
  BY <1>3 DEF FdsOf, TableInv
<1>5. \/ JobMallocFails /\ jobs' = jobs
      \/ jobs' = [jobs EXCEPT ![client_fd[s]] = 1]
  BY <1>3, <1>4 DEF selector_notify_block, Serving, Enqueue, TypeOK
<1>6. /\ jobs' \in {jobs, [jobs EXCEPT ![client_fd[s]] = 1]}
       /\ client_fd[s] \in Descriptor /\ jobs \in [Descriptor -> Nat]
  BY <1>4, <1>5 DEF TypeOK
<1>7. ASSUME NEW u \in Thread
      PROVE  (IF tpc[u] = "idle"
              THEN tkey[u].data = NULL
              ELSE /\ tkey[u].data \in Live
                   /\ stm[tkey[u].data] = "DNS_RESOLUTION"
                   /\ tkey[u].fd = client_fd[tkey[u].data]
                   /\ jobs[tkey[u].fd] = 0)'
  <2>1. CASE u # t /\ tpc[u] # "idle"
    <3>1. PICK o \in Live : o = tkey[u].data
      BY <2>1 DEF ResolverInv
    <3>2. o # s /\ o \in Obj
      BY <1>2, <1>3, <2>1, <3>1 DEF ResolverInv, Live, TypeOK
    <3>3. client_fd[o] # client_fd[s] /\ client_fd[o] \in Descriptor
      <4>1. FdsOf(o) = {client_fd[o]}
        BY <2>1, <3>1 DEF ResolverInv, Phase, Alone
      <4> QED BY <1>4, <3>2, <4>1 DEF FdsOf, TypeOK
    <3>4. /\ stm[o] = "DNS_RESOLUTION" /\ tkey[u].fd = client_fd[o]
          /\ jobs[client_fd[o]] = 0
      BY <2>1, <3>1 DEF ResolverInv
    <3>5. jobs'[client_fd[o]] = 0
      BY <1>6, <3>3, <3>4
    <3> QED BY <1>1, <2>1, <3>1, <3>4, <3>5
  <2> QED BY <1>1, <2>1 DEF ResolverInv
<1>8. \A u, v \in Thread :
        tkey'[u].data = tkey'[v].data => u = v \/ tkey'[u].data = NULL
  BY <1>1 DEF ResolverInv
<1>9. \A f \in Descriptor : jobs'[f] > 0 =>
        /\ jobs'[f] = 1
        /\ f \in used' \ Passive
        /\ stm'[data'[f]] = "DNS_RESOLUTION"
  <2>1. \A f \in Descriptor : jobs[f] > 0 =>
          /\ jobs[f] = 1
          /\ f \in used \ Passive
          /\ stm[data[f]] = "DNS_RESOLUTION"
    BY DEF ResolverInv
  <2> QED BY <1>1, <1>3, <1>4, <1>6, <2>1
<1>10. \A o \in Live' : stm'[o] = "DNS_RESOLUTION" =>
        \/ JobMallocFails
        \/ jobs'[client_fd'[o]] = 1
        \/ \E u \in Thread : tkey'[u].data = o
  <2>1. ASSUME NEW o \in Live, stm[o] = "DNS_RESOLUTION", o # s,
               jobs' = [jobs EXCEPT ![client_fd[s]] = 1]
        PROVE  \/ JobMallocFails
               \/ jobs'[client_fd[o]] = 1
               \/ \E u \in Thread : u # t /\ tkey[u].data = o
    BY <1>2, <2>1 DEF ResolverInv, TypeOK
  <2>2. jobs' = [jobs EXCEPT ![client_fd[s]] = 1] => jobs'[client_fd[s]] = 1
    BY <1>4 DEF TypeOK
  <2> QED BY <1>1, <1>5, <2>1, <2>2
<1> QED BY <1>7, <1>8, <1>9, <1>10 DEF ResolverInv

\* The answer of a resolver reaches its session, which leaves DNS_RESOLUTION.
LEMMA ResolverAnswered ==
  ASSUME TypeOK, TypeOK', OwnerInv, ResolverInv,
         \A o \in Live : Phase(o, stm[o]),
         NEW k \in Descriptor, jobs[k] > 0, jobs' = [jobs EXCEPT ![k] = @ - 1],
         NEW s \in Live, s = data[k], NEW ret, ret # "DNS_RESOLUTION",
         stm' = [stm EXCEPT ![s] = ret], Live' = Live,
         UNCHANGED <<tpc, tkey, client_fd>>,
         used \subseteq used', \A f \in used : data'[f] = data[f]
  PROVE  ResolverInv'
<1>1. /\ jobs[k] = 1 /\ k \in used \ Passive /\ stm[s] = "DNS_RESOLUTION"
      /\ s \in Obj /\ s # NULL
  BY ConstantAssumption DEF ResolverInv, Live, TypeOK
<1>2. k = client_fd[s]
  BY <1>1 DEF Phase, Alone, FdsOf
<1>3. /\ jobs'[k] = 0
      /\ \A f \in Descriptor : f # k => jobs'[f] = jobs[f]
      /\ stm'[s] = ret /\ \A o \in Obj : o # s => stm'[o] = stm[o]
  BY <1>1 DEF TypeOK
<1>4. \A t \in Thread : tkey[t].data # s
  BY <1>1, <1>2 DEF ResolverInv
<1>5. ASSUME NEW o \in Live, o # s, stm[o] = "DNS_RESOLUTION"
      PROVE  client_fd[o] # k /\ client_fd[o] \in Descriptor
  <2>1. FdsOf(o) = {client_fd[o]}
    BY <1>5 DEF Phase, Alone
  <2> QED BY <1>1, <1>5, <2>1 DEF FdsOf, TypeOK
<1>6. ASSUME NEW t \in Thread
      PROVE  (IF tpc[t] = "idle"
              THEN tkey[t].data = NULL
              ELSE /\ tkey[t].data \in Live
                   /\ stm[tkey[t].data] = "DNS_RESOLUTION"
                   /\ tkey[t].fd = client_fd[tkey[t].data]
                   /\ jobs[tkey[t].fd] = 0)'
  <2>1. CASE tpc[t] = "idle"
    BY <2>1 DEF ResolverInv
  <2>2. CASE tpc[t] # "idle"
    <3>1. PICK o \in Live : o = tkey[t].data
      BY <2>2 DEF ResolverInv
    <3>2. /\ o # s /\ o \in Obj /\ stm[o] = "DNS_RESOLUTION"
          /\ tkey[t].fd = client_fd[o] /\ jobs[client_fd[o]] = 0
      BY <1>4, <2>2, <3>1 DEF ResolverInv, Live, TypeOK
    <3> QED BY <1>3, <1>5, <2>2, <3>1, <3>2
  <2> QED BY <2>1, <2>2
<1>7. \A t, u \in Thread :
        tkey'[t].data = tkey'[u].data => t = u \/ tkey'[t].data = NULL
  BY DEF ResolverInv
<1>8. ASSUME NEW f \in Descriptor, jobs'[f] > 0
      PROVE  /\ jobs'[f] = 1
             /\ f \in used' \ Passive
             /\ stm'[data'[f]] = "DNS_RESOLUTION"
  <2>1. f # k /\ jobs[f] > 0
    BY <1>3, <1>8
  <2>2. /\ jobs[f] = 1 /\ f \in used \ Passive
        /\ stm[data[f]] = "DNS_RESOLUTION" /\ data[f] \in Live
    BY <2>1 DEF ResolverInv, OwnerInv
  <2>3. data[f] # s
    <3>1. FdsOf(s) = {k}
      BY <1>1, <1>2 DEF Phase, Alone
    <3> QED BY <2>1, <2>2, <3>1 DEF FdsOf
  <2> QED BY <1>3, <2>1, <2>2, <2>3 DEF Live, TypeOK
<1>9. ASSUME NEW o \in Live', stm'[o] = "DNS_RESOLUTION"
      PROVE  \/ JobMallocFails
             \/ jobs'[client_fd'[o]] = 1
             \/ \E t \in Thread : tkey'[t].data = o
  <2>1. o \in Live /\ o # s /\ stm[o] = "DNS_RESOLUTION"
    BY <1>3, <1>9 DEF Live, TypeOK
  <2>2. jobs'[client_fd[o]] = jobs[client_fd[o]]
    BY <1>3, <1>5, <2>1
  <2> QED BY <2>1, <2>2 DEF ResolverInv
<1> QED BY <1>6, <1>7, <1>8, <1>9 DEF ResolverInv

-----------------------------------------------------------------------------
(* Every step *)

\* A step that no session notices.
LEMMA QuietStep ==
  ASSUME TypeOK, TableInv, \A o \in Live : Phase(o, stm[o]), ClosingInv,
         UNCHANGED <<tableVars, stm, client_fd, origin_fd, alloc, pool, open, fds>>
  PROVE  /\ TableInv' /\ \A o \in Live' : Phase(o, stm[o])'
         /\ Live' = Live /\ ToClose' = ToClose /\ (InHandler' <=> InHandler)
<1>1. /\ Live' = Live /\ ToClose' = ToClose /\ (InHandler' <=> InHandler)
      /\ \A o : FdsOf(o)' = FdsOf(o)
  BY DEF tableVars, Live, ToClose, InHandler, FdsOf
<1>2. ASSUME NEW o \in Live
      PROVE  Phase(o, stm[o])'
  <2>1. CASE stm[o] = "ERROR"
    BY <1>1, <2>1 DEF Phase
  <2>2. CASE stm[o] # "ERROR"
    <3>1. Untouched(o)
      BY <1>1 DEF Untouched, tableVars
    <3> QED BY <2>2, <3>1, PhaseKept
  <2> QED BY <2>1, <2>2
<1>3. TableInv'
  BY DEF TableInv, tableVars
<1> QED BY <1>1, <1>2, <1>3

\* Once the loop is left it is not entered again, and no handler runs.
LEMMA LoopLeft ==
  ASSUME pc \notin Serving, NoAbort, [Next]_vars
  PROVE  pc' \notin Serving /\ NoAbort'
<1> USE DEF Serving, NoAbort
<1>1. CASE UNCHANGED vars
  BY <1>1 DEF vars
<1>2. CASE \/ pselect \/ pselect_interrupted \/ pselect_fails \/ EndIteration
           \/ EndNotifications \/ sigterm_handler
  BY <1>2 DEF pselect, pselect_interrupted, pselect_fails, EndIteration,
              EndNotifications, sigterm_handler
<1>3. CASE FreeSelector \/ socks_pool_destroy \/ CloseServers
  BY <1>3 DEF FreeSelector, socks_pool_destroy, CloseServers
<1>4. ASSUME NEW t \in Thread, Lookup(t) \/ selector_notify_block(t)
      PROVE  pc' \notin Serving /\ NoAbort'
  BY <1>4 DEF Lookup, selector_notify_block
<1>5. ASSUME NEW k \in Descriptor,
             \/ socks_passive_accept_fails(k) \/ socks_passive_accept(k)
             \/ socks_read(k) \/ socks_write(k) \/ socks_block(k)
      PROVE  FALSE
  BY <1>5 DEF socks_passive_accept_fails, socks_passive_accept, socks_read,
              socks_write, socks_block, Dispatch
<1>6. ASSUME NEW end \in {"client", "origin"}, socks_done(end)
      PROVE  FALSE
  BY <1>6 DEF socks_done
<1>7. ASSUME NEW f \in Descriptor, DestroyItem(f)
      PROVE  pc' \notin Serving /\ NoAbort'
  BY <1>7 DEF DestroyItem
<1> QED BY <1>1, <1>2, <1>3, <1>4, <1>5, <1>6, <1>7 DEF Next, Main, Halted

\* What a handler called for an event leaves behind, apart from the resolvers.
LEMMA EventStep ==
  ASSUME TypeOK, OwnerInv, ServingInv, pc \in Serving,
         NEW k \in Descriptor, NEW event \in {"READ", "WRITE"}, Dispatch(k, event),
         NEW s \in Live, s = data[k], k \in FdsOf(s),
         UNCHANGED <<used, data, client_fd, open, alloc, pool>>,
         NEW ret, Jump(s, ret), ret \notin {"no_handler", "not_registered"},
         \A f \in Descriptor : f \notin FdsOf(s) => interest'[f] = interest[f],
         \A o \in Obj : o # s => origin_fd'[o] = origin_fd[o],
         ret = "ERROR" => Leaving(s),
         ret \notin Death \cup {"ERROR"} => Phase(s, ret)',
         ret \notin Death => ResolverInv'
  PROVE  ServingInv' /\ NoAbort'
<1>1. CASE ret \in Death
  BY <1>1 DEF Jump, Death, Serving, ServingInv, NoAbort
<1>2. CASE ret \notin Death
  <2>1. /\ \A o \in Live : Phase(o, stm[o])
        /\ TableInv /\ SlaveInv /\ ~InHandler /\ pc = "iterate"
    BY DEF ServingInv, Dispatch
  <2>2. s \in Obj /\ Phase(s, stm[s]) /\ stm[s] # "ERROR"
    BY <2>1 DEF Phase, Live, TypeOK
  <2>3. Live' = Live /\ \A o : FdsOf(o)' = FdsOf(o)
    BY DEF Live, FdsOf
  <2>4. Handled(s, ret)
    <3>1. \A o \in Live : o # s =>
            /\ o \in Obj
            /\ \A f \in FdsOf(o) : f \in Descriptor /\ f \notin FdsOf(s)
      BY DEF FdsOf, TypeOK, Live
    <3> QED BY <1>2, <2>3, <3>1 DEF Handled
  <2>5. /\ \A o \in Live' : Phase(o, stm[o])'
        /\ stm' = [stm EXCEPT ![s] = ret] /\ pc' = pc
        /\ ret # "ERROR" => ~InHandler'
        /\ ret = "ERROR" => fds'.client # fds'.origin /\ ToClose' = FdsOf(s)
    BY <1>2, <2>1, <2>4, HandledPhases
  <2>6. SlaveInv' /\ FdsOf(s) \cap (slave_r' \cup slave_w') = {}
    BY <2>1, <2>2, <2>5, SlavesHandled
  <2>7. TableInv'
    <3>1. \A p \in Passive : p \in Descriptor /\ p \notin FdsOf(s)
      BY <2>1, <2>2, PassiveAssumption, ConstantAssumption DEF TableInv, FdsOf
    <3> QED BY <2>1, <3>1 DEF TableInv
  <2>8. ClosingInv'
    BY <2>1, <2>2, <2>3, <2>5, <2>6 DEF ClosingInv, TypeOK
  <2> QED BY <1>2, <2>1, <2>5, <2>6, <2>7, <2>8 DEF ServingInv, NoAbort
<1> QED BY <1>1, <1>2

\* A readable descriptor of a session.
LEMMA ReadStep ==
  ASSUME TypeOK, TypeOK', OwnerInv, ServingInv, pc \in Serving,
         NEW k \in Descriptor, socks_read(k)
  PROVE  ServingInv' /\ NoAbort'
<1>1. /\ k \notin Passive /\ Dispatch(k, "READ")
      /\ k \in used /\ interest[k] = "READ" /\ ~InHandler
      /\ UNCHANGED <<used, data, jobs, client_fd, origin_fd, open, tpc, tkey,
                     alloc, pool>>
  BY DEF socks_read, Dispatch, Turn, Pending, heapVars, threadVars
<1>2. PICK s \in Obj : s = data[k] /\ s \in Live /\ k \in FdsOf(s)
  BY <1>1, Bound
<1>3. PICK ret \in Result : OnReadReady(s, k, ret) /\ Jump(s, ret)
  BY <1>2 DEF socks_read
<1>4. Phase(s, stm[s]) /\ stm[s] # "ERROR" /\ ResolverInv
  BY <1>1, <1>2 DEF Phase, ServingInv
<1>5. /\ ret \notin {"no_handler", "not_registered"}
      /\ \A f \in Descriptor : f \notin FdsOf(s) => interest'[f] = interest[f]
      /\ ret = "ERROR" => Leaving(s)
      /\ ret \notin Death \cup {"ERROR"} => Phase(s, ret)'
  BY <1>1, <1>2, <1>3, <1>4, ReadPhase
<1>6. ASSUME ret \notin Death
      PROVE  ResolverInv'
  <2>1. ret # "DNS_RESOLUTION" /\ stm[s] # "DNS_RESOLUTION"
    BY <1>1, <1>2, <1>3, <1>4, OnReadType DEF Phase, Alone
  <2>2. stm' = [stm EXCEPT ![s] = ret] /\ Live' = Live
    BY <1>1, <1>3, <1>6 DEF Jump, Live
  <2>3. \A o \in Obj : o \in Live' /\ stm'[o] = "DNS_RESOLUTION"
                         <=> o \in Live /\ stm[o] = "DNS_RESOLUTION"
    BY <2>1, <2>2 DEF TypeOK
  <2> QED BY <1>1, <1>4, <2>3, ResolverKept
<1> QED BY <1>1, <1>2, <1>3, <1>5, <1>6, EventStep

\* A writable descriptor of a session.
LEMMA WriteStep ==
  ASSUME TypeOK, TypeOK', OwnerInv, ServingInv, pc \in Serving,
         NEW k \in Descriptor, socks_write(k)
  PROVE  ServingInv' /\ NoAbort'
<1>1. /\ k \notin Passive /\ Dispatch(k, "WRITE")
      /\ k \in used /\ interest[k] = "WRITE" /\ ~InHandler
      /\ UNCHANGED <<used, data, jobs, client_fd, open, alloc, pool>>
  BY DEF socks_write, Dispatch, Turn, Pending, heapVars
<1>2. PICK s \in Obj : s = data[k] /\ s \in Live /\ k \in FdsOf(s)
  BY <1>1, Bound
<1>3. PICK ret \in Result : OnWriteReady(s, k, ret) /\ Jump(s, ret)
  BY <1>2 DEF socks_write
<1>4. Phase(s, stm[s]) /\ ResolverInv
  BY <1>2 DEF ServingInv
<1>5. /\ ret \notin {"no_handler", "not_registered"}
      /\ \A f \in Descriptor : f \notin FdsOf(s) => interest'[f] = interest[f]
      /\ \A o \in Obj : o # s => origin_fd'[o] = origin_fd[o]
      /\ ret = "ERROR" => Leaving(s)
      /\ ret \notin Death \cup {"ERROR"} => Phase(s, ret)'
      /\ stm[s] # "DNS_RESOLUTION"
      /\ \/ ret # "DNS_RESOLUTION" /\ UNCHANGED threadVars
         \/ /\ ret = "DNS_RESOLUTION" /\ stm[s] = "NONE"
            /\ k = client_fd[s] /\ Started(s, k)
  BY <1>1, <1>2, <1>3, <1>4, WritePhase
<1>6. ASSUME ret \notin Death
      PROVE  ResolverInv'
  <2>1. stm' = [stm EXCEPT ![s] = ret] /\ Live' = Live
    BY <1>1, <1>3, <1>6 DEF Jump, Live
  <2>2. CASE ret # "DNS_RESOLUTION" /\ UNCHANGED threadVars
    <3>1. \A o \in Obj : o \in Live' /\ stm'[o] = "DNS_RESOLUTION"
                           <=> o \in Live /\ stm[o] = "DNS_RESOLUTION"
      BY <1>5, <2>1, <2>2 DEF TypeOK
    <3> QED BY <1>1, <1>4, <2>2, <3>1, ResolverKept DEF threadVars
  <2>3. CASE /\ ret = "DNS_RESOLUTION" /\ stm[s] = "NONE"
             /\ k = client_fd[s] /\ Started(s, k)
    BY <1>1, <1>2, <1>4, <2>1, <2>3, ResolverStarted
  <2> QED BY <1>5, <2>2, <2>3
<1> QED BY <1>1, <1>2, <1>3, <1>5, <1>6, EventStep

\* A resolver's job presented to its session.
LEMMA BlockStep ==
  ASSUME TypeOK, TypeOK', OwnerInv, ServingInv, pc \in Serving,
         NEW k \in Descriptor, socks_block(k)
  PROVE  ServingInv' /\ NoAbort'
<1>1. /\ pc = "notify" /\ ~InHandler /\ jobs[k] > 0
      /\ jobs' = [jobs EXCEPT ![k] = @ - 1]
      /\ UNCHANGED <<slave_r, slave_w, client_fd, alloc, pool, tpc, tkey>>
  BY DEF socks_block, slaveVars, heapVars, threadVars
<1>2. /\ \A o \in Live : Phase(o, stm[o])
      /\ TableInv /\ ResolverInv /\ slave_r = {} /\ slave_w = {}
  BY <1>1 DEF ServingInv, SlaveInv
<1>3. k \in used /\ k \notin Passive /\ stm[data[k]] = "DNS_RESOLUTION"
  BY <1>1, <1>2 DEF ResolverInv
<1>4. PICK s \in Obj : s = data[k] /\ s \in Live /\ k \in FdsOf(s)
  BY <1>3, Bound
<1>5. PICK ret \in Result : /\ OnBlockReady(s, k, ret) /\ Jump(s, ret)
                            /\ UNCHANGED origin_fd
  BY <1>3, <1>4 DEF socks_block
<1>6. /\ ret \in {"ERROR", "connected", "CONNECTING"}
      /\ open' = used' /\ used \subseteq used'
      /\ \A f \in used : data'[f] = data[f]
      /\ \A f \in used : f # k => interest'[f] = interest[f]
      /\ \A o \in Obj : o # s => FdsOf(o)' = FdsOf(o)
      /\ ret = "ERROR" => Leaving(s) /\ FdsOf(s)' = FdsOf(s)
      /\ ret = "CONNECTING" => Phase(s, ret)'
  BY <1>1, <1>2, <1>3, <1>4, <1>5, BlockPhase DEF TableInv
<1>7. CASE ret = "connected"
  BY <1>5, <1>7 DEF Jump, Death, Serving, ServingInv, NoAbort
<1>8. CASE ret # "connected"
  <2>1. ret \notin Death
    BY <1>6, <1>8 DEF Death
  <2>2. Live' = Live
    BY <1>1 DEF Live
  <2>3. Handled(s, ret)
    <3>1. \A o \in Live : o # s => /\ o \in Obj
                                   /\ \A f \in FdsOf(o) : f \in used /\ f # k
      BY <1>4 DEF FdsOf, TypeOK, Live
    <3> QED BY <1>1, <1>5, <1>6, <1>8, <2>2, <3>1 DEF Handled
  <2>4. /\ \A o \in Live' : Phase(o, stm[o])'
        /\ stm' = [stm EXCEPT ![s] = ret] /\ pc' = pc
        /\ ret # "ERROR" => ~InHandler'
        /\ ret = "ERROR" => fds'.client # fds'.origin /\ ToClose' = FdsOf(s)
    BY <1>1, <1>2, <1>4, <1>5, <2>1, <2>3, HandledPhases
  <2>5. SlaveInv'
    BY <1>1, <1>2 DEF SlaveInv
  <2>6. TableInv'
    BY <1>2, <1>3, <1>6 DEF TableInv
  <2>7. ResolverInv'
    BY <1>1, <1>2, <1>4, <1>6, <2>2, <2>4, ResolverAnswered
  <2>8. ClosingInv'
    BY <1>1, <1>2, <1>4, <2>2, <2>4 DEF ClosingInv, TypeOK
  <2> QED BY <1>1, <2>4, <2>5, <2>6, <2>7, <2>8 DEF ServingInv, NoAbort
<1> QED BY <1>7, <1>8

\* A new client, registered or turned away.
LEMMA AcceptStep ==
  ASSUME TypeOK, TypeOK', OwnerInv, ServingInv, pc \in Serving,
         NEW k \in Descriptor, socks_passive_accept(k)
  PROVE  ServingInv' /\ NoAbort'
<1>1. /\ pc = "iterate" /\ pc' = pc /\ ~InHandler /\ ~InHandler'
      /\ slave_r' \subseteq slave_r /\ slave_w' \subseteq slave_w
      /\ UNCHANGED <<jobs, tpc, tkey>>
  BY DEF socks_passive_accept, Dispatch, PassTo, threadVars, InHandler
<1>2. /\ \A o \in Live : Phase(o, stm[o]) /\ stm[o] # "ERROR"
      /\ TableInv /\ ResolverInv /\ SlaveInv
  BY <1>1 DEF ServingInv, Phase
<1>3. PICK client \in Descriptor \ open, s \in Available :
        /\ stm' = [stm EXCEPT ![s] = "NONE"]
        /\ client_fd' = [client_fd EXCEPT ![s] = client]
        /\ origin_fd' = [origin_fd EXCEPT ![s] = NoFd]
        /\ \/ /\ used' = used \cup {client}
              /\ interest' = [interest EXCEPT ![client] = "WRITE"]
              /\ data' = [data EXCEPT ![client] = s]
              /\ open' = open \cup {client}
              /\ alloc' = alloc \cup {s} /\ pool' = pool \ {s}
           \/ /\ UNCHANGED <<used, data, interest, open>>
              /\ \/ alloc' = alloc \cup {s} /\ pool' = pool \cup {s}
                 \/ alloc' = alloc \ {s} /\ pool' = pool \ {s}
  BY DEF socks_passive_accept, tableVars
<1>4. /\ s \in Obj /\ s \notin Live /\ (s \in pool \/ s \notin alloc)
      /\ s # NULL /\ client \notin used /\ client \in Descriptor
  BY <1>2, <1>3, ConstantAssumption DEF Available, TypeOK, Live, TableInv
<1>5. \A o \in Obj : o # s => /\ stm'[o] = stm[o]
                              /\ client_fd'[o] = client_fd[o]
                              /\ origin_fd'[o] = origin_fd[o]
  BY <1>3 DEF TypeOK
<1>6. /\ \A f \in used : f \in used' /\ data'[f] = data[f]
                         /\ interest'[f] = interest[f]
      /\ \A o \in Obj : o # s => FdsOf(o)' = FdsOf(o)
      /\ TableInv'
  <2>1. CASE UNCHANGED <<used, data, interest, open>>
    BY <1>2, <2>1 DEF FdsOf, TableInv
  <2>2. CASE /\ used' = used \cup {client}
             /\ interest' = [interest EXCEPT ![client] = "WRITE"]
             /\ data' = [data EXCEPT ![client] = s]
             /\ open' = open \cup {client}
    <3>1. \A f \in used : f \in used' /\ data'[f] = data[f]
                          /\ interest'[f] = interest[f]
      BY <1>4, <2>2 DEF TypeOK
    <3>2. \A o \in Obj : o # s => FdsOf(o)' = FdsOf(o)
      BY <1>4, <2>2, FdsAdded
    <3>3. TableInv'
      BY <1>2, <2>2, <3>1 DEF TableInv
    <3> QED BY <3>1, <3>2, <3>3
  <2> QED BY <1>3, <2>1, <2>2
<1>7. \A o \in Live : Untouched(o) /\ o # s /\ o \in Obj
  BY <1>4, <1>5, <1>6 DEF Untouched, FdsOf, Live, TypeOK
<1>8. \/ Live' = Live
      \/ Live' = Live \cup {s} /\ Phase(s, "NONE")'
  <2>1. CASE /\ used' = used \cup {client}
             /\ interest' = [interest EXCEPT ![client] = "WRITE"]
             /\ data' = [data EXCEPT ![client] = s]
             /\ alloc' = alloc \cup {s} /\ pool' = pool \ {s}
    <3>1. FdsOf(s) = {}
      BY <1>4 DEF FdsOf, OwnerInv
    <3>2. FdsOf(s)' = {client}
      BY <1>4, <2>1, <3>1, FdsAdded
    <3>3. Phase(s, "NONE")'
      BY <1>3, <1>4, <2>1, <3>2 DEF Phase, Alone, TypeOK
    <3> QED BY <1>4, <2>1, <3>3 DEF Live
  <2> QED BY <1>3, <1>4, <2>1 DEF Live
<1>9. \A o \in Live' : Phase(o, stm[o])'
  <2>1. \A o \in Live : Phase(o, stm[o])'
    BY <1>2, <1>7, PhaseKept
  <2>2. stm'[s] = "NONE"
    BY <1>3, <1>4 DEF TypeOK
  <2>3. Phase(s, "NONE")' => Phase(s, stm[s])'
    BY <2>2 DEF Phase
  <2> QED BY <1>8, <2>1, <2>3
<1>10. SlaveInv'
  BY <1>1, <1>2, <1>6 DEF SlaveInv
<1>11. ResolverInv'
  <2>1. \A o \in Obj : o \in Live' /\ stm'[o] = "DNS_RESOLUTION"
                         <=> o \in Live /\ stm[o] = "DNS_RESOLUTION"
    BY <1>3, <1>4, <1>5, <1>8 DEF TypeOK
  <2>2. \A o \in Live : client_fd'[o] = client_fd[o]
    BY <1>5, <1>7
  <2> QED BY <1>1, <1>2, <1>6, <2>1, <2>2, ResolverKept
<1> QED BY <1>1, <1>6, <1>9, <1>10, <1>11
        DEF ServingInv, ClosingInv, NoAbort

\* socks_done gives up one of the descriptors of the session in ERROR_ST.
LEMMA DoneStep ==
  ASSUME TypeOK, TypeOK', OwnerInv, RefInv, ServingInv, pc \in Serving, NoAbort,
         NEW end \in {"client", "origin"}, socks_done(end)
  PROVE  ServingInv' /\ NoAbort'
<1>1. /\ \A o \in Live : Phase(o, stm[o])
      /\ TableInv /\ ClosingInv /\ ResolverInv /\ SlaveInv
  BY DEF ServingInv
<1>2. InHandler /\ fds[end] \in ToClose
  BY DEF socks_done, InHandler, NoFds, ToClose, TypeOK
<1>3. PICK s \in Live : stm[s] = "ERROR"
  BY <1>1, <1>2 DEF ClosingInv
<1>4. PICK f \in used : f = fds[end] /\ f \in FdsOf(s)
  BY <1>1, <1>2, <1>3 DEF Phase, FdsOf
<1>5. /\ s \in Obj /\ s # NULL /\ f \in Descriptor /\ data[f] = s
      /\ FdsOf(s) = ToClose
      /\ f \notin slave_r /\ f \notin slave_w
  BY <1>1, <1>2, <1>3, <1>4, ConstantAssumption
  DEF Phase, ClosingInv, FdsOf, Live, TypeOK
<1>6. /\ Unregister(f) /\ open' = open \ {f} /\ pc' = pc
      /\ fds' = [fds EXCEPT ![end] = NoFd]
      /\ UNCHANGED <<slave_r, slave_w, jobs, stm, client_fd, origin_fd, tpc, tkey>>
  BY <1>4 DEF socks_done, slaveVars, threadVars
<1>7. /\ used' = used \ {f}
      /\ data' = [data EXCEPT ![f] = NULL]
      /\ interest' = [interest EXCEPT ![f] = "NOOP"]
      /\ socks_destroy(s)
      /\ \A g \in used' : data'[g] = data[g] /\ interest'[g] = interest[g]
  BY <1>5, <1>6 DEF Unregister, TypeOK
<1>8. \A o \in Obj : FdsOf(o)' = FdsOf(o) \ {f}
  BY <1>5, <1>7, FdsRemoved
<1>9. ToClose' = ToClose \ {f} /\ (InHandler' <=> ToClose' # {})
  <2>1. fds.client # fds.origin
    BY <1>1, <1>2 DEF ClosingInv
  <2>2. CASE end = "client"
    BY <1>4, <1>6, <2>1, <2>2 DEF ToClose, InHandler, NoFds, TypeOK
  <2>3. CASE end = "origin"
    BY <1>4, <1>6, <2>1, <2>3 DEF ToClose, InHandler, NoFds, TypeOK
  <2> QED BY <2>2, <2>3
<1>10. /\ Live' \subseteq Live /\ Live \ {s} \subseteq Live'
       /\ s \in Live' <=> FdsOf(s) # {f}
  <2>1. RefShape(s) /\ s \in alloc /\ s \notin pool
    BY <1>3 DEF RefInv, Live
  <2>2. references[s] = 1 <=> FdsOf(s) = {f}
    BY <1>4, <2>1 DEF RefShape
  <2> QED BY <1>7, <2>1, <2>2 DEF socks_destroy, heapVars, Live
<1>11. \A o \in Live' : Phase(o, stm[o])'
  <2>1. ASSUME NEW o \in Live, o # s
        PROVE  Phase(o, stm[o])'
    <3>1. o \in Obj /\ f \notin FdsOf(o)
      BY <1>5, <2>1 DEF FdsOf, Live, TypeOK
    <3>2. stm[o] # "ERROR"
      BY <1>1, <1>4, <1>5, <2>1, <3>1 DEF Phase
    <3>3. Untouched(o)
      BY <1>6, <1>7, <1>8, <3>1 DEF Untouched, FdsOf
    <3> QED BY <1>1, <2>1, <3>2, <3>3, PhaseKept
  <2>2. ASSUME s \in Live'
        PROVE  Phase(s, stm[s])'
    <3>1. FdsOf(s)' = ToClose' /\ ToClose' # {}
      BY <1>4, <1>5, <1>8, <1>9, <1>10, <2>2
    <3> QED BY <1>3, <1>6, <1>9, <3>1 DEF Phase
  <2> QED BY <1>10, <2>1, <2>2
<1>12. ClosingInv'
  <2> SUFFICES ASSUME InHandler' PROVE ClosingInv'
    BY DEF ClosingInv
  <2>1. s \in Live'
    BY <1>5, <1>9, <1>10
  <2>2. fds'.client # fds'.origin
    BY <1>4, <1>5, <1>6, <1>9 DEF ToClose, InHandler, NoFds, TypeOK, NoFd, Descriptor
  <2> QED BY <1>1, <1>2, <1>3, <1>6, <1>9, <2>1, <2>2 DEF ClosingInv
<1>13. TableInv' /\ SlaveInv'
  <2>1. f \notin Passive
    BY <1>1, <1>5 DEF TableInv
  <2> QED BY <1>1, <1>5, <1>6, <1>7, <2>1 DEF TableInv, SlaveInv
<1>14. ResolverInv'
  <2>1. \A o \in Obj : o \in Live' /\ stm'[o] = "DNS_RESOLUTION"
                         <=> o \in Live /\ stm[o] = "DNS_RESOLUTION"
    BY <1>3, <1>6, <1>10
  <2>2. \A g \in used : jobs[g] > 0 => g \in used' /\ data'[g] = data[g]
    BY <1>1, <1>3, <1>5, <1>7 DEF ResolverInv, TypeOK
  <2> QED BY <1>1, <1>6, <2>1, <2>2, ResolverKept
<1> QED BY <1>6, <1>11, <1>12, <1>13, <1>14 DEF ServingInv, NoAbort

\* The loop itself, the signal and an accept that fails.
LEMMA LoopStep ==
  ASSUME TypeOK, TypeOK', OwnerInv, ServingInv, pc \in Serving, NoAbort,
         \/ pselect \/ pselect_interrupted \/ pselect_fails \/ EndIteration
         \/ EndNotifications \/ sigterm_handler \/ UNCHANGED vars
         \/ \E k \in Descriptor : socks_passive_accept_fails(k)
  PROVE  ServingInv' /\ NoAbort'
<1>1. /\ \A o \in Live : Phase(o, stm[o])
      /\ TableInv /\ ClosingInv /\ ResolverInv /\ SlaveInv
  BY DEF ServingInv
<1>2. /\ UNCHANGED <<tableVars, stm, client_fd, origin_fd, alloc, pool, open, fds>>
      /\ UNCHANGED <<jobs, tpc, tkey>>
  BY DEF pselect, pselect_interrupted, pselect_fails, EndIteration,
         EndNotifications, sigterm_handler, socks_passive_accept_fails, vars,
         sockVars, heapVars, threadVars
<1>3. /\ TableInv' /\ \A o \in Live' : Phase(o, stm[o])'
      /\ Live' = Live /\ ToClose' = ToClose /\ (InHandler' <=> InHandler)
  BY <1>1, <1>2, QuietStep
<1>4. ResolverInv'
  BY <1>1, <1>2, <1>3, ResolverKept DEF tableVars
<1>5. /\ pc' \in Serving \cup {"destroy"}
      /\ pc = "select" => ~InHandler
  BY <1>1 DEF pselect, pselect_interrupted, pselect_fails, EndIteration,
              EndNotifications, AfterTurn, sigterm_handler, vars, Serving,
              socks_passive_accept_fails, ClosingInv
<1>6. SlaveInv' /\ ClosingInv'
  <2>1. CASE pselect
    BY <1>1, <1>3, <1>5, <2>1
    DEF pselect, Armed, SlaveInv, ClosingInv, tableVars
  <2>2. CASE pselect_interrupted \/ pselect_fails
    BY <1>1, <1>2, <1>3, <1>5, <2>2
    DEF pselect_interrupted, pselect_fails, SlaveInv, ClosingInv, slaveVars,
        tableVars
  <2>3. CASE EndIteration
    BY <1>1, <1>3, <2>3 DEF EndIteration, SlaveInv, ClosingInv
  <2>4. CASE EndNotifications
    BY <1>1, <1>2, <1>3, <2>4
    DEF EndNotifications, SlaveInv, ClosingInv, slaveVars, tableVars
  <2>5. CASE sigterm_handler \/ UNCHANGED vars
    <3>1. UNCHANGED <<slave_r, slave_w, pc, stm>>
      BY <1>2, <2>5 DEF sigterm_handler, vars, slaveVars
    <3> QED BY <1>1, <1>2, <1>3, <3>1 DEF SlaveInv, ClosingInv, tableVars
  <2>6. ASSUME NEW k \in Descriptor, socks_passive_accept_fails(k)
        PROVE  SlaveInv' /\ ClosingInv'
    <3>1. /\ pc = "iterate" /\ pc' = pc /\ ~InHandler
          /\ slave_r' \subseteq slave_r /\ slave_w' \subseteq slave_w
      BY <2>6 DEF socks_passive_accept_fails, Dispatch, PassTo
    <3> QED BY <1>1, <1>2, <1>3, <3>1 DEF SlaveInv, ClosingInv, tableVars
  <2> QED BY <2>1, <2>2, <2>3, <2>4, <2>5, <2>6
<1> QED BY <1>3, <1>4, <1>5, <1>6 DEF ServingInv, NoAbort, Serving

\* A resolver thread goes on, or ends.
LEMMA ThreadStep ==
  ASSUME TypeOK, TypeOK', OwnerInv, ServingInv, pc \in Serving, NoAbort,
         NEW t \in Thread, Lookup(t) \/ selector_notify_block(t)
  PROVE  ServingInv' /\ NoAbort'
<1>1. /\ \A o \in Live : Phase(o, stm[o])
      /\ TableInv /\ ClosingInv /\ ResolverInv /\ SlaveInv
  BY DEF ServingInv
<1>2. UNCHANGED <<tableVars, stm, client_fd, origin_fd, alloc, pool, open, fds,
                  slave_r, slave_w>>
  BY DEF Lookup, selector_notify_block, sockVars, heapVars, slaveVars
<1>3. /\ TableInv' /\ \A o \in Live' : Phase(o, stm[o])'
      /\ Live' = Live /\ ToClose' = ToClose /\ (InHandler' <=> InHandler)
  BY <1>1, <1>2, QuietStep
<1>4. pc' = pc /\ ResolverInv'
  <2>1. CASE Lookup(t)
    <3>1. tpc[t] # "idle" /\ tkey[t].data \in alloc
      BY <1>1, <2>1 DEF Lookup, ResolverInv, Live
    <3>2. /\ UNCHANGED <<pc, tkey, jobs>>
          /\ \A u \in Thread : tpc'[u] = "idle" <=> tpc[u] = "idle"
      BY <2>1, <3>1 DEF Lookup, TypeOK
    <3> QED BY <1>1, <1>2, <1>3, <3>2, ResolverKept DEF tableVars
  <2>2. CASE selector_notify_block(t)
    <3>1. pc' = pc
      BY <2>2 DEF selector_notify_block, Serving
    <3> QED BY <1>1, <2>2, <3>1, ResolverEnded
  <2> QED BY <2>1, <2>2
<1>5. SlaveInv' /\ ClosingInv'
  BY <1>1, <1>2, <1>3, <1>4 DEF SlaveInv, ClosingInv, tableVars
<1> QED BY <1>3, <1>4, <1>5 DEF ServingInv, NoAbort

\* All the steps of the loop, the handlers and the threads.
LEMMA ServingStep ==
  ASSUME IInv, ServingInv, NoAbort, [Next]_vars
  PROVE  ServingInv' /\ NoAbort'
<1>1. CASE pc \notin Serving
  BY <1>1, LoopLeft DEF ServingInv
<1>2. CASE pc \in Serving
  <2>1. TypeOK /\ TypeOK' /\ OwnerInv /\ RefInv
    BY StepIInv DEF IInv
  <2>2. CASE \/ pselect \/ pselect_interrupted \/ pselect_fails \/ EndIteration
             \/ EndNotifications \/ sigterm_handler \/ UNCHANGED vars
             \/ \E k \in Descriptor : socks_passive_accept_fails(k)
    BY <1>2, <2>1, <2>2, LoopStep
  <2>3. CASE \E t \in Thread : Lookup(t) \/ selector_notify_block(t)
    BY <1>2, <2>1, <2>3, ThreadStep
  <2>4. CASE \E k \in Descriptor : socks_passive_accept(k)
    BY <1>2, <2>1, <2>4, AcceptStep
  <2>5. CASE \E k \in Descriptor : socks_read(k) \/ socks_write(k)
    BY <1>2, <2>1, <2>5, ReadStep, WriteStep
  <2>6. CASE \E k \in Descriptor : socks_block(k)
    BY <1>2, <2>1, <2>6, BlockStep
  <2>7. CASE \E end \in {"client", "origin"} : socks_done(end)
    BY <1>2, <2>1, <2>7, DoneStep
  <2>8. CASE \/ FreeSelector \/ socks_pool_destroy \/ CloseServers
             \/ \E f \in Descriptor : DestroyItem(f)
    BY <1>2, <2>8 DEF Serving, FreeSelector, socks_pool_destroy, CloseServers,
                      DestroyItem
  <2> QED BY <2>2, <2>3, <2>4, <2>5, <2>6, <2>7, <2>8 DEF Next, Main, Halted
<1> QED BY <1>1, <1>2

\* The shutdown: with no descriptor registered no struct is live.
LEMMA ShutdownStep ==
  ASSUME IInv, ShutdownInv, [Next]_vars
  PROVE  ShutdownInv'
<1>1. ASSUME pc' = "pool" \/ pc' = "close" \/ pc' = "exit",
             UNCHANGED <<pc, used, alloc>>
      PROVE  ShutdownInv'
  BY <1>1 DEF ShutdownInv
<1>2. ASSUME pc' \notin {"pool", "close", "exit"}
      PROVE  ShutdownInv'
  BY <1>2 DEF ShutdownInv
<1>3. CASE FreeSelector
  BY <1>3 DEF FreeSelector, ShutdownInv, tableVars
<1>4. CASE socks_pool_destroy
  <2>1. used = {}
    BY <1>4 DEF socks_pool_destroy, ShutdownInv
  <2>2. Live = {}
    BY <2>1 DEF IInv, RefInv, RefShape, FdsOf
  <2> QED BY <1>4, <2>2 DEF socks_pool_destroy, ShutdownInv, Live
<1>5. CASE CloseServers
  BY <1>5 DEF CloseServers, ShutdownInv, heapVars
<1>6. CASE UNCHANGED vars
  BY <1>6 DEF vars, tableVars, heapVars, ShutdownInv
<1>7. CASE \/ pselect \/ pselect_interrupted \/ pselect_fails \/ EndIteration
           \/ EndNotifications
  BY <1>2, <1>7 DEF pselect, pselect_interrupted, pselect_fails, EndIteration,
                    EndNotifications, AfterTurn
<1>8. CASE sigterm_handler
  BY <1>2, <1>8 DEF sigterm_handler, Serving
<1>9. ASSUME NEW t \in Thread, Lookup(t) \/ selector_notify_block(t)
      PROVE  ShutdownInv'
  BY <1>1, <1>2, <1>9 DEF Lookup, selector_notify_block, tableVars, heapVars
<1>10. ASSUME NEW k \in Descriptor,
              \/ socks_passive_accept_fails(k) \/ socks_passive_accept(k)
       PROVE  ShutdownInv'
  BY <1>2, <1>10 DEF socks_passive_accept_fails, socks_passive_accept, Dispatch
<1>11. ASSUME NEW k \in Descriptor, socks_read(k) \/ socks_write(k)
       PROVE  ShutdownInv'
  BY <1>2, <1>11 DEF socks_read, socks_write, Dispatch, Jump, Death
<1>12. ASSUME NEW k \in Descriptor, socks_block(k)
       PROVE  ShutdownInv'
  BY <1>2, <1>12 DEF socks_block, Jump, Death
<1>13. ASSUME NEW end \in {"client", "origin"}, socks_done(end)
       PROVE  ShutdownInv'
  BY <1>2, <1>13 DEF socks_done
<1>14. ASSUME NEW f \in Descriptor, DestroyItem(f)
       PROVE  ShutdownInv'
  BY <1>2, <1>14 DEF DestroyItem
<1> QED BY <1>3, <1>4, <1>5, <1>6, <1>7, <1>8, <1>9, <1>10, <1>11, <1>12,
           <1>13, <1>14 DEF Next, Main, Halted

-----------------------------------------------------------------------------
(* The theorems *)

\* The invariant holds at the start ...
LEMMA InitSession == Init => SessionInv
<1> SUFFICES ASSUME Init PROVE SessionInv
  OBVIOUS
<1>1. IInv
  BY InitIInv
<1>2. Live = {} /\ ~InHandler
  BY DEF Init, Live, InHandler
<1>3. TableInv
  BY PassiveAssumption DEF Init, TableInv
<1>4. ResolverInv
  BY <1>2, PassiveAssumption DEF Init, ResolverInv, NoKey
<1> QED BY <1>1, <1>2, <1>3, <1>4
        DEF Init, SessionInv, ServingInv, ClosingInv, SlaveInv, NoAbort,
            ShutdownInv

\* ... and every step keeps it.
LEMMA StepSession == SessionInv /\ [Next]_vars => SessionInv'
  BY StepIInv, ServingStep, ShutdownStep DEF SessionInv

\* In every behaviour each session holds the descriptors, armed as its state
\* calls for, one resolver thread or job works for a session that resolves a
\* name, and socks_done has to do with one session in ERROR_ST.
THEOREM SessionsInvariant == Spec => []SessionInv
  BY InitSession, StepSession, PTL DEF Spec

\* While the proxy serves no descriptor is open without being registered, nor
\* registered without being open: every failed accept, connect and register
\* undoes exactly what it did.
THEOREM NoLeak == Spec => []NoDescriptorLeak
<1>1. SessionInv => NoDescriptorLeak
  BY DEF SessionInv, ServingInv, TableInv, NoDescriptorLeak
<1> QED BY <1>1, SessionsInvariant, PTL

\* No event reaches a state that has no handler for it, and socks_done never
\* unregisters a free item: the two abort()s of stm.c and socks_nio.c are not
\* reached.
THEOREM NeverAborts == Spec => []NoAbort
<1>1. SessionInv => NoAbort
  BY DEF SessionInv
<1> QED BY <1>1, SessionsInvariant, PTL

\* What a resolver thread and its job refer to is a live session that waits
\* for them, on the descriptor it was accepted with.
THEOREM ResolversLive == Spec => []ResolverLive
<1>1. SessionInv => ResolverLive
  <2> SUFFICES ASSUME SessionInv, pc \in Serving PROVE ResolverLive
    BY DEF ResolverLive
  <2>1. ResolverInv /\ \A o \in Live : Phase(o, stm[o])
    BY DEF SessionInv, ServingInv
  <2>2. \A o \in Live : stm[o] = "DNS_RESOLUTION" => client_fd[o] \in FdsOf(o)
    BY <2>1 DEF Phase, Alone
  <2> QED BY <2>1, <2>2 DEF ResolverInv, ResolverLive
<1> QED BY <1>1, SessionsInvariant, PTL

\* What pselect reported for a descriptor still stands when handle_iteration
\* comes to it.
THEOREM EventsStand == Spec => []ReportedEventsStand
<1>1. SessionInv => ReportedEventsStand
  BY DEF SessionInv, ServingInv, Serving, SlaveInv, ReportedEventsStand
<1> QED BY <1>1, SessionsInvariant, PTL

\* When main returns every struct sock has been freed.
THEOREM ShutdownFrees == Spec => []ShutdownFreesAll
<1>1. SessionInv => ShutdownFreesAll
  BY DEF SessionInv, ShutdownInv, ShutdownFreesAll
<1> QED BY <1>1, SessionsInvariant, PTL

\* A session in its phase that does not resolve a name has one armed descriptor.
LEMMA OneArmed ==
  ASSUME NEW o, Phase(o, stm[o]), stm[o] \notin {"DNS_RESOLUTION", "ERROR"}
  PROVE  \E g : {f \in FdsOf(o) : interest[f] # "NOOP"} = {g}
<1>1. ASSUME Alone(o, "WRITE")
      PROVE  \E g : {f \in FdsOf(o) : interest[f] # "NOOP"} = {g}
  BY <1>1 DEF Alone
<1>2. ASSUME NEW h, NEW e \in {"READ", "WRITE"},
             Joined(o, h, e, "NOOP") \/ Joined(o, h, "NOOP", e)
      PROVE  \E g : {f \in FdsOf(o) : interest[f] # "NOOP"} = {g}
  BY <1>2 DEF Joined
<1> QED BY <1>1, <1>2 DEF Phase

\* Between two handlers each session waits for exactly one thing: an armed
\* descriptor, a resolver thread or a job; for nothing only when the job of its
\* resolver could not be allocated.
THEOREM OneWakeUp == Spec => []SingleWakeUp
<1>1. SessionInv => SingleWakeUp
  <2> SUFFICES ASSUME SessionInv, pc \in Serving, ~InHandler, NEW o \in Live
               PROVE  \/ WakeUps(o) = 1
                      \/ /\ JobMallocFails /\ stm[o] = "DNS_RESOLUTION"
                         /\ WakeUps(o) = 0
    BY DEF SingleWakeUp
  <2> DEFINE A == {f \in FdsOf(o) : interest[f] # "NOOP"}
             T == {t \in Thread : tkey[t].data = o}
             J == {f \in FdsOf(o) : jobs[f] > 0}
  <2>0. WakeUps(o) = Cardinality(A) + Cardinality(T) + Cardinality(J)
    BY DEF WakeUps
  <2>1. /\ Phase(o, stm[o]) /\ stm[o] # "ERROR" /\ ResolverInv
        /\ o \in Obj /\ o # NULL /\ TypeOK
        /\ \A f \in FdsOf(o) : f \in Descriptor /\ data[f] = o
    BY ConstantAssumption
    DEF SessionInv, ServingInv, Phase, IInv, TypeOK, Live, FdsOf
  <2>2. /\ Cardinality({}) = 0
        /\ \A x : Cardinality({x}) = 1
    BY FS_EmptySet, FS_Singleton
  <2>3. CASE stm[o] # "DNS_RESOLUTION"
    <3>1. \E g : A = {g}
      BY <2>1, <2>3, OneArmed
    <3>2. T = {}
      BY <2>1, <2>3 DEF ResolverInv
    <3>3. J = {}
      BY <2>1, <2>3 DEF ResolverInv
    <3> HIDE DEF A, T, J
    <3> QED BY <2>0, <2>2, <3>1, <3>2, <3>3
  <2>4. CASE stm[o] = "DNS_RESOLUTION"
    <3>1. FdsOf(o) = {client_fd[o]} /\ interest[client_fd[o]] = "NOOP"
      BY <2>1, <2>4 DEF Phase, Alone
    <3>2. A = {}
      BY <3>1
    <3>3. CASE T # {}
      <4>1. PICK t \in Thread : tkey[t].data = o
        BY <3>3
      <4>2. T = {t}
        BY <2>1, <4>1 DEF ResolverInv
      <4>3. jobs[client_fd[o]] = 0
        BY <2>1, <4>1 DEF ResolverInv
      <4>4. J = {}
        BY <3>1, <4>3
      <4> HIDE DEF A, T, J
      <4> QED BY <2>0, <2>2, <3>2, <4>2, <4>4
    <3>4. CASE T = {} /\ jobs[client_fd[o]] > 0
      <4>1. J = {client_fd[o]}
        BY <3>1, <3>4
      <4> HIDE DEF A, T, J
      <4> QED BY <2>0, <2>2, <3>2, <3>4, <4>1
    <3>5. CASE T = {} /\ ~(jobs[client_fd[o]] > 0)
      <4>1. J = {}
        BY <3>1, <3>5
      <4>2. JobMallocFails
        <5>1. jobs[client_fd[o]] # 1
          BY <3>5
        <5>2. ~\E t \in Thread : tkey[t].data = o
          BY <3>5
        <5> QED BY <2>1, <2>4, <5>1, <5>2 DEF ResolverInv
      <4>3. WakeUps(o) = 0
        <5> HIDE DEF A, T, J
        <5> QED BY <2>0, <2>2, <3>2, <3>5, <4>1
      <4> QED BY <2>4, <4>2, <4>3
    <3> QED BY <3>3, <3>4, <3>5
  <2> QED BY <2>3, <2>4
<1> QED BY <1>1, SessionsInvariant, PTL
=============================================================================

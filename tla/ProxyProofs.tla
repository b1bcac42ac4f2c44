---------------------------- MODULE ProxyProofs ----------------------------
(***************************************************************************)
(* Proofs about Proxy for every number of descriptors, structs, threads    *)
(* and connections: the types, the exactness of the reference counts, the  *)
(* soundness of the pool and the implementation of SockLease.              *)
(***************************************************************************)
EXTENDS Proxy, FiniteSetTheorems, TLAPS

\* The states of a session that has one reference because it has not connected.
Early == {"NONE", "DNS_RESOLUTION"}

\* What the reference counts see of a step: nothing, a struct lent to a new
\* client, a struct shared with the origin's descriptor, or a descriptor
\* unregistered.
Unseen ==
  /\ UNCHANGED <<used, data>>
  /\ Live' = Live
  /\ \A o \in Live : references'[o] = references[o]

Lent(s, f) ==
  /\ s \in Obj /\ s \notin Live
  /\ f \in Descriptor /\ f \notin used
  /\ used' = used \cup {f}
  /\ data' = [data EXCEPT ![f] = s]
  /\ references' = [references EXCEPT ![s] = 1]
  /\ Live' = Live \cup {s}

Shared(s, f) ==
  /\ s \in Live /\ references[s] = 1
  /\ f \in Descriptor /\ f \notin used
  /\ used' = used \cup {f}
  /\ data' = [data EXCEPT ![f] = s]
  /\ references' = [references EXCEPT ![s] = 2]
  /\ Live' = Live

\* No live session falls back to a state before its connection.
NoneEarlier == \A o \in Live : stm'[o] \in Early => stm[o] \in Early

\* The part of RefInv that does not look at the states of the sessions.
CountInv == OwnerInv /\ \A o \in Live : RefShape(o)

LeaseStep == [Lease!Next]_(Lease!vars)

-----------------------------------------------------------------------------
(* Types *)

LEMMA InitType == Init => TypeOK
<1> SUFFICES ASSUME Init PROVE TypeOK
  OBVIOUS
<1>1. /\ used \subseteq Descriptor /\ open \subseteq Descriptor
      /\ slave_r \subseteq Descriptor /\ slave_w \subseteq Descriptor
      /\ alloc \subseteq Obj /\ pool \subseteq Obj
  BY PassiveAssumption DEF Init
<1>2. /\ interest \in [Descriptor -> Interest]
      /\ data \in [Descriptor -> Obj \cup {NULL}]
      /\ jobs \in [Descriptor -> Nat]
  BY DEF Init, Interest
<1>3. /\ stm \in [Obj -> SocksState]
      /\ client_fd \in [Obj -> End]
      /\ origin_fd \in [Obj -> End]
      /\ references \in [Obj -> Nat]
      /\ resolution \in [Obj -> BOOLEAN]
  BY DEF Init, SocksState, End
<1>4. /\ tpc \in [Thread -> {"idle", "lookup", "notify"}]
      /\ tkey \in [Thread -> [fd : End, data : Obj \cup {NULL}]]
      /\ fds \in [client : End, origin : End]
  BY DEF Init, NoKey, NoFds, End
<1>5. /\ pool_size \in Nat /\ pc \in Control /\ done \in BOOLEAN
      /\ historic_connections \in Nat /\ curent_connections \in Nat
  BY DEF Init, Control, Serving
<1> QED BY <1>1, <1>2, <1>3, <1>4, <1>5 DEF TypeOK

\* A dispatched descriptor is registered, and a session's is bound to a live
\* struct.
LEMMA Dispatched ==
  ASSUME TypeOK, OwnerInv, NEW k \in Descriptor, NEW event, Dispatch(k, event)
  PROVE  /\ k \in used
         /\ k \notin Passive => data[k] \in Live /\ data[k] \in Obj
         /\ slave_r' \subseteq Descriptor /\ slave_w' \subseteq Descriptor
  BY DEF Dispatch, Turn, Pending, PassTo, TypeOK, OwnerInv, Live

\* The states a read handler can return, and the types of what it assigns.
LEMMA OnReadType ==
  ASSUME TypeOK, NEW s \in Obj, NEW k \in Descriptor, NEW ret,
         OnReadReady(s, k, ret)
  PROVE  /\ interest' \in [Descriptor -> Interest]
         /\ ret \notin {"NONE", "DNS_RESOLUTION"}
<1>0. interest \in [Descriptor -> Interest]
  BY DEF TypeOK
<1> USE <1>0 DEF Interest, SetInterests
<1>1. CASE stm[s] = "GREETINGS" /\ greetings_read(s, k, ret)
  BY <1>1 DEF greetings_read
<1>2. CASE stm[s] = "CAPA" /\ capa_read(s, k, ret)
  BY <1>2 DEF capa_read
<1>3. CASE stm[s] = "REQUEST" /\ request_read(s, k, ret)
  BY <1>3 DEF request_read
<1>4. CASE stm[s] = "RESPONSE" /\ response_read(s, k, ret)
  BY <1>4 DEF response_read
<1>5. CASE ret = "no_handler" /\ UNCHANGED interest
  BY <1>5
<1> QED BY <1>1, <1>2, <1>3, <1>4, <1>5 DEF OnReadReady

LEMMA OnWriteType ==
  ASSUME TypeOK, NEW s \in Obj, NEW k \in Descriptor, NEW ret,
         OnWriteReady(s, k, ret)
  PROVE  /\ interest' \in [Descriptor -> Interest]
         /\ origin_fd' \in [Obj -> End]
         /\ tpc' \in [Thread -> {"idle", "lookup", "notify"}]
         /\ tkey' \in [Thread -> [fd : End, data : Obj \cup {NULL}]]
         /\ ret \in {"NONE", "DNS_RESOLUTION"} =>
              stm[s] \in {"NONE", "DNS_RESOLUTION"}
<1>0. /\ interest \in [Descriptor -> Interest]
      /\ origin_fd \in [Obj -> End]
      /\ tpc \in [Thread -> {"idle", "lookup", "notify"}]
      /\ tkey \in [Thread -> [fd : End, data : Obj \cup {NULL}]]
  BY DEF TypeOK
<1> USE <1>0 DEF Interest, SetInterests
<1>1. CASE /\ stm[s] \in {"NONE", "DNS_RESOLUTION"}
           /\ dns_resolution(s, k, ret)
           /\ UNCHANGED origin_fd
  BY <1>1 DEF dns_resolution, threadVars, End
<1>2. CASE connecting(s, k, ret) /\ UNCHANGED threadVars
  BY <1>2 DEF connecting, threadVars, End
<1>3. CASE greetings_write(s, k, ret) /\ UNCHANGED <<origin_fd, threadVars>>
  BY <1>3 DEF greetings_write, threadVars
<1>4. CASE capa_send(s, k, ret) /\ UNCHANGED <<origin_fd, threadVars>>
  BY <1>4 DEF capa_send, threadVars
<1>5. CASE request_send(s, k, ret) /\ UNCHANGED <<origin_fd, threadVars>>
  BY <1>5 DEF request_send, threadVars
<1>6. CASE response_send(s, k, ret) /\ UNCHANGED <<origin_fd, threadVars>>
  BY <1>6 DEF response_send, threadVars
<1>7. CASE /\ ret = "no_handler" /\ UNCHANGED interest
           /\ UNCHANGED <<origin_fd, threadVars>>
  BY <1>7 DEF threadVars
<1> QED BY <1>1, <1>2, <1>3, <1>4, <1>5, <1>6, <1>7 DEF OnWriteReady

\* Unregistering keeps the types: a live struct has a reference to give up.
LEMMA UnregisterType ==
  ASSUME TypeOK, OwnerInv, RefInv, NEW f \in used, Unregister(f)
  PROVE  /\ used' \subseteq Descriptor
         /\ interest' \in [Descriptor -> Interest]
         /\ data' \in [Descriptor -> Obj \cup {NULL}]
         /\ references' \in [Obj -> Nat]
         /\ alloc' \subseteq Obj
         /\ pool' \subseteq Obj
         /\ pool_size' \in Nat
<1>1. /\ used' \subseteq Descriptor
      /\ interest' \in [Descriptor -> Interest]
      /\ data' \in [Descriptor -> Obj \cup {NULL}]
  BY DEF Unregister, TypeOK, Interest
<1>2. CASE data[f] = NULL
  BY <1>1, <1>2 DEF Unregister, heapVars, TypeOK
<1>3. CASE data[f] # NULL
  <2>1. data[f] \in Live /\ data[f] \in Obj
    BY <1>3 DEF OwnerInv, Live, TypeOK
  <2>2. references[data[f]] \in {1, 2}
    BY <2>1 DEF RefInv, RefShape
  <2>3. socks_destroy(data[f])
    BY <1>3 DEF Unregister
  <2> QED BY <1>1, <2>1, <2>2, <2>3 DEF socks_destroy, heapVars, TypeOK
<1> QED BY <1>2, <1>3

\* What Jump does to the types, and what it says of the new state.
LEMMA JumpType ==
  ASSUME TypeOK, NEW s \in Obj, NEW ret \in Result, Jump(s, ret),
         origin_fd' \in [Obj -> End]
  PROVE  /\ stm' \in [Obj -> SocksState]
         /\ fds' \in [client : End, origin : End]
         /\ pc' \in Control
  BY DEF Jump, TypeOK, Result, Control, Stopped

LEMMA BlockType ==
  ASSUME TypeOK, NEW s, NEW k \in Descriptor, NEW ret,
         s \in Obj \/ k \in Passive, OnBlockReady(s, k, ret)
  PROVE  /\ used' \subseteq Descriptor
         /\ interest' \in [Descriptor -> Interest]
         /\ data' \in [Descriptor -> Obj \cup {NULL}]
         /\ open' \subseteq Descriptor
         /\ references' \in [Obj -> Nat]
         /\ resolution' \in [Obj -> BOOLEAN]
<1>0. /\ used \subseteq Descriptor
      /\ interest \in [Descriptor -> Interest]
      /\ data \in [Descriptor -> Obj \cup {NULL}]
      /\ open \subseteq Descriptor
      /\ references \in [Obj -> Nat]
      /\ resolution \in [Obj -> BOOLEAN]
  BY DEF TypeOK
<1>1. CASE UNCHANGED <<tableVars, open, references, resolution>>
  BY <1>0, <1>1 DEF tableVars
<1>2. CASE /\ s \in Obj
           /\ resolution' = [resolution EXCEPT ![s] = FALSE]
           /\ request_connect(s, k, ret)
  BY <1>0, <1>2 DEF request_connect, AttachOrigin, AbandonOrigin, tableVars,
                    Interest
<1> QED BY <1>1, <1>2 DEF OnBlockReady, dns_resolution_done

LEMMA TypeStep ==
  ASSUME TypeOK, OwnerInv, RefInv, PoolInv, [Next]_vars
  PROVE  TypeOK'
<1>1. CASE UNCHANGED vars
  BY <1>1 DEF TypeOK, vars, tableVars, slaveVars, sockVars, heapVars,
              threadVars, statVars
<1>2. CASE pselect
  BY <1>2 DEF TypeOK, pselect, Armed, tableVars, sockVars, heapVars,
              threadVars, statVars, Control, Serving
<1>3. CASE pselect_interrupted \/ pselect_fails \/ EndNotifications
  BY <1>3 DEF TypeOK, pselect_interrupted, pselect_fails, EndNotifications,
              AfterTurn, tableVars, slaveVars, sockVars, heapVars,
              threadVars, statVars, Control, Serving
<1>4. CASE EndIteration
  BY <1>4 DEF TypeOK, EndIteration, tableVars, sockVars, heapVars,
              threadVars, statVars, Control, Serving
<1>5. CASE sigterm_handler
  BY <1>5 DEF TypeOK, sigterm_handler, tableVars, slaveVars, sockVars,
              heapVars, threadVars, statVars
<1>6. CASE FreeSelector \/ socks_pool_destroy \/ CloseServers
  BY <1>6 DEF TypeOK, FreeSelector, socks_pool_destroy, CloseServers,
              tableVars, slaveVars, sockVars, heapVars, threadVars, statVars,
              Control, Stopped, Death
<1>7. ASSUME NEW t \in Thread, Lookup(t)
      PROVE  TypeOK'
  BY <1>7 DEF TypeOK, Lookup, tableVars, slaveVars, heapVars, statVars,
              Control, Stopped, Death
<1>8. ASSUME NEW t \in Thread, selector_notify_block(t)
      PROVE  TypeOK'
  BY <1>8 DEF TypeOK, selector_notify_block, Enqueue, NoKey, End, tableVars,
              slaveVars, sockVars, heapVars, statVars, Control, Stopped, Death
<1>9. ASSUME NEW k \in Descriptor, socks_passive_accept_fails(k)
      PROVE  TypeOK'
  BY <1>9, Dispatched DEF TypeOK, socks_passive_accept_fails, tableVars,
              sockVars, heapVars, threadVars, statVars
<1>10. ASSUME NEW k \in Descriptor, socks_passive_accept(k)
       PROVE  TypeOK'
  <2>1. slave_r' \subseteq Descriptor /\ slave_w' \subseteq Descriptor
    BY <1>10, Dispatched DEF socks_passive_accept
  <2>2. (IF pool # {} THEN pool_size - 1 ELSE pool_size) \in Nat
    BY FS_EmptySet DEF TypeOK, PoolInv
  <2> DEFINE taken == IF pool # {} THEN pool_size - 1 ELSE pool_size
  <2> HIDE DEF taken
  <2>3. PICK client \in Descriptor \ open, s \in Available :
          /\ stm' = [stm EXCEPT ![s] = "NONE"]
          /\ client_fd' = [client_fd EXCEPT ![s] = client]
          /\ origin_fd' = [origin_fd EXCEPT ![s] = NoFd]
          /\ resolution' = [resolution EXCEPT ![s] = FALSE]
          /\ \/ /\ used' = used \cup {client}
                /\ interest' = [interest EXCEPT ![client] = "WRITE"]
                /\ data' = [data EXCEPT ![client] = s]
                /\ open' = open \cup {client}
                /\ references' = [references EXCEPT ![s] = 1]
                /\ alloc' = alloc \cup {s}
                /\ pool' = pool \ {s}
                /\ pool_size' = taken
                /\ historic_connections' = historic_connections + 1
                /\ curent_connections' = curent_connections + 1
             \/ /\ UNCHANGED <<tableVars, open, statVars>>
                /\ references' = [references EXCEPT ![s] = 0]
                /\ alloc' = alloc \cup {s}
                /\ pool' = pool \cup {s}
                /\ pool_size' = taken + 1
             \/ /\ UNCHANGED <<tableVars, open, statVars>>
                /\ references' = [references EXCEPT ![s] = 1]
                /\ alloc' = alloc \ {s}
                /\ pool' = pool \ {s}
                /\ pool_size' = taken
    BY <1>10 DEF socks_passive_accept, taken
  <2>4. s \in Obj
    BY <2>3 DEF Available, TypeOK
  <2>5. taken \in Nat
    BY <2>2 DEF taken
  <2>6. UNCHANGED <<jobs, threadVars, pc, fds, done>>
    BY <1>10 DEF socks_passive_accept
  <2> QED
    BY <2>1, <2>3, <2>4, <2>5, <2>6
    DEF TypeOK, SocksState, Interest, End, tableVars, threadVars, statVars
<1>11. ASSUME NEW k \in Descriptor, socks_read(k)
       PROVE  TypeOK'
  <2>1. PICK ret \in Result : /\ OnReadReady(data[k], k, ret)
                              /\ UNCHANGED origin_fd
                              /\ Jump(data[k], ret)
    BY <1>11 DEF socks_read
  <2>2. /\ data[k] \in Obj
        /\ slave_r' \subseteq Descriptor /\ slave_w' \subseteq Descriptor
    BY <1>11, Dispatched DEF socks_read
  <2>3. interest' \in [Descriptor -> Interest]
    BY <2>1, <2>2, OnReadType
  <2>4. origin_fd' \in [Obj -> End]
    BY <2>1 DEF TypeOK
  <2>5. /\ stm' \in [Obj -> SocksState]
        /\ fds' \in [client : End, origin : End]
        /\ pc' \in Control
    BY <2>1, <2>2, <2>4, JumpType
  <2>6. UNCHANGED <<used, data, jobs, client_fd, references, resolution,
                    heapVars, open, threadVars, done, statVars>>
    BY <1>11 DEF socks_read
  <2> QED BY <2>2, <2>3, <2>4, <2>5, <2>6
          DEF TypeOK, heapVars, threadVars, statVars
<1>12. ASSUME NEW k \in Descriptor, socks_write(k)
       PROVE  TypeOK'
  <2>1. PICK ret \in Result : /\ OnWriteReady(data[k], k, ret)
                              /\ Jump(data[k], ret)
    BY <1>12 DEF socks_write
  <2>2. /\ data[k] \in Obj
        /\ slave_r' \subseteq Descriptor /\ slave_w' \subseteq Descriptor
    BY <1>12, Dispatched DEF socks_write
  <2>3. /\ interest' \in [Descriptor -> Interest]
        /\ origin_fd' \in [Obj -> End]
        /\ tpc' \in [Thread -> {"idle", "lookup", "notify"}]
        /\ tkey' \in [Thread -> [fd : End, data : Obj \cup {NULL}]]
    BY <2>1, <2>2, OnWriteType
  <2>4. /\ stm' \in [Obj -> SocksState]
        /\ fds' \in [client : End, origin : End]
        /\ pc' \in Control
    BY <2>1, <2>2, <2>3, JumpType
  <2>5. UNCHANGED <<used, data, jobs, client_fd, references, resolution,
                    heapVars, open, done, statVars>>
    BY <1>12 DEF socks_write
  <2> QED BY <2>2, <2>3, <2>4, <2>5 DEF TypeOK, heapVars, statVars
<1>13. ASSUME NEW k \in Descriptor, socks_block(k)
       PROVE  TypeOK'
  <2>1. /\ jobs' \in [Descriptor -> Nat]
        /\ UNCHANGED <<slaveVars, client_fd, heapVars, threadVars, done,
                       statVars>>
    BY <1>13 DEF socks_block, TypeOK
  <2>2. CASE k \notin used
    BY <1>13, <2>1, <2>2 DEF socks_block, TypeOK, tableVars, slaveVars,
                             sockVars, heapVars, threadVars, statVars
  <2>3. CASE k \in used
    <3>1. PICK ret \in Result : /\ UNCHANGED origin_fd
                                /\ OnBlockReady(data[k], k, ret)
                                /\ Jump(data[k], ret)
      BY <1>13, <2>3 DEF socks_block
    <3>2. data[k] \in Obj \/ k \in Passive
      BY <2>3 DEF OwnerInv, Live, TypeOK
    <3>3. /\ used' \subseteq Descriptor
          /\ interest' \in [Descriptor -> Interest]
          /\ data' \in [Descriptor -> Obj \cup {NULL}]
          /\ open' \subseteq Descriptor
          /\ references' \in [Obj -> Nat]
          /\ resolution' \in [Obj -> BOOLEAN]
      BY <3>1, <3>2, BlockType
    <3>4. /\ stm' \in [Obj -> SocksState]
          /\ fds' \in [client : End, origin : End]
          /\ pc' \in Control
      <4>1. CASE k \in Passive
        <5>1. ret = "no_handler"
          BY <3>1, <4>1 DEF OnBlockReady
        <5> QED BY <3>1, <5>1 DEF Jump, Death, TypeOK, Control, Stopped
      <4>2. CASE data[k] \in Obj
        <5>1. origin_fd' \in [Obj -> End]
          BY <3>1 DEF TypeOK
        <5> QED BY <3>1, <4>2, <5>1, JumpType
      <4> QED BY <3>2, <4>1, <4>2
    <3> QED BY <2>1, <3>1, <3>3, <3>4
            DEF TypeOK, slaveVars, heapVars, threadVars, statVars
  <2> QED BY <2>2, <2>3
<1>14. ASSUME NEW end \in {"client", "origin"}, socks_done(end)
       PROVE  TypeOK'
  <2>1. UNCHANGED <<slaveVars, jobs, stm, client_fd, origin_fd, resolution,
                    threadVars, done, statVars>>
    BY <1>14 DEF socks_done
  <2>2. CASE fds[end] \in used
    <3>1. /\ Unregister(fds[end])
          /\ open' = open \ {fds[end]}
          /\ fds' = [fds EXCEPT ![end] = NoFd]
          /\ UNCHANGED pc
      BY <1>14, <2>2 DEF socks_done
    <3>2. fds' \in [client : End, origin : End]
      BY <3>1 DEF TypeOK, End
    <3> QED BY <2>1, <2>2, <3>1, <3>2, UnregisterType
            DEF TypeOK, slaveVars, threadVars, statVars
  <2>3. CASE fds[end] \notin used
    BY <1>14, <2>1, <2>3 DEF socks_done, TypeOK, tableVars, slaveVars, heapVars,
       threadVars, statVars, Control, Stopped, Death
  <2> QED BY <2>2, <2>3
<1>15. ASSUME NEW f \in Descriptor, DestroyItem(f)
       PROVE  TypeOK'
  BY <1>15, UnregisterType
     DEF TypeOK, DestroyItem, slaveVars, threadVars, statVars
<1> QED
  BY <1>1, <1>2, <1>3, <1>4, <1>5, <1>6, <1>7, <1>8, <1>9, <1>10, <1>11,
     <1>12, <1>13, <1>14, <1>15 DEF Next, Main, Halted

-----------------------------------------------------------------------------
(* References *)

LEMMA FdsAdded ==
  ASSUME TypeOK, NEW s \in Obj, NEW f \in Descriptor, f \notin used,
         used' = used \cup {f}, data' = [data EXCEPT ![f] = s]
  PROVE  /\ FdsOf(s)' = FdsOf(s) \cup {f}
         /\ \A o \in Obj : o # s => FdsOf(o)' = FdsOf(o)
  BY DEF FdsOf, TypeOK

LEMMA FdsRemoved ==
  ASSUME TypeOK, NEW f \in used,
         used' = used \ {f}, data' = [data EXCEPT ![f] = NULL]
  PROVE  \A o \in Obj : FdsOf(o)' = FdsOf(o) \ {f}
  BY DEF FdsOf, TypeOK

LEMMA UnseenStep ==
  ASSUME TypeOK, CountInv, Unseen
  PROVE  CountInv' /\ LeaseStep
<1>1. \A o : FdsOf(o)' = FdsOf(o)
  BY DEF Unseen, FdsOf
<1>2. CountInv'
  BY <1>1 DEF Unseen, CountInv, OwnerInv, RefShape
<1>3. LeaseStep
  BY <1>1 DEF Unseen, LeaseStep, Lease!vars
<1> QED BY <1>2, <1>3

LEMMA LentStep ==
  ASSUME TypeOK, CountInv, NEW s, NEW f, Lent(s, f)
  PROVE  CountInv' /\ LeaseStep
<1>1. s \in Obj /\ f \in Descriptor /\ s \notin Live /\ f \notin used
  BY DEF Lent
<1>2. FdsOf(s) = {}
  BY <1>1, ConstantAssumption DEF FdsOf, CountInv, OwnerInv
<1>3. /\ FdsOf(s)' = {f}
      /\ \A o \in Obj : o # s => FdsOf(o)' = FdsOf(o)
  BY <1>1, <1>2, FdsAdded DEF Lent
<1>4. OwnerInv'
  BY <1>1 DEF Lent, CountInv, OwnerInv, TypeOK
<1>5. ASSUME NEW o \in Live'
      PROVE  RefShape(o)'
  <2>1. o \in Obj
    BY <1>1, <1>5 DEF Lent, Live, TypeOK
  <2>2. CASE o = s
    BY <1>1, <1>3, <2>2 DEF Lent, RefShape, TypeOK
  <2>3. CASE o # s
    BY <1>1, <1>3, <1>5, <2>1, <2>3 DEF Lent, RefShape, CountInv, TypeOK
  <2> QED BY <2>2, <2>3
<1>6. Lease!Lend(s, f)
  <2>1. \A o \in Obj : f \notin FdsOf(o)
    BY <1>1 DEF FdsOf
  <2> QED BY <1>1, <1>3, <2>1 DEF Lent, Lease!Lend, Lease!Unheld
<1> QED BY <1>1, <1>4, <1>5, <1>6 DEF CountInv, LeaseStep, Lease!Next

LEMMA SharedStep ==
  ASSUME TypeOK, CountInv, NEW s, NEW f, Shared(s, f)
  PROVE  CountInv' /\ LeaseStep
<1>1. s \in Obj /\ f \in Descriptor /\ s \in Live /\ f \notin used
  BY DEF Shared, Live, TypeOK
<1>2. PICK g \in Descriptor : FdsOf(s) = {g}
  BY <1>1 DEF Shared, CountInv, RefShape
<1>3. g # f
  BY <1>1, <1>2 DEF FdsOf
<1>4. /\ FdsOf(s)' = {g, f}
      /\ \A o \in Obj : o # s => FdsOf(o)' = FdsOf(o)
  BY <1>1, <1>2, FdsAdded DEF Shared
<1>5. OwnerInv'
  BY <1>1 DEF Shared, CountInv, OwnerInv, TypeOK
<1>6. ASSUME NEW o \in Live'
      PROVE  RefShape(o)'
  <2>1. o \in Obj /\ o \in Live
    BY <1>6 DEF Shared, Live, TypeOK
  <2>2. CASE o = s
    BY <1>1, <1>3, <1>4, <2>2 DEF Shared, RefShape, TypeOK
  <2>3. CASE o # s
    BY <1>4, <2>1, <2>3 DEF Shared, RefShape, CountInv, TypeOK
  <2> QED BY <2>2, <2>3
<1>7. Lease!Share(s, f)
  <2>1. \A o \in Obj : f \notin FdsOf(o)
    BY <1>1 DEF FdsOf
  <2> QED BY <1>1, <1>2, <1>4, <2>1 DEF Shared, Lease!Share, Lease!Unheld
<1> QED BY <1>1, <1>5, <1>6, <1>7 DEF CountInv, LeaseStep, Lease!Next

LEMMA UnregisterStep ==
  ASSUME TypeOK, CountInv, NEW f \in used, Unregister(f)
  PROVE  CountInv' /\ LeaseStep
<1>1. /\ f \in Descriptor
      /\ used' = used \ {f}
      /\ data' = [data EXCEPT ![f] = NULL]
      /\ \A o \in Obj : FdsOf(o)' = FdsOf(o) \ {f}
  BY FdsRemoved DEF Unregister, TypeOK
<1>2. \A o \in Obj : o # data[f] => FdsOf(o)' = FdsOf(o)
  BY <1>1 DEF FdsOf
<1>3. CASE data[f] = NULL
  <2>1. UNCHANGED <<references, alloc, pool>>
    BY <1>3 DEF Unregister, heapVars
  <2>2. \A o \in Obj : FdsOf(o)' = FdsOf(o)
    BY <1>2, <1>3, ConstantAssumption
  <2>3. CountInv'
    BY <1>1, <2>1, <2>2 DEF CountInv, OwnerInv, RefShape, Live, TypeOK
  <2>4. LeaseStep
    BY <2>1, <2>2 DEF LeaseStep, Lease!vars, Live
  <2> QED BY <2>3, <2>4
<1>4. CASE data[f] # NULL
  <2>0. PICK s \in Obj : s = data[f]
    BY <1>4 DEF CountInv, OwnerInv, Live, TypeOK
  <2>1. s \in Live /\ s \in alloc /\ s \notin pool
    BY <1>4, <2>0 DEF CountInv, OwnerInv, Live
  <2>2. f \in FdsOf(s)
    BY <2>0 DEF FdsOf
  <2>3. socks_destroy(s)
    BY <1>4, <2>0 DEF Unregister
  <2>4. \A o \in Obj : o # s => FdsOf(o)' = FdsOf(o)
    BY <1>2, <2>0
  <2>5. CASE references[s] = 1
    <3>1. FdsOf(s) = {f}
      BY <2>1, <2>2, <2>5 DEF CountInv, RefShape
    <3>2. Live' = Live \ {s}
      BY <2>1, <2>3, <2>5 DEF socks_destroy, Live
    <3>3. \A o \in Obj : o # s => references'[o] = references[o]
      BY <2>1, <2>3, <2>5 DEF socks_destroy, TypeOK
    <3>4. OwnerInv'
      <4>1. \A g \in used' : data[g] # s
        BY <1>1, <3>1 DEF FdsOf
      <4> QED BY <1>1, <3>2, <4>1 DEF CountInv, OwnerInv, TypeOK
    <3>5. ASSUME NEW o \in Live'
          PROVE  RefShape(o)'
      <4>1. o \in Obj /\ o \in Live /\ o # s
        BY <3>2, <3>5 DEF Live, TypeOK
      <4> QED BY <2>4, <3>3, <4>1 DEF CountInv, RefShape
    <3>6. Lease!GiveBack(s, f)
      BY <1>1, <2>1, <2>4, <3>1, <3>2 DEF Lease!GiveBack
    <3> QED BY <1>1, <2>1, <3>4, <3>5, <3>6
            DEF CountInv, LeaseStep, Lease!Next
  <2>6. CASE references[s] # 1
    <3>1. references[s] = 2
      BY <2>1, <2>6 DEF CountInv, RefShape
    <3>2. PICK g \in Descriptor : g # f /\ FdsOf(s) = {f, g}
      BY <2>1, <2>2, <3>1 DEF CountInv, RefShape
    <3>3. /\ references' = [references EXCEPT ![s] = 1]
          /\ Live' = Live
      BY <2>3, <3>1 DEF socks_destroy, heapVars, Live
    <3>4. FdsOf(s)' = {g}
      BY <1>1, <2>1, <3>2
    <3>5. OwnerInv'
      BY <1>1, <3>3 DEF CountInv, OwnerInv, TypeOK
    <3>6. ASSUME NEW o \in Live'
          PROVE  RefShape(o)'
      <4>1. o \in Obj /\ o \in Live
        BY <3>3, <3>6 DEF Live, TypeOK
      <4>2. CASE o = s
        BY <2>1, <3>3, <3>4, <4>2 DEF RefShape, TypeOK
      <4>3. CASE o # s
        <5>1. references'[o] = references[o]
          BY <3>3, <4>1, <4>3 DEF TypeOK
        <5>2. FdsOf(o)' = FdsOf(o)
          BY <2>4, <4>1, <4>3
        <5>3. RefShape(o)
          BY <4>1 DEF CountInv
        <5> QED BY <5>1, <5>2, <5>3 DEF RefShape
      <4> QED BY <4>2, <4>3
    <3>7. Lease!GiveBack(s, f)
      BY <1>1, <2>1, <2>4, <3>2, <3>3, <3>4 DEF Lease!GiveBack
    <3> QED BY <1>1, <2>1, <3>5, <3>6, <3>7
            DEF CountInv, LeaseStep, Lease!Next
  <2> QED BY <2>5, <2>6
<1> QED BY <1>3, <1>4

\* Accepting a client lends a struct, or leaves the live ones alone.
LEMMA AcceptSeen ==
  ASSUME TypeOK, NEW k \in Descriptor, socks_passive_accept(k)
  PROVE  \/ Unseen /\ NoneEarlier
         \/ \E s \in Obj, f \in Descriptor :
              Lent(s, f) /\ stm' = [stm EXCEPT ![s] = "NONE"]
<1>1. PICK client \in Descriptor \ open, s \in Available :
        /\ stm' = [stm EXCEPT ![s] = "NONE"]
        /\ \/ /\ Registrable(client)
              /\ used' = used \cup {client}
              /\ data' = [data EXCEPT ![client] = s]
              /\ references' = [references EXCEPT ![s] = 1]
              /\ alloc' = alloc \cup {s}
              /\ pool' = pool \ {s}
           \/ /\ UNCHANGED <<used, data>>
              /\ references' \in {[references EXCEPT ![s] = 0],
                                  [references EXCEPT ![s] = 1]}
              /\ \/ alloc' = alloc \cup {s} /\ pool' = pool \cup {s}
                 \/ alloc' = alloc \ {s} /\ pool' = pool \ {s}
  BY DEF socks_passive_accept, tableVars
<1>2. s \in Obj /\ s \notin Live /\ (s \in pool \/ s \notin alloc)
  BY <1>1 DEF Available, TypeOK, Live
<1>3. CASE /\ Registrable(client)
           /\ used' = used \cup {client}
           /\ data' = [data EXCEPT ![client] = s]
           /\ references' = [references EXCEPT ![s] = 1]
           /\ alloc' = alloc \cup {s}
           /\ pool' = pool \ {s}
  <2>1. Live' = Live \cup {s}
    BY <1>2, <1>3 DEF Live
  <2> QED BY <1>1, <1>2, <1>3, <2>1 DEF Lent, Registrable, TypeOK
<1>4. CASE /\ UNCHANGED <<used, data>>
           /\ references' \in {[references EXCEPT ![s] = 0],
                               [references EXCEPT ![s] = 1]}
           /\ \/ alloc' = alloc \cup {s} /\ pool' = pool \cup {s}
              \/ alloc' = alloc \ {s} /\ pool' = pool \ {s}
  <2>1. Live' = Live
    BY <1>2, <1>4 DEF Live
  <2>2. NoneEarlier
    BY <1>1, <1>2 DEF NoneEarlier, TypeOK, Live
  <2> QED BY <1>2, <1>4, <2>1, <2>2 DEF Unseen, Live, TypeOK
<1> QED BY <1>1, <1>3, <1>4

\* A job that is presented to its item may share the session's struct.
LEMMA BlockSeen ==
  ASSUME TypeOK, OwnerInv, RefInv, NEW k \in Descriptor, socks_block(k)
  PROVE  \/ Unseen /\ NoneEarlier
         \/ \E s \in Obj, f \in Descriptor :
              Shared(s, f) /\ stm' = [stm EXCEPT ![s] = "CONNECTING"]
<1>0. UNCHANGED <<alloc, pool>> /\ Live' = Live
  BY DEF socks_block, heapVars, Live
<1>1. CASE k \notin used
  BY <1>0, <1>1 DEF socks_block, tableVars, sockVars, Unseen, NoneEarlier
<1>2. CASE k \in used
  <2>1. PICK ret \in Result : OnBlockReady(data[k], k, ret) /\ Jump(data[k], ret)
    BY <1>2 DEF socks_block
  <2>2. CASE ret = "no_handler" /\ UNCHANGED <<tableVars, references>>
    BY <1>0, <2>1, <2>2 DEF Jump, Death, Unseen, NoneEarlier, tableVars
  <2>3. CASE /\ k \notin Passive /\ stm[data[k]] \in Early
             /\ dns_resolution_done(data[k], k, ret)
    <3>1. PICK s \in Obj : s = data[k]
      BY <1>2, <2>3 DEF OwnerInv, Live, TypeOK
    <3>2. s \in Live /\ references[s] = 1
      BY <1>2, <2>3, <3>1 DEF OwnerInv, RefInv, Early
    <3>3. CASE /\ ret \in {"ERROR", "connected"}
               /\ UNCHANGED <<used, data, references>>
      <4>1. Unseen
        BY <1>0, <3>3 DEF Unseen
      <4>2. NoneEarlier
        BY <2>1, <3>1, <3>3 DEF Jump, Death, Early, NoneEarlier, TypeOK, Live
      <4> QED BY <4>1, <4>2
    <3>4. ASSUME NEW f \in Descriptor, Registrable(f),
                 AttachOrigin(s, k, f), ret = "CONNECTING"
          PROVE  /\ Shared(s, f)
                 /\ stm' = [stm EXCEPT ![s] = "CONNECTING"]
      BY <1>0, <2>1, <3>1, <3>2, <3>4
      DEF AttachOrigin, Registrable, Shared, Jump, Death, TypeOK
    <3> QED BY <2>3, <3>1, <3>3, <3>4
            DEF dns_resolution_done, request_connect, AbandonOrigin, tableVars
  <2> QED BY <2>1, <2>2, <2>3 DEF OnBlockReady, Early
<1> QED BY <1>1, <1>2

\* The references, their owners and the leases in every step.
LEMMA RefStep ==
  ASSUME TypeOK, OwnerInv, RefInv, [Next]_vars
  PROVE  OwnerInv' /\ RefInv' /\ LeaseStep
<1>1. CountInv
  BY DEF CountInv, RefInv
<1>2. ASSUME CountInv', \A o \in Live' : stm'[o] \in Early => references'[o] = 1
      PROVE  OwnerInv' /\ RefInv'
  BY <1>2 DEF CountInv, RefInv, Early
<1>3. ASSUME Unseen, NoneEarlier
      PROVE  OwnerInv' /\ RefInv' /\ LeaseStep
  <2>1. CountInv' /\ LeaseStep
    BY <1>1, <1>3, UnseenStep
  <2>2. \A o \in Live' : stm'[o] \in Early => references'[o] = 1
    BY <1>3 DEF Unseen, NoneEarlier, RefInv, Early
  <2> QED BY <1>2, <2>1, <2>2
<1>4. CASE UNCHANGED vars
  <2>1. Unseen /\ NoneEarlier
    BY <1>4 DEF vars, tableVars, sockVars, heapVars, Unseen, NoneEarlier, Live
  <2> QED BY <1>3, <2>1
<1>5. CASE \/ pselect \/ pselect_interrupted \/ pselect_fails \/ EndIteration
           \/ EndNotifications \/ sigterm_handler \/ FreeSelector
           \/ CloseServers \/ \E k \in Descriptor : socks_passive_accept_fails(k)
  <2>1. UNCHANGED <<tableVars, sockVars, heapVars>>
    BY <1>5 DEF pselect, pselect_interrupted, pselect_fails, EndIteration,
      EndNotifications, sigterm_handler, FreeSelector, CloseServers,
      socks_passive_accept_fails
  <2>2. Unseen /\ NoneEarlier
    BY <2>1 DEF tableVars, sockVars, heapVars, Unseen, NoneEarlier, Live
  <2> QED BY <1>3, <2>2
<1>6. CASE \E t \in Thread : Lookup(t) \/ selector_notify_block(t)
  <2>1. UNCHANGED <<tableVars, stm, references, heapVars>>
    BY <1>6 DEF Lookup, selector_notify_block, sockVars
  <2>2. Unseen /\ NoneEarlier
    BY <2>1 DEF tableVars, heapVars, Unseen, NoneEarlier, Live
  <2> QED BY <1>3, <2>2
<1>7. CASE socks_pool_destroy
  <2>1. UNCHANGED <<tableVars, stm, references>> /\ Live' = Live
    BY <1>7 DEF socks_pool_destroy, sockVars, Live
  <2>2. Unseen /\ NoneEarlier
    BY <2>1 DEF tableVars, Unseen, NoneEarlier
  <2> QED BY <1>3, <2>2
<1>8. ASSUME NEW k \in Descriptor, socks_passive_accept(k)
      PROVE  OwnerInv' /\ RefInv' /\ LeaseStep
  <2>1. CASE Unseen /\ NoneEarlier
    BY <1>3, <2>1
  <2>2. ASSUME NEW s \in Obj, NEW f \in Descriptor, Lent(s, f),
               stm' = [stm EXCEPT ![s] = "NONE"]
        PROVE  OwnerInv' /\ RefInv' /\ LeaseStep
    <3>1. CountInv' /\ LeaseStep
      BY <1>1, <2>2, LentStep
    <3>2. \A o \in Live' : stm'[o] \in Early => references'[o] = 1
      BY <2>2 DEF Lent, RefInv, Early, TypeOK, Live
    <3> QED BY <1>2, <3>1, <3>2
  <2> QED BY <1>8, <2>1, <2>2, AcceptSeen
<1>9. ASSUME NEW k \in Descriptor, socks_read(k) \/ socks_write(k)
      PROVE  OwnerInv' /\ RefInv' /\ LeaseStep
  <2>1. UNCHANGED <<used, data, references, heapVars>>
    BY <1>9 DEF socks_read, socks_write
  <2>2. PICK s \in Obj : s = data[k]
    BY <1>9, Dispatched DEF socks_read, socks_write
  <2>3. PICK ret \in Result : /\ OnReadReady(s, k, ret) \/ OnWriteReady(s, k, ret)
                              /\ Jump(s, ret)
    BY <1>9, <2>2 DEF socks_read, socks_write
  <2>4. ret \in Early => stm[s] \in Early
    BY <2>3, OnReadType, OnWriteType DEF Early
  <2>5. NoneEarlier
    BY <2>2, <2>3, <2>4 DEF Jump, NoneEarlier, Early, TypeOK, Live
  <2>6. Unseen
    BY <2>1 DEF Unseen, heapVars, Live
  <2> QED BY <1>3, <2>5, <2>6
<1>10. ASSUME NEW k \in Descriptor, socks_block(k)
       PROVE  OwnerInv' /\ RefInv' /\ LeaseStep
  <2>1. CASE Unseen /\ NoneEarlier
    BY <1>3, <2>1
  <2>2. ASSUME NEW s \in Obj, NEW f \in Descriptor, Shared(s, f),
               stm' = [stm EXCEPT ![s] = "CONNECTING"]
        PROVE  OwnerInv' /\ RefInv' /\ LeaseStep
    <3>1. CountInv' /\ LeaseStep
      BY <1>1, <2>2, SharedStep
    <3>2. \A o \in Live' : stm'[o] \in Early => references'[o] = 1
      BY <2>2 DEF Shared, RefInv, Early, TypeOK, Live
    <3> QED BY <1>2, <3>1, <3>2
  <2> QED BY <1>10, <2>1, <2>2, BlockSeen
<1>11. ASSUME NEW f \in used, Unregister(f), stm' = stm
       PROVE  OwnerInv' /\ RefInv' /\ LeaseStep
  <2>1. CountInv' /\ LeaseStep
    BY <1>1, <1>11, UnregisterStep
  <2>2. \A o \in Live' : o \in Live /\ references'[o] \in {references[o], references[o] - 1}
    BY <1>11 DEF Unregister, socks_destroy, heapVars, Live, OwnerInv, RefInv,
                 RefShape, TypeOK
  <2>3. \A o \in Live' : references'[o] \in {1, 2}
    BY <2>1 DEF CountInv, RefShape
  <2>4. \A o \in Live' : stm'[o] \in Early => references'[o] = 1
    BY <1>11, <2>2, <2>3 DEF RefInv, Early, Live, TypeOK
  <2> QED BY <1>2, <2>1, <2>4
<1>12. ASSUME NEW end \in {"client", "origin"}, socks_done(end)
       PROVE  OwnerInv' /\ RefInv' /\ LeaseStep
  <2>1. CASE fds[end] \in used
    BY <1>11, <1>12, <2>1 DEF socks_done
  <2>2. CASE fds[end] \notin used
    <3>1. Unseen /\ NoneEarlier
      BY <1>12, <2>2 DEF socks_done, tableVars, heapVars, Unseen, NoneEarlier, Live
    <3> QED BY <1>3, <3>1
  <2> QED BY <2>1, <2>2
<1>13. ASSUME NEW f \in Descriptor, DestroyItem(f)
       PROVE  OwnerInv' /\ RefInv' /\ LeaseStep
  BY <1>11, <1>13 DEF DestroyItem
<1> QED
  BY <1>4, <1>5, <1>6, <1>7, <1>8, <1>9, <1>10, <1>12, <1>13
  DEF Next, Main, Halted

-----------------------------------------------------------------------------
(* The pool *)

\* A live struct that goes to the pool, or back to malloc.
LEMMA UnregisterPool ==
  ASSUME TypeOK, OwnerInv, PoolInv, NEW f \in used, Unregister(f), pc' = pc
  PROVE  PoolInv'
<1>1. CASE UNCHANGED <<alloc, pool, pool_size>>
  BY <1>1 DEF PoolInv
<1>2. ASSUME NEW s \in Live,
             \/ /\ pool_size < MAX_POOL
                /\ pool' = pool \cup {s}
                /\ pool_size' = pool_size + 1
                /\ UNCHANGED alloc
             \/ alloc' = alloc \ {s} /\ UNCHANGED <<pool, pool_size>>
      PROVE  PoolInv'
  <2>1. s \in alloc /\ s \notin pool
    BY <1>2 DEF Live
  <2>2. /\ IsFiniteSet(pool \cup {s})
        /\ Cardinality(pool \cup {s}) = Cardinality(pool) + 1
    BY <2>1, FS_AddElement DEF PoolInv
  <2>3. pool_size \in Nat /\ MAX_POOL \in Nat
    BY ConstantAssumption DEF TypeOK
  <2> QED BY <1>2, <2>1, <2>2, <2>3 DEF PoolInv
<1>3. CASE data[f] = NULL
  BY <1>1, <1>3 DEF Unregister, heapVars
<1>4. CASE data[f] # NULL
  <2>1. PICK s \in Live : s = data[f]
    BY <1>4 DEF OwnerInv
  <2> QED BY <1>1, <1>2, <1>4, <2>1 DEF Unregister, socks_destroy, heapVars
<1> QED BY <1>3, <1>4

LEMMA AcceptPool ==
  ASSUME TypeOK, PoolInv, NEW k \in Descriptor, socks_passive_accept(k)
  PROVE  PoolInv'
<1> DEFINE taken == IF pool # {} THEN pool_size - 1 ELSE pool_size
<1>1. PICK s \in Available :
        \/ alloc' = alloc \cup {s} /\ pool' = pool \ {s} /\ pool_size' = taken
        \/ /\ taken < MAX_POOL
           /\ alloc' = alloc \cup {s}
           /\ pool' = pool \cup {s}
           /\ pool_size' = taken + 1
        \/ alloc' = alloc \ {s} /\ pool' = pool \ {s} /\ pool_size' = taken
  BY DEF socks_passive_accept
<1>2. pc' = pc /\ pool \subseteq alloc
  BY DEF socks_passive_accept, Dispatch, PoolInv, Serving
<1>3. /\ pool_size \in Nat /\ MAX_POOL \in Nat /\ pool_size <= MAX_POOL
      /\ IsFiniteSet(pool) /\ pool_size = Cardinality(pool)
  BY ConstantAssumption DEF TypeOK, PoolInv
<1>4. CASE pool = {}
  <2>1. IsFiniteSet({s}) /\ Cardinality({s}) = 1 /\ pool_size = 0
    BY <1>3, <1>4, FS_EmptySet, FS_Singleton
  <2>2. \/ pool' = {} /\ pool_size' = 0
        \/ pool' = {s} /\ pool_size' = 1 /\ 0 < MAX_POOL /\ s \in alloc'
    BY <1>1, <1>4, <2>1
  <2>3. CASE pool' = {} /\ pool_size' = 0
    BY <1>2, <1>3, <2>3, FS_EmptySet DEF PoolInv
  <2>4. CASE pool' = {s} /\ pool_size' = 1 /\ 0 < MAX_POOL /\ s \in alloc'
    BY <1>2, <1>3, <2>1, <2>4 DEF PoolInv
  <2> QED BY <2>2, <2>3, <2>4
<1>5. CASE pool # {}
  <2>1. s \in pool /\ s \in alloc
    BY <1>1, <1>2, <1>5 DEF Available
  <2>2. /\ IsFiniteSet(pool \ {s})
        /\ Cardinality(pool \ {s}) = pool_size - 1
    BY <1>3, <2>1, FS_RemoveElement
  <2>3. pool \cup {s} = pool /\ alloc \cup {s} = alloc
    BY <2>1
  <2>4. \/ alloc' = alloc /\ pool' = pool \ {s} /\ pool_size' = pool_size - 1
        \/ alloc' = alloc /\ pool' = pool /\ pool_size' = pool_size
        \/ /\ alloc' = alloc \ {s}
           /\ pool' = pool \ {s}
           /\ pool_size' = pool_size - 1
    <3>1. taken = pool_size - 1 /\ taken + 1 = pool_size
      BY <1>3, <1>5
    <3> HIDE DEF taken
    <3> QED BY <1>1, <2>3, <3>1
  <2>5. CASE alloc' = alloc /\ pool' = pool /\ pool_size' = pool_size
    BY <1>2, <1>3, <2>5 DEF PoolInv
  <2>6. CASE /\ alloc' \in {alloc, alloc \ {s}}
             /\ pool' = pool \ {s}
             /\ pool_size' = pool_size - 1
    <3>1. pool' \subseteq alloc' /\ pool_size' <= MAX_POOL
      BY <1>2, <1>3, <2>6
    <3>2. IsFiniteSet(pool') /\ pool_size' = Cardinality(pool')
      BY <2>2, <2>6
    <3> QED BY <3>1, <3>2 DEF PoolInv
  <2> QED BY <2>4, <2>5, <2>6
<1> QED BY <1>4, <1>5

LEMMA PoolStep ==
  ASSUME TypeOK, OwnerInv, RefInv, PoolInv, [Next]_vars
  PROVE  PoolInv'
<1> DEFINE Keeps == {"destroy", "pool"} \cup Serving
<1>1. ASSUME UNCHANGED heapVars, pc' \in Keeps => pc \in Keeps
      PROVE  PoolInv'
  BY <1>1 DEF PoolInv, heapVars
<1>2. CASE UNCHANGED vars
  BY <1>1, <1>2 DEF vars
<1>3. CASE \/ pselect \/ pselect_interrupted \/ pselect_fails \/ EndIteration
           \/ EndNotifications \/ sigterm_handler
  BY <1>1, <1>3 DEF pselect, pselect_interrupted, pselect_fails, EndIteration,
     EndNotifications, sigterm_handler, Serving
<1>4. CASE FreeSelector \/ CloseServers
  BY <1>1, <1>4 DEF FreeSelector, CloseServers, Serving
<1>5. CASE socks_pool_destroy
  BY <1>5 DEF socks_pool_destroy, PoolInv, Serving
<1>6. CASE \E t \in Thread : Lookup(t) \/ selector_notify_block(t)
  BY <1>1, <1>6 DEF Lookup, selector_notify_block, Serving
<1>7. ASSUME NEW k \in Descriptor, socks_passive_accept_fails(k)
      PROVE  PoolInv'
  BY <1>1, <1>7 DEF socks_passive_accept_fails
<1>8. ASSUME NEW k \in Descriptor, socks_passive_accept(k)
      PROVE  PoolInv'
  BY <1>8, AcceptPool
<1>9. ASSUME NEW k \in Descriptor,
             socks_read(k) \/ socks_write(k) \/ socks_block(k)
      PROVE  PoolInv'
  <2>1. UNCHANGED heapVars
    BY <1>9 DEF socks_read, socks_write, socks_block
  <2>2. pc \in Serving
    BY <1>9 DEF socks_read, socks_write, socks_block, Dispatch, Serving
  <2> QED BY <1>1, <2>1, <2>2
<1>10. ASSUME NEW end \in {"client", "origin"}, socks_done(end)
       PROVE  PoolInv'
  <2>1. CASE fds[end] \in used
    BY <1>10, <2>1, UnregisterPool DEF socks_done
  <2>2. CASE fds[end] \notin used
    BY <1>1, <1>10, <2>2 DEF socks_done, Serving
  <2> QED BY <2>1, <2>2
<1>11. ASSUME NEW f \in Descriptor, DestroyItem(f)
       PROVE  PoolInv'
  BY <1>11, UnregisterPool DEF DestroyItem
<1> QED
  BY <1>2, <1>3, <1>4, <1>5, <1>6, <1>7, <1>8, <1>9, <1>10, <1>11
  DEF Next, Main, Halted

-----------------------------------------------------------------------------
(* The theorems *)

LEMMA InitIInv == Init => IInv
<1> SUFFICES ASSUME Init PROVE IInv
  OBVIOUS
<1>1. TypeOK
  BY InitType
<1>2. OwnerInv /\ RefInv
  BY PassiveAssumption DEF Init, OwnerInv, RefInv, Live
<1>3. PoolInv
  BY FS_EmptySet, ConstantAssumption DEF Init, PoolInv
<1> QED BY <1>1, <1>2, <1>3 DEF IInv

LEMMA StepIInv == IInv /\ [Next]_vars => IInv'
  BY TypeStep, RefStep, PoolStep DEF IInv

\* The inductive invariant holds in every behaviour.
THEOREM Invariance == Spec => []IInv
  BY InitIInv, StepIInv, PTL DEF Spec

\* Every variable keeps its type; the unsigned reference count and the pool's
\* counter never pass below zero, whatever the loop, the handlers, the threads
\* and the shutdown do.
THEOREM TypeCorrect == Spec => []TypeOK
<1>1. IInv => TypeOK
  BY DEF IInv
<1> QED BY <1>1, Invariance, PTL

\* The reference count of a live struct is exactly the number of registered
\* descriptors bound to it (socks_nio.h), and no registered session descriptor
\* is bound to a struct that was freed or sits in the pool.
THEOREM ReferencesExact == Spec => []RefsExact
<1>1. IInv => RefsExact
  <2> SUFFICES ASSUME IInv PROVE RefsExact
    OBVIOUS
  <2>1. ASSUME NEW o \in Live
        PROVE  references[o] = Cardinality(FdsOf(o)) /\ references[o] # 0
    <3>1. RefShape(o)
      BY DEF IInv, RefInv
    <3>2. ASSUME references[o] = 1, NEW f \in Descriptor, FdsOf(o) = {f}
          PROVE  references[o] = Cardinality(FdsOf(o))
      <4>1. Cardinality({f}) = 1
        BY FS_Singleton
      <4> QED BY <3>2, <4>1
    <3>3. ASSUME references[o] = 2,
                 NEW f \in Descriptor, NEW g \in Descriptor, f # g,
                 FdsOf(o) = {f, g}
          PROVE  references[o] = Cardinality(FdsOf(o))
      <4>1. IsFiniteSet({f}) /\ Cardinality({f}) = 1
        BY FS_Singleton
      <4>2. Cardinality({f} \cup {g}) = 2
        <5>1. ASSUME NEW S, IsFiniteSet(S), g \notin S
              PROVE  Cardinality(S \cup {g}) = Cardinality(S) + 1
          BY <5>1, FS_AddElement
        <5>2. g \notin {f}
          BY <3>3
        <5> QED BY <4>1, <5>1, <5>2
      <4>3. {f} \cup {g} = {f, g}
        OBVIOUS
      <4> QED BY <3>3, <4>2, <4>3
    <3> QED BY <3>1, <3>2, <3>3 DEF RefShape
  <2> QED BY <2>1 DEF RefsExact, IInv, OwnerInv
<1> QED BY <1>1, Invariance, PTL

\* The free pool of socks_nio.c holds exactly as many structs as its counter
\* says, never more than MAX_POOL, and while the proxy serves none of them has
\* been freed.
THEOREM PoolIsSound == Spec => []PoolSound
<1>1. IInv => PoolSound
  BY DEF IInv, PoolInv, PoolSound
<1> QED BY <1>1, Invariance, PTL

\* Reference counts, pool and heap together implement the lending of structs:
\* a struct is lent to a second connection only after both descriptors of the
\* first have been given back.
THEOREM ImplementsLease == Spec => LeaseSpec
<1>1. Init => Lease!Init
  <2> SUFFICES ASSUME Init PROVE Lease!Init
    OBVIOUS
  <2>1. Live = {}
    BY DEF Init, Live
  <2>2. \A o \in Obj : FdsOf(o) = {}
    BY ConstantAssumption, PassiveAssumption DEF Init, FdsOf
  <2> QED BY <2>1, <2>2 DEF Lease!Init
<1>2. IInv /\ [Next]_vars => [Lease!Next]_(Lease!vars)
  BY RefStep DEF IInv, LeaseStep
<1> QED BY <1>1, <1>2, Invariance, PTL DEF Spec, LeaseSpec, Lease!Spec

=============================================================================

---------------------------- MODULE BufferProofs ----------------------------
(***************************************************************************)
(* Proofs about Buffer, for every size of the array and every set of bytes.*)
(***************************************************************************)
EXTENDS Buffer, SequenceTheorems, TLAPS

(***************************************************************************)
(* Sequences given as functions                                            *)
(***************************************************************************)

\* A function on 1 .. n is a sequence of length n.
LEMMA FunctionIsSeq ==
  ASSUME NEW S, NEW n \in Nat, NEW f \in [1 .. n -> S]
  PROVE  f \in Seq(S) /\ Len(f) = n
<1>1. f \in Seq(S)
  BY SeqDef
<1>2. DOMAIN f = 1 .. Len(f) /\ Len(f) \in Nat
  BY <1>1, LenProperties
<1> QED
  BY <1>1, <1>2

\* What it takes for u to be the concatenation of s and t.
LEMMA IsConcat ==
  ASSUME NEW S, NEW s \in Seq(S), NEW t \in Seq(S), NEW u \in Seq(S),
         Len(u) = Len(s) + Len(t),
         \A i \in 1 .. Len(u) : u[i] = IF i <= Len(s) THEN s[i]
                                                     ELSE t[i - Len(s)]
  PROVE  u = s \o t
<1>1. /\ s \o t \in Seq(S)
      /\ Len(s \o t) = Len(s) + Len(t)
      /\ \A i \in 1 .. Len(s) + Len(t) :
            (s \o t)[i] = IF i <= Len(s) THEN s[i] ELSE t[i - Len(s)]
  BY ConcatProperties
<1> QED
  BY <1>1, SeqEqual

\* What it takes for u to be the part of s from m to n.
LEMMA IsSubSeq ==
  ASSUME NEW S, NEW s \in Seq(S), NEW m \in 1 .. Len(s) + 1,
         NEW n \in m - 1 .. Len(s), NEW u \in Seq(S),
         Len(u) = n - m + 1,
         \A i \in 1 .. Len(u) : u[i] = s[m + i - 1]
  PROVE  u = SubSeq(s, m, n)
<1>1. /\ Len(s) \in Nat
      /\ \A i \in 1 .. Len(s) : s[i] \in S
  BY LenProperties, ElementOfSeq
<1>2. /\ m \in Int
      /\ n \in Int
      /\ \A i \in m .. n : s[i] \in S
  BY <1>1
<1>3. /\ SubSeq(s, m, n) \in Seq(S)
      /\ Len(SubSeq(s, m, n)) = IF m <= n THEN n - m + 1 ELSE 0
      /\ \A i \in 1 .. n - m + 1 : SubSeq(s, m, n)[i] = s[m + i - 1]
  BY <1>1, <1>2, SubSeqProperties
<1>4. Len(SubSeq(s, m, n)) = Len(u)
  BY <1>1, <1>2, <1>3
<1> QED
  BY <1>3, <1>4, SeqEqual

(***************************************************************************)
(* Types                                                                   *)
(***************************************************************************)

\* The initial state has the types.
LEMMA InitType == Init => TypeOK
<1>1. <<>> \in Seq(Byte)
  BY EmptySeq
<1> QED
  BY <1>1, BufferAssumption DEF Init, TypeOK, Index

\* The callers' obligations keep both pointers in order inside the array.
LEMMA TypeStep == TypeOK /\ [Next]_vars => TypeOK'
<1> SUFFICES ASSUME TypeOK, [Next]_vars
             PROVE  TypeOK'
  OBVIOUS
<1> USE BufferAssumption
<1>0. <<>> \in Seq(Byte)
  BY EmptySeq
<1>1. ASSUME NEW n \in 0 .. Size, NEW bytes \in [1 .. n -> Byte],
             NEW kept \in 0 .. n, Fill(bytes, kept)
      PROVE  TypeOK'
  <2>1. Len(bytes) = n
    BY FunctionIsSeq
  <2>2. cells' \in [Index -> Byte]
    BY <1>1, <2>1 DEF TypeOK, Fill, Index
  <2> QED
    BY <1>0, <1>1, <2>1, <2>2 DEF TypeOK, Fill
<1>2. ASSUME NEW n \in 0 .. Size, Drain(n)
      PROVE  TypeOK'
  <2>1. out' \in [1 .. n -> Byte]
    BY <1>2 DEF TypeOK, Drain, Index
  <2>2. out' \in Seq(Byte)
    BY <2>1, FunctionIsSeq
  <2>3. cells' \in [Index -> Byte] /\ write' \in 0 .. Size
                                   /\ read' \in 0 .. write'
    BY <1>2 DEF TypeOK, Drain, buffer_read_adv, buffer_compact, Index
  <2> QED
    BY <2>2, <2>3 DEF TypeOK
<1>3. CASE buffer_read
  <2>1. CASE write > read
    BY <1>2, <1>3, <2>1 DEF buffer_read, TypeOK
  <2>2. CASE ~(write > read)
    BY <1>0, <1>3, <2>2 DEF buffer_read, TypeOK
  <2> QED
    BY <2>1, <2>2
<1>4. ASSUME NEW c \in Byte, buffer_write(c)
      PROVE  TypeOK'
  <2>1. CASE Size > write
    <3>1. <<c>> \in [1 .. 1 -> Byte] /\ 1 \in 0 .. Size /\ 1 \in 0 .. 1
      BY <2>1 DEF TypeOK
    <3> QED
      BY <1>1, <1>4, <2>1, <3>1 DEF buffer_write
  <2>2. CASE ~(Size > write)
    BY <1>0, <1>4, <2>2 DEF buffer_write, TypeOK
  <2> QED
    BY <2>1, <2>2
<1>5. CASE buffer_reset
  BY <1>0, <1>5 DEF buffer_reset, TypeOK
<1>6. CASE Compact
  BY <1>0, <1>6 DEF Compact, buffer_compact, TypeOK, Index
<1>7. CASE UNCHANGED vars
  BY <1>7 DEF vars, TypeOK
<1> QED
  BY <1>1, <1>2, <1>3, <1>4, <1>5, <1>6, <1>7 DEF Next

\* buffer.h's R <= W <= limit holds of every buffer whose callers respect the
\* room buffer_write_ptr reports and the bytes buffer_read_ptr reports.
THEOREM TypeCorrect == Spec => []TypeOK
<1> QED
  BY InitType, TypeStep, PTL DEF Spec

(***************************************************************************)
(* Space                                                                   *)
(***************************************************************************)

\* A drained buffer offers the whole array: the auto-compaction of
\* buffer_read_adv leaves no operation that ends with equal pointers elsewhere.
THEOREM DrainedIsFresh == Spec => []DrainedOffersAll
<1>1. Init => DrainedOffersAll
  BY DEF Init, DrainedOffersAll
<1>2. TypeOK /\ DrainedOffersAll /\ [Next]_vars => DrainedOffersAll'
  <2> SUFFICES ASSUME TypeOK, DrainedOffersAll, [Next]_vars
               PROVE  DrainedOffersAll'
    OBVIOUS
  <2> USE BufferAssumption DEF TypeOK, DrainedOffersAll
  <2>1. ASSUME NEW n \in 0 .. Size, NEW bytes \in [1 .. n -> Byte],
               NEW kept \in 0 .. n, Fill(bytes, kept)
        PROVE  DrainedOffersAll'
    BY <2>1 DEF Fill
  <2>2. ASSUME NEW n \in 0 .. Size, Drain(n)
        PROVE  DrainedOffersAll'
    BY <2>2 DEF Drain, buffer_read_adv, buffer_compact
  <2>3. CASE buffer_read
    BY <2>3 DEF buffer_read, Drain, buffer_read_adv, buffer_compact
  <2>4. ASSUME NEW c \in Byte, buffer_write(c)
        PROVE  DrainedOffersAll'
    BY <2>4 DEF buffer_write, Fill
  <2>5. CASE buffer_reset
    BY <2>5 DEF buffer_reset
  <2>6. CASE Compact
    BY <2>6 DEF Compact, buffer_compact
  <2>7. CASE UNCHANGED vars
    BY <2>7 DEF vars
  <2> QED
    BY <2>1, <2>2, <2>3, <2>4, <2>5, <2>6, <2>7 DEF Next
<1> QED
  BY <1>1, <1>2, TypeCorrect, PTL DEF Spec

(***************************************************************************)
(* The buffer implements the queue                                         *)
(***************************************************************************)

\* The bytes between two pointers of an array are a sequence ...
LEMMA WindowIsSeq ==
  ASSUME NEW c \in [Index -> Byte], NEW w \in 0 .. Size, NEW r \in 0 .. w,
         NEW f, f = [i \in 1 .. w - r |-> c[r + i - 1]]
  PROVE  /\ f \in Seq(Byte)
         /\ Len(f) = w - r
         /\ \A i \in 1 .. w - r : f[i] = c[r + i - 1]
<1>1. f \in [1 .. w - r -> Byte] /\ w - r \in Nat
  BY BufferAssumption DEF Index
<1> QED
  BY <1>1, FunctionIsSeq

\* ... and so is the queue, before a step and after it.
LEMMA ContentsIsSeq ==
  ASSUME TypeOK
  PROVE  /\ Contents \in Seq(Byte)
         /\ Len(Contents) = write - read
         /\ \A i \in 1 .. write - read : Contents[i] = cells[read + i - 1]
<1> QED
  BY WindowIsSeq DEF TypeOK, Contents

LEMMA ContentsIsSeqNext ==
  ASSUME TypeOK'
  PROVE  /\ Contents' \in Seq(Byte)
         /\ Len(Contents') = write' - read'
         /\ \A i \in 1 .. write' - read' : Contents'[i] = cells'[read' + i - 1]
<1>1. cells' \in [Index -> Byte] /\ write' \in 0 .. Size /\ read' \in 0 .. write'
  BY DEF TypeOK
<1>2. Contents' = [i \in 1 .. write' - read' |-> cells'[read' + i - 1]]
  BY DEF Contents
<1> QED
  BY <1>1, <1>2, WindowIsSeq

\* Filling appends the bytes that were kept, wherever the pointers stand.
LEMMA FillPuts ==
  ASSUME TypeOK, TypeOK', NEW n \in 0 .. Size, NEW bytes \in [1 .. n -> Byte],
         NEW kept \in 0 .. n, Fill(bytes, kept)
  PROVE  \E m \in 0 .. Size : \E b \in [1 .. m -> Byte] : Queue!Put(b)
<1> USE BufferAssumption
<1> DEFINE b == [i \in 1 .. kept |-> bytes[i]]
<1>1. kept \in Nat /\ b \in [1 .. kept -> Byte]
  OBVIOUS
<1>2. b \in Seq(Byte) /\ Len(b) = kept /\ Len(bytes) = n
  BY <1>1, FunctionIsSeq
<1>3. Contents' = Contents \o b
  <2>1. Len(Contents') = Len(Contents) + Len(b)
    BY <1>2, ContentsIsSeq, ContentsIsSeqNext DEF Fill, TypeOK
  <2>2. ASSUME NEW i \in 1 .. Len(Contents')
        PROVE  Contents'[i] = IF i <= Len(Contents) THEN Contents[i]
                                                   ELSE b[i - Len(Contents)]
    <3>1. i \in 1 .. write' - read'
      BY ContentsIsSeqNext
    <3>2. Contents'[i] = cells'[read + i - 1] /\ read + i - 1 \in Index
      <4>1. read' = read /\ write' = write + kept
        BY DEF Fill
      <4>2. Contents'[i] = cells'[read + i - 1]
        BY <3>1, <4>1, ContentsIsSeqNext
      <4>3. read + i - 1 \in Index
        BY <3>1, <4>1 DEF TypeOK, Index
      <4> QED
        BY <4>2, <4>3
    <3>3. CASE i <= write - read
      <4>1. cells'[read + i - 1] = cells[read + i - 1]
        BY <1>2, <3>1, <3>2, <3>3 DEF Fill, TypeOK, Index
      <4> QED
        BY <3>1, <3>2, <3>3, <4>1, ContentsIsSeq DEF TypeOK
    <3>4. CASE ~(i <= write - read)
      <4>1. i - (write - read) \in 1 .. kept
        BY <3>1, <3>4 DEF Fill, TypeOK
      <4>2. cells'[read + i - 1] = bytes[read + i - 1 - write + 1]
        BY <1>2, <3>1, <3>2, <3>4, <4>1 DEF Fill, TypeOK, Index
      <4>3. read + i - 1 - write + 1 = i - (write - read)
        BY <3>1 DEF TypeOK
      <4>4. Contents'[i] = b[i - (write - read)]
        BY <3>2, <4>1, <4>2, <4>3
      <4> QED
        BY <3>1, <3>4, <4>4, ContentsIsSeq DEF TypeOK
    <3> QED
      BY <3>3, <3>4
  <2> HIDE DEF b
  <2> QED
    BY <1>2, <2>1, <2>2, IsConcat, ContentsIsSeq, ContentsIsSeqNext
<1>4. Len(Contents) + Len(b) <= Size
  BY <1>2, ContentsIsSeq DEF Fill, TypeOK
<1>5. out' = <<>>
  BY DEF Fill
<1>6. kept \in 0 .. Size
  BY BufferAssumption
<1> HIDE DEF b
<1>7. Queue!Put(b)
  BY <1>3, <1>4, <1>5 DEF Queue!Put
<1> QED
  BY <1>1, <1>6, <1>7

\* Draining hands out the front of the queue and leaves the rest, moved to the
\* start of the array or not.
LEMMA DrainTakes ==
  ASSUME TypeOK, TypeOK', NEW n \in 0 .. Size, Drain(n)
  PROVE  \E m \in 0 .. Size : Queue!Take(m)
<1> USE BufferAssumption
<1>1. n <= write - read /\ n <= Len(Contents)
  BY ContentsIsSeq DEF Drain
<1>2. out' = SubSeq(Contents, 1, n)
  <2>1. out' \in [1 .. n -> Byte] /\ n \in Nat
    BY <1>1 DEF Drain, TypeOK, Index
  <2>2. out' \in Seq(Byte) /\ Len(out') = n
    BY <2>1, FunctionIsSeq
  <2>3. \A i \in 1 .. n : out'[i] = Contents[1 + i - 1]
    BY <1>1, ContentsIsSeq DEF Drain, TypeOK
  <2>4. 1 \in 1 .. Len(Contents) + 1 /\ n \in 1 - 1 .. Len(Contents)
    BY <1>1, ContentsIsSeq DEF TypeOK
  <2> QED
    BY <2>2, <2>3, <2>4, IsSubSeq, ContentsIsSeq
<1>3. Contents' = SubSeq(Contents, n + 1, Len(Contents))
  <2>1. Len(Contents') = write - read - n
    <3>1. CASE read + n = write
      <4>1. read' = 0 /\ write' = write - (read + n)
        BY <3>1 DEF Drain, buffer_read_adv, buffer_compact
      <4>2. Len(Contents') = write' - read'
        BY ContentsIsSeqNext
      <4> QED
        BY <4>1, <4>2 DEF TypeOK
    <3>2. CASE read + n # write
      BY <3>2, ContentsIsSeqNext DEF Drain, buffer_read_adv, TypeOK
    <3> QED
      BY <3>1, <3>2
  <2>2. ASSUME NEW i \in 1 .. Len(Contents')
        PROVE  Contents'[i] = Contents[n + 1 + i - 1]
    <3>1. read + n # write /\ i \in 1 .. write - read - n
      BY <2>1 DEF TypeOK
    <3>2. read' = read + n /\ cells' = cells /\ write' = write
      BY <3>1 DEF Drain, buffer_read_adv
    <3>3. Contents'[i] = cells[read + n + i - 1]
      <4>1. i \in 1 .. write' - read'
        BY ContentsIsSeqNext
      <4>2. Contents'[i] = cells'[read' + i - 1]
        BY <4>1, ContentsIsSeqNext
      <4> QED
        BY <3>2, <4>2
    <3>4. n + i \in 1 .. write - read /\ n + 1 + i - 1 = n + i
      BY <3>1 DEF TypeOK
    <3>5. Contents[n + i] = cells[read + (n + i) - 1]
      BY <3>4, ContentsIsSeq
    <3> QED
      BY <3>3, <3>4, <3>5 DEF TypeOK
  <2>3. /\ n + 1 \in 1 .. Len(Contents) + 1
        /\ Len(Contents) \in n + 1 - 1 .. Len(Contents)
        /\ Len(Contents') = Len(Contents) - (n + 1) + 1
    BY <1>1, <2>1, ContentsIsSeq DEF TypeOK
  <2> QED
    BY <2>2, <2>3, IsSubSeq, ContentsIsSeq, ContentsIsSeqNext
<1> QED
  BY <1>1, <1>2, <1>3 DEF Queue!Take

\* An operation that gives nothing to its caller and leaves the bytes between
\* the pointers alone takes nothing from the queue.
LEMMA QuietStep ==
  ASSUME TypeOK, Contents' = Contents, out' = <<>>
  PROVE  \E m \in 0 .. Size : Queue!Take(m)
<1>1. Contents \in Seq(Byte)
  BY ContentsIsSeq
<1>2. SubSeq(Contents, 1, Len(Contents)) = Contents
  BY <1>1, SubSeqFull
<1>3. SubSeq(Contents, 1, 0) = <<>>
  BY SubSeqEmpty
<1>4. Queue!Take(0)
  BY <1>1, <1>2, <1>3, LenProperties DEF Queue!Take
<1> QED
  BY <1>4, BufferAssumption

\* Every operation of the buffer is an operation of the queue.
LEMMA QueueStep == TypeOK /\ TypeOK' /\ [Next]_vars => [Queue!Next]_(Queue!vars)
<1> SUFFICES ASSUME TypeOK, TypeOK', [Next]_vars
             PROVE  [Queue!Next]_(Queue!vars)
  OBVIOUS
<1> USE BufferAssumption
<1>1. ASSUME NEW n \in 0 .. Size, NEW bytes \in [1 .. n -> Byte],
             NEW kept \in 0 .. n, Fill(bytes, kept)
      PROVE  Queue!Next
  BY <1>1, FillPuts DEF Queue!Next
<1>2. ASSUME NEW n \in 0 .. Size, Drain(n)
      PROVE  Queue!Next
  BY <1>2, DrainTakes DEF Queue!Next
<1>3. CASE buffer_read
  <2>1. CASE write > read
    BY <1>2, <1>3, <2>1 DEF buffer_read, TypeOK
  <2>2. CASE ~(write > read)
    <3>1. Contents' = Contents /\ out' = <<>>
      BY <1>3, <2>2 DEF buffer_read, Contents
    <3> QED
      BY <3>1, QuietStep DEF Queue!Next
  <2> QED
    BY <2>1, <2>2
<1>4. ASSUME NEW c \in Byte, buffer_write(c)
      PROVE  Queue!Next
  <2>1. CASE Size > write
    <3>1. <<c>> \in [1 .. 1 -> Byte] /\ 1 \in 0 .. Size /\ 1 \in 0 .. 1
      BY <2>1 DEF TypeOK
    <3> QED
      BY <1>1, <1>4, <2>1, <3>1 DEF buffer_write
  <2>2. CASE ~(Size > write)
    <3>1. Contents' = Contents /\ out' = <<>>
      BY <1>4, <2>2 DEF buffer_write, Contents
    <3> QED
      BY <3>1, QuietStep DEF Queue!Next
  <2> QED
    BY <2>1, <2>2
<1>5. CASE buffer_reset
  <2>1. Contents' \in Seq(Byte) /\ Len(Contents') = 0
    BY <1>5, ContentsIsSeqNext DEF buffer_reset
  <2>2. Contents' = <<>>
    BY <2>1, EmptySeq
  <2> QED
    BY <1>5, <2>2 DEF buffer_reset, Queue!Next, Queue!Clear
<1>6. CASE Compact
  <2>1. Len(Contents') = Len(Contents)
    BY <1>6, ContentsIsSeq, ContentsIsSeqNext DEF Compact, buffer_compact, TypeOK
  <2>2. ASSUME NEW i \in 1 .. Len(Contents')
        PROVE  Contents'[i] = Contents[i]
    <3>1. i \in 1 .. write - read /\ read' = 0 /\ write' = write - read
      BY <1>6, <2>1, ContentsIsSeq DEF Compact, buffer_compact
    <3>2. Contents'[i] = cells'[i - 1]
      BY <3>1, ContentsIsSeqNext DEF TypeOK
    <3>3. i - 1 \in Index /\ i - 1 < write - read
      BY <3>1 DEF TypeOK, Index
    <3>4. cells'[i - 1] = cells[read + (i - 1)]
      BY <1>6, <3>3 DEF Compact, buffer_compact
    <3>5. Contents[i] = cells[read + i - 1]
      BY <3>1, ContentsIsSeq
    <3> QED
      BY <3>1, <3>2, <3>4, <3>5 DEF TypeOK
  <2>3. Contents' = Contents
    BY <2>1, <2>2, SeqEqual, ContentsIsSeq, ContentsIsSeqNext
  <2> QED
    BY <1>6, <2>3, QuietStep DEF Compact, Queue!Next
<1>7. CASE UNCHANGED vars
  BY <1>7 DEF vars, Queue!vars, Contents
<1> QED
  BY <1>1, <1>2, <1>3, <1>4, <1>5, <1>6, <1>7 DEF Next

\* A struct buffer is a first-in first-out queue: what its callers keep of each
\* recv comes out once and in order, through every compaction.
THEOREM ImplementsQueue == Spec => QueueSpec
<1>1. Init => Queue!Init
  <2> SUFFICES ASSUME Init
               PROVE  Queue!Init
    OBVIOUS
  <2>1. Contents \in Seq(Byte) /\ Len(Contents) = 0
    BY InitType, ContentsIsSeq DEF Init
  <2>2. Contents = <<>>
    BY <2>1, EmptySeq
  <2> QED
    BY <2>2 DEF Init, Queue!Init
<1>2. TypeOK /\ TypeOK' /\ [Next]_vars => [Queue!Next]_(Queue!vars)
  BY QueueStep
<1> QED
  BY <1>1, <1>2, TypeCorrect, PTL DEF Spec, QueueSpec, Queue!Spec
=============================================================================

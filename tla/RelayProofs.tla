---------------------------- MODULE RelayProofs -----------------------------
(***************************************************************************)
(* Proofs about Relay: the types, with the write pointer inside the buffer *)
(* however answers arrive, and for a client that waits for each answer     *)
(* that its lines reach the origin as they were sent.                      *)
(***************************************************************************)
EXTENDS Relay, SequenceTheorems, WellFoundedInduction, TLAPS

(***************************************************************************)
(* Loops                                                                   *)
(***************************************************************************)

\* A set of numbers with the first and the next of each of its members is all of
\* them: there is no least one outside.
LEMMA Upward ==
  ASSUME NEW n \in Nat, NEW S, 0 \in S, \A i \in 1 .. n : i - 1 \in S => i \in S
  PROVE  \A i \in 0 .. n : i \in S
<1> DEFINE less == OpToRel(<, Nat)
           T == (0 .. n) \ S
<1> SUFFICES ASSUME T # {}
             PROVE  FALSE
  OBVIOUS
<1>1. ASSUME NEW i \in Nat, NEW j \in Nat, i < j
      PROVE  <<i, j>> \in less
  BY <1>1 DEF OpToRel
<1>2. T \in SUBSET Nat
  OBVIOUS
<1>3. PICK m \in T : \A k \in T : ~(<<k, m>> \in less)
  <2> HIDE DEF less, T
  <2>1. IsWellFoundedOn(less, Nat)
    BY NatLessThanWellFounded DEF less
  <2> QED
    BY <1>2, <2>1, WFMin
<1>4. m \in 1 .. n
  OBVIOUS
<1>5. m - 1 \in 0 .. n /\ m - 1 < m /\ m - 1 \in Nat /\ m \in Nat
  BY <1>4
<1>6. m - 1 \notin T
  <2> HIDE DEF less, T
  <2> QED
    BY <1>1, <1>3, <1>5
<1> QED
  BY <1>4, <1>5, <1>6

\* A loop of n steps, each a function on the states X, has an outcome after each.
Steps(f, n, a, G) == f[0] = a /\ \A i \in 1 .. n : f[i] = G[i][f[i - 1]]

LEMMA LoopExists ==
  ASSUME NEW n \in Nat, NEW X, NEW a \in X, NEW G \in [1 .. n -> [X -> X]]
  PROVE  \E f \in [0 .. n -> X] : Steps(f, n, a, G)
<1> DEFINE S == {k \in 0 .. n : \E f \in [0 .. k -> X] : Steps(f, k, a, G)}
<1>1. 0 \in S
  <2> DEFINE f == [i \in 0 .. 0 |-> a]
  <2>1. f \in [0 .. 0 -> X] /\ f[0] = a
    OBVIOUS
  <2> HIDE DEF f
  <2> QED
    BY <2>1 DEF Steps
<1>2. ASSUME NEW k \in 1 .. n, k - 1 \in S
      PROVE  k \in S
  <2>1. PICK f \in [0 .. k - 1 -> X] : Steps(f, k - 1, a, G)
    BY <1>2
  <2>2. G[k] \in [X -> X] /\ f[k - 1] \in X
    OBVIOUS
  <2> DEFINE g == [i \in 0 .. k |-> IF i = k THEN G[k][f[k - 1]] ELSE f[i]]
  <2>3. g \in [0 .. k -> X]
    BY <2>2
  <2>4. g[0] = a
    BY <2>1 DEF Steps
  <2>5. ASSUME NEW i \in 1 .. k
        PROVE  g[i] = G[i][g[i - 1]]
    <3>1. g[i - 1] = f[i - 1]
      OBVIOUS
    <3>2. i # k => f[i] = G[i][f[i - 1]]
      BY <2>1 DEF Steps
    <3> QED
      BY <3>1, <3>2
  <2> HIDE DEF g
  <2>6. Steps(g, k, a, G)
    BY <2>4, <2>5 DEF Steps
  <2> QED
    BY <2>3, <2>6
<1>3. n \in S
  <2> HIDE DEF S
  <2>1. \A i \in 0 .. n : i \in S
    BY <1>1, <1>2, Upward
  <2> QED
    BY <2>1
<1> QED
  BY <1>3

(***************************************************************************)
(* The loop of request_read                                                *)
(***************************************************************************)

Flags == [cr : BOOLEAN, lf : BOOLEAN, finished : BOOLEAN]
ScanState(n) == [req : Flags, sizes : Seq({k \in Int : k <= n}), send : BOOLEAN]
ScanStart == [req |-> req, sizes |-> <<>>, send |-> FALSE]

ScanNext(A, chunk, i, room) == {ScanByte(s, chunk, i, room) : s \in A}

Scanned(f, chunk, room) ==
  f = [i \in 0 .. Len(chunk) |->
         IF i = 0 THEN {ScanStart}
                  ELSE ScanNext(f[i - 1], chunk, i, room)]

ScanSteps(f, chunk, room) ==
  /\ f[0] = {ScanStart}
  /\ \A i \in 1 .. Len(chunk) : f[i] = ScanNext(f[i - 1], chunk, i, room)

LEMMA ScannedSteps ==
  ASSUME NEW f, NEW chunk, NEW room, Len(chunk) \in Nat, Scanned(f, chunk, room)
  PROVE  ScanSteps(f, chunk, room)
<1> DEFINE step(i) == IF i = 0 THEN {ScanStart}
                      ELSE ScanNext(f[i - 1], chunk, i, room)
<1>1. f = [i \in 0 .. Len(chunk) |-> step(i)]
  BY DEF Scanned
<1>2. \A i \in 0 .. Len(chunk) : f[i] = step(i)
  <2> HIDE DEF step
  <2> QED
    BY <1>1
<1> QED
  BY <1>2 DEF ScanSteps

LEMMA ScanStartType ==
  ASSUME NEW n, req \in Flags
  PROVE  ScanStart \in ScanState(n)
<1>1. <<>> \in Seq({k \in Int : k <= n})
  OBVIOUS
<1> QED
  BY <1>1 DEF ScanState, ScanStart

\* Each byte keeps the types; the size of a command is at most the place of its LF.
LEMMA ScanByteType ==
  ASSUME NEW T, NEW chunk \in Seq(T), NEW room \in Int, NEW i \in 1 .. Len(chunk),
         NEW s \in ScanState(Len(chunk))
  PROVE  ScanByte(s, chunk, i, room) \in ScanState(Len(chunk))
<1> DEFINE cr == chunk[i] = CR \/ (chunk[i] = LF /\ s.req.cr)
           lf == chunk[i] = LF \/ (chunk[i] = CR /\ s.req.lf)
           full == i < room
           size == i - One(lf) - One(cr)
<1>1. /\ s.req \in Flags /\ s.send \in BOOLEAN
      /\ s.sizes \in Seq({k \in Int : k <= Len(chunk)})
  BY DEF ScanState
<1>2. cr \in BOOLEAN /\ lf \in BOOLEAN /\ full \in BOOLEAN
  BY <1>1 DEF Flags
<1>3. size \in {k \in Int : k <= Len(chunk)}
  BY DEF One
<1>4. ScanByte(s, chunk, i, room) =
        [req |-> [cr |-> cr, lf |-> lf, finished |-> cr /\ lf],
         sizes |-> IF lf THEN Append(s.sizes, size) ELSE s.sizes,
         send |-> s.send \/ (lf /\ (cr \/ full))]
  BY DEF ScanByte
<1> HIDE DEF cr, lf, full, size
<1>5. Append(s.sizes, size) \in Seq({k \in Int : k <= Len(chunk)})
  BY <1>1, <1>3, AppendProperties
<1>6. [cr |-> cr, lf |-> lf, finished |-> cr /\ lf] \in Flags
  BY <1>2 DEF Flags
<1> QED
  BY <1>1, <1>2, <1>4, <1>5, <1>6 DEF ScanState

\* The loop has an outcome after each byte.
LEMMA ScanRuns ==
  ASSUME NEW T, NEW chunk \in Seq(T), NEW room \in Int, req \in Flags
  PROVE  \E f : ScanSteps(f, chunk, room) /\ Scan(chunk, room) = f[Len(chunk)]
<1> DEFINE n == Len(chunk)
           X == SUBSET ScanState(n)
           G == [i \in 1 .. n |->
                   [A \in X |-> ScanNext(A, chunk, i, room)]]
<1>1. n \in Nat
  OBVIOUS
<1>2. {ScanStart} \in X
  BY ScanStartType
<1>3. G \in [1 .. n -> [X -> X]]
  <2>1. ASSUME NEW i \in 1 .. n, NEW A \in X
        PROVE  ScanNext(A, chunk, i, room) \in X
    BY ScanByteType DEF ScanNext
  <2> HIDE DEF X
  <2> QED
    BY <2>1
<1>4. PICK f \in [0 .. n -> X] : Steps(f, n, {ScanStart}, G)
  <2> HIDE DEF n, X, G
  <2> QED
    BY <1>1, <1>2, <1>3, LoopExists
<1>5. Scanned(f, chunk, room)
  <2>1. f[0] = {ScanStart} /\ \A i \in 1 .. n : f[i] = G[i][f[i - 1]]
    BY <1>4 DEF Steps
  <2>2. ASSUME NEW i \in 1 .. n
        PROVE  f[i] = ScanNext(f[i - 1], chunk, i, room)
    <3>1. f[i - 1] \in X
      <4> HIDE DEF X
      <4> QED
        BY <1>1
    <3>2. f[i] = G[i][f[i - 1]]
      BY <2>1
    <3> HIDE DEF X
    <3> QED
      BY <3>1, <3>2
  <2>3. f = [i \in 0 .. n |-> f[i]]
    <3> HIDE DEF X
    <3> QED
      BY <1>4
  <2> HIDE DEF X, G
  <2> QED
    BY <1>1, <2>1, <2>2, <2>3 DEF Scanned
<1> DEFINE scan == CHOOSE g : Scanned(g, chunk, room)
<1>6. Scanned(scan, chunk, room)
  BY <1>5
<1>7. Scan(chunk, room) = scan[n]
  BY DEF Scan, Scanned, ScanStart, ScanNext
<1> HIDE DEF scan
<1>8. ScanSteps(scan, chunk, room)
  BY <1>1, <1>6, ScannedSteps
<1> QED
  BY <1>7, <1>8

\* What request_read's loop leaves has its types, whatever it reads.
LEMMA ScanType ==
  ASSUME NEW T, NEW chunk \in Seq(T), NEW room \in Int, req \in Flags
  PROVE  Scan(chunk, room) \subseteq ScanState(Len(chunk))
<1> DEFINE n == Len(chunk)
<1>1. PICK f : ScanSteps(f, chunk, room) /\ Scan(chunk, room) = f[n]
  BY ScanRuns
<1> DEFINE S == {i \in 0 .. n : f[i] \subseteq ScanState(n)}
<1>2. 0 \in S
  <2>1. f[0] = {ScanStart} /\ 0 \in 0 .. n
    BY <1>1 DEF ScanSteps
  <2> QED
    BY <2>1, ScanStartType
<1>3. ASSUME NEW i \in 1 .. n, i - 1 \in S
      PROVE  i \in S
  <2>1. f[i] = ScanNext(f[i - 1], chunk, i, room)
    BY <1>1 DEF ScanSteps
  <2>2. \A s \in f[i - 1] : ScanByte(s, chunk, i, room) \in ScanState(n)
    BY <1>3, ScanByteType
  <2> QED
    BY <2>1, <2>2 DEF ScanNext
<1>4. n \in S
  <2>1. n \in Nat
    OBVIOUS
  <2> HIDE DEF S, n
  <2>2. \A i \in 0 .. n : i \in S
    BY <1>2, <1>3, <2>1, Upward
  <2> QED
    BY <2>1, <2>2
<1> QED
  BY <1>1, <1>4

\* Of a proper line that begins with no flag set the loop makes one command, its text.
NoFlags == [cr |-> FALSE, lf |-> FALSE, finished |-> FALSE]

LEMMA ScanOfLine ==
  ASSUME NEW l \in Seq(Byte), Proper(l), NEW room \in Int, req = NoFlags
  PROVE  Scan(l, room) = {[req |-> [cr |-> TRUE, lf |-> TRUE, finished |-> TRUE],
                           sizes |-> <<Len(l) - 2>>, send |-> TRUE]}
<1> DEFINE n == Len(l) - 2
           AtCR == [req |-> [cr |-> TRUE, lf |-> FALSE, finished |-> FALSE],
                    sizes |-> <<>>, send |-> FALSE]
           AtLF == [req |-> [cr |-> TRUE, lf |-> TRUE, finished |-> TRUE],
                    sizes |-> <<n>>, send |-> TRUE]
           Begin == [req |-> NoFlags, sizes |-> <<>>, send |-> FALSE]
<1>1. req \in Flags /\ ScanStart = Begin
  BY DEF Flags, NoFlags, ScanStart
<1>2. PICK f : ScanSteps(f, l, room) /\ Scan(l, room) = f[Len(l)]
  BY <1>1, ScanRuns
<1>3. /\ f[0] = {Begin}
      /\ \A i \in 1 .. Len(l) : f[i] = ScanNext(f[i - 1], l, i, room)
  BY <1>1, <1>2 DEF ScanSteps
<1>4. /\ n \in Nat \ {0} /\ Len(l) = n + 2
      /\ \A i \in 1 .. n : l[i] # CR /\ l[i] # LF
      /\ l[n + 1] = CR /\ l[n + 2] = LF
  BY RelayAssumption DEF Proper
<1> HIDE DEF n
<1>5. CR # LF
  BY DEF CR, LF
<1> DEFINE S == {i \in 0 .. n : f[i] = {Begin}}
<1>6. 0 \in S
  BY <1>3, <1>4
<1>7. ASSUME NEW i \in 1 .. n, i - 1 \in S
      PROVE  i \in S
  <2>1. ScanByte(Begin, l, i, room) = Begin
    BY <1>4 DEF ScanByte, NoFlags
  <2>2. f[i] = ScanNext({Begin}, l, i, room)
    <3>1. f[i - 1] = {Begin} /\ i \in 1 .. Len(l)
      BY <1>4, <1>7
    <3> HIDE DEF Begin, S
    <3> QED
      BY <1>3, <3>1
  <2>3. f[i] = {Begin}
    <3> HIDE DEF Begin
    <3> QED
      BY <2>1, <2>2 DEF ScanNext
  <2> QED
    BY <1>4, <2>3
<1>8. f[n] = {Begin}
  <2> HIDE DEF S
  <2>1. \A i \in 0 .. n : i \in S
    BY <1>4, <1>6, <1>7, Upward
  <2>2. n \in S
    BY <1>4, <2>1
  <2> QED
    BY <2>2 DEF S
<1>9. f[n + 1] = {AtCR}
  <2>1. ScanByte(Begin, l, n + 1, room) = AtCR
    BY <1>4, <1>5 DEF ScanByte, NoFlags
  <2>2. f[n + 1] = ScanNext({Begin}, l, n + 1, room)
    <3>1. n + 1 \in 1 .. Len(l) /\ (n + 1) - 1 = n
      BY <1>4
    <3> HIDE DEF Begin
    <3> QED
      BY <1>3, <1>8, <3>1
  <2> HIDE DEF Begin, AtCR
  <2> QED
    BY <2>1, <2>2 DEF ScanNext
<1>10. f[n + 2] = {AtLF}
  <2>1. ScanByte(AtCR, l, n + 2, room) = AtLF
    <3>1. (n + 2) - One(TRUE) - One(TRUE) = n
      BY <1>4 DEF One
    <3>2. Append(<<>>, n) = <<n>>
      OBVIOUS
    <3> QED
      BY <1>4, <1>5, <3>1, <3>2 DEF ScanByte
  <2>2. f[n + 2] = ScanNext({AtCR}, l, n + 2, room)
    <3>1. n + 2 \in 1 .. Len(l) /\ (n + 2) - 1 = n + 1
      BY <1>4
    <3> HIDE DEF AtCR
    <3> QED
      BY <1>3, <1>9, <3>1
  <2> HIDE DEF AtCR, AtLF
  <2> QED
    BY <2>1, <2>2 DEF ScanNext
<1> QED
  BY <1>2, <1>4, <1>10 DEF n

(***************************************************************************)
(* The loop of response_read                                               *)
(***************************************************************************)

Memory == [Offset -> BOOLEAN]
DigestState ==
  [orig : Memory, adv : Nat, send : BOOLEAN, cmds : Seq(Command), now : Seq(Command)]
DigestStart == Awaiting(orig, 0, FALSE, cmds)
DigestNext(A, chunk, i) == {DigestByte(d, chunk, i) : d \in A}

Digested(f, chunk) ==
  f = [i \in 0 .. Len(chunk) |->
         IF i = 0 THEN {DigestStart} ELSE DigestNext(f[i - 1], chunk, i)]

DigestSteps(f, chunk) ==
  /\ f[0] = {DigestStart}
  /\ \A i \in 1 .. Len(chunk) : f[i] = DigestNext(f[i - 1], chunk, i)

LEMMA DigestedSteps ==
  ASSUME NEW f, NEW chunk, Len(chunk) \in Nat, Digested(f, chunk)
  PROVE  DigestSteps(f, chunk)
<1> DEFINE step(i) == IF i = 0 THEN {DigestStart} ELSE DigestNext(f[i - 1], chunk, i)
<1>1. f = [i \in 0 .. Len(chunk) |-> step(i)]
  BY DEF Digested
<1>2. \A i \in 0 .. Len(chunk) : f[i] = step(i)
  <2> HIDE DEF step
  <2> QED
    BY <1>1
<1> QED
  BY <1>2 DEF DigestSteps

\* The flags stay flags, and inside the union.
LEMMA CheckLineType ==
  ASSUME NEW o \in Memory, NEW cr \in Offset, NEW finished \in Offset, NEW c
  PROVE  CheckLine(o, cr, finished, c) \in Memory
BY DEF CheckLine, Memory

LEMMA CheckMultilineType ==
  ASSUME NEW o \in Memory, NEW f, NEW c,
         f.first_cr \in Offset, f.first_lf \in Offset, f.dot \in Offset,
         f.second_cr \in Offset, f.finished \in Offset
  PROVE  CheckMultiline(o, f, c) \in Memory
<1>1. CASE c = CR
  BY <1>1 DEF CheckMultiline, Memory, CR, LF, DOT
<1>2. CASE c = LF
  BY <1>2 DEF CheckMultiline, Memory, CR, LF, DOT
<1>3. CASE c = DOT
  BY <1>3 DEF CheckMultiline, Memory, CR, LF, DOT
<1>4. CASE c \notin {CR, LF, DOT}
  <2>1. CheckMultiline(o, f, c) =
          [o EXCEPT ![f.first_cr] = FALSE, ![f.first_lf] = FALSE,
                    ![f.dot] = FALSE, ![f.second_cr] = FALSE]
    BY <1>4 DEF CheckMultiline
  <2> QED
    BY <2>1 DEF Memory
<1> QED
  BY <1>1, <1>2, <1>3, <1>4

LEMMA AwaitingType ==
  ASSUME NEW o \in Memory, NEW adv \in Nat, NEW send \in BOOLEAN,
         NEW queue \in Seq(Command)
  PROVE  Awaiting(o, adv, send, queue) \in DigestState
<1>1. CASE queue = <<>>
  <2>1. Awaiting(o, adv, send, queue) =
          [orig |-> o, adv |-> adv, send |-> send, cmds |-> <<>>, now |-> <<>>]
    BY <1>1 DEF Awaiting
  <2>2. <<>> \in Seq(Command)
    OBVIOUS
  <2> QED
    BY <2>1, <2>2 DEF DigestState
<1>2. CASE queue # <<>>
  <2>1. Tail(queue) \in Seq(Command) /\ Head(queue) \in Command
    BY <1>2, HeadTailProperties
  <2>2. <<Head(queue)>> \in Seq(Command)
    BY <2>1
  <2>3. Awaiting(o, adv, send, queue) =
          [orig |-> o, adv |-> adv, send |-> send, cmds |-> Tail(queue),
           now |-> <<Head(queue)>>]
    BY <1>2 DEF Awaiting
  <2> QED
    BY <2>1, <2>2, <2>3 DEF DigestState
<1> QED
  BY <1>1, <1>2

\* Each byte keeps the types, whichever command it answers.
\* next_cmd_multiline is none of the flags that check_char looks at.
Told(o, m) == [o EXCEPT ![response.next_cmd_multiline] = m]

LEMMA ToldFlags ==
  ASSUME NEW o \in Memory, NEW m \in BOOLEAN
  PROVE  /\ Told(o, m) \in Memory
         /\ Told(o, m)[response.first_cr] = o[response.first_cr]
         /\ Told(o, m)[response.first_lf] = o[response.first_lf]
         /\ Told(o, m)[response.dot] = o[response.dot]
         /\ Told(o, m)[response.second_cr] = o[response.second_cr]
         /\ Told(o, m)[response.finished] = o[response.finished]
BY DEF Told, Memory, response, Offset

LEMMA ResponseByteType ==
  ASSUME NEW o \in Memory, NEW m \in BOOLEAN, NEW c
  PROVE  ResponseByte(m, o, c) \in Memory
<1>1. /\ response.first_cr \in Offset /\ response.first_lf \in Offset
      /\ response.dot \in Offset /\ response.second_cr \in Offset
      /\ response.finished \in Offset
  BY DEF response, Offset
<1>2. Told(o, m) \in Memory
  BY ToldFlags
<1>3. /\ CheckMultiline(Told(o, m), response, c) \in Memory
      /\ CheckLine(Told(o, m), response.first_cr, response.finished, c) \in Memory
  BY <1>1, <1>2, CheckMultilineType, CheckLineType
<1>4. ResponseByte(m, o, c) =
        IF m THEN CheckMultiline(Told(o, m), response, c)
             ELSE CheckLine(Told(o, m), response.first_cr, response.finished, c)
  BY DEF ResponseByte, Told
<1> QED
  BY <1>3, <1>4

LEMMA DigestByteType ==
  ASSUME NEW chunk, NEW i \in Nat, NEW d \in DigestState
  PROVE  DigestByte(d, chunk, i) \in DigestState
<1> DEFINE o == ResponseByte(d.now[1].multiline, d.orig, chunk[i])
<1>1. /\ d.orig \in Memory /\ d.adv \in Nat /\ d.send \in BOOLEAN
      /\ d.cmds \in Seq(Command) /\ d.now \in Seq(Command)
      /\ d = [orig |-> d.orig, adv |-> d.adv, send |-> d.send, cmds |-> d.cmds,
              now |-> d.now]
  BY DEF DigestState
<1>2. CASE d.now = <<>>
  BY <1>2 DEF DigestByte
<1>3. ASSUME d.now # <<>>
      PROVE  o \in Memory
  <2>1. d.now[1] \in Command
    BY <1>1, <1>3
  <2>2. d.now[1].multiline \in BOOLEAN
    BY <2>1 DEF Command
  <2> QED
    BY <1>1, <2>2, ResponseByteType
<1>4. ASSUME d.now # <<>>
      PROVE  DigestByte(d, chunk, i) =
               IF ~o[response.finished] THEN [d EXCEPT !.orig = o]
               ELSE Awaiting(o, d.adv + i, TRUE, d.cmds)
  BY <1>4 DEF DigestByte
<1> HIDE DEF o
<1>5. d.now # <<>> => Awaiting(o, d.adv + i, TRUE, d.cmds) \in DigestState
  <2>1. d.adv + i \in Nat
    BY <1>1
  <2> QED
    BY <1>1, <1>3, <2>1, AwaitingType
<1>6. d.now # <<>> => [d EXCEPT !.orig = o] \in DigestState
  BY <1>3 DEF DigestState
<1> QED
  BY <1>2, <1>4, <1>5, <1>6

\* The loop has an outcome after each byte, and what it leaves has its types.
LEMMA DigestRuns ==
  ASSUME NEW T, NEW chunk \in Seq(T), orig \in Memory, cmds \in Seq(Command)
  PROVE  \E f : /\ DigestSteps(f, chunk) /\ Digest(chunk) = f[Len(chunk)]
               /\ \A i \in 0 .. Len(chunk) : f[i] \subseteq DigestState
<1> DEFINE n == Len(chunk)
           X == SUBSET DigestState
           G == [i \in 1 .. n |-> [A \in X |-> DigestNext(A, chunk, i)]]
<1>1. n \in Nat
  OBVIOUS
<1>2. {DigestStart} \in X
  BY AwaitingType DEF DigestStart
<1>3. ASSUME NEW i \in 1 .. n, NEW A \in X
      PROVE  DigestNext(A, chunk, i) \in X
  <2>1. i \in Nat
    BY <1>1
  <2> QED
    BY <2>1, DigestByteType DEF DigestNext
<1>4. G \in [1 .. n -> [X -> X]]
  <2> HIDE DEF X
  <2> QED
    BY <1>3
<1>5. PICK f \in [0 .. n -> X] : Steps(f, n, {DigestStart}, G)
  <2> HIDE DEF n, X, G
  <2> QED
    BY <1>1, <1>2, <1>4, LoopExists
<1>6. Digested(f, chunk)
  <2>1. f[0] = {DigestStart} /\ \A i \in 1 .. n : f[i] = G[i][f[i - 1]]
    BY <1>5 DEF Steps
  <2>2. ASSUME NEW i \in 1 .. n
        PROVE  f[i] = DigestNext(f[i - 1], chunk, i)
    <3>1. f[i - 1] \in X
      <4> HIDE DEF X
      <4> QED
        BY <1>1
    <3>2. f[i] = G[i][f[i - 1]]
      BY <2>1
    <3> HIDE DEF X
    <3> QED
      BY <3>1, <3>2
  <2>3. f = [i \in 0 .. n |-> f[i]]
    <3> HIDE DEF X
    <3> QED
      BY <1>5
  <2> HIDE DEF X, G
  <2> QED
    BY <1>1, <2>1, <2>2, <2>3 DEF Digested
<1> DEFINE digest == CHOOSE g : Digested(g, chunk)
<1>7. Digested(digest, chunk)
  BY <1>6
<1>8. Digest(chunk) = digest[n]
  BY DEF Digest, Digested, DigestStart, DigestNext
<1> HIDE DEF digest
<1>9. DigestSteps(digest, chunk)
  BY <1>1, <1>7, DigestedSteps
<1> DEFINE S == {i \in 0 .. n : digest[i] \in X}
<1>10. 0 \in S
  BY <1>1, <1>2, <1>9 DEF DigestSteps
<1>11. ASSUME NEW i \in 1 .. n, i - 1 \in S
       PROVE  i \in S
  <2>1. digest[i] = DigestNext(digest[i - 1], chunk, i) /\ digest[i - 1] \in X
    BY <1>9, <1>11 DEF DigestSteps
  <2> HIDE DEF X
  <2> QED
    BY <1>3, <2>1
<1>12. \A i \in 0 .. n : i \in S
  <2> HIDE DEF S, n
  <2> QED
    BY <1>1, <1>10, <1>11, Upward
<1> QED
  BY <1>8, <1>9, <1>12

LEMMA DigestType ==
  ASSUME NEW T, NEW chunk \in Seq(T), orig \in Memory, cmds \in Seq(Command)
  PROVE  Digest(chunk) \subseteq DigestState
<1>1. Len(chunk) \in 0 .. Len(chunk)
  OBVIOUS
<1> QED
  BY <1>1, DigestRuns

(***************************************************************************)
(* Sequences                                                               *)
(***************************************************************************)

LEMMA FunctionIsSeq ==
  ASSUME NEW T, NEW n \in Nat, NEW f \in [1 .. n -> T]
  PROVE  f \in Seq(T) /\ Len(f) = n
OBVIOUS

LEMMA JoinIsSeq ==
  ASSUME NEW T, NEW s \in Seq(T), NEW t \in Seq(T)
  PROVE  /\ s \o t \in Seq(T)
         /\ Len(s \o t) = Len(s) + Len(t)
         /\ \A i \in 1 .. Len(s) + Len(t) :
              (s \o t)[i] = IF i <= Len(s) THEN s[i] ELSE t[i - Len(s)]
BY ConcatProperties

\* A part of a sequence is one.
LEMMA PartIsSeq ==
  ASSUME NEW T, NEW s \in Seq(T), NEW m \in Nat \ {0}, NEW n \in Int, n <= Len(s)
  PROVE  /\ SubSeq(s, m, n) \in Seq(T)
         /\ Len(SubSeq(s, m, n)) = IF m <= n THEN n - m + 1 ELSE 0
<1>1. \A i \in m .. n : s[i] \in T
  BY ElementOfSeq
<1> QED
  BY <1>1, SubSeqProperties

\* A set of numbers has a least one, and a search from the left finds it.
LEMMA LeastFound ==
  ASSUME NEW I \in SUBSET Nat, I # {}
  PROVE  Min(I) \in I
<1> DEFINE less == OpToRel(<, Nat)
<1>1. ASSUME NEW i \in Nat, NEW j \in Nat, i < j
      PROVE  <<i, j>> \in less
  BY <1>1 DEF OpToRel
<1>2. PICK m \in I : \A k \in I : ~(<<k, m>> \in less)
  <2> HIDE DEF less
  <2>1. IsWellFoundedOn(less, Nat)
    BY NatLessThanWellFounded DEF less
  <2> QED
    BY <2>1, WFMin
<1>3. ASSUME NEW k \in I
      PROVE  m <= k
  <2>1. ~(k < m)
    BY <1>1, <1>2
  <2> QED
    BY <2>1
<1> QED
  BY <1>3 DEF Min

LEMMA LineType ==
  ASSUME NEW T, NEW s \in Seq(T)
  PROVE  /\ Line(s) \in Seq(T) /\ Len(Line(s)) <= Len(s)
         /\ \A i \in 1 .. Len(s) :
              (s[i] = LF /\ \A k \in 1 .. Len(s) : s[k] = LF => k = i) =>
                Line(s) = SubSeq(s, 1, i)
<1> DEFINE I == {i \in 1 .. Len(s) : s[i] = LF}
           n == IF I # {} THEN Min(I) ELSE 0
<1>1. n \in 0 .. Len(s) /\ (I # {} => n \in I)
  <2>1. I \in SUBSET Nat
    OBVIOUS
  <2>2. I # {} => Min(I) \in I
    <3> HIDE DEF I
    <3> QED
      BY <2>1, LeastFound
  <2>3. Len(s) \in Nat
    OBVIOUS
  <2> QED
    BY <2>2, <2>3
<1>2. Line(s) = SubSeq(s, 1, n)
  BY DEF Line, SelectInSeq
<1>3. ASSUME NEW i \in 1 .. Len(s), s[i] = LF,
             \A k \in 1 .. Len(s) : s[k] = LF => k = i
      PROVE  n = i
  BY <1>1, <1>3
<1> HIDE DEF n
<1>4. /\ SubSeq(s, 1, n) \in Seq(T)
      /\ Len(SubSeq(s, 1, n)) = IF 1 <= n THEN n - 1 + 1 ELSE 0
  <2>1. n \in Int /\ n <= Len(s) /\ 1 \in Nat \ {0}
    BY <1>1
  <2> QED
    BY <2>1, PartIsSeq
<1>5. Len(SubSeq(s, 1, n)) <= Len(s)
  <2>1. Len(s) \in Nat
    OBVIOUS
  <2> QED
    BY <1>1, <1>4, <2>1
<1> QED
  BY <1>2, <1>3, <1>4, <1>5

\* What is left of a stream after a part was taken.
LEMMA AfterType ==
  ASSUME NEW T, NEW s \in Seq(T), NEW t, Len(t) \in Nat
  PROVE  /\ After(s, t) \in Seq(T)
         /\ Len(t) = Len(s) => After(s, t) = <<>>
<1>1. Len(t) + 1 \in Nat \ {0} /\ Len(s) \in Nat /\ Len(s) \in Int /\ Len(s) <= Len(s)
  OBVIOUS
<1>2. /\ After(s, t) \in Seq(T)
      /\ Len(After(s, t)) =
           IF Len(t) + 1 <= Len(s) THEN Len(s) - (Len(t) + 1) + 1 ELSE 0
  BY <1>1, PartIsSeq DEF After
<1>3. Len(t) = Len(s) => Len(After(s, t)) = 0
  BY <1>1, <1>2
<1>4. \A u \in Seq(T) : Len(u) = 0 => u = <<>>
  OBVIOUS
<1> QED
  BY <1>2, <1>3, <1>4

\* What a recv returns.
LEMMA ReceivedType ==
  ASSUME NEW T, NEW s \in Seq(T), NEW room \in Nat, NEW side,
         NEW chunk \in Received(side, s, room)
  PROVE  /\ chunk \in Seq(T)
         /\ Len(chunk) \in 1 .. room /\ Len(chunk) <= Len(s)
         /\ side \notin SplitRecv /\ Len(s) <= room => chunk = s
<1>1. Len(s) \in Nat
  OBVIOUS
<1> DEFINE most == IF Len(s) < room THEN Len(s) ELSE room
<1>2. PICK n \in 1 .. most : chunk = SubSeq(s, 1, n) /\ (side \in SplitRecv \/ n = most)
  BY DEF Received
<1>3. n \in Int /\ n <= Len(s) /\ n <= room /\ 1 <= n /\ 1 \in Nat \ {0} /\ n - 1 + 1 = n
  BY <1>1, <1>2
<1>4. /\ chunk \in Seq(T)
      /\ Len(chunk) = n
  BY <1>2, <1>3, PartIsSeq
<1>5. Len(s) <= room => most = Len(s)
  BY <1>1
<1>6. SubSeq(s, 1, Len(s)) = s
  BY SubSeqProperties
<1>7. side \notin SplitRecv /\ Len(s) <= room => chunk = s
  <2> HIDE DEF most
  <2> QED
    BY <1>2, <1>5, <1>6
<1>8. Len(chunk) \in 1 .. room /\ Len(chunk) <= Len(s)
  BY <1>3, <1>4
<1> QED
  BY <1>4, <1>7, <1>8

\* FlattenSeq joins one sequence after the other.
Joined(f, s, n) == f = [i \in 1 .. n |-> IF i = 1 THEN s[i] ELSE f[i - 1] \o s[i]]

LEMMA JoinedSteps ==
  ASSUME NEW f, NEW s, NEW n \in Nat, Joined(f, s, n)
  PROVE  \A i \in 1 .. n : f[i] = IF i = 1 THEN s[i] ELSE f[i - 1] \o s[i]
<1> DEFINE part(i) == IF i = 1 THEN s[i] ELSE f[i - 1] \o s[i]
<1>1. f = [i \in 1 .. n |-> part(i)]
  BY DEF Joined
<1>2. \A i \in 1 .. n : f[i] = part(i)
  <2> HIDE DEF part
  <2> QED
    BY <1>1
<1> QED
  BY <1>2

LEMMA JoinedExists ==
  ASSUME NEW T, NEW n \in Nat, NEW s \in [1 .. n -> Seq(T)]
  PROVE  \E f : Joined(f, s, n)
<1> DEFINE X == Seq(T)
           G == [i \in 1 .. n |-> [x \in X |-> x \o s[i]]]
<1>1. ASSUME NEW i \in 1 .. n, NEW x \in X
      PROVE  x \o s[i] \in X
  BY JoinIsSeq
<1>2. G \in [1 .. n -> [X -> X]]
  <2> HIDE DEF X
  <2> QED
    BY <1>1
<1>3. <<>> \in X
  OBVIOUS
<1>4. PICK f \in [0 .. n -> X] : Steps(f, n, <<>>, G)
  <2> HIDE DEF X, G
  <2> QED
    BY <1>2, <1>3, LoopExists
<1> DEFINE g == [i \in 1 .. n |-> f[i]]
<1>5. ASSUME NEW i \in 1 .. n
      PROVE  g[i] = IF i = 1 THEN s[i] ELSE g[i - 1] \o s[i]
  <2>1. f[0] = <<>> /\ f[i] = G[i][f[i - 1]]
    BY <1>4 DEF Steps
  <2>2. f[i - 1] \in X
    <3> HIDE DEF X
    <3> QED
      OBVIOUS
  <2>3. f[i] = f[i - 1] \o s[i]
    <3> HIDE DEF X
    <3> QED
      BY <2>1, <2>2
  <2>4. CASE i = 1
    <3>1. s[1] \in Seq(T)
      BY <2>4
    <3>2. <<>> \o s[1] = s[1]
      BY <3>1
    <3>3. f[i - 1] = <<>>
      BY <2>1, <2>4
    <3>4. f[i] = s[1] /\ g[i] = f[i]
      BY <2>3, <2>4, <3>2, <3>3
    <3> QED
      BY <2>4, <3>4
  <2>5. CASE i # 1
    <3>1. i - 1 \in 1 .. n
      BY <2>5
    <3> QED
      BY <2>3, <2>5, <3>1
  <2> QED
    BY <2>4, <2>5
<1>6. g = [i \in 1 .. n |-> g[i]]
  OBVIOUS
<1> HIDE DEF g
<1>7. Joined(g, s, n)
  BY <1>5, <1>6 DEF Joined
<1> QED
  BY <1>7

LEMMA FlattenIsSeq ==
  ASSUME NEW T, NEW n \in Nat, NEW s \in [1 .. n -> Seq(T)]
  PROVE  /\ FlattenSeq(s) \in Seq(T)
         /\ n = 1 => FlattenSeq(s) = s[1]
<1> DEFINE flat == CHOOSE f : Joined(f, s, n)
<1>1. Joined(flat, s, n)
  BY JoinedExists
<1>2. \A i \in 1 .. n : flat[i] = IF i = 1 THEN s[i] ELSE flat[i - 1] \o s[i]
  <2> HIDE DEF flat
  <2> QED
    BY <1>1, JoinedSteps
<1>3. s \in Seq(Seq(T)) /\ Len(s) = n
  OBVIOUS
<1>4. FlattenSeq(s) = IF n = 0 THEN s ELSE flat[n]
  BY <1>3 DEF FlattenSeq, Joined
<1> HIDE DEF flat
<1> DEFINE S == {0} \cup {i \in 1 .. n : flat[i] \in Seq(T)}
<1>5. ASSUME NEW i \in 1 .. n, i - 1 \in S
      PROVE  i \in S
  <2>1. s[i] \in Seq(T)
    OBVIOUS
  <2>2. i # 1 => flat[i - 1] \in Seq(T)
    BY <1>5
  <2>3. i # 1 => flat[i - 1] \o s[i] \in Seq(T)
    BY <2>1, <2>2, JoinIsSeq
  <2>4. flat[i] \in Seq(T)
    BY <1>2, <2>1, <2>3
  <2> QED
    BY <2>4
<1>6. 0 \in S
  OBVIOUS
<1>7. n \in S
  <2> HIDE DEF S
  <2>1. \A i \in 0 .. n : i \in S
    BY <1>5, <1>6, Upward
  <2> QED
    BY <2>1
<1>8. CASE n = 0
  <2>1. s = <<>>
    BY <1>3, <1>8
  <2> QED
    BY <1>4, <1>8, <2>1
<1>9. CASE n # 0
  BY <1>2, <1>4, <1>7, <1>9
<1> QED
  BY <1>8, <1>9

(***************************************************************************)
(* Types                                                                   *)
(***************************************************************************)

\* What TypeOK asks of a buffer.
Sound(b) == b \in Buffer /\ Len(b.queue) <= b.write

LEMMA EmptyIsSound == Sound(Empty)
<1>1. <<>> \in Seq(Byte) /\ Len(<<>>) = 0
  OBVIOUS
<1>2. 0 \in 0 .. Size
  BY RelayAssumption
<1> QED
  BY <1>1, <1>2 DEF Sound, Empty, Buffer

LEMMA KeepIsSound ==
  ASSUME NEW b, Sound(b), NEW bytes \in Seq(Byte), b.write + Len(bytes) <= Size
  PROVE  Sound(Keep(b, bytes))
<1>1. b.queue \in Seq(Byte) /\ b.write \in 0 .. Size /\ Len(b.queue) <= b.write
  BY DEF Sound, Buffer
<1>2. b.queue \o bytes \in Seq(Byte)
      /\ Len(b.queue \o bytes) = Len(b.queue) + Len(bytes)
  BY <1>1, JoinIsSeq
<1>3. Len(bytes) \in Nat /\ Len(b.queue) \in Nat /\ Size \in Nat
  BY <1>1, RelayAssumption
<1>4. b.write + Len(bytes) \in 0 .. Size
  BY <1>1, <1>3
<1> DEFINE q == b.queue \o bytes
           w == b.write + Len(bytes)
<1>5. Keep(b, bytes) = [queue |-> q, write |-> w]
  BY DEF Keep
<1>6. q \in Seq(Byte) /\ w \in 0 .. Size /\ Len(q) <= w
  BY <1>1, <1>2, <1>3, <1>4
<1> HIDE DEF q, w
<1> QED
  BY <1>5, <1>6 DEF Sound, Buffer

LEMMA DropIsSound ==
  ASSUME NEW b, Sound(b), NEW n \in 1 .. Len(b.queue)
  PROVE  Sound(Drop(b, n))
<1>1. b.queue \in Seq(Byte) /\ b.write \in 0 .. Size /\ Len(b.queue) <= b.write
  BY DEF Sound, Buffer
<1>2. CASE n = Len(b.queue)
  BY <1>2, EmptyIsSound DEF Drop
<1>3. CASE n # Len(b.queue)
  <2> DEFINE q == SubSeq(b.queue, n + 1, Len(b.queue))
  <2>1. q \in Seq(Byte) /\ Len(q) = Len(b.queue) - n
    <3>1. Len(b.queue) \in Nat
      BY <1>1
    <3>2. n + 1 \in Nat \ {0} /\ Len(b.queue) <= Len(b.queue)
      BY <3>1
    <3>3. /\ q \in Seq(Byte)
          /\ Len(q) = IF n + 1 <= Len(b.queue) THEN Len(b.queue) - (n + 1) + 1 ELSE 0
      BY <1>1, <3>1, <3>2, PartIsSeq
    <3> QED
      BY <3>1, <3>3, <1>3
  <2>2. Drop(b, n) = [b EXCEPT !.queue = q]
    BY <1>3 DEF Drop
  <2>3. Len(q) <= b.write
    <3>1. Len(b.queue) \in Nat
      BY <1>1
    <3> QED
      BY <1>1, <2>1, <3>1
  <2> HIDE DEF q
  <2>4. Drop(b, n).queue = q /\ Drop(b, n).write = b.write
    BY <2>2 DEF Sound, Buffer
  <2>5. Drop(b, n) \in Buffer
    BY <2>1, <2>2 DEF Sound, Buffer
  <2> QED
    BY <2>3, <2>4, <2>5 DEF Sound
<1> QED
  BY <1>2, <1>3

\* TypeOK, for each variable.
Types ==
  /\ st \in {"GREETINGS", "CAPA", "REQUEST", "RESPONSE", "ERROR", "crash"}
  /\ armed \in {"client_r", "client_w", "origin_r", "origin_w", "none"}
  /\ Sound(rbuf) /\ Sound(wbuf)
  /\ req \in Flags /\ cmds \in Seq(Command) /\ orig \in Memory
  /\ up \in Seq(Byte) /\ down \in Seq(Byte) /\ inbox \in Seq(Byte)
  /\ sent \in Seq(Byte) /\ relayed \in Seq(Byte)
  /\ due \in Seq(Byte) /\ got \in Seq(Byte)
  /\ asked \in Nat /\ answered \in Nat /\ bytes_transfered \in Nat

LEMMA Typed == (TypeOK <=> Types) /\ (TypeOK' <=> Types')
BY DEF TypeOK, Types, Sound, Flags, Memory

LEMMA TypesStay ==
  ASSUME TypeOK, UNCHANGED vars
  PROVE  TypeOK'
BY DEF TypeOK, vars, buffers, peers, history

LEMMA InitTypes == Init => TypeOK
<1> SUFFICES ASSUME Init
             PROVE  TypeOK
  OBVIOUS
<1>1. <<>> \in Seq(Byte) /\ <<>> \in Seq(Command) /\ Greeting \in Seq(Byte)
  BY RelayAssumption
<1>2. req \in Flags /\ orig \in Memory
  BY DEF Init, Flags, Memory
<1> QED
  BY <1>1, <1>2, EmptyIsSound, Typed DEF Types, Init

\* A byte received from the origin.
LEMMA ByteReceived ==
  ASSUME NEW s \in Seq(Byte), s # <<>>
  PROVE  /\ Tail(s) \in Seq(Byte) /\ Head(s) \in Byte
         /\ <<Head(s)>> \in Seq(Byte) /\ Len(<<Head(s)>>) = 1
<1>1. Tail(s) \in Seq(Byte) /\ Head(s) \in Byte
  BY HeadTailProperties
<1> QED
  BY <1>1

LEMMA SentType ==
  ASSUME NEW b, Sound(b), NEW n \in Accepted(b.queue)
  PROVE  /\ Sound(Drop(b, n))
         /\ SubSeq(b.queue, 1, n) \in Seq(Byte)
<1>1. n \in 1 .. Len(b.queue)
  BY DEF Accepted
<1>2. b.queue \in Seq(Byte)
  BY DEF Sound, Buffer
<1>3. n \in Int /\ n <= Len(b.queue) /\ 1 \in Nat \ {0}
  BY <1>1
<1> QED
  BY <1>1, <1>2, <1>3, DropIsSound, PartIsSeq

\* There is room for the byte that greetings_read and capa_read add.
LEMMA RoomForOne ==
  ASSUME NEW b, Sound(b), CanWrite(b), NEW c, <<c>> \in Seq(Byte)
  PROVE  Sound(Keep(b, <<c>>))
<1>1. b.write \in 0 .. Size /\ Size \in Nat
  BY RelayAssumption DEF Sound, Buffer
<1>2. b.write + Len(<<c>>) <= Size
  BY <1>1 DEF CanWrite
<1> QED
  BY <1>2, KeepIsSound

LEMMA GreetingsReadTypes ==
  ASSUME TypeOK, greetings_read
  PROVE  TypeOK'
<1>1. CASE ~CanWrite(rbuf)
  BY <1>1 DEF greetings_read, TypeOK, history
<1>2. CASE CanWrite(rbuf)
  <2>1. /\ down # <<>> /\ down' = Tail(down)
        /\ orig' = CheckLine(orig, cr_received, greet_finished, Head(down))
        /\ rbuf' = Keep(rbuf, <<Head(down)>>)
        /\ armed' \in {"client_w", armed}
        /\ UNCHANGED <<st, wbuf, req, cmds, bytes_transfered, up, inbox, gone, history>>
    BY <1>2 DEF greetings_read
  <2>2. down' \in Seq(Byte) /\ <<Head(down)>> \in Seq(Byte)
    BY <2>1, ByteReceived, Typed DEF Types
  <2>3. Sound(rbuf')
    BY <1>2, <2>1, <2>2, RoomForOne, Typed DEF Types
  <2>4. orig' \in Memory
    BY <2>1, CheckLineType, Typed DEF Types, cr_received, greet_finished, Offset
  <2>5. UNCHANGED <<sent, relayed, due, got, asked, answered>>
    BY <2>1 DEF history
  <2> QED
    BY <2>1, <2>2, <2>3, <2>4, <2>5, Typed DEF Types
<1> QED
  BY <1>1, <1>2

LEMMA GreetingsWriteTypes ==
  ASSUME TypeOK, greetings_write
  PROVE  TypeOK'
<1>1. UNCHANGED <<req, cmds, bytes_transfered, up, down, inbox, sent, relayed, due,
                  asked, answered>>
  BY DEF greetings_write, peers
<1>2. CASE /\ armed' = "origin_r"
           /\ UNCHANGED <<st, buffers, orig, got>>
  BY <1>1, <1>2, Typed DEF Types, buffers
<1>3. ASSUME NEW n \in Accepted(rbuf.queue),
             got' = got \o SubSeq(rbuf.queue, 1, n),
             rbuf' = Drop(rbuf, n),
             IF orig[greet_finished]
             THEN st' = "CAPA" /\ armed' = "origin_w" /\ capa_init
             ELSE UNCHANGED <<st, armed, wbuf, orig>>
      PROVE  TypeOK'
  <2>1. Sound(rbuf') /\ SubSeq(rbuf.queue, 1, n) \in Seq(Byte)
    BY <1>3, SentType, Typed DEF Types
  <2>2. got' \in Seq(Byte)
    BY <1>3, <2>1, JoinIsSeq, Typed DEF Types
  <2>3. CASE orig[greet_finished]
    <3>1. orig' \in Memory /\ wbuf' = Empty
      BY <1>3, <2>3, Typed DEF Types, capa_init, Memory, capa, Offset
    <3> QED
      BY <1>1, <1>3, <2>1, <2>2, <2>3, <3>1, EmptyIsSound, Typed DEF Types
  <2>4. CASE ~orig[greet_finished]
    BY <1>1, <1>3, <2>1, <2>2, <2>4, Typed DEF Types
  <2> QED
    BY <2>3, <2>4
<1> QED
  BY <1>2, <1>3 DEF greetings_write

LEMMA CapaSendTypes ==
  ASSUME TypeOK, capa_send
  PROVE  TypeOK'
<1>1. <<CAPA, CR, LF>> \in Seq(Byte)
  <2>1. CAPA \in Byte /\ CR \in Byte /\ LF \in Byte
    BY RelayAssumption DEF Byte
  <2> QED
    BY <2>1
<1>2. inbox' \in Seq(Byte)
  BY <1>1, JoinIsSeq, Typed DEF Types, capa_send
<1> QED
  BY <1>2, Typed DEF Types, capa_send, buffers, history

LEMMA EndsTypes ==
  ASSUME TypeOK, NEW ends, ends \subseteq {"ERROR", "crash"}, EndsAs(ends)
  PROVE  TypeOK'
<1>1. st' \in {"ERROR", "crash"} /\ armed' = "none"
  BY DEF EndsAs
<1> QED
  BY <1>1, Typed DEF Types, EndsAs, buffers, peers, history

LEMMA CrashTypes ==
  ASSUME TypeOK, Crash
  PROVE  TypeOK'
BY EndsTypes DEF Crash

LEMMA RequestInitTypes ==
  ASSUME request_init
  PROVE  req' = NoFlags /\ req' \in Flags /\ rbuf' = Empty /\ Sound(rbuf')
         /\ cmds' = <<>> /\ cmds' \in Seq(Command)
<1>1. <<>> \in Seq(Command)
  OBVIOUS
<1> QED
  BY <1>1, EmptyIsSound DEF request_init, Flags, NoFlags

LEMMA CapaReadTypes ==
  ASSUME TypeOK, capa_read
  PROVE  TypeOK'
<1>1. CASE ~CanWrite(wbuf)
  BY <1>1, CrashTypes DEF capa_read
<1>2. CASE CanWrite(wbuf)
  <2> DEFINE o == CheckMultiline(orig, capa, Head(down))
             reply == Keep(wbuf, <<Head(down)>>)
  <2>1. /\ down # <<>> /\ down' = Tail(down)
        /\ \/ /\ orig' = [o EXCEPT ![capa.pipelining] =
                                     "PIPELINING" \in ToSet(CString(reply.queue))]
              /\ wbuf' = Empty /\ armed' = "client_r" /\ st' = "REQUEST"
              /\ request_init
           \/ orig' = o /\ wbuf' = reply /\ UNCHANGED <<armed, st, rbuf, req, cmds>>
        /\ UNCHANGED <<bytes_transfered, up, inbox, sent, relayed, due, got, asked,
                       answered>>
    BY <1>2 DEF capa_read, history
  <2>2. down' \in Seq(Byte) /\ <<Head(down)>> \in Seq(Byte)
    BY <2>1, ByteReceived, Typed DEF Types
  <2>3. Sound(reply)
    BY <1>2, <2>2, RoomForOne, Typed DEF Types
  <2>4. o \in Memory
    <3>1. /\ capa.first_cr \in Offset /\ capa.first_lf \in Offset /\ capa.dot \in Offset
          /\ capa.second_cr \in Offset /\ capa.finished \in Offset
      BY DEF capa, Offset
    <3> QED
      BY <3>1, CheckMultilineType, Typed DEF Types
  <2>5. [o EXCEPT ![capa.pipelining] = "PIPELINING" \in ToSet(CString(reply.queue))]
          \in Memory
    <3> DEFINE p == "PIPELINING" \in ToSet(CString(reply.queue))
    <3>1. p \in BOOLEAN
      OBVIOUS
    <3> HIDE DEF p, o
    <3>2. [o EXCEPT ![capa.pipelining] = p] \in Memory
      BY <2>4, <3>1 DEF Memory
    <3> QED
      BY <3>2 DEF p
  <2> HIDE DEF o, reply
  <2> QED
    BY <2>1, <2>2, <2>3, <2>4, <2>5, EmptyIsSound, RequestInitTypes, Typed DEF Types
<1> QED
  BY <1>1, <1>2

\* Commands made of parts of a chunk.
LEMMA QueuedType ==
  ASSUME NEW chunk \in Seq(Byte), NEW sizes \in Seq({k \in Int : k <= Len(chunk)}),
         cmds \in Seq(Command)
  PROVE  Queued([i \in 1 .. Len(sizes) |-> SubSeq(chunk, 1, sizes[i])]) \in Seq(Command)
<1> DEFINE texts == [i \in 1 .. Len(sizes) |-> SubSeq(chunk, 1, sizes[i])]
           new == [i \in 1 .. Len(texts) |->
                     [text |-> texts[i], multiline |-> Multiline(texts[i])]]
<1>1. ASSUME NEW i \in 1 .. Len(sizes)
      PROVE  texts[i] \in Seq(Byte)
  <2>1. sizes[i] \in Int /\ sizes[i] <= Len(chunk) /\ 1 \in Nat \ {0}
    BY ElementOfSeq
  <2> QED
    BY <2>1, PartIsSeq
<1>2. Len(sizes) \in Nat /\ texts \in [1 .. Len(sizes) -> Seq(Byte)]
      /\ Len(texts) = Len(sizes)
  <2>1. Len(sizes) \in Nat
    OBVIOUS
  <2>2. texts \in [1 .. Len(sizes) -> Seq(Byte)]
    BY <1>1
  <2> HIDE DEF texts
  <2> QED
    BY <2>1, <2>2, FunctionIsSeq
<1> HIDE DEF texts
<1>3. ASSUME NEW i \in 1 .. Len(texts)
      PROVE  [text |-> texts[i], multiline |-> Multiline(texts[i])] \in Command
  <2>1. Multiline(texts[i]) \in BOOLEAN
    BY DEF Multiline
  <2>2. texts[i] \in Seq(Byte)
    BY <1>2
  <2> QED
    BY <2>1, <2>2 DEF Command
<1>4. new \in Seq(Command)
  <2>1. new \in [1 .. Len(texts) -> Command]
    BY <1>3
  <2>2. Len(texts) \in Nat
    BY <1>2
  <2> HIDE DEF new
  <2> QED
    BY <2>1, <2>2, FunctionIsSeq
<1> HIDE DEF new
<1>5. cmds \o new \in Seq(Command)
  BY <1>4, JoinIsSeq
<1> QED
  BY <1>5 DEF Queued, new, texts

LEMMA RoomType ==
  ASSUME NEW b, Sound(b)
  PROVE  Room(b) \in Nat /\ Room(b) <= Size /\ Size \in Nat
         /\ b.write \in Nat /\ b.write + Room(b) = Size
<1>1. b.write \in 0 .. Size /\ Size \in Nat
  BY RelayAssumption DEF Sound, Buffer
<1> QED
  BY <1>1 DEF Room

\* What request_read's loop sees of a buffer, and until when the buffer is full.
LEMMA CStringType ==
  ASSUME NEW s \in Seq(Byte), s # <<>>
  PROVE  /\ CString(s) \in Seq(Byte)
         /\ Consumed(s) \in 1 .. Len(s)
         /\ NUL \notin ToSet(s) => CString(s) = s /\ Consumed(s) = Len(s)
<1>1. Len(s) \in Nat \ {0}
  OBVIOUS
<1>2. CASE NUL \notin ToSet(s)
  BY <1>1, <1>2 DEF CString, Consumed
<1>3. CASE NUL \in ToSet(s)
  <2> DEFINE I == {i \in 1 .. Len(s) : s[i] = NUL}
             n == SelectInSeq(s, LAMBDA c : c = NUL)
  <2>1. I # {} /\ I \in SUBSET Nat
    BY <1>3 DEF ToSet
  <2>2. n = Min(I)
    BY <2>1 DEF SelectInSeq
  <2>3. n \in I
    <3> HIDE DEF I, n
    <3> QED
      BY <2>1, <2>2, LeastFound
  <2>4. n \in 1 .. Len(s)
    BY <2>3
  <2>5. CString(s) = SubSeq(s, 1, n - 1)
    BY <1>3 DEF CString
  <2> HIDE DEF n
  <2>6. n - 1 \in Int /\ n - 1 <= Len(s) /\ 1 \in Nat \ {0}
    BY <1>1, <2>4
  <2>7. /\ CString(s) \in Seq(Byte)
        /\ Len(CString(s)) = IF 1 <= n - 1 THEN (n - 1) - 1 + 1 ELSE 0
    BY <2>5, <2>6, PartIsSeq
  <2>8. Len(CString(s)) = n - 1
    BY <2>4, <2>7
  <2>9. Consumed(s) = n
    BY <1>3, <2>4, <2>8 DEF Consumed
  <2> QED
    BY <1>3, <2>4, <2>7, <2>9
<1> QED
  BY <1>2, <1>3

FullUntil(b) == IF CanWrite(b) THEN 0 ELSE Len(b.queue)

\* request_read, with the chunk it reads and what its loop leaves.
Read(chunk, end) ==
  LET filled == Keep(rbuf, chunk) IN
  IF \E n \in ToSet(end.sizes) : n \notin 0 .. MAX_CMD_SIZE
  THEN Crash
  ELSE /\ up' = After(up, chunk)
       /\ rbuf' = Drop(filled, Consumed(filled.queue))
       /\ req' = end.req
       /\ cmds' = Queued([i \in 1 .. Len(end.sizes) |->
                            SubSeq(CString(filled.queue), 1, end.sizes[i])])
       /\ armed' = IF end.send THEN "origin_w" ELSE armed
       /\ UNCHANGED <<st, wbuf, orig, bytes_transfered, down, inbox, gone, history>>

LEMMA ReadSteps ==
  ASSUME request_read, CanWrite(rbuf)
  PROVE  \E chunk \in Received("client", up, Room(rbuf)) :
         \E end \in Scan(CString(Keep(rbuf, chunk).queue), FullUntil(Keep(rbuf, chunk))) :
           Read(chunk, end)
BY DEF request_read, Read, FullUntil

LEMMA RequestReadTypes ==
  ASSUME TypeOK, request_read
  PROVE  TypeOK'
<1>1. CASE ~CanWrite(rbuf)
  <2>1. EndsAs({"ERROR"})
    BY <1>1 DEF request_read
  <2> QED
    BY <2>1, EndsTypes
<1>2. CASE CanWrite(rbuf)
  <2>1. PICK chunk \in Received("client", up, Room(rbuf)) :
        \E end \in Scan(CString(Keep(rbuf, chunk).queue), FullUntil(Keep(rbuf, chunk))) :
          Read(chunk, end)
    BY <1>2, ReadSteps
  <2> DEFINE filled == Keep(rbuf, chunk)
             bytes == CString(filled.queue)
  <2>2. PICK end \in Scan(bytes, FullUntil(filled)) : Read(chunk, end)
    BY <2>1
  <2>3. /\ Room(rbuf) \in Nat
        /\ rbuf.write \in Nat /\ rbuf.write + Room(rbuf) = Size /\ Size \in Nat
    BY RoomType, Typed DEF Types
  <2>4. chunk \in Seq(Byte) /\ Len(chunk) \in 1 .. Room(rbuf)
    BY <2>3, ReceivedType, Typed DEF Types
  <2>5. rbuf.write + Len(chunk) <= Size
    BY <2>3, <2>4
  <2>6. Sound(filled)
    BY <2>4, <2>5, KeepIsSound, Typed DEF Types
  <2>7. filled.queue \in Seq(Byte) /\ filled.queue # <<>>
    <3>1. rbuf.queue \in Seq(Byte) /\ filled.queue = rbuf.queue \o chunk
      BY Typed DEF Types, Sound, Buffer, Keep
    <3>2. /\ rbuf.queue \o chunk \in Seq(Byte)
          /\ Len(rbuf.queue \o chunk) = Len(rbuf.queue) + Len(chunk)
      BY <2>4, <3>1, JoinIsSeq
    <3>3. Len(rbuf.queue \o chunk) > 0 /\ Len(<<>>) = 0
      BY <2>4, <3>1, <3>2
    <3> QED
      BY <3>1, <3>2, <3>3
  <2>8. bytes \in Seq(Byte) /\ Consumed(filled.queue) \in 1 .. Len(filled.queue)
    BY <2>7, CStringType
  <2>9. FullUntil(filled) \in Int
    BY <2>7 DEF FullUntil
  <2>10. Sound(Drop(filled, Consumed(filled.queue)))
    BY <2>6, <2>8, DropIsSound
  <2> HIDE DEF filled, bytes
  <2>11. CASE \E n \in ToSet(end.sizes) : n \notin 0 .. MAX_CMD_SIZE
    BY <2>11, <2>2, CrashTypes DEF Read
  <2>12. CASE ~\E n \in ToSet(end.sizes) : n \notin 0 .. MAX_CMD_SIZE
    <3>1. /\ up' = After(up, chunk)
          /\ rbuf' = Drop(filled, Consumed(filled.queue))
          /\ req' = end.req
          /\ cmds' = Queued([i \in 1 .. Len(end.sizes) |->
                               SubSeq(bytes, 1, end.sizes[i])])
          /\ armed' \in {"origin_w", armed}
          /\ UNCHANGED <<st, wbuf, orig, bytes_transfered, down, inbox, gone, history>>
      BY <2>12, <2>2 DEF Read, filled, bytes
    <3>2. Len(bytes) \in Nat
      BY <2>8
    <3>3. end \in ScanState(Len(bytes))
      BY <2>2, <2>8, <2>9, <3>2, ScanType, Typed DEF Types
    <3>4. end.req \in Flags /\ end.sizes \in Seq({k \in Int : k <= Len(bytes)})
      BY <3>3 DEF ScanState
    <3>5. cmds' \in Seq(Command)
      BY <2>8, <3>1, <3>4, QueuedType, Typed DEF Types
    <3>6. up' \in Seq(Byte)
      BY <2>4, <3>1, AfterType, Typed DEF Types
    <3>7. UNCHANGED <<st, wbuf, orig, bytes_transfered, down, inbox, sent, relayed, due,
                      got, asked, answered>>
      BY <3>1 DEF history
    <3> QED
      BY <2>10, <3>1, <3>4, <3>5, <3>6, <3>7, Typed DEF Types
  <2> QED
    BY <2>11, <2>12
<1> QED
  BY <1>1, <1>2

\* The commands request_send takes, and what it makes of one.
LEMMA WireType ==
  ASSUME TypeOK, NEW i \in 1 .. Len(cmds)
  PROVE  Wire(i) \in Seq(Byte)
<1>1. CR \in Byte /\ LF \in Byte
  BY DEF Byte
<1>2. cmds[i].text \in Seq(Byte)
  <2>1. cmds[i] \in Command
    BY ElementOfSeq, Typed DEF Types
  <2> QED
    BY <2>1 DEF Command
<1> DEFINE c == IF orig[capa.pipelining] /\ i < Len(cmds) THEN <<>> ELSE <<CR>>
<1>3. c \in Seq(Byte) /\ <<LF>> \in Seq(Byte)
  BY <1>1
<1> HIDE DEF c
<1>4. (cmds[i].text \o c) \o <<LF>> \in Seq(Byte)
  <2>1. cmds[i].text \o c \in Seq(Byte)
    BY <1>2, <1>3, JoinIsSeq
  <2> QED
    BY <1>3, <2>1, JoinIsSeq
<1> QED
  BY <1>4 DEF Wire, c

FirstEmpty == SelectInSeq(cmds, LAMBDA cmd : cmd.text = <<>>)

LEMMA FirstEmptyType ==
  ASSUME TypeOK
  PROVE  /\ FirstEmpty \in 0 .. Len(cmds)
         /\ (\A i \in 1 .. Len(cmds) : cmds[i].text # <<>>) => FirstEmpty = 0
<1> DEFINE I == {i \in 1 .. Len(cmds) : cmds[i].text = <<>>}
<1>1. FirstEmpty = IF I # {} THEN Min(I) ELSE 0
  BY DEF FirstEmpty, SelectInSeq
<1>2. I \in SUBSET Nat /\ I \subseteq 0 .. Len(cmds)
  OBVIOUS
<1>3. I # {} => Min(I) \in I
  <2> HIDE DEF I
  <2> QED
    BY <1>2, LeastFound
<1>4. Len(cmds) \in Nat
  BY Typed DEF Types
<1> QED
  BY <1>1, <1>2, <1>3, <1>4

LEMMA RequestSendTypes ==
  ASSUME TypeOK, request_send
  PROVE  TypeOK'
<1> DEFINE n == IF FirstEmpty = 0 THEN Len(cmds) ELSE FirstEmpty - 1
           bytes == FlattenSeq([i \in 1 .. n |-> Wire(i)])
           counted == FlattenSeq([i \in 1 .. n |-> Append(cmds[i].text, LF)])
<1>1. /\ inbox' = inbox \o bytes
      /\ relayed' = relayed \o bytes
      /\ \/ st' = "RESPONSE" /\ armed' = "origin_r" /\ response_init
         \/ st' = "ERROR" /\ armed' = "none" /\ UNCHANGED orig
      /\ bytes_transfered' = bytes_transfered + Len(counted)
      /\ UNCHANGED <<buffers, req, cmds, up, down, gone, sent, due, got, asked,
                      answered>>
  BY DEF request_send, FirstEmpty
<1>2. n \in Nat /\ n <= Len(cmds)
  <2>1. FirstEmpty \in 0 .. Len(cmds) /\ Len(cmds) \in Nat
    BY FirstEmptyType, Typed DEF Types
  <2> QED
    BY <2>1
<1> HIDE DEF n
<1>3. bytes \in Seq(Byte)
  <2>1. ASSUME NEW i \in 1 .. n
        PROVE  Wire(i) \in Seq(Byte)
    <3>1. Len(cmds) \in Nat
      BY Typed DEF Types
    <3>2. i \in 1 .. Len(cmds)
      BY <1>2, <3>1
    <3> QED
      BY <3>2, WireType
  <2>2. [i \in 1 .. n |-> Wire(i)] \in [1 .. n -> Seq(Byte)]
    BY <2>1
  <2> QED
    BY <1>2, <2>2, FlattenIsSeq
<1>6. bytes_transfered' \in Nat
  <2>1. ASSUME NEW i \in 1 .. n
        PROVE  Append(cmds[i].text, LF) \in Seq(Byte)
    <3>1. cmds \in Seq(Command) /\ Len(cmds) \in Nat
      BY Typed DEF Types
    <3>2. i \in 1 .. Len(cmds)
      BY <1>2, <3>1
    <3>3. cmds[i] \in Command
      BY <3>1, <3>2, ElementOfSeq
    <3>4. cmds[i].text \in Seq(Byte) /\ LF \in Byte
      BY <3>3 DEF Command, Byte
    <3> QED
      BY <3>4
  <2>2. [i \in 1 .. n |-> Append(cmds[i].text, LF)] \in [1 .. n -> Seq(Byte)]
    BY <2>1
  <2>3. counted \in Seq(Byte)
    BY <1>2, <2>2, FlattenIsSeq
  <2> HIDE DEF counted
  <2>4. Len(counted) \in Nat
    BY <2>3
  <2> QED
    BY <1>1, <2>4, Typed DEF Types
<1> HIDE DEF bytes, counted
<1>4. inbox' \in Seq(Byte) /\ relayed' \in Seq(Byte)
  BY <1>1, <1>3, JoinIsSeq, Typed DEF Types
<1>5. orig' \in Memory
  <2>1. CASE UNCHANGED orig
    BY <2>1, Typed DEF Types
  <2>2. CASE response_init
    BY <2>2, Typed DEF Types, response_init, Memory
  <2> QED
    BY <1>1, <2>1, <2>2
<1> QED
  BY <1>1, <1>4, <1>5, <1>6, Typed DEF Types, buffers

\* What the write pointer passes, of the chunk or of what lies behind it.
LEMMA KeptType ==
  ASSUME NEW chunk \in Seq(Byte), NEW adv \in Nat, adv <= Size
  PROVE  /\ SubSeq(chunk \o Junk(Size), 1, adv) \in Seq(Byte)
         /\ Len(SubSeq(chunk \o Junk(Size), 1, adv)) = adv
<1>1. Size \in Nat /\ JUNK \in Byte
  BY RelayAssumption DEF Byte
<1>2. Junk(Size) \in Seq(Byte) /\ Len(Junk(Size)) = Size
  <2>1. Junk(Size) \in [1 .. Size -> Byte]
    BY <1>1 DEF Junk
  <2> QED
    BY <1>1, <2>1, FunctionIsSeq
<1> DEFINE s == chunk \o Junk(Size)
<1>3. s \in Seq(Byte) /\ Len(s) = Len(chunk) + Size
  BY <1>2, JoinIsSeq
<1>4. Len(chunk) \in Nat
  OBVIOUS
<1> HIDE DEF s
<1>5. adv \in Int /\ adv <= Len(s) /\ 1 \in Nat \ {0}
  BY <1>1, <1>3, <1>4
<1>6. /\ SubSeq(s, 1, adv) \in Seq(Byte)
      /\ Len(SubSeq(s, 1, adv)) = IF 1 <= adv THEN adv - 1 + 1 ELSE 0
  BY <1>3, <1>5, PartIsSeq
<1>7. Len(SubSeq(s, 1, adv)) = adv
  BY <1>6
<1> QED
  BY <1>6, <1>7 DEF s

\* response_read, with the chunk it reads and what its loop leaves.
Respond(chunk, end) ==
  IF end.adv > Room(wbuf)
  THEN Crash
  ELSE /\ down' = After(down, chunk)
       /\ orig' = end.orig
       /\ cmds' = end.cmds
       /\ wbuf' = Keep(wbuf, SubSeq(chunk \o Junk(Size), 1, end.adv))
       /\ armed' = IF end.send THEN "client_w" ELSE armed
       /\ UNCHANGED <<st, rbuf, req, bytes_transfered, up, inbox, gone, history>>

LEMMA ResponseReadTypes ==
  ASSUME TypeOK, response_read
  PROVE  TypeOK'
<1>1. CASE ~CanWrite(wbuf)
  BY <1>1, Typed DEF Types, response_read, buffers, peers, history
<1>2. CASE CanWrite(wbuf)
  <2>1. PICK chunk \in Received("origin", down, Room(wbuf)) : \E end \in Digest(chunk) :
                                                    Respond(chunk, end)
    BY <1>2 DEF response_read, Respond
  <2>2. PICK end \in Digest(chunk) : Respond(chunk, end)
    BY <2>1
  <2>3. Room(wbuf) \in Nat /\ Room(wbuf) <= Size /\ Size \in Nat
        /\ wbuf.write \in Nat /\ wbuf.write + Room(wbuf) = Size
    BY RoomType, Typed DEF Types
  <2>4. chunk \in Seq(Byte) /\ Len(chunk) \in Nat
    BY <2>3, ReceivedType, Typed DEF Types
  <2>5. end \in DigestState
    BY <2>2, <2>4, DigestType, Typed DEF Types
  <2>6. end.orig \in Memory /\ end.adv \in Nat /\ end.cmds \in Seq(Command)
    BY <2>5 DEF DigestState
  <2>7. CASE end.adv > Room(wbuf)
    BY <2>2, <2>7, CrashTypes DEF Respond
  <2>8. CASE ~(end.adv > Room(wbuf))
    <3> DEFINE kept == SubSeq(chunk \o Junk(Size), 1, end.adv)
    <3>1. /\ down' = After(down, chunk)
          /\ orig' = end.orig /\ cmds' = end.cmds
          /\ wbuf' = Keep(wbuf, kept)
          /\ armed' \in {"client_w", armed}
          /\ UNCHANGED <<st, rbuf, req, bytes_transfered, up, inbox, gone, history>>
      BY <2>2, <2>8 DEF Respond
    <3>2. end.adv <= Room(wbuf) /\ end.adv <= Size
      BY <2>3, <2>6, <2>8
    <3>3. kept \in Seq(Byte) /\ Len(kept) = end.adv
      BY <2>4, <2>6, <3>2, KeptType
    <3> HIDE DEF kept
    <3>4. wbuf.write + Len(kept) <= Size
      BY <2>3, <2>6, <3>2, <3>3
    <3>5. Sound(wbuf')
      BY <3>1, <3>3, <3>4, KeepIsSound, Typed DEF Types
    <3>6. down' \in Seq(Byte)
      BY <2>4, <3>1, AfterType, Typed DEF Types
    <3>7. UNCHANGED <<sent, relayed, due, got, asked, answered>>
      BY <3>1 DEF history
    <3> QED
      BY <2>6, <3>1, <3>5, <3>6, <3>7, Typed DEF Types
  <2> QED
    BY <2>7, <2>8
<1> QED
  BY <1>1, <1>2

LEMMA ResponseSendTypes ==
  ASSUME TypeOK, response_send
  PROVE  TypeOK'
<1>1. UNCHANGED <<orig, bytes_transfered, up, down, inbox, sent, relayed, due, asked,
                  answered>>
  BY DEF response_send, peers
<1>2. CASE st' = "ERROR" /\ armed' = "none" /\ UNCHANGED <<buffers, req, cmds, got>>
  BY <1>1, <1>2, Typed DEF Types, buffers
<1>3. ASSUME NEW n \in Accepted(wbuf.queue),
             got' = got \o SubSeq(wbuf.queue, 1, n),
             wbuf' = Drop(wbuf, n),
             \/ st' = "REQUEST" /\ armed' = "client_r" /\ request_init
             \/ armed' = "origin_r" /\ UNCHANGED <<st, rbuf, req, cmds>>
      PROVE  TypeOK'
  <2>1. Sound(wbuf') /\ SubSeq(wbuf.queue, 1, n) \in Seq(Byte)
    BY <1>3, SentType, Typed DEF Types
  <2>2. got' \in Seq(Byte)
    BY <1>3, <2>1, JoinIsSeq, Typed DEF Types
  <2>3. CASE st' = "REQUEST" /\ armed' = "client_r" /\ request_init
    BY <1>1, <2>1, <2>2, <2>3, RequestInitTypes, Typed DEF Types
  <2>4. CASE armed' = "origin_r" /\ UNCHANGED <<st, rbuf, req, cmds>>
    BY <1>1, <2>1, <2>2, <2>4, Typed DEF Types
  <2> QED
    BY <1>3, <2>3, <2>4
<1>4. \/ st' = "ERROR" /\ armed' = "none" /\ UNCHANGED <<buffers, req, cmds, got>>
      \/ \E n \in Accepted(wbuf.queue) :
           /\ got' = got \o SubSeq(wbuf.queue, 1, n)
           /\ wbuf' = Drop(wbuf, n)
           /\ \/ st' = "REQUEST" /\ armed' = "client_r" /\ request_init
              \/ armed' = "origin_r" /\ UNCHANGED <<st, rbuf, req, cmds>>
  BY DEF response_send
<1> QED
  BY <1>2, <1>3, <1>4

LEMMA FailsTypes ==
  ASSUME TypeOK, Fails
  PROVE  TypeOK'
<1>1. EndsAs({"ERROR"}) \/ EndsAs({"ERROR", "crash"})
  BY DEF Fails, RecvFails, SendFails
<1> QED
  BY <1>1, EndsTypes

LEMMA ClientSendsTypes ==
  ASSUME TypeOK, NEW l \in Lines, ClientSends(l)
  PROVE  TypeOK'
<1>1. l \in Seq(Byte)
  BY RelayAssumption
<1>2. up' \in Seq(Byte) /\ sent' \in Seq(Byte)
  BY <1>1, JoinIsSeq, Typed DEF Types, ClientSends
<1>3. asked' \in Nat
  BY Typed DEF Types, ClientSends
<1> QED
  BY <1>2, <1>3, Typed DEF Types, ClientSends, buffers

\* What the origin answers to a line of the client.
Answer(l) == IF l \in Lines THEN Replies[l] ELSE {<<ERR, CR, LF>>}

LEMMA AnswerType ==
  ASSUME NEW l
  PROVE  Answer(l) \subseteq Seq(Byte)
<1>1. ERR \in Byte /\ CR \in Byte /\ LF \in Byte
  BY RelayAssumption DEF Byte
<1>2. <<ERR, CR, LF>> \in Seq(Byte)
  BY <1>1
<1>3. l \in Lines => Replies[l] \subseteq Seq(Byte)
  BY RelayAssumption
<1> QED
  BY <1>2, <1>3 DEF Answer

LEMMA OriginAnswersTypes ==
  ASSUME TypeOK, OriginAnswers
  PROVE  TypeOK'
<1>1. inbox' \in Seq(Byte)
  <2>1. Line(inbox) \in Seq(Byte)
    BY LineType, Typed DEF Types
  <2>2. Len(Line(inbox)) \in Nat
    BY <2>1
  <2> QED
    BY <2>2, AfterType, Typed DEF Types, OriginAnswers
<1>2. UNCHANGED <<st, armed, rbuf, wbuf, req, cmds, orig, bytes_transfered, up, sent,
                  relayed, got, asked>>
  BY DEF OriginAnswers, buffers
<1>3. CASE st = "CAPA"
  <2>1. PICK reply \in CapaReplies : down' = down \o reply
    BY <1>3 DEF OriginAnswers
  <2>2. UNCHANGED <<due, answered>>
    BY <1>3 DEF OriginAnswers
  <2>3. down' \in Seq(Byte)
    BY <2>1, JoinIsSeq, RelayAssumption, Typed DEF Types
  <2> QED
    BY <1>1, <1>2, <2>2, <2>3, Typed DEF Types
<1>4. CASE st # "CAPA"
  <2>1. /\ \E reply \in Answer(Line(inbox)) :
              down' = down \o reply /\ due' = due \o reply
        /\ answered' = answered + 1
    BY <1>4 DEF OriginAnswers, Answer
  <2>2. PICK reply \in Answer(Line(inbox)) :
          down' = down \o reply /\ due' = due \o reply
    BY <2>1
  <2>3. reply \in Seq(Byte)
    BY AnswerType
  <2>4. down' \in Seq(Byte) /\ due' \in Seq(Byte)
    BY <2>2, <2>3, JoinIsSeq, Typed DEF Types
  <2>5. answered' \in Nat
    BY <2>1, Typed DEF Types
  <2> QED
    BY <1>1, <1>2, <2>4, <2>5, Typed DEF Types
<1> QED
  BY <1>3, <1>4

LEMMA ClosesTypes ==
  ASSUME TypeOK, NEW side, Closes(side)
  PROVE  TypeOK'
BY Typed DEF Types, Closes, buffers, history

\* Every step keeps the types, and with them the write pointers inside the buffers:
\* response_read stops the process rather than pass the end, and greetings_read and
\* capa_read add one byte where there is room for it.
THEOREM TypeCorrect == Spec => []TypeOK
<1>1. TypeOK /\ [Next]_vars => TypeOK'
  <2> SUFFICES ASSUME TypeOK, [Next]_vars
               PROVE  TypeOK'
    OBVIOUS
  <2>1. CASE greetings_read
    BY <2>1, GreetingsReadTypes
  <2>2. CASE greetings_write
    BY <2>2, GreetingsWriteTypes
  <2>3. CASE capa_send
    BY <2>3, CapaSendTypes
  <2>4. CASE capa_read
    BY <2>4, CapaReadTypes
  <2>5. CASE request_read
    BY <2>5, RequestReadTypes
  <2>6. CASE request_send
    BY <2>6, RequestSendTypes
  <2>7. CASE response_read
    BY <2>7, ResponseReadTypes
  <2>8. CASE response_send
    BY <2>8, ResponseSendTypes
  <2>9. CASE Fails
    BY <2>9, FailsTypes
  <2>10. ASSUME NEW l \in Lines, ClientSends(l)
         PROVE  TypeOK'
    BY <2>10, ClientSendsTypes
  <2>11. CASE OriginAnswers
    BY <2>11, OriginAnswersTypes
  <2>12. ASSUME NEW side \in {"client", "origin"}, Closes(side)
         PROVE  TypeOK'
    BY <2>12, ClosesTypes
  <2>13. CASE UNCHANGED vars
    BY <2>13, TypesStay
  <2> QED
    BY <2>1, <2>2, <2>3, <2>4, <2>5, <2>6, <2>7, <2>8, <2>9, <2>10, <2>11, <2>12,
       <2>13 DEF Next, Handler, Rest
<1> QED
  BY <1>1, InitTypes, PTL DEF Spec

(***************************************************************************)
(* Lines                                                                   *)
(***************************************************************************)

\* The hypothesis: proper lines and greeting, and a client whose lines arrive whole
\* and which waits for each answer.
Orderly == WellFormed /\ "client" \notin SplitRecv /\ ~Eager

EOL == <<CR, LF>>

LEMMA EOLType == EOL \in Seq(Byte) /\ Len(EOL) = 2 /\ EOL[1] = CR /\ EOL[2] = LF
<1>1. CR \in Byte /\ LF \in Byte
  BY DEF Byte
<1> QED
  BY <1>1 DEF EOL

\* A stream with one LF, at its end, is one line.
LEMMA WholeLine ==
  ASSUME NEW T, NEW s \in Seq(T), s # <<>>,
         \A k \in 1 .. Len(s) : s[k] = LF <=> k = Len(s)
  PROVE  Line(s) = s /\ After(s, Line(s)) = <<>>
<1>1. Len(s) \in 1 .. Len(s)
  OBVIOUS
<1>2. SubSeq(s, 1, Len(s)) = s
  BY SubSeqProperties
<1>3. Line(s) = s
  BY <1>1, <1>2, LineType
<1>4. Len(Line(s)) \in Nat /\ Len(Line(s)) = Len(s)
  BY <1>3
<1> QED
  BY <1>3, <1>4, AfterType

\* A line is its text and CR LF.
LEMMA ProperLine ==
  ASSUME WellFormed, NEW l \in Lines
  PROVE  /\ l \in Seq(Byte) /\ l # <<>> /\ Proper(l)
         /\ Line(l) = l /\ After(l, l) = <<>>
         /\ SubSeq(l, 1, Len(l) - 2) # <<>>
         /\ SubSeq(l, 1, Len(l) - 2) \in Seq(Byte)
         /\ SubSeq(l, 1, Len(l) - 2) \o EOL = l
<1>1. l \in Seq(Byte) /\ l # <<>> /\ Proper(l)
  BY RelayAssumption DEF WellFormed
<1> DEFINE n == Len(l) - 2
           text == SubSeq(l, 1, n)
<1>2. /\ n \in Nat \ {0} /\ Len(l) = n + 2 /\ n <= Len(l)
      /\ \A i \in 1 .. n : l[i] # CR /\ l[i] # LF
      /\ l[n + 1] = CR /\ l[n + 2] = LF
  <2>1. /\ n \in 1 .. MAX_CMD_SIZE
        /\ \A i \in 1 .. n : l[i] \notin {CR, LF, NUL}
        /\ l[n + 1] = CR /\ l[n + 2] = LF
    BY <1>1 DEF Proper
  <2>2. MAX_CMD_SIZE \in Nat /\ Len(l) \in Nat
    BY <1>1, RelayAssumption
  <2>3. n \in Nat \ {0} /\ Len(l) = n + 2 /\ n <= Len(l)
    BY <2>1, <2>2
  <2> HIDE DEF n
  <2> QED
    BY <2>1, <2>3
<1> HIDE DEF n
<1>3. CR # LF
  BY DEF CR, LF
<1>4. \A k \in 1 .. Len(l) : l[k] = LF <=> k = Len(l)
  <2> TAKE k \in 1 .. Len(l)
  <2>1. k \in 1 .. n \/ k = n + 1 \/ k = n + 2
    BY <1>2
  <2> QED
    BY <1>2, <1>3, <2>1
<1>5. Line(l) = l /\ After(l, l) = <<>>
  BY <1>1, <1>4, WholeLine
<1>6. text \in Seq(Byte) /\ Len(text) = n
  <2>1. 1 \in Nat \ {0} /\ n \in Int /\ n - 1 + 1 = n /\ 1 <= n
    BY <1>2
  <2> QED
    BY <1>1, <1>2, <2>1, PartIsSeq
<1>7. text # <<>>
  BY <1>2, <1>6
<1>8. \A i \in 1 .. n : text[i] = l[i]
  <2>1. \A i \in 1 .. n : l[i] \in Byte
    BY <1>1, <1>2, ElementOfSeq
  <2> QED
    BY <1>2, <2>1, SubSeqProperties
<1> HIDE DEF text
<1>9. /\ text \o EOL \in Seq(Byte) /\ Len(text \o EOL) = n + 2
      /\ \A i \in 1 .. n + 2 :
           (text \o EOL)[i] = IF i <= n THEN text[i] ELSE EOL[i - n]
  <2>1. /\ text \o EOL \in Seq(Byte)
        /\ Len(text \o EOL) = Len(text) + Len(EOL)
        /\ \A i \in 1 .. Len(text) + Len(EOL) :
             (text \o EOL)[i] = IF i <= Len(text) THEN text[i] ELSE EOL[i - Len(text)]
    BY <1>6, EOLType, JoinIsSeq
  <2> QED
    BY <1>6, <2>1, EOLType
<1>10. ASSUME NEW i \in 1 .. n + 2
       PROVE  (text \o EOL)[i] = l[i]
  <2>1. CASE i \in 1 .. n
    BY <1>2, <1>8, <1>9, <2>1
  <2>2. CASE i = n + 1
    <3>1. i - n = 1 /\ ~(i <= n)
      BY <1>2, <2>2
    <3> QED
      BY <1>2, <1>9, <2>2, <3>1, EOLType
  <2>3. CASE i = n + 2
    <3>1. i - n = 2 /\ ~(i <= n)
      BY <1>2, <2>3
    <3> QED
      BY <1>2, <1>9, <2>3, <3>1, EOLType
  <2>4. i \in 1 .. n \/ i = n + 1 \/ i = n + 2
    BY <1>2
  <2> QED
    BY <2>1, <2>2, <2>3, <2>4
<1>11. text \o EOL = l
  BY <1>1, <1>2, <1>9, <1>10, SeqEqual
<1> QED
  BY <1>1, <1>5, <1>6, <1>7, <1>11 DEF text, n

\* CAPA is a line.
LEMMA CapaLine ==
  /\ Line(<<CAPA, CR, LF>>) = <<CAPA, CR, LF>>
  /\ After(<<CAPA, CR, LF>>, <<CAPA, CR, LF>>) = <<>>
<1> DEFINE s == <<CAPA, CR, LF>>
<1>1. s \in Seq({CAPA, CR, LF}) /\ Len(s) = 3 /\ s[1] = CAPA /\ s[2] = CR /\ s[3] = LF
  OBVIOUS
<1>2. CAPA # LF /\ CR # LF
  BY DEF CAPA, CR, LF
<1> HIDE DEF s
<1>3. \A k \in 1 .. Len(s) : s[k] = LF <=> k = Len(s)
  <2> TAKE k \in 1 .. Len(s)
  <2>1. k = 1 \/ k = 2 \/ k = 3
    BY <1>1
  <2> QED
    BY <1>1, <1>2, <2>1
<1>4. s # <<>>
  <2> SUFFICES ASSUME s = <<>>
               PROVE  FALSE
    OBVIOUS
  <2>1. Len(s) = 0
    OBVIOUS
  <2> QED
    BY <2>1, <1>1
<1>5. Line(s) = s /\ After(s, Line(s)) = <<>>
  BY <1>1, <1>3, <1>4, WholeLine
<1> QED
  BY <1>5 DEF s

(***************************************************************************)
(* Prefixes                                                                *)
(***************************************************************************)

LEMMA PrefixOfJoin ==
  ASSUME NEW T, NEW s \in Seq(T), NEW t \in Seq(T)
  PROVE  IsPrefix(s, s \o t)
<1>1. /\ s \o t \in Seq(T)
      /\ Len(s \o t) = Len(s) + Len(t)
      /\ \A i \in 1 .. Len(s) + Len(t) :
           (s \o t)[i] = IF i <= Len(s) THEN s[i] ELSE t[i - Len(s)]
  BY ConcatProperties
<1>2. Len(s) \in Nat /\ Len(t) \in Nat
  OBVIOUS
<1>3. \A i \in 1 .. Len(s) : (s \o t)[i] = s[i] /\ i + 1 - 1 = i
  BY <1>1, <1>2
<1>4. Len(s) <= Len(s \o t)
  BY <1>1, <1>2
<1> DEFINE u == s \o t
<1> HIDE DEF u
<1>5. SubSeq(s, 1, Len(s)) = SubSeq(u, 1, Len(s))
  <2>1. SubSeq(s, 1, Len(s)) = s
    BY SubSeqProperties
  <2>2. u \in Seq(T) /\ Len(s) <= Len(u) /\ \A i \in 1 .. Len(s) : u[i] = s[i]
    BY <1>1, <1>3, <1>4 DEF u
  <2>3. /\ SubSeq(u, 1, Len(s)) \in Seq(T)
        /\ Len(SubSeq(u, 1, Len(s))) = Len(s)
        /\ \A i \in 1 .. Len(s) : SubSeq(u, 1, Len(s))[i] = u[i]
    <3>1. \A i \in 1 .. Len(s) : u[i] \in T
      BY <2>2, ElementOfSeq
    <3> QED
      BY <1>2, <2>2, <3>1, SubSeqProperties
  <2>4. SubSeq(u, 1, Len(s)) = s
    BY <2>2, <2>3, SeqEqual
  <2> QED
    BY <2>1, <2>4
<1> QED
  BY <1>4, <1>5 DEF IsPrefix, u

LEMMA PrefixGrows ==
  ASSUME NEW T, NEW s \in Seq(T), NEW t \in Seq(T), NEW u \in Seq(T), IsPrefix(s, t)
  PROVE  IsPrefix(s, t \o u)
<1>1. Len(s) <= Len(t) /\ SubSeq(s, 1, Len(s)) = SubSeq(t, 1, Len(s))
  BY DEF IsPrefix
<1>2. Len(s) \in Nat /\ Len(t) \in Nat /\ Len(u) \in Nat
  OBVIOUS
<1>3. /\ t \o u \in Seq(T) /\ Len(t \o u) = Len(t) + Len(u)
      /\ \A i \in 1 .. Len(t) + Len(u) :
           (t \o u)[i] = IF i <= Len(t) THEN t[i] ELSE u[i - Len(t)]
  BY ConcatProperties
<1> DEFINE v == t \o u
<1>4. v \in Seq(T) /\ Len(s) <= Len(v) /\ \A i \in 1 .. Len(s) : v[i] = t[i]
  BY <1>1, <1>2, <1>3
<1> HIDE DEF v
<1>5. ASSUME NEW w \in Seq(T), Len(s) <= Len(w)
      PROVE  /\ SubSeq(w, 1, Len(s)) \in Seq(T)
             /\ Len(SubSeq(w, 1, Len(s))) = Len(s)
             /\ \A i \in 1 .. Len(s) : SubSeq(w, 1, Len(s))[i] = w[i]
  <2>1. Len(w) \in Nat
    OBVIOUS
  <2>2. \A i \in 1 .. Len(s) : w[i] \in T
    BY <1>2, <1>5, <2>1, ElementOfSeq
  <2> QED
    BY <1>2, <1>5, <2>1, <2>2, SubSeqProperties
<1>6. SubSeq(v, 1, Len(s)) = SubSeq(t, 1, Len(s))
  BY <1>1, <1>4, <1>5, SeqEqual
<1> QED
  BY <1>1, <1>4, <1>6 DEF IsPrefix, v

(***************************************************************************)
(* The lines of a client that waits                                        *)
(***************************************************************************)

Over == {"ERROR", "crash"}

LEMMA InitLines == WellFormed /\ Init => LineInv
<1> SUFFICES ASSUME WellFormed, Init
             PROVE  LineInv
  OBVIOUS
<1>1. StartInv
  BY DEF Init, StartInv, WellFormed, greet_finished, Offset
<1>2. PlaceInv
  BY DEF Init, PlaceInv, Pending, Held
<1>3. <<>> \o <<>> = <<>>
  OBVIOUS
<1>4. TextInv
  BY <1>3 DEF Init, TextInv, Held
<1>5. CommandsIntact
  <2>1. <<>> \in Seq(Byte)
    OBVIOUS
  <2>2. IsPrefix(<<>>, <<>>)
    BY <1>3, <2>1, PrefixOfJoin
  <2> QED
    BY <2>2 DEF CommandsIntact, Init
<1> QED
  BY <1>1, <1>2, <1>4, <1>5 DEF LineInv

\* A step that moves no line, outside REQUEST or at its start.
LEMMA QuietStep ==
  ASSUME LineInv, st \notin Over, st' \notin Over, ~Held, ~Held',
         UNCHANGED <<up, inbox, sent, relayed, asked, answered>>,
         st' \in {"REQUEST", "RESPONSE"} => inbox \in {<<>>} \cup Lines,
         st' = "CAPA" \/ st' = st \/ inbox = <<>>,
         st' = "CAPA" => st = "CAPA" \/ inbox = <<>>,
         st' = "REQUEST" => cmds' = <<>> /\ rbuf' = Empty /\ req' = NoFlags
  PROVE  CommandsIntact' /\ PlaceInv' /\ TextInv'
<1>1. PlaceInv /\ TextInv /\ CommandsIntact
  BY DEF LineInv, Over
<1>2. PlaceInv'
  BY <1>1 DEF PlaceInv, Pending, Held
<1>3. TextInv'
  BY <1>1 DEF TextInv, Held, NoFlags
<1>4. CommandsIntact'
  BY <1>1 DEF CommandsIntact
<1> QED
  BY <1>2, <1>3, <1>4

\* A step that ends the session.
LEMMA LastStep ==
  ASSUME LineInv, st' \in Over, UNCHANGED <<sent, relayed>>
  PROVE  LineInv'
BY DEF LineInv, Over, CommandsIntact, StartInv

LEMMA GreetingsReadLines ==
  ASSUME TypeOK, LineInv, Orderly, greetings_read
  PROVE  LineInv'
<1>1. /\ st = "GREETINGS" /\ st' = "GREETINGS"
      /\ UNCHANGED <<up, inbox, sent, relayed, asked, answered>>
      /\ \/ UNCHANGED <<orig, down>>
         \/ /\ down # <<>> /\ down' = Tail(down)
            /\ orig' = CheckLine(orig, cr_received, greet_finished, Head(down))
  BY DEF greetings_read, history
<1>2. /\ inbox = <<>>
      /\ \A i \in DOMAIN down : down[i] = LF => i = Len(down)
      /\ orig[greet_finished] => down = <<>>
  BY <1>1 DEF LineInv, StartInv
<1>3. CommandsIntact' /\ PlaceInv' /\ TextInv'
  BY <1>1, <1>2, QuietStep DEF Held, Over
<1>4. StartInv'
  <2>1. CASE UNCHANGED <<orig, down>>
    BY <1>1, <1>2, <2>1 DEF StartInv
  <2>2. CASE /\ down # <<>> /\ down' = Tail(down)
             /\ orig' = CheckLine(orig, cr_received, greet_finished, Head(down))
    <3>1. /\ down \in Seq(Byte) /\ orig \in Memory
      BY Typed DEF Types
    <3>2. /\ Tail(down) \in Seq(Byte) /\ Len(Tail(down)) = Len(down) - 1
          /\ Len(down) \in Nat \ {0}
          /\ \A i \in 1 .. Len(Tail(down)) : Tail(down)[i] = down[i + 1]
          /\ Head(down) = down[1]
      BY <2>2, <3>1, HeadTailProperties
    <3>3. DOMAIN down = 1 .. Len(down) /\ DOMAIN Tail(down) = 1 .. Len(Tail(down))
      BY <3>1, <3>2, LenProperties
    <3>4. ASSUME NEW i \in DOMAIN down', down'[i] = LF
          PROVE  i = Len(down')
      <4>1. i \in 1 .. Len(Tail(down)) /\ down[i + 1] = LF
        BY <2>2, <3>2, <3>3, <3>4
      <4>2. i + 1 \in DOMAIN down
        BY <3>2, <3>3, <4>1
      <4>3. i + 1 = Len(down)
        BY <1>2, <4>1, <4>2
      <4> QED
        BY <2>2, <3>2, <4>1, <4>3
    <3>5. orig'[greet_finished] => down' = <<>>
      <4>1. ~orig[greet_finished]
        BY <1>2, <2>2
      <4>2. cr_received \in Offset /\ greet_finished \in Offset
            /\ cr_received # greet_finished /\ CR # LF
        BY DEF cr_received, greet_finished, Offset, CR, LF
      <4>3. Head(down) # LF => ~orig'[greet_finished]
        BY <2>2, <3>1, <4>1, <4>2 DEF CheckLine, Memory
      <4>4. Head(down) = LF => Len(Tail(down)) = 0
        BY <1>2, <3>2, <3>3
      <4>5. Len(Tail(down)) = 0 => Tail(down) = <<>>
        <5>1. \A u \in Seq(Byte) : Len(u) = 0 => u = <<>>
          OBVIOUS
        <5> QED
          BY <3>2, <5>1
      <4> QED
        BY <2>2, <4>3, <4>4, <4>5
    <3> QED
      BY <1>1, <1>2, <3>4, <3>5 DEF StartInv
  <2> QED
    BY <1>1, <2>1, <2>2
<1> QED
  BY <1>3, <1>4 DEF LineInv

LEMMA GreetingsWriteLines ==
  ASSUME TypeOK, LineInv, Orderly, greetings_write
  PROVE  LineInv'
<1>1. /\ st = "GREETINGS"
      /\ UNCHANGED <<up, down, inbox, sent, relayed, asked, answered>>
      /\ \/ st' = st /\ UNCHANGED orig
         \/ st' = "CAPA" /\ orig[greet_finished]
  BY DEF greetings_write, peers
<1>2. /\ inbox = <<>>
      /\ \A i \in DOMAIN down : down[i] = LF => i = Len(down)
      /\ orig[greet_finished] => down = <<>>
  BY <1>1 DEF LineInv, StartInv
<1>3. CommandsIntact' /\ PlaceInv' /\ TextInv'
  BY <1>1, <1>2, QuietStep DEF Held, Over
<1>4. StartInv'
  BY <1>1, <1>2 DEF StartInv
<1> QED
  BY <1>3, <1>4 DEF LineInv

LEMMA CapaSendLines ==
  ASSUME TypeOK, LineInv, Orderly, capa_send
  PROVE  LineInv'
<1>1. /\ st = "CAPA" /\ st' = "CAPA" /\ armed = "origin_w" /\ armed' = "origin_r"
      /\ inbox' = inbox \o <<CAPA, CR, LF>>
      /\ UNCHANGED <<up, down, sent, relayed, asked, answered>>
  BY DEF capa_send, history
<1>2. inbox = <<>> /\ down = <<>>
  BY <1>1 DEF LineInv, StartInv
<1>3. inbox' = <<CAPA, CR, LF>>
  BY <1>1, <1>2
<1>4. PlaceInv /\ TextInv /\ CommandsIntact
  BY <1>1 DEF LineInv
<1>5. PlaceInv' /\ TextInv' /\ CommandsIntact'
  BY <1>1, <1>4 DEF PlaceInv, TextInv, CommandsIntact, Pending, Held
<1>6. StartInv'
  BY <1>1, <1>2, <1>3 DEF StartInv
<1> QED
  BY <1>5, <1>6 DEF LineInv

LEMMA CapaReadLines ==
  ASSUME TypeOK, LineInv, Orderly, capa_read
  PROVE  LineInv'
<1>1. CASE ~CanWrite(wbuf)
  <2>1. Crash
    BY <1>1 DEF capa_read
  <2> QED
    BY <2>1, LastStep DEF Crash, EndsAs, Over, history
<1>2. CASE CanWrite(wbuf)
  <2>1. /\ st = "CAPA" /\ armed = "origin_r" /\ down # <<>>
        /\ UNCHANGED <<up, inbox, sent, relayed, asked, answered>>
        /\ \/ st' = "REQUEST" /\ armed' = "client_r" /\ request_init
           \/ UNCHANGED <<armed, st>>
    BY <1>2 DEF capa_read, history
  <2>2. inbox = <<>>
    BY <2>1 DEF LineInv, StartInv
  <2>3. st' = "REQUEST" => request_init
    BY <2>1
  <2>4. st' = "REQUEST" => cmds' = <<>> /\ rbuf' = Empty /\ req' = NoFlags
    BY <2>3, RequestInitTypes
  <2>5. ~Held /\ ~Held'
    BY <2>1 DEF Held
  <2>6. CommandsIntact' /\ PlaceInv' /\ TextInv'
    BY <2>1, <2>2, <2>4, <2>5, QuietStep DEF Over
  <2>7. StartInv'
    BY <2>1, <2>2 DEF StartInv
  <2> QED
    BY <2>6, <2>7 DEF LineInv
<1> QED
  BY <1>1, <1>2

LEMMA ResponseReadLines ==
  ASSUME TypeOK, LineInv, Orderly, response_read
  PROVE  LineInv'
<1>1. st = "RESPONSE" /\ UNCHANGED <<sent, relayed>>
  BY DEF response_read, Crash, EndsAs, history
<1>2. \/ st' = "crash"
      \/ UNCHANGED <<st, up, inbox, asked, answered>>
  BY DEF response_read, Crash, EndsAs, history, peers
<1>3. CASE st' = "crash"
  BY <1>1, <1>3, LastStep DEF Over
<1>4. CASE UNCHANGED <<st, up, inbox, asked, answered>>
  <2>1. inbox \in {<<>>} \cup Lines
    BY <1>1 DEF LineInv, PlaceInv
  <2>2. ~Held /\ ~Held'
    BY <1>1, <1>4 DEF Held
  <2>3. CommandsIntact' /\ PlaceInv' /\ TextInv'
    BY <1>1, <1>4, <2>1, <2>2, QuietStep DEF Over
  <2>4. StartInv'
    BY <1>1, <1>4 DEF StartInv
  <2> QED
    BY <2>3, <2>4 DEF LineInv
<1> QED
  BY <1>2, <1>3, <1>4

LEMMA ResponseSendLines ==
  ASSUME TypeOK, LineInv, Orderly, response_send
  PROVE  LineInv'
<1>1. /\ st = "RESPONSE" /\ UNCHANGED <<up, inbox, sent, relayed, asked, answered>>
      /\ \/ st' = "ERROR"
         \/ st' = "REQUEST" /\ armed' = "client_r" /\ request_init
         \/ st' = st
  BY DEF response_send, peers
<1>2. CASE st' = "ERROR"
  BY <1>1, <1>2, LastStep DEF Over
<1>3. CASE st' # "ERROR"
  <2>1. inbox \in {<<>>} \cup Lines
    BY <1>1 DEF LineInv, PlaceInv
  <2>2. st' = "REQUEST" => armed' = "client_r" /\ request_init
    BY <1>1
  <2>3. st' = "REQUEST" => cmds' = <<>> /\ rbuf' = Empty /\ req' = NoFlags
    BY <2>2, RequestInitTypes
  <2>4. ~Held /\ ~Held'
    BY <1>1, <1>3 DEF Held
  <2>5. PlaceInv /\ TextInv /\ CommandsIntact
    BY <1>1 DEF LineInv
  <2>6. PlaceInv'
    BY <1>1, <1>3, <2>4, <2>5 DEF PlaceInv, Pending, Held
  <2>7. TextInv'
    BY <1>1, <1>3, <2>3, <2>4, <2>5 DEF TextInv, NoFlags
  <2>8. StartInv' /\ CommandsIntact'
    BY <1>1, <1>3, <2>5 DEF StartInv, CommandsIntact
  <2> QED
    BY <2>6, <2>7, <2>8 DEF LineInv
<1> QED
  BY <1>2, <1>3

LEMMA FailsLines ==
  ASSUME LineInv, Fails
  PROVE  LineInv'
<1>1. st' \in Over /\ UNCHANGED <<sent, relayed>>
  BY DEF Fails, RecvFails, SendFails, EndsAs, history, Over
<1> QED
  BY <1>1, LastStep

LEMMA ClosesLines ==
  ASSUME LineInv, NEW side, Closes(side)
  PROVE  LineInv'
BY DEF Closes, LineInv, StartInv, PlaceInv, TextInv, CommandsIntact, Pending, Held,
       buffers, history

LEMMA LinesStay ==
  ASSUME LineInv, UNCHANGED vars
  PROVE  LineInv'
BY DEF LineInv, StartInv, PlaceInv, TextInv, CommandsIntact, Pending, Held,
       vars, buffers, peers, history

\* request_read takes the whole line, for one command.
LEMMA OneRead ==
  ASSUME TypeOK, LineInv, Orderly, request_read
  PROVE  /\ st = "REQUEST" /\ armed' = "origin_w" /\ up' = <<>>
         /\ up \in Lines /\ inbox = <<>> /\ asked # answered /\ sent = relayed \o up
         /\ Len(cmds') = 1 /\ cmds'[1].text # <<>> /\ cmds'[1].text \o EOL = up
         /\ cmds'[1].multiline = Multiline(cmds'[1].text)
         /\ UNCHANGED <<st, buffers, orig, down, inbox, gone, history>>
<1>1. st = "REQUEST" /\ armed = "client_r"
  BY DEF request_read
<1>2. PlaceInv /\ TextInv /\ CommandsIntact
  BY <1>1 DEF LineInv
<1>3. cmds = <<>> /\ rbuf = Empty /\ req = NoFlags /\ ~Held
  BY <1>1, <1>2 DEF TextInv, NoFlags, Held
<1>4. Room(rbuf) = Size /\ Size \in Nat \ {0} /\ Size \in Int /\ CanWrite(rbuf)
  BY <1>3, RelayAssumption DEF Room, Empty, CanWrite
<1>5. PICK chunk \in Received("client", up, Room(rbuf)) :
      \E end \in Scan(CString(Keep(rbuf, chunk).queue), FullUntil(Keep(rbuf, chunk))) :
        Read(chunk, end)
  BY <1>4, ReadSteps
<1> DEFINE filled == Keep(rbuf, chunk)
           n == Len(up) - 2
           text == SubSeq(up, 1, n)
<1>6. PICK end \in Scan(CString(filled.queue), FullUntil(filled)) : Read(chunk, end)
  BY <1>5
<1>7. /\ Len(chunk) \in 1 .. Size /\ Len(chunk) <= Len(up)
      /\ Len(up) <= Size => chunk = up
  BY <1>4, ReceivedType, Typed DEF Types, Orderly
<1>8. up # <<>>
  <2>1. Len(<<>>) = 0
    OBVIOUS
  <2> QED
    BY <1>7, <2>1
<1>9. up \in Lines /\ inbox = <<>> /\ asked # answered /\ sent = relayed \o up
  BY <1>1, <1>2, <1>3, <1>8 DEF PlaceInv, TextInv, Pending
<1>10. /\ up \in Seq(Byte) /\ Proper(up) /\ After(up, up) = <<>>
       /\ text # <<>> /\ text \o EOL = up
  BY <1>9, ProperLine DEF Orderly
<1>11. chunk = up /\ n \in 1 .. MAX_CMD_SIZE
  BY <1>7, <1>10 DEF Proper
<1> HIDE DEF n, text
<1>12. /\ filled.queue = up /\ CString(up) = up /\ Consumed(up) = Len(up)
       /\ FullUntil(filled) \in Int
  <2>1. filled.queue = <<>> \o up
    BY <1>3, <1>11 DEF Keep, Empty
  <2>2. <<>> \o up = up
    BY <1>10
  <2>3. NUL \notin ToSet(up)
    <3>1. NUL # CR /\ NUL # LF
      BY DEF NUL, CR, LF
    <3>2. /\ \A i \in 1 .. n : up[i] # NUL
          /\ up[n + 1] # NUL /\ up[n + 2] # NUL
      BY <1>10, <3>1 DEF Proper, n
    <3>3. \A i \in 1 .. Len(up) : i \in 1 .. n \/ i = n + 1 \/ i = n + 2
      BY <1>10, <1>11 DEF n
    <3>4. \A i \in 1 .. Len(up) : up[i] # NUL
      BY <3>2, <3>3
    <3> QED
      BY <1>10, <3>4 DEF ToSet
  <2>4. Len(up) \in Int
    BY <1>10
  <2> QED
    BY <1>8, <1>10, <2>1, <2>2, <2>3, <2>4, CStringType DEF FullUntil
<1>13. end.sizes = <<n>> /\ end.send = TRUE
  <2>1. end \in Scan(up, FullUntil(filled))
    BY <1>6, <1>12
  <2> HIDE DEF filled
  <2> QED
    BY <1>3, <1>10, <1>12, <2>1, ScanOfLine DEF n
<1>14. /\ up' = <<>> /\ rbuf' = rbuf
       /\ cmds' = Queued([i \in 1 .. Len(end.sizes) |-> SubSeq(up, 1, end.sizes[i])])
       /\ armed' = "origin_w"
       /\ UNCHANGED <<st, wbuf, orig, down, inbox, gone, history>>
  <2>1. ~\E k \in ToSet(end.sizes) : k \notin 0 .. MAX_CMD_SIZE
    <3>1. ToSet(<<n>>) = {n}
      BY DEF ToSet
    <3>2. n \in 0 .. MAX_CMD_SIZE
      BY <1>11, RelayAssumption
    <3> QED
      BY <1>13, <3>1, <3>2
  <2>2. Drop(filled, Consumed(up)) = Empty
    BY <1>12 DEF Drop
  <2>3. /\ up' = After(up, chunk)
        /\ rbuf' = Drop(filled, Consumed(filled.queue))
        /\ cmds' = Queued([i \in 1 .. Len(end.sizes) |->
                             SubSeq(CString(filled.queue), 1, end.sizes[i])])
        /\ armed' = IF end.send THEN "origin_w" ELSE armed
        /\ UNCHANGED <<st, wbuf, orig, down, inbox, gone, history>>
    BY <1>6, <2>1 DEF Read
  <2> HIDE DEF filled
  <2> QED
    BY <1>3, <1>10, <1>11, <1>12, <1>13, <2>2, <2>3
<1>15. Len(cmds') = 1 /\ cmds'[1].text = text /\ cmds'[1].multiline = Multiline(text)
  <2>1. Len(<<n>>) = 1 /\ <<n>>[1] = n
    OBVIOUS
  <2> DEFINE part(i) == SubSeq(up, 1, <<n>>[i])
             texts == [i \in 1 .. 1 |-> part(i)]
  <2>2. cmds' = Queued(texts)
    BY <1>13, <1>14, <2>1
  <2>3. Len(texts) = 1 /\ texts[1] = text
    <3>1. part(1) = text
      BY <2>1 DEF text
    <3> HIDE DEF part
    <3>2. Len(texts) = 1
      OBVIOUS
    <3>3. texts[1] = part(1)
      OBVIOUS
    <3> QED
      BY <3>1, <3>2, <3>3
  <2> HIDE DEF texts
  <2> DEFINE c == [text |-> texts[1], multiline |-> Multiline(texts[1])]
             new == [i \in 1 .. 1 |->
                       [text |-> texts[i], multiline |-> Multiline(texts[i])]]
  <2>4. Queued(texts) = <<>> \o new
    BY <1>3, <2>3 DEF Queued
  <2>5. new \in Seq({c}) /\ new[1] = c /\ Len(new) = 1
    OBVIOUS
  <2>6. <<>> \o new = new
    BY <2>5
  <2>7. cmds' = new /\ c.text = text /\ c.multiline = Multiline(text)
    BY <2>2, <2>3, <2>4, <2>6
  <2> QED
    BY <2>5, <2>7
<1> QED
  BY <1>1, <1>9, <1>10, <1>14, <1>15 DEF buffers

LEMMA RequestReadLines ==
  ASSUME TypeOK, LineInv, Orderly, request_read
  PROVE  LineInv'
<1>1. /\ st = "REQUEST" /\ armed' = "origin_w" /\ up' = <<>>
      /\ up \in Lines /\ inbox = <<>> /\ asked # answered /\ sent = relayed \o up
      /\ Len(cmds') = 1 /\ cmds'[1].text # <<>> /\ cmds'[1].text \o EOL = up
      /\ UNCHANGED <<st, inbox, sent, relayed, asked, answered>>
  BY OneRead DEF history
<1>2. PlaceInv /\ TextInv /\ CommandsIntact
  BY <1>1 DEF LineInv
<1>3. Held'
  BY <1>1 DEF Held
<1>4. PlaceInv'
  BY <1>1, <1>2, <1>3 DEF PlaceInv, Pending
<1>5. TextInv'
  BY <1>1, <1>3 DEF TextInv, EOL
<1>6. CommandsIntact' /\ StartInv'
  BY <1>1, <1>2 DEF CommandsIntact, StartInv
<1> QED
  BY <1>4, <1>5, <1>6 DEF LineInv

\* request_send passes on what it was: the last command of the queue gets its CR whatever
\* the origin accepts.
LEMMA OneSent ==
  ASSUME TypeOK, LineInv, Orderly, request_send
  PROVE  LET line == cmds[1].text \o EOL IN
         /\ Held /\ st = "REQUEST" /\ st' = "RESPONSE" /\ armed' = "origin_r"
         /\ Len(cmds) = 1 /\ line \in Lines /\ sent = relayed \o line
         /\ inbox = <<>> /\ up = <<>> /\ asked # answered
         /\ inbox' = line /\ sent' = relayed' /\ relayed' \in Seq(Byte)
         /\ response_init
         /\ UNCHANGED <<buffers, req, cmds, up, down, gone, sent, due, got, asked,
                         answered>>
<1>1. Held /\ st = "REQUEST"
  BY DEF request_send, Held
<1>2. PlaceInv /\ TextInv /\ CommandsIntact
  BY <1>1 DEF LineInv
<1> DEFINE text == cmds[1].text
           line == text \o EOL
<1>3. /\ Len(cmds) = 1 /\ text # <<>> /\ line \in Lines /\ sent = relayed \o line
      /\ inbox = <<>> /\ up = <<>> /\ asked # answered
  BY <1>1, <1>2 DEF TextInv, PlaceInv, Pending, EOL
<1>4. text \in Seq(Byte) /\ line \in Seq(Byte)
  <2>1. cmds[1] \in Command
    <3>1. cmds \in Seq(Command)
      BY Typed DEF Types
    <3>2. Len(cmds) = 1 /\ 1 \in 1 .. Len(cmds)
      BY <1>3
    <3> QED
      BY <3>1, <3>2, ElementOfSeq
  <2>2. line \in Seq(Byte)
    BY <1>3, RelayAssumption
  <2> QED
    BY <2>1, <2>2 DEF Command
<1> HIDE DEF line
<1>5. FirstEmpty = 0 /\ cmds # <<>>
  <2>1. \A i \in 1 .. Len(cmds) : cmds[i].text # <<>>
    BY <1>3
  <2>2. cmds # <<>>
    <3>1. Len(cmds) = 1
      BY <1>3
    <3> SUFFICES ASSUME cmds = <<>>
                 PROVE  FALSE
      OBVIOUS
    <3>2. Len(cmds) = 0
      OBVIOUS
    <3> QED
      BY <3>1, <3>2
  <2>3. FirstEmpty = 0
    BY <2>1, FirstEmptyType
  <2> QED
    BY <2>2, <2>3
<1>6. Wire(1) = line
  <2>1. Wire(1) = (text \o <<CR>>) \o <<LF>>
    BY <1>3 DEF Wire
  <2>2. <<CR>> \in Seq(Byte) /\ <<LF>> \in Seq(Byte)
    <3>1. CR \in Byte /\ LF \in Byte
      BY DEF Byte
    <3> QED
      BY <3>1
  <2>3. (text \o <<CR>>) \o <<LF>> = text \o (<<CR>> \o <<LF>>)
    BY <1>4, <2>2, ConcatAssociative
  <2>4. <<CR>> \o <<LF>> = EOL
    <3> DEFINE u == <<CR>> \o <<LF>>
    <3>1. u \in Seq(Byte) /\ Len(u) = 2 /\ u[1] = CR /\ u[2] = LF
      <4>1. Len(<<CR>>) = 1 /\ Len(<<LF>>) = 1 /\ <<CR>>[1] = CR /\ <<LF>>[1] = LF
        OBVIOUS
      <4> QED
        BY <2>2, <4>1, JoinIsSeq
    <3> HIDE DEF u
    <3>2. u = EOL
      <4>1. \A i \in 1 .. Len(u) : u[i] = EOL[i]
        BY <3>1, EOLType
      <4> QED
        BY <3>1, <4>1, EOLType, SeqEqual
    <3> QED
      BY <3>2 DEF u
  <2> QED
    BY <2>1, <2>3, <2>4 DEF line
<1> DEFINE bytes == FlattenSeq([i \in 1 .. 1 |-> Wire(i)])
<1>7. bytes = line
  <2> DEFINE s == [i \in 1 .. 1 |-> Wire(i)]
  <2>1. s \in [1 .. 1 -> Seq(Byte)] /\ s[1] = line
    BY <1>4, <1>6
  <2> HIDE DEF s
  <2>2. FlattenSeq(s) = s[1]
    BY <2>1, FlattenIsSeq
  <2> QED
    BY <2>1, <2>2 DEF s
<1>8. /\ inbox' = inbox \o line /\ relayed' = relayed \o line
      /\ st' = "RESPONSE" /\ armed' = "origin_r" /\ response_init
      /\ UNCHANGED <<buffers, req, cmds, up, down, gone, sent, due, got, asked,
                      answered>>
  <2>1. /\ inbox' = inbox \o bytes /\ relayed' = relayed \o bytes
        /\ st' = "RESPONSE" /\ armed' = "origin_r" /\ response_init
        /\ UNCHANGED <<buffers, req, cmds, up, down, gone, sent, due, got, asked,
                        answered>>
    BY <1>3, <1>5 DEF request_send, FirstEmpty
  <2> HIDE DEF bytes
  <2> QED
    BY <1>7, <2>1
<1>9. inbox' = line /\ sent' = relayed' /\ relayed' \in Seq(Byte)
  <2>1. <<>> \o line = line
    BY <1>4
  <2>2. relayed' \in Seq(Byte)
    BY <1>4, <1>8, JoinIsSeq, Typed DEF Types
  <2> QED
    BY <1>3, <1>8, <2>1, <2>2
<1> QED
  BY <1>1, <1>3, <1>8, <1>9 DEF line

LEMMA RequestSendLines ==
  ASSUME TypeOK, LineInv, Orderly, request_send
  PROVE  LineInv'
<1> DEFINE line == cmds[1].text \o EOL
<1>1. /\ Held /\ st = "REQUEST" /\ st' = "RESPONSE"
      /\ line \in Lines /\ inbox = <<>> /\ up = <<>> /\ asked # answered
      /\ inbox' = line /\ sent' = relayed' /\ relayed' \in Seq(Byte)
      /\ UNCHANGED <<cmds, up, sent, asked, answered>>
  BY OneSent
<1> HIDE DEF line
<1>2. PlaceInv
  BY <1>1 DEF LineInv
<1>3. <<>> \in Seq(Byte) /\ relayed' \o <<>> = relayed'
  BY <1>1
<1>4. ~Held'
  BY <1>1 DEF Held
<1>5. PlaceInv'
  BY <1>1, <1>2, <1>4 DEF PlaceInv, Pending
<1>6. TextInv'
  BY <1>1, <1>3, <1>4 DEF TextInv
<1>7. CommandsIntact'
  <2>1. IsPrefix(relayed', relayed' \o <<>>)
    BY <1>1, <1>3, PrefixOfJoin
  <2> QED
    BY <1>1, <1>3, <2>1 DEF CommandsIntact
<1>8. StartInv'
  BY <1>1 DEF StartInv
<1> QED
  BY <1>5, <1>6, <1>7, <1>8 DEF LineInv

\* A client that was answered has no other line anywhere.
LEMMA ClientSendsLines ==
  ASSUME TypeOK, LineInv, Orderly, NEW l \in Lines, ClientSends(l)
  PROVE  LineInv'
<1>1. /\ up' = up \o l /\ sent' = sent \o l /\ asked = answered /\ asked' = asked + 1
      /\ UNCHANGED <<st, armed, rbuf, req, cmds, orig, down, inbox, relayed, answered>>
  BY DEF ClientSends, CaughtUp, Orderly, buffers
<1>2. l \in Seq(Byte) /\ sent \in Seq(Byte) /\ relayed \in Seq(Byte)
      /\ asked \in Nat
  BY RelayAssumption, Typed DEF Types
<1>3. CommandsIntact'
  BY <1>1, <1>2, PrefixGrows DEF CommandsIntact, LineInv
<1>4. StartInv'
  BY <1>1 DEF LineInv, StartInv
<1>5. ASSUME st' \notin Over
      PROVE  PlaceInv' /\ TextInv'
  <2>1. PlaceInv /\ TextInv
    BY <1>1, <1>5 DEF LineInv, Over
  <2>2. up = <<>> /\ ~Held /\ ~Held' /\ (st = "CAPA" \/ inbox = <<>>)
    BY <1>1, <2>1 DEF PlaceInv, Pending, Held
  <2>3. up' = l
    BY <1>1, <1>2, <2>2
  <2>4. sent' = relayed' \o up'
    <3>1. sent = relayed \o <<>> /\ relayed \o <<>> = relayed
      BY <1>2, <2>1, <2>2 DEF TextInv
    <3> QED
      BY <1>1, <2>3, <3>1
  <2>5. asked' # answered'
    BY <1>1, <1>2
  <2>6. PlaceInv'
    BY <1>1, <2>1, <2>2, <2>3, <2>5 DEF PlaceInv, Pending
  <2>7. TextInv'
    BY <1>1, <2>1, <2>2, <2>4 DEF TextInv
  <2> QED
    BY <2>6, <2>7
<1> QED
  BY <1>3, <1>4, <1>5 DEF LineInv, Over

\* The origin takes the one line it has, CAPA or the client's.
LEMMA OriginAnswersLines ==
  ASSUME TypeOK, LineInv, Orderly, OriginAnswers
  PROVE  LineInv'
<1>1. /\ HasLine(inbox) /\ inbox' = After(inbox, Line(inbox))
      /\ st = "CAPA" => UNCHANGED answered
      /\ UNCHANGED <<st, armed, rbuf, req, cmds, orig, up, sent, relayed, asked>>
  BY DEF OriginAnswers, buffers
<1>2. inbox # <<>>
  BY <1>1 DEF HasLine, ToSet
<1>3. CommandsIntact'
  BY <1>1 DEF LineInv, CommandsIntact
<1>4. st # "GREETINGS"
  BY <1>2 DEF LineInv, StartInv
<1>5. CASE st \in Over
  BY <1>1, <1>3, <1>5 DEF LineInv, StartInv, Over
<1>6. CASE st = "CAPA"
  <2>1. inbox = <<CAPA, CR, LF>> /\ armed # "origin_w"
    BY <1>2, <1>6 DEF LineInv, StartInv
  <2>2. inbox' = <<>>
    BY <1>1, <2>1, CapaLine
  <2>3. StartInv'
    BY <1>1, <1>6, <2>1, <2>2 DEF StartInv
  <2>4. PlaceInv /\ TextInv
    BY <1>6 DEF LineInv
  <2>5. PlaceInv' /\ TextInv'
    BY <1>1, <1>6, <2>2, <2>4 DEF PlaceInv, TextInv, Pending, Held
  <2> QED
    BY <1>3, <2>3, <2>5 DEF LineInv
<1>7. CASE st \in {"REQUEST", "RESPONSE"}
  <2>1. PlaceInv /\ TextInv
    BY <1>7 DEF LineInv
  <2>2. inbox \in Lines /\ up = <<>> /\ ~Held
    BY <1>2, <1>7, <2>1 DEF PlaceInv
  <2>3. inbox' = <<>>
    BY <1>1, <2>2, ProperLine DEF Orderly
  <2>4. StartInv'
    BY <1>1, <1>7 DEF StartInv
  <2>5. PlaceInv'
    BY <1>1, <2>2, <2>3 DEF PlaceInv, Pending, Held
  <2>6. TextInv'
    BY <1>1, <2>1, <2>2 DEF TextInv, Held
  <2> QED
    BY <1>3, <2>4, <2>5, <2>6 DEF LineInv
<1> QED
  BY <1>4, <1>5, <1>6, <1>7, Typed DEF Types, Over

\* When a client sends proper lines, each whole and after the answer to the one before,
\* each line is in one place until it is answered.  Answers may be anything, sends may
\* be short and peers may leave at any moment.
THEOREM LinesKept ==
  ASSUME WellFormed, "client" \notin SplitRecv, ~Eager
  PROVE  Spec => []LineInv
<1>1. Orderly
  BY DEF Orderly
<1>2. Init => LineInv
  BY InitLines
<1>3. TypeOK /\ LineInv /\ [Next]_vars => LineInv'
  <2> SUFFICES ASSUME TypeOK, LineInv, [Next]_vars
               PROVE  LineInv'
    OBVIOUS
  <2>1. CASE greetings_read
    BY <1>1, <2>1, GreetingsReadLines
  <2>2. CASE greetings_write
    BY <1>1, <2>2, GreetingsWriteLines
  <2>3. CASE capa_send
    BY <1>1, <2>3, CapaSendLines
  <2>4. CASE capa_read
    BY <1>1, <2>4, CapaReadLines
  <2>5. CASE request_read
    BY <1>1, <2>5, RequestReadLines
  <2>6. CASE request_send
    BY <1>1, <2>6, RequestSendLines
  <2>7. CASE response_read
    BY <1>1, <2>7, ResponseReadLines
  <2>8. CASE response_send
    BY <1>1, <2>8, ResponseSendLines
  <2>9. CASE Fails
    BY <2>9, FailsLines
  <2>10. ASSUME NEW l \in Lines, ClientSends(l)
         PROVE  LineInv'
    BY <1>1, <2>10, ClientSendsLines
  <2>11. CASE OriginAnswers
    BY <1>1, <2>11, OriginAnswersLines
  <2>12. ASSUME NEW side \in {"client", "origin"}, Closes(side)
         PROVE  LineInv'
    BY <2>12, ClosesLines
  <2>13. CASE UNCHANGED vars
    BY <2>13, LinesStay
  <2> QED
    BY <2>1, <2>2, <2>3, <2>4, <2>5, <2>6, <2>7, <2>8, <2>9, <2>10, <2>11, <2>12,
       <2>13 DEF Next, Handler, Rest
<1>4. Spec => []TypeOK
  BY TypeCorrect
<1> QED
  BY <1>2, <1>3, <1>4, PTL DEF Spec

\* ... and so what request_send passes on is what the client sent.
THEOREM LinesIntact ==
  ASSUME WellFormed, "client" \notin SplitRecv, ~Eager
  PROVE  Spec => []CommandsIntact
<1>1. LineInv => CommandsIntact
  BY DEF LineInv
<1>2. Spec => []LineInv
  BY LinesKept
<1> QED
  BY <1>1, <1>2, PTL

(***************************************************************************)
(* Parts of a stream                                                       *)
(***************************************************************************)

LEMMA SeqFacts ==
  ASSUME NEW T, NEW s \in Seq(T)
  PROVE  /\ <<>> \in Seq(T) /\ Len(s) \in Nat
         /\ Len(s) = 0 <=> s = <<>>
         /\ s \o <<>> = s /\ <<>> \o s = s
OBVIOUS

LEMMA Regrouped ==
  ASSUME NEW s \in Seq(Byte), NEW t \in Seq(Byte), NEW u \in Seq(Byte)
  PROVE  (s \o t) \o u = s \o (t \o u)
BY ConcatAssociative

\* A sequence is what it begins with and the rest.
LEMMA CutInTwo ==
  ASSUME NEW T, NEW s \in Seq(T), NEW n \in 0 .. Len(s)
  PROVE  /\ SubSeq(s, 1, n) \in Seq(T) /\ Len(SubSeq(s, 1, n)) = n
         /\ SubSeq(s, n + 1, Len(s)) \in Seq(T)
         /\ Len(SubSeq(s, n + 1, Len(s))) = Len(s) - n
         /\ \A i \in 1 .. n : SubSeq(s, 1, n)[i] = s[i]
         /\ SubSeq(s, 1, n) \o SubSeq(s, n + 1, Len(s)) = s
<1> DEFINE t == SubSeq(s, 1, n)
           u == SubSeq(s, n + 1, Len(s))
<1>1. Len(s) \in Nat /\ \A i \in 1 .. Len(s) : s[i] \in T
  BY ElementOfSeq
<1>2. /\ t \in Seq(T) /\ Len(t) = n /\ \A i \in 1 .. n : t[i] = s[i]
  <2>1. \A i \in 1 .. n : s[i] \in T
    BY <1>1
  <2>2. /\ t \in Seq(T) /\ Len(t) = IF 1 <= n THEN n - 1 + 1 ELSE 0
        /\ \A i \in 1 .. n - 1 + 1 : t[i] = s[1 + i - 1]
    BY <1>1, <2>1, SubSeqProperties
  <2>3. \A i \in 1 .. n : i \in 1 .. n - 1 + 1 /\ 1 + i - 1 = i
    OBVIOUS
  <2> QED
    BY <1>1, <2>2, <2>3
<1>3. /\ u \in Seq(T) /\ Len(u) = Len(s) - n
      /\ \A i \in 1 .. Len(s) - n : u[i] = s[n + i]
  <2>1. \A i \in n + 1 .. Len(s) : s[i] \in T
    BY <1>1
  <2>2. /\ u \in Seq(T)
        /\ Len(u) = IF n + 1 <= Len(s) THEN Len(s) - (n + 1) + 1 ELSE 0
        /\ \A i \in 1 .. Len(s) - (n + 1) + 1 : u[i] = s[(n + 1) + i - 1]
    BY <1>1, <2>1, SubSeqProperties
  <2>3. \A i \in 1 .. Len(s) - n : i \in 1 .. Len(s) - (n + 1) + 1
                                   /\ (n + 1) + i - 1 = n + i
    BY <1>1
  <2> QED
    BY <1>1, <2>2, <2>3
<1> HIDE DEF t, u
<1>4. /\ t \o u \in Seq(T) /\ Len(t \o u) = Len(s)
      /\ \A i \in 1 .. Len(s) : (t \o u)[i] = IF i <= n THEN t[i] ELSE u[i - n]
  <2>1. /\ t \o u \in Seq(T) /\ Len(t \o u) = Len(t) + Len(u)
        /\ \A i \in 1 .. Len(t) + Len(u) :
             (t \o u)[i] = IF i <= Len(t) THEN t[i] ELSE u[i - Len(t)]
    BY <1>2, <1>3, JoinIsSeq
  <2> QED
    BY <1>1, <1>2, <1>3, <2>1
<1>5. ASSUME NEW i \in 1 .. Len(s)
      PROVE  (t \o u)[i] = s[i]
  <2>1. CASE i <= n
    BY <1>1, <1>2, <1>4, <2>1
  <2>2. CASE ~(i <= n)
    <3>1. i - n \in 1 .. Len(s) - n /\ n + (i - n) = i
      BY <1>1, <2>2
    <3> QED
      BY <1>3, <1>4, <2>2, <3>1
  <2> QED
    BY <2>1, <2>2
<1>6. t \o u = s
  BY <1>4, <1>5, SeqEqual
<1> QED
  BY <1>2, <1>3, <1>6 DEF t, u

\* What is sent and what stays in a buffer are what was in it.
LEMMA SentAndLeft ==
  ASSUME NEW b, Sound(b), NEW n \in Accepted(b.queue)
  PROVE  /\ b.queue # <<>>
         /\ SubSeq(b.queue, 1, n) \in Seq(Byte) /\ Drop(b, n).queue \in Seq(Byte)
         /\ Len(SubSeq(b.queue, 1, n)) + Len(Drop(b, n).queue) = Len(b.queue)
         /\ SubSeq(b.queue, 1, n) \o Drop(b, n).queue = b.queue
         /\ Drop(b, n).queue = <<>> => Drop(b, n) = Empty
<1>1. b.queue \in Seq(Byte) /\ b = [queue |-> b.queue, write |-> b.write]
  BY DEF Sound, Buffer
<1>2. Len(b.queue) \in Nat /\ n \in 1 .. Len(b.queue) /\ n \in 0 .. Len(b.queue)
  BY <1>1 DEF Accepted
<1>3. b.queue # <<>>
  BY <1>1, <1>2, SeqFacts
<1> DEFINE q == SubSeq(b.queue, n + 1, Len(b.queue))
<1>4. /\ SubSeq(b.queue, 1, n) \in Seq(Byte) /\ Len(SubSeq(b.queue, 1, n)) = n
      /\ q \in Seq(Byte) /\ Len(q) = Len(b.queue) - n
      /\ SubSeq(b.queue, 1, n) \o q = b.queue
  BY <1>1, <1>2, CutInTwo
<1>5. Drop(b, n).queue = q /\ (q = <<>> => Drop(b, n) = Empty)
  <2>1. CASE n = Len(b.queue)
    <3>1. Drop(b, n) = Empty /\ Empty.queue = <<>>
      BY <2>1 DEF Drop, Empty
    <3>2. q = <<>>
      BY <1>2, <1>4, <2>1, SeqFacts
    <3> QED
      BY <3>1, <3>2
  <2>2. CASE n # Len(b.queue)
    <3>1. Drop(b, n).queue = q
      BY <1>1, <2>2 DEF Drop
    <3>2. Len(q) # 0
      BY <1>2, <1>4, <2>2
    <3> HIDE DEF q
    <3>3. q # <<>>
      BY <1>4, <3>2, SeqFacts
    <3> QED
      BY <3>1, <3>3
  <2> QED
    BY <2>1, <2>2
<1> HIDE DEF q
<1>6. n + (Len(b.queue) - n) = Len(b.queue)
  BY <1>2
<1> QED
  BY <1>3, <1>4, <1>5, <1>6

\* The first byte and the rest.
LEMMA FirstAndRest ==
  ASSUME NEW s \in Seq(Byte), s # <<>>
  PROVE  /\ Tail(s) \in Seq(Byte) /\ Len(s) \in Nat \ {0} /\ Len(Tail(s)) = Len(s) - 1
         /\ <<Head(s)>> \in Seq(Byte) /\ Head(s) = s[1]
         /\ <<Head(s)>> \o Tail(s) = s
         /\ \A i \in 1 .. Len(Tail(s)) : Tail(s)[i] = s[i + 1]
<1>1. /\ Tail(s) \in Seq(Byte) /\ Len(s) \in Nat \ {0} /\ Len(Tail(s)) = Len(s) - 1
      /\ Head(s) \in Byte /\ Head(s) = s[1]
      /\ \A i \in 1 .. Len(Tail(s)) : Tail(s)[i] = s[i + 1]
  BY HeadTailProperties, SeqFacts
<1> DEFINE h == <<Head(s)>>
           t == Tail(s)
<1>2. h \in Seq(Byte) /\ Len(h) = 1 /\ h[1] = s[1]
  BY <1>1
<1> HIDE DEF h, t
<1>3. /\ h \o t \in Seq(Byte) /\ Len(h \o t) = Len(s)
      /\ \A i \in 1 .. Len(s) : (h \o t)[i] = IF i <= 1 THEN h[i] ELSE t[i - 1]
  <2>1. /\ h \o t \in Seq(Byte) /\ Len(h \o t) = Len(h) + Len(t)
        /\ \A i \in 1 .. Len(h) + Len(t) :
             (h \o t)[i] = IF i <= Len(h) THEN h[i] ELSE t[i - Len(h)]
    BY <1>1, <1>2, JoinIsSeq DEF t
  <2> QED
    BY <1>1, <1>2, <2>1 DEF t
<1>4. ASSUME NEW i \in 1 .. Len(s)
      PROVE  (h \o t)[i] = s[i]
  <2>1. CASE i = 1
    BY <1>1, <1>2, <1>3, <2>1
  <2>2. CASE i # 1
    <3>1. i - 1 \in 1 .. Len(t) /\ (i - 1) + 1 = i /\ ~(i <= 1)
      BY <1>1, <2>2 DEF t
    <3> QED
      BY <1>1, <1>3, <3>1 DEF t
  <2> QED
    BY <2>1, <2>2
<1>5. h \o t = s
  BY <1>3, <1>4, SeqEqual
<1> QED
  BY <1>1, <1>2, <1>5 DEF h, t

\* A byte moved from the stream to the buffer.
LEMMA ByteMoves ==
  ASSUME NEW q \in Seq(Byte), NEW s \in Seq(Byte), s # <<>>
  PROVE  /\ q \o <<Head(s)>> \in Seq(Byte) /\ Len(q \o <<Head(s)>>) = Len(q) + 1
         /\ (q \o <<Head(s)>>) \o Tail(s) = q \o s
<1>1. /\ Tail(s) \in Seq(Byte) /\ <<Head(s)>> \in Seq(Byte)
      /\ <<Head(s)>> \o Tail(s) = s
  BY FirstAndRest
<1>2. (q \o <<Head(s)>>) \o Tail(s) = q \o (<<Head(s)>> \o Tail(s))
  BY <1>1, ConcatAssociative
<1>3. Len(<<Head(s)>>) = 1
  OBVIOUS
<1> QED
  BY <1>1, <1>2, <1>3, JoinIsSeq

LEMMA PrefixOfItself ==
  ASSUME NEW T, NEW s \in Seq(T)
  PROVE  IsPrefix(s, s)
<1>1. IsPrefix(s, s \o <<>>) /\ s \o <<>> = s
  <2>1. <<>> \in Seq(T) /\ s \o <<>> = s
    BY SeqFacts
  <2> QED
    BY <2>1, PrefixOfJoin
<1> QED
  BY <1>1

\* A prefix is what the whole begins with.
LEMMA PrefixBegins ==
  ASSUME NEW T, NEW s \in Seq(T), NEW u \in Seq(T), IsPrefix(s, u)
  PROVE  Len(s) <= Len(u) /\ u = s \o SubSeq(u, Len(s) + 1, Len(u))
         /\ SubSeq(u, Len(s) + 1, Len(u)) \in Seq(T)
<1>1. Len(s) <= Len(u) /\ SubSeq(s, 1, Len(s)) = SubSeq(u, 1, Len(s))
  BY DEF IsPrefix
<1>2. Len(s) \in 0 .. Len(u) /\ Len(s) \in 0 .. Len(s)
  BY <1>1, SeqFacts
<1>3. SubSeq(s, 1, Len(s)) = s
  BY SubSeqProperties
<1>4. \A n \in 0 .. Len(u) :
        /\ SubSeq(u, 1, n) \o SubSeq(u, n + 1, Len(u)) = u
        /\ SubSeq(u, n + 1, Len(u)) \in Seq(T)
  BY CutInTwo
<1>5. /\ SubSeq(u, 1, Len(s)) \o SubSeq(u, Len(s) + 1, Len(u)) = u
      /\ SubSeq(u, Len(s) + 1, Len(u)) \in Seq(T)
  BY <1>2, <1>4
<1> QED
  BY <1>1, <1>3, <1>5

LEMMA PrefixShortened ==
  ASSUME NEW T, NEW s \in Seq(T), NEW t \in Seq(T), NEW u \in Seq(T),
         IsPrefix(s \o t, u)
  PROVE  IsPrefix(s, u)
<1> DEFINE v == SubSeq(u, Len(s \o t) + 1, Len(u))
<1>1. s \o t \in Seq(T)
  BY JoinIsSeq
<1>2. u = (s \o t) \o v /\ v \in Seq(T)
  BY <1>1, PrefixBegins
<1> HIDE DEF v
<1>3. t \o v \in Seq(T)
  BY <1>2, JoinIsSeq
<1>4. (s \o t) \o v = s \o (t \o v)
  <2>1. s \in Seq(T) /\ t \in Seq(T) /\ v \in Seq(T)
    BY <1>2
  <2> QED
    BY <2>1, ConcatAssociative
<1>5. u = s \o (t \o v)
  BY <1>2, <1>4
<1> QED
  BY <1>3, <1>5, PrefixOfJoin

\* What a recv returns is what the stream begins with.
LEMMA ReceivedPart ==
  ASSUME NEW T, NEW s \in Seq(T), NEW room \in Nat, NEW side,
         NEW chunk \in Received(side, s, room)
  PROVE  /\ Len(chunk) \in 1 .. Len(s) /\ chunk = SubSeq(s, 1, Len(chunk))
         /\ After(s, chunk) \in Seq(T) /\ Len(After(s, chunk)) = Len(s) - Len(chunk)
<1>1. chunk \in Seq(T) /\ Len(chunk) \in 1 .. room /\ Len(chunk) <= Len(s)
  BY ReceivedType
<1>2. Len(s) \in Nat
  BY SeqFacts
<1>3. Len(chunk) \in 1 .. Len(s) /\ Len(chunk) \in 0 .. Len(s)
  BY <1>1, <1>2
<1>4. PICK n \in 1 .. room : n <= Len(s) /\ chunk = SubSeq(s, 1, n)
  BY <1>2 DEF Received
<1>5. n \in 0 .. Len(s)
  BY <1>2, <1>4
<1>6. Len(chunk) = n
  BY <1>4, <1>5, CutInTwo
<1>7. /\ After(s, chunk) \in Seq(T)
      /\ Len(After(s, chunk)) = Len(s) - Len(chunk)
  BY <1>3, CutInTwo DEF After
<1> QED
  BY <1>3, <1>4, <1>6, <1>7

\* The write pointer in response_read passes a part of the chunk, not what lies behind.
LEMMA KeptPart ==
  ASSUME NEW s \in Seq(Byte), NEW m \in 1 .. Len(s), NEW adv \in 0 .. m
  PROVE  SubSeq(SubSeq(s, 1, m) \o Junk(Size), 1, adv) = SubSeq(s, 1, adv)
<1> DEFINE c == SubSeq(s, 1, m)
           j == Junk(Size)
           u == c \o j
<1>1. Len(s) \in Nat /\ m \in 0 .. Len(s) /\ adv \in 0 .. Len(s)
  BY SeqFacts
<1>2. c \in Seq(Byte) /\ Len(c) = m /\ \A i \in 1 .. m : c[i] = s[i]
  BY <1>1, CutInTwo
<1>3. j \in Seq(Byte)
  <2>1. Size \in Nat /\ JUNK \in Byte
    BY RelayAssumption DEF Byte
  <2>2. j \in [1 .. Size -> Byte]
    BY <2>1 DEF Junk
  <2> QED
    BY <2>1, <2>2, FunctionIsSeq
<1> HIDE DEF c, j
<1>4. /\ u \in Seq(Byte) /\ Len(u) = m + Len(j)
      /\ \A i \in 1 .. m + Len(j) : u[i] = IF i <= m THEN c[i] ELSE j[i - m]
  BY <1>2, <1>3, JoinIsSeq
<1>5. Len(j) \in Nat
  BY <1>3, SeqFacts
<1> HIDE DEF u
<1>6. adv \in 0 .. Len(u) /\ \A i \in 1 .. adv : u[i] = s[i]
  BY <1>1, <1>2, <1>4, <1>5
<1>7. /\ SubSeq(u, 1, adv) \in Seq(Byte) /\ Len(SubSeq(u, 1, adv)) = adv
      /\ \A i \in 1 .. adv : SubSeq(u, 1, adv)[i] = u[i]
  BY <1>4, <1>6, CutInTwo
<1>8. /\ SubSeq(s, 1, adv) \in Seq(Byte) /\ Len(SubSeq(s, 1, adv)) = adv
      /\ \A i \in 1 .. adv : SubSeq(s, 1, adv)[i] = s[i]
  BY <1>1, CutInTwo
<1>9. SubSeq(u, 1, adv) = SubSeq(s, 1, adv)
  BY <1>6, <1>7, <1>8, SeqEqual
<1> QED
  BY <1>9 DEF u, c, j

(***************************************************************************)
(* The end of an answer                                                    *)
(***************************************************************************)

OffsetsOf(f) ==
  /\ {f.first_cr, f.first_lf, f.dot, f.second_cr, f.finished} \subseteq Offset
  /\ f.first_cr # f.first_lf /\ f.first_cr # f.dot /\ f.first_cr # f.second_cr
  /\ f.first_cr # f.finished /\ f.first_lf # f.dot /\ f.first_lf # f.second_cr
  /\ f.first_lf # f.finished /\ f.dot # f.second_cr /\ f.dot # f.finished
  /\ f.second_cr # f.finished

LEMMA Offsets == OffsetsOf(capa) /\ OffsetsOf(response)
BY DEF OffsetsOf, capa, response, Offset

\* What check_char does to each flag.
LEMMA CheckedFlags ==
  ASSUME NEW f, OffsetsOf(f), NEW o \in Memory, NEW c
  PROVE  LET p == CheckMultiline(o, f, c) IN
         /\ p \in Memory
         /\ c = CR => /\ p[f.first_cr] /\ p[f.first_lf] = o[f.first_lf]
                      /\ p[f.dot] = o[f.dot] /\ p[f.finished] = o[f.finished]
                      /\ o[f.first_cr] => p[f.second_cr] = o[f.dot]
                      /\ ~o[f.first_cr] => p[f.second_cr] = o[f.second_cr]
         /\ c = LF => /\ p[f.first_cr] = o[f.first_cr] /\ p[f.dot] = o[f.dot]
                      /\ p[f.second_cr] = o[f.second_cr]
                      /\ o[f.first_lf] => p[f.first_lf]
                                          /\ p[f.finished] = o[f.second_cr]
                      /\ ~o[f.first_lf] => p[f.first_lf] = o[f.first_cr]
                                           /\ p[f.finished] = o[f.finished]
         /\ c = DOT => /\ p[f.first_cr] = o[f.first_cr]
                       /\ p[f.first_lf] = o[f.first_lf] /\ p[f.dot] = o[f.first_lf]
                       /\ p[f.second_cr] = o[f.second_cr]
                       /\ p[f.finished] = o[f.finished]
         /\ c \notin {CR, LF, DOT} =>
              /\ ~p[f.first_cr] /\ ~p[f.first_lf] /\ ~p[f.dot] /\ ~p[f.second_cr]
              /\ p[f.finished] = o[f.finished]
<1> DEFINE p == CheckMultiline(o, f, c)
<1>1. /\ f.first_cr \in Offset /\ f.first_lf \in Offset /\ f.dot \in Offset
      /\ f.second_cr \in Offset /\ f.finished \in Offset
  BY DEF OffsetsOf
<1>2. p \in Memory
  BY <1>1, CheckMultilineType
<1>3. CR # LF /\ CR # DOT /\ LF # DOT
  BY DEF CR, LF, DOT
<1>4. CASE c = CR
  <2>1. p = IF o[f.first_cr] THEN [o EXCEPT ![f.second_cr] = o[f.dot]]
                             ELSE [o EXCEPT ![f.first_cr] = TRUE]
    BY <1>3, <1>4 DEF CheckMultiline
  <2>2. /\ p[f.first_cr] /\ p[f.first_lf] = o[f.first_lf]
        /\ p[f.dot] = o[f.dot] /\ p[f.finished] = o[f.finished]
        /\ o[f.first_cr] => p[f.second_cr] = o[f.dot]
        /\ ~o[f.first_cr] => p[f.second_cr] = o[f.second_cr]
    <3> HIDE DEF p
    <3> QED
      BY <1>1, <2>1 DEF OffsetsOf, Memory
  <2> QED
    BY <1>2, <1>3, <1>4, <2>2
<1>5. CASE c = LF
  <2>1. p = IF o[f.first_lf] THEN [o EXCEPT ![f.finished] = o[f.second_cr]]
                             ELSE [o EXCEPT ![f.first_lf] = o[f.first_cr]]
    BY <1>3, <1>5 DEF CheckMultiline
  <2>2. /\ p[f.first_cr] = o[f.first_cr] /\ p[f.dot] = o[f.dot]
        /\ p[f.second_cr] = o[f.second_cr]
        /\ o[f.first_lf] => p[f.first_lf] /\ p[f.finished] = o[f.second_cr]
        /\ ~o[f.first_lf] => p[f.first_lf] = o[f.first_cr]
                             /\ p[f.finished] = o[f.finished]
    <3> HIDE DEF p
    <3> QED
      BY <1>1, <2>1 DEF OffsetsOf, Memory
  <2> QED
    BY <1>2, <1>3, <1>5, <2>2
<1>6. CASE c = DOT
  <2>1. p = [o EXCEPT ![f.dot] = o[f.first_lf]]
    BY <1>3, <1>6 DEF CheckMultiline
  <2>2. /\ p[f.first_cr] = o[f.first_cr]
        /\ p[f.first_lf] = o[f.first_lf] /\ p[f.dot] = o[f.first_lf]
        /\ p[f.second_cr] = o[f.second_cr] /\ p[f.finished] = o[f.finished]
    <3> HIDE DEF p
    <3> QED
      BY <1>1, <2>1 DEF OffsetsOf, Memory
  <2> QED
    BY <1>2, <1>3, <1>6, <2>2
<1>7. CASE c \notin {CR, LF, DOT}
  <2>1. p = [o EXCEPT ![f.first_cr] = FALSE, ![f.first_lf] = FALSE,
                      ![f.dot] = FALSE, ![f.second_cr] = FALSE]
    BY <1>7 DEF CheckMultiline
  <2>2. /\ ~p[f.first_cr] /\ ~p[f.first_lf] /\ ~p[f.dot] /\ ~p[f.second_cr]
        /\ p[f.finished] = o[f.finished]
    <3> HIDE DEF p
    <3> QED
      BY <1>1, <2>1 DEF OffsetsOf, Memory
  <2> QED
    BY <1>2, <1>7, <2>2
<1> QED
  BY <1>4, <1>5, <1>6, <1>7

\* The last bytes of an answer set the flags in turn, unless it was taken to end before.
LEMMA EndFound ==
  ASSUME NEW f, OffsetsOf(f), NEW o \in Memory, NEW r \in Seq(Byte), EndsDot(r),
         NEW n \in Nat, EndFlags(r, n, o, f)
  PROVE  LET p == CheckMultiline(o, f, r[n + 1]) IN
         p[f.finished] \/ EndFlags(r, n + 1, p, f)
<1> DEFINE p == CheckMultiline(o, f, r[n + 1])
           m == Len(r)
<1>1. /\ m \in Nat /\ m > 4 /\ r[m - 4] = CR /\ r[m - 3] = LF /\ r[m - 2] = DOT
      /\ r[m - 1] = CR /\ r[m] = LF
  BY SeqFacts DEF EndsDot
<1>2. /\ n < m /\ ~o[f.finished]
      /\ n >= m - 4 => o[f.first_cr]
      /\ n >= m - 3 => o[f.first_lf]
      /\ n >= m - 2 => o[f.dot]
      /\ n >= m - 1 => o[f.second_cr]
  BY DEF EndFlags
<1>3. CR # LF /\ CR # DOT /\ LF # DOT
  BY DEF CR, LF, DOT
<1> DEFINE c == r[n + 1]
<1>4. /\ p \in Memory
      /\ c = CR => /\ p[f.first_cr] /\ p[f.first_lf] = o[f.first_lf]
                   /\ p[f.dot] = o[f.dot] /\ p[f.finished] = o[f.finished]
                   /\ o[f.first_cr] => p[f.second_cr] = o[f.dot]
      /\ c = LF => /\ p[f.first_cr] = o[f.first_cr] /\ p[f.dot] = o[f.dot]
                   /\ p[f.second_cr] = o[f.second_cr]
                   /\ o[f.first_lf] => p[f.first_lf] /\ p[f.finished] = o[f.second_cr]
                   /\ ~o[f.first_lf] => p[f.first_lf] = o[f.first_cr]
                                        /\ p[f.finished] = o[f.finished]
      /\ c = DOT => /\ p[f.first_cr] = o[f.first_cr]
                    /\ p[f.first_lf] = o[f.first_lf] /\ p[f.dot] = o[f.first_lf]
                    /\ p[f.finished] = o[f.finished]
      /\ c \notin {CR, LF, DOT} => p[f.finished] = o[f.finished]
  BY CheckedFlags
<1> HIDE DEF p, m, c
<1>5. CASE n + 1 < m - 4
  <2>1. ~(n + 1 >= m - 4) /\ ~(n + 1 >= m - 3) /\ ~(n + 1 >= m - 2) /\ ~(n + 1 >= m - 1)
        /\ n + 1 < m
    BY <1>1, <1>5
  <2> QED
    BY <2>1 DEF EndFlags, m, p, c
<1>6. CASE n + 1 = m - 4
  <2>1. ~(n + 1 >= m - 3) /\ ~(n + 1 >= m - 2) /\ ~(n + 1 >= m - 1) /\ n + 1 < m
    BY <1>1, <1>6
  <2>2. p[f.first_cr]
    BY <1>1, <1>4, <1>6 DEF c
  <2> QED
    BY <2>1, <2>2 DEF EndFlags, m, p, c
<1>7. CASE n + 1 = m - 3
  <2>1. ~(n + 1 >= m - 2) /\ ~(n + 1 >= m - 1) /\ n + 1 < m /\ n >= m - 4
    BY <1>1, <1>7
  <2>2. p[f.first_cr] /\ p[f.first_lf]
    BY <1>1, <1>2, <1>4, <1>7, <2>1 DEF c
  <2> QED
    BY <2>1, <2>2 DEF EndFlags, m, p, c
<1>8. CASE n + 1 = m - 2
  <2>1. ~(n + 1 >= m - 1) /\ n + 1 < m /\ n >= m - 4 /\ n >= m - 3
    BY <1>1, <1>8
  <2>2. p[f.first_cr] /\ p[f.first_lf] /\ p[f.dot]
    BY <1>1, <1>2, <1>4, <1>8, <2>1 DEF c
  <2> QED
    BY <2>1, <2>2 DEF EndFlags, m, p, c
<1>9. CASE n + 1 = m - 1
  <2>1. n + 1 < m /\ n >= m - 4 /\ n >= m - 3 /\ n >= m - 2
    BY <1>1, <1>9
  <2>2. p[f.first_cr] /\ p[f.first_lf] /\ p[f.dot] /\ p[f.second_cr]
    BY <1>1, <1>2, <1>4, <1>9, <2>1 DEF c
  <2> QED
    BY <2>1, <2>2 DEF EndFlags, m, p, c
<1>10. CASE n + 1 = m
  <2>1. n >= m - 3 /\ n >= m - 1
    BY <1>1, <1>10
  <2>2. p[f.finished]
    BY <1>1, <1>2, <1>4, <1>10, <2>1 DEF c
  <2> QED
    BY <2>2 DEF p, c
<1>11. \/ n + 1 < m - 4 \/ n + 1 = m - 4 \/ n + 1 = m - 3 \/ n + 1 = m - 2
       \/ n + 1 = m - 1 \/ n + 1 = m
  BY <1>1, <1>2
<1> QED
  BY <1>5, <1>6, <1>7, <1>8, <1>9, <1>10, <1>11

\* check_char for one command, as response_read picks it.
Checked(c, o, b) == ResponseByte(c.multiline, o, b)

\* The loop after i bytes for the only command c: its answer goes on, with flags in A, or
\* it was found to end.
OnlyOne(c, i, A) ==
  {d \in DigestState :
     /\ d.cmds = <<>>
     /\ \/ d.now = <<c>> /\ d.adv = 0 /\ ~d.send /\ d.orig \in A
        \/ d.now = <<>> /\ d.adv \in 1 .. i /\ d.send /\ d.orig[response.finished]}

LEMMA OnlyOneByte ==
  ASSUME NEW c, NEW i \in Nat \ {0}, NEW A, NEW B, NEW chunk,
         \A o \in A : Checked(c, o, chunk[i])[response.finished]
                      \/ Checked(c, o, chunk[i]) \in B,
         NEW d \in OnlyOne(c, i - 1, A)
  PROVE  DigestByte(d, chunk, i) \in OnlyOne(c, i, B)
<1> DEFINE o == Checked(c, d.orig, chunk[i])
           e == DigestByte(d, chunk, i)
<1>1. d \in DigestState /\ d.cmds = <<>>
  BY DEF OnlyOne
<1>2. e \in DigestState
  BY <1>1, DigestByteType
<1>3. CASE d.now = <<>>
  <2>1. /\ d.adv \in 1 .. i - 1 /\ d.send /\ d.orig[response.finished]
    <3>1. <<c>> # <<>>
      OBVIOUS
    <3> QED
      BY <1>3, <3>1 DEF OnlyOne
  <2>2. e = d
    BY <1>3 DEF DigestByte
  <2>3. d.adv \in 1 .. i
    BY <2>1
  <2>4. d \in OnlyOne(c, i, B)
    BY <1>1, <1>3, <2>1, <2>3 DEF OnlyOne
  <2> QED
    BY <2>2, <2>4
<1>4. CASE d.now # <<>>
  <2>1. /\ d.now = <<c>> /\ d.adv = 0 /\ ~d.send /\ d.orig \in A
    BY <1>4 DEF OnlyOne
  <2>2. d.now[1] = c
    BY <2>1
  <2>3. o = ResponseByte(d.now[1].multiline, d.orig, chunk[i])
    BY <2>2 DEF Checked
  <2>4. e = IF ~o[response.finished] THEN [d EXCEPT !.orig = o]
            ELSE Awaiting(o, d.adv + i, TRUE, d.cmds)
    <3> HIDE DEF o
    <3> QED
      BY <1>4, <2>3 DEF DigestByte
  <2>5. o[response.finished] \/ o \in B
    BY <2>1
  <2> HIDE DEF o, e
  <2>6. CASE ~o[response.finished]
    <3>1. e = [d EXCEPT !.orig = o] /\ o \in B
      BY <2>4, <2>5, <2>6
    <3>2. e.cmds = <<>> /\ e.now = <<c>> /\ e.adv = 0 /\ ~e.send /\ e.orig = o
      BY <1>1, <2>1, <3>1 DEF DigestState
    <3> QED
      BY <1>2, <3>1, <3>2 DEF OnlyOne, e
  <2>7. CASE o[response.finished]
    <3>1. e = Awaiting(o, i, TRUE, <<>>)
      <4>1. d.adv + i = i
        BY <2>1
      <4> QED
        BY <1>1, <2>4, <2>7, <4>1
    <3>2. e.cmds = <<>> /\ e.now = <<>> /\ e.adv = i /\ e.send /\ e.orig = o
      BY <3>1 DEF Awaiting
    <3>3. i \in 1 .. i
      OBVIOUS
    <3> QED
      BY <1>2, <2>7, <3>2, <3>3 DEF OnlyOne, e
  <2> QED
    BY <2>6, <2>7
<1> QED
  BY <1>3, <1>4

\* A[i] holds the flags after i bytes of an answer that goes on.
LEMMA DigestOnlyOne ==
  ASSUME NEW chunk \in Seq(Byte), orig \in Memory, NEW c \in Command, cmds = <<c>>,
         NEW A \in [0 .. Len(chunk) -> SUBSET Memory], orig \in A[0],
         \A i \in 1 .. Len(chunk) : \A o \in A[i - 1] :
           Checked(c, o, chunk[i])[response.finished] \/ Checked(c, o, chunk[i]) \in A[i]
  PROVE  Digest(chunk) \subseteq OnlyOne(c, Len(chunk), A[Len(chunk)])
<1> DEFINE n == Len(chunk)
<1>1. n \in Nat
  BY SeqFacts
<1>2. cmds \in Seq(Command) /\ Tail(cmds) = <<>> /\ Head(cmds) = c /\ cmds # <<>>
  OBVIOUS
<1>3. PICK f : /\ DigestSteps(f, chunk) /\ Digest(chunk) = f[n]
               /\ \A i \in 0 .. n : f[i] \subseteq DigestState
  BY <1>2, DigestRuns
<1> DEFINE S == {i \in 0 .. n : f[i] \subseteq OnlyOne(c, i, A[i])}
<1>4. 0 \in S
  <2>1. f[0] = {DigestStart} /\ 0 \in 0 .. n
    BY <1>1, <1>3 DEF DigestSteps
  <2>2. DigestStart \in DigestState
    BY <1>1, <1>3, <2>1
  <2>3. DigestStart = [orig |-> orig, adv |-> 0, send |-> FALSE, cmds |-> <<>>,
                       now |-> <<c>>]
    BY <1>2 DEF DigestStart, Awaiting
  <2>4. DigestStart \in OnlyOne(c, 0, A[0])
    BY <2>2, <2>3 DEF OnlyOne
  <2> QED
    BY <2>1, <2>4
<1>5. ASSUME NEW i \in 1 .. n, i - 1 \in S
      PROVE  i \in S
  <2>1. f[i] = DigestNext(f[i - 1], chunk, i)
    BY <1>3 DEF DigestSteps
  <2>2. i \in Nat \ {0} /\ i \in 0 .. n
    BY <1>1
  <2>3. f[i - 1] \subseteq OnlyOne(c, i - 1, A[i - 1])
    BY <1>5
  <2>4. \A o \in A[i - 1] : Checked(c, o, chunk[i])[response.finished]
                            \/ Checked(c, o, chunk[i]) \in A[i]
    OBVIOUS
  <2>5. \A d \in f[i - 1] : DigestByte(d, chunk, i) \in OnlyOne(c, i, A[i])
    BY <2>2, <2>3, <2>4, OnlyOneByte
  <2> QED
    BY <2>1, <2>2, <2>5 DEF DigestNext
<1> HIDE DEF n, S
<1>6. \A i \in 0 .. n : i \in S
  BY <1>1, <1>4, <1>5, Upward
<1> QED
  BY <1>1, <1>3, <1>6 DEF S, n

\* Without a command that awaits its answer the loop does nothing.
LEMMA DigestNone ==
  ASSUME NEW chunk \in Seq(Byte), orig \in Memory, cmds = <<>>, NEW end \in Digest(chunk)
  PROVE  end.cmds = <<>> /\ end.adv = 0 /\ ~end.send
<1> DEFINE n == Len(chunk)
<1>1. n \in Nat
  BY SeqFacts
<1>2. cmds \in Seq(Command)
  OBVIOUS
<1>3. PICK f : DigestSteps(f, chunk) /\ Digest(chunk) = f[n]
  BY <1>2, DigestRuns
<1> DEFINE S == {i \in 0 .. n : f[i] = {DigestStart}}
<1>4. DigestStart = [orig |-> orig, adv |-> 0, send |-> FALSE, cmds |-> <<>>,
                     now |-> <<>>]
  BY DEF DigestStart, Awaiting
<1>5. 0 \in S
  BY <1>1, <1>3 DEF DigestSteps
<1>6. ASSUME NEW i \in 1 .. n, i - 1 \in S
      PROVE  i \in S
  <2>1. f[i] = {DigestByte(DigestStart, chunk, i)}
    BY <1>3, <1>6 DEF DigestSteps, DigestNext
  <2>2. DigestByte(DigestStart, chunk, i) = DigestStart
    BY <1>4 DEF DigestByte
  <2> QED
    BY <2>1, <2>2
<1> HIDE DEF n, S
<1>7. \A i \in 0 .. n : i \in S
  BY <1>1, <1>5, <1>6, Upward
<1>8. end = DigestStart
  BY <1>1, <1>3, <1>7 DEF S
<1> QED
  BY <1>4, <1>8

\* With one, its queue is empty when the loop ends, whether its answer has ended or not.
LEMMA DigestOne ==
  ASSUME NEW chunk \in Seq(Byte), orig \in Memory, NEW c \in Command, cmds = <<c>>,
         NEW end \in Digest(chunk)
  PROVE  end.cmds = <<>> /\ end.adv \in 0 .. Len(chunk)
<1> DEFINE A == [i \in 0 .. Len(chunk) |-> Memory]
<1>1. Len(chunk) \in Nat
  BY SeqFacts
<1>2. c.multiline \in BOOLEAN
  BY DEF Command
<1>3. \A o \in Memory : \A b : Checked(c, o, b) \in Memory
  BY <1>2, ResponseByteType DEF Checked
<1>4. /\ A \in [0 .. Len(chunk) -> SUBSET Memory]
      /\ \A i \in 0 .. Len(chunk) : A[i] = Memory
  OBVIOUS
<1> HIDE DEF A
<1>5. orig \in A[0] /\ \A i \in 1 .. Len(chunk) : A[i] = Memory /\ A[i - 1] = Memory
  BY <1>1, <1>4
<1>6. Digest(chunk) \subseteq OnlyOne(c, Len(chunk), A[Len(chunk)])
  BY <1>3, <1>4, <1>5, DigestOnlyOne
<1>7. end.cmds = <<>> /\ (end.adv = 0 \/ end.adv \in 1 .. Len(chunk))
  BY <1>6 DEF OnlyOne
<1> QED
  BY <1>1, <1>7

\* The whole of an answer, with flags no byte has set, is found to end.
LEMMA DigestWhole ==
  ASSUME NEW chunk \in Seq(Byte), orig \in Memory, NEW c \in Command, cmds = <<c>>,
         Fresh(orig, response),
         IF c.multiline THEN EndsDot(chunk) ELSE EndsLine(chunk),
         NEW end \in Digest(chunk)
  PROVE  end.cmds = <<>> /\ end.send /\ end.orig[response.finished]
<1> DEFINE n == Len(chunk)
           f == response
           Line1(i, o) == i < n /\ (i >= n - 1 => o[f.first_cr])
           A == [i \in 0 .. n |-> {o \in Memory : IF c.multiline
                                                  THEN EndFlags(chunk, i, o, f)
                                                  ELSE Line1(i, o)}]
<1>1. n \in Nat /\ n > 1 /\ (c.multiline => n > 4)
  BY SeqFacts DEF EndsDot, EndsLine
<1>2. f.first_cr \in Offset /\ f.finished \in Offset /\ f.first_cr # f.finished
      /\ OffsetsOf(f)
  BY Offsets DEF OffsetsOf
<1>3. /\ A \in [0 .. n -> SUBSET Memory]
      /\ \A i \in 0 .. n : A[i] = {o \in Memory : IF c.multiline
                                                  THEN EndFlags(chunk, i, o, f)
                                                  ELSE Line1(i, o)}
  <2> HIDE DEF n, f, Line1
  <2> QED
    OBVIOUS
<1> HIDE DEF A
<1>4. orig \in A[0]
  <2>1. Line1(0, orig)
    BY <1>1
  <2>2. c.multiline => EndFlags(chunk, 0, orig, f)
    <3>1. ~orig[f.finished]
      BY DEF Fresh
    <3>2. n > 4 => 0 < n /\ ~(0 >= n - 4) /\ ~(0 >= n - 3) /\ ~(0 >= n - 2)
                   /\ ~(0 >= n - 1)
      BY <1>1
    <3> QED
      BY <1>1, <3>1, <3>2 DEF EndFlags
  <2>3. 0 \in 0 .. n
    BY <1>1
  <2> HIDE DEF f, n, Line1
  <2> QED
    BY <1>3, <2>1, <2>2, <2>3
<1>5. ASSUME NEW i \in 1 .. n, NEW o \in A[i - 1]
      PROVE  Checked(c, o, chunk[i])[f.finished] \/ Checked(c, o, chunk[i]) \in A[i]
  <2>1. i - 1 \in 0 .. n /\ i \in 0 .. n /\ i - 1 \in Nat /\ (i - 1) + 1 = i
    BY <1>1
  <2>2. o \in Memory /\ IF c.multiline THEN EndFlags(chunk, i - 1, o, f)
                                       ELSE Line1(i - 1, o)
    <3> HIDE DEF f, n, Line1
    <3> QED
      BY <1>3, <2>1
  <2> DEFINE q == Told(o, c.multiline)
  <2>5. q \in Memory /\ IF c.multiline THEN EndFlags(chunk, i - 1, q, f)
                                       ELSE Line1(i - 1, q)
    <3>1. c.multiline \in BOOLEAN
      BY DEF Command
    <3>2. /\ q \in Memory
          /\ q[f.first_cr] = o[f.first_cr] /\ q[f.first_lf] = o[f.first_lf]
          /\ q[f.dot] = o[f.dot] /\ q[f.second_cr] = o[f.second_cr]
          /\ q[f.finished] = o[f.finished]
      BY <2>2, <3>1, ToldFlags
    <3> HIDE DEF f, n, q
    <3> QED
      BY <2>2, <3>2 DEF EndFlags
  <2>3. CASE c.multiline
    <3> DEFINE p == CheckMultiline(q, f, chunk[i])
    <3>1. Checked(c, o, chunk[i]) = p
      BY <2>3 DEF Checked, ResponseByte, Told
    <3>2. p[f.finished] \/ EndFlags(chunk, i, p, f)
      <4>1. EndFlags(chunk, i - 1, q, f) /\ EndsDot(chunk)
        BY <2>3, <2>5
      <4> HIDE DEF f
      <4> QED
        BY <1>2, <2>1, <2>5, <4>1, EndFound
    <3>3. p \in Memory
      BY <1>2, <2>5, CheckMultilineType DEF OffsetsOf
    <3> HIDE DEF p, q, f, n
    <3> QED
      BY <1>3, <2>1, <2>3, <3>1, <3>2, <3>3
  <2>4. CASE ~c.multiline
    <3> DEFINE p == CheckLine(q, f.first_cr, f.finished, chunk[i])
    <3>1. Checked(c, o, chunk[i]) = p
      BY <2>4 DEF Checked, ResponseByte, Told
    <3>2. p \in Memory
      BY <1>2, <2>5, CheckLineType
    <3>3. chunk[n - 1] = CR /\ chunk[n] = LF /\ CR # LF
      BY <2>4 DEF EndsLine, CR, LF
    <3>4. i - 1 >= n - 1 => q[f.first_cr]
      BY <2>4, <2>5
    <3> HIDE DEF f, n
    <3>5. CASE i = n
      <4>1. q[f.first_cr] /\ chunk[i] = LF
        BY <1>1, <3>3, <3>4, <3>5
      <4>2. p = [q EXCEPT ![f.finished] = q[f.first_cr]]
        BY <3>3, <4>1 DEF CheckLine
      <4>3. p[f.finished]
        BY <1>2, <2>5, <4>1, <4>2 DEF Memory
      <4> QED
        BY <3>1, <4>3
    <3>6. CASE i # n
      <4>1. i < n
        BY <1>1, <3>6
      <4>2. i >= n - 1 => p[f.first_cr]
        <5> SUFFICES ASSUME i >= n - 1
                     PROVE  p[f.first_cr]
          OBVIOUS
        <5>1. chunk[i] = CR
          <6>1. i = n - 1
            BY <1>1, <4>1
          <6> QED
            BY <3>3, <6>1
        <5>2. p = [q EXCEPT ![f.first_cr] = TRUE]
          BY <3>3, <5>1 DEF CheckLine
        <5> QED
          BY <1>2, <2>5, <5>2 DEF Memory
      <4>3. Line1(i, p)
        BY <4>1, <4>2
      <4> HIDE DEF Line1, p
      <4> QED
        BY <1>3, <2>1, <2>4, <3>1, <3>2, <4>3
    <3> QED
      BY <3>5, <3>6
  <2> QED
    BY <2>3, <2>4
<1>6. A[n] = {}
  <2>1. n \in 0 .. n /\ ~(n < n)
    BY <1>1
  <2>2. \A o \in Memory : ~EndFlags(chunk, n, o, f) /\ ~Line1(n, o)
    BY <2>1 DEF EndFlags
  <2> HIDE DEF Line1, n, f
  <2> QED
    BY <1>3, <2>1, <2>2
<1>7. Digest(chunk) \subseteq OnlyOne(c, n, A[n])
  BY <1>3, <1>4, <1>5, DigestOnlyOne
<1>8. end \in OnlyOne(c, n, {})
  BY <1>6, <1>7
<1> QED
  BY <1>8 DEF OnlyOne

(***************************************************************************)
(* The CAPA reply                                                          *)
(***************************************************************************)

LEMMA CapaStarts ==
  ASSUME CapaWhole, NEW r \in CapaReplies, NEW o, Fresh(o, capa)
  PROVE  r \in Seq(Byte) /\ CapaFlags(r, 0, o)
<1>1. r \in Seq(Byte) /\ Len(r) \in Nat
  BY SeqFacts, RelayAssumption
<1>2. 4 < Len(r)
  BY DEF CapaWhole, EndsDot
<1>3. /\ 0 < Len(r) /\ ~(0 >= Len(r) - 4) /\ ~(0 >= Len(r) - 3)
      /\ ~(0 >= Len(r) - 2) /\ ~(0 >= Len(r) - 1)
  BY <1>1, <1>2
<1>4. ~o[capa.first_lf] /\ ~o[capa.dot] /\ ~o[capa.second_cr] /\ ~o[capa.finished]
  BY DEF Fresh
<1> QED
  BY <1>1, <1>3, <1>4 DEF CapaFlags, EndFlags

\* Before the end, no LF follows a dot that capa_read took for the last line.
LEMMA CapaDots ==
  ASSUME CapaWhole, NEW r \in CapaReplies, NEW n \in Nat, NEW o \in Memory,
         CapaFlags(r, n, o), n + 1 < Len(r), r[n + 1] = LF
  PROVE  ~o[capa.dot] /\ ~o[capa.second_cr]
<1> SUFFICES ASSUME o[capa.dot] \/ o[capa.second_cr]
             PROVE  FALSE
  OBVIOUS
<1>1. r \in Seq(Byte) /\ Len(r) \in Nat /\ DOMAIN r = 1 .. Len(r)
  BY SeqFacts, RelayAssumption
<1>2. /\ \A k \in 1 .. n : r[k] \notin {CR, LF, DOT} => \E m \in k .. n : r[m] = LF
      /\ \E i \in 1 .. n : r[i] = DOT /\ \A m \in i .. n : r[m] # LF
  BY DEF CapaFlags
<1>3. PICK i \in 1 .. n : r[i] = DOT /\ \A m \in i .. n : r[m] # LF
  BY <1>2
<1>4. i \in 1 .. Len(r) - 3
  <2>1. /\ Len(r) > 4 /\ r[Len(r) - 2] = DOT /\ r[Len(r) - 1] = CR /\ CR # LF /\ DOT # LF
    BY DEF CapaWhole, EndsDot, CR, LF, DOT
  <2>2. n + 1 # Len(r) - 1 /\ n + 1 # Len(r) - 2
    BY <2>1
  <2>3. n + 1 <= Len(r) - 3
    <3>1. \A a, b \in Nat :
            a + 1 < b /\ a + 1 # b - 1 /\ a + 1 # b - 2 => a + 1 <= b - 3
      OBVIOUS
    <3> QED
      BY <1>1, <2>2, <3>1
  <2> QED
    BY <1>1, <2>3
<1>5. OnTextLine(r, i)
  BY <1>3, <1>4 DEF CapaWhole
<1>6. PICK k \in DOMAIN r :
        /\ r[k] \notin {CR, LF, DOT}
        /\ \A m \in DOMAIN r : r[m] = LF => (m < i /\ m < k) \/ (i < m /\ k < m)
  BY <1>5 DEF OnTextLine
<1>7. k \in 1 .. n
  <2>1. n + 1 \in DOMAIN r
    BY <1>1
  <2>2. k < n + 1
    BY <1>3, <1>6, <2>1
  <2> QED
    BY <1>1, <1>6, <2>2
<1>8. PICK m \in k .. n : r[m] = LF
  BY <1>2, <1>6, <1>7
<1>9. m \in DOMAIN r /\ ~(m < k)
  BY <1>1, <1>7, <1>8
<1>10. m \in i .. n
  BY <1>3, <1>6, <1>7, <1>8, <1>9
<1> QED
  BY <1>3, <1>8, <1>10

\* capa_read takes the reply to end with its last byte, and not before.
LEMMA CapaByte ==
  ASSUME CapaWhole, NEW r \in CapaReplies, NEW n \in Nat, NEW o \in Memory,
         CapaFlags(r, n, o)
  PROVE  LET p == CheckMultiline(o, capa, r[n + 1]) IN
         IF p[capa.finished] THEN n + 1 = Len(r) ELSE CapaFlags(r, n + 1, p)
<1> DEFINE c == r[n + 1]
           p == CheckMultiline(o, capa, c)
           Seen(k, m) == \E j \in k .. m : r[j] = LF
           Lone(m) == \E i \in 1 .. m : r[i] = DOT /\ \A j \in i .. m : r[j] # LF
<1>1. r \in Seq(Byte) /\ Len(r) \in Nat /\ EndsDot(r)
  BY SeqFacts, RelayAssumption DEF CapaWhole
<1>2. /\ n < Len(r) /\ ~o[capa.finished]
      /\ o[capa.first_lf] =>
           \A k \in 1 .. n : r[k] \notin {CR, LF, DOT} => Seen(k, n)
      /\ o[capa.dot] \/ o[capa.second_cr] => o[capa.first_lf] /\ Lone(n)
      /\ EndFlags(r, n, o, capa)
  BY DEF CapaFlags, EndFlags
<1>3. CR # LF /\ CR # DOT /\ LF # DOT
  BY DEF CR, LF, DOT
<1>4. /\ p \in Memory
      /\ c = CR => /\ p[capa.first_lf] = o[capa.first_lf] /\ p[capa.dot] = o[capa.dot]
                   /\ p[capa.finished] = o[capa.finished]
                   /\ p[capa.second_cr] = o[capa.dot]
                      \/ p[capa.second_cr] = o[capa.second_cr]
      /\ c = LF => /\ p[capa.dot] = o[capa.dot]
                   /\ p[capa.second_cr] = o[capa.second_cr]
                   /\ o[capa.first_lf] => p[capa.finished] = o[capa.second_cr]
                   /\ ~o[capa.first_lf] => p[capa.finished] = o[capa.finished]
      /\ c = DOT => /\ p[capa.first_lf] = o[capa.first_lf]
                    /\ p[capa.dot] = o[capa.first_lf]
                    /\ p[capa.second_cr] = o[capa.second_cr]
                    /\ p[capa.finished] = o[capa.finished]
      /\ c \notin {CR, LF, DOT} => /\ ~p[capa.first_lf] /\ ~p[capa.dot]
                                   /\ ~p[capa.second_cr]
                                   /\ p[capa.finished] = o[capa.finished]
  <2> HIDE DEF c
  <2> QED
    BY CheckedFlags, Offsets
<1>5. p[capa.finished] \/ EndFlags(r, n + 1, p, capa)
  BY <1>1, <1>2, EndFound, Offsets
<1>6. c = LF /\ n + 1 < Len(r) => ~o[capa.dot] /\ ~o[capa.second_cr]
  BY CapaDots
<1>7. n + 1 \in Nat /\ n + 1 <= Len(r) /\ 1 .. n + 1 = (1 .. n) \cup {n + 1}
  BY <1>1, <1>2
<1>8. ASSUME c # LF, Lone(n)
      PROVE  Lone(n + 1)
  <2>1. PICK i \in 1 .. n : r[i] = DOT /\ \A j \in i .. n : r[j] # LF
    BY <1>8
  <2>2. i \in 1 .. n + 1 /\ i .. n + 1 = (i .. n) \cup {n + 1}
    BY <1>7
  <2> QED
    BY <1>8, <2>1, <2>2
<1>9. ASSUME c = DOT
      PROVE  Lone(n + 1)
  <2>1. n + 1 \in 1 .. n + 1 /\ n + 1 .. n + 1 = {n + 1}
    BY <1>7
  <2> QED
    BY <1>3, <1>9, <2>1
<1>10. ASSUME NEW k \in 1 .. n, Seen(k, n)
       PROVE  Seen(k, n + 1)
  <2>1. k .. n \subseteq k .. n + 1
    OBVIOUS
  <2> QED
    BY <1>10, <2>1
<1>11. ASSUME c = LF, NEW k \in 1 .. n + 1
       PROVE  Seen(k, n + 1)
  <2>1. n + 1 \in k .. n + 1
    OBVIOUS
  <2> QED
    BY <1>11, <2>1
<1>12. CASE p[capa.finished]
  <2>1. c = LF /\ o[capa.second_cr]
    <3> HIDE DEF p, c
    <3> QED
      BY <1>2, <1>3, <1>4, <1>12
  <2>2. n + 1 = Len(r)
    BY <1>6, <1>7, <1>1, <2>1
  <2> QED
    BY <1>12, <2>2
<1>13. CASE ~p[capa.finished]
  <2>1. EndFlags(r, n + 1, p, capa)
    BY <1>5, <1>13
  <2>2. n + 1 < Len(r)
    BY <2>1 DEF EndFlags
  <2>3. ASSUME p[capa.first_lf], NEW k \in 1 .. n + 1, r[k] \notin {CR, LF, DOT}
        PROVE  Seen(k, n + 1)
    <3>1. CASE c = LF
      BY <1>11, <3>1
    <3>2. CASE c # LF
      <4>1. c \in {CR, DOT} /\ o[capa.first_lf]
        <5> HIDE DEF p, c
        <5> QED
          BY <1>4, <2>3, <3>2
      <4>2. k \in 1 .. n
        BY <1>7, <2>3, <4>1
      <4>3. Seen(k, n)
        BY <1>2, <2>3, <4>1, <4>2
      <4> QED
        BY <1>10, <4>2, <4>3
    <3> QED
      BY <3>1, <3>2
  <2>4. ASSUME p[capa.dot] \/ p[capa.second_cr]
        PROVE  p[capa.first_lf] /\ Lone(n + 1)
    <3> HIDE DEF p, c, Lone, Seen
    <3>1. CASE c = CR
      BY <1>2, <1>3, <1>4, <1>8, <2>4, <3>1
    <3>2. CASE c = LF
      BY <1>3, <1>4, <1>6, <2>2, <2>4, <3>2
    <3>3. CASE c = DOT
      BY <1>2, <1>3, <1>4, <1>9, <2>4, <3>3
    <3>4. CASE c \notin {CR, LF, DOT}
      BY <1>4, <2>4, <3>4
    <3> QED
      BY <3>1, <3>2, <3>3, <3>4
  <2>5. CapaFlags(r, n + 1, p)
    <3> HIDE DEF p, c
    <3> QED
      BY <1>13, <2>1, <2>3, <2>4 DEF CapaFlags
  <2> QED
    BY <1>13, <2>5
<1> QED
  BY <1>12, <1>13

(***************************************************************************)
(* What the client receives                                                *)
(***************************************************************************)

\* The hypothesis, with a CAPA reply that ends where capa_read takes it to end.
Whole == Orderly /\ CapaWhole

Flow == Relayed /\ (st \notin Over => FlowInv)

LEMMA FlowEnds ==
  ASSUME Flow, st' \in Over, UNCHANGED <<got, due>>
  PROVE  Flow'
BY DEF Flow, Relayed

LEMMA InitFlow == Init => Flow
<1> SUFFICES ASSUME Init
             PROVE  Flow
  OBVIOUS
<1>1. <<>> \in Seq(Byte) /\ Greeting \in Seq(Byte) /\ <<>> \o Greeting = Greeting
      /\ <<>> \o <<>> = <<>>
  BY RelayAssumption
<1>2. /\ st = "GREETINGS" /\ got = <<>> /\ due = Greeting /\ down = Greeting
      /\ rbuf.queue = <<>> /\ up = <<>> /\ inbox = <<>> /\ ~orig[capa.first_lf]
  BY DEF Init, Empty, capa, Offset
<1>3. IsPrefix(<<>>, Greeting)
  BY <1>1, PrefixOfJoin
<1>4. ~Pending
  BY <1>2 DEF Pending, Held
<1> QED
  BY <1>1, <1>2, <1>3, <1>4 DEF Flow, Relayed, FlowInv, CapaInv

\* When the client has all that the origin said, nothing else of it is anywhere.
LEMMA AllGot ==
  ASSUME TypeOK, FlowInv, st \in {"REQUEST", "RESPONSE"}, got = due
  PROVE  wbuf = Empty /\ wbuf.queue = <<>> /\ down = <<>>
<1>1. got \in Seq(Byte) /\ wbuf.queue \in Seq(Byte) /\ down \in Seq(Byte)
  BY Typed DEF Types, Sound, Buffer
<1>2. Len(got) \in Nat /\ Len(wbuf.queue) \in Nat /\ Len(down) \in Nat
  BY <1>1, SeqFacts
<1>3. Len(got) + Len(wbuf.queue) + Len(down) <= Len(got)
  BY DEF FlowInv
<1>4. Len(wbuf.queue) = 0 /\ Len(down) = 0
  BY <1>2, <1>3
<1>5. wbuf.queue = <<>> /\ down = <<>>
  BY <1>1, <1>4, SeqFacts
<1> QED
  BY <1>5 DEF FlowInv

LEMMA GreetingsReadFlow ==
  ASSUME TypeOK, Flow, greetings_read
  PROVE  Flow'
<1>1. /\ st = "GREETINGS" /\ st' = "GREETINGS"
      /\ UNCHANGED <<up, inbox, got, due>>
      /\ \/ UNCHANGED <<orig, down, rbuf>>
         \/ /\ down # <<>> /\ down' = Tail(down)
            /\ orig' = CheckLine(orig, cr_received, greet_finished, Head(down))
            /\ rbuf' = Keep(rbuf, <<Head(down)>>)
  BY DEF greetings_read, history
<1>2. /\ (got \o rbuf.queue) \o down = due /\ ~orig[capa.first_lf]
      /\ Pending => got = due
      /\ IsPrefix(got, due)
  BY <1>1 DEF Flow, Relayed, FlowInv, Over
<1>3. (got' \o rbuf'.queue) \o down' = due' /\ ~orig'[capa.first_lf]
  <2>1. CASE UNCHANGED <<orig, down, rbuf>>
    BY <1>1, <1>2, <2>1
  <2>2. CASE /\ down # <<>> /\ down' = Tail(down)
             /\ orig' = CheckLine(orig, cr_received, greet_finished, Head(down))
             /\ rbuf' = Keep(rbuf, <<Head(down)>>)
    <3>1. /\ got \in Seq(Byte) /\ rbuf.queue \in Seq(Byte) /\ down \in Seq(Byte)
          /\ orig \in Memory /\ <<Head(down)>> \in Seq(Byte)
      BY <2>2, ByteReceived, Typed DEF Types, Sound, Buffer
    <3>2. rbuf'.queue = rbuf.queue \o <<Head(down)>>
      BY <2>2 DEF Keep
    <3>3. got \o rbuf.queue \in Seq(Byte)
      BY <3>1, JoinIsSeq
    <3>4. got \o (rbuf.queue \o <<Head(down)>>) = (got \o rbuf.queue) \o <<Head(down)>>
      BY <3>1, Regrouped
    <3>5. ((got \o rbuf.queue) \o <<Head(down)>>) \o Tail(down)
            = (got \o rbuf.queue) \o down
      BY <2>2, <3>1, <3>3, ByteMoves
    <3>6. orig'[capa.first_lf] = orig[capa.first_lf]
      BY <2>2, <3>1 DEF CheckLine, cr_received, greet_finished, capa, Memory, Offset
    <3> QED
      BY <1>1, <1>2, <2>2, <3>2, <3>4, <3>5, <3>6
  <2> QED
    BY <1>1, <2>1, <2>2
<1>4. Pending' => got' = due'
  BY <1>1, <1>2 DEF Pending, Held
<1> QED
  BY <1>1, <1>2, <1>3, <1>4 DEF Flow, Relayed, FlowInv, CapaInv

LEMMA GreetingsWriteFlow ==
  ASSUME TypeOK, LineInv, Flow, greetings_write
  PROVE  Flow'
<1>1. st = "GREETINGS" /\ UNCHANGED <<up, down, inbox, due>>
  BY DEF greetings_write, peers
<1>2. /\ (got \o rbuf.queue) \o down = due /\ ~orig[capa.first_lf]
      /\ Pending => got = due
      /\ IsPrefix(got, due)
      /\ orig[greet_finished] => down = <<>>
  BY <1>1 DEF Flow, Relayed, FlowInv, Over, LineInv, StartInv
<1>3. /\ got \in Seq(Byte) /\ rbuf.queue \in Seq(Byte) /\ down \in Seq(Byte)
      /\ due \in Seq(Byte) /\ Sound(rbuf)
  BY Typed DEF Types, Sound, Buffer
<1>4. CASE UNCHANGED <<st, buffers, orig, got>>
  <2>1. Pending' => got' = due'
    BY <1>1, <1>2, <1>4 DEF Pending, Held
  <2> QED
    BY <1>1, <1>2, <1>4, <2>1 DEF Flow, Relayed, FlowInv, CapaInv, buffers
<1>5. ASSUME NEW n \in Accepted(rbuf.queue),
             got' = got \o SubSeq(rbuf.queue, 1, n),
             rbuf' = Drop(rbuf, n),
             \/ st' = "CAPA" /\ armed' = "origin_w" /\ capa_init /\ orig[greet_finished]
             \/ UNCHANGED <<st, orig>>
      PROVE  Flow'
  <2> DEFINE s == SubSeq(rbuf.queue, 1, n)
             q == Drop(rbuf, n).queue
  <2>1. /\ s \in Seq(Byte) /\ q \in Seq(Byte) /\ s \o q = rbuf.queue /\ rbuf.queue # <<>>
    BY <1>3, SentAndLeft
  <2> HIDE DEF s, q
  <2>2. /\ got' = got \o s /\ rbuf'.queue = q
    BY <1>5 DEF s, q
  <2>3. got' \o rbuf'.queue = got \o rbuf.queue
    <3>1. (got \o s) \o q = got \o (s \o q)
      <4>1. got \in Seq(Byte) /\ s \in Seq(Byte) /\ q \in Seq(Byte)
        BY <1>3, <2>1
      <4> QED
        BY <4>1, Regrouped
    <3> QED
      BY <2>1, <2>2, <3>1
  <2>4. IsPrefix(got', due') /\ got' \in Seq(Byte)
    <3>1. got' \in Seq(Byte) /\ q \o down \in Seq(Byte)
      BY <1>3, <2>1, <2>2, JoinIsSeq
    <3>2. due = got' \o (q \o down)
      <4>1. (got' \o q) \o down = got' \o (q \o down)
        <5>1. got' \in Seq(Byte) /\ q \in Seq(Byte) /\ down \in Seq(Byte)
          BY <1>3, <2>1, <3>1
        <5> QED
          BY <5>1, Regrouped
      <4> QED
        BY <1>2, <2>2, <2>3, <4>1
    <3> QED
      BY <1>1, <3>1, <3>2, PrefixOfJoin
  <2>5. ~Pending
    <3>1. got # due
      <4>1. Len(due) = Len(got) + Len(rbuf.queue) + Len(down)
        BY <1>2, <1>3, JoinIsSeq
      <4>2. Len(rbuf.queue) # 0 /\ Len(rbuf.queue) \in Nat /\ Len(down) \in Nat
            /\ Len(got) \in Nat
        BY <1>3, <2>1, SeqFacts
      <4> QED
        BY <4>1, <4>2
    <3> QED
      BY <1>2, <3>1
  <2>6. ~Pending'
    BY <1>1, <1>5, <2>5 DEF Pending, Held
  <2>7. CASE st' = "CAPA" /\ armed' = "origin_w" /\ capa_init /\ orig[greet_finished]
    <3>1. wbuf' = Empty /\ Fresh(orig', capa)
      <4>1. orig \in Memory
        BY Typed DEF Types
      <4> QED
        BY <1>2, <2>7, <4>1 DEF capa_init, capa, Fresh, Memory, Offset
    <3> QED
      BY <2>4, <2>6, <2>7, <3>1 DEF Flow, Relayed, FlowInv, CapaInv
  <2>8. CASE UNCHANGED <<st, orig>>
    BY <1>1, <1>2, <2>3, <2>4, <2>6, <2>8 DEF Flow, Relayed, FlowInv, CapaInv
  <2> QED
    BY <1>5, <2>7, <2>8
<1> QED
  BY <1>4, <1>5 DEF greetings_write

LEMMA CapaSendFlow ==
  ASSUME TypeOK, Flow, capa_send
  PROVE  Flow'
<1>1. /\ st = "CAPA" /\ armed = "origin_w" /\ inbox' = inbox \o <<CAPA, CR, LF>>
      /\ UNCHANGED <<st, wbuf, orig, up, got, due>>
  BY DEF capa_send, buffers, history
<1>2. wbuf = Empty /\ Fresh(orig, capa) /\ (Pending => got = due) /\ IsPrefix(got, due)
  BY <1>1 DEF Flow, Relayed, FlowInv, CapaInv, Over
<1>3. inbox' # <<>>
  <2> DEFINE s == <<CAPA, CR, LF>>
  <2>1. s \in Seq(Byte) /\ Len(s) = 3
    <3>1. CAPA \in Byte /\ CR \in Byte /\ LF \in Byte
      BY RelayAssumption DEF Byte
    <3> QED
      BY <3>1
  <2>2. inbox \in Seq(Byte)
    BY Typed DEF Types
  <2> HIDE DEF s
  <2>3. inbox \o s \in Seq(Byte) /\ Len(inbox \o s) = Len(inbox) + Len(s)
    BY <2>1, <2>2, JoinIsSeq
  <2>4. Len(inbox \o s) # 0
    BY <2>1, <2>2, <2>3, SeqFacts
  <2> QED
    BY <1>1, <2>3, <2>4, SeqFacts DEF s
<1>4. Fresh(orig', capa)
  BY <1>1, <1>2 DEF Fresh
<1>5. Pending' => got' = due'
  BY <1>1, <1>2 DEF Pending, Held
<1> QED
  BY <1>1, <1>2, <1>3, <1>4, <1>5 DEF Flow, Relayed, FlowInv, CapaInv

\* capa_read takes the reply byte by byte, to its last.
LEMMA CapaReadFlow ==
  ASSUME TypeOK, LineInv, Flow, CapaWhole, capa_read
  PROVE  Flow'
<1>1. CASE ~CanWrite(wbuf)
  <2>1. Crash
    BY <1>1 DEF capa_read
  <2> QED
    BY <2>1, FlowEnds DEF Crash, EndsAs, Over, history
<1>2. CASE CanWrite(wbuf)
  <2> DEFINE p == CheckMultiline(orig, capa, Head(down))
             q == wbuf.queue \o <<Head(down)>>
  <2>1. /\ st = "CAPA" /\ armed = "origin_r" /\ down # <<>> /\ down' = Tail(down)
        /\ \/ /\ p[capa.finished]
              /\ wbuf' = Empty /\ armed' = "client_r" /\ st' = "REQUEST"
           \/ ~p[capa.finished] /\ orig' = p /\ wbuf'.queue = q /\ UNCHANGED <<armed, st>>
        /\ UNCHANGED <<up, inbox, got, due>>
    BY <1>2 DEF capa_read, history, Keep
  <2>2. inbox = <<>> /\ (Pending => got = due) /\ IsPrefix(got, due)
    BY <2>1 DEF LineInv, StartInv, Flow, Relayed, FlowInv, Over
  <2>3. PICK r \in CapaReplies : /\ wbuf.queue \o down = r
                                 /\ CapaFlags(r, Len(wbuf.queue), orig)
    BY <2>1, <2>2 DEF Flow, FlowInv, CapaInv, Over
  <2> DEFINE n == Len(wbuf.queue)
  <2>4. /\ down \in Seq(Byte) /\ wbuf.queue \in Seq(Byte) /\ orig \in Memory
        /\ got \in Seq(Byte) /\ due \in Seq(Byte)
    BY Typed DEF Types, Sound, Buffer
  <2>5. n \in Nat /\ Len(down) \in Nat \ {0} /\ Head(down) = down[1]
    BY <2>1, <2>4, SeqFacts, FirstAndRest
  <2>6. r[n + 1] = Head(down) /\ Len(r) = n + Len(down)
    <3>1. Len(r) = n + Len(down)
          /\ \A i \in 1 .. n + Len(down) :
               r[i] = IF i <= n THEN wbuf.queue[i] ELSE down[i - n]
      BY <2>3, <2>4, JoinIsSeq
    <3>2. n + 1 \in 1 .. n + Len(down) /\ ~(n + 1 <= n) /\ (n + 1) - n = 1
      BY <2>5
    <3> QED
      BY <2>5, <3>1, <3>2
  <2> HIDE DEF n
  <2>7. IF p[capa.finished] THEN n + 1 = Len(r) ELSE CapaFlags(r, n + 1, p)
    <3>1. CapaFlags(r, n, orig)
      BY <2>3 DEF n
    <3> QED
      BY <2>4, <2>5, <2>6, <3>1, CapaByte
  <2>8. /\ q \in Seq(Byte) /\ Len(q) = n + 1
        /\ q \o Tail(down) = r
    BY <2>1, <2>3, <2>4, ByteMoves DEF n
  <2> HIDE DEF p, q
  <2>9. Pending' => got' = due'
    BY <2>1, <2>2 DEF Pending, Held
  <2>10. CASE p[capa.finished]
    <3>1. wbuf' = Empty /\ wbuf'.queue = <<>> /\ armed' = "client_r" /\ st' = "REQUEST"
      BY <2>1, <2>10 DEF Empty
    <3>2. down' = <<>>
      <4>1. Len(down) = 1
        <5>1. n + 1 = n + Len(down)
          BY <2>6, <2>7, <2>10
        <5>2. \A a, b \in Nat : a + 1 = a + b => b = 1
          OBVIOUS
        <5> QED
          BY <2>5, <5>1, <5>2
      <4>2. Tail(down) \in Seq(Byte) /\ Len(Tail(down)) = Len(down) - 1
        BY <2>1, <2>4, FirstAndRest
      <4>3. Len(Tail(down)) = 0
        BY <4>1, <4>2
      <4> QED
        BY <2>1, <4>2, <4>3, SeqFacts
    <3>3. IsPrefix(got \o <<>>, due)
      BY <2>2, <2>4, SeqFacts
    <3>4. Len(got) + Len(<<>>) + Len(<<>>) <= Len(due)
      <4>1. Len(got) <= Len(due) /\ Len(got) \in Nat /\ Len(<<>>) = 0
        BY <2>2, <2>4, PrefixBegins, SeqFacts
      <4> QED
        BY <4>1
    <3> QED
      BY <2>1, <2>2, <2>9, <3>1, <3>2, <3>3, <3>4 DEF Flow, Relayed, FlowInv, CapaInv
  <2>11. CASE ~p[capa.finished]
    <3>1. wbuf'.queue = q /\ orig' = p /\ armed' = "origin_r" /\ st' = "CAPA"
      BY <2>1, <2>11
    <3>2. wbuf'.queue \o down' = r /\ CapaFlags(r, Len(wbuf'.queue), orig')
      BY <2>1, <2>7, <2>8, <2>11, <3>1
    <3>3. CapaInv'
      BY <2>1, <2>2, <3>1, <3>2 DEF CapaInv
    <3> QED
      BY <2>1, <2>2, <2>9, <3>1, <3>3 DEF Flow, Relayed, FlowInv
  <2> QED
    BY <2>10, <2>11
<1> QED
  BY <1>1, <1>2

LEMMA RequestReadFlow ==
  ASSUME TypeOK, LineInv, Flow, Orderly, request_read
  PROVE  Flow'
<1>1. /\ st = "REQUEST" /\ up \in Lines
      /\ UNCHANGED <<st, wbuf, down, got, due>>
  BY OneRead DEF buffers, history
<1>2. FlowInv /\ Relayed
  BY <1>1 DEF Flow, Over
<1>3. got = due
  BY <1>1, <1>2, ProperLine DEF FlowInv, Pending, Orderly
<1> QED
  BY <1>1, <1>2, <1>3 DEF Flow, FlowInv, CapaInv, Relayed

\* The flags are fresh and the buffer is empty when a line is passed on.
LEMMA RequestSendFlow ==
  ASSUME TypeOK, LineInv, Flow, Orderly, request_send
  PROVE  Flow'
<1>1. /\ Held /\ st = "REQUEST" /\ st' = "RESPONSE" /\ armed' = "origin_r"
      /\ Len(cmds) = 1 /\ response_init
      /\ UNCHANGED <<wbuf, cmds, down, due, got>>
  BY OneSent DEF buffers
<1>2. FlowInv /\ Relayed
  BY <1>1 DEF Flow, Over
<1>3. got = due
  BY <1>1, <1>2 DEF FlowInv, Pending
<1>4. wbuf = Empty /\ wbuf.queue = <<>> /\ down = <<>>
  BY <1>1, <1>2, <1>3, AllGot
<1>5. got \o down = due
  BY <1>3, <1>4, SeqFacts, Typed DEF Types
<1>6. Fresh(orig', response)
  <2>1. orig \in Memory
    BY Typed DEF Types
  <2> QED
    BY <1>1, <2>1 DEF response_init, Fresh, Memory, response, Offset
<1>7. /\ IsPrefix(got' \o wbuf'.queue, due')
      /\ Len(got') + Len(wbuf'.queue) + Len(down') <= Len(due')
  BY <1>1, <1>2 DEF FlowInv
<1>8. /\ st' = "RESPONSE" /\ armed' = "origin_r" /\ got' = due'
      /\ wbuf' = Empty /\ got' \o down' = due' /\ IsPrefix(got', due')
  BY <1>1, <1>2, <1>3, <1>4, <1>5 DEF Relayed
<1>9. Len(cmds') <= 1
  <2>1. cmds' = cmds
    BY <1>1
  <2>2. Len(cmds') = 1 /\ 1 <= 1
    BY <1>1, <2>1
  <2> QED
    BY <2>2
<1> QED
  BY <1>6, <1>7, <1>8, <1>9 DEF Flow, FlowInv, CapaInv, Relayed

\* The one command of the queue is at its head.
LEMMA OneCommand ==
  ASSUME TypeOK, Len(cmds) <= 1, cmds # <<>>
  PROVE  cmds[1] \in Command /\ cmds = <<cmds[1]>> /\ Len(cmds) = 1
<1>1. cmds \in Seq(Command) /\ Len(cmds) \in Nat /\ Len(cmds) # 0
  BY SeqFacts, Typed DEF Types
<1>2. Len(cmds) = 1 /\ 1 \in 1 .. Len(cmds)
  <2> DEFINE n == Len(cmds)
  <2>1. n \in Nat /\ n # 0 /\ n <= 1
    BY <1>1
  <2> HIDE DEF n
  <2>2. n = 1 /\ 1 \in 1 .. n
    BY <2>1
  <2> QED
    BY <2>2 DEF n
<1>3. cmds[1] \in Command
  BY <1>1, <1>2, ElementOfSeq
<1> DEFINE s == <<cmds[1]>>
<1>4. s \in Seq(Command) /\ Len(s) = 1 /\ s[1] = cmds[1]
  BY <1>3
<1> HIDE DEF s
<1>5. cmds = s
  <2>1. \A i \in 1 .. Len(cmds) : cmds[i] = s[i]
    BY <1>2, <1>4
  <2> QED
    BY <1>1, <1>2, <1>4, <2>1, SeqEqual
<1> QED
  BY <1>2, <1>3, <1>5 DEF s

\* response_read keeps a part of the chunk for the one command, and nothing without one.
LEMMA ResponseReadFlow ==
  ASSUME TypeOK, Flow, response_read
  PROVE  Flow'
<1>1. st = "RESPONSE" /\ UNCHANGED <<got, due>>
  BY DEF response_read, Crash, EndsAs, history
<1>2. FlowInv /\ IsPrefix(got, due)
  BY <1>1 DEF Flow, Relayed, Over
<1>3. /\ IsPrefix(got \o wbuf.queue, due)
      /\ Len(got) + Len(wbuf.queue) + Len(down) <= Len(due)
      /\ wbuf.queue = <<>> => wbuf = Empty
      /\ Len(cmds) <= 1
      /\ cmds # <<>> => wbuf = Empty /\ got \o down = due
  BY <1>1, <1>2 DEF FlowInv
<1>4. /\ got \in Seq(Byte) /\ wbuf.queue \in Seq(Byte) /\ down \in Seq(Byte)
      /\ due \in Seq(Byte) /\ orig \in Memory /\ Sound(wbuf)
  BY Typed DEF Types, Sound, Buffer
<1>5. CASE ~CanWrite(wbuf)
  <2>1. cmds = <<>>
    <3>1. CanWrite(Empty)
      BY RelayAssumption DEF CanWrite, Empty
    <3> QED
      BY <1>3, <1>5, <3>1
  <2>2. UNCHANGED <<st, wbuf, cmds, up, down, inbox>>
    BY <1>5 DEF response_read, buffers, peers
  <2>3. Pending' => got' = due'
    BY <1>1, <1>2, <2>2 DEF FlowInv, Pending, Held
  <2>4. Len(cmds') <= 1 /\ cmds' = <<>>
    <3>1. Len(<<>>) = 0 /\ 0 <= 1
      OBVIOUS
    <3> QED
      BY <2>1, <2>2, <3>1
  <2> QED
    BY <1>1, <1>2, <1>3, <2>2, <2>3, <2>4 DEF Flow, Relayed, FlowInv, CapaInv
<1>6. CASE CanWrite(wbuf)
  <2>1. PICK chunk \in Received("origin", down, Room(wbuf)) : \E end \in Digest(chunk) :
                                                    Respond(chunk, end)
    BY <1>6 DEF response_read, Respond
  <2>2. PICK end \in Digest(chunk) : Respond(chunk, end)
    BY <2>1
  <2>3. CASE end.adv > Room(wbuf)
    <3>1. Crash
      BY <2>2, <2>3 DEF Respond
    <3> QED
      BY <3>1, FlowEnds DEF Crash, EndsAs, Over, history
  <2>4. CASE ~(end.adv > Room(wbuf))
    <3> DEFINE kept == SubSeq(chunk \o Junk(Size), 1, end.adv)
    <3>1. /\ down' = After(down, chunk) /\ cmds' = end.cmds /\ wbuf' = Keep(wbuf, kept)
          /\ UNCHANGED <<st, up, inbox>>
      BY <2>2, <2>4 DEF Respond
    <3>2. Room(wbuf) \in Nat
      BY <1>4, RoomType
    <3>3. /\ Len(chunk) \in 1 .. Len(down) /\ chunk = SubSeq(down, 1, Len(chunk))
          /\ After(down, chunk) \in Seq(Byte)
          /\ Len(After(down, chunk)) = Len(down) - Len(chunk)
          /\ chunk \in Seq(Byte)
      BY <1>4, <3>2, ReceivedPart, ReceivedType
    <3>4. end.cmds = <<>> /\ end.adv \in 0 .. Len(chunk) /\ (cmds = <<>> => end.adv = 0)
      <4>1. CASE cmds = <<>>
        <5>1. end.cmds = <<>> /\ end.adv = 0 /\ Len(chunk) \in Nat
          BY <1>4, <2>2, <3>3, <4>1, DigestNone, SeqFacts
        <5> QED
          BY <5>1
      <4>2. CASE cmds # <<>>
        <5>1. cmds[1] \in Command /\ cmds = <<cmds[1]>>
          BY <1>3, <4>2, OneCommand
        <5> QED
          BY <1>4, <2>2, <3>3, <4>2, <5>1, DigestOne
      <4> QED
        BY <4>1, <4>2
    <3> DEFINE m == Len(chunk)
               adv == end.adv
               part == SubSeq(down, 1, adv)
               rest == SubSeq(down, adv + 1, Len(down))
    <3>5. kept = part
      <4>1. SubSeq(SubSeq(down, 1, m) \o Junk(Size), 1, adv) = part
        BY <1>4, <3>3, <3>4, KeptPart
      <4> QED
        BY <3>3, <4>1
    <3>6. /\ part \in Seq(Byte) /\ Len(part) = adv
          /\ rest \in Seq(Byte) /\ part \o rest = down
      <4>1. adv \in 0 .. Len(down)
        BY <3>3, <3>4
      <4> QED
        BY <1>4, <4>1, CutInTwo
    <3>7. Len(down') = Len(down) - m /\ m \in Nat /\ adv \in Nat /\ adv <= m
          /\ Len(down) \in Nat
      BY <1>4, <3>1, <3>3, <3>4, SeqFacts
    <3> HIDE DEF kept, part, rest, m, adv
    <3>8. Pending' => got' = due'
      BY <1>1, <1>2, <3>1 DEF FlowInv, Pending, Held
    <3>9. Len(cmds') <= 1 /\ cmds' = <<>>
      <4>1. Len(<<>>) = 0 /\ 0 <= 1
        OBVIOUS
      <4> QED
        BY <3>1, <3>4, <4>1
    <3>10. /\ IsPrefix(got' \o wbuf'.queue, due')
           /\ Len(got') + Len(wbuf'.queue) + Len(down') <= Len(due')
           /\ wbuf'.queue = <<>> => wbuf' = Empty
      <4>1. wbuf' = [queue |-> wbuf.queue \o part, write |-> wbuf.write + adv]
        BY <3>1, <3>5, <3>6 DEF Keep
      <4>2. CASE cmds = <<>>
        <5>1. adv = 0
          BY <3>4, <4>2 DEF adv
        <5>2. part = <<>>
          BY <3>6, <5>1, SeqFacts
        <5>3. wbuf.queue \o <<>> = wbuf.queue
          BY <1>4, SeqFacts
        <5>4. wbuf.write + 0 = wbuf.write /\ wbuf = [queue |-> wbuf.queue,
                                                     write |-> wbuf.write]
          BY <1>4 DEF Sound, Buffer
        <5>5. wbuf' = wbuf
          BY <4>1, <5>1, <5>2, <5>3, <5>4
        <5>6. Len(got) \in Nat /\ Len(wbuf.queue) \in Nat /\ Len(due) \in Nat
          BY <1>4, SeqFacts
        <5>7. Len(down') <= Len(down) /\ Len(down') \in Int
          BY <3>7
        <5>8. Len(got) + Len(wbuf.queue) + Len(down') <= Len(due)
          BY <1>3, <3>7, <5>6, <5>7
        <5> QED
          BY <1>1, <1>3, <5>5, <5>8
      <4>3. CASE cmds # <<>>
        <5>1. wbuf = Empty /\ got \o down = due
          BY <1>3, <4>3
        <5>2. wbuf'.queue = part /\ wbuf'.write = adv
          <6>1. wbuf.queue = <<>> /\ wbuf.write = 0
            BY <5>1 DEF Empty
          <6>2. <<>> \o part = part /\ 0 + adv = adv
            BY <3>6, <3>7, SeqFacts
          <6> QED
            BY <4>1, <6>1, <6>2
        <5>3. IsPrefix(got \o part, due)
          <6>1. (got \o part) \o rest = due
            <7>1. got \in Seq(Byte) /\ part \in Seq(Byte) /\ rest \in Seq(Byte)
              BY <1>4, <3>6
            <7>2. (got \o part) \o rest = got \o (part \o rest)
              BY <7>1, Regrouped
            <7> QED
              BY <3>6, <5>1, <7>2
          <6>2. got \o part \in Seq(Byte)
            BY <1>4, <3>6, JoinIsSeq
          <6> QED
            BY <3>6, <6>1, <6>2, PrefixOfJoin
        <5>4. Len(got) + Len(part) + Len(down') <= Len(due)
          <6>1. Len(due) = Len(got) + Len(down) /\ Len(got) \in Nat
            BY <1>4, <5>1, JoinIsSeq, SeqFacts
          <6>2. Len(part) = adv
            BY <3>6
          <6> QED
            BY <3>7, <6>1, <6>2
        <5>5. part = <<>> => wbuf' = Empty
          <6> SUFFICES ASSUME part = <<>>
                       PROVE  wbuf' = Empty
            OBVIOUS
          <6>1. adv = 0
            BY <3>6
          <6> QED
            BY <4>1, <5>2, <6>1 DEF Empty
        <5> QED
          BY <1>1, <5>2, <5>3, <5>4, <5>5
      <4> QED
        BY <4>2, <4>3
    <3>11. st' = "RESPONSE" /\ IsPrefix(got', due')
      BY <1>1, <1>2, <3>1
    <3> QED
      BY <3>8, <3>9, <3>10, <3>11 DEF Flow, Relayed, FlowInv, CapaInv
  <2> QED
    BY <2>3, <2>4
<1> QED
  BY <1>5, <1>6

LEMMA ResponseSendFlow ==
  ASSUME TypeOK, Flow, response_send
  PROVE  Flow'
<1>1. /\ st = "RESPONSE" /\ armed = "client_w"
      /\ UNCHANGED <<up, down, inbox, due>>
  BY DEF response_send, peers
<1>2. FlowInv /\ IsPrefix(got, due)
  BY <1>1 DEF Flow, Relayed, Over
<1>3. /\ IsPrefix(got \o wbuf.queue, due)
      /\ Len(got) + Len(wbuf.queue) + Len(down) <= Len(due)
      /\ cmds = <<>>
  BY <1>1, <1>2 DEF FlowInv
<1>4. /\ got \in Seq(Byte) /\ wbuf.queue \in Seq(Byte) /\ down \in Seq(Byte)
      /\ due \in Seq(Byte) /\ Sound(wbuf)
  BY Typed DEF Types, Sound, Buffer
<1>5. CASE st' = "ERROR" /\ UNCHANGED got
  BY <1>1, <1>5, FlowEnds DEF Over
<1>6. ASSUME NEW n \in Accepted(wbuf.queue),
             got' = got \o SubSeq(wbuf.queue, 1, n),
             wbuf' = Drop(wbuf, n),
             \/ st' = "REQUEST" /\ armed' = "client_r" /\ request_init
             \/ armed' = "origin_r" /\ UNCHANGED <<st, rbuf, req, cmds>>
      PROVE  Flow'
  <2> DEFINE s == SubSeq(wbuf.queue, 1, n)
             q == Drop(wbuf, n).queue
  <2>1. /\ s \in Seq(Byte) /\ q \in Seq(Byte) /\ s \o q = wbuf.queue /\ wbuf.queue # <<>>
        /\ Len(s) + Len(q) = Len(wbuf.queue)
        /\ q = <<>> => Drop(wbuf, n) = Empty
    BY <1>4, SentAndLeft
  <2> HIDE DEF s, q
  <2>2. got' = got \o s /\ wbuf'.queue = q /\ (q = <<>> => wbuf' = Empty)
    BY <1>6, <2>1 DEF s, q
  <2>3. got' \in Seq(Byte) /\ Len(got') = Len(got) + Len(s)
        /\ got' \o q = got \o wbuf.queue
    <3>1. (got \o s) \o q = got \o (s \o q)
      <4>1. got \in Seq(Byte) /\ s \in Seq(Byte) /\ q \in Seq(Byte)
        BY <1>4, <2>1
      <4> QED
        BY <4>1, Regrouped
    <3>2. got \o s \in Seq(Byte) /\ Len(got \o s) = Len(got) + Len(s)
      BY <1>4, <2>1, JoinIsSeq
    <3> QED
      BY <2>1, <2>2, <3>1, <3>2
  <2>4. IsPrefix(got', due')
    <3>1. IsPrefix(got' \o q, due)
      BY <1>3, <2>3
    <3> QED
      BY <1>1, <1>4, <2>1, <2>3, <3>1, PrefixShortened
  <2>5. Len(got') + Len(q) + Len(down') <= Len(due')
    <3>1. /\ Len(got) \in Nat /\ Len(s) \in Nat /\ Len(q) \in Nat /\ Len(down) \in Nat
          /\ Len(due) \in Nat
      BY <1>4, <2>1, SeqFacts
    <3>2. Len(down') = Len(down) /\ Len(due') = Len(due)
      BY <1>1
    <3> QED
      BY <1>3, <2>1, <2>3, <3>1, <3>2
  <2>6. ~Pending
    <3>1. got = due => wbuf.queue = <<>>
      BY <1>1, <1>2, AllGot
    <3> QED
      BY <1>2, <2>1, <3>1 DEF FlowInv
  <2>7. st' \in {"REQUEST", "RESPONSE"} /\ (st' = "REQUEST" => armed' = "client_r")
    BY <1>1, <1>6
  <2>8. ~Pending'
    BY <1>1, <2>6, <2>7 DEF Pending, Held
  <2>9. cmds' = <<>> /\ Len(cmds') <= 1
    <3>1. cmds' = <<>>
      BY <1>3, <1>6, RequestInitTypes
    <3>2. Len(<<>>) = 0 /\ 0 <= 1
      OBVIOUS
    <3> QED
      BY <3>1, <3>2
  <2>10. IsPrefix(got' \o wbuf'.queue, due')
    BY <1>1, <1>3, <2>2, <2>3
  <2> QED
    BY <2>2, <2>4, <2>5, <2>7, <2>8, <2>9, <2>10 DEF Flow, Relayed, FlowInv, CapaInv
<1> QED
  BY <1>1, <1>5, <1>6 DEF response_send

LEMMA FailsFlow ==
  ASSUME Flow, Fails
  PROVE  Flow'
<1>1. st' \in Over /\ UNCHANGED <<got, due>>
  BY DEF Fails, RecvFails, SendFails, EndsAs, history, Over
<1> QED
  BY <1>1, FlowEnds

LEMMA ClientSendsFlow ==
  ASSUME TypeOK, Flow, Orderly, NEW l \in Lines, ClientSends(l)
  PROVE  Flow'
<1>1. /\ got = due
      /\ UNCHANGED <<st, armed, rbuf, wbuf, cmds, orig, down, inbox, due, got>>
  BY DEF ClientSends, CaughtUp, Orderly, buffers
<1>2. IsPrefix(got', due')
  BY <1>1 DEF Flow, Relayed
<1>3. ASSUME st' \notin Over
      PROVE  FlowInv'
  <2>1. FlowInv
    BY <1>1, <1>3 DEF Flow
  <2>2. CapaInv'
    BY <1>1, <2>1 DEF FlowInv, CapaInv
  <2> QED
    BY <1>1, <2>1, <2>2 DEF FlowInv
<1> QED
  BY <1>2, <1>3 DEF Flow, Relayed

\* The origin speaks to a client that has heard all of it before.
LEMMA OriginAnswersFlow ==
  ASSUME TypeOK, LineInv, Flow, Whole, OriginAnswers
  PROVE  Flow'
<1>1. /\ HasLine(inbox) /\ inbox' = After(inbox, Line(inbox))
      /\ UNCHANGED <<st, armed, rbuf, wbuf, cmds, orig, up, got>>
  BY DEF OriginAnswers, buffers
<1>2. inbox # <<>>
  BY <1>1 DEF HasLine, ToSet
<1>3. st # "GREETINGS"
  BY <1>2 DEF LineInv, StartInv
<1>4. /\ got \in Seq(Byte) /\ due \in Seq(Byte) /\ down \in Seq(Byte)
      /\ IsPrefix(got, due)
  BY Typed DEF Types, Flow, Relayed
<1>5. CASE st = "CAPA"
  <2>1. PICK reply \in CapaReplies : down' = down \o reply
    BY <1>5 DEF OriginAnswers
  <2>2. UNCHANGED due
    BY <1>5 DEF OriginAnswers
  <2>3. inbox = <<CAPA, CR, LF>> /\ armed # "origin_w" /\ down = <<>>
    BY <1>2, <1>5 DEF LineInv, StartInv
  <2>4. wbuf = Empty /\ Fresh(orig, capa) /\ (Pending => got = due)
    BY <1>2, <1>5 DEF Flow, FlowInv, CapaInv, Over
  <2>5. inbox' = <<>>
    BY <1>1, <2>3, CapaLine
  <2>6. reply \in Seq(Byte) /\ CapaFlags(reply, 0, orig)
    BY <2>4, CapaStarts DEF Whole
  <2>7. wbuf.queue = <<>> /\ Len(<<>>) = 0 /\ <<>> \o reply = reply
    BY <2>4, <2>6, SeqFacts DEF Empty
  <2>8. wbuf'.queue \o down' = reply /\ CapaFlags(reply, Len(wbuf'.queue), orig')
    BY <1>1, <2>1, <2>3, <2>6, <2>7
  <2>9. CapaInv'
    BY <1>1, <2>3, <2>5, <2>8 DEF CapaInv
  <2>10. Pending' => got' = due'
    BY <1>1, <1>5, <2>2, <2>4 DEF Pending, Held
  <2> QED
    BY <1>1, <1>4, <1>5, <2>2, <2>9, <2>10 DEF Flow, Relayed, FlowInv
<1>6. CASE st # "CAPA"
  <2>1. PICK reply \in Answer(Line(inbox)) :
          down' = down \o reply /\ due' = due \o reply
    BY <1>6 DEF OriginAnswers, Answer
  <2>2. reply \in Seq(Byte)
    BY AnswerType
  <2>3. due' \in Seq(Byte) /\ IsPrefix(got', due')
        /\ Len(due') = Len(due) + Len(reply)
    BY <1>1, <1>4, <2>1, <2>2, PrefixGrows, JoinIsSeq
  <2>4. CASE st \in Over
    BY <1>1, <2>3, <2>4 DEF Flow, Relayed
  <2>5. CASE st \notin Over
    <3>1. st \in {"REQUEST", "RESPONSE"}
      BY <1>3, <1>6, <2>5, Typed DEF Types, Over
    <3>2. FlowInv /\ PlaceInv
      BY <2>5 DEF Flow, LineInv, Over
    <3>3. Pending /\ got = due
      BY <1>2, <1>6, <3>2 DEF Pending, FlowInv
    <3>4. wbuf = Empty /\ wbuf.queue = <<>> /\ down = <<>>
      BY <3>1, <3>2, <3>3, AllGot
    <3>5. inbox' = <<>> /\ up = <<>> /\ ~Held
      <4>1. inbox \in Lines /\ up = <<>> /\ ~Held
        BY <1>2, <1>6, <3>1, <3>2 DEF PlaceInv
      <4> QED
        BY <1>1, <4>1, ProperLine DEF Whole, Orderly
    <3>6. ~Pending'
      BY <1>1, <3>5 DEF Pending, Held
    <3>7. down' = reply
      BY <2>1, <2>2, <3>4, SeqFacts
    <3>8. got' \o down' = due' /\ got' \o <<>> = got'
      BY <1>1, <1>4, <2>1, <3>3, <3>7, SeqFacts
    <3>9. Len(got') + Len(<<>>) + Len(down') <= Len(due')
      <4>1. Len(got') = Len(due) /\ Len(due) \in Nat /\ Len(reply) \in Nat
            /\ Len(<<>>) = 0 /\ Len(down') = Len(reply)
        BY <1>1, <1>4, <2>2, <3>3, <3>7, SeqFacts
      <4> QED
        BY <2>3, <4>1
    <3>10. wbuf' = Empty /\ wbuf'.queue = <<>> /\ st' = st
      BY <1>1, <3>4
    <3>11. /\ IsPrefix(got' \o wbuf'.queue, due')
           /\ Len(got') + Len(wbuf'.queue) + Len(down') <= Len(due')
      BY <2>3, <3>8, <3>9, <3>10
    <3>12. st' = "RESPONSE" =>
             /\ Len(cmds') <= 1
             /\ cmds' # <<>> => armed' = "origin_r" /\ Fresh(orig', response)
      <4>1. st = "RESPONSE" =>
              /\ Len(cmds) <= 1
              /\ cmds # <<>> => armed = "origin_r" /\ Fresh(orig, response)
        BY <3>2 DEF FlowInv
      <4> QED
        BY <1>1, <4>1 DEF Fresh
    <3>13. st' \notin {"GREETINGS", "CAPA"}
      BY <3>1, <3>10
    <3> HIDE DEF Fresh
    <3> QED
      BY <2>3, <3>6, <3>8, <3>10, <3>11, <3>12, <3>13 DEF Flow, Relayed, FlowInv, CapaInv
  <2> QED
    BY <2>4, <2>5
<1> QED
  BY <1>5, <1>6

LEMMA ClosesFlow ==
  ASSUME Flow, NEW side, Closes(side)
  PROVE  Flow'
BY DEF Closes, Flow, Relayed, FlowInv, CapaInv, Pending, Held, buffers, history

LEMMA FlowStays ==
  ASSUME Flow, UNCHANGED vars
  PROVE  Flow'
BY DEF Flow, Relayed, FlowInv, CapaInv, Pending, Held, vars, buffers, peers, history

LEMMA FlowKept ==
  ASSUME Whole
  PROVE  Spec => []Flow
<1>1. Orderly /\ CapaWhole /\ WellFormed /\ "client" \notin SplitRecv /\ ~Eager
  BY DEF Whole, Orderly
<1>2. TypeOK /\ LineInv /\ Flow /\ [Next]_vars => Flow'
  <2> SUFFICES ASSUME TypeOK, LineInv, Flow, [Next]_vars
               PROVE  Flow'
    OBVIOUS
  <2>1. CASE greetings_read
    BY <2>1, GreetingsReadFlow
  <2>2. CASE greetings_write
    BY <2>2, GreetingsWriteFlow
  <2>3. CASE capa_send
    BY <2>3, CapaSendFlow
  <2>4. CASE capa_read
    BY <1>1, <2>4, CapaReadFlow
  <2>5. CASE request_read
    BY <1>1, <2>5, RequestReadFlow
  <2>6. CASE request_send
    BY <1>1, <2>6, RequestSendFlow
  <2>7. CASE response_read
    BY <2>7, ResponseReadFlow
  <2>8. CASE response_send
    BY <2>8, ResponseSendFlow
  <2>9. CASE Fails
    BY <2>9, FailsFlow
  <2>10. ASSUME NEW l \in Lines, ClientSends(l)
         PROVE  Flow'
    BY <1>1, <2>10, ClientSendsFlow
  <2>11. CASE OriginAnswers
    BY <2>11, OriginAnswersFlow
  <2>12. ASSUME NEW side \in {"client", "origin"}, Closes(side)
         PROVE  Flow'
    BY <2>12, ClosesFlow
  <2>13. CASE UNCHANGED vars
    BY <2>13, FlowStays
  <2> QED
    BY <2>1, <2>2, <2>3, <2>4, <2>5, <2>6, <2>7, <2>8, <2>9, <2>10, <2>11, <2>12,
       <2>13 DEF Next, Handler, Rest
<1>3. Spec => []TypeOK
  BY TypeCorrect
<1>4. Spec => []LineInv
  BY <1>1, LinesKept
<1> QED
  BY <1>2, <1>3, <1>4, InitFlow, PTL DEF Spec

\* The client receives what the origin says to it, in order and nothing else: under the
\* hypothesis of LinesKept and a CAPA reply that ends where capa_read looks for it.
\* Answers to lines may be anything, as long as they like: what response_read cannot tell
\* from the answer it never gives to the client.
THEOREM RelayedInOrder ==
  ASSUME WellFormed, CapaWhole, "client" \notin SplitRecv, ~Eager
  PROVE  Spec => []Relayed
<1>1. Flow => Relayed
  BY DEF Flow
<1>2. Spec => []Flow
  BY FlowKept DEF Whole, Orderly
<1> QED
  BY <1>1, <1>2, PTL

(***************************************************************************)
(* What the session waits for                                              *)
(***************************************************************************)

Owed == IF st \in Over THEN armed = "none" ELSE OwedInv

\* The bytes before the end of a greeting that is still to come.
Coming(s, o) ==
  /\ s # <<>> /\ s[Len(s)] = LF
  /\ IF Len(s) = 1 THEN o[cr_received] ELSE s[Len(s) - 1] = CR

LEMMA InitOwed ==
  ASSUME AnswersWhole, Init
  PROVE  Owed
<1>1. st = "GREETINGS" /\ down = Greeting /\ ~orig[greet_finished]
  BY DEF Init, greet_finished, Offset
<1>2. Greeting \in Seq(Byte) /\ Len(Greeting) \in Nat /\ EndsLine(Greeting)
  BY SeqFacts, RelayAssumption DEF AnswersWhole
<1>3. Greeting # <<>> /\ Greeting[Len(Greeting)] = LF /\ Len(Greeting) # 1
      /\ Greeting[Len(Greeting) - 1] = CR
  BY <1>2, SeqFacts DEF EndsLine
<1> QED
  BY <1>1, <1>3 DEF Owed, OwedInv, Over, Held

LEMMA GreetingsReadOwed ==
  ASSUME TypeOK, LineInv, Owed, greetings_read
  PROVE  Owed'
<1>1. /\ st = "GREETINGS" /\ st' = "GREETINGS" /\ armed = "origin_r"
      /\ \/ UNCHANGED <<orig, down>>
         \/ /\ down # <<>> /\ down' = Tail(down)
            /\ orig' = CheckLine(orig, cr_received, greet_finished, Head(down))
            /\ rbuf'.queue = rbuf.queue \o <<Head(down)>>
            /\ armed' = IF orig'[greet_finished] THEN "client_w" ELSE armed
  BY DEF greetings_read, OriginReadable, Keep
<1>2. /\ ~orig[greet_finished] /\ Coming(down, orig)
      /\ \A i \in DOMAIN down : down[i] = LF => i = Len(down)
  BY <1>1 DEF Owed, OwedInv, Over, Coming, LineInv, StartInv
<1>3. CASE UNCHANGED <<orig, down>>
  BY <1>1, <1>2, <1>3 DEF Owed, OwedInv, Over, Coming, Held
<1>4. CASE /\ down # <<>> /\ down' = Tail(down)
           /\ orig' = CheckLine(orig, cr_received, greet_finished, Head(down))
           /\ rbuf'.queue = rbuf.queue \o <<Head(down)>>
           /\ armed' = IF orig'[greet_finished] THEN "client_w" ELSE armed
  <2> DEFINE t == Tail(down)
  <2>1. down \in Seq(Byte) /\ orig \in Memory /\ rbuf.queue \in Seq(Byte)
    BY Typed DEF Types, Sound, Buffer
  <2>2. /\ t \in Seq(Byte) /\ Len(down) \in Nat \ {0} /\ Len(t) = Len(down) - 1
        /\ <<Head(down)>> \in Seq(Byte) /\ Head(down) = down[1]
        /\ \A i \in 1 .. Len(t) : t[i] = down[i + 1]
        /\ DOMAIN down = 1 .. Len(down)
    BY <1>4, <2>1, FirstAndRest, LenProperties
  <2> HIDE DEF t
  <2>3. cr_received \in Offset /\ greet_finished \in Offset
        /\ cr_received # greet_finished /\ CR # LF
    BY DEF cr_received, greet_finished, Offset, CR, LF
  <2>4. CASE Len(down) = 1
    <3>1. Head(down) = LF /\ orig[cr_received]
      BY <1>2, <2>2, <2>4 DEF Coming
    <3>2. orig' = [orig EXCEPT ![greet_finished] = orig[cr_received]]
      BY <1>4, <2>3, <3>1 DEF CheckLine
    <3>3. orig'[greet_finished]
      BY <2>1, <2>3, <3>1, <3>2 DEF Memory
    <3>4. rbuf'.queue # <<>>
      <4>1. rbuf'.queue \in Seq(Byte) /\ Len(rbuf'.queue) = Len(rbuf.queue) + 1
        BY <1>4, <2>1, ByteMoves
      <4>2. Len(rbuf'.queue) # 0
        BY <2>1, <4>1, SeqFacts
      <4> QED
        BY <4>1, <4>2, SeqFacts
    <3> QED
      BY <1>1, <1>4, <3>3, <3>4 DEF Owed, OwedInv, Over, Held
  <2>5. CASE Len(down) # 1
    <3>1. Len(t) \in Nat \ {0} /\ Len(down) = Len(t) + 1
      BY <2>2, <2>5
    <3>2. down[Len(down)] = LF /\ down[Len(down) - 1] = CR
      BY <1>2, <2>5 DEF Coming
    <3>3. t[Len(t)] = LF /\ t # <<>>
      <4>1. Len(t) \in 1 .. Len(t) /\ Len(t) # 0
        BY <3>1
      <4> QED
        BY <2>2, <3>1, <3>2, <4>1, SeqFacts
    <3>4. Head(down) # LF
      <4>1. 1 \in DOMAIN down
        BY <2>2
      <4> QED
        BY <1>2, <2>2, <2>5, <4>1
    <3>5. ~orig'[greet_finished]
      BY <1>2, <1>4, <2>1, <2>3, <3>4 DEF CheckLine, Memory
    <3>6. IF Len(t) = 1 THEN orig'[cr_received] ELSE t[Len(t) - 1] = CR
      <4>1. CASE Len(t) = 1
        <5>1. Len(down) - 1 = 1
          BY <3>1, <4>1
        <5>2. Head(down) = CR
          BY <2>2, <3>2, <5>1
        <5>3. orig' = [orig EXCEPT ![cr_received] = TRUE]
          BY <1>4, <2>3, <5>2 DEF CheckLine
        <5>4. orig'[cr_received]
          BY <2>1, <2>3, <5>3 DEF Memory
        <5> QED
          BY <4>1, <5>4
      <4>2. CASE Len(t) # 1
        <5>1. Len(t) - 1 \in 1 .. Len(t) /\ (Len(t) - 1) + 1 = Len(down) - 1
          <6>1. \A a \in Nat \ {0} : \A b :
                  b = a + 1 /\ a # 1 => a - 1 \in 1 .. a /\ (a - 1) + 1 = b - 1
            OBVIOUS
          <6> QED
            BY <3>1, <4>2, <6>1
        <5> QED
          BY <2>2, <3>2, <4>2, <5>1
      <4> QED
        BY <4>1, <4>2
    <3>7. Coming(down', orig')
      BY <1>4, <3>3, <3>6 DEF Coming, t
    <3> QED
      BY <1>1, <3>5, <3>7 DEF Owed, OwedInv, Over, Held, Coming
  <2> QED
    BY <2>4, <2>5
<1> QED
  BY <1>1, <1>3, <1>4

LEMMA GreetingsWriteOwed ==
  ASSUME TypeOK, Owed, greetings_write
  PROVE  Owed'
<1>1. st = "GREETINGS" /\ UNCHANGED down
  BY DEF greetings_write, peers
<1>2. IF orig[greet_finished] THEN armed = "client_w" /\ rbuf.queue # <<>>
                              ELSE Coming(down, orig)
  BY <1>1 DEF Owed, OwedInv, Over, Coming
<1>3. \/ st' = "CAPA" /\ armed' = "origin_w"
      \/ ~orig[greet_finished] /\ UNCHANGED <<st, orig>>
  BY <1>2 DEF greetings_write
<1>4. CASE st' = "CAPA" /\ armed' = "origin_w"
  BY <1>4 DEF Owed, OwedInv, Over, Held
<1>5. CASE ~orig[greet_finished] /\ UNCHANGED <<st, orig>>
  BY <1>1, <1>2, <1>5 DEF Owed, OwedInv, Over, Held, Coming
<1> QED
  BY <1>3, <1>4, <1>5

LEMMA CapaSendOwed ==
  ASSUME capa_send
  PROVE  Owed'
<1>1. st' = "CAPA"
  BY DEF capa_send
<1> QED
  BY <1>1 DEF Owed, OwedInv, Over, Held

LEMMA CapaReadOwed ==
  ASSUME capa_read
  PROVE  Owed'
<1>1. \/ st' = "crash" /\ armed' = "none"
      \/ st' = "REQUEST" /\ armed' = "client_r"
      \/ st' = "CAPA"
  BY DEF capa_read, Crash, EndsAs
<1> QED
  BY <1>1 DEF Owed, OwedInv, Over, Held

LEMMA RequestReadOwed ==
  ASSUME TypeOK, LineInv, Orderly, request_read
  PROVE  Owed'
<1>1. /\ st' = "REQUEST" /\ armed' = "origin_w"
      /\ cmds'[1].multiline = Multiline(cmds'[1].text)
  BY OneRead
<1> QED
  BY <1>1 DEF Owed, OwedInv, Over

\* The line is at the origin when request_send has passed it on.
LEMMA RequestSendOwed ==
  ASSUME TypeOK, LineInv, Flow, Owed, Orderly, request_send
  PROVE  Owed'
<1> DEFINE line == cmds[1].text \o EOL
<1>1. /\ Held /\ st = "REQUEST" /\ st' = "RESPONSE"
      /\ Len(cmds) = 1 /\ line \in Lines /\ inbox' = line
      /\ UNCHANGED <<cmds, down, due, got>>
  BY OneSent
<1>2. FlowInv /\ OwedInv
  BY <1>1 DEF Flow, Owed, Over
<1>3. got = due
  BY <1>1, <1>2 DEF FlowInv, Pending
<1>4. down' = <<>>
  BY <1>1, <1>2, <1>3, AllGot
<1>5. cmds[1].multiline = Multiline(cmds[1].text)
  BY <1>1, <1>2 DEF OwedInv
<1>6. cmds # <<>>
  <2>1. Len(cmds) # 0 /\ cmds \in Seq(Command)
    BY <1>1, Typed DEF Types
  <2> QED
    BY <2>1, SeqFacts
<1>7. /\ st' = "RESPONSE" /\ cmds' # <<>> /\ down' = <<>>
      /\ cmds'[1].text \o <<CR, LF>> \in Lines /\ inbox' = cmds'[1].text \o <<CR, LF>>
      /\ cmds'[1].multiline = Multiline(cmds'[1].text)
  BY <1>1, <1>4, <1>5, <1>6 DEF EOL
<1> QED
  BY <1>7 DEF Owed, OwedInv, Over, Held

\* request_read's flag tells the commands with an answer of several lines.
LEMMA AnswerOfMany ==
  ASSUME NEW t \in Seq(Byte)
  PROVE  Multiline(t) <=> ManyLines(t \o EOL)
<1> DEFINE l == t \o EOL
<1>1. /\ l \in Seq(Byte) /\ Len(l) = Len(t) + 2 /\ Len(t) \in Nat
      /\ \A i \in 1 .. Len(t) + 2 : l[i] = IF i <= Len(t) THEN t[i] ELSE EOL[i - Len(t)]
  <2>1. /\ l \in Seq(Byte) /\ Len(l) = Len(t) + Len(EOL)
        /\ \A i \in 1 .. Len(t) + Len(EOL) :
             l[i] = IF i <= Len(t) THEN t[i] ELSE EOL[i - Len(t)]
    BY EOLType, JoinIsSeq
  <2>2. Len(t) \in Nat
    BY SeqFacts
  <2> HIDE DEF l
  <2> QED
    BY <2>1, <2>2, EOLType
<1> HIDE DEF l
<1>2. Head(l) = l[1]
  BY <1>1
<1>3. CASE t = <<>>
  <2>1. Len(t) = 0 /\ l[1] = CR
    BY <1>1, <1>3, EOLType
  <2>2. Len(<<"LIST", CR, LF>>) = 3
    OBVIOUS
  <2> QED
    BY <1>1, <1>2, <1>3, <2>1, <2>2 DEF Multiline, ManyLines, l, CR
<1>4. CASE t # <<>>
  <2>1. Len(t) \in Nat /\ Len(t) >= 1
    BY <1>1, <1>4, SeqFacts
  <2>2. Head(t) = t[1] /\ l[1] = t[1]
    BY <1>1, <2>1
  <2>3. ASSUME t = <<"LIST">>
        PROVE  l = <<"LIST", CR, LF>>
    <3>1. Len(t) = 1 /\ t[1] = "LIST"
      BY <2>3
    <3>2. Len(l) = 3 /\ l[1] = "LIST" /\ l[2] = CR /\ l[3] = LF
      BY <1>1, <3>1, EOLType
    <3> DEFINE k == <<"LIST", CR, LF>>
    <3>3. k \in Seq(Byte) /\ Len(k) = 3 /\ k[1] = "LIST" /\ k[2] = CR /\ k[3] = LF
      <4>1. "LIST" \in Byte
        BY <3>1, ElementOfSeq
      <4>2. CR \in Byte /\ LF \in Byte
        BY DEF Byte
      <4> QED
        BY <4>1, <4>2
    <3> HIDE DEF k
    <3>4. \A i \in 1 .. Len(l) : l[i] = k[i]
      BY <3>2, <3>3
    <3>5. l = k
      BY <1>1, <3>2, <3>3, <3>4, SeqEqual
    <3> QED
      BY <3>5 DEF k
  <2>4. ASSUME l = <<"LIST", CR, LF>>
        PROVE  t = <<"LIST">>
    <3>1. Len(l) = 3 /\ l[1] = "LIST"
      BY <2>4
    <3>2. Len(t) = 1 /\ t[1] = "LIST"
      <4> DEFINE n == Len(t)
                 m == Len(l)
      <4>1. n \in Nat /\ m = n + 2 /\ m = 3
        BY <1>1, <3>1
      <4> HIDE DEF n, m
      <4>2. n = 1
        BY <4>1
      <4>3. t[1] = "LIST"
        BY <2>2, <3>1
      <4> QED
        BY <4>2, <4>3 DEF n
    <3> DEFINE k == <<"LIST">>
    <3>3. k \in Seq(Byte) /\ Len(k) = 1 /\ k[1] = "LIST"
      <4>1. "LIST" \in Byte
        BY <3>2, ElementOfSeq
      <4> QED
        BY <4>1
    <3> HIDE DEF k
    <3>4. \A i \in 1 .. Len(t) : t[i] = k[i]
      BY <3>2, <3>3
    <3>5. t = k
      BY <3>2, <3>3, <3>4, SeqEqual
    <3> QED
      BY <3>5 DEF k
  <2> QED
    BY <1>2, <1>4, <2>2, <2>3, <2>4 DEF Multiline, ManyLines, l
<1> QED
  BY <1>3, <1>4

\* The whole of the answer is in one chunk, with its end.
LEMMA ResponseReadOwed ==
  ASSUME TypeOK, LineInv, Flow, Owed, Orderly, AnswersWhole, "origin" \notin SplitRecv,
         response_read
  PROVE  Owed'
<1>1. st = "RESPONSE" /\ armed = "origin_r"
  BY DEF response_read, OriginReadable
<1>2. FlowInv /\ OwedInv
  BY <1>1 DEF Flow, Owed, Over
<1>3. cmds # <<>> /\ Len(cmds) <= 1 /\ wbuf = Empty /\ Fresh(orig, response)
  BY <1>1, <1>2 DEF FlowInv, OwedInv
<1> DEFINE c == cmds[1]
           l == c.text \o <<CR, LF>>
<1>4. c \in Command /\ cmds = <<c>>
  BY <1>3, OneCommand
<1> HIDE DEF c
<1>5. /\ l \in Lines /\ c.multiline = Multiline(c.text)
      /\ (inbox = l /\ down = <<>>) \/ down \in Replies[l]
  BY <1>1, <1>2, <1>3 DEF OwedInv, c
<1>6. down \in Seq(Byte) /\ orig \in Memory /\ c.text \in Seq(Byte)
  BY <1>4, Typed DEF Types, Command
<1>7. CanWrite(wbuf) /\ Room(wbuf) = Size /\ Size \in Nat
  BY <1>3, RelayAssumption DEF CanWrite, Room, Empty
<1>8. PICK chunk \in Received("origin", down, Room(wbuf)) : \E end \in Digest(chunk) :
                                                  Respond(chunk, end)
  BY <1>7 DEF response_read, Respond
<1>9. PICK end \in Digest(chunk) : Respond(chunk, end)
  BY <1>8
<1>10. /\ chunk \in Seq(Byte) /\ Len(chunk) \in 1 .. Size /\ Len(chunk) <= Len(down)
       /\ Len(down) <= Size => chunk = down
  BY <1>6, <1>7, ReceivedType DEF Orderly
<1>11. down # <<>>
  <2>1. Len(<<>>) = 0
    OBVIOUS
  <2> QED
    BY <1>10, <2>1
<1>12. Multiline(c.text) <=> ManyLines(l)
  BY <1>6, AnswerOfMany DEF EOL
<1>13. chunk = down
       /\ IF c.multiline THEN EndsDot(chunk) ELSE EndsLine(chunk)
  <2>1. down \in Replies[l]
    BY <1>5, <1>11
  <2>2. Len(down) <= Size /\ IF ManyLines(l) THEN EndsDot(down) ELSE EndsLine(down)
    BY <1>5, <2>1 DEF AnswersWhole
  <2> HIDE DEF l
  <2> QED
    BY <1>5, <1>10, <1>12, <2>2
<1>14. end.cmds = <<>> /\ end.send /\ end.orig[response.finished]
  BY <1>3, <1>4, <1>6, <1>9, <1>10, <1>13, DigestWhole
<1>15. \/ st' = "crash" /\ armed' = "none"
       \/ st' = "RESPONSE" /\ armed' = "client_w" /\ cmds' = end.cmds /\ orig' = end.orig
  BY <1>1, <1>9, <1>14 DEF Respond, Crash, EndsAs
<1> QED
  BY <1>14, <1>15 DEF Owed, OwedInv, Over, Held

LEMMA ResponseSendOwed ==
  ASSUME TypeOK, Flow, Owed, response_send
  PROVE  Owed'
<1>1. st = "RESPONSE" /\ armed = "client_w"
  BY DEF response_send
<1>2. cmds = <<>> /\ orig[response.finished]
  BY <1>1 DEF Flow, Owed, Over, FlowInv, OwedInv
<1>3. \/ st' = "ERROR" /\ armed' = "none"
      \/ st' = "REQUEST" /\ armed' = "client_r"
  BY <1>2 DEF response_send
<1> QED
  BY <1>3 DEF Owed, OwedInv, Over, Held

LEMMA FailsOwed ==
  ASSUME Fails
  PROVE  Owed'
<1>1. st' \in Over /\ armed' = "none"
  BY DEF Fails, RecvFails, SendFails, EndsAs, Over
<1> QED
  BY <1>1 DEF Owed

LEMMA ClientSendsOwed ==
  ASSUME Owed, NEW l \in Lines, ClientSends(l)
  PROVE  Owed'
BY DEF ClientSends, Owed, OwedInv, Held, buffers

\* The origin answers the line it has, with one of its answers.
LEMMA OriginAnswersOwed ==
  ASSUME TypeOK, LineInv, Owed, Orderly, OriginAnswers
  PROVE  Owed'
<1>1. /\ HasLine(inbox) /\ inbox' = After(inbox, Line(inbox))
      /\ UNCHANGED <<st, armed, rbuf, wbuf, cmds, orig>>
  BY DEF OriginAnswers, buffers
<1>2. inbox # <<>>
  BY <1>1 DEF HasLine, ToSet
<1>3. st # "GREETINGS"
  BY <1>2 DEF LineInv, StartInv
<1>4. CASE st \in Over
  BY <1>1, <1>4 DEF Owed
<1>5. CASE st = "CAPA"
  BY <1>1, <1>5 DEF Owed, OwedInv, Over, Held
<1>6. CASE st = "REQUEST"
  BY <1>1, <1>6 DEF Owed, OwedInv, Over, Held
<1>7. CASE st = "RESPONSE"
  <2>1. OwedInv
    BY <1>7 DEF Owed, Over
  <2>2. CASE cmds = <<>>
    BY <1>1, <1>7, <2>1, <2>2 DEF Owed, OwedInv, Over, Held
  <2>3. CASE cmds # <<>>
    <3> DEFINE l == cmds[1].text \o <<CR, LF>>
    <3>1. /\ l \in Lines /\ cmds[1].multiline = Multiline(cmds[1].text)
          /\ inbox = l /\ down = <<>>
      BY <1>2, <1>7, <2>1, <2>3 DEF OwedInv
    <3> HIDE DEF l
    <3>2. Line(inbox) = l /\ inbox' = <<>>
      BY <1>1, <3>1, ProperLine DEF Orderly
    <3>3. PICK reply \in Replies[l] : down' = down \o reply
      BY <1>7, <3>1, <3>2 DEF OriginAnswers
    <3>4. reply \in Seq(Byte)
      BY <3>1, RelayAssumption
    <3>5. down' = reply
      BY <3>1, <3>3, <3>4, SeqFacts
    <3>6. /\ st' = "RESPONSE" /\ cmds' = cmds /\ inbox' = <<>> /\ down' \in Replies[l]
      BY <1>1, <1>7, <3>2, <3>5
    <3> QED
      BY <2>3, <3>1, <3>6 DEF Owed, OwedInv, Over, Held, l
  <2> QED
    BY <2>2, <2>3
<1> QED
  BY <1>3, <1>4, <1>5, <1>6, <1>7, Typed DEF Types, Over

LEMMA ClosesOwed ==
  ASSUME Owed, NEW side, Closes(side)
  PROVE  Owed'
BY DEF Closes, Owed, OwedInv, Held, buffers

LEMMA OwedStays ==
  ASSUME Owed, UNCHANGED vars
  PROVE  Owed'
BY DEF Owed, OwedInv, Held, vars, buffers, peers

\* Each line finds its answer: the whole of it comes in one chunk, for the command it
\* belongs to, and response_read finds its end.  Sends may be short and peers may leave.
THEOREM AnswersKept ==
  ASSUME WellFormed, CapaWhole, AnswersWhole, SplitRecv = {}, ~Eager
  PROVE  Spec => []AnswerInv
<1>1. Orderly /\ Whole
  BY DEF Orderly, Whole
<1>2. TypeOK /\ LineInv /\ Flow /\ Owed /\ [Next]_vars => Owed'
  <2> SUFFICES ASSUME TypeOK, LineInv, Flow, Owed, [Next]_vars
               PROVE  Owed'
    OBVIOUS
  <2>1. CASE greetings_read
    BY <2>1, GreetingsReadOwed
  <2>2. CASE greetings_write
    BY <2>2, GreetingsWriteOwed
  <2>3. CASE capa_send
    BY <2>3, CapaSendOwed
  <2>4. CASE capa_read
    BY <2>4, CapaReadOwed
  <2>5. CASE request_read
    BY <1>1, <2>5, RequestReadOwed
  <2>6. CASE request_send
    BY <1>1, <2>6, RequestSendOwed
  <2>7. CASE response_read
    BY <1>1, <2>7, ResponseReadOwed
  <2>8. CASE response_send
    BY <2>8, ResponseSendOwed
  <2>9. CASE Fails
    BY <2>9, FailsOwed
  <2>10. ASSUME NEW l \in Lines, ClientSends(l)
         PROVE  Owed'
    BY <2>10, ClientSendsOwed
  <2>11. CASE OriginAnswers
    BY <1>1, <2>11, OriginAnswersOwed
  <2>12. ASSUME NEW side \in {"client", "origin"}, Closes(side)
         PROVE  Owed'
    BY <2>12, ClosesOwed
  <2>13. CASE UNCHANGED vars
    BY <2>13, OwedStays
  <2> QED
    BY <2>1, <2>2, <2>3, <2>4, <2>5, <2>6, <2>7, <2>8, <2>9, <2>10, <2>11, <2>12,
       <2>13 DEF Next, Handler, Rest
<1>3. Init => Owed
  BY InitOwed
<1>4. Spec => []TypeOK
  BY TypeCorrect
<1>5. Spec => []LineInv
  BY LinesKept
<1>6. Spec => []Flow
  BY <1>1, FlowKept
<1>7. LineInv /\ Flow /\ Owed => AnswerInv
  BY DEF AnswerInv, Flow, Owed, Over
<1> QED
  BY <1>2, <1>3, <1>4, <1>5, <1>6, <1>7, PTL DEF Spec

\* A line has an LF, and so is something the origin can answer.
LEMMA LinesEnd ==
  ASSUME WellFormed, NEW l \in Lines
  PROVE  HasLine(l)
<1>1. l \in Seq(Byte) /\ Proper(l)
  BY ProperLine
<1>2. /\ Len(l) \in Nat /\ Len(l) - 2 \in 1 .. MAX_CMD_SIZE
      /\ l[(Len(l) - 2) + 2] = LF
  BY <1>1, SeqFacts DEF Proper
<1>3. (Len(l) - 2) + 2 \in DOMAIN l
  <2>1. DOMAIN l = 1 .. Len(l)
    BY <1>1, LenProperties
  <2> QED
    BY <1>2, <2>1
<1> QED
  BY <1>2, <1>3 DEF HasLine, ToSet

\* ... and so a session that waits for the origin waits for something that comes, if
\* the origin stays; no handler is left waiting for an answer it has dropped.
THEOREM NeverStalls ==
  ASSUME WellFormed, CapaWhole, AnswersWhole, SplitRecv = {}, ~Eager
  PROVE  Spec => []NoStall
<1>1. TypeOK /\ AnswerInv => NoStall
  <2> SUFFICES ASSUME TypeOK, AnswerInv, armed = "origin_r"
               PROVE  down # <<>> \/ HasLine(inbox)
    BY DEF NoStall, OriginReadable
  <2>1. st \notin Over /\ FlowInv /\ OwedInv /\ LineInv
    BY DEF AnswerInv, Over
  <2>2. CASE st = "GREETINGS"
    BY <2>1, <2>2 DEF OwedInv
  <2>3. CASE st = "CAPA"
    <3>1. CASE inbox # <<>>
      <4> DEFINE s == <<CAPA, CR, LF>>
      <4>1. inbox = s
        BY <2>1, <2>3, <3>1 DEF LineInv, StartInv
      <4>2. 3 \in DOMAIN s /\ s[3] = LF
        OBVIOUS
      <4> HIDE DEF s
      <4> QED
        BY <4>1, <4>2 DEF HasLine, ToSet
    <3>2. CASE inbox = <<>>
      <4>1. PICK r \in CapaReplies : /\ wbuf.queue \o down = r
                                     /\ CapaFlags(r, Len(wbuf.queue), orig)
        BY <2>1, <2>3, <3>2 DEF FlowInv, CapaInv
      <4>2. Len(wbuf.queue) < Len(r)
        BY <4>1 DEF CapaFlags, EndFlags
      <4>3. wbuf.queue \in Seq(Byte) /\ Len(wbuf.queue) \in Nat
        BY SeqFacts, Typed DEF Types, Sound, Buffer
      <4>4. down = <<>> => r = wbuf.queue
        BY <4>1, <4>3, SeqFacts
      <4> QED
        BY <4>2, <4>3, <4>4
    <3> QED
      BY <3>1, <3>2
  <2>4. CASE st = "REQUEST"
    BY <2>1, <2>4 DEF OwedInv
  <2>5. CASE st = "RESPONSE"
    <3> DEFINE l == cmds[1].text \o <<CR, LF>>
    <3>1. /\ l \in Lines
          /\ inbox = l \/ down \in Replies[l]
      BY <2>1, <2>5 DEF OwedInv
    <3> HIDE DEF l
    <3>2. CASE inbox = l
      BY <3>1, <3>2, LinesEnd
    <3>3. CASE down \in Replies[l]
      <4>1. EndsDot(down) \/ EndsLine(down)
        BY <3>1, <3>3 DEF AnswersWhole
      <4>2. Len(down) > 1
        <5>1. down \in Seq(Byte) /\ Len(down) \in Nat
          BY SeqFacts, Typed DEF Types
        <5> QED
          BY <4>1, <5>1 DEF EndsDot, EndsLine
      <4>3. Len(<<>>) = 0
        OBVIOUS
      <4> QED
        BY <4>2, <4>3
    <3> QED
      BY <3>1, <3>2, <3>3
  <2> QED
    BY <2>1, <2>2, <2>3, <2>4, <2>5, Typed DEF Types, Over
<1>2. Spec => []TypeOK
  BY TypeCorrect
<1>3. Spec => []AnswerInv
  BY AnswersKept
<1> QED
  BY <1>1, <1>2, <1>3, PTL
=============================================================================

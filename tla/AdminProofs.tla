---------------------------- MODULE AdminProofs -----------------------------
(***************************************************************************)
(* Proofs about Admin: for any number of clients, any lines they type and  *)
(* any lengths of password and buffer, a datagram is served by its own     *)
(* bytes, and clients and server keep in step.                             *)
(***************************************************************************)
EXTENDS Admin, SequenceTheorems, WellFoundedInduction, TLAPS

(***************************************************************************)
(* Least and greatest                                                      *)
(***************************************************************************)

\* A set of numbers has a least one: what a search from the left finds.
LEMMA Leftmost ==
  ASSUME NEW S \in SUBSET Nat, S # {}
  PROVE  \E m \in S : \A k \in S : m <= k
<1> DEFINE less == OpToRel(<, Nat)
<1>1. ASSUME NEW i \in Nat, NEW j \in Nat, i < j
      PROVE  <<i, j>> \in less
  BY <1>1 DEF OpToRel
<1>2. PICK m \in S : \A k \in S : ~(<<k, m>> \in less)
  <2> HIDE DEF less
  <2>1. IsWellFoundedOn(less, Nat)
    BY NatLessThanWellFounded DEF less
  <2> QED
    BY <2>1, WFMin
<1>3. ASSUME NEW k \in S
      PROVE  m <= k
  <2>1. ~(k < m)
    BY <1>1, <1>2
  <2> QED
    BY <2>1
<1> QED
  BY <1>3

\* With a bound it has a greatest one: what a search from the right finds.
LEMMA Rightmost ==
  ASSUME NEW n \in Nat, NEW S \in SUBSET (1 .. n), S # {}
  PROVE  \E m \in S : \A k \in S : k <= m
<1> DEFINE gaps == {n - k : k \in S}
<1>1. gaps \in SUBSET Nat /\ gaps # {}
  <2>1. \A k \in S : n - k \in Nat /\ n - k \in gaps
    OBVIOUS
  <2>2. \A h \in gaps : \E k \in S : h = n - k
    OBVIOUS
  <2> HIDE DEF gaps
  <2> QED
    BY <2>1, <2>2
<1>2. PICK gap \in gaps : \A h \in gaps : gap <= h
  <2> HIDE DEF gaps
  <2> QED
    BY <1>1, Leftmost
<1>3. PICK m \in S : gap = n - m
  OBVIOUS
<1>4. ASSUME NEW k \in S
      PROVE  k <= m
  <2>1. n - k \in gaps
    OBVIOUS
  <2>2. n - m <= n - k
    BY <1>2, <1>3, <2>1
  <2> QED
    BY <2>2
<1> QED
  BY <1>4

(***************************************************************************)
(* Sequences                                                               *)
(***************************************************************************)

\* FlattenSeq joins one sequence after the other.
Joined(f, s, n) == f = [i \in 1 .. n |-> IF i = 1 THEN s[i] ELSE f[i - 1] \o s[i]]

Stepwise(f, s, n) ==
  \A i \in 1 .. n : f[i] = IF i = 1 THEN s[i] ELSE f[i - 1] \o s[i]

LEMMA JoinedStepwise ==
  ASSUME NEW f, NEW s, NEW n \in Nat, Joined(f, s, n)
  PROVE  Stepwise(f, s, n)
<1> DEFINE part(i) == IF i = 1 THEN s[i] ELSE f[i - 1] \o s[i]
<1>1. f = [i \in 1 .. n |-> part(i)]
  BY DEF Joined
<1>2. \A i \in 1 .. n : f[i] = part(i)
  <2> HIDE DEF part
  <2> QED
    BY <1>1
<1> QED
  BY <1>2 DEF Stepwise

\* It can do so for any number of them: without a least number for which it cannot,
\* it can for all.
LEMMA JoinedExists ==
  ASSUME NEW s, NEW n \in Nat
  PROVE  \E f : Joined(f, s, n)
<1> DEFINE missing == {k \in Nat : ~\E f : Joined(f, s, k)}
<1> SUFFICES ASSUME missing # {}
             PROVE  FALSE
  OBVIOUS
<1>1. PICK least \in missing : \A k \in missing : least <= k
  <2>1. missing \in SUBSET Nat
    OBVIOUS
  <2> HIDE DEF missing
  <2> QED
    BY <2>1, Leftmost
<1>2. CASE least = 0
  <2> DEFINE f == [i \in 1 .. 0 |-> s]
  <2>1. Joined(f, s, 0)
    BY DEF Joined
  <2> QED
    BY <1>1, <1>2, <2>1
<1>3. CASE least # 0
  <2>1. PICK b \in Nat : least = b + 1 /\ b \notin missing
    <3>1. least \in Nat /\ least - 1 \in Nat /\ least = (least - 1) + 1
      BY <1>1, <1>3
    <3>2. least - 1 \notin missing
      <4> HIDE DEF missing
      <4> QED
        BY <1>1, <3>1
    <3> QED
      BY <3>1, <3>2
  <2>2. PICK f : Joined(f, s, b)
    BY <2>1
  <2> DEFINE g == [i \in 1 .. b + 1 |-> IF i = 1 THEN s[i] ELSE f[i - 1] \o s[i]]
  <2>3. ASSUME NEW i \in 1 .. b
        PROVE  g[i] = f[i]
    <3>1. Stepwise(f, s, b)
      BY <2>2, JoinedStepwise
    <3>2. g[i] = IF i = 1 THEN s[i] ELSE f[i - 1] \o s[i]
      OBVIOUS
    <3> QED
      BY <3>1, <3>2 DEF Stepwise
  <2>4. ASSUME NEW i \in 1 .. b + 1
        PROVE  g[i] = IF i = 1 THEN s[i] ELSE g[i - 1] \o s[i]
    <3>1. g[i] = IF i = 1 THEN s[i] ELSE f[i - 1] \o s[i]
      OBVIOUS
    <3>2. CASE i # 1
      <4>1. i - 1 \in 1 .. b
        BY <3>2
      <4> QED
        BY <2>3, <3>1, <4>1
    <3> QED
      BY <3>1, <3>2
  <2>5. g = [i \in 1 .. b + 1 |-> g[i]]
    OBVIOUS
  <2> HIDE DEF g
  <2>6. Joined(g, s, least)
    BY <2>1, <2>4, <2>5 DEF Joined
  <2> QED
    BY <1>1, <2>6
<1> QED
  BY <1>2, <1>3

LEMMA JoinIsSeq ==
  ASSUME NEW T, NEW s \in Seq(T), NEW t \in Seq(T)
  PROVE  /\ s \o t \in Seq(T)
         /\ Len(s \o t) = Len(s) + Len(t)
         /\ \A i \in 1 .. Len(s) + Len(t) :
              (s \o t)[i] = IF i <= Len(s) THEN s[i] ELSE t[i - Len(s)]
BY ConcatProperties

LEMMA FlattenIsSeq ==
  ASSUME NEW T, NEW s \in Seq(Seq(T))
  PROVE  FlattenSeq(s) \in Seq(T)
<1> DEFINE n == Len(s)
           flat == CHOOSE f : Joined(f, s, n)
<1>1. n \in Nat /\ \A i \in 1 .. n : s[i] \in Seq(T)
  OBVIOUS
<1>2. Joined(flat, s, n)
  BY <1>1, JoinedExists
<1>3. Stepwise(flat, s, n)
  <2> HIDE DEF flat
  <2> QED
    BY <1>1, <1>2, JoinedStepwise
<1>4. FlattenSeq(s) = IF n = 0 THEN s ELSE flat[n]
  BY DEF FlattenSeq, Joined
<1>5. CASE n = 0
  <2>1. s = << >>
    BY <1>5
  <2> QED
    BY <1>4, <1>5, <2>1
<1>6. CASE n # 0
  <2> DEFINE wrong == {i \in 1 .. n : flat[i] \notin Seq(T)}
  <2> HIDE DEF flat
  <2>1. ASSUME wrong # {}
        PROVE  FALSE
    <3>1. PICK least \in wrong : \A k \in wrong : least <= k
      <4>1. wrong \in SUBSET Nat
        OBVIOUS
      <4> HIDE DEF wrong
      <4> QED
        BY <2>1, <4>1, Leftmost
    <3>2. flat[least] = IF least = 1 THEN s[least] ELSE flat[least - 1] \o s[least]
      BY <1>3, <3>1 DEF Stepwise
    <3>3. CASE least = 1
      BY <1>1, <3>1, <3>2, <3>3
    <3>4. CASE least # 1
      <4>1. least - 1 \in 1 .. n /\ least - 1 \notin wrong
        BY <1>1, <3>1, <3>4
      <4>2. flat[least - 1] \in Seq(T) /\ s[least] \in Seq(T)
        BY <1>1, <3>1, <4>1
      <4>3. flat[least - 1] \o s[least] \in Seq(T)
        BY <4>2, JoinIsSeq
      <4>4. flat[least] \in Seq(T)
        BY <3>2, <3>4, <4>3
      <4> QED
        BY <3>1, <4>4
    <3> QED
      BY <3>3, <3>4
  <2>2. flat[n] \in Seq(T)
    BY <1>1, <1>6, <2>1
  <2> QED
    BY <1>4, <1>6, <2>2
<1> QED
  BY <1>5, <1>6

\* A part of a sequence is one.
LEMMA PartIsSeq ==
  ASSUME NEW T, NEW s \in Seq(T), NEW m \in Nat \ {0}, NEW n \in Int, n <= Len(s)
  PROVE  /\ SubSeq(s, m, n) \in Seq(T)
         /\ Len(SubSeq(s, m, n)) = IF m <= n THEN n - m + 1 ELSE 0
         /\ \A i \in 1 .. n - m + 1 : SubSeq(s, m, n)[i] = s[m + i - 1]
<1>1. \A i \in m .. n : s[i] \in T
  BY ElementOfSeq
<1> QED
  BY <1>1, SubSeqProperties

\* A queue that grew by one.
LEMMA Grown ==
  ASSUME NEW T, NEW s \in Seq(T), NEW e \in T, NEW t, t = Append(s, e)
  PROVE  /\ t \in Seq(T)
         /\ DOMAIN s = 1 .. Len(s) /\ Len(s) \in Nat
         /\ DOMAIN t = 1 .. Len(s) + 1
         /\ \A i \in 1 .. Len(s) : t[i] = s[i]
         /\ t[Len(s) + 1] = e
<1>1. /\ t \in Seq(T)
      /\ Len(t) = Len(s) + 1
      /\ \A i \in 1 .. Len(s) : t[i] = s[i]
      /\ t[Len(s) + 1] = e
  BY AppendProperties
<1>2. DOMAIN t = 1 .. Len(t) /\ DOMAIN s = 1 .. Len(s) /\ Len(s) \in Nat
  BY <1>1, LenProperties
<1> QED
  BY <1>1, <1>2

\* A queue that lost its first element.
LEMMA Shrunk ==
  ASSUME NEW T, NEW s \in Seq(T), s # << >>, NEW t, t = Tail(s)
  PROVE  /\ t \in Seq(T)
         /\ Head(s) \in T /\ Head(s) = s[1] /\ 1 \in DOMAIN s
         /\ \A i \in DOMAIN t : i \in Nat \ {0} /\ i + 1 \in DOMAIN s /\ t[i] = s[i + 1]
<1>1. /\ t \in Seq(T) /\ Head(s) \in T
      /\ Len(t) = Len(s) - 1
      /\ \A i \in 1 .. Len(t) : t[i] = s[i + 1]
  BY HeadTailProperties
<1>2. DOMAIN t = 1 .. Len(t) /\ DOMAIN s = 1 .. Len(s) /\ Len(s) \in Nat /\ Len(s) # 0
  BY <1>1, LenProperties
<1>3. Head(s) = s[1]
  OBVIOUS
<1> QED
  BY <1>1, <1>2, <1>3

(***************************************************************************)
(* What the handlers cut out of the memory                                 *)
(***************************************************************************)

\* One cell makes a sequence of cells.
LEMMA ShortSeqs ==
  ASSUME NEW T, NEW a \in T
  PROVE  <<a>> \in Seq(T)
OBVIOUS

\* A line goes over the wire as cells.
LEMMA TypedIsSeq ==
  ASSUME NEW l \in Lines
  PROVE  Typed(l) \in Seq(Cell)
<1>1. /\ l.auth \in Seq(Cell)
      /\ l.command \in Seq(Cell)
      /\ l.arguments \in Seq(Seq(Cell))
  <2>1. /\ l.auth \in Seq(Glyph)
        /\ l.command \in Seq(Glyph)
        /\ l.arguments \in Seq(Seq(Glyph))
    BY AdminAssumption
  <2>2. Glyph \subseteq Cell
    BY DEF Cell
  <2> QED
    BY <2>1, <2>2, SeqMonotonic
<1> DEFINE spaced(i) == <<SP>> \o l.arguments[i]
           words == [i \in DOMAIN l.arguments |-> spaced(i)]
<1>2. <<SP>> \in Seq(Cell) /\ <<NL>> \in Seq(Cell)
  <2>1. SP \in Cell /\ NL \in Cell
    BY DEF Cell
  <2> QED
    BY <2>1, ShortSeqs
<1>3. words \in Seq(Seq(Cell))
  <2>1. DOMAIN l.arguments = 1 .. Len(l.arguments) /\ Len(l.arguments) \in Nat
    BY <1>1, LenProperties
  <2>2. \A i \in 1 .. Len(l.arguments) : spaced(i) \in Seq(Cell)
    <3> SUFFICES ASSUME NEW i \in 1 .. Len(l.arguments)
                 PROVE  <<SP>> \o l.arguments[i] \in Seq(Cell)
      OBVIOUS
    <3>1. l.arguments[i] \in Seq(Cell)
      BY <1>1, ElementOfSeq
    <3> QED
      BY <1>2, <3>1, JoinIsSeq
  <2>3. words = [i \in 1 .. Len(l.arguments) |-> spaced(i)]
    BY <2>1
  <2> HIDE DEF spaced, words
  <2> QED
    BY <2>1, <2>2, <2>3
<1>4. FlattenSeq(words) \in Seq(Cell)
  BY <1>3, FlattenIsSeq
<1> DEFINE start == l.auth \o <<SP>>
           most == start \o l.command
<1>5. most \in Seq(Cell)
  <2>1. start \in Seq(Cell)
    BY <1>1, <1>2, JoinIsSeq
  <2> HIDE DEF start
  <2> QED
    BY <1>1, <2>1, JoinIsSeq
<1>6. most \o FlattenSeq(words) \in Seq(Cell)
  BY <1>4, <1>5, JoinIsSeq
<1>7. (most \o FlattenSeq(words)) \o <<NL>> \in Seq(Cell)
  BY <1>2, <1>6, JoinIsSeq
<1> QED
  BY <1>7 DEF Typed

\* What recvfrom takes of a datagram: nothing only of an empty one.
LEMMA TakenIsSeq ==
  ASSUME NEW cells \in Seq(Cell)
  PROVE  Taken(cells) \in Seq(Cell) /\ (cells = << >> => Taken(cells) = << >>)
<1> DEFINE n == IF Len(cells) > BUFF_SIZE THEN BUFF_SIZE ELSE Len(cells)
<1>1. n \in Int /\ n <= Len(cells)
  BY AdminAssumption
<1>2. SubSeq(cells, 1, n) \in Seq(Cell)
  BY <1>1, PartIsSeq
<1>3. ASSUME cells = << >>
      PROVE  SubSeq(cells, 1, n) = << >>
  <2>1. n < 1
    BY <1>1, <1>3
  <2> QED
    BY <1>1, <2>1, SubSeqEmpty
<1> QED
  BY <1>2, <1>3 DEF Taken

\* Read over a buffer that was reset, a datagram is what lies before the write pointer.
LEMMA OverlayFromZero ==
  ASSUME memory \in Seq(Cell), write = 0, NEW cells \in Seq(Cell)
  PROVE  /\ Overlay(cells) \in Seq(Cell)
         /\ write + Len(cells) \in 0 .. Len(Overlay(cells))
         /\ SubSeq(Overlay(cells), 1, write + Len(cells)) = cells
<1> DEFINE front == SubSeq(memory, 1, write)
           rest == SubSeq(memory, write + Len(cells) + 1, Len(memory))
<1>1. Len(cells) \in Nat /\ Len(memory) \in Nat
  BY LenProperties
<1>2. front \in Seq(Cell) /\ front = << >>
  <2>1. SubSeq(memory, 1, write) = << >>
    BY SubSeqEmpty
  <2> QED
    BY <2>1
<1>3. rest \in Seq(Cell)
  BY <1>1, PartIsSeq
<1>4. front \o cells = cells
  BY <1>2, ConcatEmptySeq
<1>5. Overlay(cells) = cells \o rest
  BY <1>4 DEF Overlay
<1> HIDE DEF front, rest
<1>6. /\ cells \o rest \in Seq(Cell)
      /\ Len(cells \o rest) = Len(cells) + Len(rest)
      /\ Len(rest) \in Nat
      /\ \A i \in 1 .. Len(cells) + Len(rest) :
           (cells \o rest)[i] = IF i <= Len(cells) THEN cells[i] ELSE rest[i - Len(cells)]
  BY <1>3, JoinIsSeq, LenProperties
<1> DEFINE all == cells \o rest
           cut == SubSeq(all, 1, Len(cells))
<1>7. /\ cut \in Seq(Cell) /\ Len(cut) = Len(cells)
      /\ \A i \in 1 .. Len(cells) : cut[i] = cells[i]
  <2> HIDE DEF all
  <2>1. all \in Seq(Cell) /\ Len(cells) <= Len(all)
    BY <1>1, <1>6 DEF all
  <2>2. /\ cut \in Seq(Cell)
        /\ Len(cut) = IF 1 <= Len(cells) THEN Len(cells) - 1 + 1 ELSE 0
        /\ \A i \in 1 .. Len(cells) - 1 + 1 : cut[i] = all[1 + i - 1]
    BY <1>1, <2>1, PartIsSeq
  <2>3. \A i \in 1 .. Len(cells) : all[i] = cells[i]
    BY <1>1, <1>6 DEF all
  <2> HIDE DEF cut
  <2> QED
    BY <1>1, <2>2, <2>3
<1>8. cut = cells
  <2> HIDE DEF cut
  <2> QED
    BY <1>7, SeqEqual
<1> QED
  BY <1>1, <1>5, <1>6, <1>8

\* A word of the memory is one, wherever the search for its end stops.
LEMMA WordIsSeq ==
  ASSUME memory \in Seq(Cell), NEW first \in Nat \ {0}
  PROVE  Word(first) \in Seq(Cell)
<1> DEFINE ends == {i \in first .. Len(memory) : memory[i] \in {SP, NL}}
           leftmost == CHOOSE i \in ends : \A k \in ends : i <= k
           last == IF ends = {} THEN Len(memory) ELSE leftmost - 1
<1>1. Len(memory) \in Nat
  BY LenProperties
<1>2. last \in Int /\ last <= Len(memory)
  <2>1. CASE ends = {}
    BY <1>1, <2>1
  <2>2. CASE ends # {}
    <3>1. ends \in SUBSET Nat /\ \A i \in ends : i \in Nat /\ i <= Len(memory)
      BY <1>1
    <3> HIDE DEF ends
    <3>2. \E i \in ends : \A k \in ends : i <= k
      BY <2>2, <3>1, Leftmost
    <3>3. leftmost \in ends
      BY <3>2
    <3> HIDE DEF leftmost
    <3> QED
      BY <1>1, <2>2, <3>1, <3>3
  <2> QED
    BY <2>1, <2>2
<1>3. Word(first) = SubSeq(memory, first, last)
  BY DEF Word
<1> HIDE DEF last
<1> QED
  BY <1>2, <1>3, PartIsSeq

\* Behind a password there is a space, so the search for the last one finds one.
LEMMA ArgumentIsSeq ==
  ASSUME memory \in Seq(Cell), validate_password
  PROVE  parse_get_set_arguments \in Seq(Cell)
<1> DEFINE spaces == {i \in DOMAIN memory : memory[i] = SP}
           offset == CHOOSE i \in spaces : \A k \in spaces : k <= i
<1>1. DOMAIN memory = 1 .. Len(memory) /\ Len(memory) \in Nat
  BY LenProperties
<1>2. spaces \in SUBSET (1 .. Len(memory))
  BY <1>1
<1>3. PASS_LEN + 1 \in spaces
  BY <1>1, AdminAssumption DEF validate_password
<1>4. offset \in 1 .. Len(memory)
  <2> HIDE DEF spaces
  <2>1. \E i \in spaces : \A k \in spaces : k <= i
    BY <1>1, <1>2, <1>3, Rightmost
  <2>2. offset \in spaces
    BY <2>1
  <2> QED
    BY <1>2, <2>2
<1>5. Word(offset + 1) \in Seq(Cell)
  <2> HIDE DEF offset
  <2> QED
    BY <1>1, <1>4, WordIsSeq
<1> QED
  BY <1>5 DEF parse_get_set_arguments

(***************************************************************************)
(* The steps                                                               *)
(***************************************************************************)

LEMMA InitInvariant ==
  Init => IInv
<1> SUFFICES ASSUME Init
             PROVE  IInv
  OBVIOUS
<1>1. TypeOK
  <2>1. \A T : << >> \in Seq(T) /\ Len(<< >>) = 0
    BY EmptySeq
  <2>2. First \in Seq(Cell)
    <3>1. First \in Seq(Glyph) /\ Glyph \subseteq Cell
      BY AdminAssumption DEF Cell
    <3> QED
      BY <3>1, SeqMonotonic
  <2> QED
    BY <2>1, <2>2, AdminAssumption DEF Init, TypeOK, Counters
<1>2. Lockstep /\ OwnBytes
  BY DEF Init, Lockstep, OwnBytes, Unserved
<1> QED
  BY <1>1, <1>2 DEF IInv

LEMMA Senders ==
  ASSUME NEW q \in Seq(Datagram), NEW i \in DOMAIN q
  PROVE  q[i] \in Datagram /\ q[i].from \in Client /\ q[i].cells \in Seq(Cell)
<1>1. i \in 1 .. Len(q)
  BY LenProperties
<1>2. q[i] \in Datagram
  BY <1>1, ElementOfSeq
<1> QED
  BY <1>2 DEF Datagram

\* A client sends only while neither the server nor the network has anything of its.
LEMMA SendStep ==
  ASSUME IInv, NEW c \in Client, NEW l \in Lines \cup {None},
         NEW cells \in Seq(Cell), cells = IF l = None THEN << >> ELSE Typed(l),
         Send(c, l, cells)
  PROVE  IInv'
<1> DEFINE d == [from |-> c, cells |-> cells]
<1>1. /\ TypeOK /\ Lockstep /\ OwnBytes
      /\ inbox' = Append(inbox, d)
      /\ phase[c] = "prompt" /\ phase' = [phase EXCEPT ![c] = "waiting"]
      /\ line' = [line EXCEPT ![c] = l]
      /\ UNCHANGED <<password, memory, write, armed, clntAddr, stats, answer>>
  BY DEF IInv, Send, serverVars
<1>2. /\ inbox \in Seq(Datagram) /\ answer \in [Client -> Answer \cup {None}]
      /\ phase \in [Client -> {"prompt", "waiting", "quit"}]
      /\ line \in [Client -> Lines \cup {None}]
  BY <1>1 DEF TypeOK
<1>3. d \in Datagram /\ d.from = c /\ d.cells = cells
  BY DEF Datagram
<1> HIDE DEF d
<1>4. /\ inbox' \in Seq(Datagram)
      /\ DOMAIN inbox = 1 .. Len(inbox) /\ Len(inbox) \in Nat
      /\ DOMAIN inbox' = 1 .. Len(inbox) + 1
      /\ \A i \in 1 .. Len(inbox) : inbox'[i] = inbox[i]
      /\ inbox'[Len(inbox) + 1] = d
  BY <1>1, <1>2, <1>3, Grown
<1>5. /\ \A i \in DOMAIN inbox : inbox[i].from # c
      /\ ~(armed = "WRITE" /\ clntAddr = c) /\ answer[c] = None
  BY <1>1 DEF Lockstep, Unserved
<1>6. \A i \in DOMAIN inbox' : \/ i \in DOMAIN inbox /\ inbox'[i] = inbox[i]
                               \/ i = Len(inbox) + 1 /\ inbox'[i] = d
  BY <1>4
<1>7. TypeOK'
  BY <1>1, <1>2, <1>4 DEF TypeOK
<1>8. clntAddr # c
  BY <1>1, <1>5 DEF TypeOK
<1>9. Lockstep'
  <2> SUFFICES ASSUME NEW e \in Client
               PROVE  /\ Unserved(e)' \/ answer'[e] # None => phase'[e] = "waiting"
                      /\ ~(Unserved(e)' /\ answer'[e] # None)
                      /\ \A i, j \in DOMAIN inbox' :
                           inbox'[i].from = e /\ inbox'[j].from = e => i = j
                      /\ (\E i \in DOMAIN inbox' : inbox'[i].from = e) => clntAddr' # e
    BY DEF Lockstep
  <2>1. CASE e = c
    <3>1. /\ \A i \in DOMAIN inbox' : inbox'[i].from = e => i = Len(inbox) + 1
          /\ phase'[e] = "waiting" /\ answer'[e] = None /\ clntAddr' # e
      BY <1>1, <1>2, <1>5, <1>6, <1>8, <2>1
    <3> QED
      BY <3>1
  <2>2. CASE e # c
    <3>1. /\ \A i \in DOMAIN inbox' : inbox'[i].from = e =>
               i \in DOMAIN inbox /\ inbox[i].from = e
          /\ phase'[e] = phase[e] /\ answer'[e] = answer[e]
          /\ armed' = armed /\ clntAddr' = clntAddr
      BY <1>1, <1>2, <1>3, <1>6, <2>2
    <3>2. Unserved(e)' => Unserved(e)
      BY <3>1 DEF Unserved
    <3>3. /\ Unserved(e) \/ answer[e] # None => phase[e] = "waiting"
          /\ ~(Unserved(e) /\ answer[e] # None)
          /\ \A i, j \in DOMAIN inbox : inbox[i].from = e /\ inbox[j].from = e => i = j
          /\ (\E i \in DOMAIN inbox : inbox[i].from = e) => clntAddr # e
      BY <1>1 DEF Lockstep
    <3> QED
      BY <3>1, <3>2, <3>3
  <2> QED
    BY <2>1, <2>2
<1>10. \A e \in Client : e # c => SentBy(e)' = SentBy(e)
  BY <1>1, <1>2 DEF SentBy
<1>11. SentBy(c)' = cells
  BY <1>1, <1>2 DEF SentBy, Typed
<1>12. OwnBytes'
  <2>1. ASSUME NEW i \in DOMAIN inbox'
        PROVE  (inbox[i].cells = SentBy(inbox[i].from))'
    <3>1. CASE inbox'[i] = d
      BY <1>3, <1>11, <3>1 DEF SentBy
    <3>2. CASE i \in DOMAIN inbox /\ inbox'[i] = inbox[i]
      <4>1. inbox[i].from \in Client /\ inbox[i].from # c
        BY <1>2, <1>5, <3>2, Senders
      <4>2. inbox[i].cells = SentBy(inbox[i].from)
        BY <1>1, <3>2 DEF OwnBytes
      <4> QED
        BY <1>10, <3>2, <4>1, <4>2 DEF SentBy
    <3> QED
      BY <1>6, <3>1, <3>2
  <2>2. ASSUME armed' = "WRITE"
        PROVE  (/\ line[clntAddr] # None
                /\ SubSeq(memory, 1, write) = Taken(SentBy(clntAddr)))'
    <3>1. armed = "WRITE" /\ clntAddr \in Client /\ clntAddr # c
      BY <1>1, <1>8, <2>2 DEF TypeOK
    <3>2. line[clntAddr] # None /\ SubSeq(memory, 1, write) = Taken(SentBy(clntAddr))
      BY <1>1, <3>1 DEF OwnBytes
    <3>3. line'[clntAddr] = line[clntAddr]
      BY <1>1, <1>2, <3>1
    <3> QED
      BY <1>1, <3>2, <3>3 DEF SentBy, Taken
  <2> QED
    BY <2>1, <2>2 DEF OwnBytes
<1> QED
  BY <1>7, <1>9, <1>12 DEF IInv

\* A client that takes its answer has nothing on its way to the server.
LEMMA ReceiveStep ==
  ASSUME IInv, NEW c \in Client, Receive(c)
  PROVE  IInv'
<1>1. /\ TypeOK /\ Lockstep /\ OwnBytes
      /\ answer[c] # None /\ answer' = [answer EXCEPT ![c] = None]
      /\ phase' = [phase EXCEPT ![c] = "prompt"]
      /\ line' = [line EXCEPT ![c] = None]
      /\ UNCHANGED <<password, memory, write, armed, clntAddr, stats, inbox>>
  BY DEF IInv, Receive, serverVars
<1>2. /\ inbox \in Seq(Datagram) /\ answer \in [Client -> Answer \cup {None}]
      /\ phase \in [Client -> {"prompt", "waiting", "quit"}]
      /\ line \in [Client -> Lines \cup {None}]
  BY <1>1 DEF TypeOK
<1>3. ~Unserved(c)
  BY <1>1 DEF Lockstep
<1>4. \A e \in Client : Unserved(e)' = Unserved(e)
  BY <1>1 DEF Unserved
<1>5. TypeOK'
  BY <1>1, <1>2 DEF TypeOK
<1>6. Lockstep'
  <2> SUFFICES ASSUME NEW e \in Client
               PROVE  /\ Unserved(e)' \/ answer'[e] # None => phase'[e] = "waiting"
                      /\ ~(Unserved(e)' /\ answer'[e] # None)
                      /\ \A i, j \in DOMAIN inbox' :
                           inbox'[i].from = e /\ inbox'[j].from = e => i = j
                      /\ (\E i \in DOMAIN inbox' : inbox'[i].from = e) => clntAddr' # e
    BY DEF Lockstep
  <2>1. /\ Unserved(e) \/ answer[e] # None => phase[e] = "waiting"
        /\ ~(Unserved(e) /\ answer[e] # None)
        /\ \A i, j \in DOMAIN inbox : inbox[i].from = e /\ inbox[j].from = e => i = j
        /\ (\E i \in DOMAIN inbox : inbox[i].from = e) => clntAddr # e
    BY <1>1 DEF Lockstep
  <2>2. CASE e = c
    BY <1>1, <1>2, <1>3, <1>4, <2>1, <2>2
  <2>3. CASE e # c
    BY <1>1, <1>2, <1>4, <2>1, <2>3
  <2> QED
    BY <2>2, <2>3
<1>7. OwnBytes'
  <2>1. ASSUME NEW e \in Client, Unserved(e)
        PROVE  line'[e] = line[e]
    BY <1>1, <1>2, <1>3, <2>1
  <2>2. ASSUME NEW i \in DOMAIN inbox'
        PROVE  (inbox[i].cells = SentBy(inbox[i].from))'
    <3>1. inbox[i].from \in Client /\ i \in DOMAIN inbox
      BY <1>1, <1>2, Senders
    <3>2. Unserved(inbox[i].from)
      BY <3>1 DEF Unserved
    <3> QED
      BY <1>1, <2>1, <3>1, <3>2 DEF OwnBytes, SentBy
  <2>3. ASSUME armed' = "WRITE"
        PROVE  (/\ line[clntAddr] # None
                /\ SubSeq(memory, 1, write) = Taken(SentBy(clntAddr)))'
    <3>1. armed = "WRITE" /\ clntAddr \in Client /\ Unserved(clntAddr)
      BY <1>1, <2>3 DEF TypeOK, Unserved
    <3> QED
      BY <1>1, <2>1, <3>1 DEF OwnBytes, SentBy, Taken
  <2> QED
    BY <2>2, <2>3 DEF OwnBytes
<1> QED
  BY <1>5, <1>6, <1>7 DEF IInv

\* Bytes nobody touches stay their senders'.
LEMMA BytesStay ==
  ASSUME OwnBytes, UNCHANGED <<memory, write, armed, clntAddr, inbox, line>>
  PROVE  OwnBytes'
BY DEF OwnBytes, SentBy, Typed, Taken

LEMMA QuitStep ==
  ASSUME IInv, NEW c \in Client, Quit(c)
  PROVE  IInv'
<1>1. /\ TypeOK /\ Lockstep /\ OwnBytes
      /\ phase[c] = "prompt" /\ phase' = [phase EXCEPT ![c] = "quit"]
      /\ UNCHANGED <<password, memory, write, armed, clntAddr, stats, inbox, answer, line>>
  BY DEF IInv, Quit, serverVars
<1>2. phase \in [Client -> {"prompt", "waiting", "quit"}]
  BY <1>1 DEF TypeOK
<1>3. TypeOK' /\ OwnBytes'
  <2>1. phase' \in [Client -> {"prompt", "waiting", "quit"}]
    BY <1>1, <1>2
  <2>2. TypeOK'
    BY <1>1, <2>1 DEF TypeOK
  <2> QED
    BY <1>1, <2>2, BytesStay
<1>4. \A e \in Client : Unserved(e)' = Unserved(e)
  BY <1>1 DEF Unserved
<1>5. \A e \in Client : phase[e] = "waiting" => phase'[e] = "waiting"
  BY <1>1, <1>2
<1>6. Lockstep'
  BY <1>1, <1>4, <1>5 DEF Lockstep
<1> QED
  BY <1>3, <1>6 DEF IInv

\* A step that leaves everything but the count of connections leaves all the rest.
LEMMA NewConnectionStep ==
  ASSUME IInv, stats_new_connection
  PROVE  IInv'
<1>1. /\ TypeOK /\ Lockstep /\ OwnBytes
      /\ stats.historic < MaxConnections
      /\ stats' = [stats EXCEPT !.historic = @ + 1, !.current = @ + 1]
      /\ UNCHANGED <<password, memory, write, armed, clntAddr, inbox, answer, phase, line>>
  BY DEF IInv, stats_new_connection, serverVars, clientVars
<1>2. stats' \in Counters /\ stats'.current <= stats'.historic
  <2>1. stats \in Counters /\ stats.current <= stats.historic /\ MaxConnections \in Nat
    BY <1>1, AdminAssumption DEF TypeOK
  <2>2. /\ stats.historic + 1 \in 0 .. MaxConnections
        /\ stats.current + 1 \in 0 .. MaxConnections
        /\ stats.current + 1 <= stats.historic + 1
        /\ stats.bytes \in 0 .. MaxBytes
    BY <1>1, <2>1 DEF Counters
  <2>3. stats' = [historic |-> stats.historic + 1, current |-> stats.current + 1,
                  bytes |-> stats.bytes]
    BY <1>1, <2>1 DEF Counters
  <2> QED
    BY <2>2, <2>3 DEF Counters
<1>3. TypeOK'
  BY <1>1, <1>2 DEF TypeOK
<1>4. OwnBytes'
  BY <1>1, BytesStay
<1>5. Lockstep'
  BY <1>1 DEF Lockstep, Unserved
<1> QED
  BY <1>3, <1>4, <1>5 DEF IInv

\* So does one that leaves everything but the count of bytes.
LEMMA RequestSendStep ==
  ASSUME IInv, NEW size \in 1 .. MaxBytes, request_send(size)
  PROVE  IInv'
<1>1. /\ TypeOK /\ Lockstep /\ OwnBytes
      /\ stats.bytes + size + 1 <= MaxBytes
      /\ stats' = [stats EXCEPT !.bytes = @ + size + 1]
      /\ UNCHANGED <<password, memory, write, armed, clntAddr, inbox, answer, phase, line>>
  BY DEF IInv, request_send, serverVars, clientVars
<1>2. stats' \in Counters /\ stats'.current <= stats'.historic
  <2>1. stats \in Counters /\ stats.current <= stats.historic /\ MaxBytes \in Nat
    BY <1>1, AdminAssumption DEF TypeOK
  <2>2. /\ stats.bytes + size + 1 \in 0 .. MaxBytes
        /\ stats.historic \in 0 .. MaxConnections /\ stats.current \in 0 .. MaxConnections
    BY <1>1, <2>1 DEF Counters
  <2>3. stats' = [historic |-> stats.historic, current |-> stats.current,
                  bytes |-> stats.bytes + size + 1]
    BY <1>1, <2>1 DEF Counters
  <2> QED
    BY <2>1, <2>2, <2>3 DEF Counters
<1>3. TypeOK'
  BY <1>1, <1>2 DEF TypeOK
<1>4. OwnBytes'
  BY <1>1, BytesStay
<1>5. Lockstep'
  BY <1>1 DEF Lockstep, Unserved
<1> QED
  BY <1>3, <1>4, <1>5 DEF IInv

LEMMA Stutter ==
  ASSUME IInv, UNCHANGED vars
  PROVE  IInv'
<1>1. /\ TypeOK /\ Lockstep /\ OwnBytes
      /\ UNCHANGED <<password, memory, write, armed, clntAddr, stats, inbox, answer,
                     phase, line>>
  BY DEF IInv, vars, serverVars, clientVars
<1>2. TypeOK'
  BY <1>1 DEF TypeOK
<1>3. Lockstep'
  BY <1>1 DEF Lockstep, Unserved
<1>4. OwnBytes'
  BY <1>1, BytesStay
<1> QED
  BY <1>2, <1>3, <1>4 DEF IInv

\* A datagram that is read is its sender's only one, so no other is left in the socket;
\* and the buffer was reset, so its bytes are those up to the write pointer.
LEMMA ReadStep ==
  ASSUME IInv, udp_read
  PROVE  IInv'
<1> DEFINE from == Head(inbox).from
           cells == Taken(Head(inbox).cells)
<1>1. /\ TypeOK /\ Lockstep /\ OwnBytes
      /\ armed = "READ" /\ inbox # << >> /\ inbox' = Tail(inbox)
      /\ \/ /\ cells = << >> /\ armed' = "exit"
            /\ UNCHANGED <<memory, write, clntAddr>>
         \/ /\ cells # << >>
            /\ memory' = Overlay(cells) /\ write' = write + Len(cells)
            /\ clntAddr' = from /\ armed' = "WRITE"
      /\ UNCHANGED <<password, stats, answer, phase, line>>
  BY DEF IInv, udp_read, clientVars
<1>2. /\ inbox \in Seq(Datagram) /\ memory \in Seq(Cell)
      /\ write = 0 /\ clntAddr = None /\ None \notin Client
      /\ line \in [Client -> Lines \cup {None}]
  BY <1>1, AdminAssumption DEF TypeOK
<1>3. /\ inbox' \in Seq(Datagram)
      /\ Head(inbox) = inbox[1] /\ 1 \in DOMAIN inbox
      /\ \A i \in DOMAIN inbox' : i \in Nat \ {0} /\ i + 1 \in DOMAIN inbox
                                  /\ inbox'[i] = inbox[i + 1]
  BY <1>1, <1>2, Shrunk
<1>4. from \in Client /\ Head(inbox).cells \in Seq(Cell) /\ inbox[1].from = from
  BY <1>2, <1>3, Senders
<1>5. Head(inbox).cells = SentBy(from)
  BY <1>1, <1>3 DEF OwnBytes
<1>6. cells \in Seq(Cell) /\ cells = Taken(SentBy(from))
  BY <1>4, <1>5, TakenIsSeq
<1>7. cells # << >> => line[from] # None
  BY <1>4, <1>5, TakenIsSeq DEF SentBy
<1>8. /\ Overlay(cells) \in Seq(Cell)
      /\ write + Len(cells) \in 0 .. Len(Overlay(cells))
      /\ SubSeq(Overlay(cells), 1, write + Len(cells)) = cells
  <2> HIDE DEF cells
  <2> QED
    BY <1>2, <1>6, OverlayFromZero
<1> HIDE DEF from, cells
<1>9. TypeOK'
  BY <1>1, <1>2, <1>3, <1>4, <1>8 DEF TypeOK
<1>10. Lockstep'
  <2> SUFFICES ASSUME NEW e \in Client
               PROVE  (/\ Unserved(e) \/ answer[e] # None => phase[e] = "waiting"
                       /\ ~(Unserved(e) /\ answer[e] # None)
                       /\ \A i, j \in DOMAIN inbox :
                            inbox[i].from = e /\ inbox[j].from = e => i = j
                       /\ (\E i \in DOMAIN inbox : inbox[i].from = e) => clntAddr # e)'
    BY DEF Lockstep
  <2>1. /\ Unserved(e) \/ answer[e] # None => phase[e] = "waiting"
        /\ ~(Unserved(e) /\ answer[e] # None)
        /\ \A i, j \in DOMAIN inbox : inbox[i].from = e /\ inbox[j].from = e => i = j
    BY <1>1 DEF Lockstep
  <2>2. Unserved(e)' => Unserved(e)
    BY <1>1, <1>2, <1>3, <1>4 DEF Unserved
  <2>3. \A i, j \in DOMAIN inbox' : inbox'[i].from = e /\ inbox'[j].from = e => i = j
    <3> SUFFICES ASSUME NEW i \in DOMAIN inbox', NEW j \in DOMAIN inbox',
                        inbox'[i].from = e, inbox'[j].from = e
                 PROVE  i = j
      OBVIOUS
    <3>1. i + 1 = j + 1 /\ i \in Nat /\ j \in Nat
      BY <1>3, <2>1
    <3> QED
      BY <3>1
  <2>4. (\E i \in DOMAIN inbox' : inbox'[i].from = e) => from # e
    <3> SUFFICES ASSUME NEW i \in DOMAIN inbox', inbox'[i].from = e, from = e
                 PROVE  FALSE
      OBVIOUS
    <3>1. i + 1 = 1 /\ i \in Nat \ {0}
      BY <1>3, <1>4, <2>1
    <3> QED
      BY <3>1
  <2> QED
    BY <1>1, <1>2, <2>1, <2>2, <2>3, <2>4
<1>11. OwnBytes'
  <2>1. ASSUME NEW i \in DOMAIN inbox'
        PROVE  (inbox[i].cells = SentBy(inbox[i].from))'
    BY <1>1, <1>3 DEF OwnBytes, SentBy, Typed
  <2>2. ASSUME armed' = "WRITE"
        PROVE  (/\ line[clntAddr] # None
                /\ SubSeq(memory, 1, write) = Taken(SentBy(clntAddr)))'
    <3>1. /\ cells # << >> /\ clntAddr' = from
          /\ memory' = Overlay(cells) /\ write' = write + Len(cells)
      BY <1>1, <2>2
    <3>2. SubSeq(memory', 1, write') = Taken(SentBy(from))
      BY <1>6, <1>8, <3>1
    <3>3. Taken(SentBy(clntAddr))' = Taken(SentBy(from))
      BY <1>1, <3>1 DEF SentBy, Typed, Taken
    <3> QED
      BY <1>1, <1>7, <3>1, <3>2, <3>3
  <2> QED
    BY <2>1, <2>2 DEF OwnBytes
<1> QED
  BY <1>9, <1>10, <1>11 DEF IInv

\* Whatever the command, one answer goes to the sender or to nobody, and only an
\* argument of the right length becomes the password.
LEMMA OneAnswer ==
  ASSUME TypeOK, Answers
  PROVE  /\ answer' = answer \/ \E r \in Answer : answer' = [answer EXCEPT ![clntAddr] = r]
         /\ password' \in Seq(Cell) /\ Len(password') = PASS_LEN
<1>1. stats \in Counters /\ password \in Seq(Cell) /\ Len(password) = PASS_LEN
      /\ memory \in Seq(Cell)
  BY DEF TypeOK
<1>2. \A r \in Answer : Reply(r) =>
        answer' = answer \/ \E s \in Answer : answer' = [answer EXCEPT ![clntAddr] = s]
  BY DEF Reply
<1>3. /\ \A k \in Kind \ {"stats"} : [kind |-> k] \in Answer
      /\ [kind |-> "stats", stats |-> stats] \in Answer
  BY <1>1 DEF Answer
<1>4. \A k \in {"unauthorized", "help", "size", "ok", "incorrect argument", "unknown"} :
        [kind |-> k] \in Answer
  BY <1>3 DEF Kind
<1>5. CASE ~validate_password
  BY <1>1, <1>2, <1>4, <1>5 DEF Answers, Keeps
<1>6. CASE validate_password
  <2>1. CASE validate_options = "SET_AUTH"
    <3>1. SetAuth
      BY <1>6, <2>1 DEF Answers
    <3>2. CASE Len(parse_get_set_arguments) # PASS_LEN
      BY <1>1, <1>2, <1>4, <3>1, <3>2 DEF SetAuth, Keeps
    <3>3. CASE Len(parse_get_set_arguments) = PASS_LEN
      <4>1. parse_get_set_arguments \in Seq(Cell)
        BY <1>1, <1>6, ArgumentIsSeq
      <4>2. Reply([kind |-> "ok"]) /\ password' = parse_get_set_arguments
        BY <3>1, <3>3 DEF SetAuth, set_admin_password
      <4> QED
        BY <1>2, <1>4, <3>3, <4>1, <4>2
    <3> QED
      BY <3>2, <3>3
  <2>2. CASE validate_options # "SET_AUTH"
    <3>1. /\ Keeps
          /\ \/ Reply([kind |-> "help"]) \/ Reply([kind |-> "size"])
             \/ Reply([kind |-> "stats", stats |-> stats]) \/ Reply([kind |-> "unknown"])
      BY <1>6, <2>2 DEF Answers
    <3>2. password' = password
      BY <3>1 DEF Keeps
    <3> QED
      BY <1>1, <1>2, <1>3, <1>4, <3>1, <3>2
  <2> QED
    BY <2>1, <2>2
<1> QED
  BY <1>5, <1>6

\* The answer goes to the client whose datagram it is, which has no other and no answer.
LEMMA WriteStep ==
  ASSUME IInv, udp_write
  PROVE  IInv'
<1>1. /\ TypeOK /\ Lockstep /\ OwnBytes
      /\ armed = "WRITE" /\ Answers
      /\ write' = 0 /\ clntAddr' = None /\ armed' = "READ"
      /\ UNCHANGED <<memory, stats, inbox, phase, line>>
  BY DEF IInv, udp_write, clientVars
<1>2. /\ clntAddr \in Client /\ None \notin Client
      /\ answer \in [Client -> Answer \cup {None}]
      /\ inbox \in Seq(Datagram) /\ memory \in Seq(Cell)
  BY <1>1, AdminAssumption DEF TypeOK
<1>3. /\ answer' = answer \/ \E r \in Answer : answer' = [answer EXCEPT ![clntAddr] = r]
      /\ password' \in Seq(Cell) /\ Len(password') = PASS_LEN
  BY <1>1, OneAnswer
<1>4. /\ answer' \in [Client -> Answer \cup {None}]
      /\ \A e \in Client : e # clntAddr => answer'[e] = answer[e]
  BY <1>2, <1>3
<1>5. TypeOK'
  <2>1. Len(memory') \in Nat
    BY <1>1, <1>2, LenProperties
  <2> QED
    BY <1>1, <1>2, <1>3, <1>4, <2>1 DEF TypeOK
<1>6. Lockstep'
  <2> SUFFICES ASSUME NEW e \in Client
               PROVE  (/\ Unserved(e) \/ answer[e] # None => phase[e] = "waiting"
                       /\ ~(Unserved(e) /\ answer[e] # None)
                       /\ \A i, j \in DOMAIN inbox :
                            inbox[i].from = e /\ inbox[j].from = e => i = j
                       /\ (\E i \in DOMAIN inbox : inbox[i].from = e) => clntAddr # e)'
    BY DEF Lockstep
  <2>1. /\ Unserved(e) \/ answer[e] # None => phase[e] = "waiting"
        /\ ~(Unserved(e) /\ answer[e] # None)
        /\ \A i, j \in DOMAIN inbox : inbox[i].from = e /\ inbox[j].from = e => i = j
        /\ (\E i \in DOMAIN inbox : inbox[i].from = e) => clntAddr # e
    BY <1>1 DEF Lockstep
  <2>2. Unserved(e)' <=> \E i \in DOMAIN inbox : inbox[i].from = e
    BY <1>1 DEF Unserved
  <2>3. Unserved(e)' => Unserved(e)
    BY <2>2 DEF Unserved
  <2>4. CASE e = clntAddr
    <3>1. Unserved(e) /\ ~Unserved(e)'
      BY <1>1, <2>1, <2>2, <2>4 DEF Unserved
    <3> QED
      BY <1>1, <1>2, <2>1, <3>1
  <2>5. CASE e # clntAddr
    BY <1>1, <1>2, <1>4, <2>1, <2>3, <2>5
  <2> QED
    BY <2>4, <2>5
<1>7. OwnBytes'
  BY <1>1 DEF OwnBytes, SentBy, Typed, Taken
<1> QED
  BY <1>5, <1>6, <1>7 DEF IInv

(***************************************************************************)
(* Theorems                                                                *)
(***************************************************************************)

\* Every step keeps the invariant: types, clients and server in step, and datagrams
\* served by their own bytes.
THEOREM Invariance ==
  Spec => []IInv
<1>1. Init => IInv
  BY InitInvariant
<1>2. IInv /\ [Next]_vars => IInv'
  <2> SUFFICES ASSUME IInv, [Next]_vars
               PROVE  IInv'
    OBVIOUS
  <2>1. ASSUME NEW c \in Client, SendLine(c)
        PROVE  IInv'
    <3>1. PICK l \in Lines : Send(c, l, Typed(l))
      BY <2>1 DEF SendLine
    <3>2. Typed(l) \in Seq(Cell) /\ l # None
      BY TypedIsSeq, AdminAssumption
    <3> QED
      BY <3>1, <3>2, SendStep
  <2>2. ASSUME NEW c \in Client, SendNothing(c)
        PROVE  IInv'
    <3>1. << >> \in Seq(Cell) /\ Send(c, None, << >>)
      BY <2>2, EmptySeq DEF SendNothing
    <3> QED
      BY <3>1, SendStep
  <2>3. ASSUME NEW c \in Client, Receive(c) \/ Quit(c)
        PROVE  IInv'
    BY <2>3, ReceiveStep, QuitStep
  <2>4. CASE udp_read
    BY <2>4, ReadStep
  <2>5. CASE udp_write
    BY <2>5, WriteStep
  <2>6. CASE stats_new_connection
    BY <2>6, NewConnectionStep
  <2>7. ASSUME NEW size \in 1 .. MaxBytes, request_send(size)
        PROVE  IInv'
    BY <2>7, RequestSendStep
  <2>8. CASE Silent \/ UNCHANGED vars
    BY <2>8, Stutter DEF Silent
  <2> QED
    BY <2>1, <2>2, <2>3, <2>4, <2>5, <2>6, <2>7, <2>8 DEF Next
<1> QED
  BY <1>1, <1>2, PTL DEF Spec

\* The password keeps its length whatever SET_AUTH is sent, the write pointer stays
\* inside the memory, and a sender is known exactly while an answer is due.
THEOREM TypeCorrect ==
  Spec => []TypeOK
<1>1. IInv => TypeOK
  BY DEF IInv
<1> QED
  BY <1>1, Invariance, PTL

\* Whoever waits has one datagram on its way or one answer, and nobody else has any:
\* udp_write never answers a client twice or one that did not ask.
THEOREM InStep ==
  Spec => []Lockstep
<1>1. IInv => Lockstep
  BY DEF IInv
<1> QED
  BY <1>1, Invariance, PTL

\* Up to its write pointer the buffer holds what the client it answers sent last:
\* udp_write resets it before udp_read reads the next datagram.
THEOREM ServedByOwnBytes ==
  Spec => []OwnBytes
<1>1. IInv => OwnBytes
  BY DEF IInv
<1> QED
  BY <1>1, Invariance, PTL

(***************************************************************************)
(* Documented lines                                                        *)
(***************************************************************************)

\* No argument is nothing, and one is itself.
LEMMA FlattenFew ==
  ASSUME NEW s, NEW n \in {0, 1}, Len(s) = n
  PROVE  FlattenSeq(s) = IF n = 0 THEN s ELSE s[1]
<1> DEFINE flat == CHOOSE f : Joined(f, s, n)
<1>1. Joined(flat, s, n)
  BY JoinedExists
<1>2. Stepwise(flat, s, n)
  <2> HIDE DEF flat
  <2> QED
    BY <1>1, JoinedStepwise
<1>3. FlattenSeq(s) = IF n = 0 THEN s ELSE flat[n]
  BY DEF FlattenSeq, Joined
<1> HIDE DEF flat
<1>4. n = 1 => flat[1] = s[1]
  BY <1>2 DEF Stepwise
<1> QED
  BY <1>3, <1>4

\* u is s and then t.
IsJoin(u, s, t) ==
  /\ Len(s) \in Nat /\ Len(t) \in Nat /\ Len(u) = Len(s) + Len(t)
  /\ \A i \in 1 .. Len(s) : u[i] = s[i]
  /\ \A i \in 1 .. Len(t) : u[Len(s) + i] = t[i]

LEMMA JoinIsJoin ==
  ASSUME NEW T, NEW s \in Seq(T), NEW t \in Seq(T), NEW u, u = s \o t
  PROVE  u \in Seq(T) /\ IsJoin(u, s, t)
<1>1. /\ s \o t \in Seq(T)
      /\ Len(s \o t) = Len(s) + Len(t)
      /\ \A i \in 1 .. Len(s) + Len(t) :
           (s \o t)[i] = IF i <= Len(s) THEN s[i] ELSE t[i - Len(s)]
  BY JoinIsSeq
<1>2. Len(s) \in Nat /\ Len(t) \in Nat
  BY LenProperties
<1>3. /\ u \in Seq(T)
      /\ Len(u) = Len(s) + Len(t)
      /\ \A i \in 1 .. Len(s) + Len(t) : u[i] = IF i <= Len(s) THEN s[i] ELSE t[i - Len(s)]
  BY <1>1
<1>4. ASSUME NEW i \in 1 .. Len(s)
      PROVE  u[i] = s[i]
  BY <1>2, <1>3
<1>5. ASSUME NEW i \in 1 .. Len(t)
      PROVE  u[Len(s) + i] = t[i]
  BY <1>2, <1>3
<1> QED
  BY <1>2, <1>3, <1>4, <1>5 DEF IsJoin

\* A sequence, a cell, two sequences and a cell, one after the other.
Glue(t, x, p, y, z, r) ==
  /\ Len(x) \in Nat /\ Len(y) \in Nat /\ Len(z) \in Nat
  /\ Len(t) = Len(x) + Len(y) + Len(z) + 2
  /\ \A i \in 1 .. Len(x) : t[i] = x[i]
  /\ t[Len(x) + 1] = p
  /\ \A i \in 1 .. Len(y) : t[Len(x) + 1 + i] = y[i]
  /\ \A i \in 1 .. Len(z) : t[Len(x) + 1 + Len(y) + i] = z[i]
  /\ t[Len(x) + Len(y) + Len(z) + 2] = r

LEMMA Glued ==
  ASSUME NEW T, NEW x \in Seq(T), NEW p \in T, NEW y \in Seq(T), NEW z \in Seq(T),
         NEW r \in T, NEW t, t = (((x \o <<p>>) \o y) \o z) \o <<r>>
  PROVE  t \in Seq(T) /\ Glue(t, x, p, y, z, r)
<1> DEFINE first == <<p>>
           one == <<r>>
           xp == x \o first
           xy == xp \o y
           xz == xy \o z
<1>1. /\ first \in Seq(T) /\ Len(first) = 1 /\ first[1] = p
      /\ one \in Seq(T) /\ Len(one) = 1 /\ one[1] = r
  BY ShortSeqs
<1>2. t = xz \o one
  OBVIOUS
<1> HIDE DEF first, one
<1>3. xp \in Seq(T) /\ IsJoin(xp, x, first)
  BY <1>1, JoinIsJoin
<1> HIDE DEF xp
<1>4. xy \in Seq(T) /\ IsJoin(xy, xp, y)
  BY <1>3, JoinIsJoin
<1> HIDE DEF xy
<1>5. xz \in Seq(T) /\ IsJoin(xz, xy, z)
  BY <1>4, JoinIsJoin
<1> HIDE DEF xz
<1>6. t \in Seq(T) /\ IsJoin(t, xz, one)
  BY <1>1, <1>2, <1>5, JoinIsJoin
<1>7. /\ Len(x) \in Nat /\ Len(y) \in Nat /\ Len(z) \in Nat
      /\ Len(xp) = Len(x) + 1 /\ Len(xy) = Len(x) + 1 + Len(y)
      /\ Len(xz) = Len(x) + 1 + Len(y) + Len(z)
      /\ Len(t) = Len(x) + Len(y) + Len(z) + 2
  BY <1>1, <1>3, <1>4, <1>5, <1>6 DEF IsJoin
<1>8. ASSUME NEW i \in 1 .. Len(x) + 1
      PROVE  t[i] = xp[i]
  <2>1. i \in 1 .. Len(xp) /\ i \in 1 .. Len(xy) /\ i \in 1 .. Len(xz)
    BY <1>7
  <2> QED
    BY <1>4, <1>5, <1>6, <2>1 DEF IsJoin
<1>9. ASSUME NEW i \in 1 .. Len(x)
      PROVE  t[i] = x[i]
  <2>1. i \in 1 .. Len(x) + 1
    BY <1>7
  <2> QED
    BY <1>3, <1>8, <2>1 DEF IsJoin
<1>10. t[Len(x) + 1] = p
  <2>1. 1 \in 1 .. Len(first) /\ Len(x) + 1 \in 1 .. Len(x) + 1
    BY <1>1, <1>7
  <2> QED
    BY <1>1, <1>3, <1>8, <2>1 DEF IsJoin
<1>11. ASSUME NEW i \in 1 .. Len(y)
       PROVE  t[Len(x) + 1 + i] = y[i]
  <2>1. /\ Len(xp) + i = Len(x) + 1 + i
        /\ Len(xp) + i \in 1 .. Len(xy) /\ Len(xp) + i \in 1 .. Len(xz)
    BY <1>7
  <2> QED
    BY <1>4, <1>5, <1>6, <2>1 DEF IsJoin
<1>12. ASSUME NEW i \in 1 .. Len(z)
       PROVE  t[Len(x) + 1 + Len(y) + i] = z[i]
  <2>1. /\ Len(xy) + i = Len(x) + 1 + Len(y) + i
        /\ Len(xy) + i \in 1 .. Len(xz)
    BY <1>7
  <2> QED
    BY <1>5, <1>6, <2>1 DEF IsJoin
<1>13. t[Len(x) + Len(y) + Len(z) + 2] = r
  <2>1. 1 \in 1 .. Len(one) /\ Len(xz) + 1 = Len(x) + Len(y) + Len(z) + 2
    BY <1>1, <1>7
  <2> QED
    BY <1>1, <1>6, <2>1 DEF IsJoin
<1> QED
  BY <1>6, <1>7, <1>9, <1>10, <1>11, <1>12, <1>13 DEF Glue

\* What follows the command of a line.
Behind(l) == Len(l.auth) + Len(l.command) + 2

\* The cells of a documented line.
Shape(l, t) ==
  LET a == Len(l.auth)
      e == Behind(l)
      g == l.arguments[1]
  IN /\ t \in Seq(Cell) /\ l.auth \in Seq(Glyph) /\ l.command \in Seq(Glyph)
     /\ a \in Nat /\ Len(l.command) \in Nat /\ e \in Nat /\ e = a + Len(l.command) + 2
     /\ Len(t) >= e
     /\ \A i \in 1 .. a : t[i] = l.auth[i] /\ t[i] \in Glyph
     /\ t[a + 1] = SP
     /\ \A i \in 1 .. Len(l.command) :
          t[a + 1 + i] = l.command[i] /\ l.command[i] \in Glyph
     /\ \/ l.arguments = << >> /\ Len(t) = e /\ t[e] = NL
        \/ /\ Len(l.arguments) = 1 /\ l.command = Name["SET_AUTH"]
           /\ g \in Seq(Glyph) /\ Len(g) \in Nat
           /\ Len(t) = e + 1 + Len(g)
           /\ t[e] = SP
           /\ \A i \in 1 .. Len(g) : t[e + i] = g[i] /\ g[i] \in Glyph
           /\ t[e + 1 + Len(g)] = NL

LEMMA TypedShape ==
  ASSUME Documented, NEW l \in Lines
  PROVE  Shape(l, Typed(l))
<1>1. /\ l.auth \in Seq(Glyph) /\ l.command \in Seq(Glyph)
      /\ l.arguments \in Seq(Seq(Glyph))
      /\ Len(l.arguments) \in {0, 1}
      /\ Len(l.arguments) = 1 => l.command = Name["SET_AUTH"]
  <2>1. /\ l.auth \in Seq(Glyph) /\ l.command \in Seq(Glyph)
        /\ l.arguments \in Seq(Seq(Glyph))
    BY AdminAssumption
  <2>2. /\ Len(l.arguments) \in Nat /\ Len(l.arguments) <= 1
        /\ Len(l.arguments) # 0 => l.command = Name["SET_AUTH"]
    <3>1. l.arguments = << >> => Len(l.arguments) = 0
      OBVIOUS
    <3> QED
      BY <2>1, <3>1, LenProperties DEF Documented
  <2>3. Len(l.arguments) \in {0, 1}
    <3>1. \A k \in Nat : k <= 1 => k \in {0, 1}
      OBVIOUS
    <3> QED
      BY <2>2, <3>1
  <2>4. Len(l.arguments) = 1 => l.command = Name["SET_AUTH"]
    BY <2>2
  <2> QED
    BY <2>1, <2>3, <2>4
<1> DEFINE a == Len(l.auth)
           m == Len(l.command)
           e == Behind(l)
           n == Len(l.arguments)
           g == l.arguments[1]
           words == [i \in DOMAIN l.arguments |-> <<SP>> \o l.arguments[i]]
           rest == FlattenSeq(words)
           t == (((l.auth \o <<SP>>) \o l.command) \o rest) \o <<NL>>
<1>2. SP \in Cell /\ NL \in Cell /\ Glyph \subseteq Cell
  BY DEF Cell
<1>3. /\ l.auth \in Seq(Cell) /\ l.command \in Seq(Cell)
      /\ a \in Nat /\ \A i \in 1 .. a : l.auth[i] \in Glyph
      /\ m \in Nat /\ \A i \in 1 .. m : l.command[i] \in Glyph
      /\ e = a + m + 2 /\ e \in Nat
  <2>1. l.auth \in Seq(Cell) /\ l.command \in Seq(Cell)
    BY <1>1, <1>2, SeqMonotonic
  <2>2. a \in Nat /\ m \in Nat
    BY <1>1, LenProperties
  <2>3. /\ \A i \in 1 .. a : l.auth[i] \in Glyph
        /\ \A i \in 1 .. m : l.command[i] \in Glyph
    BY <1>1, ElementOfSeq
  <2>4. e = a + m + 2
    BY DEF Behind
  <2> HIDE DEF a, m, e
  <2>5. e \in Nat
    BY <2>2, <2>4
  <2> QED
    BY <2>1, <2>2, <2>3, <2>4, <2>5 DEF a, m
<1>4. DOMAIN l.arguments = 1 .. n
  BY <1>1, LenProperties
<1>5. rest = IF n = 0 THEN << >> ELSE <<SP>> \o g
  <2>1. words = [i \in 1 .. n |-> <<SP>> \o l.arguments[i]]
    BY <1>4
  <2>2. Len(words) = n /\ (n = 0 => words = << >>) /\ (n = 1 => words[1] = <<SP>> \o g)
    BY <1>1, <2>1
  <2> HIDE DEF words
  <2> QED
    BY <1>1, <2>2, FlattenFew
<1>6. Typed(l) = t
  BY DEF Typed
<1> HIDE DEF rest
<1>7. ASSUME rest \in Seq(Cell)
      PROVE  /\ t \in Seq(Cell)
             /\ Len(t) = e + Len(rest) /\ Len(rest) \in Nat
             /\ \A i \in 1 .. a : t[i] = l.auth[i] /\ t[i] \in Glyph
             /\ t[a + 1] = SP
             /\ \A i \in 1 .. m : t[a + 1 + i] = l.command[i] /\ l.command[i] \in Glyph
             /\ \A i \in 1 .. Len(rest) : t[e - 1 + i] = rest[i]
             /\ t[e + Len(rest)] = NL
  <2> DEFINE x == l.auth
             y == l.command
  <2>1. x \in Seq(Cell) /\ y \in Seq(Cell) /\ t = (((x \o <<SP>>) \o y) \o rest) \o <<NL>>
    BY <1>3
  <2> HIDE DEF x, y, t
  <2>2. t \in Seq(Cell) /\ Glue(t, x, SP, y, rest, NL)
    BY <1>2, <1>7, <2>1, Glued
  <2>3. t \in Seq(Cell) /\ Glue(t, l.auth, SP, l.command, rest, NL)
    BY <2>2 DEF x, y
  <2>4. /\ Len(rest) \in Nat /\ Len(t) = a + m + Len(rest) + 2
        /\ \A i \in 1 .. a : t[i] = l.auth[i]
        /\ t[a + 1] = SP
        /\ \A i \in 1 .. m : t[a + 1 + i] = l.command[i]
        /\ \A i \in 1 .. Len(rest) : t[a + 1 + m + i] = rest[i]
        /\ t[a + m + Len(rest) + 2] = NL
    BY <2>3 DEF Glue
  <2> HIDE DEF a, m, e
  <2>5. e - 1 = a + 1 + m /\ e + Len(rest) = a + m + Len(rest) + 2
    BY <1>3, <2>4
  <2>6. \A i \in 1 .. a : t[i] \in Glyph
    BY <1>3, <2>4
  <2> QED
    BY <1>3, <2>3, <2>4, <2>5, <2>6
<1> HIDE DEF t, a, m, e
<1>8. CASE n = 0
  <2>1. rest = << >> /\ l.arguments = << >>
    BY <1>1, <1>5, <1>8
  <2>2. rest \in Seq(Cell) /\ Len(rest) = 0
    BY <2>1, EmptySeq
  <2>3. /\ t \in Seq(Cell) /\ Len(t) = e /\ Len(t) >= e
        /\ \A i \in 1 .. a : t[i] = l.auth[i] /\ t[i] \in Glyph
        /\ t[a + 1] = SP
        /\ \A i \in 1 .. m : t[a + 1 + i] = l.command[i] /\ l.command[i] \in Glyph
        /\ t[e] = NL
    BY <1>3, <1>7, <2>2
  <2>4. Shape(l, t)
    BY <1>1, <1>3, <2>1, <2>3 DEF Shape, a, m, e
  <2> QED
    BY <1>6, <2>4
<1>9. CASE n = 1
  <2>1. g \in Seq(Glyph)
    BY <1>1, <1>9, ElementOfSeq
  <2> HIDE DEF g
  <2>2. g \in Seq(Cell) /\ Len(g) \in Nat /\ \A i \in 1 .. Len(g) : g[i] \in Glyph
    BY <1>2, <2>1, SeqMonotonic, LenProperties, ElementOfSeq
  <2> DEFINE space == <<SP>>
  <2>3. space \in Seq(Cell) /\ Len(space) = 1 /\ space[1] = SP /\ rest = space \o g
    BY <1>2, <1>5, <1>9, ShortSeqs
  <2> HIDE DEF space
  <2>4. rest \in Seq(Cell) /\ IsJoin(rest, space, g)
    BY <2>2, <2>3, JoinIsJoin
  <2>5. /\ Len(rest) = 1 + Len(g)
        /\ rest[1] = SP /\ \A i \in 1 .. Len(g) : rest[1 + i] = g[i]
    <3>1. 1 \in 1 .. Len(space)
      BY <2>3
    <3> QED
      BY <2>3, <2>4, <3>1 DEF IsJoin
  <2>6. /\ t \in Seq(Cell)
        /\ Len(t) = e + Len(rest)
        /\ \A i \in 1 .. a : t[i] = l.auth[i] /\ t[i] \in Glyph
        /\ t[a + 1] = SP
        /\ \A i \in 1 .. m : t[a + 1 + i] = l.command[i] /\ l.command[i] \in Glyph
        /\ \A i \in 1 .. Len(rest) : t[e - 1 + i] = rest[i]
        /\ t[e + Len(rest)] = NL
    BY <1>7, <2>4
  <2>7. Len(t) = e + 1 + Len(g) /\ t[e + 1 + Len(g)] = NL /\ Len(t) >= e
    <3>1. e + Len(rest) = e + 1 + Len(g)
      BY <1>3, <2>2, <2>5
    <3> QED
      BY <1>3, <2>2, <2>6, <3>1
  <2>8. t[e] = SP
    <3>1. 1 \in 1 .. Len(rest) /\ e - 1 + 1 = e
      BY <1>3, <2>2, <2>5
    <3> QED
      BY <2>5, <2>6, <3>1
  <2>9. ASSUME NEW i \in 1 .. Len(g)
        PROVE  t[e + i] = g[i] /\ g[i] \in Glyph
    <3>1. 1 + i \in 1 .. Len(rest) /\ e - 1 + (1 + i) = e + i
      BY <1>3, <2>2, <2>5
    <3>2. t[e - 1 + (1 + i)] = rest[1 + i]
      BY <2>6, <3>1
    <3> QED
      BY <2>2, <2>5, <3>1, <3>2
  <2>10. /\ Len(l.arguments) = 1 /\ l.command = Name["SET_AUTH"]
         /\ \A i \in 1 .. a : t[i] = l.auth[i] /\ t[i] \in Glyph
    BY <1>1, <1>9, <2>6
  <2>11. Shape(l, t)
    BY <1>1, <1>3, <2>1, <2>2, <2>6, <2>7, <2>8, <2>9, <2>10 DEF Shape, g, a, m, e
  <2> QED
    BY <1>6, <2>11
<1> QED
  BY <1>1, <1>8, <1>9

\* The memory begins with a line, as far as the buffer takes it.
Held(l) ==
  \A i \in 1 .. Len(Typed(l)) : i <= BUFF_SIZE =>
    i \in 1 .. Len(memory) /\ memory[i] = Typed(l)[i]

LEMMA LineHeld ==
  ASSUME IInv, armed = "WRITE"
  PROVE  clntAddr \in Client /\ line[clntAddr] \in Lines /\ Held(line[clntAddr])
<1> DEFINE l == line[clntAddr]
           t == Typed(l)
           n == IF Len(t) > BUFF_SIZE THEN BUFF_SIZE ELSE Len(t)
<1>1. /\ clntAddr \in Client /\ l \in Lines
      /\ memory \in Seq(Cell) /\ write \in 0 .. Len(memory)
      /\ SubSeq(memory, 1, write) = Taken(t)
  BY DEF IInv, TypeOK, OwnBytes, SentBy
<1>2. t \in Seq(Cell) /\ Len(t) \in Nat /\ Len(memory) \in Nat /\ BUFF_SIZE \in Nat \ {0}
  BY <1>1, TypedIsSeq, LenProperties, AdminAssumption
<1> HIDE DEF l, t
<1>3. n \in Nat /\ n <= Len(t) /\ Taken(t) = SubSeq(t, 1, n)
  BY <1>2 DEF Taken
<1> HIDE DEF n
<1> DEFINE cut == SubSeq(t, 1, n)
<1>4. Len(cut) = n /\ \A i \in 1 .. n : cut[i] = t[i]
  <2>1. /\ Len(cut) = IF 1 <= n THEN n - 1 + 1 ELSE 0
        /\ \A i \in 1 .. n - 1 + 1 : cut[i] = t[1 + i - 1]
    BY <1>2, <1>3, PartIsSeq
  <2> HIDE DEF cut
  <2> QED
    BY <1>3, <2>1
<1>5. Len(cut) = write /\ \A i \in 1 .. write : cut[i] = memory[i]
  <2> DEFINE front == SubSeq(memory, 1, write)
  <2>1. /\ Len(front) = IF 1 <= write THEN write - 1 + 1 ELSE 0
        /\ \A i \in 1 .. write - 1 + 1 : front[i] = memory[1 + i - 1]
    BY <1>1, <1>2, PartIsSeq
  <2>2. front = cut
    BY <1>1, <1>3
  <2> HIDE DEF front, cut
  <2> QED
    BY <1>1, <2>1, <2>2
<1> HIDE DEF cut
<1>6. ASSUME NEW i \in 1 .. Len(t), i <= BUFF_SIZE
      PROVE  i \in 1 .. Len(memory) /\ memory[i] = t[i]
  <2>1. i \in 1 .. n
    BY <1>2, <1>6 DEF n
  <2> QED
    BY <1>1, <1>2, <1>4, <1>5, <2>1
<1> QED
  BY <1>1, <1>6 DEF Held, l, t

\* A word ends before the first separator that follows.
LEMMA WordUpTo ==
  ASSUME memory \in Seq(Cell), NEW first \in Nat \ {0}, NEW e \in 1 .. Len(memory),
         first <= e, memory[e] \in {SP, NL},
         \A i \in first .. e - 1 : memory[i] \notin {SP, NL}
  PROVE  Word(first) = SubSeq(memory, first, e - 1)
<1> DEFINE ends == {i \in first .. Len(memory) : memory[i] \in {SP, NL}}
           leftmost == CHOOSE i \in ends : \A k \in ends : i <= k
<1>1. Len(memory) \in Nat
  BY LenProperties
<1>2. e \in ends /\ \A k \in ends : k \in Int /\ e <= k
  <2>1. e \in ends
    BY <1>1
  <2>2. ASSUME NEW k \in ends
        PROVE  k \in Int /\ e <= k
    <3>1. k \in Int /\ first <= k /\ memory[k] \in {SP, NL}
      BY <1>1
    <3>2. ~(k \in first .. e - 1)
      BY <3>1
    <3> QED
      BY <3>1, <3>2
  <2> QED
    BY <2>1, <2>2
<1>3. leftmost = e
  <2> HIDE DEF ends
  <2>1. leftmost \in ends /\ \A k \in ends : leftmost <= k
    BY <1>2
  <2> HIDE DEF leftmost
  <2> QED
    BY <1>2, <2>1
<1>4. Word(first) = SubSeq(memory, first, IF ends = {} THEN Len(memory) ELSE leftmost - 1)
  BY DEF Word
<1> HIDE DEF leftmost, ends
<1> QED
  BY <1>2, <1>3, <1>4

\* And not before it.
LEMMA WordBeyond ==
  ASSUME memory \in Seq(Cell), NEW first \in Nat \ {0}, NEW e \in 1 .. Len(memory),
         first <= e, \A i \in first .. e : memory[i] \notin {SP, NL}
  PROVE  Len(Word(first)) \in Nat /\ Len(Word(first)) > e - first
<1> DEFINE ends == {i \in first .. Len(memory) : memory[i] \in {SP, NL}}
           leftmost == CHOOSE i \in ends : \A k \in ends : i <= k
           last == IF ends = {} THEN Len(memory) ELSE leftmost - 1
<1>1. Len(memory) \in Nat
  BY LenProperties
<1>2. ends \in SUBSET Nat /\ \A k \in ends : e < k /\ k <= Len(memory)
  <2>1. ASSUME NEW k \in ends
        PROVE  k \in Nat /\ e < k /\ k <= Len(memory)
    <3>1. k \in Nat /\ first <= k /\ k <= Len(memory) /\ memory[k] \in {SP, NL}
      BY <1>1
    <3>2. ~(k \in first .. e)
      BY <3>1
    <3> QED
      BY <3>1, <3>2
  <2> HIDE DEF ends
  <2> QED
    BY <2>1
<1>3. Word(first) = SubSeq(memory, first, last)
  BY DEF Word
<1> HIDE DEF ends
<1>4. last \in Nat /\ e <= last /\ last <= Len(memory)
  <2>1. CASE ends = {}
    BY <1>1, <2>1
  <2>2. CASE ends # {}
    <3>1. \E i \in ends : \A k \in ends : i <= k
      BY <1>2, <2>2, Leftmost
    <3>2. leftmost \in ends
      BY <3>1
    <3> HIDE DEF leftmost
    <3> QED
      BY <1>1, <1>2, <2>2, <3>2
  <2> QED
    BY <2>1, <2>2
<1> HIDE DEF last
<1>5. Len(SubSeq(memory, first, last)) = IF first <= last THEN last - first + 1 ELSE 0
  BY <1>4, PartIsSeq
<1> QED
  BY <1>3, <1>4, <1>5

\* A word is read as it was written, up to the separator behind it.
LEMMA WordRead ==
  ASSUME memory \in Seq(Cell), SP \notin Glyph, NL \notin Glyph,
         NEW first \in Nat \ {0}, NEW w \in Seq(Glyph),
         first + Len(w) \in 1 .. Len(memory), memory[first + Len(w)] \in {SP, NL},
         \A i \in 1 .. Len(w) : memory[first - 1 + i] = w[i]
  PROVE  Word(first) = w
<1> DEFINE e == first + Len(w)
           word == SubSeq(memory, first, e - 1)
<1>1. Len(memory) \in Nat /\ Len(w) \in Nat /\ \A i \in 1 .. Len(w) : w[i] \in Glyph
  BY LenProperties, ElementOfSeq
<1>2. /\ e \in 1 .. Len(memory) /\ memory[e] \in {SP, NL} /\ first <= e
      /\ e - 1 \in Int /\ e - 1 <= Len(memory)
  BY <1>1
<1>3. \A k \in first .. e - 1 : memory[k] \notin {SP, NL}
  <2> SUFFICES ASSUME NEW k \in first .. e - 1
               PROVE  memory[k] \notin {SP, NL}
    OBVIOUS
  <2>1. k - first + 1 \in 1 .. Len(w) /\ first - 1 + (k - first + 1) = k
    BY <1>1
  <2> QED
    BY <1>1, <2>1
<1>4. e - 1 - first + 1 = Len(w) /\ (first <= e - 1 <=> Len(w) # 0)
  BY <1>1
<1> HIDE DEF e
<1>5. Word(first) = word
  BY <1>2, <1>3, WordUpTo
<1>6. /\ word \in Seq(Cell)
      /\ Len(word) = IF first <= e - 1 THEN e - 1 - first + 1 ELSE 0
      /\ \A i \in 1 .. e - 1 - first + 1 : word[i] = memory[first + i - 1]
  BY <1>2, PartIsSeq
<1> HIDE DEF word
<1>7. Len(word) = Len(w)
  BY <1>1, <1>4, <1>6
<1>8. \A i \in 1 .. Len(word) : word[i] = w[i]
  <2> SUFFICES ASSUME NEW i \in 1 .. Len(w)
               PROVE  word[i] = w[i]
    BY <1>7
  <2>1. first + i - 1 = first - 1 + i
    BY <1>1
  <2>2. word[i] = memory[first + i - 1]
    BY <1>4, <1>6
  <2> QED
    BY <2>1, <2>2
<1>9. w \in Seq(Cell)
  <2>1. Glyph \subseteq Cell
    BY DEF Cell
  <2> QED
    BY <2>1, SeqMonotonic
<1>10. word = w
  BY <1>6, <1>7, <1>8, <1>9, SeqEqual
<1> QED
  BY <1>5, <1>10

\* What the documented lines bound.
LEMMA Bounds ==
  ASSUME Documented
  PROVE  /\ PASS_LEN \in Nat \ {0} /\ BUFF_SIZE \in Nat
         /\ Len(Name["SET_AUTH"]) \in Nat /\ Len(Name["SET_AUTH"]) # PASS_LEN
         /\ Furthest \in Nat /\ Furthest = PASS_LEN + Len(Name["SET_AUTH"]) + 2
         /\ BUFF_SIZE > Furthest + PASS_LEN
         /\ SP \notin Glyph /\ NL \notin Glyph /\ SP # NL
<1>1. Len(Name["SET_AUTH"]) \in Nat
  <2>1. Name["SET_AUTH"] \in Seq(Glyph)
    BY AdminAssumption DEF Options
  <2> QED
    BY <2>1, LenProperties
<1> QED
  BY <1>1, AdminAssumption DEF Documented, Furthest, SP, NL

\* The comparison of the password looks at nothing but the line's own cells.
LEMMA Authorized ==
  ASSUME IInv, PlainInv, Documented, NEW l \in Lines, Held(l)
  PROVE  validate_password <=> l.auth = password
<1> DEFINE a == Len(l.auth)
           t == Typed(l)
           front == SubSeq(memory, 1, PASS_LEN)
<1>1. /\ l.auth \in Seq(Glyph) /\ a \in Nat /\ a <= PASS_LEN
      /\ a + 1 <= Len(t) /\ a + 1 <= BUFF_SIZE
      /\ \A i \in 1 .. a : t[i] = l.auth[i]
      /\ t[a + 1] = SP
  <2>1. Shape(l, t)
    BY TypedShape
  <2> HIDE DEF t
  <2>2. /\ l.auth \in Seq(Glyph) /\ a \in Nat /\ Len(l.command) \in Nat
        /\ t \in Seq(Cell) /\ Len(t) >= a + Len(l.command) + 2
        /\ \A i \in 1 .. a : t[i] = l.auth[i]
        /\ t[a + 1] = SP
    BY <2>1 DEF Shape
  <2>3. a <= PASS_LEN /\ a + Len(l.command) + 2 <= BUFF_SIZE
    BY DEF Documented
  <2>4. Len(t) \in Nat /\ BUFF_SIZE \in Nat
    BY <2>2, Bounds, LenProperties
  <2> HIDE DEF a
  <2> QED
    BY <2>2, <2>3, <2>4
<1>2. /\ memory \in Seq(Cell) /\ Len(memory) \in Nat
      /\ password \in Seq(Glyph) /\ Len(password) = PASS_LEN
      /\ PASS_LEN \in Nat /\ BUFF_SIZE \in Nat
      /\ Len(t) \in Nat /\ SP \notin Glyph
  BY TypedIsSeq, LenProperties, Bounds DEF IInv, TypeOK, PlainInv
<1> HIDE DEF t
<1>3. /\ \A i \in 1 .. a : i \in 1 .. Len(memory) /\ memory[i] = l.auth[i]
      /\ a + 1 \in 1 .. Len(memory) /\ memory[a + 1] = SP
  <2>1. \A i \in 1 .. a + 1 : i \in 1 .. Len(memory) /\ memory[i] = t[i]
    <3>1. \A i \in 1 .. a + 1 : i \in 1 .. Len(t) /\ i <= BUFF_SIZE
      BY <1>1, <1>2
    <3> QED
      BY <3>1 DEF Held, t
  <2> QED
    BY <1>1, <2>1
<1> HIDE DEF a
<1>4. ASSUME PASS_LEN <= Len(memory)
      PROVE  /\ front \in Seq(Cell) /\ Len(front) = PASS_LEN
             /\ \A i \in 1 .. PASS_LEN : front[i] = memory[i]
  <2>1. /\ front \in Seq(Cell)
        /\ Len(front) = IF 1 <= PASS_LEN THEN PASS_LEN - 1 + 1 ELSE 0
        /\ \A i \in 1 .. PASS_LEN - 1 + 1 : front[i] = memory[1 + i - 1]
    BY <1>2, <1>4, PartIsSeq
  <2> HIDE DEF front
  <2> QED
    BY <1>2, <2>1
<1> HIDE DEF front
<1>5. Glyph \subseteq Cell
  BY DEF Cell
<1>6. l.auth \in Seq(Cell) /\ password \in Seq(Cell)
  BY <1>1, <1>2, <1>5, SeqMonotonic
<1>7. ASSUME l.auth = password
      PROVE  validate_password
  <2>1. a = PASS_LEN
    BY <1>2, <1>7 DEF a
  <2>2. PASS_LEN < Len(memory) /\ memory[PASS_LEN + 1] = SP
    BY <1>2, <1>3, <2>1
  <2>3. /\ front \in Seq(Cell) /\ Len(front) = PASS_LEN
        /\ \A i \in 1 .. PASS_LEN : front[i] = memory[i]
    BY <1>2, <1>4, <2>2
  <2>4. \A i \in 1 .. PASS_LEN : front[i] = password[i]
    BY <1>3, <1>7, <2>1, <2>3
  <2>5. front = password
    BY <1>2, <1>6, <2>3, <2>4, SeqEqual
  <2> QED
    BY <2>2, <2>5 DEF validate_password, front
<1>8. ASSUME validate_password
      PROVE  l.auth = password
  <2>1. PASS_LEN < Len(memory) /\ front = password
    BY <1>8 DEF validate_password, front
  <2>2. \A i \in 1 .. PASS_LEN : memory[i] = password[i] /\ password[i] \in Glyph
    BY <1>2, <1>4, <2>1, ElementOfSeq
  <2>3. a = PASS_LEN
    <3>1. ~(a + 1 \in 1 .. PASS_LEN)
      BY <1>2, <1>3, <2>2
    <3> QED
      BY <1>1, <1>2, <3>1 DEF a
  <2>4. \A i \in 1 .. PASS_LEN : l.auth[i] = password[i]
    BY <1>3, <2>2, <2>3
  <2>5. Len(l.auth) = Len(password)
    BY <1>2, <2>3 DEF a
  <2> QED
    BY <1>2, <1>6, <2>4, <2>5, SeqEqual
<1> QED
  BY <1>7, <1>8

\* Where the parts of a line with a password of the right length lie in the memory.
Laid(l) ==
  LET g == l.arguments[1]
      e == PASS_LEN + Len(l.command) + 2
  IN /\ l.command \in Seq(Glyph) /\ Len(l.command) \in Nat
     /\ e \in 1 .. Len(memory)
     /\ memory[PASS_LEN + 1] = SP
     /\ \A i \in 1 .. Len(l.command) :
          memory[PASS_LEN + 1 + i] = l.command[i] /\ l.command[i] \in Glyph
     /\ \/ l.arguments = << >> /\ memory[e] = NL
        \/ /\ Len(l.arguments) = 1 /\ g \in Seq(Glyph) /\ Len(g) \in Nat
           /\ memory[e] = SP
           /\ \A i \in 1 .. Len(g) : e + i <= BUFF_SIZE =>
                e + i \in 1 .. Len(memory) /\ memory[e + i] = g[i] /\ g[i] \in Glyph
           /\ e + 1 + Len(g) <= BUFF_SIZE =>
                e + 1 + Len(g) \in 1 .. Len(memory) /\ memory[e + 1 + Len(g)] = NL

LEMMA LineLaid ==
  ASSUME IInv, Documented, NEW l \in Lines, Held(l), Len(l.auth) = PASS_LEN
  PROVE  Laid(l)
<1> DEFINE t == Typed(l)
           g == l.arguments[1]
           m == Len(l.command)
           e == PASS_LEN + m + 2
<1>1. Shape(l, t) /\ e <= BUFF_SIZE
  BY TypedShape DEF Documented
<1> HIDE DEF t
<1>2. /\ PASS_LEN \in Nat /\ BUFF_SIZE \in Nat /\ m \in Nat /\ l.command \in Seq(Glyph)
      /\ Len(t) \in Nat /\ Len(t) >= e /\ Behind(l) = e
      /\ t[PASS_LEN + 1] = SP
      /\ \A i \in 1 .. m : t[PASS_LEN + 1 + i] = l.command[i] /\ l.command[i] \in Glyph
      /\ \/ l.arguments = << >> /\ Len(t) = e /\ t[e] = NL
         \/ /\ Len(l.arguments) = 1
            /\ g \in Seq(Glyph) /\ Len(g) \in Nat
            /\ Len(t) = e + 1 + Len(g)
            /\ t[e] = SP
            /\ \A i \in 1 .. Len(g) : t[e + i] = g[i] /\ g[i] \in Glyph
            /\ t[e + 1 + Len(g)] = NL
  <2>1. /\ PASS_LEN \in Nat /\ BUFF_SIZE \in Nat
        /\ t \in Seq(Cell) /\ Len(t) \in Nat /\ Behind(l) = e
    BY <1>1, Bounds, LenProperties DEF Shape, Behind
  <2> HIDE DEF e, g
  <2> QED
    BY <1>1, <2>1 DEF Shape, g
<1>3. \A i \in 1 .. Len(t) : i <= BUFF_SIZE => i \in 1 .. Len(memory) /\ memory[i] = t[i]
  BY DEF Held, t
<1>4. \A i \in 1 .. e : i \in 1 .. Len(memory) /\ memory[i] = t[i]
  <2>1. \A i \in 1 .. e : i \in 1 .. Len(t) /\ i <= BUFF_SIZE
    BY <1>1, <1>2
  <2> QED
    BY <1>3, <2>1
<1>5. /\ e \in 1 .. Len(memory) /\ memory[e] = t[e]
      /\ memory[PASS_LEN + 1] = SP
      /\ \A i \in 1 .. m : memory[PASS_LEN + 1 + i] = l.command[i] /\ l.command[i] \in Glyph
  <2>1. /\ e \in 1 .. e /\ PASS_LEN + 1 \in 1 .. e
        /\ \A i \in 1 .. m : PASS_LEN + 1 + i \in 1 .. e
    BY <1>2
  <2> QED
    BY <1>2, <1>4, <2>1
<1> HIDE DEF g
<1>6. CASE l.arguments = << >> /\ t[e] = NL
  BY <1>2, <1>5, <1>6 DEF Laid
<1>7. CASE /\ Len(l.arguments) = 1
           /\ g \in Seq(Glyph) /\ Len(g) \in Nat
           /\ Len(t) = e + 1 + Len(g)
           /\ t[e] = SP
           /\ \A i \in 1 .. Len(g) : t[e + i] = g[i] /\ g[i] \in Glyph
           /\ t[e + 1 + Len(g)] = NL
  <2>1. ASSUME NEW i \in 1 .. Len(g), e + i <= BUFF_SIZE
        PROVE  e + i \in 1 .. Len(memory) /\ memory[e + i] = g[i] /\ g[i] \in Glyph
    <3>1. e + i \in 1 .. Len(t)
      BY <1>2, <1>7
    <3> QED
      BY <1>3, <1>7, <2>1, <3>1
  <2>2. ASSUME e + 1 + Len(g) <= BUFF_SIZE
        PROVE  e + 1 + Len(g) \in 1 .. Len(memory) /\ memory[e + 1 + Len(g)] = NL
    <3>1. e + 1 + Len(g) \in 1 .. Len(t)
      BY <1>2, <1>7
    <3> QED
      BY <1>3, <1>7, <2>2, <3>1
  <2>3. memory[e] = SP
    BY <1>5, <1>7
  <2> QED
    BY <1>2, <1>5, <1>7, <2>1, <2>2, <2>3 DEF Laid, g
<1> QED
  BY <1>2, <1>6, <1>7

\* The command that is obeyed is the line's.
LEMMA CommandRead ==
  ASSUME IInv, Documented, NEW l, Laid(l)
  PROVE  /\ Word(PASS_LEN + 2) = l.command
         /\ \A o \in Options : l.command = Name[o] => validate_options = o
         /\ (\A o \in Options : l.command # Name[o]) => validate_options = "NONE"
<1> DEFINE w == l.command
           first == PASS_LEN + 2
<1>1. memory \in Seq(Cell) /\ SP \notin Glyph /\ NL \notin Glyph /\ PASS_LEN \in Nat
  BY Bounds DEF IInv, TypeOK
<1>2. /\ w \in Seq(Glyph) /\ Len(w) \in Nat
      /\ PASS_LEN + Len(w) + 2 \in 1 .. Len(memory)
      /\ memory[PASS_LEN + Len(w) + 2] \in {SP, NL}
      /\ \A i \in 1 .. Len(w) : memory[PASS_LEN + 1 + i] = w[i]
  BY DEF Laid
<1> HIDE DEF w
<1>3. /\ first \in Nat \ {0} /\ first + Len(w) = PASS_LEN + Len(w) + 2
      /\ \A i \in 1 .. Len(w) : first - 1 + i = PASS_LEN + 1 + i
  BY <1>1, <1>2
<1>4. Word(first) = w
  <2>1. /\ first + Len(w) \in 1 .. Len(memory)
        /\ memory[first + Len(w)] \in {SP, NL}
        /\ \A i \in 1 .. Len(w) : memory[first - 1 + i] = w[i]
    <3> HIDE DEF first
    <3> QED
      BY <1>2, <1>3
  <2>2. first \in Nat \ {0} /\ w \in Seq(Glyph)
    BY <1>2, <1>3
  <2> HIDE DEF first
  <2> QED
    BY <1>1, <2>1, <2>2, WordRead
<1> DEFINE meant == {o \in Options : Name[o] = Word(first)}
<1>5. validate_options = IF meant = {} THEN "NONE" ELSE CHOOSE o \in meant : TRUE
  BY DEF validate_options
<1>6. ASSUME NEW o \in Options, w = Name[o]
      PROVE  validate_options = o
  <2>1. o \in meant /\ \A p \in meant : p = o
    BY <1>4, <1>6, AdminAssumption
  <2> HIDE DEF meant
  <2> QED
    BY <1>5, <2>1
<1>7. ASSUME \A o \in Options : w # Name[o]
      PROVE  validate_options = "NONE"
  <2>1. meant = {}
    BY <1>4, <1>7
  <2> QED
    BY <1>5, <2>1
<1> QED
  BY <1>4, <1>6, <1>7 DEF w

\* The argument that SET_AUTH takes has the right length only if it is the line's: what
\* earlier lines left is separated from it, and what the buffer cut off was too long.
LEMMA ArgumentRead ==
  ASSUME IInv, PlainInv, Documented, NEW l, Laid(l), l.command = Name["SET_AUTH"]
  PROVE  /\ Len(parse_get_set_arguments) = PASS_LEN <=>
              Len(l.arguments) = 1 /\ Len(l.arguments[1]) = PASS_LEN
         /\ Len(parse_get_set_arguments) = PASS_LEN =>
              parse_get_set_arguments = l.arguments[1] /\ l.arguments[1] \in Seq(Glyph)
<1> DEFINE m == Len(l.command)
           e == PASS_LEN + m + 2
           g == l.arguments[1]
           spaces == {i \in DOMAIN memory : memory[i] = SP}
           offset == CHOOSE i \in spaces : \A k \in spaces : k <= i
<1>1. /\ memory \in Seq(Cell) /\ DOMAIN memory = 1 .. Len(memory) /\ Len(memory) \in Nat
      /\ PASS_LEN \in Nat \ {0} /\ BUFF_SIZE \in Nat
      /\ SP \notin Glyph /\ NL \notin Glyph /\ SP # NL
  <2>1. memory \in Seq(Cell)
    BY DEF IInv, TypeOK
  <2>2. DOMAIN memory = 1 .. Len(memory) /\ Len(memory) \in Nat
    BY <2>1, LenProperties
  <2> QED
    BY <2>1, <2>2, Bounds
<1>2. /\ m \in Nat /\ m # PASS_LEN /\ e = PASS_LEN + m + 2 /\ e \in Nat
      /\ BUFF_SIZE > e + PASS_LEN
      /\ \A i \in 1 .. Len(memory) : memory[i] = SP => i <= e
  <2>1. Furthest = e
    BY Bounds
  <2> QED
    BY <1>1, <2>1, Bounds DEF PlainInv
<1>3. /\ e \in 1 .. Len(memory) /\ memory[PASS_LEN + 1] = SP
      /\ \A i \in 1 .. m : memory[PASS_LEN + 1 + i] \in Glyph
  BY DEF Laid
<1>4. parse_get_set_arguments = Word(offset + 1)
  BY DEF parse_get_set_arguments
<1>5. ASSUME NEW i \in spaces, \A k \in spaces : k <= i
      PROVE  offset = i
  <2>1. spaces \in SUBSET Nat
    BY <1>1
  <2> HIDE DEF spaces
  <2>2. offset \in spaces /\ \A k \in spaces : k <= offset
    BY <1>5
  <2> HIDE DEF offset
  <2> QED
    BY <1>5, <2>1, <2>2
<1>6. CASE l.arguments = << >> /\ memory[e] = NL
  <2>1. Word(PASS_LEN + 2) = l.command
    BY CommandRead
  <2> HIDE DEF m, e
  <2>2. PASS_LEN + 1 \in spaces
    BY <1>1, <1>2, <1>3
  <2>3. ASSUME NEW k \in spaces
        PROVE  k <= PASS_LEN + 1
    <3>1. k \in 1 .. Len(memory) /\ memory[k] = SP /\ k <= e
      BY <1>1, <1>2
    <3>2. k # e
      BY <1>1, <1>6, <3>1
    <3>3. ASSUME k > PASS_LEN + 1
          PROVE  FALSE
      <4>1. k - PASS_LEN - 1 \in 1 .. m /\ PASS_LEN + 1 + (k - PASS_LEN - 1) = k
        <5>1. PASS_LEN \in Nat /\ m \in Nat /\ k \in Int /\ e = PASS_LEN + m + 2
          BY <1>1, <1>2, <3>1
        <5> QED
          BY <3>1, <3>2, <3>3, <5>1
      <4> QED
        BY <1>1, <1>3, <3>1, <4>1
    <3> QED
      BY <1>1, <3>1, <3>3
  <2> HIDE DEF spaces, offset
  <2>4. offset = PASS_LEN + 1
    BY <1>5, <2>2, <2>3
  <2>5. offset + 1 = PASS_LEN + 2
    BY <1>1, <2>4
  <2>6. parse_get_set_arguments = l.command
    BY <1>4, <2>1, <2>5
  <2>7. Len(parse_get_set_arguments) # PASS_LEN
    BY <1>2, <2>6 DEF m
  <2>8. Len(l.arguments) = 0
    BY <1>6
  <2> QED
    BY <2>7, <2>8
<1>7. CASE /\ Len(l.arguments) = 1 /\ g \in Seq(Glyph) /\ Len(g) \in Nat
           /\ memory[e] = SP
           /\ \A i \in 1 .. Len(g) : e + i <= BUFF_SIZE =>
                e + i \in 1 .. Len(memory) /\ memory[e + i] = g[i] /\ g[i] \in Glyph
           /\ e + 1 + Len(g) <= BUFF_SIZE =>
                e + 1 + Len(g) \in 1 .. Len(memory) /\ memory[e + 1 + Len(g)] = NL
  <2> DEFINE first == e + 1
  <2> HIDE DEF m, e, g
  <2>1. e \in spaces /\ \A k \in spaces : k <= e
    BY <1>1, <1>2, <1>3, <1>7
  <2> HIDE DEF spaces, offset
  <2>2. offset = e
    BY <1>5, <2>1
  <2>3. first \in Nat \ {0} /\ parse_get_set_arguments = Word(first)
    BY <1>2, <1>4, <2>2
  <2>4. CASE e + 1 + Len(g) <= BUFF_SIZE
    <3>1. /\ first + Len(g) = e + 1 + Len(g)
          /\ \A i \in 1 .. Len(g) : first - 1 + i = e + i /\ e + i <= BUFF_SIZE
      BY <1>1, <1>2, <1>7, <2>4
    <3>2. /\ first + Len(g) \in 1 .. Len(memory) /\ memory[first + Len(g)] \in {SP, NL}
          /\ \A i \in 1 .. Len(g) : memory[first - 1 + i] = g[i]
      BY <1>7, <2>4, <3>1
    <3> HIDE DEF first
    <3>3. Word(first) = g
      BY <1>1, <1>7, <2>3, <3>2, WordRead
    <3> QED
      BY <1>7, <2>3, <3>3 DEF g
  <2>5. CASE ~(e + 1 + Len(g) <= BUFF_SIZE)
    <3> DEFINE last == e + (PASS_LEN + 1)
    <3>1. Len(g) > PASS_LEN
      BY <1>1, <1>2, <1>7, <2>5
    <3>2. ASSUME NEW i \in 1 .. PASS_LEN + 1
          PROVE  e + i \in 1 .. Len(memory) /\ memory[e + i] \in Glyph
      <4>1. i \in 1 .. Len(g) /\ e + i <= BUFF_SIZE
        BY <1>1, <1>2, <1>7, <3>1
      <4> QED
        BY <1>7, <4>1
    <3>3. last \in 1 .. Len(memory) /\ first <= last /\ last - first = PASS_LEN
      <4>1. PASS_LEN + 1 \in 1 .. PASS_LEN + 1
        BY <1>1
      <4>2. last \in 1 .. Len(memory)
        BY <3>2, <4>1
      <4> QED
        BY <1>1, <1>2, <4>2
    <3>4. ASSUME NEW k \in first .. last
          PROVE  memory[k] \notin {SP, NL}
      <4>1. k - e \in 1 .. PASS_LEN + 1 /\ e + (k - e) = k
        BY <1>1, <1>2
      <4> QED
        BY <1>1, <3>2, <4>1
    <3>5. Len(Word(first)) \in Nat /\ Len(Word(first)) > last - first
      <4> HIDE DEF first, last
      <4> QED
        BY <1>1, <2>3, <3>3, <3>4, WordBeyond
    <3>6. Len(parse_get_set_arguments) # PASS_LEN
      <4> HIDE DEF first, last
      <4> QED
        BY <1>1, <2>3, <3>3, <3>5
    <3> QED
      BY <1>1, <1>7, <3>1, <3>6 DEF g
  <2> QED
    BY <2>4, <2>5
<1> QED
  BY <1>6, <1>7 DEF Laid

(***************************************************************************)
(* The service                                                             *)
(***************************************************************************)

\* A documented line has its last space no further than the memory may have one.
LEMMA SpacesTaken ==
  ASSUME Documented, NEW l \in Lines, NEW i \in 1 .. Len(Typed(l)), Typed(l)[i] = SP
  PROVE  i <= Furthest
<1> DEFINE t == Typed(l)
           a == Len(l.auth)
           m == Len(l.command)
           e == Behind(l)
           g == l.arguments[1]
<1>1. Shape(l, t) /\ a <= PASS_LEN
  BY TypedShape DEF Documented
<1> HIDE DEF t
<1>2. /\ a \in Nat /\ m \in Nat /\ e \in Nat /\ e = a + m + 2
      /\ Len(t) \in Nat /\ t[i] = SP /\ i \in 1 .. Len(t)
      /\ \A k \in 1 .. a : t[k] \in Glyph
      /\ \A k \in 1 .. m : t[a + 1 + k] \in Glyph
      /\ \/ l.arguments = << >> /\ Len(t) = e /\ t[e] = NL
         \/ /\ Len(l.arguments) = 1 /\ l.command = Name["SET_AUTH"]
            /\ Len(g) \in Nat
            /\ Len(t) = e + 1 + Len(g)
            /\ \A k \in 1 .. Len(g) : t[e + k] \in Glyph
            /\ t[e + 1 + Len(g)] = NL
  <2>1. t \in Seq(Cell) /\ t[i] = SP /\ i \in 1 .. Len(t)
    BY <1>1 DEF Shape, t
  <2>2. Len(t) \in Nat
    BY <2>1, LenProperties
  <2> HIDE DEF e, g
  <2> QED
    BY <1>1, <2>1, <2>2 DEF Shape, e, g
<1> DEFINE n == Len(g)
<1> HIDE DEF a, e, g, n
<1>3. PASS_LEN \in Nat /\ Furthest \in Nat /\ SP \notin Glyph /\ SP # NL
      /\ Furthest = PASS_LEN + Len(Name["SET_AUTH"]) + 2 /\ Len(Name["SET_AUTH"]) \in Nat
  BY Bounds
<1>4. CASE l.arguments = << >> /\ Len(t) = e /\ t[e] = NL
  <2> HIDE DEF m
  <2>1. ASSUME i > a + 1
        PROVE  FALSE
    <3>1. i # e
      BY <1>2, <1>3, <1>4
    <3>2. i - a - 1 \in 1 .. m /\ a + 1 + (i - a - 1) = i
      BY <1>2, <1>4, <2>1, <3>1
    <3> QED
      BY <1>2, <1>3, <3>2
  <2> QED
    BY <1>1, <1>2, <1>3, <2>1
<1>5. CASE /\ l.command = Name["SET_AUTH"] /\ n \in Nat /\ Len(t) = e + 1 + n
           /\ \A k \in 1 .. n : t[e + k] \in Glyph
           /\ t[e + 1 + n] = NL
  <2>1. ASSUME i > e
        PROVE  FALSE
    <3>1. i # e + 1 + n
      BY <1>3, <1>5, <1>2
    <3>2. i \in Nat /\ e \in Nat /\ n \in Nat /\ i <= e + 1 + n
      BY <1>2, <1>5
    <3>3. i - e \in 1 .. n /\ e + (i - e) = i
      BY <2>1, <3>1, <3>2
    <3> QED
      BY <1>2, <1>3, <1>5, <3>3
  <2>2. e <= Furthest
    BY <1>1, <1>2, <1>3, <1>5 DEF m
  <2> QED
    BY <1>2, <1>3, <2>1, <2>2
<1> QED
  BY <1>2, <1>4, <1>5 DEF n

\* A datagram read over a memory with its spaces in front leaves them there.
LEMMA ReadKeepsPlain ==
  ASSUME IInv, PlainInv, Documented, udp_read
  PROVE  PlainInv'
<1> DEFINE from == Head(inbox).from
           sent == Head(inbox).cells
           cells == Taken(sent)
<1>1. /\ password' = password /\ told' = told
      /\ \/ memory' = memory
         \/ cells # << >> /\ memory' = Overlay(cells)
      /\ write = 0 /\ inbox # << >>
  BY DEF udp_read, IInv, TypeOK, clientVars
<1>2. /\ memory \in Seq(Cell) /\ DOMAIN memory = 1 .. Len(memory) /\ Len(memory) \in Nat
      /\ PASS_LEN \in Nat /\ BUFF_SIZE \in Nat
      /\ \A i \in 1 .. Len(memory) : memory[i] = SP => i <= Furthest
  BY LenProperties, AdminAssumption DEF IInv, TypeOK, PlainInv
<1>3. CASE memory' = memory
  BY <1>1, <1>3 DEF PlainInv
<1>4. CASE cells # << >> /\ memory' = Overlay(cells)
  <2>1. /\ from \in Client /\ sent \in Seq(Cell) /\ sent = SentBy(from)
    <3>1. inbox \in Seq(Datagram)
      BY DEF IInv, TypeOK
    <3>2. Head(inbox) = inbox[1] /\ 1 \in DOMAIN inbox
      BY <1>1, <3>1, Shrunk
    <3> QED
      BY <3>1, <3>2, Senders DEF IInv, OwnBytes
  <2>2. PICK l \in Lines : sent = Typed(l)
    <3>1. line[from] \in Lines \cup {None}
      BY <2>1 DEF IInv, TypeOK
    <3>2. line[from] # None
      BY <1>4, <2>1, TakenIsSeq DEF SentBy
    <3> QED
      BY <2>1, <3>1, <3>2 DEF SentBy
  <2> HIDE DEF sent
  <2>3. /\ cells \in Seq(Cell) /\ Len(cells) \in Nat
        /\ \A i \in 1 .. Len(cells) : cells[i] = SP => i <= Furthest
    <3> DEFINE n == IF Len(sent) > BUFF_SIZE THEN BUFF_SIZE ELSE Len(sent)
    <3>1. Len(sent) \in Nat /\ n \in Nat /\ n <= Len(sent) /\ cells = SubSeq(sent, 1, n)
      BY <1>2, <2>1, LenProperties DEF Taken
    <3> HIDE DEF n
    <3> DEFINE cut == SubSeq(sent, 1, n)
    <3>2. /\ cut \in Seq(Cell)
          /\ Len(cut) = IF 1 <= n THEN n - 1 + 1 ELSE 0
          /\ \A i \in 1 .. n - 1 + 1 : cut[i] = sent[1 + i - 1]
      BY <2>1, <3>1, PartIsSeq
    <3> HIDE DEF cut, cells
    <3>3. cells = cut /\ Len(cut) = n /\ \A i \in 1 .. n : cut[i] = sent[i]
      BY <3>1, <3>2 DEF cut
    <3>4. \A i \in 1 .. Len(sent) : sent[i] = SP => i <= Furthest
      BY <2>2, SpacesTaken
    <3> QED
      BY <3>1, <3>2, <3>3, <3>4
  <2> DEFINE rest == SubSeq(memory, write + Len(cells) + 1, Len(memory))
  <2> HIDE DEF cells
  <2>4. memory' = cells \o rest
    <3>1. SubSeq(memory, 1, write) = << >>
      BY <1>1, <1>2, SubSeqEmpty
    <3>2. << >> \o cells = cells
      BY <2>3, ConcatEmptySeq
    <3> QED
      BY <1>4, <3>1, <3>2 DEF Overlay
  <2>5. /\ rest \in Seq(Cell) /\ Len(rest) \in Nat
        /\ \A i \in 1 .. Len(rest) : /\ rest[i] = memory[Len(cells) + i]
                                     /\ Len(cells) + i \in 1 .. Len(memory)
    <3> DEFINE k == Len(cells)
               m == Len(memory)
               f == write + Len(cells) + 1
               cut == SubSeq(memory, f, m)
    <3>1. /\ k \in Nat /\ m \in Nat /\ f = k + 1 /\ rest = cut
          /\ f \in Nat \ {0} /\ m \in Int /\ m <= Len(memory)
      BY <1>1, <1>2, <2>3 DEF rest
    <3> HIDE DEF f, m, k, rest
    <3>2. /\ cut \in Seq(Cell)
          /\ Len(cut) = IF f <= m THEN m - f + 1 ELSE 0
          /\ \A i \in 1 .. m - f + 1 : cut[i] = memory[f + i - 1]
      BY <1>2, <3>1, PartIsSeq
    <3> HIDE DEF cut
    <3>3. /\ rest \in Seq(Cell)
          /\ Len(rest) = IF k + 1 <= m THEN m - (k + 1) + 1 ELSE 0
          /\ \A i \in 1 .. m - (k + 1) + 1 : rest[i] = memory[k + 1 + i - 1]
      BY <3>1, <3>2
    <3>4. Len(rest) \in Nat /\ \A i \in 1 .. Len(rest) : i \in 1 .. m - (k + 1) + 1
      BY <3>1, <3>3
    <3>5. \A i \in 1 .. Len(rest) : k + i \in 1 .. m /\ k + 1 + i - 1 = k + i
      BY <3>1, <3>4
    <3>6. \A i \in 1 .. Len(rest) : rest[i] = memory[k + i]
      BY <3>3, <3>4, <3>5
    <3> QED
      BY <3>3, <3>4, <3>5, <3>6 DEF k, m
  <2> HIDE DEF rest
  <2>6. memory' \in Seq(Cell) /\ IsJoin(memory', cells, rest)
    BY <2>3, <2>4, <2>5, JoinIsJoin
  <2>7. DOMAIN memory' = 1 .. Len(memory') /\ Len(memory') = Len(cells) + Len(rest)
    BY <2>6, LenProperties DEF IsJoin
  <2>8. ASSUME NEW i \in DOMAIN memory', memory'[i] = SP
        PROVE  i <= Furthest
    <3>1. CASE i \in 1 .. Len(cells)
      BY <2>3, <2>6, <2>8, <3>1 DEF IsJoin
    <3>2. CASE i \notin 1 .. Len(cells)
      <4>1. i - Len(cells) \in 1 .. Len(rest) /\ Len(cells) + (i - Len(cells)) = i
        BY <2>3, <2>5, <2>7, <3>2
      <4>2. memory'[i] = memory[i] /\ i \in 1 .. Len(memory)
        BY <2>5, <2>6, <4>1 DEF IsJoin
      <4> QED
        BY <1>2, <2>8, <4>2
    <3> QED
      BY <3>1, <3>2
  <2> QED
    BY <1>1, <2>8 DEF PlainInv
<1> QED
  BY <1>1, <1>3, <1>4

\* A documented line is served as the README says: by its password, its command and its
\* argument, all at once.
LEMMA ServeStep ==
  ASSUME IInv, PlainInv, Documented, udp_write, NEW c \in Client, clntAddr = c
  PROVE  PlainInv' /\ Service!Serve(c)
<1> DEFINE l == line[c]
           arg == parse_get_set_arguments
<1>1. /\ armed = "WRITE" /\ Answers /\ armed' = "READ" /\ clntAddr' = None
      /\ UNCHANGED <<memory, stats, inbox, phase, line>>
  BY DEF udp_write, clientVars
<1>2. c \in Client /\ l \in Lines /\ Held(l) /\ l # None /\ None \notin Client
  BY <1>1, LineHeld, AdminAssumption
<1>3. validate_password <=> l.auth = password
  BY <1>2, Authorized
<1>4. ASSUME l.auth = password
      PROVE  /\ \A o \in Options : l.command = Name[o] => validate_options = o
             /\ (\A o \in Options : l.command # Name[o]) => validate_options = "NONE"
             /\ l.command = Name["SET_AUTH"] =>
                  /\ Len(arg) = PASS_LEN <=>
                       Len(l.arguments) = 1 /\ Len(l.arguments[1]) = PASS_LEN
                  /\ Len(arg) = PASS_LEN =>
                       arg = l.arguments[1] /\ l.arguments[1] \in Seq(Glyph)
  <2>1. Len(l.auth) = PASS_LEN
    BY <1>4 DEF IInv, TypeOK
  <2>2. Laid(l)
    <3> HIDE DEF l
    <3> QED
      BY <1>2, <2>1, LineLaid
  <2> HIDE DEF l
  <2> QED
    BY <2>2, CommandRead, ArgumentRead
<1>5. Service!Sets(l) <=> /\ l.auth = password /\ l.command = Name["SET_AUTH"]
                          /\ Len(l.arguments) = 1 /\ Len(l.arguments[1]) = PASS_LEN
  BY DEF Service!Sets
<1> HIDE DEF l, arg
<1>6. /\ Reply(Service!Reply(l))
      /\ password' = IF Service!Sets(l) THEN l.arguments[1] ELSE password
      /\ told' = IF Service!Sets(l) THEN l.arguments[1] ELSE told
      /\ Service!Sets(l) => l.arguments[1] \in Seq(Glyph)
  <2>1. CASE l.auth # password
    BY <1>1, <1>3, <1>5, <2>1 DEF Answers, Keeps, Service!Reply
  <2>2. \A o, p \in Options : Name[o] = Name[p] => o = p
    BY AdminAssumption
  <2>3. CASE l.auth = password /\ l.command = Name["SET_AUTH"]
    <3>1. SetAuth
      <4>1. validate_options = "SET_AUTH"
        BY <1>4, <2>3 DEF Options
      <4> QED
        BY <1>1, <1>3, <2>3, <4>1 DEF Answers
    <3>2. /\ l.command # Name["HELP"] /\ l.command # Name["GET_BUFF_SIZE"]
          /\ l.command # Name["GET_STATS"]
      BY <2>2, <2>3 DEF Options
    <3>3. CASE Len(arg) = PASS_LEN
      <4>1. Reply([kind |-> "ok"]) /\ set_admin_password(arg)
        BY <3>1, <3>3 DEF SetAuth, arg
      <4>2. Len(l.arguments) = 1 /\ arg = l.arguments[1] /\ l.arguments[1] \in Seq(Glyph)
        BY <1>4, <2>3, <3>3
      <4>3. l.arguments # << >>
        BY <4>2
      <4>4. password' = arg /\ told' = l.arguments[1]
        BY <4>1, <4>3 DEF set_admin_password, l
      <4>5. Service!Sets(l)
        BY <1>4, <1>5, <2>3, <3>3
      <4> QED
        BY <2>3, <3>2, <4>1, <4>2, <4>4, <4>5 DEF Service!Reply
    <3>4. CASE Len(arg) # PASS_LEN
      <4>1. Reply([kind |-> "incorrect argument"]) /\ Keeps
        BY <3>1, <3>4 DEF SetAuth, arg
      <4>2. ~Service!Sets(l)
        BY <1>4, <1>5, <2>3, <3>4
      <4> QED
        BY <2>3, <3>2, <4>1, <4>2 DEF Service!Reply, Keeps
    <3> QED
      BY <3>3, <3>4
  <2>4. CASE l.auth = password /\ l.command # Name["SET_AUTH"]
    <3>1. ~Service!Sets(l)
      BY <1>5, <2>4
    <3>2. Keeps /\ Reply(Service!Reply(l))
      <4>1. CASE l.command = Name["HELP"]
        <5>1. validate_options = "HELP"
          BY <1>4, <2>4, <4>1 DEF Options
        <5>2. l.command # Name["GET_BUFF_SIZE"] /\ l.command # Name["GET_STATS"]
          BY <2>2, <4>1 DEF Options
        <5> QED
          BY <1>1, <1>3, <2>4, <4>1, <5>1, <5>2 DEF Answers, Service!Reply
      <4>2. CASE l.command = Name["GET_BUFF_SIZE"]
        <5>1. validate_options = "GET_BUFF_SIZE"
          BY <1>4, <2>4, <4>2 DEF Options
        <5>2. l.command # Name["HELP"] /\ l.command # Name["GET_STATS"]
          BY <2>2, <4>2 DEF Options
        <5> QED
          BY <1>1, <1>3, <2>4, <4>2, <5>1, <5>2 DEF Answers, Service!Reply
      <4>3. CASE l.command = Name["GET_STATS"]
        <5>1. validate_options = "GET_STATS"
          BY <1>4, <2>4, <4>3 DEF Options
        <5>2. l.command # Name["HELP"] /\ l.command # Name["GET_BUFF_SIZE"]
          BY <2>2, <4>3 DEF Options
        <5> QED
          BY <1>1, <1>3, <2>4, <4>3, <5>1, <5>2 DEF Answers, Service!Reply
      <4>4. CASE \A o \in Options : l.command # Name[o]
        <5>1. validate_options = "NONE"
          BY <1>4, <2>4, <4>4
        <5>2. /\ l.command # Name["HELP"] /\ l.command # Name["GET_BUFF_SIZE"]
              /\ l.command # Name["GET_STATS"]
          BY <4>4 DEF Options
        <5> QED
          BY <1>1, <1>3, <2>4, <5>1, <5>2 DEF Answers, Service!Reply
      <4> QED
        BY <2>4, <4>1, <4>2, <4>3, <4>4 DEF Options
    <3> QED
      BY <3>1, <3>2 DEF Keeps
  <2> QED
    BY <2>1, <2>3, <2>4
<1>7. PlainInv'
  BY <1>1, <1>6 DEF PlainInv
<1>8. /\ \A e \in Client : Unserved(e)' <=> Unserved(e) /\ e # c
      /\ Unserved(c)
  <2>1. Lockstep
    BY DEF IInv
  <2>2. Unserved(c)
    BY <1>1 DEF Unserved
  <2>3. ASSUME NEW e \in Client
        PROVE  Unserved(e)' <=> Unserved(e) /\ e # c
    <3>1. (\E i \in DOMAIN inbox : inbox[i].from = e) => e # c
      BY <2>1 DEF Lockstep
    <3> QED
      BY <1>1, <3>1 DEF Unserved
  <2> QED
    BY <2>2, <2>3
<1>9. Service!Serve(c)
  <2> DEFINE asked == [e \in Client |-> IF Unserved(e) THEN line[e] ELSE None]
             then == [e \in Client |-> IF Unserved(e)' THEN line'[e] ELSE None]
  <2>1. asked[c] = l /\ asked[c] # None
    BY <1>2, <1>8 DEF l
  <2>2. then = [asked EXCEPT ![c] = None]
    BY <1>1, <1>2, <1>8
  <2>3. answer' \in {answer, [answer EXCEPT ![c] = Service!Reply(l)]}
    BY <1>6 DEF Reply
  <2>4. stats' = stats
    BY <1>1
  <2> HIDE DEF asked, then
  <2> QED
    BY <1>6, <2>1, <2>2, <2>3, <2>4 DEF Service!Serve, asked, then
<1> QED
  BY <1>7, <1>9

\* The lines that wait to be served, as AdminService counts them.
Asked == [c \in Client |-> IF Unserved(c) THEN line[c] ELSE None]

\* A line that is typed is asked, and the end of the input asks nothing.
LEMMA SendAsks ==
  ASSUME IInv, NEW c \in Client, NEW l \in Lines \cup {None}, NEW cells, Send(c, l, cells)
  PROVE  /\ Asked' = [Asked EXCEPT ![c] = l]
         /\ Asked[c] = None /\ answer[c] = None
         /\ UNCHANGED <<password, told, memory, stats, answer>>
<1>1. /\ phase[c] = "prompt" /\ line' = [line EXCEPT ![c] = l]
      /\ inbox' = Append(inbox, [from |-> c, cells |-> cells])
      /\ UNCHANGED <<password, told, memory, armed, clntAddr, stats, answer>>
  BY DEF Send, serverVars
<1>2. ~Unserved(c) /\ answer[c] = None
  BY <1>1 DEF IInv, Lockstep
<1>3. inbox \in Seq(Datagram) /\ line \in [Client -> Lines \cup {None}]
  BY DEF IInv, TypeOK
<1> DEFINE d == [from |-> c, cells |-> cells]
<1>4. /\ DOMAIN inbox = 1 .. Len(inbox) /\ Len(inbox) \in Nat
      /\ DOMAIN inbox' = 1 .. Len(inbox) + 1
      /\ \A i \in 1 .. Len(inbox) : inbox'[i] = inbox[i]
      /\ inbox'[Len(inbox) + 1] = d
  <2> DEFINE T == Datagram \cup {d}
  <2>1. inbox \in Seq(T) /\ d \in T
    BY <1>3, SeqMonotonic
  <2> HIDE DEF T, d
  <2>2. inbox' = Append(inbox, d)
    BY <1>1 DEF d
  <2> QED
    BY <2>1, <2>2, Grown
<1>5. d.from = c
  OBVIOUS
<1> HIDE DEF d
<1>6. \A e \in Client : Unserved(e)' <=> Unserved(e) \/ e = c
  <2> SUFFICES ASSUME NEW e \in Client
               PROVE  Unserved(e)' <=> Unserved(e) \/ e = c
    OBVIOUS
  <2>1. (\E i \in DOMAIN inbox' : inbox'[i].from = e) <=>
          (\E i \in DOMAIN inbox : inbox[i].from = e) \/ e = c
    <3>1. \A i \in DOMAIN inbox' : i \in DOMAIN inbox \/ i = Len(inbox) + 1
      BY <1>4
    <3>2. \A i \in DOMAIN inbox : i \in DOMAIN inbox' /\ inbox'[i] = inbox[i]
      BY <1>4
    <3>3. Len(inbox) + 1 \in DOMAIN inbox'
      BY <1>4
    <3> QED
      BY <1>4, <1>5, <3>1, <3>2, <3>3
  <2> QED
    BY <1>1, <2>1 DEF Unserved
<1>7. Asked' = [Asked EXCEPT ![c] = l]
  BY <1>1, <1>2, <1>3, <1>6 DEF Asked
<1> QED
  BY <1>1, <1>2, <1>7 DEF Asked

\* Reading a datagram serves nothing yet, and an empty one asked nothing.
LEMMA ReadAsksNothing ==
  ASSUME IInv, Documented, udp_read
  PROVE  Asked' = Asked /\ UNCHANGED <<password, stats, answer>>
<1> DEFINE from == Head(inbox).from
           cells == Taken(Head(inbox).cells)
<1>1. /\ armed = "READ" /\ inbox # << >> /\ inbox' = Tail(inbox)
      /\ \/ cells = << >> /\ armed' = "exit" /\ UNCHANGED clntAddr
         \/ cells # << >> /\ clntAddr' = from /\ armed' = "WRITE"
      /\ UNCHANGED <<password, stats, answer, line>>
  BY DEF udp_read, clientVars
<1>2. inbox \in Seq(Datagram) /\ line \in [Client -> Lines \cup {None}]
  BY DEF IInv, TypeOK
<1>3. /\ Head(inbox) = inbox[1] /\ 1 \in DOMAIN inbox
      /\ \A i \in DOMAIN inbox' : i + 1 \in DOMAIN inbox /\ inbox'[i] = inbox[i + 1]
      /\ \A i \in DOMAIN inbox : i # 1 =>
           i - 1 \in DOMAIN inbox' /\ inbox'[i - 1] = inbox[i]
  <2>1. /\ inbox' \in Seq(Datagram)
        /\ Head(inbox) = inbox[1] /\ 1 \in DOMAIN inbox
        /\ \A i \in DOMAIN inbox' : i \in Nat \ {0} /\ i + 1 \in DOMAIN inbox
                                    /\ inbox'[i] = inbox[i + 1]
    BY <1>1, <1>2, Shrunk
  <2>2. Len(inbox') = Len(inbox) - 1
    BY <1>1, <1>2, HeadTailProperties
  <2>3. /\ DOMAIN inbox' = 1 .. Len(inbox') /\ DOMAIN inbox = 1 .. Len(inbox)
        /\ Len(inbox) \in Nat
    BY <1>2, <2>1, LenProperties
  <2>4. ASSUME NEW i \in DOMAIN inbox, i # 1
        PROVE  i - 1 \in DOMAIN inbox' /\ inbox'[i - 1] = inbox[i]
    <3>1. i - 1 \in DOMAIN inbox' /\ (i - 1) + 1 = i
      BY <2>2, <2>3, <2>4
    <3> QED
      BY <2>1, <3>1
  <2> QED
    BY <2>1, <2>4
<1>4. from \in Client /\ from = inbox[1].from
  BY <1>2, <1>3, Senders
<1> DEFINE In(q, e) == \E i \in DOMAIN q : q[i].from = e
<1>5. \A e \in Client : In(inbox, e) <=> In(inbox', e) \/ e = from
  BY <1>3, <1>4
<1>6. cells = << >> => line[from] = None
  <2> SUFFICES ASSUME line[from] # None
               PROVE  cells # << >>
    OBVIOUS
  <2>1. line[from] \in Lines /\ cells = Taken(Typed(line[from]))
    <3>1. Head(inbox).cells = SentBy(from)
      BY <1>3, <1>4 DEF IInv, OwnBytes
    <3> QED
      BY <1>2, <1>4, <3>1 DEF SentBy
  <2> DEFINE t == Typed(line[from])
             n == IF Len(t) > BUFF_SIZE THEN BUFF_SIZE ELSE Len(t)
  <2>2. t \in Seq(Cell) /\ Len(t) \in Nat /\ Len(t) >= 2
    <3>1. Shape(line[from], t)
      BY <2>1, TypedShape
    <3> HIDE DEF t
    <3> DEFINE a == Len(line[from].auth)
               m == Len(line[from].command)
    <3>2. t \in Seq(Cell) /\ a \in Nat /\ m \in Nat /\ Len(t) >= a + m + 2
      BY <3>1 DEF Shape
    <3>3. Len(t) \in Nat
      BY <3>2, LenProperties
    <3> HIDE DEF a, m
    <3> QED
      BY <3>2, <3>3
  <2> HIDE DEF t
  <2>3. n \in Nat /\ 1 <= n /\ n <= Len(t) /\ Taken(t) = SubSeq(t, 1, n)
    BY <2>2, AdminAssumption DEF Taken
  <2> HIDE DEF n
  <2>4. Len(SubSeq(t, 1, n)) = n
    <3>1. Len(SubSeq(t, 1, n)) = IF 1 <= n THEN n - 1 + 1 ELSE 0
      BY <2>2, <2>3, PartIsSeq
    <3> QED
      BY <2>3, <3>1
  <2>5. Len(Taken(t)) # 0
    BY <2>3, <2>4
  <2> QED
    BY <2>1, <2>5 DEF t
<1>7. \A e \in Client : /\ Unserved(e) <=> In(inbox, e)
                        /\ Unserved(e)' => In(inbox, e)
                        /\ In(inbox, e) => Unserved(e)' \/ line[e] = None
  <2> HIDE DEF from, cells
  <2>1. \A e \in Client : Unserved(e) <=> In(inbox, e)
    BY <1>1 DEF Unserved
  <2>2. \A e \in Client :
          Unserved(e)' <=> In(inbox', e) \/ (armed' = "WRITE" /\ clntAddr' = e)
    BY DEF Unserved
  <2> HIDE DEF In
  <2> QED
    BY <1>1, <1>5, <1>6, <2>1, <2>2
<1>8. Asked' = Asked
  <2> HIDE DEF In
  <2> QED
    BY <1>1, <1>7 DEF Asked
<1> QED
  BY <1>1, <1>8

\* Taking an answer asks nothing.
LEMMA ReceiveAsksNothing ==
  ASSUME IInv, NEW c \in Client, Receive(c)
  PROVE  Asked' = Asked
<1>1. /\ answer[c] # None /\ line' = [line EXCEPT ![c] = None]
      /\ UNCHANGED <<inbox, armed, clntAddr>>
  BY DEF Receive, serverVars
<1>2. ~Unserved(c) /\ line \in [Client -> Lines \cup {None}]
  BY <1>1 DEF IInv, Lockstep, TypeOK
<1>3. \A e \in Client : Unserved(e)' <=> Unserved(e)
  BY <1>1 DEF Unserved
<1> QED
  BY <1>1, <1>2, <1>3 DEF Asked

LEMMA InitServed ==
  Init => PlainInv /\ Service!Init
<1> SUFFICES ASSUME Init
             PROVE  PlainInv /\ Service!Init
  OBVIOUS
<1>1. PlainInv
  BY AdminAssumption DEF Init, PlainInv
<1>2. \A c \in Client : ~Unserved(c)
  BY DEF Init, Unserved
<1>3. Service!Init
  BY <1>2 DEF Init, Service!Init
<1> QED
  BY <1>1, <1>3

LEMMA StepServed ==
  ASSUME IInv, PlainInv, Documented, [Next]_vars
  PROVE  PlainInv' /\ [Service!Next]_(Service!vars)
<1>1. ASSUME NEW c \in Client, SendLine(c)
      PROVE  PlainInv' /\ Service!Next
  <2>1. PICK l \in Lines : Send(c, l, Typed(l))
    BY <1>1 DEF SendLine
  <2>2. /\ Asked' = [Asked EXCEPT ![c] = l]
        /\ Asked[c] = None /\ answer[c] = None
        /\ UNCHANGED <<password, told, memory, stats, answer>>
    BY <2>1, SendAsks
  <2>3. Service!Ask(c, l)
    BY <2>2 DEF Service!Ask, Asked
  <2> QED
    BY <2>2, <2>3 DEF Service!Next, PlainInv
<1>2. ASSUME NEW c \in Client, SendNothing(c)
      PROVE  PlainInv' /\ UNCHANGED Service!vars
  <2>1. /\ Asked' = [Asked EXCEPT ![c] = None]
        /\ Asked[c] = None
        /\ UNCHANGED <<password, told, memory, stats, answer>>
    BY <1>2, SendAsks DEF SendNothing
  <2>2. Asked' = Asked
    BY <2>1 DEF Asked
  <2> QED
    BY <2>1, <2>2 DEF Service!vars, Asked, PlainInv
<1>3. ASSUME NEW c \in Client, Receive(c)
      PROVE  PlainInv' /\ Service!Next
  <2>1. Service!Read(c)
    BY <1>3, ReceiveAsksNothing DEF Receive, serverVars, Service!Read, Asked
  <2> QED
    BY <1>3, <2>1 DEF Service!Next, Receive, serverVars, PlainInv
<1>4. ASSUME NEW c \in Client, Quit(c)
      PROVE  PlainInv' /\ UNCHANGED Service!vars
  BY <1>4 DEF Quit, serverVars, PlainInv, Service!vars, Unserved
<1>5. CASE udp_read
  <2>1. Asked' = Asked /\ UNCHANGED <<password, stats, answer>>
    BY <1>5, ReadAsksNothing
  <2>2. UNCHANGED Service!vars
    BY <2>1 DEF Service!vars, Asked
  <2> QED
    BY <1>5, <2>2, ReadKeepsPlain
<1>6. CASE udp_write
  <2>1. PICK c \in Client : clntAddr = c
    BY <1>6, LineHeld DEF udp_write
  <2>2. PlainInv' /\ Service!Serve(c)
    BY <1>6, <2>1, ServeStep
  <2> QED
    BY <2>2 DEF Service!Next
<1>7. CASE stats_new_connection
  <2>1. /\ stats' = [stats EXCEPT !.historic = @ + 1, !.current = @ + 1]
        /\ UNCHANGED <<password, told, memory, answer, line, inbox, armed, clntAddr>>
    BY <1>7 DEF stats_new_connection, serverVars, clientVars
  <2>2. Asked' = Asked
    BY <2>1 DEF Asked, Unserved
  <2>3. Service!Connected
    BY <2>1, <2>2 DEF Service!Connected, Asked
  <2> QED
    BY <2>1, <2>3 DEF Service!Next, PlainInv
<1>8. ASSUME NEW size \in 1 .. MaxBytes, request_send(size)
      PROVE  PlainInv' /\ Service!Next
  <2>1. /\ stats' = [stats EXCEPT !.bytes = @ + size + 1]
        /\ UNCHANGED <<password, told, memory, answer, line, inbox, armed, clntAddr>>
    BY <1>8 DEF request_send, serverVars, clientVars
  <2>2. Asked' = Asked
    BY <2>1 DEF Asked, Unserved
  <2>3. stats'.bytes > stats.bytes /\ stats' = [stats EXCEPT !.bytes = stats'.bytes]
    <3>1. stats \in Counters /\ stats.bytes \in Nat /\ size \in Nat
      BY AdminAssumption DEF IInv, TypeOK, Counters
    <3>2. stats'.bytes = stats.bytes + size + 1
      BY <2>1, <3>1 DEF Counters
    <3> QED
      BY <2>1, <3>1, <3>2
  <2>4. Service!Transferred
    BY <2>1, <2>2, <2>3 DEF Service!Transferred, Asked
  <2> QED
    BY <2>1, <2>4 DEF Service!Next, PlainInv
<1>9. CASE Silent \/ UNCHANGED vars
  <2>1. UNCHANGED vars
    BY <1>9 DEF Silent
  <2> QED
    BY <2>1 DEF vars, serverVars, clientVars, PlainInv, Service!vars, Unserved
<1> QED
  BY <1>1, <1>2, <1>3, <1>4, <1>5, <1>6, <1>7, <1>8, <1>9 DEF Next

\* With documented lines the password is what its holder was told, in spite of all that
\* earlier lines left in the buffer.
THEOREM PasswordIsTold ==
  ASSUME Documented
  PROVE  Spec => []PasswordAsTold
<1>1. Init => PlainInv
  BY InitServed
<1>2. IInv /\ PlainInv /\ [Next]_vars => PlainInv'
  BY StepServed
<1>3. PlainInv => PasswordAsTold
  BY DEF PlainInv, PasswordAsTold
<1>4. Spec => []IInv
  BY Invariance
<1> QED
  BY <1>1, <1>2, <1>3, <1>4, PTL DEF Spec

\* With documented lines the server implements AdminService: each line is served once,
\* by its own words and the password of that moment, and its answer goes to its sender
\* or to nobody.
THEOREM ImplementsService ==
  ASSUME Documented
  PROVE  Spec => ServiceSpec
<1>1. Init => PlainInv /\ Service!Init
  BY InitServed
<1>2. IInv /\ PlainInv /\ [Next]_vars => PlainInv' /\ [Service!Next]_(Service!vars)
  BY StepServed
<1>3. Spec => []IInv
  BY Invariance
<1> QED
  BY <1>1, <1>2, <1>3, PTL DEF Spec, ServiceSpec, Service!Spec
=============================================================================

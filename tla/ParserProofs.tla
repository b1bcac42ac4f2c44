---------------------------- MODULE ParserProofs ----------------------------
(***************************************************************************)
(* Proofs about Parser: for words of every length, a parser that           *)
(* parser_utils_strcmpi made tells after each byte what the comparison of  *)
(* the word with the text so far is.                                       *)
(***************************************************************************)
EXTENDS Parser, SequenceTheorems, TLAPS

\* The bytes that a table of parser_utils_strcmpi names as the two cases of a
\* character of the word are the bytes that agree with it (tolower, toupper).
LEMMA CasesAgree ==
  ASSUME NEW b \in 0 .. 127, NEW c \in 0 .. 255
  PROVE  c = tolower(b) \/ c = toupper(b) <=> tolower(c) = tolower(b)
  BY DEF tolower, toupper

\* In a state that counts i bytes, parser_feed takes the transition of a byte
\* that agrees, or else the one for any byte.
LEMMA TakenCompares ==
  ASSUME NEW s \in Seq(0 .. 127), NEW i \in 0 .. Len(s) - 1, NEW c \in 0 .. 255
  PROVE  LET t == Taken(Transitions(s, i), c) IN
           /\ t.act2 = NULL
           /\ tolower(c) = tolower(s[i + 1]) =>
                /\ t.dest = i + 1
                /\ t.act1 = IF i + 1 = Len(s) THEN "EQ" ELSE "MAYEQ"
           /\ tolower(c) # tolower(s[i + 1]) =>
                /\ t.dest = Len(s) + 1
                /\ t.act1 = "NEQ"
<1> DEFINE ts == Transitions(s, i)
           act == IF i + 1 = Len(s) THEN "EQ" ELSE "MAYEQ"
           First(k) == /\ k \in DOMAIN ts
                       /\ Matches(ts[k], c)
                       /\ \A j \in DOMAIN ts : Matches(ts[j], c) => k <= j
<1>1. /\ DOMAIN ts = 1 .. 3
      /\ ts[1] = To(tolower(s[i + 1]), i + 1, act)
      /\ ts[2] = To(toupper(s[i + 1]), i + 1, act)
      /\ ts[3] = To(ANY, Len(s) + 1, "NEQ")
  BY DEF Transitions
<1>2. s[i + 1] \in 0 .. 127
  <2>1. Len(s) \in Nat /\ i + 1 \in 1 .. Len(s)
    OBVIOUS
  <2> QED
    BY <2>1, ElementOfSeq
<1>3. \A b \in 0 .. 127 : tolower(b) # ANY /\ toupper(b) # ANY
  BY DEF tolower, toupper, ANY
<1>4. /\ Matches(ts[1], c) <=> c = tolower(s[i + 1])
      /\ Matches(ts[2], c) <=> c = toupper(s[i + 1])
      /\ Matches(ts[3], c)
  <2>1. /\ ts[1].when = tolower(s[i + 1])
        /\ ts[2].when = toupper(s[i + 1])
        /\ ts[3].when = ANY
    BY <1>1 DEF To
  <2>2. tolower(s[i + 1]) # ANY /\ toupper(s[i + 1]) # ANY
    BY <1>2, <1>3
  <2> QED
    BY <2>1, <2>2 DEF Matches
<1>5. PICK k : First(k)
  <2>1. CASE c = tolower(s[i + 1])
    <3>1. First(1)
      BY <1>1, <1>4, <2>1
    <3> QED
      BY <3>1
  <2>2. CASE c # tolower(s[i + 1]) /\ c = toupper(s[i + 1])
    <3>1. First(2)
      BY <1>1, <1>4, <2>2
    <3> QED
      BY <3>1
  <2>3. CASE c # tolower(s[i + 1]) /\ c # toupper(s[i + 1])
    <3>1. First(3)
      BY <1>1, <1>4, <2>3
    <3> QED
      BY <3>1
  <2> QED
    BY <2>1, <2>2, <2>3
<1>6. PICK m : First(m) /\ Taken(ts, c) = ts[m]
  <2> DEFINE m == CHOOSE n \in DOMAIN ts :
                    /\ Matches(ts[n], c)
                    /\ \A j \in DOMAIN ts : Matches(ts[j], c) => n <= j
  <2>1. First(m)
    BY <1>5
  <2>2. Taken(ts, c) = ts[m]
    BY DEF Taken
  <2> QED
    BY <2>1, <2>2
<1>7. CASE tolower(c) = tolower(s[i + 1])
  <2>1. Matches(ts[1], c) \/ Matches(ts[2], c)
    BY <1>2, <1>4, <1>7, CasesAgree
  <2>2. m \in 1 .. 3 /\ (m <= 1 \/ m <= 2)
    BY <1>1, <1>6, <2>1
  <2>3. m \in {1, 2}
    BY <2>2
  <2> QED
    BY <1>1, <1>6, <1>7, <2>3 DEF To
<1>8. CASE tolower(c) # tolower(s[i + 1])
  <2>1. ~Matches(ts[1], c) /\ ~Matches(ts[2], c)
    BY <1>2, <1>4, <1>8, CasesAgree
  <2>2. m = 3
    BY <1>1, <1>6, <2>1
  <2> QED
    BY <1>1, <1>6, <1>8, <2>2 DEF To
<1> QED
  BY <1>7, <1>8

\* Behind the last character every byte leads to the state NEQ.
LEMMA TakenDiffers ==
  ASSUME NEW s \in Seq(0 .. 127), NEW i \in Len(s) .. Len(s) + 1, NEW c \in 0 .. 255
  PROVE  LET t == Taken(Transitions(s, i), c) IN
           t.act1 = "NEQ" /\ t.act2 = NULL /\ t.dest = Len(s) + 1
<1> DEFINE ts == Transitions(s, i)
<1>1. DOMAIN ts = 1 .. 1 /\ ts[1] = To(ANY, Len(s) + 1, "NEQ")
  BY DEF Transitions
<1>2. Matches(ts[1], c)
  BY <1>1 DEF Matches, To
<1>3. Taken(ts, c) = ts[1]
  BY <1>1, <1>2 DEF Taken
<1> QED
  BY <1>1, <1>3 DEF To

\* One more byte agrees with the word if the text before it does, there is a
\* character left and the byte is that character in one of its cases.
LEMMA AgreeGrows ==
  ASSUME NEW s \in Seq(0 .. 127), NEW w \in Seq(0 .. 255), NEW c \in 0 .. 255
  PROVE  Agree(s, Append(w, c)) <=>
           /\ Agree(s, w)
           /\ Len(w) < Len(s)
           /\ tolower(c) = tolower(s[Len(w) + 1])
<1> DEFINE v == Append(w, c)
<1>1. /\ Len(v) = Len(w) + 1
      /\ v[Len(w) + 1] = c
      /\ \A i \in 1 .. Len(w) : v[i] = w[i]
  OBVIOUS
<1>2. ASSUME Agree(s, v)
      PROVE  Agree(s, w) /\ Len(w) < Len(s) /\ tolower(c) = tolower(s[Len(w) + 1])
  BY <1>1, <1>2 DEF Agree
<1>3. ASSUME Agree(s, w), Len(w) < Len(s), tolower(c) = tolower(s[Len(w) + 1])
      PROVE  Agree(s, v)
  <2>1. \A i \in 1 .. Len(v) : i \in 1 .. Len(w) \/ i = Len(w) + 1
    BY <1>1
  <2> QED
    BY <1>1, <1>3, <2>1 DEF Agree
<1> QED
  BY <1>2, <1>3

\* A text of bytes that are fed is one of bytes.
LEMMA ByteTexts ==
  ASSUME ParserAssumption, NEW w \in Seq(Byte)
  PROVE  w \in Seq(0 .. 255)
<1>1. Byte \subseteq 0 .. 255
  BY DEF ParserAssumption
<1>2. ASSUME NEW T, Byte \subseteq T
      PROVE  w \in Seq(T)
  BY <1>2, SeqMonotonic
<1> QED
  BY <1>1, <1>2, Zenon

\* What a step of the parser does to a text that is not at its limit: the event
\* and the next state follow from the verdict on the longer text.
LEMMA FeedStep ==
  ASSUME ParserAssumption, IInv, NEW c \in Byte, parser_feed(c)
  PROVE  /\ state' \in 0 .. Len(word) + 1
         /\ state' = IF Agree(word, text') THEN Len(text') ELSE Len(word) + 1
         /\ event' = <<[type |-> Verdict(word, text'), data |-> c]>>
<1> DEFINE t == Taken(Transitions(word, state), c)
<1>1. /\ word \in Seq(0 .. 127)
      /\ text \in Seq(0 .. 255)
      /\ c \in 0 .. 255
      /\ def.states[state] = Transitions(word, state)
      /\ state \in 0 .. Len(word) + 1
      /\ state = IF Agree(word, text) THEN Len(text) ELSE Len(word) + 1
  <2>1. state # NULL /\ word # NULL /\ word \in Word
    BY DEF IInv, TypeOK, parser_feed
  <2>2. def = Definition(word) /\ state \in DOMAIN def.states
    BY <2>1 DEF IInv, TypeOK
  <2>3. def.states[state] = Transitions(word, state) /\ state \in 0 .. Len(word) + 1
    BY <2>2 DEF Definition
  <2>4. text \in Seq(0 .. 255)
    <3>1. text \in Seq(Byte)
      BY Zenon DEF IInv, TypeOK
    <3> QED
      BY <3>1, ByteTexts, Zenon
  <2> QED
    BY <2>1, <2>3, <2>4 DEF IInv, StateCounts, ParserAssumption
<1>2. /\ state' = t.dest
      /\ event' = Events(t, c)
      /\ text' = Append(text, c)
  BY <1>1 DEF parser_feed
<1>3. Agree(word, text') <=>
        /\ Agree(word, text)
        /\ Len(text) < Len(word)
        /\ tolower(c) = tolower(word[Len(text) + 1])
  BY <1>1, <1>2, AgreeGrows
<1>4. Len(text') = Len(text) + 1 /\ Len(text) \in Nat /\ Len(word) \in Nat
  BY <1>1, <1>2
<1>5. t.act2 = NULL => Events(t, c) = <<[type |-> t.act1, data |-> c]>>
  BY DEF Events
<1>6. CASE Agree(word, text) /\ Len(text) < Len(word)
  <2>1. state = Len(text) /\ state \in 0 .. Len(word) - 1
    BY <1>1, <1>4, <1>6
  <2>2. /\ t.act2 = NULL
        /\ tolower(c) = tolower(word[state + 1]) =>
             /\ t.dest = state + 1
             /\ t.act1 = IF state + 1 = Len(word) THEN "EQ" ELSE "MAYEQ"
        /\ tolower(c) # tolower(word[state + 1]) =>
             /\ t.dest = Len(word) + 1
             /\ t.act1 = "NEQ"
    <3>1. word \in Seq(0 .. 127) /\ c \in 0 .. 255
      BY <1>1
    <3> QED
      BY <2>1, <3>1, TakenCompares, ZenonT(30)
  <2>3. t.act1 = Verdict(word, text')
    BY <1>3, <1>4, <1>6, <2>1, <2>2 DEF Verdict
  <2> QED
    BY <1>2, <1>3, <1>4, <1>5, <1>6, <2>1, <2>2, <2>3
<1>7. CASE ~(Agree(word, text) /\ Len(text) < Len(word))
  <2>1. state \in Len(word) .. Len(word) + 1
    BY <1>1, <1>4, <1>7
  <2>2. t.act1 = "NEQ" /\ t.act2 = NULL /\ t.dest = Len(word) + 1
    BY <1>1, <2>1, TakenDiffers
  <2>3. Verdict(word, text') = "NEQ"
    BY <1>3, <1>7 DEF Verdict
  <2> QED
    BY <1>2, <1>3, <1>4, <1>5, <1>7, <2>2, <2>3
<1> QED
  BY <1>6, <1>7

\* The empty text agrees with every word: where parser_init and parser_reset put
\* the parser.
LEMMA EmptyAgrees ==
  ASSUME NEW s \in Seq(0 .. 127)
  PROVE  Agree(s, <<>>) /\ Len(<<>>) = 0 /\ 0 \in 0 .. Len(s) + 1
  BY DEF Agree

\* The state counts what agrees and the last event is the verdict, whatever is
\* fed, reset, destroyed and made again.
THEOREM Invariance ==
  ASSUME ParserAssumption
  PROVE  Spec => []IInv
<1>1. Init => IInv
  <2> SUFFICES ASSUME Init PROVE IInv
    OBVIOUS
  <2>1. TypeOK
    <3>1. word = NULL /\ state = NULL /\ def = NoDefinition /\ text = <<>> /\ dead = FALSE
      BY DEF Init
    <3>2. text \in Seq(Byte)
      BY <3>1
    <3>3. def = (IF word = NULL THEN NoDefinition ELSE Definition(word))
      BY <3>1, Zenon
    <3>4. IF state = NULL THEN text = <<>> ELSE word # NULL /\ state \in DOMAIN def.states
      BY <3>1, Zenon
    <3> QED
      BY <3>1, <3>2, <3>3, <3>4, Zenon DEF TypeOK
  <2>2. StateCounts /\ EventsTellVerdict
    BY DEF Init, StateCounts, EventsTellVerdict
  <2> QED
    BY <2>1, <2>2 DEF IInv
<1>2. IInv /\ [Next]_vars => IInv'
  <2> SUFFICES ASSUME IInv, [Next]_vars
               PROVE  IInv'
    OBVIOUS
  <2> USE DEF ParserAssumption
  <2>1. CASE parser_utils_strcmpi
    <3>1. state = NULL /\ text = <<>>
      BY <2>1 DEF IInv, TypeOK, parser_utils_strcmpi
    <3>2. PICK s \in Word : word' = s /\ def' = Definition(s)
      BY <2>1 DEF parser_utils_strcmpi
    <3>3. s # NULL
      BY <3>2
    <3> QED
      BY <2>1, <3>1, <3>2, <3>3
      DEF IInv, TypeOK, StateCounts, EventsTellVerdict, parser_utils_strcmpi
  <2>2. CASE parser_utils_strcmpi_destroy
    BY <2>2 DEF IInv, TypeOK, StateCounts, EventsTellVerdict,
                parser_utils_strcmpi_destroy
  <2>3. ASSUME state' = def.start_state, text' = <<>>, word # NULL,
               UNCHANGED <<word, def, dead>>
        PROVE  IInv'
    <3>1. word \in Word /\ word \in Seq(0 .. 127) /\ def = Definition(word)
      BY <2>3 DEF IInv, TypeOK
    <3>2. state' = 0 /\ 0 \in DOMAIN def.states /\ 0 # NULL
      BY <2>3, <3>1, EmptyAgrees DEF Definition
    <3>3. TypeOK'
      BY <2>3, <3>2 DEF IInv, TypeOK
    <3>4. StateCounts'
      BY <2>3, <3>1, <3>2, EmptyAgrees DEF StateCounts
    <3>5. EventsTellVerdict'
      BY <2>3 DEF EventsTellVerdict
    <3> QED
      BY <3>3, <3>4, <3>5 DEF IInv
  <2>4. CASE parser_init
    BY <2>3, <2>4 DEF parser_init
  <2>5. CASE parser_reset
    BY <2>3, <2>5 DEF parser_reset, IInv, TypeOK
  <2>6. CASE parser_destroy
    BY <2>6 DEF IInv, TypeOK, StateCounts, EventsTellVerdict, parser_destroy
  <2>7. ASSUME NEW c \in Byte, parser_feed(c)
        PROVE  IInv'
    <3>1. /\ state' \in 0 .. Len(word) + 1
          /\ state' = IF Agree(word, text') THEN Len(text') ELSE Len(word) + 1
          /\ event' = <<[type |-> Verdict(word, text'), data |-> c]>>
      BY <2>7, FeedStep
    <3>2. /\ text' = Append(text, c)
          /\ UNCHANGED <<word, def, dead>>
          /\ state # NULL
      BY <2>7 DEF parser_feed
    <3>3. text \in Seq(Byte) /\ word # NULL /\ word \in Word /\ def = Definition(word)
      BY <3>2 DEF IInv, TypeOK
    <3>4. /\ text' \in Seq(Byte)
          /\ text'[Len(text')] = c
      BY <2>7, <3>2, <3>3
    <3>5. state' \in Nat /\ state' \in DOMAIN def.states /\ state' # NULL
      <4>1. Len(word) \in Nat
        BY <3>3
      <4> QED
        BY <3>1, <3>3, <4>1 DEF Definition
    <3>6. TypeOK'
      BY <3>2, <3>3, <3>4, <3>5 DEF IInv, TypeOK
    <3>7. StateCounts'
      BY <3>1, <3>2 DEF StateCounts
    <3>8. EventsTellVerdict'
      BY <3>1, <3>2, <3>4 DEF EventsTellVerdict
    <3> QED
      BY <3>6, <3>7, <3>8 DEF IInv
  <2>8. CASE parser_feed_overread
    BY <2>8 DEF IInv, TypeOK, StateCounts, EventsTellVerdict, parser_feed_overread
  <2>9. CASE UNCHANGED vars
    BY <2>9 DEF IInv, TypeOK, StateCounts, EventsTellVerdict, vars
  <2> QED
    BY <2>1, <2>2, <2>4, <2>5, <2>6, <2>7, <2>8, <2>9 DEF Next, Live, Dead
<1> QED
  BY <1>1, <1>2, PTL DEF Spec

\* The parser never leaves the states of its table (parser_feed).
THEOREM TypeCorrect ==
  ASSUME ParserAssumption
  PROVE  Spec => []TypeOK
<1>1. IInv => TypeOK
  BY DEF IInv
<1> QED
  BY <1>1, Invariance, PTL

\* Each event is the verdict on the text so far (parser_utils_strcmpi).
THEOREM EventsAreVerdicts ==
  ASSUME ParserAssumption
  PROVE  Spec => []EventsTellVerdict
<1>1. IInv => EventsTellVerdict
  BY DEF IInv
<1> QED
  BY <1>1, Invariance, PTL
=============================================================================

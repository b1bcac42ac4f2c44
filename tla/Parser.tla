------------------------------- MODULE Parser -------------------------------
(***************************************************************************)
(* The byte parser of src/parser.c, run on the tables src/parser_utils.c   *)
(* builds to compare a text with a word, whatever its case: one caller     *)
(* that makes a table, feeds a parser with it byte by byte, resets it and  *)
(* destroys both, as test/parser_utils_test.c does.  The proxy calls none  *)
(* of it.  What a parser does depends on no other actor and on no order of *)
(* events but that of its bytes, so ParserProofs proves the properties for *)
(* every word and text, and no run of TLC samples them.                    *)
(***************************************************************************)
EXTENDS Integers, Sequences

CONSTANTS
  Byte,    \* bytes that are fed
  Word,    \* words to compare with, in ASCII
  NULL,
  MaxFeed  \* bytes fed between two resets (bound)

\* What the theorems ask of the constants.
ParserAssumption ==
  /\ Byte \subseteq 0 .. 255
  /\ Word \subseteq Seq(0 .. 127)
  /\ NULL \notin Word \cup Nat
  /\ MaxFeed \in Nat

VARIABLES
  word,   \* the argument of parser_utils_strcmpi, or NULL without a table
  def,    \* struct parser_definition
  state,  \* parser.state, or NULL without a parser
  event,  \* parser.e1 and what follows it by next, as of the last parser_feed
  dead,   \* the address sanitizer of the makefile's build ended the process
  text    \* history: the bytes fed since the parser was at its start

vars == <<word, def, state, event, dead, text>>

(***************************************************************************)
(* parser_utils.c                                                          *)
(***************************************************************************)

ANY == 512

tolower(c) == IF c \in 65 .. 90 THEN c + 32 ELSE c
toupper(c) == IF c \in 97 .. 122 THEN c - 32 ELSE c

To(when, dest, act1) ==
  [when |-> when, dest |-> dest, act1 |-> act1, act2 |-> NULL]

\* States 0 .. n - 1 count the bytes that agree; n is EQ and n + 1 is NEQ.
Transitions(s, i) ==
  LET act == IF i + 1 = Len(s) THEN "EQ" ELSE "MAYEQ" IN
  IF i < Len(s)
  THEN <<To(tolower(s[i + 1]), i + 1, act),
         To(toupper(s[i + 1]), i + 1, act),
         To(ANY, Len(s) + 1, "NEQ")>>
  ELSE <<To(ANY, Len(s) + 1, "NEQ")>>

NoDefinition == [start_state |-> 0, states |-> <<>>]

Definition(s) ==
  [start_state |-> 0, states |-> [i \in 0 .. Len(s) + 1 |-> Transitions(s, i)]]

\* (When calloc fails it returns a table without states, which a caller drops.)
parser_utils_strcmpi ==
  /\ word = NULL
  /\ \E s \in Word :
       /\ word' = s
       /\ def' = Definition(s)
  /\ UNCHANGED <<state, event, dead, text>>

parser_utils_strcmpi_destroy ==
  /\ word # NULL
  /\ state = NULL
  /\ word' = NULL
  /\ def' = NoDefinition
  /\ UNCHANGED <<state, event, dead, text>>

(***************************************************************************)
(* parser.c                                                                *)
(***************************************************************************)

\* The events are zero after memset: none.
parser_init ==
  /\ word # NULL
  /\ state = NULL
  /\ state' = def.start_state
  /\ event' = <<>>
  /\ text' = <<>>
  /\ UNCHANGED <<word, def, dead>>

\* The classes of parser_no_classes are all 0: a condition on a class never holds.
Matches(t, c) == t.when = c \/ t.when = ANY

\* The first transition whose condition holds.
Taken(transitions, c) ==
  transitions[CHOOSE i \in DOMAIN transitions :
    /\ Matches(transitions[i], c)
    /\ \A k \in DOMAIN transitions : Matches(transitions[k], c) => i <= k]

Events(t, c) ==
  <<[type |-> t.act1, data |-> c]>>
    \o (IF t.act2 = NULL THEN <<>> ELSE <<[type |-> t.act2, data |-> c]>>)

parser_feed(c) ==
  /\ state # NULL
  /\ Len(text) < MaxFeed
  /\ LET t == Taken(def.states[state], c) IN
       /\ state' = t.dest
       /\ event' = Events(t, c)
  /\ text' = Append(text, c)
  /\ UNCHANGED <<word, def, dead>>

\* The array of parser_no_classes has no element for byte 255.  What lies behind
\* it is read and not used, if the sanitizer lets it.
parser_feed_overread ==
  /\ state # NULL
  /\ 255 \in Byte
  /\ Len(text) < MaxFeed
  /\ dead' = TRUE
  /\ UNCHANGED <<word, def, state, event, text>>

\* The events stay as they are.
parser_reset ==
  /\ state # NULL
  /\ state' = def.start_state
  /\ text' = <<>>
  /\ UNCHANGED <<word, def, event, dead>>

parser_destroy ==
  /\ state # NULL
  /\ state' = NULL
  /\ event' = <<>>
  /\ text' = <<>>
  /\ UNCHANGED <<word, def, dead>>

(***************************************************************************)
(* Specification                                                           *)
(***************************************************************************)

Init ==
  /\ word = NULL
  /\ def = NoDefinition
  /\ state = NULL
  /\ event = <<>>
  /\ dead = FALSE
  /\ text = <<>>

Live ==
  /\ ~dead
  /\ \/ parser_utils_strcmpi \/ parser_utils_strcmpi_destroy
     \/ parser_init \/ parser_reset \/ parser_destroy
     \/ \E c \in Byte : parser_feed(c)
     \/ parser_feed_overread

Dead == dead /\ UNCHANGED vars

Next == Live \/ Dead

Spec == Init /\ [][Next]_vars

(***************************************************************************)
(* Properties                                                              *)
(***************************************************************************)

\* The parser is in a state of its table, which parser_feed uses as an index.
TypeOK ==
  /\ word \in Word \cup {NULL}
  /\ def = (IF word = NULL THEN NoDefinition ELSE Definition(word))
  /\ IF state = NULL THEN text = <<>>
                     ELSE word # NULL /\ state \in DOMAIN def.states
  /\ dead \in BOOLEAN
  /\ text \in Seq(Byte)

\* What the comparison of a word with a text should say, by definition.
Agree(s, w) ==
  /\ Len(w) <= Len(s)
  /\ \A i \in 1 .. Len(w) : tolower(w[i]) = tolower(s[i])

Verdict(s, w) ==
  IF Agree(s, w) THEN IF Len(w) = Len(s) THEN "EQ" ELSE "MAYEQ"
                 ELSE "NEQ"

\* parser_utils.h: each byte fed is answered by one event that tells whether the
\* text so far is the word, may become it or differs, in any case of its letters,
\* and after a parser_reset as well.
EventsTellVerdict ==
  text # <<>> =>
    event = <<[type |-> Verdict(word, text), data |-> text[Len(text)]]>>

\* The inductive invariant behind it: the state says how much of the word agrees,
\* or that the text differs or is longer.
StateCounts ==
  state # NULL =>
    state = IF Agree(word, text) THEN Len(text) ELSE Len(word) + 1

IInv == TypeOK /\ StateCounts /\ EventsTellVerdict
=============================================================================

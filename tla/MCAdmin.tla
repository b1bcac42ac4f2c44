------------------------------ MODULE MCAdmin ------------------------------
(***************************************************************************)
(* Instances of Admin for TLC.                                             *)
(***************************************************************************)
EXTENDS Admin

MCFirst == <<"0", "0">>
Other == <<"1", "1">>

\* A word of n characters, of which the first tells it from the others.
Spelled(word, n) == [i \in 1 .. n |-> IF i = 1 THEN word ELSE "_"]

\* The options are as long as the program's: where a line's spaces lie depends on it.
MCName ==
  [o \in Options |-> CASE o = "HELP"          -> Spelled("H", 4)
                       [] o = "GET_BUFF_SIZE" -> Spelled("B", 13)
                       [] o = "GET_STATS"     -> Spelled("G", 9)
                       [] o = "SET_AUTH"      -> Spelled("S", 8)]

Stop == Spelled("X", 4)

MCGlyph == {"0", "1", "_", "H", "B", "G", "S", "X"}

TooLong == <<"1", "1", "1", "1", "1">>

L(auth, command, arguments) ==
  [auth |-> auth, command |-> command, arguments |-> arguments]

\* The documented commands, with the first password or the one it is changed to, one
\* the server does not know, a password that is too short, and SET_AUTH without an
\* argument, with one of the right length, and with one that does not fit the buffer.
MCLines ==
  {L(MCFirst, MCName["SET_AUTH"], a) : a \in {<<>>, <<Other>>, <<TooLong>>}}
  \cup {L(Other, MCName["SET_AUTH"], <<MCFirst>>),
        L(MCFirst, MCName["HELP"], <<>>), L(Other, MCName["GET_BUFF_SIZE"], <<>>),
        L(MCFirst, MCName["GET_STATS"], <<>>), L(Other, Stop, <<>>),
        L(<<"0">>, MCName["GET_STATS"], <<>>)}

\* The hypothesis under which the password and the promise of the commands are proved.
ASSUME MCDocumented == Lines = MCLines => Documented

\* A longer command than SET_AUTH that is typed with an argument, too.
MCLeftover ==
  {L(MCFirst, MCName["GET_STATS"], <<Other>>)}
  \cup {L(p, MCName["SET_AUTH"], a) : p \in {MCFirst, Other}, a \in {<<>>, <<MCFirst>>}}
=============================================================================

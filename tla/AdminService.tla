---------------------------- MODULE AdminService ----------------------------
(***************************************************************************)
(* What README.md promises of the administration protocol, without         *)
(* datagrams or buffers: a line is answered by what it says and by the     *)
(* password and the counters at one moment, its answer goes to whoever     *)
(* asked or to nobody, and only a SET_AUTH line that carries the current   *)
(* password changes the password, to the argument of that line.            *)
(***************************************************************************)
EXTENDS Naturals, Sequences

CONSTANTS Client,    \* administrators
          Lines,     \* what they type: password, command and arguments
          Name,      \* the word for each command
          None,      \* no line, no answer
          PASS_LEN,  \* length of a password
          First      \* the password the server starts with

VARIABLES
  password,
  stats,   \* counters that GET_STATS reports
  asked,   \* asked[c]: the line of c that was not served yet
  answer   \* answer[c]: the answer that c has not read yet

vars == <<password, stats, asked, answer>>

Sets(line) ==
  /\ line.auth = password
  /\ line.command = Name["SET_AUTH"]
  /\ Len(line.arguments) = 1
  /\ Len(line.arguments[1]) = PASS_LEN

Reply(line) ==
  IF line.auth # password THEN [kind |-> "unauthorized"]
  ELSE CASE line.command = Name["HELP"]          -> [kind |-> "help"]
         [] line.command = Name["GET_BUFF_SIZE"] -> [kind |-> "size"]
         [] line.command = Name["GET_STATS"]     -> [kind |-> "stats", stats |-> stats]
         [] line.command = Name["SET_AUTH"]      ->
              [kind |-> IF Sets(line) THEN "ok" ELSE "incorrect argument"]
         [] OTHER                                -> [kind |-> "unknown"]

Init ==
  /\ password = First
  /\ stats = [historic |-> 0, current |-> 0, bytes |-> 0]
  /\ asked = [c \in Client |-> None]
  /\ answer = [c \in Client |-> None]

Ask(c, line) ==
  /\ asked[c] = None /\ answer[c] = None
  /\ asked' = [asked EXCEPT ![c] = line]
  /\ UNCHANGED <<password, stats, answer>>

Serve(c) ==
  /\ asked[c] # None
  /\ asked' = [asked EXCEPT ![c] = None]
  /\ answer' \in {answer, [answer EXCEPT ![c] = Reply(asked[c])]}
  /\ password' = IF Sets(asked[c]) THEN asked[c].arguments[1] ELSE password
  /\ UNCHANGED stats

Read(c) ==
  /\ answer[c] # None
  /\ answer' = [answer EXCEPT ![c] = None]
  /\ UNCHANGED <<password, stats, asked>>

\* GET_STATS reports all the connections there were, those that are open, and the
\* bytes transferred.
Connected ==
  /\ stats' = [stats EXCEPT !.historic = @ + 1, !.current = @ + 1]
  /\ UNCHANGED <<password, asked, answer>>

Disconnected ==
  /\ stats.current > 0
  /\ stats' = [stats EXCEPT !.current = @ - 1]
  /\ UNCHANGED <<password, asked, answer>>

Transferred ==
  /\ stats'.bytes > stats.bytes
  /\ stats' = [stats EXCEPT !.bytes = stats'.bytes]
  /\ UNCHANGED <<password, asked, answer>>

Next ==
  \/ \E c \in Client : (\E l \in Lines : Ask(c, l)) \/ Serve(c) \/ Read(c)
  \/ Connected \/ Disconnected \/ Transferred

Spec == Init /\ [][Next]_vars
=============================================================================

------------------------------- MODULE Admin -------------------------------
(***************************************************************************)
(* The administration protocol: the datagram handlers of src/admin.c, the  *)
(* counters of src/admin_utils.c and the clients of client/admin_client.c. *)
(*                                                                         *)
(* The server reads a datagram over whatever its buffer held before and    *)
(* looks for words in that memory, not in the datagram.  A cell of the     *)
(* memory is a character of a word, SP or NL; the memory behind the last   *)
(* cell ever written is NUL.                                               *)
(*                                                                         *)
(* Clients and server share the loopback interface, which neither loses    *)
(* nor reorders datagrams.                                                 *)
(*                                                                         *)
(* A definition X_y next to X is X with a defect; nothing uses it but the  *)
(* experiments that show which property would notice.                      *)
(***************************************************************************)
EXTENDS Integers, SequencesExt

CONSTANTS
  Client,         \* running instances of pop3ctl
  Lines,          \* lines their users type: [auth, command, arguments]
  Glyph,          \* characters of words: what a cell may hold besides SP and NL
  Name,           \* how each option is spelled
  None,
  PASS_LEN,       \* admin.h: length of a password
  BUFF_SIZE,      \* admin.c: how much of a datagram recvfrom takes
  First,          \* the password main.c sets
  MaxConnections, \* accepted connections in one behaviour (bound)
  MaxBytes        \* bytes of commands sent to origins in one behaviour (bound)

Options == {"HELP", "GET_BUFF_SIZE", "GET_STATS", "SET_AUTH"}

SP == "SP"
NL == "NL"
Cell == Glyph \cup {SP, NL}

ASSUME AdminAssumption ==
  /\ PASS_LEN \in Nat \ {0}
  /\ BUFF_SIZE \in Nat \ {0}
  /\ MaxConnections \in Nat /\ MaxBytes \in Nat
  /\ Name \in [Options -> Seq(Glyph)]
  /\ \A o, p \in Options : Name[o] = Name[p] => o = p
  /\ Lines \subseteq [auth : Seq(Glyph), command : Seq(Glyph),
                      arguments : Seq(Seq(Glyph))]
  /\ First \in Seq(Glyph) /\ Len(First) = PASS_LEN
  /\ None \notin Client \cup Lines

VARIABLES
  \* struct admin
  password,
  memory,    \* read_buffer_space
  write,     \* the offset of read_buffer's write pointer; reads start at 0
  armed,     \* the interest of the UDP descriptor, or "exit"
  clntAddr,  \* who sent the datagram in the buffer: a local of udp_read
  stats,     \* struct udp_stats
  \* the sockets
  inbox,     \* datagrams at the server: [from, cells]
  answer,    \* answer[c]: the datagram at client c, or None
  \* the clients
  phase,
  line,      \* line[c]: what c sent last
  \* history
  told       \* the argument of the last line answered with -OK

serverVars == <<password, memory, write, armed, clntAddr>>
clientVars == <<phase, line>>
vars == <<serverVars, stats, inbox, answer, clientVars, told>>

\* Without the end of line that the terminal delivers.
Typed_stripped(l) ==
  l.auth \o <<SP>> \o l.command
    \o FlattenSeq([i \in DOMAIN l.arguments |-> <<SP>> \o l.arguments[i]])

\* A line as it goes over the wire.
Typed(l) ==
  l.auth \o <<SP>> \o l.command
    \o FlattenSeq([i \in DOMAIN l.arguments |-> <<SP>> \o l.arguments[i]]) \o <<NL>>

Init ==
  /\ password = First
  /\ memory = <<>>
  /\ write = 0
  /\ armed = "READ"
  /\ clntAddr = None
  /\ stats = [historic |-> 0, current |-> 0, bytes |-> 0]
  /\ inbox = <<>>
  /\ answer = [c \in Client |-> None]
  /\ phase = [c \in Client |-> "prompt"]
  /\ line = [c \in Client |-> None]
  /\ told = First

(***************************************************************************)
(* The client                                                              *)
(***************************************************************************)

Send_again(c, l, cells) ==
  /\ armed # "exit"
  /\ phase[c] # "quit"
  /\ phase' = [phase EXCEPT ![c] = "waiting"]
  /\ line' = [line EXCEPT ![c] = l]
  /\ inbox' = Append(inbox, [from |-> c, cells |-> cells])
  /\ UNCHANGED <<serverVars, stats, answer, told>>

Send(c, l, cells) ==
  /\ armed # "exit"
  /\ phase[c] = "prompt"
  /\ phase' = [phase EXCEPT ![c] = "waiting"]
  /\ line' = [line EXCEPT ![c] = l]
  /\ inbox' = Append(inbox, [from |-> c, cells |-> cells])
  /\ UNCHANGED <<serverVars, stats, answer, told>>

SendLine(c) == \E l \in Lines : Send(c, l, Typed(l))

\* At the end of the input read returns 0, and 0 bytes are sent.
SendNothing(c) == Send(c, None, <<>>)

\* recvfrom has no timeout: a client without an answer waits.
Receive(c) ==
  /\ phase[c] = "waiting"
  /\ answer[c] # None
  /\ answer' = [answer EXCEPT ![c] = None]
  /\ phase' = [phase EXCEPT ![c] = "prompt"]
  /\ line' = [line EXCEPT ![c] = None]
  /\ UNCHANGED <<serverVars, stats, inbox, told>>

Quit(c) ==
  /\ phase[c] = "prompt"
  /\ phase' = [phase EXCEPT ![c] = "quit"]
  /\ UNCHANGED <<serverVars, stats, inbox, answer, line, told>>

(***************************************************************************)
(* The server                                                              *)
(***************************************************************************)

\* The bytes of a datagram replace as many of the memory's, from the write
\* pointer on.
Overlay(cells) ==
  SubSeq(memory, 1, write) \o cells
    \o SubSeq(memory, write + Len(cells) + 1, Len(memory))

Taken(cells) == SubSeq(cells, 1, IF Len(cells) > BUFF_SIZE THEN BUFF_SIZE
                                                           ELSE Len(cells))

\* An empty datagram counts as a failure, which ends the process.
udp_read ==
  /\ armed = "READ"
  /\ inbox # <<>>
  /\ inbox' = Tail(inbox)
  /\ LET cells == Taken(Head(inbox).cells) IN
       IF cells = <<>>
       THEN /\ armed' = "exit"
            /\ UNCHANGED <<memory, write, clntAddr>>
       ELSE /\ memory' = Overlay(cells)
            /\ write' = write + Len(cells)
            /\ clntAddr' = Head(inbox).from
            /\ armed' = "WRITE"
  /\ UNCHANGED <<password, stats, answer, clientVars, told>>

\* The cells from an index on, up to a separator or the end of what was written.
Word(first) ==
  LET ends == {i \in first .. Len(memory) : memory[i] \in {SP, NL}}
      last == IF ends = {} THEN Len(memory)
              ELSE (CHOOSE i \in ends : \A k \in ends : i <= k) - 1
  IN SubSeq(memory, first, last)

validate_password ==
  /\ Len(memory) > PASS_LEN
  /\ SubSeq(memory, 1, PASS_LEN) = password
  /\ memory[PASS_LEN + 1] = SP

validate_options ==
  LET meant == {o \in Options : Name[o] = Word(PASS_LEN + 2)}
  IN IF meant = {} THEN "NONE" ELSE CHOOSE o \in meant : TRUE

\* What follows the last space of the memory.
parse_get_set_arguments ==
  LET spaces == {i \in DOMAIN memory : memory[i] = SP}
      offset == CHOOSE i \in spaces : \A k \in spaces : k <= i
  IN Word(offset + 1)

\* sendto goes to a local that nothing assigns.  In the program as it is built it
\* holds the address udp_read left on the stack, or none that sendto accepts.
Reply(r) == answer' \in {answer, [answer EXCEPT ![clntAddr] = r]}

\* Its sender was told the argument of the line, if the line had one.
set_admin_password(argument) ==
  /\ password' = argument
  /\ told' = IF line[clntAddr].arguments = <<>> THEN <<>> ELSE line[clntAddr].arguments[1]

Keeps == UNCHANGED <<password, told>>

SetAuth_long ==
  IF Len(parse_get_set_arguments) < PASS_LEN
  THEN Reply([kind |-> "incorrect argument"]) /\ Keeps
  ELSE Reply([kind |-> "ok"]) /\ set_admin_password(parse_get_set_arguments)

SetAuth ==
  IF Len(parse_get_set_arguments) # PASS_LEN
  THEN Reply([kind |-> "incorrect argument"]) /\ Keeps
  ELSE Reply([kind |-> "ok"]) /\ set_admin_password(parse_get_set_arguments)

Answers ==
  IF ~validate_password
  THEN Reply([kind |-> "unauthorized"]) /\ Keeps
  ELSE CASE validate_options = "HELP"          -> Reply([kind |-> "help"]) /\ Keeps
         [] validate_options = "GET_BUFF_SIZE" -> Reply([kind |-> "size"]) /\ Keeps
         [] validate_options = "GET_STATS"     ->
              Reply([kind |-> "stats", stats |-> stats]) /\ Keeps
         [] validate_options = "SET_AUTH"      -> SetAuth
         [] OTHER                              -> Reply([kind |-> "unknown"]) /\ Keeps

udp_write_filled ==
  /\ armed = "WRITE"
  /\ Answers
  /\ armed' = "READ"
  /\ UNCHANGED <<memory, write, clntAddr, stats, inbox, clientVars>>

udp_write_armed ==
  /\ armed = "WRITE"
  /\ Answers
  /\ write' = 0
  /\ clntAddr' = None
  /\ armed' = IF inbox = <<>> THEN "READ" ELSE armed
  /\ UNCHANGED <<memory, stats, inbox, clientVars>>

\* buffer_reset leaves the memory as it is.
udp_write ==
  /\ armed = "WRITE"
  /\ Answers
  /\ write' = 0
  /\ clntAddr' = None
  /\ armed' = "READ"
  /\ UNCHANGED <<memory, stats, inbox, clientVars>>

(***************************************************************************)
(* The counters                                                            *)
(***************************************************************************)

\* Between two datagrams the loop serves sessions.  Nothing that runs calls
\* stats_closed_connection or add_transfered_bytes.
stats_new_connection ==
  /\ armed # "exit"
  /\ stats.historic < MaxConnections
  /\ stats' = [stats EXCEPT !.historic = @ + 1, !.current = @ + 1]
  /\ UNCHANGED <<serverVars, inbox, answer, clientVars, told>>

\* A session sends its origin a command of this many bytes, and counts its LF.
request_send(size) ==
  /\ armed # "exit"
  /\ stats.historic > 0
  /\ stats.bytes + size + 1 <= MaxBytes
  /\ stats' = [stats EXCEPT !.bytes = @ + size + 1]
  /\ UNCHANGED <<serverVars, inbox, answer, clientVars, told>>

(***************************************************************************)
(* Specification                                                           *)
(***************************************************************************)

\* Every client has quit, or waits for an answer that was lost.
Silent ==
  /\ \/ armed = "exit"
     \/ \A c \in Client : phase[c] # "prompt" /\ answer[c] = None
  /\ UNCHANGED vars

Next ==
  \/ \E c \in Client : SendLine(c) \/ SendNothing(c) \/ Receive(c) \/ Quit(c)
  \/ udp_read
  \/ udp_write
  \/ stats_new_connection
  \/ \E size \in 1 .. MaxBytes : request_send(size)
  \/ Silent

\* The selector calls the handler of a ready descriptor, and a client reads its
\* answer.
Spec ==
  /\ Init /\ [][Next]_vars
  /\ WF_vars(udp_read) /\ WF_vars(udp_write)
  /\ \A c \in Client : WF_vars(Receive(c))

(***************************************************************************)
(* Properties                                                              *)
(***************************************************************************)

Kind == {"unauthorized", "help", "size", "stats", "ok", "incorrect argument", "unknown"}

Counters ==
  [historic : 0 .. MaxConnections, current : 0 .. MaxConnections, bytes : 0 .. MaxBytes]
Answer == [kind : Kind \ {"stats"}] \cup [kind : {"stats"}, stats : Counters]
Datagram == [from : Client, cells : Seq(Cell)]

TypeOK ==
  /\ password \in Seq(Cell) /\ Len(password) = PASS_LEN
  /\ memory \in Seq(Cell)
  /\ armed \in {"READ", "WRITE", "exit"}
  /\ write \in 0 .. Len(memory) /\ (armed # "WRITE" => write = 0)
  /\ clntAddr \in Client \cup {None} /\ (clntAddr \in Client <=> armed = "WRITE")
  /\ stats \in Counters /\ stats.current <= stats.historic
  /\ inbox \in Seq(Datagram)
  /\ answer \in [Client -> Answer \cup {None}]
  /\ phase \in [Client -> {"prompt", "waiting", "quit"}]
  /\ line \in [Client -> Lines \cup {None}]

\* Who holds the password knows it: it is the argument of the last line that was
\* answered with -OK, whatever the buffer held of earlier, longer lines.
PasswordAsTold == password = told

\* A datagram of c that udp_write has yet to answer.
Unserved(c) ==
  \/ \E i \in DOMAIN inbox : inbox[i].from = c
  \/ armed = "WRITE" /\ clntAddr = c

\* Lockstep: whoever waits has at most one datagram on its way to the server or one
\* answer on its way back, and nobody else has any.
Lockstep ==
  \A c \in Client :
    /\ Unserved(c) \/ answer[c] # None => phase[c] = "waiting"
    /\ ~(Unserved(c) /\ answer[c] # None)
    /\ \A i, j \in DOMAIN inbox : inbox[i].from = c /\ inbox[j].from = c => i = j
    /\ (\E i \in DOMAIN inbox : inbox[i].from = c) => clntAddr # c

\* What c sent last, as it arrives.
SentBy(c) == IF line[c] = None THEN <<>> ELSE Typed(line[c])

\* A datagram, in the socket or in the buffer, is the last that its sender sent, and
\* the buffer was reset before it: the bytes up to the write pointer are it.
OwnBytes ==
  /\ \A i \in DOMAIN inbox : inbox[i].cells = SentBy(inbox[i].from)
  /\ armed = "WRITE" =>
       /\ line[clntAddr] # None
       /\ SubSeq(memory, 1, write) = Taken(SentBy(clntAddr))

\* What every step relies on and keeps.
IInv == TypeOK /\ Lockstep /\ OwnBytes

\* Where a SET_AUTH line that carries a password has the space before its argument.
Furthest == PASS_LEN + Len(Name["SET_AUTH"]) + 2

\* Lines as the README documents them: a password of at most the right length, a
\* command, and an argument for none but SET_AUTH, with spaces only between them.  The
\* buffer takes every command and the longest line that is accepted, and no password is
\* as long as the word SET_AUTH.
Documented ==
  /\ SP \notin Glyph /\ NL \notin Glyph
  /\ Len(Name["SET_AUTH"]) # PASS_LEN
  /\ BUFF_SIZE > Furthest + PASS_LEN
  /\ \A l \in Lines :
       /\ Len(l.auth) <= PASS_LEN
       /\ Len(l.auth) + Len(l.command) + 2 <= BUFF_SIZE
       /\ Len(l.arguments) <= 1
       /\ l.command # Name["SET_AUTH"] => l.arguments = <<>>

\* What documented lines leave behind: wherever the memory has a space, each later
\* SET_AUTH line that carries a password writes over it or up to it.
PlainInv ==
  /\ password \in Seq(Glyph) /\ password = told
  /\ \A i \in DOMAIN memory : memory[i] = SP => i <= Furthest

\* What the README promises of the commands, with answers that may get lost:
\* each line is served once, by its own words, and its answer goes to nobody else.
Service == INSTANCE AdminService WITH
  asked <- [c \in Client |-> IF Unserved(c) THEN line[c] ELSE None]
ServiceSpec == Service!Spec

\* Every datagram is taken in the end, in spite of others, and the server listens
\* again, unless an empty one ends the process.
Handled == \A c \in Client : []<>(~Unserved(c) \/ armed = "exit")

\* Every line is answered: a client is not left waiting (udp_write sends to its
\* "Client address").
Answered == \A c \in Client : []<>(phase[c] # "waiting" \/ armed = "exit")
=============================================================================

------------------------------- MODULE Relay -------------------------------
(***************************************************************************)
(* What one connected session does to the bytes it relays: the greeting,   *)
(* the CAPA exchange with the origin, and the requests and responses that  *)
(* follow (src/greetings_events.c, capa_events.c, request_events.c and     *)
(* response_events.c over src/buffer.c and src/cmd_queue.c).  Proxy leaves *)
(* these to chance and shows in return that exactly one descriptor of a    *)
(* connected session is armed, which is the variable armed here.           *)
(*                                                                         *)
(* A byte is CR, LF, DOT, NUL or a token for the text between them.        *)
(* The two peers are the environment: what a recv may return, what a send  *)
(* accepts and when the client speaks are chosen by the constants          *)
(* SplitRecv, SplitSend and Eager.                                         *)
(*                                                                         *)
(* A definition X_y next to X is X with a defect; nothing uses it but the  *)
(* experiments that show which property would notice.                      *)
(***************************************************************************)
EXTENDS Integers, SequencesExt, TLC

CONSTANTS
  Size,         \* BUFFER_SIZE
  MAX_CMD_SIZE, \* cmd_queue.h: how much text a command may have
  Text,         \* the tokens that stand for text
  Greeting,     \* the origin's first line
  Lines,        \* the lines a client may send
  Replies,      \* Replies[l]: what the origin may answer to line l
  CapaReplies,  \* what it may answer to CAPA
  MaxLines,     \* lines a client sends in one behaviour (bound)
  SplitRecv,    \* the peers of which a recv may return less than has arrived
  SplitSend,    \* may a send accept less than it is given?
  Eager,        \* may the client send a line before the last reply?
  Closing       \* may a peer close its connection?

CR == "CR"
LF == "LF"
DOT == "."
NUL == "NUL"
Byte == Text \cup {CR, LF, DOT, NUL}

\* CAPA, the answer to a line the origin does not know, and whatever may lie in
\* memory nobody wrote.
CAPA == "CAPA"
ERR == "-ERR"
JUNK == "junk"

ASSUME RelayAssumption ==
  /\ {CAPA, ERR, JUNK} \subseteq Text
  /\ Size \in Nat \ {0}
  /\ MAX_CMD_SIZE \in Nat
  /\ MaxLines \in Nat
  /\ SplitRecv \subseteq {"client", "origin"}
  /\ {SplitSend, Eager, Closing} \subseteq BOOLEAN
  /\ Greeting \in Seq(Byte)
  /\ CapaReplies \subseteq Seq(Byte)
  /\ \A l \in Lines : /\ l \in Seq(Byte) \ {<<>>}
                      /\ Replies[l] \in (SUBSET Seq(Byte)) \ {{}}

VARIABLES
  st,       \* stm.current, or "crash"
  armed,    \* the descriptor whose interest is not OP_NOOP, and for what
  rbuf,     \* read_buffer, as the bytes in it and the offset of write
  wbuf,     \* write_buffer
  req,      \* client.request: cr, lf and request_finished
  cmds,     \* client.request.cmd_queue
  orig,     \* the flags of the union orig, by their offset
  bytes_transfered, \* what this session has added to it (struct admin, stats)
  \* the peers
  up,       \* bytes from the client not yet received by the proxy
  down,     \* bytes from the origin not yet received by the proxy
  inbox,    \* bytes at the origin, which it has not answered yet
  gone,     \* peers that closed their connection
  \* history
  sent,     \* bytes the client sent
  relayed,  \* bytes request_send passed on
  due,      \* bytes of the origin that are meant for the client
  got,      \* bytes the client received
  asked,    \* lines the client sent
  answered  \* lines of clients the origin answered

buffers == <<rbuf, wbuf>>
peers == <<up, down, inbox, gone>>
history == <<sent, relayed, due, got, asked, answered>>
vars == <<st, armed, buffers, req, cmds, orig, bytes_transfered, peers, history>>

(***************************************************************************)
(* Buffers.  Module Buffer shows that this is all of one that matters.     *)
(***************************************************************************)

Empty == [queue |-> <<>>, write |-> 0]
CanWrite_late(b) == b.write <= Size
CanWrite(b) == b.write < Size
Room(b) == Size - b.write

Keep(b, bytes) ==
  [queue |-> b.queue \o bytes, write |-> b.write + Len(bytes)]

Drop(b, n) ==
  IF n = Len(b.queue) THEN Empty
                      ELSE [b EXCEPT !.queue = SubSeq(@, n + 1, Len(@))]

(***************************************************************************)
(* The union orig.  struct greetings, struct capa and struct response all  *)
(* begin with a pointer, and their flags share the bytes that follow it.   *)
(***************************************************************************)

Offset == 8 .. 13
cr_received == 8
greet_finished == 9
capa == [pipelining |-> 8, first_cr |-> 9, first_lf |-> 10, dot |-> 11,
         second_cr |-> 12, finished |-> 13]
response == [first_cr |-> 8, first_lf |-> 9, dot |-> 10, second_cr |-> 11,
             finished |-> 12, next_cmd_multiline |-> 13]

\* check_char of the greeting, and of a response of one line.
CheckLine(o, cr, finished, c) ==
  CASE c = CR -> [o EXCEPT ![cr] = TRUE]
    [] c = LF -> [o EXCEPT ![finished] = o[cr]]
    [] OTHER  -> [o EXCEPT ![cr] = FALSE]

\* check_char of the CAPA reply, and of a response of several lines.
CheckMultiline(o, f, c) ==
  CASE c = CR  -> IF o[f.first_cr] THEN [o EXCEPT ![f.second_cr] = o[f.dot]]
                                   ELSE [o EXCEPT ![f.first_cr] = TRUE]
    [] c = LF  -> IF o[f.first_lf]
                  THEN [o EXCEPT ![f.finished] = o[f.second_cr]]
                  ELSE [o EXCEPT ![f.first_lf] = o[f.first_cr]]
    [] c = DOT -> [o EXCEPT ![f.dot] = o[f.first_lf]]
    [] OTHER   -> [o EXCEPT ![f.first_cr] = FALSE, ![f.first_lf] = FALSE,
                            ![f.dot] = FALSE, ![f.second_cr] = FALSE]

(***************************************************************************)
(* What a recv and a send may do                                           *)
(***************************************************************************)

\* recv returns a non-empty part of what has arrived, as much as there is room
\* for unless the network splits it.
Received(side, stream, room) ==
  LET most == IF Len(stream) < room THEN Len(stream) ELSE room IN
  {SubSeq(stream, 1, n) : n \in {m \in 1 .. most : side \in SplitRecv \/ m = most}}

After(stream, chunk) == SubSeq(stream, Len(chunk) + 1, Len(stream))

\* How many bytes of a buffer send accepts.  The few bytes of capa_send and of a
\* command in request_send are always accepted.
Accepted(bytes) == {n \in 1 .. Len(bytes) : SplitSend \/ n = Len(bytes)}

\* ERROR_ST, where socks_done closes both ends, or the death of the process.
EndsAs(ends) ==
  /\ st' \in ends
  /\ armed' = "none"
  /\ UNCHANGED <<buffers, req, cmds, orig, bytes_transfered, peers, history>>

Crash == EndsAs({"crash"})

\* recv on a closed connection, and a send, which raises SIGPIPE.
RecvFails(side, stream) == stream = <<>> /\ side \in gone /\ EndsAs({"ERROR"})
SendFails(side) == side \in gone /\ EndsAs({"ERROR", "crash"})

(***************************************************************************)
(* GREETINGS_ST                                                            *)
(***************************************************************************)

Init ==
  /\ st = "GREETINGS"
  /\ armed = "origin_w"
  /\ rbuf = Empty
  /\ wbuf = Empty
  /\ req = [cr |-> FALSE, lf |-> FALSE, finished |-> FALSE]
  /\ cmds = <<>>
  /\ orig = [i \in Offset |-> FALSE]
  /\ bytes_transfered = 0
  /\ up = <<>>
  /\ down = Greeting
  /\ inbox = <<>>
  /\ gone = {}
  /\ sent = <<>>
  /\ relayed = <<>>
  /\ due = Greeting
  /\ got = <<>>
  /\ asked = 0
  /\ answered = 0

\* The selector calls the reader of the origin's descriptor when a recv on it
\* would not block.
OriginReadable == armed = "origin_r" /\ (down # <<>> \/ "origin" \in gone)

\* One byte at a time, until the line is complete or the buffer is full.
greetings_read ==
  /\ st = "GREETINGS"
  /\ OriginReadable
  /\ \/ /\ ~CanWrite(rbuf)
        /\ armed' = "client_w"
        /\ UNCHANGED <<st, rbuf, orig, down>>
     \/ /\ CanWrite(rbuf)
        /\ down # <<>>
        /\ down' = Tail(down)
        /\ orig' = CheckLine(orig, cr_received, greet_finished, Head(down))
        /\ rbuf' = Keep(rbuf, <<Head(down)>>)
        /\ armed' = IF orig'[greet_finished] THEN "client_w" ELSE armed
        /\ UNCHANGED st
  /\ UNCHANGED <<wbuf, req, cmds, bytes_transfered, up, inbox, gone, history>>

\* capa_init: first_lf is not among the flags it clears.
capa_init ==
  /\ orig' = [orig EXCEPT ![capa.pipelining] = FALSE, ![capa.first_cr] = FALSE,
                          ![capa.second_cr] = FALSE, ![capa.dot] = FALSE,
                          ![capa.finished] = FALSE]
  /\ wbuf' = Empty

\* The first call comes for the origin's descriptor, with an empty buffer.  What
\* a short send leaves of a complete greeting stays in the buffer.
greetings_write_again ==
  /\ st = "GREETINGS"
  /\ armed \in {"origin_w", "client_w"}
  /\ \/ /\ rbuf.queue = <<>>
        /\ armed' = "origin_r"
        /\ UNCHANGED <<st, buffers, orig, got>>
     \/ \E n \in Accepted(rbuf.queue) :
          /\ got' = got \o SubSeq(rbuf.queue, 1, n)
          /\ UNCHANGED rbuf
          /\ IF orig[greet_finished]
             THEN st' = "CAPA" /\ armed' = "origin_w" /\ capa_init
             ELSE UNCHANGED <<st, armed, wbuf, orig>>
  /\ UNCHANGED <<req, cmds, bytes_transfered, peers, sent, relayed, due, asked,
                 answered>>

greetings_write ==
  /\ st = "GREETINGS"
  /\ armed \in {"origin_w", "client_w"}
  /\ \/ /\ rbuf.queue = <<>>
        /\ armed' = "origin_r"
        /\ UNCHANGED <<st, buffers, orig, got>>
     \/ \E n \in Accepted(rbuf.queue) :
          /\ got' = got \o SubSeq(rbuf.queue, 1, n)
          /\ rbuf' = Drop(rbuf, n)
          /\ IF orig[greet_finished]
             THEN st' = "CAPA" /\ armed' = "origin_w" /\ capa_init
             ELSE UNCHANGED <<st, armed, wbuf, orig>>
  /\ UNCHANGED <<req, cmds, bytes_transfered, peers, sent, relayed, due, asked,
                 answered>>

(***************************************************************************)
(* CAPA_ST                                                                 *)
(***************************************************************************)

capa_send ==
  /\ st = "CAPA"
  /\ armed = "origin_w"
  /\ inbox' = inbox \o <<CAPA, CR, LF>>
  /\ armed' = "origin_r"
  /\ UNCHANGED <<st, buffers, req, cmds, orig, bytes_transfered, up, down, gone,
                 history>>

\* request_init: a new queue every time, whatever was left in the old one.
request_init_stale ==
  /\ UNCHANGED req
  /\ rbuf' = Empty
  /\ cmds' = <<>>

request_init ==
  /\ req' = [cr |-> FALSE, lf |-> FALSE, finished |-> FALSE]
  /\ rbuf' = Empty
  /\ cmds' = <<>>

\* What a string function sees of bytes: those before the first NUL.
CString(bytes) ==
  IF NUL \in ToSet(bytes)
  THEN SubSeq(bytes, 1, SelectInSeq(bytes, LAMBDA c : c = NUL) - 1)
  ELSE bytes

\* One byte at a time, whether there is room for it or not.  (strstr stops at the
\* NUL behind the reply, as socks_new cleared the memory of the buffer.)
capa_read ==
  /\ st = "CAPA"
  /\ armed = "origin_r"
  /\ down # <<>>
  /\ IF ~CanWrite(wbuf)
     THEN Crash
     ELSE LET o == CheckMultiline(orig, capa, Head(down))
              reply == Keep(wbuf, <<Head(down)>>)
          IN /\ down' = Tail(down)
             /\ IF o[capa.finished]
                THEN /\ orig' = [o EXCEPT ![capa.pipelining] =
                                   "PIPELINING" \in ToSet(CString(reply.queue))]
                     /\ wbuf' = Empty
                     /\ armed' = "client_r"
                     /\ st' = "REQUEST"
                     /\ request_init
                ELSE /\ orig' = o
                     /\ wbuf' = reply
                     /\ UNCHANGED <<armed, st, rbuf, req, cmds>>
             /\ UNCHANGED <<bytes_transfered, up, inbox, gone, history>>

(***************************************************************************)
(* REQUEST_ST                                                              *)
(***************************************************************************)

\* parse_cmd's flag, from the first word; LIST counts only without an argument.
\* An empty command has a flag at random, but request_send fails on it.
Multiline_prefix(text) ==
  text # <<>> /\ Head(text) \in {"RETR", "CAPA", "LIST"}
Multiline(text) ==
  text # <<>> /\ (Head(text) \in {"RETR", "CAPA"} \/ text = <<"LIST">>)

One(b) == IF b THEN 1 ELSE 0

\* request_read's loop after i bytes: the flags, the sizes of the commands it queued,
\* all counted from the first byte, and whether it armed the origin, for a buffer that
\* is full until held bytes are read.  (A loop is the set of the one state it reaches:
\* TLC evaluates a set once.)
ScanByte(s, bytes, i, held) ==
  LET cr == bytes[i] = CR \/ (bytes[i] = LF /\ s.req.cr)
      lf == bytes[i] = LF \/ (bytes[i] = CR /\ s.req.lf)
  IN [req |-> [cr |-> cr, lf |-> lf, finished |-> cr /\ lf],
      sizes |-> IF lf THEN Append(s.sizes, i - One(lf) - One(cr)) ELSE s.sizes,
      send |-> s.send \/ (lf /\ (cr \/ i < held))]

Scan(bytes, held) ==
  LET scan[i \in 0 .. Len(bytes)] ==
        IF i = 0 THEN {[req |-> req, sizes |-> <<>>, send |-> FALSE]}
                 ELSE {ScanByte(s, bytes, i, held) : s \in scan[i - 1]}
  IN scan[Len(bytes)]

\* queue: each command goes behind the others.
Queued(texts) ==
  cmds \o [i \in 1 .. Len(texts) |->
             [text |-> texts[i], multiline |-> Multiline(texts[i])]]

\* The loop ends at the first NUL, which it takes as well: bytes behind it stay in the
\* buffer.  A copy of a command that has no end or no room ends the process; a recv
\* into a full buffer returns 0.
Consumed(bytes) ==
  IF NUL \in ToSet(bytes) THEN Len(CString(bytes)) + 1 ELSE Len(bytes)

request_read ==
  /\ st = "REQUEST"
  /\ armed = "client_r"
  /\ up # <<>>
  /\ IF ~CanWrite(rbuf)
     THEN EndsAs({"ERROR"})
     ELSE \E chunk \in Received("client", up, Room(rbuf)) :
       LET filled == Keep(rbuf, chunk)
           bytes == CString(filled.queue)
           held == IF CanWrite(filled) THEN 0 ELSE Len(filled.queue)
       IN \E end \in Scan(bytes, held) :
            IF \E n \in ToSet(end.sizes) : n \notin 0 .. MAX_CMD_SIZE
            THEN Crash
            ELSE /\ up' = After(up, chunk)
                 /\ rbuf' = Drop(filled, Consumed(filled.queue))
                 /\ req' = end.req
                 /\ cmds' = Queued([i \in 1 .. Len(end.sizes) |->
                                      SubSeq(bytes, 1, end.sizes[i])])
                 /\ armed' = IF end.send THEN "origin_w" ELSE armed
                 /\ UNCHANGED <<st, wbuf, orig, bytes_transfered, down, inbox, gone,
                                history>>

\* The bytes of one command: only the last has a CR if the origin accepts
\* pipelining, as the byte of struct capa that struct response shares tells.
Wire_bare(i) ==
  cmds[i].text \o (IF orig[capa.pipelining] THEN <<>> ELSE <<CR>>) \o <<LF>>

Wire(i) ==
  cmds[i].text
    \o (IF orig[capa.pipelining] /\ i < Len(cmds) THEN <<>> ELSE <<CR>>)
    \o <<LF>>

response_init ==
  orig' = [orig EXCEPT ![response.first_cr] = FALSE, ![response.first_lf] = FALSE,
                       ![response.dot] = FALSE, ![response.second_cr] = FALSE,
                       ![response.finished] = FALSE, ![13] = FALSE]

\* A send of no bytes counts as a failure, after what went before it was sent.  The
\* statistics count the text of a command and one byte for its end.
request_send ==
  /\ st = "REQUEST"
  /\ armed = "origin_w"
  /\ LET empty == SelectInSeq(cmds, LAMBDA cmd : cmd.text = <<>>)
         n == IF empty = 0 THEN Len(cmds) ELSE empty - 1
         bytes == FlattenSeq([i \in 1 .. n |-> Wire(i)])
     IN /\ inbox' = inbox \o bytes
        /\ relayed' = relayed \o bytes
        /\ bytes_transfered' = bytes_transfered
             + Len(FlattenSeq([i \in 1 .. n |-> Append(cmds[i].text, LF)]))
        /\ IF empty = 0 /\ cmds # <<>>
           THEN /\ st' = "RESPONSE"
                /\ armed' = "origin_r"
                /\ response_init
           ELSE /\ st' = "ERROR"
                /\ armed' = "none"
                /\ UNCHANGED orig
  /\ UNCHANGED <<buffers, req, cmds, up, down, gone, sent, due, got, asked,
                 answered>>

(***************************************************************************)
(* RESPONSE_ST                                                             *)
(***************************************************************************)

\* response_read's loop after i bytes of a chunk: the flags, the commands still
\* queued, the command being answered, how far the write pointer moved and
\* whether the client was armed.  i counts from the start of the chunk, not of
\* the reply.  Bytes after the last reply are dropped.
Awaiting(o, adv, send, queue) ==
  [orig |-> o, adv |-> adv, send |-> send,
   cmds |-> IF queue = <<>> THEN <<>> ELSE Tail(queue),
   now |-> IF queue = <<>> THEN <<>> ELSE <<Head(queue)>>]

ResponseByte(multiline, old, c) ==
  LET o == [old EXCEPT ![response.next_cmd_multiline] = multiline]
  IN IF multiline
     THEN CheckMultiline(o, response, c)
     ELSE CheckLine(o, response.first_cr, response.finished, c)

DigestByte(d, chunk, i) ==
  LET o == ResponseByte(d.now[1].multiline, d.orig, chunk[i])
  IN IF d.now = <<>> THEN d
     ELSE IF ~o[response.finished] THEN [d EXCEPT !.orig = o]
     ELSE Awaiting(o, d.adv + i, TRUE, d.cmds)

Digest(chunk) ==
  LET digest[i \in 0 .. Len(chunk)] ==
        IF i = 0 THEN {Awaiting(orig, 0, FALSE, cmds)}
                 ELSE {DigestByte(d, chunk, i) : d \in digest[i - 1]}
  IN digest[Len(chunk)]

\* What the write pointer passes beyond the chunk is whatever lies there.
Junk(n) == [i \in 1 .. n |-> JUNK]

response_read ==
  /\ st = "RESPONSE"
  /\ OriginReadable
  /\ IF ~CanWrite(wbuf)
     THEN /\ armed' = "client_w"
          /\ UNCHANGED <<st, buffers, req, cmds, orig, bytes_transfered, peers,
                         history>>
     ELSE \E chunk \in Received("origin", down, Room(wbuf)) : \E end \in Digest(chunk) :
            LET kept == SubSeq(chunk \o Junk(Size), 1, end.adv)
            IN IF end.adv > Room(wbuf)
               THEN Crash
               ELSE /\ down' = After(down, chunk)
                    /\ orig' = end.orig
                    /\ cmds' = end.cmds
                    /\ wbuf' = Keep(wbuf, kept)
                    /\ armed' = IF end.send THEN "client_w" ELSE armed
                    /\ UNCHANGED <<st, rbuf, req, bytes_transfered, up, inbox, gone,
                                   history>>

\* What a short send leaves stays in the buffer, behind the next response.
response_send_once ==
  /\ st = "RESPONSE"
  /\ armed = "client_w"
  /\ \E n \in Accepted(wbuf.queue) :
       /\ got' = got \o SubSeq(wbuf.queue, 1, n)
       /\ wbuf' = Drop(wbuf, n)
       /\ armed' = "origin_r" /\ UNCHANGED <<st, rbuf, req, cmds>>
  /\ UNCHANGED <<orig, bytes_transfered, peers, sent, relayed, due, asked, answered>>

response_send ==
  /\ st = "RESPONSE"
  /\ armed = "client_w"
  /\ \/ /\ wbuf.queue = <<>>
        /\ st' = "ERROR"
        /\ armed' = "none"
        /\ UNCHANGED <<buffers, req, cmds, got>>
     \/ \E n \in Accepted(wbuf.queue) :
          /\ got' = got \o SubSeq(wbuf.queue, 1, n)
          /\ wbuf' = Drop(wbuf, n)
          /\ IF orig[response.finished]
             THEN st' = "REQUEST" /\ armed' = "client_r" /\ request_init
             ELSE armed' = "origin_r" /\ UNCHANGED <<st, rbuf, req, cmds>>
  /\ UNCHANGED <<orig, bytes_transfered, peers, sent, relayed, due, asked, answered>>

(***************************************************************************)
(* The peers                                                               *)
(***************************************************************************)

CaughtUp == got = due /\ asked = answered

ClientSends(l) ==
  /\ "client" \notin gone
  /\ asked < MaxLines
  /\ Eager \/ CaughtUp
  /\ up' = up \o l
  /\ sent' = sent \o l
  /\ asked' = asked + 1
  /\ UNCHANGED <<st, armed, buffers, req, cmds, orig, bytes_transfered, down, inbox,
                 gone, relayed, due, got, answered>>

HasLine(stream) == LF \in ToSet(stream)
Line(stream) == SubSeq(stream, 1, SelectInSeq(stream, LAMBDA c : c = LF))

\* The origin answers a line it does not know with an error.
OriginAnswers ==
  /\ "origin" \notin gone
  /\ HasLine(inbox)
  /\ inbox' = After(inbox, Line(inbox))
  /\ IF st = "CAPA"
     THEN /\ \E reply \in CapaReplies : down' = down \o reply
          /\ UNCHANGED <<due, answered>>
     ELSE /\ \E reply \in IF Line(inbox) \in Lines THEN Replies[Line(inbox)]
                                              ELSE {<<ERR, CR, LF>>} :
               down' = down \o reply /\ due' = due \o reply
          /\ answered' = answered + 1
  /\ UNCHANGED <<st, armed, buffers, req, cmds, orig, bytes_transfered, up, gone, sent,
                 relayed, got, asked>>

Closes(side) ==
  /\ Closing
  /\ side \notin gone
  /\ gone' = gone \cup {side}
  /\ UNCHANGED <<st, armed, buffers, req, cmds, orig, bytes_transfered, up, down, inbox,
                 history>>

(***************************************************************************)
(* Specification                                                           *)
(***************************************************************************)

\* (greetings_read and response_read do not recv into a full buffer.)
Fails ==
  \/ armed = "client_r" /\ RecvFails("client", up)
  \/ /\ armed = "origin_r"
     /\ st = "GREETINGS" => CanWrite(rbuf)
     /\ st = "RESPONSE" => CanWrite(wbuf)
     /\ RecvFails("origin", down)
  \/ armed = "client_w" /\ SendFails("client")
  \/ armed = "origin_w" /\ st # "GREETINGS" /\ SendFails("origin")

Handler ==
  \/ greetings_read \/ greetings_write
  \/ capa_send \/ capa_read
  \/ request_read \/ request_send
  \/ response_read \/ response_send
  \/ Fails

\* The session is over, or waits for a client that has nothing to say.
Rest ==
  /\ \/ st \in {"ERROR", "crash"}
     \/ CaughtUp /\ asked = MaxLines
  /\ UNCHANGED vars

Next ==
  \/ Handler
  \/ \E l \in Lines : ClientSends(l)
  \/ OriginAnswers
  \/ \E side \in {"client", "origin"} : Closes(side)
  \/ Rest

\* The selector calls the handler of a ready descriptor, and an origin that has
\* not gone answers.
Spec == Init /\ [][Next]_vars /\ WF_vars(Handler) /\ WF_vars(OriginAnswers)

(***************************************************************************)
(* Properties                                                              *)
(***************************************************************************)

Buffer == [queue : Seq(Byte), write : 0 .. Size]
Command == [text : Seq(Byte), multiline : BOOLEAN]

\* The values of the variables; the write pointer never passes the limit.
TypeOK ==
  /\ st \in {"GREETINGS", "CAPA", "REQUEST", "RESPONSE", "ERROR", "crash"}
  /\ armed \in {"client_r", "client_w", "origin_r", "origin_w", "none"}
  /\ {rbuf, wbuf} \subseteq Buffer
  /\ \A b \in {rbuf, wbuf} : Len(b.queue) <= b.write
  /\ req \in [cr : BOOLEAN, lf : BOOLEAN, finished : BOOLEAN]
  /\ cmds \in Seq(Command)
  /\ orig \in [Offset -> BOOLEAN]
  /\ {up, down, inbox, sent, relayed, due, got} \subseteq Seq(Byte)
  /\ {asked, answered, bytes_transfered} \subseteq Nat

\* What the client has received is what the origin said to it so far, in order:
\* its greeting and its answers, without the CAPA reply, nothing lost, repeated
\* or invented (greetings_write and response_send).
Relayed == IsPrefix(got, due)

\* What request_send passed on is what the client sent so far (request_read
\* "separates the commands by \n or \r\n ... and keeps it in the queue").
CommandsIntact == IsPrefix(relayed, sent)

\* Lines and a greeting as POP3 has them: one LF, at the end; a CR before it in a line,
\* whose text is not empty and fits a command, as the line fits the buffer.  No NUL.
Proper(l) ==
  LET n == Len(l) - 2 IN
  /\ n \in 1 .. MAX_CMD_SIZE /\ Len(l) <= Size
  /\ \A i \in 1 .. n : l[i] \notin {CR, LF, NUL}
  /\ l[n + 1] = CR /\ l[n + 2] = LF

WellFormed ==
  /\ \A l \in Lines : Proper(l)
  /\ \A i \in DOMAIN Greeting : Greeting[i] = LF => i = Len(Greeting)

\* A line that request_read took and request_send has not passed on.
Held == st = "REQUEST" /\ armed = "origin_w"

\* ... or that is anywhere before its answer.
Pending == up # <<>> \/ Held \/ (st # "CAPA" /\ inbox # <<>>)

\* The greeting leaves nothing behind, so that CAPA ends after the origin answered it.
StartInv ==
  /\ st = "GREETINGS" =>
       /\ inbox = <<>>
       /\ \A i \in DOMAIN down : down[i] = LF => i = Len(down)
       /\ orig[greet_finished] => down = <<>>
  /\ st = "CAPA" => /\ inbox \in {<<>>, <<CAPA, CR, LF>>}
                    /\ armed = "origin_w" => inbox = <<>>
                    /\ armed = "origin_w" \/ inbox # <<>> => down = <<>>

\* The client's line is in one place - on its way, queued, or at the origin - and
\* until it is answered the client sends no other.
PlaceInv ==
  /\ up \in {<<>>} \cup Lines
  /\ st \in {"REQUEST", "RESPONSE"} => inbox \in {<<>>} \cup Lines
  /\ Pending => asked # answered
  /\ up # <<>> => ~Held /\ (st = "CAPA" \/ inbox = <<>>)
  /\ Held => inbox = <<>>

\* What was sent is what was relayed and that line; request_read begins with a buffer,
\* a queue and flags that nothing is left in.
TextInv ==
  /\ Held => /\ Len(cmds) = 1
             /\ cmds[1].text # <<>>
             /\ cmds[1].text \o <<CR, LF>> \in Lines
             /\ sent = relayed \o (cmds[1].text \o <<CR, LF>>)
  /\ ~Held => sent = relayed \o up
  /\ st = "REQUEST" /\ armed = "client_r" =>
       /\ cmds = <<>> /\ rbuf = Empty
       /\ req = [cr |-> FALSE, lf |-> FALSE, finished |-> FALSE]

\* What CommandsIntact rests on, when lines are whole and wait for answers.
LineInv ==
  /\ CommandsIntact
  /\ StartInv
  /\ st \notin {"ERROR", "crash"} => PlaceInv /\ TextInv

\* Answers as POP3 has them.  An answer of several lines ends with a line of one dot;
\* r[i] is on a line with text if some byte of it is neither a dot nor of a line's end.
EndsLine(r) == LET n == Len(r) IN n > 1 /\ r[n - 1] = CR /\ r[n] = LF
EndsDot(r) ==
  LET n == Len(r) IN /\ n > 4
                     /\ r[n - 4] = CR /\ r[n - 3] = LF
                     /\ r[n - 2] = DOT /\ r[n - 1] = CR /\ r[n] = LF
OnTextLine(r, i) ==
  \E k \in DOMAIN r :
    /\ r[k] \notin {CR, LF, DOT}
    /\ \A m \in DOMAIN r : r[m] = LF => (m < i /\ m < k) \/ (i < m /\ k < m)

\* A CAPA reply has no other line of dots only.
CapaWhole ==
  \A r \in CapaReplies :
    EndsDot(r) /\ \A i \in 1 .. Len(r) - 3 : r[i] = DOT => OnTextLine(r, i)

\* The lines that have an answer of several lines.
ManyLines(l) == Head(l) \in {"RETR", "CAPA"} \/ l = <<"LIST", CR, LF>>

\* What the origin says has its end, and an answer fits the buffer.
AnswersWhole ==
  /\ EndsLine(Greeting)
  /\ \A l \in Lines : \A r \in Replies[l] :
       /\ Len(r) <= Size
       /\ IF ManyLines(l) THEN EndsDot(r) ELSE EndsLine(r)

Fresh(o, f) == ~(\/ o[f.first_cr] \/ o[f.first_lf] \/ o[f.dot] \/ o[f.second_cr]
                 \/ o[f.finished])

\* The flags after n bytes of reply r, whose end is not found yet: they follow its last
\* bytes.
EndFlags(r, n, o, f) ==
  /\ n < Len(r)
  /\ ~o[f.finished]
  /\ n >= Len(r) - 4 => o[f.first_cr]
  /\ n >= Len(r) - 3 => o[f.first_lf]
  /\ n >= Len(r) - 2 => o[f.dot]
  /\ n >= Len(r) - 1 => o[f.second_cr]

\* Those of struct capa beyond first_cr are set only on a line without text, second_cr
\* and dot by a dot.
CapaFlags(r, n, o) ==
  /\ EndFlags(r, n, o, capa)
  /\ o[capa.first_lf] =>
       \A k \in 1 .. n : r[k] \notin {CR, LF, DOT} => \E m \in k .. n : r[m] = LF
  /\ o[capa.dot] \/ o[capa.second_cr] =>
       /\ o[capa.first_lf]
       /\ \E i \in 1 .. n : r[i] = DOT /\ \A m \in i .. n : r[m] # LF

\* Nothing of the CAPA reply is left over when it ends, and nothing of it goes to the
\* client.
CapaInv ==
  st = "CAPA" =>
    IF armed = "origin_w" \/ inbox # <<>>
    THEN wbuf = Empty /\ Fresh(orig, capa)
    ELSE \E r \in CapaReplies :
           wbuf.queue \o down = r /\ CapaFlags(r, Len(wbuf.queue), orig)

\* What the client has, what the buffer holds and what is still to come of the origin's
\* words are parts of them, in this order; a client that lacks some sends no line, and
\* only for a command that was not answered is anything put into the buffer.
FlowInv ==
  /\ st = "GREETINGS" => (got \o rbuf.queue) \o down = due /\ ~orig[capa.first_lf]
  /\ CapaInv
  /\ Pending => got = due
  /\ st \in {"REQUEST", "RESPONSE"} =>
       /\ IsPrefix(got \o wbuf.queue, due)
       /\ Len(got) + Len(wbuf.queue) + Len(down) <= Len(due)
       /\ wbuf.queue = <<>> => wbuf = Empty
  /\ st = "RESPONSE" =>
       /\ Len(cmds) <= 1
       /\ cmds # <<>> => /\ armed = "origin_r" /\ wbuf = Empty
                         /\ Fresh(orig, response) /\ got \o down = due

\* The end of the greeting is still to come until it is found; an answer is read for the
\* command it belongs to, when its line is at the origin or the whole of it on its way.
OwedInv ==
  /\ st = "GREETINGS" =>
       IF orig[greet_finished]
       THEN armed = "client_w" /\ rbuf.queue # <<>>
       ELSE /\ down # <<>> /\ down[Len(down)] = LF
            /\ IF Len(down) = 1 THEN orig[cr_received] ELSE down[Len(down) - 1] = CR
  /\ st = "REQUEST" => armed \in {"client_r", "origin_w"}
  /\ Held => cmds[1].multiline = Multiline(cmds[1].text)
  /\ st = "RESPONSE" =>
       IF cmds = <<>>
       THEN armed = "client_w" /\ orig[response.finished]
       ELSE LET l == cmds[1].text \o <<CR, LF>>
            IN /\ l \in Lines
               /\ cmds[1].multiline = Multiline(cmds[1].text)
               /\ \/ inbox = l /\ down = <<>>
                  \/ inbox = <<>> /\ down \in Replies[l]

\* What Relayed and NoStall rest on.
AnswerInv ==
  /\ LineInv
  /\ Relayed
  /\ IF st \in {"ERROR", "crash"} THEN armed = "none" ELSE FlowInv /\ OwedInv

\* A session that waits for the origin waits for something: bytes on their way,
\* an answer the origin owes, or the end of the connection (response_read "stays
\* in this state until all of the response received has been sent").
NoStall ==
  armed = "origin_r" => OriginReadable \/ HasLine(inbox)

\* The flag of struct capa tells whether the origin accepts pipelining, for as
\* long as request_send reads it.
PipeliningTold ==
  st = "REQUEST" /\ orig[capa.pipelining] =>
    \E reply \in CapaReplies : "PIPELINING" \in ToSet(reply)

\* Every line of the client is answered in the end, and all that the origin said
\* to it delivered, unless the session ends with an error or a peer leaves
\* (response_read "stays in this state until all of the response received has been
\* sent").
Answered == []<>(CaughtUp \/ st = "ERROR" \/ gone # {})
=============================================================================

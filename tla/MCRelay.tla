------------------------------ MODULE MCRelay ------------------------------
(***************************************************************************)
(* Instances of Relay for TLC.                                             *)
(***************************************************************************)
EXTENDS Relay

MCText == {"STAT", "LIST", "RETR", "CAPA", "1", "+OK", "+CAPA", "PIPELINING", "+STAT",
           "+LIST", "+RETR", "-ERR", "mail", "junk", "a", "b", "c", "d", "e", "f",
           "g", "h", "i"}

\* The end of a line, and of an answer of several lines.
EOL == <<CR, LF>>
EOM == <<DOT, CR, LF>>

STAT == <<"STAT">> \o EOL
LIST1 == <<"LIST", "1">> \o EOL
RETR == <<"RETR">> \o EOL
MCLines == {STAT, LIST1, RETR}

\* Longer than the buffer, which must be flushed in between.
MCGreeting == <<"+OK", "a", "b", "c", "d", "e", "f", "g", "h", "i">> \o EOL
Capabilities == <<"+CAPA">> \o EOL
MCCapaReplies ==
  {Capabilities \o EOM, Capabilities \o <<"PIPELINING">> \o EOL \o EOM}
MCPlainCapa == {Capabilities \o EOM}

Ok == <<"+STAT">> \o EOL
Scan1 == <<"+LIST">> \o EOL
Mail == <<"+RETR">> \o EOL \o <<"mail">> \o EOL \o EOM
NoMail == <<"-ERR">> \o EOL

\* An origin that has every message asked for ...
MCReplies == (STAT :> {Ok}) @@ (LIST1 :> {Scan1}) @@ (RETR :> {Mail})

\* ... and one that may not, or whose message is one line with one dot, which
\* RFC 1939 has the origin double, or does not fit the buffer.
Stuffed == <<"+RETR">> \o EOL \o <<DOT, DOT>> \o EOL \o EOM
Long == <<"+RETR">> \o EOL \o <<"a", "b", "c", "d", "e">> \o EOL \o EOM
MCAwkward ==
  (STAT :> {Ok}) @@ (LIST1 :> {Scan1}) @@ (RETR :> {Mail, NoMail, Stuffed, Long})

\* What the theorems about CommandsIntact, Relayed and NoStall suppose of the data; of
\* the network and of the client they suppose what the cfg of the run "steady" says.
ASSUME MCWellFormed == WellFormed
ASSUME MCWhole == CapaWhole /\ (Replies = MCReplies => AnswersWhole)
=============================================================================

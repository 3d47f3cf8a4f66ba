------------------------------ MODULE Connection ------------------------------
(****************************************************************************)
(* A TCP connection as Transport and Connection hold it (hlnet/), with what *)
(* the peer has sent and nobody has read.  What is sent is a sequence of    *)
(* pieces, each with the URL and the answer it belongs to:                  *)
(*   "head"    a header, from the status line to the empty line after it    *)
(*   "text"    a line of a body        "blank"  an empty line of a body     *)
(*   "tail"    text that no line end follows                                *)
(*   "eof"     the peer has closed; nothing comes after it                  *)
(****************************************************************************)
EXTENDS Naturals, Sequences

CONSTANTS Hosts, NoHost, NoURL, NoAnswer

VARIABLES
  host,      \* _host: the server the connection is for
  up,        \* IsOpen () && IsConnected ()
  stream,    \* what was sent and not read, in the buffer or not
  arrived    \* how many pieces of it have arrived

EOF == [line |-> "eof", url |-> NoURL, answer |-> NoAnswer]

PeerClosed == \E i \in DOMAIN stream : stream[i].line = "eof"

Drop(n) == SubSeq(stream, n + 1, Len(stream))

(* Close: the socket goes, and with it all that was on its way. *)
Close == up' = FALSE /\ stream' = <<>> /\ arrived' = 0

(* Mutant: the connection stays. *)
KeepOpen == UNCHANGED <<up, stream, arrived>>

(* Read n pieces. *)
Read(n) == stream' = Drop(n) /\ arrived' = arrived - n /\ UNCHANGED up

(* Mutant: the connection to the last server is used for the new one. *)
SetConnectionKeeps(h) == host' = h /\ KeepOpen

(* SetConnection closes a connection to another server. *)
SetConnection(h) ==
  /\ host' = h
  /\ IF host = h THEN UNCHANGED <<up, stream, arrived>> ELSE Close

(* Flush empties the buffer: some of what has arrived, which may end in the *)
(* middle of a line, just before its end.  What is still in the socket      *)
(* stays, and that the peer has closed is not forgotten.                    *)
Buffered == {n \in 0 .. arrived : n > 0 => stream[n].line # "eof"}
Flushed ==
  {Drop(n) : n \in Buffered} \cup
  {[Drop(n) EXCEPT ![1].line = "blank"] :
     n \in {m \in Buffered : m < Len(stream) /\ stream[m + 1].line = "text"}}

(* Flush, Connect if there is no connection, and Write a command; the peer  *)
(* sends pieces for it, unless it has closed.                               *)
Write(pieces) ==
  /\ up' = TRUE
  /\ \E left \in Flushed :
       /\ stream' = IF PeerClosed THEN left ELSE left \o pieces
       /\ arrived' = arrived - (Len(stream) - Len(left))
  /\ UNCHANGED host

(* The network brings the next piece. *)
Deliver ==
  /\ arrived < Len(stream)
  /\ arrived' = arrived + 1
  /\ UNCHANGED <<host, up, stream>>

(* The peer closes, after any part of what it was to send. *)
PeerCloses ==
  /\ up /\ ~PeerClosed
  /\ \E n \in arrived .. Len(stream) : stream' = Append(SubSeq(stream, 1, n), EOF)
  /\ UNCHANGED <<host, up, arrived>>

(* Read_Line finds nothing more: all that arrived before piece n was other  *)
(* than the end of a header or the end of the connection.                   *)
Plain(n) == \A i \in 1 .. n : stream[i].line \in {"text", "tail"}
==============================================================================

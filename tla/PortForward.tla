---------------------------- MODULE PortForward ----------------------------
(* PortForwardChannel: a pods/portforward websocket made to look like the      *)
(* plain socket noVNC expects. Each of the two channels of a port begins with  *)
(* a two byte header, which frames may cut anywhere.                           *)
EXTENDS Absent, Integers, Sequences

CONSTANTS DataStream, ErrorStream,  \* what the server writes, headers included
          Header                    \* bytes of a header

Streams == [data |-> DataStream, error |-> ErrorStream]

ASSUME ForwardAssumption ==
  /\ Header \in Nat \ {0}
  /\ \A c \in DOMAIN Streams : Streams[c] \in Seq({Streams[c][i] : i \in DOMAIN Streams[c]})

VARIABLES channel,    \* the channel, or None: [socket, pending, opened, got, errors]
          written     \* per channel, how much of its stream the server has sent

forwardVars == <<channel, written>>

OpenForward ==
  /\ channel = None
  /\ written = [c \in {"data", "error"} |-> 0]
  /\ channel' = [socket |-> "connecting", pending |-> [c \in {"data", "error"} |-> Header],
                 opened |-> FALSE, got |-> <<>>, errors |-> <<>>]
  /\ UNCHANGED written

SocketOpens ==
  /\ channel # None
  /\ channel.socket = "connecting"
  /\ channel' = [channel EXCEPT !.socket = "open"]
  /\ UNCHANGED written

\* What noVNC is told of the socket: it counts as open with the data header only.
readyState ==
  IF channel.socket = "open" /\ ~channel.opened THEN "connecting" ELSE channel.socket

\* Mutant of onSocketMessage: the whole frame that completes a header is dropped.
onSocketMessageWhole(c, n) ==
  /\ channel # None
  /\ channel.socket = "open"
  /\ n <= Len(Streams[c]) - written[c]
  /\ written' = [written EXCEPT ![c] = @ + n]
  /\ LET payload == SubSeq(Streams[c], written[c] + 1, written[c] + n)
         pending == channel.pending[c]
         consumed == IF n < pending THEN n ELSE pending
         rest == IF pending > 0 THEN <<>> ELSE payload
     IN channel' = [channel EXCEPT
          !.pending[c] = pending - consumed,
          !.opened = @ \/ (c = "data" /\ pending > 0 /\ pending = consumed),
          !.got = IF c = "data" THEN @ \o rest ELSE @,
          !.errors = IF c = "error" THEN @ \o rest ELSE @]

\* A frame with the next n bytes of channel c: header bytes still due are taken
\* off first, completing the data header opens the channel, and what is left goes
\* to noVNC or to the error handlers. A frame without payload does nothing.
onSocketMessage(c, n) ==
  /\ channel # None
  /\ channel.socket = "open"
  /\ n <= Len(Streams[c]) - written[c]
  /\ written' = [written EXCEPT ![c] = @ + n]
  /\ LET payload == SubSeq(Streams[c], written[c] + 1, written[c] + n)
         pending == channel.pending[c]
         consumed == IF n < pending THEN n ELSE pending
         rest == SubSeq(payload, consumed + 1, n)
     IN channel' = [channel EXCEPT
          !.pending[c] = pending - consumed,
          !.opened = @ \/ (c = "data" /\ pending > 0 /\ pending = consumed),
          !.got = IF c = "data" THEN @ \o rest ELSE @,
          !.errors = IF c = "error" THEN @ \o rest ELSE @]

SocketCloses ==
  /\ channel # None
  /\ channel.socket # "closed"
  /\ channel' = [channel EXCEPT !.socket = "closed"]
  /\ UNCHANGED written

ForwardInit ==
  /\ channel = None
  /\ written = [c \in {"data", "error"} |-> 0]

ForwardNext ==
  \/ OpenForward
  \/ SocketOpens
  \/ \E c \in {"data", "error"} : \E n \in 1..Len(Streams[c]) : onSocketMessage(c, n)
  \/ SocketCloses

ForwardSpec == ForwardInit /\ [][ForwardNext]_forwardVars

\* However the stream is cut into frames, noVNC reads exactly the server's bytes
\* after the port header and the error handlers exactly the error text after
\* its own, and noVNC is told the socket is open only once the data header is read.
StreamIntact ==
  channel # None =>
    /\ channel.got = SubSeq(DataStream, Header + 1, written["data"])
    /\ channel.errors = SubSeq(ErrorStream, Header + 1, written["error"])
    /\ channel.opened = (written["data"] >= Header)
    /\ readyState = "open" => written["data"] >= Header
=============================================================================

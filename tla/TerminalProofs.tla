--------------------------- MODULE TerminalProofs ---------------------------
(***************************************************************************)
(* The sessions of the pod's Terminal tab, for any pods, sizes, clipboard, *)
(* number of connections and pastes, the port-forward channel under its    *)
(* VNC console, for any streams, header and way of cutting frames, and the *)
(* node's Terminal tab, for any nodes, pods' specs, users and sizes.       *)
(***************************************************************************)
EXTENDS PodTerminal, NodeTerminal, PortForward, FiniteSetTheorems, SequenceTheorems,
        WellFoundedInduction, TLAPS

-----------------------------------------------------------------------------
(* The port-forward channel.                                                *)

Chans == {"data", "error"}

\* The header bytes of a channel still due after w bytes.
Due(w) == IF w < Header THEN Header - w ELSE 0

\* What is left of a frame of n bytes once the header bytes due are taken off
\* continues what was passed on before.
LEMMA FrameContinues ==
  ASSUME NEW S, NEW s \in Seq(S), NEW w \in Nat, NEW n \in Nat \ {0}, w + n <= Len(s),
         NEW h \in Nat \ {0}, NEW pending \in Nat, pending = IF w < h THEN h - w ELSE 0,
         NEW consumed \in Nat, consumed = IF n < pending THEN n ELSE pending
  PROVE  /\ SubSeq(s, h + 1, w) \o SubSeq(SubSeq(s, w + 1, w + n), consumed + 1, n)
              = SubSeq(s, h + 1, w + n)
         /\ pending - consumed = IF w + n < h THEN h - (w + n) ELSE 0
         /\ pending - consumed \in Nat
  <1> DEFINE payload == SubSeq(s, w + 1, w + n)
  <1>1. \A i \in (w + 1)..(w + n) : s[i] \in S
    OBVIOUS
  <1>2. payload \in Seq(S) /\ Len(payload) = n
    BY <1>1
  <1> HIDE DEF payload
  <1>3. /\ pending - consumed = IF w + n < h THEN h - (w + n) ELSE 0
        /\ pending - consumed \in Nat
    OBVIOUS
  <1>4. CASE h <= w
    <2>1. consumed = 0
      BY <1>4
    <2>2. SubSeq(payload, consumed + 1, n) = payload
      BY <1>2, <2>1, SubSeqFull
    <2>3. h + 1 \in 1..(Len(s) + 1) /\ w \in (h + 1 - 1)..Len(s) /\ w + n \in w..Len(s)
      BY <1>4
    <2>4. SubSeq(s, h + 1, w) \o SubSeq(s, w + 1, w + n) = SubSeq(s, h + 1, w + n)
      BY <2>3, ConcatAdjacentSubSeq
    <2> QED
      BY <1>3, <2>2, <2>4 DEF payload
  <1>5. CASE w < h
    <2>1. SubSeq(s, h + 1, w) = <<>>
      BY <1>5, SubSeqEmpty
    <2>2. CASE w + n <= h
      <3>1. consumed = n
        BY <1>5, <2>2
      <3>2. SubSeq(payload, consumed + 1, n) = <<>>
        BY <3>1, SubSeqEmpty
      <3>3. SubSeq(s, h + 1, w + n) = <<>>
        BY <2>2, SubSeqEmpty
      <3> QED
        BY <1>3, <2>1, <3>2, <3>3, ConcatEmptySeq DEF payload
    <2>3. CASE h < w + n
      <3>1. consumed = h - w
        BY <1>5, <2>3
      <3>2. /\ w + 1 \in 1..Len(s) /\ w + n \in 1..Len(s)
            /\ consumed + 1 \in 1..((w + n) - (w + 1) + 1) /\ n \in 1..((w + n) - (w + 1) + 1)
            /\ (w + 1) + (consumed + 1) - 1 = h + 1 /\ (w + 1) + n - 1 = w + n
        BY <1>5, <2>3, <3>1
      <3>3. SubSeq(SubSeq(s, w + 1, w + n), consumed + 1, n)
              = SubSeq(s, (w + 1) + (consumed + 1) - 1, (w + 1) + n - 1)
        BY <3>2, SubSeqOfSubSeq
      <3>4. SubSeq(SubSeq(s, w + 1, w + n), consumed + 1, n) = SubSeq(s, h + 1, w + n)
        BY <3>2, <3>3
      <3>5. SubSeq(s, h + 1, w + n) \in Seq(S)
        BY <2>3
      <3> QED
        BY <1>3, <2>1, <3>4, <3>5, ConcatEmptySeq
    <2> QED
      BY <1>5, <2>2, <2>3
  <1> QED
    BY <1>4, <1>5

Bytes(c) == {Streams[c][i] : i \in DOMAIN Streams[c]}

ChannelType ==
  [socket : {"connecting", "open", "closed"}, pending : [Chans -> Nat], opened : BOOLEAN,
   got : Seq(Bytes("data")), errors : Seq(Bytes("error"))]

\* The header bytes due follow from what was sent, and what was passed on is
\* what was sent without them.
ForwardInv ==
  /\ written \in [Chans -> Nat] /\ \A c \in Chans : written[c] <= Len(Streams[c])
  /\ channel # None =>
       /\ channel \in ChannelType
       /\ \A c \in Chans : channel.pending[c] = Due(written[c])
       /\ channel.got = SubSeq(Streams["data"], Header + 1, written["data"])
       /\ channel.errors = SubSeq(Streams["error"], Header + 1, written["error"])
       /\ channel.opened <=> written["data"] >= Header

\* The streams are sequences of bytes, and a header is not empty.
LEMMA StreamsAre ==
  /\ Streams["data"] = DataStream /\ Streams["error"] = ErrorStream
  /\ \A c \in Chans : Streams[c] \in Seq(Bytes(c)) /\ Len(Streams[c]) \in Nat
  /\ Header \in Nat \ {0}
  BY ForwardAssumption DEF Streams, Bytes, Chans

\* Nothing is passed on and everything is due when a channel is made.
LEMMA ForwardOpens == ForwardInv /\ OpenForward => ForwardInv'
  <1> SUFFICES ASSUME ForwardInv, OpenForward PROVE ForwardInv'
    OBVIOUS
  <1> DEFINE ch == [socket |-> "connecting", pending |-> [c \in Chans |-> Header],
                    opened |-> FALSE, got |-> <<>>, errors |-> <<>>]
  <1>1. channel' = ch /\ written' = written /\ \A c \in Chans : written[c] = 0
    BY DEF OpenForward, Chans
  <1>2. /\ ch \in ChannelType /\ \A c \in Chans : ch.pending[c] = Header
        /\ ch.got = <<>> /\ ch.errors = <<>> /\ ch.opened = FALSE
    BY StreamsAre DEF ChannelType
  <1> HIDE DEF ch
  <1>3. \A c \in Chans : ch.pending[c] = Due(written[c])
    BY <1>1, <1>2, StreamsAre DEF Due
  <1>4. \A c \in Chans : SubSeq(Streams[c], Header + 1, written[c]) = <<>>
    BY <1>1, StreamsAre, SubSeqEmpty
  <1>5. ~(written["data"] >= Header)
    BY <1>1, StreamsAre DEF Chans
  <1> QED
    BY <1>1, <1>2, <1>3, <1>4, <1>5 DEF ForwardInv, Chans

\* A frame of either channel.
LEMMA ForwardReads ==
  ASSUME ForwardInv, NEW c \in Chans, NEW n \in 1..Len(Streams[c]), onSocketMessage(c, n)
  PROVE  ForwardInv'
  <1> DEFINE w == written[c]
             payload == SubSeq(Streams[c], w + 1, w + n)
             pending == channel.pending[c]
             consumed == IF n < pending THEN n ELSE pending
             rest == SubSeq(payload, consumed + 1, n)
             opens == c = "data" /\ pending > 0 /\ pending = consumed
  <1>1. /\ channel # None /\ n <= Len(Streams[c]) - w
        /\ written' = [written EXCEPT ![c] = w + n]
        /\ channel' = [channel EXCEPT !.pending[c] = pending - consumed,
                                      !.opened = @ \/ opens,
                                      !.got = IF c = "data" THEN @ \o rest ELSE @,
                                      !.errors = IF c = "error" THEN @ \o rest ELSE @]
    BY DEF onSocketMessage
  <1>2. /\ channel \in ChannelType /\ written \in [Chans -> Nat] /\ w \in Nat /\ n \in Nat \ {0}
        /\ \A d \in Chans : written[d] <= Len(Streams[d])
        /\ pending \in Nat /\ pending = Due(w) /\ consumed \in Nat /\ w + n <= Len(Streams[c])
    <2>1. channel \in ChannelType /\ written \in [Chans -> Nat] /\ pending = Due(w)
          /\ \A d \in Chans : written[d] <= Len(Streams[d])
      BY <1>1 DEF ForwardInv
    <2>2. w \in Nat /\ n \in Nat \ {0} /\ pending \in Nat
      BY <2>1, StreamsAre DEF ChannelType
    <2> QED
      BY <1>1, <2>1, <2>2, StreamsAre
  <1>3. /\ SubSeq(Streams[c], Header + 1, w) \o rest = SubSeq(Streams[c], Header + 1, w + n)
        /\ pending - consumed = Due(w + n) /\ pending - consumed \in Nat
    <2>1. Streams[c] \in Seq(Bytes(c)) /\ Header \in Nat \ {0}
      BY StreamsAre
    <2>2. pending = IF w < Header THEN Header - w ELSE 0
      BY <1>2 DEF Due
    <2> HIDE DEF w, pending
    <2> QED
      BY <1>2, <2>1, <2>2, FrameContinues DEF Due
  <1>4. opens <=> c = "data" /\ w < Header /\ w + n >= Header
    BY <1>2, StreamsAre DEF Due
  <1>5. SubSeq(Streams[c], Header + 1, w + n) \in Seq(Bytes(c))
    <2>1. \A i \in (Header + 1)..(w + n) : Streams[c][i] \in Bytes(c)
      BY <1>2, StreamsAre
    <2>2. Header + 1 \in Int /\ w + n \in Int
      BY <1>2, StreamsAre
    <2> QED
      BY <2>1, <2>2, SubSeqProperties
  <1> DEFINE ch == channel'
  <1>6. /\ ch.socket = channel.socket
        /\ ch.pending = [channel.pending EXCEPT ![c] = pending - consumed]
        /\ ch.opened = (channel.opened \/ opens)
        /\ ch.got = (IF c = "data" THEN channel.got \o rest ELSE channel.got)
        /\ ch.errors = (IF c = "error" THEN channel.errors \o rest ELSE channel.errors)
        /\ ch = [socket |-> ch.socket, pending |-> ch.pending, opened |-> ch.opened,
                 got |-> ch.got, errors |-> ch.errors]
    BY <1>1, <1>2 DEF ChannelType
  <1>7. /\ written' \in [Chans -> Nat]
        /\ \A d \in Chans : written'[d] = IF d = c THEN w + n ELSE written[d]
    BY <1>1, <1>2
  <1> HIDE DEF pending, consumed, rest, w, opens, payload
  <1>8. \A d \in Chans : ch.pending[d] = Due(written'[d])
    BY <1>1, <1>2, <1>3, <1>6, <1>7 DEF ForwardInv, ChannelType
  <1>9. /\ ch.got = SubSeq(Streams["data"], Header + 1, written'["data"])
        /\ ch.errors = SubSeq(Streams["error"], Header + 1, written'["error"])
    <2>1. /\ channel.got = SubSeq(Streams["data"], Header + 1, written["data"])
          /\ channel.errors = SubSeq(Streams["error"], Header + 1, written["error"])
      BY <1>1 DEF ForwardInv
    <2>2. CASE c = "data"
      <3>1. /\ w = written["data"] /\ written'["data"] = w + n
            /\ written'["error"] = written["error"]
        BY <1>7, <2>2 DEF w, Chans
      <3> QED
        BY <1>3, <1>6, <2>1, <2>2, <3>1
    <2>3. CASE c = "error"
      <3>1. /\ w = written["error"] /\ written'["error"] = w + n
            /\ written'["data"] = written["data"]
        BY <1>7, <2>3 DEF w, Chans
      <3> QED
        BY <1>3, <1>6, <2>1, <2>3, <3>1
    <2> QED
      BY <2>2, <2>3 DEF Chans
  <1>10. ch.opened <=> written'["data"] >= Header
    <2>1. channel.opened <=> written["data"] >= Header
      BY <1>1 DEF ForwardInv
    <2>2. CASE c = "data"
      <3>1. w = written["data"] /\ written'["data"] = w + n
        BY <1>7, <2>2 DEF w, Chans
      <3>2. (w >= Header \/ (w < Header /\ w + n >= Header)) <=> w + n >= Header
        BY <1>2, StreamsAre
      <3> QED
        BY <1>4, <1>6, <2>1, <2>2, <3>1, <3>2
    <2>3. CASE c # "data"
      BY <1>4, <1>6, <1>7, <2>1, <2>3 DEF Chans
    <2> QED
      BY <2>2, <2>3
  <1>11. ch \in ChannelType
    <2>1. ch.pending \in [Chans -> Nat]
      BY <1>2, <1>3, <1>6 DEF ChannelType
    <2>2. ch.got \in Seq(Bytes("data")) /\ ch.errors \in Seq(Bytes("error"))
      BY <1>2, <1>5, <1>6, <1>7, <1>9 DEF ChannelType, Chans
    <2>3. ch.opened \in BOOLEAN
      BY <1>6
    <2>4. ch.socket \in {"connecting", "open", "closed"}
      BY <1>2, <1>6 DEF ChannelType
    <2> HIDE DEF ch
    <2> QED
      BY <1>6, <2>1, <2>2, <2>3, <2>4 DEF ChannelType
  <1>12. \A d \in Chans : written'[d] <= Len(Streams[d])
    BY <1>2, <1>7
  <1> QED
    BY <1>7, <1>8, <1>9, <1>10, <1>11, <1>12 DEF ForwardInv

\* However the streams are cut into frames, what noVNC and the error handlers
\* are given is what the server wrote after the port's header, byte for byte,
\* and the socket counts as open only once that header is read
\* (portforward.ts, onSocketMessage).
THEOREM StreamsIntact == ForwardSpec => []StreamIntact
  <1>1. ForwardInit => ForwardInv
    BY StreamsAre DEF ForwardInit, ForwardInv, Chans
  <1>2. ForwardInv /\ [ForwardNext]_forwardVars => ForwardInv'
    <2> SUFFICES ASSUME ForwardInv, [ForwardNext]_forwardVars PROVE ForwardInv'
      OBVIOUS
    <2>1. CASE SocketOpens \/ SocketCloses
      <3>1. PICK sock \in {"open", "closed"} :
              /\ channel # None /\ channel' = [channel EXCEPT !.socket = sock]
              /\ UNCHANGED written
        BY <2>1 DEF SocketOpens, SocketCloses
      <3>2. channel \in ChannelType
        BY <3>1 DEF ForwardInv
      <3>3. /\ channel' \in ChannelType /\ channel'.pending = channel.pending
            /\ channel'.got = channel.got /\ channel'.errors = channel.errors
            /\ channel'.opened = channel.opened
        BY <3>1, <3>2 DEF ChannelType
      <3> QED
        BY <3>1, <3>3 DEF ForwardInv
    <2>2. CASE UNCHANGED forwardVars
      BY <2>2 DEF forwardVars, ForwardInv
    <2> QED
      BY <2>1, <2>2, ForwardOpens, ForwardReads DEF ForwardNext, Chans
  <1>3. ForwardInv => StreamIntact
    <2> SUFFICES ASSUME ForwardInv, channel # None
                 PROVE  /\ channel.got = SubSeq(DataStream, Header + 1, written["data"])
                        /\ channel.errors = SubSeq(ErrorStream, Header + 1, written["error"])
                        /\ channel.opened = (written["data"] >= Header)
                        /\ readyState = "open" => written["data"] >= Header
      BY DEF StreamIntact
    <2>1. channel.opened \in BOOLEAN
      BY DEF ForwardInv, ChannelType
    <2>2. channel.opened <=> written["data"] >= Header
      BY DEF ForwardInv
    <2>3. readyState = "open" => channel.opened
      BY DEF readyState
    <2> QED
      BY <2>1, <2>2, <2>3, StreamsAre DEF ForwardInv
  <1> QED
    BY <1>1, <1>2, <1>3, PTL DEF ForwardSpec

-----------------------------------------------------------------------------
(* The shell of a pod's tab.                                                *)

SocketType ==
  [sock : {"connecting", "open", "closed"}, size : Sizes \cup {None}, pty : Sizes \cup {None}]

TerminalType == [opened : BOOLEAN, size : Sizes \cup {XtermSize}, stdin : BOOLEAN]

\* A socket that still connects has no terminal yet, an open one has one of its
\* own size that takes input until an error is shown, and there is no socket
\* beside a VNC console or one that is still to disconnect, which there is only
\* while a VNC entry is the active one.
ShellInv ==
  /\ win \in Sizes
  /\ execRef # None => execRef \in SocketType
  /\ terminal # None => terminal \in TerminalType /\ (terminal.opened => terminal.size \in Sizes)
  /\ pod = None => selectedValue = None
  /\ (vnc # None \/ late # {}) => execRef = None /\ (pod # None => isVncEntry(Active))
  /\ (execRef # None /\ execRef.sock = "connecting") => terminal = None
  /\ (execRef # None /\ execRef.sock = "open") =>
       /\ open /\ terminal # None
       /\ terminal.opened => execRef.pty = terminal.size
       /\ error = None => terminal.stdin

\* A tab that is not open.
LEMMA ShellStarts == PodInit => ShellInv
  BY DEF PodInit, ShellInv

\* Steps of the console leave shells alone, for there is none.
LEMMA ShellAside ==
  ASSUME ShellInv, vnc # None \/ late # {}, UNCHANGED <<execRef, terminal, win>>,
         UNCHANGED <<pod, memo, selectedValue>>
  PROVE  ShellInv'
  BY DEF ShellInv, Active

\* A new shell begins without a terminal.
LEMMA ShellConnects ==
  ASSUME ShellInv, ConnectShell, vnc' = None, late' = {}, win' = win,
         pod' = None => selectedValue' = None
  PROVE  ShellInv'
  <1>1. execRef' = NewChannel(terminal) /\ terminal' = None
    BY DEF ConnectShell
  <1>2. execRef' \in SocketType /\ execRef'.sock = "connecting"
    BY <1>1, PodAssumption
       DEF NewChannel, getSize, NewSocket, sendResize, SocketType, ShellInv, TerminalType
  <1> QED
    BY <1>1, <1>2 DEF ShellInv

\* A new active entry has a session of its kind.
LEMMA ShellFollows ==
  ASSUME ShellInv, NEW m, NEW e, ConnectTo(m, e), win' = win, Active' = e,
         pod' = None => selectedValue' = None
  PROVE  ShellInv'
  <1>1. CASE isVncEntry(e)
    <2>1. execRef' = None /\ terminal' = None
      BY <1>1 DEF ConnectTo
    <2> QED
      BY <1>1, <2>1 DEF ShellInv
  <1>2. CASE ~isVncEntry(e)
    BY <1>2, ShellConnects DEF ConnectTo
  <1> QED
    BY <1>1, <1>2

\* A new terminal, as large as the window once it is open.
LEMMA NewTerminalType ==
  ASSUME ShellInv
  PROVE  LET t == NewTerminal(fonts, win)
         IN  /\ t \in TerminalType /\ (t.opened => t.size \in Sizes) /\ t.stdin
             /\ t # None /\ (t.opened => getSize(t) = t.size /\ getSize(t) # None)
             /\ (~t.opened => getSize(t) = None)
  <1> DEFINE t == NewTerminal(fonts, win)
  <1>1. t \in TerminalType /\ (t.opened => t.size \in Sizes) /\ t.stdin
    BY DEF ShellInv, NewTerminal, TerminalType, XtermSize
  <1> HIDE DEF t
  <1>2. t # None
    BY <1>1, PodAssumption DEF TerminalType
  <1> QED
    BY <1>1, <1>2, PodAssumption DEF getSize, t

\* The socket opens: its terminal is made and tells it the size.
LEMMA ShellIsOpened ==
  ASSUME ShellInv, ExecOpens
  PROVE  ShellInv'
  <1> DEFINE t == NewTerminal(fonts, win)
             up == onopen(execRef)
  <1>1. /\ execRef # None /\ execRef.sock = "connecting" /\ open' = TRUE /\ error' = None
        /\ terminal = None
        /\ UNCHANGED <<pod, memo, selectedValue, win, vnc, late>>
    BY DEF ExecOpens, ShellInv, vncVars
  <1>2. terminal' = t
    BY <1>1 DEF ExecOpens, Body, Shown
  <1>3. execRef' = IF getSize(t) # None THEN Reported(up, getSize(t)) ELSE up
    BY <1>1, <1>2 DEF ExecOpens, Mounted
  <1>4. /\ t \in TerminalType /\ (t.opened => t.size \in Sizes) /\ t.stdin
        /\ t # None /\ (t.opened => getSize(t) = t.size /\ getSize(t) # None)
        /\ (~t.opened => getSize(t) = None)
    BY NewTerminalType
  <1>5. execRef \in SocketType
    BY <1>1 DEF ShellInv
  <1>6. up \in SocketType /\ up.sock = "open"
    BY <1>5 DEF onopen, sendResize, SocketType
  <1> HIDE DEF t, up
  <1>7. CASE t.opened
    <2>1. getSize(t) = t.size /\ t.size \in Sizes /\ execRef' = Reported(up, t.size)
      BY <1>3, <1>4, <1>7
    <2>2. execRef' = None \/ execRef' = [up EXCEPT !.size = t.size, !.pty = t.size]
      BY <1>6, <2>1 DEF Reported, sendResize, SocketType
    <2>3. execRef' # None => /\ execRef' \in SocketType /\ execRef'.sock = "open"
                             /\ execRef'.pty = t.size
      BY <1>6, <2>1, <2>2 DEF SocketType
    <2> QED
      BY <1>1, <1>2, <1>4, <1>7, <2>3 DEF ShellInv, Active
  <1>8. CASE ~t.opened
    <2>1. execRef' = up
      BY <1>3, <1>4, <1>8
    <2> QED
      BY <1>1, <1>2, <1>4, <1>6, <1>8, <2>1 DEF ShellInv, Active
  <1> QED
    BY <1>7, <1>8

\* An error of the stream ends the input with the message that is shown.
LEMMA ShellErrs ==
  ASSUME ShellInv, ExecStreamError
  PROVE  ShellInv'
  <1>1. /\ execRef # None /\ execRef.sock = "open"
        /\ UNCHANGED <<pod, memo, selectedValue, win, vnc, late, open, execRef>>
        /\ error' \in {"no shell", "stream"}
    BY DEF ExecStreamError, vncVars
  <1>2. /\ open /\ terminal # None /\ terminal \in TerminalType
        /\ terminal.opened => terminal.size \in Sizes
    BY <1>1 DEF ShellInv
  <1>3. error' # None
    BY <1>1, PodAssumption
  <1>4. terminal' = terminal \/ terminal' = [terminal EXCEPT !.stdin = FALSE]
    BY <1>2 DEF ExecStreamError, Body, Shown, onConnectionClosed
  <1>5. /\ terminal' \in TerminalType /\ terminal'.opened = terminal.opened
        /\ terminal'.size = terminal.size
    BY <1>2, <1>4 DEF TerminalType
  <1>6. terminal' # None
    BY <1>5, PodAssumption DEF TerminalType
  <1> QED
    BY <1>1, <1>2, <1>3, <1>5, <1>6 DEF ShellInv, Active

\* A closed socket promises nothing any more.
LEMMA ShellCloses ==
  ASSUME ShellInv, NEW clean \in BOOLEAN, ExecCloses(clean)
  PROVE  ShellInv'
  <1>1. /\ execRef # None /\ execRef \in SocketType
        /\ UNCHANGED <<pod, memo, selectedValue, win, vnc, late>>
    BY DEF ExecCloses, ShellInv, vncVars
  <1> DEFINE down == [execRef EXCEPT !.sock = "closed"]
  <1>2. destroy(execRef) = down /\ down \in SocketType /\ down.sock = "closed"
    BY <1>1 DEF destroy, SocketType
  <1>3. CASE clean
    BY <1>1, <1>2, <1>3 DEF ExecCloses, ShellInv, Active
  <1>4. CASE ~clean
    <2>1. terminal' # None => /\ terminal' \in TerminalType
                              /\ (terminal'.opened => terminal'.size \in Sizes)
      <3>1. CASE terminal = None
        <4>1. terminal' = None \/ terminal' = NewTerminal(fonts, win)
          BY <1>4, <3>1 DEF ExecCloses, Body
        <4> QED
          BY <4>1, NewTerminalType
      <3>2. CASE terminal # None
        <4>1. terminal' = [terminal EXCEPT !.stdin = FALSE]
          BY <1>4, <3>2 DEF ExecCloses, onConnectionClosed
        <4> QED
          BY <3>2, <4>1 DEF ShellInv, TerminalType
      <3> QED
        BY <3>1, <3>2
    <2>2. execRef' = Mounted(down, terminal')
      BY <1>2, <1>4 DEF ExecCloses
    <2> HIDE DEF down
    <2>3. getSize(terminal') \in Sizes \cup {None}
      BY <2>1 DEF getSize
    <2>4. execRef' # None => execRef' \in SocketType /\ execRef'.sock = "closed"
      BY <1>2, <2>2, <2>3 DEF Mounted, Reported, sendResize, SocketType
    <2> QED
      BY <1>1, <2>1, <2>4 DEF ShellInv, Active
  <1> QED
    BY <1>3, <1>4

\* The terminal takes the size of the window and tells the socket.
LEMMA ShellFits ==
  ASSUME ShellInv, NEW w \in Sizes, win' = w, terminal # None, terminal' = Opened(terminal, w),
         execRef' = Reported(execRef, w),
         UNCHANGED <<pod, memo, selectedValue, vnc, late, open, error>>
  PROVE  ShellInv'
  <1>1. terminal \in TerminalType
    BY DEF ShellInv
  <1>2. /\ terminal' \in TerminalType /\ terminal'.opened /\ terminal'.size = w
        /\ terminal'.stdin = terminal.stdin
    BY <1>1 DEF Opened, TerminalType
  <1>3. terminal' # None
    BY <1>2, PodAssumption DEF TerminalType
  <1>4. CASE execRef = None
    BY <1>2, <1>4 DEF ShellInv, Active, Reported
  <1>5. CASE execRef # None
    <2>1. /\ execRef \in SocketType /\ vnc = None /\ late = {}
          /\ execRef.sock # "connecting"
      BY <1>5 DEF ShellInv
    <2>2. execRef' = [execRef EXCEPT !.size = w, !.pty = IF execRef.sock = "open" THEN w ELSE @]
      BY <1>5 DEF Reported, sendResize
    <2>3. execRef' \in SocketType /\ execRef'.sock = execRef.sock
          /\ (execRef.sock = "open" => execRef'.pty = w)
      BY <2>1, <2>2 DEF SocketType
    <2> QED
      BY <1>2, <1>3, <1>5, <2>1, <2>3 DEF ShellInv
  <1> QED
    BY <1>4, <1>5

\* Every step of the tab.
LEMMA ShellInductive == ShellInv /\ [PodNext]_podVars => ShellInv'
  <1> SUFFICES ASSUME ShellInv, [PodNext]_podVars PROVE ShellInv'
    OBVIOUS
  <1>1. CASE UNCHANGED podVars
    BY <1>1 DEF podVars, tabVars, execVars, vncVars, ShellInv, Active
  <1>2. ASSUME NEW p \in Pods, OpenTab(p) PROVE ShellInv'
    <2>1. /\ ConnectTo(memo', activeEntry(p, memo'.entries, None)) /\ win' = win
          /\ pod' = p /\ selectedValue' = None
      BY <1>2 DEF OpenTab, ShellInv
    <2>2. Active' = activeEntry(p, memo'.entries, None)
      BY <2>1 DEF Active
    <2> QED
      BY <2>1, <2>2, ShellFollows
  <1>3. ASSUME NEW i \in 1..(IF pod = None THEN 0 ELSE Len(memo.entries)), Select(i) PROVE ShellInv'
    <2> DEFINE v == memo.entries[i].value
    <2>1. /\ ConnectTo(memo, activeEntry(pod, memo.entries, v)) /\ win' = win
          /\ pod' = pod /\ pod # None /\ memo' = memo /\ selectedValue' = v
      BY <1>3 DEF Select
    <2>2. Active' = activeEntry(pod, memo.entries, v)
      BY <2>1 DEF Active
    <2> QED
      BY <2>1, <2>2, ShellFollows
  <1>4. CASE CloseTab
    BY <1>4 DEF CloseTab, ShellInv
  <1>5. CASE PodStops
    BY <1>5 DEF PodStops, execVars, vncVars, ShellInv, Active
  <1>6. ASSUME NEW noSh \in BOOLEAN, ExecData(noSh) PROVE ShellInv'
    BY <1>6 DEF ExecData, tabVars, vncVars, ShellInv, Active
  <1>7. CASE reconnect
    <2>1. vnc = None /\ late = {}
      BY <1>7 DEF reconnect, ShellInv
    <2> QED
      BY <1>7, <2>1, ShellConnects DEF reconnect, vncVars
  <1>8. ASSUME NEW w \in Sizes, Resize(w) PROVE ShellInv'
    <2>1. win' = w /\ UNCHANGED <<pod, memo, selectedValue, vnc, late, open, error>>
      BY <1>8 DEF Resize, tabVars, vncVars
    <2>2. CASE getSize(terminal) # None
      BY <1>8, <2>1, <2>2, ShellFits DEF Resize, getSize
    <2>3. CASE getSize(terminal) = None
      <3>1. UNCHANGED <<terminal, execRef>>
        BY <1>8, <2>3 DEF Resize
      <3> QED
        BY <2>1, <3>1 DEF ShellInv, Active
    <2> QED
      BY <2>2, <2>3
  <1>9. ASSUME NEW fontsIn \in BOOLEAN, TerminalOpens(fontsIn) PROVE ShellInv'
    <2>1. win' = win /\ win \in Sizes /\ UNCHANGED <<pod, memo, selectedValue, vnc, late, open, error>>
      BY <1>9 DEF TerminalOpens, tabVars, vncVars, ShellInv
    <2>2. CASE terminal # None /\ ~terminal.opened
      BY <1>9, <2>1, <2>2, ShellFits DEF TerminalOpens
    <2>3. CASE ~(terminal # None /\ ~terminal.opened)
      <3>1. UNCHANGED <<terminal, execRef>>
        BY <1>9, <2>3 DEF TerminalOpens
      <3> QED
        BY <2>1, <3>1 DEF ShellInv, Active
    <2> QED
      BY <2>2, <2>3
  <1>10. CASE RfbConnects \/ RetryTimer \/ VncReconnect \/ SecurityFailure
    BY <1>10, ShellAside
       DEF RfbConnects, RetryTimer, VncReconnect, SecurityFailure, Live, execVars
  <1>11. ASSUME NEW b \in BOOLEAN, RfbDisconnects(b) \/ CredentialsRequired(b) PROVE ShellInv'
    BY <1>11, ShellAside DEF RfbDisconnects, CredentialsRequired, Live, execVars
  <1>12. ASSUME NEW id \in late, LateDisconnect(id) PROVE ShellInv'
    BY <1>12, ShellAside DEF LateDisconnect, execVars, tabVars
  <1>13. ASSUME NEW q \in resolving, NEW ok \in BOOLEAN, PasswordResolved(q, ok) PROVE ShellInv'
    <2>1. CASE vnc = None
      BY <1>13, <2>1 DEF PasswordResolved, ShellInv, execVars, Active
    <2>2. CASE vnc # None
      BY <1>13, <2>2, ShellAside DEF PasswordResolved, execVars
    <2> QED
      BY <2>1, <2>2
  <1>14. CASE submitManualPassword
    BY <1>14, ShellAside DEF submitManualPassword, tabVars, execVars
  <1>15. ASSUME NEW readable \in BOOLEAN, typeClipboard(readable) PROVE ShellInv'
    BY <1>15, ShellAside DEF typeClipboard, execVars
  <1>16. ASSUME NEW t \in typings, typeText(t) PROVE ShellInv'
    <2>1. CASE vnc = None
      <3>1. vnc' = vnc
        BY <1>16, <2>1 DEF typeText
      <3> QED
        BY <1>16, <3>1 DEF typeText, tabVars, execVars, ShellInv, Active
    <2>2. CASE vnc # None
      BY <1>16, <2>2, ShellAside DEF typeText, tabVars, execVars
    <2> QED
      BY <2>1, <2>2
  <1> QED
    BY <1>1, <1>2, <1>3, <1>4, <1>5, <1>6, <1>7, <1>8, <1>9, <1>10, <1>11, <1>12, <1>13, <1>14,
       <1>15, <1>16, ShellIsOpened, ShellErrs, ShellCloses DEF PodNext

\* A shell that is shown as open has a pty of the terminal's size and a terminal
\* that takes input, however fonts, opening, resizing and reconnecting
\* interleave (PodTerminalTab.tsx, Terminal.tsx, ExecChannel).
THEOREM ShellsUsable == PodSpec => []ShellUsable
  <1>1. ShellInv => ShellUsable
    BY DEF ShellInv, ShellUsable, Sized, getSize
  <1> QED
    BY <1>1, ShellStarts, ShellInductive, PTL DEF PodSpec

-----------------------------------------------------------------------------
(* What a VNC server is sent.                                               *)

TextLen == Len(ClipboardText)

CharType == [char : STRING, shift : BOOLEAN]

VncShape(v) ==
  v = [state |-> v.state, prompt |-> v.prompt, hasConnected |-> v.hasConnected,
       backoff |-> v.backoff, timer |-> v.timer, lost |-> v.lost, flipped |-> v.flipped,
       rfb |-> v.rfb]

RfbShape(r) ==
  r = [id |-> r.id, port |-> r.port, auth |-> r.auth, conn |-> r.conn, creds |-> r.creds,
       specific |-> r.specific, shift |-> r.shift, got |-> r.got, pastes |-> r.pastes]

\* Where a Type Clipboard stands: how many characters of this paste the server
\* has, and whether it holds Shift down.
TypingType(t, n) ==
  /\ t \in [id : Nat, n : Nat, pos : 1..TextLen, key : {"first", "down", "up", "unshift"}]
  /\ t.id <= n
  /\ t.key \in {"down", "unshift"} => ClipboardText[t.pos].shift

Sofar(t) == IF t.key \in {"up", "unshift"} THEN t.pos ELSE t.pos - 1

HoldsShift(t) == t.key # "first" /\ ClipboardText[t.pos].shift

\* Connection r has what typing t has typed so far, after the pastes before.
Typed(t, r) ==
  /\ r.pastes = t.n + 1
  /\ Len(r.got) = TextLen * t.n + Sofar(t)
  /\ r.shift <=> HoldsShift(t)

\* A connection has whole pastes and the started one, and nothing before it is
\* connected.
RfbOK(r, ts, n) ==
  /\ RfbShape(r)
  /\ r.id \in 0..n /\ r.pastes \in Nat /\ r.got \in Seq(CharType) /\ r.shift \in BOOLEAN
  /\ r.creds \subseteq {r.auth, "typed"}
  /\ \A i \in 1..Len(r.got) : r.got[i] = ClipboardText[((i - 1) % TextLen) + 1]
  /\ r.conn \in {"opening", "asking", "authorised", "rejected", "connected", "gone"}
  /\ r.conn \in {"opening", "asking", "authorised", "rejected"} =>
       /\ r.got = <<>> /\ ~r.shift /\ r.pastes = 0
       /\ \A t \in ts : t.id # r.id
  /\ r.conn = "connected" =>
       /\ (\A t \in ts : t.id # r.id) => Len(r.got) = TextLen * r.pastes /\ ~r.shift
       /\ \A t \in ts : t.id = r.id => Typed(t, r)

\* Lookups and typings know the connection they are for, and a lookup for the
\* current one is for its endpoint's password.
ApartInv ==
  /\ connections \in Nat
  /\ \A t \in typings : TypingType(t, connections)
  /\ \A t, u \in typings : t = u
  /\ \A q \in resolving : q.id \in 0..connections
  /\ vnc # None =>
       /\ VncShape(vnc) /\ RfbOK(vnc.rfb, typings, connections)
       /\ vnc.state = "connected" => vnc.rfb.conn = "connected"
       /\ \A q \in resolving : q.id = vnc.rfb.id => q.auth = vnc.rfb.auth

\* Connections that nothing was typed into yet.
Early == {"opening", "asking", "authorised", "rejected"}

\* The clipboard is a sequence of characters, and not empty.
LEMMA ClipboardIs ==
  /\ TextLen \in Nat \ {0} /\ ClipboardText \in Seq(CharType)
  /\ \A i \in 1..TextLen : ClipboardText[i] \in CharType
  <1>1. ClipboardText \in Seq(CharType) /\ ClipboardText # <<>>
    BY PodAssumption DEF CharType
  <1> HIDE DEF CharType
  <1>2. Len(ClipboardText) # 0
    BY <1>1, EmptySeq
  <1> QED
    BY <1>1, <1>2 DEF TextLen

\* A tab that is not open.
LEMMA ApartStarts == PodInit => ApartInv
  BY DEF PodInit, ApartInv

\* Shells leave the console alone; they may use up a connection.
LEMMA ApartAside ==
  ASSUME ApartInv, vnc' = vnc \/ vnc' = None, resolving' \subseteq resolving, typings' = typings,
         connections' \in {connections, connections + 1}
  PROVE  ApartInv'
  <1>1. /\ connections' \in Nat /\ connections \in Nat
        /\ \A n \in 0..connections : n \in 0..connections'
        /\ \A n \in Nat : n <= connections => n <= connections'
    BY DEF ApartInv
  <1>2. \A t \in typings' : TypingType(t, connections')
    BY <1>1 DEF ApartInv, TypingType, TextLen
  <1>3. \A q \in resolving' : q.id \in 0..connections'
    BY <1>1 DEF ApartInv
  <1>4. ASSUME vnc' # None PROVE VncShape(vnc') /\ RfbOK(vnc'.rfb, typings', connections')
    <2>1. vnc' = vnc /\ VncShape(vnc) /\ RfbOK(vnc.rfb, typings, connections)
      BY <1>4 DEF ApartInv
    <2> QED
      BY <1>1, <2>1 DEF RfbOK, Typed, Sofar, HoldsShift, TextLen
  <1> QED
    BY <1>1, <1>2, <1>3, <1>4 DEF ApartInv

\* A new connection has a number of its own, and begins with nothing.
LEMMA ApartConnects ==
  ASSUME ApartInv, NEW v, VncShape(v), NEW e, connections' = connections + 1,
         vnc' = ConnectVnc(v, connections', e), UNCHANGED <<resolving, typings>>
  PROVE  ApartInv'
  <1> DEFINE r == NewRfb(connections', e)
  <1>1. /\ connections' \in Nat /\ connections' \in 0..connections' /\ connections \in Nat
        /\ \A n \in 0..connections : n \in 0..connections' /\ n # connections'
        /\ \A n \in Nat : n <= connections => n <= connections' /\ n # connections'
    BY DEF ApartInv
  <1>2. VncShape(vnc') /\ vnc'.rfb = r /\ vnc'.state = "connecting"
    BY DEF ConnectVnc, VncShape
  <1>3. /\ RfbShape(r) /\ r.id = connections' /\ r.pastes = 0 /\ r.got = <<>> /\ r.shift = FALSE
        /\ r.creds = {} /\ r.conn = "opening"
    BY DEF NewRfb, RfbShape
  <1> HIDE DEF r
  <1>4. \A t \in typings' : TypingType(t, connections') /\ t.id # connections'
    BY <1>1 DEF ApartInv, TypingType, TextLen
  <1>5. \A q \in resolving' : q.id \in 0..connections' /\ q.id # connections'
    BY <1>1 DEF ApartInv
  <1>6. RfbOK(r, typings', connections')
    <2>1. r.got \in Seq(CharType) /\ \A i \in 1..Len(r.got) : FALSE
      BY <1>3
    <2>2. r.shift \in BOOLEAN /\ r.creds \subseteq {r.auth, "typed"}
      BY <1>3
    <2>3. r.id \in 0..connections' /\ r.pastes \in Nat /\ \A t \in typings' : t.id # r.id
      BY <1>1, <1>3, <1>4
    <2> QED
      BY <1>3, <2>1, <2>2, <2>3 DEF RfbOK
  <1> QED
    BY <1>1, <1>2, <1>3, <1>4, <1>5, <1>6 DEF ApartInv

\* An event of the connection that types nothing.
LEMMA ApartHandles ==
  ASSUME ApartInv, vnc # None, NEW r, VncShape(vnc'), vnc'.rfb = r, RfbShape(r),
         r.id = vnc.rfb.id, r.auth = vnc.rfb.auth, r.shift = vnc.rfb.shift,
         r.got = vnc.rfb.got, r.pastes = vnc.rfb.pastes,
         r.creds \subseteq {r.auth, "typed"},
         \/ r.conn = vnc.rfb.conn
         \/ r.conn = "gone"
         \/ vnc.rfb.conn \in Early /\ r.conn \in Early \cup {"connected"},
         vnc'.state = "connected" => r.conn = "connected",
         \A q \in resolving' : \/ q \in resolving
                               \/ q.id = r.id /\ q.auth = r.auth,
         UNCHANGED <<typings, connections>>
  PROVE  ApartInv'
  <1>1. RfbOK(vnc.rfb, typings, connections) /\ connections \in Nat
    BY DEF ApartInv
  <1>2. RfbOK(r, typings', connections')
    <2>1. /\ r.id \in 0..connections /\ r.pastes \in Nat /\ r.got \in Seq(CharType)
          /\ r.shift \in BOOLEAN
          /\ \A i \in 1..Len(r.got) : r.got[i] = ClipboardText[((i - 1) % TextLen) + 1]
          /\ r.conn \in {"opening", "asking", "authorised", "rejected", "connected", "gone"}
      BY <1>1 DEF RfbOK, Early
    <2>2. r.conn \in Early => /\ r.got = <<>> /\ ~r.shift /\ r.pastes = 0
                              /\ \A t \in typings : t.id # r.id
      BY <1>1 DEF RfbOK, Early
    <2>3. ASSUME r.conn = "connected"
          PROVE  /\ (\A t \in typings : t.id # r.id) => Len(r.got) = TextLen * r.pastes /\ ~r.shift
                 /\ \A t \in typings : t.id = r.id => Typed(t, r)
      <3>1. CASE vnc.rfb.conn = "connected"
        BY <1>1, <3>1 DEF RfbOK, Typed
      <3>2. CASE vnc.rfb.conn \in Early
        <4>1. r.got = <<>> /\ ~r.shift /\ r.pastes = 0 /\ \A t \in typings : t.id # r.id
          BY <1>1, <3>2 DEF RfbOK, Early
        <4>2. TextLen * 0 = 0 /\ Len(<<>>) = 0
          BY ClipboardIs
        <4> QED
          BY <4>1, <4>2
      <3> QED
        BY <2>3, <3>1, <3>2
    <2> QED
      BY <2>1, <2>2, <2>3 DEF RfbOK, Typed, Early, Sofar, HoldsShift, TextLen
  <1>3. \A t \in typings' : TypingType(t, connections')
    BY DEF ApartInv, TypingType, TextLen
  <1>4. \A q \in resolving' : q.id \in 0..connections' /\ (q.id = r.id => q.auth = r.auth)
    BY <1>1 DEF ApartInv, RfbOK
  <1> QED
    BY <1>1, <1>2, <1>3, <1>4 DEF ApartInv

\* Type Clipboard begins where the last paste ended.
LEMMA ApartPastes ==
  ASSUME ApartInv, typeClipboard(TRUE)
  PROVE  ApartInv'
  <1> DEFINE r == vnc.rfb
             s == vnc'.rfb
             t == [id |-> r.id, n |-> r.pastes, pos |-> 1, key |-> "first"]
  <1>1. /\ vnc # None /\ vnc.state = "connected" /\ typings = {} /\ typings' = {t}
        /\ vnc' = [vnc EXCEPT !.rfb.pastes = @ + 1] /\ UNCHANGED <<resolving, connections>>
    BY DEF typeClipboard
  <1>2. VncShape(vnc) /\ RfbOK(r, typings, connections) /\ r.conn = "connected" /\ connections \in Nat
    BY <1>1 DEF ApartInv
  <1>3. VncShape(vnc') /\ s = [r EXCEPT !.pastes = r.pastes + 1]
    BY <1>1, <1>2 DEF VncShape
  <1>4. /\ RfbShape(s) /\ s.pastes = r.pastes + 1 /\ s.id = r.id /\ s.auth = r.auth
        /\ s.got = r.got /\ s.shift = r.shift /\ s.creds = r.creds /\ s.conn = "connected"
    BY <1>2, <1>3 DEF RfbOK, RfbShape
  <1>5. /\ r.pastes \in Nat /\ r.id \in 0..connections
        /\ Len(r.got) = TextLen * r.pastes /\ ~r.shift
    BY <1>1, <1>2 DEF RfbOK
  <1>6. TypingType(t, connections')
    BY <1>1, <1>2, <1>5, ClipboardIs DEF TypingType, TextLen
  <1>7. Typed(t, s)
    <2>1. t.n = r.pastes /\ t.key = "first" /\ t.pos = 1
      OBVIOUS
    <2> HIDE DEF t, s, r
    <2>2. Sofar(t) = 0 /\ ~HoldsShift(t)
      BY <2>1 DEF Sofar, HoldsShift
    <2>3. TextLen * r.pastes + 0 = TextLen * r.pastes
      BY <1>5, ClipboardIs
    <2> QED
      BY <1>4, <1>5, <2>1, <2>2, <2>3 DEF Typed, TextLen, Sofar, HoldsShift
  <1>8. RfbOK(s, typings', connections')
    <2>1. t.id = s.id
      BY <1>4
    <2> HIDE DEF t, s
    <2> QED
      BY <1>1, <1>2, <1>4, <1>5, <1>7, <2>1 DEF RfbOK, TextLen
  <1> QED
    BY <1>1, <1>2, <1>3, <1>4, <1>6, <1>8 DEF ApartInv

\* Where a key event leads: one further event of the character, or the next.
KeyOf(t) ==
  IF t.key # "first" THEN t.key ELSE IF ClipboardText[t.pos].shift THEN "shift" ELSE "down"

NextKey(t) ==
  CASE KeyOf(t) = "shift" -> "down"
    [] KeyOf(t) = "down" -> "up"
    [] KeyOf(t) = "up" /\ ClipboardText[t.pos].shift -> "unshift"
    [] OTHER -> "first"

Moved(t) == [t EXCEPT !.key = NextKey(t), !.pos = IF NextKey(t) = "first" THEN @ + 1 ELSE @]

Heard(t) == vnc # None /\ vnc.rfb.id = t.id /\ vnc.rfb.conn = "connected"

\* The events of a character come in order, with Shift around a shifted one.
LEMMA KeysMove ==
  ASSUME NEW n, NEW t, TypingType(t, n)
  PROVE  /\ Moved(t).id = t.id /\ Moved(t).n = t.n
         /\ \/ /\ KeyOf(t) = "shift" /\ t.key = "first" /\ ClipboardText[t.pos].shift
               /\ Moved(t).key = "down" /\ Moved(t).pos = t.pos
            \/ /\ KeyOf(t) = "down" /\ Moved(t).key = "up" /\ Moved(t).pos = t.pos
               /\ t.key = IF ClipboardText[t.pos].shift THEN "down" ELSE "first"
            \/ /\ KeyOf(t) = "up" /\ t.key = "up" /\ ClipboardText[t.pos].shift
               /\ Moved(t).key = "unshift" /\ Moved(t).pos = t.pos
            \/ /\ KeyOf(t) = "up" /\ t.key = "up" /\ ~ClipboardText[t.pos].shift
               /\ Moved(t).key = "first" /\ Moved(t).pos = t.pos + 1
            \/ /\ KeyOf(t) = "unshift" /\ t.key = "unshift" /\ ClipboardText[t.pos].shift
               /\ Moved(t).key = "first" /\ Moved(t).pos = t.pos + 1
         /\ Moved(t).pos <= TextLen => TypingType(Moved(t), n)
  <1>1. /\ t \in [id : Nat, n : Nat, pos : 1..TextLen, key : {"first", "down", "up", "unshift"}]
        /\ t.id <= n /\ (t.key \in {"down", "unshift"} => ClipboardText[t.pos].shift)
    BY DEF TypingType
  <1> DEFINE k == NextKey(t)
             m == Moved(t)
  <1>2. \/ KeyOf(t) = "shift" /\ t.key = "first" /\ ClipboardText[t.pos].shift /\ k = "down"
        \/ /\ KeyOf(t) = "down" /\ k = "up"
           /\ t.key = IF ClipboardText[t.pos].shift THEN "down" ELSE "first"
        \/ KeyOf(t) = "up" /\ t.key = "up" /\ ClipboardText[t.pos].shift /\ k = "unshift"
        \/ KeyOf(t) = "up" /\ t.key = "up" /\ ~ClipboardText[t.pos].shift /\ k = "first"
        \/ KeyOf(t) = "unshift" /\ t.key = "unshift" /\ ClipboardText[t.pos].shift /\ k = "first"
    BY <1>1 DEF KeyOf, NextKey
  <1> HIDE DEF k
  <1>3. /\ m = [t EXCEPT !.key = k, !.pos = IF k = "first" THEN t.pos + 1 ELSE t.pos]
        /\ k \in {"first", "down", "up", "unshift"}
    BY <1>2 DEF Moved, k
  <1> HIDE DEF m
  <1>4. /\ m.id = t.id /\ m.n = t.n /\ m.key = k
        /\ m.pos = IF k = "first" THEN t.pos + 1 ELSE t.pos
        /\ m \in [id : Nat, n : Nat, pos : Nat, key : {"first", "down", "up", "unshift"}]
    <2>1. t.pos \in Nat /\ t.pos + 1 \in Nat
      BY <1>1, ClipboardIs
    <2> HIDE DEF k
    <2> QED
      BY <1>1, <1>3, <2>1
  <1>5. ASSUME m.pos <= TextLen PROVE TypingType(m, n)
    <2>1. m \in [id : Nat, n : Nat, pos : 1..TextLen, key : {"first", "down", "up", "unshift"}]
      BY <1>1, <1>4, <1>5, ClipboardIs
    <2>2. m.key \in {"down", "unshift"} => ClipboardText[m.pos].shift
      BY <1>2, <1>4
    <2> QED
      BY <1>1, <1>4, <2>1, <2>2 DEF TypingType
  <1> QED
    BY <1>2, <1>4, <1>5 DEF m

\* The characters before a paste are whole pastes.
LEMMA PastesWhole ==
  ASSUME NEW L \in Nat \ {0}, NEW q \in Nat, NEW r \in 0..(L - 1)
  PROVE  /\ (L * q + r) % L = r /\ L * q \in Nat
         /\ L * (q + 1) = L * q + L
  OBVIOUS

\* A typing the server does not hear, because its connection was replaced or is
\* gone, leaves every connection as it is.
LEMMA ApartUnheard ==
  ASSUME ApartInv, NEW t \in typings, typings' \subseteq {Moved(t)}, ~Heard(t),
         \A m \in typings' : m.pos <= TextLen,
         UNCHANGED <<vnc, resolving, connections>>
  PROVE  ApartInv'
  <1>1. /\ TypingType(t, connections) /\ typings = {t}
        /\ \A m \in typings' : m = Moved(t) /\ m.id = t.id /\ TypingType(m, connections)
    <2>1. TypingType(t, connections) /\ typings = {t}
      BY DEF ApartInv
    <2> QED
      BY <2>1, KeysMove
  <1>2. ASSUME vnc # None PROVE RfbOK(vnc.rfb, typings', connections)
    <2>1. RfbOK(vnc.rfb, typings, connections)
      BY <1>2 DEF ApartInv
    <2>2. vnc.rfb.conn = "connected" => t.id # vnc.rfb.id
      BY <1>2 DEF Heard
    <2> QED
      BY <1>1, <2>1, <2>2 DEF RfbOK
  <1> QED
    BY <1>1, <1>2 DEF ApartInv

\* What one key event does to a connection that hears it.
LEMMA KeyHeard ==
  ASSUME NEW n, NEW ts, NEW t, t \in ts, TypingType(t, n), NEW r, RfbOK(r, ts, n),
         r.conn = "connected", r.id = t.id, NEW s, RfbShape(s),
         s = CASE KeyOf(t) = "shift" -> [r EXCEPT !.shift = TRUE]
               [] KeyOf(t) = "unshift" -> [r EXCEPT !.shift = FALSE]
               [] KeyOf(t) = "down" ->
                    [r EXCEPT !.got = Append(r.got, [char |-> ClipboardText[t.pos].char,
                                                     shift |-> r.shift])]
               [] OTHER -> r
  PROVE  RfbOK(s, IF Moved(t).pos > TextLen THEN {} ELSE {Moved(t)}, n)
  <1> DEFINE m == Moved(t)
             us == IF m.pos > TextLen THEN {} ELSE {m}
             c == ClipboardText[t.pos]
  <1>1. /\ t.n \in Nat /\ t.pos \in 1..TextLen /\ c \in CharType /\ t.id \in Nat
        /\ TextLen \in Nat \ {0}
    BY ClipboardIs DEF TypingType
  <1>2. /\ RfbShape(r) /\ r.got \in Seq(CharType) /\ r.shift \in BOOLEAN /\ r.id \in 0..n
        /\ r.pastes = t.n + 1 /\ Len(r.got) = TextLen * t.n + Sofar(t)
        /\ r.shift <=> HoldsShift(t)
        /\ r.creds \subseteq {r.auth, "typed"}
        /\ \A i \in 1..Len(r.got) : r.got[i] = ClipboardText[((i - 1) % TextLen) + 1]
    BY DEF RfbOK, Typed
  <1>3. /\ s.id = r.id /\ s.pastes = r.pastes /\ s.creds = r.creds /\ s.auth = r.auth
        /\ s.conn = "connected"
        /\ s.shift = (IF KeyOf(t) = "shift" THEN TRUE
                      ELSE IF KeyOf(t) = "unshift" THEN FALSE ELSE r.shift)
        /\ s.got = IF KeyOf(t) = "down" THEN Append(r.got, [char |-> c.char, shift |-> r.shift])
                                        ELSE r.got
    BY <1>2 DEF RfbShape
  <1>4. m.id = t.id /\ m.n = t.n /\ m.pos \in Nat
    <2> HIDE DEF m
    <2>1. m.id = t.id /\ m.n = t.n /\ (m.pos = t.pos \/ m.pos = t.pos + 1)
      BY KeysMove DEF m
    <2> QED
      BY <1>1, <2>1
  <1>5. (TextLen * t.n + (t.pos - 1)) % TextLen = t.pos - 1 /\ TextLen * t.n \in Nat
    <2>1. t.pos - 1 \in 0..(TextLen - 1)
      BY <1>1
    <2> QED
      BY <1>1, <2>1, PastesWhole
  <1>6. /\ s.got \in Seq(CharType)
        /\ \A i \in 1..Len(s.got) : s.got[i] = ClipboardText[((i - 1) % TextLen) + 1]
    <2>1. CASE KeyOf(t) # "down"
      BY <1>2, <1>3, <2>1
    <2>2. CASE KeyOf(t) = "down"
      <3>1. r.shift <=> c.shift
        BY <1>2, <2>2, KeysMove DEF HoldsShift
      <3>2. r.shift = c.shift
        BY <1>1, <1>2, <3>1 DEF CharType
      <3>3. [char |-> c.char, shift |-> r.shift] = c
        BY <1>1, <3>2 DEF CharType
      <3>4. s.got = Append(r.got, c)
        BY <1>3, <2>2, <3>3
      <3>5. Sofar(t) = t.pos - 1
        BY <2>2, KeysMove DEF Sofar
      <3>6. Len(r.got) = TextLen * t.n + (t.pos - 1)
        BY <1>2, <3>5
      <3>7. /\ Len(s.got) = Len(r.got) + 1 /\ s.got \in Seq(CharType)
            /\ \A i \in 1..Len(r.got) : s.got[i] = r.got[i]
            /\ s.got[Len(r.got) + 1] = c
        <4> HIDE DEF c
        <4> QED
          BY <1>1, <1>2, <3>4
      <3>8. (((Len(r.got) + 1) - 1) % TextLen) + 1 = t.pos
        <4>1. (Len(r.got) + 1) - 1 = TextLen * t.n + (t.pos - 1)
          BY <1>1, <1>5, <3>6
        <4>2. (t.pos - 1) + 1 = t.pos
          BY <1>1
        <4> QED
          BY <1>5, <4>1, <4>2
      <3> QED
        BY <1>2, <3>7, <3>8
    <2> QED
      BY <2>1, <2>2
  <1>7. ASSUME m.pos <= TextLen PROVE Typed(m, s)
    <2>1. s.shift <=> HoldsShift(m)
      BY <1>2, <1>3, KeysMove DEF HoldsShift
    <2>2. Len(s.got) = TextLen * t.n + Sofar(m)
      <3> HIDE DEF m
      <3>1. CASE KeyOf(t) = "down"
        <4>1. Len(s.got) = Len(r.got) + 1
          BY <1>2, <1>3, <3>1
        <4>2. Sofar(t) = t.pos - 1 /\ Sofar(m) = t.pos
          BY <3>1, KeysMove DEF Sofar, m
        <4> QED
          BY <1>1, <1>2, <1>5, <4>1, <4>2
      <3>2. CASE KeyOf(t) # "down"
        <4>1. s.got = r.got
          BY <1>3, <3>2
        <4>2. Sofar(t) = Sofar(m)
          BY <1>1, <3>2, KeysMove DEF Sofar, m
        <4> QED
          BY <1>2, <4>1, <4>2
      <3> QED
        BY <3>1, <3>2
    <2> QED
      BY <1>2, <1>3, <1>4, <2>1, <2>2 DEF Typed
  <1>8. ASSUME m.pos > TextLen PROVE Len(s.got) = TextLen * s.pastes /\ ~s.shift
    <2>1. /\ m.pos = t.pos + 1 /\ t.pos = TextLen /\ m.key = "first" /\ KeyOf(t) # "down"
          /\ Sofar(t) = t.pos
      <3> HIDE DEF m
      <3>1. m.pos = t.pos \/ m.pos = t.pos + 1
        BY KeysMove DEF m
      <3>2. m.pos = t.pos + 1 /\ t.pos = TextLen
        BY <1>1, <1>8, <3>1
      <3>3. m.pos # t.pos
        BY <1>1, <3>2
      <3> QED
        BY <3>2, <3>3, KeysMove DEF Sofar, m
    <2>2. ~s.shift
      BY <1>2, <1>3, <2>1, KeysMove DEF HoldsShift
    <2>3. Len(s.got) = TextLen * t.n + TextLen
      BY <1>2, <1>3, <2>1
    <2>4. TextLen * (t.n + 1) = TextLen * t.n + TextLen
      BY <1>1, PastesWhole
    <2> QED
      BY <1>2, <1>3, <2>2, <2>3, <2>4
  <1>9. s.pastes \in Nat /\ s.shift \in BOOLEAN
    <2>1. s.pastes = t.n + 1
      BY <1>2, <1>3
    <2>2. s.shift = TRUE \/ s.shift = FALSE \/ s.shift = r.shift
      BY <1>3
    <2>3. s.shift \in BOOLEAN
      BY <1>2, <2>2, Zenon
    <2>4. s.pastes \in Nat
      BY <1>1, <2>1
    <2> QED
      BY <2>3, <2>4, Zenon
  <1>10. /\ \A x \in us : Typed(x, s)
         /\ (\A x \in us : x.id # s.id) => Len(s.got) = TextLen * s.pastes /\ ~s.shift
    <2>1. CASE m.pos > TextLen
      BY <1>8, <2>1
    <2>2. CASE ~(m.pos > TextLen)
      <3>1. m.pos <= TextLen /\ us = {m}
        BY <1>1, <1>4, <2>2
      <3> QED
        BY <1>3, <1>4, <1>7, <3>1
    <2> QED
      BY <2>1, <2>2
  <1> HIDE DEF us
  <1>11. RfbOK(s, us, n)
    BY <1>2, <1>3, <1>6, <1>9, <1>10 DEF RfbOK
  <1> QED
    BY <1>11 DEF us

\* One key event of Type Clipboard.
LEMMA ApartTypes ==
  ASSUME ApartInv, NEW t \in typings, typeText(t)
  PROVE  ApartInv'
  <1> DEFINE m == Moved(t)
             ts == IF m.pos > TextLen THEN {} ELSE {m}
             char == [char |-> ClipboardText[t.pos].char, shift |-> vnc.rfb.shift]
  <1>1. /\ TypingType(t, connections) /\ typings = {t} /\ connections \in Nat
        /\ UNCHANGED <<resolving, connections>>
    BY DEF ApartInv, typeText
  <1>2. /\ typings' = (typings \ {t}) \cup ts
        /\ vnc' = IF ~Heard(t) THEN vnc ELSE
                    CASE KeyOf(t) = "shift" -> [vnc EXCEPT !.rfb.shift = TRUE]
                      [] KeyOf(t) = "unshift" -> [vnc EXCEPT !.rfb.shift = FALSE]
                      [] KeyOf(t) = "down" -> [vnc EXCEPT !.rfb.got = Append(@, char)]
                      [] OTHER -> vnc
    BY DEF typeText, Moved, NextKey, KeyOf, Heard, TextLen
  <1>3. /\ m.pos \in Nat /\ TextLen \in Nat /\ m.id = t.id
        /\ m.pos <= TextLen => TypingType(m, connections)
    <2> HIDE DEF m
    <2>1. /\ m.id = t.id /\ (m.pos = t.pos \/ m.pos = t.pos + 1)
          /\ m.pos <= TextLen => TypingType(m, connections)
      BY <1>1, KeysMove DEF m
    <2>2. t.pos \in 1..TextLen
      BY <1>1 DEF TypingType
    <2> QED
      BY <2>1, <2>2, ClipboardIs
  <1> HIDE DEF m
  <1>4. typings' = ts /\ ts \subseteq {m} /\ \A u \in ts : u.pos <= TextLen
    BY <1>1, <1>2, <1>3
  <1>5. CASE ~Heard(t)
    BY <1>1, <1>2, <1>4, <1>5, ApartUnheard DEF m
  <1>6. CASE Heard(t)
    <2> DEFINE r == vnc.rfb
               s == CASE KeyOf(t) = "shift" -> [r EXCEPT !.shift = TRUE]
                      [] KeyOf(t) = "unshift" -> [r EXCEPT !.shift = FALSE]
                      [] KeyOf(t) = "down" -> [r EXCEPT !.got = Append(r.got, char)]
                      [] OTHER -> r
    <2>1. /\ vnc # None /\ r.id = t.id /\ r.conn = "connected"
          /\ VncShape(vnc) /\ RfbOK(r, typings, connections)
      BY <1>6 DEF Heard, ApartInv
    <2>2. RfbShape(r)
      BY <2>1 DEF RfbOK
    <2>3. VncShape(vnc') /\ vnc'.rfb = s /\ vnc'.state = vnc.state /\ RfbShape(s)
      <3>1. CASE KeyOf(t) = "shift"
        BY <1>2, <1>6, <2>1, <2>2, <3>1 DEF VncShape, RfbShape
      <3>2. CASE KeyOf(t) = "unshift"
        BY <1>2, <1>6, <2>1, <2>2, <3>2 DEF VncShape, RfbShape
      <3>3. CASE KeyOf(t) = "down"
        BY <1>2, <1>6, <2>1, <2>2, <3>3 DEF VncShape, RfbShape
      <3>4. CASE KeyOf(t) \notin {"shift", "unshift", "down"}
        BY <1>2, <1>6, <2>1, <2>2, <3>4 DEF VncShape, RfbShape
      <3> QED
        BY <3>1, <3>2, <3>3, <3>4
    <2>4. RfbOK(s, ts, connections)
      BY <1>1, <2>1, <2>3, KeyHeard DEF m
    <2>5. s.id = r.id /\ s.auth = r.auth /\ s.conn = r.conn
      BY <2>2 DEF RfbShape
    <2> HIDE DEF s, ts
    <2>6. /\ \A u \in typings' : TypingType(u, connections')
          /\ \A u, x \in typings' : u = x
      BY <1>1, <1>3, <1>4
    <2>7. /\ VncShape(vnc') /\ RfbOK(vnc'.rfb, typings', connections')
          /\ vnc'.rfb.conn = "connected"
          /\ \A q \in resolving' : q.id = vnc'.rfb.id => q.auth = vnc'.rfb.auth
      BY <1>1, <1>4, <2>1, <2>3, <2>4, <2>5 DEF ApartInv
    <2> QED
      BY <1>1, <2>6, <2>7 DEF ApartInv
  <1> QED
    BY <1>5, <1>6

\* Every step of the tab.
LEMMA ApartInductive == ApartInv /\ [PodNext]_podVars => ApartInv'
  <1> SUFFICES ASSUME ApartInv, [PodNext]_podVars PROVE ApartInv'
    OBVIOUS
  <1>1. connections \in Nat /\ (vnc # None => VncShape(vnc) /\ RfbOK(vnc.rfb, typings, connections))
    BY DEF ApartInv
  <1>2. VncShape(MountVnc) /\ (vnc # None => VncShape(NewSession(vnc)))
    <2>1. ASSUME NEW v, v = MountVnc PROVE VncShape(v)
      BY <2>1 DEF VncShape, MountVnc
    <2>2. ASSUME vnc # None, NEW v, v = NewSession(vnc) PROVE VncShape(v)
      BY <1>1, <2>2 DEF VncShape, NewSession
    <2> QED
      BY <2>1, <2>2
  <1>3. ASSUME NEW m, NEW e, ConnectTo(m, e), UNCHANGED <<resolving, typings>> PROVE ApartInv'
    <2>1. CASE isVncEntry(e)
      <3>1. PICK v : /\ VncShape(v)
                     /\ vnc' = ConnectVnc(v, connections', endpoint(m.announced, e))
        BY <1>2, <1>3, <2>1 DEF ConnectTo
      <3>2. connections' = connections + 1
        BY <1>3, <2>1 DEF ConnectTo
      <3> QED
        BY <1>3, <3>1, <3>2, ApartConnects
    <2>2. CASE ~isVncEntry(e)
      BY <1>3, <2>2, ApartAside DEF ConnectTo, ConnectShell
    <2> QED
      BY <2>1, <2>2
  <1>4. CASE UNCHANGED podVars
    BY <1>4, ApartAside DEF podVars, vncVars
  <1>5. ASSUME NEW p \in Pods, OpenTab(p) PROVE ApartInv'
    BY <1>3, <1>5 DEF OpenTab
  <1>6. ASSUME NEW i \in 1..(IF pod = None THEN 0 ELSE Len(memo.entries)), Select(i) PROVE ApartInv'
    BY <1>3, <1>6 DEF Select
  <1>7. CASE CloseTab
    BY <1>7 DEF CloseTab, ApartInv
  <1>8. CASE PodStops \/ ExecOpens \/ ExecStreamError
    BY <1>8, ApartAside DEF PodStops, ExecOpens, ExecStreamError, vncVars
  <1>9. ASSUME NEW b \in BOOLEAN, ExecData(b) \/ ExecCloses(b) \/ TerminalOpens(b) PROVE ApartInv'
    BY <1>9, ApartAside DEF ExecData, ExecCloses, TerminalOpens, vncVars
  <1>10. ASSUME NEW w \in Sizes, Resize(w) PROVE ApartInv'
    BY <1>10, ApartAside DEF Resize, vncVars
  <1>11. CASE reconnect
    BY <1>11, ApartAside DEF reconnect, ConnectShell, vncVars
  <1>12. CASE RetryTimer \/ VncReconnect
    <2>1. PICK v, e : VncShape(v) /\ vnc' = ConnectVnc(v, connections', e)
      <3>1. CASE RetryTimer
        BY <1>1, <3>1 DEF RetryTimer
      <3>2. CASE VncReconnect
        <4>1. VncShape([vnc EXCEPT !.backoff = InitialBackoff, !.lost = 0])
          <5>1. ASSUME NEW v, v = [vnc EXCEPT !.backoff = InitialBackoff, !.lost = 0]
                PROVE  VncShape(v)
            BY <1>1, <3>2, <5>1 DEF VncReconnect, VncShape
          <5> QED
            BY <5>1
        <4> QED
          BY <3>2, <4>1 DEF VncReconnect
      <3> QED
        BY <1>12, <3>1, <3>2
    <2>2. connections' = connections + 1 /\ UNCHANGED <<resolving, typings>>
      BY <1>12 DEF RetryTimer, VncReconnect
    <2> QED
      BY <2>1, <2>2, ApartConnects
  <1>13. ASSUME NEW t \in typings, typeText(t) PROVE ApartInv'
    BY <1>13, ApartTypes
  <1>14. ASSUME NEW readable \in BOOLEAN, typeClipboard(readable) PROVE ApartInv'
    <2>1. CASE readable
      BY <1>14, <2>1, ApartPastes
    <2>2. CASE ~readable
      BY <1>14, <2>2, ApartAside DEF typeClipboard
    <2> QED
      BY <2>1, <2>2
  <1>15. CASE RfbConnects
    <2> DEFINE s == [vnc.rfb EXCEPT !.conn = "connected"]
    <2>1. /\ vnc # None /\ vnc.rfb.conn \in Early
          /\ UNCHANGED <<resolving, typings, connections>>
      BY <1>15 DEF RfbConnects, Live, Early
    <2>2. VncShape(vnc') /\ vnc'.rfb = s
      BY <1>1, <1>15, <2>1 DEF RfbConnects, VncShape
    <2>3. RfbOK(vnc.rfb, typings, connections)
      BY <1>1, <2>1
    <2>4. /\ RfbShape(s) /\ s.id = vnc.rfb.id /\ s.auth = vnc.rfb.auth /\ s.shift = vnc.rfb.shift
          /\ s.got = vnc.rfb.got /\ s.pastes = vnc.rfb.pastes /\ s.creds \subseteq {s.auth, "typed"}
          /\ s.conn = "connected"
      BY <2>3 DEF RfbOK, RfbShape
    <2> HIDE DEF s
    <2> QED
      BY <2>1, <2>2, <2>4, ApartHandles
  <1>16. ASSUME NEW clean \in BOOLEAN, RfbDisconnects(clean) PROVE ApartInv'
    <2> DEFINE s == [vnc.rfb EXCEPT !.conn = "gone"]
    <2>1. vnc # None /\ UNCHANGED <<resolving, typings, connections>>
      BY <1>16 DEF RfbDisconnects, Live
    <2>2. VncShape(vnc') /\ vnc'.rfb = s /\ vnc'.state = "disconnected"
      BY <1>1, <1>16, <2>1 DEF RfbDisconnects, VncShape
    <2>3. RfbOK(vnc.rfb, typings, connections)
      BY <1>1, <2>1
    <2>4. /\ RfbShape(s) /\ s.id = vnc.rfb.id /\ s.auth = vnc.rfb.auth /\ s.shift = vnc.rfb.shift
          /\ s.got = vnc.rfb.got /\ s.pastes = vnc.rfb.pastes /\ s.creds \subseteq {s.auth, "typed"}
          /\ s.conn = "gone"
      BY <2>3 DEF RfbOK, RfbShape
    <2> HIDE DEF s
    <2> QED
      BY <2>1, <2>2, <2>4, ApartHandles
  <1>17. ASSUME NEW id \in late, LateDisconnect(id) PROVE ApartInv'
    <2> DEFINE s == vnc.rfb
    <2>1. vnc # None /\ UNCHANGED <<resolving, typings, connections>>
      BY <1>17 DEF LateDisconnect
    <2>2. VncShape(vnc') /\ vnc'.rfb = s /\ vnc'.state = "disconnected"
      BY <1>1, <1>17, <2>1 DEF LateDisconnect, VncShape
    <2>3. RfbShape(s) /\ s.creds \subseteq {s.auth, "typed"}
      BY <1>1, <2>1 DEF RfbOK
    <2> HIDE DEF s
    <2>4. /\ s.id = vnc.rfb.id /\ s.auth = vnc.rfb.auth /\ s.shift = vnc.rfb.shift
          /\ s.got = vnc.rfb.got /\ s.pastes = vnc.rfb.pastes /\ s.conn = vnc.rfb.conn
      BY DEF s
    <2> QED
      BY <2>1, <2>2, <2>3, <2>4, ApartHandles
  <1>18. CASE SecurityFailure
    <2> DEFINE s == [vnc.rfb EXCEPT !.conn = "rejected", !.specific = TRUE]
    <2>1. /\ vnc # None /\ vnc.rfb.conn \in Early /\ vnc.rfb.conn # "connected"
          /\ UNCHANGED <<resolving, typings, connections>>
      BY <1>18 DEF SecurityFailure, Live, Early
    <2>2. VncShape(vnc') /\ vnc'.rfb = s /\ vnc'.state = vnc.state
      BY <1>1, <1>18, <2>1 DEF SecurityFailure, VncShape
    <2>3. RfbOK(vnc.rfb, typings, connections) /\ vnc.state # "connected"
      BY <1>1, <2>1 DEF ApartInv
    <2>4. /\ RfbShape(s) /\ s.id = vnc.rfb.id /\ s.auth = vnc.rfb.auth /\ s.shift = vnc.rfb.shift
          /\ s.got = vnc.rfb.got /\ s.pastes = vnc.rfb.pastes /\ s.creds \subseteq {s.auth, "typed"}
          /\ s.conn = "rejected" /\ s.conn \in Early
      <3>1. RfbShape(vnc.rfb) /\ vnc.rfb.creds \subseteq {vnc.rfb.auth, "typed"}
        BY <2>3 DEF RfbOK
      <3> QED
        <4>1. s.creds = vnc.rfb.creds /\ s.auth = vnc.rfb.auth /\ s.conn = "rejected"
          BY <3>1 DEF RfbShape
        <4>2. /\ s.id = vnc.rfb.id /\ s.shift = vnc.rfb.shift
              /\ s.got = vnc.rfb.got /\ s.pastes = vnc.rfb.pastes
          BY <3>1 DEF RfbShape
        <4>3. ASSUME NEW v, v = s PROVE RfbShape(v)
          BY <3>1, <4>3 DEF RfbShape
        <4> HIDE DEF s
        <4>4. RfbShape(s) /\ s.creds \subseteq {s.auth, "typed"}
          BY <3>1, <4>1, <4>3
        <4> QED
          BY <4>1, <4>2, <4>4 DEF Early
    <2> HIDE DEF s
    <2> QED
      BY <2>1, <2>2, <2>3, <2>4, ApartHandles
  <1>19. ASSUME NEW only \in BOOLEAN, CredentialsRequired(only) PROVE ApartInv'
    <2> DEFINE s == vnc'.rfb
    <2>1. /\ vnc # None /\ vnc.rfb.conn = "opening" /\ UNCHANGED <<typings, connections>>
          /\ \A q \in resolving' : q \in resolving \/ (q.id = vnc.rfb.id /\ q.auth = vnc.rfb.auth)
      BY <1>19 DEF CredentialsRequired, Live
    <2>2. RfbOK(vnc.rfb, typings, connections) /\ vnc.state # "connected"
      BY <1>1, <2>1 DEF ApartInv
    <2>3. \/ vnc' = [vnc EXCEPT !.rfb.conn = "asking", !.prompt = @ \/ vnc.rfb.auth = None]
          \/ vnc' = [vnc EXCEPT !.rfb.conn = "asking", !.rfb.specific = TRUE]
      BY <1>19 DEF CredentialsRequired
    <2>4. /\ VncShape(vnc') /\ vnc'.state = vnc.state
          /\ \/ s = [vnc.rfb EXCEPT !.conn = "asking"]
             \/ s = [vnc.rfb EXCEPT !.conn = "asking", !.specific = TRUE]
      BY <1>1, <2>1, <2>3 DEF VncShape
    <2> HIDE DEF s
    <2>5. /\ RfbShape(s) /\ s.id = vnc.rfb.id /\ s.auth = vnc.rfb.auth /\ s.shift = vnc.rfb.shift
          /\ s.got = vnc.rfb.got /\ s.pastes = vnc.rfb.pastes /\ s.creds = vnc.rfb.creds
          /\ s.conn = "asking"
      BY <2>2, <2>4 DEF RfbOK, RfbShape
    <2>6. /\ vnc.rfb.conn \in Early /\ s.conn \in Early /\ s.creds \subseteq {s.auth, "typed"}
          /\ vnc'.rfb = s
      BY <2>1, <2>2, <2>5 DEF Early, RfbOK, s
    <2> QED
      BY <2>1, <2>2, <2>4, <2>5, <2>6, ApartHandles
  <1>20. ASSUME vnc # None, NEW password \in {vnc.rfb.auth, "typed"}, VncShape(vnc'),
                vnc'.rfb = Sent(vnc.rfb, password), vnc'.state = vnc.state,
                resolving' \subseteq resolving, UNCHANGED <<typings, connections>>
         PROVE  ApartInv'
    <2> DEFINE s == vnc'.rfb
    <2>1. RfbOK(vnc.rfb, typings, connections) /\ (vnc.state = "connected" => vnc.rfb.conn = "connected")
      BY <1>1, <1>20 DEF ApartInv
    <2>2. \/ s = vnc.rfb
          \/ s = [vnc.rfb EXCEPT !.creds = vnc.rfb.creds \cup {password},
                                 !.conn = IF vnc.rfb.conn = "asking" THEN "authorised"
                                                                     ELSE vnc.rfb.conn]
      BY <1>20 DEF Sent
    <2> HIDE DEF s
    <2>3. /\ RfbShape(s) /\ s.id = vnc.rfb.id /\ s.auth = vnc.rfb.auth /\ s.shift = vnc.rfb.shift
          /\ s.got = vnc.rfb.got /\ s.pastes = vnc.rfb.pastes
          /\ s.creds \subseteq vnc.rfb.creds \cup {password}
          /\ \/ s.conn = vnc.rfb.conn
             \/ vnc.rfb.conn = "asking" /\ s.conn = "authorised"
      BY <2>1, <2>2 DEF RfbOK, RfbShape
    <2>4. s.creds \subseteq {s.auth, "typed"} /\ vnc'.rfb = s
      BY <1>20, <2>1, <2>3 DEF RfbOK, s
    <2> QED
      BY <1>20, <2>1, <2>3, <2>4, ApartHandles DEF Early
  <1>21. ASSUME NEW q \in resolving, NEW ok \in BOOLEAN, PasswordResolved(q, ok) PROVE ApartInv'
    <2>1. resolving' \subseteq resolving /\ UNCHANGED <<typings, connections>>
      BY <1>21 DEF PasswordResolved
    <2>2. CASE vnc = None \/ vnc.rfb.id # q.id
      BY <1>21, <2>1, <2>2, ApartAside DEF PasswordResolved
    <2>3. CASE vnc # None /\ vnc.rfb.id = q.id /\ ok
      <3> DEFINE x == Sent(vnc.rfb, q.auth)
      <3>1. vnc' = [vnc EXCEPT !.rfb = x] /\ q.auth = vnc.rfb.auth
        BY <1>21, <2>3 DEF PasswordResolved, ApartInv
      <3> HIDE DEF x
      <3>2. VncShape(vnc') /\ vnc'.rfb = x /\ vnc'.state = vnc.state
        BY <1>1, <2>3, <3>1 DEF VncShape
      <3> QED
        BY <1>20, <2>1, <2>3, <3>1, <3>2 DEF x
    <2>4. CASE vnc # None /\ vnc.rfb.id = q.id /\ ~ok
      <3> DEFINE s == [vnc.rfb EXCEPT !.specific = TRUE]
      <3>1. VncShape(vnc') /\ vnc'.rfb = s /\ vnc'.state = vnc.state
        BY <1>1, <1>21, <2>4 DEF PasswordResolved, VncShape
      <3>2. /\ RfbOK(vnc.rfb, typings, connections)
            /\ vnc.state = "connected" => vnc.rfb.conn = "connected"
        BY <1>1, <2>4 DEF ApartInv
      <3>3. /\ RfbShape(s) /\ s.id = vnc.rfb.id /\ s.auth = vnc.rfb.auth
            /\ s.shift = vnc.rfb.shift /\ s.got = vnc.rfb.got /\ s.pastes = vnc.rfb.pastes
            /\ s.creds \subseteq {s.auth, "typed"} /\ s.conn = vnc.rfb.conn
        <4>1. RfbShape(vnc.rfb) /\ vnc.rfb.creds \subseteq {vnc.rfb.auth, "typed"}
          BY <3>2 DEF RfbOK
        <4> QED
          <5>1. s.creds = vnc.rfb.creds /\ s.auth = vnc.rfb.auth /\ s.conn = vnc.rfb.conn
            BY <4>1 DEF RfbShape
          <5>2. /\ s.id = vnc.rfb.id /\ s.shift = vnc.rfb.shift
                /\ s.got = vnc.rfb.got /\ s.pastes = vnc.rfb.pastes
            BY <4>1 DEF RfbShape
          <5>3. ASSUME NEW v, v = s PROVE RfbShape(v)
            BY <4>1, <5>3 DEF RfbShape
          <5> HIDE DEF s
          <5>4. RfbShape(s) /\ s.creds \subseteq {s.auth, "typed"}
            BY <4>1, <5>1, <5>3
          <5> QED
            BY <5>1, <5>2, <5>4
      <3> HIDE DEF s
      <3> QED
        BY <2>1, <2>4, <3>1, <3>2, <3>3, ApartHandles
    <2> QED
      BY <2>2, <2>3, <2>4
  <1>22. CASE submitManualPassword
    <2> DEFINE x == Sent(vnc.rfb, "typed")
    <2>1. /\ vnc # None /\ vnc' = [vnc EXCEPT !.prompt = FALSE, !.rfb = x]
          /\ UNCHANGED <<resolving, typings, connections>>
      BY <1>22 DEF submitManualPassword
    <2> HIDE DEF x
    <2>2. VncShape(vnc') /\ vnc'.rfb = x /\ vnc'.state = vnc.state
      BY <1>1, <2>1 DEF VncShape
    <2> QED
      BY <1>20, <2>1, <2>2 DEF x
  <1> QED
    BY <1>4, <1>5, <1>6, <1>7, <1>8, <1>9, <1>10, <1>11, <1>12, <1>13, <1>14, <1>15, <1>16, <1>17,
       <1>18, <1>19, <1>21, <1>22 DEF PodNext

\* A server is sent the password of its own endpoint or one typed for it, and
\* the text typed into it is the clipboard, whole pastes in a row, each with
\* Shift where it needs it, also when connections are replaced under way
\* (VncPodConsole.tsx: connect, typeClipboard, submitManualPassword).
THEOREM ServersKeptApart == PodSpec => []KeptApart
  <1>1. ApartInv => KeptApart
    <2> SUFFICES ASSUME ApartInv, vnc # None PROVE KeptApart
      BY DEF KeptApart
    <2>1. RfbOK(vnc.rfb, typings, connections)
      BY DEF ApartInv
    <2>2. DOMAIN vnc.rfb.got = 1..Len(vnc.rfb.got) /\ vnc.rfb.creds \subseteq {vnc.rfb.auth, "typed"}
      BY <2>1 DEF RfbOK
    <2>3. \A i \in 1..Len(vnc.rfb.got) :
            vnc.rfb.got[i] = ClipboardText[((i - 1) % Len(ClipboardText)) + 1]
      BY <2>1 DEF RfbOK, TextLen
    <2> QED
      BY <2>2, <2>3 DEF KeptApart
  <1> QED
    BY <1>1, ApartStarts, ApartInductive, PTL DEF PodSpec

-----------------------------------------------------------------------------
(* Losses and retries of a VNC console.                                     *)

\* What holds at m and is kept by every step up to n holds from m to n.
LEMMA UpTo ==
  ASSUME NEW m \in Nat, NEW n \in Nat, NEW S,
         m <= n => m \in S, \A k \in m..(n - 1) : k \in S => k + 1 \in S
  PROVE  m..n \subseteq S
  <1> DEFINE R == {p \in Nat \X Nat : p[1] < p[2]}
             B == (m..n) \ S
  <1>1. IsWellFoundedOn(R, Nat)
    <2>1. OpToRel(<, Nat) = R
      BY DEF OpToRel
    <2> QED
      BY <2>1, NatLessThanWellFounded, Zenon
  <1>2. ASSUME B # {} PROVE FALSE
    <2>1. B \subseteq Nat
      OBVIOUS
    <2> HIDE DEF R, B
    <2>2. PICK x \in B : \A y \in B : ~ (<<y, x>> \in R)
      BY <1>1, <1>2, <2>1, WFMin
    <2>3. x \in m..n /\ x \notin S /\ x # m
      BY DEF B
    <2>4. x - 1 \in m..(n - 1) /\ x - 1 \in Nat /\ x \in Nat /\ (x - 1) + 1 = x
      BY <2>3
    <2>5. <<x - 1, x>> \in R
      BY <2>4 DEF R
    <2>6. x - 1 \in S
      BY <2>2, <2>4, <2>5 DEF B
    <2> QED
      BY <2>3, <2>4, <2>6
  <1> QED
    BY <1>2

\* The backoff is doubled one time after the other.
LEMMA DoublingIs ==
  ASSUME NEW n \in Nat
  PROVE  LET r == Doubling(n)
         IN  /\ DOMAIN r = 0..n
             /\ r[0] = InitialBackoff
             /\ \A i \in 1..n : r[i] = 2 * r[i - 1]
  <1> DEFINE m == 0
             Start == InitialBackoff
             Round(f, k) == 2 * f[k - 1]
             Is(f, j) == f = [i \in m..j |-> IF i = m THEN Start ELSE Round(f, i)]
             S == {j \in m..n : \E f : Is(f, j)}
  <1>1. m \in Nat /\ n \in Nat /\ m <= n
    OBVIOUS
  <1>2. Doubling(n) = CHOOSE g : Is(g, n)
    BY Zenon DEF Doubling
  <1>3. m \in S
    <2> DEFINE f == [i \in m..m |-> Start]
    <2>1. Is(f, m)
      OBVIOUS
    <2> HIDE DEF f, Start, Round, m
    <2> QED
      BY <1>1, <2>1
  <1>4. ASSUME NEW k \in m..(n - 1), k \in S PROVE k + 1 \in S
    <2>1. PICK f : Is(f, k)
      BY <1>4
    <2> DEFINE g == [i \in m..(k + 1) |-> IF i <= k THEN f[i] ELSE Round(f, k + 1)]
    <2> HIDE DEF Start, m
    <2>2. Is(g, k + 1)
      <3>1. k \in Nat /\ m \in Nat /\ m <= k /\ k + 1 # m /\ (k + 1) - 1 = k
        BY <1>1
      <3>2. \A i \in m..k : g[i] = f[i]
        BY <3>1
      <3>3. \A i \in m..k : i # m => i - 1 \in m..k
        BY <3>1
      <3>4. \A i \in m..k : f[i] = IF i = m THEN Start ELSE Round(f, i)
        BY <2>1
      <3>5. \A i \in m..k : g[i] = IF i = m THEN Start ELSE Round(g, i)
        BY <3>2, <3>3, <3>4
      <3>6. g[k + 1] = Round(g, k + 1)
        BY <3>1, <3>2
      <3>7. g = [i \in m..(k + 1) |-> g[i]]
        OBVIOUS
      <3> HIDE DEF g, Round
      <3>8. \A i \in m..(k + 1) : g[i] = IF i = m THEN Start ELSE Round(g, i)
        BY <3>1, <3>5, <3>6
      <3> QED
        BY <3>7, <3>8
    <2> HIDE DEF g, Round
    <2>3. k + 1 \in m..n
      BY <1>1
    <2> QED
      BY <2>2, <2>3
  <1>5. Is(Doubling(n), n)
    <2> HIDE DEF m, Start, Round
    <2>1. n \in S
      <3> HIDE DEF S
      <3>1. m..n \subseteq S
        BY <1>1, <1>3, <1>4, UpTo
      <3> QED
        BY <1>1, <3>1
    <2>2. PICK f : Is(f, n)
      BY <2>1
    <2> QED
      BY <1>2, <2>2, Zenon
  <1> QED
    <2> HIDE DEF Start, Round, m
    <2>1. /\ DOMAIN Doubling(n) = m..n /\ Doubling(n)[m] = Start
          /\ \A k \in (m + 1)..n : Doubling(n)[k] = Round(Doubling(n), k)
      BY <1>1, <1>5
    <2> QED
      BY <2>1 DEF Start, Round, m

\* One doubling more.
LEMMA DoubledAgain ==
  ASSUME NEW n \in Nat
  PROVE  /\ Doubling(0)[0] = InitialBackoff /\ Doubling(n)[n] \in Nat
         /\ Doubling(n + 1)[n + 1] = 2 * Doubling(n)[n]
  <1> DEFINE f == Doubling(n)
             g == Doubling(n + 1)
             S == {i \in 0..n : g[i] = f[i] /\ f[i] \in Nat}
  <1>1. /\ f[0] = InitialBackoff /\ g[0] = InitialBackoff
        /\ \A i \in 1..n : f[i] = 2 * f[i - 1]
        /\ \A i \in 1..(n + 1) : g[i] = 2 * g[i - 1]
    BY DoublingIs
  <1>2. InitialBackoff \in Nat
    BY PodAssumption
  <1> HIDE DEF f, g
  <1>3. 0 \in S
    BY <1>1, <1>2
  <1>4. ASSUME NEW k \in 0..(n - 1), k \in S PROVE k + 1 \in S
    <2>1. k + 1 \in 1..n /\ k + 1 \in 1..(n + 1) /\ (k + 1) - 1 = k /\ k + 1 \in 0..n
      OBVIOUS
    <2>2. f[k + 1] = 2 * f[k] /\ g[k + 1] = 2 * g[k]
      BY <1>1, <2>1
    <2> QED
      BY <1>4, <2>1, <2>2
  <1>5. n \in S
    <2> HIDE DEF S
    <2>1. 0..n \subseteq S
      BY <1>3, <1>4, UpTo
    <2> QED
      BY <2>1
  <1>6. n + 1 \in 1..(n + 1) /\ (n + 1) - 1 = n
    OBVIOUS
  <1>7. g[n + 1] = 2 * f[n] /\ f[n] \in Nat
    BY <1>1, <1>5, <1>6
  <1> QED
    BY <1>7, DoublingIs DEF f, g

\* The backoff after n doublings.
Delay(n) == IF Doubling(n)[n] > MaxBackoff THEN MaxBackoff ELSE Doubling(n)[n]

\* The delay is doubled up to the largest one, and is a number.
LEMMA DelayIs ==
  ASSUME NEW n \in Nat
  PROVE  /\ Delay(0) = InitialBackoff /\ Delay(n) \in Nat /\ Delay(n) # None
         /\ Delay(n + 1) = IF Delay(n) * 2 > MaxBackoff THEN MaxBackoff ELSE Delay(n) * 2
  <1>1. InitialBackoff <= MaxBackoff /\ MaxBackoff \in Nat /\ None \notin Nat /\ InitialBackoff \in Nat
    BY PodAssumption
  <1>2. /\ Doubling(0)[0] = InitialBackoff /\ Doubling(n)[n] \in Nat
        /\ Doubling(n + 1)[n + 1] = 2 * Doubling(n)[n]
    BY DoubledAgain
  <1> DEFINE d == Doubling(n)[n]
             e == Doubling(n + 1)[n + 1]
             z == Doubling(0)[0]
  <1>3. d \in Nat /\ e = 2 * d /\ z = InitialBackoff
    BY <1>2
  <1>4. /\ Delay(n) = (IF d > MaxBackoff THEN MaxBackoff ELSE d)
        /\ Delay(n + 1) = (IF e > MaxBackoff THEN MaxBackoff ELSE e)
        /\ Delay(0) = (IF z > MaxBackoff THEN MaxBackoff ELSE z)
    BY DEF Delay
  <1> HIDE DEF d, e, z
  <1>5. Delay(n) \in Nat
    BY <1>1, <1>3, <1>4
  <1> QED
    BY <1>1, <1>3, <1>4, <1>5

\* A console that has connected knows how long to wait next by the losses it
\* counted; one that was lost is the only one that waits.
Retried(v) ==
  /\ v.lost \in Nat /\ v.hasConnected \in BOOLEAN
  /\ v.hasConnected => v.backoff = Delay(v.lost)
  /\ v.hasConnected \/ v.backoff = InitialBackoff
  /\ (v.timer # None) <=> (v.hasConnected /\ v.rfb.conn = "gone")
  /\ v.timer # None => v.lost > 0 /\ v.timer = Delay(v.lost - 1)
  /\ ~v.flipped => /\ (v.state = "connected") <=> (v.rfb.conn = "connected")
                   /\ (v.state = "disconnected") <=> (v.rfb.conn = "gone")

RetryInv == vnc # None => Retried(vnc)

\* A new attempt of a session.
LEMMA AttemptRetried ==
  ASSUME NEW v, VncShape(v), v.lost \in Nat, v.hasConnected \in BOOLEAN,
         v.hasConnected => v.backoff = Delay(v.lost), v.hasConnected \/ v.backoff = InitialBackoff,
         NEW id, NEW e
  PROVE  Retried(ConnectVnc(v, id, e))
  <1> DEFINE w == ConnectVnc(v, id, e)
             r == NewRfb(id, e)
  <1>1. r.conn = "opening"
    BY DEF NewRfb
  <1> HIDE DEF r
  <1>2. w = [v EXCEPT !.state = "connecting", !.prompt = FALSE, !.timer = None, !.rfb = r, !.flipped = FALSE]
    BY DEF ConnectVnc, r
  <1> HIDE DEF w
  <1>3. /\ w.lost = v.lost /\ w.hasConnected = v.hasConnected /\ w.backoff = v.backoff
        /\ w.timer = None /\ w.rfb = r /\ w.state = "connecting"
    BY <1>2 DEF VncShape
  <1>4. Retried(w)
    BY <1>1, <1>3 DEF Retried
  <1> QED
    BY <1>4 DEF w

\* A session that begins anew has lost nothing and waits the least.
LEMMA SessionBegins ==
  ASSUME NEW v, v = MountVnc \/ (VncShape(v) /\ v.lost = 0 /\ v.backoff = InitialBackoff /\ v.hasConnected \in BOOLEAN)
  PROVE  /\ VncShape(v) /\ v.lost \in Nat /\ v.hasConnected \in BOOLEAN
         /\ v.hasConnected => v.backoff = Delay(v.lost)
         /\ v.hasConnected \/ v.backoff = InitialBackoff
  <1>1. Delay(0) = InitialBackoff
    BY DelayIs
  <1>2. CASE v = MountVnc
    BY <1>2 DEF MountVnc, VncShape
  <1>3. CASE v # MountVnc
    BY <1>1, <1>3
  <1> QED
    BY <1>2, <1>3

\* What says nothing of connections and losses.
LEMMA RetryAside ==
  ASSUME RetryInv,
         vnc' # None =>
           /\ vnc # None
           /\ vnc'.state = vnc.state /\ vnc'.hasConnected = vnc.hasConnected
           /\ vnc'.backoff = vnc.backoff /\ vnc'.timer = vnc.timer /\ vnc'.lost = vnc.lost
           /\ vnc'.flipped = vnc.flipped
           /\ (vnc'.rfb.conn = "gone") <=> (vnc.rfb.conn = "gone")
           /\ (vnc'.rfb.conn = "connected") <=> (vnc.rfb.conn = "connected")
  PROVE  RetryInv'
  BY DEF RetryInv, Retried

\* The server accepts.
LEMMA RetryReached == RetryInv /\ ApartInv /\ RfbConnects => RetryInv'
  <1> SUFFICES ASSUME RetryInv, ApartInv, RfbConnects PROVE RetryInv'
    OBVIOUS
  <1>1. vnc # None /\ vnc.rfb.conn \in {"opening", "authorised"} /\ VncShape(vnc) /\ RfbShape(vnc.rfb)
    BY DEF RfbConnects, Live, ApartInv, RfbOK
  <1>2. /\ vnc'.state = "connected" /\ vnc'.hasConnected = TRUE /\ vnc'.backoff = InitialBackoff
        /\ vnc'.lost = 0 /\ vnc'.timer = vnc.timer /\ vnc'.rfb.conn = "connected"
    BY <1>1 DEF RfbConnects, VncShape, RfbShape
  <1>3. Delay(0) = InitialBackoff /\ vnc.timer = None
    BY <1>1, DelayIs DEF RetryInv, Retried
  <1>4. /\ vnc'.hasConnected \in BOOLEAN /\ vnc'.lost \in Nat
        /\ vnc'.hasConnected => vnc'.backoff = Delay(vnc'.lost)
        /\ vnc'.timer = None
    <2>1. vnc'.hasConnected \in BOOLEAN
      BY <1>2, Zenon
    <2>2. vnc'.backoff = Delay(vnc'.lost)
      <3> HIDE DEF Delay
      <3> QED
        BY <1>2, <1>3, Zenon
    <2>3. vnc'.lost \in Nat /\ vnc'.timer = None
      BY <1>2, <1>3
    <2> QED
      BY <2>1, <2>2, <2>3, Zenon
  <1>5. Retried(vnc')
    BY <1>2, <1>4 DEF Retried
  <1> QED
    BY <1>5 DEF RetryInv, Retried

\* The connection is lost.
LEMMA RetryLost ==
  ASSUME RetryInv, ApartInv, NEW clean \in BOOLEAN, RfbDisconnects(clean)
  PROVE  RetryInv'
  <1> DEFINE double == IF vnc.backoff * 2 > MaxBackoff THEN MaxBackoff ELSE vnc.backoff * 2
  <1>1. /\ vnc # None /\ vnc.rfb.conn # "gone" /\ VncShape(vnc) /\ RfbShape(vnc.rfb)
        /\ vnc.lost \in Nat /\ vnc.hasConnected \in BOOLEAN /\ vnc.timer = None
    BY DEF RfbDisconnects, Live, ApartInv, RfbOK, RetryInv, Retried
  <1>2. vnc' = [vnc EXCEPT !.state = "disconnected", !.rfb.conn = "gone", !.lost = @ + 1,
                           !.timer = IF vnc.hasConnected THEN vnc.backoff ELSE @,
                           !.backoff = IF vnc.hasConnected THEN double ELSE @]
    BY DEF RfbDisconnects
  <1> HIDE DEF double
  <1>3. /\ vnc'.state = "disconnected" /\ vnc'.hasConnected = vnc.hasConnected
        /\ vnc'.lost = vnc.lost + 1 /\ vnc'.rfb.conn = "gone"
        /\ vnc'.timer = (IF vnc.hasConnected THEN vnc.backoff ELSE vnc.timer)
        /\ vnc'.backoff = (IF vnc.hasConnected THEN double ELSE vnc.backoff)
    BY <1>1, <1>2 DEF VncShape, RfbShape
  <1>4. CASE vnc.hasConnected
    <2>1. vnc.backoff = Delay(vnc.lost)
      BY <1>1, <1>4 DEF RetryInv, Retried
    <2>2. double = Delay(vnc.lost + 1) /\ Delay(vnc.lost) # None
      BY <1>1, <2>1, DelayIs DEF double
    <2>3. vnc.lost + 1 \in Nat /\ vnc.lost + 1 > 0 /\ (vnc.lost + 1) - 1 = vnc.lost
      BY <1>1
    <2> QED
      BY <1>1, <1>3, <1>4, <2>1, <2>2, <2>3 DEF RetryInv, Retried
  <1>5. CASE ~vnc.hasConnected
    <2>1. vnc.backoff = InitialBackoff /\ vnc.lost + 1 \in Nat
      BY <1>1, <1>5 DEF RetryInv, Retried
    <2> QED
      BY <1>1, <1>3, <1>5, <2>1 DEF RetryInv, Retried
  <1> QED
    BY <1>4, <1>5

\* A session given up is heard of after all.
LEMMA RetryLate ==
  ASSUME RetryInv, ApartInv, NEW id \in late, LateDisconnect(id)
  PROVE  RetryInv'
  <1>1. /\ vnc # None /\ VncShape(vnc)
        /\ vnc' = [vnc EXCEPT !.state = "disconnected", !.flipped = TRUE]
    BY DEF LateDisconnect, ApartInv
  <1>2. /\ vnc'.flipped = TRUE /\ vnc'.hasConnected = vnc.hasConnected /\ vnc'.rfb = vnc.rfb
        /\ vnc'.backoff = vnc.backoff /\ vnc'.timer = vnc.timer /\ vnc'.lost = vnc.lost
    BY <1>1 DEF VncShape
  <1> QED
    BY <1>1, <1>2 DEF RetryInv, Retried

\* A password reaches a server that waits for one.
LEMMA RetrySent ==
  ASSUME NEW r, RfbShape(r), NEW password
  PROVE  /\ (Sent(r, password).conn = "gone") <=> (r.conn = "gone")
         /\ (Sent(r, password).conn = "connected") <=> (r.conn = "connected")
  <1>1. CASE r.conn = "gone"
    BY <1>1 DEF Sent
  <1>2. CASE r.conn # "gone"
    <2> DEFINE s == Sent(r, password)
    <2>1. s.conn = IF r.conn = "asking" THEN "authorised" ELSE r.conn
      BY <1>2 DEF Sent, RfbShape
    <2> QED
      BY <1>2, <2>1
  <1> QED
    BY <1>1, <1>2

\* Every step keeps count.
LEMMA RetryInductive == RetryInv /\ ApartInv /\ [PodNext]_podVars => RetryInv'
  <1> SUFFICES ASSUME RetryInv, ApartInv, [PodNext]_podVars PROVE RetryInv'
    OBVIOUS
  <1>1. vnc # None => VncShape(vnc) /\ RfbShape(vnc.rfb) /\ Retried(vnc)
    BY DEF ApartInv, RfbOK, RetryInv
  <1>2. ASSUME vnc' = vnc \/ vnc' = None PROVE RetryInv'
    BY <1>2, RetryAside
  <1>3. ASSUME NEW m, NEW e, ConnectTo(m, e) PROVE RetryInv'
    <2>1. CASE isVncEntry(e)
      <3> DEFINE v == IF vnc = None THEN MountVnc ELSE NewSession(vnc)
      <3>1. vnc' = ConnectVnc(v, connections', endpoint(m.announced, e))
        BY <1>3, <2>1 DEF ConnectTo
      <3>2. ASSUME vnc # None
            PROVE  /\ VncShape(NewSession(vnc)) /\ NewSession(vnc).lost = 0
                   /\ NewSession(vnc).backoff = InitialBackoff /\ NewSession(vnc).hasConnected \in BOOLEAN
        <4> DEFINE w == NewSession(vnc)
        <4>1. w = [vnc EXCEPT !.hasConnected = FALSE, !.backoff = InitialBackoff, !.lost = 0]
          BY DEF NewSession
        <4> HIDE DEF w
        <4>2. VncShape(w) /\ w.lost = 0 /\ w.backoff = InitialBackoff /\ w.hasConnected \in BOOLEAN
          BY <1>1, <3>2, <4>1 DEF VncShape
        <4> QED
          BY <4>2 DEF w
      <3>3. v = MountVnc \/ (VncShape(v) /\ v.lost = 0 /\ v.backoff = InitialBackoff /\ v.hasConnected \in BOOLEAN)
        BY <3>2
      <3> HIDE DEF v
      <3>4. Retried(ConnectVnc(v, connections', endpoint(m.announced, e)))
        BY <3>3, SessionBegins, AttemptRetried
      <3> QED
        BY <3>1, <3>4 DEF RetryInv, Retried
    <2>2. CASE ~isVncEntry(e)
      BY <1>2, <1>3, <2>2 DEF ConnectTo
    <2> QED
      BY <2>1, <2>2
  <1>4. CASE RetryTimer
    <2>1. vnc # None /\ vnc' = ConnectVnc(vnc, connections', endpoint(memo.announced, Active))
      BY <1>4 DEF RetryTimer
    <2>2. Retried(ConnectVnc(vnc, connections', endpoint(memo.announced, Active)))
      BY <1>1, <2>1, AttemptRetried DEF Retried
    <2> QED
      BY <2>1, <2>2 DEF RetryInv, Retried
  <1>5. CASE VncReconnect
    <2> DEFINE v == [vnc EXCEPT !.backoff = InitialBackoff, !.lost = 0]
    <2>1. vnc # None /\ vnc' = ConnectVnc(v, connections', endpoint(memo.announced, Active))
      BY <1>5 DEF VncReconnect
    <2>2. v = [vnc EXCEPT !.backoff = InitialBackoff, !.lost = 0]
      OBVIOUS
    <2> HIDE DEF v
    <2>3. VncShape(v) /\ v.lost = 0 /\ v.backoff = InitialBackoff /\ v.hasConnected \in BOOLEAN
      BY <1>1, <2>1, <2>2 DEF VncShape, Retried
    <2>4. Retried(ConnectVnc(v, connections', endpoint(memo.announced, Active)))
      BY <2>3, SessionBegins, AttemptRetried
    <2> QED
      BY <2>1, <2>4 DEF RetryInv, Retried
  <1>6. ASSUME NEW t \in typings, typeText(t) PROVE RetryInv'
    <2>1. CASE vnc = None
      BY <1>2, <1>6, <2>1 DEF typeText
    <2>2. CASE vnc # None
      <3>1. \/ vnc' = vnc
            \/ \E on : vnc' = [vnc EXCEPT !.rfb.shift = on]
            \/ \E got : vnc' = [vnc EXCEPT !.rfb.got = got]
        BY <1>6 DEF typeText
      <3>2. /\ vnc'.state = vnc.state /\ vnc'.hasConnected = vnc.hasConnected
            /\ vnc'.backoff = vnc.backoff /\ vnc'.timer = vnc.timer /\ vnc'.lost = vnc.lost
            /\ vnc'.flipped = vnc.flipped /\ vnc'.rfb.conn = vnc.rfb.conn
        BY <1>1, <2>2, <3>1 DEF VncShape, RfbShape
      <3> QED
        BY <2>2, <3>2, RetryAside
    <2> QED
      BY <2>1, <2>2
  <1>7. ASSUME NEW readable \in BOOLEAN, typeClipboard(readable) PROVE RetryInv'
    <2>1. vnc # None /\ (vnc' = vnc \/ vnc' = [vnc EXCEPT !.rfb.pastes = vnc.rfb.pastes + 1])
      BY <1>7 DEF typeClipboard
    <2>2. /\ vnc'.state = vnc.state /\ vnc'.hasConnected = vnc.hasConnected
          /\ vnc'.backoff = vnc.backoff /\ vnc'.timer = vnc.timer /\ vnc'.lost = vnc.lost
          /\ vnc'.flipped = vnc.flipped /\ vnc'.rfb.conn = vnc.rfb.conn
      BY <1>1, <2>1 DEF VncShape, RfbShape
    <2> QED
      BY <2>1, <2>2, RetryAside
  <1>8. CASE SecurityFailure
    <2>1. /\ vnc # None /\ vnc.rfb.conn \in {"opening", "authorised"}
          /\ vnc' = [vnc EXCEPT !.rfb.conn = "rejected", !.rfb.specific = TRUE]
      BY <1>8 DEF SecurityFailure, Live
    <2>2. /\ vnc'.state = vnc.state /\ vnc'.hasConnected = vnc.hasConnected
          /\ vnc'.backoff = vnc.backoff /\ vnc'.timer = vnc.timer /\ vnc'.lost = vnc.lost
          /\ vnc'.flipped = vnc.flipped /\ vnc'.rfb.conn = "rejected"
      BY <1>1, <2>1 DEF VncShape, RfbShape
    <2> QED
      BY <2>1, <2>2, RetryAside
  <1>9. ASSUME NEW only \in BOOLEAN, CredentialsRequired(only) PROVE RetryInv'
    <2>1. /\ vnc # None /\ vnc.rfb.conn = "opening"
          /\ \/ vnc' = [vnc EXCEPT !.rfb.conn = "asking", !.prompt = @ \/ vnc.rfb.auth = None]
             \/ vnc' = [vnc EXCEPT !.rfb.conn = "asking", !.rfb.specific = TRUE]
      BY <1>9 DEF CredentialsRequired, Live
    <2>2. /\ vnc'.state = vnc.state /\ vnc'.hasConnected = vnc.hasConnected
          /\ vnc'.backoff = vnc.backoff /\ vnc'.timer = vnc.timer /\ vnc'.lost = vnc.lost
          /\ vnc'.flipped = vnc.flipped /\ vnc'.rfb.conn = "asking"
      BY <1>1, <2>1 DEF VncShape, RfbShape
    <2> QED
      BY <2>1, <2>2, RetryAside
  <1>10. ASSUME NEW q \in resolving, NEW ok \in BOOLEAN, PasswordResolved(q, ok) PROVE RetryInv'
    <2>1. CASE vnc = None \/ vnc.rfb.id # q.id
      BY <1>2, <1>10, <2>1 DEF PasswordResolved
    <2>2. CASE vnc # None /\ vnc.rfb.id = q.id
      <3> DEFINE r == Sent(vnc.rfb, q.auth)
      <3>1. \/ vnc' = [vnc EXCEPT !.rfb = r]
            \/ vnc' = [vnc EXCEPT !.rfb.specific = TRUE, !.prompt = TRUE]
        BY <1>10, <2>2 DEF PasswordResolved
      <3>2. ((r.conn = "gone") <=> (vnc.rfb.conn = "gone")) /\ ((r.conn = "connected") <=> (vnc.rfb.conn = "connected"))
        BY <1>1, <2>2, RetrySent
      <3> HIDE DEF r
      <3>3. /\ vnc'.state = vnc.state /\ vnc'.hasConnected = vnc.hasConnected
            /\ vnc'.backoff = vnc.backoff /\ vnc'.timer = vnc.timer /\ vnc'.lost = vnc.lost
            /\ vnc'.flipped = vnc.flipped /\ vnc'.rfb.conn \in {r.conn, vnc.rfb.conn}
        BY <1>1, <2>2, <3>1 DEF VncShape, RfbShape
      <3> QED
        BY <2>2, <3>2, <3>3, RetryAside
    <2> QED
      BY <2>1, <2>2
  <1>11. CASE submitManualPassword
    <2> DEFINE r == Sent(vnc.rfb, "typed")
    <2>1. vnc # None /\ vnc' = [vnc EXCEPT !.prompt = FALSE, !.rfb = r]
      BY <1>11 DEF submitManualPassword
    <2>2. ((r.conn = "gone") <=> (vnc.rfb.conn = "gone")) /\ ((r.conn = "connected") <=> (vnc.rfb.conn = "connected"))
      BY <1>1, <2>1, RetrySent
    <2> HIDE DEF r
    <2>3. /\ vnc'.state = vnc.state /\ vnc'.hasConnected = vnc.hasConnected
          /\ vnc'.backoff = vnc.backoff /\ vnc'.timer = vnc.timer /\ vnc'.lost = vnc.lost
          /\ vnc'.flipped = vnc.flipped /\ vnc'.rfb.conn = r.conn
      BY <1>1, <2>1 DEF VncShape
    <2> QED
      BY <2>1, <2>2, <2>3, RetryAside
  <1>12. CASE UNCHANGED podVars
    BY <1>2, <1>12 DEF podVars, vncVars
  <1>13. ASSUME NEW p \in Pods, OpenTab(p) PROVE RetryInv'
    BY <1>3, <1>13 DEF OpenTab
  <1>14. ASSUME NEW i \in 1..(IF pod = None THEN 0 ELSE Len(memo.entries)), Select(i) PROVE RetryInv'
    BY <1>3, <1>14 DEF Select
  <1>15. CASE CloseTab
    BY <1>2, <1>15 DEF CloseTab
  <1>16. CASE PodStops \/ ExecOpens \/ ExecStreamError \/ reconnect
    BY <1>2, <1>16 DEF PodStops, ExecOpens, ExecStreamError, reconnect, vncVars
  <1>17. ASSUME NEW b \in BOOLEAN, ExecData(b) \/ ExecCloses(b) \/ TerminalOpens(b) PROVE RetryInv'
    BY <1>2, <1>17 DEF ExecData, ExecCloses, TerminalOpens, vncVars
  <1>18. ASSUME NEW w \in Sizes, Resize(w) PROVE RetryInv'
    BY <1>2, <1>18 DEF Resize, vncVars
  <1> QED
    BY <1>4, <1>5, <1>6, <1>7, <1>8, <1>9, <1>10, <1>11, <1>12, <1>13, <1>14, <1>15, <1>16, <1>17,
       <1>18, RetryReached, RetryLost, RetryLate DEF PodNext

\* What the tab shows as a session works: a shell takes input at the size of its
\* panel, and a console that was lost is tried again after the backoff its
\* losses in a row give it, and no other is (VncPodConsole.tsx: connect, the
\* disconnect handler, the timer).
THEOREM SessionsKeepWorking == PodSpec => []SessionsWork
  <1>1. PodInit => RetryInv
    BY DEF PodInit, RetryInv
  <1>2. RetryInv => VncRetried
    BY DEF RetryInv, Retried, VncRetried, Delay
  <1>3. PodSpec => []RetryInv
    BY <1>1, ApartStarts, ApartInductive, RetryInductive, PTL DEF PodSpec
  <1> QED
    BY <1>2, <1>3, ShellsUsable, PTL DEF SessionsWork

-----------------------------------------------------------------------------
(* The endpoints a pod announces, and the dropdown built from them.         *)

\* The least of numbers.
LEMMA LeastIs ==
  ASSUME NEW H \in SUBSET Nat, H # {}
  PROVE  LET m == CHOOSE i \in H : \A j \in H : i <= j
         IN  m \in H /\ \A j \in H : m <= j
  <1> DEFINE R == {p \in Nat \X Nat : p[1] < p[2]}
  <1>1. IsWellFoundedOn(R, Nat)
    <2>1. OpToRel(<, Nat) = R
      BY DEF OpToRel
    <2> QED
      BY <2>1, NatLessThanWellFounded, Zenon
  <1> HIDE DEF R
  <1>2. PICK x \in H : \A y \in H : ~ (<<y, x>> \in R)
    BY <1>1, WFMin
  <1>3. \A y \in H : x <= y
    <2> TAKE y \in H
    <2>1. x \in Nat /\ y \in Nat /\ ~ (y < x)
      BY <1>2 DEF R
    <2> QED
      BY <2>1
  <1> QED
    BY <1>3

\* The first hit in a sequence.
LEMMA HitIs ==
  ASSUME NEW n \in Nat, NEW H \in SUBSET (1..n)
  PROVE  LET i == IF H = {} THEN 0 ELSE CHOOSE i \in H : \A j \in H : i <= j
         IN  /\ H = {} => i = 0
             /\ H # {} => i \in H /\ i # 0 /\ \A j \in H : i <= j
  <1>1. H \in SUBSET Nat
    OBVIOUS
  <1>2. CASE H = {}
    BY <1>2
  <1>3. CASE H # {}
    <2>1. 0 \notin H
      OBVIOUS
    <2> QED
      BY <1>1, <1>3, <2>1, LeastIs
  <1> QED
    BY <1>2, <1>3

\* Priorities order connections, none before itself.
LEMMA BeforeOrders ==
  ASSUME NEW cs, NEW n \in Nat, \A i \in 1..n : cs[i].priority \in Int \cup {None}
  PROVE  /\ \A i \in 1..n : ~Before(cs, i, i)
         /\ \A i, j \in 1..n : i # j => Before(cs, i, j) \/ Before(cs, j, i)
         /\ \A i, j, k \in 1..n : Before(cs, i, j) /\ Before(cs, j, k) => Before(cs, i, k)
  <1>1. None \notin Int
    BY PodsAssumption
  <1> DEFINE pr(i) == cs[i].priority
             First(i, j) == \/ (pr(i) = pr(j) /\ i < j)
                            \/ (pr(i) # pr(j) /\ pr(i) # None /\ (pr(j) = None \/ pr(i) < pr(j)))
  <1>2. \A i, j : Before(cs, i, j) <=> First(i, j)
    BY DEF Before
  <1>3. \A i \in 1..n : pr(i) \in Int \cup {None} /\ i \in Int
    OBVIOUS
  <1> HIDE DEF pr
  <1>4. \A i \in 1..n : ~First(i, i)
    BY <1>3
  <1>5. \A i, j \in 1..n : i # j => First(i, j) \/ First(j, i)
    BY <1>1, <1>3
  <1>6. \A i, j, k \in 1..n : First(i, j) /\ First(j, k) => First(i, k)
    BY <1>1, <1>3
  <1> QED
    BY <1>2, <1>4, <1>5, <1>6

\* Order f of the n connections cs is that of the dropdown, and has each once.
Sorts(f, cs, n) ==
  /\ f \in [1..n -> 1..n]
  /\ \A k \in 1..n : sortByPriority(cs)[k] = cs[f[k]]
  /\ \A k, l \in 1..n : k < l => Before(cs, f[k], f[l])
  /\ \A k, l \in 1..n : f[k] = f[l] => k = l

\* The dropdown's order: all connections, each once, sorted.
LEMMA Sorted ==
  ASSUME NEW cs, NEW n \in Nat, DOMAIN cs = 1..n,
         \A i \in 1..n : cs[i].priority \in Int \cup {None}
  PROVE  DOMAIN sortByPriority(cs) = 1..n /\ \E f : Sorts(f, cs, n)
  <1> DEFINE all == DOMAIN cs
             Lower(i) == {j \in all : Before(cs, j, i)}
             rank == [i \in all |-> Cardinality(Lower(i))]
             f == [k \in all |-> CHOOSE i \in all : Cardinality(Lower(i)) = k - 1]
  <1>0. all = 1..n
    OBVIOUS
  <1>1. IsFiniteSet(all) /\ Cardinality(all) = n
    BY FS_Interval
  <1>2. \A i \in all : Lower(i) \subseteq all \ {i}
    BY BeforeOrders
  <1>3. \A i \in all : IsFiniteSet(all \ {i}) /\ Cardinality(all \ {i}) = n - 1
    BY <1>1, FS_RemoveElement
  <1>4. \A i \in all : IsFiniteSet(Lower(i)) /\ Cardinality(Lower(i)) \in 0..(n - 1)
    <2> TAKE i \in all
    <2>1. Lower(i) \in SUBSET (all \ {i})
      BY <1>2
    <2> DEFINE S == all \ {i}
               T == Lower(i)
    <2>2. IsFiniteSet(S) /\ Cardinality(S) = n - 1 /\ T \in SUBSET S
      BY <1>3, <2>1
    <2> HIDE DEF S, T
    <2>3. IsFiniteSet(T) /\ Cardinality(T) <= n - 1
      BY <2>2, FS_Subset
    <2>4. Cardinality(T) \in Nat
      BY <2>3, FS_CardinalityType
    <2> QED
      BY <2>3, <2>4 DEF T
  <1>5. \A i, j \in all : Before(cs, i, j) => rank[i] < rank[j]
    <2> SUFFICES ASSUME NEW i \in all, NEW j \in all, Before(cs, i, j) PROVE rank[i] < rank[j]
      OBVIOUS
    <2>1. Lower(i) \subseteq Lower(j) /\ i \in Lower(j) /\ i \notin Lower(i)
      BY BeforeOrders
    <2> HIDE DEF Lower
    <2>2. Cardinality(Lower(i)) <= Cardinality(Lower(j)) /\ Cardinality(Lower(j)) # Cardinality(Lower(i))
      BY <1>4, <2>1, FS_Subset
    <2> QED
      BY <1>4, <2>2
  <1>6. \A i, j \in all : rank[i] = rank[j] => i = j
    <2> SUFFICES ASSUME NEW i \in all, NEW j \in all, i # j PROVE rank[i] # rank[j]
      OBVIOUS
    <2>1. Before(cs, i, j) \/ Before(cs, j, i)
      BY BeforeOrders
    <2>2. rank[i] \in Nat /\ rank[j] \in Nat
      <3> HIDE DEF Lower
      <3> QED
        BY <1>4
    <2> HIDE DEF rank
    <2> QED
      BY <1>5, <2>1, <2>2
  <1>7. \A k \in all : \E i \in all : rank[i] = k - 1
    <2> DEFINE T == 0..(n - 1)
    <2>1. rank \in [all -> T]
      BY <1>4
    <2>2. IsFiniteSet(T) /\ Cardinality(T) = n
      <3>1. 0 \in Int /\ n - 1 \in Int
        OBVIOUS
      <3>2. IsFiniteSet(T) /\ Cardinality(T) = IF 0 > n - 1 THEN 0 ELSE (n - 1) - 0 + 1
        BY <3>1, FS_Interval
      <3> QED
        BY <3>2
    <2>3. \A k \in all : k - 1 \in T
      BY <1>0
    <2> HIDE DEF rank, all, T
    <2>4. rank \in Injection(all, T)
      BY <1>6, <2>1 DEF Injection, IsInjective
    <2>5. rank \in Surjection(all, T)
      BY <1>1, <2>2, <2>4, FS_Injection
    <2> QED
      BY <2>3, <2>5 DEF Surjection
  <1>8. f \in [all -> all] /\ \A k \in all : rank[f[k]] = k - 1
    <2> HIDE DEF Lower
    <2> QED
      BY <1>7
  <1> HIDE DEF rank
  <1>9. ASSUME NEW k \in all, NEW l \in all, k < l PROVE Before(cs, f[k], f[l])
    <2>1. f[k] \in all /\ f[l] \in all /\ rank[f[k]] = k - 1 /\ rank[f[l]] = l - 1
      BY <1>8
    <2> HIDE DEF f
    <2>2. f[k] # f[l] /\ ~ (rank[f[l]] < rank[f[k]])
      BY <1>9, <2>1
    <2> QED
      BY <1>5, <2>1, <2>2, BeforeOrders
  <1>10. /\ DOMAIN sortByPriority(cs) = all
         /\ \A k \in all : sortByPriority(cs)[k] = cs[f[k]]
    BY DEF sortByPriority
  <1> HIDE DEF f
  <1>11. ASSUME NEW k \in all, NEW l \in all, f[k] = f[l] PROVE k = l
    <2>1. k - 1 = l - 1
      BY <1>8, <1>11
    <2>2. k \in 1..n /\ l \in 1..n
      BY <1>0
    <2> QED
      BY <2>1, <2>2
  <1> QED
    <2>1. Sorts(f, cs, n)
      BY <1>0, <1>8, <1>9, <1>10, <1>11 DEF Sorts
    <2> QED
      BY <1>0, <1>10, <2>1

\* What the endpoints of an annotation have announced, one after the other.
LEMMA AnnouncedIs ==
  ASSUME NEW p, NEW n \in Nat, n = Len(p.endpoints)
  PROVE  /\ Announced(p)[0] = <<>>
         /\ \A i \in 1..n : Announced(p)[i] = AddConnection(p, Announced(p)[i - 1], p.endpoints[i])
  <1> DEFINE m == 0
             Start == <<>>
             Round(f, k) == AddConnection(p, f[k - 1], p.endpoints[k])
             Is(f, j) == f = [i \in m..j |-> IF i = m THEN Start ELSE Round(f, i)]
             S == {j \in m..n : \E f : Is(f, j)}
  <1>1. m \in Nat /\ n \in Nat /\ m <= n
    OBVIOUS
  <1>2. Announced(p) = CHOOSE g : Is(g, n)
    BY Zenon DEF Announced
  <1>3. m \in S
    <2> DEFINE f == [i \in m..m |-> Start]
    <2>1. Is(f, m)
      OBVIOUS
    <2> HIDE DEF f, Start, Round, m
    <2> QED
      BY <1>1, <2>1
  <1>4. ASSUME NEW k \in m..(n - 1), k \in S PROVE k + 1 \in S
    <2>1. PICK f : Is(f, k)
      BY <1>4
    <2> DEFINE g == [i \in m..(k + 1) |-> IF i <= k THEN f[i] ELSE Round(f, k + 1)]
    <2> HIDE DEF Start, m
    <2>2. Is(g, k + 1)
      <3>1. k \in Nat /\ m \in Nat /\ m <= k /\ k + 1 # m /\ (k + 1) - 1 = k
        BY <1>1
      <3>2. \A i \in m..k : g[i] = f[i]
        BY <3>1
      <3>3. \A i \in m..k : i # m => i - 1 \in m..k
        BY <3>1
      <3>4. \A i \in m..k : f[i] = IF i = m THEN Start ELSE Round(f, i)
        BY <2>1
      <3>5. \A i \in m..k : g[i] = IF i = m THEN Start ELSE Round(g, i)
        BY <3>2, <3>3, <3>4
      <3>6. g[k + 1] = Round(g, k + 1)
        BY <3>1, <3>2
      <3>7. g = [i \in m..(k + 1) |-> g[i]]
        OBVIOUS
      <3> HIDE DEF g, Round
      <3>8. \A i \in m..(k + 1) : g[i] = IF i = m THEN Start ELSE Round(g, i)
        BY <3>1, <3>5, <3>6
      <3> QED
        BY <3>7, <3>8
    <2> HIDE DEF g, Round
    <2>3. k + 1 \in m..n
      BY <1>1
    <2> QED
      BY <2>2, <2>3
  <1>5. Is(Announced(p), n)
    <2> HIDE DEF m, Start, Round
    <2>1. n \in S
      <3> HIDE DEF S
      <3>1. m..n \subseteq S
        BY <1>1, <1>3, <1>4, UpTo
      <3> QED
        BY <1>1, <3>1
    <2>2. PICK f : Is(f, n)
      BY <2>1
    <2> QED
      BY <1>2, <2>2, Zenon
  <1> QED
    <2> HIDE DEF Start, Round, m
    <2>1. /\ Announced(p)[m] = Start
          /\ \A k \in (m + 1)..n : Announced(p)[k] = Round(Announced(p), k)
      BY <1>1, <1>5
    <2> QED
      BY <2>1 DEF Start, Round, m

\* Connections of pod p: each to a container of its own, no port twice.
ConnectionType(p) ==
  [container : ContainerNames(p), port : Nat, auth : Auths, priority : Int \cup {None}]

Connects(p, cs) ==
  /\ cs \in Seq(ConnectionType(p))
  /\ \A i, j \in 1..Len(cs) : cs[i].port = cs[j].port => i = j

\* One endpoint adds a connection or none.
LEMMA EndpointAdds ==
  ASSUME NEW p \in Pods, NEW cs, Connects(p, cs), NEW k \in DOMAIN p.endpoints
  PROVE  Connects(p, AddConnection(p, cs, p.endpoints[k]))
  <1> DEFINE e == p.endpoints[k]
             port == parsePort(e.port)
             T == ConnectionType(p)
             c == [container |-> e.container, port |-> port, auth |-> e.auth, priority |-> e.priority]
             claimed == {d.port : d \in Range(cs)}
  <1>1. port \in Nat \cup {None}
    BY PodsAssumption DEF parsePort, DefaultVncPort
  <1>2. e.auth \in Auths /\ e.priority \in Int \cup {None}
    <2>1. e \in Range(p.endpoints)
      BY DEF Range
    <2> QED
      BY <2>1, PodsAssumption DEF Auths
  <1>3. CASE e.container \notin ContainerNames(p) \/ port = None \/ port \in claimed
    BY <1>3 DEF AddConnection
  <1>4. CASE e.container \in ContainerNames(p) /\ port # None /\ port \notin claimed
    <2>1. AddConnection(p, cs, e) = Append(cs, c)
      BY <1>4 DEF AddConnection
    <2>2. c \in T
      <3> HIDE DEF port, e
      <3> QED
        BY <1>1, <1>2, <1>4 DEF ConnectionType
    <2>3. cs \in Seq(T) /\ \A i, j \in 1..Len(cs) : cs[i].port = cs[j].port => i = j
      BY DEF Connects
    <2>4. \A i \in 1..Len(cs) : cs[i].port # c.port
      <3>1. DOMAIN cs = 1..Len(cs)
        BY <2>3
      <3>2. \A i \in 1..Len(cs) : cs[i].port \in claimed
        BY <3>1 DEF Range
      <3> HIDE DEF claimed, port
      <3> QED
        BY <1>4, <3>2
    <2> HIDE DEF T, c, port, claimed
    <2>5. /\ Append(cs, c) \in Seq(T) /\ Len(Append(cs, c)) = Len(cs) + 1
          /\ Append(cs, c)[Len(cs) + 1] = c
          /\ \A i \in 1..Len(cs) : Append(cs, c)[i] = cs[i]
      BY <2>2, <2>3, AppendProperties
    <2>6. Len(cs) \in Nat
      BY <2>3
    <2> QED
      BY <2>1, <2>3, <2>4, <2>5, <2>6 DEF Connects, T
  <1> QED
    BY <1>3, <1>4

\* The connections of a pod.
LEMMA ConnectionsAre ==
  ASSUME NEW p \in Pods
  PROVE  Connects(p, vncConnections(p))
  <1> DEFINE T == ConnectionType(p)
  <1>1. Connects(p, <<>>)
    BY DEF Connects
  <1>2. CASE ~p.vnc \/ p.form = "malformed"
    BY <1>1, <1>2 DEF vncConnections
  <1>3. CASE p.vnc /\ p.form = "absent"
    <2> DEFINE c == [container |-> p.containers[1], port |-> DefaultVncPort, auth |-> None, priority |-> None]
    <2>1. c \in T
      <3>1. p.containers[1] \in ContainerNames(p)
        <4>1. p.containers \in Seq(Range(p.containers)) /\ p.containers # <<>>
          BY PodsAssumption
        <4> DEFINE s == p.containers
                   R == Range(p.containers)
        <4> HIDE DEF s, R
        <4>2. s \in Seq(R) /\ s # <<>>
          BY <4>1 DEF s, R
        <4>3. 1 \in 1..Len(s)
          BY <4>2
        <4>4. s[1] \in R
          BY <4>2, <4>3
        <4> QED
          BY <4>4 DEF s, R, ContainerNames
      <3> QED
        BY <3>1 DEF ConnectionType, DefaultVncPort, Auths
    <2>2. vncConnections(p) = <<c>>
      BY <1>3 DEF vncConnections
    <2> HIDE DEF c, T
    <2>3. <<c>> \in Seq(T) /\ Len(<<c>>) = 1
      BY <2>1
    <2> QED
      BY <2>2, <2>3 DEF Connects, T
  <1>4. CASE p.vnc /\ p.form # "absent" /\ p.form # "malformed"
    <2> DEFINE n == Len(p.endpoints)
               S == {i \in 0..n : Connects(p, Announced(p)[i])}
    <2>1. n \in Nat /\ DOMAIN p.endpoints = 1..n
      BY PodsAssumption
    <2>2. vncConnections(p) = Announced(p)[n]
      BY <1>4 DEF vncConnections
    <2>3. /\ Announced(p)[0] = <<>>
          /\ \A i \in 1..n : Announced(p)[i] = AddConnection(p, Announced(p)[i - 1], p.endpoints[i])
      BY <2>1, AnnouncedIs
    <2> HIDE DEF n
    <2>4. 0 \in S
      BY <1>1, <2>1, <2>3
    <2>5. ASSUME NEW k \in 0..(n - 1), k \in S PROVE k + 1 \in S
      <3>1. k + 1 \in 1..n /\ k + 1 \in 0..n /\ (k + 1) - 1 = k
        BY <2>1
      <3>2. Announced(p)[k + 1] = AddConnection(p, Announced(p)[k], p.endpoints[k + 1])
        BY <2>3, <3>1
      <3>3. Connects(p, AddConnection(p, Announced(p)[k], p.endpoints[k + 1]))
        BY <2>1, <2>5, <3>1, EndpointAdds
      <3> QED
        BY <3>1, <3>2, <3>3
    <2>6. n \in S
      <3> HIDE DEF S
      <3>1. 0..n \subseteq S
        BY <2>1, <2>4, <2>5, UpTo
      <3> QED
        BY <2>1, <3>1
    <2> QED
      BY <2>2, <2>6
  <1> QED
    BY <1>2, <1>3, <1>4

\* Entry e of the dropdown is that of connection c.
Offers(e, c) == e.value[2] = c.port /\ e.container = c.container

\* The dropdown of a pod: it is not empty, no two entries are the same, and each
\* is a shell or one of the pod's connections.
LEMMA EntriesAre ==
  ASSUME NEW p \in Pods, NEW cs, Connects(p, cs)
  PROVE  LET E == allEntries(p, cs)
         IN  /\ Len(E) \in Nat \ {0} /\ DOMAIN E = 1..Len(E)
             /\ \A i, j \in 1..Len(E) : E[i].value = E[j].value => i = j
             /\ \A i \in 1..Len(E) : isVncEntry(E[i]) => \E m \in DOMAIN cs : Offers(E[i], cs[m])
  <1> DEFINE n == Len(cs)
             T == ConnectionType(p)
             sorted == sortByPriority(cs)
             names == p.containers
             k == Len(names)
             A == [i \in DOMAIN sorted |-> [value |-> <<"vnc", sorted[i].port>>, container |-> sorted[i].container]]
             B == [i \in DOMAIN names |-> [value |-> <<"terminal", names[i]>>, container |-> names[i]]]
             E == allEntries(p, cs)
  <1>1. /\ n \in Nat /\ DOMAIN cs = 1..n /\ \A i \in 1..n : cs[i] \in T
        /\ \A i, j \in 1..n : cs[i].port = cs[j].port => i = j
    BY DEF Connects
  <1>2. /\ k \in Nat \ {0} /\ DOMAIN names = 1..k
        /\ \A i, j \in 1..k : names[i] = names[j] => i = j
    <2>1. names \in Seq(Range(names)) /\ names # <<>>
      BY PodsAssumption
    <2> DEFINE R == Range(names)
    <2> HIDE DEF R, names
    <2>2. k \in Nat /\ k # 0 /\ DOMAIN names = 1..k
      BY <2>1, EmptySeq DEF R
    <2> QED
      BY <2>2, PodsAssumption DEF names
  <1>3. E = A \o B
    BY DEF allEntries
  <1>4. PICK f \in [1..n -> 1..n] :
              /\ \A i \in 1..n : sorted[i] = cs[f[i]]
              /\ \A i, j \in 1..n : f[i] = f[j] => i = j
    <2>1. \A i \in 1..n : cs[i].priority \in Int \cup {None}
      BY <1>1 DEF ConnectionType
    <2>2. PICK f : Sorts(f, cs, n)
      <3> HIDE DEF n
      <3> QED
        BY <1>1, <2>1, Sorted
    <2> QED
      BY <2>2 DEF Sorts
  <1>5. DOMAIN sorted = 1..n
    <2>1. \A i \in 1..n : cs[i].priority \in Int \cup {None}
      BY <1>1 DEF ConnectionType
    <2> QED
      BY <1>1, <2>1, Sorted
  <1> HIDE DEF sorted, names, n, k, T
  <1>6. /\ DOMAIN A = 1..n /\ DOMAIN B = 1..k
        /\ \A i \in 1..n : A[i] = [value |-> <<"vnc", cs[f[i]].port>>, container |-> cs[f[i]].container]
        /\ \A i \in 1..k : B[i] = [value |-> <<"terminal", names[i]>>, container |-> names[i]]
    BY <1>2, <1>4, <1>5
  <1> HIDE DEF A, B, E
  <1>7. /\ Len(E) = n + k /\ DOMAIN E = 1..(n + k)
        /\ \A i \in 1..n : E[i] = A[i]
        /\ \A i \in (n + 1)..(n + k) : E[i] = B[i - n]
    <2> DEFINE S == {A[i] : i \in 1..n} \cup {B[i] : i \in 1..k}
    <2>1. A = [i \in 1..n |-> A[i]] /\ B = [i \in 1..k |-> B[i]]
      BY <1>6 DEF A, B
    <2>2. \A i \in 1..n : A[i] \in S
      OBVIOUS
    <2>3. \A i \in 1..k : B[i] \in S
      OBVIOUS
    <2> HIDE DEF S
    <2>4. A \in [1..n -> S] /\ B \in [1..k -> S]
      BY <2>1, <2>2, <2>3
    <2>5. A \in Seq(S) /\ B \in Seq(S)
      BY <1>1, <1>2, <2>4
    <2>6. Len(A) = n /\ Len(B) = k
      BY <1>1, <1>2, <1>6, <2>5
    <2>7. E \in Seq(S) /\ Len(E) = n + k
      BY <1>3, <2>5, <2>6, ConcatProperties
    <2>8. \A i \in 1..(n + k) : E[i] = IF i <= n THEN A[i] ELSE B[i - n]
      BY <1>3, <2>5, <2>6, ConcatProperties
    <2>9. DOMAIN E = 1..(n + k)
      BY <2>7
    <2>10. ASSUME NEW i \in 1..n PROVE E[i] = A[i]
      BY <1>1, <1>2, <2>8
    <2>11. ASSUME NEW i \in (n + 1)..(n + k) PROVE E[i] = B[i - n]
      <3>1. i \in 1..(n + k) /\ ~ (i <= n)
        BY <1>1, <1>2
      <3> QED
        BY <2>8, <3>1
    <2> QED
      BY <2>7, <2>9, <2>10, <2>11
  <1>8. \A i \in 1..n : f[i] \in 1..n
    OBVIOUS
  <1>9. ASSUME NEW i \in 1..(n + k)
        PROVE  \/ /\ i \in 1..n
                  /\ E[i].value = <<"vnc", cs[f[i]].port>> /\ E[i].container = cs[f[i]].container
               \/ /\ i \in (n + 1)..(n + k) /\ i - n \in 1..k
                  /\ E[i].value = <<"terminal", names[i - n]>>
    <2>1. CASE i \in 1..n
      BY <1>6, <1>7, <2>1
    <2>2. CASE i \notin 1..n
      <3>1. i \in (n + 1)..(n + k) /\ i - n \in 1..k
        BY <1>1, <1>2, <2>2
      <3> QED
        BY <1>6, <1>7, <3>1
    <2> QED
      BY <2>1, <2>2
  <1>10. ASSUME NEW i \in 1..(n + k), NEW j \in 1..(n + k), E[i].value = E[j].value PROVE i = j
    <2>1. CASE i \in 1..n /\ j \in 1..n
      <3>1. cs[f[i]].port = cs[f[j]].port
        BY <1>1, <1>9, <1>10, <2>1
      <3>2. f[i] = f[j]
        BY <1>1, <1>8, <2>1, <3>1
      <3> QED
        BY <1>4, <2>1, <3>2
    <2>2. CASE i \notin 1..n /\ j \notin 1..n
      <3>1. i - n \in 1..k /\ j - n \in 1..k /\ names[i - n] = names[j - n]
        BY <1>9, <1>10, <2>2
      <3>2. i - n = j - n
        BY <1>2, <3>1
      <3> QED
        BY <1>1, <1>2, <3>2
    <2>3. CASE ~(i \in 1..n <=> j \in 1..n)
      <3>1. <<"vnc", cs[f[i]].port>> # E[j].value \/ <<"terminal", names[i - n]>> # E[j].value
        BY <1>9, <2>3
      <3> QED
        BY <1>1, <1>9, <1>10, <2>3
    <2> QED
      BY <2>1, <2>2, <2>3
  <1>11. ASSUME NEW i \in 1..(n + k), isVncEntry(E[i]) PROVE \E m \in DOMAIN cs : Offers(E[i], cs[m])
    <2>1. E[i].value[1] = "vnc"
      BY <1>11 DEF isVncEntry
    <2>2. E[i].value = <<"vnc", cs[f[i]].port>> /\ E[i].container = cs[f[i]].container /\ i \in 1..n
      BY <1>9, <2>1
    <2>3. E[i].value[2] = cs[f[i]].port
      BY <2>2
    <2>4. f[i] \in DOMAIN cs
      BY <1>1, <1>8, <2>2
    <2> QED
      BY <2>2, <2>3, <2>4 DEF Offers
  <1> QED
    BY <1>1, <1>2, <1>7, <1>10, <1>11 DEF E

\* The active entry is one of the dropdown, and the one clicked if it is there.
LEMMA ActiveIs ==
  ASSUME NEW p, NEW E, NEW n \in Nat \ {0}, DOMAIN E = 1..n, NEW selected
  PROVE  /\ \E i \in 1..n : activeEntry(p, E, selected) = E[i]
         /\ \A i \in 1..n : E[i].value = selected =>
              activeEntry(p, E, selected).value = selected
  <1> DEFINE H == {i \in DOMAIN E : E[i].value = selected}
             D == {i \in DOMAIN E : E[i].container = p.preferred}
             First(S) == IF S = {} THEN 0 ELSE CHOOSE i \in S : \A j \in S : i <= j
             hit == First(H)
             own == First(D)
  <1>1. activeEntry(p, E, selected) =
          E[IF hit # 0 THEN hit ELSE IF p.preferred # None /\ own # 0 THEN own ELSE 1]
    BY Zenon DEF activeEntry, Find
  <1>2. H \in SUBSET (1..n) /\ D \in SUBSET (1..n)
    OBVIOUS
  <1>3. /\ hit = 0 \/ hit \in H
        /\ own = 0 \/ own \in D
        /\ H # {} => hit # 0
    <2> HIDE DEF H, D
    <2>1. /\ H = {} => hit = 0
          /\ H # {} => hit \in H /\ hit # 0
      BY <1>2, HitIs
    <2>2. /\ D = {} => own = 0
          /\ D # {} => own \in D
      BY <1>2, HitIs
    <2> QED
      BY <2>1, <2>2
  <1> HIDE DEF hit, own
  <1>4. ASSUME NEW i \in 1..n, E[i].value = selected
        PROVE  activeEntry(p, E, selected).value = selected
    <2>1. hit \in H /\ hit # 0
      BY <1>3, <1>4
    <2> QED
      BY <1>1, <2>1
  <1>5. \E i \in 1..n : activeEntry(p, E, selected) = E[i]
    BY <1>1, <1>2, <1>3
  <1> QED
    BY <1>4, <1>5

\* The console finds the connection of its entry again.
LEMMA EndpointIs ==
  ASSUME NEW cs, NEW n \in Nat, DOMAIN cs = 1..n, NEW e, NEW m \in 1..n, Offers(e, cs[m])
  PROVE  \E h \in 1..n : endpoint(cs, e) = cs[h] /\ Offers(e, cs[h])
  <1> DEFINE H == {i \in DOMAIN cs : cs[i].container = e.container /\ cs[i].port = e.value[2]}
             O == {i \in DOMAIN cs : cs[i].container = e.container}
             First(S) == IF S = {} THEN 0 ELSE CHOOSE i \in S : \A j \in S : i <= j
             hit == First(H)
  <1>1. endpoint(cs, e) = cs[IF hit # 0 THEN hit ELSE First(O)]
    BY Zenon DEF endpoint, Find
  <1>2. m \in H /\ H \in SUBSET (1..n)
    BY DEF Offers
  <1>3. hit \in H /\ hit # 0
    <2> HIDE DEF H
    <2> QED
      BY <1>2, HitIs
  <1> HIDE DEF hit
  <1> QED
    BY <1>1, <1>2, <1>3 DEF Offers

\* What a pod's tab works with: the entry that is active is one to be chosen, the
\* one clicked if one was, and a VNC entry has its endpoint among those announced.
LEMMA MemoIs ==
  ASSUME NEW p \in Pods, NEW selected
  PROVE  LET m == Memo(p)
             e == activeEntry(p, m.entries, selected)
             to == endpoint(m.announced, e)
         IN  /\ \A i \in 1..Len(m.entries) : m.entries[i].value = selected => e = m.entries[i]
             /\ isVncEntry(e) =>
                  /\ to \in Range(m.announced) /\ to.port \in Nat /\ to.auth \in Auths
                  /\ to.port = e.value[2] /\ to.container = e.container
  <1> DEFINE cs == vncConnections(p)
             E == allEntries(p, cs)
             n == Len(E)
             e == activeEntry(p, E, selected)
             to == endpoint(cs, e)
  <1>1. Memo(p).announced = cs /\ Memo(p).entries = E
    BY DEF Memo
  <1>2. /\ cs \in Seq(ConnectionType(p)) /\ Connects(p, cs)
        /\ DOMAIN cs = 1..Len(cs) /\ Len(cs) \in Nat
    BY ConnectionsAre DEF Connects
  <1> HIDE DEF cs
  <1>3. /\ n \in Nat \ {0} /\ DOMAIN E = 1..n
        /\ \A i, j \in 1..n : E[i].value = E[j].value => i = j
        /\ \A i \in 1..n : isVncEntry(E[i]) => \E m \in DOMAIN cs : Offers(E[i], cs[m])
    BY <1>2, EntriesAre
  <1> HIDE DEF E, n
  <1>4. PICK a \in 1..n : e = E[a]
    BY <1>3, ActiveIs
  <1>5. \A i \in 1..n : E[i].value = selected => e.value = selected
    BY <1>3, ActiveIs
  <1> HIDE DEF e
  <1>6. \A i \in 1..n : E[i].value = selected => e = E[i]
    BY <1>3, <1>4, <1>5
  <1>7. ASSUME isVncEntry(e)
        PROVE  /\ to \in Range(cs) /\ to.port \in Nat /\ to.auth \in Auths
               /\ to.port = e.value[2] /\ to.container = e.container
    <2>1. PICK m \in 1..Len(cs) : Offers(e, cs[m])
      BY <1>2, <1>3, <1>4, <1>7
    <2>2. PICK h \in 1..Len(cs) : to = cs[h] /\ Offers(e, cs[h])
      BY <1>2, <2>1, EndpointIs
    <2>3. cs[h] \in ConnectionType(p) /\ cs[h] \in Range(cs)
      BY <1>2, <2>2 DEF Range
    <2> HIDE DEF to
    <2> QED
      BY <2>2, <2>3 DEF Offers, ConnectionType
  <1> QED
    BY <1>1, <1>6, <1>7 DEF n, e

-----------------------------------------------------------------------------
(* What the tab connects to.                                                *)

\* While a tab is open it has what its pod announces, the entry clicked is one of
\* it and the active one, and the console is there for a VNC entry, connected to
\* the entry's endpoint.
ChosenInv ==
  /\ connections \in Nat
  /\ \A q \in resolving : q.auth \in Auths
  /\ vnc = None \/ vnc \in ConsoleType
  /\ pod = None => vnc = None /\ selectedValue = None /\ chosen = None
  /\ pod # None =>
       /\ pod \in Pods /\ memo = Memo(pod)
       /\ vnc # None <=> isVncEntry(Active)
       /\ vnc # None => /\ vnc.rfb.port = endpoint(memo.announced, Active).port
                        /\ vnc.rfb.auth = endpoint(memo.announced, Active).auth
       /\ chosen # None => \E i \in 1..Len(memo.entries) :
                             chosen = memo.entries[i] /\ selectedValue = chosen.value

\* No console is None.
LEMMA ConsoleIs ==
  /\ \A v \in ConsoleType : v # None
  /\ InitialBackoff \in Nat /\ MaxBackoff \in Nat
  BY PodAssumption, PodsAssumption

\* A new attempt.
LEMMA ConsoleConnects ==
  ASSUME NEW v, v = MountVnc \/ v \in ConsoleType, NEW id \in Nat, NEW e, e.port \in Nat, e.auth \in Auths
  PROVE  /\ ConnectVnc(v, id, e) \in ConsoleType
         /\ ConnectVnc(v, id, e).rfb.port = e.port /\ ConnectVnc(v, id, e).rfb.auth = e.auth
  <1> DEFINE r == NewRfb(id, e)
             w == ConnectVnc(v, id, e)
  <1>1. r \in RfbType /\ r.port = e.port /\ r.auth = e.auth
    BY DEF NewRfb, RfbType
  <1> HIDE DEF r
  <1>2. w = [v EXCEPT !.state = "connecting", !.prompt = FALSE, !.timer = None, !.rfb = r, !.flipped = FALSE]
    BY DEF ConnectVnc, r
  <1>3. InitialBackoff \in Nat
    BY ConsoleIs
  <1> HIDE DEF w
  <1>4. CASE v = MountVnc
    <2>1. w = [state |-> "connecting", prompt |-> FALSE, hasConnected |-> FALSE,
               backoff |-> InitialBackoff, timer |-> None, lost |-> 0, flipped |-> FALSE, rfb |-> r]
      BY <1>2, <1>4 DEF MountVnc
    <2>2. w \in ConsoleType /\ w.rfb = r
      BY <1>1, <1>3, <2>1 DEF ConsoleType
    <2> QED
      BY <1>1, <2>2 DEF w
  <1>5. CASE v \in ConsoleType
    <2>1. w \in ConsoleType /\ w.rfb = r
      BY <1>1, <1>2, <1>5 DEF ConsoleType
    <2> QED
      BY <1>1, <2>1 DEF w
  <1> QED
    BY <1>4, <1>5

\* What is of no concern to the console.
LEMMA ChosenAside ==
  ASSUME ChosenInv, UNCHANGED <<pod, memo, selectedValue, chosen, vnc>>,
         resolving' \subseteq resolving, connections' \in {connections, connections + 1}
  PROVE  ChosenInv'
  <1>1. Active' = Active
    BY DEF Active
  <1> QED
    BY <1>1 DEF ChosenInv

\* What the console goes through keeps its endpoint.
LEMMA ConsoleMoves ==
  ASSUME ChosenInv, vnc # None, vnc' \in ConsoleType,
         vnc'.rfb.port = vnc.rfb.port, vnc'.rfb.auth = vnc.rfb.auth,
         UNCHANGED <<pod, memo, selectedValue, chosen>>,
         \A q \in resolving' : q.auth \in Auths, connections' \in {connections, connections + 1}
  PROVE  ChosenInv'
  <1>1. Active' = Active /\ vnc' # None
    BY ConsoleIs DEF Active
  <1> QED
    BY <1>1 DEF ChosenInv

\* A tab turns to an entry.
LEMMA ChosenConnects ==
  ASSUME ChosenInv, NEW p \in Pods, NEW m, m = Memo(p), NEW selected,
         pod' = p, memo' = m, selectedValue' = selected, resolving' = resolving,
         ConnectTo(m, activeEntry(p, m.entries, selected)),
         chosen' = None \/ \E i \in 1..Len(m.entries) :
                             chosen' = m.entries[i] /\ selected = chosen'.value
  PROVE  ChosenInv'
  <1> DEFINE e == activeEntry(p, m.entries, selected)
             to == endpoint(m.announced, e)
  <1>1. Active' = e
    BY DEF Active
  <1>2. isVncEntry(e) => to.port \in Nat /\ to.auth \in Auths
    BY MemoIs
  <1>3. p # None /\ connections \in Nat
    BY PodsAssumption DEF ChosenInv
  <1> HIDE DEF e
  <1>4. CASE isVncEntry(e)
    <2> DEFINE v == IF vnc = None THEN MountVnc ELSE NewSession(vnc)
    <2>1. vnc' = ConnectVnc(v, connections', to) /\ connections' = connections + 1
      BY <1>4 DEF ConnectTo, e
    <2>2. v = MountVnc \/ v \in ConsoleType
      <3>1. vnc # None => NewSession(vnc) \in ConsoleType
        BY ConsoleIs DEF NewSession, ConsoleType, ChosenInv
      <3> QED
        BY <3>1
    <2> HIDE DEF v, to
    <2>3. /\ vnc' \in ConsoleType /\ vnc'.rfb.port = to.port /\ vnc'.rfb.auth = to.auth
          /\ connections' \in Nat
      <3>1. to.port \in Nat /\ to.auth \in Auths /\ connections' \in Nat
        BY <1>2, <1>3, <1>4, <2>1
      <3>2. /\ ConnectVnc(v, connections', to) \in ConsoleType
            /\ ConnectVnc(v, connections', to).rfb.port = to.port
            /\ ConnectVnc(v, connections', to).rfb.auth = to.auth
        <4> DEFINE id == connections'
        <4>1. id \in Nat /\ to.port \in Nat /\ to.auth \in Auths
          BY <3>1
        <4> HIDE DEF id
        <4>2. /\ ConnectVnc(v, id, to) \in ConsoleType
              /\ ConnectVnc(v, id, to).rfb.port = to.port
              /\ ConnectVnc(v, id, to).rfb.auth = to.auth
          BY <2>2, <4>1, ConsoleConnects
        <4> QED
          BY <4>2 DEF id
      <3> QED
        BY <2>1, <3>1, <3>2
    <2>4. vnc' # None
      BY <2>3, ConsoleIs
    <2> QED
      BY <1>1, <1>3, <1>4, <2>3, <2>4 DEF ChosenInv, to
  <1>5. CASE ~isVncEntry(e)
    <2>1. vnc' = None /\ connections' = connections + 1
      BY <1>5 DEF ConnectTo, ConnectShell, e
    <2> QED
      BY <1>1, <1>3, <1>5, <2>1 DEF ChosenInv
  <1> QED
    BY <1>4, <1>5

\* A retry of the console, by its timer or its link.
LEMMA ConsoleRetries ==
  ASSUME ChosenInv, vnc # None, pod # None, NEW v \in ConsoleType, connections' = connections + 1,
         vnc' = ConnectVnc(v, connections', endpoint(memo.announced, Active)),
         UNCHANGED <<pod, memo, selectedValue, chosen, resolving>>
  PROVE  ChosenInv'
  <1> DEFINE to == endpoint(memo.announced, Active)
  <1>1. to.port \in Nat /\ to.auth \in Auths /\ connections' \in Nat
    <2>1. isVncEntry(Active) /\ pod \in Pods /\ memo = Memo(pod) /\ connections \in Nat
      BY DEF ChosenInv
    <2> DEFINE m == Memo(pod)
               e == activeEntry(pod, m.entries, selectedValue)
    <2>2. isVncEntry(e) => endpoint(m.announced, e).port \in Nat /\ endpoint(m.announced, e).auth \in Auths
      BY <2>1, MemoIs
    <2>3. e = Active
      BY <2>1 DEF Active
    <2> QED
      BY <2>1, <2>2, <2>3
  <1>2. vnc'.rfb.port = vnc.rfb.port /\ vnc'.rfb.auth = vnc.rfb.auth /\ vnc' \in ConsoleType
    <2>1. vnc.rfb.port = to.port /\ vnc.rfb.auth = to.auth
      BY DEF ChosenInv
    <2> HIDE DEF to
    <2>2. /\ ConnectVnc(v, connections', to) \in ConsoleType
          /\ ConnectVnc(v, connections', to).rfb.port = to.port
          /\ ConnectVnc(v, connections', to).rfb.auth = to.auth
      BY <1>1, ConsoleConnects
    <2> QED
      BY <2>1, <2>2 DEF to
  <1> QED
    BY <1>2, ConsoleMoves DEF ChosenInv

\* A connection is sent a password.
LEMMA SentIs ==
  ASSUME NEW r \in RfbType, NEW a \in Auths \cup {"typed"}
  PROVE  Sent(r, a) \in RfbType /\ Sent(r, a).port = r.port /\ Sent(r, a).auth = r.auth
  <1>1. CASE r.conn = "gone"
    BY <1>1 DEF Sent
  <1>2. CASE r.conn # "gone"
    BY <1>2 DEF Sent, RfbType
  <1> QED
    BY <1>1, <1>2

\* The handlers of the console's connection.
LEMMA ConsoleHandles ==
  ASSUME ChosenInv, vnc # None,
         \/ RfbConnects
         \/ \E clean \in BOOLEAN : RfbDisconnects(clean)
         \/ \E id \in late : LateDisconnect(id)
         \/ SecurityFailure
         \/ \E only \in BOOLEAN : CredentialsRequired(only)
  PROVE  ChosenInv'
  <1>1. vnc \in ConsoleType /\ vnc.rfb \in RfbType /\ InitialBackoff \in Nat /\ MaxBackoff \in Nat
    BY ConsoleIs DEF ChosenInv, ConsoleType
  <1>2. CASE RfbConnects
    <2>1. vnc' \in ConsoleType /\ vnc'.rfb.port = vnc.rfb.port /\ vnc'.rfb.auth = vnc.rfb.auth
      BY <1>1, <1>2 DEF RfbConnects, ConsoleType, RfbType
    <2> QED
      BY <1>2, <2>1, ConsoleMoves DEF RfbConnects, ChosenInv
  <1>3. ASSUME NEW clean \in BOOLEAN, RfbDisconnects(clean) PROVE ChosenInv'
    <2> DEFINE double == IF vnc.backoff * 2 > MaxBackoff THEN MaxBackoff ELSE vnc.backoff * 2
               t == IF vnc.hasConnected THEN vnc.backoff ELSE vnc.timer
               b == IF vnc.hasConnected THEN double ELSE vnc.backoff
               r == [vnc.rfb EXCEPT !.conn = "gone"]
               l == vnc.lost + 1
    <2>1. t \in Nat \cup {None} /\ b \in Nat /\ l \in Nat /\ r \in RfbType /\ r.port = vnc.rfb.port /\ r.auth = vnc.rfb.auth
      <3>1. vnc.timer \in Nat \cup {None} /\ vnc.backoff \in Nat
        BY <1>1 DEF ConsoleType
      <3>2. r \in RfbType /\ r.port = vnc.rfb.port /\ r.auth = vnc.rfb.auth
        BY <1>1 DEF RfbType
      <3> QED
        BY <1>1, <3>1, <3>2 DEF ConsoleType
    <2>2. vnc' = [vnc EXCEPT !.state = "disconnected", !.rfb = r, !.lost = l, !.timer = t, !.backoff = b]
      <3>1. vnc' = [vnc EXCEPT !.state = "disconnected", !.rfb.conn = "gone", !.lost = @ + 1,
                               !.timer = IF vnc.hasConnected THEN vnc.backoff ELSE @,
                               !.backoff = IF vnc.hasConnected THEN double ELSE @]
        BY <1>3 DEF RfbDisconnects
      <3> QED
        BY <1>1, <3>1 DEF ConsoleType
    <2> HIDE DEF t, b, r, l
    <2>3. vnc' \in ConsoleType /\ vnc'.rfb = r
      BY <1>1, <2>1, <2>2 DEF ConsoleType
    <2> QED
      BY <1>3, <2>1, <2>3, ConsoleMoves DEF RfbDisconnects, ChosenInv
  <1>4. ASSUME NEW id \in late, LateDisconnect(id) PROVE ChosenInv'
    <2>1. vnc' \in ConsoleType /\ vnc'.rfb = vnc.rfb
      BY <1>1, <1>4 DEF LateDisconnect, ConsoleType
    <2> QED
      BY <1>4, <2>1, ConsoleMoves DEF LateDisconnect, tabVars, ChosenInv
  <1>5. CASE SecurityFailure
    <2>1. vnc' \in ConsoleType /\ vnc'.rfb.port = vnc.rfb.port /\ vnc'.rfb.auth = vnc.rfb.auth
      BY <1>1, <1>5 DEF SecurityFailure, ConsoleType, RfbType
    <2> QED
      BY <1>5, <2>1, ConsoleMoves DEF SecurityFailure, ChosenInv
  <1>6. ASSUME NEW only \in BOOLEAN, CredentialsRequired(only) PROVE ChosenInv'
    <2>1. PICK pr \in BOOLEAN, sp \in BOOLEAN :
            vnc' = [vnc EXCEPT !.rfb.conn = "asking", !.rfb.specific = sp, !.prompt = pr]
      <3>1. CASE only
        <4>1. vnc' = [vnc EXCEPT !.rfb.conn = "asking", !.prompt = @ \/ vnc.rfb.auth = None]
          BY <1>6, <3>1 DEF CredentialsRequired
        <4>2. vnc' = [vnc EXCEPT !.rfb.conn = "asking", !.rfb.specific = vnc.rfb.specific,
                                 !.prompt = (vnc.prompt \/ vnc.rfb.auth = None)]
          BY <1>1, <4>1 DEF ConsoleType, RfbType
        <4> QED
          BY <1>1, <4>2 DEF ConsoleType, RfbType
      <3>2. CASE ~only
        <4>1. vnc' = [vnc EXCEPT !.rfb.conn = "asking", !.rfb.specific = TRUE]
          BY <1>6, <3>2 DEF CredentialsRequired
        <4>2. vnc' = [vnc EXCEPT !.rfb.conn = "asking", !.rfb.specific = TRUE, !.prompt = vnc.prompt]
          BY <1>1, <4>1 DEF ConsoleType, RfbType
        <4> QED
          BY <1>1, <4>2 DEF ConsoleType
      <3> QED
        BY <3>1, <3>2
    <2>2. vnc' \in ConsoleType /\ vnc'.rfb.port = vnc.rfb.port /\ vnc'.rfb.auth = vnc.rfb.auth
      BY <1>1, <2>1 DEF ConsoleType, RfbType
    <2>3. \A q \in resolving' : q \in resolving \/ q.auth = vnc.rfb.auth
      BY <1>6 DEF CredentialsRequired
    <2>4. \A q \in resolving' : q.auth \in Auths
      BY <1>1, <2>3 DEF ChosenInv, RfbType
    <2> QED
      BY <1>6, <2>2, <2>4, ConsoleMoves DEF CredentialsRequired
  <1> QED
    BY <1>2, <1>3, <1>4, <1>5, <1>6

\* Passwords.
LEMMA ConsoleAnswers ==
  ASSUME ChosenInv,
         \/ \E q \in resolving, ok \in BOOLEAN : PasswordResolved(q, ok)
         \/ submitManualPassword
  PROVE  ChosenInv'
  <1>1. vnc # None => vnc \in ConsoleType /\ vnc.rfb \in RfbType
    BY DEF ChosenInv, ConsoleType
  <1>2. ASSUME NEW q \in resolving, NEW ok \in BOOLEAN, PasswordResolved(q, ok) PROVE ChosenInv'
    <2>1. CASE vnc = None \/ vnc.rfb.id # q.id
      BY <1>2, <2>1, ChosenAside DEF PasswordResolved
    <2>2. CASE vnc # None /\ vnc.rfb.id = q.id
      <3>1. q.auth \in Auths
        BY DEF ChosenInv
      <3> DEFINE r == Sent(vnc.rfb, q.auth)
      <3>2. r \in RfbType /\ r.port = vnc.rfb.port /\ r.auth = vnc.rfb.auth
        BY <1>1, <2>2, <3>1, SentIs
      <3>3. \/ vnc' = [vnc EXCEPT !.rfb = r]
            \/ vnc' = [vnc EXCEPT !.rfb.specific = TRUE, !.prompt = TRUE]
        BY <1>2, <2>2 DEF PasswordResolved
      <3> HIDE DEF r
      <3>4. vnc' \in ConsoleType /\ vnc'.rfb.port = vnc.rfb.port /\ vnc'.rfb.auth = vnc.rfb.auth
        <4>1. CASE vnc' = [vnc EXCEPT !.rfb = r]
          BY <1>1, <2>2, <3>2, <4>1 DEF ConsoleType
        <4>2. CASE vnc' = [vnc EXCEPT !.rfb.specific = TRUE, !.prompt = TRUE]
          BY <1>1, <2>2, <4>2 DEF ConsoleType, RfbType
        <4> QED
          BY <3>3, <4>1, <4>2
      <3>5. \A p \in resolving' : p.auth \in Auths
        BY <1>2 DEF PasswordResolved, ChosenInv
      <3> QED
        BY <1>2, <2>2, <3>4, <3>5, ConsoleMoves DEF PasswordResolved
    <2> QED
      BY <2>1, <2>2
  <1>3. CASE submitManualPassword
    <2> DEFINE r == Sent(vnc.rfb, "typed")
    <2>1. vnc # None /\ vnc' = [vnc EXCEPT !.prompt = FALSE, !.rfb = r]
      BY <1>3 DEF submitManualPassword
    <2>2. r \in RfbType /\ r.port = vnc.rfb.port /\ r.auth = vnc.rfb.auth
      BY <1>1, <2>1, SentIs
    <2> HIDE DEF r
    <2>3. vnc' \in ConsoleType /\ vnc'.rfb = r
      BY <1>1, <2>1, <2>2 DEF ConsoleType
    <2> QED
      BY <1>3, <2>1, <2>2, <2>3, ConsoleMoves DEF submitManualPassword, tabVars, ChosenInv
  <1> QED
    BY <1>2, <1>3

\* Type Clipboard.
LEMMA ConsoleTypes ==
  ASSUME ChosenInv, \A t \in typings : ClipboardText[t.pos].char \in STRING,
         \/ \E readable \in BOOLEAN : typeClipboard(readable)
         \/ \E t \in typings : typeText(t)
  PROVE  ChosenInv'
  <1>1. vnc # None => vnc \in ConsoleType /\ vnc.rfb \in RfbType
    BY DEF ChosenInv, ConsoleType
  <1>2. ASSUME vnc # None, NEW r \in RfbType, r.port = vnc.rfb.port, r.auth = vnc.rfb.auth,
               vnc' = [vnc EXCEPT !.rfb = r],
               UNCHANGED <<pod, memo, selectedValue, chosen, resolving, connections>>
        PROVE  ChosenInv'
    <2>1. vnc' \in ConsoleType /\ vnc'.rfb = r
      BY <1>1, <1>2 DEF ConsoleType
    <2> QED
      BY <1>2, <2>1, ConsoleMoves DEF ChosenInv
  <1>3. ASSUME NEW readable \in BOOLEAN, typeClipboard(readable) PROVE ChosenInv'
    <2>1. CASE readable
      <3> DEFINE r == [vnc.rfb EXCEPT !.pastes = @ + 1]
      <3>1. vnc # None /\ vnc' = [vnc EXCEPT !.rfb = r]
        BY <1>3, <2>1 DEF typeClipboard
      <3>2. r \in RfbType /\ r.port = vnc.rfb.port /\ r.auth = vnc.rfb.auth
        BY <1>1, <3>1 DEF RfbType
      <3> HIDE DEF r
      <3> QED
        BY <1>2, <1>3, <3>1, <3>2 DEF typeClipboard
    <2>2. CASE ~readable
      BY <1>3, <2>2, ChosenAside DEF typeClipboard
    <2> QED
      BY <2>1, <2>2
  <1>4. ASSUME NEW t \in typings, typeText(t) PROVE ChosenInv'
    <2> DEFINE c == [char |-> ClipboardText[t.pos].char, shift |-> vnc.rfb.shift]
    <2>1. \/ vnc' = vnc
          \/ /\ vnc # None
             /\ \/ vnc' = [vnc EXCEPT !.rfb.shift = TRUE]
                \/ vnc' = [vnc EXCEPT !.rfb.shift = FALSE]
                \/ vnc' = [vnc EXCEPT !.rfb.got = Append(@, c)]
      BY <1>4 DEF typeText
    <2>2. CASE vnc' = vnc
      BY <1>4, <2>2, ChosenAside DEF typeText, tabVars
    <2>3. ASSUME NEW on \in BOOLEAN, vnc # None, vnc' = [vnc EXCEPT !.rfb.shift = on]
          PROVE  ChosenInv'
      <3> DEFINE r == [vnc.rfb EXCEPT !.shift = on]
      <3>1. r \in RfbType /\ r.port = vnc.rfb.port /\ r.auth = vnc.rfb.auth
        BY <1>1, <2>3 DEF RfbType
      <3>2. vnc' = [vnc EXCEPT !.rfb = r]
        BY <2>3
      <3> HIDE DEF r
      <3> QED
        BY <1>2, <1>4, <2>3, <3>1, <3>2 DEF typeText, tabVars
    <2>4. ASSUME vnc # None, vnc' = [vnc EXCEPT !.rfb.got = Append(@, c)]
          PROVE  ChosenInv'
      <3> DEFINE got == Append(vnc.rfb.got, c)
                 r == [vnc.rfb EXCEPT !.got = got]
                 C == [char : STRING, shift : BOOLEAN]
      <3>1. got \in Seq(C)
        <4>1. c \in C /\ vnc.rfb.got \in Seq(C)
          BY <1>1, <2>4 DEF RfbType
        <4> HIDE DEF C, c
        <4> QED
          BY <4>1
      <3>2. vnc' = [vnc EXCEPT !.rfb = r]
        BY <2>4
      <3> HIDE DEF got
      <3>3. r \in RfbType /\ r.port = vnc.rfb.port /\ r.auth = vnc.rfb.auth
        BY <1>1, <2>4, <3>1 DEF RfbType
      <3> HIDE DEF r
      <3> QED
        BY <1>2, <1>4, <2>4, <3>2, <3>3 DEF typeText, tabVars
    <2> QED
      BY <2>1, <2>2, <2>3, <2>4
  <1> QED
    BY <1>3, <1>4

\* Every step keeps the tab on what was chosen.
LEMMA ChosenInductive ==
  ASSUME ChosenInv, \A t \in typings : ClipboardText[t.pos].char \in STRING, [PodNext]_podVars
  PROVE  ChosenInv'
  <1>1. ASSUME NEW p \in Pods, OpenTab(p) PROVE ChosenInv'
    <2>1. /\ pod = None /\ selectedValue' = None /\ chosen' = None /\ resolving' = resolving
          /\ pod' = p /\ memo' = Memo(p)
          /\ ConnectTo(memo', activeEntry(p, memo'.entries, None))
      BY <1>1 DEF OpenTab, ChosenInv
    <2> QED
      BY <2>1, ChosenConnects
  <1>2. ASSUME NEW i \in 1..(IF pod = None THEN 0 ELSE Len(memo.entries)), Select(i) PROVE ChosenInv'
    <2>1. /\ pod \in Pods /\ memo = Memo(pod) /\ i \in 1..Len(memo.entries)
          /\ pod' = pod /\ memo' = memo /\ resolving' = resolving
          /\ chosen' = memo.entries[i] /\ selectedValue' = chosen'.value
          /\ ConnectTo(memo, activeEntry(pod, memo.entries, selectedValue'))
      BY <1>2 DEF Select, ChosenInv
    <2> QED
      BY <2>1, ChosenConnects
  <1>3. CASE CloseTab
    BY <1>3 DEF CloseTab, ChosenInv
  <1>4. CASE PodStops \/ ExecOpens \/ ExecStreamError
    BY <1>4, ChosenAside DEF PodStops, ExecOpens, ExecStreamError, tabVars, vncVars
  <1>5. CASE reconnect
    BY <1>5, ChosenAside DEF reconnect, ConnectShell, vncVars
  <1>6. ASSUME NEW b \in BOOLEAN, ExecData(b) \/ ExecCloses(b) \/ TerminalOpens(b) PROVE ChosenInv'
    BY <1>6, ChosenAside DEF ExecData, ExecCloses, TerminalOpens, tabVars, vncVars
  <1>7. ASSUME NEW w \in Sizes, Resize(w) PROVE ChosenInv'
    BY <1>7, ChosenAside DEF Resize, tabVars, vncVars
  <1>8. CASE RetryTimer
    <2>1. vnc # None /\ pod # None /\ vnc \in ConsoleType
      BY <1>8 DEF RetryTimer, ChosenInv
    <2> QED
      BY <1>8, <2>1, ConsoleRetries DEF RetryTimer
  <1>9. CASE VncReconnect
    <2> DEFINE v == [vnc EXCEPT !.backoff = InitialBackoff, !.lost = 0]
    <2>1. vnc # None /\ pod # None /\ v \in ConsoleType
      BY <1>9, ConsoleIs DEF VncReconnect, ChosenInv, ConsoleType
    <2>2. vnc' = ConnectVnc(v, connections', endpoint(memo.announced, Active)) /\ connections' = connections + 1
      BY <1>9 DEF VncReconnect
    <2> HIDE DEF v
    <2> QED
      BY <1>9, <2>1, <2>2, ConsoleRetries DEF VncReconnect
  <1>10. ASSUME \/ RfbConnects
                \/ \E clean \in BOOLEAN : RfbDisconnects(clean)
                \/ \E id \in late : LateDisconnect(id)
                \/ SecurityFailure
                \/ \E only \in BOOLEAN : CredentialsRequired(only)
         PROVE  ChosenInv'
    <2>1. vnc # None
      BY <1>10 DEF RfbConnects, RfbDisconnects, LateDisconnect, SecurityFailure, CredentialsRequired, Live
    <2> QED
      BY <1>10, <2>1, ConsoleHandles
  <1>11. CASE UNCHANGED podVars
    BY <1>11, ChosenAside DEF podVars, tabVars, vncVars
  <1> QED
    BY <1>1, <1>2, <1>3, <1>4, <1>5, <1>6, <1>7, <1>8, <1>9, <1>10, <1>11,
       ConsoleAnswers, ConsoleTypes DEF PodNext

\* The tab talks to what was chosen, whatever the pods announce and however
\* selections, retries and the end of a pod interleave (PodTerminalTab.tsx:
\* activeEntry; VncPodConsole.tsx: endpoint, connect).
THEOREM TabsConnectAsChosen == PodSpec => []ConnectsAsChosen
  <1>1. PodInit => ChosenInv
    BY DEF PodInit, ChosenInv
  <1>2. ChosenInv => ConnectsAsChosen
    <2> SUFFICES ASSUME ChosenInv, pod # None PROVE ConnectsAsChosen
      BY DEF ConnectsAsChosen
    <2>1. pod \in Pods /\ memo = Memo(pod) /\ (vnc # None <=> isVncEntry(Active))
      BY DEF ChosenInv
    <2> DEFINE to == endpoint(memo.announced, Active)
    <2>2. /\ \A i \in 1..Len(memo.entries) : memo.entries[i].value = selectedValue => Active = memo.entries[i]
          /\ isVncEntry(Active) =>
               /\ to \in Range(memo.announced)
               /\ to.port = Active.value[2] /\ to.container = Active.container
      <3> DEFINE m == Memo(pod)
                 e == activeEntry(pod, m.entries, selectedValue)
      <3>1. /\ \A i \in 1..Len(m.entries) : m.entries[i].value = selectedValue => e = m.entries[i]
            /\ isVncEntry(e) =>
                 /\ endpoint(m.announced, e) \in Range(m.announced)
                 /\ endpoint(m.announced, e).port = e.value[2]
                 /\ endpoint(m.announced, e).container = e.container
        BY <2>1, MemoIs
      <3>2. e = Active
        BY <2>1 DEF Active
      <3> QED
        BY <2>1, <3>1, <3>2
    <2>3. chosen # None => Active = chosen
      BY <2>2 DEF ChosenInv
    <2>4. vnc # None => /\ vnc.rfb.port = to.port /\ vnc.rfb.auth = to.auth
                        /\ to \in Range(memo.announced)
                        /\ to.port = Active.value[2] /\ to.container = Active.container
      BY <2>1, <2>2 DEF ChosenInv
    <2> HIDE DEF to
    <2> QED
      BY <2>1, <2>3, <2>4 DEF ConnectsAsChosen, isVncEntry
  <1>3. ApartInv => \A t \in typings : ClipboardText[t.pos].char \in STRING
    BY ClipboardIs DEF ApartInv, TypingType, CharType
  <1>4. ApartInv /\ ChosenInv /\ [PodNext]_podVars => ChosenInv'
    BY <1>3, ChosenInductive
  <1>5. PodSpec => []ApartInv
    BY ApartStarts, ApartInductive, PTL DEF PodSpec
  <1>6. PodSpec => []ChosenInv
    BY <1>1, <1>4, <1>5, PTL DEF PodSpec
  <1> QED
    BY <1>2, <1>6, PTL

\* A server is the one the user chose, and is sent only its own password, those
\* typed for it, and the clipboard as it was typed into it (VncPodConsole.tsx:
\* connect, resolveVncPassword, typeClipboard; typeText.ts).
THEOREM ServersAsChosen == PodSpec => []ServedAsChosen
  BY TabsConnectAsChosen, ServersKeptApart, PTL DEF ServedAsChosen

-----------------------------------------------------------------------------
(* The node's Terminal tab: its debug namespaces and its shell.             *)

RunType ==
  [node : Nodes, step : {"namespace", "refused", "pod", "done", "failed", "unheard", "dead"}]

ScreenType == [opened : BOOLEAN, size : Columns \cup {XtermSize}, stdin : BOOLEAN]

ShellType ==
  [id : Ids, sock : {"connecting", "open", "closed"}, size : Columns \cup {None},
   pty : Columns \cup {None}]

\* The runs of a tab: the last one is for the node the page is about, and there
\* is nothing to show without a page.
RunsInv ==
  /\ runs \in Seq(RunType) /\ Len(runs) <= MaxRuns
  /\ node # None => node \in Nodes /\ runs # <<>> /\ runs[Current].node = node
  /\ shown # None => node # None /\ shown \in DOMAIN runs
  /\ node = None => shell = None

\* A namespace exists from the answer to its run on; a run that nobody waits for
\* before that answer is excused.
SpacesInv ==
  /\ spaces \in [Ids -> {"none", "live", "deleting", "gone"}]
  /\ excused \in [left : SUBSET Ids, kept : SUBSET Ids, overtaken : BOOLEAN]
  /\ \A id \in Ids : id \notin DOMAIN runs => spaces[id] = "none"
  /\ \A id \in DOMAIN runs :
       /\ runs[id].step \in {"namespace", "unheard", "refused"} => spaces[id] = "none"
       /\ runs[id].step \in {"namespace", "unheard"} =>
            \/ id \in excused.left
            \/ node # None /\ id = Current /\ runs[id].step = "namespace"
  /\ DebugSpaceOwned

\* A channel that is not closed belongs to the pod that is shown, and has been
\* told the size of the terminal if that is open; there was no output before it
\* opened, nor while the hint is due or shown.
NodeShellInv ==
  /\ columns \in Columns
  /\ shell # None => shell \in ShellType
  /\ screen # None => screen \in ScreenType /\ (screen.opened => screen.size \in Columns)
  /\ Up({"connecting", "open"}) =>
       /\ shell.id = shown
       /\ excused.overtaken \/ runs[shell.id].node = node
       /\ getSize(screen) # None => /\ shell.size = screen.size
                                    /\ shell.sock = "open" => shell.pty = screen.size
  /\ Up({"connecting"}) => ~output
  /\ hintTimer => ~output
  /\ (hint /\ shell # None) => ~output

NodeInv == RunsInv /\ SpacesInv /\ NodeShellInv

\* A tab that was never opened.
LEMMA NodeStarts == NodeInit => NodeInv
  <1> SUFFICES ASSUME NodeInit PROVE NodeInv
    OBVIOUS
  <1>1. RunsInv
    BY NodeAssumption DEF NodeInit, RunsInv
  <1>2. SpacesInv
    BY DEF NodeInit, SpacesInv, DebugSpaceOwned, NoExcuse
  <1>3. NodeShellInv
    BY NodeAssumption DEF NodeInit, NodeShellInv, Up
  <1> QED
    BY <1>1, <1>2, <1>3 DEF NodeInv

\* A step of one run is a change of its step alone.
LEMMA StepIs ==
  ASSUME runs \in Seq(RunType), NEW id \in DOMAIN runs, NEW s, Step(id, s),
         s \in {"namespace", "refused", "pod", "done", "failed", "unheard", "dead"}
  PROVE  /\ runs' \in Seq(RunType) /\ Len(runs') = Len(runs) /\ DOMAIN runs' = DOMAIN runs
         /\ runs'[id].step = s
         /\ \A i \in DOMAIN runs : runs'[i].node = runs[i].node
         /\ \A i \in DOMAIN runs : i # id => runs'[i] = runs[i]
  <1>1. runs' = [runs EXCEPT ![id] = [runs[id] EXCEPT !.step = s]]
    BY DEF Step
  <1>2. runs[id] \in RunType
    OBVIOUS
  <1>3. [runs[id] EXCEPT !.step = s] \in RunType
    BY <1>2 DEF RunType
  <1>4. [runs[id] EXCEPT !.step = s].step = s /\ [runs[id] EXCEPT !.step = s].node = runs[id].node
    BY <1>2 DEF RunType
  <1> DEFINE r == [runs[id] EXCEPT !.step = s]
  <1> HIDE DEF RunType, r
  <1>5. runs' = [runs EXCEPT ![id] = r] /\ r \in RunType
    BY <1>1, <1>3 DEF r
  <1>6. /\ runs' \in Seq(RunType) /\ Len(runs') = Len(runs) /\ DOMAIN runs' = DOMAIN runs
        /\ runs'[id] = r /\ \A i \in DOMAIN runs : i # id => runs'[i] = runs[i]
    BY <1>5
  <1> QED
    BY <1>4, <1>6 DEF r

\* A node's run begins, and the run before it is the tab's no more.
LEMMA StartIs ==
  ASSUME RunsInv, NEW n \in Nodes, StartRun(n)
  PROVE  /\ runs' \in Seq(RunType) /\ Len(runs') = Current + 1 /\ Len(runs') <= MaxRuns
         /\ runs'[Current + 1] = [node |-> n, step |-> "namespace"]
         /\ \A i \in DOMAIN runs : i \in DOMAIN runs' /\ i # Current + 1 /\ runs'[i] = runs[i]
         /\ \A i \in DOMAIN runs' : i \in DOMAIN runs \/ i = Current + 1
         /\ Current + 1 \in DOMAIN runs' /\ Current + 1 \notin DOMAIN runs
  <1>1. [node |-> n, step |-> "namespace"] \in RunType
    BY DEF RunType
  <1>2. runs' = Append(runs, [node |-> n, step |-> "namespace"]) /\ Current < MaxRuns
    BY DEF StartRun
  <1> HIDE DEF RunType
  <1> QED
    BY <1>1, <1>2, NodeAssumption DEF RunsInv, Current

\* The runs a tab has are among those it may have.
LEMMA RunIds ==
  ASSUME RunsInv
  PROVE  /\ DOMAIN runs \subseteq Ids /\ Current \in Nat
         /\ \A i \in DOMAIN runs : runs[i] \in RunType
         /\ node # None => Current \in DOMAIN runs
         /\ DOMAIN runs = 1..Current
  BY NodeAssumption DEF RunsInv, Current, Ids

\* The runs through every step of the tab.
LEMMA RunsInductive == RunsInv /\ [NodeNext]_nodeVars => RunsInv'
  <1> SUFFICES ASSUME RunsInv, [NodeNext]_nodeVars PROVE RunsInv'
    OBVIOUS
  <1>0. /\ DOMAIN runs \subseteq Ids /\ Current \in Nat /\ DOMAIN runs = 1..Current
        /\ \A i \in DOMAIN runs : runs[i] \in RunType
        /\ node # None => Current \in DOMAIN runs
        /\ \A i \in DOMAIN runs : i # None
    BY RunIds, NodeAssumption DEF Current
  <1>1. CASE UNCHANGED nodeVars
    BY <1>1 DEF nodeVars, shellVars, RunsInv, Current
  <1>2. ASSUME NEW n \in Nodes, OpenNode(n) \/ SwitchNode(n) PROVE RunsInv'
    <2>1. /\ StartRun(n) /\ node' = n /\ shown' = shown /\ n # None
      BY <1>2, NodeAssumption DEF OpenNode, SwitchNode
    <2>2. /\ runs' \in Seq(RunType) /\ Len(runs') = Current + 1 /\ Len(runs') <= MaxRuns
          /\ runs'[Current + 1] = [node |-> n, step |-> "namespace"]
          /\ DOMAIN runs \subseteq DOMAIN runs' /\ Current + 1 \in DOMAIN runs'
      BY <2>1, StartIs
    <2>3. node' \in Nodes /\ runs' # <<>> /\ runs'[Current'].node = node'
      BY <2>1, <2>2 DEF Current
    <2>4. shown' # None => shown' \in DOMAIN runs'
      BY <2>1, <2>2 DEF RunsInv
    <2> QED
      BY <2>1, <2>2, <2>3, <2>4 DEF RunsInv
  <1>3. CASE LeaveNode
    BY <1>3 DEF LeaveNode, NoSession, RunsInv
  <1>4. ASSUME NEW stays \in BOOLEAN, closeTab(stays) PROVE RunsInv'
    <2>1. CASE stays
      BY <1>4, <2>1 DEF closeTab, RunsInv, Current, shellVars
    <2>2. CASE ~stays
      <3> DEFINE s(i) == IF runs[i].step = "namespace" THEN "unheard" ELSE "dead"
                 r(i) == [runs[i] EXCEPT !.step = s(i)]
      <3>1. /\ runs' = [i \in DOMAIN runs |-> r(i)]
            /\ node' = None /\ shown' = None /\ shell' = None
        BY <1>4, <2>2 DEF closeTab, NoSession
      <3>2. \A i \in DOMAIN runs : r(i) \in RunType
        BY <1>0 DEF RunType
      <3> HIDE DEF r
      <3>3. runs' \in Seq(RunType) /\ Len(runs') = Len(runs)
        BY <1>0, <3>1, <3>2 DEF Current, RunsInv
      <3> QED
        BY <3>1, <3>3 DEF RunsInv
    <2> QED
      BY <2>1, <2>2
  <1>5. ASSUME NEW id \in DOMAIN runs, NEW s, Step(id, s), node' = node,
               s \in {"namespace", "refused", "pod", "done", "failed", "unheard", "dead"},
               shown' \in {shown, id}, shown' # None => node # None, node = None => shell' = None
        PROVE  RunsInv'
    <2>1. /\ runs' \in Seq(RunType) /\ Len(runs') = Len(runs) /\ DOMAIN runs' = DOMAIN runs
          /\ \A i \in DOMAIN runs : runs'[i].node = runs[i].node
      BY <1>5, StepIs DEF RunsInv
    <2> QED
      BY <1>0, <1>5, <2>1 DEF RunsInv, Current
  <1>6. ASSUME NEW id \in DOMAIN runs, NamespaceCreated(id) PROVE RunsInv'
    <2>1. node' = node /\ shown' = shown /\ shell' = shell
      BY <1>6 DEF NamespaceCreated, shellVars
    <2>2. \E s \in {"dead", "pod"} : Step(id, s)
      BY <1>6 DEF NamespaceCreated
    <2> QED
      BY <1>5, <2>1, <2>2 DEF RunsInv
  <1>7. ASSUME NEW id \in DOMAIN runs, NamespaceRefused(id) \/ PodRefused(id) PROVE RunsInv'
    <2>1. node' = node /\ shown' = shown /\ shell' = shell
      BY <1>7 DEF NamespaceRefused, PodRefused, Catch
    <2>2. \E s \in {"refused", "failed"} : Step(id, s)
      BY <1>7 DEF NamespaceRefused, PodRefused, Catch
    <2> QED
      BY <1>5, <2>1, <2>2 DEF RunsInv
  <1>8. ASSUME NEW id \in DOMAIN runs, NEW user \in Usernames, PodCreated(id, user) PROVE RunsInv'
    <2>1. node' = node /\ Step(id, "done")
      BY <1>8 DEF PodCreated
    <2>2. /\ node = None => shown' = shown /\ shell' = shell
          /\ node # None => shown' = id
      BY <1>8 DEF PodCreated, shellVars
    <2> QED
      BY <1>5, <2>1, <2>2 DEF RunsInv
  <1>9. ASSUME UNCHANGED <<node, runs, shown>>, node = None => shell' = shell PROVE RunsInv'
    BY <1>9 DEF RunsInv, Current
  <1>10. ASSUME NEW id \in DOMAIN runs, NEW ok \in BOOLEAN, DeleteAnswered(id, ok) PROVE RunsInv'
    BY <1>9, <1>10 DEF DeleteAnswered, shellVars
  <1>11. ASSUME NEW id \in DOMAIN runs, NamespaceGone(id) PROVE RunsInv'
    BY <1>9, <1>11 DEF NamespaceGone, shellVars
  <1>12. ASSUME NEW id \in DOMAIN runs, NEW phase, PodMoves(id, phase) PROVE RunsInv'
    BY <1>9, <1>12 DEF PodMoves, shellVars
  <1>13. CASE WatchReports
    BY <1>9, <1>13 DEF WatchReports, RunsInv
  <1>14. CASE ShellOpens \/ ShellData \/ HintTimer
    BY <1>9, <1>14 DEF ShellOpens, ShellData, HintTimer, Up, RunsInv
  <1>15. ASSUME NEW clean \in BOOLEAN, NEW closes \in BOOLEAN, ShellEnds(clean, closes) PROVE RunsInv'
    BY <1>9, <1>15 DEF ShellEnds, Up, RunsInv
  <1>16. ASSUME NEW ready \in BOOLEAN, NodeFonts(ready) PROVE RunsInv'
    BY <1>9, <1>16 DEF NodeFonts
  <1>17. ASSUME NEW w \in Columns, NodeResize(w) PROVE RunsInv'
    <2>1. UNCHANGED <<node, runs, shown>> /\ (shell = None => shell' = None)
      BY <1>17 DEF NodeResize, Reported
    <2> QED
      BY <1>9, <2>1 DEF RunsInv
  <1> QED
    BY <1>1, <1>2, <1>3, <1>4, <1>6, <1>7, <1>8, <1>10, <1>11, <1>12, <1>13, <1>14, <1>15, <1>16,
       <1>17 DEF NodeNext

\* A namespace whose run the tab stops waiting for is asked to be deleted, or
\* its run is excused for not having named it yet.
LEMMA Released ==
  ASSUME RunsInv, SpacesInv, node # None, NEW id \in Ids, spaces[id] = "live"
  PROVE  \/ id \in deletes \cup (IF Named(Current) THEN {Current} ELSE {})
         \/ id \in excused.left \cup excused.kept
  <1>1. id \in DOMAIN runs /\ runs[id].step \notin {"namespace", "refused"}
    BY DEF SpacesInv
  <1>2. Named(id)
    BY <1>1 DEF Named
  <1> QED
    BY <1>2 DEF SpacesInv, DebugSpaceOwned

\* The tab leaves its run: to another node's, or for good.
LEMMA SpacesLeft ==
  ASSUME RunsInv, SpacesInv, node # None, spaces' = spaces,
         deletes' = deletes \cup (IF Named(Current) THEN {Current} ELSE {}),
         excused' = [excused EXCEPT !.left =
                       IF runs[Current].step = "namespace" THEN @ \cup {Current} ELSE @],
         \/ node' = None /\ runs' = runs
         \/ \E n \in Nodes : node' = n /\ StartRun(n)
  PROVE  SpacesInv'
  <1>0. /\ DOMAIN runs \subseteq Ids /\ Current \in DOMAIN runs /\ Current \in Nat
    BY RunIds
  <1>1. /\ excused' \in [left : SUBSET Ids, kept : SUBSET Ids, overtaken : BOOLEAN]
        /\ excused'.kept = excused.kept /\ excused.left \subseteq excused'.left
        /\ runs[Current].step = "namespace" => Current \in excused'.left
    BY <1>0 DEF SpacesInv
  <1>2. \A i \in Ids : spaces[i] = "live" => i \in deletes' \cup excused'.left \cup excused'.kept
    BY <1>1, Released
  <1>3. \A i \in DOMAIN runs : runs[i].step \in {"namespace", "unheard"} => i \in excused'.left
    BY <1>1 DEF SpacesInv
  <1>6. /\ \A i \in Ids : i \notin DOMAIN runs => spaces'[i] = "none"
        /\ \A i \in DOMAIN runs :
             runs[i].step \in {"namespace", "unheard", "refused"} => spaces'[i] = "none"
    BY DEF SpacesInv
  <1>4. CASE node' = None /\ runs' = runs
    BY <1>1, <1>2, <1>3, <1>4 DEF SpacesInv, DebugSpaceOwned
  <1>5. ASSUME NEW n \in Nodes, node' = n, StartRun(n) PROVE SpacesInv'
    <2>1. /\ \A i \in DOMAIN runs : i \in DOMAIN runs' /\ runs'[i] = runs[i]
          /\ \A i \in DOMAIN runs' : i \in DOMAIN runs \/ i = Current + 1
          /\ Current + 1 \in DOMAIN runs' /\ Current + 1 \notin DOMAIN runs
          /\ runs'[Current + 1] = [node |-> n, step |-> "namespace"]
          /\ Len(runs') = Current + 1 /\ Len(runs') <= MaxRuns
      BY <1>5, StartIs
    <2>6. \A i \in DOMAIN runs : i \in DOMAIN runs'
      BY <2>1
    <2>7. \A i \in DOMAIN runs : runs'[i] = runs[i]
      BY <2>1
    <2>8. /\ Current' = Current + 1 /\ Current + 1 \in Ids
          /\ runs'[Current + 1].step = "namespace"
      BY <1>0, <2>1, NodeAssumption DEF Current, Ids
    <2>2. spaces[Current + 1] = "none"
      BY <2>1, <2>8 DEF SpacesInv
    <2>3. node' # None
      BY <1>5, NodeAssumption
    <2>4. \A i \in Ids : i \notin DOMAIN runs' => spaces'[i] = "none"
      BY <1>6, <2>6
    <2>5. ASSUME NEW i \in DOMAIN runs'
          PROVE  /\ runs'[i].step \in {"namespace", "unheard", "refused"} => spaces'[i] = "none"
                 /\ runs'[i].step \in {"namespace", "unheard"} =>
                      i \in excused'.left \/ (i = Current' /\ runs'[i].step = "namespace")
      <3>1. CASE i \in DOMAIN runs
        <4>1. runs'[i] = runs[i]
          BY <2>7, <3>1
        <4>2. runs'[i].step \in {"namespace", "unheard"} => i \in excused'.left
          BY <1>3, <3>1, <4>1
        <4>3. runs'[i].step \in {"namespace", "unheard", "refused"} => spaces'[i] = "none"
          BY <1>6, <3>1, <4>1
        <4> QED
          BY <4>2, <4>3
      <3>2. CASE i = Current + 1
        BY <2>2, <2>8, <3>2
      <3> QED
        BY <2>1, <3>1, <3>2
    <2> QED
      BY <1>1, <1>2, <2>3, <2>4, <2>5 DEF SpacesInv, DebugSpaceOwned
  <1> QED
    BY <1>4, <1>5

\* The page goes, and with it its runs.
LEMMA SpacesClosed ==
  ASSUME RunsInv, SpacesInv, closeTab(FALSE)
  PROVE  SpacesInv'
  <1>0. DOMAIN runs \subseteq Ids /\ \A i \in DOMAIN runs : runs[i] \in RunType
    BY RunIds
  <1>1. /\ node # None /\ node' = None /\ spaces' = spaces
        /\ deletes' = deletes \cup (IF Named(Current) THEN {Current} ELSE {})
        /\ excused' = [excused EXCEPT !.left = @ \cup
                         {i \in DOMAIN runs : runs[i].step = "namespace"}]
        /\ runs' = [i \in DOMAIN runs |->
                      [runs[i] EXCEPT !.step = IF @ = "namespace" THEN "unheard" ELSE "dead"]]
    BY DEF closeTab
  <1>2. /\ excused' \in [left : SUBSET Ids, kept : SUBSET Ids, overtaken : BOOLEAN]
        /\ excused'.kept = excused.kept
        /\ excused'.left = excused.left \cup {i \in DOMAIN runs : runs[i].step = "namespace"}
    BY <1>0, <1>1 DEF SpacesInv
  <1>3. /\ DOMAIN runs' = DOMAIN runs
        /\ \A i \in DOMAIN runs :
             runs'[i].step = IF runs[i].step = "namespace" THEN "unheard" ELSE "dead"
    BY <1>0, <1>1 DEF RunType
  <1>4. \A i \in Ids : spaces[i] = "live" => i \in deletes' \cup excused'.left \cup excused'.kept
    BY <1>1, <1>2, Released
  <1>5. \A i \in DOMAIN runs' :
          /\ runs'[i].step \in {"namespace", "unheard", "refused"} =>
               spaces'[i] = "none" /\ i \in excused'.left
    BY <1>1, <1>2, <1>3 DEF SpacesInv
  <1> QED
    BY <1>1, <1>2, <1>3, <1>4, <1>5 DEF SpacesInv, DebugSpaceOwned

\* The namespace of a run the tab waits for, or of an excused one, exists.
LEMMA SpacesCreated ==
  ASSUME RunsInv, SpacesInv, NEW id \in DOMAIN runs, NamespaceCreated(id)
  PROVE  SpacesInv'
  <1> DEFINE s == IF runs[id].step = "unheard" THEN "dead" ELSE "pod"
  <1>0. DOMAIN runs \subseteq Ids /\ id \in Ids
    BY RunIds
  <1>1. /\ spaces' = [spaces EXCEPT ![id] = "live"] /\ Step(id, s)
        /\ runs[id].step \in {"namespace", "unheard"}
        /\ UNCHANGED <<node, deletes, excused>>
    BY DEF NamespaceCreated, At
  <1>2. /\ DOMAIN runs' = DOMAIN runs /\ Len(runs') = Len(runs) /\ runs'[id].step = s
        /\ \A i \in DOMAIN runs : i # id => runs'[i] = runs[i]
    BY <1>1, StepIs DEF RunsInv
  <1>3. Current' = Current
    BY <1>2 DEF Current
  <1>4. spaces' \in [Ids -> {"none", "live", "deleting", "gone"}]
        /\ spaces'[id] = "live" /\ \A i \in Ids : i # id => spaces'[i] = spaces[i]
    BY <1>0, <1>1 DEF SpacesInv
  <1>5. id \in excused.left \/ (node # None /\ id = Current)
    BY <1>1 DEF SpacesInv
  <1>6. runs'[id].step \in {"dead", "pod"}
    BY <1>2
  <1> HIDE DEF s
  <1>7. DebugSpaceOwned'
    BY <1>1, <1>2, <1>3, <1>4, <1>5, <1>6, <1>0 DEF DebugSpaceOwned, SpacesInv
  <1> QED
    BY <1>0, <1>1, <1>2, <1>3, <1>4, <1>6, <1>7 DEF SpacesInv

\* A run that is done, or fails and asks for its namespace to be deleted, or is
\* refused one.
LEMMA SpacesStepped ==
  ASSUME RunsInv, SpacesInv, NEW id \in DOMAIN runs, NEW s, Step(id, s),
         UNCHANGED <<node, spaces>>,
         excused' = [excused EXCEPT !.overtaken = @ \/ (node # None /\ id # Current)],
         \/ s = "refused" /\ runs[id].step = "namespace" /\ deletes' = deletes
         \/ s = "failed" /\ runs[id].step = "pod" /\ deletes' = deletes \cup {id}
         \/ s = "done" /\ runs[id].step = "pod" /\ deletes' = deletes
  PROVE  SpacesInv'
  <1>0. DOMAIN runs \subseteq Ids /\ id \in Ids
    BY RunIds
  <1>1. /\ DOMAIN runs' = DOMAIN runs /\ Len(runs') = Len(runs) /\ runs'[id].step = s
        /\ \A i \in DOMAIN runs : i # id => runs'[i] = runs[i]
    BY StepIs DEF RunsInv
  <1>2. Current' = Current
    BY <1>1 DEF Current
  <1>3. /\ excused' \in [left : SUBSET Ids, kept : SUBSET Ids, overtaken : BOOLEAN]
        /\ excused'.left = excused.left /\ excused'.kept = excused.kept
    BY DEF SpacesInv
  <1>4. DebugSpaceOwned'
    <2> SUFFICES ASSUME NEW i \in Ids, spaces[i] = "live"
                 PROVE  \/ node # None /\ i = Current /\ runs'[i].step # "failed"
                        \/ i \in deletes' \cup excused.left \cup excused.kept
      BY <1>2, <1>3 DEF DebugSpaceOwned
    <2>1. i \in DOMAIN runs
      BY DEF SpacesInv
    <2>2. CASE i # id
      BY <1>1, <2>1, <2>2 DEF SpacesInv, DebugSpaceOwned
    <2>3. CASE i = id
      BY <1>1, <2>1, <2>3 DEF SpacesInv, DebugSpaceOwned
    <2> QED
      BY <2>2, <2>3
  <1> QED
    BY <1>0, <1>1, <1>2, <1>3, <1>4 DEF SpacesInv

\* The cluster answers a request to delete a namespace.
LEMMA SpacesAnswered ==
  ASSUME RunsInv, SpacesInv, NEW id \in DOMAIN runs, NEW ok \in BOOLEAN, DeleteAnswered(id, ok)
  PROVE  SpacesInv'
  <1>0. DOMAIN runs \subseteq Ids /\ id \in Ids
    BY RunIds
  <1>1. /\ deletes' = deletes \ {id} /\ UNCHANGED <<node, runs>>
        /\ spaces' = IF ok /\ spaces[id] = "live" THEN [spaces EXCEPT ![id] = "deleting"] ELSE spaces
        /\ excused' = [excused EXCEPT !.kept = IF ok THEN @ ELSE @ \cup {id}]
    BY DEF DeleteAnswered
  <1>2. /\ excused' \in [left : SUBSET Ids, kept : SUBSET Ids, overtaken : BOOLEAN]
        /\ excused'.left = excused.left /\ excused.kept \subseteq excused'.kept
        /\ ~ok => id \in excused'.kept
    BY <1>0, <1>1 DEF SpacesInv
  <1>3. /\ spaces' \in [Ids -> {"none", "live", "deleting", "gone"}]
        /\ \A i \in Ids : i # id => spaces'[i] = spaces[i]
        /\ spaces[id] = "none" => spaces'[id] = "none"
        /\ spaces'[id] = "live" => spaces[id] = "live" /\ ~ok
    BY <1>0, <1>1 DEF SpacesInv
  <1>4. Current' = Current
    BY <1>1 DEF Current
  <1>5. DebugSpaceOwned'
    <2> SUFFICES ASSUME NEW i \in Ids, spaces'[i] = "live"
                 PROVE  \/ node # None /\ i = Current /\ runs[i].step # "failed"
                        \/ i \in deletes' \cup excused'.left \cup excused'.kept
      BY <1>1, <1>4 DEF DebugSpaceOwned
    <2>1. CASE i = id
      BY <1>2, <1>3, <2>1
    <2>2. CASE i # id
      BY <1>1, <1>2, <1>3, <2>2 DEF SpacesInv, DebugSpaceOwned
    <2> QED
      BY <2>1, <2>2
  <1>6. \A i \in Ids : spaces[i] = "none" => spaces'[i] = "none"
    BY <1>3
  <1> QED
    BY <1>0, <1>1, <1>2, <1>3, <1>4, <1>5, <1>6 DEF SpacesInv

\* A namespace the cluster has deleted.
LEMMA SpacesGone ==
  ASSUME RunsInv, SpacesInv, NEW id \in DOMAIN runs, NamespaceGone(id)
  PROVE  SpacesInv'
  <1>0. DOMAIN runs \subseteq Ids /\ id \in Ids
    BY RunIds
  <1>1. /\ spaces[id] = "deleting" /\ spaces' = [spaces EXCEPT ![id] = "gone"]
        /\ UNCHANGED <<node, runs, deletes, excused>>
    BY DEF NamespaceGone
  <1>2. /\ spaces' \in [Ids -> {"none", "live", "deleting", "gone"}]
        /\ \A i \in Ids : spaces[i] = "none" => spaces'[i] = "none"
        /\ \A i \in Ids : spaces'[i] = "live" => spaces[i] = "live"
    BY <1>0, <1>1 DEF SpacesInv
  <1>3. Current' = Current
    BY <1>1 DEF Current
  <1> QED
    BY <1>0, <1>1, <1>2, <1>3 DEF SpacesInv, DebugSpaceOwned

\* Steps that only watch.
LEMMA SpacesAside ==
  ASSUME SpacesInv, UNCHANGED <<node, runs, spaces, deletes>>,
         NEW b \in BOOLEAN, excused' = [excused EXCEPT !.overtaken = b]
  PROVE  SpacesInv'
  <1>1. /\ excused' \in [left : SUBSET Ids, kept : SUBSET Ids, overtaken : BOOLEAN]
        /\ excused'.left = excused.left /\ excused'.kept = excused.kept
    BY DEF SpacesInv
  <1>2. Current' = Current
    BY DEF Current
  <1> QED
    BY <1>1, <1>2 DEF SpacesInv, DebugSpaceOwned

\* The namespaces through every step of the tab and the cluster.
LEMMA SpacesInductive == RunsInv /\ SpacesInv /\ [NodeNext]_nodeVars => SpacesInv'
  <1> SUFFICES ASSUME RunsInv, SpacesInv, [NodeNext]_nodeVars PROVE SpacesInv'
    OBVIOUS
  <1>0. DOMAIN runs \subseteq Ids
    BY RunIds
  <1>1. ASSUME UNCHANGED <<node, runs, clusterVars, excused>> PROVE SpacesInv'
    BY <1>1 DEF SpacesInv, DebugSpaceOwned, clusterVars, Current
  <1>2. CASE UNCHANGED nodeVars
    BY <1>1, <1>2 DEF nodeVars
  <1>3. ASSUME NEW n \in Nodes, OpenNode(n) PROVE SpacesInv'
    <2>1. /\ node = None /\ runs = <<>> /\ node' = n /\ StartRun(n)
          /\ UNCHANGED <<spaces, deletes, excused>>
      BY <1>3 DEF OpenNode, clusterVars
    <2>2. /\ \A i \in DOMAIN runs' : i = 1 /\ runs'[i].step = "namespace"
          /\ Current' = 1
      <3>1. Current = 0 /\ DOMAIN runs = {}
        BY <2>1 DEF Current
      <3>2. /\ \A i \in DOMAIN runs' : i \in DOMAIN runs \/ i = Current + 1
            /\ runs'[Current + 1] = [node |-> n, step |-> "namespace"]
            /\ Len(runs') = Current + 1
        BY <2>1, StartIs
      <3> QED
        BY <3>1, <3>2 DEF Current
    <2>3. \A i \in Ids : spaces[i] = "none"
      BY <2>1 DEF SpacesInv
    <2>4. node' # None
      BY <2>1, NodeAssumption
    <2>5. \A i \in DOMAIN runs' : i \in Ids
      BY <2>1, <2>2, StartIs, NodeAssumption DEF Ids, Current
    <2>6. /\ spaces' \in [Ids -> {"none", "live", "deleting", "gone"}]
          /\ excused' \in [left : SUBSET Ids, kept : SUBSET Ids, overtaken : BOOLEAN]
          /\ \A i \in Ids : spaces'[i] = "none"
      BY <2>1, <2>3 DEF SpacesInv
    <2> QED
      BY <2>2, <2>4, <2>5, <2>6 DEF SpacesInv, DebugSpaceOwned
  <1>4. ASSUME NEW n \in Nodes, SwitchNode(n) PROVE SpacesInv'
    BY <1>4, SpacesLeft DEF SwitchNode, CleanUp
  <1>5. CASE LeaveNode
    BY <1>5, SpacesLeft DEF LeaveNode
  <1>6. ASSUME NEW stays \in BOOLEAN, closeTab(stays) PROVE SpacesInv'
    <2>1. CASE ~stays
      BY <1>6, <2>1, SpacesClosed
    <2>2. CASE stays
      <3>1. UNCHANGED <<node, runs, spaces, excused>> /\ deletes \subseteq deletes'
        BY <1>6, <2>2 DEF closeTab
      <3> QED
        BY <3>1 DEF SpacesInv, DebugSpaceOwned, Current
    <2> QED
      BY <2>1, <2>2
  <1>7. ASSUME NEW id \in DOMAIN runs, NamespaceCreated(id) PROVE SpacesInv'
    BY <1>7, SpacesCreated
  <1>8. ASSUME NEW id \in DOMAIN runs, NamespaceRefused(id) PROVE SpacesInv'
    <2>1. /\ runs[id].step = "namespace" /\ Step(id, "refused") /\ deletes' = deletes
          /\ UNCHANGED <<node, spaces>>
          /\ excused' = [excused EXCEPT !.overtaken = @ \/ (node # None /\ id # Current)]
      BY <1>8 DEF NamespaceRefused, Catch, At, Overtakes
    <2> QED
      BY <2>1, SpacesStepped
  <1>9. ASSUME NEW id \in DOMAIN runs, PodRefused(id) PROVE SpacesInv'
    <2>1. /\ runs[id].step = "pod" /\ Step(id, "failed") /\ deletes' = deletes \cup {id}
          /\ UNCHANGED <<node, spaces>>
          /\ excused' = [excused EXCEPT !.overtaken = @ \/ (node # None /\ id # Current)]
      BY <1>9 DEF PodRefused, Catch, At, Overtakes
    <2> QED
      BY <2>1, SpacesStepped
  <1>10. ASSUME NEW id \in DOMAIN runs, NEW user \in Usernames, PodCreated(id, user) PROVE SpacesInv'
    <2>1. /\ runs[id].step = "pod" /\ Step(id, "done") /\ deletes' = deletes
          /\ UNCHANGED <<node, spaces>>
          /\ excused' = [excused EXCEPT !.overtaken = @ \/ (node # None /\ id # Current)]
      BY <1>10 DEF PodCreated, At, Overtakes
    <2> QED
      BY <2>1, SpacesStepped
  <1>11. ASSUME NEW id \in DOMAIN runs, NEW ok \in BOOLEAN, DeleteAnswered(id, ok) PROVE SpacesInv'
    BY <1>11, SpacesAnswered
  <1>12. ASSUME NEW id \in DOMAIN runs, NamespaceGone(id) PROVE SpacesInv'
    BY <1>12, SpacesGone
  <1>13. ASSUME NEW id \in DOMAIN runs, NEW phase \in {"Running", "Failed"}, PodMoves(id, phase)
         PROVE  SpacesInv'
    BY <1>13 DEF PodMoves, SpacesInv, DebugSpaceOwned, Current
  <1>14. CASE WatchReports
    <2> DEFINE b == excused.overtaken \/ (node # None /\ shown # Current)
    <2>1. /\ UNCHANGED <<node, runs, spaces, deletes>>
          /\ excused' = [excused EXCEPT !.overtaken = b]
      BY <1>14 DEF WatchReports, Overtakes, clusterVars
    <2>2. b \in BOOLEAN
      BY DEF SpacesInv
    <2> HIDE DEF b
    <2> QED
      BY <2>1, <2>2, SpacesAside
  <1>15. CASE ShellOpens \/ ShellData \/ HintTimer
    BY <1>1, <1>15 DEF ShellOpens, ShellData, HintTimer
  <1>16. ASSUME NEW clean \in BOOLEAN, NEW closes \in BOOLEAN, ShellEnds(clean, closes)
         PROVE  SpacesInv'
    BY <1>1, <1>16 DEF ShellEnds
  <1>17. ASSUME NEW ready \in BOOLEAN, NodeFonts(ready) PROVE SpacesInv'
    BY <1>1, <1>17 DEF NodeFonts
  <1>18. ASSUME NEW w \in Columns, NodeResize(w) PROVE SpacesInv'
    BY <1>1, <1>18 DEF NodeResize
  <1> QED
    BY <1>2, <1>3, <1>4, <1>5, <1>6, <1>7, <1>8, <1>9, <1>10, <1>11, <1>12, <1>13, <1>14, <1>15,
       <1>16, <1>17, <1>18 DEF NodeNext

\* The channel of a new session.
LEMMA NodeChannel ==
  ASSUME NEW id \in Ids, NEW t, t = None \/ (t \in ScreenType /\ (t.opened => t.size \in Columns))
  PROVE  LET ch == NewChannel(t)
             sh == [id |-> id, sock |-> ch.sock, size |-> ch.size, pty |-> ch.pty]
         IN  /\ sh \in ShellType /\ sh.id = id /\ sh.sock = "connecting"
             /\ getSize(t) # None => sh.size = getSize(t)
  <1> DEFINE ch == NewChannel(t)
             sh == [id |-> id, sock |-> ch.sock, size |-> ch.size, pty |-> ch.pty]
             size == getSize(t)
  <1>1. size \in Columns \cup {None}
    BY DEF getSize
  <1>2. NewChannel(t) = [sock |-> "connecting", size |-> size, pty |-> None]
    BY DEF NewChannel, NewSocket, sendResize
  <1> HIDE DEF size
  <1>3. sh = [id |-> id, sock |-> "connecting", size |-> size, pty |-> None]
    BY <1>2
  <1>4. sh \in ShellType /\ sh.id = id /\ sh.sock = "connecting" /\ sh.size = size
    BY <1>1, <1>3 DEF ShellType
  <1> QED
    BY <1>4 DEF size

\* Nothing is shown of a channel that is closed.
LEMMA NodeShellDown ==
  ASSUME shell' # None => shell' \in ShellType /\ shell'.sock = "closed",
         screen' # None => screen' \in ScreenType /\ (screen'.opened => screen'.size \in Columns),
         columns' \in Columns, hintTimer' => ~output', (hint' /\ shell' # None) => ~output'
  PROVE  NodeShellInv'
  BY DEF NodeShellInv, Up

\* Steps of runs leave the channel alone, and at most clear the terminal.
LEMMA NodeShellKept ==
  ASSUME RunsInv, NodeShellInv, shell' = shell, screen' = screen \/ screen' = None,
         UNCHANGED <<node, shown, output, hint, hintTimer, columns>>,
         \A i \in DOMAIN runs : runs'[i].node = runs[i].node,
         excused.overtaken => excused'.overtaken
  PROVE  NodeShellInv'
  <1>1. Up({"connecting", "open"}) =>
          /\ shell.id \in DOMAIN runs
          /\ excused'.overtaken \/ runs'[shell.id].node = node
    BY NodeAssumption DEF NodeShellInv, RunsInv, Up, ShellType, Ids
  <1> QED
    BY <1>1 DEF NodeShellInv, Up, getSize

\* The terminal takes the size of the window and tells the channel.
LEMMA NodeShellFits ==
  ASSUME RunsInv, NodeShellInv, screen # None, NEW w \in Columns, columns' = w,
         screen' = Opened(screen, w), shell' = Reported(shell, w),
         UNCHANGED <<node, runs, shown, output, hint, hintTimer, excused>>
  PROVE  NodeShellInv'
  <1>1. screen' \in ScreenType /\ screen'.opened /\ screen'.size = w
    BY DEF NodeShellInv, Opened, ScreenType
  <1>2. screen' # None /\ getSize(screen') = w
    BY <1>1, NodeAssumption DEF ScreenType, getSize
  <1>3. CASE shell = None
    BY <1>1, <1>3 DEF NodeShellInv, Reported, Up
  <1>4. CASE shell # None
    <2>1. shell \in ShellType
      BY <1>4 DEF NodeShellInv
    <2>2. shell' = [shell EXCEPT !.size = w, !.pty = IF shell.sock = "open" THEN w ELSE shell.pty]
      BY <1>4 DEF Reported, sendResize
    <2>3. /\ shell' \in ShellType /\ shell'.sock = shell.sock /\ shell'.id = shell.id
          /\ shell'.size = w /\ (shell.sock = "open" => shell'.pty = w)
      BY <2>1, <2>2 DEF ShellType
    <2> QED
      BY <1>1, <1>2, <1>4, <2>3 DEF NodeShellInv, Up
  <1> QED
    BY <1>3, <1>4

\* The watch reports the pod: a session begins, or the one there was ends.
LEMMA NodeShellBegins ==
  ASSUME RunsInv, SpacesInv, NodeShellInv, WatchReports
  PROVE  NodeShellInv'
  <1>1. /\ shown # None /\ Session(shown, watch') /\ Overtakes(shown)
        /\ UNCHANGED <<node, runs, shown, columns>>
    BY DEF WatchReports
  <1>2. CASE watch' # "Running"
    BY <1>1, <1>2, NodeShellDown DEF Session, NoSession, NodeShellInv
  <1>3. CASE watch' = "Running"
    <2>1. /\ screen' = IF failed' THEN None ELSE NewTerminal(IF loaded THEN "ready" ELSE "pending", columns)
          /\ LET ch == NewChannel(screen')
             IN  shell' = [id |-> shown, sock |-> ch.sock, size |-> ch.size, pty |-> ch.pty]
          /\ output' = FALSE /\ hint' = FALSE /\ hintTimer' = FALSE
      BY <1>1, <1>3 DEF Session
    <2>2. screen' = None \/ (screen' \in ScreenType /\ (screen'.opened => screen'.size \in Columns))
      BY <2>1 DEF NewTerminal, ScreenType, XtermSize, NodeShellInv
    <2>3. node # None /\ shown \in DOMAIN runs /\ shown \in Ids
      BY <1>1, RunIds DEF RunsInv
    <2>4. /\ shell' \in ShellType /\ shell'.id = shown /\ shell'.sock = "connecting"
          /\ getSize(screen') # None => shell'.size = getSize(screen')
      BY <2>1, <2>2, <2>3, NodeChannel
    <2>5. excused'.overtaken \/ runs'[shown].node = node'
      <3>1. excused'.overtaken = (excused.overtaken \/ (node # None /\ shown # Current))
        BY <1>1 DEF Overtakes, SpacesInv
      <3> QED
        BY <1>1, <2>3, <3>1 DEF RunsInv
    <2>6. getSize(screen') # None => getSize(screen') = screen'.size
      BY DEF getSize
    <2> QED
      BY <1>1, <2>1, <2>2, <2>4, <2>5, <2>6 DEF NodeShellInv, Up
  <1> QED
    BY <1>2, <1>3

\* The shell through every step of the tab.
LEMMA NodeShellInductive ==
  RunsInv /\ SpacesInv /\ NodeShellInv /\ [NodeNext]_nodeVars => NodeShellInv'
  <1> SUFFICES ASSUME RunsInv, SpacesInv, NodeShellInv, [NodeNext]_nodeVars PROVE NodeShellInv'
    OBVIOUS
  <1>0. /\ DOMAIN runs \subseteq Ids /\ \A i \in DOMAIN runs : runs[i] \in RunType
        /\ columns \in Columns
    BY RunIds DEF NodeShellInv
  <1>1. ASSUME UNCHANGED <<node, shown, shellVars, columns>>,
               \A i \in DOMAIN runs : runs'[i].node = runs[i].node,
               excused'.overtaken = excused.overtaken
        PROVE  NodeShellInv'
    BY <1>1, NodeShellKept DEF shellVars
  <1>2. CASE UNCHANGED nodeVars
    BY <1>1, <1>2 DEF nodeVars
  <1>3. ASSUME NoSession, columns' = columns PROVE NodeShellInv'
    BY <1>0, <1>3, NodeShellDown DEF NoSession
  <1>4. ASSUME NEW n \in Nodes, OpenNode(n) PROVE NodeShellInv'
    <2>1. shell = None /\ UNCHANGED <<shellVars, columns>>
      BY <1>4 DEF OpenNode, RunsInv
    <2> QED
      BY <1>0, <2>1, NodeShellDown DEF shellVars, NodeShellInv
  <1>5. ASSUME NEW n \in Nodes, SwitchNode(n) PROVE NodeShellInv'
    <2>1. shell' = destroy(shell) /\ UNCHANGED <<screen, output, hint, hintTimer, columns>>
      BY <1>5 DEF SwitchNode, CleanUp
    <2>2. shell' # None => shell # None /\ shell' \in ShellType /\ shell'.sock = "closed"
      BY <2>1 DEF destroy, NodeShellInv, ShellType
    <2> QED
      BY <1>0, <2>1, <2>2, NodeShellDown DEF NodeShellInv
  <1>6. CASE LeaveNode
    BY <1>3, <1>6 DEF LeaveNode
  <1>7. ASSUME NEW stays \in BOOLEAN, closeTab(stays) PROVE NodeShellInv'
    BY <1>1, <1>3, <1>7 DEF closeTab
  <1>8. ASSUME NEW id \in DOMAIN runs, NamespaceCreated(id) PROVE NodeShellInv'
    <2>1. \E s \in {"dead", "pod"} : Step(id, s)
      BY <1>8 DEF NamespaceCreated
    <2>2. \A i \in DOMAIN runs : runs'[i].node = runs[i].node
      BY <2>1, StepIs DEF RunsInv
    <2> QED
      BY <1>1, <1>8, <2>2 DEF NamespaceCreated
  <1>9. ASSUME NEW id \in DOMAIN runs, NamespaceRefused(id) \/ PodRefused(id) PROVE NodeShellInv'
    <2>1. /\ \E s \in {"refused", "failed"} : Step(id, s)
          /\ Overtakes(id) /\ screen' = IF node # None THEN None ELSE screen
          /\ UNCHANGED <<node, shown, shell, output, hint, hintTimer, columns>>
      BY <1>9 DEF NamespaceRefused, PodRefused, Catch
    <2>2. \A i \in DOMAIN runs : runs'[i].node = runs[i].node
      BY <2>1, StepIs DEF RunsInv
    <2>3. excused.overtaken => excused'.overtaken
      BY <2>1 DEF Overtakes, SpacesInv
    <2> QED
      BY <2>1, <2>2, <2>3, NodeShellKept
  <1>10. ASSUME NEW id \in DOMAIN runs, NEW user \in Usernames, PodCreated(id, user)
         PROVE  NodeShellInv'
    <2>1. CASE node = None
      <3>1. shell = None /\ UNCHANGED <<shellVars, columns>>
        BY <1>10, <2>1 DEF PodCreated, RunsInv
      <3> QED
        BY <1>0, <3>1, NodeShellDown DEF shellVars, NodeShellInv
    <2>2. CASE node # None
      BY <1>3, <1>10, <2>2 DEF PodCreated
    <2> QED
      BY <2>1, <2>2
  <1>11. ASSUME NEW id \in DOMAIN runs, NEW ok \in BOOLEAN, DeleteAnswered(id, ok)
         PROVE  NodeShellInv'
    <2>1. excused'.overtaken = excused.overtaken
      BY <1>11 DEF DeleteAnswered, SpacesInv
    <2> QED
      BY <1>1, <1>11, <2>1 DEF DeleteAnswered
  <1>12. ASSUME NEW id \in DOMAIN runs, NamespaceGone(id) PROVE NodeShellInv'
    BY <1>1, <1>12 DEF NamespaceGone
  <1>13. ASSUME NEW id \in DOMAIN runs, NEW phase \in {"Running", "Failed"}, PodMoves(id, phase)
         PROVE  NodeShellInv'
    BY <1>1, <1>13 DEF PodMoves
  <1>14. CASE ShellOpens
    <2>1. /\ shell # None /\ shell.sock = "connecting" /\ shell' = onopen(shell)
          /\ UNCHANGED <<node, runs, shown, screen, output, hint, columns, excused>>
      BY <1>14 DEF ShellOpens, Up
    <2>2. /\ shell \in ShellType /\ ~output
          /\ getSize(screen) # None => shell.size = screen.size
      BY <2>1 DEF NodeShellInv, Up
    <2>3. /\ shell' \in ShellType /\ shell'.id = shell.id /\ shell'.size = shell.size
          /\ shell'.sock = "open" /\ (shell.size # None => shell'.pty = shell.size)
      BY <2>1, <2>2 DEF onopen, sendResize, ShellType
    <2>4. getSize(screen) # None => getSize(screen) = screen.size
      BY DEF getSize
    <2>5. /\ screen # None => screen \in ScreenType /\ (screen.opened => screen.size \in Columns)
          /\ shell.id = shown /\ (excused.overtaken \/ runs[shell.id].node = node)
      BY <2>1 DEF NodeShellInv, Up
    <2> QED
      BY <1>0, <2>1, <2>2, <2>3, <2>4, <2>5 DEF NodeShellInv, Up
  <1>15. CASE ShellData
    <2>1. /\ shell # None /\ shell.sock = "open" /\ hintTimer' = FALSE /\ hint' = FALSE
          /\ UNCHANGED <<node, runs, shown, shell, screen, columns, excused>>
      BY <1>15 DEF ShellData, Up
    <2> QED
      BY <2>1 DEF NodeShellInv, Up, getSize
  <1>16. ASSUME NEW clean \in BOOLEAN, NEW closes \in BOOLEAN, ShellEnds(clean, closes)
         PROVE  NodeShellInv'
    <2>1. /\ shell # None /\ shell.sock = "open"
          /\ shell' = IF closes THEN destroy(shell) ELSE shell
          /\ screen' = IF clean THEN screen ELSE onConnectionClosed(screen)
          /\ UNCHANGED <<node, runs, shown, output, hint, hintTimer, columns, excused>>
      BY <1>16 DEF ShellEnds, Up
    <2>2. /\ (screen' = None) = (screen = None)
          /\ screen # None => /\ screen' \in ScreenType /\ screen'.opened = screen.opened
                              /\ screen'.size = screen.size
                              /\ screen.opened => screen.size \in Columns
      BY <2>1, NodeAssumption DEF onConnectionClosed, NodeShellInv, ScreenType
    <2>3. shell' # None => /\ shell' \in ShellType /\ shell'.id = shell.id /\ shell'.size = shell.size
                           /\ shell'.pty = shell.pty /\ shell'.sock \in {"open", "closed"}
      BY <2>1 DEF destroy, NodeShellInv, ShellType
    <2>4. getSize(screen') = getSize(screen)
      BY <2>2 DEF getSize
    <2>5. getSize(screen) # None => screen'.size = screen.size
      BY <2>2 DEF getSize
    <2> QED
      BY <1>0, <2>1, <2>2, <2>3, <2>4, <2>5 DEF NodeShellInv, Up
  <1>17. CASE HintTimer
    <2>1. /\ ~output /\ hintTimer' = FALSE
          /\ UNCHANGED <<node, runs, shown, shell, screen, output, columns, excused>>
      BY <1>17 DEF HintTimer, NodeShellInv
    <2> QED
      BY <2>1 DEF NodeShellInv, Up, getSize
  <1>18. ASSUME NEW ready \in BOOLEAN, NodeFonts(ready) PROVE NodeShellInv'
    <2>1. UNCHANGED <<node, runs, shown, output, hint, hintTimer, columns, excused>>
      BY <1>18 DEF NodeFonts
    <2>2. CASE screen # None /\ ~screen.opened
      BY <1>0, <1>18, <2>1, <2>2, NodeShellFits DEF NodeFonts
    <2>3. CASE ~(screen # None /\ ~screen.opened)
      BY <1>1, <1>18, <2>1, <2>3 DEF NodeFonts, shellVars
    <2> QED
      BY <2>2, <2>3
  <1>19. ASSUME NEW w \in Columns, NodeResize(w) PROVE NodeShellInv'
    <2>1. /\ screen # None /\ columns' = w
          /\ UNCHANGED <<node, runs, shown, output, hint, hintTimer, excused>>
      BY <1>19 DEF NodeResize
    <2>2. CASE screen.opened
      BY <1>19, <2>1, <2>2, NodeShellFits DEF NodeResize
    <2>3. CASE ~screen.opened
      <3>1. UNCHANGED <<screen, shell>>
        BY <1>19, <2>3 DEF NodeResize
      <3> QED
        BY <2>1, <3>1 DEF NodeShellInv, Up, getSize
    <2> QED
      BY <2>2, <2>3
  <1> QED
    BY <1>2, <1>4, <1>5, <1>6, <1>7, <1>8, <1>9, <1>10, <1>11, <1>12, <1>13, <1>14, <1>15, <1>16,
       <1>17, <1>18, <1>19, NodeShellBegins DEF NodeNext

\* A debug namespace belongs to the run its tab waits for or shows, or is asked
\* to be deleted, but for the runs whose tab went before they had named it and
\* the requests that failed; the shell that is shown runs in the pod shown, on
\* the page's node unless a run or pod of another went on, at its terminal's size
\* (NodeTerminalTab.tsx, Terminal.tsx, ExecChannel).
THEOREM DebugSessionsKept == NodeSpec => []DebugSession
  <1>1. NodeInv /\ [NodeNext]_nodeVars => NodeInv'
    BY RunsInductive, SpacesInductive, NodeShellInductive DEF NodeInv
  <1>2. NodeInv => DebugSession
    <2> SUFFICES ASSUME NodeInv PROVE NodeShellRight
      BY DEF NodeInv, SpacesInv, DebugSession
    <2>1. Sized(shell, screen)
      BY DEF NodeInv, NodeShellInv, Sized, Up, getSize
    <2> QED
      BY <2>1 DEF NodeInv, NodeShellInv, NodeShellRight, Up
  <1> QED
    BY NodeStarts, <1>1, <1>2, PTL DEF NodeSpec

\* A pod is one that was built for the node of its run.
BuiltFor(n) == {[spec |-> PodFor(n, user, Zone), phase |-> phase] :
                  user \in Usernames, phase \in {"Pending", "Running", "Failed", "gone"}}

PodsInv ==
  /\ pods = [id \in Ids |-> pods[id]]
  /\ \A id \in Ids : pods[id] # None => id \in DOMAIN runs /\ pods[id] \in BuiltFor(runs[id].node)

\* The pods through every step of the tab and the cluster.
LEMMA PodsInductive == RunsInv /\ PodsInv /\ [NodeNext]_nodeVars => PodsInv'
  <1> SUFFICES ASSUME RunsInv, PodsInv, [NodeNext]_nodeVars PROVE PodsInv'
    OBVIOUS
  <1>0. DOMAIN runs \subseteq Ids /\ \A i \in DOMAIN runs : runs[i] \in RunType
    BY RunIds
  <1>1. ASSUME pods' = pods,
               \A i \in DOMAIN runs : i \in DOMAIN runs' /\ runs'[i].node = runs[i].node
        PROVE  PodsInv'
    BY <1>1 DEF PodsInv
  <1>2. ASSUME NEW id \in Ids, NEW p, UNCHANGED runs, pods' = [pods EXCEPT ![id] = p],
               p # None => id \in DOMAIN runs /\ p \in BuiltFor(runs[id].node)
        PROVE  PodsInv'
    <2>1. /\ pods' = [i \in Ids |-> pods'[i]] /\ pods'[id] = p
          /\ \A i \in Ids : i # id => pods'[i] = pods[i]
      BY <1>2 DEF PodsInv
    <2> QED
      BY <1>2, <2>1 DEF PodsInv
  <1>3. ASSUME NEW n \in Nodes, OpenNode(n) \/ SwitchNode(n) PROVE PodsInv'
    <2>1. StartRun(n) /\ pods' = pods
      BY <1>3 DEF OpenNode, SwitchNode, clusterVars
    <2> QED
      BY <1>1, <2>1, StartIs
  <1>4. ASSUME NEW stays \in BOOLEAN, closeTab(stays) PROVE PodsInv'
    <2>1. pods' = pods
      BY <1>4 DEF closeTab
    <2>2. \A i \in DOMAIN runs : i \in DOMAIN runs' /\ runs'[i].node = runs[i].node
      BY <1>0, <1>4 DEF closeTab, RunType
    <2> QED
      BY <1>1, <2>1, <2>2
  <1>5. ASSUME NEW id \in DOMAIN runs, NEW s \in {"refused", "failed", "dead", "pod"}, Step(id, s),
               pods' = pods
        PROVE  PodsInv'
    BY <1>1, <1>5, StepIs DEF RunsInv
  <1>6. ASSUME NEW id \in DOMAIN runs,
               NamespaceCreated(id) \/ NamespaceRefused(id) \/ PodRefused(id)
        PROVE  PodsInv'
    <2>1. pods' = pods /\ \E s \in {"refused", "failed", "dead", "pod"} : Step(id, s)
      BY <1>6 DEF NamespaceCreated, NamespaceRefused, PodRefused, Catch
    <2> QED
      BY <1>5, <2>1
  <1>7. ASSUME NEW id \in DOMAIN runs, NEW user \in Usernames, PodCreated(id, user) PROVE PodsInv'
    <2> DEFINE p == [spec |-> PodFor(runs[id].node, user, Zone), phase |-> "Pending"]
    <2>1. Step(id, "done") /\ pods' = [pods EXCEPT ![id] = p]
      BY <1>7 DEF PodCreated
    <2>2. p \in BuiltFor(runs[id].node)
      BY DEF BuiltFor
    <2>3. \A i \in DOMAIN runs : i \in DOMAIN runs' /\ runs'[i].node = runs[i].node
      BY <2>1, StepIs DEF RunsInv
    <2> HIDE DEF p
    <2>4. /\ pods' = [i \in Ids |-> pods'[i]] /\ pods'[id] = p
          /\ \A i \in Ids : i # id => pods'[i] = pods[i]
      BY <1>0, <2>1 DEF PodsInv
    <2> QED
      BY <1>0, <2>2, <2>3, <2>4 DEF PodsInv
  <1>8. ASSUME NEW n, NEW p \in BuiltFor(n), NEW phase \in {"Running", "Failed", "gone"}
        PROVE  [p EXCEPT !.phase = phase] \in BuiltFor(n)
    <2>1. PICK user \in Usernames, was \in {"Pending", "Running", "Failed", "gone"} :
            p = [spec |-> PodFor(n, user, Zone), phase |-> was]
      BY <1>8 DEF BuiltFor
    <2>2. [p EXCEPT !.phase = phase] = [spec |-> PodFor(n, user, Zone), phase |-> phase]
      BY <2>1
    <2> QED
      BY <2>2 DEF BuiltFor
  <1>9. ASSUME NEW id \in DOMAIN runs, NamespaceGone(id) PROVE PodsInv'
    <2> DEFINE p == IF pods[id] = None THEN None ELSE [pods[id] EXCEPT !.phase = "gone"]
    <2>1. UNCHANGED runs /\ pods' = [pods EXCEPT ![id] = p]
      BY <1>0, <1>9 DEF NamespaceGone, PodsInv
    <2>2. p # None => p \in BuiltFor(runs[id].node)
      BY <1>0, <1>8 DEF PodsInv
    <2> HIDE DEF p
    <2> QED
      BY <1>0, <1>2, <2>1, <2>2
  <1>10. ASSUME NEW id \in DOMAIN runs, NEW phase \in {"Running", "Failed"}, PodMoves(id, phase)
         PROVE  PodsInv'
    <2> DEFINE p == [pods[id] EXCEPT !.phase = phase]
    <2>1. UNCHANGED runs /\ pods' = [pods EXCEPT ![id] = p]
      BY <1>0, <1>10 DEF PodMoves, PodsInv
    <2>2. pods[id] # None => p \in BuiltFor(runs[id].node)
      BY <1>0, <1>8 DEF PodsInv
    <2>3. pods[id] # None
      BY <1>10 DEF PodMoves
    <2> HIDE DEF p
    <2> QED
      BY <1>0, <1>2, <2>1, <2>2, <2>3
  <1>11. CASE LeaveNode \/ WatchReports \/ ShellOpens \/ ShellData \/ HintTimer \/ UNCHANGED nodeVars
    BY <1>1, <1>11
       DEF LeaveNode, WatchReports, ShellOpens, ShellData, HintTimer, nodeVars, clusterVars
  <1>12. ASSUME NEW clean \in BOOLEAN, NEW closes \in BOOLEAN, ShellEnds(clean, closes) PROVE PodsInv'
    BY <1>1, <1>12 DEF ShellEnds, clusterVars
  <1>13. ASSUME NEW ready \in BOOLEAN, NodeFonts(ready) PROVE PodsInv'
    BY <1>1, <1>13 DEF NodeFonts, clusterVars
  <1>14. ASSUME NEW w \in Columns, NodeResize(w) PROVE PodsInv'
    BY <1>1, <1>14 DEF NodeResize, clusterVars
  <1>15. ASSUME NEW id \in DOMAIN runs, NEW ok \in BOOLEAN, DeleteAnswered(id, ok) PROVE PodsInv'
    BY <1>1, <1>15 DEF DeleteAnswered
  <1> QED
    BY <1>3, <1>4, <1>6, <1>7, <1>9, <1>10, <1>11, <1>12, <1>13, <1>14, <1>15 DEF NodeNext

\* However runs interleave, a pod is the one built for the node of its own run
\* (createDebugPod, getDebugPod). With it, what PodAsConfigured says of the pods
\* is a statement about getDebugPod alone.
PodsBuilt ==
  \A id \in Ids : pods[id] # None =>
    \E user \in Usernames : pods[id].spec = PodFor(runs[id].node, user, Zone)

THEOREM PodsAreBuilt == NodeSpec => []PodsBuilt
  <1>1. NodeInit => RunsInv /\ PodsInv
    BY NodeStarts DEF NodeInv, NodeInit, PodsInv
  <1>2. RunsInv /\ PodsInv /\ [NodeNext]_nodeVars => RunsInv' /\ PodsInv'
    BY RunsInductive, PodsInductive
  <1>3. PodsInv => PodsBuilt
    BY DEF PodsInv, PodsBuilt, BuiltFor
  <1> QED
    BY <1>1, <1>2, <1>3, PTL DEF NodeSpec
=============================================================================

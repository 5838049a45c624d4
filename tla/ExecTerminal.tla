---------------------------- MODULE ExecTerminal ----------------------------
(* The two parts the pod and the node terminal share: ExecChannel, a websocket *)
(* to pods/exec that remembers the last size asked for, and Terminal, the      *)
(* xterm.js wrapper that opens once its font has loaded (or a timeout) and     *)
(* reports its size. The remote pty's size is part of the channel: None until  *)
(* a resize got through.                                                       *)
EXTENDS Absent, Naturals

XtermSize == 0

NewSocket == [sock |-> "connecting", size |-> None, pty |-> None]

\* Remembered even while nothing can be sent.
sendResize(ch, n) ==
  [ch EXCEPT !.size = n, !.pty = IF ch.sock = "open" THEN n ELSE @]

onopen(ch) ==
  LET up == [ch EXCEPT !.sock = "open"]
  IN IF up.size = None THEN up ELSE sendResize(up, up.size)

destroy(ch) == IF ch = None THEN None ELSE [ch EXCEPT !.sock = "closed"]

\* A terminal runs headless until it is opened; fonts says whether there is
\* still a font to wait for.
NewTerminal(fonts, win) ==
  IF fonts = "pending"
    THEN [opened |-> FALSE, size |-> XtermSize, stdin |-> TRUE]
    ELSE [opened |-> TRUE, size |-> win, stdin |-> TRUE]

Opened(t, win) == [t EXCEPT !.opened = TRUE, !.size = win]

getSize(t) == IF t # None /\ t.opened THEN t.size ELSE None

\* The channel a tab creates, told the size of a terminal that opened before it.
NewChannel(t) ==
  IF getSize(t) = None THEN NewSocket ELSE sendResize(NewSocket, getSize(t))

\* Terminal.onResize through the tab's execRef.
Reported(ch, n) == IF ch = None THEN None ELSE sendResize(ch, n)

onConnectionClosed(t) == IF t = None THEN None ELSE [t EXCEPT !.stdin = FALSE]

\* What the user sees and types reaches the session: an open terminal and an
\* open socket agree on the size.
Sized(ch, t) ==
  (ch # None /\ ch.sock = "open" /\ getSize(t) # None) => ch.pty = getSize(t)
=============================================================================

----------------------------- MODULE PodTerminal -----------------------------
(* The pod's Terminal tab: one dropdown of VNC endpoints and shells, an exec  *)
(* session with its xterm for a shell entry, and VncPodConsole, which stays   *)
(* mounted from one VNC entry to the next, for the others.                    *)
(*                                                                            *)
(* React runs a commit and the effects it causes before any later event, so   *)
(* each action is an event with the whole re-render it leads to. noVNC's RFB, *)
(* the websockets and the servers behind them are external: they answer in    *)
(* any order, or never.                                                       *)
EXTENDS Endpoints, ExecTerminal, FiniteSets, TLC

CONSTANTS Pods,             \* the pods a tab may be opened on
          Sizes,            \* sizes of the window
          ClipboardText,    \* sequence of [char, shift]
          InitialBackoff, MaxBackoff,
          MaxConnections,   \* bound on connections made by one tab
          MaxPastes         \* bound on Type Clipboard per connection

\* The sources of passwords an annotation may name.
Auths == {None} \cup {e.auth : e \in UNION {Range(p.endpoints) : p \in Pods}}

\* An empty clipboard types nothing.
ASSUME PodAssumption ==
  /\ None \notin {"no shell", "stream"} /\ None \notin Sizes
  /\ None \notin [opened : BOOLEAN, size : Sizes \cup {XtermSize}, stdin : BOOLEAN]
  /\ ClipboardText \in Seq([char : STRING, shift : BOOLEAN]) /\ ClipboardText # <<>>
  /\ {MaxConnections, InitialBackoff, MaxBackoff} \subseteq Nat
  /\ InitialBackoff <= MaxBackoff /\ None \notin Nat

\* What VncPodConsole keeps, and of it the RFB.
RfbType ==
  [id : Nat, port : Nat, auth : Auths,
   conn : {"opening", "asking", "authorised", "rejected", "connected", "gone"},
   creds : SUBSET (Auths \cup {"typed"}), specific : BOOLEAN, shift : BOOLEAN,
   got : Seq([char : STRING, shift : BOOLEAN]), pastes : Nat]

ConsoleType ==
  [state : {"connecting", "connected", "disconnected"}, prompt : BOOLEAN,
   hasConnected : BOOLEAN, backoff : Nat, timer : Nat \cup {None}, lost : Nat,
   flipped : BOOLEAN, rfb : RfbType]

\* The cluster takes no pod without containers, or with two of one name.
ASSUME PodsAssumption ==
  /\ None \notin Pods /\ None \notin Int /\ MaxPort \in Nat
  /\ \A p \in Pods :
       /\ p.containers \in Seq(Range(p.containers)) /\ p.containers # <<>>
       /\ \A i, j \in DOMAIN p.containers : p.containers[i] = p.containers[j] => i = j
       /\ p.endpoints \in Seq(Range(p.endpoints))
       /\ \A i \in DOMAIN p.endpoints : p.endpoints[i].priority \in Int \cup {None}
  /\ None \notin ConsoleType

VARIABLES pod,              \* the pod, or None while the tab is closed
          memo,             \* its VNC connections and the dropdown's entries
          running,          \* its phase is Running
          selectedValue, chosen,
          open, error,
          execRef, lastNoSh, terminal, fonts, win,
          vnc,              \* VncPodConsole's state, or None while unmounted
          late,             \* RFBs told to disconnect whose event is still due
          resolving,        \* secret lookups under way
          typings,          \* typeClipboard calls under way
          connections       \* connections made so far, and RFB identities

tabVars == <<pod, memo, running, selectedValue, chosen, open, error>>
execVars == <<execRef, lastNoSh, terminal, fonts, win>>
vncVars == <<vnc, late, resolving, typings>>
podVars == <<tabVars, execVars, vncVars, connections>>

\* Computed once per pod (useMemo).
Memo(p) ==
  LET announced == vncConnections(p)
  IN [announced |-> announced, entries |-> allEntries(p, announced)]

Active == activeEntry(pod, memo.entries, selectedValue)

------------------------------------------------------------------------------
(* Connecting *)

NewRfb(id, e) ==
  [id |-> id, port |-> e.port, auth |-> e.auth, conn |-> "opening", creds |-> {},
   specific |-> FALSE, shift |-> FALSE, got |-> <<>>, pastes |-> 0]

\* The connect effect of VncPodConsole: every state of the attempt anew.
\* flipped records a late disconnect of an earlier attempt, see LateDisconnect.
ConnectVnc(v, id, e) ==
  [v EXCEPT !.state = "connecting", !.prompt = FALSE, !.timer = None,
            !.rfb = NewRfb(id, e), !.flipped = FALSE]

\* Forgotten with the connection's identity: another port is another session.
\* lost counts the disconnects since the session was last connected or reset.
NewSession(v) ==
  [v EXCEPT !.hasConnected = FALSE, !.backoff = InitialBackoff, !.lost = 0]

MountVnc ==
  [state |-> "connecting", prompt |-> FALSE, hasConnected |-> FALSE,
   backoff |-> InitialBackoff, timer |-> None, lost |-> 0, flipped |-> FALSE, rfb |-> None]

\* The effect's cleanup: the live RFB is told to disconnect and will say so later.
Disconnecting(v) ==
  IF v # None /\ v.rfb.conn # "gone" THEN {v.rfb.id} ELSE {}

\* The exec effect of a shell entry: a new channel, no message, and so no
\* terminal until it opens.
ConnectShell ==
  /\ connections < MaxConnections
  /\ connections' = connections + 1
  /\ execRef' = NewChannel(terminal)
  /\ open' = FALSE
  /\ error' = None
  /\ lastNoSh' = FALSE
  /\ terminal' = None

\* The effects of a new active entry: the tab's error is cleared, the session
\* of the entry left is torn down and the one of the entry chosen is started.
ConnectTo(m, e) ==
  IF isVncEntry(e)
    THEN /\ connections < MaxConnections
         /\ connections' = connections + 1
         /\ error' = None
         /\ vnc' = ConnectVnc(IF vnc = None THEN MountVnc ELSE NewSession(vnc),
                              connections', endpoint(m.announced, e))
         /\ late' = IF vnc = None THEN {} ELSE late \cup Disconnecting(vnc)
         /\ execRef' = None
         /\ terminal' = None
         /\ UNCHANGED <<open, lastNoSh>>
    ELSE /\ ConnectShell
         /\ vnc' = None
         /\ late' = {}

OpenTab(p) ==
  /\ pod = None
  /\ connections = 0
  /\ pod' = p
  /\ memo' = Memo(p)
  /\ ConnectTo(memo', activeEntry(p, memo'.entries, None))
  /\ UNCHANGED <<running, selectedValue, chosen, fonts, win, resolving, typings>>

\* The dropdown exists with at least two entries; i is the one clicked. Choosing
\* the active one again changes nothing.
Select(i) ==
  /\ pod # None
  /\ Len(memo.entries) > 1
  /\ LET e == memo.entries[i]
     IN /\ selectedValue' = e.value
        /\ chosen' = e
        /\ e.value # Active.value
        /\ ConnectTo(memo, activeEntry(pod, memo.entries, e.value))
  /\ UNCHANGED <<pod, memo, running, fonts, win, resolving, typings>>

CloseTab ==
  /\ pod # None
  /\ pod' = None
  /\ memo' = None
  /\ selectedValue' = None
  /\ chosen' = None
  /\ open' = FALSE
  /\ error' = None
  /\ execRef' = None
  /\ terminal' = None
  /\ vnc' = None
  /\ late' = {}
  /\ resolving' = {}
  /\ typings' = {}
  /\ UNCHANGED <<running, lastNoSh, fonts, win, connections>>

PodStops ==
  /\ pod # None
  /\ running
  /\ running' = FALSE
  /\ UNCHANGED <<pod, memo, selectedValue, chosen, open, error, execVars, vncVars, connections>>

------------------------------------------------------------------------------
(* The exec session *)

Shown(o, e) == o \/ e # None

\* The terminal is mounted while there is a session or a message to show.
Body(o, e) ==
  IF ~Shown(o, e) THEN None
  ELSE IF terminal = None THEN NewTerminal(fonts, win)
  ELSE terminal

\* A terminal that opens with its mount reports its size to the channel.
Mounted(ch, t) ==
  IF terminal = None /\ getSize(t) # None THEN Reported(ch, getSize(t)) ELSE ch

ExecOpens ==
  /\ execRef # None
  /\ execRef.sock = "connecting"
  /\ open' = TRUE
  /\ error' = None
  /\ terminal' = Body(TRUE, None)
  /\ execRef' = Mounted(onopen(execRef), terminal')
  /\ UNCHANGED <<pod, memo, running, selectedValue, chosen, lastNoSh, fonts, win, vncVars, connections>>

\* Output of the shell; noSh when it is the runtime's complaint of no shell.
ExecData(noSh) ==
  /\ execRef # None
  /\ execRef.sock = "open"
  /\ lastNoSh' = noSh
  /\ UNCHANGED <<tabVars, execRef, terminal, fonts, win, vncVars, connections>>

ExecStreamError ==
  /\ execRef # None
  /\ execRef.sock = "open"
  /\ error' = IF lastNoSh THEN "no shell" ELSE "stream"
  /\ terminal' = IF lastNoSh THEN onConnectionClosed(Body(open, error'))
                            ELSE Body(open, error')
  /\ UNCHANGED <<pod, memo, running, selectedValue, chosen, open, execRef, lastNoSh, fonts, win,
                 vncVars, connections>>

\* A clean close is ignored: the tab goes on showing the session as it was.
ExecCloses(clean) ==
  /\ execRef # None
  /\ execRef.sock # "closed"
  /\ clean => execRef.sock = "open"
  /\ IF clean
       THEN /\ execRef' = destroy(execRef)
            /\ UNCHANGED <<open, error, terminal>>
       ELSE /\ open' = FALSE
            /\ error' = "closed"
            /\ terminal' = IF terminal = None THEN Body(FALSE, error')
                                              ELSE onConnectionClosed(terminal)
            /\ execRef' = Mounted(destroy(execRef), terminal')
  /\ UNCHANGED <<pod, memo, running, selectedValue, chosen, lastNoSh, fonts, win, vncVars, connections>>

\* Mutant of reconnect: the message of the session before stays up.
reconnectKeepsError ==
  /\ pod # None
  /\ ~isVncEntry(Active)
  /\ error # None
  /\ running
  /\ connections < MaxConnections
  /\ connections' = connections + 1
  /\ execRef' = NewChannel(terminal)
  /\ open' = FALSE
  /\ lastNoSh' = FALSE
  /\ UNCHANGED <<pod, memo, running, selectedValue, chosen, error, terminal, fonts, win, vncVars>>

\* Offered with the alert of a shell entry while the pod runs: the effect again.
reconnect ==
  /\ pod # None
  /\ ~isVncEntry(Active)
  /\ error # None
  /\ running
  /\ ConnectShell
  /\ UNCHANGED <<pod, memo, running, selectedValue, chosen, fonts, win, vncVars>>

\* The window changes size: the terminal fits itself and reports a change.
Resize(w) ==
  /\ pod # None
  /\ w # win
  /\ win' = w
  /\ IF getSize(terminal) # None
       THEN /\ terminal' = Opened(terminal, w)
            /\ execRef' = Reported(execRef, w)
       ELSE UNCHANGED <<terminal, execRef>>
  /\ UNCHANGED <<tabVars, lastNoSh, fonts, vncVars, connections>>

\* The fonts arrive, or the terminal stops waiting for them.
TerminalOpens(loaded) ==
  /\ pod # None
  /\ fonts = "pending"
  /\ fonts' = IF loaded THEN "ready" ELSE "pending"
  /\ IF terminal # None /\ ~terminal.opened
       THEN /\ terminal' = Opened(terminal, win)
            /\ execRef' = Reported(execRef, win)
       ELSE /\ loaded
            /\ UNCHANGED <<terminal, execRef>>
  /\ UNCHANGED <<tabVars, lastNoSh, win, vncVars, connections>>

------------------------------------------------------------------------------
(* VncPodConsole *)

Live(states) == vnc # None /\ vnc.rfb.conn \in states

RfbConnects ==
  /\ Live({"opening", "authorised"})
  /\ vnc' = [vnc EXCEPT !.state = "connected", !.prompt = FALSE, !.hasConnected = TRUE,
                        !.backoff = InitialBackoff, !.lost = 0, !.rfb.conn = "connected"]
  /\ error' = None
  /\ UNCHANGED <<pod, memo, running, selectedValue, chosen, open, execVars, late, resolving, typings,
                 connections>>

\* Mutant of RfbDisconnects: the backoff is doubled before it is used.
RfbDisconnectsDoubled(clean) ==
  /\ Live({"opening", "asking", "authorised", "connected", "rejected"})
  /\ LET double == IF vnc.backoff * 2 > MaxBackoff THEN MaxBackoff ELSE vnc.backoff * 2
     IN vnc' = [vnc EXCEPT !.state = "disconnected", !.rfb.conn = "gone", !.lost = @ + 1,
                           !.timer = IF vnc.hasConnected THEN double ELSE @,
                           !.backoff = double]
  /\ error' = IF ~clean /\ ~vnc.rfb.specific THEN "lost" ELSE error
  /\ UNCHANGED <<pod, memo, running, selectedValue, chosen, open, execVars, late, resolving, typings,
                 connections>>

\* The disconnect event of the current attempt: a session that has connected
\* is tried again after the backoff.
RfbDisconnects(clean) ==
  /\ Live({"opening", "asking", "authorised", "connected", "rejected"})
  /\ vnc.rfb.conn = "rejected" => ~clean
  /\ LET retry == vnc.hasConnected
         double == IF vnc.backoff * 2 > MaxBackoff THEN MaxBackoff ELSE vnc.backoff * 2
     IN vnc' = [vnc EXCEPT !.state = "disconnected", !.rfb.conn = "gone", !.lost = @ + 1,
                           !.timer = IF retry THEN vnc.backoff ELSE @,
                           !.backoff = IF retry THEN double ELSE @]
  /\ error' = IF ~clean /\ ~vnc.rfb.specific THEN "lost" ELSE error
  /\ UNCHANGED <<pod, memo, running, selectedValue, chosen, open, execVars, late, resolving, typings,
                 connections>>

\* The disconnect event of an attempt whose cleanup has run: it is not retried,
\* but it sets the state the current attempt is shown with.
LateDisconnect(id) ==
  /\ vnc # None
  /\ id \in late
  /\ late' = late \ {id}
  /\ vnc' = [vnc EXCEPT !.state = "disconnected", !.flipped = TRUE]
  /\ UNCHANGED <<tabVars, execVars, resolving, typings, connections>>

\* The timer's callback bumps the attempt, and so runs the connect effect.
RetryTimer ==
  /\ vnc # None
  /\ vnc.timer # None
  /\ connections < MaxConnections
  /\ connections' = connections + 1
  /\ vnc' = ConnectVnc(vnc, connections', endpoint(memo.announced, Active))
  /\ late' = late \cup Disconnecting(vnc)
  /\ error' = None
  /\ UNCHANGED <<pod, memo, running, selectedValue, chosen, open, execVars, resolving, typings>>

\* The Reconnect link of VncPodConsole, shown while it says disconnected.
VncReconnect ==
  /\ vnc # None
  /\ vnc.state = "disconnected"
  /\ connections < MaxConnections
  /\ connections' = connections + 1
  /\ vnc' = ConnectVnc([vnc EXCEPT !.backoff = InitialBackoff, !.lost = 0],
                       connections', endpoint(memo.announced, Active))
  /\ late' = late \cup Disconnecting(vnc)
  /\ error' = None
  /\ UNCHANGED <<pod, memo, running, selectedValue, chosen, open, execVars, resolving, typings>>

SecurityFailure ==
  /\ Live({"opening", "authorised"})
  /\ vnc' = [vnc EXCEPT !.rfb.conn = "rejected", !.rfb.specific = TRUE]
  /\ error' = "rejected"
  /\ UNCHANGED <<pod, memo, running, selectedValue, chosen, open, execVars, late, resolving, typings,
                 connections>>

\* The server asks for a password, or for more than this console can give.
CredentialsRequired(passwordOnly) ==
  /\ Live({"opening"})
  /\ vnc.rfb.creds = {}
  /\ IF passwordOnly
       THEN /\ vnc' = [vnc EXCEPT !.rfb.conn = "asking", !.prompt = @ \/ vnc.rfb.auth = None]
            /\ resolving' = IF vnc.rfb.auth = None THEN resolving
                            ELSE resolving \cup {[id |-> vnc.rfb.id, auth |-> vnc.rfb.auth]}
            /\ UNCHANGED error
       ELSE /\ vnc' = [vnc EXCEPT !.rfb.conn = "asking", !.rfb.specific = TRUE]
            /\ error' = "unsupported"
            /\ UNCHANGED resolving
  /\ UNCHANGED <<pod, memo, running, selectedValue, chosen, open, execVars, late, typings, connections>>

Sent(rfb, source) ==
  IF rfb.conn = "gone" THEN rfb
  ELSE [rfb EXCEPT !.creds = @ \cup {source}, !.conn = IF @ = "asking" THEN "authorised" ELSE @]

\* The answer to a lookup counts only for the attempt that asked (cancelled).
PasswordResolved(r, ok) ==
  /\ r \in resolving
  /\ resolving' = resolving \ {r}
  /\ IF vnc = None \/ vnc.rfb.id # r.id
       THEN UNCHANGED <<vnc, error>>
       ELSE IF ok
         THEN /\ vnc' = [vnc EXCEPT !.rfb = Sent(@, r.auth)]
              /\ UNCHANGED error
         ELSE /\ vnc' = [vnc EXCEPT !.rfb.specific = TRUE, !.prompt = TRUE]
              /\ error' = "password"
  /\ UNCHANGED <<pod, memo, running, selectedValue, chosen, open, execVars, late, typings, connections>>

submitManualPassword ==
  /\ vnc # None
  /\ vnc.prompt
  /\ vnc' = [vnc EXCEPT !.prompt = FALSE, !.rfb = Sent(@, "typed")]
  /\ UNCHANGED <<tabVars, execVars, late, resolving, typings, connections>>

------------------------------------------------------------------------------
(* Type Clipboard *)

\* Mutant of typeClipboard: without the typingRef guard.
typeClipboardAgain(readable) ==
  /\ vnc # None
  /\ vnc.state = "connected"
  /\ vnc.rfb.pastes < MaxPastes
  /\ readable
  /\ typings' = typings \cup
       {[id |-> vnc.rfb.id, n |-> vnc.rfb.pastes, pos |-> 1, key |-> "first"]}
  /\ vnc' = [vnc EXCEPT !.rfb.pastes = @ + 1]
  /\ UNCHANGED <<tabVars, execVars, late, resolving, connections>>

\* Offered while connected; a second one is ignored until the first is done.
\* The clipboard may be unreadable.
typeClipboard(readable) ==
  /\ vnc # None
  /\ vnc.state = "connected"
  /\ typings = {}
  /\ vnc.rfb.pastes < MaxPastes
  /\ IF readable
       THEN /\ typings' = {[id |-> vnc.rfb.id, n |-> vnc.rfb.pastes, pos |-> 1, key |-> "first"]}
            /\ vnc' = [vnc EXCEPT !.rfb.pastes = @ + 1]
            /\ UNCHANGED error
       ELSE /\ error' = "clipboard"
            /\ error # "clipboard"
            /\ UNCHANGED <<typings, vnc>>
  /\ UNCHANGED <<pod, memo, running, selectedValue, chosen, open, execVars, late, resolving, connections>>

\* One key event and the pause after it: Shift down for a shifted character,
\* the character down, up, Shift up. An RFB that is gone swallows it.
typeText(t) ==
  /\ t \in typings
  /\ LET char == ClipboardText[t.pos]
         at == IF t.key # "first" THEN t.key ELSE IF char.shift THEN "shift" ELSE "down"
         next == CASE at = "shift" -> "down"
                   [] at = "down" -> "up"
                   [] at = "up" /\ char.shift -> "unshift"
                   [] OTHER -> "first"
         moved == [t EXCEPT !.key = next, !.pos = IF next = "first" THEN @ + 1 ELSE @]
         heard == vnc # None /\ vnc.rfb.id = t.id /\ vnc.rfb.conn = "connected"
     IN /\ typings' = (typings \ {t}) \cup
                        (IF moved.pos > Len(ClipboardText) THEN {} ELSE {moved})
        /\ vnc' = IF ~heard THEN vnc ELSE
                    CASE at = "shift" -> [vnc EXCEPT !.rfb.shift = TRUE]
                      [] at = "unshift" -> [vnc EXCEPT !.rfb.shift = FALSE]
                      [] at = "down" -> [vnc EXCEPT !.rfb.got =
                                           Append(@, [char |-> char.char, shift |-> vnc.rfb.shift])]
                      [] OTHER -> vnc
  /\ UNCHANGED <<tabVars, execVars, late, resolving, connections>>

------------------------------------------------------------------------------
PodInit ==
  /\ pod = None
  /\ memo = None
  /\ running = TRUE
  /\ selectedValue = None
  /\ chosen = None
  /\ open = FALSE
  /\ error = None
  /\ execRef = None
  /\ lastNoSh = FALSE
  /\ terminal = None
  /\ fonts = "pending"
  /\ win \in Sizes
  /\ vnc = None
  /\ late = {}
  /\ resolving = {}
  /\ typings = {}
  /\ connections = 0

PodNext ==
  \/ \E p \in Pods : OpenTab(p)
  \/ \E i \in 1..(IF pod = None THEN 0 ELSE Len(memo.entries)) : Select(i)
  \/ CloseTab
  \/ PodStops
  \/ ExecOpens
  \/ \E noSh \in BOOLEAN : ExecData(noSh)
  \/ ExecStreamError
  \/ \E clean \in BOOLEAN : ExecCloses(clean)
  \/ reconnect
  \/ \E w \in Sizes : Resize(w)
  \/ \E loaded \in BOOLEAN : TerminalOpens(loaded)
  \/ RfbConnects
  \/ \E clean \in BOOLEAN : RfbDisconnects(clean)
  \/ \E id \in late : LateDisconnect(id)
  \/ RetryTimer
  \/ VncReconnect
  \/ SecurityFailure
  \/ \E only \in BOOLEAN : CredentialsRequired(only)
  \/ \E r \in resolving, ok \in BOOLEAN : PasswordResolved(r, ok)
  \/ submitManualPassword
  \/ \E readable \in BOOLEAN : typeClipboard(readable)
  \/ \E t \in typings : typeText(t)

PodSpec == PodInit /\ [][PodNext]_podVars

------------------------------------------------------------------------------
(* Properties *)

\* The tab talks to what was chosen: the active entry is the one clicked, and a
\* VNC entry's connection goes to that entry's container and port, although the
\* console looks the endpoint up again in its own container's list.
ConnectsAsChosen ==
  pod # None =>
    /\ chosen # None => Active = chosen
    /\ (vnc # None) = isVncEntry(Active)
    /\ vnc # None => \E c \in Range(memo.announced) :
                       /\ c.port = Active.value[2]
                       /\ c.container = Active.container
                       /\ vnc.rfb.port = c.port
                       /\ vnc.rfb.auth = c.auth

\* A shell that the tab shows as open is usable: its pty has the size of the
\* terminal on screen, however font loading, opening, resizing and reconnecting
\* interleave, and its terminal still takes input.
ShellUsable ==
  /\ Sized(execRef, terminal)
  /\ (execRef # None /\ execRef.sock = "open" /\ error = None /\ terminal # None) => terminal.stdin

\* The first backoff, doubled again and again.
Doubling(n) ==
  LET doubled[i \in 0..n] == IF i = 0 THEN InitialBackoff ELSE 2 * doubled[i - 1]
  IN  doubled

\* A VNC session that has connected and was lost is always waiting to be tried
\* again, and nothing else is: the timer belongs to a lost attempt, runs for
\* the backoff its number of losses gives it, and a live attempt has none. What
\* the console says is the state of the attempt it makes, unless an attempt it
\* had given up disconnected late.
VncRetried ==
  vnc # None =>
    /\ (vnc.timer # None) = (vnc.hasConnected /\ vnc.rfb.conn = "gone")
    /\ vnc.timer # None =>
         vnc.timer = LET d == Doubling(vnc.lost - 1)[vnc.lost - 1]
                     IN IF d > MaxBackoff THEN MaxBackoff ELSE d
    /\ ~vnc.flipped => /\ (vnc.state = "connected") = (vnc.rfb.conn = "connected")
                       /\ (vnc.state = "disconnected") = (vnc.rfb.conn = "gone")

\* A server is only ever sent its own endpoint's password or one the user typed
\* for it, and what Type Clipboard types into it is the clipboard, in order, one
\* paste after the other, each character with the Shift it needs: also when the
\* connection is replaced while the lookup or the typing is under way.
KeptApart ==
  vnc # None =>
    /\ vnc.rfb.creds \subseteq {vnc.rfb.auth, "typed"}
    /\ \A i \in DOMAIN vnc.rfb.got :
         vnc.rfb.got[i] = ClipboardText[((i - 1) % Len(ClipboardText)) + 1]

\* A server is the one the user chose and is sent nothing but what is meant for it.
ServedAsChosen == ConnectsAsChosen /\ KeptApart

\* README.md:292 - a rejected password surfaces the server's reason: while the
\* tab holds an error, it shows it. The tab's alert is drawn for shells only.
ErrorShown == ~isVncEntry(Active) /\ error # None
RejectionSurfaces == (vnc # None /\ error = "rejected") => ErrorShown

\* A session that is shown works: a shell is one that takes input at the size of
\* its panel, and a console is tried again until it is reached or given up.
SessionsWork == ShellUsable /\ VncRetried
=============================================================================

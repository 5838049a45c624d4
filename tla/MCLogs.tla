------------------------------- MODULE MCLogs -------------------------------
(* The buffer a log is kept in and the list it scrolls in, one by one.         *)
EXTENDS LogViewer, LogBuffer

CONSTANTS x, y

VARIABLE about   \* what the behaviour is about

Init ==
  /\ about \in {"viewer", "buffer"}
  /\ ViewerInit /\ BufferInit

Next ==
  \/ about = "viewer" /\ ViewerNext /\ UNCHANGED <<about, bufferVars>>
  \/ about = "buffer" /\ BufferNext /\ UNCHANGED <<about, viewerVars>>

Spec == Init /\ [][Next]_<<about, viewerVars, bufferVars>>

\* Two lines at once, a line cut before its end, the end of a line, a line cut
\* between its carriage return and its newline.
MCArriving == {<<x, NL, y, NL>>, <<x>>, <<CR, NL>>, <<y, CR>>}

\* Two lines with a blank one between them, a blank page.
MCEarlier == {<<x, CR, NL, NL, y, NL>>, <<NL>>}
=============================================================================

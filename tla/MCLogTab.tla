------------------------------ MODULE MCLogTab ------------------------------
\* Small instances of LogTab for TLC: a container's log, a short one to switch
\* to and back, and two journals likewise.
EXTENDS LogTab

CONSTANTS a, b, i, j

MCMaxWritten == [l \in Logs |-> CASE l = a -> 5 [] l = i -> 4 [] OTHER -> 1]
=============================================================================

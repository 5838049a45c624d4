---------------------------- MODULE MCNodeLabels ----------------------------
\* Small instances of NodeLabels for TLC.
EXTENDS NodeLabels

CONSTANTS a, b

\* A Node without target labels, or with both set by its cloud provider.
MCRegistered == {[t \in Targets |-> v] : v \in {None, a}}
=============================================================================

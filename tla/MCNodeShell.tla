----------------------------- MODULE MCNodeShell ----------------------------
(***************************************************************************)
(* Two debug pods of one node: one attached to, of a user al, and one in   *)
(* exec mode, of a user alex; the node has an account alexa and may have a *)
(* line that a killed session of al left, which takes one of two uids.     *)
(***************************************************************************)
EXTENDS NodeShell

MCSessions == {"p", "q"}
MCExecMode == {"q"}
MCNames == {"al", "alex", "alexa", "sess1", "sess2"}
MCHostNames == {"alexa"}
MCGenerated == [s \in MCSessions |-> IF s = "p" THEN "sess1" ELSE "sess2"]
MCBeyond == [n \in MCNames |-> CASE n = "al" -> {"alex", "alexa"} [] n = "alex" -> {"alexa"}
                                 [] OTHER -> {}]
MCUids == {1, 2}
MCLeftovers == {<<"al", 1>>}
MCGroups == {"wheel"}

\* In the first run the users' names differ, in the second they do not.
MCFirst == [s \in MCSessions |-> IF s = "p" THEN "al" ELSE "alex"]
MCFirstSame == [s \in MCSessions |-> "al"]
=============================================================================

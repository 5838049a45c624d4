------------------------------ MODULE LogLines ------------------------------
(***************************************************************************)
(* What the log buffer of plugins/logging/src/logs/buffer.ts promises its  *)
(* readers: a run of numbered lines that grows at both ends, loses its     *)
(* oldest lines past a limit, and a last line still waiting for its end.   *)
(***************************************************************************)
EXTENDS Integers, Sequences, SequencesExt

CONSTANTS Arriving,    \* text that may arrive at the tail
          Earlier,   \* text that may be put in front
          MaxLines,  \* lines retained
          NL, CR     \* the newline and carriage return characters

VARIABLES lines,     \* the retained lines, oldest first
          first,     \* sequence number of the oldest
          partial    \* the text after the last newline

vars == <<lines, first, partial>>

\* A line without its carriage return.
Trimmed(line) ==
  IF line # <<>> /\ Last(line) = CR THEN Front(line) ELSE line

\* The lines read so far with the one being read, unless it is blank and blank
\* lines do not count.
Finished(acc, blanks) ==
  IF blanks \/ acc.rest # <<>> THEN Append(acc.done, acc.rest) ELSE acc.done

\* Reading text one character at a time: the finished lines and the rest.
ReadChar(acc, char, blanks) ==
  IF char = NL THEN [done |-> Finished(acc, blanks), rest |-> <<>>]
               ELSE [acc EXCEPT !.rest = Append(@, char)]

Reading(text, blanks) ==
  LET read[i \in 0..Len(text)] ==
        IF i = 0 THEN [done |-> <<>>, rest |-> <<>>] ELSE ReadChar(read[i - 1], text[i], blanks)
  IN  read

Read(text, blanks) == Reading(text, blanks)[Len(text)]

TrimAll(ls) == [i \in DOMAIN ls |-> Trimmed(ls[i])]

\* The newest MaxLines of ls become the retained lines.
Retain(ls) ==
  LET excess == IF Len(ls) > MaxLines THEN Len(ls) - MaxLines ELSE 0
  IN  /\ lines' = SubSeq(ls, excess + 1, Len(ls))
      /\ first' = first + excess

Init == lines = <<>> /\ first = 0 /\ partial = <<>>

\* New text at the tail.
Arrives(chunk) ==
  LET r == Read(partial \o chunk, TRUE)
  IN  Retain(lines \o TrimAll(r.done)) /\ partial' = r.rest

\* The stream has ended: the rest is a line too.
Ends ==
  /\ partial # <<>>
  /\ Retain(Append(lines, Trimmed(partial)))
  /\ partial' = <<>>

\* Earlier text in front: its lines that are not blank take the numbers below.
Precedes(text) ==
  LET added == TrimAll(Finished(Read(text, FALSE), FALSE))
  IN  /\ lines' = added \o lines
      /\ first' = first - Len(added)
      /\ UNCHANGED partial

\* A new stream.
Restarts == lines' = <<>> /\ first' = 0 /\ partial' = <<>>

Next == \/ \E c \in Arriving : Arrives(c)
        \/ Ends
        \/ \E t \in Earlier : Precedes(t)
        \/ Restarts

\* A step that changes nothing need not be one of these.
Spec == Init /\ [][vars' # vars /\ Next]_vars
=============================================================================

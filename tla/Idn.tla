-------------------------------- MODULE Idn ---------------------------------
(***************************************************************************)
(* plugins/cert-manager/src/utils/punycode.ts: the names of a certificate  *)
(* are shown as they were registered, that is with the labels that begin   *)
(* with "xn--" decoded.  The encoder of RFC 3492, which registries use, is *)
(* the reference.  A label is a sequence of code points; a label of a      *)
(* certificate may also be one that no encoder made.                       *)
(***************************************************************************)
EXTENDS Integers, Sequences, SequencesExt, FiniteSets, FiniteSetsExt, Absent

CONSTANTS Letters,     \* code points of registered labels
          Noise,       \* code points of labels that nobody registered
          MaxLabel     \* bound: length of a label

ASSUME IdnAssumption == Letters \cup Noise \subseteq 0..1114111 /\ MaxLabel \in Nat

VARIABLE certName   \* a label in a certificate: [ace, text, registered], or None

idnVars == certName

BASE == 36
T_MIN == 1
T_MAX == 26
SKEW == 38
DAMP == 700
INITIAL_BIAS == 72
INITIAL_N == 128
DELIMITER == 45

RECURSIVE Damped(_, _)
Damped(d, k) ==
  IF d > ((BASE - T_MIN) * T_MAX) \div 2 THEN Damped(d \div (BASE - T_MIN), k + BASE)
  ELSE k + ((BASE - T_MIN + 1) * d) \div (d + SKEW)

adapt(delta, numPoints, firstTime) ==
  LET d == IF firstTime THEN delta \div DAMP ELSE delta \div 2
  IN  Damped(d + d \div numPoints, 0)

basicToDigit(c) ==
  CASE c \in 48..57 -> c - 22
    [] c \in 65..90 -> c - 65
    [] c \in 97..122 -> c - 97
    [] OTHER -> BASE

Threshold(k, bias) == IF k <= bias THEN T_MIN ELSE IF k >= bias + T_MAX THEN T_MAX ELSE k - bias

\* Where i is beyond, the code point is one that fromCodePoint rejects.
Big == 1114112 * (MaxLabel + 1)

\* The inner loop of decodeACE: digits from index on are added to i until one is
\* below the threshold. None is an exception; what is beyond Big ends in one.
RECURSIVE Digits(_, _, _, _, _, _)
Digits(input, index, i, w, k, bias) ==
  LET digit == basicToDigit(input[index])
      t == Threshold(k, bias)
  IN  IF index > Len(input) \/ digit >= BASE \/ i > Big \/ (w > Big /\ digit > 0) THEN None
      ELSE IF digit < t THEN [i |-> i + (IF digit = 0 THEN 0 ELSE digit * w), index |-> index + 1]
      ELSE Digits(input, index + 1, i + digit * w, w * (BASE - t), k + BASE, bias)

\* Mutant of Insertions: the next insertion is looked for before the last one.
RECURSIVE InsertionsBehind(_, _, _, _, _, _)
InsertionsBehind(input, index, output, n, i, bias) ==
  IF index > Len(input) THEN output
  ELSE LET d == Digits(input, index, i, 1, BASE, bias)
           outLength == Len(output) + 1
       IN  IF d = None \/ n + d.i \div outLength > 1114111 THEN None
           ELSE InsertionsBehind(input, d.index, InsertAt(output, (d.i % outLength) + 1, n + d.i \div outLength),
                  n + d.i \div outLength, d.i % outLength, adapt(d.i - i, outLength, i = 0))

\* The outer loop: one code point after the other is inserted.
RECURSIVE Insertions(_, _, _, _, _, _)
Insertions(input, index, output, n, i, bias) ==
  IF index > Len(input) THEN output
  ELSE LET d == Digits(input, index, i, 1, BASE, bias)
           outLength == Len(output) + 1
       IN  IF d = None \/ n + d.i \div outLength > 1114111 THEN None
           ELSE Insertions(input, d.index, InsertAt(output, (d.i % outLength) + 1, n + d.i \div outLength),
                  n + d.i \div outLength, (d.i % outLength) + 1, adapt(d.i - i, outLength, i = 0))

decodeACE(input) ==
  LET basicLength == Max({k \in DOMAIN input : input[k] = DELIMITER} \cup {1}) - 1
      start == IF basicLength > 0 THEN basicLength + 2 ELSE 1
  IN  Insertions(input, start, SubSeq(input, 1, basicLength), INITIAL_N, 0, INITIAL_BIAS)

\* A label without the prefix, or one that cannot be decoded, is shown as it is.
decodeLabel(label) ==
  IF ~label.ace \/ decodeACE(label.text) = None THEN label
  ELSE [ace |-> FALSE, text |-> decodeACE(label.text)]

-----------------------------------------------------------------------------
(* The encoder of RFC 3492, section 6.3: code points in ascending order,    *)
(* each by the distance from where the last one was inserted.               *)

RECURSIVE Integer(_, _, _)
Integer(q, k, bias) ==
  LET t == Threshold(k, bias)
      Basic(d) == IF d < 26 THEN 97 + d ELSE 22 + d
  IN  IF q < t THEN <<Basic(q)>>
      ELSE <<Basic(t + ((q - t) % (BASE - t)))>> \o Integer((q - t) \div (BASE - t), k + BASE, bias)

\* The state of the encoder while it goes over the label for code point m.
Pass(label, m, from) ==
  FoldLeft(
    LAMBDA s, c :
      CASE c < m -> [s EXCEPT !.delta = @ + 1]
        [] c = m -> [delta |-> 0, h |-> s.h + 1, bias |-> adapt(s.delta, s.h + 1, s.h = s.b), b |-> s.b,
                     out |-> s.out \o Integer(s.delta, BASE, s.bias)]
        [] OTHER -> s,
    from, label)

ToASCII(label) ==
  LET basic == SelectSeq(label, LAMBDA c : c < INITIAL_N)
      points == SetToSortSeq({c \in Range(label) : c >= INITIAL_N}, <)
      b == Len(basic)
      start == [delta |-> 0, h |-> b, bias |-> INITIAL_BIAS, b |-> b,
                out |-> IF b > 0 THEN Append(basic, DELIMITER) ELSE <<>>]
      Next1(s, j) ==
        LET before == IF j = 1 THEN INITIAL_N ELSE points[j - 1] + 1
            passed == Pass(label, points[j],
                        [s EXCEPT !.delta = @ + (points[j] - before) * (s.h + 1)])
        IN  [passed EXCEPT !.delta = @ + 1]
  IN  IF points = <<>> THEN [ace |-> FALSE, text |-> label]
      ELSE [ace |-> TRUE, text |-> FoldLeft(Next1, start, [j \in DOMAIN points |-> j]).out]

-----------------------------------------------------------------------------
IdnInit == certName = None

\* A certificate is shown for a label that was registered, or for any other.
ShowName(label, registered) ==
  /\ certName = None
  /\ certName' = [label |-> IF registered THEN ToASCII(label) ELSE [ace |-> TRUE, text |-> label],
                  registered |-> IF registered THEN label ELSE None]

IdnNext ==
  \/ \E label \in SeqOf(Letters, MaxLabel) : ShowName(label, TRUE)
  \/ \E label \in SeqOf(Noise, MaxLabel) : ShowName(label, FALSE)

\* A registered name is shown as it was registered, whatever it is made of: the
\* decoder inverts the encoder. Any other label has a decoded form of at most
\* its own length with the code points of its plain part in their order, or is
\* shown as it is (punycode.ts:83-85); it never fails.
NamesShown ==
  certName # None =>
    LET shown == decodeLabel(certName.label)
        text == certName.label.text
        plain == Max({k \in DOMAIN text : text[k] = DELIMITER} \cup {1}) - 1
    IN  IF certName.registered # None THEN shown = [ace |-> FALSE, text |-> certName.registered]
        ELSE \/ shown = certName.label
             \/ /\ Len(shown.text) <= Len(text)
                /\ SelectSeq(shown.text, LAMBDA c : c < INITIAL_N) = SubSeq(text, 1, plain)
=============================================================================

-------------------------------- MODULE Ansi --------------------------------
(* ansi.ts and AnsiText.tsx: a line's escape sequences turned into styled runs. *)
(* A text is a sequence of symbols: a control character, a punctuation mark     *)
(* that means something in a sequence, a numeral, or a letter or word, which    *)
(* is text on the ground and a final byte in a control sequence.                *)
EXTENDS Absent, Integers, Sequences, SequencesExt, FiniteSetsExt, TLC

CONSTANTS Chunks,     \* what a process writes at a time, sequences of symbols
          MaxChunks   \* bound on the chunks of a line

VARIABLES ansiText, chunks, term

ansiVars == <<ansiText, chunks, term>>

Numeral ==
  "0" :> 0 @@ "1" :> 1 @@ "2" :> 2 @@ "4" :> 4 @@ "5" :> 5 @@ "7" :> 7 @@ "9" :> 9 @@ "22" :> 22
    @@ "31" :> 31 @@ "38" :> 38 @@ "49" :> 49 @@ "93" :> 93 @@ "100" :> 100 @@ "196" :> 196
    @@ "240" :> 240 @@ "300" :> 300

Intermediates == {"(", "."}
Parameters == DOMAIN Numeral \cup Intermediates \cup {";", ":", "?"}
Uncontrolled == {"ESC", "CSI", "BEL", "TAB", "NL", "é"}
Final(s) == s \notin Parameters \cup Uncontrolled
StringKinds == {"]", "P", "_"}

\* The parts of s between the separators.
Split(s, separator) ==
  FoldLeft(LAMBDA parts, x : IF x = separator THEN Append(parts, <<>>)
                             ELSE [parts EXCEPT ![Len(parts)] = Append(@, x)],
           <<<<>>>>, s)

------------------------------------------------------------------------------
(* Select Graphic Rendition *)

plainStyle == [fg |-> None, bg |-> None, on |-> {}]

isPlain(style) == style = plainStyle

Palette(n) == [kind |-> "palette", n |-> n]
PanelColor == [kind |-> "inverse"]
rgb(r, g, b) == [kind |-> "rgb", r |-> r, g |-> g, b |-> b]

\* A missing parameter is no byte, an empty one is zero.
asByte(fields, i) ==
  CASE i > Len(fields) -> None
    [] i <= Len(fields) /\ fields[i] = <<>> -> 0
    [] i <= Len(fields) /\ Len(fields[i]) = 1 /\ fields[i][1] \in DOMAIN Numeral ->
         IF Numeral[fields[i][1]] <= 255 THEN Numeral[fields[i][1]] ELSE None
    [] OTHER -> None

Triple(bs) == IF \E k \in 1..3 : bs[k] = None THEN None ELSE rgb(bs[1], bs[2], bs[3])

Bytes(fields, i) == Triple(<<asByte(fields, i), asByte(fields, i + 1), asByte(fields, i + 2)>>)

PaletteAt(byte) == IF byte = None THEN None ELSE Palette(byte)

Indexed(fields, i) == PaletteAt(asByte(fields, i))

\* Mutant of extendedColor: the mode is not counted among what is consumed.
extendedColorShort(sub, rest) ==
  CASE rest # <<>> /\ rest[1] = <<"5">> -> [color |-> Indexed(rest, 2), consumed |-> 1]
    [] rest # <<>> /\ rest[1] = <<"2">> -> [color |-> Bytes(rest, 2), consumed |-> 3]
    [] OTHER -> [color |-> None, consumed |-> 0]

\* The colour after 38, 48 or 58: in the code's own sub-parameters, or in the
\* parameters after it, and how many of those it takes.
extendedColor(sub, rest) ==
  IF Len(sub) > 1
    THEN [consumed |-> 0,
          color |-> CASE sub[2] = <<"5">> -> Indexed(sub, 3)
                      [] sub[2] = <<"2">> -> Bytes(sub, IF Len(sub) >= 6 THEN 4 ELSE 3)
                      [] OTHER -> None]
    ELSE CASE rest # <<>> /\ rest[1] = <<"5">> -> [color |-> Indexed(rest, 2), consumed |-> 2]
           [] rest # <<>> /\ rest[1] = <<"2">> -> [color |-> Bytes(rest, 2), consumed |-> 4]
           [] OTHER -> [color |-> None, consumed |-> IF rest = <<>> THEN 0 ELSE 1]

TurnsOn == 1 :> "bold" @@ 2 :> "dim" @@ 3 :> "italic" @@ 7 :> "inverse" @@ 8 :> "hidden"
             @@ 9 :> "strike" @@ 21 :> "underline"
TurnsOff == 22 :> {"bold", "dim"} @@ 23 :> {"italic"} @@ 24 :> {"underline"}
              @@ 27 :> {"inverse"} @@ 28 :> {"hidden"} @@ 29 :> {"strike"}

\* A field that is no number is NaN, which no branch takes.
Code(field) ==
  CASE field = <<>> -> 0
    [] Len(field) = 1 /\ field[1] \in DOMAIN Numeral -> Numeral[field[1]]
    [] OTHER -> -1

SgrCode(style, code, sub) ==
  CASE code = 0 -> plainStyle
    [] code \in DOMAIN TurnsOn -> [style EXCEPT !.on = @ \cup {TurnsOn[code]}]
    [] code = 4 -> [style EXCEPT !.on = IF Len(sub) > 1 /\ sub[2] = <<"0">>
                                          THEN @ \ {"underline"} ELSE @ \cup {"underline"}]
    [] code \in DOMAIN TurnsOff -> [style EXCEPT !.on = @ \ TurnsOff[code]]
    [] code \in 30..37 -> [style EXCEPT !.fg = Palette(code - 30)]
    [] code = 39 -> [style EXCEPT !.fg = None]
    [] code \in 40..47 -> [style EXCEPT !.bg = Palette(code - 40)]
    [] code = 49 -> [style EXCEPT !.bg = None]
    [] code \in 90..97 -> [style EXCEPT !.fg = Palette(code - 90 + 8)]
    [] code \in 100..107 -> [style EXCEPT !.bg = Palette(code - 100 + 8)]
    [] OTHER -> style

Coloured(acc, code, extended) ==
  [skip |-> extended.consumed,
   style |-> CASE extended.color = None \/ code = 58 -> acc.style
               [] extended.color # None /\ code = 38 -> [acc.style EXCEPT !.fg = extended.color]
               [] OTHER -> [acc.style EXCEPT !.bg = extended.color]]

\* One parameter; rest are those after it, of which a colour may take some.
SgrParameter(acc, code, sub, rest) ==
  CASE acc.skip > 0 -> [acc EXCEPT !.skip = @ - 1]
    [] acc.skip = 0 /\ code \in {38, 48, 58} -> Coloured(acc, code, extendedColor(sub, rest))
    [] OTHER -> [acc EXCEPT !.style = SgrCode(@, code, sub)]

SgrField(acc, sub, rest) == SgrParameter(acc, Code(sub[1]), sub, rest)

SgrList(style, list) ==
  FoldLeft(LAMBDA acc, i : SgrField(acc, Split(list[i], ":"), SubSeq(list, i + 1, Len(list))),
           [style |-> style, skip |-> 0], [i \in 1..Len(list) |-> i]).style

applySgr(style, params) ==
  SgrList(style, IF params = <<>> THEN <<<<"0">>>> ELSE Split(params, ";"))

------------------------------------------------------------------------------
(* Runs *)

hasAnsi(text) == \E i \in DOMAIN text : text[i] \in {"ESC", "CSI"}

\* The first of the positions found, or None.
FirstOf(found) == IF found = {} THEN None ELSE Min(found)

FirstFrom(text, i, P(_)) == FirstOf({j \in i..Len(text) : P(j)})

Cut(end) == [end |-> end, sgr |-> None]

\* A control sequence whose parameters reach from i to before stop.
Control(text, i, stop) ==
  CASE stop = None -> Cut(Len(text) + 1)
    [] stop # None /\ ~Final(text[stop]) -> Cut(stop)
    [] stop # None /\ text[stop] = "m" /\ ~Contains(SubSeq(text, i, stop - 1), "?") ->
         [end |-> stop + 1, sgr |-> SubSeq(text, i, stop - 1)]
    [] OTHER -> Cut(stop + 1)

ControlAt(text, i) == Control(text, i, FirstFrom(text, i, LAMBDA j : text[j] \notin Parameters))

Ends(text, j) == text[j] = "BEL" \/ (text[j] = "ESC" /\ j < Len(text) /\ text[j + 1] = "\\")

Terminated(text, stop) ==
  CASE stop = None -> Cut(Len(text) + 1)
    [] stop # None /\ text[stop] = "BEL" -> Cut(stop + 1)
    [] OTHER -> Cut(stop + 2)

Designated(text, stop) == Cut(IF stop = None THEN Len(text) + 1 ELSE stop + 1)

\* Where the sequence at start ends (exclusive), with its parameters if it is SGR.
scanEscape(text, start) ==
  CASE text[start] = "CSI" -> ControlAt(text, start + 1)
    [] text[start] = "ESC" /\ start = Len(text) -> Cut(Len(text) + 1)
    [] text[start] = "ESC" /\ start < Len(text) /\ text[start + 1] = "[" -> ControlAt(text, start + 2)
    [] text[start] = "ESC" /\ start < Len(text) /\ text[start + 1] \in StringKinds ->
         Terminated(text, FirstFrom(text, start + 2, LAMBDA j : Ends(text, j)))
    [] OTHER -> Designated(text, FirstFrom(text, start + 1, LAMBDA j : text[j] \notin Intermediates))

\* What is between two sequences joins the run before it if the style is the same.
Push(spans, chunk, style) ==
  CASE chunk = <<>> -> spans
    [] chunk # <<>> /\ spans # <<>> /\ Last(spans).style = style ->
         [spans EXCEPT ![Len(spans)].text = @ \o chunk]
    [] OTHER -> Append(spans, [text |-> chunk, style |-> style])

Worn(style) == IF isPlain(style) THEN None ELSE style

\* The sequence at i is taken, after what the text had before it.
TakeEscape(acc, text, i, esc) ==
  [next |-> esc.end,
   style |-> IF esc.sgr = None THEN acc.style ELSE applySgr(acc.style, esc.sgr),
   spans |-> Push(acc.spans, SubSeq(text, acc.next, i - 1), Worn(acc.style))]

Scanned(text) ==
  FoldLeft(LAMBDA acc, i : IF i < acc.next \/ text[i] \notin {"ESC", "CSI"} THEN acc
                           ELSE TakeEscape(acc, text, i, scanEscape(text, i)),
           [next |-> 1, style |-> plainStyle, spans |-> <<>>], [i \in 1..Len(text) |-> i])

Finished(text, acc) == Push(acc.spans, SubSeq(text, acc.next, Len(text)), Worn(acc.style))

OneSpan(text) == <<[text |-> text, style |-> None]>>
OrBlank(spans) == IF spans = <<>> THEN OneSpan(<<>>) ELSE spans

parseAnsi(text) == IF hasAnsi(text) THEN OrBlank(Finished(text, Scanned(text))) ELSE OneSpan(text)

stripAnsi(text) ==
  IF hasAnsi(text) THEN FoldLeft(LAMBDA acc, span : acc \o span.text, <<>>, parseAnsi(text)) ELSE text

------------------------------------------------------------------------------
(* Drawing *)

CubeLevels == <<0, 95, 135, 175, 215, 255>>

paletteColor(n) ==
  IF n >= 232
    THEN LET level == 8 + (n - 232) * 10 IN rgb(level, level, level)
    ELSE LET Level(k) == CubeLevels[1 + (k % 6)]
         IN rgb(Level((n - 16) \div 36), Level((n - 16) \div 6), Level(n - 16))

\* The sixteen base colours are left to the stylesheet.
colorProps(color) ==
  IF color.kind = "palette" /\ color.n >= 16 THEN paletteColor(color.n) ELSE color

\* Inverse swaps the layers, and a default becomes the panel's other colour.
spanProps(style) ==
  LET inverse == "inverse" \in style.on
      Layer(color) == IF color # None THEN colorProps(color) ELSE IF inverse THEN PanelColor ELSE None
      lines == style.on \cap {"underline", "strike"}
  IN [fg |-> Layer(IF inverse THEN style.bg ELSE style.fg),
      bg |-> Layer(IF inverse THEN style.fg ELSE style.bg),
      classes |-> (style.on \cap {"bold", "dim", "italic", "hidden"}) \cup
                    (IF Cardinality(lines) = 2 THEN {"underline-strike"} ELSE lines)]

------------------------------------------------------------------------------
(* The reference: a terminal that takes one symbol at a time and keeps cells. *)

Blank == [mode |-> "ground", params |-> <<>>, style |-> plainStyle, cells |-> <<>>]

\* xterm's colour n.
Xterm(n) ==
  LET Ramp(k) == IF k = 0 THEN 0 ELSE 55 + 40 * k
  IN CASE n < 16 -> Palette(n)
       [] n > 231 -> LET grey == 10 * (n - 232) + 8 IN rgb(grey, grey, grey)
       [] OTHER -> rgb(Ramp((n - 16) \div 36), Ramp(((n - 16) \div 6) % 6), Ramp((n - 16) % 6))

Shade(color) ==
  CASE color = None -> None [] color.kind = "palette" -> Xterm(color.n) [] OTHER -> color

Cell(s, style) ==
  LET front == Shade(style.fg)
      back == Shade(style.bg)
      Swapped(c) == IF c = None THEN PanelColor ELSE c
  IN IF "inverse" \in style.on
       THEN [s |-> s, fg |-> Swapped(back), bg |-> Swapped(front), on |-> style.on \ {"inverse"}]
       ELSE [s |-> s, fg |-> front, bg |-> back, on |-> style.on]

\* One parameter after the other; want is what is still missing of a colour.
Rendition(acc, field) ==
  LET sub == Split(field, ":")
      code == Code(sub[1])
      layer == IF code = 38 THEN "fg" ELSE IF code = 48 THEN "bg" ELSE "line"
      Colour(style, where, c) ==
        CASE c = None \/ where = "line" -> style
          [] c # None /\ where = "fg" -> [style EXCEPT !.fg = c]
          [] OTHER -> [style EXCEPT !.bg = c]
      read == Append(acc.read, field)
  IN CASE acc.want = "mode" /\ field = <<"5">> -> [acc EXCEPT !.want = "index"]
       [] acc.want = "mode" /\ field = <<"2">> -> [acc EXCEPT !.want = "rgb"]
       [] acc.want = "mode" /\ field \notin {<<"5">>, <<"2">>} -> [acc EXCEPT !.want = "code"]
       [] acc.want = "index" ->
            [acc EXCEPT !.want = "code", !.style = Colour(@, acc.layer, Indexed(<<field>>, 1))]
       [] acc.want = "rgb" /\ Len(read) < 3 -> [acc EXCEPT !.read = read]
       [] acc.want = "rgb" /\ Len(read) >= 3 ->
            [acc EXCEPT !.want = "code", !.read = <<>>, !.style = Colour(@, acc.layer, Bytes(read, 1))]
       [] acc.want = "code" /\ code \in {38, 48, 58} /\ Len(sub) = 1 ->
            [acc EXCEPT !.want = "mode", !.layer = layer]
       [] acc.want = "code" /\ code \in {38, 48, 58} /\ Len(sub) # 1 ->
            [acc EXCEPT !.style = Colour(@, layer,
               CASE sub[2] = <<"5">> -> Indexed(sub, 3)
                 [] sub[2] = <<"2">> /\ Len(sub) < 6 -> Bytes(sub, 3)
                 [] sub[2] = <<"2">> /\ Len(sub) >= 6 -> Bytes(sub, 4)
                 [] OTHER -> None)]
       [] OTHER -> [acc EXCEPT !.style = SgrCode(@, code, sub)]

Rendered(style, params) ==
  FoldLeft(Rendition, [style |-> style, want |-> "code", layer |-> "fg", read |-> <<>>],
           Split(params, ";")).style

OnGround(t, s) ==
  CASE s = "ESC" -> [t EXCEPT !.mode = "escape"]
    [] s = "CSI" -> [t EXCEPT !.mode = "control", !.params = <<>>]
    [] OTHER -> [t EXCEPT !.mode = "ground", !.cells = Append(@, Cell(s, t.style))]

Feed(t, s) ==
  CASE t.mode = "ground" -> OnGround(t, s)
    [] t.mode = "escape" ->
         [t EXCEPT !.params = <<>>,
                   !.mode = CASE s = "[" -> "control"
                              [] s \in StringKinds -> "string"
                              [] s \in Intermediates -> "designate"
                              [] OTHER -> "ground"]
    [] t.mode = "designate" -> [t EXCEPT !.mode = IF s \in Intermediates THEN @ ELSE "ground"]
    [] t.mode \in {"string", "ending"} ->
         [t EXCEPT !.mode = CASE s = "BEL" \/ (s = "\\" /\ @ = "ending") -> "ground"
                              [] s = "ESC" -> "ending"
                              [] OTHER -> "string"]
    [] t.mode = "control" /\ s \in Parameters -> [t EXCEPT !.params = Append(@, s)]
    [] t.mode = "control" /\ s \notin Parameters /\ Final(s) ->
         [t EXCEPT !.mode = "ground",
                   !.style = IF s = "m" /\ ~Contains(t.params, "?") THEN Rendered(@, t.params) ELSE @]
    [] OTHER -> OnGround(t, s)

------------------------------------------------------------------------------
AnsiInit ==
  /\ ansiText = <<>>
  /\ chunks = 0
  /\ term = Blank

\* Two numerals in a row would be another numeral.
Write(chunk) ==
  /\ chunks < MaxChunks
  /\ chunks' = chunks + 1
  /\ ~(ansiText # <<>> /\ {Last(ansiText), Head(chunk)} \subseteq DOMAIN Numeral)
  /\ ansiText' = ansiText \o chunk
  /\ term' = FoldLeft(Feed, term, chunk)

AnsiNext == \E chunk \in Chunks : Write(chunk)

\* What a span's props draw, cell by cell.
DrawnSpan(span) ==
  LET style == IF span.style = None THEN plainStyle ELSE span.style
      props == spanProps(style)
      on == (props.classes \ {"underline-strike"}) \cup
              (IF "underline-strike" \in props.classes THEN {"underline", "strike"} ELSE {})
  IN [i \in DOMAIN span.text |-> [s |-> span.text[i], fg |-> props.fg, bg |-> props.bg, on |-> on]]

Drawn(spans) ==
  /\ FoldLeft(LAMBDA acc, span : acc \o DrawnSpan(span), <<>>, spans) = term.cells
  /\ \A i \in 2..Len(spans) : spans[i].style # spans[i - 1].style
  /\ stripAnsi(ansiText) = [i \in DOMAIN term.cells |-> term.cells[i].s]

\* A coloured line is drawn as a terminal that reads it symbol by symbol would
\* draw it, however its sequences are cut, nested or broken, and as few runs as
\* its styles allow; half a sequence is never shown.
AnsiDrawn == Drawn(parseAnsi(ansiText))
=============================================================================

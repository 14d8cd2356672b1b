--------------------------------- MODULE Yaml ---------------------------------
(****************************************************************************)
(* The YAML text of infos: Serialize and Parse of the library that          *)
(* graph_info.cc dumps and loads them with                                  *)
(* (cpp/thirdparty/mini-yaml/yaml/Yaml.cpp, wrapped by                      *)
(* cpp/src/graphar/yaml.cc).                                                *)
(*                                                                          *)
(* A text is a sequence of lines, a line its indentation and what follows   *)
(* it.  Positions in a string count from 1, and 0 is std::string::npos.     *)
(* Scalars are strings without tabs and line breaks; "~" stands for every   *)
(* character that Parse refuses.  Infos have no sequence in a sequence, and *)
(* plain names for keys.                                                    *)
(****************************************************************************)
EXTENDS Integers, Sequences, FiniteSets, SequencesExt, FiniteSetsExt, TLC

CONSTANTS Keys,            \* the keys of all maps, in alphabetical order
          ScalarMaxLength  \* SerializeConfig: longer scalars are folded

ASSUME YamlAssumption == IsInjective(Keys) /\ ScalarMaxLength \in Nat \ {0}

------------------------------------------------------------------------------
(* Nodes and lines.                                                         *)

None == [kind |-> "none"]
Scalar(value) == [kind |-> "scalar", value |-> value]
SequenceOf(items) == [kind |-> "sequence", items |-> items]
MapOf(entries) == [kind |-> "map", entries |-> entries]

Line(offset, data) == [offset |-> offset, data |-> data]

Char(s, i) == SubSeq(s, i, i)
From(s, i) == SubSeq(s, i, Len(s))
Positions(s, chars) == {i \in 1 .. Len(s) : Char(s, i) \in chars}
FirstOf(set) == IF set = {} THEN 0 ELSE Min(set)
Behind(set, i) == {j \in set : j > i}
Filled(s) == {i \in 1 .. Len(s) : Char(s, i) # " "}
TrimEnd(s) == IF Filled(s) = {} THEN "" ELSE SubSeq(s, 1, Max(Filled(s)))

------------------------------------------------------------------------------
(* Serialize.                                                               *)

CitedChars == {"\"", ":", "{", "}", "[", "]", ",", "&", "*", "#", "?", "|", "-", "<", ">",
               "=", "!", "%", "@"}

\* Fault model: a hash is not cited.
CitedWithoutHash(s) == Positions(s, CitedChars \ {"#"}) # {}

ShouldBeCited(s) == Positions(s, CitedChars) # {}

\* A long scalar is cut at the first space behind every ScalarMaxLength characters.
RECURSIVE LineFolding(_)
LineFolding(s) ==
    LET space == FirstOf(Behind(Positions(s, {" "}), ScalarMaxLength))
    IN  IF s = "" THEN <<>>
        ELSE IF space = 0 THEN <<s>>
        ELSE <<SubSeq(s, 1, space - 1)>> \o LineFolding(From(s, space + 1))

ScalarLines(value, level) ==
    LET folded == LineFolding(value)
        text == IF ShouldBeCited(value) THEN "\"" \o value \o "\"" ELSE value
    IN  IF Len(folded) <= 1
          THEN <<Line(level, text)>>
          ELSE <<Line(level, ">-")>> \o [i \in DOMAIN folded |-> Line(level, folded[i])]

\* Lines that follow an introduction, the first of them on the same line.
After(intro, level, lines) ==
    <<Line(level, intro \o Head(lines).data)>> \o Tail(lines)

RECURSIVE SerializeLoop(_, _)
SerializeLoop(node, level) ==
    CASE node.kind = "scalar" -> ScalarLines(node.value, level)
      [] node.kind = "sequence" ->
            FlattenSeq([i \in DOMAIN node.items |->
                           After("- ", level, SerializeLoop(node.items[i], level + 2))])
      [] node.kind = "map" ->
            LET keys == SelectSeq(Keys, LAMBDA k : k \in DOMAIN node.entries
                                                       /\ node.entries[k] # None)
                Entry(key) ==
                    LET value == node.entries[key]
                        lines == SerializeLoop(value, level + 2)
                    IN  IF value.kind = "scalar" THEN After(key \o ": ", level, lines)
                        ELSE <<Line(level, key \o ": ")>> \o lines
            IN  FlattenSeq([i \in DOMAIN keys |-> Entry(keys[i])])

Serialize(root) == SerializeLoop(root, 0)

------------------------------------------------------------------------------
(* Quotes.                                                                  *)

\* The quotes that are not escaped: FindQuote pairs the first with the second and so on.
QuoteMarks(s) ==
    SetToSortSeq({i \in Positions(s, {"\""}) : i = 1 \/ Char(s, i - 1) # "\\"}, <)

\* The place of a token outside quotes and the number of quotes before it.  Behind a token
\* in quotes only the next one is looked at, be it in the same quotes.
RECURSIVE SkipQuotes(_, _, _, _)
SkipQuotes(tokens, marks, pos, k) ==
    IF 2 * k + 2 > Len(marks) \/ pos < marks[2 * k + 1]
      THEN [pos |-> pos, quotes |-> k]
    ELSE IF pos > marks[2 * k + 2] THEN SkipQuotes(tokens, marks, pos, k + 1)
    ELSE LET next == FirstOf(Behind(tokens, pos))
         IN  IF next = 0 THEN [pos |-> 0, quotes |-> k + 1]
             ELSE SkipQuotes(tokens, marks, next, k + 1)

FindNotCited(s, token) ==
    LET tokens == Positions(s, {token})
    IN  IF tokens = {} THEN [pos |-> 0, quotes |-> 0]
        ELSE SkipQuotes(tokens, QuoteMarks(s), Min(tokens), 0)

\* A scalar has quotes at both ends or nowhere.
ValidateQuote(s) ==
    LET Ends(chars, from) == {i \in Behind(Positions(s, chars), from) : Char(s, i - 1) # "\\"}
    IN  IF s # "" /\ Char(s, 1) \in {"\"", "'"}
          THEN FirstOf(Ends({Char(s, 1)}, 2)) = Len(s)
          ELSE Ends({"\"", "'"}, 1) = {}

------------------------------------------------------------------------------
(* Reading lines and finding out what they are.                             *)

Readable(data) == Positions(data, {"~"}) = {}

WithoutComment(line) ==
    LET hash == FindNotCited(line.data, "#").pos
    IN  IF hash = 0 THEN line ELSE [line EXCEPT !.data = SubSeq(@, 1, hash - 1)]

\* Spaces in front belong to the indentation.
Indented(line) ==
    LET first == FirstOf(Filled(line.data))
    IN  IF first = 0 THEN Line(0, "") ELSE Line(line.offset + first - 1, From(line.data, first))

RECURSIVE DropEmpty(_)
DropEmpty(lines) ==
    IF lines # <<>> /\ Head(lines).data = "" THEN DropEmpty(Tail(lines)) ELSE lines

\* From here on reading a text goes through states: what was found, what is left, and
\* whether an exception was thrown.
ReadLines(text) ==
    LET lines == [i \in DOMAIN text |-> WithoutComment(text[i])]
    IN  [done |-> <<>>,
         rest |-> DropEmpty([i \in DOMAIN lines |-> Indented(lines[i])]),
         ok |-> \A i \in DOMAIN lines : Readable(lines[i].data)]

Typed(type, line) == [type |-> type, offset |-> line.offset, data |-> line.data]
Thrown(s) == [s EXCEPT !.ok = FALSE]

IsSequenceStart(data) ==
    data # "" /\ Char(data, 1) = "-" /\ (Len(data) = 1 \/ Char(data, 2) = " ")

IsBlockScalar(data) == data # "" /\ Char(data, 1) \in {"|", ">"}
IsBadBlockScalar(data) ==
    IsBlockScalar(data) /\ Len(data) >= 2 /\ Char(data, 2) \notin {"-", " "}

\* An entry of a sequence: what follows the dash becomes a line of its own.
PostProcessSequenceLine(s) ==
    LET line == Head(s.rest)
        value == FirstOf(Behind(Filled(line.data), 1))
        after == DropEmpty(Tail(s.rest))
    IN  [s EXCEPT
            !.done = Append(@, Typed("sequence", Line(line.offset, ""))),
            !.rest = IF value = 0 THEN after
                     ELSE <<Line(line.offset + value - 1, From(line.data, value))>> \o after]

\* A scalar goes on in the lines that are indented deeper than the line before it.
PostProcessScalarLine(s) ==
    LET parent == IF s.done = <<>> THEN Head(s.rest).offset ELSE Last(s.done).offset
        Stops(j) == s.rest[j].data # "" /\ s.rest[j].offset <= parent
        stop == Min({j \in 2 .. Len(s.rest) : Stops(j)} \cup {Len(s.rest) + 1})
        last == Max({j \in 2 .. stop - 1 : s.rest[j].data # ""} \cup {1})
    IN  [s EXCEPT
            !.done = @ \o [j \in 1 .. last |-> Typed("scalar", s.rest[j])],
            !.rest = SubSeq(@, stop, Len(@))]

\* An entry of a map: the value becomes a line of its own, also an empty one, unless
\* the lines below are indented deeper.
Refused(key, quotes, value) ==
    \/ quotes > 1
    \/ key = ""
    \/ quotes = 1 /\ (Char(key, 1) # "\"" \/ Char(key, Len(key)) # "\"")
    \/ IsSequenceStart(value)
    \/ IsBadBlockScalar(value)

Unnested(s, value, line) ==
    IF value.data = "" /\ s.rest # <<>> /\ Head(s.rest).offset > line.offset
      THEN s
      ELSE PostProcessScalarLine([s EXCEPT !.rest = <<value>> \o @])

Mapped(s, key, quotes, line, value) ==
    IF Refused(key, quotes, value.data) THEN Thrown(s)
    ELSE Unnested([s EXCEPT !.done = Append(@, Typed("map", Line(line.offset,
                                IF quotes = 1 THEN SubSeq(key, 2, Len(key) - 1) ELSE key))),
                            !.rest = DropEmpty(Tail(@))],
                  value, line)

\* What follows the colon, at the place where it stands, but a block scalar at that of the key.
ValueLine(line, colon, start) ==
    IF start = 0 THEN Line(colon + 1, "")
    ELSE Line(IF IsBlockScalar(From(line.data, start)) THEN line.offset
                                                       ELSE line.offset + start - 1,
              From(line.data, start))

PostProcessMappingLine(s, colon) ==
    Mapped(s, TrimEnd(SubSeq(Head(s.rest).data, 1, colon.pos - 1)), colon.quotes,
           Head(s.rest),
           ValueLine(Head(s.rest), colon.pos,
                     FirstOf(Behind(Filled(Head(s.rest).data), colon.pos))))

LineWithColon(s, colon) ==
    IF colon.pos = 0 THEN PostProcessScalarLine(s) ELSE PostProcessMappingLine(s, colon)

PostProcessLine(s) == LineWithColon(s, FindNotCited(Head(s.rest).data, ":"))

RECURSIVE PostProcessLines(_)
PostProcessLines(s) ==
    IF s.rest = <<>> \/ ~s.ok
      THEN [s EXCEPT !.ok = @ /\ (s.done # <<>> => Last(s.done).type = "scalar")]
    ELSE PostProcessLines(
            IF ~IsSequenceStart(Head(s.rest).data) THEN PostProcessLine(s)
            ELSE IF Filled(Head(s.rest).data) = {1} THEN PostProcessSequenceLine(s)
            ELSE PostProcessLine(PostProcessSequenceLine(s)))

------------------------------------------------------------------------------
(* Making nodes of typed lines.  A result is a node and the next line.      *)

Result(node, next) == [node |-> node, next |-> next]
Failed == Result(None, 0)

RECURSIVE Spaces(_)
Spaces(n) == IF n = 0 THEN "" ELSE " " \o Spaces(n - 1)

\* The lines of a plain scalar are joined by spaces; an empty one counts as a line break.
RECURSIVE PlainText(_)
PlainText(lines) ==
    LET text == IF Filled(Head(lines).data) = {} THEN "\n" ELSE TrimEnd(Head(lines).data)
    IN  IF Len(lines) = 1 THEN text ELSE text \o " " \o PlainText(Tail(lines))

\* So are those of a folded one, but a line that is empty or indented deeper breaks it.
RECURSIVE FoldedText(_, _, _, _)
FoldedText(lines, block, text, spaced) ==
    LET line == Head(lines)
        kept == IF spaced THEN SubSeq(text, 1, Len(text) - 1) \o "\n" ELSE text \o "\n"
        whole == (IF line.offset = block THEN text ELSE kept)
                     \o Spaces(line.offset - block) \o line.data
    IN  IF line.data = ""
          THEN IF Len(lines) = 1 THEN kept ELSE FoldedText(Tail(lines), block, kept, FALSE)
        ELSE IF Len(lines) = 1 THEN whole
        ELSE FoldedText(Tail(lines), block, whole \o " ", TRUE)

\* Fault model: the quote at the end stays.
UnquotedInFront(text) ==
    IF text # "" /\ Char(text, 1) \in {"\"", "'"} THEN From(text, 2) ELSE text

Unquoted(text) ==
    IF text # "" /\ Char(text, 1) \in {"\"", "'"} THEN SubSeq(text, 2, Len(text) - 1) ELSE text

ParseScalar(lines, i) ==
    LET parent == IF i = 1 THEN 0 ELSE lines[i - 1].offset
        folded == IsBlockScalar(lines[i].data)
        first == IF folded THEN i + 1 ELSE i
        end == Min({j \in i .. Len(lines) : lines[j].type # "scalar"} \cup {Len(lines) + 1})
        body == SubSeq(lines, first, end - 1)
        block == Head(body).offset
        accepted ==
            IF folded
              THEN /\ block > parent
                   /\ \A j \in DOMAIN body : body[j].data # "" => body[j].offset >= block
              ELSE /\ parent # 0 => \A j \in DOMAIN body : body[j].offset > parent
                   /\ ValidateQuote(PlainText(body))
        text == IF folded THEN FoldedText(body, block, "", FALSE) ELSE PlainText(body)
    IN  IF first = end THEN Result(None, first)
        ELSE IF accepted THEN Result(Scalar(Unquoted(text)), end)
        ELSE Failed

\* ParseSequence and ParseMap: the entries from line i on that have its type and its
\* indentation, behind those that were found before.
RECURSIVE ParseNode(_, _), ParseEntries(_, _, _)
ParseEntries(lines, i, before) ==
    LET child == IF i = Len(lines) THEN Failed ELSE ParseNode(lines, i + 1)
        next == child.next
        entries == Append(before, <<lines[i].data, child.node>>)
    IN  IF child = Failed THEN [entries |-> <<>>, next |-> 0]
        ELSE IF next > Len(lines) \/ lines[next].offset < lines[i].offset
          THEN [entries |-> entries, next |-> next]
        ELSE IF lines[next].offset > lines[i].offset \/ lines[next].type # lines[i].type
          THEN [entries |-> <<>>, next |-> 0]
        ELSE ParseEntries(lines, next, entries)

ParseNode(lines, i) ==
    IF lines[i].type = "scalar" THEN ParseScalar(lines, i)
    ELSE LET found == ParseEntries(lines, i, <<>>)
         IN  IF found.next = 0 THEN Failed
             ELSE IF lines[i].type = "sequence"
               THEN Result(SequenceOf([j \in DOMAIN found.entries |-> found.entries[j][2]]),
                           found.next)
             ELSE Result(MapOf([key \in {e[1] : e \in ToSet(found.entries)} |->
                                   (CHOOSE e \in ToSet(found.entries) : e[1] = key)[2]]),
                         found.next)

\* Parse: the whole text makes one node, or an exception is thrown.
Tree(result, end) ==
    IF result.next = end THEN [status |-> "OK", root |-> result.node]
                         ELSE [status |-> "YamlError", root |-> None]

Root(s) ==
    IF ~s.ok THEN Tree(Failed, 1)
    ELSE Tree(IF s.done = <<>> THEN Result(None, 1) ELSE ParseNode(s.done, 1), Len(s.done) + 1)

Parse(text) == Root(PostProcessLines(ReadLines(text)))
==============================================================================

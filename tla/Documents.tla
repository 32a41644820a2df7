------------------------------ MODULE Documents ------------------------------
(***************************************************************************)
(* The PDF writer of `write_document`: blocks of Markdown are wrapped into    *)
(* lines, lines placed on pages, pages numbered as objects. Lengths are in    *)
(* tenths of a point, widths in units of 1/10000 point (a character of `em`   *)
(* thousandths set at `size` tenths is em * size wide). A word is a record    *)
(* [n, em, sym] of n times one character. Markers of lists and the spaces     *)
(* between words are drawn but not modelled.                                 *)
(***************************************************************************)
EXTENDS Integers, Sequences, FiniteSets, SequencesExt

CONSTANTS Inputs,     \* blocks a document may have: [kind, words], the words of its runs
          Ascii,      \* the printable characters of ASCII
          MaxBlocks   \* bound: blocks of a document

ASSUME DocumentAssumption == MaxBlocks \in Nat
ASSUME FontAssumption == "space" \in Ascii /\ Ascii \subseteq STRING

\* Helvetica's widest character, the @, takes 1015 thousandths.
Ems  == 1..1015
Word == [n : Nat, em : Ems, sym : STRING]
ASSUME InputAssumption == \A b \in Inputs : b.words \in Seq(Word) /\ b.kind \in STRING

VARIABLES
    todo,     \* lines of the current block still to place
    style,    \* style of the current block, or the one between blocks
    page,     \* lines on the current page
    pages,    \* pages finished
    baseline, \* where the next baseline goes
    blocks,   \* blocks begun
    given,    \* history: words of the blocks begun
    file      \* objects of the finished file, in the order they are written

docVars == <<todo, style, page, pages, baseline, blocks, given, file>>

PageH  == 7920
Margin == 720
Top    == PageH - Margin
Usable == 4680000
Space1 == 278

Style(before, size, leading, after, indent) ==
    [before |-> before, size |-> size, leading |-> leading, after |-> after, indent |-> indent,
     open |-> TRUE]
Between == [before |-> 0, size |-> 110, leading |-> 155, after |-> 0, indent |-> 0, open |-> FALSE]
StyleOf(kind) ==
    CASE kind = "title"  -> Style(0, 200, 260, 100, 0)
      [] kind = "h1"     -> Style(120, 160, 200, 30, 0)
      [] kind = "h2"     -> Style(120, 140, 180, 30, 0)
      [] kind = "h3"     -> Style(120, 125, 165, 30, 0)
      [] kind \in {"bullet", "numbered"} -> Style(0, 110, 155, 30, 180)
      [] kind = "rule"   -> Style(0, 110, 155, 140, 0)
      [] OTHER           -> Style(0, 110, 155, 70, 0)

(***************************************************************************)
(* Wrapping                                                                *)
(***************************************************************************)

Width(word, size) == word.n * word.em * size
Column(s)         == Usable - s.indent * 1000

\* A word wider than the column is cut into pieces that fit, of one character at
\* least.
PiecesFull(word, size, max) ==
    LET fit == IF max \div (word.em * size) = 0 THEN 1 ELSE max \div (word.em * size)
    IN  IF Width(word, size) <= max THEN <<word>>
        ELSE [k \in 1..(word.n \div fit) |-> [word EXCEPT !.n = fit]]
Pieces(word, size, max) ==
    LET fit == IF max \div (word.em * size) = 0 THEN 1 ELSE max \div (word.em * size)
    IN  IF Width(word, size) <= max THEN <<word>>
        ELSE [k \in 1..((word.n + fit - 1) \div fit) |->
                 [word EXCEPT !.n = IF k * fit <= word.n THEN fit ELSE word.n - (k - 1) * fit]]
WordsOf(words, size, max) == FlattenSeq([i \in DOMAIN words |-> Pieces(words[i], size, max)])

LineWidth(line, size) ==
    LET upTo[k \in 0..Len(line)] == IF k = 0 THEN 0 ELSE upTo[k - 1] + Width(line[k], size)
    IN  upTo[Len(line)] + (IF line = <<>> THEN 0 ELSE (Len(line) - 1) * Space1 * size)

\* A word goes on the current line if it fits.
TakeWord(acc, word, size, max) ==
    LET add == Width(word, size) + (IF acc.cur = <<>> THEN 0 ELSE Space1 * size)
    IN  IF acc.cur # <<>> /\ acc.w + add > max
        THEN [lines |-> Append(acc.lines, acc.cur), cur |-> <<word>>, w |-> Width(word, size)]
        ELSE [lines |-> acc.lines, cur |-> Append(acc.cur, word), w |-> acc.w + add]

\* A block without words is one empty line.
NoWords == [lines |-> <<>>, cur |-> <<>>, w |-> 0]
WrapWords(words, size, max) ==
    LET upTo[k \in 0..Len(words)] ==
            IF k = 0 THEN NoWords ELSE TakeWord(upTo[k - 1], words[k], size, max)
        end == upTo[Len(words)]
    IN  IF end.cur # <<>> THEN Append(end.lines, end.cur) ELSE <<<<>>>>

\* What is drawn of a line: the fonts have codes for ASCII and eight marks, any other
\* character becomes a blank.
Marks == {"bullet", "en dash", "em dash", "left single quote", "right single quote",
          "left double quote", "right double quote", "ellipsis"}
Escaped(c)   == IF c \in Ascii \cup Marks THEN c ELSE "space"
Drawn(words) == FlattenSeq([i \in DOMAIN words |-> [k \in 1..words[i].n |-> Escaped(words[i].sym)]])

(***************************************************************************)
(* Placing                                                                 *)
(***************************************************************************)

DocInit ==
    /\ todo = <<>> /\ style = Between /\ page = <<>> /\ pages = <<>> /\ baseline = Top
    /\ blocks = 0 /\ given = <<>> /\ file = <<>>

\* No gap at the very top of a page.
Spaced(at, dy) == IF at < Top THEN at - dy ELSE at

\* A rule is a gap and nothing else. A title comes first or not at all.
BeginBlock ==
    /\ ~style.open /\ file = <<>> /\ blocks < MaxBlocks
    /\ \E b \in Inputs :
          LET s == StyleOf(b.kind)
          IN  /\ b.kind = "title" => blocks = 0
              /\ style' = s /\ baseline' = Spaced(baseline, s.before)
              /\ todo' = IF b.kind = "rule" THEN <<>>
                         ELSE WrapWords(WordsOf(b.words, s.size, Column(s)), s.size, Column(s))
              /\ given' = IF b.kind = "rule" THEN given ELSE given \o b.words
    /\ blocks' = blocks + 1
    /\ UNCHANGED <<page, pages, file>>

Placed(at) == [y |-> at, leading |-> style.leading, size |-> style.size,
               width |-> Column(style), words |-> Head(todo), text |-> Drawn(Head(todo))]

PlaceLineStill ==
    /\ todo # <<>>
    /\ todo' = Tail(todo)
    /\ \/ /\ baseline - style.leading >= Margin
          /\ page' = Append(page, Placed(baseline)) /\ pages' = pages /\ baseline' = baseline
       \/ /\ baseline - style.leading < Margin
          /\ page' = <<Placed(Top)>> /\ pages' = Append(pages, page) /\ baseline' = Top
    /\ UNCHANGED <<style, blocks, given, file>>

\* A line that does not fit goes on a new page.
PlaceLine ==
    /\ todo # <<>>
    /\ todo' = Tail(todo)
    /\ \/ /\ baseline - style.leading >= Margin
          /\ page' = Append(page, Placed(baseline)) /\ pages' = pages /\ baseline' = baseline - style.leading
       \/ /\ baseline - style.leading < Margin
          /\ page' = <<Placed(Top)>> /\ pages' = Append(pages, page) /\ baseline' = Top - style.leading
    /\ UNCHANGED <<style, blocks, given, file>>
EndBlock ==
    /\ style.open /\ todo = <<>>
    /\ style' = Between /\ baseline' = Spaced(baseline, style.after)
    /\ UNCHANGED <<todo, page, pages, blocks, given, file>>

(***************************************************************************)
(* The file: 1 the catalog, 2 the page tree, 3 to 6 the fonts, then a page and *)
(* its content for each page.                                               *)
(***************************************************************************)

FirstPageShort == 6
FirstPage == 7
Object(num, kind, refs) == [num |-> num, kind |-> kind, refs |-> refs]
Objects(n) ==
    <<Object(1, "catalog", {2}),
      Object(2, "tree", {FirstPage + 2 * (p - 1) : p \in 1..n})>>
    \o [f \in 1..4 |-> Object(2 + f, "font", {})]
    \o FlattenSeq([p \in 1..n |->
          <<Object(FirstPage + 2 * (p - 1), "page", {2, FirstPage + 2 * (p - 1) + 1} \cup (3..6)),
            Object(FirstPage + 2 * (p - 1) + 1, "content", {})>>])

FinishDocument ==
    /\ ~style.open /\ file = <<>>
    /\ pages' = Append(pages, page)
    /\ file' = Objects(Len(pages'))
    /\ UNCHANGED <<todo, style, page, baseline, blocks, given>>

DocNext == BeginBlock \/ PlaceLine \/ EndBlock \/ FinishDocument
DocSpec == DocInit /\ [][DocNext]_docVars

(***************************************************************************)
(* Properties                                                              *)
(***************************************************************************)

Sheets == IF file = <<>> THEN Append(pages, page) ELSE pages

\* Every line is inside the margins of its page, a line is at least its leading
\* below the one before, and none but an empty document has a page without lines
\* (Pdf::line, Pdf::block, Pdf::space).
LinesInMargins ==
    \A p \in DOMAIN Sheets :
        /\ Sheets[p] = <<>> => Len(Sheets) = 1
        /\ \A i \in DOMAIN Sheets[p] :
              LET line == Sheets[p][i]
              IN  /\ line.y <= Top /\ line.y - line.leading >= Margin
                  /\ i > 1 => line.y <= Sheets[p][i - 1].y - Sheets[p][i - 1].leading

\* Wrapping and page breaks lose, repeat and move nothing: what is drawn on the pages
\* and still to draw is the text of the blocks, character by character, except that a
\* character the fonts have no code for is a blank, so that a text in another script is
\* blank altogether; and no line is wider than the column by the widths the code has of
\* its characters (words_of, wrap_words, pdf_escape). In the file
\* every object has a number of its own, the numbers are those of the table, and
\* what an object refers to is there and of the kind it should be (build_pdf).
TextComplete ==
    LET lines == FlattenSeq(Sheets)
        numbers(kind) == {file[i].num : i \in {j \in DOMAIN file : file[j].kind = kind}}
        refs(kind) == UNION {file[i].refs : i \in {j \in DOMAIN file : file[j].kind = kind}}
    IN  /\ FlattenSeq([i \in DOMAIN lines |-> lines[i].text]) \o Drawn(FlattenSeq(todo)) = Drawn(given)
        /\ \A i \in DOMAIN lines : LineWidth(lines[i].words, lines[i].size) <= lines[i].width
        /\ file # <<>> =>
              /\ {file[i].num : i \in DOMAIN file} = 1..(FirstPage - 1 + 2 * Len(pages))
              /\ Len(file) = FirstPage - 1 + 2 * Len(pages)
              /\ refs("catalog") = numbers("tree") /\ refs("tree") = numbers("page")
              /\ refs("page") = numbers("tree") \cup numbers("content") \cup numbers("font")
=============================================================================

----------------------------- MODULE BoardNote -----------------------------
(***************************************************************************)
(* The two notes of a board, board.md and done.md, as markdown that people *)
(* edit by hand and the store parses, changes and renders again on every   *)
(* write (internal/kanban/board/markdown.go).  A note is a sequence of     *)
(* lines; a line is what the parser takes it for.  Whether a write is      *)
(* complete, and who else writes, is BoardStore's question; here every     *)
(* write is whole and the content of the cards is the subject.             *)
(***************************************************************************)
EXTENDS Integers, Sequences, FiniteSets, SequencesExt

CONSTANTS
    Columns,                 \* the active columns, in the order they are rendered
    Keys,                    \* the structured fields of a card, in their order
    FirstBoard, FirstDone,   \* the lines of the notes at the start
    Descriptions, Values, Bodies,    \* what a request may write
    HandLines,               \* the lines a person may add
    MaxEdits, MaxWrites      \* bounds: edits by hand, and requests

VARIABLES board, done, edits, writes

vars == <<board, done, edits, writes>>

(***************************************************************************)
(* Lines.  A heading carries the block id at its end; a comment bullet has *)
(* a stamp and an author, other bullets do not.                            *)
(***************************************************************************)
NoId == <<>>
Blank == [is |-> "blank"]
Plain(text) == [is |-> "plain", text |-> text]
Heading(level, text, id) == [is |-> "heading", level |-> level, text |-> text, id |-> id]
Field(key, value) == [is |-> "field", key |-> key, value |-> value]
Said(text) == [is |-> "comment", text |-> text]
Bullet(text) == [is |-> "bullet", text |-> text]
Indented(line) == [is |-> "indented", line |-> line]

IsHeading(line, level) == line.is = "heading" /\ line.level = level
CommentsHeading == Heading(3, "Comments", NoId)

Archive == "Done"
Statuses == Range(Columns) \cup {Archive}
NoStatus == "none"
NoValue == ""

\* strings.TrimSpace of the lines.
Trimmed(lines) ==
    LET text == {i \in DOMAIN lines : lines[i] # Blank}
    IN  IF text = {} THEN <<>> ELSE SubSeq(lines, Min(text), Max(text))

\* The same sequence, element by element: TLC evaluates it once.
Listed(seq) == SubSeq(seq, 1, Len(seq))

NewCard(title, id, status, desc) ==
    [title |-> title, id |-> id, status |-> status, desc |-> desc, comments |-> <<>>,
     fields |-> [k \in Range(Keys) |-> NoValue]]

(***************************************************************************)
(* parseBoardMarkdown.  A card is a heading of the second level and the    *)
(* lines down to the next heading of the first two; the column is the last *)
(* heading of the first level above it.                                    *)
(***************************************************************************)
\* The first place that satisfies the test, or the one after the end.
First(lines, Test(_)) == Min({i \in DOMAIN lines : Test(lines[i])} \cup {Len(lines) + 1})

Before(lines, Test(_)) == SubSeq(lines, 1, First(lines, Test) - 1)
After(lines, Test(_)) == SubSeq(lines, First(lines, Test) + 1, Len(lines))

Opens(line) == IsHeading(line, 1) \/ IsHeading(line, 2)
IsComments(line) == line = CommentsHeading

\* Fields count only above the description, the last of a key.
FieldsOf(text) ==
    LET head == Before(text, LAMBDA l : l # Blank /\ l.is # "field")
        at(k) == {i \in DOMAIN head : head[i].is = "field" /\ head[i].key = k}
    IN  [k \in Range(Keys) |-> IF at(k) = {} THEN NoValue ELSE head[Max(at(k))].value]

DescOf(text) == Trimmed(SubSeq(text, First(text, LAMBDA l : l # Blank /\ l.is # "field"), Len(text)))

\* A bullet and the indented lines down to the next one; other lines are dropped.
CommentsOf(section) ==
    LET lines == SelectSeq(section, LAMBDA l : l.is \in {"comment", "indented"})
        from == SelectSeq([i \in DOMAIN lines |-> i], LAMBDA i : lines[i].is = "comment")
        rest(i) == Before(SubSeq(lines, i + 1, Len(lines)), LAMBDA l : l.is = "comment")
        body(i) == <<Plain(lines[i].text)>> \o [k \in DOMAIN rest(i) |-> rest(i)[k].line]
    IN  Listed([j \in DOMAIN from |-> body(from[j])])

\* The lines of the card whose heading is at i.
Block(lines, i) == Before(SubSeq(lines, i + 1, Len(lines)), Opens)

ColumnAt(lines, i) ==
    LET above == {j \in 1..i : IsHeading(lines[j], 1)}
    IN  IF above = {} THEN NoStatus ELSE lines[Max(above)].text

CardAt(lines, i) ==
    LET text == Before(Block(lines, i), IsComments)
    IN  [NewCard(lines[i].text, lines[i].id, ColumnAt(lines, i), DescOf(text)) EXCEPT
            !.fields = FieldsOf(text),
            !.comments = CommentsOf(After(Block(lines, i), IsComments))]

HeadingsOf(lines) == SelectSeq([i \in DOMAIN lines |-> i], LAMBDA i : IsHeading(lines[i], 2))

\* An unknown column, a card above every column and a bullet that is no comment
\* make the whole note unreadable.
Readable(lines) ==
    /\ \A i \in DOMAIN lines : IsHeading(lines[i], 1) => lines[i].text \in Statuses
    /\ \A i \in Range(HeadingsOf(lines)) :
          /\ ColumnAt(lines, i) # NoStatus
          /\ \A l \in Range(After(Block(lines, i), IsComments)) : l.is # "bullet"

\* A card added by hand is named after its column, its title and its place.
Named(card, i) ==
    [card EXCEPT !.id = IF @ = NoId THEN <<"hand", card.status, card.title, i>> ELSE @]

Cards(lines) ==
    LET at == HeadingsOf(lines) IN Listed([i \in DOMAIN at |-> Named(CardAt(lines, at[i]), i)])

(***************************************************************************)
(* renderBoardMarkdown.                                                    *)
(***************************************************************************)
\* Variant: only headings of the first level are demoted.
DemotedColumns(line) == IF IsHeading(line, 1) THEN [line EXCEPT !.level = 3] ELSE line

\* sanitizeDescription: headings of the first two levels would be columns and cards.
Demoted(line) ==
    IF IsHeading(line, 1) \/ IsHeading(line, 2) THEN [line EXCEPT !.level = 3] ELSE line

FieldLines(card) ==
    LET set == SelectSeq(Keys, LAMBDA k : card.fields[k] # NoValue)
    IN  [i \in DOMAIN set |-> Field(set[i], card.fields[set[i]])]

DescriptionLines(card) ==
    LET desc == Trimmed(card.desc)
    IN  IF desc = <<>> THEN <<>> ELSE <<Blank>> \o [i \in DOMAIN desc |-> Demoted(desc[i])]

CommentLines(card) ==
    LET bullet(body) == [i \in DOMAIN body |-> IF i = 1 THEN Said(body[1].text) ELSE Indented(body[i])]
    IN  IF card.comments = <<>> THEN <<>>
        ELSE <<Blank, CommentsHeading, Blank>>
                 \o FlattenSeq([i \in DOMAIN card.comments |-> bullet(card.comments[i])])

CardLines(card) ==
    <<Blank, Heading(2, card.title, card.id)>>
        \o FieldLines(card) \o DescriptionLines(card) \o CommentLines(card)

In(cards, status) == SelectSeq(cards, LAMBDA c : c.status = status)

\* The primary columns are rendered empty, the others only with cards.
Rendered(order, primary, cards) ==
    LET shown == SelectSeq(order, LAMBDA s : s \in primary \/ In(cards, s) # <<>>)
        column(s) == LET here == In(cards, s)
                     IN  <<Blank, Heading(1, s, NoId)>>
                             \o FlattenSeq([i \in DOMAIN here |-> CardLines(here[i])])
    IN  FlattenSeq([i \in DOMAIN shown |-> column(shown[i])])

BoardLines(cards) == Rendered(Append(Columns, Archive), Range(Columns), cards)
DoneLines(cards) == Rendered(<<Archive>> \o Columns, {Archive}, cards)

(***************************************************************************)
(* The requests.  Each reads the notes it needs and renders what it        *)
(* writes; a note that cannot be read refuses it.                          *)
(***************************************************************************)
Has(cards, id) == \E i \in DOMAIN cards : cards[i].id = id

\* cardIndex: the first of that id.
Index(cards, id) == Min({i \in DOMAIN cards : cards[i].id = id})

Writing == writes < MaxWrites /\ Readable(board) /\ writes' = writes + 1 /\ UNCHANGED edits

WriteBoard(cards) == board' = BoardLines(cards) /\ UNCHANGED done

WriteBoth(cards, archived) == board' = BoardLines(cards) /\ done' = DoneLines(archived)

CreateCard ==
    /\ Writing
    /\ \E status \in Range(Columns) : \E desc \in Descriptions :
          WriteBoard(Append(Cards(board), NewCard("new", <<"k", 10 + writes>>, status, desc)))

\* UpdateCard with one thing changed, the status not to Done.
UpdateCard(id) ==
    LET cards == Cards(board)
        at == Index(cards, id)
    IN  /\ Writing /\ Has(cards, id) /\ cards[at].status # Archive
        /\ \E card \in {[cards[at] EXCEPT !.title = "renamed"]}
                          \cup {[cards[at] EXCEPT !.desc = desc] : desc \in Descriptions}
                          \cup {[cards[at] EXCEPT !.fields[k] = v] : k \in Range(Keys), v \in Values}
                          \cup {[cards[at] EXCEPT !.status = s] : s \in Range(Columns)} :
              WriteBoard([cards EXCEPT ![at] = card])

\* The next place after the last card of the column, or the place of a card there.
MoveCard(id) ==
    LET cards == Cards(board)
        at == Index(cards, id)
        rest == RemoveAt(cards, at)
        moved(s) == [cards[at] EXCEPT !.status = s]
        last(s) == {i \in DOMAIN rest : rest[i].status = s}
        end(s) == IF last(s) = {} THEN Len(rest) + 1 ELSE Max(last(s)) + 1
    IN  /\ Writing /\ Has(cards, id)
        /\ \E s \in Range(Columns) : \E place \in {end(s)} \cup {Index(rest, rest[i].id) : i \in last(s)} :
              WriteBoard(InsertAt(rest, place, moved(s)))

AddComment(id) ==
    LET cards == Cards(board)
    IN  /\ Writing /\ Has(cards, id)
        /\ \E body \in Bodies :
              WriteBoard([cards EXCEPT ![Index(cards, id)].comments = Append(@, body)])

\* UpdateCard to Done: a card the archive already names is not added again.
Complete(id) ==
    LET cards == Cards(board)
        archived == Cards(done)
        card == [cards[Index(cards, id)] EXCEPT !.status = Archive]
    IN  /\ Writing /\ Readable(done) /\ Has(cards, id)
        /\ WriteBoth(RemoveAt(cards, Index(cards, id)),
                     IF Has(archived, id) THEN archived ELSE <<card>> \o archived)

RestoreCard(id) ==
    LET cards == Cards(board)
        archived == Cards(done)
    IN  /\ Writing /\ Readable(done) /\ Has(archived, id) /\ ~Has(cards, id)
        /\ \E s \in Range(Columns) :
              WriteBoth(Append(cards, [archived[Index(archived, id)] EXCEPT !.status = s]),
                        RemoveAt(archived, Index(archived, id)))

DeleteCard(id) ==
    LET cards == Cards(board)
        archived == Cards(done)
    IN  /\ Writing
        /\ \/ Has(cards, id) /\ WriteBoard(RemoveAt(cards, Index(cards, id)))
           \/ /\ ~Has(cards, id) /\ Readable(done) /\ Has(archived, id)
              /\ WriteBoth(cards, RemoveAt(archived, Index(archived, id)))

Ids == {c.id : c \in Range(Cards(board)) \cup Range(Cards(done))}

\* A person adds a line to board.md or takes one out.
HandEdit ==
    /\ edits < MaxEdits
    /\ \/ \E line \in HandLines : \E i \in 1..(Len(board) + 1) : board' = InsertAt(board, i, line)
       \/ \E i \in DOMAIN board : board' = RemoveAt(board, i)
    /\ edits' = edits + 1
    /\ UNCHANGED <<done, writes>>

Init == board = FirstBoard /\ done = FirstDone /\ edits = 0 /\ writes = 0

Next ==
    \/ HandEdit
    \/ CreateCard
    \/ \E id \in Ids :
          \/ UpdateCard(id) \/ MoveCard(id) \/ AddComment(id)
          \/ Complete(id) \/ RestoreCard(id) \/ DeleteCard(id)

Spec == Init /\ [][Next]_vars

(***************************************************************************)
(* Properties.                                                             *)
(***************************************************************************)
Parts == {"title", "status", "desc", "comments", "fields"}
Differing(a, b) == {part \in Parts : a[part] # b[part]}
Others(cards, id) == SelectSeq(cards, LAMBDA c : c.id # id)

\* The notes hold the same cards, each column in the same order, but for the one.
SameBut(id, before, after) == \A s \in Statuses : In(Others(before, id), s) = In(Others(after, id), s)

OnePart(id, before, after) ==
    \A a \in Range(before), b \in Range(after) :
        a.id = id /\ b.id = id => Cardinality(Differing(a, b)) <= 1

(***************************************************************************)
(* "The server re-renders the file canonically on every write; hand edits  *)
(* are parsed first, so content survives" (markdown.go:41-43): what a      *)
(* request leaves is read back with every other card as it was, in its     *)
(* place in its column, and the card of the request differs in one part.   *)
(***************************************************************************)
WriteTouchesOnePart ==
    [][writes' # writes =>
          /\ Readable(board') /\ Readable(done')
          /\ \A b \in {Cards(board)}, c \in {Cards(board')}, d \in {Cards(done)}, e \in {Cards(done')} :
                \E id \in {card.id : card \in Range(b \o c \o d \o e)} :
                    SameBut(id, b, c) /\ SameBut(id, d, e) /\ OnePart(id, b \o d, c \o e)]_vars

(***************************************************************************)
(* "A server mutation rewrites the file without losing the hand edits"     *)
(* (format_test.go:404): a line of text in the note is still there after a *)
(* request that is not a deletion.                                         *)
(***************************************************************************)
TextSurvives ==
    [][(writes' # writes /\ \A ids \in {Ids'} : Ids \subseteq ids) =>
          \A line \in Range(board) : line.is = "plain" => line \in Range(board') \cup Range(done')]_vars

(***************************************************************************)
(* A card that is completed is in the archive (UpdateCard).                *)
(***************************************************************************)
CompletedIsArchived ==
    [][\A id \in Ids : Complete(id) =>
          LET card == Cards(board)[Index(Cards(board), id)]
          IN  \E c \in Range(Cards(done')) : Differing(c, card) \subseteq {"status"}]_vars

=============================================================================

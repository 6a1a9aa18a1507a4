------------------------------ MODULE ScreenText ------------------------------
(***************************************************************************)
(* How hterm keeps the text of a row: text nodes and spans, one per run of *)
(* a style, with the cursor as a node and an offset into it (Screen in     *)
(* hterm_screen.js, TextAttributes in hterm_text_attributes.js), under     *)
(* what hterm_terminal.js does with the row the cursor is in.  Next to it  *)
(* the row as a user sees it, a style and a character per column, as the   *)
(* comments of those operations describe it.  Columns are counted from 0.  *)
(***************************************************************************)
EXTENDS Integers, Sequences, FiniteSetsExt

CONSTANTS
  Width,      \* the screen's columnCount_
  Styles,     \* of "plain", "bold" and "bg", which shows on white space
  TextCounts, \* lengths of strings, and parameters of control sequences
  MaxEdits    \* bound: operations in a behaviour

VARIABLES
  nodes,    \* of the row, each with its text, its style and wcNode
  at,       \* cursorNode_ (its number), cursorOffset_, column and overflow
  style,    \* textAttributes
  edits,    \* operations so far
  cells,    \* what each column should show
  torn      \* text was inserted in the middle of a wide character

rowVars == <<nodes, at, style, edits, cells, torn>>

Space == " "
Letters == {"a", "b"}
Spaces(n) == [i \in 1..n |-> Space]
Lesser(a, b) == IF a < b THEN a ELSE b
Cut(s, from, to) == SubSeq(s, from + 1, Lesser(to, Len(s)))

-----------------------------------------------------------------------------
(* Nodes.  A wide character has a node of its own, of two columns; what    *)
(* replaces it may be a space.  A plain node that is not wide is a text    *)
(* node, every other one a span.                                           *)
Wide == <<"W">>
CreateContainer(s, text, wc) == [text |-> text, style |-> s, wcNode |-> wc]
IsTextNode(n) == n.style = "plain" /\ ~n.wcNode
NodeWidth(n) == IF n.text = Wide THEN 2 ELSE Len(n.text)
RowWidth(ns) == MapThenSumSet(LAMBDA i : NodeWidth(ns[i]), DOMAIN ns)
Start(ns, i) == RowWidth(SubSeq(ns, 1, i - 1))

(* nodeSubstr: a wide character belongs to a piece that has its second     *)
(* column, or starts there.                                                *)
NodeSubstr(n, from, to) ==
  IF n.text = Wide THEN IF from <= 1 /\ to - from >= 2 THEN Wide ELSE <<>> ELSE Cut(n.text, from, to)

(* matchesContainer: a style with colours matches nothing, not even its    *)
(* own nodes.                                                              *)
MatchesContainer(s, wc, n) ==
  IF IsTextNode(n) THEN s = "plain" /\ ~wc ELSE ~wc /\ ~n.wcNode /\ s = n.style /\ s # "bg"

Before(ns, i) == SubSeq(ns, 1, i - 1)
After(ns, i) == SubSeq(ns, i + 1, Len(ns))
InsertNode(ns, i, n) == SubSeq(ns, 1, i - 1) \o <<n>> \o SubSeq(ns, i, Len(ns))
State(ns, c) == [nodes |-> ns, at |-> c]

-----------------------------------------------------------------------------
(* setCursorPosition, from the cursor's node on, or from the first when    *)
(* the column is before it or the cursor comes from another row.           *)
SetCursor(r, column, sameRow) ==
  LET ns == IF r.nodes = <<>> THEN <<CreateContainer("plain", <<>>, FALSE)>> ELSE r.nodes
      first == IF sameRow /\ r.nodes # <<>> /\ column >= r.at.column - r.at.offset THEN r.at.node ELSE 1
      start == IF first = 1 THEN 0 ELSE r.at.column - r.at.offset
      From(i) == start + RowWidth(SubSeq(ns, first, i - 1))
      i == CHOOSE i \in first..Len(ns) :
             /\ i = Len(ns) \/ NodeWidth(ns[i]) > column - From(i)
             /\ \A j \in first..i-1 : NodeWidth(ns[j]) <= column - From(j)
  IN  State(ns, [node |-> i, offset |-> column - From(i), column |-> column, overflow |-> FALSE])

SetOverflow(r, overflow) == [r EXCEPT !.at.overflow = overflow]

(* restoreCursor, of a column and an overflow saved before. *)
RestoreCursor(r, saved) == SetOverflow(SetCursor(r, saved.column, TRUE), saved.overflow)

(* maybeClipCurrentRow: the text is cut behind the last column, and a      *)
(* cursor past it stays there with its overflow set.  A wide character     *)
(* that begins in the last column goes.                                    *)
CutNode(ns, i, end) == Append(Before(ns, i), [ns[i] EXCEPT !.text = NodeSubstr(ns[i], 0, end)])
ClipAt(r, last, end) ==
  IF r.at.column < Width THEN SetCursor(State(CutNode(r.nodes, last.node, end), last), r.at.column, TRUE)
  ELSE State(CutNode(r.nodes, last.node, end), [last EXCEPT !.overflow = TRUE])
Fitting(r) == IF r.at.column < Width THEN r ELSE SetOverflow(SetCursor(r, Width - 1, TRUE), TRUE)
LastColumn(r) == SetCursor(r, Width - 1, TRUE).at

(* Mutation of MaybeClip: the last node is cut at the cursor's offset. *)
MaybeClipShort(r) ==
  IF RowWidth(r.nodes) <= Width THEN Fitting(r) ELSE ClipAt(r, LastColumn(r), LastColumn(r).offset)

MaybeClip(r) ==
  IF RowWidth(r.nodes) <= Width THEN Fitting(r) ELSE ClipAt(r, LastColumn(r), LastColumn(r).offset + 1)

-----------------------------------------------------------------------------
(* splitNode_ of a node that is not a wide character. *)
SplitNode(n, offset) == << [n EXCEPT !.text = Cut(@, 0, offset)], [n EXCEPT !.text = Cut(@, offset, Len(@))] >>

(* insertString once the cursor is in or at the end of its node: into that *)
(* node, a neighbour of the same style, or a node of its own.              *)
Place(r, s, text, wc, width) ==
  LET i == r.at.node
      n == r.nodes[i]
      offset == r.at.offset
      new == CreateContainer(s, text, wc)
      Moved(ns, j, o) == State(ns, [r.at EXCEPT !.node = j, !.offset = o])
  IN  CASE MatchesContainer(s, wc, n) ->
             Moved([r.nodes EXCEPT ![i].text = Cut(@, 0, offset) \o text \o Cut(@, offset, Len(@))], i, offset + width)
        [] ~MatchesContainer(s, wc, n) /\ offset = 0 ->
             IF i > 1 /\ MatchesContainer(s, wc, r.nodes[i - 1])
             THEN LET ns == [r.nodes EXCEPT ![i - 1].text = @ \o text] IN Moved(ns, i - 1, NodeWidth(ns[i - 1]))
             ELSE Moved(InsertNode(r.nodes, i, new), i, width)
        [] ~MatchesContainer(s, wc, n) /\ offset > 0 /\ offset >= NodeWidth(n) ->
             IF i < Len(r.nodes) /\ MatchesContainer(s, wc, r.nodes[i + 1])
             THEN Moved([r.nodes EXCEPT ![i + 1].text = text \o @], i + 1, NodeWidth(new))
             ELSE Moved(InsertNode(r.nodes, i + 1, new), i + 1, NodeWidth(new))
        [] ~MatchesContainer(s, wc, n) /\ offset > 0 /\ offset < NodeWidth(n) ->
             IF n.text = Wide
             THEN Moved(Append(r.nodes, new), Len(r.nodes) + 1, width)  \* splitNode_ took the node out
             ELSE Moved(Before(r.nodes, i)
                          \o <<SplitNode(n, offset)[1], new, SplitNode(n, offset)[2]>>
                          \o After(r.nodes, i), i + 1, width)

(* insertString.  A cursor past the text needs white space first, which is *)
(* kept out of a style that shows on it.                                   *)
Insert(r, s, text, wc) ==
  LET i == r.at.node
      n == r.nodes[i]
      gap == r.at.offset - NodeWidth(n)
      width == NodeWidth([text |-> text])
      moved == [r EXCEPT !.at.column = @ + width]
      ofItsOwn == CreateContainer("plain", Spaces(gap), FALSE)
      withText == gap > 0 /\ s # "bg" /\ ~wc
      spaced == IF gap <= 0 \/ withText THEN moved
                ELSE IF ~n.wcNode /\ n.style # "bg" THEN [moved EXCEPT !.nodes[i].text = @ \o Spaces(gap)]
                ELSE State(InsertNode(r.nodes, i + 1, ofItsOwn), [moved.at EXCEPT !.node = i + 1, !.offset = gap])
  IN  Place(spaced, s, IF withText THEN Spaces(gap) \o text ELSE text, wc, width)

(* deleteChars in the nodes ns from the cursor's on: the first keeps its   *)
(* place although it may be empty.  Half of a wide character leaves a      *)
(* space for the other half.                                               *)
RECURSIVE DeleteFrom(_, _, _, _, _)
DeleteFrom(ns, offset, count, space, isFirst) ==
  IF ns = <<>> \/ count = 0 THEN ns
  ELSE LET n == Head(ns)
           left == [n EXCEPT !.text = NodeSubstr(n, 0, offset) \o NodeSubstr(n, offset + count, offset + count + Width)]
           empty == [n EXCEPT !.text = <<>>]
           first == IF isFirst THEN <<empty>> ELSE <<>>
       IN  CASE n.text = Wide /\ offset = 0 /\ count = 1 -> first \o <<space>> \o Tail(ns)
             [] n.text = Wide /\ offset = 1 -> <<space, empty>> \o DeleteFrom(Tail(ns), 0, count - 1, space, FALSE)
             [] ~(n.text = Wide /\ (offset = 1 \/ (offset = 0 /\ count = 1))) ->
                  (IF isFirst \/ left.text # <<>> THEN <<left>> ELSE <<>>)
                    \o DeleteFrom(Tail(ns), 0, count - (NodeWidth(n) - NodeWidth(left)), space, FALSE)

(* deleteChars of the screen, with the style s and wcNode of the moment. *)
DeleteChars(r, s, wc, n) ==
  LET count == Lesser(n, Width - r.at.column)
      i == r.at.node
      rest == DeleteFrom(SubSeq(r.nodes, i, Len(r.nodes)), r.at.offset, count, CreateContainer(s, <<Space>>, wc), TRUE)
      ns == Before(r.nodes, i) \o rest
      c == IF r.nodes[i].text = Wide /\ r.at.offset = 1 THEN i + 1 ELSE i   \* the cursor's node
      without == Before(ns, c) \o After(ns, c)
      Cursor(j, o) == [r.at EXCEPT !.node = j, !.offset = o]
  IN  IF count = 0 THEN r
      ELSE IF IsTextNode(ns[c]) \/ ns[c].text # <<>> THEN State(ns, r.at)
      ELSE IF c > 1 THEN State(without, Cursor(c - 1, NodeWidth(ns[c - 1])))
      ELSE IF c < Len(ns) THEN State(without, Cursor(1, 0))
      ELSE State(<<CreateContainer("plain", <<>>, FALSE)>>, Cursor(1, 0))

(* overwriteString. *)
Overwrite(r, s, text, wc) ==
  LET width == NodeWidth([text |-> text])
      n == r.nodes[r.at.node]
  IN  IF r.at.column >= Width THEN r
      ELSE IF MatchesContainer(s, wc, n) /\ Cut(n.text, r.at.offset, Len(n.text)) = text
           THEN [r EXCEPT !.at.offset = @ + width, !.at.column = @ + width]
           ELSE Insert(DeleteChars(r, s, wc, width), s, text, wc)

-----------------------------------------------------------------------------
(* Selections.  A line is a sequence of rows of which all but the last     *)
(* overflowed; a position in it is a column counted on through its rows.   *)
PositionWithOverflow(line, row, i, offset) ==
  MapThenSumSet(LAMBDA k : RowWidth(line[k]), 1..row-1) + Start(line[row], i) + offset

(* getNodeAndOffsetWithOverflow_: the last position of a row is in it and  *)
(* not in the next one.                                                    *)
NodeAndOffset(line, position) ==
  LET Ahead(k) == position - MapThenSumSet(LAMBDA j : RowWidth(line[j]), 1..k-1)
      row == CHOOSE k \in DOMAIN line : /\ Ahead(k) <= RowWidth(line[k])
                                        /\ \A j \in 1..k-1 : Ahead(j) > RowWidth(line[j])
      i == CHOOSE i \in DOMAIN line[row] :
             /\ Ahead(row) <= Start(line[row], i) + NodeWidth(line[row][i])
             /\ \A j \in 1..i-1 : Ahead(row) > Start(line[row], j) + NodeWidth(line[row][j])
  IN  [row |-> row, node |-> i, offset |-> Ahead(row) - Start(line[row], i)]

-----------------------------------------------------------------------------
(* What a user sees.  White space shows only a background.                 *)
Cell(char, s) == IF char = Space /\ s # "bg" THEN <<Space, "plain">> ELSE <<char, s>>
Blank == Cell(Space, "plain")
ShownBy(n) == IF n.text = Wide THEN <<Cell("W", n.style), Cell("w", n.style)>>
              ELSE [i \in 1..Len(n.text) |-> Cell(n.text[i], n.style)]
Shown(ns) ==
  LET all == [c \in 0..RowWidth(ns)-1 |->
                LET i == CHOOSE i \in DOMAIN ns : Start(ns, i) <= c /\ c < Start(ns, i) + NodeWidth(ns[i])
                IN  ShownBy(ns[i])[c - Start(ns, i) + 1]]
  IN  [c \in 0..Width-1 |-> IF c \in DOMAIN all THEN all[c] ELSE Blank]

(* A wide character that lost a column shows a space in the other one. *)
Mended(row, s) ==
  [c \in 0..Width-1 |->
     IF (row[c][1] = "W" /\ (IF c + 1 < Width THEN row[c + 1][1] # "w" ELSE TRUE))
          \/ (row[c][1] = "w" /\ (IF c > 0 THEN row[c - 1][1] # "W" ELSE TRUE))
     THEN Cell(Space, s) ELSE row[c]]

CharsOf(text) == IF text = Wide THEN <<"W", "w">> ELSE text
Overwritten(column, text, s) ==
  Mended([c \in 0..Width-1 |-> IF c \in column..column+Len(CharsOf(text))-1
                               THEN Cell(CharsOf(text)[c - column + 1], s) ELSE cells[c]], s)
Inserted(column, text, s) ==
  Mended([c \in 0..Width-1 |->
            LET n == Len(CharsOf(text))
            IN  IF c < column THEN cells[c] ELSE IF c < column + n THEN Cell(CharsOf(text)[c - column + 1], s)
                ELSE cells[c - n]], "plain")
Deleted(column, count, s) ==
  LET halved == [c \in 0..Width-1 |-> IF c \in column..column+count-1 THEN Blank ELSE cells[c]]
  IN  [c \in 0..Width-1 |->
         IF c < column THEN Mended(halved, s)[c]
         ELSE IF c + count < Width THEN Mended(halved, s)[c + count] ELSE Cell(Space, s)]

-----------------------------------------------------------------------------
Row == State(nodes, at)
Becomes(r) == nodes' = r.nodes /\ at' = r.at
Edit == edits < MaxEdits /\ edits' = edits + 1 /\ UNCHANGED style
Counted(n) == Lesser(n, Width - at.column)
InWide == at.offset = 1 /\ nodes[at.node].text = Wide

Init ==
  /\ nodes = <<CreateContainer("plain", <<>>, FALSE)>>
  /\ at = [node |-> 1, offset |-> 0, column |-> 0, overflow |-> FALSE]
  /\ style = "plain" /\ edits = 0 /\ cells = [c \in 0..Width-1 |-> Blank] /\ torn = FALSE

(* print of a string that fits; the round after an overflow is on another  *)
(* row, or, without wraparound, again in the last column.                  *)
Printable == {Wide} \cup {[i \in 1..n |-> x] : n \in TextCounts, x \in Letters}
PrintRound(text) ==
  /\ Edit
  /\ at.column + Len(CharsOf(text)) <= Width
  /\ Becomes(MaybeClip(Overwrite(Row, style, text, text = Wide)))
  /\ cells' = Overwritten(at.column, text, style)
  /\ UNCHANGED torn

(* print in insert mode. *)
PrintInserting(text) ==
  /\ Edit
  /\ at.column + Len(CharsOf(text)) <= Width
  /\ Becomes(MaybeClip(Insert(Row, style, text, text = Wide)))
  /\ cells' = Inserted(at.column, text, style)
  /\ torn' = (torn \/ InWide)

(* insertSpace (ICH). *)
InsertSpace(n) ==
  /\ Edit
  /\ Becomes(SetOverflow(RestoreCursor(MaybeClip(Insert(Row, style, Spaces(n), FALSE)), at), FALSE))
  /\ cells' = Inserted(at.column, Spaces(n), style)
  /\ torn' = (torn \/ InWide)

(* deleteChars (DCH): with a style, spaces of that style come in from the  *)
(* right.                                                                  *)
DeleteCharacters(n) ==
  /\ Edit
  /\ LET r == DeleteChars(Row, style, FALSE, n)
         filled == Insert(SetCursor(r, Width - Counted(n), TRUE), style, Spaces(Counted(n)), FALSE)
     IN  Becomes(SetOverflow(IF style = "plain" THEN r ELSE RestoreCursor(filled, at), FALSE))
  /\ cells' = Deleted(at.column, Counted(n), style)
  /\ UNCHANGED torn

(* eraseToRight (EL 0 and ECH): text up to the end of the row is deleted,  *)
(* unless the background shows.                                            *)
EraseToRight(n) ==
  /\ Edit /\ ~at.overflow
  /\ LET count == Counted(n)
     IN  Becomes(IF style # "bg" /\ RowWidth(nodes) <= at.column + count
                 THEN SetOverflow(DeleteChars(Row, style, FALSE, count), FALSE)
                 ELSE SetOverflow(RestoreCursor(Overwrite(Row, style, Spaces(count), FALSE), at), FALSE))
  /\ cells' = Overwritten(at.column, Spaces(Counted(n)), style)
  /\ UNCHANGED torn

(* eraseToLeft (EL 1). *)
EraseToLeft ==
  /\ Edit
  /\ Becomes(RestoreCursor(Overwrite(SetCursor(Row, 0, TRUE), style, Spaces(at.column + 1), FALSE), at))
  /\ cells' = Overwritten(0, Spaces(at.column + 1), style)
  /\ UNCHANGED torn

(* clearCursorRow. *)
ClearCursorRow ==
  /\ Edit
  /\ nodes' = <<CreateContainer(style, IF style = "plain" THEN <<>> ELSE Spaces(Width), FALSE)>>
  /\ at' = [node |-> 1, offset |-> 0, column |-> 0, overflow |-> FALSE]
  /\ cells' = [c \in 0..Width-1 |-> Cell(Space, style)]
  /\ torn' = FALSE

(* The cursor moves within the row, or to it from another. *)
MoveCursor(column, sameRow) ==
  /\ column # at.column \/ ~sameRow
  /\ Becomes(SetCursor(Row, column, sameRow))
  /\ UNCHANGED <<style, edits, cells, torn>>

SelectStyle(s) == style # s /\ style' = s /\ UNCHANGED <<nodes, at, edits, cells, torn>>

Next ==
  \/ \E text \in Printable : PrintRound(text) \/ PrintInserting(text)
  \/ \E n \in TextCounts : InsertSpace(n) \/ DeleteCharacters(n) \/ EraseToRight(n)
  \/ EraseToLeft \/ ClearCursorRow
  \/ \E column \in 0..Width-1, sameRow \in BOOLEAN : MoveCursor(column, sameRow)
  \/ \E s \in Styles : SelectStyle(s)

Spec == Init /\ [][Next]_rowVars

-----------------------------------------------------------------------------
(* Every variable has its type. *)
TypeOK ==
  /\ at.node \in DOMAIN nodes /\ at.column \in 0..Width-1 /\ at.offset >= 0
  /\ \A i \in DOMAIN nodes : nodes[i].style \in Styles
  /\ edits \in 0..MaxEdits /\ torn \in BOOLEAN

(* Whatever is printed, inserted, deleted and erased, however the text is  *)
(* spread over nodes, each column shows the character and the style it     *)
(* should ("this whitespace should be completely unstyled").               *)
RowShowsItsText == torn \/ Shown(nodes) = cells

(* The node and the offset of the cursor are those of its column. *)
CursorInItsNode == torn \/ Start(nodes, at.node) + at.offset = at.column

(* A position of a selection and its node are the same place, also in a    *)
(* line of several rows.                                                   *)
Line == <<nodes, <<CreateContainer("plain", <<"b", Space>>, FALSE)>> >>
SelectionKeepsPlace ==
  \A p \in 0..RowWidth(nodes)+2 :
    LET place == NodeAndOffset(Line, p)
    IN  PositionWithOverflow(Line, place.row, place.node, place.offset) = p

=============================================================================

----------------------------- MODULE ScrollPort ------------------------------
(***************************************************************************)
(* What of the terminal's rows is in the document (hterm_scrollport.js),   *)
(* with the rows as hterm_terminal.js provides, numbers and replaces them, *)
(* the user's selection, and the browser, which tells of scrolling and     *)
(* resizing later.  Only the visible rows are in the document, between two *)
(* folds; the rows in which the selection starts and ends are kept outside *)
(* the folds when they are not visible.  Heights are in rows: a row is one *)
(* unit high and the padding nothing.  Of a selection there are its rows.  *)
(***************************************************************************)
EXTENDS Integers, Sequences, SequencesExt

CONSTANTS
  Heights,  \* rows that fit in the window
  Above,    \* rows of scrollback in the beginning
  MaxRows,  \* bound: rows made
  MaxOps    \* bound: what the host and the user do

VARIABLE s

(* The document's nodes: rows are numbered from 1 in the order made. *)
TopFold == 0
BottomFold == -1
TopBag == -2
BottomBag == -3
None == -9
NoRow == -9

InOrderOf(S) == SetToSortSeq(S, LAMBDA a, b : a < b)
Lesser(a, b) == IF a < b THEN a ELSE b
Greater(a, b) == IF a > b THEN a ELSE b

-----------------------------------------------------------------------------
(* The terminal as a RowProvider. *)
RowCount(p) == Len(p.scrollback) + Len(p.rows)
AllRows(p) == p.scrollback \o p.rows
GetRowNode(p, i) == IF i \in 0..RowCount(p)-1 THEN AllRows(p)[i + 1] ELSE NoRow

Renumber(p, rows) ==
  [p EXCEPT !.rowIndex = [n \in DOMAIN @ |->
     IF \E i \in DOMAIN rows : rows[i] = n
     THEN Len(p.scrollback) + (CHOOSE i \in DOMAIN rows : rows[i] = n) - 1 ELSE @[n]]]

NewRow(p, index) == [p EXCEPT !.rowIndex = Append(@, index)]
Made(p) == Len(p.rowIndex)

-----------------------------------------------------------------------------
(* The document.  A node that is taken out of it, be it to be put in again *)
(* elsewhere, takes the end of the selection that is in it to its parent.  *)
Position(p, n) == CHOOSE i \in DOMAIN p.dom : p.dom[i] = n
InDocument(p, n) == \E i \in DOMAIN p.dom : p.dom[i] = n
NextSibling(p, n) ==
  IF ~InDocument(p, n) \/ Position(p, n) = Len(p.dom) THEN None ELSE p.dom[Position(p, n) + 1]

TakeOut(p, gone) ==
  [p EXCEPT !.dom = SelectSeq(@, LAMBDA n : n \notin gone),
            !.anchor = IF @ \in gone THEN None ELSE @, !.focus = IF @ \in gone THEN None ELSE @,
            !.timeouts = IF {p.anchor, p.focus} \cap gone = {} THEN @ ELSE @ \cup {"selectionchange"}]

PutBefore(p, n, ref) ==
  LET at == IF ref = None THEN Len(p.dom) + 1 ELSE Position(p, ref)
  IN  [p EXCEPT !.dom = SubSeq(@, 1, at - 1) \o <<n>> \o SubSeq(@, at, Len(@))]
InsertBefore(p, n, ref) == PutBefore(TakeOut(p, {n}), n, IF ref = n THEN NextSibling(p, n) ELSE ref)

Between(p) == SubSeq(p.dom, Position(p, TopFold) + 1, Position(p, BottomFold) - 1)
Nodes(seq) == {seq[i] : i \in DOMAIN seq}

-----------------------------------------------------------------------------
(* Scrolling.  The browser keeps scrollTop in range and tells of a change. *)
BrowserMax(p) == Greater(0, p.area - p.window)
SetScrollTop(p, top) ==
  LET kept == Greater(0, Lesser(top, BrowserMax(p))) IN
  IF kept = p.scrollTop THEN p ELSE [p EXCEPT !.scrollTop = kept, !.timeouts = @ \cup {"scroll"}]

SyncScrollHeight(p) ==
  SetScrollTop([p EXCEPT !.lastRowCount_ = RowCount(p), !.area = RowCount(p)], p.scrollTop)

ScheduleRedraw(p) == [p EXCEPT !.timeouts = @ \cup {"redraw"}]
GetBottomRowIndex(p) == p.scrollTop + p.visibleRowCount - 1

ScrollTo(p, row) ==
  LET top == Lesser(row, p.area - p.window)
  IN  IF p.scrollTop = top THEN p ELSE ScheduleRedraw(SetScrollTop(p, top))
ScrollRowToTop(p, index) ==
  LET row == Greater(0, index)
  IN  ScrollTo([SyncScrollHeight(p) EXCEPT !.isScrolledEnd = row + p.visibleRowCount >= RowCount(p)], row)

ScrollRowToBottom(p, index) == ScrollRowToTop(p, index - p.visibleRowCount)
ScrollEnd(p) == ScrollRowToBottom(p, RowCount(p))

(* syncRowNodesDimensions_. *)
SyncRowNodesDimensions(p) == [p EXCEPT !.lastScreenHeight_ = p.window, !.visibleRowCount = p.window]

(* resize: its subscriber, the terminal, and then the redraw come later. *)
Resize(p) == [SyncRowNodesDimensions(SyncScrollHeight(p)) EXCEPT !.timeouts = @ \cup {"resize"}]

-----------------------------------------------------------------------------
(* Selection.sync: from the browser's selection, whose ends are in rows,   *)
(* in a fold, or None when they are somewhere else.  The adjustment during *)
(* auto scroll looks at a property the ScrollPort does not have.           *)
Sync(p) ==
  LET focusRow == IF p.focus = TopFold THEN NextSibling(p, TopFold)
                  ELSE IF p.focus = BottomFold THEN p.dom[Position(p, BottomFold) - 1] ELSE p.focus
  IN  IF p.anchor < 1 THEN [p EXCEPT !.startRow = None, !.endRow = None, !.isMultiline = FALSE, !.isCollapsed = TRUE]
      ELSE IF focusRow < 1 THEN [p EXCEPT !.isCollapsed = p.caret]
      ELSE LET forward == p.rowIndex[p.anchor] <= p.rowIndex[focusRow]
           IN  [p EXCEPT !.isCollapsed = p.caret,
                         !.startRow = IF forward THEN p.anchor ELSE focusRow,
                         !.endRow = IF forward THEN focusRow ELSE p.anchor,
                         !.isMultiline = p.rowIndex[p.anchor] # p.rowIndex[focusRow]]

ResetSelectBags(p) == TakeOut(p, {TopBag, BottomBag})

-----------------------------------------------------------------------------
(* Drawing.  What throws leaves the rest undone. *)
Throw(p) == [p EXCEPT !.thrown = TRUE]

(* fetchRowNode_: the node, and the port with the node in its cache. *)
Fetch(p, i) == IF i \in DOMAIN p.previousRowNodeCache_ THEN p.previousRowNodeCache_[i] ELSE GetRowNode(p, i)
Cached(p, n) ==
  IF ~p.drawing THEN p
  ELSE [p EXCEPT !.currentRowNodeCache_ =
          [i \in DOMAIN @ \cup {p.rowIndex[n]} |-> IF i = p.rowIndex[n] THEN n ELSE @[i]]]

(* A fold next to the row of the selection that is nearest to it, the rows *)
(* between the selection's ends taken out if both are on the fold's other  *)
(* side, and what is outside the selection.                                *)
SelectionInDocument(p) == {p.startRow, p.endRow} \subseteq Nodes(p.dom)
Trim(p, both) ==
  IF both THEN TakeOut(p, {p.dom[i] : i \in Position(p, p.startRow)+1..Position(p, p.endRow)-1}) ELSE p
TakeAllBefore(p, n) == TakeOut(p, {p.dom[i] : i \in 1..Position(p, n)-1})
TakeAllAfter(p, n) == TakeOut(p, {p.dom[i] : i \in Position(p, n)+1..Len(p.dom)})
TopFoldAfter(p, n) ==
  IF NextSibling(p, n) = TopFold THEN p ELSE InsertBefore(p, TopFold, NextSibling(p, n))
BottomFoldBefore(p, n) == IF NextSibling(p, BottomFold) = n THEN p ELSE InsertBefore(p, BottomFold, n)

DrawTopFold(p) ==
  LET above(n) == n # None /\ p.rowIndex[n] < p.scrollTop
      both == p.isMultiline /\ above(p.endRow)
  IN  IF ~above(p.startRow) THEN IF Head(p.dom) = TopFold THEN p ELSE InsertBefore(p, TopFold, Head(p.dom))
      ELSE IF ~SelectionInDocument(p) THEN Throw(p)
      ELSE TakeAllBefore(Trim(TopFoldAfter(p, IF both THEN p.endRow ELSE p.startRow), both), p.startRow)

DrawBottomFold(p) ==
  LET below(n) == n # None /\ p.rowIndex[n] > GetBottomRowIndex(p)
      both == p.isMultiline /\ below(p.startRow)
  IN  IF p.thrown THEN p
      ELSE IF ~below(p.endRow) THEN IF Last(p.dom) = BottomFold THEN p ELSE InsertBefore(p, BottomFold, None)
      ELSE IF ~SelectionInDocument(p) THEN Throw(p)
      ELSE TakeAllAfter(Trim(BottomFoldBefore(p, IF both THEN p.startRow ELSE p.endRow), both), p.endRow)

(* removeUntilNode, which throws when the target is not before the fold. *)
RemoveUntil(p, node, target) ==
  IF ~InDocument(p, target) \/ Position(p, target) < Position(p, node) \/
     (target # BottomFold /\ Position(p, target) > Position(p, BottomFold))
  THEN Throw(p)
  ELSE TakeOut(p, {p.dom[i] : i \in Position(p, node)..Position(p, target)-1})

(* One turn of drawVisibleRows_'s loop: the port d.port, the node come to, *)
(* and the number of the row wanted there.                                 *)
Went(p, n, index) == [port |-> p, node |-> IF p.thrown THEN n ELSE NextSibling(p, n), index |-> index + 1]
Stayed(p, node, index) == [port |-> p, node |-> node, index |-> index + 1]

DrawRow(d) ==
  LET p == d.port
      node == d.node
      is(n) == n # None /\ p.rowIndex[n] = d.index
      wanted == Fetch(p, d.index)
  IN  IF p.thrown THEN d
      ELSE IF node # BottomFold /\ is(node) THEN Went(p, node, d.index)
      ELSE IF node # BottomFold /\ (is(p.startRow) \/ is(p.endRow))
      THEN LET target == IF is(p.startRow) THEN p.startRow ELSE p.endRow
           IN  Went(RemoveUntil(p, node, target), target, d.index)
      ELSE IF wanted = NoRow THEN [d EXCEPT !.port = IF p.drawing THEN Throw(p) ELSE p]
      ELSE IF node \in {BottomFold, p.startRow, p.endRow}
      THEN Stayed(InsertBefore(Cached(p, wanted), wanted, node), node, d.index)
      ELSE IF node = wanted THEN Went(Cached(p, wanted), node, d.index)
      ELSE Went(TakeOut(InsertBefore(Cached(p, wanted), wanted, node), {node}), wanted, d.index)

RemoveRest(d) ==
  IF d.port.thrown \/ d.node = BottomFold THEN d.port ELSE RemoveUntil(d.port, d.node, BottomFold)

DrawVisibleRows(p) ==
  IF p.thrown THEN p
  ELSE RemoveRest(FoldLeft(LAMBDA d, i : DrawRow(d),
                           [port |-> p, node |-> NextSibling(p, TopFold), index |-> p.scrollTop],
                           [i \in 1..Lesser(p.visibleRowCount, RowCount(p)) |-> i]))

(* redraw_. *)
Redrawn(p) ==
  IF p.thrown THEN p
  ELSE [SyncRowNodesDimensions(p) EXCEPT
          !.previousRowNodeCache_ = p.currentRowNodeCache_, !.currentRowNodeCache_ = <<>>, !.drawing = FALSE,
          !.isScrolledEnd = p.scrollTop + p.window >= p.lastRowCount_]
Redraw(p) ==
  Redrawn(DrawVisibleRows(DrawBottomFold(DrawTopFold(
    [SyncScrollHeight(Sync(ResetSelectBags(p))) EXCEPT !.currentRowNodeCache_ = <<>>, !.drawing = TRUE]))))

Invalidate(p) ==
  DrawVisibleRows([TakeOut(p, Nodes(Between(p))) EXCEPT !.previousRowNodeCache_ = <<>>])

-----------------------------------------------------------------------------
(* What the host does to the rows.  newLine at the end of the screen. *)
AppendRow(p) ==
  LET made == NewRow(p, RowCount(p))
  IN  [made EXCEPT !.rows = Append(Tail(@), Made(made)), !.scrollback = Append(@, Head(p.rows)),
                   !.timeouts = IF p.isScrolledEnd THEN @ \cup {"scrollDown"} ELSE @]

(* newLine at the end of a scroll region that begins with the screen:      *)
(* insertRow_ above what is below the region.                              *)
InsertRow(p, at) ==
  LET made == NewRow(p, 0)
      rows == SubSeq(Tail(p.rows), 1, at) \o <<Made(made)>> \o SubSeq(Tail(p.rows), at + 1, Len(p.rows) - 1)
  IN  Renumber([made EXCEPT !.rows = rows, !.scrollback = Append(@, Head(p.rows)),
                            !.timeouts = IF p.isScrolledEnd THEN @ \cup {"scrollDown"} ELSE @], rows)

(* moveRows_ of one row: a scroll region that scrolls, lines inserted. *)
MoveRow(p, from, to) ==
  LET rest == SubSeq(p.rows, 1, from) \o SubSeq(p.rows, from + 2, Len(p.rows))
      rows == SubSeq(rest, 1, to) \o <<p.rows[from + 1]>> \o SubSeq(rest, to + 1, Len(rest))
  IN  Renumber([p EXCEPT !.rows = rows, !.timeouts = @ \cup {"invalidate"}], rows)

(* clearScrollback. *)
ClearScrollback(p) ==
  LET emptied == [ScrollEnd(p) EXCEPT !.scrollback = <<>>, !.previousRowNodeCache_ = <<>>, !.drawing = FALSE,
                                      !.currentRowNodeCache_ = <<>>]
  IN  Invalidate(Renumber(Renumber(emptied, p.rows), p.otherRows))

(* realizeHeight_.  Of the rows a smaller screen has too many, popped are  *)
(* blank ones below the cursor.                                            *)
RealizeHeight(p, height, popped) ==
  LET delta == height - Len(p.rows)
      kept == SubSeq(p.rows, 1, Len(p.rows) - popped)
      blank == [i \in 1..delta |-> Made(p) + i]
      n == Len(p.scrollback)
  IN  IF delta < 0
      THEN [p EXCEPT !.rows = SubSeq(kept, Len(kept) - height + 1, Len(kept)),
                     !.scrollback = @ \o SubSeq(kept, 1, Len(kept) - height)]
      ELSE IF delta = 0 THEN p
      ELSE IF delta <= n
      THEN [p EXCEPT !.rows = SubSeq(p.scrollback, n - delta + 1, n) \o @, !.scrollback = SubSeq(@, 1, n - delta)]
      ELSE [p EXCEPT !.rows = @ \o blank, !.rowIndex = @ \o [i \in 1..delta |-> RowCount(p) + i - 1]]

(* setAlternateMode. *)
SetAlternateMode(p, popped) ==
  LET swapped == [p EXCEPT !.rows = p.otherRows, !.otherRows = p.rows]
      numbered == IF p.otherRows = <<>> THEN swapped ELSE Renumber(swapped, p.otherRows)
  IN  Invalidate(SyncScrollHeight(RealizeHeight(numbered, p.height, popped)))

-----------------------------------------------------------------------------
Host == s.ops < MaxOps /\ ~s.thrown
(* astray: the document or the cache has a row that is not the terminal's  *)
(* any more, or not at the place it is kept for, where a row of the        *)
(* terminal is wanted; or the terminal has changed its rows without a word *)
(* to the scroll port.                                                     *)
Confused(p) ==
  \/ \E n \in Nodes(p.dom) \cup {p.startRow, p.endRow} :
       n > 0 /\ n \notin Nodes(AllRows(p)) /\ p.rowIndex[n] < RowCount(p)
  \/ \E i \in DOMAIN p.previousRowNodeCache_ : i < RowCount(p) /\ p.previousRowNodeCache_[i] # GetRowNode(p, i)
Becomes(p) == s' = [p EXCEPT !.astray = @ \/ Confused(p)]
Step(p) == Becomes([p EXCEPT !.ops = @ + 1])
Said(p, said) == [p EXCEPT !.astray = @ \/ ~said]
Room(n) == Made(s) + n <= MaxRows
Popped(p, rows, height) == 0..Greater(0, Lesser(height - 1, Len(rows) - height))

NewLine == Host /\ Room(1) /\ Step(AppendRow(s))
NewLineInRegion == Host /\ Room(1) /\ \E at \in 0..Len(s.rows)-2 : 
       Step(Said(InsertRow(s, at), s.isScrolledEnd))
ScrollRegion == Host /\ \E from, to \in 0..Len(s.rows)-1 : from # to /\ Step(MoveRow(s, from, to))
Clear == Host /\ (LET p == ClearScrollback(s) IN Step(Said(p, "redraw" \in p.timeouts)))
SwitchScreen ==
  /\ Host /\ (Len(s.otherRows) < s.height => Room(s.height - Len(s.otherRows)))
  /\ \E popped \in Popped(s, s.otherRows, s.height) :
       LET p == SetAlternateMode(s, popped) IN Step(IF p.thrown THEN p ELSE Resize(p))

(* What the user does.  The browser resizes the window and tells later. *)
ResizeWindow ==
  /\ Host
  /\ \E h \in Heights \ {s.window} :
       LET p == [s EXCEPT !.window = h, !.timeouts = @ \cup {"window"}] IN Step(SetScrollTop(p, p.scrollTop))

Scroll == Host /\ \E top \in 0..BrowserMax(s) : top # s.scrollTop /\ Step(SetScrollTop(s, top))
ScrollPageUp == Host /\ s.scrollTop # 0 /\ Step(ScrollRowToTop(s, s.scrollTop - s.visibleRowCount + 1))
ScrollPageDown == Host /\ ~s.isScrolledEnd /\ Step(ScrollRowToTop(s, s.scrollTop + s.visibleRowCount - 1))
Keystroke == Host /\ Step(ScrollEnd(s))

(* A selection by the mouse, from one visible row to another or past them. *)
Select ==
  /\ Host
  /\ \E a \in Nodes(Between(s)), f \in Nodes(Between(s)) \cup {TopFold, BottomFold}, caret \in BOOLEAN :
       /\ caret => a = f
       /\ Step([s EXCEPT !.anchor = a, !.focus = f, !.caret = caret, !.timeouts = @ \cup {"selectionchange"}])

SelectAll ==
  /\ Host
  /\ LET all == AllRows(s)
         above == TakeOut(s, {s.dom[i] : i \in 1..Position(s, TopFold)-1})
         atTop == NextSibling(s, TopFold) # BottomFold /\ s.rowIndex[NextSibling(s, TopFold)] = 0
         begun == IF atTop THEN s ELSE InsertBefore(above, all[1], TopFold)
         below == TakeOut(begun, {begun.dom[i] : i \in Position(begun, BottomFold)+1..Len(begun.dom)})
         lowest == begun.dom[Position(begun, BottomFold) - 1]
         atEnd == lowest # TopFold /\ begun.rowIndex[lowest] = RowCount(s) - 1
         ended == IF atEnd THEN begun ELSE InsertBefore(below, all[Len(all)], None)
     IN  Step(Sync([ended EXCEPT !.anchor = IF atTop THEN NextSibling(s, TopFold) ELSE all[1],
                                 !.focus = IF atEnd THEN lowest ELSE all[Len(all)],
                                 !.caret = FALSE, !.timeouts = @ \cup {"selectionchange"}]))

(* onCopy_: puts the text of the rows that are selected but not in the     *)
(* document, those of a range, into bags next to the selection's ends.     *)
Copy ==
  /\ Host
  /\ LET p == Sync(ResetSelectBags(s))
         top == p.scrollTop
         bottom == GetBottomRowIndex(p)
         start == p.rowIndex[p.startRow]
         end == p.rowIndex[p.endRow]
         first == NextSibling(p, TopFold)
         last == p.dom[Position(p, BottomFold) - 1]
         upper == IF start >= top THEN p
                  ELSE [InsertBefore(p, TopBag, NextSibling(p, p.startRow)) EXCEPT
                          !.topBag = start+1..(IF end < top THEN end ELSE p.rowIndex[first])-1]
         lower == IF end <= bottom THEN upper
                  ELSE [InsertBefore(upper, BottomBag, p.endRow) EXCEPT
                          !.bottomBag = (IF start > bottom THEN start ELSE p.rowIndex[last])+1..end-1]
     IN  /\ p.startRow # None /\ ~p.isCollapsed
         /\ Step(IF end - start < 2 THEN p ELSE lower)

(* The terminal moves the caret of a selection of nothing to its cursor,   *)
(* in whatever row of the screen that is.                                  *)
SyncCursorPosition ==
  /\ Host /\ (s.caret \/ s.anchor = None)
  /\ \E n \in Nodes(s.rows) \cap Nodes(s.dom) :
       /\ n # s.anchor /\ s.rowIndex[n] <= GetBottomRowIndex(s)
       /\ Step([s EXCEPT !.anchor = n, !.focus = n, !.caret = TRUE, !.timeouts = @ \cup {"selectionchange"}])

-----------------------------------------------------------------------------
(* What was to come later comes, in any order. *)
Later(what) == ~s.thrown /\ what \in s.timeouts
Without(what) == [s EXCEPT !.timeouts = @ \ {what}]

OnRedraw == Later("redraw") /\ Becomes(Redraw(Without("redraw")))
OnInvalidate == Later("invalidate") /\ Becomes(Invalidate(Without("invalidate")))
OnScrollDown == Later("scrollDown") /\ Becomes(ScrollEnd(Without("scrollDown")))
OnSelectionChange == Later("selectionchange") /\ Becomes(Sync(Without("selectionchange")))

OnScroll ==
  /\ Later("scroll")
  /\ Becomes(IF s.window # s.lastScreenHeight_ THEN Resize(Without("scroll")) ELSE Redraw(Without("scroll")))

(* onResize_ of the scroll port, then that of the terminal, then its own. *)
OnWindowResize == Later("window") /\ Becomes(Resize(Without("window")))
OnResize ==
  /\ Later("resize") /\ Room(s.window - Len(s.rows))
  /\ \E popped \in Popped(s, s.rows, s.window) :
       LET p == [RealizeHeight(Without("resize"), s.window, popped) EXCEPT
                   !.height = s.window, !.timeouts = @ \cup {"resized"}]
       IN  Becomes(IF s.isScrolledEnd THEN ScrollEnd(p) ELSE p)
OnResized == Later("resized") /\ Becomes(ScheduleRedraw(Without("resized")))

(* A terminal with a few rows of scrollback, of which none is in view. *)
Init ==
  \E h \in Heights :
    s = [scrollback |-> [i \in 1..Above |-> i], rows |-> [i \in 1..h |-> Above + i], otherRows |-> <<>>,
         rowIndex |-> [n \in 1..Above+h |-> n - 1], height |-> h,
         dom |-> <<TopFold>> \o [i \in 1..h |-> Above + i] \o <<BottomFold>>,
         window |-> h, area |-> Above + h, scrollTop |-> Above, lastRowCount_ |-> Above + h, lastScreenHeight_ |-> h,
         visibleRowCount |-> h, isScrolledEnd |-> TRUE,
         previousRowNodeCache_ |-> <<>>, currentRowNodeCache_ |-> <<>>, drawing |-> FALSE,
         anchor |-> None, focus |-> None, caret |-> TRUE,
         startRow |-> None, endRow |-> None, isMultiline |-> FALSE, isCollapsed |-> TRUE,
         topBag |-> {}, bottomBag |-> {}, timeouts |-> {}, thrown |-> FALSE, astray |-> FALSE, ops |-> 0]

Next ==
  \/ NewLine \/ NewLineInRegion \/ ScrollRegion \/ Clear \/ SwitchScreen
  \/ ResizeWindow \/ Scroll \/ ScrollPageUp \/ ScrollPageDown \/ Keystroke \/ Select \/ SelectAll \/ Copy
  \/ SyncCursorPosition
  \/ OnRedraw \/ OnInvalidate \/ OnScrollDown \/ OnSelectionChange \/ OnScroll \/ OnWindowResize
  \/ OnResize \/ OnResized

Spec == Init /\ [][Next]_s

-----------------------------------------------------------------------------
(* The scroll port has its type. *)
TypeOK ==
  /\ \A n \in Nodes(s.dom) : n \in BottomBag..Made(s)
  /\ IsInjective(s.dom) /\ (s.thrown \/ {TopFold, BottomFold} \subseteq Nodes(s.dom))
  /\ s.scrollTop \in Nat /\ s.visibleRowCount \in Heights
  /\ {s.startRow, s.endRow} \subseteq 1..Made(s) \cup {None} /\ (s.startRow = None <=> s.endRow = None)

Expected(p) ==
  [i \in 1..Lesser(p.visibleRowCount, RowCount(p) - p.scrollTop) |-> GetRowNode(p, p.scrollTop + i - 1)]

(* When nothing is to come, the rows between the folds are those that      *)
(* scrollTop says, in order, and isScrolledEnd, which says whether output  *)
(* scrolls, is right, whatever order scrolling, resizing, output, screen   *)
(* switches and selecting came in: redraw_ reuses the nodes that are there.*)
DrawnWhenQuiet ==
  s.timeouts = {} /\ ~s.thrown =>
    /\ s.isScrolledEnd = (s.scrollTop + s.visibleRowCount >= RowCount(s))
    /\ ~s.astray => Between(s) = Expected(s)

DocumentOrdered(p) ==
  \A i, j \in DOMAIN p.dom :
    i < j /\ p.dom[i] > 0 /\ p.dom[j] > 0 => p.rowIndex[p.dom[i]] < p.rowIndex[p.dom[j]]
HasRange(p) == p.anchor > 0 /\ p.focus > 0

(* Drawing takes neither end of the browser's selection out of the         *)
(* document, wherever the rows it is in scroll to: a browser forgets the   *)
(* selection of a node that is moved.                                      *)
RedrawKeepsSelection ==
  (OnRedraw \/ OnScroll) /\ ~s.astray /\ ~s'.thrown /\ HasRange(s) /\ DocumentOrdered(s) =>
    s'.anchor = s.anchor /\ s'.focus = s.focus

(* The rows whose text is copied: those from the start to the end of the   *)
(* selection in the document, and what the bags among them have.           *)
Copied(p) ==
  FoldLeft(\o, <<>>, [k \in 1..Position(p, p.endRow)-Position(p, p.startRow)+1 |->
    LET n == p.dom[Position(p, p.startRow) + k - 1]
    IN  IF n = TopBag THEN InOrderOf(p.topBag) ELSE IF n = BottomBag THEN InOrderOf(p.bottomBag)
        ELSE IF n > 0 THEN <<p.rowIndex[n]>> ELSE <<>>])

(* Copying a range copies each of its rows once, in order, with those that *)
(* are not in the document put in from the terminal.                       *)
CopiesAll ==
  Copy /\ s.timeouts = {} /\ ~s.astray /\ HasRange(s) =>
    Copied(s') = [i \in 1..s'.rowIndex[s'.endRow]-s'.rowIndex[s'.startRow]+1 |-> s'.rowIndex[s'.startRow] + i - 1]

=============================================================================

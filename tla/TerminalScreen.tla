--------------------------- MODULE TerminalScreen ----------------------------
(***************************************************************************)
(* The cursor, the rows and the scroll region of hterm's terminal, its two *)
(* screens and the scrollback they share (hterm_terminal.js,               *)
(* hterm_screen.js, with the control sequences of hterm_vt.js that drive   *)
(* them).  All of it is sequential: an operation takes the terminal t to   *)
(* the terminal it leaves.  Of a row there is its number (rowIndex) and    *)
(* whether it has text, in the default colours; characters are one column  *)
(* wide, rows and columns counted from 0.                                  *)
(***************************************************************************)
EXTENDS Integers, Sequences

CONSTANTS
  Widths, Heights,  \* sizes the window takes
  Counts,           \* parameters of control sequences
  MaxOps            \* bound: operations in a behaviour

ScreenAssumption ==
  /\ Widths \subseteq Nat \ {0} /\ Heights \subseteq Nat \ {0} /\ Counts \subseteq Nat \ {0}
  /\ MaxOps \in Nat

VARIABLES
  t,    \* the terminal
  ops   \* operations so far

Null == -1
Screens == {"primary", "alternate"}
Lesser(a, b) == IF a < b THEN a ELSE b
Clamp(x, lo, hi) == IF x < lo THEN lo ELSE IF x > hi THEN hi ELSE x

Rows(s) == s.rowsArray[s.screen_]
Cursor(s) == s.cursor[s.screen_]
Above(s) == Len(s.scrollbackRows_)
Top(s) == IF s.vtScrollTop_ = Null THEN 0 ELSE s.vtScrollTop_
Bottom(s) == IF s.vtScrollBottom_ = Null THEN s.height - 1 ELSE s.vtScrollBottom_

-----------------------------------------------------------------------------
(* The cursor.  Screen.setCursorPosition, which warns of what it clamps;   *)
(* an empty screen has no cursor to move.                                  *)
ScreenSetCursor(s, screen, row, column) ==
  IF s.rowsArray[screen] = <<>> THEN s
  ELSE [s EXCEPT !.cursor[screen] =
         [row |-> Clamp(row, 0, Len(s.rowsArray[screen]) - 1),
          column |-> Clamp(column, 0, s.columnCount_[screen] - 1), overflow |-> FALSE]]

(* setAbsoluteCursorPosition. *)
SetAbsolute(s, row, column) ==
  ScreenSetCursor(s, s.screen_, Clamp(row, 0, s.height - 1), Clamp(column, 0, s.width - 1))

(* setCursorPosition: relative to the scroll region in origin mode. *)
SetCursor(s, row, column) ==
  IF s.originMode
  THEN ScreenSetCursor(s, s.screen_, Clamp(row + Top(s), Top(s), Bottom(s)), Clamp(column, 0, s.width - 1))
  ELSE SetAbsolute(s, row, column)

SetOverflow(s, overflow) == [s EXCEPT !.cursor[s.screen_].overflow = overflow]

(* restoreCursor: of a cursor saved when the screen may have been wider.   *)
RestoreCursor(s, saved) ==
  LET moved == SetAbsolute(s, saved.row, saved.column)
      column == Clamp(saved.column, 0, s.width - 1)
  IN  IF saved.column > column \/ (saved.column = column /\ saved.overflow)
      THEN SetOverflow(moved, TRUE) ELSE moved

CursorDown(s, n) ==
  SetAbsolute(s, Clamp(Cursor(s).row + n, IF s.originMode THEN Top(s) ELSE 0,
                       IF s.originMode THEN Bottom(s) ELSE s.height - 1), Cursor(s).column)

CursorRight(s, n) == SetAbsolute(s, Cursor(s).row, Clamp(Cursor(s).column + n, 0, s.width - 1))

(* With reverse wraparound, over the rows; % is JavaScript's, of a number  *)
(* that is not positive.                                                   *)
CursorLeft(s, n) ==
  LET column == Cursor(s).column - n
      rows == Cursor(s).row - n \div s.width - 1
  IN  IF s.reverseWraparound
      THEN IF column >= 0 THEN SetCursor(s, Cursor(s).row, column)
           ELSE SetCursor(s, IF rows < 0 THEN s.height - ((-rows) % s.height) ELSE rows,
                          s.width - ((-column) % s.width))
      ELSE SetAbsolute(s, Cursor(s).row, column)

(* cursorLeft: one count takes the cursor out of the right margin. *)
CursorLeftFrom(s, n) ==
  IF ~(s.reverseWraparound /\ Cursor(s).overflow) THEN CursorLeft(s, n)
  ELSE IF n = 1 THEN SetOverflow(s, FALSE) ELSE CursorLeft(SetOverflow(s, FALSE), n - 1)

-----------------------------------------------------------------------------
(* Rows. *)
WithRows(s, rows) == [s EXCEPT !.rowsArray[s.screen_] = rows]
Blank(n) == [n |-> n, text |-> FALSE]

(* renumberRows_. *)
Renumber(s, screen, from, to) ==
  [s EXCEPT !.rowsArray[screen] =
     [i \in DOMAIN s.rowsArray[screen] |->
        IF i - 1 \in from..to-1 THEN [s.rowsArray[screen][i] EXCEPT !.n = Above(s) + i - 1]
        ELSE s.rowsArray[screen][i]]]

SetText(s, from, to, text) ==
  WithRows(s, [i \in DOMAIN Rows(s) |-> IF i - 1 \in from..to THEN [Rows(s)[i] EXCEPT !.text = text] ELSE Rows(s)[i]])

(* appendRows_: what the screen has too many goes into the scrollback. *)
AppendRows(s, count) ==
  LET all == Rows(s) \o [i \in 1..count |-> Blank(Above(s) + Len(Rows(s)) + i - 1)]
      extra == IF Len(all) > s.height THEN Len(all) - s.height ELSE 0
      rows == SubSeq(all, extra + 1, Len(all))
  IN  SetAbsolute([WithRows(s, rows) EXCEPT !.scrollbackRows_ = @ \o SubSeq(all, 1, extra)],
                  Lesser(Len(Rows(s)), Len(rows) - 1), 0)

(* insertRow_: the screen's first row goes into the scrollback. *)
InsertRow(s) ==
  LET at == Cursor(s).row
      rest == Tail(Rows(s))
      rows == SubSeq(rest, 1, at) \o <<Blank(0)>> \o SubSeq(rest, at + 1, Len(rest))
      inserted == [WithRows(s, rows) EXCEPT !.scrollbackRows_ = Append(@, Head(Rows(s)))]
  IN  SetAbsolute(Renumber(inserted, s.screen_, at, Len(rows)), at, 0)

MoveRows(s, from, count, to) ==
  LET moved == SubSeq(Rows(s), from + 1, from + count)
      rest == SubSeq(Rows(s), 1, from) \o SubSeq(Rows(s), from + count + 1, Len(Rows(s)))
      rows == SubSeq(rest, 1, to) \o moved \o SubSeq(rest, to + 1, Len(rest))
  IN  Renumber(WithRows(s, rows), s.screen_, Lesser(from, to), (IF from < to THEN to ELSE from) + count)

(* insertLines: below the scroll region count is negative, and the row of  *)
(* the cursor is moved up to the bottom of the region.                     *)
InsertLines(s, n) ==
  LET at == Cursor(s).row
      count == Lesser(n, Bottom(s) - at)
      moved == MoveRows(s, at, Bottom(s) - at - count + 1, at + count)
  IN  IF count > 0 THEN SetAbsolute(SetText(moved, at, at + count - 1, FALSE), at, 0) ELSE moved

(* Mutation of DeleteLines: the screen's last row in place of the region's. *)
DeleteLinesToEnd(s, n) ==
  LET at == Cursor(s).row
      count == Lesser(n, s.height - at)
      moved == IF count # s.height - at THEN MoveRows(s, at, count, s.height - count) ELSE s
  IN  SetOverflow(RestoreCursor(SetText(moved, s.height - count, s.height - 1, FALSE), Cursor(s)), FALSE)

(* deleteLines: below the region it does nothing. *)
DeleteLines(s, n) ==
  LET at == Cursor(s).row
      most == Bottom(s) - at + 1
      count == Lesser(n, most)
      moved == IF count # most THEN MoveRows(s, at, count, Bottom(s) - count + 1) ELSE s
      blank == IF count > 0 THEN SetText(moved, Bottom(s) - count + 1, Bottom(s), FALSE) ELSE moved
  IN  SetOverflow(RestoreCursor(blank, Cursor(s)), FALSE)

VtScrollUp(s, n) ==
  RestoreCursor(DeleteLines(SetAbsolute(s, Top(s), Cursor(s).column), n), Cursor(s))

VtScrollDown(s, n) == RestoreCursor(InsertLines(SetAbsolute(s, Top(s), 0), n), Cursor(s))

(* newLine. *)
NewLine(s) ==
  LET row == Cursor(s).row
      atEnd == row = Len(Rows(s)) - 1
      atRegionEnd == row = Bottom(s)
  IN  IF s.vtScrollTop_ # Null /\ atRegionEnd
      THEN LET up == VtScrollUp(s, 1) IN SetAbsolute(up, Cursor(up).row, 0)
      ELSE IF atEnd THEN AppendRows(s, 1)
      ELSE IF atRegionEnd THEN InsertRow(s)
      ELSE SetAbsolute(s, row + 1, 0)

LineFeed(s) == LET new == NewLine(s) IN SetAbsolute(new, Cursor(new).row, Cursor(s).column)

ReverseLineFeed(s) ==
  IF Cursor(s).row = Top(s) THEN InsertLines(s, 1) ELSE SetAbsolute(s, Cursor(s).row - 1, Cursor(s).column)

(* One round of print's loop for n columns of text: the terminal it leaves *)
(* and what is left to print.                                              *)
PrintRound(s, n) ==
  LET on == IF s.wraparound /\ Cursor(s).overflow THEN NewLine(s) ELSE s
      room == on.width - Cursor(on).column
      marked == SetText(on, Cursor(on).row, Cursor(on).row, TRUE)
  IN  IF n >= room
      THEN [t |-> SetOverflow(SetAbsolute(marked, Cursor(on).row, on.width - 1), TRUE),
            left |-> IF on.wraparound THEN n - room ELSE 0]
      ELSE [t |-> [marked EXCEPT !.cursor[s.screen_].column = @ + n], left |-> 0]

PrintText(s, n) ==
  LET printed[k \in 0..n] ==
        IF k = 0 THEN [t |-> s, left |-> n]
        ELSE IF printed[k - 1].left = 0 THEN printed[k - 1]
        ELSE PrintRound(printed[k - 1].t, printed[k - 1].left)
  IN  printed[n].t

(* The erasures of one row: part of it, all of it, or nothing in the       *)
(* right margin; eraseToLeft writes spaces.  Then clear and clearHome.     *)
EraseToRight(s, all) ==
  IF Cursor(s).overflow THEN s
  ELSE IF all THEN SetText(s, Cursor(s).row, Cursor(s).row, FALSE) ELSE s
EraseLine(s) == SetOverflow(SetText(s, Cursor(s).row, Cursor(s).row, FALSE), FALSE)
EraseToLeft(s) == SetText(s, Cursor(s).row, Cursor(s).row, TRUE)
EraseAbove(s) == SetOverflow(SetText(EraseToLeft(s), 0, Cursor(s).row - 1, FALSE), FALSE)
EraseBelow(s, all) == SetOverflow(SetText(EraseToRight(s, all), Cursor(s).row + 1, s.height - 1, FALSE), FALSE)

ClearHome(s, screen) ==
  ScreenSetCursor([s EXCEPT !.rowsArray[screen] = [i \in DOMAIN @ |-> [@[i] EXCEPT !.text = FALSE]]], screen, 0, 0)

Clear(s) == ScreenSetCursor(ClearHome(s, s.screen_), s.screen_, Cursor(s).row, Cursor(s).column)

-----------------------------------------------------------------------------
(* Sizes, screens and resets. *)
SetVTScrollRegion(s, top, bottom) ==
  [s EXCEPT !.vtScrollTop_ = IF bottom = s.height - 1 /\ top = 0 THEN Null ELSE top,
            !.vtScrollBottom_ = IF bottom = s.height - 1 THEN Null ELSE bottom]

(* realizeWidth_: of the current screen only. *)
RealizeWidth(s, columns) ==
  LET u == [s EXCEPT !.width = columns, !.columnCount_[s.screen_] = columns]
  IN  IF columns = s.columnCount_[s.screen_] THEN s
      ELSE IF Cursor(s).column >= columns THEN ScreenSetCursor(u, s.screen_, Cursor(s).row, columns - 1)
      ELSE u

(* Rows without text are popped below the cursor, up to n of them. *)
Poppable(s, n) ==
  CHOOSE k \in 0..n :
    /\ \A i \in 1..k : Len(Rows(s)) - i # Cursor(s).row /\ ~Rows(s)[Len(Rows(s)) - i + 1].text
    /\ k = n \/ Len(Rows(s)) - k - 1 = Cursor(s).row \/ Rows(s)[Len(Rows(s)) - k].text

(* n rows fewer: the rest of them leave at the top. *)
Shrink(s, n) ==
  LET k == Poppable(s, n)
  IN  RestoreCursor(
        [WithRows(s, SubSeq(Rows(s), n - k + 1, Len(Rows(s)) - k)) EXCEPT
           !.scrollbackRows_ = @ \o SubSeq(Rows(s), 1, n - k)],
        [Cursor(s) EXCEPT !.row = Clamp(@ - (n - k), 0, @)])

(* n rows more: from the scrollback if it has as many, whichever screen    *)
(* this is.                                                                *)
Grow(s, n) ==
  LET left == Above(s) - n
  IN  RestoreCursor(
        IF left >= 0
        THEN [WithRows(s, SubSeq(s.scrollbackRows_, left + 1, Above(s)) \o Rows(s)) EXCEPT
                !.scrollbackRows_ = SubSeq(@, 1, left)]
        ELSE AppendRows(s, n),
        IF left >= 0 THEN [Cursor(s) EXCEPT !.row = @ + n] ELSE Cursor(s))

RealizeHeight(s, rows) ==
  LET u == SetVTScrollRegion([s EXCEPT !.height = rows], Null, Null)
      delta == rows - Len(Rows(s))
  IN  IF delta = 0 THEN s ELSE IF delta < 0 THEN Shrink(u, -delta) ELSE Grow(u, delta)

RealizeSize(s, columns, rows) ==
  LET u == IF columns # s.width THEN RealizeWidth(s, columns) ELSE s
  IN  IF rows # u.height THEN RealizeHeight(u, rows) ELSE u

(* setAlternateMode: the screen that comes is given the size and the       *)
(* numbers it has missed.                                                  *)
SetAlternateMode(s, state) ==
  LET u == [s EXCEPT !.screen_ = IF state THEN "alternate" ELSE "primary"]
      numbered == IF Rows(u) # <<>> /\ Rows(u)[1].n # Above(u)
                  THEN Renumber(u, u.screen_, 0, Len(Rows(u))) ELSE u
  IN  IF state = (s.screen_ = "alternate") THEN s
      ELSE RestoreCursor(RealizeHeight(RealizeWidth(numbered, s.width), s.height), Cursor(s))

Save(s) == [s EXCEPT !.saved[s.screen_] = Cursor(s)]
Restore(s) == RestoreCursor(s, s.saved[s.screen_])

ClearScrollback(s) ==
  LET u == [s EXCEPT !.scrollbackRows_ = <<>>]
  IN  Renumber(Renumber(u, "primary", 0, Len(u.rowsArray["primary"])),
               "alternate", 0, Len(u.rowsArray["alternate"]))

WipeContents(s) == ClearScrollback(ClearHome(ClearHome(s, "primary"), "alternate"))

(* softReset saves the cursor for both screens, reset clears them first. *)
SoftReset(s) ==
  SetVTScrollRegion(
    [s EXCEPT !.saved = [screen \in Screens |-> Cursor(s)], !.originMode = FALSE,
              !.wraparound = TRUE, !.reverseWraparound = FALSE], Null, Null)

Reset(s) ==
  LET u == ClearHome(s, "primary")
      v == ClearHome(u, "alternate")
  IN  [SoftReset(v) EXCEPT !.saved = [primary |-> Cursor(u), alternate |-> Cursor(v)]]

Origin == [row |-> 0, column |-> 0, overflow |-> FALSE]

(* The constructor, and the size of the window. *)
Blankest ==
  [width |-> 0, height |-> 0, screen_ |-> "primary", scrollbackRows_ |-> <<>>,
   rowsArray |-> [s \in Screens |-> <<>>], columnCount_ |-> [s \in Screens |-> 0],
   cursor |-> [s \in Screens |-> Origin], saved |-> [s \in Screens |-> Origin],
   vtScrollTop_ |-> Null, vtScrollBottom_ |-> Null,
   originMode |-> FALSE, wraparound |-> TRUE, reverseWraparound |-> FALSE]

Init == ops = 0 /\ \E w \in Widths, h \in Heights : t = RealizeSize(Blankest, w, h)

-----------------------------------------------------------------------------
(* What a program or the user does, a group of sequences to an action.     *)
OnResize == \E w \in Widths, h \in Heights : t' = RealizeSize(t, w, h)

Printing == \E n \in Counts : t' = PrintText(t, n)

LineFeeds == t' \in {NewLine(t), LineFeed(t), ReverseLineFeed(t)}

(* CUU, CUD, CUF, CUB, CNL, CPL, BS, CHA, CUP, VPA, CR. *)
CursorMoves ==
  \E n \in Counts :
    t' \in {CursorDown(t, n), CursorDown(t, -n), CursorRight(t, n), CursorLeftFrom(t, n),
            SetAbsolute(CursorDown(t, n), Cursor(CursorDown(t, n)).row, 0),
            SetAbsolute(t, Cursor(t).row, n - 1), SetAbsolute(t, n - 1, Cursor(t).column),
            SetCursor(t, n - 1, n - 1), SetAbsolute(t, Cursor(t).row, 0)}

(* IL, DL, SU, SD. *)
ScrollRegion(s) == Top(s)..Bottom(s)
Lines ==
  \E n \in Counts :
    t' \in {InsertLines(t, n), DeleteLines(t, n), VtScrollUp(t, n), VtScrollDown(t, n)}

(* EL, ED, ECH, and ICH and DCH, which leave the cursor where it was. *)
Erasures ==
  t' \in {EraseToRight(t, TRUE), EraseToRight(t, FALSE), EraseToLeft(t), EraseLine(t),
          EraseAbove(t), EraseBelow(t, TRUE), EraseBelow(t, FALSE), Clear(t), SetOverflow(t, FALSE)}

(* DECSTBM: "silently ignore bad args". *)
DECSTBM ==
  \E bottom \in 1..t.height :
    \E top \in 0..bottom-1 :
      t' = SetCursor(SetVTScrollRegion(t, IF top = 0 THEN Null ELSE top - 1, bottom - 1), 0, 0)

(* DECOM, DECAWM, reverse wraparound. *)
Modes ==
  \E state \in BOOLEAN :
    t' \in {SetCursor([t EXCEPT !.originMode = state], 0, 0), [t EXCEPT !.wraparound = state],
            [t EXCEPT !.reverseWraparound = state]}

(* 1047, 1048 and 1049 set and reset, DECSC and DECRC. *)
AlternateScreen ==
  t' \in {SetAlternateMode(t, TRUE), SetAlternateMode(t, FALSE), Save(t), Restore(t),
          Clear(SetAlternateMode(Save(t), TRUE)), Restore(SetAlternateMode(t, FALSE))}

(* ED 3, the menu's wipe, RIS and DECSTR. *)
Resets == t' \in {ClearScrollback(t), WipeContents(t), Reset(t), SoftReset(t)}

Next ==
  /\ ops < MaxOps /\ ops' = ops + 1
  /\ \/ OnResize \/ Printing \/ LineFeeds \/ CursorMoves \/ Lines \/ Erasures
     \/ DECSTBM \/ Modes \/ AlternateScreen \/ Resets

Spec == Init /\ [][Next]_<<t, ops>>

-----------------------------------------------------------------------------
RowsType == Seq([n : Nat, text : BOOLEAN])
CursorType == [row : Nat, column : Nat, overflow : BOOLEAN]

(* The terminal has its type. *)
TypeOK ==
  /\ t.width \in Widths /\ t.height \in Heights /\ t.screen_ \in Screens
  /\ t.scrollbackRows_ \in RowsType /\ t.rowsArray \in [Screens -> RowsType]
  /\ t.columnCount_ \in [Screens -> Nat] /\ t.cursor \in [Screens -> CursorType]
  /\ t.saved \in [Screens -> CursorType]
  /\ {t.originMode, t.wraparound, t.reverseWraparound} \subseteq BOOLEAN

(* The screen on show has the rows and columns the window has, its cursor  *)
(* is on it and its scroll region within it, whatever sizes it missed      *)
(* while the other screen was on show and wherever the cursor it is given  *)
(* was saved.                                                              *)
ScreenFits ==
  /\ Len(Rows(t)) = t.height /\ t.columnCount_[t.screen_] = t.width
  /\ Cursor(t).row \in 0..t.height-1 /\ Cursor(t).column \in 0..t.width-1
  /\ 0 <= Top(t) /\ Top(t) <= Bottom(t) /\ Bottom(t) < t.height

(* The rows of the scrollback and of the screen on show are numbered in    *)
(* order, as selections, searches and the scroll port expect, though rows  *)
(* are inserted, moved, taken back and left behind on the other screen.    *)
RowsNumbered ==
  LET all == t.scrollbackRows_ \o Rows(t)
  IN  \A i \in DOMAIN all : all[i].n = i - 1

(* "This respects the current scroll region": with the cursor in it, what  *)
(* inserts, deletes or scrolls lines leaves the rows outside as they are.  *)
KeepsOutsideRegion ==
  Lines /\ Cursor(t).row \in ScrollRegion(t) =>
    /\ t'.scrollbackRows_ = t.scrollbackRows_
    /\ \A i \in DOMAIN Rows(t) : i - 1 \notin ScrollRegion(t) => Rows(t')[i] = Rows(t)[i]

=============================================================================

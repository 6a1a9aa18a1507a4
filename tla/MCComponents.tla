---------------------------- MODULE MCComponents ----------------------------
(***************************************************************************)
(* The components checked for safety only, each on its own in one run:     *)
(* kind says which a behaviour is of, the others stay as they begin.       *)
(*   "table"     the descriptor table of a wassh program                   *)
(*   "buffers"   the stream write buffers                                  *)
(*   "screen"    the screens and the cursor of the terminal                *)
(*   "row"       the text of a row, in its nodes                           *)
(*   "parser"    the parser of control sequences                           *)
(*   "agent"     the ssh-agent with its smart card back end                *)
(*   "tmux"      the tmux integration                                      *)
(*   "scroll"    the terminal's rows in the document                       *)
(*   "keyboard"  the keyboard of the terminal                              *)
(*   "mouse"     the mouse of the terminal                                 *)
(***************************************************************************)
EXTENDS FdTable, Sequences

CONSTANTS
  MaxBytes, MaxWrites, MaxLength,
  Widths, Heights, Counts, MaxOps,
  Width, Styles, TextCounts, MaxEdits,
  Chars, MaxInput, MaxPiece,
  Conns, Readers, Pins, MaxTries, MaxRequests, MaxEvents,
  Windows, MaxOutput, MaxAsks, MaxUses,
  PortHeights, ScrolledOff, MaxRows, MaxScrolls,
  MaxKeyEvents, Buttons, Places, MaxModes

VARIABLES
  kind,
  \* MCBuffers
  buffer, autoack_, readPos_, unreadCount_, written, out, buffer_, queue_, writePos_, readOffset_, ackPos_, ackOffset_,
  \* TerminalScreen
  t, ops,
  \* ScreenText
  nodes, at, style, edits, cells, torn,
  \* VtParser
  v, fed,
  \* SmartCardAgent
  q, agent, cards, cache, io, left, aesKeys,
  \* TmuxControl
  tmux, lines, c, asks, uses,
  \* the state of whichever other component is checked
  m

Buffers == INSTANCE MCBuffers WITH kind <- buffer
Screen == INSTANCE TerminalScreen
Row == INSTANCE ScreenText
Parser == INSTANCE VtParser
Agent == INSTANCE SmartCardAgent WITH made <- aesKeys
Tmux == INSTANCE TmuxControl WITH out <- lines
Scroll == INSTANCE ScrollPort WITH Heights <- PortHeights, Above <- ScrolledOff, MaxOps <- MaxScrolls, s <- m
Keyboard == INSTANCE TerminalKeyboard WITH MaxEvents <- MaxKeyEvents, k <- m
Mouse == INSTANCE TerminalMouse WITH u <- m

ASSUME ComponentsAssumption == Screen!ScreenAssumption

bufferVars == <<buffer, autoack_, readPos_, unreadCount_, written, out, buffer_, queue_, writePos_, readOffset_,
                ackPos_, ackOffset_>>
screenVars == <<t, ops>>
rowVars == <<nodes, at, style, edits, cells, torn>>
parserVars == <<v, fed>>
agentVars == <<q, agent, cards, cache, io, left, aesKeys>>
tmuxVars == <<tmux, lines, c, asks, uses>>
allVars == <<kind, vars, bufferVars, screenVars, rowVars, parserVars, agentVars, tmuxVars, m>>

(* A component that is not the one checked begins in one state only.  The  *)
(* two Alt keys can be AltGr in the same way, and preferences that pass    *)
(* keys to the browser do not look at it.                                  *)
MCInit ==
  /\ kind \in {"table", "buffers", "screen", "row", "parser", "agent", "tmux", "scroll", "keyboard", "mouse"}
  /\ Init /\ Buffers!Init /\ Screen!Init /\ Row!Init /\ Parser!Init /\ Agent!Init /\ Tmux!Init
  /\ \/ kind = "scroll" /\ Scroll!Init
     \/ kind = "keyboard" /\ Keyboard!Init /\ m.altGrMode # "left-alt" /\ (m.flags => m.altGrMode = "none")
     \/ kind = "mouse" /\ Mouse!Init
     \/ kind \notin {"scroll", "keyboard", "mouse"} /\ m = "none"
  /\ kind # "buffers" => buffer = "concat" /\ autoack_
  /\ kind # "screen" => t.width = 2 /\ t.height = 3
  /\ kind # "agent" => cache.enabled_ = "null"
  /\ kind # "tmux" => tmux.version = "old" /\ tmux.garbled

(* Bindings are of the letter a and do not change what other keys do. *)
OfBoundKeys == m.bindings # <<>> => \A i \in 1..Len(m'.last) : m'.last[i].e.key \in {"a", "c", "IME"}

MCNext ==
  /\ UNCHANGED kind
  /\ \/ kind = "table" /\ Next /\ UNCHANGED <<bufferVars, screenVars, rowVars, parserVars, agentVars, tmuxVars, m>>
     \/ kind = "buffers" /\ Buffers!Next /\ UNCHANGED <<vars, screenVars, rowVars, parserVars, agentVars, tmuxVars, m>>
     \/ kind = "screen" /\ Screen!Next /\ UNCHANGED <<vars, bufferVars, rowVars, parserVars, agentVars, tmuxVars, m>>
     \/ kind = "row" /\ Row!Next /\ UNCHANGED <<vars, bufferVars, screenVars, parserVars, agentVars, tmuxVars, m>>
     \/ kind = "parser" /\ Parser!Next /\ UNCHANGED <<vars, bufferVars, screenVars, rowVars, agentVars, tmuxVars, m>>
     \/ kind = "agent" /\ Agent!Next /\ UNCHANGED <<vars, bufferVars, screenVars, rowVars, parserVars, tmuxVars, m>>
     \/ kind = "tmux" /\ Tmux!Next /\ UNCHANGED <<vars, bufferVars, screenVars, rowVars, parserVars, agentVars, m>>
     \/ /\ \/ kind = "scroll" /\ Scroll!Next
           \/ kind = "keyboard" /\ Keyboard!Next /\ OfBoundKeys
           \/ kind = "mouse" /\ Mouse!Next
        /\ UNCHANGED <<vars, bufferVars, screenVars, rowVars, parserVars, agentVars, tmuxVars>>

MCSpec == MCInit /\ [][MCNext]_allVars

-----------------------------------------------------------------------------
(* Types of every part. *)
TypesOK ==
  /\ kind = "table" => TypeOK
  /\ kind = "screen" => Screen!TypeOK
  /\ kind = "row" => Row!TypeOK
  /\ kind = "parser" => Parser!TypeOK
  /\ kind = "agent" => Agent!TypeOK
  /\ kind = "tmux" => Tmux!TypeOK
  /\ kind = "scroll" => Scroll!TypeOK
  /\ kind = "keyboard" => Keyboard!TypeOK
  /\ kind = "mouse" => Mouse!TypeOK

(* The buffers of a relay stream implement the positions of their          *)
(* interface, ScatGatBuffer frees what has been acked and no more, and a   *)
(* read returns all there is up to the length asked for, whichever way     *)
(* writes, reads and acks follow each other.                               *)
BuffersKeepContract ==
  /\ Buffers!ImplementsContract
  /\ [](kind = "buffers" => Buffers!NothingLeaks)
  /\ [][kind = "buffers" => Buffers!ReadsInFull]_bufferVars

(* After any sequence of control sequences and resizes the cursor of each  *)
(* screen is on it, the screen has its rows, and every row knows its       *)
(* number; scrolling, inserting and deleting lines leave the rows outside  *)
(* the scroll region where they are.  When nothing is to come the document *)
(* shows the rows that are in view; no drawing breaks the selection of a   *)
(* range, and a copy has each of its rows once.  A keystroke is dealt with *)
(* once and tells its modifiers, the strictest binding takes it, and Alt   *)
(* is not held when it is not.  A mouse event goes to the program or to    *)
(* the page, a press the program has seen is released for it, and what was *)
(* taken from it stays so until the release.                               *)
TerminalHolds ==
  /\ [](kind = "screen" => Screen!ScreenFits /\ Screen!RowsNumbered)
  /\ [][kind = "screen" => Screen!KeepsOutsideRegion]_screenVars
  /\ [](kind = "scroll" => Scroll!DrawnWhenQuiet)
  /\ [][kind = "scroll" => Scroll!RedrawKeepsSelection /\ Scroll!CopiesAll]_m
  /\ [](kind = "keyboard" => /\ Keyboard!KeysAreSentOnce /\ Keyboard!ModifiersAreToldApart
                             /\ Keyboard!AltIsKnown /\ Keyboard!StrictestBindingWins)
  /\ [](kind = "mouse" => /\ Mouse!OneTakesTheMouse /\ Mouse!PressesAreReleased /\ Mouse!AutoScrollIsHeld)
  /\ [][kind = "mouse" => Mouse!DefeatedUntilReleased]_m

(* Whatever is printed, inserted, deleted and erased in a row, its nodes   *)
(* show each column's character and style, the cursor is where its node    *)
(* and offset say, and a position of a selection names one place.          *)
RowShowsItsText ==
  kind = "row" => Row!RowShowsItsText /\ Row!CursorInItsNode /\ Row!SelectionKeepsPlace

(* Output that comes in pieces does what it does in one piece: the parser  *)
(* can be interrupted between any two characters.                          *)
SplitIsHarmless == kind = "parser" => Parser!SplitIsHarmless

(* A PIN a card has refused is not in the cache again, and no PIN of the   *)
(* cache is the last wrong one a card accepts, although several            *)
(* connections sign at once.                                               *)
CachedPins == [](kind = "agent" => Agent!RefusedPinIsForgotten) /\ Agent!CacheNeverBlocks

(* When nothing is under way the controller knows exactly the windows tmux *)
(* has, and each page has shown its pane's output from the first piece on, *)
(* however opening, capture, output and end cross.  Once tmux waits for an *)
(* empty line before it exits, no command of the integration is typed into *)
(* the shell that gets the terminal back.                                  *)
PagesShowTheirWindows ==
  kind = "tmux" => Tmux!WindowsAgree /\ Tmux!PaneShownInOrder /\ Tmux!NothingReachesTheShell

=============================================================================

--------------------------- MODULE TerminalMouse ----------------------------
(***************************************************************************)
(* The mouse of the terminal: which events are reported to the program and *)
(* which act on the page (hterm.Terminal.onMouse_), how they are reported  *)
(* (hterm.VT.onTerminalMouse_), the modes that say so, and focus reports   *)
(* and pastes, which are sent the same way.                                *)
(*                                                                         *)
(* The browser is the environment: a press it is not kept from collapses   *)
(* the selection, and dragging with the primary button down makes one.     *)
(***************************************************************************)
EXTENDS Naturals, FiniteSets, Sequences

CONSTANTS Buttons,    \* those of the mouse: 0 is the primary, 1 the middle, 2 the secondary one
          Places,     \* the columns the mouse can be over
          MaxModes    \* bound on mode changes

VARIABLE u

Reports == {"disabled", "press", "click", "drag"}
Coordinates == {"x10", "sgr"}

Init ==
  \E scroll \in BOOLEAN :
    u = [mouseReport |-> "disabled", mouseCoordinates |-> "x10", lastMouseDragResponse_ |-> <<>>,
         defeatMouseReports_ |-> FALSE, enableMouseDragScroll |-> TRUE, engaged |-> FALSE, autoScrollEnabled_ |-> FALSE,
         \* scrollWheelArrowKeys_ with the alternate screen and application cursor keys; modes 1004 and 2004
         arrows |-> scroll, reportFocus |-> scroll, bracketedPaste |-> scroll,
         \* the page
         held |-> {}, at |-> 1, selected |-> FALSE, pasting |-> FALSE,
         \* what the last event sent and did, the buttons the program has seen pressed,
         \* whether all presses since no button was held were reported under the same mode, and
         \* whether there were several
         sent |-> "none", local |-> "none", seen |-> {}, plain |-> TRUE, several |-> FALSE, changes |-> 0]

-----------------------------------------------------------------------------
(* onTerminalMouse_: what is sent for an event, and what the program makes *)
(* of it: it has seen the button pressed; a release in the older           *)
(* coordinates does not say of which button.                               *)
OnTerminalDown(s, b) ==
  IF s.mouseReport = "disabled" THEN s ELSE [s EXCEPT !.sent = "press", !.seen = @ \cup {b}]
OnTerminalUp(s, b) ==
  IF s.mouseReport \in {"disabled", "press"} THEN s
  ELSE [s EXCEPT !.sent = "release", !.seen = IF s.mouseCoordinates = "sgr" THEN @ \ {b} ELSE s.held]
OnTerminalWheel(s) == IF s.mouseReport = "disabled" THEN s ELSE [s EXCEPT !.sent = "wheel"]

(* The first of left, middle, right that is held; a move within the cell   *)
(* that was reported last is not.                                          *)
FirstHeld(held) == IF 0 \in held THEN 0 ELSE IF 1 \in held THEN 1 ELSE 2
OnTerminalMove(s) ==
  LET r == <<FirstHeld(s.held), s.at, s.mouseCoordinates>> IN
  IF s.mouseReport # "drag" \/ s.held = {} \/ s.lastMouseDragResponse_ = r THEN s
  ELSE [s EXCEPT !.sent = "move", !.lastMouseDragResponse_ = r]

-----------------------------------------------------------------------------
(* onMouse_, in its parts. *)
ReportMouseEvents == ~u.defeatMouseReports_ /\ u.mouseReport # "disabled"

(* A press turns the mouse over to the selection or to the program. *)
TakeMouse(s, b, altKey, reports) ==
  [s EXCEPT !.defeatMouseReports_ = altKey \/ ~reports, !.enableMouseDragScroll = altKey \/ ~reports,
            !.selected = FALSE,    \* by the browser, or by collapseToEnd
            !.autoScrollEnabled_ = @ \/ b = 0]

PressLocally(s, b, ctrlKey) ==
  IF ctrlKey /\ b = 2 THEN [s EXCEPT !.local = "menu"]
  ELSE IF b \in {1, 2} THEN [s EXCEPT !.local = "paste", !.pasting = TRUE]
  ELSE [s EXCEPT !.local = "select"]

(* After a release the mouse can go to the program again, unless text is   *)
(* selected.                                                               *)
ReleaseMouse(s, b) ==
  [s EXCEPT !.defeatMouseReports_ = @ /\ s.selected, !.autoScrollEnabled_ = @ /\ b # 0]

Quiet == [u EXCEPT !.sent = "none", !.local = "none"]
MouseDown(b, altKey, ctrlKey) ==
  /\ b \notin u.held
  /\ LET s == TakeMouse([Quiet EXCEPT !.held = @ \cup {b}, !.seen = IF u.held = {} THEN {} ELSE @,
                                      !.plain = (@ \/ u.held = {}) /\ ReportMouseEvents /\ ~altKey /\ u.mouseReport # "press",
                                      !.several = u.held # {}],
                        b, altKey, ReportMouseEvents)
     IN  u' = IF ReportMouseEvents THEN OnTerminalDown([s EXCEPT !.engaged = TRUE], b) ELSE PressLocally(s, b, ctrlKey)

MouseUp(b) ==
  /\ b \in u.held
  /\ LET s == [Quiet EXCEPT !.held = @ \ {b}] IN
     u' = ReleaseMouse(IF ReportMouseEvents THEN OnTerminalUp(s, b)
                       ELSE [s EXCEPT !.engaged = FALSE, !.local = IF b = 0 /\ s.selected THEN "copy" ELSE @], b)

(* A move; the browser may extend the selection if the press was left to   *)
(* it.                                                                     *)
MouseMove(p) ==
  /\ LET s == [Quiet EXCEPT !.at = p] IN
     IF ReportMouseEvents
     THEN u' = OnTerminalMove(IF s.engaged THEN s ELSE [s EXCEPT !.selected = FALSE])
     ELSE \E drag \in BOOLEAN :
            /\ drag => 0 \in u.held /\ u.enableMouseDragScroll /\ p # u.at
            /\ u' = [s EXCEPT !.engaged = FALSE, !.selected = @ \/ drag, !.local = IF drag THEN "select" ELSE @]

(* A wheel scrolls the page, is reported, or makes cursor keys. *)
Wheel ==
  u' = IF ReportMouseEvents THEN OnTerminalWheel(Quiet)
       ELSE IF u.arrows THEN [Quiet EXCEPT !.sent = "keys"] ELSE [Quiet EXCEPT !.local = "scroll"]

(* A double click selects a word, as its second press does in the browser; *)
(* a click with Ctrl opens a link.                                         *)
DoubleClick ==
  /\ u.held = {}
  /\ u' = IF ReportMouseEvents THEN Quiet
          ELSE [TakeMouse(Quiet, 2, FALSE, FALSE) EXCEPT !.local = "select", !.selected = TRUE]
ControlClick ==
  /\ u.held = {}
  /\ u' = IF ReportMouseEvents THEN Quiet ELSE [Quiet EXCEPT !.local = "open"]

-----------------------------------------------------------------------------
(* onFocusChange_, and the clipboard's answer to paste(). *)
OnFocusChange ==
  u' = [Quiet EXCEPT !.sent = IF u.reportFocus THEN "focus" ELSE "none"]
OnPasteData ==
  /\ u.pasting
  /\ u' = [Quiet EXCEPT !.pasting = FALSE, !.sent = IF u.bracketedPaste THEN "bracketed" ELSE "paste"]

(* The modes of setDECMode that say what is reported and how. *)
IfSet(state, r) == IF state THEN r ELSE "disabled"
SetMouseReport(r) == [Quiet EXCEPT !.mouseReport = r]
SetDECMode(code, state) ==
  CASE code = 9 -> SetMouseReport(IfSet(state, "press"))
    [] code = 1000 -> SetMouseReport(IfSet(state, "click"))
    [] code = 1002 -> SetMouseReport(IfSet(state, "drag"))
    [] code = 1006 -> [Quiet EXCEPT !.mouseCoordinates = IF state THEN "sgr" ELSE "x10"]
(* VT.reset, of a full reset. *)
Reset == [Quiet EXCEPT !.mouseReport = "disabled", !.mouseCoordinates = "x10", !.lastMouseDragResponse_ = <<>>]

ModeChange ==
  /\ u.changes < MaxModes
  /\ \E s \in {SetDECMode(code, state) : code \in {9, 1000, 1002, 1006}, state \in BOOLEAN} \cup {Reset} :
       u' = [s EXCEPT !.changes = @ + 1, !.plain = @ /\ s.mouseReport = u.mouseReport]

Next ==
  \/ \E b \in Buttons : (\E alt, ctrl \in BOOLEAN : MouseDown(b, alt, ctrl)) \/ MouseUp(b)
  \/ \E p \in Places : MouseMove(p)
  \/ Wheel \/ DoubleClick \/ ControlClick \/ OnFocusChange \/ OnPasteData \/ ModeChange

Spec == Init /\ [][Next]_u

-----------------------------------------------------------------------------
TypeOK ==
  /\ u.mouseReport \in Reports /\ u.mouseCoordinates \in Coordinates
  /\ u.held \subseteq Buttons /\ u.at \in Places \cup {1} /\ u.seen \subseteq Buttons

(* An event goes to the program or acts on the page, never both, and the   *)
(* browser selects nothing while the program follows a drag.               *)
OneTakesTheMouse ==
  /\ u.sent # "none" => u.local = "none"
  /\ u.sent = "move" => ~u.selected

(* A program that has seen a button go down sees it come up, in whatever   *)
(* order buttons are pressed and released and whatever else the mouse      *)
(* does, as long as it keeps its mode and no press is taken from it with   *)
(* Alt.                                                                    *)
PressesAreReleased == u.plain => u.seen = u.held

(* Unless another button was down at the time, a program that turns        *)
(* reports on while a button is held does not get the release of a press   *)
(* it has not seen, and nothing but another press undoes the user's        *)
(* selection.                                                              *)
DefeatedUntilReleased ==
  /\ u'.sent = "release" /\ ~u.several => u.seen # {}
  /\ u.selected /\ ~u'.selected /\ ~u.several => u'.held # u.held
DefeatHolds == [][DefeatedUntilReleased]_u

(* The page scrolls by itself only while the primary button is held.       *)
AutoScrollIsHeld == u.autoScrollEnabled_ => 0 \in u.held

=============================================================================

-------------------------- MODULE TerminalKeyboard --------------------------
(***************************************************************************)
(* The keyboard of the terminal (hterm_keyboard.js, its key map and its    *)
(* bindings): what becomes of a keystroke under every combination of       *)
(* modifiers, preferences and modes, and the Alt keys the keyboard itself  *)
(* keeps track of while the focus comes and goes.                          *)
(*                                                                         *)
(* A key stands for all keys with the same definitions.  What is sent is a *)
(* record: kind and c are the text ("csi" with a final byte, "csin" with a *)
(* number before it, "ss3", "text"), mod the modifier parameter of a       *)
(* control sequence, esc and high what an Alt or Meta adds.                *)
(***************************************************************************)
EXTENDS Naturals, Sequences, FiniteSets, SequencesExt

CONSTANT MaxEvents    \* bound on mode changes, bindings and changes of focus

VARIABLE k

Letters == {"a", "c", "v", "n", "w", "q", "l"}
Marks == {";", ",", "/", "-", "1", "~", "space"}
Cursor == {"HOME", "UP", "RIGHT", "PGUP"}
Specials == {"ESC", "F1", "F5", "F11", "BKSP", "TAB", "ENTER", "INSERT", "DEL", "BACK"} \cup Cursor
Keypad == {"KP0", "KP+"}
Keys == Letters \cup Marks \cup Specials \cup Keypad \cup {"CAPS", "UNKNOWN"}

(* Key caps in brackets are of keys that do not print; the pattern for     *)
(* them does not match [KP+].                                              *)
IsPrintable(key) == key \in Letters \cup Marks \cup {"KP+"}
CharacterKeys == Letters \cup Marks

Events == [key : Keys, shift : BOOLEAN, ctrl : BOOLEAN, alt : BOOLEAN, meta : BOOLEAN]
Unmodified(e) == ~e.shift /\ ~e.ctrl /\ ~e.alt /\ ~e.meta

-----------------------------------------------------------------------------
(* Actions of the key map. *)
Result(do, kind, c, page) == [do |-> do, kind |-> kind, c |-> c, page |-> page, mask |-> FALSE]
PASS == Result("PASS", "", "", "")
DEFAULT == Result("DEFAULT", "", "", "")
STRIP == Result("STRIP", "", "", "")
CANCEL == Result("CANCEL", "", "", "")
Page(what) == Result("CANCEL", "", "", what)
Text(c) == Result("send", "text", c, "")
CSI(c) == Result("send", "csi", c, "")
CSIN(c) == Result("send", "csin", c, "")
SS3(c) == Result("send", "ss3", c, "")

(* The macros of the map. *)
Sh(e, a, b) == [(IF e.shift THEN b ELSE a) EXCEPT !.mask = TRUE]
Mod(e, a, b) == IF Unmodified(e) THEN a ELSE b
Ac(e, a, b) == IF Unmodified(e) /\ k.applicationCursor THEN b ELSE a
Bs(a, b) == IF k.backspaceSendsBackspace THEN b ELSE a
Med(e, a) == IF k.flags THEN a ELSE IF e.key = "BACK" THEN CANCEL ELSE PASS

OnKeyInsert(e) == IF k.flags /\ e.shift THEN PASS ELSE CSIN("2~")
OnKeyHome(e) ==
  IF k.flags # e.shift THEN Page("scroll")
  ELSE IF e.alt \/ e.ctrl \/ e.shift \/ ~k.applicationCursor THEN CSI("H") ELSE SS3("H")
OnKeyPageUp(e) == IF k.flags # e.shift THEN Page("scroll") ELSE CSIN("5~")
OnKeyDel(e) == IF k.flags /\ k.altKeyPressed # {} /\ ~e.alt THEN Text("ESC DEL") ELSE CSIN("3~")
OnKeyArrowUp(e) ==
  IF ~k.applicationCursor /\ e.shift THEN Page("scroll")
  ELSE IF Unmodified(e) /\ k.applicationCursor THEN SS3("A") ELSE CSI("A")
OnF11(e) == IF ~e.shift /\ ~k.flags THEN PASS ELSE CSIN("23~")

OnCtrlNum(e) == IF k.pass /\ ~e.shift THEN PASS ELSE Text("1")
OnAltNum(e) == IF k.pass /\ ~e.shift THEN PASS ELSE DEFAULT
OnMetaNum(e) == IF k.pass /\ ~e.shift THEN PASS ELSE DEFAULT
OnCtrlTab == IF k.pass THEN PASS ELSE STRIP
OnCtrlW == IF k.pass THEN PASS ELSE Text("^W")
OnCtrlN(e) == IF k.pass THEN PASS ELSE IF e.shift THEN Page("session") ELSE Text("^N")
OnMetaN(e) == IF e.shift THEN Page("session") ELSE DEFAULT

(* A copy clears the selection a moment later; with no selection the key   *)
(* is sent.                                                                *)
OnCtrlC(e) ==
  IF k.selection /\ k.flags /\ ~e.shift THEN PASS
  ELSE IF k.selection /\ ~k.flags /\ e.shift THEN Page("copy")
  ELSE Text("^C")
OnMetaC(e) == IF e.shift \/ ~k.selection THEN Text(IF e.shift THEN "C" ELSE "c") ELSE PASS
OnCtrlV(e, pasted) ==
  IF e.shift = k.flags THEN Text("^V") ELSE IF pasted THEN Page("paste") ELSE PASS
OnMetaV(e) == IF e.shift \/ k.flags THEN PASS ELSE DEFAULT
OnZoom(e) ==
  IF k.flags = e.shift THEN (IF e.key = "-" THEN Text("^_") ELSE CANCEL) ELSE Page("zoom")

(* The map: what each key does unmodified, with Ctrl, Alt, Meta. *)
Normal(e) ==
  CASE e.key \in CharacterKeys \cup Keypad -> DEFAULT
    [] e.key = "ESC" -> Text("ESC")
    [] e.key = "F1" -> Mod(e, SS3("P"), CSI("P"))
    [] e.key = "BACK" -> Med(e, Mod(e, SS3("P"), CSI("P")))
    [] e.key = "F5" -> CSIN("15~")
    [] e.key = "F11" -> OnF11(e)
    [] e.key = "BKSP" -> Bs(Text("DEL"), Text("BS"))
    [] e.key = "TAB" -> Sh(e, Text("HT"), CSI("Z"))
    [] e.key = "ENTER" -> Text("CR")
    [] e.key = "INSERT" -> OnKeyInsert(e)
    [] e.key = "HOME" -> OnKeyHome(e)
    [] e.key = "PGUP" -> OnKeyPageUp(e)
    [] e.key = "DEL" -> OnKeyDel(e)
    [] e.key = "UP" -> OnKeyArrowUp(e)
    [] e.key = "RIGHT" -> Ac(e, CSI("C"), SS3("C"))
    [] e.key \in {"CAPS", "UNKNOWN"} -> PASS

Control(e, pasted) ==
  CASE e.key = "a" -> Sh(e, Text("^A"), Page("select"))
    [] e.key = "c" -> OnCtrlC(e)
    [] e.key = "v" -> OnCtrlV(e, pasted)
    [] e.key = "n" -> OnCtrlN(e)
    [] e.key = "w" -> OnCtrlW
    [] e.key = "q" -> Text("^Q")
    [] e.key = "l" -> Sh(e, Text("^L"), PASS)
    [] e.key = ";" -> STRIP
    [] e.key = "," -> IF e.alt THEN PASS ELSE STRIP
    [] e.key = "/" -> Sh(e, Text("^_"), Text("^?"))
    [] e.key \in {"-", "KP+"} -> OnZoom(e)
    [] e.key = "1" -> OnCtrlNum(e)
    [] e.key = "~" -> Sh(e, Text("^@"), Text("^^"))
    [] e.key = "space" -> Text("^@")
    [] e.key = "BKSP" -> Bs(Text("BS"), Text("DEL"))
    [] e.key = "TAB" -> OnCtrlTab
    [] e.key \in {"CAPS", "UNKNOWN"} -> PASS
    [] OTHER -> DEFAULT

Alt(e) ==
  CASE e.key = "1" -> OnAltNum(e)
    [] e.key \in {"F1", "BACK"} -> CSIN("23~")
    [] e.key = "F5" -> CSIN("28~")
    [] e.key = "F11" -> CSIN("42~")
    [] e.key \in {"TAB", "CAPS", "UNKNOWN"} -> PASS
    [] OTHER -> DEFAULT

Meta(e) ==
  CASE e.key = "1" -> OnMetaNum(e)
    [] e.key = "c" -> OnMetaC(e)
    [] e.key = "v" -> OnMetaV(e)
    [] e.key = "n" -> OnMetaN(e)
    [] e.key \in {"-", "KP+"} -> OnZoom(e)
    [] e.key \in {"~", "UNKNOWN"} -> PASS
    [] OTHER -> DEFAULT

-----------------------------------------------------------------------------
(* Bindings. *)
Wild == {"yes", "no", "any"}
Patterns == [shift : Wild, ctrl : Wild, alt : Wild, meta : Wild]
WildcardCount(p) == Cardinality({f \in DOMAIN p : p[f] = "any"})
MatchKeyDown(p, mods) == \A f \in DOMAIN p : p[f] # "any" => (p[f] = "yes") = mods[f]

(* addBinding_: a pattern that is there gets the new action, another is    *)
(* sorted in behind those with as many wild cards.                         *)
AddBinding(list, p, action) ==
  LET known == {i \in 1..Len(list) : list[i].pattern = p} IN
  IF known # {} THEN [list EXCEPT ![CHOOSE i \in known : \A j \in known : i <= j].action = action]
  ELSE LET before == Cardinality({i \in 1..Len(list) : WildcardCount(list[i].pattern) <= WildcardCount(p)})
       IN  InsertAt(list, before + 1, [pattern |-> p, action |-> action])

Matching(list, mods) == {i \in 1..Len(list) : MatchKeyDown(list[i].pattern, mods)}

-----------------------------------------------------------------------------
(* onKeyDown_ *)
AltAndMeta(e) == [shift |-> e.shift, ctrl |-> e.ctrl, alt |-> e.alt /\ ~k.altIsMeta,
                  meta |-> e.meta \/ (e.alt /\ k.altIsMeta)]

(* With AltGr the modifiers are left to the browser's keypress. *)
IsAltGr(e, mods) ==
  /\ IsPrintable(e.key)
  /\ \/ k.altGrMode = "ctrl-alt" /\ mods.ctrl /\ mods.alt
     \/ k.altGrMode = "right-alt" /\ "right" \in k.altKeyPressed
     \/ k.altGrMode = "left-alt" /\ "left" \in k.altKeyPressed
Modifiers(e) ==
  IF IsAltGr(e, AltAndMeta(e)) THEN [AltAndMeta(e) EXCEPT !.ctrl = FALSE, !.alt = FALSE] ELSE AltAndMeta(e)

(* getKeyDefAction, with the modifier the action is for. *)
Resolve(e, name, action) ==
  IF action.do = "DEFAULT" /\ name # "normal"
  THEN [action |-> [Normal(e) EXCEPT !.mask = @ \/ action.mask], type |-> "normal"]
  ELSE [action |-> action, type |-> name]
FromMap(e, mods, pasted) ==
  IF mods.ctrl THEN Resolve(e, "control", Control(e, pasted))
  ELSE IF mods.alt THEN Resolve(e, "alt", Alt(e))
  ELSE IF mods.meta THEN Resolve(e, "meta", Meta(e))
  ELSE Resolve(e, "normal", Normal(e))

NoMods == [shift |-> FALSE, ctrl |-> FALSE, alt |-> FALSE, meta |-> FALSE]
(* The action with the modifiers that are still to be dealt with; only the *)
(* letter a is bound.                                                      *)
Chosen(e, mods, pasted) ==
  LET found == IF e.key = "a" THEN Matching(k.bindings, mods) ELSE {} IN
  IF found # {}
  THEN [action |-> k.bindings[CHOOSE i \in found : \A j \in found : i <= j].action, type |-> "normal", mods |-> NoMods]
  ELSE LET r == FromMap(e, mods, pasted)
       IN  [action |-> r.action, type |-> r.type, mods |-> [mods EXCEPT !.shift = e.shift /\ ~r.action.mask]]

AfterBrowserKey(x) ==
  IF x.mods.alt /\ k.altSendsWhat = "browser-key" /\ x.action.do = "DEFAULT" THEN [x EXCEPT !.action = PASS] ELSE x

LeftToBrowser(x) ==
  \/ x.action.do = "PASS"
  \/ x.action.do = "DEFAULT" /\ ~x.mods.ctrl /\ ~x.mods.alt /\ ~x.mods.meta

(* The character on the cap: a bracket for a key that does not print. *)
Cap(e, shift) ==
  CASE e.key \in Keypad \cup Specials -> IF shift THEN "K" ELSE "["
    [] e.key = "space" -> IF shift THEN "" ELSE " "
    [] OTHER -> IF shift THEN "shifted" ELSE e.key

AfterStrip(e, x) ==
  IF x.action.do # "STRIP" THEN x
  ELSE LET normal == Normal(e) IN
       [x EXCEPT !.mods.alt = FALSE, !.mods.ctrl = FALSE,
                 !.action = IF normal.do = "DEFAULT" THEN Text(Cap(e, x.mods.shift)) ELSE normal]

(* The modifier of the action has been accounted for in it. *)
Unaccounted(x) ==
  CASE x.type = "control" -> [x.mods EXCEPT !.ctrl = FALSE]
    [] x.type = "alt" -> [x.mods EXCEPT !.alt = FALSE]
    [] x.type = "meta" -> [x.mods EXCEPT !.meta = FALSE]
    [] OTHER -> x.mods

Num(b, n) == IF b THEN n ELSE 0
Parameter(m) == 1 + Num(m.shift, 1) + Num(m.alt, 2) + Num(m.ctrl, 4) + Num(m.meta, 8)

Sent(kind, c, mod, esc, high) == [kind |-> kind, c |-> c, mod |-> mod, esc |-> esc, high |-> high]
Sequence(e, x, m) ==
  IF x.action.kind \in {"csi", "csin"} /\ (m.shift \/ m.alt \/ m.ctrl \/ m.meta)
  THEN Sent(x.action.kind, x.action.c, Parameter(m), FALSE, FALSE)
  ELSE LET isCap == x.action.do = "DEFAULT"
           \* of the caps of the keys with a default for Ctrl only "[" is a control character
           c == IF ~isCap THEN x.action.c ELSE IF m.ctrl /\ Cap(e, FALSE) = "[" THEN "ESC" ELSE Cap(e, m.shift)
       IN  Sent(IF isCap THEN "text" ELSE x.action.kind, c, 1,
                (m.alt /\ k.altSendsWhat = "escape") \/ (m.meta /\ k.metaSendsEscape),
                m.alt /\ k.altSendsWhat = "8-bit" /\ c \notin {"", "ESC DEL"}
                  /\ (isCap \/ x.action.kind = "text"))

(* What onKeyDown_ does: send, prevent the browser's default, act on the   *)
(* page.                                                                   *)
Done(x, sent) == [prevented |-> TRUE, sent |-> sent, page |-> x.action.page]
Handle(e, x) ==
  IF LeftToBrowser(x) THEN [prevented |-> FALSE, sent |-> <<>>, page |-> x.action.page]
  ELSE LET s == AfterStrip(e, x) IN
       IF s.action.do = "CANCEL" THEN Done(s, <<>>)
       ELSE Done(s, <<Sequence(e, s, Unaccounted(s))>>)
OnKeyDown(e, pasted) == Handle(e, AfterBrowserKey(Chosen(e, Modifiers(e), pasted)))

(* onKeyPress_: charCode is 0 when the browser has no character for the    *)
(* key.                                                                    *)
OnKeyPress(e, charCode) ==
  IF (e.ctrl \/ e.meta) /\ charCode \in {"c", "v"} THEN <<>>
  ELSE IF e.key = "TAB" THEN <<>>
  ELSE IF e.alt /\ k.altSendsWhat = "browser-key" /\ charCode = "0"
  THEN <<Sent("text", Cap(e, e.shift), 1, FALSE, FALSE)>>
  ELSE IF charCode # "0" THEN <<Sent("text", charCode, 1, FALSE, FALSE)>>
  ELSE <<>>

-----------------------------------------------------------------------------
Modes == {"escape", "8-bit", "browser-key"}

Init ==
  \E gr \in {"none", "ctrl-alt", "left-alt", "right-alt"}, what \in Modes, am \in BOOLEAN, flags \in BOOLEAN :
    /\ am => gr = "none" /\ what = "escape"
    /\ k = [altGrMode |-> gr, altSendsWhat |-> what, previousAltSendsWhat_ |-> "null", pref |-> what, altIsMeta |-> am,
            metaSendsEscape |-> TRUE, applicationCursor |-> FALSE, backspaceSendsBackspace |-> FALSE,
            \* the preferences for scrolling, copying and media keys, and those that pass keys to the browser
            flags |-> flags, pass |-> flags, selection |-> FALSE,
            alts |-> {}, altKeyPressed |-> {}, focus |-> TRUE,
            bindings |-> <<>>, added |-> <<>>, last |-> <<>>, events |-> 0]

Quiet == k.last = <<>>
Count == k.events < MaxEvents

(* A key goes down while the terminal has the focus.  The browser fires a  *)
(* keypress if nobody prevented it and the key makes a character: Ctrl and *)
(* Meta make none, but AltGr does; with Alt alone it may have none.  Firefox fires   *)
(* one for the shortcuts of copy and paste, and for Tab.                   *)
KeyMakesCharacter(e) ==
  \/ /\ e.key \in CharacterKeys \cup Keypad \cup {"ENTER"}
     /\ ~e.meta
     /\ ~e.ctrl \/ (e.alt /\ k.altGrMode = "ctrl-alt")
     /\ ~(e.alt /\ e.key = "1" /\ k.pass)
  \/ e.key \in {"c", "v", "TAB"}
CharCodes(e) ==
  IF e.ctrl \/ e.meta \/ e.key = "TAB" THEN {e.key}
  ELSE IF e.alt /\ k.altGrMode = "none" THEN {"0", "composed"}
  ELSE {"char"}

KeyDown(e, pasted) ==
  /\ k.focus /\ (e.alt = (k.alts # {}) \/ (e.key = "DEL" /\ ~e.alt))
  /\ LET out == OnKeyDown(e, pasted) IN
     \E char \in CharCodes(e) :
       k' = [k EXCEPT !.last = <<[e |-> e, out |-> IF ~out.prevented /\ KeyMakesCharacter(e)
                                                   THEN [out EXCEPT !.sent = @ \o OnKeyPress(e, char)] ELSE out]>>]

(* An Alt key goes down or up; its keydown itself is passed on. *)
AltDown(a) ==
  /\ a \notin k.alts /\ Count
  /\ k' = [k EXCEPT !.alts = @ \cup {a}, !.altKeyPressed = IF k.focus THEN @ \cup {a} ELSE @,
                    !.events = @ + 1]
OnKeyUp(a) ==
  /\ a \in k.alts
  /\ k' = [k EXCEPT !.alts = @ \ {a}, !.altKeyPressed = IF k.focus THEN @ \ {a} ELSE @]
OnFocusOut ==
  /\ k.focus /\ Count
  /\ k' = [k EXCEPT !.focus = FALSE, !.altKeyPressed = {}, !.events = @ + 1]
FocusIn ==
  /\ ~k.focus
  /\ k' = [k EXCEPT !.focus = TRUE]
(* An input method's text. *)
Ime == [key |-> "IME", shift |-> FALSE, ctrl |-> FALSE, alt |-> FALSE, meta |-> FALSE]
OnTextInput ==
  /\ k.focus
  /\ k' = [k EXCEPT !.last = <<[e |-> Ime, out |-> Done([action |-> DEFAULT], <<Sent("text", "ime", 1, FALSE, FALSE)>>)]>>]

(* The modes of setDECMode that are the keyboard's. *)
SetDECMode(code, state) ==
  /\ Count
  /\ k' = [(CASE code = 1 -> [k EXCEPT !.applicationCursor = state]
              [] code = 67 -> [k EXCEPT !.backspaceSendsBackspace = state]
              [] code = 1036 -> [k EXCEPT !.metaSendsEscape = state]
              [] code = 1039 /\ state /\ k.previousAltSendsWhat_ = "null" ->
                   [k EXCEPT !.previousAltSendsWhat_ = k.altSendsWhat, !.altSendsWhat = "escape"]
              [] code = 1039 /\ ~state /\ k.previousAltSendsWhat_ # "null" ->
                   [k EXCEPT !.altSendsWhat = k.previousAltSendsWhat_, !.previousAltSendsWhat_ = "null"]
              [] OTHER -> k) EXCEPT !.events = @ + 1]

Bind(p, action) ==
  /\ Count
  /\ k' = [k EXCEPT !.bindings = AddBinding(@, p, action), !.added = Append(@, [pattern |-> p, action |-> action]),
                    !.events = @ + 1]

Select ==
  /\ ~k.selection /\ Count
  /\ k' = [k EXCEPT !.selection = TRUE, !.events = @ + 1]
(* The timer of a copy; another click does the same. *)
CollapseToEnd ==
  /\ k.selection
  /\ k' = [k EXCEPT !.selection = FALSE]

Exact == [shift |-> "no", ctrl |-> "yes", alt |-> "no", meta |-> "no"]
Loose == [shift |-> "any", ctrl |-> "yes", alt |-> "any", meta |-> "any"]
Looser == [shift |-> "any", ctrl |-> "any", alt |-> "any", meta |-> "any"]

(* The key is released, and others may follow. *)
KeyReleased == ~Quiet /\ k' = [k EXCEPT !.last = <<>>]

Handlers ==
  \/ \E e \in Events, pasted \in BOOLEAN : (pasted \/ e.key = "v") /\ KeyDown(e, pasted)
  \/ \E a \in {"left", "right"} : AltDown(a) \/ OnKeyUp(a)
  \/ OnFocusOut \/ FocusIn \/ OnTextInput \/ Select \/ CollapseToEnd
  \/ \E code \in {1, 67, 1036, 1039}, state \in BOOLEAN : SetDECMode(code, state)
  \/ \E p \in {Exact, Loose, Looser}, action \in {Text("bound"), PASS} : Bind(p, action)
Next == KeyReleased \/ (Quiet /\ Handlers)

Spec == Init /\ [][Next]_k

-----------------------------------------------------------------------------
TypeOK ==
  /\ k.altSendsWhat \in Modes /\ k.previousAltSendsWhat_ \in Modes \cup {"null"}
  /\ k.alts \subseteq {"left", "right"} /\ k.altKeyPressed \subseteq {"left", "right"}
  /\ Len(k.last) <= 1 /\ k.events \in 0..MaxEvents

(* A keystroke is dealt with once: nothing is sent twice, by keydown and   *)
(* again by keypress, or sent and also acted on by the page or, as a       *)
(* shortcut of copy and paste, by the browser; and a character typed       *)
(* without Ctrl and Meta is sent, whatever Alt means, unless a binding or  *)
(* a preference gives it to the browser.                                   *)
Taken(e) == (e.key = "1" /\ e.alt /\ k.pass) \/ (e.key = "a" /\ k.bindings # <<>>)
KeysAreSentOnce ==
  \A i \in 1..Len(k.last) :
    LET e == k.last[i].e  out == k.last[i].out IN
    /\ Len(out.sent) <= 1 /\ (out.page # "" => out.sent = <<>>)
    /\ e.key \in {"c", "v"} /\ (e.ctrl \/ e.meta) /\ ~e.alt /\ ~out.prevented => out.sent = <<>>
    /\ (e.key \in CharacterKeys /\ ~e.ctrl /\ ~e.meta /\ ~(e.alt /\ k.altIsMeta) /\ ~Taken(e)) => Len(out.sent) = 1

(* What a program gets tells which modifiers were held with a cursor or    *)
(* function key (except Meta with Home, which the map does not look at).   *)
FunctionKeys == {"F1", "F5", "INSERT", "DEL", "RIGHT", "UP", "PGUP", "HOME"}
SentFor(key) ==
  {<<e, OnKeyDown(e, TRUE).sent>> : e \in {x \in Events : x.key = key /\ ~(key = "HOME" /\ x.meta)}}
ModifiersAreToldApart ==
  k.last = <<>> /\ ~k.altIsMeta /\ k.altKeyPressed = {} =>
    \A key \in FunctionKeys :
      \A x, y \in SentFor(key) : x[2] = y[2] /\ x[2] # <<>> => x = y

(* The keyboard takes no Alt key for held that was released while the      *)
(* focus was elsewhere, and mode 1039 gives back what Alt sent before.     *)
AltIsKnown ==
  /\ k.altKeyPressed \subseteq k.alts
  /\ k.previousAltSendsWhat_ = "null" => k.altSendsWhat = k.pref
  /\ k.previousAltSendsWhat_ # "null" => k.altSendsWhat = "escape" /\ k.previousAltSendsWhat_ = k.pref

(* In whichever order bindings were added, a key takes the strictest one   *)
(* that matches, with the action it was given last.                        *)
LastGiven(p) == k.added[CHOOSE i \in 1..Len(k.added) :
                          k.added[i].pattern = p /\ \A j \in i + 1..Len(k.added) : k.added[j].pattern # p].action
StrictestBindingWins ==
  k.last = <<>> =>
    \A mods \in [shift : BOOLEAN, ctrl : BOOLEAN, alt : BOOLEAN, meta : BOOLEAN] :
      LET given == {k.added[i].pattern : i \in 1..Len(k.added)}
          fitting == {p \in given : MatchKeyDown(p, mods)}
          found == Matching(k.bindings, mods)
      IN  /\ fitting = {} <=> found = {}
          /\ fitting # {} =>
               \E p \in fitting : /\ \A r \in fitting : WildcardCount(p) <= WildcardCount(r)
                                  /\ k.bindings[CHOOSE i \in found : \A j \in found : i <= j].action = LastGiven(p)

=============================================================================

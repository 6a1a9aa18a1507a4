------------------------------- MODULE VtParser ------------------------------
(***************************************************************************)
(* The parser of hterm's VT (hterm_vt.js): the host's output comes to      *)
(* interpret() cut at any place, and the parse state carries what is       *)
(* unfinished from one call to the next.  A character stands for its kind; *)
(* out is what the terminal is told to do.  Data comes within the 20 s     *)
(* that a string may take.                                                 *)
(***************************************************************************)
EXTENDS Integers, Sequences, SequencesExt

CONSTANTS
  Chars,      \* characters the host sends, of those below
  MaxInput,   \* bound: characters sent
  MaxPiece    \* bound: characters of one call

VARIABLES
  v,          \* the VT and its parse state
  fed         \* everything given to interpret() so far

Final == {"[", "]", "P", "x", "bslash", "G"}  \* '@' to '~'
Digits == {"1", ":"}
Controls == {"ESC", "BEL", "CAN"}         \* 7-bit: CC1, in UTF-8
Date == <<"date">>                        \* args[1] of a string

Fresh ==
  [func |-> "parseUnknown_", buf |-> <<>>, args |-> <<>>, subargs |-> FALSE,
   leadingModifier_ |-> <<>>, trailingModifier_ |-> <<>>, locked |-> FALSE, out |-> <<>>]

Does(s, what) == [s EXCEPT !.out = Append(@, what)]
ResetFunc(s) == [s EXCEPT !.func = "parseUnknown_"]
ResetArguments(s) == [s EXCEPT !.args = <<>>]
Advance(s, n) == [s EXCEPT !.buf = SubSeq(@, n + 1, Len(@))]
ResetTo(s, buf) == [ResetArguments(ResetFunc(s)) EXCEPT !.buf = buf]

(* Positions of the first ST or BEL, or of any ESC. *)
FirstIn(seq, set) == SelectInSeq(seq, LAMBDA ch : ch \in set)

(* Dispatch of a control character; CAN ends the sequence it is in. *)
DispatchCC1(s, ch) ==
  CASE ch = "ESC" -> [s EXCEPT !.func = "parseESC"]
    [] ch = "CAN" -> Does(ResetFunc(s), "?")
    [] ch = "BEL" -> Does(s, "bell")

(* Text up to the next control character is printed. *)
ParseUnknown(s) ==
  LET next == FirstIn(s.buf, Controls)
      text == SubSeq(s.buf, 1, IF next = 0 THEN Len(s.buf) ELSE next - 1)
      printed == [s EXCEPT !.out = @ \o text]
  IN  IF next = 0 THEN ResetTo(printed, <<>>)
      ELSE Advance(DispatchCC1(printed, s.buf[next]), next)

(* What follows ESC: a sequence of its own, one more character, or all.    *)
ParseESC(s) ==
  LET ch == Head(s.buf)
      rest == Advance(s, 1)
      begin == [ResetArguments(rest) EXCEPT !.leadingModifier_ = <<>>, !.trailingModifier_ = <<>>]
  IN  CASE ch = "ESC" -> rest
        [] ch = "[" -> [begin EXCEPT !.func = "parseCSI_"]
        [] ch = "P" -> [begin EXCEPT !.func = "parseDCS_"]
        [] ch = "]" -> [ResetArguments(rest) EXCEPT !.func = "parseOSC"]
        [] ch = "%" -> [rest EXCEPT !.func = "parseDOCS"]
        [] ch = "/" -> [rest EXCEPT !.func = "parseSCS"]
        [] OTHER -> Does(ResetFunc(rest), <<"esc", ch>>)

ParseSCS(s) ==
  IF Head(s.buf) = "ESC" THEN ResetFunc(s)
  ELSE Does(ResetFunc(Advance(s, 1)), <<"charset", Head(s.buf)>>)

(* ESC %: after a slash the next character is taken whether or not it is   *)
(* there.                                                                  *)
ParseDOCS(s) ==
  LET rest == ResetFunc(Advance(s, 1))
      last == IF rest.buf = <<>> THEN "none" ELSE Head(rest.buf)
  IN  IF Head(s.buf) # "/" THEN IF s.locked THEN rest ELSE Does(rest, <<"coding", Head(s.buf)>>)
      ELSE IF last = "G" /\ ~s.locked
           THEN [Does(Advance(rest, 1), <<"coding", last>>) EXCEPT !.locked = TRUE]
           ELSE Advance(rest, 1)

(* A character of the parameters of CSI or DCS. *)
Parameter(s, ch) ==
  LET args == s.args
  IN  CASE ch = ";" -> [s EXCEPT !.args = IF args = <<>> THEN <<<<>>, <<>>>> ELSE Append(args, <<>>)]
        [] ch \in Digits -> [s EXCEPT !.args = IF args = <<>> THEN <<<<ch>>>>
                                               ELSE [args EXCEPT ![Len(args)] = Append(@, ch)]]
        [] OTHER -> IF args = <<>> THEN [s EXCEPT !.leadingModifier_ = Append(@, ch)]
                    ELSE [s EXCEPT !.trailingModifier_ = Append(@, ch)]

FinishCSI(s) == [ResetFunc(ResetArguments(s)) EXCEPT !.subargs = FALSE]

ParseCSI(s) ==
  LET ch == Head(s.buf)
      parsed ==
        CASE ch \in Final -> FinishCSI(IF s.subargs THEN s
               ELSE Does(s, <<"csi", s.leadingModifier_ \o s.trailingModifier_, s.args, ch>>))
          [] ch \in Controls -> DispatchCC1(s, ch)
          [] ch \in Digits \cup {";"} /\ s.trailingModifier_ # <<>> -> FinishCSI(s)
          [] ch = ":" /\ s.trailingModifier_ = <<>> -> [Parameter(s, ch) EXCEPT !.subargs = TRUE]
          [] OTHER -> Parameter(s, ch)
  IN  Advance(parsed, 1)

ParseDCS(s) ==
  LET ch == Head(s.buf)
      parsed ==
        CASE ch \in Final -> [s EXCEPT !.func = "parseString"]
          [] ch \in Controls -> DispatchCC1(s, ch)
          [] ch \in Digits \cup {";"} /\ s.trailingModifier_ # <<>> -> ResetFunc(ResetArguments(s))
          [] OTHER -> Parameter(s, ch)
  IN  Advance(parsed, 1)

(* Mutation of Until: an ESC that ends a call does not wait for the next.  *)
UntilForgetsEscape(s) ==
  LET args == IF s.args = <<>> THEN <<<<>>, Date>> ELSE s.args
      at == FirstIn(s.buf, {"ESC", "BEL"})
      found == at # 0 /\ (s.buf[at] = "BEL" \/ (at < Len(s.buf) /\ s.buf[at + 1] = "bslash"))
      all == args[1] \o s.buf
  IN  IF found THEN Advance([ResetFunc(s) EXCEPT !.args = [args EXCEPT ![1] = @ \o SubSeq(s.buf, 1, at - 1)]],
                            IF s.buf[at] = "ESC" THEN at + 1 ELSE at)
      ELSE IF at # 0 \/ (Len(args) > 1 /\ args[2] # Date) THEN ResetTo(s, all)
      ELSE [s EXCEPT !.args = [args EXCEPT ![1] = all], !.buf = <<>>]

(* parseUntilStringTerminator_: a string that has an ESC inside is given   *)
(* up and read again as text.  So is one whose args[1], which a DCS may    *)
(* have left, is not the time it began.                                    *)
Until(s) ==
  LET args == IF s.args = <<>> THEN <<<<>>, Date>> ELSE s.args
      split == args[1] # <<>> /\ Last(args[1]) = "ESC"
      kept == IF split THEN Front(args[1]) ELSE args[1]
      buf == IF split THEN <<"ESC">> \o s.buf ELSE s.buf
      at == FirstIn(buf, {"ESC", "BEL"})
      found == at # 0 /\ (buf[at] = "BEL" \/ (at < Len(buf) /\ buf[at + 1] = "bslash"))
      embedded == at # 0 /\ at < Len(buf)
      late == Len(args) > 1 /\ args[2] # Date
      end == IF buf[at] = "ESC" THEN at + 1 ELSE at
  IN  IF found
      THEN [ResetFunc(s) EXCEPT !.args = [args EXCEPT ![1] = kept \o SubSeq(buf, 1, at - 1)],
                                !.buf = SubSeq(buf, end + 1, Len(buf))]
      ELSE IF embedded \/ late THEN ResetTo(s, kept \o buf)
      ELSE [s EXCEPT !.args = [args EXCEPT ![1] = kept \o buf], !.buf = <<>>]

(* OSC, and the strings nobody looks at. *)
ParseOSC(s) ==
  LET read == Until(s)
  IN  IF read.func # "parseUnknown_" \/ read.args = <<>> THEN read
      ELSE ResetArguments(Does(read, <<"osc", read.args[1]>>))

Parse(s) ==
  CASE s.func = "parseUnknown_" -> ParseUnknown(s)
    [] s.func = "parseESC" -> ParseESC(s)
    [] s.func = "parseCSI_" -> ParseCSI(s)
    [] s.func = "parseDCS_" -> ParseDCS(s)
    [] s.func = "parseOSC" -> ParseOSC(s)
    [] s.func = "parseSCS" -> ParseSCS(s)
    [] s.func = "parseDOCS" -> ParseDOCS(s)
    [] s.func = "parseString" -> Until(s)

Most == MaxInput * MaxInput

(* interpret: a string given up is read twice, and so may be the next.     *)
Interpret(s, piece) ==
  LET after[n \in 0..Most] ==
        IF n = 0 THEN [s EXCEPT !.buf = piece]
        ELSE LET before == after[n - 1]
             IN  IF before.buf = <<>> THEN before ELSE Parse(before)
  IN  after[Most]

Init == v = Fresh /\ fed = <<>>

Next ==
  \E piece \in SeqOf(Chars, MaxPiece) :
    /\ piece # <<>> /\ Len(fed) + Len(piece) <= MaxInput
    /\ fed' = fed \o piece
    /\ v' = Interpret(v, piece)

Spec == Init /\ [][Next]_<<v, fed>>

-----------------------------------------------------------------------------
(* All that is given to interpret() is looked at before it returns.        *)
TypeOK == v.buf = <<>> /\ v.subargs \in BOOLEAN /\ v.locked \in BOOLEAN

(* However the host's output is cut, the terminal does what it would have  *)
(* done for all of it at once.                                             *)
SplitIsHarmless == v.out = Interpret(Fresh, fed).out

=============================================================================

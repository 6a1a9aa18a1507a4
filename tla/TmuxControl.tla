----------------------------- MODULE TmuxControl -----------------------------
(***************************************************************************)
(* The Terminal app's tmux integration: the Controller (tmux.js) talks to  *)
(* a tmux process in control mode over the terminal's own input and        *)
(* output, the driver and ServerWindows (terminal_tmux.js) talk to one     *)
(* page per tmux window over BroadcastChannels.  tmux itself, which        *)
(* answers commands in order and reports what happens to its windows, is   *)
(* external.  Each window has one pane, whose output is numbered.          *)
(***************************************************************************)
EXTENDS Integers, Sequences, FiniteSets, SequencesExt

CONSTANTS
  Windows,     \* window numbers, 1..n
  MaxOutput,   \* bound: pieces of output of one pane
  MaxAsks,     \* bound: pages that ask for a window
  MaxUses      \* bound: what the user and other clients of tmux do

VARIABLES
  tmux,    \* the tmux process, the commands it refused and the shell it runs in
  out,     \* its lines still to be read
  c,       \* the Controller, its driver and the pages (c.page, by window)
  asks,    \* page that asks for a window -> "waiting", "gaveUp" or "answered"
  uses     \* what the user has done

vars == <<tmux, out, c, asks, uses>>

Cmd(name, w) == [name |-> name, w |-> w]
Blank == Cmd("", 0)   \* an empty line detaches

Init ==
  /\ \E version \in {"old", "3.2a"}, garbled \in BOOLEAN :
     tmux = [windows |-> {1}, made |-> 1, output |-> [w \in Windows |-> 0], state |-> "running",
             version |-> version, garbled |-> garbled, waitExit |-> FALSE, answered |-> 0, refused |-> FALSE, shell |-> <<>>]
  /\ out = <<[tag |-> "%begin", n |-> 0], [tag |-> "%end", n |-> 0, data |-> 0]>>
  /\ c = [commands_ |-> <<[cmd |-> Cmd("start", 0), beginArgs_ |-> -1]>>, pendingCommands_ |-> <<>>,
          windows_ |-> {}, handlers_ |-> FALSE, hasError_ |-> FALSE, closed_ |-> FALSE, waitExit_ |-> FALSE,
          firstInit_ |-> TRUE, requests |-> <<>>, opened |-> <<>>, connected |-> {}, normal |-> {}, input |-> <<>>,
          page |-> [w \in Windows |-> [state |-> "none", layout_ |-> FALSE, paneSyncStarted_ |-> FALSE,
                                       shown |-> <<>>, toServer |-> <<>>]]]
  /\ asks = [a \in {} |-> ""]
  /\ uses = 0

-----------------------------------------------------------------------------
(* tmux, modelled by what the controller expects of it.                    *)

Lives(w) == w \in tmux.windows

(* The lines about a window that ends; tmux exits with its last.           *)
Ending(w) ==
  <<[tag |-> "%window-close", w |-> w]>> \o (IF tmux.windows = {w} THEN <<[tag |-> "%exit"]>> ELSE <<>>)
Without(w) ==
  LET rest == [tmux EXCEPT !.windows = @ \ {w}]
  IN  IF rest.windows # {} THEN rest ELSE [rest EXCEPT !.state = "exiting"]
Leaving == [tmux EXCEPT !.state = "exiting"]
Reply(ok, data) ==
  <<[tag |-> "%begin", n |-> tmux.answered + 1],
    [tag |-> IF ok THEN "%end" ELSE "%error", n |-> tmux.answered + 1, data |-> data]>>
Answers(t, ok, data, more) ==
  /\ tmux' = [t EXCEPT !.answered = @ + 1, !.refused = @ \/ ~ok]
  /\ out' = out \o Reply(ok, data) \o more
New(w) == [tmux EXCEPT !.windows = @ \cup {w}, !.made = w]

(* A line of input is a command, an empty line detaches; after %exit, and  *)
(* without wait-exit, what follows is typed into the shell.                *)
TmuxReads ==
  LET cmd == Head(c.input)
      w == cmd.w
  IN  /\ c.input # <<>>
      /\ c' = [c EXCEPT !.input = Tail(@)]
      /\ CASE tmux.state = "gone" -> tmux' = [tmux EXCEPT !.shell = Append(@, cmd)] /\ UNCHANGED out
           [] tmux.state = "exiting" ->
                IF cmd = Blank THEN tmux' = [tmux EXCEPT !.state = "gone"] /\ out' = Append(out, [tag |-> "null"])
                ELSE UNCHANGED <<tmux, out>>
           [] cmd = Blank -> tmux' = Leaving /\ out' = Append(out, [tag |-> "%exit"])
           [] cmd.name = "detach" -> Answers(Leaving, TRUE, 0, <<[tag |-> "%exit"]>>)
           [] cmd.name = "version" -> Answers([tmux EXCEPT !.garbled = FALSE], ~tmux.garbled, tmux.version, <<>>)
           [] cmd.name = "wait-exit" -> Answers([tmux EXCEPT !.waitExit = TRUE], TRUE, 0, <<>>)
           [] cmd.name = "list-windows" ->
                Answers(tmux, TRUE, IF w = 0 THEN tmux.windows ELSE tmux.windows \cap {w}, <<>>)
           [] cmd.name = "new-window" ->
                Answers(New(tmux.made + 1), TRUE, 0, <<[tag |-> "%window-add", w |-> tmux.made + 1]>>)
           [] cmd.name = "kill-window" /\ Lives(w) -> Answers(Without(w), TRUE, 0, Ending(w))
           [] cmd.name = "copy-mode" -> Answers(tmux, TRUE, 0, <<>>)
           [] cmd.name = "resize-window" /\ Lives(w) ->
                Answers(tmux, TRUE, 0, <<[tag |-> "%layout-change", w |-> w]>>)
           [] OTHER -> Answers(tmux, Lives(w), IF Lives(w) THEN tmux.output[w] ELSE 0, <<>>)
      /\ UNCHANGED <<asks, uses>>

(* Without wait-exit tmux is gone at once. *)
TmuxLeaves ==
  /\ tmux.state = "exiting" /\ ~tmux.waitExit
  /\ tmux' = [tmux EXCEPT !.state = "gone"]
  /\ out' = Append(out, [tag |-> "null"])
  /\ UNCHANGED <<c, asks, uses>>

(* What the user and other clients of tmux do counts against MaxUses.      *)
Use == uses < MaxUses /\ uses' = uses + 1

PaneWrites(w) ==
  /\ tmux.state = "running" /\ Lives(w) /\ tmux.output[w] < MaxOutput
  /\ tmux' = [tmux EXCEPT !.output[w] = @ + 1]
  /\ out' = Append(out, [tag |-> "%output", w |-> w, n |-> tmux.output[w] + 1])
  /\ UNCHANGED <<c, asks, uses>>

WindowEnds(w) ==
  /\ Use /\ tmux.state = "running" /\ Lives(w)
  /\ tmux' = Without(w) /\ out' = out \o Ending(w)
  /\ UNCHANGED <<c, asks>>

(* Another client of tmux opens a window. *)
Room == tmux.made + Cardinality(DOMAIN asks) < Cardinality(Windows)
WindowElsewhere ==
  /\ Use /\ tmux.state = "running" /\ Room
  /\ tmux' = New(tmux.made + 1)
  /\ out' = Append(out, [tag |-> "%window-add", w |-> tmux.made + 1])
  /\ UNCHANGED <<c, asks>>

-----------------------------------------------------------------------------
(* The controller.                                                         *)

Queue(s, cmds) == [s EXCEPT !.pendingCommands_ = @ \o cmds]
Write(s, line) == IF s.closed_ THEN s ELSE [s EXCEPT !.input = Append(@, line)]

(* interpretLine: the first exception detaches with an empty line.         *)
Throw(s) == [(IF s.hasError_ THEN s ELSE Write(s, Blank)) EXCEPT !.hasError_ = TRUE]

(* A ServerWindow's message is lost unless its page is connected.  What a  *)
(* page does with it: the page's own messages wait in toServer, so that a  *)
(* delay on either way is a delay there.                                   *)
Shows(p) == p.paneSyncStarted_
Say(p, what) == [p EXCEPT !.toServer = @ \o what]
ClientReads(p, what, n) ==
  CASE p.state # "open" -> p
    [] what = "init" -> Say(p, <<"requestLayoutUpdate">>)
    [] what = "onLayoutUpdate" ->
         IF p.layout_ THEN p ELSE Say([p EXCEPT !.layout_ = TRUE], <<"resizeWindow", "syncPane">>)
    [] what = "onPaneSyncStart" -> [p EXCEPT !.paneSyncStarted_ = p.layout_]
    [] what = "onPaneOutput" -> IF Shows(p) THEN [p EXCEPT !.shown = @ \o n] ELSE p
    [] what = "onClose" -> [p EXCEPT !.state = "closed"]
Post(s, w, what, n) == IF w \in s.connected THEN [s EXCEPT !.page[w] = ClientReads(@, what, n)] ELSE s

(* internalOpenWindow_, and the driver that gives the window to the first  *)
(* page that asked for one, or opens a page.                               *)
OpenWindow(s, w) ==
  IF w \in s.windows_ THEN Throw(s)
  ELSE [s EXCEPT !.windows_ = @ \cup {w},
                 !.opened = Append(@, [w |-> w, ask |-> IF s.requests = <<>> THEN 0 ELSE Head(s.requests)]),
                 !.requests = IF @ = <<>> THEN @ ELSE Tail(@)]
OpenWindows(s, ws) == FoldLeft(OpenWindow, s, SetToSortSeq(ws, <))

Close(s, w) == Post([s EXCEPT !.windows_ = @ \ {w}], w, "onClose", <<>>)

(* Command.finish: the callbacks of the commands the controller queues.    *)
ListWindows(w) == Cmd("list-windows", w)
Finish(s, cmd, ok, data) ==
  CASE cmd.name = "start" -> IF ok THEN Queue(s, <<Cmd("version", 0)>>) ELSE s
    [] cmd.name = "version" /\ ~ok /\ s.firstInit_ ->
         Queue([s EXCEPT !.firstInit_ = FALSE], <<Cmd("version", 0)>>)
    [] cmd.name # "start" /\ ~ok /\ ~(cmd.name = "version" /\ s.firstInit_) -> Throw(s)
    [] cmd.name = "version" /\ ok ->
         Queue(s, <<IF data = "old" THEN ListWindows(0) ELSE Cmd("wait-exit", 0)>>)
    [] cmd.name = "wait-exit" /\ ok -> Queue([s EXCEPT !.waitExit_ = TRUE], <<ListWindows(0)>>)
    [] cmd.name = "list-windows" /\ ok ->
         LET opened == OpenWindows(s, data)
         IN  [opened EXCEPT !.handlers_ = s.handlers_ \/ (cmd.w = 0 /\ ~opened.hasError_)]
    [] cmd.name = "capture-pane" /\ ok ->
         Post(Post(s, cmd.w, "onPaneSyncStart", <<>>), cmd.w, "onPaneOutput", [i \in 1..data |-> i])
    [] OTHER -> s

(* handleExit_ *)
HandleExit(s) ==
  LET told == FoldLeft(Close, IF s.waitExit_ THEN Write(s, Blank) ELSE s, SetToSortSeq(s.windows_, <))
  IN  [told EXCEPT !.closed_ = TRUE]

(* onStop_: pages that still wait for a window are told, their requests    *)
(* stay in the array.                                                      *)
Refuse(s) == {s.requests[i] : i \in DOMAIN s.requests}

(* Mutant: %window-add and %window-close are handled from the start. *)
ListeningAtOnce(s) == TRUE
Listening(s) == s.handlers_

(* interpretLine_ *)
Interpret(s, line) ==
  LET cmd == Head(s.commands_)
      started == s.commands_ # <<>> /\ cmd.beginArgs_ # -1
  IN  CASE line.tag \in {"%end", "%error"} /\ s.commands_ # <<>> /\ cmd.beginArgs_ = line.n ->
             Finish([s EXCEPT !.commands_ = Tail(@)], cmd.cmd, line.tag = "%end", line.data)
        [] started -> s
        [] line.tag = "%begin" /\ ~started ->
             IF s.commands_ = <<>> THEN Throw(s) ELSE [s EXCEPT !.commands_[1].beginArgs_ = line.n]
        [] line.tag = "%exit" -> HandleExit(s)
        [] line.tag = "%output" /\ line.w \in s.windows_ -> Post(s, line.w, "onPaneOutput", <<line.n>>)
        [] line.tag = "%layout-change" /\ line.w \in s.windows_ -> Post(s, line.w, "onLayoutUpdate", <<>>)
        [] line.tag = "%window-add" /\ Listening(s) -> Queue(s, <<ListWindows(line.w)>>)
        [] line.tag = "%window-close" /\ Listening(s) /\ line.w \in s.windows_ -> Close(s, line.w)
        [] OTHER -> s

Reads ==
  /\ out # <<>> /\ out' = Tail(out)
  /\ LET line == Head(out)
     IN  IF line.tag = "null"
         THEN /\ asks' = [a \in DOMAIN asks |-> IF a \in Refuse(c) /\ asks[a] = "waiting" THEN "gaveUp" ELSE asks[a]]
              /\ UNCHANGED c
         ELSE /\ c' = Interpret(c, line)
              /\ UNCHANGED asks
  /\ UNCHANGED <<tmux, uses>>

Off(s) == s.closed_ \/ s.hasError_
SendPendingCommands ==
  /\ c.pendingCommands_ # <<>>
  /\ LET sent == [c EXCEPT !.pendingCommands_ = <<>>]
         started(cmd) == [cmd |-> cmd, beginArgs_ |-> -1]
     IN  c' = IF Off(c) THEN sent
              ELSE [sent EXCEPT !.commands_ = @ \o [i \in DOMAIN c.pendingCommands_ |-> started(c.pendingCommands_[i])],
                                !.input = @ \o c.pendingCommands_]
  /\ UNCHANGED <<tmux, out, asks, uses>>

-----------------------------------------------------------------------------
(* The pages.                                                              *)

(* A page opens on the window the driver announced: it connects, and the   *)
(* ServerWindow calls init.  A window given to a page that gave up waiting *)
(* gets no page.                                                           *)
PageOpens ==
  /\ c.opened # <<>>
  /\ LET o == Head(c.opened)
         taken == o.ask = 0 \/ asks[o.ask] = "waiting"
         s == [c EXCEPT !.opened = Tail(@)]
     IN  /\ c' = IF taken
                 THEN Post([s EXCEPT !.connected = @ \cup {o.w}, !.page[o.w].state = "open"], o.w, "init", <<>>)
                 ELSE s
         /\ asks' = IF o.ask = 0 \/ ~taken THEN asks ELSE [asks EXCEPT ![o.ask] = "answered"]
  /\ UNCHANGED <<tmux, out, uses>>

(* ServerWindow.onData_, or the controller's method of that name.          *)
ServerReads(w) ==
  LET what == Head(c.page[w].toServer)
      known == w \in c.windows_
      s == [c EXCEPT !.page[w].toServer = Tail(@)]
  IN  /\ c.page[w].toServer # <<>>
      /\ c' = CASE what = "requestLayoutUpdate" -> IF known THEN Post(s, w, "onLayoutUpdate", <<>>) ELSE s
                [] what = "syncPane" ->
                     IF known THEN Queue(s, <<Cmd("capture-pane", w), Cmd("list-panes", w), Cmd("capture-rest", w)>>) ELSE s
                [] what = "resizeWindow" -> Queue(s, <<Cmd("resize-window", w), Cmd("select-window", w)>>)
                [] what = "sendPaneInput" ->
                     IF ~known THEN s
                     ELSE Queue([s EXCEPT !.normal = @ \cup {w}],
                                (IF w \in s.normal THEN <<>> ELSE <<Cmd("copy-mode", 0)>>) \o <<Cmd("send-keys", w)>>)
                [] what = "killWindow" -> Queue(s, <<Cmd("kill-window", w)>>)
      /\ UNCHANGED <<tmux, out, asks, uses>>

(* The user types into a page or closes it, detaches in the pseudo command *)
(* or asks for one more window; a request times out after five seconds.    *)
Types(w) ==
  /\ Use /\ c.page[w].state = "open" /\ c.page[w].layout_
  /\ c' = [c EXCEPT !.page[w] = Say(@, <<"sendPaneInput">>)]
  /\ UNCHANGED <<tmux, out, asks>>
Unloads(w) ==
  /\ Use /\ c.page[w].state = "open"
  /\ c' = [c EXCEPT !.page[w] = Say([@ EXCEPT !.state = "closed"], <<"killWindow">>)]
  /\ UNCHANGED <<tmux, out, asks>>
Stopped == tmux.state = "gone" /\ out = <<>>
Detach ==
  /\ Use /\ ~Stopped /\ (c.waitExit_ \/ c.handlers_)
  /\ c' = IF c.hasError_ THEN Write(c, Blank) ELSE Queue(c, <<Cmd("detach", 0)>>)
  /\ UNCHANGED <<tmux, out, asks>>
RequestOpenWindow(a) ==
  /\ Use /\ a \in 1..MaxAsks /\ a \notin DOMAIN asks /\ Room /\ ~Stopped
  /\ asks' = [b \in DOMAIN asks \cup {a} |-> IF b = a THEN "waiting" ELSE asks[b]]
  /\ c' = Queue([c EXCEPT !.requests = Append(@, a)], <<Cmd("new-window", 0)>>)
  /\ UNCHANGED <<tmux, out>>
TimesOut(a) ==
  /\ a \in DOMAIN asks /\ asks[a] = "waiting"
  /\ asks' = [asks EXCEPT ![a] = "gaveUp"]
  /\ UNCHANGED <<tmux, out, c, uses>>

(* tmux reads its input at once: a delay of the input shows as a delay of  *)
(* its output.                                                             *)
Step ==
  \/ TmuxLeaves \/ WindowElsewhere
  \/ \E w \in Windows : PaneWrites(w) \/ WindowEnds(w)
  \/ Reads \/ SendPendingCommands \/ PageOpens
  \/ \E w \in Windows : ServerReads(w) \/ Types(w) \/ Unloads(w)
  \/ Detach
  \/ \E a \in 1..MaxAsks : RequestOpenWindow(a) \/ TimesOut(a)
Next == TmuxReads \/ (c.input = <<>> /\ Step)

Spec == Init /\ [][Next]_vars

-----------------------------------------------------------------------------
(* Type correctness. *)
TypeOK ==
  /\ tmux.windows \subseteq Windows /\ tmux.output \in [Windows -> 0..MaxOutput]
  /\ tmux.state \in {"running", "exiting", "gone"}
  /\ c.windows_ \subseteq Windows /\ {c.hasError_, c.closed_, c.waitExit_, c.handlers_} \subseteq BOOLEAN
  /\ \A w \in Windows : c.page[w].state \in {"none", "open", "closed"}

(* When nothing is under way the controller knows exactly the windows tmux *)
(* has, whatever was opened or ended while it listed them; and it detaches *)
(* by itself only after tmux refused a command (handleWindowAdd_,          *)
(* internalOpenWindow_, handleWindowClose_).                               *)
WindowsAgree ==
  /\ c.hasError_ => tmux.refused
  /\ (out = <<>> /\ c.input = <<>> /\ c.pendingCommands_ = <<>> /\ tmux.state = "running" /\ c.handlers_ /\ ~c.hasError_)
       => c.windows_ = tmux.windows

(* A page shows the output of its pane from the first piece on, each once  *)
(* and in order, though the capture and new output race (syncPane).        *)
PaneShownInOrder == \A w \in Windows : c.page[w].shown = [i \in 1..Len(c.page[w].shown) |-> i]

(* Once tmux waits for an empty line before it exits, no command of the    *)
(* integration is typed into the user's shell (wait-exit, handleExit_).    *)
NothingReachesTheShell == tmux.waitExit => {tmux.shell[i] : i \in DOMAIN tmux.shell} \subseteq {Blank}

=============================================================================

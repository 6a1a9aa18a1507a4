------------------------------ MODULE NasftpCli ------------------------------
(***************************************************************************)
(* The nasftp shell (nasftp_cli.js): the line the user types, what is      *)
(* typed while a command works, interrupts, completion, the history, and   *)
(* the requests a command makes of the SFTP client one after another.      *)
(* A key is a word or Enter, and a word names a kind of command: of those  *)
(* that differ only in their requests there is one.                        *)
(***************************************************************************)
EXTENDS Integers, Sequences, SequencesExt

CONSTANTS
  Words,      \* what the user types: kinds of commands
  MaxKeys,    \* bound: keys pressed
  MaxHistory, \* 100
  LatePick    \* whether a file is chosen in the dialog of a put given up

VARIABLES
  c,          \* the Cli
  keys        \* keys so far

Enter == "enter"

ShellAssumption ==
  /\ Words \subseteq {"ask", "stat", "df", "rm", "touch", "truncate", "copy", "cat", "clip", "show", "get", "mget",
                      "list", "put", "quit"}
  /\ MaxHistory \in Nat

(* What the commands ask of the server: one reply each, "chunks" any       *)
(* number.  "check" is a test of userInterrupted_ between files or         *)
(* directories, and at "next" an error of what came before is forgotten.   *)
(* Each command is given two paths if it takes several.                    *)
Ask == <<"request", "request">>                   \* cd, and chmod, chown, ln, mkdir, mv, readlink, rmdir, ... alike
Stat == Ask
DiskFree == Ask
Rm == <<"request", "next", "request">>        \* with -f
Touch == <<"open", "request", "close">>
Truncate == Touch
Copy == <<"request", "open", "open", "request", "close", "close">>
Cat == <<"open", "chunks", "close">>
Clip == Cat
Show == Cat \o Cat
Get == <<"request">> \o Cat
Mget == Get \o <<"next">> \o Get
List == Cat \o <<"check">> \o Cat
Put == <<"pick">> \o List
Complete == Cat

Script ==
  [ask |-> Ask, stat |-> Stat, df |-> DiskFree, rm |-> Rm, touch |-> Touch, truncate |-> Truncate, copy |-> Copy,
   cat |-> Cat, clip |-> Clip, show |-> Show, get |-> Get, mget |-> Mget, list |-> List, put |-> Put,
   complete |-> Complete]

Job(cmd) == [cmd |-> cmd, todo |-> Script[cmd], open |-> 0, failed |-> FALSE, listening |-> cmd # "complete"]

Init ==
  /\ keys = 0
  /\ c = [stdin_ |-> <<>>, buffered_ |-> <<>>, holdInput_ |-> FALSE, userInterrupted_ |-> FALSE, killCount_ |-> 0,
          history_ |-> <<>>, historyPosition_ |-> -1, historyStash_ |-> <<>>, exited_ |-> FALSE, jobs |-> <<>>]

-----------------------------------------------------------------------------
(* Mutation of Finish: the history has no limit. *)
FinishUnbounded(s) ==
  LET new == s.stdin_ # <<>> /\ (s.history_ = <<>> \/ Head(s.history_) # s.stdin_)
      done == [s EXCEPT !.history_ = IF new THEN <<s.stdin_>> \o @ ELSE @, !.historyPosition_ = -1, !.stdin_ = <<>>]
  IN  IF s.exited_ THEN done
      ELSE [done EXCEPT !.buffered_ = IF s.userInterrupted_ THEN <<>> ELSE @, !.userInterrupted_ = FALSE]

(* finishCommand: called by the promise of the command or by an unhandled  *)
(* rejection, whichever comes first, and then by the other.                *)
Finish(s) ==
  LET new == s.stdin_ # <<>> /\ (s.history_ = <<>> \/ Head(s.history_) # s.stdin_)
      done == [s EXCEPT !.history_ = IF new THEN SubSeq(<<s.stdin_>> \o @, 1, IF Len(@) < MaxHistory THEN Len(@) + 1 ELSE MaxHistory) ELSE @,
                        !.historyPosition_ = -1, !.stdin_ = <<>>]
  IN  IF s.exited_ THEN done
      ELSE [done EXCEPT !.buffered_ = IF s.userInterrupted_ THEN <<>> ELSE @, !.userInterrupted_ = FALSE]

(* onInputChar_ and dispatchCommand_. *)
Dispatch(s) ==
  IF s.stdin_ = <<>> THEN Finish(s)
  ELSE IF Head(s.stdin_) = "quit" THEN Finish([s EXCEPT !.exited_ = TRUE])
  ELSE [s EXCEPT !.jobs = Append(@, Job(Head(s.stdin_)))]

Waiting(s) == \E j \in DOMAIN s.jobs : s.jobs[j].listening

InputChar(s) ==
  LET rest == [s EXCEPT !.buffered_ = Tail(@), !.killCount_ = 0]
  IN  IF Waiting(s) \/ s.buffered_ = <<>> THEN s
      ELSE IF Head(s.buffered_) = Enter THEN Dispatch(rest)
      ELSE [rest EXCEPT !.stdin_ = Append(@, Head(s.buffered_))]

(* onInput_'s loop, until a command has to be awaited. *)
Drain(s) ==
  LET after[n \in 0..Len(s.buffered_)] == IF n = 0 THEN s ELSE InputChar(after[n - 1])
      end == after[Len(s.buffered_)]
  IN  [end EXCEPT !.holdInput_ = Waiting(end)]

(* Mutation of OnInput: a key starts the loop though it is running. *)
OnInputAlways(s, string) == Drain([s EXCEPT !.buffered_ = @ \o string])

OnInput(s, string) ==
  LET queued == [s EXCEPT !.buffered_ = @ \o string]
  IN  IF s.holdInput_ THEN queued ELSE Drain(queued)

-----------------------------------------------------------------------------
(* The end of job j.  An upload that fails rejects a promise nobody has:   *)
(* whatever command waits is finished by the event, and the promise of the *)
(* upload never settles.                                                   *)
Without(s, j) == [s EXCEPT !.jobs = RemoveAt(@, j)]

Deaf(s) == [s EXCEPT !.jobs = [j \in DOMAIN s.jobs |-> [s.jobs[j] EXCEPT !.listening = FALSE]]]

(* Mutation of Unhandled: nobody listens. *)
UnhandledNobody(s, j) == IF Waiting(s) /\ ~s.jobs[j].listening THEN Without(s, j) ELSE s

Unhandled(s, j) == IF Waiting(s) THEN Drain(Finish(Without(Deaf(s), j))) ELSE Without(s, j)

End(s, j) ==
  LET job == s.jobs[j]
  IN  CASE job.cmd \in {"put", "upload"} /\ job.failed -> Unhandled(s, j)
        [] job.cmd = "upload" /\ ~job.failed -> Without(s, j)
        [] job.cmd = "complete" -> [Without(s, j) EXCEPT !.holdInput_ = FALSE]
        [] job.listening /\ ~(job.cmd = "put" /\ job.failed) -> Drain(Finish(Without(s, j)))
        [] OTHER -> Finish(Without(s, j))

(* A reply to job j: what is left to do, after an error the closing of     *)
(* what is open and what follows a "next".                                 *)
AfterError(job) ==
  LET nexts == {i \in DOMAIN job.todo : job.todo[i] = "next"}
      rest == IF nexts = {} THEN <<>>
              ELSE SubSeq(job.todo, CHOOSE i \in nexts : \A k \in nexts : i <= k, Len(job.todo))
  IN  [job EXCEPT !.todo = [i \in 1..job.open |-> "close"] \o rest, !.failed = rest = <<>>]

AfterReply(job, more) ==
  CASE Head(job.todo) = "open"   -> [job EXCEPT !.todo = Tail(@), !.open = @ + 1]
    [] Head(job.todo) = "close"  -> [job EXCEPT !.todo = Tail(@), !.open = @ - 1]
    [] Head(job.todo) = "chunks" -> IF more THEN job ELSE [job EXCEPT !.todo = Tail(@)]
    [] OTHER                     -> [job EXCEPT !.todo = Tail(@)]

Asking(j) == ~c.exited_ /\ j \in DOMAIN c.jobs /\ c.jobs[j].todo # <<>>

(* A chunk of data asks for the next one until the user interrupts. *)
Reply(j) ==
  /\ Asking(j) /\ Head(c.jobs[j].todo) \notin {"pick", "check", "next"}
  /\ \E more \in BOOLEAN :
       /\ more => Head(c.jobs[j].todo) = "chunks" /\ ~c.userInterrupted_
       /\ c' = [c EXCEPT !.jobs[j] = AfterReply(c.jobs[j], more)]
  /\ UNCHANGED keys

ErrorReply(j) ==
  /\ Asking(j) /\ Head(c.jobs[j].todo) \notin {"pick", "check", "next", "close"}
  /\ c' = [c EXCEPT !.jobs[j] = AfterError(c.jobs[j])]
  /\ UNCHANGED keys

(* Between two files or directories. *)
Between(j) ==
  /\ Asking(j) /\ Head(c.jobs[j].todo) \in {"check", "next"}
  /\ c' = [c EXCEPT !.jobs[j].todo = IF Head(@) = "check" /\ c.userInterrupted_ THEN <<>> ELSE Tail(@)]
  /\ UNCHANGED keys

(* put: the user chooses files, or interrupts and the poller notices; the  *)
(* dialog stays.                                                           *)
Pick(j) ==
  /\ Asking(j) /\ Head(c.jobs[j].todo) = "pick"
  /\ c.jobs[j].listening \/ LatePick
  /\ c' = [c EXCEPT !.jobs[j].todo = Tail(@)]
  /\ UNCHANGED keys

CancelCheck(j) ==
  /\ Asking(j) /\ Head(c.jobs[j].todo) = "pick" /\ c.jobs[j].listening
  /\ c.userInterrupted_
  /\ c' = Drain(Finish([c EXCEPT !.jobs[j].listening = FALSE, !.jobs[j].cmd = "upload"]))
  /\ UNCHANGED keys

Ends(j) ==
  /\ ~c.exited_ /\ j \in DOMAIN c.jobs /\ c.jobs[j].todo = <<>>
  /\ c' = End(c, j)
  /\ UNCHANGED keys

-----------------------------------------------------------------------------
(* Keys. *)
Press == ~c.exited_ /\ keys < MaxKeys /\ keys' = keys + 1

Type == Press /\ \E w \in Words : \E string \in {<<w>>, <<Enter>>, <<w, Enter>>} : c' = OnInput(c, string)

CtrlC ==
  Press /\ c' = IF c.holdInput_ THEN [c EXCEPT !.userInterrupted_ = TRUE] ELSE [c EXCEPT !.stdin_ = <<>>]

CtrlBackslash ==
  Press /\ c.holdInput_ /\ c' = [c EXCEPT !.killCount_ = @ + 1, !.exited_ = c.killCount_ = 2]

Tab ==
  Press /\ ~c.holdInput_ /\ c' = [c EXCEPT !.holdInput_ = TRUE, !.jobs = Append(@, Job("complete"))]

(* Ctrl-D; Backspace, Ctrl-U and Ctrl-W; Up and Down. *)
CtrlD == Press /\ ~c.holdInput_ /\ c.stdin_ = <<>> /\ c' = [c EXCEPT !.exited_ = TRUE]

Erase == Press /\ ~c.holdInput_ /\ c.stdin_ # <<>> /\ c' \in {[c EXCEPT !.stdin_ = Front(@)], [c EXCEPT !.stdin_ = <<>>]}

Up ==
  /\ Press /\ ~c.holdInput_ /\ c.historyPosition_ + 1 < Len(c.history_)
  /\ c' = [c EXCEPT !.historyPosition_ = @ + 1, !.stdin_ = c.history_[c.historyPosition_ + 2],
                    !.historyStash_ = IF c.historyPosition_ = -1 THEN c.stdin_ ELSE @]

Down ==
  /\ Press /\ ~c.holdInput_ /\ c.historyPosition_ >= 0
  /\ c' = [c EXCEPT !.historyPosition_ = @ - 1,
                    !.stdin_ = IF c.historyPosition_ = 0 THEN c.historyStash_ ELSE c.history_[c.historyPosition_]]

Jobs == 1..MaxKeys

Next ==
  \/ \E j \in Jobs : Reply(j) \/ ErrorReply(j) \/ Between(j) \/ Pick(j) \/ CancelCheck(j) \/ Ends(j)
  \/ Type \/ CtrlC \/ CtrlBackslash \/ Tab \/ CtrlD \/ Erase \/ Up \/ Down

vars == <<c, keys>>

(* The server answers and files end; nobody must choose a file. *)
Fairness ==
  \A j \in Jobs :
    WF_vars(Reply(j) /\ c' # c) /\ WF_vars(Between(j)) /\ WF_vars(CancelCheck(j)) /\ WF_vars(Ends(j))

Spec == Init /\ [][Next]_vars /\ Fairness

-----------------------------------------------------------------------------
Dialog(job) == job.todo # <<>> /\ Head(job.todo) = "pick"

(* The shell has its type: no command closes what it has not opened, or    *)
(* ends with a handle open.                                                *)
TypeOK ==
  /\ c.stdin_ \in Seq(Words) /\ c.buffered_ \in Seq(Words \cup {Enter})
  /\ \A s \in DOMAIN c.history_ : c.history_[s] \in Seq(Words) /\ c.history_[s] # <<>>
  /\ Len(c.history_) <= MaxHistory /\ c.historyPosition_ \in -1..Len(c.history_)-1
  /\ \A j \in DOMAIN c.jobs : c.jobs[j].open >= 0 /\ (c.jobs[j].todo = <<>> => c.jobs[j].open = 0)

(* When the shell takes input no command is at work, and when it holds it  *)
(* back one is, whether commands succeed, fail with or without a promise   *)
(* to say so, or are interrupted; only a dialog may be left.               *)
PromptMeansIdle ==
  ~c.exited_ => (c.holdInput_ <=> \E j \in DOMAIN c.jobs : c.jobs[j].listening \/ c.jobs[j].cmd = "complete"
                                       \/ ~Dialog(c.jobs[j]))

(* The shell comes back to its prompt, or waits for the user to choose a   *)
(* file.                                                                   *)
PromptComesBack ==
  []<>(~c.holdInput_ \/ c.exited_ \/ \E j \in DOMAIN c.jobs : c.jobs[j].listening /\ Dialog(c.jobs[j]))

=============================================================================

--------------------------- MODULE Files_proofs ---------------------------
(***************************************************************************)
(* Proofs about the parts of MCFiles.                                      *)
(*                                                                         *)
(* First the command of a page, for any number of reconnections: what an   *)
(* end of it finds and leaves.  The invariant (CommandInv) says for every  *)
(* await the connection can be at what has been set up so far: which       *)
(* programs can live (Programs), what of a mount there is (Mounting), what *)
(* takes the keys (KeysGo), and what an exit has undone (Ending).  A       *)
(* command that exits is shown, in one lemma for all callers of exit(), to *)
(* be sound again (Exits).                                                 *)
(*                                                                         *)
(* Then the nasftp shell, for any words, any length of its history and any *)
(* number of keys: when it takes input no command is at work.  What is     *)
(* missing from PromptMeansIdle is that one command at most is at work and *)
(* what is left beside it are dialogs of puts given up (OneAtWork).  The   *)
(* loop of onInput_ keeps that by induction on the characters it takes     *)
(* (Drain), and every command, however it ends, goes back to that loop.    *)
(*                                                                         *)
(* Then the SFTP client, for files, chunks and replies of any size and any *)
(* number of transfers and other requests at once.  The invariant          *)
(* (SftpInv) says that what is on the way makes whole packets, of requests *)
(* that wait for them and with replies the server may give (OnTheWire);    *)
(* that a transfer has one request to read at most, also among the         *)
(* promises whose handlers have not run (Alone), which asks for what is    *)
(* read next (AllFit); and that what its callbacks were given ends there   *)
(* (Transfer).                                                             *)
(*                                                                         *)
(* Last the provider's invariant, for files of any size, directories with  *)
(* any entries and any number of requests at once, and what its handlers   *)
(* do to it; the handlers are in Handles_proofs.  The invariant (Orderly)  *)
(* says of each operation what it holds, has told and has copied at the    *)
(* stage it is at (Local), that what it waits for is on the way, for a     *)
(* copy which chunks are being read and which written (Waits), and how it  *)
(* stands to the directory it is an entry of (Parents); of what is on the  *)
(* way that it is sent on its own handle, in an order in which no handle   *)
(* is closed too soon (WireOwned, WireFits, WireOrder); and of the         *)
(* server's handles that each is known to who will have it closed          *)
(* (Accounted).  Orderly(t, I) says it of all operations but those of I,   *)
(* which are about to go on: a handler takes a request (Take), changes the *)
(* operation (Change), sends what is next (Post) or lets new operations    *)
(* begin (Arrive), and the operation is orderly again (PutDown).           *)
(***************************************************************************)
EXTENDS MCFiles, QueueLemmas, FiniteSetTheorems

-----------------------------------------------------------------------------
(* The command of a page: the awaits of a connection, and what can be      *)
(* running or take the keys at each.                                       *)
Before == {"profile", "username", "relay", "certs", "policy", "bootstrap", "mosh", "load"}
Awaits == Before \cup {"sftp", "up", "none", "stuck", "gone"}
Lives == {"running", "prompting", "exiting", "ended"}
Takers == {"none", "tty", "input", "dialog"}
Commands == [connecting : Awaits, exited_ : BOOLEAN, program_ : Nat, programs : Seq(Lives), isMount : BOOLEAN,
             unload : BOOLEAN, dialog : {"none", "reconnect", "connectOrExit"}, told : Nat, io : Seq(Takers),
             connections : 1..MaxConnections, mounting : BOOLEAN, mounts_ : BOOLEAN, mounted : BOOLEAN, unmounts : BOOLEAN,
             late : BOOLEAN]

(* What an exit has undone, and how often the end was told. *)
Ending(t) ==
  /\ t.told <= 1 /\ (~t.exited_ \/ t.dialog # "none" => t.told = 0)
  /\ t.dialog # "none" => t.exited_
  /\ t.connecting \in Before => ~t.exited_
  /\ t.exited_ => t.program_ = 0 /\ (t.unload => app = "mosh") /\ (t.mounts_ => t.late)

(* What of a mount there is at which await. *)
Mounting(t) ==
  /\ t.isMount => app \in {"mount", "api"} /\ t.dialog = "none"
  /\ app = "api" => t.isMount
  /\ app = "mount" /\ t.connecting \in {"relay", "username", "certs", "policy", "load", "sftp"} => t.isMount
  /\ t.connecting = "sftp" => app \in {"sftp", "mount", "api"}
  /\ t.mounting \/ t.mounts_ \/ t.unmounts => t.isMount /\ t.connecting = "up"
  /\ t.mounting => ~t.mounts_ /\ ~t.unmounts
  /\ t.mounted = t.mounts_

(* The program that lives is the one the command knows of. *)
Programs(t) ==
  /\ t.connecting \in Before \cup {"none", "stuck"} => t.program_ = 0
  /\ t.connecting \in {"bootstrap", "mosh"} => app = "mosh"
  /\ t.connecting \in {"sftp", "up"} /\ ~t.exited_ => t.program_ # 0
  /\ t.program_ <= Len(t.programs)
  /\ \A p \in 1..Len(t.programs) : t.programs[p] # "ended" =>
       /\ ~t.exited_
       /\ IF t.connecting = "mosh" THEN p = Len(t.programs) ELSE p = t.program_
       /\ t.programs[p] = "prompting" => app = "api" \/ ~(app \in {"sftp", "mount", "api"} /\ t.connecting = "up")

(* What is shown takes the keys. *)
Prompting(t) == \E p \in 1..Len(t.programs) : t.programs[p] = "prompting"
KeysGo(t) ==
  /\ app = "api" => Len(t.io) = IF t.connecting = "username" THEN 2 ELSE 1
  /\ app # "api" =>
    /\ \A p \in 1..Len(t.programs) : t.programs[p] # "ended" => t.io[1] = "tty"
    /\ \/ Len(t.io) = 1 /\ t.dialog = "none" /\ t.connecting # "username" /\ ~Prompting(t)
       \/ Len(t.io) = 2 /\ t.io[2] = "dialog" /\ t.dialog # "none" /\ t.connecting # "username" /\ ~Prompting(t)
       \/ Len(t.io) = 2 /\ t.io[2] = "input" /\ t.dialog = "none" /\ (t.connecting = "username" \/ Prompting(t))

Sound(t) == Ending(t) /\ Mounting(t) /\ Programs(t) /\ KeysGo(t)

CommandInv ==
  /\ app \in Command!Apps /\ s \in Commands /\ s.told <= 1 /\ s.program_ <= Len(s.programs) /\ s.io # <<>>
  /\ s.exited_ => (s.unload => app = "mosh") /\ (s.mounts_ \/ s.mounted => s.late)
  /\ Command!Here => Sound(s)

(* The fields of a command that has exited. *)
LEMMA TerminateIs ==
  ASSUME NEW t \in Commands, t.program_ <= Len(t.programs), NEW u, u = Command!Terminate(t)
  PROVE  /\ u \in Commands /\ u.program_ = 0
         /\ u.programs \in Seq(Lives) /\ Len(u.programs) = Len(t.programs)
         /\ \A p \in 1..Len(t.programs) : u.programs[p] = IF p = t.program_ THEN "ended" ELSE t.programs[p]
         /\ u.connecting = t.connecting /\ u.exited_ = t.exited_ /\ u.isMount = t.isMount /\ u.unload = t.unload
         /\ u.dialog = t.dialog /\ u.told = t.told /\ u.io = t.io /\ u.connections = t.connections
         /\ u.mounting = t.mounting /\ u.mounts_ = t.mounts_ /\ u.mounted = t.mounted /\ u.unmounts = t.unmounts
         /\ u.late = t.late
<1>1. t.program_ \in Nat /\ t.programs \in Seq(Lives) /\ "ended" \in Lives
  BY DEF Commands, Lives
<1>2. CASE t.program_ = 0
  BY <1>1, <1>2 DEF Command!Terminate
<1>3. CASE t.program_ # 0
  <2> DEFINE q == [t.programs EXCEPT ![t.program_] = "ended"]
  <2>1. /\ q \in Seq(Lives) /\ Len(q) = Len(t.programs)
        /\ \A p \in 1..Len(t.programs) : q[p] = IF p = t.program_ THEN "ended" ELSE t.programs[p]
    BY <1>1, <1>3
  <2>2. u = [t EXCEPT !.programs = q, !.program_ = 0]
    BY <1>3 DEF Command!Terminate
  <2> HIDE DEF q
  <2>3. u \in Commands
    <3> DEFINE w == [t EXCEPT !.programs = q]
    <3>1. w \in Commands
      BY <2>1 DEF Commands
    <3>2. u = [w EXCEPT !.program_ = 0]
      BY <2>2
    <3> HIDE DEF w
    <3>3. [w EXCEPT !.program_ = 0] \in Commands
      BY <3>1 DEF Commands
    <3> QED  BY <3>2, <3>3
  <2>4. u.program_ = 0 /\ u.programs = q
    BY <2>2 DEF Commands
  <2>5. /\ u.connecting = t.connecting /\ u.exited_ = t.exited_ /\ u.isMount = t.isMount /\ u.unload = t.unload
        /\ u.dialog = t.dialog /\ u.told = t.told /\ u.io = t.io /\ u.connections = t.connections
        /\ u.mounting = t.mounting /\ u.mounts_ = t.mounts_ /\ u.mounted = t.mounted /\ u.unmounts = t.unmounts
        /\ u.late = t.late
    BY <2>2 DEF Commands
  <2> QED  BY <2>1, <2>3, <2>4, <2>5
<1> QED  BY <1>2, <1>3

(* What the exit of a command finds: it has not exited, what lives is its  *)
(* own program, and no prompt or dialog is on the terminal.                *)
Exits(t, await) ==
  /\ t \in Commands /\ ~t.exited_ /\ t.told = 0 /\ t.dialog = "none"
  /\ t.program_ <= Len(t.programs) /\ \A p \in 1..Len(t.programs) : t.programs[p] # "ended" => p = t.program_
  /\ Len(t.io) = 1
  /\ (app = "api" => t.isMount) /\ (t.isMount => app \in {"mount", "api"})
  /\ await \in {"none", "stuck", "sftp", "up"}
  /\ await = "sftp" => app \in {"sftp", "mount", "api"} /\ (app = "mount" => t.isMount)
  /\ t.mounting \/ t.mounts_ \/ t.unmounts => t.isMount /\ await = "up"
  /\ (t.mounting => ~t.mounts_ /\ ~t.unmounts) /\ t.mounted = t.mounts_

(* What exit() makes of it. *)
LEMMA ExitIs ==
  ASSUME NEW t, NEW dialog \in {"reconnect", "connectOrExit"}, NEW await, Exits(t, await),
         NEW u, u = Command!Exit(t, dialog)
  PROVE  /\ u \in Commands /\ u.exited_ /\ ~u.unload /\ u.program_ = 0 /\ u.isMount = t.isMount
         /\ Len(u.programs) = Len(t.programs) /\ (\A p \in 1..Len(t.programs) : u.programs[p] = "ended")
         /\ u.connecting = t.connecting /\ u.mounting = t.mounting /\ u.unmounts = t.unmounts
         /\ u.mounts_ = u.mounted /\ ~u.mounts_
         /\ IF t.isMount THEN u.io = t.io /\ u.dialog = "none" /\ u.told = 1
            ELSE u.io = Append(t.io, "dialog") /\ u.dialog = dialog /\ u.told = 0
<1>1. /\ t \in Commands /\ ~t.exited_ /\ t.program_ <= Len(t.programs) /\ t.told = 0 /\ t.mounted = t.mounts_
      /\ t.programs \in Seq(Lives) /\ t.io \in Seq(Takers) /\ t.isMount \in BOOLEAN
      /\ t.mounts_ => t.isMount
  BY DEF Exits, Commands, Awaits
<1> DEFINE v == [t EXCEPT !.exited_ = TRUE, !.unload = FALSE]
           e == Command!Terminate(v)
<1>2. v \in Commands /\ v.program_ <= Len(v.programs) /\ v.program_ = t.program_ /\ v.programs = t.programs
  BY <1>1 DEF Commands
<1>3. /\ e \in Commands /\ e.program_ = 0
      /\ e.programs \in Seq(Lives) /\ Len(e.programs) = Len(v.programs)
      /\ \A p \in 1..Len(v.programs) : e.programs[p] = IF p = v.program_ THEN "ended" ELSE v.programs[p]
      /\ e.connecting = v.connecting /\ e.exited_ = v.exited_ /\ e.isMount = v.isMount /\ e.unload = v.unload
      /\ e.dialog = v.dialog /\ e.told = v.told /\ e.io = v.io
      /\ e.mounting = v.mounting /\ e.mounts_ = v.mounts_ /\ e.mounted = v.mounted /\ e.unmounts = v.unmounts
  <2> HIDE DEF v
  <2> QED  BY <1>2, TerminateIs
<1>4. /\ e \in Commands /\ e.program_ = 0
      /\ e.programs \in Seq(Lives) /\ Len(e.programs) = Len(t.programs)
      /\ \A p \in 1..Len(t.programs) : e.programs[p] = "ended"
      /\ e.connecting = t.connecting /\ e.exited_ /\ e.isMount = t.isMount /\ ~e.unload
      /\ e.dialog = "none" /\ e.told = 0 /\ e.io = t.io
      /\ e.mounting = t.mounting /\ e.mounts_ = t.mounts_ /\ e.mounted = t.mounts_ /\ e.unmounts = t.unmounts
  <2>1. /\ v.connecting = t.connecting /\ v.exited_ /\ v.isMount = t.isMount /\ ~v.unload /\ v.dialog = t.dialog /\ v.told = t.told /\ v.io = t.io
        /\ v.mounting = t.mounting /\ v.mounts_ = t.mounts_ /\ v.mounted = t.mounted /\ v.unmounts = t.unmounts
    BY <1>1 DEF Commands
  <2> HIDE DEF e, v
  <2> QED  BY <1>1, <1>2, <1>3, <2>1 DEF Exits
<1>5. u = IF t.isMount THEN Command!OnExit(Command!RemoveMount(e))
          ELSE Command!Push([e EXCEPT !.dialog = dialog], "dialog")
  BY <1>1 DEF Command!Exit
<1> HIDE DEF e, v
<1>6. /\ u \in Commands /\ u.exited_ /\ ~u.unload /\ u.program_ = 0 /\ u.programs = e.programs /\ u.isMount = t.isMount
      /\ u.connecting = t.connecting /\ u.mounting = t.mounting /\ u.unmounts = t.unmounts /\ u.mounts_ = u.mounted /\ ~u.mounts_
      /\ IF t.isMount THEN u.io = t.io /\ u.dialog = "none" /\ u.told = 1
         ELSE u.io = Append(t.io, "dialog") /\ u.dialog = dialog /\ u.told = 0
  <2>1. CASE t.isMount
    <3> DEFINE w == [e EXCEPT !.mounts_ = FALSE, !.mounted = FALSE]
               o == [w EXCEPT !.told = w.told + 1]
    <3>1. u = o
      BY <1>5, <2>1 DEF Command!OnExit, Command!RemoveMount
    <3>2. /\ w \in Commands /\ w.mounts_ = FALSE /\ w.mounted = FALSE /\ w.told = 0
          /\ w.exited_ /\ ~w.unload /\ w.program_ = 0 /\ w.programs = e.programs /\ w.isMount = t.isMount
          /\ w.mounting = t.mounting /\ w.unmounts = t.unmounts /\ w.io = t.io /\ w.dialog = "none" /\ w.connecting = t.connecting
      <4>1. w \in Commands
        BY <1>4 DEF Commands
      <4>2. w.mounts_ = FALSE /\ w.mounted = FALSE /\ w.told = 0
        BY <1>4 DEF Commands
      <4> QED  BY <1>4, <4>1, <4>2 DEF Commands
    <3> HIDE DEF w
    <3>3. /\ o \in Commands /\ o.mounts_ = FALSE /\ o.mounted = FALSE /\ o.told = 1
          /\ o.exited_ /\ ~o.unload /\ o.program_ = 0 /\ o.programs = e.programs /\ o.isMount = t.isMount
          /\ o.mounting = t.mounting /\ o.unmounts = t.unmounts /\ o.io = t.io /\ o.dialog = "none" /\ o.connecting = t.connecting
      BY <3>2 DEF Commands
    <3> HIDE DEF o
    <3>4. /\ u \in Commands /\ u.connecting = t.connecting /\ u.mounts_ = FALSE /\ u.mounted = FALSE /\ u.told = 1
          /\ u.exited_ /\ ~u.unload /\ u.program_ = 0 /\ u.programs = e.programs /\ u.isMount = t.isMount
          /\ u.mounting = t.mounting /\ u.unmounts = t.unmounts /\ u.io = t.io /\ u.dialog = "none"
      BY <1>1, <3>1, <3>3 DEF Commands
    <3> QED  BY <2>1, <3>4
  <2>2. CASE ~t.isMount
    <3>1. Append(t.io, "dialog") \in Seq(Takers) /\ e.io = t.io
      BY <1>1, <1>4 DEF Takers
    <3>2. u = [[e EXCEPT !.dialog = dialog] EXCEPT !.io = Append(t.io, "dialog")]
      BY <1>4, <1>5, <2>2 DEF Command!Push, Commands
    <3>3. u \in Commands
      BY <1>1, <1>4, <3>1, <3>2 DEF Commands
    <3>4. u.connecting = t.connecting /\ u.io = Append(t.io, "dialog") /\ u.dialog = dialog
      BY <1>4, <3>2 DEF Commands
    <3>5. /\ u.exited_ /\ ~u.unload /\ u.program_ = 0 /\ u.programs = e.programs /\ u.isMount = t.isMount
          /\ u.mounting = t.mounting /\ u.unmounts = t.unmounts /\ u.told = 0
          /\ u.mounts_ = t.mounts_ /\ u.mounted = t.mounts_
      BY <1>4, <3>2 DEF Commands
    <3> QED  BY <1>1, <2>2, <3>3, <3>4, <3>5
  <2> QED  BY <2>1, <2>2
<1> QED  BY <1>4, <1>6

(* The command of a connection that exits is sound in the await it is in. *)
LEMMA ExitSound ==
  ASSUME NEW t, NEW dialog \in {"reconnect", "connectOrExit"}, NEW await, Exits(t, await), app \in Command!Apps,
         NEW u, u = Command!At(Command!Exit(t, dialog), await)
  PROVE  u \in Commands /\ Sound(u) /\ u.exited_ /\ ~u.mounts_ /\ ~u.mounted
<1> DEFINE x == Command!Exit(t, dialog)
<1>1. /\ t.programs \in Seq(Lives) /\ t.io \in Seq(Takers) /\ await \in Awaits /\ t.isMount \in BOOLEAN
      /\ t.program_ <= Len(t.programs)
  BY DEF Exits, Commands, Awaits
<1>2. /\ x \in Commands /\ x.exited_ /\ ~x.unload /\ x.program_ = 0 /\ x.isMount = t.isMount
      /\ Len(x.programs) = Len(t.programs) /\ (\A p \in 1..Len(t.programs) : x.programs[p] = "ended")
      /\ x.connecting = t.connecting /\ x.mounting = t.mounting /\ x.unmounts = t.unmounts
      /\ x.mounts_ = x.mounted /\ ~x.mounts_
      /\ IF t.isMount THEN x.io = t.io /\ x.dialog = "none" /\ x.told = 1
         ELSE x.io = Append(t.io, "dialog") /\ x.dialog = dialog /\ x.told = 0
  <2> HIDE DEF x
  <2> SUFFICES x = Command!Exit(t, dialog)
    BY ExitIs
  <2> QED  BY DEF x
<1>3. u = [x EXCEPT !.connecting = await]
  BY DEF Command!At
<1> HIDE DEF x
<1>4. u \in Commands
  BY <1>1, <1>2, <1>3 DEF Commands
<1>5. /\ u.connecting = await /\ u.mounting = x.mounting /\ u.unmounts = x.unmounts /\ u.mounts_ = x.mounts_
      /\ u.mounted = x.mounted /\ u.exited_ = x.exited_ /\ u.unload = x.unload /\ u.program_ = x.program_
      /\ u.isMount = x.isMount /\ u.programs = x.programs /\ u.io = x.io /\ u.dialog = x.dialog /\ u.told = x.told
  BY <1>2, <1>3 DEF Commands
<1>6. /\ u \in Commands /\ u.exited_ /\ ~u.unload /\ u.program_ = 0 /\ u.isMount = t.isMount
      /\ Len(u.programs) = Len(t.programs) /\ (\A p \in 1..Len(u.programs) : u.programs[p] = "ended")
      /\ u.connecting = await /\ u.mounting = t.mounting /\ u.unmounts = t.unmounts
      /\ u.mounts_ = u.mounted /\ ~u.mounts_
      /\ IF t.isMount THEN u.io = t.io /\ u.dialog = "none" /\ u.told = 1
         ELSE u.io = Append(t.io, "dialog") /\ u.dialog = dialog /\ u.told = 0
  BY <1>2, <1>4, <1>5
<1>7. Ending(u) /\ Mounting(u)
  BY <1>1, <1>6 DEF Ending, Mounting, Exits, Before
<1>8. Programs(u)
  BY <1>1, <1>6 DEF Programs, Exits, Before
<1>9. KeysGo(u)
  <2>1. \A p \in 1..Len(u.programs) : u.programs[p] = "ended"
    BY <1>6
  <2>2. ~Prompting(u)
    BY <2>1 DEF Prompting
  <2>3. Len(t.io) = 1 /\ u.connecting # "username"
    BY <1>6 DEF Exits
  <2>4. CASE app # "api" /\ t.isMount
    BY <1>1, <1>6, <2>1, <2>2, <2>3, <2>4 DEF KeysGo
  <2>5. CASE app # "api" /\ ~t.isMount
    <3>1. Len(u.io) = 2 /\ u.io[2] = "dialog" /\ u.dialog # "none"
      <4>1. t.io \in Seq(Takers) /\ Len(t.io) = 1 /\ u.io = Append(t.io, "dialog") /\ u.dialog = dialog
        BY <1>1, <1>6, <2>3, <2>5
      <4> QED  BY <4>1
    <3> QED  BY <2>1, <2>2, <2>3, <2>5, <3>1 DEF KeysGo
  <2>6. CASE app = "api"
    BY <1>1, <1>6, <2>3, <2>6 DEF KeysGo, Exits
  <2> QED  BY <1>1, <2>4, <2>5, <2>6
<1> QED  BY <1>6, <1>7, <1>8, <1>9 DEF Sound

LEMMA NotEmpty ==
  \A q : Len(q) \in {1, 2} => q # <<>>
<1>1. Len(<<>>) = 0
  OBVIOUS
<1> QED  BY <1>1

(* It stays in the await it was in. *)
LEMMA ExitStays ==
  ASSUME NEW t, NEW dialog \in {"reconnect", "connectOrExit"}, Exits(t, t.connecting), app \in Command!Apps,
         NEW u, u = Command!Exit(t, dialog)
  PROVE  u \in Commands /\ Sound(u) /\ u.exited_ /\ ~u.mounts_ /\ ~u.mounted /\ u.connecting = t.connecting
<1> DEFINE x == Command!Exit(t, dialog)
<1>1. u \in Commands /\ u.connecting = t.connecting
  BY ExitIs
<1>2. u = Command!At(u, t.connecting)
  BY <1>1 DEF Command!At, Commands
<1> QED  BY <1>1, <1>2, ExitSound

(* A step to a sound command keeps the invariant. *)
LEMMA BecomesSound ==
  ASSUME NEW t \in Commands, app \in Command!Apps, Sound(t), Command!Becomes(t)
  PROVE  CommandInv'
<1>1. s' = t /\ app' = app
  BY DEF Command!Becomes
<1>2. t.told <= 1 /\ (t.exited_ => (t.unload => app = "mosh") /\ (t.mounts_ \/ t.mounted => t.late))
  BY DEF Sound, Ending, Mounting, Commands
<1>3. Sound(s)'
  BY <1>1 DEF Sound, Ending, Mounting, Programs, KeysGo, Prompting
<1>4. t.program_ <= Len(t.programs) /\ t.io # <<>>
  <2>1. Len(t.io) \in {1, 2} /\ t.program_ <= Len(t.programs)
    BY DEF Sound, Programs, KeysGo
  <2> QED  BY <2>1, NotEmpty
<1> QED  BY <1>1, <1>2, <1>3, <1>4 DEF CommandInv

(* A page that goes away. *)
LEMMA BecomesGone ==
  ASSUME NEW t \in Commands, app \in Command!Apps, Sound(t), Command!Becomes(Command!At(t, "gone"))
  PROVE  CommandInv'
<1>1. s' = [t EXCEPT !.connecting = "gone"] /\ app' = app
  BY DEF Command!Becomes, Command!At
<1>2. t.told <= 1 /\ (t.exited_ => (t.unload => app = "mosh") /\ (t.mounts_ \/ t.mounted => t.late))
  BY DEF Sound, Ending, Mounting, Commands
<1>3. s' \in Commands /\ s'.connecting = "gone"
  BY <1>1 DEF Commands, Awaits
<1>4. s'.program_ <= Len(s'.programs) /\ s'.io # <<>>
  <2>1. Len(t.io) \in {1, 2} /\ t.program_ <= Len(t.programs)
    BY DEF Sound, Programs, KeysGo
  <2>2. s'.io = t.io /\ s'.program_ = t.program_ /\ s'.programs = t.programs
    BY <1>1 DEF Commands
  <2> QED  BY <2>1, <2>2, NotEmpty
<1> QED  BY <1>1, <1>2, <1>3, <1>4 DEF CommandInv, Command!Here, Commands

(* A connection goes from one await to the next. *)
LEMMA MoveSound ==
  ASSUME NEW t \in Commands, app \in Command!Apps, Sound(t),
         t.connecting \in {"profile", "relay", "certs", "policy", "bootstrap", "load"},
         NEW await \in {"relay", "certs", "policy", "bootstrap", "load", "stuck"},
         await = "bootstrap" => app = "mosh", app = "mount" /\ await # "stuck" => t.isMount
  PROVE  Command!At(t, await) \in Commands /\ Sound(Command!At(t, await))
<1> DEFINE u == [t EXCEPT !.connecting = await]
<1>1. /\ u \in Commands /\ u.connecting = await /\ u.exited_ = t.exited_ /\ u.dialog = t.dialog /\ u.told = t.told
      /\ u.program_ = t.program_ /\ u.programs = t.programs /\ u.isMount = t.isMount /\ u.unload = t.unload
      /\ u.mounting = t.mounting /\ u.mounts_ = t.mounts_ /\ u.mounted = t.mounted /\ u.unmounts = t.unmounts
      /\ u.late = t.late /\ u.io = t.io
  BY DEF Commands, Awaits, Before
<1>2. u = Command!At(t, await)
  BY DEF Command!At
<1> HIDE DEF u
<1>3. t.connecting \in Before /\ await \in Before \cup {"stuck"} /\ t.connecting \notin {"up", "username", "mosh"}
  BY DEF Before
<1>4. Ending(u) /\ Mounting(u)
  BY <1>1, <1>3 DEF Ending, Mounting, Sound
<1>5. Programs(u)
  <2>1. ~t.exited_ /\ t.program_ = 0 /\ t.program_ <= Len(t.programs)
    BY <1>3 DEF Ending, Sound, Programs
  <2>2. \A p \in 1..Len(t.programs) : t.programs[p] = "ended"
    BY <1>3, <2>1 DEF Sound, Programs, Commands
  <2> QED  BY <1>1, <1>3, <2>1, <2>2 DEF Programs
<1>6. KeysGo(u)
  BY <1>1, <1>3 DEF KeysGo, Sound, Prompting
<1> QED  BY <1>1, <1>2, <1>4, <1>5, <1>6 DEF Sound

LEMMA ByProfile ==
  ASSUME CommandInv, NEW username \in BOOLEAN, Command!OnProfile(username)
  PROVE  CommandInv'
<1> DEFINE t == [s EXCEPT !.isMount = s.isMount \/ app = "mount"]
<1>1. /\ s.connecting = "profile" /\ Command!Here /\ app \in Command!Apps /\ s \in Commands
      /\ IF username THEN Command!Becomes(Command!At(t, "relay"))
         ELSE Command!Becomes(Command!At(Command!Push(t, "input"), "username"))
  BY DEF Command!OnProfile, Command!Awaiting, Command!Becomes, CommandInv
<1>2. Sound(s)
  BY <1>1 DEF CommandInv
<1>3. /\ t \in Commands /\ t.connecting = "profile" /\ t.exited_ = s.exited_ /\ t.dialog = s.dialog /\ t.told = s.told
      /\ t.program_ = s.program_ /\ t.programs = s.programs /\ t.isMount = (s.isMount \/ app = "mount")
      /\ t.unload = s.unload
      /\ t.mounting = s.mounting /\ t.mounts_ = s.mounts_ /\ t.mounted = s.mounted /\ t.unmounts = s.unmounts
      /\ t.late = s.late /\ t.io = s.io
  BY <1>1 DEF Commands
<1> HIDE DEF t
<1>4. Ending(t) /\ Mounting(t) /\ Programs(t) /\ KeysGo(t)
  <2>1. Ending(t)
    BY <1>1, <1>2, <1>3 DEF Ending, Sound
  <2>2. Mounting(t)
    BY <1>1, <1>2, <1>3 DEF Ending, Mounting, Sound, Before, Commands
  <2>3. Programs(t)
    BY <1>1, <1>2, <1>3 DEF Programs, Sound
  <2>4. KeysGo(t)
    BY <1>1, <1>2, <1>3 DEF KeysGo, Sound, Prompting
  <2> QED  BY <2>1, <2>2, <2>3, <2>4
<1>5. CASE username
  <2>1. Command!At(t, "relay") \in Commands /\ Sound(Command!At(t, "relay"))
    BY <1>1, <1>3, <1>4, MoveSound DEF Sound
  <2> QED  BY <1>1, <1>5, <2>1, BecomesSound
<1>6. CASE ~username
  <2> DEFINE u == Command!At(Command!Push(t, "input"), "username")
  <2>1. t.io \in Seq(Takers) /\ Append(t.io, "input") \in Seq(Takers) /\ Len(Append(t.io, "input")) = Len(t.io) + 1
    BY <1>3 DEF Commands, Takers
  <2>2. /\ u \in Commands /\ u.connecting = "username" /\ u.exited_ = t.exited_ /\ u.dialog = t.dialog /\ u.told = t.told
        /\ u.program_ = t.program_ /\ u.programs = t.programs /\ u.isMount = t.isMount /\ u.unload = t.unload
        /\ u.mounting = t.mounting /\ u.mounts_ = t.mounts_ /\ u.mounted = t.mounted /\ u.unmounts = t.unmounts
        /\ u.late = t.late /\ u.io = Append(t.io, "input")
    <3> DEFINE w == [t EXCEPT !.io = Append(t.io, "input")]
    <3>1. w \in Commands
      BY <1>3, <2>1 DEF Commands
    <3>2. u = [w EXCEPT !.connecting = "username"]
      BY <1>3 DEF Command!At, Command!Push
    <3>3. /\ w.exited_ = t.exited_ /\ w.dialog = t.dialog /\ w.told = t.told
          /\ w.program_ = t.program_ /\ w.programs = t.programs /\ w.isMount = t.isMount /\ w.unload = t.unload
          /\ w.mounting = t.mounting /\ w.mounts_ = t.mounts_ /\ w.mounted = t.mounted /\ w.unmounts = t.unmounts
          /\ w.late = t.late /\ w.io = Append(t.io, "input")
      BY <1>3 DEF Commands
    <3> HIDE DEF w, u
    <3> QED  BY <3>1, <3>2, <3>3 DEF Commands, Awaits, Before
  <2> HIDE DEF u
  <2>3. Ending(u) /\ Mounting(u)
    BY <1>3, <1>4, <2>2 DEF Ending, Mounting, Before
  <2>4. Programs(u)
    BY <1>3, <1>4, <2>2 DEF Programs, Before
  <2>5. KeysGo(u)
    <3>1. ~Prompting(u) /\ u.dialog = "none"
      BY <1>1, <1>3, <1>4, <2>2 DEF Prompting, Programs, Ending, Before, Commands
    <3>2. Len(u.io) = 2 /\ u.io[2] = "input"
      <4>1. Len(t.io) = 1
        BY <1>3, <1>4, <2>2, <3>1 DEF KeysGo, Prompting
      <4> QED  BY <2>1, <2>2, <4>1
    <3>3. \A p \in 1..Len(u.programs) : u.programs[p] = "ended"
      BY <1>3, <1>4, <2>2 DEF Programs, Before, Ending, Commands
    <3> QED  BY <2>2, <3>1, <3>2, <3>3 DEF KeysGo
  <2> QED  BY <1>1, <1>6, <2>2, <2>3, <2>4, <2>5, BecomesSound DEF Sound, u
<1> QED  BY <1>5, <1>6

(* A connection that has no program yet fails. *)
LEMMA BySetUpFails ==
  ASSUME CommandInv, s.connecting \in {"profile", "relay", "certs"}, Command!Becomes(Command!Fail(s))
  PROVE  CommandInv'
<1>1. /\ s \in Commands /\ app \in Command!Apps /\ Sound(s) /\ ~s.exited_ /\ s.connecting \in Before
      /\ s.connecting \notin {"up", "username", "mosh"}
  BY DEF CommandInv, Command!Becomes, Command!Here, Ending, Sound, Before
<1>2. \A p \in 1..Len(s.programs) : s.programs[p] = "ended"
  BY <1>1 DEF Sound, Programs, Commands
<1>3. Exits(s, "none")
  <2>1. s.dialog = "none" /\ s.told = 0 /\ s.program_ <= Len(s.programs)
    BY <1>1 DEF Sound, Ending, Programs, Commands
  <2>2. Len(s.io) = 1
    BY <1>1, <1>2, <2>1 DEF Sound, KeysGo, Prompting
  <2> QED  BY <1>1, <1>2, <2>1, <2>2 DEF Exits, Sound, Mounting
<1>4. /\ Command!At(Command!Exit(s, "connectOrExit"), "none") \in Commands
      /\ Sound(Command!At(Command!Exit(s, "connectOrExit"), "none"))
  BY <1>1, <1>3, ExitSound
<1> QED  BY <1>1, <1>4, BecomesSound DEF Command!Fail

LEMMA ByUsername ==
  ASSUME CommandInv, Command!EnterUsername
  PROVE  CommandInv'
<1> DEFINE u == Command!At(Command!Pop(s), "relay")
           w == [s EXCEPT !.io = Command!Front(s.io)]
<1>1. /\ s.connecting = "username" /\ s \in Commands /\ app \in Command!Apps /\ Sound(s) /\ ~s.exited_
      /\ s.connecting \in Before /\ s.connecting \notin {"up", "mosh"} /\ Command!Becomes(u)
  BY DEF Command!EnterUsername, Command!Awaiting, CommandInv, Command!Becomes, Command!Here, Ending, Sound, Before
<1>2. s.dialog = "none" /\ \A p \in 1..Len(s.programs) : s.programs[p] = "ended"
  BY <1>1 DEF Sound, Programs, Commands, Ending
<1>3. Len(s.io) = 2
  BY <1>1, <1>2 DEF Sound, KeysGo, Prompting
<1>4. Command!Front(s.io) \in Seq(Takers) /\ Len(Command!Front(s.io)) = 1
  BY <1>1, <1>3 DEF Command!Front, Commands
<1>5. /\ w \in Commands
      /\ w.exited_ = s.exited_ /\ w.dialog = s.dialog /\ w.told = s.told
      /\ w.program_ = s.program_ /\ w.programs = s.programs /\ w.isMount = s.isMount /\ w.unload = s.unload
      /\ w.mounting = s.mounting /\ w.mounts_ = s.mounts_ /\ w.mounted = s.mounted /\ w.unmounts = s.unmounts
      /\ w.late = s.late /\ w.io = Command!Front(s.io)
  BY <1>1, <1>4 DEF Commands
<1>6. u = [w EXCEPT !.connecting = "relay"]
  BY DEF Command!At, Command!Pop
<1> HIDE DEF w
<1>7. /\ u \in Commands /\ u.connecting = "relay"
      /\ u.exited_ = s.exited_ /\ u.dialog = s.dialog /\ u.told = s.told
      /\ u.program_ = s.program_ /\ u.programs = s.programs /\ u.isMount = s.isMount /\ u.unload = s.unload
      /\ u.mounting = s.mounting /\ u.mounts_ = s.mounts_ /\ u.mounted = s.mounted /\ u.unmounts = s.unmounts
      /\ u.late = s.late /\ Len(u.io) = 1
  BY <1>4, <1>5, <1>6 DEF Commands, Awaits, Before
<1> HIDE DEF u
<1>8. Ending(u) /\ Mounting(u)
  BY <1>1, <1>7 DEF Sound, Ending, Mounting, Before
<1>9. Programs(u)
  BY <1>1, <1>2, <1>7 DEF Sound, Programs, Before
<1>10. KeysGo(u)
  BY <1>2, <1>7 DEF KeysGo, Prompting
<1> QED  BY <1>1, <1>7, <1>8, <1>9, <1>10, BecomesSound DEF Sound

(* The awaits of a relay, of certificates and of the policy. *)
LEMMA ByAwaits ==
  ASSUME CommandInv,
         \/ Command!OnRelay \/ Command!RelayThrows \/ Command!OnCertificates \/ Command!OnPolicy \/ Command!LoadThrows
  PROVE  CommandInv'
<1>1. PICK await : /\ await \in {"certs", "policy", "bootstrap", "load", "stuck"} /\ Command!Becomes(Command!At(s, await))
                   /\ s.connecting \in {"relay", "certs", "policy", "bootstrap", "load"}
                   /\ (await = "bootstrap" => app = "mosh")
                   /\ (await # "stuck" => s.connecting \in {"relay", "certs", "policy"})
  BY DEF Command!OnRelay, Command!RelayThrows, Command!OnCertificates, Command!OnPolicy, Command!LoadThrows, Command!Awaiting
<1>2. Sound(s) /\ s \in Commands /\ app \in Command!Apps
  BY <1>1 DEF CommandInv, Command!Becomes
<1>3. app = "mount" /\ await # "stuck" => s.isMount
  BY <1>1, <1>2 DEF Sound, Mounting, Commands
<1>4. Command!At(s, await) \in Commands /\ Sound(Command!At(s, await))
  BY <1>1, <1>2, <1>3, MoveSound
<1> QED  BY <1>1, <1>2, <1>4, BecomesSound

(* A program starts: the ssh that mosh begins with, or the command's own. *)
LEMMA ByNewProgram ==
  ASSUME CommandInv, Command!OnBootstrap \/ Command!OnLoad
  PROVE  CommandInv'
<1> DEFINE t == Command!NewProgram(s)
           own == s.connecting = "load"
           w == IF own THEN [t EXCEPT !.program_ = Len(t.programs), !.unload = TRUE] ELSE t
           await == IF own THEN IF Command!IsSftp THEN "sftp" ELSE "up" ELSE "mosh"
           u == Command!At(w, await)
<1>1. /\ s.connecting \in {"bootstrap", "load"} /\ s \in Commands /\ app \in Command!Apps /\ Sound(s) /\ ~s.exited_
      /\ s.connecting \in Before /\ s.connecting \notin {"up", "mosh", "username"} /\ Command!Becomes(u)
  BY DEF Command!OnBootstrap, Command!OnLoad, Command!Awaiting, CommandInv, Command!Becomes, Command!Here,
         Ending, Sound, Before
<1>2. /\ s.dialog = "none" /\ s.program_ = 0 /\ s.told = 0 /\ \A p \in 1..Len(s.programs) : s.programs[p] = "ended"
  BY <1>1 DEF Sound, Programs, Commands, Ending
<1>3. Len(s.io) = 1
  BY <1>1, <1>2 DEF Sound, KeysGo, Prompting
<1> DEFINE q == Append(s.programs, "running")
           io == IF app = "api" THEN s.io ELSE Append(Command!Front(s.io), "tty")
<1>4. /\ q \in Seq(Lives) /\ Len(q) = Len(s.programs) + 1 /\ q[Len(q)] = "running" /\ Len(q) \in Nat
      /\ \A p \in 1..Len(s.programs) : q[p] = s.programs[p]
  BY <1>1 DEF Commands, Lives
<1>5. io \in Seq(Takers) /\ Len(io) = 1 /\ (app # "api" => io[1] = "tty")
  <2>1. Command!Front(s.io) \in Seq(Takers) /\ Len(Command!Front(s.io)) = 0 /\ "tty" \in Takers
    BY <1>1, <1>3 DEF Command!Front, Commands, Takers
  <2> HIDE DEF Command!Front
  <2> QED  BY <1>1, <1>3, <2>1 DEF Commands
<1> HIDE DEF q, io
<1>6. /\ t \in Commands /\ t.programs = q /\ t.io = io
      /\ t.exited_ = s.exited_ /\ t.dialog = s.dialog /\ t.told = s.told
      /\ t.program_ = 0 /\ t.isMount = s.isMount /\ t.unload = s.unload
      /\ t.mounting = s.mounting /\ t.mounts_ = s.mounts_ /\ t.mounted = s.mounted /\ t.unmounts = s.unmounts
      /\ t.late = s.late
  <2>1. t = [s EXCEPT !.programs = q, !.io = io]
    BY <1>1 DEF Command!NewProgram, q, io, Commands
  <2> HIDE DEF t
  <2> QED  BY <1>1, <1>2, <1>4, <1>5, <2>1 DEF Commands
<1> HIDE DEF t
<1>7. /\ w \in Commands /\ w.programs = q /\ w.io = io
      /\ w.exited_ = s.exited_ /\ w.dialog = s.dialog /\ w.told = s.told
      /\ w.isMount = s.isMount /\ w.program_ = IF own THEN Len(q) ELSE 0
      /\ w.mounting = s.mounting /\ w.mounts_ = s.mounts_ /\ w.mounted = s.mounted /\ w.unmounts = s.unmounts
      /\ w.late = s.late
  <2>1. CASE own
    BY <1>4, <1>6, <2>1 DEF Commands
  <2>2. CASE ~own
    BY <1>6, <2>2
  <2> QED  BY <2>1, <2>2
<1>8. await \in {"sftp", "up", "mosh"} /\ await \in Awaits
  BY DEF Awaits, Before
<1> HIDE DEF w
<1>9. /\ u \in Commands /\ u.programs = q /\ u.io = io /\ u.connecting = await
      /\ u.exited_ = s.exited_ /\ u.dialog = s.dialog /\ u.told = s.told
      /\ u.isMount = s.isMount /\ u.program_ = IF own THEN Len(q) ELSE 0
      /\ u.mounting = s.mounting /\ u.mounts_ = s.mounts_ /\ u.mounted = s.mounted /\ u.unmounts = s.unmounts
      /\ u.late = s.late
  <2>1. u = [w EXCEPT !.connecting = await]
    BY DEF Command!At
  <2> HIDE DEF u, await
  <2> QED  BY <1>7, <1>8, <2>1 DEF Commands
<1> HIDE DEF u
<1>10. Ending(u)
  BY <1>1, <1>2, <1>9 DEF Ending
<1>11. Mounting(u)
  BY <1>1, <1>2, <1>9 DEF Mounting, Sound, Programs, Command!IsSftp
<1>12. Programs(u)
  <2>1. own \/ app = "mosh"
    BY <1>1 DEF Sound, Programs
  <2>2. \A p \in 1..Len(q) : q[p] # "ended" => p = Len(q) /\ q[p] = "running"
    BY <1>2, <1>4
  <2>3. u.program_ <= Len(u.programs) /\ (own => u.program_ # 0)
    BY <1>1, <1>4, <1>9 DEF Commands
  <2> QED  BY <1>1, <1>2, <1>4, <1>8, <1>9, <2>1, <2>2, <2>3 DEF Programs, Before
<1>13. KeysGo(u)
  <2>1. ~Prompting(u)
    BY <1>2, <1>4, <1>9 DEF Prompting
  <2>2. u.connecting # "username"
    BY <1>8, <1>9
  <2> QED  BY <1>2, <1>5, <1>9, <2>1, <2>2 DEF KeysGo
<1> QED  BY <1>1, <1>9, <1>10, <1>11, <1>12, <1>13, BecomesSound DEF Sound

LEMMA PushIs ==
  ASSUME NEW io \in Seq(Takers), Len(io) = 1, NEW taker \in Takers
  PROVE  /\ Append(io, taker) \in Seq(Takers) /\ Append(io, taker)[1] = io[1]
         /\ Len(Append(io, taker)) = 2 /\ Append(io, taker)[2] = taker
<1>1. Append(io, taker) \in Seq(Takers)
  OBVIOUS
<1>2. Len(Append(io, taker)) = 2
  OBVIOUS
<1>3. Append(io, taker)[2] = taker
  BY AppendProperties
<1>4. Append(io, taker)[1] = io[1]
  <2>1. 1 \in 1..Len(io)
    OBVIOUS
  <2> QED  BY <2>1
<1> QED  BY <1>1, <1>2, <1>3, <1>4

(* One of the programs of a command changes. *)
LEMMA ProgramSet ==
  ASSUME NEW t \in Commands, NEW p \in 1..Len(t.programs), NEW life \in Lives,
         NEW u, u = [t EXCEPT !.programs[p] = life]
  PROVE  /\ u \in Commands /\ u.programs \in Seq(Lives) /\ Len(u.programs) = Len(t.programs)
         /\ \A r \in 1..Len(t.programs) : u.programs[r] = IF r = p THEN life ELSE t.programs[r]
         /\ u.connecting = t.connecting /\ u.exited_ = t.exited_ /\ u.program_ = t.program_ /\ u.isMount = t.isMount
         /\ u.unload = t.unload /\ u.dialog = t.dialog /\ u.told = t.told /\ u.io = t.io
         /\ u.mounting = t.mounting /\ u.mounts_ = t.mounts_ /\ u.mounted = t.mounted /\ u.unmounts = t.unmounts
         /\ u.late = t.late
<1> DEFINE q == [t.programs EXCEPT ![p] = life]
<1>1. t.programs \in Seq(Lives)
  BY DEF Commands
<1>2. /\ q \in Seq(Lives) /\ Len(q) = Len(t.programs)
      /\ \A r \in 1..Len(t.programs) : q[r] = IF r = p THEN life ELSE t.programs[r]
  BY <1>1
<1>3. u = [t EXCEPT !.programs = q]
  OBVIOUS
<1> HIDE DEF q
<1>4. u \in Commands /\ u.programs = q
  BY <1>2, <1>3 DEF Commands
<1>5. /\ u.connecting = t.connecting /\ u.exited_ = t.exited_ /\ u.program_ = t.program_ /\ u.isMount = t.isMount
      /\ u.unload = t.unload /\ u.dialog = t.dialog /\ u.told = t.told /\ u.io = t.io
      /\ u.mounting = t.mounting /\ u.mounts_ = t.mounts_ /\ u.mounted = t.mounted /\ u.unmounts = t.unmounts
      /\ u.late = t.late
  BY <1>3 DEF Commands
<1> QED  BY <1>2, <1>4, <1>5

(* What a program that lives shows of its command. *)
LEMMA LivesIs ==
  ASSUME NEW t \in Commands, Sound(t), t.connecting # "gone",
         NEW p \in 1..Len(t.programs), t.programs[p] # "ended"
  PROVE  /\ ~t.exited_ /\ t.dialog = "none" /\ t.told = 0 /\ t.connecting \in {"mosh", "sftp", "up"}
         /\ (t.connecting = "mosh" => app = "mosh" /\ t.program_ = 0 /\ p = Len(t.programs))
         /\ (t.connecting # "mosh" => p = t.program_)
         /\ \A r \in 1..Len(t.programs) : t.programs[r] # "ended" => r = p
         /\ (Prompting(t) <=> t.programs[p] = "prompting")
<1>1. ~t.exited_ /\ IF t.connecting = "mosh" THEN p = Len(t.programs) ELSE p = t.program_
  BY DEF Sound, Programs
<1>2. t.connecting \in {"mosh", "sftp", "up"}
  BY <1>1 DEF Sound, Programs, Commands, Awaits, Before
<1>3. \A r \in 1..Len(t.programs) : t.programs[r] # "ended" => r = p
  BY <1>1 DEF Sound, Programs
<1>4. t.connecting = "mosh" => app = "mosh" /\ t.program_ = 0
  BY DEF Sound, Programs, Before
<1>5. t.dialog = "none" /\ t.told = 0
  BY <1>1 DEF Sound, Ending, Commands
<1>6. Prompting(t) <=> t.programs[p] = "prompting"
  BY <1>3 DEF Prompting
<1> QED  BY <1>1, <1>2, <1>3, <1>4, <1>5, <1>6

(* A program changes, and what takes the keys with it. *)
LEMMA ProgramSound ==
  ASSUME NEW t \in Commands, Sound(t), t.connecting # "gone",
         NEW p \in 1..Len(t.programs), t.programs[p] # "ended", NEW life \in Lives, NEW io \in Seq(Takers),
         life = "prompting" => app = "api" \/ ~(app \in {"sftp", "mount", "api"} /\ t.connecting = "up"),
         life # "ended", app = "api" => io = t.io,
         app # "api" => /\ io[1] = t.io[1]
                        /\ IF life = "prompting" THEN Len(io) = 2 /\ io[2] = "input" ELSE Len(io) = 1,
         NEW u, u = [[t EXCEPT !.programs[p] = life] EXCEPT !.io = io]
  PROVE  u \in Commands /\ Sound(u)
<1> DEFINE w == [t EXCEPT !.programs[p] = life]
<1>1. /\ w \in Commands /\ w.programs \in Seq(Lives) /\ Len(w.programs) = Len(t.programs)
      /\ \A r \in 1..Len(t.programs) : w.programs[r] = IF r = p THEN life ELSE t.programs[r]
      /\ w.connecting = t.connecting /\ w.exited_ = t.exited_ /\ w.program_ = t.program_ /\ w.isMount = t.isMount
      /\ w.unload = t.unload /\ w.dialog = t.dialog /\ w.told = t.told /\ w.io = t.io
      /\ w.mounting = t.mounting /\ w.mounts_ = t.mounts_ /\ w.mounted = t.mounted /\ w.unmounts = t.unmounts
      /\ w.late = t.late
  <2>1. w = [t EXCEPT !.programs[p] = life]
    OBVIOUS
  <2> HIDE DEF w
  <2>2. w \in Commands /\ w.programs \in Seq(Lives) /\ Len(w.programs) = Len(t.programs)
    <3>1. w \in Commands
      BY <2>1, ProgramSet
    <3>2. Len(w.programs) = Len(t.programs)
      BY <2>1, ProgramSet
    <3> QED  BY <3>1, <3>2 DEF Commands
  <2>3. \A r \in 1..Len(t.programs) : w.programs[r] = IF r = p THEN life ELSE t.programs[r]
    BY <2>1, ProgramSet
  <2>4. /\ w.connecting = t.connecting /\ w.exited_ = t.exited_ /\ w.program_ = t.program_ /\ w.isMount = t.isMount
        /\ w.unload = t.unload /\ w.dialog = t.dialog /\ w.told = t.told /\ w.io = t.io
        /\ w.mounting = t.mounting /\ w.mounts_ = t.mounts_ /\ w.mounted = t.mounted /\ w.unmounts = t.unmounts
        /\ w.late = t.late
    BY <2>1, ProgramSet
  <2> QED  BY <2>2, <2>3, <2>4
<1>2. u = [w EXCEPT !.io = io]
  OBVIOUS
<1> HIDE DEF w
<1>3. /\ u \in Commands /\ u.programs \in Seq(Lives) /\ Len(u.programs) = Len(t.programs)
      /\ \A r \in 1..Len(t.programs) : u.programs[r] = IF r = p THEN life ELSE t.programs[r]
      /\ u.connecting = t.connecting /\ u.exited_ = t.exited_ /\ u.program_ = t.program_ /\ u.isMount = t.isMount
      /\ u.unload = t.unload /\ u.dialog = t.dialog /\ u.told = t.told /\ u.io = io
      /\ u.mounting = t.mounting /\ u.mounts_ = t.mounts_ /\ u.mounted = t.mounted /\ u.unmounts = t.unmounts
      /\ u.late = t.late
  <2>1. u \in Commands /\ u.programs = w.programs /\ u.io = io
    BY <1>1, <1>2 DEF Commands
  <2>2. /\ u.connecting = w.connecting /\ u.exited_ = w.exited_ /\ u.program_ = w.program_ /\ u.isMount = w.isMount
        /\ u.unload = w.unload /\ u.dialog = w.dialog /\ u.told = w.told
        /\ u.mounting = w.mounting /\ u.mounts_ = w.mounts_ /\ u.mounted = w.mounted /\ u.unmounts = w.unmounts
        /\ u.late = w.late
    BY <1>1, <1>2 DEF Commands
  <2> QED  BY <1>1, <2>1, <2>2
<1>4. /\ ~t.exited_ /\ t.dialog = "none" /\ t.told = 0 /\ t.connecting \in {"mosh", "sftp", "up"}
      /\ (t.connecting = "mosh" => app = "mosh" /\ t.program_ = 0 /\ p = Len(t.programs))
      /\ (t.connecting # "mosh" => p = t.program_)
      /\ \A r \in 1..Len(t.programs) : t.programs[r] # "ended" => r = p
  BY LivesIs
<1>5. Ending(u)
  BY <1>3, <1>4 DEF Sound, Ending
<1>6. Mounting(u)
  BY <1>3 DEF Sound, Mounting
<1>7. Programs(u)
  BY <1>3, <1>4 DEF Sound, Programs
<1>8. KeysGo(u)
  <2>1. Prompting(u) <=> life = "prompting"
    BY <1>3, <1>4 DEF Prompting
  <2>2. app # "api" => t.io[1] = "tty"
    BY DEF Sound, KeysGo
  <2>3. app = "api" => Len(io) = 1
    BY <1>4 DEF Sound, KeysGo
  <2> QED  BY <1>3, <1>4, <2>1, <2>2, <2>3 DEF KeysGo
<1> QED  BY <1>3, <1>5, <1>6, <1>7, <1>8 DEF Sound

LEMMA ByPrompts ==
  ASSUME CommandInv, NEW p \in DOMAIN s.programs,
         \/ Command!Prompts(p) \/ Command!Answer(p) \/ Command!ProgramExits(p)
  PROVE  CommandInv'
<1>1. s \in Commands /\ app \in Command!Apps /\ Sound(s) /\ s.connecting # "gone" /\ s.programs[p] # "ended"
  BY DEF CommandInv, Command!Prompts, Command!Answer, Command!ProgramExits, Command!Becomes, Command!Here
<1>2. p \in 1..Len(s.programs) /\ s.io \in Seq(Takers)
  BY <1>1 DEF Commands
<1>3. /\ Prompting(s) <=> s.programs[p] = "prompting"
      /\ s.dialog = "none" /\ s.connecting # "username"
  BY <1>1, <1>2, LivesIs
<1>4. ASSUME s.programs[p] = "running"
      PROVE  Len(s.io) = 1
  BY <1>1, <1>3, <1>4 DEF Sound, KeysGo
<1>5. CASE Command!Prompts(p)
  <2> DEFINE io == IF app = "api" THEN s.io ELSE Append(s.io, "input")
             u == [[s EXCEPT !.programs[p] = "prompting"] EXCEPT !.io = io]
  <2>1. s.programs[p] = "running" /\ ~(app \in {"sftp", "mount", "api"} /\ s.connecting = "up")
    BY <1>5 DEF Command!Prompts, Command!IsSftp, Command!Awaiting
  <2>2. /\ io \in Seq(Takers) /\ (app = "api" => io = s.io)
        /\ (app # "api" => io[1] = s.io[1] /\ Len(io) = 2 /\ io[2] = "input")
    <3>1. "input" \in Takers /\ Len(s.io) = 1
      BY <1>4, <2>1 DEF Takers
    <3>2. /\ Append(s.io, "input") \in Seq(Takers) /\ Append(s.io, "input")[1] = s.io[1]
          /\ Len(Append(s.io, "input")) = 2 /\ Append(s.io, "input")[2] = "input"
      BY <1>2, <3>1, PushIs
    <3> QED  BY <1>2, <3>2
  <2>3. Command!Becomes(u)
    <3> DEFINE w == [s EXCEPT !.programs[p] = "prompting"]
    <3>1. w \in Commands /\ w.io = s.io
      <4> HIDE DEF w
      <4> SUFFICES w = [s EXCEPT !.programs[p] = "prompting"]
        BY <1>1, <1>2, ProgramSet DEF Lives
      <4> QED  BY DEF w
    <3>2. Command!Becomes(IF app = "api" THEN w ELSE Command!Push(w, "input"))
      BY <1>5 DEF Command!Prompts
    <3>3. u = [w EXCEPT !.io = io]
      OBVIOUS
    <3> HIDE DEF w, u
    <3>4. u = IF app = "api" THEN w ELSE Command!Push(w, "input")
      BY <3>1, <3>3 DEF Command!Push, Commands
    <3> QED  BY <3>2, <3>4
  <2>4. u \in Commands /\ Sound(u)
    <3> HIDE DEF io, u
    <3> SUFFICES u = [[s EXCEPT !.programs[p] = "prompting"] EXCEPT !.io = io]
      BY <1>1, <1>2, <2>1, <2>2, ProgramSound DEF Lives
    <3> QED  BY DEF u
  <2> HIDE DEF u
  <2> QED  BY <1>1, <2>3, <2>4, BecomesSound
<1>6. CASE Command!Answer(p)
  <2> DEFINE io == IF app = "api" THEN s.io ELSE Command!Front(s.io)
             u == [[s EXCEPT !.programs[p] = "running"] EXCEPT !.io = io]
  <2>1. s.programs[p] = "prompting"
    BY <1>6 DEF Command!Answer
  <2>2. /\ io \in Seq(Takers) /\ (app = "api" => io = s.io)
        /\ (app # "api" => io[1] = s.io[1] /\ Len(io) = 1)
    <3>1. app # "api" => Len(s.io) = 2
      BY <1>1, <1>3, <2>1 DEF Sound, KeysGo
    <3>2. Len(s.io) = 2 => /\ Command!Front(s.io) \in Seq(Takers) /\ Command!Front(s.io)[1] = s.io[1]
                           /\ Len(Command!Front(s.io)) = 1
      BY <1>2 DEF Command!Front
    <3> QED  BY <1>2, <3>1, <3>2
  <2>3. Command!Becomes(u)
    <3> DEFINE w == [s EXCEPT !.programs[p] = "running"]
    <3>1. w \in Commands /\ w.io = s.io
      <4> HIDE DEF w
      <4> SUFFICES w = [s EXCEPT !.programs[p] = "running"]
        BY <1>1, <1>2, ProgramSet DEF Lives
      <4> QED  BY DEF w
    <3>2. Command!Becomes(IF app = "api" THEN w ELSE Command!Pop(w))
      BY <1>6 DEF Command!Answer
    <3>3. u = [w EXCEPT !.io = io]
      OBVIOUS
    <3> HIDE DEF w, u
    <3>4. u = IF app = "api" THEN w ELSE Command!Pop(w)
      BY <3>1, <3>3 DEF Command!Pop, Commands
    <3> QED  BY <3>2, <3>4
  <2>4. u \in Commands /\ Sound(u)
    <3> HIDE DEF io, u
    <3> SUFFICES u = [[s EXCEPT !.programs[p] = "running"] EXCEPT !.io = io]
      BY <1>1, <1>2, <2>1, <2>2, ProgramSound DEF Lives
    <3> QED  BY DEF u
  <2> HIDE DEF u
  <2> QED  BY <1>1, <2>3, <2>4, BecomesSound
<1>7. CASE Command!ProgramExits(p)
  <2> DEFINE u == [[s EXCEPT !.programs[p] = "exiting"] EXCEPT !.io = s.io]
             w == [s EXCEPT !.programs[p] = "exiting"]
  <2>1. s.programs[p] = "running" /\ Command!Becomes(w)
    BY <1>7 DEF Command!ProgramExits
  <2>2. w \in Commands /\ w.io = s.io
    <3> HIDE DEF w
    <3> SUFFICES w = [s EXCEPT !.programs[p] = "exiting"]
      BY <1>1, <1>2, ProgramSet DEF Lives
    <3> QED  BY DEF w
  <2>3. u = [w EXCEPT !.io = s.io]
    OBVIOUS
  <2>4. u \in Commands /\ Sound(u)
    <3> HIDE DEF u
    <3> SUFFICES u = [[s EXCEPT !.programs[p] = "exiting"] EXCEPT !.io = s.io]
      BY <1>1, <1>2, <1>4, <2>1, ProgramSound DEF Lives
    <3> QED  BY DEF u
  <2> HIDE DEF u, w
  <2>5. u = w
    BY <2>2, <2>3 DEF Commands
  <2> QED  BY <1>1, <2>1, <2>4, <2>5, BecomesSound
<1> QED  BY <1>5, <1>6, <1>7

(* The end of a program. *)
LEMMA ByExitMessage ==
  ASSUME CommandInv, NEW p \in DOMAIN s.programs, NEW parses \in BOOLEAN, Command!OnExitMessage(p, parses)
  PROVE  CommandInv'
<1> DEFINE t == [s EXCEPT !.programs[p] = "ended"]
<1>1. s \in Commands /\ app \in Command!Apps /\ Sound(s) /\ s.connecting # "gone" /\ s.programs[p] = "exiting"
  BY DEF CommandInv, Command!OnExitMessage, Command!Becomes, Command!Here
<1>2. p \in 1..Len(s.programs) /\ s.io \in Seq(Takers) /\ "ended" \in Lives
  BY <1>1 DEF Commands, Lives
<1>3. Command!Becomes(CASE p = s.program_ -> Command!Exit(t, "reconnect")
                        [] p # s.program_ /\ parses -> Command!At(t, "load")
                        [] p # s.program_ /\ ~parses ->
                             Command!At([Command!Exit(t, "reconnect") EXCEPT !.unload = TRUE], "stuck"))
  BY DEF Command!OnExitMessage
<1>4. /\ ~s.exited_ /\ s.dialog = "none" /\ s.told = 0 /\ s.connecting \in {"mosh", "sftp", "up"}
      /\ (s.connecting = "mosh" => app = "mosh" /\ s.program_ = 0 /\ p = Len(s.programs))
      /\ (s.connecting # "mosh" => p = s.program_)
      /\ \A r \in 1..Len(s.programs) : s.programs[r] # "ended" => r = p
      /\ (Prompting(s) <=> s.programs[p] = "prompting")
  BY <1>1, <1>2, LivesIs
<1>5. Len(s.io) = 1
  BY <1>1, <1>4 DEF Sound, KeysGo
<1>6. t = [s EXCEPT !.programs[p] = "ended"]
  OBVIOUS
<1> HIDE DEF t
<1>7. t \in Commands /\ Len(t.programs) = Len(s.programs)
  BY <1>1, <1>2, <1>6, ProgramSet
<1>8. \A r \in 1..Len(s.programs) : t.programs[r] = IF r = p THEN "ended" ELSE s.programs[r]
  BY <1>1, <1>2, <1>6, ProgramSet
<1>9. /\ t.connecting = s.connecting /\ t.exited_ = s.exited_ /\ t.program_ = s.program_ /\ t.isMount = s.isMount
      /\ t.unload = s.unload /\ t.dialog = s.dialog /\ t.told = s.told /\ t.io = s.io
      /\ t.mounting = s.mounting /\ t.mounts_ = s.mounts_ /\ t.mounted = s.mounted /\ t.unmounts = s.unmounts
      /\ t.late = s.late
  BY <1>1, <1>2, <1>6, ProgramSet
<1>10. \A r \in 1..Len(t.programs) : t.programs[r] = "ended"
  BY <1>4, <1>7, <1>8
<1>11. s.program_ <= Len(s.programs)
  BY <1>1 DEF Sound, Programs
<1>12. CASE p = s.program_
  <2>1. s.connecting # "mosh"
    BY <1>2, <1>4, <1>12
  <2>2. Exits(t, t.connecting)
    BY <1>1, <1>4, <1>5, <1>7, <1>9, <1>10, <1>11, <2>1 DEF Exits, Sound, Mounting
  <2>3. Command!Exit(t, "reconnect") \in Commands /\ Sound(Command!Exit(t, "reconnect"))
    BY <1>1, <2>2, ExitStays
  <2>4. Command!Becomes(Command!Exit(t, "reconnect"))
    BY <1>3, <1>12
  <2> QED  BY <1>1, <2>3, <2>4, BecomesSound
<1>13. CASE p # s.program_ /\ parses
  <2> DEFINE u == [t EXCEPT !.connecting = "load"]
  <2>1. s.connecting = "mosh" /\ app = "mosh"
    BY <1>4, <1>13
  <2>2. /\ u \in Commands /\ u.programs = t.programs /\ u.io = s.io /\ u.connecting = "load" /\ u.exited_ = s.exited_
        /\ u.program_ = s.program_ /\ u.isMount = s.isMount /\ u.unload = s.unload /\ u.dialog = s.dialog
        /\ u.told = s.told /\ u.mounting = s.mounting /\ u.mounts_ = s.mounts_ /\ u.mounted = s.mounted
        /\ u.unmounts = s.unmounts /\ u.late = s.late
    BY <1>7, <1>9 DEF Commands, Awaits, Before
  <2>3. Command!Becomes(u)
    BY <1>3, <1>13 DEF Command!At
  <2> HIDE DEF u
  <2>4. Ending(u) /\ Mounting(u)
    BY <1>1, <1>4, <2>1, <2>2 DEF Sound, Ending, Mounting
  <2>5. Programs(u)
    BY <1>4, <1>7, <1>10, <1>11, <2>1, <2>2 DEF Programs
  <2>6. KeysGo(u)
    BY <1>4, <1>5, <1>10, <2>2 DEF KeysGo, Prompting
  <2> QED  BY <1>1, <2>2, <2>3, <2>4, <2>5, <2>6, BecomesSound DEF Sound
<1>14. CASE p # s.program_ /\ ~parses
  <2> DEFINE x == Command!Exit(t, "reconnect")
             y == Command!At(x, "stuck")
             u == [y EXCEPT !.unload = TRUE]
  <2>1. s.connecting = "mosh" /\ app = "mosh" /\ s.program_ = 0
    BY <1>4, <1>14
  <2>2. Exits(t, "stuck")
    BY <1>1, <1>4, <1>5, <1>7, <1>9, <1>10, <1>11, <2>1 DEF Exits, Sound, Mounting
  <2>3. x \in Commands
    BY <2>2, ExitIs
  <2>4. y \in Commands /\ Sound(y) /\ y.exited_
    BY <1>1, <2>2, ExitSound
  <2>5. Command!Becomes(u)
    <3>1. Command!Becomes(Command!At([x EXCEPT !.unload = TRUE], "stuck"))
      BY <1>3, <1>14
    <3> HIDE DEF x
    <3>2. Command!At([x EXCEPT !.unload = TRUE], "stuck") = u
      BY <2>3 DEF Command!At, Commands
    <3> QED  BY <3>1, <3>2
  <2> HIDE DEF x, y
  <2>6. /\ u \in Commands /\ u.programs = y.programs /\ u.io = y.io /\ u.connecting = y.connecting
        /\ u.exited_ = y.exited_ /\ u.program_ = y.program_ /\ u.isMount = y.isMount /\ u.dialog = y.dialog
        /\ u.told = y.told /\ u.mounting = y.mounting /\ u.mounts_ = y.mounts_ /\ u.mounted = y.mounted
        /\ u.unmounts = y.unmounts /\ u.late = y.late
    BY <2>4 DEF Commands
  <2> HIDE DEF u
  <2>7. Ending(u) /\ Mounting(u)
    BY <2>1, <2>4, <2>6 DEF Sound, Ending, Mounting
  <2>8. Programs(u) /\ KeysGo(u)
    BY <2>4, <2>6 DEF Sound, Programs, KeysGo, Prompting
  <2> QED  BY <1>1, <2>5, <2>6, <2>7, <2>8, BecomesSound DEF Sound
<1> QED  BY <1>12, <1>13, <1>14

(* The SFTP client of a command. *)
LEMMA BySftp ==
  ASSUME CommandInv, Command!OnSftpInitialised
  PROVE  CommandInv'
<1> DEFINE w == [s EXCEPT !.mounting = app # "sftp"]
           u == Command!At(w, "up")
<1>1. /\ s \in Commands /\ app \in Command!Apps /\ Sound(s) /\ s.connecting = "sftp" /\ s.program_ # 0
      /\ s.programs[s.program_] = "running" /\ Command!Becomes(u)
  BY DEF CommandInv, Command!OnSftpInitialised, Command!Becomes, Command!Here, Command!Talks, Command!Awaiting
<1>2. s.program_ \in 1..Len(s.programs)
  BY <1>1 DEF Sound, Programs, Commands
<1>3. /\ ~s.exited_ /\ s.dialog = "none" /\ s.told = 0
      /\ \A r \in 1..Len(s.programs) : s.programs[r] # "ended" => r = s.program_
      /\ ~Prompting(s)
  BY <1>1, <1>2, LivesIs
<1>4. app \in {"sftp", "mount", "api"} /\ (app # "sftp" => s.isMount)
  BY <1>1 DEF Sound, Mounting
<1>5. /\ w \in Commands /\ w.programs = s.programs /\ w.io = s.io
      /\ w.exited_ = s.exited_ /\ w.program_ = s.program_ /\ w.isMount = s.isMount /\ w.dialog = s.dialog
      /\ w.told = s.told /\ w.mounting = (app # "sftp") /\ w.mounts_ = s.mounts_ /\ w.mounted = s.mounted
      /\ w.unmounts = s.unmounts /\ w.late = s.late
  BY <1>1 DEF Commands
<1>6. u = [w EXCEPT !.connecting = "up"]
  BY DEF Command!At
<1> HIDE DEF w
<1>7. /\ u \in Commands /\ u.programs = s.programs /\ u.io = s.io /\ u.connecting = "up"
      /\ u.exited_ = s.exited_ /\ u.program_ = s.program_ /\ u.isMount = s.isMount /\ u.dialog = s.dialog
      /\ u.told = s.told /\ u.mounting = (app # "sftp") /\ u.mounts_ = s.mounts_ /\ u.mounted = s.mounted
      /\ u.unmounts = s.unmounts /\ u.late = s.late
  BY <1>5, <1>6 DEF Commands, Awaits
<1> HIDE DEF u
<1>8. Ending(u)
  BY <1>3, <1>7 DEF Ending, Before
<1>9. Mounting(u)
  BY <1>1, <1>4, <1>7 DEF Sound, Mounting
<1>10. Programs(u)
  BY <1>1, <1>2, <1>3, <1>7 DEF Sound, Programs, Before
<1>11. KeysGo(u)
  BY <1>1, <1>3, <1>7 DEF Sound, KeysGo, Prompting
<1> QED  BY <1>1, <1>7, <1>8, <1>9, <1>10, <1>11, BecomesSound DEF Sound

LEMMA BySftpFails ==
  ASSUME CommandInv, Command!SftpFails
  PROVE  CommandInv'
<1>1. /\ s \in Commands /\ app \in Command!Apps /\ Sound(s) /\ s.connecting = "sftp" /\ s.program_ # 0
      /\ s.programs[s.program_] = "running" /\ Command!Becomes(Command!At(Command!Exit(s, "connectOrExit"), "none"))
  BY DEF CommandInv, Command!SftpFails, Command!Becomes, Command!Here, Command!Talks, Command!Awaiting, Command!Fail
<1>2. s.program_ \in 1..Len(s.programs)
  BY <1>1 DEF Sound, Programs, Commands
<1>3. /\ ~s.exited_ /\ s.dialog = "none" /\ s.told = 0
      /\ \A r \in 1..Len(s.programs) : s.programs[r] # "ended" => r = s.program_
      /\ ~Prompting(s)
  BY <1>1, <1>2, LivesIs
<1>4. Len(s.io) = 1
  BY <1>1, <1>3 DEF Sound, KeysGo
<1>5. Exits(s, "none")
  BY <1>1, <1>2, <1>3, <1>4 DEF Exits, Sound, Mounting
<1> QED  BY <1>1, <1>5, ExitSound, BecomesSound

LEMMA ByCli ==
  ASSUME CommandInv, Command!CliQuits
  PROVE  CommandInv'
<1>1. /\ s \in Commands /\ app \in Command!Apps /\ Sound(s) /\ s.connecting = "up" /\ app = "sftp" /\ ~s.exited_
      /\ Command!Becomes(Command!Exit(s, "reconnect"))
  BY DEF CommandInv, Command!CliQuits, Command!Becomes, Command!Here, Command!Awaiting
<1>2. ~Prompting(s) /\ s.dialog = "none" /\ s.told = 0
  BY <1>1 DEF Prompting, Sound, Ending, Programs, Commands
<1>3. Len(s.io) = 1
  BY <1>1, <1>2 DEF Sound, KeysGo
<1>4. Exits(s, s.connecting)
  BY <1>1, <1>2, <1>3 DEF Exits, Sound, Mounting, Programs
<1> QED  BY <1>1, <1>4, ExitStays, BecomesSound

(* The mount that Chrome makes, or does not. *)
LEMMA ByMount ==
  ASSUME CommandInv, Command!OnMount
  PROVE  CommandInv'
<1> DEFINE late == s.late \/ s.exited_
           unmounts == s.unmounts \/ app = "mount"
           w == [s EXCEPT !.mounting = FALSE, !.mounts_ = TRUE, !.mounted = TRUE]
           u == [w EXCEPT !.late = late, !.unmounts = unmounts]
<1>1. /\ s \in Commands /\ app \in Command!Apps /\ Sound(s) /\ s.connecting # "gone" /\ s.mounting
      /\ Command!Becomes([s EXCEPT !.mounting = FALSE, !.mounts_ = TRUE, !.mounted = TRUE, !.late = late,
                                   !.unmounts = unmounts])
  BY DEF CommandInv, Command!OnMount, Command!Becomes, Command!Here
<1>2. late \in BOOLEAN /\ unmounts \in BOOLEAN /\ (s.exited_ => late)
  BY <1>1 DEF Commands
<1>3. Command!Becomes(u)
  BY <1>1
<1> HIDE DEF late, unmounts
<1>4. /\ w \in Commands /\ w.programs = s.programs /\ w.io = s.io /\ w.connecting = s.connecting
      /\ w.exited_ = s.exited_ /\ w.program_ = s.program_ /\ w.isMount = s.isMount /\ w.dialog = s.dialog
      /\ w.told = s.told /\ w.unload = s.unload /\ w.mounting = FALSE /\ w.mounts_ = TRUE /\ w.mounted = TRUE
  BY <1>1 DEF Commands
<1> HIDE DEF w
<1>5. /\ u \in Commands /\ u.programs = s.programs /\ u.io = s.io /\ u.connecting = s.connecting
      /\ u.exited_ = s.exited_ /\ u.program_ = s.program_ /\ u.isMount = s.isMount /\ u.dialog = s.dialog
      /\ u.told = s.told /\ u.unload = s.unload /\ u.mounting = FALSE /\ u.mounts_ = TRUE /\ u.mounted = TRUE
      /\ u.late = late
  BY <1>2, <1>4 DEF Commands
<1> HIDE DEF u
<1>6. Ending(u) /\ Mounting(u)
  BY <1>1, <1>2, <1>5 DEF Sound, Ending, Mounting
<1>7. Programs(u) /\ KeysGo(u)
  BY <1>1, <1>5 DEF Sound, Programs, KeysGo, Prompting
<1> QED  BY <1>1, <1>3, <1>5, <1>6, <1>7, BecomesSound DEF Sound

LEMMA ByMountFails ==
  ASSUME CommandInv, Command!MountFails
  PROVE  CommandInv'
<1> DEFINE t == [s EXCEPT !.mounting = FALSE]
           v == [t EXCEPT !.isMount = FALSE]
           w == Command!Terminate(v)
<1>1. /\ s \in Commands /\ app \in Command!Apps /\ Sound(s) /\ s.connecting # "gone" /\ s.mounting
      /\ Command!Becomes(IF app = "api" THEN t ELSE IF s.program_ = 0 THEN v ELSE Command!Exit(w, "reconnect"))
  BY DEF CommandInv, Command!MountFails, Command!Becomes, Command!Here
<1>2. /\ s.connecting = "up" /\ s.isMount /\ app \in {"mount", "api"} /\ ~s.mounts_ /\ ~s.unmounts /\ s.mounted = s.mounts_
      /\ s.program_ <= Len(s.programs) /\ s.dialog = "none"
  BY <1>1 DEF Sound, Mounting, Programs
<1>3. /\ t \in Commands /\ t.programs = s.programs /\ t.io = s.io /\ t.connecting = "up"
      /\ t.exited_ = s.exited_ /\ t.program_ = s.program_ /\ t.isMount = s.isMount /\ t.dialog = s.dialog
      /\ t.told = s.told /\ t.unload = s.unload /\ t.mounting = FALSE /\ t.mounts_ = s.mounts_ /\ t.mounted = s.mounted
      /\ t.unmounts = s.unmounts /\ t.late = s.late
  BY <1>1, <1>2 DEF Commands
<1> HIDE DEF t
<1>4. Ending(t) /\ Mounting(t) /\ Programs(t) /\ KeysGo(t)
  <2>1. Ending(t)
    BY <1>1, <1>2, <1>3 DEF Sound, Ending
  <2>2. Mounting(t)
    BY <1>1, <1>2, <1>3 DEF Sound, Mounting
  <2>3. Programs(t)
    BY <1>1, <1>2, <1>3 DEF Sound, Programs
  <2>4. KeysGo(t)
    BY <1>1, <1>2, <1>3 DEF Sound, KeysGo, Prompting
  <2> QED  BY <2>1, <2>2, <2>3, <2>4
<1>5. /\ v \in Commands /\ v.programs = s.programs /\ v.io = s.io /\ v.connecting = "up"
      /\ v.exited_ = s.exited_ /\ v.program_ = s.program_ /\ v.isMount = FALSE /\ v.dialog = s.dialog
      /\ v.told = s.told /\ v.unload = s.unload /\ v.mounting = FALSE /\ v.mounts_ = s.mounts_ /\ v.mounted = s.mounted
      /\ v.unmounts = s.unmounts /\ v.late = s.late
  BY <1>3 DEF Commands
<1> HIDE DEF v
<1>6. CASE app = "api"
  BY <1>1, <1>3, <1>4, <1>6, BecomesSound DEF Sound
<1>7. CASE app # "api" /\ s.program_ = 0
  <2>1. Ending(v) /\ Mounting(v)
    BY <1>1, <1>2, <1>4, <1>5, <1>7 DEF Sound, Ending, Mounting
  <2>2. Programs(v) /\ KeysGo(v)
    BY <1>1, <1>2, <1>5 DEF Sound, Programs, KeysGo, Prompting
  <2> QED  BY <1>1, <1>5, <1>7, <2>1, <2>2, BecomesSound DEF Sound
<1>8. CASE app # "api" /\ s.program_ # 0
  <2>1. app = "mount" /\ ~s.exited_ /\ s.told = 0
    BY <1>1, <1>2, <1>8 DEF Sound, Ending, Commands
  <2>2. ~Prompting(s)
    BY <1>1, <1>2, <2>1 DEF Sound, Programs, Prompting
  <2>3. Len(s.io) = 1
    BY <1>1, <1>2, <2>1, <2>2 DEF Sound, KeysGo
  <2>4. w = Command!Terminate(v)
    OBVIOUS
  <2> HIDE DEF w
  <2>5. w \in Commands /\ w.program_ = 0 /\ Len(w.programs) = Len(s.programs)
    BY <1>2, <1>5, <2>4, TerminateIs
  <2>6. \A p \in 1..Len(s.programs) : w.programs[p] = IF p = s.program_ THEN "ended" ELSE s.programs[p]
    BY <1>2, <1>5, <2>4, TerminateIs
  <2>7. /\ w.connecting = v.connecting /\ w.exited_ = v.exited_ /\ w.isMount = v.isMount
        /\ w.dialog = v.dialog /\ w.told = v.told /\ w.io = v.io
        /\ w.mounting = v.mounting /\ w.mounts_ = v.mounts_ /\ w.mounted = v.mounted /\ w.unmounts = v.unmounts
    BY <1>2, <1>5, <2>4, TerminateIs
  <2>8. \A p \in 1..Len(w.programs) : w.programs[p] = "ended"
    BY <1>1, <1>2, <2>5, <2>6 DEF Sound, Programs
  <2>9. Exits(w, w.connecting)
    <3>1. /\ w.connecting = "up" /\ ~w.exited_ /\ w.isMount = FALSE /\ w.dialog = "none" /\ w.told = 0 /\ Len(w.io) = 1
          /\ w.mounting = FALSE /\ ~w.mounts_ /\ ~w.unmounts /\ w.mounted = w.mounts_
      BY <1>2, <1>5, <2>1, <2>3, <2>7
    <3>2. 0 <= Len(w.programs)
      BY <2>5 DEF Commands
    <3> QED  BY <2>1, <2>5, <2>8, <3>1, <3>2 DEF Exits
  <2>10. Command!Exit(w, "reconnect") \in Commands /\ Sound(Command!Exit(w, "reconnect"))
    BY <1>1, <2>9, ExitStays
  <2> QED  BY <1>1, <1>8, <2>10, BecomesSound
<1> QED  BY <1>6, <1>7, <1>8

(* The file system goes. *)
LEMMA UnmountIs ==
  ASSUME CommandInv, Command!Here, NEW u, u = Command!UnmountRequested(s)
  PROVE  u \in Commands /\ Sound(u) /\ u.connecting = s.connecting
<1> DEFINE t == IF s.mounts_ THEN Command!Exit(s, "connectOrExit") ELSE s
           w == [t EXCEPT !.mounts_ = FALSE]
<1>1. s \in Commands /\ app \in Command!Apps /\ Sound(s)
  BY DEF CommandInv
<1>2. t \in Commands /\ Sound(t) /\ t.connecting = s.connecting
  <2>1. CASE s.mounts_ /\ ~s.exited_
    <3>1. s.connecting = "up" /\ s.isMount /\ app \in {"mount", "api"} /\ s.mounted = s.mounts_ /\ ~s.mounting
      BY <1>1, <2>1 DEF Sound, Mounting
    <3>2. s.told = 0 /\ s.dialog = "none" /\ s.program_ <= Len(s.programs)
      BY <1>1, <2>1 DEF Sound, Ending, Commands, Programs
    <3>3. Len(s.io) = 1
      BY <1>1, <3>1, <3>2 DEF Sound, KeysGo, Prompting, Programs
    <3>4. Exits(s, s.connecting)
      BY <1>1, <2>1, <3>1, <3>2, <3>3 DEF Exits, Sound, Mounting, Programs
    <3> QED  BY <1>1, <2>1, <3>4, ExitStays
  <2>2. CASE s.mounts_ /\ s.exited_
    BY <1>1, <2>2 DEF Command!Exit
  <2>3. CASE ~s.mounts_
    BY <1>1, <2>3
  <2> QED  BY <2>1, <2>2, <2>3
<1>3. u = [w EXCEPT !.mounted = FALSE]
  BY DEF Command!UnmountRequested, Command!RemoveMount
<1> HIDE DEF t
<1>4. /\ w \in Commands /\ w.programs = t.programs /\ w.io = t.io /\ w.connecting = t.connecting
      /\ w.exited_ = t.exited_ /\ w.program_ = t.program_ /\ w.isMount = t.isMount /\ w.dialog = t.dialog
      /\ w.told = t.told /\ w.unload = t.unload /\ w.mounting = t.mounting /\ w.mounts_ = FALSE
      /\ w.unmounts = t.unmounts /\ w.late = t.late
  BY <1>2 DEF Commands
<1> HIDE DEF w
<1>5. /\ u \in Commands /\ u.programs = t.programs /\ u.io = t.io /\ u.connecting = t.connecting
      /\ u.exited_ = t.exited_ /\ u.program_ = t.program_ /\ u.isMount = t.isMount /\ u.dialog = t.dialog
      /\ u.told = t.told /\ u.unload = t.unload /\ u.mounting = t.mounting /\ u.mounts_ = FALSE /\ u.mounted = FALSE
      /\ u.unmounts = t.unmounts /\ u.late = t.late
  BY <1>3, <1>4 DEF Commands
<1>6. Ending(u) /\ Mounting(u)
  BY <1>2, <1>5 DEF Sound, Ending, Mounting
<1>7. Programs(u) /\ KeysGo(u)
  BY <1>2, <1>5 DEF Sound, Programs, KeysGo, Prompting
<1> QED  BY <1>2, <1>5, <1>6, <1>7 DEF Sound

LEMMA ByUnmounts ==
  ASSUME CommandInv, Command!FilesUnmounts
  PROVE  CommandInv'
<1>1. Command!Here /\ app \in Command!Apps /\ Command!Becomes(Command!UnmountRequested(s))
  BY DEF CommandInv, Command!FilesUnmounts, Command!Becomes
<1>2. Command!UnmountRequested(s) \in Commands /\ Sound(Command!UnmountRequested(s))
  BY <1>1, UnmountIs
<1> QED  BY <1>1, <1>2, BecomesSound

LEMMA ByUnload ==
  ASSUME CommandInv, NEW stays \in BOOLEAN, Command!Unloads(stays)
  PROVE  CommandInv'
<1> DEFINE t == IF s.unmounts THEN Command!UnmountRequested(s) ELSE s
<1>1. Command!Here /\ app \in Command!Apps /\ Command!Becomes(Command!At(t, IF stays THEN s.connecting ELSE "gone"))
  BY DEF CommandInv, Command!Unloads, Command!Becomes
<1>2. t \in Commands /\ Sound(t) /\ t.connecting = s.connecting
  <2>1. CASE s.unmounts
    BY <1>1, <2>1, UnmountIs
  <2>2. CASE ~s.unmounts
    BY <1>1, <2>2 DEF CommandInv
  <2> QED  BY <2>1, <2>2
<1> HIDE DEF t
<1>3. CASE stays
  <2>1. Command!At(t, s.connecting) = t
    BY <1>2 DEF Command!At, Commands
  <2> QED  BY <1>1, <1>2, <1>3, <2>1, BecomesSound
<1>4. CASE ~stays
  BY <1>1, <1>2, <1>4, BecomesGone
<1> QED  BY <1>3, <1>4

(* The page that leaves for another one. *)
LEMMA ByLeaving ==
  ASSUME CommandInv, Command!RelayRedirects \/ Command!Connect
  PROVE  CommandInv'
<1>1. Command!Becomes(Command!At(s, "gone")) /\ Command!Here
  BY DEF Command!RelayRedirects, Command!Connect, Command!Becomes
<1>2. s \in Commands /\ app \in Command!Apps /\ Sound(s)
  BY <1>1 DEF CommandInv
<1> QED  BY <1>1, <1>2, BecomesGone

(* Keys of the dialog. *)
LEMMA DialogIs ==
  ASSUME CommandInv, Command!Here, Command!Key
  PROVE  /\ s \in Commands /\ app \in Command!Apps /\ Sound(s) /\ s.exited_ /\ s.told = 0 /\ s.program_ = 0
         /\ app # "api" /\ ~s.isMount /\ ~s.mounting /\ ~s.mounts_ /\ ~s.mounted /\ ~s.unmounts
         /\ s.connecting \notin Before /\ s.connecting \in {"sftp", "up", "none", "stuck"}
         /\ Command!Front(s.io) \in Seq(Takers) /\ Len(Command!Front(s.io)) = 1
         /\ \A p \in 1..Len(s.programs) : s.programs[p] = "ended"
<1>1. s \in Commands /\ app \in Command!Apps /\ Sound(s) /\ s.dialog # "none" /\ s.connecting # "gone"
  BY DEF CommandInv, Command!Key, Command!Here
<1>2. s.exited_ /\ s.told = 0 /\ s.program_ = 0 /\ s.connecting \notin Before
  BY <1>1 DEF Sound, Ending
<1>3. app # "api" /\ ~s.isMount /\ ~s.mounting /\ ~s.mounts_ /\ ~s.mounted /\ ~s.unmounts
  BY <1>1 DEF Sound, Mounting
<1>4. Len(s.io) = 2 /\ s.io \in Seq(Takers)
  BY <1>1, <1>3 DEF Sound, KeysGo, Commands
<1>5. Command!Front(s.io) \in Seq(Takers) /\ Len(Command!Front(s.io)) = 1
  BY <1>4 DEF Command!Front
<1>6. \A p \in 1..Len(s.programs) : s.programs[p] = "ended"
  BY <1>1, <1>2 DEF Sound, Programs
<1>7. s.connecting \in {"sftp", "up", "none", "stuck"}
  BY <1>1, <1>2 DEF Commands, Awaits
<1> QED  BY <1>1, <1>2, <1>3, <1>5, <1>6, <1>7

LEMMA ByLeave ==
  ASSUME CommandInv, Command!Leave
  PROVE  CommandInv'
<1> DEFINE t == [s EXCEPT !.dialog = "none"]
           w == [t EXCEPT !.io = Command!Front(t.io)]
           u == [w EXCEPT !.told = w.told + 1]
<1>1. /\ s \in Commands /\ app \in Command!Apps /\ Sound(s) /\ s.exited_ /\ s.told = 0 /\ s.program_ = 0
      /\ app # "api" /\ ~s.isMount /\ ~s.mounting /\ ~s.mounts_ /\ ~s.mounted /\ ~s.unmounts
      /\ s.connecting \notin Before /\ s.connecting \in {"sftp", "up", "none", "stuck"}
      /\ Command!Front(s.io) \in Seq(Takers) /\ Len(Command!Front(s.io)) = 1
      /\ \A p \in 1..Len(s.programs) : s.programs[p] = "ended"
  BY DialogIs DEF Command!Leave, Command!Becomes
<1>2. Command!Becomes(u)
  BY DEF Command!Leave, Command!OnExit, Command!Pop
<1>3. /\ t \in Commands /\ t.programs = s.programs /\ t.io = s.io /\ t.connecting = s.connecting
      /\ t.exited_ = s.exited_ /\ t.program_ = s.program_ /\ t.isMount = s.isMount /\ t.dialog = "none"
      /\ t.told = s.told /\ t.unload = s.unload /\ t.mounting = s.mounting /\ t.mounts_ = s.mounts_
      /\ t.mounted = s.mounted /\ t.unmounts = s.unmounts /\ t.late = s.late
  BY <1>1 DEF Commands
<1> HIDE DEF t
<1>4. /\ w \in Commands /\ w.programs = s.programs /\ w.io = Command!Front(s.io) /\ w.connecting = s.connecting
      /\ w.exited_ = s.exited_ /\ w.program_ = s.program_ /\ w.isMount = s.isMount /\ w.dialog = "none"
      /\ w.told = s.told /\ w.unload = s.unload /\ w.mounting = s.mounting /\ w.mounts_ = s.mounts_
      /\ w.mounted = s.mounted /\ w.unmounts = s.unmounts /\ w.late = s.late
  BY <1>1, <1>3 DEF Commands
<1> HIDE DEF w
<1>5. /\ u \in Commands /\ u.programs = s.programs /\ u.io = Command!Front(s.io) /\ u.connecting = s.connecting
      /\ u.exited_ = s.exited_ /\ u.program_ = s.program_ /\ u.isMount = s.isMount /\ u.dialog = "none"
      /\ u.told = 1 /\ u.unload = s.unload /\ u.mounting = s.mounting /\ u.mounts_ = s.mounts_
      /\ u.mounted = s.mounted /\ u.unmounts = s.unmounts /\ u.late = s.late
  <2>1. u \in Commands /\ u.told = w.told + 1
    BY <1>4 DEF Commands
  <2>2. /\ u.programs = w.programs /\ u.io = w.io /\ u.connecting = w.connecting /\ u.exited_ = w.exited_
        /\ u.program_ = w.program_ /\ u.isMount = w.isMount /\ u.dialog = w.dialog /\ u.unload = w.unload
        /\ u.mounting = w.mounting /\ u.mounts_ = w.mounts_ /\ u.mounted = w.mounted /\ u.unmounts = w.unmounts
        /\ u.late = w.late
    BY <1>4 DEF Commands
  <2> HIDE DEF u
  <2> QED  BY <1>1, <1>4, <2>1, <2>2
<1> HIDE DEF u
<1>6. Ending(u) /\ Mounting(u)
  BY <1>1, <1>5 DEF Sound, Ending, Mounting
<1>7. Programs(u)
  BY <1>1, <1>5 DEF Sound, Programs
<1>8. KeysGo(u)
  BY <1>1, <1>5 DEF KeysGo, Prompting
<1> QED  BY <1>1, <1>2, <1>5, <1>6, <1>7, <1>8, BecomesSound DEF Sound

LEMMA ByReconnect ==
  ASSUME MaxConnections \in Nat \ {0}, CommandInv, Command!Reconnect
  PROVE  CommandInv'
<1> DEFINE w == [s EXCEPT !.io = Command!Front(s.io)]
           x == [w EXCEPT !.exited_ = FALSE, !.dialog = "none"]
           y == [x EXCEPT !.told = 0, !.late = FALSE]
           u == [y EXCEPT !.connecting = "profile", !.connections = w.connections + 1]
<1>1. /\ s \in Commands /\ app \in Command!Apps /\ Sound(s) /\ s.exited_ /\ s.told = 0 /\ s.program_ = 0
      /\ app # "api" /\ ~s.isMount /\ ~s.mounting /\ ~s.mounts_ /\ ~s.mounted /\ ~s.unmounts
      /\ s.connecting \notin Before /\ s.connecting \in {"sftp", "up", "none", "stuck"}
      /\ Command!Front(s.io) \in Seq(Takers) /\ Len(Command!Front(s.io)) = 1
      /\ \A p \in 1..Len(s.programs) : s.programs[p] = "ended"
  BY DialogIs DEF Command!Reconnect, Command!Becomes
<1>2. /\ w \in Commands /\ w.programs = s.programs /\ w.io = Command!Front(s.io)
      /\ w.exited_ = s.exited_ /\ w.program_ = s.program_ /\ w.isMount = s.isMount
      /\ w.mounting = s.mounting /\ w.mounts_ = s.mounts_
      /\ w.mounted = s.mounted /\ w.unmounts = s.unmounts /\ w.connections = s.connections
  BY <1>1 DEF Commands
<1>3. Command!Becomes(u) /\ s.connections < MaxConnections
  <2>1. Command!Terminate(Command!Pop(s)) = w
    BY <1>1, <1>2 DEF Command!Terminate, Command!Pop
  <2> HIDE DEF w
  <2>2. Command!Becomes([w EXCEPT !.exited_ = FALSE, !.dialog = "none", !.told = 0, !.late = FALSE,
                                  !.connecting = "profile", !.connections = w.connections + 1])
    BY <2>1 DEF Command!Reconnect
  <2> QED  BY <2>2 DEF Command!Reconnect
<1> HIDE DEF w
<1>4. /\ x \in Commands /\ x.programs = s.programs /\ x.io = Command!Front(s.io)
      /\ x.exited_ = FALSE /\ x.program_ = s.program_ /\ x.isMount = s.isMount /\ x.dialog = "none"
      /\ x.mounting = s.mounting /\ x.mounts_ = s.mounts_
      /\ x.mounted = s.mounted /\ x.unmounts = s.unmounts /\ x.connections = s.connections
  BY <1>1, <1>2 DEF Commands
<1> HIDE DEF x
<1>5. /\ y \in Commands /\ y.programs = s.programs /\ y.io = Command!Front(s.io)
      /\ y.exited_ = FALSE /\ y.program_ = s.program_ /\ y.isMount = s.isMount /\ y.dialog = "none" /\ y.told = 0
      /\ y.mounting = s.mounting /\ y.mounts_ = s.mounts_
      /\ y.mounted = s.mounted /\ y.unmounts = s.unmounts /\ y.connections = s.connections
  <2>1. y \in Commands /\ y.told = 0
    BY <1>4 DEF Commands
  <2>2. /\ y.programs = x.programs /\ y.io = x.io /\ y.exited_ = x.exited_ /\ y.program_ = x.program_
        /\ y.isMount = x.isMount /\ y.dialog = x.dialog /\ y.mounting = x.mounting /\ y.mounts_ = x.mounts_
        /\ y.mounted = x.mounted /\ y.unmounts = x.unmounts /\ y.connections = x.connections
    BY <1>4 DEF Commands
  <2> QED  BY <1>4, <2>1, <2>2
<1> HIDE DEF y
<1>6. w.connections + 1 \in 1..MaxConnections
  BY <1>1, <1>2, <1>3 DEF Commands
<1>7. /\ u \in Commands /\ u.programs = s.programs /\ u.io = Command!Front(s.io) /\ u.connecting = "profile"
      /\ u.exited_ = FALSE /\ u.program_ = s.program_ /\ u.isMount = s.isMount /\ u.dialog = "none" /\ u.told = 0
      /\ u.mounting = s.mounting /\ u.mounts_ = s.mounts_
      /\ u.mounted = s.mounted /\ u.unmounts = s.unmounts
  BY <1>1, <1>5, <1>6 DEF Commands, Awaits, Before
<1> HIDE DEF u
<1>8. Ending(u) /\ Mounting(u)
  BY <1>1, <1>7 DEF Sound, Ending, Mounting
<1>9. Programs(u)
  BY <1>1, <1>7 DEF Sound, Programs
<1>10. KeysGo(u)
  BY <1>1, <1>7 DEF KeysGo, Prompting
<1> QED  BY <1>1, <1>3, <1>7, <1>8, <1>9, <1>10, BecomesSound DEF Sound

(* The command as it begins. *)
LEMMA CommandInit ==
  ASSUME MaxConnections \in Nat \ {0}, Command!Init
  PROVE  CommandInv
<1>1. app \in Command!Apps /\ s = Command!Start
  BY DEF Command!Init
<1>2. <<>> \in Seq(Lives) /\ <<"none">> \in Seq(Takers) /\ Len(<<"none">>) = 1 /\ Len(<<>>) = 0 /\ <<"none">> # <<>>
  BY NoElements, OneElement DEF Takers
<1>3. s \in Commands
  BY <1>1, <1>2 DEF Command!Start, Commands, Awaits, Before
<1>4. /\ s.connecting = "profile" /\ s.exited_ = FALSE /\ s.program_ = 0 /\ s.programs = <<>> /\ s.isMount = (app = "api")
      /\ s.dialog = "none" /\ s.told = 0 /\ s.io = <<"none">> /\ s.mounting = FALSE /\ s.mounts_ = FALSE
      /\ s.mounted = FALSE /\ s.unmounts = FALSE
  BY <1>1 DEF Command!Start
<1>5. Ending(s) /\ Mounting(s)
  <2>1. Ending(s)
    BY <1>4 DEF Ending
  <2>2. Mounting(s)
    BY <1>1, <1>4 DEF Mounting
  <2> QED  BY <2>1, <2>2
<1>6. Programs(s) /\ KeysGo(s)
  BY <1>2, <1>4 DEF Programs, KeysGo, Prompting, Before
<1> QED  BY <1>1, <1>2, <1>3, <1>4, <1>5, <1>6 DEF CommandInv, Sound

(* Every action of the command keeps its invariant. *)
LEMMA CommandNext ==
  ASSUME MaxConnections \in Nat \ {0}, CommandInv, Command!Next
  PROVE  CommandInv'
<1>1. CASE \E username \in BOOLEAN : Command!OnProfile(username)
  BY <1>1, ByProfile
<1>2. CASE Command!ProfileFails \/ Command!OptionsFail \/ Command!UnknownVersion
  BY <1>2, BySetUpFails DEF Command!ProfileFails, Command!OptionsFail, Command!UnknownVersion, Command!Awaiting
<1>3. CASE Command!EnterUsername
  BY <1>3, ByUsername
<1>4. CASE \/ Command!OnRelay \/ Command!RelayThrows \/ Command!OnCertificates \/ Command!OnPolicy
           \/ Command!LoadThrows
  BY <1>4, ByAwaits
<1>5. CASE Command!RelayRedirects \/ Command!Connect
  BY <1>5, ByLeaving
<1>6. CASE Command!OnBootstrap \/ Command!OnLoad
  BY <1>6, ByNewProgram
<1>7. CASE \E p \in DOMAIN s.programs : \/ Command!Prompts(p) \/ Command!Answer(p) \/ Command!ProgramExits(p)
                                        \/ \E parses \in BOOLEAN : Command!OnExitMessage(p, parses)
  BY <1>7, ByPrompts, ByExitMessage
<1>8. CASE Command!OnSftpInitialised
  BY <1>8, BySftp
<1>9. CASE Command!SftpFails
  BY <1>9, BySftpFails
<1>10. CASE Command!CliQuits
  BY <1>10, ByCli
<1>11. CASE Command!OnMount
  BY <1>11, ByMount
<1>12. CASE Command!MountFails
  BY <1>12, ByMountFails
<1>13. CASE Command!FilesUnmounts
  BY <1>13, ByUnmounts
<1>14. CASE \E stays \in BOOLEAN : Command!Unloads(stays)
  BY <1>14, ByUnload
<1>15. CASE Command!Leave
  BY <1>15, ByLeave
<1>16. CASE Command!Reconnect
  BY <1>16, ByReconnect
<1> QED  BY <1>1, <1>2, <1>3, <1>4, <1>5, <1>6, <1>7, <1>8, <1>9, <1>10, <1>11, <1>12, <1>13, <1>14, <1>15, <1>16
         DEF Command!Next

(* The invariant of a command has the three properties of its page. *)
LEMMA CommandKeeps ==
  ASSUME CommandInv
  PROVE  Command!ExitLeavesNothing /\ Command!NoProgramIsLost /\ Command!KeysReachWhatIsShown
<1>1. Command!ExitLeavesNothing
  BY DEF CommandInv, Command!ExitLeavesNothing
<1>2. s \in Commands /\ DOMAIN s.programs = 1..Len(s.programs)
  BY DEF CommandInv, Commands
<1>3. Command!NoProgramIsLost
  BY <1>2 DEF CommandInv, Command!NoProgramIsLost, Command!Here, Command!IsLive, Command!Live, Command!Awaiting,
              Sound, Programs
<1>4. Command!KeysReachWhatIsShown
  <2> SUFFICES ASSUME Command!Here, app # "api"
               PROVE  /\ s.dialog # "none" => s.exited_ /\ Command!Last(s.io) = "dialog"
                      /\ \A p \in DOMAIN s.programs : Command!IsLive(p) =>
                           Command!Last(s.io) = IF s.programs[p] = "prompting" THEN "input" ELSE "tty"
                      /\ Len(s.io) = IF s.dialog # "none" \/ Command!Awaiting("username")
                                        \/ \E p \in DOMAIN s.programs : s.programs[p] = "prompting"
                                     THEN 2 ELSE 1
    BY DEF Command!KeysReachWhatIsShown
  <2>1. Sound(s) /\ s.connecting # "gone"
    BY DEF CommandInv, Command!Here
  <2>2. Command!Last(s.io) = s.io[Len(s.io)]
    BY DEF Command!Last
  <2>3. Prompting(s) <=> \E p \in DOMAIN s.programs : s.programs[p] = "prompting"
    BY <1>2 DEF Prompting
  <2>4. s.dialog # "none" => s.exited_ /\ Command!Last(s.io) = "dialog"
    BY <2>1, <2>2 DEF Sound, Ending, KeysGo
  <2>5. ASSUME NEW p \in DOMAIN s.programs, Command!IsLive(p)
        PROVE  Command!Last(s.io) = IF s.programs[p] = "prompting" THEN "input" ELSE "tty"
    <3>1. s.programs[p] # "ended" /\ p \in 1..Len(s.programs)
      BY <1>2, <2>5 DEF Command!IsLive, Command!Live
    <3>2. /\ s.dialog = "none" /\ s.connecting # "username" /\ (Prompting(s) <=> s.programs[p] = "prompting")
      BY <1>2, <2>1, <3>1, LivesIs
    <3> QED  BY <2>1, <2>2, <3>1, <3>2 DEF Sound, KeysGo
  <2>6. Len(s.io) = IF s.dialog # "none" \/ s.connecting = "username" \/ Prompting(s) THEN 2 ELSE 1
    BY <2>1 DEF Sound, KeysGo
  <2> QED  BY <2>3, <2>4, <2>5, <2>6 DEF Command!Awaiting
<1> QED  BY <1>1, <1>3, <1>4

(* Every step keeps the invariant of the command. *)
LEMMA CommandStep ==
  ASSUME CommandInv, [MCNext]_allVars
  PROVE  CommandInv'
<1>1. CASE s' = s /\ app' = app
  BY <1>1 DEF CommandInv, Command!Here, Sound, Ending, Mounting, Programs, KeysGo, Prompting
<1>2. CASE Command!Next
  BY <1>2, CommandNext, FilesAssumption DEF Command!CommandAssumption
<1> QED  BY <1>1, <1>2 DEF MCNext, allVars, commandVars

(* However a connection ends, at whatever await it is, the command of a    *)
(* page leaves no program, dialog, mount or guard behind, tells its end    *)
(* once, and the keys reach what is shown (nassh_command_instance.js).     *)
THEOREM ExitsLeaveNothing == MCSpec => []ExitLeavesNothing
<1>1. MCInit => CommandInv
  BY CommandInit, FilesAssumption DEF MCInit, Command!CommandAssumption
<1>2. CommandInv /\ [MCNext]_allVars => CommandInv'
  BY CommandStep
<1>3. CommandInv => ExitLeavesNothing
  BY CommandKeeps DEF ExitLeavesNothing
<1> QED  BY <1>1, <1>2, <1>3, PTL DEF MCSpec

-----------------------------------------------------------------------------
(* The nasftp shell: its types. *)
Steps == {"request", "next", "open", "close", "chunks", "check", "pick"}
Commanded == {"ask", "stat", "df", "rm", "touch", "truncate", "copy", "cat", "clip", "show", "get", "mget", "list", "put",
              "complete"}

(* The steps a command has before it close what is open, n files now, and  *)
(* no more than that; where an error is forgotten or an interrupt seen,    *)
(* none is open.  Balances has the number open after each step.            *)
Opening(step) == IF step = "open" THEN 1 ELSE IF step = "close" THEN -1 ELSE 0
Balances(q, n, g) ==
  /\ g \in [0..Len(q) -> Nat] /\ g[0] = n /\ g[Len(q)] = 0
  /\ \A k \in 1..Len(q) : g[k] = g[k - 1] + Opening(q[k]) /\ (q[k] \in {"next", "check"} => g[k - 1] = 0)
Balanced(q, n) == \E g : Balances(q, n, g)

JobFields == [cmd : Commanded \cup {"upload"}, todo : Seq(Steps), open : Int, failed : BOOLEAN, listening : BOOLEAN]
JobRecords == {job \in JobFields : Balanced(job.todo, job.open)}
Lines == Seq(Words)
Histories == {h \in Seq(Lines) : Len(h) <= MaxHistory /\ \A i \in 1..Len(h) : h[i] # <<>>}
Shells == [stdin_ : Lines, buffered_ : Seq(Words \cup {"enter"}), holdInput_ : BOOLEAN, userInterrupted_ : BOOLEAN,
           killCount_ : Nat, history_ : Histories, historyPosition_ : Int, historyStash_ : Lines,
           exited_ : BOOLEAN, jobs : Seq(JobRecords)]

(* What the dialog of a put that was given up leaves, and a command or     *)
(* completion at work: there is one at most.                               *)
Left(job) == job.cmd = "upload" /\ ~job.listening /\ job.todo # <<>> /\ Head(job.todo) = "pick"
AtWork(job) == job.cmd # "upload" /\ (job.listening <=> job.cmd # "complete")
OneAtWork(t) ==
  /\ \A i \in 1..Len(t.jobs) : Left(t.jobs[i]) \/ AtWork(t.jobs[i])
  /\ \A i, j \in 1..Len(t.jobs) : AtWork(t.jobs[i]) /\ AtWork(t.jobs[j]) => i = j
Works(t) == \E i \in 1..Len(t.jobs) : AtWork(t.jobs[i])

Typed(t) == t \in Shells /\ -1 <= t.historyPosition_ /\ t.historyPosition_ < Len(t.history_)
ShellOf(t) == Typed(t) /\ (~t.exited_ => OneAtWork(t) /\ (t.holdInput_ <=> Works(t)))
ShellInv == ShellOf(c)

(* The states the loop of onInput_ goes through. *)
Draining ==
  {t \in Shells : Typed(t) /\ OneAtWork(t) /\ \A i \in 1..Len(t.jobs) : AtWork(t.jobs[i]) => t.jobs[i].listening}

(* What balances, when a step is taken from it or put to it. *)
LEMMA BalancedEnds ==
  ASSUME NEW q \in Seq(Steps), NEW n, Balanced(q, n)
  PROVE  n \in Nat /\ (q = <<>> => n = 0)
<1>1. PICK g : Balances(q, n, g)
  BY DEF Balanced
<1>2. Len(q) \in Nat /\ 0 \in 0..Len(q)
  OBVIOUS
<1> QED  BY <1>1, <1>2 DEF Balances

(* When a step has been taken the rest balances. *)
LEMMA BalancedTail ==
  ASSUME NEW q \in Seq(Steps), q # <<>>, NEW n, Balanced(q, n)
  PROVE  Balanced(Tail(q), n + Opening(Head(q))) /\ (Head(q) \in {"next", "check"} => n = 0)
<1>1. PICK g : Balances(q, n, g)
  BY DEF Balanced
<1> DEFINE h == [k \in 0..(Len(q) - 1) |-> g[k + 1]]
<1>2. /\ Len(q) \in Nat /\ Len(q) >= 1 /\ Head(q) = q[1] /\ Len(Tail(q)) = Len(q) - 1
      /\ \A k \in 1..(Len(q) - 1) : Tail(q)[k] = q[k + 1]
  BY TailProperties
<1>3. /\ g \in [0..Len(q) -> Nat] /\ g[0] = n /\ g[Len(q)] = 0 /\ g[1] = n + Opening(q[1])
      /\ q[1] \in {"next", "check"} => n = 0
  <2>1. 1 \in 1..Len(q) /\ 1 - 1 = 0
    BY <1>2
  <2> QED  BY <1>1, <2>1 DEF Balances
<1>4. h \in [0..(Len(q) - 1) -> Nat] /\ h[0] = g[1] /\ h[Len(q) - 1] = 0
  BY <1>2, <1>3
<1>5. ASSUME NEW k \in 1..(Len(q) - 1)
      PROVE  h[k] = h[k - 1] + Opening(Tail(q)[k]) /\ (Tail(q)[k] \in {"next", "check"} => h[k - 1] = 0)
  <2>1. k + 1 \in 1..Len(q) /\ (k + 1) - 1 = k /\ (k - 1) + 1 = k /\ k \in 0..(Len(q) - 1) /\ k - 1 \in 0..(Len(q) - 1)
    BY <1>2
  <2>2. h[k] = g[k + 1] /\ h[k - 1] = g[k] /\ Tail(q)[k] = q[k + 1]
    BY <1>2, <2>1
  <2>3. g[k + 1] = g[k] + Opening(q[k + 1]) /\ (q[k + 1] \in {"next", "check"} => g[k] = 0)
    BY <1>1, <2>1 DEF Balances
  <2> QED  BY <2>2, <2>3
<1> HIDE DEF h
<1>6. Balances(Tail(q), n + Opening(Head(q)), h)
  BY <1>2, <1>3, <1>4, <1>5 DEF Balances
<1> QED  BY <1>2, <1>3, <1>6 DEF Balanced

(* One script after another balances. *)
LEMMA BalancedConcat ==
  ASSUME NEW p \in Seq(Steps), NEW q \in Seq(Steps), NEW n, Balanced(p, n), Balanced(q, 0)
  PROVE  Balanced(p \o q, n)
<1>1. PICK g : Balances(p, n, g)
  BY DEF Balanced
<1>2. PICK h : Balances(q, 0, h)
  BY DEF Balanced
<1> DEFINE P == Len(p)
           Q == Len(q)
           pq == p \o q
           e == [k \in 0..(P + Q) |-> IF k <= P THEN g[k] ELSE h[k - P]]
<1>3. P \in Nat /\ Q \in Nat
  OBVIOUS
<1>4. Len(pq) = P + Q /\ \A i \in 1..(P + Q) : pq[i] = IF i <= P THEN p[i] ELSE q[i - P]
  BY ConcatProperties
<1>5. /\ g \in [0..P -> Nat] /\ g[0] = n /\ g[P] = 0
      /\ \A k \in 1..P : g[k] = g[k - 1] + Opening(p[k]) /\ (p[k] \in {"next", "check"} => g[k - 1] = 0)
  BY <1>1 DEF Balances
<1>6. /\ h \in [0..Q -> Nat] /\ h[0] = 0 /\ h[Q] = 0
      /\ \A k \in 1..Q : h[k] = h[k - 1] + Opening(q[k]) /\ (q[k] \in {"next", "check"} => h[k - 1] = 0)
  BY <1>2 DEF Balances
<1> HIDE DEF P, Q, pq
<1>7. /\ \A k \in 0..P : k \in 0..(P + Q) /\ e[k] = g[k]
      /\ \A k \in 0..Q : k + P \in 0..(P + Q) /\ e[k + P] = h[k]
  <2>1. ASSUME NEW k \in 0..Q PROVE k + P \in 0..(P + Q) /\ e[k + P] = h[k]
    <3>1. k + P \in 0..(P + Q) /\ (k + P) - P = k /\ (k + P <= P => k = 0 /\ k + P = P)
      BY <1>3
    <3>2. e[k + P] = IF k + P <= P THEN g[k + P] ELSE h[k]
      BY <3>1
    <3> HIDE DEF e
    <3>3. CASE k + P <= P
      <4>1. e[k + P] = g[P] /\ h[k] = h[0]
        BY <3>1, <3>2, <3>3
      <4> QED  BY <1>5, <1>6, <3>1, <4>1
    <3>4. CASE ~(k + P <= P)
      BY <3>1, <3>2, <3>4
    <3> QED  BY <3>1, <3>3, <3>4
  <2>2. ASSUME NEW k \in 0..P PROVE k \in 0..(P + Q) /\ e[k] = g[k]
    <3>1. k \in 0..(P + Q) /\ k <= P
      BY <1>3
    <3> QED  BY <3>1
  <2> QED  BY <2>1, <2>2
<1>8. e \in [0..(P + Q) -> Nat]
  <2>1. ASSUME NEW k \in 0..(P + Q) PROVE (IF k <= P THEN g[k] ELSE h[k - P]) \in Nat
    <3>1. k <= P => k \in 0..P
      BY <1>3
    <3>2. ~(k <= P) => k - P \in 0..Q
      BY <1>3
    <3> QED  BY <1>5, <1>6, <3>1, <3>2
  <2> QED  BY <2>1
<1>9. e[0] = n /\ e[P + Q] = 0
  <2>1. 0 \in 0..P /\ Q \in 0..Q /\ Q + P = P + Q
    BY <1>3
  <2> QED  BY <1>5, <1>6, <1>7, <2>1
<1> HIDE DEF e
<1>10. ASSUME NEW k \in 1..(P + Q)
       PROVE  e[k] = e[k - 1] + Opening(pq[k]) /\ (pq[k] \in {"next", "check"} => e[k - 1] = 0)
  <2>1. CASE k <= P
    <3>1. k \in 1..P /\ k \in 0..P /\ k - 1 \in 0..P
      BY <1>3, <2>1
    <3>2. e[k] = g[k] /\ e[k - 1] = g[k - 1] /\ pq[k] = p[k]
      BY <1>4, <1>7, <2>1, <3>1
    <3> QED  BY <1>5, <3>1, <3>2
  <2>2. CASE ~(k <= P)
    <3> DEFINE m == k - P
    <3>1. m \in 1..Q /\ m \in 0..Q /\ m - 1 \in 0..Q /\ m + P = k /\ (m - 1) + P = k - 1
      BY <1>3, <2>2
    <3>2. e[k] = h[m] /\ e[k - 1] = h[m - 1] /\ pq[k] = q[m]
      BY <1>4, <1>7, <2>2, <3>1
    <3> HIDE DEF m
    <3> QED  BY <1>6, <3>1, <3>2
  <2> QED  BY <2>1, <2>2
<1>11. Balances(pq, n, e)
  BY <1>4, <1>8, <1>9, <1>10 DEF Balances
<1> QED  BY <1>11 DEF Balanced, pq

(* From a "next" on nothing is open. *)
LEMMA BalancedFrom ==
  ASSUME NEW q \in Seq(Steps), NEW n, Balanced(q, n), NEW i \in 1..Len(q), q[i] = "next"
  PROVE  Balanced(SubSeq(q, i, Len(q)), 0) /\ SubSeq(q, i, Len(q)) \in Seq(Steps)
<1>1. PICK g : Balances(q, n, g)
  BY DEF Balanced
<1> DEFINE N == Len(q)
           L == N - i + 1
           r == SubSeq(q, i, N)
           h == [k \in 0..L |-> g[k + i - 1]]
<1>2. N \in Nat /\ L \in Nat /\ i \in Nat /\ i >= 1 /\ i <= N
  OBVIOUS
<1>3. r \in Seq(Steps) /\ Len(r) = L /\ \A k \in 1..L : r[k] = q[k + i - 1]
  <2>1. r = [k \in 1..L |-> q[k + i - 1]]
    <3>1. r = [k \in 1..L |-> q[i + k - 1]]
      BY <1>2
    <3> QED  BY <1>2, <3>1
  <2>2. \A k \in 1..L : q[k + i - 1] \in Steps
    BY <1>2
  <2> QED  BY <1>2, <2>1, <2>2
<1>4. g \in [0..N -> Nat] /\ g[N] = 0 /\ g[i - 1] = 0
  BY <1>1 DEF Balances
<1> HIDE DEF N
<1>5. h \in [0..L -> Nat] /\ h[0] = 0 /\ h[L] = 0
  <2>1. \A k \in 0..L : k + i - 1 \in 0..N
    BY <1>2
  <2>2. 0 \in 0..L /\ L \in 0..L /\ 0 + i - 1 = i - 1 /\ L + i - 1 = N
    BY <1>2
  <2> QED  BY <1>4, <2>1, <2>2
<1>6. ASSUME NEW k \in 1..L
      PROVE  h[k] = h[k - 1] + Opening(r[k]) /\ (r[k] \in {"next", "check"} => h[k - 1] = 0)
  <2> DEFINE m == k + i - 1
  <2>1. m \in 1..N /\ k \in 0..L /\ k - 1 \in 0..L /\ (k - 1) + i - 1 = m - 1
    BY <1>2
  <2>2. h[k] = g[m] /\ h[k - 1] = g[m - 1] /\ r[k] = q[m]
    BY <1>3, <2>1
  <2>3. g[m] = g[m - 1] + Opening(q[m]) /\ (q[m] \in {"next", "check"} => g[m - 1] = 0)
    BY <1>1, <2>1 DEF Balances, N
  <2> QED  BY <2>2, <2>3
<1> HIDE DEF h, r, L
<1>7. Balances(r, 0, h)
  BY <1>3, <1>5, <1>6 DEF Balances
<1> QED  BY <1>3, <1>7 DEF Balanced, r, N

(* As many closes as there are open files balance. *)
LEMMA BalancedCloses ==
  ASSUME NEW n \in Nat, NEW q, q = [i \in 1..n |-> "close"]
  PROVE  q \in Seq(Steps) /\ Balanced(q, n)
<1> DEFINE g == [k \in 0..n |-> n - k]
<1>1. q \in Seq(Steps) /\ Len(q) = n /\ \A k \in 1..n : q[k] = "close"
  BY DEF Steps
<1>2. g \in [0..n -> Nat] /\ g[0] = n /\ g[n] = 0 /\ \A k \in 1..n : g[k] = g[k - 1] - 1
  OBVIOUS
<1> HIDE DEF g
<1>3. g[0] \in Nat /\ \A k \in 1..n : g[k - 1] \in Nat
  BY <1>2
<1>4. Balances(q, n, g)
  BY <1>1, <1>2, <1>3 DEF Balances, Opening
<1> QED  BY <1>1, <1>4 DEF Balanced

(* The scripts of the commands. *)
LEMMA ScriptIs ==
  ASSUME NEW cmd \in Commanded
  PROVE  Shell!Script[cmd] \in Seq(Steps) /\ Balanced(Shell!Script[cmd], 0)
<1> DEFINE Goes(q) == q \in Seq(Steps) /\ Balanced(q, 0)
<1>0. ASSUME NEW p, NEW q, Goes(p), Goes(q) PROVE Goes(p \o q)
  BY <1>0, ConcatProperties, BalancedConcat
<1>1. ASSUME NEW step \in {"request", "next", "check", "pick"} PROVE Goes(<<step>>)
  <2> DEFINE g == [k \in 0..1 |-> 0]
  <2>1. <<step>> \in Seq(Steps) /\ Len(<<step>>) = 1 /\ <<step>>[1] = step
    BY OneElement DEF Steps
  <2>2. Balances(<<step>>, 0, g)
    BY <2>1 DEF Balances, Opening
  <2> QED  BY <2>1, <2>2 DEF Balanced
<1>2. Goes(Shell!Ask) /\ Goes(Shell!Rm)
  <2> DEFINE g == [k \in 0..2 |-> 0]
             h == [k \in 0..3 |-> 0]
  <2>1. Shell!Ask \in Seq(Steps) /\ Shell!Rm \in Seq(Steps)
    BY DEF Shell!Ask, Shell!Rm, Steps
  <2>2. Balances(Shell!Ask, 0, g)
    BY DEF Shell!Ask, Balances, Opening
  <2>3. Balances(Shell!Rm, 0, h)
    BY DEF Shell!Rm, Balances, Opening
  <2> QED  BY <2>1, <2>2, <2>3 DEF Balanced
<1>3. Goes(Shell!Touch) /\ Goes(Shell!Cat)
  <2> DEFINE g == [k \in 0..3 |-> IF k \in {1, 2} THEN 1 ELSE 0]
  <2>1. Shell!Touch \in Seq(Steps) /\ Shell!Cat \in Seq(Steps)
    BY DEF Shell!Touch, Shell!Cat, Steps
  <2>2. Balances(Shell!Touch, 0, g)
    BY DEF Shell!Touch, Balances, Opening
  <2>3. Balances(Shell!Cat, 0, g)
    BY DEF Shell!Cat, Balances, Opening
  <2> QED  BY <2>1, <2>2, <2>3 DEF Balanced
<1>4. Goes(Shell!Copy)
  <2> DEFINE g == [k \in 0..6 |-> IF k \in {2, 5} THEN 1 ELSE IF k \in {3, 4} THEN 2 ELSE 0]
  <2>1. Shell!Copy \in Seq(Steps)
    BY DEF Shell!Copy, Steps
  <2>2. Balances(Shell!Copy, 0, g)
    BY DEF Shell!Copy, Balances, Opening
  <2> QED  BY <2>1, <2>2 DEF Balanced
<1> HIDE DEF Goes
<1>5. Goes(Shell!Show) /\ Goes(Shell!Get) /\ Goes(Shell!List) /\ Goes(Shell!Mget)
  BY <1>0, <1>1, <1>3 DEF Shell!Show, Shell!Get, Shell!List, Shell!Mget
<1>6. Goes(Shell!Put)
  BY <1>0, <1>1, <1>5 DEF Shell!Put
<1>7. Goes(Shell!Script[cmd])
  BY <1>2, <1>3, <1>4, <1>5, <1>6
     DEF Commanded, Shell!Script, Shell!Stat, Shell!DiskFree, Shell!Truncate, Shell!Clip, Shell!Complete
<1> QED  BY <1>7 DEF Goes

(* finishCommand leaves the commands alone. *)
LEMMA FinishIs ==
  ASSUME Shell!ShellAssumption, NEW t, Typed(t), NEW u, u = Shell!Finish(t)
  PROVE  Typed(u) /\ u.jobs = t.jobs /\ u.holdInput_ = t.holdInput_ /\ u.exited_ = t.exited_
<1> DEFINE new == t.stdin_ # <<>> /\ (t.history_ = <<>> \/ Head(t.history_) # t.stdin_)
           cut == IF Len(t.history_) < MaxHistory THEN Len(t.history_) + 1 ELSE MaxHistory
           h == IF new THEN SubSeq(<<t.stdin_>> \o t.history_, 1, cut) ELSE t.history_
           done == [t EXCEPT !.history_ = h, !.historyPosition_ = -1, !.stdin_ = <<>>]
           b == IF t.userInterrupted_ THEN <<>> ELSE t.buffered_
<1>1. /\ t \in Shells /\ t.stdin_ \in Lines /\ t.history_ \in Histories /\ t.history_ \in Seq(Lines) /\ Len(t.history_) \in Nat
      /\ t.buffered_ \in Seq(Words \cup {"enter"})
  BY DEF Typed, Shells, Histories
<1>2. h \in Histories
  <2> DEFINE longer == <<t.stdin_>> \o t.history_
  <2>1. /\ longer \in Seq(Lines) /\ Len(longer) = Len(t.history_) + 1
        /\ longer[1] = t.stdin_ /\ \A i \in 1..(Len(t.history_) + 1) : i # 1 => longer[i] = t.history_[i - 1]
    <3>1. <<t.stdin_>> \in Seq(Lines) /\ Len(<<t.stdin_>>) = 1 /\ <<t.stdin_>>[1] = t.stdin_
      BY <1>1, OneElement
    <3> QED  BY <1>1, <3>1, ConcatProperties
  <2>2. cut \in Nat /\ cut <= Len(t.history_) + 1 /\ cut <= MaxHistory
    BY <1>1 DEF Shell!ShellAssumption
  <2> HIDE DEF cut, Lines, longer
  <2>3. /\ SubSeq(longer, 1, cut) \in Seq(Lines) /\ Len(SubSeq(longer, 1, cut)) = cut
        /\ \A i \in 1..cut : SubSeq(longer, 1, cut)[i] = longer[i]
    BY <2>1, <2>2
  <2>4. ASSUME t.stdin_ # <<>>, NEW i \in 1..cut PROVE longer[i] # <<>>
    <3>1. i = 1 \/ i - 1 \in 1..Len(t.history_)
      BY <1>1, <2>2
    <3>2. i \in 1..(Len(t.history_) + 1)
      BY <1>1, <2>2
    <3> QED  BY <1>1, <2>1, <2>4, <3>1, <3>2 DEF Histories
  <2>5. t.stdin_ # <<>> => SubSeq(longer, 1, cut) \in Histories
    BY <2>2, <2>3, <2>4 DEF Histories
  <2> QED  BY <1>1, <2>5 DEF longer
<1> HIDE DEF h
<1>3. /\ done \in Shells /\ done.jobs = t.jobs /\ done.holdInput_ = t.holdInput_ /\ done.exited_ = t.exited_
      /\ done.historyPosition_ = -1 /\ done.history_ = h
  <2>1. <<>> \in Lines
    BY NoElements DEF Lines
  <2> HIDE DEF Lines
  <2>2. done \in Shells
    <3> DEFINE d == [t EXCEPT !.history_ = h]
    <3>1. d \in Shells
      BY <1>1, <1>2 DEF Shells
    <3> DEFINE e == [d EXCEPT !.historyPosition_ = -1]
               none == <<>>
    <3>2. done = [e EXCEPT !.stdin_ = none]
      OBVIOUS
    <3> HIDE DEF d
    <3>3. e \in Shells
      BY <3>1 DEF Shells
    <3> HIDE DEF e, none, done
    <3>4. none \in Lines
      BY <2>1 DEF none
    <3> QED  BY <3>2, <3>3, <3>4 DEF Shells
  <2>3. done.historyPosition_ = -1 /\ done.history_ = h
    BY <1>1 DEF Shells
  <2>4. done.jobs = t.jobs /\ done.holdInput_ = t.holdInput_ /\ done.exited_ = t.exited_
    BY <1>1 DEF Shells
  <2> QED  BY <2>2, <2>3, <2>4
<1>4. b \in Seq(Words \cup {"enter"})
  BY <1>1, NoElements
<1>5. u = IF t.exited_ THEN done ELSE [done EXCEPT !.buffered_ = b, !.userInterrupted_ = FALSE]
  <2>1. done.buffered_ = t.buffered_
    BY <1>1 DEF Shells
  <2> QED  BY <2>1 DEF Shell!Finish, h
<1> HIDE DEF done, b
<1>6. /\ u \in Shells /\ u.jobs = t.jobs /\ u.holdInput_ = t.holdInput_ /\ u.exited_ = t.exited_
      /\ u.historyPosition_ = -1 /\ u.history_ = h
  BY <1>3, <1>4, <1>5 DEF Shells
<1>7. Len(h) \in Nat
  BY <1>2 DEF Histories
<1> QED  BY <1>6, <1>7 DEF Typed

(* One character more, and a command that is dispatched. *)
LEMMA JobIs ==
  ASSUME NEW cmd \in Commanded, NEW job, job = Shell!Job(cmd)
  PROVE  job \in JobRecords /\ job.listening = (cmd # "complete") /\ AtWork(job)
<1>1. Shell!Script[cmd] \in Seq(Steps) /\ Balanced(Shell!Script[cmd], 0)
  BY ScriptIs
<1>2. job = [cmd |-> cmd, todo |-> Shell!Script[cmd], open |-> 0, failed |-> FALSE, listening |-> cmd # "complete"]
  BY DEF Shell!Job
<1>3. cmd \in Commanded /\ cmd # "upload"
  BY DEF Commanded
<1>4. job \in JobFields /\ job.listening = (cmd # "complete") /\ job.cmd = cmd
  BY <1>1, <1>2, <1>3 DEF JobFields
<1>5. job.todo = Shell!Script[cmd] /\ job.open = 0
  BY <1>2
<1> QED  BY <1>1, <1>3, <1>4, <1>5 DEF AtWork, JobRecords

(* A line is dispatched. *)
LEMMA DispatchIs ==
  ASSUME Shell!ShellAssumption, NEW t \in Draining, ~Works(t), NEW u, u = Shell!Dispatch(t)
  PROVE  u \in Draining
<1>1. t \in Shells /\ Typed(t) /\ OneAtWork(t)
  BY DEF Draining
<1>2. ASSUME NEW v, Typed(v), v.jobs = t.jobs, u = Shell!Finish(v)
      PROVE  u \in Draining
  <2>1. Typed(u) /\ u.jobs = t.jobs
    BY <1>2, FinishIs
  <2> QED  BY <2>1 DEF Draining, OneAtWork, Typed
<1>3. CASE t.stdin_ = <<>>
  BY <1>1, <1>2, <1>3 DEF Shell!Dispatch
<1>4. CASE t.stdin_ # <<>> /\ Head(t.stdin_) = "quit"
  <2> DEFINE v == [t EXCEPT !.exited_ = TRUE]
  <2>1. v \in Shells /\ v.jobs = t.jobs /\ v.historyPosition_ = t.historyPosition_ /\ v.history_ = t.history_
    BY <1>1 DEF Shells
  <2>2. u = Shell!Finish(v)
    BY <1>4 DEF Shell!Dispatch
  <2> HIDE DEF v
  <2>3. Typed(v)
    BY <1>1, <2>1 DEF Typed
  <2> QED  BY <1>2, <2>1, <2>2, <2>3
<1>5. CASE t.stdin_ # <<>> /\ Head(t.stdin_) # "quit"
  <2> DEFINE job == Shell!Job(Head(t.stdin_))
             q == Append(t.jobs, job)
  <2>1. Head(t.stdin_) \in Words /\ t.jobs \in Seq(JobRecords)
    BY <1>1, <1>5 DEF Shells, Lines
  <2>2. Head(t.stdin_) \in Commanded \ {"complete"}
    BY <1>5, <2>1 DEF Shell!ShellAssumption, Commanded
  <2>3. job \in JobRecords /\ job.listening /\ AtWork(job)
    <3> HIDE DEF job
    <3> SUFFICES job = Shell!Job(Head(t.stdin_))
      BY <2>2, JobIs
    <3> QED  BY DEF job
  <2> HIDE DEF job
  <2>4. /\ q \in Seq(JobRecords) /\ Len(q) = Len(t.jobs) + 1 /\ Len(t.jobs) \in Nat
        /\ q[Len(q)] = job /\ \A i \in 1..Len(t.jobs) : q[i] = t.jobs[i]
    <3>1. Len(t.jobs) \in Nat /\ DOMAIN t.jobs = 1..Len(t.jobs)
      BY <2>1
    <3> QED  BY <2>1, <2>3, <3>1, AppendProperties
  <2> HIDE DEF q
  <2>5. u \in Shells /\ u.jobs = q /\ u.historyPosition_ = t.historyPosition_ /\ u.history_ = t.history_
    <3>1. u = [t EXCEPT !.jobs = q]
      BY <1>5 DEF Shell!Dispatch, q, job
    <3> QED  BY <1>1, <2>4, <3>1 DEF Shells
  <2>6. \A i \in 1..Len(q) : i \in 1..Len(t.jobs) \/ i = Len(q)
    BY <2>4
  <2>7. \A i \in 1..Len(t.jobs) : Left(t.jobs[i]) /\ ~AtWork(t.jobs[i])
    BY <1>1 DEF OneAtWork, Works
  <2>8. \A i \in 1..Len(q) : AtWork(q[i]) => i = Len(q)
    BY <2>4, <2>6, <2>7
  <2>9. OneAtWork(u)
    BY <2>3, <2>4, <2>5, <2>6, <2>7, <2>8 DEF OneAtWork
  <2>10. \A i \in 1..Len(u.jobs) : AtWork(u.jobs[i]) => u.jobs[i].listening
    BY <2>3, <2>4, <2>5, <2>8
  <2> QED  BY <1>1, <2>5, <2>9, <2>10 DEF Draining, Typed
<1> QED  BY <1>3, <1>4, <1>5

(* One character of the input. *)
LEMMA InputCharIs ==
  ASSUME Shell!ShellAssumption, NEW t \in Draining
  PROVE  Shell!InputChar(t) \in Draining
<1>1. t \in Shells /\ Typed(t) /\ OneAtWork(t) /\ \A i \in 1..Len(t.jobs) : AtWork(t.jobs[i]) => t.jobs[i].listening
  BY DEF Draining
<1>2. CASE Shell!Waiting(t) \/ t.buffered_ = <<>>
  BY <1>2 DEF Shell!InputChar
<1>3. CASE ~Shell!Waiting(t) /\ t.buffered_ # <<>>
  <2> DEFINE rest == [t EXCEPT !.buffered_ = Tail(t.buffered_), !.killCount_ = 0]
             next == [rest EXCEPT !.stdin_ = Append(rest.stdin_, Head(t.buffered_))]
  <2>1. t.buffered_ \in Seq(Words \cup {"enter"}) /\ t.stdin_ \in Seq(Words) /\ t.jobs \in Seq(JobRecords)
    BY <1>1 DEF Shells, Lines
  <2>2. Head(t.buffered_) \in Words \cup {"enter"} /\ Tail(t.buffered_) \in Seq(Words \cup {"enter"})
    BY <1>3, <2>1
  <2>3. /\ rest \in Shells /\ rest.jobs = t.jobs /\ rest.stdin_ = t.stdin_
        /\ rest.historyPosition_ = t.historyPosition_ /\ rest.history_ = t.history_
    BY <1>1, <2>2 DEF Shells
  <2>4. rest \in Draining
    <3> HIDE DEF rest
    <3> QED  BY <1>1, <2>3 DEF Draining, Typed, OneAtWork
  <2>5. ~Works(rest)
    <3>1. \A i \in 1..Len(t.jobs) : ~t.jobs[i].listening
      BY <1>3, <2>1 DEF Shell!Waiting
    <3> HIDE DEF rest
    <3> QED  BY <1>1, <2>3, <3>1 DEF Works
  <2>6. Shell!InputChar(t) = IF Head(t.buffered_) = "enter" THEN Shell!Dispatch(rest) ELSE next
    BY <1>3 DEF Shell!InputChar, Shell!Enter
  <2> HIDE DEF rest
  <2>7. CASE Head(t.buffered_) = "enter"
    BY <2>4, <2>5, <2>6, <2>7, DispatchIs
  <2>8. CASE Head(t.buffered_) # "enter"
    <3>1. Append(rest.stdin_, Head(t.buffered_)) \in Lines
      BY <2>1, <2>2, <2>3, <2>8 DEF Lines
    <3>2. next \in Shells /\ next.jobs = rest.jobs /\ next.historyPosition_ = rest.historyPosition_ /\ next.history_ = rest.history_
      BY <2>3, <3>1 DEF Shells
    <3> HIDE DEF next
    <3>3. next \in Draining
      BY <2>4, <3>2 DEF Draining, Typed, OneAtWork
    <3> QED  BY <2>6, <2>8, <3>3
  <2> QED  BY <2>7, <2>8
<1> QED  BY <1>2, <1>3

(* The loop of onInput_: input is held back when a command is awaited. *)
LEMMA DrainIs ==
  ASSUME Shell!ShellAssumption, NEW t \in Draining, NEW v, v = Shell!Drain(t)
  PROVE  ShellOf(v)
<1> DEFINE N == Len(t.buffered_)
           A == Draining
           step == [k \in 1..N |-> [a \in A |-> Shell!InputChar(a)]]
           Is(g) == g = [n \in 0..N |-> IF n = 0 THEN t ELSE Shell!InputChar(g[n - 1])]
           u == CHOOSE u : Is(u)
<1>1. N \in Nat
  BY DEF Draining, Shells
<1>2. \A a \in A : Shell!InputChar(a) \in A
  BY InputCharIs
<1> HIDE DEF A, N
<1>3. step \in [1..N -> [A -> A]] /\ \A k \in 1..N : \A a \in A : step[k][a] = Shell!InputChar(a)
  BY <1>2
<1>4. t \in A
  BY DEF A
<1> HIDE DEF step
<1>5. \E g \in [0..N -> A] : Follows(g, N, t, step)
  BY <1>1, <1>3, <1>4, StepByStep
<1>6. PICK g \in [0..N -> A] : g[0] = t /\ \A k \in 1..N : g[k] = step[k][g[k - 1]]
  BY <1>5 DEF Follows
<1>7. Is(g)
  <2>1. ASSUME NEW n \in 0..N
        PROVE  g[n] = IF n = 0 THEN t ELSE Shell!InputChar(g[n - 1])
    <3>1. CASE n = 0
      BY <1>6, <3>1
    <3>2. CASE n # 0
      <4>1. n \in 1..N /\ n - 1 \in 0..N
        BY <1>1, <3>2
      <4>2. g[n - 1] \in A
        BY <4>1
      <4> QED  BY <1>3, <1>6, <3>2, <4>1, <4>2
    <3> QED  BY <3>1, <3>2
  <2> QED  BY <2>1
<1>8. Is(u)
  BY <1>7
<1> HIDE DEF u
<1>9. u[0] = t /\ \A k \in 0..N : k # 0 => u[k] = Shell!InputChar(u[k - 1])
  <2>1. 0 \in 0..N
    BY <1>1
  <2> QED  BY <1>8, <2>1
<1>10. \A k \in 1..N : u[k - 1] \in A => u[k] \in A
  <2> SUFFICES ASSUME NEW k \in 1..N, u[k - 1] \in A PROVE u[k] \in A
    OBVIOUS
  <2>1. k \in 0..N /\ k # 0
    BY <1>1
  <2>2. u[k] = Shell!InputChar(u[k - 1])
    BY <1>9, <2>1
  <2> QED  BY <1>2, <2>2
<1>11. u[0] \in A
  BY <1>4, <1>9
<1> HIDE DEF Is
<1>12. \A k \in 0..N : u[k] \in A
  BY <1>1, <1>10, <1>11, StaysIn
<1> DEFINE end == u[N]
<1>13. end \in Draining
  BY <1>1, <1>12 DEF A
<1>14. v = [end EXCEPT !.holdInput_ = Shell!Waiting(end)]
  BY DEF Shell!Drain, u, Is, N
<1> HIDE DEF end
<1>15. end \in Shells /\ Typed(end) /\ OneAtWork(end) /\ end.jobs \in Seq(JobRecords)
       /\ \A i \in 1..Len(end.jobs) : AtWork(end.jobs[i]) => end.jobs[i].listening
  BY <1>13 DEF Draining, Shells
<1>16. Shell!Waiting(end) \in BOOLEAN /\ (Shell!Waiting(end) <=> Works(end))
  BY <1>15 DEF Shell!Waiting, Works, OneAtWork, Left
<1>17. /\ v \in Shells /\ v.jobs = end.jobs /\ v.holdInput_ = Shell!Waiting(end)
       /\ v.historyPosition_ = end.historyPosition_ /\ v.history_ = end.history_
  BY <1>14, <1>15, <1>16 DEF Shells
<1> QED  BY <1>15, <1>16, <1>17 DEF ShellOf, Typed, OneAtWork, Works

(* One job changes, and is at work as before. *)
LEMMA JobSet ==
  ASSUME NEW t, ShellOf(t), ~t.exited_, NEW j \in 1..Len(t.jobs), AtWork(t.jobs[j]),
         NEW job \in JobRecords, AtWork(job), NEW u, u = [t EXCEPT !.jobs[j] = job]
  PROVE  ShellOf(u)
<1> DEFINE q == [t.jobs EXCEPT ![j] = job]
<1>1. t \in Shells /\ t.jobs \in Seq(JobRecords) /\ OneAtWork(t) /\ (t.holdInput_ <=> Works(t)) /\ Typed(t)
  BY DEF ShellOf, Typed, Shells
<1>2. /\ q \in Seq(JobRecords) /\ Len(q) = Len(t.jobs)
      /\ \A i \in 1..Len(t.jobs) : q[i] = IF i = j THEN job ELSE t.jobs[i]
  BY <1>1
<1>3. u = [t EXCEPT !.jobs = q]
  OBVIOUS
<1> HIDE DEF q
<1>4. /\ u \in Shells /\ u.jobs = q /\ u.holdInput_ = t.holdInput_ /\ u.exited_ = t.exited_
      /\ u.historyPosition_ = t.historyPosition_ /\ u.history_ = t.history_
  BY <1>1, <1>2, <1>3 DEF Shells
<1>5. OneAtWork(u)
  BY <1>1, <1>2, <1>4 DEF OneAtWork
<1>6. Works(u) /\ Works(t)
  BY <1>1, <1>2, <1>4 DEF Works
<1> QED  BY <1>1, <1>4, <1>5, <1>6 DEF ShellOf, Typed

(* A job that does not wait for its dialog is at work, alone. *)
LEMMA AtWorkIs ==
  ASSUME ShellInv, ~c.exited_, NEW j \in DOMAIN c.jobs,
         c.jobs[j].listening \/ c.jobs[j].todo = <<>> \/ Head(c.jobs[j].todo) # "pick"
  PROVE  /\ j \in 1..Len(c.jobs) /\ c.jobs \in Seq(JobRecords) /\ c.jobs[j] \in JobRecords /\ AtWork(c.jobs[j])
         /\ \A i \in 1..Len(c.jobs) : i # j => Left(c.jobs[i]) /\ ~AtWork(c.jobs[i])
<1>1. c.jobs \in Seq(JobRecords) /\ OneAtWork(c)
  BY DEF ShellInv, ShellOf, Typed, Shells
<1>2. j \in 1..Len(c.jobs) /\ c.jobs[j] \in JobRecords
  BY <1>1
<1>3. AtWork(c.jobs[j])
  BY <1>1, <1>2 DEF OneAtWork, Left
<1> QED  BY <1>1, <1>2, <1>3 DEF OneAtWork

(* A job goes on after a reply. *)
LEMMA AfterReplyIs ==
  ASSUME NEW job \in JobRecords, AtWork(job), job.todo # <<>>, NEW more \in BOOLEAN
  PROVE  Shell!AfterReply(job, more) \in JobRecords /\ AtWork(Shell!AfterReply(job, more))
<1> DEFINE rest == Tail(job.todo)
           closed == [job EXCEPT !.todo = rest]
           opened == [closed EXCEPT !.open = job.open + 1]
           shut == [closed EXCEPT !.open = job.open - 1]
<1>1. /\ rest \in Seq(Steps) /\ job.open \in Int /\ job \in JobFields
      /\ Balanced(rest, job.open + Opening(Head(job.todo)))
  <2>1. job \in JobFields /\ job.todo \in Seq(Steps) /\ job.open \in Int /\ Balanced(job.todo, job.open)
    BY DEF JobRecords, JobFields
  <2> QED  BY <2>1, BalancedTail
<1> HIDE DEF rest
<1>2. closed \in JobFields /\ closed.cmd = job.cmd /\ closed.listening = job.listening /\ closed.todo = rest /\ closed.open = job.open
  BY <1>1 DEF JobFields
<1>3. /\ opened \in JobFields /\ opened.cmd = job.cmd /\ opened.listening = job.listening
      /\ opened.todo = rest /\ opened.open = job.open + 1
      /\ shut \in JobFields /\ shut.cmd = job.cmd /\ shut.listening = job.listening
      /\ shut.todo = rest /\ shut.open = job.open - 1
  <2> HIDE DEF closed
  <2> QED  BY <1>1, <1>2 DEF JobFields
<1> DEFINE after == Shell!AfterReply(job, more)
<1> HIDE DEF closed, opened, shut
<1>4. CASE Head(job.todo) = "open"
  <2>1. after = opened
    BY <1>4 DEF Shell!AfterReply, rest, opened, closed
  <2>2. Balanced(opened.todo, opened.open)
    BY <1>1, <1>3, <1>4 DEF Opening
  <2> QED  BY <1>3, <2>1, <2>2 DEF AtWork, JobRecords
<1>5. CASE Head(job.todo) = "close"
  <2>1. after = shut
    BY <1>5 DEF Shell!AfterReply, rest, shut, closed
  <2>2. Balanced(shut.todo, shut.open)
    <3>1. job.open + Opening("close") = job.open - 1
      BY <1>1 DEF Opening
    <3> QED  BY <1>1, <1>3, <1>5, <3>1
  <2> QED  BY <1>3, <2>1, <2>2 DEF AtWork, JobRecords
<1>6. CASE Head(job.todo) \notin {"open", "close"}
  <2>1. after \in {job, closed}
    BY <1>6 DEF Shell!AfterReply, rest, closed
  <2>2. Balanced(closed.todo, closed.open)
    <3>1. job.open + Opening(Head(job.todo)) = job.open
      BY <1>1, <1>6 DEF Opening
    <3> QED  BY <1>1, <1>2, <3>1
  <2> QED  BY <1>2, <2>1, <2>2 DEF AtWork, JobRecords
<1> QED  BY <1>4, <1>5, <1>6

(* After an error what is open is closed. *)
LEMMA AfterErrorIs ==
  ASSUME NEW job \in JobRecords, AtWork(job)
  PROVE  Shell!AfterError(job) \in JobRecords /\ AtWork(Shell!AfterError(job))
<1> DEFINE nexts == {i \in DOMAIN job.todo : job.todo[i] = "next"}
           first == CHOOSE i \in nexts : \A k \in nexts : i <= k
           rest == IF nexts = {} THEN <<>> ELSE SubSeq(job.todo, first, Len(job.todo))
           closes == [i \in 1..job.open |-> "close"]
           todo == closes \o rest
           u == [job EXCEPT !.todo = todo, !.failed = rest = <<>>]
<1>1. job \in JobFields /\ job.todo \in Seq(Steps) /\ Len(job.todo) \in Nat /\ job.open \in Nat /\ Balanced(job.todo, job.open)
  <2>1. job \in JobFields /\ job.todo \in Seq(Steps) /\ Len(job.todo) \in Nat /\ Balanced(job.todo, job.open)
    BY DEF JobRecords, JobFields
  <2> QED  BY <2>1, BalancedEnds
<1>2. rest \in Seq(Steps) /\ Balanced(rest, 0)
  <2>1. CASE nexts = {}
    <3>1. <<>> \in Seq(Steps) /\ <<>> = [i \in 1..0 |-> "close"]
      OBVIOUS
    <3> QED  BY <2>1, <3>1, BalancedCloses
  <2>2. CASE nexts # {}
    <3>1. nexts \in SUBSET (1..Len(job.todo))
      BY <1>1
    <3>2. \E i \in nexts : \A k \in nexts : i <= k
      <4>1. nexts \in SUBSET Nat
        BY <1>1, <3>1
      <4> HIDE DEF nexts
      <4> QED  BY <2>2, <4>1, Least
    <3>3. first \in nexts
      BY <3>2
    <3>4. first \in 1..Len(job.todo) /\ job.todo[first] = "next"
      BY <3>1, <3>3
    <3> HIDE DEF first, nexts
    <3>5. rest = SubSeq(job.todo, first, Len(job.todo))
      BY <2>2
    <3> HIDE DEF rest
    <3> QED  BY <1>1, <3>4, <3>5, BalancedFrom
  <2> QED  BY <2>1, <2>2
<1>3. closes \in Seq(Steps) /\ Balanced(closes, job.open)
  BY <1>1, BalancedCloses
<1> HIDE DEF closes, rest
<1>4. todo \in Seq(Steps) /\ Balanced(todo, job.open)
  BY <1>2, <1>3, ConcatProperties, BalancedConcat
<1> HIDE DEF todo
<1>5. u \in JobRecords /\ u.cmd = job.cmd /\ u.listening = job.listening
  <2>1. u \in JobFields /\ u.cmd = job.cmd /\ u.listening = job.listening /\ u.todo = todo /\ u.open = job.open
    BY <1>1, <1>4 DEF JobFields
  <2> HIDE DEF u
  <2> QED  BY <1>4, <2>1 DEF JobRecords
<1>6. Shell!AfterError(job) = u
  BY DEF Shell!AfterError, todo, closes, rest
<1> HIDE DEF u
<1> QED  BY <1>5, <1>6 DEF AtWork

(* The server's replies and the tests between files. *)
LEMMA ShellReplies ==
  ASSUME ShellInv, NEW j, Shell!Reply(j) \/ Shell!ErrorReply(j) \/ Shell!Between(j) \/ Shell!Pick(j)
  PROVE  ShellInv'
<1>1. ~c.exited_ /\ j \in DOMAIN c.jobs /\ c.jobs[j].todo # <<>>
      /\ (c.jobs[j].listening \/ Head(c.jobs[j].todo) # "pick")
  BY DEF Shell!Reply, Shell!ErrorReply, Shell!Between, Shell!Pick, Shell!Asking
<1>2. j \in 1..Len(c.jobs) /\ c.jobs[j] \in JobRecords /\ AtWork(c.jobs[j])
  BY <1>1, AtWorkIs
<1>3. SUFFICES \E job \in JobRecords : AtWork(job) /\ c' = [c EXCEPT !.jobs[j] = job]
  <2>1. PICK job \in JobRecords : AtWork(job) /\ c' = [c EXCEPT !.jobs[j] = job]
    BY <1>3
  <2>2. ShellOf(c')
    BY <1>1, <1>2, <2>1, JobSet DEF ShellInv
  <2> QED  BY <2>2 DEF ShellInv, ShellOf, Typed, OneAtWork, Works
<1>4. CASE Shell!Reply(j)
  <2>1. PICK more \in BOOLEAN : c' = [c EXCEPT !.jobs[j] = Shell!AfterReply(c.jobs[j], more)]
    BY <1>4 DEF Shell!Reply
  <2> QED  BY <1>1, <1>2, <2>1, AfterReplyIs
<1>5. CASE Shell!ErrorReply(j)
  BY <1>2, <1>5, AfterErrorIs DEF Shell!ErrorReply
<1>6. ASSUME NEW todo \in Seq(Steps), Balanced(todo, c.jobs[j].open), c' = [c EXCEPT !.jobs[j].todo = todo]
      PROVE  \E job \in JobRecords : AtWork(job) /\ c' = [c EXCEPT !.jobs[j] = job]
  <2> DEFINE job == [c.jobs[j] EXCEPT !.todo = todo]
  <2>1. /\ job \in JobFields /\ job.cmd = c.jobs[j].cmd /\ job.listening = c.jobs[j].listening
        /\ job.todo = todo /\ job.open = c.jobs[j].open
    BY <1>2, <1>6 DEF JobRecords, JobFields
  <2>2. c' = [c EXCEPT !.jobs[j] = job]
    BY <1>6
  <2> HIDE DEF job
  <2> QED  BY <1>2, <1>6, <2>1, <2>2 DEF AtWork, JobRecords
<1>7. /\ <<>> \in Seq(Steps) /\ Tail(c.jobs[j].todo) \in Seq(Steps)
      /\ Balanced(Tail(c.jobs[j].todo), c.jobs[j].open + Opening(Head(c.jobs[j].todo)))
      /\ Head(c.jobs[j].todo) \in {"next", "check"} => c.jobs[j].open = 0
      /\ c.jobs[j].open \in Int
  <2>1. c.jobs[j].todo \in Seq(Steps) /\ c.jobs[j].open \in Int /\ Balanced(c.jobs[j].todo, c.jobs[j].open)
    BY <1>2 DEF JobRecords, JobFields
  <2> QED  BY <1>1, <2>1, NoElements, BalancedTail
<1>8. CASE Shell!Between(j)
  <2>1. c.jobs[j].open = 0 /\ c.jobs[j].open + Opening(Head(c.jobs[j].todo)) = 0
    BY <1>7, <1>8 DEF Shell!Between, Opening
  <2>2. Balanced(<<>>, 0)
    <3>1. <<>> = [i \in 1..0 |-> "close"]
      OBVIOUS
    <3> QED  BY <3>1, BalancedCloses
  <2>3. \E todo \in {<<>>, Tail(c.jobs[j].todo)} : c' = [c EXCEPT !.jobs[j].todo = todo]
    BY <1>8 DEF Shell!Between
  <2> QED  BY <1>6, <1>7, <2>1, <2>2, <2>3
<1>9. CASE Shell!Pick(j)
  <2>1. c.jobs[j].open + Opening(Head(c.jobs[j].todo)) = c.jobs[j].open
    BY <1>7, <1>9 DEF Shell!Pick, Opening
  <2> QED  BY <1>6, <1>7, <1>9, <2>1 DEF Shell!Pick
<1> QED  BY <1>4, <1>5, <1>8, <1>9

(* What is left of the jobs when one goes. *)
LEMMA WithoutIs ==
  ASSUME NEW t, Typed(t), NEW j \in 1..Len(t.jobs), NEW u, u = Shell!Without(t, j)
  PROVE  /\ Typed(u) /\ u.exited_ = t.exited_ /\ u.holdInput_ = t.holdInput_
         /\ \A i \in 1..Len(u.jobs) : \E k \in 1..Len(t.jobs) : k # j /\ u.jobs[i] = t.jobs[k]
<1> DEFINE a == SubSeq(t.jobs, 1, j - 1)
           b == SubSeq(t.jobs, j + 1, Len(t.jobs))
           q == a \o b
<1>1. t \in Shells /\ t.jobs \in Seq(JobRecords) /\ Len(t.jobs) \in Nat
  BY DEF Typed, Shells
<1>2. a \in Seq(JobRecords) /\ Len(a) = j - 1 /\ \A i \in 1..(j - 1) : a[i] = t.jobs[i]
  BY <1>1
<1>3. b \in Seq(JobRecords) /\ Len(b) = Len(t.jobs) - j /\ \A i \in 1..(Len(t.jobs) - j) : b[i] = t.jobs[j + i]
  BY <1>1
<1> HIDE DEF a, b
<1>4. /\ q \in Seq(JobRecords) /\ Len(q) = Len(t.jobs) - 1
      /\ \A i \in 1..Len(q) : q[i] = IF i <= j - 1 THEN a[i] ELSE b[i - (j - 1)]
  <2>1. /\ q \in Seq(JobRecords) /\ Len(q) = Len(a) + Len(b)
        /\ \A i \in 1..(Len(a) + Len(b)) : q[i] = IF i <= Len(a) THEN a[i] ELSE b[i - Len(a)]
    BY <1>2, <1>3, ConcatProperties
  <2>2. Len(a) + Len(b) = Len(t.jobs) - 1
    BY <1>1, <1>2, <1>3
  <2> HIDE DEF q
  <2> QED  BY <1>2, <2>1, <2>2
<1>5. ASSUME NEW i \in 1..Len(q)
      PROVE  \E k \in 1..Len(t.jobs) : k # j /\ q[i] = t.jobs[k]
  <2>1. CASE i <= j - 1
    <3>1. i \in 1..Len(t.jobs) /\ i # j /\ q[i] = t.jobs[i]
      BY <1>1, <1>2, <1>4, <1>5, <2>1
    <3> QED  BY <3>1
  <2>2. CASE i > j - 1
    <3>1. i + 1 \in 1..Len(t.jobs) /\ i + 1 # j /\ i - (j - 1) \in 1..(Len(t.jobs) - j) /\ j + (i - (j - 1)) = i + 1
      BY <1>1, <1>4, <1>5, <2>2
    <3>2. q[i] = t.jobs[i + 1]
      BY <1>3, <1>4, <1>5, <2>2, <3>1
    <3> QED  BY <3>1, <3>2
  <2> QED  BY <1>1, <1>4, <1>5, <2>1, <2>2
<1>6. u = [t EXCEPT !.jobs = q]
  BY DEF Shell!Without, Shell!RemoveAt, a, b
<1> HIDE DEF q
<1>7. /\ u \in Shells /\ u.jobs = q /\ u.exited_ = t.exited_ /\ u.holdInput_ = t.holdInput_
      /\ u.historyPosition_ = t.historyPosition_ /\ u.history_ = t.history_
  BY <1>1, <1>4, <1>6 DEF Shells
<1> QED  BY <1>5, <1>7 DEF Typed

(* Once nothing but dialogs is left the loop of onInput_ goes on. *)
LEMMA GoesOn ==
  ASSUME Shell!ShellAssumption, NEW t, Typed(t), \A i \in 1..Len(t.jobs) : Left(t.jobs[i])
  PROVE  ShellOf(Shell!Drain(Shell!Finish(t)))
<1> DEFINE v == Shell!Finish(t)
<1>1. Typed(v) /\ v.jobs = t.jobs
  BY FinishIs
<1> HIDE DEF v
<1>2. v \in Draining
  BY <1>1 DEF Draining, OneAtWork, Typed, Left, AtWork
<1> QED  BY <1>2, DrainIs DEF v

(* A dialog of put is given up. *)
LEMMA ShellCancels ==
  ASSUME Shell!ShellAssumption, ShellInv, NEW j, Shell!CancelCheck(j)
  PROVE  ShellInv'
<1> DEFINE job == [c.jobs[j] EXCEPT !.listening = FALSE, !.cmd = "upload"]
           q == [c.jobs EXCEPT ![j] = job]
           t == [c EXCEPT !.jobs = q]
<1>1. /\ ~c.exited_ /\ j \in DOMAIN c.jobs /\ c.jobs[j].todo # <<>> /\ Head(c.jobs[j].todo) = "pick"
      /\ c.jobs[j].listening
      /\ c' = Shell!Drain(Shell!Finish([c EXCEPT !.jobs[j].listening = FALSE, !.jobs[j].cmd = "upload"]))
  BY DEF Shell!CancelCheck, Shell!Asking
<1>2. /\ j \in 1..Len(c.jobs) /\ c.jobs \in Seq(JobRecords) /\ c.jobs[j] \in JobRecords
      /\ \A i \in 1..Len(c.jobs) : i # j => Left(c.jobs[i])
  BY <1>1, AtWorkIs
<1>3. Typed(c) /\ c \in Shells
  BY DEF ShellInv, ShellOf, Typed
<1>4. job \in JobRecords /\ Left(job)
  <2>1. /\ job \in JobFields /\ job.cmd = "upload" /\ job.listening = FALSE
        /\ job.todo = c.jobs[j].todo /\ job.open = c.jobs[j].open
    BY <1>2 DEF JobRecords, JobFields
  <2> HIDE DEF job
  <2> QED  BY <1>1, <1>2, <2>1 DEF Left, JobRecords
<1>5. [c EXCEPT !.jobs[j].listening = FALSE, !.jobs[j].cmd = "upload"] = t
  BY <1>2, <1>3 DEF Shells
<1> HIDE DEF job
<1>6. q \in Seq(JobRecords) /\ Len(q) = Len(c.jobs) /\ \A i \in 1..Len(c.jobs) : q[i] = IF i = j THEN job ELSE c.jobs[i]
  BY <1>2, <1>4
<1> HIDE DEF q
<1>7. t \in Shells /\ t.jobs = q /\ t.historyPosition_ = c.historyPosition_ /\ t.history_ = c.history_
  BY <1>3, <1>6 DEF Shells
<1>8. c' = Shell!Drain(Shell!Finish(t))
  BY <1>1, <1>5
<1> HIDE DEF t
<1>9. Typed(t) /\ \A i \in 1..Len(t.jobs) : Left(t.jobs[i])
  BY <1>2, <1>3, <1>4, <1>6, <1>7 DEF Typed
<1>10. ShellOf(c')
  BY <1>8, <1>9, GoesOn
<1> QED  BY <1>10 DEF ShellInv, ShellOf, Typed, OneAtWork, Works

(* The end of a command, of a completion, or of an upload nobody has the   *)
(* promise of.                                                             *)
LEMMA ShellEnds ==
  ASSUME Shell!ShellAssumption, ShellInv, NEW j, Shell!Ends(j)
  PROVE  ShellInv'
<1>1. ~c.exited_ /\ j \in DOMAIN c.jobs /\ c.jobs[j].todo = <<>> /\ c' = Shell!End(c, j)
  BY DEF Shell!Ends
<1>2. /\ j \in 1..Len(c.jobs) /\ c.jobs \in Seq(JobRecords) /\ c.jobs[j] \in JobRecords /\ AtWork(c.jobs[j])
      /\ \A i \in 1..Len(c.jobs) : i # j => Left(c.jobs[i])
  BY <1>1, AtWorkIs
<1>3. Typed(c) /\ c \in Shells
  BY DEF ShellInv, ShellOf, Typed
<1> DEFINE job == c.jobs[j]
<1>4. SUFFICES ShellOf(c')
  BY DEF ShellInv, ShellOf, Typed, OneAtWork, Works
<1>5. \A t : Typed(t) /\ Len(t.jobs) = Len(c.jobs) /\ (\A i \in 1..Len(t.jobs) : i # j => Left(t.jobs[i]))
             => Typed(Shell!Without(t, j)) /\ \A i \in 1..Len(Shell!Without(t, j).jobs) : Left(Shell!Without(t, j).jobs[i])
  <2> SUFFICES ASSUME NEW t, Typed(t), Len(t.jobs) = Len(c.jobs), \A i \in 1..Len(t.jobs) : i # j => Left(t.jobs[i]),
                      NEW u, u = Shell!Without(t, j)
               PROVE  Typed(u) /\ \A i \in 1..Len(u.jobs) : Left(u.jobs[i])
    OBVIOUS
  <2>1. Typed(u) /\ \A i \in 1..Len(u.jobs) : \E k \in 1..Len(t.jobs) : k # j /\ u.jobs[i] = t.jobs[k]
    BY <1>2, WithoutIs
  <2> QED  BY <2>1
<1>6. CASE job.cmd = "put" /\ job.failed
  <2> DEFINE q == [i \in DOMAIN c.jobs |-> [c.jobs[i] EXCEPT !.listening = FALSE]]
             t == [c EXCEPT !.jobs = q]
  <2>1. job.listening /\ Shell!Waiting(c)
    BY <1>1, <1>2, <1>6 DEF AtWork, Shell!Waiting
  <2>2. c' = Shell!Drain(Shell!Finish(Shell!Without(t, j)))
    BY <1>1, <1>6, <2>1 DEF Shell!End, Shell!Unhandled, Shell!Deaf
  <2>3. q \in Seq(JobRecords) /\ Len(q) = Len(c.jobs)
    <3>1. ASSUME NEW i \in 1..Len(c.jobs)
          PROVE  [c.jobs[i] EXCEPT !.listening = FALSE] \in JobRecords
      <4> DEFINE one == c.jobs[i]
      <4>1. one \in JobRecords
        BY <1>2
      <4> HIDE DEF one
      <4>2. [one EXCEPT !.listening = FALSE] \in JobRecords
        BY <4>1 DEF JobRecords, JobFields
      <4> QED  BY <4>2 DEF one
    <3>2. DOMAIN c.jobs = 1..Len(c.jobs) /\ Len(c.jobs) \in Nat
      BY <1>2
    <3> QED  BY <3>1, <3>2
  <2>4. \A i \in 1..Len(q) : i # j => Left(q[i])
    <3> SUFFICES ASSUME NEW i \in 1..Len(q), i # j PROVE Left(q[i])
      OBVIOUS
    <3>1. i \in DOMAIN c.jobs /\ Left(c.jobs[i]) /\ c.jobs[i] \in JobRecords
      BY <1>2, <2>3
    <3>2. q[i] = [c.jobs[i] EXCEPT !.listening = FALSE]
      BY <3>1
    <3> HIDE DEF q
    <3>3. q[i].listening = FALSE /\ q[i].cmd = c.jobs[i].cmd /\ q[i].todo = c.jobs[i].todo
      BY <3>1, <3>2 DEF JobRecords, JobFields
    <3> QED  BY <3>1, <3>3 DEF Left
  <2> HIDE DEF q
  <2>5. t \in Shells /\ t.jobs = q /\ t.historyPosition_ = c.historyPosition_ /\ t.history_ = c.history_
    BY <1>3, <2>3 DEF Shells
  <2> HIDE DEF t
  <2>6. Typed(t)
    BY <1>3, <2>5 DEF Typed
  <2> DEFINE w == Shell!Without(t, j)
  <2>7. Typed(w) /\ \A i \in 1..Len(w.jobs) : Left(w.jobs[i])
    BY <1>5, <2>3, <2>4, <2>5, <2>6
  <2> HIDE DEF w
  <2>8. ShellOf(Shell!Drain(Shell!Finish(w)))
    BY <2>7, GoesOn
  <2> QED  BY <2>2, <2>8 DEF w
<1> DEFINE w == Shell!Without(c, j)
<1>7. Typed(w) /\ \A i \in 1..Len(w.jobs) : Left(w.jobs[i])
  BY <1>2, <1>3, <1>5
<1>8. CASE job.cmd = "complete"
  <2> DEFINE u == [w EXCEPT !.holdInput_ = FALSE]
  <2>1. c' = u
    <3>1. /\ ~(c.jobs[j].cmd \in {"put", "upload"} /\ c.jobs[j].failed)
          /\ ~(c.jobs[j].cmd = "upload" /\ ~c.jobs[j].failed)
          /\ ~c.jobs[j].listening /\ c.jobs[j].cmd = "complete"
      BY <1>2, <1>8 DEF AtWork
    <3> QED  BY <1>1, <3>1 DEF Shell!End
  <2> HIDE DEF w
  <2>2. /\ u \in Shells /\ u.jobs = w.jobs /\ u.holdInput_ = FALSE
        /\ u.historyPosition_ = w.historyPosition_ /\ u.history_ = w.history_
    BY <1>7 DEF Typed, Shells
  <2> HIDE DEF u
  <2>3. ShellOf(u)
    BY <1>7, <2>2 DEF ShellOf, Typed, OneAtWork, Works, Left, AtWork
  <2> QED  BY <2>1, <2>3
<1>9. CASE job.cmd # "complete" /\ ~(job.cmd = "put" /\ job.failed)
  <2>1. job.listening /\ job.cmd # "upload"
    BY <1>2, <1>9 DEF AtWork
  <2>2. c' = Shell!Drain(Shell!Finish(w))
    BY <1>1, <1>9, <2>1 DEF Shell!End
  <2> HIDE DEF w
  <2> QED  BY <1>7, <2>2, GoesOn
<1> QED  BY <1>6, <1>8, <1>9

(* A key. *)
LEMMA SameJobs ==
  ASSUME ShellInv, NEW u, u \in Shells, u.jobs = c.jobs, u.holdInput_ = c.holdInput_,
         -1 <= u.historyPosition_, u.historyPosition_ < Len(u.history_), ~u.exited_ => ~c.exited_
  PROVE  ShellOf(u)
BY DEF ShellInv, ShellOf, Typed, OneAtWork, Works

(* The user types. *)
LEMMA ShellTypes ==
  ASSUME Shell!ShellAssumption, ShellInv, Shell!Type
  PROVE  ShellInv'
<1>1. SUFFICES ShellOf(c')
  BY DEF ShellInv, ShellOf, Typed, OneAtWork, Works
<1>0. PICK w \in Words : \E string \in {<<w>>, <<"enter">>, <<w, "enter">>} : c' = Shell!OnInput(c, string)
  BY DEF Shell!Type, Shell!Enter
<1>2. PICK string \in {<<w>>, <<"enter">>, <<w, "enter">>} : c' = Shell!OnInput(c, string)
  BY <1>0
<1>3. ~c.exited_ /\ Typed(c) /\ c \in Shells
  BY DEF Shell!Type, Shell!Press, ShellInv, ShellOf, Typed
<1> DEFINE b == c.buffered_ \o string
           queued == [c EXCEPT !.buffered_ = b]
<1>4. b \in Seq(Words \cup {"enter"})
  <2>1. string \in Seq(Words \cup {"enter"})
    BY <1>2, OneElement, TwoElements
  <2> QED  BY <1>3, <2>1, ConcatProperties DEF Shells
<1>5. c' = IF c.holdInput_ THEN queued ELSE Shell!Drain(queued)
  BY <1>2 DEF Shell!OnInput
<1> HIDE DEF b
<1>6. /\ queued \in Shells /\ queued.jobs = c.jobs /\ queued.holdInput_ = c.holdInput_ /\ queued.exited_ = c.exited_
      /\ queued.historyPosition_ = c.historyPosition_ /\ queued.history_ = c.history_
  BY <1>3, <1>4 DEF Shells
<1> HIDE DEF queued
<1>7. CASE c.holdInput_
  BY <1>3, <1>5, <1>6, <1>7, SameJobs DEF Typed
<1>8. CASE ~c.holdInput_
  <2>1. \A i \in 1..Len(c.jobs) : Left(c.jobs[i]) /\ ~AtWork(c.jobs[i])
    BY <1>3, <1>8 DEF ShellInv, ShellOf, OneAtWork, Works
  <2>2. queued \in Draining
    BY <1>3, <1>6, <2>1 DEF Draining, Typed, OneAtWork
  <2> QED  BY <1>5, <1>8, <2>2, DrainIs
<1> QED  BY <1>7, <1>8

(* A completion begins, alone. *)
LEMMA ShellCompletes ==
  ASSUME ShellInv, Shell!Tab
  PROVE  ShellInv'
<1> DEFINE job == Shell!Job("complete")
           q == Append(c.jobs, job)
           u == [c EXCEPT !.holdInput_ = TRUE, !.jobs = q]
<1>1. ~c.exited_ /\ ~c.holdInput_ /\ Typed(c) /\ c \in Shells /\ c' = u
  BY DEF Shell!Tab, Shell!Press, ShellInv, ShellOf, Typed
<1>2. \A i \in 1..Len(c.jobs) : Left(c.jobs[i]) /\ ~AtWork(c.jobs[i])
  BY <1>1 DEF ShellInv, ShellOf, OneAtWork, Works
<1>3. job \in JobRecords /\ AtWork(job)
  <2>1. "complete" \in Commanded
    BY DEF Commanded
  <2> HIDE DEF job
  <2> SUFFICES job = Shell!Job("complete")
    BY <2>1, JobIs
  <2> QED  BY DEF job
<1> HIDE DEF job
<1>4. /\ q \in Seq(JobRecords) /\ Len(q) = Len(c.jobs) + 1 /\ Len(c.jobs) \in Nat
      /\ q[Len(q)] = job /\ \A i \in 1..Len(c.jobs) : q[i] = c.jobs[i]
  <2>1. c.jobs \in Seq(JobRecords)
    BY <1>1 DEF Shells
  <2>2. Len(c.jobs) \in Nat /\ DOMAIN c.jobs = 1..Len(c.jobs)
    BY <2>1
  <2> QED  BY <1>3, <2>1, <2>2, AppendProperties
<1> HIDE DEF q
<1>5. /\ u \in Shells /\ u.jobs = q /\ u.holdInput_ = TRUE
      /\ u.historyPosition_ = c.historyPosition_ /\ u.history_ = c.history_
  BY <1>1, <1>4 DEF Shells
<1> HIDE DEF u
<1>6. \A i \in 1..Len(q) : i \in 1..Len(c.jobs) \/ i = Len(q)
  BY <1>4
<1>7. OneAtWork(u)
  BY <1>2, <1>3, <1>4, <1>5, <1>6 DEF OneAtWork
<1>8. Works(u)
  BY <1>3, <1>4, <1>5 DEF Works
<1>9. ShellOf(u)
  BY <1>1, <1>5, <1>7, <1>8 DEF ShellOf, Typed
<1> QED  BY <1>1, <1>9 DEF ShellInv, ShellOf, Typed, OneAtWork, Works

(* A key that starts nothing. *)
LEMMA ShellKeys ==
  ASSUME ShellInv, \/ Shell!CtrlC \/ Shell!CtrlBackslash \/ Shell!CtrlD \/ Shell!Erase \/ Shell!Up \/ Shell!Down
  PROVE  ShellInv'
<1>1. ~c.exited_ /\ Typed(c) /\ c \in Shells
  BY DEF Shell!CtrlC, Shell!CtrlBackslash, Shell!CtrlD, Shell!Erase, Shell!Up, Shell!Down, Shell!Press,
         ShellInv, ShellOf, Typed
<1>2. SUFFICES /\ c' \in Shells /\ c'.jobs = c.jobs /\ c'.holdInput_ = c.holdInput_
               /\ c'.history_ = c.history_ /\ -1 <= c'.historyPosition_ /\ c'.historyPosition_ < Len(c.history_)
  <2>1. ShellOf(c')
    BY <1>1, <1>2, SameJobs
  <2> QED  BY <2>1 DEF ShellInv, ShellOf, Typed, OneAtWork, Works
<1>3. <<>> \in Lines /\ c.stdin_ \in Lines /\ c.history_ \in Seq(Lines) /\ c.historyStash_ \in Lines
      /\ -1 <= c.historyPosition_ /\ c.historyPosition_ < Len(c.history_) /\ c.historyPosition_ \in Int
  BY <1>1, NoElements DEF Shells, Lines, Typed, Histories
<1>4. ASSUME NEW l \in Lines, c' = [c EXCEPT !.stdin_ = l]
      PROVE  /\ c' \in Shells /\ c'.jobs = c.jobs /\ c'.holdInput_ = c.holdInput_
             /\ c'.history_ = c.history_ /\ -1 <= c'.historyPosition_ /\ c'.historyPosition_ < Len(c.history_)
  BY <1>1, <1>3, <1>4 DEF Shells
<1>5. CASE Shell!CtrlC
  <2>1. CASE c.holdInput_
    <3>1. c' = [c EXCEPT !.userInterrupted_ = TRUE]
      BY <1>5, <2>1 DEF Shell!CtrlC
    <3> QED  BY <1>1, <1>3, <3>1 DEF Shells
  <2>2. CASE ~c.holdInput_
    <3>1. c' = [c EXCEPT !.stdin_ = <<>>]
      BY <1>5, <2>2 DEF Shell!CtrlC
    <3> QED  BY <1>3, <1>4, <3>1
  <2> QED  BY <2>1, <2>2
<1>6. CASE Shell!CtrlBackslash
  <2> DEFINE killed == (c.killCount_ = 2)
  <2>1. c' = [c EXCEPT !.killCount_ = c.killCount_ + 1, !.exited_ = killed]
    BY <1>6 DEF Shell!CtrlBackslash
  <2>2. killed \in BOOLEAN
    OBVIOUS
  <2> HIDE DEF killed
  <2> DEFINE d == [c EXCEPT !.killCount_ = c.killCount_ + 1]
  <2>3. /\ d \in Shells /\ d.jobs = c.jobs /\ d.holdInput_ = c.holdInput_
        /\ d.history_ = c.history_ /\ d.historyPosition_ = c.historyPosition_
    BY <1>1 DEF Shells
  <2>4. c' = [d EXCEPT !.exited_ = killed]
    BY <2>1
  <2> HIDE DEF d
  <2> QED  BY <1>3, <2>2, <2>3, <2>4 DEF Shells
<1>7. CASE Shell!CtrlD
  <2>1. c' = [c EXCEPT !.exited_ = TRUE]
    BY <1>7 DEF Shell!CtrlD
  <2> QED  BY <1>1, <1>3, <2>1 DEF Shells
<1>8. CASE Shell!Erase
  <2>1. c.stdin_ # <<>> /\ c' \in {[c EXCEPT !.stdin_ = Shell!Front(c.stdin_)], [c EXCEPT !.stdin_ = <<>>]}
    BY <1>8 DEF Shell!Erase
  <2>2. Shell!Front(c.stdin_) \in Lines
    BY <1>3, <2>1 DEF Shell!Front, Lines
  <2> QED  BY <1>3, <1>4, <2>1, <2>2
<1>9. CASE Shell!Up
  <2> DEFINE l == c.history_[c.historyPosition_ + 2]
             stash == IF c.historyPosition_ = -1 THEN c.stdin_ ELSE c.historyStash_
             p == c.historyPosition_ + 1
  <2>1. /\ c.historyPosition_ + 1 < Len(c.history_)
        /\ c' = [c EXCEPT !.historyPosition_ = p, !.stdin_ = l, !.historyStash_ = stash]
    BY <1>9 DEF Shell!Up
  <2>2. l \in Lines /\ stash \in Lines /\ p \in Int /\ -1 <= p /\ p < Len(c.history_)
    BY <1>3, <2>1
  <2> HIDE DEF l, stash, p
  <2> DEFINE d == [c EXCEPT !.historyPosition_ = p]
  <2>3. /\ d \in Shells /\ d.jobs = c.jobs /\ d.holdInput_ = c.holdInput_
        /\ d.history_ = c.history_ /\ d.historyPosition_ = p
    BY <1>1, <2>2 DEF Shells
  <2>4. c' = [d EXCEPT !.stdin_ = l, !.historyStash_ = stash]
    BY <2>1
  <2> HIDE DEF d
  <2> QED  BY <2>2, <2>3, <2>4 DEF Shells
<1>10. CASE Shell!Down
  <2> DEFINE l == IF c.historyPosition_ = 0 THEN c.historyStash_ ELSE c.history_[c.historyPosition_]
             p == c.historyPosition_ - 1
  <2>1. c.historyPosition_ >= 0 /\ c' = [c EXCEPT !.historyPosition_ = p, !.stdin_ = l]
    BY <1>10 DEF Shell!Down
  <2>2. l \in Lines /\ p \in Int /\ -1 <= p /\ p < Len(c.history_)
    BY <1>3, <2>1
  <2> HIDE DEF l, p
  <2> DEFINE d == [c EXCEPT !.historyPosition_ = p]
  <2>3. /\ d \in Shells /\ d.jobs = c.jobs /\ d.holdInput_ = c.holdInput_
        /\ d.history_ = c.history_ /\ d.historyPosition_ = p
    BY <1>1, <2>2 DEF Shells
  <2>4. c' = [d EXCEPT !.stdin_ = l]
    BY <2>1
  <2> HIDE DEF d
  <2> QED  BY <2>2, <2>3, <2>4 DEF Shells
<1> QED  BY <1>5, <1>6, <1>7, <1>8, <1>9, <1>10

(* The shell as it begins. *)
LEMMA ShellInit ==
  ASSUME Shell!Init
  PROVE  ShellInv
<1>1. c = [stdin_ |-> <<>>, buffered_ |-> <<>>, holdInput_ |-> FALSE, userInterrupted_ |-> FALSE, killCount_ |-> 0,
           history_ |-> <<>>, historyPosition_ |-> -1, historyStash_ |-> <<>>, exited_ |-> FALSE, jobs |-> <<>>]
  BY DEF Shell!Init
<1>2. <<>> \in Lines /\ <<>> \in Seq(Words \cup {"enter"}) /\ <<>> \in Seq(Lines) /\ <<>> \in Seq(JobRecords) /\ Len(<<>>) = 0
  BY NoElements DEF Lines
<1>3. c \in Shells
  <2>1. <<>> \in Histories
    BY <1>2, FilesAssumption DEF Histories, Shell!ShellAssumption, Lines
  <2> QED  BY <1>1, <1>2, <2>1 DEF Shells
<1>4. c.jobs = <<>> /\ c.holdInput_ = FALSE /\ c.historyPosition_ = -1 /\ c.history_ = <<>>
  BY <1>1
<1> QED  BY <1>2, <1>3, <1>4 DEF ShellInv, ShellOf, Typed, OneAtWork, Works

(* Every action of the shell keeps its invariant. *)
LEMMA ShellNext ==
  ASSUME Shell!ShellAssumption, ShellInv, Shell!Next
  PROVE  ShellInv'
<1>1. CASE \E j \in Shell!Jobs : Shell!Reply(j) \/ Shell!ErrorReply(j) \/ Shell!Between(j) \/ Shell!Pick(j)
  BY <1>1, ShellReplies
<1>2. CASE \E j \in Shell!Jobs : Shell!CancelCheck(j)
  BY <1>2, ShellCancels
<1>3. CASE \E j \in Shell!Jobs : Shell!Ends(j)
  BY <1>3, ShellEnds
<1>4. CASE Shell!Type
  BY <1>4, ShellTypes
<1>5. CASE Shell!Tab
  BY <1>5, ShellCompletes
<1>6. CASE \/ Shell!CtrlC \/ Shell!CtrlBackslash \/ Shell!CtrlD \/ Shell!Erase \/ Shell!Up \/ Shell!Down
  BY <1>6, ShellKeys
<1> QED  BY <1>1, <1>2, <1>3, <1>4, <1>5, <1>6 DEF Shell!Next

(* Every step keeps the invariant of the shell. *)
LEMMA ShellStep ==
  ASSUME ShellInv, [MCNext]_allVars
  PROVE  ShellInv'
<1>1. CASE Shell!Next
  BY <1>1, ShellNext, FilesAssumption
<1>2. CASE UNCHANGED c
  BY <1>2 DEF ShellInv, ShellOf, Typed, OneAtWork, Works
<1> QED  BY <1>1, <1>2 DEF MCNext, allVars, shellVars

(* The shell's types: its history has a limit, and no command closes what  *)
(* it has not opened or ends with a handle open.                           *)
LEMMA ShellTypesOK ==
  ASSUME ShellInv
  PROVE  Shell!TypeOK
<1>1. /\ c \in Shells /\ c.historyPosition_ \in Int /\ -1 <= c.historyPosition_ /\ c.historyPosition_ < Len(c.history_)
      /\ c.stdin_ \in Seq(Words) /\ c.buffered_ \in Seq(Words \cup {"enter"}) /\ c.history_ \in Histories
      /\ c.jobs \in Seq(JobRecords)
  BY DEF ShellInv, ShellOf, Typed, Shells, Lines
<1>2. /\ Len(c.history_) \in Nat /\ Len(c.history_) <= MaxHistory
      /\ \A i \in DOMAIN c.history_ : c.history_[i] \in Seq(Words) /\ c.history_[i] # <<>>
  <2>1. c.history_ \in Seq(Lines)
    BY <1>1 DEF Histories
  <2>2. DOMAIN c.history_ = 1..Len(c.history_) /\ Len(c.history_) \in Nat
    BY <2>1
  <2> QED  BY <1>1, <2>1, <2>2 DEF Histories, Lines
<1>3. ASSUME NEW j \in DOMAIN c.jobs
      PROVE  c.jobs[j].open >= 0 /\ (c.jobs[j].todo = <<>> => c.jobs[j].open = 0)
  <2>1. c.jobs[j] \in JobRecords
    BY <1>1
  <2>2. c.jobs[j].todo \in Seq(Steps) /\ Balanced(c.jobs[j].todo, c.jobs[j].open)
    BY <2>1 DEF JobRecords, JobFields
  <2> QED  BY <2>2, BalancedEnds
<1>4. c.historyPosition_ \in -1..Len(c.history_)-1
  BY <1>1, <1>2
<1> QED  BY <1>1, <1>2, <1>3, <1>4 DEF Shell!TypeOK, Shell!Enter

(* When the nasftp shell takes input no command is at work, and when it    *)
(* holds it back one is, also after failures and interrupts                *)
(* (nasftp_cli.js).                                                        *)
THEOREM PromptsMeanIdle == MCSpec => []PromptMeansIdle
<1>1. MCInit => ShellInv
  BY ShellInit DEF MCInit
<1>2. ShellInv /\ [MCNext]_allVars => ShellInv'
  BY ShellStep
<1>3. ShellInv => PromptMeansIdle
  <2> SUFFICES ASSUME ShellInv, ~c.exited_
               PROVE  c.holdInput_ <=> \E j \in DOMAIN c.jobs : c.jobs[j].listening \/ c.jobs[j].cmd = "complete"
                                                                \/ ~Shell!Dialog(c.jobs[j])
    BY DEF PromptMeansIdle, Shell!PromptMeansIdle
  <2>1. OneAtWork(c) /\ (c.holdInput_ <=> Works(c)) /\ DOMAIN c.jobs = 1..Len(c.jobs)
    BY DEF ShellInv, ShellOf, Typed, Shells
  <2> QED  BY <2>1 DEF OneAtWork, Works, Left, AtWork, Shell!Dialog
<1> QED  BY <1>1, <1>2, <1>3, PTL DEF MCSpec

-----------------------------------------------------------------------------
(* The SFTP client: its types, for files of the size of the run. *)
Size == IF kind = "asks" THEN SmallFile ELSE FileSize
Pending == DOMAIN pendingRequests_
Units == [id : Int, reply : Int, unit : 1..3]
Reqs == [op : {"INIT", "LIMITS"}] \cup [op : {"ASK"}, t : Nat] \cup [op : {"OPEN", "CLOSE"}, t : Transfers]
        \cup [op : {"READ"}, t : Transfers, offset : Nat, len : Nat]
Marks == {"running", "ok", "false", "threw"}

SftpTypes ==
  /\ initConnection \in {"pending", "ok", "failed"} /\ isInitialised \in BOOLEAN
  /\ requestId_ \in Nat /\ server \subseteq Pending
  /\ \A id \in Pending : id \in Int /\ -1 <= id /\ id < requestId_ /\ pendingRequests_[id] \in Reqs
  /\ buffer_ \in Seq(Units) /\ output \in Seq(Units) /\ pendingMessageSize_ \in BOOLEAN /\ parsing \in BOOLEAN
  /\ resolved \in Seq([request : Reqs, reply : Int])

(* What the server may answer to a request about a file of this size. *)
Answers(size, q) ==
  IF q.op = "READ" /\ q.offset < size THEN {-1} \cup 1..(IF q.len < size - q.offset THEN q.len ELSE size - q.offset)
  ELSE {0, -1}

(* The units that have not been parsed make whole packets, of which the    *)
(* first may have lost its header; no two are of one request.              *)
Framed(w, first) ==
  /\ IF w = <<>> THEN first = 1 ELSE w[1].unit = first /\ w[Len(w)].unit = 3
  /\ \A k \in 1..(Len(w) - 1) :
       IF w[k].unit = 3 THEN w[k + 1].unit = 1 ELSE w[k + 1].unit = w[k].unit + 1 /\ w[k + 1].id = w[k].id
  /\ \A k, l \in 1..Len(w) : w[k].unit = w[l].unit /\ w[k].id = w[l].id => k = l

Wire == buffer_ \o output
OnTheWire ==
  /\ Framed(Wire, IF pendingMessageSize_ THEN 3 ELSE 1)
  /\ \A k \in 1..Len(Wire) : /\ Wire[k].id \in Pending \ server
                             /\ Wire[k].reply \in Answers(Size, pendingRequests_[Wire[k].id])
  /\ \A k \in 1..Len(resolved) : resolved[k].reply \in Answers(Size, resolved[k].request)
  /\ ~parsing => Len(buffer_) <= (IF pendingMessageSize_ THEN 0 ELSE 1)

(* Of a transfer one request to open and one to read at most is open.      *)
Rivals(p, q) == p.op = q.op /\ p.op \in {"OPEN", "READ"} /\ p.t = q.t
Alone ==
  /\ \A id, jd \in Pending : Rivals(pendingRequests_[id], pendingRequests_[jd]) => id = jd
  /\ \A k, l \in 1..Len(resolved) : Rivals(resolved[k].request, resolved[l].request) => k = l
  /\ \A id \in Pending, k \in 1..Len(resolved) : ~Rivals(pendingRequests_[id], resolved[k].request)

(* Nothing else happens before the server's version is there. *)
Fresh ==
  /\ initConnection = "pending" /\ \A t \in Transfers : stage[t] = "none"
  /\ \/ Pending = {-1} /\ pendingRequests_[-1].op = "INIT" /\ resolved = <<>>
     \/ Pending = {} /\ Len(resolved) = 1 /\ resolved[1].request.op = "INIT"
Past ==
  /\ \A id \in Pending : pendingRequests_[id].op # "INIT"
  /\ \A k \in 1..Len(resolved) : resolved[k].request.op # "INIT"

(* What a request says of its transfer. *)
Wanting(t) == length[t] = -1 \/ offset[t] < length[t]
Fits(q) ==
  /\ q.op = "OPEN" => stage[q.t] = "open"
  /\ q.op = "CLOSE" => stage[q.t] \in {"close", "done", "failed"}
  /\ q.op = "READ" => /\ stage[q.t] \notin {"none", "open"} /\ last[q.t] = "asked"
                      /\ q.offset = offset[q.t] /\ Wanting(q.t)
                      /\ length[q.t] # -1 => q.len <= length[q.t] - q.offset
AllFit ==
  /\ \A id \in Pending : Fits(pendingRequests_[id])
  /\ \A k \in 1..Len(resolved) : Fits(resolved[k].request)

(* What has been read of a file. *)
End(g) == IF g = <<>> THEN 0 ELSE g[Len(g)][1] + g[Len(g)][2]
Goal(t) == IF length[t] = -1 \/ Size < length[t] THEN Size ELSE length[t]
Transfer(t) ==
  /\ stage[t] \in {"none", "open", "read", "close", "done", "failed"} /\ length[t] \in Lengths /\ offset[t] \in Nat
  /\ canceled[t] \in BOOLEAN /\ callbacks[t] \in Seq(Marks) /\ given[t] \in Seq(Nat \X Nat)
  /\ last[t] \in {"asked", "end", "error"}
  /\ stage[t] \in {"none", "open"} => last[t] = "asked" /\ offset[t] = 0 /\ given[t] = <<>>
  /\ offset[t] <= Size /\ (length[t] # -1 => offset[t] <= length[t] /\ End(given[t]) <= length[t])
  /\ \A n \in 1..Len(given[t]) : given[t][n][1] = IF n = 1 THEN 0 ELSE given[t][n - 1][1] + given[t][n - 1][2]
  /\ ~canceled[t] => End(given[t]) = offset[t] /\ (last[t] = "end" => offset[t] = Goal(t))
  /\ canceled[t] => \E n \in 1..Len(callbacks[t]) : callbacks[t][n] = "false"
  /\ stage[t] = "done" => last[t] = "end" /\ \A n \in 1..Len(callbacks[t]) : callbacks[t][n] = "ok"
Reading ==
  /\ DOMAIN stage = Transfers /\ DOMAIN length = Transfers /\ DOMAIN offset = Transfers /\ DOMAIN canceled = Transfers
  /\ DOMAIN callbacks = Transfers /\ DOMAIN given = Transfers /\ DOMAIN last = Transfers
  /\ \A t \in Transfers : Transfer(t)

RequestInv == SftpTypes /\ OnTheWire /\ Alone /\ (Fresh \/ Past)
ClientInv == RequestInv /\ AllFit /\ Reading

-----------------------------------------------------------------------------
(* Packets on their way. *)
LEMMA ReqIs ==
  ASSUME NEW q \in Reqs
  PROVE  /\ q.op \in {"INIT", "LIMITS", "ASK", "OPEN", "CLOSE", "READ"}
         /\ q.op \in {"OPEN", "CLOSE", "READ"} => q.t \in Transfers
         /\ q.op = "READ" => q.offset \in Nat /\ q.len \in Nat
BY DEF Reqs

(* The first n units are taken off. *)
LEMMA FramedCut ==
  ASSUME NEW w \in Seq(Units), NEW first, Framed(w, first), NEW n \in 1..Len(w), NEW v, v = SubSeq(w, n + 1, Len(w))
  PROVE  /\ v \in Seq(Units) /\ Len(v) = Len(w) - n /\ \A k \in 1..Len(v) : v[k] = w[n + k] /\ n + k \in 1..Len(w)
         /\ Framed(v, IF w[n].unit = 3 THEN 1 ELSE w[n].unit + 1)
<1>1. v \in Seq(Units) /\ Len(v) = Len(w) - n /\ \A k \in 1..Len(v) : v[k] = w[n + k] /\ n + k \in 1..Len(w)
  OBVIOUS
<1>2. Len(w) \in Nat /\ w # <<>> /\ w[Len(w)].unit = 3
  BY DEF Framed
<1>3. \A k \in 1..(Len(w) - 1) :
        IF w[k].unit = 3 THEN w[k + 1].unit = 1 ELSE w[k + 1].unit = w[k].unit + 1 /\ w[k + 1].id = w[k].id
  BY DEF Framed
<1>4. \A k, l \in 1..Len(w) : w[k].unit = w[l].unit /\ w[k].id = w[l].id => k = l
  BY DEF Framed
<1> DEFINE then == IF w[n].unit = 3 THEN 1 ELSE w[n].unit + 1
<1>5. CASE v = <<>>
  <2>0. Len(v) = 0
    <3>1. Len(<<>>) = 0
      OBVIOUS
    <3> QED  BY <1>5, <3>1, Zenon
  <2>1. n = Len(w) /\ Len(v) = 0
    BY <1>1, <1>2, <2>0
  <2> QED  BY <1>2, <1>5, <2>1 DEF Framed
<1>6. CASE v # <<>>
  <2>1. Len(v) >= 1 /\ n \in 1..(Len(w) - 1) /\ Len(v) \in 1..Len(v) /\ 1 \in 1..Len(v) /\ n + Len(v) = Len(w)
    BY <1>1, <1>2, <1>6
  <2>2. v[1].unit = then /\ v[Len(v)].unit = 3
    BY <1>1, <1>2, <1>3, <2>1
  <2>3. ASSUME NEW k \in 1..(Len(v) - 1)
        PROVE  IF v[k].unit = 3 THEN v[k + 1].unit = 1 ELSE v[k + 1].unit = v[k].unit + 1 /\ v[k + 1].id = v[k].id
    <3>1. k \in 1..Len(v) /\ k + 1 \in 1..Len(v) /\ n + k \in 1..(Len(w) - 1) /\ n + (k + 1) = (n + k) + 1
      BY <1>1, <1>2
    <3> QED  BY <1>1, <1>3, <3>1
  <2>4. ASSUME NEW k \in 1..Len(v), NEW l \in 1..Len(v), v[k].unit = v[l].unit, v[k].id = v[l].id
        PROVE  k = l
    <3>1. n + k = n + l
      BY <1>1, <1>4, <2>4
    <3> QED  BY <3>1
  <2> HIDE DEF then
  <2>5. Framed(v, then)
    BY <1>6, <2>2, <2>3, <2>4 DEF Framed
  <2> QED  BY <1>1, <2>5 DEF then
<1> QED  BY <1>1, <1>5, <1>6

(* No unit after a whole packet is of its request. *)
LEMMA OthersRemain ==
  ASSUME NEW w \in Seq(Units), NEW first, Framed(w, first),
         NEW n \in 1..Len(w), w[n].unit = 3, NEW k \in 1..Len(w), k > n
  PROVE  w[k].id # w[n].id
<1>1. Len(w) \in Nat /\ w[Len(w)].unit = 3 /\ w[k].unit \in 1..3
  <2>1. w[k] \in Units
    OBVIOUS
  <2> QED  BY <2>1 DEF Framed, Units
<1>2. \A i \in 1..(Len(w) - 1) :
        IF w[i].unit = 3 THEN w[i + 1].unit = 1 ELSE w[i + 1].unit = w[i].unit + 1 /\ w[i + 1].id = w[i].id
  BY DEF Framed
<1>3. \A i, j \in 1..Len(w) : w[i].unit = w[j].unit /\ w[i].id = w[j].id => i = j
  BY DEF Framed
<1>4. ASSUME NEW i \in 1..Len(w), i > n, w[i].unit = 3 PROVE w[i].id # w[n].id
  BY <1>3, <1>4
<1>5. ASSUME NEW i \in 1..Len(w), i > n, w[i].unit = 2 PROVE w[i].id # w[n].id
  <2>1. i \in 1..(Len(w) - 1) /\ i + 1 \in 1..Len(w) /\ i + 1 > n
    BY <1>1, <1>5
  <2>2. w[i + 1].unit = 3 /\ w[i + 1].id = w[i].id
    BY <1>2, <1>5, <2>1
  <2> QED  BY <1>4, <2>1, <2>2
<1>6. ASSUME w[k].unit = 1 PROVE w[k].id # w[n].id
  <2>1. k \in 1..(Len(w) - 1) /\ k + 1 \in 1..Len(w) /\ k + 1 > n
    BY <1>1, <1>6
  <2>2. w[k + 1].unit = 2 /\ w[k + 1].id = w[k].id
    BY <1>2, <1>6, <2>1
  <2> QED  BY <1>5, <2>1, <2>2
<1> QED  BY <1>1, <1>4, <1>5, <1>6

(* A packet is added. *)
Packet(u, id, reply) ==
  u \in Seq(Units) /\ Len(u) = 3 /\ \A n \in 1..3 : u[n].id = id /\ u[n].reply = reply /\ u[n].unit = n
NotOf(w, id) == \A k \in 1..Len(w) : w[k].id # id
Added(v, w, id, reply) ==
  /\ Len(v) = Len(w) + 3
  /\ \A k \in 1..Len(v) : (k \in 1..Len(w) /\ v[k] = w[k]) \/ (v[k].id = id /\ v[k].reply = reply)

LEMMA FramedAdd ==
  ASSUME NEW w \in Seq(Units), NEW first, Framed(w, first), NEW id \in Int, NEW reply \in Int,
         NotOf(w, id), NEW u, Packet(u, id, reply)
  PROVE  w \o u \in Seq(Units) /\ Added(w \o u, w, id, reply) /\ Framed(w \o u, first)
<1> DEFINE v == w \o u
<1>1. u \in Seq(Units) /\ Len(u) = 3 /\ \A n \in 1..3 : u[n].id = id /\ u[n].reply = reply /\ u[n].unit = n
  BY DEF Packet
<1>0. \A k \in 1..Len(w) : w[k].id # id
  BY DEF NotOf
<1>2. /\ v \in Seq(Units) /\ Len(v) = Len(w) + 3 /\ Len(w) \in Nat
      /\ \A k \in 1..(Len(w) + 3) : v[k] = IF k <= Len(w) THEN w[k] ELSE u[k - Len(w)]
  <2>1. /\ w \o u \in Seq(Units) /\ Len(w \o u) = Len(w) + Len(u)
        /\ \A k \in 1..(Len(w) + Len(u)) : (w \o u)[k] = IF k <= Len(w) THEN w[k] ELSE u[k - Len(w)]
    BY <1>1, ConcatProperties
  <2> QED  BY <1>1, <2>1
<1> HIDE DEF v
<1>3. /\ \A k \in 1..Len(w) : v[k] = w[k] /\ v[k].id # id
      /\ \A k \in (Len(w) + 1)..(Len(w) + 3) : v[k].id = id /\ v[k].reply = reply /\ v[k].unit = k - Len(w)
      /\ \A k \in 1..Len(v) : k \in 1..Len(w) \/ k \in (Len(w) + 1)..(Len(w) + 3)
  <2>1. \A k \in 1..Len(w) : v[k] = w[k] /\ v[k].id # id
    BY <1>0, <1>2
  <2>2. ASSUME NEW k \in (Len(w) + 1)..(Len(w) + 3)
        PROVE  v[k].id = id /\ v[k].reply = reply /\ v[k].unit = k - Len(w)
    <3>1. k - Len(w) \in 1..3 /\ v[k] = u[k - Len(w)]
      BY <1>2
    <3> QED  BY <1>1, <3>1
  <2>3. \A k \in 1..Len(v) : k \in 1..Len(w) \/ k \in (Len(w) + 1)..(Len(w) + 3)
    BY <1>2
  <2> QED  BY <2>1, <2>2, <2>3
<1>4. IF w = <<>> THEN first = 1 ELSE w[1].unit = first /\ w[Len(w)].unit = 3
  BY DEF Framed
<1>5. v # <<>> /\ v[1].unit = first /\ v[Len(v)].unit = 3
  <2>1. CASE w = <<>>
    <3>1. Len(<<>>) = 0
      OBVIOUS
    <3>2. Len(w) = 0
      BY <2>1, <3>1, Zenon
    <3>3. Len(v) = 3 /\ 1 \in (Len(w) + 1)..(Len(w) + 3) /\ 3 \in (Len(w) + 1)..(Len(w) + 3)
      BY <1>2, <3>2
    <3>4. v # <<>>
      BY <3>1, <3>3
    <3>5. v[1].unit = 1 - Len(w) /\ v[3].unit = 3 - Len(w)
      BY <1>3, <3>3
    <3> QED  BY <1>4, <2>1, <3>2, <3>3, <3>4, <3>5
  <2>2. CASE w # <<>>
    BY <1>2, <1>3, <1>4, <2>2
  <2> QED  BY <2>1, <2>2
<1>6. ASSUME NEW k \in 1..(Len(v) - 1)
      PROVE  IF v[k].unit = 3 THEN v[k + 1].unit = 1 ELSE v[k + 1].unit = v[k].unit + 1 /\ v[k + 1].id = v[k].id
  <2>1. CASE k < Len(w)
    <3>1. k \in 1..(Len(w) - 1) /\ k \in 1..Len(w) /\ k + 1 \in 1..Len(w)
      BY <1>2, <2>1
    <3> QED  BY <1>3, <3>1 DEF Framed
  <2>2. CASE k = Len(w)
    <3>1. k \in 1..Len(w) /\ w # <<>> /\ k + 1 \in (Len(w) + 1)..(Len(w) + 3)
      BY <1>2, <2>2
    <3> QED  BY <1>2, <1>3, <1>4, <2>2, <3>1
  <2>3. CASE k > Len(w)
    <3>1. k \in (Len(w) + 1)..(Len(w) + 3) /\ k + 1 \in (Len(w) + 1)..(Len(w) + 3)
      BY <1>2, <2>3
    <3> QED  BY <1>2, <1>3, <3>1
  <2> QED  BY <1>2, <2>1, <2>2, <2>3
<1>7. ASSUME NEW k \in 1..Len(v), NEW l \in 1..Len(v), v[k].unit = v[l].unit, v[k].id = v[l].id
      PROVE  k = l
  <2>1. CASE k \in 1..Len(w) /\ l \in 1..Len(w)
    BY <1>3, <1>7, <2>1 DEF Framed
  <2>2. CASE k \in (Len(w) + 1)..(Len(w) + 3) /\ l \in (Len(w) + 1)..(Len(w) + 3)
    BY <1>2, <1>3, <1>7, <2>2
  <2> QED  BY <1>3, <1>7, <2>1, <2>2
<1>8. Framed(v, first)
  BY <1>5, <1>6, <1>7 DEF Framed
<1>9. Added(v, w, id, reply)
  BY <1>2, <1>3 DEF Added
<1> QED  BY <1>2, <1>8, <1>9 DEF v

(* Units move from the output to the buffer; and out of it. *)
LEMMA WireStays ==
  ASSUME NEW b \in Seq(Units), NEW o \in Seq(Units), NEW n \in 1..Len(o)
  PROVE  /\ b \o SubSeq(o, 1, n) \in Seq(Units) /\ SubSeq(o, n + 1, Len(o)) \in Seq(Units)
         /\ (b \o SubSeq(o, 1, n)) \o SubSeq(o, n + 1, Len(o)) = b \o o
<1> DEFINE d == SubSeq(o, 1, n)
           e == SubSeq(o, n + 1, Len(o))
<1>1. d \in Seq(Units) /\ e \in Seq(Units) /\ d \o e = o
  <2>1. n \in 0..Len(o)
    OBVIOUS
  <2> QED  BY <2>1, CutInTwo
<1> HIDE DEF d, e
<1>2. b \o d \in Seq(Units)
  BY <1>1, ConcatProperties
<1>3. (b \o d) \o e = b \o (d \o e)
  <2>1. Associative(Units)
    BY ConcatAssociative
  <2> QED  BY <1>1, <2>1, Zenon DEF Associative
<1>4. (b \o d) \o e = b \o o
  BY <1>1, <1>3, Zenon
<1> QED  BY <1>1, <1>2, <1>4 DEF d, e

LEMMA WireCut ==
  ASSUME NEW b \in Seq(Units), NEW o \in Seq(Units), NEW n \in 1..Len(b)
  PROVE  /\ SubSeq(b, n + 1, Len(b)) \in Seq(Units)
         /\ SubSeq(b, n + 1, Len(b)) \o o = SubSeq(b \o o, n + 1, Len(b \o o))
<1> DEFINE w == b \o o
           c1 == SubSeq(b, n + 1, Len(b))
           p == c1 \o o
           q == SubSeq(w, n + 1, Len(w))
<1>1. /\ c1 \in Seq(Units) /\ Len(c1) = Len(b) - n /\ Len(b) \in Nat /\ Len(o) \in Nat
      /\ \A i \in 1..(Len(b) - n) : c1[i] = b[n + i]
  OBVIOUS
<1> HIDE DEF c1
<1>2. /\ w \in Seq(Units) /\ Len(w) = Len(b) + Len(o)
      /\ \A i \in 1..(Len(b) + Len(o)) : w[i] = IF i <= Len(b) THEN b[i] ELSE o[i - Len(b)]
  BY ConcatProperties
<1>3. /\ p \in Seq(Units) /\ Len(p) = Len(w) - n
      /\ \A i \in 1..(Len(w) - n) : p[i] = IF i <= Len(b) - n THEN c1[i] ELSE o[i - (Len(b) - n)]
  <2>1. /\ c1 \o o \in Seq(Units) /\ Len(c1 \o o) = Len(c1) + Len(o)
        /\ \A i \in 1..(Len(c1) + Len(o)) : (c1 \o o)[i] = IF i <= Len(c1) THEN c1[i] ELSE o[i - Len(c1)]
    BY <1>1, ConcatProperties
  <2>2. Len(c1) + Len(o) = Len(w) - n
    BY <1>1, <1>2
  <2> HIDE DEF w
  <2> QED  BY <1>1, <2>1, <2>2
<1> HIDE DEF w
<1>4. /\ q \in Seq(Units) /\ Len(q) = Len(w) - n
      /\ \A i \in 1..(Len(w) - n) : q[i] = w[n + i]
  BY <1>1, <1>2
<1>5. ASSUME NEW i \in 1..(Len(w) - n) PROVE p[i] = q[i]
  <2>1. CASE i <= Len(b) - n
    <3>1. n + i \in 1..(Len(b) + Len(o)) /\ n + i <= Len(b) /\ i \in 1..(Len(b) - n)
      BY <1>1, <1>2, <2>1
    <3> QED  BY <1>1, <1>2, <1>3, <1>4, <2>1, <3>1
  <2>2. CASE i > Len(b) - n
    <3>1. n + i \in 1..(Len(b) + Len(o)) /\ ~(n + i <= Len(b)) /\ (n + i) - Len(b) = i - (Len(b) - n)
      BY <1>1, <1>2, <2>2
    <3> QED  BY <1>2, <1>3, <1>4, <2>2, <3>1
  <2> QED  BY <1>1, <1>2, <2>1, <2>2
<1> HIDE DEF p, q
<1>6. p = q
  BY <1>3, <1>4, <1>5, SameElements
<1> QED  BY <1>1, <1>6 DEF c1, p, q, w

(* What no step of the transfers changes. *)
Still == /\ stage' = stage /\ length' = length /\ offset' = offset /\ canceled' = canceled
         /\ callbacks' = callbacks /\ given' = given /\ last' = last /\ kind' = kind

(* Then its requests fit as they did. *)
LEMMA StillFits ==
  ASSUME Reading, Still
  PROVE  Reading' /\ \A q : Fits(q) => Fits(q)'
BY DEF Reading, Transfer, Still, Fits, Wanting, Goal, Size, End

(* The server answers a request. *)
LEMMA ServerAnswers ==
  ASSUME RequestInv, ~parsing, NEW id \in server, server' = server \ {id}, NEW reply \in Answers(Size, pendingRequests_[id]),
         output' = output \o [n \in 1..3 |-> [id |-> id, reply |-> reply, unit |-> n]],
         UNCHANGED <<isInitialised, initConnection, requestId_, pendingRequests_, buffer_, pendingMessageSize_, parsing, resolved>>,
         FileSize \in Nat, SmallFile \in Nat, Still
  PROVE  RequestInv'
<1> DEFINE u == [n \in 1..3 |-> [id |-> id, reply |-> reply, unit |-> n]]
           first == IF pendingMessageSize_ THEN 3 ELSE 1
           v == Wire \o u
<1>1. /\ buffer_ \in Seq(Units) /\ output \in Seq(Units) /\ Wire \in Seq(Units) /\ Framed(Wire, first)
      /\ \A k \in 1..Len(Wire) : Wire[k].id \in Pending \ server /\ Wire[k].reply \in Answers(Size, pendingRequests_[Wire[k].id])
  BY ConcatProperties DEF RequestInv, SftpTypes, OnTheWire, Wire
<1>2. id \in Pending /\ id \in Int /\ reply \in Int
  <2>1. id \in Pending /\ id \in Int /\ pendingRequests_[id] \in Reqs
    BY DEF RequestInv, SftpTypes
  <2> QED  BY <2>1, ReqIs DEF Answers, Size
<1>3. \A k \in 1..Len(Wire) : Wire[k].id # id
  BY <1>1
<1>4. /\ u \in Seq(Units) /\ v \in Seq(Units) /\ Len(v) = Len(Wire) + 3
      /\ \A k \in 1..Len(v) : (k \in 1..Len(Wire) /\ v[k] = Wire[k]) \/ (v[k].id = id /\ v[k].reply = reply)
      /\ Framed(v, first)
  <2> HIDE DEF first
  <2>1. u \in Seq(Units) /\ Len(u) = 3 /\ \A n \in 1..3 : u[n].id = id /\ u[n].reply = reply /\ u[n].unit = n
    <3>1. \A n \in 1..3 : [id |-> id, reply |-> reply, unit |-> n] \in Units
      BY <1>2 DEF Units
    <3> QED  BY <3>1
  <2>2. v = Wire \o u
    OBVIOUS
  <2> HIDE DEF u, v
  <2>3. Packet(u, id, reply) /\ NotOf(Wire, id)
    BY <1>3, <2>1 DEF Packet, NotOf
  <2>4. Wire \o u \in Seq(Units) /\ Added(Wire \o u, Wire, id, reply) /\ Framed(Wire \o u, first)
    BY <1>1, <1>2, <2>3, FramedAdd, Zenon
  <2> QED  BY <2>1, <2>2, <2>4 DEF Added
<1>5. output' = output \o u
  OBVIOUS
<1> HIDE DEF u
<1>6. Wire' = v /\ output' \in Seq(Units)
  <2>1. output \o u \in Seq(Units)
    BY <1>1, <1>4, ConcatProperties
  <2>2. Wire' = buffer_ \o (output \o u)
    BY <1>5 DEF Wire
  <2>3. (buffer_ \o output) \o u = buffer_ \o (output \o u)
    <3>1. Associative(Units)
      BY ConcatAssociative
    <3> QED  BY <1>1, <1>4, <3>1, Zenon DEF Associative
  <2>4. Wire' = v
    BY <2>2, <2>3, Zenon DEF Wire
  <2> HIDE DEF v
  <2> QED  BY <1>5, <2>1, <2>4
<1> HIDE DEF v
<1>7. \A k \in 1..Len(v) : v[k].id \in Pending \ server' /\ v[k].reply \in Answers(Size, pendingRequests_[v[k].id])
  <2> SUFFICES ASSUME NEW k \in 1..Len(v)
               PROVE  v[k].id \in Pending \ server' /\ v[k].reply \in Answers(Size, pendingRequests_[v[k].id])
    OBVIOUS
  <2>1. CASE k \in 1..Len(Wire) /\ v[k] = Wire[k]
    BY <1>1, <2>1
  <2>2. CASE v[k].id = id /\ v[k].reply = reply
    BY <1>2, <2>2
  <2> QED  BY <1>4, <2>1, <2>2
<1>8. Size' = Size
  BY DEF Size, Still
<1>9. OnTheWire'
  <2>1. Framed(Wire', IF pendingMessageSize_' THEN 3 ELSE 1)
    BY <1>4, <1>6
  <2>2. \A k \in 1..Len(Wire') : /\ Wire'[k].id \in Pending' \ server'
                                 /\ Wire'[k].reply \in Answers(Size', pendingRequests_'[Wire'[k].id])
    BY <1>6, <1>7, <1>8 DEF Pending
  <2>3. \A k \in 1..Len(resolved') : resolved'[k].reply \in Answers(Size', resolved'[k].request)
    BY <1>8 DEF RequestInv, OnTheWire
  <2>4. ~parsing' => Len(buffer_') <= (IF pendingMessageSize_' THEN 0 ELSE 1)
    BY DEF RequestInv, OnTheWire
  <2> QED  BY <2>1, <2>2, <2>3, <2>4 DEF OnTheWire
<1> QED  BY <1>2, <1>6, <1>9 DEF RequestInv, SftpTypes, Pending, Alone, Rivals, Fresh, Past, Still

(* Output arrives. *)
LEMMA OutputArrives ==
  ASSUME RequestInv, File!WriteStreamData, kind' = kind
  PROVE  RequestInv' /\ Still /\ pendingRequests_' = pendingRequests_ /\ resolved' = resolved
<1>1. PICK n \in 1..Len(output) : /\ buffer_' = buffer_ \o SubSeq(output, 1, n)
                                  /\ output' = SubSeq(output, n + 1, Len(output))
  BY DEF File!WriteStreamData
<1>2. /\ parsing' = TRUE /\ Still /\ pendingMessageSize_' = pendingMessageSize_ /\ resolved' = resolved
      /\ pendingRequests_' = pendingRequests_ /\ server' = server /\ requestId_' = requestId_
      /\ initConnection' = initConnection /\ isInitialised' = isInitialised
  BY DEF File!WriteStreamData, File!connection, File!transfer, Still
<1>3. buffer_ \in Seq(Units) /\ output \in Seq(Units)
  BY DEF RequestInv, SftpTypes
<1>4. buffer_' \in Seq(Units) /\ output' \in Seq(Units) /\ Wire' = Wire
  BY <1>1, <1>3, WireStays DEF Wire
<1>5. Size' = Size
  BY <1>2 DEF Size, Still
<1>6. SftpTypes'
  BY <1>2, <1>4 DEF RequestInv, SftpTypes, Pending
<1>7. OnTheWire'
  BY <1>2, <1>4, <1>5 DEF RequestInv, OnTheWire, Pending
<1>8. Alone' /\ (Fresh \/ Past)'
  BY <1>2 DEF RequestInv, Alone, Rivals, Fresh, Past, Still, Pending
<1> QED  BY <1>2, <1>6, <1>7, <1>8 DEF RequestInv

(* A packet is there: its request is answered. *)
Settles(n) ==
  /\ resolved' = Append(resolved, [request |-> pendingRequests_[buffer_[n].id], reply |-> buffer_[n].reply])
  /\ pendingRequests_' = [i \in Pending \ {buffer_[n].id} |-> pendingRequests_[i]]

LEMMA PacketIs ==
  ASSUME RequestInv, AllFit, NEW n \in 1..Len(buffer_), Wire[n].unit = 3, Settles(n), parsing, parsing' = parsing,
         buffer_' = SubSeq(buffer_, n + 1, Len(buffer_)), pendingMessageSize_' = FALSE,
         UNCHANGED <<isInitialised, initConnection, requestId_, server, output>>, Still, Reading
  PROVE  RequestInv' /\ AllFit'
<1> DEFINE first == IF pendingMessageSize_ THEN 3 ELSE 1
           x == buffer_[n].id
           q == pendingRequests_[x]
           r == buffer_[n].reply
           e == [request |-> q, reply |-> r]
<1>1. /\ buffer_ \in Seq(Units) /\ output \in Seq(Units) /\ Framed(Wire, first)
      /\ resolved \in Seq([request : Reqs, reply : Int]) /\ server \subseteq Pending /\ requestId_ \in Nat
      /\ \A id \in Pending : id \in Int /\ -1 <= id /\ id < requestId_ /\ pendingRequests_[id] \in Reqs
  BY DEF RequestInv, SftpTypes, OnTheWire
<1>2. Wire \in Seq(Units) /\ Len(Wire) = Len(buffer_) + Len(output) /\ n \in 1..Len(Wire) /\ Wire[n] = buffer_[n]
  <2>1. /\ buffer_ \o output \in Seq(Units) /\ Len(buffer_ \o output) = Len(buffer_) + Len(output)
        /\ \A i \in 1..(Len(buffer_) + Len(output)) :
             (buffer_ \o output)[i] = IF i <= Len(buffer_) THEN buffer_[i] ELSE output[i - Len(buffer_)]
    BY <1>1, ConcatProperties
  <2>2. n \in 1..(Len(buffer_) + Len(output)) /\ n <= Len(buffer_)
    BY <1>1
  <2> QED  BY <2>1, <2>2 DEF Wire
<1>3. /\ x \in Pending \ server /\ r \in Answers(Size, q) /\ q \in Reqs /\ r \in Int
      /\ \A k \in 1..Len(Wire) : /\ Wire[k].id \in Pending \ server
                                 /\ Wire[k].reply \in Answers(Size, pendingRequests_[Wire[k].id])
  <2>1. \A k \in 1..Len(Wire) : /\ Wire[k].id \in Pending \ server
                                /\ Wire[k].reply \in Answers(Size, pendingRequests_[Wire[k].id])
    BY DEF RequestInv, OnTheWire
  <2>2. Wire[n] \in Units
    BY <1>2
  <2> QED  BY <1>1, <1>2, <2>1, <2>2 DEF Units
<1>4. Size' = Size
  BY DEF Size, Still
<1> DEFINE v == SubSeq(Wire, n + 1, Len(Wire))
<1>5. /\ v \in Seq(Units) /\ Len(v) = Len(Wire) - n /\ \A k \in 1..Len(v) : v[k] = Wire[n + k] /\ n + k \in 1..Len(Wire)
      /\ Framed(v, 1)
  <2> HIDE DEF first
  <2>1. Framed(v, IF Wire[n].unit = 3 THEN 1 ELSE Wire[n].unit + 1)
    BY <1>1, <1>2, FramedCut
  <2> QED  BY <1>1, <1>2, <2>1, FramedCut
<1>6. Wire' = v /\ buffer_' \in Seq(Units)
  BY <1>1, WireCut DEF Wire
<1>7. \A k \in 1..Len(v) : v[k].id # x
  <2> HIDE DEF first
  <2>1. \A k \in 1..Len(Wire) : k > n => Wire[k].id # Wire[n].id
    BY <1>1, <1>2, OthersRemain
  <2>2. \A k \in 1..Len(v) : n + k > n /\ n + k \in 1..Len(Wire) /\ v[k] = Wire[n + k]
    BY <1>2, <1>5
  <2> HIDE DEF v
  <2> QED  BY <1>2, <2>1, <2>2
<1> HIDE DEF v, first
<1>8. /\ Pending' = Pending \ {x} /\ resolved' = Append(resolved, e)
      /\ \A id \in Pending \ {x} : pendingRequests_'[id] = pendingRequests_[id]
  BY DEF Settles, Pending
<1>9. e \in [request : Reqs, reply : Int] /\ e.request = q /\ e.reply = r
  BY <1>3
<1> HIDE DEF x, q, r, e
<1>10. /\ resolved' \in Seq([request : Reqs, reply : Int]) /\ Len(resolved') = Len(resolved) + 1 /\ Len(resolved) \in Nat
       /\ \A k \in 1..Len(resolved) : resolved'[k] = resolved[k]
       /\ resolved'[Len(resolved) + 1] = e
  <2>1. DOMAIN resolved = 1..Len(resolved) /\ Len(resolved) \in Nat
    BY <1>1
  <2> QED  BY <1>1, <1>8, <1>9, <2>1, AppendProperties
<1>11. \A k \in 1..Len(resolved') : k \in 1..Len(resolved) \/ k = Len(resolved) + 1
  BY <1>10
<1>12. SftpTypes'
  BY <1>1, <1>3, <1>6, <1>8, <1>10 DEF SftpTypes, RequestInv
<1>13. OnTheWire'
  <2>1. Framed(Wire', IF pendingMessageSize_' THEN 3 ELSE 1)
    BY <1>5, <1>6
  <2>2. \A k \in 1..Len(Wire') : /\ Wire'[k].id \in Pending' \ server'
                                 /\ Wire'[k].reply \in Answers(Size', pendingRequests_'[Wire'[k].id])
    <3> SUFFICES ASSUME NEW k \in 1..Len(v)
                 PROVE  v[k].id \in Pending' \ server' /\ v[k].reply \in Answers(Size', pendingRequests_'[v[k].id])
      BY <1>6
    <3>1. v[k].id \in Pending \ server /\ v[k].reply \in Answers(Size, pendingRequests_[v[k].id]) /\ v[k].id # x
      BY <1>3, <1>5, <1>7
    <3>2. v[k].id \in Pending' /\ pendingRequests_'[v[k].id] = pendingRequests_[v[k].id]
      BY <1>8, <3>1
    <3> QED  BY <1>4, <3>1, <3>2
  <2>3. \A k \in 1..Len(resolved') : resolved'[k].reply \in Answers(Size', resolved'[k].request)
    <3>1. \A k \in 1..Len(resolved) : resolved[k].reply \in Answers(Size, resolved[k].request)
      BY DEF RequestInv, OnTheWire
    <3> QED  BY <1>3, <1>4, <1>9, <1>10, <1>11, <3>1
  <2> QED  BY <2>1, <2>2, <2>3 DEF OnTheWire
<1>14. Alone'
  <2>1. /\ \A id, jd \in Pending : Rivals(pendingRequests_[id], pendingRequests_[jd]) => id = jd
        /\ \A k, l \in 1..Len(resolved) : Rivals(resolved[k].request, resolved[l].request) => k = l
        /\ \A id \in Pending, k \in 1..Len(resolved) : ~Rivals(pendingRequests_[id], resolved[k].request)
    BY DEF RequestInv, Alone
  <2>2. x \in Pending /\ q = pendingRequests_[x]
    BY <1>3 DEF q
  <2>3. \A a, b : Rivals(a, b) => Rivals(b, a)
    BY DEF Rivals
  <2>4. \A id, jd \in Pending' : Rivals(pendingRequests_'[id], pendingRequests_'[jd]) => id = jd
    BY <1>8, <2>1
  <2>5. \A k, l \in 1..Len(resolved') : Rivals(resolved'[k].request, resolved'[l].request) => k = l
    BY <1>9, <1>10, <1>11, <2>1, <2>2, <2>3
  <2>6. \A id \in Pending', k \in 1..Len(resolved') : ~Rivals(pendingRequests_'[id], resolved'[k].request)
    BY <1>8, <1>9, <1>10, <1>11, <2>1, <2>2
  <2> QED  BY <2>4, <2>5, <2>6 DEF Alone
<1>15. ASSUME Fresh PROVE Fresh'
  <2>1. Pending = {-1} /\ x = -1 /\ q.op = "INIT" /\ resolved = <<>>
    BY <1>3, <1>15 DEF Fresh, q
  <2>2. Len(resolved) = 0
    <3>1. Len(<<>>) = 0
      OBVIOUS
    <3> QED  BY <2>1, <3>1, Zenon
  <2>3. Pending' = {} /\ Len(resolved') = 1 /\ resolved'[1].request.op = "INIT"
    BY <1>8, <1>9, <1>10, <2>1, <2>2
  <2>4. initConnection' = "pending" /\ \A t \in Transfers : stage'[t] = "none"
    BY <1>15 DEF Fresh, Still
  <2> QED  BY <2>3, <2>4 DEF Fresh
<1>16. ASSUME Past PROVE Past'
  <2>1. q.op # "INIT"
    BY <1>3, <1>16 DEF Past, q
  <2>2. \A id \in Pending' : pendingRequests_'[id].op # "INIT"
    BY <1>8, <1>16 DEF Past
  <2>3. \A k \in 1..Len(resolved') : resolved'[k].request.op # "INIT"
    BY <1>9, <1>10, <1>11, <1>16, <2>1 DEF Past
  <2> QED  BY <2>2, <2>3 DEF Past
<1>17. AllFit'
  <2>1. \A p : Fits(p) => Fits(p)'
    BY StillFits
  <2>2. /\ \A id \in Pending : Fits(pendingRequests_[id])
        /\ \A k \in 1..Len(resolved) : Fits(resolved[k].request)
    BY DEF AllFit
  <2>3. Fits(q)
    BY <1>3, <2>2 DEF q
  <2>4. \A id \in Pending' : Fits(pendingRequests_[id])' 
    BY <1>8, <2>1, <2>2
  <2> QED  BY <1>8, <1>9, <1>10, <1>11, <2>1, <2>2, <2>3 DEF AllFit
<1>18. Fresh \/ Past
  BY DEF RequestInv
<1> QED  BY <1>12, <1>13, <1>14, <1>15, <1>16, <1>17, <1>18 DEF RequestInv

(* No packet is there: the loop ends. *)
Unparsed ==
  /\ buffer_' \in Seq(Units) /\ pendingMessageSize_' \in BOOLEAN /\ parsing' = FALSE
  /\ Len(buffer_') <= (IF pendingMessageSize_' THEN 0 ELSE 1)
  /\ Framed(Wire', IF pendingMessageSize_' THEN 3 ELSE 1)
  /\ \A k \in 1..Len(Wire') : \E i \in 1..Len(Wire) : Wire'[k] = Wire[i]

LEMMA NoPacketIs ==
  ASSUME RequestInv, AllFit, Reading, Still, Unparsed,
         UNCHANGED <<isInitialised, initConnection, requestId_, server, output, pendingRequests_, resolved>>
  PROVE  RequestInv' /\ AllFit'
<1>1. SftpTypes'
  BY DEF RequestInv, SftpTypes, Pending, Unparsed
<1>2. OnTheWire'
  <2>1. Size' = Size /\ Pending' = Pending
    BY DEF Size, Still, Pending
  <2>2. /\ \A k \in 1..Len(Wire) : /\ Wire[k].id \in Pending \ server
                                  /\ Wire[k].reply \in Answers(Size, pendingRequests_[Wire[k].id])
        /\ \A k \in 1..Len(resolved) : resolved[k].reply \in Answers(Size, resolved[k].request)
    BY DEF RequestInv, OnTheWire
  <2>3. \A k \in 1..Len(Wire') : /\ Wire'[k].id \in Pending' \ server'
                                 /\ Wire'[k].reply \in Answers(Size', pendingRequests_'[Wire'[k].id])
    <3> SUFFICES ASSUME NEW k \in 1..Len(Wire')
                 PROVE  /\ Wire'[k].id \in Pending' \ server'
                        /\ Wire'[k].reply \in Answers(Size', pendingRequests_'[Wire'[k].id])
      OBVIOUS
    <3>1. PICK i \in 1..Len(Wire) : Wire'[k] = Wire[i]
      BY DEF Unparsed
    <3> QED  BY <2>1, <2>2, <3>1
  <2> QED  BY <2>1, <2>2, <2>3 DEF OnTheWire, Unparsed
<1>3. Alone' /\ (Fresh \/ Past)'
  BY DEF RequestInv, Alone, Rivals, Fresh, Past, Still, Pending
<1>4. AllFit'
  BY StillFits DEF AllFit, Pending
<1> QED  BY <1>1, <1>2, <1>3, <1>4 DEF RequestInv

(* One round of the loop over the buffer. *)
LEMMA BufferParsed ==
  ASSUME RequestInv, AllFit, Reading, File!ParseBuffer, kind' = kind
  PROVE  RequestInv' /\ AllFit' /\ Still
<1>1. Still /\ parsing /\ UNCHANGED <<isInitialised, initConnection, requestId_, server, output>>
  BY DEF File!ParseBuffer, File!transfer, Still
<1>2. /\ buffer_ \in Seq(Units) /\ output \in Seq(Units) /\ pendingMessageSize_ \in BOOLEAN /\ Len(buffer_) \in Nat
      /\ Framed(Wire, IF pendingMessageSize_ THEN 3 ELSE 1)
  BY DEF RequestInv, SftpTypes, OnTheWire
<1>3. /\ Wire \in Seq(Units) /\ Len(Wire) = Len(buffer_) + Len(output) /\ Len(output) \in Nat
      /\ \A i \in 1..Len(buffer_) : i \in 1..Len(Wire) /\ Wire[i] = buffer_[i]
  <2>1. /\ buffer_ \o output \in Seq(Units) /\ Len(buffer_ \o output) = Len(buffer_) + Len(output)
        /\ \A i \in 1..(Len(buffer_) + Len(output)) :
             (buffer_ \o output)[i] = IF i <= Len(buffer_) THEN buffer_[i] ELSE output[i - Len(buffer_)]
    BY <1>2, ConcatProperties
  <2>2. \A i \in 1..Len(buffer_) : i \in 1..(Len(buffer_) + Len(output)) /\ i <= Len(buffer_)
    BY <1>2
  <2> QED  BY <1>2, <2>1, <2>2 DEF Wire
<1>4. /\ Wire # <<>> => Wire[1].unit = (IF pendingMessageSize_ THEN 3 ELSE 1) /\ Wire[Len(Wire)].unit = 3
      /\ \A k \in 1..(Len(Wire) - 1) : Wire[k].unit # 3 => Wire[k + 1].unit = Wire[k].unit + 1
  BY <1>2 DEF Framed
<1>5. Len(Wire) >= 1 => Wire # <<>>
  <2>1. Len(<<>>) = 0
    OBVIOUS
  <2> QED  BY <2>1
<1>6. ~pendingMessageSize_ /\ Len(buffer_) >= 2 => Len(Wire) >= 3 /\ Wire[1].unit = 1 /\ Wire[2].unit = 2 /\ Wire[3].unit = 3
  <2> SUFFICES ASSUME ~pendingMessageSize_, Len(buffer_) >= 2
               PROVE  Len(Wire) >= 3 /\ Wire[1].unit = 1 /\ Wire[2].unit = 2 /\ Wire[3].unit = 3
    OBVIOUS
  <2>1. Len(Wire) >= 2 /\ Wire[1].unit = 1 /\ Wire[Len(Wire)].unit = 3 /\ 1 \in 1..(Len(Wire) - 1)
    BY <1>2, <1>3, <1>4, <1>5
  <2>2. Wire[2].unit = 2
    <3>1. Wire[1 + 1].unit = 1 + 1
      BY <1>4, <2>1
    <3> QED  BY <3>1
  <2>3. Len(Wire) # 2
    BY <2>1, <2>2
  <2>4. Len(Wire) >= 3 /\ 2 \in 1..(Len(Wire) - 1)
    BY <1>2, <1>3, <2>1, <2>3
  <2>5. Wire[2 + 1].unit = 2 + 1
    BY <1>4, <2>2, <2>4
  <2> QED  BY <2>1, <2>2, <2>4, <2>5
<1> DEFINE header == IF pendingMessageSize_ THEN 0 ELSE 2
<1>7. header \in {0, 2}
  OBVIOUS
<1>8. CASE /\ Len(buffer_) > header /\ Settles(header + 1) /\ buffer_' = SubSeq(buffer_, header + 2, Len(buffer_))
           /\ pendingMessageSize_' = FALSE /\ parsing' = parsing
  <2>1. header + 1 \in 1..Len(buffer_) /\ (header + 1) + 1 = header + 2
    BY <1>2, <1>7, <1>8
  <2>2. Wire[header + 1].unit = 3
    <3>1. CASE pendingMessageSize_
      BY <1>2, <1>3, <1>4, <1>5, <1>8, <3>1
    <3>2. CASE ~pendingMessageSize_
      BY <1>2, <1>6, <1>8, <3>2
    <3> QED  BY <3>1, <3>2
  <2> HIDE DEF header
  <2>3. buffer_' = SubSeq(buffer_, (header + 1) + 1, Len(buffer_))
    BY <1>8, <2>1
  <2> QED  BY <1>1, <1>8, <2>1, <2>2, <2>3, PacketIs
<1>10. CASE /\ Len(buffer_) = header /\ buffer_' = <<>> /\ pendingMessageSize_' = TRUE /\ parsing' = FALSE
            /\ UNCHANGED <<pendingRequests_, resolved>>
  <2>1. <<>> \in Seq(Units) /\ Len(<<>>) = 0 /\ <<>> \o output = output
    BY <1>2, NoElements, ConcatEmpty
  <2>2. Wire' = output /\ buffer_' \in Seq(Units) /\ Len(buffer_') = 0
    BY <1>1, <1>10, <2>1 DEF Wire
  <2>3. Framed(Wire', 3) /\ \A k \in 1..Len(Wire') : \E i \in 1..Len(Wire) : Wire'[k] = Wire[i]
    <3>1. CASE pendingMessageSize_
      <4>1. buffer_ = <<>>
        BY <1>2, <1>10, <3>1
      <4>2. Wire = output
        BY <2>1, <4>1 DEF Wire
      <4>3. Framed(Wire, 3)
        BY <1>2, <3>1
      <4> QED  BY <2>2, <4>2, <4>3, Zenon
    <3>2. CASE ~pendingMessageSize_
      <4>1. Len(buffer_) = 2 /\ 2 \in 1..Len(buffer_) /\ 2 \in 1..Len(Wire) /\ Wire[2].unit = 2
        BY <1>2, <1>3, <1>6, <1>10, <3>2
      <4> DEFINE v == SubSeq(Wire, 2 + 1, Len(Wire))
      <4>2. SubSeq(buffer_, 2 + 1, Len(buffer_)) \o output = v
        BY <1>2, <4>1, WireCut DEF Wire
      <4>3. SubSeq(buffer_, 2 + 1, Len(buffer_)) = <<>>
        BY <1>2, <4>1
      <4>4. v = output
        BY <2>1, <4>2, <4>3, Zenon
      <4>5. v = SubSeq(Wire, 2 + 1, Len(Wire))
        OBVIOUS
      <4> HIDE DEF v
      <4>6. Framed(Wire, 1)
        BY <1>2, <3>2
      <4>7. /\ \A k \in 1..Len(v) : v[k] = Wire[2 + k] /\ 2 + k \in 1..Len(Wire)
            /\ Framed(v, IF Wire[2].unit = 3 THEN 1 ELSE Wire[2].unit + 1)
        <5> DEFINE n == 2
        <5>1. n \in 1..Len(Wire) /\ v = SubSeq(Wire, n + 1, Len(Wire)) /\ Wire[n].unit = 2
          BY <4>1, <4>5
        <5>2. n = 2
          OBVIOUS
        <5> HIDE DEF n
        <5>3. Framed(v, IF Wire[n].unit = 3 THEN 1 ELSE Wire[n].unit + 1)
          BY <1>3, <4>6, <5>1, FramedCut
        <5>4. \A k \in 1..Len(v) : v[k] = Wire[n + k] /\ n + k \in 1..Len(Wire)
          BY <1>3, <4>6, <5>1, FramedCut
        <5> QED  BY <5>2, <5>3, <5>4, Zenon
      <4>8. Framed(v, 3)
        <5>1. (IF Wire[2].unit = 3 THEN 1 ELSE Wire[2].unit + 1) = 3
          BY <4>1
        <5> QED  BY <4>7, <5>1, Zenon
      <4>9. \A k \in 1..Len(v) : \E i \in 1..Len(Wire) : v[k] = Wire[i]
        BY <4>7
      <4>10. Wire' = v
        BY <2>2, <4>4
      <4> QED  BY <4>8, <4>9, <4>10, Zenon
    <3> QED  BY <1>2, <3>1, <3>2
  <2>4. Unparsed
    BY <1>10, <2>2, <2>3 DEF Unparsed
  <2> QED  BY <1>1, <1>10, <2>4, NoPacketIs
<1>11. CASE /\ Len(buffer_) < header /\ parsing' = FALSE
            /\ UNCHANGED <<pendingRequests_, resolved, buffer_, pendingMessageSize_>>
  <2>1. Wire' = Wire
    BY <1>1, <1>11 DEF Wire
  <2>2. Len(buffer_) <= (IF pendingMessageSize_ THEN 0 ELSE 1)
    BY <1>2, <1>11
  <2>3. Unparsed
    BY <1>2, <1>11, <2>1, <2>2 DEF Unparsed
  <2> QED  BY <1>1, <1>11, <2>3, NoPacketIs
<1>12. \/ /\ Len(buffer_) > header /\ Settles(header + 1) /\ buffer_' = SubSeq(buffer_, header + 2, Len(buffer_))
          /\ pendingMessageSize_' = FALSE /\ parsing' = parsing
       \/ /\ Len(buffer_) = header /\ buffer_' = <<>> /\ pendingMessageSize_' = TRUE /\ parsing' = FALSE
          /\ UNCHANGED <<pendingRequests_, resolved>>
       \/ /\ Len(buffer_) < header /\ parsing' = FALSE
          /\ UNCHANGED <<pendingRequests_, resolved, buffer_, pendingMessageSize_>>
  BY DEF File!ParseBuffer, File!OnPacket, File!HeaderUnits, File!None, File!Ids, Settles, Pending
<1> QED  BY <1>1, <1>8, <1>10, <1>11, <1>12

-----------------------------------------------------------------------------
(* The requests that have no reply, or whose handlers have not run.        *)
Live(p) == \/ \E id \in Pending : p = pendingRequests_[id]
           \/ \E k \in 1..Len(resolved) : p = resolved[k].request

(* A handler takes the first settled promise, or none is taken. *)
Takes(d) ==
  /\ UNCHANGED <<output, buffer_, pendingMessageSize_, parsing>> /\ kind' = kind
  /\ \/ d = 0 /\ resolved' = resolved
     \/ d = 1 /\ resolved # <<>> /\ resolved' = Tail(resolved)

(* Nothing is sent, or a request that has no rival but the one taken. *)
Silent == /\ UNCHANGED <<requestId_, pendingRequests_, server>> /\ isInitialised' \in BOOLEAN
          /\ initConnection' \in {"pending", "ok", "failed"}
Sends(q, d) == /\ q \in Reqs /\ q.op # "INIT" /\ File!SendRequest(q)
               /\ \A p : Live(p) /\ Rivals(q, p) => d = 1 /\ Rivals(resolved[1].request, p)

(* What is left of the settled promises, and of the live requests. *)
Remains(d) ==
  /\ resolved' \in Seq([request : Reqs, reply : Int]) /\ Len(resolved') + d = Len(resolved) /\ Len(resolved') \in Nat
  /\ \A k \in 1..Len(resolved') : k + d \in 1..Len(resolved) /\ resolved'[k] = resolved[k + d]
  /\ d = 1 => /\ 1 \in 1..Len(resolved)
              /\ \A id \in Pending : ~Rivals(resolved[1].request, pendingRequests_[id])
              /\ \A k \in 1..Len(resolved') : ~Rivals(resolved[1].request, resolved'[k].request)

(* A handler that runs leaves the other promises. *)
LEMMA WhatRemains ==
  ASSUME RequestInv, NEW d \in {0, 1}, Takes(d)
  PROVE  Remains(d)
<1>1. /\ resolved \in Seq([request : Reqs, reply : Int])
      /\ \A k, l \in 1..Len(resolved) : Rivals(resolved[k].request, resolved[l].request) => k = l
      /\ \A id \in Pending, k \in 1..Len(resolved) : ~Rivals(pendingRequests_[id], resolved[k].request)
  BY DEF RequestInv, SftpTypes, Alone
<1>2. CASE d = 0
  BY <1>1, <1>2 DEF Takes, Remains
<1>3. CASE d = 1
  <2>1. resolved # <<>> /\ resolved' = Tail(resolved)
    BY <1>3 DEF Takes
  <2>2. /\ resolved' \in Seq([request : Reqs, reply : Int]) /\ Len(resolved') = Len(resolved) - 1 /\ Len(resolved') \in Nat
        /\ Len(resolved) \in Nat
        /\ \A k \in 1..Len(resolved') : k + 1 \in 1..Len(resolved) /\ resolved'[k] = resolved[k + 1]
    BY <1>1, <2>1
  <2>3. 1 \in 1..Len(resolved)
    BY <2>2
  <2>4. \A id \in Pending : ~Rivals(resolved[1].request, pendingRequests_[id])
    BY <1>1, <2>3 DEF Rivals
  <2>5. ASSUME NEW k \in 1..Len(resolved') PROVE ~Rivals(resolved[1].request, resolved'[k].request)
    <3>1. k + 1 \in 1..Len(resolved) /\ resolved'[k] = resolved[k + 1] /\ k + 1 # 1
      BY <2>2
    <3> QED  BY <1>1, <2>3, <3>1
  <2>6. Len(resolved') + d = Len(resolved)
    BY <1>3, <2>2
  <2> QED  BY <1>3, <2>2, <2>3, <2>4, <2>5, <2>6 DEF Remains
<1> QED  BY <1>2, <1>3

(* The requests stay sound when no request is sent, and when one is. *)
LEMMA NoneSent ==
  ASSUME RequestInv, Past, NEW d \in {0, 1}, Takes(d), Silent
  PROVE  /\ RequestInv' /\ Past'
         /\ \A p : Live(p)' => Live(p) /\ (d = 1 => ~Rivals(resolved[1].request, p))
<1>1. Remains(d)
  BY WhatRemains
<1>2. Pending' = Pending /\ Size' = Size /\ Wire' = Wire
  BY DEF Silent, Takes, Pending, Size, Wire
<1>3. SftpTypes'
  BY <1>1, <1>2 DEF RequestInv, SftpTypes, Silent, Takes, Remains
<1>4. OnTheWire'
  <2>1. \A k \in 1..Len(resolved') : resolved'[k].reply \in Answers(Size', resolved'[k].request)
    BY <1>1, <1>2 DEF RequestInv, OnTheWire, Remains
  <2> QED  BY <1>2, <2>1 DEF RequestInv, OnTheWire, Silent, Takes
<1>5. Alone'
  <2>1. \A k, l \in 1..Len(resolved') : Rivals(resolved'[k].request, resolved'[l].request) => k = l
    <3> SUFFICES ASSUME NEW k \in 1..Len(resolved'), NEW l \in 1..Len(resolved'),
                        Rivals(resolved'[k].request, resolved'[l].request)
                 PROVE  k = l
      OBVIOUS
    <3>1. k + d \in 1..Len(resolved) /\ l + d \in 1..Len(resolved) /\ resolved'[k] = resolved[k + d] /\ resolved'[l] = resolved[l + d]
      BY <1>1 DEF Remains
    <3>2. k + d = l + d
      BY <3>1 DEF RequestInv, Alone
    <3> QED  BY <3>2
  <2> QED  BY <1>1, <1>2, <2>1 DEF RequestInv, Alone, Remains, Silent
<1>6. Past'
  BY <1>1, <1>2 DEF Past, Remains, Silent
<1>7. \A p : Live(p)' => Live(p) /\ (d = 1 => ~Rivals(resolved[1].request, p))
  BY <1>1, <1>2 DEF Live, Remains, Silent
<1> QED  BY <1>3, <1>4, <1>5, <1>6, <1>7 DEF RequestInv

LEMMA OneSent ==
  ASSUME RequestInv, Past, NEW d \in {0, 1}, Takes(d), NEW q, Sends(q, d)
  PROVE  /\ RequestInv' /\ Past'
         /\ \A p : Live(p)' => p = q \/ (Live(p) /\ (d = 1 => ~Rivals(resolved[1].request, p)))
<1>1. Remains(d)
  BY WhatRemains
<1>2. /\ Pending' = Pending \cup {requestId_} /\ Size' = Size /\ Wire' = Wire /\ requestId_ \notin Pending
      /\ server' = server \cup {requestId_} /\ requestId_' = requestId_ + 1 /\ requestId_ \in Nat
      /\ \A id \in Pending : pendingRequests_'[id] = pendingRequests_[id]
      /\ pendingRequests_'[requestId_] = q
      /\ UNCHANGED <<isInitialised, initConnection>>
  <2>1. \A id \in Pending : id < requestId_ /\ id \in Int
    BY DEF RequestInv, SftpTypes
  <2>2. requestId_ \in Nat /\ requestId_ \notin Pending
    BY <2>1 DEF RequestInv, SftpTypes
  <2> QED  BY <2>2 DEF Sends, Takes, Pending, Size, Wire, File!SendRequest, File!Ids, File!NextId
<1>3. SftpTypes'
  <2>1. \A id \in Pending' : id \in Int /\ -1 <= id /\ id < requestId_' /\ pendingRequests_'[id] \in Reqs
    <3>1. \A id \in Pending : id \in Int /\ -1 <= id /\ id < requestId_ /\ pendingRequests_[id] \in Reqs
      BY DEF RequestInv, SftpTypes
    <3> QED  BY <1>2, <3>1 DEF Sends
  <2> QED  BY <1>1, <1>2, <2>1 DEF RequestInv, SftpTypes, Takes, Remains
<1>4. OnTheWire'
  <2>1. \A k \in 1..Len(resolved') : resolved'[k].reply \in Answers(Size', resolved'[k].request)
    BY <1>1, <1>2 DEF RequestInv, OnTheWire, Remains
  <2>2. \A k \in 1..Len(Wire') : /\ Wire'[k].id \in Pending' \ server'
                                 /\ Wire'[k].reply \in Answers(Size', pendingRequests_'[Wire'[k].id])
    <3>1. \A k \in 1..Len(Wire) : /\ Wire[k].id \in Pending \ server
                                  /\ Wire[k].reply \in Answers(Size, pendingRequests_[Wire[k].id])
      BY DEF RequestInv, OnTheWire
    <3> QED  BY <1>2, <3>1
  <2> QED  BY <1>2, <2>1, <2>2 DEF RequestInv, OnTheWire, Takes
<1>5. /\ \A id \in Pending : ~Rivals(q, pendingRequests_[id])
      /\ \A k \in 1..Len(resolved') : ~Rivals(q, resolved'[k].request)
  <2>1. \A p : Live(p) /\ Rivals(q, p) => d = 1 /\ Rivals(resolved[1].request, p)
    BY DEF Sends
  <2>2. \A id \in Pending : Live(pendingRequests_[id])
    BY DEF Live
  <2>3. \A k \in 1..Len(resolved') : Live(resolved'[k].request)
    BY <1>1 DEF Live, Remains
  <2> QED  BY <1>1, <2>1, <2>2, <2>3 DEF Remains
<1>6. Alone'
  <2>1. \A k, l \in 1..Len(resolved') : Rivals(resolved'[k].request, resolved'[l].request) => k = l
    <3> SUFFICES ASSUME NEW k \in 1..Len(resolved'), NEW l \in 1..Len(resolved'),
                        Rivals(resolved'[k].request, resolved'[l].request)
                 PROVE  k = l
      OBVIOUS
    <3>1. k + d \in 1..Len(resolved) /\ l + d \in 1..Len(resolved) /\ resolved'[k] = resolved[k + d] /\ resolved'[l] = resolved[l + d]
      BY <1>1 DEF Remains
    <3>2. k + d = l + d
      BY <3>1 DEF RequestInv, Alone
    <3> QED  BY <3>2
  <2>2. \A id, jd \in Pending' : Rivals(pendingRequests_'[id], pendingRequests_'[jd]) => id = jd
    <3>1. \A a, b : Rivals(a, b) => Rivals(b, a)
      BY DEF Rivals
    <3>2. \A id, jd \in Pending : Rivals(pendingRequests_[id], pendingRequests_[jd]) => id = jd
      BY DEF RequestInv, Alone
    <3> QED  BY <1>2, <1>5, <3>1, <3>2
  <2>3. \A id \in Pending', k \in 1..Len(resolved') : ~Rivals(pendingRequests_'[id], resolved'[k].request)
    <3>1. \A id \in Pending, k \in 1..Len(resolved) : ~Rivals(pendingRequests_[id], resolved[k].request)
      BY DEF RequestInv, Alone
    <3> QED  BY <1>1, <1>2, <1>5, <3>1 DEF Remains
  <2> QED  BY <2>1, <2>2, <2>3 DEF Alone
<1>7. Past'
  BY <1>1, <1>2 DEF Past, Remains, Sends
<1>8. \A p : Live(p)' => p = q \/ (Live(p) /\ (d = 1 => ~Rivals(resolved[1].request, p)))
  BY <1>1, <1>2 DEF Live, Remains
<1> QED  BY <1>3, <1>4, <1>6, <1>7, <1>8 DEF RequestInv

-----------------------------------------------------------------------------
(* One transfer changes. *)
Others(t) ==
  /\ DOMAIN stage' = Transfers /\ DOMAIN length' = Transfers /\ DOMAIN offset' = Transfers /\ DOMAIN canceled' = Transfers
  /\ DOMAIN callbacks' = Transfers /\ DOMAIN given' = Transfers /\ DOMAIN last' = Transfers /\ kind' = kind
  /\ \A o \in Transfers \ {t} :
       /\ stage'[o] = stage[o] /\ length'[o] = length[o] /\ offset'[o] = offset[o] /\ canceled'[o] = canceled[o]
       /\ callbacks'[o] = callbacks[o] /\ given'[o] = given[o] /\ last'[o] = last[o]

(* Every live request fits. *)
LEMMA LiveFits ==
  (AllFit <=> \A p : Live(p) => Fits(p)) /\ (RequestInv => \A p : Live(p) => p \in Reqs)
<1>1. AllFit <=> \A p : Live(p) => Fits(p)
  BY DEF AllFit, Live
<1>2. RequestInv => \A p : Live(p) => p \in Reqs
  <2> SUFFICES ASSUME RequestInv, NEW p, Live(p) PROVE p \in Reqs
    OBVIOUS
  <2>1. \A k \in 1..Len(resolved) : resolved[k].request \in Reqs
    <3> DEFINE S == [request : Reqs, reply : Int]
    <3>1. resolved \in Seq(S)
      BY DEF RequestInv, SftpTypes
    <3>2. \A e \in S : e.request \in Reqs
      OBVIOUS
    <3> HIDE DEF S
    <3> QED  BY <3>1, <3>2
  <2>2. \A id \in Pending : pendingRequests_[id] \in Reqs
    BY DEF RequestInv, SftpTypes
  <2> QED  BY <2>1, <2>2 DEF Live
<1> QED  BY <1>1, <1>2

(* A step of a transfer is sound if it is of that transfer, and the        *)
(* requests of the transfer that are left, and the new one, fit.           *)
Of(q, t) == q.op \in {"OPEN", "CLOSE", "READ"} /\ q.t = t
LEMMA OneChanges ==
  ASSUME RequestInv, AllFit, Reading, NEW t \in Transfers, Others(t), Transfer(t)',
         \A p : Live(p)' => Live(p) \/ Of(p, t), \A p : Live(p)' /\ Of(p, t) => Fits(p)'
  PROVE  AllFit' /\ Reading'
<1>1. ASSUME NEW o \in Transfers PROVE Transfer(o)'
  <2>1. CASE o = t
    BY <2>1
  <2>2. CASE o # t
    <3>1. /\ stage'[o] = stage[o] /\ length'[o] = length[o] /\ offset'[o] = offset[o] /\ canceled'[o] = canceled[o]
          /\ callbacks'[o] = callbacks[o] /\ given'[o] = given[o] /\ last'[o] = last[o] /\ Size' = Size
      BY <2>2 DEF Others, Size
    <3>2. Transfer(o)
      BY DEF Reading
    <3> QED  BY <3>1, <3>2 DEF Transfer, Goal
  <2> QED  BY <2>1, <2>2
<1>2. Reading'
  BY <1>1 DEF Reading, Others
<1>3. ASSUME NEW p, Live(p)' PROVE Fits(p)'
  <2>1. CASE Of(p, t)
    BY <1>3, <2>1
  <2>2. CASE ~Of(p, t)
    <3>1. Live(p) /\ p \in Reqs /\ Fits(p)
      BY <1>3, <2>2, LiveFits
    <3>2. p.op \in {"OPEN", "CLOSE", "READ"} => p.t \in Transfers \ {t}
      BY <2>2, <3>1, ReqIs DEF Of
    <3> QED  BY <3>1, <3>2 DEF Fits, Wanting, Others
  <2> QED  BY <2>1, <2>2
<1>4. AllFit'
  BY <1>3 DEF AllFit, Live
<1> QED  BY <1>2, <1>4

(* The promise whose handler runs. *)
Heads(op) ==
  /\ ~parsing /\ resolved # <<>> /\ File!Reply = resolved[1].reply /\ Head(resolved) = resolved[1]
  /\ resolved[1].request \in Reqs /\ resolved[1].request.op = op /\ Live(resolved[1].request) /\ Fits(resolved[1].request)
  /\ resolved[1].reply \in Answers(Size, resolved[1].request) /\ resolved[1].reply \in Int
  /\ (op # "INIT" => Past) /\ Takes(1)

(* What its handler may take for granted. *)
LEMMA HeadIs ==
  ASSUME RequestInv, AllFit, NEW op, File!Settled(op), File!Taken, kind' = kind
  PROVE  Heads(op)
<1>1. resolved \in Seq([request : Reqs, reply : Int]) /\ resolved # <<>> /\ ~parsing
  BY DEF RequestInv, SftpTypes, File!Settled, File!None
<1>2. Head(resolved) = resolved[1] /\ resolved[1] \in [request : Reqs, reply : Int] /\ 1 \in 1..Len(resolved)
  <2> DEFINE S == [request : Reqs, reply : Int]
  <2>1. resolved \in Seq(S) /\ resolved # <<>>
    BY <1>1
  <2> HIDE DEF S
  <2>2. Head(resolved) = resolved[1] /\ resolved[1] \in S /\ 1 \in 1..Len(resolved)
    BY <2>1, TailProperties
  <2> QED  BY <2>2 DEF S
<1>3. File!Reply = resolved[1].reply /\ resolved[1].request.op = op
  BY <1>2 DEF File!Settled, File!Reply
<1>4. Live(resolved[1].request) /\ resolved[1].request \in Reqs /\ resolved[1].reply \in Int
  BY <1>2 DEF Live
<1>5. Fits(resolved[1].request)
  BY <1>4, LiveFits
<1>6. resolved[1].reply \in Answers(Size, resolved[1].request)
  BY <1>2 DEF RequestInv, OnTheWire
<1>7. op # "INIT" => Past
  <2>1. Fresh => op = "INIT"
    BY <1>1, <1>3 DEF Fresh
  <2> QED  BY <2>1 DEF RequestInv
<1>8. Takes(1)
  BY <1>1 DEF File!Taken, Takes
<1> QED  BY <1>1, <1>2, <1>3, <1>4, <1>5, <1>6, <1>7, <1>8 DEF Heads

(* The server's limits. *)
LEMMA LimitsCome ==
  ASSUME RequestInv, AllFit, Reading, File!OnLimits, kind' = kind
  PROVE  ClientInv'
<1>1. Heads("LIMITS") /\ Still
  BY HeadIs DEF File!OnLimits, File!transfer, Still
<1>2. Past /\ Takes(1) /\ Silent
  BY <1>1 DEF Heads, Silent, File!OnLimits, RequestInv, SftpTypes
<1>3. RequestInv' /\ \A p : Live(p)' => Live(p)
  BY <1>2, NoneSent
<1>4. Reading' /\ AllFit'
  <2>1. Reading' /\ \A p : Fits(p) => Fits(p)'
    BY <1>1, StillFits
  <2>2. \A p : Live(p)' => Fits(p)'
    BY <1>3, <2>1, LiveFits
  <2> QED  BY <2>1, <2>2 DEF AllFit, Live
<1> QED  BY <1>3, <1>4 DEF ClientInv

(* The reply to a request that is not of a transfer. *)
LEMMA AskEnds ==
  ASSUME RequestInv, AllFit, Reading, File!OnAsk, kind' = kind
  PROVE  ClientInv'
<1>1. Heads("ASK") /\ Still
  BY HeadIs DEF File!OnAsk, Still
<1>2. Past /\ Takes(1) /\ Silent
  BY <1>1 DEF Heads, Silent, File!OnAsk, File!connection, RequestInv, SftpTypes
<1>3. RequestInv' /\ \A p : Live(p)' => Live(p)
  BY <1>2, NoneSent
<1>4. Reading' /\ AllFit'
  <2>1. Reading' /\ \A p : Fits(p) => Fits(p)'
    BY <1>1, StillFits
  <2>2. \A p : Live(p)' => Fits(p)'
    BY <1>3, <2>1, LiveFits
  <2> QED  BY <2>1, <2>2 DEF AllFit, Live
<1> QED  BY <1>3, <1>4 DEF ClientInv

(* A request that is not of a transfer is sent. *)
LEMMA AskStarts ==
  ASSUME RequestInv, AllFit, Reading, NEW n \in Nat, initConnection = "ok",
         File!SendRequest([op |-> "ASK", t |-> n]), UNCHANGED File!incoming, Still
  PROVE  ClientInv'
<1> DEFINE q == [op |-> "ASK", t |-> n]
<1>1. q \in Reqs /\ q.op = "ASK"
  BY DEF Reqs
<1>2. File!SendRequest(q)
  OBVIOUS
<1> HIDE DEF q
<1>3. Past /\ Takes(0)
  <2>1. ~Fresh
    BY DEF Fresh
  <2>2. UNCHANGED <<output, buffer_, pendingMessageSize_, parsing>> /\ resolved' = resolved
    BY DEF File!incoming
  <2>3. Past
    BY <2>1 DEF RequestInv
  <2>4. kind' = kind
    BY DEF Still
  <2>5. Takes(0)
    BY <2>2, <2>4 DEF Takes
  <2> QED  BY <2>3, <2>5, Zenon
<1>4. Sends(q, 0)
  BY <1>1, <1>2 DEF Sends, Rivals
<1>5. RequestInv' /\ \A p : Live(p)' => Live(p) \/ p = q
  BY <1>3, <1>4, OneSent
<1>6. Reading' /\ AllFit'
  <2>1. Reading' /\ \A p : Fits(p) => Fits(p)'
    BY StillFits
  <2>2. Fits(q)
    BY <1>1 DEF Fits
  <2>3. \A p : Live(p)' => Fits(p)'
    BY <1>5, <2>1, <2>2, LiveFits
  <2> QED  BY <2>1, <2>3 DEF AllFit, Live
<1> QED  BY <1>5, <1>6 DEF ClientInv

(* The server's version. *)
LEMMA VersionComes ==
  ASSUME RequestInv, AllFit, Reading, File!OnVersion, kind' = kind
  PROVE  ClientInv'
<1>1. Heads("INIT") /\ Still
  BY HeadIs DEF File!OnVersion, File!transfer, Still
<1>2. /\ Pending = {} /\ Len(resolved) = 1 /\ server = {} /\ requestId_ \in Nat /\ initConnection = "pending"
      /\ resolved \in Seq([request : Reqs, reply : Int])
  <2>1. ~Past
    <3>1. Len(resolved) \in Nat /\ Len(resolved) # 0
      BY <1>1 DEF Heads, RequestInv, SftpTypes
    <3>2. 1 \in 1..Len(resolved)
      BY <3>1
    <3> QED  BY <1>1, <3>2 DEF Heads, Past
  <2> QED  BY <1>1, <2>1 DEF RequestInv, Fresh, SftpTypes, Heads
<1>3. resolved' = <<>> /\ Len(resolved') = 0
  <2>1. resolved' = Tail(resolved) /\ Len(Tail(resolved)) = Len(resolved) - 1 /\ Tail(resolved) \in Seq([request : Reqs, reply : Int])
    BY <1>1, <1>2, TailProperties DEF Heads, Takes
  <2> QED  BY <1>2, <2>1
<1>4. UNCHANGED <<output, buffer_, pendingMessageSize_, parsing>>
  BY <1>1 DEF Heads, Takes
<1>5. Len(Wire) = 0 /\ Wire' = Wire
  <2>1. Wire \in Seq(Units) /\ \A k \in 1..Len(Wire) : FALSE
    BY <1>2, ConcatProperties DEF RequestInv, SftpTypes, OnTheWire, Wire
  <2>2. Len(Wire) \in Nat
    BY <2>1
  <2>3. Len(Wire) = 0
    BY <2>1, <2>2
  <2> QED  BY <1>4, <2>3 DEF Wire
<1>6. /\ requestId_' \in Nat /\ isInitialised' \in BOOLEAN /\ initConnection' \in {"pending", "ok", "failed"} /\ server' \subseteq Pending'
      /\ \A id \in Pending' : /\ id \in Int /\ -1 <= id /\ id < requestId_'
                              /\ pendingRequests_'[id] \in Reqs /\ pendingRequests_'[id].op = "LIMITS"
      /\ \A id, jd \in Pending' : id = jd
  <2>1. CASE UNCHANGED <<requestId_, pendingRequests_, server>>
    BY <1>2, <2>1 DEF File!OnVersion, Pending, RequestInv, SftpTypes
  <2>2. CASE /\ pendingRequests_' = [i \in {requestId_} |-> [op |-> "LIMITS"]]
             /\ server' = {requestId_} /\ requestId_' = requestId_ + 1 /\ UNCHANGED initConnection
    <3>1. [op |-> "LIMITS"] \in Reqs
      BY DEF Reqs
    <3> QED  BY <1>2, <2>2, <3>1 DEF File!OnVersion, Pending, RequestInv, SftpTypes
  <2> QED  BY <2>1, <2>2 DEF File!OnVersion, File!NextId
<1>7. SftpTypes'
  BY <1>3, <1>4, <1>6, NoElements DEF RequestInv, SftpTypes
<1>8. OnTheWire'
  BY <1>3, <1>4, <1>5 DEF RequestInv, OnTheWire
<1>9. Alone' /\ Past'
  BY <1>3, <1>6 DEF Alone, Past
<1>10. Reading' /\ AllFit'
  <2>1. Reading'
    BY <1>1, StillFits
  <2>2. AllFit'
    BY <1>3, <1>6 DEF AllFit, Fits
  <2> QED  BY <2>1, <2>2
<1> QED  BY <1>7, <1>8, <1>9, <1>10 DEF RequestInv, ClientInv

(* A transfer starts. *)
LEMMA ReadStarts ==
  ASSUME RequestInv, AllFit, Reading, NEW t \in Transfers, File!ReadFile(t), kind' = kind,
         \A n \in Lengths : n \in Nat \/ n = -1, Size \in Nat
  PROVE  ClientInv'
<1> DEFINE q == [op |-> "OPEN", t |-> t]
<1>1. q \in Reqs /\ q.op = "OPEN" /\ q.t = t
  BY DEF Reqs
<1>2. File!SendRequest(q) /\ stage[t] = "none" /\ initConnection = "ok"
  BY DEF File!ReadFile
<1> HIDE DEF q
<1>3. Past /\ Takes(0)
  BY <1>2 DEF RequestInv, Fresh, Takes, File!ReadFile, File!incoming
<1>4. ASSUME NEW p, Live(p) PROVE ~Of(p, t)
  BY <1>2, <1>4, LiveFits DEF Fits, Of
<1>5. Sends(q, 0)
  BY <1>1, <1>2, <1>4 DEF Sends, Rivals, Of
<1>6. RequestInv' /\ \A p : Live(p)' => Live(p) \/ p = q
  BY <1>3, <1>5, OneSent
<1>7. /\ stage' = [stage EXCEPT ![t] = "open"] /\ \E n \in Lengths : length' = [length EXCEPT ![t] = n]
      /\ UNCHANGED <<offset, canceled, callbacks, given, last>>
  BY DEF File!ReadFile, File!Becomes
<1>8. Others(t)
  BY <1>7 DEF Others, Reading
<1>9. Transfer(t)'
  <2>1. Transfer(t) /\ stage'[t] = "open" /\ length'[t] \in Lengths /\ Size' = Size
    BY <1>7 DEF Reading, Size
  <2>2. offset[t] = 0 /\ last[t] = "asked" /\ given[t] = <<>> /\ End(given[t]) = 0 /\ Len(given[t]) = 0
    BY <1>2, <2>1 DEF Transfer, End
  <2>3. length'[t] # -1 => 0 <= length'[t]
    BY <2>1
  <2> QED  BY <1>7, <2>1, <2>2, <2>3 DEF Transfer, Goal
<1>10. Fits(q)'
  BY <1>1, <1>7 DEF Fits, Reading
<1>11. AllFit' /\ Reading'
  <2>1. \A p : Live(p)' => Live(p) \/ Of(p, t)
    BY <1>1, <1>6 DEF Of
  <2>2. \A p : Live(p)' /\ Of(p, t) => Fits(p)'
    BY <1>4, <1>6, <1>10
  <2> QED  BY <1>8, <1>9, <2>1, <2>2, OneChanges
<1> QED  BY <1>6, <1>11 DEF ClientInv

(* A transfer closes its file. *)
LEMMA CloseStarts ==
  ASSUME RequestInv, AllFit, Reading, NEW t \in Transfers, File!CloseFile(t), kind' = kind
  PROVE  ClientInv'
<1> DEFINE q == [op |-> "CLOSE", t |-> t]
<1>1. q \in Reqs /\ q.op = "CLOSE" /\ q.t = t
  BY DEF Reqs
<1>2. File!SendRequest(q) /\ stage[t] = "read"
  BY DEF File!CloseFile
<1> HIDE DEF q
<1>3. Past /\ Takes(0)
  BY <1>2 DEF RequestInv, Fresh, Takes, File!CloseFile, File!incoming
<1>5. Sends(q, 0)
  BY <1>1, <1>2 DEF Sends, Rivals
<1>6. RequestInv' /\ \A p : Live(p)' => Live(p) \/ p = q
  BY <1>3, <1>5, OneSent
<1>7. stage' = [stage EXCEPT ![t] = "close"] /\ UNCHANGED <<length, offset, canceled, callbacks, given, last>>
  BY DEF File!CloseFile, File!Becomes
<1>8. Others(t)
  BY <1>7 DEF Others, Reading
<1>9. Transfer(t)'
  <2>1. Transfer(t) /\ stage'[t] = "close" /\ Size' = Size
    BY <1>7 DEF Reading, Size
  <2> QED  BY <1>2, <1>7, <2>1 DEF Transfer, Goal
<1>10. ASSUME NEW p, Of(p, t), Live(p) \/ p = q PROVE Fits(p)'
  <2>1. stage'[t] = "close"
    BY <1>7 DEF Reading
  <2>2. CASE p = q
    BY <1>1, <2>1, <2>2 DEF Fits
  <2>3. CASE Live(p)
    <3>1. Fits(p)
      BY <2>3, LiveFits
    <3> QED  BY <1>2, <1>7, <1>10, <2>1, <3>1 DEF Fits, Of, Wanting
  <2> QED  BY <1>10, <2>2, <2>3
<1>11. AllFit' /\ Reading'
  <2>1. \A p : Live(p)' => Live(p) \/ Of(p, t)
    BY <1>1, <1>6 DEF Of
  <2>2. \A p : Live(p)' /\ Of(p, t) => Fits(p)'
    BY <1>6, <1>10
  <2> QED  BY <1>8, <1>9, <2>1, <2>2, OneChanges
<1> QED  BY <1>6, <1>11 DEF ClientInv

(* The file is closed, and the caller told. *)
LEMMA CloseEnds ==
  ASSUME RequestInv, AllFit, Reading, File!OnClose, kind' = kind
  PROVE  ClientInv'
<1>0. PICK h, t : h = resolved[1].request /\ t = h.t
  OBVIOUS
<1>1. Heads("CLOSE")
  BY HeadIs DEF File!OnClose
<1>2. h \in Reqs /\ h.op = "CLOSE" /\ t \in Transfers /\ stage[t] \in {"close", "done", "failed"}
  BY <1>0, <1>1, ReqIs DEF Heads, Fits
<1>3. /\ stage' = [stage EXCEPT ![t] = IF File!Reply = File!Success /\ File!Outcome(t) = "end" THEN "done" ELSE "failed"]
      /\ UNCHANGED <<length, offset, canceled, callbacks, given, last>>
  BY <1>0, <1>1 DEF File!OnClose, File!Becomes, Heads
<1>4. Past /\ Takes(1) /\ Silent
  BY <1>1 DEF Heads, Silent, File!OnClose, File!connection, RequestInv, SftpTypes
<1>5. RequestInv' /\ \A p : Live(p)' => Live(p)
  BY <1>4, NoneSent
<1>6. Others(t)
  BY <1>3 DEF Others, Reading
<1>7. stage'[t] \in {"done", "failed"} /\ (stage'[t] = "done" => File!Outcome(t) = "end")
  BY <1>2, <1>3 DEF Reading
<1>8. File!Outcome(t) = "end" => last[t] = "end" /\ \A n \in DOMAIN callbacks[t] : callbacks[t][n] = "ok"
  BY DEF File!Outcome
<1>9. Transfer(t)'
  <2>0. Transfer(t) /\ Size' = Size
    BY <1>2 DEF Reading, Size
  <2>1. Transfer(t) /\ Size' = Size /\ DOMAIN callbacks[t] = 1..Len(callbacks[t])
    <3>1. callbacks[t] \in Seq(Marks)
      BY <2>0 DEF Transfer
    <3> QED  BY <2>0, <3>1
  <2>2. stage'[t] = "done" => last[t] = "end" /\ \A n \in 1..Len(callbacks[t]) : callbacks[t][n] = "ok"
    BY <1>7, <1>8, <2>1, Zenon
  <2>3. UNCHANGED <<length, offset, canceled, callbacks, given, last>>
    BY <1>3
  <2> QED  BY <1>7, <2>1, <2>2, <2>3 DEF Transfer, Goal
<1>10. ASSUME NEW p, Of(p, t), Live(p) PROVE Fits(p)'
  <2>1. Fits(p)
    BY <1>10, LiveFits
  <2> QED  BY <1>2, <1>3, <1>7, <1>10, <2>1 DEF Fits, Of, Wanting
<1>11. AllFit' /\ Reading'
  <2>1. \A p : Live(p)' => Live(p) \/ Of(p, t)
    BY <1>5
  <2>2. \A p : Live(p)' /\ Of(p, t) => Fits(p)'
    BY <1>5, <1>10
  <2> QED  BY <1>2, <1>6, <1>9, <2>1, <2>2, OneChanges
<1> QED  BY <1>5, <1>11 DEF ClientInv

(* A callback ends. *)
LEMMA CallbackIsOver ==
  ASSUME RequestInv, AllFit, Reading, NEW t \in Transfers, NEW n \in DOMAIN callbacks[t],
         NEW how \in {"ok", "false", "threw"}, File!CallbackEnds(t, n, how), kind' = kind
  PROVE  ClientInv'
<1>1. /\ callbacks[t][n] = "running" /\ callbacks' = [callbacks EXCEPT ![t] = [callbacks[t] EXCEPT ![n] = how]]
      /\ canceled' = [canceled EXCEPT ![t] = canceled[t] \/ how = "false"]
      /\ UNCHANGED <<stage, length, offset, given, last>>
  BY DEF File!CallbackEnds, File!Becomes
<1>2. UNCHANGED <<isInitialised, initConnection, requestId_, pendingRequests_, server>>
  BY DEF File!CallbackEnds, File!connection
<1>3. UNCHANGED <<output, buffer_, pendingMessageSize_, parsing>> /\ resolved' = resolved
  BY DEF File!CallbackEnds, File!incoming
<1>4. Others(t)
  BY <1>1 DEF Others, Reading
<1>5. Transfer(t)'
  <2>1. Transfer(t) /\ Size' = Size /\ callbacks[t] \in Seq(Marks)
    BY <1>1 DEF Reading, Size, Transfer
  <2>2. /\ callbacks'[t] \in Seq(Marks) /\ Len(callbacks'[t]) = Len(callbacks[t]) /\ n \in 1..Len(callbacks[t])
        /\ \A m \in 1..Len(callbacks[t]) : callbacks'[t][m] = IF m = n THEN how ELSE callbacks[t][m]
    <3>1. how \in Marks
      BY DEF Marks
    <3> QED  BY <1>1, <2>1, <3>1 DEF Reading
  <2>3. stage[t] # "done"
    BY <1>1, <2>1, <2>2 DEF Transfer
  <2> DEFINE b == canceled[t] \/ how = "false"
  <2>4. canceled'[t] = b /\ b \in BOOLEAN
    BY <1>1 DEF Reading
  <2>5. b => \E m \in 1..Len(callbacks'[t]) : callbacks'[t][m] = "false"
    <3>1. CASE how = "false"
      BY <2>2, <3>1
    <3>2. CASE canceled[t]
      <4>1. PICK m \in 1..Len(callbacks[t]) : callbacks[t][m] = "false"
        BY <2>1, <3>2 DEF Transfer
      <4> QED  BY <1>1, <2>2, <4>1
    <3> QED  BY <3>1, <3>2
  <2>6. ~b => ~canceled[t]
    OBVIOUS
  <2> HIDE DEF b
  <2>7. canceled'[t] \in BOOLEAN
    BY <2>4, Zenon
  <2>8. canceled'[t] => \E m \in 1..Len(callbacks'[t]) : callbacks'[t][m] = "false"
    BY <2>4, <2>5, Zenon
  <2>9. ~canceled'[t] => ~canceled[t]
    BY <2>4, <2>6, Zenon
  <2> QED  BY <1>1, <2>1, <2>2, <2>3, <2>7, <2>8, <2>9 DEF Transfer, Goal
<1>6. RequestInv'
  BY <1>1, <1>2, <1>3 DEF RequestInv, SftpTypes, OnTheWire, Wire, Pending, Size, Alone, Fresh, Past
<1>7. AllFit' /\ Reading'
  <2>1. \A p : Live(p)' => Live(p)
    BY <1>2, <1>3 DEF Live, Pending
  <2>2. \A p : Fits(p) => Fits(p)'
    BY <1>1 DEF Fits, Wanting
  <2> QED  BY <1>4, <1>5, <2>1, <2>2, LiveFits, OneChanges
<1> QED  BY <1>6, <1>7 DEF ClientInv

(* A chunk is asked for, or nothing: what doRead does, at what is read.    *)
LEMMA NextRead ==
  ASSUME NEW t \in Transfers, NEW at \in Nat, File!DoRead(t, at), Reading, \A n \in Lengths : n \in Nat \/ n = -1,
         readChunkSize \in Nat
  PROVE  \/ /\ length[t] = -1 \/ at < length[t]
            /\ last' = [last EXCEPT ![t] = "asked"]
            /\ \E q \in Reqs : /\ q.op = "READ" /\ q.t = t /\ q.offset = at /\ File!SendRequest(q)
                               /\ length[t] # -1 => q.len <= length[t] - at
         \/ /\ length[t] # -1 /\ ~(at < length[t])
            /\ last' = [last EXCEPT ![t] = "end"]
            /\ UNCHANGED File!connection
<1>1. length[t] \in Nat \/ length[t] = -1
  <2>1. length[t] \in Lengths
    BY DEF Reading, Transfer
  <2> QED  BY <2>1
<1>2. CASE File!Wanted(t, at)
  <2> DEFINE q == File!Read(t, at)
  <2>1. length[t] = -1 \/ at < length[t]
    BY <1>2 DEF File!Wanted, File!Whole
  <2>2. q.op = "READ" /\ q.t = t /\ q.offset = at
    BY DEF File!Read
  <2>3. q.len \in Nat /\ (length[t] # -1 => q.len <= length[t] - at)
    BY <1>1, <2>1 DEF File!Read, File!Whole, File!Lower
  <2>4. q \in Reqs
    BY <2>3 DEF Reqs, File!Read
  <2>5. File!SendRequest(q) /\ last' = [last EXCEPT ![t] = "asked"]
    BY <1>2 DEF File!DoRead, File!Becomes
  <2> HIDE DEF q
  <2> QED  BY <2>1, <2>2, <2>3, <2>4, <2>5
<1>3. CASE ~File!Wanted(t, at)
  BY <1>3 DEF File!DoRead, File!Wanted, File!Whole, File!Becomes
<1> QED  BY <1>2, <1>3

(* The file is open, or not. *)
LEMMA OpenEnds ==
  ASSUME RequestInv, AllFit, Reading, File!OnOpen, kind' = kind,
         \A n \in Lengths : n \in Nat \/ n = -1, Size \in Nat, readChunkSize \in Nat
  PROVE  ClientInv'
<1>0. PICK h, t : h = resolved[1].request /\ t = h.t
  OBVIOUS
<1>1. Heads("OPEN")
  BY HeadIs DEF File!OnOpen
<1>2. h \in Reqs /\ h.op = "OPEN" /\ t \in Transfers /\ stage[t] = "open"
  BY <1>0, <1>1, ReqIs DEF Heads, Fits
<1>3. /\ Past /\ Takes(1) /\ UNCHANGED <<length, offset, canceled, callbacks, given>>
      /\ Transfer(t) /\ Size' = Size /\ offset[t] = 0 /\ length[t] \in Lengths
  BY <1>1, <1>2 DEF Heads, File!OnOpen, Reading, Size, Transfer
<1>4. ASSUME NEW p, Live(p), ~Rivals(h, p) PROVE ~Of(p, t)
  <2>1. Fits(p)
    BY <1>4, LiveFits
  <2> QED  BY <1>0, <1>2, <1>4, <2>1 DEF Fits, Of, Rivals
<1>5. CASE stage' = [stage EXCEPT ![t] = "failed"] /\ UNCHANGED <<File!connection, last>>
  <2>1. Silent
    BY <1>5 DEF Silent, File!connection, RequestInv, SftpTypes
  <2>2. RequestInv' /\ \A p : Live(p)' => Live(p) /\ ~Rivals(h, p)
    BY <1>0, <1>3, <2>1, NoneSent
  <2>3. Others(t)
    BY <1>3, <1>5 DEF Others, Reading, Heads, Takes
  <2>4. Transfer(t)'
    BY <1>2, <1>3, <1>5 DEF Transfer, Goal, Reading
  <2>5. \A p : Live(p)' => Live(p) \/ Of(p, t)
    BY <2>2
  <2>6. \A p : Live(p)' /\ Of(p, t) => Fits(p)'
    BY <1>4, <2>2
  <2>7. AllFit' /\ Reading'
    BY <1>2, <2>3, <2>4, <2>5, <2>6, OneChanges
  <2> QED  BY <2>2, <2>7 DEF ClientInv
<1>6. CASE stage' = [stage EXCEPT ![t] = "read"] /\ File!DoRead(t, 0)
  <2>1. Others(t)
    <3>1. kind' = kind /\ \E b \in {"asked", "end"} : last' = [last EXCEPT ![t] = b]
      BY <1>6 DEF File!DoRead, File!Becomes
    <3> QED  BY <1>3, <1>6, <3>1 DEF Others, Reading
  <2>2. CASE /\ length[t] = -1 \/ 0 < length[t]
             /\ last' = [last EXCEPT ![t] = "asked"]
             /\ \E q \in Reqs : /\ q.op = "READ" /\ q.t = t /\ q.offset = 0 /\ File!SendRequest(q)
                                /\ length[t] # -1 => q.len <= length[t] - 0
    <3>1. PICK q \in Reqs : /\ q.op = "READ" /\ q.t = t /\ q.offset = 0 /\ File!SendRequest(q)
                            /\ length[t] # -1 => q.len <= length[t] - 0
      BY <2>2
    <3>2. ASSUME NEW p, Live(p), Rivals(q, p) PROVE Rivals(h, p)
      BY <1>0, <1>2, <1>4, <3>1, <3>2 DEF Rivals, Of
    <3>3. Sends(q, 1)
      BY <1>0, <3>1, <3>2 DEF Sends
    <3>4. RequestInv' /\ \A p : Live(p)' => p = q \/ (Live(p) /\ ~Rivals(h, p))
      BY <1>0, <1>3, <3>3, OneSent
    <3>5. Transfer(t)'
      BY <1>2, <1>3, <1>6, <2>2 DEF Transfer, Goal, Reading
    <3>6. Fits(q)'
      BY <1>2, <1>3, <1>6, <2>2, <3>1 DEF Fits, Wanting, Reading
    <3>7. \A p : Live(p)' => Live(p) \/ Of(p, t)
      BY <3>1, <3>4 DEF Of
    <3>8. \A p : Live(p)' /\ Of(p, t) => Fits(p)'
      BY <1>4, <3>4, <3>6
    <3>9. AllFit' /\ Reading'
      BY <1>2, <2>1, <3>5, <3>7, <3>8, OneChanges
    <3> QED  BY <3>4, <3>9 DEF ClientInv
  <2>3. CASE length[t] # -1 /\ ~(0 < length[t]) /\ last' = [last EXCEPT ![t] = "end"] /\ UNCHANGED File!connection
    <3>1. Silent
      BY <2>3 DEF Silent, File!connection, RequestInv, SftpTypes
    <3>2. RequestInv' /\ \A p : Live(p)' => Live(p) /\ ~Rivals(h, p)
      BY <1>0, <1>3, <3>1, NoneSent
    <3>3. length[t] = 0
      BY <1>3, <2>3
    <3>4. Transfer(t)'
      BY <1>2, <1>3, <1>6, <2>3, <3>3 DEF Transfer, Goal, Reading
    <3>5. \A p : Live(p)' => Live(p) \/ Of(p, t)
      BY <3>2
    <3>6. \A p : Live(p)' /\ Of(p, t) => Fits(p)'
      BY <1>4, <3>2
    <3>7. AllFit' /\ Reading'
      BY <1>2, <2>1, <3>4, <3>5, <3>6, OneChanges
    <3> QED  BY <3>2, <3>7 DEF ClientInv
  <2> QED  BY <1>2, <1>6, <2>2, <2>3, NextRead
<1>7. \/ stage' = [stage EXCEPT ![t] = "failed"] /\ UNCHANGED <<File!connection, last>>
      \/ stage' = [stage EXCEPT ![t] = "read"] /\ File!DoRead(t, 0)
  BY <1>0, <1>1 DEF File!OnOpen, File!Becomes, Heads
<1> QED  BY <1>5, <1>6, <1>7

(* What a callback is given goes on where the last left off. *)
Chain(g) == \A k \in 1..Len(g) : g[k][1] = IF k = 1 THEN 0 ELSE g[k - 1][1] + g[k - 1][2]

Chunk(g, at, n) == Append(g, <<at, n>>)

LEMMA GivenOn ==
  ASSUME NEW g \in Seq(Nat \X Nat), NEW n \in Nat, NEW at \in Nat, End(g) = at, Chain(g)
  PROVE  /\ Chunk(g, at, n) \in Seq(Nat \X Nat) /\ End(Chunk(g, at, n)) = at + n
         /\ Chain(Chunk(g, at, n))
<1> DEFINE v == Chunk(g, at, n)
<1> DEFINE e == <<at, n>>
<1>1. e \in Nat \X Nat /\ e[1] = at /\ e[2] = n
  OBVIOUS
<1>2. v = Append(g, e)
  BY DEF Chunk
<1> HIDE DEF e, v
<1>3. /\ v \in Seq(Nat \X Nat) /\ Len(v) = Len(g) + 1 /\ Len(g) \in Nat /\ v[Len(g) + 1] = e
      /\ \A k \in 1..Len(g) : v[k] = g[k]
  BY <1>1, <1>2
<1>4. v # <<>> /\ End(v) = at + n
  BY <1>1, <1>3 DEF End
<1>0. \A k \in 1..Len(g) : g[k][1] = IF k = 1 THEN 0 ELSE g[k - 1][1] + g[k - 1][2]
  BY DEF Chain
<1>5. ASSUME NEW k \in 1..Len(v) PROVE v[k][1] = IF k = 1 THEN 0 ELSE v[k - 1][1] + v[k - 1][2]
  <2>1. CASE k \in 1..Len(g)
    <3>1. k = 1 \/ k - 1 \in 1..Len(g)
      BY <1>3, <2>1
    <3> QED  BY <1>0, <1>3, <2>1, <3>1
  <2>2. CASE k = Len(g) + 1
    <3>1. v[k][1] = at
      BY <1>1, <1>3, <2>2
    <3>2. CASE g = <<>>
      <4>1. Len(<<>>) = 0
        OBVIOUS
      <4>2. Len(g) = 0
        BY <3>2, <4>1, Zenon
      <4>3. at = 0
        BY <3>2 DEF End
      <4> QED  BY <2>2, <3>1, <4>2, <4>3
    <3>3. CASE g # <<>>
      <4>1. Len(g) >= 1 /\ k - 1 = Len(g) /\ k - 1 \in 1..Len(g)
        BY <1>3, <2>2, <3>3
      <4>2. at = g[k - 1][1] + g[k - 1][2]
        BY <3>3, <4>1 DEF End
      <4>3. v[k - 1] = g[k - 1] /\ k # 1
        BY <1>3, <2>2, <4>1
      <4> QED  BY <3>1, <4>2, <4>3
    <3> QED  BY <3>2, <3>3
  <2> QED  BY <1>3, <2>1, <2>2
<1>6. Chain(v)
  BY <1>5 DEF Chain
<1> QED  BY <1>3, <1>4, <1>6 DEF v

(* A reply to a read: the end, an error or a chunk, which a caller who has *)
(* canceled is not given.                                                  *)
LEMMA ReadEnds ==
  ASSUME RequestInv, AllFit, Reading, File!OnRead, kind' = kind,
         \A n \in Lengths : n \in Nat \/ n = -1, Size \in Nat, readChunkSize \in Nat
  PROVE  ClientInv'
<1>0. PICK h, t : h = resolved[1].request /\ t = h.t
  OBVIOUS
<1>00. PICK r : r = resolved[1].reply
  OBVIOUS
<1>1. Heads("READ")
  BY HeadIs DEF File!OnRead
<1>2. /\ h \in Reqs /\ h.op = "READ" /\ t \in Transfers /\ h.offset \in Nat /\ h.len \in Nat /\ r \in Int
      /\ stage[t] \notin {"none", "open"} /\ last[t] = "asked" /\ h.offset = offset[t] /\ Wanting(t)
      /\ length[t] # -1 => h.len <= length[t] - h.offset
  BY <1>0, <1>00, <1>1, ReqIs DEF Heads, Fits
<1>3. /\ Past /\ Takes(1) /\ UNCHANGED <<stage, length, canceled>> /\ kind' = kind
      /\ Transfer(t) /\ Size' = Size /\ length[t] \in Lengths /\ offset[t] \in Nat /\ offset[t] <= Size /\ stage[t] # "done"
  BY <1>1, <1>2 DEF Heads, File!OnRead, Reading, Size, Transfer
<1>4. /\ length[t] = -1 \/ length[t] \in Nat
      /\ r \in Answers(Size, h)
  BY <1>0, <1>00, <1>1, <1>3 DEF Heads
<1>5. ASSUME NEW p, Live(p), ~Rivals(h, p), Of(p, t)
      PROVE  p.op = "CLOSE" /\ Fits(p) /\ p.op # "READ"
  <2>1. Fits(p)
    BY <1>5, LiveFits
  <2> QED  BY <1>0, <1>2, <1>5, <2>1 DEF Fits, Of, Rivals
<1>6. ASSUME NEW p, Live(p), ~Rivals(h, p), Of(p, t) PROVE Fits(p)'
  <2>1. p.op = "CLOSE" /\ stage[p.t] \in {"close", "done", "failed"}
    BY <1>5, <1>6 DEF Fits
  <2> QED  BY <1>3, <2>1 DEF Fits
<1>7. ASSUME UNCHANGED File!connection, Others(t), Transfer(t)' PROVE ClientInv'
  <2>1. Silent
    BY <1>7 DEF Silent, File!connection, RequestInv, SftpTypes
  <2>2. RequestInv' /\ \A p : Live(p)' => Live(p) /\ ~Rivals(h, p)
    BY <1>0, <1>3, <2>1, NoneSent
  <2>3. \A p : Live(p)' => Live(p) \/ Of(p, t)
    BY <2>2
  <2>4. \A p : Live(p)' /\ Of(p, t) => Fits(p)'
    BY <1>6, <2>2
  <2>5. AllFit' /\ Reading'
    BY <1>2, <1>7, <2>3, <2>4, OneChanges
  <2> QED  BY <2>2, <2>5 DEF ClientInv
<1>8. CASE /\ r <= 0 /\ last' = [last EXCEPT ![t] = IF r = 0 THEN "end" ELSE "error"]
           /\ UNCHANGED <<File!connection, offset, callbacks, given>>
  <2>1. Others(t)
    BY <1>3, <1>8 DEF Others, Reading
  <2>2. r = 0 => offset[t] = Size /\ Goal(t) = Size
    BY <1>2, <1>3, <1>4 DEF Answers, Goal, Wanting
  <2>3. last'[t] \in {"end", "error"} /\ (last'[t] = "end" => offset[t] = Goal(t))
    BY <1>2, <1>8, <2>2 DEF Reading
  <2>4. Transfer(t)'
    BY <1>2, <1>3, <1>8, <2>3 DEF Transfer, Goal
  <2> QED  BY <1>7, <1>8, <2>1, <2>4
<1>9. CASE r > 0 /\ File!ProcessChunk(t, r)
  <2> DEFINE at == offset[t] + r
  <2>1. PICK to : to = at
    OBVIOUS
  <2> HIDE DEF at
  <2>2. /\ to = offset[t] + r /\ to \in Nat /\ r \in Nat /\ to <= Size /\ (length[t] # -1 => to <= length[t])
        /\ h.offset + r = to
    <3>1. to = offset[t] + r
      BY <2>1 DEF at
    <3>2. h.offset < Size /\ r <= h.len /\ r <= Size - h.offset
      BY <1>2, <1>3, <1>4, <1>9 DEF Answers
    <3> QED  BY <1>2, <1>3, <1>4, <1>9, <3>1, <3>2
  <2>3. offset' = [offset EXCEPT ![t] = to] /\ offset'[t] = to
    BY <1>2, <1>9, <2>2 DEF File!ProcessChunk, File!Becomes, Reading
  <2>4. CASE canceled[t]
    <3>1. last' = [last EXCEPT ![t] = "end"] /\ UNCHANGED <<File!connection, callbacks, given>>
      BY <1>9, <2>4 DEF File!ProcessChunk, File!Becomes
    <3>2. Others(t)
      BY <1>3, <2>3, <3>1 DEF Others, Reading
    <3>3. Transfer(t)'
      BY <1>2, <1>3, <2>2, <2>3, <2>4, <3>1 DEF Transfer, Reading
    <3> QED  BY <1>7, <3>1, <3>2, <3>3
  <2>5. CASE ~canceled[t]
    <3>1. /\ File!DoRead(t, to) /\ callbacks' = [callbacks EXCEPT ![t] = Append(callbacks[t], "running")]
          /\ given' = [given EXCEPT ![t] = Append(given[t], <<offset[t], r>>)]
      BY <1>0, <1>1, <1>2, <1>9, <2>2, <2>5 DEF File!ProcessChunk, File!Becomes, Heads
    <3>2. Others(t)
      <4>1. \E b \in {"asked", "end"} : last' = [last EXCEPT ![t] = b]
        BY <3>1 DEF File!DoRead, File!Becomes
      <4> QED  BY <1>3, <2>3, <3>1, <4>1 DEF Others, Reading
    <3>3. /\ callbacks'[t] \in Seq(Marks) /\ given'[t] \in Seq(Nat \X Nat) /\ End(given'[t]) = to
          /\ \A k \in 1..Len(given'[t]) :
               given'[t][k][1] = IF k = 1 THEN 0 ELSE given'[t][k - 1][1] + given'[t][k - 1][2]
      <4>1. /\ callbacks[t] \in Seq(Marks) /\ given[t] \in Seq(Nat \X Nat) /\ End(given[t]) = offset[t]
            /\ \A k \in 1..Len(given[t]) : given[t][k][1] = IF k = 1 THEN 0 ELSE given[t][k - 1][1] + given[t][k - 1][2]
        BY <1>3, <2>5 DEF Transfer
      <4>2. callbacks'[t] = Append(callbacks[t], "running") /\ given'[t] = Append(given[t], <<offset[t], r>>)
        BY <1>2, <3>1 DEF Reading
      <4>3. callbacks'[t] \in Seq(Marks)
        BY <4>1, <4>2 DEF Marks
      <4>4. PICK g, v : g = given[t] /\ v = given'[t]
        OBVIOUS
      <4>5. v \in Seq(Nat \X Nat) /\ End(v) = offset[t] + r /\ Chain(v)
        <5>0. PICK from : from = offset[t]
          OBVIOUS
        <5>1. v = Chunk(g, from, r)
          BY <4>2, <4>4, <5>0 DEF Chunk
        <5>2. g \in Seq(Nat \X Nat) /\ End(g) = from /\ Chain(g) /\ from \in Nat /\ r \in Nat
          BY <1>3, <2>2, <4>1, <4>4, <5>0 DEF Chain
        <5>3. v \in Seq(Nat \X Nat) /\ End(v) = from + r /\ Chain(v)
          BY <5>1, <5>2, GivenOn, Zenon
        <5> QED  BY <5>0, <5>3
      <4> QED  BY <2>2, <4>3, <4>4, <4>5 DEF Chain
    <3>4. ~canceled'[t] /\ length'[t] = length[t] /\ stage'[t] = stage[t]
      BY <1>3, <2>5
    <3>5. CASE /\ length[t] = -1 \/ to < length[t]
               /\ last' = [last EXCEPT ![t] = "asked"]
               /\ \E q \in Reqs : /\ q.op = "READ" /\ q.t = t /\ q.offset = to /\ File!SendRequest(q)
                                  /\ length[t] # -1 => q.len <= length[t] - to
      <4>1. PICK q \in Reqs : /\ q.op = "READ" /\ q.t = t /\ q.offset = to /\ File!SendRequest(q)
                              /\ length[t] # -1 => q.len <= length[t] - to
        BY <3>5
      <4>2. ASSUME NEW p, Live(p), Rivals(q, p) PROVE Rivals(h, p)
        BY <1>0, <1>2, <4>1, <4>2 DEF Rivals
      <4>3. Sends(q, 1)
        BY <1>0, <4>1, <4>2 DEF Sends
      <4>4. RequestInv' /\ \A p : Live(p)' => p = q \/ (Live(p) /\ ~Rivals(h, p))
        BY <1>0, <1>3, <4>3, OneSent
      <4>5. last'[t] = "asked"
        BY <1>2, <3>5 DEF Reading
      <4>6. Transfer(t)'
        BY <1>2, <1>3, <2>2, <2>3, <3>3, <3>4, <4>5 DEF Transfer
      <4>7. Fits(q)'
        BY <1>2, <2>3, <3>4, <3>5, <4>1, <4>5 DEF Fits, Wanting
      <4>8. \A p : Live(p)' => Live(p) \/ Of(p, t)
        BY <4>1, <4>4 DEF Of
      <4>9. \A p : Live(p)' /\ Of(p, t) => Fits(p)'
        BY <1>6, <4>4, <4>7
      <4>10. AllFit' /\ Reading'
        BY <1>2, <3>2, <4>6, <4>8, <4>9, OneChanges
      <4> QED  BY <4>4, <4>10 DEF ClientInv
    <3>6. CASE length[t] # -1 /\ ~(to < length[t]) /\ last' = [last EXCEPT ![t] = "end"] /\ UNCHANGED File!connection
      <4>1. to = length[t] /\ last'[t] = "end"
        BY <1>2, <1>4, <2>2, <3>6 DEF Reading
      <4>2. Goal(t)' = to
        BY <1>3, <2>2, <3>4, <3>6, <4>1 DEF Goal
      <4>3. Transfer(t)'
        BY <1>2, <1>3, <2>2, <2>3, <3>3, <3>4, <4>1, <4>2 DEF Transfer
      <4> QED  BY <1>7, <3>2, <3>6, <4>3
    <3> QED  BY <1>2, <2>2, <3>1, <3>5, <3>6, NextRead
  <2> QED  BY <2>4, <2>5
<1>10. \/ /\ r <= 0 /\ last' = [last EXCEPT ![t] = IF r = 0 THEN "end" ELSE "error"]
          /\ UNCHANGED <<File!connection, offset, callbacks, given>>
       \/ r > 0 /\ File!ProcessChunk(t, r)
  BY <1>0, <1>00, <1>1, <1>2 DEF File!OnRead, File!Becomes, File!Success, Heads
<1> QED  BY <1>8, <1>9, <1>10

-----------------------------------------------------------------------------
(* Only the server, and the making of other requests, depend on what the   *)
(* two clients of the model differ in.                                     *)
LEMMA SameSteps ==
  /\ Asks!ParseBuffer = File!ParseBuffer /\ Asks!WriteStreamData = File!WriteStreamData
  /\ Asks!OnVersion = File!OnVersion /\ Asks!OnLimits = File!OnLimits /\ Asks!OnAsk = File!OnAsk
  /\ Asks!OnOpen = File!OnOpen /\ Asks!OnRead = File!OnRead /\ Asks!OnClose = File!OnClose
  /\ \A t \in Transfers : /\ Asks!ReadFile(t) = File!ReadFile(t) /\ Asks!CloseFile(t) = File!CloseFile(t)
                          /\ Asks!Callback(t) = File!Callback(t)
<1>1. Asks!ParseBuffer = File!ParseBuffer
  BY Zenon DEF Asks!ParseBuffer, File!ParseBuffer, Asks!HeaderUnits, File!HeaderUnits, Asks!OnPacket, File!OnPacket,
     Asks!Ids, File!Ids, Asks!None, File!None, Asks!transfer, File!transfer
<1>2. Asks!WriteStreamData = File!WriteStreamData
  BY Zenon DEF Asks!WriteStreamData, File!WriteStreamData, Asks!Idle, File!Idle, Asks!connection, File!connection,
     Asks!None, File!None, Asks!transfer, File!transfer
<1>3. Asks!OnVersion = File!OnVersion
  BY Zenon DEF Asks!OnVersion, File!OnVersion, Asks!Settled, File!Settled, Asks!Taken, File!Taken, Asks!transfer, File!transfer,
     Asks!Reply, File!Reply, Asks!Success, File!Success, Asks!Failure, File!Failure, Asks!NextId, File!NextId, Asks!None, File!None
<1>4. Asks!OnLimits = File!OnLimits
  BY Zenon DEF Asks!OnLimits, File!OnLimits, Asks!Settled, File!Settled, Asks!Taken, File!Taken, Asks!transfer, File!transfer,
     Asks!Reply, File!Reply, Asks!Success, File!Success, Asks!None, File!None
<1>5. Asks!OnAsk = File!OnAsk
  BY Zenon DEF Asks!OnAsk, File!OnAsk, Asks!Settled, File!Settled, Asks!Taken, File!Taken, Asks!connection, File!connection,
     Asks!Reply, File!Reply, Asks!None, File!None
<1>6. \A t, at : Asks!DoRead(t, at) = File!DoRead(t, at)
  BY Zenon DEF Asks!DoRead, File!DoRead, Asks!Wanted, File!Wanted, Asks!Read, File!Read, Asks!SendRequest, File!SendRequest,
     Asks!Whole, File!Whole, Asks!Lower, File!Lower, Asks!Becomes, File!Becomes, Asks!connection, File!connection,
     Asks!Ids, File!Ids, Asks!NextId, File!NextId
<1>7. Asks!OnOpen = File!OnOpen
  BY <1>6, Zenon DEF Asks!OnOpen, File!OnOpen, Asks!Settled, File!Settled, Asks!Taken, File!Taken, Asks!Becomes, File!Becomes,
     Asks!connection, File!connection, Asks!Reply, File!Reply, Asks!Failure, File!Failure, Asks!None, File!None
<1>8. Asks!OnRead = File!OnRead
  BY <1>6, Zenon DEF Asks!OnRead, File!OnRead, Asks!Settled, File!Settled, Asks!Taken, File!Taken, Asks!Becomes, File!Becomes,
     Asks!connection, File!connection, Asks!Reply, File!Reply, Asks!Success, File!Success, Asks!None, File!None,
     Asks!ProcessChunk, File!ProcessChunk
<1>9. \A t : Asks!Outcome(t) = File!Outcome(t)
  BY Zenon DEF Asks!Outcome, File!Outcome
<1>10. Asks!OnClose = File!OnClose
  BY <1>9, Zenon DEF Asks!OnClose, File!OnClose, Asks!Settled, File!Settled, Asks!Taken, File!Taken, Asks!Becomes, File!Becomes,
     Asks!connection, File!connection, Asks!Reply, File!Reply, Asks!Success, File!Success, Asks!None, File!None
<1>11. \A t \in Transfers : /\ Asks!ReadFile(t) = File!ReadFile(t) /\ Asks!CloseFile(t) = File!CloseFile(t)
                            /\ Asks!Callback(t) = File!Callback(t)
  BY <1>9, Zenon DEF Asks!ReadFile, File!ReadFile, Asks!CloseFile, File!CloseFile, Asks!Callback, File!Callback,
     Asks!CallbackEnds, File!CallbackEnds, Asks!Idle, File!Idle, Asks!Becomes, File!Becomes, Asks!SendRequest, File!SendRequest,
     Asks!Ids, File!Ids, Asks!NextId, File!NextId, Asks!None, File!None, Asks!connection, File!connection,
     Asks!incoming, File!incoming
<1> QED  BY <1>1, <1>2, <1>3, <1>4, <1>5, <1>7, <1>8, <1>10, <1>11

(* What is assumed of the constants. *)
LEMMA SizesAre ==
  /\ FileSize \in Nat /\ SmallFile \in Nat /\ readChunkSize \in Nat /\ Size \in Nat /\ \A n \in Lengths : n \in Nat \/ n = -1
BY FilesAssumption DEF File!SftpAssumption, Asks!SftpAssumption, File!Whole, Asks!Whole, Size

(* The steps both clients take. *)
Shared ==
  \/ File!Handlers \/ File!WriteStreamData
  \/ \E t \in Transfers : File!ReadFile(t) \/ File!Callback(t) \/ File!CloseFile(t)

LEMMA SharedSteps ==
  ASSUME ClientInv, Shared, kind' = kind
  PROVE  ClientInv'
<1>1. RequestInv /\ AllFit /\ Reading
  BY DEF ClientInv
<1>2. /\ \A n \in Lengths : n \in Nat \/ n = -1
      /\ Size \in Nat /\ readChunkSize \in Nat
  BY SizesAre
<1>3. CASE File!ParseBuffer
  BY <1>1, <1>3, BufferParsed, StillFits DEF ClientInv
<1>4. CASE File!OnVersion
  BY <1>1, <1>4, VersionComes
<1>5. CASE File!OnLimits
  BY <1>1, <1>5, LimitsCome
<1>6. CASE File!OnAsk
  BY <1>1, <1>6, AskEnds
<1>7. CASE File!OnOpen
  BY <1>1, <1>2, <1>7, OpenEnds
<1>8. CASE File!OnRead
  BY <1>1, <1>2, <1>8, ReadEnds
<1>9. CASE File!OnClose
  BY <1>1, <1>9, CloseEnds
<1>10. CASE File!WriteStreamData
  <2>1. RequestInv' /\ Still /\ pendingRequests_' = pendingRequests_ /\ resolved' = resolved
    BY <1>1, <1>10, OutputArrives
  <2>2. Reading' /\ \A q : Fits(q) => Fits(q)'
    BY <1>1, <2>1, StillFits
  <2>3. AllFit'
    BY <1>1, <2>1, <2>2 DEF AllFit, Pending
  <2> QED  BY <2>1, <2>2, <2>3 DEF ClientInv
<1>11. ASSUME NEW t \in Transfers, File!ReadFile(t) PROVE ClientInv'
  BY <1>1, <1>2, <1>11, ReadStarts
<1>12. ASSUME NEW t \in Transfers, File!Callback(t) PROVE ClientInv'
  BY <1>1, <1>12, CallbackIsOver DEF File!Callback
<1>13. ASSUME NEW t \in Transfers, File!CloseFile(t) PROVE ClientInv'
  BY <1>1, <1>13, CloseStarts
<1> QED  BY <1>3, <1>4, <1>5, <1>6, <1>7, <1>8, <1>9, <1>10, <1>11, <1>12, <1>13 DEF Shared, File!Handlers

(* The server of each client. *)
LEMMA ServerSteps ==
  ASSUME ClientInv, kind' = kind, (kind = "file" /\ File!Server) \/ (kind = "asks" /\ Asks!Server)
  PROVE  ClientInv'
<1>1. RequestInv /\ AllFit /\ Reading
  BY DEF ClientInv
<1>2. PICK id \in server :
        /\ ~parsing /\ server' = server \ {id}
        /\ \E reply \in Answers(Size, pendingRequests_[id]) :
             output' = output \o [n \in 1..3 |-> [id |-> id, reply |-> reply, unit |-> n]]
        /\ UNCHANGED <<isInitialised, initConnection, requestId_, pendingRequests_, buffer_, pendingMessageSize_, parsing, resolved>>
        /\ Still
  <2>1. CASE kind = "file" /\ File!Server
    <3>1. PICK id \in server : File!ServerReplies(id)
      BY <2>1 DEF File!Server
    <3>2. Size = FileSize
      BY <2>1 DEF Size
    <3>3. File!Replies(pendingRequests_[id]) = Answers(Size, pendingRequests_[id])
      BY <3>2 DEF File!Replies, Answers, File!Failure, File!Success, File!Lower
    <3> QED  BY <3>1, <3>3 DEF File!ServerReplies, File!Idle, File!HeaderUnits, File!transfer, Still
  <2>2. CASE kind = "asks" /\ Asks!Server
    <3>1. PICK id \in server : Asks!ServerReplies(id)
      BY <2>2 DEF Asks!Server
    <3>2. Size = SmallFile
      BY <2>2 DEF Size
    <3>3. Asks!Replies(pendingRequests_[id]) = Answers(Size, pendingRequests_[id])
      BY <3>2 DEF Asks!Replies, Answers, Asks!Failure, Asks!Success, Asks!Lower
    <3> QED  BY <3>1, <3>3 DEF Asks!ServerReplies, Asks!Idle, Asks!HeaderUnits, Asks!transfer, Still
  <2> QED  BY <2>1, <2>2
<1>3. RequestInv'
  <2>1. PICK reply \in Answers(Size, pendingRequests_[id]) :
          output' = output \o [n \in 1..3 |-> [id |-> id, reply |-> reply, unit |-> n]]
    BY <1>2
  <2> QED  BY <1>1, <1>2, <2>1, SizesAre, ServerAnswers
<1>4. Reading' /\ \A q : Fits(q) => Fits(q)'
  BY <1>1, <1>2, StillFits
<1>5. AllFit'
  BY <1>1, <1>2, <1>4 DEF AllFit, Pending
<1> QED  BY <1>3, <1>4, <1>5 DEF ClientInv

(* The other requests, of which there is a list; and that the transfers'   *)
(* stages are a function.                                                  *)
AskAnswers == -2..0
Staged == stage = [t \in Transfers |-> stage[t]]
SftpInv == ClientInv /\ asks \in Seq(AskAnswers) /\ Staged

LEMMA AskSteps ==
  ASSUME SftpInv, kind' = kind, File!Ask \/ Asks!Ask
  PROVE  SftpInv'
<1>1. RequestInv /\ AllFit /\ Reading /\ asks \in Seq(AskAnswers) /\ Staged
  BY DEF SftpInv, ClientInv
<1>2. PICK n : n = Len(asks) + 1
  OBVIOUS
<1>3. n \in Nat
  BY <1>1, <1>2
<1>4. /\ initConnection = "ok" /\ File!SendRequest([op |-> "ASK", t |-> n]) /\ UNCHANGED File!incoming
      /\ Still /\ asks' = Append(asks, -2)
  <2>1. CASE File!Ask
    BY <1>2, <2>1 DEF File!Ask, Still, File!Waiting
  <2>2. CASE Asks!Ask
    BY <1>2, <2>2 DEF Asks!Ask, Still, Asks!Waiting, Asks!SendRequest, File!SendRequest, Asks!incoming, File!incoming,
       Asks!Ids, File!Ids, Asks!NextId, File!NextId
  <2> QED  BY <2>1, <2>2
<1>5. ClientInv'
  BY <1>1, <1>3, <1>4, AskStarts
<1>6. asks' \in Seq(AskAnswers)
  <2>1. -2 \in AskAnswers
    BY DEF AskAnswers
  <2> QED  BY <1>1, <1>4, <2>1
<1>7. Staged'
  BY <1>1, <1>4 DEF Still, Staged
<1> QED  BY <1>5, <1>6, <1>7 DEF SftpInv

(* Any other step keeps the answers to them typed. *)
LEMMA OtherAsks ==
  ASSUME SftpInv, kind' = kind, Shared \/ File!Server \/ Asks!Server
  PROVE  asks' \in Seq(AskAnswers)
<1>1. CASE File!OnAsk
  <2>1. Heads("ASK") /\ asks \in Seq(AskAnswers)
    BY <1>1, HeadIs DEF SftpInv, ClientInv, File!OnAsk
  <2>2. PICK i, r : i = Head(resolved).request.t /\ r = File!Reply
    OBVIOUS
  <2>3. asks' = [asks EXCEPT ![i] = r] /\ r \in AskAnswers
    <3>1. r \in {0, -1}
      BY <2>1, <2>2 DEF Heads, Answers
    <3> QED  BY <1>1, <2>2, <3>1 DEF File!OnAsk, AskAnswers
  <2>4. asks' = [j \in 1..Len(asks) |-> IF j = i THEN r ELSE asks[j]] /\ Len(asks) \in Nat
    <3>1. DOMAIN asks = 1..Len(asks) /\ Len(asks) \in Nat
      BY <2>1
    <3>2. [asks EXCEPT ![i] = r] = [j \in DOMAIN asks |-> IF j = i THEN r ELSE asks[j]]
      OBVIOUS
    <3> QED  BY <2>3, <3>1, <3>2, Zenon
  <2>5. \A j \in 1..Len(asks) : (IF j = i THEN r ELSE asks[j]) \in AskAnswers
    BY <2>1, <2>3
  <2> QED  BY <2>4, <2>5
<1>2. CASE asks' = asks
  BY <1>2 DEF SftpInv
<1>3. CASE Shared /\ ~File!OnAsk
  <2>1. asks' = asks
    BY <1>3 DEF Shared, File!Handlers, File!ParseBuffer, File!OnVersion, File!OnLimits, File!OnOpen, File!OnRead, File!OnClose,
       File!WriteStreamData, File!ReadFile, File!Callback, File!CallbackEnds, File!CloseFile, File!transfer
  <2> QED  BY <1>2, <2>1
<1>4. CASE File!Server \/ Asks!Server
  <2>1. asks' = asks
    BY <1>4 DEF File!Server, Asks!Server, File!ServerReplies, Asks!ServerReplies, File!transfer, Asks!transfer
  <2> QED  BY <1>2, <2>1
<1> QED  BY <1>1, <1>3, <1>4

(* Any step keeps the stages a function. *)
LEMMA StageChanges ==
  ASSUME SftpInv, \/ stage' = stage
                  \/ \E t, x : stage' = File!Becomes(stage, t, x)
  PROVE  Staged'
<1>1. DOMAIN stage = Transfers /\ Staged
  BY DEF SftpInv, ClientInv, Reading
<1>2. CASE stage' = stage
  BY <1>1, <1>2 DEF Staged
<1>3. ASSUME NEW t, NEW x, stage' = File!Becomes(stage, t, x) PROVE Staged'
  BY <1>1, <1>3 DEF Staged, File!Becomes
<1> QED  BY <1>2, <1>3

(* Other steps change the stage of one transfer at most. *)
LEMMA StageSteps ==
  ASSUME SftpInv, kind' = kind, Shared \/ File!Server \/ Asks!Server
  PROVE  Staged'
<1>1. CASE \E t \in Transfers : File!ReadFile(t) \/ File!CloseFile(t)
  BY <1>1, StageChanges DEF File!ReadFile, File!CloseFile
<1>2. CASE File!OnOpen
  BY <1>2, StageChanges DEF File!OnOpen
<1>3. CASE File!OnClose
  BY <1>3, StageChanges DEF File!OnClose
<1>4. CASE File!ParseBuffer \/ File!OnVersion \/ File!OnLimits \/ File!OnAsk \/ File!OnRead \/ File!WriteStreamData
  <2>1. stage' = stage
    BY <1>4 DEF File!ParseBuffer, File!OnVersion, File!OnLimits, File!OnAsk, File!OnRead, File!WriteStreamData, File!transfer
  <2> QED  BY <2>1, StageChanges
<1>5. CASE \E t \in Transfers : File!Callback(t)
  <2>1. stage' = stage
    BY <1>5 DEF File!Callback, File!CallbackEnds
  <2> QED  BY <2>1, StageChanges
<1>6. CASE File!Server \/ Asks!Server
  <2>1. stage' = stage
    BY <1>6 DEF File!Server, Asks!Server, File!ServerReplies, Asks!ServerReplies, File!transfer, Asks!transfer
  <2> QED  BY <2>1, StageChanges
<1> QED  BY <1>1, <1>2, <1>3, <1>4, <1>5, <1>6 DEF Shared, File!Handlers

(* The client as it begins; and while another part takes its steps. *)
LEMMA SftpInit == ASSUME MCInit PROVE SftpInv
<1>1. /\ isInitialised = FALSE /\ initConnection = "pending" /\ requestId_ = 0 /\ server = {-1} /\ asks = <<>>
      /\ pendingRequests_ = [i \in {-1} |-> [op |-> "INIT"]]
      /\ output = <<>> /\ buffer_ = <<>> /\ pendingMessageSize_ = FALSE /\ parsing = FALSE /\ resolved = <<>>
  BY DEF MCInit, File!Init, File!InitId, File!None
<1>2. /\ stage = [t \in Transfers |-> "none"] /\ length = [t \in Transfers |-> -1]
      /\ offset = [t \in Transfers |-> 0] /\ canceled = [t \in Transfers |-> FALSE]
      /\ callbacks = [t \in Transfers |-> <<>>] /\ given = [t \in Transfers |-> <<>>]
      /\ last = [t \in Transfers |-> "asked"]
  BY DEF MCInit, File!Init, File!Whole, File!None
<1>3. Len(<<>>) = 0 /\ <<>> \o <<>> = <<>>
  OBVIOUS
<1>4. Pending = {-1} /\ pendingRequests_[-1] = [op |-> "INIT"] /\ [op |-> "INIT"] \in Reqs
  BY <1>1 DEF Pending, Reqs
<1>5. SftpTypes
  BY <1>1, <1>4, NoElements DEF SftpTypes
<1>6. Wire = <<>> /\ Len(Wire) = 0 /\ Len(resolved) = 0 /\ Len(buffer_) = 0
  BY <1>1, <1>3, Zenon DEF Wire
<1>7. OnTheWire
  <2>1. Framed(Wire, 1)
    BY <1>6 DEF Framed
  <2> QED  BY <1>1, <1>6, <2>1 DEF OnTheWire
<1>8. Alone /\ Fresh
  BY <1>1, <1>2, <1>4, <1>6 DEF Alone, Fresh
<1>9. AllFit
  BY <1>4, <1>6 DEF AllFit, Fits
<1>10. Reading
  <2>1. ASSUME NEW t \in Transfers PROVE Transfer(t)
    <3>1. /\ stage[t] = "none" /\ length[t] = -1 /\ offset[t] = 0 /\ canceled[t] = FALSE
          /\ callbacks[t] = <<>> /\ given[t] = <<>> /\ last[t] = "asked" /\ -1 \in Lengths /\ Len(given[t]) = 0
      BY <1>2, <1>3 DEF Lengths
    <3>2. <<>> \in Seq(Marks) /\ <<>> \in Seq(Nat \X Nat) /\ End(given[t]) = 0
      BY <3>1, NoElements DEF End
    <3>3. callbacks[t] \in Seq(Marks) /\ given[t] \in Seq(Nat \X Nat)
      BY <3>1, <3>2
    <3>4. \A n \in 1..Len(given[t]) : FALSE
      BY <3>1
    <3>5. offset[t] <= Size
      BY <3>1, SizesAre
    <3>6. /\ stage[t] \in {"none", "open", "read", "close", "done", "failed"} /\ length[t] \in Lengths /\ offset[t] \in Nat
          /\ last[t] \in {"asked", "end", "error"}
          /\ End(given[t]) = offset[t] /\ last[t] # "end" /\ stage[t] # "done" /\ length[t] = -1
      BY <3>1, <3>2
    <3>7. ~canceled[t] /\ canceled[t] \in BOOLEAN
      <4>1. canceled[t] = FALSE
        BY <3>1
      <4> QED  BY <4>1
    <3> QED  BY <3>1, <3>3, <3>4, <3>5, <3>6, <3>7 DEF Transfer
  <2> QED  BY <1>2, <2>1 DEF Reading
<1>11. asks \in Seq(AskAnswers)
  BY <1>1, NoElements
<1>12. Staged
  BY <1>2 DEF Staged
<1> QED  BY <1>5, <1>7, <1>8, <1>9, <1>10, <1>11, <1>12 DEF SftpInv, ClientInv, RequestInv

(* So does a step of another part. *)
LEMMA SftpKept ==
  ASSUME SftpInv, kind' = kind, UNCHANGED sftpVars
  PROVE  SftpInv'
<1>1. Still /\ asks' = asks
  BY DEF sftpVars, Still
<1>2. RequestInv'
  BY DEF SftpInv, ClientInv, sftpVars, RequestInv, SftpTypes, OnTheWire, Wire, Pending, Size, Alone, Fresh, Past
<1>3. Reading' /\ \A q : Fits(q) => Fits(q)'
  BY <1>1, StillFits DEF SftpInv, ClientInv
<1>4. AllFit'
  BY <1>3 DEF SftpInv, ClientInv, sftpVars, AllFit, Pending
<1>5. Staged'
  BY <1>1, StageChanges DEF Still
<1> QED  BY <1>1, <1>2, <1>3, <1>4, <1>5 DEF SftpInv, ClientInv

(* A step of a client is one of these. *)
LEMMA StepsOfClients ==
  (File!Next => Shared \/ File!Server \/ File!Ask) /\ (Asks!Next => Shared \/ Asks!Server \/ Asks!Ask)
<1>1. Asks!Handlers => File!Handlers
  BY SameSteps DEF Asks!Handlers, File!Handlers
<1> QED  BY <1>1, SameSteps DEF File!Next, Asks!Next, Shared

(* Every step keeps the invariant of the client. *)
LEMMA SftpStep ==
  ASSUME SftpInv, [MCNext]_allVars
  PROVE  SftpInv'
<1>1. CASE kind' = kind /\ UNCHANGED sftpVars
  BY <1>1, SftpKept
<1>2. CASE kind' = kind /\ ((kind = "file" /\ File!Next) \/ (kind = "asks" /\ Asks!Next))
  <2>1. \/ Shared \/ File!Ask \/ Asks!Ask
        \/ (kind = "file" /\ File!Server) \/ (kind = "asks" /\ Asks!Server)
    BY <1>2, StepsOfClients
  <2>2. CASE File!Ask \/ Asks!Ask
    BY <1>2, <2>2, AskSteps
  <2>3. CASE Shared
    BY <1>2, <2>3, SharedSteps, OtherAsks, StageSteps DEF SftpInv
  <2>4. CASE (kind = "file" /\ File!Server) \/ (kind = "asks" /\ Asks!Server)
    BY <1>2, <2>4, ServerSteps, OtherAsks, StageSteps DEF SftpInv
  <2> QED  BY <2>1, <2>2, <2>3, <2>4
<1>3. CASE MCNext
  <2>1. \/ kind' = kind /\ UNCHANGED sftpVars
        \/ kind' = kind /\ ((kind = "file" /\ File!Next) \/ (kind = "asks" /\ Asks!Next))
    <3>1. UNCHANGED sftpVars \/ (kind = "file" /\ File!Next) \/ (kind = "asks" /\ Asks!Next)
      BY <1>3 DEF MCNext
    <3>2. kind' = kind
      BY <1>3 DEF MCNext
    <3> QED  BY <3>1, <3>2, Zenon
  <2> QED  BY <1>1, <1>2, <2>1
<1>4. CASE UNCHANGED allVars
  <2>1. kind' = kind /\ UNCHANGED sftpVars
    BY <1>4 DEF allVars
  <2> QED  BY <1>1, <2>1
<1> QED  BY <1>3, <1>4

(* The types of the client. *)
LEMMA ClientTypes ==
  ASSUME SftpInv, NEW size, size = Size
  PROVE  /\ isInitialised \in BOOLEAN /\ initConnection \in {"pending", "ok", "failed"} /\ asks \in Seq(-2..0)
         /\ pendingMessageSize_ \in BOOLEAN /\ parsing \in BOOLEAN
         /\ requestId_ \in Nat /\ Pending \subseteq -1..requestId_ /\ server \subseteq Pending
         /\ buffer_ \in Seq([id : Pending, reply : -1..size, unit : 1..3])
         /\ stage \in [Transfers -> {"none", "open", "read", "close", "done", "failed"}]
         /\ \A t \in Transfers : callbacks[t] \in Seq({"running", "ok", "false", "threw"})
<1>1. SftpTypes /\ OnTheWire /\ Reading /\ Staged /\ asks \in Seq(-2..0)
  BY DEF SftpInv, ClientInv, RequestInv, AskAnswers
<1>2. Pending \subseteq -1..requestId_
  BY <1>1 DEF SftpTypes
<1>3. /\ buffer_ \in Seq(Units) /\ output \in Seq(Units) /\ Wire \in Seq(Units) /\ Len(buffer_) \in Nat
      /\ \A k \in 1..Len(buffer_) : k \in 1..Len(Wire) /\ Wire[k] = buffer_[k] /\ buffer_[k] \in Units
  <2>1. buffer_ \in Seq(Units) /\ output \in Seq(Units)
    BY <1>1 DEF SftpTypes
  <2> HIDE DEF Units
  <2> QED  BY <2>1, ConcatProperties DEF Wire
<1>4. ASSUME NEW k \in 1..Len(buffer_)
      PROVE  buffer_[k] \in [id : Pending, reply : -1..size, unit : 1..3]
  <2> DEFINE u == buffer_[k]
             q == pendingRequests_[u.id]
  <2>1. u \in Units /\ u.id \in Pending /\ u.reply \in Answers(Size, q)
    BY <1>1, <1>3 DEF OnTheWire
  <2>2. q \in Reqs
    BY <1>1, <2>1 DEF SftpTypes
  <2>3. q.op = "READ" => q.offset \in Nat /\ q.len \in Nat
    BY <2>2, ReqIs
  <2>4. Size \in Nat
    BY SizesAre
  <2>5. u.reply \in -1..size
    BY <2>1, <2>3, <2>4 DEF Answers
  <2> QED  BY <2>1, <2>5 DEF Units
<1>5. buffer_ \in Seq([id : Pending, reply : -1..size, unit : 1..3])
  <2> DEFINE S == [id : Pending, reply : -1..size, unit : 1..3]
  <2>1. \A k \in 1..Len(buffer_) : buffer_[k] \in S
    BY <1>4
  <2> HIDE DEF S, Units
  <2>2. buffer_ \in Seq(S)
    BY <1>3, <2>1
  <2> QED  BY <2>2 DEF S
<1>6. \A t \in Transfers : /\ stage[t] \in {"none", "open", "read", "close", "done", "failed"}
                           /\ callbacks[t] \in Seq({"running", "ok", "false", "threw"})
  BY <1>1 DEF Reading, Transfer, Marks
<1>7. stage \in [Transfers -> {"none", "open", "read", "close", "done", "failed"}]
  BY <1>1, <1>6 DEF Staged
<1> QED  BY <1>1, <1>2, <1>5, <1>6, <1>7 DEF SftpTypes

(* The invariant says what the property does. *)
LEMMA ChunksFollow == SftpInv => ChunksInOrder
<1> SUFFICES ASSUME SftpInv PROVE ChunksInOrder
  OBVIOUS
<1>1. ASSUME NEW t \in Transfers
      PROVE  /\ Transfer(t) /\ given[t] \in Seq(Nat \X Nat) /\ DOMAIN given[t] = 1..Len(given[t])
             /\ stage[t] = "done" => ~canceled[t]
             /\ length[t] \in Nat \/ length[t] = -1
             /\ length[t] # -1 => End(given[t]) <= length[t]
  <2>1. Transfer(t)
    BY DEF SftpInv, ClientInv, Reading
  <2>2. given[t] \in Seq(Nat \X Nat) /\ length[t] \in Lengths
    BY <2>1 DEF Transfer
  <2>3. stage[t] = "done" => ~canceled[t]
    BY <2>1 DEF Transfer
  <2>4. length[t] # -1 => End(given[t]) <= length[t]
    BY <2>1 DEF Transfer
  <2> QED  BY <2>1, <2>2, <2>3, <2>4, SizesAre
<1>2. ASSUME NEW t \in Transfers, NEW size, size = Size
      PROVE  /\ \A n \in DOMAIN given[t] : given[t][n][1] = IF n = 1 THEN 0 ELSE given[t][n - 1][1] + given[t][n - 1][2]
             /\ given[t] # <<>> /\ length[t] # -1 => given[t][Len(given[t])][1] + given[t][Len(given[t])][2] <= length[t]
             /\ stage[t] = "done" => offset[t] = IF length[t] = -1 THEN size ELSE IF length[t] < size THEN length[t] ELSE size
  <2>1. \A n \in DOMAIN given[t] : given[t][n][1] = IF n = 1 THEN 0 ELSE given[t][n - 1][1] + given[t][n - 1][2]
    BY <1>1 DEF Transfer
  <2>2. given[t] # <<>> /\ length[t] # -1 => given[t][Len(given[t])][1] + given[t][Len(given[t])][2] <= length[t]
    BY <1>1 DEF End
  <2>3. stage[t] = "done" => offset[t] = Goal(t)
    BY <1>1 DEF Transfer
  <2>4. Goal(t) = IF length[t] = -1 THEN size ELSE IF length[t] < size THEN length[t] ELSE size
    BY <1>1, <1>2, SizesAre DEF Goal
  <2> QED  BY <2>1, <2>2, <2>3, <2>4
<1>3. CASE kind = "asks"
  <2>1. Asks!ChunksInOrder
    BY <1>2, <1>3 DEF Asks!ChunksInOrder, Asks!None, Asks!Whole, Asks!Lower, Size
  <2>2. File!NoPacketLeft
    BY DEF File!NoPacketLeft, File!Idle, File!HeaderUnits, SftpInv, ClientInv, RequestInv, OnTheWire
  <2> QED  BY <1>3, <2>1, <2>2 DEF ChunksInOrder
<1>4. CASE kind # "asks"
  <2>1. File!ChunksInOrder
    BY <1>2, <1>4 DEF File!ChunksInOrder, File!None, File!Whole, File!Lower, Size
  <2>2. File!NoPacketLeft
    BY DEF File!NoPacketLeft, File!Idle, File!HeaderUnits, SftpInv, ClientInv, RequestInv, OnTheWire
  <2> QED  BY <1>4, <2>1, <2>2 DEF ChunksInOrder
<1> QED  BY <1>3, <1>4

(* What the callbacks of a read are given is the file from its start,      *)
(* without a gap or a repetition and no more than was asked for, all of it *)
(* if the read succeeds, however the server shortens and reorders its      *)
(* replies and the output is cut; and no packet waits in the buffer of an  *)
(* idle client.                                                            *)
THEOREM ChunksHold == MCSpec => []ChunksInOrder
<1>1. MCInit => SftpInv
  BY SftpInit
<1>2. SftpInv /\ [MCNext]_allVars => SftpInv'
  BY SftpStep
<1> QED  BY <1>1, <1>2, ChunksFollow, PTL DEF MCSpec

(* No step gives a chunk to a caller who has canceled. *)
LEMMA NoneAfterCancel ==
  ASSUME SftpInv, Shared, kind' = kind, NEW t \in Transfers, canceled[t]
  PROVE  Len(callbacks'[t]) = Len(callbacks[t])
<1>1. DOMAIN callbacks = Transfers /\ \A o \in Transfers : callbacks[o] \in Seq(Marks)
  BY DEF SftpInv, ClientInv, Reading, Transfer
<1>2. CASE callbacks' = callbacks
  BY <1>2
<1>3. CASE File!OnRead
  <2>1. PICK o, n : File!ProcessChunk(o, n) \/ callbacks' = callbacks
    BY <1>3 DEF File!OnRead
  <2>2. CASE File!ProcessChunk(o, n) /\ o = t
    BY <2>2 DEF File!ProcessChunk
  <2>3. CASE File!ProcessChunk(o, n) /\ o # t
    <3>1. callbacks' = callbacks \/ callbacks' = [callbacks EXCEPT ![o] = Append(callbacks[o], "running")]
      BY <2>3 DEF File!ProcessChunk, File!Becomes
    <3> QED  BY <1>1, <2>3, <3>1
  <2> QED  BY <1>2, <2>1, <2>2, <2>3
<1>4. ASSUME NEW o \in Transfers, File!Callback(o) PROVE Len(callbacks'[t]) = Len(callbacks[t])
  <2>1. PICK n \in DOMAIN callbacks[o], how \in {"ok", "false", "threw"} : File!CallbackEnds(o, n, how)
    BY <1>4 DEF File!Callback
  <2>2. callbacks' = [callbacks EXCEPT ![o] = [callbacks[o] EXCEPT ![n] = how]]
    BY <2>1 DEF File!CallbackEnds
  <2> QED  BY <1>1, <2>2
<1>5. CASE Shared /\ ~File!OnRead /\ ~(\E o \in Transfers : File!Callback(o))
  <2>1. callbacks' = callbacks
    BY <1>5 DEF Shared, File!Handlers, File!ParseBuffer, File!OnVersion, File!OnLimits, File!OnAsk, File!OnOpen, File!OnClose,
       File!WriteStreamData, File!ReadFile, File!CloseFile, File!transfer
  <2> QED  BY <1>2, <2>1
<1> QED  BY <1>3, <1>4, <1>5

(* No callback of a read is called after one has returned false. *)
THEOREM CancelingHolds == MCSpec => NothingAfterCancel
<1>1. MCInit => SftpInv
  BY SftpInit
<1>2. SftpInv /\ [MCNext]_allVars => SftpInv'
  BY SftpStep
<1>3. SftpInv /\ [MCNext]_allVars => [\A t \in Transfers : canceled[t] => Len(callbacks'[t]) = Len(callbacks[t])]_(File!vars)
  <2> SUFFICES ASSUME SftpInv, [MCNext]_allVars, NEW t \in Transfers, canceled[t]
               PROVE  Len(callbacks'[t]) = Len(callbacks[t])
    OBVIOUS
  <2>1. CASE callbacks' = callbacks
    BY <2>1
  <2>2. CASE kind' = kind /\ ((kind = "file" /\ File!Next) \/ (kind = "asks" /\ Asks!Next))
    <3>1. CASE Shared
      BY <2>2, <3>1, NoneAfterCancel
    <3>2. CASE File!Server \/ File!Ask \/ Asks!Server \/ Asks!Ask
      <4>1. callbacks' = callbacks
        BY <3>2 DEF File!Server, File!Ask, Asks!Server, Asks!Ask, File!ServerReplies, Asks!ServerReplies, File!transfer, Asks!transfer
      <4> QED  BY <2>1, <4>1
    <3> QED  BY <2>2, <3>1, <3>2, StepsOfClients
  <2>3. CASE MCNext
    <3>1. \/ kind' = kind /\ UNCHANGED sftpVars
          \/ kind' = kind /\ ((kind = "file" /\ File!Next) \/ (kind = "asks" /\ Asks!Next))
      <4>1. UNCHANGED sftpVars \/ (kind = "file" /\ File!Next) \/ (kind = "asks" /\ Asks!Next)
        BY <2>3 DEF MCNext
      <4>2. kind' = kind
        BY <2>3 DEF MCNext
      <4> QED  BY <4>1, <4>2, Zenon
    <3>2. ASSUME UNCHANGED sftpVars PROVE callbacks' = callbacks
      BY <3>2 DEF sftpVars
    <3> QED  BY <2>1, <2>2, <3>1, <3>2
  <2>4. CASE UNCHANGED allVars
    <3>1. callbacks' = callbacks
      BY <2>4 DEF allVars, sftpVars
    <3> QED  BY <2>1, <3>1
  <2> QED  BY <2>3, <2>4
<1> QED  BY <1>1, <1>2, <1>3, PTL DEF MCSpec, NothingAfterCancel, File!NothingAfterCancel

(* The types of the client, the shell and the command.                     *)
LEMMA PartsTyped ==
  ASSUME SftpInv, ShellInv, CommandInv
  PROVE  (IF kind = "asks" THEN Asks!TypeOK ELSE File!TypeOK) /\ Shell!TypeOK /\ Command!TypeOK
<1>1. kind = "asks" => Asks!TypeOK
  BY ClientTypes DEF Size, Pending, Asks!TypeOK, Asks!Waiting, Asks!Success, Asks!Failure, Asks!Ids, Asks!InitId, Asks!HeaderUnits
<1>2. kind # "asks" => File!TypeOK
  BY ClientTypes DEF Size, Pending, File!TypeOK, File!Waiting, File!Success, File!Failure, File!Ids, File!InitId, File!HeaderUnits
<1>3. Command!TypeOK
  BY DEF CommandInv, Commands, Command!TypeOK
<1> QED  BY <1>1, <1>2, <1>3, ShellTypesOK

(* So they stay typed. *)
LEMMA PartsAreTyped == MCSpec => []((IF kind = "asks" THEN Asks!TypeOK ELSE File!TypeOK) /\ Shell!TypeOK /\ Command!TypeOK)
<1> DEFINE Inv == SftpInv /\ ShellInv /\ CommandInv
<1>1. MCInit => Inv
  BY SftpInit, ShellInit, CommandInit, FilesAssumption DEF MCInit, Command!CommandAssumption
<1>2. Inv /\ [MCNext]_allVars => Inv'
  BY SftpStep, ShellStep, CommandStep
<1>3. Inv => (IF kind = "asks" THEN Asks!TypeOK ELSE File!TypeOK) /\ Shell!TypeOK /\ Command!TypeOK
  BY PartsTyped
<1> HIDE DEF Inv
<1> QED  BY <1>1, <1>2, <1>3, PTL DEF MCSpec

-----------------------------------------------------------------------------
(***************************************************************************)
(* The file system provider: operations, what is sent and the server's     *)
(* handles.                                                                *)
(***************************************************************************)
EntryKinds == {"file", "empty", "link", "dir"}
Chains == {"copyFile", "copyDirectory", "copyLink", "removeDirectory", "removeFile", "list", "open", "create",
           "truncate", "copy", "remove", "mkdir", "move", "stat", "write", "read", "close"}
Directories == {"copyDirectory", "removeDirectory"}
OneRequest ==
  {"lstat", "openSource", "openTarget", "copydata", "readlink", "symlink", "opendir", "mkdir", "readdir", "open", "closeSource",
   "closeTarget", "rmdir", "removeFile", "move", "stat", "read", "close"}
Many == {"chunkRead", "write", "fileStatus"}
Stages == OneRequest \cup Many \cup {"children", "done"}
Numbers == Provider!Handles \cup {0}
ChainOps == [does : Chains, size : 0..Chunks, parent : Nat, stage : Stages, source : Numbers, target : Numbers, left : Nat,
             entries : Seq(EntryKinds), failed : BOOLEAN, answers : Nat, on : Nat, content : Seq(Nat)]
Sent == [does : OneRequest \cup Many \cup {"chunkWrite"}, of : Nat, h : Numbers, chunk : Nat]
OpenedFiles == [request : Nat, handle : Provider!Handles]
FspStates == [ops : Seq(ChainOps), wire : Seq(Sent), handles : [Provider!Handles -> Nat], openedFiles : SUBSET OpenedFiles,
          mounted : {TRUE}]

(* Which chain can be at which request. *)
StageFits(o) ==
  /\ o.stage = "lstat" => o.does \in {"copy", "remove"}
  /\ o.stage \in {"openSource", "openTarget", "copydata", "chunkRead", "closeTarget"} => o.does = "copyFile"
  /\ o.stage \in {"readlink", "symlink"} => o.does = "copyLink"
  /\ o.stage \in {"opendir", "readdir"} => o.does \in Directories \cup {"list"}
  /\ o.stage = "children" => o.does \in Directories
  /\ o.stage = "fileStatus" => o.does = "list"
  /\ o.stage = "mkdir" => o.does \in {"mkdir", "copyDirectory"}
  /\ o.stage = "open" => o.does \in {"open", "create", "truncate"}
  /\ o.stage = "closeSource" => o.does \in Directories \cup {"copyFile", "list", "truncate"}
  /\ o.stage = "rmdir" => o.does = "removeDirectory"
  /\ o.stage \in {"removeFile", "move", "stat", "write", "read", "close"} => o.does = o.stage

WholeOf(o) == o.content = SubSeq(Provider!Whole, 1, o.size)

(* What an operation holds and has been told. *)
Holding(o) ==
  /\ o.source # 0 => /\ o.stage \in {"openTarget", "copydata", "chunkRead", "readdir", "children", "fileStatus", "mkdir"}
                     /\ o.does # "mkdir"
  /\ o.target # 0 => o.does = "copyFile" /\ o.stage \in {"copydata", "chunkRead", "closeSource", "closeTarget", "done"}
  /\ o.stage \in {"copydata", "chunkRead", "closeTarget"} => o.target # 0
  /\ o.stage \in {"openTarget", "copydata", "chunkRead", "readdir", "children", "fileStatus"} => o.source # 0
  /\ o.stage = "mkdir" /\ o.does = "copyDirectory" => o.source # 0
  /\ o.failed => o.stage \in {"closeSource", "closeTarget", "done"}
  /\ o.left >= 1 \/ o.stage \notin Many \cup {"children", "read"}
Told(o) ==
  o.answers = IF o.parent = 0 /\ (o.stage = "done" \/ (o.does = "list" /\ o.stage = "closeSource")) THEN 1 ELSE 0
Copied(o) ==
  /\ o.does # "copyFile" \/ o.stage \in {"openSource", "openTarget", "copydata"} => o.content = <<>>
  /\ o.does = "copyFile" /\ o.stage \in {"closeSource", "closeTarget", "done"} /\ ~o.failed => WholeOf(o)
Born(o) ==
  /\ o.on # 0 <=> o.does \in Provider!OfFiles
  /\ o.on # 0 \/ o.does \in {"list", "open", "create", "truncate", "copy", "remove", "mkdir", "move", "stat"} => o.parent = 0
  /\ o.entries # <<>> => o.parent = 0 /\ o.does \in Directories \cup {"list"}
  /\ o.does \in Directories \cup {"list"} \/ o.entries = <<>>
Local(o) == StageFits(o) /\ Holding(o) /\ Told(o) /\ Copied(o) /\ Born(o)

(* The handles operations hold are theirs. *)
Owned(ops, handles, I) ==
  \A j \in DOMAIN ops :
    /\ ops[j].source # 0 => handles[ops[j].source] = j
    /\ (ops[j].target # 0 /\ ops[j].stage # "done" /\ (j \in I => ops[j].stage # "closeTarget")) =>
         handles[ops[j].target] = j /\ ops[j].target # ops[j].source

OwnerOf(ops, r) == IF ops[r.of].on = 0 THEN r.of ELSE ops[r.of].on

WireOwned(ops, wire, handles) ==
  \A k \in DOMAIN wire :
    wire[k].h # 0 => /\ handles[wire[k].h] = OwnerOf(ops, wire[k])
                     /\ \A j \in DOMAIN wire : (j < k /\ wire[j].h = wire[k].h) => wire[j].does \notin Provider!Closes

(* What is on the way fits the operation. *)
Matches(r, o, opened) ==
  /\ r.does \notin {"chunkRead", "chunkWrite", "write"} => r.does = o.stage
  /\ r.does = "chunkRead" => o.stage \in {"chunkRead", "closeSource"} /\ o.target # 0
  /\ r.does = "chunkWrite" => o.stage \in {"chunkRead", "closeSource", "closeTarget"}
  /\ r.does \in {"chunkWrite", "copydata", "closeTarget"} => r.h # 0 /\ r.h = o.target
  /\ r.does = "write" => o.does = "write" /\ o.stage \in {"write", "done"}
  /\ r.does = "closeSource" => o.source = 0 /\ r.h # o.target
  /\ r.does \in {"chunkRead", "chunkWrite"} /\ ~o.failed => o.stage = "chunkRead"
  /\ r.does = "close" => [request |-> o.on, handle |-> r.h] \in opened
  /\ r.does \in {"closeSource", "closeTarget", "close"} => r.h # 0
WireFits(ops, wire, opened) ==
  \A k \in DOMAIN wire : wire[k].of \in DOMAIN ops /\ Matches(wire[k], ops[wire[k].of], opened)

Precedes(r, q) ==
  r.of = q.of =>
    /\ r.does = q.does => r.does \in Many \cup {"chunkWrite"} /\ r.chunk < q.chunk
    /\ r.does = "chunkRead" /\ q.does = "chunkWrite" => q.chunk < r.chunk
    /\ r.does = "closeSource" => q.does # "chunkRead"
    /\ r.does = "closeTarget" => q.does # "chunkWrite"
WireOrder(wire) == \A k, j \in DOMAIN wire : j < k => Precedes(wire[j], wire[k])

(* What an operation waits for is on the way. *)
OnWire(wire, j, does, x) == \E k \in DOMAIN wire : wire[k].of = j /\ wire[k].does = does /\ wire[k].chunk = x
Undone(ops, p) == {j \in DOMAIN ops : ops[j].parent = p /\ ops[j].stage # "done"}
Copying(o, wire, j) ==
  /\ o.content = SubSeq(Provider!Whole, 1, Len(o.content))
  /\ o.left + Len(o.content) = o.size
  /\ \E a \in Nat : 
       /\ Len(o.content) < a /\ a <= o.size + 1
       /\ \A x \in Nat : OnWire(wire, j, "chunkRead", x) <=> (a <= x /\ x <= o.size)
       /\ \A x \in Nat : OnWire(wire, j, "chunkWrite", x) <=> (Len(o.content) < x /\ x < a)
Counting(o, wire, j) ==
  \E a \in Nat : \A x \in Nat : OnWire(wire, j, o.stage, x) <=> (a < x /\ x <= a + o.left)
Waits(ops, wire, j) ==
  /\ ops[j].stage \in OneRequest => OnWire(wire, j, ops[j].stage, 0)
  /\ ops[j].stage = "chunkRead" => Copying(ops[j], wire, j)
  /\ ops[j].stage \in {"write", "fileStatus"} => Counting(ops[j], wire, j)
  /\ ops[j].stage = "children" => Cardinality(Undone(ops, j)) = ops[j].left

Parents(ops, j, I) ==
  LET p == ops[j].parent
  IN  p # 0 => /\ p \in DOMAIN ops /\ p < j /\ ops[p].parent = 0
               /\ ops[p].does \in Directories /\ ops[p].stage \in {"children", "closeSource", "rmdir", "done"}
               /\ (p \notin I /\ ops[p].stage = "children" /\ ops[j].stage = "done") => ~ops[j].failed
               /\ (p \notin I /\ ops[p].stage # "children" /\ ~ops[p].failed) => (ops[j].stage = "done" /\ ~ops[j].failed)

OpenedWell(ops, handles, opened, I) ==
  \A o \in opened :
    /\ o.request \in DOMAIN ops /\ ops[o.request].does \in {"open", "create"}
    /\ o.request \in I \/ ops[o.request].stage = "done"
    /\ \/ handles[o.handle] = o.request
       \/ \E j \in DOMAIN ops : ops[j].on = o.request /\ ops[j].does = "close" /\ (j \in I \/ ops[j].stage = "done")
    /\ \A q \in opened : q.request = o.request => q = o

(* The requests about an open file come one after the other, its close     *)
(* last.                                                                   *)
InTurn(ops) ==
  \A j \in DOMAIN ops : ops[j].on # 0 =>
    /\ ops[j].on \in DOMAIN ops /\ ops[ops[j].on].does \in {"open", "create"}
    /\ \A k \in 1..(j - 1) : ops[k].on = ops[j].on => ops[k].stage = "done" /\ ops[k].does # "close"

(* A handle of the server is known to who has it closed.                   *)
Accounted(ops, wire, handles, opened, I) ==
  \A h \in Provider!Handles : handles[h] # 0 =>
    LET g == handles[h]
    IN  /\ g \in DOMAIN ops
        /\ \/ g \in I
           \/ ops[g].source = h
           \/ ops[g].target = h /\ ops[g].stage # "done"
           \/ \E k \in DOMAIN wire : wire[k].of = g /\ wire[k].does = "closeSource" /\ wire[k].h = h
           \/ [request |-> g, handle |-> h] \in opened

AllLocal(ops, I) == \A j \in DOMAIN ops : j \notin I => Local(ops[j])
AllWait(ops, wire, I) == \A j \in DOMAIN ops : j \notin I => Waits(ops, wire, j)
AllParents(ops, I) == \A j \in DOMAIN ops : Parents(ops, j, I)

(* Orderly but for the operations of I, which are about to go on.            *)
Orderly(t, I) ==
  /\ t \in FspStates
  /\ AllLocal(t.ops, I) /\ AllWait(t.ops, t.wire, I)
  /\ Owned(t.ops, t.handles, I) /\ WireOwned(t.ops, t.wire, t.handles)
  /\ WireFits(t.ops, t.wire, t.openedFiles) /\ WireOrder(t.wire)
  /\ AllParents(t.ops, I) /\ InTurn(t.ops)
  /\ OpenedWell(t.ops, t.handles, t.openedFiles, I) /\ Accounted(t.ops, t.wire, t.handles, t.openedFiles, I)

(* The provider's invariant.                                               *)
ProviderInv ==
  \/ Orderly(f, {})
  \/ ~f.mounted /\ f.wire = <<>> /\ Provider!SuccessIsWhole /\ Provider!AnsweredOnce /\ Provider!TypeOK

(* Fewer operations in hand is more to hold. *)
LEMMA Weaken ==
  ASSUME NEW t, NEW I, NEW J, I \subseteq J, Orderly(t, I)
  PROVE  Orderly(t, J)
<1>1. AllLocal(t.ops, J) /\ AllWait(t.ops, t.wire, J)
  BY DEF Orderly, AllLocal, AllWait
<1>2. Owned(t.ops, t.handles, J)
  BY DEF Orderly, Owned
<1>3. AllParents(t.ops, J)
  BY DEF Orderly, AllParents, Parents
<1>4. OpenedWell(t.ops, t.handles, t.openedFiles, J)
  BY DEF Orderly, OpenedWell
<1>5. Accounted(t.ops, t.wire, t.handles, t.openedFiles, J)
  BY DEF Orderly, Accounted
<1> QED  BY <1>1, <1>2, <1>3, <1>4, <1>5 DEF Orderly

-----------------------------------------------------------------------------
(* Requests that operations in hand send. *)
Sendable(ops, w, n, handles, opened, I) ==
  /\ \A k \in DOMAIN n : n[k].of \in I /\ n[k].of \in DOMAIN ops /\ Matches(n[k], ops[n[k].of], opened)
  /\ \A k \in DOMAIN n : n[k].h # 0 => handles[n[k].h] = OwnerOf(ops, n[k])
  /\ \A k \in DOMAIN n : \A j \in DOMAIN w :
       (n[k].h # 0 /\ w[j].h = n[k].h) => w[j].does \notin Provider!Closes
  /\ \A k \in DOMAIN n : \A j \in DOMAIN n : j < k => n[j].does \notin Provider!Closes
  /\ \A k \in DOMAIN n : \A j \in DOMAIN w : Precedes(w[j], n[k])
  /\ \A k, j \in DOMAIN n : j < k => Precedes(n[j], n[k])

(* The requests of a longer queue. *)
LEMMA Joined ==
  ASSUME NEW w \in Seq(Sent), NEW n \in Seq(Sent)
  PROVE  /\ w \o n \in Seq(Sent) /\ DOMAIN (w \o n) = 1..(Len(w) + Len(n))
         /\ \A k \in DOMAIN w : k \in DOMAIN (w \o n) /\ (w \o n)[k] = w[k] /\ k \in 1..Len(w)
         /\ \A k \in DOMAIN n : k + Len(w) \in DOMAIN (w \o n) /\ (w \o n)[k + Len(w)] = n[k]
         /\ \A k \in DOMAIN (w \o n) : k \notin DOMAIN w => k - Len(w) \in DOMAIN n /\ (w \o n)[k] = n[k - Len(w)]
         /\ Len(w) \in Nat /\ DOMAIN w = 1..Len(w) /\ DOMAIN n = 1..Len(n) /\ Len(n) \in Nat
<1>1. /\ w \o n \in Seq(Sent) /\ Len(w \o n) = Len(w) + Len(n)
      /\ \A i \in 1..(Len(w) + Len(n)) : (w \o n)[i] = IF i <= Len(w) THEN w[i] ELSE n[i - Len(w)]
  BY ConcatProperties
<1>2. /\ Len(w) \in Nat /\ DOMAIN w = 1..Len(w) /\ DOMAIN n = 1..Len(n) /\ Len(n) \in Nat
      /\ DOMAIN (w \o n) = 1..Len(w \o n)
  BY <1>1
<1> DEFINE v == w \o n
<1> HIDE DEF v
<1>3. ASSUME NEW k \in 1..Len(n)
      PROVE  k + Len(w) \in 1..(Len(w) + Len(n)) /\ ~(k + Len(w) <= Len(w)) /\ (k + Len(w)) - Len(w) = k
  BY <1>2
<1> QED  BY <1>1, <1>2, <1>3

(* What is sent on a handle is sent by its owner and before it is closed,   *)
(* also when more is sent.                                                  *)
LEMMA PostOwned ==
  ASSUME NEW ops, NEW w \in Seq(Sent), NEW n \in Seq(Sent), NEW handles, NEW opened, NEW I,
         WireOwned(ops, w, handles), Sendable(ops, w, n, handles, opened, I)
  PROVE  WireOwned(ops, w \o n, handles)
<1> DEFINE v == w \o n
<1>1. /\ \A k \in DOMAIN w : k \in DOMAIN v /\ v[k] = w[k] /\ k \in 1..Len(w)
      /\ \A k \in DOMAIN v : k \notin DOMAIN w => k - Len(w) \in DOMAIN n /\ v[k] = n[k - Len(w)]
      /\ Len(w) \in Nat /\ DOMAIN w = 1..Len(w) /\ DOMAIN n = 1..Len(n) /\ Len(n) \in Nat
      /\ DOMAIN v = 1..(Len(w) + Len(n))
  BY Joined
<1> HIDE DEF v
<1> SUFFICES ASSUME NEW k \in DOMAIN v, v[k].h # 0
             PROVE  /\ handles[v[k].h] = OwnerOf(ops, v[k])
                    /\ \A j \in DOMAIN v : (j < k /\ v[j].h = v[k].h) => v[j].does \notin Provider!Closes
  BY DEF WireOwned, v
<1>2. CASE k \in DOMAIN w
  <2>1. \A j \in DOMAIN v : j < k => j \in DOMAIN w /\ v[j] = w[j]
    BY <1>1, <1>2
  <2> QED  BY <1>1, <1>2, <2>1 DEF WireOwned
<1>3. CASE k \notin DOMAIN w
  <2>1. k - Len(w) \in DOMAIN n /\ v[k] = n[k - Len(w)]
    BY <1>1, <1>3
  <2>2. handles[v[k].h] = OwnerOf(ops, v[k])
    BY <2>1 DEF Sendable
  <2>3. ASSUME NEW j \in DOMAIN v, j < k, v[j].h = v[k].h PROVE v[j].does \notin Provider!Closes
    <3>1. CASE j \in DOMAIN w
      BY <1>1, <2>1, <2>3, <3>1 DEF Sendable
    <3>2. CASE j \notin DOMAIN w
      <4>0. j \in Int /\ k \in Int
        BY <1>1
      <4>1. j - Len(w) \in DOMAIN n /\ v[j] = n[j - Len(w)]
        BY <1>1, <3>2, <4>0
      <4>2. j - Len(w) < k - Len(w)
        BY <1>1, <2>3, <4>0
      <4> QED  BY <2>1, <4>1, <4>2 DEF Sendable
    <3> QED  BY <3>1, <3>2
  <2> QED  BY <2>2, <2>3
<1> QED  BY <1>2, <1>3

(* What more is sent fits the operations it is of.                          *)
LEMMA PostFits ==
  ASSUME NEW ops, NEW w \in Seq(Sent), NEW n \in Seq(Sent), NEW handles, NEW opened, NEW I,
         WireFits(ops, w, opened), Sendable(ops, w, n, handles, opened, I)
  PROVE  WireFits(ops, w \o n, opened)
<1> DEFINE v == w \o n
<1>1. /\ \A k \in DOMAIN w : k \in DOMAIN v /\ v[k] = w[k] /\ k \in 1..Len(w)
      /\ \A k \in DOMAIN v : k \notin DOMAIN w => k - Len(w) \in DOMAIN n /\ v[k] = n[k - Len(w)]
  BY Joined
<1> HIDE DEF v
<1>2. ASSUME NEW k \in DOMAIN v PROVE v[k].of \in DOMAIN ops /\ Matches(v[k], ops[v[k].of], opened)
  BY <1>1 DEF WireFits, Sendable
<1> QED  BY <1>2 DEF WireFits, v

(* More that is sent comes after what was sent before.                      *)
LEMMA PostOrder ==
  ASSUME NEW ops, NEW w \in Seq(Sent), NEW n \in Seq(Sent), NEW handles, NEW opened, NEW I,
         WireOrder(w), Sendable(ops, w, n, handles, opened, I)
  PROVE  WireOrder(w \o n)
<1> DEFINE v == w \o n
<1>1. /\ \A k \in DOMAIN w : k \in DOMAIN v /\ v[k] = w[k] /\ k \in 1..Len(w)
      /\ \A k \in DOMAIN v : k \notin DOMAIN w => k - Len(w) \in DOMAIN n /\ v[k] = n[k - Len(w)]
      /\ Len(w) \in Nat /\ DOMAIN w = 1..Len(w) /\ DOMAIN n = 1..Len(n) /\ Len(n) \in Nat
      /\ DOMAIN v = 1..(Len(w) + Len(n))
  BY Joined
<1> HIDE DEF v
<1>2. ASSUME NEW k \in DOMAIN v, NEW j \in DOMAIN v, j < k PROVE Precedes(v[j], v[k])
  <2>8. CASE k \in DOMAIN w
    <3>1. j \in DOMAIN w /\ v[j] = w[j] /\ v[k] = w[k]
      BY <1>1, <1>2, <2>8
    <3> QED  BY <1>1, <1>2, <2>8, <3>1 DEF WireOrder
  <2>9. CASE k \notin DOMAIN w
    <3>1. k - Len(w) \in DOMAIN n /\ v[k] = n[k - Len(w)]
      BY <1>1, <2>9
    <3>2. CASE j \in DOMAIN w
      BY <1>1, <3>1, <3>2 DEF Sendable
    <3>3. CASE j \notin DOMAIN w
      <4>1. j - Len(w) \in DOMAIN n /\ v[j] = n[j - Len(w)]
        BY <1>1, <3>3
      <4>2. j - Len(w) < k - Len(w)
        BY <1>1, <1>2
      <4> QED  BY <3>1, <4>1, <4>2 DEF Sendable
    <3> QED  BY <3>2, <3>3
  <2> QED  BY <2>8, <2>9
<1> QED  BY <1>2 DEF WireOrder, v

(* An operation waits for the same when it is as before, and what is of it *)
(* on the way.                                                             *)
LEMMA SameWaits ==
  ASSUME NEW ops, NEW ops2, NEW w, NEW v, NEW j, ops2[j] = ops[j], Undone(ops2, j) = Undone(ops, j),
         \A does : \A x : OnWire(v, j, does, x) <=> OnWire(w, j, does, x), Waits(ops, w, j)
  PROVE  Waits(ops2, v, j)
<1>1. ops[j].stage \in OneRequest => OnWire(v, j, ops[j].stage, 0)
  BY DEF Waits
<1>2. ops[j].stage = "chunkRead" => Copying(ops[j], v, j)
  BY DEF Waits, Copying
<1>3. ops[j].stage \in {"write", "fileStatus"} => Counting(ops[j], v, j)
  BY DEF Waits, Counting
<1>4. ops[j].stage = "children" => Cardinality(Undone(ops2, j)) = ops[j].left
  BY DEF Waits
<1> QED  BY <1>1, <1>2, <1>3, <1>4 DEF Waits

(* An operation waits for no less when more is sent.                        *)
LEMMA PostWaits ==
  ASSUME NEW ops, NEW w \in Seq(Sent), NEW n \in Seq(Sent), NEW handles, NEW opened, NEW I,
         AllWait(ops, w, I), Sendable(ops, w, n, handles, opened, I)
  PROVE  AllWait(ops, w \o n, I)
<1> DEFINE v == w \o n
<1>1. /\ \A k \in DOMAIN w : k \in DOMAIN v /\ v[k] = w[k]
      /\ \A k \in DOMAIN v : k \notin DOMAIN w => k - Len(w) \in DOMAIN n /\ v[k] = n[k - Len(w)]
  BY Joined
<1> HIDE DEF v
<1>2. ASSUME NEW j \in DOMAIN ops, j \notin I PROVE Waits(ops, v, j)
  <2>1. ASSUME NEW does, NEW x PROVE OnWire(v, j, does, x) <=> OnWire(w, j, does, x)
    <3>1. OnWire(w, j, does, x) => OnWire(v, j, does, x)
      BY <1>1 DEF OnWire
    <3>2. ASSUME OnWire(v, j, does, x) PROVE OnWire(w, j, does, x)
      <4>1. PICK k \in DOMAIN v : v[k].of = j /\ v[k].does = does /\ v[k].chunk = x
        BY <3>2 DEF OnWire
      <4>2. k \in DOMAIN w
        BY <1>1, <1>2, <4>1 DEF Sendable
      <4> QED  BY <1>1, <4>1, <4>2 DEF OnWire
    <3> QED  BY <3>1, <3>2
  <2>2. Waits(ops, w, j)
    BY <1>2 DEF AllWait
  <2> QED  BY <2>1, <2>2, SameWaits
<1> QED  BY <1>2 DEF AllWait, v

(* What is sent keeps the order, if it is sendable.                         *)
LEMMA Post ==
  ASSUME NEW t, NEW I, NEW n \in Seq(Sent), Orderly(t, I),
         Sendable(t.ops, t.wire, n, t.handles, t.openedFiles, I)
  PROVE  Orderly([t EXCEPT !.wire = t.wire \o n], I)
<1> DEFINE u == [t EXCEPT !.wire = t.wire \o n]
<1>1. /\ t \in FspStates /\ AllLocal(t.ops, I) /\ AllWait(t.ops, t.wire, I)
      /\ Owned(t.ops, t.handles, I) /\ WireOwned(t.ops, t.wire, t.handles)
      /\ WireFits(t.ops, t.wire, t.openedFiles) /\ WireOrder(t.wire)
      /\ AllParents(t.ops, I) /\ InTurn(t.ops)
      /\ OpenedWell(t.ops, t.handles, t.openedFiles, I) /\ Accounted(t.ops, t.wire, t.handles, t.openedFiles, I)
  BY DEF Orderly
<1>2. t.wire \in Seq(Sent)
  BY <1>1 DEF FspStates
<1>3. t.wire \o n \in Seq(Sent) /\ \A k \in DOMAIN t.wire : k \in DOMAIN (t.wire \o n) /\ (t.wire \o n)[k] = t.wire[k]
  BY <1>2, Joined
<1> DEFINE w == t.wire \o n
<1>4. AllWait(t.ops, w, I) /\ WireOwned(t.ops, w, t.handles) /\ WireFits(t.ops, w, t.openedFiles) /\ WireOrder(w)
  BY <1>1, <1>2, PostWaits, PostOwned, PostFits, PostOrder
<1>5. Accounted(t.ops, w, t.handles, t.openedFiles, I)
  BY <1>1, <1>3 DEF Accounted
<1> HIDE DEF w
<1>6. u \in FspStates /\ u.ops = t.ops /\ u.wire = w /\ u.handles = t.handles /\ u.openedFiles = t.openedFiles
  BY <1>1, <1>3 DEF FspStates, w
<1> HIDE DEF u
<1>7. Orderly(u, I)
  BY <1>1, <1>4, <1>5, <1>6 DEF Orderly
<1> QED  BY <1>7 DEF u

-----------------------------------------------------------------------------
(* What an operation in hand may become. *)
Changeable(t, I, i, o) ==
  /\ o.parent = t.ops[i].parent /\ o.on = t.ops[i].on
  /\ o.source # 0 => t.handles[o.source] = i
  /\ o.target # 0 /\ o.stage \notin {"done", "closeTarget"} => t.handles[o.target] = i /\ o.target # o.source
  /\ \A k \in DOMAIN t.wire : t.wire[k].of = i => Matches(t.wire[k], o, t.openedFiles)
  /\ o.parent # 0 /\ o.parent \notin I =>
       /\ t.ops[o.parent].stage = "children" => o.stage # "done"
       /\ t.ops[o.parent].stage # "children" /\ ~t.ops[o.parent].failed => o.stage = "done" /\ ~o.failed
       /\ t.ops[i].stage = "done" => o.stage = "done"
       /\ t.ops[i].stage # "done" /\ o.stage = "done" => t.ops[o.parent].stage # "children"
  /\ (\E j \in DOMAIN t.ops : t.ops[j].parent = i) =>
       o.does \in Directories /\ o.stage \in {"children", "closeSource", "rmdir", "done"}
  /\ o.does = t.ops[i].does \/ {o.does, t.ops[i].does} \subseteq Chains \ {"open", "create", "close"}
  /\ t.ops[i].stage = "done" => o.stage = "done"

(* An operation that is about to go on may change, within what others rely  *)
(* on.                                                                      *)
LEMMA Change ==
  ASSUME NEW t, NEW I, NEW i \in I, NEW o \in ChainOps, Orderly(t, I), i \in DOMAIN t.ops, Changeable(t, I, i, o)
  PROVE  Orderly([t EXCEPT !.ops = [t.ops EXCEPT ![i] = o]], I)
<1> DEFINE ops2 == [t.ops EXCEPT ![i] = o]
           u == [t EXCEPT !.ops = ops2]
<1>1. /\ t \in FspStates /\ AllLocal(t.ops, I) /\ AllWait(t.ops, t.wire, I)
      /\ Owned(t.ops, t.handles, I) /\ WireOwned(t.ops, t.wire, t.handles)
      /\ WireFits(t.ops, t.wire, t.openedFiles) /\ WireOrder(t.wire)
      /\ AllParents(t.ops, I) /\ InTurn(t.ops)
      /\ OpenedWell(t.ops, t.handles, t.openedFiles, I) /\ Accounted(t.ops, t.wire, t.handles, t.openedFiles, I)
  BY DEF Orderly
<1>2. t.ops \in Seq(ChainOps)
  BY <1>1 DEF FspStates
<1>3. /\ ops2 \in Seq(ChainOps) /\ DOMAIN ops2 = DOMAIN t.ops /\ ops2[i] = o
      /\ \A j \in DOMAIN t.ops : j # i => ops2[j] = t.ops[j]
      /\ \A j \in DOMAIN t.ops : j \in Nat
  BY <1>2
<1>4. u \in FspStates /\ u.ops = ops2 /\ u.wire = t.wire /\ u.handles = t.handles /\ u.openedFiles = t.openedFiles
  BY <1>1, <1>3 DEF FspStates
<1> HIDE DEF ops2, u
<1>5. \A j \in DOMAIN t.ops : ops2[j].parent = t.ops[j].parent /\ ops2[j].on = t.ops[j].on
  BY <1>3 DEF Changeable
<1>6. AllLocal(ops2, I)
  BY <1>1, <1>3 DEF AllLocal
<1>7. AllWait(ops2, t.wire, I)
  <2>1. ASSUME NEW j \in DOMAIN t.ops, j \notin I PROVE Waits(ops2, t.wire, j)
    <3>1. ops2[j] = t.ops[j] /\ Waits(t.ops, t.wire, j)
      BY <1>1, <1>3, <2>1 DEF AllWait
    <3>2. CASE t.ops[j].stage # "children"
      BY <3>1, <3>2 DEF Waits, Copying, Counting
    <3>3. CASE t.ops[j].stage = "children"
      <4>1. Undone(ops2, j) = Undone(t.ops, j)
        BY <1>3, <1>5, <2>1, <3>3 DEF Undone, Changeable
      <4> QED  BY <3>1, <4>1, SameWaits
    <3> QED  BY <3>2, <3>3
  <2> QED  BY <1>3, <2>1 DEF AllWait
<1>8. Owned(ops2, t.handles, I)
  BY <1>1, <1>3 DEF Owned, Changeable
<1>9. WireOwned(ops2, t.wire, t.handles)
  BY <1>1, <1>5 DEF WireOwned, WireFits, OwnerOf
<1>10. WireFits(ops2, t.wire, t.openedFiles)
  BY <1>1, <1>3 DEF WireFits, Changeable
<1>11. AllParents(ops2, I)
  <2>1. ASSUME NEW j \in DOMAIN t.ops PROVE Parents(ops2, j, I)
    <3>1. Parents(t.ops, j, I)
      BY <1>1 DEF AllParents
    <3> QED  BY <1>3, <1>5, <2>1, <3>1 DEF Parents, Changeable
  <2> QED  BY <1>3, <2>1 DEF AllParents
<1>12. InTurn(ops2)
  <2>1. ASSUME NEW j \in DOMAIN t.ops, t.ops[j].on # 0
        PROVE  /\ t.ops[j].on \in DOMAIN ops2 /\ ops2[t.ops[j].on].does \in {"open", "create"}
               /\ \A k \in 1..(j - 1) : ops2[k].on = t.ops[j].on => ops2[k].stage = "done" /\ ops2[k].does # "close"
    <3>1. /\ t.ops[j].on \in DOMAIN t.ops /\ t.ops[t.ops[j].on].does \in {"open", "create"}
          /\ \A k \in 1..(j - 1) : t.ops[k].on = t.ops[j].on => t.ops[k].stage = "done" /\ t.ops[k].does # "close"
      BY <1>1, <2>1 DEF InTurn
    <3>2. ops2[t.ops[j].on].does \in {"open", "create"}
      BY <1>3, <3>1 DEF Changeable
    <3>3. ASSUME NEW k \in 1..(j - 1), ops2[k].on = t.ops[j].on PROVE ops2[k].stage = "done" /\ ops2[k].does # "close"
      <4>1. k \in DOMAIN t.ops
        BY <1>2
      <4>2. t.ops[k].stage = "done" /\ t.ops[k].does # "close"
        BY <1>5, <3>1, <3>3, <4>1
      <4>3. CASE k = i
        BY <1>3, <4>2, <4>3 DEF Changeable
      <4>4. CASE k # i
        BY <1>3, <4>1, <4>2, <4>4
      <4> QED  BY <4>3, <4>4
    <3> QED  BY <1>3, <3>1, <3>2, <3>3
  <2> QED  BY <1>3, <1>5, <2>1 DEF InTurn
<1>13. OpenedWell(ops2, t.handles, t.openedFiles, I)
  <2>1. ASSUME NEW q \in t.openedFiles
        PROVE  /\ q.request \in DOMAIN ops2 /\ ops2[q.request].does \in {"open", "create"}
               /\ q.request \in I \/ ops2[q.request].stage = "done"
               /\ \/ t.handles[q.handle] = q.request
                  \/ \E j \in DOMAIN ops2 : /\ ops2[j].on = q.request /\ ops2[j].does = "close"
                                            /\ (j \in I \/ ops2[j].stage = "done")
               /\ \A p \in t.openedFiles : p.request = q.request => p = q
    <3>1. /\ q.request \in DOMAIN t.ops /\ t.ops[q.request].does \in {"open", "create"}
          /\ q.request \in I \/ t.ops[q.request].stage = "done"
          /\ \/ t.handles[q.handle] = q.request
             \/ \E j \in DOMAIN t.ops : /\ t.ops[j].on = q.request /\ t.ops[j].does = "close"
                                        /\ (j \in I \/ t.ops[j].stage = "done")
          /\ \A p \in t.openedFiles : p.request = q.request => p = q
      BY <1>1, <2>1 DEF OpenedWell
    <3>2. ops2[q.request].does \in {"open", "create"} /\ (q.request \in I \/ ops2[q.request].stage = "done")
      BY <1>3, <3>1 DEF Changeable
    <3>3. ASSUME NEW j \in DOMAIN t.ops, t.ops[j].on = q.request, t.ops[j].does = "close", j \in I \/ t.ops[j].stage = "done"
          PROVE  ops2[j].on = q.request /\ ops2[j].does = "close" /\ (j \in I \/ ops2[j].stage = "done")
      BY <1>3, <1>5, <3>3 DEF Changeable
    <3> QED  BY <1>3, <3>1, <3>2, <3>3
  <2> QED  BY <2>1 DEF OpenedWell
<1>14. Accounted(ops2, t.wire, t.handles, t.openedFiles, I)
  BY <1>1, <1>3 DEF Accounted
<1>15. Orderly(u, I)
  BY <1>1, <1>4, <1>6, <1>7, <1>8, <1>9, <1>10, <1>11, <1>12, <1>13, <1>14 DEF Orderly
<1> QED  BY <1>15 DEF u, ops2

(* An operation is no more in hand when it waits for what is on the way. *)
Settled(t, i) ==
  /\ i \in DOMAIN t.ops /\ Local(t.ops[i]) /\ Waits(t.ops, t.wire, i)
  /\ t.ops[i].target # 0 /\ t.ops[i].stage = "closeTarget" =>
       t.handles[t.ops[i].target] = i /\ t.ops[i].target # t.ops[i].source
  /\ \A j \in DOMAIN t.ops : t.ops[j].parent = i =>
       /\ t.ops[i].stage = "children" /\ t.ops[j].stage = "done" => ~t.ops[j].failed
       /\ t.ops[i].stage # "children" /\ ~t.ops[i].failed => t.ops[j].stage = "done" /\ ~t.ops[j].failed
  /\ \A o \in t.openedFiles : o.request = i => t.ops[i].stage = "done"
  /\ t.ops[i].does = "close" /\ t.ops[i].stage # "done" =>
       \A o \in t.openedFiles : o.request = t.ops[i].on => t.handles[o.handle] = o.request
  /\ \A h \in Provider!Handles : t.handles[h] = i =>
       \/ t.ops[i].source = h
       \/ t.ops[i].target = h /\ t.ops[i].stage # "done"
       \/ \E k \in DOMAIN t.wire : t.wire[k].of = i /\ t.wire[k].does = "closeSource" /\ t.wire[k].h = h
       \/ [request |-> i, handle |-> h] \in t.openedFiles

(* Operations that are settled are none of those about to go on.            *)
LEMMA PutDownAll ==
  ASSUME NEW t, NEW I, NEW A, Orderly(t, I), \A i \in A : Settled(t, i)
  PROVE  Orderly(t, I \ A)
<1> DEFINE J == I \ A
<1>1. /\ t \in FspStates /\ AllLocal(t.ops, I) /\ AllWait(t.ops, t.wire, I)
      /\ Owned(t.ops, t.handles, I) /\ WireOwned(t.ops, t.wire, t.handles)
      /\ WireFits(t.ops, t.wire, t.openedFiles) /\ WireOrder(t.wire)
      /\ AllParents(t.ops, I) /\ InTurn(t.ops)
      /\ OpenedWell(t.ops, t.handles, t.openedFiles, I) /\ Accounted(t.ops, t.wire, t.handles, t.openedFiles, I)
  BY DEF Orderly
<1>2. \A j : j \in J <=> (j \in I /\ j \notin A)
  OBVIOUS
<1> HIDE DEF J
<1>3. AllLocal(t.ops, J) /\ AllWait(t.ops, t.wire, J)
  BY <1>1, <1>2 DEF AllLocal, AllWait, Settled
<1>4. Owned(t.ops, t.handles, J)
  BY <1>1, <1>2 DEF Owned, Settled
<1>5. AllParents(t.ops, J)
  <2>1. ASSUME NEW j \in DOMAIN t.ops PROVE Parents(t.ops, j, J)
    <3>1. Parents(t.ops, j, I)
      BY <1>1 DEF AllParents
    <3>2. CASE t.ops[j].parent \in A
      BY <1>2, <3>1, <3>2 DEF Parents, Settled
    <3>3. CASE t.ops[j].parent \notin A
      BY <1>2, <3>1, <3>3 DEF Parents
    <3> QED  BY <3>2, <3>3
  <2> QED  BY <2>1 DEF AllParents
<1>6. OpenedWell(t.ops, t.handles, t.openedFiles, J)
  <2>1. ASSUME NEW q \in t.openedFiles
        PROVE  /\ q.request \in DOMAIN t.ops /\ t.ops[q.request].does \in {"open", "create"}
               /\ q.request \in J \/ t.ops[q.request].stage = "done"
               /\ \/ t.handles[q.handle] = q.request
                  \/ \E j \in DOMAIN t.ops : /\ t.ops[j].on = q.request /\ t.ops[j].does = "close"
                                             /\ (j \in J \/ t.ops[j].stage = "done")
               /\ \A p \in t.openedFiles : p.request = q.request => p = q
    <3>1. /\ q.request \in DOMAIN t.ops /\ t.ops[q.request].does \in {"open", "create"}
          /\ q.request \in I \/ t.ops[q.request].stage = "done"
          /\ \/ t.handles[q.handle] = q.request
             \/ \E j \in DOMAIN t.ops : /\ t.ops[j].on = q.request /\ t.ops[j].does = "close"
                                        /\ (j \in I \/ t.ops[j].stage = "done")
          /\ \A p \in t.openedFiles : p.request = q.request => p = q
      BY <1>1 DEF OpenedWell
    <3>2. q.request \in J \/ t.ops[q.request].stage = "done"
      BY <1>2, <3>1 DEF Settled
    <3>3. ASSUME NEW j \in A, t.ops[j].on = q.request, t.ops[j].does = "close", t.ops[j].stage # "done"
          PROVE  t.handles[q.handle] = q.request
      BY <3>3 DEF Settled
    <3> QED  BY <1>2, <3>1, <3>2, <3>3
  <2> QED  BY <2>1 DEF OpenedWell
<1>7. Accounted(t.ops, t.wire, t.handles, t.openedFiles, J)
  <2>1. ASSUME NEW h \in Provider!Handles, t.handles[h] # 0, NEW g, g = t.handles[h]
        PROVE  /\ g \in DOMAIN t.ops
               /\ \/ g \in J
                  \/ t.ops[g].source = h
                  \/ t.ops[g].target = h /\ t.ops[g].stage # "done"
                  \/ \E k \in DOMAIN t.wire : t.wire[k].of = g /\ t.wire[k].does = "closeSource" /\ t.wire[k].h = h
                  \/ [request |-> g, handle |-> h] \in t.openedFiles
    <3>1. CASE g \in A
      BY <1>1, <2>1, <3>1 DEF Settled, Accounted
    <3>2. CASE g \notin A
      BY <1>1, <1>2, <2>1, <3>2 DEF Accounted
    <3> QED  BY <3>1, <3>2
  <2> QED  BY <2>1 DEF Accounted
<1> QED  BY <1>1, <1>3, <1>4, <1>5, <1>6, <1>7 DEF Orderly, J

(* The same of one operation.                                               *)
LEMMA PutDown ==
  ASSUME NEW t, NEW I, NEW i, Orderly(t, I), Settled(t, i)
  PROVE  Orderly(t, I \ {i})
<1>1. \A j \in {i} : Settled(t, j)
  OBVIOUS
<1> QED  BY <1>1, PutDownAll

-----------------------------------------------------------------------------
(* Operations that begin. *)
Beginning(t, I, more) ==
  \A k \in DOMAIN more :
    /\ more[k].source = 0 /\ more[k].target = 0
    /\ more[k].parent # 0 =>
         /\ more[k].parent \in I /\ more[k].parent \in DOMAIN t.ops /\ t.ops[more[k].parent].parent = 0
         /\ t.ops[more[k].parent].does \in Directories /\ t.ops[more[k].parent].stage = "children"
    /\ more[k].on # 0 =>
         /\ k = 1 /\ more[k].on \in DOMAIN t.ops /\ t.ops[more[k].on].does \in {"open", "create"}
         /\ \A j \in DOMAIN t.ops : t.ops[j].on = more[k].on => t.ops[j].stage = "done" /\ t.ops[j].does # "close"

(* The operations of a list with more at its end.                           *)
LEMMA JoinedOps ==
  ASSUME NEW w \in Seq(ChainOps), NEW n \in Seq(ChainOps)
  PROVE  /\ w \o n \in Seq(ChainOps) /\ DOMAIN (w \o n) = 1..(Len(w) + Len(n))
         /\ \A k \in DOMAIN w : k \in DOMAIN (w \o n) /\ (w \o n)[k] = w[k]
         /\ \A k \in DOMAIN (w \o n) :
              k \notin DOMAIN w => /\ k - Len(w) \in DOMAIN n /\ (w \o n)[k] = n[k - Len(w)]
                                   /\ k \in (Len(w) + 1)..(Len(w) + Len(n))
         /\ Len(w) \in Nat /\ DOMAIN w = 1..Len(w) /\ DOMAIN n = 1..Len(n) /\ Len(n) \in Nat
<1>1. /\ w \o n \in Seq(ChainOps) /\ Len(w \o n) = Len(w) + Len(n)
      /\ \A i \in 1..(Len(w) + Len(n)) : (w \o n)[i] = IF i <= Len(w) THEN w[i] ELSE n[i - Len(w)]
  BY ConcatProperties
<1>2. /\ Len(w) \in Nat /\ DOMAIN w = 1..Len(w) /\ DOMAIN n = 1..Len(n) /\ Len(n) \in Nat
      /\ DOMAIN (w \o n) = 1..Len(w \o n)
  BY <1>1
<1> DEFINE v == w \o n
<1> HIDE DEF v
<1> QED  BY <1>1, <1>2

(* New operations come as ones about to go on: their first requests are to  *)
(* be sent.                                                                 *)
LEMMA Arrive ==
  ASSUME NEW t, NEW I, NEW more \in Seq(ChainOps), Orderly(t, I), Beginning(t, I, more)
  PROVE  Orderly([t EXCEPT !.ops = t.ops \o more], I \cup (Len(t.ops) + 1)..(Len(t.ops) + Len(more)))
<1> DEFINE ops2 == t.ops \o more
           u == [t EXCEPT !.ops = ops2]
           J == I \cup (Len(t.ops) + 1)..(Len(t.ops) + Len(more))
<1>1. /\ t \in FspStates /\ AllLocal(t.ops, I) /\ AllWait(t.ops, t.wire, I)
      /\ Owned(t.ops, t.handles, I) /\ WireOwned(t.ops, t.wire, t.handles)
      /\ WireFits(t.ops, t.wire, t.openedFiles) /\ WireOrder(t.wire)
      /\ AllParents(t.ops, I) /\ InTurn(t.ops)
      /\ OpenedWell(t.ops, t.handles, t.openedFiles, I) /\ Accounted(t.ops, t.wire, t.handles, t.openedFiles, I)
  BY DEF Orderly
<1>2. t.ops \in Seq(ChainOps)
  BY <1>1 DEF FspStates
<1>3. /\ ops2 \in Seq(ChainOps) /\ DOMAIN ops2 = 1..(Len(t.ops) + Len(more))
      /\ \A k \in DOMAIN t.ops : k \in DOMAIN ops2 /\ ops2[k] = t.ops[k]
      /\ \A k \in DOMAIN ops2 : k \notin DOMAIN t.ops =>
           k - Len(t.ops) \in DOMAIN more /\ ops2[k] = more[k - Len(t.ops)] /\ k \in J
      /\ Len(t.ops) \in Nat /\ DOMAIN t.ops = 1..Len(t.ops) /\ DOMAIN more = 1..Len(more) /\ Len(more) \in Nat
      /\ \A k \in I : k \in J
  BY <1>2, JoinedOps
<1>4. u \in FspStates /\ u.ops = ops2 /\ u.wire = t.wire /\ u.handles = t.handles /\ u.openedFiles = t.openedFiles
  BY <1>1, <1>3 DEF FspStates
<1> HIDE DEF ops2, u, J
<1>5. ASSUME NEW k \in DOMAIN ops2, k \notin DOMAIN t.ops
      PROVE  /\ ops2[k].source = 0 /\ ops2[k].target = 0 /\ k \in J
             /\ ops2[k].parent # 0 =>
                  /\ ops2[k].parent \in J /\ ops2[k].parent \in I /\ ops2[k].parent \in DOMAIN t.ops
                  /\ t.ops[ops2[k].parent].parent = 0
                  /\ t.ops[ops2[k].parent].does \in Directories /\ t.ops[ops2[k].parent].stage = "children"
             /\ ops2[k].on # 0 =>
                  /\ k = Len(t.ops) + 1 /\ ops2[k].on \in DOMAIN t.ops /\ t.ops[ops2[k].on].does \in {"open", "create"}
                  /\ \A j \in DOMAIN t.ops : t.ops[j].on = ops2[k].on => t.ops[j].stage = "done" /\ t.ops[j].does # "close"
  BY <1>3, <1>5 DEF Beginning
<1>6. AllLocal(ops2, J)
  BY <1>1, <1>3 DEF AllLocal
<1>7. AllWait(ops2, t.wire, J)
  <2>1. ASSUME NEW j \in DOMAIN ops2, j \notin J PROVE Waits(ops2, t.wire, j)
    <3>1. j \in DOMAIN t.ops /\ j \notin I /\ ops2[j] = t.ops[j] /\ Waits(t.ops, t.wire, j)
      BY <1>1, <1>3, <2>1 DEF AllWait
    <3>2. Undone(ops2, j) = Undone(t.ops, j)
      BY <1>3, <1>5, <3>1 DEF Undone
    <3> QED  BY <3>1, <3>2, SameWaits
  <2> QED  BY <2>1 DEF AllWait
<1>8. Owned(ops2, t.handles, J)
  BY <1>1, <1>3, <1>5 DEF Owned
<1>9. WireOwned(ops2, t.wire, t.handles)
  BY <1>1, <1>3 DEF WireOwned, WireFits, OwnerOf
<1>10. WireFits(ops2, t.wire, t.openedFiles)
  BY <1>1, <1>3 DEF WireFits
<1>11. AllParents(ops2, J)
  <2>1. ASSUME NEW j \in DOMAIN ops2 PROVE Parents(ops2, j, J)
    <3>1. CASE j \in DOMAIN t.ops
      <4>1. Parents(t.ops, j, I) /\ ops2[j] = t.ops[j]
        BY <1>1, <1>3, <3>1 DEF AllParents
      <4> QED  BY <1>3, <4>1 DEF Parents
    <3>2. CASE j \notin DOMAIN t.ops
      <4>1. ops2[j].parent # 0 => ops2[j].parent < j /\ ops2[ops2[j].parent] = t.ops[ops2[j].parent] /\ ops2[j].parent \in DOMAIN ops2
        BY <1>3, <1>5, <3>2
      <4> QED  BY <1>5, <3>2, <4>1 DEF Parents
    <3> QED  BY <3>1, <3>2
  <2> QED  BY <2>1 DEF AllParents
<1>12. InTurn(ops2)
  <2>1. ASSUME NEW j \in DOMAIN ops2, ops2[j].on # 0
        PROVE  /\ ops2[j].on \in DOMAIN ops2 /\ ops2[ops2[j].on].does \in {"open", "create"}
               /\ \A k \in 1..(j - 1) : ops2[k].on = ops2[j].on => ops2[k].stage = "done" /\ ops2[k].does # "close"
    <3>1. CASE j \in DOMAIN t.ops
      <4>1. /\ t.ops[j].on \in DOMAIN t.ops /\ t.ops[t.ops[j].on].does \in {"open", "create"}
            /\ \A k \in 1..(j - 1) : t.ops[k].on = t.ops[j].on => t.ops[k].stage = "done" /\ t.ops[k].does # "close"
        BY <1>1, <1>3, <2>1, <3>1 DEF InTurn
      <4>2. \A k \in 1..(j - 1) : k \in DOMAIN t.ops
        BY <1>3, <3>1
      <4> QED  BY <1>3, <3>1, <4>1, <4>2
    <3>2. CASE j \notin DOMAIN t.ops
      <4>1. j = Len(t.ops) + 1
        BY <1>5, <2>1, <3>2
      <4>2. \A k \in 1..(j - 1) : k \in DOMAIN t.ops
        BY <1>3, <4>1
      <4>3. /\ ops2[j].on \in DOMAIN t.ops /\ t.ops[ops2[j].on].does \in {"open", "create"}
            /\ \A k \in DOMAIN t.ops : t.ops[k].on = ops2[j].on => t.ops[k].stage = "done" /\ t.ops[k].does # "close"
        BY <1>5, <2>1, <3>2
      <4>4. ops2[j].on \in DOMAIN ops2 /\ ops2[ops2[j].on].does \in {"open", "create"}
        BY <1>3, <4>3
      <4> QED  BY <1>3, <4>2, <4>3, <4>4
    <3> QED  BY <3>1, <3>2
  <2> QED  BY <2>1 DEF InTurn
<1>13. OpenedWell(ops2, t.handles, t.openedFiles, J)
  BY <1>1, <1>3 DEF OpenedWell
<1>14. Accounted(ops2, t.wire, t.handles, t.openedFiles, J)
  BY <1>1, <1>3 DEF Accounted
<1>15. Orderly(u, J)
  BY <1>1, <1>4, <1>6, <1>7, <1>8, <1>9, <1>10, <1>11, <1>12, <1>13, <1>14 DEF Orderly
<1> QED  BY <1>15 DEF u, ops2, J

-----------------------------------------------------------------------------
(* The server takes the next request: the handle it opens is of the        *)
(* request's operation, the one it closes is of none.                      *)
Handled(t, hs) ==
  /\ hs \in [Provider!Handles -> Nat]
  /\ \A h \in Provider!Handles :
       \/ hs[h] = t.handles[h]
       \/ t.handles[h] = 0 /\ hs[h] = Head(t.wire).of
       \/ hs[h] = 0 /\ h = Head(t.wire).h /\ Head(t.wire).does \in Provider!Closes

(* The first request that is sent and those after it.                       *)
LEMMA HeadAndTail ==
  ASSUME NEW w \in Seq(Sent), w # <<>>
  PROVE  /\ Tail(w) \in Seq(Sent) /\ Head(w) = w[1] /\ 1 \in DOMAIN w /\ Head(w) \in Sent
         /\ \A k \in DOMAIN Tail(w) : k \in Nat /\ k + 1 \in DOMAIN w /\ Tail(w)[k] = w[k + 1] /\ 1 < k + 1
         /\ \A k \in DOMAIN w : k \in Nat /\ (k # 1 => k - 1 \in DOMAIN Tail(w) /\ Tail(w)[k - 1] = w[k])
<1>1. /\ Head(w) \in Sent /\ Head(w) = w[1] /\ 1 \in DOMAIN w
      /\ Tail(w) \in Seq(Sent)
      /\ \A i \in DOMAIN Tail(w) : i + 1 \in DOMAIN w /\ Tail(w)[i] = w[i + 1]
      /\ \A i \in DOMAIN w : i # 1 => i - 1 \in DOMAIN Tail(w)
  BY TailProperties
<1>2. /\ \A i \in DOMAIN Tail(w) : i \in Nat /\ 1 < i + 1
      /\ \A i \in DOMAIN w : i \in Nat /\ (i - 1) + 1 = i
  BY <1>1
<1> QED  BY <1>1, <1>2

(* Whose the handle of a request to close is. *)
LEMMA ClosedIsOwn ==
  ASSUME NEW t, Orderly(t, {}), NEW k \in DOMAIN t.wire, t.wire[k].does \in Provider!Closes
  PROVE  /\ t.wire[k].h # 0 /\ t.handles[t.wire[k].h] = OwnerOf(t.ops, t.wire[k])
         /\ t.wire[k].of \in DOMAIN t.ops /\ t.wire[k].does = t.ops[t.wire[k].of].stage
         /\ t.wire[k].does \in {"closeSource", "closeTarget"} =>
              t.ops[t.wire[k].of].on = 0 /\ t.ops[t.wire[k].of].does \in Directories \cup {"copyFile", "list", "truncate"}
         /\ t.wire[k].does = "close" => t.ops[t.wire[k].of].on # 0 /\ t.ops[t.wire[k].of].does = "close"
<1>1. WireOwned(t.ops, t.wire, t.handles) /\ WireFits(t.ops, t.wire, t.openedFiles) /\ AllLocal(t.ops, {})
  BY DEF Orderly
<1> DEFINE r == t.wire[k]
<1>2. r.of \in DOMAIN t.ops /\ Matches(r, t.ops[r.of], t.openedFiles)
  BY <1>1 DEF WireFits
<1>3. Local(t.ops[r.of])
  BY <1>1, <1>2 DEF AllLocal
<1>4. r.does \in {"closeSource", "closeTarget", "close"}
  BY DEF Provider!Closes
<1>5. r.h # 0 /\ r.does = t.ops[r.of].stage
  BY <1>2, <1>4 DEF Matches
<1>6. t.handles[r.h] = OwnerOf(t.ops, r)
  BY <1>1, <1>5 DEF WireOwned
<1>7. r.does \in {"closeSource", "closeTarget"} =>
        t.ops[r.of].on = 0 /\ t.ops[r.of].does \in Directories \cup {"copyFile", "list", "truncate"}
  BY <1>3, <1>5, Zenon DEF Local, StageFits, Born, Provider!OfFiles, Directories
<1>8. r.does = "close" => t.ops[r.of].on # 0 /\ t.ops[r.of].does = "close"
  BY <1>3, <1>5 DEF Local, StageFits, Born, Provider!OfFiles
<1> QED  BY <1>2, <1>5, <1>6, <1>7, <1>8

(* The server takes a request and changes its handles: the operation that   *)
(* it is of is about to go on.                                              *)
LEMMA Take ==
  ASSUME NEW t, NEW hs, Orderly(t, {}), t.wire # <<>>, Handled(t, hs)
  PROVE  Orderly([t EXCEPT !.wire = Tail(t.wire), !.handles = hs], {Head(t.wire).of})
<1> DEFINE w == Tail(t.wire)
           r == Head(t.wire)
           i == r.of
           u == [t EXCEPT !.wire = w, !.handles = hs]
<1>1. /\ t \in FspStates /\ AllLocal(t.ops, {}) /\ AllWait(t.ops, t.wire, {})
      /\ Owned(t.ops, t.handles, {}) /\ WireOwned(t.ops, t.wire, t.handles)
      /\ WireFits(t.ops, t.wire, t.openedFiles) /\ WireOrder(t.wire)
      /\ AllParents(t.ops, {}) /\ InTurn(t.ops)
      /\ OpenedWell(t.ops, t.handles, t.openedFiles, {}) /\ Accounted(t.ops, t.wire, t.handles, t.openedFiles, {})
  BY DEF Orderly
<1>2. t.wire \in Seq(Sent) /\ t.ops \in Seq(ChainOps) /\ t.handles \in [Provider!Handles -> Nat]
  BY <1>1 DEF FspStates
<1>3. /\ w \in Seq(Sent) /\ r = t.wire[1] /\ 1 \in DOMAIN t.wire
      /\ \A k \in DOMAIN w : k \in Nat /\ k + 1 \in DOMAIN t.wire /\ w[k] = t.wire[k + 1] /\ 1 < k + 1
      /\ \A k \in DOMAIN t.wire : k \in Nat /\ (k # 1 => k - 1 \in DOMAIN w /\ w[k - 1] = t.wire[k])
  BY <1>2, HeadAndTail
<1>4. u \in FspStates /\ u.ops = t.ops /\ u.wire = w /\ u.handles = hs /\ u.openedFiles = t.openedFiles
  BY <1>1, <1>3 DEF FspStates, Handled
<1>5. i \in DOMAIN t.ops /\ \A j \in DOMAIN t.ops : j \in Nat /\ j # 0
  BY <1>1, <1>2, <1>3 DEF WireFits
<1>6. ASSUME NEW h \in Provider!Handles, t.handles[h] # 0, hs[h] # t.handles[h]
      PROVE  h = r.h /\ r.does \in Provider!Closes /\ t.handles[h] = OwnerOf(t.ops, r)
  <2>1. h = r.h /\ r.does \in Provider!Closes
    BY <1>6 DEF Handled
  <2> QED  BY <1>3, <2>1, ClosedIsOwn
<1>7. /\ r.does \in {"closeSource", "closeTarget"} =>
           t.ops[i].on = 0 /\ t.ops[i].does \in Directories \cup {"copyFile", "list", "truncate"} /\ t.ops[i].stage = r.does
      /\ r.does = "close" => t.ops[i].on # 0 /\ t.ops[i].does = "close"
  <2>1. CASE r.does \in Provider!Closes
    BY <1>3, <2>1, ClosedIsOwn
  <2> QED  BY <2>1 DEF Provider!Closes
<1>8. Matches(r, t.ops[i], t.openedFiles)
  BY <1>1, <1>3 DEF WireFits
<1> HIDE DEF w, r, i, u
<1>9. i = r.of
  BY DEF i
<1>10. AllLocal(t.ops, {i})
  BY <1>1 DEF AllLocal
<1>11. AllWait(t.ops, w, {i})
  <2>1. ASSUME NEW j \in DOMAIN t.ops, j # i PROVE Waits(t.ops, w, j)
    <3>1. ASSUME NEW does, NEW x PROVE OnWire(w, j, does, x) <=> OnWire(t.wire, j, does, x)
      <4>1. ASSUME NEW k \in DOMAIN w, w[k].of = j, w[k].does = does, w[k].chunk = x PROVE OnWire(t.wire, j, does, x)
        BY <1>3, <4>1 DEF OnWire
      <4>2. ASSUME NEW k \in DOMAIN t.wire, t.wire[k].of = j, t.wire[k].does = does, t.wire[k].chunk = x
            PROVE  OnWire(w, j, does, x)
        <5>1. k # 1
          BY <1>3, <1>9, <2>1, <4>2
        <5> QED  BY <1>3, <4>2, <5>1 DEF OnWire
      <4> QED  BY <4>1, <4>2 DEF OnWire
    <3>2. Waits(t.ops, t.wire, j)
      BY <1>1 DEF AllWait
    <3> QED  BY <3>1, <3>2, SameWaits
  <2> QED  BY <2>1 DEF AllWait
<1>12. Owned(t.ops, hs, {i})
  <2>1. ASSUME NEW j \in DOMAIN t.ops, t.ops[j].source # 0 PROVE hs[t.ops[j].source] = j
    <3>0. t.ops[j].source \in Numbers
      <4>1. t.ops[j] \in ChainOps
        BY <1>2
      <4> QED  BY <4>1 DEF ChainOps
    <3>1. t.handles[t.ops[j].source] = j /\ t.ops[j].source \in Provider!Handles
      BY <1>1, <2>1, <3>0 DEF Owned, Numbers
    <3>2. ASSUME hs[t.ops[j].source] # j PROVE FALSE
      <4>1. t.ops[j].source = r.h /\ r.does \in {"closeSource", "closeTarget", "close"} /\ j = OwnerOf(t.ops, r)
        BY <1>5, <1>6, <3>1, <3>2 DEF Provider!Closes
      <4>2. CASE r.does = "close"
        <5>1. t.ops[j].does \in {"open", "create"}
          BY <1>1, <1>5, <1>7, <1>9, <4>1, <4>2 DEF InTurn, OwnerOf
        <5> QED  BY <1>1, <2>1, <5>1 DEF AllLocal, Local, Holding, StageFits, Directories
      <4>3. CASE r.does \in {"closeSource", "closeTarget"}
        <5>1. j = i
          BY <1>7, <1>9, <4>1, <4>3 DEF OwnerOf
        <5>2. CASE r.does = "closeSource"
          BY <1>8, <2>1, <5>1, <5>2 DEF Matches
        <5>3. CASE r.does = "closeTarget"
          <6>1. t.ops[i].stage = "closeTarget" /\ r.h # 0 /\ r.h = t.ops[i].target
            BY <1>8, <5>3 DEF Matches
          <6> QED  BY <1>1, <4>1, <5>1, <6>1 DEF Owned
        <5> QED  BY <4>3, <5>2, <5>3
      <4> QED  BY <4>1, <4>2, <4>3
    <3> QED  BY <3>2
  <2>2. ASSUME NEW j \in DOMAIN t.ops, t.ops[j].target # 0, t.ops[j].stage # "done", j = i => t.ops[j].stage # "closeTarget"
        PROVE  hs[t.ops[j].target] = j /\ t.ops[j].target # t.ops[j].source
    <3>0. t.ops[j].target \in Numbers
      <4>1. t.ops[j] \in ChainOps
        BY <1>2
      <4> QED  BY <4>1 DEF ChainOps
    <3>1. t.handles[t.ops[j].target] = j /\ t.ops[j].target \in Provider!Handles /\ t.ops[j].target # t.ops[j].source
      BY <1>1, <2>2, <3>0 DEF Owned, Numbers
    <3>2. ASSUME hs[t.ops[j].target] # j PROVE FALSE
      <4>1. t.ops[j].target = r.h /\ r.does \in {"closeSource", "closeTarget", "close"} /\ j = OwnerOf(t.ops, r)
        BY <1>5, <1>6, <3>1, <3>2 DEF Provider!Closes
      <4>2. CASE r.does = "close"
        <5>1. t.ops[j].does \in {"open", "create"}
          BY <1>1, <1>5, <1>7, <1>9, <4>1, <4>2 DEF InTurn, OwnerOf
        <5> QED  BY <1>1, <2>2, <5>1 DEF AllLocal, Local, Holding
      <4>3. CASE r.does \in {"closeSource", "closeTarget"}
        <5>1. j = i
          BY <1>7, <1>9, <4>1, <4>3 DEF OwnerOf
        <5>2. CASE r.does = "closeSource"
          BY <1>8, <4>1, <5>1, <5>2 DEF Matches
        <5>3. CASE r.does = "closeTarget"
          BY <1>7, <2>2, <5>1, <5>3
        <5> QED  BY <4>3, <5>2, <5>3
      <4> QED  BY <4>1, <4>2, <4>3
    <3> QED  BY <3>1, <3>2
  <2> QED  BY <2>1, <2>2 DEF Owned
<1>13. WireOwned(t.ops, w, hs)
  <2>1. ASSUME NEW k \in DOMAIN w, w[k].h # 0
        PROVE  /\ hs[w[k].h] = OwnerOf(t.ops, w[k])
               /\ \A j \in DOMAIN w : (j < k /\ w[j].h = w[k].h) => w[j].does \notin Provider!Closes
    <3>1. /\ t.handles[w[k].h] = OwnerOf(t.ops, w[k])
          /\ \A j \in DOMAIN t.wire : (j < k + 1 /\ t.wire[j].h = w[k].h) => t.wire[j].does \notin Provider!Closes
      BY <1>1, <1>3, <2>1 DEF WireOwned
    <3>2. OwnerOf(t.ops, w[k]) # 0 /\ w[k].h \in Provider!Handles
      <4>1. w[k].of \in DOMAIN t.ops /\ w[k] \in Sent
        BY <1>1, <1>2, <1>3 DEF WireFits
      <4> QED  BY <1>5, <2>1, <4>1 DEF OwnerOf, Sent, Numbers
    <3>3. hs[w[k].h] = t.handles[w[k].h]
      BY <1>3, <1>6, <3>1, <3>2
    <3>4. ASSUME NEW j \in DOMAIN w, j < k, w[j].h = w[k].h PROVE w[j].does \notin Provider!Closes
      <4>1. j + 1 \in DOMAIN t.wire /\ j + 1 < k + 1 /\ w[j] = t.wire[j + 1]
        BY <1>3, <3>4
      <4> QED  BY <3>1, <3>4, <4>1
    <3> QED  BY <3>1, <3>3, <3>4
  <2> QED  BY <2>1 DEF WireOwned
<1>14. WireFits(t.ops, w, t.openedFiles)
  BY <1>1, <1>3 DEF WireFits
<1>15. WireOrder(w)
  <2>1. ASSUME NEW k \in DOMAIN w, NEW j \in DOMAIN w, j < k PROVE Precedes(w[j], w[k])
    <3>1. j + 1 \in DOMAIN t.wire /\ k + 1 \in DOMAIN t.wire /\ j + 1 < k + 1 /\ w[j] = t.wire[j + 1] /\ w[k] = t.wire[k + 1]
      BY <1>3, <2>1
    <3> QED  BY <1>1, <3>1 DEF WireOrder
  <2> QED  BY <2>1 DEF WireOrder
<1>16. AllParents(t.ops, {i})
  BY <1>1 DEF AllParents, Parents
<1>17. OpenedWell(t.ops, hs, t.openedFiles, {i})
  <2>1. ASSUME NEW o \in t.openedFiles
        PROVE  \/ hs[o.handle] = o.request
               \/ \E j \in DOMAIN t.ops : t.ops[j].on = o.request /\ t.ops[j].does = "close" /\ (j = i \/ t.ops[j].stage = "done")
    <3>1. CASE t.handles[o.handle] = o.request /\ hs[o.handle] # o.request
      <4>1. o.request \in DOMAIN t.ops /\ t.ops[o.request].does \in {"open", "create"} /\ o.handle \in Provider!Handles
        BY <1>1 DEF OpenedWell, FspStates, OpenedFiles
      <4>2. r.does \in {"closeSource", "closeTarget", "close"} /\ o.request = OwnerOf(t.ops, r)
        BY <1>5, <1>6, <3>1, <4>1 DEF Provider!Closes
      <4>3. CASE r.does = "close"
        BY <1>5, <1>7, <1>9, <4>2, <4>3 DEF OwnerOf
      <4>4. CASE r.does \in {"closeSource", "closeTarget"}
        BY <1>7, <1>9, <4>1, <4>2, <4>4 DEF OwnerOf, Directories
      <4> QED  BY <4>2, <4>3, <4>4
    <3>2. CASE t.handles[o.handle] # o.request
      BY <1>1, <3>2 DEF OpenedWell
    <3> QED  BY <3>1, <3>2
  <2> QED  BY <1>1, <2>1 DEF OpenedWell
<1>18. Accounted(t.ops, w, hs, t.openedFiles, {i})
  <2>1. ASSUME NEW h \in Provider!Handles, hs[h] # 0
        PROVE  /\ hs[h] \in DOMAIN t.ops
               /\ \/ hs[h] = i
                  \/ t.ops[hs[h]].source = h
                  \/ t.ops[hs[h]].target = h /\ t.ops[hs[h]].stage # "done"
                  \/ \E k \in DOMAIN w : w[k].of = hs[h] /\ w[k].does = "closeSource" /\ w[k].h = h
                  \/ [request |-> hs[h], handle |-> h] \in t.openedFiles
    <3>1. CASE hs[h] = i
      BY <1>5, <3>1
    <3>2. CASE hs[h] # i
      <4>1. hs[h] = t.handles[h]
        BY <1>6, <1>9, <2>1, <3>2 DEF Handled, r
      <4>2. /\ hs[h] \in DOMAIN t.ops
            /\ \/ t.ops[hs[h]].source = h
               \/ t.ops[hs[h]].target = h /\ t.ops[hs[h]].stage # "done"
               \/ \E k \in DOMAIN t.wire : t.wire[k].of = hs[h] /\ t.wire[k].does = "closeSource" /\ t.wire[k].h = h
               \/ [request |-> hs[h], handle |-> h] \in t.openedFiles
        BY <1>1, <2>1, <4>1 DEF Accounted
      <4>3. ASSUME NEW k \in DOMAIN t.wire, t.wire[k].of = hs[h], t.wire[k].does = "closeSource", t.wire[k].h = h
            PROVE  \E l \in DOMAIN w : w[l].of = hs[h] /\ w[l].does = "closeSource" /\ w[l].h = h
        BY <1>3, <1>9, <3>2, <4>3
      <4> QED  BY <4>2, <4>3
    <3> QED  BY <3>1, <3>2
  <2> QED  BY <2>1 DEF Accounted
<1>19. Orderly(u, {i})
  BY <1>1, <1>4, <1>10, <1>11, <1>12, <1>13, <1>14, <1>15, <1>16, <1>17, <1>18 DEF Orderly
<1> QED  BY <1>19 DEF u, w, r, i

-----------------------------------------------------------------------------
(* A file is opened for the Files app, and closed. *)
LEMMA OpenNew ==
  ASSUME NEW t, NEW i, NEW g \in Provider!Handles, Orderly(t, {i}), i \in DOMAIN t.ops,
         t.ops[i].does \in {"open", "create"}, t.handles[g] = i, \A o \in t.openedFiles : o.request # i
  PROVE  Orderly([t EXCEPT !.openedFiles = t.openedFiles \cup {[request |-> i, handle |-> g]}], {i})
<1> DEFINE e == [request |-> i, handle |-> g]
           opened == t.openedFiles \cup {e}
           u == [t EXCEPT !.openedFiles = opened]
<1>1. /\ t \in FspStates /\ AllLocal(t.ops, {i}) /\ AllWait(t.ops, t.wire, {i})
      /\ Owned(t.ops, t.handles, {i}) /\ WireOwned(t.ops, t.wire, t.handles)
      /\ WireFits(t.ops, t.wire, t.openedFiles) /\ WireOrder(t.wire)
      /\ AllParents(t.ops, {i}) /\ InTurn(t.ops)
      /\ OpenedWell(t.ops, t.handles, t.openedFiles, {i}) /\ Accounted(t.ops, t.wire, t.handles, t.openedFiles, {i})
  BY DEF Orderly
<1>2. i \in Nat
  BY <1>1 DEF FspStates
<1>3. e.request = i /\ e.handle = g /\ e \in OpenedFiles /\ \A o \in opened : o \in t.openedFiles \/ o = e
  BY <1>2 DEF OpenedFiles
<1>4. u \in FspStates /\ u.ops = t.ops /\ u.wire = t.wire /\ u.handles = t.handles /\ u.openedFiles = opened
  BY <1>1, <1>3 DEF FspStates
<1>5. \A o \in t.openedFiles : o \in opened
  OBVIOUS
<1> HIDE DEF opened, u, e
<1>6. WireFits(t.ops, t.wire, opened)
  BY <1>1, <1>5 DEF WireFits, Matches
<1>7. OpenedWell(t.ops, t.handles, opened, {i})
  BY <1>1, <1>3 DEF OpenedWell
<1>8. Accounted(t.ops, t.wire, t.handles, opened, {i})
  BY <1>1, <1>5 DEF Accounted
<1>9. Orderly(u, {i})
  BY <1>1, <1>4, <1>6, <1>7, <1>8 DEF Orderly
<1> QED  BY <1>9 DEF u, opened, e

(* A file whose handle is closed is none of those opened.                   *)
LEMMA CloseOld ==
  ASSUME NEW t, NEW i, Orderly(t, {i}), i \in DOMAIN t.ops, t.ops[i].does = "close", t.ops[i].on # 0,
         \A k \in DOMAIN t.wire : t.wire[k].of # i,
         NEW q \in t.openedFiles, q.request = t.ops[i].on, t.handles[q.handle] # q.request
  PROVE  Orderly([t EXCEPT !.openedFiles = {o \in t.openedFiles : o.request # t.ops[i].on}], {i})
<1> DEFINE opened == {o \in t.openedFiles : o.request # t.ops[i].on}
           u == [t EXCEPT !.openedFiles = opened]
<1>1. /\ t \in FspStates /\ AllLocal(t.ops, {i}) /\ AllWait(t.ops, t.wire, {i})
      /\ Owned(t.ops, t.handles, {i}) /\ WireOwned(t.ops, t.wire, t.handles)
      /\ WireFits(t.ops, t.wire, t.openedFiles) /\ WireOrder(t.wire)
      /\ AllParents(t.ops, {i}) /\ InTurn(t.ops)
      /\ OpenedWell(t.ops, t.handles, t.openedFiles, {i}) /\ Accounted(t.ops, t.wire, t.handles, t.openedFiles, {i})
  BY DEF Orderly
<1>2. u \in FspStates /\ u.ops = t.ops /\ u.wire = t.wire /\ u.handles = t.handles /\ u.openedFiles = opened
  BY <1>1 DEF FspStates
<1>3. \A o : o \in opened <=> (o \in t.openedFiles /\ o.request # t.ops[i].on)
  OBVIOUS
<1> HIDE DEF opened, u
<1>4. WireFits(t.ops, t.wire, opened)
  <2>1. ASSUME NEW k \in DOMAIN t.wire
        PROVE  t.wire[k].of \in DOMAIN t.ops /\ Matches(t.wire[k], t.ops[t.wire[k].of], opened)
    <3> DEFINE r == t.wire[k]
               j == r.of
    <3>1. j \in DOMAIN t.ops /\ Matches(r, t.ops[j], t.openedFiles) /\ j # i
      BY <1>1 DEF WireFits
    <3>2. CASE r.does # "close"
      BY <3>1, <3>2 DEF Matches
    <3>3. CASE r.does = "close"
      <4>1. t.ops[j].does = "close" /\ t.ops[j].on # 0 /\ t.ops[j].stage = "close"
        BY <1>1, <3>1, <3>3 DEF AllLocal, Local, StageFits, Born, Provider!OfFiles, Matches
      <4>2. t.ops[j].on # t.ops[i].on
        <5>1. i \in Nat /\ j \in Nat /\ (j < i => j \in 1..(i - 1)) /\ (i < j => i \in 1..(j - 1)) /\ (i < j \/ j < i)
          BY <1>1, <3>1 DEF FspStates
        <5> QED  BY <1>1, <3>1, <4>1, <5>1 DEF InTurn
      <4>3. [request |-> t.ops[j].on, handle |-> r.h] \in opened
        BY <1>3, <3>1, <3>3, <4>2 DEF Matches
      <4> QED  BY <3>1, <3>3, <4>3 DEF Matches
    <3> QED  BY <3>1, <3>2, <3>3
  <2> QED  BY <2>1 DEF WireFits
<1>5. OpenedWell(t.ops, t.handles, opened, {i})
  BY <1>1, <1>3 DEF OpenedWell
<1>6. Accounted(t.ops, t.wire, t.handles, opened, {i})
  <2>1. ASSUME NEW h \in Provider!Handles, t.handles[h] = t.ops[i].on PROVE FALSE
    <3> DEFINE g == t.ops[i].on
    <3>1. g \in DOMAIN t.ops /\ t.ops[g].does \in {"open", "create"}
      BY <1>1 DEF InTurn
    <3>2. g # i /\ Local(t.ops[g])
      BY <1>1, <3>1 DEF AllLocal
    <3>3. t.ops[g].source = 0 /\ t.ops[g].target = 0 /\ t.ops[g].stage # "closeSource"
      BY <3>1, <3>2 DEF Local, StageFits, Holding, Directories
    <3>4. ASSUME NEW k \in DOMAIN t.wire, t.wire[k].of = g, t.wire[k].does = "closeSource" PROVE FALSE
      BY <1>1, <3>3, <3>4 DEF WireFits, Matches
    <3>5. h # 0
      BY DEF Provider!Handles
    <3>6. [request |-> g, handle |-> h] \in t.openedFiles
      BY <1>1, <2>1, <3>2, <3>3, <3>4, <3>5 DEF Accounted
    <3>7. [request |-> g, handle |-> h] = q
      BY <1>1, <3>6 DEF OpenedWell
    <3> QED  BY <2>1, <3>7
  <2> QED  BY <1>1, <1>3, <2>1 DEF Accounted
<1>7. Orderly(u, {i})
  BY <1>1, <1>2, <1>4, <1>5, <1>6 DEF Orderly
<1> QED  BY <1>7 DEF u, opened

-----------------------------------------------------------------------------
(* The operation's next request. *)
Put(t, i, o) == [t EXCEPT !.ops = [t.ops EXCEPT ![i] = o]]
More(t, n) == [t EXCEPT !.wire = t.wire \o n]
Request(o, i, h) == [does |-> o.stage, of |-> i, h |-> h, chunk |-> 0]

IsPut(u, t, i, o) ==
  /\ u \in FspStates /\ u.wire = t.wire /\ u.handles = t.handles /\ u.openedFiles = t.openedFiles
  /\ u.ops = [t.ops EXCEPT ![i] = o] /\ u.mounted = t.mounted
  /\ DOMAIN u.ops = DOMAIN t.ops /\ u.ops[i] = o
  /\ \A j \in DOMAIN t.ops : j # i => u.ops[j] = t.ops[j]
IsMore(u, t, n) ==
  /\ u \in FspStates /\ u.wire = t.wire \o n /\ u.handles = t.handles /\ u.openedFiles = t.openedFiles
  /\ u.ops = t.ops /\ u.mounted = t.mounted

(* The fields of a state in which one operation is put.                     *)
LEMMA PutFields ==
  ASSUME NEW t, NEW i, NEW o, t \in FspStates, i \in DOMAIN t.ops, o \in ChainOps
  PROVE  IsPut(Put(t, i, o), t, i, o)
<1>1. t.ops \in Seq(ChainOps)
  BY DEF FspStates
<1> DEFINE p == [t.ops EXCEPT ![i] = o]
<1>2. p \in Seq(ChainOps) /\ DOMAIN p = DOMAIN t.ops /\ p[i] = o /\ \A j \in DOMAIN t.ops : j # i => p[j] = t.ops[j]
  BY <1>1
<1> HIDE DEF p
<1>3. Put(t, i, o) = [t EXCEPT !.ops = p]
  BY DEF Put, p
<1>4. /\ [t EXCEPT !.ops = p] \in FspStates /\ [t EXCEPT !.ops = p].wire = t.wire /\ [t EXCEPT !.ops = p].ops = p
      /\ [t EXCEPT !.ops = p].handles = t.handles /\ [t EXCEPT !.ops = p].openedFiles = t.openedFiles
      /\ [t EXCEPT !.ops = p].mounted = t.mounted
  BY <1>2 DEF FspStates
<1> QED  BY <1>2, <1>3, <1>4 DEF p, IsPut

(* The fields of a state in which more is sent.                             *)
LEMMA MoreFields ==
  ASSUME NEW t, NEW n, t \in FspStates, n \in Seq(Sent)
  PROVE  IsMore(More(t, n), t, n)
<1> DEFINE w == t.wire \o n
<1>1. w \in Seq(Sent)
  <2>1. t.wire \in Seq(Sent)
    BY DEF FspStates
  <2> QED  BY <2>1, ConcatProperties
<1> HIDE DEF w
<1>2. More(t, n) = [t EXCEPT !.wire = w]
  BY DEF More, w
<1>3. /\ [t EXCEPT !.wire = w] \in FspStates /\ [t EXCEPT !.wire = w].wire = w /\ [t EXCEPT !.wire = w].ops = t.ops
      /\ [t EXCEPT !.wire = w].handles = t.handles /\ [t EXCEPT !.wire = w].openedFiles = t.openedFiles
      /\ [t EXCEPT !.wire = w].mounted = t.mounted
  BY <1>1 DEF FspStates
<1> QED  BY <1>2, <1>3 DEF w, IsMore

(* The operation i in hand asks, as o, on the handle h. *)
Asking(t, i, o, h) ==
  /\ i \in DOMAIN t.ops /\ t.ops[i].stage # "done" /\ o.stage \in OneRequest /\ h \in Numbers
  /\ Local(o) /\ o.parent = t.ops[i].parent /\ o.on = t.ops[i].on
  /\ o.does = t.ops[i].does \/ {o.does, t.ops[i].does} \subseteq Chains \ {"open", "create", "close"}
  /\ o.source # 0 => t.handles[o.source] = i
  /\ o.target # 0 => t.handles[o.target] = i /\ o.target # o.source
  /\ \A k \in DOMAIN t.wire : t.wire[k].of = i =>
       Matches(t.wire[k], o, t.openedFiles) /\ Precedes(t.wire[k], Request(o, i, h))
  /\ Matches(Request(o, i, h), o, t.openedFiles)
  /\ h # 0 => /\ t.handles[h] = (IF o.on = 0 THEN i ELSE o.on)
              /\ \A j \in DOMAIN t.wire : t.wire[j].h = h => t.wire[j].does \notin Provider!Closes
  /\ \A j \in DOMAIN t.ops : t.ops[j].parent = i =>
       /\ o.does \in Directories /\ o.stage \in {"closeSource", "rmdir"}
       /\ ~o.failed => t.ops[j].stage = "done" /\ ~t.ops[j].failed
  /\ \A q \in t.openedFiles : q.request # i
  /\ o.does = "close" => \A q \in t.openedFiles : q.request = o.on => t.handles[q.handle] = q.request
  /\ \A g \in Provider!Handles : t.handles[g] = i =>
       o.source = g \/ o.target = g \/ (o.stage = "closeSource" /\ h = g)

(* An operation that may ask goes on to its next request.                   *)
LEMMA AskKeeps ==
  ASSUME NEW t, NEW i, NEW o \in ChainOps, NEW h, Orderly(t, {i}), Asking(t, i, o, h)
  PROVE  Orderly(More(Put(t, i, o), <<Request(o, i, h)>>), {})
<1> DEFINE r == Request(o, i, h)
           n == <<r>>
           p == Put(t, i, o)
           u == More(p, n)
<1>1. /\ t \in FspStates /\ AllParents(t.ops, {i}) /\ WireFits(t.ops, t.wire, t.openedFiles)
  BY DEF Orderly
<1>2. i \in DOMAIN t.ops /\ i \in Nat /\ i # 0
  BY <1>1 DEF Asking, FspStates
<1>3. r.does = o.stage /\ r.of = i /\ r.h = h /\ r.chunk = 0 /\ r \in Sent
  BY <1>2 DEF Request, Sent, Asking
<1> HIDE DEF r
<1>4. n \in Seq(Sent) /\ Len(n) = 1 /\ n[1] = r /\ DOMAIN n = {1}
  BY <1>3
<1>5. Changeable(t, {i}, i, o)
  <2>1. \A k \in DOMAIN t.wire : t.wire[k].of = i => Matches(t.wire[k], o, t.openedFiles)
    BY DEF Asking
  <2>2. o.parent # 0 /\ o.parent \notin {i} =>
          /\ t.ops[o.parent].stage = "children" => o.stage # "done"
          /\ t.ops[o.parent].stage # "children" /\ ~t.ops[o.parent].failed => o.stage = "done" /\ ~o.failed
    BY <1>1, <1>2 DEF AllParents, Parents, Asking, OneRequest
  <2>3. o.stage # "done" /\ t.ops[i].stage # "done"
    BY DEF Asking, OneRequest
  <2>4. (\E j \in DOMAIN t.ops : t.ops[j].parent = i) =>
          o.does \in Directories /\ o.stage \in {"children", "closeSource", "rmdir", "done"}
    BY DEF Asking
  <2>5. /\ o.parent = t.ops[i].parent /\ o.on = t.ops[i].on
        /\ o.source # 0 => t.handles[o.source] = i
        /\ o.target # 0 /\ o.stage \notin {"done", "closeTarget"} => t.handles[o.target] = i /\ o.target # o.source
        /\ o.does = t.ops[i].does \/ {o.does, t.ops[i].does} \subseteq Chains \ {"open", "create", "close"}
    BY DEF Asking
  <2> QED  BY <2>1, <2>2, <2>3, <2>4, <2>5 DEF Changeable
<1>6. Orderly(p, {i})
  <2>1. i \in {i}
    OBVIOUS
  <2> QED  BY <1>2, <1>5, <2>1, Change DEF Put
<1>7. /\ p \in FspStates /\ p.wire = t.wire /\ p.handles = t.handles /\ p.openedFiles = t.openedFiles
      /\ DOMAIN p.ops = DOMAIN t.ops /\ p.ops[i] = o /\ \A j \in DOMAIN t.ops : j # i => p.ops[j] = t.ops[j]
  <2>1. t \in FspStates /\ i \in DOMAIN t.ops
    BY <1>1, <1>2
  <2>2. IsPut(p, t, i, o)
    BY <2>1, PutFields
  <2> QED  BY <2>2 DEF IsPut
<1> HIDE DEF p, n
<1>8. Sendable(p.ops, p.wire, n, p.handles, p.openedFiles, {i})
  <2>1. \A k \in DOMAIN n : k = 1 /\ n[k] = r
    BY <1>4
  <2>2. Matches(r, o, t.openedFiles) /\ \A j \in DOMAIN t.wire : Precedes(t.wire[j], r)
    BY <1>3 DEF Asking, r, Precedes
  <2>3. r.h # 0 => t.handles[r.h] = OwnerOf(p.ops, r)
    BY <1>3, <1>7 DEF Asking, OwnerOf
  <2>4. \A j \in DOMAIN t.wire : (r.h # 0 /\ t.wire[j].h = r.h) => t.wire[j].does \notin Provider!Closes
    BY <1>3 DEF Asking
  <2>5. \A k, j \in DOMAIN n : ~(j < k)
    BY <2>1
  <2> QED  BY <1>2, <1>3, <1>7, <2>1, <2>2, <2>3, <2>4, <2>5 DEF Sendable
<1>9. Orderly(u, {i})
  BY <1>4, <1>6, <1>8, Post DEF More
<1>10. /\ u.wire = p.wire \o n /\ u.handles = t.handles /\ u.openedFiles = t.openedFiles /\ u.ops = p.ops
  <2>1. IsMore(u, p, n)
    BY <1>4, <1>7, MoreFields
  <2> QED  BY <1>7, <2>1 DEF IsMore
<1>11. 1 + Len(t.wire) \in DOMAIN u.wire /\ u.wire[1 + Len(t.wire)] = r
  <2>1. t.wire \in Seq(Sent) /\ 1 \in DOMAIN n
    BY <1>1, <1>4 DEF FspStates
  <2> QED  BY <1>4, <1>7, <1>10, <2>1, Joined
<1> HIDE DEF u
<1>12. Settled(u, i)
  <2>1. Waits(u.ops, u.wire, i)
    <3>1. OnWire(u.wire, i, o.stage, 0)
      BY <1>3, <1>11 DEF OnWire
    <3> QED  BY <1>7, <1>10, <3>1 DEF Waits, Asking, OneRequest, Many
  <2>2. \A j \in DOMAIN u.ops : u.ops[j].parent = i =>
          /\ o.stage = "children" /\ u.ops[j].stage = "done" => ~u.ops[j].failed
          /\ o.stage # "children" /\ ~o.failed => u.ops[j].stage = "done" /\ ~u.ops[j].failed
    <3>1. o.stage # "children"
      BY DEF Asking, OneRequest
    <3>2. ASSUME NEW j \in DOMAIN t.ops, u.ops[j].parent = i PROVE ~o.failed => u.ops[j].stage = "done" /\ ~u.ops[j].failed
      <4>1. j # i
        <5>1. ASSUME j = i PROVE FALSE
          BY <1>1, <1>2, <1>7, <1>10, <3>2, <5>1 DEF AllParents, Parents, Asking
        <5> QED  BY <5>1
      <4> QED  BY <1>7, <1>10, <3>2, <4>1 DEF Asking
    <3> QED  BY <1>7, <1>10, <3>1, <3>2
  <2>3. \A g \in Provider!Handles : u.handles[g] = i =>
          \/ o.source = g
          \/ o.target = g /\ o.stage # "done"
          \/ \E k \in DOMAIN u.wire : u.wire[k].of = i /\ u.wire[k].does = "closeSource" /\ u.wire[k].h = g
          \/ [request |-> i, handle |-> g] \in u.openedFiles
    <3>1. o.stage # "done"
      BY DEF Asking, OneRequest
    <3> QED  BY <1>3, <1>10, <1>11, <3>1 DEF Asking
  <2>4. Local(o) /\ (o.target # 0 => t.handles[o.target] = i /\ o.target # o.source)
    BY DEF Asking
  <2>5. /\ \A q \in u.openedFiles : q.request # i
        /\ o.does = "close" => \A q \in u.openedFiles : q.request = o.on => u.handles[q.handle] = q.request
    BY <1>10 DEF Asking
  <2> QED  BY <1>2, <1>7, <1>10, <2>1, <2>2, <2>3, <2>4, <2>5 DEF Settled
<1>13. Orderly(u, {i} \ {i})
  BY <1>9, <1>12, PutDown
<1>14. {i} \ {i} = {}
  OBVIOUS
<1> QED  BY <1>13, <1>14 DEF u, p, n, r

-----------------------------------------------------------------------------
(* The model's steps, of such changes. *)
LEMMA AppendIsMore ==
  ASSUME NEW S, NEW w \in Seq(S), NEW r \in S
  PROVE  Append(w, r) = w \o <<r>>
<1> DEFINE n == <<r>>
           a == Append(w, r)
           b == w \o n
<1>1. n \in Seq(S) /\ Len(n) = 1 /\ n[1] = r
  OBVIOUS
<1>2. a \in Seq(S) /\ Len(a) = Len(w) + 1 /\ \A k \in 1..Len(w) : a[k] = w[k] /\ a[Len(w) + 1] = r
  OBVIOUS
<1>3. Len(w) \in Nat
  OBVIOUS
<1>4. a[Len(w) + 1] = r
  OBVIOUS
<1> HIDE DEF n
<1>5. b \in Seq(S) /\ Len(b) = Len(w) + 1 /\ \A k \in 1..(Len(w) + 1) : b[k] = IF k <= Len(w) THEN w[k] ELSE n[k - Len(w)]
  <2>1. n \in Seq(S) /\ w \in Seq(S)
    BY <1>1
  <2>2. /\ w \o n \in Seq(S) /\ Len(w \o n) = Len(w) + Len(n)
        /\ \A k \in 1..(Len(w) + Len(n)) : (w \o n)[k] = IF k <= Len(w) THEN w[k] ELSE n[k - Len(w)]
    BY <2>1, ConcatProperties
  <2>3. Len(n) = 1
    BY <1>1
  <2> HIDE DEF b
  <2>4. b = w \o n
    BY DEF b
  <2> QED  BY <2>2, <2>3, <2>4
<1> HIDE DEF a, b
<1>6. \A k \in 1..Len(a) : a[k] = b[k]
  BY <1>1, <1>2, <1>3, <1>4, <1>5
<1>7. a = b
  BY <1>2, <1>5, <1>6, SameElements
<1> QED  BY <1>7 DEF a, b, n

(* An operation that is put twice is put once.                              *)
LEMMA PutPut ==
  ASSUME NEW t \in FspStates, NEW i \in DOMAIN t.ops, NEW o, NEW q
  PROVE  Put(Put(t, i, q), i, o) = Put(t, i, o)
<1> DEFINE p == [t.ops EXCEPT ![i] = q]
<1>1. [p EXCEPT ![i] = o] = [t.ops EXCEPT ![i] = o]
  <2>1. t.ops \in Seq(ChainOps)
    BY DEF FspStates
  <2> QED  BY <2>1
<1> DEFINE r == [t.ops EXCEPT ![i] = o]
<1> HIDE DEF p, r
<1>2. [t EXCEPT !.ops = p].ops = p /\ [[t EXCEPT !.ops = p] EXCEPT !.ops = r] = [t EXCEPT !.ops = r]
  BY DEF FspStates
<1> QED  BY <1>1, <1>2 DEF Put, p, r

(* Ask puts the operation at its stage and sends the request.               *)
LEMMA AskIs ==
  ASSUME NEW t \in FspStates, NEW i \in DOMAIN t.ops, NEW name, NEW h, NEW r \in Sent,
         r = [does |-> name, of |-> i, h |-> h, chunk |-> 0]
  PROVE  Provider!Ask(t, i, name, h) = More(Put(t, i, [t.ops[i] EXCEPT !.stage = name]), <<r>>)
<1> DEFINE o == [t.ops[i] EXCEPT !.stage = name]
           p == [t.ops EXCEPT ![i] = o]
           u == [t EXCEPT !.ops = p]
<1>1. [t EXCEPT !.ops[i].stage = name] = u
  OBVIOUS
<1>2. u.wire = t.wire
  BY DEF FspStates
<1>3. Provider!Ask(t, i, name, h) = Provider!Send(u, i, name, h, 0)
  BY <1>1 DEF Provider!Ask
<1>4. u = Put(t, i, o)
  BY DEF Put
<1> HIDE DEF u
<1>5. Provider!Send(u, i, name, h, 0) = [u EXCEPT !.wire = Append(u.wire, r)]
  BY DEF Provider!Send
<1>6. Append(u.wire, r) = u.wire \o <<r>>
  <2>1. t.wire \in Seq(Sent)
    BY DEF FspStates
  <2> QED  BY <1>2, <2>1, AppendIsMore
<1>7. [u EXCEPT !.wire = Append(u.wire, r)] = More(u, <<r>>)
  BY <1>6 DEF More
<1> QED  BY <1>3, <1>4, <1>5, <1>7

(* A change of one field of an operation. *)
LEMMA FieldsOf ==
  ASSUME NEW o \in ChainOps
  PROVE  /\ \A x \in Stages : LET q == [o EXCEPT !.stage = x] IN
              /\ q \in ChainOps /\ q.stage = x /\ q.does = o.does /\ q.size = o.size /\ q.parent = o.parent
              /\ q.source = o.source /\ q.target = o.target /\ q.left = o.left /\ q.entries = o.entries
              /\ q.failed = o.failed /\ q.answers = o.answers /\ q.on = o.on /\ q.content = o.content
         /\ \A x \in Numbers : LET q == [o EXCEPT !.source = x] IN
              /\ q \in ChainOps /\ q.stage = o.stage /\ q.does = o.does /\ q.size = o.size /\ q.parent = o.parent
              /\ q.source = x /\ q.target = o.target /\ q.left = o.left /\ q.entries = o.entries
              /\ q.failed = o.failed /\ q.answers = o.answers /\ q.on = o.on /\ q.content = o.content
         /\ \A x \in Numbers : LET q == [o EXCEPT !.target = x] IN
              /\ q \in ChainOps /\ q.stage = o.stage /\ q.does = o.does /\ q.size = o.size /\ q.parent = o.parent
              /\ q.source = o.source /\ q.target = x /\ q.left = o.left /\ q.entries = o.entries
              /\ q.failed = o.failed /\ q.answers = o.answers /\ q.on = o.on /\ q.content = o.content
         /\ \A x \in Nat : LET q == [o EXCEPT !.left = x] IN
              /\ q \in ChainOps /\ q.stage = o.stage /\ q.does = o.does /\ q.size = o.size /\ q.parent = o.parent
              /\ q.source = o.source /\ q.target = o.target /\ q.left = x /\ q.entries = o.entries
              /\ q.failed = o.failed /\ q.answers = o.answers /\ q.on = o.on /\ q.content = o.content
         /\ \A x \in BOOLEAN : LET q == [o EXCEPT !.failed = x] IN
              /\ q \in ChainOps /\ q.stage = o.stage /\ q.does = o.does /\ q.size = o.size /\ q.parent = o.parent
              /\ q.source = o.source /\ q.target = o.target /\ q.left = o.left /\ q.entries = o.entries
              /\ q.failed = x /\ q.answers = o.answers /\ q.on = o.on /\ q.content = o.content
         /\ \A x \in Nat : LET q == [o EXCEPT !.answers = x] IN
              /\ q \in ChainOps /\ q.stage = o.stage /\ q.does = o.does /\ q.size = o.size /\ q.parent = o.parent
              /\ q.source = o.source /\ q.target = o.target /\ q.left = o.left /\ q.entries = o.entries
              /\ q.failed = o.failed /\ q.answers = x /\ q.on = o.on /\ q.content = o.content
         /\ \A x \in Seq(Nat) : LET q == [o EXCEPT !.content = x] IN
              /\ q \in ChainOps /\ q.stage = o.stage /\ q.does = o.does /\ q.size = o.size /\ q.parent = o.parent
              /\ q.source = o.source /\ q.target = o.target /\ q.left = o.left /\ q.entries = o.entries
              /\ q.failed = o.failed /\ q.answers = o.answers /\ q.on = o.on /\ q.content = x
         /\ \A x \in Seq(EntryKinds) : LET q == [o EXCEPT !.entries = x] IN
              /\ q \in ChainOps /\ q.stage = o.stage /\ q.does = o.does /\ q.size = o.size /\ q.parent = o.parent
              /\ q.source = o.source /\ q.target = o.target /\ q.left = o.left /\ q.entries = x
              /\ q.failed = o.failed /\ q.answers = o.answers /\ q.on = o.on /\ q.content = o.content
<1>1. \A x \in BOOLEAN : LET q == [o EXCEPT !.failed = x] IN
              /\ q \in ChainOps /\ q.stage = o.stage /\ q.does = o.does /\ q.size = o.size /\ q.parent = o.parent
              /\ q.source = o.source /\ q.target = o.target /\ q.left = o.left /\ q.entries = o.entries
              /\ q.failed = x /\ q.answers = o.answers /\ q.on = o.on /\ q.content = o.content
  BY DEF ChainOps
<1> QED  BY <1>1 DEF ChainOps

(* The types of an operation, and where its parent is.                      *)
LEMMA OpOf ==
  ASSUME NEW t, NEW i, NEW I, Orderly(t, I), i \in DOMAIN t.ops
  PROVE  /\ t \in FspStates /\ t.ops[i] \in ChainOps /\ i \in Nat /\ i # 0 /\ t.ops \in Seq(ChainOps) /\ t.wire \in Seq(Sent)
         /\ t.ops[i].source \in Numbers /\ t.ops[i].target \in Numbers /\ t.ops[i].parent # i
         /\ Parents(t.ops, i, I)
<1>1. t \in FspStates /\ AllParents(t.ops, I)
  BY DEF Orderly
<1>2. t.ops \in Seq(ChainOps) /\ t.wire \in Seq(Sent)
  BY <1>1 DEF FspStates
<1>3. t.ops[i] \in ChainOps /\ i \in Nat /\ i # 0
  BY <1>2
<1>4. Parents(t.ops, i, I)
  BY <1>1 DEF AllParents
<1> QED  BY <1>1, <1>2, <1>3, <1>4 DEF ChainOps, Parents

(* Ask keeps the order.                                                     *)
LEMMA AskHere ==
  ASSUME NEW t, NEW i, NEW name \in OneRequest, NEW h, NEW o, o = [t.ops[i] EXCEPT !.stage = name],
         Orderly(t, {i}), Asking(t, i, o, h)
  PROVE  Orderly(Provider!Ask(t, i, name, h), {})
<1>1. t \in FspStates /\ i \in DOMAIN t.ops /\ t.ops \in Seq(ChainOps) /\ h \in Numbers /\ i \in Nat
  <2>1. i \in DOMAIN t.ops /\ h \in Numbers
    BY DEF Asking
  <2> QED  BY <2>1, OpOf
<1>2. t.ops[i] \in ChainOps
  BY <1>1
<1>3. o \in ChainOps /\ o.stage = name
  BY <1>2 DEF ChainOps, Stages
<1> DEFINE r == [does |-> name, of |-> i, h |-> h, chunk |-> 0]
<1>4. r \in Sent
  BY <1>1 DEF Sent
<1>5. r = Request(o, i, h)
  BY <1>3 DEF Request
<1>6. Orderly(More(Put(t, i, o), <<Request(o, i, h)>>), {})
  BY <1>3, AskKeeps
<1> HIDE DEF r
<1>7. r = [does |-> name, of |-> i, h |-> h, chunk |-> 0]
  BY DEF r
<1>8. Provider!Ask(t, i, name, h) = More(Put(t, i, [t.ops[i] EXCEPT !.stage = name]), <<r>>)
  BY <1>1, <1>4, <1>7, AskIs
<1> QED  BY <1>5, <1>6, <1>8

(* The same when the operation has been changed before.                     *)
LEMMA AskOf ==
  ASSUME NEW t, NEW i, NEW name \in OneRequest, NEW h, NEW q \in ChainOps, NEW o, o = [q EXCEPT !.stage = name],
         Orderly(t, {i}), Asking(t, i, o, h)
  PROVE  Orderly(Provider!Ask(Put(t, i, q), i, name, h), {})
<1>1. t \in FspStates /\ i \in DOMAIN t.ops /\ h \in Numbers /\ i \in Nat
  <2>1. i \in DOMAIN t.ops /\ h \in Numbers
    BY DEF Asking
  <2> QED  BY <2>1, OpOf
<1>3. o \in ChainOps /\ o.stage = name
  BY DEF ChainOps, Stages
<1> DEFINE r == [does |-> name, of |-> i, h |-> h, chunk |-> 0]
<1>4. r \in Sent
  BY <1>1 DEF Sent
<1>5. r = Request(o, i, h)
  BY <1>3 DEF Request
<1>6. Orderly(More(Put(t, i, o), <<Request(o, i, h)>>), {})
  BY <1>3, AskKeeps
<1> HIDE DEF r
<1>7. r = [does |-> name, of |-> i, h |-> h, chunk |-> 0]
  BY DEF r
<1> DEFINE u == Put(t, i, q)
<1>8. u \in FspStates /\ i \in DOMAIN u.ops /\ u.ops[i] = q
  <2>1. IsPut(u, t, i, q)
    BY <1>1, PutFields
  <2> QED  BY <1>1, <2>1 DEF IsPut
<1>9. Put(u, i, o) = Put(t, i, o)
  BY <1>1, PutPut
<1> HIDE DEF u
<1>10. Provider!Ask(u, i, name, h) = More(Put(u, i, [u.ops[i] EXCEPT !.stage = name]), <<r>>)
  BY <1>4, <1>7, <1>8, AskIs
<1> QED  BY <1>5, <1>6, <1>8, <1>9, <1>10 DEF u

(* What an operation in hand is before its finally()s. *)
Free(t, i) ==
  /\ i \in DOMAIN t.ops /\ t.ops[i].stage # "done" /\ Born(t.ops[i])
  /\ t.ops[i].answers = IF t.ops[i].parent = 0 /\ t.ops[i].does = "list" THEN 1 ELSE 0
  /\ t.ops[i].does # "copyFile" => t.ops[i].content = <<>> /\ t.ops[i].target = 0
  /\ t.ops[i].does = "copyFile" /\ ~t.ops[i].failed => WholeOf(t.ops[i])
  /\ t.ops[i].source # 0 => /\ t.ops[i].does \in Directories \cup {"copyFile", "list", "truncate"}
                            /\ t.handles[t.ops[i].source] = i /\ t.ops[i].target # t.ops[i].source
                            /\ t.ops[i].stage # "closeTarget"
  /\ t.ops[i].target # 0 /\ t.ops[i].stage # "closeTarget" => t.handles[t.ops[i].target] = i
  /\ \A j \in DOMAIN t.ops : t.ops[j].parent = i /\ ~t.ops[i].failed => t.ops[j].stage = "done" /\ ~t.ops[j].failed
  /\ \A k \in DOMAIN t.wire : t.wire[k].of = i =>
       \/ /\ t.wire[k].does \in {"chunkRead", "chunkWrite"} /\ t.ops[i].failed /\ t.ops[i].target # 0
          /\ t.wire[k].does = "chunkRead" => t.ops[i].source # 0
          /\ t.wire[k].does = "chunkWrite" => t.wire[k].h = t.ops[i].target /\ t.ops[i].stage # "closeTarget"
       \/ t.wire[k].does = "write" /\ t.ops[i].does = "write"
  /\ \A q \in t.openedFiles : q.request = i => t.ops[i].does \in {"open", "create"}
  /\ \A h \in Provider!Handles : t.handles[h] = i =>
       \/ t.ops[i].source = h
       \/ t.ops[i].target = h /\ t.ops[i].stage # "closeTarget"
       \/ [request |-> i, handle |-> h] \in t.openedFiles

(* No close of a handle of its own is before a request of the operation. *)
LEMMA NoClose ==
  ASSUME NEW t, NEW i, NEW h, Orderly(t, {i}), Free(t, i), h # 0, t.handles[h] = i,
         t.ops[i].does \notin {"open", "create"}, NEW j \in DOMAIN t.wire, t.wire[j].h = h
  PROVE  t.wire[j].does \notin Provider!Closes
<1>1. /\ AllLocal(t.ops, {i}) /\ WireOwned(t.ops, t.wire, t.handles)
      /\ WireFits(t.ops, t.wire, t.openedFiles) /\ InTurn(t.ops)
  BY DEF Orderly
<1> DEFINE r == t.wire[j]
<1>2. r.of \in DOMAIN t.ops /\ i = OwnerOf(t.ops, r) /\ Matches(r, t.ops[r.of], t.openedFiles)
  BY <1>1 DEF WireOwned, WireFits
<1>3. CASE t.ops[r.of].on = 0
  BY <1>2, <1>3, Zenon DEF OwnerOf, Free, Provider!Closes
<1>4. CASE t.ops[r.of].on # 0
  <2>1. t.ops[i].does \in {"open", "create"}
    BY <1>1, <1>2, <1>4, Zenon DEF OwnerOf, InTurn
  <2> QED  BY <2>1
<1> QED  BY <1>3, <1>4

-----------------------------------------------------------------------------
(* What the chains are made of.                                           *)
(* Closing the source, or the directory, that an operation holds.           *)
LEMMA CloseSourceKeeps ==
  ASSUME NEW t, NEW i, Orderly(t, {i}), Free(t, i), t.ops[i].source # 0
  PROVE  Orderly(Provider!CloseSource(t, i), {})
<1> DEFINE op == t.ops[i]
           q == [op EXCEPT !.source = 0]
           o == [q EXCEPT !.stage = "closeSource"]
           h == op.source
<1>1. /\ t \in FspStates /\ op \in ChainOps /\ i \in Nat /\ i # 0 /\ h \in Numbers /\ h \in Provider!Handles
      /\ i \in DOMAIN t.ops /\ op.target \in Numbers
  BY OpOf DEF Free, Numbers
<1>2. Parents(t.ops, i, {i}) /\ op.parent # i
  BY <1>1, OpOf
<1> HIDE DEF op, h
<1>3. q \in ChainOps
  BY <1>1 DEF ChainOps, Numbers
<1>4. /\ o \in ChainOps /\ o.stage = "closeSource" /\ o.does = op.does /\ o.size = op.size /\ o.parent = op.parent
      /\ o.source = 0 /\ o.target = op.target /\ o.left = op.left /\ o.entries = op.entries
      /\ o.failed = op.failed /\ o.answers = op.answers /\ o.on = op.on /\ o.content = op.content
  BY <1>1 DEF ChainOps, Stages, OneRequest, Numbers
<1> HIDE DEF q, o
<1>5. /\ op.does \in Directories \cup {"copyFile", "list", "truncate"} /\ t.handles[h] = i /\ op.target # h /\ h # 0
      /\ op.stage # "closeTarget" /\ op.stage # "done"
  BY DEF Free, op, h
<1>6. op.on = 0
  BY <1>5 DEF Free, Born, op, Provider!OfFiles, Directories
<1>7. Local(o)
  <2>1. StageFits(o)
    BY <1>4, <1>5 DEF StageFits
  <2>2. Holding(o)
    BY <1>4 DEF Holding, Free, op, Many
  <2>3. Told(o)
    BY <1>4 DEF Told, Free, op
  <2>4. Copied(o)
    BY <1>4 DEF Copied, Free, op, WholeOf
  <2>5. Born(o)
    BY <1>4 DEF Born, Free, op
  <2> QED  BY <2>1, <2>2, <2>3, <2>4, <2>5 DEF Local
<1> DEFINE r == Request(o, i, h)
<1>8. r.does = "closeSource" /\ r.of = i /\ r.h = h
  BY <1>4 DEF Request
<1> HIDE DEF r
<1>9. ASSUME NEW k \in DOMAIN t.wire, t.wire[k].of = i
      PROVE  Matches(t.wire[k], o, t.openedFiles) /\ Precedes(t.wire[k], r)
  <2>1. /\ t.wire[k].does \in {"chunkRead", "chunkWrite"} /\ op.failed /\ op.target # 0
        /\ t.wire[k].does = "chunkWrite" => t.wire[k].h = op.target
    BY <1>5, <1>9 DEF Free, op, Directories
  <2> QED  BY <1>4, <1>8, <2>1 DEF Matches, Precedes
<1>10. Matches(r, o, t.openedFiles)
  BY <1>4, <1>5, <1>8 DEF Matches
<1>11. \A j \in DOMAIN t.wire : t.wire[j].h = h => t.wire[j].does \notin Provider!Closes
  BY <1>5, NoClose DEF op, Directories
<1>12. ASSUME NEW j \in DOMAIN t.ops, t.ops[j].parent = i
       PROVE  o.does \in Directories /\ (~o.failed => t.ops[j].stage = "done" /\ ~t.ops[j].failed)
  <2>1. Parents(t.ops, j, {i})
    BY <1>12, OpOf
  <2> QED  BY <1>1, <1>4, <1>12, <2>1 DEF Parents, Free, op
<1>13. \A g \in Provider!Handles : t.handles[g] = i => o.target = g \/ h = g
  BY <1>4, <1>5 DEF Free, op, h, Directories
<1>14. op.does \notin {"open", "create"} /\ op.does # "close"
  BY <1>5 DEF Directories
<1>15. /\ \A x \in t.openedFiles : x.request # i
       /\ o.target # 0 => t.handles[o.target] = i
  BY <1>4, <1>14, <1>5 DEF Free, op
<1>16. Asking(t, i, o, h)
  BY <1>1, <1>4, <1>5, <1>6, <1>7, <1>8, <1>9, <1>10, <1>11, <1>12, <1>13, <1>14, <1>15 DEF Asking, OneRequest, op, r
<1>17. Orderly(Provider!Ask(Put(t, i, q), i, "closeSource", h), {})
  BY <1>3, <1>16, AskOf DEF o, OneRequest
<1>18. Provider!CloseSource(t, i) = Provider!Ask(Put(t, i, q), i, "closeSource", h)
  BY DEF Provider!CloseSource, Put, q, op, h, Provider!Unopened
<1> QED  BY <1>17, <1>18

(* What an operation is whose promise is settled: ok or not. *)
Over(t, i, ok) ==
  /\ Free(t, i) /\ t.ops[i].source = 0 /\ ok \in BOOLEAN
  /\ \A k \in DOMAIN t.wire : t.wire[k].of = i => t.wire[k].does = "write" /\ t.ops[i].does = "write"
  /\ \A h \in Provider!Handles : t.handles[h] = i => [request |-> i, handle |-> h] \in t.openedFiles
  /\ ok => (t.ops[i].does = "copyFile" => WholeOf(t.ops[i]))
  /\ ok => \A j \in DOMAIN t.ops : (t.ops[j].parent = i => t.ops[j].stage = "done" /\ ~t.ops[j].failed)

Ended(op, ok) == [[op EXCEPT !.stage = "done"] EXCEPT !.failed = ~ok]
Paid(o) == [o EXCEPT !.answers = @ + 1]

(* The fields of an operation that has ended.                               *)
LEMMA EndedIs ==
  ASSUME NEW op \in ChainOps, NEW ok \in BOOLEAN
  PROVE  LET o == Ended(op, ok) IN
         /\ o \in ChainOps /\ o.stage = "done" /\ o.does = op.does /\ o.size = op.size /\ o.parent = op.parent
         /\ o.source = op.source /\ o.target = op.target /\ o.left = op.left /\ o.entries = op.entries
         /\ o.failed = ~ok /\ o.answers = op.answers /\ o.on = op.on /\ o.content = op.content
<1> DEFINE q == [op EXCEPT !.stage = "done"]
           no == ~ok
<1>1. no \in BOOLEAN
  OBVIOUS
<1>2. /\ q \in ChainOps /\ q.stage = "done" /\ q.does = op.does /\ q.size = op.size /\ q.parent = op.parent
      /\ q.source = op.source /\ q.target = op.target /\ q.left = op.left /\ q.entries = op.entries
      /\ q.failed = op.failed /\ q.answers = op.answers /\ q.on = op.on /\ q.content = op.content
  BY DEF ChainOps, Stages
<1> HIDE DEF q, no
<1> DEFINE o == [q EXCEPT !.failed = no]
<1>3. /\ o \in ChainOps /\ o.stage = q.stage /\ o.does = q.does /\ o.size = q.size /\ o.parent = q.parent
      /\ o.source = q.source /\ o.target = q.target /\ o.left = q.left /\ o.entries = q.entries
      /\ o.failed = no /\ o.answers = q.answers /\ o.on = q.on /\ o.content = q.content
  BY <1>1, <1>2 DEF ChainOps
<1>4. o = Ended(op, ok)
  BY DEF Ended, q, no
<1> HIDE DEF o
<1>5. o.failed = ~ok
  BY <1>3 DEF no
<1> QED  BY <1>2, <1>3, <1>4, <1>5, Zenon

(* The fields of an operation whose request was answered.                   *)
LEMMA PaidIs ==
  ASSUME NEW op \in ChainOps
  PROVE  LET o == Paid(op) IN
         /\ o \in ChainOps /\ o.stage = op.stage /\ o.does = op.does /\ o.size = op.size /\ o.parent = op.parent
         /\ o.source = op.source /\ o.target = op.target /\ o.left = op.left /\ o.entries = op.entries
         /\ o.failed = op.failed /\ o.answers = op.answers + 1 /\ o.on = op.on /\ o.content = op.content
<1> DEFINE n == op.answers + 1
           o == [op EXCEPT !.answers = n]
<1>1. n \in Nat
  BY DEF ChainOps
<1>2. o = Paid(op)
  BY DEF Paid
<1> HIDE DEF n
<1>3. /\ o \in ChainOps /\ o.stage = op.stage /\ o.does = op.does /\ o.size = op.size /\ o.parent = op.parent
      /\ o.source = op.source /\ o.target = op.target /\ o.left = op.left /\ o.entries = op.entries
      /\ o.failed = op.failed /\ o.answers = n /\ o.on = op.on /\ o.content = op.content
  BY <1>1 DEF ChainOps
<1> HIDE DEF o
<1> QED  BY <1>2, <1>3 DEF n

(* The promise of an operation is settled. *)
SettledEnd(op, ok, o) ==
  /\ o \in ChainOps /\ o.stage = "done" /\ o.does = op.does /\ o.size = op.size /\ o.parent = op.parent /\ o.source = 0
  /\ o.target = op.target /\ o.entries = op.entries /\ o.failed = ~ok /\ o.on = op.on
  /\ o.content = op.content /\ o.answers = (IF o.parent = 0 THEN 1 ELSE 0)

(* An operation that is over ends, and its parent, if that waits for it,    *)
(* is about to go on.                                                       *)
LEMMA EndKeeps ==
  ASSUME NEW t, NEW i, NEW ok, NEW I, Orderly(t, {i}), Over(t, i, ok), NEW o, SettledEnd(t.ops[i], ok, o),
         i \notin I, o.parent # 0 /\ t.ops[o.parent].stage = "children" => o.parent \in I
  PROVE  Orderly(Put(t, i, o), I)
<1>0. /\ o \in ChainOps /\ o.stage = "done" /\ o.does = t.ops[i].does /\ o.size = t.ops[i].size
      /\ o.parent = t.ops[i].parent /\ o.source = 0
      /\ o.target = t.ops[i].target /\ o.entries = t.ops[i].entries /\ o.failed = ~ok /\ o.on = t.ops[i].on
      /\ o.content = t.ops[i].content /\ o.answers = (IF o.parent = 0 THEN 1 ELSE 0)
  BY Zenon DEF SettledEnd
<1> USE <1>0
<1> DEFINE J == {i} \cup I
           p == Put(t, i, o)
<1>1. /\ t \in FspStates /\ t.ops[i] \in ChainOps /\ i \in Nat /\ i # 0 /\ i \in DOMAIN t.ops /\ Parents(t.ops, i, {i})
      /\ t.ops[i].parent # i
  BY OpOf DEF Over, Free
<1>2. Orderly(t, J) /\ i \in J
  <2>1. {i} \subseteq J
    OBVIOUS
  <2> QED  BY <2>1, Weaken
<1>3. t.ops[i].stage # "done" /\ \A x : x \in J <=> (x = i \/ x \in I)
  BY DEF Over, Free
<1> HIDE DEF J
<1>4. \A k \in DOMAIN t.wire : t.wire[k].of = i => Matches(t.wire[k], o, t.openedFiles)
  BY DEF Over, Matches
<1>5. o.parent # 0 /\ o.parent \notin J =>
        t.ops[o.parent].stage # "children" /\ t.ops[o.parent].failed
  BY <1>1, <1>3 DEF Parents
<1>6. (\E j \in DOMAIN t.ops : t.ops[j].parent = i) => o.does \in Directories
  <2>1. ASSUME NEW j \in DOMAIN t.ops, t.ops[j].parent = i PROVE o.does \in Directories
    <3>1. Parents(t.ops, j, {i})
      BY <2>1, OpOf
    <3> QED  BY <1>1, <2>1, <3>1 DEF Parents
  <2> QED  BY <2>1
<1>7. Changeable(t, J, i, o)
  BY <1>3, <1>4, <1>5, <1>6 DEF Changeable
<1>8. Orderly(p, J)
  BY <1>1, <1>2, <1>7, Change DEF Put
<1>9. /\ p \in FspStates /\ p.wire = t.wire /\ p.handles = t.handles /\ p.openedFiles = t.openedFiles
      /\ DOMAIN p.ops = DOMAIN t.ops /\ p.ops[i] = o /\ \A j \in DOMAIN t.ops : j # i => p.ops[j] = t.ops[j]
  <2>1. IsPut(p, t, i, o)
    BY <1>1, PutFields
  <2> QED  BY <2>1 DEF IsPut
<1> HIDE DEF p
<1>10. Local(o)
  <2>1. StageFits(o)
    BY DEF StageFits
  <2>2. Holding(o)
    BY DEF Holding, Over, Free, Many
  <2>3. Told(o)
    BY DEF Told
  <2>4. Copied(o)
    BY DEF Copied, Over, Free, WholeOf
  <2>5. Born(o)
    BY DEF Born, Over, Free
  <2> QED  BY <2>1, <2>2, <2>3, <2>4, <2>5 DEF Local
<1>11. Waits(p.ops, p.wire, i)
  BY <1>9 DEF Waits, OneRequest
<1>12. ASSUME NEW j \in DOMAIN p.ops, p.ops[j].parent = i, ~o.failed PROVE p.ops[j].stage = "done" /\ ~p.ops[j].failed
  <2>1. j # i
    BY <1>1, <1>9, <1>12
  <2> QED  BY <1>9, <1>12, <2>1 DEF Over
<1>13. \A h \in Provider!Handles : p.handles[h] = i => [request |-> i, handle |-> h] \in p.openedFiles
  BY <1>9 DEF Over
<1>14. Settled(p, i)
  BY <1>1, <1>9, <1>10, <1>11, <1>12, <1>13 DEF Settled
<1>15. Orderly(p, J \ {i})
  BY <1>8, <1>14, PutDown
<1>16. J \ {i} = I
  BY <1>3
<1> QED  BY <1>15, <1>16 DEF p

(* An operation ends where it is.                                           *)
LEMMA EndedInPlace ==
  ASSUME NEW t \in FspStates, NEW i \in DOMAIN t.ops, NEW ok \in BOOLEAN
  PROVE  [t EXCEPT !.ops[i].stage = "done", !.ops[i].failed = ~ok] = Put(t, i, Ended(t.ops[i], ok))
<1> DEFINE op == t.ops[i]
           q == [op EXCEPT !.stage = "done"]
           a == [t.ops EXCEPT ![i] = q]
           no == ~ok
<1>1. t.ops \in Seq(ChainOps) /\ op \in ChainOps
  BY DEF FspStates
<1>2. [t EXCEPT !.ops[i].stage = "done"] = [t EXCEPT !.ops = a]
  OBVIOUS
<1>3. a[i] = q /\ \A x : [a EXCEPT ![i] = x] = [t.ops EXCEPT ![i] = x]
  BY <1>1
<1> HIDE DEF a, q, op, no
<1> DEFINE u == [t EXCEPT !.ops = a]
<1>4. u.ops = a /\ \A x : [u EXCEPT !.ops = x] = [t EXCEPT !.ops = x]
  BY Zenon DEF FspStates
<1> HIDE DEF u
<1>5. [u EXCEPT !.ops[i].failed = no] = [u EXCEPT !.ops = [u.ops EXCEPT ![i] = [u.ops[i] EXCEPT !.failed = no]]]
  OBVIOUS
<1>6. [u EXCEPT !.ops[i].failed = no] = [t EXCEPT !.ops = [t.ops EXCEPT ![i] = [q EXCEPT !.failed = no]]]
  BY <1>3, <1>4, <1>5
<1>7. [t EXCEPT !.ops[i].stage = "done", !.ops[i].failed = ~ok] = [u EXCEPT !.ops[i].failed = no]
  BY <1>2 DEF no, u
<1> QED  BY <1>6, <1>7 DEF Put, Ended, q, op, no

(* An operation is answered where it is.                                    *)
LEMMA PaidInPlace ==
  ASSUME NEW t \in FspStates, NEW i \in DOMAIN t.ops
  PROVE  Provider!Answer(t, i) = Put(t, i, Paid(t.ops[i]))
BY DEF Provider!Answer, Put, Paid

(* What a directory waits for when it has its entries. *)
Awaiting(t, p) ==
  /\ Local(t.ops[p]) /\ Cardinality(Undone(t.ops, p)) = t.ops[p].left
  /\ t.ops[p].source # 0 /\ t.handles[t.ops[p].source] = p /\ t.ops[p].target = 0 /\ ~t.ops[p].failed
  /\ t.ops[p].does \in Directories /\ t.ops[p].on = 0 /\ t.ops[p].answers = 0
  /\ \A k \in DOMAIN t.wire : t.wire[k].of # p
  /\ \A q \in t.openedFiles : q.request # p
  /\ \A h \in Provider!Handles : t.handles[h] = p => h = t.ops[p].source
  /\ \A j \in DOMAIN t.ops : (t.ops[j].parent = p /\ t.ops[j].stage = "done") => ~t.ops[j].failed

(* What is so of a directory that waits for its entries.                    *)
LEMMA DirectoryWaits ==
  ASSUME NEW t, NEW I, NEW p, Orderly(t, I), p \in DOMAIN t.ops, p \notin I, t.ops[p].stage = "children"
  PROVE  Awaiting(t, p)
<1>1. /\ AllLocal(t.ops, I) /\ AllWait(t.ops, t.wire, I) /\ WireFits(t.ops, t.wire, t.openedFiles) /\ AllParents(t.ops, I)
      /\ OpenedWell(t.ops, t.handles, t.openedFiles, I) /\ Accounted(t.ops, t.wire, t.handles, t.openedFiles, I)
      /\ Owned(t.ops, t.handles, I)
  BY DEF Orderly
<1>2. Local(t.ops[p]) /\ Waits(t.ops, t.wire, p)
  BY <1>1 DEF AllLocal, AllWait
<1>3. Cardinality(Undone(t.ops, p)) = t.ops[p].left
  BY <1>2 DEF Waits
<1>4. /\ t.ops[p].source # 0 /\ t.ops[p].target = 0 /\ ~t.ops[p].failed /\ t.ops[p].does \in Directories
      /\ t.ops[p].on = 0 /\ t.ops[p].answers = 0
  BY <1>2 DEF Local, Holding, StageFits, Born, Told, Provider!OfFiles, Directories
<1>5. \A k \in DOMAIN t.wire : t.wire[k].of # p
  <2>1. ASSUME NEW k \in DOMAIN t.wire, t.wire[k].of = p PROVE FALSE
    <3>1. Matches(t.wire[k], t.ops[p], t.openedFiles) /\ t.wire[k] \in Sent
      BY <1>1, <2>1, OpOf DEF WireFits
    <3>2. t.wire[k].does # "children"
      BY <3>1 DEF Sent, OneRequest, Many
    <3> QED  BY <3>1, <3>2 DEF Matches
  <2> QED  BY <2>1
<1>6. \A q \in t.openedFiles : q.request # p
  BY <1>1, <1>4 DEF OpenedWell, Directories
<1>7. \A h \in Provider!Handles : t.handles[h] = p => h = t.ops[p].source
  <2>0. p # 0
    BY OpOf
  <2>1. ASSUME NEW h \in Provider!Handles, t.handles[h] = p PROVE h = t.ops[p].source
    <3>1. h # 0
      BY DEF Provider!Handles
    <3> QED  BY <1>1, <1>4, <1>5, <1>6, <2>0, <2>1, <3>1 DEF Accounted
  <2> QED  BY <2>1
<1>8. \A j \in DOMAIN t.ops : (t.ops[j].parent = p /\ t.ops[j].stage = "done") => ~t.ops[j].failed
  <2>1. p # 0
    BY OpOf
  <2> QED  BY <1>1, <2>1 DEF AllParents, Parents
<1>9. t.handles[t.ops[p].source] = p
  BY <1>1, <1>4 DEF Owned
<1> QED  BY <1>2, <1>3, <1>4, <1>5, <1>6, <1>7, <1>8, <1>9 DEF Awaiting

(* One entry fewer. *)
Finishing(a, b, i, p) ==
  /\ a \in Seq(ChainOps) /\ DOMAIN b = DOMAIN a /\ i \in DOMAIN a
  /\ a[i].parent = p /\ a[i].stage # "done" /\ b[i].stage = "done"
  /\ \A j \in DOMAIN a : b[j].parent = a[j].parent /\ (j # i => b[j].stage = a[j].stage)
Fewer(a, b, i, p) ==
  /\ IsFiniteSet(Undone(b, p)) /\ Undone(b, p) = Undone(a, p) \ {i}
  /\ Cardinality(Undone(b, p)) = Cardinality(Undone(a, p)) - 1

(* One entry fewer is not done.                                             *)
LEMMA OneFewer ==
  ASSUME NEW a, NEW b, NEW i, NEW p, Finishing(a, b, i, p)
  PROVE  Fewer(a, b, i, p)
<1>1. DOMAIN a = 1..Len(a) /\ Len(a) \in Nat
  BY DEF Finishing
<1>2. IsFiniteSet(1..Len(a))
  BY <1>1, FS_Interval
<1>3. Undone(a, p) \subseteq 1..Len(a)
  BY <1>1 DEF Undone
<1>4. IsFiniteSet(Undone(a, p))
  BY <1>2, <1>3, FS_Subset
<1>5. i \in Undone(a, p)
  BY DEF Undone, Finishing
<1>6. Undone(b, p) = Undone(a, p) \ {i}
  BY DEF Undone, Finishing
<1> QED  BY <1>4, <1>5, <1>6, FS_RemoveElement DEF Fewer

(* A set of no elements is empty.                                           *)
LEMMA EmptyOfNone ==
  ASSUME NEW S, IsFiniteSet(S), Cardinality(S) = 0
  PROVE  S = {}
BY FS_EmptySet

(* One less is left to an operation where it is.                            *)
LEMMA LeftInPlace ==
  ASSUME NEW t \in FspStates, NEW i \in DOMAIN t.ops
  PROVE  [t EXCEPT !.ops[i].left = @ - 1] = Put(t, i, [t.ops[i] EXCEPT !.left = t.ops[i].left - 1])
BY DEF Put

(* The promise of an entry of a directory is settled. *)
LEMMA ChildEnds ==
  ASSUME NEW t, NEW i, NEW ok, NEW p, NEW e, Orderly(t, {i}), Over(t, i, ok), p = t.ops[i].parent, p # 0,
         t.ops[p].stage = "children", e = Put(t, i, Ended(t.ops[i], ok))
  PROVE  /\ ~ok => Orderly(Provider!CloseSource([e EXCEPT !.ops[p].failed = TRUE], p), {})
         /\ ok /\ e.ops[p].left > 1 => Orderly([e EXCEPT !.ops[p].left = @ - 1], {})
         /\ ok /\ ~(e.ops[p].left > 1) => Orderly(Provider!CloseSource(e, p), {})
<1> DEFINE op == t.ops[i]
           o == Ended(op, ok)
           b == t.ops[p]
<1>1. /\ t \in FspStates /\ op \in ChainOps /\ i \in Nat /\ i # 0 /\ i \in DOMAIN t.ops /\ Parents(t.ops, i, {i})
      /\ p # i /\ ok \in BOOLEAN /\ op.stage # "done" /\ t.ops \in Seq(ChainOps)
  BY OpOf DEF Over, Free
<1>2. p \in DOMAIN t.ops /\ p \notin {i} /\ b.parent = 0 /\ b.does \in Directories
  BY <1>1 DEF Parents
<1>3. /\ o \in ChainOps /\ o.stage = "done" /\ o.does = op.does /\ o.size = op.size /\ o.parent = op.parent
      /\ o.source = op.source /\ o.target = op.target /\ o.left = op.left /\ o.entries = op.entries
      /\ o.failed = ~ok /\ o.answers = op.answers /\ o.on = op.on /\ o.content = op.content
  BY <1>1, EndedIs
<1>4. /\ Local(b) /\ Cardinality(Undone(t.ops, p)) = b.left /\ b.source # 0 /\ t.handles[b.source] = p /\ b.target = 0
      /\ ~b.failed /\ b.on = 0 /\ b.answers = 0 /\ b.stage = "children"
      /\ \A k \in DOMAIN t.wire : t.wire[k].of # p
      /\ \A q \in t.openedFiles : q.request # p
      /\ \A h \in Provider!Handles : t.handles[h] = p => h = b.source
      /\ \A j \in DOMAIN t.ops : (t.ops[j].parent = p /\ t.ops[j].stage = "done") => ~t.ops[j].failed
  <2>1. Awaiting(t, p)
    BY <1>2, DirectoryWaits
  <2> QED  BY <2>1 DEF Awaiting
<1>5. /\ e \in FspStates /\ e.wire = t.wire /\ e.handles = t.handles /\ e.openedFiles = t.openedFiles
      /\ DOMAIN e.ops = DOMAIN t.ops /\ e.ops[i] = o /\ \A j \in DOMAIN t.ops : j # i => e.ops[j] = t.ops[j]
  <2>1. IsPut(e, t, i, o)
    BY <1>1, <1>3, PutFields
  <2> QED  BY <2>1 DEF IsPut
<1> HIDE DEF o, op, b
<1>6. Orderly(e, {p})
  <2>1. SettledEnd(op, ok, o)
    <3>1. o.source = 0 /\ o.answers = (IF o.parent = 0 THEN 1 ELSE 0)
      BY <1>3 DEF Over, Free, op
    <3> QED  BY <1>3, <3>1, Zenon DEF SettledEnd
  <2>2. o.parent = p /\ i \notin {p}
    BY <1>1, <1>3 DEF op
  <2>3. Orderly(Put(t, i, o), {p})
    BY <2>1, <2>2, EndKeeps DEF op
  <2> QED  BY <2>3 DEF o, op
<1>7. /\ IsFiniteSet(Undone(e.ops, p)) /\ Undone(e.ops, p) = Undone(t.ops, p) \ {i}
      /\ Cardinality(Undone(e.ops, p)) = b.left - 1
  <2>1. \A j \in DOMAIN t.ops : e.ops[j].parent = t.ops[j].parent /\ (j # i => e.ops[j].stage = t.ops[j].stage)
    BY <1>3, <1>5 DEF op
  <2>2. /\ t.ops \in Seq(ChainOps) /\ DOMAIN e.ops = DOMAIN t.ops /\ i \in DOMAIN t.ops
        /\ t.ops[i].parent = p /\ t.ops[i].stage # "done" /\ e.ops[i].stage = "done"
    BY <1>1, <1>3, <1>5 DEF op
  <2>3. Fewer(t.ops, e.ops, i, p)
    BY <2>1, <2>2, OneFewer DEF Finishing
  <2> QED  BY <1>4, <2>3 DEF Fewer
<1>8. /\ e.ops[p] = b /\ b \in ChainOps /\ p \in DOMAIN e.ops /\ b.left \in Nat /\ b.left >= 1 /\ p \in Nat
      /\ b.source \in Numbers
  <2>1. b \in ChainOps /\ e.ops[p] = b /\ p \in DOMAIN e.ops /\ p \in Nat
    BY <1>1, <1>2, <1>5 DEF b
  <2>2. b.left \in Nat /\ b.source \in Numbers
    BY <2>1 DEF ChainOps
  <2>3. b.left >= 1
    BY <1>4 DEF Local, Holding, Many
  <2> QED  BY <2>1, <2>2, <2>3
<1>9. b.content = <<>> /\ Born(b) /\ StageFits(b) /\ Told(b)
  BY <1>2, <1>4 DEF Local, Copied, Directories, b
<1>10. \A j \in DOMAIN e.ops : (e.ops[j].parent = p /\ e.ops[j].stage = "done" /\ ok) => ~e.ops[j].failed
  <2>1. ok => ~e.ops[i].failed
    BY <1>3, <1>5, Zenon
  <2>2. ASSUME NEW j \in DOMAIN e.ops, e.ops[j].parent = p, e.ops[j].stage = "done", ok, j # i PROVE ~e.ops[j].failed
    BY <1>4, <1>5, <2>2
  <2> QED  BY <2>1, <2>2
<1>11. \A j \in DOMAIN e.ops : e.ops[j].parent = p => j # p
  BY <1>2, <1>5, <1>8 DEF b
<1>12. \A j \in DOMAIN e.ops : (e.ops[j].parent = p /\ j \notin Undone(e.ops, p)) => e.ops[j].stage = "done"
  BY DEF Undone
<1>13. ASSUME ~ok PROVE Orderly(Provider!CloseSource([e EXCEPT !.ops[p].failed = TRUE], p), {})
  <2> DEFINE q == [b EXCEPT !.failed = TRUE]
             u == Put(e, p, q)
  <2>1. /\ q \in ChainOps /\ q.stage = b.stage /\ q.does = b.does /\ q.size = b.size /\ q.parent = b.parent
        /\ q.source = b.source /\ q.target = b.target /\ q.left = b.left /\ q.entries = b.entries
        /\ q.failed = TRUE /\ q.answers = b.answers /\ q.on = b.on /\ q.content = b.content
    BY <1>8, Zenon DEF ChainOps
  <2> HIDE DEF q
  <2>2. [e EXCEPT !.ops[p].failed = TRUE] = u
    BY <1>8 DEF Put, q
  <2>3. p \in {p} /\ Changeable(e, {p}, p, q)
    BY <1>2, <1>4, <1>5, <1>8, <2>1 DEF Changeable, b
  <2>4. Orderly(u, {p})
    BY <1>6, <1>8, <2>1, <2>3, Change DEF Put
  <2>5. /\ u \in FspStates /\ u.wire = e.wire /\ u.handles = e.handles /\ u.openedFiles = e.openedFiles
        /\ DOMAIN u.ops = DOMAIN e.ops /\ u.ops[p] = q /\ \A j \in DOMAIN e.ops : j # p => u.ops[j] = e.ops[j]
    <3>1. IsPut(u, e, p, q)
      BY <1>5, <1>8, <2>1, PutFields
    <3> QED  BY <3>1 DEF IsPut
  <2> HIDE DEF u
  <2>6. Free(u, p)
    <3>1. Born(q)
      BY <1>9, <2>1 DEF Born
    <3>2. q.does \in Directories /\ q.does # "copyFile" /\ q.does # "list"
      BY <1>2, <2>1 DEF b, Directories
    <3> QED  BY <1>2, <1>4, <1>5, <1>8, <1>9, <2>1, <2>5, <3>1, <3>2 DEF Free
  <2> QED  BY <1>4, <2>1, <2>2, <2>4, <2>5, <2>6, CloseSourceKeeps
<1>14. ASSUME ok, e.ops[p].left > 1 PROVE Orderly([e EXCEPT !.ops[p].left = @ - 1], {})
  <2> DEFINE m == b.left - 1
             q == [b EXCEPT !.left = m]
             u == Put(e, p, q)
  <2>0. m \in Nat /\ m >= 1
    BY <1>8, <1>14
  <2> HIDE DEF m
  <2>1. /\ q \in ChainOps /\ q.stage = b.stage /\ q.does = b.does /\ q.size = b.size /\ q.parent = b.parent
        /\ q.source = b.source /\ q.target = b.target /\ q.left = m /\ q.entries = b.entries
        /\ q.failed = b.failed /\ q.answers = b.answers /\ q.on = b.on /\ q.content = b.content
    BY <1>8, <2>0, Zenon DEF ChainOps
  <2> HIDE DEF q
  <2>2. [e EXCEPT !.ops[p].left = @ - 1] = u
    <3>1. [e EXCEPT !.ops[p].left = @ - 1] = Put(e, p, [e.ops[p] EXCEPT !.left = e.ops[p].left - 1])
      BY <1>5, <1>8, LeftInPlace
    <3>2. [e.ops[p] EXCEPT !.left = e.ops[p].left - 1] = q
      BY <1>8 DEF q, m
    <3> QED  BY <3>1, <3>2, Zenon
  <2>3. p \in {p} /\ Changeable(e, {p}, p, q)
    BY <1>2, <1>4, <1>5, <1>8, <2>1 DEF Changeable, b
  <2>4. Orderly(u, {p})
    BY <1>6, <1>8, <2>1, <2>3, Change DEF Put
  <2>5. /\ u \in FspStates /\ u.wire = e.wire /\ u.handles = e.handles /\ u.openedFiles = e.openedFiles
        /\ DOMAIN u.ops = DOMAIN e.ops /\ u.ops[p] = q /\ \A j \in DOMAIN e.ops : j # p => u.ops[j] = e.ops[j]
    <3>1. IsPut(u, e, p, q)
      BY <1>5, <1>8, <2>1, PutFields
    <3> QED  BY <3>1 DEF IsPut
  <2> HIDE DEF u
  <2>6. Local(q)
    <3>1. StageFits(q)
      BY <1>9, <2>1 DEF StageFits
    <3>2. Holding(q)
      <4>1. Holding(b)
        BY <1>4 DEF Local
      <4> QED  BY <1>4, <2>0, <2>1, <4>1 DEF Holding
    <3>3. Told(q)
      BY <1>9, <2>1 DEF Told
    <3>4. Copied(q)
      BY <1>2, <1>9, <2>1 DEF Copied, Directories, b
    <3>5. Born(q)
      BY <1>9, <2>1 DEF Born
    <3> QED  BY <3>1, <3>2, <3>3, <3>4, <3>5 DEF Local
  <2>7. Undone(u.ops, p) = Undone(e.ops, p)
    BY <1>4, <1>8, <2>1, <2>5, <1>11 DEF Undone
  <2>8. Waits(u.ops, u.wire, p)
    BY <1>4, <1>7, <2>1, <2>5, <2>7 DEF Waits, OneRequest, m
  <2>9. \A j \in DOMAIN u.ops : (u.ops[j].parent = p /\ u.ops[j].stage = "done") => ~u.ops[j].failed
    BY <1>10, <1>11, <1>14, <2>1, <2>5, <1>4, Zenon
  <2>10. b.does # "close"
    BY <1>2 DEF b, Directories
  <2>11. Settled(u, p)
    BY <1>4, <1>5, <1>8, <2>1, <2>5, <2>6, <2>8, <2>9, <2>10 DEF Settled
  <2>12. Orderly(u, {p} \ {p})
    BY <2>4, <2>11, PutDown
  <2>13. {p} \ {p} = {}
    OBVIOUS
  <2> QED  BY <2>2, <2>12, <2>13
<1>15. ASSUME ok, ~(e.ops[p].left > 1) PROVE Orderly(Provider!CloseSource(e, p), {})
  <2>1. b.left - 1 = 0
    BY <1>8, <1>15
  <2>2. Undone(e.ops, p) = {}
    BY <1>7, <2>1, EmptyOfNone
  <2>3. \A j \in DOMAIN e.ops : e.ops[j].parent = p => e.ops[j].stage = "done" /\ ~e.ops[j].failed
    BY <1>10, <1>12, <1>15, <2>2
  <2>4. Free(e, p)
    <3>2. b.does \in Directories /\ b.does # "copyFile" /\ b.does # "list"
      BY <1>2 DEF b, Directories
    <3> QED  BY <1>4, <1>5, <1>8, <1>9, <2>3, <3>2 DEF Free
  <2> QED  BY <1>4, <1>6, <1>8, <2>4, CloseSourceKeeps
<1> QED  BY <1>13, <1>14, <1>15

(* An operation that no other waits for ends.                               *)
LEMMA EndAlone ==
  ASSUME NEW t, NEW i, NEW ok, Orderly(t, {i}), Over(t, i, ok), NEW o, SettledEnd(t.ops[i], ok, o),
         o.parent = 0 \/ t.ops[o.parent].stage # "children"
  PROVE  Orderly(Put(t, i, o), {})
BY EndKeeps

(* Settle keeps the order: the request is answered, or the directory has    *)
(* one entry fewer to wait for.                                             *)
LEMMA SettleKeeps ==
  ASSUME NEW t, NEW i, NEW ok, Orderly(t, {i}), Over(t, i, ok)
  PROVE  Orderly(Provider!Settle(t, i, ok), {})
<1> DEFINE op == t.ops[i]
           z == Ended(op, ok)
           p == op.parent
           e == Put(t, i, z)
<1>1. /\ t \in FspStates /\ op \in ChainOps /\ i \in Nat /\ i # 0 /\ i \in DOMAIN t.ops /\ Parents(t.ops, i, {i})
      /\ p # i /\ ok \in BOOLEAN /\ op.stage # "done" /\ t.ops \in Seq(ChainOps) /\ i \notin {}
      /\ op.source = 0 /\ op.answers = IF p = 0 /\ op.does = "list" THEN 1 ELSE 0
  BY OpOf DEF Over, Free
<1>2. /\ z \in ChainOps /\ z.stage = "done" /\ z.does = op.does /\ z.size = op.size /\ z.parent = op.parent
      /\ z.source = op.source /\ z.target = op.target /\ z.left = op.left /\ z.entries = op.entries
      /\ z.failed = ~ok /\ z.answers = op.answers /\ z.on = op.on /\ z.content = op.content
  BY <1>1, EndedIs
<1>3. /\ Paid(z) \in ChainOps /\ Paid(z).stage = z.stage /\ Paid(z).does = z.does /\ Paid(z).size = z.size
      /\ Paid(z).parent = z.parent /\ Paid(z).source = z.source /\ Paid(z).target = z.target /\ Paid(z).left = z.left
      /\ Paid(z).entries = z.entries /\ Paid(z).failed = z.failed /\ Paid(z).answers = z.answers + 1
      /\ Paid(z).on = z.on /\ Paid(z).content = z.content
  BY <1>2, PaidIs
<1>4. /\ e \in FspStates /\ e.wire = t.wire /\ e.handles = t.handles /\ e.openedFiles = t.openedFiles
      /\ DOMAIN e.ops = DOMAIN t.ops /\ e.ops[i] = z /\ \A j \in DOMAIN t.ops : j # i => e.ops[j] = t.ops[j]
  <2>1. IsPut(e, t, i, z)
    BY <1>1, <1>2, PutFields
  <2> QED  BY <2>1 DEF IsPut
<1>5. [t EXCEPT !.ops[i].stage = "done", !.ops[i].failed = ~ok] = e
  BY <1>1, EndedInPlace, Zenon
<1>6. Provider!Answer(e, i) = Put(t, i, Paid(z))
  <2>1. Put(e, i, Paid(z)) = Put(t, i, Paid(z))
    BY <1>1, PutPut
  <2> HIDE DEF e
  <2> QED  BY <1>1, <1>4, <2>1, PaidInPlace
<1> HIDE DEF e, z
<1>7. Provider!Settle(t, i, ok) =
        IF p = 0 THEN IF e.ops[i].does = "list" THEN e ELSE Provider!Answer(e, i)
        ELSE IF e.ops[p].stage # "children" THEN e
        ELSE IF ~ok THEN Provider!CloseSource([e EXCEPT !.ops[p].failed = TRUE], p)
        ELSE IF e.ops[p].left > 1 THEN [e EXCEPT !.ops[p].left = @ - 1]
        ELSE Provider!CloseSource(e, p)
  <2> DEFINE d == [t EXCEPT !.ops[i].stage = "done", !.ops[i].failed = ~ok]
  <2>1. Provider!Settle(t, i, ok) =
          IF p = 0 THEN IF d.ops[i].does = "list" THEN d ELSE Provider!Answer(d, i)
          ELSE IF d.ops[p].stage # "children" THEN d
          ELSE IF ~ok THEN Provider!CloseSource([d EXCEPT !.ops[p].failed = TRUE], p)
          ELSE IF d.ops[p].left > 1 THEN [d EXCEPT !.ops[p].left = @ - 1]
          ELSE Provider!CloseSource(d, p)
    BY Zenon DEF Provider!Settle
  <2> HIDE DEF d
  <2>2. d = e
    BY <1>5 DEF d
  <2> QED  BY <2>1, <2>2
<1>8. CASE p = 0
  <2>1. CASE op.does = "list"
    <3>1. z.answers = (IF z.parent = 0 THEN 1 ELSE 0) /\ z.source = 0 /\ z.parent = 0
      BY <1>1, <1>2, <1>8, <2>1
    <3>2. SettledEnd(op, ok, z)
      BY <1>2, <3>1, Zenon DEF SettledEnd
    <3>4. Orderly(Put(t, i, z), {})
      BY <3>1, <3>2, EndAlone
    <3>3. Orderly(e, {})
      BY <3>4 DEF e
    <3> QED  BY <1>2, <1>4, <1>7, <1>8, <2>1, <3>3
  <2>2. CASE op.does # "list"
    <3> DEFINE d == Paid(z)
    <3>1. d.answers = (IF d.parent = 0 THEN 1 ELSE 0) /\ d.parent = 0
      BY <1>1, <1>2, <1>3, <1>8, <2>2
    <3> HIDE DEF d
    <3>2. /\ d \in ChainOps /\ d.stage = "done" /\ d.does = op.does /\ d.size = op.size /\ d.parent = op.parent
          /\ d.source = 0 /\ d.target = op.target /\ d.entries = op.entries
          /\ d.failed = ~ok /\ d.on = op.on /\ d.content = op.content
      BY <1>1, <1>2, <1>3, Zenon DEF d
    <3>4. SettledEnd(op, ok, d)
      BY <3>1, <3>2, Zenon DEF SettledEnd
    <3>3. Orderly(Put(t, i, d), {})
      BY <3>1, <3>4, EndAlone
    <3> QED  BY <1>2, <1>4, <1>6, <1>7, <1>8, <2>2, <3>3 DEF d
  <2> QED  BY <2>1, <2>2
<1>9. CASE p # 0
  <2>1. p \in DOMAIN t.ops /\ e.ops[p] = t.ops[p] /\ z.answers = (IF z.parent = 0 THEN 1 ELSE 0)
    BY <1>1, <1>2, <1>4, <1>9 DEF Parents
  <2>2. CASE t.ops[p].stage # "children"
    <3>0. SettledEnd(op, ok, z)
      <4>1. z.source = 0
        BY <1>1, <1>2
      <4> QED  BY <1>2, <2>1, <4>1, Zenon DEF SettledEnd
    <3>2. z.parent = p
      BY <1>2
    <3>4. Orderly(Put(t, i, z), {})
      BY <2>2, <3>0, <3>2, EndAlone
    <3>1. Orderly(e, {})
      BY <3>4 DEF e
    <3> QED  BY <1>7, <1>9, <2>1, <2>2, <3>1
  <2>3. CASE t.ops[p].stage = "children"
    <3>1. /\ ~ok => Orderly(Provider!CloseSource([e EXCEPT !.ops[p].failed = TRUE], p), {})
          /\ ok /\ e.ops[p].left > 1 => Orderly([e EXCEPT !.ops[p].left = @ - 1], {})
          /\ ok /\ ~(e.ops[p].left > 1) => Orderly(Provider!CloseSource(e, p), {})
      BY <1>9, <2>3, ChildEnds DEF e, z
    <3> QED  BY <1>7, <1>9, <2>1, <2>3, <3>1
  <2> QED  BY <2>2, <2>3
<1> QED  BY <1>8, <1>9

(* No handle is that of a file not opened.                                  *)
LEMMA NoHandle == \A g \in Provider!Handles : g # 0
BY DEF Provider!Handles

(* Closing the target of a copy.                                            *)
LEMMA CloseTargetKeeps ==
  ASSUME NEW t, NEW i, Orderly(t, {i}), Free(t, i), t.ops[i].source = 0, t.ops[i].target # 0, t.ops[i].stage # "closeTarget"
  PROVE  Orderly(Provider!Ask(t, i, "closeTarget", t.ops[i].target), {})
<1> DEFINE op == t.ops[i]
           o == [op EXCEPT !.stage = "closeTarget"]
           h == op.target
<1>1. /\ t \in FspStates /\ op \in ChainOps /\ i \in Nat /\ i # 0 /\ h \in Numbers /\ h \in Provider!Handles
      /\ i \in DOMAIN t.ops
  BY OpOf DEF Free, Numbers
<1> HIDE DEF op, h
<1>2. /\ o \in ChainOps /\ o.stage = "closeTarget" /\ o.does = op.does /\ o.size = op.size /\ o.parent = op.parent
      /\ o.source = op.source /\ o.target = op.target /\ o.left = op.left /\ o.entries = op.entries
      /\ o.failed = op.failed /\ o.answers = op.answers /\ o.on = op.on /\ o.content = op.content
  BY <1>1 DEF ChainOps, Stages, OneRequest
<1> HIDE DEF o
<1>3. /\ op.does = "copyFile" /\ t.handles[h] = i /\ h # 0 /\ op.source = 0 /\ op.stage # "done"
  BY DEF Free, op, h
<1>4. op.on = 0
  BY <1>3 DEF Free, Born, op, Provider!OfFiles
<1>5. Local(o)
  <2>1. StageFits(o)
    BY <1>2, <1>3 DEF StageFits
  <2>2. Holding(o)
    BY <1>2, <1>3 DEF Holding, h, Many
  <2>3. Told(o)
    BY <1>2, <1>3 DEF Told, Free, op
  <2>4. Copied(o)
    BY <1>2, <1>3 DEF Copied, Free, op, WholeOf
  <2>5. Born(o)
    BY <1>2 DEF Born, Free, op
  <2> QED  BY <2>1, <2>2, <2>3, <2>4, <2>5 DEF Local
<1> DEFINE r == Request(o, i, h)
<1>6. r.does = "closeTarget" /\ r.of = i /\ r.h = h
  BY <1>2 DEF Request
<1> HIDE DEF r
<1>7. ASSUME NEW k \in DOMAIN t.wire, t.wire[k].of = i
      PROVE  Matches(t.wire[k], o, t.openedFiles) /\ Precedes(t.wire[k], r)
  <2>1. t.wire[k].does = "chunkWrite" /\ op.failed /\ t.wire[k].h = op.target
    BY <1>3, <1>7 DEF Free, op
  <2> QED  BY <1>2, <1>3, <1>6, <2>1 DEF Matches, Precedes, h
<1>8. Matches(r, o, t.openedFiles)
  BY <1>2, <1>3, <1>6 DEF Matches, h
<1>9. \A j \in DOMAIN t.wire : t.wire[j].h = h => t.wire[j].does \notin Provider!Closes
  BY <1>3, NoClose DEF op
<1>10. ASSUME NEW j \in DOMAIN t.ops, t.ops[j].parent = i PROVE FALSE
  <2>1. Parents(t.ops, j, {i})
    BY <1>10, OpOf
  <2> QED  BY <1>1, <1>3, <1>10, <2>1 DEF Parents, op, Directories
<1>11. \A g \in Provider!Handles : t.handles[g] = i => h = g
  <2>1. ASSUME NEW g \in Provider!Handles, t.handles[g] = i PROVE h = g
    <3>1. op.source = g \/ op.target = g \/ [request |-> i, handle |-> g] \in t.openedFiles
      BY <2>1 DEF Free, op
    <3>2. [request |-> i, handle |-> g].request = i
      OBVIOUS
    <3>3. [request |-> i, handle |-> g] \notin t.openedFiles
      BY <1>3, <3>2 DEF Free, op
    <3> QED  BY <1>3, <3>1, <3>3, NoHandle DEF h
  <2> QED  BY <2>1
<1>12. \A q \in t.openedFiles : q.request # i
  BY <1>3 DEF Free, op
<1>13. Asking(t, i, o, h)
  BY <1>1, <1>2, <1>3, <1>4, <1>5, <1>6, <1>7, <1>8, <1>9, <1>10, <1>11, <1>12 DEF Asking, OneRequest, op, h, r
<1> QED  BY <1>13, AskHere DEF o, op, h, OneRequest

(* The removal of a directory after its entries.                            *)
LEMMA RemoveKeeps ==
  ASSUME NEW t, NEW i, Orderly(t, {i}), Free(t, i), t.ops[i].source = 0, t.ops[i].does = "removeDirectory", ~t.ops[i].failed
  PROVE  Orderly(Provider!Ask(t, i, "rmdir", 0), {})
<1> DEFINE op == t.ops[i]
           o == [op EXCEPT !.stage = "rmdir"]
<1>1. t \in FspStates /\ op \in ChainOps /\ i \in Nat /\ i # 0 /\ i \in DOMAIN t.ops
  BY OpOf DEF Free
<1> HIDE DEF op
<1>2. /\ o \in ChainOps /\ o.stage = "rmdir" /\ o.does = op.does /\ o.size = op.size /\ o.parent = op.parent
      /\ o.source = op.source /\ o.target = op.target /\ o.left = op.left /\ o.entries = op.entries
      /\ o.failed = op.failed /\ o.answers = op.answers /\ o.on = op.on /\ o.content = op.content
  BY <1>1 DEF ChainOps, Stages, OneRequest
<1> HIDE DEF o
<1>3. op.does = "removeDirectory" /\ op.source = 0 /\ op.target = 0 /\ ~op.failed /\ op.stage # "done"
  BY DEF Free, op
<1>4. op.on = 0
  BY <1>3 DEF Free, Born, op, Provider!OfFiles
<1>5. Local(o)
  <2>1. StageFits(o)
    BY <1>2, <1>3 DEF StageFits
  <2>2. Holding(o)
    BY <1>2, <1>3 DEF Holding, Many
  <2>3. Told(o)
    BY <1>2, <1>3 DEF Told, Free, op
  <2>4. Copied(o)
    BY <1>2, <1>3 DEF Copied, Free, op
  <2>5. Born(o)
    BY <1>2 DEF Born, Free, op
  <2> QED  BY <2>1, <2>2, <2>3, <2>4, <2>5 DEF Local
<1> DEFINE r == Request(o, i, 0)
<1>6. r.does = "rmdir" /\ r.of = i /\ r.h = 0
  BY <1>2 DEF Request
<1> HIDE DEF r
<1>7. \A k \in DOMAIN t.wire : t.wire[k].of # i
  BY <1>3 DEF Free, op
<1>8. Matches(r, o, t.openedFiles)
  BY <1>2, <1>6 DEF Matches
<1>9. \A j \in DOMAIN t.ops : t.ops[j].parent = i => t.ops[j].stage = "done" /\ ~t.ops[j].failed
  BY <1>3 DEF Free, op
<1>10. \A g \in Provider!Handles : t.handles[g] # i
  <2>1. ASSUME NEW g \in Provider!Handles, t.handles[g] = i PROVE FALSE
    <3>1. op.source = g \/ op.target = g \/ [request |-> i, handle |-> g] \in t.openedFiles
      BY <2>1 DEF Free, op
    <3>2. [request |-> i, handle |-> g].request = i
      OBVIOUS
    <3>3. [request |-> i, handle |-> g] \notin t.openedFiles
      BY <1>3, <3>2 DEF Free, op
    <3> QED  BY <1>3, <3>1, <3>3, NoHandle
  <2> QED  BY <2>1
<1>11. \A q \in t.openedFiles : q.request # i
  BY <1>3 DEF Free, op
<1>12. Asking(t, i, o, 0)
  BY <1>1, <1>2, <1>3, <1>4, <1>5, <1>6, <1>7, <1>8, <1>9, <1>10, <1>11 DEF Asking, OneRequest, op, r, Numbers, Directories
<1> QED  BY <1>12, AskHere DEF o, op, OneRequest

(* The finally()s of an operation. *)
LEMMA FinallyKeeps ==
  ASSUME NEW t, NEW i, Orderly(t, {i}), Free(t, i)
  PROVE  Orderly(Provider!Finally(t, i), {})
<1> DEFINE op == t.ops[i]
<1>1. op \in ChainOps /\ op.failed \in BOOLEAN
  BY OpOf DEF Free, ChainOps
<1>2. CASE op.source # 0
  BY <1>2, CloseSourceKeeps DEF Provider!Finally, Provider!Unopened
<1>3. CASE op.source = 0 /\ op.target # 0 /\ op.stage # "closeTarget"
  BY <1>3, CloseTargetKeeps DEF Provider!Finally, Provider!Unopened
<1>4. CASE op.source = 0 /\ ~(op.target # 0 /\ op.stage # "closeTarget") /\ op.does = "removeDirectory" /\ ~op.failed
  BY <1>4, RemoveKeeps DEF Provider!Finally, Provider!Unopened
<1>5. CASE op.source = 0 /\ ~(op.target # 0 /\ op.stage # "closeTarget") /\ ~(op.does = "removeDirectory" /\ ~op.failed)
  <2> DEFINE ok == ~op.failed
  <2>1. ok \in BOOLEAN
    BY <1>1
  <2>2. Over(t, i, ok)
    BY <1>1, <1>5 DEF Over, Free, Provider!Handles
  <2> HIDE DEF ok
  <2>3. Orderly(Provider!Settle(t, i, ok), {})
    BY <2>2, SettleKeeps
  <2>4. Provider!Finally(t, i) = Provider!Settle(t, i, ok)
    BY <1>5, Zenon DEF Provider!Finally, Provider!Unopened, ok
  <2> QED  BY <2>3, <2>4
<1> QED  BY <1>2, <1>3, <1>4, <1>5

-----------------------------------------------------------------------------
(* The request that the server takes next, and what its operation is.      *)
Took(t, hs) == [t EXCEPT !.wire = Tail(t.wire), !.handles = hs]

AtHand(t, hs, u, r, i) ==
  /\ Orderly(u, {i}) /\ u.ops = t.ops /\ u.wire = Tail(t.wire) /\ u.handles = hs /\ u.openedFiles = t.openedFiles
  /\ u \in FspStates /\ u.ops \in Seq(ChainOps) /\ u.wire \in Seq(Sent) /\ hs \in [Provider!Handles -> Nat]
  /\ r \in Sent /\ r = t.wire[1] /\ i = r.of /\ i \in DOMAIN t.ops /\ i \in Nat /\ i # 0
  /\ t.ops[i] \in ChainOps /\ Local(t.ops[i]) /\ Matches(r, t.ops[i], t.openedFiles) /\ Waits(t.ops, t.wire, i)
  /\ Parents(t.ops, i, {}) /\ Parents(t.ops, i, {i})
  /\ \A k \in DOMAIN u.wire : u.wire[k].of = i => Matches(u.wire[k], t.ops[i], t.openedFiles) /\ Precedes(r, u.wire[k])
  /\ t.ops[i].source # 0 => t.handles[t.ops[i].source] = i
  /\ t.ops[i].target # 0 /\ t.ops[i].stage # "done" => t.handles[t.ops[i].target] = i /\ t.ops[i].target # t.ops[i].source
  /\ r.h # 0 => t.handles[r.h] = (IF t.ops[i].on = 0 THEN i ELSE t.ops[i].on)
  /\ \A q \in t.openedFiles : q.request = i => t.ops[i].stage = "done" /\ t.ops[i].does \in {"open", "create"}
  /\ \A g \in Provider!Handles : t.handles[g] = i =>
       \/ t.ops[i].source = g
       \/ t.ops[i].target = g /\ t.ops[i].stage # "done"
       \/ r.does = "closeSource" /\ r.h = g
       \/ \E k \in DOMAIN u.wire : u.wire[k].of = i /\ u.wire[k].does = "closeSource" /\ u.wire[k].h = g
       \/ [request |-> i, handle |-> g] \in t.openedFiles
  /\ \A j \in DOMAIN t.ops : t.ops[j].parent = i =>
       /\ t.ops[i].does \in Directories /\ t.ops[i].stage \in {"children", "closeSource", "rmdir", "done"}
       /\ t.ops[i].stage # "children" /\ ~t.ops[i].failed => t.ops[j].stage = "done" /\ ~t.ops[j].failed

(* A request is at hand when the server takes it.                           *)
LEMMA TakeHand ==
  ASSUME NEW t, NEW hs, Orderly(t, {}), t.wire # <<>>, Handled(t, hs)
  PROVE  AtHand(t, hs, Took(t, hs), Head(t.wire), Head(t.wire).of)
<1> DEFINE w == Tail(t.wire)
           r == Head(t.wire)
           i == r.of
           u == Took(t, hs)
<1>1. /\ t \in FspStates /\ AllLocal(t.ops, {}) /\ AllWait(t.ops, t.wire, {})
      /\ Owned(t.ops, t.handles, {}) /\ WireOwned(t.ops, t.wire, t.handles)
      /\ WireFits(t.ops, t.wire, t.openedFiles) /\ WireOrder(t.wire)
      /\ AllParents(t.ops, {}) /\ InTurn(t.ops)
      /\ OpenedWell(t.ops, t.handles, t.openedFiles, {}) /\ Accounted(t.ops, t.wire, t.handles, t.openedFiles, {})
  BY DEF Orderly
<1>2. t.wire \in Seq(Sent) /\ t.ops \in Seq(ChainOps)
  BY <1>1 DEF FspStates
<1>3. /\ w \in Seq(Sent) /\ r = t.wire[1] /\ 1 \in DOMAIN t.wire /\ r \in Sent
      /\ \A k \in DOMAIN w : k \in Nat /\ k + 1 \in DOMAIN t.wire /\ w[k] = t.wire[k + 1] /\ 1 < k + 1
      /\ \A k \in DOMAIN t.wire : k \in Nat /\ (k # 1 => k - 1 \in DOMAIN w /\ w[k - 1] = t.wire[k])
  BY <1>2, HeadAndTail
<1>4. u \in FspStates /\ u.ops = t.ops /\ u.wire = w /\ u.handles = hs /\ u.openedFiles = t.openedFiles
  BY <1>1, <1>3 DEF FspStates, Handled, Took
<1>5. hs \in [Provider!Handles -> Nat]
  BY DEF Handled
<1>6. Orderly(u, {i})
  BY Take, Zenon DEF Took
<1> HIDE DEF u, w, r
<1>7. i \in DOMAIN t.ops /\ Matches(r, t.ops[i], t.openedFiles)
  BY <1>1, <1>3 DEF WireFits
<1> HIDE DEF i
<1>8. i = r.of
  BY DEF i
<1>9. i \in Nat /\ i # 0 /\ t.ops[i] \in ChainOps
  BY <1>2, <1>7
<1>10. Local(t.ops[i]) /\ Waits(t.ops, t.wire, i) /\ Parents(t.ops, i, {}) /\ Parents(t.ops, i, {i})
  <2>1. i \notin {} /\ Parents(t.ops, i, {})
    BY <1>1, <1>7 DEF AllParents
  <2>2. Parents(t.ops, i, {i})
    BY <2>1 DEF Parents
  <2> QED  BY <1>1, <1>7, <2>1, <2>2 DEF AllLocal, AllWait
<1>11. ASSUME NEW k \in DOMAIN w, w[k].of = i PROVE Matches(w[k], t.ops[i], t.openedFiles) /\ Precedes(r, w[k])
  BY <1>1, <1>3, <1>11 DEF WireFits, WireOrder
<1>12. /\ t.ops[i].source # 0 => t.handles[t.ops[i].source] = i
       /\ t.ops[i].target # 0 /\ t.ops[i].stage # "done" => t.handles[t.ops[i].target] = i /\ t.ops[i].target # t.ops[i].source
  BY <1>1, <1>7 DEF Owned
<1>13. r.h # 0 => t.handles[r.h] = (IF t.ops[i].on = 0 THEN i ELSE t.ops[i].on)
  BY <1>1, <1>3, <1>8 DEF WireOwned, OwnerOf
<1>14. \A q \in t.openedFiles : q.request = i => t.ops[i].stage = "done" /\ t.ops[i].does \in {"open", "create"}
  BY <1>1 DEF OpenedWell
<1>15. ASSUME NEW g \in Provider!Handles, t.handles[g] = i
       PROVE  \/ t.ops[i].source = g
              \/ t.ops[i].target = g /\ t.ops[i].stage # "done"
              \/ r.does = "closeSource" /\ r.h = g
              \/ \E k \in DOMAIN w : w[k].of = i /\ w[k].does = "closeSource" /\ w[k].h = g
              \/ [request |-> i, handle |-> g] \in t.openedFiles
  <2>1. ASSUME NEW k \in DOMAIN t.wire, t.wire[k].of = i, t.wire[k].does = "closeSource", t.wire[k].h = g, k # 1
        PROVE  \E x \in DOMAIN w : w[x].of = i /\ w[x].does = "closeSource" /\ w[x].h = g
    BY <1>3, <2>1
  <2> QED  BY <1>1, <1>3, <1>9, <1>15, <2>1 DEF Accounted
<1>16. ASSUME NEW j \in DOMAIN t.ops, t.ops[j].parent = i
       PROVE  /\ t.ops[i].does \in Directories /\ t.ops[i].stage \in {"children", "closeSource", "rmdir", "done"}
              /\ t.ops[i].stage # "children" /\ ~t.ops[i].failed => t.ops[j].stage = "done" /\ ~t.ops[j].failed
  BY <1>1, <1>9, <1>16 DEF AllParents, Parents
<1>17. AtHand(t, hs, u, r, i)
  <2>1. u.wire = w /\ w = Tail(t.wire)
    BY <1>4 DEF w
  <2>2. \A k \in DOMAIN u.wire : u.wire[k].of = i => Matches(u.wire[k], t.ops[i], t.openedFiles) /\ Precedes(r, u.wire[k])
    BY <1>11, <2>1
  <2>3. /\ Orderly(u, {i}) /\ u.ops = t.ops /\ u.wire = Tail(t.wire) /\ u.handles = hs /\ u.openedFiles = t.openedFiles
        /\ u \in FspStates /\ u.ops \in Seq(ChainOps) /\ u.wire \in Seq(Sent) /\ hs \in [Provider!Handles -> Nat]
        /\ r \in Sent /\ r = t.wire[1] /\ i = r.of /\ i \in DOMAIN t.ops /\ i \in Nat /\ i # 0
        /\ t.ops[i] \in ChainOps /\ Local(t.ops[i]) /\ Matches(r, t.ops[i], t.openedFiles) /\ Waits(t.ops, t.wire, i)
        /\ Parents(t.ops, i, {}) /\ Parents(t.ops, i, {i})
    BY <1>2, <1>3, <1>4, <1>5, <1>6, <1>7, <1>8, <1>9, <1>10, <2>1
  <2>4. \A g \in Provider!Handles : t.handles[g] = i =>
          \/ t.ops[i].source = g
          \/ t.ops[i].target = g /\ t.ops[i].stage # "done"
          \/ r.does = "closeSource" /\ r.h = g
          \/ \E k \in DOMAIN u.wire : u.wire[k].of = i /\ u.wire[k].does = "closeSource" /\ u.wire[k].h = g
          \/ [request |-> i, handle |-> g] \in t.openedFiles
    BY <1>15, <2>1
  <2> HIDE DEF w
  <2>5. \A j \in DOMAIN t.ops : t.ops[j].parent = i =>
          /\ t.ops[i].does \in Directories /\ t.ops[i].stage \in {"children", "closeSource", "rmdir", "done"}
          /\ t.ops[i].stage # "children" /\ ~t.ops[i].failed => t.ops[j].stage = "done" /\ ~t.ops[j].failed
    BY <1>16
  <2> QED  BY <1>12, <1>13, <1>14, <2>2, <2>3, <2>4, <2>5, Zenon DEF AtHand
<1> QED  BY <1>17 DEF u, r, i

(* The one request the operation waits for. *)
OneAtHand(t, u, r, i) ==
  /\ r.does = t.ops[i].stage /\ t.ops[i].stage # "done"
  /\ \A k \in DOMAIN u.wire : u.wire[k].of = i =>
       /\ u.wire[k].does = "chunkWrite" /\ t.ops[i].failed /\ t.ops[i].stage = "closeSource"
       /\ t.ops[i].target # 0 /\ u.wire[k].h = t.ops[i].target
  /\ \A q \in t.openedFiles : q.request # i
  /\ \A g \in Provider!Handles : t.handles[g] = i =>
       t.ops[i].source = g \/ t.ops[i].target = g \/ (r.does = "closeSource" /\ r.h = g)

(* A request that an operation has one of: nothing more of the operation    *)
(* is on the way.                                                           *)
LEMMA OneCame ==
  ASSUME NEW t, NEW hs, NEW u, NEW r, NEW i, AtHand(t, hs, u, r, i), r.does \in OneRequest
  PROVE  OneAtHand(t, u, r, i)
<1> DEFINE op == t.ops[i]
<1>1. Local(op) /\ Matches(r, op, t.openedFiles)
  BY Zenon DEF AtHand
<1>2. r.does = op.stage /\ op.stage # "done" /\ op.stage \in OneRequest
  BY <1>1 DEF Matches, OneRequest
<1>3. op.failed => op.stage \in {"closeSource", "closeTarget"}
  BY <1>1, <1>2 DEF Local, Holding
<1>4. ASSUME NEW k \in DOMAIN u.wire, u.wire[k].of = i
      PROVE  /\ u.wire[k].does = "chunkWrite" /\ op.failed /\ op.stage = "closeSource"
             /\ op.target # 0 /\ u.wire[k].h = op.target
  <2> DEFINE q == u.wire[k]
  <2>1. Matches(q, op, t.openedFiles) /\ Precedes(r, q) /\ r.of = q.of
    BY <1>4, Zenon DEF AtHand
  <2> HIDE DEF q
  <2>2. q.does \in {"chunkRead", "chunkWrite", "write"}
    BY <1>2, <2>1 DEF Matches, Precedes, OneRequest, Many
  <2>3. q.does # "write"
    BY <1>2, <2>1 DEF Matches, OneRequest
  <2>4. op.failed
    BY <1>2, <2>1, <2>2, <2>3 DEF Matches, OneRequest
  <2>5. q.does = "chunkWrite" /\ op.stage = "closeSource"
    BY <1>2, <1>3, <2>1, <2>2, <2>3, <2>4 DEF Precedes, Matches
  <2>6. q.h # 0 /\ q.h = op.target
    BY <2>1, <2>5 DEF Matches
  <2> QED  BY <2>4, <2>5, <2>6 DEF q
<1>5. \A q \in t.openedFiles : q.request # i
  BY <1>2, Zenon DEF AtHand
<1>6. ASSUME NEW g \in Provider!Handles, t.handles[g] = i
      PROVE  op.source = g \/ op.target = g \/ (r.does = "closeSource" /\ r.h = g)
  <2>1. [request |-> i, handle |-> g].request = i
    OBVIOUS
  <2>2. [request |-> i, handle |-> g] \notin t.openedFiles
    BY <1>5, <2>1
  <2>3. \A k \in DOMAIN u.wire : ~(u.wire[k].of = i /\ u.wire[k].does = "closeSource" /\ u.wire[k].h = g)
    BY <1>4
  <2> QED  BY <1>6, <2>2, <2>3, Zenon DEF AtHand
<1> QED  BY <1>2, <1>4, <1>5, <1>6 DEF OneAtHand

(* The operation goes on to its next request: nothing of it is on the way. *)
Continues(t, i, o, h) ==
  /\ i \in DOMAIN t.ops /\ t.ops[i].stage # "done" /\ o \in ChainOps
  /\ o.stage \in OneRequest \ {"close", "closeSource", "closeTarget", "rmdir"} /\ Local(o)
  /\ o.parent = t.ops[i].parent /\ o.on = 0 /\ t.ops[i].on = 0 /\ o.does # "close"
  /\ o.does = t.ops[i].does \/ {o.does, t.ops[i].does} \subseteq Chains \ {"open", "create", "close"}
  /\ o.source # 0 => t.handles[o.source] = i
  /\ o.target # 0 => t.handles[o.target] = i /\ o.target # o.source
  /\ \A k \in DOMAIN t.wire : t.wire[k].of # i
  /\ \A q \in t.openedFiles : q.request # i
  /\ \A j \in DOMAIN t.ops : t.ops[j].parent # i
  /\ h \in {0, o.source, o.target} /\ (o.stage = "copydata" => h # 0 /\ h = o.target)
  /\ o.does \notin {"open", "create"}
  /\ \A g \in Provider!Handles : t.handles[g] = i => o.source = g \/ o.target = g

(* An operation at hand may ask for its next request.                       *)
LEMMA AskNext ==
  ASSUME NEW t, NEW i, NEW o, NEW h, Orderly(t, {i}), Continues(t, i, o, h)
  PROVE  Asking(t, i, o, h)
<1>1. /\ AllLocal(t.ops, {i}) /\ WireOwned(t.ops, t.wire, t.handles)
      /\ WireFits(t.ops, t.wire, t.openedFiles) /\ InTurn(t.ops)
  BY DEF Orderly
<1>2. h \in Numbers
  BY DEF Continues, ChainOps, Numbers
<1>3. Request(o, i, h).does = o.stage /\ Request(o, i, h).of = i /\ Request(o, i, h).h = h
  BY DEF Request
<1>4. Matches(Request(o, i, h), o, t.openedFiles)
  BY <1>3 DEF Matches, Continues, OneRequest
<1>5. h # 0 => t.handles[h] = i
  BY DEF Continues
<1>6. ASSUME h # 0, NEW j \in DOMAIN t.wire, t.wire[j].h = h PROVE t.wire[j].does \notin Provider!Closes
  <2>1. i = OwnerOf(t.ops, t.wire[j]) /\ t.wire[j].of \in DOMAIN t.ops
    BY <1>1, <1>5, <1>6 DEF WireOwned, WireFits
  <2>2. t.ops[t.wire[j].of].on = 0 => t.wire[j].of = i
    BY <2>1 DEF OwnerOf
  <2>3. t.ops[t.wire[j].of].on = i
    BY <2>1, <2>2, <1>6, Zenon DEF Continues, OwnerOf
  <2>4. i # 0
    BY OpOf DEF Continues
  <2>5. t.ops[i].does \in {"open", "create"}
    BY <1>1, <2>1, <2>3, <2>4 DEF InTurn
  <2> QED  BY <2>5 DEF Continues
<1>7. o.stage \in OneRequest
  BY DEF Continues
<1> QED  BY <1>2, <1>4, <1>5, <1>6, <1>7 DEF Asking, Continues

(* What the server does. *)
LEMMA FreeHandle ==
  ASSUME f.handles \in [Provider!Handles -> Nat], \E h \in Provider!Handles : f.handles[h] = 0
  PROVE  Provider!Got \in Provider!Handles /\ f.handles[Provider!Got] = 0
<1> DEFINE I == {h \in Provider!Handles : f.handles[h] = 0}
<1>1. \A h \in Provider!Handles : h \in Nat /\ \A g \in 1..(h - 1) : g \in Provider!Handles /\ g \in Nat /\ g < h
  BY FilesAssumption DEF Provider!ProviderAssumption, Provider!Handles
<1>2. I \in SUBSET Nat /\ I # {}
  BY <1>1
<1>3. PICK x \in I : \A y \in I : x <= y
  BY <1>2, Least
<1>4. x \in Provider!Handles /\ f.handles[x] = 0 /\ \A g \in 1..(x - 1) : f.handles[g] # 0
  <2>1. ASSUME NEW g \in 1..(x - 1), f.handles[g] = 0 PROVE FALSE
    <3>1. g \in I /\ g \in Nat /\ x \in Nat /\ g < x
      BY <1>1, <1>3, <2>1
    <3> QED  BY <1>3, <3>1
  <2> QED  BY <1>3, <2>1
<1>5. \E h \in Provider!Handles : f.handles[h] = 0 /\ \A g \in 1..(h - 1) : f.handles[g] # 0
  BY <1>4
<1> QED  BY <1>5 DEF Provider!Got

(* What the server does with a request but for the data.                    *)
LEMMA ServedIs ==
  ASSUME f \in FspStates, f.wire # <<>>
  PROVE  /\ Provider!Taken = Took(f, f.handles)
         /\ Provider!R.does \in Provider!Opens => Provider!Served = Took(f, [f.handles EXCEPT ![Provider!Got] = Provider!R.of])
         /\ Provider!R.does \in Provider!Closes => Provider!Served = Took(f, [f.handles EXCEPT ![Provider!R.h] = 0])
         /\ Provider!R.does \notin Provider!Opens \cup Provider!Closes \cup {"chunkWrite", "copydata"} =>
              Provider!Served = Took(f, f.handles)
<1> DEFINE w == Tail(f.wire)
<1>1. Provider!Taken = [f EXCEPT !.wire = w]
  BY DEF Provider!Taken
<1> HIDE DEF w
<1>2. [f EXCEPT !.wire = w] = [f EXCEPT !.wire = w, !.handles = f.handles]
  BY DEF FspStates
<1>3. \A hs : [[f EXCEPT !.wire = w] EXCEPT !.handles = hs] = [f EXCEPT !.wire = w, !.handles = hs]
  BY DEF FspStates
<1>4. [f EXCEPT !.wire = w].handles = f.handles
  BY DEF FspStates
<1>5. Provider!Taken = Took(f, f.handles)
  BY <1>1, <1>2 DEF Took, w
<1> DEFINE tk == [f EXCEPT !.wire = w]
<1>6. Provider!R.does \in Provider!Opens => Provider!Served = [tk EXCEPT !.handles[Provider!Got] = Provider!R.of]
  <2>1. Provider!R.does \in Provider!Opens => Provider!Served = [Provider!Taken EXCEPT !.handles[Provider!Got] = Provider!R.of]
    BY DEF Provider!Served, Provider!Opens, Provider!Closes
  <2> HIDE DEF tk
  <2> QED  BY <1>1, <2>1 DEF tk
<1>7. Provider!R.does \in Provider!Closes => Provider!Served = [tk EXCEPT !.handles[Provider!R.h] = 0]
  <2>1. Provider!R.does \in Provider!Closes => Provider!Served = [Provider!Taken EXCEPT !.handles[Provider!R.h] = 0]
    BY DEF Provider!Served, Provider!Opens, Provider!Closes
  <2> QED  BY <1>1, <2>1
<1>8. Provider!R.does \notin Provider!Opens \cup Provider!Closes \cup {"chunkWrite", "copydata"} => Provider!Served = Provider!Taken
  BY DEF Provider!Served
<1> HIDE DEF tk
<1>9. /\ [tk EXCEPT !.handles[Provider!Got] = Provider!R.of] = [tk EXCEPT !.handles = [tk.handles EXCEPT ![Provider!Got] = Provider!R.of]]
      /\ [tk EXCEPT !.handles[Provider!R.h] = 0] = [tk EXCEPT !.handles = [tk.handles EXCEPT ![Provider!R.h] = 0]]
  OBVIOUS
<1>10. \A hs : [tk EXCEPT !.handles = hs] = Took(f, hs)
  BY <1>3 DEF Took, tk, w
<1>11. tk.handles = f.handles
  BY <1>4 DEF tk
<1> QED  BY <1>5, <1>6, <1>7, <1>8, <1>9, <1>10, <1>11

(* The hand after what the server does. *)
LEMMA Opened ==
  ASSUME Orderly(f, {}), f.wire # <<>>, Provider!R.does \in Provider!Opens, \E h \in Provider!Handles : f.handles[h] = 0,
         NEW hs, hs = [f.handles EXCEPT ![Provider!Got] = Provider!R.of]
  PROVE  /\ AtHand(f, hs, Provider!Served, Provider!R, Provider!R.of) /\ Provider!Got \in Provider!Handles
         /\ f.handles[Provider!Got] = 0 /\ hs[Provider!Got] = Provider!R.of
         /\ \A h \in Provider!Handles : h # Provider!Got => hs[h] = f.handles[h]
<1>1. f \in FspStates /\ f.handles \in [Provider!Handles -> Nat] /\ f.wire \in Seq(Sent)
  BY DEF Orderly, FspStates
<1>2. Provider!Got \in Provider!Handles /\ f.handles[Provider!Got] = 0
  BY <1>1, FreeHandle
<1>3. Head(f.wire) \in Sent
  BY <1>1, HeadAndTail
<1>4. /\ hs \in [Provider!Handles -> Nat] /\ hs[Provider!Got] = Provider!R.of
      /\ \A h \in Provider!Handles : h # Provider!Got => hs[h] = f.handles[h]
  BY <1>1, <1>2, <1>3 DEF Sent, Provider!R
<1>5. Handled(f, hs)
  BY <1>2, <1>4 DEF Handled, Provider!R
<1>6. AtHand(f, hs, Took(f, hs), Head(f.wire), Head(f.wire).of)
  BY <1>5, TakeHand
<1>7. Provider!Served = Took(f, hs)
  BY <1>1, ServedIs
<1> QED  BY <1>2, <1>4, <1>6, <1>7 DEF Provider!R

(* A close that the server serves.                                          *)
LEMMA Closed ==
  ASSUME Orderly(f, {}), f.wire # <<>>, Provider!R.does \in Provider!Closes,
         NEW hs, hs = [f.handles EXCEPT ![Provider!R.h] = 0]
  PROVE  /\ AtHand(f, hs, Provider!Served, Provider!R, Provider!R.of) /\ Provider!R.h \in Provider!Handles
         /\ hs[Provider!R.h] = 0 /\ \A h \in Provider!Handles : h # Provider!R.h => hs[h] = f.handles[h]
<1>1. f \in FspStates /\ f.handles \in [Provider!Handles -> Nat] /\ f.wire \in Seq(Sent)
  BY DEF Orderly, FspStates
<1>2. Provider!R \in Sent /\ 1 \in DOMAIN f.wire /\ Provider!R = f.wire[1]
  BY <1>1, HeadAndTail DEF Provider!R
<1>3. Provider!R.h # 0
  BY <1>2, ClosedIsOwn
<1>4. Provider!R.h \in Provider!Handles
  BY <1>2, <1>3 DEF Sent, Numbers
<1>5. /\ hs \in [Provider!Handles -> Nat] /\ hs[Provider!R.h] = 0
      /\ \A h \in Provider!Handles : h # Provider!R.h => hs[h] = f.handles[h]
  BY <1>1, <1>4
<1>6. Handled(f, hs)
  BY <1>5 DEF Handled, Provider!R
<1>7. AtHand(f, hs, Took(f, hs), Head(f.wire), Head(f.wire).of)
  BY <1>6, TakeHand
<1>8. Provider!Served = Took(f, hs)
  BY <1>1, ServedIs
<1> QED  BY <1>4, <1>5, <1>7, <1>8 DEF Provider!R

(* A request that changes no handle and no data.                            *)
LEMMA Passed ==
  ASSUME Orderly(f, {}), f.wire # <<>>
  PROVE  /\ AtHand(f, f.handles, Provider!Taken, Provider!R, Provider!R.of)
         /\ Provider!R.does \notin Provider!Opens \cup Provider!Closes \cup {"chunkWrite", "copydata"} =>
              AtHand(f, f.handles, Provider!Served, Provider!R, Provider!R.of)
<1>1. f \in FspStates /\ f.handles \in [Provider!Handles -> Nat]
  BY Zenon DEF Orderly, FspStates
<1>2. Handled(f, f.handles)
  BY <1>1 DEF Handled
<1>3. AtHand(f, f.handles, Took(f, f.handles), Head(f.wire), Head(f.wire).of)
  BY <1>2, TakeHand
<1> QED  BY <1>1, <1>3, ServedIs DEF Provider!R

=============================================================================

--------------------------- MODULE CommandInstance ---------------------------
(***************************************************************************)
(* The Secure Shell command of a page (nassh_command_instance.js): from a  *)
(* profile to a running ssh program, the dialog at its end, reconnecting,  *)
(* and the file system a mount makes of the connection.  connecting is the *)
(* await the connection is in.  io is the stack of hterm.Terminal.IO, each *)
(* named for what takes its keys.  A program that asks for a password is   *)
(* blocked in that system call.                                            *)
(***************************************************************************)
EXTENDS Integers, Sequences, SequencesExt

CONSTANT MaxConnections   \* bound: connections of a page

CommandAssumption == MaxConnections \in Nat \ {0}

VARIABLES
  app,      \* of the profile; "api" is a mount of another page by message
  s         \* the command, its programs, the terminal's io and the mount

commandVars == <<app, s>>

Apps == {"ssh", "mosh", "sftp", "mount", "api"}
IsSftp == app \in {"sftp", "mount", "api"}
Live == {"running", "prompting", "exiting"}

Start ==
  [connecting |-> "profile", exited_ |-> FALSE, program_ |-> 0, programs |-> <<>>, isMount |-> app = "api",
   unload |-> FALSE, dialog |-> "none", told |-> 0, io |-> <<"none">>, connections |-> 1,
   mounting |-> FALSE, mounts_ |-> FALSE, mounted |-> FALSE, unmounts |-> FALSE, late |-> FALSE]

-----------------------------------------------------------------------------
(* What the handlers are made of, from a state of the command to the next. *)
Push(t, keys) == [t EXCEPT !.io = Append(@, keys)]
Pop(t) == [t EXCEPT !.io = Front(@)]
At(t, await) == [t EXCEPT !.connecting = await]

(* terminateProgram_: of program_ only.  run() is settled by it, but its   *)
(* exit() comes to an exit that has been made.                             *)
Terminate(t) == IF t.program_ = 0 THEN t ELSE [t EXCEPT !.programs[t.program_] = "ended", !.program_ = 0]

(* onUnmountRequested once exit() has no effect. *)
RemoveMount(t) == [t EXCEPT !.mounts_ = FALSE, !.mounted = FALSE]

OnExit(t) == [t EXCEPT !.told = @ + 1]

(* Mutation of Exit: exit() is not guarded against a second call. *)
ExitTwice(t, dialog) ==
  LET ended == Terminate([t EXCEPT !.exited_ = TRUE, !.unload = FALSE])
  IN  IF t.isMount THEN OnExit(RemoveMount(ended)) ELSE Push([ended EXCEPT !.dialog = dialog], "dialog")

(* exit(): "prevent us from reporting an exit twice".  A mount has no      *)
(* dialog.                                                                 *)
Exit(t, dialog) ==
  IF t.exited_ THEN t
  ELSE LET ended == Terminate([t EXCEPT !.exited_ = TRUE, !.unload = FALSE])
       IN  IF t.isMount THEN OnExit(RemoveMount(ended)) ELSE Push([ended EXCEPT !.dialog = dialog], "dialog")

Fail(t) == At(Exit(t, "connectOrExit"), "none")

(* onUnmountRequested, of the Files app or of an unloading page. *)
UnmountRequested(t) == RemoveMount(IF t.mounts_ THEN Exit(t, "connectOrExit") ELSE t)

(* A new program: its Tty takes the keys of the io there is. *)
NewProgram(t) == [t EXCEPT !.programs = Append(@, "running"),
                           !.io = IF app = "api" THEN @ ELSE Append(Front(@), "tty")]

Here == s.connecting # "gone"
Becomes(t) == Here /\ s' = t /\ UNCHANGED app
Awaiting(await) == s.connecting = await

-----------------------------------------------------------------------------
(* Connecting. *)
Init == app \in Apps /\ s = Start

(* connectToArgString: a mount or sftp profile is one from here on. *)
OnProfile(username) ==
  /\ Awaiting("profile")
  /\ LET t == [s EXCEPT !.isMount = @ \/ app = "mount"]
     IN  Becomes(IF username THEN At(t, "relay") ELSE At(Push(t, "input"), "username"))

ProfileFails == Awaiting("profile") /\ app # "api" /\ Becomes(Fail(s))

EnterUsername == Awaiting("username") /\ Becomes(At(Pop(s), "relay"))

(* Options that are wrong, or a relay that refuses; a relay that needs     *)
(* another page takes this one away.                                       *)
OptionsFail == Awaiting("relay") /\ Becomes(Fail(s))
RelayRedirects == Awaiting("relay") /\ Becomes(At(s, "gone"))
RelayThrows == Awaiting("relay") /\ Becomes(At(s, "stuck"))
OnRelay == Awaiting("relay") /\ Becomes(At(s, "certs"))

(* connectToFinalize_ after certificates and policy. *)
OnCertificates == Awaiting("certs") /\ Becomes(At(s, "policy"))
UnknownVersion == Awaiting("certs") /\ Becomes(Fail(s))
OnPolicy == Awaiting("policy") /\ Becomes(At(s, IF app = "mosh" THEN "bootstrap" ELSE "load"))

(* initProgram_.  For mosh an ssh program tells it where to connect to.    *)
OnBootstrap == Awaiting("bootstrap") /\ Becomes(At(NewProgram(s), "mosh"))

OnLoad ==
  /\ Awaiting("load")
  /\ LET t == NewProgram(s)
     IN  Becomes(At([t EXCEPT !.program_ = Len(t.programs), !.unload = TRUE], IF IsSftp THEN "sftp" ELSE "up"))

(* No file system to run it in: nobody catches that. *)
LoadThrows == s.connecting \in {"bootstrap", "load"} /\ Becomes(At(s, "stuck"))

-----------------------------------------------------------------------------
(* The program. *)
Prompts(p) ==
  /\ s.programs[p] = "running" /\ ~(IsSftp /\ Awaiting("up"))
  /\ LET t == [s EXCEPT !.programs[p] = "prompting"] IN Becomes(IF app = "api" THEN t ELSE Push(t, "input"))

Answer(p) ==
  /\ s.programs[p] = "prompting"
  /\ LET t == [s EXCEPT !.programs[p] = "running"] IN Becomes(IF app = "api" THEN t ELSE Pop(t))

ProgramExits(p) == s.programs[p] = "running" /\ Becomes([s EXCEPT !.programs[p] = "exiting"])

(* Mutation of OnExitMessage: only the program of an ssh shell reports. *)
OnExitMessageOfShell(p, parses) ==
  /\ s.programs[p] = "exiting"
  /\ LET t == [s EXCEPT !.programs[p] = "ended"]
     IN  Becomes(CASE p = s.program_ -> IF IsSftp THEN t ELSE Exit(t, "reconnect")
                   [] p # s.program_ /\ parses -> At(t, "load")
                   [] p # s.program_ /\ ~parses -> At([Exit(t, "reconnect") EXCEPT !.unload = TRUE], "stuck"))

(* run() is settled.  When the output of mosh's program cannot be parsed   *)
(* exit() is followed by the rest of connectToFinalize_, which throws.     *)
OnExitMessage(p, parses) ==
  /\ s.programs[p] = "exiting"
  /\ LET t == [s EXCEPT !.programs[p] = "ended"]
     IN  Becomes(CASE p = s.program_ -> Exit(t, "reconnect")
                   [] p # s.program_ /\ parses -> At(t, "load")
                   [] p # s.program_ /\ ~parses -> At([Exit(t, "reconnect") EXCEPT !.unload = TRUE], "stuck"))

(* The SFTP client is there, or the server is none. *)
Talks == s.program_ # 0 /\ s.programs[s.program_] = "running"
OnSftpInitialised ==
  Awaiting("sftp") /\ Talks /\ Becomes(At([s EXCEPT !.mounting = app # "sftp"], "up"))
SftpFails == Awaiting("sftp") /\ Talks /\ Becomes(Fail(s))

(* The shell of sftp quits. *)
CliQuits == app = "sftp" /\ Awaiting("up") /\ ~s.exited_ /\ Becomes(Exit(s, "reconnect"))

-----------------------------------------------------------------------------
(* The mount.  Chrome calls back when it has made the file system, or has  *)
(* not; meanwhile the program may have ended.                              *)
OnMount ==
  /\ s.mounting
  /\ Becomes([s EXCEPT !.mounting = FALSE, !.mounts_ = TRUE, !.mounted = TRUE, !.late = @ \/ s.exited_,
                       !.unmounts = @ \/ app = "mount"])

(* The page's own mount ends with its program, and has the dialog; the one *)
(* of the other page leaves its program running.                           *)
MountFails ==
  /\ s.mounting
  /\ LET t == [s EXCEPT !.mounting = FALSE]
     IN  Becomes(IF app = "api" THEN t ELSE IF s.program_ = 0 THEN [t EXCEPT !.isMount = FALSE]
                 ELSE Exit(Terminate([t EXCEPT !.isMount = FALSE]), "reconnect"))

FilesUnmounts == s.mounted /\ Becomes(UnmountRequested(s))

(* The user leaves the page, or stays after all: beforeunload unmounts the *)
(* file system all the same.                                               *)
Unloads(stays) ==
  /\ app # "api" /\ (stays => s.unload)
  /\ Becomes(At(IF s.unmounts THEN UnmountRequested(s) ELSE s, IF stays THEN s.connecting ELSE "gone"))

-----------------------------------------------------------------------------
(* Keys of the dialog: they reach it only in the foreground. *)
Key == s.dialog # "none" /\ Last(s.io) = "dialog"
Connect == Key /\ Becomes(At(s, "gone"))
Leave == Key /\ Becomes(OnExit(Pop([s EXCEPT !.dialog = "none"])))

(* reconnect() with the same command. *)
Reconnect ==
  /\ Key /\ s.dialog = "reconnect" /\ s.connections < MaxConnections
  /\ Becomes([Terminate(Pop(s)) EXCEPT !.exited_ = FALSE, !.dialog = "none", !.told = 0, !.late = FALSE,
                                       !.connecting = "profile", !.connections = @ + 1])

Next ==
  \/ \E username \in BOOLEAN : OnProfile(username)
  \/ ProfileFails \/ EnterUsername \/ OptionsFail \/ RelayRedirects \/ RelayThrows \/ OnRelay
  \/ OnCertificates \/ UnknownVersion \/ OnPolicy \/ OnBootstrap \/ OnLoad \/ LoadThrows
  \/ \E p \in DOMAIN s.programs :
       Prompts(p) \/ Answer(p) \/ ProgramExits(p) \/ \E parses \in BOOLEAN : OnExitMessage(p, parses)
  \/ OnSftpInitialised \/ SftpFails \/ CliQuits \/ OnMount \/ MountFails \/ FilesUnmounts
  \/ \E stays \in BOOLEAN : Unloads(stays)
  \/ Connect \/ Leave \/ Reconnect

(* Messages of a worker arrive, and Chrome calls back. *)
Messages == \E p \in DOMAIN s.programs, parses \in BOOLEAN : OnExitMessage(p, parses)
Spec == Init /\ [][Next]_commandVars /\ WF_commandVars(Messages) /\ WF_commandVars(OnMount \/ MountFails)

-----------------------------------------------------------------------------
(* Every variable has its type. *)
TypeOK ==
  /\ app \in Apps /\ s.program_ \in 0..Len(s.programs) /\ s.dialog \in {"none", "reconnect", "connectOrExit"}
  /\ s.io # <<>> /\ s.connections \in 1..MaxConnections

IsLive(p) == s.programs[p] \in Live

(* A program that lives is the one the command knows, or mosh's first one; *)
(* after exit() none lives.                                                *)
NoProgramIsLost ==
  \A p \in DOMAIN s.programs :
    (Here /\ IsLive(p)) =>
      /\ ~s.exited_
      /\ \/ p = s.program_
         \/ Awaiting("mosh") /\ p = Len(s.programs)

(* Keys reach what the user sees: the dialog, the prompt, or the program,  *)
(* and no connection leaves an io behind.                                  *)
KeysReachWhatIsShown ==
  (Here /\ app # "api") =>
    /\ s.dialog # "none" => s.exited_ /\ Last(s.io) = "dialog"
    /\ \A p \in DOMAIN s.programs :
         IsLive(p) => Last(s.io) = IF s.programs[p] = "prompting" THEN "input" ELSE "tty"
    /\ Len(s.io) = IF s.dialog # "none" \/ Awaiting("username") \/ \E p \in DOMAIN s.programs : s.programs[p] = "prompting"
                   THEN 2 ELSE 1

(* An exit is told once, the page's guard against leaving goes with it,    *)
(* and so does the file system, unless Chrome had not yet made it; a mosh  *)
(* that does not start keeps the guard.                                    *)
ExitLeavesNothing ==
  /\ s.told <= 1
  /\ s.exited_ => /\ s.unload => app = "mosh"
                  /\ (s.mounts_ \/ s.mounted) => s.late

(* When the program ends the command exits. *)
EndIsReported == (s.program_ # 0 /\ s.programs[s.program_] = "exiting") ~> (s.exited_ \/ ~Here)

=============================================================================

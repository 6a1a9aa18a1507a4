# A verification development for libapps

libapps is a set of browser programs: hterm (a terminal emulator), Secure Shell
(nassh, the OpenSSH client compiled to WASM and run in the browser), the
Terminal app, and the libraries under them (libdot, wasi-js-bindings, wassh).
This directory holds TLA+ specifications of the parts whose correctness depends
on the order in which things happen, TLC configurations that check them on small
instances, and TLAPS proofs of the most important properties for every instance.

## 1. Inventory

How the parts fit together when a user runs `ssh`:

    profiles --> CommandInstance --starts--> WasmSubproc --run()/terminate()--> process
                   |        \--looks up--> relay server                         ^    |
                   |                                              postMessage   |    | SharedArrayBuffer
      page thread: syscall handler --- VFS, sockets, Tty -----------------------+    v (lock, retcode, data)
                       |        ^                               worker thread: the WASM program (ssh)
                       v        | onDataAvailable
                    relay stream (WebSocket/XHR) <---> relay server <---> ssh server

      output of the program --> terminal: parser --> screens --> rows of text
                            \-> SFTP client --> nasftp shell, file system provider
      agent connections     --> ssh-agent --> smart cards
      tmux -CC              --> tmux controller --> one page per window

The page is single threaded: a handler runs to its next `await` and then anything
else may run. The worker is a second thread that shares one `SharedArrayBuffer`
with the page and is blocked in `Atomics.wait` while the page serves its system
call. Everything else is messages: WebSocket events, timers, `postMessage`,
storage events, BroadcastChannels, the answers of servers, cards and Chrome.

| Component | State | Operations | Hard behaviour | What makes it correct |
|---|---|---|---|---|
| Corp v4 relay stream (`nassh_stream_relay_corpv4.js`) | socket, session id, write buffer, counts of bytes read, written and acked, reconnect count | open, write, close; WebSocket open/message/error/close; reconnect and send timers | lost connections, resume with absolute acks, two events per failure, late events, a reconnect delay | each byte once and in order in both directions; one reconnect per failure; closed is closed |
| Corp v1/v2 relay streams (`nassh_stream_relay_corp.js`) | session id, back-off, two XHRs or one WebSocket, write buffer, 24-bit counts | open, write, read/write completion, errors, back-off timer | one of two requests fails while the other succeeds, acks modulo 2^24, resume | as above; never idle with work to do |
| websockify and SSH-FE streams, `RelaySocket` | socket, write buffer, challenge | connect, write, close, WebSocket events | several send timers at once, close from several places | order, the program told of the end |
| Relay set-up (`nassh_relay_corp.js`) | session storage, the page's path, stage of the direct request | init, redirect, the relay page, fetches, popup | the user goes elsewhere with a lookup half done; redirect loops | the relay used was found for this destination; a lookup ends |
| Write buffers (`nassh_buffer_*.js`) | data, read and ack cursors | write, read, ack | short reads, acks inside or across buffers | reads return the stream, acks release what was acked |
| Syscall bridge (`wasi-js-bindings/js`) | lock word, return code, data in shared memory; messages; the promise of `run()` | dispatch, wait, unlock, exit, signal, error, terminate | two threads, lost or late wake-ups, several ways to end | n-th call gets n-th answer; `run()` settles once, with the first ending |
| Polling, signals, reads (`wassh/js/syscall_handler.js`, `process.js`) | queue of signals, notify callback, sleep timer, data of descriptors, waiting reader | poll_oneoff, fd_read, data and signal arrival | data arrives around a sleep, timeout races data, vectored reads | no lost wake-up; signals and bytes once, in order |
| Sockets (`wassh/js/sockets.js`) | handle, clients, reader, accept callback | accept, read, write, close, events | events during awaits, close while waiting, two closes | every waiter is woken, clients once each |
| VFS (`wassh/js/vfs.js`) | descriptor table, mounts | open, dup, dup2, close, renumber | shared handles, full table | a handle lives as long as a descriptor refers to it |
| SFTP client (`nassh_sftp_client.js`) | request counter, pending requests, input buffer | requests, packet parsing, chunked reads | replies out of order and in pieces, cancelling | each request settles once with its own reply; chunks in order |
| nasftp shell, file system provider | input line, jobs; operations and handles | commands, interrupts, completion; requests of the Files app | many chains at once, any of which fails | no handle left open, success only when all is there, the prompt comes back |
| ssh-agent, smart card back end | connections, keys, PIN cache, tries left | identities, signatures, prompts, lock screen | several signers and a stale PIN | no cached PIN blocks a card |
| Command instance (`nassh_command_instance.js`) | stage of the connection, programs, stack of inputs, mount | connect, exit, reconnect, mount | every await may be overtaken by the user or the program | nothing outlives its command; its end is told once |
| Profiles (`lib_preference_manager.js`, `lib_storage_*.js`) | list, managers, condensers, storage area | create, edit, remove, import, load | several pages write at once | pages agree with storage |
| Terminal (`hterm_*.js`) | screens, rows of text, parser state, keyboard and mouse modes | control sequences, printing, resizing, keys, mouse events | any order of operations, output cut anywhere, modes that change while a key or button is down | cursor, rows and regions fit; cutting output changes nothing; a key or click goes to one place once |
| tmux integration (`tmux.js`, `terminal_tmux.js`) | command queue, windows, pages | commands and notifications | windows come and go during their capture | each page shows its pane, the controller knows tmux's windows |

`PROJECT.json` lists every component with its status, and under "hazards" each
hard place at its line with the properties about it.

## 2. Modules

| Module | Models | Kind |
|---|---|---|
| `StreamBuffer` | what `BufferInterface` promises, as three positions | operators and actions used by others |
| `BufferContract` | the same as a specification | abstract |
| `ConcatBuffer`, `ScatGatBuffer`, `MCBuffers` | the two buffer classes | implement `BufferContract` |
| `OrderedPipe` | one direction of a byte stream | abstract |
| `RelayCorpv4` (`MCRelayCorpv4` for TLC) | `RelayCorpv4WsStream` with its WebSocket and relay | implements `OrderedPipe`; contains a `StreamBuffer` |
| `RelayCorp` | `RelayCorpXhrStream` and `RelayCorpWsStream` with their requests, WebSocket and relay | implements `OrderedPipe`; contains a `StreamBuffer` |
| `RelaySimple` | websockify and SSH-FE streams under a `RelaySocket` | implements `OrderedPipe` both ways |
| `RelaySetup` | the search for a Corp relay | |
| `Preferences` | the profiles as several pages see them | |
| `RemoteCall` | calls answered one at a time | abstract |
| `SyscallBridge` | worker, shared memory, page, `WasmSubproc` | implements `RemoteCall` |
| `PollOneoff` | poll, signals and reads | |
| `WasshSockets` | a connected and a listening socket of each back end | |
| `FdTable` | the descriptor table | |
| `SftpClient` | packets, requests, chunked reads | |
| `NasftpCli` | the nasftp shell | |
| `SftpFsp` | the file system provider | |
| `CommandInstance` | the command of a page | |
| `SmartCardAgent` | ssh-agent, smart cards, PIN cache | |
| `VtParser`, `TerminalScreen`, `ScreenText`, `ScrollPort` | the terminal's parser, screens, rows, and rows in the document | |
| `TerminalKeyboard`, `TerminalMouse` | what keys and the mouse do, to the program or to the page | |
| `TmuxControl` | the tmux integration | |
| `MCConnections`, `MCProgram`, `MCFiles`, `MCComponents` | several of these in one run each | for TLC |
| `RelayCorpv4_proofs`, `SyscallBridge_proofs` | | proofs about these modules |
| `Preferences_proofs` | | proofs about `Preferences` |
| `Connections_proofs`, `Program_proofs` | | proofs about the parts of `MCConnections` and `MCProgram` |
| `Files_proofs`, `Handles_proofs` | | proofs about the parts of `MCFiles`, and about `FdTable` |
| `QueueLemmas` | | lemmas about queues and counting |

The four large MC modules hold several components side by side: a variable
`kind` says which one a behaviour is about, the others stay as they begin. A
property of a component is then stated under its `kind` or holds trivially of
the others. The state spaces add up, they do not multiply.

### RelayCorpv4

Bytes are numbered from 1 in each direction. A DATA packet is a range `lo..hi`, a
count a position, so duplication, reordering and loss show in the numbers that
arrive. `written`, `writeCount_` and `writeAckCount_` are the three positions of
`writeBuffer_` (through `INSTANCE StreamBuffer`), `readCount_` the bytes
delivered. `ws` is the newest WebSocket's `readyState`; an earlier one has had
its callbacks removed and cannot be heard of again. `c2s` and `s2c` are the two
directions of the connection; `events` the error and close events the browser
has still to dispatch. The class's `open()` promise, timers (`sendTimers`,
`reconnectTimers`) and the URI of the reconnect, whose ack is computed
`RECONNECT_DELAY` before the socket is made (`resumeAck`), are variables.

One action per handler: `Open` (open, open_, connect_), `Write`, `OnSendTimer`
(both `sendWrite_`), `HostClose`, `OnSocketError`, `OnSocketClose`,
`OnReconnectTimer`, `OnSocketOpen`, and one per packet tag of `onSocketData_`.
`WsFail`, `WsServerClosed`, `WsCloseDone` and `Srv*` are the environment: a
reliable connection until it fails, when everything in flight is lost, and a
relay that keeps the session, passes bytes on, acks them, and after a resume
sends again from the position the client gave. `ServerFaulty` lets it ack
backwards, which makes the client's "Reverse ack" branch reachable.

`bufferedAmount` over its limit is a choice, possible only while something is in
flight. Latency statistics and overlays are left out. A payload is its number.

### Buffers

`StreamBuffer` says what the users rely on. `BufferContract` makes a
specification of it, in which `out` is what the last read returned.
`ConcatBuffer` (one array and a position, with the clamping and negative indexes
of `subarray`) and `ScatGatBuffer` (a map of queued buffers, a read cursor and an
ack cursor) keep real byte sequences. `MCBuffers` holds one of the two, chosen in
its initial state, and is checked to implement the contract under a refinement
mapping: `read` is `written` minus the unread count, `acked` is `written` minus
what is held. Callers ack what they have read; those of `ScatGatBuffer` also ack
when it is empty, as the repository's own buffer tests do.

### RelayCorp

The two classes of `nassh_stream_relay_corp.js` share a base class, so they share
a module: `transport` says which one a behaviour is about. `ResumeRead` and
`SendWrite` are the two methods each class overrides; `RequestSuccess`,
`RequestError` and `OnBackoffExpired` are the base class, called with what the
caller has already changed. For XHR, `readRequest_` and `writeRequest_` hold the
request in flight with the relay's answer; for the WebSocket, `c2s` and `s2c`
hold messages whose counts are taken modulo `Wrap` (2^24 in the code), and `uri`
the counts the newest one was made with. One action per completion of a request
and per event of the socket. A failed request fires an error event and then
loadend in one task; the second report finds the back-off pending, so the two
are one step. `lastWriteSize_` is the size of the request in flight, `wcnt` is
not looked at by the modelled relay, and a relay answers `/read` only when it has
data or the session has ended.

### RelaySimple and RelaySetup

`RelaySimple` is either stream, by `relay`, with the `RelaySocket` whose
`connect()`, `write()` and `close()` a program calls. SSH-FE has three awaits
before its WebSocket, any of which fails; `timers` counts the pending
`setTimeout(sendWrite_)`, of which there may be several.

`RelaySetup` follows one tab: the page it shows, its path, what is in session
storage, and for the direct method the await it is at. The user may open another
destination in the middle of a lookup (`GoTo`), which is what the comparison of
`resumePath` in `init()` is for.

### Preferences

A page's managers are numbered; `childLists_` maps the listed ids to them, and a
dropped manager lives on while its condenser has something under way, as the
closures of the code do. `SyncFrom` is `syncChildList` from one of its awaits to
the next; the calls under way are in `syncs`, with the ids and the managers they
saw when they began. `Edit` is `Condenser.setItems` and `removeItems`: they wait
for `initCache_` and then queue a write, which `OnSyncTimer` makes. The storage
area serves each page's requests in order, refuses writes over the quota, which
`Retry` repeats a second later behind those made meanwhile, and tells every page
of a change of the list. Nobody watches the condensed keys.

### SyscallBridge

The worker is a program counter (`worker`); shared memory is `lock`, `retcode`
and `data`; the page is the queue `toMain`, the stage of each call's handler
(`handling`), the `resolve_` of `run()` and its `outcome`. The n-th call is the
number n and so is its answer. `Dispatch`, `Wait` and `Return` are the three
parts of `dispatch_` between which the page may run; `OnSyscall`,
`HandlerErrno`/`HandlerObject`, `SetRetcode`, `Store` and `Notify` are the parts
of `onMessage_syscall` between which the worker may run. `Idle` keeps page code
from being interrupted by other page code. Exits, signals, traps and errors are
messages as in the code; `Terminate` settles the promise and kills the worker;
`HostTerminate` is `WasmSubproc.terminate`.

`LateNotify` says whether the `Atomics.notify` of one call may come after the
worker has gone to sleep in the next. It can in principle (the two statements of
`unlock()` are not atomic), which is what `syscall_bridge_wait` finds; the other
bridge properties hold where the page is not suspended for that long, and the
proofs assume it.

### PollOneoff, WasshSockets, FdTable

`poll` is the place of `handle_poll_oneoff`: scanning, sleeping, woken, replied.
A sleep is a number; `timers` holds the `setTimeout` of each and `notify_` the
one the callback would end, so a stale timer or callback shows. `queue` is
`signal_queue`; `data` the bytes of each descriptor. `Read`, `FillIov`,
`BlockReader`, `ReadAgain` and `ReadReturn` are `sys_fd_read` over a terminal or
a `StreamSocket`, one buffer of one byte at a time. A poll has at most one clock
subscription (the code takes the earliest of several), and everything ready at
once (a regular file, a write, a bad descriptor) is the one subscription `Ready`.

`WasshSockets` has one connection (Chrome's API, Direct Sockets, the relay or a
pair of Unix sockets) and one listening socket. The closing of a web socket is a
sequence of three awaits that the program and the read loop may both be in
(`closers`); `unpausing` and `arriving` are the awaits and the loop of accept.

`FdTable` numbers handles in the order they are made. Each system call that
changes the table is one action, with the search for a free number as the code
makes it, from the last one on and round.

### SftpClient, NasftpCli, SftpFsp

`SftpClient` has the output of the program cut into units (a packet is three,
two of them its length), the parser's buffer, and one or more transfers of
`readFile`, each with the chunk it asks for ahead of the callback. The server
answers requests in any order and may shorten what it returns.

`NasftpCli` has the input line, the keys typed while `holdInput_` is set, the
history, and the jobs: a command, a completion, or a late choice of a file.
Commands that differ only in their requests are one. With `LatePick` a file
picked for `put` after ^C starts its upload beside the next command, which
breaks `PromptMeansIdle`; the run has it off.

`SftpFsp` has for each operation the stage of its chain, and for the server the
handles it has given out, whose numbers it reuses as OpenSSH's does. Copies and
removals of directories are operations with children. Replies come in the order
of requests.

### CommandInstance

`connecting` is the await a connection is in, from its profile to its running
program; mosh has two programs one after the other. `io` is the stack of
`hterm.Terminal.IO` with what takes the keys at each level. `mounted` and the
unmounting by the Files app, by the exit and by the page go through `RemoveMount`
and `UnmountRequested`. `late` marks a mount whose success callback came after
the connection had died, which the properties except.

### SmartCardAgent

Connections ask one agent for identities and signatures; a signature goes
through the reader, the card's counter of tries, the cached PIN and the user's
prompt, one step between two awaits. The lock screen empties the cache at any
time. The cards are the environment: they count the tries that are left.

### VtParser, TerminalScreen, ScreenText, ScrollPort

`VtParser` interprets the pieces in which output arrives and is compared with
the same parser given everything at once: `out` must be the same after the last
character. `TerminalScreen` takes a terminal `t` through every operation of the
screens (printing, scrolling, inserting, erasing, switching, resizing) with the
row numbers of screen and scrollback. `ScreenText` keeps one row as nodes with
styles and the cursor's node and offset, next to the row as a user sees it.

`ScrollPort` is the part of the document that shows rows: the nodes between its
two folds, which of them `redraw_` reuses, draws or removes, the rows it keeps
because the selection is in them, and what `onCopy` puts between them. The rows
provider is a list of row objects, as the terminal's are: they are renumbered
when a row is inserted in the middle, and dropped at either end. A redraw is a
sequence of operators, one for each method it calls, applied in its order;
`error` is set where the code would throw. The timers of `scheduleRedraw` and
`scheduleInvalidate` fire at any time.

### TerminalKeyboard, TerminalMouse

`TerminalKeyboard` takes a keydown through `onKeyDown_` as the code does: AltGr,
bindings, the key map, `altSendsWhat`, STRIP, the modifier parameter, and then the
browser's keypress if nothing prevented it. A key stands for all keys with the same
row of the map; what is sent is a record. The Alt keys that are really down (`alts`)
stand beside those the keyboard believes in (`altKeyPressed`), with the focus coming
and going. `TerminalMouse` has `onMouse_` and `onTerminalMouse_` in parts: who owns the
mouse (`defeatMouseReports_`), what is reported, and what the browser selects. `seen`
is what a program that reads the reports takes for pressed.

### TmuxControl

The controller's queue of commands and their replies, windows and panes, the
pages that are being opened for windows, and the ways in which control mode ends.
tmux is the environment; it answers in order and reports its windows. `version`
says how it exits, `garbled` whether it may send what is not understood.

## 3. Runs

| Run | Components (`kind`) | Shows |
|---|---|---|
| `connections` | `corp`, `plain` (Corp v4 without resume), `simple`, `setup`, `profiles` | `NeverIdle`, `CountsInv`, `DownSpec`: a Corp v1/v2 stream keeps both directions going, keeps its counts across the wrap, and is an ordered pipe downstream. `OrderedPipes`: so are the streams that do not resume, upstream too, where they are never to lose anything. `LookupsAreRight`: the relay used was found for this destination. `PagesSeeTheSame`: a quiet page has the stored list and its last edits are stored. `WorkGetsDone`: all of them come to rest with their work done |
| `corpv4_resume` | Corp v4 with resume | `DownstreamInv`, `DownSpec`: an ordered pipe downstream over two failures anywhere. `UpstreamInv`: nothing sent twice, acks in bounds, no queued byte forgotten. `LostIsResumedOrClosed`, `DataMoves`, `ClosedIsFinal` |
| `program` | `bridge`, `late`, `poll`, `polls`, `sockets` | `BridgeInv`, `AnswersMatchCalls`, `CallsEnd`, `SettledStays`: calls get their own answers and `run()` settles once. `PollsAreTrue`, `ReachesProgram`, `PollsEnd`: polls, signals and reads. `SocketsInOrder`, `SocketAwaitsEnd`: nobody waits in vain |
| `files` | `file`, `asks`, `shell`, `provider`, `command` | `ChunksInOrder`, `NothingAfterCancel`, `RequestsEnd`: the SFTP client. `PromptMeansIdle`, `PromptComesBack`: the shell. `ChainsAreSound`: the provider. `ExitLeavesNothing`, `EndIsReported`: the command |
| `components` | `table`, `buffers`, `screen`, `row`, `parser`, `agent`, `tmux`, `scroll`, `keyboard`, `mouse` | safety of the sequential components and of the agent and tmux: `DescriptorsHold`, `BuffersKeepContract`, `TerminalHolds` (screens, document, keyboard and mouse), `RowShowsItsText`, `SplitIsHarmless`, `CachedPins`, `PagesShowTheirWindows` |

`TypesOK` in a run is the types of all its parts. Properties of several parts are
conjunctions of named ones, defined and explained in the components' modules.

Runs that find the code at odds with what its docs or comments say:

1. `corpv4_gap`: after a resume the write buffer is not rewound, so bytes lost
   with the old connection are never sent again.
2. `corp_gap`: a failed `/write` has moved the buffer's read position, so its
   bytes are never sent again and the next ones go out under the same `wcnt`.
   (The WebSocket transport has the gap of `corpv4_gap` as well.)
3. `syscall_bridge_wait`: a late notify ends the wait of the next call.
4. `syscall_bridge_trap`: traps other than `unreachable` hang `run()`.
5. `poll_oneoff_signals`: signals do not end a poll that has a timeout.
6. `fd_dup2`: `fd_dup2` duplicates under another number than the one asked for.
7. `preferences_sync`: two overlapping `syncChildList` calls leave a page with
   managers of another list than the one it has.

### Seen while modelling, without a run of their own

The models do these things as the code does; the properties are stated so that
they hold of it. Each is worth a look by whoever owns the code.

*Relay streams and set-up.*
* `close()` is inherited from `Stream` (`nassh_stream.js:39`): it tells the host
  and leaves the socket or the requests going, so data may be delivered after it,
  and a program's `RelaySocket.close()` leaves the stream's WebSocket open.
* An ack on an empty `ConcatBuffer` makes its read position negative
  (`nassh_buffer_concat.js:55`). `newBuffer()` returns a `ScatGatBuffer`, which
  does not mind.
* After 410 on `/write` the session id is kept and the read goes on until it gets
  its own 410, which calls `onClose` a second time
  (`nassh_stream_relay_corp.js:334`).
* The `open()` of SSH-FE and websockify resolves before the WebSocket is up.
* `init()` of the Corp relay compares only `resumePath`, so an answer left in the
  history by an earlier lookup may serve a later one for the same path.

*The program and its page.*
* A poll with only a timeout that a signal or data cuts short still reports the
  timeout (`wassh/js/syscall_handler.js:520`); a timeout over 2^31 ms fires at
  once (`:476`).
* A vectored non-blocking read whose later buffer finds nothing loses what the
  first one read (`wasi-js-bindings/js/syscall_entry.js:662`).
* `dup2` with an undefined handle leaks a descriptor; the `close()` of a file
  handle is not awaited (`vfs.js:568`, `:945`).
* Bytes not yet read are lost when a web or Unix socket closes; clients that were
  never accepted are never closed; two closes of a web socket may overlap;
  `close()` of a relay socket wakes nobody (`sockets.js:1171`).

*SFTP.*
* A callback that throws does not cancel its transfer, so a READ may follow the
  CLOSE; pending promises never settle when the connection dies
  (`nassh_sftp_client.js:164`); a reply with an unknown id throws and leaves the
  packets behind it for the next data (`:142`).
* `copyFile` relies on full reads, and with a server that answers out of order a
  WRITE may come after the CLOSE. A directory's copy or removal goes on after its
  failure was reported. The provider does not answer when nothing is mounted, and
  keeps an `openedFiles` entry whose close failed.
* nasftp: keys typed during a completion are held until the next key
  (`nasftp_cli.js:1109`); a file picked after ^C starts its upload beside the next
  command (`:2880`); ^C during Tab leaves `userInterrupted_` set; a failed upload
  of several files leaves the rest; commands pasted after `quit` still run; ^C at
  the prompt does not reset `historyPosition_`.

*Command instance.* A mount's success callback after the program's end leaves a
dead file system mounted (`nassh_command_instance.js:1669`); a failed mosh start
leaves the 'beforeunload' handler (`:1238`), and `connectToFinalize_` then
throws; an exception of `relay.init()` or of `initWasmSubproc_` leaves no dialog;
unmounting from the Files app unmounts twice and answers FAILED; 'beforeunload'
unmounts even if the user stays (`:610`); a reconnect adds the SFTP listeners
again.

*Agent.* A REQUEST_IDENTITIES of one connection empties `identityToBackendID_`
while another signs (`nassh_agent.js:199`); a list beside another finds the
reader held and loses its keys; a lock resets `enabled_`; Escape at the prompt to
cache the PIN fails a signature whose PIN was right; a `disconnect()` that throws
in `finally` skips `releaseContext`; `SshAgentStream` sends at most one packet
per write.

*Terminal.* `insertLines` leaves the region's last row as it was; below the
region it moves the cursor's row up; `cursorLeft` with reverse wraparound by a
multiple of the width stays in its row; growing the window while the alternate
screen is shown takes rows of the primary's scrollback; a row stays marked as
overflowing after the screen was widened; `CSI ?40h` sets the terminal's
`allowColumnWidthChanges_` where mode 3 looks at the parser's. A wide character
for which only the last column is left is never printed
(`hterm_terminal.js:2213`); inserting in the middle of a wide character puts the
text at the row's end; `expandSelection` takes string indices for columns
(`hterm_screen.js:985`). In the document, `insertRow_` (`hterm_terminal.js:2098`) renumbers rows and
`realizeHeight_` pops rows without telling the scroll port, so that rows with
equal numbers are taken for each other until the next invalidation, and a redraw
meanwhile may break a selection or throw; `clearScrollback` at the end draws with
the old `scrollTop`; `Selection.sync` reads an `autoScrollEnabled_` that a
`ScrollPort` does not have; a selection dragged onto a fold is lost when the fold
moves. In the parser, a device control string with two
parameters that is cut before its terminator is abandoned, `ESC %` cut before its
letter loses it, and CAN or ESC inside a CSI with ':' leaves its subarguments.

*Keyboard and mouse.* Ctrl+Shift+Tab sends `CSI 1;2Z`, not the `CSI Z` of the comment at
`hterm_keyboard.js:493`, as `maskShiftKey` is set too late on the STRIP path. Ctrl with
a digit of the keypad sends ESC and Alt or Meta with one sends `ESC [`: the cap
`[KP0]` is taken for a character. Alt+Shift+Space sends a lone ESC. Home and End with
application cursor keys ignore Meta. With `altIsMeta`, Alt+V is left to the browser
and arrives as a plain v. `alt-sends-what` changed while mode 1039 is on is undone
when the mode is reset. A press with Alt is reported and its release is not;
`lastMouseDragResponse_` outlives the drag, so the first motion of the next one may
be missing; with several buttons down the first release gives the mouse back and a
release nobody saw pressed may be reported. `VT.reset` leaves keyboard modes,
`reportFocus`, `scrollWheelArrowKeys_` and the mouse style as they are; modes 1010 and
1011 set `scrollOnOutput` and `scrollOnKeystroke` where the code reads
`scrollOnOutput_` and `scrollOnKeystroke_`.

*tmux.* A window that ends before its page connects leaves the page empty; a
request to open a window that has timed out takes the next window
(`terminal_tmux.js:167`), as `cleanUpPendingOpenWindowRequests_` (`tmux.js:395`)
does not empty its array; a key, resize or kill for a window that has just ended
gets an `%error`, which detaches everything; a compound command of the
pseudo-tmux shifts the replies (`terminal_tmux.js:100`); commands in flight when a
tmux before 3.2a exits are typed into the shell.

*Profiles.* Pages never see other pages' writes of condensed values and overwrite
them; after an import other pages show what they had; the migration to one key
removes the old ones before the new one is written; a removed profile leaves
`{}` stored; a refused write is repeated behind later ones, and for any error
(`lib_storage_chrome.js:21`); `setPrefix` during a sync of the list
(`lib_preference_manager.js:86`, `:123`); two pages that create profiles at once
lose one of them; `syncProfiles_` of the connect dialog splices index -1 when a
profile is not among the dead (`nassh_connect_dialog.js:805`).

### Bounds

The bounds are in the cfg files, those of most parts of the large MC modules in the
modules, next to the INSTANCE they are for.

* Corp v4 with resume: 2 bytes each way in packets of 1, `MaxDrops` 2: a failure
  while connecting, while open and while resuming, and a failure of the reconnect
  itself. `RECONNECT_LIMIT` is 2 instead of the code's value; it is reached when
  the session has ended, as then every reconnect fails without counting as a
  drop. Without resume: 3 bytes up in packets of 2 (a write split over two
  packets, one acked and one not; an ack of part of what is out), 1 failure.
* Corp v1/v2: 3 bytes up, 2 down, messages of 1 byte, counts modulo 3, so the
  count of bytes acked wraps; the WebSocket never has `Wrap` bytes unacked in
  either direction. Two failures: one per direction at once, a failure of the
  retry, and with the session's end in between.
* Websockify, SSH-FE: 3 bytes each way, so that three send timers can be pending.
* Relay set-up: 2 destinations and 3 visits: a lookup, another in the middle of
  it, and the first one again. Profiles: 2 pages, 2 ids, one value, 2 edits, which
  is enough for two edits to cross in either order.
* Calls 1 to 4: a call, its successor whose answer could be mixed up with it, and
  more. `Statuses` has 0 and one failure.
* Polls 2, signals 2, bytes 2, time 1 (2 in the violation run): a poll after a
  poll that left something behind; two signals and two bytes show an order.
* Reads have one buffer (`MaxIovs` 1), as `read()` makes them. With two,
  `BytesReachProgram` fails: `sys_fd_read` (`wasi-js-bindings/js/syscall_entry.js:651`)
  returns the errno of a later buffer and drops what the earlier ones got.
* Sockets: 2 clients, so that one arrives while the other is being handed over.
* SFTP client: one file of 3 bytes, or of 1 beside another request, read in chunks
  of 2, the whole or 1 byte of it, short reads included;
  the provider: 2 requests of all kinds at a time, in 2 chunks; the shell: 3 keys
  beyond the commands; the command: 3 connections.
* Buffers: 6 bytes, 4 buffers, in writes, reads and acks of up to 3, so reads
  span buffers and end inside them.
* Descriptors up to 5 (6 in `fd_dup2`; the search for a free one goes round), as many
  handles, 4 calls.
* Screens up to 2 by 3 and 4 operations; a view of 2 or 3 rows, 2 above it, 5 in
  all, 3 operations; a row of 3 columns, 3 edits, wide
  characters included; the parser: every text of 5 of the characters that change
  its state, cut at every place into pieces of at most 2.
* Agent: 2 connections, 2 readers, 2 PINs of which one is right, 2 tries,
  3 requests. tmux: 2 windows, one user's wish of each kind.
* Keyboard: every key under every combination of modifiers and preferences (of the
  two Alt keys only the right one is AltGr, as they are treated alike), 2 changes of
  mode, focus or bindings, so that a mode is set and reset and a binding replaced.
  Mouse: 2 buttons, 2 places, 2 changes of mode, any number of events.

`CHECK_DEADLOCK FALSE` is set in every run: a stream that has closed, a program
that has ended, a command that has exited or a bound that is reached stops, as it
should. That nothing stops too early is what the liveness properties say. They
are of the form `<>[]` or `[]<>` of a predicate that says "all that was begun has
ended", since inputs are bounded.

### Fairness

* Relay streams: timers fire, queued events are dispatched, a connection attempt
  ends, messages on a connection that stays up arrive, the relay answers a
  request that it can answer and passes on what it has. That is the event loop
  and TCP. Nothing obliges the host to write, the ssh server to produce data, or a
  connection to fail. Weak fairness suffices: failures are bounded, so nothing is
  switched off and on for ever while it waits.
* Relay set-up: fetches, redirects and the popup's answer come; the user need not
  go anywhere.
* Profiles: the storage area answers and tells, timers fire (`GoOn`).
* Bridge: both threads run on when not blocked, and messages are delivered. A
  handler need not answer, the program need not end.
* Poll: time passes, timers fire, both threads run on. Nobody must send anything.
* Sockets, SFTP, shell, provider, command: awaits end, the server and Chrome
  answer. The user need not type, and programs need not end.
* `components` has no liveness and states no fairness.

Where several actions exclude each other (the stages of one handler), one weak
fairness condition covers them together.

## 4. Proofs

TLAPS checks every theorem for all values of the constants that satisfy the
modules' assumptions, so for any number of bytes, failures, calls, descriptors,
sockets, signals, pages and profiles. The assumptions are types, `MaxLen`, `Chunks` and `Wrap`
not zero, that the clock a poll waits for is not the name of a socket, that there
is a profile and none is stored under the name of the list, that the words of the
nasftp shell are those of its script, and that a page may connect once. A theorem that needs more
says so: `~LateNotify` where the late wake-up is what breaks it (run
`syscall_bridge_wait`), `~Resume` where the gap after a resume is (run
`corpv4_gap`), `MaxIovs = 1` where a vectored read is (see Bounds). TLC checked each
invariant below on the runs before it was proved.

*RelayCorpv4_proofs, downstream.* `DownstreamExactlyOnce` alone is not inductive:
that the next DATA packet continues what has been delivered depends on what is in
flight, that on where the relay resumed, and that on the ack in the URI, made
earlier. `DownstreamInv` adds exactly this: `ConnectionStates` (which variables can
be set at which point of the connection's life), `DownstreamInFlight` (the DATA
packets in flight carry `readCount_+1 .. srvSent`, no gap, no repeat),
`ResumeAckCurrent` (nothing is read between making the URI and using it),
`ClientAcksAreRead` and `SingleReconnect` (no second socket). One lemma per group of
actions. From it follow `TypeCorrect`, `DownstreamCorrect`, `OneReconnect`,
`ReportedAckIsCurrent`, and `DownstreamIsAPipe`: every step of the stream is a
`Put`, a `Get` or a stutter of `OrderedPipe`.

*RelayCorpv4_proofs, upstream.* With resuming, bytes may be lost, but none is sent
twice, the acks never go back and no queued byte waits with no timer. That is not
inductive either: an ack that arrives is in order because those in flight are
(`AcksInOrder`), and a byte that arrives is new because the packets in flight are
after what has arrived and before what will be sent (`UpstreamInFlight`,
`UpstreamPositions`). `UpstreamInvariant` is the whole. Without resuming,
`OneConnection` says that the stream's life is one connection whose packets in
flight continue what the server has, up to `writeCount_`. `NoGapWithoutResume`,
`ReleasedWithoutResume` and `UpstreamIsAPipe` follow, and their step lemmas are put
together in `PipeInv`, to be used where such a stream is a part.

*SyscallBridge_proofs.* Under `~LateNotify`, `BridgeInv` is inductive: a program
that waits is one answer behind and one that runs is not (`AnswersKeepUp`); only
the newest call is posted or served, with the lock taken, and its answer is
complete before the unlock (`ServedIsNewest`, `PostedIsNewest`); a released lock
means an answer to read (`AnswerIsReady`). From it follow `NoOverlappedSyscall`,
`WaitBlocks`, `OneCallAtATime`, and `AnswersAreTheCalls`, the refinement of
`RemoteCall`. How a program ends does not depend on prompt wake-ups: `SettledInv`
says that the first message about the end is on its way until it is dealt with
(`EndIsPosted`) and that a settled `run()` has no worker left. `BridgeTypeCorrect`,
`SettledOnce` and `FirstEndIsReported` follow.

*Program_proofs.* The parts of `MCProgram`, the bridge with late wake-ups by
instantiating the module above. The properties of the sockets are inductive as they
stand (`SocketInv`): the clients waiting, being handed over and accepted are all
that arrived, in order. A poll needs two more facts (`PollInv`): what its handler
holds goes with what the program does (`Handler`), and the one timer is that of the
sleep under way (`OwnTimer`), which is what a stale timer would break. Bytes are in
order in what the program has, then what the read under way holds, then what the
page holds (`BytesInv`). `TypesHold`, `SocketsHold`, `PollsHold`, `SignalsHold`,
`ProgramIsReached`, `SettledOnceAndForAll`.

*Connections_proofs, Corp streams.* `NeverIdle` is not inductive, because it does not say which
variables belong to which transport, nor that a stream that has a WebSocket is not
backing off; `Shape` says so, and `IdleInv`, both together, is preserved by every
action (`SendWriteGoesOn` is the lemma about `sendWrite_`). `BackoffBounds` is about
the arithmetic of `requestError_`, whose values TLC sees only the first of.
`CountsInv` speaks of counts modulo `Wrap`; which byte a count is about is known
only because neither direction has `Wrap` bytes unacked (`WindowsHold`) and because
of what is in flight: `UpWire` and `DownWire` give each message on a WebSocket its
place between what was received and what was sent, `ReadsHold` and `WritesHold` say
of the one read and the one write under way what they carry and what their answer
will be. `Forward` is the arithmetic, the difference of two counts modulo `Wrap`.
`StreamInv`, that is `IdleInv`, the types (`Control`) and all of these (`Data`), is
inductive. `CountsInvariant` and `DownstreamIsAPipe` follow.

*Connections_proofs, the other parts of `MCConnections`.* `LookupsHold` needs that an
answer left by the relay's page is for the path left with it, and that the tab that
is away asks for that path (`LookupInv`). `PipesHold` is the two refinements of
`OrderedPipe` by websockify and SSH-FE streams and those of a Corp v4 stream that
does not resume, the latter by instantiating `PipeInv`. `SimpleInv` is the invariant
of the former: what is on its way continues what has arrived up to what was sent
(`Carries`), before the connection nothing is sent and after it nothing arrives
(`SimpleLife`). `PagesAgree` instantiates the next module.

*Preferences_proofs.* `PagesSeeTheSame` speaks of a page with nothing under way; the
invariant, `PagesInv`, says of every page what is still to come. `ListFollows`: the
list the page will have when it has heard all it is sent is the stored one, or a
write of it is on its way or to be retried, or the page has asked for the list and
has none. `ValuesCurrent`: a profile the page was the last to write is
stored as the page shows it, unless its timer runs or a write of it is on its way,
and then the last such write is what the page shows; this is claimed of pages no
write of which was refused, as a retry may undo a later one (a behaviour of the
code, section 3). `GetsAwaited`: a condenser awaits one answer, so an answer goes to
the manager that asked. `VariableTypes` and `PageTypes` are the types, with no list
naming a manager that is gone. A handler is several calls, each of which changes the
record of the page: `PageAfter` says what every prefix of a handler keeps of the
page it began with, there is one lemma for each call (`EditIs`, `NewChildIs`,
`SyncFromIs`, ...), and `PageStep` takes it to the state. What loading a page leaves
of its requests is a function over their number, by induction over it.

*Files_proofs, the command of a page.* `ExitLeavesNothing` speaks of a command that
has exited; what the exit finds depends on the await the connection is at.
`CommandInv` says so for each: which program can live and that the command knows of
it (`Programs`), what of a mount there is (`Mounting`), what takes the keys
(`KeysGo`), what an exit has undone and how often the end was told (`Ending`).
`exit()` is called from a dozen places; one lemma shows what it makes of any state
they find, and each action cites it. `ExitsLeaveNothing` follows.

*Files_proofs, the nasftp shell.* `PromptMeansIdle` is not inductive: a command that
ends lets go of the input, so no other may be at work beside it. `ShellInv` adds
that one command or completion at most is at work, and that every other job is the
dialog of a put that was given up (`OneAtWork`). Every end of a command goes through
`onInput_`'s loop, which may dispatch the next; that it keeps the invariant is shown
by induction on the characters it takes (`DrainIs`). The shell's types say that no
command closes what it has not opened or ends with a handle open, after failures and
interrupts too. For that the steps a job still has must close what is open
(`Balanced`), and nothing may be open where an error is forgotten or an interrupt
seen. `PromptsMeanIdle` follows.

*Files_proofs, the SFTP client.* `ChunksInOrder` speaks of what callbacks were given;
why the next chunk goes there is in the requests. The units on the way, received or
not, make whole packets, the first of which may have lost its header, each of a
request that waits for it and with a reply the server may give (`OnTheWire`). A
request is live until its handler has run, so that the promises settled and not
handled count too: of a transfer one request to open and one to read at most is live
(`Alone`), and a read asks from what has been read, within what is wanted (`AllFit`).
`Transfer` relates what a transfer has read to what its callbacks were given, which
part only when it is canceled, and says when it may be told of success. `NoneSent`,
`OneSent` and `OneChanges` say once, for all handlers, what a request and a step of
one transfer keep. The two clients of the run differ in the server only
(`SameSteps`). `ChunksHold` and `CancelingHolds` follow. The
types of all parts of `files` together are `EveryPartIsTyped`, in `Handles_proofs`.

*Handles_proofs, the descriptor table.* `DescriptorsHold` says that the table refers to no handle that
has been closed and that no handle is left open that nothing refers to. It takes
the types of the table and of the handles' lives (`TypeOK`, `HandleLife`) and the
fact that a call is refused only when the table is full; each call that changes
the table preserves them. `TableTypeCorrect` and `DescriptorsAlwaysHold` follow.

*Files_proofs and Handles_proofs, the file system provider.* `ChainsAreSound` speaks of what has been
sent and of operations that are over; why it stays so depends on how far each of the
others is. `Orderly` says of each operation what it holds, has told and has copied at
the stage it is at (`Local`), that what it waits for is on the way, for a copy which
chunks are being read and which written (`Waits`), and how it stands to the directory
it is an entry of (`Parents`).
Of what is on the way it says that each request fits its operation's stage and is
sent on a handle that is its own or that of the open file it is about, with no close
of it ahead (`WireOwned`, `WireFits`, `WireOrder`); of the server's handles, that each
is known to an operation that will close it, to a close on its way, or to the Files
app, whose requests about an open file come in turn (`Accounted`, `OpenedWell`,
`InTurn`). A handler is many steps on one state, so `Orderly(t, I)`
says it of all operations but those of `I`, which are about to go on: a handler takes
a reply (`Take`), changes the operation (`Change`), sends what is next (`Post`) or
begins its entries (`Arrive`), and the operation is orderly again (`PutDown`). `Files_proofs`
has a lemma for each of these, `Handles_proofs` one for each handler. When a chunk or an entry
fails the others are still under way; that the whole then fails, is told once and
closes its handles behind them is the hardest part (`ChildEnds`, `EndAlone`). An
unmounted provider sends nothing more. Of the server the proof takes that it answers
in order and gives out no handle that is in use; the entries of a directory may be of
any kinds in any order (`ProviderAssumption`). `ChainsHold` follows.

*QueueLemmas* states the facts about `Tail`, `Append`, concatenation and counted
sequences the others rest on, and what loops share: a function defined step by step
over `0..n` exists and stays in a set its steps stay in.

Only model-checked: all liveness (the prover has no rule for fairness); the buffers,
rows, the scroll port and the parser (their loops are recursive operators, which the
prover does not support), with the agent, tmux, keyboard and mouse, which are in one
module with them.

## 5. Not modelled

Not modelled: the terminal's find bar, the Terminal app's
own emulator and settings, dialogs and pages that only show or store what the
user chose, message formats, codecs and colours, crosh, build scripts and
vendored code. It is code whose difficulty is data or layout, covered by the
repository's unit tests. `PROJECT.json` gives the reason for each, and for the
components modelled in part what is left out.

# A TLA+ verification of Satyros

Satyros is a desktop tool for network engineers: TFTP, FTP, SFTP, syslog and
SNMP servers and clients behind one window (Python, asyncio, flet). This
directory has TLA+ models of its concurrent core, TLC configurations that check
them, and TLAPS proofs of what matters most. File names below are relative to
the root of the repository.

`tlc -config X.cfg M` runs a check, `tlapm MProofs.tla` checks proofs.

## 1. The system

### Threads

| thread | what runs in it |
|---|---|
| event handlers of flet | clicks and edits; one thread each, so two may be under way |
| `run_queue_checker` (gui/flet_app.py) | empties `log_queue` ten times a second, updates the page |
| the event loop (main.py, `BackendRunner`) | start and stop of all servers, UDP protocols, SNMP coroutines |
| executor threads | one for each TFTP client transfer, one for the file log |
| server threads | one for each start of the FTP and of the SFTP server, one for each SFTP client |
| request threads (gui/tabs_flet/snmp_tab.py, tftp_tab.py) | one for each SNMP request or TFTP transfer asked for |

Handlers hand work to the loop with `run_coroutine_threadsafe` and, for servers,
do not wait for it. Back ends hand messages to the window through `log_queue`.
Servers' attributes (`port`, `user`, `server_socket`, ...) are written and read
by several threads without a lock; the syslog and SNMP tabs have a lock for
their lists.

### Components

| component | state | operations | what makes it correct | module |
|---|---|---|---|---|
| TFTP client, Get (backend/tftp_client.py:9-87) | expected block, retries, last packet, local file | request, time-out, DATA (next, duplicate, stale), ERROR, exceptions (a datagram that does not parse among them) | the file is a prefix of the source; "done" means whole; a failure leaves no file; the call ends | `TftpGet` |
| TFTP client, Put (backend/tftp_client.py:89-160) | expected block, position, last packet | request, time-out, ACK, ERROR, exceptions | what is stored is a prefix; "done" means stored and kept; the call ends | `TftpPut` |
| TFTP server, upload handler (backend/tftp_server.py:39-94) | finished flag, remote file, finalizer | write, close, finalize | an upload cut short does not stay; no finalizer deletes another upload | `TftpPut` |
| TFTP server, read handler and path checks (backend/tftp_server.py:9-38) | byte count | read | - | not modelled |
| syslog and TFTP servers, start and stop (backend/syslog_server.py, tftp_server.py, main.py, tabs) | button, `port`, `transport`, queue of the loop | click in its steps, start, resume at the await, stop | nothing is dropped silently; stopped means closed | `DatagramServer` |
| SFTP server, life cycle (backend/sftp_server.py:140-227) | `running`, `server_socket`, threads | start, stop in its two steps, every step of the thread | no orphan socket; stop quiesces; serves until stopped | `SftpServer` |
| SFTP server, sessions and file operations (backend/sftp_server.py:10-138, 177-196; ftp_tab.py:70-76) | settings read by each connection, files, handles | connect, open, write, close, remove, rename, mkdir, rmdir, disconnect; the tab enters settings | no rights newer than the account; changes only below the root or in a file opened there, and with the right to write | `SftpSession` |
| FTP server, life cycle (backend/ftp_server.py, ftp_tab.py) | attributes, authorizer of the class, `server`, threads | start, stop, every step of the thread | for a user who waits: an open port is served and admits whom the user entered, and stop closes it | `FtpServer` |
| syslog messages (syslog_server.py, flet_app.py:92-119, syslog_tab.py) | queue, logs, list, filter, screen | receive, append, search, render, update | lists in order, without gaps, matching the filter; rows reach the screen | `LogView` |
| traps, transfers and errors on `log_queue` (main.py:44-54, ftp_server.py:54-63, flet_app.py:92-119, snmp_tab.py:165-189, ftp_tab.py:64-68) | queue, `traps`, `trap_list`, `transfers`, snack bar | put, take, append, page.update | lists hold the latest, in order; the screen shows them | `Window` |
| SNMP manager (snmp_tab.py:215-285, backend/snmp_client.py) | two buttons, list, threads, tasks | click, clear, submit, result, a display that raises, time-out, cancel | a result or an error of its own; the buttons come back; no task is left | `SnmpManager` |
| SNMP trap receiver (backend/snmp_server.py, snmp_tab.py:191-216, main.py:72-104) | button, `running`, `port`, engine, dispatchers, queue of the loop | click in its steps, start, stop, binding | one dispatcher at most is open; the last start was carried out or an error was reported (but not a port that could not be bound) | `TrapReceiver` |
| TFTP tab: board and status (tftp_tab.py:13-19, 111-159) | `active_transfers`, status line, its color | progress, done, error | the status at rest is that of a transfer that ended; the board shows the latest counts | `Window` |
| version tab, configuration, build script | none that changes | - | - | not modelled |

### What is hard here

UDP that loses, repeats and reorders; a block counter of 16 bits that wraps in
files of 32 MB and more; a repeated request that opens a second session;
failures between the last chunk and the report of success; a finalizer that runs
at a time nobody chose; `stop` that does not wait for what `start` began;
threads of an earlier start that act on the attributes of a later one; a filter
that changes under the thread that applies it; answers that come as the time is
up; two handlers of a double click; settings read one by one while they are
written one by one. `PROJECT.json` lists each at its line, with the properties that cover it.

## 2. The modules

### TFTP: `FileTransfer`, `TftpWire`, `TftpGet`, `TftpPut`

`FileTransfer` is the abstract specification: a source of `NChunks` chunks is
copied in order, and the requester hears "done" only of a whole copy, which then
nothing touches. `TftpGet` and `TftpPut` implement it (`TransferSpec` in each:
`copy` is the local or the stored file, `outcome` what the caller was told).

`TftpWire` has what they share: chunks named by position, block numbers modulo
`BlockMod`, packets, and the network as a set of datagrams. Delivering a
datagram may leave a copy in flight, and any datagram may be lost; a set has no
order, so all reorderings are there.

`TftpGet` follows `_get_file_sync` step by step: the request is sent before the
`try`, so a first `sendto` that raises leaves an old local file alone
(`RequestFails`); `OpenLocal` empties the file; `Timeout` repeats
`last_packet_sent`; `RecvNext`, `RecvDuplicate` and `RecvStale` are the three
branches on the block number, of which the second leaves `last_packet_sent`
alone; `RecvFaults` is any exception while the expected block is handled, before
or after the chunk is written, or in the final `progress_cb` after the ACK;
`Fail` is the `except` clause. The server sessions are external: a session
repeats its DATA for a while, goes on at the ACK it expects, and gives up when
it likes.

`TftpPut` follows `_put_file_sync` and the server's upload handler: the remote
file is opened exclusively, a chunk is stored before it is acknowledged, the
short chunk sets the finished flag, and the finalizer unlinks the file of a
handler without it (`Cleanup`, at any time after the session is gone).
`WriteFaults` has the callback that raises after the chunk has been stored.

Abstractions: a chunk is its position, and only the last one is short. A partial
write adds no behaviour to the properties. A datagram too short for
`struct.unpack` makes the client's call fail (tftp_client.py:52, 127): that is
among what `SocketFails` stands for, and it may come at any time. The server's
protocol class drops it. In an ACK the field `chunk` is a history of the
DATA that caused it; no action of the client tests it.

**`Fresh`.** Block numbers are modular, so no implementation of TFTP tells a
packet from one that is a whole turn of the counter older. The models assume
that neither a datagram nor a silent session outlives a turn (65536 packets
exchanged one at a time, 32 MB of data). It is the one assumption made of the
environment, and it is written as a guard, `Fresh(p.chunk)`, wherever a packet
is taken.

### Servers: `DatagramServer`, `SftpServer`, `FtpServer`, `TrapReceiver`, `SftpSession`

The first four have the same shape: a button that turns whatever becomes of the
start, coroutines that the loop begins in the order of their submission, and
sockets named by the start that made them, so that a property can say *whose*
socket is closed.

- `DatagramServer` (syslog and TFTP). A click runs in a thread of its own, which
  reads `self.running` (`Click`), writes its negation (`Turn`), reads it again and
  labels the button (`Label`), stores the port (`EnterPort`, `RefusePort`) and
  hands a coroutine over (`SubmitStart`, `SubmitStop`); two handlers may overlap
  anywhere. `BeginStart`/`FailStart` are `start` up to its `await`, `ResumeStart`
  the assignment of `self.transport` after it, `RunStop` is `stop`, and
  `CloseSocket` is asyncio closing the socket a turn later.
- `TrapReceiver` has the same handlers over another server. `start` and `stop` do
  not await, so each is one step of the loop; a start may raise at its first
  line, because the engine of a start that failed has no dispatcher to close
  (`FailToClose`), before the new engine has a transport (`FailToOpen`), or after
  that (`FailToConfigure`). `Bind` is the task of the transport that binds the
  port later and whose failure nobody hears of: the endpoint is "deaf" then.
- `SftpServer`. `Start`, `StopRunning` and `StopClose`, and the thread in its
  steps: `Create`, `Bind`, `Listen`, `SetTimeout`, `LoadKey`, the accept loop
  (`CheckRunning`, `EnterAccept`, `LeaveAccept`), `Finally`. The thread reads
  `self.server_socket` anew at each of them, and the model does too. A thread that
  enters accept on a socket which another thread has made listen, and not yet
  given a time-out, is "blocked": it leaves by `WakeUp` alone, a connection or a
  close that happens to wake it, and holds the socket open until then.
- `FtpServer`. The thread in its steps: `MakeAuthorizer` reads the attributes,
  `Publish` sets the authorizer of the handler class, which all starts share,
  `OpenPort` binds, `StoreServer` sets `self.server`, `SetCallback` and
  `ServeForever` read it again, and end the thread if it is `None` by then.
  `stop` is two steps, `CloseAll` and `ForgetServer`, with threads between them.
  pyftpdlib's `close_all` closes what is in the map of its I/O loop, which all
  servers of the process share; which others it closes is left open
  (`\E others`).
- `SftpSession` is the other side of the SFTP server: connections and the
  operations of their clients. The tab writes `username`, `password`,
  `allow_write` and `root_dir` one after the other (`EnterUsername` to
  `EnterRoot`), and the thread of a connection reads them in the opposite order
  (`ReadRoot` to `ReadPassword`); each setting is named by the start it was
  entered for (`Entries`). One handler at a time enters settings. `Realpath` is
  `_realpath` on sequences of components, `OpenFile` to `RemoveFolder` are the
  operations that change files or handles; a file is "old" or "new", so that
  writing to it shows. A renamed folder takes along what is in it, and an open
  file stays with its handle wherever it goes. A client has one file open at a
  time. A session ends when its client leaves (`Disconnect`), not when the server
  is stopped, so sessions with different roots live side by side, and a root may
  lie within another. There are no links. A root that is the top directory lets
  no path through, because it already ends in a separator (line 63); `Within` has
  that.

The pace of the user is a history variable in these modules, read by no guard.
`hasty` (`FtpServer`, `SnmpManager`) says that a click came before the previous
one had taken effect, in `TrapReceiver` before its handler was done.
`DatagramServer` has three: "patient"; "hasty", when a click came before the
loop was done; "overlapping", when one came before the previous handler was done.
`SftpServer` has three as well: "calm"; "restart", when a start found an earlier
thread; "double", when one came while the server ran. The properties that hold at
any pace do not mention it; for the others it is a hypothesis, and what is left
out is said in section 5, or is a hazard of `PROJECT.json` with a note.

### Window: `LogView`, `Window`, `SnmpManager`

- `LogView`. `Receive` is the protocol's `datagram_received` with its callback;
  `AppendLog`, `FindEmpty` and `UpdatePage` are `check_queue`; `SetFilter` is
  `on_search` before it waits for the lock; `StartRender`, `RenderRow` and
  `EndRender` are `_render_table`, one row at a time, because the filter is read
  for every row and may change between two. A message is its number and kind; a
  filter is the set of kinds it matches. The file log is left out.
- `Window`. `Put` is any callback of `BackendRunner` and any error it reports;
  `Take`, `QueueEmpty` and `ShowAll` are `check_queue`, with `append_trap`,
  `update_progress`, `append_transfer` and the snack bar under `Take`. The status
  line is written by the click (`Click`, `PaintOrange`, `Spawn`), by
  `progress_cb` (`Tell`, `Told`; `Complete`, `PaintGreen`, `Completed`) and by the
  except clause (`TellError`, `PaintRed`, `Erred`), text, color and `page.update`
  each a step, for any number of transfers at once. A message is its position on
  the queue. Any `page.update` shows everything, so the screen is one flag,
  `stale`.
- `SnmpManager`. `Click`, `Clear`, `DisableGet`, `DisableWalk` and `Spawn` are
  the handler, from `Submit` to `Finish` the thread, with its `except` and
  `finally` clauses; `Complete` and `DeliverCancel` are the task on the loop.
  `page.update` runs inside the `try`: when it raises after the rows of an answer
  were appended (`GotResultUnseen`), the `except` clause displays an error as
  well. The `finally` clause enables Get (`EnableGet`) and then Walk
  (`EnableWalk`). The screen lags behind the `disabled` flags until the next
  `page.update` of any handler: a second click may be on its way before the first
  is shown, and Get may be back on the screen before Walk. The handlers of Get
  and Walk differ in their time limit only, and time is not modelled.

## 3. What is checked

Each property of a passing run has a mutant of the code in `PROJECT.json`, a
change a careless edit could make, that TLC finds to violate it.

| run | instance | shows |
|---|---|---|
| `tftp_get` | 2 ports, 3 chunks, `BlockMod` 3, 1 retry, 1 duplicate, 1 resend | `ExpectedIsNextChunk`, `FailedLeavesNoFile`, `AckedMeansWritten`, `Terminates`, `TransferSpec` |
| `tftp_put` | 2 ports, 4 chunks, `BlockMod` 4, 1 retry, 1 duplicate, 1 resend | `ExpectedIsLastSent`, `OneOwner`, `Terminates`, `WholeOrGone`, `TransferSpec` |
| `sftp_server` | 3 starts | `NoOrphan`, `ServesUntilStopped`, `StopQuiesces` |
| `sftp_restart` | 2 starts | violation of `KeepsServing` |
| `ftp_server` | 3 starts, two settings and an invalid port | `SettingsInForce`, `ServesUntilStopped`, `StopCloses` |
| `datagram_server` | 4 clicks, 2 ports | `StartedOrReported`, `StopCloses`, `NoOrphan` |
| `datagram_stop` | the same | violation of `StoppedMeansClosed` |
| `log_view` | 4 messages of 2 kinds, 2 handlers, 3 searches, caps 3 and 2 | `TypeOK`, `OnlyMatchesListed`, `RecentMatchesListed`, `ListInOrder`, `EventuallyShown` |
| `snmp_manager` | 2 clicks | `AnsweredOnce`, `DisabledIsOwed`, `EnabledMeansIdle`, `OnlyLatestListed`, `ButtonsComeBack`, `NoTaskLeft` |
| `trap_receiver` | 4 clicks, 2 ports | `OneDispatcher`, `StopCloses`, `StartedOrReported` |
| `window` | 3 messages of 4 types, caps 2, 1 and 2, 2 transfers | `WindowTypeOK`, `ListsAreLatest`, `StatusIsFinal`, `AllShownAtLast` |
| `sftp_session` | 2 clients at a time, 2 roots, one within the other, 4 paths, 4 requests, 2 entries of settings | `NothingNewForOldAccount`, `OnlyAllowedChanges`, `LeavesRootFromAbove` |

Where an inductive invariant (`IInv`) is proved, no run repeats it. What
`TransferSpec` implies (that the copy is always a prefix of the source, that
"done" means whole and stored) is not a property of a run either, but has its
theorem.

### Bounds, and why they are enough

- *Block counter.* `BlockMod = 3` is the smallest modulus for which the
  expected, the previous and a stale block are three different numbers. In a
  download of three chunks block 0 is the last. An ACK in flight is behind the
  client by a chunk more than a DATA packet may be, so a stale one that is not
  older than `Fresh` allows needs `BlockMod = 4`; four chunks come to the wrap
  there.
- *Network.* `MaxDups` bounds the copies the network makes and `MaxResends` those
  of a silent session; loss and reordering have no bound. One retry is enough to
  repeat the request and to give up. That a failed removal of the file keeps
  the other properties (`CanRemove`, `CanUnlink`) is left to the proofs (section
  4), which have no bounds of this kind either.
- *Ports.* Two sessions need a second port; a third adds only a third copy of the
  same interleaving. These runs have liveness, so they use no symmetry;
  `sftp_session` has no liveness and does.
- *Starts.* `MaxStarts = 3` lets the thread of a start meet one earlier and one
  later start. For the servers the invariants are proved for any number of starts
  or clicks; so are those of `SftpSession` for any number of entries, sessions,
  roots, paths and requests.
- *Lists.* `LogCap = 3` and `ViewCap = 2` differ and are both exceeded by four
  messages; two handlers are enough for one to change the filter while the other
  renders, and three searches for a handler to come back. In `Window` three
  messages overflow each list, and repeat a key of the board. The safety
  properties of both are proved for all caps, messages, searches and transfers.
- *Clicks.* Four clicks on the trap receiver or on a UDP server make two
  overlapping pairs, and starts after one that failed or that a stop overtook.
  Two clicks on Get and Walk overlap at any step of the first request; the second
  one may come between the two lines that enable the buttons. For any number of
  clicks the safety properties are proved. Two transfers of the TFTP client overlap.
- *Paths.* In `sftp_session` the folder /srv/pub is one root and /srv, above it,
  the other. The requests are two names, a path that goes up and comes back, and
  one that leads out of the root; so a client of /srv can rename pub, with a file
  that a client of /srv/pub has open in it, to /srv/b.
- *Deadlock.* Transfers, clicks and messages are finite in the models, so they
  come to rest, and `CHECK_DEADLOCK FALSE` says so. `SftpServer` never stops:
  stop is always possible there, and deadlock is checked.

### Fairness, and why the code justifies it

- `WF(Client)` (TFTP): the call runs in an executor thread of its own, and
  `settimeout(1.0)` makes `recvfrom` return or raise within a second. Nothing is
  asked of the network or the server: a session may fall silent forever.
- `WF(Abandon)`, `WF(Cleanup)` (uploads): a silent session times out on the loop
  (py3tftp), and a finalizer registered with `weakref.finalize` runs when its
  object is collected, at the latest when the interpreter exits.
- `WF(StopClose)`, `WF(ThreadStep(t))` (SFTP): coroutine and threads are
  scheduled, and `settimeout(1.0)` bounds an `accept` on a socket that has it by
  then. Nothing is asked of `WakeUp`: an `accept` without a time-out may wait
  forever, and `StopQuiesces` says what is left then.
- `WF(Checker)`, `WF(Render)` (messages): threads are scheduled, and the lock is
  held for finitely many rows. No message, edit or other update need come.
- `WF(Checker)`, `WF(Proceed(t))` (window): threads are scheduled, and
  `page.update` returns. `SF(End(t))`: the call of the TFTP client comes to its
  end however often it has told of progress, which is `Terminates` of `TftpGet`
  and `TftpPut`.
- `WF(Program)`, `WF(DeliverCancel)` (SNMP): threads are scheduled,
  `future.result` has a time limit, and the loop delivers cancellations. The
  agent need never answer.

Each is on the actions of one actor, never on the step of a peer that must
cooperate. The properties of `FtpServer`, `DatagramServer`,
`TrapReceiver` and `SftpSession` are safety properties and assume nothing.

## 4. What is proved

TLAPS proves these for every value of the constants that satisfies the modules'
`ASSUME`s: any file size, any block modulus from 2, any number of sessions,
retries, duplicates, starts, clicks, messages and searches, any limits of the
lists. Every safety property of a passing run is among them.

| module | theorems |
|---|---|
| `TftpGetProofs` | `TypeCorrect`, `InvariantCorrect`, `PrefixCorrect`, `DoneCorrect`, `FailedCorrect`, `ExpectedCorrect`, `AckedCorrect`, `GetImplementsTransfer` |
| `TftpPutProofs` | `TypeCorrect`, `InvariantCorrect`, `PrefixCorrect`, `DoneCorrect`, `OneOwnerCorrect`, `ExpectedCorrect`, `PutImplementsTransfer` |
| `SftpProofs` (of `SftpServer` and `SftpSession`) | `InvariantCorrect`, `NoOrphanCorrect`, `ServesUntilStoppedCorrect`; `SessionInvariantCorrect`, `NothingNewForOldAccountCorrect`, `OnlyAllowedChangesCorrect`, `LeavesRootFromAboveCorrect` |
| `FtpServerProofs` | `InvariantCorrect`, `SettingsInForceCorrect`, `ServesUntilStoppedCorrect`, `StopClosesCorrect` |
| `DatagramServerProofs` | `InvariantCorrect`, `StartedOrReportedCorrect`, `StopClosesCorrect`, `NoOrphanCorrect` |
| `SnmpManagerProofs` | `InvariantCorrect`, `AnsweredOnceCorrect`, `DisabledIsOwedCorrect`, `EnabledMeansIdleCorrect`, `OnlyLatestListedCorrect` |
| `TrapReceiverProofs` | `InvariantCorrect`, `OneDispatcherCorrect`, `StopClosesCorrect`, `StartedOrReportedCorrect` |
| `WindowProofs` (of `LogView` and `Window`) | `InvariantCorrect`, `TypeCorrect`, `LogsHaveNoGapCorrect`, `ListInOrderCorrect`, `OnlyMatchesListedCorrect`, `RecentMatchesListedCorrect`; `WindowInvariantCorrect`, `WindowTypeCorrect`, `ListsAreLatestCorrect`, `StatusIsFinalCorrect` |

Two components that share a proof module have names apart, so that the module
can extend both. The lemmas on packets and on arithmetic modulo `BlockMod` are in
`TftpGetProofs` and in `TftpPutProofs`.

The arguments, in short:

- *Get.* `FileIsPrefix` is not inductive: it needs to know that a DATA packet
  with the expected number is the next chunk. `IInv` adds that block numbers in
  flight are those of their chunks (`PacketInv`), that no packet or session is
  more than one chunk ahead of the file (`NotAhead`, `SessionInv`), and that
  `expected` is the number of the next chunk (`ClientInv`). With `Fresh`, a
  packet about chunk `k` and the chunk awaited, `Len(file) + 1`, are less than
  `BlockMod` apart, so equal numbers mean equal chunks; that is the one
  arithmetic lemma everything rests on.
- *Put.* `IInv` relates four things: the client's position, the packets, what
  each session has taken, and the stored file. A DATA packet is one chunk ahead
  of its session at most; the owner of the remote file is unique because opening
  is exclusive, and its count is the length of what is stored. `DoneMeansStored`
  follows because the final ACK means a session that is finished, and finished
  sessions are not cleaned up.
- *Refinement.* Each step of the client or the server that changes `copy` or
  `outcome` is mapped to a step of `FileTransfer`, all others stutter. For Put,
  `DoneMeansStored` is what shows that `Cleanup` never discards a done copy.
- *SFTP, life cycle.* Inside `accept`, and only there, a thread holds a socket,
  with or without a time-out; a socket that listens has a thread that is not gone.
  Without overlap (`LastThread`) only the thread of the last start is under way, so
  the socket it reads is its own, and it has the time-out before it accepts.
- *SFTP, sessions.* The tab writes the attributes in one order, so each is as new
  as the next (`WrittenInOrder`); a connection reads them in the opposite order,
  and attributes only become newer, so what it has read is not newer than what it
  reads next (`ReadInOrder`). That is `NothingNewForOldAccount`. `HandlesInv` says
  of every handle that it was opened below the root of its session, that it writes
  only with the right to, and that it knows a path only if the file is there; the
  last part is what a rename by anybody could break. `OnlyAllowedChanges` follows
  for any roots. For `LeavesRootFromAbove`, a file that leaves a root was renamed
  with a folder that is not below this root, and is itself below the root of who
  renames it: prefixes of one path are comparable, so his root is further up.
- *FTP.* At any pace, what is in the queue of the loop has not begun (`QueueInv`),
  and a thread that has not opened its port has none (`SocketInv`). For a patient
  user `Calm` says that there is one thread under way at most, that of the last
  start (`OnlyLatest`), that what it has read and what the handler class admits are
  the settings of that start (`OwnSettings`), and which clicks the loop still has
  to serve (`InTurn`).
- *UDP servers.* The starts in the queue have not begun and each is there once
  (`HandlerInv`). If no two handlers overlapped, only the last click is being
  handled and what it has read is still so (`LastHandler`), and while the button
  says Stop the start asked for last is the last in the queue, or has its socket
  open and nothing behind it, or was refused or failed, which is reported
  (`LastStart`); that gives `StartedOrReported`, however slow the loop is. `Calm` says that for a
  user slower than the loop it has one thing to do at a time, which gives
  `StopCloses` and `NoOrphan`.
- *Trap receiver.* `OneDispatcher` holds at any pace, because a start closes
  what the engine before it has. For the other two, `LastHandler` says that
  without overlap only the last click is being handled, and what it has read is
  still so; `LastStop` and `LastStart` say that what the button asks for is the
  last in the queue, or has been done.
- *SNMP.* A request with a row of some kind is past the step that displays it
  (`ListInv`), and the only two that one request may have are an answer and the
  error of displaying it. `DisabledIsOwed` is inductive as it stands: whoever
  disables a button still owes it (`Owes`), Get until `EnableGet`, Walk until
  `EnableWalk`. If no click came while a request was under way, `OneRequest` says
  that only the last request is, and that both buttons are disabled while it is
  active; then whatever enables them or writes the list is that request.
- *Log view.* Logs, list, rows to do and queue are pieces of one row of
  numbers: the queue begins where the logs end (`QueueInv`), the rows to do are the
  last of the logs (`RenderInv`), and rows of the list are at least as far apart in
  the order of arrival as in the list (`OrderInv`). `MatchInv` says, unless a
  handler has set the filter and is about to render, that recent matches are
  listed or still to do; by `OrderInv` a row that is cut from a full list is not
  recent any more.
- *Window.* `ListsAreLatest` is stated without a filter on sequences, so it is
  inductive as it stands: a list has only messages of its kind, in order, and one
  that it does not have is older than all in a list that is full. Three lemmas on
  sequences carry it over an append, an append on the left and an update of the
  board. `StatusIsFinal` follows from `SaysWhere` (the line says where the transfer
  is that wrote it last) and `OneAtATime` (without overlap that is the last one).

Only model-checked: all liveness (`Terminates`, `WholeOrGone`, `StopQuiesces`,
`EventuallyShown`, `AllShownAtLast`, `ButtonsComeBack`, `NoTaskLeft`), which needs
fairness and `ENABLED` and is beyond the prover.

## 5. Findings

1. **An SFTP server that is restarted may never serve** (`sftp_restart`).
   The thread of the server that was stopped takes up to a second to leave
   `accept`; its `finally` clause closes `self.server_socket`, by then the socket
   of the new server (backend/sftp_server.py:213). A thread that is slow to begin
   does the same harm earlier: it stores its own socket (line 155) in the place
   of the newer one. The new accept loop spins on a socket that is closed or does
   not listen, while `running` stays true. For a user who lets the old thread end
   first, `ServesUntilStopped` holds.
2. **A UDP server that is stopped at once may come up afterwards**
   (`datagram_stop`). `stop` finds no transport while `start` is at its `await`
   (backend/tftp_server.py:102-112); the port opens after "TFTP server stopped"
   was logged, and the tab offers "Start Server". A next start on it fails, for the
   port is taken. For a user slower than the loop, `StopCloses` holds and is
   proved.

Three more ways to leave a port open are in the models and limit what their
properties can claim; no run is spent on them:

- *A blocked SFTP thread.* Between `listen` and `settimeout`
  (backend/sftp_server.py:158-159) the thread of an earlier start, which finds
  `running` true again, may enter `accept` on the new socket without a time-out.
  On Linux a close does not wake it, and the kernel keeps the port open until
  somebody connects. `StopQuiesces` therefore excepts blocked threads and the
  sockets they hold, and says that there are none without overlap.
- *An FTP stop that comes too early.* Until the thread has set `self.server`
  (backend/ftp_server.py:114), `stop` does nothing (line 127), and the port opens
  after the tab offers to start the server again.
- *An FTP thread that loses its server.* If the `close_all` of a stop found the
  server of an earlier start, `self.server = None` (line 129) may come between
  lines 114 and 118 of a newer thread: it reads `None`, the `AttributeError` is
  caught at line 119, and the thread ends with its port open and nobody to serve
  it. That is `"unserved"` in `FtpServer`, and the reason why its properties are
  for a user who lets one click take effect before the next.

Where two handlers of clicks overlap, the button of a UDP server or of the trap
receiver may say Stop while nothing runs and nothing was reported: the stop of one
click is handed over after the start of the other. `StartedOrReported` excludes
it in both modules. In the trap receiver it also admits a port that could not be
bound, which nobody reports.

## 6. Not modelled

- The downloads of the TFTP server beyond the counts they report, and its path
  check: a look into the file system, without state between two of them. The
  function of py3tftp it replaces for a moment is put back before the loop runs
  anything else.
- `stat`, `read` and `list_folder` of the SFTP server, which change nothing.
  (A file removed while `list_folder` runs makes the whole listing fail, line
  76: an answer, and no state.) Symbolic links, and what is in a file.
- The file log and the export of the syslog tab, host keys and certificates
  beyond "made or not", MIB names, formatting: I/O and wording.
- Clients of the FTP server: pyftpdlib serves them without touching the state
  of the life cycle; that a login is admitted is `SettingsInForce`.
- The snack bar shows one message. Of two errors that `check_queue` finds at once
  only the later one is ever on the screen, as `ListsAreLatest` says; the exports of
  the syslog tab (syslog_tab.py:40, 43) and of the SNMP tab (snmp_tab.py:51, 54),
  which `Window` leaves out, write it as well.
- An exception of the GUI toolkit in `check_queue` would end its thread
  (flet_app.py:109). Which there are cannot be read off the code; `LogView` and
  `Window` take it that there are none there.
- The version tab, the configuration and the build script do not change state.
- `page.update` in `do_get` and in the `finally` clause of its thread
  (snmp_tab.py:239, 255) is taken to succeed; in the `try` it may raise.
- Two handlers that enter SFTP settings at once, and a client with several files
  open.

The parts are modelled one by one. In `FtpServer` the handlers of two clicks do
not overlap; all its properties are for a user who waits longer than that.
`SftpServer` has no button: starts and stops come in any order. All five servers
share one queue of the loop and one `log_queue`; coroutines and messages of
different servers commute, for they share no other state.

## 7. Plan

1. One abstract specification of a server (off, starting, on, failed), and the
   life cycles shown to implement it for a patient user.
2. Action properties of the servers at any pace: what a step of an old thread
   never changes.

----------------------------- MODULE FtpServer -----------------------------
(***************************************************************************)
(* The life of the FTP server (backend/ftp_server.py) under the button of  *)
(* its tab (gui/tabs_flet/ftp_tab.py).  A click writes the settings in the *)
(* attributes of the server object and queues start or stop on the event   *)
(* loop.  start only spawns a thread, which reads the settings when it     *)
(* comes to them, puts an authorizer in the handler class, opens the port, *)
(* stores the server in self.server and serves what it finds there, which  *)
(* may be nothing by then.  stop closes the server it finds in             *)
(* self.server, if there is one by then, and forgets it.                   *)
(*                                                                         *)
(* A click is handled here before the next one comes.  Handlers may        *)
(* overlap for a user who double clicks; such a user is hasty below, and   *)
(* no property that holds says anything of hasty users.                    *)
(*                                                                         *)
(* Outside src/: pyftpdlib.  All that is asked of it is that a handler     *)
(* looks at the authorizer of its class, and that close_all closes the     *)
(* port of its server, those of others it may close as well.               *)
(***************************************************************************)
EXTENDS Naturals, Sequences

CONSTANTS
    Settings,   \* what the user enters: name, password, root, write access
    Invalid,    \* those whose port is no port
    MaxStarts   \* bound: starts asked for

ASSUME FtpAssumption ==
    /\ Invalid \subseteq Settings
    /\ MaxStarts \in Nat \ {0}

NoSettings == "none"

ASSUME NoSettingsAssumption == NoSettings \notin Settings

VARIABLES
    gui,         \* the button: "off", "on", or a click to "on" half way through
    starts,      \* starts asked for
    entered,     \* history: what was in the fields at each of them
    attributes,  \* username, password, allow_write of the server object
    queue,       \* coroutines the loop has still to run: a start by its number
    thread,      \* where the thread of each start is in _run_server
    local,       \* the authorizer that thread has made
    authorizer,  \* handler.authorizer, which belongs to the class
    serves,      \* the server whose serve_forever each thread has called, 0 for none
    socket,      \* the listening socket of each thread
    server,      \* self.server: the number of its start, 0 for None
    stopping,    \* stop is between close_all and self.server = None
    hasty        \* history: a click came before the last one had taken effect

vars == <<gui, starts, entered, attributes, queue, thread, local, authorizer,
          serves, socket, server, stopping, hasty>>

Ids  == 1..MaxStarts
Stop == 0

\* The steps of the setup, in their order, are what "spawned" to "started" stand
\* before.  "unserved" is the end of a thread that has logged that the server is
\* started and then found None in self.server.
BeforeSocket == {"none", "spawned", "made", "published"}
AfterStore   == {"stored", "started", "serving", "ended", "unserved"}
Setup        == {"spawned", "made", "published", "created", "stored", "started"}
ThreadStates == BeforeSocket \cup {"created"} \cup AfterStore

TypeOK ==
    /\ gui \in {"off", "writing", "on"}
    /\ starts \in 0..MaxStarts
    /\ entered \in [Ids -> Settings \cup {NoSettings}]
    /\ attributes \in Settings \cup {NoSettings}
    /\ queue \in Seq(0..MaxStarts)
    /\ thread \in [Ids -> ThreadStates]
    /\ local \in [Ids -> Settings \cup {NoSettings}]
    /\ authorizer \in Settings \cup {NoSettings}
    /\ serves \in [Ids -> 0..MaxStarts]
    /\ socket \in [Ids -> {"none", "open", "closed"}]
    /\ server \in 0..MaxStarts
    /\ stopping \in BOOLEAN
    /\ hasty \in BOOLEAN

Init ==
    /\ gui = "off"
    /\ starts = 0
    /\ entered = [i \in Ids |-> NoSettings]
    /\ attributes = NoSettings
    /\ queue = <<>>
    /\ thread = [i \in Ids |-> "none"]
    /\ local = [i \in Ids |-> NoSettings]
    /\ authorizer = NoSettings
    /\ serves = [i \in Ids |-> 0]
    /\ socket = [i \in Ids |-> "none"]
    /\ server = 0
    /\ stopping = FALSE
    /\ hasty = FALSE

Open(i) == socket[i] = "open"

\* Every click has taken effect: the loop is done with it, and so is the thread.
Settled == /\ queue = <<>> /\ ~stopping
           /\ \A i \in Ids : thread[i] \notin Setup

-----------------------------------------------------------------------------
\* The handler of the button.

\* The button is turned over, and _update_auth writes the attributes at once: a
\* thread that has been started earlier may be about to read them.
ToggleOn(s) ==
    /\ gui = "off"
    /\ starts < MaxStarts
    /\ gui' = "writing"
    /\ starts' = starts + 1
    /\ entered' = [entered EXCEPT ![starts + 1] = s]
    /\ attributes' = s
    /\ hasty' = (hasty \/ ~Settled)
    /\ UNCHANGED <<queue, thread, local, authorizer, socket, server, stopping, serves>>

\* start_server queues the start, unless the port is invalid.
SubmitStart ==
    /\ gui = "writing"
    /\ gui' = "on"
    /\ queue' = IF attributes \in Invalid THEN queue ELSE Append(queue, starts)
    /\ UNCHANGED <<starts, entered, attributes, thread, local, authorizer, socket,
                   server, stopping, hasty, serves>>

ToggleOff ==
    /\ gui = "on"
    /\ gui' = "off"
    /\ queue' = Append(queue, Stop)
    /\ hasty' = (hasty \/ ~Settled)
    /\ UNCHANGED <<starts, entered, attributes, thread, local, authorizer, socket,
                   server, stopping, serves>>

-----------------------------------------------------------------------------
\* The event loop.

Start(i) ==
    /\ ~stopping
    /\ queue # <<>> /\ Head(queue) = i
    /\ queue' = Tail(queue)
    /\ thread' = [thread EXCEPT ![i] = "spawned"]
    /\ UNCHANGED <<gui, starts, entered, attributes, local, authorizer, socket,
                   server, stopping, hasty, serves>>

\* Mutant of CloseAll: the server is forgotten, and not closed.
CloseNone ==
    /\ ~stopping
    /\ queue # <<>> /\ Head(queue) = Stop
    /\ queue' = Tail(queue)
    /\ stopping' = (server # 0)
    /\ UNCHANGED <<gui, starts, entered, attributes, thread, local, authorizer, socket,
                   server, hasty, serves>>

\* stop, up to close_all; it does nothing when there is no server.
CloseAll ==
    /\ ~stopping
    /\ queue # <<>> /\ Head(queue) = Stop
    /\ queue' = Tail(queue)
    /\ IF server = 0
       THEN UNCHANGED <<socket, stopping>>
       ELSE /\ stopping' = TRUE
            /\ \E others \in SUBSET {i \in Ids : Open(i)} :
                   socket' = [i \in Ids |-> IF i \in others \cup {server}
                                            THEN "closed" ELSE socket[i]]
    /\ UNCHANGED <<gui, starts, entered, attributes, thread, local, authorizer,
                   server, hasty, serves>>

\* self.server = None, whatever a thread has put there since.
ForgetServer ==
    /\ stopping
    /\ stopping' = FALSE
    /\ server' = 0
    /\ UNCHANGED <<gui, starts, entered, attributes, queue, thread, local, authorizer,
                   socket, hasty, serves>>

-----------------------------------------------------------------------------
\* The thread.

Goto(i, from, to) ==
    /\ thread[i] = from
    /\ thread' = [thread EXCEPT ![i] = to]

\* The authorizer is made of the attributes as they are now.
MakeAuthorizer(i) ==
    /\ Goto(i, "spawned", "made")
    /\ local' = [local EXCEPT ![i] = attributes]
    /\ UNCHANGED <<gui, starts, entered, attributes, queue, authorizer, socket,
                   server, stopping, hasty, serves>>

\* Mutant of Publish: the handler class keeps the authorizer it has.
PublishOnce(i) ==
    /\ Goto(i, "made", "published")
    /\ authorizer' = IF authorizer = NoSettings THEN local[i] ELSE authorizer
    /\ UNCHANGED <<gui, starts, entered, attributes, queue, local, socket, server,
                   stopping, hasty, serves>>

\* The certificate is there or has been made, and the class gets the authorizer.
Publish(i) ==
    /\ Goto(i, "made", "published")
    /\ authorizer' = local[i]
    /\ UNCHANGED <<gui, starts, entered, attributes, queue, local, socket, server,
                   stopping, hasty, serves>>

\* FTPServer binds and listens ...
OpenPort(i) ==
    /\ Goto(i, "published", "created")
    /\ socket' = [socket EXCEPT ![i] = "open"]
    /\ UNCHANGED <<gui, starts, entered, attributes, queue, local, authorizer, server,
                   stopping, hasty, serves>>

\* ... and only then self.server is set.
StoreServer(i) ==
    /\ Goto(i, "created", "stored")
    /\ server' = i
    /\ UNCHANGED <<gui, starts, entered, attributes, queue, local, authorizer, serves,
                   socket, stopping, hasty>>

\* The thread reads self.server again, for its callback.  If stop has forgotten it,
\* that raises, and the thread ends with its port open.
SetCallback(i) ==
    /\ Goto(i, "stored", IF server = 0 THEN "ended" ELSE "started")
    /\ UNCHANGED <<gui, starts, entered, attributes, queue, local, authorizer, serves,
                   socket, server, stopping, hasty>>

\* The start is logged, and self.server is read once more: what is served is what
\* is there now, which another thread may have stored.
ServeForever(i) ==
    /\ Goto(i, "started", IF server = 0 THEN "unserved" ELSE "serving")
    /\ serves' = [serves EXCEPT ![i] = server]
    /\ UNCHANGED <<gui, starts, entered, attributes, queue, local, authorizer, socket,
                   server, stopping, hasty>>

\* The settings are refused, no certificate can be made, or the port is taken:
\* the error is logged at most, and the tab does not hear of it.
SetupFails(i) ==
    /\ \E from \in {"spawned", "made", "published"} : Goto(i, from, "ended")
    /\ UNCHANGED <<gui, starts, entered, attributes, queue, local, authorizer, serves,
                   socket, server, stopping, hasty>>

\* Mutant of LeaveServeForever: the thread closes self.server when it ends.
LeaveAndClose(i) ==
    /\ thread[i] = "serving" /\ ~Open(serves[i])
    /\ Goto(i, "serving", "ended")
    /\ socket' = [j \in Ids |-> IF j = server THEN "closed" ELSE socket[j]]
    /\ UNCHANGED <<gui, starts, entered, attributes, queue, local, authorizer, serves,
                   server, stopping, hasty>>

\* serve_forever returns or raises once its server has been closed.
LeaveServeForever(i) ==
    /\ thread[i] = "serving" /\ ~Open(serves[i])
    /\ Goto(i, "serving", "ended")
    /\ UNCHANGED <<gui, starts, entered, attributes, queue, local, authorizer, serves,
                   socket, server, stopping, hasty>>

Thread(i) ==
    \/ MakeAuthorizer(i) \/ Publish(i) \/ OpenPort(i) \/ StoreServer(i)
    \/ SetCallback(i) \/ ServeForever(i)
    \/ SetupFails(i) \/ LeaveServeForever(i)

-----------------------------------------------------------------------------
Next ==
    \/ \E s \in Settings : ToggleOn(s)
    \/ SubmitStart \/ ToggleOff
    \/ CloseAll \/ ForgetServer
    \/ \E i \in Ids : Start(i) \/ Thread(i)

Spec == Init /\ [][Next]_vars

-----------------------------------------------------------------------------
\* A port that is open admits the users that were entered for its start: no
\* other start has changed the handler class, or the attributes before they were
\* read (ftp_server.py:87-118, ftp_tab.py:70-87); for a user who lets one click
\* take effect before the next.
SettingsInForce ==
    ~hasty => \A i \in Ids : Open(i) => authorizer = entered[i]

\* Once a start has settled, its port is open and served by its own thread, with
\* self.server for stop to find, or its thread has failed and there is no port; no
\* thread of an earlier start, which may take its time to end, touches it
\* (ftp_server.py:113-130); for such a user.
ServesUntilStopped ==
    ~hasty /\ gui = "on" /\ Settled /\ (Open(starts) \/ thread[starts] = "serving") =>
        /\ Open(starts) /\ thread[starts] = "serving"
        /\ server = starts /\ serves[starts] = starts

\* When the tab says stopped, no port is open (ftp_server.py:126-130), for such a
\* user.
StopCloses == ~hasty /\ gui = "off" /\ Settled => \A i \in Ids : ~Open(i)
-----------------------------------------------------------------------------
\* A thread whose setup has not come to the socket has none, and a server that is
\* stored or served has been set up.
SocketInv ==
    /\ \A i \in Ids : thread[i] \in BeforeSocket => socket[i] = "none"
    /\ server # 0 => thread[server] \in AfterStore
    /\ \A i \in Ids : thread[i] = "serving" => serves[i] # 0

\* A start is in the queue or has a thread, not both.
QueueInv ==
    /\ \A k \in DOMAIN queue : queue[k] <= starts
    /\ \A k \in DOMAIN queue : queue[k] # 0 => thread[queue[k]] = "none"
    /\ \A k, l \in DOMAIN queue : queue[k] = queue[l] /\ queue[k] # 0 => k = l
    /\ \A i \in Ids : i > starts => thread[i] = "none"
    /\ gui # "off" => starts > 0
    /\ gui = "writing" => /\ thread[starts] = "none"
                          /\ \A k \in DOMAIN queue : queue[k] # starts

\* What a patient user sees of it.  Only the latest start matters, ...
OnlyLatest ==
    /\ \A i \in Ids : i # starts => ~Open(i) /\ thread[i] \notin Setup
    /\ server \in {0, starts}
    /\ \A i \in Ids : i = starts /\ Open(i) =>
           \/ thread[i] = "created"
           \/ thread[i] \in {"stored", "started", "serving"} /\ server = i
    /\ \A i \in Ids : thread[i] = "serving" => serves[i] = i

\* ... it works with the settings of its click, ...
OwnSettings ==
    \A i \in Ids : i = starts =>
        /\ attributes = entered[i]
        /\ thread[i] \notin {"none", "spawned", "ended"} => local[i] = entered[i]
        /\ thread[i] \notin {"none", "spawned", "made", "ended"} =>
               authorizer = entered[i]

NoServer == server = 0 /\ \A i \in Ids : ~Open(i)

\* ... and each click finds the one before it done.
InTurn ==
    /\ gui = "off" => /\ queue \in {<<>>, <<Stop>>}
                      /\ \A i \in Ids : thread[i] \notin Setup
                      /\ queue = <<>> /\ ~stopping => NoServer
    /\ gui = "writing" => queue = <<>> /\ NoServer
    /\ gui = "on" => /\ queue \in {<<>>, <<starts>>}
                     /\ \A i \in Ids : i = starts =>
                            /\ thread[i] \in {"created", "stored", "started", "serving"} =>
                                   Open(i)
                            /\ thread[i] \in {"stored", "started", "serving"} =>
                                   server = i
    /\ stopping => gui = "off" /\ queue = <<>> /\ \A i \in Ids : ~Open(i)

Calm == OnlyLatest /\ OwnSettings /\ InTurn

\* The inductive invariant behind the safety properties above.
IInv == TypeOK /\ SocketInv /\ QueueInv /\ (~hasty => Calm)
=============================================================================

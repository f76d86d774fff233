----------------------------- MODULE SftpServer -----------------------------
(***************************************************************************)
(* The life of the SFTP server (backend/sftp_server.py:140-227): start and *)
(* stop run on the event loop, and every start spawns a thread that sets a *)
(* socket up, accepts until self.running is found false, and closes the    *)
(* socket in its finally clause.  stop does not wait for the thread.  All  *)
(* of them share self.running and self.server_socket, which the thread     *)
(* reads anew at every use.                                                *)
(*                                                                         *)
(* A thread and the socket it creates have the number of their start.      *)
(* Starts and stops come in any order: the handlers of two quick clicks    *)
(* overlap and may hand two starts over in a row.                          *)
(*                                                                         *)
(* Outside src/: accept on a listening socket that has no time-out yet     *)
(* waits for a connection, and keeps the port open until one comes: a      *)
(* close by another thread need not wake it, and does not on Linux.        *)
(* The clients' own threads touch none of this state and are left out.     *)
(***************************************************************************)
EXTENDS Naturals

CONSTANT MaxStarts  \* bound: how often the server is started

ASSUME SftpAssumption == MaxStarts \in Nat \ {0}

VARIABLES
    starts,         \* how many starts there have been
    running,        \* self.running
    stopping,       \* stop is between self.running = False and close
    server_socket,  \* self.server_socket: the number of a socket, 0 for None
    socket,         \* what each socket is to the operating system
    timed,          \* the sockets that have a time-out
    thread,         \* where each thread is in _run_server
    accepting,      \* the socket a thread waits on inside accept, 0 for none
    pace            \* history: how the starts have followed each other

vars == <<starts, running, stopping, server_socket, socket, timed, thread, accepting,
          pace>>

Ids == 1..MaxStarts

\* A server thread: "spawned" to "ready" are the steps of the setup, "loop", "turn"
\* and "accept" the accept loop, "exit" and "abort" stand before the finally clause,
\* after the loop and after an exception.  "blocked" is inside an accept without a
\* time-out.
Looping      == {"loop", "turn", "accept"}
Gone         == {"none", "ended", "aborted"}
ThreadStates == {"spawned", "created", "bound", "listening", "ready", "blocked", "exit",
                 "abort"} \cup Looping \cup Gone

\* "stray" is a socket made to listen before it was bound: on a port of the
\* system's choice.
SocketStates == {"none", "open", "bound", "listening", "stray", "closed"}

\* "restart": a start found a thread of an earlier one; "double": a start came
\* while the server ran.
Paces == {"calm", "restart", "double"}

TypeOK ==
    /\ starts \in 0..MaxStarts
    /\ running \in BOOLEAN
    /\ stopping \in BOOLEAN
    /\ server_socket \in 0..MaxStarts
    /\ socket \in [Ids -> SocketStates]
    /\ timed \subseteq 0..MaxStarts
    /\ thread \in [Ids -> ThreadStates]
    /\ accepting \in [Ids -> 0..MaxStarts]
    /\ pace \in Paces

Init ==
    /\ starts = 0
    /\ running = FALSE
    /\ stopping = FALSE
    /\ server_socket = 0
    /\ socket = [i \in Ids |-> "none"]
    /\ timed = {}
    /\ thread = [i \in Ids |-> "none"]
    /\ accepting = [i \in Ids |-> 0]
    /\ pace = "calm"

Listens(s) == socket[s] \in {"listening", "stray"}

\* A socket nobody refers to is closed by the interpreter; one with a thread
\* blocked in accept stays open whoever closes it.
Held(s)    == s = server_socket \/ \E t \in Ids : accepting[t] = s
Blocked(s) == \E t \in Ids : thread[t] = "blocked" /\ accepting[t] = s
Live(s)    == Blocked(s) \/ (Listens(s) /\ Held(s))

\* The configured port is open.
Listening == server_socket # 0 /\ socket[server_socket] = "listening"

-----------------------------------------------------------------------------
\* The two coroutines.  Neither awaits anything, so no other coroutine comes in
\* between, but threads do.

Start ==
    /\ ~stopping
    /\ starts < MaxStarts
    /\ starts' = starts + 1
    /\ running' = TRUE
    /\ thread' = [thread EXCEPT ![starts + 1] = "spawned"]
    /\ pace' = IF running \/ pace = "double" THEN "double"
               ELSE IF \E t \in Ids : thread[t] \notin Gone THEN "restart"
               ELSE pace
    /\ UNCHANGED <<stopping, server_socket, socket, timed, accepting>>

StopRunning ==
    /\ starts > 0 /\ ~stopping
    /\ running' = FALSE
    /\ stopping' = TRUE
    /\ UNCHANGED <<starts, server_socket, socket, timed, thread, accepting, pace>>

\* What both stop and the finally clause do.
CloseSharedSocket ==
    socket' = IF server_socket = 0 THEN socket
              ELSE [socket EXCEPT ![server_socket] = "closed"]

StopClose ==
    /\ stopping
    /\ stopping' = FALSE
    /\ CloseSharedSocket
    /\ UNCHANGED <<starts, running, server_socket, timed, thread, accepting, pace>>

-----------------------------------------------------------------------------
\* The thread.

Goto(t, state) == thread' = [thread EXCEPT ![t] = state]

Create(t) ==
    /\ thread[t] = "spawned"
    /\ server_socket' = t
    /\ socket' = [socket EXCEPT ![t] = "open"]
    /\ Goto(t, "created")
    /\ UNCHANGED <<starts, running, stopping, timed, accepting, pace>>

\* self.server_socket.bind: of whichever socket that is by now.
Bind(t) ==
    /\ thread[t] = "created"
    /\ socket[server_socket] = "open"
    /\ socket' = [socket EXCEPT ![server_socket] = "bound"]
    /\ Goto(t, "bound")
    /\ UNCHANGED <<starts, running, stopping, server_socket, timed, accepting, pace>>

Listen(t) ==
    /\ thread[t] = "bound"
    /\ socket[server_socket] # "closed"
    /\ socket' = [socket EXCEPT ![server_socket] =
                      IF @ = "open" THEN "stray"
                      ELSE IF @ = "bound" THEN "listening" ELSE @]
    /\ Goto(t, "listening")
    /\ UNCHANGED <<starts, running, stopping, server_socket, timed, accepting, pace>>

SetTimeout(t) ==
    /\ thread[t] = "listening"
    /\ socket[server_socket] # "closed"
    /\ timed' = timed \cup {server_socket}
    /\ Goto(t, "ready")
    /\ UNCHANGED <<starts, running, stopping, server_socket, socket, accepting, pace>>

\* The host key is loaded, or made and written.
LoadKey(t) ==
    /\ thread[t] = "ready"
    /\ Goto(t, "loop")
    /\ UNCHANGED <<starts, running, stopping, server_socket, socket, timed, accepting,
                   pace>>

\* Any step of the setup may raise: the port is taken, the socket has been
\* closed or bound already, the key cannot be written.
SetupFails(t) ==
    /\ thread[t] \in {"spawned", "created", "bound", "listening", "ready"}
    /\ Goto(t, "abort")
    /\ UNCHANGED <<starts, running, stopping, server_socket, socket, timed, accepting,
                   pace>>

\* Mutant of CheckRunning: while True.
CheckNothing(t) ==
    /\ thread[t] = "loop"
    /\ Goto(t, "turn")
    /\ UNCHANGED <<starts, running, stopping, server_socket, socket, timed, accepting,
                   pace>>

\* while self.running ...
CheckRunning(t) ==
    /\ thread[t] = "loop"
    /\ running
    /\ Goto(t, "turn")
    /\ UNCHANGED <<starts, running, stopping, server_socket, socket, timed, accepting,
                   pace>>

\* ... self.server_socket.accept(), of whichever socket that is by now: it raises
\* at once if that one is not listening, and has no time limit if another thread
\* has made it listen and not come to settimeout.
EnterAccept(t) ==
    /\ thread[t] = "turn"
    /\ accepting' = [accepting EXCEPT ![t] = server_socket]
    /\ Goto(t, IF Listens(server_socket) /\ server_socket \notin timed
               THEN "blocked" ELSE "accept")
    /\ UNCHANGED <<starts, running, stopping, server_socket, socket, timed, pace>>

\* Mutant of LeaveAccept: any exception, the time-out as well, ends the loop.
LeaveAcceptOrBreak(t) ==
    /\ thread[t] = "accept"
    /\ accepting' = [accepting EXCEPT ![t] = 0]
    /\ \E state \in {"loop", "exit"} : Goto(t, state)
    /\ UNCHANGED <<starts, running, stopping, server_socket, socket, timed, pace>>

\* accept returns a connection, times out after a second, or raises because the
\* socket is closed or does not listen: in all three cases the loop goes on.
LeaveAccept(t) ==
    /\ thread[t] = "accept"
    /\ accepting' = [accepting EXCEPT ![t] = 0]
    /\ Goto(t, "loop")
    /\ UNCHANGED <<starts, running, stopping, server_socket, socket, timed, pace>>

\* A connection comes, if ever, or the system lets a close wake the thread.
WakeUp(t) ==
    /\ thread[t] = "blocked"
    /\ accepting' = [accepting EXCEPT ![t] = 0]
    /\ Goto(t, "loop")
    /\ UNCHANGED <<starts, running, stopping, server_socket, socket, timed, pace>>

LeaveLoop(t) ==
    /\ thread[t] = "loop"
    /\ ~running
    /\ Goto(t, "exit")
    /\ UNCHANGED <<starts, running, stopping, server_socket, socket, timed, accepting,
                   pace>>

\* Mutant of Finally: no finally clause, stop alone closes the socket.
FinallyLeavesSocket(t) ==
    /\ thread[t] \in {"exit", "abort"}
    /\ Goto(t, IF thread[t] = "exit" THEN "ended" ELSE "aborted")
    /\ UNCHANGED <<starts, running, stopping, server_socket, socket, timed, accepting,
                   pace>>

\* finally: the socket closed is the one in self.server_socket now.
Finally(t) ==
    /\ thread[t] \in {"exit", "abort"}
    /\ CloseSharedSocket
    /\ Goto(t, IF thread[t] = "exit" THEN "ended" ELSE "aborted")
    /\ UNCHANGED <<starts, running, stopping, server_socket, timed, accepting, pace>>

\* The steps that the scheduler owes a thread; it owes no connection.
ThreadStep(t) ==
    \/ Create(t) \/ Bind(t) \/ Listen(t) \/ SetTimeout(t) \/ LoadKey(t) \/ SetupFails(t)
    \/ CheckRunning(t) \/ EnterAccept(t) \/ LeaveAccept(t) \/ LeaveLoop(t) \/ Finally(t)

-----------------------------------------------------------------------------
Next == Start \/ StopRunning \/ StopClose \/ \E t \in Ids : ThreadStep(t) \/ WakeUp(t)

Spec == Init /\ [][Next]_vars

\* Threads and the loop are scheduled fairly, and an accept with a time-out waits
\* a second at most.
FairSpec == Spec /\ WF_vars(StopClose) /\ \A t \in Ids : WF_vars(ThreadStep(t))

-----------------------------------------------------------------------------
\* A listening socket always has a thread that will close it: the port is never
\* left open by threads that are gone (sftp_server.py:211-213, 220-226).
NoOrphan ==
    (\E s \in Ids : Live(s)) => \E t \in Ids : thread[t] \notin Gone

\* When the server stays stopped, all threads end and the port is given back, also
\* after restarts and double starts that left several threads behind, except for
\* threads blocked in accept and the sockets they hold; and these come of a start
\* that found an earlier thread only (sftp_server.py:158-159, 198-226).
StopQuiesces ==
    <>[](~running) =>
        <>[](/\ \A t \in Ids : thread[t] \in Gone
                                   \/ (thread[t] = "blocked" /\ pace # "calm")
             /\ \A s \in Ids : Live(s) => Blocked(s))

\* Once set up, the server last started listens until it is stopped: its thread
\* does not leave the accept loop, and the socket it accepts on is open
\* (sftp_server.py:198-213); for a user who lets the old thread end first.
ServesUntilStopped ==
    running /\ pace = "calm" =>
        /\ thread[starts] \notin {"exit", "ended", "blocked"}
        /\ thread[starts] \in Looping => Listening

\* A server that stays started, with its thread in the accept loop, ends up listening
\* and stays so, when no start came while the server ran (sftp_server.py:198-206).
KeepsServing ==
    <>[](running /\ pace # "double" /\ thread[starts] \in Looping) => <>[]Listening
-----------------------------------------------------------------------------
\* While every start has found the threads before it gone, the last thread is alone:
\* it finds self.server_socket as it has left it, and before it accepts it has set the
\* time-out.  While the server runs, nobody has closed that socket.
LastThread ==
    pace = "calm" => \A t \in Ids :
        /\ t # starts => thread[t] \in Gone
        /\ thread[t] # "blocked"
        /\ thread[t] \in {"created", "bound", "listening", "ready"} \cup Looping =>
              server_socket = t
        /\ thread[t] \in {"ready"} \cup Looping => t \in timed
        /\ t = starts /\ running =>
              /\ thread[t] \notin {"none", "exit", "ended"}
              /\ thread[t] = "created" => socket[t] = "open"
              /\ thread[t] = "bound" => socket[t] = "bound"
              /\ thread[t] \in {"listening", "ready"} \cup Looping =>
                    socket[t] = "listening"

\* The inductive invariant behind NoOrphan and ServesUntilStopped: inside accept, and
\* only there, a thread holds a socket.
IInv ==
    /\ TypeOK
    /\ NoOrphan
    /\ running => starts > 0 /\ ~stopping
    /\ \A t \in Ids : accepting[t] # 0 => thread[t] \in {"accept", "blocked"}
    /\ \A t \in Ids : t > starts => thread[t] = "none"
    /\ LastThread
=============================================================================

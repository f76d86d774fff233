--------------------------- MODULE DatagramServer ---------------------------
(***************************************************************************)
(* Starting and stopping the two UDP servers, syslog and TFTP, from their  *)
(* tabs (gui/tabs_flet/syslog_tab.py, tftp_tab.py), through BackendRunner  *)
(* (main.py), to the coroutines on the event loop (backend/                *)
(* syslog_server.py, tftp_server.py).  The two differ in nothing that      *)
(* matters here.                                                           *)
(*                                                                         *)
(* Each click is handled in a thread of its own, which reads self.running, *)
(* writes its negation, and reads it again to see what to do: the handlers *)
(* of two quick clicks interleave.  A handler never waits for the loop: it *)
(* writes the server's attributes and hands a coroutine over.  The loop    *)
(* starts the coroutines in order; a start gives way at its await, and     *)
(* other coroutines run before it resumes and stores its transport.        *)
(*                                                                         *)
(* A start, and the socket it makes, have the number of their click.       *)
(*                                                                         *)
(* Outside src/: asyncio, which binds the port before the await gives way, *)
(* and closes the socket of a transport one turn of the loop after close.  *)
(***************************************************************************)
EXTENDS Naturals, Sequences

CONSTANTS
    Ports,      \* the ports the user chooses from
    MaxClicks   \* bound: clicks

ASSUME DatagramAssumption ==
    /\ Ports # {}
    /\ MaxClicks \in Nat \ {0}

VARIABLES
    clicks,     \* how many clicks there have been
    handler,    \* where the handler of each click is
    seen,       \* what it read first from self.running
    running,    \* self.running of the tab
    button,     \* the button says Stop
    port,       \* srv.port
    queue,      \* coroutines the loop has still to begin: a start by its click
    start,      \* what has become of the start of each click
    transport,  \* self.transport: the click of the start it is of, 0 for None
    endpoint,   \* the socket each start has made
    pace        \* history: how the clicks have followed each other

vars == <<clicks, handler, seen, running, button, port, queue, start, transport,
          endpoint, pace>>

Clicks == 1..MaxClicks
Stop   == 0

HandlerStates == {"none", "read", "turned", "starting", "entered", "stopping", "done"}

\* "binding" is a start at its await; an "invalid" or "failed" one has put an
\* error message on log_queue.
StartStates    == {"none", "queued", "binding", "done", "invalid", "failed"}
EndpointStates == {"none", "open", "closing", "closed"}

\* "hasty": a click came before the loop was done with the last one; "overlapping":
\* before its handler was.
Paces == {"patient", "hasty", "overlapping"}

NoEndpoint == [st |-> "none", port |-> CHOOSE p \in Ports : TRUE]

TypeOK ==
    /\ clicks \in 0..MaxClicks
    /\ handler \in [Clicks -> HandlerStates]
    /\ seen \in [Clicks -> BOOLEAN]
    /\ running \in BOOLEAN
    /\ button \in BOOLEAN
    /\ port \in Ports
    /\ queue \in Seq(0..MaxClicks)
    /\ start \in [Clicks -> StartStates]
    /\ transport \in 0..MaxClicks
    /\ endpoint \in [Clicks -> [st : EndpointStates, port : Ports]]
    /\ pace \in Paces

Init ==
    /\ clicks = 0
    /\ handler = [c \in Clicks |-> "none"]
    /\ seen = [c \in Clicks |-> FALSE]
    /\ running = FALSE
    /\ button = FALSE
    /\ port \in Ports
    /\ queue = <<>>
    /\ start = [c \in Clicks |-> "none"]
    /\ transport = 0
    /\ endpoint = [c \in Clicks |-> NoEndpoint]
    /\ pace = "patient"

Open(c)  == endpoint[c].st = "open"
Shut     == \A c \in Clicks : ~Open(c)
Taken(p) == \E c \in Clicks :
                endpoint[c].st \in {"open", "closing"} /\ endpoint[c].port = p

Handling(c) == handler[c] \notin {"none", "done"}

\* All that was asked for has been done.
Idle == /\ \A c \in Clicks : ~Handling(c)
        /\ queue = <<>>
        /\ \A c \in Clicks : start[c] # "binding" /\ endpoint[c].st # "closing"

Move(c, from, to) ==
    /\ handler[c] = from
    /\ handler' = [handler EXCEPT ![c] = to]

-----------------------------------------------------------------------------
\* The handlers, in the tab and in BackendRunner.

\* not self.running is evaluated ...
Click ==
    /\ clicks < MaxClicks
    /\ clicks' = clicks + 1
    /\ Move(clicks + 1, "none", "read")
    /\ seen' = [seen EXCEPT ![clicks + 1] = running]
    /\ pace' = IF pace = "overlapping" \/ \E c \in Clicks : Handling(c)
               THEN "overlapping"
               ELSE IF Idle THEN pace ELSE "hasty"
    /\ UNCHANGED <<running, button, port, queue, start, transport, endpoint>>

\* ... and assigned.
Turn(c) ==
    /\ Move(c, "read", "turned")
    /\ running' = ~seen[c]
    /\ UNCHANGED <<clicks, seen, button, port, queue, start, transport, endpoint, pace>>

\* self.running is read again, and the button is labelled after it, whatever
\* becomes of the start or the stop.
Label(c) ==
    /\ Move(c, "turned", IF running THEN "starting" ELSE "stopping")
    /\ button' = running
    /\ UNCHANGED <<clicks, seen, running, port, queue, start, transport, endpoint, pace>>

\* start_server stores the port, which the loop may be about to read.
EnterPort(c, entry) ==
    /\ Move(c, "starting", "entered")
    /\ port' = entry
    /\ UNCHANGED <<clicks, seen, running, button, queue, start, transport, endpoint, pace>>

\* An entry that is no port puts an error on log_queue and leaves the loop alone.
RefusePort(c) ==
    /\ Move(c, "starting", "done")
    /\ start' = [start EXCEPT ![c] = "invalid"]
    /\ UNCHANGED <<clicks, seen, running, button, port, queue, transport, endpoint, pace>>

SubmitStart(c) ==
    /\ Move(c, "entered", "done")
    /\ start' = [start EXCEPT ![c] = "queued"]
    /\ queue' = Append(queue, c)
    /\ UNCHANGED <<clicks, seen, running, button, port, transport, endpoint, pace>>

SubmitStop(c) ==
    /\ Move(c, "stopping", "done")
    /\ queue' = Append(queue, Stop)
    /\ UNCHANGED <<clicks, seen, running, button, port, start, transport, endpoint, pace>>

Handle(c) ==
    \/ Turn(c) \/ Label(c) \/ RefusePort(c) \/ SubmitStart(c) \/ SubmitStop(c)
    \/ \E entry \in Ports : EnterPort(c, entry)

-----------------------------------------------------------------------------
\* The event loop.

Dequeue(item) ==
    /\ queue # <<>> /\ Head(queue) = item
    /\ queue' = Tail(queue)
    /\ UNCHANGED <<clicks, handler, seen, running, button, port, pace>>

\* start, up to its await: binds to the port there is in srv.port by now.
BeginStart(c) ==
    /\ Dequeue(c)
    /\ ~Taken(port)
    /\ start' = [start EXCEPT ![c] = "binding"]
    /\ endpoint' = [endpoint EXCEPT ![c] = [st |-> "open", port |-> port]]
    /\ UNCHANGED transport

\* Mutant of FailStart: the exception is lost.
FailSilently(c) ==
    /\ Dequeue(c)
    /\ start' = [start EXCEPT ![c] = "done"]
    /\ UNCHANGED <<transport, endpoint>>

\* Binding fails, because the port is taken, here or by another program:
\* done_callback puts an error on log_queue.
FailStart(c) ==
    /\ Dequeue(c)
    /\ start' = [start EXCEPT ![c] = "failed"]
    /\ UNCHANGED <<transport, endpoint>>

\* Mutant of ResumeStart: the transport is not stored.
ResumeStartForgets(c) ==
    /\ start[c] = "binding"
    /\ start' = [start EXCEPT ![c] = "done"]
    /\ UNCHANGED <<clicks, handler, seen, running, button, port, queue, transport,
                   endpoint, pace>>

\* start, from its await: the transport is stored.
ResumeStart(c) ==
    /\ start[c] = "binding"
    /\ start' = [start EXCEPT ![c] = "done"]
    /\ transport' = c
    /\ UNCHANGED <<clicks, handler, seen, running, button, port, queue, endpoint, pace>>

\* Mutant of RunStop: the transport is forgotten, and not closed.
RunStopForgets ==
    /\ Dequeue(Stop)
    /\ transport' = 0
    /\ UNCHANGED <<start, endpoint>>

\* stop: closes the transport that is stored now, if there is one.
RunStop ==
    /\ Dequeue(Stop)
    /\ endpoint' = IF transport # 0 /\ Open(transport)
                   THEN [endpoint EXCEPT ![transport].st = "closing"]
                   ELSE endpoint
    /\ UNCHANGED <<start, transport>>

\* The loop closes the socket of a closed transport.
CloseSocket(c) ==
    /\ endpoint[c].st = "closing"
    /\ endpoint' = [endpoint EXCEPT ![c].st = "closed"]
    /\ UNCHANGED <<clicks, handler, seen, running, button, port, queue, start, transport,
                   pace>>

Loop ==
    \/ RunStop
    \/ \E c \in Clicks : \/ BeginStart(c) \/ FailStart(c) \/ ResumeStart(c)
                         \/ CloseSocket(c)

Next == Click \/ (\E c \in Clicks : Handle(c)) \/ Loop

Spec == Init /\ [][Next]_vars

-----------------------------------------------------------------------------
\* Once all is settled, a button that says Stop is right, or the last start has
\* reported its error: however slow the loop is, no start is dropped silently, and
\* none is undone by a stop asked for earlier; unless the handlers of two clicks
\* overlapped (syslog_tab.py:143-159, tftp_tab.py:93-109, main.py:72-104).
StartedOrReported ==
    pace # "overlapping" /\ Idle /\ button =>
        start[clicks] \in {"invalid", "failed"} \/ Open(clicks)

\* Once all is settled, a button that says Start is right: the port is free
\* (syslog_server.py:60-63, tftp_server.py:109-112).
StoppedMeansClosed == pace # "overlapping" /\ Idle /\ ~button => Shut

\* It holds as long as the loop has been faster than the user: a start that is
\* stopped at its await opens the port all the same (tftp_server.py:102-112).
StopCloses == pace = "patient" /\ Idle /\ ~button => Shut

\* A port that is open belongs to the transport that the next stop will close,
\* or to a start at its await, as long as the loop has been faster than the user
\* (syslog_server.py:52-63, tftp_server.py:102-112).
NoOrphan ==
    pace = "patient" =>
        \A c \in Clicks : Open(c) => c = transport \/ start[c] = "binding"
-----------------------------------------------------------------------------
\* The inductive invariant behind the properties above.

\* Clicks are handled as they come, and each start was handed over once.
HandlerInv ==
    /\ \A c \in Clicks : c > clicks => handler[c] = "none" /\ start[c] = "none"
    /\ \A c \in Clicks : start[c] # "none" => handler[c] = "done"
    /\ \A k \in DOMAIN queue :
           queue[k] # Stop => queue[k] <= clicks /\ start[queue[k]] = "queued"
    /\ \A k, l \in DOMAIN queue : queue[k] = queue[l] /\ queue[k] # Stop => k = l

\* The handler of the last click, when no two overlap: the earlier ones are done,
\* and what it has read is still so.
LastHandler ==
    pace # "overlapping" =>
        /\ clicks = 0 => ~button
        /\ \A c \in Clicks : c < clicks => handler[c] = "done"
        /\ clicks > 0 => handler[clicks] # "none"
        /\ clicks > 0 /\ handler[clicks] = "read" => seen[clicks] = running
        /\ clicks > 0 /\ handler[clicks] \in {"starting", "entered"} => button
        /\ clicks > 0 /\ handler[clicks] = "stopping" => ~button
        /\ (clicks = 0 \/ handler[clicks] # "turned") => button = running
        /\ clicks > 0 /\ handler[clicks] = "turned" => button # running

\* The last start asked for is the last in the queue, or the queue is empty and
\* nothing is left that could close its socket.
LastStart ==
    pace # "overlapping" /\ button /\ clicks > 0 /\ handler[clicks] = "done" =>
        \/ start[clicks] = "invalid"
        \/ start[clicks] = "queued" /\ queue # <<>> /\ queue[Len(queue)] = clicks
        \/ start[clicks] = "failed" /\ queue = <<>>
        \/ start[clicks] \in {"binding", "done"} /\ queue = <<>> /\ Open(clicks)

\* As long as the loop is faster than the user it has one thing to do at a time,
\* and nothing while a click is being handled.
Calm ==
    pace = "patient" =>
        /\ clicks = 0 => queue = <<>> /\ Shut
        /\ clicks > 0 /\ handler[clicks] # "done" =>
              queue = <<>> /\ (handler[clicks] = "stopping" \/
                               (button /\ handler[clicks] \in {"read", "turned"}) \/ Shut)
        /\ clicks > 0 /\ handler[clicks] = "done" /\ button =>
              queue = <<>> \/ (queue = <<clicks>> /\ Shut)
        /\ clicks > 0 /\ handler[clicks] = "done" /\ ~button =>
              queue = <<Stop>> \/ (queue = <<>> /\ Shut)
        /\ \A c \in Clicks : start[c] = "binding" =>
              /\ c = clicks /\ handler[c] = "done" /\ button
              /\ \A d \in Clicks : Open(d) => d = c

IInv == TypeOK /\ HandlerInv /\ LastHandler /\ LastStart /\ NoOrphan /\ Calm
=============================================================================

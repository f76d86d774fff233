---------------------------- MODULE TrapReceiver ----------------------------
(***************************************************************************)
(* The button of the SNMP trap receiver (gui/tabs_flet/snmp_tab.py,        *)
(* toggle_server), the attributes and coroutines it hands over             *)
(* (main.py, start_server and stop_server), and the receiver on the event  *)
(* loop (backend/snmp_server.py, start and stop).                          *)
(*                                                                         *)
(* Each click is handled in a thread of its own, which reads self.running, *)
(* writes its negation, and reads it again to see what to do: the handlers *)
(* of a double click interleave.  start and stop never await, so the loop  *)
(* runs each in one piece, in the order in which they were handed over.    *)
(*                                                                         *)
(* Outside src/: pysnmp, whose calls may raise, and which binds the port   *)
(* in a task of its own after start has returned; nobody hears of it when  *)
(* that fails.  Closing a dispatcher gives its port back, or cancels the   *)
(* task that was to bind it, before anything started later can bind.       *)
(***************************************************************************)
EXTENDS Naturals, Sequences

CONSTANTS
    Ports,      \* the ports the user chooses from
    MaxClicks   \* bound: clicks

ASSUME TrapAssumption ==
    /\ Ports # {}
    /\ MaxClicks \in Nat \ {0}

VARIABLES
    clicks,    \* how many clicks there have been
    handler,   \* where the handler of each click is
    seen,      \* what it read first from self.running
    running,   \* self.running
    button,    \* the button says Stop
    port,      \* srv.port
    queue,     \* coroutines the loop has still to run: a start by its click
    start,     \* what has become of the start of each click
    engine,    \* self.snmpEngine: the click it is of, 0 for None
    endpoint,  \* the dispatcher of each engine, and the port it was made for
    hasty      \* history: there was a click before the last one was handled

vars == <<clicks, handler, seen, running, button, port, queue, start, engine,
          endpoint, hasty>>

Clicks == 1..MaxClicks
Stop   == 0

HandlerStates == {"none", "read", "turned", "starting", "entered", "stopping", "done"}

\* An "invalid" or "failed" start has put an error message on log_queue.
StartStates == {"none", "queued", "started", "invalid", "failed"}

\* "bare" is an engine without a dispatcher; a "deaf" one has failed to bind.
EndpointStates == {"none", "bare", "binding", "open", "deaf", "closed"}

NoEndpoint == [st |-> "none", port |-> CHOOSE p \in Ports : TRUE]

TypeOK ==
    /\ clicks \in 0..MaxClicks
    /\ handler \in [Clicks -> HandlerStates]
    /\ seen \in [Clicks -> BOOLEAN]
    /\ running \in BOOLEAN
    /\ button \in BOOLEAN
    /\ port \in Ports
    /\ queue \in Seq(0..MaxClicks)
    /\ start \in [Clicks -> StartStates]
    /\ engine \in 0..MaxClicks
    /\ endpoint \in [Clicks -> [st : EndpointStates, port : Ports]]
    /\ hasty \in BOOLEAN

Init ==
    /\ clicks = 0
    /\ handler = [c \in Clicks |-> "none"]
    /\ seen = [c \in Clicks |-> FALSE]
    /\ running = FALSE
    /\ button = FALSE
    /\ port \in Ports
    /\ queue = <<>>
    /\ start = [c \in Clicks |-> "none"]
    /\ engine = 0
    /\ endpoint = [c \in Clicks |-> NoEndpoint]
    /\ hasty = FALSE

Move(c, from, to) ==
    /\ handler[c] = from
    /\ handler' = [handler EXCEPT ![c] = to]

Handling(c) == handler[c] \notin {"none", "done"}

\* The dispatcher has the port, or will.
Live(c) == endpoint[c].st \in {"binding", "open"}

-----------------------------------------------------------------------------
\* The handlers.

\* not self.running is evaluated ...
Click ==
    /\ clicks < MaxClicks
    /\ clicks' = clicks + 1
    /\ Move(clicks + 1, "none", "read")
    /\ seen' = [seen EXCEPT ![clicks + 1] = running]
    /\ hasty' = (hasty \/ \E c \in Clicks : Handling(c))
    /\ UNCHANGED <<running, button, port, queue, start, engine, endpoint>>

\* ... and assigned.
Turn(c) ==
    /\ Move(c, "read", "turned")
    /\ running' = ~seen[c]
    /\ UNCHANGED <<clicks, seen, button, port, queue, start, engine, endpoint, hasty>>

\* self.running is read again, and the button is labelled after it.
Label(c) ==
    /\ Move(c, "turned", IF running THEN "starting" ELSE "stopping")
    /\ button' = running
    /\ UNCHANGED <<clicks, seen, running, port, queue, start, engine, endpoint, hasty>>

\* start_server stores the port, which the loop may be about to read.
EnterPort(c, entry) ==
    /\ Move(c, "starting", "entered")
    /\ port' = entry
    /\ UNCHANGED <<clicks, seen, running, button, queue, start, engine, endpoint, hasty>>

\* An entry that is no port puts an error on log_queue, and that is all.
RefusePort(c) ==
    /\ Move(c, "starting", "done")
    /\ start' = [start EXCEPT ![c] = "invalid"]
    /\ UNCHANGED <<clicks, seen, running, button, port, queue, engine, endpoint, hasty>>

SubmitStart(c) ==
    /\ Move(c, "entered", "done")
    /\ start' = [start EXCEPT ![c] = "queued"]
    /\ queue' = Append(queue, c)
    /\ UNCHANGED <<clicks, seen, running, button, port, engine, endpoint, hasty>>

SubmitStop(c) ==
    /\ Move(c, "stopping", "done")
    /\ queue' = Append(queue, Stop)
    /\ UNCHANGED <<clicks, seen, running, button, port, start, engine, endpoint, hasty>>

Handle(c) ==
    \/ Turn(c) \/ Label(c) \/ RefusePort(c) \/ SubmitStart(c) \/ SubmitStop(c)
    \/ \E entry \in Ports : EnterPort(c, entry)

-----------------------------------------------------------------------------
\* The event loop.

Dequeue(item) ==
    /\ queue # <<>> /\ Head(queue) = item
    /\ queue' = Tail(queue)

Bare(e) == e # 0 /\ endpoint[e].st = "bare"

\* Mutant of Closed: the dispatcher is left to itself.
ClosedNot(e) == endpoint

\* The endpoints once the dispatcher of engine e is closed.
Closed(e) == IF e = 0 THEN endpoint ELSE [endpoint EXCEPT ![e].st = "closed"]

\* start with an engine that has no dispatcher: closing that one raises, here and
\* in every start to come.
FailToClose(c) ==
    /\ Dequeue(c)
    /\ Bare(engine)
    /\ start' = [start EXCEPT ![c] = "failed"]
    /\ UNCHANGED <<clicks, handler, seen, running, button, port, engine, endpoint, hasty>>

\* start closes the earlier dispatcher and makes an engine of its own, for the port
\* there is in srv.port by now.
Renew(c, st) ==
    /\ Dequeue(c)
    /\ ~Bare(engine)
    /\ engine' = c
    /\ endpoint' = [Closed(engine) EXCEPT ![c] = [st |-> st, port |-> port]]
    /\ UNCHANGED <<clicks, handler, seen, running, button, port, hasty>>

\* Mutant of FailToOpen: the exception is lost.
FailSilently(c) ==
    /\ Renew(c, "bare")
    /\ start' = [start EXCEPT ![c] = "started"]

\* Making the transport raises: done_callback puts an error on log_queue.
FailToOpen(c) ==
    /\ Renew(c, "bare")
    /\ start' = [start EXCEPT ![c] = "failed"]

\* A community or a v3 user is refused after that: an error is reported, and the
\* port opens all the same, with nobody to receive the traps.
FailToConfigure(c) ==
    /\ Renew(c, "binding")
    /\ start' = [start EXCEPT ![c] = "failed"]

\* The receiver of traps is registered.
Started(c) ==
    /\ Renew(c, "binding")
    /\ start' = [start EXCEPT ![c] = "started"]

\* Mutant of RunStop: the engine is forgotten, and its dispatcher not closed.
RunStopForgets ==
    /\ Dequeue(Stop)
    /\ engine' = 0
    /\ UNCHANGED <<clicks, handler, seen, running, button, port, start, endpoint, hasty>>

\* stop: what closing None or a bare engine raises is ignored.
RunStop ==
    /\ Dequeue(Stop)
    /\ endpoint' = IF Bare(engine) THEN endpoint ELSE Closed(engine)
    /\ UNCHANGED <<clicks, handler, seen, running, button, port, start, engine, hasty>>

\* The task that binds the port ends; another program may have the port.
Bind(c) ==
    /\ endpoint[c].st = "binding"
    /\ \E st \in {"open", "deaf"} : endpoint' = [endpoint EXCEPT ![c].st = st]
    /\ UNCHANGED <<clicks, handler, seen, running, button, port, queue, start, engine, hasty>>

Loop ==
    \/ RunStop
    \/ \E c \in Clicks : \/ FailToClose(c) \/ FailToOpen(c) \/ FailToConfigure(c)
                         \/ Started(c) \/ Bind(c)

Next == Click \/ (\E c \in Clicks : Handle(c)) \/ Loop

Spec == Init /\ [][Next]_vars

-----------------------------------------------------------------------------
\* All that was asked for has been done.
Settled ==
    /\ \A c \in Clicks : ~Handling(c)
    /\ queue = <<>>
    /\ \A c \in Clicks : endpoint[c].st # "binding"

\* Only the dispatcher of the current engine, the one that stop will close, has a
\* port or will have one; also after starts in a row, which a double click can
\* make, and after starts that failed (snmp_server.py:55-66, snmp_tab.py:192-193).
OneDispatcher == \A c \in Clicks : Live(c) => c = engine

\* Once all is settled, a button that says Start is right, however slow the loop
\* is: the port is closed, also when the start had failed half-way; unless the
\* handlers of two clicks overlapped (snmp_tab.py:191-216, snmp_server.py:95-101).
StopCloses == ~hasty /\ Settled /\ ~button => \A c \in Clicks : ~Live(c)

\* Once all is settled without overlapping handlers, a button that says Stop has the
\* last start behind it, or the user has been told why not: its engine is the current
\* one, made for the port entered last, and receives, or is "deaf", binding the port
\* having failed with nobody told (main.py:72-100, snmp_server.py:55-93).
StartedOrReported ==
    ~hasty /\ Settled /\ button =>
        \/ start[clicks] \in {"invalid", "failed"}
        \/ /\ start[clicks] = "started"
           /\ engine = clicks
           /\ endpoint[clicks].st \in {"open", "deaf"}
           /\ endpoint[clicks].port = port
-----------------------------------------------------------------------------
\* The inductive invariant behind the properties above.

\* Clicks are handled as they come, and each start was handed over once.
HandlerInv ==
    /\ \A c \in Clicks : c > clicks => handler[c] = "none" /\ start[c] = "none"
    /\ \A c \in Clicks : start[c] # "none" => handler[c] = "done"
    /\ \A k \in DOMAIN queue :
           queue[k] # Stop => queue[k] <= clicks /\ start[queue[k]] = "queued"
    /\ \A k, l \in DOMAIN queue : queue[k] = queue[l] /\ queue[k] # Stop => k = l

\* The handler of the last click, when no two overlap: the earlier ones are done,
\* and what it has read is still so.
LastHandler ==
    ~hasty =>
        /\ clicks = 0 => ~button
        /\ \A c \in Clicks : c < clicks => handler[c] = "done"
        /\ clicks > 0 => handler[clicks] # "none"
        /\ clicks > 0 /\ handler[clicks] = "read" => seen[clicks] = running
        /\ clicks > 0 /\ handler[clicks] \in {"starting", "entered"} => button
        /\ clicks > 0 /\ handler[clicks] = "stopping" => ~button
        /\ (clicks = 0 \/ handler[clicks] # "turned") => button = running
        /\ clicks > 0 /\ handler[clicks] = "turned" => button # running

\* The last thing asked for is the last in the queue, or it has been done.
LastStop ==
    ~hasty /\ ~button /\ (clicks = 0 \/ handler[clicks] # "stopping") =>
        \/ queue # <<>> /\ queue[Len(queue)] = Stop
        \/ queue = <<>> /\ \A c \in Clicks : ~Live(c)

LastStart ==
    ~hasty /\ button /\ clicks > 0 /\ handler[clicks] = "done" =>
        \/ start[clicks] = "invalid"
        \/ start[clicks] = "queued" /\ queue # <<>> /\ queue[Len(queue)] = clicks
        \/ start[clicks] = "failed" /\ queue = <<>>
        \/ /\ start[clicks] = "started" /\ queue = <<>>
           /\ engine = clicks
           /\ endpoint[clicks].st \in {"binding", "open", "deaf"}
           /\ endpoint[clicks].port = port

IInv == TypeOK /\ OneDispatcher /\ HandlerInv /\ LastHandler /\ LastStop /\ LastStart
=============================================================================

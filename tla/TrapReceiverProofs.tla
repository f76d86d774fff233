------------------------- MODULE TrapReceiverProofs -------------------------
EXTENDS TrapReceiver, SequenceTheorems, TLAPS

\* Taking the first coroutine off the queue.
LEMMA TailOfQueue ==
    ASSUME queue \in Seq(0..MaxClicks), queue # <<>>, queue' = Tail(queue)
    PROVE  /\ Len(queue) \in Nat \ {0} /\ DOMAIN queue = 1..Len(queue)
           /\ Head(queue) = queue[1]
           /\ queue' \in Seq(0..MaxClicks)
           /\ Len(queue') = Len(queue) - 1
           /\ DOMAIN queue' = 1..(Len(queue) - 1)
           /\ \A k \in 1..(Len(queue) - 1) : queue'[k] = queue[k + 1]
<1>1. Len(queue) \in Nat \ {0} /\ DOMAIN queue = 1..Len(queue)
  OBVIOUS
<1>2. Head(queue) = queue[1]
  OBVIOUS
<1>3. queue' \in Seq(0..MaxClicks)
  <2>1. Tail(queue) \in Seq(0..MaxClicks)
    BY HeadTailProperties, Zenon
  <2> QED BY <2>1, Zenon
<1>4. Len(queue') = Len(queue) - 1
  OBVIOUS
<1>5. DOMAIN queue' = 1..(Len(queue) - 1)
  BY <1>3, <1>4
<1>6. \A k \in 1..(Len(queue) - 1) : queue'[k] = queue[k + 1]
  BY <1>1
<1> QED BY <1>1, <1>2, <1>3, <1>4, <1>5, <1>6

\* Handing a coroutine over to the loop.
LEMMA AppendToQueue ==
    ASSUME queue \in Seq(0..MaxClicks), NEW c \in 0..MaxClicks, queue' = Append(queue, c)
    PROVE  /\ Len(queue) \in Nat /\ DOMAIN queue = 1..Len(queue)
           /\ queue' \in Seq(0..MaxClicks) /\ queue' # <<>>
           /\ Len(queue') = Len(queue) + 1
           /\ DOMAIN queue' = 1..(Len(queue) + 1)
           /\ \A k \in 1..Len(queue) : queue'[k] = queue[k]
           /\ queue'[Len(queue) + 1] = c
OBVIOUS

\* A coroutine that is first but not last leaves the last one where it is; one that
\* is first and last leaves an empty queue, if it is there once.
LEMMA LastOfTail ==
    ASSUME queue \in Seq(0..MaxClicks), queue # <<>>, queue' = Tail(queue)
    PROVE  /\ Len(queue) = 1 => queue' = <<>>
           /\ Len(queue) # 1 => queue' # <<>> /\ queue'[Len(queue')] = queue[Len(queue)]
<1>1. /\ Len(queue) \in Nat \ {0}
      /\ queue' \in Seq(0..MaxClicks) /\ Len(queue') = Len(queue) - 1
      /\ \A k \in 1..(Len(queue) - 1) : queue'[k] = queue[k + 1]
  BY TailOfQueue
<1>2. Len(queue) = 1 => queue' = <<>>
  BY <1>1
<1>3. ASSUME Len(queue) # 1
      PROVE  queue' # <<>> /\ queue'[Len(queue')] = queue[Len(queue)]
  <2>1. Len(queue') \in 1..(Len(queue) - 1) /\ Len(queue') + 1 = Len(queue)
    BY <1>1, <1>3
  <2>2. queue'[Len(queue')] = queue[Len(queue)]
    BY <1>1, <2>1
  <2>3. Len(<<>>) = 0 /\ Len(queue') # 0
    BY <2>1
  <2>4. queue' # <<>>
    BY <2>3, Zenon
  <2> QED BY <2>2, <2>4
<1> QED BY <1>2, <1>3

-----------------------------------------------------------------------------
LEMMA TypeInit == Init => TypeOK
<1> SUFFICES ASSUME Init PROVE TypeOK
  OBVIOUS
<1>1. queue \in Seq(0..MaxClicks)
  BY DEF Init
<1>2. NoEndpoint \in [st : EndpointStates, port : Ports]
  BY TrapAssumption DEF NoEndpoint, EndpointStates
<1>3. 0 \in 0..MaxClicks
  BY TrapAssumption
<1> QED BY <1>1, <1>2, <1>3 DEF Init, TypeOK, StartStates, HandlerStates

LEMMA TypeHandle ==
    ASSUME TypeOK, NEW c \in Clicks, Handle(c)
    PROVE  TypeOK'
<1> USE TrapAssumption DEF TypeOK, HandlerStates, StartStates, Clicks, Move
<1>1. CASE Turn(c)
  <2>1. running' \in BOOLEAN
    BY <1>1, Zenon DEF Turn
  <2> QED BY <1>1, <2>1 DEF Turn
<1>2. CASE Label(c)
  <2>1. handler' \in [Clicks -> HandlerStates]
    BY <1>2 DEF Label
  <2> QED BY <1>2, <2>1 DEF Label
<1>3. CASE RefusePort(c)
  BY <1>3 DEF RefusePort
<1>4. CASE SubmitStart(c)
  <2>1. queue' \in Seq(0..MaxClicks)
    BY <1>4, AppendToQueue DEF SubmitStart
  <2> QED BY <1>4, <2>1 DEF SubmitStart
<1>5. CASE SubmitStop(c)
  <2>1. queue' \in Seq(0..MaxClicks)
    BY <1>5, AppendToQueue DEF SubmitStop, Stop
  <2> QED BY <1>5, <2>1 DEF SubmitStop
<1>6. ASSUME NEW entry \in Ports, EnterPort(c, entry) PROVE TypeOK'
  BY <1>6 DEF EnterPort
<1> QED BY <1>1, <1>2, <1>3, <1>4, <1>5, <1>6 DEF Handle

LEMMA TypeClick == TypeOK /\ Click => TypeOK'
<1> USE TrapAssumption DEF TypeOK, HandlerStates, Clicks, Move
<1> SUFFICES ASSUME TypeOK, Click PROVE TypeOK'
  OBVIOUS
<1>1. clicks + 1 \in Clicks /\ clicks' \in 0..MaxClicks
  BY DEF Click
<1>2. hasty' \in BOOLEAN
  BY DEF Click
<1>3. handler' \in [Clicks -> HandlerStates] /\ seen' \in [Clicks -> BOOLEAN]
  BY <1>1 DEF Click
<1> QED BY <1>1, <1>2, <1>3 DEF Click

\* Where Renew leaves the endpoints.
LEMMA RenewEndpoints ==
    ASSUME TypeOK, NEW c \in Clicks, NEW st \in EndpointStates, Renew(c, st)
    PROVE  /\ endpoint' \in [Clicks -> [st : EndpointStates, port : Ports]]
           /\ endpoint'[c] = [st |-> st, port |-> port]
           /\ \A d \in Clicks : d # c /\ d # engine => endpoint'[d] = endpoint[d]
           /\ engine \in Clicks /\ engine # c => endpoint'[engine].st = "closed"
<1> USE TrapAssumption DEF TypeOK, Clicks, EndpointStates
<1>1. CASE engine = 0
  BY <1>1 DEF Renew, Closed
<1>2. CASE engine # 0
  <2>1. engine \in Clicks
    BY <1>2
  <2>2. Closed(engine) = [endpoint EXCEPT ![engine].st = "closed"]
    BY <1>2 DEF Closed
  <2> QED BY <2>1, <2>2 DEF Renew
<1> QED BY <1>1, <1>2

LEMMA TypeLoop == TypeOK /\ Loop => TypeOK'
<1> USE TrapAssumption DEF TypeOK, StartStates, EndpointStates, Clicks, Dequeue
<1> SUFFICES ASSUME TypeOK, Loop PROVE TypeOK'
  OBVIOUS
<1>1. ASSUME queue # <<>>, queue' = Tail(queue) PROVE queue' \in Seq(0..MaxClicks)
  BY <1>1, TailOfQueue
<1>2. CASE RunStop
  <2>1. queue' \in Seq(0..MaxClicks)
    BY <1>1, <1>2 DEF RunStop
  <2>2. endpoint' \in [Clicks -> [st : EndpointStates, port : Ports]]
    BY <1>2 DEF RunStop, Closed
  <2> QED BY <1>2, <2>1, <2>2 DEF RunStop
<1>3. ASSUME NEW c \in Clicks, FailToClose(c) PROVE TypeOK'
  <2>1. queue' \in Seq(0..MaxClicks)
    BY <1>1, <1>3 DEF FailToClose
  <2> QED BY <1>3, <2>1 DEF FailToClose
<1>4. ASSUME NEW c \in Clicks, NEW st \in EndpointStates, NEW to \in StartStates,
             Renew(c, st), start' = [start EXCEPT ![c] = to]
      PROVE  TypeOK'
  <2>1. queue' \in Seq(0..MaxClicks)
    BY <1>1, <1>4 DEF Renew
  <2>2. endpoint' \in [Clicks -> [st : EndpointStates, port : Ports]]
    BY <1>4, RenewEndpoints
  <2> QED BY <1>4, <2>1, <2>2 DEF Renew
<1>5. ASSUME NEW c \in Clicks, Bind(c) PROVE TypeOK'
  <2>1. PICK st \in EndpointStates : endpoint' = [endpoint EXCEPT ![c].st = st]
    BY <1>5 DEF Bind
  <2>2. endpoint' \in [Clicks -> [st : EndpointStates, port : Ports]]
    BY <2>1
  <2> QED BY <1>5, <2>2 DEF Bind
<1>6. ASSUME NEW c \in Clicks, FailToOpen(c) \/ FailToConfigure(c) \/ Started(c)
      PROVE  TypeOK'
  <2>1. CASE FailToOpen(c)
    <3>1. Renew(c, "bare") /\ start' = [start EXCEPT ![c] = "failed"]
      BY <2>1 DEF FailToOpen
    <3> QED BY <1>4, <3>1
  <2>2. CASE FailToConfigure(c)
    <3>1. Renew(c, "binding") /\ start' = [start EXCEPT ![c] = "failed"]
      BY <2>2 DEF FailToConfigure
    <3> QED BY <1>4, <3>1
  <2>3. CASE Started(c)
    <3>1. Renew(c, "binding") /\ start' = [start EXCEPT ![c] = "started"]
      BY <2>3 DEF Started
    <3> QED BY <1>4, <3>1
  <2> QED BY <1>6, <2>1, <2>2, <2>3
<1> QED BY <1>2, <1>3, <1>5, <1>6 DEF Loop

LEMMA TypeStep == TypeOK /\ [Next]_vars => TypeOK'
<1> SUFFICES ASSUME TypeOK, [Next]_vars PROVE TypeOK'
  OBVIOUS
<1>1. CASE UNCHANGED vars
  BY <1>1 DEF vars, TypeOK
<1> QED BY <1>1, TypeClick, TypeHandle, TypeLoop DEF Next

-----------------------------------------------------------------------------
LEMMA IInvInit == Init => IInv
<1> SUFFICES ASSUME Init PROVE IInv
  OBVIOUS
<1>1. TypeOK
  BY TypeInit
<1>2. DOMAIN queue = {}
  BY DEF Init
<1>3. \A c \in Clicks : ~Live(c)
  BY DEF Init, Live, NoEndpoint
<1>4. HandlerInv
  BY <1>2 DEF Init, HandlerInv
<1>5. LastHandler
  <2>1. clicks = 0 /\ button = running /\ ~button
    BY DEF Init
  <2>2. \A c \in Clicks : ~(c < 0)
    BY TrapAssumption DEF Clicks
  <2> QED BY <2>1, <2>2 DEF LastHandler
<1>6. LastStop /\ LastStart
  BY <1>3 DEF Init, LastStop, LastStart
<1> QED BY <1>1, <1>3, <1>4, <1>5, <1>6, Zenon DEF IInv, OneDispatcher

\* The click of a handler that moves is the last one, if there was no haste, and the
\* loop knows nothing of it yet.
LEMMA MoverFacts ==
    ASSUME IInv, NEW c \in Clicks, handler[c] \notin {"none", "done"}
    PROVE  /\ clicks \in Clicks /\ c <= clicks
           /\ start[c] = "none"
           /\ \A k \in DOMAIN queue : queue[k] # c
           /\ ~hasty => c = clicks
<1> USE TrapAssumption DEF Clicks
<1>1. TypeOK /\ HandlerInv /\ LastHandler
  BY DEF IInv
<1>2. c <= clicks /\ clicks \in Clicks
  BY <1>1 DEF HandlerInv, TypeOK
<1>3. start[c] = "none"
  BY <1>1 DEF HandlerInv
<1>4. \A k \in DOMAIN queue : queue[k] # c
  BY <1>1, <1>3 DEF HandlerInv, Stop
<1>5. ~hasty => c = clicks
  BY <1>1, <1>2 DEF LastHandler, TypeOK
<1> QED BY <1>2, <1>3, <1>4, <1>5

\* Moving a handler on keeps HandlerInv, if it hands nothing over.
LEMMA MoveKeeps ==
    ASSUME IInv, NEW c \in Clicks, NEW from \in HandlerStates \ {"none", "done"},
           NEW to \in HandlerStates, Move(c, from, to),
           UNCHANGED <<clicks, queue>>,
           \A d \in Clicks : d # c => start'[d] = start[d],
           start'[c] # "none" => to = "done"
    PROVE  /\ HandlerInv'
           /\ handler'[c] = to /\ \A d \in Clicks : d # c => handler'[d] = handler[d]
<1> USE TrapAssumption DEF Clicks
<1>1. TypeOK /\ HandlerInv
  BY DEF IInv
<1>2. handler'[c] = to /\ \A d \in Clicks : d # c => handler'[d] = handler[d]
  BY <1>1 DEF Move, TypeOK
<1>3. /\ c <= clicks /\ clicks \in Clicks
      /\ \A k \in DOMAIN queue : queue[k] # c
  BY MoverFacts DEF Move
<1>4. \A d \in Clicks : d > clicks' => handler'[d] = "none" /\ start'[d] = "none"
  BY <1>1, <1>2, <1>3 DEF HandlerInv
<1>5. \A d \in Clicks : start'[d] # "none" => handler'[d] = "done"
  BY <1>1, <1>2 DEF HandlerInv
<1>6. ASSUME NEW k \in DOMAIN queue', queue'[k] # Stop
      PROVE  queue'[k] <= clicks' /\ start'[queue'[k]] = "queued"
  <2>1. queue[k] <= clicks /\ start[queue[k]] = "queued" /\ queue[k] # c
    BY <1>1, <1>3, <1>6 DEF HandlerInv
  <2>2. queue[k] \in Clicks
    BY <1>1, <1>6 DEF TypeOK, Stop
  <2> QED BY <2>1, <2>2
<1>7. \A k, l \in DOMAIN queue' : queue'[k] = queue'[l] /\ queue'[k] # Stop => k = l
  BY <1>1, Zenon DEF HandlerInv
<1> QED BY <1>2, <1>4, <1>5, <1>6, <1>7, Zenon DEF HandlerInv, Stop

\* What the loop knows is not touched by the steps of a handler that hands nothing
\* over and enters no port.
LEMMA LoopUntouched ==
    ASSUME IInv, UNCHANGED <<engine, endpoint>>
    PROVE  /\ OneDispatcher'
           /\ \A d \in Clicks : Live(d)' = Live(d)
BY Zenon DEF IInv, OneDispatcher, Live

LEMMA ClickStep == IInv /\ Click /\ TypeOK' => IInv'
<1> USE TrapAssumption
<1> SUFFICES ASSUME IInv, Click, TypeOK' PROVE IInv'
  OBVIOUS
<1>1. TypeOK /\ HandlerInv /\ LastHandler /\ LastStop
  BY DEF IInv
<1>2. /\ clicks' = clicks + 1 /\ clicks \in Nat /\ clicks + 1 \in Clicks
      /\ handler[clicks + 1] = "none" /\ handler'[clicks + 1] = "read"
      /\ \A d \in Clicks : d # clicks + 1 => handler'[d] = handler[d]
      /\ seen'[clicks + 1] = running
      /\ UNCHANGED <<running, button, port, queue, start, engine, endpoint>>
  BY <1>1 DEF Click, Move, TypeOK, Clicks
<1>3. ~hasty' => ~hasty /\ \A d \in Clicks : handler[d] \in {"none", "done"}
  BY Zenon DEF Click, Handling
<1>4. OneDispatcher' /\ \A d \in Clicks : Live(d)' = Live(d)
  BY <1>2, LoopUntouched
<1>5. HandlerInv'
  <2>1. \A d \in Clicks : d > clicks' => handler'[d] = "none" /\ start'[d] = "none"
    BY <1>1, <1>2 DEF HandlerInv, Clicks
  <2>2. \A d \in Clicks : start'[d] # "none" => handler'[d] = "done"
    BY <1>1, <1>2 DEF HandlerInv
  <2>3. \A k \in DOMAIN queue' :
            queue'[k] # Stop => queue'[k] <= clicks' /\ start'[queue'[k]] = "queued"
    BY <1>1, <1>2 DEF HandlerInv, TypeOK
  <2>4. \A k, l \in DOMAIN queue' : queue'[k] = queue'[l] /\ queue'[k] # Stop => k = l
    BY <1>1, <1>2, Zenon DEF HandlerInv
  <2> QED BY <2>1, <2>2, <2>3, <2>4, Zenon DEF HandlerInv, Stop
<1>6. ASSUME ~hasty' PROVE clicks = 0 \/ handler[clicks] = "done"
  <2> SUFFICES ASSUME clicks # 0 PROVE handler[clicks] = "done"
    OBVIOUS
  <2>1. clicks \in Clicks /\ clicks > 0
    BY <1>1 DEF TypeOK, Clicks
  <2> QED BY <1>1, <1>3, <1>6, <2>1, Zenon DEF LastHandler
<1>7. LastHandler'
  <2> SUFFICES ASSUME ~hasty' PROVE LastHandler'
    BY Zenon DEF LastHandler
  <2>1. \A d \in Clicks : d < clicks' => handler'[d] = "done"
    <3> SUFFICES ASSUME NEW d \in Clicks, d < clicks + 1 PROVE handler'[d] = "done"
      BY <1>2
    <3>1. d # clicks + 1 /\ (d < clicks \/ d = clicks)
      BY <1>2 DEF Clicks
    <3>2. d # 0
      BY DEF Clicks
    <3> QED BY <1>1, <1>2, <1>3, <1>6, <3>1, <3>2 DEF LastHandler
  <2>2. button = running
    BY <1>1, <1>3, <1>6 DEF LastHandler
  <2>3. handler'[clicks'] = "read" /\ seen'[clicks'] = running'
    BY <1>2
  <2> QED BY <1>2, <2>1, <2>2, <2>3 DEF LastHandler
<1>8. LastStop'
  <2> SUFFICES ASSUME ~hasty', ~button'
               PROVE  \/ queue' # <<>> /\ queue'[Len(queue')] = Stop
                      \/ queue' = <<>> /\ \A d \in Clicks : ~Live(d)'
    BY Zenon DEF LastStop, Stop, Clicks
  <2>1. ~hasty /\ ~button /\ (clicks = 0 \/ handler[clicks] # "stopping")
    BY <1>2, <1>3, <1>6
  <2>2. \/ queue # <<>> /\ queue[Len(queue)] = Stop
        \/ queue = <<>> /\ \A d \in Clicks : ~Live(d)
    BY <1>1, <2>1, Zenon DEF LastStop
  <2> QED BY <1>2, <1>4, <2>2, Zenon
<1>9. LastStart'
  BY <1>2 DEF LastStart
<1> QED BY <1>4, <1>5, <1>7, <1>8, <1>9, Zenon DEF IInv

\* Turning self.running and labelling the button.
LEMMA TurnStep ==
    ASSUME IInv, NEW c \in Clicks, Turn(c), TypeOK'
    PROVE  IInv'
<1> USE TrapAssumption
<1>1. TypeOK /\ LastHandler /\ LastStop
  BY DEF IInv
<1>2. /\ Move(c, "read", "turned") /\ running' = ~seen[c]
      /\ UNCHANGED <<clicks, seen, button, port, queue, start, engine, endpoint, hasty>>
      /\ handler[c] = "read"
  BY DEF Turn, Move
<1>3. /\ HandlerInv'
      /\ handler'[c] = "turned" /\ \A d \in Clicks : d # c => handler'[d] = handler[d]
  <2>1. start[c] = "none"
    BY <1>2, MoverFacts
  <2> QED BY <1>2, <2>1, MoveKeeps DEF HandlerStates
<1>4. /\ clicks \in Clicks /\ clicks > 0
      /\ ~hasty => c = clicks
  BY <1>2, MoverFacts DEF Clicks
<1>5. OneDispatcher' /\ \A d \in Clicks : Live(d)' = Live(d)
  BY <1>2, LoopUntouched
<1>6. LastHandler'
  <2> SUFFICES ASSUME ~hasty PROVE LastHandler'
    BY <1>2 DEF LastHandler
  <2>1. seen[clicks] = running /\ button = running
    BY <1>1, <1>2, <1>4 DEF LastHandler
  <2>2. button' # running'
    BY <1>1, <1>2, <1>4, <2>1 DEF TypeOK
  <2>3. \A d \in Clicks : d < clicks => handler'[d] = "done"
    BY <1>1, <1>3, <1>4 DEF LastHandler, Clicks
  <2> QED BY <1>2, <1>3, <1>4, <2>2, <2>3 DEF LastHandler
<1>7. LastStop'
  <2> SUFFICES ASSUME ~hasty, ~button
               PROVE  \/ queue' # <<>> /\ queue'[Len(queue')] = Stop
                      \/ queue' = <<>> /\ \A d \in Clicks : ~Live(d)'
    BY <1>2, Zenon DEF LastStop, Stop, Clicks
  <2>1. handler[clicks] # "stopping"
    BY <1>2, <1>4
  <2>2. \/ queue # <<>> /\ queue[Len(queue)] = Stop
        \/ queue = <<>> /\ \A d \in Clicks : ~Live(d)
    BY <1>1, <2>1, Zenon DEF LastStop
  <2> QED BY <1>2, <1>5, <2>2, Zenon
<1>8. LastStart'
  BY <1>2, <1>3, <1>4 DEF LastStart
<1> QED BY <1>3, <1>5, <1>6, <1>7, <1>8, Zenon DEF IInv

LEMMA LabelStep ==
    ASSUME IInv, NEW c \in Clicks, Label(c), TypeOK'
    PROVE  IInv'
<1> USE TrapAssumption
<1> DEFINE to == IF running THEN "starting" ELSE "stopping"
<1>1. TypeOK /\ LastHandler
  BY DEF IInv
<1>2. /\ Move(c, "turned", to) /\ button' = running
      /\ UNCHANGED <<clicks, seen, running, port, queue, start, engine, endpoint, hasty>>
      /\ handler[c] = "turned" /\ to \in HandlerStates
  BY DEF Label, Move, HandlerStates
<1>3. /\ HandlerInv'
      /\ handler'[c] = to /\ \A d \in Clicks : d # c => handler'[d] = handler[d]
  <2>1. start[c] = "none"
    BY <1>2, MoverFacts
  <2> HIDE DEF to
  <2> QED BY <1>2, <2>1, MoveKeeps DEF HandlerStates
<1>4. /\ clicks \in Clicks /\ clicks > 0
      /\ ~hasty => c = clicks
  BY <1>2, MoverFacts DEF Clicks
<1>5. OneDispatcher'
  BY <1>2, LoopUntouched
<1>6. ~hasty => handler'[clicks] = IF button' THEN "starting" ELSE "stopping"
  BY <1>2, <1>3, <1>4
<1>7. LastHandler'
  <2> SUFFICES ASSUME ~hasty PROVE LastHandler'
    BY <1>2 DEF LastHandler
  <2>1. \A d \in Clicks : d < clicks => handler'[d] = "done"
    BY <1>1, <1>3, <1>4 DEF LastHandler, Clicks
  <2>2. handler'[clicks] \in {"starting", "stopping"}
    BY <1>6
  <2>3. button' = running'
    BY <1>2
  <2>4. /\ handler'[clicks] = "starting" => button'
        /\ handler'[clicks] = "stopping" => ~button'
    BY <1>6
  <2> QED BY <1>2, <1>4, <2>1, <2>2, <2>3, <2>4 DEF LastHandler
<1>8. LastStop'
  BY <1>2, <1>4, <1>6 DEF LastStop
<1>9. LastStart'
  BY <1>2, <1>4, <1>6 DEF LastStart
<1> QED BY <1>3, <1>5, <1>7, <1>8, <1>9, Zenon DEF IInv

\* Storing the port, or refusing it.
LEMMA EnterPortStep ==
    ASSUME IInv, NEW c \in Clicks, NEW entry \in Ports, EnterPort(c, entry), TypeOK'
    PROVE  IInv'
<1> USE TrapAssumption
<1>1. TypeOK /\ LastHandler
  BY DEF IInv
<1>2. /\ Move(c, "starting", "entered") /\ handler[c] = "starting"
      /\ UNCHANGED <<clicks, seen, running, button, queue, start, engine, endpoint, hasty>>
  BY DEF EnterPort, Move
<1>3. /\ HandlerInv'
      /\ handler'[c] = "entered" /\ \A d \in Clicks : d # c => handler'[d] = handler[d]
  <2>1. start[c] = "none"
    BY <1>2, MoverFacts
  <2> QED BY <1>2, <2>1, MoveKeeps DEF HandlerStates
<1>4. /\ clicks \in Clicks /\ clicks > 0
      /\ ~hasty => c = clicks
  BY <1>2, MoverFacts DEF Clicks
<1>5. OneDispatcher'
  BY <1>2, LoopUntouched
<1>6. ~hasty => button /\ button = running
  BY <1>1, <1>2, <1>4 DEF LastHandler
<1>7. LastHandler'
  <2> SUFFICES ASSUME ~hasty PROVE LastHandler'
    BY <1>2 DEF LastHandler
  <2>1. \A d \in Clicks : d < clicks => handler'[d] = "done"
    BY <1>1, <1>3, <1>4 DEF LastHandler, Clicks
  <2>2. clicks' = clicks /\ clicks # 0 /\ ~(clicks = 0)
    BY <1>2, <1>4
  <2>3. handler'[clicks] = handler'[c] /\ button' /\ button' = running'
    BY <1>2, <1>4, <1>6
  <2> QED BY <1>3, <2>1, <2>2, <2>3 DEF LastHandler
<1>8. LastStop'
  BY <1>2, <1>6 DEF LastStop
<1>9. LastStart'
  BY <1>2, <1>3, <1>4 DEF LastStart
<1> QED BY <1>3, <1>5, <1>7, <1>8, <1>9, Zenon DEF IInv

LEMMA RefusePortStep ==
    ASSUME IInv, NEW c \in Clicks, RefusePort(c), TypeOK'
    PROVE  IInv'
<1> USE TrapAssumption
<1>1. TypeOK /\ LastHandler
  BY DEF IInv
<1>2. /\ Move(c, "starting", "done") /\ handler[c] = "starting"
      /\ UNCHANGED <<clicks, seen, running, button, port, queue, engine, endpoint, hasty>>
      /\ start'[c] = "invalid" /\ \A d \in Clicks : d # c => start'[d] = start[d]
  BY <1>1 DEF RefusePort, Move, TypeOK
<1>3. /\ HandlerInv'
      /\ handler'[c] = "done" /\ \A d \in Clicks : d # c => handler'[d] = handler[d]
  BY <1>2, MoveKeeps DEF HandlerStates
<1>4. /\ clicks \in Clicks /\ clicks > 0
      /\ ~hasty => c = clicks
  BY <1>2, MoverFacts DEF Clicks
<1>5. OneDispatcher'
  BY <1>2, LoopUntouched
<1>6. ~hasty => button /\ button = running
  BY <1>1, <1>2, <1>4 DEF LastHandler
<1>7. LastHandler'
  <2> SUFFICES ASSUME ~hasty PROVE LastHandler'
    BY <1>2 DEF LastHandler
  <2>1. \A d \in Clicks : d < clicks => handler'[d] = "done"
    BY <1>1, <1>3, <1>4 DEF LastHandler, Clicks
  <2>2. clicks' = clicks /\ clicks # 0 /\ ~(clicks = 0)
    BY <1>2, <1>4
  <2>3. handler'[clicks] = handler'[c] /\ button' /\ button' = running'
    BY <1>2, <1>4, <1>6
  <2> QED BY <1>3, <2>1, <2>2, <2>3 DEF LastHandler
<1>8. LastStop'
  BY <1>2, <1>6 DEF LastStop
<1>9. LastStart'
  BY <1>2, <1>4 DEF LastStart
<1> QED BY <1>3, <1>5, <1>7, <1>8, <1>9, Zenon DEF IInv

-----------------------------------------------------------------------------
\* Handing a coroutine over: a start that is not in the queue yet, or a stop.
LEMMA SubmitKeeps ==
    ASSUME IInv, TypeOK', NEW c \in Clicks, NEW from \in HandlerStates \ {"none", "done"},
           Move(c, from, "done"), NEW item \in {c, Stop}, queue' = Append(queue, item),
           start' = IF item = c THEN [start EXCEPT ![c] = "queued"] ELSE start,
           UNCHANGED <<clicks, seen, running, button, port, engine, endpoint, hasty>>
    PROVE  /\ HandlerInv'
           /\ handler'[c] = "done" /\ \A d \in Clicks : d # c => handler'[d] = handler[d]
           /\ queue' # <<>> /\ queue'[Len(queue')] = item
<1> USE TrapAssumption DEF Clicks
<1>1. TypeOK /\ HandlerInv
  BY DEF IInv
<1>2. handler'[c] = "done" /\ \A d \in Clicks : d # c => handler'[d] = handler[d]
  BY <1>1 DEF Move, TypeOK
<1>3. /\ c <= clicks /\ clicks \in Clicks
      /\ \A k \in DOMAIN queue : queue[k] # c
  BY MoverFacts DEF Move
<1>4. item \in 0..MaxClicks /\ c # Stop
  BY DEF Stop
<1>5. /\ Len(queue) \in Nat /\ DOMAIN queue = 1..Len(queue)
      /\ queue' # <<>> /\ Len(queue') = Len(queue) + 1
      /\ DOMAIN queue' = 1..(Len(queue) + 1)
      /\ \A k \in 1..Len(queue) : queue'[k] = queue[k]
      /\ queue'[Len(queue) + 1] = item
  BY <1>1, <1>4, AppendToQueue DEF TypeOK
<1>6. /\ item = c => start'[c] = "queued"
      /\ item # c => start'[c] = start[c]
      /\ \A d \in Clicks : d # c => start'[d] = start[d]
  BY <1>1 DEF TypeOK
<1>7. \A d \in Clicks : d > clicks' => handler'[d] = "none" /\ start'[d] = "none"
  BY <1>1, <1>2, <1>3, <1>6 DEF HandlerInv
<1>8. \A d \in Clicks : start'[d] # "none" => handler'[d] = "done"
  BY <1>1, <1>2, <1>6 DEF HandlerInv
<1>9. ASSUME NEW k \in DOMAIN queue', queue'[k] # Stop
      PROVE  queue'[k] <= clicks' /\ start'[queue'[k]] = "queued"
  <2>1. CASE k = Len(queue) + 1
    BY <1>3, <1>5, <1>6, <1>9, <2>1
  <2>2. CASE k \in DOMAIN queue
    <3>1. queue'[k] = queue[k] /\ queue[k] # c
      BY <1>3, <1>5, <2>2
    <3>2. queue[k] <= clicks /\ start[queue[k]] = "queued"
      BY <1>1, <1>9, <2>2, <3>1, Zenon DEF HandlerInv
    <3>3. queue[k] \in Clicks
      BY <1>1, <1>9, <2>2, <3>1 DEF TypeOK, Stop
    <3> QED BY <1>6, <3>1, <3>2, <3>3
  <2> QED BY <1>5, <2>1, <2>2
<1>10. ASSUME NEW k \in DOMAIN queue', NEW l \in DOMAIN queue',
              queue'[k] = queue'[l], queue'[k] # Stop
       PROVE  k = l
  <2>1. \A j \in DOMAIN queue' : j \in DOMAIN queue \/ j = Len(queue) + 1
    BY <1>5
  <2>2. \A j \in DOMAIN queue : queue'[j] = queue[j]
    BY <1>5
  <2>3. \A j \in DOMAIN queue : queue[j] # Stop => queue[j] # item
    BY <1>3, Zenon
  <2>4. CASE k \in DOMAIN queue /\ l \in DOMAIN queue
    BY <1>1, <1>10, <2>2, <2>4, Zenon DEF HandlerInv
  <2>5. k \in DOMAIN queue => queue'[k] # item
    BY <1>10, <2>2, <2>3, Zenon
  <2>6. l \in DOMAIN queue => queue'[l] # item
    BY <1>10, <2>2, <2>3, Zenon
  <2> QED BY <1>5, <1>10, <2>1, <2>4, <2>5, <2>6
<1>11. HandlerInv'
  BY <1>7, <1>8, <1>9, <1>10, Zenon DEF HandlerInv, Stop
<1> QED BY <1>2, <1>5, <1>11

LEMMA SubmitStep ==
    ASSUME IInv, NEW c \in Clicks, SubmitStart(c) \/ SubmitStop(c), TypeOK'
    PROVE  IInv'
<1> USE TrapAssumption
<1>1. TypeOK /\ LastHandler
  BY DEF IInv
<1>2. c # Stop /\ c \in {c, Stop} /\ Stop \in {c, Stop}
  BY DEF Clicks, Stop
<1>3. /\ UNCHANGED <<clicks, seen, running, button, port, engine, endpoint, hasty>>
      /\ handler[c] \in {"entered", "stopping"}
  BY DEF SubmitStart, SubmitStop, Move
<1>4. /\ HandlerInv' /\ queue' # <<>>
      /\ handler'[c] = "done" /\ \A d \in Clicks : d # c => handler'[d] = handler[d]
      /\ handler[c] = "entered" => queue'[Len(queue')] = c /\ start'[c] = "queued"
      /\ handler[c] = "stopping" => queue'[Len(queue')] = Stop
  <2>1. CASE SubmitStart(c)
    <3>1. handler[c] = "entered" /\ Move(c, "entered", "done") /\ start'[c] = "queued"
      BY <1>1, <2>1 DEF SubmitStart, Move, TypeOK
    <3>2. /\ queue' = Append(queue, c)
          /\ start' = IF c = c THEN [start EXCEPT ![c] = "queued"] ELSE start
      BY <2>1 DEF SubmitStart
    <3> QED BY <1>2, <1>3, <3>1, <3>2, SubmitKeeps DEF HandlerStates
  <2>2. CASE SubmitStop(c)
    <3>1. handler[c] = "stopping" /\ Move(c, "stopping", "done")
      BY <2>2 DEF SubmitStop, Move
    <3>2. /\ queue' = Append(queue, Stop)
          /\ start' = IF Stop = c THEN [start EXCEPT ![c] = "queued"] ELSE start
      BY <1>2, <2>2 DEF SubmitStop
    <3> QED BY <1>2, <1>3, <3>1, <3>2, SubmitKeeps DEF HandlerStates
  <2> QED BY <2>1, <2>2
<1>5. /\ clicks \in Clicks /\ clicks > 0
      /\ ~hasty => c = clicks
  BY <1>3, MoverFacts DEF Clicks
<1>6. OneDispatcher'
  BY <1>3, LoopUntouched
<1>7. ~hasty => /\ button = running
                /\ handler[c] = "entered" => button
                /\ handler[c] = "stopping" => ~button
  BY <1>1, <1>3, <1>5 DEF LastHandler
<1>8. LastHandler'
  <2> SUFFICES ASSUME ~hasty PROVE LastHandler'
    BY <1>3 DEF LastHandler
  <2>1. \A d \in Clicks : d < clicks => handler'[d] = "done"
    BY <1>1, <1>4, <1>5 DEF LastHandler, Clicks
  <2> QED BY <1>3, <1>4, <1>5, <1>7, <2>1 DEF LastHandler
<1>9. LastStop'
  <2> SUFFICES ASSUME ~hasty, ~button PROVE queue' # <<>> /\ queue'[Len(queue')] = Stop
    BY <1>3, Zenon DEF LastStop, Stop
  <2> QED BY <1>3, <1>4, <1>7
<1>10. LastStart'
  <2> SUFFICES ASSUME ~hasty, button
               PROVE  /\ start'[clicks] = "queued" /\ queue' # <<>>
                      /\ queue'[Len(queue')] = clicks
    BY <1>3, Zenon DEF LastStart
  <2> QED BY <1>3, <1>4, <1>5, <1>7
<1> QED BY <1>4, <1>6, <1>8, <1>9, <1>10, Zenon DEF IInv

-----------------------------------------------------------------------------
\* The loop takes a coroutine off the queue: what is left of the invariant, if the
\* start it runs is the only one that changes.
LEMMA DequeueKeeps ==
    ASSUME IInv, NEW item \in Clicks \cup {Stop}, Dequeue(item),
           UNCHANGED <<clicks, handler, seen, running, button, port, hasty>>,
           \A d \in Clicks : start'[d] = start[d] \/ d = item,
           item \in Clicks => start'[item] # "none"
    PROVE  /\ HandlerInv' /\ LastHandler'
           /\ item \in Clicks => start[item] = "queued"
           /\ queue # <<>> /\ queue[Len(queue)] # item =>
                  queue' # <<>> /\ queue'[Len(queue')] = queue[Len(queue)]
           /\ queue[Len(queue)] = item /\ item # Stop => queue' = <<>>
           /\ Len(queue) # 1 => queue' # <<>> /\ queue'[Len(queue')] = queue[Len(queue)]
           /\ Len(queue) = 1 => queue' = <<>> /\ queue[Len(queue)] = item
<1> USE TrapAssumption DEF Clicks, Stop
<1>1. TypeOK /\ HandlerInv /\ queue # <<>> /\ queue' = Tail(queue) /\ Head(queue) = item
  BY DEF IInv, Dequeue
<1>2. /\ Len(queue) \in Nat \ {0} /\ DOMAIN queue = 1..Len(queue)
      /\ queue[1] = item
      /\ DOMAIN queue' = 1..(Len(queue) - 1)
      /\ \A k \in 1..(Len(queue) - 1) : queue'[k] = queue[k + 1]
  BY <1>1, TailOfQueue DEF TypeOK
<1>3. /\ Len(queue) = 1 => queue' = <<>>
      /\ Len(queue) # 1 => queue' # <<>> /\ queue'[Len(queue')] = queue[Len(queue)]
  BY <1>1, LastOfTail DEF TypeOK
<1>4. item \in Clicks => start[item] = "queued" /\ item <= clicks /\ handler[item] = "done"
  <2>1. 1 \in DOMAIN queue
    BY <1>2
  <2> QED BY <1>1, <1>2, <2>1 DEF HandlerInv
<1>5. item # Stop => \A k \in DOMAIN queue : queue[k] = item => k = 1
  <2>1. 1 \in DOMAIN queue
    BY <1>2
  <2> QED BY <1>1, <1>2, <2>1, Zenon DEF HandlerInv
<1>6. HandlerInv'
  <2>1. \A d \in Clicks : d > clicks => handler[d] = "none" /\ start'[d] = "none"
    BY <1>1, <1>4 DEF HandlerInv, TypeOK
  <2>2. \A d \in Clicks : start'[d] # "none" => handler[d] = "done"
    BY <1>1, <1>4 DEF HandlerInv
  <2>3. ASSUME NEW k \in DOMAIN queue', queue'[k] # Stop
        PROVE  queue'[k] <= clicks /\ start'[queue'[k]] = "queued"
    <3>1. k + 1 \in DOMAIN queue /\ queue'[k] = queue[k + 1] /\ k + 1 # 1
      BY <1>2
    <3>2. queue[k + 1] <= clicks /\ start[queue[k + 1]] = "queued"
      BY <1>1, <2>3, <3>1 DEF HandlerInv
    <3>3. queue[k + 1] \in Clicks
      BY <1>1, <2>3, <3>1 DEF TypeOK
    <3>4. queue[k + 1] # item
      BY <1>5, <2>3, <3>1
    <3> QED BY <3>1, <3>2, <3>3, <3>4
  <2>4. ASSUME NEW k \in DOMAIN queue', NEW l \in DOMAIN queue',
               queue'[k] = queue'[l], queue'[k] # Stop
        PROVE  k = l
    <3>1. k + 1 \in DOMAIN queue /\ l + 1 \in DOMAIN queue /\ k \in Nat /\ l \in Nat
      BY <1>2
    <3>2. queue[k + 1] = queue[l + 1] /\ queue[k + 1] # Stop
      BY <1>2, <2>4
    <3>3. k + 1 = l + 1
      BY <1>1, <3>1, <3>2 DEF HandlerInv
    <3> QED BY <3>1, <3>3
  <2> QED BY <2>1, <2>2, <2>3, <2>4 DEF HandlerInv
<1>7. LastHandler'
  BY DEF IInv, LastHandler
<1>8. queue[Len(queue)] = item /\ item # Stop => Len(queue) = 1
  BY <1>2, <1>5
<1>9. queue[Len(queue)] # item => Len(queue) # 1
  BY <1>2
<1> QED BY <1>1, <1>2, <1>3, <1>4, <1>6, <1>7, <1>8, <1>9

LEMMA RunStopStep ==
    ASSUME IInv, RunStop, TypeOK'
    PROVE  IInv'
<1> USE TrapAssumption
<1>1. TypeOK /\ OneDispatcher /\ LastStop /\ LastStart
  BY DEF IInv
<1>2. /\ UNCHANGED <<clicks, handler, seen, running, button, port, start, engine, hasty>>
      /\ Dequeue(Stop)
      /\ endpoint' = IF Bare(engine) THEN endpoint ELSE Closed(engine)
  BY DEF RunStop
<1>3. Stop \notin Clicks /\ Stop \in Clicks \cup {Stop}
  BY DEF Stop, Clicks
<1>4. \A d \in Clicks : ~Live(d)'
  <2>1. CASE Bare(engine) \/ engine = 0
    <3>1. endpoint' = endpoint
      BY <1>2, <2>1 DEF Closed
    <3>2. \A d \in Clicks : d # 0
      BY DEF Clicks
    <3> QED BY <1>1, <2>1, <3>1, <3>2 DEF OneDispatcher, Live, Bare
  <2>2. CASE ~Bare(engine) /\ engine # 0
    <3>1. endpoint' = [endpoint EXCEPT ![engine].st = "closed"] /\ engine \in Clicks
      BY <1>1, <1>2, <2>2 DEF Closed, TypeOK, Clicks
    <3> QED BY <1>1, <3>1 DEF OneDispatcher, Live, TypeOK
  <2> QED BY <2>1, <2>2
<1>5. OneDispatcher'
  BY <1>4 DEF OneDispatcher
<1>6. /\ HandlerInv' /\ LastHandler'
      /\ queue # <<>> /\ queue[Len(queue)] # Stop =>
             queue' # <<>> /\ queue'[Len(queue')] = queue[Len(queue)]
      /\ Len(queue) # 1 => queue' # <<>> /\ queue'[Len(queue')] = queue[Len(queue)]
      /\ Len(queue) = 1 => queue' = <<>>
  <2>1. \A d \in Clicks : start'[d] = start[d] \/ d = Stop
    BY <1>2
  <2> QED BY <1>2, <1>3, <2>1, DequeueKeeps
<1>7. queue # <<>>
  BY <1>2 DEF Dequeue
<1>8. LastStop'
  <2> SUFFICES ASSUME ~hasty, ~button, clicks = 0 \/ handler[clicks] # "stopping"
               PROVE  \/ queue' # <<>> /\ queue'[Len(queue')] = Stop
                      \/ queue' = <<>> /\ \A d \in Clicks : ~Live(d)'
    BY <1>2, Zenon DEF LastStop, Stop, Clicks
  <2>1. queue[Len(queue)] = Stop
    BY <1>1, <1>7, Zenon DEF LastStop
  <2> QED BY <1>4, <1>6, <2>1, Zenon
<1>9. LastStart'
  <2> SUFFICES ASSUME ~hasty, button, clicks > 0, handler[clicks] = "done"
               PROVE  \/ start[clicks] = "invalid"
                      \/ start[clicks] = "queued" /\ queue' # <<>>
                         /\ queue'[Len(queue')] = clicks
    BY <1>2, Zenon DEF LastStart
  <2>1. \/ start[clicks] = "invalid"
        \/ start[clicks] = "queued" /\ queue[Len(queue)] = clicks
    BY <1>1, <1>7, Zenon DEF LastStart
  <2>2. clicks # Stop
    BY <1>1 DEF Stop, TypeOK
  <2> QED BY <1>6, <1>7, <2>1, <2>2, Zenon
<1> QED BY <1>5, <1>6, <1>8, <1>9, Zenon DEF IInv

\* A start that is run is no stop: if it was asked for last, it was the last in the
\* queue, and it must leave what a start that came last should leave.
LEMMA RunStartStep ==
    ASSUME IInv, TypeOK', NEW c \in Clicks, Dequeue(c),
           UNCHANGED <<clicks, handler, seen, running, button, port, hasty>>,
           NEW to \in {"failed", "started"}, start' = [start EXCEPT ![c] = to],
           OneDispatcher',
           to = "started" => /\ engine' = c
                             /\ endpoint'[c].st \in {"binding", "open", "deaf"}
                             /\ endpoint'[c].port = port
    PROVE  IInv'
<1> USE TrapAssumption
<1>1. TypeOK /\ HandlerInv /\ LastStop /\ LastStart /\ queue # <<>>
  BY DEF IInv, Dequeue
<1>2. c # Stop /\ c \in Clicks \cup {Stop}
  BY DEF Stop, Clicks
<1>3. start'[c] = to /\ \A d \in Clicks : d # c => start'[d] = start[d]
  BY <1>1 DEF TypeOK
<1>4. /\ HandlerInv' /\ LastHandler'
      /\ start[c] = "queued"
      /\ queue[Len(queue)] # c => queue' # <<>> /\ queue'[Len(queue')] = queue[Len(queue)]
      /\ queue[Len(queue)] = c => queue' = <<>>
  <2>1. \A d \in Clicks : start'[d] = start[d] \/ d = c
    BY <1>3
  <2>2. start'[c] # "none"
    BY <1>3
  <2> QED BY <1>1, <1>2, <2>1, <2>2, DequeueKeeps
<1>5. LastStop'
  <2> SUFFICES ASSUME ~hasty, ~button, clicks = 0 \/ handler[clicks] # "stopping"
               PROVE  queue' # <<>> /\ queue'[Len(queue')] = Stop
    BY Zenon DEF LastStop, Stop, Clicks
  <2>1. queue[Len(queue)] = Stop
    BY <1>1, Zenon DEF LastStop
  <2> QED BY <1>2, <1>4, <2>1, Zenon
<1>6. LastStart'
  <2> SUFFICES ASSUME ~hasty, button, clicks > 0, handler[clicks] = "done"
               PROVE  LastStart'
    BY Zenon DEF LastStart
  <2>1. clicks \in Clicks
    BY <1>1 DEF TypeOK, Clicks
  <2>2. \/ start[clicks] = "invalid"
        \/ start[clicks] = "queued" /\ queue[Len(queue)] = clicks
    BY <1>1, Zenon DEF LastStart
  <2>3. CASE clicks = c
    <3>1. queue' = <<>> /\ start'[clicks] = to
      BY <1>3, <1>4, <2>2, <2>3
    <3>2. CASE to = "failed"
      BY <3>1, <3>2, Zenon DEF LastStart
    <3>3. CASE to = "started"
      <4>1. /\ start'[clicks'] = "started" /\ queue' = <<>> /\ engine' = clicks'
            /\ endpoint'[clicks'].st \in {"binding", "open", "deaf"}
            /\ endpoint'[clicks'].port = port'
        BY <2>3, <3>1, <3>3
      <4> QED BY <4>1, Zenon DEF LastStart
    <3> QED BY <3>2, <3>3
  <2>4. CASE clicks # c
    <3>1. start'[clicks] = start[clicks]
      BY <1>3, <2>1, <2>4
    <3>2. queue[Len(queue)] = clicks => queue' # <<>> /\ queue'[Len(queue')] = clicks
      BY <1>4, <2>4
    <3> QED BY <2>2, <3>1, <3>2, Zenon DEF LastStart
  <2> QED BY <2>3, <2>4
<1> QED BY <1>4, <1>5, <1>6, Zenon DEF IInv

\* A start that renews the engine leaves no dispatcher but its own.
LEMMA RenewKeepsOne ==
    ASSUME IInv, NEW c \in Clicks, NEW st \in EndpointStates, Renew(c, st)
    PROVE  OneDispatcher'
<1>1. TypeOK /\ OneDispatcher /\ engine' = c
  BY DEF IInv, Renew
<1>2. /\ \A d \in Clicks : d # c /\ d # engine => endpoint'[d] = endpoint[d]
      /\ engine \in Clicks /\ engine # c => endpoint'[engine].st = "closed"
  BY <1>1, RenewEndpoints
<1> QED BY <1>1, <1>2 DEF OneDispatcher, Live

LEMMA StartStep ==
    ASSUME IInv, NEW c \in Clicks, TypeOK',
           FailToClose(c) \/ FailToOpen(c) \/ FailToConfigure(c) \/ Started(c)
    PROVE  IInv'
<1>1. CASE FailToClose(c)
  <2>1. OneDispatcher'
    BY <1>1 DEF FailToClose, OneDispatcher, Live, IInv
  <2>2. /\ Dequeue(c) /\ start' = [start EXCEPT ![c] = "failed"]
        /\ UNCHANGED <<clicks, handler, seen, running, button, port, hasty>>
    BY <1>1 DEF FailToClose
  <2> QED BY <2>1, <2>2, RunStartStep
<1>2. CASE FailToOpen(c) \/ FailToConfigure(c)
  <2>1. PICK st \in EndpointStates : Renew(c, st)
    BY <1>2 DEF FailToOpen, FailToConfigure, EndpointStates
  <2>2. OneDispatcher'
    BY <2>1, RenewKeepsOne
  <2>3. /\ Dequeue(c) /\ start' = [start EXCEPT ![c] = "failed"]
        /\ UNCHANGED <<clicks, handler, seen, running, button, port, hasty>>
    BY <1>2 DEF FailToOpen, FailToConfigure, Renew
  <2> QED BY <2>2, <2>3, RunStartStep
<1>3. CASE Started(c)
  <2>1. Renew(c, "binding") /\ "binding" \in EndpointStates
    BY <1>3 DEF Started, EndpointStates
  <2>2. OneDispatcher'
    BY <2>1, RenewKeepsOne
  <2>3. endpoint'[c] = [st |-> "binding", port |-> port]
    BY <2>1, RenewEndpoints DEF IInv
  <2>4. /\ Dequeue(c) /\ start' = [start EXCEPT ![c] = "started"] /\ engine' = c
        /\ UNCHANGED <<clicks, handler, seen, running, button, port, hasty>>
    BY <1>3 DEF Started, Renew
  <2>5. endpoint'[c].st = "binding" /\ endpoint'[c].port = port
    BY <2>3
  <2> QED BY <2>2, <2>4, <2>5, RunStartStep
<1> QED BY <1>1, <1>2, <1>3

\* The end of a task that binds, or nothing at all.
LEMMA BindStep ==
    ASSUME IInv, TypeOK',
           UNCHANGED <<clicks, handler, seen, running, button, port, queue, start, engine,
                       hasty>>,
           \A d \in Clicks : /\ endpoint'[d].port = endpoint[d].port
                             /\ \/ endpoint'[d].st = endpoint[d].st
                                \/ /\ endpoint[d].st = "binding"
                                   /\ endpoint'[d].st \in {"open", "deaf"}
    PROVE  IInv'
<1> USE TrapAssumption
<1>1. \A d \in Clicks : Live(d)' => Live(d)
  BY DEF Live
<1>2. OneDispatcher'
  BY <1>1 DEF IInv, OneDispatcher
<1>3. HandlerInv'
  BY DEF IInv, HandlerInv
<1>4. LastHandler'
  BY DEF IInv, LastHandler
<1>5. LastStop'
  BY <1>1, Zenon DEF IInv, LastStop
<1>6. LastStart'
  <2> SUFFICES ASSUME clicks > 0 PROVE LastStart'
    BY DEF LastStart
  <2>1. clicks \in Clicks
    BY DEF IInv, TypeOK, Clicks
  <2>2. /\ endpoint'[clicks].port = endpoint[clicks].port
        /\ endpoint[clicks].st \in {"binding", "open", "deaf"} =>
               endpoint'[clicks].st \in {"binding", "open", "deaf"}
    BY <2>1
  <2> QED BY <2>2, Zenon DEF IInv, LastStart
<1> QED BY <1>2, <1>3, <1>4, <1>5, <1>6, Zenon DEF IInv

\* The inductive invariant holds: handlers hand over each start once, one dispatcher
\* at most is alive, and without haste what was asked for last comes last
\* (snmp_tab.py:191-216, main.py:72-104, snmp_server.py:55-101).
THEOREM InvariantCorrect == Spec => []IInv
<1>1. IInv /\ [Next]_vars => IInv'
  <2> SUFFICES ASSUME IInv, [Next]_vars PROVE IInv'
    OBVIOUS
  <2>1. TypeOK'
    BY TypeStep DEF IInv
  <2>2. CASE Click
    BY <2>1, <2>2, ClickStep
  <2>3. ASSUME NEW c \in Clicks, Handle(c) PROVE IInv'
    BY <2>1, <2>3, TurnStep, LabelStep, EnterPortStep, RefusePortStep, SubmitStep DEF Handle
  <2>4. CASE RunStop
    BY <2>1, <2>4, RunStopStep
  <2>5. ASSUME NEW c \in Clicks,
               FailToClose(c) \/ FailToOpen(c) \/ FailToConfigure(c) \/ Started(c)
        PROVE  IInv'
    BY <2>1, <2>5, StartStep
  <2>6. ASSUME NEW c \in Clicks, Bind(c) PROVE IInv'
    <3>1. \A d \in Clicks : /\ endpoint'[d].port = endpoint[d].port
                            /\ \/ endpoint'[d].st = endpoint[d].st
                               \/ /\ endpoint[d].st = "binding"
                                  /\ endpoint'[d].st \in {"open", "deaf"}
      BY <2>6 DEF Bind, IInv, TypeOK
    <3> QED BY <2>1, <2>6, <3>1, BindStep DEF Bind
  <2>7. CASE UNCHANGED vars
    BY <2>1, <2>7, BindStep DEF vars
  <2> QED BY <2>2, <2>3, <2>4, <2>5, <2>6, <2>7 DEF Next, Loop
<1> QED BY IInvInit, <1>1, PTL DEF Spec

\* At any pace of the user only the dispatcher of the current engine has a port or
\* will have one (snmp_server.py:55-66).
THEOREM OneDispatcherCorrect == Spec => []OneDispatcher
<1>1. IInv => OneDispatcher
  BY DEF IInv
<1> QED BY InvariantCorrect, <1>1, PTL

\* Without overlapping handlers, a receiver that the tab says is stopped has closed
\* its port once the loop has nothing left to do (snmp_server.py:95-101).
THEOREM StopClosesCorrect == Spec => []StopCloses
<1>1. IInv => StopCloses
  <2> SUFFICES ASSUME IInv, ~hasty, Settled, ~button PROVE \A c \in Clicks : ~Live(c)
    BY DEF StopCloses
  <2>1. queue = <<>> /\ \A c \in Clicks : ~Handling(c)
    BY DEF Settled
  <2>2. clicks = 0 \/ handler[clicks] # "stopping"
    BY <2>1, TrapAssumption DEF IInv, TypeOK, Clicks, Handling
  <2> QED BY <2>1, <2>2, Zenon DEF IInv, LastStop
<1> QED BY InvariantCorrect, <1>1, PTL

\* Without overlapping handlers, a receiver that the tab says is running has been
\* started on the port entered last, or an error has been put on the queue; whether
\* its port could be bound nobody hears (main.py:72-100, snmp_server.py:55-93).
THEOREM StartedOrReportedCorrect == Spec => []StartedOrReported
<1>1. IInv => StartedOrReported
  <2> SUFFICES ASSUME IInv, ~hasty, Settled, button
               PROVE  \/ start[clicks] \in {"invalid", "failed"}
                      \/ /\ start[clicks] = "started"
                         /\ engine = clicks
                         /\ endpoint[clicks].st \in {"open", "deaf"}
                         /\ endpoint[clicks].port = port
    BY DEF StartedOrReported
  <2>1. queue = <<>> /\ \A c \in Clicks : ~Handling(c) /\ endpoint[c].st # "binding"
    BY DEF Settled
  <2>2. clicks > 0 /\ clicks \in Clicks /\ handler[clicks] = "done"
    <3>1. clicks # 0
      BY DEF IInv, LastHandler
    <3> QED BY <2>1, <3>1, TrapAssumption DEF IInv, TypeOK, LastHandler, Clicks, Handling
  <2>3. endpoint[clicks].st # "binding"
    BY <2>1, <2>2
  <2>4. \/ start[clicks] \in {"invalid", "failed"}
        \/ /\ start[clicks] = "started" /\ engine = clicks
           /\ endpoint[clicks].st \in {"binding", "open", "deaf"}
           /\ endpoint[clicks].port = port
    BY <2>1, <2>2 DEF IInv, LastStart
  <2> QED BY <2>3, <2>4
<1> QED BY InvariantCorrect, <1>1, PTL
=============================================================================

------------------------ MODULE DatagramServerProofs ------------------------
EXTENDS DatagramServer, SequenceTheorems, TLAPS

\* Taking the first coroutine off the queue.
LEMMA TailOfQueue ==
    ASSUME queue \in Seq(0..MaxClicks), queue # <<>>, queue' = Tail(queue)
    PROVE  /\ Len(queue) \in Nat \ {0} /\ DOMAIN queue = 1..Len(queue)
           /\ Head(queue) = queue[1]
           /\ queue' \in Seq(0..MaxClicks)
           /\ Len(queue') = Len(queue) - 1
           /\ DOMAIN queue' = 1..(Len(queue) - 1)
           /\ \A k \in 1..(Len(queue) - 1) : queue'[k] = queue[k + 1]
<1>1. Len(queue) \in Nat \ {0} /\ DOMAIN queue = 1..Len(queue)
  OBVIOUS
<1>2. Head(queue) = queue[1]
  OBVIOUS
<1>3. queue' \in Seq(0..MaxClicks)
  <2>1. Tail(queue) \in Seq(0..MaxClicks)
    BY HeadTailProperties, Zenon
  <2> QED BY <2>1, Zenon
<1>4. Len(queue') = Len(queue) - 1
  OBVIOUS
<1>5. DOMAIN queue' = 1..(Len(queue) - 1)
  BY <1>3, <1>4
<1>6. \A k \in 1..(Len(queue) - 1) : queue'[k] = queue[k + 1]
  BY <1>1
<1> QED BY <1>1, <1>2, <1>3, <1>4, <1>5, <1>6

\* Handing a coroutine over to the loop.
LEMMA AppendToQueue ==
    ASSUME queue \in Seq(0..MaxClicks), NEW c \in 0..MaxClicks, queue' = Append(queue, c)
    PROVE  /\ Len(queue) \in Nat /\ DOMAIN queue = 1..Len(queue)
           /\ queue' \in Seq(0..MaxClicks) /\ queue' # <<>>
           /\ Len(queue') = Len(queue) + 1
           /\ DOMAIN queue' = 1..(Len(queue) + 1)
           /\ \A k \in 1..Len(queue) : queue'[k] = queue[k]
           /\ queue'[Len(queue) + 1] = c
OBVIOUS

\* A coroutine that is first but not last leaves the last one where it is; one that
\* is first and last leaves an empty queue, if it is there once.
LEMMA LastOfTail ==
    ASSUME queue \in Seq(0..MaxClicks), queue # <<>>, queue' = Tail(queue)
    PROVE  /\ Len(queue) = 1 => queue' = <<>>
           /\ Len(queue) # 1 => queue' # <<>> /\ queue'[Len(queue')] = queue[Len(queue)]
<1>1. /\ Len(queue) \in Nat \ {0}
      /\ queue' \in Seq(0..MaxClicks) /\ Len(queue') = Len(queue) - 1
      /\ \A k \in 1..(Len(queue) - 1) : queue'[k] = queue[k + 1]
  BY TailOfQueue
<1>2. Len(queue) = 1 => queue' = <<>>
  BY <1>1
<1>3. ASSUME Len(queue) # 1
      PROVE  queue' # <<>> /\ queue'[Len(queue')] = queue[Len(queue)]
  <2>1. Len(queue') \in 1..(Len(queue) - 1) /\ Len(queue') + 1 = Len(queue)
    BY <1>1, <1>3
  <2>2. queue'[Len(queue')] = queue[Len(queue)]
    BY <1>1, <2>1
  <2>3. Len(<<>>) = 0 /\ Len(queue') # 0
    BY <2>1
  <2>4. queue' # <<>>
    BY <2>3, Zenon
  <2> QED BY <2>2, <2>4
<1> QED BY <1>2, <1>3

-----------------------------------------------------------------------------
LEMMA TypeInit == Init => TypeOK
<1> SUFFICES ASSUME Init PROVE TypeOK
  OBVIOUS
<1>1. queue \in Seq(0..MaxClicks)
  BY DEF Init
<1>2. NoEndpoint \in [st : EndpointStates, port : Ports]
  BY DatagramAssumption DEF NoEndpoint, EndpointStates
<1>3. 0 \in 0..MaxClicks
  BY DatagramAssumption
<1> QED BY <1>1, <1>2, <1>3 DEF Init, TypeOK, StartStates, HandlerStates, Paces

LEMMA TypeHandle ==
    ASSUME TypeOK, NEW c \in Clicks, Handle(c)
    PROVE  TypeOK'
<1> USE DatagramAssumption DEF TypeOK, HandlerStates, StartStates, Clicks, Move
<1>1. CASE Turn(c)
  <2>1. running' \in BOOLEAN
    BY <1>1, Zenon DEF Turn
  <2> QED BY <1>1, <2>1 DEF Turn
<1>2. CASE Label(c)
  <2>1. handler' \in [Clicks -> HandlerStates]
    BY <1>2 DEF Label
  <2> QED BY <1>2, <2>1 DEF Label
<1>3. CASE RefusePort(c)
  BY <1>3 DEF RefusePort
<1>4. CASE SubmitStart(c)
  <2>1. queue' \in Seq(0..MaxClicks)
    BY <1>4, AppendToQueue DEF SubmitStart
  <2> QED BY <1>4, <2>1 DEF SubmitStart
<1>5. CASE SubmitStop(c)
  <2>1. queue' \in Seq(0..MaxClicks)
    BY <1>5, AppendToQueue DEF SubmitStop, Stop
  <2> QED BY <1>5, <2>1 DEF SubmitStop
<1>6. ASSUME NEW entry \in Ports, EnterPort(c, entry) PROVE TypeOK'
  BY <1>6 DEF EnterPort
<1> QED BY <1>1, <1>2, <1>3, <1>4, <1>5, <1>6 DEF Handle

LEMMA TypeClick == TypeOK /\ Click => TypeOK'
<1> USE DatagramAssumption DEF TypeOK, HandlerStates, Clicks, Move
<1> SUFFICES ASSUME TypeOK, Click PROVE TypeOK'
  OBVIOUS
<1>1. clicks + 1 \in Clicks /\ clicks' \in 0..MaxClicks
  BY DEF Click
<1>2. pace' \in Paces
  BY Zenon DEF Click, Paces
<1>3. handler' \in [Clicks -> HandlerStates] /\ seen' \in [Clicks -> BOOLEAN]
  BY <1>1 DEF Click
<1> QED BY <1>1, <1>2, <1>3 DEF Click

LEMMA TypeLoop == TypeOK /\ Loop => TypeOK'
<1> USE DatagramAssumption DEF TypeOK, StartStates, EndpointStates, Clicks, Dequeue
<1> SUFFICES ASSUME TypeOK, Loop PROVE TypeOK'
  OBVIOUS
<1>1. ASSUME queue # <<>>, queue' = Tail(queue) PROVE queue' \in Seq(0..MaxClicks)
  BY <1>1, TailOfQueue
<1>2. CASE RunStop
  <2>1. queue' \in Seq(0..MaxClicks)
    BY <1>1, <1>2 DEF RunStop
  <2>2. endpoint' \in [Clicks -> [st : EndpointStates, port : Ports]]
    BY <1>2 DEF RunStop
  <2> QED BY <1>2, <2>1, <2>2 DEF RunStop
<1>3. ASSUME NEW c \in Clicks, BeginStart(c) PROVE TypeOK'
  <2>1. queue' \in Seq(0..MaxClicks)
    BY <1>1, <1>3 DEF BeginStart
  <2> QED BY <1>3, <2>1 DEF BeginStart
<1>4. ASSUME NEW c \in Clicks, FailStart(c) PROVE TypeOK'
  <2>1. queue' \in Seq(0..MaxClicks)
    BY <1>1, <1>4 DEF FailStart
  <2> QED BY <1>4, <2>1 DEF FailStart
<1>5. ASSUME NEW c \in Clicks, ResumeStart(c) PROVE TypeOK'
  BY <1>5 DEF ResumeStart
<1>6. ASSUME NEW c \in Clicks, CloseSocket(c) PROVE TypeOK'
  BY <1>6 DEF CloseSocket
<1> QED BY <1>2, <1>3, <1>4, <1>5, <1>6 DEF Loop

LEMMA TypeStep == TypeOK /\ [Next]_vars => TypeOK'
<1> SUFFICES ASSUME TypeOK, [Next]_vars PROVE TypeOK'
  OBVIOUS
<1>1. CASE UNCHANGED vars
  BY <1>1 DEF vars, TypeOK
<1> QED BY <1>1, TypeClick, TypeHandle, TypeLoop DEF Next

-----------------------------------------------------------------------------
LEMMA IInvInit == Init => IInv
<1> SUFFICES ASSUME Init PROVE IInv
  OBVIOUS
<1>1. TypeOK
  BY TypeInit
<1>2. DOMAIN queue = {}
  BY DEF Init
<1>3. Shut /\ \A c \in Clicks : start[c] # "binding"
  BY DEF Init, Shut, Open, NoEndpoint
<1>4. HandlerInv
  BY <1>2 DEF Init, HandlerInv
<1>5. LastHandler
  <2>1. clicks = 0 /\ button = running /\ ~button
    BY DEF Init
  <2>2. \A c \in Clicks : ~(c < 0)
    BY DatagramAssumption DEF Clicks
  <2> QED BY <2>1, <2>2 DEF LastHandler
<1>6. LastStart
  BY DEF Init, LastStart
<1>7. NoOrphan
  BY <1>3 DEF NoOrphan, Shut
<1>8. Calm
  <2>1. clicks = 0 /\ queue = <<>>
    BY DEF Init
  <2> QED BY <1>3, <2>1 DEF Calm
<1> QED BY <1>1, <1>4, <1>5, <1>6, <1>7, <1>8 DEF IInv

\* The click of a handler that moves is the last one, if there was no haste, and the
\* loop knows nothing of it yet.
LEMMA MoverFacts ==
    ASSUME IInv, NEW c \in Clicks, handler[c] \notin {"none", "done"}
    PROVE  /\ clicks \in Clicks /\ c <= clicks
           /\ start[c] = "none"
           /\ \A k \in DOMAIN queue : queue[k] # c
           /\ pace # "overlapping" => c = clicks
<1> USE DatagramAssumption DEF Clicks
<1>1. TypeOK /\ HandlerInv /\ LastHandler
  BY DEF IInv
<1>2. c <= clicks /\ clicks \in Clicks
  BY <1>1 DEF HandlerInv, TypeOK
<1>3. start[c] = "none"
  BY <1>1 DEF HandlerInv
<1>4. \A k \in DOMAIN queue : queue[k] # c
  BY <1>1, <1>3 DEF HandlerInv, Stop
<1>5. pace # "overlapping" => c = clicks
  BY <1>1, <1>2 DEF LastHandler, TypeOK
<1> QED BY <1>2, <1>3, <1>4, <1>5

\* Moving a handler on keeps HandlerInv, if it hands nothing over.
LEMMA MoveKeeps ==
    ASSUME IInv, NEW c \in Clicks, NEW from \in HandlerStates \ {"none", "done"},
           NEW to \in HandlerStates, Move(c, from, to),
           UNCHANGED <<clicks, queue>>,
           \A d \in Clicks : d # c => start'[d] = start[d],
           start'[c] # "none" => to = "done"
    PROVE  /\ HandlerInv'
           /\ handler'[c] = to /\ \A d \in Clicks : d # c => handler'[d] = handler[d]
<1> USE DatagramAssumption DEF Clicks
<1>1. TypeOK /\ HandlerInv
  BY DEF IInv
<1>2. handler'[c] = to /\ \A d \in Clicks : d # c => handler'[d] = handler[d]
  BY <1>1 DEF Move, TypeOK
<1>3. /\ c <= clicks /\ clicks \in Clicks
      /\ \A k \in DOMAIN queue : queue[k] # c
  BY MoverFacts DEF Move
<1>4. \A d \in Clicks : d > clicks' => handler'[d] = "none" /\ start'[d] = "none"
  BY <1>1, <1>2, <1>3 DEF HandlerInv
<1>5. \A d \in Clicks : start'[d] # "none" => handler'[d] = "done"
  BY <1>1, <1>2 DEF HandlerInv
<1>6. ASSUME NEW k \in DOMAIN queue', queue'[k] # Stop
      PROVE  queue'[k] <= clicks' /\ start'[queue'[k]] = "queued"
  <2>1. queue[k] <= clicks /\ start[queue[k]] = "queued" /\ queue[k] # c
    BY <1>1, <1>3, <1>6 DEF HandlerInv
  <2>2. queue[k] \in Clicks
    BY <1>1, <1>6 DEF TypeOK, Stop
  <2> QED BY <2>1, <2>2
<1>7. \A k, l \in DOMAIN queue' : queue'[k] = queue'[l] /\ queue'[k] # Stop => k = l
  BY <1>1, Zenon DEF HandlerInv
<1> QED BY <1>2, <1>4, <1>5, <1>6, <1>7, Zenon DEF HandlerInv, Stop

\* While a user slower than the loop has a click handled, the loop has nothing to do.
LEMMA PatientMove ==
    ASSUME IInv, pace = "patient", NEW c \in Clicks, handler[c] \notin {"none", "done"}
    PROVE  /\ c = clicks /\ clicks > 0 /\ queue = <<>>
           /\ \A d \in Clicks : start[d] # "binding"
           /\ \/ handler[c] = "stopping"
              \/ button /\ handler[c] \in {"read", "turned"}
              \/ Shut
<1>1. Calm
  BY DEF IInv
<1>2. c = clicks /\ clicks > 0
  BY MoverFacts DEF Clicks
<1>3. \A d \in Clicks : start[d] # "binding"
  BY <1>1, <1>2 DEF Calm
<1> QED BY <1>1, <1>2, <1>3 DEF Calm

\* What the loop has done is not touched by the handlers.
LEMMA LoopUntouched ==
    ASSUME IInv, UNCHANGED <<transport, endpoint>>,
           pace' = "patient" => pace = "patient",
           \A d \in Clicks : start'[d] = "binding" <=> start[d] = "binding"
    PROVE  /\ NoOrphan'
           /\ Shut' <=> Shut
           /\ \A d \in Clicks : Open(d)' <=> Open(d)
BY Zenon DEF IInv, NoOrphan, Shut, Open

LEMMA ClickStep == IInv /\ Click /\ TypeOK' => IInv'
<1> USE DatagramAssumption
<1> SUFFICES ASSUME IInv, Click, TypeOK' PROVE IInv'
  OBVIOUS
<1>1. TypeOK /\ HandlerInv /\ LastHandler /\ Calm
  BY DEF IInv
<1>2. /\ clicks' = clicks + 1 /\ clicks \in Nat /\ clicks + 1 \in Clicks
      /\ handler[clicks + 1] = "none" /\ handler'[clicks + 1] = "read"
      /\ \A d \in Clicks : d # clicks + 1 => handler'[d] = handler[d]
      /\ seen'[clicks + 1] = running
      /\ UNCHANGED <<running, button, port, queue, start, transport, endpoint>>
  BY <1>1 DEF Click, Move, TypeOK, Clicks
<1>3. /\ pace' # "overlapping" =>
             pace # "overlapping" /\ \A d \in Clicks : handler[d] \in {"none", "done"}
      /\ pace' = "patient" => pace = "patient" /\ Idle
  BY Zenon DEF Click, Handling
<1>4. NoOrphan' /\ (Shut' <=> Shut) /\ \A d \in Clicks : Open(d)' <=> Open(d)
  BY <1>2, <1>3, LoopUntouched
<1>5. HandlerInv'
  <2>1. \A d \in Clicks : d > clicks' => handler'[d] = "none" /\ start'[d] = "none"
    BY <1>1, <1>2 DEF HandlerInv, Clicks
  <2>2. \A d \in Clicks : start'[d] # "none" => handler'[d] = "done"
    BY <1>1, <1>2 DEF HandlerInv
  <2>3. \A k \in DOMAIN queue' :
            queue'[k] # Stop => queue'[k] <= clicks' /\ start'[queue'[k]] = "queued"
    BY <1>1, <1>2 DEF HandlerInv, TypeOK
  <2>4. \A k, l \in DOMAIN queue' : queue'[k] = queue'[l] /\ queue'[k] # Stop => k = l
    BY <1>1, <1>2, Zenon DEF HandlerInv
  <2> QED BY <2>1, <2>2, <2>3, <2>4, Zenon DEF HandlerInv, Stop
<1>6. ASSUME pace' # "overlapping" PROVE clicks = 0 \/ handler[clicks] = "done"
  <2> SUFFICES ASSUME clicks # 0 PROVE handler[clicks] = "done"
    OBVIOUS
  <2>1. clicks \in Clicks /\ clicks > 0
    BY <1>1 DEF TypeOK, Clicks
  <2> QED BY <1>1, <1>3, <1>6, <2>1, Zenon DEF LastHandler
<1>7. LastHandler'
  <2> SUFFICES ASSUME pace' # "overlapping" PROVE LastHandler'
    BY Zenon DEF LastHandler
  <2>1. \A d \in Clicks : d < clicks' => handler'[d] = "done"
    <3> SUFFICES ASSUME NEW d \in Clicks, d < clicks + 1 PROVE handler'[d] = "done"
      BY <1>2
    <3>1. d # clicks + 1 /\ (d < clicks \/ d = clicks)
      BY <1>2 DEF Clicks
    <3>2. d # 0
      BY DEF Clicks
    <3> QED BY <1>1, <1>2, <1>3, <1>6, <3>1, <3>2 DEF LastHandler
  <2>2. button = running
    BY <1>1, <1>3, <1>6 DEF LastHandler
  <2>3. handler'[clicks'] = "read" /\ seen'[clicks'] = running'
    BY <1>2
  <2> QED BY <1>2, <2>1, <2>2, <2>3 DEF LastHandler
<1>8. Calm'
  <2> SUFFICES ASSUME pace' = "patient" PROVE Calm'
    BY Zenon DEF Calm
  <2>1. /\ pace = "patient" /\ queue = <<>>
        /\ \A d \in Clicks : start[d] # "binding"
    BY <1>3 DEF Idle
  <2>2. queue # <<Stop>>
    BY <2>1
  <2>3. button \/ Shut
    <3>1. clicks = 0 \/ (clicks > 0 /\ handler[clicks] = "done")
      BY <1>2, <1>3, <1>6
    <3> QED BY <1>1, <2>1, <2>2, <3>1 DEF Calm
  <2>4. clicks' # 0 /\ handler'[clicks'] = "read"
    BY <1>2
  <2> QED BY <1>2, <1>4, <2>1, <2>3, <2>4 DEF Calm
<1>9. LastStart'
  BY <1>2 DEF LastStart
<1> QED BY <1>4, <1>5, <1>7, <1>8, <1>9, Zenon DEF IInv

\* Turning self.running and labelling the button.
LEMMA TurnStep ==
    ASSUME IInv, NEW c \in Clicks, Turn(c), TypeOK'
    PROVE  IInv'
<1> USE DatagramAssumption
<1>1. TypeOK /\ LastHandler
  BY DEF IInv
<1>2. /\ Move(c, "read", "turned") /\ running' = ~seen[c]
      /\ UNCHANGED <<clicks, seen, button, port, queue, start, transport, endpoint, pace>>
      /\ handler[c] = "read"
  BY DEF Turn, Move
<1>3. /\ HandlerInv'
      /\ handler'[c] = "turned" /\ \A d \in Clicks : d # c => handler'[d] = handler[d]
  <2>1. start[c] = "none"
    BY <1>2, MoverFacts
  <2> QED BY <1>2, <2>1, MoveKeeps DEF HandlerStates
<1>4. /\ clicks \in Clicks /\ clicks > 0
      /\ pace # "overlapping" => c = clicks
  BY <1>2, MoverFacts DEF Clicks
<1>5. NoOrphan' /\ (Shut' <=> Shut)
  BY <1>2, LoopUntouched
<1>6. LastHandler'
  <2> SUFFICES ASSUME pace # "overlapping" PROVE LastHandler'
    BY <1>2 DEF LastHandler
  <2>1. seen[clicks] = running /\ button = running
    BY <1>1, <1>2, <1>4 DEF LastHandler
  <2>2. button' # running'
    BY <1>1, <1>2, <1>4, <2>1 DEF TypeOK
  <2>3. \A d \in Clicks : d < clicks => handler'[d] = "done"
    BY <1>1, <1>3, <1>4 DEF LastHandler, Clicks
  <2> QED BY <1>2, <1>3, <1>4, <2>2, <2>3 DEF LastHandler
<1>7. Calm'
  <2> SUFFICES ASSUME pace = "patient" PROVE Calm'
    BY <1>2 DEF Calm
  <2>1. /\ c = clicks /\ clicks > 0 /\ queue = <<>> /\ (button \/ Shut)
        /\ \A d \in Clicks : start[d] # "binding"
    BY <1>2, PatientMove
  <2>2. handler'[clicks'] = "turned" /\ clicks' # 0
    BY <1>2, <1>3, <2>1
  <2> QED BY <1>2, <1>5, <2>1, <2>2 DEF Calm
<1>8. LastStart'
  BY <1>2, <1>3, <1>4 DEF LastStart
<1> QED BY <1>3, <1>5, <1>6, <1>7, <1>8, Zenon DEF IInv

LEMMA LabelStep ==
    ASSUME IInv, NEW c \in Clicks, Label(c), TypeOK'
    PROVE  IInv'
<1> USE DatagramAssumption
<1> DEFINE to == IF running THEN "starting" ELSE "stopping"
<1>1. TypeOK /\ LastHandler
  BY DEF IInv
<1>2. /\ Move(c, "turned", to) /\ button' = running
      /\ UNCHANGED <<clicks, seen, running, port, queue, start, transport, endpoint, pace>>
      /\ handler[c] = "turned" /\ to \in HandlerStates
  BY DEF Label, Move, HandlerStates
<1>3. /\ HandlerInv'
      /\ handler'[c] = to /\ \A d \in Clicks : d # c => handler'[d] = handler[d]
  <2>1. start[c] = "none"
    BY <1>2, MoverFacts
  <2> HIDE DEF to
  <2> QED BY <1>2, <2>1, MoveKeeps DEF HandlerStates
<1>4. /\ clicks \in Clicks /\ clicks > 0
      /\ pace # "overlapping" => c = clicks
  BY <1>2, MoverFacts DEF Clicks
<1>5. NoOrphan' /\ (Shut' <=> Shut)
  BY <1>2, LoopUntouched
<1>6. pace # "overlapping" => handler'[clicks] = IF button' THEN "starting" ELSE "stopping"
  BY <1>2, <1>3, <1>4
<1>7. LastHandler'
  <2> SUFFICES ASSUME pace # "overlapping" PROVE LastHandler'
    BY <1>2 DEF LastHandler
  <2>1. \A d \in Clicks : d < clicks => handler'[d] = "done"
    BY <1>1, <1>3, <1>4 DEF LastHandler, Clicks
  <2>2. handler'[clicks] \in {"starting", "stopping"}
    BY <1>6
  <2>3. button' = running'
    BY <1>2
  <2>4. /\ handler'[clicks] = "starting" => button'
        /\ handler'[clicks] = "stopping" => ~button'
    BY <1>6
  <2> QED BY <1>2, <1>4, <2>1, <2>2, <2>3, <2>4 DEF LastHandler
<1>8. Calm'
  <2> SUFFICES ASSUME pace = "patient" PROVE Calm'
    BY <1>2 DEF Calm
  <2>1. /\ c = clicks /\ clicks > 0 /\ queue = <<>> /\ (button \/ Shut)
        /\ \A d \in Clicks : start[d] # "binding"
    BY <1>2, PatientMove
  <2>2. button # running
    <3>1. clicks > 0 /\ handler[clicks] = "turned" /\ pace # "overlapping"
      BY <1>2, <2>1
    <3> QED BY <1>1, <3>1, Zenon DEF LastHandler
  <2>3. handler'[clicks'] = "stopping" \/ (handler'[clicks'] = "starting" /\ ~button)
    <3>1. button \in BOOLEAN /\ running \in BOOLEAN
      BY <1>1 DEF TypeOK
    <3>2. handler'[clicks'] = to
      BY <1>2, <1>3, <2>1
    <3> QED BY <2>2, <3>1, <3>2
  <2>4. clicks' # 0
    BY <1>2, <2>1
  <2> QED BY <1>2, <1>5, <2>1, <2>3, <2>4 DEF Calm
<1>9. LastStart'
  BY <1>2, <1>4, <1>6 DEF LastStart
<1> QED BY <1>3, <1>5, <1>7, <1>8, <1>9, Zenon DEF IInv

\* Storing the port, or refusing it.
LEMMA EnterPortStep ==
    ASSUME IInv, NEW c \in Clicks, NEW entry \in Ports, EnterPort(c, entry), TypeOK'
    PROVE  IInv'
<1> USE DatagramAssumption
<1>1. TypeOK /\ LastHandler
  BY DEF IInv
<1>2. /\ Move(c, "starting", "entered") /\ handler[c] = "starting"
      /\ UNCHANGED <<clicks, seen, running, button, queue, start, transport, endpoint, pace>>
  BY DEF EnterPort, Move
<1>3. /\ HandlerInv'
      /\ handler'[c] = "entered" /\ \A d \in Clicks : d # c => handler'[d] = handler[d]
  <2>1. start[c] = "none"
    BY <1>2, MoverFacts
  <2> QED BY <1>2, <2>1, MoveKeeps DEF HandlerStates
<1>4. /\ clicks \in Clicks /\ clicks > 0
      /\ pace # "overlapping" => c = clicks
  BY <1>2, MoverFacts DEF Clicks
<1>5. NoOrphan' /\ (Shut' <=> Shut)
  BY <1>2, LoopUntouched
<1>6. pace # "overlapping" => button /\ button = running
  BY <1>1, <1>2, <1>4 DEF LastHandler
<1>7. LastHandler'
  <2> SUFFICES ASSUME pace # "overlapping" PROVE LastHandler'
    BY <1>2 DEF LastHandler
  <2>1. \A d \in Clicks : d < clicks => handler'[d] = "done"
    BY <1>1, <1>3, <1>4 DEF LastHandler, Clicks
  <2>2. clicks' = clicks /\ clicks # 0 /\ ~(clicks = 0)
    BY <1>2, <1>4
  <2>3. handler'[clicks] = handler'[c] /\ button' /\ button' = running'
    BY <1>2, <1>4, <1>6
  <2> QED BY <1>3, <2>1, <2>2, <2>3 DEF LastHandler
<1>8. Calm'
  <2> SUFFICES ASSUME pace = "patient" PROVE Calm'
    BY <1>2 DEF Calm
  <2>1. /\ c = clicks /\ clicks > 0 /\ queue = <<>> /\ Shut
        /\ \A d \in Clicks : start[d] # "binding"
    BY <1>2, PatientMove
  <2>2. handler'[clicks'] = "entered" /\ clicks' # 0
    BY <1>2, <1>3, <2>1
  <2> QED BY <1>2, <1>5, <2>1, <2>2 DEF Calm
<1>9. LastStart'
  BY <1>2, <1>3, <1>4 DEF LastStart
<1> QED BY <1>3, <1>5, <1>7, <1>8, <1>9, Zenon DEF IInv

LEMMA RefusePortStep ==
    ASSUME IInv, NEW c \in Clicks, RefusePort(c), TypeOK'
    PROVE  IInv'
<1> USE DatagramAssumption
<1>1. TypeOK /\ LastHandler
  BY DEF IInv
<1>2. /\ Move(c, "starting", "done") /\ handler[c] = "starting"
      /\ UNCHANGED <<clicks, seen, running, button, port, queue, transport, endpoint, pace>>
      /\ start'[c] = "invalid" /\ \A d \in Clicks : d # c => start'[d] = start[d]
  BY <1>1 DEF RefusePort, Move, TypeOK
<1>3. /\ HandlerInv'
      /\ handler'[c] = "done" /\ \A d \in Clicks : d # c => handler'[d] = handler[d]
  BY <1>2, MoveKeeps DEF HandlerStates
<1>4. /\ clicks \in Clicks /\ clicks > 0
      /\ pace # "overlapping" => c = clicks
  BY <1>2, MoverFacts DEF Clicks
<1>5. NoOrphan' /\ (Shut' <=> Shut)
  <2>1. \A d \in Clicks : start'[d] = "binding" <=> start[d] = "binding"
    <3>1. start[c] = "none"
      BY <1>2, MoverFacts
    <3> QED BY <1>2, <3>1
  <2> QED BY <1>2, <2>1, LoopUntouched
<1>6. pace # "overlapping" => button /\ button = running
  BY <1>1, <1>2, <1>4 DEF LastHandler
<1>7. LastHandler'
  <2> SUFFICES ASSUME pace # "overlapping" PROVE LastHandler'
    BY <1>2 DEF LastHandler
  <2>1. \A d \in Clicks : d < clicks => handler'[d] = "done"
    BY <1>1, <1>3, <1>4 DEF LastHandler, Clicks
  <2>2. clicks' = clicks /\ clicks # 0 /\ ~(clicks = 0)
    BY <1>2, <1>4
  <2>3. handler'[clicks] = handler'[c] /\ button' /\ button' = running'
    BY <1>2, <1>4, <1>6
  <2> QED BY <1>3, <2>1, <2>2, <2>3 DEF LastHandler
<1>8. Calm'
  <2> SUFFICES ASSUME pace = "patient" PROVE Calm'
    BY <1>2 DEF Calm
  <2>1. /\ c = clicks /\ clicks > 0 /\ queue = <<>> /\ Shut
        /\ \A d \in Clicks : start[d] # "binding"
    BY <1>2, PatientMove
  <2>2. \A d \in Clicks : start'[d] # "binding"
    BY <1>2, <2>1
  <2>3. handler'[clicks'] = "done" /\ clicks' # 0
    BY <1>2, <1>3, <2>1
  <2> QED BY <1>2, <1>5, <2>1, <2>2, <2>3 DEF Calm
<1>9. LastStart'
  BY <1>2, <1>4 DEF LastStart
<1> QED BY <1>3, <1>5, <1>7, <1>8, <1>9, Zenon DEF IInv

-----------------------------------------------------------------------------
\* Handing a coroutine over: a start that is not in the queue yet, or a stop.
LEMMA SubmitKeeps ==
    ASSUME IInv, TypeOK', NEW c \in Clicks, NEW from \in HandlerStates \ {"none", "done"},
           Move(c, from, "done"), NEW item \in {c, Stop}, queue' = Append(queue, item),
           start' = IF item = c THEN [start EXCEPT ![c] = "queued"] ELSE start,
           UNCHANGED <<clicks, seen, running, button, port, transport, endpoint, pace>>
    PROVE  /\ HandlerInv'
           /\ handler'[c] = "done" /\ \A d \in Clicks : d # c => handler'[d] = handler[d]
           /\ queue' # <<>> /\ queue'[Len(queue')] = item
<1> USE DatagramAssumption DEF Clicks
<1>1. TypeOK /\ HandlerInv
  BY DEF IInv
<1>2. handler'[c] = "done" /\ \A d \in Clicks : d # c => handler'[d] = handler[d]
  BY <1>1 DEF Move, TypeOK
<1>3. /\ c <= clicks /\ clicks \in Clicks
      /\ \A k \in DOMAIN queue : queue[k] # c
  BY MoverFacts DEF Move
<1>4. item \in 0..MaxClicks /\ c # Stop
  BY DEF Stop
<1>5. /\ Len(queue) \in Nat /\ DOMAIN queue = 1..Len(queue)
      /\ queue' # <<>> /\ Len(queue') = Len(queue) + 1
      /\ DOMAIN queue' = 1..(Len(queue) + 1)
      /\ \A k \in 1..Len(queue) : queue'[k] = queue[k]
      /\ queue'[Len(queue) + 1] = item
  BY <1>1, <1>4, AppendToQueue DEF TypeOK
<1>6. /\ item = c => start'[c] = "queued"
      /\ item # c => start'[c] = start[c]
      /\ \A d \in Clicks : d # c => start'[d] = start[d]
  BY <1>1 DEF TypeOK
<1>7. \A d \in Clicks : d > clicks' => handler'[d] = "none" /\ start'[d] = "none"
  BY <1>1, <1>2, <1>3, <1>6 DEF HandlerInv
<1>8. \A d \in Clicks : start'[d] # "none" => handler'[d] = "done"
  BY <1>1, <1>2, <1>6 DEF HandlerInv
<1>9. ASSUME NEW k \in DOMAIN queue', queue'[k] # Stop
      PROVE  queue'[k] <= clicks' /\ start'[queue'[k]] = "queued"
  <2>1. CASE k = Len(queue) + 1
    BY <1>3, <1>5, <1>6, <1>9, <2>1
  <2>2. CASE k \in DOMAIN queue
    <3>1. queue'[k] = queue[k] /\ queue[k] # c
      BY <1>3, <1>5, <2>2
    <3>2. queue[k] <= clicks /\ start[queue[k]] = "queued"
      BY <1>1, <1>9, <2>2, <3>1, Zenon DEF HandlerInv
    <3>3. queue[k] \in Clicks
      BY <1>1, <1>9, <2>2, <3>1 DEF TypeOK, Stop
    <3> QED BY <1>6, <3>1, <3>2, <3>3
  <2> QED BY <1>5, <2>1, <2>2
<1>10. ASSUME NEW k \in DOMAIN queue', NEW l \in DOMAIN queue',
              queue'[k] = queue'[l], queue'[k] # Stop
       PROVE  k = l
  <2>1. \A j \in DOMAIN queue' : j \in DOMAIN queue \/ j = Len(queue) + 1
    BY <1>5
  <2>2. \A j \in DOMAIN queue : queue'[j] = queue[j]
    BY <1>5
  <2>3. \A j \in DOMAIN queue : queue[j] # Stop => queue[j] # item
    BY <1>3, Zenon
  <2>4. CASE k \in DOMAIN queue /\ l \in DOMAIN queue
    BY <1>1, <1>10, <2>2, <2>4, Zenon DEF HandlerInv
  <2>5. k \in DOMAIN queue => queue'[k] # item
    BY <1>10, <2>2, <2>3, Zenon
  <2>6. l \in DOMAIN queue => queue'[l] # item
    BY <1>10, <2>2, <2>3, Zenon
  <2> QED BY <1>5, <1>10, <2>1, <2>4, <2>5, <2>6
<1>11. HandlerInv'
  BY <1>7, <1>8, <1>9, <1>10, Zenon DEF HandlerInv, Stop
<1> QED BY <1>2, <1>5, <1>11

LEMMA SubmitStep ==
    ASSUME IInv, NEW c \in Clicks, SubmitStart(c) \/ SubmitStop(c), TypeOK'
    PROVE  IInv'
<1> USE DatagramAssumption
<1>1. TypeOK /\ LastHandler
  BY DEF IInv
<1>2. c # Stop /\ c \in {c, Stop} /\ Stop \in {c, Stop}
  BY DEF Clicks, Stop
<1>3. /\ UNCHANGED <<clicks, seen, running, button, port, transport, endpoint, pace>>
      /\ handler[c] \in {"entered", "stopping"}
  BY DEF SubmitStart, SubmitStop, Move
<1>4. /\ HandlerInv' /\ queue' # <<>>
      /\ handler'[c] = "done" /\ \A d \in Clicks : d # c => handler'[d] = handler[d]
      /\ handler[c] = "entered" => queue'[Len(queue')] = c /\ start'[c] = "queued"
      /\ handler[c] = "stopping" => queue'[Len(queue')] = Stop
  <2>1. CASE SubmitStart(c)
    <3>1. handler[c] = "entered" /\ Move(c, "entered", "done") /\ start'[c] = "queued"
      BY <1>1, <2>1 DEF SubmitStart, Move, TypeOK
    <3>2. /\ queue' = Append(queue, c)
          /\ start' = IF c = c THEN [start EXCEPT ![c] = "queued"] ELSE start
      BY <2>1 DEF SubmitStart
    <3> QED BY <1>2, <1>3, <3>1, <3>2, SubmitKeeps DEF HandlerStates
  <2>2. CASE SubmitStop(c)
    <3>1. handler[c] = "stopping" /\ Move(c, "stopping", "done")
      BY <2>2 DEF SubmitStop, Move
    <3>2. /\ queue' = Append(queue, Stop)
          /\ start' = IF Stop = c THEN [start EXCEPT ![c] = "queued"] ELSE start
      BY <1>2, <2>2 DEF SubmitStop
    <3> QED BY <1>2, <1>3, <3>1, <3>2, SubmitKeeps DEF HandlerStates
  <2> QED BY <2>1, <2>2
<1>5. /\ clicks \in Clicks /\ clicks > 0
      /\ pace # "overlapping" => c = clicks
  BY <1>3, MoverFacts DEF Clicks
<1>6. /\ NoOrphan' /\ (Shut' <=> Shut)
      /\ \A d \in Clicks : start'[d] = "binding" <=> start[d] = "binding"
  <2>1. start[c] = "none"
    BY <1>3, MoverFacts
  <2>2. \A d \in Clicks : start'[d] = "binding" <=> start[d] = "binding"
    BY <1>1, <2>1 DEF SubmitStart, SubmitStop, TypeOK
  <2> QED BY <1>3, <2>2, LoopUntouched
<1>7. pace # "overlapping" =>
          /\ button = running
          /\ handler[c] = "entered" => button
          /\ handler[c] = "stopping" => ~button
  BY <1>1, <1>3, <1>5 DEF LastHandler
<1>8. LastHandler'
  <2> SUFFICES ASSUME pace # "overlapping" PROVE LastHandler'
    BY <1>3 DEF LastHandler
  <2>1. \A d \in Clicks : d < clicks => handler'[d] = "done"
    BY <1>1, <1>4, <1>5 DEF LastHandler, Clicks
  <2> QED BY <1>3, <1>4, <1>5, <1>7, <2>1 DEF LastHandler
<1>9. Calm'
  <2> SUFFICES ASSUME pace = "patient" PROVE Calm'
    BY <1>3 DEF Calm
  <2>1. /\ c = clicks /\ clicks > 0 /\ queue = <<>>
        /\ \A d \in Clicks : start[d] # "binding"
        /\ handler[c] = "entered" => Shut
    BY <1>3, PatientMove
  <2>2. /\ handler[c] = "entered" => queue' = <<clicks>> /\ button /\ Shut'
        /\ handler[c] = "stopping" => queue' = <<Stop>> /\ ~button
    BY <1>3, <1>6, <1>7, <2>1 DEF SubmitStart, SubmitStop, Move
  <2>3. handler'[clicks'] = "done" /\ clicks' # 0
    BY <1>3, <1>4, <2>1
  <2> QED BY <1>3, <1>6, <2>1, <2>2, <2>3 DEF Calm
<1>10. LastStart'
  <2> SUFFICES ASSUME pace # "overlapping", button
               PROVE  /\ start'[clicks] = "queued"
                      /\ queue' # <<>> /\ queue'[Len(queue')] = clicks
    BY <1>3, Zenon DEF LastStart
  <2> QED BY <1>3, <1>4, <1>5, <1>7
<1> QED BY <1>4, <1>6, <1>8, <1>9, <1>10, Zenon DEF IInv

-----------------------------------------------------------------------------
\* The loop takes a coroutine off the queue: what is left of the invariant, if the
\* start it runs is the only one that changes.
LEMMA DequeueKeeps ==
    ASSUME IInv, NEW item \in Clicks \cup {Stop}, Dequeue(item),
           \A d \in Clicks : start'[d] = start[d] \/ d = item,
           item \in Clicks => start'[item] # "none"
    PROVE  /\ HandlerInv' /\ LastHandler'
           /\ item \in Clicks => start[item] = "queued"
           /\ queue # <<>> /\ queue[Len(queue)] # item =>
                  queue' # <<>> /\ queue'[Len(queue')] = queue[Len(queue)]
           /\ queue[Len(queue)] = item /\ item # Stop => queue' = <<>>
           /\ Len(queue) # 1 => queue' # <<>> /\ queue'[Len(queue')] = queue[Len(queue)]
           /\ Len(queue) = 1 => queue' = <<>> /\ queue[Len(queue)] = item
<1> USE DatagramAssumption DEF Clicks, Stop
<1>1. /\ TypeOK /\ HandlerInv
      /\ queue # <<>> /\ queue' = Tail(queue) /\ Head(queue) = item
      /\ UNCHANGED <<clicks, handler, seen, running, button, port, pace>>
  BY DEF IInv, Dequeue
<1>2. /\ Len(queue) \in Nat \ {0} /\ DOMAIN queue = 1..Len(queue)
      /\ queue[1] = item
      /\ DOMAIN queue' = 1..(Len(queue) - 1)
      /\ \A k \in 1..(Len(queue) - 1) : queue'[k] = queue[k + 1]
  BY <1>1, TailOfQueue DEF TypeOK
<1>3. /\ Len(queue) = 1 => queue' = <<>>
      /\ Len(queue) # 1 => queue' # <<>> /\ queue'[Len(queue')] = queue[Len(queue)]
  BY <1>1, LastOfTail DEF TypeOK
<1>4. item \in Clicks => start[item] = "queued" /\ item <= clicks /\ handler[item] = "done"
  <2>1. 1 \in DOMAIN queue
    BY <1>2
  <2> QED BY <1>1, <1>2, <2>1 DEF HandlerInv
<1>5. item # Stop => \A k \in DOMAIN queue : queue[k] = item => k = 1
  <2>1. 1 \in DOMAIN queue
    BY <1>2
  <2> QED BY <1>1, <1>2, <2>1, Zenon DEF HandlerInv
<1>6. HandlerInv'
  <2>1. \A d \in Clicks : d > clicks => handler[d] = "none" /\ start'[d] = "none"
    BY <1>1, <1>4 DEF HandlerInv, TypeOK
  <2>2. \A d \in Clicks : start'[d] # "none" => handler[d] = "done"
    BY <1>1, <1>4 DEF HandlerInv
  <2>3. ASSUME NEW k \in DOMAIN queue', queue'[k] # Stop
        PROVE  queue'[k] <= clicks /\ start'[queue'[k]] = "queued"
    <3>1. k + 1 \in DOMAIN queue /\ queue'[k] = queue[k + 1] /\ k + 1 # 1
      BY <1>2
    <3>2. queue[k + 1] <= clicks /\ start[queue[k + 1]] = "queued"
      BY <1>1, <2>3, <3>1 DEF HandlerInv
    <3>3. queue[k + 1] \in Clicks
      BY <1>1, <2>3, <3>1 DEF TypeOK
    <3>4. queue[k + 1] # item
      BY <1>5, <2>3, <3>1
    <3> QED BY <3>1, <3>2, <3>3, <3>4
  <2>4. ASSUME NEW k \in DOMAIN queue', NEW l \in DOMAIN queue',
               queue'[k] = queue'[l], queue'[k] # Stop
        PROVE  k = l
    <3>1. k + 1 \in DOMAIN queue /\ l + 1 \in DOMAIN queue /\ k \in Nat /\ l \in Nat
      BY <1>2
    <3>2. queue[k + 1] = queue[l + 1] /\ queue[k + 1] # Stop
      BY <1>2, <2>4
    <3>3. k + 1 = l + 1
      BY <1>1, <3>1, <3>2 DEF HandlerInv
    <3> QED BY <3>1, <3>3
  <2> QED BY <1>1, <2>1, <2>2, <2>3, <2>4 DEF HandlerInv
<1>7. LastHandler'
  BY <1>1 DEF IInv, LastHandler
<1>8. queue[Len(queue)] = item /\ item # Stop => Len(queue) = 1
  BY <1>2, <1>5
<1>9. queue[Len(queue)] # item => Len(queue) # 1
  BY <1>2
<1> QED BY <1>1, <1>2, <1>3, <1>4, <1>6, <1>7, <1>8, <1>9

\* What a user slower than the loop has left in the queue.
LEMMA PatientDequeue ==
    ASSUME IInv, pace = "patient", NEW item \in Clicks \cup {Stop}, Dequeue(item)
    PROVE  /\ clicks > 0 /\ clicks \in Clicks /\ handler[clicks] = "done" /\ queue' = <<>>
           /\ item = Stop => ~button
           /\ item # Stop => button /\ item = clicks /\ Shut
           /\ \A d \in Clicks : start[d] # "binding"
<1> USE DatagramAssumption DEF Clicks, Stop
<1>1. /\ TypeOK /\ HandlerInv /\ Calm
      /\ queue # <<>> /\ queue' = Tail(queue) /\ Head(queue) = item
  BY DEF IInv, Dequeue
<1>2. clicks > 0 /\ clicks \in Clicks /\ handler[clicks] = "done"
  BY <1>1 DEF Calm, TypeOK
<1>3. CASE button
  <2>1. queue = <<clicks>> /\ Shut
    BY <1>1, <1>2, <1>3 DEF Calm
  <2>2. queue' = <<>> /\ item = clicks
    BY <1>1, <2>1
  <2>3. \A d \in Clicks : start[d] # "binding"
    <3>1. 1 \in DOMAIN queue /\ queue[1] = clicks
      BY <2>1
    <3>2. start[clicks] = "queued"
      BY <1>1, <1>2, <3>1 DEF HandlerInv
    <3> QED BY <1>1, <3>2 DEF Calm
  <2> QED BY <1>2, <1>3, <2>1, <2>2, <2>3
<1>4. CASE ~button
  <2>1. queue = <<Stop>>
    BY <1>1, <1>2, <1>4 DEF Calm
  <2>2. queue' = <<>> /\ item = Stop
    BY <1>1, <2>1
  <2>3. \A d \in Clicks : start[d] # "binding"
    BY <1>1, <1>4 DEF Calm
  <2> QED BY <1>2, <1>4, <2>2, <2>3
<1> QED BY <1>3, <1>4

LEMMA RunStopStep ==
    ASSUME IInv, RunStop, TypeOK'
    PROVE  IInv'
<1> USE DatagramAssumption
<1>1. TypeOK /\ LastStart /\ NoOrphan
  BY DEF IInv
<1>2. /\ Dequeue(Stop) /\ queue # <<>>
      /\ UNCHANGED <<clicks, handler, seen, running, button, port, start, transport, pace>>
  BY DEF RunStop, Dequeue
<1>3. Stop \notin Clicks /\ Stop \in Clicks \cup {Stop}
  BY DEF Stop, Clicks
<1>4. /\ HandlerInv' /\ LastHandler'
      /\ queue[Len(queue)] # Stop => queue' # <<>> /\ queue'[Len(queue')] = queue[Len(queue)]
  <2>1. \A d \in Clicks : start'[d] = start[d] \/ d = Stop
    BY <1>2
  <2> QED BY <1>2, <1>3, <2>1, DequeueKeeps
<1>5. \A d \in Clicks : Open(d)' => Open(d) /\ d # transport
  <2>1. CASE transport # 0 /\ Open(transport)
    <3>1. endpoint' = [endpoint EXCEPT ![transport].st = "closing"]
      BY <2>1 DEF RunStop
    <3>2. transport \in Clicks /\ endpoint \in [Clicks -> [st : EndpointStates, port : Ports]]
      BY <1>1, <2>1 DEF TypeOK, Clicks
    <3> QED BY <3>1, <3>2 DEF Open
  <2>2. CASE ~(transport # 0 /\ Open(transport))
    <3>1. endpoint' = endpoint
      BY <2>2 DEF RunStop
    <3>2. \A d \in Clicks : d # 0
      BY DEF Clicks
    <3> QED BY <2>2, <3>1, <3>2 DEF Open
  <2> QED BY <2>1, <2>2
<1>6. LastStart'
  <2> SUFFICES ASSUME pace # "overlapping", button, clicks > 0, handler[clicks] = "done"
               PROVE  \/ start[clicks] = "invalid"
                      \/ start[clicks] = "queued" /\ queue' # <<>>
                         /\ queue'[Len(queue')] = clicks
    BY <1>2, Zenon DEF LastStart
  <2>1. \/ start[clicks] = "invalid"
        \/ start[clicks] = "queued" /\ queue[Len(queue)] = clicks
    BY <1>1, <1>2, Zenon DEF LastStart
  <2>2. clicks # Stop
    BY <1>1 DEF Stop, TypeOK
  <2> QED BY <1>4, <2>1, <2>2, Zenon
<1>7. ASSUME pace = "patient"
      PROVE  /\ clicks > 0 /\ handler[clicks] = "done" /\ queue' = <<>> /\ ~button /\ Shut'
             /\ \A d \in Clicks : start[d] # "binding"
  <2>1. /\ clicks > 0 /\ handler[clicks] = "done" /\ queue' = <<>> /\ ~button
        /\ \A d \in Clicks : start[d] # "binding"
    BY <1>2, <1>3, <1>7, PatientDequeue
  <2>2. Shut'
    BY <1>1, <1>5, <1>7, <2>1, Zenon DEF NoOrphan, Shut
  <2> QED BY <2>1, <2>2
<1>8. NoOrphan'
  BY <1>2, <1>7, Zenon DEF NoOrphan, Shut
<1>9. Calm'
  <2> SUFFICES ASSUME pace = "patient" PROVE Calm'
    BY <1>2 DEF Calm
  <2> QED BY <1>2, <1>7 DEF Calm
<1> QED BY <1>4, <1>6, <1>8, <1>9 DEF IInv

\* A start that is run is no stop: if it was asked for last, it was the last in the
\* queue, and it must leave what a start that came last should leave.
LEMMA RunStartStep ==
    ASSUME IInv, TypeOK', NEW c \in Clicks, Dequeue(c), transport' = transport,
           NEW to \in {"failed", "binding"}, start' = [start EXCEPT ![c] = to],
           \A d \in Clicks : d # c => (Open(d)' <=> Open(d)),
           Open(c)' <=> (Open(c) \/ to = "binding")
    PROVE  IInv'
<1> USE DatagramAssumption
<1>1. /\ TypeOK /\ HandlerInv /\ LastStart /\ NoOrphan /\ queue # <<>>
      /\ UNCHANGED <<clicks, handler, seen, running, button, port, pace>>
  BY DEF IInv, Dequeue
<1>2. c # Stop /\ c \in Clicks \cup {Stop}
  BY DEF Stop, Clicks
<1>3. start'[c] = to /\ \A d \in Clicks : d # c => start'[d] = start[d]
  BY <1>1 DEF TypeOK
<1>4. /\ HandlerInv' /\ LastHandler'
      /\ start[c] = "queued"
      /\ queue[Len(queue)] # c => queue' # <<>> /\ queue'[Len(queue')] = queue[Len(queue)]
      /\ queue[Len(queue)] = c => queue' = <<>>
  <2>1. \A d \in Clicks : start'[d] = start[d] \/ d = c
    BY <1>3
  <2>2. start'[c] # "none"
    BY <1>3
  <2> QED BY <1>1, <1>2, <2>1, <2>2, DequeueKeeps
<1>5. LastStart'
  <2> SUFFICES ASSUME pace # "overlapping", button, clicks > 0, handler[clicks] = "done"
               PROVE  LastStart'
    BY <1>1, Zenon DEF LastStart
  <2>1. clicks \in Clicks
    BY <1>1 DEF TypeOK, Clicks
  <2>2. \/ start[clicks] = "invalid"
        \/ start[clicks] = "queued" /\ queue[Len(queue)] = clicks
    BY <1>1, Zenon DEF LastStart
  <2>3. CASE clicks = c
    <3>1. queue' = <<>> /\ start'[clicks'] = to
      BY <1>1, <1>3, <1>4, <2>2, <2>3
    <3>2. CASE to = "failed"
      BY <3>1, <3>2, Zenon DEF LastStart
    <3>3. CASE to = "binding"
      <4>1. Open(c)' /\ clicks' = c
        BY <1>1, <2>3, <3>3
      <4>2. Open(clicks)'
        BY <4>1 DEF Open
      <4> QED BY <3>1, <3>3, <4>2, Zenon DEF LastStart
    <3> QED BY <3>2, <3>3
  <2>4. CASE clicks # c
    <3>1. start'[clicks'] = start[clicks]
      BY <1>1, <1>3, <2>1, <2>4
    <3>2. queue[Len(queue)] = clicks => queue' # <<>> /\ queue'[Len(queue')] = clicks'
      BY <1>1, <1>4, <2>4
    <3> QED BY <2>2, <3>1, <3>2, Zenon DEF LastStart
  <2> QED BY <2>3, <2>4
<1>6. ASSUME pace = "patient"
      PROVE  /\ clicks > 0 /\ handler[clicks] = "done" /\ queue' = <<>> /\ button
             /\ c = clicks /\ Shut /\ \A d \in Clicks : start[d] # "binding"
  BY <1>2, <1>6, PatientDequeue
<1>7. ASSUME pace = "patient", NEW d \in Clicks, Open(d)'
      PROVE  d = c /\ start'[d] = "binding"
  <2>1. ~Open(d) /\ ~Open(c)
    BY <1>6, <1>7 DEF Shut
  <2> QED BY <1>3, <1>7, <2>1
<1>8. NoOrphan'
  BY <1>1, <1>7, Zenon DEF NoOrphan
<1>9. Calm'
  <2> SUFFICES ASSUME pace = "patient" PROVE Calm'
    BY <1>1 DEF Calm
  <2>1. ASSUME NEW d \in Clicks, start'[d] = "binding"
        PROVE  /\ d = clicks' /\ handler'[d] = "done" /\ button'
               /\ \A b \in Clicks : Open(b)' => b = d
    <3>1. d = c
      BY <1>3, <1>6, <2>1
    <3> QED BY <1>1, <1>6, <1>7, <3>1
  <2>2. /\ clicks' # 0 /\ handler'[clicks'] = "done" /\ queue' = <<>> /\ button'
    BY <1>1, <1>6
  <2> QED BY <2>1, <2>2, Zenon DEF Calm
<1> QED BY <1>4, <1>5, <1>8, <1>9 DEF IInv

LEMMA ResumeStartStep ==
    ASSUME IInv, NEW c \in Clicks, ResumeStart(c), TypeOK'
    PROVE  IInv'
<1> USE DatagramAssumption
<1>1. TypeOK /\ HandlerInv /\ LastHandler /\ LastStart /\ NoOrphan /\ Calm
  BY DEF IInv
<1>2. /\ UNCHANGED <<clicks, handler, seen, running, button, port, queue, endpoint, pace>>
      /\ start[c] = "binding" /\ transport' = c
  BY DEF ResumeStart
<1>3. start'[c] = "done" /\ \A d \in Clicks : d # c => start'[d] = start[d]
  BY <1>1 DEF ResumeStart, TypeOK
<1>4. (\A d \in Clicks : Open(d)' <=> Open(d)) /\ (Shut' <=> Shut)
  BY <1>2, Zenon DEF Open, Shut
<1>5. HandlerInv'
  <2>1. ASSUME NEW k \in DOMAIN queue, queue[k] # Stop
        PROVE  queue[k] <= clicks /\ start'[queue[k]] = "queued"
    <3>1. queue[k] <= clicks /\ start[queue[k]] = "queued"
      BY <1>1, <2>1, Zenon DEF HandlerInv
    <3>2. queue[k] \in Clicks
      BY <1>1, <2>1 DEF TypeOK, Clicks, Stop
    <3> QED BY <1>2, <1>3, <3>1, <3>2
  <2>2. \A d \in Clicks : d > clicks => handler[d] = "none" /\ start'[d] = "none"
    BY <1>1, <1>2, <1>3 DEF HandlerInv
  <2>3. \A d \in Clicks : start'[d] # "none" => handler[d] = "done"
    BY <1>1, <1>2, <1>3 DEF HandlerInv
  <2>4. \A k, l \in DOMAIN queue : queue[k] = queue[l] /\ queue[k] # Stop => k = l
    BY <1>1, Zenon DEF HandlerInv
  <2> QED BY <1>2, <2>1, <2>2, <2>3, <2>4 DEF HandlerInv
<1>6. LastHandler'
  BY <1>1, <1>2 DEF LastHandler
<1>7. LastStart'
  <2> SUFFICES ASSUME pace # "overlapping", button, clicks > 0, handler[clicks] = "done"
               PROVE  LastStart'
    BY <1>2, Zenon DEF LastStart
  <2>1. clicks \in Clicks
    BY <1>1 DEF TypeOK, Clicks
  <2>2. Open(clicks)' <=> Open(clicks)
    BY <1>2 DEF Open
  <2>3. CASE c = clicks
    <3>1. queue' = <<>> /\ Open(clicks)' /\ start'[clicks'] = "done"
      BY <1>1, <1>2, <1>3, <2>2, <2>3 DEF LastStart
    <3> QED BY <3>1, Zenon DEF LastStart
  <2>4. CASE c # clicks
    <3>1. start'[clicks'] = start[clicks]
      BY <1>2, <1>3, <2>1, <2>4
    <3> QED BY <1>1, <1>2, <2>2, <3>1, Zenon DEF LastStart
  <2> QED BY <2>3, <2>4
<1>8. ASSUME pace = "patient"
      PROVE  /\ clicks = c /\ handler[clicks] = "done" /\ button
             /\ \A d \in Clicks : Open(d) => d = c
             /\ queue = <<>> \/ (queue = <<clicks>> /\ Shut)
             /\ \A d \in Clicks : start'[d] # "binding"
  <2>1. /\ clicks = c /\ handler[clicks] = "done" /\ button
        /\ \A d \in Clicks : Open(d) => d = c
    BY <1>1, <1>2, <1>8, Zenon DEF Calm
  <2>2. queue = <<>> \/ (queue = <<clicks>> /\ Shut)
    BY <1>1, <1>8, <2>1 DEF Calm, Clicks
  <2>3. \A d \in Clicks : start'[d] # "binding"
    BY <1>1, <1>3, <1>8, <2>1 DEF Calm
  <2> QED BY <2>1, <2>2, <2>3
<1>9. NoOrphan'
  BY <1>2, <1>4, <1>8, Zenon DEF NoOrphan
<1>10. Calm'
  <2> SUFFICES ASSUME pace = "patient" PROVE Calm'
    BY <1>2 DEF Calm
  <2>1. clicks' # 0
    BY <1>2, <1>8 DEF Clicks
  <2> QED BY <1>2, <1>4, <1>8, <2>1 DEF Calm
<1> QED BY <1>5, <1>6, <1>7, <1>9, <1>10 DEF IInv

\* Closing a socket that is not open any more, or doing nothing at all.
LEMMA CloseSocketStep ==
    ASSUME IInv, TypeOK', \A d \in Clicks : Open(d)' <=> Open(d),
           UNCHANGED <<clicks, handler, seen, running, button, port, queue, start,
                       transport, pace>>
    PROVE  IInv'
<1>1. HandlerInv'
  BY DEF IInv, HandlerInv
<1>2. LastHandler'
  BY DEF IInv, LastHandler
<1>3. LastStart'
  <2> SUFFICES ASSUME clicks > 0 PROVE LastStart'
    BY DEF LastStart
  <2>1. clicks \in Clicks
    BY DEF IInv, TypeOK, Clicks
  <2>2. Open(clicks)' <=> Open(clicks)
    BY <2>1 DEF Open
  <2> QED BY <2>2, Zenon DEF IInv, LastStart
<1>4. NoOrphan'
  BY Zenon DEF IInv, NoOrphan
<1>5. Shut' <=> Shut
  BY Zenon DEF Shut
<1>6. Calm'
  BY <1>5, Zenon DEF IInv, Calm
<1> QED BY <1>1, <1>2, <1>3, <1>4, <1>6 DEF IInv

\* The inductive invariant holds: handlers hand over each start once, the last one is
\* last unless handlers overlapped, and for a user slower than the loop it has one
\* thing to do at a time (syslog_tab.py:143-159, main.py:72-104, syslog_server.py:52-63,
\* tftp_server.py:102-112).
THEOREM InvariantCorrect == Spec => []IInv
<1>1. IInv /\ [Next]_vars => IInv'
  <2> SUFFICES ASSUME IInv, [Next]_vars PROVE IInv'
    OBVIOUS
  <2>1. TypeOK /\ TypeOK'
    BY TypeStep DEF IInv
  <2>2. CASE Click
    BY <2>1, <2>2, ClickStep
  <2>3. ASSUME NEW c \in Clicks, Handle(c) PROVE IInv'
    BY <2>1, <2>3, TurnStep, LabelStep, EnterPortStep, RefusePortStep, SubmitStep DEF Handle
  <2>4. CASE RunStop
    BY <2>1, <2>4, RunStopStep
  <2>5. ASSUME NEW c \in Clicks, BeginStart(c) PROVE IInv'
    <3>1. Open(c)' /\ \A d \in Clicks : d # c => (Open(d)' <=> Open(d))
      BY <2>1, <2>5 DEF BeginStart, TypeOK, Open
    <3>2. /\ Dequeue(c) /\ transport' = transport
          /\ start' = [start EXCEPT ![c] = "binding"]
      BY <2>5 DEF BeginStart
    <3> QED BY <2>1, <3>1, <3>2, RunStartStep
  <2>6. ASSUME NEW c \in Clicks, FailStart(c) PROVE IInv'
    <3>1. \A d \in Clicks : Open(d)' <=> Open(d)
      BY <2>6 DEF FailStart, Open
    <3>2. /\ Dequeue(c) /\ transport' = transport
          /\ start' = [start EXCEPT ![c] = "failed"]
      BY <2>6 DEF FailStart
    <3> QED BY <2>1, <3>1, <3>2, RunStartStep
  <2>7. ASSUME NEW c \in Clicks, ResumeStart(c) PROVE IInv'
    BY <2>1, <2>7, ResumeStartStep
  <2>8. ASSUME NEW c \in Clicks, CloseSocket(c) PROVE IInv'
    <3>1. \A d \in Clicks : Open(d)' <=> Open(d)
      BY <2>1, <2>8 DEF CloseSocket, TypeOK, Open
    <3> QED BY <2>1, <2>8, <3>1, CloseSocketStep DEF CloseSocket
  <2>9. CASE UNCHANGED vars
    <3>1. \A d \in Clicks : Open(d)' <=> Open(d)
      BY <2>9 DEF vars, Open
    <3> QED BY <2>1, <2>9, <3>1, CloseSocketStep DEF vars
  <2> QED BY <2>2, <2>3, <2>4, <2>5, <2>6, <2>7, <2>8, <2>9 DEF Next, Loop
<1> QED BY IInvInit, <1>1, PTL DEF Spec

\* When all is settled, the handler of the last click is done.
LEMMA IdleFacts ==
    ASSUME IInv, Idle, pace # "overlapping"
    PROVE  /\ queue = <<>>
           /\ clicks = 0 => ~button
           /\ clicks # 0 => clicks > 0 /\ clicks \in Clicks /\ handler[clicks] = "done"
BY DatagramAssumption DEF IInv, TypeOK, LastHandler, Idle, Handling, Clicks

\* However slow the loop is, no start is dropped silently, unless the handlers of two
\* clicks overlapped (syslog_tab.py:143-159, tftp_tab.py:93-109, main.py:72-104).
THEOREM StartedOrReportedCorrect == Spec => []StartedOrReported
<1>1. IInv => StartedOrReported
  <2> SUFFICES ASSUME IInv, pace # "overlapping", Idle, button
               PROVE  start[clicks] \in {"invalid", "failed"} \/ Open(clicks)
    BY DEF StartedOrReported
  <2>1. queue = <<>> /\ clicks > 0 /\ handler[clicks] = "done"
    BY IdleFacts
  <2> QED BY <2>1 DEF IInv, LastStart
<1> QED BY InvariantCorrect, <1>1, PTL

\* For a user slower than the loop, a server that the tab says is stopped has
\* its port closed (syslog_server.py:60-63, tftp_server.py:109-112).
THEOREM StopClosesCorrect == Spec => []StopCloses
<1>1. IInv => StopCloses
  <2> SUFFICES ASSUME IInv, pace = "patient", ~button, Idle PROVE Shut
    BY DEF StopCloses
  <2>1. /\ queue = <<>> /\ queue # <<Stop>>
        /\ clicks # 0 => clicks > 0 /\ handler[clicks] = "done"
    BY IdleFacts
  <2> QED BY <2>1 DEF IInv, Calm
<1> QED BY InvariantCorrect, <1>1, PTL

\* For a user slower than the loop, no port is open that no stop can reach
\* (syslog_server.py:52-63, tftp_server.py:102-112).
THEOREM NoOrphanCorrect == Spec => []NoOrphan
<1>1. IInv => NoOrphan
  BY DEF IInv
<1> QED BY InvariantCorrect, <1>1, PTL
=============================================================================

-------------------------- MODULE FtpServerProofs --------------------------
EXTENDS FtpServer, SequenceTheorems, TLAPS

\* A coroutine is queued.
LEMMA AppendEffect ==
    ASSUME TypeOK, NEW e \in 0..MaxStarts, queue' = Append(queue, e)
    PROVE  /\ queue' \in Seq(0..MaxStarts)
           /\ Len(queue) \in Nat /\ DOMAIN queue = 1..Len(queue)
           /\ DOMAIN queue' = 1..(Len(queue) + 1)
           /\ queue'[Len(queue) + 1] = e
           /\ \A k \in 1..Len(queue) : queue'[k] = queue[k]
<1>1. queue \in Seq(0..MaxStarts)
  BY DEF TypeOK
<1>2. /\ queue' \in Seq(0..MaxStarts) /\ Len(queue') = Len(queue) + 1
      /\ queue'[Len(queue) + 1] = e /\ \A k \in 1..Len(queue) : queue'[k] = queue[k]
  BY <1>1, AppendProperties
<1> QED BY <1>1, <1>2, LenProperties

\* The loop takes a coroutine off.
LEMMA TailEffect ==
    ASSUME TypeOK, queue # <<>>, queue' = Tail(queue)
    PROVE  /\ queue' \in Seq(0..MaxStarts)
           /\ Len(queue) \in Nat \ {0} /\ DOMAIN queue = 1..Len(queue)
           /\ DOMAIN queue' = 1..(Len(queue) - 1)
           /\ Head(queue) = queue[1] /\ Head(queue) \in 0..MaxStarts
           /\ \A k \in 1..(Len(queue) - 1) : queue'[k] = queue[k + 1]
<1>1. queue \in Seq(0..MaxStarts)
  BY DEF TypeOK
<1>2. Len(queue) \in Nat \ {0} /\ Head(queue) = queue[1]
  BY <1>1, EmptySeq, HeadTailProperties
<1>3. /\ queue' \in Seq(0..MaxStarts) /\ Len(queue') = Len(queue) - 1
      /\ Head(queue) \in 0..MaxStarts
      /\ \A k \in 1..(Len(queue) - 1) : queue'[k] = queue[k + 1]
  BY <1>1, HeadTailProperties
<1> QED BY <1>1, <1>2, <1>3, LenProperties

-----------------------------------------------------------------------------
LEMMA TypeStep == TypeOK /\ [Next]_vars => TypeOK'
<1> SUFFICES ASSUME TypeOK, [Next]_vars PROVE TypeOK'
  OBVIOUS
<1>1. hasty' \in BOOLEAN
  <2>1. CASE hasty' = hasty
    BY <2>1 DEF TypeOK
  <2>2. CASE hasty' = (hasty \/ ~Settled)
    BY <2>2, Zenon
  <2> QED BY <2>1, <2>2
          DEF Next, vars, ToggleOn, SubmitStart, ToggleOff, Start, CloseAll, ForgetServer,
              Thread, MakeAuthorizer, Publish, OpenPort, StoreServer, SetCallback,
              ServeForever, SetupFails, LeaveServeForever
<1> DEFINE Typed == /\ gui \in {"off", "writing", "on"}
                    /\ starts \in 0..MaxStarts
                    /\ entered \in [Ids -> Settings \cup {NoSettings}]
                    /\ attributes \in Settings \cup {NoSettings}
                    /\ queue \in Seq(0..MaxStarts)
                    /\ thread \in [Ids -> ThreadStates]
                    /\ local \in [Ids -> Settings \cup {NoSettings}]
                    /\ authorizer \in Settings \cup {NoSettings}
                    /\ serves \in [Ids -> 0..MaxStarts]
                    /\ socket \in [Ids -> {"none", "open", "closed"}]
                    /\ server \in 0..MaxStarts
                    /\ stopping \in BOOLEAN
<1>2. Typed
  BY DEF TypeOK
<1>3. Typed'
  <2>1. ASSUME NEW s \in Settings, ToggleOn(s) PROVE Typed'
    <3>1. starts + 1 \in Ids
      BY <1>2, <2>1, FtpAssumption DEF ToggleOn, Ids
    <3> QED BY <1>2, <2>1, <3>1 DEF ToggleOn, Ids
  <2>2. CASE SubmitStart
    <3>1. queue' \in Seq(0..MaxStarts)
      BY <1>2, <2>2, AppendEffect DEF SubmitStart
    <3> QED BY <1>2, <2>2, <3>1 DEF SubmitStart
  <2>3. CASE ToggleOff
    <3>1. queue' \in Seq(0..MaxStarts)
      BY <2>3, AppendEffect, FtpAssumption DEF ToggleOff, Stop
    <3> QED BY <1>2, <2>3, <3>1 DEF ToggleOff
  <2>4. CASE CloseAll
    <3>1. queue' \in Seq(0..MaxStarts)
      BY <2>4, TailEffect DEF CloseAll
    <3>2. socket' \in [Ids -> {"none", "open", "closed"}] /\ stopping' \in BOOLEAN
      BY <1>2, <2>4 DEF CloseAll
    <3> QED BY <1>2, <2>4, <3>1, <3>2 DEF CloseAll
  <2>5. CASE ForgetServer
    <3>1. 0 \in 0..MaxStarts
      BY FtpAssumption
    <3> QED BY <1>2, <2>5, <3>1 DEF ForgetServer
  <2>6. ASSUME NEW i \in Ids, Start(i) PROVE Typed'
    <3>1. queue' \in Seq(0..MaxStarts)
      BY <2>6, TailEffect DEF Start
    <3> QED BY <1>2, <2>6, <3>1 DEF Start, ThreadStates, BeforeSocket, AfterStore
  <2>7. ASSUME NEW i \in Ids, Thread(i) PROVE Typed'
    <3>1. i \in 0..MaxStarts
      BY FtpAssumption DEF Ids
    <3> QED BY <1>2, <2>7, <3>1
            DEF Thread, MakeAuthorizer, Publish, OpenPort, StoreServer, SetCallback,
                ServeForever, SetupFails, LeaveServeForever, Goto, ThreadStates, BeforeSocket,
                AfterStore
  <2>8. CASE UNCHANGED vars
    BY <1>2, <2>8 DEF vars
  <2> QED BY <2>1, <2>2, <2>3, <2>4, <2>5, <2>6, <2>7, <2>8 DEF Next
<1> QED BY <1>1, <1>3 DEF TypeOK

-----------------------------------------------------------------------------
\* A start is queued before its thread is spawned, and what the thread does comes in
\* the order of its states.
LEMMA SocketStep == IInv /\ [Next]_vars => SocketInv'
<1> SUFFICES ASSUME IInv, [Next]_vars PROVE SocketInv'
  OBVIOUS
<1>1. TypeOK /\ SocketInv /\ QueueInv
  BY DEF IInv
<1>2. /\ thread \in [Ids -> ThreadStates] /\ socket \in [Ids -> {"none", "open", "closed"}]
      /\ serves \in [Ids -> 0..MaxStarts]
      /\ server \in 0..MaxStarts /\ (server # 0 => server \in Ids) /\ 0 \notin Ids
  BY <1>1, FtpAssumption DEF TypeOK, Ids
<1>3. CASE UNCHANGED <<thread, serves, socket, server>>
  BY <1>1, <1>3 DEF SocketInv
<1>4. CASE CloseAll
  <2>1. UNCHANGED <<thread, serves, server>>
    BY <1>4 DEF CloseAll
  <2>2. \A i \in Ids : thread[i] \in BeforeSocket => ~Open(i) /\ i # server
    BY <1>1, <1>2 DEF SocketInv, Open, BeforeSocket, AfterStore
  <2>3. \A i \in Ids : thread[i] \in BeforeSocket => socket'[i] = socket[i]
    BY <1>2, <1>4, <2>2 DEF CloseAll
  <2> QED BY <1>1, <2>1, <2>3 DEF SocketInv
<1>5. CASE ForgetServer
  BY <1>1, <1>5 DEF ForgetServer, SocketInv
<1>6. ASSUME NEW i \in Ids, Start(i) PROVE SocketInv'
  <2>1. thread[i] = "none"
    <3>1. 1 \in DOMAIN queue /\ queue[1] = i /\ i # 0
      BY <1>1, <1>2, <1>6, TailEffect DEF Start
    <3> QED BY <1>1, <3>1 DEF QueueInv
  <2>2. /\ thread' = [thread EXCEPT ![i] = "spawned"]
        /\ UNCHANGED <<serves, socket, server>>
    BY <1>6 DEF Start
  <2> QED BY <1>1, <1>2, <2>1, <2>2 DEF SocketInv, BeforeSocket, AfterStore
<1>7. ASSUME NEW i \in Ids, Thread(i) PROVE SocketInv'
  <2> USE <1>1, <1>2, <1>7 DEF SocketInv, BeforeSocket, AfterStore, Goto
  <2>1. CASE MakeAuthorizer(i) \/ Publish(i)
    BY <2>1 DEF MakeAuthorizer, Publish
  <2>2. CASE OpenPort(i)
    BY <2>2 DEF OpenPort
  <2>3. CASE StoreServer(i)
    BY <2>3 DEF StoreServer
  <2>4. CASE SetCallback(i)
    BY <2>4 DEF SetCallback
  <2>5. CASE ServeForever(i)
    BY <2>5 DEF ServeForever
  <2>6. CASE SetupFails(i)
    BY <2>6 DEF SetupFails
  <2>7. CASE LeaveServeForever(i)
    BY <2>7 DEF LeaveServeForever
  <2> QED BY <2>1, <2>2, <2>3, <2>4, <2>5, <2>6, <2>7 DEF Thread
<1> QED BY <1>3, <1>4, <1>5, <1>6, <1>7
        DEF Next, vars, ToggleOn, SubmitStart, ToggleOff

-----------------------------------------------------------------------------
\* Every start is in the queue once, or has a thread that came from there.
LEMMA QueueStep == IInv /\ [Next]_vars => QueueInv'
<1> SUFFICES ASSUME IInv, [Next]_vars PROVE QueueInv'
  OBVIOUS
<1>1. TypeOK /\ QueueInv
  BY DEF IInv
<1>2. /\ thread \in [Ids -> ThreadStates] /\ socket \in [Ids -> {"none", "open", "closed"}]
      /\ starts \in Nat /\ server \in 0..MaxStarts
      /\ Len(queue) \in Nat /\ DOMAIN queue = 1..Len(queue)
      /\ \A k \in 1..Len(queue) : queue[k] \in Nat
      /\ Ids = 1..MaxStarts /\ MaxStarts \in Nat \ {0}
  BY <1>1, FtpAssumption, LenProperties DEF TypeOK, Ids
<1>3. CASE UNCHANGED <<queue, thread, starts, gui>>
  BY <1>1, <1>3 DEF QueueInv
<1>4. ASSUME NEW s \in Settings, ToggleOn(s) PROVE QueueInv'
  <2>1. /\ UNCHANGED <<queue, thread>> /\ gui' = "writing"
        /\ starts' = starts + 1 /\ starts + 1 \in Ids
    BY <1>2, <1>4 DEF ToggleOn
  <2>2. \A k \in DOMAIN queue : queue[k] <= starts' /\ queue[k] # starts'
    BY <1>1, <1>2, <2>1 DEF QueueInv
  <2>3. thread[starts'] = "none" /\ starts' > 0
    BY <1>1, <1>2, <2>1 DEF QueueInv
  <2>4. \A i \in Ids : i > starts' => thread[i] = "none"
    BY <1>1, <1>2, <2>1 DEF QueueInv
  <2> QED BY <1>1, <2>1, <2>2, <2>3, <2>4 DEF QueueInv
<1>5. CASE SubmitStart \/ ToggleOff
  <2>1. CASE queue' = queue
    BY <1>1, <1>5, <2>1 DEF SubmitStart, ToggleOff, QueueInv
  <2>2. CASE queue' # queue
    <3>1. PICK e \in 0..MaxStarts :
              /\ queue' = Append(queue, e)
              /\ e <= starts
              /\ e # 0 => thread[e] = "none" /\ \A k \in DOMAIN queue : queue[k] # e
      BY <1>1, <1>2, <1>5, <2>2 DEF SubmitStart, ToggleOff, Stop, QueueInv, TypeOK
    <3>2. /\ UNCHANGED <<thread, starts>> /\ gui' \in {"on", "off"}
          /\ gui # "off"
      BY <1>5 DEF SubmitStart, ToggleOff
    <3>3. /\ DOMAIN queue' = 1..(Len(queue) + 1)
          /\ queue'[Len(queue) + 1] = e
          /\ \A k \in 1..Len(queue) : queue'[k] = queue[k]
      BY <1>1, <3>1, AppendEffect
    <3>4. \A k \in DOMAIN queue' : k \in DOMAIN queue \/ k = Len(queue) + 1
      BY <1>2, <3>3
    <3>5. \A k \in DOMAIN queue' : queue'[k] <= starts
      BY <1>1, <1>2, <3>1, <3>3, <3>4 DEF QueueInv
    <3>6. \A k \in DOMAIN queue' : queue'[k] # 0 => thread[queue'[k]] = "none"
      BY <1>1, <1>2, <3>1, <3>3, <3>4 DEF QueueInv
    <3>7. \A k, l \in DOMAIN queue' : queue'[k] = queue'[l] /\ queue'[k] # 0 => k = l
      BY <1>1, <1>2, <3>1, <3>3, <3>4 DEF QueueInv
    <3> QED BY <1>1, <3>2, <3>5, <3>6, <3>7 DEF QueueInv
  <2> QED BY <2>1, <2>2
<1>6. ASSUME queue # <<>>, queue' = Tail(queue)
      PROVE  /\ DOMAIN queue' = 1..(Len(queue) - 1)
             /\ \A k \in DOMAIN queue' : /\ k + 1 \in DOMAIN queue
                                         /\ queue'[k] = queue[k + 1]
             /\ Head(queue) = queue[1] /\ 1 \in DOMAIN queue
  BY <1>1, <1>2, <1>6, TailEffect
<1>7. CASE CloseAll
  <2>1. queue # <<>> /\ queue' = Tail(queue) /\ UNCHANGED <<thread, starts, gui>>
    BY <1>7 DEF CloseAll
  <2>4. \A k, l \in DOMAIN queue' : queue'[k] = queue'[l] /\ queue'[k] # 0 => k = l
    <3> SUFFICES ASSUME NEW k \in DOMAIN queue', NEW l \in DOMAIN queue',
                        queue'[k] = queue'[l], queue'[k] # 0
                 PROVE  k = l
      OBVIOUS
    <3>1. k + 1 = l + 1
      BY <1>1, <1>6, <2>1 DEF QueueInv
    <3>2. k \in Int /\ l \in Int
      BY <1>6, <2>1
    <3> QED BY <3>1, <3>2
  <2> QED BY <1>1, <1>6, <2>1, <2>4 DEF QueueInv
<1>8. ASSUME NEW i \in Ids, Start(i) PROVE QueueInv'
  <2>1. /\ queue # <<>> /\ queue' = Tail(queue) /\ UNCHANGED <<starts, gui>>
        /\ Head(queue) = i /\ thread' = [thread EXCEPT ![i] = "spawned"]
    BY <1>8 DEF Start
  <2>2. queue[1] = i /\ 1 \in DOMAIN queue /\ i # 0
    BY <1>2, <1>6, <2>1
  <2>3. thread[i] = "none" /\ i <= starts
    BY <1>1, <2>2 DEF QueueInv
  <2>4. \A k \in DOMAIN queue' : queue'[k] # i
    <3> SUFFICES ASSUME NEW k \in DOMAIN queue', queue'[k] = i PROVE FALSE
      OBVIOUS
    <3>1. k + 1 = 1
      BY <1>1, <1>6, <2>1, <2>2 DEF QueueInv
    <3> QED BY <1>6, <2>1, <3>1
  <2>5. \A k, l \in DOMAIN queue' : queue'[k] = queue'[l] /\ queue'[k] # 0 => k = l
    <3> SUFFICES ASSUME NEW k \in DOMAIN queue', NEW l \in DOMAIN queue',
                        queue'[k] = queue'[l], queue'[k] # 0
                 PROVE  k = l
      OBVIOUS
    <3>1. k + 1 = l + 1
      BY <1>1, <1>6, <2>1 DEF QueueInv
    <3>2. k \in Int /\ l \in Int
      BY <1>6, <2>1
    <3> QED BY <3>1, <3>2
  <2>6. \A j \in Ids : j # i => thread'[j] = thread[j]
    BY <1>2, <2>1
  <2>7. \A k \in DOMAIN queue' :
            /\ queue'[k] <= starts
            /\ queue'[k] # 0 => thread'[queue'[k]] = "none"
    <3> SUFFICES ASSUME NEW k \in DOMAIN queue'
                 PROVE  /\ queue'[k] <= starts
                        /\ queue'[k] # 0 => thread'[queue'[k]] = "none"
      OBVIOUS
    <3>1. queue'[k] <= starts /\ (queue'[k] # 0 => thread[queue'[k]] = "none")
      BY <1>1, <1>6, <2>1 DEF QueueInv
    <3> QED BY <1>2, <2>1, <2>4, <3>1
  <2>8. gui = "writing" => i # starts
    BY <1>1, <2>2 DEF QueueInv
  <2>9. gui # "off" => starts > 0
    BY <1>1 DEF QueueInv
  <2>10. gui = "writing" => /\ thread'[starts] = "none"
                            /\ \A k \in DOMAIN queue' : queue'[k] # starts
    BY <1>1, <1>2, <1>6, <2>1, <2>8 DEF QueueInv
  <2>11. \A j \in Ids : j > starts => thread'[j] = "none"
    BY <1>1, <1>2, <2>1, <2>3 DEF QueueInv
  <2> QED BY <2>1, <2>5, <2>7, <2>9, <2>10, <2>11 DEF QueueInv
<1>9. ASSUME NEW i \in Ids, Thread(i) PROVE QueueInv'
  <2>1. /\ UNCHANGED <<queue, starts, gui>> /\ thread[i] # "none"
        /\ thread'[i] # "none" /\ \A j \in Ids : j # i => thread'[j] = thread[j]
    BY <1>2, <1>9
       DEF Thread, MakeAuthorizer, Publish, OpenPort, StoreServer, SetCallback,
           ServeForever, SetupFails, LeaveServeForever, Goto
  <2>2. \A j \in Ids : thread[j] = "none" => thread'[j] = "none"
    BY <2>1
  <2>4. \A k \in DOMAIN queue : queue[k] # 0 => queue[k] \in Ids
    BY <1>1, <1>2, LenProperties DEF TypeOK
  <2>5. gui = "writing" => starts \in Ids
    BY <1>1, <1>2 DEF QueueInv, TypeOK
  <2> QED BY <1>1, <2>1, <2>2, <2>4, <2>5 DEF QueueInv
<1> QED BY <1>3, <1>4, <1>5, <1>7, <1>8, <1>9 DEF Next, vars, ForgetServer

-----------------------------------------------------------------------------
\* The queue of a patient user.
LEMMA ShortQueue ==
    ASSUME NEW e
    PROVE  /\ Append(<<>>, e) = <<e>> /\ Tail(<<e>>) = <<>> /\ Head(<<e>>) = e
           /\ <<e>> # <<>>
OBVIOUS

\* The steps of the user: each finds the last one done.
LEMMA CalmClick ==
    ASSUME IInv, Calm, Settled,
           (\E s \in Settings : ToggleOn(s)) \/ ToggleOff
    PROVE  Calm'
<1>1. TypeOK /\ QueueInv /\ OnlyLatest /\ OwnSettings /\ InTurn /\ SocketInv
  BY DEF IInv, Calm
<1>2. queue = <<>> /\ ~stopping /\ \A i \in Ids : thread[i] \notin Setup
  BY DEF Settled
<1>3. /\ starts \in Nat /\ Ids = 1..MaxStarts /\ MaxStarts \in Nat
      /\ entered \in [Ids -> Settings \cup {NoSettings}]
  BY <1>1, FtpAssumption DEF TypeOK, Ids
<1>4. ASSUME NEW s \in Settings, ToggleOn(s) PROVE Calm'
  <2>1. /\ gui' = "writing" /\ starts' = starts + 1 /\ starts' \in Ids
        /\ entered' = [entered EXCEPT ![starts'] = s] /\ attributes' = s
        /\ UNCHANGED <<queue, thread, local, authorizer, socket, server, stopping, serves>>
    BY <1>3, <1>4 DEF ToggleOn
  <2>2. NoServer /\ gui = "off"
    BY <1>1, <1>2, <1>4 DEF InTurn, ToggleOn
  <2>3. thread[starts'] = "none"
    BY <1>1, <1>3, <2>1 DEF QueueInv
  <2>4. OnlyLatest'
    BY <1>1, <1>2, <2>1, <2>2 DEF OnlyLatest, NoServer, Open
  <2>5. OwnSettings'
    BY <1>3, <2>1, <2>3 DEF OwnSettings
  <2>6. InTurn'
    BY <1>2, <2>1, <2>2 DEF InTurn, NoServer, Open
  <2> QED BY <2>4, <2>5, <2>6 DEF Calm
<1>5. CASE ToggleOff
  <2>1. /\ gui' = "off" /\ queue' = <<Stop>> /\ queue' # <<>>
        /\ UNCHANGED <<starts, entered, attributes, thread, local, authorizer, socket,
                       server, stopping, serves>>
    BY <1>2, <1>5, ShortQueue DEF ToggleOff
  <2>2. OnlyLatest'
    BY <1>1, <2>1 DEF OnlyLatest, Open
  <2>3. OwnSettings'
    BY <1>1, <2>1 DEF OwnSettings
  <2>4. InTurn'
    BY <1>2, <2>1 DEF InTurn
  <2> QED BY <2>2, <2>3, <2>4 DEF Calm
<1> QED BY <1>4, <1>5

\* The start that a click has ready is queued.
LEMMA CalmSubmit ==
    ASSUME IInv, Calm, SubmitStart
    PROVE  Calm'
<1>1. TypeOK /\ QueueInv /\ OnlyLatest /\ OwnSettings /\ InTurn /\ SocketInv
  BY DEF IInv, Calm
<1>2. /\ gui = "writing" /\ gui' = "on" /\ queue = <<>> /\ NoServer
      /\ thread[starts] = "none" /\ ~stopping
  BY <1>1 DEF SubmitStart, InTurn, QueueInv
<1>3. /\ queue' \in {<<>>, <<starts>>}
      /\ UNCHANGED <<starts, entered, attributes, thread, local, authorizer, socket,
                     server, stopping, serves>>
  BY <1>2, ShortQueue DEF SubmitStart
<1>4. OnlyLatest' /\ OwnSettings'
  BY <1>1, <1>3 DEF OnlyLatest, OwnSettings, Open
<1>5. InTurn'
  BY <1>2, <1>3 DEF InTurn
<1> QED BY <1>4, <1>5 DEF Calm

\* The loop starts a thread, closes the server and forgets it.
LEMMA CalmLoop ==
    ASSUME IInv, Calm, CloseAll \/ ForgetServer \/ \E i \in Ids : Start(i)
    PROVE  Calm'
<1>1. TypeOK /\ QueueInv /\ OnlyLatest /\ OwnSettings /\ InTurn /\ SocketInv
  BY DEF IInv, Calm
<1>2. /\ thread \in [Ids -> ThreadStates] /\ socket \in [Ids -> {"none", "open", "closed"}]
      /\ gui \in {"off", "writing", "on"} /\ 0 \notin Ids
      /\ gui # "off" => starts # 0
  BY <1>1, FtpAssumption DEF TypeOK, QueueInv, Ids
<1>3. CASE CloseAll
  <2>1. queue # <<>> /\ Head(queue) = Stop /\ queue' = Tail(queue) /\ ~stopping
    BY <1>3 DEF CloseAll
  <2>2. gui = "off" /\ queue = <<Stop>>
    BY <1>1, <1>2, <2>1, ShortQueue DEF InTurn, Stop
  <2>3. /\ queue' = <<>> /\ \A i \in Ids : thread[i] \notin Setup
        /\ UNCHANGED <<gui, starts, entered, attributes, thread, local, authorizer, server,
                       serves>>
    BY <1>1, <1>3, <2>1, <2>2, ShortQueue DEF InTurn, CloseAll
  <2>4. \A i \in Ids : Open(i) => i = server
    BY <1>1, <2>3 DEF OnlyLatest, Setup
  <2>5. \A i \in Ids : ~Open(i)'
    BY <1>2, <1>3, <2>4 DEF CloseAll, Open
  <2>6. stopping' \/ server = 0
    BY <1>3, <2>1 DEF CloseAll
  <2>7. OnlyLatest' /\ OwnSettings'
    BY <1>1, <2>3, <2>5 DEF OnlyLatest, OwnSettings
  <2>8. InTurn'
    BY <2>2, <2>3, <2>5, <2>6 DEF InTurn, NoServer
  <2> QED BY <2>7, <2>8 DEF Calm
<1>4. CASE ForgetServer
  <2>1. /\ gui = "off" /\ queue = <<>> /\ \A i \in Ids : ~Open(i) /\ thread[i] \notin Setup
    BY <1>1, <1>4 DEF ForgetServer, InTurn
  <2>2. /\ stopping' = FALSE /\ server' = 0
        /\ UNCHANGED <<gui, starts, entered, attributes, queue, thread, local, authorizer,
                       socket, serves>>
    BY <1>4 DEF ForgetServer
  <2>3. OnlyLatest' /\ OwnSettings'
    BY <1>1, <2>1, <2>2 DEF OnlyLatest, OwnSettings, Open
  <2>4. InTurn'
    BY <2>1, <2>2 DEF InTurn, NoServer, Open
  <2> QED BY <2>3, <2>4 DEF Calm
<1>5. ASSUME NEW i \in Ids, Start(i) PROVE Calm'
  <2>1. /\ ~stopping /\ queue # <<>> /\ Head(queue) = i /\ queue' = Tail(queue)
        /\ thread' = [thread EXCEPT ![i] = "spawned"]
        /\ UNCHANGED <<gui, starts, entered, attributes, local, authorizer, socket,
                       server, stopping, serves>>
    BY <1>5 DEF Start
  <2>2. gui = "on" /\ queue = <<starts>> /\ i = starts /\ queue' = <<>>
    BY <1>1, <1>2, <2>1, ShortQueue DEF InTurn, Stop
  <2>3. thread[i] = "none"
    <3>1. 1 \in DOMAIN queue /\ queue[1] = i /\ i # 0
      BY <1>1, <1>2, <2>1, TailEffect
    <3> QED BY <1>1, <3>1 DEF QueueInv
  <2>4. \A j \in Ids : j # i => thread'[j] = thread[j]
    BY <1>2, <2>1
  <2>5. ~Open(i) /\ thread'[i] = "spawned"
    BY <1>1, <1>2, <2>1, <2>3 DEF SocketInv, BeforeSocket, Open
  <2>6. OnlyLatest'
    BY <1>1, <2>1, <2>2, <2>4, <2>5 DEF OnlyLatest, Open
  <2>7. OwnSettings'
    BY <1>1, <2>1, <2>2, <2>5 DEF OwnSettings
  <2>8. InTurn'
    BY <1>1, <2>1, <2>2, <2>5 DEF InTurn
  <2> QED BY <2>6, <2>7, <2>8 DEF Calm
<1> QED BY <1>3, <1>4, <1>5

\* Only the thread of the latest start is in its setup, and only while the button is on.
LEMMA CalmThread ==
    ASSUME IInv, Calm, NEW i \in Ids, Thread(i)
    PROVE  Calm'
<1>1. TypeOK /\ QueueInv /\ OnlyLatest /\ OwnSettings /\ InTurn /\ SocketInv
  BY DEF IInv, Calm
<1>2. /\ thread \in [Ids -> ThreadStates] /\ socket \in [Ids -> {"none", "open", "closed"}]
      /\ local \in [Ids -> Settings \cup {NoSettings}] /\ serves \in [Ids -> 0..MaxStarts]
      /\ gui \in {"off", "writing", "on"} /\ 0 \notin Ids
  BY <1>1 DEF TypeOK, Ids
<1>3. /\ UNCHANGED <<gui, starts, entered, attributes, queue, stopping>>
      /\ \A j \in Ids : j # i => /\ thread'[j] = thread[j] /\ socket'[j] = socket[j]
                                 /\ local'[j] = local[j] /\ serves'[j] = serves[j]
  BY <1>2 DEF Thread, MakeAuthorizer, Publish, OpenPort, StoreServer, SetCallback,
              ServeForever, SetupFails, LeaveServeForever, Goto
<1>4. ASSUME thread[i] \in Setup
      PROVE  i = starts /\ gui = "on" /\ gui # "writing" /\ gui # "off" /\ ~stopping
  <2>1. i = starts
    BY <1>1, <1>4 DEF OnlyLatest
  <2>2. gui # "off" /\ gui # "writing"
    BY <1>1, <1>4, <2>1 DEF InTurn, QueueInv, Setup
  <2> QED BY <1>1, <1>2, <2>1, <2>2 DEF InTurn
<1> USE DEF Goto, Setup
<1>5. CASE MakeAuthorizer(i)
  <2>1. /\ thread[i] = "spawned" /\ thread'[i] = "made" /\ local'[i] = attributes
        /\ UNCHANGED <<authorizer, serves, socket, server>>
    BY <1>2, <1>5 DEF MakeAuthorizer
  <2>2. OnlyLatest' /\ OwnSettings'
    BY <1>1, <1>3, <1>4, <2>1 DEF OnlyLatest, OwnSettings, Open
  <2>3. InTurn'
    BY <1>1, <1>3, <1>4, <2>1 DEF InTurn, NoServer, Open
  <2> QED BY <2>2, <2>3 DEF Calm
<1>6. CASE Publish(i)
  <2>1. /\ thread[i] = "made" /\ thread'[i] = "published" /\ authorizer' = local[i]
        /\ UNCHANGED <<local, serves, socket, server>>
    BY <1>2, <1>6 DEF Publish
  <2>2. OnlyLatest' /\ OwnSettings'
    BY <1>1, <1>3, <1>4, <2>1 DEF OnlyLatest, OwnSettings, Open
  <2>3. InTurn'
    BY <1>1, <1>3, <1>4, <2>1 DEF InTurn, NoServer, Open
  <2> QED BY <2>2, <2>3 DEF Calm
<1>7. CASE OpenPort(i)
  <2>1. /\ thread[i] = "published" /\ thread'[i] = "created" /\ Open(i)'
        /\ UNCHANGED <<local, authorizer, serves, server>>
    BY <1>2, <1>7 DEF OpenPort, Open
  <2>2. OnlyLatest' /\ OwnSettings'
    BY <1>1, <1>3, <1>4, <2>1 DEF OnlyLatest, OwnSettings, Open
  <2>3. InTurn'
    BY <1>1, <1>3, <1>4, <2>1 DEF InTurn, NoServer, Open
  <2> QED BY <2>2, <2>3 DEF Calm
<1>8. CASE StoreServer(i)
  <2>1. /\ thread[i] = "created" /\ thread'[i] = "stored" /\ server' = i
        /\ UNCHANGED <<local, authorizer, serves, socket>>
    BY <1>2, <1>8 DEF StoreServer
  <2>2. OnlyLatest' /\ OwnSettings'
    BY <1>1, <1>3, <1>4, <2>1 DEF OnlyLatest, OwnSettings, Open
  <2>3. InTurn'
    BY <1>1, <1>3, <1>4, <2>1 DEF InTurn, NoServer, Open
  <2> QED BY <2>2, <2>3 DEF Calm
<1>9. CASE SetCallback(i)
  <2>1. /\ thread[i] = "stored" /\ thread'[i] = IF server = 0 THEN "ended" ELSE "started"
        /\ UNCHANGED <<local, authorizer, serves, socket, server>>
    BY <1>2, <1>9 DEF SetCallback
  <2>2. server = i /\ server # 0 /\ thread'[i] = "started"
    BY <1>1, <1>2, <1>4, <2>1 DEF InTurn
  <2>3. OnlyLatest' /\ OwnSettings'
    BY <1>1, <1>3, <1>4, <2>1, <2>2 DEF OnlyLatest, OwnSettings, Open
  <2>4. InTurn'
    BY <1>1, <1>3, <1>4, <2>1, <2>2 DEF InTurn, NoServer, Open
  <2> QED BY <2>3, <2>4 DEF Calm
<1>10. CASE ServeForever(i)
  <2>1. /\ thread[i] = "started" /\ thread'[i] = IF server = 0 THEN "unserved" ELSE "serving"
        /\ serves'[i] = server
        /\ UNCHANGED <<local, authorizer, socket, server>>
    BY <1>2, <1>10 DEF ServeForever
  <2>2. server = i /\ server # 0 /\ thread'[i] = "serving"
    BY <1>1, <1>2, <1>4, <2>1 DEF InTurn
  <2>3. OnlyLatest' /\ OwnSettings'
    BY <1>1, <1>3, <1>4, <2>1, <2>2 DEF OnlyLatest, OwnSettings, Open
  <2>4. InTurn'
    BY <1>1, <1>3, <1>4, <2>1, <2>2 DEF InTurn, NoServer, Open
  <2> QED BY <2>3, <2>4 DEF Calm
<1>11. CASE SetupFails(i)
  <2>1. /\ thread[i] \in {"spawned", "made", "published"} /\ thread'[i] = "ended"
        /\ UNCHANGED <<local, authorizer, serves, socket, server>>
    BY <1>2, <1>11 DEF SetupFails
  <2>2. ~Open(i)
    BY <1>1, <2>1 DEF SocketInv, BeforeSocket, Open
  <2>3. OnlyLatest' /\ OwnSettings'
    BY <1>1, <1>3, <1>4, <2>1, <2>2 DEF OnlyLatest, OwnSettings, Open
  <2>4. InTurn'
    BY <1>1, <1>3, <1>4, <2>1, <2>2 DEF InTurn, NoServer, Open
  <2> QED BY <2>3, <2>4 DEF Calm
<1>12. CASE LeaveServeForever(i)
  <2>1. /\ thread[i] = "serving" /\ thread'[i] = "ended" /\ ~Open(serves[i])
        /\ UNCHANGED <<local, authorizer, serves, socket, server>>
    BY <1>2, <1>12 DEF LeaveServeForever
  <2>2. serves[i] = i /\ ~Open(i)
    BY <1>1, <2>1 DEF OnlyLatest
  <2>3. OnlyLatest' /\ OwnSettings'
    BY <1>1, <1>3, <2>1, <2>2 DEF OnlyLatest, OwnSettings, Open
  <2>4. InTurn'
    BY <1>1, <1>3, <2>1, <2>2 DEF InTurn, NoServer, Open
  <2> QED BY <2>3, <2>4 DEF Calm
<1> QED BY <1>5, <1>6, <1>7, <1>8, <1>9, <1>10, <1>11, <1>12 DEF Thread

LEMMA CalmStep == IInv /\ [Next]_vars => (~hasty => Calm)'
<1> SUFFICES ASSUME IInv, [Next]_vars, ~hasty' PROVE Calm'
  OBVIOUS
<1>1. (\E s \in Settings : ToggleOn(s)) \/ ToggleOff => ~hasty /\ Settled
  <2>1. (\E s \in Settings : ToggleOn(s)) \/ ToggleOff => hasty' = (hasty \/ ~Settled)
    BY DEF ToggleOn, ToggleOff
  <2> QED BY <2>1, Zenon
<1>2. \/ (\E s \in Settings : ToggleOn(s)) \/ ToggleOff
      \/ hasty' = hasty
  BY DEF Next, vars, SubmitStart, CloseAll, ForgetServer, Start, Thread, MakeAuthorizer,
         Publish, OpenPort, StoreServer, SetCallback, ServeForever, SetupFails,
         LeaveServeForever
<1>3. ~hasty
  BY <1>1, <1>2
<1>4. Calm
  BY <1>3 DEF IInv
<1>5. CASE UNCHANGED vars
  BY <1>4, <1>5 DEF vars, Calm, OnlyLatest, OwnSettings, InTurn, NoServer, Open
<1> QED BY <1>1, <1>4, <1>5, CalmClick, CalmSubmit, CalmLoop, CalmThread DEF Next

-----------------------------------------------------------------------------
LEMMA IInvInit == Init => IInv
<1> SUFFICES ASSUME Init PROVE IInv
  OBVIOUS
<1>1. /\ queue = <<>> /\ DOMAIN queue = {} /\ queue \in Seq(0..MaxStarts)
      /\ 0 \in 0..MaxStarts /\ \A i \in Ids : i # 0
  BY EmptySeq, FtpAssumption DEF Init, Ids
<1>2. TypeOK
  BY <1>1 DEF Init, TypeOK, ThreadStates, BeforeSocket
<1>3. SocketInv /\ QueueInv
  BY <1>1 DEF Init, SocketInv, QueueInv
<1>4. OnlyLatest /\ OwnSettings
  BY <1>1 DEF Init, OnlyLatest, OwnSettings, Open, Setup
<1>5. InTurn
  BY <1>1 DEF Init, InTurn, NoServer, Open, Setup
<1> QED BY <1>2, <1>3, <1>4, <1>5 DEF IInv, Calm

\* The inductive invariant of FtpServer: where the starts are between queue and thread,
\* and what a user who lets each click take effect can rely on (ftp_server.py:73-130,
\* ftp_tab.py:70-101).
THEOREM InvariantCorrect == Spec => []IInv
<1>1. IInv /\ [Next]_vars => IInv'
  <2> SUFFICES ASSUME IInv, [Next]_vars PROVE IInv'
    OBVIOUS
  <2>1. TypeOK'
    BY TypeStep DEF IInv
  <2>2. SocketInv' /\ QueueInv'
    BY SocketStep, QueueStep
  <2>3. (~hasty => Calm)'
    BY CalmStep
  <2> QED BY <2>1, <2>2, <2>3 DEF IInv
<1> QED BY <1>1, IInvInit, PTL DEF Spec

\* A port that is open admits the users entered for its start, if each click took effect
\* before the next (ftp_server.py:87-118, ftp_tab.py:70-87).
THEOREM SettingsInForceCorrect == Spec => []SettingsInForce
<1>1. ASSUME IInv PROVE SettingsInForce
  <2> SUFFICES ASSUME ~hasty, NEW i \in Ids, Open(i) PROVE authorizer = entered[i]
    BY DEF SettingsInForce
  <2>1. OnlyLatest /\ OwnSettings
    BY <1>1 DEF IInv, Calm
  <2>2. i = starts /\ thread[i] \in {"created", "stored", "started", "serving"}
    BY <2>1 DEF OnlyLatest
  <2> QED BY <2>1, <2>2 DEF OwnSettings
<1> QED BY <1>1, InvariantCorrect, PTL

\* Once a start has settled, its port is open, its own thread serves it, and stop will
\* find it in self.server, or there is no port, for such a user (ftp_server.py:113-130).
THEOREM ServesUntilStoppedCorrect == Spec => []ServesUntilStopped
<1>1. ASSUME IInv PROVE ServesUntilStopped
  <2> SUFFICES ASSUME ~hasty, gui = "on", Settled,
                      Open(starts) \/ thread[starts] = "serving"
               PROVE  /\ Open(starts) /\ thread[starts] = "serving"
                      /\ server = starts /\ serves[starts] = starts
    BY DEF ServesUntilStopped
  <2>1. TypeOK /\ QueueInv /\ OnlyLatest /\ InTurn
    BY <1>1 DEF IInv, Calm
  <2>2. starts \in Ids
    BY <2>1, FtpAssumption DEF TypeOK, QueueInv, Ids
  <2>3. thread[starts] = "serving"
    BY <2>1, <2>2 DEF OnlyLatest, Settled, Setup
  <2> QED BY <2>1, <2>2, <2>3 DEF InTurn, OnlyLatest
<1> QED BY <1>1, InvariantCorrect, PTL

\* When the tab says stopped and the click has taken effect, no port is open, for such a
\* user (ftp_server.py:126-130).
THEOREM StopClosesCorrect == Spec => []StopCloses
<1>1. IInv => StopCloses
  BY DEF IInv, Calm, InTurn, NoServer, StopCloses, Settled
<1> QED BY <1>1, InvariantCorrect, PTL
=============================================================================

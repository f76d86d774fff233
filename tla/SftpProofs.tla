----------------------------- MODULE SftpProofs -----------------------------
\* First the life cycle of the server, then the sessions of its clients.
EXTENDS SftpServer, SftpSession, SequenceTheorems, TLAPS

LEMMA TypeStep == TypeOK /\ [Next]_vars => TypeOK'
<1> USE SftpAssumption DEF TypeOK, ThreadStates, SocketStates, Looping, Gone, Ids
<1> SUFFICES ASSUME TypeOK, [Next]_vars PROVE TypeOK'
  OBVIOUS
<1>1. CASE Start
  BY <1>1 DEF Start, Paces
<1>2. CASE StopRunning
  BY <1>2 DEF StopRunning
<1>3. CASE StopClose
  <2>1. socket' \in [Ids -> SocketStates]
    BY <1>3 DEF StopClose, CloseSharedSocket
  <2> QED BY <1>3, <2>1 DEF StopClose
<1>4. ASSUME NEW t \in Ids, ThreadStep(t) \/ WakeUp(t) PROVE TypeOK'
  <2>1. CASE Create(t)  BY <2>1 DEF Create, Goto
  <2>2. CASE Bind(t)  BY <2>2 DEF Bind, Goto
  <2>3. CASE Listen(t)
    <3>1. socket' \in [Ids -> SocketStates]
      BY <2>3 DEF Listen
    <3> QED BY <2>3, <3>1 DEF Listen, Goto
  <2>4. CASE SetTimeout(t)
    <3>1. timed' \subseteq 0..MaxStarts
      BY <2>4 DEF SetTimeout
    <3> QED BY <2>4, <3>1 DEF SetTimeout, Goto
  <2>5. CASE LoadKey(t)  BY <2>5 DEF LoadKey, Goto
  <2>6. CASE SetupFails(t)  BY <2>6 DEF SetupFails, Goto
  <2>7. CASE CheckRunning(t)  BY <2>7 DEF CheckRunning, Goto
  <2>8. CASE EnterAccept(t)  BY <2>8 DEF EnterAccept, Goto
  <2>9. CASE LeaveAccept(t)  BY <2>9 DEF LeaveAccept, Goto
  <2>10. CASE WakeUp(t)  BY <2>10 DEF WakeUp, Goto
  <2>11. CASE LeaveLoop(t)  BY <2>11 DEF LeaveLoop, Goto
  <2>12. CASE Finally(t)
    <3>1. socket' \in [Ids -> SocketStates]
      BY <2>12 DEF Finally, CloseSharedSocket
    <3> QED BY <2>12, <3>1 DEF Finally, Goto
  <2> QED
    BY <1>4, <2>1, <2>2, <2>3, <2>4, <2>5, <2>6, <2>7, <2>8, <2>9, <2>10, <2>11, <2>12
       DEF ThreadStep
<1>5. CASE UNCHANGED vars
  BY <1>5 DEF vars
<1> QED BY <1>1, <1>2, <1>3, <1>4, <1>5 DEF Next

\* What any step of a thread leaves alone, and what it needs.
LEMMA StepFrame ==
    ASSUME NEW t \in Ids, ThreadStep(t) \/ WakeUp(t)
    PROVE  /\ UNCHANGED <<starts, running, stopping, pace>>
           /\ thread[t] \notin Gone
           /\ \E state \in ThreadStates : Goto(t, state)
BY DEF ThreadStep, Create, Bind, Listen, SetTimeout, LoadKey, SetupFails, CheckRunning,
   EnterAccept, LeaveAccept, WakeUp, LeaveLoop, Finally, ThreadStates, Looping, Gone

\* Once the shared socket is closed, only a thread inside accept keeps one alive.
LEMMA ClosedShared ==
    ASSUME IInv, TypeOK', CloseSharedSocket, UNCHANGED <<server_socket, accepting>>,
           \A u \in Ids : thread'[u] = "blocked" => thread[u] = "blocked",
           NEW s \in Ids, Live(s)'
    PROVE  \E u \in Ids : thread[u] \in {"accept", "blocked"}
<1>1. CASE Blocked(s)'
  BY <1>1 DEF Blocked
<1>2. CASE Listens(s)' /\ Held(s)'
  <2>1. s # server_socket
    <3> SUFFICES ASSUME s = server_socket PROVE FALSE
      OBVIOUS
    <3>1. socket'[s] = "closed"
      BY SftpAssumption DEF CloseSharedSocket, IInv, TypeOK, Ids
    <3> QED BY <1>2, <3>1 DEF Listens
  <2>2. PICK u \in Ids : accepting[u] = s
    BY <1>2, <2>1 DEF Held
  <2>3. accepting[u] # 0
    BY <2>2, SftpAssumption DEF Ids
  <2> QED BY <2>2, <2>3 DEF IInv
<1> QED BY <1>1, <1>2 DEF Live

\* The only thread that has a step while the starts are calm is the last one.  Its
\* step keeps LastThread if it leaves what the thread will look for.
LEMMA LastMoves ==
    ASSUME IInv, TypeOK', pace = "calm", NEW t \in Ids, ThreadStep(t) \/ WakeUp(t),
           NEW state, Goto(t, state), state # "blocked",
           state \in {"created", "bound", "listening", "ready"} \cup Looping =>
               server_socket' = t,
           state \in {"ready"} \cup Looping => t \in timed',
           running => state \notin {"none", "exit", "ended"},
           running /\ state = "created" => socket'[t] = "open",
           running /\ state = "bound" => socket'[t] = "bound",
           running /\ state \in {"listening", "ready"} \cup Looping =>
               socket'[t] = "listening"
    PROVE  LastThread'
<1>1. TypeOK /\ LastThread
  BY DEF IInv
<1>2. UNCHANGED <<starts, running, pace>> /\ t = starts
  BY <1>1, StepFrame DEF LastThread
<1>3. thread'[t] = state /\ \A u \in Ids : u # t => thread'[u] = thread[u]
  BY <1>1 DEF Goto, TypeOK
<1>4. \A u \in Ids : u # t => thread[u] \in Gone
  BY <1>1, <1>2 DEF LastThread
<1>5. ASSUME NEW u \in Ids, u # t
      PROVE  /\ u # starts' /\ thread'[u] \in Gone
             /\ thread'[u] \notin {"created", "bound", "listening", "ready", "blocked"}
                                      \cup Looping
  BY <1>2, <1>3, <1>4, <1>5 DEF Gone, Looping
<1>6. ASSUME NEW u \in Ids
      PROVE
        /\ u # starts' => thread'[u] \in Gone
        /\ thread'[u] # "blocked"
        /\ thread'[u] \in {"created", "bound", "listening", "ready"} \cup Looping =>
              server_socket' = u
        /\ thread'[u] \in {"ready"} \cup Looping => u \in timed'
        /\ u = starts' /\ running' =>
              /\ thread'[u] \notin {"none", "exit", "ended"}
              /\ thread'[u] = "created" => socket'[u] = "open"
              /\ thread'[u] = "bound" => socket'[u] = "bound"
              /\ thread'[u] \in {"listening", "ready"} \cup Looping =>
                    socket'[u] = "listening"
  <2>1. CASE u = t
    BY <1>2, <1>3, <2>1
  <2>2. CASE u # t
    BY <1>5, <2>2
  <2> QED BY <2>1, <2>2
<1> QED BY <1>6 DEF LastThread

LEMMA LastThreadStep == IInv /\ [Next]_vars => LastThread'
<1> SUFFICES ASSUME IInv, [Next]_vars, pace' = "calm" PROVE LastThread'
  BY DEF LastThread
<1>1. /\ TypeOK /\ TypeOK' /\ LastThread
      /\ running => ~stopping
      /\ \A t \in Ids : t > starts => thread[t] = "none"
  BY TypeStep DEF IInv
<1>2. CASE Start
  <2>1. /\ starts' = starts + 1 /\ starts' \in Ids
        /\ thread' = [thread EXCEPT ![starts + 1] = "spawned"]
    BY <1>1, <1>2, SftpAssumption DEF Start, TypeOK, Ids
  <2>2. \A t \in Ids : thread[t] \in Gone
    BY <1>2, Zenon DEF Start
  <2>3. /\ thread'[starts'] = "spawned"
        /\ \A t \in Ids : t # starts' => thread'[t] \in Gone
    BY <1>1, <2>1, <2>2 DEF TypeOK
  <2> QED BY <2>3 DEF LastThread, Looping, Gone
<1>3. CASE StopRunning
  BY <1>1, <1>3 DEF StopRunning, LastThread
<1>4. CASE StopClose
  <2>1. ~running /\ UNCHANGED <<starts, running, server_socket, timed, thread, pace>>
    BY <1>1, <1>4 DEF StopClose
  <2> QED BY <1>1, <2>1 DEF LastThread
<1>5. ASSUME NEW t \in Ids, ThreadStep(t) \/ WakeUp(t) PROVE LastThread'
  <2>1. pace = "calm" /\ running' = running /\ thread[t] \notin Gone /\ t = starts
    BY <1>1, <1>5, StepFrame DEF LastThread
  <2>2. /\ thread[t] # "blocked"
        /\ thread[t] \in {"created", "bound", "listening", "ready"} \cup Looping =>
              server_socket = t
        /\ thread[t] \in {"ready"} \cup Looping => t \in timed
        /\ running =>
              /\ thread[t] \notin {"none", "exit", "ended"}
              /\ thread[t] = "created" => socket[t] = "open"
              /\ thread[t] = "bound" => socket[t] = "bound"
              /\ thread[t] \in {"listening", "ready"} \cup Looping =>
                    socket[t] = "listening"
    BY <1>1, <2>1 DEF LastThread
  <2>3. socket \in [Ids -> SocketStates]
    BY <1>1 DEF TypeOK
  <2>4. CASE Create(t)
    <3>1. Goto(t, "created") /\ server_socket' = t /\ socket'[t] = "open"
      BY <2>3, <2>4 DEF Create
    <3> QED BY <1>1, <1>5, <2>1, <3>1, LastMoves DEF Looping
  <2>5. CASE Bind(t)
    <3>1. server_socket = t /\ server_socket' = t /\ Goto(t, "bound")
      BY <2>2, <2>5 DEF Bind
    <3>2. socket'[t] = "bound"
      BY <2>3, <2>5, <3>1 DEF Bind
    <3> QED BY <1>1, <1>5, <2>1, <3>1, <3>2, LastMoves DEF Looping
  <2>6. CASE Listen(t)
    <3>1. server_socket = t /\ server_socket' = t /\ Goto(t, "listening")
          /\ (running => socket[t] = "bound")
      BY <2>2, <2>6 DEF Listen
    <3>2. running => socket'[t] = "listening"
      BY <2>3, <2>6, <3>1 DEF Listen
    <3> QED BY <1>1, <1>5, <2>1, <3>1, <3>2, LastMoves DEF Looping
  <2>7. CASE SetTimeout(t)
    <3>1. /\ server_socket = t /\ server_socket' = t /\ Goto(t, "ready")
          /\ t \in timed' /\ (running => socket'[t] = "listening")
      BY <2>2, <2>7 DEF SetTimeout
    <3> QED BY <1>1, <1>5, <2>1, <3>1, LastMoves DEF Looping
  <2>8. CASE LoadKey(t) \/ CheckRunning(t) \/ EnterAccept(t) \/ LeaveAccept(t)
    <3>1. /\ thread[t] \in {"ready"} \cup Looping
          /\ server_socket' = server_socket /\ socket' = socket /\ timed' = timed
      BY <2>8 DEF LoadKey, CheckRunning, EnterAccept, LeaveAccept, Looping
    <3>2. server_socket' = t /\ t \in timed' /\ (running => socket'[t] = "listening")
      BY <2>2, <3>1
    <3>3. Goto(t, "loop") \/ Goto(t, "turn") \/ Goto(t, "accept")
      BY <2>8, <3>1, <3>2 DEF LoadKey, CheckRunning, EnterAccept, LeaveAccept
    <3>4. ASSUME NEW state \in Looping, Goto(t, state) PROVE LastThread'
      BY <1>1, <1>5, <2>1, <3>2, <3>4, LastMoves DEF Looping
    <3> QED BY <3>3, <3>4 DEF Looping
  <2>9. CASE WakeUp(t)
    BY <2>2, <2>9 DEF WakeUp
  <2>10. CASE SetupFails(t)
    <3>1. Goto(t, "abort")
      BY <2>10 DEF SetupFails
    <3> QED BY <1>1, <1>5, <2>1, <3>1, LastMoves DEF Looping
  <2>11. CASE LeaveLoop(t)
    <3>1. Goto(t, "exit") /\ ~running
      BY <2>11 DEF LeaveLoop
    <3> QED BY <1>1, <1>5, <2>1, <3>1, LastMoves DEF Looping
  <2>12. CASE Finally(t)
    <3>1. Goto(t, "aborted") \/ (Goto(t, "ended") /\ ~running)
      BY <2>2, <2>12 DEF Finally
    <3>2. ASSUME NEW state \in {"aborted", "ended"}, Goto(t, state),
                 state = "ended" => ~running
          PROVE  LastThread'
      BY <1>1, <1>5, <2>1, <3>2, LastMoves DEF Looping
    <3> QED BY <3>1, <3>2
  <2> QED
    BY <1>5, <2>4, <2>5, <2>6, <2>7, <2>8, <2>9, <2>10, <2>11, <2>12 DEF ThreadStep
<1>6. CASE UNCHANGED vars
  BY <1>1, <1>6 DEF vars, LastThread
<1> QED BY <1>2, <1>3, <1>4, <1>5, <1>6 DEF Next

LEMMA IInvStep == IInv /\ [Next]_vars => IInv'
<1> SUFFICES ASSUME IInv, [Next]_vars PROVE IInv'
  OBVIOUS
<1>1. TypeOK /\ TypeOK' /\ LastThread'
  BY TypeStep, LastThreadStep DEF IInv
<1>2. /\ running => starts > 0 /\ ~stopping
      /\ \A t \in Ids : accepting[t] # 0 => thread[t] \in {"accept", "blocked"}
      /\ \A t \in Ids : t > starts => thread[t] = "none"
  BY DEF IInv
<1>3. CASE Start
  <2>1. /\ starts' = starts + 1 /\ starts' \in Ids /\ starts' > 0 /\ ~stopping'
        /\ thread' = [thread EXCEPT ![starts'] = "spawned"] /\ UNCHANGED accepting
    BY <1>1, <1>3, SftpAssumption DEF Start, TypeOK, Ids
  <2>2. thread'[starts'] = "spawned" /\ \A t \in Ids : t # starts' => thread'[t] = thread[t]
    BY <1>1, <2>1 DEF TypeOK
  <2>3. NoOrphan'
    BY <2>1, <2>2 DEF NoOrphan, Gone
  <2>4. \A t \in Ids : accepting'[t] # 0 => thread'[t] \in {"accept", "blocked"}
    <3>1. thread[starts'] = "none"
      BY <1>1, <1>2, <2>1 DEF TypeOK
    <3> QED BY <1>2, <2>1, <2>2, <3>1
  <2>5. \A t \in Ids : t > starts' => thread'[t] = "none"
    BY <1>1, <1>2, <2>1, <2>2 DEF TypeOK, Ids
  <2> QED BY <1>1, <2>1, <2>3, <2>4, <2>5 DEF IInv
<1>4. CASE StopRunning
  <2>1. ~running' /\ UNCHANGED <<starts, server_socket, socket, thread, accepting>>
    BY <1>4 DEF StopRunning
  <2>2. NoOrphan'
    BY <2>1 DEF IInv, NoOrphan, Live, Blocked, Listens, Held
  <2> QED BY <1>1, <1>2, <2>1, <2>2 DEF IInv
<1>5. CASE StopClose
  <2>1. /\ CloseSharedSocket /\ ~stopping'
        /\ UNCHANGED <<starts, running, server_socket, thread, accepting>>
    BY <1>5 DEF StopClose
  <2>2. NoOrphan'
    BY <1>1, <2>1, ClosedShared DEF NoOrphan, Gone
  <2> QED BY <1>1, <1>2, <2>1, <2>2 DEF IInv
<1>6. ASSUME NEW t \in Ids, ThreadStep(t) \/ WakeUp(t) PROVE IInv'
  <2>1. PICK state \in ThreadStates : Goto(t, state)
    BY <1>6, StepFrame
  <2>2. thread'[t] = state /\ \A u \in Ids \ {t} : thread'[u] = thread[u]
    BY <1>1, <2>1 DEF TypeOK, Goto
  <2>3. thread[t] \notin Gone /\ UNCHANGED <<starts, running, stopping>>
    BY <1>6, StepFrame
  <2>4. \A u \in Ids : accepting'[u] # 0 => thread'[u] \in {"accept", "blocked"}
    <3>1. CASE EnterAccept(t)
      BY <1>1, <1>2, <2>2, <3>1 DEF EnterAccept, Goto, TypeOK
    <3>2. CASE LeaveAccept(t) \/ WakeUp(t)
      BY <1>1, <1>2, <2>2, <3>2 DEF LeaveAccept, WakeUp, TypeOK
    <3>3. CASE thread[t] \notin {"accept", "blocked"} /\ accepting' = accepting
      BY <1>2, <2>2, <3>3
    <3> QED
      BY <1>6, <3>1, <3>2, <3>3 DEF ThreadStep, Create, Bind, Listen, SetTimeout, LoadKey,
         SetupFails, CheckRunning, LeaveLoop, Finally
  <2>5. \A u \in Ids : u > starts' => thread'[u] = "none"
    <3>1. ~(t > starts)
      BY <1>2, <2>3 DEF Gone
    <3> QED BY <1>2, <2>2, <2>3, <3>1
  <2>6. NoOrphan'
    <3>1. CASE Finally(t)
      <4> SUFFICES ASSUME NEW s \in Ids, Live(s)'
                   PROVE  \E u \in Ids : thread'[u] \notin Gone
        BY DEF NoOrphan
      <4>1. /\ CloseSharedSocket /\ UNCHANGED <<server_socket, accepting>>
            /\ thread[t] \notin {"accept", "blocked"} /\ thread'[t] # "blocked"
        BY <1>1, <3>1 DEF Finally, Goto, TypeOK
      <4>2. \A u \in Ids : thread'[u] = "blocked" => thread[u] = "blocked"
        BY <2>2, <4>1
      <4>3. PICK u \in Ids : thread[u] \in {"accept", "blocked"}
        BY <1>1, <4>1, <4>2, ClosedShared
      <4>4. thread'[u] = thread[u]
        BY <2>2, <4>1, <4>3
      <4> QED BY <4>3, <4>4 DEF Gone
    <3>2. CASE ~Finally(t)
      <4>1. state \notin Gone
        BY <1>1, <1>6, <2>1, <2>2, <3>2 DEF ThreadStep, Create, Bind, Listen, SetTimeout,
           LoadKey, SetupFails, CheckRunning, EnterAccept, LeaveAccept, WakeUp,
           LeaveLoop, Gone, Goto, TypeOK
      <4> QED BY <2>2, <4>1 DEF NoOrphan
    <3> QED BY <3>1, <3>2
  <2> QED BY <1>1, <1>2, <2>3, <2>4, <2>5, <2>6 DEF IInv
<1>7. CASE UNCHANGED vars
  BY <1>1, <1>2, <1>7 DEF vars, IInv, NoOrphan, Live, Blocked, Listens, Held
<1> QED BY <1>3, <1>4, <1>5, <1>6, <1>7 DEF Next

\* The invariant that relates threads and sockets (sftp_server.py:153-227).
THEOREM InvariantCorrect == Spec => []IInv
<1>1. Init => IInv
  <2> SUFFICES ASSUME Init PROVE IInv
    OBVIOUS
  <2>1. TypeOK
    <3>1. 0 \in 0..MaxStarts
      BY SftpAssumption
    <3>2. "none" \in ThreadStates /\ "none" \in SocketStates /\ "calm" \in Paces
      BY DEF ThreadStates, Gone, SocketStates, Paces
    <3> QED BY <3>1, <3>2 DEF Init, TypeOK
  <2>2. \A t \in Ids : accepting[t] = 0 /\ thread[t] = "none" /\ socket[t] = "none"
    BY DEF Init
  <2>3. NoOrphan /\ LastThread /\ ~running
    BY <2>2 DEF Init, NoOrphan, Live, Blocked, Listens, LastThread, Looping, Gone
  <2> QED BY <2>1, <2>2, <2>3 DEF IInv
<1> QED BY <1>1, IInvStep, PTL DEF Spec

\* However the server is started and stopped, a listening socket has a thread
\* that will close it (sftp_server.py:211-213, 220-226).
THEOREM NoOrphanCorrect == Spec => []NoOrphan
<1>1. IInv => NoOrphan
  BY DEF IInv
<1> QED BY <1>1, InvariantCorrect, PTL

\* A user who lets the old thread end first gets a server that, once set up, listens
\* until it is stopped (sftp_server.py:198-213).
THEOREM ServesUntilStoppedCorrect == Spec => []ServesUntilStopped
<1>1. IInv => ServesUntilStopped
  <2> SUFFICES ASSUME IInv, running, pace = "calm"
               PROVE  /\ thread[starts] \notin {"exit", "ended", "blocked"}
                      /\ thread[starts] \in Looping => Listening
    BY DEF ServesUntilStopped
  <2>1. LastThread /\ starts \in Ids /\ 0 \notin Ids
    BY SftpAssumption DEF IInv, TypeOK, Ids
  <2> QED BY <2>1 DEF LastThread, Listening
<1> QED BY <1>1, InvariantCorrect, PTL

-----------------------------------------------------------------------------
(***************************************************************************)
(* SftpSession.                                                            *)
(***************************************************************************)

\* What an index of a prefix says.
LEMMA PrefixFacts ==
    ASSUME NEW s \in Seq(STRING), NEW t \in Seq(STRING)
    PROVE  IsPrefix(s, t) <=>
               Len(s) <= Len(t) /\ \A i \in 1..Len(s) : s[i] = t[i]
<1>1. Len(s) \in Nat /\ Len(t) \in Nat
  BY LenProperties
<1>2. ASSUME NEW u \in Seq(STRING), Len(s) <= Len(u)
      PROVE  /\ SubSeq(u, 1, Len(s)) \in Seq(STRING)
             /\ Len(SubSeq(u, 1, Len(s))) = Len(s)
             /\ \A i \in 1..Len(s) : SubSeq(u, 1, Len(s))[i] = u[i]
  <2>1. /\ Len(u) \in Nat /\ 1 \in 1..(Len(u) + 1) /\ Len(s) \in 0..Len(u)
        /\ \A i \in 1..Len(s) : u[i] \in STRING
    BY <1>1, <1>2, LenProperties
  <2>2. CASE Len(s) = 0
    <3>1. SubSeq(u, 1, Len(s)) = <<>>
      BY <1>1, <2>2
    <3> QED BY <2>2, <3>1
  <2>3. CASE Len(s) > 0
    <3>1. \A i \in 1..Len(s) : 1 + i - 1 = i
      BY <1>1
    <3>2. \A i \in 1..Len(s) : SubSeq(u, 1, Len(s))[i] = u[1 + i - 1]
      BY <1>1, <2>1, SubSeqProperties
    <3> QED BY <1>1, <2>1, <3>1, <3>2, SubSeqProperties
  <2> QED BY <1>1, <2>2, <2>3
<1>3. CASE ~(Len(s) <= Len(t))
  BY <1>3 DEF IsPrefix
<1>4. CASE Len(s) <= Len(t)
  <2> DEFINE a == SubSeq(s, 1, Len(s))
             b == SubSeq(t, 1, Len(s))
  <2>1. /\ a \in Seq(STRING) /\ Len(a) = Len(s) /\ \A i \in 1..Len(s) : a[i] = s[i]
        /\ b \in Seq(STRING) /\ Len(b) = Len(s) /\ \A i \in 1..Len(s) : b[i] = t[i]
    BY <1>1, <1>2, <1>4
  <2>2. IsPrefix(s, t) <=> a = b
    BY <1>4 DEF IsPrefix
  <2> HIDE DEF a, b
  <2>3. (\A i \in 1..Len(a) : a[i] = b[i]) => a = b
    BY <2>1, SeqEqual
  <2>4. ASSUME a = b, NEW i \in 1..Len(s) PROVE s[i] = t[i]
    BY <2>1, <2>4
  <2>5. ASSUME \A i \in 1..Len(s) : s[i] = t[i] PROVE a = b
    BY <2>1, <2>3, <2>5
  <2> QED BY <1>4, <2>2, <2>4, <2>5
<1> QED BY <1>3, <1>4

LEMMA PrefixOrder ==
    ASSUME NEW r \in Seq(STRING), NEW q \in Seq(STRING), NEW p \in Seq(STRING)
    PROVE  /\ IsPrefix(p, p)
           /\ IsPrefix(r, q) /\ IsPrefix(q, p) => IsPrefix(r, p)
           /\ IsPrefix(r, p) /\ IsPrefix(q, p) => IsPrefix(r, q) \/ IsPrefix(q, r)
<1>1. Len(r) \in Nat /\ Len(q) \in Nat /\ Len(p) \in Nat
  BY LenProperties
<1>2. IsPrefix(p, p)
  BY <1>1, PrefixFacts
<1>3. ASSUME IsPrefix(r, q), IsPrefix(q, p) PROVE IsPrefix(r, p)
  <2>1. /\ Len(r) <= Len(q) /\ \A i \in 1..Len(r) : r[i] = q[i]
        /\ Len(q) <= Len(p) /\ \A i \in 1..Len(q) : q[i] = p[i]
    BY <1>3, PrefixFacts
  <2>2. Len(r) <= Len(p) /\ \A i \in 1..Len(r) : r[i] = p[i]
    BY <1>1, <2>1
  <2> QED BY <2>2, PrefixFacts
<1>4. ASSUME IsPrefix(r, p), IsPrefix(q, p) PROVE IsPrefix(r, q) \/ IsPrefix(q, r)
  <2>1. /\ \A i \in 1..Len(r) : r[i] = p[i]
        /\ \A i \in 1..Len(q) : q[i] = p[i]
    BY <1>4, PrefixFacts
  <2>2. CASE Len(r) <= Len(q)
    <3>1. \A i \in 1..Len(r) : r[i] = q[i]
      BY <1>1, <2>1, <2>2
    <3> QED BY <2>2, <3>1, PrefixFacts
  <2>3. CASE Len(q) <= Len(r)
    <3>1. \A i \in 1..Len(q) : q[i] = r[i]
      BY <1>1, <2>1, <2>3
    <3> QED BY <2>3, <3>1, PrefixFacts
  <2> QED BY <1>1, <2>2, <2>3
<1> QED BY <1>2, <1>3, <1>4

\* Where a path goes is below the new place, and leads back.
LEMMA RebaseFacts ==
    ASSUME NEW p \in Seq(STRING), NEW old \in Seq(STRING), NEW new \in Seq(STRING),
           IsPrefix(old, p)
    PROVE  /\ Rebase(p, old, new) \in Seq(STRING)
           /\ IsPrefix(new, Rebase(p, old, new))
           /\ Rebase(Rebase(p, old, new), new, old) = p
<1> DEFINE rest == SubSeq(p, Len(old) + 1, Len(p))
           moved == new \o rest
           back == SubSeq(moved, Len(new) + 1, Len(moved))
<1>1. /\ Len(old) \in Nat /\ Len(new) \in Nat /\ Len(p) \in Nat
      /\ Len(old) <= Len(p) /\ \A i \in 1..Len(old) : old[i] = p[i]
  BY LenProperties, PrefixFacts
<1>2. /\ rest \in Seq(STRING) /\ Len(rest) = Len(p) - Len(old)
      /\ \A i \in 1..Len(rest) : rest[i] = p[Len(old) + i]
  BY <1>1
<1> HIDE DEF rest
<1>3. /\ moved \in Seq(STRING) /\ Len(moved) = Len(new) + Len(rest)
      /\ \A i \in 1..Len(new) : moved[i] = new[i]
      /\ \A i \in 1..Len(rest) : moved[Len(new) + i] = rest[i]
  <2>1. Len(moved) = Len(new) + Len(rest)
    BY <1>2, ConcatProperties
  <2>2. moved \in Seq(STRING)
    BY <1>2, ConcatProperties
  <2>3. \A i \in 1..Len(new) + Len(rest) :
           moved[i] = IF i <= Len(new) THEN new[i] ELSE rest[i - Len(new)]
    BY <1>2, ConcatProperties
  <2>4. ASSUME NEW i \in 1..Len(new) PROVE moved[i] = new[i]
    BY <1>1, <1>2, <2>3
  <2>5. ASSUME NEW i \in 1..Len(rest) PROVE moved[Len(new) + i] = rest[i]
    <3>1. /\ Len(new) + i \in 1..Len(new) + Len(rest) /\ ~(Len(new) + i <= Len(new))
          /\ (Len(new) + i) - Len(new) = i
      BY <1>1, <1>2
    <3> HIDE DEF moved
    <3> QED BY <2>3, <3>1
  <2> QED BY <2>1, <2>2, <2>4, <2>5
<1> HIDE DEF moved
<1>4. /\ back \in Seq(STRING) /\ Len(back) = Len(rest)
      /\ \A i \in 1..Len(rest) : back[i] = rest[i]
  BY <1>1, <1>2, <1>3
<1> HIDE DEF back
<1>5. back = rest
  BY <1>2, <1>4, SeqEqual
<1>6. old \o rest = p
  <2>1. /\ old \o rest \in Seq(STRING) /\ Len(old \o rest) = Len(p)
        /\ \A i \in 1..Len(p) : (old \o rest)[i] = p[i]
    BY <1>1, <1>2
  <2> QED BY <2>1, SeqEqual
<1>7. IsPrefix(new, moved)
  BY <1>1, <1>2, <1>3, PrefixFacts
<1> QED BY <1>3, <1>5, <1>6, <1>7 DEF Rebase, rest, moved, back

LEMMA RootType ==
    ASSUME SessionTypeOK, NEW s \in Sessions
    PROVE  Root(s) \in Seq(STRING) /\ MayWrite(s) \in BOOLEAN
<1>1. rights[s].root \in Entries /\ rights[s].write \in Entries
  BY DEF SessionTypeOK
<1>2. Root(s) \in Roots /\ MayWrite(s) \in BOOLEAN
  BY <1>1 DEF SessionTypeOK, Root, MayWrite
<1> QED BY <1>2, SessionAssumption

\* The path of a request is below the root of the session.
LEMMA RealpathFacts ==
    ASSUME SessionTypeOK, NEW s \in Sessions, NEW path \in Realpath(s)
    PROVE  path \in Paths /\ Below(Root(s), path)
<1>1. path \in Paths /\ Within(Root(s), path)
  BY DEF Realpath
<1>2. Below(Root(s), Root(s))
  BY RootType, PrefixOrder DEF Below
<1> QED BY <1>1, <1>2 DEF Within, IsStrictPrefix, Below

-----------------------------------------------------------------------------
\* What HandlesInv says after a step of a client, which changes no rights.
HandlesKept ==
    /\ handle' \in [Sessions -> Handle]
    /\ \A t \in Sessions :
           /\ handle'[t] # NoHandle =>
                 session[t] = "open" /\ Below(Root(t), handle'[t].opened)
           /\ handle'[t].writes => MayWrite(t)
           /\ handle'[t].path # NoPath => files'[handle'[t].path] \in {"old", "new"}

\* The file of an open handle moves only from below the root of s to below it.
MovesBelow(s) ==
    \A t \in Sessions :
        handle[t].path # NoPath /\ handle'[t].path # NoPath =>
            \/ handle'[t].path = handle[t].path
            \/ /\ MayWrite(s)
               /\ Below(Root(s), handle[t].path) /\ Below(Root(s), handle'[t].path)

\* A step of a client.
ClientKeeps(s) ==
    /\ UNCHANGED <<server, session, login, rights>>
    /\ files' \in [Paths -> Kinds]
    /\ \A p \in Paths : files'[p] # files[p] => MayChange(s, p)
    /\ HandlesKept
    /\ MovesBelow(s)

LEMMA HandleTypes ==
    ASSUME SessionInv
    PROVE  /\ NoPath \notin Paths
           /\ files \in [Paths -> Kinds]
           /\ handle \in [Sessions -> Handle]
           /\ \A t \in Sessions :
                  /\ handle[t].path \in Paths \cup {NoPath}
                  /\ handle[t].opened \in Paths \cup {NoPath}
                  /\ handle[t].writes \in BOOLEAN
                  /\ handle[t] = [path |-> handle[t].path, opened |-> handle[t].opened,
                                  writes |-> handle[t].writes]
                  /\ handle[t] # NoHandle =>
                        session[t] = "open" /\ Below(Root(t), handle[t].opened)
                  /\ handle[t].writes => MayWrite(t)
                  /\ handle[t].path # NoPath => files[handle[t].path] \in {"old", "new"}
<1>1. /\ NoPath \notin Paths
      /\ files \in [Paths -> Kinds]
      /\ handle \in [Sessions -> Handle]
  BY SessionAssumption DEF SessionInv, SessionTypeOK, NoPath
<1>2. \A h \in Handle :
         /\ h.path \in Paths \cup {NoPath} /\ h.opened \in Paths \cup {NoPath}
         /\ h.writes \in BOOLEAN
         /\ h = [path |-> h.path, opened |-> h.opened, writes |-> h.writes]
  BY DEF Handle
<1>3. \A t \in Sessions : handle[t] \in Handle
  BY <1>1
<1> QED BY <1>1, <1>2, <1>3 DEF SessionInv, HandlesInv

\* What is open at one path is at another one, or at none.
LEMMA HandlesMove ==
    ASSUME SessionInv, NEW at \in [Sessions -> Paths \cup {NoPath}],
           handle' = [t \in Sessions |-> [handle[t] EXCEPT !.path = at[t]]],
           \A t \in Sessions : at[t] # NoPath => /\ handle[t].path # NoPath
                                                 /\ files'[at[t]] \in {"old", "new"}
    PROVE  HandlesKept /\ \A t \in Sessions : handle'[t].path = at[t]
<1>1. ASSUME NEW t \in Sessions
      PROVE  /\ handle'[t] = [path |-> at[t], opened |-> handle[t].opened,
                              writes |-> handle[t].writes]
             /\ handle'[t] \in Handle
  <2>1. handle'[t] = [handle[t] EXCEPT !.path = at[t]]
    OBVIOUS
  <2>2. /\ handle[t] = [path |-> handle[t].path, opened |-> handle[t].opened,
                        writes |-> handle[t].writes]
        /\ handle[t].opened \in Paths \cup {NoPath} /\ handle[t].writes \in BOOLEAN
    BY HandleTypes
  <2>3. handle'[t] = [path |-> at[t], opened |-> handle[t].opened,
                      writes |-> handle[t].writes]
    BY <2>1, <2>2
  <2>4. at[t] \in Paths \cup {NoPath}
    OBVIOUS
  <2> QED BY <2>2, <2>3, <2>4, Zenon DEF Handle
<1>2. handle' \in [Sessions -> Handle]
  <2>1. handle' = [t \in Sessions |-> handle'[t]]
    OBVIOUS
  <2> QED BY <1>1, <2>1
<1>3. ASSUME NEW t \in Sessions
      PROVE  /\ handle'[t].path = at[t]
             /\ handle'[t].opened = handle[t].opened
             /\ handle'[t].writes = handle[t].writes
             /\ handle'[t] # NoHandle => handle[t] # NoHandle
  <2>1. /\ handle'[t].path = at[t]
        /\ handle'[t].opened = handle[t].opened /\ handle'[t].writes = handle[t].writes
    BY <1>1
  <2>2. ASSUME handle[t] = NoHandle PROVE handle'[t] = NoHandle
    <3>1. handle[t].path = NoPath /\ handle[t].opened = NoPath /\ handle[t].writes = FALSE
      BY <2>2 DEF NoHandle
    <3>2. at[t] = NoPath
      BY <3>1
    <3> QED BY <1>1, <3>1, <3>2 DEF NoHandle
  <2> QED BY <2>1, <2>2
<1>4. ASSUME NEW t \in Sessions
      PROVE  /\ handle'[t] # NoHandle =>
                   session[t] = "open" /\ Below(Root(t), handle'[t].opened)
             /\ handle'[t].writes => MayWrite(t)
             /\ handle'[t].path # NoPath => files'[handle'[t].path] \in {"old", "new"}
  BY <1>3, HandleTypes
<1> QED BY <1>2, <1>3, <1>4 DEF HandlesKept

LEMMA OpenFileKeeps ==
    ASSUME SessionInv, NEW s \in Sessions, session[s] = "open", NEW path \in Paths,
           Below(Root(s), path),
           NEW access \in Accesses, NEW options \in SUBSET Options,
           OpenFile(s, path, access, options)
    PROVE  ClientKeeps(s)
<1> DEFINE h == [path |-> path, opened |-> path, writes |-> access # "O_RDONLY"]
<1>1. /\ UNCHANGED <<server, session, login, rights>>
      /\ handle[s] = NoHandle /\ files[path] # "folder"
      /\ files' = IF files[path] = "none" \/ "O_TRUNC" \in options
                  THEN [files EXCEPT ![path] = "new"] ELSE files
      /\ handle' = [handle EXCEPT ![s] = h]
  BY DEF OpenFile
<1>2. ASSUME files' # files \/ access # "O_RDONLY" PROVE MayWrite(s)
  <2>1. AsksToWrite(access, options)
    BY <1>2 DEF OpenFile, AsksToWrite, Accesses
  <2> QED BY <2>1 DEF OpenFile
<1>3. h \in Handle
  <2>1. (access # "O_RDONLY") \in BOOLEAN
    BY Zenon
  <2> QED BY <2>1, Zenon DEF Handle
<1>4. /\ files' \in [Paths -> Kinds] /\ files'[path] \in {"old", "new"}
      /\ \A p \in Paths : files'[p] # files[p] => p = path
  BY <1>1, HandleTypes DEF Kinds
<1>5. h.path = path /\ h.opened = path /\ (h.writes => access # "O_RDONLY")
  OBVIOUS
<1> HIDE DEF h
<1>6. handle' \in [Sessions -> Handle]
  BY <1>1, <1>3, HandleTypes
<1>7. handle'[s] = h /\ \A t \in Sessions : t # s => handle'[t] = handle[t]
  BY <1>1, HandleTypes
<1>8. ASSUME NEW t \in Sessions
      PROVE  /\ handle'[t] # NoHandle =>
                   session[t] = "open" /\ Below(Root(t), handle'[t].opened)
             /\ handle'[t].writes => MayWrite(t)
             /\ handle'[t].path # NoPath => files'[handle'[t].path] \in {"old", "new"}
  <2>1. CASE t = s
    BY <1>2, <1>4, <1>5, <1>7, <2>1
  <2>2. CASE t # s
    <3>1. handle'[t] = handle[t]
      BY <1>7, <2>2
    <3>2. handle[t].path # NoPath => handle[t].path \in Paths
      BY HandleTypes
    <3> QED BY <1>4, <3>1, <3>2, HandleTypes
  <2> QED BY <2>1, <2>2
<1>9. MovesBelow(s)
  <2>1. handle[s].path = NoPath
    BY <1>1 DEF NoHandle
  <2> QED BY <1>7, <2>1 DEF MovesBelow
<1>10. \A p \in Paths : files'[p] # files[p] => MayChange(s, p)
  BY <1>2, <1>4 DEF MayChange
<1>11. HandlesKept
  BY <1>6, <1>8 DEF HandlesKept
<1> QED BY <1>1, <1>4, <1>9, <1>10, <1>11 DEF ClientKeeps

\* A file is removed, or a folder made or removed.
LEMMA ChangeKeeps ==
    ASSUME SessionInv, NEW s \in Sessions, session[s] = "open", NEW path \in Paths,
           Below(Root(s), path), MayWrite(s), NEW to \in {"none", "folder"},
           UNCHANGED <<server, session, login, rights>>,
           files' = [files EXCEPT ![path] = to],
           handle' = [t \in Sessions |->
                         [handle[t] EXCEPT !.path = IF @ = path THEN NoPath ELSE @]]
    PROVE  ClientKeeps(s)
<1> DEFINE at == [t \in Sessions |->
                     IF handle[t].path = path THEN NoPath ELSE handle[t].path]
<1>1. /\ files' \in [Paths -> Kinds]
      /\ \A p \in Paths : files'[p] # files[p] => p = path
  BY HandleTypes DEF Kinds
<1>2. /\ at \in [Sessions -> Paths \cup {NoPath}]
      /\ handle' = [t \in Sessions |-> [handle[t] EXCEPT !.path = at[t]]]
  BY HandleTypes
<1>3. ASSUME NEW t \in Sessions, at[t] # NoPath
      PROVE  handle[t].path = at[t] /\ files'[at[t]] \in {"old", "new"}
  <2>1. at[t] = handle[t].path /\ handle[t].path # path
    BY <1>3
  <2>2. handle[t].path \in Paths /\ files[handle[t].path] \in {"old", "new"}
    BY <1>3, <2>1, HandleTypes
  <2> QED BY <1>1, <2>1, <2>2
<1>4. \A t \in Sessions : at[t] # NoPath => at[t] = handle[t].path
  BY <1>3
<1> HIDE DEF at
<1>5. HandlesKept /\ \A t \in Sessions : handle'[t].path = at[t]
  BY <1>2, <1>3, HandlesMove
<1>6. MovesBelow(s)
  BY <1>4, <1>5 DEF MovesBelow
<1>7. \A p \in Paths : files'[p] # files[p] => MayChange(s, p)
  BY <1>1 DEF MayChange
<1> QED BY <1>1, <1>5, <1>6, <1>7 DEF ClientKeeps

\* No handle is at a path without a file.
LEMMA NoHandleThere ==
    ASSUME SessionInv, NEW path \in Paths, files[path] \notin {"old", "new"}
    PROVE  handle = [t \in Sessions |->
                        [handle[t] EXCEPT !.path = IF @ = path THEN NoPath ELSE @]]
<1>1. ASSUME NEW t \in Sessions
      PROVE  handle[t] = [handle[t] EXCEPT !.path = IF @ = path THEN NoPath ELSE @]
  <2>1. handle[t].path # path
    BY HandleTypes
  <2>2. [handle[t] EXCEPT !.path = IF @ = path THEN NoPath ELSE @]
        = [handle[t] EXCEPT !.path = handle[t].path]
    BY <2>1
  <2>3. handle[t] = [handle[t] EXCEPT !.path = handle[t].path]
    <3> DEFINE h == handle[t]
    <3>1. h = [path |-> h.path, opened |-> h.opened, writes |-> h.writes]
      BY HandleTypes
    <3> QED BY <3>1
  <2> QED BY <2>2, <2>3
<1> QED BY <1>1, HandleTypes

\* A rename takes along what is below the old path, open files too.
LEMMA RenameKeeps ==
    ASSUME SessionInv, NEW s \in Sessions, session[s] = "open",
           NEW old \in Paths, NEW new \in Paths,
           Below(Root(s), old), Below(Root(s), new), Rename(s, old, new)
    PROVE  ClientKeeps(s)
<1> DEFINE at == [t \in Sessions |->
                     IF IsPrefix(old, handle[t].path) THEN Rebase(handle[t].path, old, new)
                     ELSE IF handle[t].path = new THEN NoPath ELSE handle[t].path]
<1>0. /\ UNCHANGED <<server, session, login, rights>> /\ MayWrite(s)
      /\ files[old] # "none" /\ ~IsPrefix(old, new) /\ Nothing(new)
      /\ \A p \in Paths :
            IsPrefix(old, p) /\ files[p] # "none" => Rebase(p, old, new) \in Paths
      /\ files' = [p \in Paths |->
                      CASE IsPrefix(new, p) /\ Rebase(p, new, old) \in Paths ->
                              files[Rebase(p, new, old)]
                        [] IsPrefix(old, p) -> "none"
                        [] OTHER            -> files[p]]
      /\ handle' = [t \in Sessions |->
                      [handle[t] EXCEPT !.path =
                          IF IsPrefix(old, @) THEN Rebase(@, old, new)
                          ELSE IF @ = new THEN NoPath ELSE @]]
  BY DEF Rename
<1>1. /\ old \in Seq(STRING) /\ new \in Seq(STRING) /\ NoPath \in Seq(STRING)
      /\ Root(s) \in Seq(STRING) /\ \A p \in Paths : p \in Seq(STRING)
  BY SessionAssumption, RootType DEF SessionInv, NoPath
<1>2. ASSUME NEW p \in Paths PROVE ~(IsPrefix(old, p) /\ IsPrefix(new, p))
  <2> SUFFICES ASSUME IsPrefix(old, p), IsPrefix(new, p) PROVE FALSE
    OBVIOUS
  <2>1. IsPrefix(new, old)
    BY <1>0, <1>1, PrefixOrder
  <2>2. new # old
    BY <1>0, <1>1, PrefixOrder
  <2> QED BY <1>0, <2>1, <2>2 DEF Nothing, IsStrictPrefix
<1>3. ASSUME NEW p \in Paths
      PROVE  /\ files'[p] \in Kinds
             /\ IsPrefix(new, p) /\ Rebase(p, new, old) \in Paths =>
                    files'[p] = files[Rebase(p, new, old)]
             /\ ~IsPrefix(old, p) /\ ~(IsPrefix(new, p) /\ Rebase(p, new, old) \in Paths) =>
                    files'[p] = files[p]
             /\ files'[p] # files[p] => IsPrefix(old, p) \/ IsPrefix(new, p)
  <2>1. CASE IsPrefix(new, p) /\ Rebase(p, new, old) \in Paths
    <3>1. files'[p] = files[Rebase(p, new, old)]
      BY <1>0, <1>2, <2>1
    <3> QED BY <1>2, <2>1, <3>1, HandleTypes
  <2>2. CASE IsPrefix(old, p) /\ ~(IsPrefix(new, p) /\ Rebase(p, new, old) \in Paths)
    <3>1. files'[p] = "none"
      BY <1>0, <2>2
    <3> QED BY <2>2, <3>1 DEF Kinds
  <2>3. CASE ~IsPrefix(old, p) /\ ~(IsPrefix(new, p) /\ Rebase(p, new, old) \in Paths)
    <3>1. files'[p] = files[p]
      BY <1>0, <2>3
    <3> QED BY <2>3, <3>1, HandleTypes
  <2> QED BY <2>1, <2>2, <2>3
<1>4. files' \in [Paths -> Kinds]
  <2> DEFINE F(p) == CASE IsPrefix(new, p) /\ Rebase(p, new, old) \in Paths ->
                              files[Rebase(p, new, old)]
                        [] IsPrefix(old, p) -> "none"
                        [] OTHER            -> files[p]
  <2>1. files' = [p \in Paths |-> F(p)]
    BY <1>0
  <2> HIDE DEF F
  <2>2. files' = [p \in Paths |-> files'[p]]
    BY <2>1
  <2> QED BY <1>3, <2>2
<1>5. ASSUME NEW p \in Paths, files'[p] # files[p] PROVE MayChange(s, p)
  <2>1. IsPrefix(old, p) \/ IsPrefix(new, p)
    BY <1>3, <1>5
  <2>2. Below(Root(s), p)
    BY <1>1, <2>1, PrefixOrder DEF Below
  <2> QED BY <1>0, <2>2 DEF MayChange
<1>6. handle' = [t \in Sessions |-> [handle[t] EXCEPT !.path = at[t]]]
  BY <1>0, HandleTypes
<1>7. ASSUME NEW t \in Sessions
      PROVE  /\ at[t] \in Paths \cup {NoPath}
             /\ at[t] # NoPath => /\ handle[t].path # NoPath
                                  /\ files'[at[t]] \in {"old", "new"}
                                  /\ \/ at[t] = handle[t].path
                                     \/ /\ Below(Root(s), handle[t].path)
                                        /\ Below(Root(s), at[t])
  <2> DEFINE p == handle[t].path
  <2>1. CASE p = NoPath
    <3>1. ~IsPrefix(old, NoPath)
      <4>1. Len(old) \in Nat /\ Len(old) # 0
        BY <1>1, HandleTypes, LenProperties, EmptySeq DEF NoPath
      <4>2. Len(NoPath) = 0
        BY DEF NoPath
      <4>3. IsPrefix(old, NoPath) => Len(old) <= Len(NoPath)
        BY <1>1, PrefixFacts
      <4> QED BY <4>1, <4>2, <4>3
    <3> QED BY <2>1, <3>1
  <2>2. CASE p # NoPath /\ IsPrefix(old, p)
    <3>1. p \in Paths /\ p \in Seq(STRING) /\ files[p] \in {"old", "new"}
      BY <1>1, <2>2, HandleTypes
    <3>2. at[t] = Rebase(p, old, new) /\ Rebase(p, old, new) \in Paths
      BY <1>0, <2>2, <3>1
    <3>3. IsPrefix(new, at[t]) /\ Rebase(at[t], new, old) = p
      BY <1>1, <2>2, <3>1, <3>2, RebaseFacts
    <3>4. files'[at[t]] = files[p]
      BY <1>3, <3>1, <3>2, <3>3
    <3>5. Below(Root(s), p) /\ Below(Root(s), at[t])
      BY <1>1, <2>2, <3>1, <3>2, <3>3, PrefixOrder DEF Below
    <3> QED BY <2>2, <3>1, <3>2, <3>4, <3>5
  <2>3. CASE p # NoPath /\ ~IsPrefix(old, p) /\ p # new
    <3>1. at[t] = p /\ p \in Paths /\ files[p] \in {"old", "new"}
      BY <2>3, HandleTypes
    <3>2. ~IsPrefix(new, p)
      BY <1>0, <2>3, <3>1 DEF Nothing, IsStrictPrefix
    <3>3. files'[p] = files[p]
      BY <1>3, <2>3, <3>1, <3>2
    <3> QED BY <2>3, <3>1, <3>3
  <2>4. CASE p # NoPath /\ ~IsPrefix(old, p) /\ p = new
    <3>1. at[t] = NoPath
      BY <2>4
    <3> QED BY <3>1
  <2> QED BY <2>1, <2>2, <2>3, <2>4
<1>8. at \in [Sessions -> Paths \cup {NoPath}]
  <2>1. at = [t \in Sessions |-> at[t]]
    OBVIOUS
  <2> HIDE DEF at
  <2> QED BY <1>7, <2>1
<1> HIDE DEF at
<1>9. HandlesKept /\ \A t \in Sessions : handle'[t].path = at[t]
  BY <1>6, <1>7, <1>8, HandlesMove
<1>10. MovesBelow(s)
  BY <1>0, <1>7, <1>9 DEF MovesBelow
<1> QED BY <1>0, <1>4, <1>5, <1>9, <1>10 DEF ClientKeeps

LEMMA WriteFileKeeps ==
    ASSUME SessionInv, NEW s \in Sessions, session[s] = "open", WriteFile(s)
    PROVE  ClientKeeps(s)
<1> DEFINE path == handle[s].path
<1>1. /\ UNCHANGED <<server, session, login, rights>>
      /\ handle' = handle /\ handle[s].writes
      /\ files' = IF path = NoPath THEN files ELSE [files EXCEPT ![path] = "new"]
  BY DEF WriteFile
<1>2. /\ files' \in [Paths -> Kinds]
      /\ \A p \in Paths : files'[p] # files[p] => p = path /\ path # NoPath
      /\ path # NoPath => files'[path] = "new"
  BY <1>1, HandleTypes DEF Kinds
<1>3. MayWrite(s) /\ Below(Root(s), handle[s].opened)
  <2>1. handle[s] # NoHandle
    BY <1>1 DEF NoHandle
  <2> QED BY <1>1, <2>1, HandleTypes
<1>4. \A p \in Paths : files'[p] # files[p] => MayChange(s, p)
  BY <1>1, <1>2, <1>3 DEF MayChange
<1>5. ASSUME NEW t \in Sessions, handle[t].path # NoPath
      PROVE  files'[handle[t].path] \in {"old", "new"}
  <2>1. handle[t].path \in Paths /\ files[handle[t].path] \in {"old", "new"}
    BY <1>5, HandleTypes
  <2> QED BY <1>2, <2>1
<1> HIDE DEF path
<1>6. HandlesKept
  BY <1>1, <1>5, HandleTypes DEF HandlesKept
<1>7. MovesBelow(s)
  BY <1>1 DEF MovesBelow
<1> QED BY <1>1, <1>2, <1>4, <1>6, <1>7 DEF ClientKeeps

\* A file is closed, or all that a session that ends has open.
LEMMA CloseKeeps ==
    ASSUME SessionInv, NEW s \in Sessions, handle' = [handle EXCEPT ![s] = NoHandle]
    PROVE  /\ handle' \in [Sessions -> Handle]
           /\ handle'[s] = NoHandle /\ NoHandle.path = NoPath /\ ~NoHandle.writes
           /\ \A t \in Sessions : t # s => handle'[t] = handle[t]
<1>1. NoHandle \in Handle /\ NoHandle.path = NoPath /\ ~NoHandle.writes
  BY DEF NoHandle, Handle
<1> QED BY <1>1, HandleTypes

LEMMA CloseFileKeeps ==
    ASSUME SessionInv, NEW s \in Sessions, CloseFile(s)
    PROVE  ClientKeeps(s)
<1>1. /\ UNCHANGED <<server, session, login, rights>>
      /\ files' = files /\ handle' = [handle EXCEPT ![s] = NoHandle]
  BY DEF CloseFile
<1>2. HandlesKept
  BY <1>1, CloseKeeps, HandleTypes DEF HandlesKept
<1>3. MovesBelow(s)
  BY <1>1, CloseKeeps DEF MovesBelow
<1>4. files' \in [Paths -> Kinds] /\ \A p \in Paths : files'[p] = files[p]
  BY <1>1, HandleTypes
<1> QED BY <1>1, <1>2, <1>3, <1>4 DEF ClientKeeps

LEMMA ClientStep ==
    ASSUME SessionInv, NEW s \in Sessions, Client(s)
    PROVE  session[s] = "open" /\ ClientKeeps(s)
<1>1. session[s] = "open" /\ SessionTypeOK
  BY DEF Client, SessionInv
<1>2. ASSUME NEW path \in Realpath(s), Operate(s, path) PROVE ClientKeeps(s)
  <2>1. path \in Paths /\ Below(Root(s), path)
    BY <1>1, RealpathFacts
  <2>2. ASSUME NEW access \in Accesses, NEW options \in SUBSET Options,
               OpenFile(s, path, access, options)
        PROVE  ClientKeeps(s)
    BY <1>1, <2>1, <2>2, OpenFileKeeps
  <2>3. CASE RemoveFile(s, path)
    BY <1>1, <2>1, <2>3, ChangeKeeps DEF RemoveFile
  <2>4. CASE MakeFolder(s, path)
    BY <1>1, <2>1, <2>4, ChangeKeeps, NoHandleThere DEF MakeFolder
  <2>5. CASE RemoveFolder(s, path)
    BY <1>1, <2>1, <2>5, ChangeKeeps, NoHandleThere DEF RemoveFolder
  <2> QED BY <1>2, <2>2, <2>3, <2>4, <2>5 DEF Operate
<1>3. ASSUME NEW old \in Realpath(s), NEW new \in Realpath(s), Rename(s, old, new)
      PROVE  ClientKeeps(s)
  <2>1. old \in Paths /\ Below(Root(s), old) /\ new \in Paths /\ Below(Root(s), new)
    BY <1>1, RealpathFacts
  <2> QED BY <1>1, <1>3, <2>1, RenameKeeps
<1> QED BY <1>1, <1>2, <1>3, WriteFileKeeps, CloseFileKeeps DEF Client

-----------------------------------------------------------------------------
\* The steps of tab and connections.
SettingsStep == Tab \/ \E s \in Sessions : Connect(s)

LEMMA SettingsKeep == SettingsStep => UNCHANGED <<entered, files, handle>>
BY DEF SettingsStep, Tab, Restart, EnterUsername, EnterPassword, EnterRights, EnterRoot,
       Connect, Accept, ReadRoot, ReadRights, ReadUsername, ReadPassword, Move, server

LEMMA AttributeTypes ==
    ASSUME SessionTypeOK
    PROVE  /\ latest \in Nat /\ latest <= MaxEntries /\ MaxEntries \in Nat
           /\ username \in Nat /\ password \in Nat /\ allow_write \in Nat
           /\ root_dir \in Nat
           /\ username \in 1..latest /\ password \in 1..latest
           /\ allow_write \in 1..latest /\ root_dir \in 1..latest
           /\ username \in Entries /\ password \in Entries
           /\ allow_write \in Entries /\ root_dir \in Entries
           /\ \A s \in Sessions : /\ rights[s].root \in Nat /\ rights[s].write \in Nat
                                  /\ login[s].username \in Nat
                                  /\ login[s].password \in Nat
<1>1. MaxEntries \in Nat /\ latest \in 1..MaxEntries
  BY SessionAssumption DEF SessionTypeOK, Entries
<1>2. /\ username \in 1..latest /\ password \in 1..latest
      /\ allow_write \in 1..latest /\ root_dir \in 1..latest
  BY DEF SessionTypeOK
<1>3. \A s \in Sessions : /\ rights[s].root \in Nat /\ rights[s].write \in Nat
                          /\ login[s].username \in Nat /\ login[s].password \in Nat
  BY <1>1 DEF SessionTypeOK, Entries
<1> QED BY <1>1, <1>2, <1>3 DEF Entries

LEMMA SessionTypeStep == SessionInv /\ [SessionNext]_sessionVars => SessionTypeOK'
<1> SUFFICES ASSUME SessionInv, [SessionNext]_sessionVars PROVE SessionTypeOK'
  OBVIOUS
<1>1. SessionTypeOK
  BY DEF SessionInv
<1>2. CASE UNCHANGED sessionVars
  BY <1>1, <1>2 DEF sessionVars, server, SessionTypeOK
<1>3. ASSUME NEW s \in Sessions, Client(s) PROVE SessionTypeOK'
  <2>1. /\ UNCHANGED <<server, session, login, rights>>
        /\ files' \in [Paths -> Kinds] /\ handle' \in [Sessions -> Handle]
    BY <1>3, ClientStep DEF ClientKeeps, HandlesKept
  <2> QED BY <1>1, <2>1 DEF SessionTypeOK, server
<1>4. CASE Tab
  <2>1. /\ UNCHANGED <<entered, session, login, rights, files, handle>>
        /\ entering' \in {"username", "password", "allow_write", "root_dir", "done"}
        /\ latest' \in Entries /\ latest <= latest'
        /\ \A a \in {username', password', allow_write', root_dir'} :
               a \in {username, password, allow_write, root_dir, latest}
    BY <1>1, <1>4, AttributeTypes
       DEF Tab, Restart, EnterUsername, EnterPassword, EnterRights, EnterRoot, Entries,
           SessionTypeOK
  <2>2. \A a \in {username, password, allow_write, root_dir, latest} : a \in 1..latest'
    BY <1>1, <2>1, AttributeTypes DEF Entries
  <2>3. {username', password', allow_write', root_dir'} \subseteq 1..latest'
    BY <2>1, <2>2
  <2> QED BY <1>1, <2>1, <2>3 DEF SessionTypeOK
<1>5. ASSUME NEW s \in Sessions, Connect(s) PROVE SessionTypeOK'
  <2>1. UNCHANGED <<latest, entered, entering, username, password, allow_write, root_dir,
                    files, handle>>
    BY <1>5 DEF Connect, Accept, ReadRoot, ReadRights, ReadUsername, ReadPassword, Move,
                server
  <2>2. session' \in [Sessions -> SessionStates]
    BY <1>1, <1>5 DEF SessionTypeOK, SessionStates, Connect, Accept, ReadRoot, ReadRights,
                      ReadUsername, ReadPassword, Move
  <2>3. /\ login' \in [Sessions -> [username : Entries, password : Entries]]
        /\ rights' \in [Sessions -> [write : Entries, root : Entries]]
    <3>0. /\ login \in [Sessions -> [username : Entries, password : Entries]]
          /\ rights \in [Sessions -> [write : Entries, root : Entries]]
      BY <1>1 DEF SessionTypeOK
    <3>1. CASE Accept(s)
      BY <3>0, <3>1 DEF Accept
    <3>2. CASE ReadRoot(s)
      <4>1. rights' = [rights EXCEPT ![s].root = root_dir] /\ login' = login
        BY <3>2 DEF ReadRoot
      <4> QED BY <1>1, <3>0, <4>1, AttributeTypes
    <3>3. CASE ReadRights(s)
      <4>1. rights' = [rights EXCEPT ![s].write = allow_write] /\ login' = login
        BY <3>3 DEF ReadRights
      <4> QED BY <1>1, <3>0, <4>1, AttributeTypes
    <3>4. CASE ReadUsername(s)
      <4>1. login' = [login EXCEPT ![s].username = username] /\ rights' = rights
        BY <3>4 DEF ReadUsername
      <4> QED BY <1>1, <3>0, <4>1, AttributeTypes
    <3>5. CASE ReadPassword(s)
      <4>1. login' = [login EXCEPT ![s].password = password] /\ rights' = rights
        BY <3>5 DEF ReadPassword
      <4> QED BY <1>1, <3>0, <4>1, AttributeTypes
    <3> QED BY <1>5, <3>1, <3>2, <3>3, <3>4, <3>5 DEF Connect
  <2> QED BY <1>1, <2>1, <2>2, <2>3 DEF SessionTypeOK
<1>6. ASSUME NEW s \in Sessions, Disconnect(s) PROVE SessionTypeOK'
  <2>1. /\ UNCHANGED <<server, files>> /\ handle' \in [Sessions -> Handle]
        /\ session' = [session EXCEPT ![s] = "none"]
        /\ login' = [login EXCEPT ![s] = NoLogin]
        /\ rights' = [rights EXCEPT ![s] = NoRights]
    BY <1>6, CloseKeeps DEF Disconnect
  <2>2. /\ NoLogin \in [username : Entries, password : Entries]
        /\ NoRights \in [write : Entries, root : Entries]
    BY SessionAssumption DEF NoLogin, NoRights, Entries
  <2> QED BY <1>1, <2>1, <2>2 DEF SessionTypeOK, SessionStates, server
<1> QED BY <1>2, <1>3, <1>4, <1>5, <1>6 DEF SessionNext

\* What the tab writes keeps the order, and no attribute becomes older.
LEMMA TabOrder ==
    ASSUME SessionInv, Tab
    PROVE  /\ WrittenInOrder'
           /\ allow_write <= allow_write' /\ password <= password'
<1>1. WrittenInOrder /\ SessionTypeOK
  BY DEF SessionInv
<1>2. CASE Restart
  BY <1>1, <1>2, AttributeTypes DEF Restart, WrittenInOrder
<1>3. CASE EnterUsername
  BY <1>1, <1>3, AttributeTypes DEF EnterUsername, WrittenInOrder
<1>4. CASE EnterPassword
  BY <1>1, <1>4, AttributeTypes DEF EnterPassword, WrittenInOrder
<1>5. CASE EnterRights
  BY <1>1, <1>5, AttributeTypes DEF EnterRights, WrittenInOrder
<1>6. CASE EnterRoot
  BY <1>1, <1>6, AttributeTypes DEF EnterRoot, WrittenInOrder
<1> QED BY <1>2, <1>3, <1>4, <1>5, <1>6 DEF Tab

LEMMA OrderStep ==
    SessionInv /\ [SessionNext]_sessionVars => WrittenInOrder' /\ ReadInOrder'
<1> SUFFICES ASSUME SessionInv, [SessionNext]_sessionVars
             PROVE  WrittenInOrder' /\ ReadInOrder'
  OBVIOUS
<1>1. WrittenInOrder /\ ReadInOrder /\ SessionTypeOK
  BY DEF SessionInv
<1>2. CASE UNCHANGED <<server, session, login, rights>>
  BY <1>1, <1>2 DEF server, WrittenInOrder, ReadInOrder
<1>3. CASE Tab
  <2>1. UNCHANGED <<session, login, rights>>
    BY <1>3 DEF Tab, Restart, EnterUsername, EnterPassword, EnterRights, EnterRoot
  <2>2. /\ WrittenInOrder' /\ SessionTypeOK'
        /\ allow_write <= allow_write' /\ password <= password'
    BY <1>3, TabOrder, SessionTypeStep
  <2>3. allow_write' \in Nat /\ password' \in Nat
    <3>1. /\ latest' \in 1..MaxEntries
          /\ {allow_write', password'} \subseteq 1..latest'
      BY <2>2 DEF SessionTypeOK, Entries
    <3> QED BY <3>1
  <2>4. ReadInOrder'
    BY <1>1, <2>1, <2>2, <2>3, AttributeTypes DEF ReadInOrder
  <2> QED BY <2>2, <2>4
<1>4. ASSUME NEW s \in Sessions, Connect(s) PROVE WrittenInOrder' /\ ReadInOrder'
  <2>1. UNCHANGED <<latest, entering, username, password, allow_write, root_dir>>
    BY <1>4 DEF Connect, Accept, ReadRoot, ReadRights, ReadUsername, ReadPassword, Move,
                server
  <2>2. WrittenInOrder'
    BY <1>1, <2>1 DEF WrittenInOrder
  <2>3. /\ session \in [Sessions -> SessionStates]
        /\ login \in [Sessions -> [username : Entries, password : Entries]]
        /\ rights \in [Sessions -> [write : Entries, root : Entries]]
    BY <1>1 DEF SessionTypeOK
  <2>4. /\ \A t \in Sessions : t # s => /\ session'[t] = session[t]
                                        /\ login'[t] = login[t] /\ rights'[t] = rights[t]
        /\ \/ session'[s] = "accepted"
           \/ session'[s] = "root" /\ rights'[s].root = root_dir
           \/ /\ session[s] = "root" /\ session'[s] = "class"
              /\ rights'[s].root = rights[s].root /\ rights'[s].write = allow_write
           \/ /\ session[s] = "class" /\ session'[s] = "username"
              /\ rights'[s] = rights[s] /\ login'[s].username = username
           \/ /\ session[s] = "username" /\ session'[s] = "open"
              /\ rights'[s] = rights[s]
              /\ login'[s].username = login[s].username /\ login'[s].password = password
    BY <1>4, <2>3
       DEF Connect, Accept, ReadRoot, ReadRights, ReadUsername, ReadPassword, Move
  <2> DEFINE InOrder(t) ==
        /\ session[t] = "root" => rights[t].root <= allow_write
        /\ session[t] \in {"class", "username", "open"} =>
               rights[t].root <= rights[t].write /\ rights[t].write <= password
        /\ session[t] \in {"username", "open"} => rights[t].write <= login[t].username
        /\ session[t] = "open" => rights[t].write <= login[t].password
  <2>5. ASSUME NEW t \in Sessions, t # s PROVE InOrder(t)'
    BY <1>1, <2>1, <2>4, <2>5 DEF ReadInOrder
  <2>6. InOrder(s)'
    <3>1. InOrder(s) /\ root_dir <= allow_write /\ allow_write <= password
          /\ password <= username
      BY <1>1 DEF ReadInOrder, WrittenInOrder
    <3> QED BY <1>1, <2>1, <2>4, <3>1, AttributeTypes
  <2>7. ReadInOrder'
    BY <2>5, <2>6 DEF ReadInOrder
  <2> QED BY <2>2, <2>7
<1>5. ASSUME NEW s \in Sessions, Client(s) PROVE UNCHANGED <<server, session, login, rights>>
  BY <1>5, ClientStep DEF ClientKeeps
<1>6. ASSUME NEW s \in Sessions, Disconnect(s) PROVE WrittenInOrder' /\ ReadInOrder'
  <2>1. /\ UNCHANGED server /\ session'[s] = "none"
        /\ \A t \in Sessions : t # s => /\ session'[t] = session[t]
                                        /\ login'[t] = login[t] /\ rights'[t] = rights[t]
    BY <1>1, <1>6 DEF Disconnect, SessionTypeOK
  <2> QED BY <1>1, <2>1 DEF server, WrittenInOrder, ReadInOrder
<1> QED BY <1>2, <1>3, <1>4, <1>5, <1>6 DEF SessionNext, sessionVars

LEMMA HandleStep == SessionInv /\ [SessionNext]_sessionVars => HandlesInv'
<1> SUFFICES ASSUME SessionInv, [SessionNext]_sessionVars PROVE HandlesInv'
  OBVIOUS
<1>1. HandlesInv /\ SessionTypeOK
  BY DEF SessionInv
<1>2. CASE UNCHANGED sessionVars
  BY <1>1, <1>2 DEF sessionVars, server, HandlesInv, MayWrite, Root
<1>3. CASE Tab
  <2>1. UNCHANGED <<entered, session, rights, files, handle>>
    BY <1>3 DEF Tab, Restart, EnterUsername, EnterPassword, EnterRights, EnterRoot
  <2> QED BY <1>1, <2>1 DEF HandlesInv, MayWrite, Root
<1>4. ASSUME NEW s \in Sessions, Connect(s) \/ Disconnect(s) PROVE HandlesInv'
  <2>1. /\ UNCHANGED <<entered, files>>
        /\ handle'[s] = NoHandle /\ NoHandle.path = NoPath /\ ~NoHandle.writes
        /\ \A t \in Sessions : t # s => /\ session'[t] = session[t]
                                        /\ rights'[t] = rights[t] /\ handle'[t] = handle[t]
    <3>1. CASE Connect(s)
      <4>1. /\ UNCHANGED <<entered, files, handle>> /\ session[s] # "open"
            /\ \A t \in Sessions : t # s => /\ session'[t] = session[t]
                                            /\ rights'[t] = rights[t]
        BY <1>1, <3>1 DEF Connect, Accept, ReadRoot, ReadRights, ReadUsername,
                          ReadPassword, Move, server, SessionTypeOK
      <4>2. handle[s] = NoHandle
        BY <4>1, HandleTypes
      <4> QED BY <4>1, <4>2 DEF NoHandle
    <3>2. CASE Disconnect(s)
      <4>1. /\ UNCHANGED <<entered, files>> /\ handle' = [handle EXCEPT ![s] = NoHandle]
            /\ \A t \in Sessions : t # s => /\ session'[t] = session[t]
                                            /\ rights'[t] = rights[t]
        BY <1>1, <3>2 DEF Disconnect, server, SessionTypeOK
      <4> QED BY <4>1, CloseKeeps
    <3> QED BY <1>4, <3>1, <3>2
  <2>2. ASSUME NEW t \in Sessions
        PROVE  /\ handle'[t] # NoHandle =>
                     session'[t] = "open" /\ Below(Root(t)', handle'[t].opened)
               /\ handle'[t].writes => MayWrite(t)'
               /\ handle'[t].path # NoPath => files'[handle'[t].path] \in {"old", "new"}
    <3>1. CASE t = s
      BY <2>1, <3>1
    <3>2. CASE t # s
      BY <1>1, <2>1, <3>2 DEF HandlesInv, MayWrite, Root
    <3> QED BY <3>1, <3>2
  <2> QED BY <2>2 DEF HandlesInv, Below
<1>5. ASSUME NEW s \in Sessions, Client(s) PROVE HandlesInv'
  <2>1. ClientKeeps(s)
    BY <1>5, ClientStep
  <2>2. UNCHANGED <<entered, session, rights>>
    BY <2>1 DEF ClientKeeps, server
  <2> QED BY <2>1, <2>2 DEF ClientKeeps, HandlesKept, HandlesInv, MayWrite, Root, Below
<1> QED BY <1>2, <1>3, <1>4, <1>5 DEF SessionNext

-----------------------------------------------------------------------------
LEMMA SessionInvInit == SessionInit => SessionInv
<1> SUFFICES ASSUME SessionInit PROVE SessionInv
  OBVIOUS
<1>1. 1 \in Entries /\ \A x \in Entries : x \in Nat
  BY SessionAssumption DEF Entries
<1>2. SessionTypeOK
  BY <1>1 DEF SessionInit, SessionTypeOK, SessionStates, Kinds, Handle, NoHandle, NoPath,
              NoLogin, NoRights
<1>3. WrittenInOrder /\ ReadInOrder
  BY DEF SessionInit, WrittenInOrder, ReadInOrder
<1>4. HandlesInv
  BY DEF SessionInit, HandlesInv, NoHandle, NoPath
<1> QED BY <1>2, <1>3, <1>4 DEF SessionInv

\* The settings are written in one order and read in the opposite one; a handle was opened
\* below the root of its session, and its path is where its file is
\* (sftp_server.py:43-65, 89-137, 177-185, ftp_tab.py:70-74, main.py:88-89).
THEOREM SessionInvariantCorrect == SessionSpec => []SessionInv
<1>1. SessionInv /\ [SessionNext]_sessionVars => SessionInv'
  BY SessionTypeStep, OrderStep, HandleStep DEF SessionInv
<1> QED BY <1>1, SessionInvInit, PTL DEF SessionSpec

\* No session that asks for the account of an earlier start has rights or a root entered
\* later (sftp_server.py:182-183, ftp_tab.py:70-74, main.py:88-89).
THEOREM NothingNewForOldAccountCorrect == SessionSpec => []NothingNewForOldAccount
<1>1. SessionInv => NothingNewForOldAccount
  BY DEF SessionInv, ReadInOrder, NothingNewForOldAccount
<1> QED BY <1>1, SessionInvariantCorrect, PTL

\* Files change only through an open session with the right to write, below its root or
\* in a file it opened there, whatever the roots are and whatever other sessions rename
\* meanwhile (sftp_server.py:37-65, 89-137).
THEOREM OnlyAllowedChangesCorrect == SessionSpec => OnlyAllowedChanges
<1> DEFINE Allowed == \A p \in Paths : files'[p] # files[p] =>
                          \E s \in Sessions : MayChange(s, p)
<1>1. SessionInv /\ [SessionNext]_sessionVars => [Allowed]_sessionVars
  <2> SUFFICES ASSUME SessionInv, SessionNext PROVE Allowed
    OBVIOUS
  <2>1. CASE SettingsStep
    BY <2>1, SettingsKeep
  <2>2. ASSUME NEW s \in Sessions, Client(s) PROVE Allowed
    BY <2>2, ClientStep DEF ClientKeeps
  <2>3. ASSUME NEW s \in Sessions, Disconnect(s) PROVE Allowed
    BY <2>3 DEF Disconnect
  <2> QED BY <2>1, <2>2, <2>3 DEF SessionNext, SettingsStep
<1>2. SessionSpec => [][Allowed]_sessionVars
  BY <1>1, SessionInvariantCorrect, PTL DEF SessionSpec
<1> QED BY <1>2 DEF OnlyAllowedChanges

\* What moves an open file out of the root it is in is a session with the right to write
\* and a root further up (sftp_server.py:55-65, 108-117).
THEOREM LeavesRootFromAboveCorrect == SessionSpec => LeavesRootFromAbove
<1> DEFINE Leaves(t) == /\ handle[t].path # NoPath /\ Below(Root(t), handle[t].path)
                        /\ handle'[t].path # NoPath /\ ~Below(Root(t), handle'[t].path)
           FromAbove(t) == \E s \in Sessions : /\ session[s] = "open" /\ MayWrite(s)
                                               /\ IsStrictPrefix(Root(s), Root(t))
           Allowed == \A t \in Sessions : Leaves(t) => FromAbove(t)
<1>1. SessionInv /\ [SessionNext]_sessionVars => [Allowed]_sessionVars
  <2> SUFFICES ASSUME SessionInv, SessionNext, NEW t \in Sessions, Leaves(t)
               PROVE  FromAbove(t)
    OBVIOUS
  <2>1. CASE SettingsStep
    BY <2>1, SettingsKeep
  <2>2. ASSUME NEW s \in Sessions, Disconnect(s) PROVE FromAbove(t)
    <3>1. handle' = [handle EXCEPT ![s] = NoHandle]
      BY <2>2 DEF Disconnect
    <3>2. handle'[t] = handle[t] \/ handle'[t].path = NoPath
      BY <3>1, CloseKeeps
    <3> QED BY <3>2
  <2>3. ASSUME NEW s \in Sessions, Client(s) PROVE FromAbove(t)
    <3> DEFINE p == handle[t].path
               q == handle'[t].path
    <3>1. /\ session[s] = "open" /\ MayWrite(s)
          /\ Below(Root(s), p) /\ Below(Root(s), q)
      BY <2>3, ClientStep DEF ClientKeeps, MovesBelow
    <3>2. /\ Root(s) \in Seq(STRING) /\ Root(t) \in Seq(STRING)
          /\ p \in Seq(STRING) /\ q \in Seq(STRING)
      <4>1. p \in Paths /\ handle' \in [Sessions -> Handle]
        BY <2>3, HandleTypes, ClientStep DEF ClientKeeps, HandlesKept
      <4>2. q \in Paths
        BY <4>1 DEF Handle
      <4> QED BY <4>1, <4>2, RootType, SessionAssumption DEF SessionInv
    <3>3. ~IsPrefix(Root(t), Root(s))
      BY <3>1, <3>2, PrefixOrder DEF Below
    <3>4. IsPrefix(Root(s), Root(t))
      BY <3>1, <3>2, <3>3, PrefixOrder DEF Below
    <3>5. Root(s) # Root(t)
      BY <3>1
    <3> QED BY <3>1, <3>4, <3>5 DEF IsStrictPrefix
  <2> QED BY <2>1, <2>2, <2>3 DEF SessionNext, SettingsStep
<1>2. SessionSpec => [][Allowed]_sessionVars
  BY <1>1, SessionInvariantCorrect, PTL DEF SessionSpec
<1> QED BY <1>2 DEF LeavesRootFromAbove
=============================================================================

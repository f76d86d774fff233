---------------------------- MODULE WindowProofs ----------------------------
(* Proofs about what the window displays: syslog messages, and all the rest. *)
EXTENDS LogView, Window, SequenceTheorems, TLAPS

-----------------------------------------------------------------------------
\* LogView: the logs, the list and the rows still to render.

\* The last n elements of a sequence, by index.
LEMMA LatestFacts ==
    ASSUME NEW S, NEW s \in Seq(S), NEW n \in Nat
    PROVE  /\ Latest(n, s) \in Seq(S)
           /\ Len(Latest(n, s)) = IF Len(s) <= n THEN Len(s) ELSE n
           /\ \A i \in 1..Len(Latest(n, s)) :
                  Latest(n, s)[i] = s[Len(s) - Len(Latest(n, s)) + i]
<1>1. Len(s) \in Nat /\ s \in [1..Len(s) -> S]
  BY LenProperties
<1>2. CASE Len(s) <= n
  <2>1. Latest(n, s) = s
    BY <1>2 DEF Latest
  <2> QED BY <1>1, <1>2, <2>1
<1>3. CASE Len(s) > n
  <2> DEFINE m == Len(s) - n + 1
             t == SubSeq(s, m, Len(s))
  <2>1. Latest(n, s) = t
    BY <1>1, <1>3 DEF Latest
  <2>2. m \in 1..(Len(s) + 1) /\ \A i \in m..Len(s) : s[i] \in S
    BY <1>1, <1>3
  <2>3. /\ t \in Seq(S)
        /\ Len(t) = n
        /\ \A i \in 1..(Len(s) - m + 1) : t[i] = s[m + i - 1]
    BY <1>1, <1>3, <2>2, SubSeqProperties
  <2> HIDE DEF t
  <2>4. \A i \in 1..n : t[i] = s[Len(s) - n + i]
    BY <1>1, <1>3, <2>3
  <2>5. \A i \in 1..Len(t) : t[i] = s[Len(s) - Len(t) + i]
    BY <2>3, <2>4
  <2>6. ~(Len(s) <= n)
    BY <1>1, <1>3
  <2> QED BY <2>1, <2>3, <2>5, <2>6, Zenon
<1> QED BY <1>1, <1>2, <1>3

\* An element comes at the end of a sequence that is kept to n elements.
LEMMA KeptFacts ==
    ASSUME NEW S, NEW s \in Seq(S), NEW e \in S, NEW n \in Nat \ {0}, Len(s) <= n,
           NEW t, t = Latest(n, Append(s, e))
    PROVE  /\ t \in Seq(S)
           /\ Len(s) \in Nat
           /\ Len(t) = IF Len(s) < n THEN Len(s) + 1 ELSE n
           /\ t[Len(t)] = e
           /\ \A i \in 1..(Len(t) - 1) :
                  /\ Len(s) + 1 - Len(t) + i \in 1..Len(s)
                  /\ t[i] = s[Len(s) + 1 - Len(t) + i]
<1> DEFINE a == Append(s, e)
<1>1. /\ Len(s) \in Nat
      /\ a \in Seq(S) /\ Len(a) = Len(s) + 1
      /\ a[Len(s) + 1] = e /\ \A i \in 1..Len(s) : a[i] = s[i]
  BY LenProperties, AppendProperties
<1> HIDE DEF a
<1>2. /\ t \in Seq(S)
      /\ Len(t) = IF Len(a) <= n THEN Len(a) ELSE n
      /\ \A i \in 1..Len(t) : t[i] = a[Len(a) - Len(t) + i]
  BY <1>1, LatestFacts DEF a
<1>3. Len(t) = IF Len(s) < n THEN Len(s) + 1 ELSE n
  BY <1>1, <1>2
<1>4. Len(t) \in 1..(Len(s) + 1)
  BY <1>1, <1>3
<1>5. \A i \in 1..(Len(t) - 1) : /\ Len(s) + 1 - Len(t) + i \in 1..Len(s)
                                 /\ t[i] = s[Len(s) + 1 - Len(t) + i]
  <2> TAKE i \in 1..(Len(t) - 1)
  <2>1. Len(s) + 1 - Len(t) + i \in 1..Len(s) /\ i \in 1..Len(t)
    BY <1>1, <1>4
  <2>2. Len(a) - Len(t) + i = Len(s) + 1 - Len(t) + i
    BY <1>1
  <2>3. t[i] = a[Len(a) - Len(t) + i]
    BY <1>2, <2>1
  <2> QED BY <1>1, <2>1, <2>2, <2>3
<1>6. t[Len(t)] = e
  <2>1. Len(t) \in 1..Len(t) /\ Len(a) - Len(t) + Len(t) = Len(s) + 1
    BY <1>1, <1>4
  <2>2. t[Len(t)] = a[Len(a) - Len(t) + Len(t)]
    BY <1>2, <2>1
  <2> QED BY <1>1, <2>1, <2>2
<1> QED BY <1>1, <1>2, <1>3, <1>5, <1>6

\* The head of a queue and what is left of it, by index.
LEMMA TailFacts ==
    ASSUME NEW S, NEW s \in Seq(S), s # <<>>
    PROVE  /\ Len(s) \in Nat \ {0}
           /\ Head(s) = s[1] /\ Head(s) \in S
           /\ Tail(s) \in Seq(S) /\ Len(Tail(s)) = Len(s) - 1
           /\ \A i \in 1..(Len(s) - 1) : Tail(s)[i] = s[i + 1]
BY EmptySeq, HeadTailProperties

LEMMA AppendFacts ==
    ASSUME NEW S, NEW s \in Seq(S), NEW e \in S
    PROVE  /\ Len(s) \in Nat
           /\ Append(s, e) \in Seq(S) /\ Len(Append(s, e)) = Len(s) + 1
           /\ Append(s, e)[Len(s) + 1] = e
           /\ \A i \in 1..Len(s) : Append(s, e)[i] = s[i]
BY LenProperties, AppendProperties

\* What the invariants need to know of the variables.
LEMMA TypeFacts ==
    ASSUME TypeOK
    PROVE  /\ received \in Nat /\ Len(log_queue) \in Nat
           /\ Len(logs) \in Nat /\ Len(controls) \in Nat /\ Len(todo) \in Nat
           /\ DOMAIN log_queue = 1..Len(log_queue) /\ DOMAIN logs = 1..Len(logs)
           /\ DOMAIN controls = 1..Len(controls) /\ DOMAIN todo = 1..Len(todo)
           /\ \A k \in 1..Len(log_queue) : log_queue[k] \in Row
           /\ \A k \in 1..Len(logs) : logs[k] \in Row
           /\ \A k \in 1..Len(controls) : controls[k] \in Row
           /\ \A k \in 1..Len(todo) : todo[k] \in Row
           /\ \A row \in Row : row.id \in Nat \ {0} /\ row.kind \in Kinds
           /\ Seen \in Int
           /\ LogCap \in Nat \ {0} /\ ViewCap \in Nat \ {0} /\ ViewCap <= LogCap
<1>1. /\ log_queue \in Seq(Row) /\ logs \in Seq(Row) /\ controls \in Seq(Row)
      /\ todo \in Seq(Row) /\ received \in Nat
  BY LogViewAssumption DEF TypeOK
<1>2. \A s \in Seq(Row) : /\ Len(s) \in Nat /\ DOMAIN s = 1..Len(s)
                          /\ \A k \in 1..Len(s) : s[k] \in Row
  BY LenProperties
<1>3. \A row \in Row : row.id \in Nat \ {0} /\ row.kind \in Kinds
  BY LogViewAssumption DEF Row
<1> QED BY <1>1, <1>2, <1>3, LogViewAssumption DEF Seen

-----------------------------------------------------------------------------
LEMMA TypeStep == IInv /\ [Next]_vars => TypeOK'
<1> SUFFICES ASSUME IInv, [Next]_vars PROVE TypeOK'
  OBVIOUS
<1> USE DEF TypeOK
<1>1. TypeOK /\ RenderInv
  BY DEF IInv
<1>2. ASSUME NEW kind \in Kinds, Receive(kind) PROVE TypeOK'
  <2>1. [id |-> received + 1, kind |-> kind] \in Row /\ received + 1 \in 0..MaxMsgs
    BY <1>1, <1>2, LogViewAssumption DEF Receive, Row
  <2>2. log_queue' \in Seq(Row)
    BY <1>1, <1>2, <2>1, AppendFacts DEF Receive
  <2> QED BY <1>1, <1>2, <2>1, <2>2 DEF Receive
<1>3. CASE AppendLog
  <2>1. Head(log_queue) \in Row /\ log_queue' \in Seq(Row)
    BY <1>1, <1>3, TailFacts DEF AppendLog
  <2>2. logs' \in Seq(Row) /\ Len(logs') <= LogCap
    BY <1>1, <1>3, <2>1, KeptFacts, LogViewAssumption DEF AppendLog, Keep
  <2>3. controls' \in Seq(Row) /\ Len(controls') <= ViewCap
    BY <1>1, <1>3, <2>1, KeptFacts, LogViewAssumption DEF AppendLog, List
  <2> QED BY <1>1, <1>3, <2>1, <2>2, <2>3 DEF AppendLog
<1>4. CASE FindEmpty \/ UpdatePage
  BY <1>1, <1>4 DEF FindEmpty, UpdatePage
<1>5. ASSUME NEW h \in Handlers, NEW f \in Filters, SetFilter(h, f) PROVE TypeOK'
  BY <1>1, <1>5, LogViewAssumption DEF SetFilter
<1>6. ASSUME NEW h \in Handlers, StartRender(h) PROVE TypeOK'
  <2>1. controls' \in Seq(Row) /\ Len(controls') = 0
    BY <1>6, EmptySeq DEF StartRender
  <2>2. todo' \in Seq(Row)
    BY <1>1, <1>6, LatestFacts, LogViewAssumption DEF StartRender
  <2> QED BY <1>1, <1>6, <2>1, <2>2, LogViewAssumption DEF StartRender
<1>7. ASSUME NEW h \in Handlers, RenderRow(h) PROVE TypeOK'
  <2>1. /\ Head(todo) \in Row /\ todo' \in Seq(Row) /\ Len(todo) \in Nat \ {0}
    BY <1>1, <1>7, TailFacts DEF RenderRow
  <2>2. controls' \in Seq(Row) /\ Len(controls') <= Len(controls) + 1
    BY <1>1, <1>7, <2>1, AppendFacts DEF RenderRow
  <2>3. Len(controls') <= ViewCap
    BY <1>1, <2>1, <2>2, LogViewAssumption, LenProperties DEF RenderInv
  <2> QED BY <1>1, <1>7, <2>1, <2>2, <2>3 DEF RenderRow
<1>8. ASSUME NEW h \in Handlers, EndRender(h) PROVE TypeOK'
  BY <1>1, <1>8 DEF EndRender
<1>9. CASE Refresh
  BY <1>1, <1>9 DEF Refresh
<1>10. CASE UNCHANGED vars
  BY <1>1, <1>10 DEF vars
<1> QED BY <1>2, <1>3, <1>4, <1>5, <1>6, <1>7, <1>8, <1>9, <1>10
        DEF Next, Checker, Render

-----------------------------------------------------------------------------
\* A message that arrives changes the end of the queue only.
LEMMA ReceiveEffect ==
    ASSUME TypeOK, NEW kind \in Kinds, Receive(kind)
    PROVE  /\ Seen' = Seen
           /\ Len(log_queue') = Len(log_queue) + 1
           /\ log_queue'[Len(log_queue) + 1].id = received + 1
           /\ \A k \in 1..Len(log_queue) : log_queue'[k] = log_queue[k]
<1>1. [id |-> received + 1, kind |-> kind] \in Row
  BY LogViewAssumption DEF TypeOK, Receive, Row
<1>2. log_queue \in Seq(Row) /\ received \in Nat
  BY LogViewAssumption DEF TypeOK
<1>3. /\ Len(log_queue) \in Nat
      /\ Len(log_queue') = Len(log_queue) + 1
      /\ log_queue'[Len(log_queue) + 1] = [id |-> received + 1, kind |-> kind]
      /\ \A k \in 1..Len(log_queue) : log_queue'[k] = log_queue[k]
  BY <1>1, <1>2, AppendFacts DEF Receive
<1>4. received' = received + 1
  BY DEF Receive
<1> QED BY <1>2, <1>3, <1>4 DEF Seen

\* The message that is taken off, and what becomes of queue, logs and list, by index.
LEMMA AppendEffect ==
    ASSUME IInv, AppendLog, NEW row, row = Head(log_queue)
    PROVE  /\ Len(todo) = 0 /\ todo' = todo
           /\ row \in Row /\ row.id = Seen + 1 /\ Seen' = Seen + 1
           /\ Len(log_queue) \in Nat \ {0} /\ Len(log_queue') = Len(log_queue) - 1
           /\ \A k \in 1..(Len(log_queue) - 1) : log_queue'[k] = log_queue[k + 1]
           /\ Len(logs') = IF Len(logs) < LogCap THEN Len(logs) + 1 ELSE LogCap
           /\ logs'[Len(logs')] = row
           /\ \A i \in 1..(Len(logs') - 1) :
                  /\ Len(logs) + 1 - Len(logs') + i \in 1..Len(logs)
                  /\ logs'[i] = logs[Len(logs) + 1 - Len(logs') + i]
           /\ row.kind \notin filter => controls' = controls
           /\ row.kind \in filter =>
                 /\ Len(controls') = IF Len(controls) < ViewCap THEN Len(controls) + 1
                                                                ELSE ViewCap
                 /\ controls'[Len(controls')] = row
                 /\ \A i \in 1..(Len(controls') - 1) :
                        /\ Len(controls) + 1 - Len(controls') + i \in 1..Len(controls)
                        /\ controls'[i] =
                              controls[Len(controls) + 1 - Len(controls') + i]
<1>1. TypeOK /\ QueueInv /\ RenderInv
  BY DEF IInv
<1>2. log_queue \in Seq(Row) /\ log_queue # <<>> /\ log_queue' = Tail(log_queue)
  BY <1>1 DEF TypeOK, AppendLog
<1>3. /\ Len(log_queue) \in Nat \ {0} /\ Len(log_queue') = Len(log_queue) - 1
      /\ row = log_queue[1] /\ row \in Row
      /\ \A k \in 1..(Len(log_queue) - 1) : log_queue'[k] = log_queue[k + 1]
  BY <1>2, TailFacts
<1>4. row.id = Seen + 1
  BY <1>1, <1>3, TypeFacts DEF QueueInv
<1>5. Seen' = Seen + 1
  BY <1>1, <1>3, TypeFacts DEF AppendLog, Seen
<1>6. todo = <<>> /\ todo' = todo
  BY <1>1 DEF AppendLog, Unlocked, RenderInv
<1>7. /\ logs \in Seq(Row) /\ Len(logs) <= LogCap /\ LogCap \in Nat \ {0}
      /\ controls \in Seq(Row) /\ Len(controls) <= ViewCap /\ ViewCap \in Nat \ {0}
  BY <1>1, LogViewAssumption DEF TypeOK
<1>8. /\ logs' = Latest(LogCap, Append(logs, row))
      /\ controls' = IF row.kind \in filter
                     THEN Latest(ViewCap, Append(controls, row)) ELSE controls
  BY DEF AppendLog, Keep, List
<1>9. /\ Len(logs') = IF Len(logs) < LogCap THEN Len(logs) + 1 ELSE LogCap
      /\ logs'[Len(logs')] = row
      /\ \A i \in 1..(Len(logs') - 1) :
             /\ Len(logs) + 1 - Len(logs') + i \in 1..Len(logs)
             /\ logs'[i] = logs[Len(logs) + 1 - Len(logs') + i]
  <2> DEFINE t == logs'
  <2>1. t = Latest(LogCap, Append(logs, row))
    BY <1>8
  <2> HIDE DEF t
  <2>2. /\ Len(t) = IF Len(logs) < LogCap THEN Len(logs) + 1 ELSE LogCap
        /\ t[Len(t)] = row
        /\ \A i \in 1..(Len(t) - 1) : /\ Len(logs) + 1 - Len(t) + i \in 1..Len(logs)
                                      /\ t[i] = logs[Len(logs) + 1 - Len(t) + i]
    <3>1. /\ logs \in Seq(Row) /\ row \in Row /\ LogCap \in Nat \ {0}
          /\ Len(logs) <= LogCap
      BY <1>3, <1>7
    <3>2. Len(t) = IF Len(logs) < LogCap THEN Len(logs) + 1 ELSE LogCap
      BY <2>1, <3>1, KeptFacts
    <3>3. t[Len(t)] = row
      BY <2>1, <3>1, KeptFacts
    <3>4. \A i \in 1..(Len(t) - 1) : /\ Len(logs) + 1 - Len(t) + i \in 1..Len(logs)
                                     /\ t[i] = logs[Len(logs) + 1 - Len(t) + i]
      BY <2>1, <3>1, KeptFacts
    <3> QED BY <3>2, <3>3, <3>4
  <2> QED BY <2>2 DEF t
<1>10. row.kind \in filter =>
          /\ Len(controls') = IF Len(controls) < ViewCap THEN Len(controls) + 1
                                                         ELSE ViewCap
          /\ controls'[Len(controls')] = row
          /\ \A i \in 1..(Len(controls') - 1) :
                 /\ Len(controls) + 1 - Len(controls') + i \in 1..Len(controls)
                 /\ controls'[i] = controls[Len(controls) + 1 - Len(controls') + i]
  <2> SUFFICES ASSUME row.kind \in filter
               PROVE  /\ Len(controls') = IF Len(controls) < ViewCap THEN Len(controls) + 1
                                                                     ELSE ViewCap
                      /\ controls'[Len(controls')] = row
                      /\ \A i \in 1..(Len(controls') - 1) :
                             /\ Len(controls) + 1 - Len(controls') + i
                                    \in 1..Len(controls)
                             /\ controls'[i] =
                                   controls[Len(controls) + 1 - Len(controls') + i]
    OBVIOUS
  <2> DEFINE t == controls'
  <2>1. t = Latest(ViewCap, Append(controls, row))
    BY <1>8
  <2> HIDE DEF t
  <2>2. /\ Len(t) = IF Len(controls) < ViewCap THEN Len(controls) + 1 ELSE ViewCap
        /\ t[Len(t)] = row
        /\ \A i \in 1..(Len(t) - 1) :
               /\ Len(controls) + 1 - Len(t) + i \in 1..Len(controls)
               /\ t[i] = controls[Len(controls) + 1 - Len(t) + i]
    <3>1. /\ controls \in Seq(Row) /\ row \in Row /\ ViewCap \in Nat \ {0}
          /\ Len(controls) <= ViewCap
      BY <1>3, <1>7
    <3>2. Len(t) = IF Len(controls) < ViewCap THEN Len(controls) + 1 ELSE ViewCap
      BY <2>1, <3>1, KeptFacts
    <3>3. t[Len(t)] = row
      BY <2>1, <3>1, KeptFacts
    <3>4. \A i \in 1..(Len(t) - 1) : /\ Len(controls) + 1 - Len(t) + i \in 1..Len(controls)
                                     /\ t[i] = controls[Len(controls) + 1 - Len(t) + i]
      BY <2>1, <3>1, KeptFacts
    <3> QED BY <3>2, <3>3, <3>4
  <2> QED BY <2>2 DEF t
<1>11. Len(todo) = 0
  BY <1>6, EmptySeq
<1> QED BY <1>3, <1>4, <1>5, <1>6, <1>8, <1>9, <1>10, <1>11

\* A row that is rendered.
LEMMA RenderRowEffect ==
    ASSUME TypeOK, NEW h \in Handlers, RenderRow(h), NEW row, row = Head(todo)
    PROVE  /\ Len(todo) \in Nat \ {0} /\ Len(todo') = Len(todo) - 1
           /\ row \in Row /\ row = todo[1]
           /\ \A k \in 1..(Len(todo) - 1) : todo'[k] = todo[k + 1]
           /\ row.kind \notin filter => controls' = controls
           /\ row.kind \in filter =>
                 /\ Len(controls') = Len(controls) + 1
                 /\ controls'[Len(controls) + 1] = row
                 /\ \A i \in 1..Len(controls) : controls'[i] = controls[i]
           /\ UNCHANGED <<received, log_queue, logs, filter, handler>> /\ Seen' = Seen
<1>1. /\ todo \in Seq(Row) /\ todo # <<>> /\ todo' = Tail(todo)
      /\ controls \in Seq(Row)
      /\ controls' = IF row.kind \in filter THEN Append(controls, row) ELSE controls
      /\ UNCHANGED <<received, log_queue, logs, filter, handler>>
  BY DEF TypeOK, RenderRow
<1>2. /\ Len(todo) \in Nat \ {0} /\ Len(todo') = Len(todo) - 1
      /\ row \in Row /\ row = todo[1]
      /\ \A k \in 1..(Len(todo) - 1) : todo'[k] = todo[k + 1]
  BY <1>1, TailFacts
<1>3. row.kind \in filter =>
         /\ Len(controls') = Len(controls) + 1
         /\ controls'[Len(controls) + 1] = row
         /\ \A i \in 1..Len(controls) : controls'[i] = controls[i]
  BY <1>1, <1>2, AppendFacts
<1> QED BY <1>1, <1>2, <1>3 DEF Seen

\* The list is emptied and the last of the logs are to be rendered.
LEMMA StartRenderEffect ==
    ASSUME TypeOK, NEW h \in Handlers, StartRender(h)
    PROVE  /\ Len(controls') = 0 /\ DOMAIN controls' = {}
           /\ Len(todo') = IF Len(logs) <= ViewCap THEN Len(logs) ELSE ViewCap
           /\ \A k \in 1..Len(todo') :
                  /\ Len(logs) - Len(todo') + k \in 1..Len(logs)
                  /\ todo'[k] = logs[Len(logs) - Len(todo') + k]
           /\ UNCHANGED <<received, log_queue, logs, filter>> /\ Seen' = Seen
<1>1. /\ todo' = Latest(ViewCap, logs) /\ controls' = <<>>
      /\ logs \in Seq(Row) /\ ViewCap \in Nat
      /\ UNCHANGED <<received, log_queue, logs, filter>>
  BY LogViewAssumption DEF StartRender, TypeOK
<1>2. /\ Len(todo') = IF Len(logs) <= ViewCap THEN Len(logs) ELSE ViewCap
      /\ \A k \in 1..Len(todo') : todo'[k] = logs[Len(logs) - Len(todo') + k]
  BY <1>1, LatestFacts
<1>3. \A k \in 1..Len(todo') : Len(logs) - Len(todo') + k \in 1..Len(logs)
  BY <1>1, <1>2, TypeFacts
<1>4. Len(controls') = 0 /\ DOMAIN controls' = {}
  BY <1>1
<1> QED BY <1>1, <1>2, <1>3, <1>4 DEF Seen

-----------------------------------------------------------------------------
\* The steps that change messages or rows, and all others.
LEMMA StepCases ==
    ASSUME [Next]_vars
    PROVE  \/ \E kind \in Kinds : Receive(kind)
           \/ AppendLog
           \/ \E h \in Handlers : StartRender(h) \/ RenderRow(h)
           \/ UNCHANGED <<received, log_queue, logs, controls, todo>>
BY DEF Next, vars, Checker, FindEmpty, UpdatePage, Render, SetFilter, EndRender, Refresh

LEMMA QueueStep == IInv /\ [Next]_vars => QueueInv'
<1> SUFFICES ASSUME IInv, [Next]_vars PROVE QueueInv'
  OBVIOUS
<1>1. TypeOK /\ TypeOK' /\ QueueInv
  BY TypeStep DEF IInv
<1>2. /\ DOMAIN log_queue = 1..Len(log_queue) /\ Len(log_queue) \in Nat
      /\ DOMAIN log_queue' = 1..Len(log_queue') /\ Seen \in Int /\ received \in Nat
  BY <1>1, TypeFacts
<1>3. ASSUME NEW kind \in Kinds, Receive(kind) PROVE QueueInv'
  <2> SUFFICES ASSUME NEW k \in 1..(Len(log_queue) + 1)
               PROVE  log_queue'[k].id = Seen' + k
    BY <1>1, <1>2, <1>3, ReceiveEffect DEF QueueInv
  <2>1. CASE k = Len(log_queue) + 1
    <3>1. log_queue'[k].id = received + 1 /\ Seen' = Seen
      BY <1>1, <1>3, <2>1, ReceiveEffect
    <3>2. received = Seen + Len(log_queue)
      BY <1>2 DEF Seen
    <3> QED BY <1>2, <2>1, <3>1, <3>2
  <2>2. CASE k \in 1..Len(log_queue)
    BY <1>1, <1>2, <1>3, <2>2, ReceiveEffect DEF QueueInv
  <2> QED BY <1>2, <2>1, <2>2
<1>4. CASE AppendLog
  <2> SUFFICES ASSUME NEW k \in 1..(Len(log_queue) - 1)
               PROVE  log_queue'[k].id = Seen' + k
    BY <1>2, <1>4, AppendEffect DEF QueueInv
  <2>1. k + 1 \in 1..Len(log_queue) /\ log_queue'[k] = log_queue[k + 1]
    <3>1. log_queue'[k] = log_queue[k + 1]
      BY <1>4, AppendEffect
    <3> QED BY <1>2, <3>1
  <2>2. log_queue[k + 1].id = Seen + (k + 1) /\ Seen' = Seen + 1
    BY <1>1, <1>2, <1>4, <2>1, AppendEffect DEF QueueInv
  <2> QED BY <1>2, <2>1, <2>2
<1>5. CASE UNCHANGED <<received, log_queue>>
  BY <1>1, <1>5 DEF QueueInv, Seen
<1> QED BY <1>3, <1>4, <1>5, StepCases DEF StartRender, RenderRow

LEMMA GapStep == IInv /\ [Next]_vars => LogsHaveNoGap'
<1> SUFFICES ASSUME IInv, [Next]_vars PROVE LogsHaveNoGap'
  OBVIOUS
<1>1. TypeOK /\ TypeOK' /\ LogsHaveNoGap
  BY TypeStep DEF IInv
<1>2. /\ DOMAIN logs = 1..Len(logs) /\ Len(logs) \in Nat
      /\ DOMAIN logs' = 1..Len(logs') /\ Len(logs') \in Nat /\ Seen \in Int
      /\ LogCap \in Nat \ {0}
  BY <1>1, TypeFacts
<1>3. \A i \in 1..Len(logs) : logs[i].id = Seen - Len(logs) + i
  BY <1>1, <1>2 DEF LogsHaveNoGap, Seen
<1>4. (\A i \in 1..Len(logs') : logs'[i].id = Seen' - Len(logs') + i) => LogsHaveNoGap'
  BY <1>2 DEF LogsHaveNoGap, Seen
<1>5. ASSUME logs' = logs, Seen' = Seen PROVE LogsHaveNoGap'
  BY <1>3, <1>4, <1>5
<1>6. CASE AppendLog
  <2> SUFFICES ASSUME NEW i \in 1..Len(logs')
               PROVE  logs'[i].id = Seen' - Len(logs') + i
    BY <1>4
  <2>1. Seen' = Seen + 1
    BY <1>6, AppendEffect
  <2>2. CASE i = Len(logs')
    <3>1. logs'[i].id = Seen + 1
      BY <1>6, <2>2, AppendEffect
    <3> QED BY <1>2, <2>1, <2>2, <3>1
  <2>3. CASE i \in 1..(Len(logs') - 1)
    <3> DEFINE j == Len(logs) + 1 - Len(logs') + i
    <3>1. j \in 1..Len(logs) /\ logs'[i] = logs[j]
      BY <1>6, <2>3, AppendEffect
    <3>2. logs[j].id = Seen - Len(logs) + j
      BY <1>3, <3>1
    <3> QED BY <1>2, <2>1, <3>1, <3>2
  <2>4. i = Len(logs') \/ i \in 1..(Len(logs') - 1)
    <3>1. Len(logs') \in Nat
      BY <1>2
    <3> QED BY <3>1
  <2> QED BY <2>2, <2>3, <2>4
<1>7. ASSUME NEW kind \in Kinds, Receive(kind) PROVE LogsHaveNoGap'
  BY <1>1, <1>5, <1>7, ReceiveEffect DEF Receive
<1>8. CASE UNCHANGED <<received, log_queue, logs>>
  BY <1>5, <1>8 DEF Seen
<1> QED BY <1>6, <1>7, <1>8, StepCases DEF StartRender, RenderRow

-----------------------------------------------------------------------------
LEMMA RenderStep == IInv /\ [Next]_vars => RenderInv'
<1> SUFFICES ASSUME IInv, [Next]_vars PROVE RenderInv'
  OBVIOUS
<1>1. TypeOK /\ TypeOK' /\ RenderInv /\ LogsHaveNoGap
  BY TypeStep DEF IInv
<1>2. /\ DOMAIN todo = 1..Len(todo) /\ Len(todo) \in Nat
      /\ DOMAIN todo' = 1..Len(todo') /\ Len(todo') \in Nat
      /\ Len(logs) \in Nat /\ DOMAIN logs = 1..Len(logs)
      /\ Len(controls) \in Nat /\ Len(controls') \in Nat /\ Seen \in Int
      /\ ViewCap \in Nat \ {0}
  BY <1>1, TypeFacts
<1>3. handler \in [Handlers -> {"idle", "filtered", "rendering"}]
      /\ lock \in Handlers \cup {NoOne}
  BY <1>1 DEF TypeOK
<1>4. \A h \in Handlers : handler'[h] = "rendering" <=> lock' = h
  <2>1. CASE UNCHANGED <<handler, lock>>
    BY <1>1, <2>1 DEF RenderInv
  <2>2. ASSUME NEW g \in Handlers, NEW f \in Filters, SetFilter(g, f)
        PROVE  \A h \in Handlers : handler'[h] = "rendering" <=> lock' = h
    BY <1>1, <1>3, <2>2 DEF SetFilter, RenderInv
  <2>3. ASSUME NEW g \in Handlers, StartRender(g)
        PROVE  \A h \in Handlers : handler'[h] = "rendering" <=> lock' = h
    BY <1>1, <1>3, <2>3, NoOneAssumption DEF StartRender, RenderInv
  <2>4. ASSUME NEW g \in Handlers, EndRender(g)
        PROVE  \A h \in Handlers : handler'[h] = "rendering" <=> lock' = h
    BY <1>1, <1>3, <2>4, NoOneAssumption DEF EndRender, RenderInv
  <2> QED BY <2>1, <2>2, <2>3, <2>4
          DEF Next, vars, Receive, Checker, AppendLog, FindEmpty, UpdatePage, Render,
              RenderRow, Refresh
<1>5. lock' = NoOne => todo' = <<>>
  BY <1>1, NoOneAssumption
     DEF Next, vars, Receive, Checker, AppendLog, FindEmpty, UpdatePage, Render,
         StartRender, RenderRow, EndRender, SetFilter, Refresh, RenderInv
<1> DEFINE Rest == /\ Len(controls) + Len(todo) <= ViewCap
                   /\ \A k \in 1..Len(todo) : todo[k].id = Seen - Len(todo) + k
<1>6. Rest'
  <2>1. ASSUME NEW kind \in Kinds, Receive(kind)
        PROVE  Rest'
    <3>1. UNCHANGED <<controls, todo>> /\ Seen' = Seen
      BY <1>1, <2>1, ReceiveEffect DEF Receive
    <3> QED BY <1>1, <1>2, <3>1 DEF RenderInv
  <2>2. CASE AppendLog
    <3>1. Len(todo') = 0 /\ Len(controls') <= ViewCap
      BY <1>1, <2>2, AppendEffect DEF TypeOK
    <3>2. 1..Len(todo') = {} /\ Len(controls') + Len(todo') <= ViewCap
      BY <1>2, <3>1
    <3> QED BY <3>2
  <2>3. ASSUME NEW h \in Handlers, StartRender(h)
        PROVE  Rest'
    <3>1. Len(controls') + Len(todo') <= ViewCap
      <4>1. Len(controls') = 0
        BY <1>1, <2>3, StartRenderEffect
      <4>2. Len(todo') = IF Len(logs) <= ViewCap THEN Len(logs) ELSE ViewCap
        BY <1>1, <2>3, StartRenderEffect
      <4>3. Len(todo') <= ViewCap
        BY <1>2, <4>2
      <4> QED BY <1>2, <4>1, <4>3
    <3>2. ASSUME NEW k \in 1..Len(todo') PROVE todo'[k].id = Seen' - Len(todo') + k
      <4> DEFINE j == Len(logs) - Len(todo') + k
      <4>1. j \in 1..Len(logs) /\ todo'[k] = logs[j] /\ Seen' = Seen
        BY <1>1, <2>3, StartRenderEffect
      <4>2. logs[j].id = Seen - Len(logs) + j
        BY <1>1, <1>2, <4>1 DEF LogsHaveNoGap, Seen
      <4> QED BY <1>2, <4>1, <4>2
    <3> QED BY <3>1, <3>2
  <2>4. ASSUME NEW h \in Handlers, RenderRow(h)
        PROVE  Rest'
    <3>1. Len(todo') = Len(todo) - 1 /\ Seen' = Seen
      BY <1>1, <2>4, RenderRowEffect
    <3>3. Len(controls') = Len(controls) \/ Len(controls') = Len(controls) + 1
      BY <1>1, <2>4, RenderRowEffect
    <3>2. ASSUME NEW k \in 1..Len(todo') PROVE todo'[k].id = Seen' - Len(todo') + k
      <4>0. k + 1 \in 1..Len(todo) /\ k \in 1..(Len(todo) - 1)
        BY <1>2, <3>1
      <4>1. todo'[k] = todo[k + 1]
        BY <1>1, <2>4, <4>0, RenderRowEffect
      <4>2. todo[k + 1].id = Seen - Len(todo) + (k + 1)
        BY <1>1, <1>2, <4>0 DEF RenderInv
      <4> QED BY <1>2, <3>1, <4>1, <4>2
    <3> QED BY <1>1, <1>2, <3>1, <3>2, <3>3 DEF RenderInv
  <2>5. CASE UNCHANGED <<received, log_queue, logs, controls, todo>>
    BY <1>1, <1>2, <2>5 DEF RenderInv, Seen
  <2> QED BY <2>1, <2>2, <2>3, <2>4, <2>5, StepCases
<1> QED BY <1>2, <1>4, <1>5, <1>6 DEF RenderInv

-----------------------------------------------------------------------------
\* A row is put at the end of the list, with d rows taken off at its front: its number
\* is the one that comes next.
LEMMA PushOrder ==
    ASSUME TypeOK, TypeOK', OrderInv,
           NEW d \in {0, 1}, NEW id \in Int,
           id = Seen - Len(todo) + 1,
           (Seen - Len(todo))' = Seen - Len(todo) + 1,
           Len(controls') = Len(controls) + 1 - d,
           controls'[Len(controls')].id = id,
           \A i \in 1..(Len(controls') - 1) : /\ d + i \in 1..Len(controls)
                                              /\ controls'[i] = controls[d + i]
    PROVE  OrderInv'
<1> DEFINE n == Len(controls)
           m == Len(controls')
           at == Seen - Len(todo)
<1>1. /\ n \in Nat /\ DOMAIN controls = 1..n
      /\ at \in Int /\ \A i \in 1..n : controls[i].id \in Int
  <2>1. /\ n \in Nat /\ DOMAIN controls = 1..n /\ Seen \in Int /\ Len(todo) \in Nat
        /\ \A i \in 1..n : controls[i] \in Row
        /\ \A row \in Row : row.id \in Nat \ {0}
    BY TypeFacts
  <2> QED BY <2>1
<1>2. m \in Nat /\ DOMAIN controls' = 1..m
  BY TypeFacts
<1>3. \A i, j \in 1..n : i <= j => controls[j].id - controls[i].id >= j - i
  BY <1>1 DEF OrderInv
<1>4. \A i \in 1..n : at - controls[i].id >= n - i
  BY <1>1 DEF OrderInv
<1>5. (Seen - Len(todo))' = at + 1 /\ id = at + 1 /\ m = n + 1 - d
  OBVIOUS
<1>6. \A i \in 1..(m - 1) : d + i \in 1..n /\ controls'[i] = controls[d + i]
  OBVIOUS
<1>7. controls'[m].id = id
  OBVIOUS
<1>8. d \in Int
  OBVIOUS
<1> HIDE DEF n, m, at
<1>9. ASSUME NEW i \in 1..m PROVE (Seen - Len(todo))' - controls'[i].id >= m - i
  <2>1. CASE i \in 1..(m - 1)
    <3>1. d + i \in 1..n /\ controls'[i] = controls[d + i]
      BY <1>6, <2>1
    <3>2. at - controls[d + i].id >= n - (d + i) /\ controls[d + i].id \in Int
      BY <1>1, <1>4, <3>1
    <3> QED BY <1>1, <1>2, <1>5, <1>8, <3>1, <3>2
  <2>2. CASE i = m
    BY <1>1, <1>2, <1>5, <1>7, <2>2
  <2>3. i \in 1..(m - 1) \/ i = m
    BY <1>2
  <2> QED BY <2>1, <2>2, <2>3
<1>10. ASSUME NEW i \in 1..m, NEW j \in 1..m, i <= j
       PROVE  controls'[j].id - controls'[i].id >= j - i
  <2>1. CASE j \in 1..(m - 1)
    <3>0. i \in 1..(m - 1)
      BY <1>2, <1>10, <2>1
    <3>1. /\ d + i \in 1..n /\ controls'[i] = controls[d + i]
          /\ d + j \in 1..n /\ controls'[j] = controls[d + j]
      BY <1>6, <2>1, <3>0
    <3>2. d + i <= d + j /\ (d + j) - (d + i) = j - i
      BY <1>8, <1>10
    <3>3. controls[d + j].id - controls[d + i].id >= (d + j) - (d + i)
      BY <1>3, <3>1, <3>2
    <3> QED BY <3>1, <3>2, <3>3
  <2>2. CASE j = m
    <3>1. CASE i = m
      <4>1. controls'[j].id = id /\ controls'[i].id = id /\ j - i = 0
        BY <1>2, <1>7, <2>2, <3>1
      <4> QED BY <4>1
    <3>2. CASE i \in 1..(m - 1)
      <4>1. controls'[i].id \in Int
        BY <1>1, <1>6, <3>2
      <4>2. controls'[j].id = (Seen - Len(todo))'
        BY <1>5, <1>7, <2>2
      <4>3. (Seen - Len(todo))' - controls'[i].id >= m - i
        BY <1>9
      <4> QED BY <2>2, <4>2, <4>3
    <3>3. i \in 1..(m - 1) \/ i = m
      BY <1>2
    <3> QED BY <3>1, <3>2, <3>3
  <2>3. j \in 1..(m - 1) \/ j = m
    BY <1>2
  <2> QED BY <2>1, <2>2, <2>3
<1> QED BY <1>2, <1>9, <1>10 DEF OrderInv, m

\* The list stays, and what comes next may be later.
LEMMA StayOrder ==
    ASSUME TypeOK, TypeOK', OrderInv, controls' = controls,
           (Seen - Len(todo))' >= Seen - Len(todo)
    PROVE  OrderInv'
<1>1. /\ Len(controls) \in Nat /\ DOMAIN controls = 1..Len(controls)
      /\ Seen \in Int /\ Len(todo) \in Nat
      /\ \A i \in 1..Len(controls) : controls[i] \in Row
      /\ \A row \in Row : row.id \in Nat \ {0}
  BY TypeFacts
<1>2. Len(todo') \in Nat /\ Len(log_queue') \in Nat /\ received' \in Nat
  BY LogViewAssumption, LenProperties DEF TypeOK
<1>3. /\ Seen \in Int /\ Seen' \in Int /\ Len(todo) \in Nat /\ Len(todo') \in Nat
      /\ \A i \in DOMAIN controls : i \in Int /\ controls[i].id \in Int
      /\ Len(controls) \in Nat
  BY <1>1, <1>2 DEF Seen
<1>4. \A i, j \in DOMAIN controls' :
          i <= j => controls'[j].id - controls'[i].id >= j - i
  BY DEF OrderInv
<1>5. ASSUME NEW i \in DOMAIN controls
      PROVE  Seen' - Len(todo') - controls[i].id >= Len(controls) - i
  <2>1. Seen - Len(todo) - controls[i].id >= Len(controls) - i
    BY DEF OrderInv
  <2> QED BY <1>3, <2>1
<1>6. \A i \in DOMAIN controls' :
          Seen' - Len(todo') - controls'[i].id >= Len(controls') - i
  BY <1>5
<1> QED BY <1>4, <1>6 DEF OrderInv

LEMMA OrderStep == IInv /\ [Next]_vars => OrderInv'
<1> SUFFICES ASSUME IInv, [Next]_vars PROVE OrderInv'
  OBVIOUS
<1>1. TypeOK /\ TypeOK' /\ OrderInv /\ RenderInv
  BY TypeStep DEF IInv
<1>2. /\ Len(todo) \in Nat /\ DOMAIN todo = 1..Len(todo)
      /\ Len(controls) \in Nat /\ DOMAIN controls' = 1..Len(controls')
      /\ Len(controls) <= ViewCap /\ Seen \in Int /\ ViewCap \in Nat \ {0}
  BY <1>1, TypeFacts DEF TypeOK
<1>3. ASSUME UNCHANGED <<controls, todo>>, Seen' = Seen PROVE OrderInv'
  BY <1>1, <1>3 DEF OrderInv
<1>4. ASSUME NEW kind \in Kinds, Receive(kind) PROVE OrderInv'
  BY <1>1, <1>3, <1>4, ReceiveEffect DEF Receive
<1>5. CASE AppendLog
  <2> DEFINE row == Head(log_queue)
  <2>1. Len(todo) = 0 /\ todo' = todo /\ row.id = Seen + 1 /\ Seen' = Seen + 1
    BY <1>5, AppendEffect
  <2>2. (Seen - Len(todo))' = Seen - Len(todo) + 1
    BY <1>2, <2>1
  <2>3. CASE row.kind \in filter
    <3> DEFINE d == Len(controls) + 1 - Len(controls')
    <3>1. Len(controls') = IF Len(controls) < ViewCap THEN Len(controls) + 1 ELSE ViewCap
      BY <1>5, <2>3, AppendEffect
    <3>2. d \in {0, 1} /\ Len(controls') = Len(controls) + 1 - d
      BY <1>2, <3>1
    <3>3. controls'[Len(controls')] = row
      BY <1>5, <2>3, AppendEffect
    <3>4. \A i \in 1..(Len(controls') - 1) : /\ d + i \in 1..Len(controls)
                                             /\ controls'[i] = controls[d + i]
      BY <1>5, <2>3, AppendEffect
    <3>5. row.id = Seen - Len(todo) + 1 /\ row.id \in Int
      BY <1>2, <2>1
    <3> HIDE DEF row, d
    <3>6. controls'[Len(controls')].id = row.id
      BY <3>3
    <3> QED BY <1>1, <2>2, <3>2, <3>4, <3>5, <3>6, PushOrder
  <2>4. CASE row.kind \notin filter
    <3>1. controls' = controls
      BY <1>5, <2>4, AppendEffect
    <3>2. (Seen - Len(todo))' >= Seen - Len(todo)
      BY <1>2, <2>2
    <3> QED BY <1>1, <3>1, <3>2, StayOrder
  <2> QED BY <2>3, <2>4
<1>6. ASSUME NEW h \in Handlers, StartRender(h) PROVE OrderInv'
  <2>1. DOMAIN controls' = {}
    BY <1>1, <1>6, StartRenderEffect
  <2> QED BY <2>1 DEF OrderInv
<1>7. ASSUME NEW h \in Handlers, RenderRow(h) PROVE OrderInv'
  <2> DEFINE row == Head(todo)
  <2>1. Len(todo) \in Nat \ {0} /\ Len(todo') = Len(todo) - 1 /\ Seen' = Seen
    BY <1>1, <1>7, RenderRowEffect
  <2>2. (Seen - Len(todo))' = Seen - Len(todo) + 1
    BY <1>2, <2>1
  <2>3. CASE row.kind \in filter
    <3>1. Len(controls') = Len(controls) + 1
      BY <1>1, <1>7, <2>3, RenderRowEffect
    <3>2. controls'[Len(controls) + 1] = row /\ row = todo[1]
      BY <1>1, <1>7, <2>3, RenderRowEffect
    <3>3. \A i \in 1..Len(controls) : controls'[i] = controls[i]
      BY <1>1, <1>7, <2>3, RenderRowEffect
    <3>4. todo[1].id = Seen - Len(todo) + 1
      BY <1>1, <1>2, <2>1 DEF RenderInv
    <3> HIDE DEF row
    <3>5. controls'[Len(controls')].id = todo[1].id /\ todo[1].id \in Int
      BY <1>2, <3>1, <3>2, <3>4
    <3>6. \A i \in 1..(Len(controls') - 1) : /\ 0 + i \in 1..Len(controls)
                                             /\ controls'[i] = controls[0 + i]
      BY <1>2, <3>1, <3>3
    <3>7. Len(controls') = Len(controls) + 1 - 0
      BY <1>2, <3>1
    <3> QED BY <1>1, <2>2, <3>4, <3>5, <3>6, <3>7, PushOrder
  <2>4. CASE row.kind \notin filter
    <3>1. controls' = controls
      BY <1>1, <1>7, <2>4, RenderRowEffect
    <3>2. (Seen - Len(todo))' >= Seen - Len(todo)
      BY <1>2, <2>2
    <3> QED BY <1>1, <3>1, <3>2, StayOrder
  <2> QED BY <2>3, <2>4
<1>8. CASE UNCHANGED <<received, log_queue, logs, controls, todo>>
  BY <1>3, <1>8 DEF Seen
<1> QED BY <1>4, <1>5, <1>6, <1>7, <1>8, StepCases

-----------------------------------------------------------------------------
\* The rows of the list match the filter, and each recent log that matches is in the
\* list or still to do.
AllMatch == \A i \in DOMAIN controls : controls[i].kind \in filter

Covered(row) == \/ \E i \in DOMAIN controls : controls[i] = row
                \/ \E j \in DOMAIN todo : todo[j] = row

RecentCovered ==
    \A k \in DOMAIN logs :
        k > Len(logs) - ViewCap /\ logs[k].kind \in filter => Covered(logs[k])

LEMMA MatchParts == MatchInv <=> (~Filtering => AllMatch /\ RecentCovered)
BY DEF MatchInv, AllMatch, RecentCovered, Covered

\* A message off the queue is listed if it matches, and what the list loses for it is
\* not recent any more.
LEMMA AppendMatch ==
    ASSUME IInv, TypeOK', AppendLog, AllMatch, RecentCovered
    PROVE  AllMatch' /\ RecentCovered'
<1> DEFINE row == Head(log_queue)
           n == Len(controls)
           m == Len(controls')
           d == n + 1 - m
           e == Len(logs) + 1 - Len(logs')
<1>1. TypeOK /\ OrderInv /\ LogsHaveNoGap
  BY DEF IInv
<1>2. /\ n \in Nat /\ DOMAIN controls = 1..n /\ m \in Nat /\ DOMAIN controls' = 1..m
      /\ Len(logs) \in Nat /\ DOMAIN logs = 1..Len(logs)
      /\ Len(logs') \in Nat /\ DOMAIN logs' = 1..Len(logs')
      /\ Seen \in Int /\ ViewCap \in Nat \ {0} /\ LogCap \in Nat \ {0}
  BY <1>1, TypeFacts
<1>3. n <= ViewCap /\ Len(logs) <= LogCap
  BY <1>1 DEF TypeOK
<1>4. /\ Len(todo) = 0 /\ filter' = filter
      /\ logs'[Len(logs')] = row
      /\ row.kind \notin filter => controls' = controls
  BY AppendEffect DEF AppendLog
<1>5. Len(logs') = IF Len(logs) < LogCap THEN Len(logs) + 1 ELSE LogCap
  BY AppendEffect
<1>6. e \in {0, 1} /\ Len(logs') = Len(logs) + 1 - e
  BY <1>2, <1>3, <1>5
<1>7. \A i \in 1..(Len(logs') - 1) : e + i \in 1..Len(logs) /\ logs'[i] = logs[e + i]
  BY AppendEffect
<1>8. ASSUME row.kind \in filter
      PROVE  /\ m = IF n < ViewCap THEN n + 1 ELSE ViewCap
             /\ controls'[m] = row
             /\ \A i \in 1..(m - 1) : d + i \in 1..n /\ controls'[i] = controls[d + i]
  BY <1>8, AppendEffect
<1>9. DOMAIN todo = {}
  BY <1>1, <1>4, TypeFacts
<1> HIDE DEF row, n, m, d, e
<1>10. AllMatch'
  <2>1. CASE row.kind \notin filter
    BY <1>4, <2>1 DEF AllMatch
  <2>2. CASE row.kind \in filter
    <3> SUFFICES ASSUME NEW i \in 1..m PROVE controls'[i].kind \in filter
      BY <1>2, <1>4 DEF AllMatch
    <3>1. CASE i = m
      BY <1>8, <2>2, <3>1
    <3>2. CASE i \in 1..(m - 1)
      BY <1>2, <1>8, <2>2, <3>2 DEF AllMatch
    <3>3. i = m \/ i \in 1..(m - 1)
      BY <1>2
    <3> QED BY <3>1, <3>2, <3>3
  <2> QED BY <2>1, <2>2
<1>11. ASSUME NEW k \in 1..Len(logs'), k > Len(logs') - ViewCap, logs'[k].kind \in filter
       PROVE  \E i \in 1..m : controls'[i] = logs'[k]
  <2>1. CASE k = Len(logs')
    <3>1. logs'[k] = row /\ row.kind \in filter
      BY <1>4, <1>11, <2>1
    <3>2. controls'[m] = row /\ m \in 1..m
      BY <1>2, <1>3, <1>8, <3>1
    <3> QED BY <3>1, <3>2
  <2>2. CASE k \in 1..(Len(logs') - 1)
    <3>1. e + k \in 1..Len(logs) /\ logs'[k] = logs[e + k]
      BY <1>7, <2>2
    <3>2. e + k > Len(logs) - ViewCap + 1
      BY <1>2, <1>6, <1>11
    <3>3. e + k > Len(logs) - ViewCap
      BY <1>2, <1>6, <3>2
    <3>4. Covered(logs[e + k])
      BY <1>2, <1>11, <3>1, <3>3 DEF RecentCovered
    <3>5. PICK i \in 1..n : controls[i] = logs'[k]
      BY <1>2, <1>9, <3>1, <3>4 DEF Covered
    <3>6. CASE row.kind \notin filter
      <4>1. controls' = controls /\ 1..m = 1..n
        BY <1>2, <1>4, <3>6
      <4> QED BY <3>5, <4>1
    <3>7. CASE row.kind \in filter /\ i > d
      <4>1. m = n + 1 - d /\ d \in {0, 1}
        BY <1>2, <1>3, <1>8, <3>7 DEF d
      <4>2. i - d \in 1..(m - 1) /\ d + (i - d) = i
        BY <1>2, <3>7, <4>1
      <4>3. controls'[i - d] = controls[i] /\ i - d \in 1..m
        BY <1>2, <1>8, <3>7, <4>2
      <4> QED BY <3>5, <4>3
    <3>8. CASE row.kind \in filter /\ ~(i > d)
      <4>1. m = IF n < ViewCap THEN n + 1 ELSE ViewCap
        BY <1>8, <3>8
      <4>2. d = 1 /\ i = 1 /\ n = ViewCap
        BY <1>2, <1>3, <3>8, <4>1 DEF d
      <4>3. Seen - Len(todo) - controls[1].id >= Len(controls) - 1
        BY <1>1, <1>2, <4>2 DEF OrderInv
      <4>4. logs[e + k].id = Seen - Len(logs) + (e + k)
        BY <1>1, <1>2, <3>1 DEF LogsHaveNoGap, Seen
      <4>5. controls[1].id = logs[e + k].id
        BY <3>1, <3>5, <4>2
      <4> QED BY <1>2, <1>4, <3>1, <3>2, <4>2, <4>3, <4>4, <4>5 DEF n
    <3> QED BY <3>6, <3>7, <3>8
  <2>3. k = Len(logs') \/ k \in 1..(Len(logs') - 1)
    <3>1. Len(logs') \in Nat
      BY <1>2
    <3> QED BY <3>1
  <2> QED BY <2>1, <2>2, <2>3
<1> QED BY <1>2, <1>4, <1>10, <1>11 DEF RecentCovered, Covered

\* The list is begun anew, and all recent logs are to do.
LEMMA StartMatch ==
    ASSUME TypeOK, TypeOK', NEW h \in Handlers, StartRender(h)
    PROVE  AllMatch' /\ RecentCovered'
<1>1. /\ DOMAIN controls' = {} /\ logs' = logs
      /\ Len(todo') = IF Len(logs) <= ViewCap THEN Len(logs) ELSE ViewCap
      /\ \A k \in 1..Len(todo') : todo'[k] = logs[Len(logs) - Len(todo') + k]
  BY StartRenderEffect
<1>2. /\ Len(logs) \in Nat /\ DOMAIN logs = 1..Len(logs)
      /\ Len(todo') \in Nat /\ DOMAIN todo' = 1..Len(todo') /\ ViewCap \in Nat
  BY TypeFacts
<1>3. ASSUME NEW k \in 1..Len(logs), k > Len(logs) - ViewCap
      PROVE  \E j \in 1..Len(todo') : todo'[j] = logs[k]
  <2> DEFINE j == k - (Len(logs) - Len(todo'))
  <2>0. /\ Len(logs) \in Nat /\ Len(todo') \in Nat /\ ViewCap \in Nat
        /\ (Len(todo') = Len(logs) /\ Len(logs) <= ViewCap) \/ Len(todo') = ViewCap
        /\ k \in 1..Len(logs) /\ k > Len(logs) - ViewCap
    BY <1>1, <1>2, <1>3
  <2>1. j \in 1..Len(todo') /\ Len(logs) - Len(todo') + j = k
    <3>1. Len(logs) - Len(todo') + j = k /\ j \in Int
      BY <2>0
    <3>2. j <= Len(todo')
      BY <2>0
    <3>3. j >= 1
      BY <2>0
    <3> QED BY <2>0, <3>1, <3>2, <3>3
  <2> HIDE DEF j
  <2>2. todo'[j] = logs[Len(logs) - Len(todo') + j]
    BY <1>1, <2>1
  <2>3. todo'[j] = logs[k]
    BY <2>1, <2>2, Zenon
  <2> QED BY <2>1, <2>3
<1> QED BY <1>1, <1>2, <1>3 DEF AllMatch, RecentCovered, Covered

\* A row that was to do is listed if it matches.
LEMMA RowMatch ==
    ASSUME TypeOK, TypeOK', NEW h \in Handlers, RenderRow(h), AllMatch, RecentCovered
    PROVE  AllMatch' /\ RecentCovered'
<1> DEFINE row == Head(todo)
<1>1. /\ Len(todo) \in Nat \ {0} /\ Len(todo') = Len(todo) - 1
      /\ row = todo[1]
      /\ \A k \in 1..(Len(todo) - 1) : todo'[k] = todo[k + 1]
      /\ logs' = logs /\ filter' = filter
  BY RenderRowEffect
<1>2. /\ Len(controls) \in Nat /\ DOMAIN controls = 1..Len(controls)
      /\ DOMAIN controls' = 1..Len(controls')
      /\ DOMAIN todo = 1..Len(todo) /\ DOMAIN todo' = 1..Len(todo')
  BY TypeFacts
<1>3. row.kind \notin filter => controls' = controls
  BY RenderRowEffect
<1>4. row.kind \in filter => /\ Len(controls') = Len(controls) + 1
                             /\ controls'[Len(controls) + 1] = row
                             /\ \A i \in 1..Len(controls) : controls'[i] = controls[i]
  BY RenderRowEffect
<1> HIDE DEF row
<1>0. row.kind \in filter => DOMAIN controls' = 1..(Len(controls) + 1)
  BY <1>2, <1>4
<1>5. \A i \in DOMAIN controls : i \in DOMAIN controls' /\ controls'[i] = controls[i]
  <2>1. CASE row.kind \notin filter
    BY <1>3, <2>1
  <2>2. CASE row.kind \in filter
    <3>1. \A i \in 1..Len(controls) : i \in 1..(Len(controls) + 1)
      BY <1>2
    <3> QED BY <1>0, <1>2, <1>4, <2>2, <3>1
  <2> QED BY <2>1, <2>2
<1>6. row.kind \in filter => \E i \in DOMAIN controls' : controls'[i] = row
  <2>1. Len(controls) + 1 \in 1..(Len(controls) + 1)
    BY <1>2
  <2> QED BY <1>0, <1>4, <2>1
<1>7. AllMatch'
  <2> SUFFICES ASSUME NEW i \in DOMAIN controls' PROVE controls'[i].kind \in filter
    BY <1>1 DEF AllMatch
  <2>1. CASE i \in DOMAIN controls
    BY <1>5, <2>1 DEF AllMatch
  <2>2. CASE i \notin DOMAIN controls
    <3>1. row.kind \in filter
      BY <1>3, <2>2
    <3>2. i = Len(controls) + 1
      <4>1. i \in 1..(Len(controls) + 1) /\ i \notin 1..Len(controls)
        BY <1>0, <1>2, <2>2, <3>1
      <4> QED BY <1>2, <4>1
    <3> QED BY <1>4, <3>1, <3>2
  <2> QED BY <2>1, <2>2
<1>8. ASSUME NEW e, Covered(e), e.kind \in filter
      PROVE  \/ \E i \in DOMAIN controls' : controls'[i] = e
             \/ \E j \in DOMAIN todo' : todo'[j] = e
  <2>1. CASE \E i \in DOMAIN controls : controls[i] = e
    BY <1>5, <2>1
  <2>2. CASE \E j \in DOMAIN todo : todo[j] = e
    <3>1. PICK j \in 1..Len(todo) : todo[j] = e
      BY <1>2, <2>2
    <3>2. CASE j = 1
      BY <1>1, <1>6, <1>8, <3>1, <3>2
    <3>3. CASE j # 1
      <4>1. j - 1 \in 1..(Len(todo) - 1) /\ (j - 1) + 1 = j
        BY <1>1, <3>3
      <4>2. todo'[j - 1] = e
        BY <1>1, <3>1, <4>1
      <4>3. j - 1 \in DOMAIN todo'
        BY <1>1, <1>2, <4>1
      <4> QED BY <4>2, <4>3
    <3> QED BY <3>2, <3>3
  <2> QED BY <1>8, <2>1, <2>2 DEF Covered
<1>9. RecentCovered'
  <2>1. ASSUME NEW k \in DOMAIN logs, k > Len(logs) - ViewCap, logs[k].kind \in filter
        PROVE  \/ \E i \in DOMAIN controls' : controls'[i] = logs[k]
               \/ \E j \in DOMAIN todo' : todo'[j] = logs[k]
    BY <1>8, <2>1 DEF RecentCovered
  <2> QED BY <1>1, <2>1 DEF RecentCovered, Covered
<1> QED BY <1>7, <1>9

LEMMA MatchStep == IInv /\ [Next]_vars => MatchInv'
<1> SUFFICES ASSUME IInv, [Next]_vars PROVE MatchInv'
  OBVIOUS
<1> SUFFICES ASSUME ~Filtering' PROVE AllMatch' /\ RecentCovered'
  BY DEF MatchInv, AllMatch, RecentCovered, Covered
<1>1. TypeOK /\ TypeOK' /\ RenderInv /\ MatchInv
  BY TypeStep DEF IInv
<1>2. ~Filtering => AllMatch /\ RecentCovered
  BY <1>1, MatchParts
<1>3. handler \in [Handlers -> {"idle", "filtered", "rendering"}]
  BY <1>1 DEF TypeOK
<1>4. ASSUME NEW h \in Handlers, StartRender(h) PROVE AllMatch' /\ RecentCovered'
  BY <1>1, <1>4, StartMatch
<1>5. ASSUME NEW h \in Handlers, NEW f \in Filters, SetFilter(h, f) PROVE FALSE
  BY <1>3, <1>5 DEF SetFilter, Filtering
<1>6. CASE AppendLog
  BY <1>1, <1>2, <1>6, AppendMatch DEF AppendLog, Filtering
<1>7. ASSUME NEW h \in Handlers, RenderRow(h) PROVE AllMatch' /\ RecentCovered'
  BY <1>1, <1>2, <1>7, RowMatch DEF RenderRow, Filtering
<1>8. ASSUME NEW h \in Handlers, EndRender(h) PROVE AllMatch' /\ RecentCovered'
  <2>1. handler[h] = "rendering" /\ handler' = [handler EXCEPT ![h] = "idle"]
    BY <1>1, <1>8 DEF EndRender, RenderInv
  <2>2. ~Filtering
    BY <1>3, <2>1 DEF Filtering
  <2> QED BY <1>2, <1>8, <2>2 DEF EndRender, AllMatch, RecentCovered, Covered
<1>9. CASE UNCHANGED <<handler, filter, logs, controls, todo>>
  BY <1>2, <1>9 DEF Filtering, AllMatch, RecentCovered, Covered
<1> QED BY <1>4, <1>5, <1>6, <1>7, <1>8, <1>9
        DEF Next, vars, Receive, Checker, FindEmpty, UpdatePage, Render, Refresh

-----------------------------------------------------------------------------
LEMMA IInvInit == Init => IInv
<1> SUFFICES ASSUME Init PROVE IInv
  OBVIOUS
<1>1. /\ received = 0 /\ log_queue = <<>> /\ logs = <<>> /\ controls = <<>>
      /\ todo = <<>> /\ shown = <<>> /\ lock = NoOne
      /\ handler = [h \in Handlers |-> "idle"] /\ searches = 0 /\ checker = "clean"
      /\ filter \in Filters
  BY LogViewAssumption DEF Init
<1>2. /\ <<>> \in Seq(Row) /\ Len(<<>>) = 0
      /\ DOMAIN log_queue = {} /\ DOMAIN logs = {} /\ DOMAIN controls = {}
      /\ DOMAIN todo = {}
  BY <1>1, EmptySeq
<1>3. TypeOK
  BY <1>1, <1>2, LogViewAssumption DEF TypeOK
<1>4. QueueInv /\ LogsHaveNoGap /\ OrderInv /\ MatchInv
  BY <1>2 DEF QueueInv, LogsHaveNoGap, OrderInv, MatchInv
<1>5. RenderInv
  <2>1. Len(controls) + Len(todo) <= ViewCap
    BY <1>1, <1>2, LogViewAssumption
  <2> QED BY <1>1, <1>2, <2>1, NoOneAssumption DEF RenderInv
<1> QED BY <1>3, <1>4, <1>5 DEF IInv

\* The inductive invariant of LogView: with the types, the numbers of the messages in
\* queue, logs, list and rows to do (main.py:63-68, flet_app.py:92-119,
\* syslog_tab.py:41-50, 108-141).
THEOREM InvariantCorrect == Spec => []IInv
<1>1. IInv /\ [Next]_vars => IInv'
  BY TypeStep, QueueStep, GapStep, RenderStep, OrderStep, MatchStep DEF IInv
<1> QED BY <1>1, IInvInit, PTL DEF Spec

\* Logs and list stay within their limits, whatever the searches do
\* (syslog_tab.py:129-141).
THEOREM TypeCorrect == Spec => []TypeOK
<1>1. IInv => TypeOK
  BY DEF IInv
<1> QED BY <1>1, InvariantCorrect, PTL

\* The logs are the latest messages without a gap (syslog_tab.py:129-132,
\* flet_app.py:96-99).
THEOREM LogsHaveNoGapCorrect == Spec => []LogsHaveNoGap
<1>1. IInv => LogsHaveNoGap
  BY DEF IInv
<1> QED BY <1>1, InvariantCorrect, PTL

\* The list is in the order of arrival and has no row twice, also while it is being
\* built (syslog_tab.py:108-141, flet_app.py:92-119).
THEOREM ListInOrderCorrect == Spec => []ListInOrder
<1>1. ASSUME IInv PROVE ListInOrder
  <2>1. TypeOK /\ OrderInv
    BY <1>1 DEF IInv
  <2>2. /\ DOMAIN controls = 1..Len(controls) /\ Len(controls) \in Nat
        /\ \A i \in DOMAIN controls : controls[i] \in Row
        /\ \A row \in Row : row.id \in Nat \ {0}
    BY <2>1, TypeFacts
  <2> SUFFICES ASSUME NEW i \in DOMAIN controls, NEW j \in DOMAIN controls, i < j
               PROVE  controls[i].id < controls[j].id
    BY DEF ListInOrder
  <2>3. i \in Nat /\ j \in Nat /\ controls[i].id \in Nat /\ controls[j].id \in Nat
    BY <2>2
  <2>4. controls[j].id - controls[i].id >= j - i
    BY <2>1, <2>3 DEF OrderInv
  <2> QED BY <2>3, <2>4
<1> QED BY <1>1, InvariantCorrect, PTL

\* Between searches each row in the list matches the filter, however searches and
\* messages were interleaved (syslog_tab.py:48-50, 108-141).
THEOREM OnlyMatchesListedCorrect == Spec => []OnlyMatchesListed
<1>1. ASSUME IInv PROVE OnlyMatchesListed
  <2>1. Quiet => \A i \in DOMAIN controls : controls[i].kind \in filter
    BY <1>1 DEF IInv, MatchInv, Quiet, Filtering
  <2> QED BY <2>1 DEF OnlyMatchesListed, ToSet
<1> QED BY <1>1, InvariantCorrect, PTL

\* Between searches no match among the latest ViewCap messages is missing from the list
\* (syslog_tab.py:108-141).
THEOREM RecentMatchesListedCorrect == Spec => []RecentMatchesListed
<1>1. ASSUME IInv PROVE RecentMatchesListed
  <2> SUFFICES ASSUME Quiet, NEW row \in ToSet(Latest(ViewCap, logs)), row.kind \in filter
               PROVE  \E i \in DOMAIN controls : controls[i] = row
    BY DEF RecentMatchesListed, ToSet
  <2>1. TypeOK /\ RenderInv /\ MatchInv
    BY <1>1 DEF IInv
  <2>2. ~Filtering /\ lock = NoOne
    BY <2>1 DEF Quiet, Filtering, RenderInv, TypeOK
  <2>3. DOMAIN todo = {}
    BY <2>1, <2>2 DEF RenderInv
  <2> DEFINE t == Latest(ViewCap, logs)
  <2>4. /\ t \in Seq(Row)
        /\ Len(t) = IF Len(logs) <= ViewCap THEN Len(logs) ELSE ViewCap
        /\ \A i \in 1..Len(t) : t[i] = logs[Len(logs) - Len(t) + i]
    BY <2>1, LatestFacts, LogViewAssumption DEF TypeOK
  <2>5. PICK i \in DOMAIN t : t[i] = row
    BY DEF ToSet
  <2>6. Len(logs) \in Nat /\ DOMAIN logs = 1..Len(logs) /\ ViewCap \in Nat \ {0}
    BY <2>1, TypeFacts
  <2>7. DOMAIN t = 1..Len(t)
    BY <2>4, LenProperties
  <2> HIDE DEF t
  <2> DEFINE k == Len(logs) - Len(t) + i
  <2>8. k \in DOMAIN logs /\ k > Len(logs) - ViewCap
    BY <2>4, <2>5, <2>6, <2>7
  <2>9. logs[k] = row
    BY <2>4, <2>5, <2>7
  <2> HIDE DEF k
  <2> QED BY <2>1, <2>2, <2>3, <2>8, <2>9 DEF MatchInv
<1> QED BY <1>1, InvariantCorrect, PTL

-----------------------------------------------------------------------------
\* Window: traps, transfers, errors and the status line.

\* How the lists of the window change, by index.
LEMMA HoldsByIndex ==
    ASSUME NEW T, NEW list \in Seq(T), NEW cap, NEW ids
    PROVE  HoldsLatest(list, cap, ids) <=>
               /\ \A i \in 1..Len(list) : list[i] \in ids
               /\ \A id \in ids : \/ \E i \in 1..Len(list) : list[i] = id
                                  \/ Len(list) = cap /\ \A i \in 1..Len(list) : id < list[i]
<1>1. DOMAIN list = 1..Len(list)
  BY LenProperties
<1>2. ToSet(list) = {list[i] : i \in 1..Len(list)}
  BY <1>1 DEF ToSet
<1>3. \A id : id \in ToSet(list) <=> \E i \in 1..Len(list) : list[i] = id
  BY <1>2
<1> QED BY <1>2, <1>3 DEF HoldsLatest

LEMMA HoldsIntro ==
    ASSUME NEW T, NEW list \in Seq(T), NEW cap, NEW ids,
           \A i \in 1..Len(list) : list[i] \in ids,
           \A id \in ids : \/ \E i \in 1..Len(list) : list[i] = id
                           \/ Len(list) = cap /\ \A i \in 1..Len(list) : id < list[i]
    PROVE  HoldsLatest(list, cap, ids)
BY HoldsByIndex

\* append and pop(0): oldest first.
LEMMA DropOldestKeeps ==
    ASSUME NEW T \in SUBSET Nat, NEW list \in Seq(T), NEW cap \in Nat \ {0},
           Len(list) <= cap, NEW ids, HoldsLatest(list, cap, ids), OldestFirst(list),
           NEW id \in T, \A m \in ids : m < id,
           NEW new, new = DropOldest(cap, Append(list, id))
    PROVE  /\ new \in Seq(T) /\ Len(new) <= cap
           /\ HoldsLatest(new, cap, ids \cup {id}) /\ OldestFirst(new)
<1> DEFINE n == Len(list)
           a == Append(list, id)
<1>1. /\ n \in Nat /\ a \in Seq(T) /\ Len(a) = n + 1
      /\ a[n + 1] = id /\ \A i \in 1..n : a[i] = list[i] /\ list[i] \in T
  BY AppendProperties, LenProperties
<1>2. DOMAIN list = 1..n
  BY LenProperties
<1>3. \A i \in 1..n : list[i] \in ids
  BY HoldsByIndex
<1>4. \A m \in ids : \/ \E i \in 1..n : list[i] = m
                     \/ n = cap /\ \A i \in 1..n : m < list[i]
  BY HoldsByIndex
<1>5. \A i, j \in 1..n : i < j => list[i] < list[j]
  BY <1>2 DEF OldestFirst
<1>6. \A i \in 1..n : list[i] < id
  BY <1>3
<1>7. n <= cap
  OBVIOUS
<1>8. new = IF n + 1 > cap THEN Tail(a) ELSE a
  BY <1>1 DEF DropOldest
<1>9. a # <<>>
  BY <1>1, EmptySeq
<1>10. /\ Tail(a) \in Seq(T) /\ Len(Tail(a)) = n
       /\ \A i \in 1..n : Tail(a)[i] = a[i + 1]
  BY <1>1, <1>9, HeadTailProperties
<1> HIDE DEF n, a
<1>11. CASE n < cap
  <2>1. new = a /\ new \in Seq(T) /\ Len(new) = n + 1
    BY <1>1, <1>8, <1>11
  <2>2. \A i \in 1..n : new[i] = list[i]
    BY <1>1, <2>1
  <2>2a. new[n + 1] = id /\ n + 1 \in 1..(n + 1)
    BY <1>1, <2>1
  <2>3. \A i \in 1..(n + 1) : new[i] \in ids \cup {id}
    BY <1>1, <1>3, <2>2, <2>2a
  <2>4. \A m \in ids \cup {id} : \E i \in 1..(n + 1) : new[i] = m
    <3> TAKE m \in ids \cup {id}
    <3>1. CASE m = id
      BY <2>2a, <3>1
    <3>2. CASE m \in ids
      <4>1. PICK i \in 1..n : list[i] = m
        BY <1>1, <1>4, <1>11, <3>2
      <4>2. i \in 1..(n + 1) /\ new[i] = m
        BY <1>1, <2>2, <4>1
      <4> QED BY <4>2
    <3> QED BY <3>1, <3>2
  <2>5. HoldsLatest(new, cap, ids \cup {id})
    BY <2>1, <2>3, <2>4, HoldsByIndex
  <2>6. \A i, j \in 1..(n + 1) : i < j => new[i] < new[j]
    <3> TAKE i, j \in 1..(n + 1)
    <3> HAVE i < j
    <3>1. i \in 1..n /\ new[i] = list[i]
      BY <1>1, <2>2
    <3>2. CASE j = n + 1
      BY <1>6, <2>2a, <3>1, <3>2
    <3>3. CASE j # n + 1
      <4>1. j \in 1..n
        BY <1>1, <3>3
      <4> QED BY <1>5, <2>2, <3>1, <4>1
    <3> QED BY <3>2, <3>3
  <2>7. DOMAIN new = 1..(n + 1)
    BY <2>1, LenProperties
  <2>8. OldestFirst(new)
    BY <2>6, <2>7 DEF OldestFirst
  <2>9. Len(new) <= cap
    BY <1>1, <1>11, <2>1
  <2> QED BY <2>1, <2>5, <2>8, <2>9
<1>12. CASE n = cap
  <2>1. new \in Seq(T) /\ Len(new) = n /\ n \in 1..n
    BY <1>1, <1>8, <1>10, <1>12
  <2>1a. \A i \in 1..n : new[i] = a[i + 1]
    BY <1>1, <1>8, <1>10, <1>12
  <2>2. \A i \in 1..n : i # n => i + 1 \in 1..n /\ new[i] = list[i + 1]
    <3> TAKE i \in 1..n
    <3> HAVE i # n
    <3>1. i + 1 \in 1..n
      BY <1>1
    <3> QED BY <1>1, <2>1a, <3>1
  <2>3. new[n] = id
    BY <1>1, <2>1, <2>1a
  <2>4. \A i \in 1..n : new[i] \in ids \cup {id}
    BY <1>3, <2>2, <2>3
  <2>5. ASSUME NEW m \in ids \cup {id}
        PROVE  \/ \E i \in 1..n : new[i] = m
               \/ n = cap /\ \A i \in 1..n : m < new[i]
    <3>1. CASE m = id
      BY <2>1, <2>3, <3>1
    <3>2. ASSUME m \in ids, NEW k \in 1..n, list[k] = m, k # 1
          PROVE  \E i \in 1..n : new[i] = m
      <4>1. k - 1 \in 1..n /\ k - 1 # n /\ (k - 1) + 1 = k
        BY <1>1, <3>2
      <4>2. new[k - 1] = m
        BY <2>2, <3>2, <4>1
      <4> QED BY <4>1, <4>2
    <3>3. ASSUME m \in ids, m = list[1] \/ \A i \in 1..n : m < list[i]
          PROVE  \A i \in 1..n : m < new[i]
      <4> TAKE i \in 1..n
      <4>1. CASE i = n
        BY <2>3, <3>3, <4>1
      <4>2. CASE i # n
        <5>1. i + 1 \in 1..n /\ new[i] = list[i + 1] /\ 1 \in 1..n /\ 1 < i + 1
          BY <1>1, <2>2, <4>2
        <5> QED BY <1>5, <3>3, <5>1
      <4> QED BY <4>1, <4>2
    <3>4. CASE m \in ids
      <4>1. CASE \E k \in 1..n : list[k] = m
        <5>1. PICK k \in 1..n : list[k] = m
          BY <4>1
        <5>2. CASE k = 1
          BY <1>12, <3>3, <3>4, <5>1, <5>2
        <5>3. CASE k # 1
          BY <3>2, <3>4, <5>1, <5>3
        <5> QED BY <5>2, <5>3
      <4>2. CASE n = cap /\ \A i \in 1..n : m < list[i]
        BY <3>3, <3>4, <4>2
      <4> QED BY <1>4, <3>4, <4>1, <4>2
    <3> QED BY <3>1, <3>4
  <2>6. HoldsLatest(new, cap, ids \cup {id})
    BY <2>1, <2>4, <2>5, HoldsByIndex
  <2>7. \A i, j \in 1..n : i < j => new[i] < new[j]
    <3> TAKE i, j \in 1..n
    <3> HAVE i < j
    <3>1. i # n /\ i + 1 \in 1..n /\ new[i] = list[i + 1]
      BY <1>1, <2>2
    <3>2. CASE j = n
      BY <1>6, <2>3, <3>1, <3>2
    <3>3. CASE j # n
      <4>1. j + 1 \in 1..n /\ new[j] = list[j + 1] /\ i + 1 < j + 1
        BY <1>1, <2>2, <3>3
      <4> QED BY <1>5, <3>1, <4>1
    <3> QED BY <3>2, <3>3
  <2>8. DOMAIN new = 1..n
    BY <2>1, LenProperties
  <2>9. OldestFirst(new)
    BY <2>7, <2>8 DEF OldestFirst
  <2> QED BY <1>7, <2>1, <2>6, <2>9
<1>13. n < cap \/ n = cap
  BY <1>1, <1>7
<1> QED BY <1>11, <1>12, <1>13

\* appendleft to the deque: newest first.
LEMMA AppendLeftKeeps ==
    ASSUME NEW T \in SUBSET Nat, NEW list \in Seq(T), NEW cap \in Nat \ {0},
           Len(list) <= cap, NEW ids, HoldsLatest(list, cap, ids), NewestFirst(list),
           NEW id \in T, \A m \in ids : m < id,
           NEW new, new = AppendLeft(cap, id, list)
    PROVE  /\ new \in Seq(T) /\ Len(new) <= cap
           /\ HoldsLatest(new, cap, ids \cup {id}) /\ NewestFirst(new)
<1> DEFINE n == Len(list)
           head == <<id>>
<1>1. /\ n \in Nat /\ n <= cap /\ DOMAIN list = 1..n
      /\ \A i \in 1..n : list[i] \in T
  BY LenProperties
<1>2. new = head \o (IF n = cap THEN Front(list) ELSE list)
  BY DEF AppendLeft
<1>3. Front(list) = SubSeq(list, 1, n - 1)
  BY DEF Front
<1>4. head \in Seq(T) /\ Len(head) = 1 /\ head[1] = id
  OBVIOUS
<1> HIDE DEF n, head
<1> DEFINE k == IF n = cap THEN n ELSE n + 1
<1>5. k \in 1..cap /\ 1 \in 1..k /\ (n = cap => k = n) /\ (n # cap => k = n + 1)
  BY <1>1
<1>6. PICK s \in Seq(T) : /\ new = head \o s /\ Len(s) = k - 1
                          /\ \A i \in 1..(k - 1) : s[i] = list[i]
  <2>1. CASE n = cap
    <3>1. /\ 1 \in Int /\ n - 1 \in Int /\ 1..(n - 1) \subseteq 1..n
          /\ (n - 1) - 1 + 1 = n - 1 /\ (~(1 <= n - 1) => n - 1 = 0)
      BY <1>1, <2>1
    <3>2. \A i \in 1..(n - 1) : list[i] \in T /\ 1 + i - 1 = i
      BY <1>1, <3>1
    <3>3. /\ Front(list) \in Seq(T)
          /\ Len(Front(list)) = IF 1 <= n - 1 THEN (n - 1) - 1 + 1 ELSE 0
          /\ \A i \in 1..((n - 1) - 1 + 1) : Front(list)[i] = list[1 + i - 1]
      BY <1>3, <3>1, <3>2, SubSeqProperties
    <3>4. Len(Front(list)) = n - 1 /\ \A i \in 1..(n - 1) : Front(list)[i] = list[i]
      BY <3>1, <3>2, <3>3
    <3> QED BY <1>2, <1>5, <2>1, <3>3, <3>4
  <2>2. CASE n # cap
    <3>1. new = head \o list /\ k - 1 = n
      BY <1>1, <1>2, <2>2
    <3>2. Len(list) = n
      BY DEF n
    <3> QED BY <3>1, <3>2
  <2> QED BY <2>1, <2>2
<1> HIDE DEF k
<1>7. /\ new \in Seq(T) /\ Len(new) = k
      /\ \A i \in 1..k : new[i] = IF i <= 1 THEN head[i] ELSE s[i - 1]
  <2>1. 1 + (k - 1) = k
    BY <1>5
  <2>2. /\ new \in Seq(T) /\ Len(new) = Len(head) + Len(s)
        /\ \A i \in 1..(Len(head) + Len(s)) :
               new[i] = IF i <= Len(head) THEN head[i] ELSE s[i - Len(head)]
    <3> DEFINE joined == head \o s
    <3>1. /\ joined \in Seq(T) /\ Len(joined) = Len(head) + Len(s)
          /\ \A i \in 1..(Len(head) + Len(s)) :
                 joined[i] = IF i <= Len(head) THEN head[i] ELSE s[i - Len(head)]
      BY <1>4, ConcatProperties
    <3>2. new = joined
      BY <1>6
    <3> HIDE DEF joined
    <3> QED BY <3>1, <3>2
  <2> QED BY <1>4, <1>6, <2>1, <2>2
<1>8. new[1] = id
  BY <1>4, <1>5, <1>7
<1>9. \A i \in 1..k : i # 1 => i - 1 \in 1..(k - 1) /\ new[i] = list[i - 1]
  <2> TAKE i \in 1..k
  <2> HAVE i # 1
  <2>1. i - 1 \in 1..(k - 1) /\ ~(i <= 1)
    BY <1>5
  <2> QED BY <1>6, <1>7, <2>1
<1>10. 1..(k - 1) \subseteq 1..n /\ (n = cap => n \in 1..n /\ 1..(k - 1) = 1..(n - 1))
  BY <1>1, <1>5
<1>11. \A i \in 1..n : list[i] \in ids /\ list[i] < id
  BY HoldsByIndex DEF n
<1>12. \A m \in ids : \/ \E i \in 1..n : list[i] = m
                      \/ n = cap /\ \A i \in 1..n : m < list[i]
  BY HoldsByIndex DEF n
<1>13. \A i, j \in 1..n : i < j => list[i] > list[j]
  BY <1>1 DEF NewestFirst
<1>14. \A i \in 1..k : new[i] \in ids \cup {id}
  BY <1>8, <1>9, <1>10, <1>11
<1>15. ASSUME NEW m \in ids \cup {id}
       PROVE  \/ \E i \in 1..k : new[i] = m
              \/ k = cap /\ \A i \in 1..k : m < new[i]
  <2>1. CASE m = id
    BY <1>5, <1>8, <2>1
  <2>2. ASSUME m \in ids, NEW j \in 1..(k - 1), list[j] = m
        PROVE  \E i \in 1..k : new[i] = m
    <3>1. j + 1 \in 1..k /\ j + 1 # 1 /\ (j + 1) - 1 = j
      BY <1>1, <1>5
    <3>2. new[j + 1] = m
      BY <1>9, <2>2, <3>1
    <3> QED BY <3>1, <3>2
  <2>3. ASSUME m \in ids, n = cap, m = list[n] \/ \A i \in 1..n : m < list[i]
        PROVE  k = cap /\ \A i \in 1..k : m < new[i]
    <3>1. k = cap /\ n \in 1..n
      BY <1>1, <1>5, <2>3
    <3>2. \A i \in 1..k : m < new[i]
      <4> TAKE i \in 1..k
      <4>1. CASE i = 1
        BY <1>8, <2>3, <4>1
      <4>2. CASE i # 1
        <5>1. i - 1 \in 1..(n - 1) /\ i - 1 \in 1..n /\ new[i] = list[i - 1]
          BY <1>9, <1>10, <2>3, <4>2
        <5>1a. i - 1 < n
          BY <1>1, <5>1
        <5>2. list[i - 1] \in Nat /\ list[n] \in Nat
          BY <1>1, <3>1, <5>1
        <5> QED BY <1>13, <2>3, <3>1, <5>1, <5>1a, <5>2
      <4> QED BY <4>1, <4>2
    <3> QED BY <3>1, <3>2
  <2>4. CASE m \in ids
    <3>1. CASE \E j \in 1..n : list[j] = m
      <4>1. PICK j \in 1..n : list[j] = m
        BY <3>1
      <4>2. j \in 1..(k - 1) \/ (j = n /\ n = cap)
        BY <1>1, <1>5
      <4> QED BY <2>2, <2>3, <2>4, <4>1, <4>2
    <3> QED BY <1>12, <2>3, <2>4, <3>1
  <2> QED BY <2>1, <2>4
<1>16. HoldsLatest(new, cap, ids \cup {id})
  <2>1. \A i \in 1..Len(new) : new[i] \in ids \cup {id}
    BY <1>7, <1>14
  <2>2. \A m \in ids \cup {id} :
            \/ \E i \in 1..Len(new) : new[i] = m
            \/ Len(new) = cap /\ \A i \in 1..Len(new) : m < new[i]
    BY <1>7, <1>15
  <2>3. new \in Seq(T)
    BY <1>7
  <2> QED BY <2>1, <2>2, <2>3, HoldsIntro, Zenon
<1>17. \A i, j \in 1..k : i < j => new[i] > new[j]
  <2> TAKE i, j \in 1..k
  <2> HAVE i < j
  <2>0. i \in Nat /\ j \in Nat /\ j # 1
    BY <1>5
  <2>1. j - 1 \in 1..n /\ new[j] = list[j - 1]
    BY <1>9, <1>10, <2>0
  <2>1a. list[j - 1] \in Nat /\ list[j - 1] < id
    BY <1>1, <1>11, <2>1
  <2>2. CASE i = 1
    BY <1>8, <2>1, <2>1a, <2>2
  <2>3. CASE i # 1
    <3>1. i - 1 \in 1..n /\ new[i] = list[i - 1]
      BY <1>9, <1>10, <2>3
    <3>2. i - 1 < j - 1
      BY <2>0
    <3> QED BY <1>13, <2>1, <3>1, <3>2
  <2> QED BY <2>2, <2>3
<1>18. DOMAIN new = 1..k
  BY <1>7, LenProperties
<1>19. NewestFirst(new)
  BY <1>17, <1>18 DEF NewestFirst
<1>20. Len(new) <= cap
  BY <1>5, <1>7
<1> QED BY <1>7, <1>16, <1>19, <1>20

\* The board, by index: b is right about the messages ids of s.
BoardRight(b, ids, s) ==
    /\ \A id \in ids : \E i \in 1..Len(b) : b[i].key = s[id].key
    /\ \A i \in 1..Len(b) :
           /\ b[i].count \in ids /\ s[b[i].count].key = b[i].key
           /\ \A id \in ids : s[id].key = b[i].key => id <= b[i].count
    /\ \A i, j \in 1..Len(b) : i < j =>
           \E first \in ids : /\ s[first].key = b[i].key
                              /\ \A id \in ids : s[id].key = b[j].key => first < id

BoardRow == [key : Keys, count : Ids]

\* The count of a row is overwritten.
LEMMA OverwriteKeeps ==
    ASSUME NEW b \in Seq(BoardRow), NEW ids \in SUBSET Nat, NEW s, BoardRight(b, ids, s),
           NEW id \in Nat, \A m \in ids : m < id, NEW key, s[id].key = key,
           \E i \in 1..Len(b) : b[i].key = key,
           NEW new \in Seq(BoardRow), Len(new) = Len(b),
           \A i \in 1..Len(b) : /\ new[i].key = b[i].key
                                /\ b[i].key = key => new[i].count = id
                                /\ b[i].key # key => new[i].count = b[i].count
    PROVE  BoardRight(new, ids \cup {id}, s)
<1>1. \A m \in ids \cup {id} : \E i \in 1..Len(b) : new[i].key = s[m].key
  BY DEF BoardRight
<1>2. ASSUME NEW i \in 1..Len(b)
      PROVE  /\ new[i].count \in ids \cup {id} /\ s[new[i].count].key = new[i].key
             /\ \A m \in ids \cup {id} : s[m].key = new[i].key => m <= new[i].count
  <2>1. CASE b[i].key = key
    BY <2>1
  <2>2. CASE b[i].key # key
    BY <2>2 DEF BoardRight
  <2> QED BY <2>1, <2>2
<1>3. ASSUME NEW i \in 1..Len(b), NEW j \in 1..Len(b), i < j
      PROVE  \E first \in ids \cup {id} :
                 /\ s[first].key = new[i].key
                 /\ \A m \in ids \cup {id} : s[m].key = new[j].key => first < m
  <2>1. PICK first \in ids : /\ s[first].key = b[i].key
                             /\ \A m \in ids : s[m].key = b[j].key => first < m
    BY <1>3 DEF BoardRight
  <2>2. \A m \in ids \cup {id} : s[m].key = b[j].key => first < m
    BY <2>1
  <2> QED BY <2>1, <2>2
<1> QED BY <1>1, <1>2, <1>3 DEF BoardRight

\* A row is appended for a key that is new.
LEMMA NewRowKeeps ==
    ASSUME NEW b \in Seq(BoardRow), NEW ids \in SUBSET Nat, NEW s, BoardRight(b, ids, s),
           NEW id \in Nat, \A m \in ids : m < id, NEW key, s[id].key = key,
           \A i \in 1..Len(b) : b[i].key # key,
           NEW new \in Seq(BoardRow), Len(new) = Len(b) + 1,
           new[Len(b) + 1].key = key, new[Len(b) + 1].count = id,
           \A i \in 1..Len(b) : new[i] = b[i]
    PROVE  BoardRight(new, ids \cup {id}, s)
<1> DEFINE n == Len(b)
<1>1. n \in Nat
  BY LenProperties
<1>2. /\ n + 1 \in 1..(n + 1) /\ 1..n \subseteq 1..(n + 1)
      /\ \A i \in 1..(n + 1) : i \in 1..n \/ i = n + 1
  BY <1>1
<1>3. ASSUME NEW m \in ids PROVE s[m].key # key
  <2>1. PICK i \in 1..n : b[i].key = s[m].key
    BY DEF BoardRight
  <2> QED BY <2>1
<1>4. ASSUME NEW m \in ids \cup {id}
      PROVE  \E i \in 1..(n + 1) : new[i].key = s[m].key
  <2>1. CASE m = id
    BY <1>2, <2>1
  <2>2. CASE m \in ids
    <3>1. PICK i \in 1..n : b[i].key = s[m].key
      BY <2>2 DEF BoardRight
    <3> QED BY <1>2, <3>1
  <2> QED BY <2>1, <2>2
<1>5. ASSUME NEW i \in 1..(n + 1)
      PROVE  /\ new[i].count \in ids \cup {id} /\ s[new[i].count].key = new[i].key
             /\ \A m \in ids \cup {id} : s[m].key = new[i].key => m <= new[i].count
  <2>1. CASE i = n + 1
    BY <1>3, <2>1
  <2>2. CASE i \in 1..n
    BY <2>2 DEF BoardRight
  <2> QED BY <1>2, <2>1, <2>2
<1>6. ASSUME NEW i \in 1..(n + 1), NEW j \in 1..(n + 1), i < j
      PROVE  \E first \in ids \cup {id} :
                 /\ s[first].key = new[i].key
                 /\ \A m \in ids \cup {id} : s[m].key = new[j].key => first < m
  <2>1. i \in 1..n /\ new[i] = b[i]
    BY <1>1, <1>6
  <2>2. CASE j = n + 1
    <3>1. b[i].count \in ids /\ s[b[i].count].key = new[i].key /\ b[i].count < id
      BY <2>1 DEF BoardRight
    <3>2. \A m \in ids \cup {id} : s[m].key = new[j].key => b[i].count < m
      BY <1>3, <2>2, <3>1
    <3> QED BY <3>1, <3>2
  <2>3. CASE j \in 1..n
    <3>1. PICK first \in ids : /\ s[first].key = b[i].key
                               /\ \A m \in ids : s[m].key = b[j].key => first < m
      BY <1>6, <2>1, <2>3 DEF BoardRight
    <3>2. \A m \in ids \cup {id} : s[m].key = new[j].key => first < m
      BY <2>3, <3>1
    <3> QED BY <2>1, <3>1, <3>2
  <2> QED BY <1>2, <2>2, <2>3
<1>7. Len(new) = n + 1
  OBVIOUS
<1>8. \A m \in ids \cup {id} : \E i \in 1..Len(new) : new[i].key = s[m].key
  BY <1>4, <1>7
<1>9. \A i \in 1..Len(new) :
          /\ new[i].count \in ids \cup {id} /\ s[new[i].count].key = new[i].key
          /\ \A m \in ids \cup {id} : s[m].key = new[i].key => m <= new[i].count
  BY <1>5, <1>7
<1>10. \A i, j \in 1..Len(new) : i < j =>
           \E first \in ids \cup {id} :
               /\ s[first].key = new[i].key
               /\ \A m \in ids \cup {id} : s[m].key = new[j].key => first < m
  BY <1>6, <1>7
<1> QED BY <1>8, <1>9, <1>10 DEF BoardRight

\* The board depends on the keys of those messages only.
LEMMA SameKeys ==
    ASSUME NEW b, NEW ids, NEW s, NEW s2, BoardRight(b, ids, s),
           \A id \in ids : s2[id] = s[id]
    PROVE  BoardRight(b, ids, s2)
<1>1. \A id \in ids : \E i \in 1..Len(b) : b[i].key = s2[id].key
  BY DEF BoardRight
<1>2. \A i \in 1..Len(b) :
          /\ b[i].count \in ids /\ s2[b[i].count].key = b[i].key
          /\ \A id \in ids : s2[id].key = b[i].key => id <= b[i].count
  BY DEF BoardRight
<1>3. ASSUME NEW i \in 1..Len(b), NEW j \in 1..Len(b), i < j
      PROVE  \E first \in ids : /\ s2[first].key = b[i].key
                                /\ \A id \in ids : s2[id].key = b[j].key => first < id
  <2>1. PICK first \in ids : /\ s[first].key = b[i].key
                             /\ \A id \in ids : s[id].key = b[j].key => first < id
    BY <1>3 DEF BoardRight
  <2> QED BY <2>1
<1> QED BY <1>1, <1>2, <1>3 DEF BoardRight

LEMMA UpdateKeeps ==
    ASSUME NEW b \in Seq(BoardRow), NEW ids \in SUBSET Nat, NEW s, BoardRight(b, ids, s),
           NEW id \in Ids, \A m \in ids : m < id, NEW key \in Keys, s[id].key = key
    PROVE  LET new == IF \E i \in DOMAIN b : b[i].key = key
                      THEN [i \in DOMAIN b |-> IF b[i].key = key
                                               THEN [key |-> key, count |-> id] ELSE b[i]]
                      ELSE Append(b, [key |-> key, count |-> id])
           IN  new \in Seq(BoardRow) /\ BoardRight(new, ids \cup {id}, s)
<1> DEFINE e == [key |-> key, count |-> id]
           over == [i \in 1..Len(b) |-> IF b[i].key = key THEN e ELSE b[i]]
           more == Append(b, e)
<1>1. Len(b) \in Nat /\ DOMAIN b = 1..Len(b) /\ \A i \in 1..Len(b) : b[i] \in BoardRow
  BY LenProperties
<1>2. e \in BoardRow /\ e.key = key /\ e.count = id /\ id \in Nat
  BY WindowAssumption DEF BoardRow, Ids
<1> HIDE DEF e
<1>3. CASE \E i \in 1..Len(b) : b[i].key = key
  <2>1. over \in [1..Len(b) -> BoardRow] /\ Len(b) \in Nat
    BY <1>1, <1>2
  <2>2. \A i \in 1..Len(b) : over[i] = IF b[i].key = key THEN e ELSE b[i]
    OBVIOUS
  <2> HIDE DEF over
  <2>3. over \in Seq(BoardRow) /\ Len(over) = Len(b)
    BY <2>1
  <2>4. \A i \in 1..Len(b) : /\ over[i].key = b[i].key
                             /\ b[i].key = key => over[i].count = id
                             /\ b[i].key # key => over[i].count = b[i].count
    BY <1>2, <2>2
  <2>5. BoardRight(over, ids \cup {id}, s)
    <3>1. \E i \in 1..Len(b) : b[i].key = key
      BY <1>3
    <3>2. id \in Nat /\ Len(over) = Len(b) /\ over \in Seq(BoardRow)
      BY <1>2, <2>3
    <3>3. /\ ids \in SUBSET Nat /\ s[id].key = key /\ \A m \in ids : m < id
      OBVIOUS
    <3> QED BY <2>4, <3>1, <3>2, <3>3, OverwriteKeeps
  <2> QED BY <1>1, <1>3, <2>3, <2>5 DEF over, e
<1>4. CASE \A i \in 1..Len(b) : b[i].key # key
  <2>1. /\ more \in Seq(BoardRow) /\ Len(more) = Len(b) + 1
        /\ more[Len(b) + 1] = e /\ \A i \in 1..Len(b) : more[i] = b[i]
    BY <1>2, AppendProperties
  <2> HIDE DEF more
  <2>2. BoardRight(more, ids \cup {id}, s)
    BY <1>2, <1>4, <2>1, NewRowKeeps
  <2> QED BY <1>1, <1>4, <2>1, <2>2 DEF more, e
<1> QED BY <1>3, <1>4

-----------------------------------------------------------------------------
\* All lists at once, for the first k messages of s.
TakenOf(k, s, type) == {id \in 1..k : s[id].type = type}

LatestLists(t, l, f, e, b, k, s) ==
    /\ HoldsLatest(t, TrapCap, TakenOf(k, s, "snmp")) /\ OldestFirst(t)
    /\ HoldsLatest(l, RowCap, TakenOf(k, s, "snmp")) /\ OldestFirst(l)
    /\ HoldsLatest(f, NoticeCap, TakenOf(k, s, "ftp")) /\ NewestFirst(f)
    /\ e \in TakenOf(k, s, "error") \cup {0}
    /\ \A id \in TakenOf(k, s, "error") : id <= e
    /\ BoardRight(b, TakenOf(k, s, "tftp"), s)

LEMMA ListsNow ==
    ASSUME WindowTypeOK, ListsAreLatest
    PROVE  LatestLists(traps, trap_list, transfers, snack_bar, board, taken, sent)
<1>1. DOMAIN board = 1..Len(board)
  BY LenProperties DEF WindowTypeOK
<1>2. BoardRight(board, TakenOf(taken, sent, "tftp"), sent)
  <2> DEFINE ids == TakenOf(taken, sent, "tftp")
  <2>1. ids = Taken("tftp")
    BY DEF Taken, TakenOf
  <2> HIDE DEF ids
  <2>2. \A key, id : id \in About(key) <=> id \in ids /\ sent[id].key = key
    BY <2>1 DEF About
  <2>3. \A id \in ids : \E i \in 1..Len(board) : board[i].key = sent[id].key
    BY <1>1, <2>1 DEF ListsAreLatest
  <2>4. \A i \in 1..Len(board) :
            /\ board[i].count \in ids /\ sent[board[i].count].key = board[i].key
            /\ \A id \in ids : sent[id].key = board[i].key => id <= board[i].count
    BY <1>1, <2>2 DEF ListsAreLatest
  <2>5. ASSUME NEW i \in 1..Len(board), NEW j \in 1..Len(board), i < j
        PROVE  \E first \in ids :
                   /\ sent[first].key = board[i].key
                   /\ \A id \in ids : sent[id].key = board[j].key => first < id
    <3>1. PICK first \in About(board[i].key) : \A id \in About(board[j].key) : first < id
      BY <1>1, <2>5 DEF ListsAreLatest
    <3> QED BY <2>2, <3>1
  <2> QED BY <2>3, <2>4, <2>5 DEF BoardRight, ids
<1>3. /\ HoldsLatest(traps, TrapCap, TakenOf(taken, sent, "snmp")) /\ OldestFirst(traps)
      /\ HoldsLatest(trap_list, RowCap, TakenOf(taken, sent, "snmp"))
      /\ OldestFirst(trap_list)
      /\ HoldsLatest(transfers, NoticeCap, TakenOf(taken, sent, "ftp"))
      /\ NewestFirst(transfers)
      /\ snack_bar \in TakenOf(taken, sent, "error") \cup {0}
      /\ \A id \in TakenOf(taken, sent, "error") : id <= snack_bar
  BY DEF ListsAreLatest, Taken, TakenOf
<1> QED BY <1>2, <1>3 DEF LatestLists

LEMMA ListsNext ==
    ASSUME WindowTypeOK',
           LatestLists(traps', trap_list', transfers', snack_bar', board', taken', sent')
    PROVE  ListsAreLatest'
<1>1. DOMAIN board' = 1..Len(board')
  BY LenProperties DEF WindowTypeOK
<1>2. BoardRight(board', TakenOf(taken', sent', "tftp"), sent')
  BY DEF LatestLists
<1>3. /\ \A id \in TakenOf(taken', sent', "tftp") :
             \E i \in DOMAIN board' : board'[i].key = sent'[id].key
      /\ \A i \in DOMAIN board' :
             /\ board'[i].count \in {id \in TakenOf(taken', sent', "tftp") :
                                         sent'[id].key = board'[i].key}
             /\ \A id \in TakenOf(taken', sent', "tftp") :
                    sent'[id].key = board'[i].key => id <= board'[i].count
      /\ \A i, j \in DOMAIN board' : i < j =>
             \E first \in {id \in TakenOf(taken', sent', "tftp") :
                               sent'[id].key = board'[i].key} :
                 \A id \in TakenOf(taken', sent', "tftp") :
                     sent'[id].key = board'[j].key => first < id
  BY <1>1, <1>2 DEF BoardRight
<1>4. /\ (\A id \in Taken("tftp") : \E i \in DOMAIN board : board[i].key = sent[id].key)'
      /\ (\A i \in DOMAIN board :
              /\ board[i].count \in About(board[i].key)
              /\ \A id \in About(board[i].key) : id <= board[i].count)'
      /\ (\A i, j \in DOMAIN board : i < j =>
              \E first \in About(board[i].key) : \A id \in About(board[j].key) : first < id)'
  BY <1>3 DEF About, Taken, TakenOf
<1>5. /\ HoldsLatest(traps', TrapCap, TakenOf(taken', sent', "snmp")) /\ OldestFirst(traps')
      /\ HoldsLatest(trap_list', RowCap, TakenOf(taken', sent', "snmp"))
      /\ OldestFirst(trap_list')
      /\ HoldsLatest(transfers', NoticeCap, TakenOf(taken', sent', "ftp"))
      /\ NewestFirst(transfers')
      /\ snack_bar' \in TakenOf(taken', sent', "error") \cup {0}
      /\ \A id \in TakenOf(taken', sent', "error") : id <= snack_bar'
  BY DEF LatestLists
<1> QED BY <1>4, <1>5 DEF ListsAreLatest, Taken, TakenOf

LEMMA MessageTypes ==
    ASSUME NEW m \in Messages
    PROVE  /\ m.type \in {"snmp", "ftp", "error", "tftp"}
           /\ m.type = "tftp" => m.key \in Keys
BY DEF Messages

\* What the steps of the queue need to know of the variables.
LEMMA WindowTypes ==
    ASSUME WindowTypeOK
    PROVE  /\ MaxSent \in Nat /\ Ids \in SUBSET Nat
           /\ Len(sent) \in Nat /\ Len(sent) <= MaxSent /\ DOMAIN sent = 1..Len(sent)
           /\ \A i \in 1..Len(sent) : sent[i] \in Messages
           /\ taken \in 0..Len(sent)
           /\ traps \in Seq(Ids) /\ Len(traps) <= TrapCap
           /\ trap_list \in Seq(Ids) /\ Len(trap_list) <= RowCap
           /\ transfers \in Seq(Ids) /\ Len(transfers) <= NoticeCap
           /\ TrapCap \in Nat \ {0} /\ RowCap \in Nat \ {0} /\ NoticeCap \in Nat \ {0}
           /\ board \in Seq(BoardRow)
<1>1. sent \in Seq(Messages) /\ Len(sent) <= MaxSent /\ taken \in 0..Len(sent)
  BY DEF WindowTypeOK
<1>2. /\ Len(sent) \in Nat /\ DOMAIN sent = 1..Len(sent)
      /\ \A i \in 1..Len(sent) : sent[i] \in Messages
  BY <1>1, LenProperties
<1>3. /\ traps \in Seq(Ids) /\ Len(traps) <= TrapCap
      /\ trap_list \in Seq(Ids) /\ Len(trap_list) <= RowCap
      /\ transfers \in Seq(Ids) /\ Len(transfers) <= NoticeCap
      /\ board \in Seq(BoardRow)
  BY DEF WindowTypeOK, BoardRow
<1>4. /\ MaxSent \in Nat /\ Ids \in SUBSET Nat
      /\ TrapCap \in Nat \ {0} /\ RowCap \in Nat \ {0} /\ NoticeCap \in Nat \ {0}
  BY WindowAssumption DEF Ids
<1> QED BY <1>1, <1>2, <1>3, <1>4

\* A message that is put on the queue is not among the first.
LEMMA PutStep ==
    ASSUME WindowTypeOK, ListsAreLatest, NEW msg \in Messages, Put(msg)
    PROVE  WindowTypeOK' /\ ListsAreLatest'
<1>1. /\ sent' = Append(sent, msg) /\ Len(sent) < MaxSent
      /\ UNCHANGED <<taken, updates, lists, clicks, client, line, stale, overlap>>
  BY DEF Put
<1>2. /\ sent' \in Seq(Messages) /\ Len(sent') = Len(sent) + 1
      /\ \A i \in 1..Len(sent) : sent'[i] = sent[i]
  BY <1>1, AppendProperties DEF WindowTypeOK
<1>3. Len(sent') <= MaxSent /\ taken' \in 0..Len(sent')
  BY <1>1, <1>2, WindowTypes
<1>4. WindowTypeOK'
  BY <1>1, <1>2, <1>3 DEF WindowTypeOK, lists, line
<1>5. \A i \in 1..taken : sent'[i] = sent[i]
  BY <1>2, WindowTypes
<1>6. \A type : TakenOf(taken, sent', type) = TakenOf(taken, sent, type)
  BY <1>5 DEF TakenOf
<1>7. BoardRight(board, TakenOf(taken, sent, "tftp"), sent)
  BY ListsNow DEF LatestLists
<1>8. BoardRight(board, TakenOf(taken, sent, "tftp"), sent')
  <2>1. \A id \in TakenOf(taken, sent, "tftp") : sent'[id] = sent[id]
    BY <1>5 DEF TakenOf
  <2> QED BY <1>7, <2>1, SameKeys
<1>9. LatestLists(traps, trap_list, transfers, snack_bar, board, taken, sent')
  BY <1>6, <1>8, ListsNow DEF LatestLists
<1>10. /\ traps' = traps /\ trap_list' = trap_list /\ transfers' = transfers
       /\ snack_bar' = snack_bar /\ board' = board /\ taken' = taken
  BY <1>1 DEF lists
<1> QED BY <1>4, <1>9, <1>10, ListsNext

\* A message is taken off.
LEMMA TakeStep ==
    ASSUME WindowTypeOK, ListsAreLatest, NEW id \in Ids, Take(id)
    PROVE  WindowTypeOK' /\ ListsAreLatest'
<1> DEFINE type == sent[id].type
           T(ty) == TakenOf(taken, sent, ty)
           T2(ty) == TakenOf(taken', sent', ty)
<1>1. /\ id = taken + 1 /\ taken' = id /\ updates' = "dirty" /\ stale' = TRUE
      /\ UNCHANGED <<sent, clicks, client, line, overlap>>
  BY DEF Take
<1>2. id \in 1..Len(sent) /\ id \in Nat /\ taken \in Nat
  BY <1>1, WindowTypes DEF Take
<1>3. /\ type \in {"snmp", "ftp", "error", "tftp"}
      /\ type = "tftp" => sent[id].key \in Keys
  BY <1>2, WindowTypes, MessageTypes
<1>4. \A ty : T(ty) \in SUBSET Nat /\ \A m \in T(ty) : m < id
  BY <1>1, <1>2 DEF TakenOf
<1>5. \A i \in 1..id : i \in 1..taken \/ i = id
  BY <1>1, <1>2
<1>6. id \in 1..id /\ 1..taken \subseteq 1..id
  BY <1>1, <1>2
<1>7. \A ty : /\ ty = type => T2(ty) = T(ty) \cup {id}
              /\ ty # type => T2(ty) = T(ty)
  <2> TAKE ty
  <2>1. T2(ty) = {i \in 1..id : sent[i].type = ty}
    BY <1>1 DEF TakenOf
  <2>2. CASE ty = type
    BY <1>5, <1>6, <2>1, <2>2 DEF TakenOf
  <2>3. CASE ty # type
    BY <1>5, <1>6, <2>1, <2>3 DEF TakenOf
  <2> QED BY <2>2, <2>3
<1>8. LatestLists(traps, trap_list, transfers, snack_bar, board, taken, sent)
  BY ListsNow
<1>9. /\ HoldsLatest(traps, TrapCap, T("snmp")) /\ OldestFirst(traps)
      /\ HoldsLatest(trap_list, RowCap, T("snmp")) /\ OldestFirst(trap_list)
      /\ HoldsLatest(transfers, NoticeCap, T("ftp")) /\ NewestFirst(transfers)
      /\ snack_bar \in T("error") \cup {0} /\ \A m \in T("error") : m <= snack_bar
      /\ BoardRight(board, T("tftp"), sent)
  BY <1>8 DEF LatestLists
<1> HIDE DEF type, T, T2
<1> DEFINE Fine == /\ traps' \in Seq(Ids) /\ Len(traps') <= TrapCap
                   /\ trap_list' \in Seq(Ids) /\ Len(trap_list') <= RowCap
                   /\ transfers' \in Seq(Ids) /\ Len(transfers') <= NoticeCap
                   /\ board' \in Seq(BoardRow) /\ snack_bar' \in 0..MaxSent
                   /\ HoldsLatest(traps', TrapCap, T2("snmp")) /\ OldestFirst(traps')
                   /\ HoldsLatest(trap_list', RowCap, T2("snmp")) /\ OldestFirst(trap_list')
                   /\ HoldsLatest(transfers', NoticeCap, T2("ftp"))
                   /\ NewestFirst(transfers')
                   /\ snack_bar' \in T2("error") \cup {0}
                   /\ \A m \in T2("error") : m <= snack_bar'
                   /\ BoardRight(board', T2("tftp"), sent)
<1>10. snack_bar \in 0..MaxSent
  BY DEF WindowTypeOK
<1>11. ASSUME type = "snmp" PROVE Fine
  <2>1. AppendTrap(id)
    BY <1>11 DEF Take, type
  <2>2. /\ traps' \in Seq(Ids) /\ Len(traps') <= TrapCap
        /\ HoldsLatest(traps', TrapCap, T("snmp") \cup {id}) /\ OldestFirst(traps')
    BY <1>4, <1>9, <2>1, WindowTypes, DropOldestKeeps DEF AppendTrap
  <2>3. /\ trap_list' \in Seq(Ids) /\ Len(trap_list') <= RowCap
        /\ HoldsLatest(trap_list', RowCap, T("snmp") \cup {id}) /\ OldestFirst(trap_list')
    BY <1>4, <1>9, <2>1, WindowTypes, DropOldestKeeps DEF AppendTrap
  <2>4. transfers' = transfers /\ board' = board /\ snack_bar' = snack_bar
    BY <2>1 DEF AppendTrap
  <2>5. /\ T2("snmp") = T("snmp") \cup {id} /\ T2("ftp") = T("ftp")
        /\ T2("error") = T("error") /\ T2("tftp") = T("tftp")
    BY <1>7, <1>11
  <2> QED BY <1>9, <1>10, <2>2, <2>3, <2>4, <2>5, WindowTypes
<1>12. ASSUME type = "ftp" PROVE Fine
  <2>1. AppendTransfer(id)
    BY <1>12 DEF Take, type
  <2>2. transfers' = AppendLeft(NoticeCap, id, transfers)
    BY <2>1 DEF AppendTransfer
  <2>3. /\ transfers' \in Seq(Ids) /\ Len(transfers') <= NoticeCap
        /\ HoldsLatest(transfers', NoticeCap, T("ftp") \cup {id}) /\ NewestFirst(transfers')
    <3>1. /\ transfers \in Seq(Ids) /\ Len(transfers) <= NoticeCap
          /\ Ids \in SUBSET Nat /\ NoticeCap \in Nat \ {0}
      BY WindowTypes
    <3>2. \A m \in T("ftp") : m < id
      BY <1>4
    <3>3. HoldsLatest(transfers, NoticeCap, T("ftp")) /\ NewestFirst(transfers)
      BY <1>9
    <3> QED BY <2>2, <3>1, <3>2, <3>3, AppendLeftKeeps
  <2>4. /\ traps' = traps /\ trap_list' = trap_list /\ board' = board
        /\ snack_bar' = snack_bar
    BY <2>1 DEF AppendTransfer
  <2>5. /\ T2("snmp") = T("snmp") /\ T2("ftp") = T("ftp") \cup {id}
        /\ T2("error") = T("error") /\ T2("tftp") = T("tftp")
    BY <1>7, <1>12
  <2> QED BY <1>9, <1>10, <2>3, <2>4, <2>5, WindowTypes
<1>13. ASSUME type = "error" PROVE Fine
  <2>1. ShowError(id)
    BY <1>13 DEF Take, type
  <2>2. /\ traps' = traps /\ trap_list' = trap_list /\ board' = board
        /\ transfers' = transfers /\ snack_bar' = id
    BY <2>1 DEF ShowError
  <2>3. /\ T2("snmp") = T("snmp") /\ T2("ftp") = T("ftp")
        /\ T2("error") = T("error") \cup {id} /\ T2("tftp") = T("tftp")
    BY <1>7, <1>13
  <2>4. \A m \in T("error") \cup {id} : m <= id
    BY <1>2, <1>4
  <2>5. id \in 0..MaxSent
    BY <1>2, WindowTypes
  <2> QED BY <1>9, <2>2, <2>3, <2>4, <2>5, WindowTypes
<1>14. ASSUME type = "tftp" PROVE Fine
  <2>1. UpdateProgress(sent[id].key, id)
    BY <1>14 DEF Take, type
  <2>2. /\ traps' = traps /\ trap_list' = trap_list /\ transfers' = transfers
        /\ snack_bar' = snack_bar
    BY <2>1 DEF UpdateProgress
  <2>3. board' \in Seq(BoardRow) /\ BoardRight(board', T("tftp") \cup {id}, sent)
    BY <1>3, <1>4, <1>9, <1>14, <2>1, WindowTypes, UpdateKeeps DEF UpdateProgress
  <2>4. /\ T2("snmp") = T("snmp") /\ T2("ftp") = T("ftp")
        /\ T2("error") = T("error") /\ T2("tftp") = T("tftp") \cup {id}
    BY <1>7, <1>14
  <2> QED BY <1>9, <1>10, <2>2, <2>3, <2>4, WindowTypes
<1>15. Fine
  BY <1>3, <1>11, <1>12, <1>13, <1>14
<1>16. WindowTypeOK'
  <2>1. sent' = sent /\ taken' \in 0..Len(sent')
    BY <1>1, <1>2, WindowTypes
  <2> QED BY <1>1, <1>15, <2>1 DEF WindowTypeOK, line, BoardRow
<1>17. LatestLists(traps', trap_list', transfers', snack_bar', board', taken', sent')
  BY <1>1, <1>15 DEF LatestLists, T2
<1> QED BY <1>16, <1>17, ListsNext

-----------------------------------------------------------------------------
\* The steps of the status line leave queue and lists alone.
LEMMA SameLists ==
    ASSUME ListsAreLatest, UNCHANGED <<sent, taken, updates, lists>>
    PROVE  ListsAreLatest'
BY DEF ListsAreLatest, Taken, About, lists

UnderWay == ClientStates \ {"none", "complete", "error"}

LEMMA MoveFacts ==
    ASSUME WindowTypeOK, NEW t \in Transfers, NEW from, NEW to \in ClientStates,
           Move(t, from, to)
    PROVE  /\ client[t] = from /\ client'[t] = to
           /\ \A u \in Transfers : u # t => client'[u] = client[u]
           /\ client' \in [Transfers -> ClientStates]
           /\ UNCHANGED <<sent, taken, updates, lists>>
BY DEF WindowTypeOK, Move

\* A transfer that is under way goes on, and writes the line or leaves it.
GoesOn(t, from, to) ==
    /\ from \in UnderWay /\ to \in ClientStates \ {"none"}
    /\ Move(t, from, to)
    /\ \/ status' = status /\ \A text \in Texts : from \in Stages(text) => to \in Stages(text)
       \/ \E text \in Texts : status' = [of |-> t, text |-> text] /\ to \in Stages(text)
    /\ color' \in {"default", "orange", "green", "red"}
    /\ to \in {"green", "complete"} =>
           color' = "green" \/ (color' = color /\ from \in {"green", "complete"})
    /\ to \in {"red", "error"} =>
           color' = "red" \/ (color' = color /\ from \in {"red", "error"})
    /\ stale' \in BOOLEAN
    /\ UNCHANGED <<clicks, overlap>>

LEMMA GoesOnKeeps ==
    ASSUME WindowInv, NEW t \in Transfers, NEW from, NEW to, GoesOn(t, from, to)
    PROVE  WindowInv'
<1>1. WindowTypeOK /\ ListsAreLatest /\ SaysWhere /\ OneAtATime
  BY DEF WindowInv
<1>2. /\ from \in UnderWay /\ to \in ClientStates /\ to # "none"
      /\ Move(t, from, to) /\ clicks' = clicks /\ overlap' = overlap
  BY DEF GoesOn
<1>3. /\ client[t] = from /\ client'[t] = to
      /\ \A u \in Transfers : u # t => client'[u] = client[u]
      /\ client' \in [Transfers -> ClientStates]
      /\ UNCHANGED <<sent, taken, updates, lists>>
  BY <1>1, <1>2, MoveFacts
<1>4. /\ MaxTransfers \in Nat /\ clicks \in 0..MaxTransfers
      /\ status \in [of : 0..MaxTransfers, text : Texts]
      /\ overlap \in BOOLEAN
  BY <1>1, WindowAssumption DEF WindowTypeOK
<1>5. t \in 1..clicks /\ clicks > 0
  BY <1>1, <1>2, <1>3, <1>4 DEF OneAtATime, UnderWay, Transfers
<1>6. 1..clicks \subseteq Transfers
  BY <1>4 DEF Transfers
<1>7. /\ status.of \in 1..clicks /\ client[status.of] \in Stages(status.text)
      /\ status.text \in Texts
  BY <1>1, <1>4, <1>5 DEF SaysWhere
<1>8. status'.of \in 1..clicks /\ status'.text \in Texts
      /\ status' \in [of : 0..MaxTransfers, text : Texts]
      /\ client'[status'.of] \in Stages(status'.text)
  <2>1. CASE \E text \in Texts : status' = [of |-> t, text |-> text] /\ to \in Stages(text)
    BY <1>3, <1>4, <1>5, <2>1
  <2>2. CASE /\ status' = status
             /\ \A text \in Texts : from \in Stages(text) => to \in Stages(text)
    <3>1. CASE status.of = t
      BY <1>3, <1>4, <1>7, <2>2, <3>1
    <3>2. CASE status.of # t
      BY <1>3, <1>4, <1>6, <1>7, <2>2, <3>2
    <3> QED BY <3>1, <3>2
  <2> QED BY <2>1, <2>2 DEF GoesOn
<1>9. WindowTypeOK'
  BY <1>1, <1>2, <1>3, <1>8 DEF WindowTypeOK, lists, GoesOn
<1>10. ListsAreLatest'
  BY <1>1, <1>3, SameLists
<1>11. SaysWhere'
  BY <1>2, <1>8 DEF SaysWhere
<1>12. \A u \in Transfers : u > clicks => client'[u] = "none"
  BY <1>1, <1>3, <1>4, <1>5 DEF OneAtATime, Transfers
<1>13. ASSUME ~overlap
       PROVE  /\ \A u \in Transfers :
                    u < clicks => client'[u] \in {"none", "complete", "error"}
              /\ status'.of = clicks
              /\ client'[clicks] \in {"green", "complete"} => color' = "green"
              /\ client'[clicks] \in {"red", "error"}      => color' = "red"
  <2>1. /\ \A u \in Transfers : u < clicks => client[u] \in {"none", "complete", "error"}
        /\ status.of = clicks
        /\ client[clicks] \in {"green", "complete"} => color = "green"
        /\ client[clicks] \in {"red", "error"}      => color = "red"
    BY <1>1, <1>5, <1>13 DEF OneAtATime, Ended
  <2>2. t = clicks
    BY <1>2, <1>3, <1>4, <1>5, <2>1 DEF UnderWay
  <2>3. \A u \in Transfers : u < clicks => client'[u] \in {"none", "complete", "error"}
    BY <1>3, <1>4, <2>1, <2>2 DEF Transfers
  <2>4. status'.of = clicks
    BY <2>1, <2>2 DEF GoesOn
  <2>5. /\ client'[clicks] \in {"green", "complete"} => color' = "green"
        /\ client'[clicks] \in {"red", "error"}      => color' = "red"
    BY <1>3, <2>1, <2>2 DEF GoesOn
  <2> QED BY <2>3, <2>4, <2>5
<1>14. OneAtATime'
  BY <1>2, <1>12, <1>13 DEF OneAtATime, Ended
<1> QED BY <1>9, <1>10, <1>11, <1>14 DEF WindowInv

LEMMA ClientSteps ==
    ASSUME WindowInv, NEW t \in Transfers, Tell(t) \/ End(t) \/ Proceed(t)
    PROVE  \E from, to : GoesOn(t, from, to)
<1>1. /\ stale \in BOOLEAN /\ color \in {"default", "orange", "green", "red"}
  BY DEF WindowInv, WindowTypeOK
<1> USE <1>1 DEF GoesOn, UnderWay, ClientStates, Texts, Stages, Write, Paint, Update, line
<1>2. CASE Tell(t)
  BY <1>2 DEF Tell
<1>3. CASE Complete(t)
  BY <1>3 DEF Complete
<1>4. CASE Fail(t)
  BY <1>4 DEF Fail
<1>5. CASE PaintOrange(t)
  BY <1>5 DEF PaintOrange
<1>6. CASE Spawn(t)
  BY <1>6 DEF Spawn
<1>7. CASE Told(t)
  BY <1>7 DEF Told
<1>8. CASE PaintGreen(t)
  <2>1. /\ Move(t, "completing", "green") /\ color' = "green" /\ stale' = TRUE
        /\ UNCHANGED <<clicks, status, overlap>>
    BY <1>8 DEF PaintGreen
  <2>2. GoesOn(t, "completing", "green")
    BY <2>1
  <2> QED BY <2>2
<1>9. CASE Completed(t)
  BY <1>9 DEF Completed
<1>10. CASE TellError(t)
  BY <1>10 DEF TellError
<1>11. CASE PaintRed(t)
  <2>1. /\ Move(t, "erring", "red") /\ color' = "red" /\ stale' = TRUE
        /\ UNCHANGED <<clicks, status, overlap>>
    BY <1>11 DEF PaintRed
  <2>2. GoesOn(t, "erring", "red")
    BY <2>1
  <2> QED BY <2>2
<1>12. CASE Erred(t)
  BY <1>12 DEF Erred
<1> QED BY <1>2, <1>3, <1>4, <1>5, <1>6, <1>7, <1>8, <1>9, <1>10, <1>11, <1>12
        DEF End, Proceed

\* A click begins the next transfer, and none before it is under way unless it overlaps.
LEMMA ClickStep ==
    ASSUME WindowInv, Click
    PROVE  WindowInv'
<1> DEFINE t == clicks + 1
<1>1. WindowTypeOK /\ ListsAreLatest /\ SaysWhere /\ OneAtATime
  BY DEF WindowInv
<1>2. /\ Move(t, "none", "executing") /\ clicks' = t /\ clicks < MaxTransfers
      /\ status' = [of |-> t, text |-> "executing"] /\ stale' = TRUE /\ color' = color
      /\ overlap' = (overlap \/ \E u \in Transfers : ~Ended(u))
  BY DEF Click
<1>3. clicks \in Nat /\ t \in Transfers /\ t \in 0..MaxTransfers /\ t > 0 /\ t \in 1..t
  BY <1>1, <1>2, WindowAssumption DEF WindowTypeOK, Transfers
<1>4. /\ client'[t] = "executing"
      /\ \A u \in Transfers : u # t => client'[u] = client[u]
      /\ client' \in [Transfers -> ClientStates]
      /\ UNCHANGED <<sent, taken, updates, lists>>
  <2>1. "executing" \in ClientStates
    BY DEF ClientStates
  <2> QED BY <1>1, <1>2, <1>3, <2>1, MoveFacts
<1>5. overlap' \in BOOLEAN
  BY <1>1, <1>2 DEF WindowTypeOK
<1>6. status' \in [of : 0..MaxTransfers, text : Texts] /\ status'.of = t
      /\ status'.text = "executing"
  BY <1>2, <1>3 DEF Texts
<1>7. WindowTypeOK'
  <2>1. clicks' \in 0..MaxTransfers
    BY <1>2, <1>3
  <2> QED BY <1>1, <1>2, <1>4, <1>5, <1>6, <2>1 DEF WindowTypeOK, lists
<1>8. ListsAreLatest'
  BY <1>1, <1>4, SameLists
<1>9. SaysWhere'
  BY <1>2, <1>3, <1>4, <1>6 DEF SaysWhere, Stages
<1> HIDE DEF t
<1>10. \A u \in Transfers : u > clicks' => client'[u] = "none"
  BY <1>1, <1>2, <1>3, <1>4 DEF OneAtATime, Transfers, t
<1>11. ASSUME ~overlap'
       PROVE  \A u \in Transfers : u < t => client'[u] \in {"none", "complete", "error"}
  <2>1. \A u \in Transfers : Ended(u)
    BY <1>2, <1>11
  <2> QED BY <1>3, <1>4, <2>1 DEF Ended, Transfers
<1>12. OneAtATime'
  <2>1. client'[clicks'] \notin {"green", "complete", "red", "error"}
    BY <1>2, <1>4
  <2> QED BY <1>2, <1>6, <1>10, <1>11, <2>1 DEF OneAtATime, Ended
<1> QED BY <1>7, <1>8, <1>9, <1>12 DEF WindowInv

\* The thread of check_queue and the back ends leave the status line alone.
LEMMA SameLine ==
    ASSUME SaysWhere, OneAtATime, UNCHANGED <<clicks, client, line, overlap>>
    PROVE  SaysWhere' /\ OneAtATime'
BY DEF SaysWhere, OneAtATime, Ended, line

LEMMA WindowInvInit == WindowInit => WindowInv
<1> SUFFICES ASSUME WindowInit PROVE WindowInv
  OBVIOUS
<1> USE DEF WindowInit
<1>1. WindowTypeOK
  <2>1. /\ sent \in Seq(Messages) /\ Len(sent) = 0
        /\ traps \in Seq(Ids) /\ Len(traps) = 0
        /\ trap_list \in Seq(Ids) /\ Len(trap_list) = 0
        /\ transfers \in Seq(Ids) /\ Len(transfers) = 0
        /\ board \in Seq([key : Keys, count : Ids])
    OBVIOUS
  <2>2. /\ 0 <= MaxSent /\ 0 <= TrapCap /\ 0 <= RowCap /\ 0 <= NoticeCap
        /\ 0 \in 0..0 /\ 0 \in 0..MaxSent /\ 0 \in 0..MaxTransfers
    BY WindowAssumption
  <2>3. /\ client \in [Transfers -> ClientStates]
        /\ status \in [of : 0..MaxTransfers, text : Texts]
        /\ color \in {"default", "orange", "green", "red"}
    BY <2>2 DEF ClientStates, Texts
  <2> QED BY <2>1, <2>2, <2>3 DEF WindowTypeOK
<1>2. ListsAreLatest
  <2>1. \A type : Taken(type) = {}
    BY DEF Taken
  <2>2. \A cap : HoldsLatest(<<>>, cap, {})
    BY DEF HoldsLatest, ToSet
  <2>3. OldestFirst(<<>>) /\ NewestFirst(<<>>)
    BY DEF OldestFirst, NewestFirst
  <2>4. DOMAIN board = {}
    OBVIOUS
  <2> QED BY <2>1, <2>2, <2>3, <2>4 DEF ListsAreLatest
<1>3. SaysWhere /\ OneAtATime
  BY DEF SaysWhere, OneAtATime
<1> QED BY <1>1, <1>2, <1>3 DEF WindowInv

\* The invariant of the window: its lists, the state of each transfer of the TFTP client
\* and the status line (flet_app.py:92-119, tftp_tab.py:111-159).
THEOREM WindowInvariantCorrect == WindowSpec => []WindowInv
<1>1. WindowInv /\ [WindowNext]_windowVars => WindowInv'
  <2> SUFFICES ASSUME WindowInv, [WindowNext]_windowVars PROVE WindowInv'
    OBVIOUS
  <2>1. WindowTypeOK /\ ListsAreLatest /\ SaysWhere /\ OneAtATime
    BY DEF WindowInv
  <2>2. ASSUME NEW msg \in Messages, Put(msg) PROVE WindowInv'
    <3>1. WindowTypeOK' /\ ListsAreLatest'
      BY <2>1, <2>2, PutStep
    <3>2. UNCHANGED <<clicks, client, line, overlap>>
      BY <2>2 DEF Put
    <3> QED BY <2>1, <3>1, <3>2, SameLine DEF WindowInv
  <2>3. ASSUME NEW id \in Ids, Take(id) PROVE WindowInv'
    <3>1. WindowTypeOK' /\ ListsAreLatest'
      BY <2>1, <2>3, TakeStep
    <3>2. UNCHANGED <<clicks, client, line, overlap>>
      BY <2>3 DEF Take
    <3> QED BY <2>1, <3>1, <3>2, SameLine DEF WindowInv
  <2>4. CASE QueueEmpty \/ ShowAll \/ UNCHANGED windowVars
    <3>1. /\ UNCHANGED <<sent, taken, lists, clicks, client, line, overlap>>
          /\ updates' \in {"clean", "dirty", "updating"} /\ stale' \in BOOLEAN
      BY <2>1, <2>4 DEF QueueEmpty, ShowAll, windowVars, WindowTypeOK
    <3>2. WindowTypeOK'
      BY <2>1, <3>1 DEF WindowTypeOK, lists, line
    <3>3. ListsAreLatest'
      BY <2>1, <3>1 DEF ListsAreLatest, Taken, About, lists
    <3> QED BY <2>1, <3>1, <3>2, <3>3, SameLine DEF WindowInv
  <2>5. CASE Click
    BY <2>5, ClickStep
  <2>6. ASSUME NEW t \in Transfers, Tell(t) \/ End(t) \/ Proceed(t) PROVE WindowInv'
    BY <2>6, ClientSteps, GoesOnKeeps
  <2> QED BY <2>2, <2>3, <2>4, <2>5, <2>6 DEF WindowNext, CheckQueue
<1> QED BY WindowInvInit, <1>1, PTL DEF WindowSpec

\* All lists stay within their limits (snmp_tab.py:171-189, ftp_tab.py:30).
THEOREM WindowTypeCorrect == WindowSpec => []WindowTypeOK
<1>1. WindowInv => WindowTypeOK
  BY DEF WindowInv
<1> QED BY <1>1, WindowInvariantCorrect, PTL

\* Traps, transfers and the last error are displayed as they came
\* (snmp_tab.py:165-189, ftp_tab.py:64-68, tftp_tab.py:13-19, flet_app.py:92-119).
THEOREM ListsAreLatestCorrect == WindowSpec => []ListsAreLatest
<1>1. WindowInv => ListsAreLatest
  BY DEF WindowInv
<1> QED BY <1>1, WindowInvariantCorrect, PTL

\* When no transfer is under way the status line says how one ended, and without overlap
\* how the last one did (tftp_tab.py:111-159).
THEOREM StatusIsFinalCorrect == WindowSpec => []StatusIsFinal
<1>1. WindowInv => StatusIsFinal
  <2> SUFFICES ASSUME WindowInv, clicks > 0, \A t \in Transfers : Ended(t)
               PROVE  /\ status.text \in {"complete", "error"}
                      /\ client[status.of] = status.text
                      /\ ~overlap =>
                             /\ status.of = clicks
                             /\ color = IF status.text = "complete" THEN "green" ELSE "red"
    BY DEF StatusIsFinal
  <2>1. /\ status.of \in Transfers /\ client[status.of] \in Stages(status.text)
        /\ status.text \in Texts
    BY WindowAssumption DEF WindowInv, WindowTypeOK, SaysWhere, Transfers
  <2>2. client[status.of] \in {"none", "complete", "error"}
    BY <2>1 DEF Ended
  <2>3. status.text \in {"complete", "error"} /\ client[status.of] = status.text
    BY <2>1, <2>2 DEF Stages, Texts
  <2>4. ~overlap => /\ status.of = clicks
                    /\ color = IF status.text = "complete" THEN "green" ELSE "red"
    BY <2>3 DEF WindowInv, OneAtATime
  <2> QED BY <2>3, <2>4
<1> QED BY <1>1, WindowInvariantCorrect, PTL
=============================================================================

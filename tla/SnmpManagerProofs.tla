------------------------- MODULE SnmpManagerProofs -------------------------
EXTENDS SnmpManager, TLAPS

\* What any step of a handler or thread leaves alone.
LEMMA ProgramFrame ==
    ASSUME NEW r \in Requests, Program(r)
    PROVE  /\ clicks' = clicks /\ hasty' = hasty
           /\ disabled' \in {disabled, disabled \union {"get"}, disabled \union {"walk"},
                             disabled \ {"get"}, disabled \ {"walk"}}
           /\ screen' \in {screen, disabled}
           /\ mgr_list' \in {mgr_list, <<>>}
                  \/ \E what \in {"answer", "error", "unseen"} : Show(r, what)
BY DEF Program, Clear, DisableGet, DisableWalk, Spawn, Submit, BadArguments, GotResult,
   GotResultUnseen, GotException, TimedOut, Cancel, ShowError, EnableGet, EnableWalk, Finish

LEMMA TypeStep == TypeOK /\ [Next]_vars => TypeOK'
<1> SUFFICES ASSUME TypeOK, [Next]_vars PROVE TypeOK'
  OBVIOUS
<1>0. Requests \subseteq Nat
  BY DEF Requests
<1>1. ASSUME NEW b \in Buttons, Click(b) PROVE TypeOK'
  <2>1. clicks + 1 \in 0..MaxRequests
    BY <1>1, ManagerAssumption DEF Click, TypeOK
  <2>2. request' \in [Requests -> RequestStates] /\ hasty' \in BOOLEAN
    BY <1>1 DEF Click, Move, TypeOK, RequestStates
  <2> QED BY <1>1, <2>1, <2>2 DEF Click, TypeOK
<1>2. ASSUME NEW r \in Requests, Program(r) PROVE TypeOK'
  <2>1. mgr_list' \in Seq(Rows)
    <3>1. CASE mgr_list' \in {mgr_list, <<>>}
      <4>1. <<>> \in Seq(Rows)
        OBVIOUS
      <4> QED BY <3>1, <4>1 DEF TypeOK
    <3>2. CASE \E what \in {"answer", "error", "unseen"} : Show(r, what)
      <4>1. PICK what \in {"answer", "error", "unseen"} : Show(r, what)
        BY <3>2
      <4>2. [of |-> r, shows |-> what] \in Rows
        BY DEF Rows
      <4>3. mgr_list \in Seq(Rows) /\ mgr_list' = Append(mgr_list, [of |-> r, shows |-> what])
        BY <4>1 DEF Show, TypeOK
      <4> HIDE DEF Rows
      <4> QED BY <4>2, <4>3
    <3> QED BY <1>2, <3>1, <3>2, ProgramFrame
  <2>2. disabled' \in SUBSET Buttons /\ screen' \in SUBSET Buttons
    <3>1. disabled \in SUBSET Buttons /\ screen \in SUBSET Buttons
      BY DEF TypeOK
    <3> QED BY <1>2, <3>1, ProgramFrame DEF Buttons
  <2>3. task' \in [Requests -> TaskStates]
    BY <1>2 DEF Program, Clear, DisableGet, DisableWalk, Spawn, Submit, BadArguments,
       GotResult, GotResultUnseen, GotException, TimedOut, Cancel, ShowError, EnableGet,
       EnableWalk, Finish, TaskStates, TypeOK
  <2>4. request' \in [Requests -> RequestStates]
    BY <1>2 DEF Program, Clear, DisableGet, DisableWalk, Spawn, Submit, BadArguments,
       GotResult, GotResultUnseen, GotException, TimedOut, Cancel, ShowError, EnableGet,
       EnableWalk, Finish, Move, RequestStates, TypeOK
  <2> QED BY <1>2, <2>1, <2>2, <2>3, <2>4, ProgramFrame DEF TypeOK
<1>3. ASSUME NEW r \in Requests, Complete(r) \/ DeliverCancel(r) PROVE TypeOK'
  BY <1>3 DEF Complete, DeliverCancel, TaskStates, TypeOK
<1>4. CASE Refresh
  BY <1>4 DEF Refresh, TypeOK
<1>5. CASE UNCHANGED vars
  BY <1>5 DEF vars, TypeOK
<1> QED BY <1>1, <1>2, <1>3, <1>4, <1>5 DEF Next

\* What a step may do to the requests: at most one of them moves, and one that
\* comes under way does so by a click.
LEMMA OneMoves ==
    ASSUME TypeOK, NEW r \in Requests, Program(r)
    PROVE  /\ UnderWay(r) /\ request'[r] \notin {"none", "clicked"}
           /\ \A s \in Requests : s # r => request'[s] = request[s]
BY DEF TypeOK, Program, Clear, DisableGet, DisableWalk, Spawn, Submit, BadArguments,
   GotResult, GotResultUnseen, GotException, TimedOut, Cancel, ShowError, EnableGet,
   EnableWalk, Finish, Move, UnderWay

-----------------------------------------------------------------------------
\* A step that leaves the list alone and takes no request back from displaying.
LEMMA ListKept ==
    ASSUME IInv, TypeOK', mgr_list' = mgr_list,
           \A r \in Requests : \A what \in {"answer", "error", "unseen"} :
               request[r] \in Past(what) => request'[r] \in Past(what)
    PROVE  ListInv'
<1>1. \A i \in DOMAIN mgr_list : mgr_list[i] \in Rows
  BY DEF IInv, TypeOK
<1>2. AnsweredOnce'
  BY DEF IInv, ListInv, AnsweredOnce
<1>3. \A i \in DOMAIN mgr_list : request'[mgr_list[i].of] \in Past(mgr_list[i].shows)
  BY <1>1 DEF IInv, ListInv, Rows
<1> QED BY <1>2, <1>3 DEF ListInv

\* A step that displays something of r, which has at most a result displayed.
LEMMA ListGrows ==
    ASSUME IInv, TypeOK', NEW r \in Requests, NEW to,
           NEW what \in {"answer", "error", "unseen"}, Show(r, what),
           request' = [request EXCEPT ![r] = to],
           to \in Past(what), to \in Past("answer"),
           request[r] \in {"waiting", "failed"} \/ (request[r] = "unseen" /\ what = "unseen")
    PROVE  ListInv'
<1> DEFINE n == Len(mgr_list)
<1>1. /\ mgr_list \in Seq(Rows)
      /\ request \in [Requests -> RequestStates]
  BY DEF IInv, TypeOK
<1>2. /\ n \in Nat
      /\ DOMAIN mgr_list' = 1..(n + 1)
      /\ \A i \in 1..n : mgr_list'[i] = mgr_list[i]
      /\ mgr_list'[n + 1] = [of |-> r, shows |-> what]
  BY <1>1 DEF Show
<1>3. \A i \in 1..n : /\ mgr_list[i].of \in Requests
                      /\ mgr_list[i].shows \in {"answer", "error", "unseen"}
                      /\ request[mgr_list[i].of] \in Past(mgr_list[i].shows)
  <2>1. DOMAIN mgr_list = 1..n /\ \A i \in 1..n : mgr_list[i] \in Rows
    BY <1>1
  <2>2. \A i \in 1..n : request[mgr_list[i].of] \in Past(mgr_list[i].shows)
    BY <2>1 DEF IInv, ListInv
  <2>3. \A row \in Rows : row.of \in Requests /\ row.shows \in {"answer", "error", "unseen"}
    BY DEF Rows
  <2> QED BY <2>1, <2>2, <2>3
<1>4. \A i \in 1..n : mgr_list[i].of = r =>
          mgr_list[i].shows = "answer" /\ what = "unseen" /\ request[r] = "unseen"
  BY <1>3 DEF Past
<1>5. AnsweredOnce'
  <2>1. \A i, j \in 1..n : i < j /\ mgr_list[i].of = mgr_list[j].of =>
            mgr_list[i].shows = "answer" /\ mgr_list[j].shows = "unseen"
    BY <1>1 DEF IInv, ListInv, AnsweredOnce
  <2> SUFFICES ASSUME NEW i \in 1..(n + 1), NEW j \in 1..(n + 1), i < j,
                      mgr_list'[i].of = mgr_list'[j].of
               PROVE  mgr_list'[i].shows = "answer" /\ mgr_list'[j].shows = "unseen"
    BY <1>2 DEF AnsweredOnce
  <2>2. i \in 1..n
    BY <1>2
  <2>3. CASE j \in 1..n
    BY <1>2, <2>1, <2>2, <2>3
  <2>4. CASE j = n + 1
    BY <1>2, <1>4, <2>2, <2>4
  <2> QED BY <1>2, <2>3, <2>4
<1>6. \A i \in 1..(n + 1) : request'[mgr_list'[i].of] \in Past(mgr_list'[i].shows)
  <2> SUFFICES ASSUME NEW i \in 1..(n + 1)
               PROVE  request'[mgr_list'[i].of] \in Past(mgr_list'[i].shows)
    OBVIOUS
  <2>1. CASE i = n + 1
    <3>1. mgr_list'[i].of = r /\ mgr_list'[i].shows = what /\ request'[r] = to
      BY <1>1, <1>2, <2>1
    <3> QED BY <3>1
  <2>2. CASE i \in 1..n /\ mgr_list[i].of = r
    BY <1>1, <1>2, <1>4, <2>2
  <2>3. CASE i \in 1..n /\ mgr_list[i].of # r
    BY <1>1, <1>2, <1>3, <2>3
  <2> QED BY <1>2, <2>1, <2>2, <2>3
<1> QED BY <1>2, <1>5, <1>6 DEF ListInv

LEMMA ListStep == IInv /\ [Next]_vars => ListInv'
<1> SUFFICES ASSUME IInv, [Next]_vars PROVE ListInv'
  OBVIOUS
<1>1. TypeOK /\ TypeOK'
  BY TypeStep DEF IInv
<1>2. request \in [Requests -> RequestStates]
  BY <1>1 DEF TypeOK
<1>3. ASSUME NEW b \in Buttons, Click(b) PROVE ListInv'
  BY <1>1, <1>2, <1>3, ListKept DEF Click, Move, Past
<1>4. ASSUME NEW r \in Requests, Program(r) PROVE ListInv'
  <2>1. CASE Clear(r)
    <3>1. mgr_list' = <<>>
      BY <2>1 DEF Clear
    <3> QED BY <3>1 DEF ListInv, AnsweredOnce
  <2>2. CASE GotResult(r)
    <3>1. /\ Show(r, "answer")
          /\ request[r] = "waiting"
          /\ request' = [request EXCEPT ![r] = "shown"]
      BY <2>2 DEF GotResult, Move
    <3>2. "shown" \in Past("answer")
      BY DEF Past
    <3> QED BY <1>1, <3>1, <3>2, ListGrows
  <2>3. CASE GotResultUnseen(r)
    <3>1. /\ Show(r, "answer")
          /\ request[r] = "waiting"
          /\ request' = [request EXCEPT ![r] = "unseen"]
      BY <2>3 DEF GotResultUnseen, Move
    <3>2. "unseen" \in Past("answer")
      BY DEF Past
    <3> QED BY <1>1, <3>1, <3>2, ListGrows
  <2>4. CASE Move(r, "failed", "shown") /\ Show(r, "error")
    <3>1. /\ Show(r, "error")
          /\ request[r] = "failed"
          /\ request' = [request EXCEPT ![r] = "shown"]
      BY <2>4 DEF Move
    <3>2. "shown" \in Past("error") /\ "shown" \in Past("answer")
      BY DEF Past
    <3> QED BY <1>1, <3>1, <3>2, ListGrows
  <2>5. CASE Move(r, "unseen", "shown") /\ Show(r, "unseen")
    <3>1. /\ Show(r, "unseen")
          /\ request[r] = "unseen"
          /\ request' = [request EXCEPT ![r] = "shown"]
      BY <2>5 DEF Move
    <3>2. "shown" \in Past("unseen") /\ "shown" \in Past("answer")
      BY DEF Past
    <3> QED BY <1>1, <3>1, <3>2, ListGrows
  <2>6. CASE DisableGet(r) \/ DisableWalk(r) \/ Spawn(r) \/ Submit(r) \/ BadArguments(r)
             \/ GotException(r) \/ TimedOut(r) \/ Cancel(r)
    BY <1>1, <1>2, <2>6, ListKept
       DEF DisableGet, DisableWalk, Spawn, Submit, BadArguments, GotException, TimedOut,
           Cancel, Move, Past
  <2>7. CASE EnableGet(r) \/ EnableWalk(r) \/ Finish(r)
    BY <1>1, <1>2, <2>7, ListKept DEF EnableGet, EnableWalk, Finish, Move, Past
  <2> QED BY <1>4, <2>1, <2>2, <2>3, <2>4, <2>5, <2>6, <2>7 DEF Program, ShowError
<1>5. ASSUME NEW r \in Requests, Complete(r) \/ DeliverCancel(r) PROVE ListInv'
  BY <1>1, <1>5, ListKept DEF Complete, DeliverCancel
<1>6. CASE Refresh \/ UNCHANGED vars
  BY <1>1, <1>6, ListKept DEF Refresh, vars
<1> QED BY <1>3, <1>4, <1>5, <1>6 DEF Next

-----------------------------------------------------------------------------
LEMMA CountStep ==
    IInv /\ [Next]_vars => \A r \in Requests : r > clicks' => request'[r] = "none"
<1> SUFFICES ASSUME IInv, [Next]_vars
             PROVE  \A r \in Requests : r > clicks' => request'[r] = "none"
  OBVIOUS
<1>1. TypeOK /\ \A r \in Requests : r > clicks => request[r] = "none"
  BY DEF IInv
<1>2. ASSUME NEW b \in Buttons, Click(b)
      PROVE  \A r \in Requests : r > clicks' => request'[r] = "none"
  BY <1>1, <1>2, ManagerAssumption DEF Click, Move, TypeOK, Requests
<1>3. ASSUME NEW s \in Requests, Program(s)
      PROVE  \A r \in Requests : r > clicks' => request'[r] = "none"
  BY <1>1, <1>3, OneMoves, ProgramFrame DEF UnderWay
<1>4. CASE UNCHANGED <<clicks, request>>
  BY <1>1, <1>4
<1> QED BY <1>2, <1>3, <1>4 DEF Next, Complete, DeliverCancel, Refresh, vars

\* A step that disables no button and lets no request forget what it owes.
LEMMA OwedKept ==
    ASSUME DisabledIsOwed, disabled' \subseteq disabled,
           \A r \in Requests : \A b \in disabled' : Owes(r, b) => Owes(r, b)'
    PROVE  DisabledIsOwed'
BY DEF DisabledIsOwed

LEMMA OwedStep == IInv /\ [Next]_vars => DisabledIsOwed'
<1> SUFFICES ASSUME IInv, [Next]_vars PROVE DisabledIsOwed'
  OBVIOUS
<1>1. TypeOK /\ DisabledIsOwed
  BY DEF IInv
<1>2. request \in [Requests -> RequestStates] /\ disabled \subseteq Buttons
  BY <1>1 DEF TypeOK
<1>3. ASSUME NEW c \in Buttons, Click(c) PROVE DisabledIsOwed'
  BY <1>1, <1>2, <1>3, OwedKept DEF Click, Move, Owes, Active, UnderWay
<1>4. ASSUME NEW r \in Requests, Program(r) PROVE DisabledIsOwed'
  <2>1. CASE DisableGet(r)
    <3>1. /\ disabled' = disabled \union {"get"}
          /\ request[r] = "cleared" /\ request' = [request EXCEPT ![r] = "get_disabled"]
      BY <2>1 DEF DisableGet, Move
    <3>2. Owes(r, "get")'
      BY <1>2, <3>1 DEF Owes
    <3>3. ASSUME NEW b \in disabled PROVE \E s \in Requests : Owes(s, b)'
      <4>1. PICK s \in Requests : Owes(s, b)
        BY <1>1, <3>3 DEF DisabledIsOwed
      <4>2. Owes(s, b)'
        BY <1>2, <3>1, <4>1 DEF Owes, Active, UnderWay
      <4> QED BY <4>2
    <3> QED BY <3>1, <3>2, <3>3 DEF DisabledIsOwed
  <2>2. CASE DisableWalk(r)
    <3>1. /\ disabled' = disabled \union {"walk"} /\ disabled' \subseteq Buttons
          /\ request' = [request EXCEPT ![r] = "disabled"]
      BY <1>2, <2>2 DEF DisableWalk, Move, Buttons
    <3>2. \A b \in Buttons : Owes(r, b)'
      BY <1>2, <3>1 DEF Owes, Active, UnderWay
    <3> QED BY <3>1, <3>2 DEF DisabledIsOwed
  <2>3. CASE EnableGet(r)
    <3>1. /\ disabled' = disabled \ {"get"}
          /\ request[r] = "shown" /\ request' = [request EXCEPT ![r] = "get_enabled"]
      BY <2>3 DEF EnableGet, Move
    <3>2. \A b \in disabled' : b = "walk"
      BY <1>2, <3>1 DEF Buttons
    <3>3. \A s \in Requests : Owes(s, "walk") => Owes(s, "walk")'
      BY <1>2, <3>1 DEF Owes, Active, UnderWay
    <3> QED BY <1>1, <3>1, <3>2, <3>3, OwedKept
  <2>4. CASE EnableWalk(r)
    <3>1. /\ disabled' = disabled \ {"walk"}
          /\ request[r] = "get_enabled" /\ request' = [request EXCEPT ![r] = "enabled"]
      BY <2>4 DEF EnableWalk, Move
    <3>2. \A b \in disabled' : b = "get"
      BY <1>2, <3>1 DEF Buttons
    <3>3. \A s \in Requests : Owes(s, "get") => Owes(s, "get")'
      BY <1>2, <3>1 DEF Owes, Active, UnderWay
    <3> QED BY <1>1, <3>1, <3>2, <3>3, OwedKept
  <2>5. CASE Clear(r) \/ Finish(r)
    BY <1>1, <1>2, <2>5, OwedKept DEF Clear, Finish, Move, Owes, Active, UnderWay
  <2>6. CASE Spawn(r) \/ Submit(r) \/ BadArguments(r) \/ TimedOut(r) \/ Cancel(r)
    BY <1>1, <1>2, <2>6, OwedKept DEF Spawn, Submit, BadArguments, TimedOut, Cancel,
       Move, Owes, Active, UnderWay
  <2>7. CASE GotResult(r) \/ GotResultUnseen(r) \/ GotException(r) \/ ShowError(r)
    BY <1>1, <1>2, <2>7, OwedKept DEF GotResult, GotResultUnseen, GotException, ShowError,
       Move, Owes, Active, UnderWay
  <2> QED BY <1>4, <2>1, <2>2, <2>3, <2>4, <2>5, <2>6, <2>7 DEF Program
<1>5. CASE UNCHANGED <<request, disabled>>
  BY <1>1, <1>5 DEF DisabledIsOwed, Owes, Active, UnderWay
<1> QED BY <1>3, <1>4, <1>5 DEF Next, Complete, DeliverCancel, Refresh, vars

-----------------------------------------------------------------------------
\* After the step of the only request under way, OneRequest holds if the buttons
\* are right for this one.
LEMMA OnlyUnderWay ==
    ASSUME IInv, ~hasty, NEW r \in Requests, Program(r),
           Active(r)' => disabled' = Buttons,
           request'[r] = "get_disabled" => "get" \in disabled'
    PROVE  OneRequest'
<1>1. TypeOK /\ OneRequest
  BY DEF IInv
<1>2. UnderWay(r)
  BY <1>1, OneMoves
<1>3. \A s \in Requests : s # r => ~UnderWay(s)
  BY <1>1, <1>2 DEF OneRequest
<1>4. \A s \in Requests : s # r => request'[s] = request[s] /\ ~UnderWay(s)'
  BY <1>1, <1>3, OneMoves DEF UnderWay
<1>5. r = clicks'
  BY <1>1, <1>2, ProgramFrame DEF OneRequest
<1>6. \A s \in Requests : s # r => ~Active(s)' /\ request'[s] # "get_disabled"
  BY <1>4 DEF Active, UnderWay
<1> QED BY <1>4, <1>5, <1>6 DEF OneRequest

LEMMA OneRequestStep == IInv /\ [Next]_vars => OneRequest'
<1> SUFFICES ASSUME IInv, [Next]_vars, ~hasty' PROVE OneRequest'
  BY DEF OneRequest
<1>1. TypeOK /\ OneRequest
  BY DEF IInv
<1>2. request \in [Requests -> RequestStates] /\ disabled \subseteq Buttons
  BY <1>1 DEF TypeOK
<1>3. ASSUME NEW b \in Buttons, Click(b) PROVE OneRequest'
  <2>1. ~hasty /\ \A r \in Requests : ~UnderWay(r)
    BY <1>1, <1>3 DEF Click, TypeOK
  <2>2. /\ clicks' = clicks + 1
        /\ request' = [request EXCEPT ![clicks + 1] = "clicked"]
    BY <1>3 DEF Click, Move
  <2>3. \A r \in Requests : /\ ~Active(r)' /\ request'[r] # "get_disabled"
                            /\ UnderWay(r)' => r = clicks'
    BY <1>2, <2>1, <2>2 DEF UnderWay, Active
  <2> QED BY <2>3 DEF OneRequest
<1>4. ASSUME NEW r \in Requests, Program(r) PROVE OneRequest'
  <2>1. ~hasty
    BY <1>4, ProgramFrame
  <2>2. CASE Clear(r) \/ EnableGet(r) \/ EnableWalk(r) \/ Finish(r)
    <3>1. request'[r] \in {"cleared", "get_enabled", "enabled", "done"}
      BY <1>2, <2>2 DEF Clear, EnableGet, EnableWalk, Finish, Move
    <3>2. ~Active(r)' /\ request'[r] # "get_disabled"
      BY <3>1 DEF Active, UnderWay
    <3> QED BY <1>4, <2>1, <3>2, OnlyUnderWay
  <2>3. CASE DisableGet(r)
    <3>1. request'[r] = "get_disabled" /\ "get" \in disabled'
      BY <1>2, <2>3 DEF DisableGet, Move
    <3>2. ~Active(r)'
      BY <3>1 DEF Active, UnderWay
    <3> QED BY <1>4, <2>1, <3>1, <3>2, OnlyUnderWay
  <2>4. CASE DisableWalk(r)
    <3>1. request[r] = "get_disabled" /\ request'[r] = "disabled"
          /\ disabled' = disabled \union {"walk"}
      BY <1>2, <2>4 DEF DisableWalk, Move
    <3>2. disabled' = Buttons
      BY <1>1, <1>2, <2>1, <3>1 DEF OneRequest, Buttons
    <3> QED BY <1>4, <2>1, <3>1, <3>2, OnlyUnderWay
  <2>5. CASE Spawn(r) \/ Submit(r) \/ BadArguments(r) \/ GotResult(r)
             \/ GotResultUnseen(r) \/ GotException(r) \/ TimedOut(r) \/ Cancel(r)
             \/ ShowError(r)
    <3>1. Active(r) /\ disabled' = disabled /\ request'[r] # "get_disabled"
      BY <1>2, <2>5 DEF Spawn, Submit, BadArguments, GotResult, GotResultUnseen,
         GotException, TimedOut, Cancel, ShowError, Move, Active, UnderWay
    <3>2. disabled' = Buttons
      BY <1>1, <2>1, <3>1 DEF OneRequest
    <3> QED BY <1>4, <2>1, <3>1, <3>2, OnlyUnderWay
  <2> QED BY <1>4, <2>2, <2>3, <2>4, <2>5 DEF Program
<1>5. CASE UNCHANGED <<clicks, request, disabled, hasty>>
  BY <1>1, <1>5 DEF OneRequest, Active, UnderWay
<1> QED BY <1>3, <1>4, <1>5 DEF Next, Complete, DeliverCancel, Refresh, vars

LEMMA LatestStep == IInv /\ [Next]_vars => OnlyLatestListed'
<1> SUFFICES ASSUME IInv, [Next]_vars, ~hasty' PROVE OnlyLatestListed'
  BY DEF OnlyLatestListed
<1>1. TypeOK /\ OneRequest /\ OnlyLatestListed
      /\ \A r \in Requests : r > clicks => request[r] = "none"
  BY DEF IInv
<1> DEFINE Begun(r) == request[r] \notin {"none", "clicked"}
<1>2. ASSUME ~hasty, mgr_list' = mgr_list, \A r \in Requests : Begun(r)' => Begun(r)
      PROVE  OnlyLatestListed'
  BY <1>1, <1>2 DEF OnlyLatestListed
<1>3. ASSUME NEW b \in Buttons, Click(b) PROVE OnlyLatestListed'
  <2>1. /\ ~hasty /\ mgr_list' = mgr_list
        /\ request' = [request EXCEPT ![clicks + 1] = "clicked"]
    BY <1>1, <1>3 DEF Click, Move, TypeOK
  <2>2. \A r \in Requests : Begun(r)' => Begun(r)
    BY <1>1, <2>1 DEF TypeOK
  <2> QED BY <1>2, <2>1, <2>2
<1>4. ASSUME NEW s \in Requests, Program(s) PROVE OnlyLatestListed'
  <2>1. ~hasty /\ clicks' = clicks
    BY <1>4, ProgramFrame
  <2>2. CASE Clear(s)
    <3>1. DOMAIN mgr_list' = {}
      BY <2>2 DEF Clear
    <3> QED BY <3>1 DEF OnlyLatestListed
  <2>3. CASE ~Clear(s)
    <3>1. request[s] # "clicked"
      BY <1>4, <2>3 DEF Program, DisableGet, DisableWalk, Spawn, Submit, BadArguments,
         GotResult, GotResultUnseen, GotException, TimedOut, Cancel, ShowError, EnableGet,
         EnableWalk, Finish, Move
    <3>2. \A r \in Requests : Begun(r)' => Begun(r)
      BY <1>1, <1>4, <3>1, OneMoves DEF UnderWay
    <3>3. CASE mgr_list' = mgr_list
      BY <1>2, <2>1, <3>2, <3>3
    <3>4. ASSUME NEW what \in {"answer", "error", "unseen"}, Show(s, what)
          PROVE  OnlyLatestListed'
      <4>1. s = clicks
        BY <1>1, <1>4, <2>1, OneMoves DEF OneRequest
      <4>2. \A r \in Requests : Begun(r)' => r <= s
        BY <1>1, <3>2, <4>1 DEF TypeOK, Requests
      <4>3. /\ DOMAIN mgr_list' = 1..(Len(mgr_list) + 1)
            /\ \A i \in 1..Len(mgr_list) : mgr_list'[i] = mgr_list[i]
            /\ mgr_list'[Len(mgr_list) + 1] = [of |-> s, shows |-> what]
            /\ Len(mgr_list) \in Nat /\ DOMAIN mgr_list = 1..Len(mgr_list)
        BY <1>1, <3>4 DEF TypeOK, Show
      <4>4. \A i \in 1..Len(mgr_list), r \in Requests : Begun(r)' => r <= mgr_list'[i].of
        BY <1>1, <2>1, <3>2, <4>3 DEF OnlyLatestListed
      <4>5. \A i \in DOMAIN mgr_list' : i \in 1..Len(mgr_list) \/ i = Len(mgr_list) + 1
        BY <4>3
      <4>6. \A i \in DOMAIN mgr_list', r \in Requests : Begun(r)' => r <= mgr_list'[i].of
        BY <4>2, <4>3, <4>4, <4>5
      <4> QED BY <4>6 DEF OnlyLatestListed
    <3>5. mgr_list' = mgr_list
              \/ \E what \in {"answer", "error", "unseen"} : Show(s, what)
      BY <1>4, <2>3 DEF Program, DisableGet, DisableWalk, Spawn, Submit, BadArguments,
         GotResult, GotResultUnseen, GotException, TimedOut, Cancel, ShowError, EnableGet,
         EnableWalk, Finish
    <3> QED BY <3>3, <3>4, <3>5
  <2> QED BY <2>2, <2>3
<1>5. CASE UNCHANGED <<mgr_list, request, hasty>>
  BY <1>1, <1>2, <1>5
<1> QED BY <1>3, <1>4, <1>5 DEF Next, Complete, DeliverCancel, Refresh, vars

LEMMA IInvStep == IInv /\ [Next]_vars => IInv'
BY TypeStep, ListStep, CountStep, OwedStep, OneRequestStep, LatestStep DEF IInv

\* The rows of the list are of requests past the step that displays them, a disabled
\* button is owed, and an unhurried user's requests are under way one at a time
\* (snmp_tab.py:235-317).
THEOREM InvariantCorrect == Spec => []IInv
<1>1. Init => IInv
  <2> SUFFICES ASSUME Init PROVE IInv
    OBVIOUS
  <2>1. TypeOK
    <3>1. mgr_list \in Seq(Rows)
      BY DEF Init
    <3>2. clicks \in 0..MaxRequests
      BY ManagerAssumption DEF Init
    <3> QED BY <3>1, <3>2 DEF Init, TypeOK, RequestStates, TaskStates
  <2>2. DOMAIN mgr_list = {} /\ disabled = {}
    BY DEF Init
  <2>3. \A r \in Requests : request[r] = "none"
    BY DEF Init
  <2>4. ListInv /\ OnlyLatestListed /\ DisabledIsOwed
    BY <2>2 DEF ListInv, AnsweredOnce, OnlyLatestListed, DisabledIsOwed
  <2> QED BY <2>1, <2>3, <2>4 DEF IInv, OneRequest, Active, UnderWay
<1> QED BY <1>1, IInvStep, PTL DEF Spec

\* However answer, time limit and cancellation race, no request is displayed as a
\* result and as an error of the request; only a failed page.update adds an error to
\* a result (snmp_tab.py:243-251, 317).
THEOREM AnsweredOnceCorrect == Spec => []AnsweredOnce
<1>1. IInv => AnsweredOnce
  BY DEF IInv, ListInv
<1> QED BY <1>1, InvariantCorrect, PTL

\* Whatever the clicks, a disabled button has a request that is still to enable it
\* (snmp_tab.py:237-238, 253-254).
THEOREM DisabledIsOwedCorrect == Spec => []DisabledIsOwed
<1>1. IInv => DisabledIsOwed
  BY DEF IInv
<1> QED BY <1>1, InvariantCorrect, PTL

\* If every click waited for the end of the thread before it, an enabled button means
\* that no request runs (snmp_tab.py:237-238, 253-254).
THEOREM EnabledMeansIdleCorrect == Spec => []EnabledMeansIdle
<1>1. IInv => EnabledMeansIdle
  BY DEF IInv, OneRequest, EnabledMeansIdle
<1> QED BY <1>1, InvariantCorrect, PTL

\* If every click waited likewise, no answer is listed that a later request has
\* overtaken (snmp_tab.py:236).
THEOREM OnlyLatestListedCorrect == Spec => []OnlyLatestListed
<1>1. IInv => OnlyLatestListed
  BY DEF IInv
<1> QED BY <1>1, InvariantCorrect, PTL
=============================================================================

---------------------------- MODULE SnmpManager ----------------------------
(***************************************************************************)
(* The Get and Walk buttons of the SNMP tab (gui/tabs_flet/snmp_tab.py,    *)
(* do_get, do_walk and _display_mgr_result) and the client coroutines they *)
(* run (backend/snmp_client.py).  A click is handled by a handler, which   *)
(* starts a thread, which starts a task on the event loop and waits a few  *)
(* seconds for it.  The two handlers differ in that time only.             *)
(*                                                                         *)
(* The buttons are disabled and enabled one after the other, and the user  *)
(* acts on the screen, which follows at the next page.update of any        *)
(* handler: a second click may be on its way before the first is shown,    *)
(* and one button may be back on the screen before the other.              *)
(*                                                                         *)
(* page.update may raise where the code expects it to, inside the try; in  *)
(* do_get and in the finally clause (lines 239, 255) it is taken to        *)
(* succeed.                                                                *)
(*                                                                         *)
(* Outside src/: the SNMP agent, which may answer late or never, and what  *)
(* asyncio and its futures do.                                             *)
(***************************************************************************)
EXTENDS Naturals, Sequences

CONSTANT MaxRequests  \* bound: clicks

ASSUME ManagerAssumption == MaxRequests \in Nat \ {0}

VARIABLES
    clicks,    \* how many clicks there have been
    disabled,  \* the buttons whose disabled is set
    screen,    \* the buttons that the screen shows as disabled
    request,   \* where each request is in its handler or its thread
    task,      \* what has become of its coroutine on the loop
    mgr_list,  \* the rows of self.mgr_list: of which request, and what they show
    hasty      \* history: there was a click while another request was under way

vars == <<clicks, disabled, screen, request, task, mgr_list, hasty>>

Requests == 1..MaxRequests
Buttons  == {"get", "walk"}

\* The handler is at "clicked" to "disabled", the thread at the others; its except
\* clause is at "late", "failed" and "unseen", its finally clause from "shown" on.
RequestStates == {"none", "clicked", "cleared", "get_disabled", "disabled",
                  "spawned", "waiting", "late", "failed", "unseen", "shown",
                  "get_enabled", "enabled", "done"}
TaskStates    == {"none", "running", "finished", "cancelling", "cancelled"}

\* What a row shows: what the coroutine returned, an error of the request, or the
\* error that its answer could not be displayed.
Rows == [of : Requests, shows : {"answer", "error", "unseen"}]

TypeOK ==
    /\ clicks \in 0..MaxRequests
    /\ disabled \in SUBSET Buttons
    /\ screen \in SUBSET Buttons
    /\ request \in [Requests -> RequestStates]
    /\ task \in [Requests -> TaskStates]
    /\ mgr_list \in Seq(Rows)
    /\ hasty \in BOOLEAN

Init ==
    /\ clicks = 0
    /\ disabled = {}
    /\ screen = {}
    /\ request = [r \in Requests |-> "none"]
    /\ task = [r \in Requests |-> "none"]
    /\ mgr_list = <<>>
    /\ hasty = FALSE

Move(r, from, to) ==
    /\ request[r] = from
    /\ request' = [request EXCEPT ![r] = to]

Show(r, what) == mgr_list' = Append(mgr_list, [of |-> r, shows |-> what])

\* A click was taken and the thread has not come to its end.
UnderWay(r) == request[r] \notin {"none", "done"}

-----------------------------------------------------------------------------
\* The user and the handler.

Click(b) ==
    /\ b \notin screen
    /\ clicks < MaxRequests
    /\ clicks' = clicks + 1
    /\ Move(clicks + 1, "none", "clicked")
    /\ hasty' = (hasty \/ \E r \in Requests : UnderWay(r))
    /\ UNCHANGED <<disabled, screen, task, mgr_list>>

\* Mutant of Clear: the list stays.
ClearNothing(r) ==
    /\ Move(r, "clicked", "cleared")
    /\ UNCHANGED <<clicks, disabled, screen, task, mgr_list, hasty>>

Clear(r) ==
    /\ Move(r, "clicked", "cleared")
    /\ mgr_list' = <<>>
    /\ UNCHANGED <<clicks, disabled, screen, task, hasty>>

DisableGet(r) ==
    /\ Move(r, "cleared", "get_disabled")
    /\ disabled' = disabled \union {"get"}
    /\ UNCHANGED <<clicks, screen, task, mgr_list, hasty>>

\* Mutant of DisableWalk: only the button that was clicked is disabled.
LeaveWalk(r) ==
    /\ Move(r, "get_disabled", "disabled")
    /\ UNCHANGED <<clicks, disabled, screen, task, mgr_list, hasty>>

DisableWalk(r) ==
    /\ Move(r, "get_disabled", "disabled")
    /\ disabled' = disabled \union {"walk"}
    /\ UNCHANGED <<clicks, screen, task, mgr_list, hasty>>

\* page.update, then the thread is started.
Spawn(r) ==
    /\ Move(r, "disabled", "spawned")
    /\ screen' = disabled
    /\ UNCHANGED <<clicks, disabled, task, mgr_list, hasty>>

-----------------------------------------------------------------------------
\* The thread.

Submit(r) ==
    /\ Move(r, "spawned", "waiting")
    /\ task' = [task EXCEPT ![r] = "running"]
    /\ UNCHANGED <<clicks, disabled, screen, mgr_list, hasty>>

\* _get_mgr_args raises, as when the port is no number: there is no future.
BadArguments(r) ==
    /\ Move(r, "spawned", "failed")
    /\ UNCHANGED <<clicks, disabled, screen, task, mgr_list, hasty>>

\* future.result returns what the coroutine did, and it is displayed.
GotResult(r) ==
    /\ task[r] = "finished"
    /\ Move(r, "waiting", "shown")
    /\ Show(r, "answer")
    /\ screen' = disabled
    /\ UNCHANGED <<clicks, disabled, task, hasty>>

\* The same, but page.update raises after the rows were appended.
GotResultUnseen(r) ==
    /\ task[r] = "finished"
    /\ Move(r, "waiting", "unseen")
    /\ Show(r, "answer")
    /\ UNCHANGED <<clicks, disabled, screen, task, hasty>>

\* future.result raises what the coroutine raised.
GotException(r) ==
    /\ task[r] = "finished"
    /\ Move(r, "waiting", "failed")
    /\ UNCHANGED <<clicks, disabled, screen, task, mgr_list, hasty>>

\* Mutant of TimedOut: future.result without a time limit.
NeverTimedOut(r) ==
    /\ task[r] = "cancelled"
    /\ Move(r, "waiting", "late")
    /\ UNCHANGED <<clicks, disabled, screen, task, mgr_list, hasty>>

\* future.result times out ...
TimedOut(r) ==
    /\ task[r] = "running"
    /\ Move(r, "waiting", "late")
    /\ UNCHANGED <<clicks, disabled, screen, task, mgr_list, hasty>>

\* Mutant of Cancel: the task is left to itself.
CancelNothing(r) ==
    /\ Move(r, "late", "failed")
    /\ UNCHANGED <<clicks, disabled, screen, task, mgr_list, hasty>>

\* Mutant of Cancel: an answer that has come meanwhile is displayed after all.
CancelOrDisplay(r) ==
    /\ Move(r, "late", "failed")
    /\ IF task[r] = "finished" THEN Show(r, "answer") ELSE UNCHANGED mgr_list
    /\ task' = [task EXCEPT ![r] = IF @ = "running" THEN "cancelling" ELSE @]
    /\ UNCHANGED <<clicks, disabled, screen, hasty>>

\* ... and future.cancel asks the loop to cancel the task, if it still runs.
Cancel(r) ==
    /\ Move(r, "late", "failed")
    /\ task' = [task EXCEPT ![r] = IF @ = "running" THEN "cancelling" ELSE @]
    /\ UNCHANGED <<clicks, disabled, screen, mgr_list, hasty>>

\* The except clause displays the error; its page.update may raise, too.
ShowError(r) ==
    /\ \/ Move(r, "failed", "shown") /\ Show(r, "error")
       \/ Move(r, "unseen", "shown") /\ Show(r, "unseen")
    /\ screen' \in {screen, disabled}
    /\ UNCHANGED <<clicks, disabled, task, hasty>>

\* finally: the buttons are enabled one after the other, whatever other request
\* runs; in between another handler may show that Get is back.
EnableGet(r) ==
    /\ Move(r, "shown", "get_enabled")
    /\ disabled' = disabled \ {"get"}
    /\ UNCHANGED <<clicks, screen, task, mgr_list, hasty>>

\* Mutant of EnableWalk: one that leaves it to the latest request.
EnableWalkIfLatest(r) ==
    /\ Move(r, "get_enabled", "enabled")
    /\ disabled' = IF r = clicks THEN disabled \ {"walk"} ELSE disabled
    /\ UNCHANGED <<clicks, screen, task, mgr_list, hasty>>

EnableWalk(r) ==
    /\ Move(r, "get_enabled", "enabled")
    /\ disabled' = disabled \ {"walk"}
    /\ UNCHANGED <<clicks, screen, task, mgr_list, hasty>>

Finish(r) ==
    /\ Move(r, "enabled", "done")
    /\ screen' = disabled
    /\ UNCHANGED <<clicks, disabled, task, mgr_list, hasty>>

Program(r) ==
    \/ Clear(r) \/ DisableGet(r) \/ DisableWalk(r) \/ Spawn(r)
    \/ Submit(r) \/ BadArguments(r)
    \/ GotResult(r) \/ GotResultUnseen(r) \/ GotException(r)
    \/ TimedOut(r) \/ Cancel(r) \/ ShowError(r)
    \/ EnableGet(r) \/ EnableWalk(r) \/ Finish(r)

-----------------------------------------------------------------------------
\* The event loop.

\* The coroutine returns a result or an error, or raises: the agent answered, or
\* the request could not be sent.
Complete(r) ==
    /\ task[r] \in {"running", "cancelling"}
    /\ task' = [task EXCEPT ![r] = "finished"]
    /\ UNCHANGED <<clicks, disabled, screen, request, mgr_list, hasty>>

DeliverCancel(r) ==
    /\ task[r] = "cancelling"
    /\ task' = [task EXCEPT ![r] = "cancelled"]
    /\ UNCHANGED <<clicks, disabled, screen, request, mgr_list, hasty>>

\* Some other handler calls page.update.
Refresh ==
    /\ screen # disabled
    /\ screen' = disabled
    /\ UNCHANGED <<clicks, disabled, request, task, mgr_list, hasty>>

Next ==
    \/ \E b \in Buttons : Click(b)
    \/ \E r \in Requests : Program(r) \/ Complete(r) \/ DeliverCancel(r)
    \/ Refresh

Spec == Init /\ [][Next]_vars

\* Handlers and threads are scheduled, future.result has a time limit, and the
\* loop delivers cancellations.  The agent owes no answer.
FairSpec ==
    Spec /\ \A r \in Requests : WF_vars(Program(r)) /\ WF_vars(DeliverCancel(r))

-----------------------------------------------------------------------------
\* Both buttons were disabled for the request, and none is enabled again.
Active(r) == UnderWay(r) /\ request[r] \notin {"clicked", "cleared", "get_disabled",
                                               "get_enabled", "enabled"}

\* The request has disabled the button and will enable it.
Owes(r, b) ==
    \/ Active(r)
    \/ b = "get" /\ request[r] = "get_disabled"
    \/ b = "walk" /\ request[r] = "get_enabled"

\* The buttons come back on the screen, also when the agent never answers and
\* when a double click made two threads (snmp_tab.py:241-258, 266-283).
ButtonsComeBack == \A b \in Buttons : b \in screen ~> b \notin screen

\* No task is left behind on the event loop by a request that was given up
\* (snmp_tab.py:248-251).
NoTaskLeft ==
    \A r \in Requests :
        task[r] = "running" ~> task[r] \in {"finished", "cancelled"}

\* A request has a result or an error displayed and not both, also when the answer
\* comes just as the time is up; the one error that may follow a result is that
\* page.update raised on displaying it (snmp_tab.py:243-251, 317).
AnsweredOnce ==
    \A i, j \in DOMAIN mgr_list : i < j /\ mgr_list[i].of = mgr_list[j].of =>
        mgr_list[i].shows = "answer" /\ mgr_list[j].shows = "unseen"

\* Whatever the clicks and however the threads overlap, a disabled button has a
\* request that disabled it and is still to enable it (snmp_tab.py:237-238, 253-254).
DisabledIsOwed ==
    \A b \in disabled : \E r \in Requests : Owes(r, b)

\* If every click waited for the end of the thread before it, a button that is
\* enabled means that no request runs (snmp_tab.py:237-238, 253-254); else not so,
\* since the thread that ends first enables the buttons for all.
EnabledMeansIdle == ~hasty /\ disabled # Buttons => \A r \in Requests : ~Active(r)

\* If every click waited likewise, the list shows the answer of the latest request
\* only, never one that was overtaken (snmp_tab.py:236).
OnlyLatestListed ==
    ~hasty => \A i \in DOMAIN mgr_list :
        \A r \in Requests : request[r] \notin {"none", "clicked"} => r <= mgr_list[i].of
-----------------------------------------------------------------------------
\* The requests that have a row of the kind are past the step that displays it.
Past(what) ==
    {"shown", "get_enabled", "enabled", "done"}
        \union (IF what = "answer" THEN {"unseen"} ELSE {})

ListInv ==
    /\ AnsweredOnce
    /\ \A i \in DOMAIN mgr_list : request[mgr_list[i].of] \in Past(mgr_list[i].shows)

\* Unless a click was hasty, one request is under way at most, the latest, and while
\* it is active the buttons are disabled.
OneRequest ==
    ~hasty => \A r \in Requests :
        /\ UnderWay(r) => r = clicks
        /\ Active(r) => disabled = Buttons
        /\ request[r] = "get_disabled" => "get" \in disabled

\* The inductive invariant behind the invariants above.
IInv ==
    /\ TypeOK
    /\ ListInv
    /\ \A r \in Requests : r > clicks => request[r] = "none"
    /\ DisabledIsOwed
    /\ OneRequest
    /\ OnlyLatestListed
=============================================================================

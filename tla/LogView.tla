------------------------------ MODULE LogView ------------------------------
(***************************************************************************)
(* The way of a syslog message from the socket to the screen: the protocol *)
(* puts it on log_queue (main.py, backend/syslog_server.py), the thread of *)
(* check_queue takes it off (gui/flet_app.py) and appends it to the logs   *)
(* and the list of the syslog tab (gui/tabs_flet/syslog_tab.py), while     *)
(* handlers of the search field set the filter and build the list anew.    *)
(*                                                                         *)
(* Logs and list are used under the tab's lock.  The filter is not: it is  *)
(* set before the lock is taken and read row by row.  A handler has a      *)
(* thread of its own, so several may be under way.                         *)
(*                                                                         *)
(* A message is its number and its kind; a filter is the set of kinds that *)
(* contain it, and the empty filter is the set of all of them.             *)
(***************************************************************************)
EXTENDS Naturals, Sequences, SequencesExt

CONSTANTS
    Kinds,        \* what a filter can tell apart in messages
    Filters,      \* what can be searched for
    Handlers,     \* threads that run the handlers of the search field
    LogCap,       \* logs kept: 1000 in the code
    ViewCap,      \* logs rendered, and rows kept in the list: 100 in the code
    MaxMsgs,      \* bound: messages received
    MaxSearches   \* bound: edits of the search field

ASSUME LogViewAssumption ==
    /\ Filters \subseteq SUBSET Kinds
    /\ Kinds \in Filters
    /\ LogCap \in Nat \ {0} /\ ViewCap \in 1..LogCap
    /\ MaxMsgs \in Nat /\ MaxSearches \in Nat

NoOne == "no handler"

ASSUME NoOneAssumption == NoOne \notin Handlers

VARIABLES
    received,   \* how many messages the protocol has put on the queue
    log_queue,
    checker,    \* check_queue: its updates flag, and whether page.update is due
    logs,       \* self.logs
    controls,   \* self.log_list.controls, as the rows they were made from
    filter,     \* self.search_filter
    lock,       \* the handler that holds self.lock to render
    todo,       \* the rest of logs_to_show in that handler
    handler,    \* where each handler is
    searches,   \* how many edits there have been
    shown       \* the rows on the screen, as of the last page.update

vars == <<received, log_queue, checker, logs, controls, filter, lock, todo,
          handler, searches, shown>>

Row == [id : 1..MaxMsgs, kind : Kinds]

TypeOK ==
    /\ received \in 0..MaxMsgs
    /\ log_queue \in Seq(Row)
    /\ checker \in {"clean", "dirty", "updating"}
    /\ logs \in Seq(Row) /\ Len(logs) <= LogCap
    /\ controls \in Seq(Row) /\ Len(controls) <= ViewCap
    /\ filter \in Filters
    /\ lock \in Handlers \cup {NoOne}
    /\ todo \in Seq(Row)
    /\ handler \in [Handlers -> {"idle", "filtered", "rendering"}]
    /\ searches \in 0..MaxSearches
    /\ shown \in Seq(Row)

Init ==
    /\ received = 0
    /\ log_queue = <<>>
    /\ checker = "clean"
    /\ logs = <<>>
    /\ controls = <<>>
    /\ filter = Kinds
    /\ lock = NoOne
    /\ todo = <<>>
    /\ handler = [h \in Handlers |-> "idle"]
    /\ searches = 0
    /\ shown = <<>>

\* The last n of s, or all of it: s[-n:].
Latest(n, s) == IF Len(s) <= n THEN s ELSE SubSeq(s, Len(s) - n + 1, Len(s))

-----------------------------------------------------------------------------
\* datagram_received and syslog_cb: a message that is not blank is queued.
Receive(kind) ==
    /\ received < MaxMsgs
    /\ received' = received + 1
    /\ log_queue' = Append(log_queue, [id |-> received + 1, kind |-> kind])
    /\ UNCHANGED <<checker, logs, controls, filter, lock, todo, handler, searches, shown>>

\* Mutant of Unlocked: the lock is not waited for.
UnlockedOrNot == TRUE

\* with self.lock: no handler is rendering.
Unlocked == lock = NoOne

\* Mutant of Keep: logs are kept without limit.
KeepAll(row) == Append(logs, row)

Keep(row) == Latest(LogCap, Append(logs, row))

\* Mutant of List: >= for > where the list is cut.
ListOneLess(row) == IF row.kind \in filter
                    THEN Latest(ViewCap - 1, Append(controls, row)) ELSE controls

List(row) == IF row.kind \in filter
             THEN Latest(ViewCap, Append(controls, row)) ELSE controls

\* check_queue takes a message off, and append_log does all its work under the
\* lock.
AppendLog ==
    /\ checker # "updating"
    /\ log_queue # <<>>
    /\ Unlocked
    /\ log_queue' = Tail(log_queue)
    /\ logs' = Keep(Head(log_queue))
    /\ controls' = List(Head(log_queue))
    /\ checker' = "dirty"
    /\ UNCHANGED <<received, filter, lock, todo, handler, searches, shown>>

\* Mutant of FindEmpty: updates is reset, and page.update is not called.
FindEmptyQuietly ==
    /\ checker = "dirty"
    /\ log_queue = <<>>
    /\ checker' = "clean"
    /\ UNCHANGED <<received, log_queue, logs, controls, filter, lock, todo, handler,
                   searches, shown>>

\* queue.Empty ends the loop, and rows have been added.
FindEmpty ==
    /\ checker = "dirty"
    /\ log_queue = <<>>
    /\ checker' = "updating"
    /\ UNCHANGED <<received, log_queue, logs, controls, filter, lock, todo, handler,
                   searches, shown>>

\* page.update, without the lock: it may see a list that is being built.
UpdatePage ==
    /\ checker = "updating"
    /\ checker' = "clean"
    /\ shown' = controls
    /\ UNCHANGED <<received, log_queue, logs, controls, filter, lock, todo, handler, searches>>

Checker == AppendLog \/ FindEmpty \/ UpdatePage

\* on_search, before _render_table has the lock.
SetFilter(h, f) ==
    /\ handler[h] = "idle"
    /\ searches < MaxSearches
    /\ searches' = searches + 1
    /\ filter' = f
    /\ handler' = [handler EXCEPT ![h] = "filtered"]
    /\ UNCHANGED <<received, log_queue, checker, logs, controls, lock, todo, shown>>

\* Mutant of StartRender: the list is not emptied.
StartRenderAppends(h) ==
    /\ handler[h] = "filtered"
    /\ lock = NoOne
    /\ lock' = h
    /\ todo' = Latest(ViewCap, logs)
    /\ handler' = [handler EXCEPT ![h] = "rendering"]
    /\ UNCHANGED <<received, log_queue, checker, logs, controls, filter, searches, shown>>

\* _render_table takes the lock, empties the list and slices the logs.
StartRender(h) ==
    /\ handler[h] = "filtered"
    /\ lock = NoOne
    /\ lock' = h
    /\ controls' = <<>>
    /\ todo' = Latest(ViewCap, logs)
    /\ handler' = [handler EXCEPT ![h] = "rendering"]
    /\ UNCHANGED <<received, log_queue, checker, logs, filter, searches, shown>>

\* One row of the loop, with the filter there is now.
RenderRow(h) ==
    /\ lock = h
    /\ todo # <<>>
    /\ todo' = Tail(todo)
    /\ controls' = IF Head(todo).kind \in filter THEN Append(controls, Head(todo))
                                                 ELSE controls
    /\ UNCHANGED <<received, log_queue, checker, logs, filter, lock, handler, searches, shown>>

\* page.update, and the lock is released.
EndRender(h) ==
    /\ lock = h
    /\ todo = <<>>
    /\ lock' = NoOne
    /\ shown' = controls
    /\ handler' = [handler EXCEPT ![h] = "idle"]
    /\ UNCHANGED <<received, log_queue, checker, logs, controls, filter, todo, searches>>

Render(h) == StartRender(h) \/ RenderRow(h) \/ EndRender(h)

\* Any other handler, as change_tab, updates the page when it likes.
Refresh ==
    /\ shown # controls
    /\ shown' = controls
    /\ UNCHANGED <<received, log_queue, checker, logs, controls, filter, lock, todo,
                   handler, searches>>

Next ==
    \/ \E kind \in Kinds : Receive(kind)
    \/ Checker
    \/ \E h \in Handlers : Render(h) \/ \E f \in Filters : SetFilter(h, f)
    \/ Refresh

Spec == Init /\ [][Next]_vars

\* The thread of check_queue and the threads of handlers are scheduled; no
\* message, edit or other update of the page need ever come.
FairSpec == Spec /\ WF_vars(Checker) /\ \A h \in Handlers : WF_vars(Render(h))

-----------------------------------------------------------------------------
\* No search is under way.
Quiet == \A h \in Handlers : handler[h] = "idle"

\* Between searches each row in the list matches the filter, however searches
\* and arriving messages were interleaved (syslog_tab.py:48-50, 108-141).
OnlyMatchesListed == Quiet => \A row \in ToSet(controls) : row.kind \in filter

\* Between searches no match among the latest ViewCap messages is missing from
\* the list (syslog_tab.py:108-141).
RecentMatchesListed ==
    Quiet => \A row \in ToSet(Latest(ViewCap, logs)) :
                 row.kind \in filter => row \in ToSet(controls)

\* The list is in the order of arrival and has no row twice, also while it is
\* being built (syslog_tab.py:108-141, flet_app.py:92-119).
ListInOrder == \A i, j \in DOMAIN controls : i < j => controls[i].id < controls[j].id

\* Once messages and searches stop, the screen shows the list, and the list has
\* seen every message (flet_app.py:92-119, syslog_tab.py:108-122).
EventuallyShown == <>[](log_queue = <<>> /\ Quiet /\ shown = controls)
-----------------------------------------------------------------------------
\* How many messages have been taken off the queue.
Seen == received - Len(log_queue)

\* The queue holds the messages that follow.
QueueInv == \A k \in DOMAIN log_queue : log_queue[k].id = Seen + k

\* Who renders holds the lock, and has rows to do that are the last of the logs; with
\* them the list stays within its limit.
RenderInv ==
    /\ \A h \in Handlers : handler[h] = "rendering" <=> lock = h
    /\ lock = NoOne => todo = <<>>
    /\ Len(controls) + Len(todo) <= ViewCap
    /\ \A k \in DOMAIN todo : todo[k].id = Seen - Len(todo) + k

\* Rows of the list are at least as far apart in the order of arrival as they are in
\* the list, and so is what comes next.
OrderInv ==
    /\ \A i, j \in DOMAIN controls :
           i <= j => controls[j].id - controls[i].id >= j - i
    /\ \A i \in DOMAIN controls :
           Seen - Len(todo) - controls[i].id >= Len(controls) - i

\* A handler has set the filter and will build the list anew.
Filtering == \E h \in Handlers : handler[h] = "filtered"

\* Otherwise the rows of the list match the filter, and the recent logs that do are in
\* the list or among the rows still to do.
MatchInv ==
    ~Filtering =>
        /\ \A i \in DOMAIN controls : controls[i].kind \in filter
        /\ \A k \in DOMAIN logs :
               k > Len(logs) - ViewCap /\ logs[k].kind \in filter =>
                   \/ \E i \in DOMAIN controls : controls[i] = logs[k]
                   \/ \E j \in DOMAIN todo : todo[j] = logs[k]

\* The logs are the latest messages without a gap, up to the one that is at the
\* head of the queue (syslog_tab.py:129-132, flet_app.py:96-99).
LogsHaveNoGap ==
    \A i \in DOMAIN logs :
        logs[i].id = received - Len(log_queue) - Len(logs) + i

\* The inductive invariant behind the safety properties above.
IInv == TypeOK /\ QueueInv /\ LogsHaveNoGap /\ RenderInv /\ OrderInv /\ MatchInv
=============================================================================

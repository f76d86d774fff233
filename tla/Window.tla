------------------------------- MODULE Window -------------------------------
(***************************************************************************)
(* What the window tells the user besides the log: traps, transfers of the *)
(* TFTP server, transfers of the FTP server and errors, which the back     *)
(* ends put on log_queue (main.py) and the thread of check_queue takes off *)
(* (gui/flet_app.py); and the status line of the TFTP client               *)
(* (gui/tabs_flet/tftp_tab.py, run_client), which click handlers, request  *)
(* threads and executor threads all write, without a lock.                 *)
(*                                                                         *)
(* A message is named by its position on the queue, which also stands for  *)
(* the count of bytes of a TFTP message.  Any page.update shows all that   *)
(* has been written, so the screen is the question whether there was one   *)
(* since the last change.                                                  *)
(*                                                                         *)
(* Outside src/: when traps and transfers come, and how a call of the TFTP *)
(* client ends; that it ends is the property Terminates of TftpGet and     *)
(* TftpPut.  Syslog messages are those of LogView.  An export of the       *)
(* syslog tab also writes page.snack_bar, and an error that is in it then  *)
(* is gone; that is left out.                                              *)
(***************************************************************************)
EXTENDS Naturals, Sequences, SequencesExt

CONSTANTS
    Keys,          \* addresses with file names: the keys of the board
    TrapCap,       \* traps kept: 1000 in the code
    RowCap,        \* traps in the list: 100 in the code
    NoticeCap,     \* FTP transfers kept: 50 in the code
    MaxSent,       \* bound: messages on the queue
    MaxTransfers   \* bound: clicks on Execute

ASSUME WindowAssumption ==
    /\ TrapCap \in Nat \ {0} /\ RowCap \in 1..TrapCap /\ NoticeCap \in Nat \ {0}
    /\ MaxSent \in Nat /\ MaxTransfers \in Nat

VARIABLES
    sent,       \* all messages put on log_queue, in order
    taken,      \* how many of them have been taken off
    updates,    \* check_queue: its flag of that name, and whether page.update is due
    traps,      \* self.traps
    trap_list,  \* self.trap_list.controls
    board,      \* self.active_transfers, in the order of the dictionary
    transfers,  \* self.transfers, newest first
    snack_bar,  \* page.snack_bar: the error in it, or 0
    clicks,     \* how many transfers there have been
    client,     \* where each of them is
    status,     \* client_status.value: the transfer it is of, and what it says
    color,      \* client_status.color
    stale,      \* something was written after the last page.update
    overlap     \* history: there was a click while a transfer was under way

lists == <<traps, trap_list, board, transfers, snack_bar>>
line  == <<status, color>>
windowVars == <<sent, taken, updates, lists, clicks, client, line, stale, overlap>>

Transfers == 1..MaxTransfers

Messages ==
         [type : {"snmp", "ftp", "error"}]
    \cup [type : {"tftp"}, key : Keys]

\* A transfer that is "executing" or "orange" is in its handler; "telling" is in
\* progress_cb, so are "completing" and "green"; "failed", "erring" and "red" are
\* the except clause of its thread.
ClientStates == {"none", "executing", "orange", "running", "telling", "completing",
                 "green", "complete", "failed", "erring", "red", "error"}

Texts == {"ready", "executing", "transferring", "complete", "error"}

Ids == 1..MaxSent

WindowTypeOK ==
    /\ sent \in Seq(Messages) /\ Len(sent) <= MaxSent
    /\ taken \in 0..Len(sent)
    /\ updates \in {"clean", "dirty", "updating"}
    /\ traps \in Seq(Ids) /\ Len(traps) <= TrapCap
    /\ trap_list \in Seq(Ids) /\ Len(trap_list) <= RowCap
    /\ transfers \in Seq(Ids) /\ Len(transfers) <= NoticeCap
    /\ board \in Seq([key : Keys, count : Ids])
    /\ snack_bar \in 0..MaxSent
    /\ clicks \in 0..MaxTransfers
    /\ client \in [Transfers -> ClientStates]
    /\ status \in [of : 0..MaxTransfers, text : Texts]
    /\ color \in {"default", "orange", "green", "red"}
    /\ stale \in BOOLEAN /\ overlap \in BOOLEAN

WindowInit ==
    /\ sent = <<>>
    /\ taken = 0
    /\ updates = "clean"
    /\ traps = <<>> /\ trap_list = <<>> /\ board = <<>> /\ transfers = <<>>
    /\ snack_bar = 0
    /\ clicks = 0
    /\ client = [t \in Transfers |-> "none"]
    /\ status = [of |-> 0, text |-> "ready"]
    /\ color = "default"
    /\ stale = FALSE
    /\ overlap = FALSE

-----------------------------------------------------------------------------
\* The queue.

\* A callback of a back end, or a start that failed, puts a message on log_queue.
Put(msg) ==
    /\ Len(sent) < MaxSent
    /\ sent' = Append(sent, msg)
    /\ UNCHANGED <<taken, updates, lists, clicks, client, line, stale, overlap>>

\* Mutant of DropOldest: the list is not cut.
DropNone(n, s) == s

\* Mutant of DropOldest: >= for > where the list is cut.
DropOldestEarly(n, s) == IF Len(s) >= n THEN Tail(s) ELSE s

\* The first element goes if there are more than n.
DropOldest(n, s) == IF Len(s) > n THEN Tail(s) ELSE s

AppendTrap(id) ==
    /\ traps' = DropOldest(TrapCap, Append(traps, id))
    /\ trap_list' = DropOldest(RowCap, Append(trap_list, id))
    /\ UNCHANGED <<board, transfers, snack_bar>>

\* The entry of the dictionary is made or overwritten, and all rows are made anew.
UpdateProgress(key, id) ==
    /\ board' = IF \E i \in DOMAIN board : board[i].key = key
                THEN [i \in DOMAIN board |->
                         IF board[i].key = key THEN [key |-> key, count |-> id]
                                               ELSE board[i]]
                ELSE Append(board, [key |-> key, count |-> id])
    /\ UNCHANGED <<traps, trap_list, transfers, snack_bar>>

\* appendleft of a deque of bounded length, which drops at its other end.
AppendLeft(n, e, s) == <<e>> \o (IF Len(s) = n THEN Front(s) ELSE s)

AppendTransfer(id) ==
    /\ transfers' = AppendLeft(NoticeCap, id, transfers)
    /\ UNCHANGED <<traps, trap_list, board, snack_bar>>

ShowError(id) ==
    /\ snack_bar' = id
    /\ UNCHANGED <<traps, trap_list, board, transfers>>

\* check_queue takes a message off and hands it to its tab.
Take(id) ==
    /\ updates # "updating"
    /\ id = taken + 1 /\ id \in DOMAIN sent
    /\ taken' = id
    /\ updates' = "dirty"
    /\ stale' = TRUE
    /\ CASE sent[id].type = "snmp"  -> AppendTrap(id)
         [] sent[id].type = "tftp"  -> UpdateProgress(sent[id].key, id)
         [] sent[id].type = "ftp"   -> AppendTransfer(id)
         [] sent[id].type = "error" -> ShowError(id)
    /\ UNCHANGED <<sent, clicks, client, line, overlap>>

\* queue.Empty ends the loop, and there have been updates.
QueueEmpty ==
    /\ updates = "dirty"
    /\ taken = Len(sent)
    /\ updates' = "updating"
    /\ UNCHANGED <<sent, taken, lists, clicks, client, line, stale, overlap>>

\* Mutant of ShowAll: page.update is not called.
UpdateNothing ==
    /\ updates = "updating"
    /\ updates' = "clean"
    /\ UNCHANGED <<sent, taken, lists, clicks, client, line, stale, overlap>>

ShowAll ==
    /\ updates = "updating"
    /\ updates' = "clean"
    /\ stale' = FALSE
    /\ UNCHANGED <<sent, taken, lists, clicks, client, line, overlap>>

CheckQueue == (\E id \in Ids : Take(id)) \/ QueueEmpty \/ ShowAll

-----------------------------------------------------------------------------
\* The status line of the TFTP client.

Ended(t) == client[t] \in {"none", "complete", "error"}

Move(t, from, to) ==
    /\ client[t] = from
    /\ client' = [client EXCEPT ![t] = to]
    /\ UNCHANGED <<sent, taken, updates, lists>>

Write(t, text) ==
    /\ status' = [of |-> t, text |-> text]
    /\ stale' = TRUE
    /\ UNCHANGED <<clicks, color, overlap>>

Paint(c) ==
    /\ color' = c
    /\ stale' = TRUE
    /\ UNCHANGED <<clicks, status, overlap>>

Update ==
    /\ stale' = FALSE
    /\ UNCHANGED <<clicks, line, overlap>>

\* The handler of the click begins: "Executing..." ...
Click ==
    /\ clicks < MaxTransfers
    /\ Move(clicks + 1, "none", "executing")
    /\ clicks' = clicks + 1
    /\ status' = [of |-> clicks + 1, text |-> "executing"]
    /\ stale' = TRUE
    /\ overlap' = (overlap \/ \E t \in Transfers : ~Ended(t))
    /\ UNCHANGED color

\* ... in orange, page.update, and the thread is started.
PaintOrange(t) == Move(t, "executing", "orange") /\ Paint("orange")
Spawn(t)       == Move(t, "orange", "running") /\ Update

\* progress_cb while chunks come; or the last call was less than 0.1 s ago, and it
\* writes nothing.
Tell(t) == Move(t, "running", "telling") /\ Write(t, "transferring")
Told(t) == Move(t, "telling", "running") /\ Update

\* Mutant of Complete: the last call of progress_cb is held back like the others.
CompleteQuietly(t) ==
    \/ Move(t, "running", "completing") /\ Write(t, "complete")
    \/ /\ Move(t, "running", "complete")
       /\ UNCHANGED <<clicks, line, stale, overlap>>

\* progress_cb with is_done, at any time; after it the call returns.
Complete(t)   == Move(t, "running", "completing") /\ Write(t, "complete")
PaintGreen(t) == Move(t, "completing", "green") /\ Paint("green")
Completed(t)  == Move(t, "green", "complete") /\ Update

\* The call raises: the transfer failed, or page.update did in progress_cb.
Fail(t) ==
    /\ \E at \in {"running", "telling", "green"} : Move(t, at, "failed")
    /\ UNCHANGED <<clicks, line, stale, overlap>>

\* The except clause of the thread.
TellError(t) == Move(t, "failed", "erring") /\ Write(t, "error")
PaintRed(t)  == Move(t, "erring", "red") /\ Paint("red")
Erred(t)     == Move(t, "red", "error") /\ Update

\* The call of the TFTP client is at its end.
End(t) == Complete(t) \/ Fail(t)

\* The steps of handler and threads that the network has no part in.
Proceed(t) ==
    \/ PaintOrange(t) \/ Spawn(t) \/ Told(t) \/ PaintGreen(t) \/ Completed(t)
    \/ TellError(t) \/ PaintRed(t) \/ Erred(t)

-----------------------------------------------------------------------------
WindowNext ==
    \/ \E msg \in Messages : Put(msg)
    \/ CheckQueue
    \/ Click
    \/ \E t \in Transfers : Tell(t) \/ End(t) \/ Proceed(t)

WindowSpec == WindowInit /\ [][WindowNext]_windowVars

\* The thread of check_queue and those of a transfer are scheduled, and its call
\* comes to an end, however often it has told of progress.  No message need come.
WindowFairSpec ==
    /\ WindowSpec
    /\ WF_windowVars(CheckQueue)
    /\ \A t \in Transfers : WF_windowVars(Proceed(t)) /\ SF_windowVars(End(t))

-----------------------------------------------------------------------------
\* The messages of a type that have been taken off, and those about a key of the board.
Taken(type) == {id \in 1..taken : sent[id].type = type}
About(key)  == {id \in Taken("tftp") : sent[id].key = key}

\* A list holds the latest of some messages, as many as it may hold.
HoldsLatest(list, cap, ids) ==
    /\ ToSet(list) \subseteq ids
    /\ \A id \in ids \ ToSet(list) :
           Len(list) = cap /\ \A listed \in ToSet(list) : id < listed

OldestFirst(list) == \A i, j \in DOMAIN list : i < j => list[i] < list[j]
NewestFirst(list) == \A i, j \in DOMAIN list : i < j => list[i] > list[j]

\* The lists hold the latest messages of their kind, oldest or newest first, within
\* their limits; the board has each transfer once, in the order in which they began,
\* with the count that came last; the snack bar has the last error, of several in a
\* row only that (snmp_tab.py:165-189, ftp_tab.py:64-68, tftp_tab.py:13-19,
\* flet_app.py:92-119).
ListsAreLatest ==
    /\ HoldsLatest(traps, TrapCap, Taken("snmp")) /\ OldestFirst(traps)
    /\ HoldsLatest(trap_list, RowCap, Taken("snmp")) /\ OldestFirst(trap_list)
    /\ HoldsLatest(transfers, NoticeCap, Taken("ftp")) /\ NewestFirst(transfers)
    /\ snack_bar \in Taken("error") \cup {0}
    /\ \A id \in Taken("error") : id <= snack_bar
    /\ \A id \in Taken("tftp") : \E i \in DOMAIN board : board[i].key = sent[id].key
    /\ \A i \in DOMAIN board :
           /\ board[i].count \in About(board[i].key)
           /\ \A id \in About(board[i].key) : id <= board[i].count
    /\ \A i, j \in DOMAIN board : i < j =>
           \E first \in About(board[i].key) : \A id \in About(board[j].key) : first < id

\* When no transfer is under way the status line never says that one is, however
\* transfers overlapped; and if none did, it says how the last one ended, in the
\* color of that (tftp_tab.py:111-159).
StatusIsFinal ==
    clicks > 0 /\ (\A t \in Transfers : Ended(t)) =>
        /\ status.text \in {"complete", "error"}
        /\ client[status.of] = status.text
        /\ ~overlap => /\ status.of = clicks
                       /\ color = IF status.text = "complete" THEN "green" ELSE "red"

\* Once messages and clicks stop, every message has been taken off, every transfer
\* has ended, and the screen shows what they left (flet_app.py:92-119,
\* tftp_tab.py:111-159).
AllShownAtLast ==
    <>[](taken = Len(sent) /\ (\A t \in Transfers : Ended(t)) /\ ~stale)
-----------------------------------------------------------------------------
\* Where a transfer is that has written a text, until it writes another.
Stages(text) == CASE text = "executing"    -> {"executing", "orange", "running", "failed"}
                  [] text = "transferring" -> {"telling", "running", "failed"}
                  [] text = "complete"     -> {"completing", "green", "complete", "failed"}
                  [] text = "error"        -> {"erring", "red", "error"}
                  [] text = "ready"        -> {}

\* The status line says where the transfer is that wrote it last.
SaysWhere ==
    clicks > 0 => status.of \in 1..clicks /\ client[status.of] \in Stages(status.text)

\* Transfers are those of the clicks; and while none overlapped, the last one alone is
\* under way, and the line and its color are those of that one.
OneAtATime ==
    /\ \A t \in Transfers : t > clicks => client[t] = "none"
    /\ ~overlap /\ clicks > 0 =>
           /\ \A t \in Transfers : t < clicks => Ended(t)
           /\ status.of = clicks
           /\ client[clicks] \in {"green", "complete"} => color = "green"
           /\ client[clicks] \in {"red", "error"}      => color = "red"

\* The inductive invariant behind the safety properties above.
WindowInv == WindowTypeOK /\ ListsAreLatest /\ SaysWhere /\ OneAtATime
=============================================================================

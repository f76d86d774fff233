---------------------------- MODULE SftpSession -----------------------------
(***************************************************************************)
(* What a client of the SFTP server may do (backend/sftp_server.py): the   *)
(* thread of a connection reads the settings of the server (handle_client, *)
(* make_sftp_server_class), and the SFTP operations of its client work on  *)
(* the files under the root (_realpath, open, remove, rename, mkdir,       *)
(* rmdir, and the handles).  Meanwhile the tab may enter the settings of a *)
(* next start, one attribute after the other (gui/tabs_flet/ftp_tab.py,    *)
(* _update_auth; main.py, start_server); one handler at a time does so.    *)
(* A session keeps what it has read until its client leaves; no stop ends  *)
(* it.  So sessions with different roots live side by side, and a root may *)
(* lie within another.                                                     *)
(*                                                                         *)
(* A setting is named by the start it was entered for.  A path is the      *)
(* sequence of its components from the top directory, and there are no     *)
(* links.  A client has one file open at a time.  Any operation may also   *)
(* fail in the operating system and change nothing, and stat, read and the *)
(* listing change nothing.                                                 *)
(*                                                                         *)
(* Outside src/: paramiko, which serves one request of a client at a time, *)
(* and the operating system.                                               *)
(***************************************************************************)
EXTENDS Naturals, Sequences, SequencesExt

CONSTANTS
    Sessions,   \* bound: connections at a time
    Roots,      \* root directories the user chooses from
    Paths,      \* bound: the paths there may be a file or a folder at
    Requests,   \* the paths clients ask for, relative to the root
    MaxEntries  \* bound: starts, the first of which is made already

ASSUME SessionAssumption ==
    /\ MaxEntries \in Nat \ {0}
    /\ <<>> \notin Paths
    /\ Roots \cup Paths \subseteq Seq(STRING)

VARIABLES
    latest,     \* the last start asked for
    entered,    \* what the user entered for each: the right to write, and the root
    entering,   \* which of the last start's settings are written already
    username, password, allow_write, root_dir,  \* the attributes of the server
    session,    \* where each connection is
    login,      \* the username and the password it asks for
    rights,     \* its allow_write and its root_dir
    files,      \* what is at each path
    handle      \* the file each session has open, where it was then, whether to write

server      == <<latest, entered, entering, username, password, allow_write, root_dir>>
sessionVars == <<server, session, login, rights, files, handle>>

Entries  == 1..MaxEntries
NoPath   == <<>>
NoLogin  == [username |-> 1, password |-> 1]
NoRights == [write |-> 1, root |-> 1]
NoHandle == [path |-> NoPath, opened |-> NoPath, writes |-> FALSE]
Handle   == [path : Paths \cup {NoPath}, opened : Paths \cup {NoPath}, writes : BOOLEAN]

SessionStates == {"none", "accepted", "root", "class", "username", "open"}
Kinds         == {"none", "old", "new", "folder"}

SessionTypeOK ==
    /\ latest \in Entries
    /\ entered \in [Entries -> [write : BOOLEAN, root : Roots]]
    /\ entering \in {"username", "password", "allow_write", "root_dir", "done"}
    /\ {username, password, allow_write, root_dir} \subseteq 1..latest
    /\ session \in [Sessions -> SessionStates]
    /\ login \in [Sessions -> [username : Entries, password : Entries]]
    /\ rights \in [Sessions -> [write : Entries, root : Entries]]
    /\ files \in [Paths -> Kinds]
    /\ handle \in [Sessions -> Handle]

\* A folder that is not among the paths is there, and stays.
InFolder(path) == Front(path) \in Paths => files[Front(path)] = "folder"

Nothing(path) == \A p \in Paths : IsStrictPrefix(path, p) => files[p] = "none"

SessionInit ==
    /\ latest = 1
    /\ entered \in [Entries -> [write : BOOLEAN, root : Roots]]
    /\ entering = "done"
    /\ username = 1 /\ password = 1 /\ allow_write = 1 /\ root_dir = 1
    /\ session = [s \in Sessions |-> "none"]
    /\ login = [s \in Sessions |-> NoLogin]
    /\ rights = [s \in Sessions |-> NoRights]
    /\ files \in [Paths -> {"none", "old", "folder"}]
    /\ \A path \in Paths : files[path] # "none" => InFolder(path)
    /\ handle = [s \in Sessions |-> NoHandle]

-----------------------------------------------------------------------------
\* The tab enters the settings of the next start.

Restart ==
    /\ entering = "done"
    /\ latest < MaxEntries
    /\ latest' = latest + 1
    /\ entering' = "username"
    /\ UNCHANGED <<entered, username, password, allow_write, root_dir, session, login,
                   rights, files, handle>>

\* Mutant of EnterUsername: the right to write is entered first.
EnterUsernameAfterRights ==
    /\ entering = "username"
    /\ entering' = "password"
    /\ username' = latest
    /\ allow_write' = latest
    /\ UNCHANGED <<latest, entered, password, root_dir, session, login, rights, files,
                   handle>>

EnterUsername ==
    /\ entering = "username"
    /\ entering' = "password"
    /\ username' = latest
    /\ UNCHANGED <<latest, entered, password, allow_write, root_dir, session, login,
                   rights, files, handle>>

EnterPassword ==
    /\ entering = "password"
    /\ entering' = "allow_write"
    /\ password' = latest
    /\ UNCHANGED <<latest, entered, username, allow_write, root_dir, session, login,
                   rights, files, handle>>

EnterRights ==
    /\ entering = "allow_write"
    /\ entering' = "root_dir"
    /\ allow_write' = latest
    /\ UNCHANGED <<latest, entered, username, password, root_dir, session, login, rights,
                   files, handle>>

\* start_server stores the root, unless the port is refused before that.
EnterRoot ==
    /\ entering = "root_dir"
    /\ entering' = "done"
    /\ root_dir' \in {root_dir, latest}
    /\ UNCHANGED <<latest, entered, username, password, allow_write, session, login,
                   rights, files, handle>>

Tab == Restart \/ EnterUsername \/ EnterPassword \/ EnterRights \/ EnterRoot

-----------------------------------------------------------------------------
\* The thread of a connection reads the settings.

Move(s, from, to) ==
    /\ session[s] = from
    /\ session' = [session EXCEPT ![s] = to]
    /\ UNCHANGED <<server, files, handle>>

Accept(s) == Move(s, "none", "accepted") /\ UNCHANGED <<login, rights>>

ReadRoot(s) ==
    /\ Move(s, "accepted", "root")
    /\ rights' = [rights EXCEPT ![s].root = root_dir]
    /\ UNCHANGED login

ReadRights(s) ==
    /\ Move(s, "root", "class")
    /\ rights' = [rights EXCEPT ![s].write = allow_write]
    /\ UNCHANGED login

ReadUsername(s) ==
    /\ Move(s, "class", "username")
    /\ login' = [login EXCEPT ![s].username = username]
    /\ UNCHANGED rights

\* After this a client with that name and password may log in.
ReadPassword(s) ==
    /\ Move(s, "username", "open")
    /\ login' = [login EXCEPT ![s].password = password]
    /\ UNCHANGED rights

Connect(s) ==
    \/ Accept(s) \/ ReadRoot(s) \/ ReadRights(s) \/ ReadUsername(s) \/ ReadPassword(s)

\* The connection ends, at any moment: paramiko closes what is open, and what the thread
\* has read goes with it.
Disconnect(s) ==
    /\ session[s] # "none"
    /\ session' = [session EXCEPT ![s] = "none"]
    /\ login' = [login EXCEPT ![s] = NoLogin]
    /\ rights' = [rights EXCEPT ![s] = NoRights]
    /\ handle' = [handle EXCEPT ![s] = NoHandle]
    /\ UNCHANGED <<server, files>>

-----------------------------------------------------------------------------
\* The paths of requests.

\* os.path.normpath of an absolute path: ".." goes up, but not beyond the top.
Step(path, c) == CASE c = ".."         -> IF path = <<>> THEN <<>> ELSE Front(path)
                   [] c \in {"", "."}  -> path
                   [] OTHER            -> Append(path, c)

Normpath(path) == FoldLeft(Step, <<>>, path)

\* Mutant of Within: no check.
WithinAnything(root, path) == TRUE

\* The boundary check.  The text of a root ends in a separator only if it is the top
\* directory itself; with another one added it is the beginning of no path.
Within(root, path) == path = root \/ (root # <<>> /\ IsStrictPrefix(root, path))

Root(s) == entered[rights[s].root].root

\* _realpath: the paths that requests of session s lead to, if they are not refused.
Realpath(s) ==
    {path \in {Normpath(Root(s) \o request) : request \in Requests} :
        path \in Paths /\ Within(Root(s), path)}

MayWrite(s) == entered[rights[s].write].write

-----------------------------------------------------------------------------
\* The operations.

\* os.O_RDONLY has no bit, and O_EXCL only makes an open fail.
Accesses == {"O_RDONLY", "O_WRONLY", "O_RDWR"}
Options  == {"O_APPEND", "O_CREAT", "O_TRUNC"}

\* Mutant of AsksToWrite: the options are not looked at.
AsksToWriteByAccess(access, options) == access \in {"O_WRONLY", "O_RDWR"}

AsksToWrite(access, options) ==
    \/ access \in {"O_WRONLY", "O_RDWR"}
    \/ options \cap {"O_APPEND", "O_CREAT", "O_TRUNC"} # {}

\* open: what O_CREAT and O_TRUNC do is done before there is a handle.
OpenFile(s, path, access, options) ==
    /\ UNCHANGED <<server, session, login, rights>>
    /\ handle[s] = NoHandle
    /\ MayWrite(s) \/ ~AsksToWrite(access, options)
    /\ files[path] = "none" => "O_CREAT" \in options /\ InFolder(path)
    /\ files[path] # "folder"
    /\ files' = IF files[path] = "none" \/ "O_TRUNC" \in options
                THEN [files EXCEPT ![path] = "new"] ELSE files
    /\ handle' = [handle EXCEPT ![s] = [path |-> path, opened |-> path,
                                        writes |-> access # "O_RDONLY"]]

\* A handle that was not opened to write refuses; one whose file was removed writes
\* to what is at no path any more.
WriteFile(s) ==
    /\ UNCHANGED <<server, session, login, rights>>
    /\ handle[s].writes
    /\ files' = IF handle[s].path = NoPath THEN files
                                           ELSE [files EXCEPT ![handle[s].path] = "new"]
    /\ UNCHANGED handle

CloseFile(s) ==
    /\ UNCHANGED <<server, session, login, rights>>
    /\ handle[s] # NoHandle
    /\ handle' = [handle EXCEPT ![s] = NoHandle]
    /\ UNCHANGED files

RemoveFile(s, path) ==
    /\ UNCHANGED <<server, session, login, rights>>
    /\ MayWrite(s)
    /\ files[path] \in {"old", "new"}
    /\ files' = [files EXCEPT ![path] = "none"]
    /\ handle' = [t \in Sessions |->
                     [handle[t] EXCEPT !.path = IF @ = path THEN NoPath ELSE @]]

\* Where a path goes when old, above it or the path itself, becomes new.
Rebase(path, old, new) == new \o SubSeq(path, Len(old) + 1, Len(path))

\* os.rename: a folder takes along what is in it, and every open file stays with its
\* handle.  A file, or an empty folder, in its place is replaced, on some systems.
Rename(s, old, new) ==
    /\ UNCHANGED <<server, session, login, rights>>
    /\ MayWrite(s)
    /\ files[old] # "none" /\ ~IsPrefix(old, new)
    /\ InFolder(new) /\ Nothing(new)
    /\ files[new] # "none" => (files[old] = "folder" <=> files[new] = "folder")
    /\ \A p \in Paths :
          IsPrefix(old, p) /\ files[p] # "none" => Rebase(p, old, new) \in Paths
    /\ files' = [p \in Paths |->
                    CASE IsPrefix(new, p) /\ Rebase(p, new, old) \in Paths ->
                            files[Rebase(p, new, old)]
                      [] IsPrefix(old, p) -> "none"
                      [] OTHER            -> files[p]]
    /\ handle' = [t \in Sessions |->
                     [handle[t] EXCEPT !.path = IF IsPrefix(old, @) THEN Rebase(@, old, new)
                                                ELSE IF @ = new THEN NoPath ELSE @]]

MakeFolder(s, path) ==
    /\ UNCHANGED <<server, session, login, rights>>
    /\ MayWrite(s)
    /\ files[path] = "none" /\ InFolder(path)
    /\ files' = [files EXCEPT ![path] = "folder"]
    /\ UNCHANGED handle

RemoveFolder(s, path) ==
    /\ UNCHANGED <<server, session, login, rights>>
    /\ MayWrite(s)
    /\ files[path] = "folder" /\ Nothing(path)
    /\ files' = [files EXCEPT ![path] = "none"]
    /\ UNCHANGED handle

Operate(s, path) ==
    \/ \E access \in Accesses, options \in SUBSET Options :
           OpenFile(s, path, access, options)
    \/ RemoveFile(s, path) \/ MakeFolder(s, path) \/ RemoveFolder(s, path)

Client(s) ==
    /\ session[s] = "open"
    /\ LET paths == Realpath(s)
       IN  \/ \E path \in paths : Operate(s, path)
           \/ \E old, new \in paths : Rename(s, old, new)
           \/ WriteFile(s) \/ CloseFile(s)

-----------------------------------------------------------------------------
SessionNext == Tab \/ \E s \in Sessions : Connect(s) \/ Client(s) \/ Disconnect(s)

SessionSpec == SessionInit /\ [][SessionNext]_sessionVars

-----------------------------------------------------------------------------
\* A path is below a directory or is the directory.
Below(root, path) == IsPrefix(root, path)

\* A session that may change what is at a path: the path is below its root, or is
\* where the file has got that the session opened below its root to write.
MayChange(s, path) ==
    /\ session[s] = "open" /\ MayWrite(s)
    /\ \/ Below(Root(s), path)
       \/ /\ handle[s].path = path /\ handle[s].writes
          /\ Below(Root(s), handle[s].opened)

\* What is on disk changes only through an open session that was given the right to
\* write, below the root it was given, or in a file it opened there; whatever flags
\* files are opened with, whatever becomes of the file of an open handle, and whichever
\* settings have been entered since (sftp_server.py:37-65, 89-137).
OnlyAllowedChanges ==
    [][\A p \in Paths : files'[p] # files[p] =>
           \E s \in Sessions : MayChange(s, p)]_sessionVars

\* An open file leaves the root it was opened below only if a session with the right to
\* write and a root further up renames it, or a folder above it: among sessions with
\* one root, or with roots side by side, none does (sftp_server.py:55-65, 108-117).
LeavesRootFromAbove ==
    [][\A t \in Sessions :
           /\ handle[t].path # NoPath /\ Below(Root(t), handle[t].path)
           /\ handle'[t].path # NoPath /\ ~Below(Root(t), handle'[t].path)
           => \E s \in Sessions : /\ session[s] = "open" /\ MayWrite(s)
                                  /\ IsStrictPrefix(Root(s), Root(t))]_sessionVars

\* A session that asks for the account of an earlier start never has rights or a root
\* entered later: connections read these in the order opposite to that in which the
\* tab writes them, with no lock between them (sftp_server.py:182-183,
\* ftp_tab.py:70-74, main.py:88-89).
NothingNewForOldAccount ==
    \A s \in Sessions : session[s] = "open" =>
        /\ rights[s].root <= rights[s].write
        /\ rights[s].write <= login[s].username
        /\ rights[s].write <= login[s].password
-----------------------------------------------------------------------------
\* The tab writes the attributes in this order, so each is as new as the next.
WrittenInOrder ==
    /\ root_dir <= allow_write /\ allow_write <= password /\ password <= username
    /\ entering # "username" => username = latest
    /\ entering \in {"allow_write", "root_dir", "done"} => password = latest
    /\ entering \in {"root_dir", "done"} => allow_write = latest

\* A connection reads them in the opposite order: what it has is not newer than what it
\* will read next.
ReadInOrder ==
    \A s \in Sessions :
        /\ session[s] = "root" => rights[s].root <= allow_write
        /\ session[s] \in {"class", "username", "open"} =>
               rights[s].root <= rights[s].write /\ rights[s].write <= password
        /\ session[s] \in {"username", "open"} => rights[s].write <= login[s].username
        /\ session[s] = "open" => rights[s].write <= login[s].password

\* A handle belongs to a session that is open, writes only with the right to, was
\* opened below the session's root, and knows a path only if its file is there, whoever
\* renames it.
HandlesInv ==
    \A s \in Sessions :
        /\ handle[s] # NoHandle =>
              session[s] = "open" /\ Below(Root(s), handle[s].opened)
        /\ handle[s].writes => MayWrite(s)
        /\ handle[s].path # NoPath => files[handle[s].path] \in {"old", "new"}

\* The inductive invariant behind the properties above.
SessionInv == SessionTypeOK /\ WrittenInOrder /\ ReadInOrder /\ HandlesInv
=============================================================================

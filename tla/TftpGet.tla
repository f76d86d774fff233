------------------------------ MODULE TftpGet ------------------------------
(***************************************************************************)
(* TFTPClient._get_file_sync (backend/tftp_client.py) downloading one file *)
(* over UDP: datagrams are lost, duplicated, delayed and reordered, and a  *)
(* retransmitted request can make the server open a second transfer of the *)
(* same file from a second port.                                           *)
(*                                                                         *)
(* Environment, outside src/: the network, and the transfer sessions of    *)
(* the TFTP server.  Its one assumption is that neither a datagram nor a   *)
(* silent session outlives a whole turn of the block counter (Fresh).      *)
(***************************************************************************)
EXTENDS TftpWire

CONSTANTS
    MaxRetries,  \* MAX_RETRIES: 5 in the code
    CanRemove,   \* whether os.remove of the local file succeeds
    MaxResends   \* bound: times a session repeats one DATA before giving up

ASSUME GetAssumption ==
    /\ MaxRetries \in Nat
    /\ CanRemove \in BOOLEAN
    /\ MaxResends \in Nat

VARIABLES
    pc,        \* how far the call has come, or how it ended
    expected,  \* expected_block
    retries,   \* retries
    last,      \* last_packet_sent and last_addr
    present,   \* local_filename exists
    file,      \* the chunks in it since it was opened
    session    \* the transfer sessions of the server

client  == <<pc, expected, retries, last, present, file>>
vars    == <<client, net, dups, session>>

\* struct.pack(">hH", OP_ACK, block), sent to the address the DATA came from.
AckOf(p) == [op |-> "ACK", tid |-> p.tid, block |-> p.block, chunk |-> p.chunk]

\* No packet or session about chunk k is still around once the client is a
\* whole turn of the block counter past it.
Fresh(k) == Len(file) + 1 - k < BlockMod

TypeOK ==
    /\ pc \in {"start", "requested", "receiving", "done", "failed", "refused"}
    /\ expected \in Blocks
    /\ retries \in 0..MaxRetries
    /\ last \in Packet
    /\ present \in BOOLEAN
    /\ file \in Seq(Chunks)
    /\ NetTypeOK
    /\ session \in [Tid -> [st : {"free", "open", "closed"},
                            chunk : Chunks, resends : 0..MaxResends]]

Init ==
    /\ pc = "start"
    /\ expected = 1
    /\ retries = 0
    /\ last = Request
    /\ present \in BOOLEAN
    /\ file = <<>>
    /\ NetInit
    /\ session = [t \in Tid |-> [st |-> "free", chunk |-> 1, resends |-> 0]]

-----------------------------------------------------------------------------
\* The client.

\* sock.sendto of the request, before the try block is entered.
SendRequest ==
    /\ pc = "start"
    /\ pc' = "requested"
    /\ Send({Request})
    /\ UNCHANGED <<expected, retries, last, present, file, session>>

\* That first sendto raises, as it does when the host cannot be resolved: no
\* handler of the function has run, and the local file is as it was.
RequestFails ==
    /\ pc = "start"
    /\ pc' = "refused"
    /\ UNCHANGED <<expected, retries, last, present, file, net, dups, session>>

\* open(local_filename, "wb") empties the file or creates it.
OpenLocal ==
    /\ pc = "requested"
    /\ pc' = "receiving"
    /\ present' = TRUE
    /\ file' = <<>>
    /\ UNCHANGED <<expected, retries, last, net, dups, session>>

\* Mutant of Fail: the local file is left where it is.
FailKeepsFile(written) == pc' = "failed" /\ file' = written /\ UNCHANGED present

\* The except clause: whatever is at local_filename, by now the chunks written,
\* is removed, an OSError of that removal is swallowed, and the exception goes to
\* the caller.
Fail(written) ==
    /\ pc' = "failed"
    /\ present' = (present /\ ~CanRemove)
    /\ file' = IF CanRemove THEN <<>> ELSE written

OpenFails ==
    /\ pc = "requested"
    /\ Fail(file)
    /\ UNCHANGED <<expected, retries, last, net, dups, session>>

\* Mutant of Timeout: retries are not counted.
TimeoutUncounted ==
    /\ pc = "receiving"
    /\ retries < MaxRetries
    /\ Send({last})
    /\ UNCHANGED <<pc, expected, retries, last, present, file, session>>

\* socket.timeout: one second without a datagram.
Timeout ==
    /\ pc = "receiving"
    /\ retries < MaxRetries
    /\ retries' = retries + 1
    /\ Send({last})
    /\ UNCHANGED <<pc, expected, last, present, file, session>>

GiveUp ==
    /\ pc = "receiving"
    /\ retries = MaxRetries
    /\ Fail(file)
    /\ UNCHANGED <<expected, retries, last, net, dups, session>>

\* recvfrom raises anything but socket.timeout, a repeated sendto raises, or
\* struct.unpack does, at a datagram too short to be a packet: from anywhere.
SocketFails ==
    /\ pc = "receiving"
    /\ Fail(file)
    /\ UNCHANGED <<expected, retries, last, net, dups, session>>

\* A datagram of the given kind reaches recvfrom, which resets retries.
Arrives(p, op) ==
    /\ pc = "receiving"
    /\ p.op = op
    /\ op = "DATA" => Fresh(p.chunk)
    /\ retries' = 0

\* Mutant of RecvNext: the block number is not looked at.
RecvUnchecked(p) ==
    /\ Arrives(p, "DATA")
    /\ file' = Append(file, p.chunk)
    /\ Receive(p, {AckOf(p)})
    /\ last' = AckOf(p)
    /\ expected' = NextBlock(expected)
    /\ pc' = IF Short(p.chunk) THEN "done" ELSE pc
    /\ UNCHANGED <<present, session>>

\* Mutant of RecvNext: the chunk is acknowledged, and not written yet.
RecvUnwritten(p) ==
    /\ Arrives(p, "DATA")
    /\ p.block = expected
    /\ Receive(p, {AckOf(p)})
    /\ last' = AckOf(p)
    /\ expected' = NextBlock(expected)
    /\ pc' = IF Short(p.chunk) THEN "done" ELSE pc
    /\ UNCHANGED <<present, file, session>>

\* block == expected_block: the chunk is written, then acknowledged.
RecvNext(p) ==
    /\ Arrives(p, "DATA")
    /\ p.block = expected
    /\ file' = Append(file, p.chunk)
    /\ Receive(p, {AckOf(p)})
    /\ last' = AckOf(p)
    /\ expected' = NextBlock(expected)
    /\ pc' = IF Short(p.chunk) THEN "done" ELSE pc
    /\ UNCHANGED <<present, session>>

\* block == (expected_block - 1) & 0xFFFF: acknowledged again, not written;
\* last_packet_sent and last_addr are left alone.
RecvDuplicate(p) ==
    /\ Arrives(p, "DATA")
    /\ p.block # expected
    /\ p.block = PrevBlock(expected)
    /\ Receive(p, {AckOf(p)})
    /\ UNCHANGED <<pc, expected, last, present, file, session>>

RecvStale(p) ==
    /\ Arrives(p, "DATA")
    /\ p.block \notin {expected, PrevBlock(expected)}
    /\ Receive(p, {})
    /\ UNCHANGED <<pc, expected, last, present, file, session>>

RecvError(p) ==
    /\ Arrives(p, "ERROR")
    /\ Receive(p, {})
    /\ Fail(file)
    /\ UNCHANGED <<expected, last, session>>

\* Handling the expected block raises: f.write on a full disk, or progress_cb
\* before the ACK is sent, or the final progress_cb(..., True) after it.
RecvFaults(p) ==
    /\ Arrives(p, "DATA")
    /\ p.block = expected
    /\ \/ /\ \E written \in {file, Append(file, p.chunk)} : Fail(written)
          /\ Receive(p, {})
          /\ UNCHANGED <<last, expected>>
       \/ /\ Short(p.chunk)
          /\ Fail(Append(file, p.chunk))
          /\ Receive(p, {AckOf(p)})
          /\ last' = AckOf(p)
          /\ expected' = NextBlock(expected)
    /\ UNCHANGED session

Client ==
    \/ SendRequest \/ RequestFails \/ OpenLocal \/ OpenFails
    \/ Timeout \/ GiveUp \/ SocketFails
    \/ \E p \in net : \/ RecvNext(p) \/ RecvDuplicate(p) \/ RecvStale(p)
                      \/ RecvError(p) \/ RecvFaults(p)

-----------------------------------------------------------------------------
\* The server.  A request reaching the listening port gets an endpoint and a
\* port of its own, so a repeated request gets a second one.

OpenSession(t) ==
    /\ Request \in net
    /\ session[t].st = "free"
    /\ Fresh(1)
    /\ session' = [session EXCEPT ![t].st = "open"]
    /\ Receive(Request, {Data(t, 1)})
    /\ UNCHANGED client

\* The file cannot be opened: the answer is an ERROR packet.
RefuseRequest ==
    /\ Request \in net
    /\ Receive(Request, {ErrorPkt})
    /\ UNCHANGED <<client, session>>

Resend(t) ==
    /\ session[t].st = "open"
    /\ session[t].resends < MaxResends
    /\ Fresh(session[t].chunk)
    /\ session' = [session EXCEPT ![t].resends = @ + 1]
    /\ Send({Data(t, session[t].chunk)})
    /\ UNCHANGED client

RecvAck(p) ==
    /\ p.op = "ACK"
    /\ session[p.tid].st = "open"
    /\ p.block = session[p.tid].chunk % BlockMod
    /\ Fresh(p.chunk) /\ Fresh(session[p.tid].chunk)
    /\ IF Short(session[p.tid].chunk)
       THEN /\ session' = [session EXCEPT ![p.tid].st = "closed"]
            /\ Receive(p, {})
       ELSE /\ session' = [session EXCEPT ![p.tid].chunk = @ + 1,
                                          ![p.tid].resends = 0]
            /\ Receive(p, {Data(p.tid, session[p.tid].chunk + 1)})
    /\ UNCHANGED client

Abandon(t) ==
    /\ session[t].st = "open"
    /\ session' = [session EXCEPT ![t].st = "closed"]
    /\ UNCHANGED <<client, net, dups>>

Server ==
    \/ \E t \in Tid : OpenSession(t) \/ Resend(t) \/ Abandon(t)
    \/ RefuseRequest
    \/ \E p \in net : RecvAck(p)

-----------------------------------------------------------------------------
Lose == LoseOne /\ UNCHANGED <<client, session>>

Next == Client \/ Server \/ Lose

Spec == Init /\ [][Next]_vars

\* The call runs in its own executor thread, and recvfrom returns or raises
\* socket.timeout within a second.  Nothing is asked of network or server.
FairSpec == Spec /\ WF_vars(Client)

-----------------------------------------------------------------------------
Running == pc \in {"start", "requested", "receiving"}

\* The local file is at all times a prefix of the source: no chunk is missing,
\* repeated or out of order, whatever the network repeats or reorders and
\* however often the block counter has wrapped (tftp_client.py:54-74).
FileIsPrefix == file = [i \in 1..Len(file) |-> i] /\ Len(file) <= NChunks

\* A download reported as complete has every chunk of the source and left the
\* file in place (tftp_client.py:68-70).
DoneMeansWhole == pc = "done" => Len(file) = NChunks /\ present

\* Modular block numbers tell chunks apart: while the download runs, a DATA
\* packet carries the expected block exactly when it carries the next chunk, so
\* the client neither takes an old chunk for a new one nor gets stuck at the
\* wrap from 65535 to 0 (tftp_client.py:56, 66).
ExpectedIsNextChunk ==
    pc = "receiving" => \A p \in net :
        p.op = "DATA" /\ Fresh(p.chunk) =>
            (p.block = expected <=> p.chunk = Len(file) + 1)

\* An acknowledgement on its way to the server means the chunk is already in the
\* local file (tftp_client.py:57-65): the server never moves past data that the
\* client could still lose.
AckedMeansWritten ==
    pc \in {"receiving", "done"} => \A p \in net :
        p.op = "ACK" => p.chunk <= Len(file)

\* A download that fails after the request was sent leaves nothing at the local
\* name, also when the failure comes after the final ACK (tftp_client.py:80-87).
FailedLeavesNoFile == pc = "failed" /\ CanRemove => ~present

\* Every download comes to an end, for retries are counted and only a datagram
\* resets them, of which there are finitely many (tftp_client.py:41-50).
Terminates == <>(~Running)

\* What the caller of get_file has been told.
Outcome == IF Running THEN "running"
           ELSE IF pc = "done" THEN "done" ELSE "failed"

\* The download is a file transfer in the sense of FileTransfer.
Transfer == INSTANCE FileTransfer WITH copy <- file, outcome <- Outcome

TransferSpec == Transfer!Spec
-----------------------------------------------------------------------------
\* The inductive invariant behind the properties above: the block numbers in
\* flight are those of their chunks, nothing is ahead of the client by more than
\* the one chunk it waits for, and it waits for the chunk after the last written.

BlocksMatch(p) == p.op \in {"DATA", "ACK"} => p.block = p.chunk % BlockMod

NotAhead(p) ==
    /\ p.op = "DATA" => p.chunk <= Len(file) + 1
    /\ p.op = "ACK"  => p.chunk <= Len(file)

PacketInv == \A p \in net \cup {last} :
    BlocksMatch(p) /\ (pc # "failed" => NotAhead(p))

SessionInv == pc # "failed" => \A t \in Tid : session[t].chunk <= Len(file) + 1

ClientInv ==
    /\ pc \in {"start", "requested", "refused"} => file = <<>> /\ expected = 1
    /\ pc = "receiving" => /\ Len(file) < NChunks
                           /\ expected = (Len(file) + 1) % BlockMod
                           /\ present

IInv == TypeOK /\ FileIsPrefix /\ DoneMeansWhole /\ FailedLeavesNoFile
               /\ PacketInv /\ SessionInv /\ ClientInv
=============================================================================

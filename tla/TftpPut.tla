------------------------------ MODULE TftpPut ------------------------------
(***************************************************************************)
(* TFTPClient._put_file_sync (backend/tftp_client.py) uploading one file   *)
(* to the TFTP server of backend/tftp_server.py: its file handler with the *)
(* finished flag, and the finalizer that deletes an upload that was not    *)
(* finished, which runs some time after the session is gone.               *)
(*                                                                         *)
(* Environment, outside src/: the network, and the packet handling of the  *)
(* server's protocol class.  As in TftpGet, no datagram outlives a whole   *)
(* turn of the block counter (Fresh).  The protocol class opens the remote *)
(* file exclusively, hands a chunk to the handler before it acknowledges   *)
(* it, and a session whose handler raised answers nothing more.            *)
(***************************************************************************)
EXTENDS TftpWire

CONSTANTS
    MaxRetries,  \* MAX_RETRIES: 5 in the code
    CanUnlink,   \* whether unlink of an unfinished upload succeeds
    MaxResends   \* bound: times a session repeats one ACK

ASSUME PutAssumption ==
    /\ MaxRetries \in Nat
    /\ CanUnlink \in BOOLEAN
    /\ MaxResends \in Nat

VARIABLES
    pc,        \* how far the call has come, or how it ended
    expected,  \* expected_block
    pos,       \* chunks read from local_filename
    retries,   \* retries
    last,      \* last_packet_sent and last_addr
    remote,    \* what is at the remote name: nothing, this upload, another file
    stored,    \* the chunks this upload has stored there
    session    \* the server's sessions; got: chunks taken, st: their life

client  == <<pc, expected, pos, retries, last>>
server  == <<remote, stored, session>>
vars    == <<client, server, net, dups>>

\* No packet about chunk k is still around a whole turn of the counter later.
Fresh(k) == pos + 1 - k < BlockMod

TypeOK ==
    /\ pc \in {"start", "requested", "sending", "done", "failed", "refused"}
    /\ expected \in Blocks
    /\ pos \in 0..NChunks
    /\ retries \in 0..MaxRetries
    /\ last \in Packet
    /\ remote \in {"absent", "upload", "other"}
    /\ stored \in Seq(Chunks)
    /\ NetTypeOK
    /\ session \in [Tid -> [st : {"free", "open", "finished", "dropped", "cleaned"},
                            got : 0..NChunks, resends : 0..MaxResends]]

Init ==
    /\ pc = "start"
    /\ expected = 0
    /\ pos = 0
    /\ retries = 0
    /\ last = Request
    /\ remote \in {"absent", "other"}
    /\ stored = <<>>
    /\ NetInit
    /\ session = [t \in Tid |-> [st |-> "free", got |-> 0, resends |-> 0]]

-----------------------------------------------------------------------------
\* The client.

\* sock.sendto of the request, before the try block is entered.
SendRequest ==
    /\ pc = "start"
    /\ pc' = "requested"
    /\ Send({Request})
    /\ UNCHANGED <<expected, pos, retries, last, server>>

RequestFails ==
    /\ pc = "start"
    /\ pc' = "refused"
    /\ UNCHANGED <<expected, pos, retries, last, server, net, dups>>

\* open(local_filename, "rb"): only now, after the request has been sent.
OpenLocal ==
    /\ pc = "requested"
    /\ pc' \in {"sending", "failed"}
    /\ UNCHANGED <<expected, pos, retries, last, server, net, dups>>

\* Mutant of Timeout: retries are not counted.
TimeoutUncounted ==
    /\ pc = "sending"
    /\ retries < MaxRetries
    /\ Send({last})
    /\ UNCHANGED <<pc, expected, pos, retries, last, server>>

\* socket.timeout: one second without a datagram.
Timeout ==
    /\ pc = "sending"
    /\ retries < MaxRetries
    /\ retries' = retries + 1
    /\ Send({last})
    /\ UNCHANGED <<pc, expected, pos, last, server>>

GiveUp ==
    /\ pc = "sending"
    /\ retries = MaxRetries
    /\ pc' = "failed"
    /\ UNCHANGED <<expected, pos, retries, last, server, net, dups>>

\* recvfrom raises anything but socket.timeout, a repeated sendto raises, or
\* struct.unpack does, at a datagram too short to be a packet: from anywhere.
SocketFails ==
    /\ pc = "sending"
    /\ pc' = "failed"
    /\ UNCHANGED <<expected, pos, retries, last, server, net, dups>>

\* A datagram of the given kind reaches recvfrom, which resets retries.
Arrives(p, op) ==
    /\ pc = "sending"
    /\ p.op = op
    /\ op = "ACK" => Fresh(p.chunk)
    /\ retries' = 0

\* struct.pack(">hH", OP_DATA, expected_block) + f.read(512), the block number
\* having been advanced; it goes to the address the ACK came from.
NextPacket(p) == [op |-> "DATA", tid |-> p.tid, block |-> NextBlock(expected),
                  chunk |-> pos + 1]

\* Mutant of RecvAckNext: the next chunk goes out, and expected_block stays.
RecvAckNextStays(p) ==
    /\ Arrives(p, "ACK")
    /\ p.block = expected
    /\ ~Short(pos)
    /\ pos' = pos + 1
    /\ last' = NextPacket(p)
    /\ Receive(p, {NextPacket(p)})
    /\ UNCHANGED <<pc, expected, server>>

\* block == expected_block, chunks left: the next one is read and sent to
\* where this ACK came from.
RecvAckNext(p) ==
    /\ Arrives(p, "ACK")
    /\ p.block = expected
    /\ ~Short(pos)
    /\ expected' = NextBlock(expected)
    /\ pos' = pos + 1
    /\ last' = NextPacket(p)
    /\ Receive(p, {NextPacket(p)})
    /\ UNCHANGED <<pc, server>>

\* block == expected_block and is_last_chunk.
RecvFinalAck(p) ==
    /\ Arrives(p, "ACK")
    /\ p.block = expected
    /\ Short(pos)
    /\ Receive(p, {})
    /\ pc' = "done"
    /\ UNCHANGED <<expected, pos, last, server>>

\* block == (expected_block - 1) & 0xFFFF: the last packet goes out again, to
\* the address it was sent to first.
RecvDuplicate(p) ==
    /\ Arrives(p, "ACK")
    /\ p.block # expected
    /\ p.block = PrevBlock(expected)
    /\ Receive(p, {last})
    /\ UNCHANGED <<pc, expected, pos, last, server>>

RecvStale(p) ==
    /\ Arrives(p, "ACK")
    /\ p.block \notin {expected, PrevBlock(expected)}
    /\ Receive(p, {})
    /\ UNCHANGED <<pc, expected, pos, last, server>>

RecvError(p) ==
    /\ Arrives(p, "ERROR")
    /\ Receive(p, {})
    /\ pc' = "failed"
    /\ UNCHANGED <<expected, pos, last, server>>

\* Handling the expected ACK raises: f.read, the final progress_cb, or the
\* progress_cb that follows the sending of a chunk.
RecvFaults(p) ==
    /\ Arrives(p, "ACK")
    /\ p.block = expected
    /\ pc' = "failed"
    /\ \/ /\ Receive(p, {})
          /\ UNCHANGED <<last, expected, pos>>
       \/ /\ ~Short(pos)
          /\ expected' = NextBlock(expected)
          /\ pos' = pos + 1
          /\ last' = NextPacket(p)
          /\ Receive(p, {NextPacket(p)})
    /\ UNCHANGED server

Client ==
    \/ SendRequest \/ RequestFails \/ OpenLocal \/ Timeout \/ GiveUp \/ SocketFails
    \/ \E p \in net : \/ RecvAckNext(p) \/ RecvFinalAck(p) \/ RecvDuplicate(p)
                      \/ RecvStale(p) \/ RecvError(p) \/ RecvFaults(p)

-----------------------------------------------------------------------------
\* The server.

\* Mutant of OpenSession: an existing file is opened and emptied.
OpenSessionShared(t) ==
    /\ Request \in net
    /\ session[t].st = "free"
    /\ remote' = "upload"
    /\ stored' = <<>>
    /\ session' = [session EXCEPT ![t].st = "open"]
    /\ Receive(Request, {Ack(t, 0)})
    /\ UNCHANGED client

\* A request gets an endpoint of its own; its file handler creates the remote
\* file, which must not exist, and registers the finalizer.
OpenSession(t) ==
    /\ Request \in net
    /\ session[t].st = "free"
    /\ remote = "absent"
    /\ remote' = "upload"
    /\ stored' = <<>>
    /\ session' = [session EXCEPT ![t].st = "open"]
    /\ Receive(Request, {Ack(t, 0)})
    /\ UNCHANGED client

\* The handler cannot be made, because the file exists or for another reason:
\* an ERROR is the answer, and no finalizer is registered.
RefuseRequest ==
    /\ Request \in net
    /\ Receive(Request, {ErrorPkt})
    /\ UNCHANGED <<client, server>>

Resend(t) ==
    /\ session[t].st = "open"
    /\ session[t].resends < MaxResends
    /\ session' = [session EXCEPT ![t].resends = @ + 1]
    /\ Send({Ack(t, session[t].got)})
    /\ UNCHANGED <<client, remote, stored>>

IsNextData(p) ==
    /\ p.op = "DATA"
    /\ session[p.tid].st = "open"
    /\ p.block = (session[p.tid].got + 1) % BlockMod
    /\ Fresh(p.chunk)

\* new_write_chunk: the chunk is written, and a short one sets the finished
\* flag; the protocol class acknowledges and, after a short one, closes.
RecvData(p) ==
    /\ IsNextData(p)
    /\ stored' = Append(stored, p.chunk)
    /\ session' = [session EXCEPT
           ![p.tid] = [st |-> IF Short(p.chunk) THEN "finished" ELSE "open",
                       got |-> @.got + 1, resends |-> 0]]
    /\ Receive(p, {Ack(p.tid, session[p.tid].got + 1)})
    /\ UNCHANGED <<client, remote>>

\* orig_write_chunk raises, or after it the callback: the finished flag is not
\* set even when the chunk was the last one.
WriteFaults(p) ==
    /\ IsNextData(p)
    /\ stored' \in {stored, Append(stored, p.chunk)}
    /\ session' = [session EXCEPT ![p.tid].st = "dropped"]
    /\ Receive(p, {})
    /\ UNCHANGED <<client, remote>>

\* The session times out: nothing refers to its handler any more.
Abandon(t) ==
    /\ session[t].st = "open"
    /\ session' = [session EXCEPT ![t].st = "dropped"]
    /\ UNCHANGED <<client, remote, stored, net, dups>>

\* Mutant of Cleanup: the finished flag is not looked at.
CleanupAlways(t) ==
    /\ session[t].st \in {"dropped", "finished"}
    /\ session' = [session EXCEPT ![t].st = "cleaned"]
    /\ IF CanUnlink THEN remote' = "absent" /\ stored' = <<>>
                    ELSE UNCHANGED <<remote, stored>>
    /\ UNCHANGED <<client, net, dups>>

\* Mutant of Cleanup: the file is closed, and not unlinked.
CleanupOnlyCloses(t) ==
    /\ session[t].st = "dropped"
    /\ session' = [session EXCEPT ![t].st = "cleaned"]
    /\ UNCHANGED <<client, remote, stored, net, dups>>

\* cleanup_incomplete_file, when the handler is collected, with the finished
\* flag not set: the file is unlinked if there is one; an error is only logged.
Cleanup(t) ==
    /\ session[t].st = "dropped"
    /\ session' = [session EXCEPT ![t].st = "cleaned"]
    /\ IF CanUnlink THEN remote' = "absent" /\ stored' = <<>>
                    ELSE UNCHANGED <<remote, stored>>
    /\ UNCHANGED <<client, net, dups>>

Server ==
    \/ \E t \in Tid : OpenSession(t) \/ Resend(t) \/ Abandon(t) \/ Cleanup(t)
    \/ RefuseRequest
    \/ \E p \in net : RecvData(p) \/ WriteFaults(p)

-----------------------------------------------------------------------------
Lose == LoseOne /\ UNCHANGED <<client, server>>

Next == Client \/ Server \/ Lose

Spec == Init /\ [][Next]_vars

\* The call runs in its own executor thread, and recvfrom returns or raises
\* within a second.  A session left alone times out, and a finalizer runs when
\* its object is collected, at the latest when the interpreter exits.
FairSpec ==
    /\ Spec
    /\ WF_vars(Client)
    /\ \A t \in Tid : WF_vars(Abandon(t)) /\ WF_vars(Cleanup(t))

-----------------------------------------------------------------------------
Running == pc \in {"start", "requested", "sending"}

\* What this upload has at the remote name is a prefix of the source, whatever
\* the network repeats or reorders, and however many sessions the repeated
\* requests open (tftp_client.py:130-154, tftp_server.py:66-79).
StoredIsPrefix == stored = [i \in 1..Len(stored) |-> i] /\ Len(stored) <= NChunks

\* An upload reported as complete is stored whole, and no finalizer has taken it
\* away (tftp_client.py:131-135, tftp_server.py:82-93).
DoneMeansStored == pc = "done" => remote = "upload" /\ Len(stored) = NChunks

\* While the upload runs, an ACK carries the expected block exactly when it
\* acknowledges the chunk sent last (tftp_client.py:130, 137, 151).
ExpectedIsLastSent ==
    pc = "sending" => \A p \in net :
        p.op = "ACK" /\ Fresh(p.chunk) => (p.block = expected <=> p.chunk = pos)

\* The sessions whose handler has the remote file open or has still to clean
\* it up.
Owners == {t \in Tid : session[t].st \in {"open", "finished", "dropped"}}

\* The remote file has one owner at most: the finalizer of one session never
\* unlinks what another one has stored (tftp_server.py:82-93).
OneOwner == /\ \A t, u \in Owners : t = u
            /\ Owners # {} => remote = "upload"

\* Every upload comes to an end (tftp_client.py:116-125).
Terminates == <>(~Running)

\* An upload that was cut short does not stay: in the end the remote name has
\* the whole file or nothing of this upload (tftp_server.py:82-93).
WholeOrGone == CanUnlink => <>[](remote = "upload" => Len(stored) = NChunks)

\* What the caller of put_file has been told.
Outcome == IF Running THEN "running"
           ELSE IF pc = "done" THEN "done" ELSE "failed"

\* The upload is a file transfer in the sense of FileTransfer; in particular
\* what was reported as done is never discarded.
Transfer == INSTANCE FileTransfer WITH copy <- stored, outcome <- Outcome

TransferSpec == Transfer!Spec
-----------------------------------------------------------------------------
\* The inductive invariant behind the safety properties: block numbers are those
\* of their chunks, a DATA packet is at most one chunk ahead of the session it is
\* for, an ACK not ahead of the session it is from, and the owner of the remote
\* file has counted what is in it.

BlocksMatch(p) == p.op \in {"DATA", "ACK"} => p.block = p.chunk % BlockMod

NotAhead(p) ==
    /\ p.op = "DATA" => p.chunk <= session[p.tid].got + 1 /\ p.chunk <= pos
    /\ p.op = "ACK"  => p.chunk <= session[p.tid].got

PacketInv == \A p \in net \cup {last} : BlocksMatch(p) /\ NotAhead(p)

SessionInv == \A t \in Tid :
    /\ session[t].got <= pos
    /\ session[t].st = "free" => session[t].got = 0
    /\ session[t].st \in {"open", "finished"} => session[t].got = Len(stored)
    /\ session[t].st \in {"open", "dropped", "cleaned"} => session[t].got < NChunks
    /\ session[t].st = "finished" => session[t].got = NChunks

ClientInv ==
    /\ pc \in {"start", "requested", "refused"} => pos = 0
    /\ pc # "failed" => expected = pos % BlockMod
    /\ pc = "done" => \E t \in Tid : session[t].st = "finished"

IInv == TypeOK /\ StoredIsPrefix /\ DoneMeansStored /\ OneOwner
               /\ PacketInv /\ SessionInv /\ ClientInv
=============================================================================

--------------------------- MODULE TftpPutProofs ---------------------------
EXTENDS TftpPut, TLAPS

\* Two numbers with the same residue that are less than a whole modulus apart
\* are equal: a block number identifies its chunk inside the window.
LEMMA ResidueUnique ==
    ASSUME NEW m \in Nat \ {0}, NEW a \in Nat, NEW b \in Nat,
           a % m = b % m, a - b < m, b - a < m
    PROVE  a = b
<1> DEFINE q == a \div m
           r == b \div m
<1>1. /\ q \in Int /\ r \in Int
      /\ a = (m * q) + (a % m)
      /\ b = (m * r) + (b % m)
  OBVIOUS
<1>2. a - b = m * (q - r)
  BY <1>1
<1>3. CASE q = r
  BY <1>1, <1>3
<1>4. CASE q - r >= 1
  <2>1. m * (q - r) >= m
    BY <1>1, <1>4
  <2> QED BY <1>2, <2>1
<1>5. CASE r - q >= 1
  <2>1. m * (r - q) >= m
    BY <1>1, <1>5
  <2>2. b - a = m * (r - q)
    BY <1>1
  <2> QED BY <2>1, <2>2
<1> QED BY <1>1, <1>3, <1>4, <1>5

\* Adding one to a block number gives the block number of the next chunk.
LEMMA NextBlockOfChunk ==
    ASSUME NEW m \in Nat \ {0}, NEW k \in Nat
    PROVE  ((k % m) + 1) % m = (k + 1) % m
<1> DEFINE r == k % m
           q == k \div m
           u == (r + 1) \div m
           v == (k + 1) \div m
           x == (r + 1) % m
           y == (k + 1) % m
           w == (q + u) - v
<1>1. q \in Int /\ r \in 0..(m - 1) /\ k = (m * q) + r
  OBVIOUS
<1>2. u \in Int /\ x \in 0..(m - 1) /\ r + 1 = (m * u) + x
  BY <1>1
<1>3. v \in Int /\ y \in 0..(m - 1) /\ k + 1 = (m * v) + y
  OBVIOUS
<1> HIDE DEF q, r, u, v, x, y
<1>4. y - x = m * w
  BY <1>1, <1>2, <1>3
<1>5. w \in Int /\ y - x < m /\ x - y < m /\ x \in Int /\ y \in Int
  BY <1>1, <1>2, <1>3
<1> HIDE DEF w
<1>6. CASE w = 0
  <2>1. y = x
    BY <1>4, <1>5, <1>6
  <2> QED BY <2>1 DEF x, y, r
<1>7. CASE w >= 1
  <2>1. m * w >= m
    BY <1>5, <1>7
  <2> QED BY <1>4, <1>5, <2>1
<1>8. CASE w <= -1
  <2>1. m * w <= -m
    BY <1>5, <1>8
  <2> QED BY <1>4, <1>5, <2>1
<1> QED BY <1>5, <1>6, <1>7, <1>8

LEMMA NextBlockType ==
    ASSUME NEW b \in Blocks
    PROVE  NextBlock(b) \in Blocks
BY WireAssumption DEF NextBlock, Blocks

LEMMA AckType ==
    ASSUME NEW t \in Tid, NEW k \in 0..NChunks
    PROVE  /\ Ack(t, k) \in Packet
           /\ Ack(t, k).op = "ACK"
           /\ Ack(t, k).block = k % BlockMod
           /\ Ack(t, k).chunk = k
<1>1. k % BlockMod \in Blocks
  BY WireAssumption DEF Blocks
<1> QED BY <1>1 DEF Ack, AckPkt, Packet

LEMMA PacketTypes ==
    ASSUME NEW p \in Packet
    PROVE  /\ p.op = "DATA" => p \in DataPkt
           /\ p.op = "ACK" => p \in AckPkt
           /\ p.op \in {"DATA", "ACK"} =>
                 p.tid \in Tid /\ p.block \in Blocks /\ p.chunk \in 0..NChunks
<1>1. p.op = "DATA" => p \in DataPkt
  BY DEF Packet, DataPkt, AckPkt, Request, ErrorPkt
<1>2. p.op = "ACK" => p \in AckPkt
  BY DEF Packet, DataPkt, AckPkt, Request, ErrorPkt
<1> QED BY <1>1, <1>2 DEF DataPkt, AckPkt, Chunks

\* Neither request nor error packet carries a chunk.
LEMMA PlainPackets == Request \in Packet /\ Request.op = "REQUEST"
                      /\ ErrorPkt \in Packet /\ ErrorPkt.op = "ERROR"
BY DEF Packet, Request, ErrorPkt

LEMMA ReceiveEffect ==
    ASSUME NEW p, NEW sent, Receive(p, sent), dups \in 0..MaxDups
    PROVE  net' \subseteq net \cup sent /\ dups' \in 0..MaxDups
BY WireAssumption DEF Receive

-----------------------------------------------------------------------------
LEMMA TypeInit == Init => TypeOK
BY PutAssumption, WireAssumption
   DEF Init, NetInit, TypeOK, NetTypeOK, Packet, Blocks, Chunks

\* The next chunk of the file, when the last one read was not the short one.
LEMMA NextData ==
    ASSUME TypeOK, NEW p, p.tid \in Tid, ~Short(pos)
    PROVE  /\ pos + 1 \in Chunks
           /\ NextPacket(p) \in Packet
           /\ NextBlock(expected) \in Blocks
<1>1. pos + 1 \in Chunks
  BY WireAssumption DEF TypeOK, Short, Chunks
<1>2. NextBlock(expected) \in Blocks
  BY NextBlockType DEF TypeOK
<1> QED BY <1>1, <1>2 DEF NextPacket, Packet, DataPkt

\* A session that is open has chunks left to take, which keeps its count in range.
LEMMA TypeStep == TypeOK /\ SessionInv /\ [Next]_vars => TypeOK'
<1> USE PutAssumption, WireAssumption DEF TypeOK, NetTypeOK
<1> SUFFICES ASSUME TypeOK, SessionInv, [Next]_vars PROVE TypeOK'
  OBVIOUS
<1>1. CASE SendRequest  BY <1>1, PlainPackets DEF SendRequest, Send, server
<1>2. CASE RequestFails  BY <1>2 DEF RequestFails, server
<1>3. CASE OpenLocal  BY <1>3 DEF OpenLocal, server
<1>4. CASE Timeout  BY <1>4 DEF Timeout, Send, server
<1>5. CASE GiveUp \/ SocketFails  BY <1>5 DEF GiveUp, SocketFails, server
<1>6. ASSUME NEW p \in net, RecvAckNext(p) PROVE TypeOK'
  <2>1. p.op = "ACK" /\ p \in Packet /\ ~Short(pos)
    BY <1>6 DEF RecvAckNext, Arrives
  <2>2. p.tid \in Tid
    BY <2>1, PacketTypes
  <2>3. /\ pos + 1 \in Chunks /\ NextPacket(p) \in Packet
        /\ NextBlock(expected) \in Blocks
    BY <2>1, <2>2, NextData
  <2>4. net' \subseteq Packet /\ dups' \in 0..MaxDups
    BY <1>6, <2>3, ReceiveEffect DEF RecvAckNext
  <2> QED BY <1>6, <2>3, <2>4 DEF RecvAckNext, Arrives, server, Chunks
<1>7. ASSUME NEW p \in net, RecvFinalAck(p) PROVE TypeOK'
  <2>1. net' \subseteq net /\ dups' \in 0..MaxDups
    BY <1>7, ReceiveEffect DEF RecvFinalAck
  <2> QED BY <1>7, <2>1 DEF RecvFinalAck, Arrives, server
<1>8. ASSUME NEW p \in net, RecvDuplicate(p) PROVE TypeOK'
  <2>1. net' \subseteq net \cup {last} /\ dups' \in 0..MaxDups
    BY <1>8, ReceiveEffect DEF RecvDuplicate
  <2> QED BY <1>8, <2>1 DEF RecvDuplicate, Arrives, server
<1>9. ASSUME NEW p \in net, RecvStale(p) PROVE TypeOK'
  <2>1. net' \subseteq net /\ dups' \in 0..MaxDups
    BY <1>9, ReceiveEffect DEF RecvStale
  <2> QED BY <1>9, <2>1 DEF RecvStale, Arrives, server
<1>10. ASSUME NEW p \in net, RecvError(p) PROVE TypeOK'
  <2>1. net' \subseteq net /\ dups' \in 0..MaxDups
    BY <1>10, ReceiveEffect DEF RecvError
  <2> QED BY <1>10, <2>1 DEF RecvError, Arrives, server
<1>11. ASSUME NEW p \in net, RecvFaults(p) PROVE TypeOK'
  <2>1. /\ p.op = "ACK" /\ p \in Packet /\ pc' = "failed" /\ retries' = 0
        /\ UNCHANGED server
    BY <1>11 DEF RecvFaults, Arrives
  <2>2. CASE Receive(p, {}) /\ UNCHANGED <<last, expected, pos>>
    <3>1. net' \subseteq net /\ dups' \in 0..MaxDups
      BY <2>2, ReceiveEffect
    <3> QED BY <2>1, <2>2, <3>1 DEF server
  <2>3. CASE /\ ~Short(pos) /\ expected' = NextBlock(expected) /\ pos' = pos + 1
             /\ last' = NextPacket(p) /\ Receive(p, {NextPacket(p)})
    <3>1. p.tid \in Tid
      BY <2>1, PacketTypes
    <3>2. /\ pos + 1 \in Chunks /\ NextPacket(p) \in Packet
          /\ NextBlock(expected) \in Blocks
      BY <2>3, <3>1, NextData
    <3>3. net' \subseteq Packet /\ dups' \in 0..MaxDups
      BY <2>3, <3>2, ReceiveEffect
    <3>4. pos' \in 0..NChunks
      BY <2>3, <3>2 DEF Chunks
    <3> QED BY <2>1, <2>3, <3>2, <3>3, <3>4 DEF server
  <2> QED BY <1>11, <2>2, <2>3 DEF RecvFaults
<1>12. ASSUME NEW t \in Tid, OpenSession(t) PROVE TypeOK'
  <2>1. Ack(t, 0) \in Packet
    BY AckType
  <2>2. net' \subseteq Packet /\ dups' \in 0..MaxDups
    BY <1>12, <2>1, ReceiveEffect DEF OpenSession
  <2>3. /\ session' = [session EXCEPT ![t].st = "open"]
        /\ remote' = "upload" /\ stored' = <<>> /\ UNCHANGED client
    BY <1>12 DEF OpenSession
  <2>4. stored' \in Seq(Chunks)
    BY <2>3
  <2> QED BY <2>2, <2>3, <2>4 DEF client
<1>13. CASE RefuseRequest
  <2>1. net' \subseteq Packet /\ dups' \in 0..MaxDups
    BY <1>13, PlainPackets, ReceiveEffect DEF RefuseRequest
  <2> QED BY <1>13, <2>1 DEF RefuseRequest, client, server
<1>14. ASSUME NEW t \in Tid, Resend(t) PROVE TypeOK'
  <2>1. Ack(t, session[t].got) \in Packet
    BY AckType
  <2> QED BY <1>14, <2>1 DEF Resend, Send, client
<1>15. ASSUME NEW t \in Tid, Abandon(t) PROVE TypeOK'
  BY <1>15 DEF Abandon, client
<1>16. ASSUME NEW t \in Tid, Cleanup(t) PROVE TypeOK'
  <2>1. /\ session' = [session EXCEPT ![t].st = "cleaned"]
        /\ UNCHANGED <<client, net, dups>>
        /\ remote' \in {remote, "absent"} /\ stored' \in {stored, <<>>}
    BY <1>16, Zenon DEF Cleanup
  <2>2. <<>> \in Seq(Chunks)
    OBVIOUS
  <2>3. stored' \in Seq(Chunks)
    BY <2>1, <2>2
  <2> QED BY <2>1, <2>3 DEF client
<1>17. ASSUME NEW p \in net, IsNextData(p),
              RecvData(p) \/ WriteFaults(p) PROVE TypeOK'
  <2>1. p.op = "DATA" /\ p \in Packet /\ session[p.tid].st = "open"
    BY <1>17 DEF IsNextData
  <2>2. p \in DataPkt /\ p.tid \in Tid
    BY <2>1, PacketTypes
  <2>3. p.chunk \in Chunks
    BY <2>2 DEF DataPkt
  <2>4. Append(stored, p.chunk) \in Seq(Chunks)
    BY <2>3
  <2>5. CASE WriteFaults(p)
    <3>1. net' \subseteq net /\ dups' \in 0..MaxDups
      BY <2>5, ReceiveEffect DEF WriteFaults
    <3>2. /\ session' = [session EXCEPT ![p.tid].st = "dropped"]
          /\ stored' \in Seq(Chunks)
          /\ UNCHANGED <<client, remote>>
      BY <2>4, <2>5 DEF WriteFaults
    <3> QED BY <2>2, <3>1, <3>2 DEF client
  <2>6. CASE RecvData(p)
    <3>0. session[p.tid].got + 1 \in 0..NChunks
      BY <2>1, <2>2 DEF SessionInv
    <3>1. Ack(p.tid, session[p.tid].got + 1) \in Packet
      BY <2>2, <3>0, AckType
    <3>2. net' \subseteq Packet /\ dups' \in 0..MaxDups
      BY <2>6, <3>1, ReceiveEffect DEF RecvData
    <3>3. /\ session' = [session EXCEPT
               ![p.tid] = [st |-> IF Short(p.chunk) THEN "finished" ELSE "open",
                           got |-> session[p.tid].got + 1, resends |-> 0]]
          /\ stored' \in Seq(Chunks)
          /\ UNCHANGED <<client, remote>>
      BY <2>4, <2>6 DEF RecvData
    <3> QED BY <2>2, <3>0, <3>2, <3>3 DEF client
  <2> QED BY <1>17, <2>5, <2>6
<1>18. CASE Lose
  BY <1>18 DEF Lose, LoseOne, client, server
<1>19. CASE UNCHANGED vars
  BY <1>19 DEF vars, client, server
<1>20. \A p : RecvData(p) \/ WriteFaults(p) => IsNextData(p)
  BY DEF RecvData, WriteFaults
<1> QED
  BY <1>1, <1>2, <1>3, <1>4, <1>5, <1>6, <1>7, <1>8, <1>9, <1>10, <1>11, <1>12,
     <1>13, <1>14, <1>15, <1>16, <1>17, <1>18, <1>19, <1>20 DEF Next, Client, Server

-----------------------------------------------------------------------------
\* The inductive step of IInv.

Safe(S) == \A p \in S : BlocksMatch(p) /\ NotAhead(p)'

\* Packets that were acceptable stay so: neither the client nor a session ever
\* counts backwards.
LEMMA PacketsKept ==
    ASSUME NEW sent, PacketInv, Safe(sent), TypeOK, TypeOK',
           net' \subseteq net \cup sent, last' \in net \cup {last} \cup sent,
           pos <= pos',
           \A t \in Tid : session[t].got <= session'[t].got
    PROVE  PacketInv'
<1> SUFFICES ASSUME NEW p \in net' \cup {last'}
             PROVE  BlocksMatch(p) /\ NotAhead(p)'
  BY DEF PacketInv, BlocksMatch
<1>1. CASE p \in sent
  BY <1>1 DEF Safe
<1>2. CASE p \in net \cup {last}
  <2>1. BlocksMatch(p) /\ NotAhead(p)
    BY <1>2 DEF PacketInv
  <2>2. p.op \in {"DATA", "ACK"} => p.chunk \in Nat /\ p.tid \in Tid
    BY <1>2, PacketTypes DEF TypeOK, NetTypeOK
  <2>3. /\ pos \in Nat /\ pos' \in Nat
        /\ \A t \in Tid : session[t].got \in Nat /\ session'[t].got \in Nat
    BY DEF TypeOK
  <2> QED BY <2>1, <2>2, <2>3 DEF NotAhead
<1> QED BY <1>1, <1>2

\* While the upload runs, an expected block number means the chunk sent last
\* (tftp_client.py:130), and no other ACK in the window carries it.
LEMMA ExpectedAck ==
    ASSUME IInv, pc = "sending", NEW p \in net, p.op = "ACK", Fresh(p.chunk)
    PROVE  /\ p.tid \in Tid
           /\ p.chunk <= session[p.tid].got
           /\ p.block = expected <=> p.chunk = pos
<1>1. p.tid \in Tid /\ p.chunk \in Nat /\ pos \in Nat /\ session[p.tid].got \in Nat
  BY PacketTypes DEF IInv, TypeOK, NetTypeOK
<1>2. /\ p.block = p.chunk % BlockMod
      /\ p.chunk <= session[p.tid].got
      /\ session[p.tid].got <= pos
  BY <1>1 DEF IInv, PacketInv, SessionInv, BlocksMatch, NotAhead
<1>3. expected = pos % BlockMod
  BY DEF IInv, ClientInv
<1>4. ASSUME p.block = expected PROVE p.chunk = pos
  <2>1. p.chunk % BlockMod = pos % BlockMod
    BY <1>2, <1>3, <1>4
  <2>2. BlockMod \in Nat \ {0} /\ p.chunk - pos < BlockMod /\ pos - p.chunk < BlockMod
    BY <1>1, <1>2, WireAssumption DEF Fresh
  <2> QED BY <1>1, <2>1, <2>2, ResidueUnique
<1> QED BY <1>1, <1>2, <1>3, <1>4

\* The block a session waits for identifies the chunk after those it has, and
\* that is the chunk after those in the file.
LEMMA NextDataChunk ==
    ASSUME IInv, NEW p \in net, IsNextData(p)
    PROVE  /\ p.tid \in Tid
           /\ p.chunk = session[p.tid].got + 1
           /\ p.chunk = Len(stored) + 1
           /\ p.chunk <= pos
           /\ p.chunk <= NChunks
           /\ remote = "upload"
           /\ \A t \in Tid : session[t].st \in {"open", "finished", "dropped"} => t = p.tid
<1> DEFINE g == session[p.tid].got
<1>1. p.op = "DATA" /\ session[p.tid].st = "open" /\ Fresh(p.chunk)
      /\ p.block = (g + 1) % BlockMod
  BY DEF IsNextData
<1>2. p.tid \in Tid /\ p.chunk \in Nat /\ pos \in Nat /\ g \in Nat
  BY <1>1, PacketTypes DEF IInv, TypeOK, NetTypeOK
<1>3. /\ p.block = p.chunk % BlockMod
      /\ p.chunk <= g + 1 /\ p.chunk <= pos
      /\ g <= pos /\ g < NChunks /\ g = Len(stored)
  BY <1>1, <1>2 DEF IInv, PacketInv, SessionInv, BlocksMatch, NotAhead
<1>4. p.chunk = g + 1
  <2>1. p.chunk - (g + 1) < BlockMod /\ (g + 1) - p.chunk < BlockMod
    BY <1>1, <1>2, <1>3, WireAssumption DEF Fresh
  <2>2. p.chunk % BlockMod = (g + 1) % BlockMod /\ BlockMod \in Nat \ {0}
        /\ g + 1 \in Nat
    BY <1>1, <1>2, <1>3, WireAssumption
  <2> QED BY <1>2, <2>1, <2>2, ResidueUnique
<1>5. p.tid \in Owners
  BY <1>1, <1>2 DEF Owners
<1>6. remote = "upload" /\ \A t \in Owners : t = p.tid
  BY <1>5 DEF IInv, OneOwner
<1> QED BY <1>2, <1>3, <1>4, <1>6, WireAssumption DEF Owners

\* After the final ACK nothing at the server is open or waiting to be cleaned up.
LEMMA DoneIsSettled ==
    ASSUME IInv, pc = "done", NEW t \in Tid
    PROVE  session[t].st \notin {"open", "dropped"} /\ remote = "upload"
<1>1. PICK u \in Tid : session[u].st = "finished"
  BY DEF IInv, ClientInv
<1>2. u \in Owners
  BY <1>1 DEF Owners
<1>3. \A v \in Owners : v = u
  BY <1>2 DEF IInv, OneOwner
<1> QED BY <1>1, <1>2, <1>3 DEF Owners, IInv, OneOwner

-----------------------------------------------------------------------------
\* A step of the client that stores nothing.
LEMMA ClientStep ==
    ASSUME NEW sent, IInv, TypeOK', UNCHANGED server, Safe(sent),
           net' \subseteq net \cup sent, last' \in net \cup {last} \cup sent,
           pos <= pos', ClientInv', DoneMeansStored'
    PROVE  IInv'
<1>1. TypeOK /\ pos \in Nat /\ pos' \in Nat
  BY DEF IInv, TypeOK
<1>2. session' = session /\ stored' = stored /\ remote' = remote
  BY DEF server
<1>3. \A t \in Tid : session[t].got \in Nat
  BY <1>1 DEF TypeOK
<1>4. PacketInv'
  BY <1>1, <1>2, <1>3, PacketsKept DEF IInv
<1>5. SessionInv'
  BY <1>1, <1>2, <1>3 DEF IInv, SessionInv
<1>6. StoredIsPrefix' /\ OneOwner'
  BY <1>2 DEF IInv, StoredIsPrefix, OneOwner, Owners
<1> QED BY <1>4, <1>5, <1>6 DEF IInv

\* The same for a step that leaves the position and the block number alone, and
\* does not report success.
LEMMA QuietStep ==
    ASSUME NEW sent, IInv, TypeOK', UNCHANGED <<expected, pos, server>>, Safe(sent),
           net' \subseteq net \cup sent, last' \in net \cup {last} \cup sent,
           \/ pc' = "failed"
           \/ pc = "start" /\ pc' \in {"requested", "refused"}
           \/ pc \in {"requested", "sending"} /\ pc' = "sending"
    PROVE  IInv'
<1>1. ClientInv' /\ DoneMeansStored'
  BY DEF IInv, ClientInv, DoneMeansStored
<1>2. pos <= pos'
  BY DEF IInv, TypeOK
<1> QED BY <1>1, <1>2, ClientStep

\* The step that sends the next chunk, whether or not it then fails.
LEMMA SendNextStep ==
    ASSUME IInv, TypeOK', NEW p \in net, Arrives(p, "ACK"), p.block = expected, ~Short(pos),
           UNCHANGED server, expected' = NextBlock(expected), pos' = pos + 1,
           pc' \in {pc, "failed"},
           last' = NextPacket(p), Receive(p, {NextPacket(p)})
    PROVE  IInv'
<1>1. pc = "sending" /\ p.op = "ACK" /\ Fresh(p.chunk) /\ TypeOK
  BY DEF Arrives, IInv
<1>2. p.tid \in Tid /\ pos <= session[p.tid].got
  BY <1>1, ExpectedAck
<1>3. pos \in Nat /\ pos + 1 \in Chunks /\ session' = session
  BY <1>1, <1>2, NextData DEF TypeOK, server
<1>4. NextBlock(expected) = (pos + 1) % BlockMod
  <2>1. NextBlock(expected) = ((pos % BlockMod) + 1) % BlockMod
    BY <1>1 DEF IInv, ClientInv, NextBlock
  <2> QED BY <1>3, <2>1, NextBlockOfChunk, WireAssumption
<1>5. Safe({NextPacket(p)})
  <2>1. session[p.tid].got \in Nat
    BY <1>1, <1>2 DEF TypeOK
  <2>2. /\ NextPacket(p).op = "DATA" /\ NextPacket(p).tid = p.tid
        /\ NextPacket(p).chunk = pos + 1
        /\ NextPacket(p).block = (pos + 1) % BlockMod
    BY <1>4 DEF NextPacket
  <2>3. pos' = pos + 1 /\ session'[p.tid].got = session[p.tid].got
    BY <1>3
  <2> QED BY <1>2, <1>3, <2>1, <2>2, <2>3 DEF Safe, BlocksMatch, NotAhead
<1>6. net' \subseteq net \cup {NextPacket(p)}
  BY <1>1, ReceiveEffect DEF TypeOK, NetTypeOK
<1>7. ClientInv' /\ DoneMeansStored'
  BY <1>1, <1>4 DEF ClientInv, DoneMeansStored
<1> QED BY <1>3, <1>5, <1>6, <1>7, ClientStep

\* A step of the server or the network: the client stays as it is, no session
\* counts backwards, and the file and the sessions must fit again.
LEMMA ServerStep ==
    ASSUME NEW sent, IInv, TypeOK', UNCHANGED client, Safe(sent),
           net' \subseteq net \cup sent,
           \A t \in Tid : session[t].got <= session'[t].got,
           SessionInv', OneOwner', StoredIsPrefix',
           pc = "done" => /\ remote' = "upload" /\ Len(stored') = NChunks
                          /\ \E t \in Tid : session'[t].st = "finished"
    PROVE  IInv'
<1>1. TypeOK /\ pos \in Nat
  BY DEF IInv, TypeOK
<1>2. PacketInv'
  BY <1>1, PacketsKept DEF IInv, client
<1>3. ClientInv' /\ DoneMeansStored'
  BY DEF IInv, ClientInv, DoneMeansStored, client
<1> QED BY <1>2, <1>3 DEF IInv

\* A step that keeps file and sessions: all that remains are the packets.
LEMMA NetworkStep ==
    ASSUME NEW sent, IInv, TypeOK', UNCHANGED <<client, server>>, Safe(sent),
           net' \subseteq net \cup sent
    PROVE  IInv'
<1>1. /\ session' = session /\ stored' = stored /\ remote' = remote
      /\ pos' = pos /\ pc' = pc
  BY DEF server, client
<1>2. SessionInv' /\ OneOwner' /\ StoredIsPrefix'
  BY <1>1 DEF IInv, SessionInv, OneOwner, Owners, StoredIsPrefix
<1>3. \A t \in Tid : session[t].got <= session'[t].got
  BY <1>1 DEF IInv, TypeOK
<1>4. pc = "done" => /\ remote' = "upload" /\ Len(stored') = NChunks
                     /\ \E t \in Tid : session'[t].st = "finished"
  BY <1>1 DEF IInv, DoneMeansStored, ClientInv
<1> QED BY <1>2, <1>3, <1>4, ServerStep

\* A file of the first chunks stays one when the next chunk is appended.
LEMMA PrefixGrows ==
    ASSUME stored \in Seq(Chunks), StoredIsPrefix, NEW k, k = Len(stored) + 1,
           k <= NChunks, stored' = Append(stored, k)
    PROVE  Len(stored') = Len(stored) + 1 /\ StoredIsPrefix'
<1>1. Len(stored) \in Nat /\ Len(stored') = Len(stored) + 1
  OBVIOUS
<1>2. stored = [i \in 1..Len(stored) |-> i]
  BY DEF StoredIsPrefix
<1>3. stored' = [i \in 1..(Len(stored) + 1) |-> i]
  BY <1>1, <1>2
<1> QED BY <1>1, <1>3, WireAssumption DEF StoredIsPrefix

LEMMA IInvInit == Init => IInv
<1> SUFFICES ASSUME Init PROVE IInv
  OBVIOUS
<1>1. TypeOK
  BY TypeInit
<1>2. StoredIsPrefix /\ DoneMeansStored /\ OneOwner /\ ClientInv /\ SessionInv
  BY WireAssumption DEF Init, StoredIsPrefix, DoneMeansStored, OneOwner, Owners,
     ClientInv, SessionInv
<1>3. PacketInv
  BY DEF Init, NetInit, PacketInv, BlocksMatch, NotAhead, Request
<1> QED BY <1>1, <1>2, <1>3 DEF IInv

LEMMA IInvStep == IInv /\ [Next]_vars => IInv'
<1> SUFFICES ASSUME IInv, [Next]_vars PROVE IInv'
  OBVIOUS
<1>1. TypeOK /\ TypeOK' /\ SessionInv
  BY TypeStep DEF IInv
<1>2. Safe({}) /\ Safe({Request}) /\ Safe({ErrorPkt})
  BY DEF Safe, BlocksMatch, NotAhead, Request, ErrorPkt
<1>3. pos' = pos /\ session' = session => Safe({last})
  BY DEF Safe, IInv, PacketInv, NotAhead
<1>4. CASE SendRequest
  <2>1. net' \subseteq net \cup {Request} /\ last' = last
    BY <1>4 DEF SendRequest, Send
  <2> QED BY <1>1, <1>2, <1>4, <2>1, QuietStep DEF SendRequest
<1>5. CASE RequestFails
  BY <1>1, <1>2, <1>5, QuietStep DEF RequestFails
<1>6. CASE OpenLocal
  BY <1>1, <1>2, <1>6, QuietStep DEF OpenLocal
<1>7. CASE Timeout
  <2>1. net' \subseteq net \cup {last} /\ UNCHANGED <<pc, expected, pos, last, server>>
        /\ pc = "sending"
    BY <1>7 DEF Timeout, Send
  <2>2. Safe({last})
    BY <1>3, <2>1 DEF server
  <2> QED BY <1>1, <2>1, <2>2, QuietStep
<1>8. CASE GiveUp \/ SocketFails
  BY <1>1, <1>2, <1>8, QuietStep DEF GiveUp, SocketFails
<1>9. ASSUME NEW p \in net, RecvAckNext(p) PROVE IInv'
  BY <1>1, <1>9, SendNextStep DEF RecvAckNext, Arrives
<1>10. ASSUME NEW p \in net, RecvFinalAck(p) PROVE IInv'
  <2>1. /\ pc = "sending" /\ p.op = "ACK" /\ Fresh(p.chunk) /\ p.block = expected
        /\ pos = NChunks /\ pc' = "done" /\ UNCHANGED <<expected, pos, last, server>>
    BY <1>10 DEF RecvFinalAck, Arrives, Short
  <2>2. p.tid \in Tid /\ NChunks <= session[p.tid].got
    BY <2>1, ExpectedAck
  <2>3. session[p.tid].st = "finished" /\ Len(stored) = NChunks
    <3>1. /\ session[p.tid].st \in {"free", "open", "finished", "dropped", "cleaned"}
          /\ session[p.tid].got = NChunks /\ NChunks \in Nat \ {0}
      BY <1>1, <2>2, WireAssumption DEF TypeOK
    <3>2. session[p.tid].st \notin {"free", "open", "dropped", "cleaned"}
      BY <1>1, <2>2, <3>1 DEF SessionInv
    <3> QED BY <1>1, <2>2, <3>1, <3>2 DEF SessionInv
  <2>4. remote = "upload"
    BY <2>2, <2>3 DEF IInv, OneOwner, Owners
  <2>5. ClientInv' /\ DoneMeansStored'
    BY <2>1, <2>2, <2>3, <2>4 DEF IInv, ClientInv, DoneMeansStored, server
  <2>6. net' \subseteq net \cup {} /\ pos <= pos'
    BY <1>1, <1>10, <2>1, ReceiveEffect DEF RecvFinalAck, TypeOK, NetTypeOK
  <2> QED BY <1>1, <1>2, <2>1, <2>5, <2>6, ClientStep
<1>11. ASSUME NEW p \in net, RecvDuplicate(p) PROVE IInv'
  <2>1. /\ net' \subseteq net \cup {last} /\ UNCHANGED <<pc, expected, pos, last, server>>
        /\ pc = "sending"
    BY <1>1, <1>11, ReceiveEffect DEF RecvDuplicate, Arrives, TypeOK, NetTypeOK
  <2>2. Safe({last})
    BY <1>3, <2>1 DEF server
  <2> QED BY <1>1, <2>1, <2>2, QuietStep
<1>12. ASSUME NEW p \in net, RecvStale(p) \/ RecvError(p) PROVE IInv'
  <2>1. /\ net' \subseteq net \cup {} /\ UNCHANGED <<expected, pos, last, server>>
        /\ pc = "sending" /\ pc' \in {"sending", "failed"}
    BY <1>1, <1>12, ReceiveEffect DEF RecvStale, RecvError, Arrives, TypeOK, NetTypeOK
  <2> QED BY <1>1, <1>2, <2>1, QuietStep
<1>13. ASSUME NEW p \in net, RecvFaults(p) PROVE IInv'
  <2>1. /\ Arrives(p, "ACK") /\ p.block = expected /\ pc' = "failed" /\ UNCHANGED server
    BY <1>13 DEF RecvFaults
  <2>2. CASE Receive(p, {}) /\ UNCHANGED <<last, expected, pos>>
    <3>1. net' \subseteq net \cup {}
      BY <1>1, <2>2, ReceiveEffect DEF TypeOK, NetTypeOK
    <3> QED BY <1>1, <1>2, <2>1, <2>2, <3>1, QuietStep
  <2>3. CASE /\ ~Short(pos) /\ expected' = NextBlock(expected) /\ pos' = pos + 1
             /\ last' = NextPacket(p) /\ Receive(p, {NextPacket(p)})
    BY <1>1, <2>1, <2>3, SendNextStep
  <2> QED BY <1>13, <2>2, <2>3 DEF RecvFaults
<1>14. CASE RefuseRequest
  <2>1. net' \subseteq net \cup {ErrorPkt} /\ UNCHANGED <<client, server>>
    BY <1>1, <1>14, ReceiveEffect DEF RefuseRequest, TypeOK, NetTypeOK
  <2> QED BY <1>1, <1>2, <2>1, NetworkStep
<1>15. CASE Lose \/ UNCHANGED vars
  <2>1. net' \subseteq net \cup {} /\ UNCHANGED <<client, server>>
    BY <1>15 DEF Lose, LoseOne, vars
  <2> QED BY <1>1, <1>2, <2>1, NetworkStep
<1>16. ASSUME NEW t \in Tid, OpenSession(t) PROVE IInv'
  <2>1. /\ net' \subseteq net \cup {Ack(t, 0)} /\ UNCHANGED client
        /\ remote = "absent" /\ remote' = "upload" /\ stored' = <<>>
        /\ session[t].st = "free"
        /\ session' = [session EXCEPT ![t].st = "open"]
    BY <1>1, <1>16, ReceiveEffect DEF OpenSession, TypeOK, NetTypeOK
  <2>2. \A u \in Tid : /\ session'[u].got = session[u].got
                       /\ session'[u].st = IF u = t THEN "open" ELSE session[u].st
    BY <1>1, <2>1 DEF TypeOK
  <2>3. \A u \in Tid : session[u].st \notin {"open", "finished", "dropped"}
    BY <2>1 DEF IInv, OneOwner, Owners
  <2>4. OneOwner'
    BY <2>1, <2>2, <2>3 DEF OneOwner, Owners
  <2>5. session[t].got = 0 /\ pos' = pos /\ pc' = pc
    BY <1>1, <2>1 DEF SessionInv, client
  <2>6. SessionInv'
    BY <1>1, <2>1, <2>2, <2>3, <2>5, WireAssumption DEF SessionInv
  <2>7. Safe({Ack(t, 0)})
    <3>1. /\ Ack(t, 0).op = "ACK" /\ Ack(t, 0).tid = t /\ Ack(t, 0).chunk = 0
          /\ Ack(t, 0).block = 0 % BlockMod
      BY DEF Ack
    <3> QED BY <2>2, <2>5, <3>1 DEF Safe, BlocksMatch, NotAhead
  <2>8. StoredIsPrefix' /\ pc # "done"
    BY <2>1, WireAssumption DEF StoredIsPrefix, IInv, DoneMeansStored
  <2>9. \A u \in Tid : session[u].got <= session'[u].got
    BY <1>1, <2>2 DEF TypeOK
  <2> QED BY <1>1, <2>1, <2>4, <2>6, <2>7, <2>8, <2>9, ServerStep
<1>17. ASSUME NEW t \in Tid, Resend(t) PROVE IInv'
  <2> DEFINE g == session[t].got
  <2>1. /\ net' \subseteq net \cup {Ack(t, g)} /\ UNCHANGED <<client, remote, stored>>
        /\ session' = [session EXCEPT ![t].resends = @ + 1]
    BY <1>17 DEF Resend, Send
  <2>2. \A u \in Tid : session'[u].got = session[u].got /\ session'[u].st = session[u].st
    BY <1>1, <2>1 DEF TypeOK
  <2>3. pos' = pos /\ pc' = pc /\ g \in 0..NChunks
    BY <1>1, <2>1 DEF client, TypeOK
  <2>4. OneOwner' /\ SessionInv' /\ StoredIsPrefix'
    BY <1>1, <2>1, <2>2, <2>3
       DEF IInv, OneOwner, Owners, SessionInv, StoredIsPrefix
  <2>5. Safe({Ack(t, g)})
    <3>1. /\ Ack(t, g).op = "ACK" /\ Ack(t, g).tid = t /\ Ack(t, g).chunk = g
          /\ Ack(t, g).block = g % BlockMod
      BY DEF Ack
    <3> QED BY <2>2, <2>3, <3>1 DEF Safe, BlocksMatch, NotAhead
  <2>6. \A u \in Tid : session[u].got <= session'[u].got
    BY <1>1, <2>2 DEF TypeOK
  <2>7. pc = "done" => /\ remote' = "upload" /\ Len(stored') = NChunks
                       /\ \E u \in Tid : session'[u].st = "finished"
    BY <2>1, <2>2 DEF IInv, DoneMeansStored, ClientInv
  <2> QED BY <1>1, <2>1, <2>4, <2>5, <2>6, <2>7, ServerStep
<1>18. ASSUME NEW t \in Tid, Abandon(t) PROVE IInv'
  <2>1. /\ net' \subseteq net \cup {} /\ UNCHANGED <<client, remote, stored>>
        /\ session[t].st = "open"
        /\ session' = [session EXCEPT ![t].st = "dropped"]
    BY <1>18 DEF Abandon
  <2>2. \A u \in Tid : /\ session'[u].got = session[u].got
                       /\ session'[u].st = IF u = t THEN "dropped" ELSE session[u].st
    BY <1>1, <2>1 DEF TypeOK
  <2>3. pos' = pos /\ pc # "done"
    BY <2>1, DoneIsSettled DEF client
  <2>4. OneOwner' /\ SessionInv' /\ StoredIsPrefix'
    BY <1>1, <2>1, <2>2, <2>3
       DEF IInv, OneOwner, Owners, SessionInv, StoredIsPrefix
  <2>5. \A u \in Tid : session[u].got <= session'[u].got
    BY <1>1, <2>2 DEF TypeOK
  <2> QED BY <1>1, <1>2, <2>1, <2>3, <2>4, <2>5, ServerStep
<1>19. ASSUME NEW t \in Tid, Cleanup(t) PROVE IInv'
  <2>1. /\ net' \subseteq net \cup {} /\ UNCHANGED client
        /\ session[t].st = "dropped"
        /\ session' = [session EXCEPT ![t].st = "cleaned"]
        /\ \/ remote' = "absent" /\ stored' = <<>>
           \/ remote' = remote /\ stored' = stored
    BY <1>19, Zenon DEF Cleanup
  <2>2. \A u \in Tid : /\ session'[u].got = session[u].got
                       /\ session'[u].st = IF u = t THEN "cleaned" ELSE session[u].st
    BY <1>1, <2>1 DEF TypeOK
  <2>3. pos' = pos /\ pc # "done"
    BY <2>1, DoneIsSettled DEF client
  <2>4. \A u \in Tid \ {t} : session[u].st \notin {"open", "finished", "dropped"}
    BY <2>1 DEF IInv, OneOwner, Owners
  <2>5. \A u \in Tid : session'[u].st \notin {"open", "finished", "dropped"}
    BY <2>2, <2>4
  <2>6. OneOwner'
    BY <2>5 DEF OneOwner, Owners
  <2>7. SessionInv'
    <3>1. session[t].got < NChunks /\ session'[t].st = "cleaned"
      BY <1>1, <2>1, <2>2 DEF SessionInv
    <3>2. \A u \in Tid \ {t} : session'[u].st = session[u].st
      BY <2>2
    <3> QED BY <1>1, <2>2, <2>3, <2>5, <3>1, <3>2 DEF SessionInv
  <2>8. StoredIsPrefix'
    <3>1. CASE stored' = <<>>
      BY <3>1, WireAssumption DEF StoredIsPrefix
    <3>2. CASE stored' = stored
      BY <3>2 DEF IInv, StoredIsPrefix
    <3> QED BY <2>1, <3>1, <3>2
  <2>9. \A u \in Tid : session[u].got <= session'[u].got
    BY <1>1, <2>2 DEF TypeOK
  <2> QED BY <1>1, <1>2, <2>1, <2>3, <2>6, <2>7, <2>8, <2>9, ServerStep
<1>20. ASSUME NEW p \in net, RecvData(p) PROVE IInv'
  <2> DEFINE t == p.tid
             g == session[t].got
  <2>1. IsNextData(p) /\ UNCHANGED <<client, remote>> /\ stored' = Append(stored, p.chunk)
        /\ net' \subseteq net \cup {Ack(t, g + 1)}
    BY <1>1, <1>20, ReceiveEffect DEF RecvData, TypeOK, NetTypeOK
  <2>2. /\ t \in Tid /\ p.chunk = g + 1 /\ g = Len(stored) /\ g + 1 <= pos
        /\ g + 1 <= NChunks /\ remote = "upload" /\ g \in Nat
    BY <1>1, <2>1, NextDataChunk DEF TypeOK
  <2>3. \A u \in Tid : session[u].st \in {"open", "finished", "dropped"} => u = t
    BY <2>1, NextDataChunk
  <2>4. session[t].st = "open" /\ pos' = pos
    BY <2>1 DEF IsNextData, client
  <2>5. pc # "done"
    BY <2>2, <2>4, DoneIsSettled
  <2>6. session' = [session EXCEPT
            ![t] = [st |-> IF g + 1 = NChunks THEN "finished" ELSE "open",
                    got |-> g + 1, resends |-> 0]]
    BY <1>20, <2>2 DEF RecvData, Short
  <2>7. \A u \in Tid :
          /\ session'[u].got = IF u = t THEN g + 1 ELSE session[u].got
          /\ session'[u].st = IF u = t THEN IF g + 1 = NChunks THEN "finished" ELSE "open"
                                       ELSE session[u].st
    BY <1>1, <2>2, <2>6 DEF TypeOK
  <2>8. Len(stored') = g + 1 /\ StoredIsPrefix'
    BY <1>1, <2>1, <2>2, PrefixGrows DEF TypeOK, IInv
  <2>9. OneOwner'
    BY <2>1, <2>2, <2>3, <2>7 DEF OneOwner, Owners
  <2>10. SessionInv'
    BY <1>1, <2>2, <2>3, <2>4, <2>7, <2>8, WireAssumption DEF SessionInv, TypeOK
  <2>11. Safe({Ack(t, g + 1)})
    <3>1. /\ Ack(t, g + 1).op = "ACK" /\ Ack(t, g + 1).tid = t
          /\ Ack(t, g + 1).chunk = g + 1
          /\ Ack(t, g + 1).block = (g + 1) % BlockMod
      BY DEF Ack
    <3> QED BY <2>2, <2>7, <3>1 DEF Safe, BlocksMatch, NotAhead
  <2>12. \A u \in Tid : session[u].got <= session'[u].got
    <3>1. \A u \in Tid : session[u].got \in Nat
      BY <1>1 DEF TypeOK
    <3> QED BY <2>2, <2>7, <3>1
  <2> QED BY <1>1, <2>1, <2>5, <2>8, <2>9, <2>10, <2>11, <2>12, ServerStep
<1>21. ASSUME NEW p \in net, WriteFaults(p) PROVE IInv'
  <2> DEFINE t == p.tid
             g == session[t].got
  <2>1. /\ IsNextData(p) /\ UNCHANGED <<client, remote>> /\ net' \subseteq net \cup {}
        /\ stored' \in {stored, Append(stored, p.chunk)}
        /\ session' = [session EXCEPT ![t].st = "dropped"]
    BY <1>1, <1>21, ReceiveEffect DEF WriteFaults, TypeOK, NetTypeOK
  <2>2. /\ t \in Tid /\ p.chunk = g + 1 /\ g = Len(stored) /\ g + 1 <= pos
        /\ g + 1 <= NChunks /\ remote = "upload" /\ g \in Nat
    BY <1>1, <2>1, NextDataChunk DEF TypeOK
  <2>3. \A u \in Tid : session[u].st \in {"open", "finished", "dropped"} => u = t
    BY <2>1, NextDataChunk
  <2>4. session[t].st = "open" /\ pos' = pos
    BY <2>1 DEF IsNextData, client
  <2>5. pc # "done"
    BY <2>2, <2>4, DoneIsSettled
  <2>6. \A u \in Tid : /\ session'[u].got = session[u].got
                       /\ session'[u].st = IF u = t THEN "dropped" ELSE session[u].st
    BY <1>1, <2>1, <2>2 DEF TypeOK
  <2>7. StoredIsPrefix'
    BY <1>1, <2>1, <2>2, PrefixGrows DEF TypeOK, IInv, StoredIsPrefix
  <2>8. OneOwner'
    BY <2>1, <2>2, <2>3, <2>6 DEF OneOwner, Owners
  <2>9. SessionInv'
    BY <1>1, <2>2, <2>3, <2>4, <2>6 DEF SessionInv
  <2>10. \A u \in Tid : session[u].got <= session'[u].got
    BY <1>1, <2>6 DEF TypeOK
  <2> QED BY <1>1, <1>2, <2>1, <2>5, <2>7, <2>8, <2>9, <2>10, ServerStep
<1> QED
  BY <1>4, <1>5, <1>6, <1>7, <1>8, <1>9, <1>10, <1>11, <1>12, <1>13, <1>14, <1>15,
     <1>16, <1>17, <1>18, <1>19, <1>20, <1>21 DEF Next, Client, Server

-----------------------------------------------------------------------------
\* The inductive invariant holds in every reachable state: it relates packets,
\* sessions, the remote file and the client (tftp_client.py:95-164,
\* tftp_server.py:63-93).
THEOREM InvariantCorrect == Spec => []IInv
BY IInvInit, IInvStep, PTL DEF Spec

\* Every variable keeps its type (the state of tftp_client.py:95-164).
THEOREM TypeCorrect == Spec => []TypeOK
<1>1. IInv => TypeOK
  BY DEF IInv
<1> QED BY <1>1, InvariantCorrect, PTL

\* The remote file holds the first chunks of the source, each once and in order
\* (tftp_client.py:130-154).
THEOREM PrefixCorrect == Spec => []StoredIsPrefix
<1>1. IInv => StoredIsPrefix
  BY DEF IInv
<1> QED BY <1>1, InvariantCorrect, PTL

\* An upload reported as complete is stored whole (tftp_client.py:131-135).
THEOREM DoneCorrect == Spec => []DoneMeansStored
<1>1. IInv => DoneMeansStored
  BY DEF IInv
<1> QED BY <1>1, InvariantCorrect, PTL

\* One session at most may still write or unlink the remote file
\* (tftp_server.py:82-93).
THEOREM OneOwnerCorrect == Spec => []OneOwner
<1>1. IInv => OneOwner
  BY DEF IInv
<1> QED BY <1>1, InvariantCorrect, PTL

\* However often the block counter has wrapped, the expected block number picks
\* out the acknowledgement of the last chunk (tftp_client.py:130, 137).
THEOREM ExpectedCorrect == Spec => []ExpectedIsLastSent
<1>1. IInv => ExpectedIsLastSent
  BY ExpectedAck DEF ExpectedIsLastSent
<1> QED BY <1>1, InvariantCorrect, PTL

-----------------------------------------------------------------------------
\* The upload implements the abstract transfer.

LEMMA TransferInit == Init => Transfer!Init
BY DEF Init, Transfer!Init, Outcome, Running

\* What is stored and the outcome as they are: a stutter.
LEMMA TransferStutter ==
    ASSUME stored' = stored, Outcome' = Outcome
    PROVE  [Transfer!Next]_(Transfer!avars)
BY DEF Transfer!avars

LEMMA TransferAbort ==
    ASSUME Running, pc' = "failed" \/ pc' = "refused", stored' = stored
    PROVE  Transfer!Next
BY DEF Transfer!Next, Transfer!Abort, Outcome, Running

LEMMA TransferStep == IInv /\ [Next]_vars => [Transfer!Next]_(Transfer!avars)
<1> SUFFICES ASSUME IInv, [Next]_vars PROVE [Transfer!Next]_(Transfer!avars)
  OBVIOUS
<1>1. IInv' /\ TypeOK
  BY IInvStep DEF IInv
<1>2. CASE UNCHANGED server /\ Outcome' = Outcome
  BY <1>2, TransferStutter DEF server
<1>3. CASE UNCHANGED server /\ Running /\ pc' \in {"failed", "refused"}
  BY <1>3, TransferAbort DEF server
<1>4. CASE SendRequest \/ Timeout
  BY <1>2, <1>4 DEF SendRequest, Timeout, Outcome, Running
<1>5. CASE RequestFails \/ GiveUp \/ SocketFails
  BY <1>3, <1>5 DEF RequestFails, GiveUp, SocketFails, Running
<1>6. CASE OpenLocal
  BY <1>2, <1>3, <1>6 DEF OpenLocal, Outcome, Running
<1>7. ASSUME NEW p \in net, RecvAckNext(p) \/ RecvDuplicate(p) \/ RecvStale(p)
      PROVE [Transfer!Next]_(Transfer!avars)
  <2>1. UNCHANGED <<pc, server>>
    BY <1>7 DEF RecvAckNext, RecvDuplicate, RecvStale
  <2> QED BY <1>2, <2>1 DEF Outcome, Running
<1>8. ASSUME NEW p \in net, RecvError(p) \/ RecvFaults(p)
      PROVE [Transfer!Next]_(Transfer!avars)
  <2>1. UNCHANGED server /\ pc = "sending" /\ pc' = "failed"
    BY <1>8 DEF RecvError, RecvFaults, Arrives
  <2> QED BY <1>3, <2>1 DEF Running
<1>9. ASSUME NEW p \in net, RecvFinalAck(p) PROVE Transfer!Next
  <2>1. pc = "sending" /\ pc' = "done" /\ stored' = stored
    BY <1>9 DEF RecvFinalAck, Arrives, server
  <2>2. Len(stored) = NChunks
    BY <1>1, <2>1 DEF IInv, DoneMeansStored
  <2> QED BY <2>1, <2>2 DEF Outcome, Running, Transfer!Next, Transfer!Finish
<1>10. ASSUME NEW t \in Tid, Resend(t) \/ Abandon(t)
      PROVE [Transfer!Next]_(Transfer!avars)
  <2>1. stored' = stored /\ pc' = pc
    BY <1>10 DEF Resend, Abandon, client
  <2> QED BY <2>1, TransferStutter DEF Outcome, Running
<1>11. ASSUME NEW t \in Tid, OpenSession(t) PROVE Transfer!Next
  <2>1. pc # "done" /\ pc' = pc /\ stored' = <<>>
    BY <1>11 DEF OpenSession, client, IInv, DoneMeansStored
  <2> QED BY <2>1 DEF Outcome, Running, Transfer!Next, Transfer!Discard
<1>12. ASSUME NEW t \in Tid, Cleanup(t) PROVE [Transfer!Next]_(Transfer!avars)
  <2>1. session[t].st = "dropped" /\ pc' = pc /\ stored' \in {stored, <<>>}
    BY <1>12, Zenon DEF Cleanup, client
  <2>2. pc # "done"
    BY <2>1, DoneIsSettled
  <2>3. CASE stored' = stored
    BY <2>1, <2>3, TransferStutter DEF Outcome, Running
  <2>4. CASE stored' = <<>>
    BY <2>1, <2>2, <2>4 DEF Outcome, Running, Transfer!Next, Transfer!Discard
  <2> QED BY <2>1, <2>3, <2>4
<1>13. ASSUME NEW p \in net, RecvData(p) \/ WriteFaults(p)
      PROVE [Transfer!Next]_(Transfer!avars)
  <2>1. IsNextData(p) /\ pc' = pc /\ stored' \in {stored, Append(stored, p.chunk)}
    BY <1>13 DEF RecvData, WriteFaults, client
  <2>2. /\ p.chunk = Len(stored) + 1 /\ p.chunk <= NChunks
        /\ p.tid \in Tid /\ session[p.tid].st = "open" /\ Len(stored) \in Nat
    BY <1>1, <2>1, NextDataChunk DEF IsNextData, TypeOK
  <2>3. pc # "done"
    BY <2>2, DoneIsSettled
  <2>4. CASE stored' = stored
    BY <2>1, <2>4, TransferStutter DEF Outcome, Running
  <2>5. CASE stored' = Append(stored, Len(stored) + 1)
    <3>1. Len(stored) < NChunks /\ Outcome' = Outcome /\ Outcome # "done"
      BY <2>1, <2>2, <2>3, WireAssumption DEF Outcome, Running
    <3> QED BY <2>5, <3>1 DEF Transfer!Next, Transfer!Deliver
  <2> QED BY <2>1, <2>2, <2>4, <2>5
<1>14. CASE RefuseRequest \/ Lose \/ UNCHANGED vars
  <2>1. UNCHANGED <<client, server>>
    BY <1>14 DEF RefuseRequest, Lose, vars
  <2> QED BY <1>2, <2>1 DEF client, Outcome, Running
<1> QED
  BY <1>4, <1>5, <1>6, <1>7, <1>8, <1>9, <1>10, <1>11, <1>12, <1>13, <1>14
     DEF Next, Client, Server

\* Every behaviour of the upload, the server's sessions and finalizers included,
\* is a behaviour of FileTransfer: what was reported as stored stays stored
\* (tftp_client.py:95-164, tftp_server.py:63-93).
THEOREM PutImplementsTransfer == Spec => TransferSpec
BY InvariantCorrect, TransferInit, TransferStep, PTL
   DEF Spec, TransferSpec, Transfer!Spec
=============================================================================

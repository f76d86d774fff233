--------------------------- MODULE TftpGetProofs ---------------------------
EXTENDS TftpGet, TLAPS

\* Two numbers with the same residue that are less than a whole modulus apart
\* are equal: a block number identifies its chunk inside the window.
LEMMA ResidueUnique ==
    ASSUME NEW m \in Nat \ {0}, NEW a \in Nat, NEW b \in Nat,
           a % m = b % m, a - b < m, b - a < m
    PROVE  a = b
<1> DEFINE q == a \div m
           r == b \div m
<1>1. /\ q \in Int /\ r \in Int
      /\ a = (m * q) + (a % m)
      /\ b = (m * r) + (b % m)
  OBVIOUS
<1>2. a - b = m * (q - r)
  BY <1>1
<1>3. CASE q = r
  BY <1>1, <1>3
<1>4. CASE q - r >= 1
  <2>1. m * (q - r) >= m
    BY <1>1, <1>4
  <2> QED BY <1>2, <2>1
<1>5. CASE r - q >= 1
  <2>1. m * (r - q) >= m
    BY <1>1, <1>5
  <2>2. b - a = m * (r - q)
    BY <1>1
  <2> QED BY <2>1, <2>2
<1> QED BY <1>1, <1>3, <1>4, <1>5

\* Adding one to a block number gives the block number of the next chunk.
LEMMA NextBlockOfChunk ==
    ASSUME NEW m \in Nat \ {0}, NEW k \in Nat
    PROVE  ((k % m) + 1) % m = (k + 1) % m
<1> DEFINE r == k % m
           q == k \div m
           u == (r + 1) \div m
           v == (k + 1) \div m
           x == (r + 1) % m
           y == (k + 1) % m
           w == (q + u) - v
<1>1. q \in Int /\ r \in 0..(m - 1) /\ k = (m * q) + r
  OBVIOUS
<1>2. u \in Int /\ x \in 0..(m - 1) /\ r + 1 = (m * u) + x
  BY <1>1
<1>3. v \in Int /\ y \in 0..(m - 1) /\ k + 1 = (m * v) + y
  OBVIOUS
<1> HIDE DEF q, r, u, v, x, y
<1>4. y - x = m * w
  BY <1>1, <1>2, <1>3
<1>5. w \in Int /\ y - x < m /\ x - y < m /\ x \in Int /\ y \in Int
  BY <1>1, <1>2, <1>3
<1> HIDE DEF w
<1>6. CASE w = 0
  <2>1. y = x
    BY <1>4, <1>5, <1>6
  <2> QED BY <2>1 DEF x, y, r
<1>7. CASE w >= 1
  <2>1. m * w >= m
    BY <1>5, <1>7
  <2> QED BY <1>4, <1>5, <2>1
<1>8. CASE w <= -1
  <2>1. m * w <= -m
    BY <1>5, <1>8
  <2> QED BY <1>4, <1>5, <2>1
<1> QED BY <1>5, <1>6, <1>7, <1>8

LEMMA NextBlockType ==
    ASSUME NEW b \in Blocks
    PROVE  NextBlock(b) \in Blocks
BY WireAssumption DEF NextBlock, Blocks

LEMMA DataType ==
    ASSUME NEW t \in Tid, NEW k \in Chunks
    PROVE  /\ Data(t, k) \in Packet
           /\ Data(t, k).op = "DATA"
           /\ Data(t, k).block = k % BlockMod
           /\ Data(t, k).chunk = k
<1>1. k % BlockMod \in Blocks
  BY WireAssumption DEF Chunks, Blocks
<1> QED BY <1>1 DEF Data, DataPkt, Packet

LEMMA PacketTypes ==
    ASSUME NEW p \in Packet
    PROVE  /\ p.op = "DATA" => p \in DataPkt
           /\ p.op = "ACK" => p \in AckPkt
           /\ p.op \in {"DATA", "ACK"} =>
                 p.tid \in Tid /\ p.block \in Blocks /\ p.chunk \in 0..NChunks
<1>1. p.op = "DATA" => p \in DataPkt
  BY DEF Packet, DataPkt, AckPkt, Request, ErrorPkt
<1>2. p.op = "ACK" => p \in AckPkt
  BY DEF Packet, DataPkt, AckPkt, Request, ErrorPkt
<1> QED BY <1>1, <1>2 DEF DataPkt, AckPkt, Chunks

LEMMA ReceiveEffect ==
    ASSUME NEW p, NEW sent, Receive(p, sent), dups \in 0..MaxDups
    PROVE  net' \subseteq net \cup sent /\ dups' \in 0..MaxDups
BY WireAssumption DEF Receive

-----------------------------------------------------------------------------
\* What the acknowledgement of a DATA packet is.
LEMMA AckOfType ==
    ASSUME NEW p \in Packet, p.op = "DATA"
    PROVE  /\ p.chunk \in Chunks
           /\ AckOf(p) \in Packet
           /\ AckOf(p).op = "ACK"
           /\ AckOf(p).block = p.block
           /\ AckOf(p).chunk = p.chunk
<1>1. p \in DataPkt
  BY PacketTypes
<1> QED BY <1>1 DEF DataPkt, AckPkt, AckOf, Packet, Chunks

\* What the except clause leaves.
LEMMA FailTypes ==
    ASSUME NEW written \in Seq(Chunks), Fail(written)
    PROVE  pc' = "failed" /\ present' \in BOOLEAN /\ file' \in Seq(Chunks)
<1>1. pc' = "failed" /\ present' \in BOOLEAN
  BY Zenon DEF Fail
<1>2. file' \in {<<>>, written}
  BY Zenon DEF Fail
<1>3. <<>> \in Seq(Chunks)
  OBVIOUS
<1> QED BY <1>1, <1>2, <1>3

-----------------------------------------------------------------------------
LEMMA TypeInit == Init => TypeOK
BY GetAssumption, WireAssumption
   DEF Init, NetInit, TypeOK, NetTypeOK, Packet, Blocks, Chunks

LEMMA TypeStep == TypeOK /\ [Next]_vars => TypeOK'
<1> USE GetAssumption, WireAssumption DEF TypeOK, NetTypeOK
<1> SUFFICES ASSUME TypeOK, [Next]_vars PROVE TypeOK'
  OBVIOUS
<1>1. CASE SendRequest  BY <1>1 DEF SendRequest, Send, Packet
<1>2. CASE RequestFails  BY <1>2 DEF RequestFails
<1>3. CASE OpenLocal  BY <1>3 DEF OpenLocal
<1>4. CASE OpenFails  BY <1>4, FailTypes DEF OpenFails
<1>5. CASE Timeout  BY <1>5 DEF Timeout, Send
<1>6. CASE GiveUp \/ SocketFails  BY <1>6, FailTypes DEF GiveUp, SocketFails
<1>7. ASSUME NEW p \in net, RecvNext(p) PROVE TypeOK'
  <2>1. p.op = "DATA" /\ p \in Packet /\ Receive(p, {AckOf(p)})
    BY <1>7 DEF RecvNext, Arrives
  <2>2. AckOf(p) \in Packet
    BY <2>1, AckOfType
  <2>3. p.chunk \in Chunks
    BY <2>1, AckOfType
  <2>4. net' \subseteq Packet /\ dups' \in 0..MaxDups
    BY <2>1, <2>2, ReceiveEffect
  <2>5. NextBlock(expected) \in Blocks
    BY NextBlockType
  <2>6. Append(file, p.chunk) \in Seq(Chunks)
    BY <2>3
  <2> QED BY <1>7, <2>2, <2>4, <2>5, <2>6 DEF RecvNext, Arrives
<1>8. ASSUME NEW p \in net, RecvDuplicate(p) PROVE TypeOK'
  <2>1. p.op = "DATA" /\ p \in Packet /\ Receive(p, {AckOf(p)})
    BY <1>8 DEF RecvDuplicate, Arrives
  <2>2. net' \subseteq Packet /\ dups' \in 0..MaxDups
    BY <2>1, AckOfType, ReceiveEffect
  <2> QED BY <1>8, <2>2 DEF RecvDuplicate, Arrives
<1>9. ASSUME NEW p \in net, RecvStale(p) PROVE TypeOK'
  <2>1. net' \subseteq net /\ dups' \in 0..MaxDups
    BY <1>9, ReceiveEffect DEF RecvStale
  <2> QED BY <1>9, <2>1 DEF RecvStale, Arrives
<1>10. ASSUME NEW p \in net, RecvError(p) PROVE TypeOK'
  <2>1. net' \subseteq net /\ dups' \in 0..MaxDups
    BY <1>10, ReceiveEffect DEF RecvError
  <2> QED BY <1>10, <2>1, FailTypes DEF RecvError, Arrives
<1>11. ASSUME NEW p \in net, RecvFaults(p) PROVE TypeOK'
  <2>1. p.op = "DATA" /\ p \in Packet /\ retries' = 0 /\ UNCHANGED session
    BY <1>11 DEF RecvFaults, Arrives
  <2>5. PICK written \in {file, Append(file, p.chunk)} : Fail(written)
    BY <1>11 DEF RecvFaults
  <2>6. written \in Seq(Chunks)
    BY <2>1, AckOfType
  <2>2. AckOf(p) \in Packet
    BY <2>1, AckOfType
  <2>3. net' \subseteq Packet /\ dups' \in 0..MaxDups
    BY <1>11, <2>2, ReceiveEffect DEF RecvFaults
  <2>4. last' \in Packet /\ expected' \in Blocks
    BY <1>11, <2>2, NextBlockType DEF RecvFaults
  <2> QED BY <2>1, <2>3, <2>4, <2>5, <2>6, FailTypes
<1>12. ASSUME NEW t \in Tid, OpenSession(t) PROVE TypeOK'
  <2>1. 1 \in Chunks
    BY DEF Chunks
  <2>2. net' \subseteq Packet /\ dups' \in 0..MaxDups
    BY <1>12, <2>1, DataType, ReceiveEffect DEF OpenSession
  <2> QED BY <1>12, <2>2 DEF OpenSession, client
<1>13. ASSUME NEW t \in Tid, Resend(t) PROVE TypeOK'
  <2>1. session[t].chunk \in Chunks
    OBVIOUS
  <2>2. net' \subseteq Packet /\ dups' = dups
    BY <1>13, <2>1, DataType DEF Resend, Send
  <2> QED BY <1>13, <2>2 DEF Resend, client
<1>14. ASSUME NEW t \in Tid, Abandon(t) PROVE TypeOK'
  BY <1>14 DEF Abandon, client
<1>15. CASE RefuseRequest
  <2>1. net' \subseteq Packet /\ dups' \in 0..MaxDups
    BY <1>15, ReceiveEffect DEF RefuseRequest, Packet
  <2> QED BY <1>15, <2>1 DEF RefuseRequest, client
<1>16. ASSUME NEW p \in net, RecvAck(p) PROVE TypeOK'
  <2>1. p.op = "ACK" /\ p \in Packet
    BY <1>16 DEF RecvAck
  <2>2. p.tid \in Tid
    BY <2>1, PacketTypes
  <2>3. CASE Short(session[p.tid].chunk)
    <3>1. net' \subseteq net /\ dups' \in 0..MaxDups
      BY <1>16, <2>3, ReceiveEffect DEF RecvAck
    <3> QED BY <1>16, <2>2, <2>3, <3>1 DEF RecvAck, client
  <2>4. CASE ~Short(session[p.tid].chunk)
    <3>1. session[p.tid].chunk + 1 \in Chunks
      BY <2>2, <2>4 DEF Chunks, Short
    <3>2. Data(p.tid, session[p.tid].chunk + 1) \in Packet
      BY <2>2, <3>1, DataType
    <3>3. net' \subseteq Packet /\ dups' \in 0..MaxDups
      BY <1>16, <2>4, <3>2, ReceiveEffect DEF RecvAck
    <3>4. /\ session' = [session EXCEPT ![p.tid].chunk = @ + 1, ![p.tid].resends = 0]
          /\ UNCHANGED client
      BY <1>16, <2>4 DEF RecvAck
    <3>5. session' \in [Tid -> [st : {"free", "open", "closed"},
                                chunk : Chunks, resends : 0..MaxResends]]
      BY <2>2, <3>1, <3>4
    <3> QED BY <3>3, <3>4, <3>5 DEF client
  <2> QED BY <2>3, <2>4
<1>17. CASE Lose
  BY <1>17 DEF Lose, LoseOne, client
<1>18. CASE UNCHANGED vars
  BY <1>18 DEF vars, client
<1> QED
  BY <1>1, <1>2, <1>3, <1>4, <1>5, <1>6, <1>7, <1>8, <1>9, <1>10, <1>11, <1>12,
     <1>13, <1>14, <1>15, <1>16, <1>17, <1>18 DEF Next, Client, Server

\* Every variable keeps its type (the state of tftp_client.py:23-89).
THEOREM TypeCorrect == Spec => []TypeOK
BY TypeInit, TypeStep, PTL DEF Spec

-----------------------------------------------------------------------------
\* The inductive step of IInv.  Safe(S) is what the packets of S must satisfy in
\* the next state.

Safe(S) == \A p \in S : BlocksMatch(p) /\ (pc' # "failed" => NotAhead(p)')

\* Packets that were acceptable stay so: the file only grows unless the transfer
\* fails.
LEMMA PacketsKept ==
    ASSUME NEW sent, PacketInv, Safe(sent),
           net' \subseteq net \cup sent, last' \in net \cup {last} \cup sent,
           pc = "failed" => pc' = "failed",
           file \in Seq(Chunks), file' \in Seq(Chunks),
           net \cup {last} \subseteq Packet,
           pc' # "failed" => Len(file) <= Len(file')
    PROVE  PacketInv'
<1> SUFFICES ASSUME NEW p \in net' \cup {last'}
             PROVE  BlocksMatch(p) /\ (pc' # "failed" => NotAhead(p)')
  BY DEF PacketInv, BlocksMatch
<1>1. CASE p \in sent
  BY <1>1 DEF Safe
<1>2. CASE p \in net \cup {last}
  <2>1. BlocksMatch(p) /\ (pc # "failed" => NotAhead(p))
    BY <1>2 DEF PacketInv
  <2>2. p.op \in {"DATA", "ACK"} => p.chunk \in Int
    BY <1>2, PacketTypes
  <2>3. Len(file) \in Nat /\ Len(file') \in Nat
    OBVIOUS
  <2> QED BY <2>1, <2>2, <2>3 DEF NotAhead
<1> QED BY <1>1, <1>2

\* While the download runs, an expected block number means the next chunk
\* (tftp_client.py:56), and no other DATA packet in the window carries it.
LEMMA ExpectedChunk ==
    ASSUME IInv, pc = "receiving", NEW p \in net, p.op = "DATA", Fresh(p.chunk)
    PROVE  /\ p.chunk \in Chunks
           /\ p.chunk <= Len(file) + 1
           /\ p.block = expected <=> p.chunk = Len(file) + 1
<1>1. p \in Packet
  BY DEF IInv, TypeOK, NetTypeOK
<1>2. p.chunk \in Chunks /\ p.chunk \in Nat /\ Len(file) \in Nat
  BY <1>1, AckOfType DEF Chunks, IInv, TypeOK, NetTypeOK
<1>3. /\ p.block = p.chunk % BlockMod
      /\ p.chunk <= Len(file) + 1
  BY DEF IInv, PacketInv, BlocksMatch, NotAhead
<1>4. expected = (Len(file) + 1) % BlockMod
  BY DEF IInv, ClientInv
<1>5. ASSUME p.block = expected PROVE p.chunk = Len(file) + 1
  <2>1. p.chunk % BlockMod = (Len(file) + 1) % BlockMod
    BY <1>3, <1>4, <1>5
  <2>2. /\ BlockMod \in Nat \ {0} /\ Len(file) + 1 \in Nat
        /\ p.chunk - (Len(file) + 1) < BlockMod
        /\ (Len(file) + 1) - p.chunk < BlockMod
    BY <1>2, <1>3, WireAssumption DEF Fresh
  <2> QED BY <1>2, <2>1, <2>2, ResidueUnique
<1> QED BY <1>2, <1>3, <1>4, <1>5

\* A step of server or network leaves the client as it is: only the packets and
\* the sessions need looking at.
LEMMA EnvironmentStep ==
    ASSUME NEW sent, IInv, TypeOK', UNCHANGED client, Safe(sent),
           net' \subseteq net \cup sent, SessionInv'
    PROVE  IInv'
<1>1. PacketInv'
  BY PacketsKept DEF IInv, TypeOK, NetTypeOK, client
<1>2. FileIsPrefix' /\ DoneMeansWhole' /\ FailedLeavesNoFile' /\ ClientInv'
  BY DEF IInv, client, FileIsPrefix, DoneMeansWhole, FailedLeavesNoFile, ClientInv
<1> QED BY <1>1, <1>2 DEF IInv

\* A block that is expected makes the file a longer prefix of the source.
LEMMA PrefixGrows ==
    ASSUME IInv, pc = "receiving", NEW p \in net, p.op = "DATA", Fresh(p.chunk),
           p.block = expected
    PROVE  /\ p.chunk = Len(file) + 1
           /\ Len(file) < NChunks
           /\ Append(file, p.chunk) = [i \in 1..(Len(file) + 1) |-> i]
           /\ Len(Append(file, p.chunk)) = Len(file) + 1
<1>1. p.chunk = Len(file) + 1
  BY ExpectedChunk
<1>2. file \in Seq(Chunks) /\ Len(file) \in Nat /\ Len(file) < NChunks
  BY DEF IInv, TypeOK, NetTypeOK, ClientInv
<1>3. file = [i \in 1..Len(file) |-> i]
  BY DEF IInv, FileIsPrefix
<1>4. Append(file, p.chunk) = [i \in 1..(Len(file) + 1) |-> i]
  BY <1>1, <1>2, <1>3
<1>5. Len(Append(file, p.chunk)) = Len(file) + 1
  BY <1>2
<1> QED BY <1>1, <1>2, <1>4, <1>5

\* A failing step: pc becomes "failed", which asks least of the packets.
LEMMA FailStep ==
    ASSUME NEW sent, NEW written, IInv, TypeOK', Fail(written), pc # "failed",
           written = [i \in 1..Len(written) |-> i], Len(written) <= NChunks,
           net' \subseteq net \cup sent, last' \in {last} \cup sent, Safe(sent)
    PROVE  IInv'
<1>1. pc' = "failed" /\ file' \in {<<>>, written}
  BY Zenon DEF Fail
<1>2. FailedLeavesNoFile'
  BY Zenon DEF Fail, FailedLeavesNoFile
<1>3. PacketInv'
  BY <1>1, PacketsKept DEF IInv, TypeOK, NetTypeOK
<1>4. FileIsPrefix'
  <2>1. CASE file' = <<>>
    BY <2>1, WireAssumption DEF FileIsPrefix
  <2>2. CASE file' = written
    BY <2>2 DEF FileIsPrefix
  <2> QED BY <1>1, <2>1, <2>2
<1> QED BY <1>1, <1>2, <1>3, <1>4 DEF IInv, DoneMeansWhole, SessionInv, ClientInv

\* A step of the client that neither fails nor touches the file.
LEMMA QuietStep ==
    ASSUME NEW sent, IInv, TypeOK', Safe(sent),
           UNCHANGED <<pc, expected, present, file, session>>,
           net' \subseteq net \cup sent, last' \in {last} \cup sent
    PROVE  IInv'
<1>1. PacketInv'
  BY PacketsKept DEF IInv, TypeOK, NetTypeOK
<1>2. SessionInv' /\ ClientInv'
  BY DEF IInv, SessionInv, ClientInv
<1>3. FileIsPrefix' /\ DoneMeansWhole' /\ FailedLeavesNoFile'
  BY DEF IInv, FileIsPrefix, DoneMeansWhole, FailedLeavesNoFile
<1> QED BY <1>1, <1>2, <1>3 DEF IInv

\* The only step that writes: the file grows by the chunk after its last one.
LEMMA RecvNextStep ==
    ASSUME IInv, TypeOK', NEW p \in net, RecvNext(p)
    PROVE  /\ file' = Append(file, Len(file) + 1)
           /\ Len(file') = Len(file) + 1
           /\ Len(file) < NChunks
           /\ IInv'
<1>1. pc = "receiving" /\ p.op = "DATA" /\ Fresh(p.chunk) /\ p.block = expected
  BY DEF RecvNext, Arrives
<1>2. p.chunk \in Chunks /\ p.chunk = Len(file) + 1
  BY <1>1, ExpectedChunk
<1>3. /\ file' = Append(file, Len(file) + 1)
      /\ file \in Seq(Chunks)
      /\ Len(file) \in Nat
      /\ Len(file) < NChunks
  BY <1>1, <1>2 DEF RecvNext, IInv, TypeOK, NetTypeOK, ClientInv
<1>4. Len(file') = Len(file) + 1
  BY <1>3
<1>5. FileIsPrefix'
  <2>1. file' = [i \in 1..(Len(file) + 1) |-> i]
    BY <1>1, <1>2, <1>3, PrefixGrows
  <2> QED BY <1>3, <1>4, <2>1, WireAssumption DEF FileIsPrefix
<1>6. PacketInv'
  <2>0. p \in Packet
    BY DEF IInv, TypeOK, NetTypeOK
  <2>1. BlocksMatch(AckOf(p))
    BY <1>1, <2>0, AckOfType DEF IInv, PacketInv, BlocksMatch
  <2>2. NotAhead(AckOf(p))'
    BY <1>1, <1>2, <1>4, <2>0, AckOfType DEF NotAhead
  <2>3. Safe({AckOf(p)})
    BY <2>1, <2>2 DEF Safe
  <2>4. net' \subseteq net \cup {AckOf(p)} /\ last' = AckOf(p)
    BY ReceiveEffect DEF RecvNext, IInv, TypeOK, NetTypeOK
  <2>5. /\ PacketInv /\ net \cup {last} \subseteq Packet
        /\ file \in Seq(Chunks) /\ file' \in Seq(Chunks)
    BY DEF IInv, TypeOK, NetTypeOK
  <2>6. pc # "failed" /\ Len(file) <= Len(file')
    BY <1>1, <1>3, <1>4
  <2> QED BY <2>3, <2>4, <2>5, <2>6, PacketsKept
<1>7. SessionInv'
  <2>1. \A t \in Tid : session[t].chunk \in Chunks
    BY DEF IInv, TypeOK, NetTypeOK
  <2>2. session' = session
    BY DEF RecvNext
  <2> QED BY <1>1, <1>3, <1>4, <2>1, <2>2 DEF IInv, SessionInv, Chunks
<1>8. ClientInv' /\ DoneMeansWhole' /\ FailedLeavesNoFile'
  <2>1. present' /\ pc' = IF p.chunk = NChunks THEN "done" ELSE "receiving"
    BY <1>1 DEF RecvNext, IInv, ClientInv, Short
  <2>2. expected' = (Len(file') + 1) % BlockMod
    <3>1. expected' = (((Len(file) + 1) % BlockMod) + 1) % BlockMod
      BY <1>1 DEF RecvNext, NextBlock, IInv, ClientInv
    <3>2. Len(file) + 1 \in Nat /\ BlockMod \in Nat \ {0}
      BY <1>3, WireAssumption
    <3>3. expected' = ((Len(file) + 1) + 1) % BlockMod
      BY <3>1, <3>2, NextBlockOfChunk
    <3> QED BY <3>3, <1>4
  <2>3. CASE p.chunk = NChunks
    BY <2>1, <2>3, <1>2, <1>4 DEF ClientInv, DoneMeansWhole, FailedLeavesNoFile
  <2>4. CASE p.chunk # NChunks
    <3>1. Len(file') < NChunks
      BY <2>4, <1>2, <1>3, <1>4, WireAssumption
    <3> QED BY <2>1, <2>2, <2>4, <3>1 DEF ClientInv, DoneMeansWhole, FailedLeavesNoFile
  <2> QED BY <2>3, <2>4
<1> QED BY <1>3, <1>4, <1>5, <1>6, <1>7, <1>8 DEF IInv

LEMMA IInvInit == Init => IInv
<1> SUFFICES ASSUME Init PROVE IInv
  OBVIOUS
<1>1. TypeOK
  BY TypeInit
<1>2. FileIsPrefix /\ DoneMeansWhole /\ FailedLeavesNoFile /\ ClientInv
  BY WireAssumption DEF Init, FileIsPrefix, DoneMeansWhole, FailedLeavesNoFile, ClientInv
<1>3. PacketInv /\ SessionInv
  BY DEF Init, NetInit, PacketInv, SessionInv, BlocksMatch, NotAhead, Request
<1> QED BY <1>1, <1>2, <1>3 DEF IInv

LEMMA IInvStep == IInv /\ [Next]_vars => IInv'
<1> SUFFICES ASSUME IInv, [Next]_vars PROVE IInv'
  OBVIOUS
<1>1. TypeOK /\ TypeOK'
  BY TypeStep DEF IInv
<1>2. Safe({}) /\ Safe({Request}) /\ Safe({ErrorPkt})
  BY DEF Safe, BlocksMatch, NotAhead, Request, ErrorPkt
<1>3. CASE SendRequest
  <2>1. /\ net' \subseteq net \cup {Request} /\ last' = last
        /\ pc = "start" /\ pc' = "requested"
        /\ UNCHANGED <<file, expected, present, session>>
    BY <1>3 DEF SendRequest, Send
  <2>2. PacketInv'
    BY <1>1, <1>2, <2>1, PacketsKept DEF IInv, TypeOK, NetTypeOK
  <2> QED BY <1>1, <2>1, <2>2 DEF IInv, FileIsPrefix, DoneMeansWhole,
             FailedLeavesNoFile, SessionInv, ClientInv
<1>4. CASE RequestFails
  <2>1. /\ net' \subseteq net \cup {} /\ last' = last
        /\ pc = "start" /\ pc' = "refused"
        /\ UNCHANGED <<file, expected, present, session>>
    BY <1>4 DEF RequestFails
  <2>2. PacketInv'
    BY <1>1, <1>2, <2>1, PacketsKept DEF IInv, TypeOK, NetTypeOK
  <2> QED BY <1>1, <2>1, <2>2 DEF IInv, FileIsPrefix, DoneMeansWhole,
             FailedLeavesNoFile, SessionInv, ClientInv
<1>5. CASE OpenLocal
  <2>1. /\ net' \subseteq net \cup {} /\ last' = last
        /\ pc = "requested" /\ pc' = "receiving" /\ present'
        /\ file = <<>> /\ file' = <<>> /\ expected' = 1
        /\ session' = session
    BY <1>5 DEF OpenLocal, IInv, ClientInv
  <2>2. PacketInv'
    BY <1>1, <1>2, <2>1, PacketsKept DEF IInv, TypeOK, NetTypeOK
  <2>3. Len(file') = 0 /\ 0 < NChunks /\ 1 = (0 + 1) % BlockMod
    BY <2>1, WireAssumption
  <2> QED BY <1>1, <2>1, <2>2, <2>3 DEF IInv, FileIsPrefix, DoneMeansWhole,
             FailedLeavesNoFile, SessionInv, ClientInv
<1>6. CASE OpenFails
  BY <1>1, <1>2, <1>6, FailStep DEF OpenFails, IInv, FileIsPrefix
<1>7. CASE Timeout
  <2>1. Safe({last})
    BY <1>7 DEF Safe, IInv, PacketInv, Timeout, NotAhead
  <2> QED BY <1>1, <1>7, <2>1, QuietStep DEF Timeout, Send
<1>8. CASE GiveUp \/ SocketFails
  BY <1>1, <1>2, <1>8, FailStep DEF GiveUp, SocketFails, IInv, FileIsPrefix
<1>9. ASSUME NEW p \in net, RecvNext(p) PROVE IInv'
  BY <1>1, <1>9, RecvNextStep
<1>10. ASSUME NEW p \in net, RecvDuplicate(p) PROVE IInv'
  <2>1. pc = "receiving" /\ p.op = "DATA" /\ Fresh(p.chunk) /\ p.block # expected
    BY <1>10 DEF RecvDuplicate, Arrives
  <2>2. p.chunk \in Chunks /\ p.chunk <= Len(file)
    <3>1. /\ p.chunk \in Chunks
          /\ p.chunk <= Len(file) + 1
          /\ p.chunk # Len(file) + 1
      BY <2>1, ExpectedChunk
    <3>2. Len(file) \in Nat
      BY <1>1 DEF TypeOK, NetTypeOK
    <3> QED BY <3>1, <3>2 DEF Chunks
  <2>3. file' = file
    BY <1>10 DEF RecvDuplicate
  <2>4. BlocksMatch(AckOf(p)) /\ NotAhead(AckOf(p))'
    BY <2>1, <2>2, <2>3, AckOfType DEF IInv, PacketInv, BlocksMatch, NotAhead, AckOf
  <2>5. Safe({AckOf(p)})
    BY <2>4 DEF Safe
  <2>6. net' \subseteq net \cup {AckOf(p)}
    BY <1>1, <1>10, ReceiveEffect DEF RecvDuplicate, TypeOK, NetTypeOK
  <2> QED BY <1>1, <1>10, <2>5, <2>6, QuietStep DEF RecvDuplicate
<1>11. ASSUME NEW p \in net, RecvStale(p) PROVE IInv'
  <2>1. net' \subseteq net \cup {}
    BY <1>1, <1>11, ReceiveEffect DEF RecvStale, TypeOK, NetTypeOK
  <2> QED BY <1>1, <1>2, <1>11, <2>1, QuietStep DEF RecvStale
<1>12. ASSUME NEW p \in net, RecvError(p) PROVE IInv'
  <2>1. net' \subseteq net \cup {}
    BY <1>1, <1>12, ReceiveEffect DEF RecvError, TypeOK, NetTypeOK
  <2> QED BY <1>1, <1>2, <1>12, <2>1, FailStep DEF RecvError, Arrives, IInv, FileIsPrefix
<1>13. ASSUME NEW p \in net, RecvFaults(p) PROVE IInv'
  <2>1. pc = "receiving" /\ p.op = "DATA" /\ Fresh(p.chunk) /\ p.block = expected
    BY <1>13 DEF RecvFaults, Arrives
  <2>4. PICK written \in {file, Append(file, p.chunk)} : Fail(written)
    BY <1>13 DEF RecvFaults
  <2>5. written = [i \in 1..Len(written) |-> i] /\ Len(written) <= NChunks
    <3>1. CASE written = file
      BY <3>1 DEF IInv, FileIsPrefix
    <3>2. CASE written = Append(file, p.chunk)
      <4>1. Len(file) \in Nat
        BY <1>1 DEF TypeOK
      <4>2. /\ Len(file) < NChunks
            /\ written = [i \in 1..(Len(file) + 1) |-> i]
            /\ Len(written) = Len(file) + 1
        BY <2>1, <3>2, PrefixGrows
      <4>3. Len(written) <= NChunks
        BY <4>1, <4>2, WireAssumption
      <4>4. written = [i \in 1..Len(written) |-> i]
        BY <4>2
      <4> QED BY <4>3, <4>4
    <3> QED BY <2>4, <3>1, <3>2
  <2>2. Safe({AckOf(p)})
    <3>1. BlocksMatch(AckOf(p))
      BY <1>1, <2>1, AckOfType DEF IInv, PacketInv, BlocksMatch, TypeOK, NetTypeOK
    <3>2. pc' = "failed"
      BY <2>4 DEF Fail
    <3> QED BY <3>1, <3>2 DEF Safe
  <2>3. net' \subseteq net \cup {AckOf(p)} /\ last' \in {last} \cup {AckOf(p)}
    BY <1>1, <1>13, ReceiveEffect DEF RecvFaults, TypeOK, NetTypeOK
  <2> QED BY <1>1, <2>1, <2>2, <2>3, <2>4, <2>5, FailStep
<1>14. ASSUME NEW t \in Tid, OpenSession(t) PROVE IInv'
  <2>1. net' \subseteq net \cup {Data(t, 1)} /\ UNCHANGED client
    BY <1>1, <1>14, ReceiveEffect DEF OpenSession, TypeOK, NetTypeOK
  <2>2. file' = file /\ pc' = pc /\ Len(file) \in Nat
    BY <1>1, <2>1 DEF client, TypeOK, NetTypeOK
  <2>3. Safe({Data(t, 1)})
    <3>1. 1 \in Chunks
      BY WireAssumption DEF Chunks
    <3> QED BY <2>2, <3>1, DataType DEF Safe, BlocksMatch, NotAhead
  <2>4. SessionInv'
    <3>1. \A u \in Tid : session'[u].chunk = session[u].chunk
      BY <1>1, <1>14 DEF OpenSession, TypeOK, NetTypeOK
    <3> QED BY <2>2, <3>1 DEF IInv, SessionInv
  <2> QED BY <1>1, <2>1, <2>3, <2>4, EnvironmentStep
<1>15. ASSUME NEW t \in Tid, Resend(t) PROVE IInv'
  <2> DEFINE k == session[t].chunk
  <2>1. net' \subseteq net \cup {Data(t, k)} /\ UNCHANGED client
    BY <1>15 DEF Resend, Send
  <2>2. file' = file /\ pc' = pc
    BY <2>1 DEF client
  <2>3. pc # "failed" => k <= Len(file) + 1
    BY DEF IInv, SessionInv
  <2>4. Safe({Data(t, k)})
    <3>1. k \in Chunks
      BY <1>1 DEF TypeOK
    <3> QED BY <2>2, <2>3, <3>1, DataType DEF Safe, BlocksMatch, NotAhead
  <2>5. SessionInv'
    <3>1. \A u \in Tid : session'[u].chunk = session[u].chunk
      BY <1>1, <1>15 DEF Resend, TypeOK, NetTypeOK
    <3> QED BY <2>2, <3>1 DEF IInv, SessionInv
  <2> QED BY <1>1, <2>1, <2>4, <2>5, EnvironmentStep
<1>16. ASSUME NEW t \in Tid, Abandon(t) PROVE IInv'
  <2>1. UNCHANGED client /\ net' \subseteq net \cup {} /\ file' = file /\ pc' = pc
    BY <1>16 DEF Abandon, client
  <2>2. SessionInv'
    <3>1. \A u \in Tid : session'[u].chunk = session[u].chunk
      BY <1>1, <1>16 DEF Abandon, TypeOK, NetTypeOK
    <3> QED BY <2>1, <3>1 DEF IInv, SessionInv
  <2> QED BY <1>1, <1>2, <2>1, <2>2, EnvironmentStep
<1>17. CASE RefuseRequest
  <2>1. /\ UNCHANGED client /\ net' \subseteq net \cup {ErrorPkt}
        /\ file' = file /\ pc' = pc /\ session' = session
    BY <1>1, <1>17, ReceiveEffect DEF RefuseRequest, client, TypeOK, NetTypeOK
  <2>2. SessionInv'
    BY <2>1 DEF IInv, SessionInv
  <2> QED BY <1>1, <1>2, <2>1, <2>2, EnvironmentStep
<1>18. ASSUME NEW p \in net, RecvAck(p) PROVE IInv'
  <2> DEFINE t == p.tid
             k == session[t].chunk
  <2>1. /\ p.op = "ACK" /\ t \in Tid
        /\ p.chunk \in 0..NChunks /\ k \in Chunks
    BY <1>1, <1>18, PacketTypes DEF RecvAck, TypeOK, NetTypeOK
  <2>2. UNCHANGED client /\ file' = file /\ pc' = pc
    BY <1>18 DEF RecvAck, client
  <2>3. CASE Short(k)
    <3>1. net' \subseteq net \cup {}
      BY <1>1, <1>18, <2>3, ReceiveEffect DEF RecvAck, TypeOK, NetTypeOK
    <3>2. \A u \in Tid : session'[u].chunk = session[u].chunk
      <4>1. session' = [session EXCEPT ![t].st = "closed"]
        BY <1>18, <2>3 DEF RecvAck
      <4> QED BY <1>1, <2>1, <4>1 DEF TypeOK, NetTypeOK
    <3>3. SessionInv'
      BY <2>2, <3>2 DEF IInv, SessionInv
    <3> QED BY <1>1, <1>2, <2>2, <3>1, <3>3, EnvironmentStep
  <2>4. CASE ~Short(k)
    <3>1. net' \subseteq net \cup {Data(t, k + 1)}
      BY <1>1, <1>18, <2>4, ReceiveEffect DEF RecvAck, TypeOK, NetTypeOK
    <3>2. pc # "failed" => k <= Len(file)
      <4> SUFFICES ASSUME pc # "failed" PROVE k <= Len(file)
        OBVIOUS
      <4>1. /\ p.chunk <= Len(file) /\ k <= Len(file) + 1
            /\ p.block = p.chunk % BlockMod
        BY <2>1 DEF IInv, PacketInv, SessionInv, BlocksMatch, NotAhead
      <4>2. p.block = k % BlockMod /\ Fresh(p.chunk) /\ Fresh(k)
        BY <1>18 DEF RecvAck
      <4>3. Len(file) \in Nat /\ k \in Nat /\ p.chunk \in Nat /\ BlockMod \in Nat \ {0}
        BY <1>1, <2>1, WireAssumption DEF TypeOK, NetTypeOK, Chunks
      <4>4. p.chunk - k < BlockMod /\ k - p.chunk < BlockMod
        BY <4>1, <4>2, <4>3 DEF Fresh
      <4>5. p.chunk = k
        BY <4>1, <4>2, <4>3, <4>4, ResidueUnique
      <4> QED BY <4>1, <4>5
    <3>3. Len(file) \in Nat /\ k \in Nat
      BY <1>1, <2>1 DEF TypeOK, NetTypeOK, Chunks
    <3>4. Safe({Data(t, k + 1)})
      <4>1. k + 1 \in Chunks
        BY <2>1, <2>4, WireAssumption DEF Chunks, Short
      <4> QED BY <2>1, <2>2, <3>2, <3>3, <4>1, DataType DEF Safe, BlocksMatch, NotAhead
    <3>5. \A u \in Tid : session'[u].chunk = IF u = t THEN k + 1 ELSE session[u].chunk
      BY <1>1, <1>18, <2>1, <2>4 DEF RecvAck, TypeOK, NetTypeOK
    <3>6. SessionInv'
      BY <2>2, <3>2, <3>3, <3>5 DEF IInv, SessionInv
    <3> QED BY <1>1, <2>2, <3>1, <3>4, <3>6, EnvironmentStep
  <2> QED BY <2>3, <2>4
<1>19. CASE Lose
  <2>1. UNCHANGED client /\ net' \subseteq net \cup {}
        /\ file' = file /\ pc' = pc /\ session' = session
    BY <1>19 DEF Lose, LoseOne, client
  <2>2. SessionInv'
    BY <2>1 DEF IInv, SessionInv
  <2> QED BY <1>1, <1>2, <2>1, <2>2, EnvironmentStep
<1>20. CASE UNCHANGED vars
  <2>1. UNCHANGED client /\ net' \subseteq net \cup {}
        /\ file' = file /\ pc' = pc /\ session' = session
    BY <1>20 DEF vars, client
  <2>2. SessionInv'
    BY <2>1 DEF IInv, SessionInv
  <2> QED BY <1>1, <1>2, <2>1, <2>2, EnvironmentStep
<1> QED
  BY <1>3, <1>4, <1>5, <1>6, <1>7, <1>8, <1>9, <1>10, <1>11, <1>12, <1>13, <1>14,
     <1>15, <1>16, <1>17, <1>18, <1>19, <1>20 DEF Next, Client, Server
-----------------------------------------------------------------------------
\* The inductive invariant holds in every reachable state: it says how packets,
\* sessions and the local file of a download are related (tftp_client.py:23-89).
THEOREM InvariantCorrect == Spec => []IInv
BY IInvInit, IInvStep, PTL DEF Spec

\* At every moment the local file holds the first chunks of the source, each
\* once and in order (tftp_client.py:54-74).
THEOREM PrefixCorrect == Spec => []FileIsPrefix
<1>1. IInv => FileIsPrefix
  BY DEF IInv
<1> QED BY <1>1, InvariantCorrect, PTL

\* A download reported as complete is whole (tftp_client.py:68-70).
THEOREM DoneCorrect == Spec => []DoneMeansWhole
<1>1. IInv => DoneMeansWhole
  BY DEF IInv
<1> QED BY <1>1, InvariantCorrect, PTL

\* A failed download leaves no file behind (tftp_client.py:80-87).
THEOREM FailedCorrect == Spec => []FailedLeavesNoFile
<1>1. IInv => FailedLeavesNoFile
  BY DEF IInv
<1> QED BY <1>1, InvariantCorrect, PTL

\* However often the block counter has wrapped, the expected block number picks
\* out the next chunk among the packets in flight (tftp_client.py:56, 66).
THEOREM ExpectedCorrect == Spec => []ExpectedIsNextChunk
<1>1. IInv => ExpectedIsNextChunk
  BY ExpectedChunk DEF ExpectedIsNextChunk
<1> QED BY <1>1, InvariantCorrect, PTL

\* Only what is in the file is acknowledged (tftp_client.py:57-65).
THEOREM AckedCorrect == Spec => []AckedMeansWritten
<1>1. IInv => AckedMeansWritten
  BY DEF IInv, PacketInv, NotAhead, AckedMeansWritten
<1> QED BY <1>1, InvariantCorrect, PTL

-----------------------------------------------------------------------------
\* The download implements the abstract transfer.

LEMMA TransferInit == Init => Transfer!Init
BY DEF Init, Transfer!Init, Outcome, Running

\* The file and the outcome as they are: a stutter of the abstract transfer.
LEMMA TransferStutter ==
    ASSUME file' = file, Outcome' = Outcome
    PROVE  [Transfer!Next]_(Transfer!avars)
BY DEF Transfer!avars

LEMMA TransferAbort ==
    ASSUME Running, NEW written, Fail(written),
           \/ written = file
           \/ Len(file) < NChunks /\ written = Append(file, Len(file) + 1)
    PROVE  Transfer!Next
<1>1. pc' = "failed" /\ file' \in {written, <<>>}
  BY Zenon DEF Fail
<1> QED BY <1>1 DEF Transfer!Next, Transfer!Abort, Outcome, Running

LEMMA TransferStep == IInv /\ [Next]_vars => [Transfer!Next]_(Transfer!avars)
<1> SUFFICES ASSUME IInv, [Next]_vars PROVE [Transfer!Next]_(Transfer!avars)
  OBVIOUS
<1>1. TypeOK /\ TypeOK'
  BY TypeStep DEF IInv
<1>2. CASE SendRequest
  BY <1>2, TransferStutter DEF SendRequest, Outcome, Running
<1>3. CASE RequestFails
  BY <1>3 DEF RequestFails, Outcome, Running, Transfer!Next, Transfer!Abort
<1>4. CASE OpenLocal
  <2>1. file' = file /\ pc = "requested" /\ pc' = "receiving"
    BY <1>4 DEF OpenLocal, IInv, ClientInv
  <2> QED BY <2>1, TransferStutter DEF Outcome, Running
<1>5. CASE OpenFails
  BY <1>5, TransferAbort DEF OpenFails, Running
<1>6. CASE Timeout
  BY <1>6, TransferStutter DEF Timeout, Outcome, Running
<1>7. CASE GiveUp \/ SocketFails
  BY <1>7, TransferAbort DEF GiveUp, SocketFails, Running
<1>8. ASSUME NEW p \in net, RecvNext(p) PROVE Transfer!Next
  <2>1. /\ file' = Append(file, Len(file) + 1)
        /\ Len(file') = Len(file) + 1
        /\ Len(file) < NChunks
    BY <1>1, <1>8, RecvNextStep
  <2>2. pc = "receiving" /\ pc' \in {"receiving", "done"}
    BY <1>8 DEF RecvNext, Arrives
  <2>3. CASE pc' = "receiving"
    BY <2>1, <2>2, <2>3 DEF Outcome, Running, Transfer!Next, Transfer!Deliver
  <2>4. CASE pc' = "done"
    <3>1. Len(file') = NChunks
      BY <1>1, <1>8, <2>4, RecvNextStep DEF IInv, DoneMeansWhole
    <3> QED BY <2>1, <2>2, <2>4, <3>1 DEF Outcome, Running, Transfer!Next, Transfer!Deliver
  <2> QED BY <2>2, <2>3, <2>4
<1>9. ASSUME NEW p \in net, RecvDuplicate(p) \/ RecvStale(p)
      PROVE [Transfer!Next]_(Transfer!avars)
  BY <1>9, TransferStutter DEF RecvDuplicate, RecvStale, Outcome, Running
<1>10. ASSUME NEW p \in net, RecvError(p) PROVE Transfer!Next
  BY <1>10, TransferAbort DEF RecvError, Arrives, Running
<1>12. ASSUME NEW p \in net, RecvFaults(p) PROVE Transfer!Next
  <2>1. /\ Running /\ pc = "receiving" /\ p.op = "DATA" /\ Fresh(p.chunk)
        /\ p.block = expected
    BY <1>12 DEF RecvFaults, Arrives, Running
  <2>2. PICK written \in {file, Append(file, p.chunk)} : Fail(written)
    BY <1>12 DEF RecvFaults
  <2>3. p.chunk = Len(file) + 1 /\ Len(file) < NChunks
    BY <2>1, PrefixGrows
  <2> QED BY <2>1, <2>2, <2>3, TransferAbort
<1>11. CASE Server \/ Lose \/ UNCHANGED vars
  <2>1. UNCHANGED client
    BY <1>11 DEF Server, Lose, vars, OpenSession, RefuseRequest, Resend, RecvAck, Abandon
  <2> QED BY <2>1, TransferStutter DEF client, Outcome, Running
<1> QED
  BY <1>2, <1>3, <1>4, <1>5, <1>6, <1>7, <1>8, <1>9, <1>10, <1>11, <1>12
     DEF Next, Client

\* Every behaviour of the download is a behaviour of FileTransfer: a copy grows
\* in order, and "done" is said only of a whole copy, which then stays
\* (tftp_client.py:23-89).
THEOREM GetImplementsTransfer == Spec => TransferSpec
BY InvariantCorrect, TransferInit, TransferStep, PTL
   DEF Spec, TransferSpec, Transfer!Spec

=============================================================================

------------------------------ MODULE TftpWire ------------------------------
(***************************************************************************)
(* What both directions of backend/tftp_client.py have in common: a file   *)
(* cut in chunks, block numbers that wrap, packets, and a UDP network that *)
(* loses, duplicates, delays and reorders them.                            *)
(*                                                                         *)
(* The source file is NChunks chunks, each named by its position; all are  *)
(* 512 bytes but the last, which is shorter.  Block numbers are chunk      *)
(* numbers modulo BlockMod (0x10000 in the code).  A packet also carries   *)
(* the chunk it is about: DATA holds that chunk, and in an ACK the field   *)
(* is only a history of which chunk caused it; no action of the client     *)
(* tests it.                                                               *)
(***************************************************************************)
EXTENDS Integers, Sequences

CONSTANTS
    Tid,         \* server ports, one for each transfer session
    NChunks,     \* chunks in the source file
    BlockMod,    \* block numbers are taken modulo this: 65536 in the code
    MaxDups      \* bound: copies the network makes of datagrams

ASSUME WireAssumption ==
    /\ NChunks \in Nat \ {0}
    /\ BlockMod \in Nat \ {0, 1}
    /\ MaxDups \in Nat

VARIABLES
    net,         \* datagrams in flight
    dups         \* duplicates the network has made

Chunks == 1..NChunks
Blocks == 0..(BlockMod - 1)

Request  == [op |-> "REQUEST"]
ErrorPkt == [op |-> "ERROR"]
DataPkt  == [op : {"DATA"}, tid : Tid, block : Blocks, chunk : Chunks]
AckPkt   == [op : {"ACK"}, tid : Tid, block : Blocks, chunk : 0..NChunks]
Packet   == {Request, ErrorPkt} \cup DataPkt \cup AckPkt

Data(t, k) == [op |-> "DATA", tid |-> t, block |-> k % BlockMod, chunk |-> k]
Ack(t, k)  == [op |-> "ACK", tid |-> t, block |-> k % BlockMod, chunk |-> k]

\* Mutant of NextBlock: the block after the last one is 1.
NextBlockSkipsZero(b) == IF b + 1 = BlockMod THEN 1 ELSE b + 1

NextBlock(b) == (b + 1) % BlockMod
PrevBlock(b) == (b - 1) % BlockMod

\* A chunk of fewer than 512 bytes ends the file.
Short(k) == k = NChunks

NetTypeOK == net \subseteq Packet /\ dups \in 0..MaxDups

NetInit == net = {} /\ dups = 0

\* p is handed over and the packets of sent enter the network.  The network
\* may have made one more copy of p, which stays in flight.
Receive(p, sent) ==
    \/ /\ net' = (net \ {p}) \cup sent
       /\ dups' = dups
    \/ /\ dups < MaxDups
       /\ net' = net \cup sent
       /\ dups' = dups + 1

Send(sent) == net' = net \cup sent /\ dups' = dups

LoseOne == \E p \in net : net' = net \ {p} /\ dups' = dups
=============================================================================

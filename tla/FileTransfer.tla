---------------------------- MODULE FileTransfer ----------------------------
(***************************************************************************)
(* What a TFTP transfer promises, whatever packets carry it: a source file *)
(* of NChunks chunks is copied in order, and the party that asked for the  *)
(* transfer hears "done" only of a whole copy, which nothing then touches. *)
(* A transfer that fails may leave a partial copy, or none.                *)
(*                                                                         *)
(* A chunk is named by its position in the source, so a copy is correct    *)
(* so far exactly when it reads <<1, 2, ..., n>>.                          *)
(***************************************************************************)
EXTENDS Naturals, Sequences

CONSTANT NChunks    \* chunks in the source; the last one is the short one

VARIABLES copy,     \* the chunks stored at the receiving side
          outcome   \* what the requester has been told

avars == <<copy, outcome>>

Init == copy = <<>> /\ outcome = "running"

\* The next chunk is stored.  When it is the last one the requester may learn
\* of the success in the same step (a Get), or later (a Put).
Deliver ==
    /\ outcome # "done"
    /\ Len(copy) < NChunks
    /\ copy' = Append(copy, Len(copy) + 1)
    /\ \/ outcome' = outcome
       \/ outcome = "running" /\ Len(copy') = NChunks /\ outcome' = "done"

Finish ==
    /\ outcome = "running"
    /\ Len(copy) = NChunks
    /\ outcome' = "done"
    /\ UNCHANGED copy

\* The step that fails may have stored one more chunk.
Abort ==
    /\ outcome = "running"
    /\ outcome' = "failed"
    /\ \/ copy' \in {copy, <<>>}
       \/ Len(copy) < NChunks /\ copy' = Append(copy, Len(copy) + 1)

\* A copy that was never reported as done may be thrown away and begun again.
Discard ==
    /\ outcome # "done"
    /\ copy' = <<>>
    /\ UNCHANGED outcome

Next == Deliver \/ Finish \/ Abort \/ Discard

Spec == Init /\ [][Next]_avars
=============================================================================

----------------------------- MODULE ByteQueue -----------------------------
(***************************************************************************)
(* What a pipe promises: a bounded first-in-first-out queue of bytes with  *)
(* a read end and a write end.  A write moves its message to the queue,    *)
(* nothing twice, in as many steps as the room in the queue requires; it   *)
(* may give up only with the queue full.  A read delivers the oldest       *)
(* bytes, at least one of them unless the queue is empty and its write end *)
(* is closed.                                                              *)
(***************************************************************************)
EXTENDS Naturals, Sequences

CONSTANTS Writers, Bytes, Capacity, MaxLen

VARIABLES queue, pending, delivered, ropen, wopen

qvars == <<queue, pending, delivered, ropen, wopen>>

Init ==
  /\ queue = <<>> /\ delivered = <<>>
  /\ pending = [p \in Writers |-> <<>>]
  /\ ropen = TRUE /\ wopen = TRUE

Messages == UNION {[1 .. n -> Bytes] : n \in 1 .. MaxLen}

(* Writer p appends the first k bytes of a new or of its pending message. *)
Put(p) ==
  /\ wopen
  /\ \E msg \in IF pending[p] = <<>> THEN Messages ELSE {pending[p]} :
       \E k \in 0 .. Len(msg) :
         /\ Len(queue) + k <= Capacity
         /\ queue' = queue \o SubSeq(msg, 1, k)
         /\ \/ pending' = [pending EXCEPT ![p] = SubSeq(msg, k + 1, Len(msg))]
            \/ Len(queue') = Capacity /\ pending' = [pending EXCEPT ![p] = <<>>]
  /\ delivered' = <<>>
  /\ UNCHANGED <<ropen, wopen>>

Take ==
  /\ ropen
  /\ \E k \in 0 .. Len(queue) :
       /\ k = 0 => queue = <<>> /\ ~wopen
       /\ delivered' = SubSeq(queue, 1, k)
       /\ queue' = SubSeq(queue, k + 1, Len(queue))
  /\ UNCHANGED <<pending, ropen, wopen>>

Close ==
  /\ \/ ropen /\ ropen' = FALSE /\ UNCHANGED wopen
     \/ wopen /\ wopen' = FALSE /\ UNCHANGED ropen
  /\ delivered' = <<>>
  /\ UNCHANGED <<queue, pending>>

(* A step between two calls. *)
Idle == delivered' = <<>> /\ UNCHANGED <<queue, pending, ropen, wopen>>

Next == (\E p \in Writers : Put(p)) \/ Take \/ Close \/ Idle

Spec == Init /\ [][Next]_qvars
=============================================================================

----------------------------- MODULE ByteQueue -----------------------------
(***************************************************************************)
(* What a struct buffer of src/buffer.c promises its two sides: a first-in *)
(* first-out queue of at most Size bytes.  Pointers, the byte array and    *)
(* compaction do not appear.                                               *)
(***************************************************************************)
EXTENDS Integers, Sequences

CONSTANTS Byte,  \* the bytes
          Size   \* how many fit

VARIABLES queue,  \* bytes written and not yet read
          out     \* bytes the last operation gave to its caller

vars == <<queue, out>>

TypeOK == /\ queue \in Seq(Byte) /\ Len(queue) <= Size
          /\ out \in Seq(Byte)

Init == queue = <<>> /\ out = <<>>

Put(bytes) ==
  /\ Len(queue) + Len(bytes) <= Size
  /\ queue' = queue \o bytes
  /\ out' = <<>>

Take(n) ==
  /\ n <= Len(queue)
  /\ out' = SubSeq(queue, 1, n)
  /\ queue' = SubSeq(queue, n + 1, Len(queue))

Clear == queue' = <<>> /\ out' = <<>>

Next ==
  \/ \E n \in 0 .. Size : \E bytes \in [1 .. n -> Byte] : Put(bytes)
  \/ \E n \in 0 .. Size : Take(n)
  \/ Clear

Spec == Init /\ [][Next]_vars
=============================================================================

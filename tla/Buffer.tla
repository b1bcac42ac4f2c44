------------------------------- MODULE Buffer -------------------------------
(***************************************************************************)
(* struct buffer of src/buffer.c: an array with a read and a write         *)
(* pointer, which a recv fills and a send drains in place.                 *)
(*                                                                         *)
(* Pointers are offsets from data, so data is 0 and limit is Size.  Each   *)
(* action is one exchange of a caller with the buffer: the pointer it      *)
(* asks for, what it does there, and the advance it reports.  The asserts  *)
(* of the code are the obligations of the caller, hence guards.            *)
(*                                                                         *)
(* A definition X_y next to X is X with a defect; nothing uses it but the  *)
(* experiments that show which property would notice.                      *)
(***************************************************************************)
EXTENDS Integers, Sequences

CONSTANTS Byte,  \* the bytes
          NUL,   \* the zero byte, with which socks_new clears the array
          Size   \* BUFFER_SIZE

ASSUME BufferAssumption == Size \in Nat /\ NUL \in Byte

VARIABLES
  cells,  \* the array
  read,   \* b->read - b->data
  write,  \* b->write - b->data
  out     \* bytes the last operation gave to its caller

vars == <<cells, read, write, out>>

Index == 0 .. Size - 1

Init ==
  /\ cells = [i \in Index |-> NUL]
  /\ read = 0
  /\ write = 0
  /\ out = <<>>

\* buffer_compact, when the pointers are r and w.
buffer_compact_append(r, w) ==
  /\ cells' = [i \in Index |-> IF i < w - r THEN cells[r + i] ELSE cells[i]]
  /\ read' = 0
  /\ write' = w

buffer_compact(r, w) ==
  /\ cells' = [i \in Index |-> IF i < w - r THEN cells[r + i] ELSE cells[i]]
  /\ read' = 0
  /\ write' = w - r

\* buffer_write_ptr, a recv that stores bytes there, and buffer_write_adv with
\* as many of them as the caller wants to keep (response_read keeps a prefix).
Fill_unchecked(bytes, kept) ==
  /\ kept <= Len(bytes)
  /\ cells' = [i \in Index |-> IF i - write \in 0 .. Len(bytes) - 1
                               THEN bytes[i - write + 1] ELSE cells[i]]
  /\ write' = write + kept
  /\ out' = <<>>
  /\ UNCHANGED read

Fill(bytes, kept) ==
  /\ Len(bytes) <= Size - write
  /\ kept <= Len(bytes)
  /\ cells' = [i \in Index |-> IF i - write \in 0 .. Len(bytes) - 1
                               THEN bytes[i - write + 1] ELSE cells[i]]
  /\ write' = write + kept
  /\ out' = <<>>
  /\ UNCHANGED read

\* buffer_read_adv: a buffer that is read to its end compacts itself.
buffer_read_adv_lazy(n) ==
  /\ read' = read + n
  /\ UNCHANGED <<cells, write>>

buffer_read_adv(n) ==
  IF read + n = write
  THEN buffer_compact(read + n, write)
  ELSE read' = read + n /\ UNCHANGED <<cells, write>>

\* buffer_read_ptr, a send that takes n of the bytes there, buffer_read_adv.
Drain(n) ==
  /\ n <= write - read
  /\ out' = [i \in 1 .. n |-> cells[read + i - 1]]
  /\ buffer_read_adv(n)

\* buffer_read; an empty buffer gives 0, which no caller takes for a byte.
buffer_read ==
  IF write > read
  THEN Drain(1)
  ELSE out' = <<>> /\ UNCHANGED <<cells, read, write>>

\* buffer_write; a full buffer ignores the byte.
buffer_write(c) ==
  IF Size > write
  THEN Fill(<<c>>, 1)
  ELSE out' = <<>> /\ UNCHANGED <<cells, read, write>>

buffer_reset ==
  /\ read' = 0
  /\ write' = 0
  /\ out' = <<>>
  /\ UNCHANGED cells

Compact == buffer_compact(read, write) /\ out' = <<>>

Next ==
  \/ \E n \in 0 .. Size : \E bytes \in [1 .. n -> Byte], kept \in 0 .. n :
        Fill(bytes, kept)
  \/ \E n \in 0 .. Size : Drain(n)
  \/ buffer_read
  \/ \E c \in Byte : buffer_write(c)
  \/ buffer_reset
  \/ Compact

Spec == Init /\ [][Next]_vars

(***************************************************************************)
(* Properties                                                              *)
(***************************************************************************)

\* buffer.h's invariant R <= W <= limit, with the types.
TypeOK ==
  /\ cells \in [Index -> Byte]
  /\ write \in 0 .. Size
  /\ read \in 0 .. write
  /\ out \in Seq(Byte)

\* A buffer that has been read to its end offers the whole array again.
\* greetings_read and response_read stop reading when buffer_can_write says no
\* and wait for the other side to drain the buffer: were the space behind the
\* pointers not given back, they would wait for an empty buffer.
DrainedOffersAll == read = write => write = 0

\* The bytes between the pointers, whatever moves them, are the queue of
\* ByteQueue: each byte a recv stored and the caller kept comes out once, in
\* order, and compaction neither loses nor repeats one.
Contents == [i \in 1 .. write - read |-> cells[read + i - 1]]
Queue == INSTANCE ByteQueue WITH queue <- Contents
QueueSpec == Queue!Spec
=============================================================================

------------------------------ MODULE VarlenRing ------------------------------
(***************************************************************************)
(* lockfree/varlen_ring.hpp: an SPSC ring of bytes that carries messages   *)
(* of different lengths, each behind a header of HDR bytes.  A frame may   *)
(* wrap: write_at and read_at split the copy at the end of the buffer.     *)
(*                                                                         *)
(* A message is a record [id, len].  Byte k of its header is               *)
(* <<"hdr", len, k>>, byte k of its payload <<id, len, k>>: what read()    *)
(* finds is decoded from the bytes that are in the ring, so a frame that   *)
(* is overwritten, misplaced or cut is seen as such.                       *)
(***************************************************************************)
EXTENDS Integers, Sequences

CONSTANTS SIZE,       \* the template parameter: bytes of the ring, at least 64
          Msg,        \* the messages written: records [id, len]
          MaxLen,     \* the buffer sizes read() is called with
          MaxWrites,  \* bound: messages written
          NoMsg       \* read() has returned nothing yet

HDR == 4

VARIABLES buffer, head, tail,
          wpc,        \* where the producer is in write()
          msg,        \* write()'s argument
          rpc,        \* where the consumer is in read()
          out,        \* read()'s out
          writes      \* messages written so far

vars == <<buffer, head, tail, wpc, msg, rpc, out, writes>>

Masked(n) == n % SIZE

Init == /\ buffer = [i \in 0..(SIZE - 1) |-> <<"zero", 0, 0>>]
        /\ head = 0
        /\ tail = 0
        /\ wpc = "idle"
        /\ msg = NoMsg
        /\ rpc = "idle"
        /\ out = NoMsg
        /\ writes = 0

------------------------------------------------------------------------------
\* Mutant of FreeSpace: no byte is kept free.
FreeSpaceAll(h, t) == IF h = t THEN SIZE ELSE Masked(t + SIZE - h)

FreeSpace(h, t) == Masked(t + 2 * SIZE - h - 1)

Available(h, t) == Masked(h + SIZE - t)

HeaderByte(len, k) == <<"hdr", len, k>>
PayloadByte(m, k) == <<m.id, m.len, k>>

\* write_at(pos, src, n) where byte(k) is the k-th byte of src: the first
\* SIZE - pos bytes go up to the end of the buffer, the others start at 0.
WriteAt(pos, n, byte(_)) ==
    [i \in 0..(SIZE - 1) |->
        LET k == IF i >= pos THEN i - pos ELSE i + (SIZE - pos)
        IN  IF k < n THEN byte(k) ELSE buffer[i]]

\* The place of the k-th byte that read_at copies from pos.
Offset(pos, k) == IF pos + k < SIZE THEN pos + k ELSE k - (SIZE - pos)

\* read_at(pos, dst, n) finds byte(k) at every k.
FindsAt(pos, n, byte(_)) == \A k \in 0..(n - 1) : buffer[Offset(pos, k)] = byte(k)

\* The length in the header at t, or 0 when the bytes are no header.
LenAt(t) ==
    LET fits == {l \in {m.len : m \in Msg} :
                   FindsAt(t, HDR, LAMBDA k : HeaderByte(l, k))}
    IN  IF fits = {} THEN 0 ELSE CHOOSE l \in fits : TRUE

\* The message whose payload of length len is at pos, or NoMsg for a torn one.
PayloadAt(pos, len) ==
    LET fits == {m \in Msg : m.len = len /\ FindsAt(pos, len, LAMBDA k : PayloadByte(m, k))}
    IN  IF fits = {} THEN NoMsg ELSE CHOOSE m \in fits : TRUE

------------------------------------------------------------------------------
\* The message can never fit, or does not fit now: write returns false.
WriteRefused(m) == /\ wpc = "idle"
                   /\ \/ m.len = 0
                      \/ m.len + HDR > SIZE - 1
                      \/ FreeSpace(head, tail) < m.len + HDR
                   /\ UNCHANGED vars

WriteBegin(m) == /\ wpc = "idle"
                 /\ m.len # 0
                 /\ m.len + HDR <= SIZE - 1
                 /\ FreeSpace(head, tail) >= m.len + HDR
                 /\ writes < MaxWrites
                 /\ writes' = writes + 1
                 /\ msg' = m
                 /\ wpc' = "header"
                 /\ UNCHANGED <<buffer, head, tail, rpc, out>>

WriteHeader == /\ wpc = "header"
               /\ buffer' = WriteAt(head, HDR, LAMBDA k : HeaderByte(msg.len, k))
               /\ wpc' = "payload"
               /\ UNCHANGED <<head, tail, msg, rpc, out, writes>>

WritePayload == /\ wpc = "payload"
                /\ buffer' = WriteAt(Masked(head + HDR), msg.len, LAMBDA k : PayloadByte(msg, k))
                /\ wpc' = "publish"
                /\ UNCHANGED <<head, tail, msg, rpc, out, writes>>

WritePublish == /\ wpc = "publish"
                /\ head' = Masked(head + HDR + msg.len)
                /\ wpc' = "idle"
                /\ UNCHANGED <<buffer, tail, msg, rpc, out, writes>>

\* Nothing there, a partial frame, or a message larger than the caller's
\* buffer: read returns 0 and consumes nothing.
ReadNothing(max) ==
    /\ rpc = "idle"
    /\ LET avail == Available(head, tail)
           len == LenAt(tail)
       IN  avail < HDR \/ len = 0 \/ avail < HDR + len \/ len > max
    /\ UNCHANGED vars

ReadPayload(max) ==
    /\ rpc = "idle"
    /\ LET avail == Available(head, tail)
           len == LenAt(tail)
       IN  /\ avail >= HDR
           /\ len # 0 /\ avail >= HDR + len /\ len <= max
           /\ out' = PayloadAt(Masked(tail + HDR), len)
    /\ rpc' = "release"
    /\ UNCHANGED <<buffer, head, tail, wpc, msg, writes>>

ReadRelease == /\ rpc = "release"
               /\ tail' = Masked(tail + HDR + LenAt(tail))
               /\ rpc' = "idle"
               /\ UNCHANGED <<buffer, head, wpc, msg, out, writes>>

Write == \/ \E m \in Msg : WriteRefused(m) \/ WriteBegin(m)
         \/ WriteHeader \/ WritePayload \/ WritePublish

Read == (\E max \in MaxLen : ReadNothing(max) \/ ReadPayload(max)) \/ ReadRelease

Next == Write \/ Read

Spec == Init /\ [][Next]_vars

------------------------------------------------------------------------------
\* The frames in the n bytes from t on.
RECURSIVE Frames(_, _)
Frames(t, n) ==
    IF n = 0 THEN <<>>
    ELSE LET len == LenAt(t)
         IN  IF len = 0 \/ len + HDR > n THEN <<NoMsg>>
             ELSE <<PayloadAt(Masked(t + HDR), len)>> \o Frames(Masked(t + HDR + len), n - HDR - len)

(***************************************************************************)
(* The ring is a FIFO of whole messages: what lies between tail_ and head_ *)
(* decodes into the messages written and not yet read, wherever the frames *)
(* wrap; a write in progress disturbs none of them, and a read that is     *)
(* refused for its buffer's size loses nothing.  Its capacity is bounded   *)
(* in bytes: no more than SIZE - 1 of them, so no more than SIZE messages. *)
(***************************************************************************)
Contents == LET f == Frames(tail, Available(head, tail))
            IN  IF rpc = "release" THEN Tail(f) ELSE f
FIFO == INSTANCE BoundedFIFO
          WITH Value <- Msg, Consumer <- {"consumer"}, NoValue <- NoMsg, Cap <- SIZE,
               queue <- Contents, out <- [c \in {"consumer"} |-> out]
ImplementsFIFO == FIFO!Spec
==============================================================================

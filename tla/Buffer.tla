-------------------------------- MODULE Buffer --------------------------------
(***************************************************************************)
(* webserver/buffer.cpp, the byte buffer of the log and of a connection:   *)
(* the bytes between readPos_ and writePos_ are to be read; those before   *)
(* and behind are free.  Byte i of the sources, counted from 0, is         *)
(* buffer[i + 1].                                                          *)
(*                                                                         *)
(* The file descriptors are external: a readv() fills the free part of the *)
(* buffer and then a local array, a write() takes any part of what it is   *)
(* offered, and either may fail.                                           *)
(***************************************************************************)
EXTENDS Integers, Sequences

CONSTANTS
  Bytes,      \* what is read and written
  Zero,       \* the byte 0
  InitSize,   \* the size at first
  Spill,      \* the size of ReadFd's local array, 65535 in the sources
  MaxSize,    \* bound: the size of the buffer
  MaxAppend   \* bound: the bytes appended at once

VARIABLES rep,    \* the buffer
          items   \* ghost: the bytes appended and not retrieved, oldest first

ReadableBytes(b) == b.writePos - b.readPos
WritableBytes(b) == Len(b.buffer) - b.writePos
PrependableBytes(b) == b.readPos
Readable(b) == SubSeq(b.buffer, b.readPos + 1, b.writePos)

\* The bytes s from position p on, over what was there.
Overwritten(m, p, s) == SubSeq(m, 1, p) \o s \o SubSeq(m, p + Len(s) + 1, Len(m))
Zeros(n) == [i \in 1..n |-> Zero]

\* Grow by what is needed, or move what is to be read to the front.
MakeSpace_(b, len) ==
  IF WritableBytes(b) + PrependableBytes(b) < len
  THEN [b EXCEPT !.buffer = @ \o Zeros(b.writePos + len + 1 - Len(@))]
  ELSE [buffer |-> Overwritten(b.buffer, 0, Readable(b)),
        readPos |-> 0, writePos |-> ReadableBytes(b)]

EnsureWritable(b, len) == IF WritableBytes(b) < len THEN MakeSpace_(b, len) ELSE b
HasWritten(b, len) == [b EXCEPT !.writePos = @ + len]

\* Append(str, len), which the other three call.
Appended(b, s) ==
  LET b1 == EnsureWritable(b, Len(s))
  IN  HasWritten([b1 EXCEPT !.buffer = Overwritten(@, b1.writePos, s)], Len(s))

Retrieved(b, len) == [b EXCEPT !.readPos = @ + len]

\* readv() delivers s: first into the buffer, the rest into the array.
ReadInto(b, s) ==
  LET writable == WritableBytes(b)
      filled(here) == HasWritten([b EXCEPT !.buffer = Overwritten(@, b.writePos, here)], Len(here))
  IN  IF Len(s) <= writable THEN filled(s)
      ELSE Appended(filled(SubSeq(s, 1, writable)), SubSeq(s, writable + 1, Len(s)))

-----------------------------------------------------------------------------
Init ==
  /\ rep = [buffer |-> Zeros(InitSize), readPos |-> 0, writePos |-> 0]
  /\ items = <<>>

Fits(b) == Len(b.buffer) <= MaxSize

Append_(s) ==
  /\ Fits(Appended(rep, s))
  /\ rep' = Appended(rep, s)
  /\ items' = items \o s

\* snprintf to BeginWrite() and HasWritten, as in log.cpp, of what fits there.
WriteInPlace(s) ==
  /\ Len(s) <= WritableBytes(rep)
  /\ rep' = HasWritten([rep EXCEPT !.buffer = Overwritten(@, rep.writePos, s)], Len(s))
  /\ items' = items \o s

Reserve(len) ==
  /\ Fits(EnsureWritable(rep, len))
  /\ rep' = EnsureWritable(rep, len)
  /\ UNCHANGED items

\* Retrieve(len), or RetrieveUntil a place len bytes further.
Retrieve(len) ==
  /\ len <= ReadableBytes(rep)
  /\ rep' = Retrieved(rep, len)
  /\ items' = SubSeq(items, len + 1, Len(items))

\* Also RetrieveAllToStr, which copies Readable first.
RetrieveAll ==
  /\ rep' = [buffer |-> Zeros(Len(rep.buffer)), readPos |-> 0, writePos |-> 0]
  /\ items' = <<>>

\* A readv() that delivers s; one that fails changes nothing.
ReadFd(s) ==
  /\ Len(s) <= WritableBytes(rep) + Spill
  /\ Fits(ReadInto(rep, s))
  /\ rep' = ReadInto(rep, s)
  /\ items' = items \o s

\* A write() that takes the first len bytes.
WriteFd(len) ==
  /\ len <= ReadableBytes(rep)
  /\ rep' = Retrieved(rep, len)
  /\ items' = SubSeq(items, len + 1, Len(items))

Next ==
  \/ \E n \in 0..MaxAppend : \E s \in [1..n -> Bytes] :
       Append_(s) \/ WriteInPlace(s) \/ ReadFd(s)
  \/ \E len \in 0..MaxAppend : Retrieve(len) \/ WriteFd(len) \/ Reserve(len)
  \/ RetrieveAll

-----------------------------------------------------------------------------
\* What is to be read is what was appended and not retrieved, in that order,
\* however the bytes were moved or spilled; and there is always room for what
\* EnsureWritable was asked for (its assertion).
IsStream ==
  /\ 0 <= rep.readPos /\ rep.readPos <= rep.writePos /\ rep.writePos <= Len(rep.buffer)
  /\ Readable(rep) = items
  /\ \A len \in 0..MaxAppend : WritableBytes(EnsureWritable(rep, len)) >= len
=============================================================================

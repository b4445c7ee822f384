------------------------------ MODULE ZixRing -------------------------------
(***************************************************************************)
(* The zix ring buffer under its documented use (zix/ring.h): one writer   *)
(* thread, one reader thread, no lock.  Every access of one thread to the  *)
(* memory the other thread writes is a step of its own: the load of the    *)
(* other side's head, each copied byte, the store of the own head.         *)
(*                                                                         *)
(* The two barriers of the code order the copies before the store of the   *)
(* own head; nothing orders the reader's copies after its load of          *)
(* write_head, so whether they are is a property of the processor:         *)
(* LoadsInOrder is TRUE on x86 and FALSE on ARM, and the Makefile builds   *)
(* for both.                                                               *)
(*                                                                         *)
(* sent, rcvd and got are history variables; byte i of the stream is the   *)
(* number i.                                                               *)
(***************************************************************************)
EXTENDS ZixRingHeads

CONSTANTS Blocks,        \* the sizes asked for by reads and writes
          MaxSent,       \* bound on the bytes written in a behaviour
          LoadsInOrder   \* loads of the reader are not reordered

ASSUME BlocksAssumption == Blocks \subseteq Nat \ {0}
ASSUME MaxSentAssumption == MaxSent \in Nat
ASSUME LoadsInOrderAssumption == LoadsInOrder \in BOOLEAN

VARIABLES
  write_head, read_head, buf,   \* struct ZixRingImpl
  wpc, wn, wr, wtodo,           \* zix_ring_write: position, size, loaded read_head, bytes left to copy
  rpc, rop, rn, rw, rtodo, dst, \* zix_ring_read / peek / skip likewise, and the caller's buffer
  sent, rcvd, got

writer == <<write_head, wpc, wn, wr, wtodo, sent>>
reader == <<read_head, rpc, rop, rn, rw, rtodo, dst, rcvd, got>>
vars == <<writer, reader, buf>>

Unset == -1       \* what malloc left in a byte
Indices == 0 .. Size - 1
Offsets(n) == 0 .. n - 1

Init ==
  /\ write_head = 0 /\ read_head = 0 /\ buf = [i \in Indices |-> Unset]
  /\ wpc = "idle" /\ wn = 0 /\ wr = 0 /\ wtodo = {}
  /\ rpc = "idle" /\ rop = "read" /\ rn = 0 /\ rw = 0 /\ rtodo = {}
  /\ dst = [k \in {} |-> Unset]
  /\ sent = 0 /\ rcvd = 0 /\ got = [k \in {} |-> Unset]
-----------------------------------------------------------------------------
(* Plausible bugs in the code below; no action of Next uses them.          *)

(* The write barrier lost: the head is stored before the last byte.        *)
PublishBeforeCopy ==
  /\ wpc = "copy" /\ \A k, l \in wtodo : k = l
  /\ write_head' = HeadAfterWrite(write_head, wn)
  /\ sent' = sent + wn /\ wpc' = "idle" /\ wtodo' = {}
  /\ UNCHANGED <<wn, wr, reader, buf>>

(* A reader that waits for the writer to leave its critical section.       *)
AcceptWhenWriterIdle ==
  /\ rpc = "check" /\ wpc = "idle" /\ rn <= ReadSpace(read_head, rw)
  /\ rpc' = "copy"
  /\ UNCHANGED <<writer, buf, read_head, rop, rn, rw, rtodo, dst, rcvd, got>>

(* A reset while a thread is inside a call.                                *)
ResetAnytime ==
  /\ write_head' = 0 /\ read_head' = 0 /\ rcvd' = sent
  /\ UNCHANGED <<wpc, wn, wr, wtodo, sent, rpc, rop, rn, rw, rtodo, dst, got, buf>>

(* The read head advanced before the bytes are copied.                     *)
ReleaseBeforeCopy ==
  /\ rpc = "copy" /\ rop # "peek" /\ read_head' = HeadAfterRead(read_head, rn)
  /\ rcvd' = rcvd + rn /\ rtodo' = {} /\ rpc' = "idle"
  /\ got' = IF rop = "skip" THEN got ELSE dst
  /\ UNCHANGED <<writer, buf, rop, rn, rw, dst>>
-----------------------------------------------------------------------------
(* The writer thread: zix_ring_write.                                      *)

WriteLoad(n) ==
  /\ wpc = "idle" /\ sent + n <= MaxSent
  /\ wpc' = "check" /\ wn' = n /\ wr' = read_head
  /\ UNCHANGED <<write_head, wtodo, sent, reader, buf>>

WriteRefuse ==
  /\ wpc = "check" /\ WriteSpace(wr, write_head) < wn
  /\ wpc' = "idle"
  /\ UNCHANGED <<write_head, wn, wr, wtodo, sent, reader, buf>>

WriteAccept ==
  /\ wpc = "check" /\ wn <= WriteSpace(wr, write_head)
  /\ wpc' = "copy" /\ wtodo' = Offsets(wn)
  /\ UNCHANGED <<write_head, wn, wr, sent, reader, buf>>

WriteCopy ==
  /\ wpc = "copy"
  /\ \E k \in wtodo :
       /\ buf' = [buf EXCEPT ![Slot(write_head, k)] = sent + k]
       /\ wtodo' = wtodo \ {k}
  /\ UNCHANGED <<write_head, wpc, wn, wr, sent, reader>>

WritePublish ==
  /\ wpc = "copy" /\ wtodo = {}
  /\ write_head' = HeadAfterWrite(write_head, wn)
  /\ sent' = sent + wn /\ wpc' = "idle"
  /\ UNCHANGED <<wn, wr, wtodo, reader, buf>>
-----------------------------------------------------------------------------
(* The reader thread: zix_ring_read, zix_ring_peek and zix_ring_skip.      *)

ReadBegin(op, n) ==
  /\ rpc = "idle"
  /\ rpc' = "load" /\ rop' = op /\ rn' = n
  /\ rtodo' = IF op = "skip" THEN {} ELSE Offsets(n)
  /\ dst' = [k \in Offsets(n) |-> Unset]
  /\ UNCHANGED <<writer, buf, read_head, rw, rcvd, got>>

ReadLoadHead ==
  /\ rpc = "load"
  /\ rpc' = "check" /\ rw' = write_head
  /\ UNCHANGED <<writer, buf, read_head, rop, rn, rtodo, dst, rcvd, got>>

ReadRefuse ==
  /\ rpc = "check" /\ ReadSpace(read_head, rw) < rn
  /\ rpc' = "idle"
  /\ UNCHANGED <<writer, buf, read_head, rop, rn, rw, rtodo, dst, rcvd, got>>

ReadAccept ==
  /\ rpc = "check" /\ rn <= ReadSpace(read_head, rw)
  /\ rpc' = "copy"
  /\ UNCHANGED <<writer, buf, read_head, rop, rn, rw, rtodo, dst, rcvd, got>>

(* A load of the memcpy.  A processor that reorders loads may perform it   *)
(* before the load of write_head that decides whether it is wanted.        *)
ReadCopy ==
  /\ IF LoadsInOrder THEN rpc = "copy" ELSE rpc # "idle"
  /\ \E k \in rtodo :
       /\ Slot(read_head, k) \in Indices
       /\ dst' = [dst EXCEPT ![k] = buf[Slot(read_head, k)]]
       /\ rtodo' = rtodo \ {k}
  /\ UNCHANGED <<writer, buf, read_head, rpc, rop, rn, rw, rcvd, got>>

ReadRelease ==
  /\ rpc = "copy" /\ rtodo = {} /\ rop # "peek"
  /\ read_head' = HeadAfterRead(read_head, rn)
  /\ rcvd' = rcvd + rn /\ rpc' = "idle"
  /\ got' = IF rop = "skip" THEN got ELSE dst
  /\ UNCHANGED <<writer, buf, rop, rn, rw, rtodo, dst>>

PeekReturn ==
  /\ rpc = "copy" /\ rtodo = {} /\ rop = "peek"
  /\ got' = dst /\ rpc' = "idle"
  /\ UNCHANGED <<writer, buf, read_head, rop, rn, rw, rtodo, dst, rcvd>>

(* zix_ring_reset may only be called when no thread reads or writes.       *)
Reset ==
  /\ wpc = "idle" /\ rpc = "idle"
  /\ write_head' = 0 /\ read_head' = 0 /\ rcvd' = sent
  /\ UNCHANGED <<wpc, wn, wr, wtodo, sent, rpc, rop, rn, rw, rtodo, dst, got, buf>>
-----------------------------------------------------------------------------
WriterStep == WriteRefuse \/ WriteAccept \/ WriteCopy \/ WritePublish
ReaderStep ==
  ReadLoadHead \/ ReadRefuse \/ ReadAccept \/ ReadCopy \/ ReadRelease \/ PeekReturn

Next ==
  \/ \E n \in Blocks : WriteLoad(n)
  \/ \E n \in Blocks, op \in {"read", "peek", "skip"} : ReadBegin(op, n)
  \/ WriterStep
  \/ ReaderStep
  \/ Reset

Spec == Init /\ [][Next]_vars

(* The reader inside a call is scheduled; nothing is assumed of the writer *)
(* and nobody is obliged to make another call.                             *)
ReaderFairSpec == Spec /\ WF_vars(ReaderStep)
-----------------------------------------------------------------------------
(* Types of the ring, of the calls in progress and of the history.         *)
TypeOK ==
  /\ write_head \in Indices /\ read_head \in Indices
  /\ buf \in [Indices -> Nat \cup {Unset}]
  /\ wpc \in {"idle", "check", "copy"} /\ rpc \in {"idle", "load", "check", "copy"}
  /\ wn \in Nat /\ rn \in Nat /\ wr \in Indices /\ rw \in Indices
  /\ wtodo \in SUBSET Offsets(wn) /\ rtodo \in SUBSET Offsets(rn)
  /\ rop \in {"read", "peek", "skip"}
  /\ dst \in [Offsets(rn) -> Nat \cup {Unset}]
  /\ sent \in Nat /\ rcvd \in Nat

(* The heads are wrapped and one of them is always stale to the thread     *)
(* that loaded it, but they account for exactly the bytes in the ring: a   *)
(* full ring is never mistaken for an empty one.                           *)
HeadsCountBytes ==
  /\ 0 <= sent - rcvd /\ sent - rcvd <= Capacity
  /\ ReadSpace(read_head, write_head) = sent - rcvd
  /\ WriteSpace(read_head, write_head) = Capacity - (sent - rcvd)

(* A head loaded before the copy may have moved since, but only so that    *)
(* the space computed from it is still there.                              *)
StaleHeadsAreSafe ==
  /\ wpc = "check" => WriteSpace(wr, write_head) <= Capacity - (sent - rcvd)
  /\ rpc = "check" => ReadSpace(read_head, rw) <= sent - rcvd

(* The two memcpys never touch the same byte of buf.                       *)
NoSlotRace ==
  wpc = "copy" /\ rpc = "copy" =>
    \A i \in Offsets(wn), j \in Offsets(rn) : Slot(write_head, i) # Slot(read_head, j)

(* Every call of the reader ends whatever the writer does, even if it      *)
(* stops half-way through its own call ("realtime safe on both ends",      *)
(* zix/ring.h).                                                            *)
ReadReturns == rpc # "idle" ~> rpc = "idle"

(* The ring is a bounded, loss-free and ordered byte stream.               *)
Stream == INSTANCE ByteStream WITH Room <- Capacity
StreamSpec == Stream!Spec

(* "Thread-safe with a single reader and single writer" (zix/ring.h): the  *)
(* block a read hands out is the next block of the stream.                 *)
BlocksInOrder ==
  rpc = "copy" /\ rtodo = {} /\ rop # "skip" => \A k \in Offsets(rn) : dst[k] = rcvd + k
=============================================================================

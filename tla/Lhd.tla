-------------------------------- MODULE Lhd --------------------------------
(***************************************************************************)
(* Block I/O: threads that read and write sectors through sfs_rwblock,     *)
(* which retries, or through the raw device, which does not and whose data *)
(* is in user space, where uiomove can fail; the disk driver's lhd_io,     *)
(* which owns the card between P(lh_clear) and V(lh_clear) and waits for   *)
(* the interrupt handler with P(lh_done); the card, which completes an     *)
(* operation or fails it, and lhd_irq.  The semaphores are counts, as      *)
(* SemaphoreSpec has them.  Offsets and sizes are in sectors, and a        *)
(* request writes one value.                                               *)
(***************************************************************************)
EXTENDS Integers, Sequences

CONSTANTS Threads, Data,
          RawThreads,   \* the threads that use the raw device
          NumSectors,   \* d_blocks
          MaxLen,       \* bound: sectors in a request
          MaxTries,     \* retries of sfs_rwblock (10 in the code)
          None

ASSUME LhdAssumption == NumSectors \in Nat \ {0} /\ MaxLen \in Nat /\ MaxTries \in Nat

Sectors == 0 .. NumSectors - 1
EIO == 1
EFAULT == 2

VARIABLES
  disk,
  card,               \* LHD_REG_STAT, LHD_REG_SECT and the transfer buffer
  lh_clear, lh_done,  \* semaphore counts
  lh_result,
  pc, uio, tries, result,   \* per thread
  got,                \* the values a read has delivered, in order
  seen, wrote         \* since a thread's call: the values that each sector has
                      \* had (if it reads), and the sectors that its data is on

thread == <<pc, uio, tries, result, got>>
vars == <<disk, card, lh_clear, lh_done, lh_result, thread, seen, wrote>>

NoUio == [rw |-> "none", sector |-> 0, resid |-> 0, data |-> None, first |-> 0, raw |-> FALSE]

Init ==
  /\ disk \in [Sectors -> Data]
  /\ card = [stat |-> "idle", rw |-> "none", sect |-> 0, buf |-> None]
  /\ lh_clear = 1 /\ lh_done = 0 /\ lh_result = 0
  /\ pc = [t \in Threads |-> "out"]
  /\ uio = [t \in Threads |-> NoUio]
  /\ tries = [t \in Threads |-> 0]
  /\ result = [t \in Threads |-> 0]
  /\ got = [t \in Threads |-> <<>>]
  /\ seen = [t \in Threads |-> [s \in Sectors |-> {}]]
  /\ wrote = [t \in Threads |-> {}]

Goto(t, p) == pc' = [pc EXCEPT ![t] = p]
Advance(u) == [u EXCEPT !.sector = @ + 1, !.resid = @ - 1]

\* sfs_readblock, sfs_writeblock, or the raw device: a request for sectors of the
\* disk.
sfs_rwblock(t) ==
  /\ pc[t] = "out"
  /\ \E rw \in {"read", "write"}, s \in Sectors, n \in 1 .. MaxLen, d \in Data, raw \in BOOLEAN :
       /\ s + n <= NumSectors /\ (raw => t \in RawThreads)
       /\ uio' = [uio EXCEPT ![t] =
            [rw |-> rw, sector |-> s, resid |-> n, first |-> s, raw |-> raw,
             data |-> IF rw = "write" THEN d ELSE None]]
  /\ tries' = [tries EXCEPT ![t] = 0]
  /\ got' = [got EXCEPT ![t] = <<>>]
  /\ seen' = [seen EXCEPT ![t] =
       [s \in Sectors |-> IF uio'[t].rw = "read" THEN {disk[s]} ELSE {}]]
  /\ wrote' = [wrote EXCEPT ![t] = {}]
  /\ Goto(t, "lhd_io")
  /\ UNCHANGED <<disk, card, lh_clear, lh_done, lh_result, result>>

\* The loop of lhd_io: all sectors done.
io_return(t) ==
  /\ pc[t] = "lhd_io" /\ uio[t].resid = 0
  /\ result' = [result EXCEPT ![t] = 0]
  /\ Goto(t, "returned")
  /\ UNCHANGED <<disk, card, lh_clear, lh_done, lh_result, uio, tries, got, seen, wrote>>

\* Mutant: the driver does not wait until the card is clear.
io_start_unclear(t) ==
  /\ pc[t] = "lhd_io" /\ uio[t].resid > 0
  /\ UNCHANGED lh_clear
  /\ card' = [stat |-> "working", rw |-> uio[t].rw, sect |-> uio[t].sector,
              buf |-> IF uio[t].rw = "write" THEN uio[t].data ELSE card.buf]
  /\ uio' = IF uio[t].rw = "write" THEN [uio EXCEPT ![t] = Advance(@)] ELSE uio
  /\ Goto(t, "wait")
  /\ UNCHANGED <<disk, lh_done, lh_result, tries, result, got, seen, wrote>>

\* P(lh_clear), and start the operation on one sector; the data of a write is
\* moved out of the uio first.
io_start(t) ==
  /\ pc[t] = "lhd_io" /\ uio[t].resid > 0
  /\ lh_clear > 0 /\ lh_clear' = lh_clear - 1
  /\ card' = [stat |-> "working", rw |-> uio[t].rw, sect |-> uio[t].sector,
              buf |-> IF uio[t].rw = "write" THEN uio[t].data ELSE card.buf]
  /\ uio' = IF uio[t].rw = "write" THEN [uio EXCEPT ![t] = Advance(@)] ELSE uio
  /\ Goto(t, "wait")
  /\ UNCHANGED <<disk, lh_done, lh_result, tries, result, got, seen, wrote>>

\* Or the data of a write cannot be had: V(lh_clear), with nothing started.
io_fault(t) ==
  /\ pc[t] = "lhd_io" /\ uio[t].resid > 0 /\ uio[t].rw = "write" /\ uio[t].raw
  /\ lh_clear > 0
  /\ result' = [result EXCEPT ![t] = EFAULT]
  /\ Goto(t, "returned")
  /\ UNCHANGED <<disk, card, lh_clear, lh_done, lh_result, uio, tries, got, seen, wrote>>

\* The thread whose operation the card is doing.
Owner(t) == pc[t] = "wait"

\* The card completes the operation, or fails with a media error; the interrupt
\* line follows the status register.
card_ok ==
  /\ card.stat = "working"
  /\ IF card.rw = "write"
     THEN /\ disk' = [disk EXCEPT ![card.sect] = card.buf]
          /\ card' = [card EXCEPT !.stat = "ok"]
          /\ seen' = [t \in Threads |->
                        IF uio[t].rw = "read"
                        THEN [seen[t] EXCEPT ![card.sect] = @ \cup {card.buf}] ELSE seen[t]]
          /\ wrote' = [t \in Threads |->
                         IF Owner(t) /\ card.buf = uio[t].data
                         THEN wrote[t] \cup {card.sect} ELSE wrote[t]]
     ELSE /\ card' = [card EXCEPT !.stat = "ok", !.buf = disk[card.sect]]
          /\ UNCHANGED <<disk, seen, wrote>>
  /\ UNCHANGED <<lh_clear, lh_done, lh_result, thread>>

card_media ==
  /\ card.stat = "working"
  /\ card' = [card EXCEPT !.stat = "media"]
  /\ UNCHANGED <<disk, lh_clear, lh_done, lh_result, thread, seen, wrote>>

\* Mutant: the status register is cleared but nobody is told.
lhd_irq_silent ==
  /\ card.stat \in {"ok", "media"}
  /\ card' = [card EXCEPT !.stat = "idle"]
  /\ UNCHANGED <<disk, lh_clear, lh_done, lh_result, thread, seen, wrote>>

\* lhd_irq: clear the status register, save the result, V(lh_done).
lhd_irq ==
  /\ card.stat \in {"ok", "media"}
  /\ card' = [card EXCEPT !.stat = "idle"]
  /\ lh_result' = (IF card.stat = "ok" THEN 0 ELSE EIO)
  /\ lh_done' = lh_done + 1
  /\ UNCHANGED <<disk, lh_clear, thread, seen, wrote>>

\* Mutant: the buffer is moved out even if the read has failed.
io_done_early(t) ==
  /\ pc[t] = "wait"
  /\ lh_done > 0 /\ lh_done' = lh_done - 1
  /\ lh_clear' = lh_clear + 1
  /\ IF lh_result = 0
     THEN Goto(t, "lhd_io") /\ UNCHANGED result
     ELSE Goto(t, "returned") /\ result' = [result EXCEPT ![t] = lh_result]
  /\ uio' = IF uio[t].rw = "read" THEN [uio EXCEPT ![t] = Advance(@)] ELSE uio
  /\ got' = IF uio[t].rw = "read" THEN [got EXCEPT ![t] = Append(@, card.buf)] ELSE got
  /\ UNCHANGED <<disk, card, lh_result, tries, seen, wrote>>

\* P(lh_done), move the data of a read that succeeded, V(lh_clear), and go on
\* with the next sector or return the error, of the card or of uiomove.
io_done(t) ==
  /\ pc[t] = "wait"
  /\ lh_done > 0 /\ lh_done' = lh_done - 1
  /\ lh_clear' = lh_clear + 1
  /\ \/ /\ lh_result # 0
        /\ Goto(t, "returned") /\ result' = [result EXCEPT ![t] = lh_result]
        /\ UNCHANGED <<uio, got>>
     \/ /\ lh_result = 0 /\ uio[t].rw = "write"
        /\ Goto(t, "lhd_io")
        /\ UNCHANGED <<result, uio, got>>
     \/ /\ lh_result = 0 /\ uio[t].rw = "read"
        /\ Goto(t, "lhd_io")
        /\ uio' = [uio EXCEPT ![t] = Advance(@)]
        /\ got' = [got EXCEPT ![t] = Append(@, card.buf)]
        /\ UNCHANGED result
     \/ /\ lh_result = 0 /\ uio[t].rw = "read" /\ uio[t].raw
        /\ Goto(t, "returned") /\ result' = [result EXCEPT ![t] = EFAULT]
        /\ UNCHANGED <<uio, got>>
  /\ UNCHANGED <<disk, card, lh_result, tries, seen, wrote>>

\* sfs_rwblock tries again, with the same uio, after an I/O error ...
rwblock_retry(t) ==
  /\ pc[t] = "returned" /\ result[t] = EIO /\ tries[t] < MaxTries /\ ~uio[t].raw
  /\ tries' = [tries EXCEPT ![t] = @ + 1]
  /\ Goto(t, "lhd_io")
  /\ UNCHANGED <<disk, card, lh_clear, lh_done, lh_result, uio, result, got, seen, wrote>>

\* ... and returns what it has got in the end.
rwblock_return(t) ==
  /\ pc[t] = "returned" /\ (result[t] # EIO \/ tries[t] = MaxTries \/ uio[t].raw)
  /\ Goto(t, "out")
  /\ uio' = [uio EXCEPT ![t] = NoUio]
  /\ tries' = [tries EXCEPT ![t] = 0]
  /\ result' = [result EXCEPT ![t] = 0]
  /\ got' = [got EXCEPT ![t] = <<>>]
  /\ seen' = [seen EXCEPT ![t] = [s \in Sectors |-> {}]]
  /\ wrote' = [wrote EXCEPT ![t] = {}]
  /\ UNCHANGED <<disk, card, lh_clear, lh_done, lh_result>>

Proceed(t) == io_return(t) \/ io_done(t) \/ rwblock_retry(t) \/ rwblock_return(t)
Device == card_ok \/ card_media \/ lhd_irq
Next == Device \/ \E t \in Threads : sfs_rwblock(t) \/ io_start(t) \/ io_fault(t) \/ Proceed(t)

\* The card finishes what it has begun, its interrupt is taken, and a thread
\* that is awake runs.
Fairness == WF_vars(Device) /\ \A t \in Threads : WF_vars(Proceed(t))

Spec == Init /\ [][Next]_vars /\ Fairness

----------------------------------------------------------------------------

\* The card has one user at a time, who waits exactly as long as the card works
\* or the completion has not been taken: no completion goes to another thread,
\* and none is left over for the next operation.
OneOperation ==
  LET inflight == {t \in Threads : Owner(t)}
      busy == IF card.stat = "idle" THEN 0 ELSE 1
  IN  /\ \A t, u \in inflight : t = u
      /\ lh_clear = 1 <=> inflight = {}
      /\ lh_done + busy = (IF inflight = {} THEN 0 ELSE 1)

\* A read that succeeds has delivered, for each sector it asked for, a value
\* which that sector had at some time during the read, after any number of
\* retries and with other threads using the card in between.
ReadsAreGood ==
  \A t \in Threads :
    pc[t] = "returned" /\ result[t] = 0 /\ uio[t].rw = "read" =>
      /\ Len(got[t]) = uio[t].sector - uio[t].first
      /\ \A i \in 1 .. Len(got[t]) : got[t][i] \in seen[t][uio[t].first + i - 1]

Requested(t) == uio[t].first .. uio[t].sector + uio[t].resid - 1

\* A write that succeeds without a retry has its data on all the sectors it was
\* asked for, with other threads using the card between them.
WritesAreGood ==
  \A t \in Threads :
    pc[t] = "returned" /\ result[t] = 0 /\ uio[t].rw = "write" /\ tries[t] = 0 =>
      wrote[t] = Requested(t)

\* The card has one user at a time and no completion is left over for the next
\* one; a read that succeeds has delivered what the sectors held while it ran,
\* also after retries; and a write that succeeds at the first try has written
\* what and where it was asked to.
DiskExact == OneOperation /\ ReadsAreGood /\ WritesAreGood

\* A write that succeeds, retried or not, has written all its sectors.
EveryWriteWrites ==
  \A t \in Threads :
    pc[t] = "returned" /\ result[t] = 0 /\ uio[t].rw = "write" => wrote[t] = Requested(t)

\* An operation that has been started ends, and its thread is woken.
OperationEnds == \A t \in Threads : pc[t] = "wait" ~> pc[t] # "wait"
=============================================================================

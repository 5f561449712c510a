------------------------------ MODULE Console ------------------------------
(***************************************************************************)
(* The console over the serial card: putch by interrupt and by polling     *)
(* (lser_write, lser_writepolled), lser_irq with con_start and con_input,  *)
(* and getch, called by con_io under con_userlock_read and by the menu's   *)
(* kgets under no lock.  Card interrupts are routed to the boot CPU only,  *)
(* so one lser_irq runs at a time, but threads on other CPUs write and     *)
(* read meanwhile.  ls_lock is a variable because a polling writer keeps   *)
(* it while the card works; every other hold of it is one step.            *)
(***************************************************************************)
EXTENDS Integers, Sequences, FiniteSets

CONSTANTS Writers,        \* threads that call putch
          Readers,        \* threads that call getch ...
          Kgets,          \* ... and the ones of them that do so through kgets
          Chars, NoChar,
          INPUT_BUFFER,   \* CONSOLE_INPUT_BUFFER_SIZE
          Free            \* the holder of a free lock

ASSUME ConAssumption ==
  /\ IsFiniteSet(Writers) /\ Free \notin Writers \cup Readers
  /\ NoChar \notin Chars /\ INPUT_BUFFER \in Nat \ {0}

VARIABLES
  WIRQ, sending,   \* the card: write interrupt register, a character going out
  rchar,           \* the card: the character received (RIRQ is active), or NoChar
  ls_lock, ls_wbusy,
  cs_wsem, cs_rsem,                                 \* semaphore counts
  cs_gotchars, cs_gotchars_head, cs_gotchars_tail,
  irq,             \* lser_irq between its unlock and its return, or "idle"
  con_userlock_read,
  wpc, rpc,        \* where writers and readers are
  ch, tail,        \* what a reader has read: the character, and cs_gotchars_tail
  typed,           \* the characters con_input took and getch has not returned
  together         \* have two readers ever been behind P(cs_rsem) at once?

card_vars == <<WIRQ, sending, rchar>>
ring == <<cs_gotchars, cs_gotchars_head, cs_gotchars_tail, typed>>
readers == <<con_userlock_read, rpc, ch, tail, together>>
con_vars == <<card_vars, ls_lock, ls_wbusy, cs_wsem, cs_rsem, ring, irq, wpc, readers>>

\* A write to the register: it clears the ready condition.
SetWIRQ(enable, force) == WIRQ' = [enable |-> enable, force |-> force, active |-> FALSE]

ConInit ==
  /\ WIRQ = [enable |-> TRUE, force |-> FALSE, active |-> FALSE]
  /\ sending = FALSE /\ rchar = NoChar
  /\ ls_lock = Free /\ ls_wbusy = FALSE
  /\ cs_wsem = 1 /\ cs_rsem = 0
  /\ cs_gotchars = [i \in 0 .. INPUT_BUFFER - 1 |-> NoChar]
  /\ cs_gotchars_head = 0 /\ cs_gotchars_tail = 0
  /\ irq = [at |-> "idle", clear_to_write |-> FALSE, ch |-> NoChar]
  /\ con_userlock_read = Free
  /\ wpc = [w \in Writers |-> "out"]
  /\ rpc = [r \in Readers |-> IF r \in Kgets THEN "getch" ELSE "out"]
  /\ ch = [r \in Readers |-> NoChar] /\ tail = [r \in Readers |-> 0]
  /\ typed = << >> /\ together = FALSE

WGoto(w, from, to) == wpc[w] = from /\ wpc' = [wpc EXCEPT ![w] = to]
RGoto(r, from, to) == rpc[r] = from /\ rpc' = [rpc EXCEPT ![r] = to]

----------------------------------------------------------------------------
\* The card

card_sent ==
  /\ sending /\ sending' = FALSE
  /\ WIRQ' = [WIRQ EXCEPT !.active = TRUE]
  /\ UNCHANGED <<rchar, ls_lock, ls_wbusy, cs_wsem, cs_rsem, ring, irq, wpc, readers>>

card_received ==
  /\ rchar = NoChar /\ rchar' \in Chars
  /\ UNCHANGED <<WIRQ, sending, ls_lock, ls_wbusy, cs_wsem, cs_rsem, ring, irq, wpc, readers>>

Interrupting == (WIRQ.enable /\ (WIRQ.active \/ WIRQ.force)) \/ rchar # NoChar

----------------------------------------------------------------------------
\* putch

\* putch_intr: P(cs_wsem) ...
putch_intr(w) ==
  /\ WGoto(w, "out", "send")
  /\ cs_wsem > 0 /\ cs_wsem' = cs_wsem - 1
  /\ UNCHANGED <<card_vars, ls_lock, ls_wbusy, cs_rsem, ring, irq, readers>>

\* ... and lser_write, which panics if ls_wbusy (see WriteIsClear).
lser_write(w) ==
  /\ WGoto(w, "send", "out")
  /\ ls_lock = Free /\ ~ls_wbusy
  /\ ls_wbusy' = TRUE
  /\ sending' = TRUE
  /\ UNCHANGED <<WIRQ, rchar, ls_lock, cs_wsem, cs_rsem, ring, irq, readers>>

\* putch_polled, by an interrupt handler or with a spinlock held: lser_writepolled
\* finds a write in progress and waits for it ...
writepolled_busy(w) ==
  /\ WGoto(w, "out", "poll_until_write")
  /\ ls_lock = Free /\ ls_lock' = w /\ ls_wbusy
  /\ UNCHANGED <<card_vars, ls_wbusy, cs_wsem, cs_rsem, ring, irq, readers>>

\* ... leaving the interrupt asserted, by force ...
writepolled_force(w) ==
  /\ WGoto(w, "poll_until_write", "send_pending")
  /\ WIRQ.active
  /\ SetWIRQ(TRUE, TRUE)
  /\ UNCHANGED <<sending, rchar, ls_lock, ls_wbusy, cs_wsem, cs_rsem, ring, irq, readers>>

\* ... or finds none, and turns the interrupt off.
writepolled_idle(w) ==
  /\ WGoto(w, "out", "send_polled")
  /\ ls_lock = Free /\ ls_lock' = w /\ ~ls_wbusy
  /\ SetWIRQ(FALSE, FALSE)
  /\ UNCHANGED <<sending, rchar, ls_wbusy, cs_wsem, cs_rsem, ring, irq, readers>>

writepolled_send(w) ==
  /\ WGoto(w, "send_pending", "poll_pending") \/ WGoto(w, "send_polled", "poll_polled")
  /\ sending' = TRUE
  /\ UNCHANGED <<WIRQ, rchar, ls_lock, ls_wbusy, cs_wsem, cs_rsem, ring, irq, readers>>

\* Mutant: the ready condition is cleared although an interrupt was pending.
writepolled_done_cleared(w) ==
  /\ WGoto(w, "poll_pending", "out") \/ WGoto(w, "poll_polled", "out")
  /\ WIRQ.active
  /\ SetWIRQ(TRUE, FALSE)
  /\ ls_lock' = Free
  /\ UNCHANGED <<sending, rchar, ls_wbusy, cs_wsem, cs_rsem, ring, irq, readers>>

\* The character is out.  With an interrupt pending the register is left alone.
writepolled_done(w) ==
  /\ \/ WGoto(w, "poll_pending", "out") /\ UNCHANGED WIRQ
     \/ WGoto(w, "poll_polled", "out") /\ SetWIRQ(TRUE, FALSE)
  /\ WIRQ.active
  /\ ls_lock' = Free
  /\ UNCHANGED <<sending, rchar, ls_wbusy, cs_wsem, cs_rsem, ring, irq, readers>>

----------------------------------------------------------------------------
\* Interrupts

\* Mutant: any interrupt of the card counts as the end of a write.
lser_irq_any ==
  /\ irq.at = "idle" /\ Interrupting /\ ls_lock = Free
  /\ irq' = [at |-> "callbacks", clear_to_write |-> ls_wbusy, ch |-> rchar]
  /\ ls_wbusy' = FALSE /\ SetWIRQ(TRUE, FALSE)
  /\ rchar' = NoChar
  /\ UNCHANGED <<sending, ls_lock, cs_wsem, cs_rsem, ring, wpc, readers>>

\* lser_irq, under ls_lock ...
lser_irq ==
  /\ irq.at = "idle" /\ Interrupting /\ ls_lock = Free
  /\ irq' = [at |-> "callbacks", clear_to_write |-> WIRQ.active, ch |-> rchar]
  /\ IF WIRQ.active THEN ls_wbusy' = FALSE /\ SetWIRQ(TRUE, FALSE)
                    ELSE UNCHANGED <<ls_wbusy, WIRQ>>
  /\ rchar' = NoChar
  /\ UNCHANGED <<sending, ls_lock, cs_wsem, cs_rsem, ring, wpc, readers>>

con_start == cs_wsem' = IF irq.clear_to_write THEN cs_wsem + 1 ELSE cs_wsem

Following(i) == (i + 1) % INPUT_BUFFER

\* Mutant: the buffer counts as full one character too late.
buffer_full_late(head) == FALSE

\* One slot stays empty, to tell a full buffer from an empty one.
buffer_full(head) == Following(head) = cs_gotchars_tail

con_input ==
  IF irq.ch = NoChar \/ buffer_full(cs_gotchars_head)
  THEN UNCHANGED <<ring, cs_rsem>>
  ELSE /\ cs_gotchars' = [cs_gotchars EXCEPT ![cs_gotchars_head] = irq.ch]
       /\ cs_gotchars_head' = Following(cs_gotchars_head)
       /\ typed' = Append(typed, irq.ch)
       /\ cs_rsem' = cs_rsem + 1
       /\ UNCHANGED cs_gotchars_tail

\* ... and then without it.
irq_callbacks ==
  /\ irq.at = "callbacks"
  /\ con_start /\ con_input
  /\ irq' = [at |-> "idle", clear_to_write |-> FALSE, ch |-> NoChar]
  /\ UNCHANGED <<card_vars, ls_lock, ls_wbusy, wpc, readers>>

----------------------------------------------------------------------------
\* Readers

\* Mutant: con_io reads without the lock.
con_io_acquire_none(r) ==
  /\ r \notin Kgets /\ RGoto(r, "out", "getch")
  /\ UNCHANGED <<card_vars, ls_lock, ls_wbusy, cs_wsem, cs_rsem, ring, irq, wpc,
                 con_userlock_read, ch, tail, together>>

\* con_io takes the readers' lock for the whole of a read ...
con_io_acquire(r) ==
  /\ r \notin Kgets /\ RGoto(r, "out", "getch")
  /\ con_userlock_read = Free /\ con_userlock_read' = r
  /\ UNCHANGED <<card_vars, ls_lock, ls_wbusy, cs_wsem, cs_rsem, ring, irq, wpc, ch, tail, together>>

\* ... and gives it back when it has all it was asked for, or a line, or no
\* place for the character; until then it calls getch again.
con_io_release(r) ==
  /\ r \notin Kgets /\ RGoto(r, "getch", "out")
  /\ con_userlock_read' = Free
  /\ UNCHANGED <<card_vars, ls_lock, ls_wbusy, cs_wsem, cs_rsem, ring, irq, wpc, ch, tail, together>>

Taking(r) == rpc[r] \in {"fetch", "store"}

\* getch_intr: P(cs_rsem) ...
getch_P(r) ==
  /\ RGoto(r, "getch", "fetch")
  /\ cs_rsem > 0 /\ cs_rsem' = cs_rsem - 1
  /\ together' = (together \/ \E q \in Readers : Taking(q))
  /\ UNCHANGED <<card_vars, ls_lock, ls_wbusy, cs_wsem, ring, irq, wpc, con_userlock_read, ch, tail>>

\* ... the character at the tail ...
getch_fetch(r) ==
  /\ RGoto(r, "fetch", "store")
  /\ ch' = [ch EXCEPT ![r] = cs_gotchars[cs_gotchars_tail]]
  /\ tail' = [tail EXCEPT ![r] = cs_gotchars_tail]
  /\ UNCHANGED <<card_vars, ls_lock, ls_wbusy, cs_wsem, cs_rsem, ring, irq, wpc,
                 con_userlock_read, together>>

\* ... and the new tail, from the one it has read.
getch_store(r) ==
  /\ RGoto(r, "store", "getch")
  /\ cs_gotchars_tail' = Following(tail[r])
  /\ typed' = IF typed = << >> THEN typed ELSE Tail(typed)
  /\ ch' = [ch EXCEPT ![r] = NoChar] /\ tail' = [tail EXCEPT ![r] = 0]
  /\ UNCHANGED <<card_vars, ls_lock, ls_wbusy, cs_wsem, cs_rsem, cs_gotchars,
                 cs_gotchars_head, irq, wpc, con_userlock_read, together>>

getch(r) ==
  \/ con_io_acquire(r) \/ con_io_release(r)
  \/ getch_P(r) \/ getch_fetch(r) \/ getch_store(r)

putch(w) ==
  \/ putch_intr(w) \/ lser_write(w)
  \/ writepolled_busy(w) \/ writepolled_idle(w)
  \/ writepolled_force(w) \/ writepolled_send(w) \/ writepolled_done(w)

ConNext ==
  \/ card_sent \/ card_received \/ lser_irq \/ irq_callbacks
  \/ \E w \in Writers : putch(w)
  \/ \E r \in Readers : getch(r)

ConSpec == ConInit /\ [][ConNext]_con_vars

----------------------------------------------------------------------------

\* Whoever is to give the card a character finds it clear: lser_write's panic
\* ("Not clear to write") never happens, and no character is written over one
\* that is still going out, with writers by interrupt and by polling mixed and
\* lser_irq between clearing ls_wbusy and calling con_start.
WriteIsClear ==
  \A w \in Writers :
    /\ wpc[w] = "send" /\ ls_lock = Free => ~ls_wbusy /\ ~sending
    /\ wpc[w] \in {"send_pending", "send_polled"} => ~sending

\* Two readers are behind P(cs_rsem) at once only if one of them comes from
\* kgets: con_io's are kept apart by con_userlock_read.
ReadersApart ==
  /\ \A r, q \in Readers : Taking(r) /\ Taking(q) /\ r # q => r \in Kgets \/ q \in Kgets
  /\ together => Kgets # {}

\* As long as that has not happened the buffer holds exactly the characters
\* that con_input took and getch has not returned, in order, cs_rsem counts
\* them, and a reader has the oldest in hand: none is overwritten, skipped or
\* returned twice when the buffer is full or wraps, though con_input and the
\* reader take no common lock.  (con_input drops what comes while it is full;
\* once two readers have read the same tail all of this is off.)
InputInOrder ==
  ~together =>
    /\ Len(typed) = (cs_gotchars_head - cs_gotchars_tail) % INPUT_BUFFER
    /\ \A i \in 1 .. Len(typed) :
         cs_gotchars[(cs_gotchars_tail + i - 1) % INPUT_BUFFER] = typed[i]
    /\ cs_rsem = Len(typed) - (IF \E r \in Readers : Taking(r) THEN 1 ELSE 0)
    /\ \A r \in Readers : rpc[r] = "store" => ch[r] = typed[1] /\ tail[r] = cs_gotchars_tail

\* A write that is in progress will end: whenever ls_lock is free the card is
\* still sending or its interrupt is there to be taken, also after a polling
\* writer has used up the ready condition that lser_irq waits for, and cs_wsem
\* is up, or with the one writer or interrupt handler that will raise it.
WriteWillEnd ==
  /\ ls_wbusy /\ ls_lock = Free => WIRQ.enable /\ (sending \/ WIRQ.active)
  /\ cs_wsem + (IF ls_wbusy \/ irq.clear_to_write THEN 1 ELSE 0)
       + Cardinality({w \in Writers : wpc[w] = "send"}) = 1

\* Whoever gives the card a character finds it clear, with writers by interrupt
\* and by polling mixed; a write in progress has its interrupt or its semaphore
\* coming; con_io's readers never take a character together; and until kgets
\* takes one together with another reader, the input buffer holds what con_input
\* put there and nobody has read, in order.
ConsoleExact == WriteIsClear /\ WriteWillEnd /\ ReadersApart /\ InputInOrder
=============================================================================

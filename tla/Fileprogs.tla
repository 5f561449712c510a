------------------------------ MODULE Fileprogs -----------------------------
(***************************************************************************)
(* /bin/tac: copies its files to one scratch file, notes every line's      *)
(* position in a second one, and prints the lines from the last to the     *)
(* first.  A byte is a letter or "nl"; a read may return less than the     *)
(* buffer holds, as one from the console does.                             *)
(*                                                                         *)
(* dirseek, userland/testbin/dirseek/dirseek.c, which reads a directory by *)
(* getdirentry and lseek, on a kernel that is right and on kernels that    *)
(* are wrong in one way each.  A directory is a sequence of slots SLOT     *)
(* bytes apart; a slot may be empty.  The kernel is external.              *)
(***************************************************************************)
EXTENDS Integers, SequencesExt, FiniteSetsExt

-----------------------------------------------------------------------------
(* tac                                                                     *)

CONSTANTS Inputs,   \* sequences of files, each a sequence of bytes
          BufSize   \* sizeof(buf)

VARIABLES tacargs,     \* the files named on the command line
          tpc,      \* "read", "dump", "done" or "failed"
          tacfile, tacpos, \* file being read, and bytes of it read
          ent,        \* the current notes entry
          scratch, notes, \* the scratch files
          tacleft,     \* entries still to print
          printed,     \* bytes of the entry printed
          tacout

tacvars == <<tacargs, tpc, tacfile, tacpos, ent, scratch, notes, tacleft, printed, tacout>>

\* One buffer: its complete lines go to the notes, the rest to ent.len.
RECURSIVE Lines(_, _, _)
Lines(s, entry, idx) ==
  IF Contains(s, "nl")
  THEN LET here == SelectInSeq(s, LAMBDA c : c = "nl")
           e == [entry EXCEPT !.len = @ + here]
       IN  Lines(SubSeq(s, here + 1, Len(s)), [pos |-> e.pos + e.len, len |-> 0], Append(idx, e))
  ELSE [ent |-> [entry EXCEPT !.len = @ + Len(s)], notes |-> idx]

readfile_read ==
  /\ tpc = "read" /\ tacfile <= Len(tacargs)
  /\ \E len \in 1..Min({BufSize, Len(tacargs[tacfile]) - tacpos}) :
       LET buf == SubSeq(tacargs[tacfile], tacpos + 1, tacpos + len)
           l == Lines(buf, ent, notes)
       IN  /\ ent' = l.ent /\ notes' = l.notes
           /\ scratch' = scratch \o buf
           /\ tacpos' = tacpos + len
  /\ UNCHANGED <<tacargs, tpc, tacfile, tacleft, printed, tacout>>

\* Mutant: a last line without a newline is not noted.
LastLine_none(entry, idx) == idx
LastLine(entry, idx) == IF entry.len > 0 THEN Append(idx, entry) ELSE idx

NoEntry == [pos |-> 0, len |-> 0]

\* End of file; main goes on to the next file, whose entry starts at 0.
readfile_eof ==
  /\ tpc = "read" /\ tacfile <= Len(tacargs) /\ tacpos = Len(tacargs[tacfile])
  /\ notes' = LastLine(ent, notes)
  /\ ent' = NoEntry /\ tacpos' = 0 /\ tacfile' = tacfile + 1
  /\ UNCHANGED <<tacargs, tpc, scratch, tacleft, printed, tacout>>

dumpdata_start ==
  /\ tpc = "read" /\ tacfile > Len(tacargs)
  /\ tpc' = "dump" /\ tacleft' = Len(notes) /\ printed' = 0
  /\ UNCHANGED <<tacargs, tacfile, tacpos, ent, scratch, notes, tacout>>

\* A buffer of the current entry; scratch ends early if it is too short.
dumpdata_print ==
  /\ tpc = "dump" /\ tacleft > 0
  /\ LET e == notes[tacleft]
         amount == Min({BufSize, e.len - printed})
         there == SubSeq(scratch, e.pos + printed + 1, Min({e.pos + printed + amount, Len(scratch)}))
     IN  IF Len(there) # amount THEN tpc' = "failed" /\ UNCHANGED <<tacleft, printed, tacout>>
         ELSE /\ tacout' = tacout \o there
              /\ IF printed + amount < e.len THEN printed' = printed + amount /\ UNCHANGED tacleft
                 ELSE printed' = 0 /\ tacleft' = tacleft - 1
              /\ UNCHANGED tpc
  /\ UNCHANGED <<tacargs, tacfile, tacpos, ent, scratch, notes>>

dumpdata_end ==
  /\ tpc = "dump" /\ tacleft = 0
  /\ tpc' = "done"
  /\ UNCHANGED <<tacargs, tacfile, tacpos, ent, scratch, notes, tacleft, printed, tacout>>

TacInit ==
  /\ tacargs \in Inputs
  /\ tpc = "read" /\ tacfile = 1 /\ tacpos = 0 /\ ent = NoEntry
  /\ scratch = <<>> /\ notes = <<>> /\ tacleft = 0 /\ printed = 0 /\ tacout = <<>>

TacNext == readfile_read \/ readfile_eof \/ dumpdata_start \/ dumpdata_print \/ dumpdata_end

TacSpec == TacInit /\ [][TacNext]_tacvars

----------------------------------------------------------------------------

\* The lines of a file, the last one first.
RECURSIVE Backwards(_)
Backwards(s) ==
  IF s = <<>> THEN <<>>
  ELSE LET end == IF Contains(s, "nl") THEN SelectInSeq(s, LAMBDA c : c = "nl") ELSE Len(s)
       IN  Backwards(SubSeq(s, end + 1, Len(s))) \o SubSeq(s, 1, end)

\* "Each file is printed backwards in line-by-line fashion" (tac.html:53),
\* wherever the reads cut the file into buffers, and with the files in
\* reverse order (tac.html:50).
TacReverses ==
  /\ tpc # "failed"
  /\ tpc = "done" => tacout = FlattenSeq(Reverse([i \in DOMAIN tacargs |-> Backwards(tacargs[i])]))

-----------------------------------------------------------------------------
(* dirseek                                                                 *)

CONSTANTS Made,         \* the names of testfiles that are made, in order
          SLOT,         \* bytes of a directory entry
          RANDOMREADS,  \* a bound: reads of readallrandomly (512 in the code)
          SeekFaults    \* the wrong kernels

VARIABLES skfault,   \* what is wrong with the kernel, or "none"
          slots,     \* the directory: names, and "" for an empty slot
          dirfd,     \* the open file: its offset, or -1
          left,      \* what the program has still to do
          skpos,     \* testfiles[].pos
          skn, skp,  \* n and pos of readit
          verdict    \* "", "exit 0", or the failed check

skvars == <<skfault, slots, dirfd, left, skpos, skn, skp, verdict>>

testfiles == <<".", "..">> \o Made
Files == {testfiles[i] : i \in 1..Len(testfiles)}
End == SLOT * Len(slots)

----------------------------------------------------------------------------
(* The kernel                                                              *)

\* The first entry from offset o: where it is, or End.
EntryAt(o) ==
  LET later == {k \in 1..Len(slots) : SLOT * (k - 1) >= o /\ slots[k] # ""}
  IN  IF later = {} THEN End
      ELSE SLOT * ((CHOOSE k \in later : \A j \in later : k <= j) - 1)

\* getdirentry at offset o: the name, "" at the end or "-1" in error, and the next offset.
getdirentry(o) ==
  LET at == EntryAt(IF skfault = "skips" /\ o = 0 THEN SLOT ELSE o)
  IN  IF skfault = "fails" /\ o > SLOT THEN [name |-> "-1", next |-> o]
      ELSE IF at = End THEN [name |-> IF skfault = "name at eof" THEN "." ELSE "", next |-> End]
      ELSE [name |-> slots[at \div SLOT + 1],
            next |-> IF skfault = "repeats" /\ o = SLOT /\ skn = 1 THEN 0 ELSE at + SLOT]

\* lseek to o: where it says it is, and where it is.
lseek(o) == [says |-> IF skfault = "seek lies" /\ o > SLOT THEN o - 1 ELSE o,
             is |-> IF skfault = "seek ignored" THEN dirfd ELSE o]

Eof == IF skfault = "eof below" THEN SLOT ELSE End

\* An offset that no entry has: some kernels are hurt by a read there.
Invalid == {o \in 0..(End - 1) : \A f \in Files : skpos[f] # o}
Hurt(o) == IF skfault = "hurt by bad reads" /\ o % SLOT # 0 THEN Append(Tail(slots), "other") ELSE slots

----------------------------------------------------------------------------
(* The program                                                             *)

Fail(check) == verdict' = check /\ left' = <<>>
OK == verdict' = verdict /\ left' = Tail(left)
Is(step) == left # <<>> /\ Head(left)[1] = step
Arg == Head(left)[2]

openit ==
  /\ Is("openit")
  /\ dirfd' = IF skfault = "open keeps" /\ dirfd > 0 THEN dirfd ELSE 0
  /\ OK /\ UNCHANGED <<skfault, slots, skpos, skn, skp>>

\* The position after open; the scan then starts.
firstread ==
  /\ Is("firstread")
  /\ IF dirfd # 0 THEN Fail("not 0 after open") ELSE OK
  /\ UNCHANGED <<skfault, slots, dirfd, skpos, skn, skp>>

doreadat0 ==
  /\ Is("doreadat0")
  /\ dirfd' = lseek(0).is
  /\ IF lseek(0).says # 0 THEN Fail("seek to 0") ELSE OK
  /\ UNCHANGED <<skfault, slots, skpos, skn, skp>>

\* readit: the positions are forgotten, and the scan begins.
readit_start ==
  /\ Is("readit")
  /\ skpos' = [f \in Files |-> -1] /\ skn' = 0 /\ skp' = dirfd
  /\ left' = <<<<"scan", "">>>> \o Tail(left)
  /\ UNCHANGED <<skfault, slots, dirfd, verdict>>

\* One entry.
readit ==
  /\ Is("scan") /\ getdirentry(dirfd).name \notin {"", "-1"}
  /\ LET e == getdirentry(dirfd)
     IN  IF e.name \notin Files
         THEN Fail("unexpected name") /\ UNCHANGED <<dirfd, skpos, skn, skp>>
         ELSE IF skpos[e.name] >= 0
         THEN Fail("a second time") /\ UNCHANGED <<dirfd, skpos, skn, skp>>
         ELSE /\ skpos' = [skpos EXCEPT ![e.name] = skp]
              /\ skp' = e.next /\ dirfd' = e.next /\ skn' = skn + 1
              /\ UNCHANGED <<left, verdict>>
  /\ UNCHANGED <<skfault, slots>>

\* The end of the scan.
readit_end ==
  /\ Is("scan") /\ getdirentry(dirfd).name \in {"", "-1"}
  /\ IF getdirentry(dirfd).name = "-1" THEN Fail("getdirentry")
     ELSE IF \E f \in Files : skpos[f] < 0 THEN Fail("failed to return")
     ELSE IF skn # Len(testfiles) THEN Fail("huh")
     ELSE OK
  /\ UNCHANGED <<skfault, slots, dirfd, skpos, skn, skp>>


\* doreadone and readone: seek to a name's position and read it.
doreadone(f) ==
  LET s == lseek(skpos[f])
  IN  IF s.says # skpos[f] THEN Fail("seek to entry") /\ dirfd' = s.is
      ELSE /\ dirfd' = getdirentry(s.is).next
           /\ IF getdirentry(s.is).name # f THEN Fail("wrong entry") ELSE OK

readallonebyone ==
  /\ Is("readone") /\ doreadone(Arg)
  /\ UNCHANGED <<skfault, slots, skpos, skn, skp>>

\* random()%n is any name.
readallrandomly ==
  /\ Is("random") /\ \E f \in Files : doreadone(f)
  /\ UNCHANGED <<skfault, slots, skpos, skn, skp>>

readateof ==
  /\ Is("readateof")
  /\ IF getdirentry(dirfd).name # "" THEN Fail("name at eof") ELSE OK
  /\ UNCHANGED <<skfault, slots, dirfd, skpos, skn, skp>>

doreadateof ==
  /\ Is("doreadateof")
  /\ dirfd' = Eof
  /\ IF \E f \in Files : Eof <= skpos[f] THEN Fail("eof below entry") ELSE OK
  /\ UNCHANGED <<skfault, slots, skpos, skn, skp>>

\* Every offset that was not seen to be valid, one after the other, and one beyond the end.
dobadreads ==
  /\ Is("badread")
  /\ IF Arg \in Invalid \union {End}
     THEN dirfd' = getdirentry(lseek(Arg).is).next /\ slots' = Hurt(Arg)
     ELSE UNCHANGED <<dirfd, slots>>
  /\ left' = (IF Arg < End THEN <<<<"badread", Arg + 1>>>> ELSE <<>>) \o Tail(left)
  /\ UNCHANGED <<skfault, skpos, skn, skp, verdict>>

closeit ==
  /\ Is("closeit")
  /\ dirfd' = IF skfault = "open keeps" THEN dirfd ELSE -1
  /\ OK /\ UNCHANGED <<skfault, slots, skpos, skn, skp>>

\* The steps of a pass, after the directory is opened.
Do1(step) == <<<<step, "">>>>
seek_dotest ==
  Do1("openit") \o Do1("firstread") \o Do1("readit") \o Do1("readateof")
  \o [i \in 1..Len(testfiles) |-> <<"readone", testfiles[i]>>]
  \o Do1("doreadateof") \o Do1("readateof")
  \o [i \in 1..RANDOMREADS |-> <<"random", "">>]
  \o Do1("doreadat0") \o Do1("readit")
  \o <<<<"badread", 0>>>>
  \o Do1("doreadat0") \o Do1("readit") \o Do1("closeit")

\* cleanup: the files made are removed, then the directory, which must be empty.
seek_cleanup ==
  /\ Is("cleanup")
  /\ LET rest == [k \in 1..Len(slots) |-> IF \E i \in 1..Len(Made) : slots[k] = Made[i] THEN "" ELSE slots[k]]
     IN  /\ slots' = rest
         /\ IF \E i \in 1..Len(Made) : \A k \in 1..Len(slots) : slots[k] # Made[i] THEN Fail("remove")
            ELSE IF \E k \in 1..Len(rest) : rest[k] \notin {"", ".", ".."} THEN Fail("rmdir")
            ELSE verdict' = "exit 0" /\ left' = <<>>
  /\ UNCHANGED <<skfault, dirfd, skpos, skn, skp>>

\* setup has made the files: they are in the directory in any order, with a hole or without.
Orders == {o \in [1..Len(testfiles) -> Files] : \A i, j \in 1..Len(testfiles) : o[i] = o[j] => i = j}
seek_setup ==
  /\ skfault \in SeekFaults \union {"none"}
  /\ slots \in Orders \union {Append(Append(<<o[1]>>, "") \o SubSeq(o, 2, Len(o) - 1), o[Len(o)]) : o \in Orders}
  /\ dirfd = -1 /\ left = seek_dotest \o seek_dotest \o Do1("cleanup")
  /\ skpos = [f \in Files |-> -1] /\ skn = 0 /\ skp = 0 /\ verdict = ""

DirseekNext ==
  \/ openit \/ firstread \/ doreadat0 \/ readit_start \/ readit \/ readit_end
  \/ readallonebyone \/ readallrandomly \/ readateof \/ doreadateof \/ dobadreads
  \/ closeit \/ seek_cleanup

----------------------------------------------------------------------------
(* Whatever order the directory keeps its entries in, with empty slots or  *)
(* without, dirseek exits with 0 exactly when the kernel is right: a name  *)
(* repeated or skipped, a call that fails, a seek that lies or is ignored, *)
(* an end that is below an entry, an open that keeps the old offset, a     *)
(* directory damaged by reads at bad offsets are each noticed by one of    *)
(* its checks.  And the check whose comment says it "should not be able to *)
(* fail" never does.                                                       *)
DirseekJudges ==
  /\ verdict # "huh"
  /\ left = <<>> => (verdict = "exit 0" <=> skfault = "none")
=============================================================================

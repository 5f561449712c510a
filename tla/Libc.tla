-------------------------------- MODULE Libc --------------------------------
(***************************************************************************)
(* Algorithms of the C library and of the programs that exercise them:     *)
(* memcpy, memmove and bzero on words or bytes, strtok_r with strchr,      *)
(* qsort with the comparisons and sums of schedpong's grind, and the merge *)
(* sort of testbin/sort.  A job is one use of them on a small input.       *)
(*                                                                         *)
(* The printf engine of libc and the kernel (__vprintf) printing into      *)
(* snprintf's buffer, and atoi, which reads numbers back.  The format      *)
(* arrives one character at a time; the arguments are chosen from sets of  *)
(* values of the width va_arg retrieves.                                   *)
(***************************************************************************)
EXTENDS Integers, SequencesExt, FiniteSetsExt

-----------------------------------------------------------------------------
(* stdlib and string                                                       *)

CONSTANTS LONG,       \* sizeof(long)
          MemSize,    \* bytes of memory
          ArrayMax,   \* elements of an array to sort
          UNSIGNEDW   \* bits in an unsigned, an even number

VARIABLES job, parr, stage_, before

lvars == <<job, parr, stage_, before>>

UMAX == 2 ^ UNSIGNEDW

----------------------------------------------------------------------------
(* memcpy, memmove, bzero: memory is a function from addresses to bytes.   *)

\* unit bytes at a time, in the order of the indexes
Copy(mem, dst, src, unit, order) ==
  FoldLeft(LAMBDA m, i : [a \in DOMAIN m |-> IF a \in (dst + (i * unit))..(dst + (i * unit) + unit - 1)
                                             THEN m[src + a - dst] ELSE m[a]], mem, order)

Unit(dst, src, len) == IF dst % LONG = 0 /\ src % LONG = 0 /\ len % LONG = 0 THEN LONG ELSE 1
Forwards(n) == [k \in 1..n |-> k - 1]

memcpy(mem, dst, src, len) ==
  LET u == Unit(dst, src, len) IN Copy(mem, dst, src, u, Forwards(len \div u))

\* Mutant: always forwards.
memmove_forwards(mem, dst, src, len) == memcpy(mem, dst, src, len)
memmove(mem, dst, src, len) ==
  IF dst < src THEN memcpy(mem, dst, src, len)
  ELSE LET u == Unit(dst, src, len) IN Copy(mem, dst, src, u, Reverse(Forwards(len \div u)))

bzero(mem, block, len) ==
  LET u == Unit(block, block, len)
  IN  FoldLeft(LAMBDA m, i : [a \in DOMAIN m |-> IF a \in (block + (i * u))..(block + (i * u) + u - 1) THEN -1 ELSE m[a]],
               mem, Forwards(len \div u))

----------------------------------------------------------------------------
(* strtok_r: strings end where they end; 0 stands for NULL.                *)

strchr(seps, c) == c \in seps

\* The next word of s from context on, and the new context.
strtok_r(s, seps, context) ==
  LET head == CHOOSE h \in context..(Len(s) + 1) :
                /\ \A i \in context..(h - 1) : strchr(seps, s[i])
                /\ h = Len(s) + 1 \/ ~strchr(seps, s[h])
      tail == CHOOSE t \in head..(Len(s) + 1) :
                /\ \A i \in head..(t - 1) : ~strchr(seps, s[i])
                /\ t = Len(s) + 1 \/ strchr(seps, s[t])
  IN  IF context = 0 \/ head = Len(s) + 1 THEN [word |-> <<>>, context |-> 0]
      ELSE [word |-> SubSeq(s, head, tail - 1), context |-> IF tail = Len(s) + 1 THEN 0 ELSE tail + 1]

RECURSIVE Words(_, _, _)
Words(s, seps, context) ==
  LET r == IF context = 0 THEN [word |-> <<>>, context |-> 0] ELSE strtok_r(s, seps, context)
  IN  IF r.word = <<>> THEN <<>> ELSE <<r.word>> \o Words(s, seps, r.context)

----------------------------------------------------------------------------
(* qsort                                                                   *)

uintcmp == [a \in 0..(UMAX - 1), b \in 0..(UMAX - 1) |-> CASE a < b -> -1 [] a > b -> 1 [] OTHER -> 0]

\* Descending by the upper half, then ascending by the lower one.
altcmp ==
  LET Half == 2 ^ (UNSIGNEDW \div 2)
  IN  [a \in 0..(UMAX - 1), b \in 0..(UMAX - 1) |->
         CASE a \div Half < b \div Half -> 1 [] a \div Half > b \div Half -> -1
           [] OTHER -> uintcmp[a % Half, b % Half]]

Exchange(d, i, j) == [d EXCEPT ![i] = d[j], ![j] = d[i]]

\* Step 2: the loop that moves the values up to the pivot's to the front.
\* Positions are 0 .. num-1; d[i + 1] is position i.
RECURSIVE Partition_(_, _, _, _, _)
Partition_(d, f, pivot, head, tail) ==
  IF head >= tail THEN [d |-> d, pivot |-> pivot, head |-> head, tail |-> tail]
  ELSE IF f[d[head + 1], d[pivot + 1]] <= 0 THEN Partition_(d, f, pivot, head + 1, tail)
  ELSE IF f[d[tail + 1], d[pivot + 1]] > 0 THEN Partition_(d, f, pivot, head, tail - 1)
  ELSE Partition_(Exchange(d, head + 1, tail + 1), f,
                  CASE pivot = head -> tail [] pivot = tail -> head [] OTHER -> pivot, head + 1, tail - 1)

\* Step 4's loop: the values at the end equal to the last one.
RECURSIVE Lop(_, _, _)
Lop(d, f, tail) == IF tail > 0 /\ f[d[tail], d[tail + 1]] = 0 THEN Lop(d, f, tail - 1) ELSE tail

\* Mutant: the pivot is not moved to the end.
ToEnd_not(d, f, pivot) == d
ToEnd(d, f, pivot) ==
  IF pivot < Len(d) - 1 /\ f[d[pivot + 1], d[Len(d)]] > 0 THEN Exchange(d, pivot + 1, Len(d)) ELSE d

RECURSIVE qsort(_, _)
qsort(d0, f) ==
  LET num == Len(d0)
      p == Partition_(d0, f, num \div 2, 0, num - 1)
      tail == IF p.head > p.tail \/ f[p.d[p.head + 1], p.d[p.pivot + 1]] <= 0 THEN p.tail + 1 ELSE p.tail
      d == ToEnd(p.d, f, p.pivot)
      t == Lop(d, f, num - 1)
  IN  CASE num <= 1 -> d0
        [] num = 2 /\ f[d0[1], d0[2]] > 0 -> Exchange(d0, 1, 2)
        [] OTHER -> IF tail = num THEN qsort(SubSeq(d, 1, t), f) \o SubSeq(d, t + 1, num)
                    ELSE qsort(SubSeq(p.d, 1, tail), f) \o qsort(SubSeq(p.d, tail + 1, num), f)

\* testbin/sort: two halves, merged.
RECURSIVE MergeInts(_, _)
MergeInts(a, b) ==
  IF a = <<>> THEN b ELSE IF b = <<>> THEN a
  ELSE IF a[1] < b[1] THEN <<a[1]>> \o MergeInts(Tail(a), b) ELSE <<b[1]>> \o MergeInts(a, Tail(b))
RECURSIVE sort_ints(_)
sort_ints(arr) ==
  LET pivot == Len(arr) \div 2
  IN  IF Len(arr) < 2 THEN arr
      ELSE MergeInts(sort_ints(SubSeq(arr, 1, pivot)), sort_ints(SubSeq(arr, pivot + 1, Len(arr))))

----------------------------------------------------------------------------
(* grind: the array is sorted, sorted otherwise, differenced, sorted.      *)

sum(p) == FoldLeft(LAMBDA t, v : (t + v) % UMAX, 0, p)

diffs(p) == [i \in DOMAIN p |-> (p[i] - (IF i < Len(p) THEN p[i + 1] ELSE p[1])) % UMAX]

grind ==
  /\ stage_ < 4
  /\ stage_' = stage_ + 1 /\ before' = parr
  /\ parr' = CASE stage_ = 0 -> qsort(parr, uintcmp)
               [] stage_ = 1 -> qsort(parr, altcmp)
               [] stage_ = 2 -> diffs(parr)
               [] stage_ = 3 -> qsort(parr, uintcmp)
  /\ UNCHANGED job

\* The inputs: arrays to grind, blocks to move, strings (of the separators 0
\* and 1 and other characters) to take apart.
GrindJobs == {[op |-> "grind", dst |-> 0, src |-> 0, len |-> 0, s |-> p] :
                p \in UNION {[1..n -> 0..(UMAX - 1)] : n \in 1..ArrayMax}}
MoveJobs == {[op |-> "move", dst |-> d, src |-> s, len |-> n, s |-> <<>>] :
               d \in 0..(MemSize - 1), s \in 0..(MemSize - 1), n \in 0..MemSize}
TokenJobs == {[op |-> "tokens", dst |-> 0, src |-> 0, len |-> 0, s |-> p] : p \in BoundedSeq(0..3, ArrayMax)}

LibcStart(j) ==
  /\ job = j
  /\ stage_ = IF j.op = "grind" THEN 0 ELSE 4
  /\ parr = IF j.op = "grind" THEN j.s ELSE <<>>
  /\ before = parr

LibcInit ==
  \E j \in GrindJobs \cup {k \in MoveJobs : k.dst + k.len <= MemSize /\ k.src + k.len <= MemSize} \cup TokenJobs :
    LibcStart(j)

LibcNext == grind

LibcSpec == LibcInit /\ [][LibcNext]_lvars

----------------------------------------------------------------------------

SortedBy(p, f) == \A i \in 1..(Len(p) - 1) : f[p[i], p[i + 1]] <= 0
SameValues(p, q) == \A v \in 0..(UMAX - 1) : Len(SelectSeq(p, LAMBDA e : e = v)) = Len(SelectSeq(q, LAMBDA e : e = v))

\* qsort sorts by whatever total order it is given and keeps every value, also
\* arrays that the earlier order left nearly sorted or whose pivot is the
\* largest value (qsort.c, step 4), so that grind's sums are the ones it
\* expects (grind.c); testbin/sort's merge sort passes its check.
SortsAreRight ==
  job.op = "grind" =>
    /\ (stage_ \in {1, 4}) => SortedBy(parr, uintcmp) /\ SameValues(parr, before)
    /\ (stage_ = 2) => SortedBy(parr, altcmp) /\ SameValues(parr, before) /\ sum(parr) = sum(job.s)
    /\ (stage_ >= 3) => sum(parr) = 0
    /\ LET q == sort_ints(parr) IN SortedBy(q, uintcmp) /\ SameValues(q, parr)

\* memmove copies the bytes as they were, for overlapping blocks of every
\* alignment, moved by words or by bytes (memmove.c), and memcpy for blocks that
\* do not overlap; bzero clears its block and nothing else; and strtok_r's
\* words are the runs of characters between separators, none lost or empty.
BlocksAndWordsKept ==
  LET mem == [a \in 0..(MemSize - 1) |-> a]
      Moved == [a \in 0..(MemSize - 1) |-> IF a \in job.dst..(job.dst + job.len - 1) THEN job.src + a - job.dst ELSE a]
      apart == job.dst + job.len <= job.src \/ job.src + job.len <= job.dst
      seps == {0, 1}
      words == Words(job.s, seps, 1)
  IN  /\ job.op = "move" =>
           /\ memmove(mem, job.dst, job.src, job.len) = Moved
           /\ apart => memcpy(mem, job.dst, job.src, job.len) = Moved
           /\ bzero(mem, job.dst, job.len)
                = [a \in 0..(MemSize - 1) |-> IF a \in job.dst..(job.dst + job.len - 1) THEN -1 ELSE a]
      /\ job.op = "tokens" =>
           /\ FlattenSeq(words) = SelectSeq(job.s, LAMBDA c : c \notin seps)
           /\ Len(words) = Cardinality({i \in DOMAIN job.s : job.s[i] \notin seps /\ (i = 1 \/ job.s[i - 1] \in seps)})

-----------------------------------------------------------------------------
(* printf                                                                  *)

CONSTANTS INTW, LLW,    \* bits in an int, long or size_t, and in a long long
          FormatMax,    \* characters of a format
          WidthMax,     \* the widest field
          BufLens       \* lengths passed to snprintf

VARIABLES pf,       \* the state of printf (PF)
          sent,     \* characters of the format processed
          out,      \* everything sent onward
          snp,      \* snprintf's context (SNP)
          field,    \* the last conversion: its output, character, argument and state
          slot      \* the lowest slot of the number buffer used

pfvars == <<pf, sent, out, snp, field, slot>>

Modifiers == {"#", "-", "l", "z", "0", "4"}
Integers_ == {"d", "o", "u", "p", "x"}
Others == {"s", "k", "%"}
digits == <<"0", "1", "2", "3", "4", "5", "6", "7", "8", "9", "a", "b", "c", "d", "e", "f">>
DigitValue(c) == IF \E k \in 1..10 : digits[k] = c THEN (CHOOSE k \in 1..10 : digits[k] = c) - 1 ELSE -1

NUMBER_BUF_SIZE == (LLW \div 3) + 2

endfield(in) ==
  [in_pct |-> in, size |-> "INTSZ", spacing |-> 0, rightspc |-> FALSE, fillchar |-> " ", altformat |-> FALSE]

Width(size) == IF size = "LLONGSZ" THEN LLW ELSE INTW
\* Arguments: zero and the ends of the type's range.
SignedArgs(w) == {-(2 ^ (w - 1)), 0, 2 ^ (w - 1) - 1}
UnsignedArgs(w) == {0, 2 ^ w - 1}
Args(ch, size) ==
  CASE ch = "d" -> SignedArgs(Width(size))
    [] ch = "p" -> UnsignedArgs(INTW)
    [] OTHER -> UnsignedArgs(Width(size))

----------------------------------------------------------------------------

pf_modifier(p, ch) ==
  CASE ch = "#" -> [p EXCEPT !.altformat = TRUE]
    [] ch = "-" -> [p EXCEPT !.rightspc = TRUE]
    [] ch = "l" -> [p EXCEPT !.size = IF @ = "LONGSZ" THEN "LLONGSZ" ELSE "LONGSZ"]
    [] ch = "z" -> [p EXCEPT !.size = "SIZETSZ"]
    [] ch = "0" -> IF p.spacing > 0 THEN [p EXCEPT !.spacing = @ * 10] ELSE [p EXCEPT !.fillchar = "0"]
    [] OTHER -> [p EXCEPT !.spacing = (@ * 10) + DigitValue(ch)]

\* Mutant: a long long is retrieved as an int.
pf_getnum_int(ch, size, arg) ==
  LET n == IF 2 * (arg % 2 ^ INTW) < 2 ^ INTW \/ ch # "d" THEN arg % 2 ^ INTW ELSE (arg % 2 ^ INTW) - 2 ^ INTW
  IN  IF n < 0 THEN [sign |-> TRUE, num |-> -n] ELSE [sign |-> FALSE, num |-> n]
\* The argument as retrieved through a va_arg of the size's type.
pf_getnum(ch, size, arg) ==
  LET w == IF ch = "p" THEN INTW ELSE Width(size)
      n == IF ch = "d" THEN IF 2 * (arg % 2 ^ w) < 2 ^ w THEN arg % 2 ^ w ELSE (arg % 2 ^ w) - 2 ^ w ELSE arg % 2 ^ w
  IN  IF n < 0 THEN [sign |-> TRUE, num |-> -n] ELSE [sign |-> FALSE, num |-> n]

pf_setbase(ch) == CASE ch \in {"d", "u"} -> 10 [] ch \in {"x", "p"} -> 16 [] ch = "o" -> 8

pf_fill(p, spc) == [k \in 1..spc |-> p.fillchar]

pf_printstuff(p, prefix, prefix2, stuff) ==
  LET len == Len(prefix) + Len(prefix2) + Len(stuff)
      spc == IF p.spacing > len THEN p.spacing - len ELSE 0
  IN  (IF ~p.rightspc /\ p.fillchar # "0" THEN pf_fill(p, spc) ELSE <<>>)
        \o prefix \o prefix2
        \o (IF ~p.rightspc /\ p.fillchar = "0" THEN pf_fill(p, spc) ELSE <<>>)
        \o stuff
        \o (IF p.rightspc THEN pf_fill(p, spc) ELSE <<>>)

\* The digits of a number, the least significant one written first from the
\* right end of the buffer.
RECURSIVE Convert(_, _)
Convert(xnum, base) ==
  (IF xnum \div base > 0 THEN Convert(xnum \div base, base) ELSE <<>>) \o <<digits[(xnum % base) + 1]>>

pf_printnum(p, ch, n) ==
  LET base == pf_setbase(ch)
      baseprefix == p.altformat \/ ch = "p"
      bprefix == CASE baseprefix /\ base = 16 -> <<"0", "x">> [] baseprefix /\ base = 8 -> <<"0">> [] OTHER -> <<>>
  IN  pf_printstuff(p, IF n.sign THEN <<"-">> ELSE <<>>, bprefix, Convert(n.num, base))

\* snprintf's send function, one character at a time.
snprintf_send(s, data) ==
  [s EXCEPT !.buf = @ \o SubSeq(data, 1, Min({Len(data), s.buflen - Len(@)}))]

pf_print(txt) == out' = out \o txt /\ snp' = snprintf_send(snp, txt)

----------------------------------------------------------------------------
(* __pf_send: one character of the format                                  *)

SendLiteral(ch) ==
  /\ ~pf.in_pct /\ ch # "%"
  /\ pf_print(<<ch>>)
  /\ UNCHANGED <<pf, field, slot>>

SendPercent(ch) ==
  /\ ~pf.in_pct /\ ch = "%"
  /\ pf' = [pf EXCEPT !.in_pct = TRUE]
  /\ UNCHANGED <<out, snp, field, slot>>

SendModifier(ch) ==
  /\ pf.in_pct /\ ch \in Modifiers
  /\ pf' = pf_modifier(pf, ch)
  /\ pf'.spacing <= WidthMax
  /\ UNCHANGED <<out, snp, field, slot>>

SendInteger(ch) ==
  /\ pf.in_pct /\ ch \in Integers_
  /\ \E arg \in Args(ch, pf.size) :
       LET n == pf_getnum(ch, pf.size, arg)
           txt == pf_printnum(pf, ch, n)
       IN  /\ pf_print(txt)
           /\ slot' = Min({slot, NUMBER_BUF_SIZE - 1 - Len(Convert(n.num, pf_setbase(ch)))})
           /\ field' = [txt |-> txt, ch |-> ch, arg |-> arg, pf |-> pf]
  /\ pf' = endfield(FALSE)

\* %s, with a string or NULL, and characters that are printed: %c's argument,
\* and any other character.
SendOther(ch) ==
  /\ pf.in_pct /\ ch \notin Modifiers \cup Integers_
  /\ \E stuff \in IF ch = "s" THEN {<<"s", "t">>, <<"(", "n", "u", "l", "l", ")">>} ELSE {<<ch>>} :
       LET txt == pf_printstuff(pf, <<>>, <<>>, stuff)
       IN  /\ pf_print(txt)
           /\ field' = [txt |-> txt, ch |-> ch, arg |-> 0, pf |-> pf]
  /\ pf' = endfield(FALSE)
  /\ UNCHANGED slot

pf_send(ch) ==
  /\ sent < FormatMax /\ sent' = sent + 1
  /\ SendLiteral(ch) \/ SendPercent(ch) \/ SendModifier(ch) \/ SendInteger(ch) \/ SendOther(ch)

\* Mutant: the terminator's byte is not reserved.
Room_all(len) == len
Room(len) == IF len = 0 THEN 0 ELSE len - 1

\* snprintf's context; a buffer of length 0 is not written at all.
vsnprintf(len) == [buf |-> <<>>, buflen |-> Room(len), len |-> len]

PrintfInit ==
  /\ pf = endfield(FALSE) /\ sent = 0 /\ out = <<>>
  /\ \E len \in BufLens : snp = vsnprintf(len)
  /\ field = [txt |-> <<>>, ch |-> "", arg |-> 0, pf |-> pf]
  /\ slot = NUMBER_BUF_SIZE - 1

\* The next character of the format; text outside of fields is of one kind.
PrintfNext ==
  \E ch \in IF pf.in_pct THEN Modifiers \cup Integers_ \cup Others ELSE {"%", "a"} : pf_send(ch)

PrintfSpec == PrintfInit /\ [][PrintfNext]_pfvars

----------------------------------------------------------------------------

\* atoi on a string: blanks, a sign, digits, and whatever follows.
RECURSIVE AtoiDigits(_, _)
AtoiDigits(s, val) ==
  IF s = <<>> \/ DigitValue(Head(s)) < 0 THEN val
  ELSE AtoiDigits(Tail(s), ((val * 10) + DigitValue(Head(s))) % 2 ^ INTW)

RECURSIVE atoi(_)
atoi(s) ==
  LET v == CASE s = <<>> -> 0
             [] s # <<>> /\ Head(s) = "-" -> (-AtoiDigits(Tail(s), 0)) % 2 ^ INTW
             [] s # <<>> /\ Head(s) = "+" -> AtoiDigits(Tail(s), 0)
             [] OTHER -> AtoiDigits(s, 0)
  IN  IF s # <<>> /\ Head(s) = " " THEN atoi(Tail(s))
      ELSE IF 2 * v < 2 ^ INTW THEN v ELSE v - 2 ^ INTW

\* What a reader makes of the digits of a field in a base: blanks, sign and
\* prefix skipped.
RECURSIVE ReadDigits(_, _, _)
ReadDigits(s, base, v) ==
  IF s = <<>> \/ ~(\E k \in 1..base : digits[k] = Head(s)) THEN v
  ELSE ReadDigits(Tail(s), base, (v * base) + (CHOOSE k \in 1..base : digits[k] = Head(s)) - 1)
Reading(s, base) ==
  LET t == SelectSeq(s, LAMBDA c : c \notin {" ", "-", "x"})
      v == ReadDigits(t, base, 0)
  IN  IF Contains(s, "-") THEN -v ELSE v

\* A number printed by any integer conversion reads back as the argument, for
\* every size, flag and width, and by atoi for an int in decimal
\* (__printf.c:__pf_getnum, __pf_printnum; atoi.c).  The exception is left
\* alignment with the fill character 0, which appends zeros.
NumbersReadBack ==
  (field.ch \in Integers_ /\ ~(field.pf.rightspc /\ field.pf.fillchar = "0")) =>
    /\ Reading(field.txt, pf_setbase(field.ch)) = field.arg
    /\ (field.ch = "d" /\ field.pf.size # "LLONGSZ") => atoi(field.txt) = field.arg

\* The digits of the widest number fit the buffer (NUMBER_BUF_SIZE), and
\* snprintf stores as much of the text as fits before the terminator, which
\* stays within the buffer's length (snprintf.c).
BuffersSuffice ==
  /\ slot >= 0
  /\ Len(snp.buf) + 1 <= Max({snp.len, 1})
  /\ snp.buf = SubSeq(out, 1, Min({Len(out), Max({snp.len, 1}) - 1}))
=============================================================================

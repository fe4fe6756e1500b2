------------------------------ MODULE TickTock ------------------------------
(***************************************************************************)
(* DevDrivers/TickTock.c, a character device: read returns the time of day *)
(* as decimal text, write sets it.  The kernel calls readme and writeme    *)
(* for several processes at once.                                          *)
(*                                                                         *)
(* The buffer's address b is global.  Each read puts a fresh buffer there, *)
(* and then reads b three more times: when it calls itoa, in itoa's        *)
(* strcpy(b, str), and in copy_to_user.  Buffers are numbered as they are  *)
(* allocated; nothing is ever freed.  Characters are their codes.          *)
(***************************************************************************)
EXTENDS Integers, FiniteSets, SequencesExt

CONSTANTS Procs,
          Clocks,        \* times the clock may have at first
          Ticks,         \* bound: the clock ticks only at these times
          IntMax,        \* largest int (2^31 - 1, scaled)
          Size,          \* characters of a buffer (40, scaled)
          MaxReads,      \* bound: calls of readme, all processes together
          MaxWrites      \* bound: calls of writeme, likewise

ASSUME TickTockAssumption ==
  /\ Clocks \subseteq Nat /\ Ticks \subseteq Nat /\ IntMax \in Nat /\ Size \in Nat
  /\ MaxReads \in Nat /\ MaxWrites \in Nat

VARIABLES clock,         \* the kernel's time, a long
          b,             \* the global pointer
          mem,           \* the characters of each buffer
          pc,            \* "user", then in readme "alloc", "itoa", "digits",
                         \*   "reverse", "strlen", "strcpy", "copy"
          num, str, len, \* locals of readme and itoa
          ubuf,          \* the process's own buffer
          writes,        \* calls of writeme made
          hit,           \* history: another read got between p's alloc and copy
          newline        \* history: p has put a newline behind what it read

vars == <<clock, b, mem, pc, num, str, len, ubuf, writes, hit, newline>>

NUL == 0
Null == 0
Fresh == [i \in 1..Size |-> 63]     \* what kmalloc returns was never written
Zeros == [i \in 1..Size |-> NUL]

Init == /\ clock \in Clocks /\ b = Null /\ mem = <<>>
        /\ pc = [p \in Procs |-> "user"] /\ num = [p \in Procs |-> 0]
        /\ str = [p \in Procs |-> Null] /\ len = [p \in Procs |-> 0]
        /\ ubuf = [p \in Procs |-> Zeros]
        /\ writes = 0
        /\ hit = [p \in Procs |-> FALSE] /\ newline = [p \in Procs |-> FALSE]

-----------------------------------------------------------------------------
\* An int of the machine: the kernel is built so that it wraps.
Wrap(n) == ((n + IntMax + 1) % (2 * (IntMax + 1))) - IntMax - 1
Abs(n) == IF n < 0 THEN -n ELSE n

\* Digits of n, last first, then the sign; -n of the least int is itself.
itoa(n) ==
  LET d[m \in 0..IntMax + 1] == IF m < 10 THEN <<48 + m>> ELSE <<48 + (m % 10)>> \o d[m \div 10]
  IN IF n = -IntMax - 1 THEN [i \in DOMAIN d[-n] |-> 96 - d[-n][i]] \o <<45>>
     ELSE IF n < 0 THEN Append(d[-n], 45) ELSE d[n]

\* A buffer holds the text of any int (40 of 11 characters), with room for a
\* newline and a NUL.
ASSUME SizeAssumption == \A n \in -IntMax - 1..IntMax : Len(itoa(n)) + 2 <= Size

\* for each character up to the NUL; also for a sign, or a newline.
Chars(s) == SubSeq(s, 1, Min({i \in 1..Len(s) + 1 : i <= Len(s) => s[i] = NUL}) - 1)
atoi_SkipLast(s) ==                  \* mutant: the last character is left out
  LET c == Chars(s)
      res[i \in 0..Len(c)] == IF i < 2 THEN 0 ELSE Wrap(10 * res[i - 1] + c[i - 1] - 48)
  IN res[Len(c)]
atoi(s) ==
  LET c == Chars(s)
      res[i \in 0..Len(c)] == IF i = 0 THEN 0 ELSE Wrap(10 * res[i - 1] + c[i] - 48)
  IN res[Len(c)]

\* s, and a NUL, over the front of a.
Put(s, a) == [i \in 1..Size |-> IF i <= Len(s) THEN s[i]
                                ELSE IF i = Len(s) + 1 THEN NUL ELSE a[i]]

-----------------------------------------------------------------------------
Goes(p, to) == pc' = [pc EXCEPT ![p] = to]

\* readme
InRead(p) == pc[p] # "user"
GetTime(p) == /\ ~InRead(p)
              /\ Len(mem) + Cardinality({q \in Procs : pc[q] = "alloc"}) < MaxReads
              /\ num' = [num EXCEPT ![p] = Wrap(clock)]
              /\ newline' = [newline EXCEPT ![p] = FALSE]
              /\ Goes(p, "alloc")
              /\ UNCHANGED <<clock, b, mem, str, len, ubuf, writes, hit>>

\* p is disturbed by reads still inside itoa, and disturbs all that have a
\* buffer and have not copied it.
InItoa == {"itoa", "digits", "reverse", "strlen", "strcpy"}
Alloc(p) == /\ pc[p] = "alloc"
            /\ mem' = Append(mem, Fresh) /\ b' = Len(mem) + 1
            /\ hit' = [q \in Procs |-> IF q = p THEN \E r \in Procs : pc[r] \in InItoa
                                       ELSE hit[q] \/ pc[q] \in InItoa \cup {"copy"}]
            /\ Goes(p, "itoa")
            /\ UNCHANGED <<clock, num, str, len, ubuf, writes, newline>>
CallItoa(p) == /\ pc[p] = "itoa"
               /\ str' = [str EXCEPT ![p] = b]
               /\ Goes(p, "digits")
               /\ UNCHANGED <<clock, b, mem, num, len, ubuf, writes, hit, newline>>
Digits(p) == /\ pc[p] = "digits"
             /\ mem' = [mem EXCEPT ![str[p]] = Put(itoa(num[p]), @)]
             /\ Goes(p, "reverse")
             /\ UNCHANGED <<clock, b, num, str, len, ubuf, writes, hit, newline>>
ReverseDigits_Skip(p) ==             \* mutant: only numbers below 0 are reversed
  /\ pc[p] = "reverse"
  /\ mem' = IF num[p] >= 0 THEN mem
            ELSE [mem EXCEPT ![str[p]] = Put(Reverse(Chars(@)), @)]
  /\ Goes(p, "strlen")
  /\ UNCHANGED <<clock, b, num, str, len, ubuf, writes, hit, newline>>
ReverseDigits(p) ==
  /\ pc[p] = "reverse"
  /\ LET n == Len(itoa(num[p])) IN
       mem' = [mem EXCEPT ![str[p]] = Reverse(SubSeq(@, 1, n)) \o SubSeq(@, n + 1, Size)]
  /\ Goes(p, "strlen")
  /\ UNCHANGED <<clock, b, num, str, len, ubuf, writes, hit, newline>>
StrLen(p) == /\ pc[p] = "strlen"
             /\ len' = [len EXCEPT ![p] = Len(Chars(mem[str[p]]))]
             /\ Goes(p, "strcpy")
             /\ UNCHANGED <<clock, b, mem, num, str, ubuf, writes, hit, newline>>
StrCpy(p) == /\ pc[p] = "strcpy"
             /\ mem' = [mem EXCEPT ![b] = Put(Chars(mem[str[p]]), @)]
             /\ Goes(p, "copy")
             /\ UNCHANGED <<clock, b, num, str, len, ubuf, writes, hit, newline>>
\* len characters, no NUL.
CopyToUser(p) == /\ pc[p] = "copy"
                 /\ ubuf' = [ubuf EXCEPT ![p] = [i \in 1..Size |->
                                IF i <= len[p] THEN mem[b][i] ELSE @[i]]]
                 /\ Goes(p, "user")
                 /\ UNCHANGED <<clock, b, mem, num, str, len, writes, hit, newline>>

\* writeme.  The kernel refuses a time before 1970, which writeme ignores.
WriteTime(p) == /\ ~InRead(p) /\ writes < MaxWrites
                /\ clock' = IF atoi(ubuf[p]) < 0 THEN clock ELSE atoi(ubuf[p])
                /\ writes' = writes + 1
                /\ UNCHANGED <<b, mem, pc, num, str, len, ubuf, hit, newline>>

\* As a shell's echo does.
AddNewline(p) == /\ ~InRead(p) /\ len[p] > 0 /\ ~newline[p]
                 /\ ubuf' = [ubuf EXCEPT ![p] = Put(Append(Chars(@), 10), @)]
                 /\ newline' = [newline EXCEPT ![p] = TRUE]
                 /\ UNCHANGED <<clock, b, mem, pc, num, str, len, writes, hit>>
Tick == /\ clock \in Ticks
        /\ clock' = clock + 1
        /\ UNCHANGED <<b, mem, pc, num, str, len, ubuf, writes, hit, newline>>

readme(p) == \/ GetTime(p) \/ Alloc(p) \/ CallItoa(p) \/ Digits(p) \/ ReverseDigits(p)
             \/ StrLen(p) \/ StrCpy(p) \/ CopyToUser(p)

Next == Tick \/ \E p \in Procs : readme(p) \/ WriteTime(p) \/ AddNewline(p)

Spec == Init /\ [][Next]_vars

-----------------------------------------------------------------------------
Done(p) == ~InRead(p) /\ len[p] > 0 /\ ~hit[p]
Decimal(n) == LET d[m \in 0..IntMax] == IF m < 10 THEN <<48 + m>> ELSE Append(d[m \div 10], 48 + (m % 10))
              IN IF n < 0 THEN <<45>> \o d[-n] ELSE d[n]

(* Whatever the other processes do, a read returns the time it took, as    *)
(* decimal text, unless another read allocates between its kmalloc and its *)
(* copy_to_user, or is inside itoa at its kmalloc (TickTock.c 131-133, 83, *)
(* 111).  From 2038 on the time is negative; the least int has no text.    *)
ReadsOwnTime ==
  \A p \in Procs : Done(p) /\ num[p] >= -IntMax =>
    SubSeq(ubuf[p], 1, len[p]) = Decimal(num[p])

(* A program that writes back what it has just read sets the clock to that *)
(* time; unless a longer text was in its buffer before, since read adds no *)
(* NUL, or the time is negative.  With a newline behind the digits, as     *)
(* echo writes it, the time becomes ten times as much less 38              *)
(* (TickTock.c 119-120, 133, 141-145).                                     *)
Terminated(p) == ubuf[p][len[p] + (IF newline[p] THEN 2 ELSE 1)] = NUL
SetsWhatItRead ==
  [][\A p \in Procs : WriteTime(p) /\ Done(p) /\ num[p] >= 0 /\ Terminated(p) =>
       LET new == IF newline[p] THEN Wrap(10 * num[p] - 38) ELSE num[p] IN
       clock' = IF new < 0 THEN clock ELSE new]_vars
=============================================================================

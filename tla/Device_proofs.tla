----------------------------- MODULE Device_proofs -----------------------------
(***************************************************************************)
(* Proofs about the two devices that are driven by polling alone.          *)
(*                                                                         *)
(* The disk: do_io is synchronous and its writes land, for every set of    *)
(* sectors and contents and every number of calls, until a call times out. *)
(*                                                                         *)
(* The clock: read_unix_timestamp returns the time of one instant, on      *)
(* every day of every year that two digits can hold.                       *)
(***************************************************************************)
EXTENDS BlkDriver, Rtc, Integers, Sequences, FiniteSetTheorems, TLAPS

-----------------------------------------------------------------------------
(* The inductive invariant.                                                 *)

\* The device is never ahead of the driver, nor the driver of the device.
Counts ==
    /\ asked \in 0..MaxCalls /\ got \in Nat /\ answered \in Nat /\ seen \in Nat
    /\ seen <= answered /\ answered <= got /\ got <= asked
    /\ IsFiniteSet(inside) /\ got = answered + Cardinality(inside)
    /\ \A r \in inside : r.n \in 1..got

AllRequests == UNION {Requests(n) : n \in 1..MaxCalls}

Typed ==
    /\ call = None \/ (call \in Requests(asked) /\ chain = call /\ asked > 0)
    /\ asked > 0 => chain \in AllRequests
    /\ \A r \in inside : r.req \in AllRequests
    /\ disk \in [Sectors -> Contents \cup {None, Garbage}]
    /\ expected \in [Sectors -> Contents \cup {None, Unknown}]

\* A timeout leaves asked ahead of seen, and nothing makes up for it.
Lag == call # None => asked > seen

\* A sector that no write is under way to.
Settled(s) == expected[s] \in {Unknown, disk[s]}

\* Where the one request of a punctual driver is: not fetched, in the device, or
\* answered, and then its status byte and its effect belong together.
OneRequest ==
    \/ answered = asked - 1 /\ inside = {} /\ got = asked - 1
    \/ answered = asked - 1 /\ inside = {[n |-> asked, req |-> call]} /\ got = asked
    \/ /\ answered = asked /\ inside = {}
       /\ status = 0 => /\ call.id \in completed
                        /\ call.op = "out" => disk[call.lba] = call.val

Prompt ==
    /\ ~stray
    /\ returned # None /\ returned.ok => returned.id \in completed
    /\ call = None => inside = {} /\ answered = asked /\ \A s \in Sectors : Settled(s)
    /\ call # None => /\ OneRequest
                      /\ \A s \in Sectors : Settled(s) \/ (call.op = "out" /\ call.lba = s)

BlkInv == Counts /\ Typed /\ Lag /\ (Punctual => Prompt)

-----------------------------------------------------------------------------
(* Facts about requests.                                                    *)

LEMMA RequestFacts ==
    ASSUME NEW n \in 1..MaxCalls, NEW r \in Requests(n)
    PROVE  /\ r # None /\ r.id = n /\ r.lba \in Sectors
           /\ r.op \in {"out", "in"}
           /\ r.op = "out" => r.val \in Contents
           /\ r \in AllRequests
  BY BlkConstants DEF Requests, AllRequests

LEMMA AllRequestFacts ==
    ASSUME NEW r \in AllRequests
    PROVE  r.lba \in Sectors /\ (r.op = "out" => r.val \in Contents)
  BY DEF Requests, AllRequests

-----------------------------------------------------------------------------
(* One lemma per action.                                                    *)

LEMMA SubmitInv ==
    ASSUME BlkInv, NEW req \in Requests(asked + 1), Submit(req)
    PROVE  BlkInv'
<1>1. asked + 1 \in 1..MaxCalls /\ asked + 1 = asked'
  BY BlkConstants DEF BlkInv, Counts, Submit
<1>2. req # None /\ req \in AllRequests
  BY <1>1, RequestFacts
<1>3. Counts'
  BY <1>1 DEF BlkInv, Counts, Submit
<1>4. Typed'
  BY <1>1, <1>2 DEF BlkInv, Typed, Submit, Counts
<1>5. Lag'
  BY <1>1 DEF BlkInv, Counts, Lag, Submit
<1>6. Punctual' => Punctual
  BY <1>2, BlkConstants DEF Punctual, BlkInv, Counts, Submit
<1>7. ASSUME Prompt, Punctual' PROVE Prompt'
  <2>1. answered = asked /\ got = asked /\ inside = {}
    BY <1>7 DEF Prompt, Submit, BlkInv, Counts
  <2>2. OneRequest'
    BY <2>1, <1>1 DEF OneRequest, Submit, BlkInv, Counts
  <2> QED
    BY <1>2, <1>7, <2>2 DEF Prompt, Submit, Settled
<1> QED
  BY <1>3, <1>4, <1>5, <1>6, <1>7 DEF BlkInv

LEMMA FinishInv ==
    ASSUME BlkInv, Finish
    PROVE  BlkInv'
<1> USE DEF Finish, Return, UsedMoved
<1>1. /\ call \in Requests(asked) /\ asked \in 1..MaxCalls
      /\ call # None /\ call' = None
  BY DEF BlkInv, Counts, Typed
<1>2. call.id = asked /\ call.lba \in Sectors /\ call.op \in {"out", "in"}
      /\ (call.op = "out" => call.val \in Contents)
  BY <1>1, RequestFacts
<1>3. Counts'
  BY DEF BlkInv, Counts
<1>4. Typed'
  BY <1>1, <1>2 DEF BlkInv, Typed
<1>5. Lag'
  BY DEF Lag
<1>6. Punctual' => Punctual
  BY <1>1 DEF Punctual, BlkInv, Counts
<1>7. ASSUME Prompt, Punctual' PROVE Prompt'
  <2>1. /\ answered = asked /\ inside = {}
        /\ status = 0 => /\ call.id \in completed
                         /\ call.op = "out" => disk[call.lba] = call.val
    BY <1>1, <1>6, <1>7 DEF Prompt, OneRequest, Punctual, BlkInv, Counts
  <2>2. \A s \in Sectors : Settled(s)'
    <3> SUFFICES ASSUME NEW s \in Sectors PROVE Settled(s)'
      OBVIOUS
    <3>1. CASE call.op = "out" /\ call.lba = s
      BY <2>1, <3>1 DEF Settled, BlkInv, Typed
    <3>2. CASE ~(call.op = "out" /\ call.lba = s)
      <4>1. Settled(s)
        BY <1>1, <1>7, <3>2 DEF Prompt
      <4>2. expected'[s] = expected[s] /\ disk' = disk
        BY <3>2, <1>2 DEF BlkInv, Typed
      <4> QED
        BY <4>1, <4>2 DEF Settled
    <3> QED
      BY <3>1, <3>2
  <2>3. returned'.ok => returned'.id \in completed'
    BY <2>1
  <2> QED
    BY <1>1, <1>7, <2>1, <2>2, <2>3 DEF Prompt
<1> QED
  BY <1>3, <1>4, <1>5, <1>6, <1>7 DEF BlkInv

LEMMA TimeoutInv ==
    ASSUME BlkInv, Timeout
    PROVE  BlkInv'
<1> USE DEF Timeout, Return
<1>1. call \in Requests(asked) /\ asked \in 1..MaxCalls /\ call' = None
  BY DEF BlkInv, Counts, Typed
<1>2. call.lba \in Sectors /\ (call.op = "out" => call.val \in Contents)
  BY <1>1, RequestFacts
<1>3. Counts'
  BY DEF BlkInv, Counts
<1>4. Typed'
  BY <1>1, <1>2 DEF BlkInv, Typed
<1>5. Lag'
  BY DEF Lag
<1>6. ~Punctual'
  BY <1>1 DEF Punctual, BlkInv, Lag, Counts
<1> QED
  BY <1>3, <1>4, <1>5, <1>6 DEF BlkInv

LEMMA DevFetchInv ==
    ASSUME BlkInv, BlkFetch
    PROVE  BlkInv'
<1> USE DEF BlkFetch
<1>1. Counts'
  <2> DEFINE new == [n |-> got + 1, req |-> chain]
  <2>1. new \notin inside
    BY DEF BlkInv, Counts
  <2>2. IsFiniteSet(inside') /\ Cardinality(inside') = Cardinality(inside) + 1
    BY <2>1, FS_AddElement DEF BlkInv, Counts
  <2>3. \A r \in inside' : r.n \in 1..got'
    BY DEF BlkInv, Counts
  <2> QED
    BY <2>2, <2>3, FS_CardinalityType DEF BlkInv, Counts
<1>2. chain \in AllRequests
  BY DEF BlkInv, Counts, Typed
<1>3. Typed'
  BY <1>2 DEF BlkInv, Typed
<1>4. Lag'
  BY DEF BlkInv, Lag
<1>5. Punctual' => Punctual
  BY DEF Punctual
<1>6. ASSUME Prompt, Punctual' PROVE Prompt'
  <2>1. call # None
    BY <1>6 DEF Prompt, BlkInv, Counts
  <2>2. OneRequest /\ chain = call
    BY <1>6, <2>1 DEF Prompt, BlkInv, Typed
  <2>3. OneRequest'
    BY <2>2 DEF OneRequest, BlkInv, Counts
  <2> QED
    BY <1>6, <2>1, <2>3 DEF Prompt, Settled
<1> QED
  BY <1>1, <1>3, <1>4, <1>5, <1>6 DEF BlkInv

LEMMA DevCompleteInv ==
    ASSUME BlkInv, NEW r \in inside, NEW ok \in BOOLEAN, BlkComplete(r, ok)
    PROVE  BlkInv'
<1> USE DEF BlkComplete
<1>1. Counts'
  <2>1. Cardinality(inside) \in Nat /\ Cardinality(inside) # 0
    BY FS_CardinalityType, FS_EmptySet DEF BlkInv, Counts
  <2>2. IsFiniteSet(inside') /\ Cardinality(inside') = Cardinality(inside) - 1
    BY FS_RemoveElement DEF BlkInv, Counts
  <2>3. \A q \in inside' : q.n \in 1..got'
    BY DEF BlkInv, Counts
  <2> QED
    BY <2>1, <2>2, <2>3 DEF BlkInv, Counts
<1>2. r.req.lba \in Sectors /\ (r.req.op = "out" => r.req.val \in Contents)
  BY AllRequestFacts DEF BlkInv, Typed
<1>3. Typed'
  <2>1. disk' \in [Sectors -> Contents \cup {None, Garbage}]
    BY <1>2 DEF BlkInv, Typed, Memory
  <2> QED
    BY <2>1 DEF BlkInv, Typed
<1>4. Lag'
  BY DEF BlkInv, Lag
<1>5. Punctual' => Punctual
  BY DEF Punctual
<1>6. ASSUME Prompt, Punctual' PROVE Prompt'
  <2>1. call # None /\ inside = {[n |-> asked, req |-> call]} /\ answered = asked - 1
    BY <1>6 DEF Prompt, OneRequest
  <2>2. r.req = call /\ Alive(r.req)
    BY <2>1 DEF Alive
  <2>3. inside' = {} /\ answered' = asked
    BY <2>1 DEF BlkInv, Counts
  <2>9. ~stray'
    BY <1>6, <2>2, Zenon DEF Prompt
  <2>4. status' = 0 => ok
    BY <2>2
  <2>5. ok => /\ call.id \in completed'
              /\ call.op = "out" => disk'[call.lba] = call.val
    BY <1>2, <2>2 DEF Memory, BlkInv, Typed
  <2>6. OneRequest'
    BY <2>3, <2>4, <2>5 DEF OneRequest
  <2>7. \A s \in Sectors : Settled(s)' \/ (call.op = "out" /\ call.lba = s)
    BY <1>6, <2>1, <2>2 DEF Prompt, Settled, BlkInv, Typed
  <2>8. returned # None /\ returned.ok => returned.id \in completed'
    BY <1>6 DEF Prompt
  <2> QED
    BY <2>1, <2>3, <2>6, <2>7, <2>8, <2>9 DEF Prompt
<1> QED
  BY <1>1, <1>3, <1>4, <1>5, <1>6 DEF BlkInv

-----------------------------------------------------------------------------
(* Theorems.                                                                *)

LEMMA BlkInvariance == BlkSpec => []BlkInv
<1>1. BlkInit => BlkInv
  BY BlkConstants, FS_EmptySet DEF BlkInit, BlkInv, Counts, Typed, Lag, Prompt, Settled
<1>2. BlkInv /\ [BlkNext]_blk_vars => BlkInv'
  <2> SUFFICES ASSUME BlkInv, [BlkNext]_blk_vars PROVE BlkInv'
    OBVIOUS
  <2>1. CASE UNCHANGED blk_vars
    BY <2>1 DEF BlkInv, Counts, Typed, Lag, Punctual, Prompt, OneRequest, Settled, blk_vars
  <2>2. CASE \E req \in Requests(asked + 1) : Submit(req)
    BY <2>2, SubmitInv
  <2>3. CASE do_io
    BY <2>3, FinishInv, TimeoutInv DEF do_io
  <2>4. CASE BlkDevice
    BY <2>4, DevFetchInv, DevCompleteInv DEF BlkDevice
  <2> QED
    BY <2>1, <2>2, <2>3, <2>4 DEF BlkNext
<1> QED
  BY <1>1, <1>2, PTL DEF BlkSpec

\* Until a call times out, do_io returns true only after the device has carried
\* out its own request, and the device never writes into the memory of a call
\* that is over.
THEOREM BlkSynchronous == BlkSpec => []Synchronous
<1>1. BlkInv => Synchronous
  BY DEF BlkInv, Synchronous, OwnRequestDone, Prompt
<1> QED
  BY <1>1, BlkInvariance, PTL

\* Until a call times out, a sector holds what the last write to it that
\* returned true put there.
THEOREM BlkWritesLand == BlkSpec => []WritesLand
<1>1. BlkInv => WritesLand
  BY DEF BlkInv, WritesLand, Prompt, Settled
<1> QED
  BY <1>1, BlkInvariance, PTL

-----------------------------------------------------------------------------
(* The clock.                                                               *)

\* The days of the months before each, in a year of 365 days.
Cumulated == << 0, 31, 59, 90, 120, 151, 181, 212, 243, 273, 304, 334 >>

\* What the recursion of DaysBeforeMonth computes.
LEMMA DaysBefore ==
    \A mo \in 1..12 : DaysBeforeMonth[mo] = Cumulated[mo]
<1> DEFINE T == << 31, 28, 31, 30, 31, 30, 31, 31, 30, 31, 30, 31 >>
           P(f) == f = [mo \in 1..12 |-> IF mo = 1 THEN 0 ELSE f[mo - 1] + T[mo - 1]]
           c == [mo \in 1..12 |-> Cumulated[mo]]
<1>1. T = DAYS_IN_MONTH
  BY DEF DAYS_IN_MONTH
<1>2. P(c)
  <2>1. \A mo \in 1..12 : mo # 1 => c[mo] = c[mo - 1] + T[mo - 1]
    BY DEF Cumulated
  <2>2. c[1] = 0
    BY DEF Cumulated
  <2> QED
    BY <2>1, <2>2
<1>3. ASSUME NEW f, P(f) PROVE \A mo \in 1..12 : f[mo] = Cumulated[mo]
  <2>1. f[1] = 0 /\ \A mo \in 2..12 : f[mo] = f[mo - 1] + T[mo - 1]
    BY <1>3
  <2>2. f[1] = 0 /\ f[2] = 31 /\ f[3] = 59 /\ f[4] = 90
    BY <2>1
  <2>3. f[5] = 120 /\ f[6] = 151 /\ f[7] = 181 /\ f[8] = 212
    BY <2>1, <2>2
  <2>4. f[9] = 243 /\ f[10] = 273 /\ f[11] = 304 /\ f[12] = 334
    BY <2>1, <2>3
  <2> QED
    BY <2>2, <2>3, <2>4 DEF Cumulated
<1>4. P(DaysBeforeMonth)
  <2>1. DaysBeforeMonth = CHOOSE f : P(f)
    BY DEF DaysBeforeMonth, DAYS_IN_MONTH
  <2> QED
    BY <1>2, <2>1
<1> QED
  BY <1>3, <1>4

-----------------------------------------------------------------------------
(* The chip's calendar.                                                     *)

IsLeap(i) == i % 4 = 0
NewYear(i) == 10957 + 365 * i + (i + 3) \div 4
Length(mo, i) == IF mo = 2 THEN (IF i % 4 = 0 THEN 29 ELSE 28)
                 ELSE IF mo \in {4, 6, 9, 11} THEN 30 ELSE 31
LeapDayOf(i, mo) == IF IsLeap(i) /\ mo > 2 THEN 1 ELSE 0

\* The chip's date is one of the calendar, and epoch_day its number.
DateInv ==
    /\ year \in 0..99 /\ month \in 1..12
    /\ day \in 1..Length(month, year)
    /\ epoch_day = NewYear(year) + Cumulated[month]
                     + LeapDayOf(year, month) + (day - 1)

Flags == last_second \in BOOLEAN /\ uip \in BOOLEAN /\ binary \in BOOLEAN

RegisterBytes == [i \in 1..6 |-> Encoded(Registers[i])]

\* What a call has read so far belongs to the instant at which it began: it
\* began in time, and the day does not pass before it is over.
ReadAt ==
    /\ begun = Instant
    /\ regs \in Seq(Nat) /\ Len(regs) <= 6
    /\ \A i \in 1..Len(regs) : regs[i] = RegisterBytes[i]

ReadInv == busy => safe /\ ReadAt

RtcInv == DateInv /\ Flags /\ ReadInv

\* From the last day of a month to the first of the next.
LEMMA NextMonth ==
    ASSUME NEW i \in 0..99, NEW mo \in 1..11
    PROVE  Cumulated[mo] + LeapDayOf(i, mo) + Length(mo, i)
             = Cumulated[mo + 1] + LeapDayOf(i, mo + 1)
<1>1. IsLeap(i) \in BOOLEAN
  BY DEF IsLeap
<1> QED
  BY <1>1 DEF Cumulated, LeapDayOf, Length, IsLeap

\* From New Year's Day to the next.
LEMMA NextYear ==
    ASSUME NEW i \in 0..98
    PROVE  NewYear(i) + 365 + LeapDayOf(i, 12) = NewYear(i + 1)
<1>1. (i + 4) \div 4 = (i + 3) \div 4 + (IF i % 4 = 0 THEN 1 ELSE 0)
  OBVIOUS
<1>2. (i + 4) \div 4 \in Nat /\ (i + 3) \div 4 \in Nat /\ (i + 1) + 3 = i + 4
  OBVIOUS
<1> QED
  BY <1>1, <1>2 DEF NewYear, LeapDayOf, IsLeap

\* Two BCD digits are decoded to the number they encode.
LEMMA Decodes ==
    ASSUME NEW v \in 0..99
    PROVE  bcd_to_bin(16 * (v \div 10) + (v % 10)) = v
<1>1. v \div 10 \in 0..9 /\ v % 10 \in 0..9 /\ v = 10 * (v \div 10) + (v % 10)
  OBVIOUS
<1>2. ASSUME NEW a \in 0..9, NEW b \in 0..9
      PROVE  (16 * a + b) % 16 = b /\ (16 * a + b) \div 16 = a
  BY <1>2
<1> QED
  BY <1>1, <1>2 DEF bcd_to_bin

-----------------------------------------------------------------------------
(* Every step keeps the invariant.                                          *)

\* The months have 28 to 31 days, December 31.
LEMMA MonthLength ==
    ASSUME NEW mo \in 1..12, NEW i \in Nat
    PROVE  Length(mo, i) \in 28..31 /\ Length(12, i) = 31
  BY DEF Length

\* Midnight: the next day, the next month or the next year.
LEMMA MidnightDate ==
    ASSUME DateInv, Midnight
    PROVE  DateInv'
<1>1. epoch_day' = epoch_day + 1
  BY DEF Midnight
<1>2. /\ year \in 0..99 /\ month \in 1..12
      /\ day \in 1..Length(month, year)
      /\ Length(month, year) \in 28..31
      /\ epoch_day = NewYear(year) + Cumulated[month]
                       + LeapDayOf(year, month) + (day - 1)
  BY MonthLength DEF DateInv
<1>3. /\ NewYear(year) \in Nat /\ Cumulated[month] \in Nat
      /\ LeapDayOf(year, month) \in {0, 1}
  BY <1>2 DEF NewYear, Cumulated, LeapDayOf
<1>4. CASE day < Length(month, year)
  <2>1. day' = day + 1 /\ month' = month /\ year' = year
    BY <1>4 DEF Midnight, Month, Length
  <2> QED
    BY <1>1, <1>2, <1>3, <1>4, <2>1 DEF DateInv
<1>5. CASE ~(day < Length(month, year)) /\ month < 12
  <2>1. day' = 1 /\ month' = month + 1 /\ year' = year
    BY <1>5 DEF Midnight, Month, Length
  <2>2. day = Length(month, year) /\ month \in 1..11 /\ month + 1 \in 1..12
    BY <1>2, <1>5
  <2>3. Cumulated[month] + LeapDayOf(year, month) + Length(month, year)
          = Cumulated[month + 1] + LeapDayOf(year, month + 1)
    BY <1>2, <2>2, NextMonth
  <2>4. Cumulated[month + 1] \in Nat /\ LeapDayOf(year, month + 1) \in {0, 1}
    BY <2>2 DEF Cumulated, LeapDayOf
  <2>5. epoch_day' = NewYear(year) + Cumulated[month + 1] + LeapDayOf(year, month + 1)
    BY <1>1, <1>2, <1>3, <2>2, <2>3, <2>4
  <2>6. day' \in 1..Length(month + 1, year)
    BY <1>2, <2>1, <2>2, MonthLength
  <2> QED
    BY <1>1, <1>2, <1>3, <2>1, <2>2, <2>4, <2>5, <2>6 DEF DateInv
<1>6. CASE ~(day < Length(month, year)) /\ ~(month < 12)
  <2>1. day' = 1 /\ month' = 1 /\ year < 99 /\ year' = year + 1
    BY <1>6 DEF Midnight, Month, Length
  <2>2. month = 12 /\ Length(12, year) = 31 /\ day = 31 /\ year \in 0..98
    BY <1>2, <1>6, <2>1, MonthLength
  <2>3. NewYear(year) + 365 + LeapDayOf(year, 12) = NewYear(year + 1)
    BY <2>2, NextYear
  <2>4. Cumulated[12] = 334 /\ Cumulated[1] = 0 /\ LeapDayOf(year + 1, 1) = 0
    BY DEF Cumulated, LeapDayOf
  <2>5. NewYear(year + 1) \in Nat
    BY <1>2 DEF NewYear
  <2>6. epoch_day' = NewYear(year + 1)
    BY <1>1, <1>2, <1>3, <2>2, <2>3, <2>4
  <2>7. 1 \in 1..Length(1, year + 1)
    BY <1>2, MonthLength
  <2> QED
    BY <1>1, <1>2, <2>1, <2>2, <2>4, <2>5, <2>6, <2>7 DEF DateInv
<1> QED
  BY <1>4, <1>5, <1>6

\* The registers hold numbers of two digits.
LEMMA RegisterTypes ==
    ASSUME DateInv, Flags
    PROVE  \A i \in 1..6 : Registers[i] \in 0..99 /\ RegisterBytes[i] \in Nat
<1>1. day \in 1..31
  BY MonthLength DEF DateInv
<1>2. \A i \in 1..6 : Registers[i] \in 0..99
  BY <1>1 DEF DateInv, Flags, Registers
<1>3. \A v \in 0..99 : Encoded(v) \in Nat
  BY DEF Encoded
<1> QED
  BY <1>2, <1>3 DEF RegisterBytes

\* Nothing moves as long as the date stands.
LEMMA SameDate ==
    ASSUME UNCHANGED << year, month, day, last_second, epoch_day, binary >>
    PROVE  Instant' = Instant /\ RegisterBytes' = RegisterBytes /\ (DateInv => DateInv')
<1>1. /\ year' = year /\ month' = month /\ day' = day /\ last_second' = last_second
      /\ epoch_day' = epoch_day /\ binary' = binary
  OBVIOUS
<1>2. Instant' = Instant
  BY <1>1 DEF Instant, Now, Registers
<1>3. RegisterBytes' = RegisterBytes
  BY <1>1 DEF RegisterBytes, Encoded, Registers
<1>4. DateInv => DateInv'
  BY <1>1, Zenon DEF DateInv
<1> QED
  BY <1>2, <1>3, <1>4

\* Reading the next register.
LEMMA ReadNext ==
    ASSUME ReadAt, DateInv, Flags, CmosRead
    PROVE  ReadAt'
<1> DEFINE n == Len(regs)
           x == RegisterBytes[n + 1]
<1>1. n < 6 /\ regs \in Seq(Nat) /\ n \in Nat
  BY DEF CmosRead, ReadAt
<1>2. n \in 0..5 /\ n + 1 \in 1..6
  <2> HIDE DEF n
  <2> QED
    BY <1>1
<1>3. begun' = begun /\ Instant' = Instant /\ RegisterBytes' = RegisterBytes
  BY SameDate DEF CmosRead, chip
<1>4. x = Encoded(Registers[n + 1]) /\ x \in Nat
  BY <1>2, RegisterTypes DEF RegisterBytes
<1>5. regs' = Append(regs, x)
  BY <1>4 DEF CmosRead
<1>6. \A i \in 1..n : regs[i] = RegisterBytes[i]
  BY DEF ReadAt
<1> HIDE DEF x
<1>7. /\ regs' \in Seq(Nat) /\ Len(regs') = n + 1 /\ regs'[n + 1] = x
      /\ \A i \in 1..n : regs'[i] = regs[i]
  BY <1>1, <1>4, <1>5
<1>8. ASSUME NEW i \in 1..Len(regs') PROVE regs'[i] = RegisterBytes[i]
  <2>1. i \in 1..n \/ i = n + 1
    BY <1>2, <1>7
  <2>2. CASE i \in 1..n
    BY <1>6, <1>7, <2>2
  <2>3. CASE i = n + 1
    BY <1>7, <2>3 DEF x
  <2> QED
    BY <2>1, <2>2, <2>3
<1>9. Len(regs') <= 6
  BY <1>2, <1>7
<1>10. begun = Instant
  BY DEF ReadAt
<1> QED
  BY <1>3, <1>7, <1>8, <1>9, <1>10 DEF ReadAt

\* Without suspension no midnight falls into a call.
LEMMA RtcStep ==
    ASSUME RtcInv, ~Preempted, [RtcNext]_rtc_vars
    PROVE  RtcInv'
<1> USE DEF RtcInv, Flags, ReadInv
<1>1. CASE /\ UNCHANGED << year, month, day, last_second, epoch_day, binary, regs, busy, safe, begun >>
           /\ uip' \in BOOLEAN
  <2>1. ReadAt => ReadAt'
    <3>1. Instant' = Instant /\ RegisterBytes' = RegisterBytes /\ begun' = begun /\ regs' = regs
      BY <1>1, SameDate
    <3> QED
      BY <3>1, Zenon DEF ReadAt
  <2>2. DateInv'
    BY <1>1, SameDate
  <2> QED
    BY <1>1, <2>1, <2>2
<1>2. CASE UNCHANGED rtc_vars
  BY <1>1, <1>2 DEF rtc_vars, chip
<1>3. CASE RaiseUip
  BY <1>1, <1>3 DEF RaiseUip
<1>4. CASE Midnight
  <2>1. busy' = busy /\ ~busy /\ last_second' = FALSE /\ uip' = FALSE /\ binary' = binary
    BY <1>4 DEF Midnight
  <2>2. DateInv'
    BY <1>4, MidnightDate
  <2> QED
    BY <2>1, <2>2
<1>5. CASE Pass
  <2>1. /\ busy' = busy /\ ~busy /\ last_second' = TRUE /\ uip' = uip /\ binary' = binary
        /\ UNCHANGED << year, month, day, epoch_day >>
    BY <1>5 DEF Pass
  <2>2. DateInv'
    BY <2>1 DEF DateInv
  <2> QED
    BY <2>1, <2>2
<1>6. CASE Begin
  <2>1. /\ UNCHANGED << year, month, day, last_second, epoch_day, uip, binary >>
        /\ safe' /\ begun' = Instant /\ regs' = << >>
    BY <1>6 DEF Begin, UipClear, chip
  <2>2. DateInv' /\ begun' = Instant'
    BY <2>1, SameDate
  <2>3. << >> \in Seq(Nat) /\ Len(<< >>) = 0
    OBVIOUS
  <2>4. ReadAt'
    BY <2>1, <2>2, <2>3 DEF ReadAt
  <2> QED
    BY <2>1, <2>2, <2>4
<1>7. CASE CmosRead
  <2>1. /\ UNCHANGED << year, month, day, last_second, epoch_day, uip, binary, busy, safe >>
        /\ busy
    BY <1>7 DEF CmosRead, chip
  <2>2. DateInv'
    BY <2>1, SameDate
  <2>3. ReadAt'
    BY <1>7, <2>1, ReadNext
  <2> QED
    BY <2>1, <2>2, <2>3
<1>8. CASE RtcReturn
  <2>1. busy' = FALSE /\ UNCHANGED << year, month, day, last_second, epoch_day, uip, binary >>
    BY <1>8 DEF RtcReturn, chip
  <2>2. DateInv'
    BY <2>1, SameDate
  <2> QED
    BY <2>1, <2>2
<1> QED
  BY <1>2, <1>3, <1>4, <1>5, <1>6, <1>7, <1>8 DEF RtcNext

\* The days the year formula leaves out: it counts the leap years before the
\* current one from 1970 instead of 1969, and takes 2070 for a century.
Lost(i) == (IF i % 4 = 1 THEN 1 ELSE 0) + (IF i >= 70 THEN 1 ELSE 0)

\* The code's formula is short of the calendar by Lost days.
LEMMA DaysOfDate ==
    ASSUME DateInv
    PROVE  /\ Days(2000 + year, month, day) + Lost(year) = epoch_day
           /\ Days(2000 + year, month, day) \in Int
<1> DEFINE yy == 30 + year
<1>0. /\ year \in 0..99 /\ month \in 1..12 /\ day \in 1..31
      /\ epoch_day = NewYear(year) + Cumulated[month] + LeapDayOf(year, month) + (day - 1)
  BY MonthLength DEF DateInv
<1>1. (30 + year) \div 4 + (IF year % 4 = 1 THEN 1 ELSE 0) = 7 + (year + 3) \div 4
  BY <1>0
<1>2. (30 + year) \div 100 = (IF year >= 70 THEN 1 ELSE 0) /\ (30 + year) \div 400 = 0
  BY <1>0
<1>3. is_leap(2000 + year) <=> IsLeap(year)
  <2>1. (2000 + year) % 4 = year % 4 /\ (2000 + year) % 100 = year /\ (2000 + year) % 400 = year
    BY <1>0
  <2> QED
    BY <1>0, <2>1 DEF is_leap, IsLeap
<1>4. LeapDay(2000 + year, month) = LeapDayOf(year, month)
  BY <1>0, <1>3 DEF LeapDay, LeapDayOf
<1>5. DaysBeforeMonth[month] = Cumulated[month] /\ Cumulated[month] \in Nat
  BY <1>0, DaysBefore DEF Cumulated
<1>6. Days(2000 + year, month, day)
        = yy * 365 + yy \div 4 - yy \div 100 + yy \div 400
            + Cumulated[month] + LeapDayOf(year, month) + (day - 1)
  BY <1>0, <1>4, <1>5 DEF Days
<1>7. LeapDayOf(year, month) \in Nat /\ yy \div 4 \in Nat /\ (year + 3) \div 4 \in Nat
  BY <1>0 DEF LeapDayOf
<1> QED
  BY <1>0, <1>1, <1>2, <1>5, <1>6, <1>7 DEF Lost, NewYear

\* A complete read is what the chip showed when the call began.
LEMMA ReadsInstant ==
    ASSUME RtcInv, AllRead
    PROVE  Decoded = Registers /\ begun = Instant
<1>1. busy /\ Len(regs) = 6 /\ binary \in BOOLEAN
  BY DEF AllRead, RtcInv, Flags
<1>2. \A i \in 1..6 : regs[i] = RegisterBytes[i] /\ Registers[i] \in 0..99
  BY <1>1, RegisterTypes DEF RtcInv, ReadInv, ReadAt
<1>3. \A i \in 1..6 : Decoded[i] = Registers[i]
  BY <1>1, <1>2, Decodes DEF Decoded, RegisterBytes, Encoded
<1>4. Decoded = [i \in 1..6 |-> Decoded[i]]
  BY DEF Decoded
<1>5. Registers = [i \in 1..6 |-> Registers[i]]
  BY DEF Registers
<1>6. Decoded = Registers
  BY <1>3, <1>4, <1>5
<1> QED
  BY <1>1, <1>6 DEF RtcInv, ReadInv, ReadAt

\* In the years without lost days it is the time of that instant.
LEMMA TimeExactHolds ==
    ASSUME RtcInv
    PROVE  AllRead /\ LeapDaysCounted => UnixTime
<1> SUFFICES ASSUME AllRead, Decoded[6] % 4 # 1, Decoded[6] < 70
             PROVE  read_unix_timestamp = Now
  BY DEF LeapDaysCounted, UnixTime
<1>1. Decoded = Registers /\ last_second \in BOOLEAN
  BY ReadsInstant DEF RtcInv, Flags
<1>2. /\ Decoded[6] = year /\ Decoded[5] = month /\ Decoded[4] = day
      /\ Decoded[3] = (IF last_second THEN 23 ELSE 0)
      /\ Decoded[2] = (IF last_second THEN 59 ELSE 0)
      /\ Decoded[1] = (IF last_second THEN 59 ELSE 0)
  BY <1>1 DEF Registers
<1>3. day \in 1..31 /\ year \in 0..99 /\ month \in 1..12
  BY MonthLength DEF RtcInv, Flags, DateInv
<1>4. Days(2000 + year, month, day) + Lost(year) = epoch_day /\ Days(2000 + year, month, day) \in Int
  BY DaysOfDate DEF RtcInv
<1>5. read_unix_timestamp
        = << Days(2000 + year, month, day), IF last_second THEN 86399 ELSE 0 >>
  BY <1>1, <1>2 DEF read_unix_timestamp
<1>6. Lost(year) = 0
  BY <1>2, <1>3 DEF Lost
<1> QED
  BY <1>4, <1>5, <1>6 DEF Now

\* RtcInv holds in every reachable state.
LEMMA RtcInvariant ==
    ASSUME ~Preempted
    PROVE  RtcSpec => []RtcInv
<1>1. RtcInit => RtcInv
  <2> SUFFICES ASSUME RtcInit PROVE RtcInv
    OBVIOUS
  <2>1. /\ year \in 0..99 /\ month = 1 /\ day = 1 /\ last_second = FALSE /\ uip = FALSE
        /\ binary \in BOOLEAN /\ busy = FALSE /\ epoch_day = NewYear(year)
    BY RtcConstants DEF RtcInit, NewYearsDay, NewYear
  <2>2. 1 \in 1..Length(1, year)
    BY <2>1, MonthLength
  <2>3. Cumulated[1] = 0 /\ LeapDayOf(year, 1) = 0 /\ NewYear(year) \in Nat
    BY <2>1 DEF Cumulated, LeapDayOf, NewYear
  <2>4. DateInv
    BY <2>1, <2>2, <2>3 DEF DateInv
  <2> QED
    BY <2>1, <2>4 DEF RtcInv, Flags, ReadInv
<1>2. RtcInv /\ [RtcNext]_rtc_vars => RtcInv'
  BY RtcStep
<1> QED
  BY <1>1, <1>2, PTL DEF RtcSpec

\* For every start year the clock can hold, every date up to the end of 2099 and
\* every interleaving of the chip's steps with the reads of read_unix_timestamp,
\* unless the guest is suspended during the call: the decoded values are the
\* chip's at the instant at which the call began, and the time returned is the
\* Unix time of that instant in every year up to 2069 that does not follow a
\* leap year.
THEOREM ClockIsExact ==
    ASSUME ~Preempted
    PROVE  RtcSpec => []ClockExact
<1>1. RtcInv => OneInstant
  BY ReadsInstant DEF OneInstant
<1>2. RtcInv => (AllRead /\ LeapDaysCounted => UnixTime)
  BY TimeExactHolds
<1>3. RtcInv => ClockExact
  BY <1>1, <1>2 DEF ClockExact
<1> QED
  BY <1>3, RtcInvariant, PTL

=============================================================================

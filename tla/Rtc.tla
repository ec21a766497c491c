--------------------------------- MODULE Rtc ---------------------------------
(***************************************************************************)
(* read_unix_timestamp of unikernel/src/rtc.rs against a CMOS clock that   *)
(* runs on while its registers are read one by one.                        *)
(*                                                                         *)
(* Of each day the model keeps the first and the last second, the ones at  *)
(* which a date changes.  A timestamp is a pair << days, seconds >>: the   *)
(* code's days * 86400 + seconds in i64, which TLC's integers do not hold. *)
(***************************************************************************)
EXTENDS Naturals, Sequences

CONSTANTS
    StartYears,   \* years (after 2000) on whose first day the clock starts
    Preempted     \* whether the guest may be suspended between two reads

ASSUME RtcConstants == StartYears \subseteq 0..99 /\ Preempted \in BOOLEAN

VARIABLES
    year, month, day, \* the chip's date
    last_second,            \* 23:59:59, else 00:00:00
    epoch_day,       \* days since 1970-01-01, counted by the chip's midnights
    uip,             \* register A: update in progress
    binary,          \* register B, bit 2
    regs,            \* what the call under way has read: sec, min, hour, ...
    busy,            \* a call is reading
    safe,            \* it began with at least 244 us to the next update
    begun            \* what the chip showed when the call began

chip == << year, month, day, last_second, epoch_day, uip >>
rtc_vars == << chip, binary, regs, busy, safe, begun >>

\* 2000-01-01 is day 10957, and 2000 + i is a leap year iff 4 divides i.
NewYearsDay(i) == 10957 + 365 * i + (i + 3) \div 4

Now == << epoch_day, IF last_second THEN 86399 ELSE 0 >>

\* The chip's registers 0, 2, 4, 7, 8 and 9, in the order they are read.
Registers == << IF last_second THEN 59 ELSE 0, IF last_second THEN 59 ELSE 0,
                IF last_second THEN 23 ELSE 0, day, month, year >>

Instant == [regs |-> Registers, time |-> Now]
NoInstant == [regs |-> << >>, time |-> << 0, 0 >>]

RtcInit ==
    /\ year \in StartYears /\ month = 1 /\ day = 1 /\ last_second = FALSE
    /\ epoch_day = NewYearsDay(year)
    /\ uip = FALSE /\ binary \in BOOLEAN
    /\ regs = << >> /\ busy = FALSE /\ safe = FALSE
    /\ begun = NoInstant

-----------------------------------------------------------------------------
(* The chip (external).                                                     *)

Month(mo, leap) == IF mo = 2 THEN (IF leap THEN 29 ELSE 28)
                   ELSE IF mo \in {4, 6, 9, 11} THEN 30 ELSE 31

\* UIP is raised 244 us before the update.
RaiseUip ==
    /\ last_second /\ ~uip /\ uip' = TRUE
    /\ UNCHANGED << year, month, day, last_second, epoch_day, binary, regs, busy, safe, begun >>

\* Midnight.  A read that began in time is over before it, unless the guest
\* was suspended.  The clock stops on the New Year's Day after a start year.
Midnight ==
    /\ year \in StartYears
    /\ uip /\ (busy /\ safe => Preempted)
    /\ last_second' = FALSE /\ uip' = FALSE
    /\ epoch_day' = epoch_day + 1
    /\ IF day < Month(month, year % 4 = 0) THEN day' = day + 1 /\ UNCHANGED << month, year >>
       ELSE IF month < 12 THEN day' = 1 /\ month' = month + 1 /\ UNCHANGED year
       ELSE day' = 1 /\ month' = 1 /\ year < 99 /\ year' = year + 1
    /\ UNCHANGED << binary, regs, busy, safe, begun >>

\* The day passes.
Pass ==
    /\ ~last_second /\ ~busy /\ last_second' = TRUE
    /\ UNCHANGED << year, month, day, epoch_day, uip, binary, regs, busy, safe, begun >>

-----------------------------------------------------------------------------
(* read_unix_timestamp.                                                     *)

Encoded(v) == IF binary THEN v ELSE 16 * (v \div 10) + (v % 10)

bcd_to_bin(v) == (v % 16) + (v \div 16) * 10

\* while cmos_read(0x0A) & 0x80 != 0 {}
UipClear == ~uip

Begin ==
    /\ ~busy /\ UipClear
    /\ busy' = TRUE /\ safe' = ~uip /\ begun' = Instant /\ regs' = << >>
    /\ UNCHANGED << chip, binary >>

CmosRead ==
    /\ busy /\ Len(regs) < 6
    /\ regs' = Append(regs, Encoded(Registers[Len(regs) + 1]))
    /\ UNCHANGED << chip, binary, busy, safe, begun >>

DAYS_IN_MONTH == << 31, 28, 31, 30, 31, 30, 31, 31, 30, 31, 30, 31 >>

DaysBeforeMonth[mo \in 1..12] ==
    IF mo = 1 THEN 0 ELSE DaysBeforeMonth[mo - 1] + DAYS_IN_MONTH[mo - 1]

is_leap(full_year) ==
    (full_year % 4 = 0 /\ full_year % 100 # 0) \/ full_year % 400 = 0

LeapDay_FromFebruary(full_year, mo) == IF is_leap(full_year) /\ mo > 1 THEN 1 ELSE 0

LeapDay(full_year, mo) == IF is_leap(full_year) /\ mo > 2 THEN 1 ELSE 0

Days(full_year, mo, dom) ==
    LET yy == full_year - 1970
    IN  yy * 365 + yy \div 4 - yy \div 100 + yy \div 400
            + DaysBeforeMonth[mo] + LeapDay(full_year, mo) + (dom - 1)

\* Register B is read last, and decides how the others are decoded.
Decoded == [i \in 1..6 |-> IF binary THEN regs[i] ELSE bcd_to_bin(regs[i])]

read_unix_timestamp ==
    LET v == Decoded
    IN  << Days(2000 + v[6], v[5], v[4]), v[3] * 3600 + v[2] * 60 + v[1] >>

AllRead == busy /\ Len(regs) = 6

RtcReturn ==
    /\ AllRead
    /\ busy' = FALSE /\ safe' = FALSE /\ regs' = << >> /\ begun' = NoInstant
    /\ UNCHANGED << chip, binary >>

RtcNext == RaiseUip \/ Midnight \/ Pass \/ Begin \/ CmosRead \/ RtcReturn
RtcSpec == RtcInit /\ [][RtcNext]_rtc_vars

-----------------------------------------------------------------------------
(* Properties.                                                              *)

\* The six values a call has read and decoded are the chip's at one instant of
\* the call: no midnight tears it apart, in BCD and in binary mode (rtc.rs:41:
\* the wait for UIP keeps values from changing during the read).
OneInstant == AllRead => Decoded \in {begun.regs, Registers}

\* read_unix_timestamp is the Unix time (rtc.rs:38, 70: leap years considered,
\* Gregorian calendar) at one instant of the call.
UnixTime == AllRead => read_unix_timestamp \in {begun.time, Now}

\* The years in which yy / 4 - yy / 100 counts the leap days since 1970: up to
\* 2069, but for the years after a leap year.
LeapDaysCounted == Decoded[6] % 4 # 1 /\ Decoded[6] < 70

\* A call is not torn apart in any year, and in the years whose leap days the
\* code counts it returns the Unix time: month lengths, 29 February and the
\* turns of months and years are right.
ClockExact == OneInstant /\ (AllRead /\ LeapDaysCounted => UnixTime)

=============================================================================

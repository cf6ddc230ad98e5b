------------------------------- MODULE CmosTime -------------------------------
(***************************************************************************)
(* cmostime of xv6/lapic.c: reading a clock that cannot be stopped, one     *)
(* register at a time, until two readings agree.  The clock is external:    *)
(* once a second, for a while, it shows UIP and its registers may read as   *)
(* anything; then they hold the next time.  A date is a function from Field *)
(* to numbers.                                                              *)
(***************************************************************************)
EXTENDS Integers, Sequences

CONSTANTS
  Fields,   \* the registers, in the order fill_rtcdate reads them
  Times,    \* the dates the clock goes through
  PASS      \* register reads that fit between two updates

Field == {Fields[i] : i \in DOMAIN Fields}

VARIABLES
  now,      \* index in Times of the date in the registers
  updating, \* UIP
  quiet,    \* registers read since the last update, up to PASS
  bcd,      \* the encoding of the registers
  pc, k,    \* place in cmostime, and in fill_rtcdate
  t1, t2,
  since,    \* what now was when cmostime was called
  r

vars == <<now, updating, quiet, bcd, pc, k, t1, t2, since, r>>

\* What the register of field f holds for v; years count from 2000.
Century(f) == IF f = "year" THEN 2000 ELSE 0
Encode(f, v) ==
  LET n == v - Century(f) IN IF bcd THEN ((n \div 10) * 16) + (n % 10) ELSE n
Blank == [f \in Field |-> 0]

Init ==
  /\ now = 1 /\ updating = FALSE /\ quiet = PASS /\ bcd \in BOOLEAN
  /\ pc = "idle" /\ k = 1 /\ t1 = Blank /\ t2 = Blank /\ since = 1 /\ r = Blank

-----------------------------------------------------------------------------
(* The clock *)

update_begins ==
  /\ ~updating /\ now < Len(Times) /\ quiet = PASS
  /\ updating' = TRUE
  /\ UNCHANGED <<now, quiet, bcd, pc, k, t1, t2, since, r>>

update_ends ==
  /\ updating
  /\ updating' = FALSE /\ now' = now + 1 /\ quiet' = 0
  /\ UNCHANGED <<bcd, pc, k, t1, t2, since, r>>

\* cmos_read: what a register may give.
cmos_read(f) ==
  IF updating
    THEN {0, Encode(f, Times[now][f]), Encode(f, Times[now + 1][f])}
    ELSE {Encode(f, Times[now][f])}
Aged == IF quiet < PASS THEN quiet + 1 ELSE PASS

-----------------------------------------------------------------------------
(* cmostime *)

call ==
  /\ pc = "idle"
  /\ pc' = "t1" /\ k' = 1 /\ since' = now
  /\ UNCHANGED <<now, updating, quiet, bcd, t1, t2, r>>

\* Variant: two readings are enough, whatever they are.
Agree_ignored == TRUE

\* memcmp(&t1, &t2)
Agree == t1 = t2

\* fill_rtcdate, a register at a time.
fill_rtcdate ==
  /\ pc \in {"t1", "t2"} /\ k <= Len(Fields)
  /\ \E v \in cmos_read(Fields[k]) :
       IF pc = "t1"
         THEN t1' = [t1 EXCEPT ![Fields[k]] = v] /\ UNCHANGED t2
         ELSE t2' = [t2 EXCEPT ![Fields[k]] = v] /\ UNCHANGED t1
  /\ k' = k + 1 /\ quiet' = Aged
  /\ UNCHANGED <<now, updating, bcd, pc, since, r>>

\* The test of CMOS_UIP between the two readings.
uip ==
  /\ pc = "t1" /\ k > Len(Fields)
  /\ pc' = IF updating THEN "t1" ELSE "t2"
  /\ k' = 1 /\ quiet' = Aged
  /\ UNCHANGED <<now, updating, bcd, t1, t2, since, r>>

CONV(x) == IF bcd THEN ((x \div 16) * 10) + (x % 16) ELSE x

compare ==
  /\ pc = "t2" /\ k > Len(Fields)
  /\ k' = 1
  /\ IF Agree
       THEN pc' = "idle" /\ r' = [f \in Field |-> CONV(t1[f]) + Century(f)]
       ELSE pc' = "t1" /\ UNCHANGED r
  /\ UNCHANGED <<now, updating, quiet, bcd, t1, t2, since>>

Next == update_begins \/ update_ends \/ call \/ fill_rtcdate \/ uip \/ compare

Spec == Init /\ [][Next]_vars

-----------------------------------------------------------------------------
(* Properties *)

\* The date cmostime returns is one that the clock showed while it ran: never
\* the seconds of one with the minutes of another, nor what a register reads
\* as during an update.
ReturnsOneDate == [][pc = "t2" /\ pc' = "idle" => \E n \in since..now : r' = Times[n]]_vars
=============================================================================

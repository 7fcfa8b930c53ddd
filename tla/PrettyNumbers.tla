--------------------------- MODULE PrettyNumbers ---------------------------
(***************************************************************************)
(* The numbers in a line of the pretty log exporter, which have a column   *)
(* each: renderDuration and humanizeBytes of pretty/string.go.             *)
(*                                                                         *)
(* An int64 of nanoseconds, none of them negative, is kept by its digits   *)
(* in days, hours, ... and nanoseconds: the code looks at nothing else.    *)
(* (d % U) / u is the digit of u, U being the next larger unit, and d < u  *)
(* says that there is no digit from u on.  A text is kept by its fields,   *)
(* so many zeros and a number each.                                        *)
(***************************************************************************)
EXTENDS Integers

Radix == [hour |-> 24, min |-> 60, sec |-> 60, ms |-> 1000, us |-> 1000,
          ns |-> 1000]
Elapsed == {d \in [day : Nat, hour : Nat, min : Nat, sec : Nat,
                   ms : Nat, us : Nat, ns : Nat] :
               \A u \in DOMAIN Radix : d[u] < Radix[u]}

(* d < time.Hour, d < time.Second and d < time.Millisecond. *)
UnderHour(d) == d.day = 0 /\ d.hour = 0

(* Mutant of UnderSecond: the boundary is a second too late.               *)
UnderSecondLate(d) == UnderHour(d) /\ d.min = 0 /\ d.sec <= 1

UnderSecond(d) == UnderHour(d) /\ d.min = 0 /\ d.sec = 0
UnderMillisecond(d) == UnderSecond(d) /\ d.ms = 0

One(b) == IF b THEN 1 ELSE 0
Field(zeros, n) == [zeros |-> zeros, n |-> n]
TwoDigits(n) == Field(One(n < 10), n)

(* Mutant of ThreeDigits: a number below ten gets one zero only.           *)
ThreeDigitsUnpadded(n) == Field(One(n < 100), n)

ThreeDigits(n) == Field(One(n < 100) + One(n < 10), n)
Hundredths(n) == Field(One(n < 100), IF n < 10 THEN 0 ELSE n \div 10)

(* 000.00us 000.00ms 00m00.0s 00d00:00 0000d00h *)
RenderDuration(d) ==
    IF UnderMillisecond(d)
    THEN [unit |-> "us", fields |-> <<ThreeDigits(d.us), Hundredths(d.ns)>>]
    ELSE IF UnderSecond(d)
    THEN [unit |-> "ms", fields |-> <<ThreeDigits(d.ms), Hundredths(d.us)>>]
    ELSE IF UnderHour(d)
    THEN [unit |-> "s", fields |-> <<TwoDigits(d.min), TwoDigits(d.sec),
                                     Field(0, d.ms \div 100)>>]
    ELSE IF d.day < 100
    THEN [unit |-> "d", fields |-> <<TwoDigits(d.day), TwoDigits(d.hour),
                                     TwoDigits(d.min)>>]
    ELSE IF d.day < 10000
    THEN [unit |-> "h", fields |-> <<Field(One(d.day < 1000), d.day),
                                     TwoDigits(d.hour)>>]
    ELSE [unit |-> "TOO_LONG", fields |-> <<>>]

(* for n > 9999 { n /= K; i++ } for the letters of BKMGTPE.                *)
K == 1024
Power(i) == CASE i = 0 -> 1 [] i = 1 -> K [] i = 2 -> K * K
              [] i = 3 -> K * K * K [] i = 4 -> K * K * K * K
              [] i = 5 -> K * K * K * K * K
              [] i = 6 -> K * K * K * K * K * K
Small(n, i) == n \div Power(i) <= 9999

(* How often the loop divides; the last letter is at 6. *)
Divisions(n) ==
    IF Small(n, 0) THEN 0 ELSE IF Small(n, 1) THEN 1
    ELSE IF Small(n, 2) THEN 2 ELSE IF Small(n, 3) THEN 3
    ELSE IF Small(n, 4) THEN 4 ELSE IF Small(n, 5) THEN 5 ELSE 6

Letters == <<"B", "K", "M", "G", "T", "P", "E">>

HumanizeBytes(n) ==
    LET i == Divisions(n)
        m == n \div Power(i)
    IN  [unit   |-> Letters[i + 1],
         fields |-> <<Field(One(m < 1000) + One(m < 100) + One(m < 10), m)>>]

----------------------------------------------------------------------------
(* The columns that a text takes. *)

Digits(n) == IF n < 10 THEN 1 ELSE IF n < 100 THEN 2 ELSE IF n < 1000 THEN 3
             ELSE IF n < 10000 THEN 4 ELSE 5
Columns(f) == f.zeros + Digits(f.n)

DurationColumns(r) ==
    CASE r.unit \in {"us", "ms"} -> Columns(r.fields[1]) + Columns(r.fields[2]) + 3
      [] r.unit = "s" -> Columns(r.fields[1]) + Columns(r.fields[2])
                                              + Columns(r.fields[3]) + 3
      [] r.unit = "d" -> Columns(r.fields[1]) + Columns(r.fields[2])
                                              + Columns(r.fields[3]) + 2
      [] r.unit = "h" -> Columns(r.fields[1]) + Columns(r.fields[2]) + 2
      [] OTHER -> 8
SizeColumns(r) == Columns(r.fields[1]) + 1
=============================================================================

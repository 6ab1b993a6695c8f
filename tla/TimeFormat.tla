----------------------------- MODULE TimeFormat -----------------------------
(***************************************************************************)
(* Utility::FormatTimeNS and FormatTime of src/src/Functions.cpp: the      *)
(* fields they print, largest unit first, 0 for a field left blank.  The   *)
(* units are in the unit of the argument.                                  *)
(***************************************************************************)
EXTENDS Integers

CONSTANTS Minute, Second, Milli, Micro   \* in nanoseconds

ASSUME UnitAssumption ==
    /\ {Minute, Second, Milli, Micro} \subseteq Nat \ {0}
    /\ Minute % Second = 0 /\ Second % Milli = 0 /\ Milli % Micro = 0

\* Plausible mistakes; nothing uses these.

\* FormatTimeNS: the seconds are not subtracted.
FormatTimeNSKeepsSeconds(n) ==
    LET m  == n \div Minute
        s  == (n - m * Minute) \div Second
        ms == (n - m * Minute) \div Milli
        us == (n - m * Minute - ms * Milli) \div Micro
    IN  <<m, s, ms, us, n - m * Minute - ms * Milli - us * Micro>>

\* A field is printed only if more than one unit is left.
Field(n, unit) == IF n > unit THEN n \div unit ELSE 0

FormatTimeNS(n) ==
    LET m  == Field(n, Minute)
        r1 == n - m * Minute
        s  == Field(r1, Second)
        r2 == r1 - s * Second
        ms == Field(r2, Milli)
        r3 == r2 - ms * Milli
        us == Field(r3, Micro)
    IN  <<m, s, ms, us, r3 - us * Micro>>

\* The argument and the units in microseconds.
FormatTime(n) ==
    LET m  == Field(n, Minute \div Micro)
        r1 == n - m * (Minute \div Micro)
        s  == Field(r1, Second \div Micro)
        r2 == r1 - s * (Second \div Micro)
        ms == Field(r2, Milli \div Micro)
    IN  <<m, s, ms, r2 - ms * (Milli \div Micro)>>

\* The time that the fields add up to.
TotalNS(f) == f[1] * Minute + f[2] * Second + f[3] * Milli + f[4] * Micro + f[5]
Total(f) ==
    f[1] * (Minute \div Micro) + f[2] * (Second \div Micro) + f[3] * (Milli \div Micro) + f[4]
=============================================================================

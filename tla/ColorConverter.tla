--------------------------- MODULE ColorConverter ---------------------------
(***************************************************************************)
(* Color temperatures in kelvin, as the value of a DMX channel, and as a   *)
(* pair of cold and warm white (entity/light/color_converter.py).          *)
(*                                                                         *)
(* The code calculates with floating point numbers; here the fractions are *)
(* exact.  A DMX value that need not be whole is counted in parts of       *)
(* 1/Range, so that the value v of a channel is v * Range.                 *)
(***************************************************************************)
EXTENDS Integers

CONSTANTS MinKelvin, MaxKelvin    \* the bounds of the fixture

ASSUME KelvinAssumption == MinKelvin \in Nat /\ MaxKelvin \in Nat /\ MinKelvin < MaxKelvin

Range_ == MaxKelvin - MinKelvin

(* round(n / d): to the nearest, and to the even one of two. *)
Round(n, d) ==
    IF 2 * (n % d) > d \/ (2 * (n % d) = d /\ (n \div d) % 2 = 1)
    THEN (n \div d) + 1 ELSE n \div d

Within(k) == IF k < MinKelvin THEN MinKelvin ELSE IF k > MaxKelvin THEN MaxKelvin ELSE k

(* Mutant: a color temperature out of bounds is out of the bytes. *)
UnboundedToDmx(kelvin) == (kelvin - MinKelvin) * 255

KelvinToDmx(kelvin) == (Within(kelvin) - MinKelvin) * 255

DmxToKelvin(value) == MinKelvin + value \div 255

(* The higher of cold and warm white is the brightness. *)
TempToCwWw(kelvin, brightness) ==
    LET k == Within(kelvin)
    IN  IF 2 * (MaxKelvin - k) <= Range_
        THEN <<brightness, Round(2 * (MaxKelvin - k) * brightness, Range_)>>
        ELSE <<Round(2 * (k - MinKelvin) * brightness, Range_), brightness>>

Brighter(cold, warm) == IF cold > warm THEN cold ELSE warm

CwWwToTemp(cold, warm) ==
    LET m == 2 * Brighter(cold, warm)
    IN  IF m = 0 THEN MinKelvin
        ELSE (m * MaxKelvin - Range_ * (IF cold >= warm THEN warm ELSE m - cold)) \div m
=============================================================================

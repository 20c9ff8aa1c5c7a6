-------------------------------- MODULE Units --------------------------------
(***************************************************************************)
(* packages/mirror/src/utils/Units.ts, and the expiry that                 *)
(* MirrorNodeConverters.ts builds on it: decimal text scaled, formatted    *)
(* and taken apart digit by digit.                                         *)
(*                                                                         *)
(* A decimal text is a record of its sign, its digits before the point,    *)
(* whether it has a point, the digits after it, and its exponent.  White   *)
(* space around it, which is trimmed, is left out.  A number argument is   *)
(* the text String() gives it.                                             *)
(***************************************************************************)
EXTENDS Integers, Sequences, SequencesExt

CONSTANTS MaxAmountDigits,        \* 100 in the code
          MaxExpansionExponent,   \* 1000
          NanoDigits,             \* 9: digits of a timestamp's fraction
          MsPerSecond,            \* 1000
          MaxSafe                 \* 2^53 - 1

ASSUME UnitsAssumption ==
    /\ {MaxAmountDigits, MaxExpansionExponent, NanoDigits, MaxSafe} \subseteq Nat \ {0}
    /\ MsPerSecond \in Nat \ {0} /\ 10^NanoDigits % MsPerSecond = 0

NanosPerSecond == 10^NanoDigits
NanosPerMs     == NanosPerSecond \div MsPerSecond

NoExp == [mark |-> "", digits |-> <<>>]
Threw == [threw |-> TRUE]
Decimal(neg, int, frac) ==
    [neg |-> neg, int |-> int, point |-> frac # <<>>, frac |-> frac, exp |-> NoExp]

(* Digits as a number, a number's digits, and an exponent's value.         *)
BigInt(digits) == FoldLeft(LAMBDA n, d : 10 * n + d, 0, digits)
String(n) ==
    LET Digits[k \in Nat] == IF k < 10 THEN <<k>> ELSE Append(Digits[k \div 10], k % 10)
    IN Digits[n]
ExpValue(exp) == IF exp.mark = "-" THEN -BigInt(exp.digits) ELSE BigInt(exp.digits)

Zeros(n)           == [i \in 1..n |-> 0]
padStart(s, width) == Zeros(width - Len(s)) \o s
padEnd(s, width)   == s \o Zeros(width - Len(s))
First(s, n)        == SubSeq(s, 1, IF n < Len(s) THEN n ELSE Len(s))
NoLeadingZeros(s)  == SelectInSeq(s, LAMBDA d : d # 0)
NoTrailingZeros(s) == SubSeq(s, 1, SelectLastInSeq(s, LAMBDA d : d # 0))
-----------------------------------------------------------------------------
(* The decimal point moves through the digits; past the bound, and in text *)
(* with digits on one side of the point only, the exponent stays.          *)
expandExponent(t) ==
    LET digits == t.int \o t.frac
        point  == Len(t.int) + ExpValue(t.exp)
    IN CASE t.exp = NoExp \/ t.int = <<>> \/ (t.point /\ t.frac = <<>>)         -> t
         [] ExpValue(t.exp) \notin -MaxExpansionExponent..MaxExpansionExponent  -> t
         [] OTHER ->
              IF point <= 0 THEN Decimal(t.neg, <<0>>, Zeros(-point) \o digits)
              ELSE IF point >= Len(digits) THEN Decimal(t.neg, padEnd(digits, point), <<>>)
              ELSE Decimal(t.neg, SubSeq(digits, 1, point), SubSeq(digits, point + 1, Len(digits)))

assertDecimals(decimals) == decimals \in 0..MaxAmountDigits

(* Faulty: a half is dropped.                                              *)
RoundedUpPastHalf(frac, decimals) == Len(frac) > decimals /\ frac[decimals + 1] > 5

(* Half away from zero, by the first dropped digit.                        *)
RoundedUp(frac, decimals) == Len(frac) > decimals /\ frac[decimals + 1] >= 5

scaleDecimal(value, decimals) ==
    LET t      == expandExponent(value)
        scaled == BigInt(t.int \o padEnd(First(t.frac, decimals), decimals))
                  + (IF RoundedUp(t.frac, decimals) THEN 1 ELSE 0)
    IN IF ~assertDecimals(decimals) \/ t.exp # NoExp \/ Len(t.int) \notin 1..MaxAmountDigits
       THEN Threw
       ELSE Decimal(t.neg /\ scaled # 0, String(scaled), <<>>)

parseUnits(amount, decimals) == scaleDecimal(amount, decimals)

formatUnitsExact(amount, decimals) ==
    LET t      == expandExponent(amount)
        zero   == BigInt(t.int) = 0
        digits == SubSeq(t.int, NoLeadingZeros(t.int), Len(t.int))
        padded == padStart(digits, decimals + 1)
        whole  == Len(padded) - decimals
    IN IF \/ ~assertDecimals(decimals) \/ t.exp # NoExp \/ t.point
          \/ Len(t.int) \notin 1..MaxAmountDigits
       THEN Threw
       ELSE IF zero THEN Decimal(FALSE, <<0>>, <<>>)
       ELSE Decimal(t.neg, SubSeq(padded, 1, whole),
                    NoTrailingZeros(SubSeq(padded, whole + 1, Len(padded))))
-----------------------------------------------------------------------------
(* Wire values: what JSON.parse gives for the texts of module LosslessJson.*)
(* A number is a multiple of 1/16, the precision of the doubles there.     *)

Number(sixteenths) == [kind |-> "number", value |-> sixteenths]
Quoted(text)       == [kind |-> "string", text |-> text]

isInteger(n)     == n % 16 = 0
isSafeInteger(n) == isInteger(n) /\ n \in -(16 * MaxSafe)..16 * MaxSafe
Whole(n)         == Decimal(n < 0, String((IF n < 0 THEN -n ELSE n) \div 16), <<>>)
Signed(t)        == IF t.neg THEN -BigInt(t.int) ELSE BigInt(t.int)

(* A string of digits, signed or not, or a number that was not rounded.    *)
AmountDigits(t)     == t.int # <<>> /\ ~t.point /\ t.exp = NoExp
assertAmountArms(v) == IF v.kind = "string" THEN AmountDigits(v.text) ELSE isSafeInteger(v.value)

amountString(v) == IF ~assertAmountArms(v) THEN Threw
                   ELSE IF v.kind = "string" THEN v.text ELSE Whole(v.value)

amountNumber(v) ==
    IF ~assertAmountArms(v) THEN Threw
    ELSE IF v.kind = "number" THEN v
    ELSE IF Signed(v.text) \in -MaxSafe..MaxSafe THEN Number(16 * Signed(v.text)) ELSE Threw
-----------------------------------------------------------------------------
(* Consensus timestamps, "seconds.nnnnnnnnn": the seconds and the digits   *)
(* of the fraction.  Epoch milliseconds are counted in half nanoseconds,   *)
(* the finest fraction at which Math.round has something to decide.        *)

formatConsensusTimestamp(seconds, nanos) ==
    [seconds |-> seconds, nanos |-> padStart(String(nanos), NanoDigits)]

HalvesPerSecond == 2 * NanosPerSecond
HalvesPerMs     == 2 * NanosPerMs

toConsensusTimestamp(when) ==
    LET seconds == when \div HalvesPerSecond
        nanos   == (when - seconds * HalvesPerSecond + 1) \div 2
    IN IF nanos = NanosPerSecond THEN formatConsensusTimestamp(seconds + 1, 0)
       ELSE formatConsensusTimestamp(seconds, nanos)

(* In milliseconds; a timestamp of fewer digits is padded on the right.    *)
fromConsensusTimestamp(t) ==
    t.seconds * MsPerSecond + BigInt(padEnd(t.nanos, NanoDigits)) \div NanosPerMs

(* From and to, each given or not.                                         *)
timestampRange(window) == [end \in DOMAIN window |-> toConsensusTimestamp(window[end])]

nanosToTimestamp(nanos) ==
    formatConsensusTimestamp(nanos \div NanosPerSecond, nanos % NanosPerSecond)

(* Nanoseconds only where the parser can have made the string: long enough *)
(* to be quoted, no sign, no leading zero.                                 *)
UnsignedQuotedInteger(t, digits) ==
    AmountDigits(t) /\ ~t.neg /\ Len(t.int) >= digits /\ t.int[1] # 0

normalizeTokenExpiry(v, digits) ==
    IF v.kind = "number"
    THEN IF isSafeInteger(v.value) THEN nanosToTimestamp(v.value \div 16) ELSE Threw
    ELSE IF UnsignedQuotedInteger(v.text, digits) THEN nanosToTimestamp(BigInt(v.text.int))
    ELSE v.text
=============================================================================

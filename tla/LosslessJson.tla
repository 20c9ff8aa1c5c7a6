----------------------------- MODULE LosslessJson -----------------------------
(***************************************************************************)
(* packages/mirror/src/utils/LosslessJson.ts: the scan that puts long      *)
(* integers between quotes before JSON.parse rounds them, character by     *)
(* character over the text of a response body.                             *)
(*                                                                         *)
(* One step per turn of the scan's two loops.  QuoteDigits and MaxSafe of  *)
(* module Units are scaled down together: numbers keep five bits, so that  *)
(* every integer of fewer than QuoteDigits digits is exact and those of    *)
(* QuoteDigits digits may not be.                                          *)
(***************************************************************************)
EXTENDS Units

CONSTANTS QuoteDigits

VARIABLES text,     \* the body, a sequence of characters
          i,        \* the next character to look at
          chunks,   \* the output so far; empty until something is quoted
          copied,   \* how many characters of the text it stands for
          at        \* where the scan is: between tokens, inside a string, done

scan == <<text, i, chunks, copied, at>>

DigitChars == <<"0", "1", "2", "3", "4", "5", "6", "7", "8", "9">>
IsDigit(ch) == ch \in ToSet(DigitChars)
AtEnd == i > Len(text)

(* The first position from k on whose character is not one of chars.       *)
After(k, chars) ==
    CHOOSE e \in k..Len(text) + 1 :
        /\ \A j \in k..e - 1 : text[j] \in chars
        /\ e = Len(text) + 1 \/ text[e] \notin chars

Slice(from, to) == SubSeq(text, from, to - 1)

ScanFrom(body) == /\ text = body /\ i = 1 /\ chunks = <<>> /\ copied = 0 /\ at = "between"

OpenString ==
    /\ at = "between" /\ ~AtEnd /\ text[i] = "\""
    /\ i' = i + 1 /\ at' = "inString"
    /\ UNCHANGED <<text, chunks, copied>>

(* Faulty: the character after a backslash is looked at like any other.    *)
EscapeAlone == at = "inString" /\ ~AtEnd /\ text[i] = "\\" /\ i' = i + 1 /\ at' = at

(* An escape takes the next character with it, whatever it is.             *)
Escape == at = "inString" /\ ~AtEnd /\ text[i] = "\\" /\ i' = i + 2 /\ at' = at
Close  == at = "inString" /\ ~AtEnd /\ text[i] = "\"" /\ i' = i + 1 /\ at' = "between"
Inside == at = "inString" /\ ~AtEnd /\ text[i] \notin {"\"", "\\"} /\ i' = i + 1 /\ at' = at
Broken == at = "inString" /\ AtEnd /\ i' = i /\ at' = "between"

InString == (Escape \/ Close \/ Inside \/ Broken) /\ UNCHANGED <<text, chunks, copied>>

(* A number token: quoted when it is a long plain integer without leading  *)
(* zero; skipped to its end when it has a fraction or an exponent.         *)
NumberToken ==
    LET start  == i
        digits == IF text[i] = "-" THEN i + 1 ELSE i
        end    == After(digits, ToSet(DigitChars))
        plain  == end > Len(text) \/ text[end] \notin {".", "e", "E"}
        long   == end - digits >= QuoteDigits
    IN /\ at = "between" /\ ~AtEnd /\ (text[i] = "-" \/ IsDigit(text[i]))
       /\ IF plain /\ long /\ text[digits] # "0"
          THEN /\ chunks' = chunks \o Slice(copied + 1, start)
                                   \o <<"\"">> \o Slice(start, end) \o <<"\"">>
               /\ copied' = end - 1 /\ i' = end
          ELSE /\ i' = IF plain THEN end
                       ELSE After(end, ToSet(DigitChars) \cup {".", "e", "E", "+", "-"})
               /\ UNCHANGED <<chunks, copied>>
       /\ UNCHANGED <<text, at>>

Other ==
    /\ at = "between" /\ ~AtEnd
    /\ text[i] \notin {"\"", "-"} /\ ~IsDigit(text[i])
    /\ i' = i + 1 /\ UNCHANGED <<text, chunks, copied, at>>

(* What is left is copied, when something was.                             *)
Return ==
    /\ at = "between" /\ AtEnd
    /\ chunks' = IF chunks = <<>> THEN text ELSE chunks \o Slice(copied + 1, Len(text) + 1)
    /\ at' = "done" /\ UNCHANGED <<text, i, copied>>

Scan == OpenString \/ InString \/ NumberToken \/ Other \/ Return
-----------------------------------------------------------------------------
(* JSON.parse of a number: the nearest double of five bits, as a multiple  *)
(* of 1/16, ties to even.                                                  *)

Times10(n, k) == IF k >= 0 THEN n * 10^k ELSE n
Numerator(t)   == Times10(BigInt(t.int \o t.frac), ExpValue(t.exp))
Denominator(t) == 10^Len(t.frac) * (IF ExpValue(t.exp) < 0 THEN 10^(-ExpValue(t.exp)) ELSE 1)

Spacing(whole) ==
    LET Step[s \in Nat] == IF 2 * s > whole THEN s ELSE Step[2 * s] IN Step[1]

NearestDouble(num, den) ==
    LET unit == den * Spacing(num \div den)
        q    == (16 * num) \div unit
        r    == (16 * num) % unit
        up   == 2 * r > unit \/ (2 * r = unit /\ q % 2 = 1)
    IN Spacing(num \div den) * (IF up THEN q + 1 ELSE q)

JsonNumber(t) ==
    LET v == NearestDouble(Numerator(t), Denominator(t)) IN Number(IF t.neg THEN -v ELSE v)
=============================================================================

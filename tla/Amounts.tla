------------------------------- MODULE Amounts -------------------------------
(***************************************************************************)
(* The way of an amount through the mirror client: out of a response body, *)
(* through the scan and JSON.parse, normalised by the converters' helpers, *)
(* formatted for a reader, and typed back in as a threshold of a query.    *)
(* Other texts are typed in by hand, and times come from a calendar.       *)
(***************************************************************************)
EXTENDS LosslessJson

CONSTANTS Bodies,        \* the values a response body may be made of
          Typed,         \* the decimal texts somebody may type
          Times,         \* epoch milliseconds, in half nanoseconds
          Stamps         \* timestamps as the mirror node writes them

VARIABLES doc,           \* the response body, as the node meant it
          seen           \* what the caller has before him

vars == <<scan, doc, seen>>

DecimalsTried == -1..MaxAmountDigits + 1
-----------------------------------------------------------------------------
(* A body is a value, a list of two, an object whose key is all digits, or *)
(* a string whose end is missing.                                          *)

If(condition, s) == IF condition THEN s ELSE <<>>
CharsOf(digits)  == [k \in DOMAIN digits |-> DigitChars[digits[k] + 1]]
Literal(t) ==
    If(t.neg, <<"-">>) \o CharsOf(t.int) \o If(t.point, <<".">>) \o CharsOf(t.frac)
    \o If(t.exp # NoExp,
          (IF t.exp.mark = "" THEN <<"e">> ELSE <<"E", t.exp.mark>>) \o CharsOf(t.exp.digits))
InQuotes(s) == <<"\"">> \o s \o <<"\"">>

Plain(t) == t.int # <<>> /\ ~t.point /\ t.exp = NoExp
Long(v)  == v.kind = "literal" /\ Plain(v.num) /\ Len(v.num.int) >= QuoteDigits
            /\ v.num.int[1] # 0

Written(v) == IF v.kind = "literal" THEN Literal(v.num) ELSE InQuotes(v.body)
AsQuoted(v) == IF Long(v) THEN InQuotes(Written(v)) ELSE Written(v)

Around(shape, values) ==
    CASE shape = "value"  -> values[1]
      [] shape = "list"   -> <<"[">> \o values[1] \o <<",">> \o values[2] \o <<"]">>
      [] shape = "cut"    -> Front(values[1])
      [] shape = "object" -> <<"{">> \o InQuotes(<<"7", "7">>) \o <<":">> \o values[1] \o <<"}">>

BodyText(d) == Around(d.shape, [k \in DOMAIN d.values |-> Written(d.values[k])])
Expected(d) == Around(d.shape, [k \in DOMAIN d.values |-> AsQuoted(d.values[k])])

(* The literals that JSON.parse accepts, and what it makes of them.        *)
JsonLiteral(v) == v.kind = "literal" /\ (Len(v.num.int) = 1 \/ v.num.int[1] # 0)
WireValue(v)   == IF Long(v) THEN Quoted(v.num) ELSE JsonNumber(v.num)

IsStamp(t) == "seconds" \in DOMAIN t
NanosOf(t) == t.seconds * NanosPerSecond + BigInt(t.nanos) * 10^(NanoDigits - Len(t.nanos))
-----------------------------------------------------------------------------
Nothing == [what |-> "nothing"]
NoBody  == [shape |-> "none", values |-> <<>>]

Init ==
    \/ /\ doc \in Bodies /\ ScanFrom(BodyText(doc)) /\ seen = Nothing
    \/ /\ doc = NoBody
       /\ text = <<>> /\ i = 1 /\ chunks = <<>> /\ copied = 0 /\ at = "done"
       /\ \/ \E t \in Typed : seen = [what |-> "typed", text |-> t]
          \/ \E when \in Times : seen = [what |-> "time", when |-> when]
          \/ \E stamp \in Stamps : seen = [what |-> "stamp", stamp |-> stamp]

ScanBody == Scan /\ UNCHANGED <<doc, seen>>

(* The converters read the body's amount, narrow it, or take it for an expiry. *)
Read ==
    /\ at = "done" /\ seen = Nothing
    /\ \E k \in DOMAIN doc.values :
          LET v == doc.values[k] IN
          /\ doc.shape # "cut" /\ JsonLiteral(v)
          /\ seen' = [what |-> "read", num |-> v.num,
                      amount |-> amountString(WireValue(v)),
                      number |-> amountNumber(WireValue(v)),
                      expiry |-> normalizeTokenExpiry(WireValue(v), QuoteDigits)]
    /\ UNCHANGED <<scan, doc>>

Show ==
    /\ seen.what = "read" /\ seen.amount # Threw
    /\ \E decimals \in DecimalsTried :
          seen' = [what |-> "shown", amount |-> seen.amount, decimals |-> decimals,
                   text |-> formatUnitsExact(seen.amount, decimals)]
    /\ UNCHANGED <<scan, doc>>

(* What was shown is typed back in, or another text is.                    *)
Enter ==
    /\ \/ /\ seen.what = "shown" /\ seen.text # Threw
          /\ seen' = [what |-> "back", amount |-> seen.amount, decimals |-> seen.decimals,
                      result |-> parseUnits(seen.text, seen.decimals)]
       \/ /\ seen.what = "typed"
          /\ \E decimals \in DecimalsTried :
                seen' = [what |-> "entered", text |-> seen.text, decimals |-> decimals,
                         result |-> parseUnits(seen.text, decimals)]
    /\ UNCHANGED <<scan, doc>>

(* Typed amounts may be formatted too, whatever their shape.               *)
Format ==
    /\ seen.what = "typed"
    /\ \E decimals \in DecimalsTried :
          seen' = [what |-> "shown", amount |-> seen.text, decimals |-> decimals,
                   text |-> formatUnitsExact(seen.text, decimals)]
    /\ UNCHANGED <<scan, doc>>

Window ==
    /\ seen.what = "time"
    /\ \E to \in Times :
          seen' = [what |-> "window", from |-> seen.when, to |-> to,
                   range |-> timestampRange([gte |-> seen.when, lt |-> to])]
    /\ UNCHANGED <<scan, doc>>

ToDate ==
    /\ \/ seen.what = "stamp"
          /\ seen' = [what |-> "date", stamp |-> seen.stamp, when |-> 2 * NanosOf(seen.stamp),
                      ms |-> fromConsensusTimestamp(seen.stamp)]
       \/ seen.what = "window"
          /\ seen' = [what |-> "date", stamp |-> seen.range.gte, when |-> seen.from,
                      ms |-> fromConsensusTimestamp(seen.range.gte)]
    /\ UNCHANGED <<scan, doc>>

Next == ScanBody \/ Read \/ Show \/ Enter \/ Format \/ Window \/ ToDate

Spec == Init /\ [][Next]_vars
-----------------------------------------------------------------------------
Abs(n)   == IF n < 0 THEN -n ELSE n
Sign(t)  == IF t.neg THEN -1 ELSE 1

(* The number of a sixteenths is the one that t denotes, to the last digit. *)
Exactly(a, t) == a * Denominator(t) = 16 * Sign(t) * Numerator(t)

(* What the client is given of t: t itself, or of a fraction or an exponent *)
(* the double that JSON.parse has made of it.                              *)
Parsed(a, t) == IF Plain(t) THEN Exactly(a, t) ELSE a = JsonNumber(t).value

(* No digit is lost between the node's text and the caller (LosslessJson.ts, *)
(* Units.ts): exactly the long plain integers of the body are quoted,      *)
(* whatever surrounds them; an amount arrives exactly or is refused, and of *)
(* what JSON.parse has read before the client saw it loses no more; an     *)
(* integer is refused only where no double of the platform can be trusted with it; an *)
(* expiry in nanoseconds becomes the timestamp it denotes.                 *)
DigitsKept ==
    /\ at = "done" /\ doc # NoBody => chunks = Expected(doc)
    /\ seen.what = "read" =>
          LET t == seen.num
              Kept(a) == Parsed(a, t)
          IN /\ seen.amount # Threw => Kept(16 * Signed(seen.amount))
             /\ Plain(t) => seen.amount # Threw
             /\ seen.number # Threw => Kept(seen.number.value) /\ Abs(seen.number.value) <= 16 * MaxSafe
             /\ Plain(t) /\ Numerator(t) <= MaxSafe => seen.number # Threw
             /\ IF IsStamp(seen.expiry)
                THEN Kept(16 * NanosOf(seen.expiry)) /\ Len(seen.expiry.nanos) = NanoDigits
                ELSE seen.expiry = Threw \/ t.neg

(* Units.ts:243-246, of fractions and exponents that JSON.parse rounded:   *)
(* "Both normalisers reject those with a typed error — they exist to end   *)
(* silent precision loss and must never pass along a value whose exactness *)
(* cannot be proven."  The code passes one that rounds to a safe integer.  *)
OnlyExactPassed ==
    seen.what = "read" =>
        /\ seen.amount # Threw => Exactly(16 * Signed(seen.amount), seen.num)
        /\ seen.number # Threw => Exactly(seen.number.value, seen.num)

(* t scaled by 10^decimals and rounded half away from zero, as a number.   *)
Scaled(t, decimals) ==
    LET shift == ExpValue(t.exp) + decimals - Len(t.frac)
        num   == BigInt(t.int \o t.frac)
    IN Sign(t) * (IF shift >= 0 THEN num * 10^shift
                  ELSE (2 * num + 10^(-shift)) \div (2 * 10^(-shift)))

Canonical(t) == Plain(t) /\ (t.int = <<0>> => ~t.neg) /\ (Len(t.int) > 1 => t.int[1] # 0)
Readable(t)  == t.int # <<>> /\ t.exp = NoExp /\ Len(t.int) <= MaxAmountDigits

(* The module note of Units.ts: scaling and formatting are digit-exact at  *)
(* any magnitude, rounding half away from zero; what is shown reads back   *)
(* as the same amount; nothing that is a decimal within the caps is        *)
(* refused; a timestamp is the nearest to its instant, carried over a full *)
(* second, its order is the order of time, and its date is its millisecond.*)
UnitsExact ==
    /\ seen.what = "entered" =>
          /\ seen.result # Threw =>
                /\ Canonical(seen.result) /\ seen.decimals \in 0..MaxAmountDigits
                /\ Signed(seen.result) = Scaled(seen.text, seen.decimals)
          /\ Readable(seen.text) /\ seen.decimals \in 0..MaxAmountDigits => seen.result # Threw
    /\ seen.what = "shown" =>
          /\ seen.text # Threw =>
                /\ Scaled(seen.text, seen.decimals) = Scaled(seen.amount, 0)
                /\ seen.text.frac # <<>> => Last(seen.text.frac) # 0
          /\ Readable(seen.amount) /\ Plain(seen.amount) /\ seen.decimals \in 0..MaxAmountDigits
                => seen.text # Threw
    /\ seen.what = "back" =>
          seen.result # Threw /\ Signed(seen.result) = Scaled(seen.amount, 0)
    /\ seen.what = "window" =>
          /\ \A end \in {"gte", "lt"} :
                LET when == IF end = "gte" THEN seen.from ELSE seen.to IN
                /\ Len(seen.range[end].nanos) = NanoDigits
                /\ Abs(2 * NanosOf(seen.range[end]) - when) <= 1
          /\ seen.from <= seen.to => NanosOf(seen.range.gte) <= NanosOf(seen.range.lt)
    /\ seen.what = "date" =>
          /\ seen.ms * NanosPerMs \in NanosOf(seen.stamp) - NanosPerMs + 1..NanosOf(seen.stamp)
          /\ seen.when % HalvesPerMs = 0 => seen.ms * HalvesPerMs = seen.when
=============================================================================

------------------------------- MODULE Amounts -------------------------------
(***************************************************************************)
(* Amounts of money on their way through the service: a decimal text comes *)
(* in, becomes a number of minor units in an int64, and is written as text *)
(* again in answers, events and the payload that is hashed.                *)
(*                                                                         *)
(* A text is a sequence of characters; MaxInt stands for math.MaxInt64.    *)
(***************************************************************************)
EXTENDS Integers, Sequences, FiniteSetsExt

CONSTANTS
    MaxInt,
    Characters,   \* what a text is made of
    MaxLength     \* bound: characters of a text

ASSUME WidthAssumption == MaxInt \in Nat \ {0}

MinInt == -MaxInt - 1
Int64 == MinInt .. MaxInt

DigitText == <<"0", "1", "2", "3", "4", "5", "6", "7", "8", "9">>
Digits == {DigitText[i] : i \in 1 .. 10}
ValueOf(digit) == CHOOSE v \in 0 .. 9 : DigitText[v + 1] = digit

Texts == UNION {[1 .. n -> Characters] : n \in 0 .. MaxLength}

-----------------------------------------------------------------------------
AllDigits(text) == \A i \in DOMAIN text : text[i] \in Digits

\* ParseInt's loop: the number that a sequence of digits stands for.
Number(digits) ==
    LET upTo[i \in 0 .. Len(digits)] ==
            IF i = 0 THEN 0 ELSE 10 * upTo[i - 1] + ValueOf(digits[i])
    IN  upTo[Len(digits)]

Refused == [ok |-> FALSE, minor |-> 0]

\* parseMinorUnits: split at the only dot, join the digits of both parts, and
\* let ParseInt refuse what has no place in an int64.
ParseMinorUnits(text) ==
    LET negative == text # <<>> /\ Head(text) = "-"
        digits == IF negative THEN Tail(text) ELSE text
        dots == {i \in DOMAIN digits : digits[i] = "."}
        dot == Min(dots)
        whole == SubSeq(digits, 1, dot - 1)
        cents == SubSeq(digits, dot + 1, Len(digits))
        minor == (IF negative THEN -1 ELSE 1) * Number(whole \o cents)
    IN  IF /\ Cardinality(dots) = 1
           /\ whole # <<>> /\ Len(cents) = 2
           /\ AllDigits(whole) /\ AllDigits(cents)
           /\ minor \in Int64
        THEN [ok |-> TRUE, minor |-> minor]
        ELSE Refused

\* ParseNonNegative, for what comes from outside: no sign, not even for zero.
ParseNonNegative(text) ==
    IF text # <<>> /\ Head(text) = "-" THEN Refused ELSE ParseMinorUnits(text)

\* fmt's %d.
Decimal(n) ==
    LET decimal[m \in 0 .. n] ==
            IF m < 10 THEN <<DigitText[m + 1]>>
            ELSE Append(decimal[m \div 10], DigitText[(m % 10) + 1])
    IN  decimal[n]

\* Mutant: the cents are written without their leading zero.
TextUnpadded(minor) ==
    LET magnitude == IF minor < 0 THEN -(minor + 1) + 1 ELSE minor
    IN  (IF minor < 0 THEN <<"-">> ELSE <<>>)
            \o Decimal(magnitude \div 100) \o <<".">> \o Decimal(magnitude % 100)

\* Money.String.  The magnitude of the least number is reached through its
\* neighbour, in a uint64, since negating it would leave the int64.
Text(minor) ==
    LET magnitude == IF minor < 0 THEN -(minor + 1) + 1 ELSE minor
        cents == Decimal(magnitude % 100)
    IN  (IF minor < 0 THEN <<"-">> ELSE <<>>)
            \o Decimal(magnitude \div 100) \o <<".">>
            \o (IF Len(cents) = 1 THEN <<"0">> \o cents ELSE cents)

-----------------------------------------------------------------------------
VARIABLES
    stage,   \* "received", "refused", "stored" or "written"
    text,    \* the text received or written
    minor    \* the amount stored

amountVars == <<stage, text, minor>>

\* A text arrives from outside, or an amount of the database is at hand.
AmountInit ==
    \/ stage = "received" /\ text \in Texts /\ minor = 0
    \/ stage = "stored" /\ text = <<>> /\ minor \in Int64

\* ParseNonNegative on the way in.
Parse ==
    LET parsed == ParseNonNegative(text)
    IN  /\ stage = "received"
        /\ stage' = IF parsed.ok THEN "stored" ELSE "refused"
        /\ minor' = parsed.minor
        /\ UNCHANGED text

\* String on the way out.
MarshalJSON ==
    /\ stage = "stored"
    /\ stage' = "written"
    /\ text' = Text(minor)
    /\ UNCHANGED minor

Finished == stage \in {"refused", "written"} /\ UNCHANGED amountVars

AmountNext == Parse \/ MarshalJSON \/ Finished

AmountSpec == AmountInit /\ [][AmountNext]_amountVars

-----------------------------------------------------------------------------
\* Digits, a dot and two digits; the digits alone.
Spelled(t) ==
    LET n == Len(t)
    IN  n >= 4 /\ t[n - 2] = "." /\ \A i \in (1 .. n) \ {n - 2} : t[i] \in Digits

Undotted(t) == [i \in 1 .. Len(t) - 1 |-> t[IF i < Len(t) - 2 THEN i ELSE i + 1]]

\* What m digits are worth, each by its place.
Worth(digits, m) ==
    LET place[k \in 0 .. m] == IF k = 0 THEN 1 ELSE 10 * place[k - 1]
        last[k \in 0 .. m] ==
            IF k = 0 THEN 0 ELSE last[k - 1] + place[k - 1] * ValueOf(digits[m + 1 - k])
    IN  last[m]

\* An amount is accepted (ParseNonNegative) exactly when it is spelled as digits,
\* a dot and two digits, with no sign, and its cents fit the int64; the number
\* stored is the one spelled.  Nothing is rounded, cut off or wrapped around.
StoredAsSpelled ==
    LET value == Worth(Undotted(text), Len(text) - 1)
    IN  /\ stage = "refused" => ~Spelled(text) \/ value > MaxInt
        /\ stage = "stored" /\ text # <<>> => Spelled(text) /\ minor = value

\* What String writes is one spelling per amount, and parsing it gives the amount
\* back, down to the least int64.
WrittenAsStored ==
    stage = "written" =>
        /\ ParseMinorUnits(text) = [ok |-> TRUE, minor |-> minor]
        /\ LET digits == IF minor < 0 THEN Tail(text) ELSE text
           IN  Len(digits) > 4 => digits[1] # "0"

\* An amount means the same as text and as minor units, on the way in and on the
\* way out (ParseNonNegative, String): a replayed request and its first
\* submission have one canonical payload, and a client reads what is stored.
AmountsSurviveText == StoredAsSpelled /\ WrittenAsStored
=============================================================================

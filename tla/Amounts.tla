------------------------------ MODULE Amounts ------------------------------
(***************************************************************************)
(* Amounts as texts and as numbers: a decimal text to base units and back, *)
(* the two decimals an agent is given to repeat, and the words a voice     *)
(* reads them in.  The code works on digits, so that no amount passes      *)
(* through a floating-point number; the claims compare its digits with     *)
(* arithmetic.                                                             *)
(***************************************************************************)
EXTENDS Integers, Sequences, FiniteSets, SequencesExt

-----------------------------------------------------------------------------
(* Digits                                                                  *)

Value(digits) == FoldLeft(LAMBDA n, d : 10 * n + d, 0, digits)
Zeros(n) == IF n <= 0 THEN <<>> ELSE [i \in 1..n |-> 0]
Digits(n) ==
  LET k == CHOOSE k \in 1..10 : n < 10^k /\ (k = 1 \/ n >= 10^(k - 1))
  IN  [i \in 1..k |-> (n \div 10^(k - i)) % 10]

\* padStart and padEnd; the digits without leading zeros, but for the last digit, and
\* without trailing ones.
PadStart(digits, n) == Zeros(n - Len(digits)) \o digits
PadEnd(digits, n) == digits \o Zeros(n - Len(digits))
DropLeading(digits) ==
  LET zeros == {i \in 1..(Len(digits) - 1) : \A j \in 1..i : digits[j] = 0}
  IN  SubSeq(digits, Cardinality(zeros) + 1, Len(digits))
DropTrailing(digits) ==
  LET kept == {i \in DOMAIN digits : \E j \in i..Len(digits) : digits[j] # 0}
  IN  SubSeq(digits, 1, Cardinality(kept))

\* A plain decimal: a whole part, and a fraction that may be empty.
Text(whole, fraction) == [whole |-> whole, fraction |-> fraction]

-----------------------------------------------------------------------------
(* Base units                                                              *)

Refused == -1

\* amountToLamports and solToLamports: more precision than the asset has, or nothing
\* at all, is refused.
ToUnits(text, decimals) ==
  LET units == Value(text.whole) * 10^decimals + Value(PadEnd(text.fraction, decimals))
  IN  IF Len(text.fraction) > decimals THEN Refused
      ELSE IF units = 0 THEN Refused ELSE units

\* lamportsToSol.
FromUnits(units, decimals) ==
  Text(Digits(units \div 10^decimals),
       DropTrailing(PadStart(Digits(units % 10^decimals), decimals)))

\* normalizeBaseUnits: the same from the digits another reader answered with.
Normalized(digits, decimals) ==
  LET bare   == DropLeading(digits)
      padded == PadStart(bare, decimals + 1)
      point  == Len(padded) - decimals
  IN  IF decimals = 0 THEN Text(bare, <<>>)
      ELSE Text(SubSeq(padded, 1, point), DropTrailing(SubSeq(padded, point + 1, Len(padded))))

-----------------------------------------------------------------------------
(* formatBalanceForAgent                                                   *)

\* incrementDigits: the last digit that is no nine goes up, the nines after it
\* become zeros; when all are nines a digit is added.
Increment(digits) ==
  LET low  == {i \in DOMAIN digits : digits[i] # 9}
      last == CHOOSE i \in low : \A j \in low : j <= i
  IN  IF low = {} THEN <<1>> \o Zeros(Len(digits))
      ELSE [i \in DOMAIN digits |-> IF i < last THEN digits[i]
                                    ELSE IF i = last THEN digits[i] + 1 ELSE 0]

\* roundToTwoDecimals: half up, on the third decimal.
Rounded(text) ==
  LET fraction == PadEnd(text.fraction, 3)
      kept     == DropLeading(text.whole) \o SubSeq(fraction, 1, 2)
      scaled   == IF fraction[3] >= 5 THEN Increment(kept) ELSE kept
  IN  Text(DropLeading(SubSeq(scaled, 1, Len(scaled) - 2)),
           SubSeq(scaled, Len(scaled) - 1, Len(scaled)))

Languages == {"en", "es"}

\* A word is the number it names; "mil millones" is two words.
Thousand == 1000
Million == 1000000
Billion == 1000000000

\* englishUnderHundred and spanishUnderHundred: Spanish has a word for each number
\* below thirty.
UnderHundred(language, n) ==
  IF n = 0 THEN <<>>
  ELSE IF n < (IF language = "es" THEN 30 ELSE 20) \/ n % 10 = 0 THEN <<n>>
  ELSE <<n - (n % 10), n % 10>>

UnderThousand(language, n) ==
  IF n < 100 THEN UnderHundred(language, n)
  ELSE (IF language = "es" THEN <<n - (n % 100)>> ELSE <<n \div 100, 100>>)
       \o UnderHundred(language, n % 100)

Scale(language, i) ==
  CASE i = 0 -> <<>>
    [] i = 1 -> <<Thousand>>
    [] i = 2 -> <<Million>>
    [] i = 3 -> IF language = "es" THEN <<Thousand, Million>> ELSE <<Billion>>

\* englishInteger and spanishInteger on groups of three digits, the first of which has
\* scale Len - 1: "mil" is said without a count.
GroupWords(language, n, i) ==
  IF n = 0 THEN <<>>
  ELSE IF language = "es" /\ n = 1 /\ i \in {1, 3} THEN Scale(language, i)
  ELSE UnderThousand(language, n) \o Scale(language, i)
IntegerWords(language, groups) ==
  LET words == FlattenSeq([g \in DOMAIN groups |->
                             GroupWords(language, groups[g], Len(groups) - g)])
  IN  IF words = <<>> THEN <<0>> ELSE words

\* centsToWords: nothing is said of no cents, and one cent is one.
CentsWords(language, cents) ==
  [words |-> UnderHundred(language, cents), plural |-> cents # 1]

\* A text that is no plain decimal, or too wide to spell, is handed on as it came.
MAX_SPELLABLE_DIGITS == 12
Presented(text, plain) ==
  plain /\ Len(Rounded(text).whole) <= MAX_SPELLABLE_DIGITS

-----------------------------------------------------------------------------
(* Claims, evaluated over amounts of up to two digits and four decimals    *)

UpTo(n) == UNION {[1..k -> {0, 1, 4, 5, 9}] : k \in 0..n}
Texts == {Text(whole, fraction) : whole \in UpTo(2) \ {<<>>}, fraction \in UpTo(4)}
Scaled(text, decimals) == Value(text.whole) * 10^decimals + Value(PadEnd(text.fraction, decimals))

\* Base units survive being shown and typed again, and a typed amount loses only
\* zeros: no unit is invented or lost, whatever the zeros in front and behind.
UnitsSurvive ==
  /\ \A units \in 1..2000, decimals \in 0..3 : ToUnits(FromUnits(units, decimals), decimals) = units
  /\ \A text \in Texts, decimals \in 2..4 :
       LET units == ToUnits(text, decimals)
       IN  IF Len(text.fraction) > decimals \/ Scaled(text, 4) = 0 THEN units = Refused
           ELSE FromUnits(units, decimals) = Text(DropLeading(text.whole), DropTrailing(text.fraction))

\* The two readers of base units, of the provider and of the route, agree.
ReadersAgree ==
  \A digits \in UpTo(4) \ {<<>>}, decimals \in 1..4 :
    Normalized(digits, decimals) = FromUnits(Value(digits), decimals)

\* What the agent repeats is the nearest hundredth, a half going up, and has two
\* decimals; rounding twice is rounding once.
RoundsHalfUp ==
  \A text \in Texts :
    LET rounded == Rounded(text)
    IN  /\ Scaled(rounded, 2) = (Scaled(text, 4) + 50) \div 100
        /\ Len(rounded.fraction) = 2 /\ Rounded(rounded) = rounded

\* Not so: a balance that was read aloud can be sent.  It may have gone up.
ReadIsAffordable ==
  \A text \in Texts : Scaled(Rounded(text), 4) <= Scaled(text, 4)

\* A listener: a count up to the next scale word, the thousands since the last million.
Hear(heard, word) ==
  IF word = Billion THEN [heard EXCEPT !.total = @ + heard.count * Billion, !.count = 0]
  ELSE IF word = Million
  THEN [total |-> heard.total + (heard.half + heard.count) * Million, half |-> 0, count |-> 0]
  ELSE IF word = Thousand
  THEN [heard EXCEPT !.half = @ + Thousand * (IF heard.count = 0 THEN 1 ELSE heard.count),
                     !.count = 0]
  ELSE IF word = 100 /\ heard.count # 0 THEN [heard EXCEPT !.count = 100 * @]
  ELSE [heard EXCEPT !.count = @ + word]
Heard(words) ==
  LET heard == FoldLeft(Hear, [total |-> 0, half |-> 0, count |-> 0], words)
  IN  heard.total + heard.half + heard.count

\* Every group and every number of cents is heard as it is, in both languages.
GroupsAreHeard ==
  \A language \in Languages :
    /\ \A n \in 0..999 : Heard(UnderThousand(language, n)) = n
    /\ \A cents \in 0..99 : Heard(CentsWords(language, cents).words) = cents

Groups(billions) == {<<b, m, t, u>> : b \in billions, m \in {0, 1, 21, 100},
                                      t \in {0, 1, 21, 101, 999}, u \in {0, 1, 30, 999}}
Number(groups) == FoldLeft(LAMBDA n, g : Thousand * n + g, 0, groups)

\* And so is a whole amount below a billion; in English, above it too.  Not so in
\* Spanish: "mil millones" is said of the billions alone, and the word for the millions
\* comes a second time, which no number does.
WholeIsHeard(language, billions) ==
  \A groups \in Groups(billions) : Heard(IntegerWords(language, groups)) = Number(groups)
IsANumber(language, billions) ==
  \A groups \in Groups(billions) :
    LET words == IntegerWords(language, groups)
    IN  Cardinality({i \in DOMAIN words : words[i] = Million}) <= 1

AmountClaims ==
  /\ UnitsSurvive /\ ReadersAgree /\ RoundsHalfUp /\ ~ReadIsAffordable
  /\ GroupsAreHeard
  /\ WholeIsHeard("en", {0, 1}) /\ IsANumber("en", {0, 1})
  /\ WholeIsHeard("es", {0}) /\ IsANumber("es", {0}) /\ ~IsANumber("es", {1})
=============================================================================

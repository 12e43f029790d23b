---------------------------- MODULE PersianUtils ----------------------------
(***************************************************************************)
(* The checks of packages/persian-utils: national ids, IBANs and phone     *)
(* numbers, as the login and profile pages, the profile DTO and            *)
(* PayoutsService use them.  A character is a digit with its script, or a  *)
(* mark.  A state is an input.                                             *)
(***************************************************************************)
EXTENDS Integers, FiniteSets, SequencesExt, PlatformFaults

CONSTANTS
  IdInputs,     \* bound: sequences of digits to look at, as national ids
  IbanInputs,   \* bound: and as IBANs, without the IR
  PhoneInputs   \* bound: pairs of a number of ten digits and a way to write it

VARIABLES form, digits, text

utilVars == <<form, digits, text, faults>>
-----------------------------------------------------------------------------
Digit == 0 .. 9
Scripts == {"latin", "persian", "arabic"}
Separators == {"space", "hyphen", "dot", "paren"}
Punctuation == {"plus", "letter"} \cup Separators
Chars == [script : Scripts \cup Punctuation, n : Digit]
Char(script, n) == [script |-> script, n |-> n]
Latin(n) == Char("latin", n)
InLatin(s) == [i \in DOMAIN s |-> Latin(s[i])]

Plus == Char("plus", 0)
\* What may stand before the ten digits, in the order of the patterns.
Prefixes98 == <<<<Plus>> \o InLatin(<<9, 8>>), InLatin(<<0, 0, 9, 8>>), InLatin(<<9, 8>>),
                InLatin(<<0>>), <<>>>>

\* To write a number is to put one of the prefixes before it, to take each digit from any
\* script, and to put separators anywhere.
Same(c, d) == c.n = d.n /\ (c.script = d.script \/ {c.script, d.script} \subseteq Scripts)
Solid(written) == {i \in DOMAIN written : written[i].script \notin Separators}
Rank(written, i) == Cardinality({j \in Solid(written) : j <= i})
Writes(written, number) ==
  \E p \in DOMAIN Prefixes98 :
    LET bare == Prefixes98[p] \o InLatin(number)
    IN /\ Cardinality(Solid(written)) = Len(bare)
       /\ \A i \in Solid(written) : Same(written[i], bare[Rank(written, i)])

ASSUME UtilAssumption ==
  /\ IdInputs \subseteq [1 .. 10 -> Digit] /\ IbanInputs \subseteq [1 .. 24 -> Digit]
  /\ \A input \in PhoneInputs : /\ input[1] \in [1 .. 10 -> Digit] /\ input[2] \in Seq(Chars)
                               /\ Writes(input[2], input[1])

UtilTypeOK ==
  /\ form \in {"id", "iban", "phone"}
  /\ \A i \in DOMAIN digits : digits[i] \in Digit
  /\ \A i \in DOMAIN text : text[i] \in Chars

UtilInit ==
  /\ \/ form = "id" /\ digits \in IdInputs /\ text = InLatin(digits)
     \/ form = "iban" /\ digits \in IbanInputs /\ text = InLatin(digits)
     \/ form = "phone" /\ \E input \in PhoneInputs : digits = input[1] /\ text = input[2]
  /\ faults \in FaultSets

UtilSpec == UtilInit /\ [][UNCHANGED utilVars]_utilVars
-----------------------------------------------------------------------------
(* national-id.ts *)

SameDigits(id) == \A i \in 1 .. 10 : id[i] = id[1]
\* Mutation of Weighted: all digits weigh the same.
Unweighted(id) == SumFunctionOnSet([i \in 1 .. 9 |-> id[i]], 1 .. 9)

Weighted(id) == SumFunctionOnSet([i \in 1 .. 9 |-> id[i] * (11 - i)], 1 .. 9)

\* Of ten digits.
isValidIranianNationalId(id) ==
  /\ ~SameDigits(id)
  /\ LET remainder == Weighted(id) % 11
     IN id[10] = IF remainder < 2 THEN remainder ELSE 11 - remainder
-----------------------------------------------------------------------------
(* iban.ts *)

\* bigMod97.
Modulo97(s) ==
  LET remainder[n \in 0 .. Len(s)] == IF n = 0 THEN 0 ELSE (remainder[n - 1] * 10 + s[n]) % 97
  IN remainder[Len(s)]

\* I and R as numbers.
CountryCode == <<1, 8, 2, 7>>

\* Of the 24 digits after IR.
isValidIranianIban(s) ==
  /\ \E i \in DOMAIN s : s[i] # 0
  /\ Modulo97(SubSeq(s, 3, 24) \o CountryCode \o SubSeq(s, 1, 2)) = 1
-----------------------------------------------------------------------------
(* numerals.ts, phone.ts *)

toLatinDigits(s) ==
  [i \in DOMAIN s |-> IF s[i].script \in Scripts THEN Latin(s[i].n) ELSE s[i]]
toPersianDigits(s) ==
  [i \in DOMAIN s |-> IF s[i].script = "latin" THEN Char("persian", s[i].n) ELSE s[i]]

\* A pattern knows the digits 0-9 alone.
AreDigits(s) == \A i \in DOMAIN s : s[i].script = "latin"

cleaned(s) ==
  LET kept[n \in 0 .. Len(s)] ==
        IF n = 0 THEN <<>>
        ELSE IF s[n].script \in Separators THEN kept[n - 1] ELSE Append(kept[n - 1], s[n])
  IN kept[Len(s)]
Fits(s, prefix) ==
  /\ Len(s) = Len(prefix) + 10 /\ IsPrefix(prefix, s)
  /\ AreDigits(SubSeq(s, Len(prefix) + 1, Len(s)))

\* The ten digits of +98..., or none.
normalizeIranianPhone(raw) ==
  LET s == cleaned(raw)
      fitting == {i \in DOMAIN Prefixes98 : Fits(s, Prefixes98[i])}
  IN IF fitting = {} THEN <<>>
     ELSE LET first == CHOOSE i \in fitting : \A j \in fitting : i <= j
              local == SubSeq(s, Len(Prefixes98[first]) + 1, Len(s))
          IN IF local[1].n = 9 THEN local ELSE <<>>
-----------------------------------------------------------------------------
WithDigit(s, i, d) == [s EXCEPT ![i] = d]
Swapped(s, i) == [s EXCEPT ![i] = s[i + 1], ![i + 1] = s[i]]

\* (national-id.ts:14-29) A national id with one wrong digit, or with two neighbours in the
\* wrong order, is refused: except that the check digit 1 stands for two remainders, before
\* or after a change that is not of the check digit alone.
IdErrorsAreFound ==
  form = "id" /\ isValidIranianNationalId(digits) =>
    /\ \A i \in 1 .. 10, d \in Digit :
         d # digits[i] /\ (digits[10] # 1 \/ i = 10)
           => ~isValidIranianNationalId(WithDigit(digits, i, d))
    /\ \A i \in 1 .. 9 :
         digits[i] # digits[i + 1] /\ digits[10] # 1 /\ Swapped(digits, i)[10] # 1
           => ~isValidIranianNationalId(Swapped(digits, i))

\* (iban.ts:6-40) So is such an IBAN, the check digits included, without exception.
IbanErrorsAreFound ==
  form = "iban" /\ isValidIranianIban(digits) =>
    /\ \A i \in 1 .. 24, d \in Digit :
         d # digits[i] => ~isValidIranianIban(WithDigit(digits, i, d))
    /\ \A i \in 1 .. 23 :
         digits[i] # digits[i + 1] => ~isValidIranianIban(Swapped(digits, i))

\* (phone.ts:15-36, login/page.tsx:59) A mobile number is one number however its user writes
\* it, and what is not one is refused; what comes out is accepted again, unchanged, and in
\* Persian digits it is still the same.
PhoneIsOne ==
  form = "phone" =>
    LET normalized == normalizeIranianPhone(toLatinDigits(text))
    IN /\ normalized = IF digits[1] = 9 THEN InLatin(digits) ELSE <<>>
       /\ normalized # <<>> =>
            /\ normalizeIranianPhone(Prefixes98[1] \o normalized) = normalized
            /\ toLatinDigits(toPersianDigits(text)) = toLatinDigits(text)

\* (packages/persian-utils) A mistyped id or IBAN is found, and a phone number is one number.
ChecksFindErrors == UtilTypeOK /\ IdErrorsAreFound /\ IbanErrorsAreFound /\ PhoneIsOne
=============================================================================

----------------------------- MODULE PhoneNumber -----------------------------
(***************************************************************************)
(* Telephone numbers as the service reads them: the checks of              *)
(* InitialMessageRequest (app/models/schemas.py) on the number of a        *)
(* request, and the correlation key of app/utils/phone.py.                 *)
(*                                                                         *)
(* A text is a sequence of digits, of Plus, and of Separator for any of    *)
(* blank, hyphen and parentheses.                                          *)
(***************************************************************************)
EXTENDS Naturals, Sequences, FiniteSets

CONSTANTS
  Digit, Plus, Separator,
  MinDigits, MaxDigits,   \* of a phone_number (7 and 15)
  MaxCountryDigits,       \* of a country_code (4)
  SuffixLength            \* SUFFIX_LENGTH (9)

ASSUME PhoneNumberAssumption ==
  /\ Digit \subseteq Nat /\ 0 \in Digit
  /\ Plus \notin Digit /\ Separator \notin Digit /\ Plus # Separator
  /\ MinDigits \in Nat \ {0} /\ MaxDigits \in Nat
  /\ MaxCountryDigits \in Nat /\ SuffixLength \in Nat \ {0}

Char == Digit \cup {Plus, Separator}

Digits(text) == \A i \in 1..Len(text) : text[i] \in Digit

\* The characters of a text that are in a set, in their order.
Only(text, chars) ==
  LET at == {i \in 1..Len(text) : text[i] \in chars}
      rank == [i \in at |-> Cardinality({j \in at : j <= i})]
  IN  [k \in 1..Cardinality(at) |-> text[CHOOSE i \in at : rank[i] = k]]

-----------------------------------------------------------------------------
(* The request *)

\* lstrip("+")
WithoutPlus(text) ==
  LET first == {i \in 1..Len(text) : text[i] # Plus /\ \A j \in 1..i - 1 : text[j] = Plus}
  IN  IF first = {} THEN <<>> ELSE SubSeq(text, CHOOSE i \in first : TRUE, Len(text))

\* What _validate_phone makes of a phone_number, and when it accepts it.
National(text) == WithoutPlus(Only(text, Char \ {Separator}))

ValidPhone(text) ==
  /\ Len(text) \in MinDigits..MaxDigits
  /\ Digits(National(text))
  /\ Len(National(text)) \in MinDigits..MaxDigits

\* _validate_country_code adds the sign where it is missing.
CountryDigits(text) ==
  IF text # <<>> /\ Head(text) = Plus THEN Tail(text) ELSE text
ValidCountryCode(text) ==
  Digits(CountryDigits(text)) /\ Len(CountryDigits(text)) \in 1..MaxCountryDigits

E164(country, national) == <<Plus>> \o country \o national

-----------------------------------------------------------------------------
(* The correlation key *)

DigitsOnly(text) == Only(text, Digit)

\* Mutant: one digit more than the numbers have in common.
PhoneSuffixLonger(text) ==
  LET digits == DigitsOnly(text)
      n == SuffixLength + 1
  IN  IF Len(digits) >= n THEN SubSeq(digits, Len(digits) - n + 1, Len(digits))
                          ELSE digits

PhoneSuffix(text) ==
  LET digits == DigitsOnly(text)
  IN  IF Len(digits) >= SuffixLength
        THEN SubSeq(digits, Len(digits) - SuffixLength + 1, Len(digits))
        ELSE digits

\* The forms in which a number is reported back: as it was given, with its
\* country code, and with a 0 before either.
Reported(country, national) ==
  {national, E164(country, national),
   <<0>> \o national, <<0>> \o country \o national}
=============================================================================

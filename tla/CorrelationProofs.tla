--------------------------- MODULE CorrelationProofs ---------------------------
(***************************************************************************)
(* Proofs about Correlation, for numbers of every length, every set of     *)
(* calls, conversations and requests, and every length of the key.         *)
(***************************************************************************)
EXTENDS Correlation, FiniteSetTheorems, SequenceTheorems, TLAPS

-----------------------------------------------------------------------------
(* The characters of a text *)

\* The characters asked for, by their places and the ranks of these.
Places(text, S) == {i \in 1..Len(text) : text[i] \in S}
Ranks(text, S) ==
  [i \in Places(text, S) |-> Cardinality({j \in Places(text, S) : j <= i})]

LEMMA OnlyByRank ==
  ASSUME NEW S, NEW text
  PROVE  Only(text, S) =
           [k \in 1..Cardinality(Places(text, S)) |->
              text[CHOOSE i \in Places(text, S) : Ranks(text, S)[i] = k]]
BY DEF Only, Places, Ranks

\* Ranks count on from the first place asked for when nothing after it is left
\* out.
LEMMA RanksOfInterval ==
  ASSUME NEW S, NEW text, NEW a \in Nat \ {0}, NEW b \in Nat, a <= b + 1,
         Places(text, S) = a..b
  PROVE  Only(text, S) = [k \in 1..b - a + 1 |-> text[k + a - 1]]
<1> DEFINE at == Places(text, S)
           rank == Ranks(text, S)
<1>1. \A i \in a..b : rank[i] = i - a + 1
  <2> SUFFICES ASSUME NEW i \in a..b
               PROVE  rank[i] = i - a + 1
    OBVIOUS
  <2>1. {j \in at : j <= i} = a..i /\ i \in Int /\ a <= i
    OBVIOUS
  <2>2. Cardinality(a..i) = i - a + 1
    BY <2>1, FS_Interval
  <2>3. rank[i] = Cardinality({j \in at : j <= i})
    BY DEF Ranks
  <2>. QED
    BY <2>1, <2>2, <2>3
<1>2. Cardinality(at) = b - a + 1
  <2>1. Cardinality(a..b) = IF a > b THEN 0 ELSE b - a + 1
    BY FS_Interval
  <2>. QED
    BY <2>1
<1>3. \A k \in 1..b - a + 1 : (CHOOSE i \in at : rank[i] = k) = k + a - 1
  <2> SUFFICES ASSUME NEW k \in 1..b - a + 1
               PROVE  (CHOOSE i \in at : rank[i] = k) = k + a - 1
    OBVIOUS
  <2>1. k + a - 1 \in at /\ rank[k + a - 1] = k
    BY <1>1
  <2>2. \A i \in at : rank[i] = k => i = k + a - 1
    BY <1>1
  <2> HIDE DEF at, rank
  <2>. QED
    BY <2>1, <2>2
<1> HIDE DEF at, rank
<1>4. Only(text, S) = [k \in 1..Cardinality(at) |-> text[CHOOSE i \in at : rank[i] = k]]
  BY OnlyByRank DEF at, rank
<1>. QED
  BY <1>2, <1>3, <1>4

\* Nothing is left out of a text all of whose characters are asked for ...
LEMMA OnlyAll ==
  ASSUME NEW S, NEW text \in Seq(S)
  PROVE  Only(text, S) = text
<1>1. Len(text) \in Nat /\ text \in [1..Len(text) -> S]
  BY LenProperties
<1>2. Places(text, S) = 1..Len(text)
  BY <1>1 DEF Places
<1>3. Only(text, S) = [k \in 1..Len(text) - 1 + 1 |-> text[k + 1 - 1]]
  BY <1>1, <1>2, RanksOfInterval
<1>. QED
  BY <1>1, <1>3

\* ... and what is not asked for in front of it is.
LEMMA OnlyAfter ==
  ASSUME NEW S, NEW x, x \notin S, NEW text \in Seq(S)
  PROVE  Only(<<x>> \o text, S) = text
<1> DEFINE long == <<x>> \o text
<1>1. Len(text) \in Nat /\ text \in [1..Len(text) -> S]
  BY LenProperties
<1>2. /\ Len(long) = Len(text) + 1 /\ long[1] = x
      /\ \A i \in 2..Len(text) + 1 : long[i] = text[i - 1]
  <2>1. text \in Seq(S \cup {x}) /\ <<x>> \in Seq(S \cup {x}) /\ Len(<<x>>) = 1
    BY SeqMonotonic
  <2>2. /\ Len(long) = 1 + Len(text)
        /\ \A i \in 1..1 + Len(text) : long[i] = IF i <= 1 THEN <<x>>[i] ELSE text[i - 1]
    BY <2>1, ConcatProperties
  <2>. QED
    BY <1>1, <2>2
<1> HIDE DEF long
<1>3. Places(long, S) = 2..Len(text) + 1
  <2>1. \A i \in 2..Len(text) + 1 : long[i] \in S
    BY <1>1, <1>2
  <2>. QED
    BY <1>1, <1>2, <2>1 DEF Places
<1>4. Only(long, S) = [k \in 1..Len(text) + 1 - 2 + 1 |-> long[k + 2 - 1]]
  BY <1>1, <1>3, RanksOfInterval
<1>5. \A k \in 1..Len(text) : long[k + 2 - 1] = text[k]
  BY <1>1, <1>2
<1>6. Only(long, S) = [k \in 1..Len(text) |-> text[k]]
  BY <1>1, <1>4, <1>5
<1>. QED
  BY <1>1, <1>6 DEF long

\* What is left of a text is a text.
LEMMA OnlySequence ==
  ASSUME NEW T, NEW text \in Seq(T), NEW S
  PROVE  \E U : Only(text, S) \in Seq(U)
<1> DEFINE n == Cardinality(Places(text, S))
           f == Only(text, S)
           U == {f[k] : k \in 1..n}
<1>1. Len(text) \in Nat
  BY LenProperties
<1>2. IsFiniteSet(1..Len(text)) /\ Places(text, S) \in SUBSET (1..Len(text))
  BY <1>1, FS_Interval DEF Places
<1>3. n \in Nat
  BY <1>2, FS_Subset, FS_CardinalityType
<1>4. f \in [1..n -> U]
  BY OnlyByRank
<1>5. f \in Seq(U)
  BY <1>3, <1>4, SeqDef
<1>. QED
  BY <1>5

-----------------------------------------------------------------------------
(* The key of a number *)

Ending(digits) ==
  IF Len(digits) >= SuffixLength
    THEN SubSeq(digits, Len(digits) - SuffixLength + 1, Len(digits))
    ELSE digits

LEMMA KeyOfDigits ==
  ASSUME NEW d \in Seq(Digit)
  PROVE  PhoneSuffix(d) = Ending(d) /\ PhoneSuffix(<<Plus>> \o d) = Ending(d)
<1>1. DigitsOnly(d) = d
  BY OnlyAll DEF DigitsOnly
<1>2. DigitsOnly(<<Plus>> \o d) = d
  BY OnlyAfter, PhoneNumberAssumption DEF DigitsOnly
<1>. QED
  BY <1>1, <1>2 DEF PhoneSuffix, Ending

LEMMA EndingType ==
  ASSUME NEW d \in Seq(Digit), Len(d) >= 1
  PROVE  Ending(d) \in Seq(Digit) /\ Ending(d) # <<>>
<1>1. Len(d) \in Nat
  BY LenProperties
<1>2. CASE Len(d) >= SuffixLength
  <2> DEFINE m == Len(d) - SuffixLength + 1
  <2>1. m \in 1..Len(d) + 1 /\ m <= Len(d)
    BY <1>1, <1>2, PhoneNumberAssumption
  <2>2. /\ SubSeq(d, m, Len(d)) \in Seq(Digit)
        /\ Len(SubSeq(d, m, Len(d))) = Len(d) - m + 1
    BY <1>1, <2>1, SubSeqProperties
  <2>3. Len(SubSeq(d, m, Len(d))) # 0
    BY <1>1, <2>1, <2>2
  <2>. QED
    BY <1>2, <2>2, <2>3, EmptySeq DEF Ending
<1>3. CASE ~(Len(d) >= SuffixLength)
  BY <1>3, EmptySeq DEF Ending
<1>. QED
  BY <1>2, <1>3

\* What is put in front of a number as long as the key does not change it.
LEMMA EndingOfConcat ==
  ASSUME NEW p \in Seq(Digit), NEW d \in Seq(Digit), Len(d) >= SuffixLength
  PROVE  p \o d \in Seq(Digit) /\ Ending(p \o d) = Ending(d)
<1> DEFINE long == p \o d
           m == Len(d) - SuffixLength + 1
<1>1. Len(p) \in Nat /\ Len(d) \in Nat /\ SuffixLength \in Nat \ {0}
  BY LenProperties, PhoneNumberAssumption
<1>2. /\ long \in Seq(Digit) /\ Len(long) = Len(p) + Len(d)
      /\ \A i \in 1..Len(p) + Len(d) : long[i] = IF i <= Len(p) THEN p[i] ELSE d[i - Len(p)]
  BY ConcatProperties
<1> HIDE DEF long
<1>3. /\ Ending(long) = SubSeq(long, Len(p) + m, Len(p) + Len(d))
      /\ Ending(d) = SubSeq(d, m, Len(d))
  <2>1. Len(long) >= SuffixLength /\ Len(long) - SuffixLength + 1 = Len(p) + m
    BY <1>1, <1>2
  <2>. QED
    BY <1>2, <2>1 DEF Ending
<1>4. m \in 1..Len(d) + 1 /\ Len(p) + m \in 1..Len(p) + Len(d) + 1
  BY <1>1
<1>5. /\ Ending(d) \in Seq(Digit) /\ Len(Ending(d)) = SuffixLength
      /\ \A i \in 1..SuffixLength : Ending(d)[i] = d[m + i - 1]
  BY <1>1, <1>3, <1>4, SubSeqProperties
<1>6. /\ Ending(long) \in Seq(Digit) /\ Len(Ending(long)) = SuffixLength
      /\ \A i \in 1..SuffixLength : Ending(long)[i] = long[Len(p) + m + i - 1]
  <2> DEFINE a == Len(p) + m
             b == Len(p) + Len(d)
  <2>1. /\ a \in Int /\ b \in Int /\ a <= b /\ b - a + 1 = SuffixLength
        /\ \A i \in a..b : i \in 1..Len(long)
    BY <1>1, <1>2
  <2>2. \A i \in a..b : long[i] \in Digit
    BY <1>2, <2>1, ElementOfSeq
  <2> HIDE DEF a, b
  <2>3. /\ SubSeq(long, a, b) \in Seq(Digit) /\ Len(SubSeq(long, a, b)) = b - a + 1
        /\ \A i \in 1..b - a + 1 : SubSeq(long, a, b)[i] = long[a + i - 1]
    BY <2>1, <2>2, SubSeqProperties
  <2>. QED
    BY <1>3, <2>1, <2>3 DEF a, b
<1>7. \A i \in 1..SuffixLength : long[Len(p) + m + i - 1] = d[m + i - 1]
  <2> SUFFICES ASSUME NEW i \in 1..SuffixLength
               PROVE  long[Len(p) + m + i - 1] = d[m + i - 1]
    OBVIOUS
  <2> DEFINE k == Len(p) + m + i - 1
  <2>1. k \in 1..Len(p) + Len(d) /\ ~(k <= Len(p)) /\ k - Len(p) = m + i - 1
    BY <1>1
  <2> HIDE DEF k, m
  <2>. QED
    BY <1>2, <2>1 DEF k
<1>8. \A i \in 1..SuffixLength : Ending(long)[i] = Ending(d)[i]
  BY <1>5, <1>6, <1>7
<1>9. Ending(long) = Ending(d)
  BY <1>5, <1>6, <1>8, SeqEqual
<1>. QED
  BY <1>2, <1>9 DEF long

LEMMA E164Digits ==
  ASSUME NEW country \in Seq(Digit), NEW national \in Seq(Digit)
  PROVE  /\ E164(country, national) = <<Plus>> \o (country \o national)
         /\ country \o national \in Seq(Digit)
         /\ Len(country \o national) = Len(country) + Len(national)
<1>1. /\ country \in Seq(Char) /\ national \in Seq(Char) /\ <<Plus>> \in Seq(Char)
  BY SeqMonotonic DEF Char
<1>. QED
  BY <1>1, ConcatAssociative, ConcatProperties DEF E164

\* However Gnani writes a number that has the digits of the key, its key is the
\* one the call was stored under.
LEMMA KeyAsReported ==
  ASSUME NEW country \in Seq(Digit), NEW national \in Seq(Digit),
         Len(national) >= SuffixLength, NEW mobile \in Reported(country, national)
  PROVE  PhoneSuffix(mobile) = PhoneSuffix(E164(country, national))
<1>1. PhoneSuffix(E164(country, national)) = Ending(national)
  <2> DEFINE both == country \o national
  <2>1. both \in Seq(Digit) /\ E164(country, national) = <<Plus>> \o both
    BY E164Digits
  <2>2. Ending(both) = Ending(national)
    BY EndingOfConcat
  <2> HIDE DEF both
  <2>. QED
    BY <2>1, <2>2, KeyOfDigits
<1>2. <<0>> \in Seq(Digit)
  BY PhoneNumberAssumption
<1>3. PhoneSuffix(national) = Ending(national)
  BY KeyOfDigits
<1>4. PhoneSuffix(<<0>> \o national) = Ending(national)
  BY <1>2, KeyOfDigits, EndingOfConcat
<1>5. PhoneSuffix(<<0>> \o country \o national) = Ending(national)
  <2>1. <<0>> \o country \in Seq(Digit)
    BY <1>2, ConcatProperties
  <2>. QED
    BY <2>1, KeyOfDigits, EndingOfConcat
<1>. QED
  BY <1>1, <1>3, <1>4, <1>5 DEF Reported

\* A number of at least one digit has a key.
LEMMA KeyStored ==
  ASSUME NEW country \in Seq(Digit), NEW national \in Seq(Digit), Len(national) >= 1
  PROVE  /\ PhoneSuffix(E164(country, national)) \in Seq(Digit)
         /\ PhoneSuffix(E164(country, national)) # <<>>
<1>1. Len(country) \in Nat /\ Len(national) \in Nat
  BY LenProperties
<1> DEFINE both == country \o national
<1>2. both \in Seq(Digit) /\ E164(country, national) = <<Plus>> \o both /\ Len(both) >= 1
  BY <1>1, E164Digits
<1> HIDE DEF both
<1>. QED
  BY <1>2, KeyOfDigits, EndingType

-----------------------------------------------------------------------------
(* What a request that passes the checks is stored as *)

LEMMA DigitsText ==
  ASSUME NEW U, NEW text \in Seq(U), Digits(text)
  PROVE  text \in Seq(Digit)
<1>1. Len(text) \in Nat /\ text \in [1..Len(text) -> U]
  BY LenProperties
<1>2. text \in [1..Len(text) -> Digit]
  BY <1>1 DEF Digits
<1>. QED
  BY <1>1, <1>2, SeqDef

LEMMA NationalDigits ==
  ASSUME NEW text \in Seq(Char), ValidPhone(text)
  PROVE  National(text) \in Seq(Digit) /\ Len(National(text)) >= 1
<1> DEFINE kept == Only(text, Char \ {Separator})
           first == {i \in 1..Len(kept) :
                       kept[i] # Plus /\ \A j \in 1..i - 1 : kept[j] = Plus}
<1>1. PICK U : kept \in Seq(U)
  BY OnlySequence
<1>2. Len(kept) \in Nat
  BY <1>1, LenProperties
<1>3. National(text) = IF first = {} THEN <<>>
                       ELSE SubSeq(kept, CHOOSE i \in first : TRUE, Len(kept))
  BY DEF National, WithoutPlus
<1>4. National(text) \in Seq(U)
  <2>1. CASE first = {}
    BY <1>3, <2>1, EmptySeq
  <2>2. CASE first # {}
    <3> DEFINE start == CHOOSE i \in first : TRUE
    <3>1. start \in 1..Len(kept)
      BY <2>2
    <3> HIDE DEF start
    <3>2. SubSeq(kept, start, Len(kept)) \in Seq(U)
      BY <1>1, <1>2, <3>1, SubSeqProperties
    <3>. QED
      BY <1>3, <2>2, <3>2 DEF start
  <2>. QED
    BY <2>1, <2>2
<1>5. Digits(National(text)) /\ Len(National(text)) \in MinDigits..MaxDigits
  BY DEF ValidPhone
<1>. QED
  BY <1>4, <1>5, DigitsText, PhoneNumberAssumption

LEMMA CountryCodeDigits ==
  ASSUME NEW text \in Seq(Char), ValidCountryCode(text)
  PROVE  CountryDigits(text) \in Seq(Digit)
<1>1. CountryDigits(text) \in Seq(Char)
  BY HeadTailProperties DEF CountryDigits
<1>. QED
  BY <1>1, DigitsText DEF ValidCountryCode

-----------------------------------------------------------------------------
(* Inductive invariants *)

Document ==
  [origin: {"api", "gnani_console"}, country: Seq(Digit), national: Seq(Digit),
   suffix: Seq(Digit), created: Nat, conv: Conv \cup {BlankConv, NoConv},
   greeting: BOOLEAN, outcome: Body \cup {NoBody}]

Documents ==
  /\ calls \in [CallId -> Document]
  /\ stored \subseteq CallId /\ IsFiniteSet(stored)
  /\ convs \in [Conv -> [owner: CallId \cup {Console, NoCall}, reports: SUBSET Seq(Char)]]

\* A conversation of a call of ours reports the number of that call.
DialledOK ==
  \A v \in Conv : convs[v].owner \in CallId =>
    LET c == calls[convs[v].owner]
    IN  /\ convs[v].owner \in stored /\ c.origin = "api"
        /\ convs[v].reports = Reported(c.country, c.national)

\* A call placed through the API has the key of its number.
KeysOK ==
  \A c \in stored : calls[c].origin = "api" =>
    /\ calls[c].suffix = PhoneSuffix(E164(calls[c].country, calls[c].national))
    /\ calls[c].suffix # <<>>

\* What it is bound to, and what it took, is of conversations somebody holds;
\* pairs are the greetings without an id.
Held(v) == v \in Conv /\ convs[v].owner # NoCall
Files(c, v) == c \in stored /\ Held(v) /\ OwnConversation(c, v)
BlankOK(c, pairs) == \E v : <<c, v>> \in pairs /\ Files(c, v)
BoundOK(c, id, pairs) ==
  /\ id \in Conv => Files(c, id)
  /\ id = BlankConv => BlankOK(c, pairs)
TookOK(c, body, pairs) ==
  body # NoBody =>
    /\ Held(body.of)
    /\ \/ OwnConversation(c, body.of)
       \/ body.call = c
       \/ body.conv = BlankConv /\ BlankOK(c, pairs)
FiledOK ==
  \A c \in stored : calls[c].origin = "api" =>
    BoundOK(c, calls[c].conv, nameless) /\ TookOK(c, calls[c].outcome, nameless)

CorrInv == CorrelationTypeOK /\ Documents /\ DialledOK /\ KeysOK /\ FiledOK

\* One document is written, the others are left alone.
LEMMA OneWritten ==
  ASSUME calls \in [CallId -> Document], NEW c \in CallId, NEW r \in Document,
         calls' = [calls EXCEPT ![c] = r]
  PROVE  /\ calls' \in [CallId -> Document] /\ calls'[c] = r
         /\ \A d \in CallId \ {c} : calls'[d] = calls[d]
OBVIOUS

LEMMA UnusedDocument == Unused \in Document
<1>1. <<>> \in Seq(Digit)
  BY EmptySeq
<1>. QED
  BY <1>1 DEF Unused, Document

LEMMA InitCorr == Init => CorrInv
<1> SUFFICES ASSUME Init PROVE CorrInv
  OBVIOUS
<1>1. IsFiniteSet({}) /\ <<>> \in Seq(Char)
  BY FS_EmptySet, EmptySeq
<1>2. Documents
  BY <1>1, UnusedDocument DEF Init, Documents
<1>3. CorrelationTypeOK /\ DialledOK /\ KeysOK /\ FiledOK
  BY CorrelationAssumption DEF Init, CorrelationTypeOK, DialledOK, KeysOK, FiledOK
<1>. QED
  BY <1>2, <1>3 DEF CorrInv

\* No step changes the number of a stored call, or what is known of a
\* conversation somebody holds.
SameNumber(c) ==
  /\ calls'[c].origin = calls[c].origin /\ calls'[c].country = calls[c].country
  /\ calls'[c].national = calls[c].national /\ calls'[c].suffix = calls[c].suffix
  /\ calls'[c].created = calls[c].created
Kept ==
  /\ Documents' /\ stored \subseteq stored' /\ ledger \subseteq ledger' /\ ledger' \subseteq Body
  /\ nameless' \subseteq stored' \X Conv
  /\ \A c \in stored : SameNumber(c)
  /\ \A v \in Conv : Held(v) => convs'[v] = convs[v]

\* Then it is enough to look at what it files.
LEMMA StepKeeps ==
  ASSUME CorrInv, Kept,
         \A v \in Conv : ~Held(v) /\ convs'[v].owner \in CallId =>
           LET c == calls[convs'[v].owner]
           IN  /\ convs'[v].owner \in stored /\ c.origin = "api"
               /\ convs'[v].reports = Reported(c.country, c.national),
         \A c \in stored' : calls'[c].origin = "api" =>
           /\ c \notin stored =>
                /\ calls'[c].suffix = PhoneSuffix(E164(calls'[c].country, calls'[c].national))
                /\ calls'[c].suffix # <<>> /\ calls'[c].outcome = NoBody
           /\ BoundOK(c, calls'[c].conv, nameless')
           /\ TookOK(c, calls'[c].outcome, nameless'),
         \A c \in stored' \ stored : calls'[c].created \in 1..Cardinality(stored'),
         \A c \in stored' : calls'[c].outcome \in ledger' \cup {NoBody}
  PROVE  CorrInv'
<1> USE DEF CorrInv, Kept, Documents
<1>1. CorrelationTypeOK'
  <2>1. \A c \in stored : calls'[c].created \in 1..Cardinality(stored')
    <3>1. /\ IsFiniteSet(stored) /\ IsFiniteSet(stored') /\ stored \in SUBSET stored'
      OBVIOUS
    <3>2. /\ Cardinality(stored) \in Nat /\ Cardinality(stored') \in Nat
          /\ Cardinality(stored) <= Cardinality(stored')
      BY <3>1, FS_CardinalityType, FS_Subset
    <3>. QED
      BY <3>2 DEF CorrelationTypeOK, SameNumber
  <2>2. \A v \in Conv : convs'[v].owner \in stored' \cup {Console, NoCall}
    BY DEF CorrelationTypeOK, Held
  <2>3. \A c \in stored' :
          /\ calls'[c].origin \in {"api", "gnani_console"}
          /\ calls'[c].conv \in Conv \cup {BlankConv, NoConv}
    BY DEF Document
  <2>. QED
    BY <2>1, <2>2, <2>3 DEF CorrelationTypeOK
<1>2. DialledOK'
  <2> SUFFICES ASSUME NEW v \in Conv, convs'[v].owner \in CallId
               PROVE  LET c == calls'[convs'[v].owner]
                      IN  /\ convs'[v].owner \in stored' /\ c.origin = "api"
                          /\ convs'[v].reports = Reported(c.country, c.national)
    BY DEF DialledOK
  <2>1. LET c == calls[convs'[v].owner]
        IN  /\ convs'[v].owner \in stored /\ c.origin = "api"
            /\ convs'[v].reports = Reported(c.country, c.national)
    <3>1. CASE Held(v)
      BY <3>1 DEF DialledOK
    <3>. QED
      BY <3>1
  <2>. QED
    BY <2>1 DEF SameNumber
<1>3. \A c, v : Files(c, v) => Files(c, v)'
  <2> SUFFICES ASSUME NEW c \in stored, NEW v \in Conv, Held(v), OwnConversation(c, v)
               PROVE  Held(v)' /\ OwnConversation(c, v)'
    BY DEF Files, Held
  <2>1. convs'[v] = convs[v] /\ calls'[c].suffix = calls[c].suffix
    BY DEF SameNumber
  <2>2. CASE convs[v].owner = Console
    BY <2>1, <2>2 DEF Held, OwnConversation
  <2>3. CASE convs[v].owner # Console
    <3>1. convs[v].owner \in stored
      BY <2>3 DEF CorrelationTypeOK, Held
    <3>. QED
      BY <2>1, <2>3, <3>1 DEF Held, OwnConversation, SameKey, Long, SameNumber
  <2>. QED
    BY <2>2, <2>3
<1>4. KeysOK'
  BY DEF KeysOK, SameNumber
<1>5. FiledOK'
  <2> SUFFICES ASSUME NEW c \in stored', calls'[c].origin = "api"
               PROVE  /\ BoundOK(c, calls[c].conv, nameless)'
                      /\ TookOK(c, calls[c].outcome, nameless)'
    BY DEF FiledOK
  <2>1. BlankOK(c, nameless') => BlankOK(c, nameless)'
    BY <1>3 DEF BlankOK
  <2>2. BoundOK(c, calls[c].conv, nameless)'
    BY <1>3, <2>1 DEF BoundOK
  <2>3. \A v : Held(v) => Held(v)'
    BY DEF Held
  <2>4. ASSUME calls'[c].outcome # NoBody PROVE TookOK(c, calls[c].outcome, nameless)'
    <3>1. c \in stored
      BY <2>4
    <3> DEFINE v == calls'[c].outcome.of
    <3>2. Held(v) /\ (OwnConversation(c, v) => Files(c, v))
      BY <2>4, <3>1 DEF TookOK, Files
    <3>3. OwnConversation(c, v) => OwnConversation(c, calls[c].outcome.of)'
      BY <1>3, <3>2 DEF Files
    <3>. QED
      BY <2>1, <2>3, <2>4, <3>2, <3>3 DEF TookOK
  <2>. QED
    BY <2>2, <2>4 DEF TookOK
<1>. QED
  BY <1>1, <1>2, <1>4, <1>5

\* What is filed already, in the words of StepKeeps: more greetings without an
\* id do no harm.
LEMMA FiledAlready ==
  ASSUME CorrInv, NEW pairs, nameless \subseteq pairs
  PROVE  \A c \in stored : calls[c].origin = "api" =>
           BoundOK(c, calls[c].conv, pairs) /\ TookOK(c, calls[c].outcome, pairs)
<1>1. \A c : BlankOK(c, nameless) => BlankOK(c, pairs)
  BY DEF BlankOK
<1>. QED
  BY <1>1 DEF CorrInv, FiledOK, BoundOK, TookOK

LEMMA InitialMessageKeeps ==
  ASSUME CorrInv, NEW c \in CallId, NEW request \in Requests, InitialMessage(c, request)
  PROVE  CorrInv'
<1> USE DEF CorrInv, Documents
<1> DEFINE national == National(request.phone)
           country == CountryDigits(request.country)
           record == ApiRecord(request)
<1>1. national \in Seq(Digit) /\ Len(national) >= 1 /\ country \in Seq(Digit)
  BY NationalDigits, CountryCodeDigits, CorrelationAssumption DEF InitialMessage
<1> HIDE DEF national, country
<1>2. /\ PhoneSuffix(E164(country, national)) \in Seq(Digit)
      /\ PhoneSuffix(E164(country, national)) # <<>>
  BY <1>1, KeyStored
<1>3. /\ IsFiniteSet(stored') /\ Cardinality(stored) \in Nat
      /\ Cardinality(stored') = Cardinality(stored) + 1
  BY FS_AddElement, FS_CardinalityType DEF InitialMessage
<1>4. record = [Unused EXCEPT !.origin = "api", !.country = country, !.national = national,
                              !.suffix = PhoneSuffix(E164(country, national)),
                              !.created = Cardinality(stored) + 1, !.greeting = TRUE]
  BY DEF ApiRecord, national, country
<1>5. /\ record \in Document /\ record.origin = "api"
      /\ record.country = country /\ record.national = national
      /\ record.suffix = PhoneSuffix(E164(country, national))
      /\ record.created = Cardinality(stored) + 1
      /\ record.conv = NoConv /\ record.outcome = NoBody
  <2> HIDE DEF record
  <2>1. Unused.conv = NoConv /\ Unused.outcome = NoBody
    BY DEF Unused
  <2>. QED
    <3>1. Unused \in Document /\ Cardinality(stored) + 1 \in Nat
      BY <1>3, UnusedDocument
    <3>. QED
      BY <1>1, <1>2, <1>4, <2>1, <3>1 DEF Document
<1> HIDE DEF record
<1>6. /\ calls' = [calls EXCEPT ![c] = record] /\ stored' = stored \cup {c}
      /\ UNCHANGED <<convs, ledger, nameless>> /\ c \notin stored
  BY DEF InitialMessage, record
<1>7. /\ \A d \in stored : calls'[d] = calls[d]
      /\ calls'[c] = record
  BY <1>6
<1>8. Documents' /\ Kept
  BY <1>3, <1>5, <1>6, <1>7 DEF Kept, SameNumber, CorrelationTypeOK
<1>9. \A d \in stored' : calls'[d].origin = "api" =>
        /\ d \notin stored =>
             /\ calls'[d].suffix = PhoneSuffix(E164(calls'[d].country, calls'[d].national))
             /\ calls'[d].suffix # <<>> /\ calls'[d].outcome = NoBody
        /\ BoundOK(d, calls'[d].conv, nameless')
        /\ TookOK(d, calls'[d].outcome, nameless')
  <2>1. NoConv \notin Conv /\ NoConv # BlankConv
    BY CorrelationAssumption
  <2>2. BoundOK(c, record.conv, nameless) /\ TookOK(c, record.outcome, nameless)
    BY <1>5, <2>1 DEF BoundOK, TookOK
  <2>. QED
    BY <1>2, <1>5, <1>6, <1>7, <2>2, FiledAlready
<1>10. /\ \A d \in stored' \ stored : calls'[d].created \in 1..Cardinality(stored')
       /\ \A d \in stored' : calls'[d].outcome \in ledger' \cup {NoBody}
  BY <1>3, <1>5, <1>6, <1>7 DEF CorrelationTypeOK
<1>11. \A v \in Conv : ~Held(v) => convs'[v].owner \notin CallId
  BY <1>6, CorrelationAssumption DEF Held
<1>. QED
  BY <1>8, <1>9, <1>10, <1>11, StepKeeps

\* A conversation begins: nobody held it.
LEMMA DiallingKeeps ==
  ASSUME CorrInv, NEW v \in Conv, convs[v].owner = NoCall, NEW owner,
         NEW reports \in SUBSET Seq(Char),
         owner = Console \/ (/\ owner \in stored /\ calls[owner].origin = "api"
                             /\ reports = Reported(calls[owner].country, calls[owner].national)),
         convs' = [convs EXCEPT ![v] = [owner |-> owner, reports |-> reports]],
         UNCHANGED <<calls, stored, ledger, nameless>>
  PROVE  CorrInv'
<1> USE DEF CorrInv, Documents
<1>1. Kept
  BY DEF Kept, Held, SameNumber, CorrelationTypeOK
<1>2. \A u \in Conv : ~Held(u) /\ convs'[u].owner \in CallId =>
        /\ u = v /\ convs'[u].owner = owner /\ convs'[u].reports = reports
        /\ owner # Console
  BY CorrelationAssumption DEF Held
<1>3. \A c \in stored : calls[c].origin = "api" =>
        BoundOK(c, calls[c].conv, nameless) /\ TookOK(c, calls[c].outcome, nameless)
  BY FiledAlready
<1>4. \A c \in stored : calls[c].outcome \in ledger \cup {NoBody}
  BY DEF CorrelationTypeOK
<1>. QED
  BY <1>1, <1>2, <1>3, <1>4, StepKeeps

LEMMA ReportedText ==
  ASSUME NEW country \in Seq(Digit), NEW national \in Seq(Digit),
         NEW mobile \in Reported(country, national)
  PROVE  mobile \in Seq(Char)
<1>1. /\ country \in Seq(Char) /\ national \in Seq(Char)
      /\ <<Plus>> \in Seq(Char) /\ <<0>> \in Seq(Char)
  BY SeqMonotonic, PhoneNumberAssumption DEF Char
<1>2. <<Plus>> \o country \in Seq(Char) /\ <<0>> \o country \in Seq(Char)
  BY <1>1, ConcatProperties
<1>3. /\ <<Plus>> \o country \o national \in Seq(Char)
      /\ <<0>> \o national \in Seq(Char)
      /\ <<0>> \o country \o national \in Seq(Char)
  BY <1>1, <1>2, ConcatProperties
<1>. QED
  BY <1>1, <1>3 DEF Reported, E164

LEMMA DialKeeps ==
  ASSUME CorrInv, NEW v \in Conv,
         \/ \E c \in CallId : Dial(c, v)
         \/ \E mobile \in ConsoleMobiles : ConsoleDials(v, mobile)
  PROVE  CorrInv'
<1>1. ASSUME NEW c \in CallId, Dial(c, v) PROVE CorrInv'
  <2> DEFINE reports == Reported(calls[c].country, calls[c].national)
  <2>1. reports \in SUBSET Seq(Char)
    BY ReportedText DEF CorrInv, Documents, Document
  <2>2. convs' = [convs EXCEPT ![v] = [owner |-> c, reports |-> reports]]
    BY <1>1 DEF Dial
  <2>3. /\ c \in stored /\ calls[c].origin = "api" /\ convs[v].owner = NoCall
        /\ UNCHANGED <<calls, stored, ledger, nameless>>
    BY <1>1 DEF Dial
  <2>. QED
    BY <2>1, <2>2, <2>3, DiallingKeeps
<1>2. ASSUME NEW mobile \in ConsoleMobiles, ConsoleDials(v, mobile) PROVE CorrInv'
  <2>1. {mobile} \in SUBSET Seq(Char)
    BY CorrelationAssumption
  <2>2. /\ convs' = [convs EXCEPT ![v] = [owner |-> Console, reports |-> {mobile}]]
        /\ convs[v].owner = NoCall /\ UNCHANGED <<calls, stored, ledger, nameless>>
    BY <1>2 DEF ConsoleDials
  <2>. QED
    BY <2>1, <2>2, DiallingKeeps
<1>. QED
  BY <1>1, <1>2

\* The number a conversation reports, if it has the digits of the key, has the
\* key of the call it belongs to.
LEMMA FoundByNumber ==
  ASSUME CorrInv, NEW c \in stored, calls[c].origin = "api", NEW v \in Conv, Held(v),
         NEW mobile \in convs[v].reports, c \in ByPhone(PhoneSuffix(mobile))
  PROVE  OwnConversation(c, v)
<1> USE DEF CorrInv, Documents
<1>1. calls[c].suffix = PhoneSuffix(mobile) /\ calls[c].suffix # <<>>
  BY DEF ByPhone, KeysOK
<1>2. CASE convs[v].owner = Console
  BY <1>1, <1>2 DEF OwnConversation
<1>3. CASE convs[v].owner # Console
  <2> DEFINE d == convs[v].owner
  <2>1. d \in stored /\ calls[d].origin = "api"
        /\ mobile \in Reported(calls[d].country, calls[d].national)
    BY <1>3 DEF CorrelationTypeOK, Held, DialledOK
  <2>2. calls[d].country \in Seq(Digit) /\ calls[d].national \in Seq(Digit)
    BY <2>1 DEF Document
  <2>3. Long(d) => PhoneSuffix(mobile) = calls[d].suffix
    BY <2>1, <2>2, KeyAsReported DEF Long, KeysOK
  <2>. QED
    BY <1>1, <1>3, <2>3 DEF OwnConversation, SameKey
<1>. QED
  BY <1>2, <1>3

LEMMA GreetingKeeps ==
  ASSUME CorrInv, NEW v \in Conv, NEW id \in IdOf(v), NEW mobile \in convs[v].reports,
         Greeting(v, id, mobile)
  PROVE  CorrInv'
<1> USE DEF CorrInv, Documents
<1>1. PICK c \in Greeted(id, mobile) :
        /\ calls' = [calls EXCEPT ![c].conv = id]
        /\ nameless' = IF id = BlankConv THEN nameless \cup {<<c, v>>} ELSE nameless
  BY DEF Greeting
<1>2. /\ UNCHANGED <<stored, convs, ledger>> /\ Held(v)
      /\ id \in Conv \cup {BlankConv} /\ (id \in Conv => id = v)
  BY CorrelationAssumption DEF Greeting, Held, IdOf
<1>3. c \in stored /\ (calls[c].origin = "api" => BoundOK(c, id, nameless'))
  <2>1. CASE c \in ByConversation(id)
    BY <1>1, <2>1, FiledAlready DEF ByConversation
  <2>2. CASE c \in ByPhone(PhoneSuffix(mobile))
    <3>1. c \in stored
      BY <2>2 DEF ByPhone
    <3>2. calls[c].origin = "api" => Files(c, v)
      BY <1>2, <2>2, <3>1, FoundByNumber DEF Files
    <3>. QED
      BY <1>1, <1>2, <3>1, <3>2 DEF BoundOK, BlankOK
  <2>. QED
    BY <1>1, <2>1, <2>2 DEF Greeted, OrElse
<1>4. /\ calls' \in [CallId -> Document]
      /\ \A d \in CallId : SameNumber(d) /\ calls'[d].outcome = calls[d].outcome
      /\ \A d \in CallId \ {c} : calls'[d] = calls[d]
      /\ calls'[c].conv = id
  <2> DEFINE r == [calls[c] EXCEPT !.conv = id]
  <2>1. c \in CallId /\ calls[c] \in Document
    BY <1>3
  <2>2. /\ r \in Document /\ r.conv = id /\ r.outcome = calls[c].outcome
        /\ r.origin = calls[c].origin /\ r.country = calls[c].country
        /\ r.national = calls[c].national /\ r.suffix = calls[c].suffix
        /\ r.created = calls[c].created
    BY <1>2, <2>1 DEF Document
  <2>3. calls' = [calls EXCEPT ![c] = r]
    BY <1>1
  <2> HIDE DEF r
  <2>4. /\ calls' \in [CallId -> Document] /\ calls'[c] = r
        /\ \A d \in CallId \ {c} : calls'[d] = calls[d]
    BY <2>1, <2>2, <2>3, OneWritten
  <2>. QED
    BY <2>2, <2>4, Zenon DEF SameNumber
<1>5. Kept
  BY <1>1, <1>2, <1>3, <1>4 DEF Kept, CorrelationTypeOK
<1>6. \A d \in stored' : calls'[d].origin = "api" =>
        BoundOK(d, calls'[d].conv, nameless') /\ TookOK(d, calls'[d].outcome, nameless')
  <2>1. nameless \subseteq nameless'
    BY <1>1
  <2> SUFFICES ASSUME NEW d \in stored, calls'[d].origin = "api"
               PROVE  /\ BoundOK(d, calls'[d].conv, nameless')
                      /\ TookOK(d, calls'[d].outcome, nameless')
    BY <1>2
  <2>2. BoundOK(d, calls[d].conv, nameless') /\ TookOK(d, calls[d].outcome, nameless')
    BY <1>4, <2>1, FiledAlready DEF SameNumber
  <2>3. CASE d = c
    BY <1>3, <1>4, <2>2, <2>3 DEF SameNumber
  <2>4. CASE d # c
    BY <1>4, <2>2, <2>4
  <2>. QED
    BY <2>3, <2>4
<1>7. \A d \in stored' : calls'[d].outcome \in ledger' \cup {NoBody}
  BY <1>2, <1>4 DEF CorrelationTypeOK
<1>8. \A u \in Conv : ~Held(u) => convs'[u].owner \notin CallId
  BY <1>2, CorrelationAssumption DEF Held
<1>. QED
  BY <1>2, <1>5, <1>6, <1>7, <1>8, StepKeeps

\* A body is one of the conversation it arrives for.
LEMMA BodyTypes ==
  ASSUME CorrInv, NEW v \in Conv, NEW body \in BodyOf(v)
  PROVE  body \in Body /\ body.of = v /\ body.conv \in {v, BlankConv}
<1>1. body \in [conv: {v, BlankConv}, of: {v}, call: {NoCall, Foreign} \cup stored]
  BY DEF BodyOf, IdOf
<1>. QED
  BY <1>1, CorrelationAssumption DEF Body, CorrInv, Documents

LEMMA PostCallMatchedKeeps ==
  ASSUME CorrInv, NEW v \in Conv, NEW body \in BodyOf(v), PostCallMatched(v, body)
  PROVE  CorrInv'
<1> USE DEF CorrInv, Documents
<1>0. body \in Body /\ body.of = v /\ body.conv \in {v, BlankConv}
  BY BodyTypes
<1>1. PICK c \in Found(body) : calls' = [calls EXCEPT ![c].outcome = body]
  BY DEF PostCallMatched
<1>2. /\ UNCHANGED <<stored, convs, nameless>> /\ ledger' = ledger \cup {body}
      /\ Held(v)
  BY DEF PostCallMatched, Arrives, Held
<1>3. c \in stored /\ (calls[c].origin = "api" => TookOK(c, body, nameless))
  <2>1. CASE c \in ByConversation(body.conv)
    <3>1. c \in stored /\ calls[c].conv = body.conv
      BY <2>1 DEF ByConversation
    <3>2. calls[c].origin = "api" => BoundOK(c, body.conv, nameless)
      BY <3>1, FiledAlready
    <3>. QED
      BY <1>0, <1>2, <3>1, <3>2 DEF BoundOK, TookOK, Files
  <2>2. CASE c \in ByCallId(body.call)
    BY <1>0, <1>2, <2>2 DEF ByCallId, TookOK
  <2>. QED
    BY <1>1, <2>1, <2>2 DEF Found, OrElse
<1>4. /\ calls' \in [CallId -> Document]
      /\ \A d \in CallId : SameNumber(d) /\ calls'[d].conv = calls[d].conv
      /\ \A d \in CallId \ {c} : calls'[d] = calls[d]
      /\ calls'[c].outcome = body
  <2> DEFINE r == [calls[c] EXCEPT !.outcome = body]
  <2>1. c \in CallId /\ calls[c] \in Document
    BY <1>3
  <2>2. /\ r \in Document /\ r.outcome = body /\ r.conv = calls[c].conv
        /\ r.origin = calls[c].origin /\ r.country = calls[c].country
        /\ r.national = calls[c].national /\ r.suffix = calls[c].suffix
        /\ r.created = calls[c].created
    BY <1>0, <2>1 DEF Document
  <2>3. calls' = [calls EXCEPT ![c] = r]
    BY <1>1
  <2> HIDE DEF r
  <2>4. /\ calls' \in [CallId -> Document] /\ calls'[c] = r
        /\ \A d \in CallId \ {c} : calls'[d] = calls[d]
    BY <2>1, <2>2, <2>3, OneWritten
  <2>. QED
    BY <2>2, <2>4, Zenon DEF SameNumber
<1>5. Kept
  BY <1>0, <1>2, <1>4 DEF Kept, CorrelationTypeOK
<1>6. \A d \in stored' : calls'[d].origin = "api" =>
        BoundOK(d, calls'[d].conv, nameless') /\ TookOK(d, calls'[d].outcome, nameless')
  <2> SUFFICES ASSUME NEW d \in stored, calls'[d].origin = "api"
               PROVE  /\ BoundOK(d, calls'[d].conv, nameless)
                      /\ TookOK(d, calls'[d].outcome, nameless)
    BY <1>2
  <2>1. BoundOK(d, calls[d].conv, nameless) /\ TookOK(d, calls[d].outcome, nameless)
    BY <1>4, FiledAlready DEF SameNumber
  <2>2. CASE d = c
    BY <1>3, <1>4, <2>1, <2>2 DEF SameNumber
  <2>3. CASE d # c
    BY <1>4, <2>1, <2>3
  <2>. QED
    BY <2>2, <2>3
<1>7. \A d \in stored' : calls'[d].outcome \in ledger' \cup {NoBody}
  BY <1>2, <1>4 DEF CorrelationTypeOK
<1>8. \A u \in Conv : ~Held(u) => convs'[u].owner \notin CallId
  BY <1>2, CorrelationAssumption DEF Held
<1>. QED
  BY <1>2, <1>5, <1>6, <1>7, <1>8, StepKeeps

LEMMA PostCallAdoptedKeeps ==
  ASSUME CorrInv, NEW v \in Conv, NEW body \in BodyOf(v), NEW c \in CallId,
         PostCallAdopted(v, body, c)
  PROVE  CorrInv'
<1> USE DEF CorrInv, Documents
<1>0. body \in Body /\ body.conv \in Conv \cup {BlankConv}
  BY BodyTypes
<1>1. PICK t \in 1..Cardinality(stored) + 1 :
        calls' = [calls EXCEPT ![c] = [AdoptedRecord(body, t) EXCEPT !.outcome = body]]
  BY DEF PostCallAdopted
<1> DEFINE record == [AdoptedRecord(body, t) EXCEPT !.outcome = body]
<1>2. /\ stored' = stored \cup {c} /\ c \notin stored
      /\ UNCHANGED <<convs, nameless>> /\ ledger' = ledger \cup {body}
  BY DEF PostCallAdopted
<1>3. /\ IsFiniteSet(stored') /\ Cardinality(stored) \in Nat
      /\ Cardinality(stored') = Cardinality(stored) + 1
  BY <1>2, FS_AddElement, FS_CardinalityType
<1>4. /\ record \in Document /\ record.origin = "gnani_console"
      /\ record.created = t /\ record.outcome = body
  <2>1. Unused.origin = "gnani_console"
    BY DEF Unused
  <2>2. record = [[Unused EXCEPT !.conv = body.conv, !.created = t] EXCEPT !.outcome = body]
    BY DEF AdoptedRecord
  <2>3. t \in Nat
    BY <1>3
  <2> HIDE DEF record
  <2>. QED
    BY <1>0, <2>1, <2>2, <2>3, UnusedDocument DEF Document
<1> HIDE DEF record
<1>5. calls' \in [CallId -> Document] /\ calls'[c] = record
      /\ \A d \in stored : calls'[d] = calls[d]
  BY <1>1, <1>2, <1>4 DEF record
<1>6. Kept
  BY <1>0, <1>2, <1>3, <1>5 DEF Kept, SameNumber, CorrelationTypeOK
<1>7. \A d \in stored' : calls'[d].origin = "api" =>
        /\ d \in stored
        /\ BoundOK(d, calls'[d].conv, nameless')
        /\ TookOK(d, calls'[d].outcome, nameless')
  BY <1>2, <1>4, <1>5, FiledAlready
<1>8. /\ \A d \in stored' \ stored : calls'[d].created \in 1..Cardinality(stored')
      /\ \A d \in stored' : calls'[d].outcome \in ledger' \cup {NoBody}
  BY <1>2, <1>3, <1>4, <1>5 DEF CorrelationTypeOK
<1>9. \A u \in Conv : ~Held(u) => convs'[u].owner \notin CallId
  BY <1>2, CorrelationAssumption DEF Held
<1>. QED
  BY <1>6, <1>7, <1>8, <1>9, StepKeeps

LEMMA NextCorr == CorrInv /\ [Next]_vars => CorrInv'
<1> SUFFICES ASSUME CorrInv, [Next]_vars PROVE CorrInv'
  OBVIOUS
<1>1. CASE Next
  BY <1>1, InitialMessageKeeps, DialKeeps, GreetingKeeps, PostCallMatchedKeeps,
     PostCallAdoptedKeeps DEF Next
<1>2. CASE UNCHANGED vars
  <2> USE DEF CorrInv, Documents
  <2>1. UNCHANGED <<calls, stored, convs, ledger, nameless>>
    BY <1>2 DEF vars
  <2>2. Kept
    BY <2>1 DEF Kept, SameNumber, CorrelationTypeOK
  <2>3. \A c \in stored : calls[c].origin = "api" =>
          BoundOK(c, calls[c].conv, nameless) /\ TookOK(c, calls[c].outcome, nameless)
    BY FiledAlready
  <2>4. \A c \in stored : calls[c].outcome \in ledger \cup {NoBody}
    BY DEF CorrelationTypeOK
  <2>5. \A v \in Conv : ~Held(v) => convs'[v].owner \notin CallId
    BY <2>1, CorrelationAssumption DEF Held
  <2>. QED
    BY <2>1, <2>2, <2>3, <2>4, <2>5, StepKeeps
<1>. QED
  BY <1>1, <1>2

LEMMA CorrInvariance == Spec => []CorrInv
BY InitCorr, NextCorr, PTL DEF Spec

-----------------------------------------------------------------------------
(* Theorems *)

\* The call a conversation belongs to is stored, what is filed with a call was
\* recorded in the ledger, and creation times follow the order of the inserts.
THEOREM CorrelationTypesHold == Spec => []CorrelationTypeOK
<1>1. CorrInv => CorrelationTypeOK
  BY DEF CorrInv
<1>. QED
  BY <1>1, CorrInvariance, PTL

\* A customer's call is bound to conversations of its own key only, and to the
\* blank id only by a greeting of one of these; the outcome of another it takes
\* only from a body that names it, or that has no id after such a greeting:
\* however numbers are written and reported, and whatever the console dials.
THEOREM CustomersApart == Spec => []CustomersKeptApart
<1>1. ASSUME CorrInv PROVE CustomersKeptApart
  <2>1. \A c : BlankOK(c, nameless) => GreetedBlank(c)
    BY DEF BlankOK, GreetedBlank, Files, Held
  <2>2. \A c, v : Files(c, v) => OwnConversation(c, v)
    BY DEF Files
  <2>. QED
    BY <1>1, <2>1, <2>2 DEF CorrInv, FiledOK, BoundOK, TookOK, CustomersKeptApart
<1>. QED
  BY <1>1, CorrInvariance, PTL

\* The greeting of a dialled call finds that call by its number if nobody else
\* has its key: the four forms a number is reported in end in the same digits.
THEOREM GreetingFindsIt == Spec => GreetingFindsTheCall
<1> DEFINE Finds == \A c \in stored, v \in Conv : \A id \in IdOf(v), mobile \in convs[v].reports :
             /\ convs[v].owner = c /\ Long(c)
             /\ \A d \in stored \ {c} : ~SameKey(c, d)
             /\ ByConversation(id) \subseteq {c}
             /\ Greeting(v, id, mobile)
             => calls'[c].conv = id
<1>1. ASSUME CorrInv, [Next]_vars PROVE [Finds]_vars
  <2> SUFFICES ASSUME NEW c \in stored, NEW v \in Conv, NEW id \in IdOf(v),
                      NEW mobile \in convs[v].reports,
                      convs[v].owner = c, Long(c),
                      \A d \in stored \ {c} : ~SameKey(c, d),
                      ByConversation(id) \subseteq {c},
                      Greeting(v, id, mobile)
               PROVE  calls'[c].conv = id
    OBVIOUS
  <2> USE <1>1 DEF CorrInv, Documents
  <2>1. PICK k \in Greeted(id, mobile) : calls' = [calls EXCEPT ![k].conv = id]
    BY DEF Greeting
  <2>2. PhoneSuffix(mobile) = calls[c].suffix
    <3>1. /\ calls[c].origin = "api"
          /\ mobile \in Reported(calls[c].country, calls[c].national)
      BY DEF DialledOK
    <3>2. calls[c].country \in Seq(Digit) /\ calls[c].national \in Seq(Digit)
      BY DEF Document
    <3>. QED
      BY <3>1, <3>2, KeyAsReported DEF Long, KeysOK
  <2>3. ByPhone(PhoneSuffix(mobile)) \subseteq {c}
    BY <2>2 DEF ByPhone, SameKey
  <2>4. k = c
    BY <2>1, <2>3 DEF Greeted, OrElse
  <2>. QED
    BY <2>1, <2>4 DEF Document
<1>. QED
  BY <1>1, CorrInvariance, PTL DEF Spec, GreetingFindsTheCall
=============================================================================

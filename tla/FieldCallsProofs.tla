--------------------------- MODULE FieldCallsProofs ---------------------------
(***************************************************************************)
(* What the functions of single fields return, for every argument: numbers *)
(* of any length, amounts of any number of digits, lists of tags and data  *)
(* of any length, packets of any number and length, cut off and delayed    *)
(* anywhere.                                                               *)
(***************************************************************************)
EXTENDS FieldCalls, InductionLemmas

------------------------------------------------------------------------------
\* A call is one of the calls, and its result what its function returns.
AnswerIs(fn, val) == Done(fn) => result.val = val

\* What the bytes of a stream are, what the issuer reads of them, what it
\* answers and what the switch hears.
SentOf(st)    == FlattenSeq([k \in DOMAIN st.packets |-> Framed(st.packets[k])])
ReadOf(st)    == readTPDUFrames(SubSeq(SentOf(st), 1, st.arrived))
AnswersOf(st) == [k \in DOMAIN ReadOf(st) |-> writeTPDUFrame(st.response, ReadOf(st)[k])]
StreamOutcome(st) == [read |-> ReadOf(st), answers |-> AnswersOf(st),
                      heard |-> Listened(FlattenSeq(AnswersOf(st)), st.quiet)]

Answered ==
    /\ call \in Calls
    /\ AnswerIs("stream", StreamOutcome(call.stream))
    /\ AnswerIs("pan", PANAccepted(call.text))
    /\ AnswerIs("expiry", [accepted |-> ExpiryAccepted(call.text),
                           valid |-> expiryValidYYMM(call.text, call.now)])
    /\ AnswerIs("scheme", [scheme |-> DetectScheme(call.start, call.length),
                           ok |-> IsValidPANLength(call.start, call.length)])
    /\ AnswerIs("amount", ParseAmount12(call.bytes))
    /\ AnswerIs("build", BuildEMVData(call.tags))
    /\ AnswerIs("parse", ParseEMVData(call.data))
    /\ AnswerIs("code", GetProcessingCode(call.type, call.from, call.to))

LEMMA AnsweredInvariant == Spec => []Answered
<1>1. Init => Answered
  BY DEF Init, Answered, AnswerIs, Done
<1>2. ASSUME Answered, [Next]_vars PROVE Answered'
  <2>1. CASE CheckPAN
    BY <1>2, <2>1 DEF CheckPAN, Returns, Answered, AnswerIs, Done
  <2>2. CASE CheckExpiry
    BY <1>2, <2>2 DEF CheckExpiry, Returns, Answered, AnswerIs, Done
  <2>3. CASE FindScheme
    BY <1>2, <2>3 DEF FindScheme, Returns, Answered, AnswerIs, Done
  <2>4. CASE ReadAmount
    BY <1>2, <2>4 DEF ReadAmount, Returns, Answered, AnswerIs, Done
  <2>5. CASE BuildTags
    BY <1>2, <2>5 DEF BuildTags, Returns, Answered, AnswerIs, Done
  <2>6. CASE ParseTags
    BY <1>2, <2>6 DEF ParseTags, Returns, Answered, AnswerIs, Done
  <2>7. CASE CodeOf
    BY <1>2, <2>7 DEF CodeOf, Returns, Answered, AnswerIs, Done
  <2>8. CASE Exchange
    <3>1. Returns("stream", StreamOutcome(call.stream))
      BY <2>8, Zenon DEF Exchange, StreamOutcome, SentOf, ReadOf, AnswersOf
    <3> QED
      BY <1>2, <3>1 DEF Returns, Answered, AnswerIs, Done
  <2>9. CASE UNCHANGED vars
    BY <1>2, <2>9 DEF vars, Answered, AnswerIs, Done
  <2> QED
    BY <1>2, <2>1, <2>2, <2>3, <2>4, <2>5, <2>6, <2>7, <2>8, <2>9 DEF Next
<1> QED
  BY <1>1, <1>2, PTL DEF Spec

------------------------------------------------------------------------------
\* Texts of one-byte characters.

SingleDigit == {<<d>> : d \in Digit}
FirstBytes(text) == [i \in 1 .. Len(text) |-> text[i][1]]

\* The bytes of such a text are its characters, one by one.
LEMMA FlattenSingles ==
    \A D : \A text \in Seq({<<d>> : d \in D}) :
        /\ FlattenSeq(text) = FirstBytes(text)
        /\ \A i \in 1 .. Len(text) : FirstBytes(text)[i] \in D /\ text[i] = <<FirstBytes(text)[i]>>
        /\ FirstBytes(text) \in Seq(D) /\ Len(FirstBytes(text)) = Len(text)
<1>0. SUFFICES ASSUME NEW D, NEW text, text \in Seq({<<d>> : d \in D}),
                      NEW n \in Nat, n = Len(text)
      PROVE  /\ FlattenSeq(text) = FirstBytes(text)
             /\ \A i \in 1 .. n : FirstBytes(text)[i] \in D /\ text[i] = <<FirstBytes(text)[i]>>
             /\ FirstBytes(text) \in Seq(D) /\ Len(FirstBytes(text)) = n
  <2>1. \A S, t : t \in Seq(S) => Len(t) \in Nat
    BY LenProperties
  <2> QED
    BY <2>1, Zenon
<1> DEFINE b == FirstBytes(text)
<1>1. \A i \in 1 .. n : text[i] \in {<<d>> : d \in D}
  BY <1>0, ElementOfSeq
<1>2. \A i \in 1 .. n : b[i] \in D /\ text[i] = <<b[i]>>
  <2> SUFFICES ASSUME NEW i \in 1 .. n PROVE b[i] \in D /\ text[i] = <<b[i]>>
    OBVIOUS
  <2>1. PICK d \in D : text[i] = <<d>>
    BY <1>1
  <2>2. b[i] = text[i][1]
    BY <1>0 DEF FirstBytes
  <2> QED
    BY <2>1, <2>2
<1>3. b \in [1 .. n -> D]
  BY <1>0, <1>2 DEF FirstBytes
<1>4. b \in Seq(D) /\ Len(b) = n
  BY <1>3
<1>5. text \in Seq(Seq(D))
  <2>1. ASSUME NEW d \in D PROVE <<d>> \in Seq(D)
    OBVIOUS
  <2>2. {<<d>> : d \in D} \subseteq Seq(D)
    BY <2>1
  <2> QED
    BY <1>0, <2>2, SeqMonotonic
<1>6. PICK f : f \in [0 .. Len(text) -> Seq(D)] /\ Flattens(f, text)
  BY <1>5, FlattenRun
<1>7. \A i \in 1 .. n : f[i] = Cat(f[i - 1], text[i])
  BY <1>0, <1>6 DEF Flattens
<1> HIDE DEF b
<1>8. \A k \in 0 .. n : f[k] = SubSeq(b, 1, k)
  <2> DEFINE a == [k \in 0 .. n |-> SubSeq(b, 1, k)]
  <2>1. a[0] = <<>> /\ f[0] = <<>>
    BY <1>6 DEF Flattens
  <2>2. ASSUME NEW i \in 0 + 1 .. n, f[i - 1] = a[i - 1] PROVE f[i] = a[i]
    <3>1. f[i] = Cat(a[i - 1], <<b[i]>>)
      <4> HIDE DEF a
      <4>1. i \in 1 .. n
        OBVIOUS
      <4> QED
        BY <1>2, <1>7, <2>2, <4>1
    <3>2. a[i - 1] = SubSeq(b, 1, i - 1) /\ a[i] = SubSeq(b, 1, i)
      OBVIOUS
    <3>3. SubSeq(b, 1, i) = SubSeq(b, 1, i - 1) \o <<b[i]>>
      <4>1. 1 \in 1 .. Len(b) /\ i \in 1 .. Len(b)
        BY <1>4
      <4> QED
        BY <1>4, <4>1, SubSeqRecursiveSecond
    <3> QED
      BY <3>1, <3>2, <3>3 DEF Cat
  <2> HIDE DEF a
  <2>3. \A k \in 0 .. n : f[k] = a[k]
    <3>1. f[0] = a[0]
      BY <2>1
    <3> QED
      BY ONLY n \in Nat, <2>2, <3>1, RunsAgree
  <2> QED
    BY <2>3 DEF a
<1>9. FlattenSeq(text) = b
  <2>1. FlattenSeq(text) = f[n]
    BY <1>0, <1>6 DEF Flattens
  <2>2. SubSeq(b, 1, n) = b
    BY <1>4, SubSeqFull
  <2>3. n \in 0 .. n
    OBVIOUS
  <2> QED
    BY <1>8, <2>1, <2>2, <2>3
<1> QED
  BY <1>2, <1>4, <1>9 DEF b

------------------------------------------------------------------------------
\* The Luhn sum.
LuhnRun(s, p, n) ==
    /\ s \in [0 .. n -> Int] /\ s[0] = 0
    /\ \A i \in 1 .. n : s[i] = s[i - 1] + LuhnTerm(p[i], (n - i) % 2 = 1)

Doubled(d) == IF d <= 4 THEN 2 * d ELSE 2 * d - 9

LEMMA LuhnTerms == \A d \in Digit : LuhnTerm(d, FALSE) = d /\ LuhnTerm(d, TRUE) = Doubled(d)
  BY DEF LuhnTerm, Doubled, Digit

\* luhnValid adds up the terms of the digits.
LEMMA LuhnRunExists ==
    ASSUME NEW n \in Nat, NEW p, Len(p) = n, \A i \in 1 .. n : p[i] \in Digit
    PROVE  \E s : LuhnRun(s, p, n) /\ (luhnValid(p) <=> s[n] % 10 = 0)
<1> DEFINE Term(i) == LuhnTerm(p[i], (n - i) % 2 = 1)
           G == [i \in 1 .. n |-> [v \in Int |-> v + Term(i)]]
           Sums(s) == s = [i \in 0 .. n |-> IF i = 0 THEN 0 ELSE s[i - 1] + Term(i)]
<1>1. \A i \in 1 .. n : Term(i) \in Int
  BY DEF LuhnTerm, Digit
<1> HIDE DEF Term
<1>2. \A v \in Int, i \in 0 + 1 .. n : G[i][v] = v + Term(i) /\ G[i][v] \in Int
  BY <1>1
<1> HIDE DEF G
<1>3. 0 \in Int /\ n \in Int /\ 0 <= n
  OBVIOUS
<1>4. PICK r : r \in [0 .. n -> Int] /\ Run(r, 0, n, 0, G)
  <2>1. \E s \in [0 .. n -> Int] : Run(s, 0, n, 0, G)
    BY <1>2, <1>3, RunExists, Zenon
  <2> QED
    BY <2>1
<1>5. \A i \in 0 .. n : r[i] = IF i = 0 THEN 0 ELSE r[i - 1] + Term(i)
  <2>1. \A i \in 0 .. n : r[i] \in Int /\ r[i] = IF i = 0 THEN 0 ELSE G[i][r[i - 1]]
    BY <1>4 DEF Run
  <2>2. ASSUME NEW i \in 0 .. n, i # 0 PROVE r[i] = r[i - 1] + Term(i)
    <3>1. r[i - 1] \in Int /\ i \in 0 + 1 .. n /\ r[i] = G[i][r[i - 1]]
      BY <2>1, <2>2
    <3> QED
      BY <1>2, <3>1
  <2> QED
    BY <2>1, <2>2
<1>6. Sums(r)
  BY <1>4, <1>5
<1> DEFINE s == CHOOSE s : Sums(s)
<1>7. Sums(s)
  <2> HIDE DEF Sums
  <2> QED
    BY <1>6
<1>8. luhnValid(p) <=> s[n] % 10 = 0
  BY ZenonT(30) DEF luhnValid, Term
<1> HIDE DEF s
<1>9. s[0] = 0 /\ \A i \in 1 .. n : s[i] = s[i - 1] + Term(i)
  BY <1>7
<1>10. \A i \in 0 .. n : s[i] = r[i]
  <2>1. s[0] = r[0] /\ \A i \in 0 + 1 .. n : s[i - 1] = r[i - 1] => s[i] = r[i]
    BY <1>5, <1>9
  <2> QED
    BY ONLY <1>3, <2>1, RunsAgree
<1>11. s \in [0 .. n -> Int]
  <2>1. DOMAIN s = 0 .. n /\ s = [i \in 0 .. n |-> s[i]]
    BY <1>7
  <2> QED
    BY <1>4, <1>10, <2>1
<1>12. LuhnRun(s, p, n)
  BY <1>9, <1>11 DEF LuhnRun, Term
<1> QED
  BY <1>8, <1>12

\* Where two numbers agree their sums grow alike.
LEMMA LuhnSame ==
    ASSUME NEW n \in Nat, NEW p, NEW q, NEW s, NEW t, LuhnRun(s, p, n), LuhnRun(t, q, n),
           NEW lo \in 0 .. n, NEW hi \in lo .. n, \A j \in lo + 1 .. hi : p[j] = q[j],
           \A j \in 1 .. n : p[j] \in Digit /\ q[j] \in Digit
    PROVE  t[hi] - t[lo] = s[hi] - s[lo]
<1> DEFINE a == [k \in lo .. hi |-> t[k] - t[lo]]
           b == [k \in lo .. hi |-> s[k] - s[lo]]
           Term(r, i) == LuhnTerm(r[i], (n - i) % 2 = 1)
<1>1. \A k \in 0 .. n : s[k] \in Int /\ t[k] \in Int
  BY DEF LuhnRun
<1>2. \A i \in 1 .. n : s[i] = s[i - 1] + Term(p, i) /\ t[i] = t[i - 1] + Term(q, i)
  BY DEF LuhnRun
<1>3. \A i \in 1 .. n : Term(p, i) \in Int /\ Term(q, i) \in Int
  BY DEF LuhnTerm, Digit
<1>4. \A i \in lo + 1 .. hi : Term(p, i) = Term(q, i)
  OBVIOUS
<1> HIDE DEF Term
<1>5. a[lo] = b[lo]
  BY <1>1
<1>6. ASSUME NEW i \in lo + 1 .. hi, a[i - 1] = b[i - 1] PROVE a[i] = b[i]
  <2>1. i \in 1 .. n /\ i - 1 \in lo .. hi /\ i \in lo .. hi /\ i - 1 \in 0 .. n
    OBVIOUS
  <2>2. s[i] = s[i - 1] + Term(p, i) /\ t[i] = t[i - 1] + Term(p, i) /\ Term(p, i) \in Int
    BY <1>2, <1>3, <1>4, <2>1
  <2>3. t[i - 1] - t[lo] = s[i - 1] - s[lo]
    BY <1>6, <2>1
  <2>4. t[i] - t[lo] = s[i] - s[lo]
    BY <1>1, <2>1, <2>2, <2>3
  <2> QED
    BY <2>1, <2>4
<1> HIDE DEF a, b
<1>7. \A i \in lo .. hi : a[i] = b[i]
  <2>1. lo \in Int /\ hi \in Int
    OBVIOUS
  <2> QED
    BY <1>5, <1>6, <2>1, RunsAgree
<1> QED
  BY <1>7 DEF a, b

\* A wrong digit changes the sum by less than ten, and so does a swap of two
\* neighbours; only 0 and 9 make no difference.
Small == (-9 .. 9) \ {0}

LEMMA DoubledDiffers ==
    ASSUME NEW d \in 0 .. 9, NEW e \in 0 .. 9, d # e
    PROVE  /\ Doubled(e) - Doubled(d) \in Small /\ e - d \in Small
           /\ ~(d = 0 /\ e = 9) /\ ~(d = 9 /\ e = 0) =>
                 /\ Doubled(e) + d - Doubled(d) - e \in Small
                 /\ e + Doubled(d) - d - Doubled(e) \in Small
  BY DEF Doubled, Small

LEMMA LuhnTermsDiffer ==
    \A d, e \in Digit, alt \in BOOLEAN : d # e =>
        /\ LuhnTerm(e, alt) - LuhnTerm(d, alt) \in Small
        /\ {d, e} # {0, 9} =>
              LuhnTerm(e, alt) + LuhnTerm(d, ~alt) - LuhnTerm(d, alt) - LuhnTerm(e, ~alt) \in Small
<1> SUFFICES ASSUME NEW d \in Digit, NEW e \in Digit, NEW alt \in BOOLEAN, d # e
    PROVE  /\ LuhnTerm(e, alt) - LuhnTerm(d, alt) \in Small
           /\ {d, e} # {0, 9} =>
                 LuhnTerm(e, alt) + LuhnTerm(d, ~alt) - LuhnTerm(d, alt) - LuhnTerm(e, ~alt) \in Small
  OBVIOUS
<1>1. /\ LuhnTerm(d, FALSE) = d /\ LuhnTerm(d, TRUE) = Doubled(d)
      /\ LuhnTerm(e, FALSE) = e /\ LuhnTerm(e, TRUE) = Doubled(e)
  BY LuhnTerms, Zenon
<1>2. Doubled(e) - Doubled(d) \in Small /\ e - d \in Small
  BY DoubledDiffers DEF Digit
<1>3. {d, e} # {0, 9} => /\ Doubled(e) + d - Doubled(d) - e \in Small
                         /\ e + Doubled(d) - d - Doubled(e) \in Small
  <2> SUFFICES ASSUME {d, e} # {0, 9}
               PROVE  /\ Doubled(e) + d - Doubled(d) - e \in Small
                      /\ e + Doubled(d) - d - Doubled(e) \in Small
    OBVIOUS
  <2>1. ~(d = 0 /\ e = 9) /\ ~(d = 9 /\ e = 0)
    OBVIOUS
  <2> QED
    BY <2>1, DoubledDiffers DEF Digit
<1>4. CASE alt = TRUE
  <2>1. (~alt) = FALSE
    BY <1>4
  <2> QED
    BY <1>1, <1>2, <1>3, <1>4, <2>1, Zenon
<1>5. CASE alt = FALSE
  <2>1. (~alt) = TRUE
    BY <1>5
  <2> QED
    BY <1>1, <1>2, <1>3, <1>5, <2>1, Zenon
<1> QED
  BY <1>4, <1>5

\* Such a change shows in the last digit of the sum.
LEMMA SmallShows == \A m \in Int, c \in Small : m % 10 = 0 => (m + c) % 10 # 0
  BY DEF Small

\* One digit of a number that was accepted is wrong.
LEMMA LuhnWrongDigit ==
    ASSUME NEW n \in Nat, NEW p, NEW q, Len(p) = n, Len(q) = n, luhnValid(p),
           \A j \in 1 .. n : p[j] \in Digit /\ q[j] \in Digit,
           NEW i \in 1 .. n, p[i] # q[i], \A j \in 1 .. n : j # i => p[j] = q[j]
    PROVE  ~luhnValid(q)
<1>1. PICK s : LuhnRun(s, p, n) /\ (luhnValid(p) <=> s[n] % 10 = 0)
  BY LuhnRunExists
<1>2. PICK t : LuhnRun(t, q, n) /\ (luhnValid(q) <=> t[n] % 10 = 0)
  BY LuhnRunExists
<1>3. t[i - 1] - t[0] = s[i - 1] - s[0] /\ t[n] - t[i] = s[n] - s[i]
  <2>1. 0 \in 0 .. n /\ i - 1 \in 0 .. n /\ i \in 0 .. n /\ n \in i .. n
    OBVIOUS
  <2>2. t[i - 1] - t[0] = s[i - 1] - s[0]
    BY <1>1, <1>2, <2>1, LuhnSame
  <2>3. t[n] - t[i] = s[n] - s[i]
    BY <1>1, <1>2, <2>1, LuhnSame
  <2> QED
    BY <2>2, <2>3
<1> DEFINE alt == (n - i) % 2 = 1
           dp == LuhnTerm(p[i], alt)
           dq == LuhnTerm(q[i], alt)
<1>4. s[i] = s[i - 1] + dp /\ t[i] = t[i - 1] + dq /\ s[0] = 0 /\ t[0] = 0
  BY <1>1, <1>2 DEF LuhnRun
<1>5. dq - dp \in Small
  <2>1. alt \in BOOLEAN
    OBVIOUS
  <2> HIDE DEF alt
  <2> QED
    BY <2>1, LuhnTermsDiffer
<1>6. dp \in Int /\ dq \in Int
  BY DEF LuhnTerm, Digit
<1>7. /\ s[0] \in Int /\ s[i - 1] \in Int /\ s[i] \in Int /\ s[n] \in Int
      /\ t[0] \in Int /\ t[i - 1] \in Int /\ t[i] \in Int /\ t[n] \in Int
  <2>1. i - 1 \in 0 .. n /\ i \in 0 .. n /\ n \in 0 .. n /\ 0 \in 0 .. n
    OBVIOUS
  <2> QED
    BY <1>1, <1>2, <2>1 DEF LuhnRun
<1> HIDE DEF dp, dq
<1>8. t[n] = s[n] + (dq - dp)
  BY ONLY <1>3, <1>4, <1>6, <1>7
<1>9. s[n] % 10 = 0
  BY <1>1
<1>10. t[n] % 10 # 0
  BY ONLY <1>5, <1>7, <1>8, <1>9, SmallShows
<1> QED
  BY <1>2, <1>10

\* Two neighbours of a number that was accepted are swapped.
LEMMA LuhnSwap ==
    ASSUME NEW n \in Nat, NEW p, NEW q, Len(p) = n, Len(q) = n, luhnValid(p),
           \A j \in 1 .. n : p[j] \in Digit /\ q[j] \in Digit,
           NEW i \in 1 .. n - 1, p[i] # p[i + 1], {p[i], p[i + 1]} # {0, 9},
           q[i] = p[i + 1], q[i + 1] = p[i],
           \A j \in 1 .. n : j \notin {i, i + 1} => p[j] = q[j]
    PROVE  ~luhnValid(q)
<1>1. PICK s : LuhnRun(s, p, n) /\ (luhnValid(p) <=> s[n] % 10 = 0)
  BY LuhnRunExists
<1>2. PICK t : LuhnRun(t, q, n) /\ (luhnValid(q) <=> t[n] % 10 = 0)
  BY LuhnRunExists
<1>3. t[i - 1] - t[0] = s[i - 1] - s[0] /\ t[n] - t[i + 1] = s[n] - s[i + 1]
  <2>1. 0 \in 0 .. n /\ i - 1 \in 0 .. n /\ i + 1 \in 0 .. n /\ n \in i + 1 .. n
    OBVIOUS
  <2>2. t[i - 1] - t[0] = s[i - 1] - s[0]
    BY <1>1, <1>2, <2>1, LuhnSame
  <2>3. t[n] - t[i + 1] = s[n] - s[i + 1]
    BY <1>1, <1>2, <2>1, LuhnSame
  <2> QED
    BY <2>2, <2>3
<1> DEFINE alt == (n - i) % 2 = 1
           x == p[i]
           y == p[i + 1]
           xHere == LuhnTerm(x, alt)
           xNext == LuhnTerm(x, ~alt)
           yHere == LuhnTerm(y, alt)
           yNext == LuhnTerm(y, ~alt)
<1>4. ((n - (i + 1)) % 2 = 1) <=> ~alt
  OBVIOUS
<1>5. ((n - (i + 1)) % 2 = 1) = ~alt
  BY <1>4
<1>6. /\ s[i] = s[i - 1] + xHere /\ s[i + 1] = s[i] + yNext
      /\ t[i] = t[i - 1] + yHere /\ t[i + 1] = t[i] + xNext
      /\ s[0] = 0 /\ t[0] = 0
  <2>1. i \in 1 .. n /\ i + 1 \in 1 .. n /\ (i + 1) - 1 = i
    OBVIOUS
  <2>2. /\ s[i] = s[i - 1] + xHere /\ t[i] = t[i - 1] + yHere
        /\ s[0] = 0 /\ t[0] = 0
    BY <1>1, <1>2, <2>1 DEF LuhnRun
  <2>3. /\ s[i + 1] = s[i] + LuhnTerm(y, (n - (i + 1)) % 2 = 1)
        /\ t[i + 1] = t[i] + LuhnTerm(x, (n - (i + 1)) % 2 = 1)
    BY <1>1, <1>2, <2>1 DEF LuhnRun
  <2> QED
    BY <1>5, <2>2, <2>3
<1>7. /\ yHere + xNext - xHere - yNext \in Small
      /\ xHere \in Int /\ xNext \in Int /\ yHere \in Int /\ yNext \in Int
  <2>1. alt \in BOOLEAN /\ (~alt) \in BOOLEAN /\ x \in Digit /\ y \in Digit
    <3>1. i \in 1 .. n /\ i + 1 \in 1 .. n
      OBVIOUS
    <3> QED
      BY <3>1
  <2> HIDE DEF alt
  <2>2. \A d \in Digit, b \in BOOLEAN : LuhnTerm(d, b) \in Int
    BY DEF LuhnTerm, Digit
  <2> QED
    BY <2>1, <2>2, LuhnTermsDiffer
<1>8. /\ s[0] \in Int /\ s[i - 1] \in Int /\ s[i] \in Int /\ s[i + 1] \in Int /\ s[n] \in Int
      /\ t[0] \in Int /\ t[i - 1] \in Int /\ t[i] \in Int /\ t[i + 1] \in Int /\ t[n] \in Int
  <2>1. i - 1 \in 0 .. n /\ i \in 0 .. n /\ i + 1 \in 0 .. n /\ n \in 0 .. n /\ 0 \in 0 .. n
    OBVIOUS
  <2> QED
    BY <1>1, <1>2, <2>1 DEF LuhnRun
<1> HIDE DEF alt, x, y, xHere, xNext, yHere, yNext
<1>9. t[n] = s[n] + (yHere + xNext - xHere - yNext)
  <2> DEFINE a == s[i - 1]
             b == t[i - 1]
             c == s[i + 1]
             d == t[i + 1]
             e == s[n]
             f == t[n]
  <2>1. /\ a \in Int /\ b \in Int /\ c \in Int /\ d \in Int /\ e \in Int /\ f \in Int
        /\ xHere \in Int /\ xNext \in Int /\ yHere \in Int /\ yNext \in Int
    BY ONLY <1>7, <1>8
  <2>2. a = b
    BY ONLY <1>3, <1>6, <1>8
  <2>3. c = a + xHere + yNext /\ d = b + yHere + xNext
    BY ONLY <1>6, <1>7, <1>8
  <2>4. f - d = e - c
    BY ONLY <1>3
  <2> HIDE DEF a, b, c, d, e, f
  <2>5. f = e + (yHere + xNext - xHere - yNext)
    BY ONLY <2>1, <2>2, <2>3, <2>4
  <2> QED
    BY <2>5 DEF e, f
<1>10. s[n] % 10 = 0 /\ s[n] \in Int
  BY <1>1, <1>8
<1>11. t[n] % 10 # 0
  BY ONLY <1>7, <1>8, <1>9, <1>10, SmallShows
<1> QED
  BY <1>2, <1>11

\* There is a last digit with which a number is accepted.
LEMMA LuhnCheckDigit ==
    ASSUME NEW n \in Nat \ {0}, NEW p, Len(p) = n, \A j \in 1 .. n : p[j] \in Digit
    PROVE  \E d \in Digit : \A q : Len(q) = n /\ q[n] = d /\ (\A j \in 1 .. n - 1 : q[j] = p[j])
                                       => luhnValid(q)
<1>1. PICK s : LuhnRun(s, p, n)
  BY LuhnRunExists
<1>2. s[n - 1] \in Int
  BY <1>1 DEF LuhnRun
<1>3. PICK d \in Digit : (s[n - 1] + d) % 10 = 0
  <2>1. PICK m \in Int : m = s[n - 1]
    BY <1>2
  <2> DEFINE d == (10 - (m % 10)) % 10
  <2>2. d \in Digit /\ (m + d) % 10 = 0
    BY DEF Digit
  <2> HIDE DEF d
  <2> QED
    BY <2>1, <2>2
<1> SUFFICES ASSUME NEW q, Len(q) = n, q[n] = d, \A j \in 1 .. n - 1 : q[j] = p[j]
             PROVE  luhnValid(q)
  OBVIOUS
<1>4. \A j \in 1 .. n : q[j] \in Digit
  OBVIOUS
<1>5. PICK t : LuhnRun(t, q, n) /\ (luhnValid(q) <=> t[n] % 10 = 0)
  BY <1>4, LuhnRunExists
<1>6. t[n - 1] - t[0] = s[n - 1] - s[0]
  <2>1. 0 \in 0 .. n /\ n - 1 \in 0 .. n /\ \A j \in 0 + 1 .. n - 1 : p[j] = q[j]
    OBVIOUS
  <2> QED
    BY <1>1, <1>4, <1>5, <2>1, LuhnSame
<1>7. t[n] = t[n - 1] + d
  <2>1. ((n - n) % 2 = 1) = FALSE
    OBVIOUS
  <2>2. t[n] = t[n - 1] + LuhnTerm(q[n], (n - n) % 2 = 1)
    BY <1>5 DEF LuhnRun
  <2>3. LuhnTerm(q[n], FALSE) = d
    BY LuhnTerms
  <2> QED
    BY <2>1, <2>2, <2>3
<1>8. t[n] = s[n - 1] + d
  BY <1>1, <1>2, <1>5, <1>6, <1>7 DEF LuhnRun
<1> QED
  BY <1>3, <1>5, <1>8

\* Texts that were accepted, and what becomes of one when it is mistyped.
LEMMA AcceptedDigits ==
    \A text \in Seq(SingleDigit) \ {<<>>} : PANAccepted(text) <=> luhnValid(FirstBytes(text))
<1> SUFFICES ASSUME NEW text \in Seq(SingleDigit) \ {<<>>}
             PROVE  PANAccepted(text) <=> luhnValid(FirstBytes(text))
  OBVIOUS
<1>1. FlattenSeq(text) = FirstBytes(text)
  BY FlattenSingles DEF SingleDigit
<1>2. isDigits(text)
  <2>1. \A i \in DOMAIN text : text[i] \in SingleDigit
    OBVIOUS
  <2> QED
    BY <2>1 DEF isDigits, SingleDigit
<1> QED
  BY <1>1, <1>2 DEF PANAccepted, BytesOf

LEMMA FirstBytesAt ==
    ASSUME NEW text, NEW n \in Nat, Len(text) = n, text \in Seq(SingleDigit)
    PROVE  /\ FirstBytes(text) \in Seq(Digit) /\ Len(FirstBytes(text)) = n
           /\ \A i \in 1 .. n : /\ FirstBytes(text)[i] \in Digit
                               /\ text[i] = <<FirstBytes(text)[i]>>
  BY FlattenSingles DEF SingleDigit

\* CreateCard's check catches every mistyped digit and every swap it can
\* (LuhnCatchesTypos), in numbers of any length.
THEOREM TyposCaught == Spec => []LuhnCatchesTypos
<1>1. ASSUME Answered PROVE LuhnCatchesTypos
  <2> SUFFICES ASSUME NEW pan \in Seq(SingleDigit) \ {<<>>}, NEW n \in Nat, n = Len(pan)
      PROVE  /\ PANAccepted(pan) =>
                 /\ \A i \in 1 .. n, d \in Digit :
                       <<d>> # pan[i] => ~PANAccepted([pan EXCEPT ![i] = <<d>>])
                 /\ \A i \in 1 .. n - 1 :
                       pan[i] # pan[i + 1] /\ {pan[i], pan[i + 1]} # {<< 0 >>, << 9 >>}
                         => ~PANAccepted([pan EXCEPT ![i] = pan[i + 1], ![i + 1] = pan[i]])
             /\ \E d \in Digit : PANAccepted([pan EXCEPT ![n] = <<d>>])
    <3>1. \A text \in Seq(SingleDigit) : Len(text) \in Nat
      OBVIOUS
    <3> QED
      BY <1>1, <3>1, Zenon DEF LuhnCatchesTypos, Answered, AnswerIs, SingleDigit
  <2> DEFINE p == FirstBytes(pan)
  <2>1. Len(p) = n /\ \A i \in 1 .. n : p[i] \in Digit /\ pan[i] = <<p[i]>>
    BY FirstBytesAt
  <2>2. PANAccepted(pan) <=> luhnValid(p)
    BY AcceptedDigits
  <2>3. n \in Nat \ {0}
    OBVIOUS
  \* One digit replaced.
  <2>4. ASSUME NEW i \in 1 .. n, NEW d \in Digit
        PROVE  \E q : /\ Len(q) = n /\ (\A j \in 1 .. n : q[j] \in Digit)
                      /\ q[i] = d /\ (\A j \in 1 .. n : j # i => q[j] = p[j])
                      /\ PANAccepted([pan EXCEPT ![i] = <<d>>]) <=> luhnValid(q)
    <3> DEFINE text == [pan EXCEPT ![i] = <<d>>]
    <3>1. <<d>> \in SingleDigit
      BY DEF SingleDigit
    <3>2. /\ text \in Seq(SingleDigit) \ {<<>>} /\ Len(text) = n
          /\ text[i] = <<d>> /\ \A j \in 1 .. n : j # i => text[j] = pan[j]
      BY <3>1, <2>3
    <3> HIDE DEF text
    <3>3. /\ Len(FirstBytes(text)) = n
          /\ \A j \in 1 .. n : /\ FirstBytes(text)[j] \in Digit
                              /\ text[j] = <<FirstBytes(text)[j]>>
      BY <3>2, FirstBytesAt
    <3>4. PANAccepted(text) <=> luhnValid(FirstBytes(text))
      BY <3>2, AcceptedDigits
    <3>5. FirstBytes(text)[i] = d
      BY <3>2, <3>3
    <3>6. \A j \in 1 .. n : j # i => FirstBytes(text)[j] = p[j]
      <4> SUFFICES ASSUME NEW j \in 1 .. n, j # i PROVE FirstBytes(text)[j] = p[j]
        OBVIOUS
      <4>1. <<FirstBytes(text)[j]>> = <<p[j]>>
        BY <2>1, <3>2, <3>3
      <4> QED
        BY <4>1
    <3> QED
      BY <3>3, <3>4, <3>5, <3>6 DEF text
  <2> HIDE DEF p
  <2>5. ASSUME PANAccepted(pan), NEW i \in 1 .. n, NEW d \in Digit, <<d>> # pan[i]
        PROVE  ~PANAccepted([pan EXCEPT ![i] = <<d>>])
    <3>1. PICK q : /\ Len(q) = n /\ (\A j \in 1 .. n : q[j] \in Digit)
                   /\ q[i] = d /\ (\A j \in 1 .. n : j # i => q[j] = p[j])
                   /\ PANAccepted([pan EXCEPT ![i] = <<d>>]) <=> luhnValid(q)
      BY <2>4
    <3>2. p[i] # q[i]
      BY <2>1, <2>5, <3>1
    <3>3. ~luhnValid(q)
      BY <2>1, <2>2, <2>5, <3>1, <3>2, LuhnWrongDigit
    <3> QED
      BY <3>1, <3>3
  \* Two neighbours swapped.
  <2>6. ASSUME PANAccepted(pan), NEW i \in 1 .. n - 1, pan[i] # pan[i + 1],
               {pan[i], pan[i + 1]} # {<< 0 >>, << 9 >>}
        PROVE  ~PANAccepted([pan EXCEPT ![i] = pan[i + 1], ![i + 1] = pan[i]])
    <3> DEFINE text == [pan EXCEPT ![i] = pan[i + 1], ![i + 1] = pan[i]]
               q == FirstBytes(text)
    <3>1. /\ text \in Seq(SingleDigit) \ {<<>>} /\ Len(text) = n
          /\ text[i] = pan[i + 1] /\ text[i + 1] = pan[i]
          /\ \A j \in 1 .. n : j \notin {i, i + 1} => text[j] = pan[j]
      <4>1. pan[i] \in SingleDigit /\ pan[i + 1] \in SingleDigit
        OBVIOUS
      <4> QED
        BY <4>1, <2>3
    <3> HIDE DEF text
    <3>2. Len(q) = n /\ \A j \in 1 .. n : q[j] \in Digit /\ text[j] = <<q[j]>>
      BY <3>1, FirstBytesAt
    <3>3. PANAccepted(text) <=> luhnValid(q)
      BY <3>1, AcceptedDigits
    <3> HIDE DEF q
    <3>4. i \in 1 .. n /\ i + 1 \in 1 .. n
      OBVIOUS
    <3>5. /\ <<q[i]>> = <<p[i + 1]>> /\ <<q[i + 1]>> = <<p[i]>>
          /\ \A j \in 1 .. n : j \notin {i, i + 1} => <<q[j]>> = <<p[j]>>
      BY <2>1, <3>1, <3>2, <3>4
    <3>6. /\ q[i] = p[i + 1] /\ q[i + 1] = p[i]
          /\ \A j \in 1 .. n : j \notin {i, i + 1} => p[j] = q[j]
      BY <3>5
    <3>7. p[i] # p[i + 1] /\ {p[i], p[i + 1]} # {0, 9}
      <4>1. pan[i] = <<p[i]>> /\ pan[i + 1] = <<p[i + 1]>>
        BY <2>1, <3>4
      <4> QED
        BY <2>6, <4>1
    <3>8. ~luhnValid(q)
      BY <2>1, <2>2, <2>6, <3>2, <3>6, <3>7, LuhnSwap
    <3> QED
      BY <3>3, <3>8 DEF text
  \* One last digit fits.
  <2>7. \E d \in Digit : PANAccepted([pan EXCEPT ![n] = <<d>>])
    <3>1. PICK d \in Digit : \A q : Len(q) = n /\ q[n] = d /\ (\A j \in 1 .. n - 1 : q[j] = p[j])
                                      => luhnValid(q)
      BY <2>1, <2>3, LuhnCheckDigit
    <3>. n \in 1 .. n
      BY <2>3
    <3>2. PICK q : /\ Len(q) = n /\ (\A j \in 1 .. n : q[j] \in Digit)
                   /\ q[n] = d /\ (\A j \in 1 .. n : j # n => q[j] = p[j])
                   /\ PANAccepted([pan EXCEPT ![n] = <<d>>]) <=> luhnValid(q)
      BY <2>4, Zenon
    <3>3. \A j \in 1 .. n - 1 : q[j] = p[j]
      BY <3>2
    <3>4. luhnValid(q)
      BY <3>1, <3>2, <3>3
    <3> QED
      BY <3>2, <3>4
  <2> QED
    BY <2>5, <2>6, <2>7
<1> QED
  BY <1>1, AnsweredInvariant, PTL

------------------------------------------------------------------------------
\* What is known of the argument of a call.
LEMMA Arguments ==
    ASSUME call \in Calls
    PROVE  /\ call.fn = "expiry" =>
                  /\ call.text \in Dates
                  /\ call.now \in {Instants * m + k : m \in Months, k \in 0 .. Instants - 1}
           /\ call.fn = "scheme" => call.start \in Starts /\ call.length \in Lengths
           /\ call.fn = "amount" => call.bytes \in Amounts
           /\ call.fn = "build" => call.tags \in TagLists
           /\ call.fn = "parse" => call.data \in UpTo(Bytes, MaxData)
           /\ call.fn = "stream" => call.stream \in Streams
           /\ call.fn = "code" => /\ call.type \in TransactionType
                                  /\ call.from \in AccountType \cup {<<>>}
                                  /\ call.to \in AccountType \cup {<<>>}
<1> DEFINE Nows == {Instants * m + k : m \in Months, k \in 0 .. Instants - 1}
           Data == UpTo(Bytes, MaxData)
           AccountOrNone == AccountType \cup {<<>>}
<1> HIDE DEF Nows, Data, AccountOrNone
<1>1. call \in  [fn : {"pan"}, text : PANs] \cup [fn : {"expiry"}, text : Dates, now : Nows]
          \cup [fn : {"scheme"}, start : Starts, length : Lengths]
          \cup [fn : {"amount"}, bytes : Amounts] \cup [fn : {"build"}, tags : TagLists]
          \cup [fn : {"parse"}, data : Data]
          \cup [fn : {"code"}, type : TransactionType, from : AccountOrNone, to : AccountOrNone]
          \cup [fn : {"stream"}, stream : Streams]
  BY DEF Calls, Nows, Data, AccountOrNone
<1>2. /\ call.fn = "expiry" => call.text \in Dates /\ call.now \in Nows
      /\ call.fn = "stream" => call.stream \in Streams
      /\ call.fn = "scheme" => call.start \in Starts /\ call.length \in Lengths
      /\ call.fn = "amount" => call.bytes \in Amounts
      /\ call.fn = "build" => call.tags \in TagLists
      /\ call.fn = "parse" => call.data \in Data
      /\ call.fn = "code" => /\ call.type \in TransactionType
                             /\ call.from \in AccountOrNone /\ call.to \in AccountOrNone
  BY <1>1
<1> QED
  BY <1>2 DEF Nows, Data, AccountOrNone

------------------------------------------------------------------------------
\* Processing codes.  The two tables of proccode.go have the same entries.
Pair == {<<a, b>> : a, b \in 0 .. 9}

LEMMA CodesListed == \A t \in TransactionType : TxCode(t) \in Pair /\ TxCode(t) = Listed[t]
<1>0. SUFFICES ASSUME NEW t \in TransactionType
               PROVE  \E a, b \in 0 .. 9 : TxCode(t) = <<a, b>> /\ Listed[t] = <<a, b>>
  BY DEF Pair
<1>1. CASE t \in {"PURCHASE", "PREAUTH", "PREAUTH_COMPLETION", "CARD_VERIFICATION"}
  <2>1. TxCode(t) = <<0, 0>> /\ Listed[t] = <<0, 0>>
    BY <1>1 DEF TxCode, Listed
  <2> QED
    BY <2>1
<1>2. CASE t \in {"PURCHASE_CASHBACK", "CASH_WITHDRAWAL", "CASH_ADVANCE", "REVERSAL", "ADJUSTMENT"}
  <2>1. \/ TxCode(t) = <<0, 9>> /\ Listed[t] = <<0, 9>>
        \/ TxCode(t) = <<0, 1>> /\ Listed[t] = <<0, 1>>
        \/ TxCode(t) = <<0, 2>> /\ Listed[t] = <<0, 2>>
    BY <1>2 DEF TxCode, Listed
  <2> QED
    BY <2>1
<1>3. CASE t \in {"PURCHASE_RETURN", "REFUND", "CASH_DEPOSIT", "ORIGINAL_CREDIT"}
  <2>1. \/ TxCode(t) = <<2, 0>> /\ Listed[t] = <<2, 0>>
        \/ TxCode(t) = <<2, 1>> /\ Listed[t] = <<2, 1>>
        \/ TxCode(t) = <<2, 6>> /\ Listed[t] = <<2, 6>>
    BY <1>3 DEF TxCode, Listed
  <2> QED
    BY <2>1
<1>4. CASE t \in {"BALANCE_INQUIRY", "MINI_STATEMENT", "PAYMENT", "TRANSFER", "ACCOUNT_VERIFICATION"}
  <2>1. \/ TxCode(t) = <<3, 1>> /\ Listed[t] = <<3, 1>>
        \/ TxCode(t) = <<3, 8>> /\ Listed[t] = <<3, 8>>
        \/ TxCode(t) = <<4, 0>> /\ Listed[t] = <<4, 0>>
        \/ TxCode(t) = <<9, 3>> /\ Listed[t] = <<9, 3>>
    BY <1>4 DEF TxCode, Listed
  <2> QED
    BY <2>1
<1> QED
  BY <1>1, <1>2, <1>3, <1>4 DEF TransactionType

\* Sequences of two elements.
LEMMA PairIs == \A s \in Seq(Nat) : Len(s) = 2 => s = <<s[1], s[2]>>
  OBVIOUS

LEMMA PairElements ==
    \A s \in Pair : s \in Seq(Nat) /\ Len(s) = 2 /\ s[1] \in 0 .. 9 /\ s[2] \in 0 .. 9
<1> SUFFICES ASSUME NEW a \in 0 .. 9, NEW b \in 0 .. 9, NEW s, s = <<a, b>>
             PROVE  s \in Seq(Nat) /\ Len(s) = 2 /\ s[1] \in 0 .. 9 /\ s[2] \in 0 .. 9
  BY DEF Pair
<1> QED
  OBVIOUS

LEMMA PairsEqual ==
    \A s, t \in Seq(Nat) : Len(s) = 2 /\ Len(t) = 2 /\ s[1] = t[1] /\ s[2] = t[2] => s = t
  BY SMTT(30)

LEMMA PairTaken ==
    \A s \in Seq(Nat), m \in Nat \ {0} : m + 1 <= Len(s) =>
        /\ SubSeq(s, m, m + 1) \in Seq(Nat) /\ Len(SubSeq(s, m, m + 1)) = 2
        /\ SubSeq(s, m, m + 1)[1] = s[m] /\ SubSeq(s, m, m + 1)[2] = s[m + 1]
  OBVIOUS

LEMMA ConcatAt ==
    \A s, t \in Seq(Nat) :
        /\ s \o t \in Seq(Nat) /\ Len(s \o t) = Len(s) + Len(t)
        /\ \A i \in 1 .. Len(s) + Len(t) :
              (s \o t)[i] = IF i <= Len(s) THEN s[i] ELSE t[i - Len(s)]
  OBVIOUS

LEMMA PairsJoined ==
    ASSUME NEW a \in Nat, NEW b \in Nat, NEW c \in Nat, NEW d \in Nat
    PROVE  <<a, b>> \o <<c, d>> = <<a, b, c, d>>
<1> DEFINE s == <<a, b>> \o <<c, d>>
<1>1. <<a, b>> \in Seq(Nat) /\ <<c, d>> \in Seq(Nat) /\ <<a, b, c, d>> \in Seq(Nat)
  OBVIOUS
<1>2. /\ s \in Seq(Nat) /\ Len(s) = 4
      /\ \A i \in 1 .. 4 : s[i] = IF i <= 2 THEN <<a, b>>[i] ELSE <<c, d>>[i - 2]
  BY <1>1, ConcatProperties
<1>3. s[1] = a /\ s[2] = b /\ s[3] = c /\ s[4] = d
  BY <1>2
<1> HIDE DEF s
<1>4. s = <<a, b, c, d>>
  BY <1>1, <1>2, <1>3
<1> QED
  BY <1>4 DEF s

\* Three pairs put together are taken apart again.
LEMMA PairsApart ==
    ASSUME NEW p \in Pair, NEW q \in Pair, NEW r \in Pair
    PROVE  /\ ValidProcessingCode(p \o q \o r)
           /\ ParseProcessingCode(p \o q \o r) = [type |-> p, from |-> q, to |-> r]
<1>0. PICK four, code : four = p \o q /\ code = four \o r
  OBVIOUS
<1>1. /\ p \in Seq(Nat) /\ q \in Seq(Nat) /\ r \in Seq(Nat)
      /\ Len(p) = 2 /\ Len(q) = 2 /\ Len(r) = 2
      /\ p[1] \in 0 .. 9 /\ p[2] \in 0 .. 9 /\ q[1] \in 0 .. 9 /\ q[2] \in 0 .. 9
      /\ r[1] \in 0 .. 9 /\ r[2] \in 0 .. 9
  BY PairElements
<1>2. /\ four \in Seq(Nat) /\ Len(four) = Len(p) + Len(q)
      /\ \A i \in 1 .. Len(p) + Len(q) :
            four[i] = IF i <= Len(p) THEN p[i] ELSE q[i - Len(p)]
  BY <1>0, <1>1, ConcatAt, Zenon
<1>3. /\ code \in Seq(Nat) /\ Len(code) = Len(four) + Len(r)
      /\ \A i \in 1 .. Len(four) + Len(r) :
            code[i] = IF i <= Len(four) THEN four[i] ELSE r[i - Len(four)]
  BY <1>0, <1>1, <1>2, ConcatAt, Zenon
<1>4. /\ Len(four) = 4 /\ Len(code) = 6
      /\ four[1] = p[1] /\ four[2] = p[2] /\ four[3] = q[1] /\ four[4] = q[2]
  BY <1>1, <1>2, <1>3
<1>5. /\ code[1] = p[1] /\ code[2] = p[2] /\ code[3] = q[1] /\ code[4] = q[2]
      /\ code[5] = r[1] /\ code[6] = r[2]
  <2>1. Len(four) = 4 /\ Len(r) = 2 /\ Len(code) = 6
    BY <1>1, <1>4
  <2>2. \A i \in 1 .. 6 : code[i] = IF i <= 4 THEN four[i] ELSE r[i - 4]
    BY <1>3, <2>1
  <2> QED
    BY <1>4, <2>2
<1>6. ValidProcessingCode(code)
  <2>1. \A i \in 1 .. 6 : i = 1 \/ i = 2 \/ i = 3 \/ i = 4 \/ i = 5 \/ i = 6
    OBVIOUS
  <2>2. \A i \in 1 .. 6 : code[i] \in 0 .. 9
    BY <1>1, <1>5, <2>1
  <2> QED
    BY <1>4, <2>2 DEF ValidProcessingCode
<1>7. /\ SubSeq(code, 1, 2) \in Seq(Nat) /\ Len(SubSeq(code, 1, 2)) = 2
      /\ SubSeq(code, 1, 2)[1] = code[1] /\ SubSeq(code, 1, 2)[2] = code[2]
  <2>1. 1 \in Nat \ {0} /\ 1 + 1 <= Len(code) /\ 1 + 1 = 2
    BY <1>4
  <2> QED
    BY <1>3, <1>4, <2>1, PairTaken
<1>8. /\ SubSeq(code, 3, 4) \in Seq(Nat) /\ Len(SubSeq(code, 3, 4)) = 2
      /\ SubSeq(code, 3, 4)[1] = code[3] /\ SubSeq(code, 3, 4)[2] = code[4]
  <2>1. 3 \in Nat \ {0} /\ 3 + 1 <= Len(code) /\ 3 + 1 = 4
    BY <1>4
  <2> QED
    BY <1>3, <1>4, <2>1, PairTaken
<1>9. /\ SubSeq(code, 5, 6) \in Seq(Nat) /\ Len(SubSeq(code, 5, 6)) = 2
      /\ SubSeq(code, 5, 6)[1] = code[5] /\ SubSeq(code, 5, 6)[2] = code[6]
  <2>1. 5 \in Nat \ {0} /\ 5 + 1 <= Len(code) /\ 5 + 1 = 6
    BY <1>4
  <2> QED
    BY <1>3, <1>4, <2>1, PairTaken
<1>10. SubSeq(code, 1, 2) = p /\ SubSeq(code, 3, 4) = q /\ SubSeq(code, 5, 6) = r
  BY <1>1, <1>5, <1>7, <1>8, <1>9, PairsEqual
<1> QED
  BY <1>0, <1>6, <1>10 DEF ParseProcessingCode

LEMMA AccountDigits ==
    \A acc \in AccountType \cup {<<>>} : (IF acc = <<>> THEN AccDefault ELSE acc) \in Pair
  BY DEF AccountType, AccDefault, Pair

\* The type of an answer, and which requests are taken for reversals.
LEMMA AnswerTypes ==
    ASSUME NEW t
    PROVE  /\ AnswerMTI(GetMTIForTransaction(t, FALSE)) = GetMTIForTransaction(t, TRUE)
           /\ TakenAsReversal(GetMTIForTransaction(t, FALSE)) <=> t = "REVERSAL"
<1> DEFINE x == IF t = "REVERSAL" THEN 4 ELSE 1
<1>1. GetMTIForTransaction(t, FALSE) = <<0, x, 0, 0>> /\ GetMTIForTransaction(t, TRUE) = <<0, x, 1, 0>>
  BY DEF GetMTIForTransaction
<1>2. x = 4 <=> t = "REVERSAL"
  OBVIOUS
<1> HIDE DEF x
<1>3. x \in Nat /\ <<0, x, 0, 0>> \in Seq(Nat) /\ Len(<<0, x, 0, 0>>) = 4
  BY DEF x
<1> DEFINE head == SubSeq(<<0, x, 0, 0>>, 1, 2)
           answer == head \o <<1, 0>>
<1>4. head \in Seq(Nat) /\ Len(head) = 2 /\ head[1] = 0 /\ head[2] = x
  BY <1>3
<1>5. head = <<0, x>>
  BY <1>4, PairIs
<1> HIDE DEF head
<1>6. answer = <<0, x, 1, 0>>
  BY <1>3, <1>5, PairsJoined
<1>7. head = <<0, 4>> <=> t = "REVERSAL"
  BY <1>2, <1>5
<1>8. AnswerMTI(<<0, x, 0, 0>>) = answer
  BY <1>3 DEF AnswerMTI, head
<1>9. TakenAsReversal(<<0, x, 0, 0>>) <=> t = "REVERSAL"
  BY <1>3, <1>7 DEF TakenAsReversal, head
<1> QED
  BY <1>1, <1>6, <1>8, <1>9

\* What proccode.go and the engine say twice agrees (TablesAgree), for every
\* type of transaction and every account.
THEOREM CodesAgree == Spec => []TablesAgree
<1>1. ASSUME Answered PROVE TablesAgree
  <2> SUFFICES ASSUME Done("code") PROVE TablesAgree
    BY DEF TablesAgree
  <2> DEFINE from == IF call.from = <<>> THEN AccDefault ELSE call.from
             to   == IF call.to = <<>> THEN AccDefault ELSE call.to
  <2>1. call.type \in TransactionType /\ call.from \in AccountType \cup {<<>>}
        /\ call.to \in AccountType \cup {<<>>}
    BY <1>1, Arguments DEF Answered, Done
  <2>2. TxCode(call.type) \in Pair /\ TxCode(call.type) = Listed[call.type]
    BY <2>1, CodesListed
  <2>3. from \in Pair /\ to \in Pair
    BY <2>1, AccountDigits
  <2>4. result.val = TxCode(call.type) \o from \o to
    BY <1>1 DEF Answered, AnswerIs, GetProcessingCode
  <2> HIDE DEF from, to
  <2>5. /\ ValidProcessingCode(result.val)
        /\ ParseProcessingCode(result.val) = [type |-> TxCode(call.type), from |-> from, to |-> to]
    BY <2>2, <2>3, <2>4, PairsApart, ZenonT(30)
  <2>6. LET parsed == ParseProcessingCode(result.val) IN
        parsed.type = Listed[call.type] /\ parsed.from = from /\ parsed.to = to
    BY <2>2, <2>5
  <2> QED
    BY <2>5, <2>6, AnswerTypes DEF TablesAgree, from, to
<1> QED
  BY <1>1, AnsweredInvariant, PTL

------------------------------------------------------------------------------
\* Amounts.
LEMMA LastDigit ==
    \A m \in Nat, d \in Digit : (10 * m + d) \div 10 = m /\ (10 * m + d) % 10 = d
  BY DEF Digit

\* ParseAmount12's loop: the value of each prefix.
Values(v, bytes, n) ==
    /\ v \in [0 .. n -> Nat] /\ v[0] = 0
    /\ \A i \in 1 .. n : bytes[i] \in Digit /\ v[i] = 10 * v[i - 1] + bytes[i]

LEMMA AmountRun ==
    ASSUME NEW n \in Nat, NEW bytes, Len(bytes) = n, n = AmountDigits, DOMAIN bytes = 1 .. n,
           \A i \in 1 .. n : bytes[i] \in Digit
    PROVE  \E v : Values(v, bytes, n) /\ ParseAmount12(bytes) = v[n]
<1> DEFINE G == [i \in 1 .. n |-> [x \in Nat |-> 10 * x + bytes[i]]]
           Sums(s) == s = [i \in 0 .. n |-> IF i = 0 THEN 0 ELSE 10 * s[i - 1] + bytes[i]]
           s == CHOOSE s : Sums(s)
<1>1. \A x \in Nat, i \in 0 + 1 .. n : G[i][x] = 10 * x + bytes[i] /\ G[i][x] \in Nat
  BY DEF Digit
<1> HIDE DEF G
<1>2. 0 \in Int /\ 0 \in Nat /\ n \in Int /\ 0 <= n
  OBVIOUS
<1>3. PICK r : r \in [0 .. n -> Nat] /\ Run(r, 0, n, 0, G)
  <2>1. \E r \in [0 .. n -> Nat] : Run(r, 0, n, 0, G)
    BY <1>1, <1>2, RunExists, Zenon
  <2> QED
    BY <2>1
<1>4. \A i \in 0 .. n : r[i] = IF i = 0 THEN 0 ELSE 10 * r[i - 1] + bytes[i]
  <2>1. \A i \in 0 .. n : r[i] \in Nat /\ r[i] = IF i = 0 THEN 0 ELSE G[i][r[i - 1]]
    BY <1>3 DEF Run
  <2>2. ASSUME NEW i \in 0 .. n, i # 0 PROVE r[i] = 10 * r[i - 1] + bytes[i]
    <3>1. r[i - 1] \in Nat /\ i \in 0 + 1 .. n /\ r[i] = G[i][r[i - 1]]
      BY <2>1, <2>2
    <3> QED
      BY <1>1, <3>1
  <2> QED
    BY <2>1, <2>2
<1>5. Sums(r)
  BY <1>3, <1>4
<1>6. Sums(s)
  <2> HIDE DEF Sums
  <2> QED
    BY <1>5
<1>7. ParseAmount12(bytes) = s[n]
  <2>1. ~(Len(bytes) # AmountDigits \/ \E i \in DOMAIN bytes : bytes[i] \notin Digit)
    OBVIOUS
  <2> QED
    BY <2>1, Zenon DEF ParseAmount12
<1> HIDE DEF s
<1>8. s[0] = 0 /\ \A i \in 1 .. n : s[i] = 10 * s[i - 1] + bytes[i]
  BY <1>6
<1>9. \A i \in 0 .. n : s[i] = r[i]
  <2>1. s[0] = r[0] /\ \A i \in 0 + 1 .. n : s[i - 1] = r[i - 1] => s[i] = r[i]
    BY <1>4, <1>8
  <2> QED
    BY ONLY <1>2, <2>1, RunsAgree
<1>10. s \in [0 .. n -> Nat]
  <2>1. s = [i \in 0 .. n |-> s[i]]
    BY <1>6
  <2>2. \A i \in 0 .. n : s[i] \in Nat
    BY <1>3, <1>9
  <2> QED
    BY <2>1, <2>2
<1>11. Values(s, bytes, n)
  BY <1>8, <1>10 DEF Values
<1> QED
  BY <1>7, <1>11

\* Dividing by ten takes the digits off again, the last one first.
Tens(s, n, val) == s = [k \in 0 .. n |-> IF k = 0 THEN val ELSE s[k - 1] \div 10]

LEMMA DigitsReturned ==
    ASSUME NEW n \in Nat, NEW bytes, NEW v, Values(v, bytes, n), NEW val, val = v[n]
    PROVE  /\ \E s : Tens(s, n, val)
           /\ \A s : Tens(s, n, val) => (\A i \in 1 .. n : s[n - i] % 10 = bytes[i]) /\ s[n] = 0
<1> DEFINE r == [k \in 0 .. n |-> v[n - k]]
<1>0. /\ v \in [0 .. n -> Nat] /\ v[0] = 0
      /\ \A i \in 1 .. n : bytes[i] \in Digit /\ v[i] = 10 * v[i - 1] + bytes[i]
  BY DEF Values
<1>1. \A i \in 1 .. n : v[i] \div 10 = v[i - 1] /\ v[i] % 10 = bytes[i]
  <2> SUFFICES ASSUME NEW i \in 1 .. n PROVE v[i] \div 10 = v[i - 1] /\ v[i] % 10 = bytes[i]
    OBVIOUS
  <2>1. v[i - 1] \in Nat /\ bytes[i] \in Digit /\ v[i] = 10 * v[i - 1] + bytes[i]
    BY <1>0
  <2>2. PICK m \in Nat, d \in Digit : m = v[i - 1] /\ d = bytes[i] /\ v[i] = 10 * m + d
    BY <2>1
  <2>3. (10 * m + d) \div 10 = m /\ (10 * m + d) % 10 = d
    BY ONLY LastDigit
  <2> QED
    BY <2>2, <2>3, Zenon
<1>2. r[0] = val /\ r[n] = v[0] /\ \A k \in 0 .. n : r[k] = v[n - k]
  OBVIOUS
<1>3. \A k \in 1 .. n : r[k] = r[k - 1] \div 10
  <2> SUFFICES ASSUME NEW k \in 1 .. n PROVE r[k] = r[k - 1] \div 10
    OBVIOUS
  <2>1. k \in 0 .. n /\ k - 1 \in 0 .. n /\ n - (k - 1) \in 1 .. n /\ (n - (k - 1)) - 1 = n - k
    OBVIOUS
  <2>2. r[k] = v[n - k] /\ r[k - 1] = v[n - (k - 1)]
    BY <1>2, <2>1
  <2>3. v[n - (k - 1)] \div 10 = v[(n - (k - 1)) - 1]
    BY <1>1, <2>1
  <2> QED
    BY <2>1, <2>2, <2>3, Zenon
<1>4. r = [k \in 0 .. n |-> r[k]]
  OBVIOUS
<1> HIDE DEF r
<1>5. Tens(r, n, val)
  <2>1. ASSUME NEW k \in 0 .. n PROVE r[k] = IF k = 0 THEN val ELSE r[k - 1] \div 10
    <3>1. CASE k = 0
      BY <1>2, <3>1
    <3>2. CASE k # 0
      <4>1. k \in 1 .. n
        BY <3>2
      <4> QED
        BY <1>3, <3>2, <4>1
    <3> QED
      BY <3>1, <3>2
  <2> QED
    BY <1>4, <2>1 DEF Tens
<1>6. SUFFICES ASSUME NEW rest, Tens(rest, n, val)
      PROVE  (\A i \in 1 .. n : rest[n - i] % 10 = bytes[i]) /\ rest[n] = 0
  BY <1>5
<1>7. rest[0] = val /\ \A k \in 0 + 1 .. n : rest[k] = rest[k - 1] \div 10
  BY ONLY <1>6, n \in Nat DEF Tens
<1>8. \A k \in 0 .. n : rest[k] = r[k]
  <2>1. rest[0] = r[0] /\ \A k \in 0 + 1 .. n : rest[k - 1] = r[k - 1] => rest[k] = r[k]
    <3>1. \A k \in 0 + 1 .. n : r[k] = r[k - 1] \div 10
      BY <1>3
    <3> QED
      BY <1>2, <1>7, <3>1, Zenon
  <2> QED
    BY ONLY n \in Nat, <2>1, RunsAgreeFromZero, Zenon
<1>9. \A i \in 1 .. n : rest[n - i] % 10 = bytes[i]
  <2> SUFFICES ASSUME NEW i \in 1 .. n PROVE rest[n - i] % 10 = bytes[i]
    OBVIOUS
  <2>1. n - i \in 0 .. n /\ n - (n - i) = i
    OBVIOUS
  <2>2. rest[n - i] = v[i]
    BY <1>2, <1>8, <2>1
  <2>3. v[i] % 10 = bytes[i]
    BY <1>1
  <2> QED
    BY <2>2, <2>3, Zenon
<1>10. rest[n] = 0
  <2>1. n \in 0 .. n
    OBVIOUS
  <2> QED
    BY <1>0, <1>2, <1>8, <2>1
<1> QED
  BY <1>9, <1>10

\* ParseAmount12 returns the number its digits write and rejects all else
\* (AmountsExact), for amounts of any number of digits an int64 holds.
THEOREM AmountsParsed == Spec => []AmountsExact
<1>1. ASSUME Answered PROVE AmountsExact
  <2> SUFFICES ASSUME Done("amount") PROVE AmountsExact
    BY DEF AmountsExact
  <2>1. PICK bytes \in Seq(Byte) : bytes = call.bytes
    BY <1>1, Arguments, InputAssumption DEF Answered, Done
  <2>2. PICK val : val = result.val /\ val = ParseAmount12(bytes)
    BY <1>1, <2>1 DEF Answered, AnswerIs
  <2>3. ASSUME ~(Len(bytes) = AmountDigits /\ \A i \in DOMAIN bytes : bytes[i] \in Digit)
        PROVE  val = AmountError
    <3>1. Len(bytes) # AmountDigits \/ \E i \in DOMAIN bytes : bytes[i] \notin Digit
      BY <2>3
    <3> QED
      BY <2>2, <3>1, Zenon DEF ParseAmount12
  <2>4. ASSUME Len(bytes) = AmountDigits, \A i \in DOMAIN bytes : bytes[i] \in Digit
        PROVE  LET rest[k \in 0 .. AmountDigits] == IF k = 0 THEN val ELSE rest[k - 1] \div 10
               IN  /\ \A i \in 1 .. AmountDigits : rest[AmountDigits - i] % 10 = bytes[i]
                   /\ rest[AmountDigits] = 0
    <3>1. AmountDigits \in Nat /\ DOMAIN bytes = 1 .. AmountDigits
      BY <2>4, FieldAssumption
    <3>2. \A i \in 1 .. AmountDigits : bytes[i] \in Digit
      BY <2>4, <3>1
    <3>3. PICK v : Values(v, bytes, AmountDigits) /\ ParseAmount12(bytes) = v[AmountDigits]
      BY ONLY <2>4, <3>1, <3>2, AmountRun, Zenon
    <3>4. val = v[AmountDigits]
      BY <2>2, <3>3
    <3> QED
      <4> DEFINE n == AmountDigits
                 rest == CHOOSE s : Tens(s, n, val)
      <4>1. /\ \E s : Tens(s, n, val)
            /\ \A s : Tens(s, n, val) => (\A i \in 1 .. n : s[n - i] % 10 = bytes[i]) /\ s[n] = 0
        <5>1. AmountDigits \in Nat /\ Values(v, bytes, AmountDigits)
          BY <3>1, <3>3
        <5> QED
          BY ONLY <3>4, <5>1, DigitsReturned
      <4>2. Tens(rest, n, val)
        BY <4>1, Zenon
      <4>3. (\A i \in 1 .. n : rest[n - i] % 10 = bytes[i]) /\ rest[n] = 0
        BY <4>1, <4>2, Zenon
      <4> QED
        BY <4>3, Zenon DEF Tens
  <2> QED
    BY <2>1, <2>2, <2>3, <2>4, Zenon DEF AmountsExact
<1> QED
  BY <1>1, AnsweredInvariant, PTL

------------------------------------------------------------------------------
\* Card schemes.  A number begins with a prefix.
Start == [1 .. 4 -> Digit]

LEMMA FunctionSeq ==
    ASSUME NEW D, NEW n \in Nat, NEW f \in [1 .. n -> D]
    PROVE  f \in Seq(D) /\ Len(f) = n
  OBVIOUS

LEMMA PrefixIs ==
    ASSUME NEW s \in Start, NEW n \in 1 .. 4, NEW p \in Seq(Nat), Len(p) = n
    PROVE  IsPrefix(p, s) <=> \A i \in 1 .. n : s[i] = p[i]
<1>1. s \in Seq(Nat) /\ Len(s) = 4
  <2>1. 4 \in Nat /\ s \in [1 .. 4 -> Nat]
    BY DEF Start, Digit
  <2> QED
    BY <2>1, FunctionSeq, ZenonT(30)
<1>2. SubSeq(p, 1, n) = p
  OBVIOUS
<1>3. PICK t : t = SubSeq(s, 1, n)
  OBVIOUS
<1>4. t \in Seq(Nat) /\ Len(t) = n /\ \A i \in 1 .. n : t[i] = s[i]
  <2>1. 1 \in Int /\ n \in Int /\ n \in 1 .. 4 /\ 1 <= n /\ n <= Len(s)
    BY <1>1
  <2> QED
    BY ONLY <1>1, <1>3, <2>1
<1>5. IsPrefix(p, s) <=> p = t
  BY <1>1, <1>2, <1>3 DEF IsPrefix
<1>6. p = t <=> \A i \in 1 .. n : p[i] = t[i]
  BY <1>4
<1> QED
  BY <1>4, <1>5, <1>6

LEMMA Prefix1 ==
    ASSUME NEW s \in Start, NEW x \in Nat
    PROVE  IsPrefix(<<x>>, s) <=> s[1] = x
<1>1. PICK p : p = <<x>>
  OBVIOUS
<1>2. p \in Seq(Nat) /\ Len(p) = 1 /\ p[1] = x /\ 1 \in 1 .. 4
  BY <1>1
<1>3. IsPrefix(p, s) <=> \A i \in 1 .. 1 : s[i] = p[i]
  BY <1>2, PrefixIs
<1> QED
  BY <1>1, <1>2, <1>3

LEMMA Prefix2 ==
    ASSUME NEW s \in Start, NEW x \in Nat, NEW y \in Nat
    PROVE  IsPrefix(<<x, y>>, s) <=> s[1] = x /\ s[2] = y
<1>1. PICK p : p = <<x, y>>
  OBVIOUS
<1>2. p \in Seq(Nat) /\ Len(p) = 2 /\ p[1] = x /\ p[2] = y /\ 2 \in 1 .. 4
  BY <1>1
<1>3. IsPrefix(p, s) <=> \A i \in 1 .. 2 : s[i] = p[i]
  BY <1>2, PrefixIs
<1> QED
  BY <1>1, <1>2, <1>3

LEMMA Prefix3 ==
    ASSUME NEW s \in Start, NEW x \in Nat, NEW y \in Nat, NEW z \in Nat
    PROVE  IsPrefix(<<x, y, z>>, s) <=> s[1] = x /\ s[2] = y /\ s[3] = z
<1>1. PICK p : p = <<x, y, z>>
  OBVIOUS
<1>2. p \in Seq(Nat) /\ Len(p) = 3 /\ p[1] = x /\ p[2] = y /\ p[3] = z /\ 3 \in 1 .. 4
  BY <1>1
<1>3. IsPrefix(p, s) <=> \A i \in 1 .. 3 : s[i] = p[i]
  BY <1>2, PrefixIs
<1> QED
  BY <1>1, <1>2, <1>3

LEMMA Prefix4 ==
    ASSUME NEW s \in Start, NEW x \in Nat, NEW y \in Nat, NEW z \in Nat, NEW w \in Nat
    PROVE  IsPrefix(<<x, y, z, w>>, s) <=> s[1] = x /\ s[2] = y /\ s[3] = z /\ s[4] = w
<1>1. PICK p : p = <<x, y, z, w>>
  OBVIOUS
<1>2. p \in Seq(Nat) /\ Len(p) = 4 /\ p[1] = x /\ p[2] = y /\ p[3] = z /\ p[4] = w /\ 4 \in 1 .. 4
  BY <1>1
<1>3. IsPrefix(p, s) <=> \A i \in 1 .. 4 : s[i] = p[i]
  BY <1>2, PrefixIs
<1> QED
  BY <1>1, <1>2, <1>3

\* The prefixes of Mastercard are 51 to 55 and 2221 to 2720.
Number(s) == 1000 * s[1] + 100 * s[2] + 10 * s[3] + s[4]

LEMMA MastercardPrefix ==
    ASSUME NEW s \in Start
    PROVE  (\E p \in MastercardPrefixes : IsPrefix(p, s))
              <=> Number(s) \div 100 \in 51 .. 55 \/ Number(s) \in 2221 .. 2720
<1> DEFINE a == s[1]
           b == s[2]
           c == s[3]
           d == s[4]
<1>1. a \in 0 .. 9 /\ b \in 0 .. 9 /\ c \in 0 .. 9 /\ d \in 0 .. 9
  BY DEF Start, Digit
<1>2. 5 \in Nat /\ 2 \in Nat /\ 7 \in Nat /\ 0 \in Nat /\ \A i, j \in Nat : i .. j \subseteq Nat
  OBVIOUS
<1>3. (\E p \in MastercardPrefixes : IsPrefix(p, s))
        <=> \/ \E x \in 1 .. 5 : IsPrefix(<<5, x>>, s)
            \/ \E x \in 1 .. 9 : IsPrefix(<<2, 2, 2, x>>, s)
            \/ \E x \in 3 .. 9 : IsPrefix(<<2, 2, x>>, s)
            \/ \E x \in 3 .. 6 : IsPrefix(<<2, x>>, s)
            \/ \E x \in 0 .. 1 : IsPrefix(<<2, 7, x>>, s)
            \/ IsPrefix(<<2, 7, 2, 0>>, s)
  BY Zenon DEF MastercardPrefixes
<1>4. /\ \A x \in Nat : IsPrefix(<<5, x>>, s) <=> a = 5 /\ b = x
      /\ \A x \in Nat : IsPrefix(<<2, x>>, s) <=> a = 2 /\ b = x
      /\ \A x \in Nat : IsPrefix(<<2, 2, x>>, s) <=> a = 2 /\ b = 2 /\ c = x
      /\ \A x \in Nat : IsPrefix(<<2, 7, x>>, s) <=> a = 2 /\ b = 7 /\ c = x
      /\ \A x \in Nat : IsPrefix(<<2, 2, 2, x>>, s) <=> a = 2 /\ b = 2 /\ c = 2 /\ d = x
      /\ IsPrefix(<<2, 7, 2, 0>>, s) <=> a = 2 /\ b = 7 /\ c = 2 /\ d = 0
  BY <1>2, Prefix2, Prefix3, Prefix4
<1> HIDE DEF a, b, c, d
<1>5. (\E p \in MastercardPrefixes : IsPrefix(p, s))
        <=> \/ a = 5 /\ b \in 1 .. 5
            \/ a = 2 /\ b = 2 /\ c = 2 /\ d \in 1 .. 9
            \/ a = 2 /\ b = 2 /\ c \in 3 .. 9
            \/ a = 2 /\ b \in 3 .. 6
            \/ a = 2 /\ b = 7 /\ c \in 0 .. 1
            \/ a = 2 /\ b = 7 /\ c = 2 /\ d = 0
  BY ONLY <1>1, <1>3, <1>4
<1>6. Number(s) = 1000 * a + 100 * b + 10 * c + d
  BY DEF Number, a, b, c, d
<1>7. PICK n : n = Number(s)
  OBVIOUS
<1>8. \/ a = 5 /\ b \in 1 .. 5
      \/ a = 2 /\ b = 2 /\ c = 2 /\ d \in 1 .. 9
      \/ a = 2 /\ b = 2 /\ c \in 3 .. 9
      \/ a = 2 /\ b \in 3 .. 6
      \/ a = 2 /\ b = 7 /\ c \in 0 .. 1
      \/ a = 2 /\ b = 7 /\ c = 2 /\ d = 0
      <=> n \div 100 \in 51 .. 55 \/ n \in 2221 .. 2720
  <2>1. PICK e \in 0 .. 9, f \in 0 .. 9, g \in 0 .. 9, h \in 0 .. 9 :
            e = a /\ f = b /\ g = c /\ h = d
    BY <1>1
  <2>2. n = 1000 * e + 100 * f + 10 * g + h
    BY <1>6, <1>7, <2>1
  <2> QED
    <3>1. \/ e = 5 /\ f \in 1 .. 5
          \/ e = 2 /\ f = 2 /\ g = 2 /\ h \in 1 .. 9
          \/ e = 2 /\ f = 2 /\ g \in 3 .. 9
          \/ e = 2 /\ f \in 3 .. 6
          \/ e = 2 /\ f = 7 /\ g \in 0 .. 1
          \/ e = 2 /\ f = 7 /\ g = 2 /\ h = 0
          <=> n \div 100 \in 51 .. 55 \/ n \in 2221 .. 2720
      BY ONLY <2>2
    <3> QED
      BY <2>1, <3>1
<1> QED
  BY <1>5, <1>7, <1>8

Documented(n, len) ==
    CASE len = 16 /\ n = 9792                                 -> "TROY"
      [] len = 16 /\ (n \div 100 \in 51 .. 55 \/ n \in 2221 .. 2720) -> "MASTERCARD"
      [] len \in 13 .. 19 /\ n \div 1000 = 4                  -> "VISA"
      [] OTHER                                                -> "UNKNOWN"

LEMMA SchemeFound ==
    ASSUME NEW s \in Start, NEW len \in Nat
    PROVE  /\ DetectScheme(s, len) = Documented(Number(s), len)
           /\ DetectScheme(s, len) # "UNKNOWN" => IsValidPANLength(s, len)
<1> DEFINE n == Number(s)
           found == {e \in binRanges : IsPrefix(e.prefix, s) /\ len \in e.lens}
           Mastercard == n \div 100 \in 51 .. 55 \/ n \in 2221 .. 2720
<1>1. /\ n \in Nat /\ n \div 1000 = s[1]
      /\ n = 9792 <=> s[1] = 9 /\ s[2] = 7 /\ s[3] = 9 /\ s[4] = 2
  <2>1. PICK a \in 0 .. 9, b \in 0 .. 9, c \in 0 .. 9, d \in 0 .. 9 :
            a = s[1] /\ b = s[2] /\ c = s[3] /\ d = s[4]
    <3>1. s \in [1 .. 4 -> 0 .. 9] /\ 1 \in 1 .. 4 /\ 2 \in 1 .. 4 /\ 3 \in 1 .. 4 /\ 4 \in 1 .. 4
      BY ONLY s \in Start DEF Start, Digit
    <3>2. s[1] \in 0 .. 9 /\ s[2] \in 0 .. 9 /\ s[3] \in 0 .. 9 /\ s[4] \in 0 .. 9
      BY ONLY <3>1
    <3> QED
      BY ONLY <3>2, Zenon
  <2>2. PICK m : m = n
    OBVIOUS
  <2>3. m = 1000 * a + 100 * b + 10 * c + d
    BY <2>1, <2>2 DEF Number
  <2>4. m \in Nat /\ m \div 1000 = a /\ (m = 9792 <=> a = 9 /\ b = 7 /\ c = 9 /\ d = 2)
    BY ONLY <2>3
  <2> QED
    BY <2>1, <2>2, <2>4
<1>2. /\ IsPrefix(<<9, 7, 9, 2>>, s) <=> n = 9792
      /\ IsPrefix(<<4>>, s) <=> n \div 1000 = 4
  <2>1. 9 \in Nat /\ 7 \in Nat /\ 2 \in Nat /\ 4 \in Nat
    OBVIOUS
  <2>2. /\ IsPrefix(<<9, 7, 9, 2>>, s) <=> s[1] = 9 /\ s[2] = 7 /\ s[3] = 9 /\ s[4] = 2
        /\ IsPrefix(<<4>>, s) <=> s[1] = 4
    BY <2>1, Prefix1, Prefix4
  <2> QED
    BY <1>1, <2>2
<1>3. (\E p \in MastercardPrefixes : IsPrefix(p, s)) <=> Mastercard
  BY MastercardPrefix
<1> HIDE DEF n
<1>12. (Mastercard => n \div 1000 # 4) /\ (n = 9792 => ~Mastercard /\ n \div 1000 # 4)
  BY <1>1
<1>4. \A e : e \in found
        <=> \/ e = [prefix |-> <<9, 7, 9, 2>>, lens |-> 16 .. 16, scheme |-> "TROY"] /\ len = 16 /\ n = 9792
            \/ /\ \E p \in MastercardPrefixes :
                     e = [prefix |-> p, lens |-> 16 .. 16, scheme |-> "MASTERCARD"] /\ IsPrefix(p, s)
               /\ len = 16
            \/ /\ e = [prefix |-> <<4>>, lens |-> 13 .. 19, scheme |-> "VISA"]
               /\ len \in 13 .. 19 /\ n \div 1000 = 4
  <2>1. len \in 16 .. 16 <=> len = 16
    OBVIOUS
  <2>2. \A e : e \in binRanges
          <=> \/ e = [prefix |-> <<9, 7, 9, 2>>, lens |-> 16 .. 16, scheme |-> "TROY"]
              \/ \E p \in MastercardPrefixes : e = [prefix |-> p, lens |-> 16 .. 16, scheme |-> "MASTERCARD"]
              \/ e = [prefix |-> <<4>>, lens |-> 13 .. 19, scheme |-> "VISA"]
    BY Zenon DEF binRanges, Sixteen
  <2> QED
    BY <1>2, <2>1, <2>2
<1> HIDE DEF found
<1>5. found # {} <=> Documented(n, len) # "UNKNOWN"
  <2>1. CASE len = 16 /\ n = 9792
    <3>1. [prefix |-> <<9, 7, 9, 2>>, lens |-> 16 .. 16, scheme |-> "TROY"] \in found
      BY <1>4, <2>1
    <3> QED
      BY <2>1, <3>1 DEF Documented
  <2>2. CASE len = 16 /\ Mastercard
    <3>1. PICK p \in MastercardPrefixes : IsPrefix(p, s)
      BY <1>3, <2>2
    <3>2. [prefix |-> p, lens |-> 16 .. 16, scheme |-> "MASTERCARD"] \in found
      BY <1>4, <2>2, <3>1
    <3> QED
      BY <2>2, <3>2, <1>12 DEF Documented
  <2>3. CASE len \in 13 .. 19 /\ n \div 1000 = 4
    <3>1. [prefix |-> <<4>>, lens |-> 13 .. 19, scheme |-> "VISA"] \in found
      BY <1>4, <2>3
    <3> QED
      BY <2>3, <3>1, <1>12 DEF Documented
  <2>4. CASE ~(len = 16 /\ n = 9792) /\ ~(len = 16 /\ Mastercard) /\ ~(len \in 13 .. 19 /\ n \div 1000 = 4)
    <3>1. found = {}
      BY <1>3, <1>4, <2>4
    <3> QED
      BY <2>4, <3>1 DEF Documented
  <2> QED
    BY <2>1, <2>2, <2>3, <2>4
<1>6. \A e \in found : e.scheme = Documented(n, len)
  BY <1>3, <1>4, <1>12 DEF Documented
<1>7. len < 13 => Documented(n, len) = "UNKNOWN"
  BY DEF Documented
<1>8. found # {} => (CHOOSE e \in found : TRUE) \in found
  OBVIOUS
<1>9. DetectScheme(s, len) = IF len < 13 \/ found = {} THEN "UNKNOWN" ELSE (CHOOSE e \in found : TRUE).scheme
  BY DEF DetectScheme, found
<1>10. DetectScheme(s, len) = Documented(n, len)
  BY <1>5, <1>6, <1>7, <1>8, <1>9
<1>11. DetectScheme(s, len) # "UNKNOWN" => IsValidPANLength(s, len)
  BY <1>10 DEF IsValidPANLength, Documented
<1> QED
  BY <1>10, <1>11 DEF n

\* The prefix table is what its comments say (SchemesAsDocumented), for every
\* number and every length.
THEOREM SchemesFound == Spec => []SchemesAsDocumented
<1>1. ASSUME Answered PROVE SchemesAsDocumented
  <2> SUFFICES ASSUME Done("scheme") PROVE SchemesAsDocumented
    BY ZenonT(30) DEF SchemesAsDocumented
  <2>1. call.start \in Start /\ call.length \in Nat
    <3>1. call.start \in Starts /\ call.length \in Lengths
      BY <1>1, Arguments DEF Answered, Done
    <3>2. Starts \subseteq Start /\ Lengths \subseteq Nat
      BY InputAssumption, Zenon DEF Start
    <3> QED
      BY <3>1, <3>2
  <2>2. result.val = [scheme |-> DetectScheme(call.start, call.length),
                      ok |-> IsValidPANLength(call.start, call.length)]
    BY <1>1 DEF Answered, AnswerIs
  <2>3. /\ DetectScheme(call.start, call.length) = Documented(Number(call.start), call.length)
        /\ DetectScheme(call.start, call.length) # "UNKNOWN"
              => IsValidPANLength(call.start, call.length)
    BY <2>1, SchemeFound, Zenon
  <2>4. /\ result.val.scheme = Documented(Number(call.start), call.length)
        /\ result.val.scheme # "UNKNOWN" => result.val.ok
    BY <2>2, <2>3
  <2> QED
    BY <2>4, ZenonT(30) DEF SchemesAsDocumented, Documented, Number
<1> QED
  BY <1>1, AnsweredInvariant, PTL

------------------------------------------------------------------------------
\* Expiry dates.  If the bytes of a text are digits, so are its characters.
LEMMA CatParts ==
    ASSUME NEW S, NEW D, NEW s \in Seq(S), NEW t \in Seq(S), Cat(s, t) \in Seq(D)
    PROVE  s \in Seq(D) /\ t \in Seq(D)
<1>1. PICK c : c = s \o t
  OBVIOUS
<1>2. c \in Seq(D) /\ Len(c) = Len(s) + Len(t)
  BY <1>1, ConcatProperties DEF Cat
<1>3. \A i \in 1 .. Len(s) + Len(t) : c[i] = IF i <= Len(s) THEN s[i] ELSE t[i - Len(s)]
  BY <1>1, ConcatProperties
<1>4. \A i \in 1 .. Len(c) : c[i] \in D
  BY <1>2, ElementOfSeq
<1>5. PICK m, n \in Nat : m = Len(s) /\ n = Len(t)
  OBVIOUS
<1>6. \A i \in 1 .. m : s[i] \in D
  BY <1>2, <1>3, <1>4, <1>5
<1>7. \A i \in 1 .. n : t[i] \in D
  <2> SUFFICES ASSUME NEW i \in 1 .. n PROVE t[i] \in D
    OBVIOUS
  <2>1. m + i \in 1 .. m + n /\ ~(m + i <= m) /\ (m + i) - m = i
    OBVIOUS
  <2> QED
    BY <1>2, <1>3, <1>4, <1>5, <2>1
<1> QED
  BY <1>5, <1>6, <1>7

LEMMA FlattenParts ==
    ASSUME NEW S, NEW D, NEW seqs, seqs \in Seq(Seq(S)), FlattenSeq(seqs) \in Seq(D),
           NEW n \in Nat, Len(seqs) = n
    PROVE  \A i \in 1 .. n : seqs[i] \in Seq(D)
<1>1. PICK f : f \in [0 .. n -> Seq(S)] /\ Flattens(f, seqs)
  BY FlattenRun
<1>2. f[n] \in Seq(D) /\ \A i \in 1 .. n : f[i] = Cat(f[i - 1], seqs[i])
  BY <1>1 DEF Flattens
<1>3. \A i \in 1 .. n : seqs[i] \in Seq(S)
  BY ElementOfSeq
<1> DEFINE T == {i \in 0 .. n : f[i] \in Seq(D)}
<1>4. ASSUME NEW i \in 0 .. n, \A j \in 0 .. n : i < j => j \in T PROVE i \in T
  <2>1. CASE i = n
    BY <1>2, <2>1
  <2>2. CASE i # n
    <3>1. i + 1 \in 1 .. n /\ i + 1 \in 0 .. n /\ i < i + 1 /\ (i + 1) - 1 = i
      BY <2>2
    <3>2. f[i + 1] \in Seq(D) /\ f[i + 1] = Cat(f[i], seqs[i + 1])
      BY <1>2, <1>4, <3>1
    <3>3. f[i] \in Seq(S) /\ seqs[i + 1] \in Seq(S)
      BY <1>1, <1>3, <3>1
    <3>4. f[i] \in Seq(D)
      BY <3>2, <3>3, CatParts
    <3> QED
      BY <3>4
  <2> QED
    BY <2>1, <2>2
<1>5. \A i \in 0 .. n : i \in T
  <2>1. 0 \in Int /\ n \in Int
    OBVIOUS
  <2> HIDE DEF T
  <2> QED
    BY <1>4, <2>1, DownwardInduction, ZenonT(30)
<1> SUFFICES ASSUME NEW i \in 1 .. n PROVE seqs[i] \in Seq(D)
  OBVIOUS
<1>6. i - 1 \in 0 .. n /\ i \in 0 .. n
  OBVIOUS
<1>7. f[i] \in Seq(D) /\ f[i] = Cat(f[i - 1], seqs[i]) /\ f[i - 1] \in Seq(S) /\ seqs[i] \in Seq(S)
  BY <1>1, <1>2, <1>3, <1>5, <1>6
<1>8. Cat(f[i - 1], seqs[i]) \in Seq(D) /\ f[i - 1] \in Seq(S) /\ seqs[i] \in Seq(S)
  BY <1>7
<1> QED
  BY ONLY <1>8, CatParts, Zenon

LEMMA DigitText ==
    ASSUME NEW text, text \in Seq(Character), BytesOf(text) \in Seq(Digit)
    PROVE  text \in Seq(SingleDigit)
<1>1. PICK n \in Nat : n = Len(text)
  OBVIOUS
<1>2. text \in Seq(Seq(Byte))
  <2>1. Character \subseteq Seq(Byte)
    BY DEF Character
  <2> QED
    BY <2>1, SeqMonotonic
<1>3. \A i \in 1 .. n : text[i] \in Seq(Digit)
  BY <1>1, <1>2, FlattenParts DEF BytesOf
<1>4. \A i \in 1 .. n : text[i] \in Character
  BY <1>1, ElementOfSeq
<1>5. ASSUME NEW c \in Character, c \in Seq(Digit) PROVE c \in SingleDigit
  <2>1. c \in Seq(Byte) /\ (Len(c) = 1 \/ (Len(c) > 1 /\ \A i \in DOMAIN c : c[i] \in 80 .. 207))
    BY DEF Character
  <2>2. \A i \in 1 .. Len(c) : c[i] \in 0 .. 9
    BY <1>5 DEF Digit
  <2>3. Len(c) = 1
    <3>1. CASE Len(c) > 1 /\ \A i \in DOMAIN c : c[i] \in 80 .. 207
      <4>1. 1 \in 1 .. Len(c) /\ DOMAIN c = 1 .. Len(c)
        BY <2>1, <3>1
      <4>2. c[1] \in 80 .. 207 /\ c[1] \in 0 .. 9
        BY <2>2, <3>1, <4>1
      <4> QED
        BY ONLY <4>2
    <3> QED
      BY <2>1, <3>1
  <2>4. c = <<c[1]>> /\ c[1] \in Digit
    BY <2>1, <2>2, <2>3 DEF Digit
  <2> QED
    BY <2>4 DEF SingleDigit
<1>6. \A i \in 1 .. n : text[i] \in SingleDigit
  BY <1>3, <1>4, <1>5
<1> QED
  BY <1>1, <1>6

\* The texts whose bytes are four digits.
LEMMA FourDigitText ==
    ASSUME NEW text, text \in Seq(Character),
           Len(BytesOf(text)) = 4, \A i \in 1 .. 4 : BytesOf(text)[i] \in Digit
    PROVE  \E b1, b2, b3, b4 \in Digit : text = <<<<b1>>, <<b2>>, <<b3>>, <<b4>>>>
<1>1. BytesOf(text) \in Seq(Digit)
  <2>1. text \in Seq(Seq(Byte))
    <3>1. Character \subseteq Seq(Byte)
      BY DEF Character
    <3> QED
      BY <3>1, SeqMonotonic
  <2>2. PICK f : f \in [0 .. Len(text) -> Seq(Byte)] /\ Flattens(f, text)
    BY <2>1, FlattenRun
  <2>3. PICK b \in Seq(Byte) : b = BytesOf(text)
    <3>1. Len(text) \in 0 .. Len(text)
      OBVIOUS
    <3> QED
      BY <2>2, <3>1 DEF Flattens, BytesOf
  <2>4. Len(b) = 4 /\ \A i \in 1 .. 4 : b[i] \in Digit
    BY <2>3
  <2>5. b \in Seq(Digit)
    <3>1. 4 \in Nat /\ b \in [1 .. 4 -> Digit]
      BY <2>4
    <3> QED
      BY <3>1, FunctionSeq, Zenon
  <2> QED
    BY <2>3, <2>5
<1>2. text \in Seq(SingleDigit)
  BY <1>1, DigitText
<1>3. PICK n \in Nat : n = Len(text)
  OBVIOUS
<1>4. BytesOf(text) = FirstBytes(text)
  BY <1>2, FlattenSingles DEF SingleDigit, BytesOf
<1>5. /\ Len(FirstBytes(text)) = n
      /\ \A i \in 1 .. n : /\ FirstBytes(text)[i] \in Digit
                           /\ text[i] = <<FirstBytes(text)[i]>>
  BY <1>2, <1>3, FirstBytesAt
<1>6. n = 4
  BY <1>4, <1>5
<1> DEFINE b == FirstBytes(text)
<1>7. b[1] \in Digit /\ b[2] \in Digit /\ b[3] \in Digit /\ b[4] \in Digit
  BY <1>5, <1>6
<1>8. text[1] = <<b[1]>> /\ text[2] = <<b[2]>> /\ text[3] = <<b[3]>> /\ text[4] = <<b[4]>>
  BY <1>5, <1>6
<1> HIDE DEF b
<1>9. text = <<<<b[1]>>, <<b[2]>>, <<b[3]>>, <<b[4]>>>>
  <2>1. \A S : \A t \in Seq(S) : Len(t) = 4 => t = <<t[1], t[2], t[3], t[4]>>
    OBVIOUS
  <2>2. text = <<text[1], text[2], text[3], text[4]>>
    BY <1>2, <1>3, <1>6, <2>1
  <2> QED
    BY <1>8, <2>2, Zenon
<1> QED
  BY <1>7, <1>9

LEMMA DigitsOfText ==
    ASSUME NEW b1 \in Digit, NEW b2 \in Digit, NEW b3 \in Digit, NEW b4 \in Digit,
           NEW text, text = <<<<b1>>, <<b2>>, <<b3>>, <<b4>>>>
    PROVE  /\ Len(BytesOf(text)) = 4 /\ isDigits(text)
           /\ BytesOf(text)[1] = b1 /\ BytesOf(text)[2] = b2
           /\ BytesOf(text)[3] = b3 /\ BytesOf(text)[4] = b4
<1>1. <<b1>> \in SingleDigit /\ <<b2>> \in SingleDigit /\ <<b3>> \in SingleDigit /\ <<b4>> \in SingleDigit
  BY DEF SingleDigit
<1>2. text \in Seq(SingleDigit) /\ Len(text) = 4
  BY <1>1
<1>3. BytesOf(text) = FirstBytes(text)
  BY <1>2, FlattenSingles DEF SingleDigit, BytesOf
<1>4. isDigits(text)
  <2>1. DOMAIN text = 1 .. 4
    BY <1>2
  <2>2. \A i \in 1 .. 4 : text[i] \in SingleDigit
    BY <1>2, ElementOfSeq
  <2>3. \A i \in DOMAIN text : text[i] \in SingleDigit
    BY ONLY <2>1, <2>2
  <2> QED
    BY <2>3 DEF isDigits, SingleDigit
<1>5. Len(FirstBytes(text)) = 4 /\ \A i \in 1 .. 4 : FirstBytes(text)[i] = text[i][1]
  BY <1>2 DEF FirstBytes
<1> QED
  BY <1>3, <1>4, <1>5

\* Where an instant lies, and when it is before the last one of a month.
LEMMA MonthOf ==
    ASSUME NEW I \in Nat, I >= 2, NEW m \in Nat, NEW k \in 0 .. I - 1, NEW now, now = I * m + k
    PROVE  now \in Nat /\ now \div I = m /\ now % I = k
  OBVIOUS

LEMMA BeforeLast ==
    ASSUME NEW I \in Nat, I >= 2, NEW m \in Nat, NEW k \in 0 .. I - 1, NEW T \in Nat
    PROVE  I * m + k < T * I - 1 <=> m < T - 1 \/ (m = T - 1 /\ k # I - 1)
<1>1. CASE m < T - 1
  <2>1. I * (m + 1) <= I * (T - 1)
    BY <1>1
  <2> QED
    BY <1>1, <2>1
<1>2. CASE m = T - 1
  BY <1>2
<1>3. CASE m > T - 1
  <2>1. I * T <= I * m
    BY <1>3
  <2> QED
    BY <1>3, <2>1
<1> QED
  BY <1>1, <1>2, <1>3

\* A card is good through its month (ExpiryThroughMonth), for every date, every
\* month and every resolution of the clock.
THEOREM GoodThroughMonth == Spec => []ExpiryThroughMonth
<1>1. ASSUME Answered PROVE ExpiryThroughMonth
  <2> SUFFICES ASSUME Done("expiry") PROVE ExpiryThroughMonth
    BY Zenon DEF ExpiryThroughMonth
  <2>1. call.text \in Dates /\ call.now \in {Instants * m + k : m \in Months, k \in 0 .. Instants - 1}
    BY <1>1, Arguments DEF Answered, Done
  <2>2. Dates \subseteq Seq(Character) /\ Months \subseteq Nat
    BY InputAssumption, Zenon
  <2>3. Instants \in Nat /\ Instants >= 2
    BY FieldAssumption
  <2>4. PICK text, now : text = call.text /\ now = call.now /\ text \in Seq(Character)
    BY <2>1, <2>2
  <2>5. PICK m \in Nat, k \in 0 .. Instants - 1 : now = Instants * m + k
    BY <2>1, <2>2, <2>4
  <2>6. now \div Instants = m /\ now % Instants = k
    BY <2>3, <2>5, MonthOf
  <2>7. PICK val : val = result.val
    OBVIOUS
  <2>8. val = [accepted |-> ExpiryAccepted(text), valid |-> expiryValidYYMM(text, now)]
    BY <1>1, <2>4, <2>7 DEF Answered, AnswerIs
  \* The last instant of a month.
  <2>9. ASSUME NEW yy \in 0 .. 99, NEW mm \in 1 .. 12
        PROVE  now < StartOfMonth(2000 + yy, mm + 1) - 1
                  <=> m < 12 * yy + mm - 1 \/ (m = 12 * yy + mm - 1 /\ k # Instants - 1)
    <3>1. PICK T \in Nat : T = 12 * yy + mm
      OBVIOUS
    <3>2. 12 * ((2000 + yy) - 2000) + ((mm + 1) - 1) = T
      BY <3>1
    <3>3. StartOfMonth(2000 + yy, mm + 1) = T * Instants
      BY <3>2 DEF StartOfMonth
    <3>4. Instants * m + k < T * Instants - 1 <=> m < T - 1 \/ (m = T - 1 /\ k # Instants - 1)
      BY <2>3, BeforeLast
    <3> QED
      BY <2>5, <3>1, <3>3, <3>4
  <2>10. ASSUME val.valid
         PROVE  /\ \E yy \in 0 .. 99, mm \in 1 .. 12 :
                     /\ text = <<<<yy \div 10>>, <<yy % 10>>, <<mm \div 10>>, <<mm % 10>>>>
                     /\ m < 12 * yy + mm - 1 \/ (m = 12 * yy + mm - 1 /\ k # Instants - 1)
                /\ val.accepted
    <3>1. expiryValidYYMM(text, now)
      BY <2>8, <2>10
    <3>2. Len(BytesOf(text)) = 4 /\ \A i \in 1 .. 4 : BytesOf(text)[i] \in Digit
      BY <3>1 DEF expiryValidYYMM
    <3>3. PICK b1, b2, b3, b4 \in Digit : text = <<<<b1>>, <<b2>>, <<b3>>, <<b4>>>>
      BY <2>4, <3>2, FourDigitText
    <3>4. /\ Len(BytesOf(text)) = 4 /\ isDigits(text)
          /\ BytesOf(text)[1] = b1 /\ BytesOf(text)[2] = b2
          /\ BytesOf(text)[3] = b3 /\ BytesOf(text)[4] = b4
      BY <3>3, DigitsOfText
    <3>5. PICK yy, mm : yy = 10 * b1 + b2 /\ mm = 10 * b3 + b4
      OBVIOUS
    <3>6. mm \in 1 .. 12 /\ now < StartOfMonth(2000 + yy, mm + 1) - 1
      BY <3>1, <3>4, <3>5 DEF expiryValidYYMM, atoi2
    <3>7. /\ yy \in 0 .. 99
          /\ yy \div 10 = b1 /\ yy % 10 = b2 /\ mm \div 10 = b3 /\ mm % 10 = b4
      BY ONLY <3>5, b1 \in Digit, b2 \in Digit, b3 \in Digit, b4 \in Digit DEF Digit
    <3>8. m < 12 * yy + mm - 1 \/ (m = 12 * yy + mm - 1 /\ k # Instants - 1)
      BY <2>9, <3>6, <3>7
    <3>9. text = <<<<yy \div 10>>, <<yy % 10>>, <<mm \div 10>>, <<mm % 10>>>>
      BY <3>3, <3>7
    <3>10. val.accepted
      BY <2>8, <3>4 DEF ExpiryAccepted
    <3> QED
      BY <3>6, <3>7, <3>8, <3>9, <3>10
  <2>11. ASSUME NEW yy \in 0 .. 99, NEW mm \in 1 .. 12,
                text = <<<<yy \div 10>>, <<yy % 10>>, <<mm \div 10>>, <<mm % 10>>>>,
                m < 12 * yy + mm - 1 \/ (m = 12 * yy + mm - 1 /\ k # Instants - 1)
         PROVE  val.valid
    <3>1. PICK b1, b2, b3, b4 \in Digit :
              /\ b1 = yy \div 10 /\ b2 = yy % 10 /\ b3 = mm \div 10 /\ b4 = mm % 10
              /\ 10 * b1 + b2 = yy /\ 10 * b3 + b4 = mm
      <4>1. yy \div 10 \in 0 .. 9 /\ yy % 10 \in 0 .. 9 /\ 10 * (yy \div 10) + (yy % 10) = yy
        BY ONLY yy \in 0 .. 99
      <4>2. mm \div 10 \in 0 .. 9 /\ mm % 10 \in 0 .. 9 /\ 10 * (mm \div 10) + (mm % 10) = mm
        BY ONLY mm \in 1 .. 12
      <4> QED
        BY ONLY <4>1, <4>2 DEF Digit
    <3>2. text = <<<<b1>>, <<b2>>, <<b3>>, <<b4>>>>
      BY <2>11, <3>1
    <3>3. /\ Len(BytesOf(text)) = 4
          /\ BytesOf(text)[1] = b1 /\ BytesOf(text)[2] = b2
          /\ BytesOf(text)[3] = b3 /\ BytesOf(text)[4] = b4
      BY <3>2, DigitsOfText
    <3>4. \A i \in 1 .. 4 : BytesOf(text)[i] \in Digit
      <4>1. \A i \in 1 .. 4 : i = 1 \/ i = 2 \/ i = 3 \/ i = 4
        OBVIOUS
      <4> QED
        BY <3>3, <4>1
    <3>5. now < StartOfMonth(2000 + yy, mm + 1) - 1
      BY <2>9, <2>11, SMTT(30)
    <3>6. expiryValidYYMM(text, now)
      BY <3>1, <3>3, <3>4, <3>5 DEF expiryValidYYMM, atoi2
    <3> QED
      BY <2>8, <3>6
  <2>12. /\ val.valid <=>
              \E yy \in 0 .. 99, mm \in 1 .. 12 :
                 /\ text = <<<<yy \div 10>>, <<yy % 10>>, <<mm \div 10>>, <<mm % 10>>>>
                 /\ \/ now \div Instants < 12 * yy + mm - 1
                    \/ /\ now \div Instants = 12 * yy + mm - 1
                       /\ now % Instants # Instants - 1
         /\ val.valid => val.accepted
    BY <2>6, <2>10, <2>11, Zenon
  <2> QED
    BY <2>4, <2>7, <2>12, Zenon DEF ExpiryThroughMonth
<1> QED
  BY <1>1, AnsweredInvariant, PTL

------------------------------------------------------------------------------
\* EMV data.  The length of a tag.
LEMMA BigEndianRun ==
    ASSUME NEW n \in Nat, NEW bytes, Len(bytes) = n, \A i \in 1 .. n : bytes[i] \in Nat
    PROVE  \E s \in [0 .. n -> Nat] :
              /\ s[0] = 0 /\ \A i \in 1 .. n : s[i] = (256 * s[i - 1] + bytes[i]) % Word
              /\ BigEndian(bytes) = s[n]
<1> DEFINE G == [i \in 1 .. n |-> [x \in Nat |-> (256 * x + bytes[i]) % Word]]
           Sums(s) == s = [i \in 0 .. n |-> IF i = 0 THEN 0 ELSE (256 * s[i - 1] + bytes[i]) % Word]
           s == CHOOSE s : Sums(s)
<1>1. \A x \in Nat, i \in 0 + 1 .. n : G[i][x] = (256 * x + bytes[i]) % Word /\ G[i][x] \in Nat
  <2>1. \A m \in Nat : m % Word \in Nat
    BY WordAssumption
  <2> QED
    BY <2>1, SMTT(30)
<1> HIDE DEF G
<1>2. 0 \in Int /\ 0 \in Nat /\ n \in Int /\ 0 <= n
  OBVIOUS
<1>3. PICK r : r \in [0 .. n -> Nat] /\ Run(r, 0, n, 0, G)
  <2>1. \E r \in [0 .. n -> Nat] : Run(r, 0, n, 0, G)
    BY <1>1, <1>2, RunExists, Zenon
  <2> QED
    BY <2>1
<1>4. \A i \in 0 .. n : r[i] = IF i = 0 THEN 0 ELSE (256 * r[i - 1] + bytes[i]) % Word
  <2>1. \A i \in 0 .. n : r[i] \in Nat /\ r[i] = IF i = 0 THEN 0 ELSE G[i][r[i - 1]]
    BY <1>3 DEF Run
  <2>2. ASSUME NEW i \in 0 .. n, i # 0 PROVE r[i] = (256 * r[i - 1] + bytes[i]) % Word
    <3>1. r[i - 1] \in Nat /\ i \in 0 + 1 .. n /\ r[i] = G[i][r[i - 1]]
      BY <2>1, <2>2
    <3>2. G[i][r[i - 1]] = (256 * r[i - 1] + bytes[i]) % Word
      BY ONLY <1>1, <3>1
    <3> QED
      BY <3>1, <3>2, Zenon
  <2> QED
    BY <2>1, <2>2
<1>5. Sums(r)
  BY <1>3, <1>4
<1>6. Sums(s)
  <2> HIDE DEF Sums
  <2> QED
    BY <1>5
<1>7. BigEndian(bytes) = s[n]
  BY Zenon DEF BigEndian
<1> HIDE DEF s
<1>8. s[0] = 0 /\ \A i \in 1 .. n : s[i] = (256 * s[i - 1] + bytes[i]) % Word
  BY <1>6
<1>9. \A i \in 0 .. n : s[i] = r[i]
  <2>1. s[0] = r[0] /\ \A i \in 0 + 1 .. n : s[i - 1] = r[i - 1] => s[i] = r[i]
    BY <1>4, <1>8
  <2> QED
    BY ONLY <1>2, <2>1, RunsAgree
<1>10. s \in [0 .. n -> Nat]
  <2>1. s = [i \in 0 .. n |-> s[i]]
    BY <1>6
  <2>2. \A i \in 0 .. n : s[i] \in Nat
    BY <1>3, <1>9
  <2> QED
    BY <2>1, <2>2
<1> QED
  BY <1>7, <1>8, <1>10

LEMMA ByteNat == \A b \in Byte : b \in Nat
  BY DEF Byte

LEMMA BigEndianNat ==
    ASSUME NEW bytes \in Seq(Byte)
    PROVE  BigEndian(bytes) \in Nat
<1>1. PICK n \in Nat : n = Len(bytes)
  OBVIOUS
<1>2. \A i \in 1 .. n : bytes[i] \in Nat
  <2>1. \A i \in 1 .. n : bytes[i] \in Byte
    BY <1>1, ElementOfSeq
  <2> QED
    BY <2>1, ByteNat, Zenon
<1>3. PICK s \in [0 .. n -> Nat] : BigEndian(bytes) = s[n]
  BY <1>1, <1>2, BigEndianRun
<1> QED
  BY <1>3

\* The parts of an item.
LenPos(data, pos) == pos + IF TwoByteTag(data[pos]) THEN 2 ELSE 1
LenByte(data, pos) == data[LenPos(data, pos)]
Count(data, pos)  == IF LongForm(LenByte(data, pos)) THEN LenByte(data, pos) % 128 ELSE 0
ValPos(data, pos) == LenPos(data, pos) + 1 + Count(data, pos)
Length(data, pos) ==
    IF LongForm(LenByte(data, pos))
    THEN BigEndian(Slice(data, LenPos(data, pos) + 1, Count(data, pos))) ELSE LenByte(data, pos)
Header(data, pos) == Has(data, LenPos(data, pos), 1) /\ Has(data, LenPos(data, pos) + 1, Count(data, pos))
Panics(data, pos) == Header(data, pos) /\ ValPos(data, pos) - 1 + Length(data, pos) >= Word \div 2
Whole(data, pos)  == Header(data, pos) /\ Has(data, ValPos(data, pos), Length(data, pos))

LEMMA ItemIs ==
    ASSUME NEW data, NEW pos
    PROVE  /\ Item(data, pos).cut = (~Panics(data, pos) /\ ~Whole(data, pos))
           /\ Whole(data, pos) =>
                /\ Item(data, pos).tag =
                     [id |-> Slice(data, pos, IF TwoByteTag(data[pos]) THEN 2 ELSE 1),
                      val |-> Slice(data, ValPos(data, pos), Length(data, pos))]
                /\ Item(data, pos).next = End(data, ValPos(data, pos), Length(data, pos)) + 1
           /\ ~Whole(data, pos) => /\ Item(data, pos).tag = Panic
                                   /\ Item(data, pos).next = Len(data) + 1
<1>1. Item(data, pos) =
        [cut  |-> ~Panics(data, pos) /\ ~Whole(data, pos),
         tag  |-> IF Whole(data, pos)
                  THEN [id |-> Slice(data, pos, IF TwoByteTag(data[pos]) THEN 2 ELSE 1),
                        val |-> Slice(data, ValPos(data, pos), Length(data, pos))]
                  ELSE Panic,
         next |-> IF Whole(data, pos) THEN End(data, ValPos(data, pos), Length(data, pos)) + 1
                  ELSE Len(data) + 1]
  BY Zenon DEF Item, Panics, Whole, Header, Length, ValPos, Count, LenByte, LenPos
<1> QED
  BY <1>1

\* Where the parts of an item lie, if its header is there.
LEMMA HeaderPlace ==
    ASSUME NEW data \in Seq(Byte), NEW n \in Nat, n = Len(data), NEW pos \in 1 .. n,
           Header(data, pos)
    PROVE  /\ LenPos(data, pos) \in pos + 1 .. n /\ LenPos(data, pos) <= pos + 2
           /\ Count(data, pos) \in Nat /\ Length(data, pos) \in Nat
           /\ ValPos(data, pos) \in LenPos(data, pos) + 1 .. n + 1
           /\ ValPos(data, pos) = LenPos(data, pos) + 1 + Count(data, pos)
<1> DEFINE l == LenPos(data, pos)
           c == Count(data, pos)
<1>1. l \in Nat /\ l \in {pos + 1, pos + 2}
  BY DEF LenPos
<1>2. l <= n /\ l + 1 <= n + 1 /\ (l + 1) + c - 1 <= n
  BY <1>1 DEF Header, Has, End
<1>3. LenByte(data, pos) \in Byte
  BY <1>1, <1>2, ElementOfSeq DEF LenByte
<1>4. c \in Nat
  <2>1. PICK b \in Nat : b = LenByte(data, pos)
    BY <1>3 DEF Byte
  <2>2. b % 128 \in Nat
    BY <2>1
  <2> QED
    BY <2>1, <2>2 DEF Count
<1>5. Slice(data, l + 1, c) \in Seq(Byte)
  <2> HIDE DEF l, c
  <2>1. \A i \in l + 1 .. (l + 1) + c - 1 : i \in 1 .. n
    BY <1>1, <1>2, <1>4
  <2> QED
    BY <1>1, <1>4, <2>1 DEF Slice, End
<1>6. Length(data, pos) \in Nat
  <2>1. BigEndian(Slice(data, LenPos(data, pos) + 1, Count(data, pos))) \in Nat
    BY <1>5, BigEndianNat, Zenon
  <2>2. LenByte(data, pos) \in Nat
    BY <1>3, ByteNat, Zenon
  <2> QED
    BY <2>1, <2>2, Zenon DEF Length
<1> HIDE DEF l, c
<1>7. l + 1 + c \in l + 1 .. n + 1 /\ l \in pos + 1 .. n /\ l <= pos + 2
  BY <1>1, <1>2, <1>4
<1> QED
  BY <1>4, <1>6, <1>7 DEF ValPos, l, c

\* What a list of tags is made of.
AnyTag == [id : Seq(Byte), val : Seq(Byte)] \cup {Panic}

LEMMA SliceIs ==
    ASSUME NEW data \in Seq(Byte), NEW a \in Nat \ {0}, NEW c \in Nat, a + c - 1 <= Len(data)
    PROVE  /\ Slice(data, a, c) \in Seq(Byte) /\ Len(Slice(data, a, c)) = c
           /\ \A i \in 1 .. c : Slice(data, a, c)[i] = data[a + i - 1]
<1>1. \A i \in a .. a + c - 1 : data[i] \in Byte
  BY ElementOfSeq
<1> QED
  BY <1>1, SubSeqProperties DEF Slice, End

LEMMA ItemNext ==
    ASSUME NEW data \in Seq(Byte), NEW n \in Nat, n = Len(data), NEW pos \in 1 .. n,
           ~Item(data, pos).cut
    PROVE  Item(data, pos).next \in pos + 1 .. n + 1 /\ Item(data, pos).tag \in AnyTag
<1>1. CASE Whole(data, pos)
  <2>1. Header(data, pos)
    BY <1>1 DEF Whole
  <2>2. PICK l \in Nat, v \in Nat, len \in Nat :
            /\ l = LenPos(data, pos) /\ v = ValPos(data, pos) /\ len = Length(data, pos)
            /\ l \in pos + 1 .. n /\ v \in l + 1 .. n + 1
    <3>1. LenPos(data, pos) \in Nat /\ ValPos(data, pos) \in Nat
      BY <2>1, HeaderPlace
    <3> QED
      BY <2>1, <3>1, HeaderPlace
  <2>3. v + len - 1 <= n
    BY <1>1, <2>2 DEF Whole, Has, End
  <2>4. Item(data, pos).next = v + len - 1 + 1
    BY <1>1, <2>2, ItemIs DEF End
  <2>5. Item(data, pos).tag = [id |-> Slice(data, pos, IF TwoByteTag(data[pos]) THEN 2 ELSE 1),
                               val |-> Slice(data, v, len)]
    BY <1>1, <2>2, ItemIs
  <2>6. PICK t \in Nat : t = IF TwoByteTag(data[pos]) THEN 2 ELSE 1
    OBVIOUS
  <2>7. l = pos + t
    BY <2>2, <2>6 DEF LenPos
  <2>8. Slice(data, pos, t) \in Seq(Byte)
    BY <2>2, <2>7, SliceIs
  <2>9. Slice(data, v, len) \in Seq(Byte)
    BY <2>2, <2>3, SliceIs
  <2>10. Item(data, pos).tag \in AnyTag
    <3>1. PICK x \in Seq(Byte) : x = Slice(data, pos, t)
      BY <2>8
    <3>2. PICK y \in Seq(Byte) : y = Slice(data, v, len)
      BY <2>9
    <3>3. Item(data, pos).tag = [id |-> x, val |-> y]
      BY <2>5, <2>6, <3>1, <3>2
    <3> QED
      BY <3>3 DEF AnyTag
  <2> QED
    BY <2>2, <2>3, <2>4, <2>10
<1>2. CASE ~Whole(data, pos)
  <2>1. Item(data, pos).tag = Panic /\ Item(data, pos).next = n + 1
    BY <1>2, ItemIs
  <2> QED
    BY <2>1 DEF AnyTag
<1> QED
  BY <1>1, <1>2

\* What the loop takes from each position.
Parses(s, data, n) ==
    \A p \in 1 .. n + 1 :
        s[p] = IF p > n \/ Item(data, p).cut THEN <<>>
               ELSE Cat(<<Item(data, p).tag>>, s[Item(data, p).next])

LEMMA ParseIs ==
    ASSUME NEW data \in Seq(Byte), NEW n \in Nat, n = Len(data)
    PROVE  \E s : /\ Parses(s, data, n) /\ ParseEMVData(data) = s[1]
                  /\ \A p \in 1 .. n + 1 : s[p] \in Seq(AnyTag)
<1> DEFINE From(s) == s = [p \in 1 .. n + 1 |->
                              IF p > n \/ Item(data, p).cut THEN <<>>
                              ELSE <<Item(data, p).tag>> \o s[Item(data, p).next]]
           s == CHOOSE s : From(s)
           Stop == {p \in 1 .. n + 1 : p > n \/ Item(data, p).cut}
           head == [p \in 1 .. n + 1 |-> <<Item(data, p).tag>>]
           nxt  == [p \in 1 .. n + 1 |-> Item(data, p).next]
<1>1. ParseEMVData(data) = s[1]
  BY Zenon DEF ParseEMVData
<1>2. 1 \in Int /\ n + 1 \in Int /\ 1 <= n + 1
  OBVIOUS
<1>3. \A p \in (1 .. n + 1) \ Stop : nxt[p] \in p + 1 .. n + 1 /\ head[p] \in Seq(AnyTag)
  <2> SUFFICES ASSUME NEW p \in (1 .. n + 1) \ Stop
               PROVE  nxt[p] \in p + 1 .. n + 1 /\ head[p] \in Seq(AnyTag)
    BY Zenon
  <2>1. p \in 1 .. n /\ ~Item(data, p).cut
    OBVIOUS
  <2>2. Item(data, p).next \in p + 1 .. n + 1 /\ Item(data, p).tag \in AnyTag
    BY <2>1, ItemNext
  <2>3. <<Item(data, p).tag>> \in Seq(AnyTag)
    BY <2>2
  <2> QED
    BY <2>2, <2>3, Zenon
<1>4. PICK r : Scan(r, 1, n + 1, Stop, head, nxt)
  <2> HIDE DEF Stop, head, nxt
  <2>1. \A p \in (1 .. n + 1) \ Stop : nxt[p] \in p + 1 .. n + 1
    BY <1>3
  <2> QED
    BY ONLY <1>2, <2>1, ScanExists
<1>5. ASSUME NEW t PROVE From(t) <=> Scan(t, 1, n + 1, Stop, head, nxt)
  <2>1. ASSUME NEW p \in 1 .. n + 1
        PROVE  (IF p > n \/ Item(data, p).cut THEN <<>>
                ELSE <<Item(data, p).tag>> \o t[Item(data, p).next])
               = IF p \in Stop THEN <<>> ELSE head[p] \o t[nxt[p]]
    <3>1. p \in Stop <=> p > n \/ Item(data, p).cut
      OBVIOUS
    <3>2. head[p] = <<Item(data, p).tag>> /\ nxt[p] = Item(data, p).next
      OBVIOUS
    <3> HIDE DEF Stop, head, nxt
    <3> QED
      BY <3>1, <3>2, Zenon
  <2>2. [p \in 1 .. n + 1 |-> IF p > n \/ Item(data, p).cut THEN <<>>
                              ELSE <<Item(data, p).tag>> \o t[Item(data, p).next]]
        = [p \in 1 .. n + 1 |-> IF p \in Stop THEN <<>> ELSE head[p] \o t[nxt[p]]]
    <3> HIDE DEF Stop, head, nxt
    <3> QED
      BY <2>1, Zenon
  <2> HIDE DEF Stop, head, nxt
  <2> QED
    BY <2>2, Zenon DEF Scan
<1>6. From(s)
  <2>1. From(r)
    BY <1>4, <1>5, Zenon
  <2> HIDE DEF From
  <2> QED
    BY <2>1, Zenon
<1>7. Scan(s, 1, n + 1, Stop, head, nxt)
  BY <1>5, <1>6, Zenon
<1>8. \A p \in 1 .. n + 1 : /\ s[p] \in Seq(AnyTag)
                            /\ s[p] = IF p \in Stop THEN <<>> ELSE head[p] \o s[nxt[p]]
  <2>1. ScanTakes(1, n + 1, Stop, head, nxt, AnyTag)
    <3> HIDE DEF Stop, head, nxt
    <3> QED
      BY <1>3, Zenon DEF ScanTakes
  <2> HIDE DEF Stop, head, nxt, s
  <2>2. ScanFrom(s, 1, n + 1, Stop, head, nxt, AnyTag)
    BY ONLY <1>2, <2>1, <1>7, ScanValues, Zenon
  <2> QED
    BY <2>2, Zenon DEF ScanFrom
<1>9. Parses(s, data, n)
  <2> HIDE DEF s
  <2>1. ASSUME NEW p \in 1 .. n + 1
        PROVE  s[p] = IF p > n \/ Item(data, p).cut THEN <<>>
                      ELSE Cat(<<Item(data, p).tag>>, s[Item(data, p).next])
    <3>1. p \in Stop <=> p > n \/ Item(data, p).cut
      OBVIOUS
    <3>2. head[p] = <<Item(data, p).tag>> /\ nxt[p] = Item(data, p).next
      OBVIOUS
    <3> HIDE DEF Stop, head, nxt
    <3> QED
      BY <1>8, <3>1, <3>2, Zenon DEF Cat
  <2> QED
    BY <2>1, Zenon DEF Parses
<1> HIDE DEF s
<1> QED
  BY <1>1, <1>8, <1>9, Zenon

\* Data that begins with other data: an item that is not cut off there is the
\* same item, unless it is a panic, which ends both.
LEMMA SameItem ==
    ASSUME NEW data \in Seq(Byte), NEW n \in Nat, n = Len(data), n < Word \div 2,
           NEW short \in Seq(Byte), NEW k \in 0 .. n, k = Len(short),
           \A i \in 1 .. k : short[i] = data[i],
           NEW pos \in 1 .. k, ~Item(short, pos).cut
    PROVE  /\ ~Item(data, pos).cut /\ Item(data, pos).tag = Item(short, pos).tag
           /\ \/ Item(data, pos).next = Item(short, pos).next
              \/ Item(short, pos).next = k + 1
<1>1. Header(short, pos)
  BY ItemIs DEF Panics, Whole
<1>2. PICK l \in Nat, c \in Nat, v \in Nat, len \in Nat :
          /\ l = LenPos(short, pos) /\ c = Count(short, pos)
          /\ v = ValPos(short, pos) /\ len = Length(short, pos)
          /\ l \in pos + 1 .. k /\ l <= pos + 2 /\ v \in l + 1 .. k + 1 /\ v = l + 1 + c
  <2>1. LenPos(short, pos) \in Nat /\ ValPos(short, pos) \in Nat
    BY <1>1, HeaderPlace
  <2> QED
    BY <1>1, <2>1, HeaderPlace
<1>3. short[pos] = data[pos] /\ short[l] = data[l]
  BY <1>2, SMTT(30)
<1>4. l = LenPos(data, pos) /\ LenByte(data, pos) = LenByte(short, pos)
  BY <1>2, <1>3, Zenon DEF LenPos, LenByte
<1>5. c = Count(data, pos) /\ v = ValPos(data, pos)
  BY <1>2, <1>4, Zenon DEF Count, ValPos
<1>6. ASSUME NEW a \in Nat \ {0}, NEW b \in Nat, a + b - 1 <= k
      PROVE  Slice(short, a, b) = Slice(data, a, b)
  <2>1. /\ Slice(short, a, b) \in Seq(Byte) /\ Len(Slice(short, a, b)) = b
        /\ \A i \in 1 .. b : Slice(short, a, b)[i] = short[a + i - 1]
    BY <1>6, SliceIs
  <2>2. /\ Slice(data, a, b) \in Seq(Byte) /\ Len(Slice(data, a, b)) = b
        /\ \A i \in 1 .. b : Slice(data, a, b)[i] = data[a + i - 1]
    <3>1. a + b - 1 <= Len(data)
      BY <1>6
    <3> QED
      BY ONLY data \in Seq(Byte), a \in Nat \ {0}, b \in Nat, <3>1, SliceIs
  <2>3. \A i \in 1 .. b : a + i - 1 \in 1 .. k
    BY <1>6
  <2>4. \A i \in 1 .. b : Slice(short, a, b)[i] = Slice(data, a, b)[i]
    BY <2>1, <2>2, <2>3
  <2> QED
    BY <2>1, <2>2, <2>4, SameElements, Zenon
<1>7. len = Length(data, pos)
  <2>1. Slice(short, l + 1, c) = Slice(data, l + 1, c)
    BY <1>2, <1>6, SMTT(30)
  <2> QED
    BY <1>2, <1>4, <1>5, <2>1, Zenon DEF Length
<1>8. /\ Header(data, pos)
      /\ Whole(short, pos) <=> v <= k + 1 /\ v + len - 1 <= k
      /\ Whole(data, pos) <=> v <= n + 1 /\ v + len - 1 <= n
  <2>1. Header(data, pos)
    <3>1. l <= n + 1 /\ l + 1 - 1 <= n /\ l + 1 <= n + 1 /\ (l + 1) + c - 1 <= n
      BY <1>2, SMTT(30)
    <3> QED
      BY <1>4, <1>5, <3>1 DEF Header, Has, End
  <2> QED
    BY <1>1, <1>2, <1>5, <1>7, <2>1 DEF Whole, Has, End
<1>9. CASE Whole(short, pos)
  <2>0. v + len - 1 <= k /\ v <= n + 1 /\ v + len - 1 <= n
    <3>1. v <= k + 1 /\ v + len - 1 <= k
      BY ONLY <1>8, <1>9
    <3> QED
      BY ONLY k \in 0 .. n, n \in Nat, len \in Nat, v \in Nat, <3>1
  <2>1. Whole(data, pos)
    BY ONLY <1>8, <2>0
  <2>2. PICK t \in Nat : t = IF TwoByteTag(data[pos]) THEN 2 ELSE 1
    OBVIOUS
  <2>3. l = pos + t
    BY <1>4, <2>2 DEF LenPos
  <2>4. Slice(short, pos, t) = Slice(data, pos, t)
    BY <1>2, <1>6, <2>3
  <2>5. Slice(short, v, len) = Slice(data, v, len)
    <3>1. v \in Nat \ {0} /\ len \in Nat
      BY ONLY <1>2, pos \in 1 .. k, k \in 0 .. n, n \in Nat, len \in Nat, v \in Nat, l \in Nat
    <3> QED
      BY ONLY <1>6, <2>0, <3>1
  <2>6. Item(data, pos).tag = [id |-> Slice(data, pos, t), val |-> Slice(data, v, len)]
    BY <1>5, <1>7, <2>1, <2>2, ItemIs
  <2>7. Item(short, pos).tag = [id |-> Slice(short, pos, t), val |-> Slice(short, v, len)]
    BY <1>2, <1>3, <1>9, <2>2, ItemIs
  <2>8. Item(data, pos).next = v + len - 1 + 1 /\ Item(short, pos).next = v + len - 1 + 1
    BY <1>2, <1>5, <1>7, <1>9, <2>1, ItemIs, ZenonT(30) DEF End
  <2> QED
    BY <2>1, <2>4, <2>5, <2>6, <2>7, <2>8, ItemIs
<1>10. CASE ~Whole(short, pos)
  <2>1. Panics(short, pos)
    BY <1>10, ItemIs
  <2>2. v - 1 + len >= Word \div 2
    BY <1>2, <2>1 DEF Panics
  <2>3. Panics(data, pos)
    BY <1>5, <1>7, <1>8, <2>2 DEF Panics
  <2>4. Word \div 2 \in Nat
    BY WordAssumption
  <2>5. v + len - 1 > n
    BY ONLY <2>2, <2>4, v \in Nat, len \in Nat, n \in Nat, n < Word \div 2
  <2>6. ~Whole(data, pos)
    BY ONLY <1>8, <2>5, v \in Nat, len \in Nat, n \in Nat
  <2> QED
    BY <1>10, <2>3, <2>6, ItemIs
<1> QED
  BY <1>9, <1>10

\* Data that is cut off anywhere yields the first of its tags
\* (TruncationLosesTheTail), however long the data and whatever bytes it has.
THEOREM TruncationSafe == Spec => []TruncationLosesTheTail
<1>1. ASSUME NEW data \in Seq(Byte), NEW n \in Nat, n = Len(data), n < Word \div 2, NEW k \in 0 .. n
      PROVE  IsPrefix(ParseEMVData(SubSeq(data, 1, k)), ParseEMVData(data))
  <2>1. PICK short \in Seq(Byte) : /\ short = SubSeq(data, 1, k) /\ Len(short) = k
                                   /\ \A i \in 1 .. k : short[i] = data[i]
    <3>1. (\A i \in 1 .. k : data[i] \in Byte) /\ k \in Int
      BY <1>1, ElementOfSeq
    <3>2. /\ SubSeq(data, 1, k) \in Seq(Byte) /\ Len(SubSeq(data, 1, k)) = k
          /\ \A i \in 1 .. k : SubSeq(data, 1, k)[i] = data[i]
      BY ONLY k \in 0 .. n, n \in Nat, <3>1, SubSeqProperties
    <3> QED
      BY <3>2, Zenon
  <2>. k \in Nat
    OBVIOUS
  <2>2. PICK s : /\ Parses(s, data, n) /\ ParseEMVData(data) = s[1]
                 /\ \A p \in 1 .. n + 1 : s[p] \in Seq(AnyTag)
    BY <1>1, ParseIs
  <2>3. PICK t : /\ Parses(t, short, k) /\ ParseEMVData(short) = t[1]
                 /\ \A p \in 1 .. k + 1 : t[p] \in Seq(AnyTag)
    BY <1>1, <2>1, ParseIs
  <2> DEFINE T == {p \in 1 .. k + 1 : IsPrefix(t[p], s[p])}
  <2>4. ASSUME NEW p \in 1 .. k + 1, \A q \in 1 .. k + 1 : p < q => q \in T PROVE p \in T
    <3>0. p \in 1 .. n + 1
      BY <1>1
    <3>1. CASE p > k \/ Item(short, p).cut
      <4>1. t[p] = <<>>
        BY <2>3, <3>1 DEF Parses
      <4>2. IsPrefix(<<>>, s[p])
        BY <2>2, <3>0 DEF IsPrefix
      <4> QED
        BY <4>1, <4>2
    <3>2. CASE p \in 1 .. k /\ ~Item(short, p).cut
      <4>1. /\ ~Item(data, p).cut /\ Item(data, p).tag = Item(short, p).tag
            /\ Item(data, p).next = Item(short, p).next \/ Item(short, p).next = k + 1
        BY <1>1, <2>1, <3>2, SameItem
      <4>2. Item(short, p).next \in p + 1 .. k + 1
        BY <1>1, <2>1, <3>2, ItemNext
      <4>3. Item(data, p).next \in p + 1 .. n + 1 /\ Item(data, p).tag \in AnyTag
        BY <1>1, <3>2, <4>1, ItemNext
      <4>4. PICK e \in AnyTag, i \in p + 1 .. k + 1, j \in p + 1 .. n + 1 :
                /\ e = Item(data, p).tag /\ i = Item(short, p).next /\ j = Item(data, p).next
        BY <4>2, <4>3
      <4>5. t[p] = Cat(<<e>>, t[i])
        BY <2>3, <3>2, <4>1, <4>4 DEF Parses
      <4>6. s[p] = Cat(<<e>>, s[j])
        <5>1. ~(p > n)
          BY <1>1, <3>2
        <5> QED
          BY <2>2, <3>0, <4>1, <4>4, <5>1 DEF Parses
      <4>7. i \in 1 .. k + 1 /\ j \in 1 .. n + 1 /\ p < i
        BY <1>1
      <4>8. IsPrefix(t[i], s[j])
        <5>1. CASE i = j
          BY <2>4, <4>7, <5>1
        <5>2. CASE i = k + 1
          <6>1. t[i] = <<>>
            <7>1. i > k
              BY <5>2
            <7> QED
              BY <2>3, <4>7, <7>1 DEF Parses
          <6> QED
            BY <2>2, <4>7, <6>1 DEF IsPrefix
        <5> QED
          BY <4>1, <4>4, <5>1, <5>2
      <4>9. t[i] \in Seq(AnyTag) /\ s[j] \in Seq(AnyTag)
        BY <2>2, <2>3, <4>7
      <4>10. IsPrefix(t[p], s[p])
        BY <4>5, <4>6, <4>8, <4>9, PrefixGrows
      <4> QED
        BY <4>10
    <3> QED
      BY <3>1, <3>2
  <2>5. \A p \in 1 .. k + 1 : p \in T
    <3>1. 1 \in Int /\ k + 1 \in Int
      BY <1>1
    <3> HIDE DEF T
    <3> QED
      BY <2>4, <3>1, DownwardInduction
  <2>6. IsPrefix(t[1], s[1])
    BY <2>5
  <2> QED
    BY <2>1, <2>2, <2>3, <2>6
<1>2. ASSUME Answered PROVE TruncationLosesTheTail
  <2> SUFFICES ASSUME Done("parse"), NEW k \in 0 .. MaxData, k <= Len(call.data)
      PROVE  IsPrefix(ParseEMVData(SubSeq(call.data, 1, k)), result.val)
    BY Zenon DEF TruncationLosesTheTail
  <2>1. result.val = ParseEMVData(call.data)
    BY <1>2 DEF Answered, AnswerIs
  <2>2. call.data \in UpTo(Bytes, MaxData)
    BY <1>2, Arguments DEF Answered, Done
  <2>3. PICK n \in 0 .. MaxData : call.data \in [1 .. n -> Bytes]
    BY <2>2 DEF UpTo
  <2>4. PICK data : data = call.data
    OBVIOUS
  <2>5. n \in Nat /\ n < Word \div 2 /\ \A b \in Bytes : b \in Byte
    <3>1. Word \div 2 \in Nat
      BY WordAssumption
    <3> QED
      BY <3>1, InputAssumption
  <2>6. data \in Seq(Byte) /\ Len(data) = n
    <3>1. data \in [1 .. n -> Byte]
      BY <2>3, <2>4, <2>5
    <3> QED
      BY <2>5, <3>1, FunctionSeq
  <2>7. k \in 0 .. n
    BY <2>4, <2>5, <2>6
  <2> QED
    BY <1>1, <2>1, <2>4, <2>5, <2>6, <2>7
<1> QED
  BY <1>2, AnsweredInvariant, PTL

\* An int holds what two bytes hold.
TwoBytes == 256 * 256

LEMMA TwoBytesFit == \A m \in Nat : m < TwoBytes => m % Word = m
<1> SUFFICES ASSUME NEW m \in Nat, m < TwoBytes PROVE m % Word = m
  BY Zenon
<1>1. Word \in Nat /\ m < Word
  BY WordAssumption DEF TwoBytes
<1> QED
  BY ONLY m \in Nat, <1>1

LEMMA ByteFits == \A m \in 0 .. 255 : m \in Nat /\ m < TwoBytes
  BY DEF TwoBytes

\* The number that the bytes of a length hold.
LEMMA BigEndianOne ==
    ASSUME NEW bytes, Len(bytes) = 1, NEW v \in 0 .. 255, bytes[1] = v
    PROVE  BigEndian(bytes) = v
<1>1. \A i \in 1 .. 1 : bytes[i] \in Nat
  OBVIOUS
<1>2. PICK s \in [0 .. 1 -> Nat] :
          /\ s[0] = 0 /\ \A i \in 1 .. 1 : s[i] = (256 * s[i - 1] + bytes[i]) % Word
          /\ BigEndian(bytes) = s[1]
  <2>1. PICK n \in Nat : n = 1
    OBVIOUS
  <2>2. Len(bytes) = n /\ \A i \in 1 .. n : bytes[i] \in Nat
    BY <1>1, <2>1
  <2>3. \E s \in [0 .. n -> Nat] :
          /\ s[0] = 0 /\ \A i \in 1 .. n : s[i] = (256 * s[i - 1] + bytes[i]) % Word
          /\ BigEndian(bytes) = s[n]
    BY ONLY n \in Nat, <2>2, BigEndianRun, ZenonT(30)
  <2> QED
    BY ONLY <2>1, <2>3
<1>3. s[1] = (256 * s[0] + v) % Word
  BY <1>2
<1>4. v % Word = v
  BY ByteFits, TwoBytesFit
<1> QED
  BY <1>2, <1>3, <1>4

LEMMA BigEndianTwo ==
    ASSUME NEW bytes, Len(bytes) = 2, NEW v \in Nat, v < TwoBytes,
           bytes[1] = (v \div 256) % 256, bytes[2] = v % 256
    PROVE  BigEndian(bytes) = v
<1>1. PICK a \in 0 .. 255, b \in 0 .. 255 : a = (v \div 256) % 256 /\ b = v % 256 /\ 256 * a + b = v
  <2>1. v \div 256 \in 0 .. 255 /\ v % 256 \in 0 .. 255 /\ 256 * (v \div 256) + (v % 256) = v
    BY DEF TwoBytes
  <2>2. (v \div 256) % 256 = v \div 256
    BY ONLY <2>1
  <2> QED
    BY ONLY <2>1, <2>2, ZenonT(30)
<1>2. bytes[1] = a /\ bytes[2] = b /\ \A i \in 1 .. 2 : bytes[i] \in Nat
  <2>1. \A i \in 1 .. 2 : i = 1 \/ i = 2
    OBVIOUS
  <2> QED
    BY <1>1, <2>1
<1>3. PICK s \in [0 .. 2 -> Nat] :
          /\ s[0] = 0 /\ \A i \in 1 .. 2 : s[i] = (256 * s[i - 1] + bytes[i]) % Word
          /\ BigEndian(bytes) = s[2]
  <2>1. PICK n \in Nat : n = 2
    OBVIOUS
  <2>2. Len(bytes) = n /\ \A i \in 1 .. n : bytes[i] \in Nat
    BY <1>2, <2>1
  <2>3. \E s \in [0 .. n -> Nat] :
          /\ s[0] = 0 /\ \A i \in 1 .. n : s[i] = (256 * s[i - 1] + bytes[i]) % Word
          /\ BigEndian(bytes) = s[n]
    BY ONLY n \in Nat, <2>2, BigEndianRun, ZenonT(30)
  <2> QED
    BY ONLY <2>1, <2>3
<1>4. s[1] = (256 * 0 + a) % Word /\ s[2] = (256 * s[1] + b) % Word
  BY <1>2, <1>3
<1>5. a % Word = a /\ v % Word = v
  <2>1. a \in Nat /\ a < TwoBytes
    BY ByteFits
  <2> QED
    BY <2>1, TwoBytesFit, Zenon
<1>6. s[1] = a
  BY <1>4, <1>5
<1> QED
  BY <1>1, <1>3, <1>4, <1>5, <1>6

\* Length bytes: what the first says, and the number the others hold.
HoldsLength(bytes, e, v) ==
    /\ bytes \in Seq(Byte) /\ Len(bytes) = e /\ bytes[1] \in Byte
    /\ (IF LongForm(bytes[1]) THEN bytes[1] % 128 ELSE 0) = e - 1
    /\ ~LongForm(bytes[1]) => bytes[1] = v
    /\ LongForm(bytes[1]) =>
           \A rest : Len(rest) = e - 1 /\ (\A i \in 1 .. e - 1 : rest[i] = bytes[i + 1])
                       => BigEndian(rest) = v

LEMMA LengthBytes ==
    ASSUME NEW v \in Nat, v < TwoBytes
    PROVE  \E e \in 1 .. 3 : HoldsLength(EncodedLength(v), e, v)
<1>1. CASE v < 128
  <2>1. EncodedLength(v) = <<v>>
    BY <1>1, Zenon DEF EncodedLength
  <2>2. v \in Byte /\ ~LongForm(v)
    BY <1>1 DEF Byte, LongForm
  <2>3. PICK b : b = <<v>> /\ b \in Seq(Byte) /\ Len(b) = 1 /\ b[1] = v
    <3>1. <<v>> \in Seq(Byte) /\ Len(<<v>>) = 1 /\ <<v>>[1] = v
      BY <2>2
    <3> QED
      BY <3>1, Zenon
  <2>4. HoldsLength(b, 1, v)
    BY <2>2, <2>3 DEF HoldsLength
  <2>5. 1 \in 1 .. 3
    OBVIOUS
  <2> QED
    BY <2>1, <2>3, <2>4, <2>5, Zenon
<1>2. CASE v >= 128 /\ v < 256
  <2>1. EncodedLength(v) = <<129, v>>
    BY <1>2 DEF EncodedLength
  <2>2. v \in Byte /\ 129 \in Byte /\ v \in 0 .. 255 /\ LongForm(129) /\ 129 % 128 = 1
    BY <1>2 DEF Byte, LongForm
  <2>3. PICK b : b = <<129, v>> /\ b \in Seq(Byte) /\ Len(b) = 2 /\ b[1] = 129 /\ b[2] = v
    <3>1. /\ <<129, v>> \in Seq(Byte) /\ Len(<<129, v>>) = 2
          /\ <<129, v>>[1] = 129 /\ <<129, v>>[2] = v
      BY <2>2
    <3> QED
      BY <3>1
  <2>4. ASSUME NEW rest, Len(rest) = 2 - 1, \A i \in 1 .. 2 - 1 : rest[i] = b[i + 1]
        PROVE  BigEndian(rest) = v
    <3>1. rest[1] = v /\ Len(rest) = 1
      BY <2>3, <2>4
    <3> QED
      BY ONLY <2>2, <3>1, BigEndianOne
  <2>5. HoldsLength(b, 2, v)
    BY <2>2, <2>3, <2>4 DEF HoldsLength
  <2>6. 2 \in 1 .. 3
    OBVIOUS
  <2> QED
    BY ONLY <2>1, <2>3, <2>5, <2>6
<1>3. CASE v >= 256
  <2>1. PICK a, c : a = (v \div 256) % 256 /\ c = v % 256
    OBVIOUS
  <2>2. EncodedLength(v) = <<130, a, c>>
    BY <1>3, <2>1 DEF EncodedLength
  <2>3. a \in Byte /\ c \in Byte /\ 130 \in Byte /\ LongForm(130) /\ 130 % 128 = 2
    BY <2>1 DEF Byte, LongForm
  <2>4. PICK b : /\ b = <<130, a, c>> /\ b \in Seq(Byte) /\ Len(b) = 3
                 /\ b[1] = 130 /\ b[2] = a /\ b[3] = c
    <3>1. /\ <<130, a, c>> \in Seq(Byte) /\ Len(<<130, a, c>>) = 3
          /\ <<130, a, c>>[1] = 130 /\ <<130, a, c>>[2] = a /\ <<130, a, c>>[3] = c
      BY ONLY <2>3
    <3> QED
      BY ONLY <3>1
  <2>5. ASSUME NEW rest, Len(rest) = 3 - 1, \A i \in 1 .. 3 - 1 : rest[i] = b[i + 1]
        PROVE  BigEndian(rest) = v
    <3>1. rest[1] = a /\ rest[2] = c /\ Len(rest) = 2
      BY ONLY <2>4, <2>5
    <3> QED
      BY ONLY <2>1, <3>1, v \in Nat, v < TwoBytes, BigEndianTwo
  <2>6. HoldsLength(b, 3, v)
    BY <2>3, <2>4, <2>5 DEF HoldsLength
  <2>7. 3 \in 1 .. 3
    OBVIOUS
  <2> QED
    BY ONLY <2>2, <2>4, <2>6, <2>7
<1> QED
  BY <1>1, <1>2, <1>3

\* A tag that is encoded in the data after the first a bytes is read there.
HasEncoded(data, a, m, t) ==
    /\ m = Len(Encoded(t)) /\ a + m <= Len(data)
    /\ \A j \in 1 .. m : data[a + j] = Encoded(t)[j]

ReadsTag(data, a, m, t) ==
    /\ m > 0 /\ ~Item(data, a + 1).cut /\ Item(data, a + 1).tag = t
    /\ Item(data, a + 1).next = a + m + 1

LEMMA EncodedItem ==
    ASSUME NEW t \in Tag, NEW data \in Seq(Byte), NEW a \in Nat, NEW m \in Nat,
           HasEncoded(data, a, m, t)
    PROVE  ReadsTag(data, a, m, t)
<1>0. /\ m = Len(Encoded(t)) /\ a + m <= Len(data)
      /\ \A j \in 1 .. m : data[a + j] = Encoded(t)[j]
  BY Zenon DEF HasEncoded
<1>1. PICK id \in Seq(Byte), val \in Seq(Byte), l \in 1 .. 2, v \in Nat :
          /\ t = [id |-> id, val |-> val] /\ l = Len(id) /\ v = Len(val) /\ v < TwoBytes
          /\ t.id = id /\ t.val = val
          /\ l = IF TwoByteTag(id[1]) THEN 2 ELSE 1
  <2>1. /\ t.id \in Seq(Byte) /\ t.val \in Seq(Byte) /\ t = [id |-> t.id, val |-> t.val]
        /\ Len(t.id) = IF TwoByteTag(t.id[1]) THEN 2 ELSE 1
        /\ Len(t.val) < TwoBytes
    BY DEF Tag, TwoBytes
  <2>2. Len(t.id) \in 1 .. 2 /\ Len(t.val) \in Nat
    BY <2>1
  <2> QED
    BY <2>1, <2>2, Zenon
<1> DEFINE len == EncodedLength(v)
<1>2. PICK e \in 1 .. 3 : HoldsLength(len, e, v)
  BY <1>1, LengthBytes
<1> HIDE DEF len
<1>3. len \in Seq(Byte) /\ Len(len) = e /\ len[1] \in Byte
  BY <1>2 DEF HoldsLength
<1>4. /\ m = l + e + v
      /\ \A j \in 1 .. l : data[a + j] = id[j]
      /\ \A j \in 1 .. e : data[a + l + j] = len[j]
      /\ \A j \in 1 .. v : data[a + l + e + j] = val[j]
  <2>1. PICK x : x = id \o len
    OBVIOUS
  <2>2. /\ x \in Seq(Byte) /\ Len(x) = l + e
        /\ \A j \in 1 .. l + e : x[j] = IF j <= l THEN id[j] ELSE len[j - l]
    <3>1. /\ x \in Seq(Byte) /\ Len(x) = Len(id) + Len(len)
          /\ \A j \in 1 .. Len(id) + Len(len) : x[j] = IF j <= Len(id) THEN id[j] ELSE len[j - Len(id)]
      <4>1. /\ id \o len \in Seq(Byte) /\ Len(id \o len) = Len(id) + Len(len)
            /\ \A j \in 1 .. Len(id) + Len(len) :
                  (id \o len)[j] = IF j <= Len(id) THEN id[j] ELSE len[j - Len(id)]
        BY <1>3, ConcatProperties, Zenon
      <4> QED
        BY <2>1, <4>1, Zenon
    <3>2. Len(id) = l /\ Len(len) = e
      BY <1>1, <1>3
    <3> QED
      BY ONLY <3>1, <3>2
  <2>3. PICK y : y = x \o val
    OBVIOUS
  <2>4. /\ y \in Seq(Byte) /\ Len(y) = (l + e) + v
        /\ \A j \in 1 .. (l + e) + v : y[j] = IF j <= l + e THEN x[j] ELSE val[j - (l + e)]
    <3>1. /\ x \o val \in Seq(Byte) /\ Len(x \o val) = Len(x) + Len(val)
          /\ \A j \in 1 .. Len(x) + Len(val) :
                (x \o val)[j] = IF j <= Len(x) THEN x[j] ELSE val[j - Len(x)]
      BY <2>2, ConcatProperties, Zenon
    <3> QED
      BY <1>1, <2>2, <2>3, <3>1, Zenon
  <2>5. y = Encoded(t)
    BY <1>1, <2>1, <2>3 DEF Encoded, len
  <2>6. m = (l + e) + v /\ \A j \in 1 .. m : data[a + j] = y[j]
    BY <1>0, <2>4, <2>5
  <2>7. m = l + e + v
    BY ONLY <2>6, l \in 1 .. 2, e \in 1 .. 3, v \in Nat
  <2>8. ASSUME NEW j \in 1 .. l PROVE data[a + j] = id[j]
    <3>1. j \in 1 .. m /\ j \in 1 .. l + e /\ j <= l /\ j \in 1 .. (l + e) + v /\ j <= l + e
      BY ONLY <2>7, l \in 1 .. 2, e \in 1 .. 3, v \in Nat, j \in 1 .. l
    <3> QED
      BY ONLY <2>2, <2>4, <2>6, <3>1
  <2>9. ASSUME NEW j \in 1 .. e PROVE data[a + l + j] = len[j]
    <3>1. PICK i \in 1 .. m : /\ i = l + j /\ i \in 1 .. l + e /\ ~(i <= l) /\ i - l = j
                              /\ i \in 1 .. (l + e) + v /\ i <= l + e /\ a + i = a + l + j
      BY ONLY <2>7, l \in 1 .. 2, e \in 1 .. 3, v \in Nat, j \in 1 .. e, a \in Nat
    <3> QED
      BY ONLY <2>2, <2>4, <2>6, <3>1
  <2>10. ASSUME NEW j \in 1 .. v PROVE data[a + l + e + j] = val[j]
    <3>1. PICK i \in 1 .. m : /\ i \in 1 .. (l + e) + v /\ ~(i <= l + e) /\ i - (l + e) = j
                              /\ a + i = a + l + e + j
      <4>1. l + e + j \in 1 .. m
        BY ONLY <2>7, l \in 1 .. 2, e \in 1 .. 3, v \in Nat, j \in 1 .. v
      <4>2. PICK i \in 1 .. m : i = l + e + j
        BY <4>1
      <4> QED
        BY ONLY <2>7, <4>2, i \in 1 .. m, l \in 1 .. 2, e \in 1 .. 3, v \in Nat, j \in 1 .. v, a \in Nat
    <3> QED
      BY ONLY <2>4, <2>6, <3>1
  <2> QED
    BY <2>7, <2>8, <2>9, <2>10
<1>5. PICK n \in Nat : n = Len(data) /\ a + l + e + v <= n
  <2>1. PICK n \in Nat : n = Len(data)
    OBVIOUS
  <2>2. a + m <= n /\ m = l + e + v
    BY <1>0, <1>4, <2>1
  <2>3. a + l + e + v <= n
    BY ONLY <2>2, a \in Nat, l \in 1 .. 2, e \in 1 .. 3, v \in Nat
  <2> QED
    BY <2>1, <2>3
<1>6. /\ data[a + 1] = id[1] /\ data[a + 1 + l] = len[1]
  <2>1. 1 \in 1 .. l /\ 1 \in 1 .. e /\ a + 1 + l = a + l + 1
    OBVIOUS
  <2> QED
    BY ONLY <1>4, <2>1
<1>7. PICK q \in Nat, p \in Nat : /\ q = a + 1 + l /\ p = a + l + e + 1
                                 /\ q + 1 + (e - 1) = p
  <2>1. a + 1 + l \in Nat /\ a + l + e + 1 \in Nat /\ a + 1 + l + 1 + (e - 1) = a + l + e + 1
    OBVIOUS
  <2> QED
    BY ONLY <2>1
<1>8. LenPos(data, a + 1) = q /\ LenByte(data, a + 1) = len[1]
  <2>1. LenPos(data, a + 1) = q
    BY <1>1, <1>6, <1>7 DEF LenPos
  <2> QED
    BY <1>6, <1>7, <2>1 DEF LenByte
<1>9. Count(data, a + 1) = e - 1
  BY <1>2, <1>8, Zenon DEF Count, HoldsLength
<1>10. ValPos(data, a + 1) = p
  BY <1>7, <1>8, <1>9 DEF ValPos
<1>11. Length(data, a + 1) = v
  <2>1. CASE ~LongForm(len[1])
    BY <1>2, <1>8, <2>1, Zenon DEF Length, HoldsLength
  <2>2. CASE LongForm(len[1])
    <3>1. PICK c \in Nat, r \in Nat \ {0} : c = e - 1 /\ r = q + 1 /\ r + c - 1 <= n
      <4>1. e - 1 \in Nat /\ q + 1 \in Nat \ {0} /\ q + 1 + (e - 1) - 1 <= n
        BY ONLY <1>5, <1>7, a \in Nat, l \in 1 .. 2, e \in 1 .. 3, v \in Nat, n \in Nat
      <4> QED
        BY ONLY <4>1
    <3>2. PICK rest : /\ rest = Slice(data, r, c) /\ Len(rest) = c
                      /\ \A i \in 1 .. c : rest[i] = data[r + i - 1]
      <4>1. r + c - 1 <= Len(data)
        BY <1>5, <3>1
      <4>2. /\ Len(Slice(data, r, c)) = c
            /\ \A i \in 1 .. c : Slice(data, r, c)[i] = data[r + i - 1]
        BY ONLY <4>1, data \in Seq(Byte), r \in Nat \ {0}, c \in Nat, SliceIs
      <4> QED
        BY <4>2, Zenon
    <3>3. ASSUME NEW i \in 1 .. c PROVE rest[i] = len[i + 1]
      <4>1. i + 1 \in 1 .. e /\ r + i - 1 = a + l + (i + 1)
        BY ONLY <1>7, <3>1, a \in Nat, l \in 1 .. 2, e \in 1 .. 3, i \in 1 .. c, c \in Nat
      <4> QED
        BY ONLY <1>4, <3>2, <4>1, i \in 1 .. c
    <3>4. BigEndian(rest) = v
      BY <1>2, <2>2, <3>1, <3>2, <3>3 DEF HoldsLength
    <3>5. Length(data, a + 1) = BigEndian(Slice(data, q + 1, e - 1))
      BY <1>8, <1>9, <2>2, Zenon DEF Length
    <3> QED
      BY <3>1, <3>2, <3>4, <3>5
  <2> QED
    BY <2>1, <2>2
<1>12. Whole(data, a + 1)
  <2>1. /\ q <= n + 1 /\ q + 1 - 1 <= n /\ q + 1 <= n + 1 /\ (q + 1) + (e - 1) - 1 <= n
        /\ p <= n + 1 /\ p + v - 1 <= n
    BY ONLY <1>5, <1>7, a \in Nat, l \in 1 .. 2, e \in 1 .. 3, v \in Nat, n \in Nat
  <2> QED
    BY <1>5, <1>8, <1>9, <1>10, <1>11, <2>1 DEF Whole, Header, Has, End
<1>13. Slice(data, a + 1, l) = id
  <2>1. a + 1 \in Nat \ {0} /\ (a + 1) + l - 1 <= n /\ l \in Nat
    BY ONLY <1>5, a \in Nat, l \in 1 .. 2, e \in 1 .. 3, v \in Nat, n \in Nat
  <2>2. PICK x \in Seq(Byte) : /\ x = Slice(data, a + 1, l) /\ Len(x) = l
                               /\ \A i \in 1 .. l : x[i] = data[(a + 1) + i - 1]
    BY <1>5, <2>1, SliceIs, ZenonT(30)
  <2>3. \A i \in 1 .. l : (a + 1) + i - 1 = a + i
    OBVIOUS
  <2>4. \A i \in 1 .. l : x[i] = id[i]
    BY ONLY <1>4, <2>2, <2>3
  <2> QED
    BY <1>1, <2>2, <2>4, SameElements
<1>14. Slice(data, p, v) = val
  <2>1. p \in Nat \ {0} /\ p + v - 1 <= n
    BY <1>5, <1>7
  <2>2. PICK x \in Seq(Byte) : /\ x = Slice(data, p, v) /\ Len(x) = v
                               /\ \A i \in 1 .. v : x[i] = data[p + i - 1]
    BY <1>5, <2>1, SliceIs, ZenonT(30)
  <2>3. \A i \in 1 .. v : p + i - 1 = a + l + e + i
    BY <1>7
  <2>4. \A i \in 1 .. v : x[i] = val[i]
    BY ONLY <1>4, <2>2, <2>3
  <2> QED
    BY <1>1, <2>2, <2>4, SameElements
<1>15. Item(data, a + 1).tag = t
  <2>1. Item(data, a + 1).tag = [id |-> Slice(data, a + 1, l), val |-> Slice(data, p, v)]
    BY <1>1, <1>6, <1>10, <1>11, <1>12, ItemIs
  <2> QED
    BY <1>1, <1>13, <1>14, <2>1
<1>16. Item(data, a + 1).next = a + m + 1
  <2>1. Item(data, a + 1).next = p + v - 1 + 1
    BY <1>10, <1>11, <1>12, ItemIs DEF End
  <2>2. m = l + e + v
    BY <1>4
  <2>3. p + v - 1 + 1 = a + m + 1
    BY ONLY <1>7, <2>2, a \in Nat, l \in 1 .. 2, e \in 1 .. 3, v \in Nat, p \in Nat
  <2> QED
    BY <2>1, <2>3, Zenon
<1>17. m > 0
  <2>1. m = l + e + v
    BY <1>4
  <2> QED
    BY ONLY <2>1, l \in 1 .. 2, e \in 1 .. 3, v \in Nat
<1>18. ~Item(data, a + 1).cut
  BY <1>12, ItemIs, Zenon
<1> QED
  BY <1>15, <1>16, <1>17, <1>18, Zenon DEF ReadsTag

LEMMA EncodedSeq == \A t \in Tag : Encoded(t) \in Seq(Byte)
<1> SUFFICES ASSUME NEW t \in Tag PROVE Encoded(t) \in Seq(Byte)
  BY Zenon
<1>1. PICK id \in Seq(Byte), val \in Seq(Byte), v \in Nat :
          t.id = id /\ t.val = val /\ v = Len(val) /\ v < TwoBytes
  <2>1. t.id \in Seq(Byte) /\ t.val \in Seq(Byte) /\ Len(t.val) < TwoBytes
    BY DEF Tag, TwoBytes
  <2>2. Len(t.val) \in Nat
    BY <2>1
  <2> QED
    BY <2>1, <2>2, Zenon
<1>2. PICK len \in Seq(Byte) : len = EncodedLength(v)
  <2>1. \E e \in 1 .. 3 : HoldsLength(EncodedLength(v), e, v)
    BY <1>1, LengthBytes
  <2>2. EncodedLength(v) \in Seq(Byte)
    BY <2>1, Zenon DEF HoldsLength
  <2> QED
    BY <2>2
<1>3. PICK x : x = id \o len
  OBVIOUS
<1>4. x \in Seq(Byte)
  BY <1>3, ConcatProperties
<1>5. x \o val \in Seq(Byte)
  BY <1>4, ConcatProperties
<1> QED
  BY <1>1, <1>2, <1>3, <1>5 DEF Encoded

\* What BuildEMVData writes, ParseEMVData reads back (TagsSurvive), whatever the
\* tags and at every length of their values that two bytes hold.
THEOREM TagsReadBack == Spec => []TagsSurvive
<1>1. ASSUME NEW tags, tags \in Seq(Tag), NEW n \in Nat, n = Len(tags)
      PROVE  ParseEMVData(BuildEMVData(tags)) = tags
  <2>1. PICK seqs : /\ seqs \in [1 .. n -> Seq(Byte)]
                    /\ seqs = [i \in DOMAIN tags |-> Encoded(tags[i])]
                    /\ \A i \in 1 .. n : seqs[i] = Encoded(tags[i]) /\ tags[i] \in Tag
    <3>1. DOMAIN tags = 1 .. n
      BY <1>1
    <3>2. \A i \in 1 .. n : tags[i] \in Tag /\ Encoded(tags[i]) \in Seq(Byte)
      BY <1>1, ElementOfSeq, EncodedSeq
    <3> DEFINE seqs == [i \in 1 .. n |-> Encoded(tags[i])]
    <3>3. seqs \in [1 .. n -> Seq(Byte)] /\ \A i \in 1 .. n : seqs[i] = Encoded(tags[i])
      BY <3>2, Zenon
    <3>4. seqs = [i \in DOMAIN tags |-> Encoded(tags[i])]
      BY <3>1, Zenon
    <3> HIDE DEF seqs
    <3> QED
      BY <3>2, <3>3, <3>4, Zenon
  <2>2. seqs \in Seq(Seq(Byte)) /\ Len(seqs) = n
    BY <2>1, FunctionSeq, Zenon
  <2>3. PICK data : data = BuildEMVData(tags)
    OBVIOUS
  <2>4. data = FlattenSeq(seqs)
    BY <2>1, <2>3, Zenon DEF BuildEMVData
  <2>5. PICK o \in [0 .. n -> Nat] : Placed(seqs, n, data, o) /\ data \in Seq(Byte)
    BY <2>2, <2>4, FlattenPlaces, Zenon
  <2>6. /\ o[0] = 0 /\ o[n] = Len(data)
        /\ \A i \in 1 .. n : /\ o[i] = o[i - 1] + Len(seqs[i])
                             /\ \A j \in 1 .. Len(seqs[i]) : data[o[i - 1] + j] = seqs[i][j]
    BY <2>5, Zenon DEF Placed
  <2>7. PICK len \in Nat : len = Len(data)
    BY <2>5
  <2>8. PICK s : Parses(s, data, len) /\ ParseEMVData(data) = s[1]
    BY <2>5, <2>7, ParseIs
  <2> DEFINE T == {i \in 0 .. n : o[i] <= len /\ s[o[i] + 1] = SubSeq(tags, i + 1, n)}
  <2>9. ASSUME NEW i \in 0 .. n, \A k \in 0 .. n : i < k => k \in T PROVE i \in T
    <3>1. CASE i = n
      <4>1. o[i] = len
        BY <2>6, <2>7, <3>1
      <4>2. s[len + 1] = <<>>
        <5>1. len + 1 \in 1 .. len + 1 /\ len + 1 > len
          OBVIOUS
        <5> QED
          BY <2>8, <5>1, Zenon DEF Parses
      <4>3. SubSeq(tags, n + 1, n) = <<>>
        BY SubSeqEmpty
      <4>4. len <= len
        OBVIOUS
      <4>5. o[n] <= len /\ s[o[n] + 1] = SubSeq(tags, n + 1, n)
        BY <3>1, <4>1, <4>2, <4>3, <4>4, Zenon
      <4> QED
        BY <3>1, <4>5, Zenon
    <3>2. CASE i < n
      <4>1. i + 1 \in 0 .. n /\ i + 1 \in 1 .. n /\ i < i + 1 /\ (i + 1) - 1 = i /\ (i + 1) + 1 = i + 2
            /\ i \in 0 .. n - 1
        BY <3>2
      <4>2. i + 1 \in T
        <5> HIDE DEF T
        <5> QED
          BY <2>9, <4>1
      <4>3. PICK t \in Tag : t = tags[i + 1]
        BY <2>1, <4>1
      <4>4. PICK m \in Nat, a \in Nat : m = Len(Encoded(t)) /\ a = o[i]
        <5>1. Encoded(t) \in Seq(Byte) /\ o[i] \in Nat
          BY EncodedSeq
        <5>2. Len(Encoded(t)) \in Nat
          BY <5>1
        <5> QED
          BY <5>1, <5>2, Zenon
      <4>5. /\ o[i + 1] = a + m
            /\ \A j \in 1 .. m : data[a + j] = Encoded(t)[j]
        <5>1. seqs[i + 1] = Encoded(t)
          BY <2>1, <4>1, <4>3
        <5> QED
          BY <2>6, <4>1, <4>4, <5>1
      <4>6. a + m <= len /\ s[a + m + 1] = SubSeq(tags, i + 2, n)
        BY <4>1, <4>2, <4>5
      <4>7. /\ m > 0 /\ ~Item(data, a + 1).cut /\ Item(data, a + 1).tag = t
            /\ Item(data, a + 1).next = a + m + 1
        <5>1. HasEncoded(data, a, m, t)
          BY <2>7, <4>4, <4>5, <4>6, Zenon DEF HasEncoded
        <5>2. ReadsTag(data, a, m, t)
          BY <2>5, <5>1, EncodedItem, Zenon
        <5> QED
          BY <5>2, Zenon DEF ReadsTag
      <4>8. s[a + 1] = Cat(<<t>>, s[a + m + 1])
        <5>1. a + 1 \in 1 .. len + 1 /\ ~(a + 1 > len)
          BY <4>6, <4>7
        <5> QED
          BY <2>8, <4>7, <5>1, Zenon DEF Parses
      <4>9. SubSeq(tags, i + 1, n) = Cat(<<t>>, SubSeq(tags, i + 2, n))
        BY <1>1, <4>1, <4>3, RestGrows
      <4>10. o[i] <= len /\ s[o[i] + 1] = SubSeq(tags, i + 1, n)
        <5>1. a <= len
          BY <4>6
        <5> QED
          BY <4>4, <4>6, <4>8, <4>9, <5>1, Zenon
      <4> QED
        BY <4>10
    <3> QED
      BY <3>1, <3>2
  <2>10. \A i \in 0 .. n : i \in T
    <3> HIDE DEF T
    <3>1. 0 \in Int /\ n \in Int
      OBVIOUS
    <3> QED
      BY ONLY <2>9, <3>1, DownwardInduction
  <2>11. s[1] = SubSeq(tags, 1, n)
    <3>1. 0 \in T
      <4> HIDE DEF T
      <4> QED
        BY <2>10
    <3> QED
      BY <2>6, <3>1
  <2>12. SubSeq(tags, 1, n) = tags
    BY <1>1
  <2> QED
    BY <2>3, <2>8, <2>11, <2>12
<1>2. ASSUME Answered PROVE TagsSurvive
  <2> SUFFICES ASSUME Done("build") PROVE ParseEMVData(result.val) = call.tags
    BY Zenon DEF TagsSurvive
  <2>1. result.val = BuildEMVData(call.tags)
    BY <1>2 DEF Answered, AnswerIs
  <2>2. call.tags \in TagLists
    BY <1>2, Arguments DEF Answered, Done
  <2>3. PICK tags : tags = call.tags
    OBVIOUS
  <2>4. tags \in Seq(Tag)
    BY <2>2, <2>3, InputAssumption
  <2>5. Len(tags) \in Nat
    BY <2>4, LenProperties
  <2> QED
    BY <1>1, <2>1, <2>3, <2>4, <2>5, Zenon
<1> QED
  BY <1>2, AnsweredInvariant, PTL

------------------------------------------------------------------------------
\* Frames.  What a packet is in the bytes that arrive.
Digits == 0 .. Base - 1

HasFrame(b, i, p) ==
    /\ i + 2 + Len(p) <= Len(b) /\ b[i + 1] * Base + b[i + 2] = Len(p)
    /\ \A j \in 1 .. Len(p) : b[i + 2 + j] = p[j]

LEMMA LengthDigits ==
    ASSUME NEW m \in Nat, m < Base * Base
    PROVE  /\ m % (Base * Base) = m /\ m \div Base \in Digits /\ m % Base \in Digits
           /\ (m \div Base) * Base + (m % Base) = m
<1>1. PICK b \in Nat \ {0} : b = Base
  BY FramingAssumption
<1>2. PICK q \in Nat, r \in Nat : q = m \div b /\ r = m % b /\ q * b + r = m /\ r < b
  <2>1. m \div b \in Nat /\ m % b \in Nat /\ (m \div b) * b + (m % b) = m /\ m % b < b
    BY ONLY m \in Nat, b \in Nat \ {0}
  <2> QED
    BY <2>1, Zenon
<1>3. q < b
  <2> SUFFICES ASSUME ~(q < b) PROVE FALSE
    OBVIOUS
  <2>1. q >= b
    BY ONLY ~(q < b), q \in Nat, b \in Nat \ {0}
  <2>2. q * b >= b * b
    BY ONLY <2>1, q \in Nat, b \in Nat \ {0}
  <2>3. m < b * b
    BY <1>1
  <2>4. b * b \in Nat /\ q * b \in Nat
    BY ONLY q \in Nat, b \in Nat \ {0}
  <2> QED
    BY ONLY <1>2, <2>2, <2>3, <2>4, m \in Nat, r \in Nat
<1>4. m % (b * b) = m
  <2>1. b * b \in Nat \ {0} /\ m < b * b
    BY <1>1
  <2>2. PICK c \in Nat \ {0} : c = b * b
    BY <2>1
  <2>3. m % c = m
    BY ONLY m \in Nat, c \in Nat \ {0}, <2>1, <2>2
  <2> QED
    BY <2>2, <2>3
<1> QED
  BY <1>1, <1>2, <1>3, <1>4 DEF Digits

\* The bytes of a frame.
LEMMA FrameIs ==
    ASSUME NEW p \in Packet
    PROVE  /\ Framed(p) \in Seq(Digits) /\ Len(Framed(p)) = Len(p) + 2
           /\ Framed(p)[1] * Base + Framed(p)[2] = Len(p)
           /\ \A j \in 1 .. Len(p) : Framed(p)[2 + j] = p[j]
<1>1. PICK m \in Nat : m = Len(p) /\ p \in Seq(Digits) /\ m < Base * Base
  <2>1. p \in Seq(0 .. Base - 1) /\ Len(p) \in HeaderLen .. MaxPacket
    BY DEF Packet
  <2>2. Len(p) \in Nat
    BY <2>1
  <2>3. Base * Base \in Nat
    BY FramingAssumption
  <2>4. Len(p) < Base * Base
    BY <2>1, <2>2, <2>3, FramingAssumption
  <2> QED
    BY <2>1, <2>2, <2>4, Zenon DEF Digits
<1>2. PICK x \in Digits, y \in Digits : x = m \div Base /\ y = m % Base /\ x * Base + y = m
  BY <1>1, LengthDigits, Zenon
<1>3. m % (Base * Base) = m
  BY <1>1, LengthDigits
<1>4. PICK h : h = <<x, y>>
  OBVIOUS
<1>5. h \in Seq(Digits) /\ Len(h) = 2 /\ h[1] = x /\ h[2] = y
  BY <1>4
<1>6. Framed(p) = h \o p
  BY <1>1, <1>2, <1>3, <1>4 DEF Framed
<1>7. PICK f : f = h \o p
  OBVIOUS
<1>8. /\ f \in Seq(Digits) /\ Len(f) = 2 + m
      /\ \A i \in 1 .. 2 + m : f[i] = IF i <= 2 THEN h[i] ELSE p[i - 2]
  <2>1. /\ h \o p \in Seq(Digits) /\ Len(h \o p) = Len(h) + Len(p)
        /\ \A i \in 1 .. Len(h) + Len(p) : (h \o p)[i] = IF i <= Len(h) THEN h[i] ELSE p[i - Len(h)]
    BY <1>1, <1>5, ConcatProperties, Zenon
  <2> QED
    BY <1>1, <1>5, <1>7, <2>1, Zenon
<1>9. f[1] = x /\ f[2] = y
  BY ONLY <1>5, <1>8, m \in Nat
<1>10. ASSUME NEW j \in 1 .. m PROVE f[2 + j] = p[j]
  <2>1. 2 + j \in 1 .. 2 + m /\ ~(2 + j <= 2) /\ (2 + j) - 2 = j
    OBVIOUS
  <2> QED
    BY ONLY <1>8, <2>1
<1>11. Len(f) = m + 2
  BY <1>8
<1> QED
  BY <1>1, <1>2, <1>6, <1>7, <1>8, <1>9, <1>10, <1>11, Zenon

------------------------------------------------------------------------------
\* One packet.  The moments at which a deadline passes within it, its length as
\* written, and what is read.
TornAt(b, quiet, i, last) == {k \in quiet : i < k /\ k < last /\ k <= Len(b)}
LengthAt(b, i)            == b[i + 1] * Base + b[i + 2]

LEMMA PacketCases ==
    ASSUME NEW b, NEW quiet, NEW i, NEW got, got = readTPDUPacket(b, quiet, i), NEW m, m = LengthAt(b, i)
    PROVE  /\ TornAt(b, quiet, i, i + 2) # {} => got.kind = "timeout" /\ got.next = i + 1
           /\ TornAt(b, quiet, i, i + 2) = {} =>
                /\ Len(b) < i + 2 => got.kind = "end"
                /\ ~(Len(b) < i + 2) =>
                     /\ m = 0 \/ m > MaxPacket => got.kind = "refused"
                     /\ ~(m = 0 \/ m > MaxPacket) /\ TornAt(b, quiet, i, i + 2 + m) = {}
                           /\ Len(b) < i + 2 + m => got.kind = "end"
  BY DEF readTPDUPacket, TornAt, LengthAt

\* A length that is there and no reason to refuse; the packet it announces.
Announced(b, quiet, i, m) ==
    /\ m = LengthAt(b, i) /\ TornAt(b, quiet, i, i + 2) = {} /\ ~(Len(b) < i + 2)
    /\ ~(m = 0 \/ m > MaxPacket)

Broken(b, quiet, i, m) == Announced(b, quiet, i, m) /\ TornAt(b, quiet, i, i + 2 + m) # {}
Entire(b, quiet, i, m) ==
    /\ Announced(b, quiet, i, m) /\ TornAt(b, quiet, i, i + 2 + m) = {} /\ ~(Len(b) < i + 2 + m)

Taken(got, b, i, m) ==
    got.kind = "packet" /\ got.next = i + 2 + m /\ got.packet = SubSeq(b, i + 3, i + 2 + m)

LEMMA PacketWhole ==
    ASSUME NEW b, NEW quiet, NEW i, NEW m
    PROVE  /\ Entire(b, quiet, i, m) => Taken(readTPDUPacket(b, quiet, i), b, i, m)
           /\ Broken(b, quiet, i, m) =>
                readTPDUPacket(b, quiet, i) =
                    [kind |-> "timeout", next |-> Min(TornAt(b, quiet, i, i + 2 + m))]
  BY DEF readTPDUPacket, TornAt, LengthAt, Announced, Broken, Entire, Taken

LEMMA TornMin ==
    ASSUME NEW T, T \subseteq Nat, T # {}
    PROVE  Min(T) \in T
<1>1. \E m \in T : \A k \in T : m <= k
  BY LeastElement
<1> QED
  BY <1>1 DEF Min

\* The length of a packet whose first two bytes are there.
LEMMA LengthNat ==
    ASSUME NEW b \in Seq(Digits), NEW i \in Nat, i + 2 <= Len(b)
    PROVE  LengthAt(b, i) \in Nat
<1>1. \A j \in 1 .. Len(b) : b[j] \in Nat
  BY FramingAssumption DEF Digits
<1>2. PICK x \in Nat, y \in Nat : x = b[i + 1] /\ y = b[i + 2]
  <2>1. i + 1 \in 1 .. Len(b) /\ i + 2 \in 1 .. Len(b)
    OBVIOUS
  <2> QED
    BY <1>1, <2>1, Zenon
<1>3. PICK c \in Nat : c = Base
  BY FramingAssumption
<1>4. x * c + y \in Nat
  BY ONLY x \in Nat, y \in Nat, c \in Nat
<1> QED
  BY <1>2, <1>3, <1>4 DEF LengthAt

\* A reader that goes on is further along.
LEMMA PacketPlace ==
    ASSUME NEW b \in Seq(Digits), NEW n \in Nat, n = Len(b), NEW i \in 0 .. n,
           NEW quiet, quiet \subseteq Nat, NEW got, got = readTPDUPacket(b, quiet, i)
    PROVE  /\ got.kind \in {"packet", "timeout"} => got.next \in i + 1 .. n
           /\ got.kind = "packet" => got.packet \in Seq(Digits)
<1>1. PICK m : m = LengthAt(b, i)
  OBVIOUS
<1>2. n >= i + 2 => m \in Nat
  BY <1>1, LengthNat
<1>3. \A last : TornAt(b, quiet, i, last) \subseteq Nat
  BY DEF TornAt
<1>4. CASE TornAt(b, quiet, i, i + 2) # {}
  <2>1. got.kind = "timeout" /\ got.next = i + 1
    BY <1>1, <1>4, PacketCases
  <2>2. PICK k \in TornAt(b, quiet, i, i + 2) : k \in Nat
    BY <1>3, <1>4
  <2>3. i < k /\ k < i + 2 /\ k <= n
    BY <2>2 DEF TornAt
  <2> QED
    BY <2>1, <2>2, <2>3
<1>5. CASE TornAt(b, quiet, i, i + 2) = {} /\ n >= i + 2 /\ m # 0 /\ m <= MaxPacket
  <2>1. m \in Nat /\ ~(Len(b) < i + 2) /\ ~(m = 0 \/ m > MaxPacket)
    BY <1>2, <1>5, FramingAssumption
  <2>2. CASE TornAt(b, quiet, i, i + 2 + m) # {}
    <3>1. got.kind = "timeout" /\ got.next = Min(TornAt(b, quiet, i, i + 2 + m))
      <4>1. Broken(b, quiet, i, m)
        BY <1>1, <1>5, <2>1, <2>2 DEF Broken, Announced
      <4>2. got = [kind |-> "timeout", next |-> Min(TornAt(b, quiet, i, i + 2 + m))]
        BY <4>1, PacketWhole, Zenon
      <4> QED
        BY <4>2
    <3>2. PICK k : k = got.next /\ k \in TornAt(b, quiet, i, i + 2 + m)
      BY <1>3, <2>2, <3>1, TornMin
    <3>3. i < k /\ k <= n /\ k \in Nat
      BY <1>3, <3>2 DEF TornAt
    <3> QED
      BY <3>1, <3>2, <3>3
  <2>3. CASE TornAt(b, quiet, i, i + 2 + m) = {} /\ n < i + 2 + m
    <3>1. got.kind = "end"
      BY <1>1, <1>5, <2>1, <2>3, PacketCases, Zenon
    <3> QED
      BY <3>1
  <2>4. CASE TornAt(b, quiet, i, i + 2 + m) = {} /\ ~(n < i + 2 + m)
    <3>1. /\ got.kind = "packet" /\ got.next = i + 2 + m
          /\ got.packet = SubSeq(b, i + 3, i + 2 + m)
      <4>1. Entire(b, quiet, i, m)
        BY <1>1, <1>5, <2>1, <2>4 DEF Entire, Announced
      <4>2. Taken(got, b, i, m)
        BY <4>1, PacketWhole, Zenon
      <4> QED
        BY <4>2 DEF Taken
    <3>2. SubSeq(b, i + 3, i + 2 + m) \in Seq(Digits)
      BY <2>1, <2>4, SubSeqProperties
    <3> QED
      BY <2>1, <2>4, <3>1, <3>2
  <2> QED
    BY <2>2, <2>3, <2>4
<1>6. CASE TornAt(b, quiet, i, i + 2) = {} /\ ~(n >= i + 2)
  <2>1. got.kind = "end"
    BY <1>1, <1>6, PacketCases
  <2> QED
    BY <2>1
<1>7. CASE TornAt(b, quiet, i, i + 2) = {} /\ n >= i + 2 /\ ~(m # 0 /\ m <= MaxPacket)
  <2>1. (m = 0 \/ m > MaxPacket) /\ ~(Len(b) < i + 2)
    BY <1>2, <1>7, FramingAssumption
  <2>2. got.kind = "refused"
    BY <1>1, <1>7, <2>1, PacketCases, Zenon
  <2> QED
    BY <2>2
<1> QED
  BY <1>4, <1>5, <1>6, <1>7

\* A frame that is there, and within which no deadline passes, is read.
Undisturbed(quiet, i, last) == \A k \in quiet : ~(i < k /\ k < last)

FrameThere(b, quiet, i, p) == HasFrame(b, i, p) /\ Undisturbed(quiet, i, i + 2 + Len(p))
FrameTaken(got, i, p) ==
    got.kind = "packet" /\ got.next = i + 2 + Len(p) /\ got.packet = p

LEMMA PacketRead ==
    ASSUME NEW b \in Seq(Digits), NEW i \in Nat, NEW p \in Packet,
           NEW quiet, quiet \subseteq Nat, FrameThere(b, quiet, i, p)
    PROVE  FrameTaken(readTPDUPacket(b, quiet, i), i, p)
<1> DEFINE got == readTPDUPacket(b, quiet, i)
           n == Len(b)
<1>1. PICK m \in Nat : /\ m = Len(p) /\ p \in Seq(Digits) /\ m # 0 /\ m <= MaxPacket
                       /\ HeaderLen <= m
  <2>1. p \in Seq(Digits) /\ Len(p) \in HeaderLen .. MaxPacket /\ Len(p) \in Nat
    BY DEF Packet, Digits
  <2> QED
    BY <2>1, FramingAssumption
<1>2. /\ i + 2 + m <= n /\ LengthAt(b, i) = m
      /\ \A j \in 1 .. m : b[i + 2 + j] = p[j]
  BY <1>1 DEF HasFrame, LengthAt, FrameThere
<1>3. TornAt(b, quiet, i, i + 2) = {} /\ TornAt(b, quiet, i, i + 2 + m) = {}
  <2>1. ASSUME NEW k \in quiet PROVE ~(i < k /\ k < i + 2 + m) /\ ~(i < k /\ k < i + 2)
    <3>1. k \in Nat /\ ~(i < k /\ k < i + 2 + m)
      BY <1>1 DEF Undisturbed, FrameThere
    <3> QED
      BY <3>1
  <2> QED
    BY <2>1 DEF TornAt
<1>4. ~(Len(b) < i + 2) /\ ~(Len(b) < i + 2 + m) /\ ~(m = 0 \/ m > MaxPacket)
  BY <1>1, <1>2, FramingAssumption
<1> HIDE DEF got
<1>5. got.kind = "packet" /\ got.next = i + 2 + m /\ got.packet = SubSeq(b, i + 3, i + 2 + m)
  <2>1. Entire(b, quiet, i, m)
    BY <1>2, <1>3, <1>4 DEF Entire, Announced
  <2>2. Taken(got, b, i, m)
    BY <2>1, PacketWhole, Zenon DEF got
  <2> QED
    BY <2>2 DEF Taken
<1>6. PICK q : q = SubSeq(b, i + 3, i + 2 + m)
  OBVIOUS
<1>7. /\ q \in Seq(Digits) /\ Len(q) = m
      /\ \A j \in 1 .. m : q[j] = b[i + 2 + j]
  <2>1. i + 3 \in 1 .. n + 1 /\ i + 2 + m \in i + 2 .. n
    BY <1>2
  <2>2. /\ SubSeq(b, i + 3, i + 2 + m) \in Seq(Digits)
        /\ Len(SubSeq(b, i + 3, i + 2 + m)) = m
    BY <2>1, SubSeqProperties
  <2>3. ASSUME NEW j \in 1 .. m PROVE SubSeq(b, i + 3, i + 2 + m)[j] = b[i + 2 + j]
    BY <1>2
  <2> QED
    BY <1>6, <2>2, <2>3
<1>8. q = p
  BY <1>1, <1>2, <1>7, SameElements
<1> QED
  BY <1>1, <1>5, <1>6, <1>8 DEF FrameTaken, got

\* At the end of the bytes, and at a frame that ends beyond it, nothing is read.
LEMMA PacketEnd ==
    ASSUME NEW b \in Seq(Digits), NEW n \in Nat, n = Len(b), NEW quiet, quiet \subseteq Nat
    PROVE  readTPDUPacket(b, quiet, n).kind = "end"
<1>1. ASSUME NEW k \in TornAt(b, quiet, n, n + 2) PROVE FALSE
  <2>1. k \in Nat /\ n < k /\ k <= n
    BY DEF TornAt
  <2> QED
    BY <2>1
<1>2. Len(b) < n + 2 /\ TornAt(b, quiet, n, n + 2) = {}
  BY <1>1
<1> QED
  BY <1>2, PacketCases, Zenon

EndsWithin(b, i, m) == Len(b) < i + 2 + m /\ (Len(b) >= i + 2 => LengthAt(b, i) = m)

LEMMA PacketCut ==
    ASSUME NEW b \in Seq(Digits), NEW i \in 0 .. Len(b), NEW m \in HeaderLen .. MaxPacket,
           EndsWithin(b, i, m)
    PROVE  readTPDUPacket(b, {}, i).kind = "end"
<1>1. Len(b) < i + 2 + m /\ (Len(b) >= i + 2 => LengthAt(b, i) = m) /\ Len(b) \in Nat
  BY DEF EndsWithin
<1>2. \A last : TornAt(b, {}, i, last) = {}
  BY DEF TornAt
<1>3. CASE Len(b) < i + 2
  BY <1>2, <1>3, PacketCases, Zenon
<1>4. CASE ~(Len(b) < i + 2)
  <2>1. LengthAt(b, i) = m
    BY <1>1, <1>4
  <2>2. ~(m = 0 \/ m > MaxPacket) /\ Len(b) < i + 2 + m
    BY <1>1, FramingAssumption
  <2> QED
    BY <1>2, <1>4, <2>1, <2>2, PacketCases, Zenon
<1> QED
  BY <1>3, <1>4

------------------------------------------------------------------------------
\* All packets.  What a reader makes of the bytes from each place on.
ByteString == Seq(Digits)

Reads(s, b, n, quiet) ==
    /\ s[n] = <<>>
    /\ \A i \in 0 .. n : s[i] \in Seq(ByteString)
    /\ \A i \in 0 .. n, p \in Packet :
          FrameThere(b, quiet, i, p) => s[i] = Cat(<<p>>, s[i + 2 + Len(p)])
    /\ quiet = {} => \A i \in 0 .. n, m \in HeaderLen .. MaxPacket : EndsWithin(b, i, m) => s[i] = <<>>

ReadBy(g, b, n, quiet, Stop, head, nxt) ==
    \A i \in 0 .. n :
        /\ g[i] = readTPDUPacket(b, quiet, i)
        /\ g[i].kind = "end" => i \in Stop
        /\ g[i].kind = "packet" /\ Len(g[i].packet) >= HeaderLen =>
              i \notin Stop /\ head[i] = <<g[i].packet>> /\ nxt[i] = g[i].next

LEMMA ReadsScan ==
    ASSUME NEW b \in Seq(Digits), NEW n \in Nat, n = Len(b), NEW quiet, quiet \subseteq Nat,
           NEW g, NEW Stop, NEW head, NEW nxt, ReadBy(g, b, n, quiet, Stop, head, nxt),
           NEW s, ScanFrom(s, 0, n, Stop, head, nxt, ByteString)
    PROVE  Reads(s, b, n, quiet)
<1> USE DEF ReadBy
<1>1. \A i \in 0 .. n : /\ s[i] \in Seq(ByteString)
                        /\ s[i] = IF i \in Stop THEN <<>> ELSE Cat(head[i], s[nxt[i]])
  BY Zenon DEF ScanFrom, Cat
<1>2. s[n] = <<>>
  <2>1. n \in 0 .. n
    OBVIOUS
  <2>2. g[n] = readTPDUPacket(b, quiet, n)
    BY <2>1
  <2>3. g[n].kind = "end"
    <3>1. readTPDUPacket(b, quiet, n).kind = "end"
      BY PacketEnd
    <3> QED
      BY <2>2, <3>1, Zenon
  <2> QED
    BY <1>1, <2>1, <2>3, Zenon
<1>3. ASSUME NEW i \in 0 .. n, NEW p \in Packet, FrameThere(b, quiet, i, p)
      PROVE  s[i] = Cat(<<p>>, s[i + 2 + Len(p)])
  <2>1. i \in Nat /\ g[i] = readTPDUPacket(b, quiet, i)
    OBVIOUS
  <2>2. g[i].kind = "packet" /\ g[i].next = i + 2 + Len(p) /\ g[i].packet = p
    <3>1. FrameTaken(g[i], i, p)
      BY <1>3, <2>1, PacketRead, Zenon
    <3> QED
      BY <3>1 DEF FrameTaken
  <2>3. Len(p) >= HeaderLen
    BY FramingAssumption DEF Packet
  <2>4. i \notin Stop /\ head[i] = <<p>> /\ nxt[i] = i + 2 + Len(p)
    BY <2>2, <2>3
  <2> QED
    BY <1>1, <2>4, Zenon
<1>4. ASSUME quiet = {}, NEW i \in 0 .. n, NEW m \in HeaderLen .. MaxPacket, EndsWithin(b, i, m)
      PROVE  s[i] = <<>>
  <2>1. g[i] = readTPDUPacket(b, {}, i)
    BY <1>4
  <2>2. g[i].kind = "end"
    BY <1>4, <2>1, PacketCut
  <2> QED
    BY <1>1, <2>2, Zenon
<1> QED
  BY <1>1, <1>2, <1>3, <1>4, Zenon DEF Reads

LEMMA ListenedReads ==
    ASSUME NEW b \in Seq(Digits), NEW n \in Nat, n = Len(b), NEW quiet, quiet \subseteq Nat
    PROVE  \E s : Reads(s, b, n, quiet) /\ Listened(b, quiet) = s[0]
<1> DEFINE Got(i) == readTPDUPacket(b, quiet, i)
           Kept(i) == IF Got(i).kind = "packet" /\ Len(Got(i).packet) >= HeaderLen
                      THEN <<Got(i).packet>> ELSE <<>>
           Goes(i) == Got(i).kind \in {"packet", "timeout"}
           From(s) == s = [i \in 0 .. n |-> IF Goes(i) THEN Kept(i) \o s[Got(i).next] ELSE <<>>]
           s == CHOOSE s : From(s)
           g    == [i \in 0 .. n |-> Got(i)]
           Stop == {i \in 0 .. n : ~Goes(i)}
           head == [i \in 0 .. n |-> Kept(i)]
           nxt  == [i \in 0 .. n |-> Got(i).next]
<1>1. Listened(b, quiet) = s[0]
  BY Zenon DEF Listened
<1>2. 0 \in Int /\ n \in Int /\ 0 <= n
  OBVIOUS
<1>3. ASSUME NEW i \in 0 .. n, Goes(i) PROVE Got(i).next \in i + 1 .. n /\ Kept(i) \in Seq(ByteString)
  <2>1. /\ Got(i).next \in i + 1 .. n
        /\ Got(i).kind = "packet" => Got(i).packet \in ByteString
    BY <1>3, PacketPlace DEF ByteString
  <2>2. Kept(i) \in Seq(ByteString)
    <3> HIDE DEF Got
    <3> QED
      BY <2>1
  <2> QED
    BY <2>1, <2>2
<1>4. /\ \A i \in 0 .. n : i \in Stop <=> ~Goes(i)
      /\ \A i \in 0 .. n : g[i] = Got(i) /\ head[i] = Kept(i) /\ nxt[i] = Got(i).next
  <2> HIDE DEF Got, Kept, Goes
  <2> QED
    OBVIOUS
<1>5. \A t : From(t) <=> Scan(t, 0, n, Stop, head, nxt)
  <2> SUFFICES ASSUME NEW t PROVE From(t) <=> Scan(t, 0, n, Stop, head, nxt)
    OBVIOUS
  <2> HIDE DEF Got, Kept, Goes, Stop, head, nxt
  <2>1. ASSUME NEW i \in 0 .. n
        PROVE  (IF Goes(i) THEN Kept(i) \o t[Got(i).next] ELSE <<>>)
               = IF i \in Stop THEN <<>> ELSE head[i] \o t[nxt[i]]
    BY <1>4, Zenon
  <2>2. [i \in 0 .. n |-> IF Goes(i) THEN Kept(i) \o t[Got(i).next] ELSE <<>>]
        = [i \in 0 .. n |-> IF i \in Stop THEN <<>> ELSE head[i] \o t[nxt[i]]]
    BY <2>1, Zenon
  <2> QED
    BY <2>2, Zenon DEF Scan
<1> HIDE DEF Kept, Goes, Stop, head, nxt, g
<1>6. ScanTakes(0, n, Stop, head, nxt, ByteString)
  <2> HIDE DEF Got
  <2> QED
    BY <1>3, <1>4, Zenon DEF ScanTakes
<1>7. \E r : Scan(r, 0, n, Stop, head, nxt)
  <2>1. \A i \in (0 .. n) \ Stop : nxt[i] \in i + 1 .. n
    BY <1>6, Zenon DEF ScanTakes
  <2> QED
    BY ONLY <1>2, <2>1, ScanExists
<1>8. Scan(s, 0, n, Stop, head, nxt)
  <2>1. \E r : From(r)
    BY <1>5, <1>7, Zenon
  <2> HIDE DEF From
  <2>2. From(s)
    BY <2>1, Zenon
  <2> QED
    BY <1>5, <2>2, Zenon
<1> HIDE DEF s
<1>9. ScanFrom(s, 0, n, Stop, head, nxt, ByteString)
  BY ONLY <1>2, <1>6, <1>8, ScanValues, Zenon
<1>10. Reads(s, b, n, quiet)
  <2>1. \A i \in 0 .. n : g[i] = readTPDUPacket(b, quiet, i)
    BY <1>4, Zenon
  <2>2. \A i \in 0 .. n : g[i].kind = "end" => i \in Stop
    BY <1>4 DEF Goes
  <2>3. \A i \in 0 .. n : g[i].kind = "packet" /\ Len(g[i].packet) >= HeaderLen =>
              i \notin Stop /\ head[i] = <<g[i].packet>> /\ nxt[i] = g[i].next
    BY <1>4 DEF Goes, Kept
  <2>4. ReadBy(g, b, n, quiet, Stop, head, nxt)
    BY <2>1, <2>2, <2>3, Zenon DEF ReadBy
  <2>5. {} \subseteq Nat
    OBVIOUS
  <2> HIDE DEF Got
  <2> QED
    BY <1>9, <2>4, <2>5, ReadsScan, Zenon
<1> QED
  BY <1>1, <1>10, Zenon

LEMMA FramesReads ==
    ASSUME NEW b \in Seq(Digits), NEW n \in Nat, n = Len(b)
    PROVE  \E s : Reads(s, b, n, {}) /\ readTPDUFrames(b) = s[0]
<1> DEFINE Got(i) == readTPDUPacket(b, {}, i)
           Goes(i) == Got(i).kind = "packet" /\ Len(Got(i).packet) >= HeaderLen
           From(s) == s = [i \in 0 .. n |-> IF Goes(i) THEN <<Got(i).packet>> \o s[Got(i).next] ELSE <<>>]
           s == CHOOSE s : From(s)
           g    == [i \in 0 .. n |-> Got(i)]
           Stop == {i \in 0 .. n : ~Goes(i)}
           head == [i \in 0 .. n |-> <<Got(i).packet>>]
           nxt  == [i \in 0 .. n |-> Got(i).next]
<1>1. readTPDUFrames(b) = s[0]
  BY Zenon DEF readTPDUFrames
<1>2. 0 \in Int /\ n \in Int /\ 0 <= n
  OBVIOUS
<1>3. ASSUME NEW i \in 0 .. n, Goes(i)
      PROVE  Got(i).next \in i + 1 .. n /\ <<Got(i).packet>> \in Seq(ByteString)
  <2>1. {} \subseteq Nat
    OBVIOUS
  <2>2. Got(i).next \in i + 1 .. n /\ Got(i).packet \in ByteString
    BY <1>3, <2>1, PacketPlace DEF ByteString
  <2> QED
    BY <2>2
<1>4. /\ \A i \in 0 .. n : i \in Stop <=> ~Goes(i)
      /\ \A i \in 0 .. n : g[i] = Got(i) /\ head[i] = <<Got(i).packet>> /\ nxt[i] = Got(i).next
  <2> HIDE DEF Got, Goes
  <2> QED
    OBVIOUS
<1>5. \A t : From(t) <=> Scan(t, 0, n, Stop, head, nxt)
  <2> SUFFICES ASSUME NEW t PROVE From(t) <=> Scan(t, 0, n, Stop, head, nxt)
    OBVIOUS
  <2> HIDE DEF Got, Goes, Stop, head, nxt
  <2>1. ASSUME NEW i \in 0 .. n
        PROVE  (IF Goes(i) THEN <<Got(i).packet>> \o t[Got(i).next] ELSE <<>>)
               = IF i \in Stop THEN <<>> ELSE head[i] \o t[nxt[i]]
    BY <1>4, Zenon
  <2>2. [i \in 0 .. n |-> IF Goes(i) THEN <<Got(i).packet>> \o t[Got(i).next] ELSE <<>>]
        = [i \in 0 .. n |-> IF i \in Stop THEN <<>> ELSE head[i] \o t[nxt[i]]]
    BY <2>1, Zenon
  <2> QED
    BY <2>2, Zenon DEF Scan
<1> HIDE DEF Goes, Stop, head, nxt, g
<1>6. ScanTakes(0, n, Stop, head, nxt, ByteString)
  <2> HIDE DEF Got
  <2> QED
    BY <1>3, <1>4, Zenon DEF ScanTakes
<1>7. \E r : Scan(r, 0, n, Stop, head, nxt)
  <2>1. \A i \in (0 .. n) \ Stop : nxt[i] \in i + 1 .. n
    BY <1>6, Zenon DEF ScanTakes
  <2> QED
    BY ONLY <1>2, <2>1, ScanExists
<1>8. Scan(s, 0, n, Stop, head, nxt)
  <2>1. \E r : From(r)
    BY <1>5, <1>7, Zenon
  <2> HIDE DEF From
  <2>2. From(s)
    BY <2>1, Zenon
  <2> QED
    BY <1>5, <2>2, Zenon
<1> HIDE DEF s
<1>9. ScanFrom(s, 0, n, Stop, head, nxt, ByteString)
  BY ONLY <1>2, <1>6, <1>8, ScanValues, Zenon
<1>10. Reads(s, b, n, {})
  <2>1. \A i \in 0 .. n : g[i] = readTPDUPacket(b, {}, i)
    BY <1>4, Zenon
  <2>2. \A i \in 0 .. n : g[i].kind = "end" => i \in Stop
    BY <1>4 DEF Goes
  <2>3. \A i \in 0 .. n : g[i].kind = "packet" /\ Len(g[i].packet) >= HeaderLen =>
              i \notin Stop /\ head[i] = <<g[i].packet>> /\ nxt[i] = g[i].next
    BY <1>4 DEF Goes
  <2>4. ReadBy(g, b, n, {}, Stop, head, nxt)
    BY <2>1, <2>2, <2>3, Zenon DEF ReadBy
  <2>5. {} \subseteq Nat
    OBVIOUS
  <2> HIDE DEF Got
  <2> QED
    BY <1>9, <2>4, <2>5, ReadsScan, Zenon
<1> QED
  BY <1>1, <1>10, Zenon

------------------------------------------------------------------------------
\* Streams.  The frames of packets, where each lies in the bytes of all, and
\* what a reader makes of those it finds whole.
FramesOf(P) == [k \in DOMAIN P |-> Framed(P[k])]

StreamOf(P, N, d, o) ==
    /\ d \in Seq(Digits) /\ o \in [0 .. N -> Nat] /\ o[0] = 0 /\ o[N] = Len(d)
    /\ \A i \in 0 .. N - 1 : o[i + 1] = o[i] + 2 + Len(P[i + 1]) /\ HasFrame(d, o[i], P[i + 1])
    /\ \A k \in 0 .. N : EndOf(FramesOf(P), k) = o[k]
    /\ \A i, j \in 0 .. N : i < j => o[i] < o[j]

LEMMA PacketIs ==
    ASSUME NEW p \in Packet
    PROVE  p \in Seq(Digits) /\ Len(p) \in Nat /\ Len(p) \in HeaderLen .. MaxPacket
  BY FramingAssumption DEF Packet, Digits

LEMMA Places ==
    ASSUME NEW N \in Nat, NEW o \in [0 .. N -> Nat], \A i \in 0 .. N - 1 : o[i] < o[i + 1]
    PROVE  \A i, j \in 0 .. N : i < j => o[i] < o[j]
<1> SUFFICES ASSUME NEW i \in 0 .. N PROVE \A j \in 0 .. N : i < j => o[i] < o[j]
  OBVIOUS
<1> DEFINE T == {j \in 0 .. N : i < j => o[i] < o[j]}
<1>1. i + 1 <= N => i + 1 \in T
  BY DEF T
<1>2. ASSUME NEW j \in i + 1 .. N - 1, j \in T PROVE j + 1 \in T
  <2>1. i < j /\ j \in 0 .. N - 1 /\ j + 1 \in 0 .. N
    OBVIOUS
  <2>2. o[i] < o[j] /\ o[j] < o[j + 1] /\ o[i] \in Nat /\ o[j] \in Nat /\ o[j + 1] \in Nat
    BY <1>2, <2>1
  <2> QED
    BY <2>1, <2>2
<1> HIDE DEF T
<1>3. i + 1 \in Int /\ N \in Int
  OBVIOUS
<1>4. \A j \in i + 1 .. N : j \in T
  BY ONLY <1>1, <1>2, <1>3, IntervalInduction
<1> SUFFICES ASSUME NEW j \in 0 .. N, i < j PROVE o[i] < o[j]
  OBVIOUS
<1>5. j \in T
  BY <1>4
<1> QED
  BY <1>5 DEF T

LEMMA StreamExists ==
    ASSUME NEW P \in Seq(Packet), NEW N \in Nat, N = Len(P)
    PROVE  \E o : StreamOf(P, N, FlattenSeq(FramesOf(P)), o)
<1>1. PICK F : F = FramesOf(P)
  OBVIOUS
<1>2. DOMAIN P = 1 .. N /\ \A k \in 1 .. N : P[k] \in Packet
  BY ElementOfSeq
<1>3. \A k \in 1 .. N : F[k] = Framed(P[k])
  BY <1>1, <1>2 DEF FramesOf
<1>4. \A k \in 1 .. N : F[k] \in Seq(Digits)
  BY <1>2, <1>3, FrameIs
<1>5. F \in Seq(Seq(Digits)) /\ Len(F) = N
  <2> DEFINE W == Seq(Digits)
  <2>1. \A k \in 1 .. N : F[k] \in W
    BY <1>4
  <2>2. F = [k \in 1 .. N |-> Framed(P[k])]
    BY <1>1, <1>2, Zenon DEF FramesOf
  <2> HIDE DEF W
  <2>3. \A k \in 1 .. N : Framed(P[k]) \in W
    BY <1>3, <2>1
  <2>4. F \in [1 .. N -> W]
    BY <2>2, <2>3
  <2>5. F \in Seq(W) /\ Len(F) = N
    BY <2>4, FunctionSeq
  <2> QED
    BY <2>5 DEF W
<1>6. PICK o \in [0 .. N -> Nat] : Placed(F, N, FlattenSeq(F), o) /\ FlattenSeq(F) \in Seq(Digits)
  BY <1>5, FlattenPlaces, Zenon
<1>7. PICK d : d = FlattenSeq(F)
  OBVIOUS
<1>8. /\ d \in Seq(Digits) /\ o[0] = 0 /\ o[N] = Len(d)
      /\ \A i \in 1 .. N : /\ o[i] = o[i - 1] + Len(F[i])
                           /\ \A j \in 1 .. Len(F[i]) : d[o[i - 1] + j] = F[i][j]
      /\ \A k \in 0 .. N : Len(FlattenSeq(SubSeq(F, 1, k))) = o[k]
  BY <1>6, <1>7 DEF Placed
<1>9. ASSUME NEW i \in 0 .. N - 1
      PROVE  /\ o[i + 1] = o[i] + 2 + Len(P[i + 1]) /\ o[i] < o[i + 1]
             /\ d[o[i] + 1] * Base + d[o[i] + 2] = Len(P[i + 1])
             /\ \A j \in 1 .. Len(P[i + 1]) : d[o[i] + 2 + j] = P[i + 1][j]
  <2>1. i + 1 \in 1 .. N /\ (i + 1) - 1 = i /\ o[i] \in Nat
    OBVIOUS
  <2>2. PICK p \in Packet : p = P[i + 1]
    BY <1>2, <2>1
  <2>3. PICK f : /\ f = Framed(p) /\ f = F[i + 1] /\ Len(f) = Len(p) + 2
                 /\ f[1] * Base + f[2] = Len(p) /\ \A j \in 1 .. Len(p) : f[2 + j] = p[j]
    BY <1>3, <2>1, <2>2, FrameIs, SMTT(30)
  <2>4. PICK l \in Nat : l = Len(p)
    BY PacketIs
  <2>5. o[i + 1] = o[i] + (l + 2) /\ \A j \in 1 .. l + 2 : d[o[i] + j] = f[j]
    BY <1>8, <2>1, <2>3, <2>4, SMTT(30)
  <2>6. d[o[i] + 1] = f[1] /\ d[o[i] + 2] = f[2]
    BY <2>5
  <2>7. ASSUME NEW j \in 1 .. l PROVE d[o[i] + 2 + j] = p[j]
    <3>1. 2 + j \in 1 .. l + 2 /\ o[i] + (2 + j) = o[i] + 2 + j
      BY <2>1
    <3> QED
      BY <2>3, <2>4, <2>5, <3>1
  <2>8. o[i + 1] = o[i] + 2 + l /\ o[i] < o[i + 1]
    <3>1. PICK x \in Nat : x = o[i] /\ o[i + 1] = x + (l + 2)
      BY <2>1, <2>5
    <3>2. x + (l + 2) = x + 2 + l /\ x < x + (l + 2)
      BY ONLY x \in Nat, l \in Nat
    <3> QED
      BY <3>1, <3>2, Zenon
  <2> QED
    BY <2>2, <2>3, <2>4, <2>6, <2>7, <2>8
<1>10. \A i, j \in 0 .. N : i < j => o[i] < o[j]
  BY <1>9, Places
<1>11. ASSUME NEW i \in 0 .. N - 1 PROVE HasFrame(d, o[i], P[i + 1])
  <2>1. o[i] + 2 + Len(P[i + 1]) <= Len(d)
    <3>1. i + 1 \in 0 .. N /\ N \in 0 .. N /\ o[i + 1] \in Nat /\ o[N] \in Nat
      OBVIOUS
    <3>2. o[i + 1] <= o[N]
      <4>1. CASE i + 1 = N
        BY <3>1, <4>1
      <4>2. CASE i + 1 # N
        <5>1. i + 1 < N
          BY <4>2
        <5>2. o[i + 1] < o[N]
          BY <1>10, <3>1, <5>1
        <5> QED
          BY <3>1, <5>2
      <4> QED
        BY <4>1, <4>2
    <3> QED
      BY <1>8, <1>9, <3>2
  <2> QED
    BY <1>9, <2>1 DEF HasFrame
<1>12. \A k \in 0 .. N : EndOf(F, k) = o[k]
  BY <1>8 DEF EndOf
<1> QED
  BY <1>1, <1>7, <1>8, <1>9, <1>10, <1>11, <1>12 DEF StreamOf

\* A frame in the bytes is one in those that arrive, if they reach its end.
LEMMA FrameArrives ==
    ASSUME NEW d \in Seq(Digits), NEW a \in 0 .. Len(d), NEW i \in Nat, NEW p \in Packet,
           HasFrame(d, i, p)
    PROVE  /\ SubSeq(d, 1, a) \in Seq(Digits) /\ Len(SubSeq(d, 1, a)) = a
           /\ i + 2 + Len(p) <= a => HasFrame(SubSeq(d, 1, a), i, p)
           /\ a < i + 2 + Len(p) => EndsWithin(SubSeq(d, 1, a), i, Len(p))
<1>1. PICK b \in Seq(Digits) : b = SubSeq(d, 1, a) /\ Len(b) = a /\ \A j \in 1 .. a : b[j] = d[j]
  BY StartIs
<1>2. PICK l \in Nat : l = Len(p)
  BY PacketIs
<1>3. d[i + 1] * Base + d[i + 2] = l /\ \A j \in 1 .. l : d[i + 2 + j] = p[j]
  BY <1>2 DEF HasFrame
<1>4. a \in Nat
  OBVIOUS
<1>5. i + 2 <= a => b[i + 1] = d[i + 1] /\ b[i + 2] = d[i + 2]
  BY <1>1, <1>4
<1>6. ASSUME i + 2 + l <= a PROVE HasFrame(b, i, p)
  <2>1. \A j \in 1 .. l : b[i + 2 + j] = p[j]
    <3> SUFFICES ASSUME NEW j \in 1 .. l PROVE b[i + 2 + j] = p[j]
      OBVIOUS
    <3>1. i + 2 + j \in 1 .. a
      BY <1>4, <1>6
    <3> QED
      BY <1>1, <1>3, <3>1
  <2>2. b[i + 1] * Base + b[i + 2] = l
    BY <1>3, <1>4, <1>5, <1>6
  <2> QED
    BY <1>1, <1>2, <1>6, <2>1, <2>2 DEF HasFrame
<1>7. ASSUME a < i + 2 + l PROVE EndsWithin(b, i, l)
  <2>1. a >= i + 2 => b[i + 1] * Base + b[i + 2] = l
    BY <1>3, <1>4, <1>5
  <2> QED
    BY <1>1, <1>7, <2>1 DEF EndsWithin, LengthAt
<1> QED
  BY <1>1, <1>2, <1>6, <1>7

\* The packets whose frames are there come first in what is read.
FramesThere(P, c, b, quiet, o) ==
    /\ c \in 0 .. Len(P) /\ o[0] = 0 /\ o[c] \in 0 .. Len(b)
    /\ \A i \in 0 .. c - 1 : o[i] \in 0 .. Len(b) /\ FrameThere(b, quiet, o[i], P[i + 1])
                            /\ o[i + 1] = o[i] + 2 + Len(P[i + 1])

\* What is read begins with c packets.
ReadFirst(P, c, s, o) == s[0] = Cat(SubSeq(P, 1, c), s[o[c]])

LEMMA FramesTaken ==
    ASSUME NEW P \in Seq(Packet), NEW b \in Seq(Digits), NEW c, NEW quiet, NEW o,
           FramesThere(P, c, b, quiet, o), NEW s, Reads(s, b, Len(b), quiet)
    PROVE  ReadFirst(P, c, s, o)
<1>0. PICK N \in Nat, n \in Nat : N = Len(P) /\ n = Len(b)
  OBVIOUS
<1> c \in 0 .. N /\ o[0] = 0 /\ o[c] \in 0 .. n /\ Reads(s, b, n, quiet)
  BY <1>0 DEF FramesThere
<1> DEFINE W == ByteString
<1>1. P \in Seq(W) /\ \A k \in 1 .. N : P[k] \in Packet /\ P[k] \in W
  <2>1. \A p \in Packet : p \in W
    BY PacketIs DEF ByteString
  <2>2. \A k \in 1 .. N : P[k] \in Packet
    BY <1>0, ElementOfSeq
  <2>3. P \in [1 .. N -> W]
    BY <1>0, <2>1, <2>2
  <2> QED
    BY <2>1, <2>2, <2>3, FunctionSeq
<1>2. \A i \in 0 .. n : s[i] \in Seq(W)
  BY Zenon DEF Reads
<1> HIDE DEF W
<1>3. ASSUME NEW i \in 0 .. c - 1 PROVE s[o[i]] = Cat(<<P[i + 1]>>, s[o[i + 1]]) /\ o[i] \in 0 .. n
  <2>1. PICK p \in Packet : p = P[i + 1]
    <3>1. i + 1 \in 1 .. N
      OBVIOUS
    <3> QED
      BY <1>1, <3>1
  <2>2. PICK x \in 0 .. n : x = o[i] /\ FrameThere(b, quiet, x, p) /\ o[i + 1] = x + 2 + Len(p)
    BY <1>0, <2>1 DEF FramesThere
  <2>3. s[x] = Cat(<<p>>, s[x + 2 + Len(p)])
    BY <2>2, Zenon DEF Reads
  <2> QED
    BY <2>1, <2>2, <2>3
<1>4. ASSUME NEW i \in 0 .. c PROVE o[i] \in 0 .. n
  <2>1. CASE i = c
    BY <2>1
  <2>2. CASE i # c
    <3>1. i \in 0 .. c - 1
      BY <2>2
    <3> QED
      BY <1>3, <3>1
  <2> QED
    BY <2>1, <2>2
<1> DEFINE T == {k \in 0 .. c : s[0] = Cat(SubSeq(P, 1, k), s[o[k]])}
<1>5. 0 \in T
  <2>1. PICK v \in Seq(W) : v = s[0]
    BY <1>2
  <2>2. SubSeq(P, 1, 0) = <<>>
    OBVIOUS
  <2>3. Cat(<<>>, v) = v
    BY CatFacts
  <2>4. s[0] = Cat(SubSeq(P, 1, 0), s[o[0]])
    BY <2>1, <2>2, <2>3, Zenon
  <2> QED
    BY <2>4
<1>6. ASSUME NEW i \in 0 .. c - 1, i \in T PROVE i + 1 \in T
  <2>1. PICK v \in Seq(W) : v = s[o[i + 1]]
    <3>1. i + 1 \in 0 .. c
      OBVIOUS
    <3>2. o[i + 1] \in 0 .. n
      BY <1>4, <3>1
    <3> QED
      BY <1>2, <3>2
  <2>2. PICK u \in Seq(W) : u = SubSeq(P, 1, i)
    <3>1. i \in 0 .. Len(P)
      BY <1>0
    <3> QED
      BY <1>1, <3>1, StartIs
  <2>3. PICK e \in Seq(W) : e = <<P[i + 1]>>
    <3>1. i + 1 \in 1 .. N
      OBVIOUS
    <3>2. PICK p \in W : p = P[i + 1]
      BY <1>1, <3>1
    <3>3. <<p>> \in Seq(W)
      OBVIOUS
    <3> QED
      BY <3>2, <3>3
  <2>4. s[0] = Cat(u, Cat(e, v))
    BY <1>3, <1>6, <2>1, <2>2, <2>3
  <2>5. Cat(u, Cat(e, v)) = Cat(Cat(u, e), v)
    <3>1. \A x, y, z \in Seq(W) : Cat(Cat(x, y), z) = Cat(x, Cat(y, z))
      BY ONLY CatFacts
    <3> QED
      BY <3>1, Zenon
  <2>6. SubSeq(P, 1, i + 1) = Cat(u, e)
    <3>1. i \in 0 .. N - 1
      OBVIOUS
    <3>2. SubSeq(P, 1, i + 1) = Cat(SubSeq(P, 1, i), <<P[i + 1]>>)
      BY <1>0, <1>1, <3>1, StartGrows
    <3> QED
      BY <2>2, <2>3, <3>2
  <2>7. i + 1 \in 0 .. c
    OBVIOUS
  <2> QED
    BY <2>1, <2>4, <2>5, <2>6, <2>7
<1> HIDE DEF T
<1>7. c \in T
  <2>1. 0 \in Int /\ c \in Int /\ (0 <= c => 0 \in T)
    BY <1>5
  <2>2. \A i \in 0 .. c : i \in T
    BY ONLY <1>6, <2>1, IntervalInduction
  <2> QED
    BY <2>2
<1> QED
  BY <1>7 DEF T, ReadFirst

\* The number of places up to a, counted from the first.
LEMMA PlacesUpTo ==
    ASSUME NEW N \in Nat, NEW o \in [0 .. N -> Nat], \A i, j \in 0 .. N : i < j => o[i] < o[j],
           NEW a \in Nat, o[0] <= a
    PROVE  \E c \in 0 .. N : /\ {k \in 1 .. N : o[k] <= a} = 1 .. c
                             /\ o[c] <= a /\ (c < N => a < o[c + 1])
<1> DEFINE T == {k \in 1 .. N : a < o[k]}
<1>1. CASE T = {}
  <2>1. \A k \in 1 .. N : o[k] <= a
    BY <1>1
  <2>2. N \in 0 .. N /\ o[N] <= a /\ ~(N < N)
    BY <2>1
  <2>3. {k \in 1 .. N : o[k] <= a} = 1 .. N
    BY <2>1
  <2> QED
    BY <2>2, <2>3
<1>2. CASE T # {}
  <2>1. PICK m \in T : \A k \in T : m <= k
    <3>1. T \in SUBSET Nat
      OBVIOUS
    <3> HIDE DEF T
    <3> QED
      BY ONLY <1>2, <3>1, LeastElement
  <2>2. PICK c \in 0 .. N - 1 : m = c + 1 /\ a < o[c + 1]
    <3>1. m - 1 \in 0 .. N - 1 /\ m = (m - 1) + 1
      OBVIOUS
    <3> QED
      BY <3>1
  <2>3. ASSUME NEW k \in 1 .. N PROVE o[k] <= a <=> k \in 1 .. c
    <3>1. CASE k <= c
      <4>1. ~(a < o[k])
        BY <2>1, <2>2, <3>1
      <4>2. o[k] \in Nat
        OBVIOUS
      <4> QED
        BY <3>1, <4>1, <4>2
    <3>2. CASE k = c + 1
      <4>1. o[k] \in Nat
        OBVIOUS
      <4> QED
        BY <2>2, <3>2, <4>1
    <3>3. CASE k > c + 1
      <4>1. c + 1 \in 0 .. N /\ k \in 0 .. N /\ c + 1 < k
        BY <3>3
      <4>2. o[c + 1] < o[k] /\ o[k] \in Nat /\ o[c + 1] \in Nat
        BY <4>1
      <4> QED
        BY <2>2, <3>3, <4>2
    <3> QED
      BY <3>1, <3>2, <3>3
  <2>4. {k \in 1 .. N : o[k] <= a} = 1 .. c
    BY <2>3
  <2>5. o[c] <= a
    BY <2>3
  <2> QED
    BY <2>2, <2>4, <2>5, SMTT(30)
<1> QED
  BY <1>1, <1>2

\* The issuer reads the packets that arrived whole.
LEMMA PacketsRead ==
    ASSUME NEW P \in Seq(Packet), NEW N \in Nat, N = Len(P), NEW d, NEW o, StreamOf(P, N, d, o),
           NEW a \in 0 .. Len(d)
    PROVE  \E c \in 0 .. N : /\ {k \in 1 .. N : EndOf(FramesOf(P), k) <= a} = 1 .. c
                             /\ readTPDUFrames(SubSeq(d, 1, a)) = SubSeq(P, 1, c)
<1>1. /\ d \in Seq(Digits) /\ o \in [0 .. N -> Nat] /\ o[0] = 0 /\ o[N] = Len(d)
      /\ \A i \in 0 .. N - 1 : o[i + 1] = o[i] + 2 + Len(P[i + 1]) /\ HasFrame(d, o[i], P[i + 1])
      /\ \A k \in 0 .. N : EndOf(FramesOf(P), k) = o[k]
      /\ \A i, j \in 0 .. N : i < j => o[i] < o[j]
  BY DEF StreamOf
<1>2. PICK b \in Seq(Digits) : b = SubSeq(d, 1, a) /\ Len(b) = a
  BY <1>1, StartIs, ZenonT(30)
<1>3. a \in Nat /\ o[0] <= a
  BY <1>1
<1>4. PICK c \in 0 .. N : /\ {k \in 1 .. N : o[k] <= a} = 1 .. c
                          /\ o[c] <= a /\ (c < N => a < o[c + 1])
  BY ONLY <1>1, <1>3, N \in Nat, PlacesUpTo
<1>5. PICK s : Reads(s, b, a, {}) /\ readTPDUFrames(b) = s[0]
  BY <1>2, <1>3, FramesReads
<1>6. \A k \in 1 .. N : P[k] \in Packet
  BY ElementOfSeq
<1>7. ASSUME NEW i \in 0 .. N - 1
      PROVE  /\ o[i + 1] <= a => HasFrame(b, o[i], P[i + 1])
             /\ a < o[i + 1] => EndsWithin(b, o[i], Len(P[i + 1]))
  <2>1. i + 1 \in 1 .. N /\ o[i] \in Nat /\ o[i + 1] = o[i] + 2 + Len(P[i + 1]) /\ HasFrame(d, o[i], P[i + 1])
    BY ONLY <1>1, i \in 0 .. N - 1, N \in Nat
  <2>2. PICK x \in Nat, p \in Packet : x = o[i] /\ p = P[i + 1] /\ o[i + 1] = x + 2 + Len(p) /\ HasFrame(d, x, p)
    BY <1>6, <2>1
  <2> QED
    BY <1>1, <1>2, <2>2, FrameArrives
<1>8. o[c] \in 0 .. a
  BY <1>1, <1>4
<1>9. FramesThere(P, c, b, {}, o)
  <2>0. c \in 0 .. Len(P) /\ o[0] = 0 /\ o[c] \in 0 .. Len(b)
    BY <1>1, <1>2, <1>8
  <2> SUFFICES ASSUME NEW i \in 0 .. c - 1
               PROVE  /\ o[i] \in 0 .. Len(b) /\ FrameThere(b, {}, o[i], P[i + 1])
                      /\ o[i + 1] = o[i] + 2 + Len(P[i + 1])
    BY <2>0 DEF FramesThere
  <2>1. i \in 0 .. N - 1 /\ i + 1 \in 1 .. c /\ i + 1 \in 1 .. N /\ i \in 0 .. N /\ i + 1 \in 0 .. N
    OBVIOUS
  <2>2. o[i + 1] <= a
    BY <1>4, <2>1
  <2>3. o[i] < o[i + 1] /\ o[i] \in Nat /\ o[i + 1] \in Nat
    <3>1. i < i + 1
      BY <2>1
    <3> QED
      BY ONLY <1>1, <2>1, <3>1
  <2>4. o[i] \in 0 .. a
    BY <1>3, <2>2, <2>3
  <2>5. HasFrame(b, o[i], P[i + 1])
    BY <1>7, <2>1, <2>2
  <2>6. FrameThere(b, {}, o[i], P[i + 1])
    BY <2>5 DEF FrameThere, Undisturbed
  <2> QED
    BY <1>1, <1>2, <2>1, <2>4, <2>6
<1>10. s[0] = Cat(SubSeq(P, 1, c), s[o[c]])
  <2>1. Reads(s, b, Len(b), {})
    BY <1>2, <1>5
  <2>2. ReadFirst(P, c, s, o)
    BY <1>9, <2>1, FramesTaken, Zenon
  <2> QED
    BY <2>2 DEF ReadFirst
<1>11. s[o[c]] = <<>>
  <2>1. CASE c = N
    <3>1. o[c] = a
      BY <1>1, <1>8, <2>1
    <3> QED
      BY <1>5, <3>1 DEF Reads
  <2>2. CASE c # N
    <3>1. c \in 0 .. N - 1 /\ c < N /\ c + 1 \in 1 .. N
      BY <2>2
    <3>2. EndsWithin(b, o[c], Len(P[c + 1]))
      BY <1>4, <1>7, <3>1
    <3>3. Len(P[c + 1]) \in HeaderLen .. MaxPacket
      BY <1>6, <3>1, PacketIs
    <3> QED
      BY <1>5, <1>8, <3>2, <3>3, Zenon DEF Reads
  <2> QED
    BY <2>1, <2>2
<1>12. Cat(SubSeq(P, 1, c), <<>>) = SubSeq(P, 1, c)
  <2>1. PICK u \in Seq(Packet) : u = SubSeq(P, 1, c)
    BY StartIs
  <2>2. Cat(u, <<>>) = u
    BY CatFacts
  <2> QED
    BY <2>1, <2>2
<1>13. {k \in 1 .. N : EndOf(FramesOf(P), k) <= a} = {k \in 1 .. N : o[k] <= a}
  BY <1>1
<1> QED
  BY <1>2, <1>4, <1>5, <1>10, <1>11, <1>12, <1>13

\* The answers within which a deadline passes, and those the switch hears.
TornIn(Q, quiet) ==
    {k \in DOMAIN Q : \E q \in quiet : /\ EndOf(FramesOf(Q), k - 1) < q
                                       /\ q < EndOf(FramesOf(Q), k)}
Untorn(Q, quiet, m)   == m \in 0 .. Len(Q) /\ \A k \in 1 .. m : k \notin TornIn(Q, quiet)
HeardIn(Q, quiet, d, m) == /\ IsPrefix(SubSeq(Q, 1, m), Listened(d, quiet))
                           /\ m = Len(Q) => Listened(d, quiet) = Q

LEMMA AnswersHeard ==
    ASSUME NEW Q \in Seq(Packet), NEW c \in Nat, c = Len(Q), NEW d, NEW o, StreamOf(Q, c, d, o),
           NEW quiet, quiet \subseteq Nat, NEW m, Untorn(Q, quiet, m)
    PROVE  HeardIn(Q, quiet, d, m)
<1>0. m \in 0 .. c /\ \A k \in 1 .. m : k \notin TornIn(Q, quiet)
  BY DEF Untorn
<1>1. /\ d \in Seq(Digits) /\ o \in [0 .. c -> Nat] /\ o[0] = 0 /\ o[c] = Len(d)
      /\ \A i \in 0 .. c - 1 : o[i + 1] = o[i] + 2 + Len(Q[i + 1]) /\ HasFrame(d, o[i], Q[i + 1])
      /\ \A k \in 0 .. c : EndOf(FramesOf(Q), k) = o[k]
      /\ \A i, j \in 0 .. c : i < j => o[i] < o[j]
  BY DEF StreamOf
<1>2. PICK n \in Nat : n = Len(d)
  BY <1>1
<1>3. PICK s : Reads(s, d, Len(d), quiet) /\ Listened(d, quiet) = s[0]
  BY <1>1, <1>2, ListenedReads
<1>4. DOMAIN Q = 1 .. c
  OBVIOUS
<1>5. ASSUME NEW i \in 0 .. c PROVE o[i] \in 0 .. n
  <2>1. o[i] \in Nat /\ o[c] \in Nat /\ c \in 0 .. c
    BY <1>1
  <2>2. CASE i = c
    BY <1>1, <1>2, <2>2
  <2>3. CASE i # c
    <3>1. i < c
      BY <2>3
    <3>2. o[i] < o[c]
      BY ONLY <1>1, <2>1, <3>1, i \in 0 .. c
    <3> QED
      BY <1>1, <1>2, <2>1, <3>2
  <2> QED
    BY <2>2, <2>3
<1>6. FramesThere(Q, m, d, quiet, o)
  <2>1. m \in 0 .. Len(Q) /\ o[0] = 0 /\ o[m] \in 0 .. Len(d)
    BY <1>0, <1>1, <1>2, <1>5
  <2>2. ASSUME NEW i \in 0 .. m - 1
        PROVE  /\ o[i] \in 0 .. Len(d) /\ FrameThere(d, quiet, o[i], Q[i + 1])
               /\ o[i + 1] = o[i] + 2 + Len(Q[i + 1])
    <3>1. i \in 0 .. c - 1 /\ i + 1 \in 1 .. m /\ i + 1 \in 1 .. c /\ i \in 0 .. c /\ i + 1 \in 0 .. c
          /\ (i + 1) - 1 = i
      BY <1>0
    <3>2. o[i + 1] = o[i] + 2 + Len(Q[i + 1]) /\ HasFrame(d, o[i], Q[i + 1])
      BY ONLY <1>1, <3>1
    <3>3. ASSUME NEW q \in quiet PROVE ~(o[i] < q /\ q < o[i + 1])
      <4>1. i + 1 \notin TornIn(Q, quiet)
        BY <1>0, <3>1
      <4>2. ~(EndOf(FramesOf(Q), (i + 1) - 1) < q /\ q < EndOf(FramesOf(Q), i + 1))
        BY <1>4, <3>1, <4>1 DEF TornIn
      <4>3. EndOf(FramesOf(Q), i) = o[i] /\ EndOf(FramesOf(Q), i + 1) = o[i + 1]
        BY ONLY <1>1, <3>1
      <4> QED
        BY ONLY <3>1, <4>2, <4>3
    <3>4. FrameThere(d, quiet, o[i], Q[i + 1])
      BY <3>2, <3>3 DEF FrameThere, Undisturbed
    <3> QED
      BY <1>2, <1>5, <3>1, <3>2, <3>4
  <2> QED
    BY <2>1, <2>2 DEF FramesThere
<1>7. s[0] = Cat(SubSeq(Q, 1, m), s[o[m]])
  <2>1. ReadFirst(Q, m, s, o)
    BY <1>1, <1>3, <1>6, FramesTaken, Zenon
  <2> QED
    BY <2>1 DEF ReadFirst
<1>8. PICK u \in Seq(ByteString), v \in Seq(ByteString) : u = SubSeq(Q, 1, m) /\ v = s[o[m]]
  <2>1. s[o[m]] \in Seq(ByteString)
    BY <1>0, <1>2, <1>3, <1>5 DEF Reads
  <2>2. \A p \in Packet : p \in ByteString
    BY PacketIs DEF ByteString
  <2> DEFINE W == ByteString
  <2>3. Q \in [1 .. c -> Packet]
    OBVIOUS
  <2> HIDE DEF W
  <2>4. \A p \in Packet : p \in W
    BY <2>2 DEF W
  <2>5. Q \in [1 .. c -> W]
    BY <2>3, <2>4
  <2>6. Q \in Seq(W) /\ m \in 0 .. Len(Q)
    BY <1>0, <2>5, FunctionSeq
  <2>7. SubSeq(Q, 1, m) \in Seq(W)
    BY <2>6, StartIs
  <2> QED
    BY <2>1, <2>7 DEF W
<1>9. IsPrefix(u, Cat(u, v))
  BY BeginsCat, Zenon
<1>10. ASSUME m = c PROVE s[0] = Q
  <2>1. v = <<>>
    BY <1>1, <1>2, <1>3, <1>8, <1>10 DEF Reads
  <2>2. Cat(u, <<>>) = u
    BY CatFacts
  <2>3. u = Q
    BY <1>8, <1>10
  <2> QED
    BY <1>7, <1>8, <2>1, <2>2, <2>3
<1> QED
  BY <1>3, <1>7, <1>8, <1>9, <1>10 DEF HeardIn

\* An answer goes out as a packet, under the header of its request.
LEMMA AnswerIsPacket ==
    ASSUME NEW p \in Packet, NEW response \in Seq(Digits), HeaderLen + Len(response) <= MaxPacket
    PROVE  SubSeq(p, 1, HeaderLen) \o response \in Packet
<1>1. p \in Seq(Digits) /\ HeaderLen \in 0 .. Len(p)
  BY PacketIs, FramingAssumption
<1>2. PICK h \in Seq(Digits) : h = SubSeq(p, 1, HeaderLen) /\ Len(h) = HeaderLen
  BY <1>1, StartIs
<1>3. h \o response \in Seq(Digits) /\ Len(h \o response) = Len(h) + Len(response)
  BY ConcatProperties
<1>4. PICK l \in Nat, n \in Nat : l = Len(response) /\ n = HeaderLen
  BY FramingAssumption
<1>5. n + l \in n .. MaxPacket
  BY <1>4, FramingAssumption
<1> QED
  BY <1>2, <1>3, <1>4, <1>5 DEF Packet, Digits

AnswersTo(P, response, n) == [k \in 1 .. n |-> SubSeq(P[k], 1, HeaderLen) \o response]

LEMMA AnswersAre ==
    ASSUME NEW P, NEW c \in Nat, \A k \in 1 .. c : P[k] \in Packet, NEW response \in Seq(Digits),
           HeaderLen + Len(response) <= MaxPacket
    PROVE  /\ AnswersTo(P, response, c) \in Seq(Packet) /\ Len(AnswersTo(P, response, c)) = c
           /\ \A m \in 0 .. c : SubSeq(AnswersTo(P, response, c), 1, m) = AnswersTo(P, response, m)
<1>1. \A k \in 1 .. c : SubSeq(P[k], 1, HeaderLen) \o response \in Packet
  BY AnswerIsPacket
<1>2. ASSUME NEW m \in 0 .. c
      PROVE  /\ AnswersTo(P, response, m) \in Seq(Packet) /\ Len(AnswersTo(P, response, m)) = m
             /\ \A k \in 1 .. m : AnswersTo(P, response, m)[k] = SubSeq(P[k], 1, HeaderLen) \o response
  <2>1. AnswersTo(P, response, m) \in [1 .. m -> Packet]
    BY <1>1 DEF AnswersTo
  <2>2. m \in Nat
    OBVIOUS
  <2> QED
    BY <2>1, <2>2, FunctionSeq DEF AnswersTo
<1>3. PICK Q \in Seq(Packet) :
         /\ Q = AnswersTo(P, response, c) /\ Len(Q) = c
         /\ \A k \in 1 .. c : Q[k] = SubSeq(P[k], 1, HeaderLen) \o response
  <2>1. c \in 0 .. c
    OBVIOUS
  <2> QED
    BY <1>2, <2>1
<1>4. ASSUME NEW m \in 0 .. c PROVE SubSeq(Q, 1, m) = AnswersTo(P, response, m)
  <2>1. PICK u \in Seq(Packet) : u = SubSeq(Q, 1, m) /\ Len(u) = m /\ \A k \in 1 .. m : u[k] = Q[k]
    <3>1. m \in 0 .. Len(Q)
      BY <1>3
    <3> QED
      BY ONLY Q \in Seq(Packet), <3>1, StartIs
  <2>2. PICK v \in Seq(Packet) :
           /\ v = AnswersTo(P, response, m) /\ Len(v) = m
           /\ \A k \in 1 .. m : v[k] = SubSeq(P[k], 1, HeaderLen) \o response
    BY <1>2
  <2>3. ASSUME NEW k \in 1 .. m PROVE u[k] = v[k]
    <3>1. k \in 1 .. c
      OBVIOUS
    <3> QED
      BY <1>3, <2>1, <2>2, <3>1
  <2>4. u = v
    BY <2>1, <2>2, <2>3, SameElements
  <2> QED
    BY <2>1, <2>2, <2>4
<1> QED
  BY <1>3, <1>4

\* However the bytes are cut off or delayed, the issuer reads the packets that
\* arrived whole and the switch hears the answers before a torn one (readTPDU
\* and writeTPDU of both sides).
THEOREM FramesSurvive == Spec => []FramesReadBack
<1>1. ASSUME NEW st \in Streams
      PROVE  /\ ReadOf(st) = SubSeq(st.packets, 1, Cardinality({k \in DOMAIN st.packets :
                                EndOf(FramesOf(st.packets), k) <= st.arrived}))
             /\ LET torn == {k \in DOMAIN AnswersOf(st) : \E q \in st.quiet :
                                 EndOf(AnswersOf(st), k - 1) < q /\ q < EndOf(AnswersOf(st), k)}
                    heard == Listened(FlattenSeq(AnswersOf(st)), st.quiet)
                IN  IF torn = {} THEN heard = AnswersTo(st.packets, st.response, Len(AnswersOf(st)))
                    ELSE IsPrefix(AnswersTo(st.packets, st.response, Min(torn) - 1), heard)
  <2>1. PICK P, a, quiet, response :
           P = st.packets /\ a = st.arrived /\ quiet = st.quiet /\ response = st.response
    OBVIOUS
  <2>2. PICK d : d = FlattenSeq(FramesOf(P))
    OBVIOUS
  <2>3. /\ P \in Seq(Packet) /\ quiet \subseteq Nat /\ a \in 0 .. Len(d)
        /\ response \in Seq(Digits) /\ HeaderLen + Len(response) <= MaxPacket
    BY <2>1, <2>2, InputAssumption DEF FramesOf, Digits
  <2>4. PICK N \in Nat : N = Len(P) /\ DOMAIN P = 1 .. N
    BY <2>3
  <2>5. \E o : StreamOf(P, N, d, o)
    BY <2>2, <2>3, <2>4, StreamExists
  <2>6. PICK o : StreamOf(P, N, d, o)
    BY <2>5
  <2>7. PICK c \in 0 .. N : /\ {k \in 1 .. N : EndOf(FramesOf(P), k) <= a} = 1 .. c
                            /\ readTPDUFrames(SubSeq(d, 1, a)) = SubSeq(P, 1, c)
    BY <2>3, <2>4, <2>6, PacketsRead
  <2>8. ReadOf(st) = SubSeq(P, 1, c)
    BY <2>1, <2>2, <2>7 DEF ReadOf, SentOf, FramesOf
  <2>9. Cardinality({k \in DOMAIN P : EndOf(FramesOf(P), k) <= a}) = c
    <3>1. Cardinality(1 .. c) = c
      BY FS_Interval
    <3> QED
      BY <2>4, <2>7, <3>1
  <2>10. PICK R \in Seq(Packet) : R = ReadOf(st) /\ DOMAIN R = 1 .. c /\ \A k \in 1 .. c : R[k] = P[k]
    <3>1. c \in 0 .. Len(P)
      BY <2>4
    <3>2. /\ SubSeq(P, 1, c) \in Seq(Packet) /\ Len(SubSeq(P, 1, c)) = c
          /\ \A k \in 1 .. c : SubSeq(P, 1, c)[k] = P[k]
      BY <2>3, <3>1, StartIs
    <3> QED
      BY <2>8, <3>2
  <2>11. \A k \in 1 .. c : P[k] \in Packet
    BY <2>3, <2>4, ElementOfSeq
  <2>12. PICK Q \in Seq(Packet) :
            /\ Q = AnswersTo(P, response, c) /\ Len(Q) = c
            /\ \A m \in 0 .. c : SubSeq(Q, 1, m) = AnswersTo(P, response, m)
    <3>1. c \in Nat
      OBVIOUS
    <3> QED
      BY <2>3, <2>11, <3>1, AnswersAre
  <2>13. AnswersOf(st) = FramesOf(Q) /\ DOMAIN Q = 1 .. c
    <3>1. DOMAIN Q = 1 .. c
      BY <2>12
    <3>2. ASSUME NEW k \in 1 .. c PROVE writeTPDUFrame(response, R[k]) = Framed(Q[k])
      BY <2>10, <2>12 DEF writeTPDUFrame, AnswersTo
    <3>3. [k \in 1 .. c |-> writeTPDUFrame(response, R[k])] = [k \in 1 .. c |-> Framed(Q[k])]
      BY <3>2, Zenon
    <3>4. AnswersOf(st) = [k \in 1 .. c |-> writeTPDUFrame(response, R[k])]
      BY <2>1, <2>10, Zenon DEF AnswersOf
    <3> QED
      BY <3>1, <3>3, <3>4 DEF FramesOf
  <2>14. PICK e : e = FlattenSeq(FramesOf(Q))
    OBVIOUS
  <2>15. \E x : StreamOf(Q, c, e, x)
    BY <2>12, <2>14, StreamExists
  <2>16. PICK x : StreamOf(Q, c, e, x)
    BY <2>15
  <2>17. PICK torn : torn = TornIn(Q, quiet)
    OBVIOUS
  <2>18. torn = {k \in DOMAIN AnswersOf(st) : \E q \in st.quiet :
                    EndOf(AnswersOf(st), k - 1) < q /\ q < EndOf(AnswersOf(st), k)}
    <3>1. DOMAIN FramesOf(Q) = DOMAIN Q
      BY DEF FramesOf
    <3> QED
      BY <2>1, <2>13, <2>17, <3>1, Zenon DEF TornIn
  <2>19. PICK heard : heard = Listened(e, quiet)
    OBVIOUS
  <2>20. ASSUME NEW m \in 0 .. c, \A k \in 1 .. m : k \notin torn
         PROVE  IsPrefix(AnswersTo(P, response, m), heard) /\ (m = c => heard = Q)
    <3>1. c \in Nat /\ c = Len(Q)
      BY <2>12
    <3>2. Untorn(Q, quiet, m)
      BY <2>17, <2>20, <3>1 DEF Untorn
    <3>3. HeardIn(Q, quiet, e, m)
      BY <2>3, <2>16, <3>1, <3>2, AnswersHeard, Zenon
    <3>4. IsPrefix(SubSeq(Q, 1, m), heard) /\ (m = c => heard = Q)
      BY <2>19, <3>1, <3>3 DEF HeardIn
    <3> QED
      BY <2>12, <3>4
  <2>21. torn = {} => heard = AnswersTo(P, response, Len(AnswersOf(st)))
    <3> SUFFICES ASSUME torn = {} PROVE heard = AnswersTo(P, response, Len(AnswersOf(st)))
      OBVIOUS
    <3>1. heard = Q
      <4>1. c \in 0 .. c
        OBVIOUS
      <4> QED
        BY <2>20, <4>1
    <3>2. Len(AnswersOf(st)) = c
      <4>1. FramesOf(Q) = [k \in 1 .. c |-> Framed(Q[k])]
        BY <2>13 DEF FramesOf
      <4> QED
        BY <2>13, <4>1
    <3> QED
      BY <2>12, <3>1, <3>2
  <2>22. torn # {} => IsPrefix(AnswersTo(P, response, Min(torn) - 1), heard)
    <3> SUFFICES ASSUME torn # {} PROVE IsPrefix(AnswersTo(P, response, Min(torn) - 1), heard)
      OBVIOUS
    <3>1. torn \subseteq 1 .. c
      BY <2>13, <2>17 DEF TornIn
    <3>2. PICK t \in torn : t = Min(torn) /\ \A k \in torn : t <= k
      <4>1. torn \in SUBSET Nat
        BY <3>1
      <4>2. \E t \in torn : \A k \in torn : t <= k
        BY <4>1, LeastElement
      <4> QED
        BY <4>2 DEF Min
    <3>3. PICK m \in 0 .. c : m = t - 1
      BY <3>1, <3>2
    <3>4. \A k \in 1 .. m : k \notin torn
      BY <3>1, <3>2, <3>3
    <3> QED
      BY <2>20, <3>2, <3>3, <3>4
  <2>23. Listened(FlattenSeq(AnswersOf(st)), st.quiet) = heard
    BY <2>1, <2>13, <2>14, <2>19
  <2> QED
    BY <2>1, <2>8, <2>9, <2>18, <2>21, <2>22, <2>23
<1>2. ASSUME Answered PROVE FramesReadBack
  <2> SUFFICES ASSUME Done("stream") PROVE FramesReadBack
    BY DEF FramesReadBack
  <2>1. PICK st \in Streams : st = call.stream /\ result.val = StreamOutcome(st)
    BY <1>2, Arguments DEF Answered, AnswerIs, Done
  <2>2. /\ result.val.read = ReadOf(st) /\ result.val.answers = AnswersOf(st)
        /\ result.val.heard = Listened(FlattenSeq(AnswersOf(st)), st.quiet)
    BY <2>1 DEF StreamOutcome
  <2> QED
    BY <1>1, <2>1, <2>2, Zenon DEF FramesReadBack, FramesOf, AnswersTo
<1> QED
  BY <1>2, AnsweredInvariant, PTL
==============================================================================

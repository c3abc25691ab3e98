---------------------------- MODULE SignInProofs ----------------------------
(***************************************************************************)
(* What holds of the start of the process and of its sign-ins, for every   *)
(* environment, number of tabs and number of ceremonies: the wait for the  *)
(* database, what the return-target sanitiser lets through, however often it *)
(* is decoded, whose code a callback presents, and where a sign-in leads.  *)
(***************************************************************************)
EXTENDS Site, SequenceTheorems, WellFoundedInduction, TLAPS

-----------------------------------------------------------------------------
(* The wait for the database. *)

\* Where the clock stands in each phase.
WaitInv ==
  /\ env \in Environments /\ db \in BOOLEAN /\ elapsed \in Nat
  /\ phase \in {"connecting", "pausing", "configuring", "serving", "exited"}
  /\ phase = "connecting" => elapsed <= MaxWait + RetryPause
  /\ phase = "pausing" => elapsed <= MaxWait
  /\ phase = "configuring" /\ env.database /\ ~db => elapsed >= MaxWait
  /\ elapsed <= MaxWait + RetryPause + AttemptTime

LEMMA MaxWaitIsNat == ASSUME env \in Environments PROVE MaxWait \in Nat
<1>1. env.wait \in {Unset, Malformed} \cup Nat
  BY StartupAssumption DEF Environment
<1>2. QED
  BY <1>1, StartupAssumption DEF MaxWait, ParseOr

LEMMA InitWait == Init => WaitInv
<1> SUFFICES ASSUME Init PROVE WaitInv
  OBVIOUS
<1>1. env \in Environments /\ elapsed = 0 /\ db = FALSE
      /\ phase = IF env.database THEN "connecting" ELSE "configuring"
  BY DEF Init, StartupInit
<1>2. MaxWait \in Nat
  BY <1>1, MaxWaitIsNat
<1>3. AttemptTime \in Nat /\ RetryPause \in Nat
  BY StartupAssumption
<1>4. phase = "configuring" => ~env.database
  BY <1>1
<1>5. elapsed <= MaxWait + RetryPause /\ elapsed <= MaxWait + RetryPause + AttemptTime
  BY <1>1, <1>2, <1>3
<1>6. phase \in {"connecting", "configuring"}
  BY <1>1
<1>7. QED
  BY <1>1, <1>4, <1>5, <1>6 DEF WaitInv

\* The process starts, and then its start is over.
LEMMA StepsOfTheStart == [Next]_vars => StartupNext \/ UNCHANGED startupVars
BY DEF Next, Starting, SigningIn, Paging, RegistryChanges, ChangeRole, ChangeDirect,
   ChangeVisibility, Release, Yank, Change, Asking, Arrive, Answering, Resolve, Handling,
   RegistryPagesNext, Home, Search, FindPackage, PackageOrgRole, PackageProjectRole,
   PackageVersions, PackageLatest, PackageProject, OrgScope, DashboardProjects,
   DashboardPackages, ProjectSettingsProject, ProjectSettingsPackages, PackageSettings,
   UserSettings, GraphPagesNext, GraphOrg, GraphProject, GraphOrgRole, GraphProjectRole,
   GraphPackages, GraphVersions, GraphLicenses, Query, EnrollmentNext, Choose,
   RenderAccount, Entry, EntryUnavailable, EnrollRefused, ApiCreates, ApiRefuses,
   EnrollAnswered, RenderFailure, Timeout, Deliver, vars

LEMMA StepKeepsWait == WaitInv /\ [Next]_vars => WaitInv'
<1> SUFFICES ASSUME WaitInv, [Next]_vars PROVE WaitInv'
  OBVIOUS
<1>1. MaxWait \in Nat /\ AttemptTime \in Nat /\ RetryPause \in Nat \ {0}
  BY MaxWaitIsNat, StartupAssumption DEF WaitInv
<1>2. ASSUME UNCHANGED startupVars PROVE WaitInv'
  BY <1>2 DEF WaitInv, startupVars, MaxWait
<1>3. ASSUME NEW seconds \in 0 .. AttemptTime, Connect(seconds) \/ ConnectFails(seconds)
      PROVE  WaitInv'
  <2>1. env' = env /\ MaxWait' = MaxWait /\ phase = "connecting"
        /\ elapsed' = elapsed + seconds
    BY <1>3 DEF Connect, ConnectFails, MaxWait
  <2>2. CASE Connect(seconds)
    BY <1>1, <2>1, <2>2 DEF Connect, WaitInv
  <2>3. CASE ConnectFails(seconds)
    BY <1>1, <2>1, <2>3 DEF ConnectFails, WaitInv, WaitOver
  <2>4. QED
    BY <1>3, <2>2, <2>3
<1>4. CASE Pause
  <2>1. env' = env /\ MaxWait' = MaxWait
    BY <1>4 DEF Pause, MaxWait
  <2>2. QED
    BY <1>1, <1>4, <2>1 DEF Pause, WaitInv
<1>5. CASE Configure
  <2>1. env' = env /\ MaxWait' = MaxWait
    BY <1>5 DEF Configure, MaxWait
  <2>2. QED
    BY <1>1, <1>5, <2>1 DEF Configure, WaitInv
<1>6. StartupNext \/ UNCHANGED startupVars
  BY StepsOfTheStart
<1>7. QED
  BY <1>2, <1>3, <1>4, <1>5, <1>6 DEF StartupNext

\* A process with a database URL goes offline after the whole wait, and starts
\* in bounded time, whatever wait, pause and attempt last.
THEOREM WaitHolds == Spec => []WaitIsKept
<1>1. WaitInv => WaitIsKept
  BY DEF WaitInv, WaitIsKept
<1>2. QED
  BY InitWait, StepKeepsWait, <1>1, PTL DEF Spec

-----------------------------------------------------------------------------
(* The sanitiser: decoding once. *)

\* Induction over the natural numbers, for a set of them.
LEMMA Induction ==
  ASSUME NEW S, 0 \in S, \A n \in Nat : n \in S => n + 1 \in S
  PROVE  Nat \subseteq S
<1> DEFINE Rel == {ss \in Nat \X Nat : ss[1] < ss[2]}
           Bad == Nat \ S
<1>1. IsWellFoundedOn(Rel, Nat)
  BY NatLessThanWellFounded DEF OpToRel
<1> HIDE DEF Rel
<1>2. SUFFICES ASSUME Bad # {} PROVE FALSE
  OBVIOUS
<1>3. PICK x \in Bad : \A y \in Bad : <<y, x>> \notin Rel
  BY <1>1, <1>2, WFMin
<1>4. x \in Nat /\ x # 0
  BY <1>3
<1>5. <<x - 1, x>> \in Rel /\ x - 1 \in Nat
  BY <1>4 DEF Rel
<1>6. x - 1 \in S
  BY <1>3, <1>5
<1>7. QED
  BY <1>3, <1>4, <1>5, <1>6

\* What a reading from place i on gives, in terms of the readings further on.
DecodeFrom(text, i, from) ==
  IF i > Len(text) THEN << >>
  ELSE IF Escape(text, i)
       THEN <<Spelled(text[i + 1], text[i + 2])>> \o from[i + 3]
       ELSE <<text[i]>> \o from[i + 1]

Decoder(text) ==
  CHOOSE from : from = [i \in 1 .. Len(text) + 1 |-> DecodeFrom(text, i, from)]

LEMMA DecodeIsDecoder ==
  ASSUME NEW text
  PROVE  PercentDecodeOnce(text) = Decoder(text)[1]
BY DEF PercentDecodeOnce, Decoder, DecodeFrom

LEMMA SpelledIsByte ==
  ASSUME NEW high \in Digits, NEW low \in Digits
  PROVE  Spelled(high, low) \in Byte
<1> USE DEF Byte, Digits
<1>1. CASE high \in {"c", "f"}
  BY <1>1 DEF Spelled
<1>2. CASE high = "0"
  BY <1>2 DEF Spelled
<1>3. CASE high = "3" /\ low \in {"0", "2", "3", "5"}
  BY <1>3 DEF Spelled
<1>4. CASE high = "2"
  BY <1>4 DEF Spelled
<1>5. CASE high = "5"
  BY <1>5 DEF Spelled
<1>6. CASE high = "3" /\ low \in {"c", "f"}
  BY <1>6 DEF Spelled
<1>7. QED
  BY <1>1, <1>2, <1>3, <1>4, <1>5, <1>6

\* A reading from i on depends on what is read after it.
LEMMA DecodeLooksAhead ==
  ASSUME NEW text \in Seq(Byte), NEW i \in 1 .. Len(text) + 1, NEW f, NEW g,
         \A j \in i + 1 .. Len(text) + 1 : f[j] = g[j]
  PROVE  DecodeFrom(text, i, f) = DecodeFrom(text, i, g)
<1>1. CASE i > Len(text)
  BY <1>1 DEF DecodeFrom
<1>2. CASE i <= Len(text) /\ Escape(text, i)
  <2>1. i + 3 \in i + 1 .. Len(text) + 1
    BY <1>2 DEF Escape
  <2>2. f[i + 3] = g[i + 3]
    BY <2>1
  <2>3. QED
    BY <2>2 DEF DecodeFrom
<1>3. CASE i <= Len(text) /\ ~Escape(text, i)
  <2>1. f[i + 1] = g[i + 1]
    BY <1>3
  <2>2. QED
    BY <1>3, <2>1 DEF DecodeFrom
<1>4. QED
  BY <1>1, <1>2, <1>3

\* A reading exists, whatever the text.
LEMMA DecoderReads ==
  ASSUME NEW text \in Seq(Byte)
  PROVE  /\ Decoder(text) = [i \in 1 .. Len(text) + 1 |-> DecodeFrom(text, i, Decoder(text))]
         /\ Decoder(text) \in [1 .. Len(text) + 1 -> Seq(Byte)]
<1> DEFINE L == Len(text) + 1
           Ahead(n) == {i \in 1 .. L : i >= L - n}
           Good(n) == \E from \in [Ahead(n) -> Seq(Byte)] :
                        \A i \in Ahead(n) : from[i] = DecodeFrom(text, i, from)
           S == {n \in Nat : Good(n)}
<1>0. L \in Nat \ {0} /\ Len(text) \in Nat /\ text \in [1 .. Len(text) -> Byte]
  OBVIOUS
<1>1. ASSUME NEW D, NEW from \in [D -> Seq(Byte)], NEW i \in 1 .. L,
             \A j \in i + 1 .. L : j \in D
      PROVE  DecodeFrom(text, i, from) \in Seq(Byte)
  <2>1. CASE i > Len(text)
    BY <2>1 DEF DecodeFrom
  <2>2. CASE i <= Len(text) /\ Escape(text, i)
    <3>1. i + 3 \in D /\ text[i + 1] \in Digits /\ text[i + 2] \in Digits
      BY <1>0, <1>1, <2>2 DEF Escape
    <3>2. <<Spelled(text[i + 1], text[i + 2])>> \in Seq(Byte) /\ from[i + 3] \in Seq(Byte)
      BY <3>1, <1>1, SpelledIsByte
    <3>3. DecodeFrom(text, i, from) = <<Spelled(text[i + 1], text[i + 2])>> \o from[i + 3]
      BY <2>2, <1>0 DEF DecodeFrom
    <3>4. QED
      BY <3>2, <3>3, ConcatProperties
  <2>3. CASE i <= Len(text) /\ ~Escape(text, i)
    <3>1. i + 1 \in D /\ text[i] \in Byte
      BY <1>0, <1>1, <2>3
    <3>2. <<text[i]>> \in Seq(Byte) /\ from[i + 1] \in Seq(Byte)
      BY <3>1, <1>1
    <3>3. DecodeFrom(text, i, from) = <<text[i]>> \o from[i + 1]
      BY <2>3, <1>0 DEF DecodeFrom
    <3>4. QED
      BY <3>2, <3>3, ConcatProperties
  <2>4. QED
    BY <2>1, <2>2, <2>3, <1>0
<1>3. 0 \in S
  <2> DEFINE f == [i \in Ahead(0) |-> << >>]
  <2>1. \A i \in Ahead(0) : i > Len(text)
    BY <1>0
  <2>2. f \in [Ahead(0) -> Seq(Byte)]
    OBVIOUS
  <2>3. \A i \in Ahead(0) : f[i] = DecodeFrom(text, i, f)
    BY <2>1 DEF DecodeFrom
  <2>4. QED
    BY <2>2, <2>3
<1>4. ASSUME NEW n \in Nat, n \in S PROVE n + 1 \in S
  <2>1. PICK from \in [Ahead(n) -> Seq(Byte)] :
          \A i \in Ahead(n) : from[i] = DecodeFrom(text, i, from)
    BY <1>4
  <2> DEFINE f == [i \in Ahead(n + 1) |-> DecodeFrom(text, i, from)]
  <2>2. \A i \in Ahead(n + 1) : \A j \in i + 1 .. L : j \in Ahead(n)
    BY <1>0
  <2>3. f \in [Ahead(n + 1) -> Seq(Byte)]
    BY <2>1, <2>2, <1>1
  <2>4. \A i \in Ahead(n) : i \in Ahead(n + 1) /\ f[i] = from[i]
    BY <2>1, <1>0
  <2>5. \A i \in Ahead(n + 1) : DecodeFrom(text, i, f) = DecodeFrom(text, i, from)
    <3> SUFFICES ASSUME NEW i \in Ahead(n + 1)
                 PROVE  DecodeFrom(text, i, f) = DecodeFrom(text, i, from)
      OBVIOUS
    <3>1. \A j \in i + 1 .. L : f[j] = from[j]
      BY <2>2, <2>4
    <3> HIDE DEF f
    <3> QED
      BY <3>1, <1>0, DecodeLooksAhead
  <2>6. \A i \in Ahead(n + 1) : f[i] = DecodeFrom(text, i, f)
    <3> HIDE DEF Ahead
    <3> QED
      BY <2>5
  <2> HIDE DEF f, Ahead
  <2>7. Good(n + 1)
    BY <2>3, <2>6
  <2> QED
    BY <2>7
<1>5. L \in S
  <2> HIDE DEF S
  <2> QED
    BY <1>0, <1>3, <1>4, Induction
<1>6. Ahead(L) = 1 .. L
  BY <1>0
<1>7. PICK from \in [1 .. L -> Seq(Byte)] :
        \A i \in 1 .. L : from[i] = DecodeFrom(text, i, from)
  BY <1>5, <1>6
<1> HIDE DEF Ahead, S
<1>8. from = [i \in 1 .. L |-> DecodeFrom(text, i, from)]
  BY <1>7
<1> DEFINE d == Decoder(text)
<1>9. d = [i \in 1 .. L |-> DecodeFrom(text, i, d)]
  BY <1>8 DEF Decoder
<1> HIDE DEF d
<1>10. \A i \in 1 .. L : d[i] = from[i]
  <2> DEFINE Same == {n \in Nat : \A i \in 1 .. L : i >= L - n => d[i] = from[i]}
  <2>1. 0 \in Same
    <3>1. \A i \in 1 .. L : i >= L - 0 => i > Len(text)
      BY <1>0
    <3>2. \A i \in 1 .. L : i > Len(text) =>
             DecodeFrom(text, i, d) = << >> /\ DecodeFrom(text, i, from) = << >>
      BY DEF DecodeFrom
    <3>3. \A i \in 1 .. L : i > Len(text) => d[i] = from[i]
      BY <3>2, <1>7, <1>9
    <3>4. QED
      BY <3>1, <3>3
  <2>2. ASSUME NEW n \in Nat, n \in Same PROVE n + 1 \in Same
    <3> SUFFICES ASSUME NEW i \in 1 .. L, i >= L - (n + 1) PROVE d[i] = from[i]
      OBVIOUS
    <3>1. \A j \in i + 1 .. L : d[j] = from[j]
      BY <2>2, <1>0
    <3>2. DecodeFrom(text, i, d) = DecodeFrom(text, i, from)
      BY <3>1, DecodeLooksAhead
    <3>3. QED
      BY <3>2, <1>7, <1>9
  <2>3. L \in Same
    <3> HIDE DEF Same
    <3> QED
      BY <1>0, <2>1, <2>2, Induction
  <2>4. QED
    BY <2>3, <1>0
<1>11. QED
  BY <1>7, <1>9, <1>10 DEF d

LEMMA DecodingIsText ==
  ASSUME NEW text \in Seq(Byte)
  PROVE  PercentDecodeOnce(text) \in Seq(Byte)
BY DecodeIsDecoder, DecoderReads

\* What has no escape is its own decoding.
LEMMA PlainTextStays ==
  ASSUME NEW text \in Seq(Byte), ~Changed(text)
  PROVE  PercentDecodeOnce(text) = text
<1> DEFINE L == Len(text) + 1
           d == Decoder(text)
           Same == {n \in Nat : \A i \in 1 .. L : i >= L - n => d[i] = SubSeq(text, i, Len(text))}
<1>0. L \in Nat \ {0} /\ Len(text) \in Nat /\ text \in [1 .. Len(text) -> Byte]
  OBVIOUS
<1>1. \A i \in 1 .. L : d[i] = DecodeFrom(text, i, d)
  BY DecoderReads
<1> HIDE DEF d
<1>2. d[L] = << >> /\ SubSeq(text, L, Len(text)) = << >>
  <2>1. L \in 1 .. L /\ L > Len(text)
    BY <1>0
  <2>2. d[L] = << >>
    BY <1>1, <2>1 DEF DecodeFrom
  <2>3. SubSeq(text, L, Len(text)) = << >>
    BY <1>0, SubSeqEmpty
  <2>4. QED
    BY <2>2, <2>3
<1>3. \A i \in 1 .. Len(text) : d[i] = <<text[i]>> \o d[i + 1]
  <2> SUFFICES ASSUME NEW i \in 1 .. Len(text) PROVE d[i] = <<text[i]>> \o d[i + 1]
    OBVIOUS
  <2>1. ~Escape(text, i)
    BY DEF Changed
  <2>2. i \in 1 .. L /\ ~(i > Len(text))
    BY <1>0
  <2>3. QED
    BY <1>1, <2>1, <2>2 DEF DecodeFrom
<1>4. \A i \in 1 .. Len(text) :
        SubSeq(text, i, Len(text)) = <<text[i]>> \o SubSeq(text, i + 1, Len(text))
  BY <1>0, SubSeqRecursiveFirst
<1>5. 0 \in Same
  <2>1. \A i \in 1 .. L : i >= L - 0 => i = L
    BY <1>0
  <2>2. QED
    BY <1>2, <2>1
<1>6. ASSUME NEW n \in Nat, n \in Same PROVE n + 1 \in Same
  <2> SUFFICES ASSUME NEW i \in 1 .. L, i >= L - (n + 1)
               PROVE  d[i] = SubSeq(text, i, Len(text))
    OBVIOUS
  <2>1. CASE i = L
    BY <2>1, <1>2
  <2>2. CASE i < L
    <3>1. d[i + 1] = SubSeq(text, i + 1, Len(text)) /\ i \in 1 .. Len(text)
      BY <1>0, <1>6, <2>2
    <3>2. QED
      BY <3>1, <1>3, <1>4
  <2>3. QED
    BY <1>0, <2>1, <2>2
<1>7. L \in Same
  <2> HIDE DEF Same
  <2> QED
    BY <1>0, <1>5, <1>6, Induction
<1>8. d[1] = SubSeq(text, 1, Len(text))
  BY <1>0, <1>7
<1>9. QED
  BY <1>8, SubSeqFull, DecodeIsDecoder DEF d

-----------------------------------------------------------------------------
(* Decoding again and again. *)

LEMMA DecodingsFollow ==
  ASSUME NEW text \in Seq(Byte), NEW n \in Nat
  PROVE  LET after == Decodings(text, n)
         IN  /\ after[0] = text
             /\ \A k \in 1 .. n : after[k] = PercentDecodeOnce(after[k - 1])
<1> DEFINE Step(k, after) == IF k = 0 THEN text ELSE PercentDecodeOnce(after[k - 1])
           S == {m \in Nat : \E after : after = [k \in 0 .. m |-> Step(k, after)]}
<1>1. 0 \in S
  <2> DEFINE f == [k \in 0 .. 0 |-> text]
  <2>1. f = [k \in 0 .. 0 |-> Step(k, f)]
    OBVIOUS
  <2> HIDE DEF f
  <2> QED
    BY <2>1
<1>2. ASSUME NEW m \in Nat, m \in S PROVE m + 1 \in S
  <2>1. PICK after : after = [k \in 0 .. m |-> Step(k, after)]
    BY <1>2
  <2> DEFINE f == [k \in 0 .. m + 1 |-> Step(k, after)]
  <2>2. \A k \in 0 .. m : f[k] = after[k]
    BY <2>1
  <2>3. \A k \in 0 .. m + 1 : k # 0 => k - 1 \in 0 .. m
    OBVIOUS
  <2>4. \A k \in 0 .. m + 1 : Step(k, f) = Step(k, after)
    <3> HIDE DEF f
    <3> QED
      BY <2>2, <2>3
  <2> HIDE DEF Step
  <2>5. f = [k \in 0 .. m + 1 |-> Step(k, f)]
    <3>1. [k \in 0 .. m + 1 |-> Step(k, f)] = [k \in 0 .. m + 1 |-> Step(k, after)]
      BY <2>4
    <3> QED
      BY <3>1
  <2> HIDE DEF f
  <2> QED
    BY <2>5
<1>3. n \in S
  <2> HIDE DEF S
  <2> QED
    BY <1>1, <1>2, Induction
<1> DEFINE d == Decodings(text, n)
<1>4. d = [k \in 0 .. n |-> Step(k, d)]
  BY <1>3 DEF Decodings
<1> HIDE DEF d
<1>5. d[0] = text /\ \A k \in 1 .. n : d[k] = PercentDecodeOnce(d[k - 1])
  BY <1>4
<1>6. QED
  BY <1>5 DEF d

LEMMA DecodingsAreTexts ==
  ASSUME NEW text \in Seq(Byte), NEW n \in Nat, NEW k \in 0 .. n
  PROVE  Decodings(text, n)[k] \in Seq(Byte)
<1> DEFINE d == Decodings(text, n)
           S == {m \in Nat : m <= n => d[m] \in Seq(Byte)}
<1>0. /\ d[0] = text
      /\ \A m \in 1 .. n : d[m] = PercentDecodeOnce(d[m - 1])
  BY DecodingsFollow
<1> HIDE DEF d
<1>1. 0 \in S
  BY <1>0
<1>2. ASSUME NEW m \in Nat, m \in S PROVE m + 1 \in S
  <2> SUFFICES ASSUME m + 1 <= n PROVE d[m + 1] \in Seq(Byte)
    OBVIOUS
  <2>1. d[m] \in Seq(Byte) /\ d[m + 1] = PercentDecodeOnce(d[m])
    BY <1>0, <1>2
  <2>2. QED
    BY <2>1, DecodingIsText
<1>3. k \in S
  <2> HIDE DEF S
  <2> QED
    BY <1>1, <1>2, Induction
<1>4. QED
  BY <1>3 DEF d

\* However many decodings are asked for, the first ones are the same.
LEMMA DecodingsAgree ==
  ASSUME NEW text \in Seq(Byte), NEW n \in Nat, NEW m \in Nat,
         NEW k \in Nat, k <= n, k <= m
  PROVE  Decodings(text, n)[k] = Decodings(text, m)[k]
<1> DEFINE d == Decodings(text, n)
           e == Decodings(text, m)
           S == {j \in Nat : j <= n /\ j <= m => d[j] = e[j]}
<1>0. /\ d[0] = text /\ e[0] = text
      /\ \A j \in 1 .. n : d[j] = PercentDecodeOnce(d[j - 1])
      /\ \A j \in 1 .. m : e[j] = PercentDecodeOnce(e[j - 1])
  BY DecodingsFollow
<1> HIDE DEF d, e
<1>1. 0 \in S
  BY <1>0
<1>2. ASSUME NEW j \in Nat, j \in S PROVE j + 1 \in S
  <2> SUFFICES ASSUME j + 1 <= n, j + 1 <= m PROVE d[j + 1] = e[j + 1]
    OBVIOUS
  <2>1. d[j] = e[j] /\ d[j + 1] = PercentDecodeOnce(d[j]) /\ e[j + 1] = PercentDecodeOnce(e[j])
    BY <1>0, <1>2
  <2>2. QED
    BY <2>1
<1>3. k \in S
  <2> HIDE DEF S
  <2> QED
    BY <1>1, <1>2, Induction
<1>4. QED
  BY <1>3 DEF d, e

\* A text that once decodes to itself does so for ever.
LEMMA DecodingsSettle ==
  ASSUME NEW text \in Seq(Byte), NEW n \in Nat, NEW k \in 0 .. n,
         ~Changed(Decodings(text, n)[k]),
         NEW m \in k .. n
  PROVE  Decodings(text, n)[m] = Decodings(text, n)[k]
<1> DEFINE d == Decodings(text, n)
           S == {j \in Nat : k <= j /\ j <= n => d[j] = d[k]}
<1>0. /\ \A j \in 1 .. n : d[j] = PercentDecodeOnce(d[j - 1])
      /\ d[k] \in Seq(Byte) /\ ~Changed(d[k])
  BY DecodingsFollow, DecodingsAreTexts
<1> HIDE DEF d
<1>1. 0 \in S
  OBVIOUS
<1>2. ASSUME NEW j \in Nat, j \in S PROVE j + 1 \in S
  <2> SUFFICES ASSUME k <= j + 1, j + 1 <= n PROVE d[j + 1] = d[k]
    OBVIOUS
  <2>1. CASE k = j + 1
    BY <2>1
  <2>2. CASE k <= j
    <3>1. d[j] = d[k] /\ d[j + 1] = PercentDecodeOnce(d[j])
      BY <1>0, <1>2, <2>2
    <3>2. QED
      BY <3>1, <1>0, PlainTextStays
  <2>3. QED
    BY <2>1, <2>2
<1>3. m \in S
  <2> HIDE DEF S
  <2> QED
    BY <1>1, <1>2, Induction
<1>4. QED
  BY <1>3 DEF d

-----------------------------------------------------------------------------
(* What the sanitiser lets through. *)

LEMMA HomePageIsText == HomePage \in Seq(Byte)
BY DEF HomePage, Byte

LEMMA HomePageIsPlain == ~Changed(HomePage) /\ Local(HomePage)
BY DEF HomePage, Changed, Escape, Local

LEMMA SanitizedIsText ==
  ASSUME NEW text \in Seq(Byte)
  PROVE  SanitizeReturnTo(text) \in Seq(Byte)
BY HomePageIsText DEF SanitizeReturnTo

\* What is let through is a path of this origin however often it is decoded, also
\* beyond the rounds the sanitiser looks at.
LEMMA SanitizedStaysLocal ==
  ASSUME NEW text \in Seq(Byte), NEW n \in Nat, NEW m \in 0 .. n
  PROVE  Local(Decodings(SanitizeReturnTo(text), n)[m])
<1>1. CASE ReturnTargetIsLocal(text)
  <2>0. SanitizeReturnTo(text) = text
    BY <1>1 DEF SanitizeReturnTo
  <2>1. PICK k \in Rounds : /\ \A i \in 0 .. k : Clean(Decodings(text, 8)[i])
                            /\ ~Changed(Decodings(text, 8)[k])
    BY <1>1 DEF ReturnTargetIsLocal
  <2>2. k \in 0 .. 8
    BY DEF Rounds
  <2>3. CASE m <= k
    <3>1. Decodings(text, n)[m] = Decodings(text, 8)[m]
      BY <2>2, <2>3, DecodingsAgree
    <3>2. QED
      BY <2>0, <2>1, <2>2, <2>3, <3>1 DEF Clean
  <2>4. CASE k < m
    <3>1. Decodings(text, n)[k] = Decodings(text, 8)[k]
      BY <2>2, <2>4, DecodingsAgree
    <3>2. ~Changed(Decodings(text, n)[k]) /\ Local(Decodings(text, n)[k])
      BY <2>1, <2>2, <3>1 DEF Clean
    <3>3. k \in 0 .. n /\ m \in k .. n
      BY <2>2, <2>4
    <3>4. Decodings(text, n)[m] = Decodings(text, n)[k]
      BY <3>2, <3>3, DecodingsSettle
    <3>5. QED
      BY <2>0, <3>2, <3>4
  <2>5. QED
    BY <2>2, <2>3, <2>4
<1>2. CASE ~ReturnTargetIsLocal(text)
  <2>1. SanitizeReturnTo(text) = HomePage
    BY <1>2 DEF SanitizeReturnTo
  <2>2. Decodings(HomePage, n)[0] = HomePage
    BY DecodingsFollow, HomePageIsText
  <2>3. Decodings(HomePage, n)[m] = HomePage
    BY <2>2, DecodingsSettle, HomePageIsText, HomePageIsPlain
  <2>4. QED
    BY <2>1, <2>3, HomePageIsPlain
<1>3. QED
  BY <1>1, <1>2

-----------------------------------------------------------------------------
(* The ceremony of a sign-in. *)

\* The state and the verifier of every login there is are of one ceremony.
OfOneCeremony(login) == login # NoLogin => login.state = login.verifier

Ceremonial ==
  /\ DOMAIN carried = Tabs /\ DOMAIN reply = Tabs
  /\ OfOneCeremony(loginCookie)
  /\ \A t \in Tabs : OfOneCeremony(carried[t]) /\ OfOneCeremony(reply[t].sets)
  /\ CodeMeetsItsVerifier

LEMMA SignInKeepsCeremonies ==
  ASSUME Ceremonial, NEW t \in Tabs, NEW asked \in Targets, SignIn(t, asked)
  PROVE  Ceremonial'
<1>1. NewLogin(ceremonies + 1, asked).state = NewLogin(ceremonies + 1, asked).verifier
  BY DEF NewLogin
<1>2. reply' = [reply EXCEPT ![t] = [NoReply EXCEPT !.sets = NewLogin(ceremonies + 1, asked)]]
      /\ UNCHANGED <<carried, loginCookie, redeemed>>
  BY DEF SignIn
<1>3. [NoReply EXCEPT !.sets = NewLogin(ceremonies + 1, asked)].sets
        = NewLogin(ceremonies + 1, asked)
  BY DEF NoReply
<1>4. DOMAIN reply' = Tabs /\ \A s \in Tabs : OfOneCeremony(reply'[s].sets)
  BY <1>1, <1>2, <1>3 DEF Ceremonial, OfOneCeremony
<1>5. QED
  BY <1>2, <1>4 DEF Ceremonial, CodeMeetsItsVerifier, OfOneCeremony

LEMMA TabKeepsCeremonies ==
  ASSUME Ceremonial, NEW t \in Tabs,
         \/ Redirected(t) \/ AuthorityGrants(t) \/ CallBack(t) \/ CallbackRefused(t)
         \/ Complete(t) \/ Incomplete(t) \/ Land(t) \/ LoseAnswer(t)
         \/ \E path \in Paths : FormSent(t, path)
         \/ \E ours \in BOOLEAN : FormAnswered(t, ours)
  PROVE  Ceremonial'
<1>1. UNCHANGED redeemed
  BY DEF Redirected, AuthorityGrants, CallBack, CallbackRefused, Complete, Incomplete,
     Land, LoseAnswer, FormSent, FormAnswered
<1>2. /\ loginCookie' \in {loginCookie, NoLogin, reply[t].sets}
      /\ carried' = carried
           \/ \E login \in {loginCookie, NoLogin} : carried' = [carried EXCEPT ![t] = login]
  BY DEF Redirected, AuthorityGrants, CallBack, CallbackRefused, Complete, Incomplete,
     Land, LoseAnswer, FormSent, FormAnswered
<1> DEFINE signedIn == [sets |-> NoLogin, clears |-> TRUE,
                         to |-> SanitizeReturnTo(carried[t].returnTo)]
<1>3. \/ reply' = reply
      \/ reply' = [reply EXCEPT ![t] = NoReply]
      \/ reply' = [reply EXCEPT ![t] = signedIn]
  BY DEF Redirected, AuthorityGrants, CallBack, CallbackRefused, Complete, Incomplete,
     Land, LoseAnswer, FormSent, FormAnswered
<1>4. DOMAIN reply' = Tabs /\ \A s \in Tabs : OfOneCeremony(reply'[s].sets)
  BY <1>3 DEF Ceremonial, OfOneCeremony, NoReply
<1>5. DOMAIN carried' = Tabs /\ \A s \in Tabs : OfOneCeremony(carried'[s])
  BY <1>2 DEF Ceremonial, OfOneCeremony
<1>6. OfOneCeremony(loginCookie')
  BY <1>2 DEF Ceremonial, OfOneCeremony
<1>7. QED
  BY <1>1, <1>4, <1>5, <1>6 DEF Ceremonial, CodeMeetsItsVerifier, OfOneCeremony

\* The callback presents a code only if the login it carries is of its state.
LEMMA RedeemKeepsCeremonies ==
  ASSUME Ceremonial, NEW t \in Tabs, Redeem(t)
  PROVE  Ceremonial'
<1>1. UNCHANGED <<carried, reply, loginCookie>>
      /\ redeemed' = redeemed \cup {<<url[t], carried[t].verifier>>}
  BY DEF Redeem
<1>2. url[t] = carried[t].verifier
  BY DEF Redeem, Accepts, Alive, Ceremonial, OfOneCeremony
<1>3. QED
  BY <1>1, <1>2 DEF Ceremonial, CodeMeetsItsVerifier, OfOneCeremony

LEMMA CeremoniesHold == Spec => []Ceremonial
<1>1. Init => Ceremonial
  BY DEF Init, SignInInit, Ceremonial, CodeMeetsItsVerifier, OfOneCeremony, NoReply
<1>2. Ceremonial /\ [Next]_vars => Ceremonial'
  <2> SUFFICES ASSUME Ceremonial, [Next]_vars PROVE Ceremonial'
    OBVIOUS
  <2>1. SignInNext \/ UNCHANGED signInVars
    BY DEF Next, Starting, Paging, SigningIn, vars
  <2>2. ASSUME Tick \/ UNCHANGED signInVars PROVE Ceremonial'
    BY <2>2 DEF Tick, signInVars, Ceremonial, CodeMeetsItsVerifier, OfOneCeremony
  <2>3. QED
    BY <2>1, <2>2, SignInKeepsCeremonies, TabKeepsCeremonies, RedeemKeepsCeremonies
       DEF SignInNext
<1>3. QED
  BY <1>1, <1>2, PTL DEF Spec

\* However many tabs sign in with one login cookie, reload their callbacks and
\* lose their answers, a code is presented with its own verifier.
THEOREM CodesMeetTheirVerifiers == Spec => []CodeMeetsItsVerifier
<1>1. Ceremonial => CodeMeetsItsVerifier
  BY DEF Ceremonial
<1>2. QED
  BY CeremoniesHold, <1>1, PTL

-----------------------------------------------------------------------------
(* Where a sign-in and a form lead. *)

\* A login is of a sign-in there was, and takes the tab that still waits for that
\* sign-in where the sign-in was asked to.
LoginOf(login, last, awaited, asked) ==
  login # NoLogin =>
    /\ login.state \in 1 .. last
    /\ login.returnTo \in Seq(Byte)
    /\ \A t \in Tabs : awaited[t] = login.state => login.returnTo = SanitizeReturnTo(asked[t])

TrueLogin(login) == LoginOf(login, ceremonies, url, wanted)

\* What a tab is about to do follows from the sign-in it last began.
Heading(t) ==
  /\ tab[t] = "completing" => carried[t] # NoLogin /\ carried[t].state = url[t]
  /\ tab[t] = "answered" => reply[t].to = SanitizeReturnTo(wanted[t])
  /\ tab[t] = "landed" => landed[t] = SanitizeReturnTo(wanted[t])
  /\ tab[t] = "form_sent" => landed[t] \in Seq(Byte)
  /\ tab[t] = "returned" => \E text \in Seq(Byte) : landed[t] = SanitizeReturnTo(text)

Bearings ==
  /\ DOMAIN tab = Tabs /\ DOMAIN carried = Tabs /\ DOMAIN reply = Tabs /\ DOMAIN landed = Tabs
  /\ ceremonies \in Nat
  /\ url \in [Tabs -> Nat] /\ \A t \in Tabs : url[t] <= ceremonies
  /\ wanted \in [Tabs -> Seq(Byte)]
  /\ TrueLogin(loginCookie)
  /\ \A t \in Tabs : TrueLogin(carried[t]) /\ TrueLogin(reply[t].sets) /\ Heading(t)

\* A sign-in gives a state that nobody had.
LEMMA SignInKeepsBearings ==
  ASSUME Bearings, NEW t \in Tabs, NEW asked \in Targets, SignIn(t, asked)
  PROVE  Bearings'
<1> DEFINE n == ceremonies + 1
           new == NewLogin(n, asked)
<1>1. /\ new.state = n /\ new.returnTo = SanitizeReturnTo(asked)
      /\ asked \in Seq(Byte) /\ new.returnTo \in Seq(Byte)
  BY PkceAssumption, SanitizedIsText DEF NewLogin
<1>2. /\ ceremonies' = n
      /\ wanted' = [wanted EXCEPT ![t] = asked] /\ url' = [url EXCEPT ![t] = n]
      /\ reply' = [reply EXCEPT ![t] = [NoReply EXCEPT !.sets = new]]
      /\ landed' = [landed EXCEPT ![t] = << >>]
      /\ tab' = [tab EXCEPT ![t] = "signing_in"]
      /\ UNCHANGED <<loginCookie, carried>>
  BY <1>1 DEF SignIn, TabGoes
<1>3. [NoReply EXCEPT !.sets = new].sets = new
  BY DEF NoReply
<1> HIDE DEF new
<1>4. n \in Nat /\ n \in 1 .. n /\ \A s \in Tabs : url[s] # n
  BY DEF Bearings
<1>5. ASSUME NEW login, TrueLogin(login)
      PROVE  LoginOf(login, n, url', wanted')
  <2> SUFFICES ASSUME login # NoLogin
               PROVE  /\ login.state \in 1 .. n
                      /\ login.returnTo \in Seq(Byte)
                      /\ \A s \in Tabs : url'[s] = login.state
                           => login.returnTo = SanitizeReturnTo(wanted'[s])
    BY DEF LoginOf
  <2>1. /\ login.state \in 1 .. ceremonies /\ login.state # n
        /\ login.returnTo \in Seq(Byte)
    BY <1>5 DEF TrueLogin, LoginOf, Bearings
  <2>2. \A s \in Tabs : url'[s] = login.state => s # t
    BY <1>2, <2>1 DEF Bearings
  <2>3. \A s \in Tabs : s # t => url'[s] = url[s] /\ wanted'[s] = wanted[s]
    BY <1>2 DEF Bearings
  <2>4. login.state \in 1 .. n
    BY <2>1 DEF Bearings
  <2>5. QED
    BY <1>5, <2>1, <2>2, <2>3, <2>4 DEF TrueLogin, LoginOf
<1>6. LoginOf(new, n, url', wanted')
  <2>1. \A s \in Tabs : url'[s] = n => s = t
    BY <1>2, <1>4 DEF Bearings
  <2>2. wanted'[t] = asked
    BY <1>2 DEF Bearings
  <2>3. QED
    BY <1>1, <1>4, <2>1, <2>2 DEF LoginOf
<1>7. TrueLogin(loginCookie)' /\ \A s \in Tabs : TrueLogin(carried[s])'
  BY <1>2, <1>5 DEF Bearings, TrueLogin
<1>8. \A s \in Tabs : TrueLogin(reply[s].sets)'
  <2> SUFFICES ASSUME NEW s \in Tabs PROVE TrueLogin(reply[s].sets)'
    OBVIOUS
  <2>1. CASE s = t
    <3>1. reply'[s].sets = new
      BY <1>2, <1>3, <2>1 DEF Bearings
    <3>2. QED
      BY <1>2, <1>6, <3>1 DEF TrueLogin
  <2>2. CASE s # t
    <3>1. reply'[s].sets = reply[s].sets
      BY <1>2, <2>2 DEF Bearings
    <3>2. TrueLogin(reply[s].sets)
      BY DEF Bearings
    <3>3. QED
      BY <1>2, <1>5, <3>1, <3>2 DEF TrueLogin
  <2>3. QED
    BY <2>1, <2>2
<1>9. \A s \in Tabs : Heading(s)'
  <2> SUFFICES ASSUME NEW s \in Tabs PROVE Heading(s)'
    OBVIOUS
  <2>1. CASE s = t
    BY <1>2, <2>1 DEF Heading, Bearings
  <2>2. CASE s # t
    BY <1>2, <2>2 DEF Heading, Bearings
  <2>3. QED
    BY <2>1, <2>2
<1>10. QED
  BY <1>1, <1>2, <1>4, <1>7, <1>8, <1>9 DEF Bearings

\* Every other step passes on logins there are.
LEMMA LoginsPassOn ==
  ASSUME Bearings, NEW t \in Tabs, UNCHANGED <<ceremonies, wanted>>,
         url' \in {url, [url EXCEPT ![t] = 0]},
         loginCookie' \in {loginCookie, NoLogin, reply[t].sets},
         \/ carried' = carried
         \/ \E login \in {loginCookie, NoLogin} : carried' = [carried EXCEPT ![t] = login],
         \/ reply' = reply
         \/ \E to, clears : reply' = [reply EXCEPT ![t] =
                                        [sets |-> NoLogin, clears |-> clears, to |-> to]],
         \E place : TabGoes(t, place),
         landed' = landed \/ \E text : landed' = [landed EXCEPT ![t] = text],
         Heading(t)'
  PROVE  Bearings'
<1>1. /\ url' \in [Tabs -> Nat] /\ \A s \in Tabs : url'[s] \in {url[s], 0}
      /\ \A s \in Tabs : url'[s] <= ceremonies
  <2>1. CASE url' = url
    BY <2>1 DEF Bearings
  <2>2. CASE url' = [url EXCEPT ![t] = 0]
    BY <2>2 DEF Bearings
  <2>3. QED
    BY <2>1, <2>2
<1>2. ASSUME NEW login, TrueLogin(login)
      PROVE  LoginOf(login, ceremonies', url', wanted')
  <2> SUFFICES ASSUME login # NoLogin
               PROVE  /\ login.state \in 1 .. ceremonies
                      /\ login.returnTo \in Seq(Byte)
                      /\ \A s \in Tabs : url'[s] = login.state
                           => login.returnTo = SanitizeReturnTo(wanted[s])
    BY DEF LoginOf
  <2>1. login.state \in 1 .. ceremonies /\ login.state # 0
    BY <1>2 DEF TrueLogin, LoginOf, Bearings
  <2>2. QED
    BY <1>1, <1>2, <2>1 DEF TrueLogin, LoginOf
<1>3. TrueLogin(NoLogin)
  BY DEF TrueLogin, LoginOf
<1>4. TrueLogin(loginCookie)'
  BY <1>2, <1>3 DEF Bearings, TrueLogin
<1>5. \A s \in Tabs : TrueLogin(carried[s])'
  <2> SUFFICES ASSUME NEW s \in Tabs PROVE TrueLogin(carried[s])'
    OBVIOUS
  <2>1. carried'[s] \in {carried[s], loginCookie, NoLogin}
    BY DEF Bearings
  <2>2. LoginOf(carried'[s], ceremonies, url, wanted)
    BY <1>3, <2>1 DEF Bearings, TrueLogin
  <2>3. QED
    BY <1>2, <2>2 DEF TrueLogin
<1>6. \A s \in Tabs : TrueLogin(reply[s].sets)'
  <2> SUFFICES ASSUME NEW s \in Tabs PROVE TrueLogin(reply[s].sets)'
    OBVIOUS
  <2>1. reply'[s].sets \in {reply[s].sets, NoLogin}
    BY DEF Bearings
  <2>2. LoginOf(reply'[s].sets, ceremonies, url, wanted)
    BY <1>3, <2>1 DEF Bearings, TrueLogin
  <2>3. QED
    BY <1>2, <2>2 DEF TrueLogin
<1>7. DOMAIN tab' = Tabs /\ DOMAIN carried' = Tabs /\ DOMAIN reply' = Tabs /\ DOMAIN landed' = Tabs
  BY DEF Bearings, TabGoes
<1>8. \A s \in Tabs : Heading(s)'
  <2> SUFFICES ASSUME NEW s \in Tabs, s # t PROVE Heading(s)'
    OBVIOUS
  <2>1. /\ tab'[s] = tab[s] /\ carried'[s] = carried[s] /\ reply'[s] = reply[s]
        /\ landed'[s] = landed[s] /\ url'[s] = url[s] /\ wanted'[s] = wanted[s]
    BY DEF Bearings, TabGoes
  <2>2. Heading(s)
    BY DEF Bearings
  <2>3. QED
    BY <2>1, <2>2 DEF Heading
<1>9. QED
  BY <1>1, <1>4, <1>5, <1>6, <1>7, <1>8 DEF Bearings

LEMMA SanitizedTwice ==
  ASSUME NEW text
  PROVE  SanitizeReturnTo(SanitizeReturnTo(text)) = SanitizeReturnTo(text)
BY DEF SanitizeReturnTo

\* The places of a tab that say nothing of where it goes.
LEMMA StillOnTheWay ==
  ASSUME NEW t \in Tabs,
         tab'[t] \in {"page", "signing_in", "at_authority", "called_back", "redeeming",
                      "failed", "closed"}
  PROVE  Heading(t)'
BY DEF Heading

LEMMA TabKeepsBearings ==
  ASSUME Bearings, NEW t \in Tabs,
         \/ Redirected(t) \/ AuthorityGrants(t) \/ CallBack(t) \/ CallbackRefused(t)
         \/ Redeem(t) \/ Incomplete(t) \/ LoseAnswer(t)
  PROVE  Bearings'
<1>1. UNCHANGED <<ceremonies, wanted>> /\ url' \in {url, [url EXCEPT ![t] = 0]}
  <2>1. CASE LoseAnswer(t)
    <3>1. CASE tab[t] = "answered"
      BY <2>1, <3>1 DEF LoseAnswer, Bearings
    <3>2. CASE tab[t] # "answered"
      BY <2>1, <3>2 DEF LoseAnswer, Bearings
    <3>3. QED
      BY <3>1, <3>2
  <2>2. QED
    BY <2>1 DEF Redirected, AuthorityGrants, CallBack, CallbackRefused, Redeem, Incomplete,
       LoseAnswer
<1>2. loginCookie' \in {loginCookie, NoLogin, reply[t].sets}
  BY DEF Redirected, AuthorityGrants, CallBack, CallbackRefused, Redeem, Incomplete,
     LoseAnswer
<1>3. \/ carried' = carried
      \/ \E login \in {loginCookie, NoLogin} : carried' = [carried EXCEPT ![t] = login]
  BY DEF Redirected, AuthorityGrants, CallBack, CallbackRefused, Redeem, Incomplete,
     LoseAnswer
<1>4. \/ reply' = reply
      \/ \E to, clears : reply' = [reply EXCEPT ![t] =
                                     [sets |-> NoLogin, clears |-> clears, to |-> to]]
  BY DEF Redirected, AuthorityGrants, CallBack, CallbackRefused, Redeem, Incomplete,
     LoseAnswer, NoReply
<1>5. landed' = landed \/ \E text : landed' = [landed EXCEPT ![t] = text]
  BY DEF Redirected, AuthorityGrants, CallBack, CallbackRefused, Redeem, Incomplete,
     LoseAnswer
<1>6. \E place \in {"at_authority", "called_back", "redeeming", "completing", "failed"} :
        TabGoes(t, place) /\ (place = "completing" => Redeem(t))
  BY DEF Redirected, AuthorityGrants, CallBack, CallbackRefused, Redeem, Incomplete,
     LoseAnswer
<1>7. Heading(t)'
  <2>1. CASE TabGoes(t, "completing") /\ Redeem(t)
    <3>1. tab'[t] = "completing" /\ UNCHANGED <<carried, url>>
      BY <2>1 DEF TabGoes, Redeem, Bearings
    <3>2. carried[t] # NoLogin /\ carried[t].state = url[t]
      BY <2>1 DEF Redeem, Accepts, Alive
    <3>3. QED
      BY <3>1, <3>2 DEF Heading
  <2>2. CASE \E place \in {"at_authority", "called_back", "redeeming", "failed"} :
               TabGoes(t, place)
    <3>1. tab'[t] \in {"at_authority", "called_back", "redeeming", "failed"}
      BY <2>2 DEF TabGoes, Bearings
    <3>2. QED
      BY <3>1, StillOnTheWay
  <2>3. QED
    BY <1>6, <2>1, <2>2
<1>8. QED
  BY <1>1, <1>2, <1>3, <1>4, <1>5, <1>6, <1>7, LoginsPassOn

LEMMA CompleteKeepsBearings ==
  ASSUME Bearings, NEW t \in Tabs, Complete(t)
  PROVE  Bearings'
<1> DEFINE goal == SanitizeReturnTo(carried[t].returnTo)
<1>1. /\ reply' = [reply EXCEPT ![t] = [sets |-> NoLogin, clears |-> TRUE, to |-> goal]]
      /\ TabGoes(t, "answered")
      /\ UNCHANGED <<ceremonies, loginCookie, url, carried, landed, wanted>>
  BY DEF Complete
<1>2. goal = SanitizeReturnTo(wanted[t])
  <2>1. carried[t] # NoLogin /\ carried[t].state = url[t] /\ TrueLogin(carried[t])
    BY DEF Complete, Bearings, Heading
  <2>2. carried[t].returnTo = SanitizeReturnTo(wanted[t])
    BY <2>1 DEF TrueLogin, LoginOf
  <2>3. QED
    BY <2>2, SanitizedTwice
<1> HIDE DEF goal
<1>3. Heading(t)'
  <2>1. tab'[t] = "answered" /\ reply'[t].to = goal /\ wanted' = wanted
    BY <1>1 DEF TabGoes, Bearings
  <2>2. QED
    BY <1>2, <2>1 DEF Heading
<1>4. QED
  BY <1>1, <1>3, LoginsPassOn

LEMMA LandKeepsBearings ==
  ASSUME Bearings, NEW t \in Tabs, Land(t)
  PROVE  Bearings'
<1>1. /\ reply' = [reply EXCEPT ![t] = [sets |-> NoLogin, clears |-> FALSE, to |-> << >>]]
      /\ landed' = [landed EXCEPT ![t] = reply[t].to]
      /\ loginCookie' \in {loginCookie, NoLogin}
      /\ TabGoes(t, "landed")
      /\ UNCHANGED <<ceremonies, url, carried, wanted>>
  BY DEF Land, NoReply
<1>2. Heading(t)'
  <2>1. /\ tab'[t] = "landed" /\ landed'[t] = reply[t].to /\ wanted' = wanted
        /\ reply[t].to = SanitizeReturnTo(wanted[t])
    BY <1>1 DEF TabGoes, Bearings, Land, Heading
  <2>2. QED
    BY <2>1 DEF Heading
<1>3. QED
  BY <1>1, <1>2, LoginsPassOn

LEMMA FormKeepsBearings ==
  ASSUME Bearings, NEW t \in Tabs,
         \/ \E path \in Paths : FormSent(t, path)
         \/ \E ours \in BOOLEAN : FormAnswered(t, ours)
  PROVE  Bearings'
<1>1. ASSUME NEW path \in Paths, FormSent(t, path) PROVE Bearings'
  <2>1. /\ tab' = [s \in Tabs |-> IF s = t THEN "form_sent" ELSE "closed"]
        /\ landed' = [landed EXCEPT ![t] = path] /\ path \in Seq(Byte)
        /\ UNCHANGED <<ceremonies, loginCookie, url, carried, reply, wanted>>
    BY <1>1, PkceAssumption DEF FormSent
  <2>2. \A s \in Tabs : Heading(s)'
    <3> SUFFICES ASSUME NEW s \in Tabs PROVE Heading(s)'
      OBVIOUS
    <3>1. CASE s = t
      BY <2>1, <3>1 DEF Heading, Bearings
    <3>2. CASE s # t
      BY <2>1, <3>2, StillOnTheWay
    <3>3. QED
      BY <3>1, <3>2
  <2>3. QED
    BY <2>1, <2>2 DEF Bearings, TrueLogin
<1>2. ASSUME NEW ours \in BOOLEAN, FormAnswered(t, ours) PROVE Bearings'
  <2>1. /\ landed' = [landed EXCEPT ![t] = RedirectTarget(landed[t], ours)]
        /\ TabGoes(t, "returned") /\ landed[t] \in Seq(Byte)
        /\ UNCHANGED <<ceremonies, loginCookie, url, carried, reply, wanted>>
    BY <1>2 DEF FormAnswered, Bearings, Heading
  <2>2. \E text \in Seq(Byte) : RedirectTarget(landed[t], ours) = SanitizeReturnTo(text)
    <3>1. HomePage = SanitizeReturnTo(HomePage)
      BY DEF SanitizeReturnTo
    <3>2. QED
      BY <2>1, <3>1, HomePageIsText DEF RedirectTarget
  <2>3. Heading(t)'
    <3>1. tab'[t] = "returned" /\ landed'[t] = RedirectTarget(landed[t], ours)
      BY <2>1 DEF TabGoes, Bearings
    <3>2. QED
      BY <2>2, <3>1 DEF Heading
  <2>4. QED
    BY <2>1, <2>3, LoginsPassOn
<1>3. QED
  BY <1>1, <1>2

LEMMA BearingsHold == Spec => []Bearings
<1>1. Init => Bearings
  <2> SUFFICES ASSUME Init PROVE Bearings
    OBVIOUS
  <2>1. SignInInit
    BY DEF Init
  <2>2. << >> \in Seq(Byte) /\ NoReply.sets = NoLogin
    BY DEF NoReply
  <2>3. QED
    BY <2>1, <2>2 DEF SignInInit, Bearings, TrueLogin, LoginOf, Heading
<1>2. Bearings /\ [Next]_vars => Bearings'
  <2> SUFFICES ASSUME Bearings, [Next]_vars PROVE Bearings'
    OBVIOUS
  <2>1. SignInNext \/ UNCHANGED signInVars
    BY DEF Next, Starting, Paging, SigningIn, vars
  <2>2. ASSUME Tick \/ UNCHANGED signInVars PROVE Bearings'
    <3>1. UNCHANGED <<ceremonies, loginCookie, tab, url, carried, reply, landed, wanted>>
      BY <2>2 DEF Tick, signInVars
    <3>2. QED
      BY <3>1 DEF Bearings, TrueLogin, LoginOf, Heading
  <2>3. QED
    BY <2>1, <2>2, SignInKeepsBearings, TabKeepsBearings, CompleteKeepsBearings,
       LandKeepsBearings, FormKeepsBearings DEF SignInNext
<1>3. QED
  BY <1>1, <1>2, PTL DEF Spec

\* Wherever a sign-in or a form sends the browser, no number of decodings makes the
\* target another origin's.
THEOREM RedirectsDoNotLeave == Spec => []RedirectsStayLocal
<1>1. Bearings => RedirectsStayLocal
  <2> SUFFICES ASSUME Bearings, NEW t \in Tabs, tab[t] \in {"landed", "returned"},
                      NEW k \in 0 .. MaxDepth
               PROVE  Local(Decodings(landed[t], MaxDepth)[k])
    BY DEF RedirectsStayLocal
  <2>1. PICK text \in Seq(Byte) : landed[t] = SanitizeReturnTo(text)
    BY DEF Bearings, Heading
  <2>2. QED
    BY <2>1, SanitizedStaysLocal, PkceAssumption
<1>2. QED
  BY BearingsHold, <1>1, PTL

\* The sanitiser lets through just what is harmless.
LEMMA HarmlessIsLetThrough ==
  ASSUME NEW text \in Seq(Byte)
  PROVE  Harmless(text) <=> ReturnTargetIsLocal(text)
<1> DEFINE d == Decodings(text, MaxDepth)
           e == Decodings(text, 8)
<1>0. MaxDepth \in Nat /\ 8 <= MaxDepth /\ Rounds = 0 .. 8
  BY PkceAssumption DEF Rounds
<1>1. \A k \in 0 .. 8 : d[k] = e[k]
  BY <1>0, DecodingsAgree
<1>2. ASSUME NEW k \in 0 .. 8, ~Changed(d[k])
      PROVE  \A m \in k .. MaxDepth : d[m] = d[k]
  BY <1>0, <1>2, DecodingsSettle
<1>3. Harmless(text) <=> ~Changed(d[8]) /\ \A k \in 0 .. MaxDepth : Clean(d[k])
  BY DEF Harmless
<1>4. ReturnTargetIsLocal(text)
        <=> \E k \in 0 .. 8 : (\A i \in 0 .. k : Clean(e[i])) /\ ~Changed(e[k])
  BY <1>0 DEF ReturnTargetIsLocal
<1> HIDE DEF d, e
<1>5. ASSUME NEW k \in 0 .. 8, \A i \in 0 .. k : Clean(e[i]), ~Changed(e[k])
      PROVE  ~Changed(d[8]) /\ \A m \in 0 .. MaxDepth : Clean(d[m])
  <2>1. ~Changed(d[k]) /\ \A i \in 0 .. k : Clean(d[i])
    BY <1>1, <1>5
  <2>2. \A m \in k .. MaxDepth : d[m] = d[k]
    BY <1>2, <2>1
  <2>3. 8 \in k .. MaxDepth
    BY <1>0
  <2>4. \A m \in 0 .. MaxDepth : m \in 0 .. k \/ m \in k .. MaxDepth
    BY <1>0
  <2>5. QED
    BY <2>1, <2>2, <2>3, <2>4
<1>6. ASSUME ~Changed(d[8]), \A m \in 0 .. MaxDepth : Clean(d[m])
      PROVE  (\A i \in 0 .. 8 : Clean(e[i])) /\ ~Changed(e[8])
  BY <1>0, <1>1, <1>6
<1>7. QED
  BY <1>3, <1>4, <1>5, <1>6

\* A sign-in that succeeds takes its tab where it was asked to, whatever the other
\* tabs did with the login cookie, and drops nothing that is harmless.
THEOREM SignInsReturnHome == Spec => []ReturnsToItsOwnTarget
<1>1. Bearings => ReturnsToItsOwnTarget
  <2> SUFFICES ASSUME Bearings, NEW t \in Tabs, tab[t] = "landed"
               PROVE  landed[t] = IF Harmless(wanted[t]) THEN wanted[t] ELSE HomePage
    BY DEF ReturnsToItsOwnTarget
  <2>1. landed[t] = SanitizeReturnTo(wanted[t]) /\ wanted[t] \in Seq(Byte)
    BY DEF Bearings, Heading
  <2>2. QED
    BY <2>1, HarmlessIsLetThrough DEF SanitizeReturnTo
<1>2. QED
  BY BearingsHold, <1>1, PTL

-----------------------------------------------------------------------------
(* The types of the ceremony. *)

\* A tab on its way to Shared Auth has the state of a ceremony with it.
SignInTyped ==
  /\ SignInTypeOK
  /\ \A t \in Tabs : tab[t] \in {"signing_in", "at_authority"} => url[t] # 0

LEMMA SignInKeepsTypes ==
  ASSUME SignInTyped, SignInNext
  PROVE  SignInTyped'
<1>0. MaxCeremonies \in Nat /\ MaxTime \in Nat
  BY PkceAssumption
<1>1. ASSUME NEW t \in Tabs, NEW asked \in Targets, SignIn(t, asked)
      PROVE  SignInTyped'
  <2>1. /\ ceremonies' = ceremonies + 1 /\ ceremonies + 1 <= MaxCeremonies
        /\ url' = [url EXCEPT ![t] = ceremonies + 1]
        /\ tab' = [tab EXCEPT ![t] = "signing_in"]
        /\ UNCHANGED <<now, codes>>
    BY <1>1 DEF SignIn, NewLogin, TabGoes
  <2>2. ceremonies' \in 1 .. MaxCeremonies
    BY <1>0, <2>1 DEF SignInTyped, SignInTypeOK
  <2>3. url' \in [Tabs -> 0 .. MaxCeremonies] /\ tab' \in [Tabs -> Places]
    BY <2>1, <2>2 DEF SignInTyped, SignInTypeOK, Places
  <2>4. \A s \in Tabs : tab'[s] \in {"signing_in", "at_authority"} => url'[s] # 0
    BY <2>1, <2>2 DEF SignInTyped, SignInTypeOK
  <2>5. QED
    BY <2>1, <2>2, <2>3, <2>4 DEF SignInTyped, SignInTypeOK
<1>2. ASSUME NEW t \in Tabs,
             \/ Redirected(t) \/ AuthorityGrants(t) \/ CallBack(t) \/ CallbackRefused(t)
             \/ Redeem(t) \/ Complete(t) \/ Incomplete(t) \/ Land(t) \/ LoseAnswer(t)
             \/ \E ours \in BOOLEAN : FormAnswered(t, ours)
      PROVE  SignInTyped'
  <2>1. /\ UNCHANGED <<now, ceremonies>>
        /\ url' = url \/ (url' = [url EXCEPT ![t] = 0] /\ tab' = [tab EXCEPT ![t] = "failed"])
        /\ codes' \subseteq codes \/ (codes' = codes \cup {url[t]} /\ tab[t] = "at_authority")
    BY <1>2 DEF Redirected, AuthorityGrants, CallBack, CallbackRefused, Redeem, Complete,
       Incomplete, Land, LoseAnswer, FormAnswered, TabGoes, SignInTyped, SignInTypeOK
  <2>2. \E place \in Places \ {"signing_in"} :
          /\ tab' = [tab EXCEPT ![t] = place]
          /\ place = "at_authority" => tab[t] = "signing_in" /\ url' = url
    BY <1>2 DEF Redirected, AuthorityGrants, CallBack, CallbackRefused, Redeem, Complete,
       Incomplete, Land, LoseAnswer, FormAnswered, TabGoes, Places
  <2>3. url' \in [Tabs -> 0 .. MaxCeremonies] /\ tab' \in [Tabs -> Places]
    BY <1>0, <2>1, <2>2 DEF SignInTyped, SignInTypeOK
  <2>4. codes' \subseteq 1 .. MaxCeremonies
    <3>1. tab[t] = "at_authority" => url[t] \in 1 .. MaxCeremonies
      BY <1>0 DEF SignInTyped, SignInTypeOK
    <3>2. QED
      BY <2>1, <3>1 DEF SignInTyped, SignInTypeOK
  <2>5. ASSUME NEW s \in Tabs, tab'[s] \in {"signing_in", "at_authority"}
        PROVE  url'[s] # 0
    BY <2>1, <2>2, <2>5 DEF SignInTyped, SignInTypeOK
  <2>6. QED
    BY <2>1, <2>3, <2>4, <2>5 DEF SignInTyped, SignInTypeOK
<1>3. ASSUME NEW t \in Tabs, NEW path \in Paths, FormSent(t, path)
      PROVE  SignInTyped'
  BY <1>3 DEF FormSent, SignInTyped, SignInTypeOK, Places
<1>4. CASE Tick
  BY <1>0, <1>4 DEF Tick, SignInTyped, SignInTypeOK
<1>5. QED
  BY <1>1, <1>2, <1>3, <1>4 DEF SignInNext
=============================================================================

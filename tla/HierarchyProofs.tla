--------------------------- MODULE HierarchyProofs ---------------------------
(***************************************************************************)
(* Proofs about MCAnalysis: tokens that are aligned with the source they   *)
(* are of, the tree of units that is built from them, and the source they  *)
(* are made from, without its comments: for every source and every layout  *)
(* of its tokens, its code, its scopes and its comments.                   *)
(***************************************************************************)
EXTENDS MCAnalysis, Integers, FiniteSetTheorems, SequenceTheorems,
        WellFoundedInduction, TLAPS

\* A set of numbers that has 0 and with each number the next has them all.
LEMMA Counting ==
  ASSUME NEW T, 0 \in T, \A n \in Nat : n \in T => n + 1 \in T
  PROVE  \A n \in Nat : n \in T
<1> DEFINE Others == {n \in Nat : n \notin T}
<1>1. SUFFICES ASSUME Others # {} PROVE FALSE
  OBVIOUS
<1>2. \E n \in Others : \A x \in Others : ~(<<x, n>> \in OpToRel(<, Nat))
  BY <1>1, WFMin, NatLessThanWellFounded
<1>3. PICK n \in Others : \A x \in Others : ~(<<x, n>> \in OpToRel(<, Nat))
  BY <1>2
<1>4. \A x \in Others : ~(x < n)
  BY <1>3 DEF OpToRel
<1>5. n \in Nat /\ n # 0 /\ n - 1 \in Nat
  OBVIOUS
<1>6. n - 1 \in T
  BY <1>4, <1>5
<1>7. (n - 1) + 1 \in T
  BY <1>5, <1>6, Zenon
<1> QED
  BY <1>5, <1>7

Chars == Letters \cup {Records!Blank}
Parts == Seq(Seq(Chars))

\* The texts that a row of parts makes, from the first on.
IsJoining(parts, f) ==
  f = [i \in 0..Len(parts) |-> IF i = 0 THEN <<>> ELSE f[i - 1] \o parts[i]]

LEMMA NoLength ==
  ASSUME NEW S, NEW s \in Seq(S)
  PROVE  s = <<>> <=> Len(s) = 0
BY EmptySeq, LenProperties

LEMMA OneMore ==
  ASSUME NEW S, NEW s \in Seq(S), NEW x \in S
  PROVE  Append(s, x) \in Seq(S)
OBVIOUS

LEMMA ElementsAre ==
  ASSUME NEW S, NEW s \in Seq(S)
  PROVE  \A i \in 1..Len(s) : s[i] \in S
BY ElementOfSeq

LEMMA BeginsWithBeginning ==
  ASSUME NEW s \in Seq(Chars), NEW t \in Seq(Chars), NEW u \in Seq(Chars),
         Len(t \o u) <= Len(s), SubSeq(s, 1, Len(t \o u)) = t \o u
  PROVE  /\ Len(t) <= Len(s) /\ SubSeq(s, 1, Len(t)) = t
         /\ SubSeq(s, Len(t) + 1, Len(t) + Len(u)) = u
<1>1. Len(t) \in Nat /\ Len(u) \in Nat /\ Len(t \o u) = Len(t) + Len(u)
  OBVIOUS
<1>2. \A i \in 1..Len(t) : s[i] = t[i]
  <2>1. ASSUME NEW i \in 1..Len(t) PROVE s[i] = t[i]
    <3>1. i \in 1..Len(t \o u) /\ (t \o u)[i] = t[i]
      BY <1>1
    <3>2. SubSeq(s, 1, Len(t \o u))[i] = s[i]
      BY <3>1
    <3> QED
      BY <3>1, <3>2
  <2> QED
    BY <2>1
<1>3. \A i \in 1..Len(u) : s[Len(t) + i] = u[i]
  <2>1. ASSUME NEW i \in 1..Len(u) PROVE s[Len(t) + i] = u[i]
    <3>1. Len(t) + i \in 1..Len(t \o u) /\ (t \o u)[Len(t) + i] = u[i]
      BY <1>1
    <3>2. SubSeq(s, 1, Len(t \o u))[Len(t) + i] = s[Len(t) + i]
      BY <3>1
    <3> QED
      BY <3>1, <3>2
  <2> QED
    BY <2>1
<1>4. SubSeq(s, 1, Len(t)) = t
  BY <1>1, <1>2
<1>5. SubSeq(s, Len(t) + 1, Len(t) + Len(u)) = u
  BY <1>1, <1>3
<1> QED
  BY <1>1, <1>4, <1>5

LEMMA JoiningExists ==
  ASSUME NEW parts \in Parts
  PROVE  \E f \in [0..Len(parts) -> Seq(Chars)] : IsJoining(parts, f)
<1> DEFINE Fits(f, n) ==
      \A i \in 0..n : f[i] = IF i = 0 THEN <<>> ELSE f[i - 1] \o parts[i]
<1> DEFINE T == {n \in Nat : n <= Len(parts) =>
                     \E f \in [0..n -> Seq(Chars)] : Fits(f, n)}
<1>0. Len(parts) \in Nat /\ \A i \in 1..Len(parts) : parts[i] \in Seq(Chars)
  BY DEF Parts
<1>1. 0 \in T
  <2>1. [i \in 0..0 |-> <<>>] \in [0..0 -> Seq(Chars)]
    OBVIOUS
  <2>2. Fits([i \in 0..0 |-> <<>>], 0)
    OBVIOUS
  <2> QED
    BY <2>1, <2>2
<1>2. ASSUME NEW n \in Nat, n \in T PROVE n + 1 \in T
  <2>0. n + 1 \in Nat
    OBVIOUS
  <2> SUFFICES ASSUME n + 1 <= Len(parts)
               PROVE  \E f \in [0..(n + 1) -> Seq(Chars)] : Fits(f, n + 1)
    BY <2>0, Zenon
  <2>1. PICK g \in [0..n -> Seq(Chars)] : Fits(g, n)
    BY <1>0, <1>2
  <2> DEFINE f == [i \in 0..(n + 1) |-> IF i = n + 1 THEN g[n] \o parts[n + 1] ELSE g[i]]
  <2>2. g[n] \in Seq(Chars) /\ parts[n + 1] \in Seq(Chars)
    BY <1>0
  <2>3. g[n] \o parts[n + 1] \in Seq(Chars)
    BY <2>2
  <2>4. f \in [0..(n + 1) -> Seq(Chars)]
    BY <2>3
  <2>5. ASSUME NEW i \in 0..(n + 1)
        PROVE  f[i] = IF i = 0 THEN <<>> ELSE f[i - 1] \o parts[i]
    <3>1. CASE i = n + 1
      <4>1. f[i] = g[n] \o parts[n + 1] /\ f[n] = g[n]
        BY <3>1
      <4>2. i # 0 /\ i - 1 = n
        BY <3>1
      <4> QED
        BY <3>1, <4>1, <4>2
    <3>2. CASE i # n + 1
      <4>1. i \in 0..n /\ f[i] = g[i] /\ (i # 0 => f[i - 1] = g[i - 1])
        BY <3>2
      <4> QED
        BY <2>1, <4>1
    <3> QED
      BY <3>1, <3>2
  <2>6. Fits(f, n + 1)
    BY <2>5
  <2> QED
    BY <2>4, <2>6
<1>3. Len(parts) \in T
  BY <1>0, <1>1, <1>2, Counting
<1>4. PICK f \in [0..Len(parts) -> Seq(Chars)] : Fits(f, Len(parts))
  BY <1>0, <1>3
<1>5. f = [i \in 0..Len(parts) |-> IF i = 0 THEN <<>> ELSE f[i - 1] \o parts[i]]
  BY <1>4
<1> QED
  BY <1>5 DEF IsJoining

LEMMA JoiningSteps ==
  ASSUME NEW parts \in Parts, NEW f, IsJoining(parts, f)
  PROVE  /\ f[0] = <<>>
         /\ \A i \in 1..Len(parts) : f[i] = f[i - 1] \o parts[i]
         /\ \A i \in 0..Len(parts) : f[i] \in Seq(Chars)
<1>0. Len(parts) \in Nat /\ \A i \in 1..Len(parts) : parts[i] \in Seq(Chars)
  BY DEF Parts
<1>1. \A i \in 0..Len(parts) : f[i] = IF i = 0 THEN <<>> ELSE f[i - 1] \o parts[i]
  BY Zenon DEF IsJoining
<1>2. f[0] = <<>> /\ \A i \in 1..Len(parts) : f[i] = f[i - 1] \o parts[i]
  <2>1. 0 \in 0..Len(parts)
    BY <1>0
  <2>2. f[0] = <<>>
    BY <1>1, <2>1, Zenon
  <2>3. ASSUME NEW i \in 1..Len(parts) PROVE f[i] = f[i - 1] \o parts[i]
    <3>1. i \in 0..Len(parts) /\ i # 0
      BY <1>0
    <3> QED
      BY <1>1, <3>1, Zenon
  <2> QED
    BY <2>2, <2>3
<1> DEFINE T == {n \in Nat : n <= Len(parts) => f[n] \in Seq(Chars)}
<1>3. 0 \in T
  <2>1. <<>> \in Seq(Chars)
    OBVIOUS
  <2>2. f[0] \in Seq(Chars)
    BY <1>2, <2>1, Zenon
  <2> QED
    BY <2>2
<1>4. ASSUME NEW n \in Nat, n \in T PROVE n + 1 \in T
  <2>1. ASSUME n + 1 <= Len(parts) PROVE f[n + 1] \in Seq(Chars)
    <3>1. n + 1 \in 1..Len(parts) /\ f[n] \in Seq(Chars) /\ (n + 1) - 1 = n
      BY <1>0, <1>4, <2>1
    <3>2. f[n + 1] = f[n] \o parts[n + 1]
      BY <1>2, <3>1
    <3> QED
      BY <1>0, <3>1, <3>2
  <2>2. n + 1 \in Nat
    OBVIOUS
  <2> QED
    BY <2>1, <2>2
<1>5. \A n \in Nat : n \in T
  BY <1>3, <1>4, Counting
<1>6. ASSUME NEW i \in 0..Len(parts) PROVE f[i] \in Seq(Chars)
  <2>1. i \in Nat /\ i <= Len(parts)
    BY <1>0
  <2> QED
    BY <1>5, <2>1
<1> QED
  BY <1>2, <1>6, Zenon

LEMMA JoinedIs ==
  ASSUME NEW parts \in Parts
  PROVE  \E f : IsJoining(parts, f) /\ Records!Joined(parts) = f[Len(parts)]
<1> DEFINE f == CHOOSE f : IsJoining(parts, f)
<1>1. IsJoining(parts, f)
  BY JoiningExists
<1>2. Records!Joined(parts) = f[Len(parts)]
  BY DEF Records!Joined, IsJoining
<1> QED
  BY <1>1, <1>2

LEMMA JoinedNone ==
  ASSUME NEW parts \in Parts, Len(parts) = 0
  PROVE  Records!Joined(parts) = <<>>
BY JoinedIs, JoiningSteps

LEMMA JoinedType ==
  ASSUME NEW parts \in Parts
  PROVE  Records!Joined(parts) \in Seq(Chars)
<1>1. Len(parts) \in 0..Len(parts)
  BY DEF Parts
<1> QED
  BY <1>1, JoinedIs, JoiningSteps

\* The text of a row that goes on is that of the row and the part it gets.
LEMMA JoinedGrows ==
  ASSUME NEW parts \in Parts, NEW more \in Parts, Len(more) = Len(parts) + 1,
         \A i \in 1..Len(parts) : more[i] = parts[i]
  PROVE  Records!Joined(more) = Records!Joined(parts) \o more[Len(more)]
<1>0. Len(parts) \in Nat /\ Len(more) \in Nat
  BY DEF Parts
<1>1. PICK f : IsJoining(parts, f) /\ Records!Joined(parts) = f[Len(parts)]
  BY JoinedIs
<1>2. PICK g : IsJoining(more, g) /\ Records!Joined(more) = g[Len(more)]
  BY JoinedIs
<1>3. f[0] = <<>> /\ \A i \in 1..Len(parts) : f[i] = f[i - 1] \o parts[i]
  BY <1>1, JoiningSteps
<1>4. g[0] = <<>> /\ \A i \in 1..Len(more) : g[i] = g[i - 1] \o more[i]
  BY <1>2, JoiningSteps
<1> DEFINE T == {n \in Nat : n <= Len(parts) => g[n] = f[n]}
<1>5. 0 \in T
  BY <1>3, <1>4
<1>6. ASSUME NEW n \in Nat, n \in T PROVE n + 1 \in T
  <2>1. ASSUME n + 1 <= Len(parts) PROVE g[n + 1] = f[n + 1]
    <3>1. /\ n + 1 \in 1..Len(parts) /\ n + 1 \in 1..Len(more)
          /\ g[n] = f[n] /\ (n + 1) - 1 = n
      BY <1>0, <1>6, <2>1
    <3> QED
      BY <1>3, <1>4, <3>1
  <2>2. n + 1 \in Nat
    OBVIOUS
  <2> QED
    BY <2>1, <2>2
<1>7. g[Len(parts)] = f[Len(parts)]
  <2>1. \A n \in Nat : n \in T
    BY <1>5, <1>6, Counting
  <2>2. Len(parts) \in T
    BY <1>0, <2>1, Zenon
  <2> QED
    BY <1>0, <2>2
<1>8. Len(more) \in 1..Len(more) /\ Len(more) - 1 = Len(parts)
  BY <1>0
<1> QED
  BY <1>1, <1>2, <1>4, <1>7, <1>8

LEMMA JoinedAppend ==
  ASSUME NEW parts \in Parts, NEW part \in Seq(Chars)
  PROVE  Records!Joined(Append(parts, part)) = Records!Joined(parts) \o part
<1>1. /\ Append(parts, part) \in Parts /\ Len(Append(parts, part)) = Len(parts) + 1
      /\ \A i \in 1..Len(parts) : Append(parts, part)[i] = parts[i]
      /\ Append(parts, part)[Len(parts) + 1] = part
  BY DEF Parts
<1> QED
  BY <1>1, JoinedGrows

\* The first parts of a row.
Firsts(parts, n) == SubSeq(parts, 1, n)

LEMMA JoinedFirsts ==
  ASSUME NEW parts \in Parts, NEW n \in 1..Len(parts)
  PROVE  /\ Records!Joined(Firsts(parts, n)) =
              Records!Joined(Firsts(parts, n - 1)) \o parts[n]
         /\ Firsts(parts, n) \in Parts /\ Firsts(parts, n - 1) \in Parts
<1>1. /\ Firsts(parts, n) \in Parts /\ Len(Firsts(parts, n)) = n
      /\ \A i \in 1..n : Firsts(parts, n)[i] = parts[i]
  BY DEF Parts, Firsts
<1>2. /\ Firsts(parts, n - 1) \in Parts /\ Len(Firsts(parts, n - 1)) = n - 1
      /\ \A i \in 1..(n - 1) : Firsts(parts, n - 1)[i] = parts[i]
  BY DEF Parts, Firsts
<1>3. \A i \in 1..(n - 1) : Firsts(parts, n)[i] = Firsts(parts, n - 1)[i]
  BY <1>1, <1>2
<1>4. Len(Firsts(parts, n)) = Len(Firsts(parts, n - 1)) + 1 /\ n \in 1..n
  BY <1>1, <1>2
<1> QED
  BY <1>1, <1>2, <1>3, <1>4, JoinedGrows

\* What the first parts of a row make is how the text of all of them begins.
LEMMA FirstsBegin ==
  ASSUME NEW parts \in Parts
  PROVE  \A n \in 0..Len(parts) :
           /\ Len(Records!Joined(Firsts(parts, n))) <= Len(Records!Joined(parts))
           /\ SubSeq(Records!Joined(parts), 1, Len(Records!Joined(Firsts(parts, n))))
                = Records!Joined(Firsts(parts, n))
<1> DEFINE last == Len(parts)
<1> DEFINE J(n) == Records!Joined(Firsts(parts, n))
<1> DEFINE T == {k \in Nat : k <= last =>
                    /\ Len(J(last - k)) <= Len(Records!Joined(parts))
                    /\ SubSeq(Records!Joined(parts), 1, Len(J(last - k))) = J(last - k)}
<1>0. last \in Nat /\ Firsts(parts, last) = parts /\ Records!Joined(parts) \in Seq(Chars)
  BY JoinedType DEF Parts, Firsts
<1>1. 0 \in T
  <2>1. J(last - 0) = Records!Joined(parts)
    BY <1>0
  <2> QED
    BY <1>0, <2>1
<1>2. ASSUME NEW k \in Nat, k \in T PROVE k + 1 \in T
  <2>1. ASSUME k + 1 <= last
        PROVE  /\ Len(J(last - (k + 1))) <= Len(Records!Joined(parts))
               /\ SubSeq(Records!Joined(parts), 1, Len(J(last - (k + 1)))) = J(last - (k + 1))
    <3>1. last - k \in 1..last /\ (last - k) - 1 = last - (k + 1)
      BY <1>0, <2>1
    <3>2. /\ J(last - k) = J((last - k) - 1) \o parts[last - k]
          /\ J(last - k) \in Seq(Chars) /\ J((last - k) - 1) \in Seq(Chars)
      BY <3>1, JoinedFirsts, JoinedType
    <3>3. /\ Len(J(last - k)) <= Len(Records!Joined(parts))
          /\ SubSeq(Records!Joined(parts), 1, Len(J(last - k))) = J(last - k)
      BY <1>0, <1>2, <2>1
    <3>4. parts[last - k] \in Seq(Chars)
      BY <3>1 DEF Parts
    <3> HIDE DEF J
    <3> QED
      BY <1>0, <3>1, <3>2, <3>3, <3>4, BeginsWithBeginning
  <2>2. k + 1 \in Nat
    OBVIOUS
  <2> QED
    BY <2>1, <2>2, Zenon
<1>3. \A k \in Nat : k \in T
  BY <1>1, <1>2, Counting
<1>4. ASSUME NEW n \in 0..last
      PROVE  /\ Len(J(n)) <= Len(Records!Joined(parts))
             /\ SubSeq(Records!Joined(parts), 1, Len(J(n))) = J(n)
  <2>1. last - n \in T /\ last - n <= last /\ last - (last - n) = n
    BY <1>0, <1>3
  <2> QED
    BY <2>1
<1> QED
  BY <1>4

\* The tokenizer's space is dropped from the first piece.
Dropped == pieces # <<>> /\ Records!HasDummyPrefix(pieces[1])

\* What each piece covers of the source.
Cover ==
  [i \in 1..Len(pieces) |->
     IF i = 1 /\ Dropped THEN Tail(pieces[1]) ELSE pieces[i]]

\* The bytes of the tokens.
Spans == [i \in DOMAIN tokens |-> SubSeq(text, tokens[i].start + 1, tokens[i].end)]

AlignmentTypes ==
  /\ text \in Seq(Chars) /\ Len(text) > 0
  /\ pieces \in Parts /\ \A i \in 1..Len(pieces) : pieces[i] # <<>>
  /\ next \in Nat /\ next >= 1 /\ next <= Len(pieces) + 1
  /\ offset \in Nat /\ offset <= Len(text)
  /\ tokens \in Seq([start : Nat, end : Nat, record : Nat])

\* What is aligned so far is the same text for the pieces, the tokens and the
\* source, and each piece but a lone space has its token.
AlignmentInv ==
  /\ AlignmentTypes
  /\ Records!Joined(Firsts(Cover, next - 1)) = SubSeq(text, 1, offset)
  /\ Records!Joined(Spans) = SubSeq(text, 1, offset)
  /\ \A i \in 1..Len(tokens) :
       /\ tokens[i].start = (IF i = 1 THEN 0 ELSE tokens[i - 1].end)
       /\ tokens[i].start <= tokens[i].end /\ tokens[i].end <= Len(text)
  /\ offset = (IF tokens = <<>> THEN 0 ELSE tokens[Len(tokens)].end)
  /\ Len(tokens) <= next - 1
  /\ IF Dropped /\ Len(pieces[1]) = 1
     THEN next > 1 => Len(tokens) < next - 1
     ELSE /\ Len(tokens) = next - 1
          /\ \A i \in 1..Len(tokens) : tokens[i].end - tokens[i].start = Len(Cover[i])
  /\ verdict = "aligned" => next = Len(pieces) + 1 /\ offset = Len(text)
  /\ verdict = "mismatch" => Records!Joined(Cover) # text

LEMMA CoverType ==
  ASSUME AlignmentTypes
  PROVE  /\ Cover \in Parts /\ Len(Cover) = Len(pieces)
         /\ \A i \in 1..Len(pieces) : Cover[i] =
              IF i = 1 /\ Dropped THEN Tail(pieces[1]) ELSE pieces[i]
<1>1. Len(pieces) \in Nat /\ \A i \in 1..Len(pieces) : pieces[i] \in Seq(Chars)
  BY DEF AlignmentTypes, Parts
<1>2. \A i \in 1..Len(pieces) : Tail(pieces[i]) \in Seq(Chars)
  BY <1>1 DEF AlignmentTypes
<1>3. \A i \in 1..Len(pieces) :
        (IF i = 1 /\ Dropped THEN Tail(pieces[1]) ELSE pieces[i]) \in Seq(Chars)
  BY <1>1, <1>2
<1> QED
  BY <1>1, <1>3 DEF Cover, Parts

\* Only the space is between the text of the pieces and what they cover.
LEMMA SpaceBefore ==
  ASSUME AlignmentTypes, Dropped
  PROVE  Records!Joined(pieces) = <<Records!Blank>> \o Records!Joined(Cover)
<1> DEFINE blank == <<Records!Blank>>
<1> DEFINE P(n) == Records!Joined(Firsts(pieces, n))
<1> DEFINE C(n) == Records!Joined(Firsts(Cover, n))
<1>0. /\ Len(pieces) \in Nat /\ Len(pieces) >= 1 /\ pieces \in Parts
      /\ \A i \in 1..Len(pieces) : pieces[i] \in Seq(Chars) /\ pieces[i] # <<>>
  BY DEF AlignmentTypes, Parts, Dropped
<1>1. /\ \A n \in 1..Len(pieces) : P(n) = P(n - 1) \o pieces[n] /\ Firsts(pieces, n - 1) \in Parts
      /\ \A n \in 1..Len(pieces) : C(n) = C(n - 1) \o Cover[n] /\ Firsts(Cover, n - 1) \in Parts
  BY <1>0, CoverType, JoinedFirsts
<1>2. P(0) = <<>> /\ C(0) = <<>>
  <2>1. /\ Firsts(pieces, 0) \in Parts /\ Len(Firsts(pieces, 0)) = 0
        /\ Firsts(Cover, 0) \in Parts /\ Len(Firsts(Cover, 0)) = 0
    BY <1>0, CoverType DEF Firsts, Parts
  <2> QED
    BY <2>1, JoinedNone
<1>3. pieces[1] = blank \o Cover[1] /\ Cover[1] \in Seq(Chars)
  <2>1. Cover[1] = Tail(pieces[1]) /\ pieces[1][1] = Records!Blank
    BY <1>0, CoverType DEF Dropped, Records!HasDummyPrefix
  <2>2. pieces[1] \in Seq(Chars) /\ pieces[1] # <<>>
    BY <1>0
  <2> QED
    BY <2>1, <2>2
<1> HIDE DEF P, C
<1>4. P(1) = blank \o C(1)
  <2>1. 1 \in 1..Len(pieces) /\ 1 - 1 = 0
    BY <1>0
  <2>2. P(1) = P(0) \o pieces[1] /\ C(1) = C(0) \o Cover[1]
    BY <1>1, <2>1
  <2>3. P(1) = <<>> \o pieces[1] /\ C(1) = <<>> \o Cover[1]
    BY <1>2, <2>2
  <2>4. pieces[1] \in Seq(Chars)
    BY <1>0, <2>1
  <2>5. \A s \in Seq(Chars) : <<>> \o s = s
    OBVIOUS
  <2>6. P(1) = pieces[1] /\ C(1) = Cover[1]
    BY <1>3, <2>3, <2>4, <2>5
  <2> QED
    BY <1>3, <2>6
<1> DEFINE T == {n \in Nat : n + 1 <= Len(pieces) => P(n + 1) = blank \o C(n + 1)}
<1>5. 0 \in T
  BY <1>4
<1>6. ASSUME NEW n \in Nat, n \in T PROVE n + 1 \in T
  <2>1. ASSUME (n + 1) + 1 <= Len(pieces) PROVE P((n + 1) + 1) = blank \o C((n + 1) + 1)
    <3> DEFINE m == (n + 1) + 1
    <3>1. m \in 1..Len(pieces) /\ m - 1 = n + 1 /\ m # 1
      BY <1>0, <2>1
    <3>2. P(m - 1) = blank \o C(m - 1)
      <4>1. n + 1 <= Len(pieces)
        BY <1>0, <2>1
      <4> QED
        BY <1>6, <3>1, <4>1
    <3>3. P(m) = P(m - 1) \o pieces[m] /\ C(m) = C(m - 1) \o Cover[m]
      BY <1>1, <3>1
    <3>4. Cover[m] = pieces[m] /\ pieces[m] \in Seq(Chars)
      BY <1>0, <3>1, CoverType
    <3>5. C(m - 1) \in Seq(Chars)
      BY <1>1, <3>1, JoinedType DEF C
    <3>6. blank \in Seq(Chars)
      BY DEF Chars
    <3>7. (blank \o C(m - 1)) \o pieces[m] = blank \o (C(m - 1) \o pieces[m])
      BY ONLY <3>4, <3>5, <3>6, \A a, b, c \in Seq(Chars) : (a \o b) \o c = a \o (b \o c)
    <3> QED
      BY <3>2, <3>3, <3>4, <3>7
  <2>2. n + 1 \in Nat
    OBVIOUS
  <2> QED
    BY <2>1, <2>2, Zenon
<1>7. P(Len(pieces)) = blank \o C(Len(pieces))
  <2> HIDE DEF T
  <2>1. \A n \in Nat : n \in T
    BY <1>5, <1>6, Counting
  <2>2. Len(pieces) - 1 \in T /\ (Len(pieces) - 1) + 1 = Len(pieces)
    BY <1>0, <2>1
  <2> QED
    BY <1>0, <2>2 DEF T
<1>8. Firsts(pieces, Len(pieces)) = pieces /\ Firsts(Cover, Len(pieces)) = Cover
  BY <1>0, CoverType DEF Firsts, Parts
<1> QED
  BY <1>7, <1>8 DEF P, C

LEMMA CutsPieces ==
  ASSUME NEW whole \in Seq(Chars), Len(whole) > 0, NEW cut \in Records!Cuts(whole)
  PROVE  cut \in Parts /\ \A i \in 1..Len(cut) : cut[i] # <<>>
<1>1. PICK end \in Records!Endings(whole) : cut = Records!Cut(whole, end)
  BY DEF Records!Cuts
<1>2. PICK n \in 1..Len(whole) :
        /\ end \in [1..n -> 1..Len(whole)]
        /\ \A i \in 2..Len(end) : end[i - 1] < end[i]
  BY DEF Records!Endings
<1>3. /\ n \in Nat /\ Len(whole) \in Nat /\ DOMAIN end = 1..n /\ Len(end) = n
      /\ \A i \in 1..n : end[i] \in 1..Len(whole)
  BY <1>2
<1> DEFINE from(i) == IF i = 1 THEN 1 ELSE end[i - 1] + 1
<1>4. \A i \in 1..n : from(i) \in 1..Len(whole) /\ from(i) <= end[i]
  <2>1. ASSUME NEW i \in 1..n, i # 1 PROVE from(i) \in 1..Len(whole) /\ from(i) <= end[i]
    <3>1. i - 1 \in 1..n /\ i \in 2..n
      BY <1>3, <2>1
    <3>2. end[i - 1] < end[i]
      BY <1>2, <1>3, <3>1
    <3> QED
      BY <1>3, <2>1, <3>1, <3>2
  <2> QED
    BY <1>3, <2>1
<1>5. cut = [i \in 1..n |-> SubSeq(whole, from(i), end[i])]
  BY <1>1, <1>3 DEF Records!Cut
<1> HIDE DEF from
<1>6. ASSUME NEW i \in 1..n
      PROVE  cut[i] \in Seq(Chars) /\ cut[i] # <<>>
  <2>1. from(i) \in 1..Len(whole) /\ end[i] \in 1..Len(whole) /\ from(i) <= end[i]
    BY <1>3, <1>4
  <2>2. cut[i] = SubSeq(whole, from(i), end[i])
    BY <1>5
  <2>3. Len(SubSeq(whole, from(i), end[i])) > 0 /\ SubSeq(whole, from(i), end[i]) \in Seq(Chars)
    BY <2>1
  <2>4. SubSeq(whole, from(i), end[i]) # <<>>
    <3> DEFINE s == SubSeq(whole, from(i), end[i])
    <3> HIDE DEF s
    <3>1. s \in Seq(Chars) /\ Len(s) # 0
      BY <2>3 DEF s
    <3>2. s # <<>>
      BY <3>1, NoLength
    <3> QED
      BY <3>2 DEF s
  <2> QED
    BY <2>2, <2>3, <2>4
<1>7. DOMAIN cut = 1..n /\ Len(cut) = n
  BY <1>3, <1>5
<1>8. cut \in Seq(Seq(Chars))
  BY <1>3, <1>5, <1>6
<1> QED
  BY <1>6, <1>7, <1>8 DEF Parts

LEMMA AlignmentStart == ASSUME Records!Init PROVE AlignmentInv
<1>1. text \in Seq(Chars) /\ Len(text) > 0
  BY DEF Records!Init, Records!Texts, Chars
<1>2. PICK scored \in Records!Texts :
        pieces \in Records!Cuts(IF dummy THEN <<Records!Blank>> \o scored ELSE scored)
  BY DEF Records!Init
<1>3. scored \in Seq(Chars) /\ Len(scored) > 0
  BY <1>2 DEF Records!Texts, Chars
<1>4. /\ <<Records!Blank>> \o scored \in Seq(Chars)
      /\ Len(<<Records!Blank>> \o scored) > 0
  BY <1>3 DEF Chars
<1>5. pieces \in Parts /\ \A i \in 1..Len(pieces) : pieces[i] # <<>>
  <2>1. CASE dummy
    BY <1>2, <1>4, <2>1, CutsPieces
  <2>2. CASE ~dummy
    BY <1>2, <1>3, <2>2, CutsPieces
  <2> QED
    BY <2>1, <2>2
<1>6. next = 1 /\ offset = 0 /\ tokens = <<>> /\ verdict = "none"
  BY DEF Records!Init
<1>7. AlignmentTypes
  BY <1>1, <1>5, <1>6 DEF AlignmentTypes, Parts
<1>8. Records!Joined(Firsts(Cover, next - 1)) = <<>>
  <2>1. Firsts(Cover, next - 1) \in Parts /\ Len(Firsts(Cover, next - 1)) = 0
    BY <1>6, <1>7, CoverType DEF Firsts, Parts
  <2> QED
    BY <2>1, JoinedNone
<1>9. Records!Joined(Spans) = <<>>
  <2>1. Spans = <<>>
    BY <1>6 DEF Spans
  <2>2. Spans \in Parts /\ Len(Spans) = 0
    BY <2>1 DEF Parts
  <2> QED
    BY <2>2, JoinedNone
<1>10. SubSeq(text, 1, offset) = <<>>
  BY <1>1, <1>6
<1>11. Len(tokens) = 0
  BY <1>6
<1>12. Len(tokens) = next - 1 /\ ~(next > 1) /\ 1..Len(tokens) = {}
  BY <1>6, <1>11
<1>13. verdict # "aligned" /\ verdict # "mismatch" /\ Len(tokens) <= next - 1
  BY <1>6, <1>12
<1> QED
  BY <1>6, <1>7, <1>8, <1>9, <1>10, <1>12, <1>13 DEF AlignmentInv

\* A piece that fits goes on with what is covered.
LEMMA CoveredGoesOn ==
  ASSUME AlignmentInv, next <= Len(pieces)
  PROVE  /\ Records!Covered(pieces[next]) = Cover[next] /\ Cover[next] \in Seq(Chars)
         /\ Records!Joined(Firsts(Cover, next)) = SubSeq(text, 1, offset) \o Cover[next]
<1>1. next \in 1..Len(pieces) /\ Len(pieces) \in Nat
  BY DEF AlignmentInv, AlignmentTypes, Parts
<1>2. AlignmentTypes
  BY DEF AlignmentInv
<1>3. pieces # <<>>
  BY <1>1
<1>4. Cover[next] \in Seq(Chars) /\ next \in 1..Len(Cover)
  BY <1>1, <1>2, CoverType DEF Parts
<1>5. Records!Covered(pieces[next]) = Cover[next]
  BY <1>1, <1>2, <1>3, CoverType DEF Records!Covered, Dropped
<1>6. Records!Joined(Firsts(Cover, next)) = Records!Joined(Firsts(Cover, next - 1)) \o Cover[next]
  BY <1>2, <1>4, CoverType, JoinedFirsts
<1> QED
  BY <1>4, <1>5, <1>6 DEF AlignmentInv

LEMMA SameBehind ==
  ASSUME NEW a, NEW s \in Seq(Chars), NEW t \in Seq(Chars), <<a>> \o s = <<a>> \o t
  PROVE  s = t
<1>1. Len(<<a>> \o s) = Len(s) + 1 /\ Len(<<a>> \o t) = Len(t) + 1
  OBVIOUS
<1>2. Len(s) = Len(t) /\ Len(s) \in Nat
  BY <1>1
<1>3. ASSUME NEW i \in 1..Len(s) PROVE s[i] = t[i]
  <2>1. (<<a>> \o s)[i + 1] = s[i]
    OBVIOUS
  <2>2. (<<a>> \o t)[i + 1] = t[i]
    BY <1>2
  <2> QED
    BY <2>1, <2>2
<1> QED
  BY <1>2, <1>3

LEMMA Longer ==
  ASSUME NEW s \in Seq(Chars), NEW k \in Nat, NEW t \in Seq(Chars),
         k + Len(t) <= Len(s), SubSeq(s, k + 1, k + Len(t)) = t
  PROVE  SubSeq(s, 1, k) \o t = SubSeq(s, 1, k + Len(t))
<1> DEFINE u == SubSeq(s, 1, k)
<1> DEFINE e == k + Len(t)
<1>1. /\ Len(t) \in Nat /\ Len(s) \in Nat /\ u \in Seq(Chars) /\ Len(u) = k
      /\ \A i \in 1..k : u[i] = s[i]
  OBVIOUS
<1>2. \A i \in 1..Len(t) : t[i] = s[k + i]
  <2>1. ASSUME NEW i \in 1..Len(t) PROVE t[i] = s[k + i]
    <3>1. SubSeq(s, k + 1, e)[i] = s[(k + 1) + i - 1] /\ (k + 1) + i - 1 = k + i
      BY <1>1
    <3> QED
      BY <3>1
  <2> QED
    BY <2>1
<1>3. /\ SubSeq(s, 1, e) \in Seq(Chars) /\ Len(SubSeq(s, 1, e)) = e
      /\ \A i \in 1..e : SubSeq(s, 1, e)[i] = s[i]
  BY <1>1
<1> HIDE DEF u
<1>4. u \o t \in Seq(Chars) /\ Len(u \o t) = e
  BY <1>1
<1>5. ASSUME NEW i \in 1..e PROVE (u \o t)[i] = s[i]
  <2>1. CASE i <= k
    BY <1>1, <2>1
  <2>2. CASE i > k
    <3>1. i - k \in 1..Len(t) /\ k + (i - k) = i
      BY <1>1, <2>2
    <3>2. (u \o t)[i] = t[i - k]
      BY <1>1, <2>2
    <3> QED
      BY <1>2, <3>1, <3>2
  <2> QED
    BY <1>1, <2>1, <2>2
<1>6. u \o t = SubSeq(s, 1, e)
  BY <1>1, <1>3, <1>4, <1>5
<1> QED
  BY <1>6 DEF u

LEMMA TokenStep ==
  ASSUME AlignmentInv, Records!AlignToken
  PROVE  AlignmentInv'
<1>0. /\ AlignmentTypes
      /\ Records!Joined(Spans) = SubSeq(text, 1, offset)
      /\ \A i \in 1..Len(tokens) :
           /\ tokens[i].start = (IF i = 1 THEN 0 ELSE tokens[i - 1].end)
           /\ tokens[i].start <= tokens[i].end /\ tokens[i].end <= Len(text)
      /\ offset = (IF tokens = <<>> THEN 0 ELSE tokens[Len(tokens)].end)
      /\ Len(tokens) <= next - 1
      /\ IF Dropped /\ Len(pieces[1]) = 1
         THEN next > 1 => Len(tokens) < next - 1
         ELSE /\ Len(tokens) = next - 1
              /\ \A i \in 1..Len(tokens) : tokens[i].end - tokens[i].start = Len(Cover[i])
  BY DEF AlignmentInv
<1>1. /\ next \in 1..Len(pieces) /\ Len(pieces) \in Nat /\ next <= Len(pieces)
      /\ AlignmentTypes
  <2>1. Len(pieces) \in Nat /\ next \in Nat /\ next >= 1
    BY <1>0 DEF AlignmentTypes, Parts
  <2>2. next <= Len(pieces)
    BY DEF Records!AlignToken
  <2> QED
    BY <1>0, <2>1, <2>2
<1> DEFINE bytes == Cover[next]
<1> DEFINE end == offset + Len(bytes)
<1>2. /\ Records!Covered(pieces[next]) = bytes /\ bytes \in Seq(Chars)
      /\ Records!Joined(Firsts(Cover, next)) = SubSeq(text, 1, offset) \o bytes
  BY <1>1, CoveredGoesOn
<1>3. text' = text /\ pieces' = pieces /\ dummy' = dummy
  BY DEF Records!AlignToken
<1>4. Dropped' = Dropped /\ Cover' = Cover
  <2>1. Dropped' = Dropped
    BY <1>3, Zenon DEF Dropped, Records!HasDummyPrefix, Records!StartsWith, Records!Blank
  <2> QED
    BY <1>3, <2>1 DEF Cover
<1>5. /\ text \in Seq(Chars) /\ Len(text) > 0 /\ Len(text) \in Nat /\ offset \in Nat
      /\ offset <= Len(text) /\ Len(bytes) \in Nat /\ next \in Nat
  BY <1>1, <1>2 DEF AlignmentTypes
<1> HIDE DEF bytes
<1>6. CASE end > Len(text) \/ SubSeq(text, offset + 1, end) # bytes
  <2>1. verdict' = "mismatch" /\ next' = next /\ offset' = offset /\ tokens' = tokens
    BY <1>2, <1>6 DEF Records!AlignToken
  <2>2. Records!Joined(Cover) # text
    <3>1. SUFFICES ASSUME Records!Joined(Cover) = text PROVE FALSE
      OBVIOUS
    <3>2. next \in 0..Len(Cover) /\ Cover \in Parts
      BY <1>1, CoverType
    <3>3. /\ Len(SubSeq(text, 1, offset) \o bytes) <= Len(text)
          /\ SubSeq(text, 1, Len(SubSeq(text, 1, offset) \o bytes))
               = SubSeq(text, 1, offset) \o bytes
      BY <1>2, <3>1, <3>2, FirstsBegin
    <3>4. SubSeq(text, 1, offset) \in Seq(Chars) /\ Len(SubSeq(text, 1, offset)) = offset
      BY <1>5
    <3>5. SubSeq(text, offset + 1, offset + Len(bytes)) = bytes
      BY ONLY <1>2, <1>5, <3>3, <3>4, BeginsWithBeginning
    <3>6. Len(SubSeq(text, 1, offset) \o bytes) = offset + Len(bytes)
      BY <1>2, <3>4
    <3> QED
      BY <1>5, <1>6, <3>3, <3>5, <3>6
  <2>3. AlignmentTypes'
    BY <1>1, <1>3, <2>1 DEF AlignmentTypes
  <2>4. Spans' = Spans
    BY <1>3, <2>1 DEF Spans
  <2> QED
    <3>1. (verdict # "aligned")' /\ (verdict = "mismatch")'
      BY <2>1
    <3>2. (Records!Joined(Firsts(Cover, next - 1)) = SubSeq(text, 1, offset))'
      BY <1>2, <1>3, <1>4, <2>1 DEF AlignmentInv
    <3>3. (Records!Joined(Spans) = SubSeq(text, 1, offset))'
      BY <1>0, <1>3, <2>1, <2>4
    <3>4. (Records!Joined(Cover) # text)'
      BY <1>3, <1>4, <2>2
    <3>5. next' = next /\ offset' = offset /\ tokens' = tokens
      BY <2>1
    <3> QED
      BY <1>0, <1>3, <1>4, <2>3, <3>1, <3>2, <3>3, <3>4, <3>5 DEF AlignmentInv
<1>7. CASE end <= Len(text) /\ SubSeq(text, offset + 1, end) = bytes
  <2>0. ~(end > Len(text) \/ SubSeq(text, offset + 1, end) # bytes)
    BY <1>5, <1>7
  <2>1. /\ next' = next + 1 /\ offset' = end /\ verdict' = verdict /\ verdict = "none"
        /\ tokens' = IF bytes = <<>> THEN tokens
                     ELSE Append(tokens, [start |-> offset, end |-> end, record |-> next])
    BY <1>2, <2>0 DEF Records!AlignToken
  <2>2. Records!Joined(Firsts(Cover, next)) = SubSeq(text, 1, end)
    BY <1>2, <1>5, <1>7, Longer
  <2>3. Records!Joined(Firsts(Cover', next' - 1)) = SubSeq(text', 1, offset')
    <3>1. next' - 1 = next
      BY <1>5, <2>1
    <3> QED
      BY <1>3, <1>4, <2>1, <2>2, <3>1
  <2>4. AlignmentTypes'
    <3>1. end \in Nat /\ next + 1 \in Nat /\ next + 1 >= 1 /\ next + 1 <= Len(pieces) + 1
      BY <1>1, <1>5
    <3>2. tokens' \in Seq([start : Nat, end : Nat, record : Nat])
      <4>1. [start |-> offset, end |-> end, record |-> next] \in [start : Nat, end : Nat, record : Nat]
        BY <1>5, <3>1
      <4>2. tokens \in Seq([start : Nat, end : Nat, record : Nat])
        BY <1>1 DEF AlignmentTypes
      <4> DEFINE token == [start |-> offset, end |-> end, record |-> next]
      <4> HIDE DEF token
      <4>3. tokens' = IF bytes = <<>> THEN tokens ELSE Append(tokens, token)
        BY <2>1 DEF token
      <4>4. token \in [start : Nat, end : Nat, record : Nat]
        BY <4>1 DEF token
      <4> QED
        BY <4>2, <4>3, <4>4, OneMore
    <3> QED
      BY <1>1, <1>3, <1>7, <2>1, <3>1, <3>2 DEF AlignmentTypes
  <2>5. CASE bytes = <<>>
    <3>1. tokens' = tokens /\ offset' = offset /\ end = offset
      BY <1>5, <2>1, <2>5
    <3>2. next = 1 /\ Dropped /\ Len(pieces[1]) = 1
      <4>1. pieces[next] # <<>> /\ pieces[next] \in Seq(Chars)
        <5>1. pieces \in Seq(Seq(Chars)) /\ pieces[next] # <<>>
          BY <1>1 DEF AlignmentTypes, Parts
        <5> QED
          BY <1>1, <5>1
      <4>2. next = 1 /\ Dropped /\ bytes = Tail(pieces[1])
        BY <1>1, <2>5, <4>1, CoverType DEF bytes
      <4>3. \A s \in Seq(Chars) : s # <<>> /\ Tail(s) = <<>> => Len(s) = 1
        <5>1. ASSUME NEW s \in Seq(Chars), s # <<>>, Tail(s) = <<>> PROVE Len(s) = 1
          <6>1. Len(Tail(s)) = Len(s) - 1 /\ Len(Tail(s)) = 0 /\ Len(s) \in Nat
            <7>0. Len(<<>>) = 0
              OBVIOUS
            <7>1. Len(Tail(s)) = 0
              BY <5>1, <7>0, Zenon
            <7> QED
              BY <5>1, <7>1, HeadTailProperties, LenProperties
          <6> QED
            BY <6>1
        <5> QED
          BY <5>1
      <4> QED
        BY <2>5, <4>1, <4>2, <4>3
    <3>3. Len(tokens) = 0
      <4>1. Len(tokens) \in Nat
        BY <1>0 DEF AlignmentTypes
      <4> QED
        BY <1>0, <3>2, <4>1
    <3>4. Spans' = Spans
      BY <1>3, <3>1 DEF Spans
    <3>5. next' = 2 /\ Len(tokens') = 0 /\ 0 <= 2 - 1 /\ 0 < 2 - 1
      BY <2>1, <3>1, <3>2, <3>3
    <3>6. Records!Joined(Spans)' = SubSeq(text, 1, offset)'
      BY <1>0, <1>3, <3>1, <3>4
    <3>7. (Dropped /\ Len(pieces[1]) = 1)'
      BY <1>3, <1>4, <3>2
    <3> QED
      BY <1>0, <1>3, <2>1, <2>3, <2>4, <3>1, <3>3, <3>5, <3>6, <3>7 DEF AlignmentInv
  <2>6. CASE bytes # <<>>
    <3> DEFINE token == [start |-> offset, end |-> end, record |-> next]
    <3>0. /\ tokens \in Seq([start : Nat, end : Nat, record : Nat])
          /\ token \in [start : Nat, end : Nat, record : Nat]
      <4>1. offset \in Nat /\ end \in Nat /\ next \in Nat
        BY <1>5
      <4>2. token \in [start : Nat, end : Nat, record : Nat]
        BY <4>1
      <4> QED
        BY <1>0, <4>2 DEF AlignmentTypes
    <3>1. /\ tokens' = Append(tokens, token) /\ Len(tokens') = Len(tokens) + 1
          /\ Len(tokens) \in Nat
          /\ \A i \in 1..Len(tokens) : tokens'[i] = tokens[i]
          /\ tokens'[Len(tokens) + 1] = token
      BY <2>1, <2>6, <3>0
    <3>2. Len(tokens') <= next' - 1
      BY <1>0, <1>5, <2>1, <3>1
    <3> HIDE DEF token
    <3>3. token.start = offset /\ token.end = end /\ offset <= end
      BY <1>5 DEF token
    <3>4. offset' = (IF tokens' = <<>> THEN 0 ELSE tokens'[Len(tokens')].end)
      <4>1. tokens' # <<>> /\ tokens'[Len(tokens')] = token
        BY <3>0, <3>1
      <4> QED
        BY <2>1, <3>3, <4>1
    <3>5. ASSUME NEW i \in 1..Len(tokens')
          PROVE  /\ tokens'[i].start = (IF i = 1 THEN 0 ELSE tokens'[i - 1].end)
                 /\ tokens'[i].start <= tokens'[i].end /\ tokens'[i].end <= Len(text)
      <4>1. CASE i \in 1..Len(tokens)
        <5>1. i = 1 \/ i - 1 \in 1..Len(tokens)
          BY <3>1, <4>1
        <5>2. tokens'[i] = tokens[i] /\ (i # 1 => tokens'[i - 1] = tokens[i - 1])
          BY <3>1, <4>1, <5>1
        <5> QED
          BY <1>0, <4>1, <5>2
      <4>2. CASE i = Len(tokens) + 1
        <5>1. tokens'[i] = token
          BY <3>1, <4>2
        <5>2. offset = (IF i = 1 THEN 0 ELSE tokens'[i - 1].end)
          <6>1. CASE Len(tokens) = 0
            <7>1. tokens = <<>> /\ i = 1
              BY <3>0, <4>2, <6>1
            <7> QED
              BY <1>0, <7>1
          <6>2. CASE Len(tokens) # 0
            <7>1. i - 1 = Len(tokens) /\ Len(tokens) \in 1..Len(tokens) /\ i # 1 /\ tokens # <<>>
              BY <3>1, <4>2, <6>2
            <7>2. tokens'[i - 1] = tokens[Len(tokens)]
              BY <3>1, <7>1
            <7> QED
              BY <1>0, <7>1, <7>2
          <6> QED
            BY <6>1, <6>2
        <5> QED
          BY <1>7, <3>3, <5>1, <5>2
      <4>3. i \in 1..Len(tokens) \/ i = Len(tokens) + 1
        BY <3>1
      <4> QED
        BY <4>1, <4>2, <4>3
    <3>6. Records!Joined(Spans') = SubSeq(text, 1, end)
      <4> DEFINE Span(t) == SubSeq(text, t.start + 1, t.end)
      <4>1. DOMAIN tokens = 1..Len(tokens) /\ DOMAIN tokens' = 1..(Len(tokens) + 1)
        BY <3>0, <3>1
      <4>2. Spans = [i \in 1..Len(tokens) |-> Span(tokens[i])]
        BY <4>1 DEF Spans
      <4>3. Spans' = [i \in 1..(Len(tokens) + 1) |-> Span(tokens'[i])]
        BY <1>3, <4>1 DEF Spans
      <4>4. \A i \in 1..Len(tokens) : tokens[i].start \in Nat /\ tokens[i].end \in Nat
                /\ tokens[i].end <= Len(text)
        <5>1. \A i \in 1..Len(tokens) : tokens[i] \in [start : Nat, end : Nat, record : Nat]
          BY <3>0, ElementsAre
        <5> QED
          BY <1>0, <5>1
      <4>5. \A i \in 1..Len(tokens) : Span(tokens[i]) \in Seq(Chars)
        <5>1. ASSUME NEW i \in 1..Len(tokens) PROVE Span(tokens[i]) \in Seq(Chars)
          <6>1. tokens[i].start + 1 \in Nat /\ tokens[i].start + 1 >= 1 /\ tokens[i].end \in Nat
            BY <4>4
          <6>2. \A a, b \in Nat : 1 <= a /\ b <= Len(text) => SubSeq(text, a, b) \in Seq(Chars)
            BY <1>5
          <6> QED
            BY <4>4, <6>1, <6>2
        <5> QED
          BY <5>1
      <4>6. Span(token) = bytes
        BY <1>7, <3>3
      <4> HIDE DEF Span
      <4>7. Spans \in Parts /\ Len(Spans) = Len(tokens)
        BY <3>1, <4>2, <4>5 DEF Parts
      <4>8. \A i \in 1..Len(tokens) : Spans'[i] = Spans[i]
        <5>1. ASSUME NEW i \in 1..Len(tokens) PROVE Spans'[i] = Spans[i]
          <6>1. i \in 1..(Len(tokens) + 1)
            BY <3>1
          <6> QED
            BY <3>1, <4>2, <4>3, <6>1
        <5> QED
          BY <5>1
      <4>9. Spans'[Len(tokens) + 1] = bytes
        <5>1. Len(tokens) + 1 \in 1..(Len(tokens) + 1)
          BY <3>1
        <5> QED
          BY <3>1, <4>3, <4>6, <5>1
      <4>10. Spans' \in Parts /\ Len(Spans') = Len(tokens) + 1
        <5>1. \A i \in 1..(Len(tokens) + 1) : Spans'[i] \in Seq(Chars)
          <6>1. ASSUME NEW i \in 1..(Len(tokens) + 1) PROVE Spans'[i] \in Seq(Chars)
            <7>1. i \in 1..Len(tokens) \/ i = Len(tokens) + 1
              BY <3>1
            <7>2. \A j \in 1..Len(tokens) : Spans[j] \in Seq(Chars)
              BY <4>7, ElementsAre DEF Parts
            <7> QED
              BY <1>2, <4>8, <4>9, <7>1, <7>2
          <6> QED
            BY <6>1
        <5>2. DOMAIN Spans' = 1..(Len(tokens) + 1) /\ Len(tokens) + 1 \in Nat
          BY <3>1, <4>3
        <5>3. Spans' = [i \in 1..(Len(tokens) + 1) |-> Spans'[i]]
          BY <4>3
        <5> QED
          BY <5>1, <5>2, <5>3 DEF Parts
      <4>11. Records!Joined(Spans') = Records!Joined(Spans) \o bytes
        BY <4>7, <4>8, <4>9, <4>10, JoinedGrows
      <4> QED
        BY <1>0, <1>2, <1>5, <1>7, <4>10, <4>11, Longer
    <3>7. Records!Joined(Spans)' = SubSeq(text, 1, offset)'
      BY <1>3, <2>1, <3>6
    <3>8. CASE Dropped /\ Len(pieces[1]) = 1
      <4>1. next > 1
        <5>1. next # 1
          <6>1. SUFFICES ASSUME next = 1 PROVE bytes = <<>>
            BY <2>6
          <6>2. bytes = Tail(pieces[1]) /\ pieces[1] \in Seq(Chars)
            <7>1. pieces \in Seq(Seq(Chars)) /\ 1 \in 1..Len(pieces)
              BY <1>1, <6>1 DEF AlignmentTypes, Parts
            <7> QED
              BY <1>1, <3>8, <6>1, <7>1, CoverType DEF bytes
          <6>3. \A s \in Seq(Chars) : Len(s) = 1 => Tail(s) = <<>>
            <7>1. ASSUME NEW s \in Seq(Chars), Len(s) = 1 PROVE Tail(s) = <<>>
              <8>1. Tail(s) \in Seq(Chars) /\ Len(Tail(s)) = 0
                BY <7>1
              <8> QED
                BY <8>1, NoLength
            <7> QED
              BY <7>1
          <6> QED
            BY <3>8, <6>2, <6>3
        <5> QED
          BY <1>1, <5>1
      <4>2. Len(tokens) < next - 1
        BY <1>0, <3>8, <4>1
      <4>3. Len(tokens') < next' - 1
        BY <2>1, <3>1, <4>2, <1>5
      <4>4. (Dropped /\ Len(pieces[1]) = 1)'
        BY <1>3, <1>4, <3>8
      <4> QED
        BY <1>3, <2>1, <2>3, <2>4, <3>2, <3>4, <3>5, <3>7, <4>3, <4>4 DEF AlignmentInv
    <3>9. CASE ~(Dropped /\ Len(pieces[1]) = 1)
      <4>1. Len(tokens') = next' - 1
        BY <1>0, <1>5, <2>1, <3>1, <3>9
      <4>2. ASSUME NEW i \in 1..Len(tokens')
            PROVE  tokens'[i].end - tokens'[i].start = Len(Cover[i])
        <5>1. CASE i \in 1..Len(tokens)
          BY <1>0, <3>1, <3>9, <5>1
        <5>2. CASE i = Len(tokens) + 1
          <6>1. tokens'[i] = token /\ i = next
            BY <1>0, <1>5, <3>1, <3>9, <5>2
          <6> QED
            BY <1>5, <3>3, <6>1 DEF bytes
        <5> QED
          BY <3>1, <5>1, <5>2
      <4>3. (~(Dropped /\ Len(pieces[1]) = 1))'
        BY <1>3, <1>4, <3>9
      <4>4. \A i \in 1..Len(tokens') : tokens'[i].end - tokens'[i].start = Len(Cover'[i])
        BY <1>4, <4>2
      <4> QED
        BY <1>3, <2>1, <2>3, <2>4, <3>2, <3>4, <3>5, <3>7, <4>1, <4>3, <4>4 DEF AlignmentInv
    <3> QED
      BY <3>8, <3>9
  <2> QED
    BY <2>5, <2>6
<1>8. end > Len(text) \/ end <= Len(text)
  BY <1>5
<1> QED
  BY <1>6, <1>7, <1>8

LEMMA EndStep ==
  ASSUME AlignmentInv, Records!AlignEnd
  PROVE  AlignmentInv'
<1>1. AlignmentTypes /\ verdict = "none" /\ next > Len(pieces)
  BY DEF AlignmentInv, Records!AlignEnd
<1>2. /\ text' = text /\ pieces' = pieces /\ dummy' = dummy /\ next' = next
      /\ offset' = offset /\ tokens' = tokens
      /\ verdict' = IF offset = Len(text) THEN "aligned" ELSE "mismatch"
  BY DEF Records!AlignEnd
<1>3. Dropped' = Dropped /\ Cover' = Cover
  <2>1. Dropped' = Dropped
    BY <1>2, Zenon DEF Dropped, Records!HasDummyPrefix, Records!StartsWith, Records!Blank
  <2> QED
    BY <1>2, <2>1 DEF Cover
<1>4. Spans' = Spans
  BY <1>2 DEF Spans
<1>5. AlignmentTypes'
  BY <1>1, <1>2 DEF AlignmentTypes
<1>6. next = Len(pieces) + 1 /\ next - 1 = Len(pieces)
  BY <1>1 DEF AlignmentTypes, Parts
<1>7. verdict' = "aligned" => next' = Len(pieces') + 1 /\ offset' = Len(text')
  BY <1>2, <1>6
<1>8. verdict' = "mismatch" => Records!Joined(Cover') # text'
  <2>1. SUFFICES ASSUME offset # Len(text) PROVE Records!Joined(Cover) # text
    BY <1>2, <1>3
  <2>2. Firsts(Cover, next - 1) = Cover
    BY <1>1, <1>6, CoverType DEF Firsts, Parts
  <2>3. Records!Joined(Cover) = SubSeq(text, 1, offset)
    BY <2>2 DEF AlignmentInv
  <2>4. Len(SubSeq(text, 1, offset)) = offset
    BY <1>1 DEF AlignmentTypes
  <2> QED
    BY <2>1, <2>3, <2>4
<1> QED
  BY <1>2, <1>3, <1>4, <1>5, <1>7, <1>8 DEF AlignmentInv, Firsts

LEMMA AlignmentStutter ==
  ASSUME AlignmentInv, UNCHANGED alignmentVars
  PROVE  AlignmentInv'
<1>1. /\ text' = text /\ pieces' = pieces /\ dummy' = dummy /\ next' = next
      /\ offset' = offset /\ tokens' = tokens /\ verdict' = verdict
  BY DEF alignmentVars
<1>2. Dropped' = Dropped /\ Cover' = Cover
  <2>1. Dropped' = Dropped
    BY <1>1, Zenon DEF Dropped, Records!HasDummyPrefix, Records!StartsWith, Records!Blank
  <2> QED
    BY <1>1, <2>1 DEF Cover
<1>3. Spans' = Spans
  BY <1>1 DEF Spans
<1> QED
  BY <1>1, <1>2, <1>3 DEF AlignmentInv, AlignmentTypes, Firsts

LEMMA AlignmentStep ==
  ASSUME AlignmentInv, Records!AlignTokens \/ UNCHANGED alignmentVars
  PROVE  AlignmentInv'
BY TokenStep, EndStep, AlignmentStutter DEF Records!AlignTokens

\* How the source begins is how a text begins that it is the whole of.
LEMMA FirstPiece ==
  ASSUME NEW parts \in Parts, Len(parts) > 0
  PROVE  /\ Len(parts[1]) <= Len(Records!Joined(parts))
         /\ SubSeq(Records!Joined(parts), 1, Len(parts[1])) = parts[1]
<1>1. 1 \in 1..Len(parts) /\ 1 \in 0..Len(parts) /\ Len(parts) \in Nat
  BY DEF Parts
<1>2. Records!Joined(Firsts(parts, 1)) = Records!Joined(Firsts(parts, 1 - 1)) \o parts[1]
  BY <1>1, JoinedFirsts
<1>3. Records!Joined(Firsts(parts, 1 - 1)) = <<>>
  <2>1. Firsts(parts, 1 - 1) \in Parts /\ Len(Firsts(parts, 1 - 1)) = 0
    BY <1>1 DEF Firsts, Parts
  <2> QED
    BY <2>1, JoinedNone
<1>4. parts[1] \in Seq(Chars)
  BY <1>1 DEF Parts
<1>5. Records!Joined(Firsts(parts, 1)) = parts[1]
  <2>1. \A s \in Seq(Chars) : <<>> \o s = s
    OBVIOUS
  <2> QED
    BY <1>2, <1>3, <1>4, <2>1
<1> QED
  BY <1>1, <1>5, FirstsBegin

LEMMA AlignedRight == ASSUME AlignmentInv PROVE Records!AlignedTrue
<1>1. AlignmentTypes /\ Len(pieces) \in Nat /\ Len(text) \in Nat
  BY DEF AlignmentInv, AlignmentTypes, Parts
<1>2. Cover \in Parts /\ Len(Cover) = Len(pieces)
  BY <1>1, CoverType
<1>3. ~Dropped => Cover = pieces
  <2>1. SUFFICES ASSUME ~Dropped PROVE Cover = pieces
    OBVIOUS
  <2>2. Cover = [i \in 1..Len(pieces) |-> pieces[i]]
    BY <2>1 DEF Cover
  <2> QED
    BY <1>1, <2>2 DEF AlignmentTypes, Parts
<1>4. Dropped => Records!Joined(pieces) = <<Records!Blank>> \o Records!Joined(Cover)
  BY <1>1, SpaceBefore
<1>5. ASSUME verdict = "aligned"
      PROVE  /\ Records!Joined([i \in DOMAIN tokens |->
                    SubSeq(text, tokens[i].start + 1, tokens[i].end)]) = text
             /\ \A i \in DOMAIN tokens :
                  tokens[i].start = (IF i = 1 THEN 0 ELSE tokens[i - 1].end)
             /\ Records!Joined(pieces) \in {text, <<Records!Blank>> \o text}
             /\ Len(tokens) = Len(pieces) =>
                  /\ Records!Joined(Records!Normalized) = text
                  /\ \A i \in DOMAIN tokens :
                       Len(Records!Normalized[i]) = tokens[i].end - tokens[i].start
  <2>1. next = Len(pieces) + 1 /\ offset = Len(text) /\ next - 1 = Len(pieces)
    BY <1>1, <1>5 DEF AlignmentInv
  <2>2. SubSeq(text, 1, offset) = text
    BY <2>1 DEF AlignmentInv, AlignmentTypes
  <2>3. Firsts(Cover, next - 1) = Cover
    BY <1>2, <2>1 DEF Firsts, Parts
  <2>4. Records!Joined(Cover) = text /\ Records!Joined(Spans) = text
    BY <2>2, <2>3 DEF AlignmentInv
  <2>5. DOMAIN tokens = 1..Len(tokens)
    BY <1>1 DEF AlignmentTypes
  <2>6. \A i \in DOMAIN tokens :
          tokens[i].start = (IF i = 1 THEN 0 ELSE tokens[i - 1].end)
    BY <2>5 DEF AlignmentInv
  <2>7. Records!Joined(pieces) \in {text, <<Records!Blank>> \o text}
    BY <1>3, <1>4, <2>4
  <2>8. ASSUME Len(tokens) = Len(pieces)
        PROVE  /\ Records!Joined(Records!Normalized) = text
               /\ \A i \in DOMAIN tokens :
                    Len(Records!Normalized[i]) = tokens[i].end - tokens[i].start
    <3>1. ~(Dropped /\ Len(pieces[1]) = 1)
      <4>1. SUFFICES ASSUME Dropped, Len(pieces[1]) = 1 PROVE FALSE
        OBVIOUS
      <4>2. Len(pieces) > 0
        BY <1>1, <4>1, NoLength DEF AlignmentTypes, Parts, Dropped
      <4>3. Len(tokens) < next - 1
        BY <1>1, <2>1, <4>1, <4>2 DEF AlignmentInv
      <4> QED
        BY <1>1, <2>1, <2>8, <4>3
    <3>2. Records!Normalized = Cover
      <4>1. CASE ~Dropped
        <5>1. Records!Normalized = pieces
          BY <4>1 DEF Records!Normalized, Dropped
        <5> QED
          BY <1>3, <4>1, <5>1
      <4>2. CASE Dropped
        <5>1. pieces[1] \in Seq(Chars) /\ pieces[1] # <<>> /\ 1 \in 1..Len(pieces)
          <6>1. Len(pieces) > 0
            BY <1>1, <4>2, NoLength DEF AlignmentTypes, Parts, Dropped
          <6>2. 1 \in 1..Len(pieces)
            BY <1>1, <6>1
          <6> QED
            BY <1>1, <6>2 DEF AlignmentTypes, Parts
        <5>2. Len(pieces[1]) > 1
          BY <3>1, <4>2, <5>1, NoLength, LenProperties
        <5>3. Records!Normalized = [pieces EXCEPT ![1] = Tail(@)]
          BY <4>2, <5>2 DEF Records!Normalized, Dropped
        <5>4. pieces \in Seq(Seq(Chars))
          BY <1>1 DEF AlignmentTypes, Parts
        <5>5. DOMAIN pieces = 1..Len(pieces)
          BY <5>4
        <5> QED
          BY <4>2, <5>1, <5>3, <5>4, <5>5 DEF Cover
      <4> QED
        BY <4>1, <4>2
    <3>3. \A i \in 1..Len(tokens) : tokens[i].end - tokens[i].start = Len(Cover[i])
      BY <3>1 DEF AlignmentInv
    <3> QED
      BY <2>4, <2>5, <3>2, <3>3
  <2> QED
    BY <2>4, <2>6, <2>7, <2>8 DEF Spans
<1>6. ASSUME verdict = "mismatch"
      PROVE  IF dummy THEN Records!Joined(pieces) = <<Records!Blank>> \o text
                             => Records!StartsWith(text, pieces[1])
                      ELSE Records!Joined(pieces) # text
  <2>1. Records!Joined(Cover) # text
    BY <1>6 DEF AlignmentInv
  <2>2. ASSUME Len(pieces) = 0
        PROVE  Records!Joined(pieces) = <<>>
    BY <1>1, <2>2, JoinedNone DEF AlignmentTypes
  <2>3. text # <<>> /\ text \in Seq(Chars) /\ <<Records!Blank>> \o text # <<>>
    BY <1>1, NoLength DEF AlignmentTypes
  <2>4. CASE dummy
    <3>1. SUFFICES ASSUME Records!Joined(pieces) = <<Records!Blank>> \o text,
                          ~Records!StartsWith(text, pieces[1])
                   PROVE  FALSE
      BY <2>4
    <3>2. Len(pieces) > 0 /\ pieces \in Parts /\ pieces # <<>>
      BY <1>1, <2>2, <2>3, <3>1 DEF AlignmentTypes
    <3>3. pieces[1] \in Seq(Chars) /\ pieces[1] # <<>> /\ Len(pieces[1]) \in Nat
      <4>1. 1 \in 1..Len(pieces)
        BY <1>1, <3>2
      <4> QED
        BY <1>1, <4>1 DEF AlignmentTypes, Parts
    <3> DEFINE whole == <<Records!Blank>> \o text
    <3>4. Len(pieces[1]) <= Len(whole) /\ SubSeq(whole, 1, Len(pieces[1])) = pieces[1]
      BY <3>1, <3>2, FirstPiece
    <3>5. /\ whole \in Seq(Chars) /\ Len(whole) = Len(text) + 1
          /\ whole[1] = Records!Blank
          /\ \A i \in 1..Len(text) : whole[i + 1] = text[i]
      <4>1. <<Records!Blank>> \in Seq(Chars)
        BY DEF Chars
      <4> QED
        BY <2>3, <4>1
    <3> HIDE DEF whole
    <3>6. Len(pieces[1]) > 0
      BY <3>3, NoLength
    <3>7. \A i \in 1..Len(pieces[1]) : pieces[1][i] = whole[i]
      BY <3>3, <3>4, <3>5
    <3>8. pieces[1][1] = Records!Blank
      BY <3>3, <3>5, <3>6, <3>7
    <3>9. Records!StartsWith(text, Tail(pieces[1]))
      <4> DEFINE t == Tail(pieces[1])
      <4>1. /\ t \in Seq(Chars) /\ Len(t) = Len(pieces[1]) - 1
            /\ \A i \in 1..Len(t) : t[i] = pieces[1][i + 1]
        BY <3>3
      <4> HIDE DEF t
      <4>2. Len(t) <= Len(text) /\ Len(t) \in Nat
        BY <1>1, <3>3, <3>4, <3>5, <4>1
      <4>3. \A i \in 1..Len(t) : t[i] = text[i]
        <5>1. ASSUME NEW i \in 1..Len(t) PROVE t[i] = text[i]
          <6>1. i + 1 \in 1..Len(pieces[1]) /\ i \in 1..Len(text)
            BY <1>1, <3>3, <4>1, <4>2
          <6> QED
            BY <3>5, <3>7, <4>1, <6>1
        <5> QED
          BY <5>1
      <4>4. SubSeq(text, 1, Len(t)) = t
        BY <2>3, <4>1, <4>2, <4>3
      <4> QED
        BY <4>2, <4>4 DEF Records!StartsWith, t
    <3>10. Dropped
      BY <3>1, <3>2, <3>8, <3>9 DEF Dropped, Records!HasDummyPrefix
    <3>11. Records!Joined(Cover) \in Seq(Chars)
      BY <1>2, JoinedType
    <3>12. <<Records!Blank>> \o Records!Joined(Cover) = <<Records!Blank>> \o text
      BY <1>4, <3>1, <3>10
    <3> QED
      BY <2>1, <2>3, <3>11, <3>12, SameBehind
  <2>5. CASE ~dummy
    <3>1. SUFFICES ASSUME Records!Joined(pieces) = text PROVE FALSE
      BY <2>5
    <3>2. Len(pieces) > 0 /\ pieces \in Parts /\ pieces # <<>>
      BY <1>1, <2>2, <2>3, <3>1 DEF AlignmentTypes
    <3>3. Records!StartsWith(text, pieces[1])
      BY <3>1, <3>2, FirstPiece DEF Records!StartsWith
    <3>4. ~Dropped
      BY <3>3 DEF Dropped, Records!HasDummyPrefix
    <3> QED
      BY <1>3, <2>1, <3>1, <3>4
  <2> QED
    BY <2>4, <2>5
<1> QED
  BY <1>5, <1>6 DEF Records!AlignedTrue

-----------------------------------------------------------------------------
AlignmentAlways == group = "alignment" => AlignmentInv

\* What is aligned is the same text for the pieces, the tokens and the source,
\* whichever pieces the tokenizer made (jsonl.cc:147-208).
LEMMA AlignmentInvariance == MCSpec => []AlignmentAlways
<1>1. MCInit => AlignmentAlways
  BY AlignmentStart DEF MCInit, AlignmentAlways
<1>2. MCNext \/ UNCHANGED all =>
        group' = group /\ (group = "alignment" =>
                             Records!AlignTokens \/ UNCHANGED alignmentVars)
  BY DEF MCNext, all
<1>3. AlignmentInv /\ (Records!AlignTokens \/ UNCHANGED alignmentVars) => AlignmentInv'
  BY AlignmentStep
<1>4. AlignmentAlways /\ [MCNext]_all => AlignmentAlways'
  BY <1>2, <1>3 DEF AlignmentAlways
<1> QED BY <1>1, <1>4, PTL DEF MCSpec

\* Records are aligned only with the source they are of, and then the tokens
\* tile it, for every alphabet, every text and every way to cut it: those of
\* the source are, unless the tokenizer's space could be its own, and what is
\* published spells the source (jsonl.cc:147-208, analyze.cc:276-282).
THEOREM AlwaysAlignedTrue == MCSpec => []AlignedTrue
<1>1. AlignmentAlways => AlignedTrue
  BY AlignedRight DEF AlignmentAlways, AlignedTrue
<1> QED BY <1>1, AlignmentInvariance, PTL

LEMMA CoreCounts == \A S : Core!Cardinality(S) = Cardinality(S)
BY DEF Core!Cardinality, Cardinality

\* The lowest of some numbers, and the highest where they have a bound.
LEMMA LowestIs ==
  ASSUME NEW S \in SUBSET Nat, S # {}
  PROVE  /\ Core!Lowest(S) \in S /\ Core!Lowest(S) \in Nat
         /\ \A y \in S : Core!Lowest(S) <= y
<1>1. \E x \in S : \A y \in S : ~(<<y, x>> \in OpToRel(<, Nat))
  BY WFMin, NatLessThanWellFounded
<1>2. PICK x \in S : \A y \in S : ~(<<y, x>> \in OpToRel(<, Nat))
  BY <1>1
<1>3. \A y \in S : ~(y < x)
  BY <1>2 DEF OpToRel
<1>4. \A y \in S : x <= y
  BY <1>3
<1>5. Core!Lowest(S) \in S /\ \A y \in S : Core!Lowest(S) <= y
  BY <1>4, Zenon DEF Core!Lowest
<1> QED
  BY <1>5

LEMMA HighestIs ==
  ASSUME NEW S \in SUBSET Nat, S # {}, NEW top \in Nat, \A y \in S : y <= top
  PROVE  /\ Core!Highest(S) \in S /\ Core!Highest(S) \in Nat
         /\ \A y \in S : y <= Core!Highest(S)
<1> DEFINE Gaps == {g \in Nat : top - g \in S}
<1>1. Gaps # {}
  <2>1. PICK y \in S : TRUE
    OBVIOUS
  <2>2. top - y \in Nat /\ top - (top - y) = y
    OBVIOUS
  <2> QED
    BY <2>1, <2>2
<1>2. PICK g \in Gaps : \A h \in Gaps : g <= h
  BY <1>1, LowestIs
<1>3. ASSUME NEW y \in S PROVE y <= top - g
  <2>1. top - y \in Nat /\ top - (top - y) = y
    OBVIOUS
  <2>2. g <= top - y
    BY <1>2, <2>1
  <2> QED
    BY <2>2
<1>4. \E x \in S : \A y \in S : y <= x
  BY <1>2, <1>3
<1>5. Core!Highest(S) \in S /\ \A y \in S : y <= Core!Highest(S)
  BY <1>4, Zenon DEF Core!Highest
<1> QED
  BY <1>5

LEMMA HighestIsThe ==
  ASSUME NEW S \in SUBSET Nat, NEW x \in S, \A y \in S : y <= x
  PROVE  Core!Highest(S) = x
<1>1. Core!Highest(S) \in S /\ Core!Highest(S) \in Nat /\ x <= Core!Highest(S) /\ x \in Nat
  BY HighestIs
<1>2. Core!Highest(S) <= x
  BY <1>1
<1> QED
  BY ONLY <1>1, <1>2

\* Finitely many numbers have a bound.
LEMMA FiniteBound ==
  ASSUME NEW S \in SUBSET Nat, IsFiniteSet(S)
  PROVE  \E top \in Nat : \A y \in S : y <= top
<1> DEFINE T == {n \in Nat : \A R \in SUBSET Nat :
                    IsFiniteSet(R) /\ Cardinality(R) = n
                      => \E top \in Nat : \A y \in R : y <= top}
<1>1. 0 \in T
  <2>1. ASSUME NEW R \in SUBSET Nat, IsFiniteSet(R), Cardinality(R) = 0
        PROVE  \E top \in Nat : \A y \in R : y <= top
    BY <2>1, FS_EmptySet
  <2> QED
    BY <2>1
<1>2. ASSUME NEW n \in Nat, n \in T PROVE n + 1 \in T
  <2>1. ASSUME NEW R \in SUBSET Nat, IsFiniteSet(R), Cardinality(R) = n + 1
        PROVE  \E top \in Nat : \A y \in R : y <= top
    <3>1. R # {}
      BY <2>1, FS_EmptySet
    <3>2. PICK x \in R : TRUE
      BY <3>1
    <3>3. R \ {x} \in SUBSET Nat /\ IsFiniteSet(R \ {x}) /\ Cardinality(R \ {x}) = n
      <4>1. IsFiniteSet(R \ {x}) /\ Cardinality(R \ {x}) = Cardinality(R) - 1
        BY <2>1, <3>2, FS_RemoveElement
      <4> QED
        BY <2>1, <4>1
    <3>4. PICK t \in Nat : \A y \in R \ {x} : y <= t
      BY <1>2, <3>3
    <3>5. \A y \in R : y <= t + x
      BY <3>4
    <3>6. t + x \in Nat
      BY <3>2
    <3> QED
      BY <3>5, <3>6
  <2>2. n + 1 \in Nat
    OBVIOUS
  <2> QED
    BY <2>1, <2>2
<1> HIDE DEF T
<1>3. \A n \in Nat : n \in T
  BY <1>1, <1>2, Counting
<1>4. Cardinality(S) \in T
  BY <1>3, FS_CardinalityType
<1> QED
  BY <1>4 DEF T

\* A finite set of numbers in their order.
InItsOrder(s, S) ==
  /\ s \in [1..Cardinality(S) -> S]
  /\ \A i, j \in DOMAIN s : i < j => s[i] < s[j]

LEMMA OrderExists ==
  ASSUME NEW S \in SUBSET Nat, IsFiniteSet(S)
  PROVE  \E s : InItsOrder(s, S)
<1> DEFINE T == {n \in Nat : \A R \in SUBSET Nat :
                    IsFiniteSet(R) /\ Cardinality(R) = n => \E s : InItsOrder(s, R)}
<1>1. 0 \in T
  <2>1. ASSUME NEW R \in SUBSET Nat, IsFiniteSet(R), Cardinality(R) = 0
        PROVE  \E s : InItsOrder(s, R)
    <3>1. [i \in 1..0 |-> 0] \in [1..0 -> R] /\ DOMAIN [i \in 1..0 |-> 0] = {}
      OBVIOUS
    <3>2. InItsOrder([i \in 1..0 |-> 0], R)
      BY <2>1, <3>1 DEF InItsOrder
    <3> QED
      BY <3>2
  <2> QED
    BY <2>1
<1>2. ASSUME NEW n \in Nat, n \in T PROVE n + 1 \in T
  <2>1. ASSUME NEW R \in SUBSET Nat, IsFiniteSet(R), Cardinality(R) = n + 1
        PROVE  \E s : InItsOrder(s, R)
    <3>1. R # {}
      BY <2>1, FS_EmptySet
    <3>2. PICK x \in R : \A y \in R : y <= x
      BY <2>1, <3>1, FiniteBound, HighestIs
    <3> DEFINE Q == R \ {x}
    <3>3. Q \in SUBSET Nat /\ IsFiniteSet(Q) /\ Cardinality(Q) = n
      <4>1. IsFiniteSet(Q) /\ Cardinality(Q) = Cardinality(R) - 1
        BY <2>1, <3>2, FS_RemoveElement
      <4> QED
        BY <2>1, <4>1
    <3>4. PICK s : InItsOrder(s, Q)
      BY <1>2, <3>3
    <3>5. s \in [1..n -> Q] /\ \A i, j \in 1..n : i < j => s[i] < s[j]
      BY <3>3, <3>4 DEF InItsOrder
    <3> DEFINE t == [i \in 1..(n + 1) |-> IF i = n + 1 THEN x ELSE s[i]]
    <3>6. ASSUME NEW i \in 1..n PROVE t[i] = s[i] /\ s[i] \in R /\ s[i] < x
      <4>1. s[i] \in Q
        BY <3>5
      <4>2. s[i] <= x /\ s[i] # x /\ s[i] \in Nat /\ x \in Nat
        BY <3>2, <4>1
      <4> QED
        BY <4>1, <4>2
    <3>7. t[n + 1] = x /\ DOMAIN t = 1..(n + 1)
      OBVIOUS
    <3>8. \A i \in 1..(n + 1) : i \in 1..n \/ i = n + 1
      OBVIOUS
    <3>9. \A i \in 1..(n + 1) : t[i] \in R
      BY <3>2, <3>6, <3>7, <3>8
    <3>10. t \in [1..(n + 1) -> R]
      BY <3>9
    <3>11. ASSUME NEW i \in 1..(n + 1), NEW j \in 1..(n + 1), i < j PROVE t[i] < t[j]
      <4>1. i \in 1..n
        BY <3>11
      <4>2. CASE j \in 1..n
        BY <3>5, <3>6, <3>11, <4>1, <4>2
      <4>3. CASE j = n + 1
        BY <3>6, <3>7, <4>1, <4>3
      <4> QED
        BY <3>8, <4>2, <4>3
    <3>12. InItsOrder(t, R)
      BY <2>1, <3>7, <3>10, <3>11 DEF InItsOrder
    <3> QED
      BY <3>12
  <2>2. n + 1 \in Nat
    OBVIOUS
  <2> QED
    BY <2>1, <2>2
<1> HIDE DEF T
<1>3. \A n \in Nat : n \in T
  BY <1>1, <1>2, Counting
<1>4. Cardinality(S) \in T
  BY <1>3, FS_CardinalityType
<1> QED
  BY <1>4 DEF T

LEMMA SortedIs ==
  ASSUME NEW S \in SUBSET Nat, IsFiniteSet(S)
  PROVE  /\ Core!Sorted(S) \in [1..Cardinality(S) -> S]
         /\ \A i, j \in 1..Cardinality(S) : i < j => Core!Sorted(S)[i] < Core!Sorted(S)[j]
         /\ \A x \in S : \E i \in 1..Cardinality(S) : Core!Sorted(S)[i] = x
         /\ Cardinality(S) \in Nat
<1> DEFINE s == Core!Sorted(S)
<1> DEFINE n == Cardinality(S)
<1>1. InItsOrder(s, S)
  <2>1. s = CHOOSE r \in [1..n -> S] : \A i, j \in DOMAIN r : i < j => r[i] < r[j]
    BY CoreCounts DEF Core!Sorted
  <2> QED
    BY <2>1, OrderExists, Zenon DEF InItsOrder
<1> HIDE DEF s
<1>2. s \in [1..n -> S] /\ \A i, j \in 1..n : i < j => s[i] < s[j]
  BY <1>1 DEF InItsOrder
<1>3. n \in Nat
  BY FS_CardinalityType
<1>4. ASSUME NEW i \in 1..n, NEW j \in 1..n, s[i] = s[j] PROVE i = j
  <2>1. s[i] \in Nat
    BY <1>2
  <2>2. i < j \/ j < i \/ i = j
    BY <1>3
  <2> QED
    BY <1>2, <1>4, <2>1, <2>2
<1>5. s \in Injection(1..n, S)
  BY <1>2, <1>4 DEF Injection, IsInjective
<1>6. IsFiniteSet(1..n) /\ Cardinality(1..n) = n
  BY <1>3, FS_Interval
<1>7. s \in Surjection(1..n, S)
  BY <1>5, <1>6, FS_Injection
<1>8. \A x \in S : \E i \in 1..n : s[i] = x
  BY <1>7 DEF Surjection
<1> QED
  BY <1>2, <1>3, <1>8 DEF s

Event == [start : Nat, end : Nat, depth : Nat]
CodeRange == [start : Nat, end : Nat]

\* The source, as the parser and the tokenizer hand it over.
SourceInv ==
  /\ ends \in Seq(Nat) /\ Len(ends) > 0 /\ ends[1] > 0
  /\ \A i, j \in 1..Len(ends) : i < j => ends[i] < ends[j]
  /\ lines \in SUBSET Nat /\ 0 \in lines
  /\ events \in Seq(Event)
  /\ \A i \in 1..Len(events) : events[i].depth \in Depths
  /\ \A i, j \in 1..Len(events) : i < j => events[i].start <= events[j].start
  /\ ranges \in Seq(CodeRange)
  /\ \A i \in 1..Len(ranges) :
       ranges[i].start < ranges[i].end /\ ranges[i].end <= Core!SourceEnd
  /\ \A i, j \in 1..Len(ranges) : i < j => ranges[i].end <= ranges[j].start
  /\ mode \in {"structural", "reference"}
  /\ step \in {"detect", "scan", "build", "done"}

\* The first interval that has a unit.
FirstInterval ==
  IF mode = "reference" /\ Core!SourceStartToken \notin Core!Markers THEN 2 ELSE 1

Units == [start : Nat, end : Nat, depth : Nat]

\* Where the scan is: before the interval that is next.
ScanStart == Core!Start(indices[interval])

\* What is passed is behind the scan, and what is in the queue covers it.
PassedInv ==
  /\ interval \in FirstInterval..Len(indices)
  /\ rangeIndex \in 1..(Len(ranges) + 1)
  /\ \A r \in 1..(rangeIndex - 1) : ranges[r].end <= ScanStart
  /\ eventIndex \in 1..(Len(events) + 1)
  /\ \A e \in 1..(eventIndex - 1) : events[e].start <= ScanStart
  /\ ending \subseteq 1..(eventIndex - 1)
  /\ \A e \in (1..(eventIndex - 1)) \ ending : events[e].end <= ScanStart
  /\ active = [d \in Depths |-> Cardinality({e \in ending : events[e].depth = d})]

\* A unit is in its interval.
InInterval(unit, i) ==
  /\ Core!Start(indices[i]) <= unit.start /\ unit.start < Core!Start(indices[i + 1])
  /\ unit.end <= Core!Start(indices[i + 1])

UnitsInv ==
  /\ units \in Seq(Units)
  /\ \A n \in 1..Len(units) : \E i \in FirstInterval..(interval - 1) : InInterval(units[n], i)
  /\ \A n, m \in 1..Len(units) : n < m => units[n].end <= units[m].start
  /\ \A byte \in Nat :
       Core!Meaningful(byte) /\ Core!Start(indices[FirstInterval]) <= byte /\ byte < ScanStart
         => \E n \in 1..Len(units) : Core!Covers(units[n], byte)
  /\ \A n \in 1..Len(units) : units[n].depth =
       Core!Highest({0} \cup {events[e].depth :
          e \in {e \in DOMAIN events : Core!Covers(events[e], units[n].start)}})

ScanInv ==
  /\ step = "detect" =>
       /\ eventIndex = 1 /\ rangeIndex = 1 /\ ending = {}
       /\ active = [d \in Depths |-> 0] /\ units = <<>>
  /\ step # "detect" => indices = Core!Sorted(Core!Boundaries) /\ PassedInv /\ UnitsInv

\* The units that are in the tree of one, and the nearest one less deep.
Span(n) == {m \in n..Len(units) : \A k \in (n + 1)..m : units[n].depth < units[k].depth}
Nearest(n) ==
  Core!Highest({0} \cup {m \in 1..(n - 1) : units[m].depth < units[n].depth})

Nodes == [start : Nat, end : Nat, depth : Nat, parent : Nat, level : Nat]

NodesInv ==
  /\ arena \in Seq(Nodes) /\ Len(arena) <= Len(units)
  /\ \A n \in 1..Len(arena) :
       /\ arena[n].start = units[n].start /\ arena[n].depth = units[n].depth
       /\ arena[n].parent = Nearest(n)
       /\ arena[n].level = IF arena[n].parent = 0 THEN 2 ELSE arena[arena[n].parent].level + 1
       /\ arena[n].end = IF step = "done" THEN Core!Highest({units[m].end : m \in Span(n)})
                         ELSE units[n].end

\* The stack is as deep as the unit on its top, and holds each that may have
\* children yet.
StackInv ==
  /\ stack \in Seq(Nat)
  /\ \A i \in 1..Len(stack) : stack[i] \in 1..Len(arena)
  /\ \A i, j \in 1..Len(stack) : i < j =>
       stack[i] < stack[j] /\ units[stack[i]].depth < units[stack[j]].depth
  /\ \A m \in 1..Len(arena) :
       (\A k \in (m + 1)..Len(arena) : units[m].depth < units[k].depth)
         => \E i \in 1..Len(stack) : stack[i] = m

StageInv ==
  /\ step \in {"detect", "scan"} => arena = <<>> /\ stack = <<>>
  /\ step \in {"build", "done"} => interval = Len(indices)
  /\ step = "done" => \/ Len(arena) = Len(units)
                      \/ arena = <<>> /\ Len(units) = 1 /\ mode = "structural"

TreeInv == NodesInv /\ StackInv /\ StageInv

HierarchyInv == SourceInv /\ ScanInv /\ TreeInv
HierarchyAlways == group = "hierarchy" => HierarchyInv

LEMMA Starts ==
  ASSUME SourceInv
  PROVE  /\ Len(ends) \in Nat /\ Len(ends) >= 1 /\ Core!Tokens = 1..Len(ends)
         /\ \A t \in 1..(Len(ends) + 1) : Core!Start(t) \in Nat
         /\ \A t, u \in 1..(Len(ends) + 1) : t < u => Core!Start(t) < Core!Start(u)
         /\ Core!Start(1) = 0 /\ Core!Start(Len(ends) + 1) = Core!SourceEnd
         /\ \A t \in 1..Len(ends) : ends[t] = Core!Start(t + 1) /\ ends[t] \in Nat
         /\ Core!SourceEnd \in Nat /\ Core!SourceEnd > 0
<1>1. /\ Len(ends) \in Nat /\ Len(ends) >= 1 /\ DOMAIN ends = 1..Len(ends)
      /\ \A t \in 1..Len(ends) : ends[t] \in Nat
  BY DEF SourceInv
<1>2. \A t \in 1..Len(ends) : ends[t] > 0
  <2>1. ASSUME NEW t \in 1..Len(ends) PROVE ends[t] > 0
    <3>1. 1 \in 1..Len(ends) /\ ends[1] > 0 /\ (t = 1 \/ 1 < t)
      BY <1>1 DEF SourceInv
    <3>2. 1 < t => ends[1] < ends[t]
      BY <3>1 DEF SourceInv
    <3> QED
      BY <1>1, <3>1, <3>2
  <2> QED
    BY <2>1
<1>3. \A t \in 1..(Len(ends) + 1) : t = 1 \/ t - 1 \in 1..Len(ends)
  BY <1>1
<1>4. \A t \in 1..(Len(ends) + 1) : Core!Start(t) = IF t = 1 THEN 0 ELSE ends[t - 1]
  BY DEF Core!Start
<1>5. \A t \in 1..(Len(ends) + 1) : Core!Start(t) \in Nat
  BY <1>1, <1>3, <1>4
<1>6. ASSUME NEW t \in 1..(Len(ends) + 1), NEW u \in 1..(Len(ends) + 1), t < u
      PROVE  Core!Start(t) < Core!Start(u)
  <2>1. u # 1 /\ u - 1 \in 1..Len(ends) /\ Core!Start(u) = ends[u - 1]
    BY <1>3, <1>4, <1>6
  <2>2. CASE t = 1
    BY <1>1, <1>2, <1>4, <2>1, <2>2
  <2>3. CASE t # 1
    <3>1. t - 1 \in 1..Len(ends) /\ t - 1 < u - 1 /\ Core!Start(t) = ends[t - 1]
      BY <1>3, <1>4, <1>6, <2>3
    <3>2. ends[t - 1] < ends[u - 1]
      BY <2>1, <3>1 DEF SourceInv
    <3> QED
      BY <2>1, <3>1, <3>2
  <2> QED
    BY <2>2, <2>3
<1>7. Core!Start(1) = 0
  BY DEF Core!Start
<1>8. \A t \in 1..Len(ends) : ends[t] = Core!Start(t + 1)
  <2>1. ASSUME NEW t \in 1..Len(ends) PROVE ends[t] = Core!Start(t + 1)
    <3>1. t + 1 # 1 /\ (t + 1) - 1 = t
      BY <1>1
    <3> QED
      BY <3>1 DEF Core!Start
  <2> QED
    BY <2>1
<1>9. Core!SourceEnd = ends[Len(ends)] /\ Len(ends) \in 1..Len(ends)
  BY <1>1 DEF Core!SourceEnd
<1> QED
  BY <1>1, <1>2, <1>5, <1>6, <1>7, <1>8, <1>9 DEF Core!Tokens

LEMMA Overlapping ==
  ASSUME SourceInv, NEW byte \in Nat, byte < Core!SourceEnd
  PROVE  /\ Core!FirstOverlappingToken(byte) \in 1..Len(ends)
         /\ Core!Start(Core!FirstOverlappingToken(byte)) <= byte
         /\ byte < Core!Start(Core!FirstOverlappingToken(byte) + 1)
<1> DEFINE S == {t \in 1..Len(ends) : ends[t] > byte} \cup {Len(ends) + 1}
<1> DEFINE f == Core!FirstOverlappingToken(byte)
<1>1. Len(ends) \in Nat /\ Len(ends) >= 1
  BY Starts
<1>2. Core!FirstOverlappingToken(byte) = Core!Lowest(S)
  BY Starts DEF Core!FirstOverlappingToken
<1>3. S \in SUBSET Nat /\ Len(ends) \in S
  <2>1. ends[Len(ends)] > byte
    BY DEF Core!SourceEnd
  <2> QED
    BY <1>1, <2>1
<1>4. f \in S /\ \A y \in S : f <= y
  BY <1>2, <1>3, LowestIs
<1> HIDE DEF f
<1>5. f \in 1..Len(ends) /\ ends[f] > byte
  BY <1>1, <1>3, <1>4
<1>6. byte < Core!Start(f + 1)
  BY <1>5, Starts
<1>7. CASE f = 1
  BY <1>5, <1>6, <1>7, Starts DEF f
<1>8. CASE f # 1
  <2>1. f - 1 \in 1..Len(ends) /\ ~(f <= f - 1)
    BY <1>5, <1>8
  <2>2. ~(ends[f - 1] > byte) /\ ends[f - 1] \in Nat
    BY <1>4, <2>1, Starts
  <2>3. Core!Start(f) = ends[f - 1]
    BY <1>8 DEF Core!Start
  <2> QED
    BY <1>5, <1>6, <2>2, <2>3 DEF f
<1> QED
  BY <1>7, <1>8

LEMMA IndexAt ==
  ASSUME SourceInv, NEW byte \in Nat, byte <= Core!SourceEnd
  PROVE  /\ Core!TokenIndexAt(byte) \in 1..(Len(ends) + 1)
         /\ byte <= Core!Start(Core!TokenIndexAt(byte))
         /\ Core!TokenIndexAt(byte) # 1 => Core!Start(Core!TokenIndexAt(byte) - 1) < byte
<1> DEFINE S == {t \in 1..Len(ends) : ends[t] >= byte} \cup {Len(ends) + 1}
<1> DEFINE f == Core!Lowest(S)
<1>1. Len(ends) \in Nat /\ Len(ends) >= 1
  BY Starts
<1>2. Core!TokenIndexAt(byte) =
        IF f \in 1..Len(ends) /\ Core!Start(f) < byte THEN f + 1 ELSE f
  BY Starts DEF Core!TokenIndexAt
<1>3. S \in SUBSET Nat /\ Len(ends) \in S
  <2>1. ends[Len(ends)] >= byte
    BY Starts DEF Core!SourceEnd
  <2> QED
    BY <1>1, <2>1
<1>4. f \in S /\ \A y \in S : f <= y
  BY <1>3, LowestIs
<1> HIDE DEF f
<1>5. f \in 1..Len(ends) /\ ends[f] >= byte
  BY <1>1, <1>3, <1>4
<1>6. byte <= Core!Start(f + 1)
  BY <1>5, Starts
<1>7. CASE Core!Start(f) < byte
  <2>1. Core!TokenIndexAt(byte) = f + 1 /\ f + 1 # 1 /\ (f + 1) - 1 = f /\ f + 1 \in 1..(Len(ends) + 1)
    BY <1>1, <1>2, <1>5, <1>7
  <2> QED
    BY <1>6, <1>7, <2>1
<1>8. CASE ~(Core!Start(f) < byte)
  <2>0. f \in 1..(Len(ends) + 1)
    BY <1>1, <1>5
  <2>1. Core!TokenIndexAt(byte) = f /\ byte <= Core!Start(f)
    BY <1>2, <1>8, <2>0, Starts
  <2>2. f = 1
    <3>1. SUFFICES ASSUME f # 1 PROVE FALSE
      OBVIOUS
    <3>2. f - 1 \in 1..Len(ends) /\ ~(f <= f - 1)
      BY <1>5, <3>1
    <3>3. ends[f - 1] = Core!Start(f)
      BY <3>1 DEF Core!Start
    <3> QED
      BY <1>4, <2>1, <3>2, <3>3
  <2> QED
    BY <2>0, <2>1, <2>2
<1> QED
  BY <1>7, <1>8

\* The code begins in one token and ends before a later one.
LEMMA SourceSpan ==
  ASSUME SourceInv
  PROVE  /\ Core!MeaningfulStart \in Nat /\ Core!MeaningfulEnd \in Nat
         /\ Core!MeaningfulEnd <= Core!SourceEnd
         /\ Core!SourceStartToken \in 1..Len(ends)
         /\ Core!SourceEndToken \in 1..(Len(ends) + 1)
         /\ Core!SourceStartToken < Core!SourceEndToken
         /\ Core!Start(Core!SourceStartToken) <= Core!MeaningfulStart
         /\ Core!MeaningfulEnd <= Core!Start(Core!SourceEndToken)
         /\ Core!Start(Core!SourceEndToken - 1) < Core!MeaningfulEnd
<1> DEFINE s == Core!SourceStartToken
<1> DEFINE e == Core!SourceEndToken
<1>1. /\ Core!MeaningfulStart \in Nat /\ Core!MeaningfulEnd \in Nat
      /\ Core!MeaningfulStart < Core!MeaningfulEnd /\ Core!MeaningfulEnd <= Core!SourceEnd
  <2>1. CASE ranges = <<>>
    BY <2>1, Starts DEF Core!MeaningfulStart, Core!MeaningfulEnd
  <2>2. CASE ranges # <<>>
    <3> DEFINE n == Len(ranges)
    <3>1. n \in Nat /\ n # 0
      BY <2>2, NoLength DEF SourceInv
    <3>2. 1 \in 1..n /\ n \in 1..n
      BY <3>1
    <3>3. \A i \in 1..n : ranges[i] \in CodeRange
      BY ElementsAre DEF SourceInv
    <3>4. /\ ranges[1].start \in Nat /\ ranges[1].end \in Nat
          /\ ranges[n].start \in Nat /\ ranges[n].end \in Nat
      BY <3>2, <3>3 DEF CodeRange
    <3>5. /\ ranges[1].start < ranges[1].end /\ ranges[n].start < ranges[n].end
          /\ ranges[n].end <= Core!SourceEnd
      BY <3>2 DEF SourceInv
    <3>6. 1 < n => ranges[1].end <= ranges[n].start
      BY <3>2 DEF SourceInv
    <3>7. ranges[1].start < ranges[n].end
      BY <3>1, <3>4, <3>5, <3>6
    <3> QED
      BY <2>2, <3>4, <3>5, <3>7 DEF Core!MeaningfulStart, Core!MeaningfulEnd
  <2> QED
    BY <2>1, <2>2
<1>2. /\ s \in 1..Len(ends) /\ Core!Start(s) <= Core!MeaningfulStart
  BY <1>1, Overlapping, Starts DEF Core!SourceStartToken
<1>3. /\ e \in 1..(Len(ends) + 1) /\ Core!MeaningfulEnd <= Core!Start(e)
      /\ e # 1 => Core!Start(e - 1) < Core!MeaningfulEnd
  BY <1>1, IndexAt DEF Core!SourceEndToken
<1> HIDE DEF s, e
<1>4. s < e
  <2>1. s \in 1..(Len(ends) + 1) /\ Core!Start(s) \in Nat /\ Core!Start(e) \in Nat
    BY <1>2, <1>3, Starts
  <2>2. Core!Start(s) < Core!Start(e)
    BY <1>1, <1>2, <1>3, <2>1
  <2>3. ~(e < s) /\ e # s
    BY <1>3, <2>1, <2>2, Starts
  <2> QED
    BY <1>2, <1>3, <2>3, Starts
<1> QED
  BY <1>1, <1>2, <1>3, <1>4 DEF s, e

LEMMA OnLine ==
  ASSUME SourceInv, NEW t \in 1..Len(ends)
  PROVE  /\ Core!LineOf(t) \in Nat
         /\ Core!FirstTokenOnLine(t) \in 1..t
         /\ Core!LineOf(t) <= Core!Start(Core!FirstTokenOnLine(t))
         /\ Core!LineOf(t) <= Core!Start(t)
<1> DEFINE L == {line \in lines : line <= Core!Start(t)}
<1>1. t \in 1..(Len(ends) + 1) /\ Core!Start(t) \in Nat /\ Len(ends) \in Nat
  BY Starts
<1>2. L \in SUBSET Nat /\ 0 \in L
  <2>1. lines \in SUBSET Nat /\ 0 \in lines
    BY DEF SourceInv
  <2>2. 0 <= Core!Start(t)
    BY <1>1
  <2> QED
    BY <2>1, <2>2
<1>3. Core!LineOf(t) \in L /\ Core!LineOf(t) \in Nat
  BY <1>1, <1>2, HighestIs DEF Core!LineOf
<1> DEFINE F == {u \in 1..Len(ends) : u <= t /\ (u = t \/ Core!Start(u) >= Core!LineOf(t))}
<1>4. Core!FirstTokenOnLine(t) = Core!Lowest(F)
  BY Starts DEF Core!FirstTokenOnLine
<1>5. F \in SUBSET Nat /\ t \in F
  BY <1>1
<1>6. Core!FirstTokenOnLine(t) \in F
  BY <1>4, <1>5, LowestIs
<1>7. /\ Core!FirstTokenOnLine(t) \in 1..Len(ends) /\ Core!FirstTokenOnLine(t) <= t
      /\ (Core!FirstTokenOnLine(t) = t \/ Core!Start(Core!FirstTokenOnLine(t)) >= Core!LineOf(t))
  BY <1>6
<1>8. Core!FirstTokenOnLine(t) \in 1..t
  BY <1>1, <1>7
<1>9. Core!Start(Core!FirstTokenOnLine(t)) \in Nat
  BY <1>1, <1>7, Starts
<1> QED
  BY <1>3, <1>7, <1>8, <1>9

\* Tokens of high entropy in the code that open a block, and where.
LEMMA OpenersAre ==
  ASSUME SourceInv, NEW t \in Core!Openers
  PROVE  /\ t \in 1..Len(ends)
         /\ Core!SourceStartToken <= t /\ t < Core!SourceEndToken
         /\ (IF Core!FirstTokenOnLine(t) < Core!SourceStartToken THEN Core!SourceStartToken
             ELSE Core!FirstTokenOnLine(t)) \in Core!Markers
<1>1. t \in Core!FirstOpener..(Core!SourceEndToken - 1)
  BY DEF Core!Openers
<1>2. /\ Core!SourceStartToken \in 1..Len(ends) /\ Core!SourceEndToken \in 1..(Len(ends) + 1)
      /\ Len(ends) \in Nat
  BY SourceSpan, Starts
<1>3. Core!FirstOpener \in {Core!SourceStartToken, Core!SourceStartToken + 1}
  BY <1>2 DEF Core!FirstOpener
<1>4. t \in 1..Len(ends) /\ Core!SourceStartToken <= t /\ t < Core!SourceEndToken
  BY <1>1, <1>2, <1>3
<1> QED
  BY <1>4 DEF Core!Markers

LEMMA BoundariesBetween ==
  ASSUME SourceInv
  PROVE  /\ Core!Boundaries \in SUBSET (Core!SourceStartToken..Core!SourceEndToken)
         /\ Core!Boundaries \in SUBSET Nat /\ IsFiniteSet(Core!Boundaries)
         /\ Core!SourceStartToken \in Core!Boundaries
         /\ Core!SourceEndToken \in Core!Boundaries
<1> DEFINE s == Core!SourceStartToken
<1> DEFINE e == Core!SourceEndToken
<1>1. s \in Nat /\ e \in Nat /\ s < e
  BY SourceSpan, Starts
<1>2. s \in Core!Boundaries /\ e \in Core!Boundaries
  BY DEF Core!Boundaries
<1>3. \A t \in Core!Openers : t \in 1..Len(ends)
  BY OpenersAre
<1>4. \A t \in Core!Openers : Core!FirstTokenOnLine(t) \in Nat
  BY <1>3, OnLine
<1>5. Core!Markers \subseteq Nat
  BY <1>1, <1>4 DEF Core!Markers
<1>6. ASSUME NEW i \in 1..Len(events) PROVE Core!TokenIndexAt(events[i].end) \in Int
  <2>1. events[i] \in Event
    BY ElementsAre DEF SourceInv
  <2> DEFINE S == {t \in 1..Len(ends) : ends[t] >= events[i].end} \cup {Len(ends) + 1}
  <2>2. S \in SUBSET Nat /\ S # {}
    BY Starts
  <2>3. Core!Lowest(S) \in Nat
    BY <2>2, LowestIs
  <2> HIDE DEF S
  <2>4. Core!TokenIndexAt(events[i].end) \in {Core!Lowest(S), Core!Lowest(S) + 1}
    BY Starts DEF Core!TokenIndexAt, S
  <2> QED
    BY <2>3, <2>4
<1>7. DOMAIN events = 1..Len(events)
  BY DEF SourceInv
<1>8. ASSUME NEW b \in Core!Boundaries PROVE b \in s..e
  <2>1. b = s \/ b = e \/ (s < b /\ b < e /\ (b \in Core!Markers \/ \E i \in DOMAIN events : b = Core!TokenIndexAt(events[i].end)))
    BY <1>8 DEF Core!Boundaries
  <2>2. b \in Int
    <3>1. CASE b \in Core!Markers
      BY <1>5, <3>1
    <3>2. CASE \E i \in DOMAIN events : b = Core!TokenIndexAt(events[i].end)
      BY <1>6, <1>7, <3>2
    <3> QED
      BY <1>1, <2>1, <3>1, <3>2
  <2> QED
    BY <1>1, <2>1, <2>2
<1>9. Core!Boundaries \in SUBSET (s..e)
  BY <1>8
<1>10. IsFiniteSet(s..e) /\ s..e \subseteq Nat
  BY <1>1, FS_Interval
<1> QED
  BY <1>2, <1>9, <1>10, FS_Subset

\* The line of a marker begins with a boundary.
LEMMA MarkerBoundary ==
  ASSUME SourceInv, NEW t \in Core!Openers
  PROVE  \E b \in Core!Boundaries : b <= t /\ Core!LineOf(t) <= Core!Start(b)
<1> DEFINE s == Core!SourceStartToken
<1> DEFINE e == Core!SourceEndToken
<1> DEFINE f == Core!FirstTokenOnLine(t)
<1>1. s \in 1..Len(ends) /\ e \in 1..(Len(ends) + 1) /\ Len(ends) \in Nat
  BY SourceSpan, Starts
<1>2. t \in 1..Len(ends) /\ s <= t /\ t < e
  BY OpenersAre
<1>3. f \in 1..t /\ Core!LineOf(t) <= Core!Start(f) /\ Core!LineOf(t) \in Nat
  BY <1>2, OnLine
<1> HIDE DEF f
<1>4. CASE f < s
  <2>1. f \in 1..(Len(ends) + 1) /\ s \in 1..(Len(ends) + 1)
    BY <1>1, <1>2, <1>3
  <2>2. Core!Start(f) < Core!Start(s) /\ Core!Start(f) \in Nat /\ Core!Start(s) \in Nat
    BY <1>4, <2>1, Starts
  <2>3. s \in Core!Boundaries /\ s <= t
    BY <1>1, <1>2, BoundariesBetween
  <2> QED
    BY <1>3, <2>2, <2>3
<1>5. CASE f = s
  <2>1. s \in Core!Boundaries /\ s <= t
    BY <1>1, <1>2, BoundariesBetween
  <2> QED
    BY <1>3, <1>5, <2>1
<1>6. CASE s < f
  <2>1. f \in Core!Markers
    <3>1. f = IF Core!FirstTokenOnLine(t) < Core!SourceStartToken THEN Core!SourceStartToken
              ELSE Core!FirstTokenOnLine(t)
      BY <1>1, <1>3, <1>6 DEF f
    <3> QED
      BY <3>1, OpenersAre
  <2>2. f < e /\ f <= t
    BY <1>1, <1>2, <1>3
  <2>3. f \in Core!Boundaries
    BY <1>6, <2>1, <2>2 DEF Core!Boundaries
  <2> QED
    BY <1>3, <2>2, <2>3
<1> QED
  BY <1>1, <1>3, <1>4, <1>5, <1>6

\* A line of code, with or without its first character.
LEMMA RangesOfLines ==
  ASSUME NEW range \in Core!LineRanges(lines)
  PROVE  \E line \in lines, skipped \in {0, 1} :
           range = [start |-> line + skipped,
                    end |-> Core!Lowest({l \in lines \cup {Core!SourceEnd} : l > line})]
<1> DEFINE End(line) == Core!Lowest({l \in lines \cup {Core!SourceEnd} : l > line})
<1>1. range \in {[start |-> line + skipped, end |-> End(line)] :
                   line \in lines, skipped \in {0, 1}}
  BY DEF Core!LineRanges
<1> HIDE DEF End
<1>2. \E line \in lines, skipped \in {0, 1} :
        range = [start |-> line + skipped, end |-> End(line)]
  BY ONLY <1>1
<1> QED
  BY <1>2 DEF End

LEMMA SourceStarts ==
  ASSUME Core!Init
  PROVE  SourceInv
<1>1. ends \in Layouts
  BY DEF Core!Init
<1>2. /\ ends \in Seq(Nat) /\ Len(ends) > 0 /\ ends[1] > 0
      /\ \A i, j \in 1..Len(ends) : i < j => ends[i] < ends[j]
  BY <1>1, HierarchyAssumption
<1>3. Core!SourceEnd \in Nat /\ Core!SourceEnd > 0
  <2>1. Len(ends) \in 1..Len(ends) /\ 1 \in 1..Len(ends) /\ Len(ends) \in Nat
    BY <1>2
  <2>2. ends[Len(ends)] \in Nat /\ (1 < Len(ends) => ends[1] < ends[Len(ends)]) /\ ends[1] \in Nat
    BY <1>2, <2>1
  <2> QED
    BY <1>2, <2>1, <2>2 DEF Core!SourceEnd
<1>4. lines \in SUBSET {0, Core!SourceEnd \div 2} /\ 0 \in lines
  BY DEF Core!Init
<1>5. /\ Core!SourceEnd \div 2 \in Nat /\ Core!SourceEnd \div 2 < Core!SourceEnd
  BY ONLY <1>3
<1>6. \A line \in lines : line \in Nat /\ line < Core!SourceEnd
  BY <1>3, <1>4, <1>5
<1>7. PICK n \in 0..MaxEvents : events \in [1..n -> Core!Scopes]
  BY DEF Core!Init
<1>8. n \in Nat
  BY HierarchyAssumption
<1>9. ASSUME NEW scope \in Core!Scopes PROVE scope \in Event /\ scope.depth \in Depths
  <2>1. PICK a \in 0..(Core!SourceEnd - 1), b \in 1..Core!SourceEnd, d \in Depths :
          scope = [start |-> a, end |-> b, depth |-> d]
    BY <1>9 DEF Core!Scopes
  <2>2. a \in Nat /\ b \in Nat /\ d \in Nat
    BY <1>3, HierarchyAssumption
  <2> QED
    BY <2>1, <2>2 DEF Event
<1>10. events \in Seq(Event) /\ Len(events) = n /\ \A i \in 1..n : events[i].depth \in Depths
  BY <1>7, <1>8, <1>9
<1>11. \A i, j \in 1..Len(events) : i < j => events[i].start <= events[j].start
  <2>1. DOMAIN events = 1..Len(events)
    BY <1>7, <1>8, <1>10
  <2>2. \A i \in DOMAIN events :
          /\ events[i].start < events[i].end
          /\ \A j \in DOMAIN events : i < j =>
               /\ events[i].start <= events[j].start
               /\ events[j].end <= events[i].end \/ events[i].end <= events[j].start
    BY Zenon DEF Core!Init
  <2> QED
    BY <2>1, <2>2
<1>12. PICK m \in 0..Core!Cardinality(lines) : ranges \in [1..m -> Core!LineRanges(lines)]
  BY DEF Core!Init
<1>13. m \in Nat
  OBVIOUS
<1>14. ASSUME NEW range \in Core!LineRanges(lines)
       PROVE  range \in CodeRange /\ range.end <= Core!SourceEnd
  <2> DEFINE S(line) == {l \in lines \cup {Core!SourceEnd} : l > line}
  <2>1. PICK line \in lines, skipped \in {0, 1} :
          range = [start |-> line + skipped, end |-> Core!Lowest(S(line))]
    BY <1>14, RangesOfLines
  <2>2. line \in Nat /\ line < Core!SourceEnd
    BY <1>6
  <2>3. S(line) \in SUBSET Nat /\ Core!SourceEnd \in S(line)
    BY <1>3, <1>6, <2>2
  <2>4. Core!Lowest(S(line)) \in Nat /\ Core!Lowest(S(line)) <= Core!SourceEnd
    BY <2>3, LowestIs
  <2>5. line + skipped \in Nat
    BY <2>2
  <2> HIDE DEF S
  <2> QED
    BY <2>1, <2>4, <2>5 DEF CodeRange
<1>15. \A i \in 1..m : ranges[i] \in CodeRange /\ ranges[i].end <= Core!SourceEnd
  BY <1>12, <1>14
<1>16. ranges \in Seq(CodeRange) /\ Len(ranges) = m /\ DOMAIN ranges = 1..m
  BY <1>12, <1>13, <1>15
<1>17. /\ \A i \in 1..m : ranges[i].start < ranges[i].end
       /\ \A i \in 2..m : ranges[i - 1].end <= ranges[i].start
  BY <1>16 DEF Core!Init, Core!InOrder
<1>18. \A i, j \in 1..m : i < j => ranges[i].end <= ranges[j].start
  <2> DEFINE T == {k \in Nat : \A i \in 1..m : i + k + 1 <= m =>
                      ranges[i].end <= ranges[i + k + 1].start}
  <2>1. 0 \in T
    <3>1. ASSUME NEW i \in 1..m, i + 0 + 1 <= m PROVE ranges[i].end <= ranges[i + 0 + 1].start
      <4>1. i + 1 \in 2..m /\ (i + 1) - 1 = i /\ i + 0 + 1 = i + 1
        BY <1>13, <3>1
      <4>2. ranges[(i + 1) - 1].end <= ranges[i + 1].start
        BY <1>17, <4>1
      <4> QED
        BY <4>1, <4>2
    <3> QED
      BY <3>1
  <2>2. ASSUME NEW k \in Nat, k \in T PROVE k + 1 \in T
    <3>1. ASSUME NEW i \in 1..m, i + (k + 1) + 1 <= m
          PROVE  ranges[i].end <= ranges[i + (k + 1) + 1].start
      <4> DEFINE p == i + k + 1
      <4>1. p \in 1..m /\ p + 1 \in 2..m /\ (p + 1) - 1 = p /\ i + (k + 1) + 1 = p + 1 /\ p + 1 \in 1..m
        BY <1>13, <3>1
      <4>2. ranges[i].end <= ranges[p].start
        BY <2>2, <4>1
      <4>3. ranges[(p + 1) - 1].end <= ranges[p + 1].start
        BY <1>17, <4>1
      <4>4. ranges[p].start < ranges[p].end
        BY <1>17, <4>1
      <4>5. ranges[i] \in CodeRange /\ ranges[p] \in CodeRange /\ ranges[p + 1] \in CodeRange
        BY <1>15, <4>1
      <4>6. ranges[i].end \in Nat /\ ranges[p].start \in Nat /\ ranges[p].end \in Nat
              /\ ranges[p + 1].start \in Nat
        BY <4>5 DEF CodeRange
      <4> QED
        BY <4>1, <4>2, <4>3, <4>4, <4>6
    <3>2. k + 1 \in Nat
      OBVIOUS
    <3> QED
      BY <3>1, <3>2
  <2> HIDE DEF T
  <2>3. \A k \in Nat : k \in T
    BY <2>1, <2>2, Counting
  <2>4. ASSUME NEW i \in 1..m, NEW j \in 1..m, i < j PROVE ranges[i].end <= ranges[j].start
    <3>1. j - i - 1 \in Nat /\ i + (j - i - 1) + 1 = j /\ i + (j - i - 1) + 1 <= m
      BY <1>13, <2>4
    <3>2. j - i - 1 \in T
      BY <2>3, <3>1
    <3>3. ranges[i].end <= ranges[i + (j - i - 1) + 1].start
      BY <3>1, <3>2 DEF T
    <3> QED
      BY <3>1, <3>3
  <2> QED
    BY <2>4
<1>19. mode \in {"structural", "reference"} /\ step = "detect"
  BY DEF Core!Init
<1>20. lines \in SUBSET Nat
  BY <1>6
<1> QED
  BY <1>2, <1>4, <1>10, <1>11, <1>15, <1>16, <1>17, <1>18, <1>19, <1>20 DEF SourceInv

\* The intervals: from the first token of the code to behind its last, with
\* each boundary in between.
LEMMA IndicesAre ==
  ASSUME SourceInv, indices = Core!Sorted(Core!Boundaries)
  PROVE  /\ Len(indices) \in Nat /\ Len(indices) >= 2
         /\ \A i \in 1..Len(indices) :
              /\ indices[i] \in 1..(Len(ends) + 1) /\ indices[i] \in Nat
              /\ Core!Start(indices[i]) \in Nat
              /\ indices[i] \in Core!Boundaries
         /\ \A i, j \in 1..Len(indices) : i < j =>
              indices[i] < indices[j] /\ Core!Start(indices[i]) < Core!Start(indices[j])
         /\ indices[1] = Core!SourceStartToken
         /\ indices[Len(indices)] = Core!SourceEndToken
         /\ \A b \in Core!Boundaries : \E i \in 1..Len(indices) : indices[i] = b
<1> DEFINE S == Core!Boundaries
<1> DEFINE n == Cardinality(S)
<1> DEFINE s == Core!SourceStartToken
<1> DEFINE e == Core!SourceEndToken
<1>1. /\ S \in SUBSET Nat /\ IsFiniteSet(S) /\ s \in S /\ e \in S /\ S \in SUBSET (s..e)
      /\ s < e /\ s \in 1..Len(ends) /\ e \in 1..(Len(ends) + 1) /\ Len(ends) \in Nat
  BY BoundariesBetween, SourceSpan, Starts
<1>2. /\ indices \in [1..n -> S]
      /\ \A i, j \in 1..n : i < j => indices[i] < indices[j]
      /\ \A x \in S : \E i \in 1..n : indices[i] = x
      /\ n \in Nat
  BY <1>1, SortedIs
<1> HIDE DEF n, S, s, e
<1>3. Len(indices) = n
  BY <1>2
<1>4. \A i \in 1..n : indices[i] \in S
  BY <1>2
<1>5. \A x \in S : x \in Nat /\ s <= x /\ x <= e /\ x \in 1..(Len(ends) + 1)
  BY <1>1
<1>6. PICK i \in 1..n : indices[i] = s
  BY <1>1, <1>2
<1>7. PICK k \in 1..n : indices[k] = e
  BY <1>1, <1>2
<1>8. indices[1] = s /\ 1 \in 1..n
  <2>1. 1 \in 1..n
    BY <1>2
  <2>2. i = 1 \/ 1 < i
    BY <1>2
  <2>3. 1 < i => indices[1] < indices[i]
    BY <1>2, <2>1
  <2>4. indices[1] \in Nat /\ s <= indices[1] /\ s \in Nat
    BY <1>1, <1>4, <1>5, <2>1
  <2> QED
    BY <1>6, <2>1, <2>2, <2>3, <2>4
<1>9. indices[n] = e /\ n \in 1..n
  <2>1. n \in 1..n
    BY <1>2
  <2>2. k = n \/ k < n
    BY <1>2
  <2>3. k < n => indices[k] < indices[n]
    BY <1>2, <2>1
  <2>4. indices[n] \in Nat /\ indices[n] <= e /\ e \in Nat
    BY <1>1, <1>4, <1>5, <2>1
  <2> QED
    BY <1>7, <2>1, <2>2, <2>3, <2>4
<1>10. n >= 2
  <2>1. n # 1
    BY <1>1, <1>8, <1>9
  <2> QED
    BY <1>2, <1>8, <2>1
<1>11. \A j \in 1..n : indices[j] \in 1..(Len(ends) + 1) /\ indices[j] \in Nat
                        /\ Core!Start(indices[j]) \in Nat
  BY <1>4, <1>5, Starts
<1>12. \A p, q \in 1..n : p < q =>
         indices[p] < indices[q] /\ Core!Start(indices[p]) < Core!Start(indices[q])
  BY <1>2, <1>11, Starts
<1> QED
  BY <1>2, <1>3, <1>4, <1>8, <1>9, <1>10, <1>11, <1>12 DEF S, s, e

\* Some numbers have a bound.
LEMMA SomeBound ==
  ASSUME NEW n \in Nat, NEW f, \A i \in 1..n : f[i] \in Nat
  PROVE  \E top \in Nat : \A i \in 1..n : f[i] <= top
<1> DEFINE T == {k \in Nat : k <= n => \E top \in Nat : \A i \in 1..k : f[i] <= top}
<1>1. 0 \in T
  <2>1. \A i \in 1..0 : f[i] <= 0
    OBVIOUS
  <2> QED
    BY <2>1
<1>2. ASSUME NEW k \in Nat, k \in T PROVE k + 1 \in T
  <2>1. ASSUME k + 1 <= n PROVE \E top \in Nat : \A i \in 1..(k + 1) : f[i] <= top
    <3>1. PICK t \in Nat : \A i \in 1..k : f[i] <= t
      BY <1>2, <2>1
    <3>2. k + 1 \in 1..n /\ f[k + 1] \in Nat
      BY <2>1
    <3>3. ASSUME NEW i \in 1..(k + 1) PROVE f[i] <= t + f[k + 1]
      <4>1. CASE i = k + 1
        BY <3>2, <4>1
      <4>2. CASE i \in 1..k
        <5>1. f[i] <= t /\ i \in 1..n
          BY <2>1, <3>1, <4>2
        <5> QED
          BY <3>2, <5>1
      <4> QED
        BY <4>1, <4>2
    <3>4. t + f[k + 1] \in Nat
      BY <3>2
    <3> QED
      BY <3>3, <3>4
  <2>2. k + 1 \in Nat
    OBVIOUS
  <2> QED
    BY <2>1, <2>2
<1> HIDE DEF T
<1>3. n \in T
  BY <1>1, <1>2, Counting
<1> QED
  BY <1>3 DEF T

ScanState ==
  /\ SourceInv /\ indices = Core!Sorted(Core!Boundaries)
  /\ PassedInv /\ UnitsInv

LEMMA RangesAre ==
  ASSUME SourceInv
  PROVE  /\ Len(ranges) \in Nat /\ (ranges = <<>> <=> Len(ranges) = 0)
         /\ \A r \in 1..Len(ranges) : ranges[r].start \in Nat /\ ranges[r].end \in Nat
         /\ DOMAIN ranges = 1..Len(ranges)
<1>1. ranges \in Seq(CodeRange)
  BY DEF SourceInv
<1>2. \A r \in 1..Len(ranges) : ranges[r] \in CodeRange
  BY <1>1, ElementsAre
<1> QED
  BY <1>1, <1>2, NoLength DEF CodeRange

LEMMA EventsAre ==
  ASSUME SourceInv
  PROVE  /\ Len(events) \in Nat /\ DOMAIN events = 1..Len(events)
         /\ \A e \in 1..Len(events) :
              /\ events[e].start \in Nat /\ events[e].end \in Nat /\ events[e].depth \in Nat
              /\ events[e].depth \in Depths
<1>1. events \in Seq(Event)
  BY DEF SourceInv
<1>2. \A e \in 1..Len(events) : events[e] \in Event
  BY <1>1, ElementsAre
<1>3. \A e \in 1..Len(events) : events[e].depth \in Depths
  BY DEF SourceInv
<1> QED
  BY <1>1, <1>2, <1>3 DEF Event

\* The interval that is next.
LEMMA IntervalIs ==
  ASSUME ScanState, interval < Len(indices)
  PROVE  /\ interval \in 1..Len(indices) /\ interval + 1 \in 1..Len(indices)
         /\ interval \in Nat /\ interval >= FirstInterval
         /\ Core!IntervalStart = ScanStart
         /\ Core!IntervalEnd = Core!Start(indices[interval + 1])
         /\ ScanStart \in Nat /\ Core!IntervalEnd \in Nat /\ ScanStart < Core!IntervalEnd
         /\ ScanStart < Core!MeaningfulEnd
         /\ FirstInterval \in {1, 2}
<1>1. SourceInv /\ interval \in FirstInterval..Len(indices) /\ FirstInterval \in {1, 2}
  BY DEF ScanState, PassedInv, FirstInterval
<1>2. Len(indices) \in Nat /\ Len(indices) >= 2
  BY <1>1, IndicesAre DEF ScanState
<1>3. interval \in 1..Len(indices) /\ interval + 1 \in 1..Len(indices) /\ interval \in Nat
        /\ interval >= FirstInterval
  BY <1>1, <1>2
<1>4. /\ indices[interval] \in 1..(Len(ends) + 1) /\ indices[interval + 1] \in 1..(Len(ends) + 1)
      /\ Core!Start(indices[interval]) \in Nat /\ Core!Start(indices[interval + 1]) \in Nat
      /\ indices[interval] < indices[interval + 1]
      /\ Core!Start(indices[interval]) < Core!Start(indices[interval + 1])
  BY <1>1, <1>3, IndicesAre DEF ScanState
<1>5. Core!IntervalEnd = Core!Start(indices[interval + 1])
  <2>1. indices[interval + 1] - 1 \in 1..Len(ends)
    BY <1>1, <1>4, Starts
  <2>2. ends[indices[interval + 1] - 1] = Core!Start((indices[interval + 1] - 1) + 1)
    BY <1>1, <2>1, Starts
  <2>3. (indices[interval + 1] - 1) + 1 = indices[interval + 1]
    BY <1>4
  <2> QED
    BY <2>2, <2>3 DEF Core!IntervalEnd
<1>6. ScanStart < Core!MeaningfulEnd
  <2> DEFINE e == Core!SourceEndToken
  <2>1. e \in 1..(Len(ends) + 1) /\ Core!Start(e - 1) < Core!MeaningfulEnd /\ Core!MeaningfulEnd \in Nat
          /\ Len(ends) \in Nat /\ Core!SourceStartToken \in 1..Len(ends) /\ Core!SourceStartToken < e
    BY <1>1, SourceSpan, Starts
  <2>2. Len(indices) \in 1..Len(indices) /\ indices[Len(indices)] = e
    BY <1>1, <1>2, IndicesAre DEF ScanState
  <2>3. indices[interval] < e
    <3>1. indices[interval] < indices[Len(indices)]
      BY <1>1, <1>3, <2>2, IndicesAre DEF ScanState
    <3> QED
      BY <2>2, <3>1
  <2>4. e - 1 \in 1..(Len(ends) + 1) /\ (indices[interval] = e - 1 \/ indices[interval] < e - 1)
    <3> HIDE DEF e
    <3>1. indices[interval] \in Nat /\ indices[interval] >= 1 /\ e \in Nat /\ e <= Len(ends) + 1
      BY <1>4, <2>1
    <3>2. Len(ends) \in Nat
      BY <2>1
    <3> QED
      BY <2>3, <3>1, <3>2
  <2>5. Core!Start(indices[interval]) <= Core!Start(e - 1) /\ Core!Start(e - 1) \in Nat
    BY <1>1, <1>4, <2>4, Starts
  <2> QED
    BY <1>4, <2>1, <2>5 DEF ScanStart
<1> QED
  BY <1>1, <1>3, <1>4, <1>5, <1>6 DEF ScanStart, Core!IntervalStart

\* The range that is next: those before it are passed.
LEMMA NextRangeIs ==
  ASSUME ScanState, interval < Len(indices)
  PROVE  /\ Core!NextRange \in 1..(Len(ranges) + 1)
         /\ \A r \in 1..(Core!NextRange - 1) : ranges[r].end <= ScanStart
         /\ Core!NextRange <= Len(ranges) => ScanStart < ranges[Core!NextRange].end
<1> DEFINE S == {r \in rangeIndex..Len(ranges) : ranges[r].end > ScanStart} \cup {Len(ranges) + 1}
<1> DEFINE n == Core!NextRange
<1>1. SourceInv /\ rangeIndex \in 1..(Len(ranges) + 1)
        /\ \A r \in 1..(rangeIndex - 1) : ranges[r].end <= ScanStart
  BY DEF ScanState, PassedInv
<1>2. Len(ranges) \in Nat /\ \A r \in 1..Len(ranges) : ranges[r].end \in Nat
  BY <1>1, RangesAre
<1>3. Core!IntervalStart = ScanStart /\ ScanStart \in Nat
  BY IntervalIs
<1>4. n = Core!Lowest(S)
  BY <1>3 DEF Core!NextRange
<1>5. S \in SUBSET Nat /\ S # {}
  BY <1>1, <1>2
<1>6. n \in S /\ \A r \in S : n <= r
  BY <1>4, <1>5, LowestIs
<1> HIDE DEF n
<1>7. n \in 1..(Len(ranges) + 1) /\ (n <= Len(ranges) => ScanStart < ranges[n].end)
  <2>1. CASE n = Len(ranges) + 1
    BY <1>2, <2>1
  <2>2. CASE n \in rangeIndex..Len(ranges) /\ ranges[n].end > ScanStart
    BY <1>1, <1>2, <2>2
  <2> QED
    BY <1>6, <2>1, <2>2
<1>8. ASSUME NEW r \in 1..(n - 1) PROVE ranges[r].end <= ScanStart
  <2>1. r \in 1..Len(ranges) /\ ranges[r].end \in Nat /\ ~(n <= r)
    BY <1>2, <1>7
  <2>2. CASE r < rangeIndex
    BY <1>1, <2>1, <2>2
  <2>3. CASE r >= rangeIndex
    <3>1. r \in rangeIndex..Len(ranges)
      BY <1>1, <1>2, <2>1, <2>3
    <3>2. ~(ranges[r].end > ScanStart)
      BY <1>6, <2>1, <3>1
    <3> QED
      BY <1>3, <2>1, <3>2
  <2> QED
    BY <1>1, <2>2, <2>3
<1> QED
  BY <1>7, <1>8 DEF n

\* What the code of an interval is in: no range before the next one.
LEMMA MeaningfulAhead ==
  ASSUME ScanState, interval < Len(indices), NEW byte \in Nat,
         Core!Meaningful(byte), ScanStart <= byte, byte < Core!IntervalEnd
  PROVE  /\ ~Core!Blank /\ byte < Core!MeaningfulEnd
         /\ ranges # <<>> => ranges[Core!NextRange].start <= byte
<1> DEFINE n == Core!NextRange
<1>1. SourceInv /\ ScanStart \in Nat /\ Core!IntervalEnd \in Nat
  BY IntervalIs DEF ScanState
<1>2. CASE ranges = <<>>
  BY <1>1, <1>2 DEF Core!Blank, Core!Meaningful, Core!MeaningfulEnd
<1>3. CASE ranges # <<>>
  <2>1. PICK r \in DOMAIN ranges : ranges[r].start <= byte /\ byte < ranges[r].end
    BY <1>3 DEF Core!Meaningful
  <2>2. /\ Len(ranges) \in Nat /\ r \in 1..Len(ranges) /\ Len(ranges) \in 1..Len(ranges)
        /\ ranges[r].start \in Nat /\ ranges[r].end \in Nat
    BY <1>1, <1>3, RangesAre
  <2>3. n \in 1..(Len(ranges) + 1) /\ \A q \in 1..(n - 1) : ranges[q].end <= ScanStart
    BY NextRangeIs
  <2> HIDE DEF n
  <2>4. n <= r
    <3>1. SUFFICES ASSUME ~(n <= r) PROVE FALSE
      OBVIOUS
    <3>2. r \in 1..(n - 1)
      BY <2>2, <2>3, <3>1
    <3>3. ranges[r].end <= ScanStart
      BY <2>3, <3>2
    <3> QED
      BY <1>1, <2>1, <2>2, <3>3
  <2>5. n \in 1..Len(ranges) /\ ranges[n].start \in Nat /\ ranges[n].end \in Nat
    <3>1. n \in 1..Len(ranges)
      BY <2>2, <2>3, <2>4
    <3> QED
      BY <1>1, <3>1, RangesAre
  <2>6. ranges[n].start <= byte
    <3>1. CASE n = r
      BY <2>1, <3>1
    <3>2. CASE n < r
      <4>1. ranges[n].end <= ranges[r].start /\ ranges[n].start < ranges[n].end
        BY <1>1, <2>2, <2>5, <3>2 DEF SourceInv
      <4> QED
        BY <2>1, <2>2, <2>5, <4>1
    <3> QED
      BY <2>2, <2>4, <2>5, <3>1, <3>2
  <2>7. byte < Core!MeaningfulEnd
    <3>1. Core!MeaningfulEnd = ranges[Len(ranges)].end
      BY <1>3 DEF Core!MeaningfulEnd
    <3>2. CASE r = Len(ranges)
      BY <2>1, <3>1, <3>2
    <3>3. CASE r < Len(ranges)
      <4>1. /\ ranges[r].end <= ranges[Len(ranges)].start
            /\ ranges[Len(ranges)].start < ranges[Len(ranges)].end
        BY <1>1, <2>2, <3>3 DEF SourceInv
      <4>2. ranges[Len(ranges)].start \in Nat /\ ranges[Len(ranges)].end \in Nat
        BY <1>1, <2>2, RangesAre
      <4> QED
        BY <2>1, <2>2, <3>1, <4>1, <4>2
    <3> QED
      BY <2>2, <3>2, <3>3
  <2>8. ~Core!Blank
    <3>1. ~(n > Len(ranges)) /\ ~(ranges[n].start >= Core!IntervalEnd)
      BY <1>1, <2>2, <2>5, <2>6
    <3> QED
      BY <3>1 DEF Core!Blank, n
  <2> QED
    BY <2>6, <2>7, <2>8 DEF n
<1> QED
  BY <1>2, <1>3

LEMMA SourceSame ==
  ASSUME UNCHANGED Core!sourceVars
  PROVE  /\ Core!Boundaries' = Core!Boundaries
         /\ FirstInterval' = FirstInterval
         /\ Core!SourceStartToken' = Core!SourceStartToken
         /\ Core!SourceEndToken' = Core!SourceEndToken
         /\ Core!MeaningfulEnd' = Core!MeaningfulEnd
         /\ Core!SourceEnd' = Core!SourceEnd
         /\ \A t : Core!Start(t)' = Core!Start(t)
         /\ \A byte : Core!Meaningful(byte)' <=> Core!Meaningful(byte)
<1>1. /\ ends' = ends /\ entropy' = entropy /\ lines' = lines /\ events' = events
      /\ ranges' = ranges /\ mode' = mode /\ span_starts_source' = span_starts_source
  BY DEF Core!sourceVars
<1>2. /\ Core!MeaningfulStart' = Core!MeaningfulStart /\ Core!MeaningfulEnd' = Core!MeaningfulEnd
      /\ Core!SourceEnd' = Core!SourceEnd
  BY <1>1 DEF Core!MeaningfulStart, Core!MeaningfulEnd, Core!SourceEnd
<1>3. \A t : Core!Start(t)' = Core!Start(t)
  BY <1>1 DEF Core!Start
<1>4. \A byte : Core!Meaningful(byte)' <=> Core!Meaningful(byte)
  BY <1>1, <1>2 DEF Core!Meaningful
<1>5. Core!SourceStartToken' = Core!SourceStartToken
  BY <1>1, <1>2, Zenon DEF Core!SourceStartToken, Core!FirstOverlappingToken, Core!Tokens
<1>6. \A byte : Core!TokenIndexAt(byte)' = Core!TokenIndexAt(byte)
  BY <1>1, <1>3, Zenon DEF Core!TokenIndexAt, Core!Tokens, Core!Start
<1>7. Core!SourceEndToken' = Core!SourceEndToken
  BY <1>1, <1>2, Zenon DEF Core!SourceEndToken, Core!TokenIndexAt, Core!Tokens, Core!Start
<1>8. Core!Markers' = Core!Markers
  <2>1. \A t : Core!LineOf(t)' = Core!LineOf(t)
    BY <1>1, <1>3, Zenon DEF Core!LineOf, Core!Start
  <2>2. \A t : Core!FirstTokenOnLine(t)' = Core!FirstTokenOnLine(t)
    BY <1>1, Zenon DEF Core!FirstTokenOnLine, Core!LineOf, Core!Start, Core!Tokens
  <2> QED
    BY <1>1, <1>5, <1>7, <2>2 DEF Core!Markers, Core!Openers, Core!FirstOpener
<1>9. Core!Boundaries' = Core!Boundaries
  BY <1>1, <1>5, <1>6, <1>7, <1>8 DEF Core!Boundaries
<1>10. FirstInterval' = FirstInterval
  BY <1>1, <1>5, <1>8, Zenon DEF FirstInterval
<1> QED
  BY <1>2, <1>3, <1>4, <1>5, <1>7, <1>9, <1>10

LEMMA SourceKept ==
  ASSUME SourceInv, UNCHANGED Core!sourceVars, step' \in {"detect", "scan", "build", "done"}
  PROVE  SourceInv'
<1>1. /\ ends' = ends /\ entropy' = entropy /\ lines' = lines /\ events' = events
      /\ ranges' = ranges /\ mode' = mode /\ Core!SourceEnd' = Core!SourceEnd
  BY SourceSame DEF Core!sourceVars
<1> QED
  BY <1>1, Zenon DEF SourceInv

\* A unit is as deep as the deepest scope it begins in.
DeepestAt(byte) ==
  Core!Highest({0} \cup {events[e].depth :
     e \in {e \in DOMAIN events : Core!Covers(events[e], byte)}})

LEMMA NothingCounted ==
  ASSUME NEW d
  PROVE  Cardinality({e \in {} : events[e].depth = d}) = 0
BY FS_EmptySet

LEMMA DetectStep ==
  ASSUME HierarchyInv, Core!DetectBoundaries
  PROVE  HierarchyInv'
<1>1. /\ step = "detect" /\ step' = "scan" /\ indices' = Core!Sorted(Core!Boundaries)
      /\ interval' = FirstInterval
      /\ eventIndex' = eventIndex /\ rangeIndex' = rangeIndex /\ ending' = ending
      /\ active' = active /\ units' = units /\ arena' = arena /\ stack' = stack
      /\ UNCHANGED Core!sourceVars
  BY DEF Core!DetectBoundaries, FirstInterval, Core!treeVars
<1>2. /\ SourceInv /\ eventIndex = 1 /\ rangeIndex = 1 /\ ending = {}
      /\ active = [d \in Depths |-> 0] /\ units = <<>> /\ arena = <<>> /\ stack = <<>>
  BY <1>1 DEF HierarchyInv, ScanInv, TreeInv, NodesInv, StackInv, StageInv
<1>3. SourceInv'
  BY <1>1, <1>2, SourceKept
<1>4. indices' = Core!Sorted(Core!Boundaries') /\ FirstInterval' = FirstInterval
        /\ events' = events /\ ranges' = ranges
  BY <1>1, SourceSame DEF Core!sourceVars
<1>5. Core!Sorted(Core!Boundaries') = Core!Sorted(Core!Boundaries)'
  BY Zenon DEF Core!Sorted, Core!Cardinality
<1>6. /\ Len(indices') \in Nat /\ Len(indices') >= 2 /\ FirstInterval \in {1, 2}
  <2>1. Len(Core!Sorted(Core!Boundaries)) \in Nat /\ Len(Core!Sorted(Core!Boundaries)) >= 2
    <3>1. Core!SourceStartToken \in Core!Boundaries /\ Core!SourceEndToken \in Core!Boundaries
            /\ Core!SourceStartToken < Core!SourceEndToken
            /\ Core!Boundaries \in SUBSET Nat /\ IsFiniteSet(Core!Boundaries)
            /\ Core!SourceStartToken \in Nat
      BY <1>2, BoundariesBetween, SourceSpan
    <3> DEFINE S == Core!Boundaries
    <3> DEFINE n == Cardinality(S)
    <3>2. /\ Core!Sorted(S) \in [1..n -> S] /\ n \in Nat
          /\ \A x \in S : \E i \in 1..n : Core!Sorted(S)[i] = x
      BY <3>1, SortedIs
    <3>3. PICK i \in 1..n : Core!Sorted(S)[i] = Core!SourceStartToken
      BY <3>1, <3>2
    <3>4. PICK j \in 1..n : Core!Sorted(S)[j] = Core!SourceEndToken
      BY <3>1, <3>2
    <3> HIDE DEF n, S
    <3>5. Len(Core!Sorted(S)) = n
      BY <3>2
    <3>6. i # j
      BY <3>1, <3>3, <3>4
    <3>7. n >= 2
      BY <3>2, <3>6
    <3> QED
      BY <3>2, <3>5, <3>7 DEF S
  <2> QED
    BY <1>1, <2>1 DEF FirstInterval
<1>7. Len(ranges) \in Nat /\ Len(events) \in Nat
  BY <1>2, RangesAre, EventsAre
<1>8. active = [d \in Depths |-> Cardinality({e \in {} : events[e].depth = d})]
  BY <1>2, NothingCounted
<1>9. PassedInv'
  <2>1. /\ interval' \in FirstInterval'..Len(indices')
        /\ rangeIndex' \in 1..(Len(ranges') + 1)
        /\ \A r \in 1..(rangeIndex' - 1) : ranges'[r].end <= ScanStart'
        /\ eventIndex' \in 1..(Len(events') + 1)
        /\ \A e \in 1..(eventIndex' - 1) : events'[e].start <= ScanStart'
        /\ ending' \subseteq 1..(eventIndex' - 1)
        /\ \A e \in (1..(eventIndex' - 1)) \ ending' : events'[e].end <= ScanStart'
    BY <1>1, <1>2, <1>4, <1>6, <1>7
  <2>2. active' = [d \in Depths |-> Cardinality({e \in ending' : events'[e].depth = d})]
    BY <1>1, <1>2, <1>4, <1>8, Zenon
  <2> QED
    BY <2>1, <2>2 DEF PassedInv
<1>10. UnitsInv'
  <2>1. units' = <<>> /\ Len(units') = 0 /\ units' \in Seq(Units)
    BY <1>1, <1>2
  <2> DEFINE b == Core!Sorted(Core!Boundaries)[FirstInterval]
  <2>2. ScanStart' = Core!Start(b) /\ (Core!Start(indices[FirstInterval]))' = Core!Start(b)
    <3>1. ends' = ends
      BY <1>1 DEF Core!sourceVars
    <3> QED
      BY <1>1, <1>4, <3>1, Zenon DEF ScanStart, Core!Start
  <2>3. Core!Start(b) \in Nat
    <3>1. /\ Core!Boundaries \in SUBSET (Core!SourceStartToken..Core!SourceEndToken)
          /\ Core!Boundaries \in SUBSET Nat /\ IsFiniteSet(Core!Boundaries)
          /\ Core!SourceEndToken \in 1..(Len(ends) + 1)
          /\ Core!SourceStartToken \in 1..Len(ends) /\ Len(ends) \in Nat
      BY <1>2, BoundariesBetween, SourceSpan, Starts
    <3>2. \A i \in 1..Len(Core!Sorted(Core!Boundaries)) :
            Core!Sorted(Core!Boundaries)[i] \in Core!Boundaries
      BY <3>1, SortedIs
    <3>3. FirstInterval \in 1..Len(Core!Sorted(Core!Boundaries))
      BY <1>1, <1>6
    <3>4. b \in 1..(Len(ends) + 1)
      <4>1. b \in Core!Boundaries
        BY <3>2, <3>3, Zenon
      <4>2. b \in Core!SourceStartToken..Core!SourceEndToken
        BY <3>1, <4>1, Zenon
      <4> HIDE DEF b
      <4> QED
        BY ONLY <3>1, <4>2
    <3> QED
      BY <1>2, <3>4, Starts
  <2> HIDE DEF b
  <2>4. ASSUME NEW byte \in Nat
        PROVE  ~((Core!Start(indices[FirstInterval]))' <= byte /\ byte < ScanStart')
    BY <2>2, <2>3
  <2>5. \A byte \in Nat :
          (Core!Meaningful(byte))' /\ (Core!Start(indices[FirstInterval]))' <= byte /\ byte < ScanStart'
            => \E n \in 1..Len(units') : Core!Covers(units'[n], byte)
    BY <2>4
  <2>6. /\ \A n \in 1..Len(units') : \E i \in FirstInterval'..(interval' - 1) : InInterval(units[n], i)'
        /\ \A n, m \in 1..Len(units') : n < m => units'[n].end <= units'[m].start
        /\ \A n \in 1..Len(units') : units'[n].depth =
             Core!Highest({0} \cup {events'[e].depth :
                e \in {e \in DOMAIN events' : Core!Covers(events'[e], units'[n].start)}})
    BY <2>1
  <2> QED
    BY <2>1, <2>5, <2>6, Zenon DEF UnitsInv
<1>11. ScanInv'
  BY <1>1, <1>4, <1>5, <1>9, <1>10 DEF ScanInv
<1>12. TreeInv'
  <2>1. /\ arena' = <<>> /\ stack' = <<>> /\ Len(arena') = 0 /\ Len(stack') = 0 /\ units' = <<>>
        /\ Len(units') = 0 /\ arena' \in Seq(Nodes) /\ stack' \in Seq(Nat)
    BY <1>1, <1>2
  <2> QED
    BY <1>1, <2>1 DEF TreeInv, NodesInv, StackInv, StageInv
<1> QED
  BY <1>3, <1>11, <1>12 DEF HierarchyInv

\* The unit that AddUnit adds, and the scopes that begin and end before it.
NewStart ==
  IF ranges = <<>> \/ ranges[Core!NextRange].start < Core!IntervalStart
    THEN Core!IntervalStart ELSE ranges[Core!NextRange].start
NextEvent ==
  Core!Lowest({e \in eventIndex..Len(events) : events[e].start > NewStart}
              \cup {Len(events) + 1})
Begun == eventIndex..(NextEvent - 1)
Ended == {e \in ending \cup Begun : Core!EndsBy(events[e], NewStart)}
CountAt(S, d) == Core!Cardinality({e \in S : events[e].depth = d})
Now == [d \in Depths |-> active[d] + CountAt(Begun, d) - CountAt(Ended, d)]
NewUnit ==
  [start |-> NewStart,
   end |-> IF Core!IntervalEnd < Core!MeaningfulEnd THEN Core!IntervalEnd
           ELSE Core!MeaningfulEnd,
   depth |-> Core!Highest({0} \cup {d \in Depths : Now[d] > 0})]
Covering == {e \in 1..Len(events) : Core!Covers(events[e], NewStart)}

LEMMA AddUnitIs ==
  ASSUME Core!AddUnit
  PROVE  /\ step = "scan" /\ interval < Len(indices) /\ ~Core!Blank
         /\ eventIndex' = NextEvent /\ ending' = (ending \cup Begun) \ Ended
         /\ active' = Now /\ units' = Append(units, NewUnit)
         /\ interval' = interval + 1 /\ rangeIndex' = Core!NextRange
         /\ UNCHANGED Core!sourceVars
         /\ step' = step /\ indices' = indices /\ arena' = arena /\ stack' = stack
BY Zenon DEF Core!AddUnit, NewStart, NextEvent, Begun, Ended, CountAt, Now, NewUnit, Core!treeVars

\* The unit begins where the code of its interval does.
LEMMA NewStartIs ==
  ASSUME ScanState, interval < Len(indices), ~Core!Blank
  PROVE  /\ NewStart \in Nat /\ ScanStart <= NewStart
         /\ NewStart < Core!IntervalEnd /\ NewStart < Core!MeaningfulEnd
         /\ \A byte \in Nat :
              Core!Meaningful(byte) /\ ScanStart <= byte /\ byte < Core!IntervalEnd
                => NewStart <= byte
<1> DEFINE n == Core!NextRange
<1>1. /\ SourceInv /\ ScanStart \in Nat /\ Core!IntervalEnd \in Nat
      /\ Core!IntervalStart = ScanStart
      /\ ScanStart < Core!IntervalEnd /\ ScanStart < Core!MeaningfulEnd
      /\ Core!MeaningfulEnd \in Nat
  BY IntervalIs, SourceSpan DEF ScanState
<1>2. CASE ranges = <<>>
  BY <1>1, <1>2 DEF NewStart
<1>3. CASE ranges # <<>>
  <2>1. n <= Len(ranges) /\ ~(ranges[n].start >= Core!IntervalEnd) /\ n \in 1..(Len(ranges) + 1)
          /\ Len(ranges) \in Nat
    <3>1. ~(n > Len(ranges)) /\ ~(ranges[n].start >= Core!IntervalEnd)
      BY <1>3 DEF Core!Blank
    <3>2. n \in 1..(Len(ranges) + 1) /\ Len(ranges) \in Nat
      BY <1>1, NextRangeIs, RangesAre
    <3> HIDE DEF n
    <3> QED
      BY <3>1, <3>2
  <2> HIDE DEF n
  <2>2. n \in 1..Len(ranges)
    BY <2>1
  <2>3. ranges[n].start \in Nat /\ ranges[n].end \in Nat /\ ranges[n].start < ranges[n].end
    BY <1>1, <2>2, RangesAre DEF SourceInv
  <2>4. ranges[n].start < Core!IntervalEnd
    BY <1>1, <2>1, <2>3
  <2>5. ranges[n].end <= Core!MeaningfulEnd
    <3>1. Core!MeaningfulEnd = ranges[Len(ranges)].end
      BY <1>3 DEF Core!MeaningfulEnd
    <3>2. CASE n = Len(ranges)
      BY <2>3, <3>1, <3>2
    <3>3. CASE n < Len(ranges)
      <4>1. Len(ranges) \in 1..Len(ranges)
        BY <2>1, <2>2
      <4>2. /\ ranges[n].end <= ranges[Len(ranges)].start
            /\ ranges[Len(ranges)].start < ranges[Len(ranges)].end
        BY <1>1, <2>2, <3>3, <4>1 DEF SourceInv
      <4>3. ranges[Len(ranges)].start \in Nat /\ ranges[Len(ranges)].end \in Nat
        BY <1>1, <4>1, RangesAre
      <4> QED
        BY <2>3, <3>1, <4>2, <4>3
    <3> QED
      BY <2>1, <3>2, <3>3
  <2>6. NewStart = IF ranges[n].start < ScanStart THEN ScanStart ELSE ranges[n].start
    BY <1>1, <1>3 DEF NewStart, n
  <2>7. /\ NewStart \in Nat /\ ScanStart <= NewStart
        /\ NewStart < Core!IntervalEnd /\ NewStart < Core!MeaningfulEnd
    BY <1>1, <2>3, <2>4, <2>5, <2>6
  <2>8. ASSUME NEW byte \in Nat, Core!Meaningful(byte), ScanStart <= byte, byte < Core!IntervalEnd
        PROVE  NewStart <= byte
    <3>1. ranges[n].start <= byte
      BY <1>3, <2>8, MeaningfulAhead DEF n
    <3> QED
      BY <2>6, <2>8, <3>1
  <2> QED
    BY <2>7, <2>8
<1> QED
  BY <1>2, <1>3

\* The events up to the next one are those that begin by the start.
LEMMA NextEventIs ==
  ASSUME ScanState, interval < Len(indices), ~Core!Blank
  PROVE  /\ NextEvent \in 1..(Len(events) + 1) /\ eventIndex <= NextEvent
         /\ eventIndex \in 1..(Len(events) + 1)
         /\ \A e \in 1..Len(events) : e < NextEvent <=> events[e].start <= NewStart
<1> DEFINE S == {e \in eventIndex..Len(events) : events[e].start > NewStart} \cup {Len(events) + 1}
<1> DEFINE n == NextEvent
<1>1. /\ NewStart \in Nat /\ ScanStart \in Nat /\ ScanStart <= NewStart
  BY NewStartIs, IntervalIs
<1>2. /\ Len(events) \in Nat /\ \A e \in 1..Len(events) : events[e].start \in Nat
      /\ \A i, j \in 1..Len(events) : i < j => events[i].start <= events[j].start
      /\ eventIndex \in 1..(Len(events) + 1)
      /\ \A e \in 1..(eventIndex - 1) : events[e].start <= ScanStart
  BY EventsAre DEF ScanState, SourceInv, PassedInv
<1>3. S \in SUBSET Nat /\ S # {}
  BY <1>2
<1>4. n \in S /\ \A e \in S : n <= e
  BY <1>3, LowestIs DEF NextEvent
<1> HIDE DEF n
<1>5. n \in 1..(Len(events) + 1) /\ eventIndex <= n
  BY <1>2, <1>4
<1>6. ASSUME NEW e \in 1..Len(events), e < n PROVE events[e].start <= NewStart
  <2>1. CASE e < eventIndex
    <3>1. e \in 1..(eventIndex - 1)
      BY <1>2, <2>1
    <3>2. events[e].start <= ScanStart /\ events[e].start \in Nat
      BY <1>2, <3>1
    <3> QED
      BY <1>1, <3>2
  <2>2. CASE eventIndex <= e
    <3>1. e \in eventIndex..Len(events) /\ ~(n <= e)
      BY <1>2, <1>5, <1>6, <2>2
    <3>2. ~(events[e].start > NewStart) /\ events[e].start \in Nat
      BY <1>2, <1>4, <3>1
    <3> QED
      BY <1>1, <3>2
  <2> QED
    BY <1>2, <2>1, <2>2
<1>7. ASSUME NEW e \in 1..Len(events), ~(e < n) PROVE ~(events[e].start <= NewStart)
  <2>1. n \in 1..Len(events) /\ n <= e
    BY <1>2, <1>5, <1>7
  <2>2. events[n].start > NewStart /\ events[n].start \in Nat /\ events[e].start \in Nat
    BY <1>2, <1>4, <2>1
  <2>3. n = e \/ events[n].start <= events[e].start
    BY <1>2, <2>1
  <2> QED
    BY <1>1, <2>2, <2>3
<1> QED
  BY <1>2, <1>5, <1>6, <1>7 DEF n

\* The queue holds the scopes that the unit begins in.
LEMMA QueueIs ==
  ASSUME ScanState, interval < Len(indices), ~Core!Blank
  PROVE  /\ (ending \cup Begun) \ Ended = Covering
         /\ ending \cap Begun = {} /\ Ended \subseteq ending \cup Begun
         /\ ending \cup Begun = {e \in ending \cup Begun : e \in 1..(NextEvent - 1)}
         /\ IsFiniteSet(ending) /\ IsFiniteSet(Begun)
<1>1. /\ NewStart \in Nat /\ ScanStart \in Nat /\ ScanStart <= NewStart
  BY NewStartIs, IntervalIs
<1>2. /\ Len(events) \in Nat
      /\ \A e \in 1..Len(events) : events[e].start \in Nat /\ events[e].end \in Nat
      /\ ending \subseteq 1..(eventIndex - 1)
      /\ \A e \in (1..(eventIndex - 1)) \ ending : events[e].end <= ScanStart
  BY EventsAre DEF ScanState, PassedInv
<1>3. /\ NextEvent \in 1..(Len(events) + 1) /\ eventIndex <= NextEvent
      /\ eventIndex \in 1..(Len(events) + 1)
      /\ \A e \in 1..Len(events) : e < NextEvent <=> events[e].start <= NewStart
  BY NextEventIs
<1>4. \A e \in ending \cup Begun : e \in 1..(NextEvent - 1) /\ e \in 1..Len(events)
  BY <1>2, <1>3 DEF Begun
<1>5. \A e \in ending \cup Begun : e \in Ended <=> events[e].end <= NewStart
  BY DEF Ended, Core!EndsBy
<1>6. ASSUME NEW e \in (ending \cup Begun) \ Ended PROVE e \in Covering
  <2>1. e \in 1..Len(events) /\ e < NextEvent /\ ~(events[e].end <= NewStart)
    BY <1>3, <1>4, <1>5, <1>6
  <2>2. events[e].start <= NewStart /\ NewStart < events[e].end
    BY <1>1, <1>2, <1>3, <2>1
  <2> QED
    BY <2>1, <2>2 DEF Covering, Core!Covers
<1>7. ASSUME NEW e \in Covering PROVE e \in (ending \cup Begun) \ Ended
  <2>1. e \in 1..Len(events) /\ events[e].start <= NewStart /\ NewStart < events[e].end
    BY <1>7 DEF Covering, Core!Covers
  <2>2. e < NextEvent /\ ~(events[e].end <= NewStart)
    BY <1>1, <1>2, <1>3, <2>1
  <2>3. e \in ending \cup Begun
    <3>1. CASE e >= eventIndex
      BY <1>3, <2>1, <2>2, <3>1 DEF Begun
    <3>2. CASE e < eventIndex
      <4>1. SUFFICES ASSUME e \notin ending PROVE FALSE
        OBVIOUS
      <4>2. e \in (1..(eventIndex - 1)) \ ending
        BY <1>3, <2>1, <3>2, <4>1
      <4>3. events[e].end <= ScanStart /\ events[e].end \in Nat
        BY <1>2, <2>1, <4>2
      <4> QED
        BY <1>1, <2>2, <4>3
    <3> QED
      BY <1>3, <2>1, <3>1, <3>2
  <2> QED
    BY <1>5, <2>2, <2>3
<1>8. ending \cap Begun = {}
  BY <1>2, <1>3 DEF Begun
<1>9. Ended \subseteq ending \cup Begun
  BY DEF Ended
<1>10. IsFiniteSet(ending) /\ IsFiniteSet(Begun)
  <2>0. 1 \in Int /\ eventIndex - 1 \in Int /\ eventIndex \in Int /\ NextEvent - 1 \in Int
    BY <1>2, <1>3
  <2>1. IsFiniteSet(1..(eventIndex - 1)) /\ IsFiniteSet(eventIndex..(NextEvent - 1))
    BY <2>0, FS_Interval
  <2> QED
    BY <1>2, <2>1, FS_Subset DEF Begun
<1>11. (ending \cup Begun) \ Ended = Covering
  BY <1>6, <1>7
<1>12. ending \cup Begun = {e \in ending \cup Begun : e \in 1..(NextEvent - 1)}
  BY <1>4
<1> QED
  BY <1>8, <1>9, <1>10, <1>11, <1>12

\* What is added and taken away is counted.
LEMMA CountsAre ==
  ASSUME NEW A, NEW B, NEW C, IsFiniteSet(A), IsFiniteSet(B), A \cap B = {},
         C \subseteq A \cup B
  PROVE  /\ Cardinality((A \cup B) \ C) = Cardinality(A) + Cardinality(B) - Cardinality(C)
         /\ IsFiniteSet((A \cup B) \ C)
<1>1. Cardinality(A \cap B) = 0
  BY FS_EmptySet
<1>2. /\ IsFiniteSet(A \cup B)
      /\ Cardinality(A \cup B) = Cardinality(A) + Cardinality(B) - Cardinality(A \cap B)
  BY FS_Union
<1>3. Cardinality(A) \in Nat /\ Cardinality(B) \in Nat /\ Cardinality(A \cup B) \in Nat
  BY <1>2, FS_CardinalityType
<1>4. (A \cup B) \cap C = C /\ IsFiniteSet(C)
  BY <1>2, FS_Subset
<1>5. /\ IsFiniteSet((A \cup B) \ C)
      /\ Cardinality((A \cup B) \ C) = Cardinality(A \cup B) - Cardinality((A \cup B) \cap C)
  BY <1>2, FS_Difference
<1>6. Cardinality(C) \in Nat
  BY <1>4, FS_CardinalityType
<1>7. Cardinality((A \cup B) \ C) = Cardinality(A \cup B) - Cardinality(C)
  BY <1>4, <1>5, Zenon
<1>8. Cardinality(A \cup B) = Cardinality(A) + Cardinality(B)
  BY <1>1, <1>2, <1>3
<1> QED
  BY <1>3, <1>5, <1>6, <1>7, <1>8

LEMMA NowIs ==
  ASSUME ScanState, interval < Len(indices), ~Core!Blank
  PROVE  /\ Now = [d \in Depths |-> Cardinality({e \in Covering : events[e].depth = d})]
         /\ {d \in Depths : Now[d] > 0} = {events[e].depth : e \in Covering}
<1>1. /\ (ending \cup Begun) \ Ended = Covering
      /\ ending \cap Begun = {} /\ Ended \subseteq ending \cup Begun
      /\ IsFiniteSet(ending) /\ IsFiniteSet(Begun)
  BY QueueIs
<1>2. active = [d \in Depths |-> Cardinality({e \in ending : events[e].depth = d})]
  BY DEF ScanState, PassedInv
<1>3. ASSUME NEW d \in Depths
      PROVE  /\ Now[d] = Cardinality({e \in Covering : events[e].depth = d})
             /\ IsFiniteSet({e \in Covering : events[e].depth = d})
  <2> DEFINE A == {e \in ending : events[e].depth = d}
  <2> DEFINE B == {e \in Begun : events[e].depth = d}
  <2> DEFINE C == {e \in Ended : events[e].depth = d}
  <2>1. Now[d] = Cardinality(A) + Cardinality(B) - Cardinality(C)
    BY <1>2, CoreCounts DEF Now, CountAt
  <2>2. IsFiniteSet(A) /\ IsFiniteSet(B) /\ A \cap B = {} /\ C \subseteq A \cup B
    <3>1. IsFiniteSet(A) /\ IsFiniteSet(B)
      BY <1>1, FS_Subset
    <3>2. A \cap B = {} /\ C \subseteq A \cup B
      BY <1>1
    <3> QED
      BY <3>1, <3>2
  <2>3. (A \cup B) \ C = {e \in Covering : events[e].depth = d}
    BY <1>1
  <2> HIDE DEF A, B, C
  <2> QED
    BY <2>1, <2>2, <2>3, CountsAre
<1>4. Now = [d \in Depths |-> Cardinality({e \in Covering : events[e].depth = d})]
  <2>1. Now = [d \in Depths |-> Now[d]]
    BY DEF Now
  <2> QED
    BY <1>3, <2>1
<1>5. ASSUME NEW d \in Depths PROVE Now[d] > 0 <=> \E e \in Covering : events[e].depth = d
  <2> DEFINE S == {e \in Covering : events[e].depth = d}
  <2>1. Now[d] = Cardinality(S) /\ IsFiniteSet(S)
    BY <1>3
  <2>2. Cardinality(S) \in Nat /\ (Cardinality(S) = 0 <=> S = {})
    BY <2>1, FS_CardinalityType, FS_EmptySet
  <2>3. S = {} <=> ~\E e \in Covering : events[e].depth = d
    OBVIOUS
  <2> HIDE DEF S
  <2> QED
    BY <2>1, <2>2, <2>3
<1>6. \A e \in Covering : events[e].depth \in Depths
  BY EventsAre DEF ScanState, Covering
<1> QED
  BY <1>4, <1>5, <1>6

LEMMA EmptyTree ==
  ASSUME arena' = <<>>, stack' = <<>>, step' = "scan", Len(units') \in Nat
  PROVE  TreeInv'
<1>1. /\ Len(arena') = 0 /\ Len(stack') = 0
      /\ arena' \in Seq(Nodes) /\ stack' \in Seq(Nat)
  OBVIOUS
<1>2. \A n \in 1..Len(arena') : FALSE
  BY <1>1
<1>3. \A n \in 1..Len(stack') : FALSE
  BY <1>1
<1>4. Len(arena') <= Len(units')
  BY <1>1
<1> QED
  BY <1>1, <1>2, <1>3, <1>4 DEF TreeInv, NodesInv, StackInv, StageInv

\* The scan goes on to the interval after the next.
LEMMA Advance ==
  ASSUME ScanState, interval < Len(indices), UNCHANGED Core!sourceVars,
         indices' = indices, interval' = interval + 1, rangeIndex' = Core!NextRange
  PROVE  /\ ScanStart' = Core!IntervalEnd
         /\ (Core!Start(indices[FirstInterval]))' = Core!Start(indices[FirstInterval])
         /\ FirstInterval' = FirstInterval
         /\ interval' \in FirstInterval'..Len(indices')
         /\ rangeIndex' \in 1..(Len(ranges') + 1)
         /\ \A r \in 1..(rangeIndex' - 1) : ranges'[r].end <= ScanStart'
<1>1. /\ interval \in 1..Len(indices) /\ interval + 1 \in 1..Len(indices)
      /\ interval \in Nat /\ interval >= FirstInterval
      /\ Core!IntervalEnd = Core!Start(indices[interval + 1])
      /\ ScanStart \in Nat /\ Core!IntervalEnd \in Nat /\ ScanStart < Core!IntervalEnd
      /\ FirstInterval \in {1, 2}
  BY IntervalIs
<1>2. FirstInterval' = FirstInterval /\ ends' = ends /\ ranges' = ranges
  BY SourceSame DEF Core!sourceVars
<1>3. ScanStart' = Core!IntervalEnd
  <2>1. ScanStart' = Core!Start(indices[interval + 1])
    BY <1>2, Zenon DEF ScanStart, Core!Start
  <2> QED
    BY <1>1, <2>1
<1>4. (Core!Start(indices[FirstInterval]))' = Core!Start(indices[FirstInterval])
  BY <1>2, Zenon DEF Core!Start
<1>5. interval' \in FirstInterval'..Len(indices')
  BY <1>1, <1>2
<1>6. /\ Core!NextRange \in 1..(Len(ranges) + 1)
      /\ \A r \in 1..(Core!NextRange - 1) : ranges[r].end <= ScanStart
  BY NextRangeIs
<1>7. \A r \in 1..(rangeIndex' - 1) : ranges'[r].end <= ScanStart'
  <2>1. ASSUME NEW r \in 1..(Core!NextRange - 1) PROVE ranges[r].end <= Core!IntervalEnd
    <3>1. r \in 1..Len(ranges) /\ ranges[r].end <= ScanStart
      BY <1>6, RangesAre DEF ScanState
    <3>2. ranges[r].end \in Nat
      BY <3>1, RangesAre DEF ScanState
    <3> QED
      BY <1>1, <3>1, <3>2
  <2> QED
    BY <1>2, <1>3, <2>1
<1> QED
  BY <1>2, <1>3, <1>4, <1>5, <1>6, <1>7

LEMMA SkipStep ==
  ASSUME HierarchyInv, Core!SkipInterval
  PROVE  HierarchyInv'
<1>1. /\ step = "scan" /\ interval < Len(indices) /\ Core!Blank
      /\ interval' = interval + 1 /\ rangeIndex' = Core!NextRange
      /\ UNCHANGED Core!sourceVars
      /\ step' = step /\ indices' = indices /\ eventIndex' = eventIndex /\ ending' = ending
      /\ active' = active /\ units' = units /\ arena' = arena /\ stack' = stack
  BY DEF Core!SkipInterval, Core!treeVars
<1>2. /\ ScanState /\ SourceInv /\ arena = <<>> /\ stack = <<>>
      /\ indices = Core!Sorted(Core!Boundaries)
  BY <1>1 DEF HierarchyInv, ScanInv, TreeInv, NodesInv, StackInv, StageInv, ScanState
<1>3. SourceInv'
  BY <1>1, <1>2, SourceKept
<1>4. indices' = Core!Sorted(Core!Boundaries)'
  <2>1. Core!Boundaries' = Core!Boundaries
    BY <1>1, SourceSame
  <2>2. Core!Sorted(Core!Boundaries') = Core!Sorted(Core!Boundaries)'
    BY Zenon DEF Core!Sorted, Core!Cardinality
  <2> QED
    BY <1>1, <1>2, <2>1, <2>2
<1>5. /\ ScanStart' = Core!IntervalEnd
      /\ (Core!Start(indices[FirstInterval]))' = Core!Start(indices[FirstInterval])
      /\ FirstInterval' = FirstInterval
      /\ interval' \in FirstInterval'..Len(indices')
      /\ rangeIndex' \in 1..(Len(ranges') + 1)
      /\ \A r \in 1..(rangeIndex' - 1) : ranges'[r].end <= ScanStart'
  BY <1>1, <1>2, Advance
<1>6. /\ ScanStart \in Nat /\ Core!IntervalEnd \in Nat /\ ScanStart < Core!IntervalEnd
      /\ interval \in Nat /\ FirstInterval \in Nat
  BY <1>1, <1>2, IntervalIs
<1>7. /\ ends' = ends /\ events' = events /\ \A t : Core!Start(t)' = Core!Start(t)
      /\ \A byte : Core!Meaningful(byte)' <=> Core!Meaningful(byte)
  BY <1>1, SourceSame DEF Core!sourceVars
<1>8. PassedInv'
  <2>1. /\ eventIndex \in 1..(Len(events) + 1)
        /\ \A e \in 1..(eventIndex - 1) : events[e].start <= ScanStart
        /\ ending \subseteq 1..(eventIndex - 1)
        /\ \A e \in (1..(eventIndex - 1)) \ ending : events[e].end <= ScanStart
        /\ active = [d \in Depths |-> Cardinality({e \in ending : events[e].depth = d})]
    BY <1>2 DEF ScanState, PassedInv
  <2>2. Len(events) \in Nat /\ \A e \in 1..Len(events) : events[e].start \in Nat /\ events[e].end \in Nat
    BY <1>2, EventsAre
  <2>3. \A e \in 1..(eventIndex - 1) : e \in 1..Len(events)
    BY <2>1, <2>2
  <2>4. /\ \A e \in 1..(eventIndex - 1) : events[e].start <= Core!IntervalEnd
        /\ \A e \in (1..(eventIndex - 1)) \ ending : events[e].end <= Core!IntervalEnd
    BY <1>6, <2>1, <2>2, <2>3
  <2>5. active' = [d \in Depths |-> Cardinality({e \in ending' : events'[e].depth = d})]
    BY <1>1, <1>7, <2>1, Zenon
  <2> QED
    BY <1>1, <1>5, <1>7, <2>1, <2>4, <2>5 DEF PassedInv
<1>9. UnitsInv'
  <2>1. /\ units \in Seq(Units)
        /\ \A n \in 1..Len(units) : \E i \in FirstInterval..(interval - 1) : InInterval(units[n], i)
        /\ \A n, m \in 1..Len(units) : n < m => units[n].end <= units[m].start
        /\ \A byte \in Nat :
             Core!Meaningful(byte) /\ Core!Start(indices[FirstInterval]) <= byte /\ byte < ScanStart
               => \E n \in 1..Len(units) : Core!Covers(units[n], byte)
        /\ \A n \in 1..Len(units) : units[n].depth =
             Core!Highest({0} \cup {events[e].depth :
                e \in {e \in DOMAIN events : Core!Covers(events[e], units[n].start)}})
    BY <1>2 DEF ScanState, UnitsInv
  <2>2. ASSUME NEW n \in 1..Len(units')
        PROVE  \E i \in FirstInterval'..(interval' - 1) : InInterval(units[n], i)'
    <3>1. PICK i \in FirstInterval..(interval - 1) : InInterval(units[n], i)
      BY <1>1, <2>1, <2>2
    <3>2. i \in FirstInterval'..(interval' - 1)
      BY <1>1, <1>5, <1>6
    <3>3. InInterval(units[n], i)'
      BY <1>1, <1>7, <3>1 DEF InInterval
    <3> QED
      BY <3>2, <3>3
  <2>3. ASSUME NEW byte \in Nat, Core!Meaningful(byte),
               Core!Start(indices[FirstInterval]) <= byte, byte < Core!IntervalEnd
        PROVE  \E n \in 1..Len(units) : Core!Covers(units[n], byte)
    <3>1. byte < ScanStart
      BY <1>1, <1>2, <1>6, <2>3, MeaningfulAhead
    <3> QED
      BY <2>1, <2>3, <3>1
  <2>4. \A byte \in Nat :
          (Core!Meaningful(byte))' /\ (Core!Start(indices[FirstInterval]))' <= byte /\ byte < ScanStart'
            => \E n \in 1..Len(units') : Core!Covers(units'[n], byte)
    BY <1>1, <1>5, <1>7, <2>3
  <2>5. \A n \in 1..Len(units') : units'[n].depth =
             Core!Highest({0} \cup {events'[e].depth :
                e \in {e \in DOMAIN events' : Core!Covers(events'[e], units'[n].start)}})
    <3> DEFINE Deepest(us, es) ==
          \A n \in 1..Len(us) : us[n].depth =
             Core!Highest({0} \cup {es[e].depth :
                e \in {e \in DOMAIN es : Core!Covers(es[e], us[n].start)}})
    <3>1. units' = units /\ events' = events
      BY <1>1, <1>7
    <3>2. Deepest(units, events)
      BY <2>1
    <3>3. Deepest(units', events')
      <4> HIDE DEF Deepest
      <4> QED
        BY <3>1, <3>2
    <3> QED
      BY <3>3
  <2> QED
    BY <1>1, <2>1, <2>2, <2>4, <2>5, Zenon DEF UnitsInv
<1>10. ScanInv'
  BY <1>1, <1>4, <1>8, <1>9 DEF ScanInv
<1>11. TreeInv'
  <2>1. Len(units) \in Nat
    BY <1>2 DEF ScanState, UnitsInv
  <2> QED
    BY <1>1, <1>2, <2>1, EmptyTree
<1> QED
  BY <1>3, <1>10, <1>11 DEF HierarchyInv

LEMMA AddStep ==
  ASSUME HierarchyInv, Core!AddUnit
  PROVE  HierarchyInv'
<1>1. /\ step = "scan" /\ interval < Len(indices) /\ ~Core!Blank
      /\ eventIndex' = NextEvent /\ ending' = (ending \cup Begun) \ Ended
      /\ active' = Now /\ units' = Append(units, NewUnit)
      /\ interval' = interval + 1 /\ rangeIndex' = Core!NextRange
      /\ UNCHANGED Core!sourceVars
      /\ step' = step /\ indices' = indices /\ arena' = arena /\ stack' = stack
  BY AddUnitIs
<1>2. /\ ScanState /\ SourceInv /\ arena = <<>> /\ stack = <<>>
      /\ indices = Core!Sorted(Core!Boundaries)
  BY <1>1 DEF HierarchyInv, ScanInv, TreeInv, NodesInv, StackInv, StageInv, ScanState
<1>3. SourceInv'
  BY <1>1, <1>2, SourceKept
<1>4. indices' = Core!Sorted(Core!Boundaries)'
  <2>1. Core!Boundaries' = Core!Boundaries
    BY <1>1, SourceSame
  <2>2. Core!Sorted(Core!Boundaries') = Core!Sorted(Core!Boundaries)'
    BY Zenon DEF Core!Sorted, Core!Cardinality
  <2> QED
    BY <1>1, <1>2, <2>1, <2>2
<1>5. /\ ScanStart' = Core!IntervalEnd
      /\ (Core!Start(indices[FirstInterval]))' = Core!Start(indices[FirstInterval])
      /\ FirstInterval' = FirstInterval
      /\ interval' \in FirstInterval'..Len(indices')
      /\ rangeIndex' \in 1..(Len(ranges') + 1)
      /\ \A r \in 1..(rangeIndex' - 1) : ranges'[r].end <= ScanStart'
  BY <1>1, <1>2, Advance
<1>6. /\ ScanStart \in Nat /\ Core!IntervalEnd \in Nat /\ ScanStart < Core!IntervalEnd
      /\ interval \in Nat /\ FirstInterval \in Nat /\ interval >= FirstInterval
      /\ Core!IntervalEnd = Core!Start(indices[interval + 1])
      /\ Core!MeaningfulEnd \in Nat
      /\ NewStart \in Nat /\ ScanStart <= NewStart
      /\ NewStart < Core!IntervalEnd /\ NewStart < Core!MeaningfulEnd
  BY <1>1, <1>2, IntervalIs, NewStartIs, SourceSpan
<1>7. /\ ends' = ends /\ events' = events /\ \A t : Core!Start(t)' = Core!Start(t)
      /\ \A byte : Core!Meaningful(byte)' <=> Core!Meaningful(byte)
  BY <1>1, SourceSame DEF Core!sourceVars
<1>8. ending' = Covering /\ active' = [d \in Depths |-> Cardinality({e \in Covering : events[e].depth = d})]
        /\ {d \in Depths : Now[d] > 0} = {events[e].depth : e \in Covering}
  BY <1>1, <1>2, QueueIs, NowIs
<1>9. Len(events) \in Nat /\ DOMAIN events = 1..Len(events)
        /\ \A e \in 1..Len(events) : events[e].start \in Nat /\ events[e].end \in Nat /\ events[e].depth \in Nat
  BY <1>2, EventsAre
<1>10. PassedInv'
  <2>1. /\ NextEvent \in 1..(Len(events) + 1)
        /\ \A e \in 1..Len(events) : e < NextEvent <=> events[e].start <= NewStart
    BY <1>1, <1>2, NextEventIs
  <2>2. Covering \subseteq 1..(NextEvent - 1)
    <3>1. ASSUME NEW e \in Covering PROVE e \in 1..(NextEvent - 1)
      <4>1. e \in 1..Len(events) /\ events[e].start <= NewStart
        BY <3>1 DEF Covering, Core!Covers
      <4> QED
        BY <1>9, <2>1, <4>1
    <3> QED
      BY <3>1
  <2>3. ASSUME NEW e \in 1..(NextEvent - 1)
        PROVE  events[e].start <= Core!IntervalEnd /\ (e \notin Covering => events[e].end <= Core!IntervalEnd)
    <3>1. e \in 1..Len(events) /\ e < NextEvent
      BY <1>9, <2>1, <2>3
    <3>2. events[e].start <= NewStart /\ events[e].start \in Nat /\ events[e].end \in Nat
      BY <1>9, <2>1, <3>1
    <3>3. e \notin Covering => ~(NewStart < events[e].end)
      BY <3>1, <3>2 DEF Covering, Core!Covers
    <3> QED
      BY <1>6, <3>2, <3>3
  <2>4. active' = [d \in Depths |-> Cardinality({e \in ending' : events'[e].depth = d})]
    BY <1>7, <1>8, Zenon
  <2>5. /\ eventIndex' \in 1..(Len(events') + 1)
        /\ \A e \in 1..(eventIndex' - 1) : events'[e].start <= ScanStart'
        /\ ending' \subseteq 1..(eventIndex' - 1)
        /\ \A e \in (1..(eventIndex' - 1)) \ ending' : events'[e].end <= ScanStart'
    BY <1>1, <1>5, <1>7, <1>8, <2>1, <2>2, <2>3
  <2> QED
    BY <1>5, <2>4, <2>5 DEF PassedInv
<1>11. /\ NewUnit.start = NewStart /\ NewUnit.end \in Nat /\ NewUnit.depth \in Nat /\ NewUnit \in Units
       /\ NewUnit.end <= Core!IntervalEnd
       /\ NewUnit.end = (IF Core!IntervalEnd < Core!MeaningfulEnd THEN Core!IntervalEnd ELSE Core!MeaningfulEnd)
       /\ NewUnit.depth = Core!Highest({0} \cup {events[e].depth :
                e \in {e \in DOMAIN events : Core!Covers(events[e], NewStart)}})
  <2>1. Covering = {e \in DOMAIN events : Core!Covers(events[e], NewStart)}
    BY <1>9 DEF Covering
  <2>2. NewUnit.depth = Core!Highest({0} \cup {events[e].depth : e \in Covering})
    BY <1>8, Zenon DEF NewUnit
  <2>3. Core!Highest({0} \cup {events[e].depth : e \in Covering}) \in Nat
    <3>1. PICK top \in Nat : \A e \in 1..Len(events) : events[e].depth <= top
      <4> DEFINE f == [e \in 1..Len(events) |-> events[e].depth]
      <4>1. \A e \in 1..Len(events) : f[e] \in Nat /\ f[e] = events[e].depth
        BY <1>9
      <4> HIDE DEF f
      <4>2. \E top \in Nat : \A e \in 1..Len(events) : f[e] <= top
        BY <1>9, <4>1, SomeBound
      <4> QED
        BY <4>1, <4>2
    <3> DEFINE S == {0} \cup {events[e].depth : e \in Covering}
    <3>2. S \in SUBSET Nat /\ S # {} /\ \A y \in S : y <= top
      BY <1>9, <3>1 DEF Covering
    <3> HIDE DEF S
    <3>3. Core!Highest(S) \in Nat
      BY <3>2, HighestIs
    <3> QED
      BY <3>3 DEF S
  <2>4. NewUnit.end \in Nat /\ NewUnit.end <= Core!IntervalEnd /\ NewUnit.start = NewStart
       /\ NewUnit.end = (IF Core!IntervalEnd < Core!MeaningfulEnd THEN Core!IntervalEnd ELSE Core!MeaningfulEnd)
    BY <1>6 DEF NewUnit
  <2>5. NewUnit \in Units
    <3>1. NewUnit = [start |-> NewUnit.start, end |-> NewUnit.end, depth |-> NewUnit.depth]
      BY DEF NewUnit
    <3> QED
      BY <1>6, <2>2, <2>3, <2>4, <3>1 DEF Units
  <2> QED
    BY <2>1, <2>2, <2>3, <2>4, <2>5
<1>12. UnitsInv'
  <2>1. /\ units \in Seq(Units)
        /\ \A n \in 1..Len(units) : \E i \in FirstInterval..(interval - 1) : InInterval(units[n], i)
        /\ \A n, m \in 1..Len(units) : n < m => units[n].end <= units[m].start
        /\ \A byte \in Nat :
             Core!Meaningful(byte) /\ Core!Start(indices[FirstInterval]) <= byte /\ byte < ScanStart
               => \E n \in 1..Len(units) : Core!Covers(units[n], byte)
        /\ \A n \in 1..Len(units) : units[n].depth =
             Core!Highest({0} \cup {events[e].depth :
                e \in {e \in DOMAIN events : Core!Covers(events[e], units[n].start)}})
    BY <1>2 DEF ScanState, UnitsInv
  <2>2. /\ units' \in Seq(Units) /\ Len(units') = Len(units) + 1 /\ Len(units) \in Nat
        /\ \A n \in 1..Len(units) : units'[n] = units[n]
        /\ units'[Len(units) + 1] = NewUnit
        /\ \A n \in 1..Len(units') : n \in 1..Len(units) \/ n = Len(units) + 1
    <3>1. Len(units) \in Nat
      BY <2>1
    <3> QED
      BY <1>1, <1>11, <2>1, <3>1
  <2>3. ASSUME NEW n \in 1..Len(units')
        PROVE  \E i \in FirstInterval'..(interval' - 1) : InInterval(units[n], i)'
    <3>1. CASE n \in 1..Len(units)
      <4>1. PICK i \in FirstInterval..(interval - 1) : InInterval(units[n], i)
        BY <2>1, <3>1
      <4>2. i \in FirstInterval'..(interval' - 1)
        BY <1>1, <1>5, <1>6
      <4>3. InInterval(units[n], i)'
        BY <1>1, <1>7, <2>2, <3>1, <4>1 DEF InInterval
      <4> QED
        BY <4>2, <4>3
    <3>2. CASE n = Len(units) + 1
      <4>1. interval \in FirstInterval'..(interval' - 1)
        BY <1>1, <1>5, <1>6
      <4>2. /\ Core!Start(indices[interval]) <= NewUnit.start
            /\ NewUnit.start < Core!Start(indices[interval + 1])
            /\ NewUnit.end <= Core!Start(indices[interval + 1])
        BY <1>6, <1>11 DEF ScanStart
      <4>3. \A i : i = interval => InInterval(units[n], i)'
        BY <1>1, <1>7, <2>2, <3>2, <4>2 DEF InInterval
      <4> QED
        BY <4>1, <4>3
    <3> QED
      BY <2>2, <2>3, <3>1, <3>2
  <2>4. ASSUME NEW n \in 1..Len(units) PROVE units[n].end <= ScanStart /\ units[n].end \in Nat
    <3>1. PICK i \in FirstInterval..(interval - 1) : InInterval(units[n], i)
      BY <2>1
    <3>2. i + 1 \in 1..Len(indices) /\ interval \in 1..Len(indices) /\ (i + 1 = interval \/ i + 1 < interval)
      BY <1>1, <1>2, <1>6, IntervalIs
    <3>3. Core!Start(indices[i + 1]) <= ScanStart /\ Core!Start(indices[i + 1]) \in Nat
      <4>1. /\ \A k \in 1..Len(indices) : Core!Start(indices[k]) \in Nat
            /\ \A j, k \in 1..Len(indices) : j < k => Core!Start(indices[j]) < Core!Start(indices[k])
        BY <1>2, IndicesAre
      <4>2. CASE i + 1 = interval
        BY <1>6, <4>2 DEF ScanStart
      <4>3. CASE i + 1 < interval
        <5>1. Core!Start(indices[i + 1]) < Core!Start(indices[interval])
          BY <3>2, <4>1, <4>3
        <5>2. Core!Start(indices[i + 1]) \in Nat /\ Core!Start(indices[interval]) \in Nat
          BY <3>2, <4>1
        <5> QED
          BY <5>1, <5>2 DEF ScanStart
      <4> QED
        BY <3>2, <4>2, <4>3
    <3>4. units[n] \in Units
      BY <2>1, ElementsAre
    <3> QED
      BY <1>6, <3>1, <3>3, <3>4 DEF InInterval, Units
  <2>5. ASSUME NEW n \in 1..Len(units'), NEW m \in 1..Len(units'), n < m
        PROVE  units'[n].end <= units'[m].start
    <3>1. n \in 1..Len(units)
      BY <2>2, <2>5
    <3>2. CASE m \in 1..Len(units)
      BY <2>1, <2>2, <2>5, <3>1, <3>2
    <3>3. CASE m = Len(units) + 1
      BY <1>6, <1>11, <2>2, <2>4, <3>1, <3>3
    <3> QED
      BY <2>2, <3>2, <3>3
  <2>6. ASSUME NEW byte \in Nat, Core!Meaningful(byte),
               Core!Start(indices[FirstInterval]) <= byte, byte < Core!IntervalEnd
        PROVE  \E n \in 1..Len(units') : Core!Covers(units'[n], byte)
    <3>1. CASE byte < ScanStart
      <4>1. PICK n \in 1..Len(units) : Core!Covers(units[n], byte)
        BY <2>1, <2>6, <3>1
      <4> QED
        BY <2>2, <4>1
    <3>2. CASE ScanStart <= byte
      <4>1. NewStart <= byte /\ byte < Core!MeaningfulEnd
        BY <1>1, <1>2, <2>6, <3>2, NewStartIs, MeaningfulAhead
      <4>2. Core!Covers(NewUnit, byte)
        BY <1>6, <1>11, <2>6, <4>1 DEF Core!Covers
      <4>3. Len(units) + 1 \in 1..Len(units')
        BY <2>2
      <4> QED
        BY <2>2, <4>2, <4>3
    <3> QED
      BY <1>6, <3>1, <3>2
  <2>7. \A byte \in Nat :
          (Core!Meaningful(byte))' /\ (Core!Start(indices[FirstInterval]))' <= byte /\ byte < ScanStart'
            => \E n \in 1..Len(units') : Core!Covers(units'[n], byte)
    BY <1>5, <1>7, <2>6
  <2>8. ASSUME NEW n \in 1..Len(units')
        PROVE  units'[n].depth =
             Core!Highest({0} \cup {events'[e].depth :
                e \in {e \in DOMAIN events' : Core!Covers(events'[e], units'[n].start)}})
    <3>1. CASE n \in 1..Len(units)
      BY <1>7, <2>1, <2>2, <3>1, Zenon
    <3>2. CASE n = Len(units) + 1
      BY <1>7, <1>11, <2>2, <3>2, Zenon
    <3> QED
      BY <2>2, <3>1, <3>2
  <2> QED
    BY <2>2, <2>3, <2>5, <2>7, <2>8, Zenon DEF UnitsInv
<1>13. ScanInv'
  BY <1>1, <1>4, <1>10, <1>12 DEF ScanInv
<1>14. TreeInv'
  <2>1. Len(units') \in Nat
    BY <1>12 DEF UnitsInv
  <2> QED
    BY <1>1, <1>2, <2>1, EmptyTree
<1> QED
  BY <1>3, <1>13, <1>14 DEF HierarchyInv

\* Where only the tree grows, the source and the units are as they were.
LEMMA ScanKept ==
  ASSUME HierarchyInv, step # "detect", step' \in {"scan", "build", "done"},
         UNCHANGED <<Core!sourceVars, indices, Core!scanVars>>
  PROVE  SourceInv' /\ ScanInv'
<1>1. /\ UNCHANGED Core!sourceVars
      /\ interval' = interval /\ rangeIndex' = rangeIndex
      /\ indices' = indices /\ eventIndex' = eventIndex /\ ending' = ending
      /\ active' = active /\ units' = units
  BY DEF Core!scanVars
<1>2. ScanState /\ SourceInv /\ indices = Core!Sorted(Core!Boundaries)
  BY DEF HierarchyInv, ScanInv, ScanState
<1>3. SourceInv'
  BY <1>1, <1>2, SourceKept
<1>4. indices' = Core!Sorted(Core!Boundaries)'
  <2>1. Core!Boundaries' = Core!Boundaries
    BY <1>1, SourceSame
  <2>2. Core!Sorted(Core!Boundaries') = Core!Sorted(Core!Boundaries)'
    BY Zenon DEF Core!Sorted, Core!Cardinality
  <2> QED
    BY <1>1, <1>2, <2>1, <2>2
<1>5. /\ ends' = ends /\ events' = events /\ ranges' = ranges
      /\ \A t : Core!Start(t)' = Core!Start(t)
      /\ \A byte : Core!Meaningful(byte)' <=> Core!Meaningful(byte)
      /\ FirstInterval' = FirstInterval
  BY <1>1, SourceSame DEF Core!sourceVars
<1>6. /\ ScanStart' = ScanStart
      /\ (Core!Start(indices[FirstInterval]))' = Core!Start(indices[FirstInterval])
  BY <1>1, <1>5, Zenon DEF ScanStart, Core!Start
<1>7. PassedInv'
  BY <1>1, <1>2, <1>5, <1>6, Zenon DEF PassedInv, ScanState
<1>8. UnitsInv'
  <2>1. /\ units \in Seq(Units)
        /\ \A n \in 1..Len(units) : \E i \in FirstInterval..(interval - 1) : InInterval(units[n], i)
        /\ \A n, m \in 1..Len(units) : n < m => units[n].end <= units[m].start
        /\ \A byte \in Nat :
             Core!Meaningful(byte) /\ Core!Start(indices[FirstInterval]) <= byte /\ byte < ScanStart
               => \E n \in 1..Len(units) : Core!Covers(units[n], byte)
        /\ \A n \in 1..Len(units) : units[n].depth =
             Core!Highest({0} \cup {events[e].depth :
                e \in {e \in DOMAIN events : Core!Covers(events[e], units[n].start)}})
    BY <1>2 DEF ScanState, UnitsInv
  <2>2. ASSUME NEW n \in 1..Len(units')
        PROVE  \E i \in FirstInterval'..(interval' - 1) : InInterval(units[n], i)'
    <3>1. PICK i \in FirstInterval..(interval - 1) : InInterval(units[n], i)
      BY <1>1, <2>1, <2>2
    <3>2. InInterval(units[n], i)'
      BY <1>1, <1>5, <3>1 DEF InInterval
    <3> QED
      BY <1>1, <1>5, <3>2
  <2>3. \A byte \in Nat :
          (Core!Meaningful(byte))' /\ (Core!Start(indices[FirstInterval]))' <= byte /\ byte < ScanStart'
            => \E n \in 1..Len(units') : Core!Covers(units'[n], byte)
    BY <1>1, <1>5, <1>6, <2>1
  <2>4. \A n \in 1..Len(units') : units'[n].depth =
             Core!Highest({0} \cup {events'[e].depth :
                e \in {e \in DOMAIN events' : Core!Covers(events'[e], units'[n].start)}})
    <3> DEFINE Deepest(us, es) ==
          \A n \in 1..Len(us) : us[n].depth =
             Core!Highest({0} \cup {es[e].depth :
                e \in {e \in DOMAIN es : Core!Covers(es[e], us[n].start)}})
    <3>1. units' = units /\ events' = events
      BY <1>1, <1>5
    <3>2. Deepest(units, events)
      BY <2>1
    <3>3. Deepest(units', events')
      <4> HIDE DEF Deepest
      <4> QED
        BY <3>1, <3>2
    <3> QED
      BY <3>3
  <2> QED
    BY <1>1, <2>1, <2>2, <2>3, <2>4, Zenon DEF UnitsInv
<1> QED
  BY <1>3, <1>4, <1>7, <1>8 DEF ScanInv

LEMMA ScannedStep ==
  ASSUME HierarchyInv, Core!Scanned
  PROVE  HierarchyInv'
<1>1. /\ step = "scan" /\ interval >= Len(indices)
      /\ step' = IF mode = "structural" /\ Len(units) = 1 THEN "done" ELSE "build"
      /\ UNCHANGED <<Core!sourceVars, indices, Core!scanVars>>
      /\ interval' = interval /\ indices' = indices /\ units' = units
      /\ arena' = arena /\ stack' = stack /\ mode' = mode
  BY DEF Core!Scanned, Core!treeVars, Core!scanVars, Core!sourceVars
<1>2. SourceInv' /\ ScanInv'
  BY <1>1, ScanKept
<1>3. /\ arena = <<>> /\ stack = <<>> /\ ScanState
  BY <1>1 DEF HierarchyInv, ScanInv, TreeInv, NodesInv, StackInv, StageInv, ScanState
<1>4. interval' = Len(indices')
  <2>1. interval \in FirstInterval..Len(indices) /\ FirstInterval \in {1, 2} /\ Len(indices) \in Nat
    BY <1>3, IndicesAre DEF ScanState, PassedInv, FirstInterval
  <2> QED
    BY <1>1, <2>1
<1>5. TreeInv'
  <2>1. /\ Len(arena') = 0 /\ Len(stack') = 0 /\ arena' = <<>>
        /\ arena' \in Seq(Nodes) /\ stack' \in Seq(Nat) /\ Len(units') \in Nat
    BY <1>1, <1>3 DEF ScanState, UnitsInv
  <2>2. (\A n \in 1..Len(arena') : FALSE) /\ (\A n \in 1..Len(stack') : FALSE)
          /\ Len(arena') <= Len(units')
    BY <2>1
  <2>3. step' \notin {"detect", "scan"}
    BY <1>1
  <2>4. step' = "done" => Len(units') = 1 /\ mode' = "structural"
    BY <1>1
  <2> QED
    BY <1>4, <2>1, <2>2, <2>3, <2>4 DEF TreeInv, NodesInv, StackInv, StageInv
<1> QED
  BY <1>2, <1>5 DEF HierarchyInv

LEMMA UnitsAre ==
  ASSUME HierarchyInv, step # "detect"
  PROVE  /\ Len(units) \in Nat /\ DOMAIN units = 1..Len(units)
         /\ \A n \in 1..Len(units) :
              units[n].start \in Nat /\ units[n].end \in Nat /\ units[n].depth \in Nat
<1>1. units \in Seq(Units)
  BY DEF HierarchyInv, ScanInv, UnitsInv
<1>2. \A n \in 1..Len(units) : units[n] \in Units
  BY <1>1, ElementsAre
<1> QED
  BY <1>1, <1>2 DEF Units

LEMMA NearestIs ==
  ASSUME NEW n \in Nat
  PROVE  /\ Nearest(n) \in Nat
         /\ Nearest(n) # 0 => Nearest(n) \in 1..(n - 1) /\ units[Nearest(n)].depth < units[n].depth
         /\ \A m \in 1..(n - 1) : units[m].depth < units[n].depth => m <= Nearest(n)
<1> DEFINE S == {0} \cup {m \in 1..(n - 1) : units[m].depth < units[n].depth}
<1>1. S \in SUBSET Nat /\ S # {} /\ \A y \in S : y <= n
  OBVIOUS
<1>2. Core!Highest(S) \in S /\ Core!Highest(S) \in Nat /\ \A y \in S : y <= Core!Highest(S)
  BY <1>1, HighestIs
<1>3. Nearest(n) = Core!Highest(S)
  BY DEF Nearest
<1> QED
  BY <1>2, <1>3

Deepness == Core!Highest({0} \cup {i \in DOMAIN stack :
                Core!Nests(arena[stack[i]].depth, units[Len(arena) + 1].depth)})
Kept == SubSeq(stack, 1, Deepness)
Parent == IF Kept = <<>> THEN 0 ELSE Kept[Len(Kept)]
NewNode ==
  [start |-> units[Len(arena) + 1].start, end |-> units[Len(arena) + 1].end,
   depth |-> units[Len(arena) + 1].depth, parent |-> Parent,
   level |-> IF Parent = 0 THEN 2 ELSE arena[Parent].level + 1]

LEMMA PlaceIs ==
  ASSUME Core!Place
  PROVE  /\ step = "build" /\ Len(arena) < Len(units)
         /\ arena' = Append(arena, NewNode) /\ stack' = Append(Kept, Len(arena) + 1)
         /\ UNCHANGED <<Core!sourceVars, indices, Core!scanVars>> /\ step' = step
         /\ units' = units /\ interval' = interval /\ indices' = indices
BY Zenon DEF Core!Place, Deepness, Kept, Parent, NewNode, Core!scanVars

\* What is kept of the stack: the units that are less deep than the next.
LEMMA KeptIs ==
  ASSUME HierarchyInv, step = "build", Len(arena) < Len(units)
  PROVE  /\ Len(Kept) \in 0..Len(stack) /\ Kept \in Seq(Nat)
         /\ \A i \in 1..Len(Kept) : Kept[i] = stack[i]
         /\ \A i \in 1..Len(stack) : i \in 1..Len(Kept) <=>
              units[stack[i]].depth < units[Len(arena) + 1].depth
<1> DEFINE d == units[Len(arena) + 1].depth
<1> DEFINE S == {0} \cup {i \in DOMAIN stack : Core!Nests(arena[stack[i]].depth, d)}
<1>1. /\ Len(units) \in Nat /\ \A n \in 1..Len(units) : units[n].depth \in Nat
      /\ Len(arena) \in Nat
  BY UnitsAre DEF HierarchyInv, TreeInv, NodesInv, StackInv, StageInv
<1>2. /\ stack \in Seq(Nat) /\ Len(stack) \in Nat /\ DOMAIN stack = 1..Len(stack)
      /\ \A i \in 1..Len(stack) : stack[i] \in 1..Len(arena)
      /\ \A i, j \in 1..Len(stack) : i < j => units[stack[i]].depth < units[stack[j]].depth
      /\ \A n \in 1..Len(arena) : arena[n].depth = units[n].depth
  <2>1. StackInv /\ \A n \in 1..Len(arena) : arena[n].depth = units[n].depth
    BY DEF HierarchyInv, TreeInv, NodesInv
  <2>2. stack \in Seq(Nat) /\ \A i \in 1..Len(stack) : stack[i] \in 1..Len(arena)
    BY <2>1, Zenon DEF StackInv
  <2>3. \A i, j \in 1..Len(stack) : i < j => units[stack[i]].depth < units[stack[j]].depth
    BY <2>1, Zenon DEF StackInv
  <2>4. Len(stack) \in Nat /\ DOMAIN stack = 1..Len(stack)
    BY <2>2
  <2> QED
    BY <2>1, <2>2, <2>3, <2>4, Zenon
<1>3. \A i \in 1..Len(stack) : units[stack[i]].depth \in Nat /\ arena[stack[i]].depth = units[stack[i]].depth
  BY <1>1, <1>2
<1>4. d \in Nat
  BY <1>1
<1>5. \A i \in 1..Len(stack) : i \in S <=> units[stack[i]].depth < d
  BY <1>2, <1>3 DEF Core!Nests
<1>6. S \in SUBSET Nat /\ 0 \in S /\ (\A y \in S : y <= Len(stack)) /\ \A y \in S : y = 0 \/ y \in 1..Len(stack)
  BY <1>2
<1>7. Deepness \in S /\ Deepness \in Nat /\ \A y \in S : y <= Deepness
  <2>1. Deepness = Core!Highest(S)
    BY DEF Deepness
  <2> HIDE DEF S
  <2> QED
    BY <1>2, <1>6, <2>1, HighestIs
<1> HIDE DEF S, d
<1>8. Deepness \in 0..Len(stack)
  BY <1>2, <1>6, <1>7
<1>9. /\ Len(Kept) = Deepness /\ Kept \in Seq(Nat)
      /\ \A i \in 1..Deepness : Kept[i] = stack[i]
  BY <1>2, <1>8 DEF Kept
<1>10. ASSUME NEW i \in 1..Len(stack) PROVE i <= Deepness <=> units[stack[i]].depth < d
  <2>1. CASE units[stack[i]].depth < d
    BY <1>5, <1>7, <2>1
  <2>2. CASE i <= Deepness
    <3>1. Deepness \in 1..Len(stack)
      BY <1>8, <2>2
    <3>2. units[stack[Deepness]].depth < d
      BY <1>5, <1>7, <3>1
    <3>3. i = Deepness \/ units[stack[i]].depth < units[stack[Deepness]].depth
      BY <1>2, <2>2, <3>1
    <3>4. units[stack[i]].depth \in Nat /\ units[stack[Deepness]].depth \in Nat
      BY <1>3, <3>1
    <3> QED
      <4>1. CASE i = Deepness
        BY <2>2, <3>2, <4>1, Zenon
      <4>2. CASE units[stack[i]].depth < units[stack[Deepness]].depth
        BY ONLY <1>4, <2>2, <3>2, <3>4, <4>2
      <4> QED
        BY <3>3, <4>1, <4>2
  <2> QED
    BY <2>1, <2>2
<1> QED
  BY <1>8, <1>9, <1>10 DEF d

LEMMA ParentIs ==
  ASSUME HierarchyInv, step = "build", Len(arena) < Len(units)
  PROVE  Parent = Nearest(Len(arena) + 1)
<1> DEFINE n == Len(arena) + 1
<1> DEFINE p == Nearest(n)
<1>1. /\ Len(units) \in Nat /\ \A k \in 1..Len(units) : units[k].depth \in Nat
      /\ Len(arena) \in Nat /\ n \in Nat /\ n - 1 = Len(arena) /\ n \in 1..Len(units)
  BY UnitsAre DEF HierarchyInv, TreeInv, NodesInv, StackInv, StageInv
<1>2. /\ Len(stack) \in Nat
      /\ \A i \in 1..Len(stack) : stack[i] \in 1..Len(arena)
      /\ \A i, j \in 1..Len(stack) : i < j => stack[i] < stack[j]
      /\ \A m \in 1..Len(arena) :
       (\A k \in (m + 1)..Len(arena) : units[m].depth < units[k].depth)
         => \E i \in 1..Len(stack) : stack[i] = m
  BY DEF HierarchyInv, TreeInv, NodesInv, StackInv, StageInv
<1>3. /\ Len(Kept) \in 0..Len(stack) /\ Kept \in Seq(Nat)
      /\ \A i \in 1..Len(Kept) : Kept[i] = stack[i]
      /\ \A i \in 1..Len(stack) : i \in 1..Len(Kept) <=> units[stack[i]].depth < units[n].depth
  BY KeptIs
<1>4. /\ p \in Nat
      /\ p # 0 => p \in 1..Len(arena) /\ units[p].depth < units[n].depth
      /\ \A m \in 1..Len(arena) : units[m].depth < units[n].depth => m <= p
  BY <1>1, NearestIs
<1> HIDE DEF n, p
<1>5. CASE p = 0
  <2>1. Len(Kept) = 0
    <3>1. SUFFICES ASSUME Len(Kept) # 0 PROVE FALSE
      OBVIOUS
    <3>2. 1 \in 1..Len(Kept) /\ 1 \in 1..Len(stack)
      BY <1>2, <1>3, <3>1
    <3>3. stack[1] \in 1..Len(arena) /\ units[stack[1]].depth < units[n].depth
      BY <1>2, <1>3, <3>2
    <3>4. stack[1] <= p
      BY <1>4, <3>3
    <3> QED
      BY <1>1, <1>5, <3>3, <3>4
  <2>2. Kept = <<>>
    BY <1>3, <2>1, NoLength
  <2> QED
    BY <1>5, <2>2 DEF Parent, n, p
<1>6. CASE p # 0
  <2>1. \A k \in (p + 1)..Len(arena) : units[p].depth < units[k].depth
    <3>1. ASSUME NEW k \in (p + 1)..Len(arena) PROVE units[p].depth < units[k].depth
      <4>1. k \in 1..Len(arena) /\ ~(k <= p)
        BY <1>1, <1>4, <3>1
      <4>2. ~(units[k].depth < units[n].depth) /\ units[p].depth < units[n].depth
        BY <1>4, <1>6, <4>1
      <4>3. k \in 1..Len(units) /\ p \in 1..Len(units)
        BY <1>1, <1>4, <1>6, <4>1
      <4>4. units[k].depth \in Nat /\ units[n].depth \in Nat /\ units[p].depth \in Nat
        BY <1>1, <4>3
      <4> QED
        BY <4>2, <4>4
    <3> QED
      BY <3>1
  <2>2. PICK i \in 1..Len(stack) : stack[i] = p
    BY <1>2, <1>4, <1>6, <2>1
  <2>3. i \in 1..Len(Kept)
    BY <1>3, <1>4, <1>6, <2>2
  <2> DEFINE h == Len(Kept)
  <2>4. h \in 1..Len(Kept) /\ h \in 1..Len(stack) /\ (i = h \/ i < h) /\ h # 0
    BY <1>2, <1>3, <2>3
  <2>5. Kept[h] = stack[h] /\ units[stack[h]].depth < units[n].depth /\ stack[h] \in 1..Len(arena)
    BY <1>2, <1>3, <2>4
  <2>6. stack[h] <= p
    BY <1>4, <2>5
  <2>7. i = h \/ p < stack[h]
    BY <1>2, <2>2, <2>4
  <2>8. stack[h] = p
    BY <1>1, <1>4, <2>2, <2>5, <2>6, <2>7
  <2>9. Kept # <<>>
    BY <1>3, <2>4, NoLength
  <2> QED
    BY <2>5, <2>8, <2>9 DEF Parent, n, p
<1> QED
  BY <1>5, <1>6

LEMMA PlaceStep ==
  ASSUME HierarchyInv, Core!Place
  PROVE  HierarchyInv'
<1> DEFINE n == Len(arena) + 1
<1> DEFINE p == Nearest(n)
<1> DEFINE h == Len(Kept)
<1>1. /\ step = "build" /\ Len(arena) < Len(units)
      /\ arena' = Append(arena, NewNode) /\ stack' = Append(Kept, n)
      /\ UNCHANGED <<Core!sourceVars, indices, Core!scanVars>> /\ step' = step
      /\ units' = units /\ interval' = interval /\ indices' = indices
  BY PlaceIs
<1>2. SourceInv' /\ ScanInv'
  BY <1>1, ScanKept
<1>3. /\ arena \in Seq(Nodes) /\ Len(arena) \in Nat
      /\ \A m \in 1..Len(arena) :
           /\ arena[m].start = units[m].start /\ arena[m].depth = units[m].depth
           /\ arena[m].parent = Nearest(m)
           /\ arena[m].level = IF arena[m].parent = 0 THEN 2 ELSE arena[arena[m].parent].level + 1
           /\ arena[m].end = units[m].end
      /\ stack \in Seq(Nat) /\ Len(stack) \in Nat
      /\ \A i \in 1..Len(stack) : stack[i] \in 1..Len(arena)
      /\ \A i, j \in 1..Len(stack) : i < j =>
           stack[i] < stack[j] /\ units[stack[i]].depth < units[stack[j]].depth
      /\ \A m \in 1..Len(arena) :
           (\A k \in (m + 1)..Len(arena) : units[m].depth < units[k].depth)
             => \E i \in 1..Len(stack) : stack[i] = m
      /\ interval = Len(indices)
  BY <1>1 DEF HierarchyInv, TreeInv, NodesInv, StackInv, StageInv
<1>4. /\ Len(units) \in Nat
      /\ \A m \in 1..Len(units) :
           units[m].start \in Nat /\ units[m].end \in Nat /\ units[m].depth \in Nat
  BY <1>1, UnitsAre
<1>5. n \in 1..Len(units) /\ n \in Nat /\ n - 1 = Len(arena)
  BY <1>1, <1>3, <1>4
<1>6. /\ h \in 0..Len(stack) /\ Kept \in Seq(Nat)
      /\ \A i \in 1..h : Kept[i] = stack[i]
      /\ \A i \in 1..Len(stack) : i \in 1..h <=> units[stack[i]].depth < units[n].depth
  BY <1>1, KeptIs
<1>7. /\ Parent = p /\ p \in Nat /\ (p # 0 => p \in 1..Len(arena))
  BY <1>1, <1>5, ParentIs, NearestIs
<1>8. /\ NewNode.start = units[n].start /\ NewNode.end = units[n].end
      /\ NewNode.depth = units[n].depth /\ NewNode.parent = p
      /\ NewNode.level = (IF p = 0 THEN 2 ELSE arena[p].level + 1)
      /\ NewNode \in Nodes
  <2>1. \A m \in 1..Len(arena) : arena[m].level \in Nat
    <3>1. \A m \in 1..Len(arena) : arena[m] \in Nodes
      BY <1>3, ElementsAre
    <3> QED
      BY <3>1 DEF Nodes
  <2>2. NewNode = [start |-> units[n].start, end |-> units[n].end, depth |-> units[n].depth,
                   parent |-> p, level |-> IF p = 0 THEN 2 ELSE arena[p].level + 1]
    BY <1>7, Zenon DEF NewNode
  <2>3. (IF p = 0 THEN 2 ELSE arena[p].level + 1) \in Nat
    BY <1>7, <2>1
  <2> HIDE DEF n, p
  <2> QED
    BY <1>4, <1>5, <1>7, <2>2, <2>3 DEF Nodes
<1>9. /\ arena' \in Seq(Nodes) /\ Len(arena') = n
      /\ \A m \in 1..Len(arena) : arena'[m] = arena[m]
      /\ arena'[n] = NewNode /\ \A m \in 1..n : m \in 1..Len(arena) \/ m = n
  BY <1>1, <1>3, <1>8
<1>10. /\ stack' \in Seq(Nat) /\ Len(stack') = h + 1 /\ stack'[h + 1] = n
       /\ \A i \in 1..h : stack'[i] = stack[i] /\ i \in 1..Len(stack)
       /\ \A i \in 1..(h + 1) : i \in 1..h \/ i = h + 1
  BY <1>1, <1>3, <1>5, <1>6
<1>11. \A m : Nearest(m)' = Nearest(m)
  BY <1>1, Zenon DEF Nearest
<1> HIDE DEF n, p, h
<1>12. ASSUME NEW m \in 1..Len(arena')
       PROVE  /\ arena'[m].start = units[m].start /\ arena'[m].depth = units[m].depth
              /\ arena'[m].parent = Nearest(m) /\ arena'[m].end = units[m].end
              /\ arena'[m].level = IF arena'[m].parent = 0 THEN 2 ELSE arena'[arena'[m].parent].level + 1
  <2>1. CASE m \in 1..Len(arena)
    <3>1. Nearest(m) # 0 => Nearest(m) \in 1..Len(arena)
      <4>1. m \in Nat /\ (Nearest(m) # 0 => Nearest(m) \in 1..(m - 1))
        BY <1>3, <2>1, NearestIs
      <4> QED
        BY <1>3, <2>1, <4>1
    <3> QED
      BY <1>3, <1>9, <2>1, <3>1
  <2>2. CASE m = n
    <3>1. p # 0 => arena'[p] = arena[p]
      BY <1>7, <1>9
    <3>2. Nearest(m) = p
      BY <2>2 DEF p
    <3> QED
      BY <1>8, <1>9, <2>2, <3>1, <3>2
  <2> QED
    BY <1>9, <1>12, <2>1, <2>2
<1>13. ASSUME NEW i \in 1..Len(stack') PROVE stack'[i] \in 1..Len(arena')
  <2>1. CASE i \in 1..h
    <3>1. stack'[i] \in 1..Len(arena)
      BY <1>3, <1>10, <2>1
    <3> QED
      BY <1>3, <1>5, <1>9, <3>1
  <2>2. CASE i = h + 1
    BY <1>5, <1>9, <1>10, <2>2
  <2> QED
    BY <1>10, <2>1, <2>2
<1>14. ASSUME NEW i \in 1..Len(stack'), NEW j \in 1..Len(stack'), i < j
       PROVE  stack'[i] < stack'[j] /\ units[stack'[i]].depth < units[stack'[j]].depth
  <2>0. h \in Nat
    BY <1>3, <1>6
  <2>1. i \in 1..h
    BY <1>10, <1>14, <2>0
  <2>2. CASE j \in 1..h
    BY <1>3, <1>10, <1>14, <2>1, <2>2
  <2>3. CASE j = h + 1
    <3>1. stack[i] \in 1..Len(arena) /\ units[stack[i]].depth < units[n].depth
      BY <1>3, <1>6, <1>10, <2>1
    <3>2. stack[i] < n
      BY <1>3, <1>5, <3>1
    <3> QED
      BY <1>10, <2>1, <2>3, <3>1, <3>2
  <2> QED
    BY <1>10, <2>2, <2>3
<1>15. ASSUME NEW m \in 1..Len(arena'),
              \A k \in (m + 1)..Len(arena') : units[m].depth < units[k].depth
       PROVE  \E i \in 1..Len(stack') : stack'[i] = m
  <2>0. h \in Nat
    BY <1>3, <1>6
  <2>1. CASE m = n
    <3>1. h + 1 \in 1..Len(stack')
      BY <1>10, <2>0
    <3> QED
      BY <1>10, <2>1, <3>1
  <2>2. CASE m \in 1..Len(arena)
    <3>1. n \in (m + 1)..Len(arena') /\ \A k \in (m + 1)..Len(arena) : k \in (m + 1)..Len(arena')
      BY <1>3, <1>5, <1>9, <2>2
    <3>2. PICK i \in 1..Len(stack) : stack[i] = m
      BY <1>3, <1>15, <2>2, <3>1
    <3>3. i \in 1..h
      BY <1>6, <1>15, <3>1, <3>2
    <3>4. i \in 1..Len(stack')
      BY <1>10, <2>0, <3>3
    <3> QED
      BY <1>10, <3>2, <3>3, <3>4
  <2> QED
    BY <1>9, <1>15, <2>1, <2>2
<1>16. TreeInv'
  <2>1. Len(arena') <= Len(units')
    BY <1>1, <1>4, <1>5, <1>9
  <2>2. ASSUME NEW m \in 1..Len(arena')
        PROVE  /\ arena'[m].start = units'[m].start /\ arena'[m].depth = units'[m].depth
               /\ arena'[m].parent = Nearest(m)'
               /\ arena'[m].level = (IF arena'[m].parent = 0 THEN 2 ELSE arena'[arena'[m].parent].level + 1)
               /\ arena'[m].end = IF step' = "done" THEN Core!Highest({units[k].end : k \in Span(m)})'
                                  ELSE units'[m].end
    <3>1. /\ arena'[m].start = units'[m].start /\ arena'[m].depth = units'[m].depth
               /\ arena'[m].parent = Nearest(m)'
               /\ arena'[m].level = (IF arena'[m].parent = 0 THEN 2 ELSE arena'[arena'[m].parent].level + 1)
      BY <1>1, <1>11, <1>12
    <3>2. arena'[m].end = units'[m].end /\ step' # "done"
      BY <1>1, <1>12
    <3> QED
      BY <3>1, <3>2, Zenon
  <2>3. step' = "build" /\ interval' = Len(indices')
    BY <1>1, <1>3
  <2>4. \A i, j \in 1..Len(stack') : i < j =>
           stack'[i] < stack'[j] /\ units'[stack'[i]].depth < units'[stack'[j]].depth
    BY <1>1, <1>14
  <2>5. \A m \in 1..Len(arena') :
           (\A k \in (m + 1)..Len(arena') : units'[m].depth < units'[k].depth)
             => \E i \in 1..Len(stack') : stack'[i] = m
    BY <1>1, <1>15
  <2>6. step' \notin {"detect", "scan", "done"}
    BY <2>3
  <2> QED
    BY <1>9, <1>10, <1>13, <2>1, <2>2, <2>3, <2>4, <2>5, <2>6, Zenon DEF TreeInv, NodesInv, StackInv, StageInv
<1> QED
  BY <1>2, <1>16 DEF HierarchyInv

-----------------------------------------------------------------------------
IsAbove(f) ==
  f = [n \in DOMAIN arena |->
         {n} \cup (IF arena[n].parent = 0 THEN {} ELSE f[arena[n].parent])]

\* The nodes form a tree: parents come first.
Rooted == \A n \in 1..Len(arena) : arena[n].parent # 0 => arena[n].parent \in 1..(n - 1)

LEMMA AboveExists ==
  ASSUME Rooted, Len(arena) \in Nat, DOMAIN arena = 1..Len(arena)
  PROVE  \E f : IsAbove(f)
<1> DEFINE Row(f, n) ==
      {n} \cup (IF arena[n].parent = 0 THEN {} ELSE f[arena[n].parent])
<1> DEFINE T == {k \in Nat : k <= Len(arena) =>
                   \E f : DOMAIN f = 1..k /\ f = [n \in 1..k |-> f[n]] /\ \A n \in 1..k : f[n] = Row(f, n)}
<1>1. 0 \in T
  <2> DEFINE f == [n \in 1..0 |-> {}]
  <2>1. DOMAIN f = 1..0 /\ f = [n \in 1..0 |-> f[n]] /\ \A n \in 1..0 : f[n] = Row(f, n)
    OBVIOUS
  <2> QED
    BY <2>1
<1>2. ASSUME NEW k \in Nat, k \in T PROVE k + 1 \in T
  <2>1. ASSUME k + 1 <= Len(arena)
        PROVE  \E f : /\ DOMAIN f = 1..(k + 1) /\ f = [n \in 1..(k + 1) |-> f[n]]
                      /\ \A n \in 1..(k + 1) : f[n] = Row(f, n)
    <3>1. PICK g : DOMAIN g = 1..k /\ \A n \in 1..k : g[n] = Row(g, n)
      BY <1>2, <2>1
    <3> DEFINE f == [n \in 1..(k + 1) |-> IF n = k + 1 THEN Row(g, k + 1) ELSE g[n]]
    <3>2. f[k + 1] = Row(g, k + 1) /\ \A n \in 1..k : f[n] = g[n]
      OBVIOUS
    <3>3. DOMAIN f = 1..(k + 1) /\ f = [n \in 1..(k + 1) |-> f[n]]
      OBVIOUS
    <3> HIDE DEF f
    <3>4. ASSUME NEW n \in 1..(k + 1) PROVE f[n] = Row(f, n)
      <4>1. n \in 1..Len(arena) /\ (n = k + 1 \/ n \in 1..k)
        BY <2>1
      <4>2. f[n] = Row(g, n)
        BY <3>1, <3>2, <4>1
      <4>3. arena[n].parent # 0 => arena[n].parent \in 1..(n - 1)
        BY <4>1 DEF Rooted
      <4>4. arena[n].parent # 0 => f[arena[n].parent] = g[arena[n].parent]
        BY <3>2, <4>3
      <4> QED
        BY <4>2, <4>4
    <3> QED
      BY <3>3, <3>4
  <2>2. k + 1 \in Nat
    OBVIOUS
  <2> QED
    BY <2>1, <2>2
<1> HIDE DEF T
<1>3. Len(arena) \in T
  BY <1>1, <1>2, Counting
<1>4. PICK f : /\ f = [n \in 1..Len(arena) |-> f[n]]
               /\ \A n \in 1..Len(arena) : f[n] = Row(f, n)
  BY <1>3 DEF T
<1>5. [n \in 1..Len(arena) |-> f[n]] = [n \in 1..Len(arena) |-> Row(f, n)]
  BY <1>4
<1>6. f = [n \in DOMAIN arena |-> Row(f, n)]
  BY <1>4, <1>5
<1> QED
  BY <1>6 DEF IsAbove

LEMMA AncestorsAre ==
  ASSUME Rooted, Len(arena) \in Nat, DOMAIN arena = 1..Len(arena)
  PROVE  \A n \in 1..Len(arena) :
           Core!Ancestors[n] =
             {n} \cup (IF arena[n].parent = 0 THEN {} ELSE Core!Ancestors[arena[n].parent])
<1>1. IsAbove(CHOOSE f : IsAbove(f))
  BY AboveExists, Zenon
<1>2. Core!Ancestors = CHOOSE f : IsAbove(f)
  BY DEF Core!Ancestors, IsAbove
<1>3. IsAbove(Core!Ancestors)
  BY <1>1, <1>2, Zenon
<1> DEFINE F == Core!Ancestors
<1> HIDE DEF F
<1>4. F = [n \in DOMAIN arena |->
         {n} \cup (IF arena[n].parent = 0 THEN {} ELSE F[arena[n].parent])]
  BY <1>3, Zenon DEF IsAbove, F
<1>5. \A n \in 1..Len(arena) : F[n] =
         {n} \cup (IF arena[n].parent = 0 THEN {} ELSE F[arena[n].parent])
  BY <1>4, Zenon
<1> QED
  BY <1>5 DEF F

LEMMA TreeIs ==
  ASSUME HierarchyInv, step # "detect"
  PROVE  /\ Len(arena) \in Nat /\ DOMAIN arena = 1..Len(arena) /\ Len(arena) <= Len(units)
         /\ arena \in Seq(Nodes) /\ Rooted
         /\ \A n \in 1..Len(arena) :
              /\ arena[n].depth = units[n].depth /\ arena[n].start = units[n].start
              /\ arena[n].parent = Nearest(n) /\ Nearest(n) \in Nat
              /\ arena[n].level = IF arena[n].parent = 0 THEN 2 ELSE arena[arena[n].parent].level + 1
              /\ Nearest(n) # 0 =>
                   Nearest(n) \in 1..(n - 1) /\ units[Nearest(n)].depth < units[n].depth
              /\ \A m \in 1..(n - 1) : units[m].depth < units[n].depth => m <= Nearest(n)
              /\ units[n].depth \in Nat /\ units[n].start \in Nat /\ units[n].end \in Nat
<1>1. /\ arena \in Seq(Nodes) /\ Len(arena) <= Len(units)
      /\ \A n \in 1..Len(arena) :
              /\ arena[n].depth = units[n].depth /\ arena[n].start = units[n].start
              /\ arena[n].parent = Nearest(n)
              /\ arena[n].level = IF arena[n].parent = 0 THEN 2 ELSE arena[arena[n].parent].level + 1
  BY DEF HierarchyInv, TreeInv, NodesInv, StackInv, StageInv
<1>2. Len(arena) \in Nat /\ DOMAIN arena = 1..Len(arena)
  BY <1>1
<1>3. \A n \in 1..Len(arena) :
              /\ Nearest(n) \in Nat
              /\ Nearest(n) # 0 =>
                   Nearest(n) \in 1..(n - 1) /\ units[Nearest(n)].depth < units[n].depth
              /\ \A m \in 1..(n - 1) : units[m].depth < units[n].depth => m <= Nearest(n)
  <2>1. ASSUME NEW n \in 1..Len(arena) PROVE n \in Nat
    BY <1>2
  <2> QED
    BY <2>1, NearestIs
<1>4. Len(units) \in Nat /\ \A n \in 1..Len(units) : 
        units[n].depth \in Nat /\ units[n].start \in Nat /\ units[n].end \in Nat
  BY UnitsAre
<1>5. \A n \in 1..Len(arena) : n \in 1..Len(units)
  BY <1>1, <1>2, <1>4
<1>6. Rooted
  BY <1>1, <1>3 DEF Rooted
<1> QED
  BY <1>1, <1>2, <1>3, <1>4, <1>5, <1>6

\* The units that are in the tree of one are those behind it that are deeper,
\* up to the first that is not.
LEMMA AncestorsSpan ==
  ASSUME HierarchyInv, step # "detect"
  PROVE  \A m \in 1..Len(arena) :
           /\ Core!Ancestors[m] \subseteq 1..m
           /\ \A n \in 1..Len(arena) : n \in Core!Ancestors[m] <=> m \in Span(n)
<1> DEFINE A == Core!Ancestors
<1> DEFINE Rightly(m) == /\ A[m] \subseteq 1..m
                       /\ \A n \in 1..Len(arena) : n \in A[m] <=> m \in Span(n)
<1> DEFINE T == {k \in Nat : \A m \in 1..Len(arena) : m <= k => Rightly(m)}
<1>0. /\ Len(arena) \in Nat /\ Len(units) \in Nat /\ Len(arena) <= Len(units)
      /\ \A n \in 1..Len(arena) : units[n].depth \in Nat
  BY TreeIs, UnitsAre
<1>a. \A n \in 1..Len(arena) : A[n] =
         {n} \cup (IF arena[n].parent = 0 THEN {} ELSE A[arena[n].parent])
  BY TreeIs, AncestorsAre
<1>b. \A n \in 1..Len(arena) :
              /\ arena[n].parent = Nearest(n) /\ Nearest(n) \in Nat
              /\ Nearest(n) # 0 =>
                   Nearest(n) \in 1..(n - 1) /\ units[Nearest(n)].depth < units[n].depth
              /\ \A m \in 1..(n - 1) : units[m].depth < units[n].depth => m <= Nearest(n)
  BY TreeIs
<1> HIDE DEF A
<1>1. 0 \in T
  BY <1>0
<1>2. ASSUME NEW k \in Nat, k \in T PROVE k + 1 \in T
  <2>1. ASSUME k + 1 \in 1..Len(arena) PROVE Rightly(k + 1)
    <3> DEFINE m == k + 1
    <3> DEFINE p == Nearest(m)
    <3>1. /\ m \in 1..Len(arena) /\ m - 1 = k /\ arena[m].parent = p /\ p \in Nat
          /\ p # 0 => p \in 1..k /\ units[p].depth < units[m].depth /\ p \in 1..Len(arena)
          /\ \A j \in 1..k : units[j].depth < units[m].depth => j <= p
      BY <1>0, <1>b, <2>1
    <3>2. A[m] = {m} \cup (IF p = 0 THEN {} ELSE A[p])
      BY <1>a, <3>1
    <3>3. p # 0 => Rightly(p)
      <4>1. \A j \in 1..Len(arena) : j <= k => Rightly(j)
        BY <1>2
      <4> HIDE DEF Rightly, m, p
      <4> QED
        BY <3>1, <4>1
    <3>4. A[m] \subseteq 1..m
      BY <3>1, <3>2, <3>3
    <3>5. m \in Nat /\ m > k /\ m <= Len(units)
      BY <1>0, <3>1
    <3> HIDE DEF m, p
    <3>6. ASSUME NEW n \in 1..Len(arena) PROVE n \in A[m] <=> m \in Span(n)
      <4>1. CASE n = m
        BY <3>2, <3>5, <4>1 DEF Span
      <4>2. CASE n > m
        BY <3>4, <3>5, <4>2 DEF Span
      <4>3. CASE n < m
        <5>1. n \in A[m] <=> p # 0 /\ n \in A[p]
          BY <3>2, <4>3
        <5>2. n \in A[m] <=> p # 0 /\ p \in Span(n)
          BY <3>3, <5>1
        <5>3. ASSUME m \in Span(n) PROVE p # 0 /\ p \in Span(n)
          <6>1. m \in (n + 1)..m /\ n \in 1..k
            BY <3>1, <3>5, <4>3
          <6>2. units[n].depth < units[m].depth
            BY <5>3, <6>1 DEF Span
          <6>3. n <= p
            BY <3>1, <6>1, <6>2
          <6>4. p # 0 /\ p \in n..Len(units) /\ \A j \in (n + 1)..p : j \in (n + 1)..m
            BY <1>0, <3>1, <3>5, <6>1, <6>3
          <6> QED
            BY <5>3, <6>4 DEF Span
        <5>4. ASSUME p # 0, p \in Span(n) PROVE m \in Span(n)
          <6>1. p \in 1..k /\ units[p].depth < units[m].depth /\ p \in 1..Len(arena)
            BY <3>1, <5>4
          <6>2. n <= p /\ \A j \in (n + 1)..p : units[n].depth < units[j].depth
            BY <1>0, <5>4 DEF Span
          <6>3. n = p \/ units[n].depth < units[p].depth
            BY <6>1, <6>2
          <6>4. units[n].depth \in Nat /\ units[p].depth \in Nat /\ units[m].depth \in Nat
            BY <1>0, <3>1, <6>1
          <6>5. units[n].depth <= units[p].depth
            <7>1. CASE n = p
              BY <6>4, <7>1
            <7>2. CASE units[n].depth < units[p].depth
              BY <6>4, <7>2
            <7> QED
              BY <6>3, <7>1, <7>2
          <6>6. ASSUME NEW j \in (n + 1)..m PROVE units[n].depth < units[j].depth
            <7>1. CASE j <= p
              <8>1. j \in (n + 1)..p
                BY <6>1, <7>1
              <8> QED
                BY <6>2, <8>1
            <7>2. CASE j > p /\ j <= k
              <8>1. j \in 1..k /\ ~(j <= p) /\ j \in 1..Len(arena)
                BY <3>1, <6>1, <7>2
              <8>2. ~(units[j].depth < units[m].depth) /\ units[j].depth \in Nat
                BY <1>0, <3>1, <8>1
              <8> QED
                BY ONLY <6>1, <6>4, <6>5, <8>2
            <7>3. CASE j = m
              BY <6>1, <6>4, <6>5, <7>3
            <7> QED
              BY <3>1, <3>5, <6>1, <7>1, <7>2, <7>3 DEF m
          <6>7. m \in n..Len(units)
            BY <3>5, <4>3
          <6> QED
            BY <6>6, <6>7 DEF Span
        <5> QED
          BY <5>2, <5>3, <5>4
      <4> QED
        BY <3>5, <4>1, <4>2, <4>3
    <3> QED
      BY <3>4, <3>6 DEF m
  <2>2. k + 1 \in Nat
    OBVIOUS
  <2>3. ASSUME NEW m \in 1..Len(arena), m <= k + 1 PROVE Rightly(m)
    <3>1. CASE m = k + 1
      <4> HIDE DEF Rightly
      <4> QED
        BY <2>1, <2>3, <3>1
    <3>2. CASE m <= k
      <4>1. \A j \in 1..Len(arena) : j <= k => Rightly(j)
        BY <1>2
      <4> HIDE DEF Rightly
      <4> QED
        BY <2>3, <3>2, <4>1
    <3> QED
      BY <2>3, <3>1, <3>2
  <2> HIDE DEF Rightly
  <2> QED
    BY <2>2, <2>3
<1>3. \A k \in Nat : k \in T
  <2> HIDE DEF T
  <2> QED
    BY <1>1, <1>2, Counting
<1>4. Len(arena) \in T
  <2> HIDE DEF T
  <2> QED
    BY <1>0, <1>3
<1>5. \A m \in 1..Len(arena) : Rightly(m)
  <2>1. \A m \in 1..Len(arena) : m <= Len(arena) => Rightly(m)
    BY <1>4
  <2> HIDE DEF Rightly
  <2> QED
    BY <1>0, <2>1
<1> QED
  BY <1>5 DEF A

\* A level counts the nodes above.
LEMMA LevelsAre ==
  ASSUME HierarchyInv, step # "detect"
  PROVE  \A n \in 1..Len(arena) :
           /\ IsFiniteSet(Core!Ancestors[n])
           /\ arena[n].level = 1 + Cardinality(Core!Ancestors[n])
<1> DEFINE A == Core!Ancestors
<1> DEFINE Rightly(n) == IsFiniteSet(A[n]) /\ arena[n].level = 1 + Cardinality(A[n])
<1> DEFINE T == {k \in Nat : \A n \in 1..Len(arena) : n <= k => Rightly(n)}
<1>0. /\ Len(arena) \in Nat
      /\ \A n \in 1..Len(arena) :
           /\ arena[n].parent # 0 => arena[n].parent \in 1..(n - 1)
           /\ arena[n].level = IF arena[n].parent = 0 THEN 2 ELSE arena[arena[n].parent].level + 1
  BY TreeIs DEF Rooted
<1>a. \A n \in 1..Len(arena) : A[n] =
         {n} \cup (IF arena[n].parent = 0 THEN {} ELSE A[arena[n].parent])
  BY TreeIs, AncestorsAre
<1>b. \A n \in 1..Len(arena) : A[n] \subseteq 1..n
  BY AncestorsSpan
<1> HIDE DEF A
<1>1. 0 \in T
  BY <1>0
<1>2. ASSUME NEW k \in Nat, k \in T PROVE k + 1 \in T
  <2>1. ASSUME k + 1 \in 1..Len(arena) PROVE Rightly(k + 1)
    <3> DEFINE m == k + 1
    <3> DEFINE p == arena[m].parent
    <3>1. /\ m \in 1..Len(arena) /\ m \in Nat
          /\ A[m] = {m} \cup (IF p = 0 THEN {} ELSE A[p])
          /\ arena[m].level = IF p = 0 THEN 2 ELSE arena[p].level + 1
          /\ p # 0 => p \in 1..k /\ p \in 1..Len(arena)
      BY <1>0, <1>a, <2>1
    <3>2. \A j \in 1..Len(arena) : j <= k => Rightly(j)
      BY <1>2
    <3>3. m > k
      OBVIOUS
    <3> HIDE DEF m, p
    <3>4. CASE p = 0
      <4>1. A[m] = {m} /\ arena[m].level = 2
        BY <3>1, <3>4
      <4>2. IsFiniteSet({m}) /\ Cardinality({m}) = 1
        BY FS_Singleton
      <4>3. IsFiniteSet(A[m]) /\ Cardinality(A[m]) = 1
        BY <4>1, <4>2, Zenon
      <4>4. Rightly(m)
        BY <4>1, <4>3
      <4> QED
        BY <4>4 DEF m
    <3>5. CASE p # 0
      <4>1. A[m] = A[p] \cup {m} /\ arena[m].level = arena[p].level + 1 /\ p \in 1..k
        BY <3>1, <3>5
      <4>2. IsFiniteSet(A[p]) /\ arena[p].level = 1 + Cardinality(A[p])
        BY <3>1, <3>2, <3>5
      <4>3. m \notin A[p]
        BY <1>b, <3>1, <3>3, <3>5
      <4>4. IsFiniteSet(A[p] \cup {m}) /\ Cardinality(A[p] \cup {m}) = Cardinality(A[p]) + 1
        BY <4>2, <4>3, FS_AddElement
      <4>5. IsFiniteSet(A[m]) /\ Cardinality(A[m]) = Cardinality(A[p]) + 1 /\ Cardinality(A[p]) \in Nat
        BY <4>1, <4>2, <4>4, FS_CardinalityType, Zenon
      <4>6. Rightly(m)
        BY <4>1, <4>2, <4>5
      <4> QED
        BY <4>6 DEF m
    <3> QED
      BY <3>4, <3>5
  <2>2. k + 1 \in Nat
    OBVIOUS
  <2>3. ASSUME NEW m \in 1..Len(arena), m <= k + 1 PROVE Rightly(m)
    <3>1. CASE m = k + 1
      <4> HIDE DEF Rightly
      <4> QED
        BY <2>1, <2>3, <3>1
    <3>2. CASE m <= k
      <4>1. \A j \in 1..Len(arena) : j <= k => Rightly(j)
        BY <1>2
      <4> HIDE DEF Rightly
      <4> QED
        BY <2>3, <3>2, <4>1
    <3> QED
      BY <2>3, <3>1, <3>2
  <2> HIDE DEF Rightly
  <2> QED
    BY <2>2, <2>3
<1>3. \A k \in Nat : k \in T
  <2> HIDE DEF T
  <2> QED
    BY <1>1, <1>2, Counting
<1>4. Len(arena) \in T
  <2> HIDE DEF T
  <2> QED
    BY <1>0, <1>3
<1>5. \A n \in 1..Len(arena) : Rightly(n)
  <2>1. \A n \in 1..Len(arena) : n <= Len(arena) => Rightly(n)
    BY <1>4
  <2> HIDE DEF Rightly
  <2> QED
    BY <1>0, <2>1
<1> QED
  BY <1>5 DEF A

LEMMA BelowIs ==
  ASSUME HierarchyInv, step # "detect", Len(arena) = Len(units)
  PROVE  \A n \in 1..Len(arena) : Core!Below(n) = Span(n)
<1>1. DOMAIN arena = 1..Len(arena) /\ Len(arena) \in Nat
  BY TreeIs
<1>2. ASSUME NEW n \in 1..Len(arena) PROVE Core!Below(n) = Span(n)
  <2>1. \A m \in 1..Len(arena) : n \in Core!Ancestors[m] <=> m \in Span(n)
    BY AncestorsSpan
  <2>2. \A m \in Span(n) : m \in 1..Len(arena)
    BY <1>1 DEF Span
  <2> QED
    BY <1>1, <2>1, <2>2 DEF Core!Below
<1> QED
  BY <1>2

LEMMA SpanEnds ==
  ASSUME HierarchyInv, step # "detect", NEW n \in 1..Len(units)
  PROVE  /\ n \in Span(n) /\ Span(n) \subseteq 1..Len(units)
         /\ Core!Highest({units[m].end : m \in Span(n)}) \in Nat
         /\ \E m \in Span(n) : Core!Highest({units[k].end : k \in Span(n)}) = units[m].end
         /\ \A m \in Span(n) : units[m].end <= Core!Highest({units[k].end : k \in Span(n)})
<1>1. Len(units) \in Nat /\ \A m \in 1..Len(units) : units[m].end \in Nat
  BY UnitsAre
<1>2. n \in Span(n) /\ Span(n) \subseteq 1..Len(units)
  BY <1>1 DEF Span
<1> DEFINE f == [m \in 1..Len(units) |-> units[m].end]
<1>3. \A m \in 1..Len(units) : f[m] \in Nat /\ f[m] = units[m].end
  BY <1>1
<1> HIDE DEF f
<1>4. PICK top \in Nat : \A m \in 1..Len(units) : f[m] <= top
  BY <1>1, <1>3, SomeBound
<1> DEFINE S == {units[m].end : m \in Span(n)}
<1>5. S \in SUBSET Nat /\ S # {} /\ \A y \in S : y <= top
  BY <1>1, <1>2, <1>3, <1>4
<1>6. Core!Highest(S) \in S /\ Core!Highest(S) \in Nat /\ \A y \in S : y <= Core!Highest(S)
  BY <1>5, HighestIs
<1> QED
  BY <1>2, <1>6

LEMMA MaterializeStep ==
  ASSUME HierarchyInv, Core!Materialize
  PROVE  HierarchyInv'
<1> DEFINE E(n) == Core!Highest({units[m].end : m \in Span(n)})
<1>1. /\ step = "build" /\ Len(arena) = Len(units) /\ step' = "done"
      /\ arena' = [n \in DOMAIN arena |->
           [arena[n] EXCEPT !.end = Core!Highest({arena[m].end : m \in Core!Below(n)})]]
      /\ UNCHANGED <<Core!sourceVars, indices, Core!scanVars>>
      /\ units' = units /\ interval' = interval /\ indices' = indices /\ stack' = stack
      /\ mode' = mode
  BY DEF Core!Materialize, Core!scanVars, Core!sourceVars
<1>2. SourceInv' /\ ScanInv'
  BY <1>1, ScanKept
<1>3. /\ arena \in Seq(Nodes) /\ Len(arena) \in Nat /\ DOMAIN arena = 1..Len(arena)
      /\ \A m \in 1..Len(arena) :
           /\ arena[m].start = units[m].start /\ arena[m].depth = units[m].depth
           /\ arena[m].parent = Nearest(m)
           /\ arena[m].level = IF arena[m].parent = 0 THEN 2 ELSE arena[arena[m].parent].level + 1
           /\ arena[m].end = units[m].end
      /\ stack \in Seq(Nat)
      /\ \A i \in 1..Len(stack) : stack[i] \in 1..Len(arena)
      /\ \A i, j \in 1..Len(stack) : i < j =>
           stack[i] < stack[j] /\ units[stack[i]].depth < units[stack[j]].depth
      /\ \A m \in 1..Len(arena) :
           (\A k \in (m + 1)..Len(arena) : units[m].depth < units[k].depth)
             => \E i \in 1..Len(stack) : stack[i] = m
      /\ interval = Len(indices)
  BY <1>1 DEF HierarchyInv, TreeInv, NodesInv, StackInv, StageInv
<1>4. \A n \in 1..Len(arena) : Core!Below(n) = Span(n)
  BY <1>1, BelowIs
<1>5. \A n \in 1..Len(arena) : E(n) \in Nat
  BY <1>1, SpanEnds
<1>6. \A n \in 1..Len(arena) : Core!Highest({arena[m].end : m \in Core!Below(n)}) = E(n)
  <2>1. ASSUME NEW n \in 1..Len(arena)
        PROVE  Core!Highest({arena[m].end : m \in Core!Below(n)}) = E(n)
    <3>1. \A m \in Span(n) : arena[m].end = units[m].end
      BY <1>1, <1>3, SpanEnds
    <3>2. {arena[m].end : m \in Core!Below(n)} = {units[m].end : m \in Span(n)}
      BY <1>4, <3>1
    <3> QED
      BY <3>2
  <2> QED
    BY <2>1
<1> HIDE DEF E
<1>7. arena' = [n \in 1..Len(arena) |-> [arena[n] EXCEPT !.end = E(n)]]
  BY <1>1, <1>3, <1>6
<1>8. \A n \in 1..Len(arena) : arena[n] \in Nodes
  BY <1>3, ElementsAre
<1>9. \A n \in 1..Len(arena) :
        /\ arena'[n].start = arena[n].start /\ arena'[n].depth = arena[n].depth
        /\ arena'[n].parent = arena[n].parent /\ arena'[n].level = arena[n].level
        /\ arena'[n].end = E(n) /\ arena'[n] \in Nodes
  BY <1>5, <1>7, <1>8 DEF Nodes
<1>10. arena' \in Seq(Nodes) /\ Len(arena') = Len(arena)
  <2>1. arena' \in [1..Len(arena) -> Nodes]
    BY <1>7, <1>9
  <2> QED
    BY <1>3, <2>1
<1>11. \A n : Nearest(n)' = Nearest(n)
  BY <1>1, Zenon DEF Nearest
<1>12. \A n : Core!Highest({units[m].end : m \in Span(n)})' = E(n)
  BY <1>1, Zenon DEF E, Span
<1>13. Rooted
  BY <1>1, TreeIs
<1>14. ASSUME NEW m \in 1..Len(arena')
       PROVE  /\ arena'[m].start = units'[m].start /\ arena'[m].depth = units'[m].depth
              /\ arena'[m].parent = Nearest(m)'
              /\ arena'[m].level = (IF arena'[m].parent = 0 THEN 2 ELSE arena'[arena'[m].parent].level + 1)
              /\ arena'[m].end = IF step' = "done" THEN Core!Highest({units[k].end : k \in Span(m)})'
                                  ELSE units'[m].end
  <2>1. m \in 1..Len(arena)
    BY <1>10
  <2>2. arena[m].parent # 0 => arena[m].parent \in 1..Len(arena)
    <3>1. arena[m].parent # 0 => arena[m].parent \in 1..(m - 1)
      BY <1>13, <2>1 DEF Rooted
    <3> QED
      BY <1>3, <2>1, <3>1
  <2>3. arena'[m].level = (IF arena'[m].parent = 0 THEN 2 ELSE arena'[arena'[m].parent].level + 1)
    <3>1. CASE arena[m].parent = 0
      BY <1>3, <1>9, <2>1, <3>1
    <3>2. CASE arena[m].parent # 0
      <4>1. arena'[arena[m].parent].level = arena[arena[m].parent].level
        BY <1>9, <2>2, <3>2
      <4>2. arena'[m].level = arena[m].level /\ arena'[m].parent = arena[m].parent
        BY <1>9, <2>1
      <4>3. arena[m].level = arena[arena[m].parent].level + 1
        BY <1>3, <2>1, <3>2
      <4> QED
        BY <3>2, <4>1, <4>2, <4>3
    <3> QED
      BY <3>1, <3>2
  <2>4. /\ arena'[m].start = units'[m].start /\ arena'[m].depth = units'[m].depth
              /\ arena'[m].parent = Nearest(m)'
    BY <1>1, <1>3, <1>9, <1>11, <2>1
  <2>5. arena'[m].end = Core!Highest({units[k].end : k \in Span(m)})'
    BY <1>9, <1>12, <2>1
  <2> QED
    BY <1>1, <2>3, <2>4, <2>5, Zenon
<1>15. TreeInv'
  <2>1. Len(arena') <= Len(units') /\ Len(arena') = Len(units') /\ interval' = Len(indices')
        /\ step' \notin {"detect", "scan"}
    BY <1>1, <1>3, <1>10
  <2>2. /\ stack' \in Seq(Nat)
        /\ \A i \in 1..Len(stack') : stack'[i] \in 1..Len(arena')
        /\ \A i, j \in 1..Len(stack') : i < j =>
             stack'[i] < stack'[j] /\ units'[stack'[i]].depth < units'[stack'[j]].depth
        /\ \A m \in 1..Len(arena') :
             (\A k \in (m + 1)..Len(arena') : units'[m].depth < units'[k].depth)
             => \E i \in 1..Len(stack') : stack'[i] = m
    BY <1>1, <1>3, <1>10, Zenon
  <2>3. /\ step' \in {"detect", "scan"} => arena' = <<>> /\ stack' = <<>>
        /\ step' \in {"build", "done"} => interval' = Len(indices')
        /\ step' = "done" => \/ Len(arena') = Len(units')
                             \/ arena' = <<>> /\ Len(units') = 1 /\ mode' = "structural"
    BY <2>1
  <2>4. \A n \in 1..Len(arena') :
          /\ arena'[n].start = units'[n].start /\ arena'[n].depth = units'[n].depth
          /\ arena'[n].parent = Nearest(n)'
          /\ arena'[n].level = IF arena'[n].parent = 0 THEN 2 ELSE arena'[arena'[n].parent].level + 1
          /\ arena'[n].end = IF step' = "done" THEN Core!Highest({units[m].end : m \in Span(n)})'
                             ELSE units'[n].end
    BY <1>14, Zenon
  <2>5. arena' \in Seq(Nodes) /\ Len(arena') <= Len(units')
    BY <1>10, <2>1
  <2>6. NodesInv'
    BY <2>4, <2>5, Zenon DEF NodesInv
  <2>7. StackInv'
    BY <2>2 DEF StackInv
  <2>8. StageInv'
    BY <2>3, Zenon DEF StageInv
  <2> QED
    BY <2>6, <2>7, <2>8 DEF TreeInv
<1> QED
  BY <1>2, <1>15 DEF HierarchyInv

LEMMA HierarchyStart ==
  ASSUME Core!Init
  PROVE  HierarchyInv
<1>1. SourceInv
  BY SourceStarts
<1>2. /\ step = "detect" /\ eventIndex = 1 /\ rangeIndex = 1 /\ ending = {}
      /\ active = [d \in Depths |-> 0] /\ units = <<>> /\ arena = <<>> /\ stack = <<>>
  BY DEF Core!Init
<1>3. ScanInv
  BY <1>2 DEF ScanInv
<1>4. TreeInv
  <2>1. /\ Len(arena) = 0 /\ Len(stack) = 0 /\ Len(units) = 0
        /\ arena \in Seq(Nodes) /\ stack \in Seq(Nat)
    BY <1>2
  <2>2. (\A n \in 1..Len(arena) : FALSE) /\ \A n \in 1..Len(stack) : FALSE
    BY <2>1
  <2>3. step \notin {"build", "done"}
    BY <1>2
  <2> QED
    BY <1>2, <2>1, <2>2, <2>3 DEF TreeInv, NodesInv, StackInv, StageInv
<1> QED
  BY <1>1, <1>3, <1>4 DEF HierarchyInv

LEMMA HierarchyStep ==
  ASSUME HierarchyInv, Core!Analyze
  PROVE  HierarchyInv'
BY DetectStep, SkipStep, AddStep, ScannedStep, PlaceStep, MaterializeStep DEF Core!Analyze

LEMMA HierarchyStutter ==
  ASSUME HierarchyInv, UNCHANGED hierarchyVars
  PROVE  HierarchyInv'
<1>1. /\ UNCHANGED Core!sourceVars /\ UNCHANGED <<Core!sourceVars, indices, Core!scanVars>>
      /\ step' = step /\ indices' = indices /\ interval' = interval
      /\ eventIndex' = eventIndex /\ rangeIndex' = rangeIndex /\ ending' = ending
      /\ active' = active /\ units' = units /\ arena' = arena /\ stack' = stack /\ mode' = mode
  BY DEF hierarchyVars, Core!sourceVars, Core!scanVars
<1>2. SourceInv' /\ ScanInv'
  <2>1. CASE step = "detect"
    <3>1. SourceInv'
      BY <1>1, SourceKept DEF HierarchyInv, SourceInv
    <3>2. ScanInv'
      BY <1>1, <2>1 DEF HierarchyInv, ScanInv
    <3> QED
      BY <3>1, <3>2
  <2>2. CASE step # "detect"
    <3>1. step' \in {"scan", "build", "done"}
      BY <1>1, <2>2 DEF HierarchyInv, SourceInv
    <3> QED
      BY <1>1, <2>2, <3>1, ScanKept
  <2> QED
    BY <2>1, <2>2
<1>3. TreeInv'
  <2>1. /\ \A n : Nearest(n)' = Nearest(n)
        /\ \A n : Core!Highest({units[m].end : m \in Span(n)})' = Core!Highest({units[m].end : m \in Span(n)})
    BY <1>1, Zenon DEF Nearest, Span
  <2>2. TreeInv
    BY DEF HierarchyInv
  <2> QED
    <3>1. NodesInv'
      BY <1>1, <2>1, <2>2, Zenon DEF TreeInv, NodesInv
    <3>2. StackInv'
      BY <1>1, <2>2, Zenon DEF TreeInv, StackInv
    <3>3. StageInv'
      BY <1>1, <2>2, Zenon DEF TreeInv, StageInv
    <3> QED
      BY <3>1, <3>2, <3>3 DEF TreeInv
<1> QED
  BY <1>2, <1>3 DEF HierarchyInv

LEMMA TreeRight ==
  ASSUME HierarchyInv
  PROVE  Core!TreeTrue
<1>1. SUFFICES ASSUME step = "done" PROVE Core!TreeTrue
  BY DEF Core!TreeTrue
<1>2. /\ Len(units) # 1 \/ mode = "reference" => Len(arena) = Len(units)
      /\ Len(arena) = Len(units) \/ arena = <<>>
  <2>1. \/ Len(arena) = Len(units)
        \/ arena = <<>> /\ Len(units) = 1 /\ mode = "structural"
    BY <1>1 DEF HierarchyInv, TreeInv, StageInv
  <2> QED
    BY <2>1
<1>3. ASSUME NEW n \in DOMAIN arena
      PROVE  /\ arena[n].parent =
                  Core!Highest({0} \cup {m \in 1..(n - 1) : arena[m].depth < arena[n].depth})
             /\ arena[n].level = 1 + Core!Cardinality({m \in DOMAIN arena : n \in Core!Below(m)})
             /\ arena[n].parent # 0 => arena[n].end <= arena[arena[n].parent].end
             /\ \A m \in DOMAIN arena :
                  m < n /\ n \notin Core!Below(m) => arena[m].end <= arena[n].start
  <2>1. /\ n \in 1..Len(arena) /\ Len(arena) \in Nat /\ Len(arena) = Len(units)
        /\ DOMAIN arena = 1..Len(arena)
    <3>1. Len(arena) \in Nat /\ DOMAIN arena = 1..Len(arena)
      BY <1>1, TreeIs
    <3> QED
      BY <1>2, <1>3, <3>1
  <2>2. \A m \in 1..Len(arena) :
              /\ arena[m].depth = units[m].depth /\ arena[m].start = units[m].start
              /\ arena[m].parent = Nearest(m) /\ Nearest(m) \in Nat
              /\ Nearest(m) # 0 =>
                   Nearest(m) \in 1..(m - 1) /\ units[Nearest(m)].depth < units[m].depth
              /\ \A k \in 1..(m - 1) : units[k].depth < units[m].depth => k <= Nearest(m)
              /\ units[m].depth \in Nat /\ units[m].start \in Nat /\ units[m].end \in Nat
    BY <1>1, TreeIs
  <2>3. \A m \in 1..Len(arena) :
          arena[m].end = Core!Highest({units[k].end : k \in Span(m)})
    BY <1>1 DEF HierarchyInv, TreeInv, NodesInv
  <2>4. arena[n].parent = Core!Highest({0} \cup {m \in 1..(n - 1) : arena[m].depth < arena[n].depth})
    <3>1. \A m \in 1..(n - 1) : m \in 1..Len(arena)
      BY <2>1
    <3>2. {m \in 1..(n - 1) : arena[m].depth < arena[n].depth}
            = {m \in 1..(n - 1) : units[m].depth < units[n].depth}
      BY <2>1, <2>2, <3>1
    <3>3. arena[n].parent = Nearest(n)
      BY <2>1, <2>2
    <3> QED
      BY <3>2, <3>3 DEF Nearest
  <2>5. arena[n].level = 1 + Core!Cardinality({m \in DOMAIN arena : n \in Core!Below(m)})
    <3>1. arena[n].level = 1 + Cardinality(Core!Ancestors[n]) /\ Core!Ancestors[n] \subseteq 1..n
      BY <1>1, <2>1, LevelsAre, AncestorsSpan
    <3>2. \A m \in Core!Ancestors[n] : m \in 1..Len(arena)
      BY <2>1, <3>1
    <3>3. {m \in DOMAIN arena : n \in Core!Below(m)} = Core!Ancestors[n]
      BY <2>1, <3>2 DEF Core!Below
    <3> QED
      BY <3>1, <3>3, CoreCounts
  <2>6. ASSUME arena[n].parent # 0 PROVE arena[n].end <= arena[arena[n].parent].end
    <3> DEFINE p == Nearest(n)
    <3>1. /\ arena[n].parent = p /\ p \in 1..(n - 1) /\ units[p].depth < units[n].depth
          /\ \A k \in 1..(n - 1) : units[k].depth < units[n].depth => k <= p
      BY <2>1, <2>2, <2>6
    <3> HIDE DEF p
    <3>2. p \in 1..Len(arena) /\ p < n /\ p \in Nat /\ n \in Nat
      BY <2>1, <3>1
    <3>3. ASSUME NEW j \in Span(n) PROVE j \in Span(p)
      <4>1. j \in n..Len(units) /\ \A k \in (n + 1)..j : units[n].depth < units[k].depth
        BY <3>3 DEF Span
      <4>2. ASSUME NEW k \in (p + 1)..j PROVE units[p].depth < units[k].depth
        <5>1. k \in 1..Len(arena) /\ units[k].depth \in Nat /\ units[p].depth \in Nat
                /\ units[n].depth \in Nat
          BY <2>1, <2>2, <3>2, <4>1
        <5>2. CASE k < n
          <6>1. k \in 1..(n - 1) /\ ~(k <= p)
            BY <3>2, <5>1, <5>2
          <6>2. ~(units[k].depth < units[n].depth)
            BY <3>1, <6>1
          <6> QED
            BY <3>1, <5>1, <6>2
        <5>3. CASE k = n
          BY <3>1, <5>3
        <5>4. CASE k > n
          <6>1. k \in (n + 1)..j
            BY <3>2, <4>1, <5>4
          <6>2. units[n].depth < units[k].depth
            BY <4>1, <6>1
          <6> QED
            BY <3>1, <5>1, <6>2
        <5> QED
          BY <3>2, <5>1, <5>2, <5>3, <5>4
      <4>3. j \in p..Len(units)
        BY <3>2, <4>1
      <4> QED
        BY <4>2, <4>3 DEF Span
    <3>4. PICK j \in Span(n) : arena[n].end = units[j].end
      BY <1>1, <2>1, <2>3, SpanEnds
    <3>5. units[j].end <= arena[p].end
      <4>1. j \in Span(p)
        BY <3>3
      <4> QED
        BY <1>1, <2>1, <2>3, <3>2, <4>1, SpanEnds
    <3> QED
      BY <3>1, <3>4, <3>5
  <2>7. ASSUME NEW m \in DOMAIN arena, m < n, n \notin Core!Below(m)
        PROVE  arena[m].end <= arena[n].start
    <3>1. m \in 1..Len(arena) /\ n \notin Span(m) /\ n \in m..Len(units)
      BY <1>1, <2>1, <2>7, BelowIs
    <3>2. PICK k \in (m + 1)..n : ~(units[m].depth < units[k].depth)
      BY <3>1 DEF Span
    <3>3. PICK j \in Span(m) : arena[m].end = units[j].end
      BY <1>1, <2>1, <2>3, <3>1, SpanEnds
    <3>4. j \in m..Len(units) /\ ~(k \in (m + 1)..j)
      BY <3>2, <3>3 DEF Span
    <3>5. j < n /\ j \in 1..Len(units) /\ n \in 1..Len(units)
      BY <2>1, <3>1, <3>4
    <3>6. units[j].end <= units[n].start
      BY <1>1, <3>5 DEF HierarchyInv, ScanInv, UnitsInv
    <3> QED
      BY <2>1, <2>2, <3>3, <3>6
  <2> QED
    BY <2>4, <2>5, <2>6, <2>7
<1> QED
  BY <1>2, <1>3 DEF Core!TreeTrue

LEMMA CodeSpan ==
  ASSUME SourceInv, NEW byte \in Nat, Core!Meaningful(byte)
  PROVE  Core!MeaningfulStart <= byte /\ byte < Core!MeaningfulEnd
<1>1. CASE ranges = <<>>
  BY <1>1 DEF Core!Meaningful, Core!MeaningfulStart, Core!MeaningfulEnd
<1>2. CASE ranges # <<>>
  <2>1. PICK r \in DOMAIN ranges : ranges[r].start <= byte /\ byte < ranges[r].end
    BY <1>2 DEF Core!Meaningful
  <2> DEFINE n == Len(ranges)
  <2>2. /\ n \in Nat /\ r \in 1..n /\ 1 \in 1..n /\ n \in 1..n
        /\ \A q \in 1..n : ranges[q].start \in Nat /\ ranges[q].end \in Nat
    BY <1>2, RangesAre
  <2>3. /\ \A q \in 1..n : ranges[q].start < ranges[q].end
        /\ \A p, q \in 1..n : p < q => ranges[p].end <= ranges[q].start
    BY DEF SourceInv
  <2>4. Core!MeaningfulStart = ranges[1].start /\ Core!MeaningfulEnd = ranges[n].end
    BY <1>2 DEF Core!MeaningfulStart, Core!MeaningfulEnd
  <2> HIDE DEF n
  <2>5. ranges[1].start <= ranges[r].start
    <3>1. CASE r = 1
      BY <2>2, <3>1
    <3>2. CASE 1 < r
      <4>1. ranges[1].end <= ranges[r].start /\ ranges[1].start < ranges[1].end
        BY <2>2, <2>3, <3>2
      <4> QED
        BY <2>2, <4>1
    <3> QED
      BY <2>2, <3>1, <3>2
  <2>6. ranges[r].end <= ranges[n].end
    <3>1. CASE r = n
      BY <2>2, <3>1
    <3>2. CASE r < n
      <4>1. ranges[r].end <= ranges[n].start /\ ranges[n].start < ranges[n].end
        BY <2>2, <2>3, <3>2
      <4> QED
        BY <2>2, <4>1
    <3> QED
      BY <2>2, <3>1, <3>2
  <2>7. /\ ranges[1].start \in Nat /\ ranges[r].start \in Nat /\ ranges[r].end \in Nat
        /\ ranges[n].end \in Nat
    BY <2>2
  <2> QED
    BY <2>1, <2>4, <2>5, <2>6, <2>7
<1> QED
  BY <1>1, <1>2

\* The first interval that has a unit begins with the first marker, or with the
\* code.
LEMMA OpenedFrom ==
  ASSUME SourceInv, indices = Core!Sorted(Core!Boundaries), NEW byte \in Nat
  PROVE  /\ Core!Meaningful(byte) /\ ~Core!Unopened(byte) =>
              Core!Start(indices[FirstInterval]) <= byte
         /\ \A i \in FirstInterval..(Len(indices) - 1) :
              Core!Start(indices[i]) <= byte => ~Core!Unopened(byte)
<1> DEFINE s == Core!SourceStartToken
<1> DEFINE e == Core!SourceEndToken
<1> DEFINE F(t) == Core!FirstTokenOnLine(t)
<1>1. /\ Len(indices) \in Nat /\ Len(indices) >= 2
      /\ \A i \in 1..Len(indices) :
           /\ indices[i] \in Nat /\ Core!Start(indices[i]) \in Nat
           /\ indices[i] \in Core!Boundaries
      /\ \A i, j \in 1..Len(indices) : i < j =>
           indices[i] < indices[j] /\ Core!Start(indices[i]) < Core!Start(indices[j])
      /\ indices[1] = s /\ indices[Len(indices)] = e
      /\ \A b \in Core!Boundaries : \E i \in 1..Len(indices) : indices[i] = b
  BY IndicesAre
<1>2. /\ s \in 1..Len(ends) /\ e \in 1..(Len(ends) + 1) /\ Len(ends) \in Nat
      /\ \A t \in 1..(Len(ends) + 1) : Core!Start(t) \in Nat
      /\ \A t, u \in 1..(Len(ends) + 1) : t < u => Core!Start(t) < Core!Start(u)
  BY SourceSpan, Starts
<1>3. ASSUME NEW t \in Core!Openers
      PROVE  /\ F(t) \in 1..Len(ends) /\ F(t) < e /\ Core!Start(F(t)) \in Nat
             /\ (IF F(t) < s THEN s ELSE F(t)) \in Core!Markers
  BY <1>2, <1>3, OpenersAre, OnLine
<1>4. \A m \in Core!Markers : \E t \in Core!Openers : m = IF F(t) < s THEN s ELSE F(t)
  BY DEF Core!Markers
<1>5. \A b \in Core!Boundaries :
        b = s \/ b = e \/ mode = "structural" \/ b \in Core!Markers
  BY DEF Core!Boundaries
<1>6. \A m \in Core!Markers : s < m /\ m < e => m \in Core!Boundaries
  BY DEF Core!Boundaries
<1>7. /\ FirstInterval \in {1, 2} /\ (FirstInterval = 1 => mode # "reference" \/ s \in Core!Markers)
      /\ (FirstInterval = 2 => mode = "reference" /\ s \notin Core!Markers)
  BY DEF FirstInterval
<1>8. Core!Unopened(byte) <=>
        mode = "reference" /\ \A t \in Core!Openers : byte < Core!Start(F(t))
  BY DEF Core!Unopened
<1>9. Core!Meaningful(byte) => Core!Start(s) <= byte
  <2>1. Core!Start(s) <= Core!MeaningfulStart /\ Core!MeaningfulStart \in Nat
          /\ Core!Start(s) \in Nat
    BY <1>2, SourceSpan
  <2> QED
    BY <2>1, CodeSpan
<1> HIDE DEF s, e, F
<1>10. ASSUME Core!Meaningful(byte), ~Core!Unopened(byte)
       PROVE  Core!Start(indices[FirstInterval]) <= byte
  <2>1. CASE FirstInterval = 1
    BY <1>1, <1>9, <1>10, <2>1
  <2>2. CASE FirstInterval = 2
    <3>1. PICK t \in Core!Openers : ~(byte < Core!Start(F(t)))
      BY <1>7, <1>8, <1>10, <2>2
    <3>2. s < F(t)
      BY <1>2, <1>3, <1>7, <2>2
    <3>3. F(t) \in Core!Boundaries
      BY <1>2, <1>3, <1>6, <3>2
    <3>4. PICK j \in 1..Len(indices) : indices[j] = F(t)
      BY <1>1, <3>3
    <3>5. 1 \in 1..Len(indices) /\ 2 \in 1..Len(indices) /\ (j = 2 \/ 2 < j)
      BY <1>1, <1>2, <1>3, <3>2, <3>4
    <3>6. Core!Start(indices[2]) <= Core!Start(F(t)) /\ Core!Start(indices[2]) \in Nat
      <4>1. CASE j = 2
        BY <1>1, <3>4, <3>5, <4>1
      <4>2. CASE 2 < j
        BY <1>1, <3>4, <3>5, <4>2
      <4> QED
        BY <3>5, <4>1, <4>2
    <3>7. Core!Start(F(t)) \in Nat
      BY <1>3
    <3> QED
      BY <2>2, <3>1, <3>6, <3>7
  <2> QED
    BY <1>7, <2>1, <2>2
<1>11. ASSUME NEW i \in FirstInterval..(Len(indices) - 1), Core!Start(indices[i]) <= byte,
              Core!Unopened(byte)
       PROVE  FALSE
  <2>1. /\ mode = "reference" /\ \A t \in Core!Openers : byte < Core!Start(F(t))
    BY <1>8, <1>11
  <2>2. i \in 1..Len(indices) /\ Len(indices) \in 1..Len(indices) /\ 1 \in 1..Len(indices)
    BY <1>1, <1>7
  <2>3. PICK t \in Core!Openers : Core!Start(F(t)) <= Core!Start(indices[i])
    <3>1. CASE FirstInterval = 1
      <4>1. PICK t \in Core!Openers : s = IF F(t) < s THEN s ELSE F(t)
        BY <1>4, <1>7, <2>1, <3>1
      <4>2. /\ F(t) = s \/ (F(t) < s /\ F(t) \in 1..(Len(ends) + 1))
            /\ s \in 1..(Len(ends) + 1)
        BY <1>2, <1>3, <4>1
      <4>3. Core!Start(F(t)) <= Core!Start(s) /\ Core!Start(s) \in Nat
              /\ Core!Start(F(t)) \in Nat
        BY <1>2, <1>3, <4>2
      <4>4. Core!Start(s) <= Core!Start(indices[i]) /\ Core!Start(indices[i]) \in Nat
        <5>1. i = 1 \/ 1 < i
          BY <2>2
        <5> QED
          BY <1>1, <2>2, <4>3, <5>1
      <4> QED
        BY <4>3, <4>4
    <3>2. CASE FirstInterval = 2
      <4>1. 1 < i /\ i < Len(indices)
        BY <1>1, <2>2, <3>2
      <4>2. indices[i] # s /\ indices[i] # e
        BY <1>1, <2>2, <4>1
      <4>3. indices[i] \in Core!Markers
        BY <1>1, <1>5, <2>1, <2>2, <4>2
      <4>4. PICK t \in Core!Openers : indices[i] = IF F(t) < s THEN s ELSE F(t)
        BY <1>4, <4>3
      <4>5. indices[i] = F(t)
        BY <4>2, <4>4
      <4> QED
        BY <1>3, <4>5
    <3> QED
      BY <1>7, <3>1, <3>2
  <2>4. Core!Start(F(t)) \in Nat /\ Core!Start(indices[i]) \in Nat
    BY <1>1, <1>3, <2>2
  <2> QED
    BY <1>11, <2>1, <2>3, <2>4
<1> QED
  BY <1>10, <1>11

LEMMA UnitsRight ==
  ASSUME HierarchyInv
  PROVE  Core!UnitsTrue
<1>1. SUFFICES ASSUME step \in {"build", "done"} PROVE Core!UnitsTrue
  BY DEF Core!UnitsTrue
<1>2. /\ SourceInv /\ indices = Core!Sorted(Core!Boundaries) /\ UnitsInv
      /\ interval = Len(indices) /\ step # "detect"
  BY <1>1 DEF HierarchyInv, ScanInv, TreeInv, StageInv
<1>3. /\ Len(units) \in Nat /\ DOMAIN units = 1..Len(units)
      /\ \A n \in 1..Len(units) :
              units[n].start \in Nat /\ units[n].end \in Nat /\ units[n].depth \in Nat
  BY <1>2, UnitsAre
<1>4. /\ Len(indices) \in Nat /\ Len(indices) >= 2
      /\ \A i \in 1..Len(indices) :
           /\ indices[i] \in 1..(Len(ends) + 1) /\ indices[i] \in Nat
           /\ Core!Start(indices[i]) \in Nat
      /\ \A i, j \in 1..Len(indices) : i < j =>
           indices[i] < indices[j] /\ Core!Start(indices[i]) < Core!Start(indices[j])
      /\ indices[1] = Core!SourceStartToken
      /\ indices[Len(indices)] = Core!SourceEndToken
      /\ \A b \in Core!Boundaries : \E i \in 1..Len(indices) : indices[i] = b
  BY <1>2, IndicesAre
<1>5. /\ FirstInterval \in {1, 2} /\ (FirstInterval = 2 => mode = "reference")
      /\ ScanStart = Core!Start(Core!SourceEndToken)
  BY <1>2, <1>4 DEF FirstInterval, ScanStart
<1>6. /\ \A n \in 1..Len(units) : \E i \in FirstInterval..(interval - 1) : InInterval(units[n], i)
      /\ \A n, m \in 1..Len(units) : n < m => units[n].end <= units[m].start
      /\ \A byte \in Nat :
           Core!Meaningful(byte) /\ Core!Start(indices[FirstInterval]) <= byte /\ byte < ScanStart
             => \E n \in 1..Len(units) : Core!Covers(units[n], byte)
      /\ \A n \in 1..Len(units) : units[n].depth =
             Core!Highest({0} \cup {events[e].depth :
                e \in {e \in DOMAIN events : Core!Covers(events[e], units[n].start)}})
  BY <1>2 DEF UnitsInv
<1>7. ASSUME NEW byte \in 0..(Core!SourceEnd - 1)
      PROVE  Core!Cardinality({i \in DOMAIN units : Core!Covers(units[i], byte)}) <= 1
  <2> DEFINE C == {i \in 1..Len(units) : Core!Covers(units[i], byte)}
  <2>1. ASSUME NEW i \in C, NEW j \in C, i < j PROVE FALSE
    <3>1. byte < units[i].end /\ units[j].start <= byte /\ units[i].end <= units[j].start
      BY <1>6, <2>1 DEF Core!Covers
    <3>2. units[i].end \in Nat /\ units[j].start \in Nat /\ byte \in Int
      BY <1>2, <1>3, Starts
    <3> QED
      BY ONLY <3>1, <3>2
  <2>2. \A i \in C : i \in Nat
    BY <1>3
  <2> HIDE DEF C
  <2>3. CASE C = {}
    <3>1. Cardinality(C) = 0
      BY <2>3, FS_EmptySet
    <3> QED
      BY <1>3, <3>1, CoreCounts DEF C
  <2>4. CASE C # {}
    <3>1. PICK i \in C : TRUE
      BY <2>4
    <3>2. \A j \in C : j = i
      BY <2>1, <2>2, <3>1
    <3>3. C = {i}
      BY <3>1, <3>2
    <3>4. Cardinality(C) = 1
      BY <3>3, FS_Singleton
    <3>5. Core!Cardinality(C) <= 1
      BY <3>4, CoreCounts
    <3>6. C = {k \in DOMAIN units : Core!Covers(units[k], byte)}
      BY <1>3 DEF C
    <3> QED
      BY <3>5, <3>6
  <2> QED
    BY <2>3, <2>4
<1>8. ASSUME NEW byte \in 0..(Core!SourceEnd - 1), Core!Meaningful(byte),
             ~Core!Unopened(byte)
      PROVE  \E i \in DOMAIN units : Core!Covers(units[i], byte)
  <2>1. byte \in Nat
    BY <1>2, Starts
  <2>2. Core!MeaningfulStart <= byte /\ byte < Core!MeaningfulEnd
    BY <1>2, <1>8, <2>1, CodeSpan
  <2>3. /\ Core!MeaningfulEnd <= Core!Start(Core!SourceEndToken)
        /\ Core!MeaningfulEnd \in Nat
    BY <1>2, SourceSpan
  <2>4. ScanStart \in Nat
    <3>1. Len(indices) \in 1..Len(indices)
      BY <1>4
    <3> QED
      BY <1>4, <1>5, <3>1
  <2>5. byte < ScanStart
    BY <1>5, <2>1, <2>2, <2>3, <2>4
  <2>6. Core!Start(indices[FirstInterval]) <= byte
    BY <1>2, <1>8, <2>1, OpenedFrom
  <2>7. \E n \in 1..Len(units) : Core!Covers(units[n], byte)
    BY <1>6, <1>8, <2>1, <2>5, <2>6
  <2> QED
    BY <1>3, <2>7
<1>9. ASSUME NEW byte \in 0..(Core!SourceEnd - 1), Core!Unopened(byte),
              NEW n \in DOMAIN units, Core!Covers(units[n], byte)
       PROVE  FALSE
  <2>1. byte \in Nat /\ n \in 1..Len(units)
    BY <1>2, <1>3, Starts
  <2>2. PICK i \in FirstInterval..(interval - 1) : InInterval(units[n], i)
    BY <1>6, <2>1
  <2>3. i \in FirstInterval..(Len(indices) - 1) /\ i \in 1..Len(indices)
    BY <1>2, <1>4, <1>5
  <2>4. Core!Start(indices[i]) <= units[n].start /\ units[n].start <= byte
    BY <1>9, <2>2 DEF InInterval, Core!Covers
  <2>5. Core!Start(indices[i]) <= byte
    BY <1>3, <1>4, <2>1, <2>3, <2>4
  <2> QED
    BY <1>2, <1>9, <2>1, <2>3, <2>5, OpenedFrom
<1>10. ASSUME NEW t \in Core!Openers,
             NEW n \in DOMAIN units, Core!Covers(units[n], Core!Start(t))
      PROVE  units[n].start >= Core!LineOf(t)
  <2>1. n \in 1..Len(units) /\ units[n].start \in Nat /\ units[n].end \in Nat
    BY <1>3, <1>10
  <2>2. PICK k \in FirstInterval..(interval - 1) : InInterval(units[n], k)
    BY <1>6, <2>1
  <2>3. /\ k \in 1..Len(indices) /\ k + 1 \in 1..Len(indices)
    BY <1>2, <1>4, <1>5
  <2>4. PICK b \in Core!Boundaries : b <= t /\ Core!LineOf(t) <= Core!Start(b)
    BY <1>2, <1>10, MarkerBoundary
  <2>5. PICK j \in 1..Len(indices) : indices[j] = b
    BY <1>4
  <2>6. t \in 1..Len(ends) /\ t \in 1..(Len(ends) + 1) /\ Core!LineOf(t) \in Nat
          /\ Core!Start(t) \in Nat
    <3>1. Len(ends) \in Nat
      BY <1>2, Starts
    <3>2. t \in 1..Len(ends) /\ t \in 1..(Len(ends) + 1)
      BY <1>2, <1>10, <3>1, OpenersAre
    <3> QED
      BY <1>2, <3>2, OnLine, Starts
  <2>7. Core!Start(t) < Core!Start(indices[k + 1])
    <3>1. Core!Start(t) < units[n].end /\ units[n].end <= Core!Start(indices[k + 1])
      BY <1>10, <2>2 DEF Core!Covers, InInterval
    <3>2. Core!Start(indices[k + 1]) \in Nat
      BY <1>4, <2>3
    <3> QED
      BY <2>1, <2>6, <3>1, <3>2
  <2>8. j <= k
    <3>1. SUFFICES ASSUME ~(j <= k) PROVE FALSE
      OBVIOUS
    <3>2. k + 1 = j \/ k + 1 < j
      BY <1>4, <2>3, <2>5, <3>1
    <3>3. indices[k + 1] \in 1..(Len(ends) + 1) /\ b \in 1..(Len(ends) + 1)
            /\ indices[k + 1] \in Nat /\ b \in Nat
      BY <1>4, <2>3, <2>5
    <3>4. indices[k + 1] <= b
      <4>1. CASE k + 1 = j
        BY <2>5, <3>3, <4>1
      <4>2. CASE k + 1 < j
        <5>1. indices[k + 1] < indices[j]
          BY <1>4, <2>3, <4>2
        <5> QED
          BY <2>5, <3>3, <5>1
      <4> QED
        BY <3>2, <4>1, <4>2
    <3>5. indices[k + 1] = t \/ indices[k + 1] < t
      BY <2>4, <2>6, <3>3, <3>4
    <3>6. Core!Start(indices[k + 1]) <= Core!Start(t)
      <4>1. CASE indices[k + 1] = t
        BY <2>6, <4>1
      <4>2. CASE indices[k + 1] < t
        <5>1. Core!Start(indices[k + 1]) < Core!Start(t) /\ Core!Start(indices[k + 1]) \in Nat
          BY <1>2, <2>6, <3>3, <4>2, Starts
        <5> QED
          BY <2>6, <5>1
      <4> QED
        BY <3>5, <4>1, <4>2
    <3>7. Core!Start(indices[k + 1]) \in Nat
      BY <1>4, <2>3
    <3> QED
      BY <2>6, <2>7, <3>6, <3>7
  <2>9. Core!Start(b) <= Core!Start(indices[k]) /\ Core!Start(b) \in Nat
          /\ Core!Start(indices[k]) \in Nat
    <3>1. j = k \/ j < k
      BY <1>4, <2>3, <2>5, <2>8
    <3>2. Core!Start(indices[j]) \in Nat /\ Core!Start(indices[k]) \in Nat
      BY <1>4, <2>3, <2>5
    <3>3. CASE j = k
      BY <2>5, <3>2, <3>3
    <3>4. CASE j < k
      <4>1. Core!Start(indices[j]) < Core!Start(indices[k])
        BY <1>4, <2>3, <3>4
      <4> QED
        BY <2>5, <3>2, <4>1
    <3> QED
      BY <3>1, <3>3, <3>4
  <2>10. Core!Start(indices[k]) <= units[n].start
    BY <2>2 DEF InInterval
  <2>11. Core!LineOf(t) <= Core!Start(b) /\ Core!LineOf(t) \in Nat
    BY <2>4, <2>6
  <2> QED
    BY ONLY <2>1, <2>9, <2>10, <2>11
<1>11. \A n \in DOMAIN units : units[n].depth =
             Core!Highest({0} \cup {events[e].depth :
                e \in {e \in DOMAIN events : Core!Covers(events[e], units[n].start)}})
  BY <1>3, <1>6
<1>12. \A byte \in 0..(Core!SourceEnd - 1) :
         /\ Core!Cardinality({i \in DOMAIN units : Core!Covers(units[i], byte)}) <= 1
         /\ Core!Meaningful(byte) =>
              ({i \in DOMAIN units : Core!Covers(units[i], byte)} = {} <=> Core!Unopened(byte))
  <2> SUFFICES ASSUME NEW byte \in 0..(Core!SourceEnd - 1)
               PROVE  Core!Meaningful(byte) =>
                        ({i \in DOMAIN units : Core!Covers(units[i], byte)} = {}
                           <=> Core!Unopened(byte))
    BY <1>7
  <2>1. Core!Meaningful(byte) /\ ~Core!Unopened(byte) =>
          \E i \in DOMAIN units : Core!Covers(units[i], byte)
    BY <1>8
  <2>2. Core!Unopened(byte) => ~\E i \in DOMAIN units : Core!Covers(units[i], byte)
    BY <1>9
  <2> QED
    BY <2>1, <2>2, Zenon
<1> QED
  BY <1>10, <1>11, <1>12, Zenon DEF Core!UnitsTrue

LEMMA HierarchyInvariance ==
  MCSpec => []HierarchyAlways
<1>1. MCInit => HierarchyAlways
  BY HierarchyStart DEF MCInit, HierarchyAlways
<1>2. MCNext \/ UNCHANGED all =>
        group' = group /\ (group = "hierarchy" => Core!Analyze \/ UNCHANGED hierarchyVars)
  BY DEF MCNext, all
<1>3. ASSUME HierarchyInv, Core!Analyze \/ UNCHANGED hierarchyVars
      PROVE  HierarchyInv'
  BY <1>3, HierarchyStep, HierarchyStutter
<1>4. HierarchyAlways /\ [MCNext]_all => HierarchyAlways'
  BY <1>2, <1>3 DEF HierarchyAlways
<1> QED
  BY <1>1, <1>4, PTL DEF MCSpec

\* Whatever the layout of the code and its scopes: the units are a true
\* partition of it, in order, each with the depth of the scopes it begins in,
\* and the tree over them is that of the nearest less deep unit before, with
\* its levels and the number of its descendants (core.cc:115-345).
THEOREM AlwaysHierarchyTrue == MCSpec => []HierarchyTrue
<1>1. HierarchyAlways => HierarchyTrue
  BY UnitsRight, TreeRight DEF HierarchyAlways, HierarchyTrue, Core!HierarchyTrue
<1> QED
  BY <1>1, HierarchyInvariance, PTL

-----------------------------------------------------------------------------
\* The boundaries of a span are its first and each a stride behind the last.
\* The map stands for the boundaries of d: its spans adjoin, in order.
OffsetSpan == [cleaned : Nat, original : Nat, length : Nat \ {0}, stride : Nat]
Steps(span, d) ==
  \A k \in Nat : k < span.length =>
    d[span.cleaned + k + 1] = span.original + k * span.stride
Stands(m, d) ==
  /\ m = [spans |-> m.spans, size |-> m.size]
  /\ d \in Seq(Nat) /\ m.spans \in Seq(OffsetSpan) /\ m.size = Len(d)
  /\ Len(m.spans) = 0 <=> Len(d) = 0
  /\ Len(m.spans) > 0 => m.spans[1].cleaned = 0
  /\ \A i \in 1..Len(m.spans) :
       /\ m.spans[i].cleaned + m.spans[i].length
            = IF i = Len(m.spans) THEN Len(d) ELSE m.spans[i + 1].cleaned
       /\ m.spans[i].cleaned + m.spans[i].length <= Len(d)
       /\ Steps(m.spans[i], d)
Rising(d) == \A i, j \in 1..Len(d) : i < j => d[i] < d[j]

LEMMA ConcatIs ==
  ASSUME NEW S, NEW s \in Seq(S), NEW t \in Seq(S)
  PROVE  /\ s \o t \in Seq(S) /\ Len(s \o t) = Len(s) + Len(t)
         /\ Len(s) \in Nat /\ Len(t) \in Nat
         /\ \A i \in 1..Len(s) : (s \o t)[i] = s[i]
         /\ \A i \in 1..Len(t) : (s \o t)[Len(s) + i] = t[i]
         /\ \A i \in (Len(s) + 1)..(Len(s) + Len(t)) :
              i - Len(s) \in 1..Len(t) /\ (s \o t)[i] = t[i - Len(s)]
BY LenProperties, ConcatProperties

LEMMA AppendIs ==
  ASSUME NEW S, NEW s \in Seq(S), NEW x \in S
  PROVE  /\ Append(s, x) \in Seq(S) /\ Len(Append(s, x)) = Len(s) + 1
         /\ Len(s) \in Nat
         /\ \A i \in 1..Len(s) : Append(s, x)[i] = s[i]
         /\ Append(s, x)[Len(s) + 1] = x
BY LenProperties, AppendProperties

\* The last span ends with the last boundary.
LEMMA LastSpanIs ==
  ASSUME NEW m, NEW d, Stands(m, d), Len(m.spans) > 0
  PROVE  /\ Language!LastSpan(m) \in OffsetSpan /\ Len(m.spans) \in Nat
         /\ Language!LastSpan(m) = m.spans[Len(m.spans)]
         /\ Language!LastSpan(m).cleaned + Language!LastSpan(m).length = Len(d)
         /\ Language!LastOriginal(Language!LastSpan(m)) = d[Len(d)]
         /\ Language!LastOriginal(Language!LastSpan(m)) \in Nat
<1> DEFINE s == m.spans[Len(m.spans)]
<1>1. Len(m.spans) \in Nat /\ Len(m.spans) \in 1..Len(m.spans) /\ s \in OffsetSpan
  BY LenProperties, ElementsAre DEF Stands
<1>2. s.cleaned + s.length = Len(d)
  BY <1>1 DEF Stands
<1>3. /\ s.length - 1 \in Nat /\ s.length - 1 < s.length
      /\ s.cleaned \in Nat /\ s.length \in Nat /\ s.original \in Nat /\ s.stride \in Nat
  BY <1>1 DEF OffsetSpan
<1>4. d[s.cleaned + (s.length - 1) + 1] = s.original + (s.length - 1) * s.stride
  <2>1. \A k \in Nat : k < s.length => d[s.cleaned + k + 1] = s.original + k * s.stride
    <3>1. \A i \in 1..Len(m.spans) : Steps(m.spans[i], d)
      BY Zenon DEF Stands
    <3> QED
      BY <1>1, <3>1, Zenon DEF Steps
  <2> HIDE DEF s
  <2> QED
    BY <1>3, <2>1, Zenon
<1>5. s.cleaned + (s.length - 1) + 1 = Len(d)
  <2> HIDE DEF s
  <2> DEFINE a == s.cleaned
  <2> DEFINE b == s.length
  <2>1. a + b = Len(d) /\ a \in Nat /\ b \in Nat
    BY <1>2, <1>3
  <2> HIDE DEF a, b
  <2>2. a + (b - 1) + 1 = Len(d)
    BY <2>1
  <2> QED
    BY <2>2, Zenon DEF a, b
<1>6. d[Len(d)] = s.original + (s.length - 1) * s.stride
  BY <1>4, <1>5
<1>7. Len(d) \in 1..Len(d) /\ d \in Seq(Nat)
  BY <1>1, <1>2, <1>3 DEF Stands
<1>8. d[Len(d)] \in Nat
  BY <1>7, ElementsAre
<1> QED
  BY <1>1, <1>2, <1>6, <1>8, Zenon DEF Language!LastSpan, Language!LastOriginal

LEMMA SpanIs ==
  ASSUME NEW s \in OffsetSpan
  PROVE  /\ s.cleaned \in Nat /\ s.original \in Nat /\ s.stride \in Nat
         /\ s.length \in Nat /\ s.length # 0
BY DEF OffsetSpan

LEMMA Joins ==
  ASSUME NEW d \in Seq(Nat), NEW e \in Seq(Nat)
  PROVE  /\ d \o e \in Seq(Nat) /\ Len(d \o e) = Len(d) + Len(e)
         /\ \A i \in 1..Len(d) : (d \o e)[i] = d[i]
         /\ \A i \in 1..Len(e) : (d \o e)[Len(d) + i] = e[i]
BY ConcatIs

LEMMA OffsetsJoined ==
  ASSUME NEW d \in Seq(Nat), NEW e \in Seq(Nat), NEW n, Len(e) = n
  PROVE  /\ d \o e \in Seq(Nat) /\ Len(d \o e) = Len(d) + n
         /\ \A i \in 1..Len(d) : (d \o e)[i] = d[i]
         /\ \A i \in 1..n : (d \o e)[Len(d) + i] = e[i]
         /\ Len(d) \in Nat /\ n \in Nat
<1>1. /\ d \o e \in Seq(Nat) /\ Len(d \o e) = Len(d) + Len(e)
      /\ \A i \in 1..Len(d) : (d \o e)[i] = d[i]
      /\ \A i \in 1..Len(e) : (d \o e)[Len(d) + i] = e[i]
      /\ Len(d) \in Nat /\ Len(e) \in Nat
  BY ConcatIs
<1> QED
  BY <1>1

LEMMA IndexIn ==
  ASSUME NEW a \in Nat, NEW b \in Nat, NEW k \in Nat, k < b, NEW n \in Nat, a + b <= n
  PROVE  a + k + 1 \in 1..n
OBVIOUS

LEMMA SumsOf ==
  ASSUME NEW a \in Nat, NEW b \in Nat, NEW n \in Nat, NEW t \in Nat
  PROVE  /\ a + b <= t => a + b <= t + n /\ a + b # t + n + 1
         /\ a + b = t => a + (b + n) = t + n
OBVIOUS

\* The boundaries of a run.
RunFrom(e, o, n) ==
  e \in Seq(Nat) /\ Len(e) = n /\ \A k \in Nat : k < n => e[k + 1] = o + k

\* What was a span's remains it.
LEMMA StepsRemain ==
  ASSUME NEW d \in Seq(Nat), NEW e \in Seq(Nat), NEW span \in OffsetSpan, Steps(span, d),
         span.cleaned + span.length <= Len(d)
  PROVE  Steps(span, d \o e)
<1> SUFFICES ASSUME NEW k \in Nat, k < span.length
             PROVE  (d \o e)[span.cleaned + k + 1] = span.original + k * span.stride
  BY DEF Steps
<1>1. d[span.cleaned + k + 1] = span.original + k * span.stride
  BY Zenon DEF Steps
<1>2. span.cleaned + k + 1 \in 1..Len(d)
  BY SpanIs, IndexIn, LenProperties
<1>3. (d \o e)[span.cleaned + k + 1] = d[span.cleaned + k + 1]
  BY <1>2, ConcatIs
<1> QED
  BY <1>1, <1>3, Zenon

\* A span that begins where the last one ends.
LEMMA NewSpanStands ==
  ASSUME NEW m, NEW d, Stands(m, d), NEW o \in Nat, NEW n \in Nat \ {0},
         NEW e, RunFrom(e, o, n)
  PROVE  Stands(Language!NewSpan(m, o, n), d \o e)
<1> DEFINE span == [cleaned |-> m.size, original |-> o, length |-> n, stride |-> 1]
<1> DEFINE more == Language!NewSpan(m, o, n)
<1> DEFINE c == Len(m.spans)
<1> DEFINE h == d \o e
<1>1. d \in Seq(Nat) /\ m.spans \in Seq(OffsetSpan) /\ m.size = Len(d) /\ c \in Nat /\ Len(d) \in Nat
      /\ n \in Nat /\ e \in Seq(Nat) /\ Len(e) = n
  BY LenProperties DEF Stands, RunFrom
<1>2. span \in OffsetSpan /\ span.cleaned = Len(d) /\ span.original = o /\ span.length = n /\ span.stride = 1
  BY <1>1 DEF OffsetSpan
<1>3. more = [spans |-> Append(m.spans, span), size |-> Len(d) + n]
  BY <1>1, Zenon DEF Language!NewSpan
<1>4. /\ more = [spans |-> more.spans, size |-> more.size]
      /\ more.spans = Append(m.spans, span) /\ more.size = Len(d) + n
  BY <1>3
<1>0. n \in Nat
  OBVIOUS
<1>5. /\ h \in Seq(Nat) /\ Len(h) = Len(d) + n
      /\ \A i \in 1..Len(d) : h[i] = d[i]
      /\ \A i \in 1..n : h[Len(d) + i] = e[i]
  <2>1. /\ d \o e \in Seq(Nat) /\ Len(d \o e) = Len(d) + n
        /\ \A i \in 1..Len(d) : (d \o e)[i] = d[i]
        /\ \A i \in 1..n : (d \o e)[Len(d) + i] = e[i]
    <3>1. d \in Seq(Nat) /\ e \in Seq(Nat) /\ Len(e) = n
      BY <1>1, Zenon
    <3> HIDE DEF more, span
    <3> QED
      <4>1. /\ d \o e \in Seq(Nat) /\ Len(d \o e) = Len(d) + Len(e)
            /\ \A i \in 1..Len(d) : (d \o e)[i] = d[i]
            /\ \A i \in 1..Len(e) : (d \o e)[Len(d) + i] = e[i]
        BY <3>1, Joins, Zenon
      <4> QED
        BY <3>1, <4>1, Zenon
  <2> QED
    BY <2>1, Zenon
<1> HIDE DEF h, more, span
<1>6. /\ more.spans \in Seq(OffsetSpan) /\ Len(more.spans) = c + 1
      /\ \A i \in 1..c : more.spans[i] = m.spans[i]
      /\ more.spans[c + 1] = span
  BY <1>1, <1>2, <1>4, AppendIs
<1>7. Len(more.spans) > 0 => more.spans[1].cleaned = 0
  <2>1. CASE c = 0
    <3>1. Len(d) = 0
      BY <2>1 DEF Stands
    <3>2. more.spans[1] = span
      BY <1>6, <2>1
    <3> QED
      BY <1>2, <3>1, <3>2
  <2>2. CASE c > 0
    <3>1. m.spans[1].cleaned = 0 /\ 1 \in 1..c
      BY <1>1, <2>2 DEF Stands
    <3> QED
      BY <1>6, <3>1
  <2> QED
    BY <1>1, <2>1, <2>2
<1>8. ASSUME NEW i \in 1..Len(more.spans)
      PROVE  /\ more.spans[i].cleaned + more.spans[i].length
                  = IF i = Len(more.spans) THEN Len(h) ELSE more.spans[i + 1].cleaned
             /\ more.spans[i].cleaned + more.spans[i].length <= Len(h)
             /\ Steps(more.spans[i], h)
  <2>1. CASE i = c + 1
    <3>1. Steps(span, h)
      <4> SUFFICES ASSUME NEW k \in Nat, k < n
                   PROVE  h[Len(d) + k + 1] = o + k * 1
        BY <1>2, Zenon DEF Steps
      <4>1. k + 1 \in 1..n /\ Len(d) + (k + 1) = Len(d) + k + 1 /\ k * 1 = k
        BY <1>1
      <4>2. e[k + 1] = o + k
        BY DEF RunFrom
      <4> QED
        BY <1>5, <4>1, <4>2
    <3>2. span.cleaned + span.length = Len(h)
      BY <1>1, <1>2, <1>5
    <3>3. more.spans[i] = span /\ i = Len(more.spans) /\ Len(h) <= Len(h)
      BY <1>1, <1>5, <1>6, <2>1
    <3> QED
      BY <1>2, <3>1, <3>2, <3>3, Zenon
  <2>2. CASE i # c + 1
    <3>1. i \in 1..c /\ more.spans[i] = m.spans[i] /\ m.spans[i] \in OffsetSpan
      <4>1. i \in 1..c
        BY <1>1, <1>6, <2>2
      <4> QED
        BY <1>1, <1>6, <4>1, ElementsAre, Zenon
    <3>2. /\ m.spans[i].cleaned + m.spans[i].length
               = IF i = c THEN Len(d) ELSE m.spans[i + 1].cleaned
          /\ m.spans[i].cleaned + m.spans[i].length <= Len(d)
      BY <3>1 DEF Stands
    <3>3. more.spans[i + 1].cleaned = IF i = c THEN Len(d) ELSE m.spans[i + 1].cleaned
      <4>1. CASE i = c
        BY <1>2, <1>6, <4>1
      <4>2. CASE i # c
        <5>1. i + 1 \in 1..c
          BY <1>1, <3>1, <4>2
        <5> QED
          BY <1>6, <4>2, <5>1
      <4> QED
        BY <1>1, <4>1, <4>2
    <3>4. Steps(m.spans[i], h)
      <4>1. Steps(m.spans[i], d)
        BY <3>1 DEF Stands
      <4> QED
        BY <1>1, <3>1, <3>2, <4>1, StepsRemain DEF h
    <3>5. i # Len(more.spans) /\ m.spans[i].cleaned + m.spans[i].length <= Len(h)
      <4>1. m.spans[i].cleaned \in Nat /\ m.spans[i].length \in Nat
        BY <3>1, SpanIs
      <4>2. m.spans[i].cleaned + m.spans[i].length <= Len(d) /\ Len(h) = Len(d) + n
        BY <1>5, <3>2, Zenon
      <4>3. i # Len(more.spans)
        BY <1>6, <2>2, Zenon
      <4> QED
        <5>1. Len(d) \in Nat /\ n \in Nat
          BY <1>1, Zenon
        <5>2. m.spans[i].cleaned + m.spans[i].length <= Len(h)
          BY <4>1, <4>2, <5>1
        <5> QED
          BY <4>3, <5>2, Zenon
    <3>6. m.spans[i].cleaned + m.spans[i].length = more.spans[i + 1].cleaned
      BY <3>2, <3>3
    <3> QED
      BY <3>1, <3>4, <3>5, <3>6, Zenon
  <2> QED
    BY <2>1, <2>2
<1>9. Len(more.spans) = 0 <=> Len(h) = 0
  BY <1>1, <1>5, <1>6
<1>10. /\ more = [spans |-> more.spans, size |-> more.size]
       /\ h \in Seq(Nat) /\ more.spans \in Seq(OffsetSpan) /\ more.size = Len(h)
  BY <1>4, <1>5, <1>6, Zenon
<1>11. Stands(more, h)
  BY <1>1, <1>7, <1>8, <1>9, <1>10 DEF Stands
<1> QED
  BY <1>11, Zenon DEF more, h

\* A last span that is made longer.
LEMMA ExtendedStands ==
  ASSUME NEW m, NEW d, Stands(m, d), Len(m.spans) > 0,
         NEW n \in Nat \ {0}, NEW e \in Seq(Nat), Len(e) = n, NEW span \in OffsetSpan,
         span.cleaned = Language!LastSpan(m).cleaned,
         span.length = Language!LastSpan(m).length + n,
         Steps(span, d \o e)
  PROVE  Stands(Language!Extended(m, span), d \o e)
<1> DEFINE more == Language!Extended(m, span)
<1> DEFINE c == Len(m.spans)
<1> DEFINE h == d \o e
<1>1. /\ d \in Seq(Nat) /\ m.spans \in Seq(OffsetSpan) /\ m.size = Len(d) /\ c \in Nat
      /\ Len(d) \in Nat /\ c \in 1..c /\ n \in Nat
  BY LenProperties DEF Stands
<1>2. /\ Language!LastSpan(m) = m.spans[c] /\ m.spans[c] \in OffsetSpan
      /\ m.spans[c].cleaned + m.spans[c].length = Len(d)
  BY LastSpanIs
<1>3. more = [spans |-> [m.spans EXCEPT ![c] = span], size |-> Len(d) + n]
  <2>1. Len(d) + span.length - m.spans[c].length = Len(d) + n
    <3>1. span.length = m.spans[c].length + n /\ m.spans[c].length \in Nat
      BY <1>2, SpanIs, Zenon
    <3> QED
      BY <1>1, <3>1
  <2> QED
    BY <1>1, <1>2, <2>1, Zenon DEF Language!Extended
<1>4. /\ more = [spans |-> more.spans, size |-> more.size]
      /\ more.spans = [m.spans EXCEPT ![c] = span] /\ more.size = Len(d) + n
  BY <1>3
<1>5. /\ h \in Seq(Nat) /\ Len(h) = Len(d) + n
      /\ \A i \in 1..Len(d) : h[i] = d[i]
  <2>1. /\ d \o e \in Seq(Nat) /\ Len(d \o e) = Len(d) + n
        /\ \A i \in 1..Len(d) : (d \o e)[i] = d[i]
        /\ \A i \in 1..n : (d \o e)[Len(d) + i] = e[i]
    <3>1. /\ d \o e \in Seq(Nat) /\ Len(d \o e) = Len(d) + Len(e)
          /\ \A i \in 1..Len(d) : (d \o e)[i] = d[i]
          /\ \A i \in 1..Len(e) : (d \o e)[Len(d) + i] = e[i]
      BY <1>1, Joins, Zenon
    <3> QED
      BY <1>1, <3>1, Zenon
  <2> QED
    BY <2>1, Zenon
<1> HIDE DEF h, more
<1>6. /\ more.spans \in Seq(OffsetSpan) /\ Len(more.spans) = c
      /\ \A i \in 1..c : i # c => more.spans[i] = m.spans[i]
      /\ more.spans[c] = span
  BY <1>1, <1>4
<1>7. more.spans[1].cleaned = 0
  <2>1. m.spans[1].cleaned = 0
    BY DEF Stands
  <2> QED
    BY <1>1, <1>2, <1>6, <2>1
<1>8. ASSUME NEW i \in 1..c
      PROVE  /\ more.spans[i].cleaned + more.spans[i].length
                  = IF i = c THEN Len(h) ELSE more.spans[i + 1].cleaned
             /\ more.spans[i].cleaned + more.spans[i].length <= Len(h)
             /\ Steps(more.spans[i], h)
  <2>1. CASE i = c
    <3>1. span.cleaned + span.length = Len(h)
      <4>1. /\ span.cleaned = m.spans[c].cleaned /\ span.length = m.spans[c].length + n
            /\ m.spans[c].cleaned \in Nat /\ m.spans[c].length \in Nat
        BY <1>2, SpanIs, Zenon
      <4>2. m.spans[c].cleaned + m.spans[c].length = Len(d) /\ Len(h) = Len(d) + n
        BY <1>2, <1>5, Zenon
      <4> QED
        BY <1>1, <4>1, <4>2
    <3>2. more.spans[i] = span /\ Len(h) <= Len(h)
      BY <1>1, <1>5, <1>6, <2>1
    <3> QED
      BY <2>1, <3>1, <3>2, Zenon DEF h
  <2>2. CASE i # c
    <3>1. more.spans[i] = m.spans[i] /\ m.spans[i] \in OffsetSpan /\ i + 1 \in 1..c
      BY <1>1, <1>6, <2>2, ElementsAre
    <3>2. /\ m.spans[i].cleaned + m.spans[i].length = m.spans[i + 1].cleaned
          /\ m.spans[i].cleaned + m.spans[i].length <= Len(d)
      BY <2>2 DEF Stands
    <3>3. more.spans[i + 1].cleaned = m.spans[i + 1].cleaned
      <4>1. CASE i + 1 = c
        BY <1>2, <1>6, <4>1
      <4>2. CASE i + 1 # c
        BY <1>6, <3>1, <4>2
      <4> QED
        BY <1>1, <4>1, <4>2
    <3>4. Steps(m.spans[i], h)
      <4>1. Steps(m.spans[i], d)
        BY <3>1 DEF Stands
      <4> QED
        BY <1>1, <3>1, <3>2, <4>1, StepsRemain DEF h
    <3>5. m.spans[i].cleaned + m.spans[i].length <= Len(h)
      <4>1. m.spans[i].cleaned \in Nat /\ m.spans[i].length \in Nat
        BY <3>1, SpanIs
      <4>2. m.spans[i].cleaned + m.spans[i].length <= Len(d) /\ Len(h) = Len(d) + n
        BY <1>5, <3>2, Zenon
      <4> QED
        BY <1>1, <4>1, <4>2
    <3> QED
      BY <2>2, <3>1, <3>2, <3>3, <3>4, <3>5, Zenon
  <2> QED
    BY <2>1, <2>2
<1>9. Len(more.spans) = 0 <=> Len(h) = 0
  BY <1>1, <1>5, <1>6
<1>10. /\ more = [spans |-> more.spans, size |-> more.size]
       /\ h \in Seq(Nat) /\ more.spans \in Seq(OffsetSpan) /\ more.size = Len(h)
  BY <1>4, <1>5, <1>6, Zenon
<1>11. \A i \in 1..Len(more.spans) :
         /\ more.spans[i].cleaned + more.spans[i].length
              = IF i = Len(more.spans) THEN Len(h) ELSE more.spans[i + 1].cleaned
         /\ more.spans[i].cleaned + more.spans[i].length <= Len(h)
         /\ Steps(more.spans[i], h)
  BY <1>6, <1>8, Zenon
<1>12. Stands(more, h)
  BY <1>7, <1>9, <1>10, <1>11, Zenon DEF Stands
<1> QED
  BY <1>12, Zenon DEF more, h

\* The boundary o can come next.
Follows(d, o) == Len(d) > 0 => d[Len(d)] <= o

LEMMA Product ==
  ASSUME NEW a \in Nat, NEW b \in Nat, a # 0
  PROVE  /\ (a - 1) * b + b = a * b
         /\ 0 * b = 0 /\ 1 * b = b /\ a * 1 = a
OBVIOUS

LEMMA NoSpans ==
  ASSUME NEW m, NEW d, Stands(m, d)
  PROVE  /\ m.spans = <<>> <=> Len(d) = 0
         /\ m.spans # <<>> <=> Len(m.spans) > 0
         /\ Len(d) \in Nat /\ m.size = Len(d) /\ d \in Seq(Nat)
<1>1. m.spans \in Seq(OffsetSpan) /\ d \in Seq(Nat) /\ m.size = Len(d)
      /\ (Len(m.spans) = 0 <=> Len(d) = 0)
  BY DEF Stands
<1>2. Len(m.spans) \in Nat /\ Len(d) \in Nat /\ (m.spans = <<>> <=> Len(m.spans) = 0)
  BY <1>1, NoLength
<1> QED
  BY <1>1, <1>2

LEMMA Accepts ==
  ASSUME NEW m, NEW d, Stands(m, d), NEW o \in Nat, Follows(d, o)
  PROVE  Language!Monotonic(m, o)
<1>1. CASE m.spans = <<>>
  BY <1>1 DEF Language!Monotonic
<1>2. CASE m.spans # <<>>
  <2>1. Len(m.spans) > 0 /\ Len(d) > 0
    BY <1>2, NoSpans
  <2> QED
    BY <2>1, LastSpanIs DEF Language!Monotonic, Follows
<1> QED
  BY <1>1, <1>2

LEMMA WithLength ==
  ASSUME NEW s \in OffsetSpan, NEW n \in Nat \ {0}, NEW t \in Nat
  PROVE  /\ [s EXCEPT !.length = n, !.stride = t]
              = [cleaned |-> s.cleaned, original |-> s.original, length |-> n, stride |-> t]
         /\ [s EXCEPT !.length = n]
              = [cleaned |-> s.cleaned, original |-> s.original, length |-> n,
                 stride |-> s.stride]
         /\ [cleaned |-> s.cleaned, original |-> s.original, length |-> n, stride |-> t]
              \in OffsetSpan
<1>1. s = [cleaned |-> s.cleaned, original |-> s.original, length |-> s.length,
           stride |-> s.stride]
  BY DEF OffsetSpan
<1>2. /\ s.cleaned \in Nat /\ s.original \in Nat
  BY SpanIs
<1>3. /\ [s EXCEPT !.length = n, !.stride = t]
           = [cleaned |-> s.cleaned, original |-> s.original, length |-> n, stride |-> t]
      /\ [s EXCEPT !.length = n]
           = [cleaned |-> s.cleaned, original |-> s.original, length |-> n,
              stride |-> s.stride]
  <2>1. \E a, b, c, e : s = [cleaned |-> a, original |-> b, length |-> c, stride |-> e]
    BY <1>1
  <2>2. PICK a, b, c, e : s = [cleaned |-> a, original |-> b, length |-> c, stride |-> e]
    BY <2>1
  <2>3. s.cleaned = a /\ s.original = b /\ s.stride = e
    BY <2>2
  <2>4. [[cleaned |-> a, original |-> b, length |-> c, stride |-> e] EXCEPT !.length = n]
          = [cleaned |-> a, original |-> b, length |-> n, stride |-> e]
    OBVIOUS
  <2>5. [[cleaned |-> a, original |-> b, length |-> n, stride |-> e] EXCEPT !.stride = t]
          = [cleaned |-> a, original |-> b, length |-> n, stride |-> t]
    OBVIOUS
  <2>6. [s EXCEPT !.length = n, !.stride = t] = [[s EXCEPT !.length = n] EXCEPT !.stride = t]
    OBVIOUS
  <2>7. [s EXCEPT !.length = n]
          = [cleaned |-> a, original |-> b, length |-> n, stride |-> e]
    BY <2>2, <2>4, Zenon
  <2>8. [s EXCEPT !.length = n, !.stride = t]
          = [cleaned |-> a, original |-> b, length |-> n, stride |-> t]
    BY <2>5, <2>6, <2>7, Zenon
  <2> QED
    BY <2>3, <2>7, <2>8, Zenon
<1>4. [cleaned |-> s.cleaned, original |-> s.original, length |-> n, stride |-> t] \in OffsetSpan
  BY <1>2 DEF OffsetSpan
<1> QED
  BY <1>3, <1>4, Zenon

\* One boundary more.
LEMMA AppendedStands ==
  ASSUME NEW m, NEW d, Stands(m, d), NEW o \in Nat, Follows(d, o)
  PROVE  Stands(Language!Appended(m, o), d \o <<o>>)
<1>1. <<o>> \in Seq(Nat) /\ Len(<<o>>) = 1 /\ <<o>>[1] = o
  OBVIOUS
<1>2. CASE ~Language!Continues(m, o)
  <2>1. RunFrom(<<o>>, o, 1)
    BY <1>1 DEF RunFrom
  <2>2. Stands(Language!NewSpan(m, o, 1), d \o <<o>>)
    BY <2>1, NewSpanStands
  <2> QED
    BY <1>2, <2>2 DEF Language!Appended
<1>3. CASE Language!Continues(m, o)
  <2> DEFINE last == Language!LastSpan(m)
  <2> DEFINE t == o - Language!LastOriginal(last)
  <2> DEFINE span == [last EXCEPT !.length = @ + 1, !.stride = t]
  <2>1. m.spans # <<>> /\ (last.length = 1 \/ t = last.stride)
    BY <1>3 DEF Language!Continues
  <2>2. Len(m.spans) > 0 /\ Len(d) > 0 /\ Len(d) \in Nat /\ d \in Seq(Nat)
    BY <2>1, NoSpans
  <2>3. /\ last \in OffsetSpan /\ last.cleaned + last.length = Len(d)
        /\ Language!LastOriginal(last) = d[Len(d)] /\ Language!LastOriginal(last) \in Nat
        /\ Language!LastOriginal(last) = last.original + (last.length - 1) * last.stride
        /\ last = m.spans[Len(m.spans)] /\ Len(m.spans) \in 1..Len(m.spans)
    BY <2>2, LastSpanIs DEF Language!LastOriginal
  <2>4. /\ last.cleaned \in Nat /\ last.original \in Nat /\ last.stride \in Nat
        /\ last.length \in Nat /\ last.length # 0
    BY <2>3, SpanIs
  <2>5. t \in Nat /\ o = Language!LastOriginal(last) + t
    BY <2>2, <2>3 DEF Follows
  <2> HIDE DEF last, t
  <2>6. /\ span.cleaned = last.cleaned /\ span.original = last.original
        /\ span.length = last.length + 1 /\ span.stride = t /\ span \in OffsetSpan
    <3>1. last.length + 1 \in Nat \ {0}
      BY <2>4
    <3>2. span = [cleaned |-> last.cleaned, original |-> last.original,
                  length |-> last.length + 1, stride |-> t]
      BY <2>3, <2>5, <3>1, WithLength, ZenonT(40)
    <3> HIDE DEF span
    <3>3. span \in OffsetSpan
      <4>1. [cleaned |-> last.cleaned, original |-> last.original,
             length |-> last.length + 1, stride |-> t] \in OffsetSpan
        BY <2>3, <2>5, <3>1, WithLength, Zenon
      <4> QED
        BY <3>2, <4>1, Zenon
    <3> QED
      BY <3>2, <3>3
  <2>7. Steps(last, d)
    BY <2>3 DEF Stands
  <2>8. o = last.original + last.length * t
    <3>1. CASE last.length = 1
      BY <2>3, <2>4, <2>5, <3>1, Product
    <3>2. CASE t = last.stride
      <4>1. (last.length - 1) * t + t = last.length * t /\ (last.length - 1) * t \in Nat
        BY <2>4, <2>5, Product
      <4>2. o = last.original + (last.length - 1) * t + t
        BY <2>3, <2>5, <3>2
      <4> QED
        BY <2>4, <2>5, <4>1, <4>2
    <3> QED
      BY <2>1, <3>1, <3>2 DEF last, t
  <2>9. \A k \in Nat : k < last.length => k * t = k * last.stride
    <3>1. CASE last.length = 1
      <4>1. \A k \in Nat : k < 1 => k = 0
        OBVIOUS
      <4>2. 0 * t = 0 * last.stride
        BY <2>4, <2>5
      <4> QED
        BY <3>1, <4>1, <4>2, Zenon
    <3>2. CASE t = last.stride
      BY <3>2
    <3> QED
      BY <2>1, <3>1, <3>2 DEF last, t
  <2> HIDE DEF span
  <2>10. Steps(span, d \o <<o>>)
    <3> SUFFICES ASSUME NEW k \in Nat, k < last.length + 1
                 PROVE  (d \o <<o>>)[last.cleaned + k + 1] = last.original + k * t
      BY <2>6, Zenon DEF Steps
    <3>1. CASE k = last.length
      <4>1. last.cleaned + k + 1 = Len(d) + 1
        BY <2>3, <2>4, <3>1
      <4>2. (d \o <<o>>)[Len(d) + 1] = o
        BY <1>1, <2>2, ConcatIs
      <4> QED
        BY <2>8, <3>1, <4>1, <4>2, Zenon
    <3>2. CASE k # last.length
      <4>1. k < last.length
        BY <2>4, <3>2
      <4>2. Steps(last, d \o <<o>>)
        <5>1. last.cleaned + last.length <= Len(d)
          BY <2>2, <2>3
        <5> QED
          BY <1>1, <2>2, <2>3, <2>7, <5>1, StepsRemain
      <4> QED
        BY <2>9, <4>1, <4>2, Zenon DEF Steps
    <3> QED
      BY <3>1, <3>2
  <2>11. Stands(Language!Extended(m, span), d \o <<o>>)
    <3>1. span.cleaned = Language!LastSpan(m).cleaned
          /\ span.length = Language!LastSpan(m).length + 1
      BY <2>6, Zenon DEF last
    <3> QED
      <4>1. 1 \in Nat \ {0} /\ span \in OffsetSpan
        BY <2>6
      <4> QED
        BY <1>1, <2>2, <2>10, <3>1, <4>1, ExtendedStands, Zenon
  <2>12. Language!Appended(m, o) = Language!Extended(m, span)
    BY <1>3, Zenon DEF Language!Appended, span, last, t
  <2> QED
    BY <2>11, <2>12, Zenon
<1> QED
  BY <1>2, <1>3

LEMMA NothingJoined ==
  ASSUME NEW S, NEW s \in Seq(S)
  PROVE  s \o <<>> = s
OBVIOUS

LEMMA PlaceInRun ==
  ASSUME NEW c \in Nat, NEW l \in Nat, NEW k \in Nat, NEW n \in Nat, NEW t \in Nat, NEW o,
         c + l = t, ~(k < l), k < l + n, NEW b \in Nat, b + l = o
  PROVE  /\ k - l \in Nat /\ k - l < n /\ (k - l) + 1 \in 1..n
         /\ c + k + 1 = t + ((k - l) + 1) /\ o + (k - l) = b + k * 1
OBVIOUS

\* A run more.
LEMMA RunStands ==
  ASSUME NEW m, NEW d, Stands(m, d), NEW o \in Nat, NEW n \in Nat, NEW e, RunFrom(e, o, n),
         Follows(d, o)
  PROVE  Stands(Language!RunAppended(m, o, n), d \o e)
<1>1. e \in Seq(Nat) /\ Len(e) = n /\ d \in Seq(Nat) /\ Len(d) \in Nat
  BY NoSpans DEF RunFrom
<1>2. CASE n = 0
  <2>1. e = <<>>
    BY <1>1, <1>2, NoLength
  <2>2. d \o e = d
    BY <1>1, <2>1, NothingJoined
  <2> QED
    BY <1>2, <2>2, Zenon DEF Language!RunAppended
<1>3. CASE n # 0 /\ ~Language!ContinuesRun(m, o, n)
  <2>1. n \in Nat \ {0}
    BY <1>3
  <2>2. Stands(Language!NewSpan(m, o, n), d \o e)
    BY <2>1, NewSpanStands
  <2> QED
    BY <1>3, <2>2, Zenon DEF Language!RunAppended
<1>4. CASE n # 0 /\ Language!ContinuesRun(m, o, n)
  <2> DEFINE last == Language!LastSpan(m)
  <2> DEFINE span == [last EXCEPT !.length = @ + n]
  <2>1. m.spans # <<>> /\ last.stride = 1 /\ last.original + last.length = o
    BY <1>4, Zenon DEF Language!ContinuesRun
  <2>2. Len(m.spans) > 0 /\ Len(d) > 0
    BY <2>1, NoSpans
  <2>3. /\ last \in OffsetSpan /\ last.cleaned + last.length = Len(d)
        /\ last = m.spans[Len(m.spans)] /\ Len(m.spans) \in 1..Len(m.spans)
    BY <2>2, LastSpanIs
  <2>4. /\ last.cleaned \in Nat /\ last.original \in Nat /\ last.stride \in Nat
        /\ last.length \in Nat /\ last.length # 0
    BY <2>3, SpanIs
  <2>5. Steps(last, d)
    BY <2>3 DEF Stands
  <2>6. Language!RunAppended(m, o, n) = Language!Extended(m, span)
    BY <1>4, Zenon DEF Language!RunAppended, last, span
  <2> HIDE DEF last
  <2>7. /\ span.cleaned = last.cleaned /\ span.original = last.original
        /\ span.length = last.length + n /\ span.stride = 1 /\ span \in OffsetSpan
    <3>1. last.length + n \in Nat \ {0}
      BY <2>4
    <3>2. span = [cleaned |-> last.cleaned, original |-> last.original,
                  length |-> last.length + n, stride |-> last.stride]
      BY <2>3, <2>4, <3>1, WithLength, Zenon
    <3> HIDE DEF span
    <3>3. [cleaned |-> last.cleaned, original |-> last.original,
           length |-> last.length + n, stride |-> last.stride] \in OffsetSpan
      BY <2>3, <2>4, <3>1, WithLength, Zenon
    <3>4. span \in OffsetSpan
      BY <3>2, <3>3, Zenon
    <3> QED
      BY <2>1, <3>2, <3>4
  <2> HIDE DEF span
  <2>10. ASSUME NEW k \in Nat, ~(k < last.length), k < last.length + n
         PROVE  /\ k - last.length \in Nat /\ k - last.length < n
                /\ (k - last.length) + 1 \in 1..n
                /\ last.cleaned + k + 1 = Len(d) + ((k - last.length) + 1)
                /\ o + (k - last.length) = last.original + k * 1
    <3>1. /\ last.cleaned \in Nat /\ last.length \in Nat /\ Len(d) \in Nat
          /\ last.original \in Nat
      BY <1>1, <2>4, Zenon
    <3>2. last.cleaned + last.length = Len(d) /\ last.original + last.length = o
      BY <2>1, <2>3, Zenon
    <3>3. PICK a, b, l, t : a = last.cleaned /\ b = last.original /\ l = last.length /\ t = Len(d)
      BY Zenon
    <3>4. /\ a \in Nat /\ b \in Nat /\ l \in Nat /\ t \in Nat /\ k \in Nat /\ n \in Nat
          /\ a + l = t /\ b + l = o /\ ~(k < l) /\ k < l + n
      BY <2>10, <3>1, <3>2, <3>3, Zenon
    <3>5. /\ k - l \in Nat /\ k - l < n /\ (k - l) + 1 \in 1..n
          /\ a + k + 1 = t + ((k - l) + 1) /\ o + (k - l) = b + k * 1
      BY ONLY <3>4, PlaceInRun
    <3> QED
      BY <3>3, <3>5, Zenon
  <2>8. Steps(span, d \o e)
    <3> SUFFICES ASSUME NEW k \in Nat, k < last.length + n
                 PROVE  (d \o e)[last.cleaned + k + 1] = last.original + k * 1
      BY <2>7, Zenon DEF Steps
    <3>1. CASE k < last.length
      <4>1. Steps(last, d \o e)
        <5>1. last.cleaned + last.length <= Len(d)
          BY <1>1, <2>3
        <5> QED
          BY <1>1, <2>3, <2>5, <5>1, StepsRemain
      <4> QED
        BY <2>1, <3>1, <4>1, Zenon DEF Steps
    <3>2. CASE ~(k < last.length)
      <4> DEFINE j == k - last.length
      <4>1. /\ j \in Nat /\ j < n /\ j + 1 \in 1..n /\ last.cleaned + k + 1 = Len(d) + (j + 1)
            /\ o + j = last.original + k * 1
        BY <2>10, <3>2, Zenon
      <4> HIDE DEF j
      <4>2. (d \o e)[Len(d) + (j + 1)] = e[j + 1]
        BY <1>1, <4>1, OffsetsJoined
      <4>3. e[j + 1] = o + j
        BY <4>1, Zenon DEF RunFrom
      <4> QED
        BY <4>1, <4>2, <4>3, Zenon
    <3> QED
      BY <3>1, <3>2
  <2>9. Stands(Language!Extended(m, span), d \o e)
    <3>1. span.cleaned = Language!LastSpan(m).cleaned
          /\ span.length = Language!LastSpan(m).length + n
      BY <2>7, Zenon DEF last
    <3>2. n \in Nat \ {0} /\ span \in OffsetSpan
      BY <1>4, <2>7
    <3> QED
      BY <1>1, <2>2, <2>8, <3>1, <3>2, ExtendedStands, Zenon
  <2> QED
    BY <2>6, <2>9, Zenon
<1> QED
  BY <1>2, <1>3, <1>4

\* The function that appends some boundaries one after the other exists.
Appends(f, m, s) ==
  f = [i \in 0..Len(s) |-> IF i = 0 THEN m ELSE Language!Appended(f[i - 1], s[i])]

LEMMA AppendingExists ==
  ASSUME NEW m, NEW s \in Seq(Nat)
  PROVE  \E f : Appends(f, m, s)
<1> DEFINE Fits(f, k) ==
      \A i \in 0..k : f[i] = IF i = 0 THEN m ELSE Language!Appended(f[i - 1], s[i])
<1> DEFINE T == {k \in Nat : k <= Len(s) => \E f : Fits(f, k)}
<1>1. Len(s) \in Nat
  BY LenProperties
<1>2. 0 \in T
  <2>1. Fits([i \in 0..0 |-> m], 0)
    OBVIOUS
  <2> QED
    BY <2>1
<1>3. ASSUME NEW k \in Nat, k \in T PROVE k + 1 \in T
  <2> SUFFICES ASSUME k + 1 <= Len(s) PROVE \E f : Fits(f, k + 1)
    OBVIOUS
  <2>1. PICK g : Fits(g, k)
    BY <1>1, <1>3
  <2> DEFINE last == Language!Appended(g[k], s[k + 1])
  <2> DEFINE f == [i \in 0..(k + 1) |-> IF i = k + 1 THEN last ELSE g[i]]
  <2>2. ASSUME NEW i \in 0..(k + 1)
        PROVE  f[i] = IF i = 0 THEN m ELSE Language!Appended(f[i - 1], s[i])
    <3>1. CASE i = k + 1
      <4>1. f[k + 1] = last /\ f[k] = g[k] /\ i # 0 /\ i - 1 = k
        BY <3>1
      <4>2. f[i] = Language!Appended(f[i - 1], s[i])
        BY <3>1, <4>1, Zenon
      <4> QED
        BY <4>1, <4>2, Zenon
    <3>2. CASE i # k + 1
      <4>1. i \in 0..k /\ f[i] = g[i] /\ (i # 0 => f[i - 1] = g[i - 1])
        BY <3>2
      <4>2. g[i] = IF i = 0 THEN m ELSE Language!Appended(g[i - 1], s[i])
        BY <2>1, <4>1, Zenon
      <4> QED
        BY <4>1, <4>2, Zenon
    <3> QED
      BY <3>1, <3>2
  <2>3. Fits(f, k + 1)
    BY <2>2, Zenon
  <2> QED
    BY <2>3
<1>4. Len(s) \in T
  BY <1>1, <1>2, <1>3, Counting
<1>5. PICK f : Fits(f, Len(s))
  BY <1>1, <1>4
<1> DEFINE g == [i \in 0..Len(s) |-> f[i]]
<1>6. ASSUME NEW i \in 0..Len(s)
      PROVE  g[i] = IF i = 0 THEN m ELSE Language!Appended(g[i - 1], s[i])
  <2>1. g[i] = f[i] /\ (i # 0 => g[i - 1] = f[i - 1])
    BY <1>1
  <2>2. f[i] = IF i = 0 THEN m ELSE Language!Appended(f[i - 1], s[i])
    BY <1>5, Zenon
  <2> QED
    BY <2>1, <2>2, Zenon
<1>7. g = [i \in 0..Len(s) |-> g[i]]
  BY Zenon
<1>8. g = [i \in 0..Len(s) |-> IF i = 0 THEN m ELSE Language!Appended(g[i - 1], s[i])]
  <2> HIDE DEF g
  <2> QED
    BY <1>6, <1>7, Zenon
<1> QED
  BY <1>8, Zenon DEF Appends

Appending(f, m, s) ==
  /\ Language!AllAppended(m, s) = f[Len(s)] /\ f[0] = m
  /\ \A i \in 1..Len(s) : f[i] = Language!Appended(f[i - 1], s[i])

LEMMA AppendingIs ==
  ASSUME NEW m, NEW s \in Seq(Nat)
  PROVE  \E f : Appending(f, m, s)
<1>0. PICK f : f = CHOOSE g :
                 g = [i \in 0..Len(s) |-> IF i = 0 THEN m ELSE Language!Appended(g[i - 1], s[i])]
  BY Zenon
<1>1. /\ f = [i \in 0..Len(s) |-> IF i = 0 THEN m ELSE Language!Appended(f[i - 1], s[i])]
      /\ Language!AllAppended(m, s) = f[Len(s)]
  <2>1. \E g : g = [i \in 0..Len(s) |-> IF i = 0 THEN m ELSE Language!Appended(g[i - 1], s[i])]
    <3>1. PICK g : Appends(g, m, s)
      BY AppendingExists, Zenon
    <3> QED
      BY <3>1, Zenon DEF Appends
  <2>2. f = [i \in 0..Len(s) |-> IF i = 0 THEN m ELSE Language!Appended(f[i - 1], s[i])]
    BY <1>0, <2>1, Zenon
  <2>3. Language!AllAppended(m, s) = f[Len(s)]
    BY <1>0, Zenon DEF Language!AllAppended
  <2> QED
    BY <2>2, <2>3, Zenon
<1>2. Len(s) \in Nat
  BY LenProperties
<1>3. \A i \in 0..Len(s) : f[i] = IF i = 0 THEN m ELSE Language!Appended(f[i - 1], s[i])
  BY <1>1, Zenon
<1>4. 0 \in 0..Len(s) /\ \A i \in 1..Len(s) : i \in 0..Len(s) /\ i # 0
  BY <1>2
<1> QED
  BY <1>1, <1>3, <1>4, Zenon DEF Appending

\* The first offsets of a list, and one more.
LEMMA FirstsAre ==
  ASSUME NEW s \in Seq(Nat), NEW i \in 0..Len(s)
  PROVE  /\ SubSeq(s, 1, i) \in Seq(Nat) /\ Len(SubSeq(s, 1, i)) = i
         /\ \A j \in 1..i : SubSeq(s, 1, i)[j] = s[j]
BY SubSeqProperties

LEMMA JoinedOnce ==
  ASSUME NEW d \in Seq(Nat), NEW s \in Seq(Nat), NEW i \in 0..(Len(s) - 1)
  PROVE  d \o SubSeq(s, 1, i + 1) = (d \o SubSeq(s, 1, i)) \o <<s[i + 1]>>
<1> DEFINE a == SubSeq(s, 1, i)
<1> DEFINE b == SubSeq(s, 1, i + 1)
<1>1. /\ Len(s) \in Nat /\ i \in 0..Len(s) /\ i + 1 \in 0..Len(s) /\ i \in Nat
      /\ i + 1 \in 1..Len(s)
  BY LenProperties
<1>2. s[i + 1] \in Nat
  BY <1>1, ElementsAre
<1>3. a \in Seq(Nat) /\ Len(a) = i /\ \A j \in 1..i : a[j] = s[j]
  BY <1>1, FirstsAre, Zenon
<1>4. b \in Seq(Nat) /\ Len(b) = i + 1 /\ \A j \in 1..(i + 1) : b[j] = s[j]
  BY <1>1, FirstsAre, Zenon
<1> HIDE DEF a, b
<1>5. b = a \o <<s[i + 1]>>
  BY <1>1, <1>2, <1>3, <1>4, SMTT(30)
<1>6. d \o (a \o <<s[i + 1]>>) = (d \o a) \o <<s[i + 1]>>
  BY <1>2, <1>3, SMTT(30)
<1> QED
  BY <1>5, <1>6, Zenon DEF a, b

\* A boundary is at least as far as those before it are many.
LEMMA RisingBeyond ==
  ASSUME NEW d \in Seq(Nat), Rising(d)
  PROVE  \A i \in 1..Len(d) : i - 1 <= d[i]
<1> DEFINE T == {k \in Nat : k + 1 <= Len(d) => k <= d[k + 1]}
<1>1. Len(d) \in Nat /\ \A i \in 1..Len(d) : d[i] \in Nat
  BY LenProperties, ElementsAre
<1>2. 0 \in T
  BY <1>1
<1>3. ASSUME NEW k \in Nat, k \in T PROVE k + 1 \in T
  <2> SUFFICES ASSUME k + 1 + 1 <= Len(d) PROVE k + 1 <= d[k + 1 + 1]
    OBVIOUS
  <2>1. k + 1 \in 1..Len(d) /\ k + 1 + 1 \in 1..Len(d) /\ k + 1 < k + 1 + 1
    BY <1>1
  <2>2. d[k + 1] < d[k + 1 + 1]
    BY <2>1, Zenon DEF Rising
  <2>3. k <= d[k + 1]
    BY <1>1, <1>3
  <2> QED
    BY <1>1, <2>1, <2>2, <2>3
<1>4. \A k \in Nat : k \in T
  BY <1>2, <1>3, Counting
<1> SUFFICES ASSUME NEW i \in 1..Len(d) PROVE i - 1 <= d[i]
  OBVIOUS
<1>5. i - 1 \in Nat /\ (i - 1) + 1 = i /\ i <= Len(d)
  BY <1>1
<1> QED
  BY <1>4, <1>5

\* What a rising list begins with rises.
LEMMA RisingFirst ==
  ASSUME NEW d \in Seq(Nat), NEW s \in Seq(Nat), Rising(d \o s), NEW i \in 0..Len(s)
  PROVE  /\ Rising(d \o SubSeq(s, 1, i))
         /\ i < Len(s) => /\ Follows(d \o SubSeq(s, 1, i), s[i + 1])
                          /\ Len(d) + i <= s[i + 1] /\ s[i + 1] \in Nat
<1> DEFINE a == SubSeq(s, 1, i)
<1> DEFINE g == d \o s
<1> DEFINE h == d \o a
<1>1. a \in Seq(Nat) /\ Len(a) = i /\ \A j \in 1..i : a[j] = s[j]
  BY FirstsAre, Zenon
<1>2. Len(s) \in Nat /\ Len(d) \in Nat /\ i \in Nat
  BY LenProperties
<1>3. /\ g \in Seq(Nat) /\ Len(g) = Len(d) + Len(s)
      /\ \A j \in 1..Len(d) : g[j] = d[j]
      /\ \A j \in 1..Len(s) : g[Len(d) + j] = s[j]
  BY Joins, Zenon
<1> HIDE DEF a
<1>4. /\ h \in Seq(Nat) /\ Len(h) = Len(d) + i
      /\ \A j \in 1..Len(d) : h[j] = d[j]
      /\ \A j \in 1..i : h[Len(d) + j] = a[j]
  <2>1. /\ h \in Seq(Nat) /\ Len(h) = Len(d) + Len(a)
        /\ \A j \in 1..Len(d) : h[j] = d[j]
        /\ \A j \in 1..Len(a) : h[Len(d) + j] = a[j]
    BY <1>1, Joins, Zenon
  <2> QED
    BY <1>1, <2>1, Zenon
<1> HIDE DEF g, h
<1>5. ASSUME NEW j \in 1..(Len(d) + i) PROVE h[j] = g[j]
  <2>1. CASE j \in 1..Len(d)
    BY <1>3, <1>4, <2>1, Zenon
  <2>2. CASE j \notin 1..Len(d)
    <3>1. j - Len(d) \in 1..i /\ j - Len(d) \in 1..Len(s) /\ Len(d) + (j - Len(d)) = j
      BY <1>2, <2>2
    <3>2. h[Len(d) + (j - Len(d))] = a[j - Len(d)] /\ a[j - Len(d)] = s[j - Len(d)]
      BY <1>1, <1>4, <3>1, Zenon
    <3>3. g[Len(d) + (j - Len(d))] = s[j - Len(d)]
      BY <1>3, <3>1, Zenon
    <3> QED
      BY <3>1, <3>2, <3>3, Zenon
  <2> QED
    BY <2>1, <2>2
<1>6. Rising(g)
  BY Zenon DEF g
<1>7. Rising(h)
  <2> SUFFICES ASSUME NEW p \in 1..Len(h), NEW q \in 1..Len(h), p < q PROVE h[p] < h[q]
    BY DEF Rising
  <2>1. p \in 1..(Len(d) + i) /\ q \in 1..(Len(d) + i) /\ p \in 1..Len(g) /\ q \in 1..Len(g)
    <3>1. Len(h) = Len(d) + i /\ Len(g) = Len(d) + Len(s)
      BY <1>3, <1>4, Zenon
    <3> QED
      BY <1>2, <3>1
  <2>2. g[p] < g[q]
    BY <1>6, <2>1, Zenon DEF Rising
  <2> QED
    BY <1>5, <2>1, <2>2, Zenon
<1>8. ASSUME i < Len(s)
      PROVE  Follows(h, s[i + 1]) /\ Len(d) + i <= s[i + 1] /\ s[i + 1] \in Nat
  <2>1. i + 1 \in 1..Len(s) /\ Len(d) + (i + 1) \in 1..Len(g)
        /\ (Len(d) + (i + 1)) - 1 = Len(d) + i
    BY <1>2, <1>3, <1>8
  <2>2. g[Len(d) + (i + 1)] = s[i + 1] /\ s[i + 1] \in Nat
    BY <1>3, <2>1, ElementsAre
  <2>3. Len(d) + i <= s[i + 1]
    BY <1>3, <1>6, <2>1, <2>2, RisingBeyond
  <2>4. ASSUME Len(h) > 0 PROVE h[Len(h)] <= s[i + 1]
    <3>1. /\ Len(h) \in 1..(Len(d) + i) /\ Len(h) \in 1..Len(g)
          /\ Len(h) < Len(d) + (i + 1)
      <4>1. Len(h) = Len(d) + i /\ Len(g) = Len(d) + Len(s)
        BY <1>3, <1>4, Zenon
      <4> QED
        BY <1>2, <2>4, <4>1
    <3>2. g[Len(h)] < g[Len(d) + (i + 1)]
      BY <1>6, <2>1, <3>1, Zenon DEF Rising
    <3>3. h[Len(h)] = g[Len(h)] /\ g[Len(h)] \in Nat
      BY <1>3, <1>5, <3>1, ElementsAre
    <3> QED
      BY <2>2, <3>2, <3>3
  <2> QED
    BY <2>2, <2>3, <2>4 DEF Follows
<1> QED
  BY <1>7, <1>8 DEF h, a

\* All the boundaries of a list more.
LEMMA AllStand ==
  ASSUME NEW m, NEW d, Stands(m, d), NEW s \in Seq(Nat), Rising(d \o s)
  PROVE  Stands(Language!AllAppended(m, s), d \o s)
<1>0. PICK f : Appending(f, m, s)
  BY AppendingIs, Zenon
<1>1. /\ Language!AllAppended(m, s) = f[Len(s)] /\ f[0] = m
      /\ \A i \in 1..Len(s) : f[i] = Language!Appended(f[i - 1], s[i])
  BY <1>0, Zenon DEF Appending
<1>2. d \in Seq(Nat) /\ Len(s) \in Nat
  BY NoSpans, LenProperties
<1> DEFINE T == {k \in Nat : k <= Len(s) => Stands(f[k], d \o SubSeq(s, 1, k))}
<1>3. 0 \in T
  <2>1. 0 \in 0..Len(s)
    BY <1>2
  <2>2. SubSeq(s, 1, 0) \in Seq(Nat) /\ Len(SubSeq(s, 1, 0)) = 0
    BY <2>1, FirstsAre, Zenon
  <2>3. d \o SubSeq(s, 1, 0) = d
    BY <1>2, <2>2, NoLength, NothingJoined
  <2> QED
    BY <1>1, <2>3, Zenon
<1>4. ASSUME NEW k \in Nat, k \in T PROVE k + 1 \in T
  <2> SUFFICES ASSUME k + 1 <= Len(s) PROVE Stands(f[k + 1], d \o SubSeq(s, 1, k + 1))
    OBVIOUS
  <2> DEFINE h == d \o SubSeq(s, 1, k)
  <2>1. /\ k <= Len(s) /\ k \in 0..Len(s) /\ k \in 0..(Len(s) - 1) /\ k < Len(s)
        /\ k + 1 \in 1..Len(s) /\ (k + 1) - 1 = k
    BY <1>2
  <2>2. Stands(f[k], h)
    BY <1>4, <2>1, Zenon
  <2>3. f[k + 1] = Language!Appended(f[k], s[k + 1])
    BY <1>1, <2>1, Zenon
  <2>4. Follows(h, s[k + 1]) /\ s[k + 1] \in Nat
    BY <1>2, <2>1, RisingFirst, Zenon
  <2>5. Stands(Language!Appended(f[k], s[k + 1]), h \o <<s[k + 1]>>)
    BY <2>2, <2>4, AppendedStands, Zenon
  <2>6. d \o SubSeq(s, 1, k + 1) = h \o <<s[k + 1]>>
    BY <1>2, <2>1, JoinedOnce, Zenon
  <2> QED
    BY <2>3, <2>5, <2>6, Zenon
<1>5. Len(s) \in T
  BY <1>2, <1>3, <1>4, Counting
<1>6. SubSeq(s, 1, Len(s)) = s
  OBVIOUS
<1>7. Len(s) <= Len(s)
  BY <1>2
<1> QED
  BY <1>1, <1>5, <1>6, <1>7, Zenon

\* None of them is refused.
LEMMA AllAccept ==
  ASSUME NEW m, NEW d, Stands(m, d), NEW s \in Seq(Nat), Rising(d \o s),
         \A i \in 1..Len(s) : s[i] <= Limit
  PROVE  Language!AllAccepted(m, s)
<1>1. d \in Seq(Nat) /\ Len(s) \in Nat /\ DOMAIN s = 1..Len(s) /\ Limit \in Nat /\ Len(d) \in Nat
  BY NoSpans, LenProperties, PreprocessAssumption
<1> SUFFICES ASSUME NEW i \in 1..Len(s)
             PROVE  Language!CanAppend(Language!AllAppended(m, SubSeq(s, 1, i - 1)), s[i])
  BY <1>1, Zenon DEF Language!AllAccepted
<1> DEFINE a == SubSeq(s, 1, i - 1)
<1> DEFINE n == Language!AllAppended(m, a)
<1>2. /\ i - 1 \in 0..Len(s) /\ i - 1 < Len(s) /\ (i - 1) + 1 = i /\ i - 1 \in Nat
  BY <1>1
<1>3. a \in Seq(Nat) /\ Len(a) = i - 1
  BY <1>2, FirstsAre, Zenon
<1>4. /\ Rising(d \o a) /\ Follows(d \o a, s[i])
      /\ Len(d) + (i - 1) <= s[i] /\ s[i] \in Nat
  BY <1>1, <1>2, RisingFirst, Zenon
<1>5. Stands(n, d \o a)
  BY <1>3, <1>4, AllStand, Zenon
<1>6. n.size = Len(d) + (i - 1)
  <2>1. n.size = Len(d \o a)
    BY <1>5, NoSpans, Zenon
  <2>2. Len(d \o a) = Len(d) + (i - 1)
    BY <1>1, <1>3, OffsetsJoined
  <2> QED
    BY <2>1, <2>2, Zenon
<1>7. Language!Monotonic(n, s[i])
  BY <1>4, <1>5, Accepts, Zenon
<1>8. s[i] <= Limit
  OBVIOUS
<1> HIDE DEF n
<1>9. n.size <= Limit
  BY <1>1, <1>2, <1>4, <1>6, <1>8
<1> QED
  BY <1>7, <1>8, <1>9, Zenon DEF Language!CanAppend, n

LEMMA LanguageCounts == \A S : Language!Cardinality(S) = Cardinality(S)
BY DEF Language!Cardinality, Cardinality

LEMMA Division ==
  ASSUME NEW a \in Nat, NEW s \in Nat, s # 0, a # 0
  PROVE  /\ (a + s - 1) \div s \in Nat
         /\ ((a + s - 1) \div s - 1) * s < a
         /\ a <= ((a + s - 1) \div s) * s
         /\ (a + s - 1) \div s # 0
<1> DEFINE x == a + s - 1
<1> DEFINE q == x \div s
<1> DEFINE r == x % s
<1>1. x \in Nat /\ x >= s
  OBVIOUS
<1> HIDE DEF x
<1>2. q \in Int /\ r \in Int /\ x = q * s + r /\ 0 <= r /\ r < s
  BY <1>1
<1> HIDE DEF q, r
<1>3. q * s \in Int /\ (q - 1) * s = q * s - s
  BY <1>2
<1>4. q * s >= a /\ (q - 1) * s < a
  BY <1>1, <1>2, <1>3 DEF x
<1>5. q > 0
  <2>1. ASSUME q <= 0 PROVE FALSE
    <3>1. q * s <= 0
      BY <1>2, <2>1
    <3> QED
      BY <1>3, <1>4, <3>1
  <2> QED
    BY <1>2, <2>1
<1> QED
  BY <1>2, <1>4, <1>5 DEF q, x

LEMMA Multiples ==
  ASSUME NEW a \in Nat, NEW b \in Nat, NEW s \in Nat, a * s < b * s
  PROVE  a < b
<1> SUFFICES ASSUME b <= a PROVE FALSE
  OBVIOUS
<1>1. PICK c \in Nat : a = b + c
  <2>1. a - b \in Nat /\ a = b + (a - b)
    OBVIOUS
  <2> QED
    BY <2>1
<1>2. c * s \in Nat /\ b * s \in Nat /\ a * s = b * s + c * s
  BY <1>1
<1> QED
  BY <1>2

LEMMA CountBelow ==
  ASSUME NEW d \in Seq(Nat), Rising(d), NEW o \in Nat, NEW r \in 0..Len(d),
         r > 0 => d[r] < o, r < Len(d) => o <= d[r + 1]
  PROVE  Cardinality({i \in DOMAIN d : d[i] < o}) = r
<1>1. DOMAIN d = 1..Len(d) /\ Len(d) \in Nat /\ \A i \in 1..Len(d) : d[i] \in Nat
  BY LenProperties, ElementsAre
<1>2. ASSUME NEW i \in 1..Len(d) PROVE d[i] < o <=> i \in 1..r
  <2>1. CASE i \in 1..r
    <3>1. r \in 1..Len(d) /\ d[r] < o /\ (i = r \/ i < r)
      BY <1>1, <2>1
    <3>2. i < r => d[i] < d[r]
      BY <3>1, Zenon DEF Rising
    <3> QED
      BY <1>1, <2>1, <3>1, <3>2
  <2>2. CASE i \notin 1..r
    <3>1. r + 1 \in 1..Len(d) /\ o <= d[r + 1] /\ (i = r + 1 \/ r + 1 < i)
      BY <1>1, <2>2
    <3>2. r + 1 < i => d[r + 1] < d[i]
      BY <3>1, Zenon DEF Rising
    <3> QED
      BY <1>1, <2>2, <3>1, <3>2
  <2> QED
    BY <2>1, <2>2
<1>3. {i \in DOMAIN d : d[i] < o} = 1..r
  <2>1. 1..r \subseteq 1..Len(d)
    BY <1>1
  <2> QED
    BY <1>1, <1>2, <2>1, Zenon
<1>4. Cardinality(1..r) = r
  BY FS_Interval
<1> QED
  BY <1>3, <1>4, Zenon

\* What a span of the map says.
LEMMA SpanStands ==
  ASSUME NEW m, NEW d, Stands(m, d), NEW i \in 1..Len(m.spans)
  PROVE  /\ m.spans[i] \in OffsetSpan
         /\ m.spans[i].cleaned + m.spans[i].length
              = IF i = Len(m.spans) THEN Len(d) ELSE m.spans[i + 1].cleaned
         /\ m.spans[i].cleaned + m.spans[i].length <= Len(d)
         /\ Steps(m.spans[i], d)
         /\ Len(m.spans) \in Nat /\ DOMAIN m.spans = 1..Len(m.spans)
         /\ m.spans[1].cleaned = 0
<1>1. m.spans \in Seq(OffsetSpan)
  BY DEF Stands
<1>2. Len(m.spans) \in Nat /\ DOMAIN m.spans = 1..Len(m.spans) /\ Len(m.spans) > 0
  BY <1>1, LenProperties
<1>3. m.spans[i] \in OffsetSpan
  BY <1>1, ElementsAre
<1> QED
  BY <1>2, <1>3, Zenon DEF Stands

\* The original boundary of each cleaned one is found again.
LEMMA OriginalIs ==
  ASSUME NEW m, NEW d, Stands(m, d), NEW i \in 1..Len(d)
  PROVE  Language!OriginalOffset(m, i - 1) = d[i]
<1> DEFINE c == i - 1
<1> DEFINE Has(j) == /\ m.spans[j].cleaned <= c
                     /\ j = Len(m.spans) \/ m.spans[j + 1].cleaned > c
<1>1. Len(d) \in Nat /\ c \in Nat /\ c < Len(d) /\ c + 1 = i /\ Len(m.spans) > 0
  BY NoSpans
<1>2. /\ Len(m.spans) \in Nat /\ DOMAIN m.spans = 1..Len(m.spans)
      /\ \A j \in 1..Len(m.spans) : m.spans[j].cleaned \in Nat
      /\ 1 \in 1..Len(m.spans) /\ m.spans[1].cleaned = 0
  <2>1. m.spans \in Seq(OffsetSpan)
    BY DEF Stands
  <2>2. Len(m.spans) \in Nat /\ DOMAIN m.spans = 1..Len(m.spans) /\ 1 \in 1..Len(m.spans)
    BY <1>1, <2>1, LenProperties
  <2> QED
    BY <2>2, SpanStands, SpanIs, Zenon
<1>3. \E j : j \in DOMAIN m.spans /\ Has(j)
  <2> DEFINE S == {j \in 1..Len(m.spans) : m.spans[j].cleaned <= c}
  <2> DEFINE h == Core!Highest(S)
  <2>1. S \in SUBSET Nat /\ S # {} /\ \A y \in S : y <= Len(m.spans)
    BY <1>1, <1>2
  <2>2. h \in S /\ \A y \in S : y <= h
    BY <1>2, <2>1, HighestIs
  <2> HIDE DEF h
  <2>3. h \in 1..Len(m.spans) /\ m.spans[h].cleaned <= c
    BY <2>2
  <2>4. ASSUME h # Len(m.spans) PROVE m.spans[h + 1].cleaned > c
    <3>1. h + 1 \in 1..Len(m.spans) /\ ~(h + 1 <= h)
      BY <1>2, <2>3, <2>4
    <3>2. h + 1 \notin S
      BY <2>2, <3>1, Zenon
    <3> QED
      BY <1>1, <1>2, <3>1, <3>2
  <2> QED
    BY <1>2, <2>3, <2>4, Zenon
<1>4. PICK j : j = CHOOSE p \in DOMAIN m.spans : Has(p)
  BY Zenon
<1>5. j \in 1..Len(m.spans) /\ Has(j)
  BY <1>2, <1>3, <1>4, Zenon
<1> DEFINE s == m.spans[j]
<1>6. Language!OriginalOffset(m, c) = s.original + (c - s.cleaned) * s.stride
  BY <1>4, Zenon DEF Language!OriginalOffset
<1>7. /\ s \in OffsetSpan /\ Steps(s, d)
      /\ s.cleaned + s.length = IF j = Len(m.spans) THEN Len(d) ELSE m.spans[j + 1].cleaned
  BY <1>5, SpanStands, Zenon
<1>8. s.cleaned \in Nat /\ s.length \in Nat /\ s.cleaned <= c
  BY <1>5, <1>7, SpanIs, Zenon
<1>9. c < s.cleaned + s.length
  <2>1. CASE j = Len(m.spans)
    BY <1>1, <1>7, <2>1
  <2>2. CASE j # Len(m.spans)
    BY <1>5, <1>7, <2>2
  <2> QED
    BY <2>1, <2>2
<1> HIDE DEF s
<1>10. /\ c - s.cleaned \in Nat /\ c - s.cleaned < s.length
       /\ s.cleaned + (c - s.cleaned) + 1 = i
  BY <1>1, <1>8, <1>9
<1>11. d[s.cleaned + (c - s.cleaned) + 1] = s.original + (c - s.cleaned) * s.stride
  BY <1>7, <1>10, Zenon DEF Steps
<1> QED
  BY <1>6, <1>10, <1>11, Zenon

\* The cleaned boundary of each original one is how many are before it.
LEMMA CleanedIs ==
  ASSUME NEW m, NEW d, Stands(m, d), Rising(d), NEW o \in Nat
  PROVE  Language!CleanedOffset(m, o) = Cardinality({i \in DOMAIN d : d[i] < o})
<1> DEFINE n == Len(m.spans)
<1> DEFINE Reaches(i) == Language!LastOriginal(m.spans[i]) >= o
<1>1. /\ d \in Seq(Nat) /\ Len(d) \in Nat /\ m.size = Len(d) /\ n \in Nat
      /\ DOMAIN m.spans = 1..n /\ (n = 0 <=> Len(d) = 0)
      /\ \A i \in 1..Len(d) : d[i] \in Nat
  <2>1. m.spans \in Seq(OffsetSpan) /\ d \in Seq(Nat) /\ m.size = Len(d) /\ (n = 0 <=> Len(d) = 0)
    BY DEF Stands
  <2> QED
    BY <2>1, LenProperties, ElementsAre
\* The last boundary of a span.
<1>2. ASSUME NEW i \in 1..n
      PROVE  /\ m.spans[i].cleaned + m.spans[i].length \in 1..Len(d)
             /\ d[m.spans[i].cleaned + m.spans[i].length] = Language!LastOriginal(m.spans[i])
  <2> DEFINE s == m.spans[i]
  <2>1. s \in OffsetSpan /\ Steps(s, d) /\ s.cleaned + s.length <= Len(d)
    BY SpanStands, Zenon
  <2>2. s.cleaned \in Nat /\ s.length \in Nat /\ s.length # 0
    BY <2>1, SpanIs, Zenon
  <2>3. Language!LastOriginal(s) = s.original + (s.length - 1) * s.stride
    BY Zenon DEF Language!LastOriginal
  <2> HIDE DEF s
  <2>4. s.length - 1 \in Nat /\ s.length - 1 < s.length
        /\ s.cleaned + (s.length - 1) + 1 = s.cleaned + s.length
    BY <2>2
  <2>5. d[s.cleaned + (s.length - 1) + 1] = s.original + (s.length - 1) * s.stride
    BY <2>1, <2>4, Zenon DEF Steps
  <2>6. s.cleaned + s.length \in 1..Len(d)
    BY <1>1, <2>1, <2>2
  <2> QED
    BY <2>3, <2>4, <2>5, <2>6, Zenon DEF s
<1>3. CASE ~\E i \in DOMAIN m.spans : Reaches(i)
  <2>1. Language!CleanedOffset(m, o) = Len(d)
    BY <1>1, <1>3, Zenon DEF Language!CleanedOffset
  <2>2. Len(d) > 0 => d[Len(d)] < o
    <3>1. SUFFICES ASSUME Len(d) > 0 PROVE d[Len(d)] < o
      OBVIOUS
    <3>2. n \in 1..n /\ Len(d) \in 1..Len(d)
      BY <1>1, <3>1
    <3>3. m.spans[n].cleaned + m.spans[n].length = Len(d)
      BY <3>2, SpanStands, Zenon
    <3>4. ~(d[Len(d)] >= o)
      BY <1>1, <1>2, <1>3, <3>2, <3>3, Zenon
    <3> QED
      BY <1>1, <3>2, <3>4
  <2>3. Len(d) \in 0..Len(d) /\ ~(Len(d) < Len(d))
    BY <1>1
  <2>4. Cardinality({i \in DOMAIN d : d[i] < o}) = Len(d)
    BY <1>1, <2>2, <2>3, CountBelow, Zenon
  <2> QED
    BY <2>1, <2>4, Zenon
<1>4. CASE \E i \in DOMAIN m.spans : Reaches(i)
  <2> DEFINE First(p) == Reaches(p) /\ (p = 1 \/ ~Reaches(p - 1))
  <2>1. \E p : p \in DOMAIN m.spans /\ First(p)
    <3> DEFINE S == {p \in 1..n : Reaches(p)}
    <3> DEFINE h == Core!Lowest(S)
    <3>1. S \in SUBSET Nat /\ S # {}
      BY <1>1, <1>4
    <3>2. h \in S /\ \A y \in S : h <= y
      BY <3>1, LowestIs
    <3> HIDE DEF h
    <3>3. h \in 1..n /\ Reaches(h)
      BY <3>2
    <3>4. ASSUME h # 1 PROVE ~Reaches(h - 1)
      <4>1. h - 1 \in 1..n /\ ~(h <= h - 1)
        BY <1>1, <3>3, <3>4
      <4> QED
        BY <3>2, <4>1, Zenon
    <3> QED
      BY <1>1, <3>3, <3>4, Zenon
  <2> DEFINE j == CHOOSE p \in DOMAIN m.spans : First(p)
  <2> DEFINE s == m.spans[j]
  <2>2. j \in DOMAIN m.spans /\ First(j)
    BY <2>1, Zenon
  <2>4. Language!CleanedOffset(m, o) =
          IF o <= s.original \/ s.stride = 0 THEN s.cleaned
          ELSE s.cleaned + (o - s.original + s.stride - 1) \div s.stride
    BY <1>4, Zenon DEF Language!CleanedOffset
  <2> HIDE DEF j
  <2>3. j \in 1..n /\ Reaches(j) /\ (j = 1 \/ ~Reaches(j - 1))
    BY <1>1, <2>2, Zenon
  <2>5. /\ s \in OffsetSpan /\ Steps(s, d) /\ s.cleaned + s.length <= Len(d)
        /\ m.spans[1].cleaned = 0
    BY <2>3, SpanStands, Zenon
  <2>6. /\ s.cleaned \in Nat /\ s.length \in Nat /\ s.length # 0
        /\ s.original \in Nat /\ s.stride \in Nat
    BY <2>5, SpanIs, Zenon
  <2>7. s.original + (s.length - 1) * s.stride >= o
    BY <2>3, Zenon DEF Language!LastOriginal
  \* What is before the span is before the boundary.
  <2>8. s.cleaned > 0 => d[s.cleaned] < o
    <3>1. CASE j = 1
      <4>1. s.cleaned = 0
        BY <2>5, <3>1, Zenon
      <4> QED
        BY <4>1
    <3>2. CASE j # 1
      <4>1. j - 1 \in 1..n /\ j - 1 # n /\ (j - 1) + 1 = j
        BY <1>1, <2>3, <3>2
      <4>2. m.spans[j - 1].cleaned + m.spans[j - 1].length = s.cleaned
        BY <4>1, SpanStands, Zenon
      <4>3. ~(d[s.cleaned] >= o) /\ s.cleaned \in 1..Len(d)
        BY <1>2, <2>3, <3>2, <4>1, <4>2, Zenon
      <4> QED
        BY <1>1, <4>3
    <3> QED
      BY <3>1, <3>2
  <2> HIDE DEF s
  <2>9. CASE o <= s.original \/ s.stride = 0
    <3>1. /\ 0 \in Nat /\ 0 < s.length /\ s.cleaned + 0 + 1 = s.cleaned + 1
          /\ s.cleaned \in 0..Len(d)
      BY <1>1, <2>5, <2>6
    <3>2. d[s.cleaned + 0 + 1] = s.original + 0 * s.stride
      BY <2>5, <3>1, Zenon DEF Steps
    <3>3. d[s.cleaned + 1] = s.original
      BY <2>6, <3>1, <3>2
    <3>4. o <= s.original
      <4>1. CASE s.stride = 0
        BY <2>6, <2>7, <4>1
      <4> QED
        BY <2>9, <4>1
    <3>5. o <= d[s.cleaned + 1]
      BY <3>3, <3>4, Zenon
    <3>6. Cardinality({i \in DOMAIN d : d[i] < o}) = s.cleaned
      BY <1>1, <2>8, <3>1, <3>5, CountBelow, Zenon
    <3> QED
      BY <2>4, <2>9, <3>6, Zenon
  <2>10. CASE ~(o <= s.original \/ s.stride = 0)
    <3> DEFINE a == o - s.original
    <3> DEFINE q == (a + s.stride - 1) \div s.stride
    <3>1. a \in Nat /\ a # 0 /\ s.stride # 0 /\ o = s.original + a
      BY <2>6, <2>10
    <3>2. Language!CleanedOffset(m, o) = s.cleaned + q
      BY <2>4, <2>10, Zenon
    <3> HIDE DEF a
    <3>3. q \in Nat /\ (q - 1) * s.stride < a /\ a <= q * s.stride /\ q # 0
      BY <2>6, <3>1, Division, Zenon
    <3> HIDE DEF q
    <3>4. q - 1 \in Nat /\ s.length - 1 \in Nat
      BY <2>6, <3>3
    <3>5. q - 1 < s.length - 1
      <4>1. (q - 1) * s.stride \in Nat /\ (s.length - 1) * s.stride \in Nat
        BY <2>6, <3>4
      <4>2. (q - 1) * s.stride < (s.length - 1) * s.stride
        BY <2>6, <2>7, <3>1, <3>3, <4>1
      <4> QED
        BY <2>6, <3>4, <4>2, Multiples, Zenon
    <3>6. /\ q < s.length /\ q - 1 < s.length
          /\ s.cleaned + (q - 1) + 1 = s.cleaned + q
          /\ s.cleaned + q + 1 = (s.cleaned + q) + 1
          /\ s.cleaned + q \in 0..Len(d)
      <4>1. /\ s.cleaned \in Nat /\ s.length \in Nat /\ q \in Nat /\ Len(d) \in Nat
            /\ q - 1 < s.length - 1 /\ s.cleaned + s.length <= Len(d)
        BY <1>1, <2>5, <2>6, <3>3, <3>5, Zenon
      <4> QED
        BY ONLY <4>1
    <3>7. d[s.cleaned + (q - 1) + 1] = s.original + (q - 1) * s.stride
      BY <2>5, <3>4, <3>6, Zenon DEF Steps
    <3>8. d[s.cleaned + q + 1] = s.original + q * s.stride
      BY <2>5, <3>3, <3>6, Zenon DEF Steps
    <3>9. d[s.cleaned + q] < o /\ o <= d[(s.cleaned + q) + 1]
      <4>1. (q - 1) * s.stride \in Nat /\ q * s.stride \in Nat
        BY <2>6, <3>3, <3>4
      <4>2. s.original + (q - 1) * s.stride < o /\ o <= s.original + q * s.stride
        BY <2>6, <3>1, <3>3, <4>1
      <4> QED
        BY <3>6, <3>7, <3>8, <4>2, Zenon
    <3>10. Cardinality({i \in DOMAIN d : d[i] < o}) = s.cleaned + q
      BY <1>1, <3>6, <3>9, CountBelow, Zenon
    <3> QED
      BY <3>2, <3>10, Zenon
  <2> QED
    BY <2>9, <2>10
<1> QED
  BY <1>3, <1>4

\* Spans that stand for boundaries answer as these do (offset_map.h:47-151).
LEMMA OffsetsRight ==
  ASSUME Stands(map, dense), Rising(dense), refused = FALSE, Len(original) \in Nat
  PROVE  Language!OffsetsTrue
<1>1. dense \in Seq(Nat) /\ map.size = Len(dense) /\ DOMAIN dense = 1..Len(dense)
  BY NoSpans, LenProperties
<1>2. \A i \in DOMAIN dense : Language!OriginalOffset(map, i - 1) = dense[i]
  BY <1>1, OriginalIs, Zenon
<1>3. \A o \in 0..Len(original) :
        Language!CleanedOffset(map, o) = Language!Cardinality({i \in DOMAIN dense : dense[i] < o})
  <2>1. SUFFICES ASSUME NEW o \in 0..Len(original)
                 PROVE  Language!CleanedOffset(map, o)
                          = Language!Cardinality({i \in DOMAIN dense : dense[i] < o})
    BY Zenon
  <2>2. o \in Nat
    OBVIOUS
  <2> QED
    BY <2>2, CleanedIs, LanguageCounts, Zenon
<1> QED
  BY <1>1, <1>2, <1>3, Zenon DEF Language!OffsetsTrue

\* A piece of the cleaned source, and where each byte of it comes from: the
\* original source from one offset to another.
ByteFrom(t, d, i, from, to) ==
  /\ from <= d[i] /\ d[i] < to
  /\ t[i] = Language!At(d[i]) \/ t[i] = " "
  /\ Language!Removed(d[i]) => Language!Space(t[i])
Retained(t, d, o) ==
  ~Language!Removed(o) \/ Language!At(o) = "\n" =>
    \E i \in 1..Len(d) : d[i] = o /\ t[i] = Language!At(o)
Parted(t, d, i) ==
  i > 1 /\ ~Language!Space(t[i]) /\ ~Language!Space(t[i - 1]) => d[i] = d[i - 1] + 1
Part(t, d, from, to) ==
  /\ t \in Seq(Language!Bytes) /\ d \in Seq(Nat) /\ Len(t) = Len(d)
  /\ Rising(d)
  /\ \A i \in 1..Len(d) : ByteFrom(t, d, i, from, to) /\ Parted(t, d, i)
  /\ \A o \in from..(to - 1) : Retained(t, d, o)

\* No word is made of two, where a piece ends.
Joint(t, c) ==
  Len(t) > 0 /\ c < Len(original) =>
    Language!Space(t[Len(t)]) \/ Language!Space(Language!At(c))

LEMMA JoinsBytes ==
  ASSUME NEW t \in Seq(Language!Bytes), NEW x \in Seq(Language!Bytes)
  PROVE  /\ t \o x \in Seq(Language!Bytes) /\ Len(t \o x) = Len(t) + Len(x)
         /\ \A i \in 1..Len(t) : (t \o x)[i] = t[i]
         /\ \A i \in 1..Len(x) : (t \o x)[Len(t) + i] = x[i]
         /\ Len(t) \in Nat /\ Len(x) \in Nat
BY ConcatIs

\* Two pieces, one after the other.
LEMMA PartsJoin ==
  ASSUME NEW t, NEW d, NEW x, NEW e, NEW a \in Nat, NEW b \in Nat, NEW c \in Nat,
         a <= b, b <= c, Part(t, d, a, b), Part(x, e, b, c),
         Len(t) > 0 /\ Len(x) > 0 /\ ~Language!Space(t[Len(t)]) /\ ~Language!Space(x[1])
           => e[1] = d[Len(d)] + 1
  PROVE  Part(t \o x, d \o e, a, c)
<1> DEFINE g == d \o e
<1> DEFINE z == t \o x
<1> DEFINE n == Len(d)
<1> DEFINE k == Len(e)
<1>1. /\ t \in Seq(Language!Bytes) /\ d \in Seq(Nat) /\ Len(t) = n /\ Rising(d)
      /\ \A i \in 1..n : ByteFrom(t, d, i, a, b) /\ Parted(t, d, i)
      /\ \A o \in a..(b - 1) : Retained(t, d, o)
  BY Zenon DEF Part
<1>2. /\ x \in Seq(Language!Bytes) /\ e \in Seq(Nat) /\ Len(x) = k /\ Rising(e)
      /\ \A i \in 1..k : ByteFrom(x, e, i, b, c) /\ Parted(x, e, i)
      /\ \A o \in b..(c - 1) : Retained(x, e, o)
  BY Zenon DEF Part
<1>3. /\ n \in Nat /\ k \in Nat
      /\ \A i \in 1..n : d[i] \in Nat
      /\ \A i \in 1..k : e[i] \in Nat
  BY <1>1, <1>2, LenProperties, ElementsAre
<1>4. /\ g \in Seq(Nat) /\ Len(g) = n + k
      /\ \A i \in 1..n : g[i] = d[i]
      /\ \A i \in 1..k : g[n + i] = e[i]
  BY <1>1, <1>2, Joins, Zenon
<1>5. /\ z \in Seq(Language!Bytes) /\ Len(z) = n + k
      /\ \A i \in 1..n : z[i] = t[i]
      /\ \A i \in 1..k : z[n + i] = x[i]
  <2>1. /\ z \in Seq(Language!Bytes) /\ Len(z) = Len(t) + Len(x)
        /\ \A i \in 1..Len(t) : z[i] = t[i]
        /\ \A i \in 1..Len(x) : z[Len(t) + i] = x[i]
    BY <1>1, <1>2, JoinsBytes, Zenon
  <2> HIDE DEF z
  <2> QED
    BY <1>1, <1>2, <2>1, Zenon
<1> HIDE DEF g, z
<1>6. ASSUME NEW i \in 1..(n + k)
      PROVE  \/ i \in 1..n
             \/ i - n \in 1..k /\ n + (i - n) = i
  BY <1>3
<1>7. ASSUME NEW i \in 1..n, NEW j \in 1..k PROVE d[i] < e[j]
  <2>1. d[i] < b /\ b <= e[j]
    BY <1>1, <1>2, Zenon DEF ByteFrom
  <2> QED
    BY <1>3, <2>1
<1>8. Rising(g)
  <2> SUFFICES ASSUME NEW p \in 1..(n + k), NEW q \in 1..(n + k), p < q PROVE g[p] < g[q]
    BY <1>4, Zenon DEF Rising
  <2>1. CASE q \in 1..n
    <3>1. p \in 1..n
      BY <1>3, <2>1
    <3>2. d[p] < d[q]
      BY <1>1, <2>1, <3>1, Zenon DEF Rising
    <3> QED
      BY <1>4, <2>1, <3>1, <3>2, Zenon
  <2>2. CASE q \notin 1..n
    <3>1. q - n \in 1..k /\ n + (q - n) = q
      BY <1>6, <2>2, Zenon
    <3>2. CASE p \in 1..n
      BY <1>4, <1>7, <3>1, <3>2, Zenon
    <3>3. CASE p \notin 1..n
      <4>1. p - n \in 1..k /\ n + (p - n) = p
        BY <1>6, <3>3, Zenon
      <4>2. p - n < q - n
        BY <1>3
      <4>3. e[p - n] < e[q - n]
        BY <1>2, <3>1, <4>1, <4>2, Zenon DEF Rising
      <4> QED
        BY <1>4, <3>1, <4>1, <4>3, Zenon
    <3> QED
      BY <3>2, <3>3
  <2> QED
    BY <2>1, <2>2
<1>9. ASSUME NEW i \in 1..(n + k) PROVE ByteFrom(z, g, i, a, c)
  <2>1. CASE i \in 1..n
    <3>1. ByteFrom(t, d, i, a, b) /\ g[i] = d[i] /\ z[i] = t[i] /\ d[i] \in Nat
      BY <1>1, <1>3, <1>4, <1>5, <2>1, Zenon
    <3>2. a <= d[i] /\ d[i] < b
      BY <3>1, Zenon DEF ByteFrom
    <3>3. d[i] < c
      BY <3>1, <3>2
    <3> QED
      BY <3>1, <3>3, Zenon DEF ByteFrom
  <2>2. CASE i \notin 1..n
    <3>1. i - n \in 1..k /\ n + (i - n) = i
      BY <1>6, <2>2, Zenon
    <3>2. /\ ByteFrom(x, e, i - n, b, c) /\ g[i] = e[i - n] /\ z[i] = x[i - n]
          /\ e[i - n] \in Nat
      BY <1>2, <1>3, <1>4, <1>5, <3>1, Zenon
    <3>3. b <= e[i - n] /\ e[i - n] < c
      BY <3>2, Zenon DEF ByteFrom
    <3>4. a <= e[i - n]
      BY <3>2, <3>3
    <3> QED
      BY <3>2, <3>4, Zenon DEF ByteFrom
  <2> QED
    BY <2>1, <2>2
<1>10. ASSUME NEW i \in 1..(n + k) PROVE Parted(z, g, i)
  <2> SUFFICES ASSUME i > 1, ~Language!Space(z[i]), ~Language!Space(z[i - 1])
               PROVE  g[i] = g[i - 1] + 1
    BY Zenon DEF Parted
  <2>1. CASE i \in 1..n
    <3>1. i - 1 \in 1..n
      BY <1>3, <2>1
    <3>2. g[i] = d[i] /\ z[i] = t[i] /\ g[i - 1] = d[i - 1] /\ z[i - 1] = t[i - 1]
      BY <1>4, <1>5, <2>1, <3>1, Zenon
    <3>3. Parted(t, d, i)
      BY <1>1, <2>1, Zenon
    <3> QED
      BY <3>2, <3>3, Zenon DEF Parted
  <2>2. CASE i = n + 1
    <3>1. CASE n = 0
      BY <2>2, <3>1
    <3>2. CASE n # 0
      <4>1. i - 1 = n /\ n \in 1..n /\ 1 \in 1..k /\ n > 0 /\ k > 0
        BY <1>3, <2>2, <3>2
      <4>2. g[i] = e[1] /\ z[i] = x[1] /\ g[i - 1] = d[n] /\ z[i - 1] = t[n]
        BY <1>4, <1>5, <2>2, <4>1, Zenon
      <4> QED
        BY <1>1, <1>2, <4>1, <4>2, Zenon
    <3> QED
      BY <3>1, <3>2
  <2>3. CASE i \notin 1..n /\ i # n + 1
    <3>1. /\ i - n \in 1..k /\ n + (i - n) = i /\ (i - n) - 1 \in 1..k
          /\ n + ((i - n) - 1) = i - 1 /\ i - n > 1
      BY <1>3, <2>3
    <3>2. /\ g[i] = e[i - n] /\ z[i] = x[i - n]
          /\ g[i - 1] = e[(i - n) - 1] /\ z[i - 1] = x[(i - n) - 1]
      BY <1>4, <1>5, <3>1, Zenon
    <3>3. Parted(x, e, i - n)
      BY <1>2, <3>1, Zenon
    <3> QED
      BY <3>1, <3>2, <3>3, Zenon DEF Parted
  <2> QED
    BY <2>1, <2>2, <2>3
<1>11. ASSUME NEW o \in a..(c - 1) PROVE Retained(z, g, o)
  <2> SUFFICES ASSUME ~Language!Removed(o) \/ Language!At(o) = "\n"
               PROVE  \E i \in 1..(n + k) : g[i] = o /\ z[i] = Language!At(o)
    BY <1>4, Zenon DEF Retained
  <2>1. CASE o < b
    <3>1. o \in a..(b - 1)
      BY <2>1
    <3>2. PICK i \in 1..n : d[i] = o /\ t[i] = Language!At(o)
      BY <1>1, <3>1, Zenon DEF Retained
    <3>3. i \in 1..(n + k) /\ g[i] = o /\ z[i] = Language!At(o)
      <4>1. i \in 1..(n + k)
        BY <1>3
      <4> QED
        BY <1>4, <1>5, <3>2, <4>1, Zenon
    <3> QED
      BY <3>3, Zenon
  <2>2. CASE ~(o < b)
    <3>1. o \in b..(c - 1)
      BY <2>2
    <3>2. PICK i \in 1..k : e[i] = o /\ x[i] = Language!At(o)
      BY <1>2, <3>1, Zenon DEF Retained
    <3>3. n + i \in 1..(n + k) /\ g[n + i] = o /\ z[n + i] = Language!At(o)
      <4>1. n + i \in 1..(n + k)
        BY <1>3
      <4> QED
        BY <1>4, <1>5, <3>2, <4>1, Zenon
    <3> QED
      BY <3>3, Zenon
  <2> QED
    BY <2>1, <2>2
<1>12. Len(z) = Len(g) /\ Len(g) = n + k
  BY <1>4, <1>5, Zenon
<1>13. Part(z, g, a, c)
  BY <1>4, <1>5, <1>8, <1>9, <1>10, <1>11, <1>12, Zenon DEF Part
<1> QED
  BY <1>13, Zenon DEF g, z

SourceRange == [start : Nat, end : Nat]
\* The source, and its comments and docstrings.
OriginalInv ==
  /\ original \in Seq(Language!Bytes) /\ Len(original) <= Limit
  /\ removals \in Seq(SourceRange)
  /\ \A i \in 1..Len(removals) :
       /\ removals[i].start < removals[i].end /\ removals[i].end <= Len(original)
       /\ \A j \in 1..(i - 1) : Language!Ordered(removals[j], removals[i])

LEMMA ByteIs ==
  ASSUME OriginalInv, NEW o \in 0..(Len(original) - 1)
  PROVE  Language!At(o) \in Language!Bytes /\ Language!At(o) = original[o + 1]
<1>1. original \in Seq(Language!Bytes) /\ Len(original) \in Nat
  BY LenProperties DEF OriginalInv
<1>2. o + 1 \in 1..Len(original)
  BY <1>1
<1> QED
  BY <1>1, <1>2, ElementsAre, Zenon DEF Language!At

\* What is copied.
LEMMA RunPart ==
  ASSUME OriginalInv, NEW c \in Nat, NEW s \in Nat, c <= s, s <= Len(original),
         \A o \in c..(s - 1) : ~Language!Removed(o)
  PROVE  /\ Part(SubSeq(original, c + 1, s), Language!RunOf(c, s), c, s)
         /\ RunFrom(Language!RunOf(c, s), c, s - c) /\ s - c \in Nat
         /\ Len(SubSeq(original, c + 1, s)) = s - c
         /\ s > c => /\ SubSeq(original, c + 1, s)[1] = Language!At(c)
                     /\ Language!RunOf(c, s)[1] = c
<1> DEFINE t == SubSeq(original, c + 1, s)
<1> DEFINE d == Language!RunOf(c, s)
<1> DEFINE n == s - c
<1>1. n \in Nat /\ c + n = s
  OBVIOUS
<1>2. original \in Seq(Language!Bytes) /\ Len(original) \in Nat
  BY LenProperties DEF OriginalInv
<1>3. d = [i \in 1..n |-> c + i - 1]
  BY Zenon DEF Language!RunOf
<1>4. ASSUME NEW i \in 1..n
      PROVE  /\ c + i - 1 \in c..(s - 1) /\ c + i - 1 \in 0..(Len(original) - 1)
             /\ (c + i - 1) + 1 = c + 1 + i - 1 /\ c + i - 1 \in Nat
             /\ c + 1 + i - 1 \in (c + 1)..s
  BY <1>1, <1>2
<1>5. /\ d \in Seq(Nat) /\ Len(d) = n
      /\ \A i \in 1..n : d[i] = c + i - 1
  <2>1. \A i \in 1..n : c + i - 1 \in Nat
    BY <1>4
  <2> QED
    BY <1>1, <1>3, <2>1
<1>6. /\ t \in Seq(Language!Bytes) /\ Len(t) = n
      /\ \A i \in 1..n : t[i] = Language!At(c + i - 1)
  <2>1. \A i \in (c + 1)..s : original[i] \in Language!Bytes
    <3>1. \A i \in (c + 1)..s : i \in 1..Len(original)
      BY <1>2
    <3> QED
      BY <1>2, <3>1, ElementsAre, Zenon
  <2>2. /\ t \in Seq(Language!Bytes)
        /\ Len(t) = IF c + 1 <= s THEN s - (c + 1) + 1 ELSE 0
        /\ \A i \in 1..(s - (c + 1) + 1) : t[i] = original[c + 1 + i - 1]
    BY <2>1, SubSeqProperties
  <2>3. (IF c + 1 <= s THEN s - (c + 1) + 1 ELSE 0) = n /\ s - (c + 1) + 1 = n
    BY <1>1
  <2> HIDE DEF n, t
  <2>4. ASSUME NEW i \in 1..n PROVE t[i] = Language!At(c + i - 1)
    <3>1. t[i] = original[c + 1 + i - 1]
      BY <2>2, <2>3, Zenon
    <3>2. (c + i - 1) + 1 = c + 1 + i - 1
      BY <1>4, Zenon
    <3> QED
      BY <3>1, <3>2, Zenon DEF Language!At
  <2> QED
    BY <2>2, <2>3, <2>4, Zenon
<1> HIDE DEF d, t, n
<1>7. RunFrom(d, c, n)
  <2>1. ASSUME NEW k \in Nat, k < n PROVE d[k + 1] = c + k
    <3>1. k + 1 \in 1..n /\ c + (k + 1) - 1 = c + k
      BY <1>1, <2>1
    <3> QED
      BY <1>5, <3>1, Zenon
  <2> QED
    BY <1>5, <2>1, Zenon DEF RunFrom
<1>8. Part(t, d, c, s)
  <2>1. Rising(d)
    <3>1. ASSUME NEW i \in 1..n, NEW j \in 1..n, i < j PROVE d[i] < d[j]
      <4>1. d[i] = c + i - 1 /\ d[j] = c + j - 1
        BY <1>5, Zenon
      <4>2. c + i - 1 < c + j - 1
        BY <3>1
      <4> QED
        BY <4>1, <4>2, Zenon
    <3> QED
      BY <1>5, <3>1, Zenon DEF Rising
  <2>2. ASSUME NEW i \in 1..n PROVE ByteFrom(t, d, i, c, s) /\ Parted(t, d, i)
    <3>1. d[i] = c + i - 1 /\ t[i] = Language!At(d[i]) /\ c + i - 1 \in c..(s - 1)
      BY <1>4, <1>5, <1>6, Zenon
    <3>2. ~Language!Removed(d[i])
      BY <3>1, Zenon
    <3>3. c <= d[i] /\ d[i] < s
      BY <1>1, <3>1
    <3>4. ByteFrom(t, d, i, c, s)
      BY <3>1, <3>2, <3>3, Zenon DEF ByteFrom
    <3>5. i > 1 => d[i] = d[i - 1] + 1
      <4>1. SUFFICES ASSUME i > 1 PROVE d[i] = d[i - 1] + 1
        BY Zenon
      <4>2. i - 1 \in 1..n
        BY <1>1, <4>1
      <4>3. d[i - 1] = c + (i - 1) - 1
        BY <1>5, <4>2, Zenon
      <4>4. c + i - 1 = c + (i - 1) - 1 + 1
        BY <1>1
      <4> QED
        BY <3>1, <4>3, <4>4, Zenon
    <3> QED
      BY <3>4, <3>5, Zenon DEF Parted
  <2>3. ASSUME NEW o \in c..(s - 1) PROVE Retained(t, d, o)
    <3>1. (o - c) + 1 \in 1..n /\ c + ((o - c) + 1) - 1 = o
      BY <1>1 DEF n
    <3>2. d[(o - c) + 1] = o /\ t[(o - c) + 1] = Language!At(o)
      BY <1>5, <1>6, <3>1, Zenon
    <3> QED
      BY <1>5, <3>1, <3>2, Zenon DEF Retained
  <2> QED
    BY <1>5, <1>6, <2>1, <2>2, <2>3, Zenon DEF Part
<1>9. s > c => t[1] = Language!At(c) /\ d[1] = c
  <2>1. SUFFICES ASSUME s > c PROVE t[1] = Language!At(c) /\ d[1] = c
    BY Zenon
  <2>2. 1 \in 1..n /\ c + 1 - 1 = c
    BY <1>1, <2>1 DEF n
  <2> QED
    BY <1>5, <1>6, <2>2, Zenon
<1> QED
  BY <1>1, <1>6, <1>7, <1>8, <1>9, Zenon DEF d, t, n

\* The ends of lines in a range.
LEMMA NewlinesAre ==
  ASSUME NEW a \in Nat, NEW b \in Nat
  PROVE  /\ Language!Newlines(a, b) \in Seq(Nat)
         /\ \A i \in 1..Len(Language!Newlines(a, b)) :
              /\ Language!Newlines(a, b)[i] \in a..(b - 1)
              /\ Language!At(Language!Newlines(a, b)[i]) = "\n"
         /\ Rising(Language!Newlines(a, b))
         /\ \A o \in a..(b - 1) : Language!At(o) = "\n" =>
              \E i \in 1..Len(Language!Newlines(a, b)) : Language!Newlines(a, b)[i] = o
<1> DEFINE S == {o \in a..(b - 1) : Language!At(o) = "\n"}
<1> DEFINE n == Cardinality(S)
<1> DEFINE Fits(r) == /\ \A i \in DOMAIN r : Language!At(r[i]) = "\n"
                      /\ \A i, j \in DOMAIN r : i < j => r[i] < r[j]
<1> DEFINE s == CHOOSE r \in [1..n -> a..(b - 1)] : Fits(r)
<1>1. Language!Newlines(a, b) = s
  <2>1. Language!Cardinality(S) = n
    BY LanguageCounts, Zenon
  <2> QED
    BY <2>1, Zenon DEF Language!Newlines
<1>2. S \in SUBSET Nat /\ IsFiniteSet(S) /\ S \subseteq a..(b - 1)
  <2>1. IsFiniteSet(a..(b - 1)) /\ S \in SUBSET (a..(b - 1))
    BY FS_Interval
  <2>2. a..(b - 1) \subseteq Nat
    OBVIOUS
  <2>3. IsFiniteSet(S)
    BY <2>1, FS_Subset
  <2> QED
    BY <2>1, <2>2, <2>3, Zenon
<1>3. n \in Nat
  BY <1>2, FS_CardinalityType
<1>4. \E r \in [1..n -> a..(b - 1)] : Fits(r)
  <2>1. PICK r : InItsOrder(r, S)
    BY <1>2, OrderExists, Zenon
  <2>2. r \in [1..n -> S] /\ \A i, j \in DOMAIN r : i < j => r[i] < r[j]
    BY <2>1, Zenon DEF InItsOrder
  <2> HIDE DEF n
  <2>3. r \in [1..n -> a..(b - 1)] /\ \A i \in DOMAIN r : Language!At(r[i]) = "\n"
    BY <1>2, <2>2
  <2> QED
    BY <2>2, <2>3, Zenon
<1>5. s \in [1..n -> a..(b - 1)] /\ Fits(s)
  BY <1>4, Zenon
<1> HIDE DEF s, n
<1>6. /\ s \in Seq(Nat) /\ Len(s) = n /\ DOMAIN s = 1..n
      /\ \A i \in 1..n : s[i] \in a..(b - 1) /\ Language!At(s[i]) = "\n"
  <2>1. DOMAIN s = 1..n /\ \A i \in 1..n : s[i] \in a..(b - 1)
    BY <1>5, Zenon
  <2>2. s \in [1..n -> Nat]
    BY <1>5
  <2>3. s \in Seq(Nat) /\ Len(s) = n
    BY <1>3, <2>2
  <2> QED
    BY <1>5, <2>1, <2>3, Zenon
<1>7. \A i, j \in 1..n : i < j => s[i] < s[j]
  BY <1>5, <1>6, Zenon
<1>8. s \in [1..n -> S]
  BY <1>6
<1>9. ASSUME NEW i \in 1..n, NEW j \in 1..n, s[i] = s[j] PROVE i = j
  <2>1. s[i] \in Nat
    BY <1>6
  <2>2. i < j \/ j < i \/ i = j
    BY <1>3
  <2> QED
    BY <1>7, <1>9, <2>1, <2>2
<1>10. s \in Injection(1..n, S)
  BY <1>8, <1>9 DEF Injection, IsInjective
<1>11. IsFiniteSet(1..n) /\ Cardinality(1..n) = n
  BY <1>3, FS_Interval
<1>12. s \in Surjection(1..n, S)
  BY <1>2, <1>10, <1>11, FS_Injection DEF n
<1>13. \A x \in S : \E i \in 1..n : s[i] = x
  BY <1>12 DEF Surjection
<1>14. Rising(s)
  BY <1>6, <1>7, Zenon DEF Rising
<1>15. \A o \in a..(b - 1) : Language!At(o) = "\n" => \E i \in 1..n : s[i] = o
  BY <1>13, Zenon
<1> QED
  BY <1>1, <1>6, <1>14, <1>15, Zenon

LEMMA SpacesAre == Language!Space(" ") /\ Language!Space("\n")
BY DEF Language!Space

\* What takes the place of a range.
LinesKept(a, b, t) ==
  IF Language!Newlines(a, b) = <<>> /\ Language!Separated(t, b) THEN <<a>>
  ELSE Language!Newlines(a, b)
BytesKept(a, b, t) ==
  [i \in DOMAIN LinesKept(a, b, t) |-> IF Language!Newlines(a, b) = <<>> THEN " " ELSE "\n"]

\* It is a piece, and its boundaries are those of the ends of lines or of the
\* space (lang.cc:911-946).
LEMMA LinesPart ==
  ASSUME NEW a \in Nat, NEW b \in Nat, a < b, \A o \in a..(b - 1) : Language!Removed(o), NEW t
  PROVE  /\ Part(BytesKept(a, b, t), LinesKept(a, b, t), a, b)
         /\ \A i \in 1..Len(BytesKept(a, b, t)) : Language!Space(BytesKept(a, b, t)[i])
         /\ Len(BytesKept(a, b, t)) = 0 => ~Language!Separated(t, b)
<1> DEFINE s == Language!Newlines(a, b)
<1> DEFINE d == LinesKept(a, b, t)
<1> DEFINE x == BytesKept(a, b, t)
<1> DEFINE byte == IF s = <<>> THEN " " ELSE "\n"
<1>1. /\ s \in Seq(Nat) /\ Rising(s)
      /\ \A i \in 1..Len(s) : s[i] \in a..(b - 1) /\ Language!At(s[i]) = "\n"
      /\ \A o \in a..(b - 1) : Language!At(o) = "\n" => \E i \in 1..Len(s) : s[i] = o
  BY NewlinesAre, Zenon
<1>2. d = IF s = <<>> /\ Language!Separated(t, b) THEN <<a>> ELSE s
  BY Zenon DEF LinesKept
<1>3. x = [i \in DOMAIN d |-> byte]
  BY Zenon DEF BytesKept
<1> HIDE DEF s, d, x
<1>4. Len(s) \in Nat /\ (s = <<>> <=> Len(s) = 0)
  BY <1>1, LenProperties, NoLength
<1>5. /\ d \in Seq(Nat) /\ Rising(d)
      /\ \A i \in 1..Len(d) : /\ d[i] \in a..(b - 1)
                              /\ s # <<>> => Language!At(d[i]) = "\n"
      /\ s # <<>> => d = s
      /\ Len(d) = 0 => ~Language!Separated(t, b)
  <2>1. CASE s = <<>> /\ Language!Separated(t, b)
    <3>1. d = <<a>>
      BY <1>2, <2>1, Zenon
    <3>2. d \in Seq(Nat) /\ Len(d) = 1 /\ d[1] = a
      BY <3>1
    <3>3. Rising(d)
      BY <3>2 DEF Rising
    <3>4. \A i \in 1..Len(d) : d[i] \in a..(b - 1)
      BY <3>2
    <3> QED
      BY <2>1, <3>2, <3>3, <3>4
  <2>2. CASE ~(s = <<>> /\ Language!Separated(t, b))
    <3>1. d = s
      BY <1>2, <2>2, Zenon
    <3> QED
      BY <1>1, <1>4, <2>2, <3>1, Zenon
  <2> QED
    BY <2>1, <2>2
<1>6. DOMAIN d = 1..Len(d) /\ Len(d) \in Nat
  BY <1>5, LenProperties
<1>7. byte \in Language!Bytes /\ Language!Space(byte)
  BY SpacesAre DEF Language!Bytes
<1> HIDE DEF byte
<1>8. /\ x \in Seq(Language!Bytes) /\ Len(x) = Len(d)
      /\ \A i \in 1..Len(d) : x[i] = byte
  <2> DEFINE n == Len(d)
  <2>1. x = [i \in 1..n |-> byte] /\ n \in Nat
    BY <1>3, <1>6, Zenon
  <2> HIDE DEF n
  <2>2. x \in Seq(Language!Bytes) /\ Len(x) = n /\ \A i \in 1..n : x[i] = byte
    BY <1>7, <2>1
  <2> QED
    BY <2>2, Zenon DEF n
<1>9. ASSUME NEW i \in 1..Len(d) PROVE ByteFrom(x, d, i, a, b) /\ Parted(x, d, i)
  <2>1. x[i] = byte /\ Language!Space(x[i])
    BY <1>7, <1>8, Zenon
  <2>2. a <= d[i] /\ d[i] < b
    BY <1>5
  <2>3. x[i] = Language!At(d[i]) \/ x[i] = " "
    BY <1>5, <2>1, Zenon DEF byte
  <2> QED
    BY <2>1, <2>2, <2>3, Zenon DEF ByteFrom, Parted
<1>10. ASSUME NEW o \in a..(b - 1) PROVE Retained(x, d, o)
  <2> SUFFICES ASSUME Language!At(o) = "\n"
               PROVE  \E i \in 1..Len(d) : d[i] = o /\ x[i] = Language!At(o)
    BY Zenon DEF Retained
  <2>1. PICK i \in 1..Len(s) : s[i] = o
    BY <1>1, Zenon
  <2>2. s # <<>>
    BY <1>4
  <2>3. d = s /\ byte = "\n"
    BY <1>5, <2>2, Zenon DEF byte
  <2> QED
    BY <1>8, <2>1, <2>3, Zenon
<1>11. Part(x, d, a, b)
  BY <1>5, <1>8, <1>9, <1>10, Zenon DEF Part
<1> QED
  BY <1>5, <1>7, <1>8, <1>11, Zenon DEF d, x

\* What is copied so far, while ranges are left and when none is.
Content(t, d, m, c, r) ==
  /\ Stands(m, d) /\ Rising(d)
  /\ c \in 0..Len(original) /\ r \in 1..(Len(removals) + 2)
  /\ r <= Len(removals) + 1 =>
       /\ Part(t, d, 0, c) /\ Joint(t, c)
       /\ \A i \in 1..(r - 1) : removals[i].end <= c
       /\ c = 0 \/ \E i \in 1..(r - 1) : removals[i].end = c
  /\ r = Len(removals) + 2 =>
       \E g : d = g \o <<Len(original)>> /\ Part(t, g, 0, Len(original))

LanguageInv ==
  OriginalInv /\ refused = FALSE /\ Content(cleaned, dense, map, cursor, round)
LanguageAlways == group = "preprocess" => LanguageInv

LEMMA OriginalSame ==
  ASSUME original' = original, removals' = removals
  PROVE  LanguageInv' <=> /\ OriginalInv /\ refused' = FALSE
                          /\ Content(cleaned', dense', map', cursor', round')
BY DEF LanguageInv, OriginalInv, Content, Stands, Steps, Rising, Part, Joint, ByteFrom, Parted,
       Retained, Language!At, Language!Space, Language!Removed, Language!Bytes, Language!Ordered,
       SourceRange, OffsetSpan

LEMMA LanguageStutter ==
  ASSUME LanguageInv, UNCHANGED preprocessVars
  PROVE  LanguageInv'
<1>1. /\ original' = original /\ removals' = removals /\ round' = round /\ cursor' = cursor
      /\ cleaned' = cleaned /\ map' = map /\ refused' = refused /\ dense' = dense
  BY DEF preprocessVars
<1> QED
  BY <1>1, OriginalSame, Zenon DEF LanguageInv

LEMMA RangeIs ==
  ASSUME OriginalInv, NEW i \in 1..Len(removals)
  PROVE  /\ removals[i].start \in Nat /\ removals[i].end \in Nat
         /\ removals[i].start < removals[i].end /\ removals[i].end <= Len(original)
         /\ Len(removals) \in Nat /\ Len(original) \in Nat /\ DOMAIN removals = 1..Len(removals)
         /\ \A j \in 1..(i - 1) : Language!Ordered(removals[j], removals[i])
<1>1. removals \in Seq(SourceRange)
  BY DEF OriginalInv
<1>2. removals[i] \in SourceRange
  BY <1>1, ElementsAre
<1>3. removals[i].start \in Nat /\ removals[i].end \in Nat
  BY <1>2 DEF SourceRange
<1>4. Len(removals) \in Nat /\ DOMAIN removals = 1..Len(removals) /\ Len(original) \in Nat
  BY <1>1, LenProperties DEF OriginalInv
<1> QED
  BY <1>3, <1>4, Zenon DEF OriginalInv

LEMMA LanguageStart ==
  ASSUME Language!Init
  PROVE  LanguageInv
<1>1. PICK n \in 1..MaxSource : original \in [1..n -> Language!Bytes]
  BY DEF Language!Init
<1>2. n \in Nat /\ n <= Limit
  BY PreprocessAssumption
<1>3. original \in Seq(Language!Bytes) /\ Len(original) = n /\ DOMAIN original = 1..n
  BY <1>1, <1>2
<1>4. PICK k \in 0..MaxRemovals : removals \in [1..k -> Language!Ranges]
  BY DEF Language!Init
<1>5. ASSUME NEW r \in Language!Ranges
      PROVE  r \in SourceRange /\ r.end <= n
  <2>1. PICK first \in DOMAIN original, last \in DOMAIN original :
          r = [start |-> first - 1, end |-> last]
    BY DEF Language!Ranges
  <2>2. first - 1 \in Nat /\ last \in Nat /\ last <= n
    BY <1>2, <1>3
  <2> QED
    BY <2>1, <2>2 DEF SourceRange
<1>6. k \in Nat
  BY PreprocessAssumption
<1>7. /\ removals \in Seq(SourceRange) /\ Len(removals) = k
      /\ \A i \in 1..k : removals[i].end <= n
  <2>1. \A i \in 1..k : removals[i] \in Language!Ranges
    BY <1>4
  <2>2. removals \in [1..k -> SourceRange]
    <3>1. \A i \in 1..k : removals[i] \in SourceRange
      BY <1>5, <2>1, Zenon
    <3> QED
      BY <1>4, <3>1
  <2>3. removals \in Seq(SourceRange) /\ Len(removals) = k
    BY <1>6, <2>2
  <2> QED
    BY <1>5, <2>1, <2>3, Zenon
<1>8. \A i \in DOMAIN removals :
        /\ removals[i].start < removals[i].end
        /\ \A j \in 1..(i - 1) : Language!Ordered(removals[j], removals[i])
  BY Zenon DEF Language!Init
<1>9. OriginalInv
  <2>1. DOMAIN removals = 1..Len(removals)
    BY <1>7, LenProperties
  <2> QED
    BY <1>2, <1>3, <1>7, <1>8, <2>1, Zenon DEF OriginalInv
<1>10. /\ round = 1 /\ cursor = 0 /\ cleaned = <<>> /\ map = Language!Empty
       /\ refused = FALSE /\ dense = <<>>
  BY Zenon DEF Language!Init
<1>11. /\ cleaned \in Seq(Language!Bytes) /\ dense \in Seq(Nat) /\ Len(cleaned) = 0
       /\ Len(dense) = 0 /\ \A i \in 1..0 : FALSE
  BY <1>10
<1>12. \A i : i \notin 1..0 /\ i \notin 0..(0 - 1)
  OBVIOUS
<1>13. Rising(dense)
  BY <1>11, <1>12, Zenon DEF Rising
<1>14. Part(cleaned, dense, 0, 0)
  BY <1>11, <1>12, <1>13, Zenon DEF Part
<1>15. Joint(cleaned, 0)
  BY <1>11 DEF Joint
<1>16. Stands(map, dense)
  <2>1. map = [spans |-> <<>>, size |-> 0]
    BY <1>10, Zenon DEF Language!Empty
  <2>2. map = [spans |-> map.spans, size |-> map.size] /\ map.spans = <<>> /\ map.size = 0
    BY <2>1
  <2>3. map.spans \in Seq(OffsetSpan) /\ Len(map.spans) = 0
    BY <2>2
  <2>4. ~(0 > 0)
    OBVIOUS
  <2> QED
    BY <1>11, <1>12, <2>2, <2>3, <2>4, Zenon DEF Stands
<1>17. Content(cleaned, dense, map, 0, 1)
  <2>1. /\ 0 \in 0..Len(original) /\ 1 \in 1..(Len(removals) + 2)
        /\ 1 # Len(removals) + 2 /\ 1 - 1 = 0
    BY <1>2, <1>3, <1>6, <1>7
  <2> QED
    BY <1>12, <1>13, <1>14, <1>15, <1>16, <2>1, Zenon DEF Content
<1> QED
  BY <1>9, <1>10, <1>17, Zenon DEF LanguageInv

\* A piece has no more bytes than the source it is of.
LEMMA PartFits ==
  ASSUME NEW t, NEW d, NEW c \in Nat, Part(t, d, 0, c)
  PROVE  /\ Len(d) \in Nat /\ Len(d) <= c /\ d \in Seq(Nat) /\ Rising(d)
         /\ \A o \in Nat : c <= o => Follows(d, o) /\ (Len(d) > 0 => d[Len(d)] < o)
<1>1. /\ d \in Seq(Nat) /\ Rising(d) /\ Len(d) \in Nat
      /\ \A i \in 1..Len(d) : ByteFrom(t, d, i, 0, c)
  BY LenProperties DEF Part
<1>2. ASSUME Len(d) > 0 PROVE /\ Len(d) - 1 <= d[Len(d)] /\ d[Len(d)] < c
                              /\ d[Len(d)] \in Nat
  <2>1. Len(d) \in 1..Len(d)
    BY <1>1, <1>2
  <2>2. d[Len(d)] < c
    BY <1>1, <2>1, Zenon DEF ByteFrom
  <2>3. Len(d) - 1 <= d[Len(d)]
    BY <1>1, <2>1, RisingBeyond, Zenon
  <2>4. d[Len(d)] \in Nat
    BY <1>1, <2>1, ElementsAre
  <2> QED
    BY <2>2, <2>3, <2>4, Zenon
<1>3. Len(d) <= c
  BY <1>1, <1>2
<1>4. ASSUME NEW o \in Nat, c <= o PROVE Follows(d, o) /\ (Len(d) > 0 => d[Len(d)] < o)
  BY <1>2, <1>4 DEF Follows
<1> QED
  BY <1>1, <1>3, <1>4, Zenon

\* What the inductive invariant says while ranges are left.
LEMMA ContentIs ==
  ASSUME LanguageInv, round <= Len(removals) + 1
  PROVE  /\ OriginalInv /\ Stands(map, dense) /\ Part(cleaned, dense, 0, cursor)
         /\ Joint(cleaned, cursor)
         /\ cursor \in Nat /\ cursor <= Len(original) /\ Len(original) \in Nat
         /\ Len(original) <= Limit /\ Limit \in Nat
         /\ round \in Nat /\ 1 <= round /\ Len(removals) \in Nat
         /\ \A i \in 1..(round - 1) : removals[i].end <= cursor
         /\ cursor = 0 \/ \E i \in 1..(round - 1) : removals[i].end = cursor
<1>1. OriginalInv /\ Content(cleaned, dense, map, cursor, round)
  BY Zenon DEF LanguageInv
<1>2. /\ Stands(map, dense) /\ Part(cleaned, dense, 0, cursor) /\ Joint(cleaned, cursor)
      /\ cursor \in 0..Len(original) /\ round \in 1..(Len(removals) + 2)
      /\ \A i \in 1..(round - 1) : removals[i].end <= cursor
      /\ cursor = 0 \/ \E i \in 1..(round - 1) : removals[i].end = cursor
  BY <1>1, Zenon DEF Content
<1>3. /\ original \in Seq(Language!Bytes) /\ Len(original) <= Limit
      /\ removals \in Seq(SourceRange)
  BY <1>1, Zenon DEF OriginalInv
<1>4. Len(original) \in Nat /\ Len(removals) \in Nat
  BY <1>3, LenProperties
<1>5. Limit \in Nat
  BY PreprocessAssumption
<1>6. /\ cursor \in Nat /\ cursor <= Len(original) /\ round \in Nat /\ 1 <= round
  BY <1>2, <1>4
<1> QED
  BY <1>1, <1>2, <1>3, <1>4, <1>5, <1>6, Zenon

\* The source is copied up to the next range, or up to its end.
LEMMA CopyOn ==
  ASSUME LanguageInv, round <= Len(removals) + 1, NEW s \in Nat, cursor <= s, s <= Len(original),
         \A o \in cursor..(s - 1) : ~Language!Removed(o)
  PROVE  /\ Part(cleaned \o Language!Copied(s), dense \o Language!RunOf(cursor, s), 0, s)
         /\ Stands(Language!RunAppended(map, cursor, s - cursor),
                   dense \o Language!RunOf(cursor, s))
         /\ Language!CanAppendRun(map, cursor, s - cursor)
<1> DEFINE t == SubSeq(original, cursor + 1, s)
<1> DEFINE e == Language!RunOf(cursor, s)
<1> DEFINE n == s - cursor
<1>1. /\ OriginalInv /\ Stands(map, dense) /\ Part(cleaned, dense, 0, cursor)
      /\ Joint(cleaned, cursor) /\ cursor \in Nat /\ Len(original) \in Nat
      /\ Len(original) <= Limit /\ Limit \in Nat
  BY ContentIs, Zenon
<1>2. Language!Copied(s) = t
  BY Zenon DEF Language!Copied
<1>3. /\ Part(t, e, cursor, s) /\ RunFrom(e, cursor, n) /\ n \in Nat /\ Len(t) = n
      /\ s > cursor => t[1] = Language!At(cursor) /\ e[1] = cursor
  BY <1>1, RunPart, Zenon
<1> HIDE DEF t, e
<1>4. Part(cleaned \o t, dense \o e, 0, s)
  <2>1. ~(Len(cleaned) > 0 /\ Len(t) > 0 /\ ~Language!Space(cleaned[Len(cleaned)])
          /\ ~Language!Space(t[1]))
    <3>1. SUFFICES ASSUME Len(cleaned) > 0, Len(t) > 0
                   PROVE  Language!Space(cleaned[Len(cleaned)]) \/ Language!Space(t[1])
      BY Zenon
    <3>2. s > cursor /\ cursor < Len(original)
      BY <1>1, <1>3, <3>1
    <3> QED
      BY <1>1, <1>3, <3>1, <3>2, Zenon DEF Joint
  <2>2. 0 \in Nat /\ 0 <= cursor
    BY <1>1
  <2> QED
    BY <1>1, <1>3, <2>1, <2>2, PartsJoin, Zenon
<1>5. /\ Len(dense) \in Nat /\ Len(dense) <= cursor /\ Follows(dense, cursor)
      /\ map.size = Len(dense)
  <2>1. cursor <= cursor
    BY <1>1
  <2> QED
    BY <1>1, <2>1, PartFits, NoSpans, Zenon
<1> HIDE DEF n
<1>6. Stands(Language!RunAppended(map, cursor, n), dense \o e)
  BY <1>1, <1>3, <1>5, RunStands, Zenon
<1>7. Language!CanAppendRun(map, cursor, n)
  <2>1. Language!Monotonic(map, cursor)
    BY <1>1, <1>5, Accepts, Zenon
  <2>2. map.size + n <= Limit /\ cursor + n <= Limit + 1
    BY <1>1, <1>5 DEF n
  <2> QED
    BY <2>1, <2>2, Zenon DEF Language!CanAppendRun
<1> QED
  BY <1>2, <1>4, <1>6, <1>7, Zenon DEF e, n

\* SkipRange: what it skips is in a range before.
LEMMA SkipRangeStep ==
  ASSUME LanguageInv, Language!SkipRange
  PROVE  LanguageInv'
<1>1. /\ round <= Len(removals) /\ removals[round].start < cursor /\ round' = round + 1
      /\ original' = original /\ removals' = removals /\ cursor' = cursor
      /\ cleaned' = cleaned /\ map' = map /\ refused' = refused /\ dense' = dense
  BY DEF Language!SkipRange
<1>2. round \in Nat /\ Len(removals) \in Nat /\ 1 <= round /\ Content(cleaned, dense, map, cursor, round)
  <2>1. OriginalInv /\ Content(cleaned, dense, map, cursor, round)
    BY Zenon DEF LanguageInv
  <2>2. Len(removals) \in Nat
    BY <2>1, LenProperties DEF OriginalInv
  <2>3. round \in 1..(Len(removals) + 2)
    BY <2>1, Zenon DEF Content
  <2> QED
    BY <2>1, <2>2, <2>3
<1>3. round <= Len(removals) + 1 /\ round \in 1..Len(removals)
  BY <1>1, <1>2
<1>4. /\ OriginalInv /\ Stands(map, dense) /\ Part(cleaned, dense, 0, cursor)
      /\ Joint(cleaned, cursor) /\ cursor \in Nat
      /\ \A i \in 1..(round - 1) : removals[i].end <= cursor
      /\ cursor = 0 \/ \E i \in 1..(round - 1) : removals[i].end = cursor
  BY <1>3, ContentIs, Zenon
<1>5. removals[round].end <= cursor
  <2>1. /\ removals[round].start \in Nat /\ removals[round].end \in Nat
        /\ \A j \in 1..(round - 1) : Language!Ordered(removals[j], removals[round])
    BY <1>3, <1>4, RangeIs, Zenon
  <2>2. PICK i \in 1..(round - 1) : removals[i].end = cursor
    BY <1>1, <1>4, <2>1
  <2>3. removals[i].end <= removals[round].start \/ removals[round].end <= removals[i].end
    BY <2>1, <2>2, Zenon DEF Language!Ordered
  <2> QED
    BY <1>1, <1>4, <2>1, <2>2, <2>3
<1>6. Content(cleaned, dense, map, cursor, round + 1)
  <2>1. /\ round + 1 \in 1..(Len(removals) + 2) /\ round + 1 # Len(removals) + 2
        /\ (round + 1) - 1 = round
    BY <1>2, <1>3
  <2>2. \A i \in 1..round : i = round \/ i \in 1..(round - 1)
    BY <1>2
  <2>3. \A i \in 1..round : removals[i].end <= cursor
    BY <1>4, <1>5, <2>2, Zenon
  <2>4. \A i \in 1..(round - 1) : i \in 1..round
    BY <1>2
  <2>5. cursor = 0 \/ \E i \in 1..round : removals[i].end = cursor
    BY <1>4, <2>4, Zenon
  <2>6. Rising(dense) /\ cursor \in 0..Len(original)
    BY <1>2, Zenon DEF Content
  <2> QED
    BY <1>4, <2>1, <2>3, <2>5, <2>6, Zenon DEF Content
<1> QED
  BY <1>1, <1>4, <1>6, OriginalSame, Zenon DEF LanguageInv

\* Finish: all the rest is copied, and the boundary behind it.
LEMMA FinishSourceStep ==
  ASSUME LanguageInv, Language!Finish
  PROVE  LanguageInv'
<1> DEFINE s == Len(original)
<1> DEFINE e == Language!RunOf(cursor, s)
<1> DEFINE g == dense \o e
<1> DEFINE m == Language!RunAppended(map, cursor, s - cursor)
<1>1. /\ round = Len(removals) + 1
      /\ refused' = ~(Language!CanAppendRun(map, cursor, s - cursor) /\ Language!CanAppend(m, s))
      /\ cleaned' = cleaned \o Language!Copied(s)
      /\ map' = Language!Appended(m, s)
      /\ dense' = dense \o e \o <<s>>
      /\ cursor' = s /\ round' = round + 1
      /\ original' = original /\ removals' = removals
  BY Zenon DEF Language!Finish
<1>2. Len(removals) \in Nat
  BY LenProperties DEF LanguageInv, OriginalInv
<1>3. round <= Len(removals) + 1
  BY <1>1, <1>2
<1>4. /\ OriginalInv /\ cursor \in Nat /\ cursor <= s /\ s \in Nat /\ s <= Limit
      /\ \A i \in 1..(round - 1) : removals[i].end <= cursor
  BY <1>3, ContentIs, Zenon
<1>5. \A o \in cursor..(s - 1) : ~Language!Removed(o)
  <2>1. SUFFICES ASSUME NEW o \in cursor..(s - 1), NEW i \in DOMAIN removals,
                        removals[i].start <= o, o < removals[i].end
                 PROVE  FALSE
    BY Zenon DEF Language!Removed
  <2>2. DOMAIN removals = 1..Len(removals)
    BY <1>4, LenProperties DEF OriginalInv
  <2>3. i \in 1..(round - 1) /\ i \in 1..Len(removals)
    BY <1>1, <1>2, <2>2
  <2>4. removals[i].end <= cursor /\ removals[i].end \in Nat
    BY <1>4, <2>3, RangeIs, Zenon
  <2> QED
    BY <1>4, <2>1, <2>4
<1>6. /\ Part(cleaned', g, 0, s) /\ Stands(m, g)
      /\ Language!CanAppendRun(map, cursor, s - cursor)
  <2>1. s <= s
    BY <1>4
  <2> QED
    BY <1>1, <1>3, <1>4, <1>5, <2>1, CopyOn, Zenon
<1> HIDE DEF g, m, s
<1>7. /\ Len(g) \in Nat /\ Len(g) <= s /\ g \in Seq(Nat) /\ Rising(g)
      /\ Follows(g, s) /\ (Len(g) > 0 => g[Len(g)] < s)
  <2>1. s <= s
    BY <1>4
  <2> QED
    BY <1>4, <1>6, <2>1, PartFits, Zenon
<1>8. Language!CanAppend(m, s)
  <2>1. m.size = Len(g) /\ Language!Monotonic(m, s)
    BY <1>4, <1>6, <1>7, NoSpans, Accepts, Zenon
  <2>2. m.size <= Limit
    BY <1>4, <1>7, <2>1, PreprocessAssumption
  <2> QED
    BY <1>4, <2>1, <2>2, Zenon DEF Language!CanAppend
<1>9. Stands(map', g \o <<s>>)
  BY <1>1, <1>4, <1>6, <1>7, AppendedStands, Zenon
<1>10. dense' = g \o <<s>>
  BY <1>1, Zenon DEF g
<1>11. Rising(g \o <<s>>)
  <2> DEFINE h == g \o <<s>>
  <2>1. /\ <<s>> \in Seq(Nat) /\ Len(<<s>>) = 1 /\ <<s>>[1] = s /\ 1 \in 1..1
    BY <1>4
  <2>2. /\ Len(h) = Len(g) + 1
        /\ \A i \in 1..Len(g) : h[i] = g[i]
        /\ \A i \in 1..1 : h[Len(g) + i] = <<s>>[i]
    BY <1>7, <2>1, Joins, Zenon
  <2>3. h[Len(g) + 1] = s
    BY <2>1, <2>2, Zenon
  <2> HIDE DEF h
  <2>4. ASSUME NEW p \in 1..Len(h), NEW q \in 1..Len(h), p < q PROVE h[p] < h[q]
    <3>1. p \in 1..Len(g) /\ (q \in 1..Len(g) \/ q = Len(g) + 1)
      BY <1>7, <2>2, <2>4
    <3>2. h[p] = g[p]
      BY <2>2, <3>1, Zenon
    <3>3. CASE q \in 1..Len(g)
      BY <1>7, <2>2, <2>4, <3>1, <3>2, <3>3, Zenon DEF Rising
    <3>4. CASE q = Len(g) + 1
      <4>1. Len(g) \in 1..Len(g) /\ Len(g) > 0 /\ (p < Len(g) \/ p = Len(g))
        BY <1>7, <3>1
      <4>2. g[Len(g)] < s /\ (p < Len(g) => g[p] < g[Len(g)])
        BY <1>7, <3>1, <4>1, Zenon DEF Rising
      <4>3. g[p] \in Nat /\ g[Len(g)] \in Nat
        BY <1>7, <3>1, <4>1, ElementsAre
      <4>4. g[p] < s
        BY <1>4, <4>1, <4>2, <4>3
      <4> QED
        BY <2>3, <3>2, <3>4, <4>4, Zenon
    <3> QED
      BY <3>1, <3>3, <3>4
  <2> QED
    BY <2>4, Zenon DEF Rising, h
<1>12. Content(cleaned', dense', map', cursor', round')
  <2>1. /\ round' \in 1..(Len(removals) + 2) /\ ~(round' <= Len(removals) + 1)
        /\ cursor' \in 0..s
    BY <1>1, <1>2, <1>4 DEF s
  <2> QED
    BY <1>6, <1>9, <1>10, <1>11, <2>1, Zenon DEF Content, s
<1>13. refused' = FALSE
  BY <1>1, <1>6, <1>8
<1> QED
  BY <1>1, <1>4, <1>12, <1>13, OriginalSame, Zenon

\* RemoveRange: what is before the range is copied, and its lines are kept.
LEMMA RemoveRangeStep ==
  ASSUME LanguageInv, Language!RemoveRange
  PROVE  LanguageInv'
<1> DEFINE a == removals[round].start
<1> DEFINE b == removals[round].end
<1> DEFINE e == Language!RunOf(cursor, a)
<1> DEFINE g == dense \o e
<1> DEFINE before == cleaned \o Language!Copied(a)
<1> DEFINE m == Language!RunAppended(map, cursor, a - cursor)
<1> DEFINE k == LinesKept(a, b, before)
<1> DEFINE x == BytesKept(a, b, before)
<1>1. /\ round <= Len(removals) /\ removals[round].start >= cursor /\ round' = round + 1
      /\ refused' = ~(Language!CanAppendRun(map, cursor, a - cursor)
                        /\ Language!AllAccepted(m, k))
      /\ cleaned' = before \o x
      /\ map' = Language!AllAppended(m, k)
      /\ dense' = dense \o e \o k
      /\ cursor' = b
      /\ original' = original /\ removals' = removals
  BY Zenon DEF Language!RemoveRange, LinesKept, BytesKept
<1>2. round \in Nat /\ Len(removals) \in Nat /\ 1 <= round
  <2>1. Len(removals) \in Nat /\ round \in 1..(Len(removals) + 2)
    BY LenProperties DEF LanguageInv, OriginalInv, Content
  <2> QED
    BY <2>1
<1>3. round <= Len(removals) + 1 /\ round \in 1..Len(removals)
  BY <1>1, <1>2
<1>4. /\ OriginalInv /\ cursor \in Nat /\ cursor <= Len(original) /\ Len(original) \in Nat
      /\ Len(original) <= Limit /\ Limit \in Nat
      /\ \A i \in 1..(round - 1) : removals[i].end <= cursor
  BY <1>3, ContentIs, Zenon
<1>5. /\ a \in Nat /\ b \in Nat /\ a < b /\ b <= Len(original)
      /\ DOMAIN removals = 1..Len(removals)
  BY <1>3, <1>4, RangeIs, Zenon
<1>6. cursor <= a /\ a <= Len(original) /\ a <= b
  BY <1>1, <1>4, <1>5
\* What is before the range is in no range, and what is in it is in one.
<1>7. \A o \in cursor..(a - 1) : ~Language!Removed(o)
  <2>1. SUFFICES ASSUME NEW o \in cursor..(a - 1), NEW i \in DOMAIN removals,
                        removals[i].start <= o, o < removals[i].end
                 PROVE  FALSE
    BY Zenon DEF Language!Removed
  <2>2. /\ i \in 1..Len(removals) /\ removals[i].end \in Nat /\ removals[i].start \in Nat
    BY <1>4, <1>5, RangeIs, Zenon
  <2>3. CASE i < round
    <3>1. i \in 1..(round - 1)
      BY <1>2, <2>2, <2>3
    <3>2. removals[i].end <= cursor
      BY <1>4, <3>1, Zenon
    <3> QED
      BY <1>4, <2>1, <2>2, <3>2
  <2>4. CASE i = round
    BY <1>4, <1>5, <2>1, <2>4
  <2>5. CASE i > round
    <3>1. round \in 1..(i - 1)
      BY <1>2, <2>2, <2>5
    <3>2. Language!Ordered(removals[round], removals[i])
      BY <1>4, <2>2, <3>1, RangeIs, Zenon
    <3>3. a < removals[i].start
      BY <3>2, Zenon DEF Language!Ordered
    <3> QED
      BY <1>4, <1>5, <2>1, <2>2, <3>3
  <2> QED
    BY <1>2, <2>2, <2>3, <2>4, <2>5
<1>8. \A o \in a..(b - 1) : Language!Removed(o)
  <2>1. SUFFICES ASSUME NEW o \in a..(b - 1) PROVE Language!Removed(o)
    BY Zenon
  <2>2. a <= o /\ o < b
    BY <1>5
  <2> QED
    BY <1>3, <1>5, <2>2, Zenon DEF Language!Removed
<1>9. /\ Part(before, g, 0, a) /\ Stands(m, g)
      /\ Language!CanAppendRun(map, cursor, a - cursor)
  BY <1>3, <1>5, <1>6, <1>7, CopyOn, Zenon
<1> HIDE DEF g, before, m
<1>10. /\ Part(x, k, a, b)
       /\ \A i \in 1..Len(x) : Language!Space(x[i])
       /\ Len(x) = 0 => ~Language!Separated(before, b)
  BY <1>5, <1>8, LinesPart, Zenon
<1> HIDE DEF k, x
<1> HIDE DEF a, b
<1>11. /\ before \in Seq(Language!Bytes) /\ x \in Seq(Language!Bytes)
       /\ Len(before) \in Nat /\ Len(x) \in Nat /\ k \in Seq(Nat)
       /\ \A i \in 1..Len(k) : ByteFrom(x, k, i, a, b)
  BY <1>9, <1>10, LenProperties DEF Part
<1>12. Part(before \o x, g \o k, 0, b)
  <2>1. ~(Len(x) > 0 /\ ~Language!Space(x[1]))
    <3>1. Len(x) > 0 => 1 \in 1..Len(x)
      BY <1>11
    <3> QED
      BY <1>10, <3>1, Zenon
  <2>2. 0 \in Nat /\ 0 <= a
    BY <1>5
  <2> QED
    BY <1>5, <1>6, <1>9, <1>10, <2>1, <2>2, PartsJoin, Zenon
<1>13. Joint(before \o x, b)
  <2> DEFINE z == before \o x
  <2>1. /\ Len(z) = Len(before) + Len(x)
        /\ \A i \in 1..Len(before) : z[i] = before[i]
        /\ \A i \in 1..Len(x) : z[Len(before) + i] = x[i]
    BY <1>11, JoinsBytes, Zenon
  <2> HIDE DEF z
  <2>2. SUFFICES ASSUME Len(z) > 0, b < Len(original)
                 PROVE  Language!Space(z[Len(z)]) \/ Language!Space(Language!At(b))
    BY Zenon DEF Joint, z
  <2>3. CASE Len(x) = 0
    <3>1. Len(z) = Len(before) /\ Len(before) \in 1..Len(before)
      BY <1>11, <2>1, <2>2, <2>3
    <3>2. z[Len(z)] = before[Len(before)]
      BY <2>1, <3>1, Zenon
    <3>3. before # <<>>
      BY <1>11, <2>2, <3>1, NoLength
    <3>4. ~Language!Separated(before, b)
      BY <1>10, <2>3, Zenon
    <3> QED
      BY <2>2, <3>2, <3>3, <3>4, Zenon DEF Language!Separated
  <2>4. CASE Len(x) # 0
    <3>1. Len(z) = Len(before) + Len(x) /\ Len(x) \in 1..Len(x)
      BY <1>11, <2>1, <2>4
    <3>2. z[Len(z)] = x[Len(x)]
      BY <2>1, <3>1, Zenon
    <3> QED
      BY <1>10, <3>1, <3>2, Zenon
  <2> QED
    BY <2>3, <2>4
<1>14. g \in Seq(Nat) /\ Rising(g \o k)
  BY <1>9, <1>12, Zenon DEF Part
<1>15. Stands(map', g \o k)
  BY <1>1, <1>9, <1>11, <1>14, AllStand, Zenon
<1>16. Language!AllAccepted(m, k)
  <2>1. ASSUME NEW i \in 1..Len(k) PROVE k[i] <= Limit
    <3>1. k[i] < b /\ k[i] \in Nat
      <4>1. k[i] < b
        BY <1>11, Zenon DEF ByteFrom
      <4> QED
        BY <1>11, <4>1, ElementsAre
    <3> QED
      BY <1>4, <1>5, <3>1
  <2> QED
    BY <1>9, <1>11, <1>14, <2>1, AllAccept, Zenon
<1>17. refused' = FALSE
  BY <1>1, <1>9, <1>16
<1>18. dense' = g \o k /\ cleaned' = before \o x /\ cursor' = b
  BY <1>1, Zenon DEF g
<1>19. \A i \in 1..round : removals[i].end <= b
  <2>1. SUFFICES ASSUME NEW i \in 1..round PROVE removals[i].end <= b
    BY Zenon
  <2>2. i \in 1..Len(removals)
    BY <1>2, <1>3
  <2>3. removals[i].end \in Nat
    BY <1>4, <2>2, RangeIs, Zenon
  <2>4. CASE i = round
    BY <1>5, <2>4 DEF b
  <2>5. CASE i # round
    <3>1. i \in 1..(round - 1)
      BY <1>2, <2>5
    <3>2. removals[i].end <= cursor
      BY <1>4, <3>1, Zenon
    <3> QED
      BY <1>4, <1>5, <1>6, <2>3, <3>2
  <2> QED
    BY <2>4, <2>5
<1>20. Content(cleaned', dense', map', cursor', round')
  <2>1. /\ round' \in 1..(Len(removals) + 2) /\ round' # Len(removals) + 2
        /\ round' - 1 = round /\ round \in 1..round /\ b \in 0..Len(original)
    BY <1>1, <1>2, <1>3, <1>4, <1>5
  <2>2. \E i \in 1..round : removals[i].end = b
    BY <2>1, Zenon DEF b
  <2> QED
    BY <1>12, <1>13, <1>14, <1>15, <1>18, <1>19, <2>1, <2>2, Zenon DEF Content
<1> QED
  BY <1>1, <1>4, <1>17, <1>20, OriginalSame, Zenon

LEMMA LanguageStep ==
  ASSUME LanguageInv, Language!RemoveRanges
  PROVE  LanguageInv'
BY SkipRangeStep, RemoveRangeStep, FinishSourceStep DEF Language!RemoveRanges

\* How many boundaries are before an offset says which ones are.
LEMMA BelowCount ==
  ASSUME NEW d \in Seq(Nat), Rising(d), NEW o \in Nat
  PROVE  /\ Cardinality({i \in DOMAIN d : d[i] < o}) \in 0..Len(d)
         /\ \A i \in 1..Len(d) : d[i] < o <=> i <= Cardinality({j \in DOMAIN d : d[j] < o})
<1> DEFINE S == {0} \cup {i \in 1..Len(d) : d[i] < o}
<1> DEFINE r == Core!Highest(S)
<1>1. Len(d) \in Nat /\ \A i \in 1..Len(d) : d[i] \in Nat
  BY LenProperties, ElementsAre
<1>2. S \in SUBSET Nat /\ S # {} /\ \A y \in S : y <= Len(d)
  BY <1>1
<1>3. r \in S /\ \A y \in S : y <= r
  BY <1>1, <1>2, HighestIs
<1> HIDE DEF r
<1>4. r \in 0..Len(d) /\ (r > 0 => d[r] < o)
  BY <1>1, <1>3
<1>5. ASSUME r < Len(d) PROVE o <= d[r + 1]
  <2>1. r + 1 \in 1..Len(d) /\ ~(r + 1 <= r)
    BY <1>1, <1>4, <1>5
  <2>2. r + 1 \notin S
    BY <1>3, <2>1, Zenon
  <2> QED
    BY <1>1, <2>1, <2>2
<1>6. Cardinality({i \in DOMAIN d : d[i] < o}) = r
  BY <1>4, <1>5, CountBelow, Zenon
<1>7. ASSUME NEW i \in 1..Len(d) PROVE d[i] < o <=> i <= r
  <2>1. CASE i <= r
    <3>1. r \in 1..Len(d) /\ d[r] < o /\ (i < r \/ i = r)
      BY <1>1, <1>4, <2>1
    <3>2. i < r => d[i] < d[r]
      BY <3>1, Zenon DEF Rising
    <3> QED
      BY <1>1, <2>1, <3>1, <3>2
  <2>2. CASE ~(i <= r)
    <3>1. i \notin S
      BY <1>3, <2>2, Zenon
    <3> QED
      BY <2>2, <3>1
  <2> QED
    BY <2>1, <2>2
<1> QED
  BY <1>4, <1>6, <1>7, Zenon

\* When nothing is left to copy.
CopiedAll(g) ==
  /\ OriginalInv /\ Stands(map, dense) /\ Rising(dense)
  /\ dense = g \o <<Len(original)>> /\ Part(cleaned, g, 0, Len(original))

LEMMA CopiedAllIs ==
  ASSUME NEW g, CopiedAll(g)
  PROVE  /\ Len(original) \in Nat /\ cleaned \in Seq(Language!Bytes)
         /\ DOMAIN original = 1..Len(original)
         /\ Len(cleaned) \in Nat /\ DOMAIN cleaned = 1..Len(cleaned)
         /\ dense \in Seq(Nat) /\ Rising(dense) /\ Len(dense) = Len(cleaned) + 1
         /\ DOMAIN dense = 1..Len(dense)
         /\ \A i \in 1..Len(cleaned) :
              /\ i \in 1..Len(dense) /\ dense[i] = g[i] /\ dense[i] \in Nat
              /\ dense[i] \in 0..(Len(original) - 1)
              /\ ByteFrom(cleaned, g, i, 0, Len(original)) /\ Parted(cleaned, g, i)
         /\ \A o \in 0..(Len(original) - 1) : Retained(cleaned, g, o)
         /\ Len(g) = Len(cleaned)
<1> DEFINE n == Len(original)
<1>1. original \in Seq(Language!Bytes) /\ Part(cleaned, g, 0, n) /\ Rising(dense)
      /\ dense = g \o <<n>> /\ Stands(map, dense)
  BY Zenon DEF CopiedAll, OriginalInv
<1>2. /\ cleaned \in Seq(Language!Bytes) /\ g \in Seq(Nat) /\ Len(cleaned) = Len(g)
      /\ \A i \in 1..Len(g) : ByteFrom(cleaned, g, i, 0, n) /\ Parted(cleaned, g, i)
      /\ \A o \in 0..(n - 1) : Retained(cleaned, g, o)
  BY <1>1, Zenon DEF Part
<1>3. /\ n \in Nat /\ DOMAIN original = 1..n /\ Len(g) \in Nat
      /\ DOMAIN cleaned = 1..Len(cleaned) /\ Len(cleaned) \in Nat
      /\ \A i \in 1..Len(g) : g[i] \in Nat
  BY <1>1, <1>2, LenProperties, ElementsAre
<1>4. <<n>> \in Seq(Nat) /\ Len(<<n>>) = 1
  BY <1>3
<1>5. /\ dense \in Seq(Nat) /\ Len(dense) = Len(g) + 1
      /\ \A i \in 1..Len(g) : dense[i] = g[i]
  BY <1>1, <1>2, <1>4, Joins, Zenon
<1>6. DOMAIN dense = 1..Len(dense)
  BY <1>5, LenProperties
<1>7. ASSUME NEW i \in 1..Len(g)
      PROVE  i \in 1..Len(dense) /\ dense[i] \in 0..(n - 1) /\ dense[i] \in Nat
  <2>1. i \in 1..Len(dense) /\ dense[i] = g[i] /\ g[i] \in Nat
    BY <1>3, <1>5
  <2>2. g[i] < n
    BY <1>2, Zenon DEF ByteFrom
  <2> HIDE DEF n
  <2>3. g[i] \in 0..(n - 1)
    BY <1>3, <2>1, <2>2
  <2> QED
    BY <2>1, <2>3, Zenon
<1> QED
  BY <1>1, <1>2, <1>3, <1>5, <1>6, <1>7, Zenon

LEMMA RisingOnce ==
  ASSUME NEW d \in Seq(Nat), Rising(d), NEW i \in 1..Len(d), NEW j \in 1..Len(d), d[i] = d[j]
  PROVE  i = j
<1>1. Len(d) \in Nat /\ d[i] \in Nat
  BY LenProperties, ElementsAre
<1>2. i < j \/ j < i \/ i = j
  BY <1>1
<1>3. ~(d[i] < d[i])
  BY <1>1
<1> QED
  BY <1>2, <1>3, Zenon DEF Rising

\* A byte that is kept is there once.
LEMMA KeptOnce ==
  ASSUME NEW g, CopiedAll(g), NEW o \in 0..(Len(original) - 1),
         ~Language!Removed(o) \/ Language!At(o) = "\n"
  PROVE  Cardinality({i \in DOMAIN cleaned : dense[i] = o /\ cleaned[i] = Language!At(o)}) = 1
<1>1. /\ DOMAIN cleaned = 1..Len(cleaned) /\ Retained(cleaned, g, o) /\ Len(g) = Len(cleaned)
      /\ \A i \in 1..Len(cleaned) : i \in 1..Len(dense) /\ dense[i] = g[i]
      /\ dense \in Seq(Nat) /\ Rising(dense)
  BY CopiedAllIs, Zenon
<1>2. PICK i \in 1..Len(g) : g[i] = o /\ cleaned[i] = Language!At(o)
  BY <1>1, Zenon DEF Retained
<1>3. i \in 1..Len(cleaned) /\ dense[i] = o
  BY <1>1, <1>2, Zenon
<1>4. \A j \in 1..Len(cleaned) : dense[j] = o => j = i
  BY <1>1, <1>3, RisingOnce, Zenon
<1>5. {j \in DOMAIN cleaned : dense[j] = o /\ cleaned[j] = Language!At(o)} = {i}
  BY <1>1, <1>2, <1>3, <1>4
<1> QED
  BY <1>5, FS_Singleton

\* A scope has the bytes it had.
LEMMA ScopeKept ==
  ASSUME NEW g, CopiedAll(g), NEW o \in 0..(Len(original) - 1),
         NEW end \in (o + 1)..Len(original), NEW i \in DOMAIN cleaned
  PROVE  o <= dense[i] /\ dense[i] < end <=>
           \E scope \in Language!Remapped(o, end) : scope.start < i /\ i <= scope.end
<1> DEFINE a == Language!CleanedOffset(map, o)
<1> DEFINE b == Language!CleanedOffset(map, end)
<1> DEFINE scope == [start |-> a, end |-> b]
<1>1. /\ Len(original) \in Nat /\ i \in 1..Len(dense) /\ dense[i] \in Nat
      /\ dense \in Seq(Nat) /\ Rising(dense) /\ Stands(map, dense) /\ DOMAIN cleaned = 1..Len(cleaned)
      /\ Len(dense) \in Nat
  BY CopiedAllIs, LenProperties DEF CopiedAll
<1>2. o \in Nat /\ end \in Nat
  BY <1>1
<1>3. /\ a = Cardinality({j \in DOMAIN dense : dense[j] < o})
      /\ b = Cardinality({j \in DOMAIN dense : dense[j] < end})
  BY <1>1, <1>2, CleanedIs, Zenon
<1> HIDE DEF a, b
<1>4. /\ a \in 0..Len(dense) /\ b \in 0..Len(dense)
      /\ dense[i] < o <=> i <= a
      /\ dense[i] < end <=> i <= b
  BY <1>1, <1>2, <1>3, BelowCount, Zenon
<1>5. Language!Remapped(o, end) = {r \in {scope} : r.start < r.end}
  BY Zenon DEF Language!Remapped, a, b
<1>6. scope.start = a /\ scope.end = b
  OBVIOUS
<1> HIDE DEF scope
<1>7. (\E r \in Language!Remapped(o, end) : r.start < i /\ i <= r.end) <=> (a < b /\ a < i /\ i <= b)
  BY <1>5, <1>6
<1>8. o <= dense[i] /\ dense[i] < end <=> a < b /\ a < i /\ i <= b
  BY <1>1, <1>2, <1>4
<1> QED
  BY <1>7, <1>8, Zenon

\* There are as many lines as before.
LEMMA LinesSame ==
  ASSUME NEW g, CopiedAll(g)
  PROVE  Cardinality({i \in DOMAIN cleaned : cleaned[i] = "\n"})
           = Cardinality({i \in DOMAIN original : original[i] = "\n"})
<1> DEFINE S == {i \in DOMAIN cleaned : cleaned[i] = "\n"}
<1> DEFINE T == {i \in DOMAIN original : original[i] = "\n"}
<1> DEFINE f == [i \in S |-> dense[i] + 1]
<1>1. /\ Len(original) \in Nat /\ DOMAIN cleaned = 1..Len(cleaned) /\ Len(cleaned) \in Nat
      /\ DOMAIN original = 1..Len(original)
      /\ dense \in Seq(Nat) /\ Rising(dense) /\ Len(g) = Len(cleaned)
      /\ \A i \in 1..Len(cleaned) :
           /\ i \in 1..Len(dense) /\ dense[i] = g[i] /\ dense[i] \in Nat
           /\ dense[i] \in 0..(Len(original) - 1)
           /\ ByteFrom(cleaned, g, i, 0, Len(original))
      /\ \A o \in 0..(Len(original) - 1) : Retained(cleaned, g, o)
  BY CopiedAllIs, Zenon
<1>2. ASSUME NEW i \in S PROVE f[i] \in T
  <2>1. i \in 1..Len(cleaned) /\ cleaned[i] = "\n"
    BY <1>1
  <2>2. cleaned[i] = Language!At(dense[i])
    <3>1. cleaned[i] = Language!At(g[i]) \/ cleaned[i] = " "
      BY <1>1, <2>1, Zenon DEF ByteFrom
    <3>2. "\n" # " "
      OBVIOUS
    <3> QED
      BY <1>1, <2>1, <3>1, <3>2, Zenon
  <2>3. original[dense[i] + 1] = "\n"
    BY <2>1, <2>2, Zenon DEF Language!At
  <2>4. dense[i] + 1 \in 1..Len(original)
    BY <1>1, <2>1
  <2> QED
    BY <1>1, <2>3, <2>4
<1>3. f \in [S -> T]
  BY <1>2
<1>4. ASSUME NEW i \in S, NEW j \in S, f[i] = f[j] PROVE i = j
  <2>1. i \in 1..Len(cleaned) /\ j \in 1..Len(cleaned)
    BY <1>1
  <2>2. dense[i] \in Nat /\ dense[j] \in Nat /\ dense[i] + 1 = dense[j] + 1
    BY <1>1, <1>4, <2>1
  <2>3. dense[i] = dense[j]
    BY <2>2
  <2> QED
    BY <1>1, <2>1, <2>3, RisingOnce, Zenon
<1>5. ASSUME NEW o \in T PROVE \E i \in S : f[i] = o
  <2>1. o \in 1..Len(original) /\ original[o] = "\n"
    BY <1>1
  <2>2. o - 1 \in 0..(Len(original) - 1) /\ (o - 1) + 1 = o
    BY <1>1, <2>1
  <2>3. Language!At(o - 1) = "\n"
    BY <2>1, <2>2, Zenon DEF Language!At
  <2>4. PICK i \in 1..Len(g) : g[i] = o - 1 /\ cleaned[i] = Language!At(o - 1)
    BY <1>1, <2>2, <2>3, Zenon DEF Retained
  <2>5. i \in S /\ dense[i] = o - 1
    BY <1>1, <2>3, <2>4
  <2>6. f[i] = o
    BY <2>2, <2>5
  <2> QED
    BY <2>5, <2>6, Zenon
<1>6. f \in Injection(S, T)
  BY <1>3, <1>4 DEF Injection, IsInjective
<1>7. f \in Surjection(S, T)
  BY <1>3, <1>5 DEF Surjection
<1>8. ExistsBijection(S, T)
  BY <1>6, <1>7 DEF ExistsBijection, Bijection
<1>9. IsFiniteSet(S)
  <2>1. IsFiniteSet(1..Len(cleaned))
    BY <1>1, FS_Interval
  <2>2. S \in SUBSET (1..Len(cleaned))
    BY <1>1
  <2> QED
    BY <2>1, <2>2, FS_Subset
<1> QED
  BY <1>8, <1>9, FS_Bijection

\* The range of a line: the first and the last byte of code on it.
CodeOn(t, line, e) == {i \in (line + 1)..e : ~Language!Space(t[i])}
LineEnds(t, n, line, e) ==
  /\ e = n \/ t[e + 1] = "\n"
  /\ \A i \in (line + 1)..e : t[i] # "\n"
  /\ Language!MeaningfulRange(t, line) =
       IF CodeOn(t, line, e) = {} THEN {}
       ELSE {[start |-> Core!Lowest(CodeOn(t, line, e)) - 1,
              end |-> Core!Highest(CodeOn(t, line, e))]}

LEMMA LineRangeIs ==
  ASSUME NEW t, NEW n \in Nat, Len(t) = n, NEW line \in 0..n
  PROVE  \E e \in line..n : LineEnds(t, n, line, e)
<1> DEFINE Ends(e) == /\ e = Len(t) \/ t[e + 1] = "\n"
                      /\ \A i \in (line + 1)..e : t[i] # "\n"
<1> DEFINE end == CHOOSE e \in line..Len(t) : Ends(e)
<1> DEFINE code == {i \in (line + 1)..end : ~Language!Space(t[i])}
<1>1. \E e \in line..Len(t) : Ends(e)
  <2> DEFINE S == {e \in line..n : e = n \/ t[e + 1] = "\n"}
  <2> DEFINE h == Core!Lowest(S)
  <2>1. S \in SUBSET Nat /\ S # {}
    OBVIOUS
  <2>2. h \in S /\ \A y \in S : h <= y
    BY <2>1, LowestIs
  <2> HIDE DEF h
  <2>3. h \in line..n /\ (h = n \/ t[h + 1] = "\n")
    BY <2>2
  <2>4. ASSUME NEW i \in (line + 1)..h PROVE t[i] # "\n"
    <3>1. i - 1 \in line..n /\ (i - 1) + 1 = i /\ ~(h <= i - 1)
      BY <2>3
    <3>2. i - 1 \notin S
      BY <2>2, <3>1, Zenon
    <3> QED
      BY <3>1, <3>2, Zenon
  <2> QED
    BY <2>3, <2>4, Zenon
<1>2. end \in line..n /\ Ends(end)
  BY <1>1, Zenon
<1>3. Language!MeaningfulRange(t, line) =
        IF code = {} THEN {}
        ELSE {[start |-> Core!Lowest(code) - 1, end |-> Core!Highest(code)]}
  BY Zenon DEF Language!MeaningfulRange, Core!Lowest, Core!Highest
<1>4. CodeOn(t, line, end) = code
  BY Zenon DEF CodeOn
<1> HIDE DEF end, code
<1>5. LineEnds(t, n, line, end)
  BY <1>2, <1>3, <1>4, Zenon DEF LineEnds
<1> QED
  BY <1>2, <1>5, Zenon

\* Every byte of code is in the range of its line, and no range has two lines.
LEMMA MeaningfulRight ==
  ASSUME NEW t, NEW n \in Nat, Len(t) = n, DOMAIN t = 1..n
  PROVE  /\ \A i \in 1..n : ~Language!Space(t[i]) =>
              \E r \in Language!MeaningfulRanges(t) : r.start < i /\ i <= r.end
         /\ \A r \in Language!MeaningfulRanges(t), i \in 1..n :
              r.start < i /\ i <= r.end => t[i] # "\n"
<1>1. /\ Language!LineStarts(t) = {0} \cup {i \in 1..n : t[i] = "\n"}
      /\ Language!LineStarts(t) \subseteq 0..n
  <2>1. Language!LineStarts(t) = {0} \cup {i \in 1..n : t[i] = "\n"}
    BY Zenon DEF Language!LineStarts
  <2> QED
    BY <2>1
<1>2. Language!MeaningfulRanges(t)
        = UNION {Language!MeaningfulRange(t, line) : line \in Language!LineStarts(t)}
  BY Zenon DEF Language!MeaningfulRanges
<1>3. ASSUME NEW i \in 1..n, ~Language!Space(t[i])
      PROVE  \E r \in Language!MeaningfulRanges(t) : r.start < i /\ i <= r.end
  <2> DEFINE S == {0} \cup {l \in 1..(i - 1) : t[l] = "\n"}
  <2> DEFINE line == Core!Highest(S)
  <2>1. S \in SUBSET Nat /\ S # {} /\ (\A y \in S : y <= i - 1) /\ i - 1 \in Nat
    OBVIOUS
  <2>2. line \in S /\ \A y \in S : y <= line
    BY <2>1, HighestIs
  <2> HIDE DEF line
  <2>3. line \in 0..(i - 1) /\ line \in 0..n /\ line \in Language!LineStarts(t)
    BY <1>1, <2>2
  <2>0. PICK e \in line..n : LineEnds(t, n, line, e)
    BY <2>3, LineRangeIs, Zenon
  <2> DEFINE code == {k \in (line + 1)..e : ~Language!Space(t[k])}
  <2>4. /\ e = n \/ t[e + 1] = "\n"
        /\ Language!MeaningfulRange(t, line) =
             IF code = {} THEN {}
             ELSE {[start |-> Core!Lowest(code) - 1, end |-> Core!Highest(code)]}
    BY <2>0, Zenon DEF LineEnds, CodeOn
  <2>5. i <= e
    <3>1. SUFFICES ASSUME e < i PROVE FALSE
      BY <2>3
    <3>2. e # n /\ e + 1 \in 1..i /\ ~(e + 1 <= line) /\ e + 1 \in Nat
      BY <2>3, <3>1
    <3>3. t[e + 1] = "\n"
      BY <2>4, <3>2, Zenon
    <3>4. e + 1 # i
      BY <1>3, <3>3, SpacesAre, Zenon
    <3>5. e + 1 \in 1..(i - 1)
      BY <3>2, <3>4
    <3>6. e + 1 \in S
      BY <3>3, <3>5
    <3> QED
      BY <2>2, <3>2, <3>6, Zenon
  <2>6. i \in code /\ code \in SUBSET Nat /\ (\A y \in code : y <= e) /\ e \in Nat
    BY <1>3, <2>3, <2>5
  <2> HIDE DEF code
  <2>7. /\ Core!Lowest(code) \in Nat /\ Core!Lowest(code) <= i
        /\ Core!Highest(code) \in Nat /\ i <= Core!Highest(code)
    <3>1. code # {}
      BY <2>6, Zenon
    <3> QED
      BY <2>6, <3>1, LowestIs, HighestIs
  <2> DEFINE r == [start |-> Core!Lowest(code) - 1, end |-> Core!Highest(code)]
  <2>8. r \in Language!MeaningfulRange(t, line)
    <3>1. Language!MeaningfulRange(t, line) = {r}
      BY <2>4, <2>6, Zenon DEF code
    <3> QED
      BY <3>1
  <2>9. r.start < i /\ i <= r.end
    BY <2>7
  <2>10. r \in Language!MeaningfulRanges(t)
    BY <1>2, <2>3, <2>8
  <2> HIDE DEF r
  <2> QED
    BY <2>9, <2>10, Zenon
<1>4. ASSUME NEW r \in Language!MeaningfulRanges(t), NEW i \in 1..n, r.start < i, i <= r.end
      PROVE  t[i] # "\n"
  <2>1. PICK line \in Language!LineStarts(t) : r \in Language!MeaningfulRange(t, line)
    BY <1>2
  <2>2. line \in 0..n
    BY <1>1, <2>1
  <2>3. PICK e \in line..n : LineEnds(t, n, line, e)
    BY <2>2, LineRangeIs, Zenon
  <2> DEFINE code == {k \in (line + 1)..e : ~Language!Space(t[k])}
  <2>4. Language!MeaningfulRange(t, line) =
          IF code = {} THEN {}
          ELSE {[start |-> Core!Lowest(code) - 1, end |-> Core!Highest(code)]}
    BY <2>3, Zenon DEF LineEnds, CodeOn
  <2>5. code \in SUBSET Nat /\ (\A y \in code : y \in (line + 1)..e) /\ e \in Nat /\ line \in Nat
    BY <2>2
  <2>6. \A y \in code : y <= e
    BY <2>5
  <2> HIDE DEF code
  <2>7. code # {}
    BY <2>1, <2>4
  <2>8. r = [start |-> Core!Lowest(code) - 1, end |-> Core!Highest(code)]
    BY <2>1, <2>4, <2>7
  <2>9. r.start = Core!Lowest(code) - 1 /\ r.end = Core!Highest(code)
    BY <2>8
  <2>10. Core!Lowest(code) \in (line + 1)..e /\ Core!Highest(code) \in (line + 1)..e
    BY <2>5, <2>6, <2>7, LowestIs, HighestIs
  <2>11. i \in (line + 1)..e
    BY <1>4, <2>5, <2>9, <2>10
  <2> QED
    BY <2>3, <2>11, Zenon DEF LineEnds
<1> QED
  BY <1>3, <1>4, Zenon

\* What the invariant says of the cleaned source in the end.
LEMMA CleanedRight ==
  ASSUME LanguageInv
  PROVE  Language!CleanedTrue
<1> SUFFICES ASSUME Language!Done PROVE Language!CleanedTrue
  BY Zenon DEF Language!CleanedTrue
<1>1. PICK g : CopiedAll(g)
  <2>1. round = Len(removals) + 2
    BY Zenon DEF Language!Done
  <2> QED
    BY <2>1, Zenon DEF LanguageInv, Content, CopiedAll
<1>2. /\ Len(original) \in Nat /\ DOMAIN cleaned = 1..Len(cleaned) /\ Len(cleaned) \in Nat
      /\ dense \in Seq(Nat) /\ Rising(dense)
      /\ \A i \in 1..Len(cleaned) :
           /\ i \in 1..Len(dense) /\ dense[i] = g[i] /\ dense[i] \in Nat
           /\ ByteFrom(cleaned, g, i, 0, Len(original)) /\ Parted(cleaned, g, i)
  BY <1>1, CopiedAllIs, Zenon
<1>3. ASSUME NEW o \in 0..(Len(original) - 1)
      PROVE  /\ ~Language!Removed(o) \/ Language!At(o) = "\n" =>
                  Language!Cardinality({i \in DOMAIN cleaned :
                                 dense[i] = o /\ cleaned[i] = Language!At(o)}) = 1
             /\ \A end \in (o + 1)..Len(original), i \in DOMAIN cleaned :
                  o <= dense[i] /\ dense[i] < end <=>
                    \E scope \in Language!Remapped(o, end) : scope.start < i /\ i <= scope.end
  BY <1>1, KeptOnce, ScopeKept, LanguageCounts, Zenon
<1>4. ASSUME NEW i \in DOMAIN cleaned
      PROVE  /\ i > 1 => dense[i - 1] <= dense[i]
             /\ Language!Removed(dense[i]) => Language!Space(cleaned[i])
             /\ i > 1 /\ ~Language!Space(cleaned[i]) /\ ~Language!Space(cleaned[i - 1]) =>
                  dense[i] = dense[i - 1] + 1
  <2>1. i \in 1..Len(cleaned)
    BY <1>2, Zenon
  <2>2. ASSUME i > 1
        PROVE  dense[i - 1] = g[i - 1] /\ dense[i - 1] <= dense[i]
    <3>1. i - 1 \in 1..Len(cleaned) /\ i - 1 < i
      BY <1>2, <2>1, <2>2
    <3>2. dense[i - 1] < dense[i]
      BY <1>2, <2>1, <3>1, Zenon DEF Rising
    <3>3. dense[i - 1] = g[i - 1] /\ dense[i - 1] \in Nat /\ dense[i] \in Nat
      BY <1>2, <2>1, <3>1, Zenon
    <3> QED
      BY <3>2, <3>3
  <2>3. /\ dense[i] = g[i] /\ ByteFrom(cleaned, g, i, 0, Len(original)) /\ Parted(cleaned, g, i)
    BY <1>2, <2>1, Zenon
  <2> QED
    BY <2>2, <2>3, Zenon DEF ByteFrom, Parted
<1>5. Language!Cardinality({i \in DOMAIN cleaned : cleaned[i] = "\n"})
        = Language!Cardinality({i \in DOMAIN original : original[i] = "\n"})
  BY <1>1, LinesSame, LanguageCounts, Zenon
<1>6. /\ \A i \in DOMAIN cleaned : ~Language!Space(cleaned[i]) =>
           \E r \in Language!MeaningfulRanges(cleaned) : r.start < i /\ i <= r.end
      /\ \A r \in Language!MeaningfulRanges(cleaned), i \in DOMAIN cleaned :
           r.start < i /\ i <= r.end => cleaned[i] # "\n"
  BY <1>2, MeaningfulRight, Zenon
<1> QED
  BY <1>3, <1>4, <1>5, <1>6, Zenon DEF Language!CleanedTrue

\* The boundaries, the spans and the bytes that are copied stay true, whatever
\* the source and its ranges (lang.cc:905-953).
LEMMA LanguageInvariance ==
  MCSpec => []LanguageAlways
<1>1. MCInit => LanguageAlways
  BY LanguageStart DEF MCInit, LanguageAlways
<1>2. MCNext \/ UNCHANGED all =>
        group' = group /\ (group = "preprocess" => Language!RemoveRanges \/ UNCHANGED preprocessVars)
  BY DEF MCNext, all
<1>3. ASSUME LanguageInv, Language!RemoveRanges \/ UNCHANGED preprocessVars
      PROVE  LanguageInv'
  BY <1>3, LanguageStep, LanguageStutter
<1>4. LanguageAlways /\ [MCNext]_all => LanguageAlways'
  BY <1>2, <1>3 DEF LanguageAlways
<1> QED
  BY <1>1, <1>4, PTL DEF MCSpec

\* Whatever the source, its comments and its docstrings: no offset is refused,
\* and the offsets are true in both directions (offset_map.h:47-151); the
\* cleaned source has every byte outside of the removed ranges once, in order,
\* parted words still parted, and as many lines; scopes keep the bytes they
\* had, and each line its code (lang.cc:905-1062).
THEOREM AlwaysPreparedTrue == MCSpec => []PreparedTrue
<1>1. ASSUME LanguageInv PROVE Language!PreparedTrue
  <2>1. Language!CleanedTrue
    BY <1>1, CleanedRight
  <2>2. Language!OffsetsTrue
    <3>1. Stands(map, dense) /\ Rising(dense) /\ refused = FALSE /\ original \in Seq(Language!Bytes)
      BY <1>1, Zenon DEF LanguageInv, Content, OriginalInv
    <3>2. Len(original) \in Nat
      BY <3>1, LenProperties
    <3> QED
      BY <3>1, <3>2, OffsetsRight
  <2> QED
    BY <2>1, <2>2 DEF Language!PreparedTrue
<1>2. LanguageAlways => PreparedTrue
  BY <1>1 DEF LanguageAlways, PreparedTrue
<1> QED
  BY <1>2, LanguageInvariance, PTL
=============================================================================

------------------------------ MODULE ReadsProofs ------------------------------
(***************************************************************************)
(* Theorems of Reads.                                                      *)
(***************************************************************************)
EXTENDS Reads, RecursiveFunctions, SequenceTheorems, FiniteSetTheorems, TLAPS

-----------------------------------------------------------------------------
(* Only.                                                                   *)

\* One round of Only.
KeepStep(s, S, X) ==
    [iv \in (1 .. Len(s)) \X Seq(X) |->
        IF s[iv[1]] \in S THEN Append(iv[2], s[iv[1]]) ELSE iv[2]]

\* Only(s, S) is where the unfolding of its definition ends.
LEMMA OnlyUnfolds ==
    ASSUME NEW X, NEW S, NEW s \in Seq(X)
    PROVE  \E f \in [0 .. Len(s) -> Seq(X)] :
              /\ Unfolds(f, Len(s), << >>, KeepStep(s, S, X))
              /\ Only(s, S) = f[Len(s)]
  <1> DEFINE n == Len(s)
             body(f) == [i \in 0 .. Len(s) |->
                            IF i = 0 THEN << >>
                            ELSE IF s[i] \in S THEN Append(f[i - 1], s[i]) ELSE f[i - 1]]
             h == CHOOSE f : f = body(f)
  <1>1. Only(s, S) = h[Len(s)]
    BY DEF Only
  <1>2. n \in Nat /\ << >> \in Seq(X)
    OBVIOUS
  <1>3. KeepStep(s, S, X) \in [(1 .. n) \X Seq(X) -> Seq(X)]
    BY DEF KeepStep
  <1>4. PICK f \in [0 .. n -> Seq(X)] : Unfolds(f, n, << >>, KeepStep(s, S, X))
    BY <1>2, <1>3, RecursionExists
  <1>5. ASSUME NEW i \in 1 .. n
        PROVE  f[i] = IF s[i] \in S THEN Append(f[i - 1], s[i]) ELSE f[i - 1]
    <2>1. i \in 0 .. n /\ i # 0 /\ i - 1 \in 0 .. n
      OBVIOUS
    <2>2. f[i] = KeepStep(s, S, X)[<<i, f[i - 1]>>]
      BY <1>4, <2>1 DEF Unfolds
    <2>3. <<i, f[i - 1]>> \in (1 .. Len(s)) \X Seq(X)
      BY <2>1
    <2> QED
      BY <2>2, <2>3 DEF KeepStep
  <1>6. f = body(f)
    <2>1. f[0] = << >>
      BY <1>4 DEF Unfolds
    <2>2. ASSUME NEW i \in 0 .. n
          PROVE  f[i] = body(f)[i]
      <3>1. CASE i = 0
        BY <2>1, <3>1
      <3>2. CASE i # 0
        <4>1. i \in 1 .. n
          BY <3>2
        <4> QED
          BY <1>5, <3>2, <4>1
      <3> QED
        BY <3>1, <3>2
    <2>3. DOMAIN body(f) = 0 .. n /\ body(f) = [i \in 0 .. n |-> body(f)[i]]
      OBVIOUS
    <2>4. f = [i \in 0 .. n |-> f[i]]
      BY <1>4
    <2> HIDE DEF body
    <2> QED
      BY <2>2, <2>3, <2>4
  <1>7. h = body(h)
    <2> HIDE DEF body
    <2> QED
      BY <1>6
  <1>8. \A k \in 0 .. n : h[k] = f[k]
    <2> DEFINE T == {k \in 0 .. n : h[k] = f[k]}
    <2>1. 0 \in T
      <3>1. 0 \in 0 .. n
        BY <1>2
      <3>2. body(h)[0] = << >> /\ body(f)[0] = << >>
        BY <3>1
      <3> HIDE DEF body, h
      <3> QED
        BY <1>6, <1>7, <3>1, <3>2
    <2>2. ASSUME NEW k \in 0 .. n - 1, k \in T
          PROVE  k + 1 \in T
      <3>1. k + 1 \in 0 .. n /\ k + 1 # 0 /\ k + 1 - 1 = k
        OBVIOUS
      <3>2. body(h)[k + 1] = body(f)[k + 1]
        BY <2>2, <3>1
      <3> QED
        BY <1>6, <1>7, <3>1, <3>2
    <2> HIDE DEF T
    <2>3. \A k \in 0 .. n : k \in T
      BY <1>2, <2>1, <2>2, InductionUpTo
    <2> QED
      BY <2>3 DEF T
  <1>9. n \in 0 .. n
    BY <1>2
  <1> HIDE DEF h
  <1> QED
    BY <1>1, <1>4, <1>8, <1>9

\* Only(s, S), round by round.
Rounds(f, s, S, X) ==
    /\ f \in [0 .. Len(s) -> Seq(X)]
    /\ f[0] = << >> /\ Only(s, S) = f[Len(s)]
    /\ \A i \in 1 .. Len(s) :
          f[i] = IF s[i] \in S THEN Append(f[i - 1], s[i]) ELSE f[i - 1]

\* Only goes through such rounds.
LEMMA OnlyByRounds ==
    ASSUME NEW X, NEW S, NEW s \in Seq(X)
    PROVE  \E f : Rounds(f, s, S, X)
  <1>1. PICK f \in [0 .. Len(s) -> Seq(X)] :
           /\ Unfolds(f, Len(s), << >>, KeepStep(s, S, X))
           /\ Only(s, S) = f[Len(s)]
    BY OnlyUnfolds
  <1>2. Len(s) \in Nat
    OBVIOUS
  <1>3. ASSUME NEW i \in 1 .. Len(s)
        PROVE  f[i] = IF s[i] \in S THEN Append(f[i - 1], s[i]) ELSE f[i - 1]
    <2>1. i \in 0 .. Len(s) /\ i # 0 /\ i - 1 \in 0 .. Len(s)
      BY <1>2
    <2>2. f[i] = KeepStep(s, S, X)[<<i, f[i - 1]>>]
      BY <1>1, <2>1 DEF Unfolds
    <2>3. <<i, f[i - 1]>> \in (1 .. Len(s)) \X Seq(X)
      BY <2>1
    <2> QED
      BY <2>2, <2>3 DEF KeepStep
  <1>4. f[0] = << >>
    BY <1>1, <1>2 DEF Unfolds
  <1>5. Rounds(f, s, S, X)
    BY <1>1, <1>3, <1>4 DEF Rounds
  <1> QED
    BY <1>5

\* The last element is kept or not.
LEMMA OnlyLonger ==
    ASSUME NEW X, NEW S, NEW s \in Seq(X), NEW t \in Seq(X), Len(t) = Len(s) + 1,
           \A i \in 1 .. Len(s) : t[i] = s[i]
    PROVE  Only(t, S) = IF t[Len(t)] \in S THEN Append(Only(s, S), t[Len(t)])
                        ELSE Only(s, S)
  <1>1. PICK f : Rounds(f, s, S, X)
    BY OnlyByRounds
  <1>2. PICK g : Rounds(g, t, S, X)
    BY OnlyByRounds
  <1> DEFINE n == Len(s)
  <1>3. n \in Nat /\ Len(t) = n + 1
    OBVIOUS
  <1>4. ASSUME NEW i \in 1 .. n
        PROVE  f[i] = IF s[i] \in S THEN Append(f[i - 1], s[i]) ELSE f[i - 1]
    BY <1>1 DEF Rounds
  <1>5. ASSUME NEW i \in 1 .. n + 1
        PROVE  g[i] = IF t[i] \in S THEN Append(g[i - 1], t[i]) ELSE g[i - 1]
    BY <1>2, <1>3 DEF Rounds
  <1>6. f[0] = << >> /\ g[0] = << >>
    BY <1>1, <1>2 DEF Rounds
  <1>7. \A k \in 0 .. n : f[k] = g[k]
    <2> DEFINE T == {k \in 0 .. n : f[k] = g[k]}
    <2>1. 0 \in T
      BY <1>6
    <2>2. ASSUME NEW k \in 0 .. n - 1, k \in T
          PROVE  k + 1 \in T
      <3>1. k + 1 \in 1 .. n /\ k + 1 \in 1 .. n + 1 /\ k + 1 - 1 = k /\ k + 1 \in 0 .. n
        OBVIOUS
      <3>2. t[k + 1] = s[k + 1] /\ f[k] = g[k]
        BY <2>2, <3>1
      <3>3. f[k + 1] = IF s[k + 1] \in S THEN Append(f[k], s[k + 1]) ELSE f[k]
        BY <1>4, <3>1
      <3>4. g[k + 1] = IF t[k + 1] \in S THEN Append(g[k], t[k + 1]) ELSE g[k]
        BY <1>5, <3>1
      <3> QED
        BY <3>1, <3>2, <3>3, <3>4
    <2> HIDE DEF T
    <2>3. \A k \in 0 .. n : k \in T
      BY <1>3, <2>1, <2>2, InductionUpTo
    <2> QED
      BY <2>3 DEF T
  <1>8. n + 1 \in 1 .. n + 1 /\ n + 1 - 1 = n /\ n \in 0 .. n
    BY <1>3
  <1>9. g[n + 1] = IF t[n + 1] \in S THEN Append(g[n], t[n + 1]) ELSE g[n]
    BY <1>5, <1>8
  <1> QED
    BY <1>1, <1>2, <1>3, <1>7, <1>8, <1>9 DEF Rounds

\* Nothing is kept of nothing.
LEMMA OnlyOfNothing ==
    ASSUME NEW S
    PROVE  Only(<< >>, S) = << >>
  <1> DEFINE X == {}
  <1>1. << >> \in Seq(X) /\ Len(<< >>) = 0
    OBVIOUS
  <1>2. PICK f \in [0 .. Len(<< >>) -> Seq(X)] :
           /\ Unfolds(f, Len(<< >>), << >>, KeepStep(<< >>, S, X))
           /\ Only(<< >>, S) = f[Len(<< >>)]
    BY <1>1, OnlyUnfolds
  <1> QED
    BY <1>1, <1>2 DEF Unfolds

\* kept is what is left of s when the positions in S are kept: its elements are
\* those of s at the positions p[1] < p[2] < ...
Embeds(p, kept, s, n, S) ==
    /\ p \in [1 .. Len(kept) -> 1 .. n]
    /\ \A j \in 1 .. Len(kept) : kept[j] = s[p[j]] /\ s[p[j]] \in S
    /\ \A j, k \in 1 .. Len(kept) : j < k => p[j] < p[k]
    /\ \A i \in 1 .. n : s[i] \in S => \E j \in 1 .. Len(kept) : p[j] = i

\* Only keeps the elements of S, in their order.
LEMMA OnlyEmbeds ==
    ASSUME NEW X, NEW S, NEW s \in Seq(X)
    PROVE  /\ Only(s, S) \in Seq(X)
           /\ \E p : Embeds(p, Only(s, S), s, Len(s), S)
  <1>1. PICK f : Rounds(f, s, S, X)
    BY OnlyByRounds
  <1>0. /\ f \in [0 .. Len(s) -> Seq(X)]
        /\ f[0] = << >> /\ Only(s, S) = f[Len(s)]
        /\ \A i \in 1 .. Len(s) :
              f[i] = IF s[i] \in S THEN Append(f[i - 1], s[i]) ELSE f[i - 1]
    BY <1>1 DEF Rounds
  <1>2. Len(s) \in Nat
    OBVIOUS
  <1> DEFINE T == {n \in 0 .. Len(s) : \E p : Embeds(p, f[n], s, n, S)}
  <1>3. 0 \in T
    <2>1. Embeds([j \in {} |-> 1], f[0], s, 0, S)
      <3>1. Len(f[0]) = 0 /\ 1 .. 0 = {}
        BY <1>0
      <3> QED
        BY <3>1 DEF Embeds
    <2> QED
      BY <1>2, <2>1
  <1>4. ASSUME NEW n \in 0 .. Len(s) - 1, n \in T
        PROVE  n + 1 \in T
    <2>1. PICK p : Embeds(p, f[n], s, n, S)
      BY <1>4
    <2>2. n \in Nat /\ n + 1 \in 1 .. Len(s) /\ n \in 0 .. Len(s) /\ n + 1 - 1 = n
      BY <1>2
    <2>3. f[n + 1] = IF s[n + 1] \in S THEN Append(f[n], s[n + 1]) ELSE f[n]
      BY <1>0, <2>2
    <2>4. f[n] \in Seq(X) /\ Len(f[n]) \in Nat /\ s[n + 1] \in X
      BY <1>0, <2>2
    <2>5. \E q : Embeds(q, f[n + 1], s, n + 1, S)
      <3>1. CASE s[n + 1] \notin S
        <4>1. f[n + 1] = f[n]
          BY <2>3, <3>1
        <4>2. Embeds(p, f[n], s, n + 1, S)
          BY <2>1, <2>2, <3>1 DEF Embeds
        <4> QED
          BY <4>1, <4>2
      <3>2. CASE s[n + 1] \in S
        <4> DEFINE m == Len(f[n])
                   q == [j \in 1 .. m + 1 |-> IF j = m + 1 THEN n + 1 ELSE p[j]]
                   kept == f[n + 1]
        <4>1. /\ m \in Nat /\ Len(kept) = m + 1 /\ kept[m + 1] = s[n + 1]
              /\ \A j \in 1 .. m : kept[j] = f[n][j]
          BY <2>3, <2>4, <3>2
        <4>2. /\ p \in [1 .. m -> 1 .. n]
              /\ \A j \in 1 .. m : f[n][j] = s[p[j]] /\ s[p[j]] \in S
              /\ \A j, k \in 1 .. m : j < k => p[j] < p[k]
              /\ \A i \in 1 .. n : s[i] \in S => \E j \in 1 .. m : p[j] = i
          BY <2>1 DEF Embeds
        <4>3. q[m + 1] = n + 1 /\ \A j \in 1 .. m : q[j] = p[j] /\ p[j] \in 1 .. n
          <5>1. m + 1 \in 1 .. m + 1 /\ \A j \in 1 .. m : j \in 1 .. m + 1 /\ j # m + 1
            <6> HIDE DEF m
            <6> QED
              BY <4>1
          <5> HIDE DEF m
          <5> QED
            BY <4>2, <5>1
        <4>4. q \in [1 .. m + 1 -> 1 .. n + 1]
          BY <2>2, <4>1, <4>2
        <4> HIDE DEF m, q, kept
        <4>5. \A j \in 1 .. m + 1 : j = m + 1 \/ j \in 1 .. m
          BY <4>1
        <4>6. \A j \in 1 .. m + 1 : kept[j] = s[q[j]] /\ s[q[j]] \in S
          BY <3>2, <4>1, <4>2, <4>3, <4>5
        <4>7. ASSUME NEW j \in 1 .. m + 1, NEW k \in 1 .. m + 1, j < k
              PROVE  q[j] < q[k]
          <5>1. j \in 1 .. m
            BY <4>1, <4>7
          <5>2. q[j] \in 1 .. n /\ q[j] = p[j]
            BY <4>3, <5>1
          <5>3. CASE k = m + 1
            BY <2>2, <4>3, <5>2, <5>3
          <5>4. CASE k \in 1 .. m
            BY <4>2, <4>3, <4>7, <5>1, <5>4
          <5> QED
            BY <4>5, <5>3, <5>4
        <4>8. ASSUME NEW i \in 1 .. n + 1, s[i] \in S
              PROVE  \E j \in 1 .. m + 1 : q[j] = i
          <5>1. CASE i = n + 1
            <6>1. m + 1 \in 1 .. m + 1
              BY <4>1
            <6> QED
              BY <4>3, <5>1, <6>1
          <5>2. CASE i # n + 1
            <6>1. i \in 1 .. n
              BY <2>2, <5>2
            <6>2. PICK j \in 1 .. m : p[j] = i
              BY <4>2, <4>8, <6>1
            <6>3. j \in 1 .. m + 1
              BY <4>1
            <6> QED
              BY <4>3, <6>2, <6>3
          <5> QED
            BY <5>1, <5>2
        <4>9. Embeds(q, kept, s, n + 1, S)
          BY <4>1, <4>4, <4>6, <4>7, <4>8 DEF Embeds
        <4> QED
          BY <4>9 DEF kept
      <3> QED
        BY <3>1, <3>2
    <2>6. n + 1 \in 0 .. Len(s)
      BY <2>2
    <2> QED
      BY <2>5, <2>6
  <1> HIDE DEF T
  <1>5. Len(s) \in T
    <2>1. \A k \in 0 .. Len(s) : k \in T
      BY <1>2, <1>3, <1>4, InductionUpTo
    <2> QED
      BY <1>2, <2>1
  <1>6. Only(s, S) \in Seq(X)
    BY <1>0, <1>2
  <1> QED
    BY <1>0, <1>5, <1>6 DEF T

\* What Only keeps, as a set; and documents it keeps are as different as before.
LEMMA OnlyElements ==
    ASSUME NEW X, NEW S, NEW s \in Seq(X)
    PROVE  /\ Only(s, S) \in Seq(X)
           /\ \A e \in Range(Only(s, S)) : e \in Range(s) /\ e \in S
           /\ \A e \in Range(s) : e \in S => e \in Range(Only(s, S))
           /\ (\A i, j \in DOMAIN s : s[i].id = s[j].id => i = j) =>
                 \A i, j \in DOMAIN Only(s, S) :
                     Only(s, S)[i].id = Only(s, S)[j].id => i = j
  <1> DEFINE kept == Only(s, S)
  <1>1. kept \in Seq(X) /\ \E p : Embeds(p, kept, s, Len(s), S)
    BY OnlyEmbeds
  <1>2. PICK p : Embeds(p, kept, s, Len(s), S)
    BY <1>1
  <1> HIDE DEF kept
  <1>3. /\ p \in [1 .. Len(kept) -> 1 .. Len(s)]
        /\ \A j \in 1 .. Len(kept) : kept[j] = s[p[j]] /\ s[p[j]] \in S
        /\ \A j, k \in 1 .. Len(kept) : j < k => p[j] < p[k]
        /\ \A i \in 1 .. Len(s) : s[i] \in S => \E j \in 1 .. Len(kept) : p[j] = i
    BY <1>2 DEF Embeds
  <1>4. /\ DOMAIN kept = 1 .. Len(kept) /\ Len(kept) \in Nat
        /\ DOMAIN s = 1 .. Len(s) /\ Len(s) \in Nat
    BY <1>1
  <1>5. \A e \in Range(kept) : e \in Range(s) /\ e \in S
    BY <1>3, <1>4 DEF Range
  <1>6. \A e \in Range(s) : e \in S => e \in Range(kept)
    BY <1>3, <1>4 DEF Range
  <1>7. ASSUME \A i, j \in DOMAIN s : s[i].id = s[j].id => i = j,
               NEW i \in DOMAIN kept, NEW j \in DOMAIN kept, kept[i].id = kept[j].id
        PROVE  i = j
    <2>1. p[i] \in DOMAIN s /\ p[j] \in DOMAIN s /\ s[p[i]].id = s[p[j]].id
      BY <1>3, <1>4, <1>7
    <2>2. p[i] = p[j]
      BY <1>7, <2>1
    <2>3. i \in 1 .. Len(kept) /\ j \in 1 .. Len(kept) /\ p[i] \in Nat /\ p[j] \in Nat
      BY <1>3, <1>4
    <2>4. ~(i < j) /\ ~(j < i)
      BY <1>3, <2>2, <2>3
    <2> QED
      BY <1>4, <2>3, <2>4
  <1> QED
    BY <1>1, <1>5, <1>6, <1>7 DEF kept

\* Only keeps all of a sequence over S.
LEMMA OnlyAll ==
    ASSUME NEW X, NEW S, NEW s \in Seq(X), \A i \in DOMAIN s : s[i] \in S
    PROVE  Only(s, S) = s
  <1>1. PICK f : Rounds(f, s, S, X)
    BY OnlyByRounds
  <1>2. /\ f \in [0 .. Len(s) -> Seq(X)]
        /\ f[0] = << >> /\ Only(s, S) = f[Len(s)]
        /\ \A i \in 1 .. Len(s) :
              f[i] = IF s[i] \in S THEN Append(f[i - 1], s[i]) ELSE f[i - 1]
    BY <1>1 DEF Rounds
  <1>3. Len(s) \in Nat /\ DOMAIN s = 1 .. Len(s)
    OBVIOUS
  <1> DEFINE T == {n \in 0 .. Len(s) : Len(f[n]) = n /\ \A i \in 1 .. n : f[n][i] = s[i]}
  <1>4. 0 \in T
    BY <1>2, <1>3
  <1>5. ASSUME NEW n \in 0 .. Len(s) - 1, n \in T
        PROVE  n + 1 \in T
    <2>1. n \in Nat /\ n + 1 \in 1 .. Len(s) /\ n \in 0 .. Len(s) /\ n + 1 - 1 = n
      BY <1>3
    <2>2. f[n + 1] = Append(f[n], s[n + 1])
      <3>1. s[n + 1] \in S
        BY <1>3, <2>1
      <3>2. f[n + 1] = IF s[n + 1] \in S THEN Append(f[n + 1 - 1], s[n + 1]) ELSE f[n + 1 - 1]
        BY <1>2, <2>1
      <3> QED
        BY <2>1, <3>1, <3>2
    <2>3. f[n] \in Seq(X) /\ Len(f[n]) = n /\ \A i \in 1 .. n : f[n][i] = s[i]
      BY <1>2, <1>5, <2>1
    <2>4. Len(f[n + 1]) = n + 1 /\ f[n + 1][n + 1] = s[n + 1]
          /\ \A i \in 1 .. n : f[n + 1][i] = f[n][i]
      BY <2>1, <2>2, <2>3
    <2>5. \A i \in 1 .. n + 1 : i = n + 1 \/ i \in 1 .. n
      BY <2>1
    <2>6. \A i \in 1 .. n + 1 : f[n + 1][i] = s[i]
      BY <2>3, <2>4, <2>5
    <2> QED
      BY <2>1, <2>4, <2>6
  <1> HIDE DEF T
  <1>6. \A k \in 0 .. Len(s) : k \in T
    BY <1>3, <1>4, <1>5, InductionUpTo
  <1>7. Len(f[Len(s)]) = Len(s) /\ \A i \in 1 .. Len(s) : f[Len(s)][i] = s[i]
    BY <1>3, <1>6 DEF T
  <1>8. f[Len(s)] \in Seq(X)
    BY <1>2, <1>3
  <1>9. f[Len(s)] = s
    BY <1>7, <1>8, SeqEqual
  <1> QED
    BY <1>2, <1>9

-----------------------------------------------------------------------------
(* Total.                                                                  *)

\* Total(es), round by round.
SumRounds(f, es) ==
    /\ f \in [0 .. Len(es) -> Nat]
    /\ f[0] = 0 /\ Total(es) = f[Len(es)]
    /\ \A i \in 1 .. Len(es) : f[i] = f[i - 1] + es[i].bytes

\* Total goes through such rounds.
LEMMA TotalByRounds ==
    ASSUME NEW E, \A e \in E : e.bytes \in Nat, NEW es \in Seq(E)
    PROVE  \E f : SumRounds(f, es)
  <1> DEFINE n == Len(es)
             step == [iv \in (1 .. Len(es)) \X Nat |-> iv[2] + es[iv[1]].bytes]
             body(f) == [i \in 0 .. Len(es) |->
                            IF i = 0 THEN 0 ELSE f[i - 1] + es[i].bytes]
             h == CHOOSE f : f = body(f)
  <1>1. Total(es) = h[Len(es)]
    BY DEF Total
  <1>2. n \in Nat /\ 0 \in Nat /\ \A i \in 1 .. n : es[i].bytes \in Nat
    OBVIOUS
  <1>3. step \in [(1 .. n) \X Nat -> Nat]
    BY <1>2
  <1>4. PICK f \in [0 .. n -> Nat] : Unfolds(f, n, 0, step)
    <2> HIDE DEF step, n
    <2> QED
      BY <1>2, <1>3, RecursionExists
  <1>5. ASSUME NEW i \in 1 .. n
        PROVE  f[i] = f[i - 1] + es[i].bytes
    <2>1. i \in 0 .. n /\ i # 0 /\ i - 1 \in 0 .. n
      OBVIOUS
    <2>2. f[i] = step[<<i, f[i - 1]>>]
      <3> HIDE DEF step
      <3> QED
        BY <1>4, <2>1 DEF Unfolds
    <2>3. <<i, f[i - 1]>> \in (1 .. Len(es)) \X Nat
      BY <2>1
    <2> QED
      BY <2>2, <2>3
  <1>6. f[0] = 0
    <2> HIDE DEF step
    <2> QED
      BY <1>4, <1>2 DEF Unfolds
  <1>7. f = body(f)
    <2>1. ASSUME NEW i \in 0 .. n
          PROVE  f[i] = body(f)[i]
      <3>1. CASE i = 0
        BY <1>6, <3>1
      <3>2. CASE i # 0
        <4>1. i \in 1 .. n
          BY <3>2
        <4> QED
          BY <1>5, <3>2, <4>1
      <3> QED
        BY <3>1, <3>2
    <2>2. DOMAIN body(f) = 0 .. n /\ body(f) = [i \in 0 .. n |-> body(f)[i]]
      OBVIOUS
    <2>3. f = [i \in 0 .. n |-> f[i]]
      BY <1>4
    <2> HIDE DEF body
    <2> QED
      BY <2>1, <2>2, <2>3
  <1>8. h = body(h)
    <2> HIDE DEF body
    <2> QED
      BY <1>7
  <1>9. \A k \in 0 .. n : h[k] = f[k]
    <2> DEFINE T == {k \in 0 .. n : h[k] = f[k]}
    <2>1. 0 \in T
      <3>1. 0 \in 0 .. n
        BY <1>2
      <3>2. body(h)[0] = 0 /\ body(f)[0] = 0
        BY <3>1
      <3> HIDE DEF body, h
      <3> QED
        BY <1>7, <1>8, <3>1, <3>2
    <2>2. ASSUME NEW k \in 0 .. n - 1, k \in T
          PROVE  k + 1 \in T
      <3>1. k + 1 \in 0 .. n /\ k + 1 # 0 /\ k + 1 - 1 = k
        OBVIOUS
      <3>2. body(h)[k + 1] = body(f)[k + 1]
        BY <2>2, <3>1
      <3> QED
        BY <1>7, <1>8, <3>1, <3>2
    <2> HIDE DEF T
    <2>3. \A k \in 0 .. n : k \in T
      BY <1>2, <2>1, <2>2, InductionUpTo
    <2> QED
      BY <2>3 DEF T
  <1>10. SumRounds(f, es)
    <2>1. n \in 0 .. n
      BY <1>2
    <2> HIDE DEF h
    <2> QED
      BY <1>1, <1>4, <1>5, <1>6, <1>9, <2>1 DEF SumRounds
  <1> QED
    BY <1>10

\* The total of a stretch of es that starts behind position a.
LEMMA TotalOfStretch ==
    ASSUME NEW E, \A e \in E : e.bytes \in Nat, NEW es \in Seq(E), NEW fs \in Seq(E),
           NEW f, SumRounds(f, es), NEW a \in Nat, a + Len(fs) <= Len(es),
           \A i \in 1 .. Len(fs) : fs[i] = es[a + i]
    PROVE  Total(fs) = f[a + Len(fs)] - f[a]
  <1>1. PICK g : SumRounds(g, fs)
    BY TotalByRounds
  <1>2. /\ f \in [0 .. Len(es) -> Nat]
        /\ \A i \in 1 .. Len(es) : f[i] = f[i - 1] + es[i].bytes
    BY DEF SumRounds
  <1>3. /\ g \in [0 .. Len(fs) -> Nat]
        /\ g[0] = 0 /\ Total(fs) = g[Len(fs)]
        /\ \A i \in 1 .. Len(fs) : g[i] = g[i - 1] + fs[i].bytes
    BY <1>1 DEF SumRounds
  <1>4. Len(es) \in Nat /\ Len(fs) \in Nat
    OBVIOUS
  <1> DEFINE T == {k \in 0 .. Len(fs) : g[k] = f[a + k] - f[a]}
  <1>5. 0 \in T
    <2>1. a \in 0 .. Len(es) /\ a + 0 = a
      BY <1>4
    <2>2. f[a] \in Nat
      BY <1>2, <2>1
    <2> QED
      BY <1>3, <1>4, <2>1, <2>2
  <1>6. ASSUME NEW k \in 0 .. Len(fs) - 1, k \in T
        PROVE  k + 1 \in T
    <2>1. /\ k + 1 \in 1 .. Len(fs) /\ k \in 0 .. Len(fs) /\ k + 1 - 1 = k
          /\ k + 1 \in 0 .. Len(fs)
          /\ a + k + 1 \in 1 .. Len(es) /\ a + k + 1 - 1 = a + k
          /\ a + (k + 1) = a + k + 1 /\ a \in 0 .. Len(es) /\ a + k \in 0 .. Len(es)
          /\ a + k + 1 \in 0 .. Len(es)
      BY <1>4
    <2>2. g[k + 1] = g[k] + fs[k + 1].bytes
      BY <1>3, <2>1
    <2>3. f[a + k + 1] = f[a + k] + es[a + k + 1].bytes
      BY <1>2, <2>1, SMTT(30)
    <2>4. fs[k + 1] = es[a + k + 1]
      BY <2>1
    <2>5. g[k] = f[a + k] - f[a]
      BY <1>6
    <2>6. f[a] \in Nat /\ f[a + k] \in Nat /\ es[a + k + 1].bytes \in Nat
      <3>1. es[a + k + 1] \in E
        BY <2>1
      <3>2. f[a] \in Nat /\ f[a + k] \in Nat
        BY <1>2, <2>1
      <3> QED
        BY <3>1, <3>2
    <2>7. g[k + 1] = f[a + k + 1] - f[a]
      BY <2>2, <2>3, <2>4, <2>5, <2>6, SMTT(30)
    <2> QED
      BY <2>1, <2>7
  <1> HIDE DEF T
  <1>7. Len(fs) \in T
    <2>1. \A k \in 0 .. Len(fs) : k \in T
      BY <1>4, <1>5, <1>6, InductionUpTo
    <2> QED
      BY <1>4, <2>1
  <1> QED
    BY <1>3, <1>7 DEF T

\* Nothing takes no bytes.
LEMMA TotalOfNothing == Total(<< >>) = 0
  <1> DEFINE E == {[bytes |-> 0]}
  <1>1. << >> \in Seq(E) /\ \A e \in E : e.bytes \in Nat
    OBVIOUS
  <1>2. PICK f : SumRounds(f, << >>)
    <2> HIDE DEF E
    <2> QED
      BY <1>1, TotalByRounds
  <1> QED
    BY <1>2 DEF SumRounds

\* A total is a number.
LEMMA TotalNat ==
    ASSUME NEW E, \A e \in E : e.bytes \in Nat, NEW es \in Seq(E)
    PROVE  Total(es) \in Nat
  <1>1. PICK f : SumRounds(f, es)
    BY TotalByRounds
  <1>2. Len(es) \in 0 .. Len(es)
    OBVIOUS
  <1> QED
    BY <1>1, <1>2 DEF SumRounds

\* One entry more takes its bytes more.
LEMMA TotalOfAppend ==
    ASSUME NEW E, \A e \in E : e.bytes \in Nat, NEW es \in Seq(E), NEW e \in E
    PROVE  Total(Append(es, e)) = Total(es) + e.bytes
  <1> DEFINE fs == Append(es, e)
             n == Len(es)
  <1>1. fs \in Seq(E) /\ n \in Nat /\ Len(fs) = n + 1 /\ fs[n + 1] = e
        /\ \A i \in 1 .. n : es[i] = fs[i]
    OBVIOUS
  <1> HIDE DEF fs
  <1>2. PICK f : SumRounds(f, fs)
    BY <1>1, TotalByRounds
  <1>3. /\ f \in [0 .. n + 1 -> Nat] /\ f[0] = 0 /\ Total(fs) = f[n + 1]
        /\ \A i \in 1 .. n + 1 : f[i] = f[i - 1] + fs[i].bytes
    BY <1>1, <1>2 DEF SumRounds
  <1>4. 0 \in Nat /\ 0 + n <= Len(fs) /\ \A i \in 1 .. n : es[i] = fs[0 + i]
    BY <1>1
  <1>5. Total(es) = f[0 + n] - f[0]
    BY <1>1, <1>2, <1>4, TotalOfStretch
  <1>6. n + 1 \in 1 .. n + 1 /\ n + 1 - 1 = n /\ 0 + n = n /\ n \in 0 .. n + 1
    BY <1>1
  <1>7. f[n + 1] = f[n] + e.bytes /\ f[n] \in Nat
    BY <1>1, <1>3, <1>6
  <1>8. Total(es) = f[n]
    BY <1>3, <1>5, <1>6, <1>7
  <1> QED
    BY <1>3, <1>7, <1>8 DEF fs

\* What is left when the first n entries go.
LEMMA TotalOfParts ==
    ASSUME NEW E, \A e \in E : e.bytes \in Nat, NEW es \in Seq(E), NEW n \in 0 .. Len(es)
    PROVE  /\ SubSeq(es, 1, n) \in Seq(E) /\ SubSeq(es, n + 1, Len(es)) \in Seq(E)
           /\ Total(SubSeq(es, n + 1, Len(es))) = Total(es) - Total(SubSeq(es, 1, n))
  <1> DEFINE l == Len(es)
             front == SubSeq(es, 1, n)
             back == SubSeq(es, n + 1, Len(es))
  <1>1. l \in Nat /\ n \in Nat /\ n <= l
    OBVIOUS
  <1>2. /\ front \in Seq(E) /\ Len(front) = n /\ \A i \in 1 .. n : front[i] = es[i]
    BY <1>1
  <1>3. /\ back \in Seq(E) /\ Len(back) = l - n
        /\ \A i \in 1 .. l - n : back[i] = es[n + i]
    BY <1>1
  <1> HIDE DEF front, back
  <1>4. PICK f : SumRounds(f, es)
    BY TotalByRounds
  <1>5. /\ f \in [0 .. l -> Nat] /\ f[0] = 0 /\ Total(es) = f[l]
    BY <1>4 DEF SumRounds
  <1> HIDE DEF l
  <1>6. Len(es) = l
    BY DEF l
  <1>7. Total(front) = f[0 + Len(front)] - f[0]
    <2>1. 0 \in Nat
      OBVIOUS
    <2>2. 0 + Len(front) <= Len(es)
      BY <1>1, <1>2, <1>6
    <2>3. \A i \in 1 .. Len(front) : front[i] = es[0 + i]
      BY <1>1, <1>2
    <2>4. front \in Seq(E)
      BY <1>2
    <2> QED
      BY <1>4, <2>1, <2>2, <2>3, <2>4, TotalOfStretch
  <1>8. Total(back) = f[n + Len(back)] - f[n]
    <2>1. n + Len(back) <= Len(es) /\ \A i \in 1 .. Len(back) : back[i] = es[n + i]
      BY <1>1, <1>3, <1>6
    <2> QED
      BY <1>1, <1>3, <1>4, <2>1, TotalOfStretch
  <1>9. 0 + Len(front) = n /\ n + Len(back) = l /\ n \in 0 .. l /\ l \in 0 .. l
    BY <1>1, <1>2, <1>3
  <1>10. f[n] \in Nat /\ f[l] \in Nat
    BY <1>5, <1>9
  <1>11. Total(front) = f[n] /\ Total(back) = f[l] - f[n]
    BY <1>5, <1>7, <1>8, <1>9, <1>10
  <1>12. Total(back) = Total(es) - Total(front)
    BY <1>5, <1>10, <1>11
  <1> QED
    BY <1>2, <1>3, <1>12 DEF front, back, l

\* What is left when one entry goes.
LEMMA TotalWithoutOne ==
    ASSUME NEW E, \A e \in E : e.bytes \in Nat, NEW es \in Seq(E), NEW k \in DOMAIN es,
           NEW S, \A i \in DOMAIN es : es[i] \in S <=> i # k
    PROVE  Total(Only(es, S)) = Total(es) - es[k].bytes
  <1>1. PICK f : SumRounds(f, es)
    BY TotalByRounds
  <1>2. PICK g : Rounds(g, es, S, E)
    BY OnlyByRounds
  <1>3. /\ f \in [0 .. Len(es) -> Nat] /\ f[0] = 0 /\ Total(es) = f[Len(es)]
        /\ \A i \in 1 .. Len(es) : f[i] = f[i - 1] + es[i].bytes
    BY <1>1 DEF SumRounds
  <1>4. /\ g \in [0 .. Len(es) -> Seq(E)] /\ g[0] = << >> /\ Only(es, S) = g[Len(es)]
        /\ \A i \in 1 .. Len(es) :
              g[i] = IF es[i] \in S THEN Append(g[i - 1], es[i]) ELSE g[i - 1]
    BY <1>2 DEF Rounds
  <1>5. Len(es) \in Nat /\ DOMAIN es = 1 .. Len(es) /\ k \in Nat /\ es[k].bytes \in Nat
    OBVIOUS
  <1> DEFINE less(n) == IF k <= n THEN es[k].bytes ELSE 0
             T == {n \in 0 .. Len(es) : Total(g[n]) = f[n] - less(n)}
  <1>6. 0 \in T
    BY <1>3, <1>4, <1>5, TotalOfNothing
  <1>7. ASSUME NEW n \in 0 .. Len(es) - 1, n \in T
        PROVE  n + 1 \in T
    <2>1. n \in Nat /\ n + 1 \in 1 .. Len(es) /\ n \in 0 .. Len(es) /\ n + 1 - 1 = n
          /\ n + 1 \in 0 .. Len(es)
      BY <1>5
    <2>2. es[n + 1] \in E /\ g[n] \in Seq(E) /\ f[n] \in Nat
      <3>1. es[n + 1] \in E
        BY <2>1
      <3>2. g[n] \in Seq(E)
        BY <1>4, <2>1
      <3>3. f[n] \in Nat
        BY <1>3, <2>1
      <3> QED
        BY <3>1, <3>2, <3>3
    <2>3. f[n + 1] = f[n] + es[n + 1].bytes /\ es[n + 1].bytes \in Nat
      BY <1>3, <2>1, <2>2
    <2>4. g[n + 1] = IF es[n + 1] \in S THEN Append(g[n], es[n + 1]) ELSE g[n]
      BY <1>4, <2>1
    <2>5. Total(g[n]) = f[n] - less(n)
      BY <1>7
    <2>6. Total(g[n + 1]) = f[n + 1] - less(n + 1)
      <3>1. CASE n + 1 = k
        <4>1. es[n + 1] \notin S
          BY <1>5, <2>1, <3>1
        <4>2. less(n) = 0 /\ less(n + 1) = es[n + 1].bytes
          BY <2>1, <3>1
        <4> QED
          BY <2>2, <2>3, <2>4, <2>5, <4>1, <4>2
      <3>2. CASE n + 1 # k
        <4>1. es[n + 1] \in S
          BY <1>5, <2>1, <3>2
        <4>2. less(n + 1) = less(n) /\ less(n) \in Nat
          BY <1>5, <2>1, <3>2
        <4>3. Total(g[n + 1]) = Total(g[n]) + es[n + 1].bytes
          BY <2>2, <2>4, <4>1, TotalOfAppend
        <4> HIDE DEF less
        <4> QED
          BY <2>2, <2>3, <2>5, <4>2, <4>3
      <3> QED
        BY <3>1, <3>2
    <2> QED
      BY <2>1, <2>6
  <1> HIDE DEF T
  <1>8. Len(es) \in T
    <2>1. \A i \in 0 .. Len(es) : i \in T
      BY <1>5, <1>6, <1>7, InductionUpTo
    <2> QED
      BY <1>5, <2>1
  <1>9. Total(g[Len(es)]) = f[Len(es)] - less(Len(es))
    BY <1>8 DEF T
  <1>10. less(Len(es)) = es[k].bytes
    BY <1>5
  <1> QED
    BY <1>3, <1>4, <1>9, <1>10

-----------------------------------------------------------------------------
(* One cache.                                                              *)

\* The entries a cache may hold.
Held == CacheEntries(Offsets)

\* A cache that may be over its budget for the moment.
Consistent(c) ==
    /\ c \in Caches(Offsets) /\ c.bytes = Total(c.entries)
    /\ \A i, j \in DOMAIN c.entries : c.entries[i].id = c.entries[j].id => i = j

\* The bytes of an entry are a number.
LEMMA HeldBytes == \A e \in Held : e.bytes \in Nat
  BY DEF Held, CacheEntries

\* The parts of a cache.
LEMMA ConsistentType ==
    ASSUME NEW c, Consistent(c)
    PROVE  /\ c = [entries |-> c.entries, bytes |-> c.bytes, max |-> c.max]
           /\ c.entries \in Seq(Held) /\ c.bytes \in Nat /\ c.max \in Budgets /\ c.max \in Nat
           /\ DOMAIN c.entries = 1 .. Len(c.entries) /\ Len(c.entries) \in Nat
           /\ \A e \in Range(c.entries) : e \in Held
  <1>1. /\ c = [entries |-> c.entries, bytes |-> c.bytes, max |-> c.max]
        /\ c.entries \in Seq(Held) /\ c.bytes \in Nat /\ c.max \in Budgets
    BY DEF Consistent, Caches, Held
  <1>2. c.max \in Nat
    BY <1>1, BudgetsAssumption
  <1>3. DOMAIN c.entries = 1 .. Len(c.entries) /\ Len(c.entries) \in Nat
    BY <1>1
  <1>4. \A e \in Range(c.entries) : e \in Held
    BY <1>1, <1>3 DEF Range
  <1> QED
    BY <1>1, <1>2, <1>3, <1>4

\* The entry get() finds.
LEMMA LookupEffect ==
    ASSUME NEW c, NEW id, Has(c, id)
    PROVE  /\ Lookup(c, id) \in Range(c.entries) /\ Lookup(c, id).id = id
           /\ \E k \in DOMAIN c.entries : c.entries[k].id = id /\ Lookup(c, id) = c.entries[k]
  <1>1. \E i \in DOMAIN c.entries : c.entries[i].id = id
    BY DEF Has
  <1> DEFINE k == CHOOSE i \in DOMAIN c.entries : c.entries[i].id = id
  <1>2. k \in DOMAIN c.entries /\ c.entries[k].id = id
    BY <1>1
  <1>3. Lookup(c, id) = c.entries[k]
    BY DEF Lookup
  <1> HIDE DEF k
  <1> QED
    BY <1>2, <1>3 DEF Range

\* The entries of the other documents.
LEMMA OthersEffect ==
    ASSUME NEW c, Consistent(c), NEW id
    PROVE  /\ Others(c, id) \in Seq(Held)
           /\ \A i, j \in DOMAIN Others(c, id) :
                 Others(c, id)[i].id = Others(c, id)[j].id => i = j
           /\ \A e \in Range(Others(c, id)) : e \in Range(c.entries) /\ e.id # id
           /\ \A e \in Range(c.entries) : e.id # id => e \in Range(Others(c, id))
           /\ Has(c, id) => Total(Others(c, id)) = c.bytes - Lookup(c, id).bytes
           /\ ~Has(c, id) => Total(Others(c, id)) = c.bytes
  <1> DEFINE S == {e \in Range(c.entries) : e.id # id}
             kept == Only(c.entries, S)
  <1>1. Others(c, id) = kept
    BY DEF Others
  <1>2. /\ c.entries \in Seq(Held) /\ DOMAIN c.entries = 1 .. Len(c.entries)
        /\ c.bytes = Total(c.entries)
        /\ \A i, j \in DOMAIN c.entries : c.entries[i].id = c.entries[j].id => i = j
    BY ConsistentType DEF Consistent
  <1>3. \A i \in DOMAIN c.entries : c.entries[i] \in Range(c.entries)
    BY DEF Range
  <1>4. \A i \in DOMAIN c.entries : c.entries[i] \in S <=> c.entries[i].id # id
    BY <1>3
  <1>5. \A e : e \in S <=> e \in Range(c.entries) /\ e.id # id
    OBVIOUS
  <1> HIDE DEF S
  <1>6. /\ kept \in Seq(Held)
        /\ \A e \in Range(kept) : e \in S
        /\ \A e \in Range(c.entries) : e \in S => e \in Range(kept)
        /\ \A i, j \in DOMAIN kept : kept[i].id = kept[j].id => i = j
    BY <1>2, OnlyElements
  <1>7. ASSUME Has(c, id)
        PROVE  Total(kept) = c.bytes - Lookup(c, id).bytes
    <2>1. PICK k \in DOMAIN c.entries : c.entries[k].id = id /\ Lookup(c, id) = c.entries[k]
      BY <1>7, LookupEffect
    <2>2. \A i \in DOMAIN c.entries : c.entries[i] \in S <=> i # k
      BY <1>2, <1>4, <2>1
    <2>3. Total(kept) = Total(c.entries) - c.entries[k].bytes
      BY <1>2, <2>1, <2>2, HeldBytes, TotalWithoutOne
    <2> QED
      BY <1>2, <2>1, <2>3
  <1>8. ASSUME ~Has(c, id)
        PROVE  Total(kept) = c.bytes
    <2>1. \A i \in DOMAIN c.entries : c.entries[i] \in S
      BY <1>4, <1>8 DEF Has
    <2>2. kept = c.entries
      BY <1>2, <2>1, OnlyAll
    <2> QED
      BY <1>2, <2>2
  <1> HIDE DEF kept
  <1> QED
    BY <1>1, <1>5, <1>6, <1>7, <1>8

\* invalidate() takes the document out, and its bytes off the counter.
LEMMA InvalidateEffect ==
    ASSUME NEW c, Consistent(c), NEW id
    PROVE  LET r == Invalidate(c, id) IN
           /\ Consistent(r) /\ r.max = c.max /\ r.bytes <= c.bytes
           /\ \A e \in Range(r.entries) : e \in Range(c.entries) /\ e.id # id
  <1> DEFINE r == Invalidate(c, id)
             o == Others(c, id)
  <1>1. CASE Has(c, id)
    <2>1. r = [c EXCEPT !.entries = o, !.bytes = @ - Lookup(c, id).bytes]
      BY <1>1 DEF Invalidate
    <2>2. r = [entries |-> o, bytes |-> c.bytes - Lookup(c, id).bytes, max |-> c.max]
      BY <2>1, ConsistentType
    <2>3. /\ o \in Seq(Held) /\ Total(o) = c.bytes - Lookup(c, id).bytes
          /\ \A i, j \in DOMAIN o : o[i].id = o[j].id => i = j
          /\ \A e \in Range(o) : e \in Range(c.entries) /\ e.id # id
      BY <1>1, OthersEffect
    <2>4. Total(o) \in Nat
      BY <2>3, HeldBytes, TotalNat
    <2>5. Lookup(c, id).bytes \in Nat /\ c.bytes \in Nat /\ c.max \in Budgets
      BY <1>1, LookupEffect, ConsistentType, HeldBytes
    <2> HIDE DEF o, r
    <2>6. r.entries = o /\ r.bytes = Total(o) /\ r.max = c.max /\ r.bytes <= c.bytes
      BY <2>2, <2>3, <2>5
    <2>7. r \in Caches(Offsets)
      BY <2>2, <2>3, <2>4, <2>5 DEF Caches, Held
    <2> QED
      BY <2>3, <2>6, <2>7 DEF Consistent, r
  <1>2. CASE ~Has(c, id)
    <2>1. r = c
      BY <1>2 DEF Invalidate
    <2>2. \A e \in Range(c.entries) : e.id # id
      BY <1>2 DEF Has, Range
    <2>3. c.bytes \in Nat
      BY ConsistentType
    <2> HIDE DEF r
    <2> QED
      BY <2>1, <2>2, <2>3 DEF r
  <1> QED
    BY <1>1, <1>2

\* get() moves the entry to the end.
LEMMA TouchEffect ==
    ASSUME NEW c, Consistent(c), NEW id, Has(c, id)
    PROVE  LET r == Touch(c, id) IN
           /\ Consistent(r) /\ r.max = c.max /\ r.bytes = c.bytes
           /\ \A e \in Range(r.entries) : e \in Range(c.entries)
  <1> DEFINE r == Touch(c, id)
             o == Others(c, id)
             l == Lookup(c, id)
             n == Len(Others(c, id))
  <1>1. r = [entries |-> Append(o, l), bytes |-> c.bytes, max |-> c.max]
    <2>1. r = [c EXCEPT !.entries = Append(o, l)]
      BY DEF Touch
    <2>2. c = [entries |-> c.entries, bytes |-> c.bytes, max |-> c.max]
      BY ConsistentType
    <2> HIDE DEF r, o, l
    <2> QED
      BY <2>1, <2>2
  <1>2. /\ o \in Seq(Held) /\ Total(o) = c.bytes - l.bytes
        /\ \A i, j \in DOMAIN o : o[i].id = o[j].id => i = j
        /\ \A e \in Range(o) : e \in Range(c.entries) /\ e.id # id
    BY OthersEffect
  <1>3. l \in Range(c.entries) /\ l.id = id /\ l \in Held
    BY LookupEffect, ConsistentType
  <1>4. l.bytes \in Nat /\ c.bytes \in Nat /\ c.max \in Budgets
    BY <1>3, HeldBytes, ConsistentType
  <1>5. n \in Nat /\ DOMAIN o = 1 .. n /\ n = Len(o)
    BY <1>2
  <1> HIDE DEF o, l, r
  <1>6. Total(Append(o, l)) = c.bytes
    <2>1. Total(Append(o, l)) = Total(o) + l.bytes
      BY <1>2, <1>3, HeldBytes, TotalOfAppend
    <2> QED
      BY <1>2, <1>4, <2>1
  <1> DEFINE a == Append(o, l)
  <1>7. /\ a \in Seq(Held) /\ DOMAIN a = 1 .. n + 1 /\ a[n + 1] = l
        /\ \A i \in 1 .. n : a[i] = o[i]
    <2> HIDE DEF n
    <2> QED
      BY <1>2, <1>3, <1>5
  <1> HIDE DEF a, n
  <1>8. \A i \in 1 .. n + 1 : i = n + 1 \/ i \in DOMAIN o
    BY <1>5
  <1>9. \A i \in DOMAIN o : a[i] \in Range(c.entries) /\ a[i].id # id /\ a[i] = o[i]
    BY <1>2, <1>5, <1>7 DEF Range
  <1>10. \A i, j \in DOMAIN a : a[i].id = a[j].id => i = j
    BY <1>2, <1>3, <1>7, <1>8, <1>9
  <1>11. \A e \in Range(a) : e \in Range(c.entries)
    BY <1>3, <1>7, <1>8, <1>9 DEF Range
  <1>12. r.entries = a /\ r.bytes = c.bytes /\ r.max = c.max
    BY <1>1 DEF a
  <1>13. r \in Caches(Offsets)
    BY <1>1, <1>4, <1>7 DEF Caches, Held, a
  <1>14. Consistent(r)
    BY <1>6, <1>10, <1>12, <1>13 DEF Consistent, a
  <1> QED
    BY <1>11, <1>12, <1>14 DEF r

\* Evicting the n least recently used entries.
LEMMA ShrunkEffect ==
    ASSUME NEW c, Consistent(c), NEW n \in 0 .. Len(c.entries)
    PROVE  LET r == Shrunk(c, n) IN
           /\ Consistent(r) /\ r.max = c.max
           /\ \A e \in Range(r.entries) : e \in Range(c.entries)
           /\ n = Len(c.entries) => r.bytes = 0
  <1> DEFINE r == Shrunk(c, n)
             es == c.entries
             back == SubSeq(c.entries, n + 1, Len(c.entries))
             front == SubSeq(c.entries, 1, n)
  <1>1. r = [entries |-> back, bytes |-> c.bytes - Total(front), max |-> c.max]
    <2>1. r = [c EXCEPT !.entries = back, !.bytes = c.bytes - Total(front)]
      BY DEF Shrunk
    <2>2. c = [entries |-> c.entries, bytes |-> c.bytes, max |-> c.max]
      BY ConsistentType
    <2> HIDE DEF r, back, front
    <2> QED
      BY <2>1, <2>2
  <1>2. /\ es \in Seq(Held) /\ c.bytes = Total(es) /\ Len(es) \in Nat /\ c.max \in Budgets
        /\ c.bytes \in Nat /\ DOMAIN es = 1 .. Len(es)
        /\ \A i, j \in DOMAIN es : es[i].id = es[j].id => i = j
    BY ConsistentType DEF Consistent
  <1>3. back \in Seq(Held) /\ Total(back) = Total(es) - Total(front)
    BY <1>2, HeldBytes, TotalOfParts
  <1>4. Total(back) \in Nat
    BY <1>3, HeldBytes, TotalNat
  <1>5. /\ DOMAIN back = 1 .. Len(es) - n
        /\ \A i \in 1 .. Len(es) - n : back[i] = es[n + i] /\ n + i \in DOMAIN es
    BY <1>2
  <1>6. n = Len(es) => back = << >>
    BY <1>2, <1>5
  <1> HIDE DEF back, front, es
  <1>7. \A i, j \in DOMAIN back : back[i].id = back[j].id => i = j
    <2>1. TAKE i, j \in DOMAIN back
    <2>2. HAVE back[i].id = back[j].id
    <2>3. n + i \in DOMAIN es /\ n + j \in DOMAIN es /\ es[n + i].id = es[n + j].id
      BY <1>5, <2>2
    <2>4. n + i = n + j
      BY <1>2, <2>3
    <2> QED
      BY <1>2, <1>5, <2>4
  <1>8. \A e \in Range(back) : e \in Range(es)
    BY <1>5 DEF Range
  <1>9. r.entries = back /\ r.bytes = Total(back) /\ r.max = c.max
    <2> HIDE DEF r
    <2> QED
      BY <1>1, <1>2, <1>3
  <1>10. r \in Caches(Offsets)
    BY <1>1, <1>2, <1>3, <1>4 DEF Caches, Held
  <1>11. Consistent(r)
    BY <1>7, <1>9, <1>10 DEF Consistent
  <1>12. n = Len(es) => r.bytes = 0
    BY <1>6, <1>9, TotalOfNothing
  <1> HIDE DEF r
  <1> QED
    BY <1>8, <1>9, <1>11, <1>12 DEF r, es

\* evictToFit() makes room for what can fit.
LEMMA EvictEffect ==
    ASSUME NEW c, Consistent(c), NEW incoming \in Nat, incoming <= c.max
    PROVE  LET r == EvictToFit(c, incoming) IN
           /\ Consistent(r) /\ r.max = c.max /\ r.bytes + incoming <= r.max
           /\ \A e \in Range(r.entries) : e \in Range(c.entries)
  <1> DEFINE l == Len(c.entries)
             enough(n) == n = l \/ Shrunk(c, n).bytes + incoming <= c.max
             S == {n \in 0 .. l : enough(n)}
             least(n) == enough(n) /\ \A k \in 0 .. n - 1 : ~enough(k)
             m == CHOOSE n \in 0 .. l : least(n)
             r == Shrunk(c, m)
  <1>1. l \in Nat
    BY ConsistentType
  <1>2. EvictToFit(c, incoming) = r
    BY DEF EvictToFit
  <1>3. l \in S /\ S \subseteq Nat
    <2> HIDE DEF l
    <2> QED
      BY <1>1
  <1>4. PICK b \in S : \A j \in S : b <= j
    <2> HIDE DEF S
    <2> QED
      BY <1>3, MinExists, Zenon
  <1>5. b \in 0 .. l /\ least(b)
    <2>1. b \in 0 .. l /\ enough(b)
      BY <1>4
    <2>2. ASSUME NEW k \in 0 .. b - 1, enough(k)
          PROVE  FALSE
      <3>1. k \in S
        <4> HIDE DEF l, enough
        <4> QED
          BY <1>1, <2>1, <2>2 DEF enough
      <3>2. b <= k
        BY <1>4, <3>1
      <3> HIDE DEF l, enough
      <3> QED
        BY <1>1, <2>1, <3>2
    <2> HIDE DEF enough, l
    <2> QED
      BY <2>1, <2>2
  <1>6. m \in 0 .. l /\ enough(m)
    <2>1. m \in 0 .. l /\ least(m)
      <3> HIDE DEF least, l
      <3> QED
        BY <1>5
    <2> QED
      BY <2>1
  <1> HIDE DEF m, least, S
  <1>7. /\ Consistent(r) /\ r.max = c.max
        /\ \A e \in Range(r.entries) : e \in Range(c.entries)
        /\ m = l => r.bytes = 0
    BY <1>6, ShrunkEffect
  <1>8. r.bytes + incoming <= r.max
    <2>1. c.max \in Nat
      BY ConsistentType
    <2>2. CASE m = l
      <3> HIDE DEF r
      <3> QED
        BY <1>7, <2>1, <2>2
    <2>3. CASE m # l
      BY <1>6, <1>7, <2>3
    <2> QED
      BY <2>2, <2>3
  <1> HIDE DEF r
  <1> QED
    BY <1>2, <1>7, <1>8

\* A new entry at the end.
LEMMA PutEffect ==
    ASSUME NEW c, Consistent(c), NEW id \in DocIds, NEW off \in Offsets, NEW doc \in Values,
           \A e \in Range(c.entries) : e.id # id
    PROVE  LET r == Put(c, id, off, doc)
               e == [id |-> id, off |-> off, doc |-> doc, bytes |-> SizeOf(doc)]
           IN /\ Consistent(r) /\ r.max = c.max /\ r.bytes = c.bytes + SizeOf(doc)
              /\ \A x \in Range(r.entries) : x \in Range(c.entries) \/ x = e
  <1> DEFINE r == Put(c, id, off, doc)
             e == [id |-> id, off |-> off, doc |-> doc, bytes |-> SizeOf(doc)]
             o == c.entries
             a == Append(c.entries, e)
             n == Len(c.entries)
  <1>1. r = [entries |-> a, bytes |-> c.bytes + SizeOf(doc), max |-> c.max]
    <2>1. r = [c EXCEPT !.entries = a, !.bytes = c.bytes + SizeOf(doc)]
      BY DEF Put
    <2>2. c = [entries |-> c.entries, bytes |-> c.bytes, max |-> c.max]
      BY ConsistentType
    <2> HIDE DEF r, a
    <2> QED
      BY <2>1, <2>2
  <1>2. /\ o \in Seq(Held) /\ c.bytes = Total(o) /\ n \in Nat /\ c.max \in Budgets
        /\ c.bytes \in Nat /\ DOMAIN o = 1 .. n
        /\ \A i, j \in DOMAIN o : o[i].id = o[j].id => i = j
    BY ConsistentType DEF Consistent
  <1>3. SizeOf(doc) \in Nat
    BY SizeAssumption
  <1>4. e \in Held /\ e.bytes = SizeOf(doc) /\ e.id = id
    BY <1>3 DEF Held, CacheEntries
  <1>5. n = Len(o)
    OBVIOUS
  <1>6. \A i \in DOMAIN o : o[i] \in Range(o) /\ o[i].id # id
    BY DEF Range
  <1> HIDE DEF e, r, o, n
  <1>7. Total(a) = c.bytes + SizeOf(doc)
    BY <1>2, <1>4, HeldBytes, TotalOfAppend DEF o
  <1>8. /\ a \in Seq(Held) /\ DOMAIN a = 1 .. n + 1 /\ a[n + 1] = e
        /\ \A i \in 1 .. n : a[i] = o[i]
    BY <1>2, <1>4, <1>5 DEF o
  <1> HIDE DEF a
  <1>9. \A i \in 1 .. n + 1 : i = n + 1 \/ i \in DOMAIN o
    BY <1>2
  <1>10. \A i \in DOMAIN o : a[i] = o[i]
    BY <1>2, <1>8
  <1>11. \A i, j \in DOMAIN a : a[i].id = a[j].id => i = j
    BY <1>2, <1>4, <1>6, <1>8, <1>9, <1>10
  <1>12. \A x \in Range(a) : x \in Range(o) \/ x = e
    BY <1>6, <1>8, <1>9, <1>10 DEF Range
  <1>13. r.entries = a /\ r.bytes = Total(a) /\ r.max = c.max
    BY <1>1, <1>7
  <1>14. r \in Caches(Offsets)
    <2>1. c.bytes + SizeOf(doc) \in Nat
      BY <1>2, <1>3
    <2> QED
      BY <1>1, <1>2, <1>8, <2>1 DEF Caches, Held
  <1>15. Consistent(r)
    BY <1>11, <1>13, <1>14 DEF Consistent
  <1> QED
    BY <1>7, <1>12, <1>13, <1>15 DEF r, e, o

\* A cache whose counter is right and within the budget.
LEMMA ConsistentIsWithin ==
    ASSUME NEW c
    PROVE  c \in Caches(Offsets) /\ WithinBudget(c) <=> Consistent(c) /\ c.bytes <= c.max
  BY DEF WithinBudget, Consistent

\* set() leaves one version of the document at most, the new one.
LEMMA SetEffect ==
    ASSUME NEW c \in Caches(Offsets), WithinBudget(c),
           NEW id \in DocIds, NEW off \in Offsets, NEW doc \in Values
    PROVE  LET r == Set(c, id, off, doc) IN
           /\ r \in Caches(Offsets) /\ WithinBudget(r)
           /\ \A x \in Range(r.entries) :
                 \/ x \in Range(c.entries) /\ x.id # id
                 \/ x.id = id /\ x.off = off /\ x.doc = doc
  <1> DEFINE r == Set(c, id, off, doc)
             i == Invalidate(c, id)
             v == EvictToFit(i, SizeOf(doc))
             e == [id |-> id, off |-> off, doc |-> doc, bytes |-> SizeOf(doc)]
  <1>1. Consistent(c) /\ c.bytes <= c.max /\ c.bytes \in Nat /\ c.max \in Nat
    BY ConsistentIsWithin, ConsistentType
  <1>2. /\ Consistent(i) /\ i.max = c.max /\ i.bytes <= c.bytes
        /\ \A x \in Range(i.entries) : x \in Range(c.entries) /\ x.id # id
    BY <1>1, InvalidateEffect
  <1>3. i.bytes \in Nat /\ SizeOf(doc) \in Nat
    BY <1>2, ConsistentType, SizeAssumption
  <1>4. CASE SizeOf(doc) > c.max
    <2>1. r = i
      BY <1>4 DEF Set
    <2>2. i.bytes <= i.max
      <3> HIDE DEF i
      <3> QED
        BY <1>1, <1>2, <1>3
    <2> HIDE DEF r, i
    <2> QED
      BY <1>2, <2>1, <2>2, ConsistentIsWithin DEF r
  <1>5. CASE ~(SizeOf(doc) > c.max)
    <2>1. r = Put(v, id, off, doc)
      BY <1>5 DEF Set
    <2>2. SizeOf(doc) <= i.max
      <3> HIDE DEF i
      <3> QED
        BY <1>1, <1>2, <1>3, <1>5
    <2> HIDE DEF i
    <2>3. /\ Consistent(v) /\ v.max = i.max /\ v.bytes + SizeOf(doc) <= v.max
          /\ \A x \in Range(v.entries) : x \in Range(i.entries)
      BY <1>2, <1>3, <2>2, EvictEffect
    <2> HIDE DEF v
    <2>4. \A x \in Range(v.entries) : x.id # id
      BY <1>2, <2>3
    <2>5. /\ Consistent(r) /\ r.max = v.max /\ r.bytes = v.bytes + SizeOf(doc)
          /\ \A x \in Range(r.entries) : x \in Range(v.entries) \/ x = e
      <3> HIDE DEF r
      <3> QED
        BY <2>1, <2>3, <2>4, PutEffect
    <2>6. e.id = id /\ e.off = off /\ e.doc = doc
      OBVIOUS
    <2> HIDE DEF r, e
    <2>7. \A x \in Range(r.entries) :
             \/ x \in Range(c.entries) /\ x.id # id
             \/ x.id = id /\ x.off = off /\ x.doc = doc
      BY <1>2, <2>3, <2>5, <2>6
    <2>8. r.bytes <= r.max
      BY <2>3, <2>5
    <2> QED
      BY <2>5, <2>7, <2>8, ConsistentIsWithin DEF r
  <1> QED
    BY <1>4, <1>5

\* setMaxBytes() evicts down to the new budget.
LEMMA SetMaxBytesEffect ==
    ASSUME NEW c \in Caches(Offsets), WithinBudget(c), NEW max \in Budgets
    PROVE  LET r == SetMaxBytes(c, max) IN
           /\ r \in Caches(Offsets) /\ WithinBudget(r)
           /\ \A x \in Range(r.entries) : x \in Range(c.entries)
  <1> DEFINE b == [c EXCEPT !.max = max]
             r == EvictToFit(b, 0)
  <1>1. Consistent(c)
    BY ConsistentIsWithin
  <1>2. b = [entries |-> c.entries, bytes |-> c.bytes, max |-> max]
    <2>1. c = [entries |-> c.entries, bytes |-> c.bytes, max |-> c.max]
      BY <1>1, ConsistentType
    <2> QED
      BY <2>1
  <1>3. Consistent(b) /\ b.entries = c.entries /\ b.max = max
    <2> HIDE DEF b
    <2>1. b.entries = c.entries /\ b.bytes = c.bytes /\ b.max = max
      BY <1>2
    <2>2. b \in Caches(Offsets)
      BY <1>1, <1>2, ConsistentType DEF Caches, Held
    <2> QED
      BY <1>1, <2>1, <2>2 DEF Consistent
  <1>4. 0 \in Nat /\ 0 <= b.max
    <2>1. max \in Nat
      BY BudgetsAssumption
    <2> HIDE DEF b
    <2> QED
      BY <1>3, <2>1
  <1> HIDE DEF b
  <1>5. /\ Consistent(r) /\ r.max = b.max /\ r.bytes + 0 <= r.max
        /\ \A x \in Range(r.entries) : x \in Range(b.entries)
    BY <1>3, <1>4, EvictEffect
  <1> HIDE DEF r
  <1>6. r.bytes \in Nat /\ r.max \in Nat
    BY <1>5, ConsistentType
  <1>7. r.bytes <= r.max
    BY <1>5, <1>6
  <1> QED
    BY <1>3, <1>5, <1>7, ConsistentIsWithin DEF r, SetMaxBytes, b

\* A new or cleared cache holds nothing.
LEMMA EmptyCache ==
    ASSUME NEW max \in Budgets
    PROVE  LET r == NewCache(max) IN
           r \in Caches(Offsets) /\ WithinBudget(r) /\ Range(r.entries) = {}
  <1>1. max \in Nat
    BY BudgetsAssumption
  <1>2. NewCache(max) = [entries |-> << >>, bytes |-> 0, max |-> max]
    BY DEF NewCache
  <1>3. DOMAIN (<< >>) = {} /\ << >> \in Seq(Held)
    OBVIOUS
  <1>4. NewCache(max) \in Caches(Offsets)
    BY <1>2, <1>3 DEF Caches, Held
  <1> QED
    BY <1>1, <1>2, <1>3, <1>4, TotalOfNothing DEF WithinBudget, Range

\* clear() leaves a new cache of the same budget.
LEMMA ClearEffect ==
    ASSUME NEW c \in Caches(Offsets)
    PROVE  c.max \in Budgets /\ Clear(c) = NewCache(c.max)
  <1> DEFINE es == c.entries
             b == c.bytes
             m == c.max
  <1>1. m \in Budgets /\ c = [entries |-> es, bytes |-> b, max |-> m]
    BY DEF Caches
  <1>2. Clear(c) = [c EXCEPT !.entries = << >>, !.bytes = 0]
    BY DEF Clear
  <1>3. NewCache(c.max) = [entries |-> << >>, bytes |-> 0, max |-> m]
    BY DEF NewCache
  <1> HIDE DEF es, b, m
  <1>4. Clear(c) = [entries |-> << >>, bytes |-> 0, max |-> m]
    BY <1>1, <1>2
  <1> QED
    BY <1>1, <1>3, <1>4 DEF m

\* invalidate() and get() keep the cache within its budget.
LEMMA InvalidateWithin ==
    ASSUME NEW c \in Caches(Offsets), WithinBudget(c), NEW id
    PROVE  LET r == Invalidate(c, id) IN
           /\ r \in Caches(Offsets) /\ WithinBudget(r)
           /\ \A x \in Range(r.entries) : x \in Range(c.entries) /\ x.id # id
  <1> DEFINE r == Invalidate(c, id)
  <1>1. Consistent(c) /\ c.bytes <= c.max
    BY ConsistentIsWithin
  <1>2. /\ Consistent(r) /\ r.max = c.max /\ r.bytes <= c.bytes
        /\ \A x \in Range(r.entries) : x \in Range(c.entries) /\ x.id # id
    BY <1>1, InvalidateEffect
  <1>3. c.bytes \in Nat /\ c.max \in Nat
    BY <1>1, ConsistentType
  <1> HIDE DEF r
  <1>4. r.bytes \in Nat
    BY <1>2, ConsistentType
  <1>5. r.bytes <= r.max
    BY <1>1, <1>2, <1>3, <1>4
  <1> QED
    BY <1>2, <1>5, ConsistentIsWithin DEF r

\* A read of a version leaves that version in the cache, or takes nothing in.
LEMMA ReadThroughEffect ==
    ASSUME NEW c \in Caches(Offsets), WithinBudget(c),
           NEW id \in DocIds, NEW off \in Offsets, NEW doc \in Values
    PROVE  LET r == IF Hit(c, id, off) THEN Touch(c, id) ELSE Set(c, id, off, doc) IN
           /\ r \in Caches(Offsets) /\ WithinBudget(r)
           /\ \A x \in Range(r.entries) :
                 \/ x \in Range(c.entries)
                 \/ x.id = id /\ x.off = off /\ x.doc = doc
  <1>1. CASE Hit(c, id, off)
    <2>1. Consistent(c) /\ c.bytes <= c.max /\ Has(c, id)
      BY <1>1, ConsistentIsWithin DEF Hit
    <2>2. /\ Consistent(Touch(c, id)) /\ Touch(c, id).max = c.max
          /\ Touch(c, id).bytes = c.bytes
          /\ \A e \in Range(Touch(c, id).entries) : e \in Range(c.entries)
      BY <2>1, TouchEffect
    <2> QED
      BY <1>1, <2>1, <2>2, ConsistentIsWithin
  <1>2. CASE ~Hit(c, id, off)
    <2>1. /\ Set(c, id, off, doc) \in Caches(Offsets) /\ WithinBudget(Set(c, id, off, doc))
          /\ \A x \in Range(Set(c, id, off, doc).entries) :
                \/ x \in Range(c.entries) /\ x.id # id
                \/ x.id = id /\ x.off = off /\ x.doc = doc
      BY SetEffect
    <2> QED
      BY <1>2, <2>1
  <1> QED
    BY <1>1, <1>2

-----------------------------------------------------------------------------
(* Ranks.                                                                  *)

\* The elements of S before a.
Before(S, R, a) == {b \in S : <<b, a>> \in R}

\* In a finite set with a strict order the number of elements before an element
\* says which one it is, and takes every value below the size of the set.
LEMMA RankOnto ==
    ASSUME NEW S, IsFiniteSet(S), NEW R,
           \A a \in S : <<a, a>> \notin R,
           \A a, b, c \in S : <<a, b>> \in R /\ <<b, c>> \in R => <<a, c>> \in R,
           \A a, b \in S : a = b \/ <<a, b>> \in R \/ <<b, a>> \in R
    PROVE  /\ Cardinality(S) \in Nat
           /\ \A a \in S : /\ IsFiniteSet(Before(S, R, a))
                           /\ Cardinality(Before(S, R, a)) \in 0 .. Cardinality(S) - 1
           /\ \A a, b \in S :
                 Cardinality(Before(S, R, a)) = Cardinality(Before(S, R, b)) => a = b
           /\ \A k \in 0 .. Cardinality(S) - 1 :
                 \E a \in S : Cardinality(Before(S, R, a)) = k
  <1> DEFINE n == Cardinality(S)
             T == 0 .. n - 1
             f == [a \in S |-> Cardinality(Before(S, R, a))]
  <1>1. n \in Nat
    BY FS_CardinalityType
  <1>2. ASSUME NEW a \in S
        PROVE  /\ IsFiniteSet(Before(S, R, a)) /\ Cardinality(Before(S, R, a)) \in Nat
               /\ Cardinality(Before(S, R, a) \cup {a}) = Cardinality(Before(S, R, a)) + 1
               /\ Cardinality(Before(S, R, a)) + 1 <= n
    <2>1. Before(S, R, a) \in SUBSET S /\ a \notin Before(S, R, a)
          /\ Before(S, R, a) \cup {a} \in SUBSET S
      BY DEF Before
    <2>2. IsFiniteSet(Before(S, R, a))
      BY <2>1, FS_Subset
    <2>3. Cardinality(Before(S, R, a)) \in Nat
      BY <2>2, FS_CardinalityType
    <2>4. Cardinality(Before(S, R, a) \cup {a}) = Cardinality(Before(S, R, a)) + 1
      BY <2>1, <2>2, FS_AddElement
    <2>5. Cardinality(Before(S, R, a) \cup {a}) <= n
      BY <2>1, FS_Subset
    <2> QED
      BY <2>2, <2>3, <2>4, <2>5
  <1>3. ASSUME NEW a \in S, NEW b \in S, <<a, b>> \in R
        PROVE  Cardinality(Before(S, R, a)) < Cardinality(Before(S, R, b))
    <2>1. Before(S, R, a) \cup {a} \in SUBSET Before(S, R, b)
      BY <1>3 DEF Before
    <2>2. Cardinality(Before(S, R, a) \cup {a}) <= Cardinality(Before(S, R, b))
      BY <1>2, <2>1, FS_Subset
    <2>3. /\ Cardinality(Before(S, R, a)) \in Nat /\ Cardinality(Before(S, R, b)) \in Nat
          /\ Cardinality(Before(S, R, a) \cup {a}) = Cardinality(Before(S, R, a)) + 1
      BY <1>2
    <2> QED
      BY <2>2, <2>3
  <1>4. \A a, b \in S : Cardinality(Before(S, R, a)) = Cardinality(Before(S, R, b)) => a = b
    <2>1. TAKE a, b \in S
    <2>2. HAVE Cardinality(Before(S, R, a)) = Cardinality(Before(S, R, b))
    <2>3. Cardinality(Before(S, R, a)) \in Nat /\ Cardinality(Before(S, R, b)) \in Nat
      BY <1>2
    <2>4. <<a, b>> \notin R /\ <<b, a>> \notin R
      BY <1>3, <2>2, <2>3
    <2> QED
      BY <2>4
  <1>5. \A a \in S : Cardinality(Before(S, R, a)) \in T
    <2>1. TAKE a \in S
    <2>2. Cardinality(Before(S, R, a)) \in Nat /\ Cardinality(Before(S, R, a)) + 1 <= n
      BY <1>2
    <2> HIDE DEF n
    <2> QED
      BY <1>1, <2>2
  <1>6. IsFiniteSet(T) /\ Cardinality(T) = n
    <2>1. 0 \in Int /\ n - 1 \in Int
      BY <1>1
    <2>2. /\ IsFiniteSet(0 .. n - 1)
          /\ Cardinality(0 .. n - 1) = IF 0 > n - 1 THEN 0 ELSE (n - 1) - 0 + 1
      BY <2>1, FS_Interval
    <2> HIDE DEF n
    <2> QED
      BY <1>1, <2>2
  <1>7. f \in [S -> T] /\ \A a, b \in S : f[a] = f[b] => a = b
    <2> HIDE DEF T
    <2> QED
      BY <1>4, <1>5
  <1>8. f \in Injection(S, T)
    <2> HIDE DEF f, T
    <2> QED
      BY <1>7 DEF Injection, IsInjective
  <1>9. f \in Surjection(S, T)
    <2> HIDE DEF f, T
    <2> QED
      BY <1>6, <1>8, FS_Injection
  <1>10. \A k \in T : \E a \in S : f[a] = k
    <2> HIDE DEF f, T
    <2> QED
      BY <1>9 DEF Surjection
  <1>11. \A k \in T : \E a \in S : Cardinality(Before(S, R, a)) = k
    <2> HIDE DEF T
    <2> QED
      BY <1>10
  <1> QED
    BY <1>1, <1>2, <1>4, <1>5, <1>11

-----------------------------------------------------------------------------
(* The primary index and the file.                                         *)

\* A well-formed primary index p of the records f.
Indexes(p, f) ==
    /\ p \in Seq(Candidates) /\ f \in Seq(Recs)
    /\ \A i \in DOMAIN p :
          /\ p[i].off \in DOMAIN f
          /\ f[p[i].off] \in Docs /\ f[p[i].off].id = p[i].id
    /\ \A i, j \in DOMAIN p : p[i].id = p[j].id => i = j

\* OffsetOf with the index as an argument.
OffIn(p, id) ==
    IF \E i \in DOMAIN p : p[i].id = id
    THEN p[CHOOSE i \in DOMAIN p : p[i].id = id].off
    ELSE 0

\* What an index says of an id is the entry that bears it.
LEMMA OffsetFound ==
    ASSUME NEW p, NEW f, Indexes(p, f), NEW i \in DOMAIN p
    PROVE  /\ OffIn(p, p[i].id) = p[i].off /\ p[i].off \in Offsets /\ p[i].off # 0
           /\ p[i].id \in DocIds
  <1> DEFINE k == CHOOSE j \in DOMAIN p : p[j].id = p[i].id
  <1>1. k \in DOMAIN p /\ p[k].id = p[i].id
    OBVIOUS
  <1>2. k = i
    BY <1>1 DEF Indexes
  <1>3. p[i] \in Candidates
    BY DEF Indexes
  <1>4. p[i].off \in Offsets /\ p[i].id \in DocIds
    BY <1>3 DEF Candidates
  <1>5. p[i].off # 0
    BY <1>4, ReadsAssumption DEF Offsets
  <1>6. OffIn(p, p[i].id) = p[k].off
    BY DEF OffIn
  <1> QED
    BY <1>2, <1>4, <1>5, <1>6

\* An id has an offset when an entry bears it, and has that entry's offset.
LEMMA OffsetIs ==
    ASSUME NEW p, NEW f, Indexes(p, f), NEW id
    PROVE  /\ OffIn(p, id) # 0 <=> \E i \in DOMAIN p : p[i].id = id
           /\ \A o : o # 0 => (OffIn(p, id) = o
                                  <=> \E i \in DOMAIN p : p[i].id = id /\ p[i].off = o)
           /\ OffIn(p, id) # 0 =>
                 \E i \in DOMAIN p : p[i].id = id /\ p[i].off = OffIn(p, id)
  <1>1. CASE \E i \in DOMAIN p : p[i].id = id
    <2>1. PICK i \in DOMAIN p : p[i].id = id
      BY <1>1
    <2>2. OffIn(p, id) = p[i].off /\ p[i].off # 0
      BY <2>1, OffsetFound
    <2>3. \A j \in DOMAIN p : p[j].id = id => j = i
      BY <2>1 DEF Indexes
    <2> QED
      BY <2>1, <2>2, <2>3
  <1>2. CASE ~ \E i \in DOMAIN p : p[i].id = id
    <2>1. OffIn(p, id) = 0
      BY <1>2 DEF OffIn
    <2> QED
      BY <1>2, <2>1
  <1> QED
    BY <1>1, <1>2

\* The entry of id is at o in q, the other entries are those of p.
Moves(p, q, id, o) ==
    /\ q \in Seq(Candidates)
    /\ \A i, j \in DOMAIN q : q[i].id = q[j].id => i = j
    /\ \A i \in DOMAIN q : \/ q[i].id = id /\ q[i].off = o
                           \/ q[i].id # id /\ \E j \in DOMAIN p : q[i] = p[j]
    /\ \E i \in DOMAIN q : q[i].id = id
    /\ \A j \in DOMAIN p : p[j].id # id => \E i \in DOMAIN q : q[i] = p[j]

\* primaryIndex.set keeps one entry a document.
LEMMA WithOffsetEffect ==
    ASSUME Indexes(primary, file), NEW id \in DocIds, NEW o \in Offsets
    PROVE  Moves(primary, WithOffset(id, o), id, o)
  <1> DEFINE p == primary
             e == [id |-> id, off |-> o]
  <1>1. e \in Candidates /\ e.id = id /\ e.off = o
    BY DEF Candidates
  <1>2. /\ p \in Seq(Candidates) /\ DOMAIN p = 1 .. Len(p) /\ Len(p) \in Nat
        /\ \A i, j \in DOMAIN p : p[i].id = p[j].id => i = j
        /\ \A i \in DOMAIN p : p[i] \in Candidates
    BY DEF Indexes
  <1>3. Exists(id) <=> \E i \in DOMAIN p : p[i].id = id
    <2>1. OffsetOf(id) = OffIn(p, id)
      BY DEF OffsetOf, OffIn
    <2> QED
      BY <2>1, OffsetIs DEF Exists
  <1>4. CASE Exists(id)
    <2> DEFINE q == [i \in DOMAIN p |-> IF p[i].id = id THEN e ELSE p[i]]
    <2>1. WithOffset(id, o) = q
      BY <1>4 DEF WithOffset
    <2>2. DOMAIN q = DOMAIN p /\ \A i \in DOMAIN p : q[i] = IF p[i].id = id THEN e ELSE p[i]
      OBVIOUS
    <2>3. q \in Seq(Candidates)
      <3>1. \A i \in 1 .. Len(p) : q[i] \in Candidates
        BY <1>1, <1>2
      <3> QED
        BY <1>2, <3>1
    <2> HIDE DEF q, e
    <2>4. \A i \in DOMAIN p : q[i].id = p[i].id
      BY <1>1, <2>2
    <2> HIDE DEF p
    <2>5. \A i, j \in DOMAIN q : q[i].id = q[j].id => i = j
      BY <1>2, <2>2, <2>4
    <2>6. \A i \in DOMAIN q : \/ q[i].id = id /\ q[i].off = o
                              \/ q[i].id # id /\ \E j \in DOMAIN p : q[i] = p[j]
      BY <1>1, <2>2
    <2>7. \E i \in DOMAIN q : q[i].id = id
      BY <1>3, <1>4, <2>2, <2>4
    <2>8. \A j \in DOMAIN p : p[j].id # id => \E i \in DOMAIN q : q[i] = p[j]
      BY <2>2
    <2>9. Moves(p, q, id, o)
      BY <2>3, <2>5, <2>6, <2>7, <2>8 DEF Moves
    <2> QED
      BY <2>1, <2>9 DEF p
  <1>5. CASE ~Exists(id)
    <2> DEFINE q == Append(p, e)
    <2>1. WithOffset(id, o) = q
      BY <1>5 DEF WithOffset
    <2>2. /\ q \in Seq(Candidates) /\ DOMAIN q = 1 .. Len(p) + 1 /\ q[Len(p) + 1] = e
          /\ \A i \in 1 .. Len(p) : q[i] = p[i]
      BY <1>1, <1>2
    <2>3. \A i \in DOMAIN p : p[i].id # id
      BY <1>3, <1>5
    <2> HIDE DEF q, e, p
    <2>4. \A i \in DOMAIN q : i \in DOMAIN p \/ i = Len(p) + 1
      BY <1>2, <2>2
    <2>5. \A i \in DOMAIN p : i \in DOMAIN q /\ q[i] = p[i] /\ q[i].id # id
      BY <1>2, <2>2, <2>3
    <2>6. \A i, j \in DOMAIN q : q[i].id = q[j].id => i = j
      BY <1>1, <1>2, <2>2, <2>4, <2>5
    <2>7. \A i \in DOMAIN q : \/ q[i].id = id /\ q[i].off = o
                              \/ q[i].id # id /\ \E j \in DOMAIN p : q[i] = p[j]
      BY <1>1, <2>2, <2>4, <2>5
    <2>8. Len(p) + 1 \in DOMAIN q /\ q[Len(p) + 1].id = id
      BY <1>1, <1>2, <2>2
    <2>9. Moves(p, q, id, o)
      BY <2>2, <2>5, <2>6, <2>7, <2>8 DEF Moves
    <2> QED
      BY <2>1, <2>9 DEF p
  <1> QED
    BY <1>4, <1>5

\* Writing a record of a document and moving its entry to it keeps the index
\* well formed.
LEMMA WriteKeepsIndex ==
    ASSUME NEW p, NEW f, Indexes(p, f), NEW id \in DocIds, NEW doc \in Values,
           NEW q, Moves(p, q, id, Len(f) + 1)
    PROVE  Indexes(q, Append(f, Found(id, doc)))
  <1> DEFINE d == Found(id, doc)
             g == Append(f, d)
  <1>1. d \in Docs /\ d \in Recs /\ d.id = id
    BY DEF Found, Docs, Recs
  <1>2. f \in Seq(Recs) /\ Len(f) \in Nat /\ DOMAIN f = 1 .. Len(f)
    BY DEF Indexes
  <1> HIDE DEF d
  <1>3. /\ g \in Seq(Recs) /\ DOMAIN g = 1 .. Len(f) + 1 /\ g[Len(f) + 1] = d
        /\ \A i \in 1 .. Len(f) : g[i] = f[i]
    BY <1>1, <1>2
  <1> HIDE DEF g
  <1>4. ASSUME NEW i \in DOMAIN q
        PROVE  q[i].off \in DOMAIN g /\ g[q[i].off] \in Docs /\ g[q[i].off].id = q[i].id
    <2>1. CASE q[i].id = id /\ q[i].off = Len(f) + 1
      BY <1>1, <1>2, <1>3, <2>1
    <2>2. CASE \E j \in DOMAIN p : q[i] = p[j]
      <3>1. PICK j \in DOMAIN p : q[i] = p[j]
        BY <2>2
      <3>2. p[j].off \in DOMAIN f /\ f[p[j].off] \in Docs /\ f[p[j].off].id = p[j].id
        BY DEF Indexes
      <3>3. p[j].off \in 1 .. Len(f) + 1
        BY <1>2, <3>2
      <3> QED
        BY <1>2, <1>3, <3>1, <3>2, <3>3
    <2> QED
      BY <2>1, <2>2 DEF Moves
  <1>5. Indexes(q, g)
    BY <1>3, <1>4 DEF Indexes, Moves
  <1> QED
    BY <1>5 DEF g, d

\* The entry of id is gone from q.
Loses(p, q, id) ==
    /\ q \in Seq(Candidates)
    /\ \A i, j \in DOMAIN q : q[i].id = q[j].id => i = j
    /\ \A i \in DOMAIN q : q[i].id # id /\ \E j \in DOMAIN p : q[i] = p[j]
    /\ \A j \in DOMAIN p : p[j].id # id => \E i \in DOMAIN q : q[i] = p[j]

\* primaryIndex.delete takes one entry out.
LEMMA DeleteEffect ==
    ASSUME NEW p, NEW f, Indexes(p, f), NEW id
    PROVE  Loses(p, Only(p, {e \in Range(p) : e.id # id}), id)
  <1> DEFINE S == {e \in Range(p) : e.id # id}
             q == Only(p, S)
  <1>1. p \in Seq(Candidates) /\ \A i, j \in DOMAIN p : p[i].id = p[j].id => i = j
    BY DEF Indexes
  <1>2. /\ \A e : e \in S <=> e \in Range(p) /\ e.id # id
    OBVIOUS
  <1>3. \A e : e \in Range(p) <=> \E j \in DOMAIN p : p[j] = e
    BY DEF Range
  <1> HIDE DEF S
  <1>4. /\ q \in Seq(Candidates)
        /\ \A e \in Range(q) : e \in Range(p) /\ e \in S
        /\ \A e \in Range(p) : e \in S => e \in Range(q)
        /\ \A i, j \in DOMAIN q : q[i].id = q[j].id => i = j
    BY <1>1, OnlyElements
  <1>5. \A e : e \in Range(q) <=> \E j \in DOMAIN q : q[j] = e
    BY DEF Range
  <1> HIDE DEF q
  <1>6. \A i \in DOMAIN q : q[i].id # id /\ \E j \in DOMAIN p : q[i] = p[j]
    BY <1>2, <1>3, <1>4, <1>5
  <1>7. \A j \in DOMAIN p : p[j].id # id => \E i \in DOMAIN q : q[i] = p[j]
    BY <1>2, <1>3, <1>4, <1>5
  <1>8. Loses(p, q, id)
    BY <1>4, <1>6, <1>7 DEF Loses
  <1> QED
    BY <1>8 DEF q, S

\* A record of a deletion leaves the index of the others well formed.
LEMMA DeleteKeepsIndex ==
    ASSUME NEW p, NEW f, Indexes(p, f), NEW id, NEW q, Loses(p, q, id), NEW d \in Recs
    PROVE  Indexes(q, Append(f, d))
  <1> DEFINE g == Append(f, d)
  <1>1. f \in Seq(Recs) /\ Len(f) \in Nat /\ DOMAIN f = 1 .. Len(f)
    BY DEF Indexes
  <1>2. /\ g \in Seq(Recs) /\ DOMAIN g = 1 .. Len(f) + 1
        /\ \A i \in 1 .. Len(f) : g[i] = f[i]
    BY <1>1
  <1> HIDE DEF g
  <1>3. ASSUME NEW i \in DOMAIN q
        PROVE  q[i].off \in DOMAIN g /\ g[q[i].off] \in Docs /\ g[q[i].off].id = q[i].id
    <2>1. PICK j \in DOMAIN p : q[i] = p[j]
      BY DEF Loses
    <2>2. p[j].off \in DOMAIN f /\ f[p[j].off] \in Docs /\ f[p[j].off].id = p[j].id
      BY DEF Indexes
    <2>3. p[j].off \in 1 .. Len(f) + 1
      BY <1>1, <2>2
    <2> QED
      BY <1>1, <1>2, <2>1, <2>2, <2>3
  <1>4. Indexes(q, g)
    BY <1>2, <1>3 DEF Indexes, Loses
  <1> QED
    BY <1>4 DEF g

-----------------------------------------------------------------------------
(* What the cache in use holds about the current documents.                *)

\* CacheContents for the cache c, the index p, the records f and the observer l.
Agrees(c, p, f, l) ==
    \A e \in Range(c.entries) :
        /\ \A i \in DOMAIN p : p[i].id = e.id /\ p[i].off = e.off => f[e.off].doc = e.doc
        /\ ~l => \E i \in DOMAIN p : p[i].id = e.id /\ f[p[i].off].doc = e.doc

\* The entries of a cache bear offsets of the file.
LEMMA EntriesAreHeld ==
    ASSUME NEW c \in Caches(Offsets), NEW e \in Range(c.entries)
    PROVE  e \in Held /\ e.off \in Offsets /\ e.id \in DocIds /\ e.doc \in Values
  <1>1. c.entries \in Seq(Held)
    BY DEF Caches, Held
  <1>2. e \in Held
    BY <1>1 DEF Range
  <1> QED
    BY <1>2 DEF Held, CacheEntries

\* set() on the write path.
LEMMA WriteAgrees ==
    ASSUME NEW p, NEW f, Indexes(p, f), NEW id \in DocIds, NEW doc \in Values,
           NEW q, Moves(p, q, id, Len(f) + 1), NEW l,
           NEW c \in Caches(Offsets), Agrees(c, p, f, l), NEW r,
           \A x \in Range(r.entries) : \/ x \in Range(c.entries) /\ x.id # id
                                       \/ x.id = id /\ x.off = Len(f) + 1 /\ x.doc = doc
    PROVE  Agrees(r, q, Append(f, Found(id, doc)), l)
  <1> DEFINE d == Found(id, doc)
             g == Append(f, d)
  <1>1. d \in Recs /\ d.doc = doc
    BY DEF Found, Docs, Recs
  <1>2. f \in Seq(Recs) /\ Len(f) \in Nat /\ DOMAIN f = 1 .. Len(f)
    BY DEF Indexes
  <1> HIDE DEF d
  <1>3. g[Len(f) + 1] = d /\ \A i \in DOMAIN f : g[i] = f[i]
    BY <1>1, <1>2
  <1> HIDE DEF g
  <1>4. \A j \in DOMAIN p : p[j].off \in DOMAIN f
    BY DEF Indexes
  <1>5. ASSUME NEW x \in Range(r.entries)
        PROVE  /\ \A i \in DOMAIN q : q[i].id = x.id /\ q[i].off = x.off
                     => g[x.off].doc = x.doc
               /\ ~l => \E i \in DOMAIN q : q[i].id = x.id /\ g[q[i].off].doc = x.doc
    <2>1. CASE x \in Range(c.entries) /\ x.id # id
      <3>1. /\ \A i \in DOMAIN p : p[i].id = x.id /\ p[i].off = x.off => f[x.off].doc = x.doc
            /\ ~l => \E i \in DOMAIN p : p[i].id = x.id /\ f[p[i].off].doc = x.doc
        BY <2>1 DEF Agrees
      <3>2. ASSUME NEW i \in DOMAIN q, q[i].id = x.id, q[i].off = x.off
            PROVE  g[x.off].doc = x.doc
        <4>1. PICK j \in DOMAIN p : q[i] = p[j]
          BY <2>1, <3>2 DEF Moves
        <4> QED
          BY <1>3, <1>4, <3>1, <3>2, <4>1
      <3>3. ASSUME ~l
            PROVE  \E i \in DOMAIN q : q[i].id = x.id /\ g[q[i].off].doc = x.doc
        <4>1. PICK j \in DOMAIN p : p[j].id = x.id /\ f[p[j].off].doc = x.doc
          BY <3>1, <3>3
        <4>2. PICK i \in DOMAIN q : q[i] = p[j]
          BY <2>1, <4>1 DEF Moves
        <4> QED
          BY <1>3, <1>4, <4>1, <4>2
      <3> QED
        BY <3>2, <3>3
    <2>2. CASE x.id = id /\ x.off = Len(f) + 1 /\ x.doc = doc
      <3>1. g[x.off].doc = x.doc
        BY <1>1, <1>3, <2>2
      <3>2. PICK i \in DOMAIN q : q[i].id = id
        BY DEF Moves
      <3>3. q[i].off = Len(f) + 1
        BY <3>2 DEF Moves
      <3> QED
        BY <2>2, <3>1, <3>2, <3>3
    <2> QED
      BY <2>1, <2>2
  <1>6. Agrees(r, q, g, l)
    BY <1>5 DEF Agrees
  <1> QED
    BY <1>6 DEF g, d

\* invalidate() on the deletion path.
LEMMA DeleteAgrees ==
    ASSUME NEW p, NEW f, Indexes(p, f), NEW id, NEW q, Loses(p, q, id), NEW d \in Recs,
           NEW l, NEW c \in Caches(Offsets), Agrees(c, p, f, l), NEW r,
           \A x \in Range(r.entries) : x \in Range(c.entries) /\ x.id # id
    PROVE  Agrees(r, q, Append(f, d), l)
  <1> DEFINE g == Append(f, d)
  <1>1. f \in Seq(Recs) /\ Len(f) \in Nat /\ DOMAIN f = 1 .. Len(f)
    BY DEF Indexes
  <1>2. \A i \in DOMAIN f : g[i] = f[i]
    BY <1>1
  <1> HIDE DEF g
  <1>3. \A j \in DOMAIN p : p[j].off \in DOMAIN f
    BY DEF Indexes
  <1>4. ASSUME NEW x \in Range(r.entries)
        PROVE  /\ \A i \in DOMAIN q : q[i].id = x.id /\ q[i].off = x.off
                     => g[x.off].doc = x.doc
               /\ ~l => \E i \in DOMAIN q : q[i].id = x.id /\ g[q[i].off].doc = x.doc
    <2>1. x \in Range(c.entries) /\ x.id # id
      OBVIOUS
    <2>2. /\ \A i \in DOMAIN p : p[i].id = x.id /\ p[i].off = x.off => f[x.off].doc = x.doc
          /\ ~l => \E i \in DOMAIN p : p[i].id = x.id /\ f[p[i].off].doc = x.doc
      BY <2>1 DEF Agrees
    <2>3. ASSUME NEW i \in DOMAIN q, q[i].id = x.id, q[i].off = x.off
          PROVE  g[x.off].doc = x.doc
      <3>1. PICK j \in DOMAIN p : q[i] = p[j]
        BY DEF Loses
      <3> QED
        BY <1>2, <1>3, <2>2, <2>3, <3>1
    <2>4. ASSUME ~l
          PROVE  \E i \in DOMAIN q : q[i].id = x.id /\ g[q[i].off].doc = x.doc
      <3>1. PICK j \in DOMAIN p : p[j].id = x.id /\ f[p[j].off].doc = x.doc
        BY <2>2, <2>4
      <3>2. PICK i \in DOMAIN q : q[i] = p[j]
        BY <2>1, <3>1 DEF Loses
      <3> QED
        BY <1>2, <1>3, <3>1, <3>2
    <2> QED
      BY <2>3, <2>4
  <1>5. Agrees(r, q, g, l)
    BY <1>4 DEF Agrees
  <1> QED
    BY <1>5 DEF g

\* Of the cache c has become r, with maybe an entry for id, off and doc.
Gains(c, r, id, off, doc) ==
    \A x \in Range(r.entries) : \/ x \in Range(c.entries)
                                \/ x.id = id /\ x.off = off /\ x.doc = doc

\* A read puts a version of the file into the cache; one that is not current is
\* noticed.
LEMMA ReadAgrees ==
    ASSUME NEW p, NEW f, Indexes(p, f), NEW id, NEW off \in Offsets, NEW doc,
           f[off].doc = doc, NEW l, NEW m, ~m => ~l /\ OffIn(p, id) = off,
           NEW c, Agrees(c, p, f, l), NEW r, Gains(c, r, id, off, doc)
    PROVE  Agrees(r, p, f, m)
  <1>1. ASSUME NEW x \in Range(r.entries)
        PROVE  /\ \A i \in DOMAIN p : p[i].id = x.id /\ p[i].off = x.off
                     => f[x.off].doc = x.doc
               /\ ~m => \E i \in DOMAIN p : p[i].id = x.id /\ f[p[i].off].doc = x.doc
    <2>1. CASE x \in Range(c.entries)
      BY <2>1 DEF Agrees
    <2>2. CASE x.id = id /\ x.off = off /\ x.doc = doc
      <3>1. f[x.off].doc = x.doc
        BY <2>2
      <3>2. ASSUME ~m
            PROVE  \E i \in DOMAIN p : p[i].id = x.id /\ f[p[i].off].doc = x.doc
        <4>1. off # 0
          BY ReadsAssumption DEF Offsets
        <4>2. \E i \in DOMAIN p : p[i].id = id /\ p[i].off = off
          BY <3>2, <4>1, OffsetIs
        <4> QED
          BY <2>2, <4>2
      <3> QED
        BY <3>1, <3>2
    <2> QED
      BY <1>1, <2>1, <2>2 DEF Gains
  <1> QED
    BY <1>1 DEF Agrees

\* A cache with fewer entries agrees as well, and an empty one always.
LEMMA FewerAgree ==
    ASSUME NEW p, NEW f, NEW l, NEW m, ~m => ~l, NEW c, Agrees(c, p, f, l), NEW r,
           \A x \in Range(r.entries) : x \in Range(c.entries)
    PROVE  Agrees(r, p, f, m)
  BY DEF Agrees

-----------------------------------------------------------------------------
(* Compaction.                                                             *)

\* The offsets an index keeps, and where compaction puts them.
Kept(p) == {p[i].off : i \in DOMAIN p}

Rank(p, o) == Cardinality({x \in Kept(p) : x <= o})

\* The kept offsets are numbered from 1 without a gap.
LEMMA RankEffect ==
    ASSUME NEW p, NEW f, Indexes(p, f)
    PROVE  /\ Cardinality(Kept(p)) \in 0 .. MaxFile
           /\ \A o \in Kept(p) : Rank(p, o) \in 1 .. Cardinality(Kept(p))
           /\ \A o, x \in Kept(p) : Rank(p, o) = Rank(p, x) => o = x
           /\ \A k \in 1 .. Cardinality(Kept(p)) : \E o \in Kept(p) : Rank(p, o) = k
  <1> DEFINE S == Kept(p)
             R == {z \in S \X S : z[1] < z[2]}
  <1>1. S \subseteq Offsets
    BY OffsetFound DEF Kept
  <1>2. IsFiniteSet(Offsets) /\ Cardinality(Offsets) = MaxFile
    <2>1. 1 \in Int /\ MaxFile \in Int /\ MaxFile \in Nat
      BY ReadsAssumption
    <2>2. /\ IsFiniteSet(1 .. MaxFile)
          /\ Cardinality(1 .. MaxFile) = IF 1 > MaxFile THEN 0 ELSE MaxFile - 1 + 1
      BY <2>1, FS_Interval
    <2> QED
      BY <2>1, <2>2 DEF Offsets
  <1>3. /\ IsFiniteSet(S) /\ Cardinality(S) <= MaxFile
    BY <1>1, <1>2, FS_Subset
  <1>4. \A o \in S : o \in Nat
    BY <1>1 DEF Offsets
  <1> HIDE DEF S
  <1>5. \A a, b : <<a, b>> \in R <=> a \in S /\ b \in S /\ a < b
    OBVIOUS
  <1> HIDE DEF R
  <1>6. /\ \A a \in S : <<a, a>> \notin R
        /\ \A a, b, c \in S : <<a, b>> \in R /\ <<b, c>> \in R => <<a, c>> \in R
        /\ \A a, b \in S : a = b \/ <<a, b>> \in R \/ <<b, a>> \in R
    BY <1>4, <1>5
  <1>7. /\ Cardinality(S) \in Nat
        /\ \A a \in S : /\ IsFiniteSet(Before(S, R, a))
                        /\ Cardinality(Before(S, R, a)) \in 0 .. Cardinality(S) - 1
        /\ \A a, b \in S :
              Cardinality(Before(S, R, a)) = Cardinality(Before(S, R, b)) => a = b
        /\ \A k \in 0 .. Cardinality(S) - 1 :
              \E a \in S : Cardinality(Before(S, R, a)) = k
    BY <1>3, <1>6, RankOnto
  <1>8. ASSUME NEW o \in S
        PROVE  /\ Cardinality(Before(S, R, o)) \in 0 .. Cardinality(S) - 1
               /\ Rank(p, o) = Cardinality(Before(S, R, o)) + 1
    <2>1. {x \in S : x <= o} = Before(S, R, o) \cup {o}
      BY <1>4, <1>5 DEF Before
    <2>2. o \notin Before(S, R, o)
      BY <1>4, <1>5 DEF Before
    <2>3. IsFiniteSet(Before(S, R, o))
      BY <1>7
    <2>4. Cardinality(Before(S, R, o) \cup {o}) = Cardinality(Before(S, R, o)) + 1
      BY <2>2, <2>3, FS_AddElement
    <2> QED
      BY <1>7, <2>1, <2>4 DEF Rank, S
  <1>9. \A o \in S : Rank(p, o) \in 1 .. Cardinality(S)
    BY <1>7, <1>8
  <1>10. \A o, x \in S : Rank(p, o) = Rank(p, x) => o = x
    <2>1. TAKE o, x \in S
    <2>2. HAVE Rank(p, o) = Rank(p, x)
    <2>3. Cardinality(Before(S, R, o)) = Cardinality(Before(S, R, x))
      BY <1>7, <1>8, <2>2
    <2> QED
      BY <1>7, <2>3
  <1>11. ASSUME NEW k \in 1 .. Cardinality(S)
         PROVE  \E o \in S : Rank(p, o) = k
    <2>1. k - 1 \in 0 .. Cardinality(S) - 1 /\ k - 1 + 1 = k
      BY <1>7
    <2>2. PICK o \in S : Cardinality(Before(S, R, o)) = k - 1
      BY <1>7, <2>1
    <2> QED
      BY <1>8, <2>1, <2>2
  <1> QED
    BY <1>3, <1>7, <1>9, <1>10, <1>11, ReadsAssumption DEF S

\* In q and g the documents of p and f have only changed places.
Packed(p, f, q, g) ==
    /\ DOMAIN q = DOMAIN p
    /\ \A i \in DOMAIN p : q[i].id = p[i].id /\ g[q[i].off] = f[p[i].off]

\* What compact() makes of an index and of the records.
PackedIndex(p) == [i \in DOMAIN p |-> [p[i] EXCEPT !.off = Rank(p, @)]]

PackedFile(p, f) ==
    [k \in 1 .. Cardinality(Kept(p)) |-> f[CHOOSE o \in Kept(p) : Rank(p, o) = k]]

\* Compaction keeps every document, under its new offset.
LEMMA CompactEffect ==
    ASSUME NEW p, NEW f, Indexes(p, f)
    PROVE  /\ Indexes(PackedIndex(p), PackedFile(p, f))
           /\ Packed(p, f, PackedIndex(p), PackedFile(p, f))
  <1> DEFINE n == Cardinality(Kept(p))
             q == PackedIndex(p)
             g == PackedFile(p, f)
             source(k) == CHOOSE o \in Kept(p) : Rank(p, o) = k
  <1>1. /\ n \in 0 .. MaxFile /\ n \in Nat
        /\ \A o \in Kept(p) : Rank(p, o) \in 1 .. n
        /\ \A o, x \in Kept(p) : Rank(p, o) = Rank(p, x) => o = x
        /\ \A k \in 1 .. n : \E o \in Kept(p) : Rank(p, o) = k
    BY RankEffect, ReadsAssumption
  <1>2. \A k \in 1 .. n : source(k) \in Kept(p) /\ Rank(p, source(k)) = k
    BY <1>1
  <1>3. /\ DOMAIN g = 1 .. n /\ g = [k \in 1 .. n |-> f[source(k)]]
        /\ \A k \in 1 .. n : g[k] = f[source(k)]
    BY DEF PackedFile
  <1> HIDE DEF source, n, g
  <1>4. \A o \in Kept(p) : Rank(p, o) \in DOMAIN g /\ g[Rank(p, o)] = f[o]
    BY <1>1, <1>2, <1>3
  <1>5. /\ p \in Seq(Candidates) /\ DOMAIN p = 1 .. Len(p) /\ f \in Seq(Recs)
        /\ Len(p) \in Nat /\ DOMAIN f = 1 .. Len(f)
        /\ \A i \in DOMAIN p : /\ p[i] \in Candidates
                               /\ p[i].off \in DOMAIN f
                               /\ f[p[i].off] \in Docs /\ f[p[i].off].id = p[i].id
        /\ \A i, j \in DOMAIN p : p[i].id = p[j].id => i = j
    BY DEF Indexes
  <1>6. g \in Seq(Recs)
    <2>1. \A o \in Kept(p) : f[o] \in Recs
      BY <1>5 DEF Kept, Indexes
    <2>2. \A k \in 1 .. n : f[source(k)] \in Recs
      BY <1>2, <2>1
    <2> QED
      BY <1>1, <1>3, <2>2
  <1>7. \A i \in DOMAIN p : p[i].off \in Kept(p)
    BY DEF Kept
  <1>8. ASSUME NEW i \in DOMAIN p
        PROVE  /\ q[i].id = p[i].id /\ q[i].off = Rank(p, p[i].off)
               /\ q[i] \in Candidates
    <2>1. p[i].off \in Kept(p) /\ Rank(p, p[i].off) \in Offsets
      <3>1. Rank(p, p[i].off) \in 1 .. n
        BY <1>1, <1>7
      <3> QED
        BY <1>1, <1>7, <3>1, ReadsAssumption DEF Offsets
    <2> DEFINE b == p[i].id
               o == p[i].off
               r == Rank(p, p[i].off)
    <2>2. p[i] = [id |-> b, off |-> o] /\ b \in DocIds
      BY <1>5 DEF Candidates
    <2>3. q[i] = [p[i] EXCEPT !.off = r]
      BY DEF PackedIndex
    <2>4. r \in Offsets
      BY <2>1
    <2> HIDE DEF b, o, r
    <2>5. q[i] = [id |-> b, off |-> r]
      BY <2>2, <2>3
    <2>6. q[i].id = b /\ q[i].off = r /\ q[i] \in Candidates
      BY <2>2, <2>4, <2>5 DEF Candidates
    <2> QED
      BY <2>6 DEF b, r
  <1>9. DOMAIN q = DOMAIN p /\ q = [i \in DOMAIN p |-> q[i]]
    BY DEF PackedIndex
  <1> HIDE DEF q
  <1>10. q \in Seq(Candidates)
    <2>1. \A i \in 1 .. Len(p) : q[i] \in Candidates
      BY <1>5, <1>8
    <2>2. q \in [1 .. Len(p) -> Candidates]
      BY <1>5, <1>9, <2>1
    <2> QED
      BY <1>5, <2>2
  <1>11. \A i \in DOMAIN p : q[i].off \in DOMAIN g /\ g[q[i].off] = f[p[i].off]
    BY <1>4, <1>7, <1>8
  <1>12. \A i, j \in DOMAIN q : q[i].id = q[j].id => i = j
    BY <1>5, <1>8, <1>9
  <1>13. Packed(p, f, q, g)
    BY <1>8, <1>9, <1>11 DEF Packed
  <1>14. \A i \in DOMAIN q : /\ q[i].off \in DOMAIN g
                             /\ g[q[i].off] \in Docs /\ g[q[i].off].id = q[i].id
    BY <1>5, <1>8, <1>9, <1>11
  <1> QED
    BY <1>6, <1>10, <1>12, <1>13, <1>14 DEF Indexes, q, g

\* Until a late read the cache holds what the documents are, wherever they move.
LEMMA CompactAgrees ==
    ASSUME NEW p, NEW f, Indexes(p, f), NEW q, NEW g, Indexes(q, g), Packed(p, f, q, g),
           NEW l, ~l, NEW c, Agrees(c, p, f, l)
    PROVE  Agrees(c, q, g, l)
  <1>1. ASSUME NEW e \in Range(c.entries)
        PROVE  /\ \A i \in DOMAIN q : q[i].id = e.id /\ q[i].off = e.off
                     => g[e.off].doc = e.doc
               /\ \E i \in DOMAIN q : q[i].id = e.id /\ g[q[i].off].doc = e.doc
    <2>1. PICK i \in DOMAIN p : p[i].id = e.id /\ f[p[i].off].doc = e.doc
      BY DEF Agrees
    <2>2. i \in DOMAIN q /\ q[i].id = e.id /\ g[q[i].off].doc = e.doc
      BY <2>1 DEF Packed
    <2>3. \A j \in DOMAIN q : q[j].id = e.id => j = i
      BY <2>2 DEF Indexes
    <2> QED
      BY <2>2, <2>3
  <1> QED
    BY <1>1 DEF Agrees

-----------------------------------------------------------------------------
(* Sorting, and the documents that match.                                  *)

\* sort() keeps the number of documents.
LEMMA SortedEffect ==
    ASSUME NEW s \in Seq(Docs)
    PROVE  Sorted(s) \in Seq(Docs) /\ Len(Sorted(s)) = Len(s)
  <1> DEFINE n == Len(s)
             D == 1 .. n
             before(i, j) == s[i].doc < s[j].doc \/ (s[i].doc = s[j].doc /\ i < j)
             R == {z \in D \X D : before(z[1], z[2])}
             at(k) == CHOOSE i \in D : Cardinality({j \in D : before(j, i)}) = k - 1
  <1>1. n \in Nat /\ DOMAIN s = D
    OBVIOUS
  <1>2. \A i \in D : s[i] \in Docs /\ s[i].doc \in Nat /\ i \in Nat
    <2>1. TAKE i \in D
    <2>2. s[i] \in Docs
      BY <1>1
    <2>3. s[i].doc \in Values
      BY <2>2 DEF Docs
    <2>4. s[i].doc \in Nat
      BY <2>3, ValuesAssumption
    <2>5. i \in Nat
      BY <1>1
    <2> QED
      BY <2>2, <2>4, <2>5
  <1>3. /\ \A i \in D : ~before(i, i)
        /\ \A i, j, k \in D : before(i, j) /\ before(j, k) => before(i, k)
        /\ \A i, j \in D : i = j \/ before(i, j) \/ before(j, i)
    BY <1>2
  <1>4. IsFiniteSet(D) /\ Cardinality(D) = n
    <2>1. 1 \in Int /\ n \in Int
      BY <1>1
    <2>2. IsFiniteSet(D) /\ Cardinality(D) = IF 1 > n THEN 0 ELSE n - 1 + 1
      BY <2>1, FS_Interval
    <2> QED
      BY <1>1, <2>2
  <1>5. Sorted(s) = [k \in D |-> s[at(k)]]
    BY <1>1 DEF Sorted
  <1> HIDE DEF before, D
  <1>6. \A i, j : <<i, j>> \in R <=> i \in D /\ j \in D /\ before(i, j)
    OBVIOUS
  <1>7. \A i \in D : {j \in D : before(j, i)} = Before(D, R, i)
    BY <1>6 DEF Before
  <1> HIDE DEF R
  <1>8. \A k \in 0 .. Cardinality(D) - 1 : \E i \in D : Cardinality(Before(D, R, i)) = k
    <2> HIDE DEF n, at
    <2>1. /\ \A i \in D : <<i, i>> \notin R
          /\ \A i, j, k \in D : <<i, j>> \in R /\ <<j, k>> \in R => <<i, k>> \in R
          /\ \A i, j \in D : i = j \/ <<i, j>> \in R \/ <<j, i>> \in R
      BY <1>3, <1>6
    <2> QED
      BY <1>4, <2>1, RankOnto
  <1>9. \A k \in D : at(k) \in D
    <2>1. TAKE k \in D
    <2>2. k - 1 \in 0 .. Cardinality(D) - 1
      BY <1>1, <1>4 DEF D
    <2>3. PICK i \in D : Cardinality(Before(D, R, i)) = k - 1
      BY <1>8, <2>2
    <2>4. Cardinality({j \in D : before(j, i)}) = k - 1
      BY <1>7, <2>3
    <2> QED
      BY <2>4
  <1> HIDE DEF at
  <1>10. \A k \in D : s[at(k)] \in Docs
    BY <1>2, <1>9
  <1> HIDE DEF n
  <1>11. Sorted(s) \in Seq(Docs) /\ Len(Sorted(s)) = n
    BY <1>1, <1>5, <1>10 DEF D
  <1> QED
    BY <1>11 DEF n

\* What the first n candidates of a cursor were when find() was called.
Seen(cur, n) == [i \in 1 .. n |-> Found(cur.cands[i].id, cur.snap[i])]

\* A cursor whose snapshot is complete.
Taken(cur) == cur \in CursorStates /\ Len(cur.snap) = Len(cur.cands)

\* The parts of a cursor's snapshot.
LEMMA TakenType ==
    ASSUME NEW cur, Taken(cur)
    PROVE  /\ Len(cur.cands) \in Nat /\ DOMAIN cur.cands = 1 .. Len(cur.cands)
           /\ Len(cur.snap) = Len(cur.cands)
           /\ \A i \in 1 .. Len(cur.cands) :
                 /\ cur.cands[i] \in Candidates /\ cur.cands[i].id \in DocIds
                 /\ cur.cands[i].off \in Offsets /\ cur.snap[i] \in Values
           /\ cur.query \in Queries
  <1>1. cur.cands \in Seq(Candidates) /\ cur.snap \in Seq(Values) /\ cur.query \in Queries
    BY DEF Taken, CursorStates
  <1>2. Len(cur.cands) \in Nat /\ Len(cur.snap) = Len(cur.cands)
    BY <1>1 DEF Taken
  <1>3. ASSUME NEW i \in 1 .. Len(cur.cands)
        PROVE  /\ cur.cands[i] \in Candidates /\ cur.cands[i].id \in DocIds
               /\ cur.cands[i].off \in Offsets /\ cur.snap[i] \in Values
    <2>1. cur.cands[i] \in Candidates
      BY <1>1
    <2>2. cur.snap[i] \in Values
      BY <1>1, <1>2
    <2> QED
      BY <2>1, <2>2 DEF Candidates
  <1> QED
    BY <1>1, <1>2, <1>3

\* They are documents.
LEMMA SeenEffect ==
    ASSUME NEW cur, Taken(cur), NEW n \in 0 .. Len(cur.cands)
    PROVE  /\ Seen(cur, n) \in Seq(Docs) /\ Len(Seen(cur, n)) = n
           /\ \A i \in 1 .. n : Seen(cur, n)[i] = Found(cur.cands[i].id, cur.snap[i])
  <1>1. n \in Nat /\ \A i \in 1 .. n : i \in 1 .. Len(cur.cands)
    BY TakenType
  <1>2. \A i \in 1 .. n : Found(cur.cands[i].id, cur.snap[i]) \in Docs
    <2>1. TAKE i \in 1 .. n
    <2>2. cur.cands[i].id \in DocIds /\ cur.snap[i] \in Values
      BY <1>1, TakenType
    <2> QED
      BY <2>2 DEF Found, Docs
  <1> HIDE DEF Found
  <1> QED
    BY <1>1, <1>2 DEF Seen

\* What a query selects.
Selected(q) == {d \in Docs : Evaluate(q, d.doc)}

\* The matches among the first n candidates.
LEMMA MatchesType ==
    ASSUME NEW cur, Taken(cur), NEW n \in 0 .. Len(cur.cands)
    PROVE  /\ MatchesAmong(cur, n) = Only(Seen(cur, n), Selected(cur.query))
           /\ MatchesAmong(cur, n) \in Seq(Docs)
  <1>1. MatchesAmong(cur, n) = Only(Seen(cur, n), Selected(cur.query))
    BY DEF MatchesAmong, Seen, Selected
  <1>2. Seen(cur, n) \in Seq(Docs)
    BY SeenEffect
  <1> QED
    BY <1>1, <1>2, OnlyElements

\* None at first.
LEMMA NoMatchesYet ==
    ASSUME NEW cur
    PROVE  MatchesAmong(cur, 0) = << >>
  <1>1. Seen(cur, 0) = << >>
    BY DEF Seen
  <1>2. MatchesAmong(cur, 0) = Only(Seen(cur, 0), Selected(cur.query))
    BY DEF MatchesAmong, Seen, Selected
  <1> QED
    BY <1>1, <1>2, OnlyOfNothing

\* One more candidate is one more match if the query selects it.
LEMMA OneMoreMatch ==
    ASSUME NEW cur, Taken(cur), NEW n \in 0 .. Len(cur.cands) - 1
    PROVE  MatchesAmong(cur, n + 1) =
               IF Evaluate(cur.query, cur.snap[n + 1])
               THEN Append(MatchesAmong(cur, n),
                           Found(cur.cands[n + 1].id, cur.snap[n + 1]))
               ELSE MatchesAmong(cur, n)
  <1> DEFINE s == Seen(cur, n)
             t == Seen(cur, n + 1)
             d == Found(cur.cands[n + 1].id, cur.snap[n + 1])
             S == Selected(cur.query)
  <1>1. n \in Nat /\ n \in 0 .. Len(cur.cands) /\ n + 1 \in 0 .. Len(cur.cands)
        /\ n + 1 \in 1 .. Len(cur.cands) /\ n + 1 \in 1 .. n + 1
        /\ \A i \in 1 .. n : i \in 1 .. n + 1
    BY TakenType
  <1>2. /\ s \in Seq(Docs) /\ Len(s) = n
        /\ \A i \in 1 .. n : s[i] = Found(cur.cands[i].id, cur.snap[i])
    BY <1>1, SeenEffect
  <1>3. /\ t \in Seq(Docs) /\ Len(t) = n + 1
        /\ \A i \in 1 .. n + 1 : t[i] = Found(cur.cands[i].id, cur.snap[i])
    BY <1>1, SeenEffect
  <1>4. /\ MatchesAmong(cur, n) = Only(s, S) /\ MatchesAmong(cur, n + 1) = Only(t, S)
    BY <1>1, MatchesType
  <1>5. t[n + 1] = d /\ \A i \in 1 .. Len(s) : t[i] = s[i]
    BY <1>1, <1>2, <1>3
  <1>6. d \in S <=> Evaluate(cur.query, cur.snap[n + 1])
    <2>1. cur.cands[n + 1].id \in DocIds /\ cur.snap[n + 1] \in Values
      BY <1>1, TakenType
    <2> QED
      BY <2>1 DEF Selected, Found, Docs
  <1> HIDE DEF s, t, d, S
  <1>7. Only(t, S) = IF t[Len(t)] \in S THEN Append(Only(s, S), t[Len(t)]) ELSE Only(s, S)
    BY <1>2, <1>3, <1>5, OnlyLonger
  <1>8. MatchesAmong(cur, n + 1) =
            IF d \in S THEN Append(MatchesAmong(cur, n), d) ELSE MatchesAmong(cur, n)
    BY <1>3, <1>4, <1>5, <1>7
  <1> QED
    BY <1>6, <1>8 DEF d

\* The matches among fewer candidates are the first ones.
LEMMA MatchesGrow ==
    ASSUME NEW cur, Taken(cur), NEW n \in 0 .. Len(cur.cands)
    PROVE  /\ Len(MatchesAmong(cur, n)) <= n
           /\ Len(MatchesAmong(cur, n)) <= Len(SnapshotMatches(cur))
           /\ \A i \in 1 .. Len(MatchesAmong(cur, n)) :
                 MatchesAmong(cur, n)[i] = SnapshotMatches(cur)[i]
  <1> DEFINE m(k) == MatchesAmong(cur, k)
             L == Len(cur.cands)
             Starts(a, b) == Len(a) <= Len(b) /\ \A i \in 1 .. Len(a) : a[i] = b[i]
             T == {k \in 0 .. L : Len(m(k)) <= k /\ (n <= k => Starts(m(n), m(k)))}
  <1>1. L \in Nat /\ n \in Nat /\ n <= L
    BY TakenType
  <1>2. \A k \in 0 .. L : m(k) \in Seq(Docs)
    BY MatchesType
  <1>3. m(0) = << >>
    BY NoMatchesYet
  <1>4. \A k \in 0 .. L - 1 : \/ m(k + 1) = m(k)
                              \/ \E d \in Docs : m(k + 1) = Append(m(k), d)
    <2>1. TAKE k \in 0 .. L - 1
    <2>2. k + 1 \in 1 .. L
      BY <1>1
    <2>3. cur.cands[k + 1].id \in DocIds /\ cur.snap[k + 1] \in Values
      BY <2>2, TakenType
    <2>4. Found(cur.cands[k + 1].id, cur.snap[k + 1]) \in Docs
      BY <2>3 DEF Found, Docs
    <2> QED
      BY <2>4, OneMoreMatch
  <1>5. n \in 0 .. L /\ L \in 0 .. L /\ 0 \in 0 .. L
    BY <1>1
  <1> HIDE DEF m, L
  <1>6. Starts(m(n), m(n))
    <2>1. m(n) \in Seq(Docs) /\ Len(m(n)) \in Nat
      BY <1>2, <1>5
    <2> QED
      BY <2>1
  <1>7. 0 \in T
    <2>1. n <= 0 => n = 0
      BY <1>1
    <2> QED
      BY <1>3, <1>5, <1>6, <2>1
  <1>8. ASSUME NEW k \in 0 .. L - 1, k \in T
        PROVE  k + 1 \in T
    <2>1. k \in 0 .. L /\ k + 1 \in 0 .. L /\ k \in Nat
      BY <1>1
    <2>2. m(k) \in Seq(Docs) /\ m(n) \in Seq(Docs) /\ m(k + 1) \in Seq(Docs)
          /\ Len(m(k)) \in Nat /\ Len(m(n)) \in Nat
      BY <1>2, <1>5, <2>1
    <2>3. /\ Len(m(k + 1)) <= Len(m(k)) + 1 /\ Len(m(k)) <= Len(m(k + 1))
          /\ \A i \in 1 .. Len(m(k)) : m(k + 1)[i] = m(k)[i]
      <3>1. CASE m(k + 1) = m(k)
        BY <2>2, <3>1
      <3>2. CASE \E d \in Docs : m(k + 1) = Append(m(k), d)
        <4> DEFINE a == m(k)
                   b == m(k + 1)
        <4>1. PICK d \in Docs : b = Append(a, d)
          BY <3>2
        <4>2. a \in Seq(Docs)
          BY <2>2
        <4> HIDE DEF a, b
        <4>3. Len(b) = Len(a) + 1 /\ Len(a) \in Nat /\ \A i \in 1 .. Len(a) : b[i] = a[i]
          BY <4>1, <4>2
        <4>4. Len(b) <= Len(a) + 1 /\ Len(a) <= Len(b)
          BY <4>3
        <4> QED
          BY <4>3, <4>4 DEF a, b
      <3> QED
        BY <1>4, <3>1, <3>2
    <2>4. Len(m(k + 1)) <= k + 1
      BY <1>8, <2>1, <2>2, <2>3
    <2>5. ASSUME n <= k + 1
          PROVE  Starts(m(n), m(k + 1))
      <3>1. CASE n = k + 1
        BY <1>6, <3>1
      <3>2. CASE n <= k
        <4>1. Starts(m(n), m(k))
          BY <1>8, <3>2
        <4>2. \A i \in 1 .. Len(m(n)) : i \in 1 .. Len(m(k))
          BY <2>2, <4>1
        <4>3. Len(m(k + 1)) \in Nat
          BY <2>2
        <4> QED
          BY <2>2, <2>3, <4>1, <4>2, <4>3
      <3> QED
        BY <1>1, <2>1, <2>5, <3>1, <3>2
    <2> QED
      BY <2>1, <2>4, <2>5
  <1> HIDE DEF T
  <1>9. \A k \in 0 .. L : k \in T
    BY <1>1, <1>7, <1>8, InductionUpTo
  <1>10. n \in T /\ L \in T
    BY <1>5, <1>9
  <1>11. Len(m(n)) <= n /\ Starts(m(n), m(L))
    BY <1>1, <1>10 DEF T
  <1> QED
    BY <1>11 DEF m, L, SnapshotMatches

\* Every candidate matches a query for all documents.
LEMMA AllMatch ==
    ASSUME NEW cur, Taken(cur), cur.query.all, NEW n \in 0 .. Len(cur.cands)
    PROVE  Len(MatchesAmong(cur, n)) = n
  <1>1. cur.query.accepts = Values
    <2>1. cur.query \in Queries
      BY TakenType
    <2> QED
      BY <2>1 DEF Queries
  <1>2. /\ Seen(cur, n) \in Seq(Docs) /\ Len(Seen(cur, n)) = n
    BY SeenEffect
  <1>3. \A d \in Docs : d \in Selected(cur.query)
    BY <1>1 DEF Selected, Evaluate, Docs
  <1>4. \A i \in DOMAIN Seen(cur, n) : Seen(cur, n)[i] \in Selected(cur.query)
    BY <1>2, <1>3
  <1>5. Only(Seen(cur, n), Selected(cur.query)) = Seen(cur, n)
    BY <1>2, <1>4, OnlyAll
  <1> QED
    BY <1>2, <1>5, MatchesType

\* The matches depend on the query, the candidates and the snapshot alone.
LEMMA SameMatches ==
    ASSUME NEW cur, NEW new, new.query = cur.query, new.cands = cur.cands,
           new.snap = cur.snap, NEW n
    PROVE  /\ MatchesAmong(new, n) = MatchesAmong(cur, n)
           /\ SnapshotMatches(new) = SnapshotMatches(cur)
  BY DEF MatchesAmong, SnapshotMatches

-----------------------------------------------------------------------------
(* A cursor, the records f and the caches cs.                              *)

\* What the invariant says of one cursor.
CursorStands(cur, f, cs) ==
    /\ TypeOKCursor(cur) /\ cur.cache <= Len(cs)
    /\ HoldsSnapshot(f, cur) /\ Stands(cur)
    /\ cur.cache # 0 => Serves(cs[cur.cache], cur)

\* Caches of the right shape, each within its budget.
CachesFit(cs) ==
    cs \in Seq(Caches(Offsets)) /\ \A k \in DOMAIN cs : WithinBudget(cs[k])

\* Records are only added.
Grows(f, g) ==
    /\ f \in Seq(Recs) /\ g \in Seq(Recs) /\ Len(f) <= Len(g)
    /\ \A i \in DOMAIN f : g[i] = f[i]

\* An entry that r has and c has not is under an offset beyond f, or what f holds
\* there.
Adds(c, r, f) ==
    \A x \in Range(r.entries) : \/ x \in Range(c.entries)
                                \/ x.off \notin DOMAIN f
                                \/ f[x.off] = Found(x.id, x.doc)

CachesGrow(f, cs, ds) ==
    /\ CachesFit(ds) /\ Len(cs) <= Len(ds)
    /\ \A k \in DOMAIN cs : Adds(cs[k], ds[k], f)

\* A document determines its record.
LEMMA FoundIsExact ==
    ASSUME NEW id, NEW doc, NEW b, NEW v, Found(id, doc) = Found(b, v)
    PROVE  id = b /\ doc = v
  BY DEF Found

\* A cursor stands as it did while records are added and caches change.
LEMMA CursorStandsStill ==
    ASSUME NEW cur, NEW f, NEW cs \in Seq(Caches(Offsets)), CursorStands(cur, f, cs),
           NEW g, Grows(f, g), NEW ds, CachesGrow(f, cs, ds)
    PROVE  CursorStands(cur, g, ds)
  <1>1. TypeOKCursor(cur) /\ Stands(cur) /\ HoldsSnapshot(f, cur) /\ cur.cache <= Len(cs)
        /\ (cur.cache # 0 => Serves(cs[cur.cache], cur))
    BY DEF CursorStands
  <1>2. /\ f \in Seq(Recs) /\ g \in Seq(Recs) /\ \A i \in DOMAIN f : i \in DOMAIN g /\ g[i] = f[i]
    <2>1. f \in Seq(Recs) /\ g \in Seq(Recs) /\ Len(f) <= Len(g)
      BY DEF Grows
    <2>2. Len(f) \in Nat /\ Len(g) \in Nat /\ DOMAIN f = 1 .. Len(f) /\ DOMAIN g = 1 .. Len(g)
      BY <2>1
    <2>3. \A i \in DOMAIN f : i \in DOMAIN g
      BY <2>1, <2>2
    <2> QED
      BY <2>1, <2>3 DEF Grows
  <1>3. HoldsSnapshot(g, cur)
    <2>1. Len(cur.snap) = Len(cur.cands)
      BY <1>1 DEF HoldsSnapshot
    <2>2. ASSUME NEW i \in DOMAIN cur.cands
          PROVE  LET o == cur.cands[i].off IN
                 /\ o \in DOMAIN g /\ g[o] = Found(cur.cands[i].id, cur.snap[i])
                 /\ cur.range \notin {None, NoRange} =>
                       /\ o - cur.range.start + 1 \in DOMAIN cur.range.recs
                       /\ cur.range.recs[o - cur.range.start + 1] = g[o]
      <3> DEFINE o == cur.cands[i].off
      <3>1. /\ o \in DOMAIN f /\ f[o] = Found(cur.cands[i].id, cur.snap[i])
            /\ cur.range \notin {None, NoRange} =>
                  /\ o - cur.range.start + 1 \in DOMAIN cur.range.recs
                  /\ cur.range.recs[o - cur.range.start + 1] = f[o]
        BY <1>1 DEF HoldsSnapshot
      <3>2. o \in DOMAIN g /\ g[o] = f[o]
        BY <1>2, <3>1
      <3> QED
        BY <3>1, <3>2
    <2> QED
      BY <2>1, <2>2 DEF HoldsSnapshot
  <1>4. cur.cache \in Nat /\ Len(cs) \in Nat /\ Len(ds) \in Nat /\ DOMAIN cs = 1 .. Len(cs)
        /\ Len(cs) <= Len(ds)
    <2>1. cur.cache \in Nat
      BY <1>1 DEF TypeOKCursor, CursorStates
    <2>2. ds \in Seq(Caches(Offsets)) /\ Len(cs) <= Len(ds)
      BY DEF CachesGrow, CachesFit
    <2> QED
      BY <2>1, <2>2
  <1>5. ASSUME cur.cache # 0
        PROVE  Serves(ds[cur.cache], cur)
    <2> DEFINE k == cur.cache
    <2>1. k \in DOMAIN cs
      BY <1>1, <1>4, <1>5
    <2>2. ASSUME NEW e \in Range(ds[k].entries), NEW i \in DOMAIN cur.cands,
                 e.id = cur.cands[i].id, e.off = cur.cands[i].off
          PROVE  e.doc = cur.snap[i]
      <3>1. e.off \in DOMAIN f /\ f[e.off] = Found(e.id, cur.snap[i])
        BY <1>1, <2>2 DEF HoldsSnapshot
      <3>2. CASE e \in Range(cs[k].entries)
        BY <1>1, <1>5, <2>2, <3>2 DEF Serves
      <3>3. CASE f[e.off] = Found(e.id, e.doc)
        <4>1. Found(e.id, e.doc) = Found(e.id, cur.snap[i])
          BY <3>1, <3>3
        <4> QED
          BY <4>1, FoundIsExact
      <3> QED
        BY <2>1, <3>1, <3>2, <3>3 DEF CachesGrow, Adds
    <2> QED
      BY <2>2 DEF Serves
  <1>6. cur.cache <= Len(ds)
    BY <1>1, <1>4
  <1> QED
    BY <1>1, <1>3, <1>5, <1>6 DEF CursorStands

-----------------------------------------------------------------------------
(* Reading a candidate.                                                    *)

\* The buffer of a range, if it has one, holds the candidates.
Covers(range, cur, f) ==
    range \notin {None, NoRange} =>
        \A i \in DOMAIN cur.cands :
            LET o == cur.cands[i].off IN
            /\ o - range.start + 1 \in DOMAIN range.recs
            /\ range.recs[o - range.start + 1] = f[o]

\* An empty range is not an undefined one.
LEMMA NoRangeIsRange == NoRange \in Ranges /\ NoRange # None
  <1>1. NoRange \in Ranges
    BY DEF NoRange, Ranges
  <1> QED
    BY <1>1, NoneAssumption

\* The stretch read in bulk covers every candidate.
LEMMA LoadedEffect ==
    ASSUME NEW cur, Taken(cur), HoldsSnapshot(file, cur), file \in Seq(Recs),
           Len(cur.cands) # 0
    PROVE  Loaded(cur.cands) \in Ranges /\ Covers(Loaded(cur.cands), cur, file)
  <1> DEFINE offs == {cur.cands[i].off : i \in DOMAIN cur.cands}
             lo == CHOOSE o \in offs : \A p \in offs : o <= p
             hi == CHOOSE o \in offs : \A p \in offs : o >= p
             recs == SubSeq(file, lo, hi)
             back == {MaxFile - o : o \in offs}
  <1>1. /\ Len(cur.cands) \in Nat /\ DOMAIN cur.cands = 1 .. Len(cur.cands)
        /\ \A i \in DOMAIN cur.cands : cur.cands[i].off \in Offsets
    BY TakenType
  <1>2. MaxFile \in Nat
    BY ReadsAssumption
  <1>3. \A o \in offs : o \in Nat /\ o <= MaxFile /\ o \in Offsets
    BY <1>1, <1>2 DEF Offsets
  <1>4. offs # {}
    <2>1. 1 \in DOMAIN cur.cands
      BY <1>1
    <2> QED
      BY <2>1
  <1>5. \A o \in offs : o \in DOMAIN file
    BY DEF HoldsSnapshot
  <1>6. \A i \in DOMAIN cur.cands : cur.cands[i].off \in offs
    OBVIOUS
  <1>7. Loaded(cur.cands) = [start |-> lo, recs |-> recs]
    BY DEF Loaded
  <1> HIDE DEF offs
  <1>8. lo \in offs /\ \A p \in offs : lo <= p
    <2>1. \E o \in offs : \A p \in offs : o <= p
      <3>1. offs \subseteq Nat
        BY <1>3
      <3> QED
        BY <1>4, <3>1, MinExists
    <2> QED
      BY <2>1
  <1>9. hi \in offs /\ \A p \in offs : hi >= p
    <2>1. back \subseteq Nat /\ back # {}
      BY <1>2, <1>3, <1>4
    <2>2. PICK m \in back : \A j \in back : m <= j
      <3> HIDE DEF back
      <3> QED
        BY <2>1, MinExists
    <2>3. PICK o \in offs : m = MaxFile - o
      BY <2>2
    <2>4. \A p \in offs : MaxFile - p \in back
      OBVIOUS
    <2> HIDE DEF back
    <2>5. \A p \in offs : o >= p
      <3>1. TAKE p \in offs
      <3>2. m <= MaxFile - p
        BY <2>2, <2>4
      <3>3. o \in Nat /\ p \in Nat
        BY <1>3
      <3> QED
        BY <1>2, <2>3, <3>2, <3>3
    <2> QED
      BY <2>3, <2>5
  <1> HIDE DEF lo, hi
  <1>10. /\ lo \in Nat /\ hi \in Nat /\ lo <= hi /\ lo \in 1 .. Len(file)
         /\ hi \in 1 .. Len(file) /\ Len(file) \in Nat /\ lo \in Offsets
    BY <1>3, <1>5, <1>8, <1>9
  <1>11. /\ recs \in Seq(Recs) /\ Len(recs) = hi - lo + 1 /\ DOMAIN recs = 1 .. hi - lo + 1
         /\ \A k \in 1 .. hi - lo + 1 : recs[k] = file[lo + k - 1]
    BY <1>10
  <1> HIDE DEF recs
  <1>12. Loaded(cur.cands) \in Ranges
    BY <1>7, <1>10, <1>11 DEF Ranges
  <1>13. ASSUME NEW i \in DOMAIN cur.cands
         PROVE  LET o == cur.cands[i].off IN
                o - lo + 1 \in DOMAIN recs /\ recs[o - lo + 1] = file[o]
    <2> DEFINE o == cur.cands[i].off
    <2>1. o \in offs
      BY <1>6
    <2> HIDE DEF o
    <2>2. o \in Nat /\ lo <= o /\ o <= hi
      BY <1>3, <1>8, <1>9, <2>1
    <2>3. o - lo + 1 \in 1 .. hi - lo + 1 /\ lo + (o - lo + 1) - 1 = o
      BY <1>10, <2>2
    <2>4. o - lo + 1 \in DOMAIN recs /\ recs[o - lo + 1] = file[o]
      BY <1>11, <2>3
    <2> QED
      BY <2>4 DEF o
  <1>14. Covers(Loaded(cur.cands), cur, file)
    BY <1>7, <1>13 DEF Covers
  <1> QED
    BY <1>12, <1>14

\* What resolveBulkRange leaves covers the candidates if it is a buffer, and is
\* not undefined when it is forced.
LEMMA ResolveEffect ==
    ASSUME NEW cur, Taken(cur), HoldsSnapshot(file, cur), file \in Seq(Recs),
           NEW force \in BOOLEAN
    PROVE  LET r == ResolveBulkRange(cur, force) IN
           /\ r \in Ranges \cup {None} /\ Covers(r, cur, file)
           /\ force => r # None
           /\ cur.range # None => r = cur.range
  <1> DEFINE r == ResolveBulkRange(cur, force)
  <1>1. cur.range \in Ranges \cup {None}
    BY DEF Taken, CursorStates
  <1>2. CASE cur.range # None
    <2>1. r = cur.range
      BY <1>2 DEF ResolveBulkRange
    <2>2. Covers(cur.range, cur, file)
      BY DEF HoldsSnapshot, Covers
    <2> QED
      BY <1>1, <1>2, <2>1, <2>2
  <1>3. CASE cur.range = None /\ Len(cur.cands) < SCAN_PRELOAD_THRESHOLD
    <2>1. r = NoRange
      BY <1>3 DEF ResolveBulkRange
    <2> QED
      BY <1>3, <2>1, NoRangeIsRange DEF Covers
  <1>4. CASE cur.range = None /\ ~(Len(cur.cands) < SCAN_PRELOAD_THRESHOLD)
             /\ ~force /\ cur.limit # None
    <2>1. r = None
      BY <1>4 DEF ResolveBulkRange
    <2> QED
      BY <1>4, <2>1 DEF Covers
  <1>5. CASE cur.range = None /\ ~(Len(cur.cands) < SCAN_PRELOAD_THRESHOLD)
             /\ ~(~force /\ cur.limit # None)
    <2>1. r = Loaded(cur.cands)
      BY <1>5 DEF ResolveBulkRange
    <2>2. Len(cur.cands) # 0
      BY <1>5 DEF SCAN_PRELOAD_THRESHOLD
    <2>3. r \in Ranges /\ Covers(r, cur, file)
      BY <2>1, <2>2, LoadedEffect
    <2> QED
      BY <1>5, <2>3, NoneAssumption
  <1> QED
    BY <1>2, <1>3, <1>4, <1>5

\* A record is decoded to the version find() saw.
LEMMA DecodedEffect ==
    ASSUME NEW cur, Taken(cur), HoldsSnapshot(file, cur), NEW i \in DOMAIN cur.cands,
           NEW range, Covers(range, cur, file)
    PROVE  Decoded(range, cur.cands[i].off) = cur.snap[i]
  <1> DEFINE o == cur.cands[i].off
  <1>1. file[o] = Found(cur.cands[i].id, cur.snap[i])
    BY DEF HoldsSnapshot
  <1>2. file[o].doc = cur.snap[i]
    BY <1>1 DEF Found
  <1>3. CASE range \in {None, NoRange}
    BY <1>2, <1>3 DEF Decoded
  <1>4. CASE range \notin {None, NoRange}
    <2>1. range.recs[o - range.start + 1] = file[o]
      BY <1>4 DEF Covers
    <2>2. Decoded(range, o) = range.recs[o - range.start + 1].doc
      BY <1>4 DEF Decoded
    <2> QED
      BY <1>2, <2>1, <2>2
  <1> QED
    BY <1>3, <1>4

\* The cursor with another range.
Ranged(cur, range) == [cur EXCEPT !.range = range]

\* A cursor with another range that covers the candidates stands as it did.
LEMMA RangedStands ==
    ASSUME NEW cur, NEW f, NEW cs, CursorStands(cur, f, cs), NEW range \in Ranges \cup {None},
           Covers(range, cur, f), range = None => cur.range = None
    PROVE  CursorStands(Ranged(cur, range), f, cs)
  <1> DEFINE new == Ranged(cur, range)
  <1>1. /\ cur \in CursorStates /\ TypeOKCursor(cur) /\ HoldsSnapshot(f, cur) /\ Stands(cur)
        /\ cur.cache <= Len(cs) /\ (cur.cache # 0 => Serves(cs[cur.cache], cur))
    BY DEF CursorStands, TypeOKCursor
  <1>2. /\ new \in CursorStates
        /\ new.query = cur.query /\ new.cands = cur.cands /\ new.cache = cur.cache
        /\ new.sort = cur.sort /\ new.limit = cur.limit /\ new.skip = cur.skip
        /\ new.index = cur.index /\ new.skipped = cur.skipped
        /\ new.returned = cur.returned /\ new.range = range /\ new.reads = cur.reads
        /\ new.sorted = cur.sorted /\ new.snap = cur.snap /\ new.out = cur.out
        /\ new.done = cur.done
    BY <1>1 DEF CursorStates, Ranged
  <1> HIDE DEF new
  <1>3. TypeOKCursor(new)
    BY <1>1, <1>2 DEF TypeOKCursor
  <1>4. HoldsSnapshot(f, new)
    BY <1>1, <1>2 DEF HoldsSnapshot, Covers
  <1>5. cur.cache # 0 => Serves(cs[cur.cache], new)
    BY <1>1, <1>2 DEF Serves
  <1>6. Stands(new)
    <2>1. /\ \A n : MatchesAmong(new, n) = MatchesAmong(cur, n)
          /\ SnapshotMatches(new) = SnapshotMatches(cur)
      BY <1>2, SameMatches
    <2>2. Passed(new) = Passed(cur)
      BY <1>2, <2>1 DEF Passed
    <2>3. Length(new) = Length(cur) /\ (AtLimit(new) <=> AtLimit(cur))
      BY <1>2 DEF Length, AtLimit
    <2>4. Exhausted(new) <=> Exhausted(cur)
      BY <1>2, <2>3 DEF Exhausted
    <2> QED
      BY <1>1, <1>2, <2>1, <2>2, <2>4 DEF Stands
  <1>7. CursorStands(new, f, cs)
    BY <1>1, <1>2, <1>3, <1>4, <1>5, <1>6 DEF CursorStands
  <1> QED
    BY <1>7 DEF new

\* A change of the cache k alone, to r.
LEMMA OneCacheChanges ==
    ASSUME NEW cs, CachesFit(cs), NEW k \in 1 .. Len(cs), NEW f,
           NEW r \in Caches(Offsets), WithinBudget(r), Adds(cs[k], r, f)
    PROVE  LET ds == [cs EXCEPT ![k] = r] IN
           /\ CachesGrow(f, cs, ds) /\ Len(ds) = Len(cs)
           /\ ds[k] = r /\ \A j \in DOMAIN cs : j # k => ds[j] = cs[j]
  <1> DEFINE ds == [cs EXCEPT ![k] = r]
  <1>1. /\ cs \in Seq(Caches(Offsets)) /\ DOMAIN cs = 1 .. Len(cs) /\ Len(cs) \in Nat
        /\ \A j \in DOMAIN cs : WithinBudget(cs[j])
    BY DEF CachesFit
  <1>2. /\ DOMAIN ds = DOMAIN cs /\ ds[k] = r /\ \A j \in DOMAIN cs : j # k => ds[j] = cs[j]
    BY <1>1
  <1>3. ds \in Seq(Caches(Offsets)) /\ Len(ds) = Len(cs)
    <2> HIDE DEF CachesFit
    <2> QED
      BY <1>1
  <1> HIDE DEF ds
  <1>4. CachesFit(ds)
    BY <1>1, <1>2, <1>3 DEF CachesFit
  <1>5. \A j \in DOMAIN cs : Adds(cs[j], ds[j], f)
    BY <1>2 DEF Adds
  <1>6. CachesGrow(f, cs, ds)
    BY <1>1, <1>3, <1>4, <1>5 DEF CachesGrow
  <1> QED
    BY <1>2, <1>3, <1>6 DEF ds

\* No cache changes.
LEMMA NoCacheChanges ==
    ASSUME NEW cs, CachesFit(cs), NEW f
    PROVE  CachesGrow(f, cs, cs)
  <1>1. cs \in Seq(Caches(Offsets)) /\ Len(cs) \in Nat
    BY DEF CachesFit
  <1> QED
    BY <1>1 DEF CachesGrow, Adds

\* What readCandidateDocument does to the caches.
LEMMA ReadCachesEffect ==
    ASSUME CachesFit(caches), NEW cur, cur.cache \in 0 .. Len(caches),
           NEW cand \in Candidates, NEW force, NEW doc \in Values,
           doc = Decoded(ResolveBulkRange(cur, force), cand.off),
           file[cand.off] = Found(cand.id, doc)
    PROVE  LET r == ReadCandidate(cur, cand, force).caches IN
           /\ CachesGrow(file, caches, r) /\ Len(r) = Len(caches)
           /\ \A k \in DOMAIN caches : k # cur.cache => r[k] = caches[k]
           /\ cur.cache # 0 =>
                 \A x \in Range(r[cur.cache].entries) :
                     \/ x \in Range(caches[cur.cache].entries)
                     \/ x.id = cand.id /\ x.off = cand.off /\ x.doc = doc
  <1> DEFINE k == cur.cache
             c == caches[k]
             hit == Hit(c, cand.id, cand.off)
             new == IF hit THEN Touch(c, cand.id) ELSE Set(c, cand.id, cand.off, doc)
             r == ReadCandidate(cur, cand, force).caches
  <1>1. CASE k = 0
    <2>1. r = caches
      BY <1>1 DEF ReadCandidate
    <2> QED
      BY <1>1, <2>1, NoCacheChanges
  <1>2. CASE k # 0
    <2>1. k \in 1 .. Len(caches) /\ Len(caches) \in Nat /\ k \in DOMAIN caches
          /\ c \in Caches(Offsets) /\ WithinBudget(c)
      BY <1>2 DEF CachesFit
    <2>2. r = [caches EXCEPT ![k] = new]
      <3>1. CASE hit
        BY <1>2, <3>1 DEF ReadCandidate
      <3>2. CASE ~hit
        BY <1>2, <3>2 DEF ReadCandidate
      <3> QED
        BY <3>1, <3>2
    <2>3. cand.id \in DocIds /\ cand.off \in Offsets
      BY DEF Candidates
    <2> HIDE DEF c, hit
    <2>4. /\ new \in Caches(Offsets) /\ WithinBudget(new)
          /\ \A x \in Range(new.entries) :
                \/ x \in Range(c.entries)
                \/ x.id = cand.id /\ x.off = cand.off /\ x.doc = doc
      BY <2>1, <2>3, ReadThroughEffect DEF hit
    <2> HIDE DEF new, r
    <2>5. Adds(caches[k], new, file)
      BY <2>4 DEF c, Adds
    <2>6. /\ CachesGrow(file, caches, r) /\ Len(r) = Len(caches)
          /\ r[k] = new /\ \A j \in DOMAIN caches : j # k => r[j] = caches[j]
      <3> HIDE DEF k
      <3> DEFINE ds == [caches EXCEPT ![k] = new]
      <3>1. k \in 1 .. Len(caches)
        BY <2>1
      <3>2. /\ CachesGrow(file, caches, ds) /\ Len(ds) = Len(caches)
            /\ ds[k] = new /\ \A j \in DOMAIN caches : j # k => ds[j] = caches[j]
        BY <2>4, <2>5, <3>1, OneCacheChanges
      <3> QED
        BY <2>2, <3>2
    <2>7. \A x \in Range(r[k].entries) : \/ x \in Range(caches[k].entries)
                                         \/ x.id = cand.id /\ x.off = cand.off /\ x.doc = doc
      BY <2>4, <2>6 DEF c
    <2> QED
      BY <2>6, <2>7 DEF r
  <1> QED
    BY <1>1, <1>2

\* After a read the cache in use agrees with the current documents, unless it was
\* a late one.
LEMMA ReadKeepsContents ==
    ASSUME CachesFit(caches), NEW cur, cur.cache \in 0 .. Len(caches),
           NEW cand \in Candidates, NEW force, NEW doc \in Values,
           doc = Decoded(ResolveBulkRange(cur, force), cand.off),
           file[cand.off] = Found(cand.id, doc),
           Indexes(primary, file), cache \in 0 .. Len(caches), cache # 0,
           Agrees(caches[cache], primary, file, late),
           NEW m, ~m => ~late /\ ~LateRead(cur, cand)
    PROVE  Agrees(ReadCandidate(cur, cand, force).caches[cache], primary, file, m)
  <1> DEFINE r == ReadCandidate(cur, cand, force).caches
             off == cand.off
             id == cand.id
  <1>1. /\ cache \in DOMAIN caches
        /\ \A k \in DOMAIN caches : k # cur.cache => r[k] = caches[k]
        /\ cur.cache # 0 =>
              \A x \in Range(r[cur.cache].entries) :
                  \/ x \in Range(caches[cur.cache].entries)
                  \/ x.id = id /\ x.off = off /\ x.doc = doc
    <2>1. cache \in DOMAIN caches
      BY DEF CachesFit
    <2> QED
      BY <2>1, ReadCachesEffect
  <1>2. id \in DocIds /\ off \in Offsets /\ file[off].doc = doc
    BY DEF Candidates, Found
  <1> HIDE DEF r
  <1>3. CASE cur.cache = cache
    <2>1. OffsetOf(id) = OffIn(primary, id)
      BY DEF OffsetOf, OffIn
    <2>2. ~m => ~late /\ OffIn(primary, id) = off
      BY <1>3, <2>1 DEF LateRead
    <2>3. \A x \in Range(r[cache].entries) : \/ x \in Range(caches[cache].entries)
                                             \/ x.id = id /\ x.off = off /\ x.doc = doc
      BY <1>1, <1>3
    <2> HIDE DEF id, off
    <2>4. Gains(caches[cache], r[cache], id, off, doc)
      BY <2>3 DEF Gains
    <2>5. Agrees(r[cache], primary, file, m)
      BY <1>2, <2>2, <2>4, ReadAgrees
    <2> QED
      BY <2>5 DEF r
  <1>4. CASE cur.cache # cache
    <2>1. r[cache] = caches[cache]
      BY <1>1, <1>4
    <2>2. ~m => ~late
      OBVIOUS
    <2>3. Agrees(r[cache], primary, file, m)
      BY <2>1, <2>2, FewerAgree
    <2> QED
      BY <2>3 DEF r
  <1> QED
    BY <1>3, <1>4

\* readCandidateDocument returns what find() saw, and leaves the cursor standing
\* as it did, maybe with a buffer.
LEMMA ReadEffect ==
    ASSUME CachesFit(caches), file \in Seq(Recs), NEW cur, CursorStands(cur, file, caches),
           NEW i \in DOMAIN cur.cands, NEW force \in BOOLEAN
    PROVE  LET r == ReadCandidate(cur, cur.cands[i], force)
               range == r.cur.range
           IN /\ r.doc = cur.snap[i] /\ r.cur = Ranged(cur, range)
              /\ range \in Ranges \cup {None} /\ Covers(range, cur, file)
              /\ range = None => cur.range = None
              /\ cur.range # None => range = cur.range
              /\ cur.snap[i] = Decoded(ResolveBulkRange(cur, force), cur.cands[i].off)
              /\ file[cur.cands[i].off] = Found(cur.cands[i].id, cur.snap[i])
              /\ cur.cands[i] \in Candidates /\ cur.snap[i] \in Values
              /\ cur.cache \in 0 .. Len(caches)
  <1> DEFINE r == ReadCandidate(cur, cur.cands[i], force)
             rg == ResolveBulkRange(cur, force)
             cand == cur.cands[i]
             c == caches[cur.cache]
  <1>1. /\ cur \in CursorStates /\ Taken(cur) /\ HoldsSnapshot(file, cur)
        /\ cur.cache \in Nat /\ cur.range \in Ranges \cup {None}
        /\ (cur.cache # 0 => Serves(c, cur)) /\ cur.cache <= Len(caches)
    BY DEF CursorStands, TypeOKCursor, HoldsSnapshot, Taken, CursorStates
  <1>2. cand \in Candidates /\ cur.snap[i] \in Values
    BY <1>1, TakenType
  <1>3. /\ rg \in Ranges \cup {None} /\ Covers(rg, cur, file)
        /\ cur.range # None => rg = cur.range
    BY <1>1, ResolveEffect
  <1>4. cur.snap[i] = Decoded(rg, cand.off)
    BY <1>1, <1>3, DecodedEffect
  <1>5. file[cand.off] = Found(cand.id, cur.snap[i])
    BY <1>1 DEF HoldsSnapshot
  <1>6. cur.cache \in 0 .. Len(caches)
    <2>1. Len(caches) \in Nat
      BY DEF CachesFit
    <2> QED
      BY <1>1, <2>1
  <1>7. r.doc = cur.snap[i] /\ (r.cur = cur \/ r.cur = Ranged(cur, rg))
    <2>1. CASE cur.cache # 0 /\ Hit(c, cand.id, cand.off)
      <3>1. r.doc = Lookup(c, cand.id).doc /\ r.cur = cur
        BY <2>1 DEF ReadCandidate
      <3>2. Has(c, cand.id) /\ Lookup(c, cand.id).off = cand.off
        BY <2>1 DEF Hit
      <3>3. Lookup(c, cand.id) \in Range(c.entries) /\ Lookup(c, cand.id).id = cand.id
        BY <3>2, LookupEffect
      <3>4. Serves(c, cur)
        BY <1>1, <2>1
      <3>5. Lookup(c, cand.id).doc = cur.snap[i]
        BY <3>2, <3>3, <3>4 DEF Serves
      <3> QED
        BY <3>1, <3>5
    <2>2. CASE ~(cur.cache # 0 /\ Hit(c, cand.id, cand.off))
      <3>1. r.doc = Decoded(rg, cand.off) /\ r.cur = [cur EXCEPT !.range = rg]
        BY <2>2 DEF ReadCandidate
      <3> QED
        BY <1>4, <3>1 DEF Ranged
    <2> QED
      BY <2>1, <2>2
  <1>8. Ranged(cur, rg).range = rg /\ Ranged(cur, cur.range).range = cur.range
        /\ Ranged(cur, cur.range) = cur
    BY <1>1 DEF Ranged, CursorStates
  <1>9. Covers(cur.range, cur, file)
    BY <1>1 DEF HoldsSnapshot, Covers
  <1> HIDE DEF r, rg
  <1>10. /\ r.cur = Ranged(cur, r.cur.range) /\ r.cur.range \in Ranges \cup {None}
         /\ Covers(r.cur.range, cur, file)
         /\ r.cur.range = None => cur.range = None
         /\ cur.range # None => r.cur.range = cur.range
    BY <1>1, <1>3, <1>7, <1>8, <1>9
  <1> QED
    BY <1>2, <1>4, <1>5, <1>6, <1>7, <1>10 DEF r, rg

-----------------------------------------------------------------------------
(* A cursor that moves on.                                                 *)

\* All that a cursor without limit and skip would return.
Chosen(cur) == IF cur.sort THEN Sorted(SnapshotMatches(cur)) ELSE SnapshotMatches(cur)

\* What a cursor has passed is the beginning of it, and all of it in the end.
LEMMA PassedEffect ==
    ASSUME NEW cur, Taken(cur), TypeOKCursor(cur),
           cur.sorted # None => cur.sort /\ cur.sorted = Sorted(SnapshotMatches(cur))
    PROVE  /\ Passed(cur) \in Seq(Docs) /\ Chosen(cur) \in Seq(Docs)
           /\ Len(Passed(cur)) <= Len(Chosen(cur))
           /\ \A i \in 1 .. Len(Passed(cur)) : Passed(cur)[i] = Chosen(cur)[i]
           /\ (cur.sort => cur.sorted # None) /\ cur.index = Length(cur) =>
                 Len(Passed(cur)) = Len(Chosen(cur))
  <1> DEFINE n == Len(cur.cands)
  <1>1. n \in Nat /\ n \in 0 .. n
    BY TakenType
  <1>2. SnapshotMatches(cur) \in Seq(Docs)
    BY <1>1, MatchesType DEF SnapshotMatches
  <1>3. /\ Sorted(SnapshotMatches(cur)) \in Seq(Docs)
        /\ Len(Sorted(SnapshotMatches(cur))) = Len(SnapshotMatches(cur))
    BY <1>2, SortedEffect
  <1>4. CASE ~cur.sort
    <2>1. cur.sorted = None
      BY <1>4
    <2>2. cur.index \in 0 .. n
      BY <2>1 DEF TypeOKCursor
    <2>3. Passed(cur) = MatchesAmong(cur, cur.index) /\ Chosen(cur) = SnapshotMatches(cur)
      BY <1>4 DEF Passed, Chosen
    <2>4. MatchesAmong(cur, cur.index) \in Seq(Docs)
      BY <2>2, MatchesType
    <2>5. /\ Len(MatchesAmong(cur, cur.index)) <= Len(SnapshotMatches(cur))
          /\ \A i \in 1 .. Len(MatchesAmong(cur, cur.index)) :
                MatchesAmong(cur, cur.index)[i] = SnapshotMatches(cur)[i]
      BY <2>2, MatchesGrow
    <2>6. cur.index = Length(cur) => MatchesAmong(cur, cur.index) = SnapshotMatches(cur)
      BY <1>4 DEF Length, SnapshotMatches
    <2> QED
      BY <1>2, <2>3, <2>4, <2>5, <2>6
  <1>5. CASE cur.sort /\ cur.sorted = None
    <2>1. Passed(cur) = << >> /\ Chosen(cur) = Sorted(SnapshotMatches(cur))
      BY <1>5 DEF Passed, Chosen
    <2>2. << >> \in Seq(Docs) /\ Len(<< >>) = 0
      OBVIOUS
    <2>3. Len(Sorted(SnapshotMatches(cur))) \in Nat
      BY <1>3
    <2> QED
      BY <1>3, <1>5, <2>1, <2>2, <2>3
  <1>6. CASE cur.sort /\ cur.sorted # None
    <2> DEFINE s == cur.sorted
               k == cur.index
    <2>1. /\ Passed(cur) = SubSeq(s, 1, k) /\ Chosen(cur) = s /\ Length(cur) = Len(s)
      BY <1>6 DEF Passed, Chosen, Length
    <2>2. s \in Seq(Docs) /\ k \in 0 .. Len(s)
      BY <1>3, <1>6 DEF TypeOKCursor
    <2> HIDE DEF s, k
    <2>3. /\ SubSeq(s, 1, k) \in Seq(Docs) /\ Len(SubSeq(s, 1, k)) = k /\ k <= Len(s)
          /\ \A i \in 1 .. k : SubSeq(s, 1, k)[i] = s[i]
      BY <2>2
    <2> QED
      BY <2>1, <2>2, <2>3 DEF k
  <1> QED
    BY <1>4, <1>5, <1>6

\* The two agree on what find(), sort(), limit() and skip() have set, and on what
\* the sort has left.
SameRequest(cur, new) ==
    /\ new.query = cur.query /\ new.cands = cur.cands /\ new.cache = cur.cache
    /\ new.sort = cur.sort /\ new.limit = cur.limit /\ new.skip = cur.skip
    /\ new.sorted = cur.sorted /\ new.snap = cur.snap /\ new.done = cur.done

\* Whether the snapshot is held depends on few parts of a cursor.
LEMMA SameHolds ==
    ASSUME NEW cur, NEW new, NEW f, HoldsSnapshot(f, cur), new.cands = cur.cands,
           new.snap = cur.snap, Covers(new.range, cur, f)
    PROVE  HoldsSnapshot(f, new)
  BY DEF HoldsSnapshot, Covers

\* The next document is skipped, or returned.
Passes(cur, new, d) ==
    IF cur.skipped < cur.skip
    THEN /\ new.skipped = cur.skipped + 1 /\ new.returned = cur.returned
         /\ new.out = cur.out
    ELSE /\ new.skipped = cur.skipped /\ new.returned = cur.returned + 1
         /\ new.out = Append(cur.out, d)

Ignores(cur, new) ==
    new.skipped = cur.skipped /\ new.returned = cur.returned /\ new.out = cur.out

\* One round of either loop leaves a standing cursor.
LEMMA AdvancedStands ==
    ASSUME NEW cur, NEW f, NEW cs, CursorStands(cur, f, cs), cur.sort => cur.sorted # None,
           ~Exhausted(cur), cur.index < Length(cur),
           NEW new \in CursorStates, SameRequest(cur, new), new.index = cur.index + 1,
           Covers(new.range, cur, f), new.reads \in 0 .. EscalateAfter,
           new.range = None => new.reads < EscalateAfter,
           NEW d \in Docs,
           \/ Passed(new) = Passed(cur) /\ Ignores(cur, new)
           \/ Passed(new) = Append(Passed(cur), d) /\ Passes(cur, new, d)
    PROVE  CursorStands(new, f, cs)
  <1>1. /\ cur \in CursorStates /\ TypeOKCursor(cur) /\ HoldsSnapshot(f, cur) /\ Stands(cur)
        /\ cur.cache <= Len(cs) /\ (cur.cache # 0 => Serves(cs[cur.cache], cur))
        /\ Taken(cur)
    BY DEF CursorStands, TypeOKCursor, Taken, HoldsSnapshot
  <1>2. /\ cur.index \in Nat /\ cur.skip \in Nat /\ cur.skipped \in 0 .. cur.skip
        /\ cur.returned = Len(cur.out) /\ cur.out \in Seq(Docs)
        /\ cur.limit \in Nat \cup {None} /\ EscalateAfter \in Nat
        /\ new.index \in Nat
    BY <1>1, ReadsAssumption DEF TypeOKCursor, CursorStates
  <1>3. Passed(cur) \in Seq(Docs)
    BY <1>1, PassedEffect DEF Stands
  <1>4. ~cur.done /\ ~AtLimit(cur) /\ cur.index # Length(cur)
    BY <1>1 DEF Stands, Exhausted
  <1>5. /\ new.query = cur.query /\ new.cands = cur.cands /\ new.cache = cur.cache
        /\ new.sort = cur.sort /\ new.limit = cur.limit /\ new.skip = cur.skip
        /\ new.sorted = cur.sorted /\ new.snap = cur.snap /\ new.done = cur.done
    BY DEF SameRequest
  <1>6. SnapshotMatches(new) = SnapshotMatches(cur)
    BY <1>5, SameMatches
  <1>7. cur.index + 1 \in 0 .. (IF cur.sorted = None THEN Len(cur.cands) ELSE Len(cur.sorted))
    <2>1. CASE cur.sort
      <3>1. cur.sorted # None /\ Length(cur) = Len(cur.sorted) /\ cur.sorted \in Seq(Docs)
        BY <1>1, <2>1 DEF Length, CursorStates
      <3> QED
        BY <1>2, <3>1
    <2>2. CASE ~cur.sort
      <3>1. cur.sorted = None /\ Length(cur) = Len(cur.cands)
        BY <1>1, <2>2 DEF Length, Stands
      <3> QED
        BY <1>1, <1>2, <3>1, TakenType
    <2> QED
      BY <2>1, <2>2
  <1> DEFINE s == Passed(cur)
             t == Passed(new)
             a == cur.out
             b == new.out
             k == cur.skip
  <1>8. IF cur.skipped < k
        THEN cur.skipped = Len(s) /\ a = << >>
        ELSE a = SubSeq(s, k + 1, Len(s)) /\ k <= Len(s)
    <2>1. ~(~cur.sort /\ cur.index = Len(cur.cands))
      BY <1>4 DEF Length
    <2> QED
      BY <1>1, <2>1 DEF Stands
  <1>9. /\ new.skipped \in 0 .. k /\ new.returned = Len(b) /\ b \in Seq(Docs)
        /\ cur.limit # None => Len(b) <= cur.limit
        /\ IF new.skipped < k
           THEN new.skipped = Len(t) /\ b = << >>
           ELSE b = SubSeq(t, k + 1, Len(t)) /\ k <= Len(t)
    <2>1. cur.limit # None => Len(a) <= cur.limit /\ Len(a) < cur.limit
      <3>1. cur.limit # None => Len(a) <= cur.limit
        BY <1>1 DEF Stands
      <3>2. cur.limit # None => cur.limit \in Nat /\ ~(cur.returned >= cur.limit)
        BY <1>2, <1>4 DEF AtLimit
      <3> QED
        BY <1>2, <3>1, <3>2
    <2>2. CASE t = s /\ Ignores(cur, new)
      BY <1>2, <1>8, <2>1, <2>2 DEF Ignores
    <2>3. CASE t = Append(s, d) /\ Passes(cur, new, d)
      <3>1. s \in Seq(Docs) /\ a \in Seq(Docs) /\ k \in Nat /\ cur.skipped \in 0 .. k
            /\ Len(s) \in Nat /\ Len(a) \in Nat
        BY <1>2, <1>3
      <3>2. CASE cur.skipped < k
        <4>1. /\ new.skipped = cur.skipped + 1 /\ new.returned = cur.returned /\ b = a
          BY <2>3, <3>2 DEF Passes
        <4>2. cur.skipped = Len(s) /\ a = << >>
          BY <1>8, <3>2
        <4>3. new.skipped = Len(t) /\ Len(t) <= k /\ Len(t) \in Nat
          <5> HIDE DEF t, s, k
          <5> QED
            BY <2>3, <3>1, <3>2, <4>1, <4>2
        <4>4. ~(new.skipped < k) => Len(t) = k /\ SubSeq(t, k + 1, Len(t)) = << >>
          <5> HIDE DEF t, k
          <5> QED
            BY <3>1, <4>3
        <4> HIDE DEF s, t, a, b, k
        <4>5. new.skipped \in 0 .. k
          BY <3>1, <4>3
        <4>6. b = << >> /\ b \in Seq(Docs) /\ new.returned = Len(b)
          BY <1>2, <3>1, <4>1, <4>2 DEF a
        <4>7. cur.limit # None => Len(b) <= cur.limit
          BY <2>1, <4>1
        <4> QED
          BY <4>3, <4>4, <4>5, <4>6, <4>7
      <3>3. CASE ~(cur.skipped < k)
        <4>1. /\ new.skipped = cur.skipped /\ new.returned = cur.returned + 1
              /\ b = Append(a, d)
          BY <2>3, <3>3 DEF Passes
        <4>2. a = SubSeq(s, k + 1, Len(s)) /\ k <= Len(s)
          BY <1>8, <3>3
        <4>3. cur.returned = Len(a)
          BY <1>2
        <4>4. cur.limit # None => cur.limit \in Nat
          BY <1>2
        <4> HIDE DEF s, t, a, b, k
        <4>5. b \in Seq(Docs) /\ new.returned = Len(b) /\ Len(b) = Len(a) + 1
          BY <3>1, <4>1, <4>3
        <4>6. /\ t \in Seq(Docs) /\ Len(t) = Len(s) + 1 /\ t[Len(s) + 1] = d
              /\ \A i \in 1 .. Len(s) : t[i] = s[i]
          BY <2>3, <3>1
        <4>7. /\ Len(a) = Len(s) - k /\ \A i \in 1 .. Len(a) : a[i] = s[k + i]
          BY <3>1, <4>2
        <4>8. b = SubSeq(t, k + 1, Len(t))
          <5> DEFINE u == SubSeq(t, k + 1, Len(t))
          <5>1. /\ u \in Seq(Docs) /\ Len(u) = Len(s) + 1 - k
                /\ \A i \in 1 .. Len(s) + 1 - k : u[i] = t[k + i]
            BY <3>1, <4>2, <4>6
          <5>2. /\ Len(b) = Len(s) + 1 - k /\ b[Len(a) + 1] = d
                /\ \A i \in 1 .. Len(a) : b[i] = a[i]
            BY <3>1, <4>1, <4>5, <4>7
          <5> HIDE DEF u
          <5>3. \A i \in 1 .. Len(b) : b[i] = u[i]
            <6>1. TAKE i \in 1 .. Len(b)
            <6>2. CASE i \in 1 .. Len(a)
              <7>1. b[i] = s[k + i] /\ k + i \in 1 .. Len(s)
                BY <3>1, <4>2, <4>7, <5>2, <6>2
              <7>2. u[i] = t[k + i]
                BY <5>1, <5>2
              <7> QED
                BY <4>6, <7>1, <7>2
            <6>3. CASE i = Len(a) + 1
              <7>1. k + i = Len(s) + 1
                BY <3>1, <4>7, <6>3
              <7>2. u[i] = t[k + i]
                BY <5>1, <5>2
              <7> QED
                BY <4>6, <5>2, <6>3, <7>1, <7>2
            <6> QED
              BY <3>1, <4>5, <6>2, <6>3
          <5>4. Len(u) = Len(b)
            BY <5>1, <5>2
          <5>5. b = u
            BY <4>5, <5>1, <5>3, <5>4
          <5> QED
            BY <5>5 DEF u
        <4>9. k <= Len(t) /\ new.skipped \in 0 .. k /\ ~(new.skipped < k)
          BY <3>1, <3>3, <4>1, <4>2, <4>6
        <4>10. cur.limit # None => Len(b) <= cur.limit
          BY <2>1, <3>1, <4>4, <4>5
        <4> QED
          BY <4>5, <4>8, <4>9, <4>10
      <3> QED
        BY <3>2, <3>3
    <2> QED
      BY <2>2, <2>3
  <1>10. TypeOKCursor(new)
    BY <1>5, <1>7, <1>9 DEF TypeOKCursor
  <1>11. HoldsSnapshot(f, new)
    BY <1>1, <1>5, SameHolds
  <1>12. cur.cache # 0 => Serves(cs[cur.cache], new)
    BY <1>1, <1>5 DEF Serves
  <1>13. Stands(new)
    <2>1. new.sorted # None => new.sort /\ new.sorted = Sorted(SnapshotMatches(new))
      BY <1>1, <1>5, <1>6 DEF Stands
    <2>2. ~(new.sort /\ new.sorted = None)
      BY <1>5
    <2>3. ~new.done
      BY <1>4, <1>5
    <2> HIDE DEF s, a, b
    <2>4. IF new.skipped < new.skip
          THEN new.skipped = Len(Passed(new)) /\ new.out = << >>
          ELSE /\ new.out = SubSeq(Passed(new), new.skip + 1, Len(Passed(new)))
               /\ new.skip <= Len(Passed(new))
      BY <1>5, <1>9 DEF b
    <2>5. new.limit # None => Len(new.out) <= new.limit
      BY <1>5, <1>9 DEF b
    <2> QED
      BY <2>1, <2>2, <2>3, <2>4, <2>5 DEF Stands
  <1> QED
    BY <1>1, <1>5, <1>10, <1>11, <1>12, <1>13 DEF CursorStands

\* Whether the read that is counted makes the rest be read in bulk, the buffer
\* covers the candidates.
LEMMA CountedEffect ==
    ASSUME file \in Seq(Recs), NEW cur \in CursorStates, HoldsSnapshot(file, cur),
           cur.reads \in 0 .. EscalateAfter, cur.range = None => cur.reads < EscalateAfter
    PROVE  LET new == Counted(cur) IN
           /\ new \in CursorStates /\ SameRequest(cur, new) /\ new.index = cur.index
           /\ Ignores(cur, new)
           /\ Covers(new.range, cur, file) /\ new.reads \in 0 .. EscalateAfter
           /\ new.range = None => new.reads < EscalateAfter
  <1> DEFINE new == Counted(cur)
             range == ResolveBulkRange(cur, TRUE)
             n == cur.reads + 1
  <1>1. Taken(cur) /\ EscalateAfter \in Nat
    BY ReadsAssumption DEF Taken, HoldsSnapshot
  <1>2. range \in Ranges \cup {None} /\ Covers(range, cur, file) /\ range # None
    BY <1>1, ResolveEffect
  <1>3. CASE cur.range # None
    <2>1. new = cur
      BY <1>3 DEF Counted
    <2>2. Covers(cur.range, cur, file)
      BY DEF HoldsSnapshot, Covers
    <2> QED
      BY <1>3, <2>1, <2>2 DEF SameRequest, Ignores
  <1>4. CASE cur.range = None
    <2>1. n \in Nat /\ n \in 0 .. EscalateAfter
      BY <1>1, <1>4
    <2> DEFINE more == [cur EXCEPT !.reads = n]
    <2>2. more.reads = n
      BY DEF CursorStates
    <2>3. CASE n < EscalateAfter
      <3>1. new = more
        BY <1>4, <2>2, <2>3 DEF Counted
      <3>2. Covers(cur.range, cur, file)
        BY <1>4 DEF Covers
      <3> HIDE DEF n
      <3>3. more \in CursorStates /\ SameRequest(cur, more) /\ more.index = cur.index
            /\ Ignores(cur, more) /\ more.range = cur.range
        BY <2>1 DEF CursorStates, SameRequest, Ignores
      <3> QED
        BY <2>1, <2>2, <2>3, <3>1, <3>2, <3>3
    <2>4. CASE ~(n < EscalateAfter)
      <3> DEFINE bulk == [more EXCEPT !.range = range]
      <3>1. new = bulk
        BY <1>4, <2>2, <2>4 DEF Counted
      <3> HIDE DEF n, range
      <3>2. bulk \in CursorStates /\ SameRequest(cur, bulk) /\ bulk.index = cur.index
            /\ Ignores(cur, bulk) /\ bulk.range = range /\ bulk.reads = n
        BY <1>2, <2>1 DEF CursorStates, SameRequest, Ignores
      <3> QED
        BY <1>2, <2>1, <3>1, <3>2
    <2> QED
      BY <2>3, <2>4
  <1> QED
    BY <1>3, <1>4

\* A cursor that takes a document in.
LEMMA MatchedEffect ==
    ASSUME NEW cur \in CursorStates, NEW d \in Docs
    PROVE  LET new == Matched(cur, d) IN
           /\ new \in CursorStates /\ SameRequest(cur, new) /\ new.index = cur.index
           /\ Passes(cur, new, d) /\ new.range = cur.range /\ new.reads = cur.reads
  <1>1. cur.skipped + 1 \in Nat /\ cur.returned + 1 \in Nat /\ Append(cur.out, d) \in Seq(Docs)
    BY DEF CursorStates
  <1>2. CASE cur.skipped < cur.skip
    <2> DEFINE n == cur.skipped + 1
    <2>1. Matched(cur, d) = [cur EXCEPT !.skipped = n]
      BY <1>2 DEF Matched
    <2>2. n \in Nat
      BY <1>1
    <2> HIDE DEF n
    <2>3. LET new == [cur EXCEPT !.skipped = n] IN
          /\ new \in CursorStates /\ SameRequest(cur, new) /\ new.index = cur.index
          /\ new.range = cur.range /\ new.reads = cur.reads
          /\ new.skipped = n /\ new.returned = cur.returned /\ new.out = cur.out
      BY <2>2 DEF CursorStates, SameRequest
    <2> QED
      BY <1>2, <2>1, <2>3 DEF Passes, n
  <1>3. CASE ~(cur.skipped < cur.skip)
    <2> DEFINE n == cur.returned + 1
               a == Append(cur.out, d)
    <2>1. Matched(cur, d) = [cur EXCEPT !.returned = n, !.out = a]
      BY <1>3 DEF Matched
    <2>2. n \in Nat /\ a \in Seq(Docs)
      BY <1>1
    <2> HIDE DEF n, a
    <2>3. LET new == [cur EXCEPT !.returned = n, !.out = a] IN
          /\ new \in CursorStates /\ SameRequest(cur, new) /\ new.index = cur.index
          /\ new.range = cur.range /\ new.reads = cur.reads
          /\ new.skipped = cur.skipped /\ new.returned = n /\ new.out = a
      BY <2>2 DEF CursorStates, SameRequest
    <2> QED
      BY <1>3, <2>1, <2>3 DEF Passes, n, a
  <1> QED
    BY <1>2, <1>3

\* One round of the loop of next() leaves the cursor standing, on the next
\* candidate.
LEMMA NextReadStands ==
    ASSUME CachesFit(caches), file \in Seq(Recs), NEW cur, CursorStands(cur, file, caches),
           ~cur.sort, cur.index < Len(cur.cands), ~AtLimit(cur),
           NEW range \in Ranges \cup {None}, Covers(range, cur, file),
           range = None => cur.range = None
    PROVE  LET i == cur.index + 1
               moved == Counted([Ranged(cur, range) EXCEPT !.index = @ + 1])
               new == IF Evaluate(cur.query, cur.snap[i])
                      THEN Matched(moved, Found(cur.cands[i].id, cur.snap[i]))
                      ELSE moved
           IN /\ CursorStands(new, file, caches) /\ moved.query = cur.query
              /\ i \in DOMAIN cur.cands
  <1> DEFINE i == cur.index + 1
             d == Found(cur.cands[i].id, cur.snap[i])
             next == [Ranged(cur, range) EXCEPT !.index = @ + 1]
             moved == Counted(next)
  <1>1. /\ cur \in CursorStates /\ TypeOKCursor(cur) /\ HoldsSnapshot(file, cur)
        /\ Taken(cur) /\ Stands(cur) /\ cur.sorted = None
    BY DEF CursorStands, TypeOKCursor, HoldsSnapshot, Taken, Stands
  <1>2. /\ cur.index \in Nat /\ i \in Nat /\ i \in 1 .. Len(cur.cands)
        /\ cur.index \in 0 .. Len(cur.cands) - 1 /\ DOMAIN cur.cands = 1 .. Len(cur.cands)
    BY <1>1, TakenType DEF CursorStates
  <1>3. d \in Docs
    <2>1. cur.cands[i].id \in DocIds /\ cur.snap[i] \in Values
      BY <1>1, <1>2, TakenType
    <2> QED
      BY <2>1 DEF Found, Docs
  <1>4. /\ next \in CursorStates /\ SameRequest(cur, next) /\ next.index = i
        /\ Ignores(cur, next) /\ next.range = range /\ next.reads = cur.reads
    <2>1. /\ Ranged(cur, range) \in CursorStates /\ SameRequest(cur, Ranged(cur, range))
          /\ Ranged(cur, range).index = cur.index /\ Ignores(cur, Ranged(cur, range))
          /\ Ranged(cur, range).range = range /\ Ranged(cur, range).reads = cur.reads
      BY <1>1 DEF CursorStates, SameRequest, Ignores, Ranged
    <2> DEFINE r == Ranged(cur, range)
    <2>2. next = [r EXCEPT !.index = i]
      BY <2>1
    <2> HIDE DEF r, i, next
    <2>3. next \in CursorStates /\ SameRequest(r, next) /\ next.index = i
          /\ Ignores(r, next) /\ next.range = r.range /\ next.reads = r.reads
      BY <1>2, <2>1, <2>2 DEF CursorStates, SameRequest, Ignores, r
    <2> QED
      BY <2>1, <2>3 DEF SameRequest, Ignores, r
  <1> HIDE DEF next, d
  <1>5. /\ next.cands = cur.cands /\ next.snap = cur.snap /\ next.query = cur.query
    BY <1>4 DEF SameRequest
  <1>6. HoldsSnapshot(file, next)
    BY <1>1, <1>4, <1>5, SameHolds
  <1>7. cur.reads \in 0 .. EscalateAfter /\ (range = None => cur.reads < EscalateAfter)
    BY <1>1 DEF TypeOKCursor, Stands
  <1>8. /\ moved \in CursorStates /\ SameRequest(next, moved) /\ moved.index = i
        /\ Ignores(next, moved)
        /\ Covers(moved.range, next, file) /\ moved.reads \in 0 .. EscalateAfter
        /\ moved.range = None => moved.reads < EscalateAfter
    BY <1>4, <1>6, <1>7, CountedEffect
  <1> HIDE DEF moved
  <1>9. /\ SameRequest(cur, moved) /\ Ignores(cur, moved) /\ Covers(moved.range, cur, file)
        /\ moved.query = cur.query
    BY <1>4, <1>5, <1>8 DEF SameRequest, Ignores, Covers
  <1>10. ~Exhausted(cur) /\ cur.index < Length(cur)
    BY <1>2 DEF Exhausted, Length
  <1>11. MatchesAmong(cur, i) = IF Evaluate(cur.query, cur.snap[i])
                                THEN Append(MatchesAmong(cur, cur.index), d)
                                ELSE MatchesAmong(cur, cur.index)
    BY <1>1, <1>2, OneMoreMatch DEF d
  <1>12. Passed(cur) = MatchesAmong(cur, cur.index)
    BY DEF Passed
  <1>13. ASSUME NEW new, SameRequest(cur, new), new.index = i
         PROVE  Passed(new) = MatchesAmong(cur, i)
    <2>1. new.query = cur.query /\ new.cands = cur.cands /\ new.snap = cur.snap /\ ~new.sort
      BY <1>13 DEF SameRequest
    <2>2. MatchesAmong(new, i) = MatchesAmong(cur, i)
      BY <2>1, SameMatches
    <2> QED
      BY <1>13, <2>1, <2>2 DEF Passed
  <1>14. CASE ~Evaluate(cur.query, cur.snap[i])
    <2>1. Passed(moved) = Passed(cur)
      BY <1>8, <1>9, <1>11, <1>12, <1>13, <1>14
    <2>2. moved.index = cur.index + 1
      BY <1>8
    <2>3. CursorStands(moved, file, caches)
      BY <1>3, <1>8, <1>9, <1>10, <2>1, <2>2, AdvancedStands
    <2> QED
      BY <1>2, <1>9, <1>14, <2>3 DEF moved, next
  <1>15. CASE Evaluate(cur.query, cur.snap[i])
    <2> DEFINE new == Matched(moved, d)
    <2>1. /\ new \in CursorStates /\ SameRequest(moved, new) /\ new.index = i
          /\ Passes(moved, new, d) /\ new.range = moved.range /\ new.reads = moved.reads
      BY <1>3, <1>8, MatchedEffect
    <2> HIDE DEF new
    <2>2. SameRequest(cur, new) /\ Passes(cur, new, d)
      BY <1>9, <2>1 DEF SameRequest, Passes, Ignores
    <2>3. Passed(new) = Append(Passed(cur), d)
      BY <1>11, <1>12, <1>13, <1>15, <2>1, <2>2
    <2>4. new.index = cur.index + 1
      BY <2>1
    <2>5. CursorStands(new, file, caches)
      BY <1>3, <1>8, <1>9, <1>10, <2>1, <2>2, <2>3, <2>4, AdvancedStands
    <2> QED
      BY <1>2, <1>9, <1>15, <2>5 DEF new, moved, next, d
  <1> QED
    BY <1>14, <1>15

\* One round of the loop of nextSorted() leaves the cursor standing, on the next
\* document of the buffer.
LEMMA NextSortedStands ==
    ASSUME NEW cur, NEW f, NEW cs, CursorStands(cur, f, cs), cur.sort, cur.sorted # None,
           cur.index < Length(cur), ~AtLimit(cur)
    PROVE  LET moved == [cur EXCEPT !.index = @ + 1]
           IN CursorStands(Matched(moved, moved.sorted[moved.index]), f, cs)
  <1> DEFINE i == cur.index + 1
             s == cur.sorted
             d == s[i]
             moved == [cur EXCEPT !.index = @ + 1]
             new == Matched(moved, d)
  <1>1. /\ cur \in CursorStates /\ TypeOKCursor(cur) /\ HoldsSnapshot(f, cur)
        /\ Stands(cur) /\ s \in Seq(Docs)
        /\ cur.index \in Nat
    BY DEF CursorStands, TypeOKCursor, CursorStates
  <1>2. /\ Len(s) \in Nat /\ cur.index < Len(s) /\ i \in 1 .. Len(s) /\ i \in Nat /\ d \in Docs
    BY <1>1 DEF Length
  <1>3. /\ moved \in CursorStates /\ SameRequest(cur, moved) /\ moved.index = i
        /\ Ignores(cur, moved) /\ moved.range = cur.range /\ moved.reads = cur.reads
    <2>1. moved = [cur EXCEPT !.index = i]
      OBVIOUS
    <2> HIDE DEF i, moved
    <2> QED
      BY <1>1, <1>2, <2>1 DEF CursorStates, SameRequest, Ignores
  <1>4. moved.sorted[moved.index] = d
    BY <1>3 DEF SameRequest
  <1> HIDE DEF moved, d
  <1>5. /\ new \in CursorStates /\ SameRequest(moved, new) /\ new.index = i
        /\ Passes(moved, new, d) /\ new.range = moved.range /\ new.reads = moved.reads
    BY <1>2, <1>3, MatchedEffect
  <1> HIDE DEF new
  <1>6. SameRequest(cur, new) /\ Passes(cur, new, d) /\ new.range = cur.range
        /\ new.reads = cur.reads
    BY <1>3, <1>5 DEF SameRequest, Passes, Ignores
  <1>7. /\ Covers(new.range, cur, f) /\ new.reads \in 0 .. EscalateAfter
        /\ (new.range = None => new.reads < EscalateAfter)
    BY <1>1, <1>6 DEF HoldsSnapshot, Covers, TypeOKCursor, Stands
  <1>8. ~Exhausted(cur)
    BY <1>1, <1>2 DEF Exhausted, Length
  <1>9. Passed(new) = Append(Passed(cur), d)
    <2>1. new.sort /\ new.sorted = s
      BY <1>6 DEF SameRequest
    <2>2. Passed(new) = SubSeq(s, 1, cur.index + 1) /\ Passed(cur) = SubSeq(s, 1, cur.index)
      BY <1>5, <2>1 DEF Passed
    <2> DEFINE k == cur.index
    <2>3. k \in Nat /\ k + 1 \in 1 .. Len(s) /\ d = s[k + 1]
      BY <1>1, <1>2 DEF d
    <2> HIDE DEF k, s, d
    <2>4. SubSeq(s, 1, k + 1) = Append(SubSeq(s, 1, k), s[k + 1])
      <3> DEFINE a == SubSeq(s, 1, k)
                 b == SubSeq(s, 1, k + 1)
      <3>1. /\ a \in Seq(Docs) /\ Len(a) = k /\ \A j \in 1 .. k : a[j] = s[j]
        BY <1>1, <1>2, <2>3
      <3>2. /\ b \in Seq(Docs) /\ Len(b) = k + 1 /\ \A j \in 1 .. k + 1 : b[j] = s[j]
        BY <1>1, <1>2, <2>3
      <3> HIDE DEF a, b
      <3>3. s[k + 1] \in Docs
        BY <1>1, <2>3
      <3> DEFINE e == Append(a, s[k + 1])
      <3>4. /\ e \in Seq(Docs) /\ Len(e) = k + 1 /\ e[k + 1] = s[k + 1]
            /\ \A j \in 1 .. k : e[j] = a[j]
        BY <2>3, <3>1, <3>3
      <3> HIDE DEF e
      <3>5. \A j \in 1 .. k + 1 : e[j] = b[j]
        <4>1. TAKE j \in 1 .. k + 1
        <4>2. CASE j \in 1 .. k
          BY <3>1, <3>2, <3>4, <4>2
        <4>3. CASE j = k + 1
          BY <2>3, <3>2, <3>4, <4>3
        <4> QED
          BY <2>3, <4>2, <4>3
      <3>6. e = b
        BY <3>2, <3>4, <3>5
      <3> QED
        BY <3>6 DEF a, b, e
    <2> QED
      BY <2>2, <2>3, <2>4 DEF k
  <1>10. new.index = cur.index + 1
    BY <1>5
  <1>11. CursorStands(new, f, cs)
    BY <1>2, <1>5, <1>6, <1>7, <1>8, <1>9, <1>10, AdvancedStands DEF Length
  <1> QED
    BY <1>4, <1>11 DEF new, moved

\* The fast path of a query for all documents leaves the cursor standing.
LEMMA SkippedFastStands ==
    ASSUME NEW cur, NEW f, NEW cs, CursorStands(cur, f, cs), ~cur.sort
    PROVE  CursorStands(SkippedFast(cur), f, cs)
  <1>1. /\ cur \in CursorStates /\ TypeOKCursor(cur) /\ HoldsSnapshot(f, cur)
        /\ Stands(cur) /\ Taken(cur) /\ cur.sorted = None
        /\ cur.cache <= Len(cs) /\ (cur.cache # 0 => Serves(cs[cur.cache], cur))
    BY DEF CursorStands, TypeOKCursor, Stands, Taken, HoldsSnapshot
  <1>2. CASE ~(cur.index = 0 /\ cur.skipped = 0 /\ cur.skip > 0 /\ cur.query.all)
    <2>1. SkippedFast(cur) = cur
      BY <1>2 DEF SkippedFast
    <2> QED
      BY <2>1
  <1>3. CASE cur.index = 0 /\ cur.skipped = 0 /\ cur.skip > 0 /\ cur.query.all
    <2> DEFINE n == Len(cur.cands)
               i == IF cur.skip < n THEN cur.skip ELSE n
               k == cur.skip
               new == SkippedFast(cur)
    <2>1. new = [cur EXCEPT !.index = i, !.skipped = k]
      BY <1>3 DEF SkippedFast
    <2>2. n \in Nat /\ k \in Nat /\ k # 0 /\ i \in 0 .. n /\ i \in Nat /\ i <= k
          /\ (i = k \/ i = n)
      BY <1>1, <1>3, TakenType DEF CursorStates
    <2> HIDE DEF new, i
    <2>3. /\ new \in CursorStates /\ SameRequest(cur, new) /\ new.index = i
          /\ new.skipped = k /\ new.returned = cur.returned /\ new.out = cur.out
          /\ new.range = cur.range /\ new.reads = cur.reads
      BY <1>1, <2>1, <2>2 DEF CursorStates, SameRequest
    <2>4. /\ new.query = cur.query /\ new.cands = cur.cands /\ new.cache = cur.cache
          /\ new.sort = cur.sort /\ new.limit = cur.limit /\ new.skip = k
          /\ new.sorted = None /\ new.snap = cur.snap /\ new.done = cur.done
      BY <1>1, <2>3 DEF SameRequest
    <2>5. /\ \A m : MatchesAmong(new, m) = MatchesAmong(cur, m)
          /\ SnapshotMatches(new) = SnapshotMatches(cur)
      BY <2>4, SameMatches
    <2>6. /\ Passed(new) = MatchesAmong(cur, i) /\ Len(Passed(new)) = i
          /\ Passed(new) \in Seq(Docs)
      <3>1. Passed(new) = MatchesAmong(cur, i)
        BY <2>3, <2>4, <2>5 DEF Passed
      <3>2. Len(MatchesAmong(cur, i)) = i
        BY <1>1, <1>3, <2>2, AllMatch
      <3>3. MatchesAmong(cur, i) \in Seq(Docs)
        BY <1>1, <2>2, MatchesType
      <3> QED
        BY <3>1, <3>2, <3>3
    <2>7. cur.out = << >>
      BY <1>1, <1>3 DEF Stands
    <2>8. SubSeq(Passed(new), k + 1, Len(Passed(new))) = << >>
      BY <2>2, <2>6
    <2>9. TypeOKCursor(new)
      BY <1>1, <2>2, <2>3, <2>4 DEF TypeOKCursor
    <2>10. HoldsSnapshot(f, new)
      BY <1>1, <2>3, <2>4 DEF HoldsSnapshot
    <2>11. cur.cache # 0 => Serves(cs[cur.cache], new)
      BY <1>1, <2>4 DEF Serves
    <2>12. new.done => Exhausted(new)
      <3>1. cur.done => cur.index = Length(cur) \/ AtLimit(cur)
        BY <1>1 DEF Stands, Exhausted
      <3>2. AtLimit(new) <=> AtLimit(cur)
        BY <2>3, <2>4 DEF AtLimit
      <3>3. cur.index = Length(cur) => new.index = Length(new)
        BY <1>3, <2>2, <2>3, <2>4 DEF Length
      <3> QED
        BY <2>4, <3>1, <3>2, <3>3 DEF Exhausted
    <2>13. Stands(new)
      <3>1. new.sorted # None => new.sort /\ new.sorted = Sorted(SnapshotMatches(new))
        BY <2>4
      <3>2. ~new.sort /\ ~(new.skipped < new.skip)
        BY <2>2, <2>3, <2>4
      <3>3. new.out = SubSeq(Passed(new), new.skip + 1, Len(Passed(new)))
        BY <2>3, <2>4, <2>7, <2>8
      <3>4. new.skip <= Len(Passed(new)) \/ new.index = Len(new.cands)
        BY <2>2, <2>3, <2>4, <2>6
      <3>5. new.limit # None => Len(new.out) <= new.limit
        BY <1>1, <2>3, <2>4 DEF Stands
      <3>6. new.range = None => new.reads < EscalateAfter
        BY <1>1, <2>3 DEF Stands
      <3> QED
        BY <2>12, <3>1, <3>2, <3>3, <3>4, <3>5, <3>6 DEF Stands
    <2>14. CursorStands(new, f, cs)
      BY <1>1, <2>4, <2>9, <2>10, <2>11, <2>13 DEF CursorStands
    <2> QED
      BY <2>14 DEF new
  <1> QED
    BY <1>2, <1>3

\* A cursor that has returned null is exhausted.
LEMMA DoneStands ==
    ASSUME NEW cur, NEW f, NEW cs, CursorStands(cur, f, cs), Exhausted(cur)
    PROVE  CursorStands([cur EXCEPT !.done = TRUE], f, cs)
  <1> DEFINE new == [cur EXCEPT !.done = TRUE]
  <1>1. /\ cur \in CursorStates /\ TypeOKCursor(cur) /\ HoldsSnapshot(f, cur) /\ Stands(cur)
        /\ cur.cache <= Len(cs) /\ (cur.cache # 0 => Serves(cs[cur.cache], cur))
    BY DEF CursorStands, TypeOKCursor
  <1>2. /\ new \in CursorStates
        /\ new.query = cur.query /\ new.cands = cur.cands /\ new.cache = cur.cache
        /\ new.sort = cur.sort /\ new.limit = cur.limit /\ new.skip = cur.skip
        /\ new.index = cur.index /\ new.skipped = cur.skipped
        /\ new.returned = cur.returned /\ new.range = cur.range /\ new.reads = cur.reads
        /\ new.sorted = cur.sorted /\ new.snap = cur.snap /\ new.out = cur.out
    BY <1>1 DEF CursorStates
  <1> HIDE DEF new
  <1>3. TypeOKCursor(new)
    BY <1>1, <1>2 DEF TypeOKCursor
  <1>4. HoldsSnapshot(f, new)
    BY <1>1, <1>2 DEF HoldsSnapshot
  <1>5. cur.cache # 0 => Serves(cs[cur.cache], new)
    BY <1>1, <1>2 DEF Serves
  <1>6. Stands(new)
    <2>1. /\ \A n : MatchesAmong(new, n) = MatchesAmong(cur, n)
          /\ SnapshotMatches(new) = SnapshotMatches(cur)
      BY <1>2, SameMatches
    <2>2. Passed(new) = Passed(cur)
      BY <1>2, <2>1 DEF Passed
    <2>3. Length(new) = Length(cur) /\ (AtLimit(new) <=> AtLimit(cur))
      BY <1>2 DEF Length, AtLimit
    <2>4. Exhausted(new)
      BY <1>2, <2>3 DEF Exhausted
    <2> QED
      BY <1>1, <1>2, <2>1, <2>2, <2>4 DEF Stands
  <1>7. CursorStands(new, f, cs)
    BY <1>1, <1>2, <1>3, <1>4, <1>5, <1>6 DEF CursorStands
  <1> QED
    BY <1>7 DEF new

\* A cursor that has sorted its matches starts with the first.
LEMMA SortedStands ==
    ASSUME NEW cur, NEW f, NEW cs, CursorStands(cur, f, cs), cur.sort, cur.sorted = None,
           NEW found, found = SnapshotMatches(cur)
    PROVE  /\ CursorStands([cur EXCEPT !.sorted = Sorted(found)], f, cs)
           /\ Sorted(found) # None
  <1> DEFINE s == Sorted(found)
             new == [cur EXCEPT !.sorted = s]
  <1>1. /\ cur \in CursorStates /\ TypeOKCursor(cur) /\ HoldsSnapshot(f, cur) /\ Stands(cur)
        /\ cur.cache <= Len(cs) /\ (cur.cache # 0 => Serves(cs[cur.cache], cur))
        /\ Taken(cur)
    BY DEF CursorStands, TypeOKCursor, Taken, HoldsSnapshot
  <1>2. s \in Seq(Docs) /\ s # None
    <2>1. Len(cur.cands) \in 0 .. Len(cur.cands)
      BY <1>1, TakenType
    <2>2. found \in Seq(Docs)
      BY <1>1, <2>1, MatchesType DEF SnapshotMatches
    <2>3. s \in Seq(Docs)
      BY <2>2, SortedEffect
    <2> QED
      BY <2>3, NoneAssumption
  <1> HIDE DEF s
  <1>3. /\ new \in CursorStates
        /\ new.query = cur.query /\ new.cands = cur.cands /\ new.cache = cur.cache
        /\ new.sort = cur.sort /\ new.limit = cur.limit /\ new.skip = cur.skip
        /\ new.index = cur.index /\ new.skipped = cur.skipped
        /\ new.returned = cur.returned /\ new.range = cur.range /\ new.reads = cur.reads
        /\ new.sorted = s /\ new.snap = cur.snap /\ new.out = cur.out
        /\ new.done = cur.done
    BY <1>1, <1>2 DEF CursorStates
  <1> HIDE DEF new
  <1>4. cur.index = 0 /\ ~cur.done /\ Passed(cur) = << >>
    BY <1>1 DEF Stands, Exhausted, Passed
  <1>5. Len(s) \in Nat
    BY <1>2
  <1>6. TypeOKCursor(new)
    BY <1>1, <1>2, <1>3, <1>4, <1>5 DEF TypeOKCursor
  <1>7. HoldsSnapshot(f, new)
    BY <1>1, <1>3 DEF HoldsSnapshot
  <1>8. cur.cache # 0 => Serves(cs[cur.cache], new)
    BY <1>1, <1>3 DEF Serves
  <1>9. Stands(new)
    <2>1. SnapshotMatches(new) = SnapshotMatches(cur)
      BY <1>3, SameMatches
    <2>2. Passed(new) = << >>
      <3>1. SubSeq(s, 1, 0) = << >>
        BY <1>2
      <3> QED
        BY <1>2, <1>3, <1>4, <3>1 DEF Passed
    <2>3. new.sorted = Sorted(SnapshotMatches(new)) /\ new.sort /\ new.sorted # None
      BY <1>2, <1>3, <2>1 DEF s
    <2> QED
      BY <1>1, <1>3, <1>4, <2>2, <2>3 DEF Stands
  <1>10. CursorStands(new, f, cs)
    BY <1>1, <1>3, <1>6, <1>7, <1>8, <1>9 DEF CursorStands
  <1> QED
    BY <1>2, <1>10 DEF new, s

\* Whatever the plan, the candidates are entries of the primary index.
LEMMA PlansEffect ==
    ASSUME Indexes(primary, file), NEW q \in Queries, NEW cands \in Plans(q)
    PROVE  /\ cands \in Seq(Candidates)
           /\ \A i \in DOMAIN cands : \E j \in DOMAIN primary : cands[i] = primary[j]
  <1> DEFINE selected == {e \in Range(primary) : Evaluate(q, file[e.off].doc)}
             there == {id \in DocIds : Exists(id)}
             listed(ids) == [i \in DOMAIN ids |-> [id |-> ids[i], off |-> OffsetOf(ids[i])]]
  <1>1. /\ primary \in Seq(Candidates) /\ DOMAIN primary = 1 .. Len(primary)
        /\ \A j \in DOMAIN primary : primary[j] \in Candidates
    BY DEF Indexes
  <1>2. \/ cands = primary
        \/ cands = Only(primary, selected)
        \/ \E ids \in IdLists : cands = listed(Only(ids, there))
    BY DEF Plans
  <1>3. CASE cands = primary
    BY <1>1, <1>3
  <1>4. CASE cands = Only(primary, selected)
    <2> HIDE DEF selected
    <2>1. /\ Only(primary, selected) \in Seq(Candidates)
          /\ \A e \in Range(Only(primary, selected)) : e \in Range(primary)
      BY <1>1, OnlyElements
    <2>2. \A i \in DOMAIN cands : cands[i] \in Range(primary)
      BY <1>4, <2>1 DEF Range
    <2>3. \A i \in DOMAIN cands : \E j \in DOMAIN primary : cands[i] = primary[j]
      BY <2>2 DEF Range
    <2> QED
      BY <1>4, <2>1, <2>3
  <1>5. CASE \E ids \in IdLists : cands = listed(Only(ids, there))
    <2>1. PICK ids \in IdLists : cands = listed(Only(ids, there))
      BY <1>5
    <2> DEFINE kept == Only(ids, there)
    <2>2. ids \in Seq(DocIds)
      BY ReadsAssumption
    <2>3. kept \in Seq(DocIds) /\ \A id \in Range(kept) : id \in there
      <3> HIDE DEF there
      <3> QED
        BY <2>2, OnlyElements
    <2>4. DOMAIN kept = 1 .. Len(kept) /\ Len(kept) \in Nat
          /\ \A i \in DOMAIN kept : kept[i] \in DocIds /\ Exists(kept[i])
      <3>1. \A i \in DOMAIN kept : kept[i] \in Range(kept)
        BY DEF Range
      <3> HIDE DEF kept
      <3> QED
        BY <2>3, <3>1
    <2> HIDE DEF kept
    <2>5. cands = [i \in DOMAIN kept |-> [id |-> kept[i], off |-> OffsetOf(kept[i])]]
      BY <2>1 DEF kept
    <2>6. ASSUME NEW i \in DOMAIN kept
          PROVE  \E j \in DOMAIN primary : cands[i] = primary[j]
      <3> DEFINE id == kept[i]
      <3>1. OffsetOf(id) = OffIn(primary, id) /\ OffIn(primary, id) # 0
        BY <2>4 DEF Exists, OffsetOf, OffIn
      <3>2. PICK j \in DOMAIN primary : primary[j].id = id /\ primary[j].off = OffIn(primary, id)
        BY <3>1, OffsetIs
      <3>3. primary[j] = [id |-> primary[j].id, off |-> primary[j].off]
        BY <1>1 DEF Candidates
      <3> QED
        BY <2>5, <3>1, <3>2, <3>3
    <2>7. cands \in Seq(Candidates)
      <3>1. \A i \in DOMAIN kept : cands[i] \in Candidates
        BY <1>1, <2>6
      <3>2. DOMAIN cands = 1 .. Len(kept) /\ cands = [i \in 1 .. Len(kept) |-> cands[i]]
        BY <2>4, <2>5
      <3> QED
        BY <2>4, <3>1, <3>2
    <2> QED
      BY <2>5, <2>6, <2>7
  <1> QED
    BY <1>2, <1>3, <1>4, <1>5

\* The cursor find() hands out.
NewCursor(q, cands, chain) ==
    [query |-> q, cands |-> cands, cache |-> cache, sort |-> chain.sort,
     limit |-> chain.limit, skip |-> chain.skip, index |-> 0, skipped |-> 0,
     returned |-> 0, range |-> None, reads |-> 0, sorted |-> None,
     snap |-> [i \in DOMAIN cands |-> file[cands[i].off].doc],
     out |-> << >>, done |-> FALSE]

\* It stands before the first candidate, on what the documents are now.
LEMMA NewCursorStands ==
    ASSUME Indexes(primary, file), cache \in 0 .. Len(caches),
           caches \in Seq(Caches(Offsets)),
           cache # 0 => Agrees(caches[cache], primary, file, late),
           NEW q \in Queries, NEW cands \in Plans(q), NEW chain \in Chains
    PROVE  CursorStands(NewCursor(q, cands, chain), file, caches)
  <1> DEFINE cur == NewCursor(q, cands, chain)
             snap == [i \in DOMAIN cands |-> file[cands[i].off].doc]
  <1>1. /\ cands \in Seq(Candidates) /\ DOMAIN cands = 1 .. Len(cands) /\ Len(cands) \in Nat
        /\ \A i \in DOMAIN cands : \E j \in DOMAIN primary : cands[i] = primary[j]
    BY PlansEffect
  <1>2. ASSUME NEW i \in DOMAIN cands
        PROVE  LET o == cands[i].off IN
               /\ o \in DOMAIN file /\ file[o] = Found(cands[i].id, file[o].doc)
               /\ file[o].doc \in Values
    <2> DEFINE o == cands[i].off
    <2>1. o \in DOMAIN file /\ file[o] \in Docs /\ file[o].id = cands[i].id
      BY <1>1 DEF Indexes
    <2>2. file[o] = [id |-> file[o].id, doc |-> file[o].doc] /\ file[o].doc \in Values
      BY <2>1 DEF Docs
    <2> QED
      BY <2>1, <2>2 DEF Found
  <1>3. snap \in Seq(Values) /\ Len(snap) = Len(cands)
        /\ \A i \in DOMAIN cands : snap[i] = file[cands[i].off].doc
    BY <1>1, <1>2
  <1>4. /\ chain.sort \in BOOLEAN /\ chain.limit \in Nat \cup {None} /\ chain.skip \in Nat
    BY ReadsAssumption
  <1>5. cache \in Nat /\ Len(caches) \in Nat /\ cache <= Len(caches)
    OBVIOUS
  <1>6. << >> \in Seq(Docs)
    OBVIOUS
  <1> HIDE DEF snap
  <1>7. cur = [query |-> q, cands |-> cands, cache |-> cache, sort |-> chain.sort,
               limit |-> chain.limit, skip |-> chain.skip, index |-> 0, skipped |-> 0,
               returned |-> 0, range |-> None, reads |-> 0, sorted |-> None,
               snap |-> snap, out |-> << >>, done |-> FALSE]
    BY DEF NewCursor, snap
  <1> HIDE DEF cur
  <1>8. /\ cur.query = q /\ cur.cands = cands /\ cur.cache = cache
        /\ cur.sort = chain.sort /\ cur.limit = chain.limit /\ cur.skip = chain.skip
        /\ cur.index = 0 /\ cur.skipped = 0 /\ cur.returned = 0 /\ cur.range = None
        /\ cur.reads = 0 /\ cur.sorted = None /\ cur.snap = snap /\ cur.out = << >>
        /\ cur.done = FALSE
    BY <1>7
  <1>9. cur \in CursorStates
    BY <1>1, <1>3, <1>4, <1>5, <1>6, <1>7 DEF CursorStates
  <1>10. TypeOKCursor(cur)
    <2>1. EscalateAfter \in Nat /\ cur.skip \in Nat /\ Len(cur.cands) \in Nat
      BY <1>1, <1>4, <1>8, ReadsAssumption
    <2> QED
      BY <1>8, <1>9, <2>1 DEF TypeOKCursor
  <1>11. HoldsSnapshot(file, cur)
    BY <1>2, <1>3, <1>8 DEF HoldsSnapshot
  <1>12. ASSUME cur.cache # 0
         PROVE  Serves(caches[cur.cache], cur)
    <2>1. Agrees(caches[cache], primary, file, late)
      BY <1>8, <1>12
    <2>2. ASSUME NEW e \in Range(caches[cache].entries), NEW i \in DOMAIN cands,
                 e.id = cands[i].id, e.off = cands[i].off
          PROVE  e.doc = snap[i]
      <3>1. PICK j \in DOMAIN primary : cands[i] = primary[j]
        BY <1>1
      <3>2. file[e.off].doc = e.doc
        BY <2>1, <2>2, <3>1 DEF Agrees
      <3> QED
        BY <1>3, <2>2, <3>2
    <2> QED
      BY <1>8, <2>2 DEF Serves
  <1>13. Stands(cur)
    <2>1. Passed(cur) = << >>
      <3>1. MatchesAmong(cur, 0) = << >>
        BY NoMatchesYet
      <3> QED
        BY <1>8, <3>1 DEF Passed
    <2>2. Len(Passed(cur)) = 0 /\ SubSeq(Passed(cur), cur.skip + 1, 0) = << >>
      <3>1. cur.skip \in Nat
        BY <1>4, <1>8
      <3> QED
        BY <2>1, <3>1
    <2>3. /\ cur.limit # None => Len(cur.out) <= cur.limit
      BY <1>4, <1>8
    <2>4. IF cur.skipped < cur.skip
          THEN cur.skipped = Len(Passed(cur)) /\ cur.out = << >>
          ELSE /\ cur.out = SubSeq(Passed(cur), cur.skip + 1, Len(Passed(cur)))
               /\ cur.skip <= Len(Passed(cur))
      BY <1>4, <1>8, <2>1, <2>2
    <2>5. cur.reads < EscalateAfter
      BY <1>8, ReadsAssumption
    <2> QED
      BY <1>8, <2>3, <2>4, <2>5 DEF Stands
  <1>14. cur.cache <= Len(caches)
    BY <1>5, <1>8
  <1>15. CursorStands(cur, file, caches)
    BY <1>10, <1>11, <1>12, <1>13, <1>14 DEF CursorStands
  <1> QED
    BY <1>15 DEF cur

-----------------------------------------------------------------------------
(* The invariant, in the terms of the lemmas.                              *)

\* CallInProgress for the call k and the cursors cs.
CallStands(k, cs) ==
    k # None =>
        LET cur == cs[k.cur] IN
        /\ cur # None
        /\ k.op = "next" /\ cur.sort => cur.sorted # None
        /\ k.op = "collect" => cur.sort /\ cur.sorted = None
        /\ k.op # "next" =>
              /\ k.at \in 0 .. Len(cur.cands)
              /\ k.found = MatchesAmong(cur, k.at)

\* IInv, by way of the index, the caches, the cursors and the call.
Safe ==
    /\ Indexes(primary, file)
    /\ dropped \in BOOLEAN /\ late \in BOOLEAN
    /\ CachesFit(caches) /\ cache \in 0 .. Len(caches)
    /\ cursors \in [Cursors -> CursorStates \cup {None}]
    /\ \A c \in Cursors : cursors[c] # None => CursorStands(cursors[c], file, caches)
    /\ call \in Calls \cup {None} /\ CallStands(call, cursors)
    /\ cache # 0 => Agrees(caches[cache], primary, file, late)

\* The program starts so.
LEMMA InitSafe == Init => Safe
  <1> SUFFICES ASSUME Init PROVE Safe
    OBVIOUS
  <1> USE DEF Init
  <1>1. << >> \in Seq(Candidates) /\ << >> \in Seq(Recs) /\ << >> \in Seq(Caches(Offsets))
        /\ DOMAIN (<< >>) = {} /\ Len(<< >>) = 0
    OBVIOUS
  <1>2. Indexes(primary, file)
    BY <1>1 DEF Indexes
  <1>3. CachesFit(caches)
    BY <1>1 DEF CachesFit
  <1>4. cursors \in [Cursors -> CursorStates \cup {None}] /\ \A c \in Cursors : cursors[c] = None
    OBVIOUS
  <1>5. CallStands(call, cursors) /\ call \in Calls \cup {None}
    BY DEF CallStands
  <1>6. /\ dropped \in BOOLEAN /\ late \in BOOLEAN /\ cache = 0
        /\ cache \in 0 .. Len(caches)
    <2>1. dropped \in BOOLEAN /\ late \in BOOLEAN
      OBVIOUS
    <2>2. cache = 0 /\ Len(caches) = 0
      BY <1>1
    <2> QED
      BY <2>1, <2>2
  <1> QED
    BY <1>2, <1>3, <1>4, <1>5, <1>6 DEF Safe

\* The records grow by none.
LEMMA SameFile ==
    ASSUME NEW f \in Seq(Recs)
    PROVE  Grows(f, f)
  BY DEF Grows

\* The records grow by one.
LEMMA OneRecordMore ==
    ASSUME NEW f \in Seq(Recs), NEW d \in Recs
    PROVE  Grows(f, Append(f, d))
  <1> DEFINE g == Append(f, d)
  <1>1. g \in Seq(Recs) /\ Len(f) \in Nat /\ Len(g) = Len(f) + 1 /\ DOMAIN f = 1 .. Len(f)
        /\ \A i \in 1 .. Len(f) : g[i] = f[i]
    OBVIOUS
  <1> HIDE DEF g
  <1>2. Grows(f, g)
    BY <1>1 DEF Grows
  <1> QED
    BY <1>2 DEF g

\* One change of the caches after another.
LEMMA CachesGrowOn ==
    ASSUME NEW f, NEW old \in Seq(Caches(Offsets)), NEW mid, CachesGrow(f, old, mid),
           NEW ds, CachesGrow(f, mid, ds)
    PROVE  CachesGrow(f, old, ds)
  <1>1. /\ mid \in Seq(Caches(Offsets)) /\ ds \in Seq(Caches(Offsets))
        /\ Len(old) <= Len(mid) /\ Len(mid) <= Len(ds)
    BY DEF CachesGrow, CachesFit
  <1>2. /\ Len(old) \in Nat /\ Len(mid) \in Nat /\ Len(ds) \in Nat
        /\ DOMAIN old = 1 .. Len(old) /\ DOMAIN mid = 1 .. Len(mid)
    <2>1. \A z \in Seq(Caches(Offsets)) : Len(z) \in Nat /\ DOMAIN z = 1 .. Len(z)
      OBVIOUS
    <2> QED
      BY <1>1, <2>1
  <1>3. Len(old) <= Len(ds) /\ \A k \in DOMAIN old : k \in DOMAIN mid
    <2> DEFINE a == Len(old)
               b == Len(mid)
               e == Len(ds)
    <2>1. /\ a \in Nat /\ b \in Nat /\ e \in Nat /\ a <= b /\ b <= e
          /\ DOMAIN old = 1 .. a /\ DOMAIN mid = 1 .. b
      BY <1>1, <1>2
    <2> HIDE DEF a, b, e
    <2>2. a <= e /\ \A k \in DOMAIN old : k \in DOMAIN mid
      BY <2>1
    <2> QED
      BY <2>2 DEF a, e
  <1>4. ASSUME NEW k \in DOMAIN old
        PROVE  Adds(old[k], ds[k], f)
    <2>1. Adds(old[k], mid[k], f) /\ Adds(mid[k], ds[k], f)
      BY <1>3 DEF CachesGrow
    <2> QED
      BY <2>1 DEF Adds
  <1> QED
    BY <1>3, <1>4 DEF CachesGrow

\* Every cursor stands while records are added and caches change.
LEMMA CursorsStandStill ==
    ASSUME Safe, NEW g, Grows(file, g), NEW ds, CachesGrow(file, caches, ds)
    PROVE  \A c \in Cursors : cursors[c] # None => CursorStands(cursors[c], g, ds)
  <1>1. caches \in Seq(Caches(Offsets))
    BY DEF Safe, CachesFit
  <1> QED
    BY <1>1, CursorStandsStill DEF Safe

-----------------------------------------------------------------------------
(* The writes.                                                             *)

\* A document is put, after the rest of the call has changed the caches.
LEMMA PutKeeps ==
    ASSUME Safe, Writing, NEW id \in DocIds, NEW doc \in Values,
           NEW before, CachesGrow(file, caches, before), Len(before) = Len(caches),
           cache # 0 => Agrees(before[cache], primary, file, late),
           ApplyPut(id, doc, before), Untouched
    PROVE  Safe'
  <1> DEFINE o == Len(file) + 1
             d == Found(id, doc)
             g == Append(file, d)
             q == WithOffset(id, o)
             c == before[cache]
             r == Set(c, id, o, doc)
             ds == IF cache = 0 THEN caches ELSE [before EXCEPT ![cache] = r]
  <1>1. /\ Indexes(primary, file) /\ CachesFit(caches) /\ cache \in 0 .. Len(caches)
        /\ caches \in Seq(Caches(Offsets)) /\ file \in Seq(Recs) /\ Len(caches) \in Nat
        /\ CachesFit(before) /\ before \in Seq(Caches(Offsets))
    BY DEF Safe, CachesFit, Indexes, CachesGrow
  <1>2. o \in Offsets /\ o \notin DOMAIN file
    BY <1>1, ReadsAssumption DEF Writing, Offsets
  <1>3. d \in Recs
    BY DEF Found, Docs, Recs
  <1>4. Moves(primary, q, id, o)
    BY <1>1, <1>2, WithOffsetEffect
  <1>5. Indexes(q, g)
    BY <1>1, <1>4, WriteKeepsIndex
  <1>6. Grows(file, g)
    BY <1>1, <1>3, OneRecordMore
  <1>7. file' = g /\ primary' = q /\ caches' = ds /\ dropped' = dropped /\ cache' = cache
        /\ cursors' = cursors /\ call' = call /\ late' = late
    BY DEF ApplyPut, Untouched
  <1> HIDE DEF q, g, d, o
  <1>8. /\ CachesGrow(file, caches, ds) /\ Len(ds) = Len(caches)
        /\ cache # 0 => Agrees(ds[cache], q, g, late)
    <2>1. CASE cache = 0
      BY <1>1, <2>1, NoCacheChanges
    <2>2. CASE cache # 0
      <3>1. /\ cache \in 1 .. Len(before) /\ c \in Caches(Offsets) /\ WithinBudget(c)
            /\ ds = [before EXCEPT ![cache] = r]
        BY <1>1, <2>2 DEF CachesFit
      <3> HIDE DEF c, ds
      <3>2. /\ r \in Caches(Offsets) /\ WithinBudget(r)
            /\ \A x \in Range(r.entries) :
                  \/ x \in Range(c.entries) /\ x.id # id
                  \/ x.id = id /\ x.off = o /\ x.doc = doc
        BY <1>2, <3>1, SetEffect
      <3> HIDE DEF r
      <3>3. Adds(before[cache], r, file)
        BY <1>2, <3>2 DEF c, Adds
      <3> DEFINE es == [before EXCEPT ![cache] = r]
      <3>4. CachesGrow(file, before, es) /\ Len(es) = Len(before) /\ es[cache] = r
        <4>1. cache \in 1 .. Len(before)
          BY <3>1
        <4>2. r \in Caches(Offsets) /\ WithinBudget(r)
          BY <3>2
        <4> QED
          BY <1>1, <3>3, <4>1, <4>2, OneCacheChanges
      <3> HIDE DEF es
      <3>5. CachesGrow(file, caches, es)
        BY <1>1, <3>4, CachesGrowOn
      <3>6. Agrees(c, primary, file, late)
        BY <2>2 DEF c
      <3>7. Agrees(r, q, g, late)
        BY <1>1, <1>4, <3>1, <3>2, <3>6, WriteAgrees DEF o, g, d
      <3> QED
        BY <3>1, <3>4, <3>5, <3>7 DEF es
    <2> QED
      BY <2>1, <2>2
  <1> HIDE DEF ds
  <1>9. \A k \in Cursors : cursors[k] # None => CursorStands(cursors[k], g, ds)
    BY <1>6, <1>8, CursorsStandStill
  <1>10. CachesFit(ds)
    BY <1>8 DEF CachesGrow
  <1> QED
    BY <1>5, <1>7, <1>8, <1>9, <1>10 DEF Safe

\* insertOne and replaceOne.
LEMMA WriteOneKeeps ==
    ASSUME Safe, NEW id \in DocIds, NEW doc \in Values, WriteOne(id, doc)
    PROVE  Safe'
  <1>1. CachesGrow(file, caches, caches) /\ (cache # 0 => Agrees(caches[cache], primary, file, late))
    BY NoCacheChanges DEF Safe
  <1> QED
    BY <1>1, PutKeeps DEF WriteOne

\* updateOne, whose read goes through the cache as well.
LEMMA UpdateOneKeeps ==
    ASSUME Safe, NEW id \in DocIds, NEW doc \in Values, UpdateOne(id, doc)
    PROVE  Safe'
  <1> DEFINE cand == [id |-> id, off |-> OffsetOf(id)]
             own == [cands |-> <<cand>>, cache |-> cache, limit |-> 1, range |-> None]
             old == file[OffsetOf(id)].doc
             r == ReadCandidate(own, own.cands[1], FALSE).caches
  <1>1. /\ Indexes(primary, file) /\ CachesFit(caches) /\ cache \in 0 .. Len(caches)
        /\ cache # 0 => Agrees(caches[cache], primary, file, late)
    BY DEF Safe
  <1>2. Writing /\ Exists(id) /\ ApplyPut(id, doc, r) /\ Untouched
    BY DEF UpdateOne
  <1>3. OffsetOf(id) = OffIn(primary, id) /\ OffIn(primary, id) # 0
    BY <1>2 DEF Exists, OffsetOf, OffIn
  <1>4. PICK j \in DOMAIN primary : primary[j].id = id /\ primary[j].off = OffsetOf(id)
    BY <1>1, <1>3, OffsetIs
  <1>5. /\ primary[j] \in Candidates /\ OffsetOf(id) \in DOMAIN file
        /\ file[OffsetOf(id)] \in Docs /\ file[OffsetOf(id)].id = id
    BY <1>1, <1>4 DEF Indexes
  <1>6. cand \in Candidates /\ old \in Values /\ file[cand.off] = Found(cand.id, old)
    BY <1>4, <1>5 DEF Candidates, Docs, Found
  <1>7. /\ own.cands[1] = cand /\ own.cands = <<cand>> /\ own.cache = cache
        /\ own.range = None /\ Len(<<cand>>) = 1
    OBVIOUS
  <1>8. ResolveBulkRange(own, FALSE) = NoRange
    BY <1>7 DEF ResolveBulkRange, SCAN_PRELOAD_THRESHOLD
  <1>9. old = Decoded(ResolveBulkRange(own, FALSE), cand.off)
    BY <1>8 DEF Decoded
  <1> HIDE DEF cand, old, own
  <1>13. r = ReadCandidate(own, cand, FALSE).caches
    BY <1>7
  <1> HIDE DEF r
  <1>10. CachesGrow(file, caches, r) /\ Len(r) = Len(caches)
    <2>1. own.cache \in 0 .. Len(caches)
      BY <1>1, <1>7
    <2>2. old = Decoded(ResolveBulkRange(own, FALSE), cand.off)
      BY <1>9
    <2>3. PICK force : force = FALSE
      OBVIOUS
    <2>4. /\ r = ReadCandidate(own, cand, force).caches
          /\ old = Decoded(ResolveBulkRange(own, force), cand.off)
      BY <1>13, <2>2, <2>3
    <2> QED
      BY <1>1, <1>6, <2>1, <2>4, ReadCachesEffect
  <1>11. ~LateRead(own, cand)
    BY DEF LateRead, cand
  <1>12. cache # 0 => Agrees(r[cache], primary, file, late)
    BY <1>1, <1>6, <1>7, <1>9, <1>11, <1>13, ReadKeepsContents
  <1> QED
    BY <1>2, <1>10, <1>12, PutKeeps

\* A change of the cache in use, to r, that only loses entries.
LEMMA CacheInUseLoses ==
    ASSUME CachesFit(caches), cache \in 0 .. Len(caches), NEW r,
           cache # 0 => /\ r \in Caches(Offsets) /\ WithinBudget(r)
                        /\ \A x \in Range(r.entries) : x \in Range(caches[cache].entries)
    PROVE  /\ CachesGrow(file, caches, UseCache(r)) /\ CachesFit(UseCache(r))
           /\ Len(UseCache(r)) = Len(caches)
           /\ cache # 0 => UseCache(r)[cache] = r
  <1>1. CASE cache = 0
    BY <1>1, NoCacheChanges DEF UseCache
  <1>2. CASE cache # 0
    <2> DEFINE ds == [caches EXCEPT ![cache] = r]
    <2>1. cache \in 1 .. Len(caches) /\ UseCache(r) = ds
      BY <1>2 DEF UseCache, CachesFit
    <2>2. r \in Caches(Offsets) /\ WithinBudget(r) /\ Adds(caches[cache], r, file)
      BY <1>2 DEF Adds
    <2>3. CachesGrow(file, caches, ds) /\ Len(ds) = Len(caches) /\ ds[cache] = r
      <3> DEFINE cs == caches
                 k == cache
                 f == file
      <3>1. /\ CachesFit(cs) /\ k \in 1 .. Len(cs)
            /\ r \in Caches(Offsets) /\ WithinBudget(r) /\ Adds(cs[k], r, f)
        BY <2>1, <2>2
      <3> HIDE DEF cs, k, f
      <3> DEFINE es == [cs EXCEPT ![k] = r]
      <3>2. CachesGrow(f, cs, es) /\ Len(es) = Len(cs) /\ es[k] = r
        BY <3>1, OneCacheChanges
      <3> QED
        BY <3>2 DEF cs, k, f
    <2> HIDE DEF ds
    <2>4. CachesFit(ds)
      BY <2>3 DEF CachesGrow
    <2> QED
      BY <2>1, <2>3, <2>4
  <1> QED
    BY <1>1, <1>2

\* deleteOne.
LEMMA DeleteOneKeeps ==
    ASSUME Safe, NEW id \in DocIds, DeleteOne(id)
    PROVE  Safe'
  <1> DEFINE d == Found(id, None)
             g == Append(file, d)
             q == Only(primary, {e \in Range(primary) : e.id # id})
             r == Invalidate(caches[cache], id)
             ds == UseCache(r)
  <1>1. /\ Indexes(primary, file) /\ CachesFit(caches) /\ cache \in 0 .. Len(caches)
        /\ caches \in Seq(Caches(Offsets)) /\ file \in Seq(Recs) /\ Len(caches) \in Nat
        /\ (cache # 0 => Agrees(caches[cache], primary, file, late))
    BY DEF Safe, CachesFit, Indexes
  <1>2. d \in Recs
    BY DEF Found, Recs
  <1>3. Loses(primary, q, id)
    BY <1>1, DeleteEffect
  <1>4. file' = g /\ primary' = q /\ caches' = ds /\ dropped' = dropped /\ cache' = cache
        /\ cursors' = cursors /\ call' = call /\ late' = late
    BY DEF DeleteOne, Untouched
  <1> HIDE DEF q, d
  <1>5. Indexes(q, g) /\ Grows(file, g)
    BY <1>1, <1>2, <1>3, DeleteKeepsIndex, OneRecordMore
  <1>6. ASSUME cache # 0
        PROVE  /\ caches[cache] \in Caches(Offsets)
               /\ r \in Caches(Offsets) /\ WithinBudget(r)
               /\ \A x \in Range(r.entries) : x \in Range(caches[cache].entries) /\ x.id # id
    <2>1. caches[cache] \in Caches(Offsets) /\ WithinBudget(caches[cache])
      BY <1>1, <1>6 DEF CachesFit
    <2> QED
      BY <2>1, InvalidateWithin
  <1> HIDE DEF r
  <1>7. /\ CachesGrow(file, caches, ds) /\ CachesFit(ds) /\ Len(ds) = Len(caches)
        /\ cache # 0 => ds[cache] = r
    BY <1>1, <1>6, CacheInUseLoses
  <1>8. cache # 0 => Agrees(ds[cache], q, g, late)
    <2>1. SUFFICES ASSUME cache # 0 PROVE Agrees(r, q, g, late)
      BY <1>7
    <2>2. Agrees(caches[cache], primary, file, late)
      BY <1>1, <2>1
    <2> DEFINE c == caches[cache]
    <2>3. /\ c \in Caches(Offsets) /\ Agrees(c, primary, file, late)
          /\ \A x \in Range(r.entries) : x \in Range(c.entries) /\ x.id # id
      BY <1>6, <2>1, <2>2
    <2> HIDE DEF c
    <2> QED
      BY <1>1, <1>2, <1>3, <2>3, DeleteAgrees
  <1> HIDE DEF g, ds
  <1>9. \A k \in Cursors : cursors[k] # None => CursorStands(cursors[k], g, ds)
    BY <1>5, <1>7, CursorsStandStill
  <1> QED
    BY <1>4, <1>5, <1>7, <1>8, <1>9 DEF Safe

\* drop().
LEMMA DropKeeps ==
    ASSUME Safe, Drop
    PROVE  Safe'
  <1> DEFINE d == Found(None, None)
             g == Append(file, d)
             r == Clear(caches[cache])
             ds == UseCache(r)
  <1>1. /\ Indexes(primary, file) /\ CachesFit(caches) /\ cache \in 0 .. Len(caches)
        /\ caches \in Seq(Caches(Offsets)) /\ file \in Seq(Recs) /\ Len(caches) \in Nat
    BY DEF Safe, CachesFit, Indexes
  <1>2. d \in Recs
    BY DEF Found, Recs
  <1>3. file' = g /\ primary' = << >> /\ caches' = ds /\ dropped' = TRUE /\ cache' = cache
        /\ cursors' = cursors /\ call' = call /\ late' = late
    BY DEF Drop
  <1> HIDE DEF d
  <1>4. Grows(file, g) /\ g \in Seq(Recs)
    BY <1>1, <1>2, OneRecordMore DEF Grows
  <1>5. << >> \in Seq(Candidates) /\ DOMAIN (<< >>) = {}
    OBVIOUS
  <1>6. Indexes(<< >>, g)
    BY <1>4, <1>5 DEF Indexes
  <1>7. ASSUME cache # 0
        PROVE  r \in Caches(Offsets) /\ WithinBudget(r) /\ Range(r.entries) = {}
    <2>1. caches[cache] \in Caches(Offsets)
      BY <1>1, <1>7
    <2>2. caches[cache].max \in Budgets /\ r = NewCache(caches[cache].max)
      BY <2>1, ClearEffect
    <2> QED
      BY <2>2, EmptyCache
  <1> HIDE DEF r
  <1>8. /\ CachesGrow(file, caches, ds) /\ CachesFit(ds) /\ Len(ds) = Len(caches)
        /\ cache # 0 => ds[cache] = r
    BY <1>1, <1>7, CacheInUseLoses
  <1> HIDE DEF g, ds
  <1>9. cache # 0 => Agrees(ds[cache], << >>, g, late)
    BY <1>7, <1>8 DEF Agrees
  <1>10. \A k \in Cursors : cursors[k] # None => CursorStands(cursors[k], g, ds)
    BY <1>4, <1>8, CursorsStandStill
  <1>11. dropped' \in BOOLEAN /\ late' \in BOOLEAN
    BY <1>3 DEF Safe
  <1> QED
    BY <1>3, <1>6, <1>8, <1>9, <1>10, <1>11 DEF Safe

\* compact(), when no read of an old version has gone through the cache.
LEMMA CompactKeeps ==
    ASSUME CarefulCallers, Safe, Compact
    PROVE  Safe'
  <1> DEFINE q == PackedIndex(primary)
             g == PackedFile(primary, file)
  <1>1. /\ file' = g /\ primary' = q
        /\ UNCHANGED <<dropped, caches, cache, cursors, call, late>>
    BY DEF Compact, PackedIndex, PackedFile, Kept, Rank
  <1>2. call = None /\ \A c \in Cursors : cursors[c] = None
    BY DEF Compact, Free
  <1>3. ~late
    BY DEF Compact, CarefulCallers
  <1>4. Indexes(q, g) /\ Packed(primary, file, q, g)
    BY CompactEffect DEF Safe
  <1> HIDE DEF q, g
  <1>5. cache # 0 => Agrees(caches[cache], q, g, late)
    <2>1. SUFFICES ASSUME cache # 0 PROVE Agrees(caches[cache], q, g, late)
      OBVIOUS
    <2>2. Agrees(caches[cache], primary, file, late) /\ Indexes(primary, file)
      BY <2>1 DEF Safe
    <2> QED
      BY <1>3, <1>4, <2>2, CompactAgrees
  <1>6. \A c \in Cursors : cursors'[c] = None
    BY <1>1, <1>2
  <1> QED
    BY <1>1, <1>4, <1>5, <1>6 DEF Safe

\* enableCache(), which resizes the cache that is there.
LEMMA EnableCacheKeeps ==
    ASSUME Safe, NEW max \in Budgets, EnableCache(max)
    PROVE  Safe'
  <1>1. /\ Indexes(primary, file) /\ CachesFit(caches) /\ cache \in 0 .. Len(caches)
        /\ caches \in Seq(Caches(Offsets)) /\ file \in Seq(Recs) /\ Len(caches) \in Nat
        /\ DOMAIN caches = 1 .. Len(caches)
        /\ (cache # 0 => Agrees(caches[cache], primary, file, late))
    BY DEF Safe, CachesFit, Indexes
  <1>2. UNCHANGED <<file, primary, dropped, cursors, call>>
    BY DEF EnableCache
  <1>3. Grows(file, file)
    BY <1>1, SameFile
  <1>4. CASE cache = 0
    <2> DEFINE new == NewCache(max)
               ds == Append(caches, new)
    <2>1. caches' = ds /\ cache' = Len(caches) + 1 /\ late' = FALSE
      BY <1>4 DEF EnableCache
    <2>2. new \in Caches(Offsets) /\ WithinBudget(new) /\ Range(new.entries) = {}
      BY EmptyCache
    <2> HIDE DEF new
    <2>3. /\ ds \in Seq(Caches(Offsets)) /\ Len(ds) = Len(caches) + 1
          /\ DOMAIN ds = 1 .. Len(caches) + 1
          /\ ds[Len(caches) + 1] = new /\ \A k \in DOMAIN caches : ds[k] = caches[k]
      BY <1>1, <2>2
    <2> HIDE DEF ds
    <2>4. CachesFit(ds)
      <3>1. \A k \in DOMAIN ds : k \in DOMAIN caches \/ k = Len(caches) + 1
        BY <1>1, <2>3
      <3> QED
        BY <1>1, <2>2, <2>3, <3>1 DEF CachesFit
    <2>5. CachesGrow(file, caches, ds)
      <3>1. \A k \in DOMAIN caches : Adds(caches[k], ds[k], file)
        BY <2>3 DEF Adds
      <3> QED
        BY <1>1, <2>3, <2>4, <3>1 DEF CachesGrow
    <2>6. \A k \in Cursors : cursors[k] # None => CursorStands(cursors[k], file, ds)
      BY <1>3, <2>5, CursorsStandStill
    <2>7. Agrees(ds[cache'], primary, file, late')
      BY <2>1, <2>2, <2>3 DEF Agrees
    <2>8. cache' \in 0 .. Len(ds)
      <3> DEFINE n == Len(caches)
      <3>1. n \in Nat /\ cache' = n + 1 /\ Len(ds) = n + 1
        BY <1>1, <2>1, <2>3
      <3> HIDE DEF n
      <3> QED
        BY <3>1
    <2>9. late' \in BOOLEAN
      BY <2>1
    <2> QED
      BY <1>2, <2>1, <2>4, <2>6, <2>7, <2>8, <2>9 DEF Safe
  <1>5. CASE cache # 0
    <2> DEFINE r == SetMaxBytes(caches[cache], max)
               ds == UseCache(r)
    <2>1. caches' = ds /\ cache' = cache /\ late' = late
      BY <1>5 DEF EnableCache, UseCache
    <2>2. caches[cache] \in Caches(Offsets) /\ WithinBudget(caches[cache])
      BY <1>1, <1>5 DEF CachesFit
    <2>3. /\ r \in Caches(Offsets) /\ WithinBudget(r)
          /\ \A x \in Range(r.entries) : x \in Range(caches[cache].entries)
      BY <2>2, SetMaxBytesEffect
    <2> HIDE DEF r
    <2>4. /\ CachesGrow(file, caches, ds) /\ CachesFit(ds) /\ Len(ds) = Len(caches)
          /\ ds[cache] = r
      BY <1>1, <1>5, <2>3, CacheInUseLoses
    <2> HIDE DEF ds
    <2>5. \A k \in Cursors : cursors[k] # None => CursorStands(cursors[k], file, ds)
      BY <1>3, <2>4, CursorsStandStill
    <2>6. Agrees(r, primary, file, late)
      <3> DEFINE c == caches[cache]
      <3>1. Agrees(c, primary, file, late) /\ \A x \in Range(r.entries) : x \in Range(c.entries)
        BY <1>1, <1>5, <2>3
      <3> HIDE DEF c
      <3> QED
        BY <3>1 DEF Agrees
    <2> QED
      BY <1>2, <2>1, <2>4, <2>5, <2>6 DEF Safe
  <1> QED
    BY <1>4, <1>5

\* disableCache(), which forgets the cache; cursors keep it.
LEMMA DisableCacheKeeps ==
    ASSUME Safe, DisableCache
    PROVE  Safe'
  <1>1. UNCHANGED <<file, primary, dropped, caches, cursors, call, late>> /\ cache' = 0
    BY DEF DisableCache
  <1>2. Len(caches) \in Nat
    BY DEF Safe, CachesFit
  <1> QED
    BY <1>1, <1>2 DEF Safe

-----------------------------------------------------------------------------
(* The cursors.                                                            *)

\* A step that changes one cursor, and maybe the caches and the call.
LEMMA CursorStep ==
    ASSUME Safe, NEW c \in Cursors, NEW new, new = None \/ CursorStands(new, file, caches),
           NEW ds, CachesGrow(file, caches, ds), Len(ds) = Len(caches),
           UNCHANGED <<file, primary, dropped, cache>>, caches' = ds,
           cursors' = [cursors EXCEPT ![c] = new], late' \in BOOLEAN,
           cache # 0 => Agrees(ds[cache], primary, file, late'),
           call' \in Calls \cup {None}, CallStands(call', cursors')
    PROVE  Safe'
  <1>1. /\ Indexes(primary, file) /\ file \in Seq(Recs) /\ caches \in Seq(Caches(Offsets))
        /\ cursors \in [Cursors -> CursorStates \cup {None}]
        /\ cache \in 0 .. Len(caches) /\ dropped \in BOOLEAN
    BY DEF Safe, Indexes, CachesFit
  <1>2. Grows(file, file)
    BY <1>1, SameFile
  <1>3. \A k \in Cursors : cursors[k] # None => CursorStands(cursors[k], file, ds)
    BY <1>2, CursorsStandStill
  <1>4. new # None => CursorStands(new, file, ds)
    BY <1>1, <1>2, CursorStandsStill
  <1>5. new \in CursorStates \cup {None}
    BY DEF CursorStands, TypeOKCursor
  <1>6. /\ cursors' \in [Cursors -> CursorStates \cup {None}]
        /\ \A k \in Cursors : cursors'[k] # None => CursorStands(cursors'[k], file, ds)
    BY <1>1, <1>3, <1>4, <1>5
  <1>7. CachesFit(ds)
    BY DEF CachesGrow
  <1> QED
    BY <1>1, <1>6, <1>7 DEF Safe

\* A step that changes one cursor, and maybe the call.
LEMMA CursorOnlyStep ==
    ASSUME Safe, NEW c \in Cursors, NEW new, new = None \/ CursorStands(new, file, caches),
           UNCHANGED <<file, primary, dropped, caches, cache, late>>,
           cursors' = [cursors EXCEPT ![c] = new],
           call' \in Calls \cup {None}, CallStands(call', cursors')
    PROVE  Safe'
  <1>1. /\ CachesFit(caches) /\ late \in BOOLEAN
        /\ (cache # 0 => Agrees(caches[cache], primary, file, late))
    BY DEF Safe
  <1>2. CachesGrow(file, caches, caches)
    BY <1>1, NoCacheChanges
  <1>3. late' \in BOOLEAN /\ (cache # 0 => Agrees(caches[cache], primary, file, late'))
    BY <1>1
  <1> QED
    BY <1>2, <1>3, CursorStep

\* A step that changes the call alone.
LEMMA CallOnlyStep ==
    ASSUME Safe, UNCHANGED <<file, primary, dropped, caches, cache, cursors, late>>,
           call' \in Calls \cup {None}, CallStands(call', cursors)
    PROVE  Safe'
  BY DEF Safe

\* A cursor of the function, for the steps below.
LEMMA CursorIs ==
    ASSUME Safe, NEW c \in Cursors, cursors[c] # None
    PROVE  /\ cursors[c] \in CursorStates /\ CursorStands(cursors[c], file, caches)
           /\ Taken(cursors[c]) /\ Stands(cursors[c])
           /\ \A new : [cursors EXCEPT ![c] = new][c] = new
           /\ CachesFit(caches) /\ file \in Seq(Recs)
  <1>1. CursorStands(cursors[c], file, caches) /\ c \in DOMAIN cursors
    BY DEF Safe
  <1>2. cursors[c] \in CursorStates /\ Taken(cursors[c]) /\ Stands(cursors[c])
    BY <1>1 DEF CursorStands, TypeOKCursor, HoldsSnapshot, Taken
  <1> QED
    BY <1>1, <1>2 DEF Safe, Indexes

\* The call that runs, for the steps below.
LEMMA CallIs ==
    ASSUME Safe, call # None
    PROVE  /\ call \in Calls /\ call.cur \in Cursors /\ cursors[call.cur] # None
           /\ call.at \in Nat /\ call.found \in Seq(Docs)
           /\ call = [cur |-> call.cur, op |-> call.op, at |-> call.at,
                      found |-> call.found]
           /\ CallStands(call, cursors)
  <1>1. call \in Calls /\ CallStands(call, cursors)
    BY DEF Safe
  <1>2. cursors[call.cur] # None
    BY <1>1 DEF CallStands
  <1> QED
    BY <1>1, <1>2 DEF Calls

\* A call that starts has read nothing.
LEMMA StartedStands ==
    ASSUME NEW c \in Cursors, NEW op \in {"next", "collect", "count"}, Started(c, op),
           NEW cs, cs[c] # None, Taken(cs[c]),
           op = "next" /\ cs[c].sort => cs[c].sorted # None,
           op = "collect" => cs[c].sort /\ cs[c].sorted = None
    PROVE  call' \in Calls \cup {None} /\ CallStands(call', cs)
  <1>1. call' = [cur |-> c, op |-> op, at |-> 0, found |-> << >>]
    BY DEF Started
  <1>2. call' \in Calls
    BY <1>1 DEF Calls
  <1>3. call'.cur = c /\ call'.op = op /\ call'.at = 0 /\ call'.found = << >>
    BY <1>1
  <1>4. Len(cs[c].cands) \in Nat /\ MatchesAmong(cs[c], 0) = << >>
    BY TakenType, NoMatchesYet
  <1>5. CallStands(call', cs)
    BY <1>3, <1>4 DEF CallStands
  <1> QED
    BY <1>2, <1>5

\* find().
LEMMA FindKeeps ==
    ASSUME Safe, NEW c \in Cursors, NEW q \in Queries, NEW chain \in Chains,
           NEW cands \in Plans(q), Find(c, q, cands, chain)
    PROVE  Safe'
  <1> DEFINE new == NewCursor(q, cands, chain)
  <1>1. /\ cursors' = [cursors EXCEPT ![c] = new]
        /\ UNCHANGED <<file, primary, dropped, caches, cache, call, late>> /\ call = None
    BY DEF Find, NewCursor, Free
  <1>2. CursorStands(new, file, caches)
    BY NewCursorStands DEF Safe, CachesFit
  <1> HIDE DEF new
  <1>3. call' \in Calls \cup {None} /\ CallStands(call', cursors')
    BY <1>1 DEF CallStands
  <1> QED
    BY <1>1, <1>2, <1>3, CursorOnlyStep

\* A cursor let go of.
LEMMA ReleaseKeeps ==
    ASSUME Safe, NEW c \in Cursors, Release(c)
    PROVE  Safe'
  <1>1. /\ cursors' = [cursors EXCEPT ![c] = None]
        /\ UNCHANGED <<file, primary, dropped, caches, cache, call, late>> /\ call = None
    BY DEF Release, Free
  <1>2. call' \in Calls \cup {None} /\ CallStands(call', cursors')
    BY <1>1 DEF CallStands
  <1> DEFINE new == None
  <1>3. new = None \/ CursorStands(new, file, caches)
    OBVIOUS
  <1> QED
    BY <1>1, <1>2, CursorOnlyStep

\* A next() begins.
LEMMA NextBeginsKeeps ==
    ASSUME Safe, NEW c \in Cursors, NextBegins(c)
    PROVE  Safe'
  <1> DEFINE cur == cursors[c]
  <1>1. cur # None /\ UNCHANGED <<file, primary, dropped, caches, cache, late>>
    BY DEF NextBegins
  <1>2. /\ CursorStands(cur, file, caches) /\ Taken(cur) /\ cur \in CursorStates
        /\ \A new : [cursors EXCEPT ![c] = new][c] = new
    BY <1>1, CursorIs
  <1>3. CASE cur.sort /\ cur.sorted = None
    <2>1. Started(c, "collect") /\ cursors' = cursors
      BY <1>3 DEF NextBegins
    <2>2. call' \in Calls \cup {None} /\ CallStands(call', cursors)
      BY <1>1, <1>2, <1>3, <2>1, StartedStands
    <2> QED
      BY <1>1, <2>1, <2>2, CallOnlyStep
  <1>4. CASE ~(cur.sort /\ cur.sorted = None)
    <2> DEFINE new == IF cur.sort THEN cur ELSE SkippedFast(cur)
    <2>1. Started(c, "next") /\ cursors' = [cursors EXCEPT ![c] = new]
      BY <1>4 DEF NextBegins
    <2>2. CursorStands(new, file, caches)
      BY <1>2, SkippedFastStands
    <2>3. new # None /\ Taken(new)
      BY <2>2, NoneAssumption DEF CursorStands, TypeOKCursor, HoldsSnapshot, Taken
    <2>4. new.sort => new.sorted # None
      <3>1. CASE cur.sort
        BY <1>4, <3>1
      <3>2. CASE ~cur.sort
        <4>1. new = SkippedFast(cur)
          BY <3>2
        <4>2. SkippedFast(cur).sort = cur.sort
          BY <1>2 DEF SkippedFast, CursorStates
        <4> QED
          BY <3>2, <4>1, <4>2
      <3> QED
        BY <3>1, <3>2
    <2>5. cursors'[c] = new
      BY <1>2, <2>1
    <2> HIDE DEF new
    <2>6. call' \in Calls \cup {None} /\ CallStands(call', cursors')
      BY <2>1, <2>3, <2>4, <2>5, StartedStands
    <2> QED
      BY <1>1, <2>1, <2>2, <2>6, CursorOnlyStep
  <1> QED
    BY <1>3, <1>4

\* A next() that finds nothing more.
LEMMA NextReturnsNullKeeps ==
    ASSUME Safe, NEW c \in Cursors, NextReturnsNull(c)
    PROVE  Safe'
  <1> DEFINE cur == cursors[c]
             new == [cur EXCEPT !.done = TRUE]
  <1>1. /\ call # None /\ call.cur = c /\ call.op = "next" /\ call' = None
        /\ cur.index >= Length(cur) \/ AtLimit(cur)
        /\ cursors' = [cursors EXCEPT ![c].done = TRUE]
        /\ UNCHANGED <<file, primary, dropped, caches, cache, late>>
    BY DEF NextReturnsNull, Running
  <1>2. cur # None /\ (cur.sort => cur.sorted # None)
    BY <1>1, CallIs DEF CallStands
  <1>3. /\ CursorStands(cur, file, caches) /\ Stands(cur) /\ TypeOKCursor(cur) /\ Taken(cur)
    BY <1>2, CursorIs DEF CursorStands
  <1>4. cursors' = [cursors EXCEPT ![c] = new]
    BY <1>1
  <1>5. Exhausted(cur)
    <2>1. cur.index >= Length(cur) => cur.index = Length(cur)
      <3>1. CASE cur.sort
        <4>1. cur.index \in 0 .. Len(cur.sorted) /\ Length(cur) = Len(cur.sorted)
          BY <1>2, <1>3, <3>1 DEF TypeOKCursor, Length
        <4>2. cur.sorted \in Seq(Docs)
          BY <1>2, <1>3, <3>1 DEF TypeOKCursor, CursorStates
        <4>3. Len(cur.sorted) \in Nat
          BY <4>2
        <4> QED
          BY <4>1, <4>3
      <3>2. CASE ~cur.sort
        <4>1. cur.index \in 0 .. Len(cur.cands) /\ Length(cur) = Len(cur.cands)
          BY <1>3, <3>2 DEF TypeOKCursor, Length, Stands
        <4>2. Len(cur.cands) \in Nat
          BY <1>3, TakenType
        <4> QED
          BY <4>1, <4>2
      <3> QED
        BY <3>1, <3>2
    <2> QED
      BY <1>1, <1>2, <2>1 DEF Exhausted
  <1>6. CursorStands(new, file, caches)
    BY <1>3, <1>5, DoneStands
  <1> HIDE DEF new
  <1>7. call' \in Calls \cup {None} /\ CallStands(call', cursors')
    BY <1>1 DEF CallStands
  <1> QED
    BY <1>1, <1>4, <1>6, <1>7, CursorOnlyStep

\* A next() goes on in the sorted buffer.
LEMMA NextFromBufferKeeps ==
    ASSUME Safe, NEW c \in Cursors, NextFromBuffer(c)
    PROVE  Safe'
  <1> DEFINE cur == cursors[c]
             moved == [cur EXCEPT !.index = @ + 1]
             new == Matched(moved, moved.sorted[moved.index])
  <1>1. /\ call # None /\ call.cur = c /\ call.op = "next" /\ cur.sort
        /\ cur.index < Length(cur) /\ ~AtLimit(cur)
        /\ UNCHANGED <<file, primary, dropped, caches, cache, late>>
    BY DEF NextFromBuffer, Running
  <1>2. cursors' = [cursors EXCEPT ![c] = new] /\ (call' = call \/ call' = None)
    BY DEF NextFromBuffer
  <1>3. cur # None /\ (cur.sort => cur.sorted # None)
    BY <1>1, CallIs DEF CallStands
  <1>4. /\ CursorStands(cur, file, caches) /\ cur \in CursorStates
        /\ \A z : [cursors EXCEPT ![c] = z][c] = z
    BY <1>3, CursorIs
  <1>5. CursorStands(new, file, caches)
    BY <1>1, <1>3, <1>4, NextSortedStands
  <1>6. new.sort = cur.sort /\ new.sorted = cur.sorted
    <2>1. moved.sort = cur.sort /\ moved.sorted = cur.sorted /\ DOMAIN moved = DOMAIN cur
      BY <1>4 DEF CursorStates
    <2> DEFINE d == moved.sorted[moved.index]
    <2> HIDE DEF moved
    <2>2. Matched(moved, d).sort = moved.sort /\ Matched(moved, d).sorted = moved.sorted
      BY <1>4, <2>1 DEF Matched, CursorStates
    <2> QED
      BY <2>1, <2>2
  <1>7. cursors'[c] = new /\ new # None
    BY <1>2, <1>4, <1>5, NoneAssumption DEF CursorStands, TypeOKCursor
  <1> HIDE DEF new
  <1>8. call' \in Calls \cup {None} /\ CallStands(call', cursors')
    BY <1>1, <1>2, <1>3, <1>6, <1>7, CallIs DEF CallStands
  <1> QED
    BY <1>1, <1>2, <1>5, <1>8, CursorOnlyStep

\* A next() reads one candidate.
LEMMA NextReadsKeeps ==
    ASSUME Safe, NEW c \in Cursors, NextReads(c)
    PROVE  Safe'
  <1> DEFINE cur == cursors[c]
             i == cur.index + 1
             cand == cur.cands[i]
             full == cur.limit = None
             read == ReadCandidate(cur, cand, full)
             moved == Counted([read.cur EXCEPT !.index = @ + 1])
             d == Found(cand.id, read.doc)
             new == IF Evaluate(moved.query, read.doc) THEN Matched(moved, d) ELSE moved
             ds == read.caches
  <1>1. /\ call # None /\ call.cur = c /\ call.op = "next" /\ ~cur.sort
        /\ cur.index < Length(cur) /\ ~AtLimit(cur)
        /\ UNCHANGED <<file, primary, dropped, cache>>
    BY DEF NextReads, Running
  <1>2. /\ cursors' = [cursors EXCEPT ![c] = new] /\ (call' = call \/ call' = None)
        /\ caches' = ds /\ late' = (late \/ LateRead(cur, cand))
    BY DEF NextReads
  <1>3. cur # None
    BY <1>1, CallIs
  <1>4. /\ CursorStands(cur, file, caches) /\ cur \in CursorStates /\ Taken(cur)
        /\ \A z : [cursors EXCEPT ![c] = z][c] = z
        /\ CachesFit(caches) /\ file \in Seq(Recs)
    BY <1>3, CursorIs
  <1>5. cur.index < Len(cur.cands) /\ i \in DOMAIN cur.cands
    <2>1. cur.index < Len(cur.cands)
      BY <1>1 DEF Length
    <2>2. cur.index \in Nat /\ Len(cur.cands) \in Nat /\ DOMAIN cur.cands = 1 .. Len(cur.cands)
      BY <1>4, TakenType DEF CursorStates
    <2> QED
      BY <2>1, <2>2
  <1>6. PICK force \in BOOLEAN : force = full
    OBVIOUS
  <1>7. read = ReadCandidate(cur, cur.cands[i], force)
    BY <1>6
  <1> DEFINE range == read.cur.range
  <1> HIDE DEF full, read
  <1>8. /\ read.doc = cur.snap[i] /\ read.cur = Ranged(cur, range)
        /\ range \in Ranges \cup {None} /\ Covers(range, cur, file)
        /\ range = None => cur.range = None
        /\ cur.snap[i] = Decoded(ResolveBulkRange(cur, force), cand.off)
        /\ file[cand.off] = Found(cand.id, cur.snap[i])
        /\ cand \in Candidates /\ cur.snap[i] \in Values
        /\ cur.cache \in 0 .. Len(caches)
    <2> DEFINE r == ReadCandidate(cur, cur.cands[i], force)
    <2>1. /\ r.doc = cur.snap[i] /\ r.cur = Ranged(cur, r.cur.range)
          /\ r.cur.range \in Ranges \cup {None} /\ Covers(r.cur.range, cur, file)
          /\ r.cur.range = None => cur.range = None
          /\ cur.snap[i] = Decoded(ResolveBulkRange(cur, force), cur.cands[i].off)
          /\ file[cur.cands[i].off] = Found(cur.cands[i].id, cur.snap[i])
          /\ cur.cands[i] \in Candidates /\ cur.snap[i] \in Values
          /\ cur.cache \in 0 .. Len(caches)
      <3> HIDE DEF cur, i
      <3> QED BY <1>4, <1>5, ReadEffect
    <2> HIDE DEF r
    <2> QED BY <1>7, <2>1 DEF r
  <1> HIDE DEF range
  <1>9. CursorStands(new, file, caches)
    <2> DEFINE mov == Counted([Ranged(cur, range) EXCEPT !.index = @ + 1])
               then == IF Evaluate(cur.query, cur.snap[i])
                       THEN Matched(mov, Found(cand.id, cur.snap[i])) ELSE mov
    <2>1. CursorStands(then, file, caches) /\ mov.query = cur.query
      BY <1>1, <1>4, <1>5, <1>8, NextReadStands
    <2>2. moved = mov
      BY <1>8
    <2>3. new = then
      BY <1>8, <2>1, <2>2
    <2> QED
      BY <2>1, <2>3
  <1>10. cursors'[c] = new
    BY <1>2, <1>4
  <1>11. new # None /\ ~new.sort
    <2>1. new \in CursorStates /\ new # None
      BY <1>9, NoneAssumption DEF CursorStands, TypeOKCursor
    <2>2. new.sort = cur.sort
      <3> DEFINE m == [Ranged(cur, range) EXCEPT !.index = @ + 1]
      <3>1. m.sort = cur.sort /\ DOMAIN m = DOMAIN cur
        BY <1>4 DEF Ranged, CursorStates
      <3>2. moved = Counted(m)
        BY <1>8
      <3> HIDE DEF m, moved
      <3>3. Counted(m).sort = m.sort /\ DOMAIN Counted(m) = DOMAIN m
        BY <1>4, <3>1 DEF Counted, CursorStates
      <3>4. Matched(moved, d).sort = moved.sort
        BY <1>4, <3>1, <3>2, <3>3 DEF Matched, CursorStates
      <3> QED
        BY <3>1, <3>2, <3>3, <3>4
    <2> QED
      BY <1>1, <2>1, <2>2
  <1> HIDE DEF new, cand, i
  <1>12. call' \in Calls \cup {None} /\ CallStands(call', cursors')
    BY <1>1, <1>2, <1>10, <1>11, CallIs DEF CallStands
  <1>13. ds = ReadCandidate(cur, cand, force).caches
    BY <1>7 DEF cand
  <1>14. CachesGrow(file, caches, ds) /\ Len(ds) = Len(caches)
    BY <1>4, <1>8, <1>13, ReadCachesEffect
  <1>15. /\ Indexes(primary, file) /\ cache \in 0 .. Len(caches) /\ late \in BOOLEAN
         /\ (cache # 0 => Agrees(caches[cache], primary, file, late))
    BY DEF Safe
  <1>16. /\ late' \in BOOLEAN /\ (~late' => ~late /\ ~LateRead(cur, cand))
    BY <1>2
  <1>17. cache # 0 => Agrees(ds[cache], primary, file, late')
    BY <1>4, <1>8, <1>13, <1>15, <1>16, ReadKeepsContents
  <1> HIDE DEF ds
  <1> QED
    BY <1>1, <1>2, <1>9, <1>12, <1>14, <1>16, <1>17, CursorStep

\* A count() begins.
LEMMA CountBeginsKeeps ==
    ASSUME Safe, NEW c \in Cursors, CountBegins(c)
    PROVE  Safe'
  <1>1. /\ cursors[c] # None /\ Started(c, "count")
        /\ UNCHANGED <<file, primary, dropped, caches, cache, cursors, late>>
    BY DEF CountBegins
  <1>2. Taken(cursors[c])
    BY <1>1, CursorIs
  <1>3. call' \in Calls \cup {None} /\ CallStands(call', cursors)
    BY <1>1, <1>2, StartedStands
  <1> QED
    BY <1>1, <1>3, CallOnlyStep

\* A collection or a count() reads one candidate.
LEMMA ScanReadsKeeps ==
    ASSUME Safe, NEW c \in Cursors, ScanReads(c)
    PROVE  Safe' /\ call' # None
  <1> DEFINE cur == cursors[c]
             i == call.at + 1
             cand == cur.cands[i]
             read == ReadCandidate(cur, cand, TRUE)
             new == read.cur
             ds == read.caches
             match == Evaluate(cur.query, read.doc)
             found == IF match THEN Append(call.found, Found(cand.id, read.doc))
                      ELSE call.found
  <1>1. /\ call # None /\ call.cur = c /\ call.op \in {"collect", "count"}
        /\ call.at < Len(cur.cands)
        /\ UNCHANGED <<file, primary, dropped, cache>>
    BY DEF ScanReads, Scanning, Running
  <1>2. /\ cursors' = [cursors EXCEPT ![c] = new]
        /\ call' = [call EXCEPT !.at = i, !.found = found]
        /\ caches' = ds /\ late' = (late \/ LateRead(cur, cand))
    BY DEF ScanReads
  <1>3. cur # None
    BY <1>1, CallIs
  <1>4. /\ CursorStands(cur, file, caches) /\ cur \in CursorStates /\ Taken(cur)
        /\ \A z : [cursors EXCEPT ![c] = z][c] = z
        /\ CachesFit(caches) /\ file \in Seq(Recs)
    BY <1>3, CursorIs
  <1>5. /\ call.at \in Nat /\ call.found \in Seq(Docs) /\ call \in Calls
        /\ call = [cur |-> call.cur, op |-> call.op, at |-> call.at, found |-> call.found]
        /\ call.found = MatchesAmong(cur, call.at)
        /\ call.op = "collect" => cur.sort /\ cur.sorted = None
    BY <1>1, CallIs DEF CallStands
  <1>6. /\ i \in DOMAIN cur.cands /\ i \in 0 .. Len(cur.cands) /\ i \in Nat
        /\ call.at \in 0 .. Len(cur.cands) - 1
    BY <1>1, <1>4, <1>5, TakenType
  <1>7. PICK force \in BOOLEAN : force = TRUE
    OBVIOUS
  <1>8. read = ReadCandidate(cur, cur.cands[i], force)
    BY <1>7
  <1> DEFINE range == read.cur.range
  <1> HIDE DEF read
  <1>9. /\ read.doc = cur.snap[i] /\ read.cur = Ranged(cur, range)
        /\ range \in Ranges \cup {None} /\ Covers(range, cur, file)
        /\ range = None => cur.range = None
        /\ cur.snap[i] = Decoded(ResolveBulkRange(cur, force), cand.off)
        /\ file[cand.off] = Found(cand.id, cur.snap[i])
        /\ cand \in Candidates /\ cur.snap[i] \in Values
        /\ cur.cache \in 0 .. Len(caches)
    <2> DEFINE r == ReadCandidate(cur, cur.cands[i], force)
    <2>1. /\ r.doc = cur.snap[i] /\ r.cur = Ranged(cur, r.cur.range)
          /\ r.cur.range \in Ranges \cup {None} /\ Covers(r.cur.range, cur, file)
          /\ r.cur.range = None => cur.range = None
          /\ cur.snap[i] = Decoded(ResolveBulkRange(cur, force), cur.cands[i].off)
          /\ file[cur.cands[i].off] = Found(cur.cands[i].id, cur.snap[i])
          /\ cur.cands[i] \in Candidates /\ cur.snap[i] \in Values
          /\ cur.cache \in 0 .. Len(caches)
      <3> HIDE DEF cur, i
      <3> QED BY <1>4, <1>6, ReadEffect
    <2> HIDE DEF r
    <2> QED BY <1>8, <2>1 DEF r
  <1> HIDE DEF range
  <1>10. CursorStands(new, file, caches)
    BY <1>4, <1>9, RangedStands
  <1>11. /\ new # None /\ new.query = cur.query /\ new.cands = cur.cands
         /\ new.snap = cur.snap /\ new.sort = cur.sort /\ new.sorted = cur.sorted
    BY <1>4, <1>9, <1>10, NoneAssumption DEF Ranged, CursorStates, CursorStands, TypeOKCursor
  <1>12. found = MatchesAmong(new, i) /\ found = MatchesAmong(cur, i)
    <2>1. found = MatchesAmong(cur, i)
      BY <1>4, <1>5, <1>6, <1>9, OneMoreMatch
    <2> QED
      BY <1>11, <2>1, SameMatches
  <1>13. found \in Seq(Docs)
    <2>1. MatchesAmong(cur, i) \in Seq(Docs)
      BY <1>4, <1>6, MatchesType
    <2> QED
      BY <1>12, <2>1
  <1> HIDE DEF found, new, i, cand, match
  <1>14. cursors'[c] = new
    BY <1>2, <1>4
  <1>15. /\ call'.cur = c /\ call'.op = call.op /\ call'.at = i /\ call'.found = found
         /\ call' \in Calls
    <2> DEFINE op == call.op
    <2>1. call' = [cur |-> c, op |-> op, at |-> i, found |-> found]
      BY <1>1, <1>2, <1>5
    <2>2. op \in {"next", "collect", "count"}
      BY <1>5 DEF Calls
    <2> HIDE DEF op
    <2>3. [cur |-> c, op |-> op, at |-> i, found |-> found] \in Calls
      BY <1>6, <1>13, <2>2 DEF Calls
    <2> QED
      BY <2>1, <2>3 DEF op
  <1>16. CallStands(call', cursors')
    <2>1. call'.op # "next"
      BY <1>1, <1>15
    <2> QED
      BY <1>5, <1>6, <1>11, <1>12, <1>14, <1>15, <2>1 DEF CallStands
  <1>17. ds = ReadCandidate(cur, cand, force).caches
    BY <1>8 DEF cand
  <1>18. CachesGrow(file, caches, ds) /\ Len(ds) = Len(caches)
    BY <1>4, <1>9, <1>17, ReadCachesEffect
  <1>19. /\ Indexes(primary, file) /\ cache \in 0 .. Len(caches) /\ late \in BOOLEAN
         /\ (cache # 0 => Agrees(caches[cache], primary, file, late))
    BY DEF Safe
  <1>20. /\ late' \in BOOLEAN /\ (~late' => ~late /\ ~LateRead(cur, cand))
    BY <1>2
  <1>21. cache # 0 => Agrees(ds[cache], primary, file, late')
    BY <1>4, <1>9, <1>17, <1>19, <1>20, ReadKeepsContents
  <1> HIDE DEF ds
  <1>22. Safe'
    BY <1>1, <1>2, <1>10, <1>15, <1>16, <1>18, <1>20, <1>21, CursorStep
  <1> QED
    BY <1>15, <1>22, NoneAssumption

\* A collection ends, and next() goes on with the sorted buffer.
LEMMA CollectEndsKeeps ==
    ASSUME Safe, NEW c \in Cursors, CollectEnds(c)
    PROVE  Safe'
  <1> DEFINE cur == cursors[c]
             s == Sorted(call.found)
             new == [cur EXCEPT !.sorted = s]
  <1>1. /\ call # None /\ call.cur = c /\ call.op = "collect" /\ call.at = Len(cur.cands)
        /\ Started(c, "next") /\ cursors' = [cursors EXCEPT ![c].sorted = s]
        /\ UNCHANGED <<file, primary, dropped, caches, cache, late>>
    BY DEF CollectEnds, Running
  <1>2. cur # None
    BY <1>1, CallIs
  <1>3. /\ CursorStands(cur, file, caches) /\ cur \in CursorStates
        /\ \A z : [cursors EXCEPT ![c] = z][c] = z
    BY <1>2, CursorIs
  <1>4. /\ cur.sort /\ cur.sorted = None /\ call.found = SnapshotMatches(cur)
    BY <1>1, CallIs DEF CallStands, SnapshotMatches
  <1>5. CursorStands(new, file, caches) /\ s # None
    BY <1>3, <1>4, SortedStands
  <1>6. cursors' = [cursors EXCEPT ![c] = new]
    BY <1>1
  <1>7. cursors'[c] = new /\ new.sorted = s
    BY <1>3, <1>6 DEF CursorStates
  <1> HIDE DEF new
  <1>8. new # None /\ Taken(new)
    BY <1>5, NoneAssumption DEF CursorStands, TypeOKCursor, HoldsSnapshot, Taken
  <1>9. call' \in Calls \cup {None} /\ CallStands(call', cursors')
    BY <1>1, <1>5, <1>7, <1>8, StartedStands
  <1> QED
    BY <1>1, <1>5, <1>6, <1>9, CursorOnlyStep

\* count() answers.
LEMMA CountReturnsKeeps ==
    ASSUME Safe, NEW c \in Cursors, CountReturns(c)
    PROVE  Safe'
  <1>1. /\ call' = None
        /\ UNCHANGED <<file, primary, dropped, caches, cache, cursors, late>>
    BY DEF CountReturns
  <1>2. call' \in Calls \cup {None} /\ CallStands(call', cursors)
    BY <1>1 DEF CallStands
  <1> QED
    BY <1>1, <1>2, CallOnlyStep

\* Nothing happens.
LEMMA StutterKeeps ==
    ASSUME Safe, UNCHANGED vars
    PROVE  Safe'
  BY DEF Safe, vars

\* Every step of the program keeps the invariant.
LEMMA NextKeeps ==
    ASSUME CarefulCallers, Safe, [Next]_vars
    PROVE  Safe'
  <1>1. ASSUME NEW id \in DocIds, NEW doc \in Values, WriteOne(id, doc) \/ UpdateOne(id, doc)
        PROVE  Safe'
    BY <1>1, WriteOneKeeps, UpdateOneKeeps
  <1>2. ASSUME NEW id \in DocIds, DeleteOne(id)
        PROVE  Safe'
    BY <1>2, DeleteOneKeeps
  <1>3. CASE Drop
    BY <1>3, DropKeeps
  <1>4. CASE Compact
    BY <1>4, CompactKeeps
  <1>5. ASSUME NEW max \in Budgets, EnableCache(max)
        PROVE  Safe'
    BY <1>5, EnableCacheKeeps
  <1>6. CASE DisableCache
    BY <1>6, DisableCacheKeeps
  <1>7. ASSUME NEW c \in Cursors, NEW q \in Queries, NEW chain \in Chains,
               NEW cands \in Plans(q), Find(c, q, cands, chain)
        PROVE  Safe'
    BY <1>7, FindKeeps
  <1>8. ASSUME NEW c \in Cursors,
               \/ Release(c)
               \/ NextBegins(c) \/ NextReads(c) \/ NextFromBuffer(c) \/ NextReturnsNull(c)
               \/ CountBegins(c) \/ ScanReads(c) \/ CollectEnds(c) \/ CountReturns(c)
        PROVE  Safe'
    <2>1. CASE Release(c) \/ NextBegins(c) \/ NextReads(c)
      BY <2>1, ReleaseKeeps, NextBeginsKeeps, NextReadsKeeps
    <2>2. CASE NextFromBuffer(c) \/ NextReturnsNull(c) \/ CountBegins(c)
      BY <2>2, NextFromBufferKeeps, NextReturnsNullKeeps, CountBeginsKeeps
    <2>3. CASE ScanReads(c) \/ CollectEnds(c) \/ CountReturns(c)
      BY <2>3, ScanReadsKeeps, CollectEndsKeeps, CountReturnsKeeps
    <2> QED
      BY <1>8, <2>1, <2>2, <2>3
  <1>9. CASE UNCHANGED vars
    BY <1>9, StutterKeeps
  <1> QED
    BY <1>1, <1>2, <1>3, <1>4, <1>5, <1>6, <1>7, <1>8, <1>9 DEF Next

-----------------------------------------------------------------------------
(* The shape of the state, which no caller can spoil: what is left of the  *)
(* invariant when a compaction has made the cache stale.                   *)

\* What the invariant says of the shape of one cursor, whatever it has read.
CursorShaped(cur, f, cs) ==
    /\ TypeOKCursor(cur) /\ cur.cache <= Len(cs) /\ HoldsSnapshot(f, cur)
    /\ cur.sorted # None => cur.sort
    /\ cur.sort /\ cur.sorted = None => cur.index = 0
    /\ cur.range = None => cur.reads < EscalateAfter

\* CallInProgress without what a scan has found.
CallShaped(k, cs) ==
    k # None =>
        LET cur == cs[k.cur] IN
        /\ cur # None
        /\ k.op = "next" /\ cur.sort => cur.sorted # None
        /\ k.op = "collect" => cur.sort /\ cur.sorted = None

\* The shape of the whole state, which no caller can spoil.
Shaped ==
    /\ Indexes(primary, file)
    /\ dropped \in BOOLEAN /\ late \in BOOLEAN
    /\ CachesFit(caches) /\ cache \in 0 .. Len(caches)
    /\ cursors \in [Cursors -> CursorStates \cup {None}]
    /\ \A c \in Cursors : cursors[c] # None => CursorShaped(cursors[c], file, caches)
    /\ call \in Calls \cup {None} /\ CallShaped(call, cursors)

\* The shape and nothing more is part of the invariant of careful callers.
LEMMA SafeIsShaped == Safe => Shaped
  <1> SUFFICES ASSUME Safe PROVE Shaped
    OBVIOUS
  <1>1. \A c \in Cursors : cursors[c] # None => CursorShaped(cursors[c], file, caches)
    BY DEF Safe, CursorStands, Stands, CursorShaped
  <1>2. CallShaped(call, cursors)
    BY DEF Safe, CallStands, CallShaped
  <1> QED
    BY <1>1, <1>2 DEF Safe, Shaped

\* A change of one cache that keeps it within its budget.
LEMMA OneCacheFits ==
    ASSUME NEW cs, CachesFit(cs), NEW k \in 1 .. Len(cs),
           NEW r \in Caches(Offsets), WithinBudget(r)
    PROVE  CachesFit([cs EXCEPT ![k] = r]) /\ Len([cs EXCEPT ![k] = r]) = Len(cs)
  <1>1. PICK f : f = << >>
    OBVIOUS
  <1>2. DOMAIN f = {}
    BY <1>1
  <1>3. Adds(cs[k], r, f)
    BY <1>2 DEF Adds
  <1>4. /\ CachesGrow(f, cs, [cs EXCEPT ![k] = r])
        /\ Len([cs EXCEPT ![k] = r]) = Len(cs)
    BY <1>3, OneCacheChanges
  <1> QED
    BY <1>4 DEF CachesGrow

\* A cursor keeps its shape while records are added and caches created.
LEMMA ShapedStill ==
    ASSUME NEW cur, NEW f, NEW cs \in Seq(Caches(Offsets)), CursorShaped(cur, f, cs),
           NEW g, Grows(f, g), NEW ds \in Seq(Caches(Offsets)), Len(cs) <= Len(ds)
    PROVE  CursorShaped(cur, g, ds)
  <1>1. TypeOKCursor(cur) /\ HoldsSnapshot(f, cur) /\ cur.cache <= Len(cs)
        /\ cur.cache \in Nat
    BY DEF CursorShaped, TypeOKCursor, CursorStates
  <1>2. \A i \in DOMAIN f : i \in DOMAIN g /\ g[i] = f[i]
    <2>1. f \in Seq(Recs) /\ g \in Seq(Recs) /\ Len(f) <= Len(g)
      BY DEF Grows
    <2>2. Len(f) \in Nat /\ Len(g) \in Nat /\ DOMAIN f = 1 .. Len(f) /\ DOMAIN g = 1 .. Len(g)
      BY <2>1
    <2> QED
      BY <2>1, <2>2 DEF Grows
  <1>3. HoldsSnapshot(g, cur)
    BY <1>1, <1>2 DEF HoldsSnapshot
  <1>4. cur.cache <= Len(ds)
    <2>1. Len(cs) \in Nat /\ Len(ds) \in Nat
      OBVIOUS
    <2> QED
      BY <1>1, <2>1
  <1> QED
    BY <1>3, <1>4 DEF CursorShaped

\* What the shape of a cursor says of its parts.
LEMMA ShapeParts ==
    ASSUME NEW cur, NEW f, NEW cs, CursorShaped(cur, f, cs)
    PROVE  /\ cur \in CursorStates /\ TypeOKCursor(cur) /\ HoldsSnapshot(f, cur)
           /\ Taken(cur) /\ cur # None
           /\ cur.index \in Nat /\ cur.skip \in Nat /\ cur.cache \in Nat
           /\ cur.range \in Ranges \cup {None} /\ Covers(cur.range, cur, f)
           /\ cur.sorted \in Seq(Docs) \cup {None} /\ cur.out \in Seq(Docs)
           /\ Len(cur.cands) \in Nat /\ DOMAIN cur.cands = 1 .. Len(cur.cands)
  <1>1. cur \in CursorStates /\ TypeOKCursor(cur) /\ HoldsSnapshot(f, cur)
    BY DEF CursorShaped, TypeOKCursor
  <1>2. Taken(cur) /\ Covers(cur.range, cur, f)
    BY <1>1 DEF HoldsSnapshot, Taken, Covers
  <1>3. cur # None
    BY <1>1, NoneAssumption
  <1>4. /\ cur.index \in Nat /\ cur.skip \in Nat /\ cur.cache \in Nat
        /\ cur.range \in Ranges \cup {None}
        /\ cur.sorted \in Seq(Docs) \cup {None} /\ cur.out \in Seq(Docs)
    BY <1>1 DEF CursorStates
  <1> QED
    BY <1>1, <1>2, <1>3, <1>4, TakenType

\* A step of a cursor that keeps its request, its snapshot and its shape.
LEMMA StepShaped ==
    ASSUME NEW cur, NEW f, NEW cs, CursorShaped(cur, f, cs),
           NEW new \in CursorStates, SameRequest(cur, new),
           Covers(new.range, cur, f), new.reads \in 0 .. EscalateAfter,
           new.range = None => new.reads < EscalateAfter,
           new.skipped \in 0 .. cur.skip, new.returned = Len(new.out),
           new.index \in 0 .. (IF cur.sorted = None THEN Len(cur.cands) ELSE Len(cur.sorted)),
           cur.sort /\ cur.sorted = None => new.index = 0
    PROVE  CursorShaped(new, f, cs)
  <1>1. HoldsSnapshot(f, new)
    BY SameHolds DEF CursorShaped, SameRequest
  <1>2. TypeOKCursor(new)
    BY DEF TypeOKCursor, SameRequest
  <1> QED
    BY <1>1, <1>2 DEF CursorShaped, SameRequest

\* A document that is skipped or returned, or none, keeps the counts right.
LEMMA CountsStay ==
    ASSUME NEW cur \in CursorStates, cur.skipped \in 0 .. cur.skip,
           cur.returned = Len(cur.out), NEW new, NEW d \in Docs,
           Ignores(cur, new) \/ Passes(cur, new, d)
    PROVE  new.skipped \in 0 .. cur.skip /\ new.returned = Len(new.out)
  <1>1. cur.skip \in Nat /\ cur.out \in Seq(Docs) /\ Len(cur.out) \in Nat
    BY DEF CursorStates
  <1>2. Len(Append(cur.out, d)) = Len(cur.out) + 1
    BY <1>1
  <1> QED
    BY <1>1, <1>2 DEF Ignores, Passes

\* The buffer of a cursor is another one that covers the candidates.
LEMMA RangedShaped ==
    ASSUME NEW cur, NEW f, NEW cs, CursorShaped(cur, f, cs), NEW range \in Ranges \cup {None},
           Covers(range, cur, f), range = None => cur.range = None
    PROVE  LET new == Ranged(cur, range) IN
           /\ CursorShaped(new, f, cs) /\ new.range = range /\ SameRequest(cur, new)
           /\ Ignores(cur, new) /\ new.index = cur.index /\ new.reads = cur.reads
  <1> DEFINE new == Ranged(cur, range)
  <1>1. cur \in CursorStates /\ TypeOKCursor(cur)
    BY ShapeParts
  <1>2. /\ new \in CursorStates /\ SameRequest(cur, new) /\ Ignores(cur, new)
        /\ new.range = range /\ new.index = cur.index /\ new.reads = cur.reads
    BY <1>1 DEF CursorStates, SameRequest, Ignores, Ranged
  <1> HIDE DEF new
  <1>3. /\ new.skipped \in 0 .. cur.skip /\ new.returned = Len(new.out)
    BY <1>1, <1>2 DEF Ignores, TypeOKCursor
  <1>4. /\ new.reads \in 0 .. EscalateAfter
        /\ new.range = None => new.reads < EscalateAfter
        /\ new.index \in 0 .. (IF cur.sorted = None THEN Len(cur.cands) ELSE Len(cur.sorted))
        /\ cur.sort /\ cur.sorted = None => new.index = 0
    BY <1>1, <1>2 DEF TypeOKCursor, CursorShaped
  <1>5. CursorShaped(new, f, cs)
    BY <1>2, <1>3, <1>4, StepShaped
  <1> QED
    BY <1>2, <1>5 DEF new

\* Whatever is in the cache, readCandidateDocument returns some content, keeps the
\* caches within their budgets and leaves the cursor its shape.
LEMMA ReadShape ==
    ASSUME CachesFit(caches), file \in Seq(Recs), NEW cur, CursorShaped(cur, file, caches),
           NEW i \in DOMAIN cur.cands, NEW force \in BOOLEAN
    PROVE  LET r == ReadCandidate(cur, cur.cands[i], force)
               range == r.cur.range
           IN /\ r.doc \in Values /\ r.cur = Ranged(cur, range)
              /\ range \in Ranges \cup {None} /\ Covers(range, cur, file)
              /\ range = None => cur.range = None
              /\ CachesFit(r.caches) /\ Len(r.caches) = Len(caches)
              /\ cur.cands[i].id \in DocIds
  <1> DEFINE r == ReadCandidate(cur, cur.cands[i], force)
             rg == ResolveBulkRange(cur, force)
             cand == cur.cands[i]
             c == caches[cur.cache]
  <1>1. /\ cur \in CursorStates /\ Taken(cur) /\ HoldsSnapshot(file, cur)
        /\ cur.cache \in Nat /\ cur.range \in Ranges \cup {None}
        /\ Covers(cur.range, cur, file) /\ cur.cache <= Len(caches)
    BY ShapeParts DEF CursorShaped
  <1>2. cand \in Candidates /\ cand.id \in DocIds /\ cur.snap[i] \in Values
    BY <1>1, TakenType
  <1>3. /\ rg \in Ranges \cup {None} /\ Covers(rg, cur, file)
        /\ cur.range # None => rg = cur.range
    BY <1>1, ResolveEffect
  <1>4. cur.snap[i] = Decoded(rg, cand.off)
    BY <1>1, <1>3, DecodedEffect
  <1>5. file[cand.off] = Found(cand.id, cur.snap[i])
    BY <1>1 DEF HoldsSnapshot
  <1>6. cur.cache \in 0 .. Len(caches)
    <2>1. Len(caches) \in Nat
      BY DEF CachesFit
    <2> QED
      BY <1>1, <2>1
  <1>7. r.doc \in Values /\ (r.cur = cur \/ r.cur = Ranged(cur, rg))
    <2>1. CASE cur.cache # 0 /\ Hit(c, cand.id, cand.off)
      <3>1. r.doc = Lookup(c, cand.id).doc /\ r.cur = cur
        BY <2>1 DEF ReadCandidate
      <3>2. Lookup(c, cand.id) \in Range(c.entries)
        BY <2>1, LookupEffect DEF Hit
      <3>3. c \in Caches(Offsets)
        BY <1>6, <2>1 DEF CachesFit
      <3>4. Lookup(c, cand.id).doc \in Values
        BY <3>2, <3>3, EntriesAreHeld
      <3> QED
        BY <3>1, <3>4
    <2>2. CASE ~(cur.cache # 0 /\ Hit(c, cand.id, cand.off))
      <3>1. r.doc = Decoded(rg, cand.off) /\ r.cur = [cur EXCEPT !.range = rg]
        BY <2>2 DEF ReadCandidate
      <3> QED
        BY <1>2, <1>4, <3>1 DEF Ranged
    <2> QED
      BY <2>1, <2>2
  <1>8. Ranged(cur, rg).range = rg /\ Ranged(cur, cur.range) = cur
    BY <1>1 DEF Ranged, CursorStates
  <1>9. CachesFit(r.caches) /\ Len(r.caches) = Len(caches)
    BY <1>2, <1>4, <1>5, <1>6, ReadCachesEffect DEF CachesGrow
  <1> HIDE DEF r, rg
  <1>10. /\ r.cur = Ranged(cur, r.cur.range) /\ r.cur.range \in Ranges \cup {None}
         /\ Covers(r.cur.range, cur, file)
         /\ r.cur.range = None => cur.range = None
    BY <1>1, <1>3, <1>7, <1>8
  <1> QED
    BY <1>2, <1>7, <1>9, <1>10 DEF r

\* One round of the loop of next() keeps the shape, whatever document d it read.
LEMMA NextReadShaped ==
    ASSUME file \in Seq(Recs), NEW cur, CursorShaped(cur, file, caches),
           ~cur.sort, cur.index < Len(cur.cands),
           NEW range \in Ranges \cup {None}, Covers(range, cur, file),
           range = None => cur.range = None, NEW d \in Docs, NEW match
    PROVE  LET moved == Counted([Ranged(cur, range) EXCEPT !.index = @ + 1])
               new == IF match THEN Matched(moved, d) ELSE moved
           IN CursorShaped(new, file, caches) /\ ~new.sort
  <1> DEFINE at == Ranged(cur, range)
             next == [at EXCEPT !.index = @ + 1]
             moved == Counted(next)
             new == IF match THEN Matched(moved, d) ELSE moved
  <1>1. /\ cur \in CursorStates /\ TypeOKCursor(cur) /\ cur.index \in Nat
        /\ cur.index + 1 \in 0 .. Len(cur.cands) /\ cur.sorted = None
    <2>1. /\ cur \in CursorStates /\ TypeOKCursor(cur) /\ cur.index \in Nat
          /\ Len(cur.cands) \in Nat
      BY ShapeParts
    <2> QED
      BY <2>1 DEF CursorShaped
  <1>2. /\ CursorShaped(at, file, caches) /\ at.range = range /\ SameRequest(cur, at)
        /\ Ignores(cur, at) /\ at.index = cur.index /\ at.reads = cur.reads
    BY RangedShaped
  <1>3. at \in CursorStates /\ HoldsSnapshot(file, at)
    BY <1>2, ShapeParts
  <1> DEFINE n == cur.index + 1
  <1>4. n \in Nat
    BY <1>1
  <1>5. next = [at EXCEPT !.index = n]
    BY <1>2
  <1> HIDE DEF at, n, next
  <1>6. /\ next \in CursorStates /\ SameRequest(at, next) /\ Ignores(at, next)
        /\ next.range = at.range /\ next.index = n /\ next.reads = at.reads
    BY <1>3, <1>4, <1>5 DEF CursorStates, SameRequest, Ignores
  <1>7. /\ HoldsSnapshot(file, next) /\ next.reads \in 0 .. EscalateAfter
        /\ next.range = None => next.reads < EscalateAfter
    <2>1. Covers(next.range, at, file)
      BY <1>2, <1>6, ShapeParts
    <2>2. HoldsSnapshot(file, next)
      BY <1>3, <1>6, <2>1, SameHolds DEF SameRequest
    <2> QED
      BY <1>1, <1>2, <1>6, <2>2 DEF TypeOKCursor, CursorShaped
  <1>8. /\ moved \in CursorStates /\ SameRequest(next, moved) /\ moved.index = n
        /\ Ignores(next, moved)
        /\ Covers(moved.range, next, file) /\ moved.reads \in 0 .. EscalateAfter
        /\ moved.range = None => moved.reads < EscalateAfter
    BY <1>6, <1>7, CountedEffect
  <1> HIDE DEF moved
  <1>9. /\ SameRequest(cur, moved) /\ Ignores(cur, moved) /\ Covers(moved.range, cur, file)
    BY <1>2, <1>6, <1>8 DEF SameRequest, Ignores, Covers
  <1>10. /\ new \in CursorStates /\ SameRequest(cur, new) /\ new.index = n
         /\ Ignores(cur, new) \/ Passes(cur, new, d)
         /\ new.range = moved.range /\ new.reads = moved.reads
    <2>1. CASE ~match
      BY <1>8, <1>9, <2>1
    <2>2. CASE match
      <3> DEFINE m == Matched(moved, d)
      <3>1. /\ m \in CursorStates /\ SameRequest(moved, m) /\ m.index = n
            /\ Passes(moved, m, d) /\ m.range = moved.range /\ m.reads = moved.reads
        BY <1>8, MatchedEffect
      <3> HIDE DEF m
      <3>2. SameRequest(cur, m) /\ Passes(cur, m, d)
        BY <1>9, <3>1 DEF SameRequest, Passes, Ignores
      <3> QED
        BY <2>2, <3>1, <3>2 DEF m
    <2> QED
      BY <2>1, <2>2
  <1> HIDE DEF new
  <1>11. new.skipped \in 0 .. cur.skip /\ new.returned = Len(new.out)
    BY <1>1, <1>10, CountsStay DEF TypeOKCursor
  <1>12. CursorShaped(new, file, caches)
    BY <1>1, <1>8, <1>9, <1>10, <1>11, StepShaped DEF n
  <1> QED
    BY <1>10, <1>12 DEF new, moved, next, at, SameRequest

\* One round of the loop of nextSorted().
LEMMA NextSortedShaped ==
    ASSUME NEW cur, NEW f, NEW cs, CursorShaped(cur, f, cs), cur.sort, cur.sorted # None,
           cur.index < Length(cur)
    PROVE  LET moved == [cur EXCEPT !.index = @ + 1]
               new == Matched(moved, moved.sorted[moved.index])
           IN CursorShaped(new, f, cs) /\ new.sorted # None
  <1> DEFINE n == cur.index + 1
             d == cur.sorted[n]
             moved == [cur EXCEPT !.index = @ + 1]
             new == Matched(moved, d)
  <1>1. /\ cur \in CursorStates /\ TypeOKCursor(cur) /\ cur.index \in Nat
        /\ Covers(cur.range, cur, f) /\ cur.sorted \in Seq(Docs)
    BY ShapeParts
  <1>2. n \in Nat /\ n \in 0 .. Len(cur.sorted) /\ d \in Docs
    <2>1. Len(cur.sorted) \in Nat /\ cur.index < Len(cur.sorted)
      BY <1>1 DEF Length
    <2>2. n \in 1 .. Len(cur.sorted)
      BY <1>1, <2>1
    <2> QED
      BY <1>1, <2>1, <2>2
  <1>3. moved = [cur EXCEPT !.index = n]
    OBVIOUS
  <1> HIDE DEF n, moved
  <1>4. /\ moved \in CursorStates /\ SameRequest(cur, moved) /\ moved.index = n
        /\ Ignores(cur, moved) /\ moved.range = cur.range /\ moved.reads = cur.reads
    BY <1>1, <1>2, <1>3 DEF CursorStates, SameRequest, Ignores
  <1>5. moved.sorted[moved.index] = d
    BY <1>4 DEF SameRequest
  <1> HIDE DEF d
  <1>6. /\ new \in CursorStates /\ SameRequest(moved, new) /\ new.index = n
        /\ Passes(moved, new, d) /\ new.range = cur.range /\ new.reads = cur.reads
    BY <1>2, <1>4, MatchedEffect
  <1> HIDE DEF new
  <1>7. SameRequest(cur, new) /\ Passes(cur, new, d)
    BY <1>4, <1>6 DEF SameRequest, Passes, Ignores
  <1>8. new.skipped \in 0 .. cur.skip /\ new.returned = Len(new.out)
    BY <1>1, <1>2, <1>7, CountsStay DEF TypeOKCursor
  <1>9. /\ new.reads \in 0 .. EscalateAfter
        /\ new.range = None => new.reads < EscalateAfter
    BY <1>1, <1>6 DEF TypeOKCursor, CursorShaped
  <1>10. CursorShaped(new, f, cs)
    BY <1>1, <1>2, <1>6, <1>7, <1>8, <1>9, StepShaped
  <1> QED
    BY <1>5, <1>7, <1>10 DEF new, moved, SameRequest

\* The fast path of a query for all documents.
LEMMA SkippedFastShaped ==
    ASSUME NEW cur, NEW f, NEW cs, CursorShaped(cur, f, cs), ~cur.sort
    PROVE  CursorShaped(SkippedFast(cur), f, cs) /\ ~SkippedFast(cur).sort
  <1> DEFINE n == Len(cur.cands)
             i == IF cur.skip < n THEN cur.skip ELSE n
             k == cur.skip
             new == [cur EXCEPT !.index = i, !.skipped = k]
  <1>1. SkippedFast(cur) \in {cur, new}
    BY DEF SkippedFast
  <1>2. /\ cur \in CursorStates /\ TypeOKCursor(cur) /\ Covers(cur.range, cur, f)
        /\ k \in Nat /\ n \in Nat /\ cur.sorted = None
    BY ShapeParts DEF CursorShaped
  <1>3. i \in 0 .. n /\ i \in Nat
    BY <1>2
  <1> HIDE DEF i
  <1>4. /\ new \in CursorStates /\ SameRequest(cur, new) /\ new.index = i
        /\ new.skipped = k /\ new.returned = cur.returned /\ new.out = cur.out
        /\ new.range = cur.range /\ new.reads = cur.reads
    BY <1>2, <1>3 DEF CursorStates, SameRequest
  <1> HIDE DEF new
  <1>5. /\ new.reads \in 0 .. EscalateAfter
        /\ new.range = None => new.reads < EscalateAfter
        /\ new.skipped \in 0 .. cur.skip /\ new.returned = Len(new.out)
    BY <1>2, <1>4 DEF TypeOKCursor, CursorShaped
  <1>6. new.index \in 0 .. (IF cur.sorted = None THEN Len(cur.cands) ELSE Len(cur.sorted))
    BY <1>2, <1>3, <1>4
  <1>7. CursorShaped(new, f, cs)
    BY <1>2, <1>4, <1>5, <1>6, StepShaped
  <1> QED
    BY <1>1, <1>4, <1>7 DEF SameRequest

\* A cursor that has returned null, and one whose matches have been sorted.
LEMMA EndedShaped ==
    ASSUME NEW cur, NEW f, NEW cs, CursorShaped(cur, f, cs)
    PROVE  /\ CursorShaped([cur EXCEPT !.done = TRUE], f, cs)
           /\ \A s \in Seq(Docs) :
                 cur.sort /\ cur.sorted = None =>
                     LET new == [cur EXCEPT !.sorted = s]
                     IN CursorShaped(new, f, cs) /\ new.sorted = s
  <1>1. cur \in CursorStates /\ TypeOKCursor(cur) /\ HoldsSnapshot(f, cur)
    BY ShapeParts
  <1>2. CursorShaped([cur EXCEPT !.done = TRUE], f, cs)
    <2> DEFINE new == [cur EXCEPT !.done = TRUE]
    <2>1. /\ new \in CursorStates
          /\ new.cands = cur.cands /\ new.cache = cur.cache
          /\ new.sort = cur.sort /\ new.skip = cur.skip
          /\ new.index = cur.index /\ new.skipped = cur.skipped
          /\ new.returned = cur.returned /\ new.range = cur.range /\ new.reads = cur.reads
          /\ new.sorted = cur.sorted /\ new.snap = cur.snap /\ new.out = cur.out
      BY <1>1 DEF CursorStates
    <2> HIDE DEF new
    <2>2. TypeOKCursor(new) /\ HoldsSnapshot(f, new)
      BY <1>1, <2>1 DEF TypeOKCursor, HoldsSnapshot
    <2>3. CursorShaped(new, f, cs)
      BY <2>1, <2>2 DEF CursorShaped
    <2> QED
      BY <2>3 DEF new
  <1>3. ASSUME NEW s \in Seq(Docs), cur.sort, cur.sorted = None
        PROVE  LET new == [cur EXCEPT !.sorted = s]
               IN CursorShaped(new, f, cs) /\ new.sorted = s
    <2> DEFINE new == [cur EXCEPT !.sorted = s]
    <2>1. /\ new \in CursorStates
          /\ new.cands = cur.cands /\ new.cache = cur.cache
          /\ new.sort = cur.sort /\ new.skip = cur.skip
          /\ new.index = cur.index /\ new.skipped = cur.skipped
          /\ new.returned = cur.returned /\ new.range = cur.range /\ new.reads = cur.reads
          /\ new.sorted = s /\ new.snap = cur.snap /\ new.out = cur.out
      BY <1>1 DEF CursorStates
    <2> HIDE DEF new
    <2>2. cur.index = 0 /\ s # None /\ Len(s) \in Nat
      BY <1>3, NoneAssumption DEF CursorShaped
    <2>3. TypeOKCursor(new) /\ HoldsSnapshot(f, new)
      BY <1>1, <2>1, <2>2 DEF TypeOKCursor, HoldsSnapshot
    <2>4. CursorShaped(new, f, cs)
      BY <1>3, <2>1, <2>2, <2>3 DEF CursorShaped
    <2> QED
      BY <2>1, <2>4 DEF new
  <1> QED
    BY <1>2, <1>3


\* The cursor find() hands out.
LEMMA NewCursorShaped ==
    ASSUME Indexes(primary, file), CachesFit(caches), cache \in 0 .. Len(caches),
           NEW q \in Queries, NEW cands \in Plans(q), NEW chain \in Chains
    PROVE  CursorShaped(NewCursor(q, cands, chain), file, caches)
  <1> DEFINE cur == NewCursor(q, cands, chain)
             snap == [i \in DOMAIN cands |-> file[cands[i].off].doc]
  <1>1. /\ cands \in Seq(Candidates) /\ DOMAIN cands = 1 .. Len(cands) /\ Len(cands) \in Nat
        /\ \A i \in DOMAIN cands : \E j \in DOMAIN primary : cands[i] = primary[j]
    BY PlansEffect
  <1>2. ASSUME NEW i \in DOMAIN cands
        PROVE  LET o == cands[i].off IN
               /\ o \in DOMAIN file /\ file[o] = Found(cands[i].id, file[o].doc)
               /\ file[o].doc \in Values
    <2> DEFINE o == cands[i].off
    <2>1. o \in DOMAIN file /\ file[o] \in Docs /\ file[o].id = cands[i].id
      BY <1>1 DEF Indexes
    <2>2. file[o] = [id |-> file[o].id, doc |-> file[o].doc] /\ file[o].doc \in Values
      BY <2>1 DEF Docs
    <2> QED
      BY <2>1, <2>2 DEF Found
  <1>3. snap \in Seq(Values) /\ Len(snap) = Len(cands)
        /\ \A i \in DOMAIN cands : snap[i] = file[cands[i].off].doc
    BY <1>1, <1>2
  <1>4. /\ chain.sort \in BOOLEAN /\ chain.limit \in Nat \cup {None} /\ chain.skip \in Nat
        /\ << >> \in Seq(Docs) /\ EscalateAfter \in Nat /\ 0 < EscalateAfter
    BY ReadsAssumption
  <1>5. cache \in Nat /\ cache <= Len(caches)
    BY DEF CachesFit
  <1> HIDE DEF snap
  <1>6. cur = [query |-> q, cands |-> cands, cache |-> cache, sort |-> chain.sort,
               limit |-> chain.limit, skip |-> chain.skip, index |-> 0, skipped |-> 0,
               returned |-> 0, range |-> None, reads |-> 0, sorted |-> None,
               snap |-> snap, out |-> << >>, done |-> FALSE]
    BY DEF NewCursor, snap
  <1> HIDE DEF cur
  <1>7. /\ cur.cands = cands /\ cur.cache = cache /\ cur.skip = chain.skip
        /\ cur.index = 0 /\ cur.skipped = 0 /\ cur.returned = 0 /\ cur.range = None
        /\ cur.reads = 0 /\ cur.sorted = None /\ cur.snap = snap /\ cur.out = << >>
    BY <1>6
  <1>8. cur \in CursorStates
    BY <1>1, <1>3, <1>4, <1>5, <1>6 DEF CursorStates
  <1>9. TypeOKCursor(cur)
    BY <1>1, <1>4, <1>7, <1>8 DEF TypeOKCursor
  <1>10. HoldsSnapshot(file, cur)
    BY <1>2, <1>3, <1>7 DEF HoldsSnapshot
  <1>11. CursorShaped(cur, file, caches)
    BY <1>4, <1>5, <1>7, <1>9, <1>10 DEF CursorShaped
  <1> QED
    BY <1>11 DEF cur

\* A write, or a change of the caches.
LEMMA WriteShaped ==
    ASSUME Shaped, UNCHANGED <<cursors, call>>, Indexes(primary', file'),
           Grows(file, file'), CachesFit(caches'), Len(caches) <= Len(caches'),
           cache' \in 0 .. Len(caches'), dropped' \in BOOLEAN, late' \in BOOLEAN
    PROVE  Shaped'
  <1>1. caches \in Seq(Caches(Offsets)) /\ caches' \in Seq(Caches(Offsets))
    BY DEF Shaped, CachesFit
  <1>2. \A c \in Cursors : cursors[c] # None => CursorShaped(cursors[c], file', caches')
    BY <1>1, ShapedStill DEF Shaped
  <1> QED
    BY <1>2 DEF Shaped

\* A step that changes one cursor, and maybe the caches and the call.
LEMMA CursorShapes ==
    ASSUME Shaped, NEW c \in Cursors, NEW new,
           new = None \/ CursorShaped(new, file, caches),
           UNCHANGED <<file, primary, dropped, cache>>,
           CachesFit(caches'), Len(caches') = Len(caches),
           cursors' = [cursors EXCEPT ![c] = new], late' \in BOOLEAN,
           call' \in Calls \cup {None}, CallShaped(call', cursors')
    PROVE  Shaped'
  <1>1. /\ Indexes(primary, file) /\ file \in Seq(Recs) /\ caches \in Seq(Caches(Offsets))
        /\ caches' \in Seq(Caches(Offsets)) /\ Len(caches) \in Nat
        /\ cursors \in [Cursors -> CursorStates \cup {None}]
        /\ cache \in 0 .. Len(caches) /\ dropped \in BOOLEAN
    BY DEF Shaped, Indexes, CachesFit
  <1>2. Grows(file, file) /\ Len(caches) <= Len(caches')
    BY <1>1, SameFile
  <1>3. /\ \A k \in Cursors : cursors[k] # None => CursorShaped(cursors[k], file, caches')
        /\ new # None => CursorShaped(new, file, caches')
    BY <1>1, <1>2, ShapedStill DEF Shaped
  <1>4. new \in CursorStates \cup {None}
    BY ShapeParts
  <1>5. /\ cursors' \in [Cursors -> CursorStates \cup {None}]
        /\ \A k \in Cursors : cursors'[k] # None => CursorShaped(cursors'[k], file, caches')
    BY <1>1, <1>3, <1>4
  <1> QED
    BY <1>1, <1>5 DEF Shaped

\* A cursor of the function, for the steps below.
LEMMA ShapeOf ==
    ASSUME Shaped, NEW c \in Cursors, cursors[c] # None
    PROVE  /\ CursorShaped(cursors[c], file, caches)
           /\ \A new : [cursors EXCEPT ![c] = new][c] = new
           /\ CachesFit(caches) /\ file \in Seq(Recs) /\ late \in BOOLEAN
  BY DEF Shaped, Indexes

\* The call that runs, for the steps below.
LEMMA CallShape ==
    ASSUME Shaped, call # None
    PROVE  /\ call \in Calls /\ call.cur \in Cursors /\ cursors[call.cur] # None
           /\ call.at \in Nat /\ call.found \in Seq(Docs)
           /\ call = [cur |-> call.cur, op |-> call.op, at |-> call.at,
                      found |-> call.found]
           /\ CallShaped(call, cursors)
  <1>1. call \in Calls /\ CallShaped(call, cursors)
    BY DEF Shaped
  <1>2. cursors[call.cur] # None
    BY <1>1 DEF CallShaped
  <1> QED
    BY <1>1, <1>2 DEF Calls

\* A call that starts has the shape of one.
LEMMA StartedShaped ==
    ASSUME NEW c \in Cursors, NEW op \in {"next", "collect", "count"}, Started(c, op),
           NEW cs, cs[c] # None,
           op = "next" /\ cs[c].sort => cs[c].sorted # None,
           op = "collect" => cs[c].sort /\ cs[c].sorted = None
    PROVE  call' \in Calls \cup {None} /\ CallShaped(call', cs)
  <1>1. call' = [cur |-> c, op |-> op, at |-> 0, found |-> << >>]
    BY DEF Started
  <1>2. call' \in Calls
    BY <1>1 DEF Calls
  <1>3. call'.cur = c /\ call'.op = op
    BY <1>1
  <1> QED
    BY <1>2, <1>3 DEF CallShaped


\* A document is put, after the rest of the call has changed the caches.
LEMMA PutShaped ==
    ASSUME Shaped, Writing, NEW id \in DocIds, NEW doc \in Values,
           NEW before, CachesFit(before), Len(before) = Len(caches),
           ApplyPut(id, doc, before), Untouched
    PROVE  Shaped'
  <1> DEFINE o == Len(file) + 1
             d == Found(id, doc)
             r == Set(before[cache], id, o, doc)
  <1>1. /\ Indexes(primary, file) /\ CachesFit(caches) /\ cache \in 0 .. Len(caches)
        /\ file \in Seq(Recs) /\ Len(caches) \in Nat
    BY DEF Shaped, CachesFit, Indexes
  <1>2. o \in Offsets /\ o \notin DOMAIN file /\ d \in Recs
    BY <1>1, ReadsAssumption DEF Writing, Offsets, Found, Docs, Recs
  <1>3. /\ file' = Append(file, d) /\ primary' = WithOffset(id, o)
        /\ caches' = IF cache = 0 THEN caches ELSE [before EXCEPT ![cache] = r]
        /\ UNCHANGED <<dropped, cache, cursors, call, late>>
    BY DEF ApplyPut, Untouched
  <1>4. Moves(primary, WithOffset(id, o), id, o)
    BY <1>1, <1>2, WithOffsetEffect
  <1>5. Indexes(primary', file')
    BY <1>1, <1>3, <1>4, WriteKeepsIndex
  <1>6. Grows(file, file')
    BY <1>1, <1>2, <1>3, OneRecordMore
  <1>7. CachesFit(caches') /\ Len(caches') = Len(caches)
    <2>1. CASE cache = 0
      BY <1>1, <1>3, <2>1
    <2>2. CASE cache # 0
      <3>1. /\ cache \in 1 .. Len(before)
            /\ before[cache] \in Caches(Offsets) /\ WithinBudget(before[cache])
        BY <1>1, <2>2 DEF CachesFit
      <3> DEFINE c == before[cache]
      <3> HIDE DEF c, o
      <3>2. r \in Caches(Offsets) /\ WithinBudget(r)
        BY <1>2, <3>1, SetEffect DEF c
      <3> HIDE DEF r
      <3>3. CachesFit([before EXCEPT ![cache] = r])
            /\ Len([before EXCEPT ![cache] = r]) = Len(before)
        BY <3>1, <3>2, OneCacheFits
      <3> QED
        BY <1>3, <2>2, <3>3
    <2> QED
      BY <2>1, <2>2
  <1>8. /\ Len(caches) <= Len(caches') /\ cache' \in 0 .. Len(caches')
        /\ dropped' \in BOOLEAN /\ late' \in BOOLEAN
    BY <1>1, <1>3, <1>7 DEF Shaped
  <1> QED
    BY <1>3, <1>5, <1>6, <1>7, <1>8, WriteShaped

\* insertOne, replaceOne and updateOne.
LEMMA PutsShaped ==
    ASSUME Shaped, NEW id \in DocIds, NEW doc \in Values,
           WriteOne(id, doc) \/ UpdateOne(id, doc)
    PROVE  Shaped'
  <1>1. /\ Indexes(primary, file) /\ CachesFit(caches) /\ cache \in 0 .. Len(caches)
    BY DEF Shaped
  <1>2. CASE WriteOne(id, doc)
    BY <1>1, <1>2, PutShaped DEF WriteOne
  <1>3. CASE UpdateOne(id, doc)
    <2> DEFINE cand == [id |-> id, off |-> OffsetOf(id)]
               own == [cands |-> <<cand>>, cache |-> cache, limit |-> 1, range |-> None]
               old == file[OffsetOf(id)].doc
               r == ReadCandidate(own, own.cands[1], FALSE).caches
    <2>1. Writing /\ Exists(id) /\ ApplyPut(id, doc, r) /\ Untouched
      BY <1>3 DEF UpdateOne
    <2>2. OffsetOf(id) = OffIn(primary, id) /\ OffIn(primary, id) # 0
      BY <2>1 DEF Exists, OffsetOf, OffIn
    <2>3. PICK j \in DOMAIN primary : primary[j].id = id /\ primary[j].off = OffsetOf(id)
      BY <1>1, <2>2, OffsetIs
    <2>4. /\ primary[j] \in Candidates /\ file[OffsetOf(id)] \in Docs
          /\ file[OffsetOf(id)].id = id
      BY <1>1, <2>3 DEF Indexes
    <2>5. cand \in Candidates /\ old \in Values /\ file[cand.off] = Found(cand.id, old)
      BY <2>3, <2>4 DEF Candidates, Docs, Found
    <2>6. /\ own.cands[1] = cand /\ own.cands = <<cand>> /\ own.cache = cache
          /\ own.range = None /\ Len(<<cand>>) = 1
      OBVIOUS
    <2>7. ResolveBulkRange(own, FALSE) = NoRange
      BY <2>6 DEF ResolveBulkRange, SCAN_PRELOAD_THRESHOLD
    <2>8. old = Decoded(ResolveBulkRange(own, FALSE), cand.off)
      BY <2>7 DEF Decoded
    <2> HIDE DEF cand, old, own
    <2>9. PICK force : force = FALSE
      OBVIOUS
    <2>10. /\ r = ReadCandidate(own, cand, force).caches
           /\ old = Decoded(ResolveBulkRange(own, force), cand.off)
           /\ own.cache \in 0 .. Len(caches)
      BY <1>1, <2>6, <2>8, <2>9
    <2> HIDE DEF r
    <2>11. CachesGrow(file, caches, r) /\ Len(r) = Len(caches)
      BY <1>1, <2>5, <2>10, ReadCachesEffect
    <2>12. CachesFit(r)
      BY <2>11 DEF CachesGrow
    <2> QED
      BY <2>1, <2>11, <2>12, PutShaped
  <1> QED
    BY <1>2, <1>3

\* deleteOne and drop().
LEMMA RemovalShaped ==
    ASSUME Shaped, Drop \/ \E id \in DocIds : DeleteOne(id)
    PROVE  Shaped'
  <1>1. /\ Indexes(primary, file) /\ CachesFit(caches) /\ cache \in 0 .. Len(caches)
        /\ file \in Seq(Recs) /\ Len(caches) \in Nat
    BY DEF Shaped, CachesFit, Indexes
  <1>2. ASSUME NEW r, caches' = UseCache(r),
               cache # 0 => /\ r \in Caches(Offsets) /\ WithinBudget(r)
                            /\ \A x \in Range(r.entries) : x \in Range(caches[cache].entries)
        PROVE  CachesFit(caches') /\ Len(caches) <= Len(caches') /\ cache \in 0 .. Len(caches')
    BY <1>1, <1>2, CacheInUseLoses
  <1>3. ASSUME cache # 0
        PROVE  caches[cache] \in Caches(Offsets) /\ WithinBudget(caches[cache])
    BY <1>1, <1>3 DEF CachesFit
  <1>4. CASE Drop
    <2> DEFINE d == Found(None, None)
               r == Clear(caches[cache])
    <2>1. /\ file' = Append(file, d) /\ primary' = << >> /\ caches' = UseCache(r)
          /\ dropped' = TRUE /\ UNCHANGED <<cache, cursors, call, late>>
      BY <1>4 DEF Drop
    <2>2. d \in Recs
      BY DEF Found, Recs
    <2> HIDE DEF d
    <2>3. Grows(file, file') /\ file' \in Seq(Recs)
      BY <1>1, <2>1, <2>2, OneRecordMore DEF Grows
    <2>4. << >> \in Seq(Candidates) /\ DOMAIN (<< >>) = {}
      OBVIOUS
    <2>5. Indexes(primary', file')
      BY <2>1, <2>3, <2>4 DEF Indexes
    <2>6. ASSUME cache # 0
          PROVE  r \in Caches(Offsets) /\ WithinBudget(r) /\ Range(r.entries) = {}
      <3>1. caches[cache].max \in Budgets /\ r = NewCache(caches[cache].max)
        BY <1>3, <2>6, ClearEffect
      <3> QED
        BY <3>1, EmptyCache
    <2> HIDE DEF r
    <2>7. CachesFit(caches') /\ Len(caches) <= Len(caches') /\ cache \in 0 .. Len(caches')
      BY <1>2, <2>1, <2>6
    <2>8. dropped' \in BOOLEAN /\ late' \in BOOLEAN
      BY <2>1 DEF Shaped
    <2> QED
      BY <2>1, <2>3, <2>5, <2>7, <2>8, WriteShaped
  <1>5. ASSUME NEW id \in DocIds, DeleteOne(id)
        PROVE  Shaped'
    <2> DEFINE d == Found(id, None)
               q == Only(primary, {e \in Range(primary) : e.id # id})
               r == Invalidate(caches[cache], id)
    <2>1. /\ file' = Append(file, d) /\ primary' = q /\ caches' = UseCache(r)
          /\ UNCHANGED <<dropped, cache, cursors, call, late>>
      BY <1>5 DEF DeleteOne, Untouched
    <2>2. d \in Recs
      BY DEF Found, Recs
    <2>3. Loses(primary, q, id)
      BY <1>1, DeleteEffect
    <2> HIDE DEF d, q
    <2>4. Indexes(primary', file') /\ Grows(file, file')
      BY <1>1, <2>1, <2>2, <2>3, DeleteKeepsIndex, OneRecordMore
    <2>5. ASSUME cache # 0
          PROVE  /\ r \in Caches(Offsets) /\ WithinBudget(r)
                 /\ \A x \in Range(r.entries) : x \in Range(caches[cache].entries)
      BY <1>3, <2>5, InvalidateWithin
    <2> HIDE DEF r
    <2>6. CachesFit(caches') /\ Len(caches) <= Len(caches') /\ cache \in 0 .. Len(caches')
      BY <1>2, <2>1, <2>5
    <2>7. dropped' \in BOOLEAN /\ late' \in BOOLEAN
      BY <2>1 DEF Shaped
    <2> QED
      BY <2>1, <2>4, <2>6, <2>7, WriteShaped
  <1> QED
    BY <1>4, <1>5

\* compact(), whatever is in the cache.
LEMMA CompactShaped ==
    ASSUME Shaped, Compact
    PROVE  Shaped'
  <1> DEFINE q == PackedIndex(primary)
             g == PackedFile(primary, file)
  <1>1. /\ file' = g /\ primary' = q
        /\ UNCHANGED <<dropped, caches, cache, cursors, call, late>>
    BY DEF Compact, PackedIndex, PackedFile, Kept, Rank
  <1>2. \A c \in Cursors : cursors'[c] = None
    BY <1>1 DEF Compact
  <1>3. Indexes(q, g)
    BY CompactEffect DEF Shaped
  <1> HIDE DEF q, g
  <1> QED
    BY <1>1, <1>2, <1>3 DEF Shaped

\* enableCache() and disableCache().
LEMMA SwitchesShaped ==
    ASSUME Shaped, DisableCache \/ \E max \in Budgets : EnableCache(max)
    PROVE  Shaped'
  <1>1. /\ Indexes(primary, file) /\ CachesFit(caches) /\ cache \in 0 .. Len(caches)
        /\ caches \in Seq(Caches(Offsets)) /\ Len(caches) \in Nat
        /\ DOMAIN caches = 1 .. Len(caches) /\ Grows(file, file)
    BY SameFile DEF Shaped, CachesFit, Indexes
  <1>2. UNCHANGED <<file, primary, dropped, cursors, call>>
    BY DEF EnableCache, DisableCache
  <1>3. /\ CachesFit(caches') /\ Len(caches) <= Len(caches') /\ cache' \in 0 .. Len(caches')
        /\ late' \in BOOLEAN
    <2>1. CASE DisableCache
      BY <1>1, <2>1 DEF DisableCache, Shaped
    <2>2. ASSUME NEW max \in Budgets, EnableCache(max), cache = 0
          PROVE  /\ CachesFit(caches') /\ Len(caches) <= Len(caches')
                 /\ cache' \in 0 .. Len(caches') /\ late' \in BOOLEAN
      <3> DEFINE new == NewCache(max)
      <3>1. caches' = Append(caches, new) /\ cache' = Len(caches) + 1 /\ late' = FALSE
        BY <2>2 DEF EnableCache
      <3>2. new \in Caches(Offsets) /\ WithinBudget(new)
        BY EmptyCache
      <3> HIDE DEF new
      <3>3. /\ caches' \in Seq(Caches(Offsets)) /\ Len(caches') = Len(caches) + 1
            /\ DOMAIN caches' = 1 .. Len(caches) + 1
            /\ caches'[Len(caches) + 1] = new /\ \A k \in DOMAIN caches : caches'[k] = caches[k]
        BY <1>1, <3>1, <3>2
      <3>4. CachesFit(caches')
        <4>1. \A k \in DOMAIN caches' : k \in DOMAIN caches \/ k = Len(caches) + 1
          BY <1>1, <3>3
        <4> QED
          BY <1>1, <3>2, <3>3, <4>1 DEF CachesFit
      <3>5. \A n \in Nat : n <= n + 1 /\ n + 1 \in 0 .. n + 1
        OBVIOUS
      <3>6. Len(caches) <= Len(caches') /\ cache' \in 0 .. Len(caches')
        BY <1>1, <3>1, <3>3, <3>5
      <3>7. late' \in BOOLEAN
        BY <3>1
      <3> QED
        BY <3>4, <3>6, <3>7
    <2>3. ASSUME NEW max \in Budgets, EnableCache(max), cache # 0
          PROVE  /\ CachesFit(caches') /\ Len(caches) <= Len(caches')
                 /\ cache' \in 0 .. Len(caches') /\ late' \in BOOLEAN
      <3> DEFINE r == SetMaxBytes(caches[cache], max)
      <3>1. caches' = UseCache(r) /\ cache' = cache /\ late' = late
        BY <2>3 DEF EnableCache, UseCache
      <3>2. caches[cache] \in Caches(Offsets) /\ WithinBudget(caches[cache])
        BY <1>1, <2>3 DEF CachesFit
      <3>3. /\ r \in Caches(Offsets) /\ WithinBudget(r)
            /\ \A x \in Range(r.entries) : x \in Range(caches[cache].entries)
        BY <3>2, SetMaxBytesEffect
      <3> HIDE DEF r
      <3>4. CachesFit(caches') /\ Len(caches') = Len(caches)
        BY <1>1, <3>1, <3>3, CacheInUseLoses
      <3> QED
        BY <1>1, <3>1, <3>4 DEF Shaped
    <2> QED
      BY <2>1, <2>2, <2>3
  <1>4. dropped' \in BOOLEAN
    BY <1>2 DEF Shaped
  <1> QED
    BY <1>1, <1>2, <1>3, <1>4, WriteShaped


\* find(), and a cursor let go of.
LEMMA FindShaped ==
    ASSUME Shaped, NEW c \in Cursors,
           \/ Release(c)
           \/ \E q \in Queries, chain \in Chains : \E cands \in Plans(q) : Find(c, q, cands, chain)
    PROVE  Shaped'
  <1>1. /\ Indexes(primary, file) /\ CachesFit(caches) /\ cache \in 0 .. Len(caches)
        /\ late \in BOOLEAN
    BY DEF Shaped
  <1>2. /\ UNCHANGED <<file, primary, dropped, caches, cache, call, late>> /\ call = None
    BY DEF Find, Release, Free
  <1>3. \E new : /\ cursors' = [cursors EXCEPT ![c] = new]
                 /\ new = None \/ CursorShaped(new, file, caches)
    <2>1. CASE Release(c)
      BY <2>1 DEF Release
    <2>2. ASSUME NEW q \in Queries, NEW chain \in Chains, NEW cands \in Plans(q),
                 Find(c, q, cands, chain)
          PROVE  /\ cursors' = [cursors EXCEPT ![c] = NewCursor(q, cands, chain)]
                 /\ CursorShaped(NewCursor(q, cands, chain), file, caches)
      <3>1. cursors' = [cursors EXCEPT ![c] = NewCursor(q, cands, chain)]
        BY <2>2 DEF Find, NewCursor
      <3> QED
        BY <1>1, <3>1, NewCursorShaped
    <2> QED
      BY <2>1, <2>2
  <1>4. PICK new : /\ cursors' = [cursors EXCEPT ![c] = new]
                   /\ new = None \/ CursorShaped(new, file, caches)
    BY <1>3
  <1>5. call' \in Calls \cup {None} /\ CallShaped(call', cursors')
    BY <1>2 DEF CallShaped
  <1> QED
    BY <1>1, <1>2, <1>4, <1>5, CursorShapes

\* A next() or a count() begins.
LEMMA BeginsShaped ==
    ASSUME Shaped, NEW c \in Cursors, NextBegins(c) \/ CountBegins(c)
    PROVE  Shaped'
  <1> DEFINE cur == cursors[c]
  <1>1. cur # None /\ UNCHANGED <<file, primary, dropped, caches, cache, late>>
    BY DEF NextBegins, CountBegins
  <1>2. /\ CursorShaped(cur, file, caches) /\ CachesFit(caches) /\ late \in BOOLEAN
        /\ \A new : [cursors EXCEPT ![c] = new][c] = new
    BY <1>1, ShapeOf
  <1>3. CASE cursors' = cursors /\ \/ Started(c, "count")
                                   \/ Started(c, "collect") /\ cur.sort /\ cur.sorted = None
    <2>1. call' \in Calls \cup {None} /\ CallShaped(call', cursors)
      BY <1>1, <1>3, StartedShaped
    <2> QED
      BY <1>1, <1>3, <2>1 DEF Shaped
  <1>4. CASE /\ NextBegins(c) /\ ~(cur.sort /\ cur.sorted = None)
    <2> DEFINE new == IF cur.sort THEN cur ELSE SkippedFast(cur)
    <2>1. Started(c, "next") /\ cursors' = [cursors EXCEPT ![c] = new]
      BY <1>4 DEF NextBegins
    <2>2. CursorShaped(new, file, caches) /\ (new.sort => new.sorted # None)
      <3>1. CASE cur.sort
        BY <1>2, <1>4, <3>1
      <3>2. CASE ~cur.sort
        BY <1>2, <3>2, SkippedFastShaped
      <3> QED
        BY <3>1, <3>2
    <2> HIDE DEF new
    <2>3. new # None /\ cursors'[c] = new
      BY <1>2, <2>1, <2>2, ShapeParts
    <2>4. call' \in Calls \cup {None} /\ CallShaped(call', cursors')
      BY <2>1, <2>2, <2>3, StartedShaped
    <2> QED
      BY <1>1, <1>2, <2>1, <2>2, <2>4, CursorShapes
  <1> QED
    BY <1>3, <1>4 DEF NextBegins, CountBegins

\* A next() or a count() ends, or a collection, which the next() goes on from.
LEMMA EndsShaped ==
    ASSUME Shaped, NEW c \in Cursors,
           NextReturnsNull(c) \/ CollectEnds(c) \/ CountReturns(c)
    PROVE  Shaped'
  <1> DEFINE cur == cursors[c]
  <1>1. /\ call # None /\ call.cur = c
        /\ UNCHANGED <<file, primary, dropped, caches, cache, late>>
    BY DEF NextReturnsNull, CollectEnds, CountReturns, Running
  <1>2. cur # None /\ call.found \in Seq(Docs)
        /\ (call.op = "collect" => cur.sort /\ cur.sorted = None)
    BY <1>1, CallShape DEF CallShaped
  <1>3. /\ CursorShaped(cur, file, caches) /\ CachesFit(caches) /\ late \in BOOLEAN
        /\ \A new : [cursors EXCEPT ![c] = new][c] = new
    BY <1>2, ShapeOf
  <1>4. CASE NextReturnsNull(c)
    <2> DEFINE new == [cur EXCEPT !.done = TRUE]
    <2>1. cursors' = [cursors EXCEPT ![c] = new] /\ call' = None
      BY <1>4 DEF NextReturnsNull
    <2>2. CursorShaped(new, file, caches)
      BY <1>3, EndedShaped
    <2> HIDE DEF new
    <2>3. call' \in Calls \cup {None} /\ CallShaped(call', cursors')
      BY <2>1 DEF CallShaped
    <2> QED
      BY <1>1, <1>3, <2>1, <2>2, <2>3, CursorShapes
  <1>5. CASE CollectEnds(c)
    <2> DEFINE s == Sorted(call.found)
               new == [cur EXCEPT !.sorted = s]
    <2>1. /\ cursors' = [cursors EXCEPT ![c] = new] /\ Started(c, "next")
          /\ call.op = "collect"
      BY <1>5 DEF CollectEnds, Running
    <2>2. s \in Seq(Docs) /\ s # None
      BY <1>2, SortedEffect, NoneAssumption
    <2> HIDE DEF s
    <2>3. CursorShaped(new, file, caches) /\ new.sorted = s
      BY <1>2, <1>3, <2>1, <2>2, EndedShaped
    <2> HIDE DEF new
    <2>4. new # None /\ cursors'[c] = new
      BY <1>3, <2>1, <2>3, ShapeParts
    <2>5. call' \in Calls \cup {None} /\ CallShaped(call', cursors')
      BY <2>1, <2>2, <2>3, <2>4, StartedShaped
    <2> QED
      BY <1>1, <1>3, <2>1, <2>3, <2>5, CursorShapes
  <1>6. CASE CountReturns(c)
    <2>1. call' = None /\ cursors' = cursors
      BY <1>6 DEF CountReturns
    <2>2. call' \in Calls \cup {None} /\ CallShaped(call', cursors')
      BY <2>1 DEF CallShaped
    <2> QED
      BY <1>1, <2>1, <2>2 DEF Shaped
  <1> QED
    BY <1>4, <1>5, <1>6


\* A next() goes on, in the sorted buffer or with one candidate.
LEMMA NextShaped ==
    ASSUME Shaped, NEW c \in Cursors, NextFromBuffer(c) \/ NextReads(c)
    PROVE  Shaped'
  <1> DEFINE cur == cursors[c]
  <1>1. /\ call # None /\ call.cur = c /\ call.op = "next" /\ cur.index < Length(cur)
        /\ UNCHANGED <<file, primary, dropped, cache>> /\ (call' = call \/ call' = None)
    BY DEF NextFromBuffer, NextReads, Running
  <1>2. /\ cur # None /\ (cur.sort => cur.sorted # None) /\ call \in Calls
    BY <1>1, CallShape DEF CallShaped
  <1>3. /\ CursorShaped(cur, file, caches) /\ CachesFit(caches) /\ late \in BOOLEAN
        /\ \A new : [cursors EXCEPT ![c] = new][c] = new
        /\ file \in Seq(Recs)
    BY <1>2, ShapeOf
  <1>4. ASSUME NEW new, CursorShaped(new, file, caches), new.sort => new.sorted # None,
               cursors' = [cursors EXCEPT ![c] = new]
        PROVE  call' \in Calls \cup {None} /\ CallShaped(call', cursors')
    <2>1. new # None /\ cursors'[c] = new
      BY <1>3, <1>4, ShapeParts
    <2> QED
      BY <1>1, <1>2, <1>4, <2>1 DEF CallShaped
  <1>5. CASE NextFromBuffer(c)
    <2> DEFINE moved == [cur EXCEPT !.index = @ + 1]
               new == Matched(moved, moved.sorted[moved.index])
    <2>1. cursors' = [cursors EXCEPT ![c] = new] /\ cur.sort /\ UNCHANGED <<caches, late>>
      BY <1>5 DEF NextFromBuffer
    <2>2. CursorShaped(new, file, caches) /\ new.sorted # None
      BY <1>1, <1>2, <1>3, <2>1, NextSortedShaped
    <2> HIDE DEF new
    <2>3. call' \in Calls \cup {None} /\ CallShaped(call', cursors')
      BY <1>4, <2>1, <2>2
    <2> QED
      BY <1>1, <1>3, <2>1, <2>2, <2>3, CursorShapes
  <1>6. CASE NextReads(c)
    <2> DEFINE i == cur.index + 1
               cand == cur.cands[i]
               full == cur.limit = None
               read == ReadCandidate(cur, cand, full)
               moved == Counted([read.cur EXCEPT !.index = @ + 1])
               d == Found(cand.id, read.doc)
               match == Evaluate(moved.query, read.doc)
               new == IF match THEN Matched(moved, d) ELSE moved
    <2>1. /\ cursors' = [cursors EXCEPT ![c] = new] /\ caches' = read.caches
          /\ late' = (late \/ LateRead(cur, cand)) /\ ~cur.sort
      BY <1>6 DEF NextReads
    <2>2. cur.index < Len(cur.cands) /\ i \in DOMAIN cur.cands
      <3>1. cur.index < Len(cur.cands)
        BY <1>1, <2>1 DEF Length
      <3>2. cur.index \in Nat /\ Len(cur.cands) \in Nat /\ DOMAIN cur.cands = 1 .. Len(cur.cands)
        BY <1>3, ShapeParts
      <3> QED
        BY <3>1, <3>2
    <2>3. PICK force \in BOOLEAN : force = full
      OBVIOUS
    <2> DEFINE range == read.cur.range
    <2>4. /\ read.doc \in Values /\ read.cur = Ranged(cur, range)
          /\ range \in Ranges \cup {None} /\ Covers(range, cur, file)
          /\ range = None => cur.range = None
          /\ CachesFit(read.caches) /\ Len(read.caches) = Len(caches)
          /\ cand.id \in DocIds
      <3> DEFINE r == ReadCandidate(cur, cur.cands[i], force)
      <3>1. /\ r.doc \in Values /\ r.cur = Ranged(cur, r.cur.range)
            /\ r.cur.range \in Ranges \cup {None} /\ Covers(r.cur.range, cur, file)
            /\ r.cur.range = None => cur.range = None
            /\ CachesFit(r.caches) /\ Len(r.caches) = Len(caches)
            /\ cur.cands[i].id \in DocIds
        <4> HIDE DEF cur, i
        <4> QED BY <1>3, <2>2, ReadShape
      <3>2. read = r
        BY <2>3
      <3> HIDE DEF r, read
      <3> QED BY <3>1, <3>2
    <2>5. d \in Docs
      BY <2>4 DEF Found, Docs
    <2>6. late' \in BOOLEAN
      BY <1>3, <2>1
    <2> HIDE DEF full, read, range, cand, i, d
    <2>7. moved = Counted([Ranged(cur, range) EXCEPT !.index = @ + 1])
      BY <2>4
    <2> HIDE DEF match, moved
    <2>8. CursorShaped(new, file, caches) /\ ~new.sort
      <3> DEFINE mov == Counted([Ranged(cur, range) EXCEPT !.index = @ + 1])
                 then == IF match THEN Matched(mov, d) ELSE mov
      <3>1. CursorShaped(then, file, caches) /\ ~then.sort
        BY <1>3, <2>1, <2>2, <2>4, <2>5, NextReadShaped
      <3>2. new = then
        BY <2>7
      <3> HIDE DEF then, new
      <3> QED
        BY <3>1, <3>2
    <2> HIDE DEF new
    <2>9. call' \in Calls \cup {None} /\ CallShaped(call', cursors')
      BY <1>4, <2>1, <2>8
    <2> QED
      BY <1>1, <2>1, <2>4, <2>6, <2>8, <2>9, CursorShapes
  <1> QED
    BY <1>5, <1>6

\* A collection or a count() reads one candidate.
LEMMA ScanShaped ==
    ASSUME Shaped, NEW c \in Cursors, ScanReads(c)
    PROVE  Shaped'
  <1> DEFINE cur == cursors[c]
             i == call.at + 1
             cand == cur.cands[i]
             read == ReadCandidate(cur, cand, TRUE)
             new == read.cur
             found == IF Evaluate(cur.query, read.doc)
                      THEN Append(call.found, Found(cand.id, read.doc)) ELSE call.found
  <1>1. /\ call # None /\ call.cur = c /\ call.op \in {"collect", "count"}
        /\ call.at < Len(cur.cands) /\ UNCHANGED <<file, primary, dropped, cache>>
        /\ cursors' = [cursors EXCEPT ![c] = new]
        /\ call' = [call EXCEPT !.at = i, !.found = found]
        /\ caches' = read.caches /\ late' = (late \/ LateRead(cur, cand))
    BY DEF ScanReads, Scanning, Running
  <1>2. /\ cur # None /\ call.at \in Nat /\ call.found \in Seq(Docs)
        /\ call = [cur |-> call.cur, op |-> call.op, at |-> call.at, found |-> call.found]
        /\ call.op = "collect" => cur.sort /\ cur.sorted = None
    BY <1>1, CallShape DEF CallShaped
  <1>3. /\ CursorShaped(cur, file, caches) /\ cur \in CursorStates
        /\ CachesFit(caches) /\ late \in BOOLEAN
        /\ \A z : [cursors EXCEPT ![c] = z][c] = z
        /\ file \in Seq(Recs)
    BY <1>2, ShapeOf, ShapeParts
  <1>4. i \in DOMAIN cur.cands /\ i \in Nat
    <2>1. Len(cur.cands) \in Nat /\ DOMAIN cur.cands = 1 .. Len(cur.cands)
      BY <1>3, ShapeParts
    <2> QED
      BY <1>1, <1>2, <2>1
  <1>5. PICK force \in BOOLEAN : force = TRUE
    OBVIOUS
  <1> DEFINE range == read.cur.range
  <1>6. /\ read.doc \in Values /\ read.cur = Ranged(cur, range)
        /\ range \in Ranges \cup {None} /\ Covers(range, cur, file)
        /\ range = None => cur.range = None
        /\ CachesFit(read.caches) /\ Len(read.caches) = Len(caches)
        /\ cand.id \in DocIds
    <2> DEFINE r == ReadCandidate(cur, cur.cands[i], force)
    <2>1. /\ r.doc \in Values /\ r.cur = Ranged(cur, r.cur.range)
          /\ r.cur.range \in Ranges \cup {None} /\ Covers(r.cur.range, cur, file)
          /\ r.cur.range = None => cur.range = None
          /\ CachesFit(r.caches) /\ Len(r.caches) = Len(caches)
          /\ cur.cands[i].id \in DocIds
      <3> HIDE DEF cur, i
      <3> QED BY <1>3, <1>4, ReadShape
    <2>2. read = r
      BY <1>5
    <2> HIDE DEF r, read
    <2> QED BY <2>1, <2>2
  <1> HIDE DEF read, range
  <1>7. found \in Seq(Docs)
    <2>1. Found(cand.id, read.doc) \in Docs
      BY <1>6 DEF Found, Docs
    <2> QED
      BY <1>2, <2>1
  <1>8. CursorShaped(new, file, caches) /\ SameRequest(cur, new)
    BY <1>3, <1>6, RangedShaped
  <1>9. new # None /\ cursors'[c] = new
    BY <1>1, <1>3, <1>8, ShapeParts
  <1>10. late' \in BOOLEAN
    BY <1>1, <1>3
  <1> HIDE DEF found, new, i, cand
  <1>11. /\ call'.cur = c /\ call'.op = call.op /\ call' \in Calls
    <2> DEFINE op == call.op
    <2>1. call' = [cur |-> c, op |-> op, at |-> i, found |-> found]
      BY <1>1, <1>2
    <2>2. op \in {"next", "collect", "count"}
      BY <1>1
    <2> HIDE DEF op
    <2>3. [cur |-> c, op |-> op, at |-> i, found |-> found] \in Calls
      BY <1>4, <1>7, <2>2 DEF Calls
    <2> QED
      BY <2>1, <2>3 DEF op
  <1>12. CallShaped(call', cursors')
    BY <1>1, <1>2, <1>8, <1>9, <1>11 DEF CallShaped, SameRequest
  <1> QED
    BY <1>1, <1>6, <1>8, <1>10, <1>11, <1>12, CursorShapes

\* No step of any caller spoils the shape.
LEMMA ShapeKept ==
    ASSUME Shaped, [Next]_vars
    PROVE  Shaped'
  <1>1. ASSUME NEW id \in DocIds, NEW doc \in Values, WriteOne(id, doc) \/ UpdateOne(id, doc)
        PROVE  Shaped'
    BY <1>1, PutsShaped
  <1>2. CASE Drop \/ \E id \in DocIds : DeleteOne(id)
    BY <1>2, RemovalShaped
  <1>3. CASE Compact
    BY <1>3, CompactShaped
  <1>4. CASE DisableCache \/ \E max \in Budgets : EnableCache(max)
    BY <1>4, SwitchesShaped
  <1>5. ASSUME NEW c \in Cursors, NEW q \in Queries, NEW chain \in Chains,
               NEW cands \in Plans(q), Find(c, q, cands, chain)
        PROVE  Shaped'
    BY <1>5, FindShaped
  <1>6. ASSUME NEW c \in Cursors, Release(c)
        PROVE  Shaped'
    BY <1>6, FindShaped
  <1>7. ASSUME NEW c \in Cursors, NextBegins(c) \/ CountBegins(c)
        PROVE  Shaped'
    BY <1>7, BeginsShaped
  <1>8. ASSUME NEW c \in Cursors, NextReads(c) \/ NextFromBuffer(c) \/ ScanReads(c)
        PROVE  Shaped'
    BY <1>8, NextShaped, ScanShaped
  <1>9. ASSUME NEW c \in Cursors, NextReturnsNull(c) \/ CollectEnds(c) \/ CountReturns(c)
        PROVE  Shaped'
    BY <1>9, EndsShaped
  <1>10. CASE UNCHANGED vars
    BY <1>10 DEF Shaped, vars
  <1> QED
    BY <1>1, <1>2, <1>3, <1>4, <1>5, <1>6, <1>7, <1>8, <1>9, <1>10 DEF Next

\* What the shape says: the types, and the budgets of the caches.
LEMMA ShapeSays == Shaped => TypeOK /\ CacheWithinBudget
  <1> SUFFICES ASSUME Shaped PROVE TypeOK /\ CacheWithinBudget
    OBVIOUS
  <1>1. file \in Seq(Recs) /\ primary \in Seq(Candidates)
    BY DEF Shaped, Indexes
  <1>2. /\ caches \in Seq(Caches(Offsets)) /\ cache \in 0 .. Len(caches)
        /\ CacheWithinBudget
    BY DEF Shaped, CachesFit, CacheWithinBudget
  <1>3. \A c \in Cursors : cursors[c] # None =>
          TypeOKCursor(cursors[c]) /\ cursors[c].cache <= Len(caches)
    BY DEF Shaped, CursorShaped
  <1> QED
    BY <1>1, <1>2, <1>3 DEF Shaped, TypeOK

-----------------------------------------------------------------------------
(* What the invariant says.                                                *)

\* The cache in use gives the current version under a current offset.
LEMMA SafeCurrent == Safe => CacheIsCurrent
  <1> SUFFICES ASSUME Safe, cache # 0, NEW i \in DOMAIN primary,
                      Hit(caches[cache], primary[i].id, primary[i].off)
               PROVE  Lookup(caches[cache], primary[i].id).doc = file[primary[i].off].doc
    BY DEF CacheIsCurrent
  <1> DEFINE e == Lookup(caches[cache], primary[i].id)
  <1>1. Has(caches[cache], primary[i].id) /\ e.off = primary[i].off
    BY DEF Hit
  <1>2. e \in Range(caches[cache].entries) /\ e.id = primary[i].id
    BY <1>1, LookupEffect
  <1>3. Agrees(caches[cache], primary, file, late)
    BY DEF Safe
  <1> HIDE DEF e
  <1>4. file[e.off].doc = e.doc
    BY <1>1, <1>2, <1>3 DEF Agrees
  <1> QED
    BY <1>1, <1>4 DEF e

\* The entries of the cache in use, in the terms of the index.
LEMMA SafeContents == Safe => CacheContents
  <1> SUFFICES ASSUME Safe, cache # 0, NEW e \in Range(caches[cache].entries)
               PROVE  /\ OffsetOf(e.id) = e.off => file[e.off].doc = e.doc
                      /\ ~late => Exists(e.id) /\ file[OffsetOf(e.id)].doc = e.doc
    BY DEF CacheContents
  <1>1. Indexes(primary, file) /\ Agrees(caches[cache], primary, file, late)
    BY DEF Safe
  <1>2. caches[cache] \in Caches(Offsets)
    BY DEF Safe, CachesFit
  <1>3. e.off \in Offsets
    BY <1>2, EntriesAreHeld
  <1>4. OffsetOf(e.id) = OffIn(primary, e.id) /\ e.off # 0
    BY <1>3, ReadsAssumption DEF OffsetOf, OffIn, Offsets
  <1>5. /\ \A i \in DOMAIN primary :
             primary[i].id = e.id /\ primary[i].off = e.off => file[e.off].doc = e.doc
        /\ ~late => \E i \in DOMAIN primary :
             primary[i].id = e.id /\ file[primary[i].off].doc = e.doc
    BY <1>1 DEF Agrees
  <1>6. ASSUME OffsetOf(e.id) = e.off
        PROVE  file[e.off].doc = e.doc
    <2>1. OffIn(primary, e.id) # 0
      BY <1>4, <1>6
    <2>2. PICK i \in DOMAIN primary :
               primary[i].id = e.id /\ primary[i].off = OffIn(primary, e.id)
      BY <1>1, <2>1, OffsetIs
    <2>3. primary[i].off = e.off
      BY <1>4, <1>6, <2>2
    <2> QED
      BY <1>5, <2>2, <2>3
  <1>7. ASSUME ~late
        PROVE  Exists(e.id) /\ file[OffsetOf(e.id)].doc = e.doc
    <2>1. PICK i \in DOMAIN primary : primary[i].id = e.id /\ file[primary[i].off].doc = e.doc
      BY <1>5, <1>7
    <2>2. OffIn(primary, primary[i].id) = primary[i].off /\ primary[i].off # 0
      BY <1>1, OffsetFound
    <2> QED
      BY <1>4, <2>1, <2>2 DEF Exists
  <1> QED
    BY <1>6, <1>7

\* The invariant that TLC checks.
LEMMA SafeInvariant == Safe => IInv
  <1> SUFFICES ASSUME Safe PROVE IInv
    OBVIOUS
  <1>1. TypeOK /\ CacheWithinBudget /\ CacheContents
    BY SafeIsShaped, ShapeSays, SafeContents
  <1>2. PrimaryInFile
    BY DEF Safe, Indexes, PrimaryInFile
  <1>3. CursorsStand
    BY DEF Safe, CursorStands, CursorsStand
  <1>4. CallInProgress
    BY DEF Safe, CallStands, CallInProgress
  <1> QED
    BY <1>1, <1>2, <1>3, <1>4 DEF IInv

\* A stretch of a sequence, which may be empty.
LEMMA StretchOf ==
    ASSUME NEW s \in Seq(Docs), NEW a \in Nat, NEW n \in Nat, n <= Len(s)
    PROVE  /\ SubSeq(s, a + 1, n) \in Seq(Docs)
           /\ Len(SubSeq(s, a + 1, n)) = IF a < n THEN n - a ELSE 0
           /\ \A i \in 1 .. Len(SubSeq(s, a + 1, n)) : SubSeq(s, a + 1, n)[i] = s[a + i]
  OBVIOUS

\* Sequences of the same elements are the same.
LEMMA SameDocs ==
    ASSUME NEW s \in Seq(Docs), NEW t \in Seq(Docs), Len(s) = Len(t),
           \A i \in 1 .. Len(s) : s[i] = t[i]
    PROVE  s = t
  OBVIOUS

\* A sequence that another one begins with.
LEMMA PrefixIs ==
    ASSUME NEW s \in Seq(Docs), NEW t \in Seq(Docs), Len(s) <= Len(t),
           \A i \in 1 .. Len(s) : s[i] = t[i]
    PROVE  IsPrefix(s, t)
  <1>1. SubSeq(s, 1, Len(s)) = SubSeq(t, 1, Len(s))
    OBVIOUS
  <1> QED
    BY <1>1 DEF IsPrefix

\* A cursor that stands has yielded a beginning of what it promised, and all of it
\* when it is done.
LEMMA StandingYields ==
    ASSUME NEW cur, NEW f, NEW cs, CursorStands(cur, f, cs)
    PROVE  IsPrefix(cur.out, Promised(cur)) /\ (cur.done => cur.out = Promised(cur))
  <1> DEFINE p == Passed(cur)
             all == Chosen(cur)
             skip == cur.skip
             limit == cur.limit
             out == cur.out
             stop == IF limit # None /\ skip + limit < Len(all) THEN skip + limit ELSE Len(all)
             promised == SubSeq(all, skip + 1, stop)
  <1>1. TypeOKCursor(cur) /\ cur \in CursorStates /\ Stands(cur) /\ Taken(cur)
    BY DEF CursorStands, TypeOKCursor, HoldsSnapshot, Taken
  <1>2. /\ p \in Seq(Docs) /\ all \in Seq(Docs) /\ Len(p) <= Len(all)
        /\ \A i \in 1 .. Len(p) : p[i] = all[i]
        /\ (cur.sort => cur.sorted # None) /\ cur.index = Length(cur) => Len(p) = Len(all)
    BY <1>1, PassedEffect DEF Stands
  <1>3. Promised(cur) = promised
    BY DEF Promised, Chosen
  <1>4. /\ skip \in Nat /\ limit \in Nat \cup {None} /\ out \in Seq(Docs)
        /\ cur.skipped \in Nat /\ cur.returned = Len(out) /\ cur.index \in Nat
    BY <1>1 DEF CursorStates, TypeOKCursor
  <1>5. /\ IF cur.skipped < skip
           THEN cur.skipped = Len(p) /\ out = << >>
           ELSE /\ out = SubSeq(p, skip + 1, Len(p))
                /\ \/ skip <= Len(p)
                   \/ ~cur.sort /\ cur.index = Len(cur.cands)
        /\ limit # None => Len(out) <= limit
        /\ cur.done => Exhausted(cur)
    BY <1>1 DEF Stands
  <1>6. cur.done => Len(p) = Len(all) \/ (limit # None /\ Len(out) >= limit)
    BY <1>2, <1>4, <1>5 DEF Exhausted, AtLimit
  <1>7. ~cur.sort /\ cur.index = Len(cur.cands) => Len(p) = Len(all)
    BY <1>2 DEF Length
  <1> HIDE DEF p, all, skip, limit, out
  <1>8. Len(p) \in Nat /\ Len(all) \in Nat /\ Len(out) \in Nat
    BY <1>2, <1>4
  <1>9. stop \in Nat /\ stop <= Len(all)
    BY <1>4, <1>8
  <1>10. /\ promised \in Seq(Docs) /\ Len(promised) = IF skip < stop THEN stop - skip ELSE 0
         /\ \A i \in 1 .. Len(promised) : promised[i] = all[skip + i]
    BY <1>2, <1>4, <1>9, StretchOf
  <1>11. /\ Len(out) = IF skip < Len(p) THEN Len(p) - skip ELSE 0
         /\ \A i \in 1 .. Len(out) : out[i] = p[skip + i]
    <2>1. CASE cur.skipped < skip
      BY <1>4, <1>5, <1>8, <2>1
    <2>2. CASE ~(cur.skipped < skip)
      <3>1. out = SubSeq(p, skip + 1, Len(p))
        BY <1>5, <2>2
      <3> QED
        BY <1>2, <1>4, <1>8, <3>1, StretchOf
    <2> QED
      BY <2>1, <2>2
  <1>12. limit # None => limit \in Nat /\ Len(out) <= limit
    BY <1>4, <1>5
  <1> DEFINE a == Len(p)
             b == Len(all)
             m == Len(out)
             r == Len(promised)
  <1>13. /\ a \in Nat /\ b \in Nat /\ m \in Nat /\ skip \in Nat /\ a <= b
         /\ m = IF skip < a THEN a - skip ELSE 0
         /\ r = IF skip < stop THEN stop - skip ELSE 0
         /\ (limit # None => limit \in Nat /\ m <= limit)
         /\ stop = IF limit # None /\ skip + limit < b THEN skip + limit ELSE b
    BY <1>2, <1>4, <1>8, <1>10, <1>11, <1>12
  <1>14. cur.done => a = b \/ (limit # None /\ m >= limit)
    BY <1>6
  <1> HIDE DEF a, b, m, r, stop
  <1>15. m <= r
    BY <1>13
  <1>16. cur.done => m = r
    <2>1. CASE a = b
      BY <1>13, <2>1
    <2>2. CASE limit # None /\ m >= limit
      BY <1>13, <2>2
    <2> QED
      BY <1>14, <2>1, <2>2
  <1>17. \A i \in 1 .. m : out[i] = promised[i]
    <2> SUFFICES ASSUME NEW i \in 1 .. m PROVE out[i] = promised[i]
      OBVIOUS
    <2>1. skip + i \in 1 .. a /\ i \in 1 .. r
      BY <1>13, <1>15
    <2> HIDE DEF promised
    <2> QED
      BY <1>2, <1>10, <1>11, <2>1 DEF a, m, r
  <1> HIDE DEF promised
  <1>18. IsPrefix(out, promised)
    BY <1>4, <1>10, <1>15, <1>17, PrefixIs DEF out, m, r
  <1>19. cur.done => out = promised
    BY <1>4, <1>10, <1>16, <1>17, SameDocs DEF out, m, r
  <1> QED
    BY <1>3, <1>18, <1>19 DEF out

\* What cursors have yielded.
LEMMA SafeYields == Safe => CursorYieldsSnapshot
  <1> SUFFICES ASSUME Safe, NEW c \in Cursors, cursors[c] # None
               PROVE  /\ IsPrefix(cursors[c].out, Promised(cursors[c]))
                      /\ cursors[c].done => cursors[c].out = Promised(cursors[c])
    BY DEF CursorYieldsSnapshot
  <1>1. CursorStands(cursors[c], file, caches)
    BY DEF Safe
  <1> QED
    BY <1>1, StandingYields

\* A count() that returns has found what matches in the whole snapshot.
LEMMA CountIsWhole ==
    ASSUME Safe, [Next]_vars, NEW c \in Cursors, Running(c, "count"), call' = None
    PROVE  Len(call.found) = Len(SnapshotMatches(cursors[c]))
  <1>1. call # None /\ call.cur = c /\ call.op = "count" /\ ~Free
    BY DEF Running, Free
  <1>2. UNCHANGED vars => FALSE
    BY <1>1 DEF vars
  <1>3. \E k \in Cursors : CountReturns(k) \/ ScanReads(k)
    <2>1. ~Drop /\ ~Compact /\ ~DisableCache
      BY <1>1 DEF Drop, Compact, DisableCache, Writing
    <2>2. \A id \in DocIds : ~DeleteOne(id) /\ \A doc \in Values : ~WriteOne(id, doc) /\ ~UpdateOne(id, doc)
      BY <1>1 DEF DeleteOne, WriteOne, UpdateOne, Writing
    <2>3. \A max \in Budgets : ~EnableCache(max)
      BY <1>1 DEF EnableCache
    <2>4. \A k, q, cands, chain : ~Find(k, q, cands, chain)
      BY <1>1 DEF Find
    <2>5. \A k : ~Release(k) /\ ~NextBegins(k) /\ ~CountBegins(k)
      BY <1>1 DEF Release, NextBegins, CountBegins
    <2>6. \A k : ~NextReads(k) /\ ~NextFromBuffer(k) /\ ~NextReturnsNull(k) /\ ~CollectEnds(k)
      BY <1>1 DEF NextReads, NextFromBuffer, NextReturnsNull, CollectEnds, Running
    <2> QED
      BY <1>2, <2>1, <2>2, <2>3, <2>4, <2>5, <2>6 DEF Next
  <1>4. PICK k \in Cursors : CountReturns(k) \/ ScanReads(k)
    BY <1>3
  <1>5. call.found = MatchesAmong(cursors[c], call.at)
    BY <1>1, CallIs DEF CallStands
  <1>6. CASE CountReturns(k)
    <2>1. k = c /\ call.at = Len(cursors[c].cands)
      BY <1>1, <1>6 DEF CountReturns, Running
    <2> QED
      BY <1>5, <2>1 DEF SnapshotMatches
  <1>7. CASE ScanReads(k)
    BY <1>7, ScanReadsKeeps
  <1> QED
    BY <1>4, <1>6, <1>7

-----------------------------------------------------------------------------
(* The theorems.                                                           *)

\* The invariant holds in every state, for callers who do not compact after a
\* cursor has read an old version of a document into the cache.
THEOREM ReadsInvariant ==
    ASSUME CarefulCallers
    PROVE  Spec => []IInv
  <1>1. Safe /\ [Next]_vars => Safe'
    BY NextKeeps
  <1> QED
    BY InitSafe, SafeInvariant, <1>1, PTL DEF Spec

\* Cursors, caches, the index and the file keep their shapes, and no cursor points
\* past the end of what it reads, also after a compaction that made the cache stale.
THEOREM ReadsTypes == Spec => []TypeOK
  <1>1. Init => Shaped
    BY InitSafe, SafeIsShaped
  <1>2. Shaped /\ [Next]_vars => Shaped'
    BY ShapeKept
  <1>3. Shaped => TypeOK
    BY ShapeSays
  <1> QED
    BY <1>1, <1>2, <1>3, PTL DEF Spec

\* The cache's byte counter is exact and within its budget, and no document is
\* cached twice, whatever is read, written, invalidated, evicted, resized and
\* compacted.
THEOREM CachesKeepToBudget == Spec => []CacheWithinBudget
  <1>1. Init => Shaped
    BY InitSafe, SafeIsShaped
  <1>2. Shaped /\ [Next]_vars => Shaped'
    BY ShapeKept
  <1>3. Shaped => CacheWithinBudget
    BY ShapeSays
  <1> QED
    BY <1>1, <1>2, <1>3, PTL DEF Spec

\* No read of a current document is answered with another version from the cache.
THEOREM CachedReadsAreCurrent ==
    ASSUME CarefulCallers
    PROVE  Spec => []CacheIsCurrent
  <1>1. Safe /\ [Next]_vars => Safe'
    BY NextKeeps
  <1> QED
    BY InitSafe, SafeCurrent, <1>1, PTL DEF Spec

\* A cursor yields the snapshot find() took: filtered, sorted, skipped and limited,
\* through every interleaving with writes, other cursors and the cache.
THEOREM CursorsYieldSnapshot ==
    ASSUME CarefulCallers
    PROVE  Spec => []CursorYieldsSnapshot
  <1>1. Safe /\ [Next]_vars => Safe'
    BY NextKeeps
  <1> QED
    BY InitSafe, SafeYields, <1>1, PTL DEF Spec

\* count() answers for the whole snapshot, wherever next() stands.
THEOREM CountsAreOfSnapshot ==
    ASSUME CarefulCallers
    PROVE  Spec => CountIsSnapshot
  <1>1. Safe /\ [Next]_vars => Safe'
    BY NextKeeps
  <1>2. Safe /\ [Next]_vars =>
          [\A c \in Cursors :
             Running(c, "count") /\ call' = None =>
                 Len(call.found) = Len(SnapshotMatches(cursors[c]))]_vars
    BY CountIsWhole
  <1> QED
    BY InitSafe, <1>1, <1>2, PTL DEF Spec, CountIsSnapshot

=============================================================================

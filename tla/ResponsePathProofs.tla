-------------------------- MODULE ResponsePathProofs --------------------------
(***************************************************************************)
(* What is true of the response path for every set of sanitizer rules,      *)
(* every text of any length, every configuration and answer.                *)
(***************************************************************************)
EXTENDS ResponsePath, TLAPS, FiniteSetTheorems, SequenceTheorems, WellFoundedInduction

-----------------------------------------------------------------------------
(***************************************************************************)
(* Numbers.  Induction, for a set of numbers in place of a predicate.       *)
(***************************************************************************)
LEMMA LeastNumber ==
    ASSUME NEW S, S \subseteq Nat, S # {}
    PROVE  \E m \in S : \A n \in S : m <= n
<1>1. PICK m \in S : \A n \in S : ~(<<n, m>> \in OpToRel(<, Nat))
  BY WFMin, NatLessThanWellFounded, Zenon
<1>2. \A n \in S : n \in Nat /\ m \in Nat
  OBVIOUS
<1>3. \A n \in S : ~(n < m)
  BY <1>1, <1>2 DEF OpToRel
<1>4. QED BY <1>2, <1>3

LEMMA Upwards ==
    ASSUME NEW N \in Nat, NEW S, 0 \in S, \A k \in 0 .. N - 1 : k \in S => k + 1 \in S
    PROVE  \A k \in 0 .. N : k \in S
<1> DEFINE Bad == {k \in 0 .. N : k \notin S}
<1> SUFFICES ASSUME Bad # {} PROVE FALSE
  OBVIOUS
<1>1. Bad \subseteq Nat
  OBVIOUS
<1>2. PICK m \in Bad : \A n \in Bad : m <= n
  <2> HIDE DEF Bad
  <2>1. QED BY <1>1, LeastNumber, Zenon
<1>3. m # 0 /\ m - 1 \in 0 .. N - 1 /\ m - 1 \notin Bad
  BY <1>2
<1>4. QED BY <1>2, <1>3

\* Strong induction from the end.
LEMMA Downwards ==
    ASSUME NEW N \in Nat, NEW S,
           \A i \in 1 .. N : (\A j \in i + 1 .. N : j \in S) => i \in S
    PROVE  \A i \in 1 .. N : i \in S
<1> DEFINE Bad == {k \in 0 .. N : k # N /\ N - k \notin S}
<1>1. Bad \subseteq Nat
  OBVIOUS
<1>2. CASE Bad = {}
  <2>1. ASSUME NEW i \in 1 .. N PROVE i \in S
    <3>1. N - i \in 0 .. N /\ N - i # N /\ N - (N - i) = i
      OBVIOUS
    <3>2. QED BY <1>2, <3>1
  <2>2. QED BY <2>1
<1>3. CASE Bad # {}
  <2>1. PICK m \in Bad : \A n \in Bad : m <= n
    <3> HIDE DEF Bad
    <3>1. QED BY <1>1, <1>3, LeastNumber, Zenon
  <2>2. N - m \in 1 .. N /\ N - m \notin S
    BY <2>1
  <2>3. ASSUME NEW j \in N - m + 1 .. N PROVE j \in S
    <3>1. N - j \in 0 .. N /\ N - j # N /\ N - (N - j) = j /\ ~(m <= N - j)
      BY <2>1, <2>2
    <3>2. N - j \notin Bad
      <4> HIDE DEF Bad
      <4>1. QED BY <2>1, <3>1
    <3>3. QED BY <3>1, <3>2
  <2>4. QED BY <2>2, <2>3
<1>4. QED BY <1>2, <1>3

LEMMA GreatestOf ==
    ASSUME NEW N \in Nat, NEW S, S \subseteq 1 .. N, S # {}
    PROVE  Max(S) \in S /\ \A n \in S : n <= Max(S)
<1> DEFINE R == {N - n : n \in S}
<1>1. R \subseteq Nat /\ R # {}
  <2>1. \A n \in S : N - n \in Nat
    OBVIOUS
  <2>2. QED BY <2>1
<1>2. PICK m \in R : \A n \in R : m <= n
  <2> HIDE DEF R
  <2>1. QED BY <1>1, LeastNumber, Zenon
<1>3. PICK g \in S : m = N - g
  BY <1>2
<1>4. \A n \in S : n <= g
  <2>1. ASSUME NEW n \in S PROVE n <= g
    <3>1. N - g <= N - n
      BY <1>2, <1>3
    <3>2. QED BY <3>1
  <2>2. QED BY <2>1
<1>5. QED BY <1>3, <1>4 DEF Max

LEMMA LeastOf ==
    ASSUME NEW S, S \subseteq Nat, S # {}
    PROVE  Min(S) \in S /\ \A n \in S : Min(S) <= n
<1>1. \E m \in S : \A n \in S : m <= n
  BY LeastNumber, Zenon
<1>2. QED BY <1>1 DEF Min

-----------------------------------------------------------------------------
(***************************************************************************)
(* Substitute.  Its recursive function exists: from[i] is what becomes of   *)
(* the text from the i-th letter on.                                        *)
(***************************************************************************)
After(word, by, t, g, i) ==
    IF i > Len(t) THEN <<>>
    ELSE IF Occurs(word, t, i) THEN by \o g[i + Len(word)] ELSE <<t[i]>> \o g[i + 1]

LEMMA SubstituteIs ==
    ASSUME NEW word, NEW by, NEW t,
           NEW F, F = [i \in 1 .. Len(t) + 1 |-> After(word, by, t, F, i)]
    PROVE  \E G : /\ Substitute(word, by, t) = G[1]
                  /\ G = [i \in 1 .. Len(t) + 1 |-> After(word, by, t, G, i)]
<1> DEFINE G == CHOOSE f : f = [i \in 1 .. Len(t) + 1 |-> After(word, by, t, f, i)]
<1>1. Substitute(word, by, t) = G[1]
  BY Zenon DEF Substitute, After
<1>2. G = [i \in 1 .. Len(t) + 1 |-> After(word, by, t, G, i)]
  BY Zenon
<1>3. QED BY <1>1, <1>2, Zenon

\* What becomes of a suffix depends on what becomes of the shorter ones only.
LEMMA AfterLooksAhead ==
    ASSUME NEW X, NEW t \in Seq(X), NEW word \in Seq(X), word # <<>>, NEW by,
           NEW i \in 1 .. Len(t) + 1, NEW g, NEW h,
           \A k \in i + 1 .. Len(t) + 1 : g[k] = h[k]
    PROVE  After(word, by, t, g, i) = After(word, by, t, h, i)
<1>1. Len(t) \in Nat /\ Len(word) \in Nat /\ Len(word) > 0
  OBVIOUS
<1>2. CASE i > Len(t)
  BY <1>2 DEF After
<1>3. CASE i <= Len(t) /\ Occurs(word, t, i)
  <2>1. i + Len(word) - 1 <= Len(t)
    BY <1>3 DEF Occurs
  <2>2. i + Len(word) \in i + 1 .. Len(t) + 1
    BY <1>1, <2>1
  <2>3. QED BY <1>1, <1>3, <2>2 DEF After
<1>4. CASE i <= Len(t) /\ ~Occurs(word, t, i)
  <2>1. i + 1 \in i + 1 .. Len(t) + 1
    BY <1>1, <1>4
  <2>2. QED BY <1>1, <1>4, <2>1 DEF After
<1>5. QED BY <1>1, <1>2, <1>3, <1>4

LEMMA AfterType ==
    ASSUME NEW X, NEW t \in Seq(X), NEW word \in Seq(X), word # <<>>, NEW by \in Seq(X),
           NEW i \in 1 .. Len(t) + 1, NEW g, \A k \in i + 1 .. Len(t) + 1 : g[k] \in Seq(X)
    PROVE  After(word, by, t, g, i) \in Seq(X)
<1>1. Len(t) \in Nat /\ Len(word) \in Nat /\ Len(word) > 0
  OBVIOUS
<1>2. CASE i > Len(t)
  BY <1>2 DEF After
<1>3. CASE i <= Len(t) /\ Occurs(word, t, i)
  <2>1. i + Len(word) - 1 <= Len(t)
    BY <1>3 DEF Occurs
  <2>2. i + Len(word) \in i + 1 .. Len(t) + 1
    BY <1>1, <2>1
  <2>3. g[i + Len(word)] \in Seq(X)
    BY <2>2
  <2>4. by \o g[i + Len(word)] \in Seq(X)
    BY <2>3
  <2>5. QED BY <1>1, <1>3, <2>4 DEF After
<1>4. CASE i <= Len(t) /\ ~Occurs(word, t, i)
  <2>1. i + 1 \in i + 1 .. Len(t) + 1 /\ t[i] \in X
    BY <1>1, <1>4
  <2>2. g[i + 1] \in Seq(X) /\ <<t[i]>> \in Seq(X)
    BY <2>1
  <2>3. <<t[i]>> \o g[i + 1] \in Seq(X)
    BY <2>2
  <2>4. QED BY <1>1, <1>4, <2>3 DEF After
<1>5. QED BY <1>1, <1>2, <1>3, <1>4

Rewrites(G, X, word, by, t) ==
    /\ G \in [1 .. Len(t) + 1 -> Seq(X)]
    /\ Substitute(word, by, t) = G[1]
    /\ \A i \in 1 .. Len(t) + 1 : G[i] = After(word, by, t, G, i)

LEMMA SubstituteFrom ==
    ASSUME NEW X, NEW t \in Seq(X), NEW word \in Seq(X), word # <<>>, NEW by \in Seq(X)
    PROVE  \E G : Rewrites(G, X, word, by, t)
<1> DEFINE N == Len(t)
           Solves(g, k) == \A i \in N + 1 - k .. N + 1 : /\ g[i] = After(word, by, t, g, i)
                                                         /\ g[i] \in Seq(X)
           S == {k \in 0 .. N : \E g : Solves(g, k)}
<1>1. N \in Nat
  OBVIOUS
<1>2. 0 \in S
  <2> DEFINE g == [i \in {N + 1} |-> <<>>]
  <2>1. \A i \in N + 1 - 0 .. N + 1 : i = N + 1 /\ i > N
    <3> HIDE DEF N
    <3>1. QED BY <1>1
  <2>2. g[N + 1] = <<>> /\ <<>> \in Seq(X)
    OBVIOUS
  <2>3. \A i \in N + 1 - 0 .. N + 1 : After(word, by, t, g, i) = <<>>
    BY <2>1 DEF After
  <2> HIDE DEF g
  <2>4. Solves(g, 0)
    BY <2>1, <2>2, <2>3
  <2> HIDE DEF Solves
  <2>5. QED BY <1>1, <2>4
<1>3. ASSUME NEW k \in 0 .. N - 1, k \in S PROVE k + 1 \in S
  <2> DEFINE m == N - k
  <2>1. PICK g : Solves(g, k)
    BY <1>3
  <2> DEFINE h == [i \in m .. N + 1 |-> IF i = m THEN After(word, by, t, g, m) ELSE g[i]]
  <2>2. m \in 1 .. N /\ N + 1 - k = m + 1 /\ N + 1 - (k + 1) = m
    BY <1>1
  <2>3. \A i \in m + 1 .. N + 1 : h[i] = g[i]
    BY <1>1, <2>2
  <2>4. h[m] = After(word, by, t, g, m)
    BY <1>1, <2>2
  <2>5. \A i \in m + 1 .. N + 1 : g[i] = After(word, by, t, g, i) /\ g[i] \in Seq(X)
    BY <2>1, <2>2
  <2> HIDE DEF h, m
  <2>6. h[m] \in Seq(X)
    <3>1. m \in 1 .. N + 1 /\ \A i \in m + 1 .. N + 1 : g[i] \in Seq(X)
      BY <1>1, <2>2, <2>5
    <3>2. After(word, by, t, g, m) \in Seq(X)
      BY <3>1, AfterType
    <3>3. QED BY <2>4, <3>2
  <2>7. ASSUME NEW i \in m .. N + 1 PROVE h[i] = After(word, by, t, h, i) /\ h[i] \in Seq(X)
    <3>1. /\ i \in 1 .. N + 1
          /\ \A j \in i + 1 .. N + 1 : g[j] = h[j]
      BY <1>1, <2>2, <2>3
    <3>2. After(word, by, t, g, i) = After(word, by, t, h, i)
      BY <3>1, AfterLooksAhead
    <3>3. CASE i = m
      BY <2>4, <2>6, <3>2, <3>3
    <3>4. CASE i # m
      <4>1. i \in m + 1 .. N + 1
        BY <1>1, <2>2, <3>4
      <4>2. QED BY <2>3, <2>5, <3>2, <4>1
    <3>5. QED BY <3>3, <3>4
  <2>8. Solves(h, k + 1)
    BY <2>2, <2>7
  <2>9. k + 1 \in 0 .. N
    BY <1>1
  <2> HIDE DEF Solves
  <2>10. QED BY <2>8, <2>9
<1>4. \A k \in 0 .. N : k \in S
  <2> HIDE DEF S, N
  <2>1. QED BY <1>1, <1>2, <1>3, Upwards
<1>5. PICK g : Solves(g, N)
  <2>1. N \in 0 .. N
    BY <1>1
  <2>2. N \in S
    BY <1>4, <2>1
  <2>3. QED BY <2>2
<1> DEFINE F == [i \in 1 .. N + 1 |-> g[i]]
<1>6. \A i \in 1 .. N + 1 : g[i] = After(word, by, t, g, i) /\ g[i] \in Seq(X)
  BY <1>1, <1>5
<1>7. \A i \in 1 .. N + 1 : F[i] = g[i]
  OBVIOUS
<1> HIDE DEF F
<1>8. ASSUME NEW i \in 1 .. N + 1 PROVE F[i] = After(word, by, t, F, i)
  <2>1. \A j \in i + 1 .. N + 1 : g[j] = F[j]
    BY <1>1, <1>7
  <2>2. After(word, by, t, g, i) = After(word, by, t, F, i)
    BY <2>1, AfterLooksAhead
  <2>3. QED BY <1>6, <1>7, <2>2
<1>9. F = [i \in 1 .. N + 1 |-> After(word, by, t, F, i)]
  BY <1>8 DEF F
<1>10. PICK G : /\ Substitute(word, by, t) = G[1]
                /\ G = [i \in 1 .. N + 1 |-> After(word, by, t, G, i)]
  BY <1>9, SubstituteIs
<1>11. \A i \in 1 .. N + 1 : G[i] = F[i]
  <2> DEFINE T == {k \in 0 .. N : \A i \in N + 1 - k .. N + 1 : G[i] = F[i]}
  <2>1. \A i \in 1 .. N + 1 : G[i] = After(word, by, t, G, i)
    BY <1>10
  <2>2. ASSUME NEW i \in 1 .. N + 1, \A j \in i + 1 .. N + 1 : G[j] = F[j] PROVE G[i] = F[i]
    <3>1. After(word, by, t, G, i) = After(word, by, t, F, i)
      BY <2>2, AfterLooksAhead
    <3>2. QED BY <1>8, <2>1, <3>1
  <2> HIDE DEF N
  <2>3. 0 \in T
    <3>1. N + 1 \in 1 .. N + 1 /\ \A j \in N + 1 + 1 .. N + 1 : G[j] = F[j]
      BY <1>1
    <3>2. \A i \in N + 1 - 0 .. N + 1 : i = N + 1
      BY <1>1
    <3>3. QED BY <1>1, <2>2, <3>1, <3>2
  <2>4. ASSUME NEW k \in 0 .. N - 1, k \in T PROVE k + 1 \in T
    <3>1. \A j \in N - k + 1 .. N + 1 : G[j] = F[j]
      BY <1>1, <2>4
    <3>2. G[N - k] = F[N - k]
      BY <1>1, <2>2, <3>1
    <3>3. \A i \in N + 1 - (k + 1) .. N + 1 : i = N - k \/ i \in N - k + 1 .. N + 1
      BY <1>1
    <3>4. k + 1 \in 0 .. N
      BY <1>1
    <3>5. QED BY <3>1, <3>2, <3>3, <3>4
  <2>5. \A k \in 0 .. N : k \in T
    <3> HIDE DEF T
    <3>1. QED BY <1>1, <2>3, <2>4, Upwards
  <2>6. N \in T
    BY <1>1, <2>5
  <2>7. QED BY <1>1, <2>6
<1>12. F \in [1 .. N + 1 -> Seq(X)]
  BY <1>6 DEF F
<1>13. 1 \in 1 .. N + 1
  BY <1>1
<1>14. Rewrites(F, X, word, by, t)
  BY <1>8, <1>10, <1>11, <1>12, <1>13 DEF Rewrites
<1>15. QED BY <1>14

-----------------------------------------------------------------------------
(***************************************************************************)
(* A redaction leaves no match behind, and brings no word together that was *)
(* not in the text: what stands between two marks has stood there before.   *)
(***************************************************************************)
Marked == Letters \cup {"mark"}

LEMMA MarkIsNoLetter == "mark" \notin Letters
BY DEF Letters

LEMMA OneMore ==
    ASSUME NEW X, NEW a \in X, NEW s \in Seq(X), NEW r, r = <<a>> \o s
    PROVE  /\ r \in Seq(X) /\ Len(r) = Len(s) + 1 /\ Len(s) \in Nat
           /\ r[1] = a
           /\ \A p \in 1 .. Len(s) : r[p + 1] = s[p]
OBVIOUS

\* Up to the next mark, the text is what it was.
LEMMA RunIsOld ==
    ASSUME NEW t \in Seq(Marked), NEW word \in Seq(Marked), word # <<>>,
           NEW G \in [1 .. Len(t) + 1 -> Seq(Marked)],
           \A i \in 1 .. Len(t) + 1 : G[i] = After(word, <<"mark">>, t, G, i)
    PROVE  \A i \in 1 .. Len(t) + 1 : \A m \in 0 .. Len(G[i]) :
              (\A j \in 1 .. m : G[i][j] # "mark")
              => i + m - 1 <= Len(t) /\ \A j \in 1 .. m : G[i][j] = t[i + j - 1]
<1> DEFINE N == Len(t) + 1
           Old(i) == \A m \in 0 .. Len(G[i]) :
                        (\A j \in 1 .. m : G[i][j] # "mark")
                        => i + m - 1 <= Len(t) /\ \A j \in 1 .. m : G[i][j] = t[i + j - 1]
           S == {i \in 1 .. N : Old(i)}
<1>1. N \in Nat /\ Len(t) \in Nat /\ Len(word) \in Nat /\ Len(word) > 0
  OBVIOUS
<1>2. ASSUME NEW i \in 1 .. N, \A k \in i + 1 .. N : k \in S PROVE Old(i)
  <2> SUFFICES ASSUME NEW m \in 0 .. Len(G[i]), \A j \in 1 .. m : G[i][j] # "mark"
               PROVE  i + m - 1 <= Len(t) /\ \A j \in 1 .. m : G[i][j] = t[i + j - 1]
    OBVIOUS
  <2>1. G[i] = After(word, <<"mark">>, t, G, i)
    OBVIOUS
  <2>2. CASE m = 0
    BY <1>1, <2>2
  <2>3. CASE m > 0 /\ i > Len(t)
    <3>1. Len(G[i]) = 0
      BY <2>1, <2>3 DEF After
    <3>2. QED BY <2>3, <3>1
  <2>4. CASE m > 0 /\ i <= Len(t) /\ Occurs(word, t, i)
    <3>1. i + Len(word) \in 1 .. N
      BY <1>1, <2>4 DEF Occurs
    <3>2. G[i] = <<"mark">> \o G[i + Len(word)]
      BY <1>1, <2>1, <2>4 DEF After
    <3>3. G[i + Len(word)] \in Seq(Marked) /\ "mark" \in Marked
      BY <3>1 DEF Marked
    <3>4. G[i][1] = "mark"
      BY <3>2, <3>3, OneMore
    <3>5. QED BY <2>4, <3>4
  <2>5. CASE m > 0 /\ i <= Len(t) /\ ~Occurs(word, t, i)
    <3>1. i + 1 \in 1 .. N /\ i + 1 \in i + 1 .. N /\ t[i] \in Marked
      BY <1>1, <2>5
    <3>2. G[i] = <<t[i]>> \o G[i + 1]
      BY <1>1, <2>1, <2>5 DEF After
    <3>3. G[i + 1] \in Seq(Marked)
      BY <3>1
    <3>4. /\ Len(G[i]) = Len(G[i + 1]) + 1 /\ G[i][1] = t[i]
          /\ \A p \in 1 .. Len(G[i + 1]) : G[i][p + 1] = G[i + 1][p]
      BY <3>1, <3>2, <3>3, OneMore
    <3>5. Len(G[i + 1]) \in Nat
      BY <3>3
    <3>6. m - 1 \in 0 .. Len(G[i + 1]) /\ \A j \in 1 .. m - 1 : G[i + 1][j] # "mark"
      <4>1. m - 1 \in 0 .. Len(G[i + 1])
        BY <2>5, <3>4, <3>5
      <4>2. \A j \in 1 .. m - 1 : j + 1 \in 1 .. m /\ j \in 1 .. Len(G[i + 1])
        BY <3>5, <4>1
      <4>3. QED BY <3>4, <4>1, <4>2
    <3>7. Old(i + 1)
      BY <1>2, <3>1
    <3>8. /\ (i + 1) + (m - 1) - 1 <= Len(t)
          /\ \A j \in 1 .. m - 1 : G[i + 1][j] = t[(i + 1) + j - 1]
      BY <3>6, <3>7
    <3>9. ASSUME NEW j \in 1 .. m PROVE G[i][j] = t[i + j - 1]
      <4>1. CASE j = 1
        BY <3>4, <4>1
      <4>2. CASE j > 1
        <5>1. j - 1 \in 1 .. m - 1 /\ j - 1 \in 1 .. Len(G[i + 1]) /\ (j - 1) + 1 = j
              /\ (i + 1) + (j - 1) - 1 = i + j - 1
          BY <3>5, <3>6, <4>2
        <5>2. G[i][(j - 1) + 1] = G[i + 1][j - 1]
          BY <3>4, <5>1
        <5>3. G[i + 1][j - 1] = t[(i + 1) + (j - 1) - 1]
          BY <3>8, <5>1
        <5>4. QED BY <5>1, <5>2, <5>3
      <4>3. QED BY <4>1, <4>2
    <3>10. QED BY <1>1, <3>8, <3>9
  <2>6. QED BY <1>1, <2>2, <2>3, <2>4, <2>5
<1>3. \A i \in 1 .. N : i \in S
  <2>1. \A i \in 1 .. N : (\A k \in i + 1 .. N : k \in S) => i \in S
    BY <1>2
  <2> HIDE DEF S, N
  <2>2. QED BY <1>1, <2>1, Downwards
<1>4. QED BY <1>3

LEMMA MarkedFrom ==
    ASSUME NEW t \in Seq(Marked), NEW word \in Seq(Marked), word # <<>>
    PROVE  \E G : Rewrites(G, Marked, word, <<"mark">>, t)
<1>1. <<"mark">> \in Seq(Marked)
  BY DEF Marked
<1> DEFINE by == <<"mark">>
<1>2. by \in Seq(Marked)
  BY <1>1
<1> HIDE DEF Marked, by
<1>3. \E G : Rewrites(G, Marked, word, by, t)
  BY <1>2, SubstituteFrom
<1>4. QED BY <1>3 DEF by

\* A word in the redacted text was in the text, where the redacted word was not.
LEMMA RedactedText ==
    ASSUME NEW t \in Seq(Marked), NEW word \in Seq(Letters), word # <<>>,
           NEW u \in Seq(Letters), u # <<>>,
           Holds(Substitute(word, <<"mark">>, t), u)
    PROVE  \E k \in DOMAIN t : Occurs(u, t, k) /\ ~Occurs(word, t, k)
<1> DEFINE N == Len(t) + 1
<1>1. /\ N \in Nat /\ Len(t) \in Nat /\ Len(word) \in Nat /\ Len(word) > 0
      /\ Len(u) \in Nat /\ Len(u) > 0 /\ DOMAIN u = 1 .. Len(u) /\ DOMAIN t = 1 .. Len(t)
  OBVIOUS
<1>2. word \in Seq(Marked) /\ <<"mark">> \in Seq(Marked) /\ \A j \in DOMAIN u : u[j] # "mark"
  <2>1. \A j \in DOMAIN u : u[j] \in Letters
    OBVIOUS
  <2>2. word \in Seq(Letters) /\ Letters \subseteq Marked
    BY DEF Marked
  <2>3. word \in Seq(Marked)
    BY <2>2
  <2>4. <<"mark">> \in Seq(Marked)
    BY DEF Marked
  <2>5. QED BY <2>1, <2>3, <2>4, MarkIsNoLetter
<1>3. PICK G \in [1 .. N -> Seq(Marked)] :
         /\ Substitute(word, <<"mark">>, t) = G[1]
         /\ \A i \in 1 .. N : G[i] = After(word, <<"mark">>, t, G, i)
  <2>1. word \in Seq(Marked)
    BY <1>2
  <2>2. \E G : Rewrites(G, Marked, word, <<"mark">>, t)
    BY <2>1, MarkedFrom
  <2>3. QED BY <2>2 DEF Rewrites
<1> DEFINE Was(i) == Holds(G[i], u) => \E k \in DOMAIN t : Occurs(u, t, k) /\ ~Occurs(word, t, k)
           S == {i \in 1 .. N : Was(i)}
<1>4. ASSUME NEW i \in 1 .. N, \A k \in i + 1 .. N : k \in S PROVE Was(i)
  <2> SUFFICES ASSUME NEW p \in DOMAIN G[i], Occurs(u, G[i], p)
               PROVE  \E k \in DOMAIN t : Occurs(u, t, k) /\ ~Occurs(word, t, k)
    BY DEF Holds
  <2>1. G[i] = After(word, <<"mark">>, t, G, i) /\ G[i] \in Seq(Marked)
    BY <1>3
  <2>2. /\ p \in Nat /\ p >= 1 /\ p <= Len(G[i]) /\ p + Len(u) - 1 <= Len(G[i]) /\ Len(G[i]) \in Nat
        /\ \A j \in 1 .. Len(u) : G[i][p + j - 1] = u[j]
    <3>1. Len(G[i]) \in Nat /\ p \in 1 .. Len(G[i])
      BY <2>1
    <3>2. p + Len(u) - 1 <= Len(G[i]) /\ \A j \in DOMAIN u : G[i][p + j - 1] = u[j]
      BY DEF Occurs
    <3>3. p \in Nat /\ p >= 1 /\ p <= Len(G[i])
      BY <3>1
    <3>4. \A j \in 1 .. Len(u) : G[i][p + j - 1] = u[j]
      BY <1>1, <3>2
    <3>5. QED BY <3>1, <3>2, <3>3, <3>4
  \* An occurrence behind the first letter is one in what follows.
  <2>3. ASSUME NEW n \in i + 1 .. N, NEW a \in Marked, G[i] = <<a>> \o G[n], p > 1
        PROVE  \E k \in DOMAIN t : Occurs(u, t, k) /\ ~Occurs(word, t, k)
    <3>1. G[n] \in Seq(Marked) /\ n \in 1 .. N
      BY <1>1, <1>3
    <3>2. /\ Len(G[i]) = Len(G[n]) + 1 /\ Len(G[n]) \in Nat
          /\ \A q \in 1 .. Len(G[n]) : G[i][q + 1] = G[n][q]
      BY <2>3, <3>1, OneMore
    <3>3. p - 1 \in DOMAIN G[n] /\ (p - 1) + Len(u) - 1 <= Len(G[n])
      BY <1>1, <2>2, <2>3, <3>1, <3>2
    <3>4. ASSUME NEW j \in DOMAIN u PROVE G[n][(p - 1) + j - 1] = u[j]
      <4>1. (p - 1) + j - 1 \in 1 .. Len(G[n]) /\ ((p - 1) + j - 1) + 1 = p + j - 1
        <5>1. j \in 1 .. Len(u) /\ Len(u) \in Nat
          BY <1>1
        <5>2. /\ p \in Nat /\ p > 1 /\ p + Len(u) - 1 <= Len(G[i])
              /\ Len(G[i]) = Len(G[n]) + 1 /\ Len(G[n]) \in Nat
          BY <2>2, <2>3, <3>2
        <5> HIDE DEF N
        <5>3. QED BY <5>1, <5>2
      <4>2. G[i][((p - 1) + j - 1) + 1] = G[n][(p - 1) + j - 1]
        BY <3>2, <4>1
      <4>3. QED BY <1>1, <2>2, <4>1, <4>2
    <3>5. Occurs(u, G[n], p - 1)
      BY <3>3, <3>4 DEF Occurs
    <3>6. Holds(G[n], u)
      BY <3>3, <3>5 DEF Holds
    <3>7. Was(n)
      BY <1>4
    <3>8. QED BY <3>6, <3>7
  <2>4. CASE i > Len(t)
    <3>1. G[i] = <<>>
      BY <2>1, <2>4 DEF After
    <3>2. QED BY <2>2, <3>1
  <2>5. CASE i <= Len(t) /\ Occurs(word, t, i)
    <3>1. i + Len(word) \in i + 1 .. N
      BY <1>1, <2>5 DEF Occurs
    <3>2. G[i] = <<"mark">> \o G[i + Len(word)] /\ "mark" \in Marked
      BY <1>1, <2>1, <2>5 DEF After, Marked
    <3>3. p > 1
      <4>1. G[i + Len(word)] \in Seq(Marked)
        BY <1>1, <1>3, <3>1
      <4>2. G[i][1] = "mark"
        BY <3>2, <4>1, OneMore
      <4>3. p = 1 => G[i][1] = u[1]
        <5>1. 1 \in 1 .. Len(u)
          BY <1>1
        <5>2. p = 1 => p + 1 - 1 = 1
          OBVIOUS
        <5>3. QED BY <2>2, <5>1, <5>2
      <4>4. u[1] # "mark"
        <5>1. 1 \in DOMAIN u
          BY <1>1
        <5>2. QED BY <1>2, <5>1
      <4>5. QED BY <2>2, <4>2, <4>3, <4>4
    <3>4. QED BY <2>3, <3>1, <3>2, <3>3
  <2>6. CASE i <= Len(t) /\ ~Occurs(word, t, i)
    <3>1. i + 1 \in i + 1 .. N /\ t[i] \in Marked /\ i \in DOMAIN t
      BY <1>1, <2>6
    <3>2. G[i] = <<t[i]>> \o G[i + 1]
      BY <1>1, <2>1, <2>6 DEF After
    <3>3. CASE p > 1
      BY <2>3, <3>1, <3>2, <3>3
    <3>4. CASE p = 1
      <4>1. Len(u) \in 0 .. Len(G[i]) /\ \A j \in 1 .. Len(u) : G[i][j] = u[j]
        <5>1. \A j \in 1 .. Len(u) : p + j - 1 = j
          BY <3>4
        <5>2. QED BY <1>1, <2>2, <3>4, <5>1
      <4>2. \A j \in 1 .. Len(u) : G[i][j] # "mark"
        BY <1>1, <1>2, <4>1
      <4>3. i + Len(u) - 1 <= Len(t) /\ \A j \in 1 .. Len(u) : G[i][j] = t[i + j - 1]
        <5>1. \A k \in 1 .. Len(t) + 1 : \A m \in 0 .. Len(G[k]) :
                (\A j \in 1 .. m : G[k][j] # "mark")
                => k + m - 1 <= Len(t) /\ \A j \in 1 .. m : G[k][j] = t[k + j - 1]
          BY <1>2, <1>3, RunIsOld
        <5>2. QED BY <4>1, <4>2, <5>1
      <4>4. Occurs(u, t, i)
        BY <1>1, <4>1, <4>3 DEF Occurs
      <4>5. QED BY <2>6, <3>1, <4>4
    <3>5. QED BY <2>2, <3>3, <3>4
  <2>7. QED BY <1>1, <2>4, <2>5, <2>6
<1>5. \A i \in 1 .. N : i \in S
  <2>1. \A i \in 1 .. N : (\A k \in i + 1 .. N : k \in S) => i \in S
    BY <1>4
  <2> HIDE DEF S, N
  <2>2. QED BY <1>1, <2>1, Downwards
<1>6. 1 \in 1 .. N
  BY <1>1
<1>7. QED BY <1>3, <1>5, <1>6

LEMMA SubstituteType ==
    ASSUME NEW X, NEW t \in Seq(X), NEW word \in Seq(X), word # <<>>, NEW by \in Seq(X)
    PROVE  Substitute(word, by, t) \in Seq(X)
<1>1. PICK G : Rewrites(G, X, word, by, t)
  BY SubstituteFrom
<1>2. 1 \in 1 .. Len(t) + 1
  OBVIOUS
<1>3. QED BY <1>1, <1>2 DEF Rewrites

-----------------------------------------------------------------------------
(***************************************************************************)
(* Sanitized.  One rule, then all of them in their order.                   *)
(***************************************************************************)
Rules == [name : STRING, word : Seq(Letters) \ {<<>>}, compiles : BOOLEAN, action : Effects]

LEMMA ConfigRules ==
    ASSUME NEW c \in Configs
    PROVE  /\ c.rules \in Seq(Rules) /\ Len(c.rules) \in Nat /\ DOMAIN c.rules = 1 .. Len(c.rules)
           /\ \A i \in DOMAIN c.rules :
                 c.rules[i] \in Rules /\ c.rules[i].word \in Seq(Letters) /\ c.rules[i].word # <<>>
                 /\ c.rules[i].name \in STRING
<1>1. c.rules \in Seq(Rules)
  BY ResponseAssumption DEF Rules
<1>2. \A r \in Rules : r.word \in Seq(Letters) /\ r.word # <<>> /\ r.name \in STRING
  BY DEF Rules
<1>3. \A i \in DOMAIN c.rules : c.rules[i] \in Rules
  BY <1>1
<1>4. QED BY <1>1, <1>2, <1>3

LEMMA PatternType ==
    ASSUME NEW c \in Configs, NEW name
    PROVE  Pattern(c.rules, name) \in Seq(Letters)
<1> DEFINE I == {i \in 1 .. Len(c.rules) : c.rules[i].name = name /\ c.rules[i].compiles}
           k == SelectLastInSeq(c.rules, LAMBDA r : r.name = name /\ r.compiles)
<1>1. k = IF I # {} THEN Max(I) ELSE 0
  BY DEF SelectLastInSeq
<1>2. k = 0 \/ k \in 1 .. Len(c.rules)
  <2>1. Len(c.rules) \in Nat /\ I \subseteq 1 .. Len(c.rules)
    BY ConfigRules
  <2>2. I # {} => Max(I) \in I
    <3> HIDE DEF I
    <3>1. QED BY <2>1, GreatestOf
  <2>3. QED BY <1>1, <2>1, <2>2
<1>3. Pattern(c.rules, name) = IF k = 0 THEN <<>> ELSE c.rules[k].word
  BY DEF Pattern
<1>4. QED
  <2> HIDE DEF k
  <2>1. CASE k = 0
    BY <1>3, <2>1
  <2>2. CASE k # 0
    BY <1>2, <1>3, <2>2, ConfigRules
  <2>3. QED BY <2>1, <2>2

Partial == [text : Seq(Marked), found : Seq(STRING)]

\* The three things a rule can do.
Untouched(c, rule, acc, new) ==
    LET word == Pattern(c.rules, rule.name) IN
    new = acc /\ (word = <<>> \/ ~Holds(acc.text, word))

Matches(c, rule, acc, new) ==
    LET word == Pattern(c.rules, rule.name) IN
    /\ word # <<>> /\ Holds(acc.text, word)
    /\ new.found = Append(acc.found, rule.name)
    /\ \/ Effect(c, rule) = "strip"
       \/ Effect(c, rule) = "redact" /\ new.text = Substitute(word, <<"mark">>, acc.text)
       \/ Effect(c, rule) \notin {"strip", "redact"} /\ new.text = acc.text

LEMMA ApplyRuleCases ==
    ASSUME NEW c \in Configs, NEW i \in DOMAIN c.rules, NEW acc \in Partial
    PROVE  LET new == ApplyRule(c, c.rules[i], acc) IN
           /\ new \in Partial
           /\ Untouched(c, c.rules[i], acc, new) \/ Matches(c, c.rules[i], acc, new)
<1> DEFINE rule == c.rules[i]
           word == Pattern(c.rules, rule.name)
           new == ApplyRule(c, rule, acc)
           changed == ApplyPattern(Effect(c, rule), word, acc.text)
<1>1. /\ acc.text \in Seq(Marked) /\ acc.found \in Seq(STRING)
      /\ rule.name \in STRING /\ word \in Seq(Letters)
  BY ConfigRules, PatternType DEF Partial
<1>2. word \in Seq(Marked) /\ <<>> \in Seq(Marked) /\ <<"mark">> \in Seq(Marked)
  <2>1. Letters \subseteq Marked /\ "mark" \in Marked
    BY DEF Marked
  <2> HIDE DEF word
  <2>2. QED BY <1>1, <2>1
<1>3. CASE word = <<>> \/ ~Holds(acc.text, word)
  <2>1. new = acc
    BY <1>3 DEF ApplyRule
  <2>2. QED BY <1>3, <2>1 DEF Untouched
<1>4. CASE word # <<>> /\ Holds(acc.text, word)
  <2>1. new = [text |-> changed, found |-> Append(acc.found, rule.name)]
    BY <1>4 DEF ApplyRule, Reported
  <2>2. /\ Effect(c, rule) = "strip" => changed = Substitute(word, <<>>, acc.text)
        /\ Effect(c, rule) = "redact" => changed = Substitute(word, <<"mark">>, acc.text)
        /\ Effect(c, rule) \notin {"strip", "redact"} => changed = acc.text
    BY DEF ApplyPattern
  <2> HIDE DEF word, changed, new, rule
  <2>3. Substitute(word, <<>>, acc.text) \in Seq(Marked)
    BY <1>1, <1>2, <1>4, SubstituteType
  <2>4. Substitute(word, <<"mark">>, acc.text) \in Seq(Marked)
    BY <1>1, <1>2, <1>4, SubstituteType
  <2>5. changed \in Seq(Marked) /\ Append(acc.found, rule.name) \in Seq(STRING)
    BY <1>1, <2>2, <2>3, <2>4
  <2>6. new \in Partial /\ new.text = changed /\ new.found = Append(acc.found, rule.name)
    BY <2>1, <2>5 DEF Partial
  <2>7. Matches(c, rule, acc, new)
    BY <1>4, <2>2, <2>6 DEF Matches, word
  <2>8. QED BY <2>6, <2>7 DEF new, rule
<1>5. QED BY <1>3, <1>4

\* The recursive function of Sanitized exists: Stage says what the first i rules have done.
Stage(c, t, g, i) ==
    IF i = 0 THEN [text |-> t, found |-> <<>>] ELSE ApplyRule(c, c.rules[i], g[i - 1])

Stages(F, c, t) ==
    /\ Sanitized(c, t) = F[Len(c.rules)]
    /\ F = [i \in 0 .. Len(c.rules) |-> Stage(c, t, F, i)]

LEMMA SanitizedIs ==
    ASSUME NEW c, NEW t, NEW F, F = [i \in 0 .. Len(c.rules) |-> Stage(c, t, F, i)]
    PROVE  \E G : Stages(G, c, t)
<1> DEFINE G == CHOOSE f : f = [i \in 0 .. Len(c.rules) |-> Stage(c, t, f, i)]
<1>1. Sanitized(c, t) = G[Len(c.rules)]
  BY Zenon DEF Sanitized, Stage
<1>2. G = [i \in 0 .. Len(c.rules) |-> Stage(c, t, G, i)]
  BY Zenon
<1> HIDE DEF G
<1>3. QED BY <1>1, <1>2, Zenon DEF Stages

LEMMA StageType ==
    ASSUME NEW c \in Configs, NEW t \in Seq(Marked), NEW i \in 0 .. Len(c.rules), NEW g,
           i # 0 => g[i - 1] \in Partial
    PROVE  Stage(c, t, g, i) \in Partial
<1>1. CASE i = 0
  <2>1. <<>> \in Seq(STRING)
    OBVIOUS
  <2>2. QED BY <1>1, <2>1 DEF Stage, Partial
<1>2. CASE i # 0
  <2>1. i \in DOMAIN c.rules
    BY <1>2, ConfigRules
  <2>2. ApplyRule(c, c.rules[i], g[i - 1]) \in Partial
    BY <1>2, <2>1, ApplyRuleCases
  <2>3. QED BY <1>2, <2>2 DEF Stage
<1>3. QED BY <1>1, <1>2

\* Functions that agree on the stages before i go on alike.
LEMMA StageLooksBack ==
    ASSUME NEW c, NEW t, NEW i \in Nat, NEW g, NEW h, i # 0 => g[i - 1] = h[i - 1]
    PROVE  Stage(c, t, g, i) = Stage(c, t, h, i)
BY DEF Stage

LEMMA SanitizedStages ==
    ASSUME NEW c \in Configs, NEW t \in Seq(Marked)
    PROVE  \E G : Stages(G, c, t)
<1> DEFINE n == Len(c.rules)
           Solves(g, k) == \A i \in 0 .. k : g[i] = Stage(c, t, g, i)
           S == {k \in 0 .. n : \E g : Solves(g, k)}
<1>1. n \in Nat
  BY ConfigRules
<1> HIDE DEF n
<1>2. 0 \in S
  <2> DEFINE g == [i \in {0} |-> [text |-> t, found |-> <<>>]]
  <2>1. g[0] = Stage(c, t, g, 0)
    BY DEF Stage
  <2> HIDE DEF g
  <2>2. \A i \in 0 .. 0 : g[i] = Stage(c, t, g, i)
    BY <2>1
  <2>3. QED BY <1>1, <2>2
<1>3. ASSUME NEW k \in 0 .. n - 1, k \in S PROVE k + 1 \in S
  <2>1. PICK g : \A i \in 0 .. k : g[i] = Stage(c, t, g, i)
    BY <1>3
  <2> DEFINE h == [i \in 0 .. k + 1 |-> IF i = k + 1 THEN Stage(c, t, g, i) ELSE g[i]]
  <2>2. (\A i \in 0 .. k : h[i] = g[i]) /\ h[k + 1] = Stage(c, t, g, k + 1)
    BY <1>1
  <2> HIDE DEF h
  <2>3. ASSUME NEW i \in 0 .. k + 1 PROVE h[i] = Stage(c, t, h, i)
    <3>1. i \in Nat /\ (i # 0 => i - 1 \in 0 .. k) /\ (i = k + 1 \/ i \in 0 .. k)
      BY <1>1
    <3>2. i # 0 => g[i - 1] = h[i - 1]
      BY <2>2, <3>1
    <3>3. Stage(c, t, g, i) = Stage(c, t, h, i)
      BY <3>1, <3>2, StageLooksBack
    <3>4. QED BY <2>1, <2>2, <3>1, <3>3
  <2>4. k + 1 \in 0 .. n
    BY <1>1
  <2>5. QED BY <2>3, <2>4
<1>4. n \in S
  <2>1. \A k \in 0 .. n : k \in S
    <3> HIDE DEF S
    <3>1. QED BY <1>1, <1>2, <1>3, Upwards
  <2>2. QED BY <1>1, <2>1
<1>5. PICK g : \A i \in 0 .. n : g[i] = Stage(c, t, g, i)
  BY <1>4
<1> DEFINE F == [i \in 0 .. n |-> g[i]]
<1>6. \A i \in 0 .. n : F[i] = g[i]
  OBVIOUS
<1> HIDE DEF F
<1>7. ASSUME NEW i \in 0 .. n PROVE F[i] = Stage(c, t, F, i)
  <2>1. i \in Nat /\ (i # 0 => i - 1 \in 0 .. n)
    BY <1>1
  <2>2. i # 0 => g[i - 1] = F[i - 1]
    BY <1>6, <2>1
  <2>3. Stage(c, t, g, i) = Stage(c, t, F, i)
    BY <2>1, <2>2, StageLooksBack
  <2>4. QED BY <1>5, <1>6, <2>3
<1>8. F = [i \in 0 .. n |-> Stage(c, t, F, i)]
  BY <1>7 DEF F
<1>9. QED BY <1>8, SanitizedIs DEF n

\* Every stage is a text and the names found so far.
LEMMA StagesType ==
    ASSUME NEW c \in Configs, NEW t \in Seq(Marked), NEW F, Stages(F, c, t)
    PROVE  \A i \in 0 .. Len(c.rules) : F[i] \in Partial /\ F[i] = Stage(c, t, F, i)
<1> DEFINE n == Len(c.rules)
           S == {k \in 0 .. n : F[k] \in Partial}
<1>1. n \in Nat
  BY ConfigRules
<1>2. \A i \in 0 .. n : F[i] = Stage(c, t, F, i)
  BY DEF Stages
<1>3. 0 \in S
  <2>1. 0 \in 0 .. n
    BY <1>1
  <2>2. Stage(c, t, F, 0) \in Partial
    BY <2>1, StageType
  <2>3. QED BY <1>2, <2>1, <2>2
<1>4. ASSUME NEW k \in 0 .. n - 1, k \in S PROVE k + 1 \in S
  <2>1. k + 1 \in 0 .. n /\ (k + 1) - 1 = k
    BY <1>1
  <2>2. F[(k + 1) - 1] \in Partial
    BY <1>4, <2>1
  <2>3. Stage(c, t, F, k + 1) \in Partial
    BY <2>1, <2>2, StageType
  <2>4. QED BY <1>2, <2>1, <2>3
<1>5. \A k \in 0 .. n : k \in S
  <2> HIDE DEF S, n
  <2>1. QED BY <1>1, <1>3, <1>4, Upwards
<1>6. QED BY <1>2, <1>5

-----------------------------------------------------------------------------
(* RedactedForGood *)

\* Rule i's word is gone after k rules, unless one that strips has matched since.
Gone(c, acc, i, k) ==
    \/ ~Holds(acc.text, c.rules[i].word)
    \/ \E j \in i .. k : /\ Effect(c, c.rules[j]) = "strip"
                         /\ Contains(acc.found, c.rules[j].name)

LEMMA AppendContains ==
    ASSUME NEW X, NEW s \in Seq(X), NEW e \in X
    PROVE  Contains(Append(s, e), e) /\ \A d : Contains(s, d) => Contains(Append(s, e), d)
<1>1. Len(s) \in Nat /\ Len(Append(s, e)) = Len(s) + 1 /\ Append(s, e)[Len(s) + 1] = e
      /\ \A i \in 1 .. Len(s) : Append(s, e)[i] = s[i]
  <2>1. Len(s) \in Nat
    OBVIOUS
  <2>2. Len(Append(s, e)) = Len(s) + 1
    BY AppendProperties
  <2>3. Append(s, e)[Len(s) + 1] = e
    BY AppendProperties
  <2>4. \A i \in 1 .. Len(s) : Append(s, e)[i] = s[i]
    BY AppendProperties
  <2>5. QED BY <2>1, <2>2, <2>3, <2>4
<1>2. Len(s) + 1 \in 1 .. Len(s) + 1 /\ \A i \in 1 .. Len(s) : i \in 1 .. Len(s) + 1
  BY <1>1
<1>3. QED BY <1>1, <1>2 DEF Contains

\* The rule itself: it finds nothing, or closes the text up, or leaves a mark for each match.
LEMMA GoneAtOnce ==
    ASSUME NEW c \in Configs, NEW i \in DOMAIN c.rules, NEW acc \in Partial,
           Pattern(c.rules, c.rules[i].name) = c.rules[i].word,
           Effect(c, c.rules[i]) \in {"strip", "redact"}
    PROVE  Gone(c, ApplyRule(c, c.rules[i], acc), i, i)
<1> DEFINE rule == c.rules[i]
           word == c.rules[i].word
           new == ApplyRule(c, rule, acc)
<1>1. new \in Partial /\ (Untouched(c, rule, acc, new) \/ Matches(c, rule, acc, new))
  BY ApplyRuleCases
<1>2. word \in Seq(Letters) /\ word # <<>> /\ rule.name \in STRING /\ i \in Nat
  BY ConfigRules
<1>3. acc.text \in Seq(Marked) /\ acc.found \in Seq(STRING)
  BY DEF Partial
<1> HIDE DEF new
<1>4. CASE Untouched(c, rule, acc, new)
  <2>1. new = acc /\ ~Holds(acc.text, word)
    BY <1>2, <1>4 DEF Untouched
  <2>2. QED BY <2>1 DEF Gone, new
<1>5. CASE Matches(c, rule, acc, new)
  <2>1. new.found = Append(acc.found, rule.name)
    BY <1>5 DEF Matches
  <2>2. CASE Effect(c, rule) = "strip"
    <3>1. Contains(new.found, rule.name)
      <4> HIDE DEF rule
      <4>1. QED BY <1>2, <1>3, <2>1, AppendContains
    <3>2. i \in i .. i
      BY <1>2
    <3>3. QED BY <2>2, <3>1, <3>2 DEF Gone, new
  <2>3. CASE Effect(c, rule) = "redact"
    <3>1. new.text = Substitute(word, <<"mark">>, acc.text)
      BY <1>5, <2>3 DEF Matches
    <3>2. ~Holds(new.text, word)
      <4> HIDE DEF word
      <4>1. QED BY <1>2, <1>3, <3>1, RedactedText
    <3>3. QED BY <3>2 DEF Gone, new
  <2>4. QED BY <2>2, <2>3
<1>6. QED BY <1>1, <1>4, <1>5

\* A later rule brings the word together again only by stripping.
LEMMA GoneStays ==
    ASSUME NEW c \in Configs, NEW i \in DOMAIN c.rules, NEW k \in DOMAIN c.rules,
           i <= k, k + 1 \in DOMAIN c.rules, NEW acc \in Partial, Gone(c, acc, i, k)
    PROVE  Gone(c, ApplyRule(c, c.rules[k + 1], acc), i, k + 1)
<1> DEFINE rule == c.rules[k + 1]
           word == c.rules[i].word
           new == ApplyRule(c, rule, acc)
           theirs == Pattern(c.rules, rule.name)
<1>1. new \in Partial /\ (Untouched(c, rule, acc, new) \/ Matches(c, rule, acc, new))
  BY ApplyRuleCases
<1>2. /\ word \in Seq(Letters) /\ word # <<>> /\ rule.name \in STRING /\ i \in Nat /\ k \in Nat
      /\ theirs \in Seq(Letters)
  <2>1. i \in 1 .. Len(c.rules) /\ k \in 1 .. Len(c.rules) /\ Len(c.rules) \in Nat
    BY ConfigRules
  <2>2. word \in Seq(Letters) /\ word # <<>> /\ rule.name \in STRING
    BY ConfigRules
  <2>3. theirs \in Seq(Letters)
    BY PatternType
  <2>4. QED BY <2>1, <2>2, <2>3
<1>3. acc.text \in Seq(Marked) /\ acc.found \in Seq(STRING)
  BY DEF Partial
<1>4. (\A j \in i .. k : j \in i .. k + 1) /\ k + 1 \in i .. k + 1
  BY <1>2
<1> HIDE DEF new
<1>5. CASE Untouched(c, rule, acc, new)
  <2>1. new = acc
    BY <1>5 DEF Untouched
  <2>2. QED BY <1>4, <2>1 DEF Gone, new
<1>6. CASE Matches(c, rule, acc, new)
  <2>1. new.found = Append(acc.found, rule.name)
    BY <1>6 DEF Matches
  <2>2. Contains(new.found, rule.name) /\ \A d : Contains(acc.found, d) => Contains(new.found, d)
    BY <1>2, <1>3, <2>1, AppendContains
  <2>3. CASE \E j \in i .. k : Effect(c, c.rules[j]) = "strip" /\ Contains(acc.found, c.rules[j].name)
    BY <1>4, <2>2, <2>3 DEF Gone, new
  <2>4. CASE Effect(c, rule) = "strip"
    BY <1>4, <2>2, <2>4 DEF Gone, new
  <2>5. CASE ~Holds(acc.text, word) /\ Effect(c, rule) = "redact"
    <3>1. theirs # <<>> /\ new.text = Substitute(theirs, <<"mark">>, acc.text)
      BY <1>6, <2>5 DEF Matches
    <3>2. ~Holds(new.text, word)
      <4>1. Holds(new.text, word) => \E n \in DOMAIN acc.text : Occurs(word, acc.text, n)
        <5> HIDE DEF word, theirs
        <5>1. QED BY <1>2, <1>3, <3>1, RedactedText
      <4>2. QED BY <2>5, <4>1 DEF Holds
    <3>3. QED BY <3>2 DEF Gone, new
  <2>6. CASE ~Holds(acc.text, word) /\ Effect(c, rule) \notin {"strip", "redact"}
    <3>1. new.text = acc.text
      BY <1>6, <2>6 DEF Matches
    <3>2. QED BY <2>6, <3>1 DEF Gone, new
  <2>7. QED BY <2>3, <2>4, <2>5, <2>6 DEF Gone
<1>7. QED BY <1>1, <1>5, <1>6

LEMMA OneFurther ==
    ASSUME NEW n \in Nat, NEW i \in 1 .. n, NEW d \in Nat, d + 1 <= n - i
    PROVE  /\ i + d \in 1 .. n /\ (i + d) + 1 \in 1 .. n /\ i <= i + d
           /\ i + (d + 1) = (i + d) + 1 /\ ((i + d) + 1) - 1 = i + d /\ d + 1 \in 0 .. n - i
OBVIOUS

LEMMA SanitizedForGood ==
    ASSUME NEW c \in Configs, NEW t \in Seq(Marked), NEW i \in DOMAIN c.rules,
           Pattern(c.rules, c.rules[i].name) = c.rules[i].word,
           Effect(c, c.rules[i]) \in {"strip", "redact"}
    PROVE  Gone(c, Sanitized(c, t), i, Len(c.rules))
<1> DEFINE n == Len(c.rules)
<1>1. PICK F : Stages(F, c, t)
  BY SanitizedStages
<1>2. \A k \in 0 .. n : F[k] \in Partial /\ F[k] = Stage(c, t, F, k)
  BY <1>1, StagesType
<1>3. n \in Nat /\ DOMAIN c.rules = 1 .. n /\ i \in 1 .. n /\ i \in Nat /\ n - i \in Nat
  BY ConfigRules
<1>4. \A k \in 1 .. n : /\ k - 1 \in 0 .. n /\ F[k - 1] \in Partial
                        /\ F[k] = ApplyRule(c, c.rules[k], F[k - 1])
  BY <1>2, <1>3 DEF Stage
<1> DEFINE S == {d \in 0 .. n - i : Gone(c, F[i + d], i, i + d)}
<1> HIDE DEF n
<1>5. 0 \in S
  <2>1. Gone(c, F[i], i, i)
    BY <1>3, <1>4, GoneAtOnce
  <2>2. i + 0 = i /\ 0 \in 0 .. n - i
    BY <1>3
  <2>3. QED BY <2>1, <2>2
<1>6. ASSUME NEW d \in 0 .. (n - i) - 1, d \in S PROVE d + 1 \in S
  <2> DEFINE k == i + d
  <2>1. /\ k \in 1 .. n /\ k + 1 \in 1 .. n /\ i <= k /\ i + (d + 1) = k + 1 /\ (k + 1) - 1 = k
        /\ d + 1 \in 0 .. n - i
    <3> HIDE DEF S
    <3>1. d \in Nat /\ d + 1 <= n - i
      BY <1>3
    <3>2. n \in Nat /\ i \in 1 .. n
      BY <1>3
    <3>3. /\ i + d \in 1 .. n /\ (i + d) + 1 \in 1 .. n /\ i <= i + d
          /\ i + (d + 1) = (i + d) + 1 /\ ((i + d) + 1) - 1 = i + d /\ d + 1 \in 0 .. n - i
      BY <3>1, <3>2, OneFurther
    <3>4. QED BY <3>3
  <2>2. Gone(c, F[k], i, k)
    BY <1>6
  <2> HIDE DEF k
  <2>3. F[k] \in Partial /\ F[k + 1] = ApplyRule(c, c.rules[k + 1], F[k])
    BY <1>4, <2>1
  <2>4. Gone(c, F[k + 1], i, k + 1)
    BY <1>3, <2>1, <2>2, <2>3, GoneStays
  <2>5. QED BY <2>1, <2>4
<1>7. \A d \in 0 .. n - i : d \in S
  <2>1. n - i \in Nat
    BY <1>3
  <2> HIDE DEF S
  <2>2. QED BY <1>5, <1>6, <2>1, Upwards
<1>8. n - i \in 0 .. n - i /\ i + (n - i) = n
  <2> HIDE DEF S
  <2>1. QED BY <1>3
<1>9. Gone(c, F[n], i, n)
  BY <1>7, <1>8
<1>10. QED BY <1>1, <1>9 DEF Stages, n

GoneInv ==
    /\ config \in Configs /\ answer \in Answers
    /\ phase = "received" => text = answer.text
    /\ RedactedForGood

LEMMA GoneStart == Init => GoneInv
BY DEF Init, GoneInv, RedactedForGood

LEMMA GoneNext == GoneInv /\ [Next]_vars => GoneInv'
<1> SUFFICES ASSUME GoneInv, [Next]_vars PROVE GoneInv'
  OBVIOUS
<1> USE DEF GoneInv
<1>1. CASE Sanitize
  <2> DEFINE result == Sanitized(config, text)
  <2>1. /\ phase' = "sanitized" /\ UNCHANGED <<config, answer>> /\ dangerous' = result.found
        /\ text' = IF text = <<>> THEN text ELSE result.text
        /\ text = answer.text
    BY <1>1 DEF Sanitize, request
  <2>2. text \in Seq(Marked)
    <3>1. text \in Seq(Letters) /\ Letters \subseteq Marked
      BY <2>1, ResponseAssumption DEF Marked
    <3>2. QED BY <3>1
  <2>3. ASSUME NEW i \in DOMAIN config.rules,
               Pattern(config.rules, config.rules[i].name) = config.rules[i].word,
               Effect(config, config.rules[i]) \in {"strip", "redact"}
        PROVE  \/ ~Holds(text', config.rules[i].word)
               \/ \E j \in i .. Len(config.rules) :
                     /\ Effect(config, config.rules[j]) = "strip"
                     /\ Contains(dangerous', config.rules[j].name)
    <3>1. Gone(config, result, i, Len(config.rules))
      BY <2>2, <2>3, SanitizedForGood
    <3> HIDE DEF result
    <3>2. CASE text = <<>>
      BY <2>1, <3>2 DEF Holds
    <3>3. CASE text # <<>>
      BY <2>1, <3>1, <3>3 DEF Gone
    <3>4. QED BY <3>2, <3>3
  <2>4. RedactedForGood'
    <3>1. \A i \in DOMAIN config.rules :
             (/\ config.rules[i].compiles
              /\ Pattern(config.rules, config.rules[i].name) = config.rules[i].word
              /\ Effect(config, config.rules[i]) \in {"strip", "redact"})
             => \/ ~Holds(text', config.rules[i].word)
                \/ \E j \in i .. Len(config.rules) :
                      /\ Effect(config, config.rules[j]) = "strip"
                      /\ Contains(dangerous', config.rules[j].name)
      BY <2>3
    <3>2. config' = config
      BY <2>1
    <3>3. QED BY <3>1, <3>2 DEF RedactedForGood
  <2>5. QED BY <2>1, <2>4
<1>2. CASE SkipThinking \/ Think \/ ThinkFails
  <2>1. /\ phase = "sanitized" /\ phase' = "verified"
        /\ UNCHANGED <<config, answer, text, dangerous>>
    BY <1>2 DEF SkipThinking, Think, ThinkFails, request
  <2>2. QED BY <2>1 DEF RedactedForGood
<1>3. CASE Block \/ Deliver
  <2>1. phase' \in {"blocked", "delivered"} /\ UNCHANGED <<config, answer>>
    BY <1>3 DEF Block, Deliver, request
  <2>2. QED BY <2>1 DEF RedactedForGood
<1>4. CASE UNCHANGED vars
  <2>1. UNCHANGED <<config, answer, phase, text, dangerous>>
    BY <1>4 DEF vars
  <2>2. QED BY <2>1 DEF RedactedForGood
<1>5. QED BY <1>1, <1>2, <1>3, <1>4 DEF Next

\* What a rule strips or redacts is not in the sanitized text, however the later rules rewrite
\* it, unless a rule that strips has closed up the text around a match
\* (IngestionSanitizer.sanitize).  For any list of rules and any text.
THEOREM RedactionsStay == Spec => []RedactedForGood
<1>1. GoneInv => RedactedForGood
  BY DEF GoneInv
<1>2. QED BY <1>1, GoneStart, GoneNext, PTL DEF Spec

-----------------------------------------------------------------------------
(* LowTrustIsVerified *)

MustBeVerified == trust < config.threshold \/ action \in config.mandatory

\* Between the verifier and output control, the text is one the Guardian was asked about.
VerifiedInv ==
    /\ phase = "verified" /\ MustBeVerified => text \in asked
    /\ LowTrustIsVerified

LEMMA VerifiedStart == Init => VerifiedInv
BY DEF Init, VerifiedInv, LowTrustIsVerified

LEMMA VerifiedNext == VerifiedInv /\ [Next]_vars => VerifiedInv'
<1> SUFFICES ASSUME VerifiedInv, [Next]_vars PROVE VerifiedInv'
  OBVIOUS
<1> USE DEF VerifiedInv, LowTrustIsVerified, MustBeVerified
<1>1. CASE Sanitize
  BY <1>1 DEF Sanitize
<1>2. CASE SkipThinking
  BY <1>2 DEF SkipThinking, ShouldRun, request
<1>3. CASE Think
  BY <1>3 DEF Think, request
<1>4. CASE ThinkFails
  BY <1>4 DEF ThinkFails, request
<1>5. CASE Block
  BY <1>5 DEF Block, request
<1>6. CASE Deliver
  <2>1. /\ phase = "verified" /\ phase' = "delivered" /\ controlled' = text
        /\ UNCHANGED <<config, trust, action, asked>>
    BY <1>6 DEF Deliver, request
  <2>2. QED BY <2>1
<1>7. CASE UNCHANGED vars
  BY <1>7 DEF vars
<1>8. QED BY <1>1, <1>2, <1>3, <1>4, <1>5, <1>6, <1>7 DEF Next

\* An answer to a request of low trust, or of a mandatory action, reaches output control only
\* after the Guardian was asked about the very text it then is (LLMProxy.forward_request).
THEOREM LowTrustIsSeen == Spec => []LowTrustIsVerified
<1>1. VerifiedInv => LowTrustIsVerified
  BY DEF VerifiedInv
<1>2. QED BY <1>1, VerifiedStart, VerifiedNext, PTL DEF Spec

-----------------------------------------------------------------------------
(* HardStopsHold *)

\* A field without a complaint is one its schema wants, as far as the validator goes.
LEMMA NoErrorsSuit ==
    ASSUME NEW v, NEW want, v.size \in Int, want.most \in Int,
           want.type \in {"string", "integer", "array", "object"},
           \A i \in DOMAIN v.items : v.items[i].type = "object" => v.items[i].size \in {0, 1},
           FieldErrors(v, want) = {}
    PROVE  Suits(v, want)
<1>1. IsType(v, want.type)
  BY DEF FieldErrors
<1>2. v.type = want.type
  BY <1>1 DEF IsType
<1>3. /\ ~(\/ v.type = "string" /\ v.size > want.most
           \/ v.type \in {"integer", "boolean"} /\ v.size \notin want.least .. want.most)
      /\ ~\E i \in DOMAIN v.items :
             \/ ~IsType(v.items[i], want.item)
             \/ want.item = "object" /\ v.items[i].type = "object" /\ v.items[i].size = 0
  BY <1>1 DEF FieldErrors
<1>4. v.type = "string" => v.size <= want.most
  BY <1>3
<1>5. ASSUME NEW i \in DOMAIN v.items
      PROVE  /\ want.item # "any" => v.items[i].type = want.item
             /\ want.item = "object" => v.items[i].size = 1
  <2>1. want.item # "any" => v.items[i].type = want.item
    BY <1>3 DEF IsType
  <2>2. want.item = "object" => v.items[i].size # 0 /\ v.items[i].size \in {0, 1}
    BY <1>3, <2>1
  <2>3. QED BY <2>1, <2>2
<1>6. QED BY <1>2, <1>3, <1>4, <1>5 DEF Suits

\* A text with no complaint is one its schema wants.
LEMMA NoErrorsFit ==
    ASSUME NEW a \in Answers, a.schema # NoSchema, NEW t, SchemaErrors(a, t) = {}
    PROVE  Fits(a, t)
<1> DEFINE doc == Parsed(a, t).doc
<1>1. Parsed(a, t).kind = "object"
  BY DEF SchemaErrors
<1>2. /\ {"missing" : f \in {g \in DOMAIN a.schema : a.schema[g].required} \ DOMAIN doc} = {}
      /\ UNION {FieldErrors(doc[f], a.schema[f]) : f \in DOMAIN a.schema \cap DOMAIN doc} = {}
  BY <1>1 DEF SchemaErrors
<1>3. t \in DOMAIN a.reads /\ doc = a.reads[t].doc
  BY <1>1 DEF Parsed
<1>4. ASSUME NEW f \in DOMAIN a.schema, a.schema[f].required PROVE f \in DOMAIN doc
  BY <1>2, <1>4
<1>5. ASSUME NEW f \in DOMAIN a.schema \cap DOMAIN doc PROVE Suits(doc[f], a.schema[f])
  <2>1. FieldErrors(doc[f], a.schema[f]) = {}
    BY <1>2, <1>5
  <2>2. /\ doc[f].size \in Int /\ a.schema[f].most \in Int
        /\ a.schema[f].type \in {"string", "integer", "array", "object"}
        /\ \A i \in DOMAIN doc[f].items :
              doc[f].items[i].type = "object" => doc[f].items[i].size \in {0, 1}
    <3>1. a.schema[f].most \in Int /\ a.schema[f].type \in {"string", "integer", "array", "object"}
      BY <1>5, ResponseAssumption
    <3> DEFINE v == a.reads[t].doc[f]
    <3>2. f \in DOMAIN a.reads[t].doc /\ doc[f] = v
      BY <1>3, <1>5
    <3>3. /\ v.size \in Int
          /\ \A i \in DOMAIN v.items : v.items[i].type = "object" => v.items[i].size \in {0, 1}
      BY <1>3, <3>2, ResponseAssumption
    <3> HIDE DEF doc, v
    <3>4. QED BY <3>1, <3>2, <3>3
  <2> HIDE DEF doc
  <2>3. QED BY <2>1, <2>2, NoErrorsSuit
<1>6. QED BY <1>1, <1>4, <1>5 DEF Fits

StopInv == config \in Configs /\ answer \in Answers /\ HardStopsHold

LEMMA StopStart == Init => StopInv
BY DEF Init, StopInv, HardStopsHold

LEMMA StopNext == StopInv /\ [Next]_vars => StopInv'
<1> SUFFICES ASSUME StopInv, [Next]_vars PROVE StopInv'
  OBVIOUS
<1> USE DEF StopInv
<1>1. CASE Deliver
  <2>1. /\ phase' = "delivered" /\ controlled' = text /\ UNCHANGED <<config, answer>>
        /\ text # <<>> => ~HardStop(config, answer, text)
    BY <1>1 DEF Deliver, request
  <2>2. ASSUME text # <<>>, config.schemaRule = "hard_stop", answer.schema # NoSchema
        PROVE  Fits(answer, text)
    <3>1. SchemaErrors(answer, text) = {}
      BY <2>1, <2>2 DEF HardStop
    <3>2. QED BY <2>2, <3>1, NoErrorsFit
  <2>3. text # <<>> /\ config.scriptRule = "hard_stop" => ~HasScript(text)
    BY <2>1 DEF HardStop
  <2>4. QED BY <2>1, <2>2, <2>3 DEF HardStopsHold
<1>2. CASE Sanitize \/ SkipThinking \/ Think \/ ThinkFails \/ Block
  <2>1. phase' # "delivered" /\ UNCHANGED <<config, answer>>
    BY <1>2 DEF Sanitize, SkipThinking, Think, ThinkFails, Block, request
  <2>2. QED BY <2>1 DEF HardStopsHold
<1>3. CASE UNCHANGED vars
  <2>1. UNCHANGED <<config, answer, phase, controlled>>
    BY <1>3 DEF vars
  <2>2. QED BY <2>1 DEF HardStopsHold
<1>4. QED BY <1>1, <1>2, <1>3 DEF Next

\* With the schema rule on hard_stop only a text whose fields, as the sanitizer has left them,
\* have the types and limits the validator knows is let through, with the script rule no text
\* that had a script in it (OutputController.validate_response).
THEOREM HardStopsStop == Spec => []HardStopsHold
<1>1. StopInv => HardStopsHold
  BY DEF StopInv
<1>2. QED BY <1>1, StopStart, StopNext, PTL DEF Spec

-----------------------------------------------------------------------------
(* CondemnedIsOnRecord *)

Events == {"warn", "allow", "block"}
              \X {"ingestion_sanitizer", "thinking_mode_verifier", "output_control", "proxy"}

LEMMA ConcatContains ==
    ASSUME NEW X, NEW s \in Seq(X), NEW r \in Seq(X)
    PROVE  s \o r \in Seq(X) /\ \A d : Contains(s, d) => Contains(s \o r, d)
<1>1. /\ s \o r \in Seq(X) /\ Len(s \o r) = Len(s) + Len(r) /\ Len(s) \in Nat /\ Len(r) \in Nat
      /\ \A i \in 1 .. Len(s) : (s \o r)[i] = s[i]
  OBVIOUS
<1>2. \A i \in 1 .. Len(s) : i \in 1 .. Len(s \o r)
  BY <1>1
<1>3. QED BY <1>1, <1>2 DEF Contains

\* An event of the verifier or none: nothing is taken from the log.
LEMMA NotedEvents ==
    ASSUME events \in Seq(Events), NEW decision, Noted(decision)
    PROVE  /\ events' \in Seq(Events)
           /\ \A d : Contains(events, d) => Contains(events', d)
           /\ decision = "block" => Contains(events', Warn("thinking_mode_verifier"))
           /\ component' \in {component, "thinking_mode_verifier"}
<1> SUFFICES /\ events' \in Seq(Events)
             /\ \A d : Contains(events, d) => Contains(events', d)
             /\ decision = "block" => Contains(events', Warn("thinking_mode_verifier"))
  BY DEF Noted
<1>1. Warn("thinking_mode_verifier") \in Events /\ <<"allow", "thinking_mode_verifier">> \in Events
  BY DEF Events, Warn
<1>2. CASE decision \in {"block", "warning"}
  <2>1. events' = Append(events, Warn("thinking_mode_verifier"))
    BY <1>2 DEF Noted
  <2>2. QED BY <1>1, <2>1, AppendContains, AppendProperties
<1>3. CASE decision = "allow" /\ config.logAll
  <2>1. events' = Append(events, <<"allow", "thinking_mode_verifier">>)
    BY <1>3 DEF Noted
  <2>2. QED BY <1>1, <1>3, <2>1, AppendContains, AppendProperties
<1>4. CASE decision \notin {"block", "warning"} /\ ~(decision = "allow" /\ config.logAll)
  <2>1. events' = events
    BY <1>4 DEF Noted
  <2>2. QED BY <1>4, <2>1
<1>5. QED BY <1>2, <1>3, <1>4

\* An answer with the score tag "no" before any other has one decision, to block.
LEMMA TagDecides ==
    ASSUME NEW c, NEW X, NEW content \in Seq(X), NEW i \in DOMAIN content, content[i] = "<no>",
           \A j \in 1 .. i - 1 : content[j] \notin Tags
    PROVE  Decisions(c, content) = {"block"}
<1> DEFINE I == {k \in 1 .. Len(content) : content[k] \in Tags}
           first == SelectInSeq(content, LAMBDA w : w \in Tags)
<1>1. i \in I /\ I \subseteq Nat /\ \A k \in I : k >= i
  <2>1. i \in 1 .. Len(content) /\ Len(content) \in Nat
    OBVIOUS
  <2>2. i \in I
    BY <2>1 DEF Tags
  <2>3. ASSUME NEW k \in I PROVE k >= i
    <3>1. k \in Nat /\ k >= 1 /\ k \notin 1 .. i - 1
      OBVIOUS
    <3>2. QED BY <2>1, <3>1
  <2>4. QED BY <2>2, <2>3
<1>2. first = IF I # {} THEN Min(I) ELSE 0
  BY DEF SelectInSeq
<1> HIDE DEF I, first
<1>3. first = i /\ i > 0
  <2>1. Min(I) \in I /\ \A n \in I : Min(I) <= n
    BY <1>1, LeastOf
  <2>2. QED BY <1>1, <1>2, <2>1
<1>4. ParseScore(content) = Score("<no>")
  BY <1>3 DEF ParseScore, first
<1>5. QED BY <1>4 DEF Score, Decisions

RecordInv ==
    /\ events \in Seq(Events) /\ CondemnedIsOnRecord
    /\ component \in {"thinking_mode_verifier", "output_control", "proxy"}

LEMMA RecordStart == Init => RecordInv
BY DEF Init, RecordInv, CondemnedIsOnRecord

LEMMA RecordNext == RecordInv /\ [Next]_vars => RecordInv'
<1> SUFFICES ASSUME RecordInv, [Next]_vars PROVE RecordInv'
  OBVIOUS
<1> USE DEF RecordInv
<1>1. CASE Sanitize
  <2>1. /\ events' = Append(events, Warn("ingestion_sanitizer")) \/ events' = events
        /\ condemned' = condemned /\ component' = component
    BY <1>1 DEF Sanitize
  <2>2. Warn("ingestion_sanitizer") \in Events
    BY DEF Events, Warn
  <2>3. CASE events' = events
    BY <2>1, <2>3 DEF CondemnedIsOnRecord
  <2>4. CASE events' = Append(events, Warn("ingestion_sanitizer"))
    BY <2>1, <2>2, <2>4, AppendContains, AppendProperties DEF CondemnedIsOnRecord
  <2>5. QED BY <2>1, <2>3, <2>4
<1>2. CASE SkipThinking
  BY <1>2 DEF SkipThinking, CondemnedIsOnRecord
<1>3. CASE Think
  <2>1. PICK content \in Contents : \E decision \in Decisions(config, content) :
           /\ Noted(decision)
           /\ condemned' = \E i \in DOMAIN content :
                  content[i] = "<no>" /\ \A j \in 1 .. i - 1 : content[j] \notin Tags
    BY <1>3 DEF Think
  <2>2. PICK decision \in Decisions(config, content) :
           /\ Noted(decision)
           /\ condemned' = \E i \in DOMAIN content :
                  content[i] = "<no>" /\ \A j \in 1 .. i - 1 : content[j] \notin Tags
    BY <2>1
  <2>3. CASE condemned'
    <3>1. PICK i \in DOMAIN content :
             content[i] = "<no>" /\ \A j \in 1 .. i - 1 : content[j] \notin Tags
      BY <2>2, <2>3
    <3>2. content \in Seq({"<yes>", "<no>", "yes", "no", "prose"})
      BY ResponseAssumption
    <3>3. decision = "block"
      BY <2>2, <3>1, <3>2, TagDecides
    <3>4. QED BY <2>2, <3>3, NotedEvents DEF CondemnedIsOnRecord
  <2>4. CASE ~condemned'
    BY <2>2, <2>4, NotedEvents DEF CondemnedIsOnRecord
  <2>5. QED BY <2>3, <2>4
<1>4. CASE ThinkFails
  <2>1. PICK decision \in OnFailure(config) : Noted(decision)
    BY <1>4 DEF ThinkFails
  <2>2. condemned' = condemned
    BY <1>4 DEF ThinkFails
  <2>3. QED BY <2>1, <2>2, NotedEvents DEF CondemnedIsOnRecord
<1>5. CASE Block
  <2>1. /\ events' = Append(events, <<"block", "output_control">>) /\ condemned' = condemned
        /\ component' = "output_control"
    BY <1>5 DEF Block
  <2>2. <<"block", "output_control">> \in Events
    BY DEF Events
  <2>3. QED BY <2>1, <2>2, AppendContains, AppendProperties DEF CondemnedIsOnRecord
<1>6. CASE Deliver
  <2> DEFINE errors == IF text = <<>> THEN {} ELSE SchemaErrors(answer, text)
             complaints == IF errors = {} \/ Rewritten(text) = text THEN <<>>
                           ELSE IF config.schemaRule = "absent" THEN <<Warn("output_control")>>
                           ELSE <<Warn("output_control"), Warn("output_control")>>
  <2>1. /\ events' = events \o complaints \o <<<<"allow", component>>>> /\ condemned' = condemned
        /\ component' = component
    BY <1>6 DEF Deliver
  <2>2. complaints \in Seq(Events)
    <3>1. Warn("output_control") \in Events
      BY DEF Events, Warn
    <3>2. /\ <<Warn("output_control")>> \in Seq(Events)
          /\ <<Warn("output_control"), Warn("output_control")>> \in Seq(Events)
          /\ <<>> \in Seq(Events)
      BY <3>1
    <3>3. QED BY <3>2
  <2>3. <<<<"allow", component>>>> \in Seq(Events)
    <3>1. <<"allow", component>> \in Events
      BY DEF Events
    <3>2. QED BY <3>1
  <2> HIDE DEF complaints
  <2>4. /\ events \o complaints \in Seq(Events)
        /\ \A d : Contains(events, d) => Contains(events \o complaints, d)
    BY <2>2, ConcatContains
  <2>5. /\ events' \in Seq(Events)
        /\ \A d : Contains(events \o complaints, d) => Contains(events', d)
    BY <2>1, <2>3, <2>4, ConcatContains
  <2>6. QED BY <2>1, <2>4, <2>5 DEF CondemnedIsOnRecord
<1>7. CASE UNCHANGED vars
  BY <1>7 DEF vars, CondemnedIsOnRecord
<1>8. QED BY <1>1, <1>2, <1>3, <1>4, <1>5, <1>6, <1>7 DEF Next

\* An answer of the Guardian whose score tag says no leaves a warning, whatever its prose says
\* before, and no later event takes it from the log (parse_score, LLMProxy.forward_request).
THEOREM CondemnedIsWarned == Spec => []CondemnedIsOnRecord
<1>1. RecordInv => CondemnedIsOnRecord
  BY DEF RecordInv
<1>2. QED BY <1>1, RecordStart, RecordNext, PTL DEF Spec

-----------------------------------------------------------------------------
(***************************************************************************)
(* QuotedReadsBack.  The recursive function of ShellWord exists; read[p] is *)
(* what the shell reads from the p-th letter on, outside and inside quotes. *)
(***************************************************************************)
ReadAt(t, g, i) ==
    LET next(mode) == IF mode = "bare" THEN "quoted" ELSE "bare" IN
    [mode \in {"bare", "quoted"} |->
        IF i > Len(t) THEN IF mode = "bare" THEN <<>> ELSE <<"open">>
        ELSE IF t[i] = "quote" THEN g[i + 1][next(mode)]
        ELSE IF mode = "quoted" THEN <<t[i]>> \o g[i + 1][mode]
        ELSE CASE t[i] = "command"   -> <<"run">> \o g[i + 1][mode]
               [] t[i] = "backslash" -> IF i = Len(t) THEN <<"open">>
                                        ELSE <<t[i + 1]>> \o g[i + 2][mode]
               [] OTHER              -> <<t[i]>> \o g[i + 1][mode]]

LEMMA ShellWordIs ==
    ASSUME NEW t, NEW F, F = [i \in 1 .. Len(t) + 1 |-> ReadAt(t, F, i)]
    PROVE  \E R : /\ ShellWord(t) = R[1]["bare"]
                  /\ R = [i \in 1 .. Len(t) + 1 |-> ReadAt(t, R, i)]
<1> DEFINE R == CHOOSE f : f = [i \in 1 .. Len(t) + 1 |-> ReadAt(t, f, i)]
<1>1. ShellWord(t) = R[1]["bare"]
  BY Zenon DEF ShellWord, ReadAt
<1>2. R = [i \in 1 .. Len(t) + 1 |-> ReadAt(t, R, i)]
  BY Zenon
<1>3. QED BY <1>1, <1>2, Zenon

\* What is read from a place on depends on what is read from the later ones only.
LEMMA ReadLooksAhead ==
    ASSUME NEW X, NEW t \in Seq(X), NEW i \in 1 .. Len(t) + 1, NEW g, NEW h,
           \A k \in i + 1 .. Len(t) + 1 : g[k] = h[k]
    PROVE  ReadAt(t, g, i) = ReadAt(t, h, i)
<1>1. Len(t) \in Nat
  OBVIOUS
<1>2. CASE i > Len(t)
  BY <1>2 DEF ReadAt
<1>3. CASE i = Len(t)
  <2>1. g[i + 1] = h[i + 1]
    BY <1>1, <1>3
  <2>2. QED BY <1>3, <2>1 DEF ReadAt
<1>4. CASE i < Len(t)
  <2>1. g[i + 1] = h[i + 1] /\ g[i + 2] = h[i + 2]
    BY <1>1, <1>4
  <2>2. QED BY <2>1 DEF ReadAt
<1>5. QED BY <1>1, <1>2, <1>3, <1>4

Reads(R, t) ==
    /\ ShellWord(t) = R[1]["bare"]
    /\ \A i \in 1 .. Len(t) + 1 : R[i] = ReadAt(t, R, i)

LEMMA ShellWordReads ==
    ASSUME NEW X, NEW t \in Seq(X)
    PROVE  \E R : Reads(R, t)
<1> DEFINE N == Len(t)
           S == {k \in 0 .. N : \E g : \A i \in N + 1 - k .. N + 1 : g[i] = ReadAt(t, g, i)}
<1>1. N \in Nat
  OBVIOUS
<1>2. 0 \in S
  <2> DEFINE g == [i \in {N + 1} |-> ReadAt(t, <<>>, i)]
  <2>1. g[N + 1] = ReadAt(t, <<>>, N + 1)
    OBVIOUS
  <2> HIDE DEF g
  <2>2. ReadAt(t, <<>>, N + 1) = ReadAt(t, g, N + 1)
    <3>1. N + 1 \in 1 .. N + 1 /\ \A k \in (N + 1) + 1 .. N + 1 : <<>>[k] = g[k]
      BY <1>1
    <3>2. QED BY <3>1, ReadLooksAhead
  <2>3. \A i \in N + 1 - 0 .. N + 1 : i = N + 1
    BY <1>1
  <2>4. \A i \in N + 1 - 0 .. N + 1 : g[i] = ReadAt(t, g, i)
    BY <2>1, <2>2, <2>3
  <2>5. 0 \in 0 .. N
    BY <1>1
  <2>6. QED BY <2>4, <2>5
<1>3. ASSUME NEW k \in 0 .. N - 1, k \in S PROVE k + 1 \in S
  <2> DEFINE m == N - k
  <2>1. PICK g : \A i \in N + 1 - k .. N + 1 : g[i] = ReadAt(t, g, i)
    BY <1>3
  <2> DEFINE h == [i \in m .. N + 1 |-> IF i = m THEN ReadAt(t, g, m) ELSE g[i]]
  <2>2. m \in 1 .. N /\ N + 1 - k = m + 1 /\ N + 1 - (k + 1) = m /\ k + 1 \in 0 .. N
    BY <1>1
  <2>3. (\A i \in m + 1 .. N + 1 : h[i] = g[i]) /\ h[m] = ReadAt(t, g, m)
    BY <1>1, <2>2
  <2>4. \A i \in m + 1 .. N + 1 : g[i] = ReadAt(t, g, i)
    BY <2>1, <2>2
  <2> HIDE DEF h, m
  <2>5. ASSUME NEW i \in m .. N + 1 PROVE h[i] = ReadAt(t, h, i)
    <3>1. /\ i \in 1 .. N + 1
          /\ \A j \in i + 1 .. N + 1 : g[j] = h[j]
      BY <1>1, <2>2, <2>3
    <3>2. ReadAt(t, g, i) = ReadAt(t, h, i)
      BY <3>1, ReadLooksAhead
    <3>3. CASE i = m
      BY <2>3, <3>2, <3>3
    <3>4. CASE i # m
      <4>1. i \in m + 1 .. N + 1
        BY <1>1, <2>2, <3>4
      <4>2. QED BY <2>3, <2>4, <3>2, <4>1
    <3>5. QED BY <3>3, <3>4
  <2>6. \A i \in N + 1 - (k + 1) .. N + 1 : h[i] = ReadAt(t, h, i)
    BY <2>2, <2>5
  <2>7. QED BY <2>2, <2>6
<1>4. \A k \in 0 .. N : k \in S
  <2> HIDE DEF S, N
  <2>1. QED BY <1>1, <1>2, <1>3, Upwards
<1>5. PICK g : \A i \in 1 .. N + 1 : g[i] = ReadAt(t, g, i)
  <2>1. N \in 0 .. N /\ N + 1 - N = 1
    BY <1>1
  <2>2. N \in S
    BY <1>4, <2>1
  <2>3. QED BY <2>1, <2>2
<1> DEFINE F == [i \in 1 .. N + 1 |-> g[i]]
<1>6. \A i \in 1 .. N + 1 : F[i] = g[i]
  OBVIOUS
<1> HIDE DEF F
<1>7. ASSUME NEW i \in 1 .. N + 1 PROVE F[i] = ReadAt(t, F, i)
  <2>1. \A j \in i + 1 .. N + 1 : g[j] = F[j]
    BY <1>1, <1>6
  <2>2. ReadAt(t, g, i) = ReadAt(t, F, i)
    BY <2>1, ReadLooksAhead
  <2>3. QED BY <1>5, <1>6, <2>2
<1>8. F = [i \in 1 .. N + 1 |-> ReadAt(t, F, i)]
  BY <1>7 DEF F
<1>9. PICK R : /\ ShellWord(t) = R[1]["bare"]
               /\ R = [i \in 1 .. N + 1 |-> ReadAt(t, R, i)]
  BY <1>8, ShellWordIs
<1>10. \A i \in 1 .. N + 1 : R[i] = ReadAt(t, R, i)
  BY <1>9
<1>11. QED BY <1>9, <1>10 DEF Reads

LEMMA ReadsEscape ==
    ASSUME NEW t, NEW g, NEW i, ~(i > Len(t)), t[i] = "backslash", i # Len(t)
    PROVE  ReadAt(t, g, i)["bare"] = <<t[i + 1]>> \o g[i + 2]["bare"]
BY DEF ReadAt

\* What a shell in its quotes reads next: a quote that was escaped, a letter, or the end.
LEMMA ReadsQuote ==
    ASSUME NEW X, NEW t \in Seq(X), NEW R, Reads(R, t), NEW p \in Nat, p >= 1, p + 3 < Len(t),
           t[p] = "quote", t[p + 1] = "backslash", t[p + 2] = "quote", t[p + 3] = "quote"
    PROVE  R[p]["quoted"] = <<"quote">> \o R[p + 4]["quoted"]
<1>1. /\ p \in 1 .. Len(t) + 1 /\ p + 1 \in 1 .. Len(t) + 1 /\ p + 3 \in 1 .. Len(t) + 1
      /\ ~(p > Len(t)) /\ ~(p + 1 > Len(t)) /\ ~(p + 3 > Len(t)) /\ p + 1 # Len(t)
      /\ (p + 1) + 1 = p + 2 /\ (p + 1) + 2 = p + 3 /\ (p + 3) + 1 = p + 4
  <2>1. Len(t) \in Nat
    OBVIOUS
  <2>2. QED BY <2>1
<1>2. R[p] = ReadAt(t, R, p) /\ R[p + 1] = ReadAt(t, R, p + 1) /\ R[p + 3] = ReadAt(t, R, p + 3)
  BY <1>1 DEF Reads
<1>3. R[p]["quoted"] = R[p + 1]["bare"]
  BY <1>1, <1>2 DEF ReadAt
<1>4. R[p + 1]["bare"] = <<t[p + 2]>> \o R[p + 3]["bare"]
  <2>1. ReadAt(t, R, p + 1)["bare"] = <<t[(p + 1) + 1]>> \o R[(p + 1) + 2]["bare"]
    BY <1>1, ReadsEscape
  <2>2. QED BY <1>1, <1>2, <2>1
<1>5. R[p + 3]["bare"] = R[p + 4]["quoted"]
  BY <1>1, <1>2 DEF ReadAt
<1>6. QED BY <1>3, <1>4, <1>5

LEMMA ReadsLetter ==
    ASSUME NEW X, NEW t \in Seq(X), NEW R, Reads(R, t), NEW p \in Nat, p >= 1, p < Len(t),
           t[p] # "quote"
    PROVE  R[p]["quoted"] = <<t[p]>> \o R[p + 1]["quoted"]
<1>1. p \in 1 .. Len(t) + 1 /\ ~(p > Len(t))
  <2>1. Len(t) \in Nat
    OBVIOUS
  <2>2. QED BY <2>1
<1>2. R[p] = ReadAt(t, R, p)
  BY <1>1 DEF Reads
<1>3. QED BY <1>1, <1>2 DEF ReadAt

LEMMA ReadsEnd ==
    ASSUME NEW X, NEW t \in Seq(X), NEW R, Reads(R, t), NEW p \in Nat, p >= 1, p = Len(t),
           t[p] = "quote"
    PROVE  R[p]["quoted"] = <<>>
<1>1. p \in 1 .. Len(t) + 1 /\ p + 1 \in 1 .. Len(t) + 1 /\ ~(p > Len(t)) /\ p + 1 > Len(t)
  OBVIOUS
<1>2. R[p] = ReadAt(t, R, p) /\ R[p + 1] = ReadAt(t, R, p + 1)
  BY <1>1 DEF Reads
<1>3. R[p]["quoted"] = R[p + 1]["bare"]
  BY <1>1, <1>2 DEF ReadAt
<1>4. R[p + 1]["bare"] = <<>>
  BY <1>1, <1>2 DEF ReadAt
<1>5. QED BY <1>3, <1>4

Quoted == <<"quote", "backslash", "quote", "quote">>

\* r is s with n letters before it.
Prefixed(r, s, n) == Len(r) = Len(s) + n /\ \A j \in 1 .. Len(s) : r[j + n] = s[j]

LEMMA Joined ==
    ASSUME NEW X, NEW u \in Seq(X), NEW s \in Seq(X)
    PROVE  Prefixed(u \o s, s, Len(u)) /\ \A j \in 1 .. Len(u) : (u \o s)[j] = u[j]
BY DEF Prefixed

LEMMA FourMore ==
    ASSUME NEW X, "quote" \in X, "backslash" \in X, NEW s \in Seq(X)
    PROVE  /\ Prefixed(Quoted \o s, s, 4)
           /\ (Quoted \o s)[1] = "quote" /\ (Quoted \o s)[2] = "backslash"
           /\ (Quoted \o s)[3] = "quote" /\ (Quoted \o s)[4] = "quote"
<1>1. Quoted \in Seq(X) /\ Len(Quoted) = 4 /\ Quoted[1] = "quote" /\ Quoted[2] = "backslash"
      /\ Quoted[3] = "quote" /\ Quoted[4] = "quote"
  BY DEF Quoted
<1>2. Prefixed(Quoted \o s, s, Len(Quoted)) /\ \A j \in 1 .. Len(Quoted) : (Quoted \o s)[j] = Quoted[j]
  BY <1>1, Joined, Zenon
<1>3. Prefixed(Quoted \o s, s, 4) /\ \A j \in 1 .. 4 : (Quoted \o s)[j] = Quoted[j]
  BY <1>1, <1>2, Zenon
<1>4. 1 \in 1 .. 4 /\ 2 \in 1 .. 4 /\ 3 \in 1 .. 4 /\ 4 \in 1 .. 4
  OBVIOUS
<1>5. QED BY <1>1, <1>3, <1>4, Zenon

OneQuote == <<"quote">>

\* T holds the first d letters of s from its p-th on.
Agrees(T, p, s, d) == \A j \in 1 .. d : T[p + j - 1] = s[j]

\* Where the quoted text T holds what becomes of t from the i-th letter on, with the closing
\* quote after it, the shell inside its quotes reads t from the i-th letter on.
Stands(T, G, i, p) ==
    /\ p \in Nat /\ p >= 1 /\ Len(T) = p + Len(G[i]) /\ T[Len(T)] = "quote"
    /\ Agrees(T, p, G[i], Len(G[i]))

\* d letters further on.
LEMMA StandsFurther ==
    ASSUME NEW X, NEW T \in Seq(X), NEW G, NEW i, NEW k, NEW p, Stands(T, G, i, p), NEW d \in Nat,
           G[k] \in Seq(X), Prefixed(G[i], G[k], d)
    PROVE  /\ Stands(T, G, k, p + d) /\ p \in Nat /\ p >= 1 /\ p + d <= Len(T)
           /\ Agrees(T, p, G[i], d)
<1>1. Len(T) \in Nat /\ Len(G[k]) \in Nat
  OBVIOUS
<1>2. p \in Nat /\ p >= 1 /\ Len(T) = p + Len(G[i])
  BY DEF Stands
<1>3. T[Len(T)] = "quote" /\ \A j \in 1 .. Len(G[i]) : T[p + j - 1] = G[i][j]
  BY DEF Stands, Agrees
<1>4. Len(G[i]) = Len(G[k]) + d
  BY DEF Prefixed
<1>5. Len(T) = (p + d) + Len(G[k]) /\ p + d \in Nat /\ p + d >= 1 /\ p + d <= Len(T)
  <2>1. ASSUME NEW l \in Nat, NEW m \in Nat, NEW g, g = m + d, l = p + g
        PROVE  l = (p + d) + m /\ p + d \in Nat /\ p + d >= 1 /\ p + d <= l
    BY <1>2, <2>1
  <2>2. QED BY <1>1, <1>2, <1>4, <2>1
<1>6. \A j \in 1 .. d : j \in 1 .. Len(G[i])
  BY <1>1, <1>4
<1>7. ASSUME NEW j \in 1 .. Len(G[k]) PROVE T[(p + d) + j - 1] = G[k][j]
  <2>1. j + d \in 1 .. Len(G[i]) /\ (p + d) + j - 1 = p + (j + d) - 1
    BY <1>1, <1>2, <1>4
  <2>2. G[i][j + d] = G[k][j]
    BY DEF Prefixed
  <2>3. QED BY <1>3, <2>1, <2>2
<1>8. Stands(T, G, k, p + d)
  BY <1>3, <1>5, <1>7 DEF Stands, Agrees
<1>9. Agrees(T, p, G[i], d)
  BY <1>3, <1>6 DEF Agrees
<1>10. QED BY <1>2, <1>5, <1>8, <1>9

LEMMA QuotedFrom ==
    ASSUME NEW X, "quote" \in X, "backslash" \in X, NEW t \in Seq(X), NEW T \in Seq(X),
           NEW G, Rewrites(G, X, OneQuote, Quoted, t), NEW R, Reads(R, T)
    PROVE  \A i \in 1 .. Len(t) + 1 : \A p :
              Stands(T, G, i, p) => R[p]["quoted"] = SubSeq(t, i, Len(t))
<1> DEFINE N == Len(t) + 1
           Good(i) == \A p : Stands(T, G, i, p) => R[p]["quoted"] = SubSeq(t, i, Len(t))
           S == {i \in 1 .. N : Good(i)}
<1>1. N \in Nat /\ Len(t) \in Nat /\ Len(T) \in Nat
  OBVIOUS
<1>2. ASSUME NEW i \in 1 .. N, \A k \in i + 1 .. N : k \in S PROVE Good(i)
  <2> SUFFICES ASSUME NEW p, Stands(T, G, i, p)
               PROVE  R[p]["quoted"] = SubSeq(t, i, Len(t))
    OBVIOUS
  <2>1. G[i] = After(OneQuote, Quoted, t, G, i)
    BY DEF Rewrites
  <2>2. Len(OneQuote) = 1 /\ (Occurs(OneQuote, t, i) <=> i <= Len(t) /\ t[i] = "quote")
    <3>1. Len(OneQuote) = 1 /\ DOMAIN OneQuote = {1} /\ OneQuote[1] = "quote"
      BY DEF OneQuote
    <3> HIDE DEF OneQuote
    <3>2. i + 1 - 1 = i
      OBVIOUS
    <3>3. QED BY <3>1, <3>2 DEF Occurs
  <2>3. CASE i > Len(t)
    <3>1. G[i] = <<>>
      BY <2>1, <2>3 DEF After
    <3>2. p \in Nat /\ p >= 1 /\ p = Len(T) /\ T[p] = "quote"
      <4>1. Len(G[i]) = 0
        BY <3>1
      <4>2. p \in Nat /\ p >= 1 /\ Len(T) = p + Len(G[i]) /\ T[Len(T)] = "quote"
        BY DEF Stands
      <4>3. QED BY <4>1, <4>2
    <3>3. R[p]["quoted"] = <<>>
      BY <3>2, ReadsEnd
    <3>4. SubSeq(t, i, Len(t)) = <<>>
      BY <1>1, <2>3, SubSeqEmpty
    <3>5. QED BY <3>3, <3>4
  <2>4. ASSUME i <= Len(t)
        PROVE  /\ Good(i + 1) /\ G[i + 1] \in Seq(X) /\ t[i] \in X
               /\ SubSeq(t, i, Len(t)) = <<t[i]>> \o SubSeq(t, i + 1, Len(t))
    <3>1. i + 1 \in 1 .. N /\ i + 1 \in i + 1 .. N /\ i \in 1 .. Len(t) /\ Len(t) \in i .. Len(t)
      BY <1>1, <2>4
    <3>2. G[i + 1] \in Seq(X)
      BY <3>1 DEF Rewrites
    <3>3. SubSeq(t, i, Len(t)) = <<t[i]>> \o SubSeq(t, i + 1, Len(t))
      BY <3>1, SubSeqRecursiveFirst
    <3>4. Good(i + 1)
      BY <1>2, <3>1
    <3>5. QED BY <3>1, <3>2, <3>3, <3>4
  <2> HIDE DEF N, S
  <2>5. CASE i <= Len(t) /\ t[i] = "quote"
    <3>1. G[i] = Quoted \o G[i + 1]
      BY <1>1, <2>1, <2>2, <2>5 DEF After
    <3>2. G[i + 1] \in Seq(X)
      BY <2>4, <2>5
    <3>3. /\ Prefixed(G[i], G[i + 1], 4)
          /\ G[i][1] = "quote" /\ G[i][2] = "backslash" /\ G[i][3] = "quote" /\ G[i][4] = "quote"
      <4> DEFINE s == G[i + 1]
      <4> HIDE DEF s
      <4>1. /\ Prefixed(Quoted \o s, s, 4)
            /\ (Quoted \o s)[1] = "quote" /\ (Quoted \o s)[2] = "backslash"
            /\ (Quoted \o s)[3] = "quote" /\ (Quoted \o s)[4] = "quote"
        BY <3>2, FourMore, Zenon DEF s
      <4>2. G[i] = Quoted \o s
        BY <3>1, Zenon DEF s
      <4>3. QED BY <4>1, <4>2, Zenon DEF s
    <3>4. /\ Stands(T, G, i + 1, p + 4) /\ p \in Nat /\ p >= 1 /\ p + 4 <= Len(T)
          /\ Agrees(T, p, G[i], 4)
      <4>1. 4 \in Nat
        OBVIOUS
      <4>2. QED BY <3>2, <3>3, <4>1, StandsFurther
    <3>5. T[p] = "quote" /\ T[p + 1] = "backslash" /\ T[p + 2] = "quote" /\ T[p + 3] = "quote"
      <4>1. p + 1 - 1 = p /\ p + 2 - 1 = p + 1 /\ p + 3 - 1 = p + 2 /\ p + 4 - 1 = p + 3
            /\ 1 \in 1 .. 4 /\ 2 \in 1 .. 4 /\ 3 \in 1 .. 4 /\ 4 \in 1 .. 4
        BY <3>4
      <4>2. QED BY <3>3, <3>4, <4>1 DEF Agrees
    <3>6. R[p + 4]["quoted"] = SubSeq(t, i + 1, Len(t))
      BY <2>4, <2>5, <3>4
    <3>7. p + 3 < Len(T)
      BY <1>1, <3>4
    <3>8. R[p]["quoted"] = <<"quote">> \o R[p + 4]["quoted"]
      BY <3>4, <3>5, <3>7, ReadsQuote
    <3>9. QED BY <2>4, <2>5, <3>6, <3>8
  <2>6. CASE i <= Len(t) /\ t[i] # "quote"
    <3>1. G[i] = <<t[i]>> \o G[i + 1]
      BY <1>1, <2>1, <2>2, <2>6 DEF After
    <3>2. G[i + 1] \in Seq(X) /\ t[i] \in X
      BY <2>4, <2>6
    <3>3. Prefixed(G[i], G[i + 1], 1) /\ G[i][1] = t[i]
      BY <3>1, <3>2, OneMore DEF Prefixed
    <3>4. /\ Stands(T, G, i + 1, p + 1) /\ p \in Nat /\ p >= 1 /\ p + 1 <= Len(T)
          /\ Agrees(T, p, G[i], 1)
      <4>1. 1 \in Nat
        OBVIOUS
      <4>2. QED BY <3>2, <3>3, <4>1, StandsFurther
    <3>5. T[p] = t[i]
      <4>1. p + 1 - 1 = p /\ 1 \in 1 .. 1
        BY <3>4
      <4>2. QED BY <3>3, <3>4, <4>1 DEF Agrees
    <3>6. R[p + 1]["quoted"] = SubSeq(t, i + 1, Len(t))
      BY <2>4, <2>6, <3>4
    <3>7. p < Len(T)
      BY <1>1, <3>4
    <3>8. R[p]["quoted"] = <<T[p]>> \o R[p + 1]["quoted"]
      BY <2>6, <3>4, <3>5, <3>7, ReadsLetter
    <3>9. QED BY <2>4, <2>6, <3>5, <3>6, <3>8
  <2>7. QED BY <1>1, <2>3, <2>5, <2>6
<1>3. \A i \in 1 .. N : i \in S
  <2>1. \A i \in 1 .. N : (\A k \in i + 1 .. N : k \in S) => i \in S
    BY <1>2
  <2> HIDE DEF S, N
  <2>2. QED BY <1>1, <2>1, Downwards
<1>4. QED BY <1>3

LEMMA OneAfter ==
    ASSUME NEW X, NEW a \in X, NEW s \in Seq(X), NEW r, r = s \o <<a>>
    PROVE  /\ r \in Seq(X) /\ Len(r) = Len(s) + 1 /\ Len(s) \in Nat
           /\ r[Len(s) + 1] = a
           /\ \A p \in 1 .. Len(s) : r[p] = s[p]
OBVIOUS

LEMMA Enclosed ==
    ASSUME NEW X, "quote" \in X, NEW s \in Seq(X), NEW T, T = OneQuote \o s \o OneQuote
    PROVE  /\ T \in Seq(X) /\ Len(T) = 2 + Len(s) /\ Len(s) \in Nat
           /\ T[1] = "quote" /\ T[Len(T)] = "quote" /\ Agrees(T, 2, s, Len(s))
<1>1. OneQuote \in Seq(X) /\ Len(OneQuote) = 1 /\ OneQuote[1] = "quote" /\ Len(s) \in Nat
  BY DEF OneQuote
<1> DEFINE r == OneQuote \o s
<1>2. /\ r \in Seq(X) /\ Len(r) = Len(s) + 1 /\ r[1] = "quote"
      /\ \A j \in 1 .. Len(s) : r[j + 1] = s[j]
  BY OneMore DEF OneQuote
<1> HIDE DEF r
<1>3. T = r \o <<"quote">>
  BY DEF r, OneQuote
<1>4. /\ T \in Seq(X) /\ Len(T) = Len(r) + 1
      /\ (\A j \in 1 .. Len(r) : T[j] = r[j]) /\ T[Len(r) + 1] = "quote"
  BY <1>2, <1>3, OneAfter
<1>5. Len(T) = 2 + Len(s)
  BY <1>1, <1>2, <1>4
<1>6. T[1] = "quote" /\ T[Len(T)] = "quote"
  <2>1. 1 \in 1 .. Len(r)
    BY <1>1, <1>2
  <2>2. QED BY <1>1, <1>2, <1>4, <2>1
<1>7. ASSUME NEW j \in 1 .. Len(s) PROVE T[2 + j - 1] = s[j]
  <2>1. j + 1 \in 1 .. Len(r) /\ 2 + j - 1 = j + 1
    BY <1>1, <1>2
  <2>2. QED BY <1>2, <1>4, <2>1
<1>8. QED BY <1>1, <1>4, <1>5, <1>6, <1>7 DEF Agrees

\* quote_shell_param: the shell reads the quoted text as the text, whatever is in it.
LEMMA QuotingReadsBack ==
    ASSUME NEW X, "quote" \in X, "backslash" \in X, NEW t \in Seq(X)
    PROVE  ShellWord(QuoteShellParam(t)) = t
<1> DEFINE T == QuoteShellParam(t)
<1>1. OneQuote \in Seq(X) /\ OneQuote # <<>> /\ Quoted \in Seq(X)
  BY DEF OneQuote, Quoted
<1>2. PICK G : Rewrites(G, X, OneQuote, Quoted, t)
  BY <1>1, SubstituteFrom, Zenon
<1>3. G[1] \in Seq(X) /\ Substitute(OneQuote, Quoted, t) = G[1]
  <2>1. 1 \in 1 .. Len(t) + 1
    OBVIOUS
  <2>2. QED BY <1>2, <2>1 DEF Rewrites
<1>4. T = OneQuote \o G[1] \o OneQuote
  BY <1>3, Zenon DEF QuoteShellParam, OneQuote, Quoted
<1> HIDE DEF T
<1>5. /\ T \in Seq(X) /\ Len(T) = 2 + Len(G[1]) /\ Len(G[1]) \in Nat
      /\ T[1] = "quote" /\ T[Len(T)] = "quote" /\ Agrees(T, 2, G[1], Len(G[1]))
  BY <1>3, <1>4, Enclosed, Zenon
<1>6. PICK R : Reads(R, T)
  BY <1>5, ShellWordReads, Zenon
<1>7. Stands(T, G, 1, 2)
  BY <1>5 DEF Stands
<1>8. R[2]["quoted"] = SubSeq(t, 1, Len(t))
  <2>1. 1 \in 1 .. Len(t) + 1
    OBVIOUS
  <2>2. \A i \in 1 .. Len(t) + 1 : \A p :
           Stands(T, G, i, p) => R[p]["quoted"] = SubSeq(t, i, Len(t))
    <3>1. T \in Seq(X)
      BY <1>5
    <3>2. QED BY <1>2, <1>6, <3>1, QuotedFrom
  <2>3. QED BY <1>7, <2>1, <2>2, Zenon
<1>9. R[1]["bare"] = R[2]["quoted"]
  <2>1. 1 \in 1 .. Len(T) + 1 /\ ~(1 > Len(T)) /\ 1 + 1 = 2
    BY <1>5
  <2>2. R[1] = ReadAt(T, R, 1)
    BY <1>6, <2>1 DEF Reads
  <2>3. QED BY <1>5, <2>1, <2>2 DEF ReadAt
<1>10. SubSeq(t, 1, Len(t)) = t
  BY SubSeqFull
<1>11. QED BY <1>6, <1>8, <1>9, <1>10 DEF Reads, T

Escaped == Marked \cup {"lt", "gt", "apos", "backslash"}

LEMMA EscapedType ==
    ASSUME NEW t \in Seq(Marked)
    PROVE  t \in Seq(Escaped) /\ EscapeHtml(t) \in Seq(Escaped)
<1>1. Marked \subseteq Escaped /\ DOMAIN t = 1 .. Len(t) /\ Len(t) \in Nat
  BY DEF Escaped
<1>2. \A l \in DOMAIN Entity : Entity[l] \in Escaped
  BY DEF Entity, Escaped
<1>3. \A i \in DOMAIN t : (IF t[i] \in DOMAIN Entity THEN Entity[t[i]] ELSE t[i]) \in Escaped
  BY <1>1, <1>2
<1> DEFINE e == [i \in 1 .. Len(t) |-> IF t[i] \in DOMAIN Entity THEN Entity[t[i]] ELSE t[i]]
<1>4. EscapeHtml(t) = e
  BY <1>1 DEF EscapeHtml
<1>5. e \in [1 .. Len(t) -> Escaped]
  BY <1>1, <1>3
<1> HIDE DEF e
<1>6. e \in Seq(Escaped)
  BY <1>1, <1>5
<1>7. QED BY <1>1, <1>4, <1>6

\* Every text on the way to output control is one of letters and marks.
QuoteInv ==
    /\ config \in Configs /\ answer \in Answers
    /\ phase \in {"received", "sanitized", "verified"} => text \in Seq(Marked)
    /\ phase = "delivered" => controlled \in Seq(Marked) /\ text = Rewritten(controlled)

LEMMA QuoteReads == QuoteInv => QuotedReadsBack
<1> SUFFICES ASSUME QuoteInv, phase = "delivered", LooksExecutable(controlled)
             PROVE  ShellWord(text) = IF HasTag(controlled) THEN EscapeHtml(controlled) ELSE controlled
  BY DEF QuotedReadsBack
<1> DEFINE escaped == IF HasTag(controlled) THEN EscapeHtml(controlled) ELSE controlled
<1>1. controlled \in Seq(Marked) /\ text = Rewritten(controlled)
  BY DEF QuoteInv
<1>2. text = QuoteShellParam(escaped)
  BY <1>1 DEF Rewritten
<1>3. escaped \in Seq(Escaped)
  BY <1>1, EscapedType
<1>4. "quote" \in Escaped /\ "backslash" \in Escaped
  BY DEF Escaped, Marked, Letters
<1> HIDE DEF escaped
<1>5. ShellWord(text) = escaped
  BY <1>2, <1>3, <1>4, QuotingReadsBack
<1>6. QED BY <1>5 DEF escaped

LEMMA QuoteStart == Init => QuoteInv
<1> SUFFICES ASSUME Init PROVE QuoteInv
  OBVIOUS
<1>1. config \in Configs /\ answer \in Answers /\ text = answer.text /\ phase = "received"
  BY DEF Init
<1>2. answer.text \in Seq(Letters) /\ Letters \subseteq Marked
  BY <1>1, ResponseAssumption DEF Marked
<1>3. text \in Seq(Marked)
  BY <1>1, <1>2
<1>4. QED BY <1>1, <1>3 DEF QuoteInv

LEMMA QuoteNext == QuoteInv /\ [Next]_vars => QuoteInv'
<1> SUFFICES ASSUME QuoteInv, [Next]_vars PROVE QuoteInv'
  OBVIOUS
<1> USE DEF QuoteInv
<1>1. CASE Sanitize
  <2> DEFINE result == Sanitized(config, text)
  <2>1. /\ phase = "received" /\ phase' = "sanitized" /\ UNCHANGED <<config, answer>>
        /\ text' = IF text = <<>> THEN text ELSE result.text
    BY <1>1 DEF Sanitize, request
  <2>2. result \in Partial
    <3> DEFINE n == Len(config.rules)
    <3>1. text \in Seq(Marked) /\ n \in Nat
      BY <2>1, ConfigRules
    <3>2. PICK F : Stages(F, config, text)
      BY <3>1, SanitizedStages
    <3>3. n \in 0 .. n /\ \A k \in 0 .. n : F[k] \in Partial
      BY <3>1, <3>2, StagesType
    <3>4. QED BY <3>2, <3>3 DEF Stages
  <2> HIDE DEF result
  <2>3. QED BY <2>1, <2>2 DEF Partial
<1>2. CASE SkipThinking \/ Think \/ ThinkFails
  <2>1. phase = "sanitized" /\ phase' = "verified" /\ UNCHANGED <<config, answer, text>>
    BY <1>2 DEF SkipThinking, Think, ThinkFails, request
  <2>2. QED BY <2>1
<1>3. CASE Block
  <2>1. phase' = "blocked" /\ UNCHANGED <<config, answer>>
    BY <1>3 DEF Block, request
  <2>2. QED BY <2>1
<1>4. CASE Deliver
  <2>1. /\ phase = "verified" /\ phase' = "delivered" /\ UNCHANGED <<config, answer>>
        /\ controlled' = text /\ text' = Rewritten(text)
    BY <1>4 DEF Deliver, request
  <2>2. QED BY <2>1
<1>5. CASE UNCHANGED vars
  BY <1>5 DEF vars
<1>6. QED BY <1>1, <1>2, <1>3, <1>4, <1>5 DEF Next

\* A text with a command in it is delivered as one shell word that reads back as the text, escaped
\* if it had a tag: nothing in it is run and nothing is lost, whatever the text
\* (OutputController.quote_shell_param).
THEOREM QuotingHolds == Spec => []QuotedReadsBack
<1>1. QED BY QuoteStart, QuoteNext, QuoteReads, PTL DEF Spec
=============================================================================

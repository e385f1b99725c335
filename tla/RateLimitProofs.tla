-------------------------- MODULE RateLimitProofs ---------------------------
(***************************************************************************)
(* What is true of the rate limits for any lists of rules, any number of    *)
(* calls and exchanges of the rules, and any clock.                         *)
(***************************************************************************)
EXTENDS RateLimit, TLAPS, FiniteSetTheorems, SequenceTheorems, WellFoundedInduction

-----------------------------------------------------------------------------
(* Induction, for a set of numbers in place of a predicate. *)

LEMMA LeastNumber ==
    ASSUME NEW S, S \subseteq Nat, S # {}
    PROVE  \E m \in S : \A n \in S : m <= n
<1>1. PICK m \in S : \A n \in S : ~(<<n, m>> \in OpToRel(<, Nat))
  BY WFMin, NatLessThanWellFounded, Zenon
<1>2. \A n \in S : n \in Nat /\ m \in Nat
  OBVIOUS
<1>3. \A n \in S : ~(n < m)
  BY <1>1, <1>2 DEF OpToRel
<1>4. QED BY <1>2, <1>3

LEMMA Upwards ==
    ASSUME NEW N \in Nat, NEW S, 0 \in S, \A k \in 0 .. N - 1 : k \in S => k + 1 \in S
    PROVE  \A k \in 0 .. N : k \in S
<1> DEFINE Bad == {k \in 0 .. N : k \notin S}
<1> SUFFICES ASSUME Bad # {} PROVE FALSE
  OBVIOUS
<1>1. Bad \subseteq Nat
  OBVIOUS
<1>2. PICK m \in Bad : \A n \in Bad : m <= n
  <2> HIDE DEF Bad
  <2>1. QED BY <1>1, LeastNumber, Zenon
<1>3. m # 0 /\ m - 1 \in 0 .. N - 1 /\ m - 1 \notin Bad
  BY <1>2
<1>4. QED BY <1>2, <1>3

\* A set that maps one to one into a finite set is no larger.
LEMMA NoLarger ==
    ASSUME NEW S, NEW T, IsFiniteSet(T), NEW f \in [S -> T], \A a, b \in S : f[a] = f[b] => a = b
    PROVE  IsFiniteSet(S) /\ Cardinality(S) <= Cardinality(T)
<1>1. f \in Injection(S, T)
  BY DEF Injection, IsInjective
<1>2. QED BY <1>1, FS_Injection

-----------------------------------------------------------------------------
(* The invariant *)

LEMMA RuleType ==
    ASSUME NEW rs \in RuleSets
    PROVE  /\ Len(rs) \in Nat /\ DOMAIN rs = 1 .. Len(rs)
           /\ \A i \in DOMAIN rs : rs[i].limit \in Nat /\ Window(rs[i]) \in Nat \ {0}
           /\ Limits(rs) \subseteq 1 .. Len(rs) /\ IsFiniteSet(Limits(rs))
<1>1. rs \in Seq([kind : {"rate", "hard_stop", "soft_block"}, limit : Nat, window : Nat])
  BY RateAssumption
<1>2. /\ Len(rs) \in Nat /\ DOMAIN rs = 1 .. Len(rs)
      /\ \A i \in DOMAIN rs : rs[i].limit \in Nat /\ rs[i].window \in Nat
  <2>1. Len(rs) \in Nat /\ DOMAIN rs = 1 .. Len(rs)
    BY <1>1
  <2>2. ASSUME NEW i \in DOMAIN rs PROVE rs[i].limit \in Nat /\ rs[i].window \in Nat
    <3>1. rs[i] \in [kind : {"rate", "hard_stop", "soft_block"}, limit : Nat, window : Nat]
      BY <1>1, <2>1, ElementOfSeq
    <3>2. QED BY <3>1
  <2>3. QED BY <2>1, <2>2
<1>3. \A i \in DOMAIN rs : Window(rs[i]) \in Nat \ {0}
  BY <1>2, RateAssumption DEF Window
<1>4. Limits(rs) \subseteq 1 .. Len(rs)
  BY <1>2 DEF Limits
<1>5. IsFiniteSet(1 .. Len(rs))
  BY <1>2, FS_Interval
<1>6. IsFiniteSet(Limits(rs))
  BY <1>4, <1>5, FS_Subset
<1>7. QED BY <1>2, <1>3, <1>4, <1>6

Outcomes == {"limited", "allowed", "blocked", "warned"}
Calls == [time : Nat, rated : SUBSET Nat, outcome : Outcomes]
Entries == [time : Nat, call : Nat, rule : Nat]
Pairs == UNION {{k} \X calls[k].rated : k \in DOMAIN calls}

TypeInv ==
    /\ now \in Nat /\ rules \in RuleSets /\ calls \in Seq(Calls)
    /\ counter \subseteq Entries /\ IsFiniteSet(counter) /\ IsFiniteSet(Pairs)

\* Every entry was made by a call for a rule then active, and bears its time.
Owned == \A e \in counter : /\ e.call \in DOMAIN calls /\ e.time = calls[e.call].time
                            /\ e.rule \in calls[e.call].rated

\* t is less than any window in the past.
Fresh(t) == \A u \in used : now - t < Window(u)

\* A call that passed is on the list for as long as no rule could have cut it.
Tagged == \A k \in DOMAIN calls :
              Passed(calls[k]) /\ Fresh(calls[k].time) => \E e \in counter : e.call = k

Known == /\ \A i \in Limits(rules) : rules[i] \in used
         /\ \A u \in used : Window(u) \in Nat \ {0}

RateInv == TypeInv /\ Owned /\ Tagged /\ Known

-----------------------------------------------------------------------------
(* Rated goes through the rules: F[i] is the list after i rules. *)

Stage(F, i) ==
    IF i = 0 THEN [entries |-> counter, refused |-> FALSE] ELSE Asked(i, F[i - 1])

Stages(F) == /\ Rated = F[Len(rules)]
             /\ F = [i \in 0 .. Len(rules) |-> Stage(F, i)]

LEMMA RatedIs ==
    ASSUME NEW F, F = [i \in 0 .. Len(rules) |-> Stage(F, i)]
    PROVE  \E G : Stages(G)
<1> DEFINE G == CHOOSE f : f = [i \in 0 .. Len(rules) |-> Stage(f, i)]
<1>1. Rated = G[Len(rules)]
  BY Zenon DEF Rated, Stage
<1>2. G = [i \in 0 .. Len(rules) |-> Stage(G, i)]
  BY Zenon
<1> HIDE DEF G
<1>3. QED BY <1>1, <1>2, Zenon DEF Stages

\* Functions that agree on the stage before i go on alike.
LEMMA StageLooksBack ==
    ASSUME NEW i \in Nat, NEW g, NEW h, i # 0 => g[i - 1] = h[i - 1]
    PROVE  Stage(g, i) = Stage(h, i)
BY DEF Stage

LEMMA RatedStages ==
    ASSUME rules \in RuleSets
    PROVE  \E G : Stages(G)
<1> DEFINE n == Len(rules)
           S == {k \in 0 .. n : \E g : \A i \in 0 .. k : g[i] = Stage(g, i)}
<1>1. n \in Nat
  BY RuleType
<1> HIDE DEF n
<1>2. 0 \in S
  <2> DEFINE g == [i \in {0} |-> [entries |-> counter, refused |-> FALSE]]
  <2>1. g[0] = Stage(g, 0)
    BY DEF Stage
  <2> HIDE DEF g
  <2>2. \A i \in 0 .. 0 : g[i] = Stage(g, i)
    BY <2>1
  <2>3. QED BY <1>1, <2>2
<1>3. ASSUME NEW k \in 0 .. n - 1, k \in S PROVE k + 1 \in S
  <2>1. PICK g : \A i \in 0 .. k : g[i] = Stage(g, i)
    BY <1>3
  <2> DEFINE h == [i \in 0 .. k + 1 |-> IF i = k + 1 THEN Stage(g, i) ELSE g[i]]
  <2>2. (\A i \in 0 .. k : h[i] = g[i]) /\ h[k + 1] = Stage(g, k + 1)
    BY <1>1
  <2> HIDE DEF h
  <2>3. ASSUME NEW i \in 0 .. k + 1 PROVE h[i] = Stage(h, i)
    <3>1. i \in Nat /\ (i # 0 => i - 1 \in 0 .. k) /\ (i = k + 1 \/ i \in 0 .. k)
      BY <1>1
    <3>2. i # 0 => g[i - 1] = h[i - 1]
      BY <2>2, <3>1
    <3>3. Stage(g, i) = Stage(h, i)
      BY <3>1, <3>2, StageLooksBack
    <3>4. QED BY <2>1, <2>2, <3>1, <3>3
  <2>4. k + 1 \in 0 .. n
    BY <1>1
  <2>5. QED BY <2>3, <2>4
<1>4. n \in S
  <2>1. \A k \in 0 .. n : k \in S
    <3> HIDE DEF S
    <3>1. QED BY <1>1, <1>2, <1>3, Upwards
  <2>2. QED BY <1>1, <2>1
<1>5. PICK g : \A i \in 0 .. n : g[i] = Stage(g, i)
  BY <1>4
<1> DEFINE F == [i \in 0 .. n |-> g[i]]
<1>6. \A i \in 0 .. n : F[i] = g[i]
  OBVIOUS
<1> HIDE DEF F
<1>7. ASSUME NEW i \in 0 .. n PROVE F[i] = Stage(F, i)
  <2>1. i \in Nat /\ (i # 0 => i - 1 \in 0 .. n)
    BY <1>1
  <2>2. i # 0 => g[i - 1] = F[i - 1]
    BY <1>6, <2>1
  <2>3. Stage(g, i) = Stage(F, i)
    BY <2>1, <2>2, StageLooksBack
  <2>4. QED BY <1>5, <1>6, <2>3
<1>8. F = [i \in 0 .. n |-> Stage(F, i)]
  BY <1>7 DEF F
<1>9. QED BY <1>8, RatedIs DEF n

\* The rate-limit rules up to i, and whether the list is full when rule i cuts it.
UpTo(i) == {j \in Limits(rules) : j <= i}
Full(F, i) == Exceeded(Recent(F[i - 1].entries, rules[i]), rules[i])

\* What holds after i rules: the list has lost nothing fresh and gained only entries of this
\* call, one for each rule unless one has refused, and that one found it full.
After(F, i) ==
    /\ IsFiniteSet(F[i].entries) /\ F[i].refused \in BOOLEAN
    /\ F[i].entries \subseteq counter \cup {Entry(j) : j \in UpTo(i)}
    /\ \A e \in counter : Fresh(e.time) => e \in F[i].entries
    /\ F[i].refused => \E j \in UpTo(i) : Full(F, j)
    /\ ~F[i].refused => \A j \in UpTo(i) : Entry(j) \in F[i].entries /\ ~Full(F, j)

LEMMA AskedIs ==
    ASSUME NEW i, NEW acc
    PROVE  /\ (acc.refused \/ i \notin Limits(rules)) => Asked(i, acc) = acc
           /\ (~acc.refused /\ i \in Limits(rules)) =>
                 Asked(i, acc) =
                    [entries |-> Entered(Recent(acc.entries, rules[i]), i,
                                         Exceeded(Recent(acc.entries, rules[i]), rules[i])),
                     refused |-> Exceeded(Recent(acc.entries, rules[i]), rules[i])]
BY DEF Asked

LEMMA AfterRules ==
    ASSUME RateInv, NEW F, Stages(F)
    PROVE  \A i \in 0 .. Len(rules) : After(F, i)
<1> DEFINE n == Len(rules)
           S == {i \in 0 .. n : After(F, i)}
<1>1. n \in Nat /\ DOMAIN rules = 1 .. n /\ Limits(rules) \subseteq 1 .. n /\ now \in Nat
      /\ IsFiniteSet(counter)
  BY RuleType DEF RateInv, TypeInv
<1>2. \A i \in 0 .. n : F[i] = Stage(F, i)
  BY DEF Stages
<1> HIDE DEF n
<1>3. 0 \in S
  <2>1. 0 \in 0 .. n /\ UpTo(0) = {}
    BY <1>1 DEF UpTo
  <2>2. F[0] = [entries |-> counter, refused |-> FALSE]
    BY <1>2, <2>1 DEF Stage
  <2>3. F[0].entries = counter /\ F[0].refused = FALSE
    BY <2>2
  <2>4. After(F, 0)
    BY <1>1, <2>1, <2>3 DEF After
  <2>5. QED BY <2>1, <2>4
<1>4. ASSUME NEW k \in 0 .. n - 1, k \in S PROVE k + 1 \in S
  <2> DEFINE i == k + 1
             acc == F[k]
             recent == Recent(acc.entries, rules[i])
  <2>1. i \in 0 .. n /\ i \in 1 .. n /\ i # 0 /\ i - 1 = k /\ k \in Nat
    BY <1>1
  <2>2. F[i] = Asked(i, acc)
    BY <1>2, <2>1 DEF Stage
  <2>3. After(F, k)
    BY <1>4
  <2>4. /\ IsFiniteSet(acc.entries) /\ acc.refused \in BOOLEAN
        /\ acc.entries \subseteq counter \cup {Entry(j) : j \in UpTo(k)}
        /\ \A e \in counter : Fresh(e.time) => e \in acc.entries
        /\ acc.refused => \E j \in UpTo(k) : Full(F, j)
        /\ ~acc.refused => \A j \in UpTo(k) : Entry(j) \in acc.entries /\ ~Full(F, j)
    BY <2>3 DEF After
  <2>5. UpTo(k) \subseteq UpTo(i) /\ UpTo(i) \subseteq UpTo(k) \cup {i}
        /\ (i \in Limits(rules) => i \in UpTo(i)) /\ (i \notin Limits(rules) => UpTo(i) = UpTo(k))
    BY <1>1, <2>1 DEF UpTo
  <2>6. Full(F, i) = Exceeded(recent, rules[i])
    BY <2>1 DEF Full
  <2> HIDE DEF i, acc
  <2>7. CASE acc.refused \/ i \notin Limits(rules)
    <3>1. F[i] = acc
      BY <2>2, <2>7, AskedIs
    <3>2. After(F, i)
      BY <2>4, <2>5, <2>7, <3>1 DEF After
    <3>3. QED BY <2>1, <3>2 DEF i
  <2>8. CASE ~acc.refused /\ i \in Limits(rules)
    <3>1. /\ F[i].entries = Entered(recent, i, Exceeded(recent, rules[i]))
          /\ F[i].refused = Exceeded(recent, rules[i])
      BY <2>2, <2>8, AskedIs
    <3>2. rules[i] \in used /\ Window(rules[i]) \in Nat \ {0}
      BY <1>1, <2>1, <2>8, RuleType DEF RateInv, TypeInv, Known
    <3>3. recent \subseteq acc.entries /\ IsFiniteSet(recent)
      <4>1. recent \subseteq acc.entries
        BY DEF Recent
      <4>2. QED BY <2>4, <4>1, FS_Subset
    <3>4. \A e \in counter : Fresh(e.time) => e \in recent
      BY <2>4, <3>2 DEF Fresh, Recent
    <3>5. \A j \in UpTo(k) : Entry(j) \in recent
      <4>1. \A j : now - Entry(j).time < Window(rules[i])
        BY <1>1, <3>2 DEF Entry
      <4>2. QED BY <2>4, <2>8, <4>1 DEF Recent
    <3> HIDE DEF recent
    <3>6. CASE Exceeded(recent, rules[i])
      <4>1. F[i].entries = recent /\ F[i].refused = TRUE
        BY <3>1, <3>6 DEF Entered
      <4>2. F[i].entries \subseteq counter \cup {Entry(j) : j \in UpTo(i)}
        BY <2>4, <2>5, <3>3, <4>1
      <4>3. After(F, i)
        BY <2>5, <2>6, <2>8, <3>3, <3>4, <3>6, <4>1, <4>2 DEF After
      <4>4. QED BY <2>1, <4>3 DEF i
    <3>7. CASE ~Exceeded(recent, rules[i])
      <4>1. F[i].entries = recent \cup {Entry(i)} /\ F[i].refused = FALSE
        <5>1. Exceeded(recent, rules[i]) = FALSE
          BY <3>7 DEF Exceeded
        <5>2. QED BY <3>1, <5>1 DEF Entered
      <4>2. IsFiniteSet(F[i].entries)
        BY <3>3, <4>1, FS_AddElement
      <4>3. F[i].entries \subseteq counter \cup {Entry(j) : j \in UpTo(i)}
        BY <2>4, <2>5, <2>8, <3>3, <4>1
      <4>4. \A j \in UpTo(i) : Entry(j) \in F[i].entries /\ ~Full(F, j)
        BY <2>4, <2>5, <2>6, <2>8, <3>5, <3>7, <4>1
      <4>5. After(F, i)
        BY <3>4, <4>1, <4>2, <4>3, <4>4 DEF After
      <4>6. QED BY <2>1, <4>5 DEF i
    <3>8. QED BY <3>6, <3>7
  <2>9. QED BY <2>4, <2>7, <2>8
<1>5. \A i \in 0 .. n : i \in S
  <2> HIDE DEF S
  <2>1. QED BY <1>1, <1>3, <1>4, Upwards
<1>6. QED BY <1>5 DEF n


LEMMA RatedIsAfter ==
    ASSUME RateInv
    PROVE  \E F : /\ Stages(F) /\ Rated = F[Len(rules)]
                  /\ \A i \in 0 .. Len(rules) : After(F, i)
                  /\ UpTo(Len(rules)) = Limits(rules)
<1>1. rules \in RuleSets
  BY DEF RateInv, TypeInv
<1>2. PICK F : Stages(F)
  BY <1>1, RatedStages
<1>3. \A i \in 0 .. Len(rules) : After(F, i)
  BY <1>2, AfterRules
<1>4. UpTo(Len(rules)) = Limits(rules)
  BY <1>1, RuleType DEF UpTo
<1>5. QED BY <1>2, <1>3, <1>4 DEF Stages

LEMMA RatedEnds ==
    ASSUME RateInv
    PROVE  /\ IsFiniteSet(Rated.entries) /\ Rated.refused \in BOOLEAN
           /\ Rated.entries \subseteq counter \cup {Entry(j) : j \in Limits(rules)}
           /\ \A e \in counter : Fresh(e.time) => e \in Rated.entries
           /\ ~Rated.refused => \A j \in Limits(rules) : Entry(j) \in Rated.entries
<1>1. PICK F : /\ Rated = F[Len(rules)] /\ \A i \in 0 .. Len(rules) : After(F, i)
               /\ UpTo(Len(rules)) = Limits(rules)
  BY RatedIsAfter
<1>2. Len(rules) \in 0 .. Len(rules)
  BY RuleType DEF RateInv, TypeInv
<1>3. QED BY <1>1, <1>2 DEF After

LEMMA InitInv == Init => RateInv
<1> SUFFICES ASSUME Init PROVE RateInv
  OBVIOUS
<1>1. /\ now \in Nat /\ rules \in RuleSets /\ calls \in Seq(Calls)
      /\ DOMAIN calls = {} /\ counter \subseteq Entries
  BY DEF Init
<1>2. Pairs = {}
  BY <1>1 DEF Pairs
<1>3. TypeInv
  BY <1>1, <1>2, FS_EmptySet DEF Init, TypeInv
<1>4. Owned /\ Tagged
  BY <1>1 DEF Init, Owned, Tagged
<1>5. Known
  BY <1>1, RuleType DEF Init, Known, Limits
<1>6. QED BY <1>3, <1>4, <1>5 DEF RateInv

LEMMA CheckAppends ==
    ASSUME RateInv, NEW hits, Check(hits)
    PROVE  /\ calls \in Seq(Calls) /\ calls' \in Seq(Calls) /\ Len(calls) \in Nat
           /\ DOMAIN calls = 1 .. Len(calls) /\ DOMAIN calls' = 1 .. Len(calls) + 1
           /\ \A k \in 1 .. Len(calls) : calls'[k] = calls[k]
           /\ LET c == calls'[Len(calls) + 1] IN
              /\ Last(calls') = c
              /\ c.time = now /\ c.rated = Limits(rules)
              /\ c.outcome = "limited" <=> Rated.refused
<1> DEFINE m == Matched(hits)
           c == [time |-> now, rated |-> Limits(rules),
                 outcome |-> IF Rated.refused THEN "limited" ELSE m]
<1>1. m \in {"allowed", "blocked", "warned"}
  BY DEF Matched
<1>2. calls' = Append(calls, c) /\ calls \in Seq(Calls) /\ now \in Nat /\ rules \in RuleSets
  BY DEF RateInv, TypeInv, Check
<1>3. Limits(rules) \subseteq Nat
  BY <1>2, RuleType
<1> HIDE DEF m
<1>4. /\ c \in Calls /\ c.time = now /\ c.rated = Limits(rules)
      /\ c.outcome = "limited" <=> Rated.refused
  BY <1>1, <1>2, <1>3 DEF Calls, Outcomes
<1> HIDE DEF c
<1>5. /\ calls' \in Seq(Calls) /\ Len(calls) \in Nat /\ Len(calls') = Len(calls) + 1
      /\ DOMAIN calls = 1 .. Len(calls) /\ DOMAIN calls' = 1 .. Len(calls) + 1
      /\ \A k \in 1 .. Len(calls) : calls'[k] = calls[k]
      /\ calls'[Len(calls) + 1] = c
  BY <1>2, <1>4
<1>6. Last(calls') = c
  BY <1>5 DEF Last
<1>7. QED BY <1>2, <1>4, <1>5, <1>6

LEMMA CheckInv ==
    ASSUME RateInv, NEW hits, Check(hits)
    PROVE  RateInv'
<1> DEFINE n == Len(calls)
<1>1. /\ calls \in Seq(Calls) /\ calls' \in Seq(Calls) /\ n \in Nat
      /\ DOMAIN calls = 1 .. n /\ DOMAIN calls' = 1 .. n + 1
      /\ \A k \in 1 .. n : calls'[k] = calls[k]
      /\ calls'[n + 1].time = now /\ calls'[n + 1].rated = Limits(rules)
      /\ calls'[n + 1].outcome = "limited" <=> Rated.refused
  BY CheckAppends
<1>2. now' = now /\ rules' = rules /\ used' = used /\ counter' = Rated.entries
  BY DEF Check
<1>3. /\ IsFiniteSet(counter') /\ Rated.refused \in BOOLEAN
      /\ counter' \subseteq counter \cup {Entry(j) : j \in Limits(rules)}
      /\ \A e \in counter : Fresh(e.time) => e \in counter'
      /\ ~Rated.refused => \A j \in Limits(rules) : Entry(j) \in counter'
  BY <1>2, RatedEnds
<1>4. now \in Nat /\ rules \in RuleSets /\ Limits(rules) \subseteq Nat /\ IsFiniteSet(Limits(rules))
  BY RuleType DEF RateInv, TypeInv
<1>5. \A j \in Limits(rules) : /\ Entry(j) \in Entries /\ Entry(j).time = now
                               /\ Entry(j).call = n + 1 /\ Entry(j).rule = j
  BY <1>1, <1>4 DEF Entry, Entries
<1> HIDE DEF n
<1>6. TypeInv'
  <2>1. counter' \subseteq Entries
    BY <1>3, <1>5 DEF RateInv, TypeInv
  <2>2. Pairs' = Pairs \cup ({n + 1} \X Limits(rules))
    <3>1. \A k \in 1 .. n : calls'[k].rated = calls[k].rated
      BY <1>1
    <3>2. Pairs' = UNION {{k} \X calls'[k].rated : k \in 1 .. n + 1}
      BY <1>1 DEF Pairs
    <3>3. Pairs = UNION {{k} \X calls[k].rated : k \in 1 .. n}
      BY <1>1 DEF Pairs
    <3>4. 1 .. n + 1 = (1 .. n) \cup {n + 1}
      BY <1>1
    <3>5. {n + 1} \X Limits(rules) = {n + 1} \X calls'[n + 1].rated
      BY <1>1
    <3>6. QED BY <3>1, <3>2, <3>3, <3>4, <3>5
  <2>3. IsFiniteSet({n + 1} \X Limits(rules))
    BY <1>4, FS_Singleton, FS_Product
  <2>4. IsFiniteSet(Pairs')
    BY <2>2, <2>3, FS_Union DEF RateInv, TypeInv
  <2>5. QED BY <1>1, <1>2, <1>3, <1>4, <2>1, <2>4 DEF TypeInv
<1>7. Owned'
  <2>1. ASSUME NEW e \in counter'
        PROVE  e.call \in DOMAIN calls' /\ e.time = calls'[e.call].time
               /\ e.rule \in calls'[e.call].rated
    <3>1. CASE e \in counter
      <4>1. e.call \in 1 .. n /\ e.time = calls[e.call].time /\ e.rule \in calls[e.call].rated
        BY <1>1, <3>1 DEF RateInv, Owned
      <4>2. e.call \in 1 .. n + 1
        BY <1>1, <4>1
      <4>3. QED BY <1>1, <4>1, <4>2
    <3>2. CASE e \notin counter
      <4>1. PICK j \in Limits(rules) : e = Entry(j)
        BY <1>3, <3>2
      <4>2. n + 1 \in 1 .. n + 1
        BY <1>1
      <4>3. QED BY <1>1, <1>5, <4>1, <4>2
    <3>3. QED BY <3>1, <3>2
  <2>2. QED BY <2>1 DEF Owned
<1>8. Tagged'
  <2>1. ASSUME NEW k \in DOMAIN calls', Passed(calls'[k]),
               \A u \in used' : now' - calls'[k].time < Window(u)
        PROVE  \E e \in counter' : e.call = k
    <3>1. \A u \in used : now - calls'[k].time < Window(u)
      BY <1>2, <2>1
    <3>2. CASE k \in 1 .. n
      <4>1. Passed(calls[k]) /\ Fresh(calls[k].time)
        BY <1>1, <2>1, <3>1, <3>2 DEF Fresh
      <4>2. PICK e \in counter : e.call = k
        BY <1>1, <3>2, <4>1 DEF RateInv, Tagged
      <4>3. e.time = calls[k].time
        BY <4>2 DEF RateInv, Owned
      <4>4. QED BY <1>3, <4>1, <4>2, <4>3
    <3>3. CASE k = n + 1
      <4>1. ~Rated.refused /\ Limits(rules) # {}
        BY <1>1, <2>1, <3>3 DEF Passed
      <4>2. QED BY <1>3, <1>5, <3>3, <4>1
    <3>4. QED BY <1>1, <3>2, <3>3
  <2>2. QED BY <2>1 DEF Tagged, Fresh
<1>9. Known'
  BY <1>2 DEF RateInv, Known, Limits
<1>10. QED BY <1>6, <1>7, <1>8, <1>9 DEF RateInv

LEMMA ReloadInv ==
    ASSUME RateInv, NEW rs \in RuleSets, Reload(rs)
    PROVE  RateInv'
<1>1. now' = now /\ calls' = calls /\ counter' = counter /\ rules' = rs /\ used \subseteq used'
      /\ \A i \in Limits(rs) : rs[i] \in used'
  BY DEF Reload
<1>2. TypeInv' /\ Owned'
  BY <1>1 DEF RateInv, TypeInv, Owned, Pairs
<1>3. \A t : Fresh(t)' => Fresh(t)
  BY <1>1 DEF Fresh
<1>4. Tagged'
  BY <1>1, <1>3 DEF RateInv, Tagged
<1>5. \A i \in Limits(rs) : Window(rs[i]) \in Nat \ {0}
  BY RuleType DEF Limits
<1>6. Known'
  BY <1>1, <1>5 DEF RateInv, Known, Limits, Reload
<1>7. QED BY <1>2, <1>4, <1>6 DEF RateInv

LEMMA TickInv ==
    ASSUME RateInv, Tick
    PROVE  RateInv'
<1>1. now' = now + 1 /\ UNCHANGED <<calls, counter, rules, used>> /\ now \in Nat
  BY DEF Tick, RateInv, TypeInv
<1>2. TypeInv' /\ Owned'
  BY <1>1 DEF RateInv, TypeInv, Owned, Pairs
<1>3. ASSUME NEW t \in Nat, \A u \in used : now + 1 - t < Window(u) PROVE Fresh(t)
  <2>1. ASSUME NEW u \in used PROVE now - t < Window(u)
    <3>1. Window(u) \in Nat /\ now + 1 - t < Window(u)
      BY <1>3 DEF RateInv, Known
    <3>2. QED BY <1>1, <3>1
  <2>2. QED BY <2>1 DEF Fresh
<1>4. \A k \in DOMAIN calls : calls[k].time \in Nat
  <2>1. calls \in Seq(Calls)
    BY DEF RateInv, TypeInv
  <2>2. ASSUME NEW k \in DOMAIN calls PROVE calls[k].time \in Nat
    <3>1. calls[k] \in Calls
      BY <2>1, ElementOfSeq
    <3>2. QED BY <3>1 DEF Calls
  <2>3. QED BY <2>2
<1>5. Tagged'
  <2>1. ASSUME NEW k \in DOMAIN calls, Passed(calls[k]),
               \A u \in used : now + 1 - calls[k].time < Window(u)
        PROVE  \E e \in counter : e.call = k
    BY <1>3, <1>4, <2>1 DEF RateInv, Tagged
  <2>2. calls' = calls /\ counter' = counter /\ used' = used /\ now' = now + 1
    BY <1>1
  <2>3. ASSUME NEW k \in DOMAIN calls', Passed(calls'[k]),
               \A u \in used' : now' - calls'[k].time < Window(u)
        PROVE  \E e \in counter' : e.call = k
    <3>1. k \in DOMAIN calls /\ Passed(calls[k])
      BY <2>2, <2>3
    <3>2. \A u \in used : now + 1 - calls[k].time < Window(u)
      <4>1. \A u \in used : now' - calls[k].time < Window(u)
        BY <2>2, <2>3
      <4>2. QED BY <2>2, <4>1, <1>1, <1>4, <3>1
    <3>3. QED BY <2>1, <2>2, <3>1, <3>2
  <2>4. QED BY <2>3 DEF Tagged, Fresh
<1>6. Known'
  BY <1>1 DEF RateInv, Known, Limits
<1>7. QED BY <1>2, <1>5, <1>6 DEF RateInv

LEMMA NextInv == RateInv /\ [Next]_vars => RateInv'
<1> SUFFICES ASSUME RateInv, [Next]_vars PROVE RateInv'
  OBVIOUS
<1>1. ASSUME NEW hits, Check(hits) PROVE RateInv'
  BY <1>1, CheckInv
<1>2. ASSUME NEW rs \in RuleSets, Reload(rs) PROVE RateInv'
  BY <1>2, ReloadInv
<1>3. CASE Tick
  BY <1>3, TickInv
<1>4. CASE UNCHANGED vars
  <2>1. TypeInv' /\ Owned'
    BY <1>4 DEF vars, RateInv, TypeInv, Owned, Pairs
  <2>2. Tagged' /\ Known'
    BY <1>4 DEF vars, RateInv, Tagged, Fresh, Known, Limits
  <2>3. QED BY <2>1, <2>2 DEF RateInv
<1>5. QED BY <1>1, <1>2, <1>3, <1>4 DEF Next

THEOREM RateLimitInvariant == Spec => []RateInv
BY InitInv, NextInv, PTL DEF Spec

-----------------------------------------------------------------------------
(* The tightest limit *)

\* The calls of the last w seconds that passed.
Admitted(history, w) == {k \in Within(history, w) : Passed(history[k])}

\* Each of them is still on the list when rule i counts it.
LEMMA AdmittedAreCounted ==
    ASSUME RateInv, NEW F, NEW i \in Limits(rules), Stages(F),
           \A u \in used : Window(rules[i]) <= Window(u)
    PROVE  LET listed == Recent(F[i - 1].entries, rules[i]) IN
           /\ IsFiniteSet(listed)
           /\ IsFiniteSet(Admitted(calls, Window(rules[i])))
           /\ Cardinality(Admitted(calls, Window(rules[i]))) <= Cardinality(listed)
<1> DEFINE W == Window(rules[i])
           listed == Recent(F[i - 1].entries, rules[i])
           A == Admitted(calls, W)
<1>1. /\ i - 1 \in 0 .. Len(rules) /\ W \in Nat /\ now \in Nat
      /\ \A u \in used : Window(u) \in Nat
  BY RuleType DEF RateInv, TypeInv, Known
<1>2. After(F, i - 1)
  BY <1>1, AfterRules
<1>3. IsFiniteSet(listed)
  <2>1. listed \subseteq F[i - 1].entries
    BY DEF Recent
  <2>2. QED BY <1>2, <2>1, FS_Subset DEF After
<1>4. \A k \in A : k \in DOMAIN calls /\ now - calls[k].time < W /\ Passed(calls[k])
  BY DEF Admitted, Within
<1>5. \A e \in F[i - 1].entries : now - e.time < W => e \in listed
  BY DEF Recent
<1> HIDE DEF W, listed, A
<1>6. ASSUME NEW k \in A PROVE \E e \in listed : e.call = k
  <2>1. calls[k].time \in Nat
    <3>1. calls[k] \in Calls
      BY <1>4, ElementOfSeq DEF RateInv, TypeInv
    <3>2. QED BY <3>1 DEF Calls
  <2>2. ASSUME NEW u \in used PROVE now - calls[k].time < Window(u)
    <3>1. W <= Window(u) /\ Window(u) \in Nat
      BY <1>1 DEF W
    <3>2. now - calls[k].time < W
      BY <1>4
    <3>3. QED BY <1>1, <2>1, <3>1, <3>2
  <2>3. PICK e \in counter : e.call = k
    BY <1>4, <2>2 DEF RateInv, Tagged, Fresh
  <2>4. e.time = calls[k].time
    BY <2>3 DEF RateInv, Owned
  <2>5. e \in F[i - 1].entries
    BY <1>2, <2>2, <2>4 DEF After, Fresh
  <2>6. QED BY <1>4, <1>5, <2>3, <2>4, <2>5
<1> DEFINE f == [k \in A |-> CHOOSE e \in listed : e.call = k]
<1>7. \A k \in A : f[k] \in listed /\ f[k].call = k
  BY <1>6
<1>8. f \in [A -> listed] /\ \A a, b \in A : f[a] = f[b] => a = b
  <2>1. f \in [A -> listed]
    BY <1>7
  <2> HIDE DEF f
  <2>2. QED BY <1>7, <2>1
<1> HIDE DEF f
<1>9. IsFiniteSet(A) /\ Cardinality(A) <= Cardinality(listed)
  BY <1>3, <1>8, NoLarger
<1>10. QED BY <1>3, <1>9 DEF A, W, listed

TightestHeld ==
    calls' # calls /\ Passed(Last(calls')) =>
        \A i \in Limits(rules) :
            (\A u \in used : Window(rules[i]) <= Window(u)) =>
                Cardinality({k \in Within(calls', Window(rules[i])) : Passed(calls'[k])})
                    <= rules[i].limit

LEMMA CheckTightest ==
    ASSUME RateInv, NEW hits, Check(hits)
    PROVE  TightestHeld
<1> SUFFICES ASSUME Passed(Last(calls')), NEW i \in Limits(rules),
                    \A u \in used : Window(rules[i]) <= Window(u)
             PROVE  Cardinality(Admitted(calls', Window(rules[i]))) <= rules[i].limit
  BY DEF TightestHeld, Admitted
<1> DEFINE n == Len(calls)
           W == Window(rules[i])
           A == Admitted(calls, W)
<1>1. /\ n \in Nat /\ DOMAIN calls = 1 .. n /\ DOMAIN calls' = 1 .. n + 1
      /\ \A k \in 1 .. n : calls'[k] = calls[k]
      /\ Last(calls') = calls'[n + 1]
      /\ Last(calls').outcome = "limited" <=> Rated.refused
  BY CheckAppends
<1>2. PICK F : /\ Stages(F) /\ Rated = F[Len(rules)]
               /\ \A j \in 0 .. Len(rules) : After(F, j)
               /\ UpTo(Len(rules)) = Limits(rules)
  BY RatedIsAfter
<1> DEFINE listed == Recent(F[i - 1].entries, rules[i])
<1>3. /\ IsFiniteSet(listed) /\ IsFiniteSet(A) /\ Cardinality(A) <= Cardinality(listed)
  BY <1>2, AdmittedAreCounted
<1>4. ~(Cardinality(listed) >= rules[i].limit)
  <2>1. ~Rated.refused
    BY <1>1 DEF Passed
  <2>2. Len(rules) \in 0 .. Len(rules)
    BY RuleType DEF RateInv, TypeInv
  <2>3. ~Full(F, i)
    BY <1>2, <2>1, <2>2 DEF After
  <2>4. QED BY <2>3 DEF Full, Exceeded
<1>5. rules[i].limit \in Nat
  BY RuleType DEF RateInv, TypeInv
<1>6. Admitted(calls', W) \subseteq A \cup {n + 1}
  BY <1>1 DEF Admitted, Within
<1>7. n + 1 \notin A
  BY <1>1 DEF Admitted, Within
<1> HIDE DEF A, W, listed, n
<1>8. IsFiniteSet(A \cup {n + 1}) /\ Cardinality(A \cup {n + 1}) = Cardinality(A) + 1
  BY <1>3, <1>7, FS_AddElement
<1>9. Cardinality(Admitted(calls', W)) <= Cardinality(A \cup {n + 1})
      /\ IsFiniteSet(Admitted(calls', W))
  BY <1>6, <1>8, FS_Subset
<1>10. /\ Cardinality(A) \in Nat /\ Cardinality(listed) \in Nat
       /\ Cardinality(Admitted(calls', W)) \in Nat
  BY <1>3, <1>9, FS_CardinalityType
<1>11. Cardinality(Admitted(calls', W)) <= rules[i].limit
  BY <1>3, <1>4, <1>5, <1>8, <1>9, <1>10
<1>12. QED BY <1>11 DEF W

-----------------------------------------------------------------------------
(* Refusals *)

\* What the earlier calls of the last w seconds can have entered, and the rules before i.
EnteredWithin(w) == UNION {{k} \X calls[k].rated : k \in Within(calls, w)}
Ahead(i) == {j \in Limits(rules) : j < i}

RefusedBusy ==
    calls' # calls /\ Last(calls').outcome = "limited" =>
        \E i \in Limits(rules) :
            rules[i].limit <=
                Cardinality(UNION {{k} \X calls[k].rated : k \in Within(calls, Window(rules[i]))})
                + Cardinality({j \in Limits(rules) : j < i})

\* An entry is told by its call and its rule, so the old ones are no more than those pairs.
LEMMA OldEntries ==
    ASSUME RateInv, NEW w
    PROVE  LET old == {e \in counter : now - e.time < w} IN
           /\ IsFiniteSet(old) /\ IsFiniteSet(EnteredWithin(w))
           /\ Cardinality(old) <= Cardinality(EnteredWithin(w))
<1> DEFINE old == {e \in counter : now - e.time < w}
           P == EnteredWithin(w)
           f == [e \in old |-> <<e.call, e.rule>>]
<1>1. IsFiniteSet(P)
  <2>1. P \subseteq Pairs
    BY DEF EnteredWithin, Pairs, Within
  <2>2. QED BY <2>1, FS_Subset DEF RateInv, TypeInv
<1>2. \A e \in old : f[e] = <<e.call, e.rule>>
  OBVIOUS
<1>3. ASSUME NEW e \in old PROVE <<e.call, e.rule>> \in P
  <2>1. e.call \in DOMAIN calls /\ e.time = calls[e.call].time /\ e.rule \in calls[e.call].rated
    BY DEF RateInv, Owned
  <2>2. e.call \in Within(calls, w)
    BY <2>1 DEF Within
  <2>3. QED BY <2>1, <2>2 DEF EnteredWithin
<1>4. f \in [old -> P]
  <2> HIDE DEF P
  <2>1. QED BY <1>3
<1>5. ASSUME NEW a \in old, NEW b \in old, f[a] = f[b] PROVE a = b
  <2>1. a.call = b.call /\ a.rule = b.rule
    BY <1>2, <1>5
  <2>2. a.time = b.time
    BY <2>1 DEF RateInv, Owned
  <2>3. a \in Entries /\ b \in Entries
    BY DEF RateInv, TypeInv
  <2>4. QED BY <2>1, <2>2, <2>3 DEF Entries
<1> HIDE DEF old, P, f
<1>6. IsFiniteSet(old) /\ Cardinality(old) <= Cardinality(P)
  BY <1>1, <1>4, <1>5, NoLarger
<1>7. QED BY <1>1, <1>6 DEF old, P

\* The rules ahead have entered this call at most once each.
LEMMA NewEntries ==
    ASSUME RateInv, NEW i \in Limits(rules)
    PROVE  LET new == {Entry(j) : j \in UpTo(i - 1)} IN
           /\ IsFiniteSet(new) /\ IsFiniteSet(Ahead(i))
           /\ Cardinality(new) <= Cardinality(Ahead(i))
<1> DEFINE new == {Entry(j) : j \in UpTo(i - 1)}
           f == [e \in new |-> e.rule]
<1>1. IsFiniteSet(Ahead(i)) /\ UpTo(i - 1) = Ahead(i)
  <2>1. IsFiniteSet(Limits(rules)) /\ Limits(rules) \subseteq 1 .. Len(rules) /\ Len(rules) \in Nat
    BY RuleType DEF RateInv, TypeInv
  <2>2. Ahead(i) \subseteq Limits(rules) /\ UpTo(i - 1) = Ahead(i)
    BY <2>1 DEF Ahead, UpTo
  <2>3. QED BY <2>1, <2>2, FS_Subset
<1>2. \A j : Entry(j).rule = j
  BY DEF Entry
<1>3. f \in [new -> Ahead(i)]
  BY <1>1, <1>2
<1>4. ASSUME NEW a \in new, NEW b \in new, f[a] = f[b] PROVE a = b
  <2>1. PICK j \in UpTo(i - 1), k \in UpTo(i - 1) : a = Entry(j) /\ b = Entry(k)
    OBVIOUS
  <2>2. a.rule = b.rule
    BY <1>4
  <2>3. QED BY <1>2, <2>1, <2>2
<1> HIDE DEF new, f
<1>5. IsFiniteSet(new) /\ Cardinality(new) <= Cardinality(Ahead(i))
  BY <1>1, <1>3, <1>4, NoLarger
<1>6. QED BY <1>1, <1>5 DEF new

LEMMA CheckRefused ==
    ASSUME RateInv, NEW hits, Check(hits)
    PROVE  RefusedBusy
<1> SUFFICES ASSUME Last(calls').outcome = "limited"
             PROVE  \E i \in Limits(rules) :
                       rules[i].limit <= Cardinality(EnteredWithin(Window(rules[i])))
                                         + Cardinality(Ahead(i))
  BY DEF RefusedBusy, EnteredWithin, Ahead
<1>1. Rated.refused
  BY CheckAppends
<1>2. PICK F : /\ Stages(F) /\ Rated = F[Len(rules)]
               /\ \A j \in 0 .. Len(rules) : After(F, j)
               /\ UpTo(Len(rules)) = Limits(rules)
  BY RatedIsAfter
<1>3. PICK i \in Limits(rules) : Full(F, i)
  <2>1. Len(rules) \in 0 .. Len(rules)
    BY RuleType DEF RateInv, TypeInv
  <2>2. QED BY <1>1, <1>2, <2>1 DEF After
<1> DEFINE W == Window(rules[i])
           listed == Recent(F[i - 1].entries, rules[i])
           old == {e \in counter : now - e.time < W}
           new == {Entry(j) : j \in UpTo(i - 1)}
<1>4. i - 1 \in 0 .. Len(rules) /\ rules[i].limit \in Nat
  BY RuleType DEF RateInv, TypeInv
<1>5. listed \subseteq old \cup new
  BY <1>2, <1>4 DEF After, Recent
<1>6. Cardinality(listed) >= rules[i].limit
  BY <1>3 DEF Full, Exceeded
<1>7. /\ IsFiniteSet(old) /\ IsFiniteSet(EnteredWithin(W))
      /\ Cardinality(old) <= Cardinality(EnteredWithin(W))
  BY OldEntries
<1>8. /\ IsFiniteSet(new) /\ IsFiniteSet(Ahead(i))
      /\ Cardinality(new) <= Cardinality(Ahead(i))
  BY NewEntries
<1> HIDE DEF listed, old, new, W
<1>9. /\ IsFiniteSet(old \cup new)
      /\ Cardinality(old \cup new) = Cardinality(old) + Cardinality(new) - Cardinality(old \cap new)
  BY <1>7, <1>8, FS_Union
<1>10. Cardinality(listed) <= Cardinality(old \cup new) /\ IsFiniteSet(listed)
  BY <1>5, <1>9, FS_Subset
<1>11. IsFiniteSet(old \cap new)
  BY <1>7, FS_Subset
<1>12. /\ Cardinality(listed) \in Nat /\ Cardinality(old) \in Nat /\ Cardinality(new) \in Nat
       /\ Cardinality(old \cap new) \in Nat /\ Cardinality(EnteredWithin(W)) \in Nat
       /\ Cardinality(Ahead(i)) \in Nat
  BY <1>7, <1>8, <1>10, <1>11, FS_CardinalityType
<1>13. rules[i].limit <= Cardinality(EnteredWithin(W)) + Cardinality(Ahead(i))
  BY <1>4, <1>6, <1>7, <1>8, <1>9, <1>10, <1>12
<1>14. QED BY <1>13 DEF W

-----------------------------------------------------------------------------
\* The rule with the shortest window there has been is never overrun, whatever other rules
\* share its list and whenever the cloud exchanged them (BYOCEngine._check_rate_limit).
THEOREM TightestHolds == Spec => TightestLimitHolds
<1>1. ASSUME RateInv, [Next]_vars
      PROVE  [TightestHeld]_vars
  <2>1. ASSUME NEW hits, Check(hits) PROVE TightestHeld
    BY <1>1, <2>1, CheckTightest
  <2>2. CASE calls' = calls
    BY <2>2 DEF TightestHeld
  <2>3. QED BY <1>1, <2>1, <2>2 DEF Next, Reload, Tick, vars
<1>2. QED BY <1>1, RateLimitInvariant, PTL DEF Spec, TightestLimitHolds, TightestHeld

\* A refused call has a rule whose window the earlier calls and the rules ahead of it can
\* have filled (BYOCEngine._check_rate_limit).
THEOREM RefusalsExplained == Spec => RefusedOnlyIfBusy
<1>1. ASSUME RateInv, [Next]_vars
      PROVE  [RefusedBusy]_vars
  <2>1. ASSUME NEW hits, Check(hits) PROVE RefusedBusy
    BY <1>1, <2>1, CheckRefused
  <2>2. CASE calls' = calls
    BY <2>2 DEF RefusedBusy
  <2>3. QED BY <1>1, <2>1, <2>2 DEF Next, Reload, Tick, vars
<1>2. QED BY <1>1, RateLimitInvariant, PTL DEF Spec, RefusedOnlyIfBusy, RefusedBusy
=============================================================================

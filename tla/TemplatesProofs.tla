----------------------------- MODULE TemplatesProofs --------------------------
(***************************************************************************)
(* What FilesLocator finds, whatever the templates are, and what follows   *)
(* for a whole project: no look-up fails and no addon throws; its files    *)
(* are from the best templates of its own server and service, use only     *)
(* what its poms have, and are in the right place; its poms resolve and    *)
(* its page fits, for all tables that fit the assumptions.                 *)
(***************************************************************************)
EXTENDS Templates, TLAPS, FiniteSetTheorems, WellFoundedInduction

\* A non-empty set of numbers up to n has a greatest one: n minus the smallest
\* difference to n.
LEMMA Greatest ==
    ASSUME NEW n \in Nat, NEW S \in SUBSET (0..n), S # {}
    PROVE  \E i \in S : \A j \in S : j <= i
<1> DEFINE less == OpToRel(<, Nat)
           D == {n - i : i \in S}
<1>1. D \subseteq Nat /\ D # {}
    <2>1. \A i \in S : n - i \in Nat
        OBVIOUS
    <2>2. PICK i \in S : TRUE
        OBVIOUS
    <2>3. n - i \in D
        OBVIOUS
    <2> QED
        BY <2>1, <2>3
<1>2. IsWellFoundedOn(less, Nat)
    BY NatLessThanWellFounded
<1> HIDE DEF less
<1>3. PICK d \in D : \A e \in D : <<e, d>> \notin less
    BY <1>1, <1>2, WFMin
<1>4. PICK i \in S : d = n - i
    OBVIOUS
<1>5. ASSUME NEW j \in S PROVE j <= i
    <2>1. <<n - j, d>> \notin less
        BY <1>3
    <2>2. ~(n - j < n - i)
        BY <2>1, <1>4 DEF less, OpToRel
    <2> QED
        BY <2>2
<1> QED
    BY <1>5

\* The loop over idx: if some size has a match, the one it stops at is the greatest.
LEMMA StopsAtGreatest ==
    ASSUME NEW candidates, NEW alts, IsFiniteSet(alts),
           MatchingSizes(candidates, alts) # {}
    PROVE  LET sizes == MatchingSizes(candidates, alts)
               m == CHOOSE i \in sizes : \A j \in sizes : j <= i
           IN  m \in sizes /\ \A j \in sizes : j <= m
<1>1. Cardinality(alts) \in Nat
    BY FS_CardinalityType
<1>2. MatchingSizes(candidates, alts) \subseteq 0..Cardinality(alts)
    BY <1>1 DEF MatchingSizes
<1>3. \E i \in MatchingSizes(candidates, alts) :
          \A j \in MatchingSizes(candidates, alts) : j <= i
    BY <1>1, <1>2, Greatest
<1> QED
    BY <1>3

\* The size of a candidate that fits and has alternatives is a matching one.
LEMMA FittingSize ==
    ASSUME NEW candidates, NEW alts, IsFiniteSet(alts), NEW u \in candidates,
           u.alternatives \subseteq alts
    PROVE  /\ IsFiniteSet(u.alternatives)
           /\ Cardinality(u.alternatives) \in Nat
           /\ u \in Matches(candidates, alts, Cardinality(u.alternatives))
           /\ u.alternatives # {} =>
                  Cardinality(u.alternatives) \in MatchingSizes(candidates, alts)
<1>1. /\ IsFiniteSet(u.alternatives)
      /\ Cardinality(u.alternatives) <= Cardinality(alts)
    BY FS_Subset
<1>2. Cardinality(u.alternatives) \in Nat /\ Cardinality(alts) \in Nat
    BY <1>1, FS_CardinalityType
<1>3. u \in Matches(candidates, alts, Cardinality(u.alternatives))
    BY DEF Matches, AlternativeSets
<1>4. u.alternatives # {} => Cardinality(u.alternatives) # 0
    BY <1>1, FS_EmptySet
<1> QED
    BY <1>1, <1>2, <1>3, <1>4 DEF MatchingSizes

\* What selectBasedOnAlternatives decides between: the candidates of which no
\* other one that fits has more alternatives.
LEMMA Finalists ==
    ASSUME NEW candidates, NEW alts, IsFiniteSet(alts),
           NEW t
    PROVE  LET sizes == MatchingSizes(candidates, alts)
               best == IF sizes # {}
                       THEN Matches(candidates, alts,
                                    CHOOSE i \in sizes : \A j \in sizes : j <= i)
                       ELSE {u \in candidates : u.alternatives = {}}
           IN  t \in best <=>
                   /\ t \in candidates
                   /\ t.alternatives \subseteq alts
                   /\ \A u \in candidates : u.alternatives \subseteq alts =>
                          Cardinality(u.alternatives) <= Cardinality(t.alternatives)
<1> DEFINE sizes == MatchingSizes(candidates, alts)
           m == CHOOSE i \in sizes : \A j \in sizes : j <= i
           IsGreatest(v) == \A u \in candidates : u.alternatives \subseteq alts =>
                               Cardinality(u.alternatives) <= Cardinality(v.alternatives)
<1>1. CASE sizes # {}
    <2>1. m \in sizes /\ \A j \in sizes : j <= m
        BY <1>1, StopsAtGreatest
    <2> HIDE DEF m, sizes
    <2>2. m \in Nat /\ m > 0 /\ Matches(candidates, alts, m) # {}
        <3>1. Cardinality(alts) \in Nat
            BY FS_CardinalityType
        <3>2. m \in 1..Cardinality(alts) /\ Matches(candidates, alts, m) # {}
            BY <2>1 DEF sizes, MatchingSizes
        <3> QED
            BY <3>1, <3>2
    <2>3. ASSUME NEW u \in candidates, u.alternatives \subseteq alts
          PROVE  Cardinality(u.alternatives) \in Nat /\ Cardinality(u.alternatives) <= m
        <3>1. CASE u.alternatives = {}
            BY <3>1, <2>2, FS_EmptySet
        <3>2. CASE u.alternatives # {}
            BY <3>2, <2>1, <2>3, FittingSize DEF sizes
        <3> QED
            BY <3>1, <3>2
    <2>4. PICK w \in candidates : w.alternatives \subseteq alts /\ Cardinality(w.alternatives) = m
        BY <2>2 DEF Matches, AlternativeSets
    <2>5. t \in Matches(candidates, alts, m) <=>
              t \in candidates /\ t.alternatives \subseteq alts /\ Cardinality(t.alternatives) = m
        BY DEF Matches, AlternativeSets
    <2>6. ASSUME t \in candidates, t.alternatives \subseteq alts
          PROVE  Cardinality(t.alternatives) = m <=> IsGreatest(t)
        BY <2>6, <2>2, <2>3, <2>4
    <2> QED
        BY <1>1, <2>5, <2>6 DEF m, sizes
<1>2. CASE sizes = {}
    <2>1. ASSUME NEW u \in candidates, u.alternatives \subseteq alts
          PROVE  u.alternatives = {} /\ Cardinality(u.alternatives) = 0
        BY <1>2, <2>1, FittingSize, FS_EmptySet
    <2>2. t \in candidates /\ t.alternatives = {} <=>
              t \in candidates /\ t.alternatives \subseteq alts /\ IsGreatest(t)
        BY <2>1
    <2> QED
        BY <1>2, <2>2
<1> QED
    BY <1>1, <1>2

-----------------------------------------------------------------------------
(* The theorems *)

\* Among several templates of a name, what findFile returns is at most one; it fits
\* the alternatives asked for, and every other one that fits has fewer
\* alternatives: none is more specific and none is a tie.
THEOREM LookupIsBest ==
    ASSUME NEW candidates, IsFiniteSet(candidates), NEW alts, IsFiniteSet(alts),
           NEW t \in SelectBasedOnAlternatives(candidates, alts)
    PROVE  /\ SelectBasedOnAlternatives(candidates, alts) = {t}
           /\ t \in candidates /\ t.alternatives \subseteq alts
           /\ \A u \in candidates \ {t} : u.alternatives \subseteq alts =>
                  Cardinality(u.alternatives) < Cardinality(t.alternatives)
<1> DEFINE sizes == MatchingSizes(candidates, alts)
           best == IF sizes # {}
                   THEN Matches(candidates, alts, CHOOSE i \in sizes : \A j \in sizes : j <= i)
                   ELSE {u \in candidates : u.alternatives = {}}
<1>1. SelectBasedOnAlternatives(candidates, alts) = best /\ Cardinality(best) = 1 /\ t \in best
    BY Zenon DEF SelectBasedOnAlternatives
<1>2. \A u : u \in best <=>
          /\ u \in candidates
          /\ u.alternatives \subseteq alts
          /\ \A v \in candidates : v.alternatives \subseteq alts =>
                 Cardinality(v.alternatives) <= Cardinality(u.alternatives)
    BY Finalists
<1> HIDE DEF best
<1>3. IsFiniteSet(best)
    <2>1. best \subseteq candidates
        BY <1>2
    <2> QED
        BY <2>1, FS_Subset
<1>4. best = {t}
    <2>1. \E x : best = {x}
        BY <1>1, <1>3, FS_Singleton
    <2> QED
        BY <1>1, <2>1
<1>5. ASSUME NEW u \in candidates \ {t}, u.alternatives \subseteq alts
      PROVE  Cardinality(u.alternatives) < Cardinality(t.alternatives)
    <2>1. u \notin best
        BY <1>4
    <2>2. PICK v \in candidates : /\ v.alternatives \subseteq alts
                                  /\ ~(Cardinality(v.alternatives) <= Cardinality(u.alternatives))
        BY <1>2, <1>5, <2>1
    <2>3. Cardinality(v.alternatives) <= Cardinality(t.alternatives)
        BY <1>2, <1>4, <2>2
    <2>4. /\ Cardinality(v.alternatives) \in Nat /\ Cardinality(u.alternatives) \in Nat
          /\ Cardinality(t.alternatives) \in Nat
        BY <1>1, <1>2, <1>5, <2>2, FittingSize
    <2> QED
        BY <2>2, <2>3, <2>4
<1> QED
    BY <1>1, <1>2, <1>4, <1>5

\* A lookup fails only if no template of the name fits, or if two of those that fit
\* best have the same number of alternatives.
THEOREM LookupFails ==
    ASSUME NEW candidates, IsFiniteSet(candidates), NEW alts, IsFiniteSet(alts),
           SelectBasedOnAlternatives(candidates, alts) = {},
           NEW t \in candidates, t.alternatives \subseteq alts,
           \A u \in candidates : u.alternatives \subseteq alts =>
               Cardinality(u.alternatives) <= Cardinality(t.alternatives)
    PROVE  \E u \in candidates \ {t} : /\ u.alternatives \subseteq alts
                                       /\ Cardinality(u.alternatives) = Cardinality(t.alternatives)
<1> DEFINE sizes == MatchingSizes(candidates, alts)
           best == IF sizes # {}
                   THEN Matches(candidates, alts, CHOOSE i \in sizes : \A j \in sizes : j <= i)
                   ELSE {u \in candidates : u.alternatives = {}}
<1>1. Cardinality(best) = 1 => best = {}
    BY Zenon DEF SelectBasedOnAlternatives
<1>2. \A u : u \in best <=>
          /\ u \in candidates
          /\ u.alternatives \subseteq alts
          /\ \A v \in candidates : v.alternatives \subseteq alts =>
                 Cardinality(v.alternatives) <= Cardinality(u.alternatives)
    BY Finalists
<1> HIDE DEF best
<1>3. t \in best
    BY <1>2
<1>4. best # {t}
    BY <1>1, FS_Singleton
<1>5. PICK u \in best : u # t
    BY <1>3, <1>4
<1>6. /\ Cardinality(u.alternatives) <= Cardinality(t.alternatives)
      /\ Cardinality(t.alternatives) <= Cardinality(u.alternatives)
    BY <1>2, <1>5
<1>7. Cardinality(u.alternatives) \in Nat /\ Cardinality(t.alternatives) \in Nat
    BY <1>2, <1>5, FittingSize
<1> QED
    BY <1>2, <1>5, <1>6, <1>7

-----------------------------------------------------------------------------
(* Sequences of sequences *)

\* What FlattenSeq makes step by step: h[k] is the first k sequences in one.  There is a
\* longest start of it that can be built, and it is all of it.
LEMMA FlattenSteps ==
    ASSUME NEW T, NEW seqs \in Seq(Seq(T)), seqs # <<>>
    PROVE  \E h \in [1..Len(seqs) -> Seq(T)] :
               /\ \A k \in 1..Len(seqs) : h[k] = IF k = 1 THEN seqs[k] ELSE h[k - 1] \o seqs[k]
               /\ FlattenSeq(seqs) = h[Len(seqs)]
<1> DEFINE n == Len(seqs)
           next(f, i) == IF i = 1 THEN seqs[i] ELSE f[i - 1] \o seqs[i]
           flatten == CHOOSE f : f = [i \in 1..n |-> next(f, i)]
<1>a. n \in Nat /\ DOMAIN seqs = 1..n /\ \A i \in 1..n : seqs[i] \in Seq(T)
    OBVIOUS
<1>b. n # 0
    OBVIOUS
<1>1. FlattenSeq(seqs) = flatten[n]
    BY <1>b DEF FlattenSeq
<1> HIDE DEF n
<1>2. \E f \in [1..n -> Seq(T)] : \A i \in 1..n : f[i] = next(f, i)
    <2> DEFINE Good(k) == \E f \in [1..k -> Seq(T)] : \A i \in 1..k : f[i] = next(f, i)
               S == {k \in 0..n : Good(k)}
    <2>1. Good(0)
        <3>1. [i \in 1..0 |-> <<>>] \in [1..0 -> Seq(T)] /\ \A i \in 1..0 : FALSE
            OBVIOUS
        <3> QED
            BY <3>1
    <2> HIDE DEF Good
    <2>2. PICK k \in S : \A j \in S : j <= k
        <3>1. S \in SUBSET (0..n) /\ 0 \in S
            BY <2>1, <1>a
        <3> HIDE DEF S
        <3> QED
            BY <3>1, <1>a, Greatest
    <2>3. k \in 0..n /\ Good(k)
        BY <2>2
    <2>4. ASSUME k < n PROVE FALSE
        <3>1. PICK f \in [1..k -> Seq(T)] : \A i \in 1..k : f[i] = next(f, i)
            BY <2>3 DEF Good
        <3> DEFINE g == [i \in 1..(k + 1) |-> IF i <= k THEN f[i] ELSE next(f, i)]
        <3>2. k \in Nat /\ k + 1 \in 1..n /\ k + 1 \in Nat
            BY <2>3, <2>4, <1>a
        <3>3. next(f, k + 1) \in Seq(T)
            <4>1. CASE k = 0
                BY <4>1, <3>2, <1>a
            <4>2. CASE k # 0
                <5>1. f[k] \in Seq(T) /\ seqs[k + 1] \in Seq(T) /\ k + 1 # 1 /\ (k + 1) - 1 = k
                    BY <4>2, <3>2, <1>a
                <5>2. f[k] \o seqs[k + 1] \in Seq(T)
                    BY <5>1
                <5> QED
                    BY <5>1, <5>2
            <4> QED
                BY <4>1, <4>2
        <3>4. ASSUME NEW i \in 1..(k + 1)
              PROVE  g[i] \in Seq(T) /\ g[i] = next(g, i)
            <4>1. CASE i = k + 1
                <5>1. g[i] = next(f, i)
                    BY <4>1, <3>2
                <5>2. i # 1 => g[i - 1] = f[i - 1]
                    BY <4>1, <3>2
                <5> QED
                    BY <5>1, <5>2, <4>1, <3>3
            <4>2. CASE i <= k
                <5>1. i \in 1..k /\ g[i] = f[i] /\ (i # 1 => g[i - 1] = f[i - 1])
                    BY <4>2, <3>2
                <5> QED
                    BY <5>1, <3>1
            <4> QED
                BY <4>1, <4>2, <3>2
        <3>5. g \in [1..(k + 1) -> Seq(T)]
            BY <3>4
        <3> HIDE DEF g
        <3>6. Good(k + 1)
            BY <3>4, <3>5 DEF Good
        <3>7. k + 1 \in S
            BY <3>2, <3>6
        <3> QED
            BY <3>7, <2>2, <3>2
    <2>5. k = n
        BY <2>3, <2>4, <1>a
    <2>6. Good(n)
        BY <2>3, <2>5, Zenon
    <2> QED
        BY <2>6 DEF Good
<1>3. PICK f \in [1..n -> Seq(T)] : \A i \in 1..n : f[i] = next(f, i)
    BY <1>2
<1>4. f = [i \in 1..n |-> next(f, i)]
    BY <1>3
<1>5. flatten = [i \in 1..n |-> next(flatten, i)]
    BY <1>4
<1> HIDE DEF flatten
<1>6. \A i \in 1..n : flatten[i] = next(flatten, i)
    <2>1. \A i \in 1..n : [j \in 1..n |-> next(flatten, j)][i] = next(flatten, i)
        OBVIOUS
    <2> QED
        BY <1>5, <2>1
<1>7. ASSUME NEW i \in 1..n, \A j \in 1..n : j < i => flatten[j] \in Seq(T)
      PROVE  flatten[i] \in Seq(T)
    <2>1. CASE i = 1
        BY <2>1, <1>6, <1>a
    <2>2. CASE i # 1
        <3>1. i - 1 \in 1..n /\ i - 1 < i
            BY <2>2, <1>a
        <3>2. flatten[i - 1] \in Seq(T) /\ seqs[i] \in Seq(T)
            BY <3>1, <1>7, <1>a
        <3>3. flatten[i] = flatten[i - 1] \o seqs[i]
            BY <2>2, <1>6
        <3> QED
            BY <3>2, <3>3
    <2> QED
        BY <2>1, <2>2
<1>8. \A i \in 1..n : flatten[i] \in Seq(T)
    <2> DEFINE D == {k \in 0..n : \A j \in 1..n : j <= k => flatten[j] \in Seq(T)}
    <2>1. 0 \in D /\ D \in SUBSET (0..n)
        BY <1>a
    <2>2. PICK k \in D : \A j \in D : j <= k
        <3> HIDE DEF D
        <3> QED
            BY <2>1, <1>a, Greatest
    <2>3. CASE k < n
        <3>1. k + 1 \in 1..n /\ k \in 0..n
            BY <2>2, <2>3, <1>a
        <3>2. \A j \in 1..n : j < k + 1 => flatten[j] \in Seq(T)
            BY <2>2, <1>a
        <3>3. flatten[k + 1] \in Seq(T)
            BY <3>1, <3>2, <1>7
        <3>4. \A j \in 1..n : j <= k + 1 => flatten[j] \in Seq(T)
            BY <3>1, <3>2, <3>3, <1>a
        <3>5. k + 1 \in D
            BY <3>1, <3>4, <1>a
        <3> QED
            BY <3>1, <3>5, <2>2
    <2>4. CASE k = n
        BY <2>2, <2>4, <1>b, <1>a
    <2> QED
        BY <2>2, <2>3, <2>4, <1>a
<1>9. flatten \in [1..n -> Seq(T)]
    BY <1>5, <1>8
<1> QED
    BY <1>1, <1>6, <1>9 DEF n

\* FlattenSeq makes a sequence of elements of the parts,
LEMMA Flattened ==
    ASSUME NEW T, NEW seqs \in Seq(Seq(T))
    PROVE  FlattenSeq(seqs) \in Seq(T)
<1>1. CASE seqs = <<>>
    BY <1>1 DEF FlattenSeq
<1>2. CASE seqs # <<>>
    BY <1>2, FlattenSteps
<1> QED
    BY <1>1, <1>2

\* A sequence that is joined has what its two parts have,
LEMMA JoinedHas ==
    ASSUME NEW T, NEW s \in Seq(T), NEW t \in Seq(T)
    PROVE  ToSet(s \o t) = ToSet(s) \cup ToSet(t)
<1>1. \A i \in DOMAIN (s \o t) : (s \o t)[i] \in ToSet(s) \cup ToSet(t)
    BY DEF ToSet
<1>2. \A i \in DOMAIN s : i \in DOMAIN (s \o t) /\ (s \o t)[i] = s[i]
    OBVIOUS
<1>3. \A i \in DOMAIN t : i + Len(s) \in DOMAIN (s \o t) /\ (s \o t)[i + Len(s)] = t[i]
    OBVIOUS
<1> QED
    BY <1>1, <1>2, <1>3 DEF ToSet

\* and FlattenSeq leaves nothing of the parts out.
LEMMA FlattenHas ==
    ASSUME NEW T, NEW seqs \in Seq(Seq(T)), NEW i \in DOMAIN seqs, NEW x \in ToSet(seqs[i])
    PROVE  x \in ToSet(FlattenSeq(seqs))
<1> DEFINE n == Len(seqs)
<1>1. n \in Nat /\ i \in 1..n /\ seqs # <<>> /\ \A k \in 1..n : seqs[k] \in Seq(T)
    OBVIOUS
<1> HIDE DEF n
<1>2. PICK h \in [1..n -> Seq(T)] :
          /\ \A k \in 1..n : h[k] = IF k = 1 THEN seqs[k] ELSE h[k - 1] \o seqs[k]
          /\ FlattenSeq(seqs) = h[n]
    BY <1>1, FlattenSteps DEF n
<1>3. x \in ToSet(h[i])
    <2>1. CASE i = 1
        BY <1>1, <1>2, <2>1
    <2>2. CASE i # 1
        <3>1. i \in 1..n /\ i - 1 \in 1..n
            BY <1>1, <2>2
        <3>2. h[i - 1] \in Seq(T) /\ seqs[i] \in Seq(T) /\ h[i] = h[i - 1] \o seqs[i]
            BY <1>1, <1>2, <2>2, <3>1
        <3> QED
            BY <3>2, JoinedHas
    <2> QED
        BY <2>1, <2>2
<1>4. ASSUME NEW k \in 1..n, i < k, x \in ToSet(h[k - 1])
      PROVE  x \in ToSet(h[k])
    <2>1. k \in 1..n /\ k - 1 \in 1..n /\ k # 1
        BY <1>1, <1>4
    <2>2. h[k - 1] \in Seq(T) /\ seqs[k] \in Seq(T) /\ h[k] = h[k - 1] \o seqs[k]
        BY <1>1, <1>2, <2>1
    <2> QED
        BY <1>4, <2>2, JoinedHas
<1> DEFINE S == {k \in 0..n : i <= k /\ x \in ToSet(h[k])}
<1>5. S \in SUBSET (0..n) /\ i \in S
    BY <1>1, <1>3
<1>6. PICK k \in S : \A j \in S : j <= k
    <2> HIDE DEF S
    <2> QED
        BY <1>1, <1>5, Greatest
<1>7. k \in 0..n /\ i <= k /\ x \in ToSet(h[k])
    BY <1>6
<1>8. ASSUME k < n PROVE FALSE
    <2>1. k + 1 \in 1..n /\ (k + 1) - 1 = k /\ i < k + 1 /\ i <= k + 1 /\ k + 1 \in 0..n
        BY <1>1, <1>7, <1>8
    <2>2. x \in ToSet(h[k + 1])
        BY <1>4, <1>7, <2>1
    <2>3. k + 1 \in S
        BY <2>1, <2>2
    <2> QED
        BY <1>6, <1>7, <2>3
<1>9. k = n
    BY <1>1, <1>7, <1>8
<1> QED
    BY <1>2, <1>7, <1>9

-----------------------------------------------------------------------------
(* The pom of a service *)

\* What applyMavenAdapters makes step by step: h[k] is the pom after k addons.
LEMMA PomSteps ==
    ASSUME NEW p, NEW main, NEW T, NEW list \in Seq(T)
    PROVE  \E h : /\ h[0] = CreateSingleModule(p)
                  /\ \A k \in 1..Len(list) : h[k] = AdaptMavenModel(h[k - 1], list[k], p, main)
                  /\ h[Len(list)] = Pom(p, list, main)
<1> DEFINE n == Len(list)
           last(s) == CHOOSE x \in s : \A y \in s : x >= y
           next(f, s) == IF s = {} THEN CreateSingleModule(p)
                         ELSE AdaptMavenModel(f[s \ {last(s)}], list[last(s)], p, main)
           iter == CHOOSE f : f = [s \in SUBSET (1..n) |-> next(f, s)]
           Good(k) == \E f : f = [s \in SUBSET (1..k) |-> next(f, s)]
<1>1. n \in Nat /\ DOMAIN list = 1..n
    OBVIOUS
<1>2. Pom(p, list, main) = iter[1..n]
    BY <1>1 DEF Pom, FoldLeft, MapThenFoldSet, Max
<1> HIDE DEF n
<1>3. ASSUME NEW k \in Nat
      PROVE  \A s \in SUBSET (1..(k + 1)) : k + 1 \in s => last(s) = k + 1
    <2> SUFFICES ASSUME NEW s \in SUBSET (1..(k + 1)), k + 1 \in s
                 PROVE  last(s) = k + 1
        OBVIOUS
    <2>1. \A x \in s : x \in Nat /\ k + 1 >= x
        OBVIOUS
    <2>2. \A x \in s : (\A y \in s : x >= y) <=> x = k + 1
        BY <2>1
    <2> QED
        BY <2>2
<1>4. ASSUME NEW k \in Nat, NEW s \in SUBSET (1..k), s # {}
      PROVE  last(s) \in s
    <2>1. s \in SUBSET (0..k)
        BY <1>4
    <2>2. PICK i \in s : \A j \in s : j <= i
        BY <1>4, <2>1, Greatest
    <2>3. \A j \in s : i >= j
        BY <2>1, <2>2
    <2> QED
        BY <2>3
<1> HIDE DEF last
<1>5. Good(0)
    <2>1. SUBSET (1..0) = {{}}
        OBVIOUS
    <2> DEFINE f == [s \in SUBSET (1..0) |-> CreateSingleModule(p)]
    <2>2. f = [s \in SUBSET (1..0) |-> next(f, s)]
        BY <2>1
    <2> QED
        BY <2>2
<1>6. ASSUME NEW k \in Nat, Good(k)
      PROVE  Good(k + 1)
    <2>1. PICK f : f = [s \in SUBSET (1..k) |-> next(f, s)]
        BY <1>6
    <2>2. \A s \in SUBSET (1..k) : f[s] = next(f, s)
        <3>1. \A s \in SUBSET (1..k) : [r \in SUBSET (1..k) |-> next(f, r)][s] = next(f, s)
            OBVIOUS
        <3> QED
            BY <2>1, <3>1
    <2> DEFINE g == [s \in SUBSET (1..(k + 1)) |-> IF s \subseteq 1..k THEN f[s] ELSE next(f, s)]
    <2>3. ASSUME NEW s \in SUBSET (1..(k + 1))
          PROVE  g[s] = next(g, s)
        <3>1. CASE s = {}
            <4>1. s \in SUBSET (1..k)
                BY <3>1
            <4>2. g[s] = f[s]
                BY <4>1
            <4> QED
                BY <3>1, <4>1, <4>2, <2>2
        <3>2. CASE s # {} /\ s \subseteq 1..k
            <4>1. s \in SUBSET (1..k) /\ s \ {last(s)} \in SUBSET (1..k)
                BY <3>2
            <4>2. s \ {last(s)} \in SUBSET (1..(k + 1))
                BY <4>1
            <4>3. g[s] = f[s] /\ g[s \ {last(s)}] = f[s \ {last(s)}]
                BY <4>1, <4>2
            <4> HIDE DEF g
            <4> QED
                BY <3>2, <4>1, <4>3, <2>2
        <3>3. CASE ~(s \subseteq 1..k)
            <4>1. k + 1 \in s
                BY <3>3
            <4>2. last(s) = k + 1 /\ s # {}
                BY <4>1, <1>3
            <4>3. s \ {last(s)} \in SUBSET (1..k) /\ s \ {last(s)} \in SUBSET (1..(k + 1))
                BY <4>2
            <4>4. g[s] = next(f, s) /\ g[s \ {last(s)}] = f[s \ {last(s)}]
                BY <3>3, <4>3
            <4> HIDE DEF g
            <4> QED
                BY <4>2, <4>4
        <3> QED
            BY <3>1, <3>2, <3>3
    <2>4. g = [s \in SUBSET (1..(k + 1)) |-> next(g, s)]
        BY <2>3
    <2> QED
        BY <2>4
<1>7. Good(n)
    <2> HIDE DEF Good
    <2> DEFINE S == {k \in 0..n : Good(k)}
    <2>1. S \in SUBSET (0..n) /\ S # {}
        BY <1>1, <1>5
    <2>2. PICK k \in S : \A j \in S : j <= k
        <3> HIDE DEF S
        <3> QED
            BY <2>1, <1>1, Greatest
    <2>3. k \in 0..n /\ Good(k) /\ (k < n => k + 1 \in 0..n)
        BY <2>2, <1>1
    <2>4. k < n => k + 1 \in S
        BY <2>3, <1>6, <1>1
    <2>5. k = n
        BY <2>2, <2>3, <2>4, <1>1
    <2> QED
        BY <2>3, <2>5, Zenon
<1>8. iter = [s \in SUBSET (1..n) |-> next(iter, s)]
    BY <1>7
<1>9. \A s \in SUBSET (1..n) : iter[s] = next(iter, s)
    <2> HIDE DEF iter
    <2>1. \A s \in SUBSET (1..n) : [r \in SUBSET (1..n) |-> next(iter, r)][s] = next(iter, s)
        OBVIOUS
    <2> QED
        BY <1>8, <2>1
<1> DEFINE h == [k \in 0..n |-> iter[1..k]]
<1> HIDE DEF iter
<1>10. h[0] = CreateSingleModule(p)
    <2>1. 1..0 = {} /\ 1..0 \in SUBSET (1..n) /\ 0 \in 0..n
        BY <1>1
    <2> QED
        BY <2>1, <1>9
<1>11. ASSUME NEW k \in 1..n
       PROVE  h[k] = AdaptMavenModel(h[k - 1], list[k], p, main)
    <2>1. k \in Nat /\ k - 1 \in Nat /\ (k - 1) + 1 = k /\ k - 1 \in 0..n /\ k \in 0..n
        BY <1>1
    <2>2. 1..k \in SUBSET (1..n) /\ k \in 1..k
        BY <2>1, <1>1
    <2>3. last(1..k) = k
        BY <1>3, <2>1, <2>2
    <2>4. (1..k) \ {k} = 1..(k - 1)
        BY <2>1
    <2>5. iter[1..k] = AdaptMavenModel(iter[1..(k - 1)], list[k], p, main)
        BY <1>9, <2>2, <2>3, <2>4
    <2> QED
        BY <2>1, <2>5
<1>12. h[n] = Pom(p, list, main)
    BY <1>1, <1>2
<1> HIDE DEF h
<1> QED
    BY <1>10, <1>11, <1>12 DEF n

Fields == {"profile", "parent", "packaging", "properties", "dependencies", "extensions"}
JarServers == {"QUARKUS", "KUMULUZEE", "HELIDON"}
GivenBy(p) ==
    CASE p.server = "WILDFLY_SWARM" -> {}
      [] p.server = "THORNTAIL_V2" -> Given(p, {"version.thorntail"})
      [] p.server = "QUARKUS" -> {"version.quarkus"}
      [] p.server = "WILDFLY" -> {"version.wildfly"}
      [] p.server = "LIBERTY" -> {"openliberty.maven.version", "jaeger.client.version",
                                  "slf4j.api.version", "slf4j.jdk.version"}
      [] p.server = "KUMULUZEE" -> Given(p, {"kumuluz.version", "kumuluzee-config-mp.version",
                                             "kumuluzee-microprofile.version"})
      [] p.server = "PAYARA_MICRO" -> {"payaraMavenPluginVersion"} \cup Given(p, {"payaraVersion"})
      [] p.server = "TOMEE" -> Given(p, {"tomee.version"})
      [] p.server = "HELIDON" -> {"package"} \cup Given(p, {"helidonVersion", "mpVersion"})
ParentOf(p) == p.server = "HELIDON" /\ p.version \notin {"MP30", "MP22", "MP12"}
ExtensionsOf(p, main) ==
    CASE p.server = "WILDFLY" -> WildFlyLayers(p, main)
      [] p.server = "QUARKUS" -> QuarkusExtensions(p, main)
      [] OTHER -> {}
MpDependencies(p, main) ==
    (IF main /\ "JWT_AUTH" \in p.specs THEN {"vertx-auth-jwt"} ELSE {})
    \cup (IF main THEN {"GRAPHQL"} \cap p.standalone ELSE {})

\* pom is what is made once mp, if mp holds, and the server's addon, if server holds,
\* have been at it.
Adapted(pom, p, main, mp, server) ==
    /\ DOMAIN pom = Fields
    /\ pom.profile = IF mp THEN FindProfile(p) ELSE Null
    /\ pom.dependencies = Platform(p) \cup (IF mp THEN MpDependencies(p, main) ELSE {})
    /\ pom.properties = CreateSingleModule(p).properties \cup (IF server THEN GivenBy(p) ELSE {})
    /\ pom.packaging = IF server /\ p.server \in JarServers THEN "jar" ELSE "war"
    /\ pom.parent = (server /\ ParentOf(p))
    /\ pom.extensions = IF server THEN ExtensionsOf(p, main) ELSE {}

\* The addon of a server, when it does not throw, does its part of the pom, whatever has
\* been done before,
LEMMA AdaptedByServer ==
    ASSUME NEW p, p.server \in Servers, NEW main \in BOOLEAN, NEW pom, NEW mp \in BOOLEAN,
           NEW server \in BOOLEAN, Adapted(pom, p, main, mp, server),
           NEW new, new = AdaptByServer(pom, p, main), new # Null
    PROVE  Adapted(new, p, main, mp, TRUE)
<1>1. p.server \in {"WILDFLY_SWARM", "THORNTAIL_V2", "QUARKUS", "WILDFLY", "LIBERTY",
                    "KUMULUZEE", "PAYARA_MICRO", "TOMEE", "HELIDON"}
    BY CodesAssumption
<1>2. CASE p.server = "WILDFLY_SWARM"
    BY <1>2 DEF AdaptByServer, Adapted, Fields, GivenBy, ParentOf, ExtensionsOf, JarServers
<1>3. CASE p.server = "THORNTAIL_V2"
    BY <1>3 DEF AdaptByServer, AdaptByThorntail, Adapted, Fields, GivenBy, ParentOf, ExtensionsOf, JarServers
<1>4. CASE p.server = "QUARKUS"
    BY <1>4 DEF AdaptByServer, AdaptByQuarkus, Adapted, Fields, GivenBy, ParentOf, ExtensionsOf, JarServers
<1>5. CASE p.server = "WILDFLY"
    BY <1>5 DEF AdaptByServer, AdaptByWildFly, Adapted, Fields, GivenBy, ParentOf, ExtensionsOf, JarServers
<1>6. CASE p.server = "LIBERTY"
    BY <1>6 DEF AdaptByServer, AdaptByLiberty, Adapted, Fields, GivenBy, ParentOf, ExtensionsOf, JarServers
<1>7. CASE p.server = "KUMULUZEE"
    BY <1>7 DEF AdaptByServer, AdaptByKumuluzEE, Adapted, Fields, GivenBy, ParentOf, ExtensionsOf, JarServers
<1>8. CASE p.server = "PAYARA_MICRO"
    BY <1>8 DEF AdaptByServer, AdaptByPayara, Adapted, Fields, GivenBy, ParentOf, ExtensionsOf, JarServers
<1>9. CASE p.server = "TOMEE"
    BY <1>9 DEF AdaptByServer, AdaptByTomee, Adapted, Fields, GivenBy, ParentOf, ExtensionsOf, JarServers
<1>10. CASE p.server = "HELIDON"
    BY <1>10 DEF AdaptByServer, AdaptByHelidon, Adapted, Fields, GivenBy, ParentOf, ExtensionsOf, JarServers
<1> QED
    BY <1>1, <1>2, <1>3, <1>4, <1>5, <1>6, <1>7, <1>8, <1>9, <1>10

\* and so the pom of a service does not depend on the order of its addons: it is given by
\* which have been at it.
LEMMA PomParts ==
    ASSUME NEW p, p.server \in Servers, NEW main \in BOOLEAN, NEW T, NEW list \in Seq(T),
           Pom(p, list, main) # Null
    PROVE  Adapted(Pom(p, list, main), p, main,
                   \E i \in DOMAIN list : list[i] = "mp", \E i \in DOMAIN list : list[i] # "mp")
<1> DEFINE n == Len(list)
           Mp(k) == \E i \in 1..k : list[i] = "mp"
           Server(k) == \E i \in 1..k : list[i] # "mp"
<1>1. n \in Nat /\ DOMAIN list = 1..n
    OBVIOUS
<1>2. PICK h : /\ h[0] = CreateSingleModule(p)
               /\ \A k \in 1..n : h[k] = AdaptMavenModel(h[k - 1], list[k], p, main)
               /\ h[n] = Pom(p, list, main)
    BY PomSteps
<1> HIDE DEF n
<1>3. Adapted(h[0], p, main, Mp(0), Server(0))
    <2>1. Mp(0) = FALSE /\ Server(0) = FALSE
        OBVIOUS
    <2> HIDE DEF Mp, Server
    <2> DEFINE first == CreateSingleModule(p)
    <2>2. /\ DOMAIN first = Fields
          /\ first.profile = Null /\ first.dependencies = Platform(p) /\ first.packaging = "war"
          /\ first.parent = FALSE /\ first.extensions = {}
        BY DEF CreateSingleModule, Fields
    <2>3. h[0] = first
        BY <1>2
    <2> HIDE DEF first
    <2>4. first.properties \cup {} = first.properties /\ Platform(p) \cup {} = Platform(p)
        OBVIOUS
    <2>5. first.properties = CreateSingleModule(p).properties
        BY DEF first
    <2> QED
        BY <2>1, <2>2, <2>3, <2>4, <2>5, Zenon DEF Adapted
<1>4. ASSUME NEW k \in 1..n, h[k] # Null,
             h[k - 1] # Null => Adapted(h[k - 1], p, main, Mp(k - 1), Server(k - 1))
      PROVE  Adapted(h[k], p, main, Mp(k), Server(k))
    <2>1. h[k] = AdaptMavenModel(h[k - 1], list[k], p, main)
        BY <1>2
    <2>2. h[k - 1] # Null
        BY <1>4, <2>1 DEF AdaptMavenModel
    <2>3. k \in Nat /\ 1..k = 1..(k - 1) \cup {k}
        BY <1>1
    <2>4. CASE list[k] = "mp"
        <3>1. Mp(k) /\ (Server(k) <=> Server(k - 1))
            BY <2>3, <2>4
        <3> HIDE DEF Mp, Server
        <3>2. h[k] = AdaptByMp(h[k - 1], p, main) /\ Adapted(h[k - 1], p, main, Mp(k - 1), Server(k - 1))
            BY <1>4, <2>1, <2>2, <2>4 DEF AdaptMavenModel
        <3> DEFINE old == h[k - 1]
        <3>3. h[k] = [old EXCEPT
                  !.profile = FindProfile(p),
                  !.dependencies = @ \cup (IF main /\ "JWT_AUTH" \in p.specs THEN {"vertx-auth-jwt"} ELSE {})
                                     \cup (IF main THEN {"GRAPHQL"} \cap p.standalone ELSE {})]
            BY <1>4, <3>2, Zenon DEF AdaptByMp
        <3> HIDE DEF old
        <3> QED
            BY <3>1, <3>2, <3>3 DEF Adapted, Fields, MpDependencies, old
    <2>5. CASE list[k] # "mp"
        <3>1. Server(k) /\ (Mp(k) <=> Mp(k - 1)) /\ Server(k - 1) \in BOOLEAN /\ Mp(k - 1) \in BOOLEAN
            BY <2>3, <2>5
        <3> HIDE DEF Mp, Server
        <3>2. h[k] = AdaptByServer(h[k - 1], p, main)
            BY <2>1, <2>2, <2>5 DEF AdaptMavenModel
        <3>3. Adapted(h[k], p, main, Mp(k - 1), TRUE)
            BY <1>4, <2>2, <3>1, <3>2, AdaptedByServer
        <3> QED
            BY <3>1, <3>3 DEF Adapted
    <2> QED
        BY <2>4, <2>5
<1>5. h[n] # Null => Adapted(h[n], p, main, Mp(n), Server(n))
    <2> HIDE DEF Mp, Server
    <2> DEFINE S == {k \in 0..n : h[k] # Null => Adapted(h[k], p, main, Mp(k), Server(k))}
    <2>1. S \in SUBSET (0..n) /\ 0 \in S
        BY <1>1, <1>3
    <2>2. PICK k \in S : \A j \in S : j <= k
        <3> HIDE DEF S
        <3> QED
            BY <2>1, <1>1, Greatest
    <2>3. k \in Nat /\ k <= n
        BY <2>1, <1>1
    <2>4. k < n => k + 1 \in S
        <3> SUFFICES ASSUME k < n, h[k + 1] # Null
                     PROVE  Adapted(h[k + 1], p, main, Mp(k + 1), Server(k + 1))
            BY <2>3, <1>1
        <3>1. k + 1 \in 1..n /\ (k + 1) - 1 = k
            BY <2>3, <1>1
        <3> QED
            BY <1>4, <3>1
    <2>5. k = n
        BY <2>2, <2>3, <2>4, <1>1
    <2> QED
        BY <2>5
<1> QED
    BY <1>1, <1>2, <1>5

\* A pom for what a server offers.
Offer(p) ==
    /\ p.server \in Servers /\ p.version \in Offered(p.server) /\ p.version \in Versions
    /\ p.specs \subseteq Specs /\ p.standalone \subseteq Standalone

\* The profile of a server refers to what its addon gives, for this version.
ProfileFits(p) ==
    /\ FindProfile(p) # Null
    /\ ProfileUses[FindProfile(p)] \ {"parent"}
           \subseteq CreateSingleModule(p).properties \cup GivenBy(p)
    /\ ParentOf(p) <=> "parent" \in ProfileUses[FindProfile(p)]

\* What the addon of a server makes of a pom, when nothing it needs is missing.
LEMMA ServerMakes ==
    ASSUME NEW p, p.server \in Servers, p.specs \subseteq Specs, NEW main \in BOOLEAN,
           NEW pom \in PomType, p.server \in {"WILDFLY", "TOMEE"} => pom.profile # Null,
           p.server \in {"QUARKUS", "WILDFLY"} => HasVersion(p),
           NEW new, new = AdaptByServer(pom, p, main)
    PROVE  /\ new \in PomType
           /\ new.profile = pom.profile
           /\ new.properties = pom.properties \cup GivenBy(p)
           /\ new.parent = IF p.server = "HELIDON" THEN ParentOf(p) ELSE pom.parent
<1>1. p.server \in {"WILDFLY_SWARM", "THORNTAIL_V2", "QUARKUS", "WILDFLY", "LIBERTY",
                    "KUMULUZEE", "PAYARA_MICRO", "TOMEE", "HELIDON"}
    BY CodesAssumption
<1>2. GivenBy(p) \subseteq Properties
    BY <1>1 DEF GivenBy, Given, Properties
<1>3. CASE p.server = "WILDFLY_SWARM"
    BY <1>3 DEF AdaptByServer, PomType, GivenBy
<1>4. CASE p.server = "THORNTAIL_V2"
    <2>1. new = [pom EXCEPT !.properties = @ \cup GivenBy(p)]
        BY <1>4 DEF AdaptByServer, AdaptByThorntail, GivenBy
    <2> QED
        BY <1>2, <1>4, <2>1 DEF PomType
<1>5. CASE p.server = "QUARKUS"
    <2>1. new = [pom EXCEPT !.properties = @ \cup GivenBy(p), !.packaging = "jar",
                            !.extensions = QuarkusExtensions(p, main)]
        BY <1>5 DEF AdaptByServer, AdaptByQuarkus, GivenBy
    <2>2. QuarkusExtensions(p, main) \subseteq Specs
        BY CodesAssumption DEF QuarkusExtensions
    <2> QED
        BY <1>2, <1>5, <2>1, <2>2 DEF PomType
<1>6. CASE p.server = "WILDFLY"
    <2>1. new = [pom EXCEPT !.properties = @ \cup GivenBy(p),
                            !.extensions = WildFlyLayers(p, main)]
        BY <1>6 DEF AdaptByServer, AdaptByWildFly, GivenBy
    <2>2. WildFlyLayers(p, main) \subseteq Specs
        BY CodesAssumption DEF WildFlyLayers
    <2> QED
        BY <1>2, <1>6, <2>1, <2>2 DEF PomType
<1>7. CASE p.server = "LIBERTY"
    <2>1. new = [pom EXCEPT !.properties = @ \cup GivenBy(p)]
        BY <1>7 DEF AdaptByServer, AdaptByLiberty, GivenBy
    <2> QED
        BY <1>2, <1>7, <2>1 DEF PomType
<1>8. CASE p.server = "KUMULUZEE"
    <2>1. new = [pom EXCEPT !.packaging = "jar", !.properties = @ \cup GivenBy(p)]
        BY <1>8 DEF AdaptByServer, AdaptByKumuluzEE, GivenBy
    <2> QED
        BY <1>2, <1>8, <2>1 DEF PomType
<1>9. CASE p.server = "PAYARA_MICRO"
    <2>1. new = [pom EXCEPT !.properties = @ \cup {"payaraMavenPluginVersion"}
                                             \cup Given(p, {"payaraVersion"})]
        BY <1>9 DEF AdaptByServer, AdaptByPayara
    <2>2. GivenBy(p) = {"payaraMavenPluginVersion"} \cup Given(p, {"payaraVersion"})
        BY <1>9 DEF GivenBy
    <2> QED
        BY <1>2, <1>9, <2>1, <2>2 DEF PomType
<1>10. CASE p.server = "TOMEE"
    <2>1. new = [pom EXCEPT !.properties = @ \cup GivenBy(p)]
        BY <1>10 DEF AdaptByServer, AdaptByTomee, GivenBy
    <2> QED
        BY <1>2, <1>10, <2>1 DEF PomType
<1>11. CASE p.server = "HELIDON"
    <2>1. new = [pom EXCEPT !.packaging = "jar",
                     !.properties = @ \cup {"package"} \cup Given(p, {"helidonVersion", "mpVersion"}),
                     !.parent = p.version \notin {"MP30", "MP22", "MP12"}]
        BY <1>11 DEF AdaptByServer, AdaptByHelidon
    <2>2. /\ GivenBy(p) = {"package"} \cup Given(p, {"helidonVersion", "mpVersion"})
          /\ ParentOf(p) = (p.version \notin {"MP30", "MP22", "MP12"})
        BY <1>11 DEF GivenBy, ParentOf
    <2> QED
        BY <1>2, <1>11, <2>1, <2>2 DEF PomType
<1> QED
    BY <1>1, <1>3, <1>4, <1>5, <1>6, <1>7, <1>8, <1>9, <1>10, <1>11

\* What MavenCreator starts with, and what the addon mp makes of a pom whose profile there is.
LEMMA MpMakes ==
    ASSUME NEW p, Offer(p), NEW main \in BOOLEAN
    PROVE  /\ CreateSingleModule(p) \in PomType
           /\ FindProfile(p) \in Profiles
           /\ \A pom \in PomType : FindProfile(p) \in DOMAIN ProfileUses =>
                  /\ AdaptByMp(pom, p, main) \in PomType
                  /\ AdaptByMp(pom, p, main).profile = FindProfile(p)
<1>1. CreateSingleModule(p) \in PomType
    BY DEF CreateSingleModule, Platform, PomType, Properties
<1>2. FindProfile(p) \in Profiles
    BY DEF FindProfile, ProfileOf, Id, Profiles, ServerName, Offer
<1>3. ASSUME NEW pom \in PomType, FindProfile(p) \in DOMAIN ProfileUses
      PROVE  /\ AdaptByMp(pom, p, main) \in PomType
             /\ AdaptByMp(pom, p, main).profile = FindProfile(p)
    <2> DEFINE more == (IF main /\ "JWT_AUTH" \in p.specs THEN {"vertx-auth-jwt"} ELSE {})
                       \cup (IF main THEN {"GRAPHQL"} \cap p.standalone ELSE {})
    <2>1. AdaptByMp(pom, p, main) = [pom EXCEPT !.profile = FindProfile(p),
                                                !.dependencies = @ \cup more]
        BY <1>3 DEF AdaptByMp
    <2>2. more \subseteq {"vertx-auth-jwt"} \cup Standalone
        BY DEF Offer
    <2> HIDE DEF more
    <2> QED
        BY <1>2, <2>1, <2>2 DEF PomType
<1> QED
    BY <1>1, <1>2, <1>3

\* The tables fit for what is asked for, as they do for a pom without any specs: profile and
\* properties depend on the server and its version alone.
LEMMA TablesFit ==
    ASSUME NEW p, Offer(p)
    PROVE  /\ ProfileFits(p) /\ FindProfile(p) \in DOMAIN ProfileUses
           /\ p.server \in {"QUARKUS", "WILDFLY"} => HasVersion(p)
<1> DEFINE s == p.server
           v == p.version
           b == Bare(s, v)
           start == [CreateSingleModule(b) EXCEPT !.profile = Id(Code[s], v)]
           pom == BarePom(s, v)
           profile == ProfileOf(IF pom.parent THEN "helidon2" ELSE Code[s], v)
<1>1. /\ s \in Servers /\ v \in Offered(s) /\ v \in Versions
      /\ b.server = s /\ b.version = v /\ b.specs = {} /\ Offer(b)
    BY DEF Offer, Bare
<1>2. /\ pom # Null /\ profile \in DOMAIN ProfileUses
      /\ Resolved([pom EXCEPT !.profile = profile])
      /\ s = "HELIDON" => (pom.parent <=> NotOlder(v, "MP32"))
    BY <1>1, PomsAssumption
<1> HIDE DEF b
<1>3. start \in PomType /\ start.parent = FALSE /\ start.profile = Id(Code[s], v)
      /\ start.properties = CreateSingleModule(p).properties
    <2>1. CreateSingleModule(b) \in PomType
        BY <1>1, MpMakes
    <2>2. Id(Code[s], v) \in Profiles
        BY <1>1 DEF Id, Profiles
    <2>3. /\ CreateSingleModule(b).parent = FALSE
          /\ CreateSingleModule(b).properties = CreateSingleModule(p).properties
        BY DEF CreateSingleModule
    <2> QED
        BY <2>1, <2>2, <2>3 DEF PomType
<1>4. pom = AdaptByServer(start, b, TRUE)
    BY DEF BarePom, b
<1> HIDE DEF start, pom
<1>5. s \in {"QUARKUS", "WILDFLY"} => HasVersion(b)
    BY <1>1, <1>2, <1>4 DEF AdaptByServer, AdaptByQuarkus, AdaptByWildFly
<1>6. s \in {"WILDFLY", "TOMEE"} => start.profile # Null
    BY <1>1, <1>2, <1>4 DEF AdaptByServer, AdaptByTomee, AdaptByWildFly
<1>7. /\ pom \in PomType
      /\ pom.properties = start.properties \cup GivenBy(b)
      /\ pom.parent = IF s = "HELIDON" THEN ParentOf(b) ELSE FALSE
    <2>1. /\ b.server \in Servers /\ b.specs \subseteq Specs
          /\ b.server \in {"WILDFLY", "TOMEE"} => start.profile # Null
          /\ b.server \in {"QUARKUS", "WILDFLY"} => HasVersion(b)
        BY <1>1, <1>5, <1>6
    <2>2. /\ pom \in PomType
          /\ pom.properties = start.properties \cup GivenBy(b)
          /\ pom.parent = IF b.server = "HELIDON" THEN ParentOf(b) ELSE start.parent
        <3> DEFINE main == TRUE
        <3>1. main \in BOOLEAN /\ pom = AdaptByServer(start, b, main) /\ start \in PomType
            BY <1>3, <1>4
        <3> HIDE DEF s, v, main
        <3> QED
            BY <2>1, <3>1, ServerMakes
    <2> QED
        BY <1>1, <1>3, <2>2
<1>8. /\ HasVersion(p) <=> HasVersion(b)
      /\ GivenBy(b) = GivenBy(p) /\ (ParentOf(b) <=> ParentOf(p))
    BY <1>1 DEF HasVersion, Given, GivenBy, ParentOf
<1>9. pom.parent <=> ParentOf(p)
    <2>1. s # "HELIDON" => ~ParentOf(p)
        BY DEF ParentOf
    <2> QED
        BY <1>7, <1>8, <2>1
<1>10. profile = FindProfile(p)
    <2>1. ServerName(p) = IF pom.parent THEN "helidon2" ELSE Code[s]
        BY <1>2, <1>9 DEF ServerName, ParentOf
    <2> QED
        BY <2>1 DEF FindProfile
<1> HIDE DEF profile
<1>11. ProfileFits(p)
    <2> DEFINE r == [pom EXCEPT !.profile = profile]
    <2>1. r.profile = profile /\ r.properties = pom.properties /\ r.parent = pom.parent
        BY <1>7 DEF PomType
    <2>2. Resolved(r)
        BY <1>2
    <2> HIDE DEF r
    <2>3. /\ profile # Null /\ ProfileUses[profile] \ {"parent"} \subseteq pom.properties
          /\ pom.parent <=> "parent" \in ProfileUses[profile]
        BY <2>1, <2>2, Zenon DEF Resolved
    <2> QED
        BY <2>3, <1>3, <1>7, <1>8, <1>9, <1>10, Zenon DEF ProfileFits
<1> QED
    BY <1>2, <1>5, <1>8, <1>10, <1>11

\* No addon throws, in whatever order those after mp are.
LEMMA PomMade ==
    ASSUME NEW p, Offer(p), NEW main \in BOOLEAN, NEW T, NEW list \in Seq(T), list # <<>>,
           list[1] = "mp"
    PROVE  Pom(p, list, main) # Null
<1> DEFINE n == Len(list)
<1>1. n \in Nat /\ n > 0 /\ Null \notin PomType
    BY PomTypeAssumption
<1>2. PICK h : /\ h[0] = CreateSingleModule(p)
               /\ \A k \in 1..n : h[k] = AdaptMavenModel(h[k - 1], list[k], p, main)
               /\ h[n] = Pom(p, list, main)
    BY PomSteps
<1> HIDE DEF n
<1> DEFINE Good(k) == h[k] \in PomType /\ h[k].profile # Null
<1>3. /\ FindProfile(p) \in DOMAIN ProfileUses /\ FindProfile(p) # Null
      /\ p.server \in {"QUARKUS", "WILDFLY"} => HasVersion(p)
    BY TablesFit DEF ProfileFits
<1>4. \A k \in 1..n : h[k - 1] \in PomType /\ list[k] = "mp" => Good(k)
    <2> SUFFICES ASSUME NEW k \in 1..n, h[k - 1] \in PomType, list[k] = "mp"
                 PROVE  Good(k)
        OBVIOUS
    <2>1. h[k] = AdaptByMp(h[k - 1], p, main)
        BY <1>1, <1>2 DEF AdaptMavenModel
    <2> QED
        BY <1>3, <2>1, MpMakes
<1>5. \A k \in 1..n : Good(k - 1) /\ list[k] # "mp" => Good(k)
    <2> SUFFICES ASSUME NEW k \in 1..n, Good(k - 1), list[k] # "mp"
                 PROVE  Good(k)
        OBVIOUS
    <2>1. h[k] = AdaptByServer(h[k - 1], p, main)
        BY <1>1, <1>2 DEF AdaptMavenModel
    <2>2. h[k] \in PomType /\ h[k].profile = h[k - 1].profile
        BY <1>3, <2>1, ServerMakes DEF Offer
    <2> QED
        BY <2>2
<1>6. Good(1)
    <2>1. 1 \in 1..n /\ 1 - 1 = 0
        BY <1>1
    <2>2. h[0] \in PomType
        BY <1>2, MpMakes
    <2> QED
        BY <1>4, <2>1, <2>2
<1> HIDE DEF Good
<1>7. Good(n)
    <2> DEFINE S == {k \in 1..n : Good(k)}
    <2>1. S \in SUBSET (0..n) /\ 1 \in S
        BY <1>1, <1>6
    <2>2. PICK k \in S : \A j \in S : j <= k
        <3> HIDE DEF S
        <3> QED
            BY <1>1, <2>1, Greatest
    <2>3. k < n => Good(k + 1)
        <3> SUFFICES ASSUME k < n PROVE Good(k + 1)
            OBVIOUS
        <3>1. k + 1 \in 1..n /\ (k + 1) - 1 = k /\ Good(k)
            BY <1>1, <2>2
        <3>2. h[k] \in PomType
            BY <3>1 DEF Good
        <3> QED
            BY <1>4, <1>5, <3>1, <3>2
    <2>4. k = n
        BY <1>1, <2>2, <2>3
    <2> QED
        BY <2>2, <2>4
<1> QED
    BY <1>1, <1>2, <1>7 DEF Good

-----------------------------------------------------------------------------
(* What creators and addons look up *)

\* The names that all servers look up, with the alternatives of the request alone or with
\* the mark of the second service, and those that one server looks up.
OwnersNames == {pair[2] : pair \in OwnNames}
Calling == CallingNames \cup {"ProtectedController.java"}
Common == PlainNames \cup (SecondaryNames \ (Calling \cup OwnersNames))
Dirs == {"top", "service-a", Secondary}
ExamplePlaces == {"health", "config", "metric", "openapi", "resilient", "graphql"}
CalmPlaces == {"root", "wrapper", "java", "WEB-INF", "META-INF", "WEB", "webapp", "resources",
               "client", "secure", "liberty", "security"}
Places == CalmPlaces \cup ExamplePlaces

\* A template of that name for a file in dir is looked up with the alternatives that
\* it should be: those of the request, "gradle" for a file of Gradle and only then,
\* the mark of the second service for a file of it that may differ and only there.
Suits(dir, name, alts) ==
    /\ alternatives \subseteq alts
    /\ alts \subseteq alternatives \cup {"gradle", Secondary}
    /\ "gradle" \in alts => project.tool = "GRADLE"
    /\ Secondary \in alts => dir = Secondary
    /\ name \in GradleNames => "gradle" \in alts
    /\ name \in SecondaryNames /\ dir = Secondary => Secondary \in alts
    /\ \A pair \in OwnNames : pair[2] = name => pair[1] = project.server

\* What the pom of a service lets its code use.
Supplied(main) ==
    Platform(project) \cup MpDependencies(project, main) \cup ExtensionsOf(project, main)
    \cup CASE project.server = "WILDFLY" -> {"REST_CLIENT"}
           [] project.server = "QUARKUS" -> {"CONFIG"}
           [] OTHER -> Specs
Served(path) == Needs([path |-> path]) \subseteq Supplied(path.dir # Secondary)

WithoutWebapp == {"KUMULUZEE", "HELIDON"}
\* The health checks of the version.
HealthNames ==
    IF A \cap Generations = {} THEN {"ServiceHealthCheck.java"}
    ELSE {"ServiceLiveHealthCheck.java", "ServiceReadyHealthCheck.java"}
         \cup (IF A \cap {"mp4_1", "mp5_x"} = {} THEN {} ELSE {"ServiceStartupHealthCheck.java"})
Path(dir, place, name) == [dir |-> dir, place |-> place, name |-> name]
Fits(dir, place, template, name, alts) ==
    /\ Suits(dir, template, alts)
    /\ Served(Path(dir, place, name))
    /\ name = "beans.xml" =>
           project.beans /\ place = "META-INF" /\ project.server \in WithoutWebapp
    /\ place = "health" => name \in HealthNames
    /\ name = "index.html" => template = name /\ alts = A

Step == [dir : Dirs, place : Places, template : Names \cup {Null},
         name : Names \cup {"MP-JWT-SIGNER", Null},
         alternatives : SUBSET Alternatives, remove : BOOLEAN]
Proper ==
    {step \in Step :
        IF step.remove
        THEN step.place \in {"webapp", "WEB-INF"} /\ project.server \in JarServers
        ELSE /\ step.template \in Names
             /\ Fits(step.dir, step.place, step.template, step.name, step.alternatives)}
\* The steps of CDICreator, which works before the addon of a server removes WEB-INF.
WebBeans(dir) ==
    [dir |-> dir, place |-> "WEB-INF", template |-> "beans.xml", name |-> "beans.xml",
     alternatives |-> A, remove |-> FALSE]
ProperBeans == {step \in {WebBeans(dir) : dir \in Dirs} : project.beans}

OfServer == VersionAlternatives[project.version] \cup {Code[project.server]}
Early == {"template", "dependent", "order", "alternatives"}
\* What creators and addons start from.
Ready == project \in Projects /\ alternatives \subseteq OfServer

\* A project in the tables, with alternatives of its server and version, is not taken
\* for one of Gradle, of the second service or of another server.
LEMMA InTables ==
    ASSUME Ready
    PROVE  /\ project.server \in Servers /\ project.version \in Versions
           /\ project.tool \in {"MAVEN", "GRADLE"}
           /\ project.specs \subseteq Specs /\ project.beans \in BOOLEAN
           /\ alternatives \cup {"gradle", Secondary} \subseteq Alternatives
           /\ "gradle" \notin alternatives /\ Secondary \notin alternatives
           /\ \A s \in Servers : Code[s] \in alternatives => s = project.server
<1>1. project \in Project
    BY ProjectsAssumption DEF Ready
<1>2. /\ project.server \in Servers /\ project.version \in Versions
      /\ project.tool \in {"MAVEN", "GRADLE"}
      /\ project.specs \subseteq Specs /\ project.beans \in BOOLEAN
    BY <1>1 DEF Project
<1>3. OfServer \cup {"gradle", Secondary} \subseteq Alternatives
    <2>1. VersionAlternatives[project.version] \subseteq Alternatives
        BY <1>2, AlternativesAssumption
    <2>2. Code[project.server] \in {Code[s] : s \in Servers}
        BY <1>2
    <2>3. Code[project.server] \in Alternatives /\ {"gradle", Secondary} \subseteq Alternatives
        BY <2>2 DEF Alternatives
    <2> QED
        BY <2>1, <2>3 DEF OfServer
<1>4. "gradle" \notin OfServer /\ Secondary \notin OfServer
    BY <1>2, CodesAssumption DEF OfServer
<1>5. \A s \in Servers : Code[s] \in OfServer => s = project.server
    <2> SUFFICES ASSUME NEW s \in Servers, Code[s] \in OfServer
                 PROVE  s = project.server
        OBVIOUS
    <2>1. Code[s] \in {Code[t] : t \in Servers}
        OBVIOUS
    <2>2. Code[s] \notin VersionAlternatives[project.version]
        BY <1>2, <2>1, CodesAssumption
    <2>3. Code[s] = Code[project.server]
        BY <2>2 DEF OfServer
    <2> QED
        BY <1>2, <2>3, CodesAssumption
<1> QED
    BY <1>2, <1>3, <1>4, <1>5 DEF Ready

\* The directories of the two services; only the second one is marked.
LEMMA Directories ==
    /\ Dir(TRUE) \in Dirs /\ Dir(TRUE) # Secondary
    /\ Dir(FALSE) \in Dirs /\ (Dir(FALSE) = Secondary <=> Split)
BY DEF Dir, Dirs, Secondary, Split, Has

\* A service can use the specs that its examples are for, with every server: WildFly and
\* Quarkus get the parts for them, or for what calls the other service.
LEMMA Provided ==
    ASSUME Ready
    PROVE  /\ \A spec \in MainOnly : Has(spec) => spec \in Supplied(TRUE)
           /\ Has("CONFIG") => "CONFIG" \in Supplied(TRUE)
           /\ "GRAPHQL" \in project.standalone => "GRAPHQL" \in Supplied(TRUE)
           /\ Has("REST_CLIENT") => {"REST_CLIENT", "CONFIG"} \subseteq Supplied(TRUE)
           /\ Has("JWT_AUTH") => {"vertx-auth-jwt", "CONFIG", "REST_CLIENT"} \subseteq Supplied(TRUE)
           /\ Has("JWT_AUTH") => "JWT_AUTH" \in Supplied(FALSE)
<1>1. project.specs \subseteq Specs /\ {"CONFIG", "REST_CLIENT"} \subseteq Specs
    BY InTables, CodesAssumption
<1>2. CASE project.server = "WILDFLY"
    BY <1>2 DEF Supplied, MpDependencies, ExtensionsOf, WildFlyLayers, Calls, MainOnly, Has
<1>3. CASE project.server = "QUARKUS"
    BY <1>3 DEF Supplied, MpDependencies, ExtensionsOf, QuarkusExtensions, Calls, MainOnly, Has
<1>4. CASE project.server \notin {"WILDFLY", "QUARKUS"}
    <2>1. \A main \in BOOLEAN : Specs \cup MpDependencies(project, main) \subseteq Supplied(main)
        BY <1>4 DEF Supplied
    <2> QED
        BY <1>1, <2>1 DEF MpDependencies, Has
<1> QED
    BY <1>2, <1>3, <1>4

\* Only examples need something,
LEMMA Calm ==
    ASSUME NEW dir, NEW place \in CalmPlaces, NEW name, name \notin Calling
    PROVE  Served(Path(dir, place, name)) /\ place # "health"
<1>1. Needs([path |-> Path(dir, place, name)]) = {}
    BY DEF Needs, Path, CalmPlaces, Calling, CallingNames
<1> QED
    BY <1>1 DEF Served, CalmPlaces

\* and they have it.
LEMMA Examples ==
    ASSUME Ready
    PROVE  \A name :
        /\ name \in PlainNames =>
               /\ Has("HEALTH_CHECKS") => Served(Path(Dir(TRUE), "health", name))
               /\ Has("CONFIG") => Served(Path(Dir(TRUE), "config", name))
               /\ Has("METRICS") => Served(Path(Dir(TRUE), "metric", name))
               /\ Has("OPEN_API") => Served(Path(Dir(TRUE), "openapi", name))
               /\ Has("FAULT_TOLERANCE") => Served(Path(Dir(TRUE), "resilient", name))
               /\ "GRAPHQL" \in project.standalone => Served(Path(Dir(TRUE), "graphql", name))
        /\ Has("REST_CLIENT") /\ name \in {"Service.java", "ClientController.java"}
               => Served(Path(Dir(TRUE), "client", name))
        /\ Has("JWT_AUTH") /\ name = "TestSecureController.java"
               => Served(Path(Dir(TRUE), "secure", name))
        /\ JwtB /\ name = "ProtectedController.java"
               => Served(Path(Dir(FALSE), "secure", name))
<1> TAKE name
<1>1. \A place : Needs([path |-> Path(Dir(TRUE), place, name)]) \subseteq Supplied(TRUE)
                     => Served(Path(Dir(TRUE), place, name))
    BY Directories DEF Served, Path
<1>2. JwtB => Has("JWT_AUTH") /\ \A place :
          Needs([path |-> Path(Dir(FALSE), place, name)]) \subseteq Supplied(FALSE)
              => Served(Path(Dir(FALSE), place, name))
    BY Directories DEF Served, Path, JwtB
<1>3. ASSUME NEW dir, name \in PlainNames
      PROVE
          /\ Needs([path |-> Path(dir, "health", name)]) = {"HEALTH_CHECKS"}
          /\ Needs([path |-> Path(dir, "config", name)]) = {"CONFIG"}
          /\ Needs([path |-> Path(dir, "metric", name)]) = {"METRICS"}
          /\ Needs([path |-> Path(dir, "openapi", name)]) = {"OPEN_API"}
          /\ Needs([path |-> Path(dir, "resilient", name)]) = {"FAULT_TOLERANCE"}
          /\ Needs([path |-> Path(dir, "graphql", name)]) = {"GRAPHQL"}
    <2>1. name \notin Calling
        BY <1>3 DEF PlainNames, Calling, CallingNames
    <2> QED
        BY <2>1 DEF Needs, Path, Calling, CallingNames
<1>4. \A dir :
          /\ name \in {"Service.java", "ClientController.java"} =>
                 Needs([path |-> Path(dir, "client", name)]) = {"REST_CLIENT", "CONFIG"}
          /\ name = "TestSecureController.java" =>
                 Needs([path |-> Path(dir, "secure", name)])
                     = {"vertx-auth-jwt", "CONFIG", "REST_CLIENT"}
          /\ name = "ProtectedController.java" =>
                 Needs([path |-> Path(dir, "secure", name)]) = {"JWT_AUTH"}
    BY DEF Needs, Path
<1>5. {"HEALTH_CHECKS", "METRICS", "OPEN_API", "FAULT_TOLERANCE"} \subseteq MainOnly
    BY DEF MainOnly
<1> QED
    BY <1>1, <1>2, <1>3, <1>4, <1>5, Provided

\* A lookup that fits its file is proper,
LEMMA LookedUp ==
    ASSUME Ready, NEW dir \in Dirs, NEW place \in Places, NEW template \in Names,
           NEW name \in Names \cup {"MP-JWT-SIGNER"}, NEW alts,
           Fits(dir, place, template, name, alts)
    PROVE  WriteAs(dir, place, template, name, alts) \in Seq(Proper)
<1>1. alts \in SUBSET Alternatives
    BY InTables DEF Fits, Suits
<1> DEFINE step == [dir |-> dir, place |-> place, template |-> template, name |-> name,
                    alternatives |-> alts, remove |-> FALSE]
<1>2. step \in Step
    BY <1>1 DEF Step
<1>3. step \in Proper
    BY <1>2 DEF Proper
<1> QED
    BY <1>3 DEF WriteAs

\* and so is any removal,
LEMMA Removed ==
    ASSUME NEW dir \in Dirs, NEW place \in {"webapp", "WEB-INF"}, project.server \in JarServers
    PROVE  RemoveDir(dir, place) \in Seq(Proper)
<1> DEFINE step == [dir |-> dir, place |-> place, template |-> Null, name |-> Null,
                    alternatives |-> {}, remove |-> TRUE]
<1>1. step \in Step
    BY DEF Step, Places, CalmPlaces
<1>2. step \in Proper
    BY <1>1 DEF Proper
<1> QED
    BY <1>2 DEF RemoveDir

\* and a list of lookups that fit.
LEMMA AllLookedUp ==
    ASSUME Ready, NEW dir \in Dirs, NEW place \in Places, NEW S \in SUBSET Names,
           NEW names \in Seq(S), NEW alts, \A name \in S : Fits(dir, place, name, name, alts)
    PROVE  WriteAll(dir, place, names, alts) \in Seq(Proper)
<1> DEFINE steps == [i \in DOMAIN names |-> Write(dir, place, names[i], alts)]
<1>1. \A i \in DOMAIN names : names[i] \in S
    OBVIOUS
<1>2. \A i \in DOMAIN names : Write(dir, place, names[i], alts) \in Seq(Proper)
    BY <1>1, LookedUp DEF Write
<1>3. DOMAIN names = 1..Len(names) /\ Len(names) \in Nat
    OBVIOUS
<1>4. steps \in [1..Len(names) -> Seq(Proper)]
    BY <1>2, <1>3
<1> HIDE DEF steps
<1>5. steps \in Seq(Seq(Proper))
    BY <1>3, <1>4
<1> QED
    BY <1>5, Flattened DEF WriteAll, steps

\* What an addon looks up with the alternatives of the request alone suits, unless the
\* second service is to have a file of its own of that name;
LEMMA SuitsFirst ==
    ASSUME Ready, NEW dir, NEW name \in Common \cup Calling \cup {"beans.xml"},
           name \notin SecondaryNames \/ dir # Secondary
    PROVE  Suits(dir, name, A)
<1>1. name \notin GradleNames /\ \A pair \in OwnNames : pair[2] # name
    BY DEF Common, Calling, PlainNames, SecondaryNames, GradleNames, OwnNames, CallingNames, OwnersNames
<1>2. "gradle" \notin alternatives /\ Secondary \notin alternatives
    BY InTables
<1> QED
    BY <1>1, <1>2 DEF Suits, A

\* with the mark of the second service it suits there.
LEMMA SuitsSecond ==
    ASSUME Ready, NEW name \in Common \cup Calling
    PROVE  Suits(Secondary, name, B)
<1>1. name \notin GradleNames /\ \A pair \in OwnNames : pair[2] # name
    BY DEF Common, Calling, PlainNames, SecondaryNames, GradleNames, OwnNames, CallingNames, OwnersNames
<1>2. "gradle" # Secondary /\ "gradle" \notin alternatives
    BY InTables DEF Secondary
<1> QED
    BY <1>1, <1>2 DEF Suits, B

\* The plain files in any service,
LEMMA PlainFiles ==
    ASSUME Ready, NEW dir \in Dirs, NEW place \in CalmPlaces
    PROVE  /\ \A name \in PlainNames : Write(dir, place, name, A) \in Seq(Proper)
           /\ \A names \in Seq(PlainNames) : WriteAll(dir, place, names, A) \in Seq(Proper)
<1>1. /\ PlainNames \in SUBSET Names /\ place \in Places
      /\ \A name \in PlainNames : name \in Common /\ name \notin Calling \cup {"beans.xml"}
                             /\ name \notin SecondaryNames
    BY DEF Common, Names, Places, PlainNames, Calling, SecondaryNames, CallingNames, OwnersNames, OwnNames
<1>2. \A name \in PlainNames : Fits(dir, place, name, name, A)
    BY <1>1, SuitsFirst, Calm DEF Fits
<1>3. \A name \in PlainNames : Write(dir, place, name, A) \in Seq(Proper)
    BY <1>1, <1>2, LookedUp DEF Write
<1>4. \A names \in Seq(PlainNames) : WriteAll(dir, place, names, A) \in Seq(Proper)
    BY <1>1, <1>2, AllLookedUp
<1> QED
    BY <1>3, <1>4

\* all common files in the first,
LEMMA FilesOfFirst ==
    ASSUME Ready, NEW place \in CalmPlaces
    PROVE  /\ \A name \in Common : Write(Dir(TRUE), place, name, A) \in Seq(Proper)
           /\ \A names \in Seq(Common) : WriteAll(Dir(TRUE), place, names, A) \in Seq(Proper)
<1>1. /\ Common \in SUBSET Names /\ place \in Places
      /\ \A name \in Common : name \notin Calling \cup {"beans.xml"}
    BY DEF Common, Names, Places, PlainNames, Calling, SecondaryNames, CallingNames, OwnersNames, OwnNames
<1>2. \A name \in Common : Fits(Dir(TRUE), place, name, name, A)
    BY <1>1, SuitsFirst, Directories, Calm DEF Fits
<1>3. \A name \in Common : Write(Dir(TRUE), place, name, A) \in Seq(Proper)
    BY <1>1, <1>2, LookedUp, Directories DEF Write
<1>4. \A names \in Seq(Common) : WriteAll(Dir(TRUE), place, names, A) \in Seq(Proper)
    BY <1>1, <1>2, AllLookedUp, Directories
<1> QED
    BY <1>3, <1>4

\* and in the second one with its mark.
LEMMA FilesOfSecond ==
    ASSUME Ready, Split, NEW place \in CalmPlaces, NEW name \in Common \ {"index.html"}
    PROVE  Write(Dir(FALSE), place, name, B) \in Seq(Proper)
<1>1. Dir(FALSE) = Secondary /\ Dir(FALSE) \in Dirs /\ place \in Places
    BY Directories DEF Places
<1>2. name \in Names /\ name \notin Calling \cup {"beans.xml"}
    BY DEF Common, Names, PlainNames, Calling, SecondaryNames, CallingNames, OwnersNames, OwnNames
<1>3. Fits(Dir(FALSE), place, name, name, B)
    BY <1>1, <1>2, SuitsSecond, Calm DEF Fits
<1> QED
    BY <1>1, <1>2, <1>3, LookedUp DEF Write

\* An example that the first service can use.
LEMMA ExampleOfFirst ==
    ASSUME Ready, NEW place \in Places, NEW S \in SUBSET (PlainNames \cup Calling),
           \A name \in S : Served(Path(Dir(TRUE), place, name)),
           place = "health" => S \subseteq HealthNames
    PROVE  /\ \A name \in S : Write(Dir(TRUE), place, name, A) \in Seq(Proper)
           /\ \A names \in Seq(S) : WriteAll(Dir(TRUE), place, names, A) \in Seq(Proper)
<1>1. S \in SUBSET Names /\ "beans.xml" \notin S /\ S \subseteq Common \cup Calling
    BY DEF Common, Names, SecondaryNames, PlainNames, Calling, CallingNames, OwnersNames, OwnNames
<1>2. \A name \in S : Fits(Dir(TRUE), place, name, name, A)
    BY <1>1, SuitsFirst, Directories DEF Fits
<1>3. \A name \in S : Write(Dir(TRUE), place, name, A) \in Seq(Proper)
    BY <1>1, <1>2, LookedUp, Directories DEF Write
<1>4. \A names \in Seq(S) : WriteAll(Dir(TRUE), place, names, A) \in Seq(Proper)
    BY <1>1, <1>2, AllLookedUp, Directories
<1> QED
    BY <1>3, <1>4

\* Sequences of proper steps are joined
LEMMA Joined ==
    ASSUME NEW T, NEW s \in Seq(T), NEW t \in Seq(T)
    PROVE  s \o t \in Seq(T)
OBVIOUS

\* and left out to sequences of proper steps.
LEMMA Chosen ==
    ASSUME NEW T, NEW condition, NEW s, condition => s \in Seq(T)
    PROVE  When(condition, s) \in Seq(T)
<1>1. <<>> \in Seq(T)
    OBVIOUS
<1> QED
    BY <1>1, Zenon DEF When

\* Creator by creator and addon by addon, each step is proper: the beans.xml of a server
\* without webapp,
LEMMA BeansXmlProper ==
    ASSUME Ready, NEW main \in BOOLEAN, project.server \in WithoutWebapp
    PROVE  BeansXml(main, "META-INF") \in Seq(Proper)
<1>1. ASSUME project.beans
      PROVE  Write(Dir(main), "META-INF", "beans.xml", A) \in Seq(Proper)
    <2>1. /\ "META-INF" \in CalmPlaces /\ "META-INF" \in Places /\ "beans.xml" \in Names
          /\ "beans.xml" \notin Calling /\ "beans.xml" \notin SecondaryNames
        BY DEF Places, CalmPlaces, Names, Calling, SecondaryNames, CallingNames
    <2>2. Fits(Dir(main), "META-INF", "beans.xml", "beans.xml", A)
        BY <1>1, <2>1, SuitsFirst, Calm DEF Fits
    <2> QED
        BY <2>1, <2>2, LookedUp, Directories DEF Write
<1> QED
    BY <1>1, Chosen DEF BeansXml

\* the files of GradleCreator, with "gradle" among the alternatives,
LEMMA GradleProper ==
    ASSUME Ready, project.tool = "GRADLE"
    PROVE  CreateGradleFiles \in Seq(Proper)
<1>1. ASSUME NEW main \in BOOLEAN, ~main => Split
      PROVE  GradleDirectories(main) \in Seq(Proper)
    <2> DEFINE alts == (IF main THEN A ELSE B) \cup {"gradle"}
    <2>1. Dir(main) \in Dirs /\ (Dir(main) = Secondary <=> ~main)
        BY <1>1, Directories
    <2>2. \A name \in GradleNames :
              /\ name \notin SecondaryNames /\ name \notin Calling
              /\ name \notin {"beans.xml", "index.html"}
              /\ \A pair \in OwnNames : pair[2] # name
        BY DEF GradleNames, SecondaryNames, OwnNames, Calling, CallingNames
    <2>3. /\ alternatives \subseteq alts /\ "gradle" \in alts
          /\ alts \subseteq alternatives \cup {"gradle", Secondary}
          /\ Secondary \in alts => ~main
        BY InTables DEF A, B, Secondary
    <2>4. \A place \in CalmPlaces, name \in GradleNames : Fits(Dir(main), place, name, name, alts)
        BY <2>1, <2>2, <2>3, Calm DEF Suits, Fits
    <2>5. GradleNames \in SUBSET Names /\ CalmPlaces \subseteq Places
        BY DEF Names, Places
    <2> HIDE DEF alts
    <2>6. \A place \in CalmPlaces, names \in Seq(GradleNames) :
              WriteAll(Dir(main), place, names, alts) \in Seq(Proper)
        BY <2>1, <2>4, <2>5, AllLookedUp
    <2>7. /\ <<"gradlew", "gradlew.bat">> \in Seq(GradleNames)
          /\ <<"gradle-wrapper.jar", "gradle-wrapper.properties">> \in Seq(GradleNames)
          /\ <<"build.gradle", "gradle.properties", "settings.gradle">> \in Seq(GradleNames)
        BY DEF GradleNames
    <2>8. "root" \in CalmPlaces /\ "wrapper" \in CalmPlaces
        BY DEF CalmPlaces
    <2> QED
        BY <2>6, <2>7, <2>8, Joined DEF GradleDirectories, alts
<1>2. GradleDirectories(TRUE) \in Seq(Proper)
    BY <1>1
<1>3. When(Split, GradleDirectories(FALSE)) \in Seq(Proper)
    BY <1>1, Chosen
<1> QED
    BY <1>2, <1>3, Joined, Zenon DEF CreateGradleFiles

\* the files of JavaCreator, where the alternatives of the first service are a copy,
LEMMA JavaProper ==
    ASSUME Ready
    PROVE  CreateJavaFiles \in Seq(Proper)
<1>1. WriteAll(Dir(TRUE), "java", <<"RestApplication.java", "HelloController.java">>, A)
          \in Seq(Proper)
    <2>1. <<"RestApplication.java", "HelloController.java">> \in Seq(Common)
        BY DEF Common, PlainNames, SecondaryNames, Calling, CallingNames, OwnersNames, OwnNames
    <2> QED
        BY <2>1, FilesOfFirst DEF CalmPlaces
<1>2. When(Split, Write(Dir(FALSE), "java", "RestApplication.java", B)) \in Seq(Proper)
    <2>1. "RestApplication.java" \in Common /\ "java" \in CalmPlaces
        BY DEF CalmPlaces, Common, SecondaryNames, Calling, CallingNames, OwnersNames, OwnNames
    <2>2. Split => Write(Dir(FALSE), "java", "RestApplication.java", B) \in Seq(Proper)
        BY <2>1, FilesOfSecond
    <2> QED
        BY <2>2, Chosen
<1> QED
    BY <1>1, <1>2, Joined, Zenon DEF CreateJavaFiles

\* the health checks,
LEMMA HealthProper ==
    ASSUME Ready, Has("HEALTH_CHECKS")
    PROVE  HealthFiles \in Seq(Proper)
<1>1. HealthNames \in SUBSET (PlainNames \cup Calling) /\ HealthNames \subseteq PlainNames
    BY DEF PlainNames, HealthNames
<1>2. "health" \in Places /\ \A name \in HealthNames : Served(Path(Dir(TRUE), "health", name))
    BY <1>1, Examples DEF Places, ExamplePlaces
<1>3. /\ \A name \in HealthNames : Write(Dir(TRUE), "health", name, A) \in Seq(Proper)
      /\ \A names \in Seq(HealthNames) : WriteAll(Dir(TRUE), "health", names, A) \in Seq(Proper)
    BY <1>1, <1>2, ExampleOfFirst
<1>4. CASE {"mp4_1", "mp3_x", "mp5_x"} \cap A # {}
    <2>1. <<"ServiceLiveHealthCheck.java", "ServiceReadyHealthCheck.java">> \in Seq(HealthNames)
        <3>1. {"ServiceLiveHealthCheck.java", "ServiceReadyHealthCheck.java"} \subseteq HealthNames
            BY <1>4 DEF HealthNames, Generations
        <3> QED
            BY <3>1
    <2>2. {"mp4_1", "mp5_x"} \cap A # {} => "ServiceStartupHealthCheck.java" \in HealthNames
        BY DEF HealthNames, Generations
    <2>3. When({"mp4_1", "mp5_x"} \cap A # {},
               Write(Dir(TRUE), "health", "ServiceStartupHealthCheck.java", A)) \in Seq(Proper)
        BY <1>3, <2>2, Chosen
    <2> QED
        BY <1>3, <1>4, <2>1, <2>3, Joined, Zenon DEF HealthFiles
<1>5. CASE {"mp4_1", "mp3_x", "mp5_x"} \cap A = {}
    <2>1. "ServiceHealthCheck.java" \in HealthNames
        BY <1>5 DEF HealthNames, Generations
    <2> QED
        BY <1>3, <1>5, <2>1, Zenon DEF HealthFiles
<1> QED
    BY <1>4, <1>5

\* the client in the first service and the resource for it in the second,
LEMMA ClientProper ==
    ASSUME Ready, Has("REST_CLIENT")
    PROVE  Write(Dir(FALSE), "client", "ServiceController.java", B)
           \o WriteAll(Dir(TRUE), "client", <<"Service.java", "ClientController.java">>, A)
           \in Seq(Proper)
<1> DEFINE S == {"Service.java", "ClientController.java"}
<1>1. Split
    BY DEF Split
<1>2. Write(Dir(FALSE), "client", "ServiceController.java", B) \in Seq(Proper)
    <2>1. "ServiceController.java" \in Common /\ "client" \in CalmPlaces
        BY DEF CalmPlaces, Common, SecondaryNames, Calling, CallingNames, OwnersNames, OwnNames
    <2> QED
        BY <1>1, <2>1, FilesOfSecond
<1>3. S \in SUBSET (PlainNames \cup Calling) /\ <<"Service.java", "ClientController.java">> \in Seq(S)
    BY DEF Calling, CallingNames
<1>4. "client" \in Places /\ \A name \in S : Served(Path(Dir(TRUE), "client", name))
    BY Examples DEF Places, CalmPlaces
<1>5. WriteAll(Dir(TRUE), "client", <<"Service.java", "ClientController.java">>, A) \in Seq(Proper)
    BY <1>3, <1>4, ExampleOfFirst
<1> QED
    BY <1>2, <1>5, Joined

\* the protected resource and its client,
LEMMA SecureProper ==
    ASSUME Ready, Has("JWT_AUTH")
    PROVE  When(Split, Write(Dir(FALSE), "secure", "ProtectedController.java", B))
           \o WriteAll(Dir(TRUE), "secure", <<"TestSecureController.java", "MPJWTToken.java">>, A)
           \o Write(Dir(TRUE), "resources", "privateKey.pem", A) \in Seq(Proper)
<1> DEFINE S == {"TestSecureController.java", "MPJWTToken.java"}
<1>1. Split /\ JwtB
    BY DEF Split, JwtB
<1>2. "secure" \in CalmPlaces /\ "secure" \in Places
    BY DEF Places, CalmPlaces
<1>3. Write(Dir(FALSE), "secure", "ProtectedController.java", B) \in Seq(Proper)
    <2>1. "ProtectedController.java" \in Calling /\ "ProtectedController.java" \in Names
        BY DEF Calling, Names, SecondaryNames
    <2>2. Dir(FALSE) = Secondary /\ Dir(FALSE) \in Dirs
        BY <1>1, Directories
    <2>3. Fits(Dir(FALSE), "secure", "ProtectedController.java", "ProtectedController.java", B)
        BY <1>1, <2>1, <2>2, SuitsSecond, Examples DEF Fits
    <2> QED
        BY <1>2, <2>1, <2>2, <2>3, LookedUp DEF Write
<1>4. WriteAll(Dir(TRUE), "secure", <<"TestSecureController.java", "MPJWTToken.java">>, A)
          \in Seq(Proper)
    <2>1. /\ S \in SUBSET (PlainNames \cup Calling)
          /\ <<"TestSecureController.java", "MPJWTToken.java">> \in Seq(S)
        BY DEF Calling, PlainNames, CallingNames
    <2>2. \A name \in S : Served(Path(Dir(TRUE), "secure", name))
        BY <1>2, Examples, Calm DEF Calling, CallingNames
    <2> QED
        BY <1>2, <2>1, <2>2, ExampleOfFirst
<1>5. Write(Dir(TRUE), "resources", "privateKey.pem", A) \in Seq(Proper)
    BY PlainFiles, Directories DEF PlainNames, CalmPlaces
<1> QED
    BY <1>3, <1>4, <1>5, Chosen, Joined, Zenon

\* all examples of MicroprofileServersAddon,
LEMMA ExamplesProper ==
    ASSUME Ready
    PROVE  /\ ExampleFiles \in Seq(Proper)
           /\ Has("HEALTH_CHECKS") => ToSet(HealthFiles) \subseteq ToSet(ExampleFiles)
<1>1. {"config", "metric", "openapi", "resilient", "graphql"} \subseteq Places
    BY DEF Places, ExamplePlaces
<1>2. ASSUME NEW place \in Places \ {"health"},
             \A name \in PlainNames : Served(Path(Dir(TRUE), place, name))
      PROVE  /\ \A name \in PlainNames : Write(Dir(TRUE), place, name, A) \in Seq(Proper)
             /\ \A names \in Seq(PlainNames) : WriteAll(Dir(TRUE), place, names, A) \in Seq(Proper)
    BY <1>2, ExampleOfFirst
<1>3. /\ {"ConfigTestController.java", "MetricController.java", "ResilienceController.java"}
             \subseteq PlainNames
      /\ <<"BookingController.java", "Booking.java", "Destination.java">> \in Seq(PlainNames)
      /\ <<"HeroFinder.java", "SuperHero.java", "Team.java",
           "UnknownCharacterException.java", "HeroDatabase.java",
           "DuplicateSuperHeroException.java", "UnknownHeroException.java",
           "UnknownTeamException.java">> \in Seq(PlainNames)
    BY DEF PlainNames
<1>4. Has("CONFIG") => Write(Dir(TRUE), "config", "ConfigTestController.java", A) \in Seq(Proper)
    BY <1>1, <1>2, <1>3, Examples
<1>5. Has("METRICS") => Write(Dir(TRUE), "metric", "MetricController.java", A) \in Seq(Proper)
    BY <1>1, <1>2, <1>3, Examples
<1>6. Has("OPEN_API") =>
          WriteAll(Dir(TRUE), "openapi",
                   <<"BookingController.java", "Booking.java", "Destination.java">>, A) \in Seq(Proper)
    BY <1>1, <1>2, <1>3, Examples
<1>7. Has("FAULT_TOLERANCE") =>
          Write(Dir(TRUE), "resilient", "ResilienceController.java", A) \in Seq(Proper)
    BY <1>1, <1>2, <1>3, Examples
<1>8. "GRAPHQL" \in project.standalone =>
          WriteAll(Dir(TRUE), "graphql",
                   <<"HeroFinder.java", "SuperHero.java", "Team.java",
                     "UnknownCharacterException.java", "HeroDatabase.java",
                     "DuplicateSuperHeroException.java", "UnknownHeroException.java",
                     "UnknownTeamException.java">>, A) \in Seq(Proper)
    BY <1>1, <1>2, <1>3, Examples
<1> DEFINE s1 == When(Has("HEALTH_CHECKS"), HealthFiles)
           s2 == When(Has("CONFIG"), Write(Dir(TRUE), "config", "ConfigTestController.java", A))
           s3 == When(Has("METRICS"), Write(Dir(TRUE), "metric", "MetricController.java", A))
           s4 == When(Has("OPEN_API"),
                      WriteAll(Dir(TRUE), "openapi",
                               <<"BookingController.java", "Booking.java", "Destination.java">>, A))
           s5 == When(Has("FAULT_TOLERANCE"),
                      Write(Dir(TRUE), "resilient", "ResilienceController.java", A))
           s6 == When(Has("REST_CLIENT"),
                      Write(Dir(FALSE), "client", "ServiceController.java", B)
                      \o WriteAll(Dir(TRUE), "client", <<"Service.java", "ClientController.java">>, A))
           s7 == When(Has("JWT_AUTH"),
                      When(Split, Write(Dir(FALSE), "secure", "ProtectedController.java", B))
                      \o WriteAll(Dir(TRUE), "secure",
                                  <<"TestSecureController.java", "MPJWTToken.java">>, A)
                      \o Write(Dir(TRUE), "resources", "privateKey.pem", A))
           s8 == When("GRAPHQL" \in project.standalone,
                      WriteAll(Dir(TRUE), "graphql",
                               <<"HeroFinder.java", "SuperHero.java", "Team.java",
                                 "UnknownCharacterException.java", "HeroDatabase.java",
                                 "DuplicateSuperHeroException.java", "UnknownHeroException.java",
                                 "UnknownTeamException.java">>, A))
<1>9. ExampleFiles = s1 \o s2 \o s3 \o s4 \o s5 \o s6 \o s7 \o s8
    BY Zenon DEF ExampleFiles
<1>10. /\ s1 \in Seq(Proper) /\ s2 \in Seq(Proper) /\ s3 \in Seq(Proper) /\ s4 \in Seq(Proper)
       /\ s5 \in Seq(Proper) /\ s6 \in Seq(Proper) /\ s7 \in Seq(Proper) /\ s8 \in Seq(Proper)
    BY <1>4, <1>5, <1>6, <1>7, <1>8, HealthProper, ClientProper, SecureProper, Chosen, Zenon
<1>11. Has("HEALTH_CHECKS") => s1 = HealthFiles
    BY DEF When
<1> HIDE DEF s1, s2, s3, s4, s5, s6, s7, s8
<1>12. \A s, t \in Seq(Proper) : s \o t \in Seq(Proper) /\ ToSet(s) \subseteq ToSet(s \o t)
    BY Joined, JoinedHas
<1> DEFINE t5 == s1 \o s2 \o s3 \o s4 \o s5
<1>13. t5 \in Seq(Proper) /\ ToSet(s1) \subseteq ToSet(t5)
    BY <1>10, <1>12
<1>14. ExampleFiles = t5 \o s6 \o s7 \o s8
    BY <1>9
<1> HIDE DEF t5
<1>15. ExampleFiles \in Seq(Proper) /\ ToSet(t5) \subseteq ToSet(ExampleFiles)
    BY <1>10, <1>12, <1>13, <1>14
<1> QED
    BY <1>11, <1>13, <1>15

\* the beans.xml of CDICreator,
LEMMA CdiProper ==
    ASSUME Ready
    PROVE  CreateCDIFilesForWeb \in Seq(ProperBeans)
<1>1. \A main \in BOOLEAN : BeansXml(main, "WEB-INF") \in Seq(ProperBeans)
    <2> SUFFICES ASSUME NEW main \in BOOLEAN
                 PROVE  BeansXml(main, "WEB-INF") \in Seq(ProperBeans)
        OBVIOUS
    <2>1. project.beans => WebBeans(Dir(main)) \in ProperBeans
        BY Directories DEF ProperBeans
    <2>2. project.beans => <<WebBeans(Dir(main))>> \in Seq(ProperBeans)
        BY <2>1
    <2>3. <<WebBeans(Dir(main))>> = Write(Dir(main), "WEB-INF", "beans.xml", A)
        BY DEF Write, WriteAs, WebBeans
    <2> QED
        BY <2>2, <2>3, Chosen DEF BeansXml
<1> QED
    BY <1>1, Chosen, Joined, Zenon DEF CreateCDIFilesForWeb

\* the pages and the readmes,
LEMMA PagesProper ==
    ASSUME Ready
    PROVE  PageFiles \in Seq(Proper)
<1>1. /\ "META-INF" \in CalmPlaces /\ "webapp" \in CalmPlaces
      /\ "root" \in CalmPlaces /\ "root" \in Places
      /\ "top" \in Dirs /\ Dir(FALSE) \in Dirs
    BY Directories DEF Places, CalmPlaces, Dirs
<1>2. /\ {"microprofile-config.properties", "index.html", "readme.md"} \subseteq Common
      /\ {"readme.md.top", "readme.md.secondary", "readme.md"} \subseteq PlainNames
      /\ PlainNames \subseteq Common /\ Common \subseteq Names
      /\ {"readme.md.top", "readme.md.secondary", "readme.md", "beans.xml"} \cap Calling = {}
    BY DEF Common, PlainNames, SecondaryNames, Names, Calling, CallingNames, OwnersNames, OwnNames
<1>3. /\ Write(Dir(TRUE), "META-INF", "microprofile-config.properties", A) \in Seq(Proper)
      /\ Write(Dir(TRUE), "webapp", "index.html", A) \in Seq(Proper)
      /\ Write(Dir(TRUE), "root", "readme.md", A) \in Seq(Proper)
    BY <1>1, <1>2, FilesOfFirst
<1>4. /\ Fits("top", "root", "readme.md.top", "readme.md", A)
      /\ Fits(Dir(FALSE), "root", "readme.md.secondary", "readme.md", A)
    <2>1. Suits("top", "readme.md.top", A) /\ Suits(Dir(FALSE), "readme.md.secondary", A)
        BY <1>2, SuitsFirst DEF SecondaryNames
    <2> QED
        BY <1>1, <1>2, <2>1, Calm DEF Fits
<1>5. /\ WriteAs("top", "root", "readme.md.top", "readme.md", A) \in Seq(Proper)
      /\ WriteAs(Dir(FALSE), "root", "readme.md.secondary", "readme.md", A) \in Seq(Proper)
    BY <1>1, <1>2, <1>4, LookedUp
<1>6. WriteAs("top", "root", "readme.md.top", "readme.md", A)
      \o WriteAs(Dir(FALSE), "root", "readme.md.secondary", "readme.md", A) \in Seq(Proper)
    BY <1>5, Joined
<1> QED
    BY <1>3, <1>6, Chosen, Joined, Zenon DEF PageFiles

\* WildFly Swarm and Thorntail,
LEMMA SwarmProper ==
    ASSUME Ready, NEW main \in BOOLEAN
    PROVE  SwarmFiles(main) \in Seq(Proper)
<1>1. /\ {"resources", "META-INF", "WEB-INF"} \subseteq CalmPlaces /\ "META-INF" \in Places
      /\ Dir(FALSE) \in Dirs /\ Dir(main) \in Dirs
    BY Directories DEF Places, CalmPlaces, Dirs
<1>2. /\ <<"project-defaults.yml", "jwt-roles.properties">> \in Seq(PlainNames)
      /\ "publicKey.pem" \in PlainNames /\ "web.xml" \in PlainNames
      /\ PlainNames \subseteq Common /\ Common \subseteq Names
      /\ "publicKey.pem" \notin SecondaryNames /\ "MP-JWT-SIGNER" \notin Calling
    BY DEF Common, PlainNames, Names, SecondaryNames, Calling, CallingNames, OwnersNames, OwnNames
<1>3. /\ WriteAll(Dir(FALSE), "resources",
                  <<"project-defaults.yml", "jwt-roles.properties">>, A) \in Seq(Proper)
      /\ Write(Dir(main), "WEB-INF", "web.xml", A) \in Seq(Proper)
    BY <1>1, <1>2, PlainFiles
<1>4. WriteAs(Dir(FALSE), "META-INF", "publicKey.pem", "MP-JWT-SIGNER", A) \in Seq(Proper)
    <2>1. Fits(Dir(FALSE), "META-INF", "publicKey.pem", "MP-JWT-SIGNER", A)
        BY <1>1, <1>2, SuitsFirst, Calm DEF Fits
    <2> QED
        BY <2>1, <1>1, <1>2, LookedUp
<1>5. WriteAll(Dir(FALSE), "resources", <<"project-defaults.yml", "jwt-roles.properties">>, A)
      \o WriteAs(Dir(FALSE), "META-INF", "publicKey.pem", "MP-JWT-SIGNER", A)
      \o Write(Dir(main), "WEB-INF", "web.xml", A) \in Seq(Proper)
    BY <1>3, <1>4, Joined, Zenon
<1> QED
    BY <1>5, Chosen, Zenon DEF SwarmFiles

\* the files that only one server has,
LEMMA OwnersFiles ==
    ASSUME Ready, NEW server, project.server = server,
           NEW dir \in Dirs, NEW place \in CalmPlaces,
           NEW S \in SUBSET (OwnersNames \ SecondaryNames),
           \A name \in S : \A pair \in OwnNames : pair[2] = name => pair[1] = server,
           NEW names \in Seq(S \cup PlainNames)
    PROVE  WriteAll(dir, place, names, A) \in Seq(Proper)
<1>1. \A name \in S \cup PlainNames : name \notin Calling /\ name # "beans.xml"
    BY DEF OwnersNames, OwnNames, Calling, PlainNames, CallingNames
<1>2. \A name \in S : Suits(dir, name, A)
    <2>1. \A name \in S : name \notin GradleNames /\ name \notin SecondaryNames
        BY DEF OwnersNames, OwnNames, GradleNames, SecondaryNames
    <2> QED
        BY <2>1, InTables DEF Suits, A
<1>3. \A name \in PlainNames : Suits(dir, name, A)
    BY SuitsFirst DEF SecondaryNames, PlainNames, Common, OwnersNames, OwnNames
<1>4. \A name \in S \cup PlainNames : Fits(dir, place, name, name, A)
    BY <1>1, <1>2, <1>3, Calm DEF Fits
<1>5. S \cup PlainNames \in SUBSET Names /\ place \in Places
    BY DEF Names, Common, Places, OwnersNames, OwnNames
<1> QED
    BY <1>4, <1>5, AllLookedUp

InBoth(place, name) ==
    /\ Write(Dir(TRUE), place, name, A) \in Seq(Proper)
    /\ Split => Write(Dir(FALSE), place, name, B) \in Seq(Proper)

\* in both services,
LEMMA OwnersFile ==
    ASSUME Ready, NEW place \in CalmPlaces, NEW name \in OwnersNames \cap SecondaryNames,
           \A pair \in OwnNames : pair[2] = name => pair[1] = project.server
    PROVE  InBoth(place, name)
<1>1. /\ name \notin GradleNames /\ name \notin Calling /\ name \notin {"beans.xml", "index.html"}
      /\ name \in Names /\ place \in Places
    BY DEF SecondaryNames, OwnersNames, OwnNames, GradleNames, Calling, CallingNames, Names, Places
<1>2. "gradle" \notin alternatives /\ Secondary \notin alternatives /\ "gradle" # Secondary
    BY InTables DEF Secondary
<1>3. Write(Dir(TRUE), place, name, A) \in Seq(Proper)
    <2>1. Suits(Dir(TRUE), name, A)
        BY <1>1, <1>2, Directories DEF Suits, A
    <2>2. Fits(Dir(TRUE), place, name, name, A)
        BY <1>1, <2>1, Calm DEF Fits
    <2> QED
        BY <1>1, <2>2, Directories, LookedUp DEF Write
<1>4. Split => Write(Dir(FALSE), place, name, B) \in Seq(Proper)
    <2> SUFFICES ASSUME Split
                 PROVE  Write(Dir(FALSE), place, name, B) \in Seq(Proper)
        OBVIOUS
    <2>1. Suits(Dir(FALSE), name, B)
        BY <1>1, <1>2, Directories DEF Suits, B
    <2>2. Fits(Dir(FALSE), place, name, name, B)
        BY <1>1, <2>1, Calm DEF Fits
    <2> QED
        BY <1>1, <2>2, Directories, LookedUp DEF Write
<1> QED
    BY <1>3, <1>4 DEF InBoth

\* the single steps of the servers' addons,
LEMMA Pieces ==
    ASSUME Ready
    PROVE  /\ \A place \in {"resources", "META-INF", "liberty", "security", "WEB", "java"} :
                  /\ \A name \in {"index.html", "publicKey.pem", "microprofile-config.properties"} :
                         Write(Dir(TRUE), place, name, A) \in Seq(Proper)
                  /\ Write(Dir(FALSE), place, "publicKey.pem", A) \in Seq(Proper)
                  /\ \A name \in {"publicKey.pem", "microprofile-config.properties",
                                   "RestApplication.java"} :
                         Split => Write(Dir(FALSE), place, name, B) \in Seq(Proper)
                  /\ project.server = "LIBERTY" => InBoth(place, "server.xml")
                  /\ project.server = "KUMULUZEE" => InBoth(place, "config.yaml")
                  /\ project.server = "QUARKUS" => InBoth(place, "application.properties")
           /\ project.server \in JarServers =>
                  \A main \in BOOLEAN, place \in {"webapp", "WEB-INF"} :
                      RemoveDir(Dir(main), place) \in Seq(Proper)
           /\ project.server = "LIBERTY" =>
                  WriteAll(Dir(FALSE), "security", <<"public.jks", "public.jks">>, A) \in Seq(Proper)
           /\ project.server = "PAYARA_MICRO" =>
                  WriteAll(Dir(FALSE), "resources", <<"publicKey.pem", "payara-mp-jwt.properties">>, A)
                      \in Seq(Proper)
           /\ project.server = "HELIDON" =>
                  WriteAll(Dir(TRUE), "resources", <<"logging.properties", "privateKey.pem">>, A)
                      \in Seq(Proper)
<1>1. /\ Dir(TRUE) \in Dirs /\ Dir(FALSE) \in Dirs
      /\ {"resources", "META-INF", "liberty", "security", "WEB", "java"} \subseteq CalmPlaces
    BY Directories DEF CalmPlaces
<1>2. /\ "publicKey.pem" \in PlainNames /\ "privateKey.pem" \in PlainNames
      /\ {"index.html", "publicKey.pem", "microprofile-config.properties",
          "RestApplication.java"} \subseteq Common
    BY DEF Common, PlainNames, SecondaryNames, Calling, CallingNames, OwnersNames, OwnNames
<1>3. \A place \in CalmPlaces :
          /\ \A name \in Common : Write(Dir(TRUE), place, name, A) \in Seq(Proper)
          /\ \A name \in PlainNames : Write(Dir(FALSE), place, name, A) \in Seq(Proper)
          /\ \A name \in Common \ {"index.html"} :
                 Split => Write(Dir(FALSE), place, name, B) \in Seq(Proper)
    BY <1>1, FilesOfFirst, FilesOfSecond, PlainFiles
<1>4. ASSUME project.server \in JarServers, NEW main \in BOOLEAN, NEW place \in {"webapp", "WEB-INF"}
      PROVE  RemoveDir(Dir(main), place) \in Seq(Proper)
    BY <1>1, <1>4, Removed
<1>8. ASSUME NEW place \in CalmPlaces
      PROVE  /\ project.server = "LIBERTY" => InBoth(place, "server.xml")
             /\ project.server = "KUMULUZEE" => InBoth(place, "config.yaml")
             /\ project.server = "QUARKUS" => InBoth(place, "application.properties")
    <2>1. {"server.xml", "config.yaml", "application.properties"} \subseteq OwnersNames \cap SecondaryNames
        BY DEF OwnersNames, OwnNames, SecondaryNames
    <2>2. \A pair \in OwnNames :
              /\ pair[2] = "server.xml" => pair[1] = "LIBERTY"
              /\ pair[2] = "config.yaml" => pair[1] = "KUMULUZEE"
              /\ pair[2] = "application.properties" => pair[1] = "QUARKUS"
        BY DEF OwnNames
    <2> QED
        BY <2>1, <2>2, OwnersFile
<1>5. ASSUME project.server = "LIBERTY"
      PROVE  WriteAll(Dir(FALSE), "security", <<"public.jks", "public.jks">>, A) \in Seq(Proper)
    <2>1. {"public.jks"} \in SUBSET (OwnersNames \ SecondaryNames)
        BY DEF OwnersNames, OwnNames, SecondaryNames
    <2>2. \A pair \in OwnNames : pair[2] = "public.jks" => pair[1] = "LIBERTY"
        BY DEF OwnNames
    <2>3. <<"public.jks", "public.jks">> \in Seq({"public.jks"} \cup PlainNames)
        BY <1>2
    <2> QED
        BY <2>1, <2>2, <2>3, <1>1, <1>5, OwnersFiles
<1>6. ASSUME project.server = "PAYARA_MICRO"
      PROVE  WriteAll(Dir(FALSE), "resources", <<"publicKey.pem", "payara-mp-jwt.properties">>, A) \in Seq(Proper)
    <2>1. {"payara-mp-jwt.properties"} \in SUBSET (OwnersNames \ SecondaryNames)
        BY DEF OwnersNames, OwnNames, SecondaryNames
    <2>2. \A pair \in OwnNames : pair[2] = "payara-mp-jwt.properties" => pair[1] = "PAYARA_MICRO"
        BY DEF OwnNames
    <2>3. <<"publicKey.pem", "payara-mp-jwt.properties">> \in Seq({"payara-mp-jwt.properties"} \cup PlainNames)
        BY <1>2
    <2> QED
        BY <2>1, <2>2, <2>3, <1>1, <1>6, OwnersFiles
<1>7. ASSUME project.server = "HELIDON"
      PROVE  WriteAll(Dir(TRUE), "resources", <<"logging.properties", "privateKey.pem">>, A) \in Seq(Proper)
    <2>1. {"logging.properties"} \in SUBSET (OwnersNames \ SecondaryNames)
        BY DEF OwnersNames, OwnNames, SecondaryNames
    <2>2. \A pair \in OwnNames : pair[2] = "logging.properties" => pair[1] = "HELIDON"
        BY DEF OwnNames
    <2>3. <<"logging.properties", "privateKey.pem">> \in Seq({"logging.properties"} \cup PlainNames)
        BY <1>2
    <2> QED
        BY <2>1, <2>2, <2>3, <1>1, <1>7, OwnersFiles
<1> QED
    BY <1>1, <1>2, <1>3, <1>4, <1>5, <1>6, <1>7, <1>8

\* all they do together,
LEMMA ServersProper ==
    ASSUME Ready
    PROVE  ServerFiles \in Seq(Proper)
<1>1. JwtB => Split
    BY DEF JwtB
<1>2. ASSUME project.server = "QUARKUS" PROVE QuarkusFiles \in Seq(Proper)
    <2>1. project.server \in JarServers
        BY <1>2 DEF JarServers
    <2> QED
        BY <1>1, <1>2, <2>1, Pieces, Chosen, Joined, Zenon DEF QuarkusFiles, InBoth
<1>3. ASSUME project.server = "WILDFLY" PROVE WildFlyFiles \in Seq(Proper)
    BY <1>1, Pieces, Chosen, Joined, Zenon DEF WildFlyFiles
<1>4. ASSUME project.server = "LIBERTY" PROVE LibertyFiles \in Seq(Proper)
    BY <1>1, <1>4, Pieces, Chosen, Joined, Zenon DEF LibertyFiles, InBoth
<1>5. ASSUME project.server = "KUMULUZEE" PROVE KumuluzEEFiles \in Seq(Proper)
    <2>1. project.server \in JarServers /\ project.server \in WithoutWebapp
        BY <1>5 DEF JarServers, WithoutWebapp
    <2>2. KumuluzEEPart(TRUE) \in Seq(Proper) /\ (Split => KumuluzEEPart(FALSE) \in Seq(Proper))
        BY <1>5, <2>1, Pieces, BeansXmlProper, Joined, Zenon DEF KumuluzEEPart, InBoth
    <2> QED
        BY <2>2, Chosen, Joined, Zenon DEF KumuluzEEFiles
<1>6. ASSUME project.server = "PAYARA_MICRO" PROVE PayaraFiles \in Seq(Proper)
    BY <1>6, Pieces, Chosen, Zenon DEF PayaraFiles
<1>7. ASSUME project.server = "TOMEE" PROVE TomeeFiles \in Seq(Proper)
    BY Pieces, Chosen, Zenon DEF TomeeFiles
<1>8. ASSUME project.server = "HELIDON" PROVE HelidonFiles \in Seq(Proper)
    <2>1. project.server \in JarServers /\ project.server \in WithoutWebapp
        BY <1>8 DEF JarServers, WithoutWebapp
    <2>2. BeansXml(TRUE, "META-INF") \in Seq(Proper) /\ BeansXml(FALSE, "META-INF") \in Seq(Proper)
        BY <2>1, BeansXmlProper
    <2> QED
        BY <1>1, <1>8, <2>1, <2>2, Pieces, Chosen, Joined, Zenon DEF HelidonFiles, HelidonFilesWith
<1>9. SwarmFiles(TRUE) \in Seq(Proper) /\ SwarmFiles(FALSE) \in Seq(Proper)
    BY SwarmProper
<1>10. project.server \in {"WILDFLY_SWARM", "THORNTAIL_V2", "QUARKUS", "WILDFLY", "LIBERTY",
                           "KUMULUZEE", "PAYARA_MICRO", "TOMEE", "HELIDON"}
    BY InTables, CodesAssumption
<1> QED
    BY <1>2, <1>3, <1>4, <1>5, <1>6, <1>7, <1>8, <1>9, <1>10 DEF ServerFiles

\* what any addon does,
LEMMA FilesProper ==
    ASSUME Ready
    PROVE  \A a : CreateFiles(a) \in Seq(Proper)
<1>1. ExampleFiles \o PageFiles \in Seq(Proper) /\ ServerFiles \in Seq(Proper)
    BY ExamplesProper, PagesProper, ServersProper, Joined
<1> QED
    BY <1>1, Zenon DEF CreateFiles

\* and so whatever a creator does.
LEMMA ArtifactsProper ==
    ASSUME Ready, addons \in Seq(DOMAIN Priority), NEW s \in Creators,
           s = "build" => project.tool = "GRADLE"
    PROVE  CreateArtifacts(s) \in Seq(IF s = "cdi" THEN ProperBeans ELSE Proper)
<1>1. FlattenSeq([i \in DOMAIN addons |-> CreateFiles(addons[i])]) \in Seq(Proper)
    <2> DEFINE steps == [i \in DOMAIN addons |-> CreateFiles(addons[i])]
    <2>1. DOMAIN addons = 1..Len(addons) /\ Len(addons) \in Nat
        OBVIOUS
    <2>2. steps \in [1..Len(addons) -> Seq(Proper)]
        BY FilesProper, <2>1
    <2> HIDE DEF steps
    <2>3. steps \in Seq(Seq(Proper))
        BY <2>1, <2>2
    <2> QED
        BY <2>3, Flattened DEF steps
<1> QED
    BY <1>1, GradleProper, CdiProper, JavaProper DEF CreateArtifacts, Creators

-----------------------------------------------------------------------------
(* The templates of a project *)

\* What a proper lookup finds is the only template of its name, or the best one for the
\* alternatives it is looked up with.
LEMMA FileFits ==
    ASSUME NEW step \in Step, NEW t \in FindFile(step.template, step.alternatives)
    PROVE  /\ t \in TemplateFiles /\ t.name = step.template
           /\ StandsOut(t, step.alternatives)
           /\ \/ Candidates(t.name) = {t}
              \/ /\ t.alternatives \subseteq step.alternatives
                 /\ \A u \in Candidates(t.name) :
                        u.alternatives \subseteq step.alternatives
                        /\ t.alternatives \subseteq u.alternatives => u = t
<1> DEFINE alts == step.alternatives
           candidates == Candidates(step.template)
<1>1. /\ alts \subseteq Alternatives /\ IsFiniteSet(alts)
      /\ candidates \subseteq TemplateFiles /\ IsFiniteSet(candidates)
    <2>1. alts \subseteq Alternatives
        BY DEF Step
    <2>2. candidates \subseteq TemplateFiles
        BY DEF Candidates
    <2> QED
        BY <2>1, <2>2, AlternativesAssumption, FS_Subset
<1>2. CASE Cardinality(candidates) = 1
    <2>1. FindFile(step.template, step.alternatives) = candidates
        BY <1>2 DEF FindFile
    <2>2. candidates = {t}
        BY <1>1, <1>2, <2>1, FS_Singleton
    <2>3. t \in TemplateFiles /\ t.name = step.template
        BY <2>2 DEF Candidates
    <2> QED
        BY <2>2, <2>3 DEF StandsOut
<1>3. CASE Cardinality(candidates) # 1
    <2>1. t \in SelectBasedOnAlternatives(candidates, alts)
        BY <1>3 DEF FindFile
    <2> HIDE DEF alts
    <2>2. /\ t \in candidates /\ t.alternatives \subseteq alts
          /\ \A u \in candidates \ {t} : u.alternatives \subseteq alts =>
                 Cardinality(u.alternatives) < Cardinality(t.alternatives)
        BY <1>1, <2>1, LookupIsBest
    <2>3. ASSUME NEW u \in candidates, u.alternatives \subseteq alts,
                 t.alternatives \subseteq u.alternatives, u # t
          PROVE  FALSE
        <3>1. Cardinality(u.alternatives) < Cardinality(t.alternatives)
            BY <2>2, <2>3
        <3>2. IsFiniteSet(u.alternatives)
            BY <1>1, <2>3, FS_Subset
        <3>3. IsFiniteSet(t.alternatives) /\ Cardinality(t.alternatives) <= Cardinality(u.alternatives)
            BY <2>3, <3>2, FS_Subset
        <3>4. Cardinality(t.alternatives) \in Nat /\ Cardinality(u.alternatives) \in Nat
            BY <3>2, <3>3, FS_CardinalityType
        <3> QED
            BY <3>1, <3>3, <3>4
    <2>4. t \in TemplateFiles /\ t.name = step.template
        BY <2>2 DEF Candidates
    <2> QED
        BY <2>2, <2>3, <2>4 DEF alts, StandsOut
<1> QED
    BY <1>2, <1>3

OwnTemplate(f) ==
    f.template.name # "gradle.properties" =>
        /\ \A s \in Servers : Code[s] \in f.template.alternatives => s = project.server
        /\ Secondary \in f.template.alternatives => f.path.dir = Secondary
        /\ "gradle" \in f.template.alternatives => project.tool = "GRADLE"
BestTemplate(f) ==
    \A t \in Candidates(f.template.name) :
        /\ t.alternatives \subseteq alternatives \cup {"gradle"}
                                    \cup (IF f.path.dir = Secondary THEN {Secondary} ELSE {})
        /\ f.template.alternatives \subseteq t.alternatives
        => t = f.template

\* So a file that a proper lookup writes is from its own server's best template: one that
\* fits better would be for Gradle or the second service, and looked up like that.
LEMMA NewFile ==
    ASSUME Ready, NEW step \in Step, Suits(step.dir, step.template, step.alternatives),
           NEW t \in FindFile(step.template, step.alternatives),
           NEW f, f = [path |-> PathOf(step), template |-> t]
    PROVE  OwnTemplate(f) /\ BestTemplate(f)
<1>1. /\ Suits(step.dir, t.name, step.alternatives)
      /\ f.path.dir = step.dir /\ f.template = t
    BY FileFits DEF PathOf
<1>2. OwnTemplate(f)
    <2>1. ASSUME Candidates(t.name) = {t}, t.name # "gradle.properties"
          PROVE  OwnTemplate(f)
        <3>1. Secondary \notin t.alternatives
            BY <2>1, FileFits, TemplatesAssumption
        <3>2. "gradle" \in t.alternatives => project.tool = "GRADLE"
            BY <1>1, FileFits, TemplatesAssumption DEF Suits
        <3>3. ASSUME NEW s \in Servers, Code[s] \in t.alternatives
              PROVE  s = project.server
            <4>1. <<s, t.name>> \in OwnNames
                BY <2>1, <3>3, FileFits, TemplatesAssumption
            <4>2. <<s, t.name>>[2] = t.name => <<s, t.name>>[1] = project.server
                BY <4>1, <1>1 DEF Suits
            <4> QED
                BY <4>2
        <3> QED
            BY <1>1, <3>1, <3>2, <3>3 DEF OwnTemplate
    <2>2. ASSUME t.alternatives \subseteq step.alternatives
          PROVE  OwnTemplate(f)
        <3>1. ASSUME NEW s \in Servers, Code[s] \in t.alternatives
              PROVE  s = project.server
            <4>1. Code[s] \in alternatives
                BY <1>1, <2>2, <3>1, CodesAssumption DEF Suits
            <4> QED
                BY <4>1, InTables
        <3> QED
            BY <1>1, <2>2, <3>1 DEF OwnTemplate, Suits
    <2>3. t.name = "gradle.properties" => OwnTemplate(f)
        BY <1>1 DEF OwnTemplate
    <2> QED
        BY <2>1, <2>2, <2>3, FileFits
<1>3. BestTemplate(f)
    <2> SUFFICES ASSUME NEW u \in Candidates(t.name),
                        u.alternatives \subseteq alternatives \cup {"gradle"}
                            \cup (IF step.dir = Secondary THEN {Secondary} ELSE {}),
                        t.alternatives \subseteq u.alternatives
                 PROVE  u = t
        BY <1>1 DEF BestTemplate
    <2>1. u \in TemplateFiles /\ u.name = t.name
        BY DEF Candidates
    <2>2. /\ "gradle" \in u.alternatives => "gradle" \in step.alternatives
          /\ Secondary \in u.alternatives /\ step.dir = Secondary => Secondary \in step.alternatives
          /\ alternatives \subseteq step.alternatives
        BY <1>1, <2>1, TemplatesAssumption DEF Suits
    <2>3. u.alternatives \subseteq step.alternatives
        BY <2>2
    <2> QED
        BY <2>3, FileFits
<1> QED
    BY <1>2, <1>3

\* What a step of a creator or an addon may write.
LEMMA Lookups ==
    ASSUME Ready, NEW step \in Proper \cup ProperBeans, ~step.remove
    PROVE  /\ step \in Step /\ step.template \in Names
           /\ Suits(step.dir, step.template, step.alternatives)
           /\ Served(PathOf(step))
           /\ step.place = "health" => step.name \in HealthNames
           /\ step.name = "index.html" => step.template = step.name /\ step.alternatives = A
           /\ step.name = "beans.xml" =>
                  /\ project.beans
                  /\ \/ step.place = "WEB-INF" /\ step \in ProperBeans
                     \/ step.place = "META-INF" /\ project.server \in WithoutWebapp
<1>1. CASE step \in Proper
    <2>1. Path(step.dir, step.place, step.name) = PathOf(step)
        BY DEF Path, PathOf
    <2> QED
        BY <1>1, <2>1 DEF Proper, Fits
<1>2. CASE step \in ProperBeans
    <2>1. PICK dir \in Dirs : step = WebBeans(dir) /\ project.beans
        BY <1>2 DEF ProperBeans
    <2>2. /\ "beans.xml" \in Names /\ "beans.xml" \notin SecondaryNames /\ "beans.xml" \notin Calling
          /\ "WEB-INF" \in CalmPlaces /\ "WEB-INF" \in Places
        BY DEF Names, SecondaryNames, Calling, CalmPlaces, Places, CallingNames
    <2>3. Suits(dir, "beans.xml", A) /\ A \in SUBSET Alternatives
        BY <2>2, SuitsFirst, InTables DEF A
    <2>4. Path(dir, "WEB-INF", "beans.xml") = PathOf(step)
        BY <2>1 DEF Path, PathOf, WebBeans
    <2>5. Served(PathOf(step))
        BY <2>2, <2>4, Calm
    <2> QED
        BY <1>2, <2>1, <2>2, <2>3, <2>5 DEF WebBeans, Step
<1> QED
    BY <1>1, <1>2

\* OwnTemplates and NoBetterTemplate look at one file at a time.
LEMMA FileByFile ==
    /\ OwnTemplates <=> \A f \in files : OwnTemplate(f)
    /\ NoBetterTemplate <=> \A f \in files : BestTemplate(f)
BY DEF OwnTemplates, NoBetterTemplate, OwnTemplate, BestTemplate

\* The inductive invariant.  What is still to do is proper, and nothing is looked up
\* before the alternatives are known,
StepsInv ==
    /\ project \in Projects
    /\ addons \in Seq(DOMAIN Priority)
    /\ alternatives \subseteq OfServer
    /\ stage \in Early => files = {} /\ todo = <<>>
    /\ todo \in Seq(IF stage = "java" THEN ProperBeans ELSE Proper)
TemplatesIInv == StepsInv /\ OwnTemplates /\ NoBetterTemplate

\* The invariant holds before the first step,
LEMMA InitSteps == Init => TemplatesIInv
<1> SUFFICES ASSUME Init PROVE TemplatesIInv
    OBVIOUS
<1>1. /\ addons = <<>> /\ alternatives = {} /\ todo = <<>> /\ files = {} /\ project \in Projects
      /\ stage # "java"
    BY DEF Init
<1>2. addons \in Seq(DOMAIN Priority) /\ todo \in Seq(Proper)
    BY <1>1
<1> QED
    BY <1>1, <1>2 DEF TemplatesIInv, StepsInv, OwnTemplates, NoBetterTemplate

\* A removal leaves the other files as they are.
LEMMA FilesKept ==
    ASSUME OwnTemplates, NoBetterTemplate, UNCHANGED <<project, alternatives>>,
           files' \subseteq files
    PROVE  OwnTemplates' /\ NoBetterTemplate'
BY DEF OwnTemplates, NoBetterTemplate

\* What is proper depends on project and alternatives alone.
LEMMA ProperKept ==
    ASSUME UNCHANGED <<project, alternatives>>
    PROVE  Proper' = Proper /\ ProperBeans' = ProperBeans /\ OfServer' = OfServer
<1>1. \A path : Served(path)' <=> Served(path)
    BY DEF Served, Supplied
<1>2. \A dir, place, template, name, alts :
          Fits(dir, place, template, name, alts)' <=> Fits(dir, place, template, name, alts)
    BY <1>1 DEF Fits, Suits, HealthNames, A
<1> QED
    BY <1>2 DEF Proper, ProperBeans, WebBeans, A, OfServer

\* The stages in their order.
LEMMA Later ==
    /\ NextStage("template") = "dependent" /\ NextStage("dependent") = "order"
    /\ NextStage("order") = "alternatives" /\ NextStage("build") = "cdi"
    /\ NextStage("cdi") = "java" /\ NextStage("java") = "addons" /\ NextStage("addons") = "done"
<1>1. ASSUME NEW i \in 1..8, NEW s, \A j \in 1..9 : Stages[j] = s <=> j = i
      PROVE  NextStage(s) = Stages[i + 1]
    <2>1. DOMAIN Stages = 1..9
        BY DEF Stages
    <2> DEFINE c == CHOOSE j \in DOMAIN Stages : Stages[j] = s
    <2>2. c = i
        BY <1>1, <2>1
    <2>3. NextStage(s) = Stages[1 + c]
        BY Zenon DEF NextStage
    <2> HIDE DEF c
    <2>4. 1 + i = i + 1
        OBVIOUS
    <2> QED
        BY <2>2, <2>3, <2>4
<1>2. /\ Stages[1] = "template" /\ Stages[2] = "dependent" /\ Stages[3] = "order"
      /\ Stages[4] = "alternatives" /\ Stages[5] = "build" /\ Stages[6] = "cdi"
      /\ Stages[7] = "java" /\ Stages[8] = "addons" /\ Stages[9] = "done"
    BY DEF Stages
<1>3. \A i, j \in 1..9 : Stages[i] = Stages[j] => i = j
    BY DEF Stages
<1>4. \A i \in 1..8 : NextStage(Stages[i]) = Stages[i + 1]
    <2> SUFFICES ASSUME NEW i \in 1..8 PROVE NextStage(Stages[i]) = Stages[i + 1]
        OBVIOUS
    <2>1. \A j \in 1..9 : Stages[j] = Stages[i] <=> j = i
        BY <1>3
    <2> QED
        BY <1>1, <2>1
<1> QED
    BY <1>2, <1>4

\* and every step keeps it.
LEMMA NextSteps == TemplatesIInv /\ [Next]_vars => TemplatesIInv'
<1> SUFFICES ASSUME TemplatesIInv, [Next]_vars
             PROVE  TemplatesIInv'
    OBVIOUS
<1>0. StepsInv /\ OwnTemplates /\ NoBetterTemplate /\ Ready
    BY DEF TemplatesIInv, StepsInv, Ready
<1>a. ASSUME UNCHANGED <<project, files>>,
             alternatives' = alternatives \/ files = {}
      PROVE  OwnTemplates' /\ NoBetterTemplate'
    <2>1. CASE alternatives' = alternatives
        BY <1>0, <1>a, <2>1, FilesKept
    <2>2. CASE files = {}
        BY <1>a, <2>2 DEF OwnTemplates, NoBetterTemplate
    <2> QED
        BY <1>a, <2>1, <2>2
<1>1. CASE ApplyTemplateValues
    <2>1. addons' \in Seq(DOMAIN Priority)
        BY <1>0, <1>1, CodesAssumption, Joined DEF ApplyTemplateValues, StepsInv
    <2>2. stage = "template" /\ stage' = "dependent" /\ UNCHANGED <<project, alternatives, todo, files>>
        BY <1>1, Later DEF ApplyTemplateValues
    <2>3. StepsInv'
        BY <1>0, <2>1, <2>2, ProperKept DEF StepsInv, Early
    <2> QED
        BY <1>a, <2>2, <2>3 DEF TemplatesIInv
<1>2. CASE AddDependentAddons
    <2>1. /\ stage = "dependent" /\ stage' \in {"dependent", "order", "failed"}
          /\ UNCHANGED <<project, alternatives, todo, files>>
        BY <1>2, Later DEF AddDependentAddons
    <2>2. addons' \in Seq(DOMAIN Priority)
        <3> DEFINE missing == (UNION {DependentAddons(a) : a \in ToSet(addons)}) \ ToSet(addons)
        <3>1. CASE UNCHANGED addons
            BY <1>0, <3>1 DEF StepsInv
        <3>2. CASE ~UNCHANGED addons
            <4>1. /\ missing \subseteq DOMAIN Priority
                  /\ \E order \in SetToSeqs(missing) : addons' = addons \o order
                BY <1>2, <3>2 DEF AddDependentAddons
            <4>2. missing \subseteq {Code[project.server]}
                BY DEF DependentAddons
            <4> HIDE DEF missing
            <4>3. IsFiniteSet(missing) /\ Cardinality(missing) \in Nat
                <5>1. IsFiniteSet({Code[project.server]})
                    BY FS_Singleton
                <5> QED
                    BY <4>2, <5>1, FS_Subset, FS_CardinalityType
            <4>4. PICK order \in SetToSeqs(missing) : addons' = addons \o order
                BY <4>1
            <4>5. order \in [1..Cardinality(missing) -> missing]
                BY DEF SetToSeqs
            <4>6. order \in Seq(DOMAIN Priority)
                BY <4>1, <4>3, <4>5
            <4> QED
                BY <1>0, <4>4, <4>6, Joined DEF StepsInv
        <3> QED
            BY <3>1, <3>2
    <2>3. StepsInv'
        BY <1>0, <2>1, <2>2, ProperKept DEF StepsInv, Early
    <2> QED
        BY <1>a, <2>1, <2>3 DEF TemplatesIInv
<1>3. CASE OrderAddons
    <2>1. stage = "order" /\ stage' = "alternatives" /\ UNCHANGED <<project, alternatives, todo, files>>
        BY <1>3, Later DEF OrderAddons
    <2>2. addons' \in Seq(DOMAIN Priority)
        <3>1. PICK from \in [DOMAIN addons -> DOMAIN addons] :
                       addons' = [i \in DOMAIN addons |-> addons[from[i]]]
            BY <1>3 DEF OrderAddons
        <3>2. addons \in Seq(DOMAIN Priority)
            BY <1>0 DEF StepsInv
        <3>3. DOMAIN addons = 1..Len(addons) /\ Len(addons) \in Nat
            BY <3>2
        <3>4. \A i \in 1..Len(addons) : addons[from[i]] \in DOMAIN Priority
            BY <3>1, <3>2, <3>3
        <3>5. addons' \in [1..Len(addons) -> DOMAIN Priority]
            BY <3>1, <3>3, <3>4
        <3> QED
            BY <3>3, <3>5
    <2>3. StepsInv'
        BY <1>0, <2>1, <2>2, ProperKept DEF StepsInv, Early
    <2> QED
        BY <1>a, <2>1, <2>3 DEF TemplatesIInv
<1>4. CASE DetermineAlternatives
    <2>1. /\ stage \in Early /\ stage' \notin Early /\ stage' # "java"
          /\ UNCHANGED <<project, addons, todo, files>>
        BY <1>4 DEF DetermineAlternatives, Early
    <2>2. files = {} /\ todo = <<>>
        BY <1>0, <2>1 DEF StepsInv
    <2>3. alternatives' \subseteq OfServer'
        BY <1>4 DEF DetermineAlternatives, AlternativesNames, OfServer
    <2>4. todo' \in Seq(Proper)'
        BY <2>1, <2>2
    <2>5. StepsInv'
        BY <1>0, <2>1, <2>3, <2>4 DEF StepsInv
    <2> QED
        BY <1>a, <2>1, <2>2, <2>5 DEF TemplatesIInv
<1>5. CASE CreateMavenFiles
    <2>1. /\ stage = "build" /\ stage' \in {"cdi", "failed"}
          /\ UNCHANGED <<project, addons, alternatives, todo, files>>
        BY <1>5, Later DEF CreateMavenFiles
    <2>2. stage' \notin Early
        BY <2>1 DEF Early
    <2>3. StepsInv'
        BY <1>0, <2>1, <2>2, ProperKept DEF StepsInv
    <2> QED
        BY <1>a, <2>1, <2>3 DEF TemplatesIInv
<1>6. CASE EnterCreator
    <2>1. /\ stage \in Creators
          /\ stage = "build" => project.tool = "GRADLE"
          /\ UNCHANGED <<project, addons, alternatives, files>>
          /\ stage' = NextStage(stage) /\ todo' = CreateArtifacts(stage)
        BY <1>6 DEF EnterCreator
    <2>2. stage' \notin Early /\ (stage' = "java" <=> stage = "cdi")
        BY <2>1, Later DEF Creators, Early
    <2>3. todo' \in Seq(IF stage' = "java" THEN ProperBeans ELSE Proper)
        BY <1>0, <2>1, <2>2, ArtifactsProper DEF StepsInv
    <2>4. StepsInv'
        BY <1>0, <2>1, <2>2, <2>3, ProperKept DEF StepsInv
    <2> QED
        BY <1>a, <2>1, <2>4 DEF TemplatesIInv
<1> DEFINE Allowed == IF stage = "java" THEN ProperBeans ELSE Proper
<1>b. ASSUME todo # <<>>
      PROVE  stage \notin Early /\ Head(todo) \in Allowed /\ Tail(todo) \in Seq(Allowed)
    <2>1. todo \in Seq(Allowed) /\ stage \notin Early
        BY <1>0, <1>b DEF StepsInv
    <2> HIDE DEF Allowed
    <2> QED
        BY <1>b, <2>1
<1>7. CASE ProcessTemplate
    <2> DEFINE step == Head(todo)
               found == FindFile(step.template, step.alternatives)
    <2>1. /\ UNCHANGED <<project, addons, alternatives>>
          /\ todo # <<>> /\ ~step.remove
          /\ \/ stage' = stage /\ todo' = Tail(todo)
             \/ stage' = "failed" /\ todo' = <<>>
        BY <1>7 DEF ProcessTemplate
    <2>2. stage' \notin Early
        BY <1>b, <2>1 DEF Early
    <2>3. StepsInv'
        <3>1. CASE stage' = stage /\ todo' = Tail(todo)
            BY <1>0, <1>b, <2>1, <2>2, <3>1, ProperKept DEF StepsInv
        <3>2. CASE stage' = "failed" /\ todo' = <<>>
            <4>1. todo' \in Seq(Proper)
                BY <3>2
            <4> QED
                BY <1>0, <2>1, <2>2, <3>2, <4>1, ProperKept DEF StepsInv
        <3> QED
            BY <2>1, <3>1, <3>2
    <2>4. \A f \in files' : f \in files \/ \E t \in found : f = [path |-> PathOf(step), template |-> t]
        BY <1>7 DEF ProcessTemplate
    <2>5. step \in Proper \cup ProperBeans
        BY <1>b, <2>1
    <2> HIDE DEF step
    <2>6. step \in Step /\ Suits(step.dir, step.template, step.alternatives)
        BY <1>0, <2>1, <2>5, Lookups
    <2>7. \A f \in files' : OwnTemplate(f) /\ BestTemplate(f)
        BY <1>0, <2>4, <2>6, NewFile, FileByFile
    <2>8. OwnTemplates' /\ NoBetterTemplate'
        BY <2>1, <2>7 DEF OwnTemplates, NoBetterTemplate, OwnTemplate, BestTemplate
    <2> QED
        BY <2>3, <2>8 DEF TemplatesIInv
<1>8. CASE RemoveDirectory
    <2>1. /\ UNCHANGED <<project, stage, addons, alternatives>> /\ todo # <<>>
          /\ todo' = Tail(todo) /\ files' \subseteq files
        BY <1>8 DEF RemoveDirectory
    <2>2. StepsInv'
        BY <1>0, <1>b, <2>1, ProperKept DEF StepsInv
    <2> QED
        BY <1>0, <2>1, <2>2, FilesKept DEF TemplatesIInv
<1>9. CASE UNCHANGED vars
    <2>1. UNCHANGED <<project, stage, addons, alternatives, todo, files>>
        BY <1>9 DEF vars
    <2>2. StepsInv'
        BY <1>0, <2>1, ProperKept DEF StepsInv
    <2> QED
        BY <1>a, <2>1, <2>2 DEF TemplatesIInv
<1> QED
    BY <1>1, <1>2, <1>3, <1>4, <1>5, <1>6, <1>7, <1>8, <1>9 DEF Next

-----------------------------------------------------------------------------
(* Its addons and its poms *)

\* the addon mp is there, and that of the server once the dependent addons are;
AddonsInv ==
    /\ stage # "template" => "mp" \in ToSet(addons)
    /\ stage \notin {"template", "dependent", "failed"} => Code[project.server] \in ToSet(addons)
\* so every pom is one that both have adapted, and with Maven each service has one;
PomsInv ==
    /\ \A dir \in DOMAIN poms :
           Adapted(poms[dir], project, dir # Secondary, TRUE, TRUE)
    /\ stage \in {"cdi", "java", "addons", "done"} /\ project.tool = "MAVEN" =>
           \A main \in BOOLEAN : Dir(main) \in DOMAIN poms

\* orderAddons takes each addon from a position of its own: the order is strict, so these
\* positions are all different, and all positions.
LEMMA Reordered ==
    ASSUME addons \in Seq(DOMAIN Priority), OrderAddons
    PROVE  \E from \in [1..Len(addons) -> 1..Len(addons)] :
               /\ \A i, j \in 1..Len(addons) : i < j => Sooner(from[i], from[j])
               /\ addons' = [i \in 1..Len(addons) |-> addons[from[i]]]
               /\ \A k \in 1..Len(addons) : \E i \in 1..Len(addons) : from[i] = k
<1> DEFINE n == Len(addons)
<1>1. n \in Nat /\ DOMAIN addons = 1..n /\ \A i \in 1..n : addons[i] \in DOMAIN Priority
    OBVIOUS
<1> HIDE DEF n
<1>2. PICK from \in [1..n -> 1..n] :
          /\ \A i, j \in 1..n : i < j => Sooner(from[i], from[j])
          /\ addons' = [i \in 1..n |-> addons[from[i]]]
    BY <1>1 DEF OrderAddons
<1>3. \A i \in 1..n : ~Sooner(i, i)
    <2>1. \A i \in 1..n : Priority[addons[i]] \in Nat
        BY <1>1, CodesAssumption
    <2> QED
        BY <2>1 DEF Sooner
<1>4. \A i, j \in 1..n : from[i] = from[j] => i = j
    <2> SUFFICES ASSUME NEW i \in 1..n, NEW j \in 1..n, from[i] = from[j], i < j
                 PROVE  FALSE
        BY <1>1
    <2>1. Sooner(from[i], from[j]) /\ from[i] \in 1..n
        BY <1>2
    <2> QED
        BY <1>3, <2>1
<1>5. from \in Injection(1..n, 1..n)
    BY <1>4 DEF Injection, IsInjective
<1>6. IsFiniteSet(1..n)
    BY <1>1, FS_Interval
<1>7. from \in Surjection(1..n, 1..n)
    BY <1>5, <1>6, FS_Injection
<1>8. \A k \in 1..n : \E i \in 1..n : from[i] = k
    BY <1>7 DEF Surjection
<1> QED
    BY <1>2, <1>8 DEF n

\* So it loses no addon,
LEMMA OrderKeeps ==
    ASSUME addons \in Seq(DOMAIN Priority), OrderAddons
    PROVE  ToSet(addons') = ToSet(addons)
<1> DEFINE n == Len(addons)
<1>1. n \in Nat /\ DOMAIN addons = 1..n
    OBVIOUS
<1>2. PICK from \in [1..n -> 1..n] :
          /\ addons' = [i \in 1..n |-> addons[from[i]]]
          /\ \A k \in 1..n : \E i \in 1..n : from[i] = k
    BY Reordered
<1> HIDE DEF n
<1>3. DOMAIN addons' = 1..n /\ \A i \in 1..n : addons'[i] = addons[from[i]] /\ from[i] \in 1..n
    BY <1>2
<1> QED
    BY <1>1, <1>2, <1>3 DEF ToSet

\* and a first addon that none is to come before stays the first.
LEMMA OrderKeepsFirst ==
    ASSUME addons \in Seq(DOMAIN Priority), addons # <<>>, addons[1] = "mp", OrderAddons
    PROVE  addons' # <<>> /\ addons'[1] = "mp"
<1> DEFINE n == Len(addons)
<1>1. n \in Nat /\ n > 0 /\ \A i \in 1..n : addons[i] \in DOMAIN Priority
    OBVIOUS
<1>2. PICK from \in [1..n -> 1..n] :
          /\ \A i, j \in 1..n : i < j => Sooner(from[i], from[j])
          /\ addons' = [i \in 1..n |-> addons[from[i]]]
          /\ \A k \in 1..n : \E i \in 1..n : from[i] = k
    BY Reordered
<1> HIDE DEF n
<1>3. 1 \in 1..n /\ from[1] \in 1..n /\ addons[1] \in DOMAIN Priority
    <2>1. 1 \in 1..n
        BY <1>1
    <2>2. from[1] \in 1..n
        BY <1>2, <2>1
    <2>3. addons[1] \in DOMAIN Priority
        BY <1>1, <2>1
    <2> QED
        BY <2>1, <2>2, <2>3
<1>4. \A i \in 1..n : ~Sooner(i, 1)
    <2>1. \A i \in 1..n : /\ Priority[addons[i]] \in Nat /\ Priority[addons[1]] \in Nat
                          /\ Priority[addons[1]] <= Priority[addons[i]]
        BY <1>1, <1>3, CodesAssumption
    <2> QED
        BY <2>1 DEF Sooner
<1>5. PICK j \in 1..n : from[j] = 1
    BY <1>2, <1>3
<1>6. j = 1
    <2>1. j # 1 => 1 < j
        BY <1>1
    <2> QED
        BY <1>2, <1>3, <1>4, <1>5, <2>1
<1>7. DOMAIN addons' = 1..n /\ addons'[1] = addons[from[1]]
    BY <1>2, <1>3
<1>8. addons' # <<>>
    <2>1. 1 \in DOMAIN addons'
        BY <1>3, <1>7
    <2>2. DOMAIN << >> = {}
        OBVIOUS
    <2> QED
        BY <2>1, <2>2
<1> QED
    BY <1>5, <1>6, <1>7, <1>8

\* Both hold before the first step.
LEMMA InitAddons == Init => AddonsInv /\ PomsInv
<1> SUFFICES ASSUME Init PROVE AddonsInv /\ PomsInv
    OBVIOUS
<1>1. stage = "template" /\ DOMAIN poms = {}
    BY DEF Init
<1> QED
    BY <1>1 DEF AddonsInv, PomsInv

\* Every step keeps the addons that are there.  AddDependentAddons goes on only when the
\* addon of the server is.
LEMMA NextAddons == StepsInv /\ AddonsInv /\ [Next]_vars => AddonsInv'
<1> SUFFICES ASSUME StepsInv, AddonsInv, [Next]_vars
             PROVE  AddonsInv'
    OBVIOUS
<1>0. addons \in Seq(DOMAIN Priority)
    BY DEF StepsInv
<1>1. CASE ApplyTemplateValues
    <2>1. stage' = "dependent" /\ addons' = addons \o TemplateAddons
        BY <1>1, Later DEF ApplyTemplateValues
    <2>2. "mp" \in ToSet(TemplateAddons) /\ TemplateAddons \in Seq(DOMAIN Priority)
        BY CodesAssumption DEF ToSet
    <2>3. "mp" \in ToSet(addons')
        BY <1>0, <2>1, <2>2, JoinedHas
    <2> QED
        BY <2>1, <2>3 DEF AddonsInv
<1>2. CASE AddDependentAddons
    <2> DEFINE names == ToSet(addons)
               missing == (UNION {DependentAddons(a) : a \in names}) \ names
    <2>1. stage = "dependent" /\ project' = project /\ "mp" \in names
        BY <1>2 DEF AddDependentAddons, AddonsInv
    <2>2. CASE missing = {}
        <3>1. UNCHANGED addons
            BY <1>2, <2>2 DEF AddDependentAddons
        <3>2. Code[project.server] \in DependentAddons("mp")
            BY DEF DependentAddons
        <3>3. Code[project.server] \in names
            BY <2>1, <2>2, <3>2
        <3> QED
            BY <2>1, <3>1, <3>3 DEF AddonsInv
    <2>3. CASE stage' = "failed" /\ UNCHANGED addons
        BY <2>1, <2>3 DEF AddonsInv
    <2>4. CASE missing # {} /\ missing \subseteq DOMAIN Priority
        <3>1. stage' = "dependent" /\ \E order \in SetToSeqs(missing) : addons' = addons \o order
            BY <1>2, <2>1, <2>4 DEF AddDependentAddons
        <3>2. PICK order \in SetToSeqs(missing) : addons' = addons \o order
            BY <3>1
        <3>3. missing \subseteq {Code[project.server]}
            BY DEF DependentAddons
        <3> HIDE DEF missing, names
        <3>4. IsFiniteSet(missing) /\ Cardinality(missing) \in Nat
            <4>1. IsFiniteSet({Code[project.server]})
                BY FS_Singleton
            <4> QED
                BY <3>3, <4>1, FS_Subset, FS_CardinalityType
        <3>5. order \in [1..Cardinality(missing) -> missing]
            BY DEF SetToSeqs
        <3>6. order \in Seq(DOMAIN Priority)
            BY <2>4, <3>4, <3>5
        <3>7. "mp" \in ToSet(addons')
            BY <1>0, <2>1, <3>2, <3>6, JoinedHas DEF names
        <3> QED
            BY <3>1, <3>7 DEF AddonsInv
    <2> QED
        BY <1>2, <2>2, <2>3, <2>4 DEF AddDependentAddons
<1>3. CASE OrderAddons
    <2>1. stage = "order" /\ UNCHANGED project
        BY <1>3 DEF OrderAddons
    <2> QED
        BY <1>0, <1>3, <2>1, OrderKeeps DEF AddonsInv
<1>4. CASE DetermineAlternatives
    BY <1>4 DEF DetermineAlternatives, AddonsInv
<1>5. CASE CreateMavenFiles
    BY <1>5 DEF CreateMavenFiles, AddonsInv
<1>6. CASE EnterCreator
    BY <1>6 DEF EnterCreator, AddonsInv, Creators
<1>7. CASE ProcessTemplate
    <2>1. UNCHANGED <<project, addons>> /\ (stage' = stage \/ stage' = "failed")
        BY <1>7 DEF ProcessTemplate
    <2>2. todo # <<>>
        BY <1>7 DEF ProcessTemplate
    <2>3. stage # "template"
        BY <2>2 DEF StepsInv, Early
    <2> QED
        BY <2>1, <2>3 DEF AddonsInv
<1>8. CASE RemoveDirectory
    BY <1>8 DEF RemoveDirectory, AddonsInv
<1>9. CASE UNCHANGED vars
    BY <1>9 DEF vars, AddonsInv
<1> QED
    BY <1>1, <1>2, <1>3, <1>4, <1>5, <1>6, <1>7, <1>8, <1>9 DEF Next

\* CreateMavenFiles makes the poms when both addons are there; no other step changes them.
LEMMA NextPoms == StepsInv /\ AddonsInv /\ PomsInv /\ [Next]_vars => PomsInv'
<1> SUFFICES ASSUME StepsInv, AddonsInv, PomsInv, [Next]_vars
             PROVE  PomsInv'
    OBVIOUS
<1>0. /\ addons \in Seq(DOMAIN Priority)
      /\ project.server \in Servers /\ project.tool \in {"MAVEN", "GRADLE"}
    BY InTables DEF StepsInv, Ready
<1>1. CASE CreateMavenFiles
    <2>1. /\ UNCHANGED <<project, addons>>
          /\ \/ /\ DOMAIN poms' = {Dir(main) : main \in BOOLEAN}
                /\ \A dir \in DOMAIN poms' :
                       poms'[dir] = Pom(project, addons, dir # Secondary) /\ poms'[dir] # Null
             \/ stage' = "failed" /\ UNCHANGED poms
        BY <1>1, Later DEF CreateMavenFiles
    <2>2. CASE stage' = "failed" /\ UNCHANGED poms
        BY <2>1, <2>2 DEF PomsInv
    <2>3. CASE /\ DOMAIN poms' = {Dir(main) : main \in BOOLEAN}
               /\ \A dir \in DOMAIN poms' :
                      poms'[dir] = Pom(project, addons, dir # Secondary) /\ poms'[dir] # Null
        <3>1. "mp" \in ToSet(addons) /\ Code[project.server] \in ToSet(addons)
            BY <1>1 DEF CreateMavenFiles, AddonsInv
        <3>2. /\ \E i \in DOMAIN addons : addons[i] = "mp"
              /\ \E i \in DOMAIN addons : addons[i] # "mp"
            BY <1>0, <3>1, CodesAssumption DEF ToSet
        <3>3. ASSUME NEW dir \in DOMAIN poms'
              PROVE  Adapted(poms'[dir], project, dir # Secondary, TRUE, TRUE)
            <4> DEFINE main == dir # Secondary
                       one == \E i \in DOMAIN addons : addons[i] = "mp"
                       other == \E i \in DOMAIN addons : addons[i] # "mp"
            <4>1. main \in BOOLEAN /\ one = TRUE /\ other = TRUE
                BY <3>2
            <4>2. poms'[dir] = Pom(project, addons, main) /\ Pom(project, addons, main) # Null
                BY <2>3, <3>3
            <4> HIDE DEF main
            <4>3. Adapted(Pom(project, addons, main), project, main, one, other)
                BY <1>0, <4>1, <4>2, PomParts
            <4> QED
                BY <4>1, <4>2, <4>3 DEF main
        <3>4. \A main \in BOOLEAN : Dir(main) \in DOMAIN poms'
            BY <2>3
        <3>5. \A main \in BOOLEAN : Dir(main)' = Dir(main)
            BY <2>1 DEF Dir, Split, Has
        <3>6. (\A main \in BOOLEAN : Dir(main) \in DOMAIN poms)'
            BY <3>4, <3>5
        <3>7. (\A dir \in DOMAIN poms : Adapted(poms[dir], project, dir # Secondary, TRUE, TRUE))'
            BY <2>1, <3>3 DEF Adapted
        <3> QED
            BY <3>6, <3>7 DEF PomsInv
    <2> QED
        BY <2>1, <2>2, <2>3
<1>2. CASE UNCHANGED <<project, poms>>
    <2>1. ASSUME stage' \in {"cdi", "java", "addons", "done"}, project.tool = "MAVEN"
          PROVE  stage \in {"cdi", "java", "addons", "done"} \/ CreateMavenFiles
        <3>1. ApplyTemplateValues \/ AddDependentAddons \/ OrderAddons => FALSE
            BY <2>1, Later DEF ApplyTemplateValues, AddDependentAddons, OrderAddons
        <3>2. DetermineAlternatives => FALSE
            BY <2>1 DEF DetermineAlternatives
        <3>3. EnterCreator => stage \in {"cdi", "java", "addons"}
            BY <2>1 DEF EnterCreator, Creators
        <3>4. ProcessTemplate \/ RemoveDirectory \/ UNCHANGED vars => stage' = stage \/ stage' = "failed"
            BY DEF ProcessTemplate, RemoveDirectory, vars
        <3> QED
            BY <2>1, <3>1, <3>2, <3>3, <3>4 DEF Next
    <2>2. CASE CreateMavenFiles
        BY <1>1, <2>2
    <2>3. CASE ~CreateMavenFiles
        <3>1. \A main \in BOOLEAN : Dir(main)' = Dir(main)
            BY <1>2 DEF Dir, Split, Has
        <3>2. (\A dir \in DOMAIN poms : Adapted(poms[dir], project, dir # Secondary, TRUE, TRUE))'
            BY <1>2 DEF PomsInv
        <3> QED
            BY <1>2, <2>1, <2>3, <3>1, <3>2 DEF PomsInv
    <2> QED
        BY <2>2, <2>3
<1>3. CreateMavenFiles \/ UNCHANGED <<project, poms>>
    BY DEF Next, ApplyTemplateValues, AddDependentAddons, OrderAddons, DetermineAlternatives,
           EnterCreator, ProcessTemplate, RemoveDirectory, vars
<1> QED
    BY <1>1, <1>2, <1>3

-----------------------------------------------------------------------------
(* Nothing is missing *)

\* The first addon is mp, so that those after it find a profile in the pom; the
\* alternatives are all those of the server and the version, so that what is looked
\* up is there.
FoundInv ==
    /\ EveryTemplateFound
    /\ stage = "template" => addons = <<>>
    /\ stage # "template" => addons # <<>> /\ addons[1] = "mp"
    /\ stage \notin Early => alternatives = OfServer

\* A template that can be chosen is found.
LEMMA Chooseable ==
    ASSUME NEW name, NEW alts, IsFiniteSet(alts), NEW t \in Candidates(name), StandsOut(t, alts)
    PROVE  FindFile(name, alts) # {}
<1> DEFINE candidates == Candidates(name)
<1>0. \/ candidates = {t}
      \/ /\ t.alternatives \subseteq alts
         /\ \A u \in candidates \ {t} : u.alternatives \subseteq alts =>
                Cardinality(u.alternatives) < Cardinality(t.alternatives)
    BY DEF StandsOut, Candidates
<1>1. IsFiniteSet(candidates)
    <2>1. candidates \subseteq TemplateFiles
        BY DEF Candidates
    <2> QED
        BY <2>1, AlternativesAssumption, FS_Subset
<1>2. CASE Cardinality(candidates) = 1
    BY <1>2 DEF FindFile
<1>3. CASE Cardinality(candidates) # 1
    <2>1. candidates # {t}
        BY <1>3, FS_Singleton
    <2>2. /\ t.alternatives \subseteq alts
          /\ \A u \in candidates \ {t} : u.alternatives \subseteq alts =>
                 Cardinality(u.alternatives) < Cardinality(t.alternatives)
        BY <1>0, <2>1
    <2>3. FindFile(name, alts) = SelectBasedOnAlternatives(candidates, alts)
        BY <1>3 DEF FindFile
    <2>4. \A u \in candidates : u.alternatives \subseteq alts => Cardinality(u.alternatives) \in Nat
        BY FittingSize
    <2>5. \A u \in candidates : u.alternatives \subseteq alts =>
              Cardinality(u.alternatives) <= Cardinality(t.alternatives)
        BY <2>2, <2>4
    <2>6. ASSUME SelectBasedOnAlternatives(candidates, alts) = {}
          PROVE  FALSE
        <3>1. t \in candidates
            OBVIOUS
        <3> HIDE DEF candidates
        <3>2. PICK u \in candidates \ {t} :
                  /\ u.alternatives \subseteq alts
                  /\ Cardinality(u.alternatives) = Cardinality(t.alternatives)
            BY <1>1, <2>2, <2>5, <2>6, <3>1, LookupFails
        <3> QED
            BY <2>2, <2>4, <3>2
    <2> QED
        BY <2>3, <2>6
<1> QED
    BY <1>2, <1>3

\* So every proper lookup finds its template.
LEMMA LookupFinds ==
    ASSUME Ready, alternatives = OfServer, NEW step \in Proper \cup ProperBeans, ~step.remove
    PROVE  FindFile(step.template, step.alternatives) # {}
<1> DEFINE s == project.server
           v == project.version
           name == step.template
           alts == step.alternatives
           extra == alts \cap {"gradle", Secondary}
<1>1. /\ name \in Names /\ alts \subseteq Alternatives
      /\ alternatives \subseteq alts /\ alts \subseteq alternatives \cup {"gradle", Secondary}
      /\ name \in GradleNames => "gradle" \in alts
      /\ \A pair \in OwnNames : pair[2] = name => pair[1] = s
    BY Lookups DEF Suits, Step
<1>2. s \in Servers /\ v \in Offered(s)
    BY InTables, ProjectsAssumption DEF Ready
<1>3. alts = VersionAlternatives[v] \cup {Code[s]} \cup extra
    BY <1>1 DEF OfServer
<1>4. extra \in SUBSET {"gradle", Secondary} /\ (name \in GradleNames => "gradle" \in extra)
    BY <1>1
<1>5. IsFiniteSet(alts)
    BY <1>1, AlternativesAssumption, FS_Subset
<1> HIDE DEF s, v, name, alts, extra
<1>6. \E t \in Candidates(name) : StandsOut(t, alts)
    BY <1>1, <1>2, <1>3, <1>4, LookupsAssumption
<1> QED
    BY <1>5, <1>6, Chooseable DEF name, alts

\* It holds before the first step,
LEMMA InitFound == Init => FoundInv
BY DEF Init, FoundInv, EveryTemplateFound, Early

\* and every step keeps it: the addon of the server is registered, no addon throws, and no
\* lookup fails.
LEMMA NextFound == StepsInv /\ AddonsInv /\ FoundInv /\ [Next]_vars => FoundInv'
<1> SUFFICES ASSUME StepsInv, AddonsInv, FoundInv, [Next]_vars
             PROVE  FoundInv'
    OBVIOUS
<1>0. /\ addons \in Seq(DOMAIN Priority) /\ Ready
      /\ project.server \in Servers
    BY InTables DEF StepsInv, Ready
<1>1. CASE ApplyTemplateValues
    <2>1. stage = "template" /\ stage' = "dependent" /\ addons' = addons \o TemplateAddons
        BY <1>1, Later DEF ApplyTemplateValues
    <2>2. addons' # <<>> /\ addons'[1] = "mp"
        BY <2>1, CodesAssumption DEF FoundInv
    <2> QED
        BY <2>1, <2>2 DEF FoundInv, EveryTemplateFound, Early
<1>2. CASE AddDependentAddons
    <2> DEFINE missing == (UNION {DependentAddons(a) : a \in ToSet(addons)}) \ ToSet(addons)
    <2>1. missing \subseteq {Code[project.server]} /\ Code[project.server] \in DOMAIN Priority
        BY <1>0, CodesAssumption DEF DependentAddons
    <2>2. stage = "dependent" /\ addons # <<>> /\ addons[1] = "mp"
        BY <1>2 DEF AddDependentAddons, FoundInv
    <2>3. /\ stage' \in {"dependent", "order"}
          /\ addons' = addons \/ \E order \in SetToSeqs(missing) : addons' = addons \o order
        BY <1>2, <2>1, Later DEF AddDependentAddons
    <2>4. addons' # <<>> /\ addons'[1] = "mp"
        <3>1. CASE addons' = addons
            BY <2>2, <3>1
        <3>2. CASE \E order \in SetToSeqs(missing) : addons' = addons \o order
            <4> HIDE DEF missing
            <4>1. PICK order \in SetToSeqs(missing) : addons' = addons \o order
                BY <3>2
            <4>2. IsFiniteSet(missing) /\ Cardinality(missing) \in Nat
                <5>1. IsFiniteSet({Code[project.server]})
                    BY FS_Singleton
                <5> QED
                    BY <2>1, <5>1, FS_Subset, FS_CardinalityType
            <4>3. order \in [1..Cardinality(missing) -> missing]
                BY DEF SetToSeqs
            <4>4. order \in Seq(DOMAIN Priority)
                BY <2>1, <4>2, <4>3
            <4> QED
                BY <1>0, <2>2, <4>1, <4>4
        <3> QED
            BY <2>3, <3>1, <3>2
    <2> QED
        BY <2>3, <2>4 DEF FoundInv, EveryTemplateFound, Early
<1>3. CASE OrderAddons
    <2>1. stage = "order" /\ stage' = "alternatives"
        BY <1>3, Later DEF OrderAddons
    <2>2. addons' # <<>> /\ addons'[1] = "mp"
        BY <1>0, <1>3, <2>1, OrderKeepsFirst DEF FoundInv
    <2> QED
        BY <2>1, <2>2 DEF FoundInv, EveryTemplateFound, Early
<1>4. CASE DetermineAlternatives
    <2>1. /\ stage = "alternatives" /\ stage' = "build" /\ UNCHANGED <<project, addons>>
          /\ alternatives' = VersionAlternatives[project.version]
                             \cup UNION {AlternativesNames(a) : a \in ToSet(addons)}
        BY <1>4 DEF DetermineAlternatives
    <2>2. "mp" \in ToSet(addons)
        BY <2>1 DEF AddonsInv
    <2>3. alternatives' = OfServer'
        BY <2>1, <2>2 DEF AlternativesNames, OfServer
    <2> QED
        BY <2>1, <2>3 DEF FoundInv, EveryTemplateFound
<1>5. CASE CreateMavenFiles
    <2>1. \A main \in BOOLEAN : Pom(project, addons, main) # Null
        <3>1. Offer(project)
            BY <1>0, InTables, ProjectsAssumption DEF Ready, Offer, Project
        <3>2. addons # <<>> /\ addons[1] = "mp"
            BY <1>5 DEF CreateMavenFiles, FoundInv
        <3> QED
            BY <1>0, <3>1, <3>2, PomMade
    <2>2. stage = "build" /\ stage' = "cdi" /\ UNCHANGED <<project, addons, alternatives>>
        BY <1>5, <2>1, Later DEF CreateMavenFiles
    <2> QED
        BY <2>2 DEF FoundInv, EveryTemplateFound, Early, OfServer
<1>6. CASE EnterCreator
    <2>1. /\ stage \in Creators /\ stage' = NextStage(stage)
          /\ UNCHANGED <<project, addons, alternatives>>
        BY <1>6 DEF EnterCreator
    <2>2. stage \notin Early /\ stage' \in {"cdi", "java", "addons", "done"}
        BY <2>1, Later DEF Creators, Early
    <2> QED
        BY <2>1, <2>2 DEF FoundInv, EveryTemplateFound, OfServer, Creators
<1>7. CASE ProcessTemplate
    <2> DEFINE step == Head(todo)
               Allowed == IF stage = "java" THEN ProperBeans ELSE Proper
    <2>1. todo # <<>> /\ ~step.remove /\ UNCHANGED <<project, addons, alternatives>>
        BY <1>7 DEF ProcessTemplate
    <2>2. stage \notin Early /\ step \in Allowed
        <3>1. todo \in Seq(Allowed) /\ stage \notin Early
            BY <2>1 DEF StepsInv
        <3> HIDE DEF Allowed
        <3> QED
            BY <2>1, <3>1
    <2>3. FindFile(step.template, step.alternatives) # {}
        <3>1. step \in Proper \cup ProperBeans /\ alternatives = OfServer
            BY <2>2 DEF FoundInv
        <3> QED
            BY <1>0, <2>1, <3>1, LookupFinds
    <2>4. stage' = stage
        BY <1>7, <2>3 DEF ProcessTemplate
    <2> QED
        BY <2>1, <2>2, <2>4 DEF FoundInv, EveryTemplateFound, OfServer
<1>8. CASE RemoveDirectory
    BY <1>8 DEF RemoveDirectory, FoundInv, EveryTemplateFound, OfServer
<1>9. CASE UNCHANGED vars
    BY <1>9 DEF vars, FoundInv, EveryTemplateFound, OfServer
<1> QED
    BY <1>1, <1>2, <1>3, <1>4, <1>5, <1>6, <1>7, <1>8, <1>9 DEF Next

-----------------------------------------------------------------------------
(* Its files and their places *)

\* beans.xml of the archive of a server without webapp, and the removal of a directory
MetaBeans(dir) ==
    [dir |-> dir, place |-> "META-INF", template |-> "beans.xml", name |-> "beans.xml",
     alternatives |-> A, remove |-> FALSE]
Removal(dir, place) ==
    [dir |-> dir, place |-> place, template |-> Null, name |-> Null,
     alternatives |-> {}, remove |-> TRUE]

\* A sequence has what a part of it has.
LEMMA EitherHas ==
    ASSUME NEW T, NEW s \in Seq(T), NEW t \in Seq(T), NEW x, x \in ToSet(s) \/ x \in ToSet(t)
    PROVE  x \in ToSet(s \o t)
BY JoinedHas

\* A single step is all that its sequence has.
LEMMA OneHas ==
    ASSUME NEW x
    PROVE  x \in ToSet(<<x>>)
BY DEF ToSet

\* A function on the numbers up to n is a sequence.
LEMMA Listed ==
    ASSUME NEW T, NEW n \in Nat, NEW f \in [1..n -> T]
    PROVE  f \in Seq(T)
OBVIOUS

\* A list of lookups has the one of each name.
LEMMA AllHas ==
    ASSUME NEW T, NEW dir, NEW place, NEW S, NEW names \in Seq(S), NEW alts,
           \A name \in S : Write(dir, place, name, alts) \in Seq(T),
           NEW i \in DOMAIN names, NEW x \in ToSet(Write(dir, place, names[i], alts))
    PROVE  x \in ToSet(WriteAll(dir, place, names, alts))
<1> DEFINE steps == [k \in DOMAIN names |-> Write(dir, place, names[k], alts)]
<1>1. \A k \in DOMAIN names : names[k] \in S
    OBVIOUS
<1>2. DOMAIN names = 1..Len(names) /\ Len(names) \in Nat
    OBVIOUS
<1>3. \A k \in DOMAIN names : Write(dir, place, names[k], alts) \in Seq(T)
    BY <1>1
<1>4. steps \in [1..Len(names) -> Seq(T)]
    BY <1>2, <1>3
<1>5. i \in DOMAIN steps /\ x \in ToSet(steps[i])
    OBVIOUS
<1> HIDE DEF steps
<1>6. steps \in Seq(Seq(T))
    BY <1>2, <1>4, Listed, Zenon
<1> QED
    BY <1>5, <1>6, FlattenHas DEF WriteAll, steps

\* CDICreator writes a beans.xml into each service.
LEMMA CdiHas ==
    ASSUME Ready, project.beans, NEW main \in BOOLEAN
    PROVE  WebBeans(Dir(main)) \in ToSet(CreateCDIFilesForWeb)
<1> DEFINE first == BeansXml(TRUE, "WEB-INF")
           second == When(Split, BeansXml(FALSE, "WEB-INF"))
<1>1. \A m \in BOOLEAN : BeansXml(m, "WEB-INF") = <<WebBeans(Dir(m))>>
    BY DEF BeansXml, When, Write, WriteAs, WebBeans
<1>2. ASSUME NEW m \in BOOLEAN
      PROVE  <<WebBeans(Dir(m))>> \in Seq({WebBeans(dir) : dir \in Dirs})
    <2>1. WebBeans(Dir(m)) \in {WebBeans(dir) : dir \in Dirs}
        BY Directories
    <2> QED
        BY <2>1
<1>3. first \in Seq({WebBeans(dir) : dir \in Dirs}) /\ second \in Seq({WebBeans(dir) : dir \in Dirs})
    BY <1>1, <1>2, Chosen
<1>4. CASE main \/ ~Split
    <2>1. Dir(main) = Dir(TRUE)
        BY <1>4 DEF Dir
    <2>2. WebBeans(Dir(main)) \in ToSet(first)
        BY <1>1, <2>1, OneHas
    <2> QED
        BY <1>3, <2>2, EitherHas, Zenon DEF CreateCDIFilesForWeb
<1>5. CASE ~main /\ Split
    <2>1. second = <<WebBeans(Dir(main))>>
        BY <1>1, <1>5 DEF When
    <2>2. WebBeans(Dir(main)) \in ToSet(second)
        BY <2>1, OneHas
    <2> QED
        BY <1>3, <2>2, EitherHas, Zenon DEF CreateCDIFilesForWeb
<1> QED
    BY <1>4, <1>5

\* The addon of Quarkus removes webapp from both services,
LEMMA QuarkusHas ==
    ASSUME Ready, project.server = "QUARKUS", NEW main \in BOOLEAN
    PROVE  Removal(Dir(main), "webapp") \in ToSet(QuarkusFiles)
<1> DEFINE s1 == RemoveDir(Dir(TRUE), "webapp")
           s2 == When(Split, RemoveDir(Dir(FALSE), "webapp"))
           s3 == Write(Dir(TRUE), "resources", "application.properties", A)
           s4 == When(Split, Write(Dir(FALSE), "resources", "application.properties", B))
           s5 == Write(Dir(TRUE), "META-INF", "index.html", A)
           s6 == When(JwtB, Write(Dir(FALSE), "META-INF", "publicKey.pem", A))
<1>1. QuarkusFiles = s1 \o s2 \o s3 \o s4 \o s5 \o s6
    BY Zenon DEF QuarkusFiles
<1>2. project.server \in JarServers
    BY DEF JarServers
<1>3. /\ s1 \in Seq(Proper) /\ s2 \in Seq(Proper) /\ s3 \in Seq(Proper)
      /\ s4 \in Seq(Proper) /\ s5 \in Seq(Proper) /\ s6 \in Seq(Proper)
    BY <1>2, Pieces, Chosen, Zenon DEF InBoth, JwtB
<1>4. Removal(Dir(main), "webapp") \in ToSet(s1) \/ Removal(Dir(main), "webapp") \in ToSet(s2)
    <2>1. \A m \in BOOLEAN : Removal(Dir(m), "webapp") \in ToSet(RemoveDir(Dir(m), "webapp"))
        BY OneHas DEF RemoveDir, Removal
    <2>2. CASE main \/ ~Split
        BY <2>1, <2>2 DEF Dir
    <2>3. CASE ~main /\ Split
        <3>1. s2 = RemoveDir(Dir(main), "webapp")
            BY <2>3 DEF When
        <3> QED
            BY <2>1, <3>1
    <2> QED
        BY <2>2, <2>3
<1> HIDE DEF s1, s2, s3, s4, s5, s6
<1> QED
    BY <1>1, <1>3, <1>4, EitherHas, Joined, Zenon

\* that of KumuluzEE WEB-INF, and writes beans.xml elsewhere,
LEMMA KumuluzEEHas ==
    ASSUME Ready, project.server = "KUMULUZEE", NEW main \in BOOLEAN
    PROVE  /\ Removal(Dir(main), "WEB-INF") \in ToSet(KumuluzEEFiles)
           /\ project.beans => MetaBeans(Dir(main)) \in ToSet(KumuluzEEFiles)
<1>1. project.server \in JarServers /\ project.server \in WithoutWebapp
    BY DEF JarServers, WithoutWebapp
<1>2. ASSUME NEW m \in BOOLEAN, ~m => Split
      PROVE  /\ KumuluzEEPart(m) \in Seq(Proper)
             /\ Removal(Dir(m), "WEB-INF") \in ToSet(KumuluzEEPart(m))
             /\ project.beans => MetaBeans(Dir(m)) \in ToSet(KumuluzEEPart(m))
    <2> DEFINE s1 == BeansXml(m, "META-INF")
               s2 == RemoveDir(Dir(m), "WEB-INF")
               s3 == Write(Dir(m), "resources", "config.yaml", IF m THEN A ELSE B)
    <2>1. KumuluzEEPart(m) = s1 \o s2 \o s3
        BY Zenon DEF KumuluzEEPart
    <2>2. /\ s1 \in Seq(Proper) /\ s2 \in Seq(Proper) /\ s3 \in Seq(Proper)
        <3>1. s3 \in Seq(Proper)
            BY <1>2, Pieces DEF InBoth
        <3> QED
            BY <1>1, <3>1, Pieces, BeansXmlProper, Zenon
    <2>3. Removal(Dir(m), "WEB-INF") \in ToSet(s2)
        BY OneHas DEF RemoveDir, Removal
    <2>4. project.beans => MetaBeans(Dir(m)) \in ToSet(s1)
        BY OneHas DEF BeansXml, When, Write, WriteAs, MetaBeans
    <2> HIDE DEF s1, s2, s3
    <2> QED
        BY <2>1, <2>2, <2>3, <2>4, EitherHas, Joined, Zenon
<1> DEFINE first == KumuluzEEPart(TRUE)
           second == When(Split, KumuluzEEPart(FALSE))
<1>3. KumuluzEEFiles = first \o second /\ first \in Seq(Proper) /\ second \in Seq(Proper)
    BY <1>2, Chosen, Zenon DEF KumuluzEEFiles
<1>4. CASE main \/ ~Split
    <2>1. Dir(main) = Dir(TRUE)
        BY <1>4 DEF Dir
    <2>2. /\ Removal(Dir(main), "WEB-INF") \in ToSet(first)
          /\ project.beans => MetaBeans(Dir(main)) \in ToSet(first)
        BY <1>2, <2>1
    <2> HIDE DEF first, second
    <2> QED
        BY <1>3, <2>2, EitherHas, Zenon
<1>5. CASE ~main /\ Split
    <2>1. second = KumuluzEEPart(main)
        BY <1>5 DEF When
    <2>2. /\ Removal(Dir(main), "WEB-INF") \in ToSet(second)
          /\ project.beans => MetaBeans(Dir(main)) \in ToSet(second)
        BY <1>2, <1>5, <2>1
    <2> HIDE DEF first, second
    <2> QED
        BY <1>3, <2>2, EitherHas, Zenon
<1> QED
    BY <1>4, <1>5

\* and that of Helidon webapp likewise.
LEMMA HelidonHas ==
    ASSUME Ready, project.server = "HELIDON", NEW main \in BOOLEAN
    PROVE  /\ Removal(Dir(main), "webapp") \in ToSet(HelidonFiles)
           /\ project.beans => MetaBeans(Dir(main)) \in ToSet(HelidonFiles)
<1> DEFINE s1 == Write(Dir(TRUE), "WEB", "index.html", A)
           s2 == RemoveDir(Dir(TRUE), "webapp")
           s3 == When(Split, RemoveDir(Dir(FALSE), "webapp"))
           s4 == BeansXml(TRUE, "META-INF")
           s5 == When(Split, BeansXml(FALSE, "META-INF"))
           s6 == RemoveDir(Dir(TRUE), "WEB-INF")
           s7 == WriteAll(Dir(TRUE), "resources", <<"logging.properties", "privateKey.pem">>, A)
           s8 == When(Split, Write(Dir(FALSE), "java", "RestApplication.java", B))
           s9 == When(JwtB, Write(Dir(FALSE), "resources", "publicKey.pem", A))
           s10 == When(Split, Write(Dir(FALSE), "META-INF", "microprofile-config.properties", B))
<1>1. HelidonFiles = s1 \o s2 \o s3 \o s4 \o s5 \o s6 \o s7 \o s8 \o s9 \o s10
    BY Zenon DEF HelidonFiles, HelidonFilesWith
<1>2. project.server \in JarServers /\ project.server \in WithoutWebapp
    BY DEF JarServers, WithoutWebapp
<1>3. /\ s1 \in Seq(Proper) /\ s2 \in Seq(Proper) /\ s3 \in Seq(Proper) /\ s4 \in Seq(Proper)
      /\ s5 \in Seq(Proper) /\ s6 \in Seq(Proper) /\ s7 \in Seq(Proper) /\ s8 \in Seq(Proper)
      /\ s9 \in Seq(Proper) /\ s10 \in Seq(Proper)
    BY <1>2, Pieces, BeansXmlProper, Chosen, Zenon
<1>4. \A m \in BOOLEAN :
          /\ Removal(Dir(m), "webapp") \in ToSet(RemoveDir(Dir(m), "webapp"))
          /\ project.beans => MetaBeans(Dir(m)) \in ToSet(BeansXml(m, "META-INF"))
    BY OneHas DEF RemoveDir, Removal, BeansXml, When, Write, WriteAs, MetaBeans
<1>5. /\ Removal(Dir(main), "webapp") \in ToSet(s2) \/ Removal(Dir(main), "webapp") \in ToSet(s3)
      /\ project.beans => MetaBeans(Dir(main)) \in ToSet(s4) \/ MetaBeans(Dir(main)) \in ToSet(s5)
    <2>1. CASE main \/ ~Split
        <3>1. Dir(main) = Dir(TRUE)
            BY <2>1 DEF Dir
        <3> QED
            BY <1>4, <3>1
    <2>2. CASE ~main /\ Split
        <3>1. s3 = RemoveDir(Dir(main), "webapp") /\ s5 = BeansXml(main, "META-INF")
            BY <2>2 DEF When
        <3> QED
            BY <1>4, <3>1
    <2> QED
        BY <2>1, <2>2
<1> HIDE DEF s1, s2, s3, s4, s5, s6, s7, s8, s9, s10
<1> DEFINE t5 == s1 \o s2 \o s3 \o s4 \o s5
<1>6. /\ t5 \in Seq(Proper)
      /\ Removal(Dir(main), "webapp") \in ToSet(t5)
      /\ project.beans => MetaBeans(Dir(main)) \in ToSet(t5)
    BY <1>3, <1>5, EitherHas, Joined, Zenon
<1>7. HelidonFiles = t5 \o s6 \o s7 \o s8 \o s9 \o s10
    BY <1>1
<1> HIDE DEF t5
<1> QED
    BY <1>3, <1>6, <1>7, EitherHas, Joined, Zenon

\* So a server that packages jars removes WEB-INF from each service.
LEMMA ServersHave ==
    ASSUME Ready, NEW main \in BOOLEAN
    PROVE  /\ project.server \in JarServers =>
                  \E place \in {"webapp", "WEB-INF"} : Removal(Dir(main), place) \in ToSet(ServerFiles)
           /\ project.server \in WithoutWebapp /\ project.beans =>
                  MetaBeans(Dir(main)) \in ToSet(ServerFiles)
<1>1. /\ project.server = "QUARKUS" => ServerFiles = QuarkusFiles
      /\ project.server = "KUMULUZEE" => ServerFiles = KumuluzEEFiles
      /\ project.server = "HELIDON" => ServerFiles = HelidonFiles
    BY DEF ServerFiles
<1> QED
    BY <1>1, QuarkusHas, KumuluzEEHas, HelidonHas DEF JarServers, WithoutWebapp

\* What an addon has to do is a part of what all addons have to do.
LEMMA AddonsHave ==
    ASSUME Ready, addons \in Seq(DOMAIN Priority), NEW a \in ToSet(addons),
           NEW x \in ToSet(CreateFiles(a))
    PROVE  x \in ToSet(CreateArtifacts("addons"))
<1> DEFINE steps == [i \in DOMAIN addons |-> CreateFiles(addons[i])]
<1>1. PICK i \in DOMAIN addons : addons[i] = a
    BY DEF ToSet
<1>2. DOMAIN addons = 1..Len(addons) /\ Len(addons) \in Nat
    OBVIOUS
<1>3. /\ steps \in [1..Len(addons) -> Seq(Proper)]
      /\ DOMAIN steps = DOMAIN addons /\ steps[i] = CreateFiles(a)
    BY FilesProper, <1>1, <1>2
<1>4. CreateArtifacts("addons") = FlattenSeq(steps)
    BY DEF CreateArtifacts
<1> HIDE DEF steps
<1>5. steps \in Seq(Seq(Proper))
    BY <1>2, <1>3
<1> QED
    BY <1>3, <1>4, <1>5, FlattenHas

HasBeans(dir, place) ==
    \E f \in files : f.path.dir = dir /\ f.path.place = place /\ f.path.name = "beans.xml"

\* the files there are can be used by their service,
ServedInv == \A f \in files : Served(f.path)
\* and a beans.xml is there or still to come, or still to go: WEB-INF has one from
\* CDICreator on, which a server without webapp removes, and writes one of its own.
BeansInv ==
    /\ \A f \in files : f.path.name = "beans.xml" =>
           /\ project.beans
           /\ \/ f.path.place = "WEB-INF"
              \/ f.path.place = "META-INF" /\ project.server \in WithoutWebapp
    /\ stage \in {"java", "addons", "done"} /\ project.beans /\ project.server \notin JarServers =>
           \A main \in BOOLEAN :
               HasBeans(Dir(main), "WEB-INF") \/ WebBeans(Dir(main)) \in ToSet(todo)
    /\ stage = "done" /\ project.beans /\ project.server \in WithoutWebapp =>
           \A main \in BOOLEAN :
               HasBeans(Dir(main), "META-INF") \/ MetaBeans(Dir(main)) \in ToSet(todo)
    /\ stage = "done" /\ project.server \in JarServers =>
           \A main \in BOOLEAN :
               \/ ~HasBeans(Dir(main), "WEB-INF")
               \/ \E place \in {"webapp", "WEB-INF"} : Removal(Dir(main), place) \in ToSet(todo)
PlacedInv == ServedInv /\ BeansInv

\* Both hold before the first step.
LEMMA InitPlaced == Init => PlacedInv
<1> SUFFICES ASSUME Init PROVE PlacedInv
    OBVIOUS
<1>1. stage = "template" /\ files = {}
    BY DEF Init
<1> QED
    BY <1>1 DEF PlacedInv, ServedInv, BeansInv

\* What a step is and what a service can use depends on project and alternatives alone.
LEMMA SamePlaces ==
    ASSUME UNCHANGED <<project, alternatives>>
    PROVE  /\ \A path : Served(path)' <=> Served(path)
           /\ \A main \in BOOLEAN : Dir(main)' = Dir(main)
           /\ \A dir : WebBeans(dir)' = WebBeans(dir) /\ MetaBeans(dir)' = MetaBeans(dir)
           /\ \A dir, place : Removal(dir, place)' = Removal(dir, place)
BY DEF Served, Supplied, Dir, Split, Has, WebBeans, MetaBeans, Removal, A

\* The first thing to do is done, the others are left.
LEMMA HeadOrTail ==
    ASSUME NEW T, NEW s \in Seq(T), s # <<>>, NEW x \in ToSet(s)
    PROVE  x = Head(s) \/ x \in ToSet(Tail(s))
<1>1. PICK i \in 1..Len(s) : s[i] = x
    BY DEF ToSet
<1>2. CASE i = 1
    BY <1>1, <1>2
<1>3. CASE i # 1
    <2>1. /\ i - 1 \in 1..Len(Tail(s)) /\ DOMAIN Tail(s) = 1..Len(Tail(s))
          /\ Tail(s)[i - 1] = x
        BY <1>1, <1>3
    <2> QED
        BY <2>1 DEF ToSet
<1> QED
    BY <1>2, <1>3

\* A step that leaves the files alone, while the creators are not at work or are done.
LEMMA FilesUnchanged ==
    ASSUME PlacedInv, UNCHANGED <<project, files>>,
           files = {} \/ UNCHANGED alternatives,
           stage' \notin {"java", "addons", "done"}
    PROVE  PlacedInv'
<1>1. ServedInv'
    <2>1. CASE files = {}
        BY <2>1 DEF ServedInv
    <2>2. CASE UNCHANGED alternatives
        BY <2>2, SamePlaces DEF PlacedInv, ServedInv
    <2> QED
        BY <2>1, <2>2
<1>2. BeansInv'
    BY DEF PlacedInv, BeansInv
<1> QED
    BY <1>1, <1>2 DEF PlacedInv

\* A file that is written is one its service can use; a beans.xml is one that was to come.
LEMMA Written ==
    ASSUME StepsInv, PlacedInv, ProcessTemplate
    PROVE  PlacedInv'
<1> DEFINE step == Head(todo)
           found == FindFile(step.template, step.alternatives)
           Allowed == IF stage = "java" THEN ProperBeans ELSE Proper
<1>1. /\ UNCHANGED <<project, addons, alternatives>>
      /\ todo # <<>> /\ ~step.remove
    BY DEF ProcessTemplate
<1>2. /\ Ready /\ todo \in Seq(Allowed) /\ step \in Allowed
    <2>1. todo \in Seq(Allowed) /\ Ready
        BY DEF StepsInv, Ready
    <2> HIDE DEF Allowed
    <2> QED
        BY <1>1, <2>1
<1>3. CASE found = {}
    <2>1. stage' = "failed" /\ files' = files
        BY <1>3 DEF ProcessTemplate
    <2> QED
        BY <1>1, <2>1, FilesUnchanged
<1>4. CASE found # {}
    <2>1. /\ files' = {f \in files : f.path # PathOf(step)}
                      \cup {[path |-> PathOf(step), template |-> t] : t \in found}
          /\ todo' = Tail(todo) /\ stage' = stage
        BY <1>4 DEF ProcessTemplate
    <2> HIDE DEF found
    <2>2. /\ \A f \in files' : f \in files \/ f.path = PathOf(step)
          /\ \A f \in files : f \in files' \/ f.path = PathOf(step)
          /\ \E f \in files' : f.path = PathOf(step)
        <3> DEFINE new == {[path |-> PathOf(step), template |-> t] : t \in found}
        <3>1. \A f \in new : f.path = PathOf(step)
            OBVIOUS
        <3>2. \E f \in new : TRUE
            BY <1>4 DEF found
        <3> HIDE DEF new
        <3> QED
            BY <2>1, <3>1, <3>2 DEF new
    <2>3. /\ Served(PathOf(step))
          /\ step.name = "beans.xml" =>
                 /\ project.beans
                 /\ \/ step.place = "WEB-INF"
                    \/ step.place = "META-INF" /\ project.server \in WithoutWebapp
        BY <1>1, <1>2, Lookups
    <2>4. PathOf(step).dir = step.dir /\ PathOf(step).place = step.place /\ PathOf(step).name = step.name
        BY DEF PathOf
    <2>5. \A x \in ToSet(todo) : x = step \/ x \in ToSet(todo')
        BY <1>1, <1>2, <2>1, HeadOrTail
    <2>6. stage = "done" /\ step.name = "beans.xml" => step.place = "META-INF"
        BY <1>1, <1>2 DEF Proper, Fits
    <2> HIDE DEF step, Allowed
    <2>7. ServedInv'
        BY <1>1, <2>2, <2>3, SamePlaces DEF PlacedInv, ServedInv
    <2>8. \A dir, place : HasBeans(dir, place) => HasBeans(dir, place)'
        BY <2>2, <2>4 DEF HasBeans
    <2>9. \A dir, place : step.dir = dir /\ step.place = place /\ step.name = "beans.xml"
                              => HasBeans(dir, place)'
        BY <2>2, <2>4 DEF HasBeans
    <2>10. BeansInv'
        <3>1. \A f \in files' : f.path.name = "beans.xml" =>
                  /\ project.beans
                  /\ \/ f.path.place = "WEB-INF"
                     \/ f.path.place = "META-INF" /\ project.server \in WithoutWebapp
            BY <2>2, <2>3, <2>4 DEF PlacedInv, BeansInv
        <3>2. ASSUME stage \in {"java", "addons", "done"}, project.beans,
                     project.server \notin JarServers, NEW main \in BOOLEAN
              PROVE  HasBeans(Dir(main), "WEB-INF")' \/ WebBeans(Dir(main)) \in ToSet(todo')
            <4>1. HasBeans(Dir(main), "WEB-INF") \/ WebBeans(Dir(main)) \in ToSet(todo)
                BY <3>2 DEF PlacedInv, BeansInv
            <4>2. WebBeans(Dir(main)) = step => HasBeans(Dir(main), "WEB-INF")'
                <5>1. Dir(main)' = Dir(main)
                    BY <1>1, SamePlaces
                <5> QED
                    BY <2>9, <5>1 DEF WebBeans, HasBeans
            <4>3. HasBeans(Dir(main), "WEB-INF") => HasBeans(Dir(main), "WEB-INF")'
                BY <1>1, <2>8, SamePlaces DEF HasBeans
            <4> QED
                BY <2>5, <4>1, <4>2, <4>3
        <3>3. ASSUME stage = "done", project.beans, project.server \in WithoutWebapp,
                     NEW main \in BOOLEAN
              PROVE  HasBeans(Dir(main), "META-INF")' \/ MetaBeans(Dir(main)) \in ToSet(todo')
            <4>1. HasBeans(Dir(main), "META-INF") \/ MetaBeans(Dir(main)) \in ToSet(todo)
                BY <3>3 DEF PlacedInv, BeansInv
            <4>2. MetaBeans(Dir(main)) = step => HasBeans(Dir(main), "META-INF")'
                <5>1. Dir(main)' = Dir(main)
                    BY <1>1, SamePlaces
                <5> QED
                    BY <2>9, <5>1 DEF MetaBeans, HasBeans
            <4>3. HasBeans(Dir(main), "META-INF") => HasBeans(Dir(main), "META-INF")'
                BY <1>1, <2>8, SamePlaces DEF HasBeans
            <4> QED
                BY <2>5, <4>1, <4>2, <4>3
        <3>4. ASSUME stage = "done", project.server \in JarServers, NEW main \in BOOLEAN
              PROVE  \/ ~HasBeans(Dir(main), "WEB-INF")'
                     \/ \E place \in {"webapp", "WEB-INF"} : Removal(Dir(main), place) \in ToSet(todo')
            <4>1. \/ ~HasBeans(Dir(main), "WEB-INF")
                  \/ \E place \in {"webapp", "WEB-INF"} : Removal(Dir(main), place) \in ToSet(todo)
                BY <3>4 DEF PlacedInv, BeansInv
            <4>2. ~HasBeans(Dir(main), "WEB-INF") => ~HasBeans(Dir(main), "WEB-INF")'
                <5>1. Dir(main)' = Dir(main)
                    BY <1>1, SamePlaces
                <5> QED
                    BY <2>2, <2>4, <2>6, <3>4, <5>1 DEF HasBeans
            <4>3. \A place : Removal(Dir(main), place) # step
                BY <1>1 DEF Removal, step
            <4> QED
                BY <2>5, <4>1, <4>2, <4>3
        <3> QED
            BY <1>1, <2>1, <3>1, <3>2, <3>3, <3>4, SamePlaces DEF BeansInv
    <2> QED
        BY <2>7, <2>10 DEF PlacedInv
<1> QED
    BY <1>3, <1>4

\* A removal takes WEB-INF away and leaves META-INF.
LEMMA Emptied ==
    ASSUME StepsInv, PlacedInv, RemoveDirectory
    PROVE  PlacedInv'
<1> DEFINE step == Head(todo)
           Allowed == IF stage = "java" THEN ProperBeans ELSE Proper
<1>1. /\ UNCHANGED <<project, stage, addons, alternatives>>
      /\ todo # <<>> /\ step.remove /\ todo' = Tail(todo)
      /\ files' = {f \in files : f.path.dir = step.dir => f.path.place \notin Below(step.place)}
    BY DEF RemoveDirectory
<1>2. todo \in Seq(Allowed) /\ step \in Allowed
    <2>1. todo \in Seq(Allowed)
        BY DEF StepsInv
    <2> HIDE DEF Allowed
    <2> QED
        BY <1>1, <2>1
<1>3. step.place \in {"webapp", "WEB-INF"} /\ project.server \in JarServers
    <2>1. step \notin ProperBeans
        BY <1>1 DEF ProperBeans, WebBeans
    <2> QED
        BY <1>1, <1>2, <2>1 DEF Proper
<1>4. \A x \in ToSet(todo) : x = step \/ x \in ToSet(todo')
    <2> HIDE DEF Allowed
    <2> QED
        BY <1>1, <1>2, HeadOrTail
<1>5. "WEB-INF" \in Below(step.place) /\ "META-INF" \notin Below(step.place)
    BY <1>3 DEF Below
<1> HIDE DEF step, Allowed
<1>6. /\ \A f \in files' : f \in files
      /\ \A f \in files : f.path.place = "META-INF" => f \in files'
      /\ \A f \in files' : f.path.dir = step.dir => f.path.place # "WEB-INF"
    BY <1>1, <1>5
<1>7. \A main \in BOOLEAN : Dir(main)' = Dir(main)
    BY <1>1, SamePlaces
<1>8. ServedInv'
    BY <1>1, <1>6, SamePlaces DEF PlacedInv, ServedInv
<1>9. BeansInv'
    <2>1. ASSUME stage = "done", project.beans, project.server \in WithoutWebapp, NEW main \in BOOLEAN
          PROVE  HasBeans(Dir(main), "META-INF")' \/ MetaBeans(Dir(main)) \in ToSet(todo')
        <3>1. HasBeans(Dir(main), "META-INF") \/ MetaBeans(Dir(main)) \in ToSet(todo)
            BY <2>1 DEF PlacedInv, BeansInv
        <3>2. MetaBeans(Dir(main)) # step
            BY <1>1 DEF MetaBeans
        <3>3. HasBeans(Dir(main), "META-INF") => HasBeans(Dir(main), "META-INF")'
            BY <1>6, <1>7 DEF HasBeans
        <3> QED
            BY <1>4, <3>1, <3>2, <3>3
    <2>2. ASSUME stage = "done", NEW main \in BOOLEAN
          PROVE  \/ ~HasBeans(Dir(main), "WEB-INF")'
                 \/ \E place \in {"webapp", "WEB-INF"} : Removal(Dir(main), place) \in ToSet(todo')
        <3>1. \/ ~HasBeans(Dir(main), "WEB-INF")
              \/ \E place \in {"webapp", "WEB-INF"} : Removal(Dir(main), place) \in ToSet(todo)
            BY <1>3, <2>2 DEF PlacedInv, BeansInv
        <3>2. ~HasBeans(Dir(main), "WEB-INF") => ~HasBeans(Dir(main), "WEB-INF")'
            BY <1>6, <1>7 DEF HasBeans
        <3>3. \A place : Removal(Dir(main), place) = step => ~HasBeans(Dir(main), "WEB-INF")'
            BY <1>6, <1>7 DEF HasBeans, Removal
        <3> QED
            BY <1>4, <3>1, <3>2, <3>3
    <2>3. \A f \in files' : f.path.name = "beans.xml" =>
              /\ project.beans
              /\ \/ f.path.place = "WEB-INF"
                 \/ f.path.place = "META-INF" /\ project.server \in WithoutWebapp
        BY <1>6 DEF PlacedInv, BeansInv
    <2> QED
        BY <1>1, <1>3, <2>1, <2>2, <2>3, SamePlaces DEF BeansInv
<1> QED
    BY <1>8, <1>9 DEF PlacedInv

\* A creator or the addons are entered when nothing is left to do: what was to come is
\* there, and what is to come or to go now is in todo.
LEMMA Entered ==
    ASSUME StepsInv, AddonsInv, PlacedInv, EnterCreator
    PROVE  PlacedInv'
<1>1. /\ UNCHANGED <<project, addons, alternatives, files>>
      /\ stage \in Creators /\ todo = <<>>
      /\ stage' = NextStage(stage) /\ todo' = CreateArtifacts(stage)
    BY DEF EnterCreator
<1>2. Ready /\ addons \in Seq(DOMAIN Priority)
    BY DEF StepsInv, Ready
<1>3. ToSet(todo) = {}
    BY <1>1 DEF ToSet
<1>4. ServedInv'
    BY <1>1, SamePlaces DEF PlacedInv, ServedInv
<1>5. \A main \in BOOLEAN : Dir(main)' = Dir(main)
    BY <1>1, SamePlaces
<1>6. \A main \in BOOLEAN : \A place : HasBeans(Dir(main), place)' <=> HasBeans(Dir(main), place)
    BY <1>1, <1>5 DEF HasBeans
<1>7. \A f \in files' : f.path.name = "beans.xml" =>
          /\ project.beans
          /\ \/ f.path.place = "WEB-INF"
             \/ f.path.place = "META-INF" /\ project.server \in WithoutWebapp
    BY <1>1 DEF PlacedInv, BeansInv
<1>8. CASE stage = "build"
    <2>1. stage' = "cdi"
        BY <1>1, <1>8, Later
    <2> QED
        BY <1>1, <2>1, FilesUnchanged
<1>9. CASE stage = "cdi"
    <2>1. stage' = "java" /\ todo' = CreateCDIFilesForWeb
        BY <1>1, <1>9, Later DEF CreateArtifacts
    <2>2. project.beans => \A main \in BOOLEAN : WebBeans(Dir(main)) \in ToSet(todo')
        BY <1>2, <2>1, CdiHas
    <2>3. BeansInv'
        BY <1>1, <1>7, <2>1, <2>2, SamePlaces DEF BeansInv
    <2> QED
        BY <1>4, <2>3 DEF PlacedInv
<1>10. CASE stage \in {"java", "addons"}
    <2>1. project.beans /\ project.server \notin JarServers =>
              \A main \in BOOLEAN : HasBeans(Dir(main), "WEB-INF")'
        BY <1>3, <1>6, <1>10 DEF PlacedInv, BeansInv
    <2>2. CASE stage = "java"
        <3>1. stage' = "addons"
            BY <1>1, <2>2, Later
        <3>2. BeansInv'
            BY <1>1, <1>7, <2>1, <3>1, SamePlaces DEF BeansInv
        <3> QED
            BY <1>4, <3>2 DEF PlacedInv
    <2>3. CASE stage = "addons"
        <3>1. stage' = "done" /\ todo' = CreateArtifacts("addons")
            BY <1>1, <2>3, Later
        <3>2. Code[project.server] \in ToSet(addons)
            BY <2>3 DEF AddonsInv
        <3>3. \A x \in ToSet(ServerFiles) : x \in ToSet(todo')
            <4>1. CreateFiles(Code[project.server]) = ServerFiles
                BY <1>2, InTables, CodesAssumption DEF CreateFiles
            <4> QED
                BY <1>2, <3>1, <3>2, <4>1, AddonsHave
        <3>4. \A main \in BOOLEAN :
                  /\ project.server \in JarServers =>
                         \E place \in {"webapp", "WEB-INF"} : Removal(Dir(main), place) \in ToSet(todo')
                  /\ project.server \in WithoutWebapp /\ project.beans =>
                         MetaBeans(Dir(main)) \in ToSet(todo')
            BY <1>2, <3>3, ServersHave
        <3>5. BeansInv'
            BY <1>1, <1>7, <2>1, <3>1, <3>4, SamePlaces DEF BeansInv
        <3> QED
            BY <1>4, <3>5 DEF PlacedInv
    <2> QED
        BY <1>10, <2>2, <2>3
<1> QED
    BY <1>1, <1>8, <1>9, <1>10 DEF Creators

\* Every step keeps the files in their places.
LEMMA NextPlaced == StepsInv /\ AddonsInv /\ PlacedInv /\ [Next]_vars => PlacedInv'
<1> SUFFICES ASSUME StepsInv, AddonsInv, PlacedInv, [Next]_vars
             PROVE  PlacedInv'
    OBVIOUS
<1>1. CASE ApplyTemplateValues
    BY <1>1, FilesUnchanged, Later DEF ApplyTemplateValues
<1>2. CASE AddDependentAddons
    BY <1>2, FilesUnchanged, Later DEF AddDependentAddons
<1>3. CASE OrderAddons
    BY <1>3, FilesUnchanged, Later DEF OrderAddons
<1>4. CASE DetermineAlternatives
    <2>1. files = {} /\ stage' = "build" /\ UNCHANGED <<project, files>>
        BY <1>4 DEF DetermineAlternatives, StepsInv, Early
    <2> QED
        BY <2>1, FilesUnchanged
<1>5. CASE CreateMavenFiles
    BY <1>5, FilesUnchanged, Later DEF CreateMavenFiles
<1>6. CASE EnterCreator
    BY <1>6, Entered
<1>7. CASE ProcessTemplate
    BY <1>7, Written
<1>8. CASE RemoveDirectory
    BY <1>8, Emptied
<1>9. CASE UNCHANGED vars
    <2>1. UNCHANGED <<project, stage, alternatives, files, todo>>
        BY <1>9 DEF vars
    <2>2. ServedInv'
        BY <2>1, SamePlaces DEF PlacedInv, ServedInv
    <2>3. \A main \in BOOLEAN : \A place : HasBeans(Dir(main), place)' <=> HasBeans(Dir(main), place)
        BY <2>1, SamePlaces DEF HasBeans
    <2>4. BeansInv'
        BY <2>1, <2>3, SamePlaces DEF PlacedInv, BeansInv
    <2> QED
        BY <2>2, <2>4 DEF PlacedInv
<1> QED
    BY <1>1, <1>2, <1>3, <1>4, <1>5, <1>6, <1>7, <1>8, <1>9 DEF Next

-----------------------------------------------------------------------------
(* Its health checks and its page *)

HealthStep(name) ==
    [dir |-> Dir(TRUE), place |-> "health", template |-> name, name |-> name,
     alternatives |-> A, remove |-> FALSE]
HasCheck(name) == \E f \in files : f.path = Path(Dir(TRUE), "health", name)

\* Health checks are those of the version, and with the spec each is there or still to
\* come; a page comes from the template that stands out for server and version.
HealthInv ==
    /\ \A f \in files : f.path.place = "health" => f.path.name \in HealthNames
    /\ \A f \in files : f.path.name = "index.html" =>
           f.template \in Candidates("index.html") /\ StandsOut(f.template, A)
    /\ stage = "done" /\ Has("HEALTH_CHECKS") =>
           \A name \in HealthNames : HasCheck(name) \/ HealthStep(name) \in ToSet(todo)

\* The addon mp writes all health checks of the version.
LEMMA HealthHas ==
    ASSUME Ready, Has("HEALTH_CHECKS"), NEW name \in HealthNames
    PROVE  HealthStep(name) \in ToSet(CreateFiles("mp"))
<1> DEFINE Both == <<"ServiceLiveHealthCheck.java", "ServiceReadyHealthCheck.java">>
           startup == Write(Dir(TRUE), "health", "ServiceStartupHealthCheck.java", A)
<1>1. HealthNames \in SUBSET (PlainNames \cup Calling) /\ HealthNames \subseteq PlainNames
    BY DEF PlainNames, HealthNames
<1>2. "health" \in Places /\ \A n \in HealthNames : Served(Path(Dir(TRUE), "health", n))
    BY <1>1, Examples DEF Places, ExamplePlaces
<1>3. /\ \A n \in HealthNames : Write(Dir(TRUE), "health", n, A) \in Seq(Proper)
      /\ \A names \in Seq(HealthNames) : WriteAll(Dir(TRUE), "health", names, A) \in Seq(Proper)
    BY <1>1, <1>2, ExampleOfFirst
<1>4. \A n : /\ Write(Dir(TRUE), "health", n, A) = <<HealthStep(n)>>
             /\ HealthStep(n) \in ToSet(Write(Dir(TRUE), "health", n, A))
    BY OneHas DEF Write, WriteAs, HealthStep
<1>5. HealthStep(name) \in ToSet(HealthFiles)
    <2>1. CASE {"mp4_1", "mp3_x", "mp5_x"} \cap A # {}
        <3>1. Both \in Seq(HealthNames)
            <4>1. {"ServiceLiveHealthCheck.java", "ServiceReadyHealthCheck.java"} \subseteq HealthNames
                BY <2>1 DEF HealthNames, Generations
            <4> QED
                BY <4>1
        <3>2. /\ {"mp4_1", "mp5_x"} \cap A # {} => "ServiceStartupHealthCheck.java" \in HealthNames
              /\ {"mp4_1", "mp5_x"} \cap A = {} => "ServiceStartupHealthCheck.java" \notin HealthNames
            BY <2>1 DEF HealthNames, Generations
        <3>3. \A i \in DOMAIN Both : HealthStep(Both[i]) \in ToSet(WriteAll(Dir(TRUE), "health", Both, A))
            BY <1>3, <1>4, <3>1, AllHas
        <3>4. WriteAll(Dir(TRUE), "health", Both, A) \in Seq(Proper)
            BY <1>3, <3>1
        <3>5. When({"mp4_1", "mp5_x"} \cap A # {}, startup) \in Seq(Proper)
            BY <1>3, <3>2, Chosen
        <3>6. \/ HealthStep(name) \in ToSet(WriteAll(Dir(TRUE), "health", Both, A))
              \/ HealthStep(name) \in ToSet(When({"mp4_1", "mp5_x"} \cap A # {}, startup))
            <4>1. CASE name = "ServiceStartupHealthCheck.java"
                <5>1. When({"mp4_1", "mp5_x"} \cap A # {}, startup) = startup
                    BY <3>2, <4>1 DEF When
                <5> QED
                    BY <1>4, <4>1, <5>1
            <4>2. CASE name # "ServiceStartupHealthCheck.java"
                <5>1. name = Both[1] \/ name = Both[2]
                    BY <2>1, <4>2 DEF HealthNames, Generations
                <5>2. 1 \in DOMAIN Both /\ 2 \in DOMAIN Both
                    OBVIOUS
                <5> HIDE DEF Both
                <5> QED
                    BY <3>3, <5>1, <5>2
            <4> QED
                BY <4>1, <4>2
        <3>7. HealthFiles = WriteAll(Dir(TRUE), "health", Both, A)
                            \o When({"mp4_1", "mp5_x"} \cap A # {}, startup)
            BY <2>1, Zenon DEF HealthFiles
        <3> HIDE DEF Both, startup
        <3> QED
            BY <3>4, <3>5, <3>6, <3>7, EitherHas, Zenon
    <2>2. CASE {"mp4_1", "mp3_x", "mp5_x"} \cap A = {}
        <3>1. name = "ServiceHealthCheck.java"
            BY <2>2 DEF HealthNames, Generations
        <3>2. HealthFiles = Write(Dir(TRUE), "health", "ServiceHealthCheck.java", A)
            BY <2>2, Zenon DEF HealthFiles
        <3> QED
            BY <1>4, <3>1, <3>2
    <2> QED
        BY <2>1, <2>2
<1>6. HealthStep(name) \in ToSet(ExampleFiles)
    BY <1>5, ExamplesProper
<1>7. CreateFiles("mp") = ExampleFiles \o PageFiles
    BY DEF CreateFiles
<1> QED
    BY <1>6, <1>7, ExamplesProper, PagesProper, EitherHas, Zenon

\* It holds before the first step.
LEMMA InitHealth == Init => HealthInv
BY DEF Init, HealthInv

\* What the invariant is about depends on project and alternatives.
LEMMA SameHealth ==
    ASSUME UNCHANGED <<project, alternatives>>
    PROVE  /\ HealthNames' = HealthNames /\ A' = A /\ Dir(TRUE)' = Dir(TRUE)
           /\ Has("HEALTH_CHECKS")' <=> Has("HEALTH_CHECKS")
           /\ \A name : HealthStep(name)' = HealthStep(name)
BY DEF HealthNames, A, Dir, Split, Has, HealthStep

\* A step that leaves the files alone and does not end the work on them keeps it.
LEMMA HealthUnchanged ==
    ASSUME HealthInv, UNCHANGED <<project, files>>,
           files = {} \/ UNCHANGED alternatives, stage' # "done"
    PROVE  HealthInv'
<1>1. CASE files = {}
    BY <1>1 DEF HealthInv
<1>2. CASE UNCHANGED alternatives
    BY <1>2, SameHealth DEF HealthInv, A
<1> QED
    BY <1>1, <1>2

\* A file that is written is a check of the version, or the page of the version.
LEMMA HealthWritten ==
    ASSUME StepsInv, HealthInv, ProcessTemplate
    PROVE  HealthInv'
<1> DEFINE step == Head(todo)
           found == FindFile(step.template, step.alternatives)
           Allowed == IF stage = "java" THEN ProperBeans ELSE Proper
<1>1. UNCHANGED <<project, addons, alternatives>> /\ todo # <<>> /\ ~step.remove
    BY DEF ProcessTemplate
<1>2. Ready /\ todo \in Seq(Allowed) /\ step \in Proper \cup ProperBeans
    <2>1. todo \in Seq(Allowed) /\ Ready
        BY DEF StepsInv, Ready
    <2>2. Allowed \subseteq Proper \cup ProperBeans
        OBVIOUS
    <2> HIDE DEF Allowed
    <2> QED
        BY <1>1, <2>1, <2>2
<1>3. CASE found = {}
    <2>1. stage' = "failed" /\ files' = files
        BY <1>3 DEF ProcessTemplate
    <2> QED
        BY <1>1, <2>1, HealthUnchanged
<1>4. CASE found # {}
    <2>1. /\ files' = {f \in files : f.path # PathOf(step)}
                      \cup {[path |-> PathOf(step), template |-> t] : t \in found}
          /\ todo' = Tail(todo) /\ stage' = stage
        BY <1>4 DEF ProcessTemplate
    <2>2. /\ step \in Step
          /\ step.place = "health" => step.name \in HealthNames
          /\ step.name = "index.html" => step.template = step.name /\ step.alternatives = A
        BY <1>1, <1>2, Lookups
    <2>3. \A t \in found : t \in TemplateFiles /\ t.name = step.template /\ StandsOut(t, step.alternatives)
        BY <2>2, FileFits
    <2> HIDE DEF found
    <2>4. /\ \A f \in files' : f \in files \/ (f.path = PathOf(step) /\ f.template \in found)
          /\ \A f \in files : f \in files' \/ f.path = PathOf(step)
          /\ \E f \in files' : f.path = PathOf(step)
        <3> DEFINE new == {[path |-> PathOf(step), template |-> t] : t \in found}
        <3>1. \A f \in new : f.path = PathOf(step) /\ f.template \in found
            OBVIOUS
        <3>2. \E f \in new : TRUE
            BY <1>4 DEF found
        <3>3. files' = {f \in files : f.path # PathOf(step)} \cup new
            BY <2>1
        <3> HIDE DEF new, step
        <3> QED
            BY <3>1, <3>2, <3>3
    <2>5. PathOf(step) = Path(step.dir, step.place, step.name)
        BY DEF PathOf, Path
    <2>6. PathOf(step).place = step.place /\ PathOf(step).name = step.name
        BY DEF PathOf
    <2>7. \A x \in ToSet(todo) : x = step \/ x \in ToSet(todo')
        BY <1>1, <1>2, <2>1, HeadOrTail
    <2> HIDE DEF step, Allowed
    <2>8. \A f \in files' : f.path.place = "health" => f.path.name \in HealthNames
        BY <2>2, <2>4, <2>6 DEF HealthInv
    <2>9. \A f \in files' : f.path.name = "index.html" =>
              f.template \in Candidates("index.html") /\ StandsOut(f.template, A)
        BY <2>2, <2>3, <2>4, <2>6 DEF HealthInv, Candidates
    <2>10. ASSUME stage = "done", Has("HEALTH_CHECKS"), NEW name \in HealthNames
           PROVE  HasCheck(name)' \/ HealthStep(name) \in ToSet(todo')
        <3>1. HasCheck(name) \/ HealthStep(name) \in ToSet(todo)
            BY <2>10 DEF HealthInv
        <3>a. Path(Dir(TRUE), "health", name)' = Path(Dir(TRUE), "health", name)
            BY <1>1, SameHealth DEF Path
        <3>2. HasCheck(name) => HasCheck(name)'
            BY <2>4, <3>a DEF HasCheck
        <3>3. HealthStep(name) = step => HasCheck(name)'
            <4>1. HealthStep(name) = step => PathOf(step) = Path(Dir(TRUE), "health", name)
                <5>1. /\ HealthStep(name).dir = Dir(TRUE) /\ HealthStep(name).place = "health"
                      /\ HealthStep(name).name = name
                    BY DEF HealthStep
                <5> QED
                    BY <2>5, <5>1
            <4> QED
                BY <2>4, <3>a, <4>1 DEF HasCheck
        <3> QED
            BY <2>7, <3>1, <3>2, <3>3
    <2> QED
        BY <1>1, <2>1, <2>8, <2>9, <2>10, SameHealth DEF HealthInv
<1> QED
    BY <1>3, <1>4

\* A removal leaves the checks where they are: they do not lie in webapp.
LEMMA HealthKept ==
    ASSUME StepsInv, HealthInv, RemoveDirectory
    PROVE  HealthInv'
<1> DEFINE step == Head(todo)
           Allowed == IF stage = "java" THEN ProperBeans ELSE Proper
<1>1. /\ UNCHANGED <<project, stage, addons, alternatives>>
      /\ todo # <<>> /\ step.remove /\ todo' = Tail(todo)
      /\ files' = {f \in files : f.path.dir = step.dir => f.path.place \notin Below(step.place)}
    BY DEF RemoveDirectory
<1>2. todo \in Seq(Allowed) /\ step \in Allowed
    <2>1. todo \in Seq(Allowed)
        BY DEF StepsInv
    <2> HIDE DEF Allowed
    <2> QED
        BY <1>1, <2>1
<1>3. "health" \notin Below(step.place)
    <2>1. step \notin ProperBeans
        BY <1>1 DEF ProperBeans, WebBeans
    <2>2. step.place \in {"webapp", "WEB-INF"}
        BY <1>1, <1>2, <2>1 DEF Proper
    <2> QED
        BY <2>2 DEF Below
<1>4. \A x \in ToSet(todo) : x = step \/ x \in ToSet(todo')
    <2> HIDE DEF Allowed
    <2> QED
        BY <1>1, <1>2, HeadOrTail
<1> HIDE DEF step, Allowed
<1>5. \A f \in files' : f \in files
    BY <1>1
<1>6. ASSUME stage = "done", Has("HEALTH_CHECKS"), NEW name \in HealthNames
      PROVE  HasCheck(name)' \/ HealthStep(name) \in ToSet(todo')
    <2>1. HasCheck(name) \/ HealthStep(name) \in ToSet(todo)
        BY <1>6 DEF HealthInv
    <2>2. HasCheck(name) => HasCheck(name)'
        <3>1. Path(Dir(TRUE), "health", name)' = Path(Dir(TRUE), "health", name)
            BY <1>1, SameHealth DEF Path
        <3>2. Path(Dir(TRUE), "health", name).place = "health"
            BY DEF Path
        <3> QED
            BY <1>1, <1>3, <3>1, <3>2 DEF HasCheck
    <2>3. HealthStep(name) # step
        <3>1. HealthStep(name).remove = FALSE
            BY DEF HealthStep
        <3> QED
            BY <1>1, <3>1
    <2> QED
        BY <1>4, <2>1, <2>2, <2>3
<1> QED
    BY <1>1, <1>5, <1>6, SameHealth DEF HealthInv

\* Every step keeps it; mp is among the addons that start to work.
LEMMA NextHealth == StepsInv /\ AddonsInv /\ HealthInv /\ [Next]_vars => HealthInv'
<1> SUFFICES ASSUME StepsInv, AddonsInv, HealthInv, [Next]_vars
             PROVE  HealthInv'
    OBVIOUS
<1>1. CASE ApplyTemplateValues
    BY <1>1, HealthUnchanged, Later DEF ApplyTemplateValues
<1>2. CASE AddDependentAddons
    BY <1>2, HealthUnchanged, Later DEF AddDependentAddons
<1>3. CASE OrderAddons
    BY <1>3, HealthUnchanged, Later DEF OrderAddons
<1>4. CASE DetermineAlternatives
    <2>1. files = {} /\ stage' = "build" /\ UNCHANGED <<project, files>>
        BY <1>4 DEF DetermineAlternatives, StepsInv, Early
    <2> QED
        BY <2>1, HealthUnchanged
<1>5. CASE CreateMavenFiles
    BY <1>5, HealthUnchanged, Later DEF CreateMavenFiles
<1>6. CASE EnterCreator
    <2>1. /\ UNCHANGED <<project, addons, alternatives, files>>
          /\ stage \in Creators /\ stage' = NextStage(stage) /\ todo' = CreateArtifacts(stage)
        BY <1>6 DEF EnterCreator
    <2>2. CASE stage # "addons"
        <3>1. stage' # "done"
            BY <2>1, <2>2, Later DEF Creators
        <3> QED
            BY <2>1, <3>1, HealthUnchanged
    <2>3. CASE stage = "addons"
        <3>1. Ready /\ addons \in Seq(DOMAIN Priority) /\ "mp" \in ToSet(addons)
            BY <2>3 DEF StepsInv, Ready, AddonsInv
        <3>2. ASSUME Has("HEALTH_CHECKS"), NEW name \in HealthNames
              PROVE  HealthStep(name) \in ToSet(todo')
            BY <2>1, <2>3, <3>1, <3>2, HealthHas, AddonsHave
        <3> QED
            BY <2>1, <3>2, SameHealth DEF HealthInv
    <2> QED
        BY <2>2, <2>3
<1>7. CASE ProcessTemplate
    BY <1>7, HealthWritten
<1>8. CASE RemoveDirectory
    BY <1>8, HealthKept
<1>9. CASE UNCHANGED vars
    BY <1>9, SameHealth DEF vars, HealthInv, HasCheck
<1> QED
    BY <1>1, <1>2, <1>3, <1>4, <1>5, <1>6, <1>7, <1>8, <1>9 DEF Next

TemplatesInv ==
    TemplatesIInv /\ AddonsInv /\ PomsInv /\ FoundInv /\ PlacedInv /\ HealthInv

\* What is still to do and what has been done are proper at every moment, with any tables
\* of templates, versions, profiles and priorities that fit the assumptions.
THEOREM TemplatesInvariant == Spec => []TemplatesInv
<1>1. Init => TemplatesInv
    BY InitSteps, InitAddons, InitFound, InitPlaced, InitHealth DEF TemplatesInv
<1>2. TemplatesInv /\ [Next]_vars => TemplatesInv'
    BY NextSteps, NextAddons, NextPoms, NextFound, NextPlaced, NextHealth DEF TemplatesInv, TemplatesIInv
<1> QED
    BY <1>1, <1>2, PTL DEF Spec

\* No project gets code of another server, of the wrong service or of the other build tool,
\* whatever the templates, the versions and the priorities of the addons are.
THEOREM OwnTemplatesAlways == Spec => []OwnTemplates
<1>1. TemplatesInv => OwnTemplates
    BY DEF TemplatesInv, TemplatesIInv
<1> QED
    BY <1>1, TemplatesInvariant, PTL

\* No file of a project comes from a template when another one fits it better.
THEOREM BestTemplateAlways == Spec => []NoBetterTemplate
<1>1. TemplatesInv => NoBetterTemplate
    BY DEF TemplatesInv, TemplatesIInv
<1> QED
    BY <1>1, TemplatesInvariant, PTL

\* No valid request fails, whatever the order of its addons and the specs it asks for: the
\* addon of its server is registered, no addon throws, every lookup finds one template.
THEOREM EveryTemplateFoundAlways == Spec => []EveryTemplateFound
<1>1. TemplatesInv => EveryTemplateFound
    BY DEF TemplatesInv, FoundInv
<1> QED
    BY <1>1, TemplatesInvariant, PTL

\* What a pom that mp and the addon of the server have adapted lets its service use.
LEMMA Supplies ==
    ASSUME NEW pom, NEW main, Adapted(pom, project, main, TRUE, TRUE)
    PROVE  Supplied(main) \subseteq Usable(pom, project)
<1>1. /\ pom.dependencies = Platform(project) \cup MpDependencies(project, main)
      /\ pom.extensions = ExtensionsOf(project, main)
    BY DEF Adapted
<1>2. project.server # "QUARKUS" => "microprofile" \in pom.dependencies
    BY <1>1 DEF Platform
<1>3. CASE project.server = "QUARKUS"
    BY <1>1, <1>3 DEF Supplied, Usable
<1>4. CASE project.server = "WILDFLY"
    BY <1>1, <1>4 DEF Supplied, Usable
<1>5. CASE project.server \notin {"QUARKUS", "WILDFLY"}
    BY <1>1, <1>2, <1>5 DEF Supplied, Usable
<1> QED
    BY <1>3, <1>4, <1>5

\* The files of createFiles and the dependencies of adaptMavenModel agree, spec by spec
\* and service by service, for all nine servers.
THEOREM ExamplesSupportedAlways == Spec => []ExamplesSupported
<1>1. TemplatesInv => ExamplesSupported
    <2> SUFFICES ASSUME TemplatesInv, NEW f \in files, f.path.dir \in DOMAIN poms
                 PROVE  Needs(f) \subseteq Usable(poms[f.path.dir], project)
        BY DEF ExamplesSupported
    <2>1. Needs([path |-> f.path]) \subseteq Supplied(f.path.dir # Secondary)
        BY DEF TemplatesInv, PlacedInv, ServedInv, Served
    <2>2. Needs([path |-> f.path]) = Needs(f)
        BY DEF Needs
    <2>3. Adapted(poms[f.path.dir], project, f.path.dir # Secondary, TRUE, TRUE)
        BY DEF TemplatesInv, PomsInv
    <2> QED
        BY <2>1, <2>2, <2>3, Supplies
<1> QED
    BY <1>1, TemplatesInvariant, PTL

\* Each service ends with one beans.xml where its packaging looks for it, or with none: in
\* whatever order the addons are, no removal comes too late or takes too much.
THEOREM BeansOnceAlways == Spec => []BeansOnce
<1>1. TemplatesInv => BeansOnce
    <2> SUFFICES ASSUME TemplatesInv, Complete, NEW main \in BOOLEAN
                 PROVE  {f.path.place : f \in {f \in files : f.path.name = "beans.xml"
                                                             /\ f.path.dir = Dir(main)}}
                        = IF ~project.beans \/ project.server = "QUARKUS" THEN {}
                          ELSE IF Jar(main) THEN {"META-INF"} ELSE {"WEB-INF"}
        BY DEF BeansOnce
    <2> DEFINE places == {f.path.place : f \in {f \in files : f.path.name = "beans.xml"
                                                              /\ f.path.dir = Dir(main)}}
    <2>1. stage = "done" /\ ToSet(todo) = {}
        BY DEF Complete, ToSet
    <2>2. /\ project.server \in Servers /\ project.tool \in {"MAVEN", "GRADLE"}
          /\ BeansInv /\ PomsInv
        BY InTables DEF TemplatesInv, TemplatesIInv, StepsInv, Ready, PlacedInv
    <2>3. \A place : place \in places <=> HasBeans(Dir(main), place)
        BY DEF HasBeans
    <2>4. \A place \in places :
              /\ project.beans
              /\ \/ place = "WEB-INF"
                 \/ place = "META-INF" /\ project.server \in WithoutWebapp
        BY <2>2 DEF BeansInv
    <2> HIDE DEF places
    <2>5. project.beans /\ project.server \notin JarServers => "WEB-INF" \in places
        BY <2>1, <2>2, <2>3 DEF BeansInv
    <2>6. project.beans /\ project.server \in WithoutWebapp => "META-INF" \in places
        BY <2>1, <2>2, <2>3 DEF BeansInv
    <2>7. project.server \in JarServers => "WEB-INF" \notin places
        BY <2>1, <2>2, <2>3 DEF BeansInv
    <2>8. project.server # "QUARKUS" => (Jar(main) <=> project.server \in JarServers)
        <3>1. CASE project.tool = "GRADLE"
            BY <3>1 DEF Jar, JarServers
        <3>2. CASE project.tool = "MAVEN"
            <4>1. Dir(main) \in DOMAIN poms
                BY <2>1, <2>2, <3>2 DEF PomsInv
            <4>2. poms[Dir(main)].packaging = IF project.server \in JarServers THEN "jar" ELSE "war"
                BY <2>2, <4>1 DEF PomsInv, Adapted
            <4> QED
                BY <3>2, <4>2 DEF Jar
        <3> QED
            BY <2>2, <3>1, <3>2
    <2>9. JarServers = WithoutWebapp \cup {"QUARKUS"} /\ "QUARKUS" \notin WithoutWebapp
        BY DEF JarServers, WithoutWebapp
    <2>10. CASE ~project.beans
        <3>1. places = {}
            BY <2>4, <2>10
        <3> QED
            BY <2>10, <3>1 DEF places
    <2>11. CASE project.beans /\ project.server = "QUARKUS"
        <3>1. places = {}
            BY <2>4, <2>7, <2>9, <2>11
        <3> QED
            BY <2>11, <3>1 DEF places
    <2>12. CASE project.beans /\ project.server \in WithoutWebapp
        <3>1. places = {"META-INF"}
            BY <2>4, <2>6, <2>7, <2>9, <2>12
        <3> QED
            BY <2>8, <2>9, <2>12, <3>1 DEF places
    <2>13. CASE project.beans /\ project.server \notin JarServers
        <3>1. places = {"WEB-INF"}
            BY <2>4, <2>5, <2>9, <2>13
        <3> QED
            BY <2>8, <2>9, <2>13, <3>1 DEF places
    <2> QED
        BY <2>9, <2>10, <2>11, <2>12, <2>13
<1> QED
    BY <1>1, TemplatesInvariant, PTL

\* The page of a project links the health checks that it has: what the addon mp writes for
\* a version, no removal takes and no other file replaces, and the page is of its generation.
THEOREM HealthPageFitsAlways == Spec => []HealthPageFits
<1>1. TemplatesInv => HealthPageFits
    <2> SUFFICES ASSUME TemplatesInv, Complete, Has("HEALTH_CHECKS"), project.version # "MP50",
                        NEW f \in files, f.path.name = "index.html"
                 PROVE  {g.path.name : g \in {g \in files : g.path.place = "health"}}
                        = CASE "mp3_x" \in f.template.alternatives ->
                                   {"ServiceLiveHealthCheck.java", "ServiceReadyHealthCheck.java"}
                            [] "mp4_1" \in f.template.alternatives ->
                                   {"ServiceLiveHealthCheck.java", "ServiceReadyHealthCheck.java",
                                    "ServiceStartupHealthCheck.java"}
                            [] OTHER -> {"ServiceHealthCheck.java"}
        BY DEF HealthPageFits
    <2> DEFINE names == {g.path.name : g \in {g \in files : g.path.place = "health"}}
               t == f.template
    <2>1. stage = "done" /\ ToSet(todo) = {}
        BY DEF Complete, ToSet
    <2>2. HealthInv /\ A = OfServer /\ Ready
        BY <2>1 DEF TemplatesInv, TemplatesIInv, StepsInv, Ready, FoundInv, Early, A
    <2>3. names = HealthNames
        <3>1. \A name \in HealthNames : HasCheck(name)
            BY <2>1, <2>2 DEF HealthInv
        <3>2. \A name : HasCheck(name) => name \in names
            BY DEF HasCheck, Path
        <3>3. \A name \in names : name \in HealthNames
            BY <2>2 DEF HealthInv
        <3> HIDE DEF names
        <3> QED
            BY <3>1, <3>2, <3>3
    <2>4. /\ A \cap Generations \in {{}, {"mp3_x"}, {"mp4_1"}}
          /\ t.alternatives \cap Generations = A \cap Generations
        <3>1. project.server \in Servers /\ project.version \in Offered(project.server) \ {"MP50"}
            BY <2>2, InTables, ProjectsAssumption DEF Ready
        <3>2. t \in Candidates("index.html") /\ StandsOut(t, A)
            BY <2>2 DEF HealthInv
        <3> HIDE DEF t
        <3> QED
            BY <2>2, <3>1, <3>2, PagesAssumption DEF OfServer
    <2> HIDE DEF names, t
    <2>5. CASE A \cap Generations = {}
        <3>1. HealthNames = {"ServiceHealthCheck.java"}
            BY <2>5 DEF HealthNames
        <3>2. "mp3_x" \notin t.alternatives /\ "mp4_1" \notin t.alternatives
            BY <2>4, <2>5 DEF Generations
        <3> QED
            BY <2>3, <3>1, <3>2 DEF names, t
    <2>6. CASE A \cap Generations = {"mp3_x"}
        <3>1. HealthNames = {"ServiceLiveHealthCheck.java", "ServiceReadyHealthCheck.java"}
            <4>1. A \cap Generations # {} /\ A \cap {"mp4_1", "mp5_x"} = {}
                BY <2>6 DEF Generations
            <4> QED
                BY <4>1 DEF HealthNames
        <3>2. "mp3_x" \in t.alternatives /\ "mp4_1" \notin t.alternatives
            BY <2>4, <2>6 DEF Generations
        <3> QED
            BY <2>3, <3>1, <3>2 DEF names, t
    <2>7. CASE A \cap Generations = {"mp4_1"}
        <3>1. HealthNames = {"ServiceLiveHealthCheck.java", "ServiceReadyHealthCheck.java",
                             "ServiceStartupHealthCheck.java"}
            <4>1. A \cap Generations # {} /\ A \cap {"mp4_1", "mp5_x"} # {}
                BY <2>7 DEF Generations
            <4> QED
                BY <4>1 DEF HealthNames
        <3>2. "mp3_x" \notin t.alternatives /\ "mp4_1" \in t.alternatives
            BY <2>4, <2>7 DEF Generations
        <3> QED
            BY <2>3, <3>1, <3>2 DEF names, t
    <2> QED
        BY <2>4, <2>5, <2>6, <2>7
<1> QED
    BY <1>1, TemplatesInvariant, PTL

\* Whether a pom resolves is a question about its server and version alone: the specs, the
\* service it is for and the order of the addons make no difference.  The tables answer it.
THEOREM PomResolvesWithServer ==
    Spec => [](\A dir \in DOMAIN poms : Resolved(poms[dir]) <=> ProfileFits(project))
<1>1. TemplatesInv => \A dir \in DOMAIN poms : Resolved(poms[dir]) <=> ProfileFits(project)
    <2> SUFFICES ASSUME TemplatesInv, NEW dir \in DOMAIN poms
                 PROVE  Resolved(poms[dir]) <=> ProfileFits(project)
        OBVIOUS
    <2>1. Adapted(poms[dir], project, dir # Secondary, TRUE, TRUE)
        BY DEF TemplatesInv, PomsInv
    <2>2. /\ poms[dir].profile = FindProfile(project)
          /\ poms[dir].properties = CreateSingleModule(project).properties \cup GivenBy(project)
        BY <2>1 DEF Adapted
    <2>3. poms[dir].parent <=> ParentOf(project)
        <3>1. poms[dir].parent = (TRUE /\ ParentOf(project))
            BY <2>1, Zenon DEF Adapted
        <3> QED
            BY <3>1, Zenon
    <2> QED
        BY <2>2, <2>3, Zenon DEF Resolved, ProfileFits
<1> QED
    BY <1>1, TemplatesInvariant, PTL

\* No pom of a valid request refers to a property without a value or to a missing parent.
THEOREM PomResolvesAlways == Spec => []PomResolves
<1>1. TemplatesInv /\ (\A dir \in DOMAIN poms : Resolved(poms[dir]) <=> ProfileFits(project))
          => PomResolves
    <2>1. TemplatesInv => Offer(project)
        BY InTables, ProjectsAssumption
        DEF TemplatesInv, TemplatesIInv, StepsInv, Ready, Offer, Project
    <2> QED
        BY <2>1, TablesFit DEF PomResolves
<1> QED
    BY <1>1, TemplatesInvariant, PomResolvesWithServer, PTL
===============================================================================

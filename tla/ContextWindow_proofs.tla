------------------------ MODULE ContextWindow_proofs ------------------------
(***************************************************************************)
(* No turn and no lever of the loop raises a window's floor, for every     *)
(* window, every block size and every budget: the window implements        *)
(* `WindowFloor`.  What a compaction's summary weighs is left open, so the *)
(* folds of the trimmed view are not opened.                               *)
(***************************************************************************)
EXTENDS ContextWindow, SequenceTheorems, WellFoundedInduction, TLAPS

(* A non-empty set of classes has a least one, and MinClass is it. *)
LEMMA MinClassIsLeast ==
    ASSUME NEW S, S \subseteq Classes, S # {}
    PROVE  MinClass(S) \in S /\ \A d \in S : MinClass(S) <= d
<1>1. \E c \in S : \A d \in S : c <= d
  <2>1. CASE 0 \in S BY <2>1 DEF Classes
  <2>2. CASE 0 \notin S /\ 1 \in S BY <2>2 DEF Classes
  <2>3. CASE 0 \notin S /\ 1 \notin S /\ 2 \in S BY <2>3 DEF Classes
  <2>4. CASE 0 \notin S /\ 1 \notin S /\ 2 \notin S
    <3>1. \A d \in S : d = 3 BY <2>4 DEF Classes
    <3> QED BY <3>1
  <2> QED BY <2>1, <2>2, <2>3, <2>4
<1> QED BY <1>1 DEF MinClass

(* What the floor reads of a set of blocks: their classes. *)
Classed(T) == \A t \in T : t.trust \in Classes

(* The floor of a list of blocks, spelled out: below every block, below the identity
   block, and reached by one of them. *)
LEMMA FloorIsLowest ==
    ASSUME NEW T, Classed(T), NEW bs \in Seq(T)
    PROVE  /\ Floor(bs) \in 0..2
           /\ \A i \in DOMAIN bs : Floor(bs) <= bs[i].trust
           /\ Floor(bs) = Observed \/ \E i \in DOMAIN bs : bs[i].trust = Floor(bs)
<1> DEFINE S == Lowest(bs) \cup {Observed}
<1>1. \A i \in DOMAIN bs : bs[i] \in T OBVIOUS
<1>2. \A i \in DOMAIN bs : bs[i].trust \in Classes BY <1>1 DEF Classed
<1>3. S \subseteq Classes BY <1>2 DEF Lowest, Classes, Observed
<1>4. MinClass(S) \in S /\ \A d \in S : MinClass(S) <= d BY <1>3, MinClassIsLeast
<1>5. Floor(bs) = MinClass(S) BY DEF Floor
<1>6. Observed \in S OBVIOUS
<1>7. Floor(bs) <= Observed BY <1>4, <1>5, <1>6
<1>8. Floor(bs) \in Classes BY <1>3, <1>4, <1>5
<1>9. \A i \in DOMAIN bs : bs[i].trust \in S BY DEF Lowest
<1>10. Floor(bs) \in 0..2 BY <1>7, <1>8 DEF Observed, Classes
<1>11. \A i \in DOMAIN bs : Floor(bs) <= bs[i].trust BY <1>4, <1>5, <1>9
<1>12. Floor(bs) = Observed \/ \E i \in DOMAIN bs : bs[i].trust = Floor(bs)
  <2> HIDE DEF S
  <2>1. Floor(bs) \in S BY <1>4, <1>5
  <2> QED BY <2>1, Zenon DEF S, Lowest
<1> QED BY <1>10, <1>11, <1>12

(* Every block of a first list that is worth less than the identity block has a block
   at or below its class in a second one. *)
Covers(a, b) ==
    \A i \in DOMAIN a : a[i].trust >= Observed \/ \E j \in DOMAIN b : b[j].trust <= a[i].trust

(* Then the second list's floor is no higher. *)
LEMMA CoveredFloor ==
    ASSUME NEW T, Classed(T), NEW a \in Seq(T), NEW b \in Seq(T), Covers(a, b)
    PROVE  Floor(b) \in 0..Floor(a)
<1>1. Floor(b) <= Observed /\ Floor(b) \in 0..2 /\ Floor(a) \in 0..2 BY FloorIsLowest DEF Observed
<1>2. \A i \in DOMAIN a : Floor(b) <= a[i].trust
  <2> TAKE i \in DOMAIN a
  <2>1. \A j \in DOMAIN b : Floor(b) <= b[j].trust /\ b[j] \in T BY FloorIsLowest
  <2>2. a[i] \in T OBVIOUS
  <2>3. a[i].trust \in Int /\ \A j \in DOMAIN b : b[j].trust \in Int
    BY <2>1, <2>2 DEF Classed, Classes
  <2>4. CASE a[i].trust >= Observed BY <1>1, <2>3, <2>4 DEF Observed
  <2>5. CASE \E j \in DOMAIN b : b[j].trust <= a[i].trust BY <1>1, <2>1, <2>3, <2>5
  <2> QED BY <2>4, <2>5 DEF Covers
<1>3. Floor(b) <= Floor(a) BY <1>1, <1>2, FloorIsLowest
<1> QED BY <1>1, <1>3

(* A list covers itself, and whatever it is a part of. *)
LEMMA MoreCovers ==
    ASSUME NEW T, Classed(T), NEW v \in Seq(T), NEW bs \in Seq(T)
    PROVE  Covers(v, v \o bs) /\ Covers(v, v)
<1>1. ASSUME NEW i \in DOMAIN v PROVE v[i].trust <= v[i].trust
  <2>1. v[i] \in T OBVIOUS
  <2>2. v[i].trust \in Int BY <2>1 DEF Classed, Classes
  <2> QED BY <2>2
<1>2. \A i \in DOMAIN v : i \in DOMAIN (v \o bs) /\ (v \o bs)[i] = v[i] OBVIOUS
<1> QED BY <1>1, <1>2 DEF Covers

(* What covers a list still does with more behind it, and covering carries over. *)
LEMMA CoversMore ==
    ASSUME NEW a, NEW T, NEW b \in Seq(T), NEW bs \in Seq(T), Covers(a, b)
    PROVE  Covers(a, b \o bs)
<1>1. \A j \in DOMAIN b : j \in DOMAIN (b \o bs) /\ (b \o bs)[j] = b[j] OBVIOUS
<1> QED BY <1>1 DEF Covers

LEMMA CoversTrans ==
    ASSUME NEW T, Classed(T), NEW a \in Seq(T), NEW b \in Seq(T), NEW c \in Seq(T),
           Covers(a, b), Covers(b, c)
    PROVE  Covers(a, c)
<1>1. /\ \A i \in DOMAIN a : a[i].trust \in Int
      /\ \A i \in DOMAIN b : b[i].trust \in Int
      /\ \A i \in DOMAIN c : c[i].trust \in Int
  <2>1. \A t \in T : t.trust \in Int BY DEF Classed, Classes
  <2> QED BY <2>1
<1>2. SUFFICES ASSUME NEW i \in DOMAIN a, ~ (a[i].trust >= Observed)
               PROVE  \E k \in DOMAIN c : c[k].trust <= a[i].trust
  BY DEF Covers
<1>3. PICK j \in DOMAIN b : b[j].trust <= a[i].trust BY <1>2 DEF Covers
<1>4. ~ (b[j].trust >= Observed) BY <1>1, <1>2, <1>3 DEF Observed
<1>5. PICK k \in DOMAIN c : c[k].trust <= b[j].trust BY <1>4 DEF Covers
<1> QED BY <1>1, <1>3, <1>5

(* Two tiers are covered by two tiers. *)
LEMMA TiersCovered ==
    ASSUME NEW T, Classed(T), NEW c \in Seq(T), NEW v \in Seq(T), NEW d \in Seq(T), NEW w \in Seq(T),
           Covers(c, d), Covers(v, w)
    PROVE  Floor(d \o w) \in 0..Floor(c \o v)
<1>1. c \o v \in Seq(T) /\ d \o w \in Seq(T) OBVIOUS
<1>2. Covers(c \o v, d \o w)
  <2>1. SUFFICES ASSUME NEW i \in DOMAIN (c \o v), ~ ((c \o v)[i].trust >= Observed)
                 PROVE  \E j \in DOMAIN (d \o w) : (d \o w)[j].trust <= (c \o v)[i].trust
    BY DEF Covers
  <2>2. CASE i \in DOMAIN c
    <3>1. (c \o v)[i] = c[i] BY <2>2
    <3>2. PICK j \in DOMAIN d : d[j].trust <= c[i].trust BY <2>1, <2>2, <3>1 DEF Covers
    <3>3. j \in DOMAIN (d \o w) /\ (d \o w)[j] = d[j] OBVIOUS
    <3> QED BY <3>1, <3>2, <3>3
  <2>3. CASE i \notin DOMAIN c
    <3>1. i - Len(c) \in DOMAIN v /\ (c \o v)[i] = v[i - Len(c)] BY <2>3
    <3>2. PICK j \in DOMAIN w : w[j].trust <= v[i - Len(c)].trust BY <2>1, <3>1 DEF Covers
    <3>3. Len(d) + j \in DOMAIN (d \o w) /\ (d \o w)[Len(d) + j] = w[j] OBVIOUS
    <3> QED BY <3>1, <3>2, <3>3
  <2> QED BY <2>2, <2>3
<1> QED BY <1>1, <1>2, CoveredFloor

-----------------------------------------------------------------------------
(* The invariant: blocks are classed, and a block of skills is the user's own *)

BlockOver(N) == [src : ContextSources \cup VolatileSources, trust : Classes, tokens : N,
                 body : Bodies]
SkillsOwn(bs) == \A i \in DOMAIN bs : bs[i].src = "Skills" => bs[i].trust = Asserted
Tier(N, bs) == bs \in Seq(BlockOver(N)) /\ SkillsOwn(bs)
WindowInv == \E N : Tier(N, ctx) /\ Tier(N, vol)

Falls == Floor(ctx \o vol)' \in 0..Floor(ctx \o vol)

LEMMA BlocksClassed == \A N : Classed(BlockOver(N))
BY DEF Classed, BlockOver

(* Sizes may be added to those the blocks have. *)
LEMMA Enlarged ==
    ASSUME WindowInv, NEW X
    PROVE  \E N : X \subseteq N /\ Tier(N, ctx) /\ Tier(N, vol)
<1>1. PICK M : Tier(M, ctx) /\ Tier(M, vol) BY DEF WindowInv
<1> DEFINE N == M \cup X
<1>2. BlockOver(M) \subseteq BlockOver(N) BY DEF BlockOver
<1> HIDE DEF N
<1>3. Tier(N, ctx) /\ Tier(N, vol) BY <1>1, <1>2, SeqMonotonic DEF Tier
<1> QED BY <1>3 DEF N

(* Tiers that cover the old ones keep the invariant and lower the floor at most. *)
LEMMA CoveredStep ==
    ASSUME NEW N, Tier(N, ctx), Tier(N, vol), Tier(N, ctx'), Tier(N, vol'),
           Covers(ctx, ctx'), Covers(vol, vol')
    PROVE  WindowInv' /\ Falls
<1>1. WindowInv' BY DEF WindowInv
<1>2. Floor(ctx' \o vol') \in 0..Floor(ctx \o vol)
  BY BlocksClassed, TiersCovered DEF Tier
<1> QED BY <1>1, <1>2 DEF Falls

(* Tiers put together are a tier. *)
LEMMA TierJoined ==
    ASSUME NEW N, NEW a, NEW b, Tier(N, a), Tier(N, b)
    PROVE  Tier(N, a \o b)
<1>1. a \o b \in Seq(BlockOver(N)) BY DEF Tier
<1>2. \A i \in DOMAIN (a \o b) : \/ i \in DOMAIN a /\ (a \o b)[i] = a[i]
                                 \/ i - Len(a) \in DOMAIN b /\ (a \o b)[i] = b[i - Len(a)]
  BY DEF Tier
<1>3. SkillsOwn(a \o b) BY <1>2 DEF Tier, SkillsOwn
<1> QED BY <1>1, <1>3 DEF Tier

LEMMA EmptyTier == \A N : Tier(N, <<>>)
BY DEF Tier, SkillsOwn

LEMMA OneTier ==
    ASSUME NEW N, NEW b \in BlockOver(N), b.src = "Skills" => b.trust = Asserted
    PROVE  Tier(N, <<b>>)
BY DEF Tier, SkillsOwn
LEMMA TierOfOne ==
    ASSUME NEW N, NEW b, Tier(N, <<b>>)
    PROVE  b \in BlockOver(N) /\ (b.src = "Skills" => b.trust = Asserted)
<1>1. 1 \in DOMAIN <<b>> /\ <<b>>[1] = b OBVIOUS
<1> QED BY <1>1 DEF Tier, SkillsOwn

LEMMA FewTier ==
    ASSUME NEW N, NEW a, NEW b, NEW c, Tier(N, <<a>>), Tier(N, <<b>>), Tier(N, <<c>>)
    PROVE  Tier(N, <<a, b>>) /\ Tier(N, <<a, b, c>>)
<1>1. \A x \in {a, b, c} : x \in BlockOver(N) /\ (x.src = "Skills" => x.trust = Asserted)
  BY TierOfOne
<1>2. <<a, b>> \in Seq(BlockOver(N)) /\ <<a, b, c>> \in Seq(BlockOver(N)) BY <1>1
<1>3. SkillsOwn(<<a, b>>) /\ SkillsOwn(<<a, b, c>>) BY <1>1 DEF SkillsOwn
<1> QED BY <1>2, <1>3 DEF Tier
-----------------------------------------------------------------------------
(* What `WithoutSkills` leaves *)

(* A set of naturals that is not empty has a least element. *)
LEMMA LeastNatural ==
    ASSUME NEW S \in SUBSET Nat, S # {}
    PROVE  \E m \in S : \A k \in S : m <= k
<1> DEFINE R == OpToRel(<, Nat)
<1>1. \A x, y \in Nat : y < x => <<y, x>> \in R BY DEF OpToRel
<1> HIDE DEF R
<1>2. IsWellFoundedOn(R, Nat) BY NatLessThanWellFounded DEF R
<1>3. PICK x \in S : \A y \in S : ~ (<<y, x>> \in R) BY <1>2, WFMin
<1>4. ASSUME NEW k \in S PROVE x <= k
  <2>1. ~ (k < x) BY <1>1, <1>3
  <2> QED BY <2>1
<1> QED BY <1>3, <1>4

KeptOf(bs, i, before) ==
    IF i = 0 THEN <<>> ELSE IF bs[i].src = "Skills" THEN before ELSE Append(before, bs[i])
KeptTo(f, bs, n) == f = [i \in 0..n |-> KeptOf(bs, i, f[i - 1])]

LEMMA KeptExists ==
    ASSUME NEW bs, NEW n \in Nat
    PROVE  \E f : KeptTo(f, bs, n)
<1> DEFINE Missing == {k \in Nat : ~ \E f : KeptTo(f, bs, k)}
<1>1. SUFFICES ASSUME Missing # {} PROVE FALSE OBVIOUS
<1>2. PICK m \in Missing : \A k \in Missing : m <= k BY <1>1, LeastNatural
<1>3. CASE m = 0
  <2>1. KeptTo([i \in 0..0 |-> <<>>], bs, 0) BY DEF KeptTo, KeptOf
  <2> QED BY <1>2, <1>3, <2>1
<1>4. CASE m > 0
  <2>1. m - 1 \in Nat /\ m - 1 \notin Missing /\ m \in Nat BY <1>2, <1>4
  <2>2. PICK f : KeptTo(f, bs, m - 1) BY <2>1
  <2> DEFINE g == [i \in 0..m |-> IF i = m THEN KeptOf(bs, m, f[m - 1]) ELSE f[i]]
  <2>3. ASSUME NEW i \in 0..m PROVE g[i] = KeptOf(bs, i, g[i - 1])
    <3>1. \A j \in 0..(m - 1) : f[j] = KeptOf(bs, j, f[j - 1]) BY <2>1, <2>2 DEF KeptTo
    <3>2. CASE i = m BY <2>1, <1>4, <3>2
    <3>3. CASE i # m
      <4>1. i \in 0..(m - 1) /\ g[i] = f[i] BY <2>1, <3>3
      <4>2. i # 0 => g[i - 1] = f[i - 1] BY <2>1, <4>1
      <4> QED BY <3>1, <4>1, <4>2 DEF KeptOf
    <3> QED BY <3>2, <3>3
  <2>4. g = [i \in 0..m |-> g[i]] OBVIOUS
  <2>5. KeptTo(g, bs, m)
    <3> HIDE DEF g
    <3> QED BY <2>3, <2>4 DEF KeptTo
  <2> QED BY <1>2, <2>5
<1> QED BY <1>2, <1>3, <1>4

(* What is left is blocks of the list, and all of those that are no skill. *)
LEMMA WithoutSkillsCovers ==
    ASSUME NEW N, NEW bs, Tier(N, bs)
    PROVE  Tier(N, WithoutSkills(bs)) /\ Covers(bs, WithoutSkills(bs))
<1> DEFINE n == Len(bs)
<1>1. n \in Nat /\ DOMAIN bs = 1..n /\ \A i \in 1..n : bs[i] \in BlockOver(N) BY DEF Tier
<1>2. WithoutSkills(bs) = (CHOOSE f : KeptTo(f, bs, n))[n] BY DEF WithoutSkills, KeptTo, KeptOf
<1> HIDE DEF n
<1>3. PICK f : KeptTo(f, bs, n) /\ WithoutSkills(bs) = f[n] BY <1>1, <1>2, KeptExists
<1>4. f[0] = <<>> /\ \A i \in 1..n : f[i] = KeptOf(bs, i, f[i - 1])
  <2>1. \A i \in 0..n : f[i] = KeptOf(bs, i, f[i - 1]) BY <1>3 DEF KeptTo
  <2>2. 0 \in 0..n /\ \A i \in 1..n : i \in 0..n BY <1>1
  <2>3. KeptOf(bs, 0, f[0 - 1]) = <<>> BY DEF KeptOf
  <2> QED BY <2>1, <2>2, <2>3
<1> DEFINE Right(i) ==
               /\ Tier(N, f[i])
               /\ \A k \in 1..i : bs[k].src = "Skills" \/ \E j \in DOMAIN f[i] : f[i][j] = bs[k]
           Wrong == {i \in 0..n : ~ Right(i)}
<1>5. Right(0) BY <1>4, EmptyTier
<1>6. ASSUME NEW i \in 1..n, Right(i - 1) PROVE Right(i)
  <2>1. \A k \in 1..i : k \in 1..(i - 1) \/ k = i BY <1>1
  <2>2. CASE bs[i].src = "Skills"
    <3>1. f[i] = f[i - 1] BY <1>4, <2>2 DEF KeptOf
    <3> QED BY <1>6, <2>1, <2>2, <3>1
  <2>3. CASE bs[i].src # "Skills"
    <3>0. i # 0 BY <1>1
    <3>1. f[i] = Append(f[i - 1], bs[i]) BY <1>4, <2>3, <3>0, Zenon DEF KeptOf
    <3>2. bs[i] \in BlockOver(N) /\ f[i - 1] \in Seq(BlockOver(N)) BY <1>1, <1>6 DEF Tier
    <3>3. f[i] = f[i - 1] \o <<bs[i]>> BY <3>1, <3>2
    <3>4. Tier(N, f[i]) BY <1>6, <2>3, <3>2, <3>3, OneTier, TierJoined
    <3>5. /\ \A j \in DOMAIN f[i - 1] : j \in DOMAIN f[i] /\ f[i][j] = f[i - 1][j]
          /\ Len(f[i - 1]) + 1 \in DOMAIN f[i] /\ f[i][Len(f[i - 1]) + 1] = bs[i]
      BY <3>1, <3>2
    <3> QED BY <1>6, <2>1, <3>4, <3>5
  <2> QED BY <2>2, <2>3
<1> HIDE DEF Right
<1>7. Wrong = {}
  <2>1. SUFFICES ASSUME Wrong # {} PROVE FALSE OBVIOUS
  <2>2. Wrong \in SUBSET Nat BY <1>1
  <2>3. \A i \in Wrong : i \in 1..n /\ i - 1 \in Wrong BY <1>1, <1>5, <1>6
  <2> HIDE DEF Wrong
  <2>4. PICK m \in Wrong : \A k \in Wrong : m <= k BY <2>1, <2>2, LeastNatural
  <2> QED BY <2>2, <2>3, <2>4
<1>8. Right(n) BY <1>1, <1>7
<1>9. Covers(bs, f[n])
  <2>1. SUFFICES ASSUME NEW i \in 1..n, ~ (bs[i].trust >= Observed)
                 PROVE  \E j \in DOMAIN f[n] : f[n][j].trust <= bs[i].trust
    BY <1>1 DEF Covers
  <2>2. bs[i].src # "Skills" BY <1>1, <2>1 DEF Tier, SkillsOwn, Asserted, Observed
  <2>3. bs[i].trust \in Int BY <1>1 DEF BlockOver, Classes
  <2> QED BY <1>8, <2>2, <2>3 DEF Right
<1> QED BY <1>3, <1>8, <1>9 DEF Right
-----------------------------------------------------------------------------
(* The steps *)

(* Pushing blocks covers what was there. *)
LEMMA PushFalls ==
    ASSUME NEW N, Tier(N, ctx), Tier(N, vol), NEW bs, Tier(N, bs), Push(bs), UNCHANGED ctx
    PROVE  WindowInv' /\ Falls
<1>1. Covers(ctx, ctx) /\ Covers(vol, vol \o bs) BY BlocksClassed, MoreCovers DEF Tier
<1>2. Tier(N, vol \o bs) BY TierJoined
<1>3. vol' = vol \o bs /\ ctx' = ctx BY DEF Push
<1> QED BY <1>1, <1>2, <1>3, CoveredStep

LEMMA SameFalls ==
    ASSUME WindowInv, UNCHANGED <<ctx, vol>>
    PROVE  WindowInv' /\ Falls
<1>1. PICK N : Tier(N, ctx) /\ Tier(N, vol) BY DEF WindowInv
<1>2. Covers(ctx, ctx) /\ Covers(vol, vol) BY <1>1, BlocksClassed, MoreCovers DEF Tier
<1> QED BY <1>1, <1>2, CoveredStep

(* Masking rewrites a text and keeps the class. *)
LEMMA MaskCovers ==
    ASSUME NEW N, NEW v, Tier(N, v), MarkerTokens \in N
    PROVE  Tier(N, Masked(v)) /\ Covers(v, Masked(v))
<1> DEFINE B == BlockOver(N)
<1>1. v \in Seq(B) /\ \A i \in DOMAIN v : v[i] \in B BY DEF Tier
<1>2. \A i \in DOMAIN v : /\ [v[i] EXCEPT !.tokens = MarkerTokens, !.body = "bracketed"] \in B
                          /\ [v[i] EXCEPT !.tokens = MarkerTokens, !.body = "bracketed"].trust = v[i].trust
                          /\ [v[i] EXCEPT !.tokens = MarkerTokens, !.body = "bracketed"].src = v[i].src
  BY <1>1 DEF BlockOver, Bodies
<1> HIDE DEF B
<1> DEFINE cleared(i) == [v[i] EXCEPT !.tokens = MarkerTokens, !.body = "bracketed"]
           new(i) == IF i \in Maskable(v) THEN cleared(i) ELSE v[i]
<1> HIDE DEF cleared
<1>3. \A i \in DOMAIN v : cleared(i) \in B /\ cleared(i).trust = v[i].trust /\ cleared(i).src = v[i].src
  BY <1>2 DEF cleared
<1>4. \A i \in DOMAIN v : new(i) \in B /\ new(i).trust = v[i].trust /\ new(i).src = v[i].src
  BY <1>1, <1>3
<1>5. Masked(v) = [i \in DOMAIN v |-> new(i)] BY Zenon DEF Masked, cleared
<1> HIDE DEF new
<1>6. Masked(v) \in Seq(B)
  <2>1. DOMAIN v = 1..Len(v) /\ Len(v) \in Nat BY <1>1
  <2> QED BY <1>4, <1>5, <2>1, SeqDef
<1>7. \A i \in DOMAIN v : Masked(v)[i].trust = v[i].trust /\ Masked(v)[i].src = v[i].src BY <1>4, <1>5
<1>8. DOMAIN Masked(v) = DOMAIN v BY <1>5
<1>9. \A i \in DOMAIN v : v[i].trust \in Int BY <1>1 DEF B, BlockOver, Classes
<1>10. SkillsOwn(Masked(v)) BY <1>7, <1>8 DEF Tier, SkillsOwn
<1> QED BY <1>6, <1>7, <1>8, <1>9, <1>10 DEF Tier, Covers, B
(* Compaction covers too: the block it keeps stands for itself, its summary for the
   rest. *)
LEMMA CompactCovers ==
    ASSUME NEW N, NEW v, Tier(N, v), Summary(v).tokens \in N
    PROVE  Tier(N, Compacted(v)) /\ Covers(v, Compacted(v))
<1>1. v \in Seq(BlockOver(N)) /\ \A i \in DOMAIN v : v[i] \in BlockOver(N) BY DEF Tier
<1>2. \A i \in DOMAIN v : v[i].trust \in Classes BY <1>1 DEF BlockOver
<1> DEFINE S == {Inferred} \cup {v[i].trust : i \in DOMAIN v \ Live(v)}
           live == CHOOSE i \in Live(v) : TRUE
           s == Summary(v)
<1>3. S \subseteq Classes BY <1>2 DEF Inferred, Classes
<1>4. SummaryClass(v) \in S /\ \A d \in S : SummaryClass(v) <= d
  BY <1>3, MinClassIsLeast DEF SummaryClass
<1>5. /\ s.trust = SummaryClass(v) /\ s.src = "Summary"
      /\ s = [src |-> "Summary", trust |-> SummaryClass(v), tokens |-> s.tokens, body |-> s.body]
      /\ s.body \in Bodies
  <2> DEFINE tail == LastThree(Trimmed(v))
             x == Lower(PrefaceTokens + Tokens(tail), EffectiveWindow)
             y == SummaryBody(tail)
  <2>1. s = [src |-> "Summary", trust |-> SummaryClass(v), tokens |-> x, body |-> y]
    BY DEF Summary, BlockOf
  <2>2. y \in Bodies BY DEF SummaryBody, Bodies
  <2> HIDE DEF s, x, y
  <2> QED BY <2>1, <2>2
<1>6. s \in BlockOver(N)
  <2>1. s.tokens \in N OBVIOUS
  <2>2. SummaryClass(v) \in Classes BY <1>3, <1>4
  <2> HIDE DEF s
  <2> QED BY <1>5, <2>1, <2>2 DEF BlockOver, VolatileSources
<1>7. Live(v) \subseteq DOMAIN v BY DEF Live, LiveTurns
<1>8. Compacted(v) = <<s>> \o (IF Live(v) = {} THEN <<>> ELSE <<v[live]>>) BY DEF Compacted
<1> HIDE DEF s
<1>9. Tier(N, <<s>>) BY <1>5, <1>6, OneTier
<1>10. CASE Live(v) = {}
  <2>1. Compacted(v) = <<s>> BY <1>8, <1>10
  <2>2. \A i \in DOMAIN v : v[i].trust \in S BY <1>10
  <2>3. Covers(v, <<s>>) BY <1>4, <1>5, <2>2 DEF Covers
  <2> QED BY <1>9, <2>1, <2>3
<1>11. CASE Live(v) # {}
  <2>1. live \in Live(v) BY <1>11
  <2>2. \A i \in Live(v) : i = live
    <3>1. DOMAIN v \subseteq Int BY <1>1
    <3> QED BY <1>7, <2>1, <3>1 DEF Live
  <2>3. Compacted(v) = <<s>> \o <<v[live]>> BY <1>8, <1>11
  <2>4. v[live] \in BlockOver(N) /\ v[live].src = "History"
    BY <1>1, <1>7, <2>1 DEF Live, LiveTurns
  <2> HIDE DEF live
  <2>5. Tier(N, Compacted(v)) BY <1>9, <2>3, <2>4, OneTier, TierJoined
  <2>6. /\ {1, 2} \subseteq DOMAIN Compacted(v)
        /\ Compacted(v)[1] = s /\ Compacted(v)[2] = v[live]
    BY <2>3
  <2>7. ASSUME NEW i \in DOMAIN v
        PROVE  \E j \in DOMAIN Compacted(v) : Compacted(v)[j].trust <= v[i].trust
    <3>1. CASE i \in Live(v)
      <4>1. i = live BY <2>2, <3>1
      <4>2. v[i].trust \in Int BY <1>2 DEF Classes
      <4> QED BY <2>6, <4>1, <4>2
    <3>2. CASE i \notin Live(v)
      <4>1. v[i].trust \in S BY <3>2
      <4> QED BY <1>4, <1>5, <2>6, <4>1
    <3> QED BY <3>1, <3>2
  <2> QED BY <2>5, <2>7 DEF Covers
<1> QED BY <1>10, <1>11

(* A turn's message replaces the skills of the turn before it (`Daemon::turn`). *)
LEMMA MessageFalls == ASSUME WindowInv, Message PROVE WindowInv' /\ Falls
<1>1. PICK N : Sizes \subseteq N /\ Tier(N, ctx) /\ Tier(N, vol) BY Enlarged
<1>2. PICK n \in Sizes, skills \in {"none", "installed", "matched"}, memory \in Memories :
          /\ vol' = WithoutSkills(vol \o Said(n) \o memory)
                       \o (IF skills = "matched" THEN Shown(n) ELSE <<>>)
          /\ ctx' = IF skills = "none" THEN ctx ELSE WithoutSkills(ctx) \o Shown(n)
  BY Zenon DEF Message
<1>3. Tier(N, Said(n)) /\ Tier(N, Shown(n))
  <2>1. /\ BlockOf("History", Asserted, n, "message") \in BlockOver(N)
        /\ BlockOf("Skills", Asserted, n, "text") \in BlockOver(N)
    BY <1>1 DEF BlockOf, BlockOver, VolatileSources, Bodies, Asserted, Classes
  <2> QED BY <2>1, OneTier DEF BlockOf, Said, Shown
<1>4. Tier(N, memory)
  <2>1. \A c \in InjectClasses, m \in Sizes :
            /\ BlockOf("InjectedMemory", c, m, "text") \in BlockOver(N)
            /\ BlockOf("InjectedMemory", c, m, "text").src # "Skills"
    BY <1>1, ClassAssumption DEF BlockOf, BlockOver, VolatileSources, Bodies
  <2>2. \A c \in InjectClasses, m \in Sizes : Tier(N, <<BlockOf("InjectedMemory", c, m, "text")>>)
    BY <2>1, OneTier
  <2> QED BY <2>2, EmptyTier DEF Memories
<1> DEFINE old == vol \o Said(n) \o memory
<1>5. Tier(N, old) /\ Covers(vol, old)
  <2>1. Tier(N, vol \o Said(n)) /\ Tier(N, old) BY <1>1, <1>3, <1>4, TierJoined
  <2>2. Tier(N, Said(n) \o memory) BY <1>3, <1>4, TierJoined
  <2>3. old = vol \o (Said(n) \o memory) BY <1>1, <1>3, <1>4 DEF Tier
  <2>4. Covers(vol, vol \o (Said(n) \o memory)) BY <1>1, <2>2, BlocksClassed, MoreCovers DEF Tier
  <2> QED BY <2>1, <2>3, <2>4
<1> HIDE DEF old
<1>6. Tier(N, WithoutSkills(old)) /\ Covers(old, WithoutSkills(old))
  BY <1>5, WithoutSkillsCovers
<1>7. Tier(N, vol') /\ Covers(old, vol')
  <2>1. vol' = WithoutSkills(old) \o Shown(n) \/ vol' = WithoutSkills(old) \o <<>>
    BY <1>2 DEF old
  <2>2. \A bs : Tier(N, bs) => /\ Tier(N, WithoutSkills(old) \o bs)
                               /\ Covers(old, WithoutSkills(old) \o bs)
    <3> TAKE bs
    <3> HAVE Tier(N, bs)
    <3>1. Tier(N, WithoutSkills(old) \o bs) BY <1>6, TierJoined
    <3>2. Covers(old, WithoutSkills(old) \o bs) BY <1>6, CoversMore DEF Tier
    <3> QED BY <3>1, <3>2
  <2> QED BY <1>3, <2>1, <2>2, EmptyTier
<1>8. Tier(N, ctx') /\ Covers(ctx, ctx')
  <2>1. CASE skills = "none"
    BY <1>1, <1>2, <2>1, BlocksClassed, MoreCovers DEF Tier
  <2>2. CASE skills # "none"
    <3>1. Tier(N, WithoutSkills(ctx)) /\ Covers(ctx, WithoutSkills(ctx))
      BY <1>1, WithoutSkillsCovers
    <3>2. ctx' = WithoutSkills(ctx) \o Shown(n) BY <1>2, <2>2
    <3>3. Tier(N, WithoutSkills(ctx) \o Shown(n)) BY <1>3, <3>1, TierJoined
    <3>4. Covers(ctx, WithoutSkills(ctx) \o Shown(n)) BY <1>3, <3>1, CoversMore DEF Tier
    <3> QED BY <3>2, <3>3, <3>4
  <2> QED BY <2>1, <2>2
<1>9. Covers(vol, vol') BY <1>1, <1>5, <1>7, BlocksClassed, CoversTrans DEF Tier
<1> QED BY <1>1, <1>7, <1>8, <1>9, CoveredStep
(* A reply's blocks are of classes, and none of them is skills. *)
LEMMA PushOne ==
    ASSUME NEW N, NEW s \in VolatileSources \ {"Skills"}, NEW c \in Classes, NEW n \in N,
           NEW x \in Bodies
    PROVE  Tier(N, <<BlockOf(s, c, n, x)>>)
<1>1. BlockOf(s, c, n, x) \in BlockOver(N) /\ BlockOf(s, c, n, x).src # "Skills"
  BY DEF BlockOf, BlockOver
<1> QED BY <1>1, OneTier

(* No step of the loop raises the floor of the window it runs over: not a reply, not
   masking, not compaction with whatever summary (drive_inner, context.rs). *)
LEMMA IterateFalls == ASSUME WindowInv, Iterate PROVE WindowInv' /\ Falls
<1>1. PICK N : Sizes \cup {0, MarkerTokens, Summary(vol).tokens} \subseteq N
               /\ Tier(N, ctx) /\ Tier(N, vol)
  BY Enlarged
<1> DEFINE Classy == {Asserted, Inferred, Observed} \cup Classes
           Spoken == {"History", "ToolResults", "ChildResults"}
<1>2. ASSUME NEW s \in Spoken, NEW c \in Classy, NEW n \in Sizes \cup {0}, NEW x \in Bodies
      PROVE  Tier(N, <<BlockOf(s, c, n, x)>>)
  <2>1. s \in VolatileSources \ {"Skills"} /\ c \in Classes /\ n \in N
    BY <1>1 DEF VolatileSources, Classes, Asserted, Inferred, Observed
  <2> QED BY <2>1, PushOne
<1>3. \A n \in Sizes \cup {0} : Tier(N, <<Assistant(n)>>) BY <1>2 DEF Assistant, Bodies
<1>4. CASE UNCHANGED <<ctx, vol>> BY <1>4, SameFalls
<1>5. CASE Top
  <2>1. CASE \E n \in Sizes : Push(<<BlockOf("History", Asserted, n, "bracketed")>>)
    <3>1. PICK n \in Sizes : Push(<<BlockOf("History", Asserted, n, "bracketed")>>) BY <2>1
    <3>2. Tier(N, <<BlockOf("History", Asserted, n, "bracketed")>>) BY <1>2 DEF Bodies
    <3> QED BY <1>1, <1>5, <3>1, <3>2, PushFalls DEF Top
  <2> QED BY <1>4, <1>5, <2>1 DEF Top
<1>6. CASE Compact
  <2>1. ctx' = ctx /\ vol' = Compacted(vol) BY <1>6 DEF Compact
  <2>2. Tier(N, Compacted(vol)) /\ Covers(vol, Compacted(vol)) BY <1>1, CompactCovers
  <2>3. Covers(ctx, ctx) BY <1>1, BlocksClassed, MoreCovers DEF Tier
  <2> QED BY <1>1, <2>1, <2>2, <2>3, CoveredStep
<1>7. CASE Mask
  <2>1. ctx' = ctx /\ vol' = Masked(vol) BY <1>7 DEF Mask
  <2>2. Tier(N, Masked(vol)) /\ Covers(vol, Masked(vol)) BY <1>1, MaskCovers
  <2>3. Covers(ctx, ctx) BY <1>1, BlocksClassed, MoreCovers DEF Tier
  <2> QED BY <1>1, <2>1, <2>2, <2>3, CoveredStep
<1>8. CASE Say
  <2>1. PICK n \in Sizes : Push(<<Assistant(n)>>) BY <1>8 DEF Say
  <2> QED BY <1>1, <1>3, <1>8, <2>1, PushFalls DEF Say
<1>9. CASE ToolBatch
  <2>1. PICK n \in Sizes, c \in ToolClasses, x \in {"text", "bracketed"} :
            Push(<<Assistant(0), BlockOf("ToolResults", ResultClass(c), n, x)>>)
    BY <1>9 DEF ToolBatch
  <2> DEFINE b == BlockOf("ToolResults", ResultClass(c), n, x)
  <2>2. ResultClass(c) \in Classy BY ClassAssumption DEF ResultClass
  <2>3. Tier(N, <<b>>) BY <1>2, <2>2 DEF Bodies
  <2> HIDE DEF b
  <2>4. Tier(N, <<Assistant(0), b>>) BY <1>3, <2>3, FewTier
  <2>5. Push(<<Assistant(0), b>>) BY <2>1 DEF b
  <2> QED BY <1>1, <1>9, <2>4, <2>5, PushFalls DEF ToolBatch
<1>10. CASE Spawn
  <2>1. PICK n \in Sizes :
            Push(<<BlockOf("History", Observed, n, "bracketed"), Assistant(0),
                   BlockOf("ChildResults", Inferred, n, "text")>>)
    BY <1>10 DEF Spawn
  <2> DEFINE a == BlockOf("History", Observed, n, "bracketed")
             b == BlockOf("ChildResults", Inferred, n, "text")
  <2>2. Tier(N, <<a>>) /\ Tier(N, <<b>>) BY <1>2 DEF Bodies
  <2> HIDE DEF a, b
  <2>3. Tier(N, <<a, Assistant(0), b>>) BY <1>3, <2>2, FewTier
  <2>4. Push(<<a, Assistant(0), b>>) BY <2>1 DEF a, b
  <2> QED BY <1>1, <1>10, <2>3, <2>4, PushFalls DEF Spawn
<1>11. CASE HarnessNote
  <2>0. PICK n \in Sizes : \E said \in {<<>>, <<Assistant(n)>>} :
            Push(said \o <<BlockOf("History", Observed, n, "bracketed")>>)
    BY <1>11 DEF HarnessNote
  <2>1. PICK said \in {<<>>, <<Assistant(n)>>} :
            Push(said \o <<BlockOf("History", Observed, n, "bracketed")>>)
    BY <2>0
  <2> DEFINE a == BlockOf("History", Observed, n, "bracketed")
  <2>2. Tier(N, <<a>>) BY <1>2 DEF Bodies
  <2>3. Tier(N, said) BY <1>3, EmptyTier
  <2> HIDE DEF a
  <2>4. Tier(N, said \o <<a>>) BY <2>2, <2>3, TierJoined
  <2>5. Push(said \o <<a>>) BY <2>1 DEF a
  <2> QED BY <1>1, <1>11, <2>4, <2>5, PushFalls DEF HarnessNote
<1>12. CASE Call \/ Nudge \/ Stop BY <1>4, <1>12 DEF Call, Nudge, Stop
<1> QED BY <1>5, <1>6, <1>7, <1>8, <1>9, <1>10, <1>11, <1>12 DEF Iterate

LEMMA InitWindow == Init => WindowInv
<1>1. SUFFICES ASSUME Init PROVE Tier(Sizes, ctx) /\ Tier(Sizes, vol)
  BY DEF WindowInv
<1>2. \A n \in Sizes : /\ Tier(Sizes, <<BlockOf("Brief", Inferred, n, "brief")>>)
                       /\ Tier(Sizes, <<BlockOf("ToolResults", Untrusted, n, "text")>>)
  <2>1. /\ "Brief" \in VolatileSources \ {"Skills"} /\ "ToolResults" \in VolatileSources \ {"Skills"}
        /\ Inferred \in Classes /\ Untrusted \in Classes /\ "brief" \in Bodies /\ "text" \in Bodies
    BY DEF VolatileSources, Classes, Inferred, Untrusted, Bodies
  <2> QED BY <2>1, PushOne
<1>3. \A n \in Sizes : Tier(Sizes, <<BlockOf("ProjectFiles", Observed, n, "text")>>)
  <2>1. \A n \in Sizes : /\ BlockOf("ProjectFiles", Observed, n, "text") \in BlockOver(Sizes)
                         /\ BlockOf("ProjectFiles", Observed, n, "text").src # "Skills"
    BY DEF BlockOf, BlockOver, ContextSources, Classes, Observed, Bodies
  <2> QED BY <2>1, OneTier
<1>4. Tier(Sizes, ctx)
  <2>1. ctx = <<>> \/ \E n \in Sizes : ctx = <<BlockOf("ProjectFiles", Observed, n, "text")>>
    BY <1>1 DEF Init
  <2> QED BY <1>3, <2>1, EmptyTier
<1>5. Tier(Sizes, vol)
  <2>0. role \in {"root", "child", "reader"} /\ vol \in Opening(role)
    BY <1>1, RoleAssumption DEF Init
  <2>1. CASE role = "root" BY <2>0, <2>1, EmptyTier DEF Opening
  <2>2. CASE role = "child"
    <3>1. \E n \in Sizes : vol = <<BlockOf("Brief", Inferred, n, "brief")>>
      BY <2>0, <2>2 DEF Opening
    <3> QED BY <1>2, <3>1
  <2>3. CASE role = "reader"
    <3>1. PICK n \in Sizes, m \in Sizes :
              vol = <<BlockOf("Brief", Inferred, n, "brief"),
                      BlockOf("ToolResults", Untrusted, m, "text")>>
      BY <2>0, <2>3 DEF Opening
    <3> DEFINE a == BlockOf("Brief", Inferred, n, "brief")
               b == BlockOf("ToolResults", Untrusted, m, "text")
    <3>2. Tier(Sizes, <<a>>) /\ Tier(Sizes, <<b>>) /\ vol = <<a, b>> BY <1>2, <3>1
    <3> HIDE DEF a, b
    <3> QED BY <3>2, FewTier
  <2> QED BY <2>0, <2>1, <2>2, <2>3
<1> QED BY <1>4, <1>5

(* The window implements `WindowFloor`: no turn, no reply, no masking and no compaction,
   whatever its summary says, raises the lowest class the permission layer reads
   (`ContextView::trust_floor`), for every window, block size and budget. *)
THEOREM TheFloorOnlyFalls == Spec => ImplementsWindowFloor
<1>1. Init => Floor(ctx \o vol) \in 0..2
  <2>1. SUFFICES ASSUME Init PROVE Floor(ctx \o vol) \in 0..2 OBVIOUS
  <2>2. PICK N : Tier(N, ctx) /\ Tier(N, vol) BY <2>1, InitWindow DEF WindowInv
  <2>3. ctx \o vol \in Seq(BlockOver(N)) BY <2>2 DEF Tier
  <2> QED BY <2>3, BlocksClassed, FloorIsLowest
<1>2. WindowInv /\ [Next]_vars => WindowInv' /\ Falls
  <2>1. ASSUME WindowInv, UNCHANGED vars PROVE WindowInv' /\ Falls BY <2>1, SameFalls DEF vars
  <2> QED BY <2>1, MessageFalls, IterateFalls DEF Next
<1>3. Init => W!Init BY <1>1 DEF W!Init
<1>4. WindowInv /\ [Next]_vars => [W!Next]_(Floor(ctx \o vol)) BY <1>2 DEF Falls, W!Next
<1> QED BY InitWindow, <1>2, <1>3, <1>4, PTL DEF Spec, ImplementsWindowFloor, W!Spec
=============================================================================

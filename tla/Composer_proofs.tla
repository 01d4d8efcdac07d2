--------------------------- MODULE Composer_proofs ---------------------------
(***************************************************************************)
(* What the composer's operators keep: a draft whose chips are whole shows *)
(* the text the person means, after every key that breaks no chip.         *)
(***************************************************************************)
EXTENDS Composer, SequenceTheorems, WellFoundedInduction, TLAPS

(* A set of naturals that is bounded and not empty has a greatest element. *)
LEMMA GreatestNatural ==
    ASSUME NEW n \in Nat, NEW S \in SUBSET (0..n), S # {}
    PROVE  \E m \in S : \A k \in S : m >= k
<1> DEFINE R == OpToRel(<, Nat)
           T == {n - k : k \in S}
<1>1. \A x, y \in Nat : y < x => <<y, x>> \in R BY DEF OpToRel
<1>2. T \subseteq Nat /\ T # {}
  <2>1. PICK k \in S : TRUE
    OBVIOUS
  <2>2. n - k \in T
    BY <2>1
  <2>3. \A j \in S : n - j \in Nat
    OBVIOUS
  <2> QED BY <2>2, <2>3
<1> HIDE DEF R
<1>3. IsWellFoundedOn(R, Nat) BY NatLessThanWellFounded DEF R
<1>4. PICK x \in T : \A y \in T : ~ (<<y, x>> \in R) BY <1>2, <1>3, WFMin
<1>5. PICK m \in S : x = n - m
  OBVIOUS
<1>6. ASSUME NEW k \in S PROVE m >= k
  <2>1. ~ (n - k < x) BY <1>1, <1>2, <1>4
  <2> QED BY <1>5, <2>1
<1> QED BY <1>6

(* ... and a least one. *)
LEMMA LeastNatural ==
    ASSUME NEW S \in SUBSET Nat, S # {}
    PROVE  \E m \in S : \A k \in S : m =< k
<1> DEFINE R == OpToRel(<, Nat)
<1>1. \A x, y \in Nat : y < x => <<y, x>> \in R BY DEF OpToRel
<1> HIDE DEF R
<1>2. IsWellFoundedOn(R, Nat) BY NatLessThanWellFounded DEF R
<1>3. PICK m \in S : \A k \in S : ~ (<<k, m>> \in R) BY <1>2, WFMin
<1>4. ASSUME NEW k \in S PROVE m =< k
  <2>1. ~ (k < m) BY <1>1, <1>3
  <2> QED BY <2>1
<1> QED BY <1>4

LEMMA Bounded ==
    ASSUME NEW n \in Nat, NEW S \in SUBSET (1..n), S # {}
    PROVE  /\ Max(S) \in S /\ \A k \in S : Max(S) >= k
           /\ Min(S) \in S /\ \A k \in S : Min(S) =< k
<1>1. S \in SUBSET (0..n) /\ S \in SUBSET Nat
  OBVIOUS
<1>2. \E m \in S : \A k \in S : m >= k
  BY <1>1, GreatestNatural
<1>3. \E m \in S : \A k \in S : m =< k
  BY <1>1, LeastNatural
<1>4. Max(S) \in S /\ \A k \in S : Max(S) >= k
  BY <1>2 DEF Max
<1>5. Min(S) \in S /\ \A k \in S : Min(S) =< k
  BY <1>3 DEF Min
<1> QED BY <1>4, <1>5

-----------------------------------------------------------------------------
(* A draft whose chips are whole *)

(* The sizes a chip may have, and the pieces of a text no chip of which is a wreck *)
Heights == {0} \cup {Size(b) : b \in Bodies}
Pieces == [k : {"c", "sp", "cmd", "chip", "lit", "cut"}, n : Nat, size : Heights,
           b : {"", "c", "sp"} \cup Commands \cup Bodies]

(* What a piece stands for, among these pastes *)
InFull(p, a) == IF a.k = "chip" THEN Lit(p[a.n]) ELSE a

(* Every chip is one minted for its paste, and no two are for the same *)
Minted(p, t) ==
    /\ \A j \in DOMAIN t : t[j].k = "chip" => t[j].n \in DOMAIN p /\ t[j] = Chip(t[j].n, p[t[j].n])
    /\ \A i, j \in DOMAIN t : t[i].k = "chip" /\ t[j].k = "chip" /\ i # j => t[i].n # t[j].n

(* Text t with pastes p stands for the text s *)
Shows(p, t, s) ==
    /\ t \in Seq(Pieces) /\ s \in Seq(Pieces) /\ Len(s) = Len(t)
    /\ Minted(p, t)
    /\ \A j \in 1..Len(t) : s[j] = InFull(p, t[j])

Draft(f) == DOMAIN f = {"input", "pastes", "all"} /\ f.pastes \in Seq(Bodies)

(* The draft shows what is meant, unless a chip was broken *)
MeansIt(f, m) ==
    /\ Draft(f) /\ DOMAIN m = {"text", "broken"}
    /\ m.broken \/ Shows(f.pastes, f.input, m.text)

LEMMA ShowsNothing == ASSUME NEW p PROVE Shows(p, <<>>, <<>>)
BY DEF Shows, Minted

LEMMA ShowsPrefix ==
    ASSUME NEW p, NEW t, NEW s, Shows(p, t, s), NEW n \in 0..Len(t)
    PROVE  Shows(p, SubSeq(t, 1, n), SubSeq(s, 1, n))
<1> DEFINE u == SubSeq(t, 1, n)
           v == SubSeq(s, 1, n)
<1>1. t \in Seq(Pieces) /\ s \in Seq(Pieces) /\ Len(s) = Len(t)
  BY DEF Shows
<1>2. u \in Seq(Pieces) /\ Len(u) = n /\ \A j \in 1..n : u[j] = t[j] /\ j \in 1..Len(t)
  BY <1>1
<1>3. v \in Seq(Pieces) /\ Len(v) = n /\ \A j \in 1..n : v[j] = s[j]
  BY <1>1
<1>4. DOMAIN u = 1..n /\ DOMAIN t = 1..Len(t)
  BY <1>1, <1>2
<1> HIDE DEF u, v
<1>5. Minted(p, u)
  BY <1>2, <1>4 DEF Shows, Minted
<1>6. \A j \in 1..Len(u) : v[j] = InFull(p, u[j])
  BY <1>2, <1>3 DEF Shows
<1>7. Shows(p, u, v)
  BY <1>2, <1>3, <1>5, <1>6 DEF Shows
<1> QED BY <1>7 DEF u, v

LEMMA ShowsFront ==
    ASSUME NEW p, NEW t, NEW s, Shows(p, t, s), t # <<>>
    PROVE  Shows(p, Front(t), Front(s))
<1>1. t \in Seq(Pieces) /\ s \in Seq(Pieces) /\ Len(s) = Len(t)
  BY DEF Shows
<1>2. Len(t) - 1 \in 0..Len(t)
  BY <1>1
<1> QED BY <1>1, <1>2, ShowsPrefix DEF Front

LEMMA ShowsAppend ==
    ASSUME NEW p, NEW t, NEW s, Shows(p, t, s), NEW a \in Pieces, a.k # "chip"
    PROVE  Shows(p, Append(t, a), Append(s, a))
<1> DEFINE u == Append(t, a)
           v == Append(s, a)
<1>1. t \in Seq(Pieces) /\ s \in Seq(Pieces) /\ Len(s) = Len(t)
  BY DEF Shows
<1>2. u \in Seq(Pieces) /\ Len(u) = Len(t) + 1 /\ u[Len(t) + 1] = a /\ \A j \in 1..Len(t) : u[j] = t[j]
  BY <1>1
<1>3. v \in Seq(Pieces) /\ Len(v) = Len(t) + 1 /\ v[Len(t) + 1] = a /\ \A j \in 1..Len(t) : v[j] = s[j]
  BY <1>1
<1>4. DOMAIN u = 1..Len(t) + 1 /\ DOMAIN t = 1..Len(t) /\ Len(t) \in Nat
  BY <1>1, <1>2
<1>5. \A j \in 1..Len(t) + 1 : j \in 1..Len(t) \/ j = Len(t) + 1
  BY <1>4
<1> HIDE DEF u, v
<1>6. Minted(p, u)
  BY <1>2, <1>4, <1>5 DEF Shows, Minted
<1>7. \A j \in 1..Len(u) : v[j] = InFull(p, u[j])
  BY <1>2, <1>3, <1>5 DEF Shows, InFull
<1>8. Shows(p, u, v)
  BY <1>2, <1>3, <1>6, <1>7 DEF Shows
<1> QED BY <1>8 DEF u, v

(* A chip for one more paste *)
LEMMA ShowsPasted ==
    ASSUME NEW p \in Seq(Bodies), NEW t, NEW s, Shows(p, t, s), NEW b \in Bodies
    PROVE  Shows(Append(p, b), Append(t, Chip(Len(p) + 1, b)), Append(s, Lit(b)))
<1> DEFINE a == Chip(Len(p) + 1, b)
           u == Append(t, a)
           v == Append(s, Lit(b))
           q == Append(p, b)
<1>1. t \in Seq(Pieces) /\ s \in Seq(Pieces) /\ Len(s) = Len(t)
  BY DEF Shows
<1>2. /\ a \in Pieces /\ a.k = "chip" /\ a.n = Len(p) + 1
      /\ Lit(b) \in Pieces
  <2>1. Size(b) \in Heights /\ 0 \in Heights
    BY DEF Heights
  <2>2. Len(p) + 1 \in Nat
    OBVIOUS
  <2> QED BY <2>1, <2>2 DEF Chip, Atom, Pieces, Lit
<1>3. /\ q[Len(p) + 1] = b /\ DOMAIN q = 1..Len(p) + 1 /\ DOMAIN p = 1..Len(p) /\ Len(p) \in Nat
      /\ \A i \in 1..Len(p) : q[i] = p[i] /\ i \in 1..Len(p) + 1 /\ i # Len(p) + 1
  OBVIOUS
<1>4. a = Chip(a.n, q[a.n])
  BY <1>2, <1>3
<1> HIDE DEF a, q
<1>5. u \in Seq(Pieces) /\ Len(u) = Len(t) + 1 /\ u[Len(t) + 1] = a /\ \A j \in 1..Len(t) : u[j] = t[j]
  BY <1>1, <1>2
<1>6. v \in Seq(Pieces) /\ Len(v) = Len(t) + 1 /\ v[Len(t) + 1] = Lit(b) /\ \A j \in 1..Len(t) : v[j] = s[j]
  BY <1>1, <1>2
<1>7. DOMAIN u = 1..Len(t) + 1 /\ DOMAIN t = 1..Len(t) /\ Len(t) \in Nat
  BY <1>1, <1>5
<1>8. \A j \in 1..Len(t) + 1 : j \in 1..Len(t) \/ j = Len(t) + 1
  BY <1>7
<1> HIDE DEF u, v
<1>9. \A j \in 1..Len(t) : t[j].k = "chip" =>
          t[j].n \in 1..Len(p) /\ t[j] = Chip(t[j].n, q[t[j].n]) /\ q[t[j].n] = p[t[j].n]
  BY <1>3, <1>7 DEF Shows, Minted
<1>10. \A j \in 1..Len(t) + 1 : u[j].k = "chip" => u[j].n \in DOMAIN q /\ u[j] = Chip(u[j].n, q[u[j].n])
  BY <1>2, <1>3, <1>4, <1>5, <1>8, <1>9
<1>11. ASSUME NEW i \in 1..Len(t) + 1, NEW j \in 1..Len(t) + 1, u[i].k = "chip", u[j].k = "chip", i # j
       PROVE  u[i].n # u[j].n
  <2>1. CASE i \in 1..Len(t) /\ j \in 1..Len(t)
    BY <1>5, <1>7, <1>11, <2>1 DEF Shows, Minted
  <2>2. CASE i = Len(t) + 1 /\ j \in 1..Len(t)
    BY <1>2, <1>3, <1>5, <1>9, <1>11, <2>2
  <2>3. CASE j = Len(t) + 1 /\ i \in 1..Len(t)
    BY <1>2, <1>3, <1>5, <1>9, <1>11, <2>3
  <2> QED BY <1>8, <1>11, <2>1, <2>2, <2>3
<1>12. Minted(q, u)
  BY <1>7, <1>10, <1>11 DEF Minted
<1>13. \A j \in 1..Len(t) : v[j] = InFull(q, u[j])
  BY <1>5, <1>6, <1>9 DEF Shows, InFull
<1>14. InFull(q, a) = Lit(b)
  BY <1>2, <1>3 DEF InFull
<1>15. \A j \in 1..Len(u) : v[j] = InFull(q, u[j])
  BY <1>5, <1>6, <1>8, <1>13, <1>14
<1>16. Shows(q, u, v)
  BY <1>5, <1>6, <1>12, <1>15 DEF Shows
<1> QED BY <1>16 DEF a, q, u, v

(* A paste that no chip is left of may go, when it is the last *)
LEMMA ShowsPopped ==
    ASSUME NEW p \in Seq(Bodies), NEW t, NEW s, Shows(p, t, s), p # <<>>,
           \A j \in 1..Len(t) : t[j].k = "chip" => t[j].n # Len(p)
    PROVE  Front(p) \in Seq(Bodies) /\ Shows(Front(p), t, s)
<1> DEFINE q == Front(p)
<1>1. t \in Seq(Pieces) /\ s \in Seq(Pieces) /\ Len(s) = Len(t) /\ DOMAIN t = 1..Len(t)
  BY DEF Shows
<1>2. q \in Seq(Bodies) /\ DOMAIN q = 1..Len(p) - 1 /\ Len(p) \in Nat /\ \A i \in 1..Len(p) - 1 : q[i] = p[i]
  BY DEF Front
<1>3. \A i \in DOMAIN p : i # Len(p) => i \in 1..Len(p) - 1
  OBVIOUS
<1> HIDE DEF q
<1>4. \A j \in 1..Len(t) : t[j].k = "chip" => t[j].n \in DOMAIN q /\ q[t[j].n] = p[t[j].n]
  BY <1>1, <1>2, <1>3 DEF Shows, Minted
<1>5. Minted(q, t)
  BY <1>1, <1>4 DEF Shows, Minted
<1>6. \A j \in 1..Len(t) : s[j] = InFull(q, t[j])
  BY <1>4 DEF Shows, InFull
<1> QED BY <1>1, <1>2, <1>5, <1>6 DEF Shows, q

(* A text in full stands for itself *)
LEMMA InFullPlain ==
    ASSUME NEW p, NEW t, NEW s, Shows(p, t, s)
    PROVE  /\ \A j \in 1..Len(s) : s[j].k # "chip" /\ (t[j].k = "chip" => s[j].k = "lit")
                                   /\ (t[j].k # "chip" => s[j] = t[j])
           /\ Shows(<<>>, s, s)
<1>1. t \in Seq(Pieces) /\ s \in Seq(Pieces) /\ Len(s) = Len(t) /\ DOMAIN s = 1..Len(s)
  BY DEF Shows
<1>2. \A j \in 1..Len(s) : /\ t[j].k = "chip" => s[j].k = "lit"
                           /\ t[j].k # "chip" => s[j] = t[j]
  BY <1>1 DEF Shows, InFull, Lit, Atom
<1>3. \A j \in 1..Len(s) : s[j].k # "chip"
  BY <1>2
<1> QED BY <1>1, <1>2, <1>3 DEF Shows, Minted, InFull

(* Which chips an expansion finds *)
LEMMA ChipFound ==
    ASSUME NEW f, NEW s, Shows(f.pastes, f.input, s), NEW j \in 1..Len(f.input)
    PROVE  /\ (\E i \in DOMAIN f.pastes : IsChip(f, f.input[j], i)) <=> f.input[j].k = "chip"
           /\ f.input[j].k = "chip" => f.input[j].n \in DOMAIN f.pastes
<1> DEFINE a == f.input[j]
<1>1. f.input \in Seq(Pieces) /\ DOMAIN f.input = 1..Len(f.input)
  BY DEF Shows
<1>2. a.k = "chip" => a.n \in DOMAIN f.pastes /\ IsChip(f, a, a.n)
  BY <1>1 DEF Shows, Minted, IsChip
<1>3. ASSUME NEW i, IsChip(f, a, i) PROVE a.k = "chip"
  BY <1>3 DEF IsChip, Chip, Atom
<1> QED BY <1>2, <1>3

(* The chip at the end, if there is one *)
LEMMA TrailingChip ==
    ASSUME NEW f, Draft(f), NEW s, Shows(f.pastes, f.input, s), f.input # <<>>
    PROVE  /\ Last(f.input).k = "chip" =>
                /\ TrailingPaste(f) = Last(f.input).n
                /\ TrailingPaste(f) \in DOMAIN f.pastes /\ TrailingPaste(f) # 0
           /\ Last(f.input).k # "chip" => TrailingPaste(f) = 0
<1>1. f.input \in Seq(Pieces) /\ Len(f.input) \in 1..Len(f.input)
  BY DEF Shows
<1>2. f.pastes \in Seq(Bodies) /\ 0 \notin DOMAIN f.pastes
  BY DEF Draft
<1>3. /\ (\E i \in DOMAIN f.pastes : IsChip(f, Last(f.input), i)) <=> Last(f.input).k = "chip"
      /\ Last(f.input).k = "chip" => Last(f.input).n \in DOMAIN f.pastes
  BY <1>1, ChipFound DEF Last
<1> QED BY <1>2, <1>3 DEF TrailingPaste

(* What is put back is what the text stands for *)
LEMMA ExpandShows ==
    ASSUME NEW f, NEW s, Shows(f.pastes, f.input, s), NEW m \in 1..Len(f.input) + 1, NEW n \in 0..Len(f.input)
    PROVE  Expand(f, SubSeq(f.input, m, n)) = SubSeq(s, m, n)
<1> DEFINE t == f.input
           u == SubSeq(t, m, n)
           v == SubSeq(s, m, n)
           e == Expand(f, u)
<1>1. t \in Seq(Pieces) /\ s \in Seq(Pieces) /\ Len(s) = Len(t) /\ Len(t) \in Nat
  BY DEF Shows
<1>2. \A j \in m..n : j \in 1..Len(t) /\ t[j] \in Pieces /\ s[j] \in Pieces
  BY <1>1
<1>3. /\ u \in Seq(Pieces) /\ Len(u) = (IF m =< n THEN n - m + 1 ELSE 0)
      /\ \A j \in 1..n - m + 1 : u[j] = t[m + j - 1]
  BY <1>1, <1>2, SubSeqProperties
<1>4. /\ v \in Seq(Pieces) /\ Len(v) = (IF m =< n THEN n - m + 1 ELSE 0)
      /\ \A j \in 1..n - m + 1 : v[j] = s[m + j - 1]
  BY <1>1, <1>2, SubSeqProperties
<1>5. DOMAIN u = 1..Len(u) /\ DOMAIN v = 1..Len(u) /\ Len(u) \in Nat
  BY <1>3, <1>4
<1>6. \A j \in 1..Len(u) : j \in 1..n - m + 1 /\ m + j - 1 \in 1..Len(t)
  BY <1>1, <1>3
<1> HIDE DEF u, v
<1>7. ASSUME NEW j \in 1..Len(u) PROVE e[j] = v[j]
  <2>1. u[j] = t[m + j - 1] /\ v[j] = s[m + j - 1] /\ m + j - 1 \in 1..Len(t)
    BY <1>3, <1>4, <1>6
  <2>2. s[m + j - 1] = InFull(f.pastes, t[m + j - 1])
    BY <2>1 DEF Shows
  <2>3. (\E i \in DOMAIN f.pastes : IsChip(f, t[m + j - 1], i)) <=> t[m + j - 1].k = "chip"
    BY <2>1, ChipFound
  <2>4. e[j] = IF \E i \in DOMAIN f.pastes : IsChip(f, u[j], i) THEN Lit(f.pastes[u[j].n]) ELSE u[j]
    BY <1>5 DEF Expand
  <2> QED BY <2>1, <2>2, <2>3, <2>4 DEF InFull
<1>8. e = [j \in 1..Len(u) |-> e[j]]
  BY <1>5 DEF Expand
<1>9. v = [j \in 1..Len(u) |-> v[j]]
  BY <1>4, <1>5
<1>10. e = v
  BY <1>7, <1>8, <1>9
<1> QED BY <1>10 DEF u, v

(* The whole text in full *)
LEMMA ExpandWhole ==
    ASSUME NEW f, NEW s, Shows(f.pastes, f.input, s)
    PROVE  Expand(f, f.input) = s
<1>1. f.input \in Seq(Pieces) /\ s \in Seq(Pieces) /\ Len(s) = Len(f.input) /\ Len(f.input) \in Nat
  BY DEF Shows
<1>2. SubSeq(f.input, 1, Len(f.input)) = f.input /\ SubSeq(s, 1, Len(f.input)) = s
  BY <1>1, SubSeqFull
<1>3. 1 \in 1..Len(f.input) + 1 /\ Len(f.input) \in 0..Len(f.input)
  BY <1>1
<1>4. Expand(f, SubSeq(f.input, 1, Len(f.input))) = SubSeq(s, 1, Len(f.input))
  BY <1>3, ExpandShows
<1> QED BY <1>2, <1>4

(* Trimming finds the same ends in a text and in what it stands for *)
LEMMA TrimShows ==
    ASSUME NEW f, NEW s, Shows(f.pastes, f.input, s)
    PROVE  Submitted(f) = Trim(s)
<1> DEFINE t == f.input
           solid == {j \in DOMAIN t : t[j] # Space}
<1>1. t \in Seq(Pieces) /\ s \in Seq(Pieces) /\ Len(s) = Len(t) /\ Len(t) \in Nat
      /\ DOMAIN t = 1..Len(t) /\ DOMAIN s = 1..Len(t)
  BY DEF Shows
<1>2. \A j \in 1..Len(t) : t[j] = Space <=> s[j] = Space
  BY <1>1, InFullPlain DEF Space, Atom
<1>3. {j \in DOMAIN s : s[j] # Space} = solid
  BY <1>1, <1>2
<1>4. CASE solid = {}
  <2>1. Trim(t) = <<>> /\ Trim(s) = <<>>
    BY <1>3, <1>4 DEF Trim
  <2> QED BY <2>1 DEF Submitted, Expand
<1>5. CASE solid # {}
  <2>1. solid \in SUBSET (1..Len(t))
    BY <1>1
  <2>2. Max(solid) \in 1..Len(t) /\ Min(solid) \in 1..Len(t)
    BY <1>1, <1>5, <2>1, Bounded
  <2>3. Trim(t) = SubSeq(t, Min(solid), Max(solid)) /\ Trim(s) = SubSeq(s, Min(solid), Max(solid))
    BY <1>3, <1>5 DEF Trim
  <2>4. Min(solid) \in 1..Len(t) + 1 /\ Max(solid) \in 0..Len(t)
    BY <1>1, <2>2
  <2> HIDE DEF solid
  <2> QED BY <2>3, <2>4, ExpandShows DEF Submitted
<1> QED BY <1>4, <1>5

(* No kind of these is a chip's or a paste's: the same is left of both *)
LEMMA WithoutShows ==
    ASSUME NEW p, NEW t, NEW s, Shows(p, t, s), NEW kinds, "chip" \notin kinds, "lit" \notin kinds
    PROVE  \E n \in 0..Len(t) : /\ Without(kinds, t) = SubSeq(t, 1, n)
                                /\ Without(kinds, s) = SubSeq(s, 1, n)
<1> DEFINE keep == {j \in DOMAIN t : t[j].k \notin kinds}
<1>1. t \in Seq(Pieces) /\ s \in Seq(Pieces) /\ Len(s) = Len(t) /\ Len(t) \in Nat
      /\ DOMAIN t = 1..Len(t) /\ DOMAIN s = 1..Len(t)
  BY DEF Shows
<1>2. \A j \in 1..Len(t) : t[j].k \in kinds <=> s[j].k \in kinds
  BY <1>1, InFullPlain
<1>3. {j \in DOMAIN s : s[j].k \notin kinds} = keep
  BY <1>1, <1>2
<1>4. CASE keep = {}
  <2>1. Without(kinds, t) = <<>> /\ Without(kinds, s) = <<>>
    BY <1>3, <1>4 DEF Without
  <2>2. SubSeq(t, 1, 0) = <<>> /\ SubSeq(s, 1, 0) = <<>>
    BY <1>1
  <2> QED BY <1>1, <2>1, <2>2
<1>5. CASE keep # {}
  <2>1. keep \in SUBSET (1..Len(t))
    BY <1>1
  <2>2. Max(keep) \in 1..Len(t)
    BY <1>1, <1>5, <2>1, Bounded
  <2>3. Without(kinds, t) = SubSeq(t, 1, Max(keep)) /\ Without(kinds, s) = SubSeq(s, 1, Max(keep))
    BY <1>3, <1>5 DEF Without
  <2>4. Max(keep) \in 0..Len(t)
    BY <1>1, <2>2
  <2> HIDE DEF keep
  <2> WITNESS Max(keep) \in 0..Len(t)
  <2> QED BY <2>3
<1> QED BY <1>4, <1>5

(* Shortening keeps a text whole, but for a chip at its end, which it wrecks *)
LEMMA ShortenShows ==
    ASSUME NEW p, NEW t, NEW s, Shows(p, t, s), t # <<>>
    PROVE  IF Last(t).k = "chip" THEN EndsIn(Shorten(t), "wreck") ELSE Shows(p, Shorten(t), Shorten(s))
<1> DEFINE a == Last(t)
<1>1. t \in Seq(Pieces) /\ s \in Seq(Pieces) /\ Len(s) = Len(t) /\ Len(t) \in 1..Len(t)
  BY DEF Shows
<1>2. a \in Pieces
  BY <1>1 DEF Last
<1>3. CASE a.k = "chip"
  <2> DEFINE w == [a EXCEPT !.k = "wreck", !.n = Words - 1]
             u == Front(t)
  <2>1. u \in Seq(Pieces \cup {w}) /\ w \in Pieces \cup {w}
    BY <1>1 DEF Front
  <2>2. w.k = "wreck"
    BY <1>2 DEF Pieces
  <2>3. Shorten(t) = Append(u, w)
    BY <1>3 DEF Shorten
  <2> HIDE DEF u, w
  <2>4. Append(u, w) # <<>> /\ Last(Append(u, w)) = w
    BY <2>1 DEF Last
  <2> QED BY <1>3, <2>2, <2>3, <2>4 DEF EndsIn
<1>4. CASE a.k # "chip"
  <2>1. Last(s) = a
    BY <1>1, <1>4, InFullPlain DEF Last
  <2>2. Shows(p, Front(t), Front(s))
    BY ShowsFront
  <2>3. CASE a.k = "lit"
    <3> DEFINE c == [a EXCEPT !.k = "cut"]
    <3>1. c \in Pieces /\ c.k # "chip"
      BY <1>2 DEF Pieces
    <3>2. Shorten(t) = Append(Front(t), c) /\ Shorten(s) = Append(Front(s), c)
      BY <2>1, <2>3 DEF Shorten
    <3> HIDE DEF c
    <3>3. Shows(p, Append(Front(t), c), Append(Front(s), c))
      BY <2>2, <3>1, ShowsAppend
    <3> QED BY <1>4, <3>2, <3>3
  <2>4. CASE a.k # "lit"
    <3>1. a.k # "wreck"
      BY <1>2 DEF Pieces
    <3>2. Shorten(t) = Front(t) /\ Shorten(s) = Front(s)
      BY <1>4, <2>1, <2>4, <3>1 DEF Shorten
    <3> QED BY <1>4, <2>2, <3>2
  <2> QED BY <2>3, <2>4
<1> QED BY <1>3, <1>4

(* No text without a wreck ends in one *)
LEMMA NoWreck ==
    ASSUME NEW t \in Seq(Pieces)
    PROVE  ~EndsIn(t, "wreck")
<1>1. t # <<>> => Last(t) \in Pieces
  BY DEF Last
<1> QED BY <1>1 DEF EndsIn, Pieces

(* Texts that show one another end alike *)
LEMMA EndAlike ==
    ASSUME NEW p, NEW t, NEW s, Shows(p, t, s), NEW k, k # "chip", k # "lit"
    PROVE  /\ t = <<>> <=> s = <<>>
           /\ EndsIn(t, k) <=> EndsIn(s, k)
<1>1. t \in Seq(Pieces) /\ s \in Seq(Pieces) /\ Len(s) = Len(t)
  BY DEF Shows
<1>2. t = <<>> <=> s = <<>>
  BY <1>1
<1>3. t # <<>> => Len(t) \in 1..Len(s)
  BY <1>1
<1>4. t # <<>> => (Last(t).k = k <=> Last(s).k = k)
  BY <1>1, <1>3, InFullPlain DEF Last
<1> QED BY <1>2, <1>4 DEF EndsIn

(* Deleting a word keeps a text whole, or breaks the chip at its end *)
LEMMA WordBackShows ==
    ASSUME NEW p, NEW t, NEW s, Shows(p, t, s)
    PROVE  EndsIn(DeleteWordBack(t), "wreck") \/ Shows(p, DeleteWordBack(t), DeleteWordBack(s))
<1> DEFINE bare == Without({"sp"}, t)
           bareS == Without({"sp"}, s)
           word == Without({"c", "cmd"}, bare)
           wordS == Without({"c", "cmd"}, bareS)
<1>1. PICK n \in 0..Len(t) : bare = SubSeq(t, 1, n) /\ bareS = SubSeq(s, 1, n)
  BY WithoutShows
<1>2. Shows(p, bare, bareS)
  BY <1>1, ShowsPrefix
<1> HIDE DEF bare, bareS
<1>3. PICK k \in 0..Len(bare) : word = SubSeq(bare, 1, k) /\ wordS = SubSeq(bareS, 1, k)
  BY <1>2, WithoutShows
<1>4. Shows(p, word, wordS)
  BY <1>2, <1>3, ShowsPrefix
<1> HIDE DEF word, wordS
<1>5. ~EndsIn(word, "wreck") /\ ~EndsIn(wordS, "wreck")
  BY <1>4, NoWreck DEF Shows
<1>6. (word = <<>> <=> wordS = <<>>) /\ (EndsIn(word, "sp") <=> EndsIn(wordS, "sp"))
  BY <1>4, EndAlike
<1>7. /\ DeleteWordBack(t) = IF word = <<>> \/ EndsIn(word, "sp") THEN word ELSE Shorten(word)
      /\ DeleteWordBack(s) = IF wordS = <<>> \/ EndsIn(wordS, "sp") THEN wordS ELSE Shorten(wordS)
  BY <1>5 DEF DeleteWordBack, bare, bareS, word, wordS
<1>8. CASE word = <<>> \/ EndsIn(word, "sp")
  BY <1>4, <1>6, <1>7, <1>8
<1>9. CASE word # <<>> /\ ~EndsIn(word, "sp")
  <2>1. EndsIn(Shorten(word), "wreck") \/ Shows(p, Shorten(word), Shorten(wordS))
    BY <1>4, <1>9, ShortenShows
  <2> QED BY <1>6, <1>7, <1>9, <2>1
<1> QED BY <1>8, <1>9

-----------------------------------------------------------------------------
(* The keys of a draft *)

(* The chip that a key takes is one of the pastes *)
LEMMA TrailingIsPaste ==
    ASSUME NEW f, Draft(f)
    PROVE  TrailingPaste(f) = 0 \/ TrailingPaste(f) \in 1..Len(f.pastes)
<1>1. DOMAIN f.pastes = 1..Len(f.pastes)
  BY DEF Draft
<1>2. ASSUME NEW i \in DOMAIN f.pastes, IsChip(f, Last(f.input), i) PROVE Last(f.input).n = i
  BY <1>2 DEF IsChip, Chip, Atom
<1> QED BY <1>1, <1>2 DEF TrailingPaste

(* A key leaves a draft *)
LEMMA KeysLeaveDrafts ==
    ASSUME NEW f, Draft(f)
    PROVE  /\ \A a : Draft(Insert(f, a)) /\ \A b \in Bodies : Draft(Paste(f, b))
           /\ Draft(Backspace(f)) /\ Draft(CtrlBackspace(f)) /\ Draft(SelectAll(f))
           /\ Draft(ClearInput(f)) /\ Draft(CopySelection(f))
<1>1. \A x, y : Draft([f EXCEPT !.input = x]) /\ Draft([f EXCEPT !.all = y])
  BY DEF Draft
<1>2. Draft(Blank) /\ \A x : Draft([Blank EXCEPT !.input = x])
  BY DEF Draft, Blank
<1>3. \A a : Draft(Insert(f, a))
  BY <1>1, <1>2 DEF Insert
<1>4. ASSUME NEW b \in Bodies PROVE Draft(Paste(f, b))
  <2>1. Append(f.pastes, b) \in Seq(Bodies)
    BY DEF Draft
  <2>2. \A x : Draft([f EXCEPT !.input = x, !.pastes = Append(@, b)])
    BY <2>1 DEF Draft
  <2> QED BY <1>1, <2>2 DEF Paste
<1>5. ASSUME TrailingPaste(f) # 0 PROVE Draft(DropChip(f, TrailingPaste(f)))
  <2>1. TrailingPaste(f) = Len(f.pastes) => Front(f.pastes) \in Seq(Bodies)
    BY <1>5, TrailingIsPaste DEF Draft, Front
  <2> QED BY <2>1 DEF Draft, DropChip
<1>6. Draft(Backspace(f)) /\ Draft(CtrlBackspace(f))
  BY <1>1, <1>2, <1>5 DEF Backspace, CtrlBackspace
<1>7. Draft(SelectAll(f)) /\ Draft(ClearInput(f)) /\ Draft(CopySelection(f))
  BY <1>1, <1>2 DEF SelectAll, ClearInput, CopySelection
<1> QED BY <1>3, <1>4, <1>6, <1>7

(* A letter typed is meant *)
LEMMA InsertMeans ==
    ASSUME NEW f, Draft(f), NEW m, Shows(f.pastes, f.input, m), NEW a \in Pieces, a.k # "chip"
    PROVE  Shows(Insert(f, a).pastes, Insert(f, a).input, Means(f, m, "insert", a))
<1>1. CASE f.all
  <2>1. Insert(f, a).pastes = <<>> /\ Insert(f, a).input = <<a>> /\ Means(f, m, "insert", a) = <<a>>
    BY <1>1 DEF Insert, Blank, Means
  <2>2. Shows(<<>>, Append(<<>>, a), Append(<<>>, a))
    BY ShowsNothing, ShowsAppend
  <2> QED BY <2>1, <2>2
<1>2. CASE ~f.all
  <2>1. /\ Insert(f, a).pastes = f.pastes /\ Insert(f, a).input = Append(f.input, a)
        /\ Means(f, m, "insert", a) = Append(m, a)
    BY <1>2 DEF Insert, Means, Draft
  <2> QED BY <2>1, ShowsAppend
<1> QED BY <1>1, <1>2

(* A paste is meant in full, whether it shows as a chip or not *)
LEMMA PasteMeans ==
    ASSUME NEW f, Draft(f), NEW m, Shows(f.pastes, f.input, m), NEW b \in Bodies
    PROVE  Shows(Paste(f, b).pastes, Paste(f, b).input, Means(f, m, "paste", b))
<1>1. Means(f, m, "paste", b) = Append(m, Lit(b))
  BY DEF Means
<1>2. CASE Size(b) = 0
  <2>1. Paste(f, b).pastes = f.pastes /\ Paste(f, b).input = Append(f.input, Lit(b))
    BY <1>2 DEF Paste, Draft
  <2>2. Lit(b) \in Pieces /\ Lit(b).k # "chip"
    BY DEF Lit, Atom, Pieces, Heights
  <2> QED BY <1>1, <2>1, <2>2, ShowsAppend
<1>3. CASE Size(b) # 0
  <2>1. /\ Paste(f, b).pastes = Append(f.pastes, b)
        /\ Paste(f, b).input = Append(f.input, Chip(Len(f.pastes) + 1, b))
    BY <1>3 DEF Paste, Draft
  <2>2. f.pastes \in Seq(Bodies)
    BY DEF Draft
  <2> QED BY <1>1, <2>1, <2>2, ShowsPasted
<1> QED BY <1>2, <1>3

(* A chip goes whole, and its paste with it when it is the last *)
LEMMA DropMeans ==
    ASSUME NEW f, Draft(f), NEW m, Shows(f.pastes, f.input, m), f.input # <<>>,
           Last(f.input).k = "chip"
    PROVE  LET g == DropChip(f, TrailingPaste(f)) IN Shows(g.pastes, g.input, Front(m))
<1> DEFINE t == f.input
           i == TrailingPaste(f)
<1>1. /\ t \in Seq(Pieces) /\ Len(t) \in 1..Len(t) /\ DOMAIN t = 1..Len(t)
      /\ f.pastes \in Seq(Bodies)
  BY DEF Shows, Draft
<1>2. i = t[Len(t)].n /\ i \in DOMAIN f.pastes /\ t[Len(t)].k = "chip"
  BY TrailingChip DEF Last
<1>3. Shows(f.pastes, Front(t), Front(m))
  BY ShowsFront
<1>4. CASE i # Len(f.pastes)
  <2>1. DropChip(f, i).input = Front(t) /\ DropChip(f, i).pastes = f.pastes
    BY <1>4 DEF DropChip, Draft
  <2> QED BY <1>3, <2>1
<1>5. CASE i = Len(f.pastes)
  <2>1. DropChip(f, i).input = Front(t) /\ DropChip(f, i).pastes = Front(f.pastes)
    BY <1>5 DEF DropChip, Draft
  <2>2. /\ Len(Front(t)) = Len(t) - 1
        /\ \A j \in 1..Len(t) - 1 : Front(t)[j] = t[j] /\ j \in 1..Len(t) /\ j # Len(t)
    BY <1>1 DEF Front
  <2>3. ASSUME NEW j \in 1..Len(Front(t)), Front(t)[j].k = "chip" PROVE Front(t)[j].n # Len(f.pastes)
    <3>1. j \in DOMAIN t /\ Len(t) \in DOMAIN t /\ j # Len(t) /\ t[j].k = "chip" /\ Front(t)[j] = t[j]
      BY <1>1, <2>2, <2>3
    <3>2. t[j].n # t[Len(t)].n
      BY <1>2, <3>1 DEF Shows, Minted
    <3> QED BY <1>2, <1>5, <3>1, <3>2
  <2>4. f.pastes # <<>>
    BY <1>1, <1>2
  <2> QED BY <1>1, <1>3, <2>1, <2>3, <2>4, ShowsPopped
<1> QED BY <1>4, <1>5

(* Backspace takes what is meant by the last piece *)
LEMMA BackspaceMeans ==
    ASSUME NEW f, Draft(f), NEW m, Shows(f.pastes, f.input, m), NEW b
    PROVE  Shows(Backspace(f).pastes, Backspace(f).input, Means(f, m, "bs", b))
<1> DEFINE n == Means(f, m, "bs", b)
<1>1. f.input = <<>> <=> m = <<>>
  BY DEF Shows
<1>2. CASE f.all
  <2>1. Backspace(f).input = <<>> /\ Backspace(f).pastes = <<>> /\ n = <<>>
    BY <1>2 DEF Backspace, Blank, Means
  <2> QED BY <2>1, ShowsNothing
<1>3. CASE ~f.all /\ f.input = <<>>
  <2>1. Backspace(f) = f /\ n = <<>>
    BY <1>1, <1>3 DEF Backspace, Means
  <2> QED BY <1>1, <1>3, <2>1
<1>4. CASE ~f.all /\ f.input # <<>> /\ Last(f.input).k = "chip"
  <2>1. TrailingPaste(f) # 0
    BY <1>4, TrailingChip
  <2>2. Backspace(f) = DropChip(f, TrailingPaste(f)) /\ n = Front(m)
    BY <1>1, <1>4, <2>1 DEF Backspace, Means
  <2> QED BY <1>4, <2>2, DropMeans
<1>5. CASE ~f.all /\ f.input # <<>> /\ Last(f.input).k # "chip"
  <2>1. TrailingPaste(f) = 0
    BY <1>5, TrailingChip
  <2>2. /\ Backspace(f).input = Shorten(f.input) /\ Backspace(f).pastes = f.pastes
        /\ n = Shorten(m)
    BY <1>1, <1>5, <2>1 DEF Backspace, Means, Draft
  <2> QED BY <1>5, <2>2, ShortenShows
<1> QED BY <1>2, <1>3, <1>4, <1>5

(* ... and so does the key that takes a word, unless it breaks a chip *)
LEMMA CtrlBackspaceMeans ==
    ASSUME NEW f, Draft(f), NEW m, Shows(f.pastes, f.input, m), NEW b
    PROVE  \/ EndsIn(CtrlBackspace(f).input, "wreck")
           \/ Shows(CtrlBackspace(f).pastes, CtrlBackspace(f).input, Means(f, m, "cbs", b))
<1> DEFINE n == Means(f, m, "cbs", b)
<1>1. f.input = <<>> <=> m = <<>>
  BY DEF Shows
<1>2. CASE f.all
  <2>1. CtrlBackspace(f).input = <<>> /\ CtrlBackspace(f).pastes = <<>> /\ n = <<>>
    BY <1>2 DEF CtrlBackspace, Blank, Means
  <2> QED BY <2>1, ShowsNothing
<1>3. CASE ~f.all /\ f.input = <<>>
  <2>1. TrailingPaste(f) = 0 /\ n = <<>>
    BY <1>1, <1>3 DEF TrailingPaste, Means
  <2>2. Without({"sp"}, <<>>) = <<>> /\ Without({"c", "cmd"}, <<>>) = <<>>
    BY DEF Without
  <2>3. DeleteWordBack(<<>>) = <<>>
    BY <2>2 DEF DeleteWordBack
  <2>4. CtrlBackspace(f).input = <<>> /\ CtrlBackspace(f).pastes = f.pastes
    BY <1>3, <2>1, <2>3 DEF CtrlBackspace, Draft
  <2> QED BY <1>1, <1>3, <2>1, <2>4
<1>4. CASE ~f.all /\ f.input # <<>> /\ Last(f.input).k = "chip"
  <2>1. TrailingPaste(f) # 0
    BY <1>4, TrailingChip
  <2>2. CtrlBackspace(f) = DropChip(f, TrailingPaste(f)) /\ n = Front(m)
    BY <1>1, <1>4, <2>1 DEF CtrlBackspace, Means
  <2> QED BY <1>4, <2>2, DropMeans
<1>5. CASE ~f.all /\ f.input # <<>> /\ Last(f.input).k # "chip"
  <2>1. TrailingPaste(f) = 0
    BY <1>5, TrailingChip
  <2>2. /\ CtrlBackspace(f).input = DeleteWordBack(f.input) /\ CtrlBackspace(f).pastes = f.pastes
        /\ n = DeleteWordBack(m)
    BY <1>1, <1>5, <2>1 DEF CtrlBackspace, Means, Draft
  <2> QED BY <2>2, WordBackShows
<1> QED BY <1>2, <1>3, <1>4, <1>5

(* Letters and spaces that came as one paste are meant as they are *)
LEMMA ShowsConcat ==
    ASSUME NEW p, NEW t, NEW s, Shows(p, t, s),
           NEW u \in Seq(Pieces), \A j \in 1..Len(u) : u[j].k # "chip"
    PROVE  Shows(p, t \o u, s \o u)
<1> DEFINE x == t \o u
           y == s \o u
           n == Len(t)
<1>1. t \in Seq(Pieces) /\ s \in Seq(Pieces) /\ Len(s) = n /\ n \in Nat /\ Len(u) \in Nat /\ DOMAIN t = 1..n
  BY DEF Shows
<1>2. /\ x \in Seq(Pieces) /\ Len(x) = n + Len(u) /\ DOMAIN x = 1..n + Len(u)
      /\ \A j \in 1..n : x[j] = t[j]
      /\ \A j \in n + 1..n + Len(u) : x[j] = u[j - n]
  BY <1>1
<1>3. /\ y \in Seq(Pieces) /\ Len(y) = n + Len(u)
      /\ \A j \in 1..n : y[j] = s[j]
      /\ \A j \in n + 1..n + Len(u) : y[j] = u[j - n]
  <2>1. s \in Seq(Pieces) /\ u \in Seq(Pieces) /\ Len(s) = n /\ n \in Nat /\ Len(u) \in Nat
    BY <1>1
  <2>2. /\ y \in Seq(Pieces) /\ Len(y) = Len(s) + Len(u)
        /\ \A j \in 1..Len(s) : y[j] = s[j]
        /\ \A j \in Len(s) + 1..Len(s) + Len(u) : y[j] = u[j - Len(s)]
    BY <2>1
  <2> HIDE DEF y, n
  <2> QED BY <2>1, <2>2
<1>4. \A j \in 1..n + Len(u) : j \in 1..n \/ (j \in n + 1..n + Len(u) /\ j - n \in 1..Len(u))
  BY <1>1
<1> HIDE DEF x, y, n
<1>5. \A j \in 1..n + Len(u) : x[j].k = "chip" => j \in 1..n
  BY <1>2, <1>4
<1>6. \A j \in 1..n : j \in DOMAIN t /\ x[j] = t[j]
  BY <1>1, <1>2
<1>7. Minted(p, x)
  BY <1>2, <1>5, <1>6 DEF Shows, Minted
<1>8. ASSUME NEW j \in 1..Len(x) PROVE y[j] = InFull(p, x[j])
  <2>1. CASE j \in 1..n
    BY <1>2, <1>3, <2>1 DEF Shows, n
  <2>2. CASE j \in n + 1..n + Len(u) /\ j - n \in 1..Len(u)
    BY <1>2, <1>3, <2>2 DEF InFull
  <2> QED BY <1>2, <1>4, <2>1, <2>2
<1>9. Shows(p, x, y)
  BY <1>2, <1>3, <1>7, <1>8 DEF Shows
<1> QED BY <1>9 DEF x, y

(* Copying a selection leaves what it stood for in the field *)
LEMMA CopyMeans ==
    ASSUME NEW f, NEW m, Shows(f.pastes, f.input, m)
    PROVE  Shows(CopySelection(f).pastes, CopySelection(f).input, m)
<1>1. CopySelection(f).input = Expand(f, f.input) /\ CopySelection(f).pastes = <<>>
  BY DEF CopySelection, Blank
<1> QED BY <1>1, ExpandWhole, InFullPlain
==============================================================================

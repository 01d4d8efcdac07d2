-------------------------- MODULE ToolBatch_proofs --------------------------
(***************************************************************************)
(* Theorems about ToolBatch, for any tools and manifests, any replies of   *)
(* the model, any documents, sites, servers and command, any tier, egress  *)
(* policy and exposure, and any number of answers, swaps and requests.     *)
(***************************************************************************)
EXTENDS ToolBatch, SequenceTheorems, FiniteSetTheorems, NaturalsInduction,
        WellFoundedInduction, TLAPS

(* A sequence, of whatever it is made of *)
IsSeq(s) == s \in Seq(Range(s))

-----------------------------------------------------------------------------
(* Facts about sequences *)

LEMMA SeqIs ==
    ASSUME NEW s, IsSeq(s)
    PROVE  /\ Len(s) \in Nat /\ DOMAIN s = 1..Len(s)
           /\ s = <<>> <=> Len(s) = 0
<1>1. Len(s) \in Nat /\ DOMAIN s = 1..Len(s) BY LenProperties DEF IsSeq
<1>2. s # <<>> => Len(s) # 0 BY EmptySeq DEF IsSeq
<1>3. s = <<>> => Len(s) = 0 BY EmptySeq
<1> QED BY <1>1, <1>2, <1>3

LEMMA AnySeq ==
    ASSUME NEW S, NEW s \in Seq(S)
    PROVE  IsSeq(s)
<1>1. Len(s) \in Nat /\ DOMAIN s = 1..Len(s) /\ s \in [1..Len(s) -> S] BY LenProperties
<1>2. s \in [1..Len(s) -> Range(s)] BY <1>1 DEF Range
<1> QED BY <1>1, <1>2 DEF IsSeq

LEMMA WiderSeq ==
    ASSUME NEW S, NEW T, S \subseteq T, NEW s \in Seq(S)
    PROVE  s \in Seq(T)
<1>1. Len(s) \in Nat /\ s \in [1..Len(s) -> S] BY LenProperties
<1>2. s \in [1..Len(s) -> T] BY <1>1
<1> QED BY <1>1, <1>2

LEMMA NoneIs == IsSeq(<<>>) /\ Len(<<>>) = 0 /\ DOMAIN <<>> = {}
<1>1. IsSeq(<<>>) BY EmptySeq DEF IsSeq
<1>2. Len(<<>>) = 0 BY EmptySeq
<1> QED BY <1>1, <1>2, SeqIs

LEMMA ListIs ==
    ASSUME NEW m \in Nat, NEW f, DOMAIN f = 1..m, f = [n \in 1..m |-> f[n]]
    PROVE  IsSeq(f) /\ Len(f) = m
<1>1. f \in [1..m -> Range(f)] BY DEF Range
<1>2. f \in Seq(Range(f)) BY <1>1
<1>3. Len(f) = m BY <1>1
<1> QED BY <1>2, <1>3 DEF IsSeq

LEMMA AppendIs ==
    ASSUME NEW s, IsSeq(s), NEW e
    PROVE  /\ IsSeq(Append(s, e)) /\ Len(Append(s, e)) = Len(s) + 1
           /\ \A n \in 1..Len(s) : Append(s, e)[n] = s[n]
           /\ Append(s, e)[Len(s) + 1] = e
<1> DEFINE S == Range(s) \cup {e}
<1>1. s \in Seq(S) /\ e \in S BY SeqMonotonic DEF IsSeq
<1>2. Append(s, e) \in Seq(S) BY <1>1
<1>3. /\ Len(Append(s, e)) = Len(s) + 1
      /\ \A n \in 1..Len(s) : Append(s, e)[n] = s[n]
      /\ Append(s, e)[Len(s) + 1] = e
  BY <1>1, AppendProperties
<1> QED BY <1>2, <1>3, AnySeq

LEMMA ConcatIs ==
    ASSUME NEW s, IsSeq(s), NEW t, IsSeq(t)
    PROVE  /\ IsSeq(s \o t) /\ Len(s \o t) = Len(s) + Len(t)
           /\ \A n \in 1..Len(s) : (s \o t)[n] = s[n]
           /\ \A n \in 1..Len(t) : (s \o t)[Len(s) + n] = t[n]
<1> DEFINE S == Range(s) \cup Range(t)
<1>1. s \in Seq(S) /\ t \in Seq(S) BY SeqMonotonic DEF IsSeq
<1>2. Len(s) \in Nat /\ Len(t) \in Nat BY SeqIs
<1> HIDE DEF S
<1>3. /\ s \o t \in Seq(S) /\ Len(s \o t) = Len(s) + Len(t)
      /\ \A i \in 1..Len(s) + Len(t) : (s \o t)[i] = IF i <= Len(s) THEN s[i] ELSE t[i - Len(s)]
  BY <1>1, ConcatProperties
<1>4. \A n \in 1..Len(s) : (s \o t)[n] = s[n] BY <1>2, <1>3
<1>5. ASSUME NEW n \in 1..Len(t) PROVE (s \o t)[Len(s) + n] = t[n]
  <2>1. Len(s) + n \in 1..Len(s) + Len(t) /\ ~(Len(s) + n <= Len(s)) /\ Len(s) + n - Len(s) = n
    BY <1>2
  <2> QED BY <1>3, <2>1
<1> QED BY <1>3, <1>4, <1>5, AnySeq

LEMMA TailIs ==
    ASSUME NEW s, IsSeq(s), s # <<>>
    PROVE  /\ IsSeq(Tail(s)) /\ Len(Tail(s)) = Len(s) - 1
           /\ \A n \in 1..Len(s) - 1 : Tail(s)[n] = s[n + 1]
           /\ Head(s) = s[1] /\ Len(s) > 0
<1>1. /\ Tail(s) \in Seq(Range(s)) /\ Len(Tail(s)) = Len(s) - 1
      /\ \A n \in 1..Len(Tail(s)) : Tail(s)[n] = s[n + 1]
  BY HeadTailProperties DEF IsSeq
<1>2. Head(s) = s[1] BY DEF IsSeq
<1>3. Len(s) \in Nat /\ Len(s) > 0 BY SeqIs
<1>4. IsSeq(Tail(s)) BY <1>1, AnySeq
<1> QED BY <1>1, <1>2, <1>3, <1>4

LEMMA PartIs ==
    ASSUME NEW s, IsSeq(s), NEW m \in Nat, NEW n \in Nat, 0 < m, n <= Len(s)
    PROVE  /\ IsSeq(SubSeq(s, m, n)) /\ Len(SubSeq(s, m, n)) = IF m <= n THEN n - m + 1 ELSE 0
           /\ \A i \in 1..n - m + 1 : SubSeq(s, m, n)[i] = s[m + i - 1]
<1>1. DOMAIN s = 1..Len(s) /\ Len(s) \in Nat BY SeqIs
<1>2. \A i \in m..n : s[i] \in Range(s) BY <1>1 DEF Range
<1>3. /\ SubSeq(s, m, n) \in Seq(Range(s)) /\ Len(SubSeq(s, m, n)) = IF m <= n THEN n - m + 1 ELSE 0
      /\ \A i \in 1..n - m + 1 : SubSeq(s, m, n)[i] = s[m + i - 1]
  BY <1>2, SubSeqProperties
<1> QED BY <1>3, AnySeq

LEMMA LeastNatural ==
    ASSUME NEW S \in SUBSET Nat, S # {}
    PROVE  \E m \in S : \A k \in S : m <= k
<1> DEFINE R == OpToRel(<, Nat)
<1>1. \A x, y \in Nat : y < x => <<y, x>> \in R BY DEF OpToRel
<1> HIDE DEF R
<1>2. IsWellFoundedOn(R, Nat) BY NatLessThanWellFounded DEF R
<1>3. PICK x \in S : \A y \in S : ~ (<<y, x>> \in R) BY <1>2, WFMin
<1>4. ASSUME NEW k \in S PROVE x <= k
  <2>1. ~ (k < x) BY <1>1, <1>3
  <2> QED BY <2>1
<1> QED BY <1>3, <1>4

-----------------------------------------------------------------------------
(* The numbers of a set in their order: each once *)
LEMMA InOrderIs ==
    ASSUME NEW S \in SUBSET Nat, IsFiniteSet(S)
    PROVE  /\ IsSeq(InOrder(S)) /\ Len(InOrder(S)) = Cardinality(S)
           /\ \A n \in 1..Len(InOrder(S)) : InOrder(S)[n] \in S
           /\ \A i \in S : \E n \in 1..Len(InOrder(S)) : InOrder(S)[n] = i
           /\ \A m, n \in 1..Len(InOrder(S)) : InOrder(S)[m] = InOrder(S)[n] => m = n
<1> DEFINE Below(i) == {j \in S : j < i}
           Before(i) == Cardinality(Below(i))
           M == Cardinality(S)
<1>1. M \in Nat /\ \A i \in S : i \in Nat BY FS_CardinalityType
<1>2. ASSUME NEW i \in S
      PROVE  /\ Before(i) \in Nat /\ Before(i) < M
             /\ Cardinality(Below(i) \cup {i}) = Before(i) + 1
  <2>1. IsFiniteSet(Below(i)) /\ Cardinality(Below(i)) <= M BY FS_Subset
  <2>2. Cardinality(Below(i)) \in Nat BY <2>1, FS_CardinalityType
  <2>3. i \notin Below(i) BY <1>1
  <2>4. Cardinality(Below(i)) # M BY <2>3, FS_Subset
  <2>5. Cardinality(Below(i) \cup {i}) = Cardinality(Below(i)) + 1 BY <2>1, <2>3, FS_AddElement
  <2> HIDE DEF Below, M
  <2> QED BY <1>1, <2>1, <2>2, <2>4, <2>5
<1>3. ASSUME NEW i \in S, NEW k \in S, i < k PROVE Before(i) < Before(k)
  <2>1. i \in Nat /\ k \in Nat BY <1>1
  <2>2. Below(i) \cup {i} \subseteq Below(k)
    <3>1. ASSUME NEW j \in Below(i) \cup {i} PROVE j \in Below(k)
      <4>1. j \in S /\ j \in Nat /\ j <= i BY <1>1, <2>1
      <4> QED BY <1>3, <2>1, <4>1
    <3> QED BY <3>1
  <2>3. IsFiniteSet(Below(k)) BY FS_Subset
  <2>4. Cardinality(Below(i) \cup {i}) <= Cardinality(Below(k)) BY <2>2, <2>3, FS_Subset
  <2>5. Before(i) + 1 <= Before(k) BY <1>2, <2>4
  <2>6. Before(i) \in Nat /\ Before(k) \in Nat BY <1>2
  <2> HIDE DEF Before
  <2> QED BY <2>5, <2>6
<1>4. ASSUME S # {} PROVE \E i \in S : Before(i) = 0
  <2>1. PICK i \in S : \A k \in S : i <= k BY <1>4, LeastNatural
  <2>2. ASSUME NEW j \in Below(i) PROVE FALSE
    <3>1. j \in Nat /\ i \in Nat /\ j < i /\ i <= j BY <1>1, <2>1
    <3> QED BY <3>1
  <2>3. Below(i) = {} BY <2>2
  <2> QED BY <2>3, FS_EmptySet
<1>5. ASSUME NEW i \in S, Before(i) + 1 < M PROVE \E k \in S : Before(k) = Before(i) + 1
  <2> DEFINE Upto == Below(i) \cup {i}
             Over == S \ Upto
  <2>1. Over # {}
    <3>1. Cardinality(Upto) = Before(i) + 1 /\ Before(i) \in Nat BY <1>2
    <3>2. Cardinality(Upto) # M
      <4> HIDE DEF Upto, Before, M
      <4> QED BY <1>1, <1>5, <3>1
    <3> QED BY <3>2
  <2>2. PICK k \in Over : \A x \in Over : k <= x BY <2>1, LeastNatural
  <2>3. ASSUME NEW x \in Below(k) PROVE x \in Upto
    <3>1. x \in Nat /\ k \in Nat /\ x < k /\ x \in S BY <1>1
    <3> QED BY <2>2, <3>1
  <2>4. ASSUME NEW x \in Upto PROVE x \in Below(k)
    <3>1. k \in S /\ k \in Nat /\ i \in Nat /\ ~(k < i) /\ k # i BY <1>1
    <3>2. x \in S /\ x \in Nat /\ x <= i BY <1>1
    <3> QED BY <3>1, <3>2
  <2>5. Below(k) = Upto BY <2>3, <2>4
  <2> QED BY <1>2, <2>5
<1> HIDE DEF Before
<1>6. ASSUME NEW n \in 1..M PROVE \E i \in S : Before(i) = n - 1
  <2> DEFINE Wrong == {m \in 1..M : \A i \in S : Before(i) # m - 1}
  <2>1. SUFFICES ASSUME Wrong # {} PROVE FALSE OBVIOUS
  <2>2. PICK m \in Wrong : \A k \in Wrong : m <= k
    <3>1. Wrong \in SUBSET Nat BY <1>1
    <3> HIDE DEF Wrong
    <3> QED BY <2>1, <3>1, LeastNatural
  <2>3. m \in 1..M /\ \A i \in S : Before(i) # m - 1 BY <2>2
  <2>4. S # {} BY <2>3, <1>1, FS_EmptySet
  <2>5. m # 1 BY <1>4, <2>3, <2>4
  <2>6. m - 1 \in 1..M /\ ~(m <= m - 1) BY <1>1, <2>3, <2>5
  <2>7. PICK i \in S : Before(i) = m - 1 - 1 BY <2>2, <2>6
  <2>8. Before(i) + 1 = m - 1 /\ Before(i) + 1 < M BY <1>1, <2>3, <2>7
  <2> QED BY <1>5, <2>3, <2>8
<1>7. ASSUME NEW i \in S, NEW k \in S, Before(i) = Before(k) PROVE i = k
  <2>1. Before(i) \in Nat /\ i \in Nat /\ k \in Nat BY <1>1, <1>2
  <2>2. ~(i < k) /\ ~(k < i) BY <1>3, <1>7, <2>1
  <2> QED BY <2>1, <2>2
<1> DEFINE f == InOrder(S)
<1>8. f = [n \in 1..M |-> CHOOSE i \in S : Before(i) = n - 1] BY DEF InOrder, Before
<1> HIDE DEF f, M
<1>9. DOMAIN f = 1..M BY <1>8
<1>10. f = [n \in 1..M |-> f[n]] BY <1>8, <1>9
<1>11. \A n \in 1..M : f[n] \in S /\ Before(f[n]) = n - 1
  <2>1. TAKE n \in 1..M
  <2>2. f[n] = CHOOSE i \in S : Before(i) = n - 1 BY <1>8
  <2>3. \E i \in S : Before(i) = n - 1 BY <1>6
  <2> QED BY <2>2, <2>3
<1>12. IsSeq(f) /\ Len(f) = M BY <1>1, <1>9, <1>10, ListIs
<1>13. \A i \in S : \E n \in 1..M : f[n] = i
  <2>1. TAKE i \in S
  <2>2. Before(i) \in Nat /\ Before(i) < M BY <1>2 DEF M
  <2>3. Before(i) + 1 \in 1..M /\ Before(i) + 1 - 1 = Before(i) BY <1>1, <2>2
  <2>4. PICK n \in 1..M : n = Before(i) + 1 BY <2>3
  <2>5. f[n] \in S /\ Before(f[n]) = n - 1 BY <1>11
  <2>6. n - 1 = Before(i) BY <2>2, <2>4
  <2>7. f[n] = i BY <1>7, <2>5, <2>6
  <2> QED BY <2>7
<1>14. \A m, n \in 1..M : f[m] = f[n] => m = n
  <2>1. TAKE m, n \in 1..M
  <2>2. HAVE f[m] = f[n]
  <2>3. m - 1 = n - 1 BY <1>11, <2>2
  <2> QED BY <1>1, <2>3
<1> QED BY <1>11, <1>12, <1>13, <1>14 DEF f, M

-----------------------------------------------------------------------------
(* Where the loop's thread is *)

Preparing == {"prepare", "dir", "file", "decide", "prompt", "await"}   \* the call after `prep`
Grouped   == Preparing \cup {"run"}
Stops     == Grouped \cup {"idle", "group", "condense"}

Decision == [ok : BOOLEAN, obj : {"none", "own"}]
Left     == [replies : Seq(Seq(Call)), swaps : Nat, answers : Nat]
McpIs(m) == /\ m = [phase |-> m.phase, id |-> m.id, late |-> m.late, lines |-> m.lines,
                    owed |-> m.owed, alive |-> m.alive, notes |-> m.notes]
            /\ m.id \in Nat

(* A group is one call, or inert calls *)
Alone(to) == to = done + 1 \/ \A i \in done + 1..to : IsInert(calls[i])

OpenGroup == /\ done < upto /\ upto <= Len(calls) /\ Alone(upto)
             /\ pc \in Preparing => done + Len(prep) < upto
             /\ pc = "run" => done + Len(prep) = upto

(* No host has more outcomes than items; the innermost has room for all of them at once *)
Slots == /\ \A k \in Layers : IsSeq(out[k]) /\ Len(out[k]) <= Len(ItemsOf(k))
         /\ out[0] = <<>> \/ Len(out[0]) = Len(ItemsOf(0))

(* A request is out only for an item not yet answered *)
Waits == mcp.phase # "rest" => pc = "run" /\ Len(out[McpLayer]) < Len(ItemsOf(McpLayer))

Shape == /\ calls \in Seq(Call) /\ left \in Left /\ McpIs(mcp)
         /\ done \in Nat /\ upto \in Nat /\ done <= Len(calls) /\ pc \in Stops
         /\ prep \in Seq(Decision)
         /\ pc \in Grouped => OpenGroup
         /\ DOMAIN out = Layers
         /\ pc # "run" => \A k \in Layers : out[k] = <<>>
         /\ pc = "run" => Slots
         /\ Waits
         /\ pc = "idle" => done = Len(calls)

LEMMA Within ==
    ASSUME NEW a \in Nat, NEW b \in Nat, NEW S \in SUBSET (a + 1..b)
    PROVE  S \in SUBSET Nat /\ IsFiniteSet(S)
<1>1. IsFiniteSet(a + 1..b) BY FS_Interval
<1>2. IsFiniteSet(S) BY <1>1, FS_Subset
<1> QED BY <1>2

(* The items of a host are calls of the group that were cleared, each once *)
LEMMA ItemsAre ==
    ASSUME done \in Nat, upto \in Nat, NEW k
    PROVE  /\ IsSeq(ItemsOf(k)) /\ Len(ItemsOf(k)) \in Nat /\ DOMAIN ItemsOf(k) = 1..Len(ItemsOf(k))
           /\ \A n \in DOMAIN ItemsOf(k) : /\ ItemsOf(k)[n] \in Cleared
                                           /\ Layer[calls[ItemsOf(k)[n]].tool] = k
           /\ \A m, n \in DOMAIN ItemsOf(k) : ItemsOf(k)[m] = ItemsOf(k)[n] => m = n
           /\ \A i \in Cleared : Layer[calls[i].tool] = k => \E n \in DOMAIN ItemsOf(k) : ItemsOf(k)[n] = i
<1> DEFINE S == {i \in Cleared : Layer[calls[i].tool] = k}
<1>1. S \in SUBSET (done + 1..upto) BY DEF Cleared, Group
<1>2. S \in SUBSET Nat /\ IsFiniteSet(S)
  <2> HIDE DEF S
  <2> QED BY <1>1, Within
<1>3. ItemsOf(k) = InOrder(S) BY DEF ItemsOf
<1>4. \A i : i \in S <=> i \in Cleared /\ Layer[calls[i].tool] = k OBVIOUS
<1> HIDE DEF S
<1>5. /\ IsSeq(InOrder(S)) /\ \A n \in 1..Len(InOrder(S)) : InOrder(S)[n] \in S
      /\ \A i \in S : \E n \in 1..Len(InOrder(S)) : InOrder(S)[n] = i
      /\ \A m, n \in 1..Len(InOrder(S)) : InOrder(S)[m] = InOrder(S)[n] => m = n
  BY <1>2, InOrderIs
<1>6. Len(ItemsOf(k)) \in Nat /\ DOMAIN ItemsOf(k) = 1..Len(ItemsOf(k)) BY <1>3, <1>5, SeqIs
<1> QED BY <1>3, <1>4, <1>5, <1>6

(* The items that are counted in one state are those of the next *)
LEMMA ItemsStay ==
    ASSUME UNCHANGED <<calls, done, upto, prep>>
    PROVE  /\ Cleared' = Cleared /\ Items' = Items /\ Group' = Group
           /\ \A k : ItemsOf(k)' = ItemsOf(k)
<1> QED BY DEF Cleared, Group, Items, ItemsOf

LEMMA GroupEndIs ==
    ASSUME calls \in Seq(Call), done \in Nat, done < Len(calls)
    PROVE  /\ GroupEnd(done + 1) \in done + 1..Len(calls) /\ Alone(GroupEnd(done + 1))
<1> DEFINE from == done + 1
           Ends == {j \in from..Len(calls) : j = Len(calls) \/ ~IsInert(calls[j + 1])}
<1>1. Len(calls) \in Nat /\ from \in Nat /\ from \in from..Len(calls) BY LenProperties
<1>2. CASE ~IsInert(calls[from])
  <2>1. GroupEnd(from) = from BY <1>2 DEF GroupEnd
  <2> QED BY <1>1, <2>1 DEF Alone
<1>3. CASE IsInert(calls[from])
  <2>1. Len(calls) \in Ends BY <1>1
  <2>2. Ends \in SUBSET Nat BY <1>1
  <2>3. PICK j \in Ends : \A k \in Ends : j <= k
    <3> HIDE DEF Ends
    <3> QED BY <2>1, <2>2, LeastNatural
  <2>4. \A k \in from..j : IsInert(calls[k])
    <3>1. SUFFICES ASSUME NEW k \in from..j, ~IsInert(calls[k]) PROVE FALSE OBVIOUS
    <3>2. k # from BY <1>3, <3>1
    <3>3. k - 1 \in from..Len(calls) /\ k - 1 + 1 = k /\ ~(j <= k - 1) BY <1>1, <2>2, <3>2
    <3>4. k - 1 \in Ends BY <3>1, <3>3
    <3> QED BY <2>3, <3>3, <3>4
  <2>5. \E i \in from..Len(calls) : /\ \A k \in from..i : IsInert(calls[k])
                                    /\ i = Len(calls) \/ ~IsInert(calls[i + 1])
    BY <2>3, <2>4
  <2>6. GroupEnd(from) = CHOOSE i \in from..Len(calls) :
                            /\ \A k \in from..i : IsInert(calls[k])
                            /\ i = Len(calls) \/ ~IsInert(calls[i + 1])
    BY <1>3 DEF GroupEnd
  <2>7. GroupEnd(from) \in from..Len(calls) /\ \A k \in from..GroupEnd(from) : IsInert(calls[k])
    BY <2>5, <2>6
  <2> QED BY <2>7 DEF Alone
<1> QED BY <1>2, <1>3

LEMMA ShapeInit == Init => Shape
<1> SUFFICES ASSUME Init PROVE Shape OBVIOUS
<1>1. left \in Left BY BatchAssumption DEF Init, Left
<1>2. McpIs(mcp) /\ mcp.phase = "rest" BY DEF Init, McpIs, Connected
<1>3. DOMAIN out = Layers /\ \A k \in Layers : out[k] = <<>> BY DEF Init
<1>4. calls \in Seq(Call) /\ prep \in Seq(Decision) /\ Len(calls) = 0 BY EmptySeq DEF Init
<1> QED BY <1>1, <1>2, <1>3, <1>4 DEF Init, Shape, Waits, Grouped, Preparing, Stops

LEMMA ShapeKept ==
    ASSUME Shape, UNCHANGED <<calls, done, upto, prep, pc, out>>, left' \in Left,
           McpIs(mcp'), mcp'.phase # "rest" => mcp.phase # "rest"
    PROVE  Shape'
<1>1. \A k : ItemsOf(k)' = ItemsOf(k) BY ItemsStay
<1>2. Waits' BY <1>1 DEF Shape, Waits
<1>3. pc = "run" => Slots' BY <1>1 DEF Shape, Slots
<1>4. pc \in Grouped => OpenGroup' BY DEF Shape, OpenGroup, Alone
<1> QED BY <1>2, <1>3, <1>4 DEF Shape

(* Outcomes come in, one by one *)
LEMMA ShapeFilled ==
    ASSUME Shape, UNCHANGED <<calls, done, upto, prep, pc, left, mcp>>,
           NEW n \in DOMAIN out[0], NEW o, Filled(n, o)
    PROVE  Shape' /\ pc = "run" /\ n \in DOMAIN ItemsOf(0)
<1>1. pc = "run"
  <2>1. SUFFICES ASSUME pc # "run" PROVE FALSE OBVIOUS
  <2>2. out[0] = <<>> BY <2>1 DEF Shape, Layers
  <2> QED BY <2>2, NoneIs
<1>2. Slots /\ DOMAIN out = Layers /\ 0 \in Layers BY <1>1 DEF Shape, Layers
<1>3. IsSeq(out[0]) /\ DOMAIN out[0] = 1..Len(out[0]) /\ Len(out[0]) \in Nat BY <1>2, SeqIs DEF Slots
<1>4. n \in DOMAIN ItemsOf(0)
  <2>1. out[0] # <<>> BY NoneIs
  <2>2. DOMAIN ItemsOf(0) = 1..Len(ItemsOf(0)) BY ItemsAre DEF Shape
  <2> QED BY <1>2, <1>3, <2>1, <2>2 DEF Slots
<1>5. /\ \A k \in Layers : k # 0 => out'[k] = out[k]
      /\ DOMAIN out' = Layers /\ DOMAIN out'[0] = 1..Len(out[0])
      /\ out'[0] = [m \in 1..Len(out[0]) |-> out'[0][m]]
  BY <1>2, <1>3 DEF Filled
<1>6. IsSeq(out'[0]) /\ Len(out'[0]) = Len(out[0])
  <2> DEFINE f == out'[0]
  <2>1. DOMAIN f = 1..Len(out[0]) /\ f = [m \in 1..Len(out[0]) |-> f[m]] BY <1>5
  <2> HIDE DEF f
  <2>2. IsSeq(f) /\ Len(f) = Len(out[0]) BY <1>3, <2>1, ListIs
  <2> QED BY <2>2 DEF f
<1>7. \A k : ItemsOf(k)' = ItemsOf(k) BY ItemsStay
<1>8. Slots' BY <1>2, <1>5, <1>6, <1>7 DEF Slots
<1>9. Waits'
  <2>1. McpLayer \in Layers /\ McpLayer # 0 BY DEF McpLayer, Layers
  <2> QED BY <1>5, <1>7, <2>1 DEF Shape, Waits
<1>10. OpenGroup' BY <1>1 DEF Shape, OpenGroup, Grouped, Alone, Preparing
<1> QED BY <1>1, <1>4, <1>5, <1>8, <1>9, <1>10 DEF Shape

LEMMA ShapeServed ==
    ASSUME Shape, UNCHANGED <<calls, done, upto, prep, pc, left>>, pc = "run",
           NEW k \in Layers \ {0}, NEW o, out' = [out EXCEPT ![k] = Append(@, o)],
           Len(out[k]) < Len(ItemsOf(k)),
           McpIs(mcp'), mcp'.phase = "rest" \/ (k # McpLayer /\ mcp' = mcp)
    PROVE  Shape'
<1>1. Slots /\ DOMAIN out = Layers BY DEF Shape
<1>2. /\ IsSeq(Append(out[k], o)) /\ Len(Append(out[k], o)) = Len(out[k]) + 1
      /\ Len(out[k]) \in Nat
  BY <1>1, AppendIs, SeqIs DEF Slots
<1>3. /\ \A j \in Layers : j # k => out'[j] = out[j]
      /\ DOMAIN out' = Layers /\ out'[k] = Append(out[k], o)
  BY <1>1
<1>4. \A j : ItemsOf(j)' = ItemsOf(j) BY ItemsStay
<1>5. Len(ItemsOf(k)) \in Nat BY ItemsAre DEF Shape
<1>6. Len(out'[k]) <= Len(ItemsOf(k)) BY <1>2, <1>3, <1>5
<1>7. Slots'
  <2>1. ASSUME NEW j \in Layers PROVE IsSeq(out'[j]) /\ Len(out'[j]) <= Len(ItemsOf(j))
    <3>1. CASE j = k BY <1>2, <1>3, <1>6, <3>1
    <3>2. CASE j # k BY <1>1, <1>3, <3>2 DEF Slots
    <3> QED BY <3>1, <3>2
  <2>2. out'[0] = out[0] BY <1>3 DEF Layers
  <2> QED BY <1>1, <1>4, <2>1, <2>2 DEF Slots
<1>8. Waits'
  <2>1. CASE mcp'.phase = "rest" BY <2>1 DEF Waits
  <2>2. CASE k # McpLayer /\ mcp' = mcp
    <3>1. McpLayer \in Layers BY DEF McpLayer, Layers
    <3> QED BY <1>3, <1>4, <2>2, <3>1 DEF Shape, Waits
  <2> QED BY <2>1, <2>2
<1>9. OpenGroup' BY DEF Shape, OpenGroup, Grouped, Alone, Preparing
<1> QED BY <1>3, <1>7, <1>8, <1>9 DEF Shape

(* The loop prepares the next call of the group, or is done with them all *)
LEMMA ShapeMoves ==
    ASSUME Shape, UNCHANGED <<calls, done, upto, prep, out, mcp>>, left' \in Left,
           pc \in Preparing, pc' \in Preparing
    PROVE  Shape'
<1>1. OpenGroup' BY DEF Shape, OpenGroup, Grouped, Alone, Preparing
<1>2. pc # "run" /\ pc' # "run" /\ pc' # "idle" /\ pc' \in Stops BY DEF Preparing, Stops, Grouped
<1>3. Waits' BY <1>2 DEF Shape, Waits
<1> QED BY <1>1, <1>2, <1>3 DEF Shape

LEMMA ShapeDecided ==
    ASSUME Shape, UNCHANGED <<calls, done, upto, out, mcp>>, left' \in Left,
           pc \in Preparing, NEW d \in Decision, prep' = Append(prep, d), pc' = AfterPrepare
    PROVE  Shape'
<1>1. OpenGroup /\ done + Len(prep) < upto /\ Len(prep) \in Nat
  BY LenProperties DEF Shape, OpenGroup, Grouped
<1>2. prep' \in Seq(Decision) /\ Len(prep') = Len(prep) + 1 BY AppendProperties DEF Shape
<1>3. /\ pc' = "run" => done + Len(prep') = upto
      /\ pc' # "run" => pc' = "prepare" /\ done + Len(prep') < upto
      /\ pc' \in {"run", "prepare"}
  <2>1. done \in Nat /\ upto \in Nat BY DEF Shape
  <2>2. CASE done + Len(prep) + 1 = upto
    <3>1. pc' = "run" BY <2>2 DEF AfterPrepare, Current
    <3> QED BY <1>1, <1>2, <2>1, <2>2, <3>1
  <2>3. CASE done + Len(prep) + 1 # upto
    <3>1. pc' = "prepare" BY <2>3 DEF AfterPrepare, Current
    <3>2. done + Len(prep') < upto BY <1>1, <1>2, <2>1, <2>3
    <3> QED BY <3>1, <3>2
  <2> QED BY <2>2, <2>3
<1>4. OpenGroup' BY <1>1, <1>3 DEF OpenGroup, Alone, Preparing
<1>5. \A k \in Layers : out'[k] = <<>> BY DEF Shape, Preparing
<1>6. Slots'
  <2>1. ASSUME NEW k \in Layers PROVE IsSeq(out'[k]) /\ Len(out'[k]) <= Len(ItemsOf(k)')
    <3> DEFINE S == {i \in Cleared : Layer[calls[i].tool] = k}'
    <3>1. S \in SUBSET (done + 1..upto) BY DEF Cleared, Group
    <3>2. S \in SUBSET Nat /\ IsFiniteSet(S)
      <4> HIDE DEF S
      <4> QED BY <3>1, Within DEF Shape
    <3>3. ItemsOf(k)' = InOrder(S) BY DEF ItemsOf, InOrder
    <3> HIDE DEF S
    <3>4. Len(ItemsOf(k)') \in Nat BY <3>2, <3>3, InOrderIs, SeqIs
    <3> QED BY <1>5, <3>4, NoneIs
  <2> QED BY <1>5, <2>1 DEF Slots, Layers
<1>7. Waits' BY DEF Shape, Waits, Preparing
<1> QED BY <1>2, <1>3, <1>4, <1>5, <1>6, <1>7 DEF Shape, Stops, Grouped, Preparing

(* Every action of the loop and of those around it keeps the shape *)
LEMMA ShapeOutside ==
    ASSUME Shape, Shell_ \/ McpServer \/ Sites \/ Swap \/ PersonAnswers \/ PersonLeaves
    PROVE  Shape'
<1>1. CASE Shell_
  <2>1. UNCHANGED <<calls, done, upto, prep, pc, out, left, mcp>> BY <1>1 DEF Shell_, talk, span, world, step
  <2> QED BY <2>1, ShapeKept DEF Shape
<1>2. CASE McpServer
  <2>1. UNCHANGED <<calls, done, upto, prep, pc, out, left>> BY <1>2 DEF McpServer, talk, span, world, step
  <2>2. McpIs(mcp') /\ mcp.phase # "rest"
    <3>1. McpIs(mcp) BY DEF Shape
    <3>2. CASE ServerAnswers BY <1>2, <3>1, <3>2 DEF McpIs, ServerAnswers, McpServer
    <3>3. CASE ServerNotes BY <1>2, <3>1, <3>3 DEF McpIs, ServerNotes, McpServer
    <3>4. CASE ServerDies BY <1>2, <3>1, <3>4 DEF McpIs, ServerDies, McpServer
    <3>5. CASE TimePasses BY <1>2, <3>1, <3>5 DEF McpIs, TimePasses, McpServer
    <3> QED BY <1>2, <3>2, <3>3, <3>4, <3>5 DEF McpServer, Server
  <2> QED BY <2>1, <2>2, ShapeKept DEF Shape
<1>3. CASE Sites
  <2>1. UNCHANGED <<calls, done, upto, prep, pc, out, left, mcp>> BY <1>3 DEF Sites, talk, span, world, step
  <2> QED BY <2>1, ShapeKept DEF Shape
<1>4. CASE Swap
  <2>1. UNCHANGED <<calls, done, upto, prep, pc, out, mcp>> BY <1>4 DEF Swap, talk, span, hosts, step
  <2>2. left' \in Left
    <3>1. left.swaps > 0 /\ left' = [left EXCEPT !.swaps = @ - 1] BY <1>4 DEF Swap
    <3>2. left \in Left /\ left.swaps \in Nat BY DEF Shape, Left
    <3>3. left.swaps - 1 \in Nat BY <3>1, <3>2
    <3> QED BY <3>1, <3>2, <3>3 DEF Left
  <2> QED BY <2>1, <2>2, ShapeKept DEF Shape
<1>5. CASE PersonAnswers
  <2>1. UNCHANGED <<calls, done, upto, prep, pc, out, mcp>> BY <1>5 DEF PersonAnswers, talk, span, hosts, step
  <2>2. left' \in Left
    <3>1. left.answers > 0 /\ left' = [left EXCEPT !.answers = @ - 1] BY <1>5 DEF PersonAnswers
    <3>2. left \in Left /\ left.answers \in Nat BY DEF Shape, Left
    <3>3. left.answers - 1 \in Nat BY <3>1, <3>2
    <3> QED BY <3>1, <3>2, <3>3 DEF Left
  <2> QED BY <2>1, <2>2, ShapeKept DEF Shape
<1>6. CASE PersonLeaves
  <2>1. UNCHANGED <<calls, done, upto, prep, pc, out, left, mcp>>
    BY <1>6 DEF PersonLeaves, talk, span, hosts, world, step
  <2> QED BY <2>1, ShapeKept DEF Shape
<1> QED BY <1>1, <1>2, <1>3, <1>4, <1>5, <1>6

(* The calls of a reply, in groups *)
LEMMA ShapeGroups ==
    ASSUME Shape, Reply \/ NextGroup \/ EndBatch
    PROVE  Shape'
<1>1. CASE Reply
  <2>1. /\ left.replies \in Seq(Seq(Call)) /\ left.replies # <<>> /\ done = Len(calls) /\ pc = "idle"
        /\ pc' = "group" /\ UNCHANGED <<done, upto, prep, out, mcp>>
        /\ calls' = calls \o Head(left.replies)
        /\ left' = [left EXCEPT !.replies = Tail(@)]
    BY <1>1 DEF Reply, Shape, Left, span, hosts
  <2>2. Head(left.replies) \in Seq(Call) /\ Tail(left.replies) \in Seq(Seq(Call))
    BY <2>1, HeadTailProperties
  <2>3. left' \in Left BY <2>1, <2>2 DEF Shape, Left
  <2>4. calls' \in Seq(Call) /\ Len(calls') = Len(calls) + Len(Head(left.replies))
    BY <2>1, <2>2, ConcatProperties DEF Shape
  <2>5. Len(calls) \in Nat /\ Len(Head(left.replies)) \in Nat BY <2>2, LenProperties DEF Shape
  <2>6. done' <= Len(calls') BY <2>1, <2>4, <2>5
  <2>7. Waits' /\ \A k \in Layers : out'[k] = <<>> BY <2>1 DEF Shape, Waits
  <2>8. pc' \in Stops /\ pc' \notin Grouped /\ pc' # "run" /\ pc' # "idle"
    BY <2>1 DEF Stops, Grouped, Preparing
  <2> QED BY <2>1, <2>3, <2>4, <2>6, <2>7, <2>8 DEF Shape
<1>2. CASE NextGroup
  <2>1. /\ pc = "group" /\ done < Len(calls) /\ upto' = GroupEnd(done + 1) /\ pc' = "prepare"
        /\ prep' = <<>> /\ out' = [k \in Layers |-> <<>>] /\ UNCHANGED <<calls, done, left, mcp>>
    BY <1>2 DEF NextGroup, talk, hosts, world
  <2>2. upto' \in done + 1..Len(calls) /\ Alone(upto') BY <2>1, GroupEndIs DEF Shape
  <2>3. Len(calls) \in Nat /\ done \in Nat BY LenProperties DEF Shape
  <2>4. upto' \in Nat /\ done < upto' /\ upto' <= Len(calls) BY <2>2, <2>3
  <2>5. Alone(upto)' BY <2>1, <2>2 DEF Alone
  <2>6. prep' \in Seq(Decision) /\ Len(prep') = 0 BY <2>1, EmptySeq
  <2>7. OpenGroup' BY <2>1, <2>3, <2>4, <2>5, <2>6 DEF OpenGroup
  <2>8. Waits' BY <2>1 DEF Shape, Waits
  <2> QED BY <2>1, <2>4, <2>6, <2>7, <2>8 DEF Shape, Stops, Grouped, Preparing
<1>3. CASE EndBatch
  <2>1. /\ pc = "group" /\ done = Len(calls) /\ pc' = "idle"
        /\ UNCHANGED <<calls, done, upto, prep, out, left, mcp>>
    BY <1>3 DEF EndBatch, talk, span, hosts, world
  <2>2. Waits' BY <2>1 DEF Shape, Waits
  <2> QED BY <2>1, <2>2 DEF Shape, Stops, Grouped, Preparing
<1> QED BY <1>1, <1>2, <1>3

LEMMA Ok == [ok |-> FALSE, obj |-> "none"] \in Decision
            /\ \A o \in {"none", "own"} : [ok |-> TRUE, obj |-> o] \in Decision
<1> QED BY DEF Decision

LEMMA ShapeRefused ==
    ASSUME Shape, pc \in Preparing, Refused \/ Ready, left' \in Left,
           UNCHANGED <<calls, done, upto, out, mcp>>
    PROVE  Shape'
<1>1. CASE Refused BY <1>1, Ok, ShapeDecided DEF Refused
<1>2. CASE Ready
  <2>1. PICK o \in {"none", "own"} : o = IF HasPath(TheCall) THEN "own" ELSE "none" OBVIOUS
  <2>2. prep' = Append(prep, [ok |-> TRUE, obj |-> o]) /\ pc' = AfterPrepare BY <1>2, <2>1 DEF Ready
  <2> QED BY <2>2, Ok, ShapeDecided
<1> QED BY <1>1, <1>2

(* A call is prepared *)
LEMMA ShapePrepared ==
    ASSUME Shape, Prepare \/ WalkDir \/ WalkFile \/ Decide \/ Prompt \/ Answered \/ HungUp
    PROVE  Shape'
<1> USE DEF talk, span, world, hosts
<1>1. CASE Prepare
  <2>1. pc \in Preparing /\ UNCHANGED <<calls, done, upto, out, mcp, left>>
    BY <1>1 DEF Prepare, Preparing
  <2>2. Refused \/ (pc' \in Preparing /\ prep' = prep) BY <1>1 DEF Prepare, Preparing
  <2> QED BY <2>1, <2>2, ShapeRefused, ShapeMoves DEF Shape
<1>2. CASE WalkDir
  <2>1. pc \in Preparing /\ UNCHANGED <<calls, done, upto, out, mcp, left>>
    BY <1>2 DEF WalkDir, Preparing
  <2>2. Refused \/ (pc' \in Preparing /\ prep' = prep) BY <1>2 DEF WalkDir, Preparing
  <2> QED BY <2>1, <2>2, ShapeRefused, ShapeMoves DEF Shape
<1>3. CASE WalkFile
  <2>1. pc \in Preparing /\ UNCHANGED <<calls, done, upto, out, mcp, left>>
    BY <1>3 DEF WalkFile, Preparing
  <2>2. Refused \/ (pc' \in Preparing /\ prep' = prep) BY <1>3 DEF WalkFile, Preparing
  <2> QED BY <2>1, <2>2, ShapeRefused, ShapeMoves DEF Shape
<1>4. CASE Decide
  <2>1. pc \in Preparing /\ UNCHANGED <<calls, done, upto, out, mcp, left>>
    BY <1>4 DEF Decide, Preparing
  <2>2. Refused \/ Ready \/ (pc' \in Preparing /\ prep' = prep) BY <1>4 DEF Decide, Preparing
  <2> QED BY <2>1, <2>2, ShapeRefused, ShapeMoves DEF Shape
<1>5. CASE Prompt
  <2>1. pc \in Preparing /\ UNCHANGED <<calls, done, upto, out, mcp, left>>
    BY <1>5 DEF Prompt, Preparing
  <2>2. Refused \/ (pc' \in Preparing /\ prep' = prep) BY <1>5 DEF Prompt, Preparing
  <2> QED BY <2>1, <2>2, ShapeRefused, ShapeMoves DEF Shape
<1>6. CASE Answered
  <2>1. pc \in Preparing /\ UNCHANGED <<calls, done, upto, out, mcp, left>>
    BY <1>6 DEF Answered, Preparing
  <2>2. Refused \/ Ready BY <1>6 DEF Answered
  <2> QED BY <2>1, <2>2, ShapeRefused DEF Shape
<1>7. CASE HungUp
  <2>1. pc \in Preparing /\ UNCHANGED <<calls, done, upto, out, mcp, left>>
    BY <1>7 DEF HungUp, Preparing
  <2>2. Refused BY <1>7 DEF HungUp
  <2> QED BY <2>1, <2>2, ShapeRefused DEF Shape
<1> QED BY <1>1, <1>2, <1>3, <1>4, <1>5, <1>6, <1>7

(* A group is carried out *)
LEMMA ShapeRuns ==
    ASSUME Shape,
           \/ Open \/ Recall \/ McpAsks \/ McpGoesOn \/ McpAnswered \/ McpFails
           \/ \E n \in DOMAIN out[0] : FileTool(n) \/ BashStarts(n) \/ BashEnds(n)
                                       \/ WebAsks(n) \/ WebTalks(n)
    PROVE  Shape'
<1> USE DEF talk, span, step, world
<1>1. CASE Open
  <2>1. /\ pc = "run" /\ UNCHANGED <<calls, done, upto, prep, pc, left, mcp>>
        /\ out' = [out EXCEPT ![0] = [n \in DOMAIN ItemsOf(0) |-> NoOut]]
    BY <1>1 DEF Open, Started, hosts
  <2>2. Slots /\ DOMAIN out = Layers /\ 0 \in Layers BY <2>1 DEF Shape, Layers
  <2> DEFINE f == [n \in DOMAIN ItemsOf(0) |-> NoOut]
  <2>3. Len(ItemsOf(0)) \in Nat /\ DOMAIN ItemsOf(0) = 1..Len(ItemsOf(0)) BY ItemsAre DEF Shape
  <2>4. DOMAIN f = 1..Len(ItemsOf(0)) /\ f = [n \in 1..Len(ItemsOf(0)) |-> f[n]] BY <2>3
  <2>5. out'[0] = f /\ DOMAIN out' = Layers /\ \A k \in Layers : k # 0 => out'[k] = out[k]
    BY <2>1, <2>2
  <2> HIDE DEF f
  <2>6. IsSeq(f) /\ Len(f) = Len(ItemsOf(0)) BY <2>3, <2>4, ListIs
  <2>7. \A k : ItemsOf(k)' = ItemsOf(k) BY <2>1, ItemsStay
  <2>8. \A k \in Layers : IsSeq(out'[k]) /\ Len(out'[k]) <= Len(ItemsOf(k))
    BY <2>2, <2>3, <2>5, <2>6 DEF Slots
  <2>9. Slots' BY <2>5, <2>6, <2>7, <2>8 DEF Slots
  <2>10. Waits'
    <3>1. McpLayer \in Layers /\ McpLayer # 0 BY DEF McpLayer, Layers
    <3> QED BY <2>1, <2>5, <2>7, <3>1 DEF Shape, Waits
  <2>11. OpenGroup' BY <2>1 DEF Shape, OpenGroup, Grouped, Alone, Preparing
  <2> QED BY <2>1, <2>5, <2>9, <2>10, <2>11 DEF Shape
<1>2. CASE Recall
  <2>1. /\ pc = "run" /\ UNCHANGED <<calls, done, upto, prep, pc, left, mcp>>
        /\ Len(out[1]) < Len(ItemsOf(1))
    BY <1>2 DEF Recall, Started, hosts
  <2>2. PICK d \in Docs \cup {NoDoc} :
           out' = [out EXCEPT ![1] = Append(@, IF d = NoDoc THEN Fact(NextOf(1)) ELSE Text(NextOf(1), d))]
    BY <1>2 DEF Recall
  <2>3. 1 \in Layers \ {0} /\ 1 # McpLayer BY DEF Layers, McpLayer
  <2> QED BY <2>1, <2>2, <2>3, ShapeServed DEF Shape
<1>3. CASE McpAsks
  <2>1. /\ pc = "run" /\ UNCHANGED <<calls, done, upto, prep, pc, left, out>>
        /\ Len(out[McpLayer]) < Len(ItemsOf(McpLayer)) /\ mcp' = Sent
    BY <1>3 DEF McpAsks, Started
  <2>2. McpIs(mcp')
    <3>1. McpIs(mcp) BY DEF Shape
    <3>2. mcp'.id = mcp.id + 1 BY <2>1, <3>1 DEF McpIs, Sent
    <3>3. mcp.id + 1 \in Nat BY <3>1 DEF McpIs
    <3>4. mcp' = [phase |-> "top", id |-> mcp.id + 1, late |-> FALSE, lines |-> mcp.lines,
                  owed |-> mcp.owed \cup {mcp.id + 1}, alive |-> mcp.alive, notes |-> mcp.notes]
      BY <2>1, <3>1 DEF McpIs, Sent
    <3> QED BY <3>2, <3>3, <3>4 DEF McpIs
  <2>3. \A k : ItemsOf(k)' = ItemsOf(k) BY <2>1, ItemsStay
  <2>4. Waits' BY <2>1, <2>3 DEF Waits
  <2>5. Slots' BY <2>1, <2>3 DEF Slots, Shape
  <2>6. OpenGroup' BY <2>1 DEF Shape, OpenGroup, Grouped, Alone, Preparing
  <2> QED BY <2>1, <2>2, <2>4, <2>5, <2>6 DEF Shape
<1>4. CASE McpGoesOn
  <2>1. UNCHANGED <<calls, done, upto, prep, pc, left, out>> /\ (Blocks \/ Skip)
    BY <1>4 DEF McpGoesOn
  <2>2. McpIs(mcp') /\ mcp.phase # "rest"
    BY <2>1 DEF Shape, McpIs, Blocks, AtTop, Skip, Arrived
  <2> QED BY <2>1, <2>2, ShapeKept DEF Shape
<1>5. ASSUME McpAnswered \/ McpFails PROVE Shape'
  <2>1. UNCHANGED <<calls, done, upto, prep, pc, left>> /\ mcp.phase # "rest"
    BY <1>5 DEF McpAnswered, McpFails, Taken, Arrived, TimedOut, AtTop, Closed
  <2>2. mcp' = AfterTaken \/ mcp' = AfterError BY <1>5 DEF McpAnswered, McpFails
  <2>3. McpIs(mcp') /\ mcp'.phase = "rest" BY <2>2 DEF Shape, McpIs, AfterTaken, AfterError
  <2>4. PICK o : out' = [out EXCEPT ![McpLayer] = Append(@, o)]
    <3>1. CASE McpAnswered
      <4> DEFINE i == seen.asked[Head(mcp.lines).id - 2]
                 said(d) == [of |-> i, class |-> Observed, kind |-> "server words", doc |-> d]
      <4>1. \E d \in Docs : Served(Text(i, d)) \/ Served(said(d)) BY <3>1 DEF McpAnswered
      <4>2. PICK d \in Docs : Served(Text(i, d)) \/ Served(said(d)) BY <4>1
      <4> HIDE DEF i, said
      <4> QED BY <4>2 DEF Served
    <3>2. CASE McpFails BY <3>2 DEF McpFails, Served
    <3> QED BY <1>5, <3>1, <3>2
  <2>5. McpLayer \in Layers \ {0} BY DEF McpLayer, Layers
  <2> QED BY <2>1, <2>3, <2>4, <2>5, ShapeServed DEF Shape, Waits
<1>6. ASSUME NEW n \in DOMAIN out[0], FileTool(n) \/ BashEnds(n) PROVE Shape'
  <2>1. UNCHANGED <<calls, done, upto, prep, pc, left, mcp>>
    BY <1>6 DEF FileTool, BashEnds, hosts
  <2>2. PICK o : Filled(n, o)
    <3>1. CASE FileTool(n)
      BY <3>1 DEF FileTool, WriteFile, EditFile, ReadFile, GlobFiles, GrepFiles, ReadRef, NoAddress
    <3>2. CASE BashEnds(n) BY <3>2 DEF BashEnds
    <3> QED BY <1>6, <3>1, <3>2
  <2> QED BY <2>1, <2>2, ShapeFilled
<1>7. ASSUME NEW n \in DOMAIN out[0], BashStarts(n) \/ WebAsks(n) PROVE Shape'
  <2>1. UNCHANGED <<calls, done, upto, prep, pc, out, left, mcp>>
    BY <1>7 DEF BashStarts, WebAsks, hosts
  <2> QED BY <2>1, ShapeKept DEF Shape
<1>8. ASSUME NEW n \in DOMAIN out[0], WebTalks(n) PROVE Shape'
  <2>1. UNCHANGED <<calls, done, upto, prep, pc, left, mcp>> BY <1>8 DEF WebTalks
  <2>2. (\E o : Filled(n, o)) \/ out' = out
    <3> DEFINE i == ItemsOf(0)[n]
               r == net.work[i].answer
    <3>1. \/ UNCHANGED <<out, store, seen>> \/ Filled(n, Failure(i))
          \/ Filled(n, Answered_(Failure(i), i)) \/ WebReads(n, i, r)
      BY <1>8 DEF WebTalks
    <3>2. ASSUME WebReads(n, i, r) PROVE \E o : Filled(n, o) BY <3>2 DEF WebReads
    <3> HIDE DEF i, r
    <3> QED BY <3>1, <3>2
  <2>3. out' = out => Shape' BY <2>1, ShapeKept DEF Shape
  <2> QED BY <2>1, <2>2, <2>3, ShapeFilled
<1> QED BY <1>1, <1>2, <1>3, <1>4, <1>5, <1>6, <1>7, <1>8

(* The outcomes go into the conversation *)
LEMMA ShapeEnds ==
    ASSUME Shape, Fold \/ AllCached \/ NoBudget \/ ReadUnderQuarantine \/ ReaderFails
    PROVE  Shape'
<1>1. CASE Fold
  <2>1. /\ pc = "run" /\ AllServed /\ done' = upto /\ pc' \in {"group", "condense"}
        /\ prep' = <<>> /\ out' = [k \in Layers |-> <<>>] /\ UNCHANGED <<calls, upto, left, mcp>>
    BY <1>1 DEF Fold, world, hosts
  <2>2. mcp.phase = "rest"
    <3>1. Len(out[McpLayer]) = Len(ItemsOf(McpLayer)) BY <2>1 DEF AllServed, Started, McpLayer, Layers
    <3>2. Len(ItemsOf(McpLayer)) \in Nat BY ItemsAre DEF Shape
    <3> QED BY <3>1, <3>2 DEF Shape, Waits
  <2>3. Waits' BY <2>1, <2>2 DEF Waits
  <2>4. upto <= Len(calls) BY <2>1 DEF Shape, OpenGroup, Grouped
  <2> QED BY <2>1, <2>3, <2>4, EmptySeq DEF Shape, Stops, Grouped, Preparing
<1>2. ASSUME AllCached \/ NoBudget \/ ReadUnderQuarantine \/ ReaderFails PROVE Shape'
  <2>1. PICK notes : pc = "condense" /\ Push(notes)
    BY <1>2 DEF AllCached, NoBudget, ReadUnderQuarantine, ReaderFails
  <2>2. /\ pc' \in {"group", "condense"} /\ UNCHANGED <<calls, done, upto, prep, out, left, mcp>>
    BY <2>1 DEF Push, span, world, hosts
  <2>3. Waits' BY <2>1, <2>2 DEF Shape, Waits
  <2> QED BY <2>1, <2>2, <2>3 DEF Shape, Stops, Grouped, Preparing
<1> QED BY <1>1, <1>2

LEMMA ShapeStep == Shape /\ [Next]_vars => Shape'
<1> SUFFICES ASSUME Shape, [Next]_vars PROVE Shape' OBVIOUS
<1>1. CASE Reply BY <1>1, ShapeGroups
<1>2. CASE Loop
  BY <1>2, ShapeGroups, ShapePrepared, ShapeRuns, ShapeEnds DEF Loop
<1>3. CASE Shell_ \/ McpServer \/ Sites \/ Swap \/ PersonAnswers \/ PersonLeaves
  BY <1>3, ShapeOutside
<1>4. CASE UNCHANGED vars
  <2>1. UNCHANGED <<calls, done, upto, prep, pc, out, left, mcp>>
    BY <1>4 DEF vars, talk, span, step, world, hosts
  <2> QED BY <2>1, ShapeKept DEF Shape
<1> QED BY <1>1, <1>2, <1>3, <1>4 DEF Next

-----------------------------------------------------------------------------
(* What is carried out was allowed *)

Line_ == [d : Nat, yes : BOOLEAN]
Gate  == [decision : Nat, of : Seq(Nat), lines : Seq(Line_), up : BOOLEAN, yes : SUBSET Nat,
          reason : Nat]
SeenIs(s) == s = [doc |-> s.doc, acts |-> s.acts, touched |-> s.touched, made |-> s.made,
                  why |-> s.why, asked |-> s.asked, read |-> s.read]
EgressIs(e) == e = [mode |-> e.mode, hosts |-> e.hosts]

(* Call `i` passed the rules under the floor `f` *)
Allowed(i, f) ==
    LET c == calls[i]
    IN /\ Registered(c) /\ c.tool \in Exposed /\ ~UntrustedTarget(c, f)
       /\ Of(c).level = Irreversible => Consented(i)
       /\ NeedsHost(c) => /\ c.host \in Of(c).hosts
                          /\ Grants(FirstEgress, c.host) \/ HostConsented(c.host)

SoFar  == pc \in Grouped => \A n \in DOMAIN prep : prep[n].ok => Allowed(done + n, floor)
Passed == /\ pc \in {"dir", "file", "decide", "prompt", "await"} =>
                Registered(TheCall) /\ ~BlockedFirst(TheCall, floor)
          /\ pc \in {"prompt", "await"} => ~EgressBlocked(egress, TheCall)

(* A yes in the socket is the person's, to a prompt that was shown for one call *)
Asked == /\ Len(gate.of) = gate.decision
         /\ \A n \in DOMAIN gate.lines : gate.lines[n].yes => gate.lines[n].d \in gate.yes
         /\ \A d \in gate.yes : d \in DOMAIN gate.of
         /\ pc = "await" => gate.decision > 0 /\ gate.of[gate.decision] = Current

Hosted == /\ egress.mode = FirstEgress.mode
          /\ \A h \in egress.hosts : h \in FirstEgress.hosts \/ HostConsented(h)

Deeds == /\ \A a \in seen.acts : a.of \in DOMAIN calls /\ Allowed(a.of, a.floor) /\ ~Overtakes(a)
         /\ "outside" \notin seen.touched
         /\ \A m \in seen.made : m.of \in DOMAIN calls /\ ~UntrustedTarget(calls[m.of], m.floor)

Leave == /\ gate \in Gate /\ SeenIs(seen) /\ EgressIs(egress)
         /\ SoFar /\ Passed /\ Asked /\ Hosted /\ Deeds

LEMMA LeaveMeans == Leave => ActsOnlyWithLeave
<1> QED BY DEF Leave, Deeds, Allowed, ActsOnlyWithLeave, Permitted

LEMMA LeaveInit == Init => Leave
<1> SUFFICES ASSUME Init PROVE Leave OBVIOUS
<1>1. gate \in Gate BY EmptySeq DEF Init, Gate
<1>2. SeenIs(seen) BY DEF Init, SeenIs
<1>3. EgressIs(egress) /\ Hosted BY BatchAssumption DEF Init, EgressIs, Egress, Hosted
<1>4. Asked
  <2>1. gate.decision = 0 /\ gate.of = <<>> /\ gate.lines = <<>> /\ gate.yes = {} BY DEF Init
  <2> QED BY <2>1, NoneIs DEF Init, Asked
<1>5. SoFar /\ Passed BY DEF Init, SoFar, Passed, Grouped, Preparing
<1>6. Deeds BY DEF Init, Deeds
<1> QED BY <1>1, <1>2, <1>3, <1>4, <1>5, <1>6 DEF Leave

(* What was allowed stays allowed: calls are only added, and a yes is not taken back *)
LEMMA StaysAllowed ==
    ASSUME \A i \in DOMAIN calls : i \in DOMAIN calls' /\ calls'[i] = calls[i],
           \A d \in gate.yes : d \in gate'.yes /\ gate'.of[d] = gate.of[d]
    PROVE  /\ \A i : Consented(i) => Consented(i)'
           /\ \A h : HostConsented(h) => HostConsented(h)'
           /\ \A j \in DOMAIN calls : \A f : Allowed(j, f) => Allowed(j, f)'
<1>1. ASSUME NEW i, Consented(i) PROVE Consented(i)' BY <1>1 DEF Consented
<1>2. ASSUME NEW h, HostConsented(h) PROVE HostConsented(h)' BY <1>1, <1>2 DEF HostConsented
<1>3. ASSUME NEW i \in DOMAIN calls, NEW f, Allowed(i, f) PROVE Allowed(i, f)'
  <2>1. calls'[i] = calls[i] OBVIOUS
  <2> QED BY <1>1, <1>2, <1>3, <2>1 DEF Allowed
<1> QED BY <1>1, <1>2, <1>3

LEMMA DeedsStay ==
    ASSUME Deeds, Hosted, calls \in Seq(Call), calls' \in Seq(Call),
           \A i \in DOMAIN calls : i \in DOMAIN calls' /\ calls'[i] = calls[i],
           \A d \in gate.yes : d \in gate'.yes /\ gate'.of[d] = gate.of[d]
    PROVE  /\ seen'.acts = seen.acts /\ seen'.touched = seen.touched /\ seen'.made = seen.made => Deeds'
           /\ egress' = egress => Hosted'
<1>1. ASSUME NEW a \in seen.acts
      PROVE  a.of \in DOMAIN calls' /\ Allowed(a.of, a.floor)' /\ ~Overtakes(a)'
  <2>1. a.of \in DOMAIN calls /\ Allowed(a.of, a.floor) /\ ~Overtakes(a) BY DEF Deeds
  <2>2. Allowed(a.of, a.floor)' BY <2>1, StaysAllowed
  <2>3. DOMAIN calls = 1..Len(calls) /\ Len(calls) \in Nat BY LenProperties
  <2>4. \A j \in 1..a.of - 1 : calls'[j] = calls[j] /\ calls'[a.of] = calls[a.of]
    <3>1. TAKE j \in 1..a.of - 1
    <3>2. j \in DOMAIN calls BY <2>1, <2>3
    <3> QED BY <2>1, <3>2
  <2>5. ~Overtakes(a)' BY <2>1, <2>4 DEF Overtakes
  <2> QED BY <2>1, <2>2, <2>5
<1>2. \A m \in seen.made : m.of \in DOMAIN calls' /\ ~UntrustedTarget(calls'[m.of], m.floor) BY DEF Deeds
<1>3. "outside" \notin seen.touched BY DEF Deeds
<1>4. \A h : HostConsented(h) => HostConsented(h)' BY StaysAllowed
<1>5. egress' = egress => Hosted' BY <1>4 DEF Hosted
<1>6. ASSUME seen'.acts = seen.acts /\ seen'.touched = seen.touched /\ seen'.made = seen.made PROVE Deeds'
  <2>1. \A a \in seen'.acts : a.of \in DOMAIN calls' /\ Allowed(a.of, a.floor)' /\ ~Overtakes(a)' BY <1>1, <1>6
  <2> QED BY <1>2, <1>3, <1>6, <2>1 DEF Deeds
<1> QED BY <1>5, <1>6

LEMMA StillAllowed ==
    ASSUME Shape, Leave, pc \in Grouped, UNCHANGED <<calls, done, floor>>,
           \A j \in DOMAIN calls : \A f : Allowed(j, f) => Allowed(j, f)'
    PROVE  \A n \in DOMAIN prep : prep[n].ok => Allowed(done + n, floor)'
<1>1. SUFFICES ASSUME NEW n \in DOMAIN prep, prep[n].ok PROVE Allowed(done + n, floor)' OBVIOUS
<1>2. Allowed(done + n, floor) BY <1>1 DEF Leave, SoFar
<1>3. done + n \in DOMAIN calls
  <2>1. DOMAIN prep = 1..Len(prep) /\ Len(prep) \in Nat /\ DOMAIN calls = 1..Len(calls)
        /\ Len(calls) \in Nat
    BY LenProperties DEF Shape
  <2>2. done \in Nat /\ upto \in Nat /\ upto <= Len(calls) BY DEF Shape, OpenGroup
  <2>3. done + Len(prep) < upto \/ done + Len(prep) = upto BY DEF Shape, OpenGroup, Grouped
  <2> QED BY <2>1, <2>2, <2>3
<1> QED BY <1>2, <1>3

(* Nothing is decided: what is done is all that can change *)
LEMMA LeaveFrame ==
    ASSUME Shape, Leave, UNCHANGED <<pc, calls, done, upto, prep, floor, egress>>,
           gate' \in Gate, Asked', \A d \in gate.yes : d \in gate'.yes /\ gate'.of[d] = gate.of[d],
           SeenIs(seen'),
           Deeds' \/ (seen'.acts = seen.acts /\ seen'.touched = seen.touched /\ seen'.made = seen.made)
    PROVE  Leave'
<1>1. Deeds' /\ Hosted' BY DeedsStay DEF Leave, Shape
<1>2. \A j \in DOMAIN calls : \A f : Allowed(j, f) => Allowed(j, f)' BY StaysAllowed
<1>3. SoFar'
  <2>1. pc \in Grouped => \A n \in DOMAIN prep : prep[n].ok => Allowed(done + n, floor)'
    BY <1>2, StillAllowed
  <2> QED BY <2>1 DEF SoFar
<1>4. Passed'
  <2>1. TheCall' = TheCall BY DEF TheCall, Current
  <2>2. \A c : EgressBlocked(egress, c)' = EgressBlocked(egress, c) BY DEF EgressBlocked, Permits, Grants, MayAsk, NeedsHost
  <2> QED BY <2>1, <2>2 DEF Leave, Passed
<1> QED BY <1>1, <1>3, <1>4 DEF Leave

LEMMA LeaveKept ==
    ASSUME Shape, Leave, UNCHANGED <<pc, calls, done, upto, prep, floor, egress, gate>>,
           SeenIs(seen'),
           Deeds' \/ (seen'.acts = seen.acts /\ seen'.touched = seen.touched /\ seen'.made = seen.made)
    PROVE  Leave'
<1>1. Asked' BY DEF Leave, Asked, Current
<1> QED BY <1>1, LeaveFrame DEF Leave

(* An item is carried out: it was allowed, and it overtakes nothing *)
LEMMA LeaveActs ==
    ASSUME Shape, Leave, pc = "run", UNCHANGED <<pc, calls, done, upto, prep, floor, egress, gate>>,
           NEW i \in Cleared, NEW obj, obj # "outside",
           SeenIs(seen'), seen'.made = seen.made,
           seen'.acts = Acted(i, obj).acts, seen'.touched = Acted(i, obj).touched
    PROVE  Leave'
<1> DEFINE a == [of |-> i, floor |-> floor, answered |-> done]
<1>1. /\ SeenIs(seen) /\ seen'.acts = seen.acts \cup {a} /\ seen'.touched = seen.touched \cup ({obj} \ {"none"})
  <2>1. SeenIs(seen) BY DEF Leave
  <2> QED BY <2>1 DEF SeenIs, Acted
<1>2. i \in done + 1..upto /\ prep[i - done].ok BY DEF Cleared, Group
<1>3. /\ done \in Nat /\ upto \in Nat /\ upto <= Len(calls) /\ Len(calls) \in Nat
      /\ DOMAIN calls = 1..Len(calls) /\ DOMAIN prep = 1..Len(prep) /\ done + Len(prep) = upto
      /\ Len(prep) \in Nat /\ Alone(upto)
  BY LenProperties DEF Shape, OpenGroup, Grouped
<1>4. i \in DOMAIN calls /\ i - done \in DOMAIN prep /\ done + (i - done) = i /\ i \in Nat BY <1>2, <1>3
<1>5. Allowed(i, floor)
  <2>1. Allowed(done + (i - done), floor) BY <1>2, <1>4 DEF Leave, SoFar, Grouped
  <2> QED BY <1>4, <2>1
<1>6. ~Overtakes(a)
  <2>1. SUFFICES ASSUME NEW j \in 1..i - 1, ~IsInert(calls[j]) \/ ~IsInert(calls[i]), j > done PROVE FALSE
    BY DEF Overtakes
  <2>2. j \in done + 1..upto /\ upto # done + 1 BY <1>2, <1>3, <1>4, <2>1
  <2> QED BY <1>2, <1>3, <2>1, <2>2 DEF Alone
<1> HIDE DEF a
<1>7. Deeds'
  <2>1. a.of = i /\ a.floor = floor BY DEF a
  <2>2. \A b \in seen.acts \cup {a} : b.of \in DOMAIN calls /\ Allowed(b.of, b.floor) /\ ~Overtakes(b)
    BY <1>4, <1>5, <1>6, <2>1 DEF Leave, Deeds
  <2>3. \A b : Allowed(b.of, b.floor)' = Allowed(b.of, b.floor) /\ Overtakes(b)' = Overtakes(b)
    <3>1. \A k : Consented(k)' = Consented(k) BY DEF Consented
    <3>2. \A h : HostConsented(h)' = HostConsented(h) BY <3>1 DEF HostConsented
    <3> QED BY <3>1, <3>2 DEF Allowed, Overtakes
  <2>4. \A b \in seen'.acts : b.of \in DOMAIN calls' /\ Allowed(b.of, b.floor)' /\ ~Overtakes(b)'
    BY <1>1, <2>2, <2>3
  <2>5. "outside" \notin seen'.touched BY <1>1 DEF Leave, Deeds
  <2>6. \A m \in seen'.made : m.of \in DOMAIN calls' /\ ~UntrustedTarget(calls'[m.of], m.floor)
    BY DEF Leave, Deeds
  <2> QED BY <2>4, <2>5, <2>6 DEF Deeds
<1> QED BY <1>7, LeaveKept

(* The person and the world around the loop *)
LEMMA LeaveOutside ==
    ASSUME Shape, Leave, Shell_ \/ McpServer \/ Sites \/ Swap \/ PersonAnswers \/ PersonLeaves
    PROVE  Leave'
<1> USE DEF talk, span, world, step
<1>1. SeenIs(seen) /\ gate \in Gate /\ Asked BY DEF Leave
<1>2. CASE Shell_ \/ McpServer \/ Sites \/ Swap
  <2>1. UNCHANGED <<pc, calls, done, upto, prep, floor, egress, gate, seen>>
    BY <1>2 DEF Shell_, McpServer, Sites, Swap
  <2> QED BY <1>1, <2>1, LeaveKept
<1>3. CASE PersonAnswers
  <2>1. UNCHANGED <<pc, calls, done, upto, prep, floor, egress, seen>> BY <1>3 DEF PersonAnswers
  <2>2. PICK d \in 1..gate.decision :
          \E yes \in BOOLEAN : gate' = [gate EXCEPT !.lines = Append(@, [d |-> d, yes |-> yes]),
                                                    !.yes = IF yes THEN @ \cup {d} ELSE @]
    BY <1>3 DEF PersonAnswers
  <2>3. PICK yes \in BOOLEAN : gate' = [gate EXCEPT !.lines = Append(@, [d |-> d, yes |-> yes]),
                                                    !.yes = IF yes THEN @ \cup {d} ELSE @]
    BY <2>2
  <2> DEFINE l == [d |-> d, yes |-> yes]
  <2>4. gate.decision \in Nat /\ gate.of \in Seq(Nat) /\ gate.lines \in Seq(Line_) /\ gate.yes \subseteq Nat
    BY <1>1 DEF Gate
  <2>5. d \in Nat /\ l \in Line_ /\ l.d = d /\ l.yes = yes BY <2>4 DEF Line_
  <2>6. /\ gate'.decision = gate.decision /\ gate'.of = gate.of /\ gate'.lines = Append(gate.lines, l)
        /\ gate'.yes = (IF yes THEN gate.yes \cup {d} ELSE gate.yes)
        /\ gate' = [decision |-> gate.decision, of |-> gate.of, lines |-> Append(gate.lines, l),
                    up |-> gate.up, yes |-> gate'.yes, reason |-> gate.reason]
    BY <1>1, <2>3 DEF Gate
  <2> HIDE DEF l
  <2>7. /\ Append(gate.lines, l) \in Seq(Line_) /\ Len(Append(gate.lines, l)) = Len(gate.lines) + 1
        /\ \A n \in 1..Len(gate.lines) : Append(gate.lines, l)[n] = gate.lines[n]
        /\ Append(gate.lines, l)[Len(gate.lines) + 1] = l
    BY <2>4, <2>5, AppendProperties
  <2>8. gate'.yes \subseteq Nat BY <2>4, <2>5, <2>6
  <2>9. gate' \in Gate
    <3>1. gate.up \in BOOLEAN /\ gate.reason \in Nat BY <1>1 DEF Gate
    <3>2. \A y \in SUBSET Nat, s \in Seq(Line_) :
             [decision |-> gate.decision, of |-> gate.of, lines |-> s,
              up |-> gate.up, yes |-> y, reason |-> gate.reason] \in Gate
      BY <2>4, <3>1 DEF Gate
    <3> QED BY <2>6, <2>7, <2>8, <3>2
  <2>10. \A x \in gate.yes : x \in gate'.yes /\ gate'.of[x] = gate.of[x] BY <2>6
  <2>11. Asked'
    <3>1. \A n \in DOMAIN gate'.lines : gate'.lines[n].yes => gate'.lines[n].d \in gate'.yes
      <4>1. TAKE n \in DOMAIN gate'.lines
      <4>2. DOMAIN gate.lines = 1..Len(gate.lines) /\ Len(gate.lines) \in Nat
            /\ DOMAIN gate'.lines = 1..Len(gate.lines) + 1
        BY <2>4, <2>6, <2>7, LenProperties
      <4>3. CASE n \in DOMAIN gate.lines BY <1>1, <2>6, <2>7, <4>2, <4>3 DEF Asked
      <4>4. CASE n = Len(gate.lines) + 1 BY <2>5, <2>6, <2>7, <4>4
      <4> QED BY <4>2, <4>3, <4>4
    <3>2. \A x \in gate'.yes : x \in DOMAIN gate'.of
      <4>1. DOMAIN gate.of = 1..Len(gate.of) BY <2>4, LenProperties
      <4>2. d \in DOMAIN gate.of BY <1>1, <4>1 DEF Asked
      <4> QED BY <1>1, <2>6, <4>2 DEF Asked
    <3>3. Current' = Current BY <2>1 DEF Current
    <3> QED BY <1>1, <2>1, <2>6, <3>1, <3>2, <3>3 DEF Asked
  <2> QED BY <1>1, <2>1, <2>9, <2>10, <2>11, LeaveFrame
<1>4. CASE PersonLeaves
  <2>1. UNCHANGED <<pc, calls, done, upto, prep, floor, egress, seen>> /\ gate' = [gate EXCEPT !.up = FALSE]
    BY <1>4 DEF PersonLeaves
  <2>2. gate' \in Gate /\ gate'.decision = gate.decision /\ gate'.of = gate.of /\ gate'.lines = gate.lines
        /\ gate'.yes = gate.yes
    BY <1>1, <2>1 DEF Gate
  <2>3. Asked' BY <1>1, <2>1, <2>2 DEF Asked, Current
  <2> QED BY <1>1, <2>1, <2>2, <2>3, LeaveFrame
<1> QED BY <1>2, <1>3, <1>4

LEMMA ActedIs ==
    ASSUME SeenIs(seen), NEW i, NEW obj
    PROVE  /\ SeenIs(Acted(i, obj)) /\ Acted(i, obj).made = seen.made /\ Acted(i, obj).read = seen.read
           /\ Acted(i, obj).doc = seen.doc /\ Acted(i, obj).asked = seen.asked
           /\ Acted(i, obj).acts = seen.acts \cup {[of |-> i, floor |-> floor, answered |-> done]}
           /\ Acted(i, obj).touched = seen.touched \cup ({obj} \ {"none"})
<1> DEFINE acts == seen.acts \cup {[of |-> i, floor |-> floor, answered |-> done]}
           touched == seen.touched \cup ({obj} \ {"none"})
<1>1. Acted(i, obj) = [seen EXCEPT !.acts = acts, !.touched = touched] BY DEF Acted
<1> HIDE DEF acts, touched
<1>2. Acted(i, obj) = [doc |-> seen.doc, acts |-> acts, touched |-> touched, made |-> seen.made,
                       why |-> seen.why, asked |-> seen.asked, read |-> seen.read]
  BY <1>1 DEF SeenIs
<1>3. /\ SeenIs(Acted(i, obj)) /\ Acted(i, obj).made = seen.made /\ Acted(i, obj).read = seen.read
      /\ Acted(i, obj).doc = seen.doc /\ Acted(i, obj).asked = seen.asked
      /\ Acted(i, obj).acts = acts /\ Acted(i, obj).touched = touched
  BY <1>2 DEF SeenIs
<1> QED BY <1>3 DEF acts, touched

LEMMA LearnedIs ==
    ASSUME SeenIs(seen), NEW i, NEW d
    PROVE  /\ SeenIs(Learned(i, d)) /\ Learned(i, d).made = seen.made /\ Learned(i, d).read = seen.read
           /\ Learned(i, d).acts = Acted(i, "none").acts
           /\ Learned(i, d).touched = Acted(i, "none").touched
           /\ Learned(i, d).doc = With(seen.doc, i, d) /\ Learned(i, d).asked = seen.asked
<1> DEFINE a == Acted(i, "none")
<1>1. SeenIs(a) /\ a.made = seen.made /\ a.read = seen.read /\ a.doc = seen.doc /\ a.asked = seen.asked
  BY ActedIs
<1>2. Learned(i, d) = [a EXCEPT !.doc = With(@, i, d)] BY DEF Learned
<1> HIDE DEF a
<1>3. /\ SeenIs(Learned(i, d)) /\ Learned(i, d).made = a.made /\ Learned(i, d).read = a.read
      /\ Learned(i, d).acts = a.acts /\ Learned(i, d).touched = a.touched
      /\ Learned(i, d).doc = With(a.doc, i, d) /\ Learned(i, d).asked = a.asked
  BY <1>1, <1>2 DEF SeenIs
<1> QED BY <1>1, <1>3 DEF a

(* A host carries out an item of its own *)
LEMMA LeaveServes ==
    ASSUME Shape, Leave, UNCHANGED <<pc, calls, done, upto, prep, floor, egress, gate>>,
           NEW k, NEW n \in DOMAIN ItemsOf(k), NEW i, i = ItemsOf(k)[n], pc = "run",
           \/ \E obj : obj # "outside" /\ seen' = Acted(i, obj)
           \/ \E d : seen' = Learned(i, d)
           \/ \E s : seen' = [Acted(i, "none") EXCEPT !.asked = s]
    PROVE  Leave'
<1>1. i \in Cleared BY ItemsAre DEF Shape
<1>2. SeenIs(seen) BY DEF Leave
<1>3. ASSUME NEW obj, obj # "outside", seen' = Acted(i, obj) PROVE Leave'
  <2>1. SeenIs(Acted(i, obj)) /\ Acted(i, obj).made = seen.made BY <1>2, ActedIs
  <2> QED BY <1>1, <1>3, <2>1, LeaveActs
<1>4. ASSUME NEW d, seen' = Learned(i, d) PROVE Leave'
  <2>1. /\ SeenIs(Learned(i, d)) /\ Learned(i, d).made = seen.made
        /\ Learned(i, d).acts = Acted(i, "none").acts /\ Learned(i, d).touched = Acted(i, "none").touched
    BY <1>2, LearnedIs
  <2> QED BY <1>1, <1>4, <2>1, LeaveActs
<1>5. ASSUME NEW s, seen' = [Acted(i, "none") EXCEPT !.asked = s] PROVE Leave'
  <2> DEFINE a == Acted(i, "none")
  <2>1. SeenIs(a) /\ a.made = seen.made BY <1>2, ActedIs
  <2> HIDE DEF a
  <2>2. seen' = [a EXCEPT !.asked = s] BY <1>5 DEF a
  <2>3. SeenIs(seen') /\ seen'.made = a.made /\ seen'.acts = a.acts /\ seen'.touched = a.touched
    BY <2>1, <2>2 DEF SeenIs
  <2>4. seen'.made = seen.made BY <2>1, <2>3
  <2>5. seen'.acts = Acted(i, "none").acts /\ seen'.touched = Acted(i, "none").touched BY <2>3 DEF a
  <2> QED BY <1>1, <2>3, <2>4, <2>5, LeaveActs
<1> QED BY <1>3, <1>4, <1>5

(* A handle is of the workspace, or there is none *)
LEMMA HandleIs ==
    ASSUME Shape, pc = "run", NEW i \in Cleared
    PROVE  Handle(i) # "outside"
<1>1. i \in done + 1..upto BY DEF Cleared, Group
<1>2. /\ done \in Nat /\ upto \in Nat /\ DOMAIN prep = 1..Len(prep) /\ Len(prep) \in Nat
      /\ done + Len(prep) = upto /\ prep \in Seq(Decision)
  BY LenProperties DEF Shape, OpenGroup, Grouped
<1>3. i - done \in 1..Len(prep) BY <1>1, <1>2
<1>4. prep[i - done] \in Decision BY <1>2, <1>3
<1> QED BY <1>4 DEF Decision, Handle

(* A group is carried out: what is done is the items, each by its host *)
LEMMA LeaveRuns ==
    ASSUME Shape, Leave,
           \/ Open \/ Recall \/ McpAsks \/ McpGoesOn \/ McpAnswered \/ McpFails
           \/ \E n \in DOMAIN out[0] : FileTool(n) \/ BashStarts(n) \/ BashEnds(n)
                                       \/ WebAsks(n) \/ WebTalks(n)
    PROVE  Leave'
<1> USE DEF talk, span, step, world, hosts
<1>1. SeenIs(seen) BY DEF Leave
<1>2. ASSUME NEW n \in DOMAIN out[0] PROVE pc = "run" /\ n \in DOMAIN ItemsOf(0)
  <2>2. pc = "run"
    <3>1. SUFFICES ASSUME pc # "run" PROVE FALSE OBVIOUS
    <3>2. out[0] = <<>> BY <3>1 DEF Shape, Layers
    <3> QED BY <1>2, <3>2, NoneIs
  <2>3. Slots /\ 0 \in Layers BY <2>2 DEF Shape, Layers
  <2>4. IsSeq(out[0]) /\ DOMAIN out[0] = 1..Len(out[0]) /\ Len(out[0]) \in Nat BY <2>3, SeqIs DEF Slots
  <2>5. out[0] # <<>> BY <1>2, NoneIs
  <2>6. DOMAIN ItemsOf(0) = 1..Len(ItemsOf(0)) BY ItemsAre DEF Shape
  <2> QED BY <1>2, <2>2, <2>3, <2>4, <2>5, <2>6 DEF Slots
<1>3. ASSUME NEW k \in Layers, pc = "run", Len(out[k]) < Len(ItemsOf(k))
      PROVE  Len(out[k]) + 1 \in DOMAIN ItemsOf(k) /\ NextOf(k) = ItemsOf(k)[Len(out[k]) + 1]
  <2>1. IsSeq(out[k]) BY <1>3 DEF Shape, Slots
  <2>2. Len(out[k]) \in Nat BY <2>1, SeqIs
  <2>3. Len(ItemsOf(k)) \in Nat /\ DOMAIN ItemsOf(k) = 1..Len(ItemsOf(k)) BY ItemsAre DEF Shape
  <2> QED BY <1>3, <2>2, <2>3 DEF NextOf
<1>4. CASE Open
  <2>1. UNCHANGED <<pc, calls, done, upto, prep, floor, egress, gate, seen>> BY <1>4 DEF Open
  <2> QED BY <1>1, <2>1, LeaveKept
<1>5. CASE Recall
  <2>1. UNCHANGED <<pc, calls, done, upto, prep, floor, egress, gate>> /\ pc = "run"
        /\ Len(out[1]) < Len(ItemsOf(1))
    BY <1>5 DEF Recall, Started
  <2>2. \/ seen' = Acted(NextOf(1), "none")
        \/ \E d : seen' = Learned(NextOf(1), d)
    BY <1>5 DEF Recall
  <2>3. 1 \in Layers BY DEF Layers
  <2>4. \E obj : obj = "none" /\ obj # "outside" OBVIOUS
  <2> QED BY <1>3, <2>1, <2>2, <2>3, <2>4, LeaveServes
<1>6. CASE McpAsks
  <2>1. UNCHANGED <<pc, calls, done, upto, prep, floor, egress, gate>> /\ pc = "run"
        /\ Len(out[McpLayer]) < Len(ItemsOf(McpLayer))
    BY <1>6 DEF McpAsks, Started
  <2>2. \E s : seen' = [Acted(NextOf(McpLayer), "none") EXCEPT !.asked = s]
    <3>1. seen' = [Acted(NextOf(McpLayer), "none") EXCEPT !.asked = Append(@, NextOf(McpLayer))]
      BY <1>6 DEF McpAsks
    <3> QED BY <3>1
  <2>3. McpLayer \in Layers BY DEF Layers, McpLayer
  <2>4. /\ Len(out[McpLayer]) + 1 \in DOMAIN ItemsOf(McpLayer)
        /\ NextOf(McpLayer) = ItemsOf(McpLayer)[Len(out[McpLayer]) + 1]
    BY <1>3, <2>1, <2>3
  <2> QED BY <2>1, <2>2, <2>4, LeaveServes
<1>7. CASE McpGoesOn
  <2>1. UNCHANGED <<pc, calls, done, upto, prep, floor, egress, gate, seen>> BY <1>7 DEF McpGoesOn
  <2> QED BY <1>1, <2>1, LeaveKept
<1>8. CASE McpAnswered
  <2>1. UNCHANGED <<pc, calls, done, upto, prep, floor, egress, gate>> BY <1>8 DEF McpAnswered
  <2>2. seen' = seen \/ \E i, d : seen' = [seen EXCEPT !.doc = With(@, i, d)] BY <1>8 DEF McpAnswered
  <2>3. SeenIs(seen') /\ seen'.acts = seen.acts /\ seen'.touched = seen.touched /\ seen'.made = seen.made
    <3>1. seen' = seen \/ \E s : seen' = [seen EXCEPT !.doc = s] BY <2>2
    <3> QED BY <1>1, <3>1 DEF SeenIs
  <2> QED BY <2>1, <2>3, LeaveKept
<1>9. CASE McpFails
  <2>1. UNCHANGED <<pc, calls, done, upto, prep, floor, egress, gate, seen>> BY <1>9 DEF McpFails
  <2> QED BY <1>1, <2>1, LeaveKept
<1>10. ASSUME NEW n \in DOMAIN out[0], FileTool(n) PROVE Leave'
  <2> DEFINE i == ItemsOf(0)[n]
  <2>1. UNCHANGED <<pc, calls, done, upto, prep, floor, egress, gate>> BY <1>10 DEF FileTool
  <2>2. i \in Cleared /\ pc = "run" BY <1>2, ItemsAre DEF Shape
  <2>3. Handle(i) # "outside" BY <2>2, HandleIs
  <2>4. \/ WriteFile(n, i) \/ EditFile(n, i) \/ ReadFile(n, i) \/ GlobFiles(n, i) \/ GrepFiles(n, i)
        \/ ReadRef(n, i) \/ NoAddress(n, i)
    BY <1>10 DEF FileTool
  <2> HIDE DEF i
  <2>5. \/ \E obj : obj # "outside" /\ seen' = Acted(i, obj)
        \/ \E d : seen' = Learned(i, d)
    <3>1. CASE WriteFile(n, i) \/ EditFile(n, i) \/ ReadFile(n, i)
      BY <2>3, <3>1 DEF WriteFile, EditFile, ReadFile
    <3>2. CASE GlobFiles(n, i)
      <4>1. seen' = Acted(i, "names outside") \/ seen' = Acted(i, "own") BY <3>2 DEF GlobFiles
      <4> QED BY <4>1
    <3>3. CASE GrepFiles(n, i)
      <4>1. seen' = Acted(i, "own") \/ seen' = Acted(i, "none") BY <3>3 DEF GrepFiles
      <4> QED BY <4>1
    <3>4. CASE ReadRef(n, i)
      <4>1. seen' = Acted(i, "none") \/ \E d : seen' = Learned(i, d) BY <3>4 DEF ReadRef
      <4> QED BY <4>1
    <3>5. CASE NoAddress(n, i)
      <4>1. seen' = Acted(i, "none") BY <3>5 DEF NoAddress
      <4> QED BY <4>1
    <3> QED BY <2>4, <3>1, <3>2, <3>3, <3>4, <3>5
  <2> QED BY <1>2, <2>1, <2>5, LeaveServes DEF i
<1>11. ASSUME NEW n \in DOMAIN out[0], BashStarts(n) \/ WebAsks(n) PROVE Leave'
  <2>1. UNCHANGED <<pc, calls, done, upto, prep, floor, egress, gate>>
    BY <1>11 DEF BashStarts, WebAsks
  <2>2. seen' = Acted(ItemsOf(0)[n], "none") BY <1>11 DEF BashStarts, WebAsks
  <2>3. \E obj : obj # "outside" /\ seen' = Acted(ItemsOf(0)[n], obj) BY <2>2
  <2> QED BY <1>2, <2>1, <2>3, LeaveServes
<1>12. ASSUME NEW n \in DOMAIN out[0], BashEnds(n) PROVE Leave'
  <2>1. UNCHANGED <<pc, calls, done, upto, prep, floor, egress, gate, seen>> BY <1>12 DEF BashEnds
  <2> QED BY <1>1, <2>1, LeaveKept
<1>13. ASSUME NEW n \in DOMAIN out[0], WebTalks(n) PROVE Leave'
  <2>1. UNCHANGED <<pc, calls, done, upto, prep, floor, egress, gate>> BY <1>13 DEF WebTalks
  <2>2. seen' = seen \/ \E more : seen' = [seen EXCEPT !.read = @ \cup more]
    BY <1>13 DEF WebTalks, WebReads
  <2>3. SeenIs(seen') /\ seen'.acts = seen.acts /\ seen'.touched = seen.touched /\ seen'.made = seen.made
    BY <1>1, <2>2 DEF SeenIs
  <2> QED BY <2>1, <2>3, LeaveKept
<1> QED BY <1>4, <1>5, <1>6, <1>7, <1>8, <1>9, <1>10, <1>11, <1>12, <1>13

(* The call being prepared *)
LEMMA CurrentIs ==
    ASSUME Shape, pc \in Preparing
    PROVE  Current \in DOMAIN calls /\ Current = done + (Len(prep) + 1)
<1>1. Len(prep) \in Nat /\ DOMAIN calls = 1..Len(calls) /\ Len(calls) \in Nat BY LenProperties DEF Shape
<1>2. done \in Nat /\ upto \in Nat /\ upto <= Len(calls) /\ done + Len(prep) < upto
  BY DEF Shape, OpenGroup, Grouped
<1> QED BY <1>1, <1>2 DEF Current

(* The next call of the group is decided *)
LEMMA LeaveDecided ==
    ASSUME Shape, Leave, pc \in Preparing, UNCHANGED <<calls, done, upto, floor>>,
           NEW ok, NEW obj, prep' = Append(prep, [ok |-> ok, obj |-> obj]), pc' = AfterPrepare,
           gate' \in Gate, \A d \in gate.yes : d \in gate'.yes /\ gate'.of[d] = gate.of[d],
           SeenIs(seen'), seen'.acts = seen.acts, seen'.touched = seen.touched, seen'.made = seen.made,
           EgressIs(egress'), Hosted' \/ egress' = egress, Asked',
           NEW i, i = Current, ok => Allowed(i, floor)'
    PROVE  Leave'
<1>1. Deeds' /\ Hosted' BY DeedsStay DEF Leave, Shape
<1>2. pc' \in {"run", "prepare"} BY DEF AfterPrepare
<1>3. Passed' BY <1>2 DEF Passed
<1>4. \A j \in DOMAIN calls : \A f : Allowed(j, f) => Allowed(j, f)' BY StaysAllowed
<1>5. \A n \in DOMAIN prep : prep[n].ok => Allowed(done + n, floor)' BY <1>4, StillAllowed DEF Grouped
<1>6. SoFar'
  <2> DEFINE d == [ok |-> ok, obj |-> obj]
  <2>1. IsSeq(prep) /\ Len(prep) \in Nat /\ DOMAIN prep = 1..Len(prep) BY AnySeq, SeqIs DEF Shape
  <2>2. d.ok = ok OBVIOUS
  <2> HIDE DEF d
  <2>3. /\ IsSeq(prep') /\ Len(prep') = Len(prep) + 1 /\ \A n \in 1..Len(prep) : prep'[n] = prep[n]
        /\ prep'[Len(prep) + 1] = d
    BY <2>1, AppendIs DEF d
  <2>4. DOMAIN prep' = 1..Len(prep) + 1 BY <2>3, SeqIs
  <2>5. SUFFICES ASSUME NEW n \in DOMAIN prep', prep'[n].ok PROVE Allowed(done + n, floor)'
    BY DEF SoFar
  <2>6. CASE n \in 1..Len(prep) BY <1>5, <2>1, <2>3, <2>5, <2>6
  <2>7. CASE n = Len(prep) + 1
    <3>1. ok BY <2>2, <2>3, <2>5, <2>7
    <3>2. done + n = done + (Len(prep) + 1) BY <2>7
    <3>3. i = done + (Len(prep) + 1) BY CurrentIs
    <3>4. done + n = i BY ONLY <3>2, <3>3
    <3>5. Allowed(i, floor)' BY <3>1
    <3> QED BY <3>4, <3>5
  <2> QED BY <2>1, <2>4, <2>6, <2>7
<1> QED BY <1>1, <1>3, <1>6 DEF Leave

(* The call is asked about, opened or decided next *)
LEMMA LeaveMoves ==
    ASSUME Shape, Leave, pc \in Preparing, pc' \in Preparing,
           UNCHANGED <<calls, done, upto, prep, floor, egress>>,
           gate' \in Gate, Asked', \A d \in gate.yes : d \in gate'.yes /\ gate'.of[d] = gate.of[d],
           SeenIs(seen'),
           Deeds' \/ (seen'.acts = seen.acts /\ seen'.touched = seen.touched /\ seen'.made = seen.made),
           Passed'
    PROVE  Leave'
<1>1. Deeds' /\ Hosted' BY DeedsStay DEF Leave, Shape
<1>2. \A j \in DOMAIN calls : \A f : Allowed(j, f) => Allowed(j, f)' BY StaysAllowed
<1>3. \A n \in DOMAIN prep : prep[n].ok => Allowed(done + n, floor)' BY <1>2, StillAllowed DEF Grouped
<1>4. SoFar' BY <1>3 DEF SoFar
<1> QED BY <1>1, <1>4 DEF Leave

(* The call is refused, and nobody was asked *)
LEMMA LeaveRefused ==
    ASSUME Shape, Leave, pc \in Preparing, Refused, UNCHANGED <<calls, done, upto, floor, egress, gate>>,
           SeenIs(seen'), seen'.acts = seen.acts, seen'.touched = seen.touched, seen'.made = seen.made
    PROVE  Leave'
<1>1. prep' = Append(prep, [ok |-> FALSE, obj |-> "none"]) /\ pc' = AfterPrepare BY DEF Refused
<1>2. pc' # "await" BY <1>1 DEF AfterPrepare
<1>3. Asked' BY <1>2 DEF Leave, Asked
<1>4. PICK i : i = Current OBVIOUS
<1> QED BY <1>1, <1>3, <1>4, LeaveDecided DEF Leave

(* The call is looked at further, and nothing has changed but that *)
LEMMA LeaveGoesOn ==
    ASSUME Shape, Leave, pc \in Preparing, pc' \in {"dir", "file", "decide", "prompt"},
           UNCHANGED <<calls, done, upto, prep, floor, egress, gate, seen>>, Passed'
    PROVE  Leave'
<1>1. Asked' BY DEF Leave, Asked
<1>2. pc' \in Preparing BY DEF Preparing
<1> QED BY <1>1, <1>2, LeaveMoves DEF Leave

(* Before anything is asked *)
LEMMA LeaveLooks ==
    ASSUME Shape, Leave, Prepare \/ WalkDir \/ WalkFile
    PROVE  Leave'
<1> USE DEF talk, span, world, hosts
<1>1. SeenIs(seen) BY DEF Leave
<1>2. CASE Prepare
  <2>1. pc \in Preparing /\ UNCHANGED <<calls, done, upto, floor, egress, gate, seen>>
    BY <1>2 DEF Prepare, Preparing
  <2>2. CASE Refused BY <1>1, <2>1, <2>2, LeaveRefused
  <2>3. CASE ~Refused
    <3>1. /\ prep' = prep /\ Registered(TheCall) /\ ~BlockedFirst(TheCall, floor)
          /\ pc' \in {"dir", "decide"}
      BY <1>2, <2>3 DEF Prepare
    <3>2. TheCall' = TheCall BY <2>1, <3>1 DEF TheCall, Current
    <3>3. Passed' BY <2>1, <3>1, <3>2 DEF Passed
    <3> QED BY <2>1, <3>1, <3>3, LeaveGoesOn
  <2> QED BY <2>2, <2>3
<1>3. CASE WalkDir
  <2>1. pc = "dir" /\ pc \in Preparing /\ UNCHANGED <<calls, done, upto, floor, egress, gate, seen>>
    BY <1>3 DEF WalkDir, Preparing
  <2>2. CASE Refused BY <1>1, <2>1, <2>2, LeaveRefused
  <2>3. CASE ~Refused
    <3>1. prep' = prep /\ pc' \in {"file", "decide"} BY <1>3, <2>3 DEF WalkDir
    <3>2. TheCall' = TheCall BY <2>1, <3>1 DEF TheCall, Current
    <3>3. Passed' BY <2>1, <3>1, <3>2 DEF Passed, Leave
    <3> QED BY <2>1, <3>1, <3>3, LeaveGoesOn
  <2> QED BY <2>2, <2>3
<1>4. CASE WalkFile
  <2>1. pc = "file" /\ pc \in Preparing /\ UNCHANGED <<calls, done, upto, floor, egress, gate>>
    BY <1>4 DEF WalkFile, Preparing
  <2>2. CASE Refused /\ seen' = seen BY <1>1, <2>1, <2>2, LeaveRefused
  <2>3. CASE ~(Refused /\ seen' = seen)
    <3>1. prep' = prep /\ pc' = "decide" BY <1>4, <2>3 DEF WalkFile
    <3>2. TheCall' = TheCall BY <2>1, <3>1 DEF TheCall, Current
    <3>3. Passed' BY <2>1, <3>1, <3>2 DEF Passed, Leave
    <3>4. CASE seen' = seen BY <2>1, <3>1, <3>3, <3>4, LeaveGoesOn
    <3>5. CASE seen' # seen
      <4> DEFINE m == [of |-> Current, floor |-> floor]
      <4>1. seen' = [seen EXCEPT !.made = @ \cup {m}] BY <1>4, <2>3, <3>5 DEF WalkFile
      <4>2. m.of \in DOMAIN calls /\ ~UntrustedTarget(calls[m.of], m.floor)
        <5>1. ~BlockedFirst(TheCall, floor) BY <2>1 DEF Leave, Passed
        <5> QED BY <2>1, <5>1, CurrentIs DEF BlockedFirst, TheCall
      <4> HIDE DEF m
      <4>3. SeenIs(seen') /\ seen'.acts = seen.acts /\ seen'.touched = seen.touched
            /\ seen'.made = seen.made \cup {m}
        BY <1>1, <4>1 DEF SeenIs
      <4>4. Deeds'
        <5>1. \A a \in seen.acts : a.of \in DOMAIN calls /\ Allowed(a.of, a.floor) /\ ~Overtakes(a)
          BY DEF Leave, Deeds
        <5>2. \A a : Allowed(a.of, a.floor)' = Allowed(a.of, a.floor) /\ Overtakes(a)' = Overtakes(a)
          <6>1. \A k : Consented(k)' = Consented(k) BY <2>1 DEF Consented
          <6>2. \A h : HostConsented(h)' = HostConsented(h) BY <2>1, <6>1 DEF HostConsented
          <6> QED BY <2>1, <6>1, <6>2 DEF Allowed, Overtakes
        <5>3. \A a \in seen'.acts : a.of \in DOMAIN calls' /\ Allowed(a.of, a.floor)' /\ ~Overtakes(a)'
          BY <2>1, <4>3, <5>1, <5>2
        <5>4. \A x \in seen'.made : x.of \in DOMAIN calls' /\ ~UntrustedTarget(calls'[x.of], x.floor)
          BY <2>1, <4>2, <4>3 DEF Leave, Deeds
        <5>5. "outside" \notin seen'.touched BY <4>3 DEF Leave, Deeds
        <5> QED BY <5>3, <5>4, <5>5 DEF Deeds
      <4>5. Asked' BY <2>1, <3>1 DEF Leave, Asked
      <4>6. pc' \in Preparing BY <3>1 DEF Preparing
      <4> QED BY <2>1, <3>1, <3>3, <4>3, <4>4, <4>5, <4>6, LeaveMoves DEF Leave
    <3> QED BY <3>4, <3>5
  <2> QED BY <2>2, <2>3
<1> QED BY <1>2, <1>3, <1>4

(* The tiers and the egress policy, or the person *)
LEMMA LeaveDecides ==
    ASSUME Shape, Leave, Decide
    PROVE  Leave'
<1>1. pc \in Preparing /\ pc = "decide" /\ UNCHANGED <<calls, done, upto, floor, egress, gate, seen>>
  BY DEF Decide, Preparing, talk, span, world, hosts
<1>2. SeenIs(seen) /\ EgressIs(egress) /\ Hosted BY DEF Leave
<1>3. Registered(TheCall) /\ ~BlockedFirst(TheCall, floor) BY <1>1 DEF Leave, Passed
<1>4. CASE Refused BY <1>1, <1>2, <1>4, LeaveRefused
<1>5. CASE ~EgressBlocked(egress, TheCall) /\ ~NeedsApproval(egress, TheCall) /\ Ready
  <2>1. PICK i : i = Current OBVIOUS
  <2>2. calls'[i] = TheCall /\ calls[i] = TheCall BY <1>1, <2>1 DEF TheCall
  <2>3. TheCall.tool \in Exposed /\ ~UntrustedTarget(TheCall, floor) BY <1>3 DEF BlockedFirst
  <2>4. Of(TheCall).level # Irreversible /\ ~EgressAsks(egress, TheCall) BY <1>5 DEF NeedsApproval
  <2>5. NeedsHost(TheCall) => Permits(egress, TheCall) BY <1>5, <2>4 DEF EgressAsks
  <2>6. Grants(egress, TheCall.host) => Grants(FirstEgress, TheCall.host) \/ HostConsented(TheCall.host)
    BY <1>2 DEF Hosted, Grants
  <2>7. \A h : HostConsented(h) => HostConsented(h)' BY <1>1 DEF HostConsented, Consented
  <2>8. Allowed(i, floor)' BY <1>1, <1>3, <2>2, <2>3, <2>4, <2>5, <2>6, <2>7 DEF Allowed, Permits
  <2>9. PICK obj : prep' = Append(prep, [ok |-> TRUE, obj |-> obj]) /\ pc' = AfterPrepare
    BY <1>5 DEF Ready
  <2>10. pc' # "await" BY <2>9 DEF AfterPrepare
  <2>11. Asked' BY <1>1, <2>10 DEF Leave, Asked
  <2> QED BY <1>1, <1>2, <2>1, <2>8, <2>9, <2>11, LeaveDecided DEF Leave
<1>6. CASE ~EgressBlocked(egress, TheCall) /\ pc' = "prompt" /\ UNCHANGED prep
  <2>1. TheCall' = TheCall BY <1>1, <1>6 DEF TheCall, Current
  <2>2. EgressBlocked(egress, TheCall)' = EgressBlocked(egress, TheCall)
    BY <1>1, <2>1 DEF EgressBlocked, Permits, Grants, MayAsk, NeedsHost
  <2>3. Passed' BY <1>1, <1>3, <1>6, <2>1, <2>2 DEF Passed
  <2> QED BY <1>1, <1>6, <2>3, LeaveGoesOn
<1> QED BY <1>4, <1>5, <1>6 DEF Decide

(* A prompt is numbered, and is of the call being prepared *)
LEMMA LeaveAsks ==
    ASSUME Shape, Leave, Prompt
    PROVE  Leave'
<1>1. pc \in Preparing /\ pc = "prompt" /\ UNCHANGED <<calls, done, upto, floor, egress>>
  BY DEF Prompt, Preparing, talk, span, world, hosts
<1>2. SeenIs(seen) /\ EgressIs(egress) /\ gate \in Gate /\ Asked BY DEF Leave
<1>3. Current \in Nat
  <2>1. Len(prep) \in Nat /\ done \in Nat BY LenProperties DEF Shape
  <2> QED BY <2>1 DEF Current
<1> DEFINE asked == [gate EXCEPT !.decision = @ + 1, !.of = Append(@, Current)]
<1>4. PICK i : i = Current OBVIOUS
<1>5. /\ gate.decision \in Nat /\ gate.of \in Seq(Nat) /\ gate.lines \in Seq(Line_) /\ gate.yes \subseteq Nat
      /\ gate.up \in BOOLEAN /\ gate.reason \in Nat
  BY <1>2 DEF Gate
<1>6. asked = [decision |-> gate.decision + 1, of |-> Append(gate.of, Current), lines |-> gate.lines,
               up |-> gate.up, yes |-> gate.yes, reason |-> gate.reason]
  <2>1. gate = [decision |-> gate.decision, of |-> gate.of, lines |-> gate.lines,
                up |-> gate.up, yes |-> gate.yes, reason |-> gate.reason]
    BY <1>2 DEF Gate
  <2> DEFINE s == Append(gate.of, Current)
  <2>2. asked = [gate EXCEPT !.decision = @ + 1, !.of = s] OBVIOUS
  <2> HIDE DEF s, asked
  <2>3. asked = [decision |-> gate.decision + 1, of |-> s, lines |-> gate.lines,
                 up |-> gate.up, yes |-> gate.yes, reason |-> gate.reason]
    BY <2>1, <2>2
  <2> QED BY <2>3 DEF s
<1> HIDE DEF asked
<1>7. /\ asked.decision = gate.decision + 1 /\ asked.of = Append(gate.of, i)
      /\ asked.lines = gate.lines /\ asked.yes = gate.yes
  BY <1>4, <1>6
<1>8. /\ Append(gate.of, i) \in Seq(Nat) /\ Len(Append(gate.of, i)) = Len(gate.of) + 1
      /\ \A n \in 1..Len(gate.of) : Append(gate.of, i)[n] = gate.of[n]
      /\ Append(gate.of, i)[Len(gate.of) + 1] = i
  BY <1>3, <1>4, <1>5, AppendProperties
<1>9. \A r \in Nat : [decision |-> gate.decision + 1, of |-> Append(gate.of, i), lines |-> gate.lines,
                      up |-> gate.up, yes |-> gate.yes, reason |-> r] \in Gate
  BY <1>5, <1>8 DEF Gate
<1>10. asked \in Gate /\ [asked EXCEPT !.reason = 0] \in Gate
  <2>1. asked = [decision |-> gate.decision + 1, of |-> Append(gate.of, i), lines |-> gate.lines,
                 up |-> gate.up, yes |-> gate.yes, reason |-> gate.reason]
    BY <1>4, <1>6
  <2>2. [asked EXCEPT !.reason = 0] = [decision |-> gate.decision + 1, of |-> Append(gate.of, i),
                                       lines |-> gate.lines, up |-> gate.up, yes |-> gate.yes, reason |-> 0]
    <3> DEFINE s == Append(gate.of, i)
               n == gate.decision + 1
    <3>1. asked = [decision |-> n, of |-> s, lines |-> gate.lines,
                   up |-> gate.up, yes |-> gate.yes, reason |-> gate.reason]
      BY <2>1
    <3> HIDE DEF s, n
    <3>2. [asked EXCEPT !.reason = 0] = [decision |-> n, of |-> s, lines |-> gate.lines,
                                         up |-> gate.up, yes |-> gate.yes, reason |-> 0]
      BY ONLY <3>1
    <3> QED BY <3>2 DEF s, n
  <2>3. asked \in Gate BY ONLY <1>5, <1>9, <2>1
  <2>4. [asked EXCEPT !.reason = 0] \in Gate BY ONLY <1>5, <1>9, <2>2
  <2> QED BY <2>3, <2>4
<1>11. PICK g : gate' = g /\ g \in {asked, [asked EXCEPT !.reason = 0]}
  BY DEF Prompt, asked
<1>12. /\ gate' \in Gate /\ gate'.decision = gate.decision + 1 /\ gate'.of = Append(gate.of, i)
       /\ gate'.lines = gate.lines /\ gate'.yes = gate.yes
  BY <1>7, <1>10, <1>11 DEF Gate
<1>13. DOMAIN gate.of = 1..Len(gate.of) /\ Len(gate.of) \in Nat /\ Len(gate.of) = gate.decision
       /\ DOMAIN gate'.of = 1..Len(gate.of) + 1
  <2>1. DOMAIN gate.of = 1..Len(gate.of) /\ Len(gate.of) \in Nat BY <1>5, LenProperties
  <2>2. Len(gate.of) = gate.decision BY <1>2 DEF Asked
  <2>3. DOMAIN gate'.of = 1..Len(gate'.of) BY <1>8, <1>12, LenProperties
  <2> QED BY <1>8, <1>12, <2>1, <2>2, <2>3
<1>14. \A d \in gate.yes : d \in gate'.yes /\ gate'.of[d] = gate.of[d] /\ d \in DOMAIN gate'.of
  <2>1. TAKE d \in gate.yes
  <2>2. d \in 1..Len(gate.of) BY <1>2, <1>13 DEF Asked
  <2> QED BY <1>8, <1>12, <1>13, <2>2
<1>15. gate'.decision > 0 /\ gate'.of[gate'.decision] = i BY <1>5, <1>8, <1>12, <1>13
<1>16. pc' = "await" /\ Current' = i => Asked'
  BY <1>2, <1>8, <1>12, <1>13, <1>14, <1>15 DEF Asked
<1>17. pc' # "await" => Asked' BY <1>2, <1>8, <1>12, <1>13, <1>14 DEF Asked
<1>18. CASE pc' = "await" /\ UNCHANGED <<prep, seen>>
  <2>1. TheCall' = TheCall /\ Current' = i BY <1>1, <1>4, <1>18 DEF TheCall, Current
  <2>2. EgressBlocked(egress, TheCall)' = EgressBlocked(egress, TheCall)
    BY <1>1, <2>1 DEF EgressBlocked, Permits, Grants, MayAsk, NeedsHost
  <2>3. Passed' BY <1>1, <1>18, <2>1, <2>2 DEF Leave, Passed
  <2>4. Asked' BY <1>16, <1>18, <2>1
  <2>5. pc' \in Preparing BY <1>18 DEF Preparing
  <2>6. \A d \in gate.yes : d \in gate'.yes /\ gate'.of[d] = gate.of[d] BY <1>14
  <2> QED BY <1>1, <1>2, <1>12, <1>18, <2>3, <2>4, <2>5, <2>6, LeaveMoves
<1>19. CASE Refused /\ \E s : seen' = [seen EXCEPT !.why = s]
  <2>1. prep' = Append(prep, [ok |-> FALSE, obj |-> "none"]) /\ pc' = AfterPrepare BY <1>19 DEF Refused
  <2>2. pc' # "await" BY <2>1 DEF AfterPrepare
  <2>3. SeenIs(seen') /\ seen'.acts = seen.acts /\ seen'.touched = seen.touched /\ seen'.made = seen.made
    BY <1>2, <1>19 DEF SeenIs
  <2>4. \A d \in gate.yes : d \in gate'.yes /\ gate'.of[d] = gate.of[d] BY <1>14
  <2> QED BY <1>1, <1>2, <1>4, <1>12, <1>17, <2>1, <2>2, <2>3, <2>4, LeaveDecided
<1>20. \/ pc' = "await" /\ UNCHANGED <<prep, seen>>
       \/ Refused /\ \E s : seen' = [seen EXCEPT !.why = s]
  BY DEF Prompt
<1> QED BY <1>18, <1>19, <1>20

LEMMA LinesIs ==
    ASSUME Asked, gate \in Gate, gate.lines # <<>>, NEW r \in Nat,
           gate' = [gate EXCEPT !.lines = Tail(@), !.reason = r], pc' # "await"
    PROVE  /\ gate' \in Gate /\ Asked' /\ gate'.decision = gate.decision
           /\ \A d \in gate.yes : d \in gate'.yes /\ gate'.of[d] = gate.of[d]
           /\ Head(gate.lines).yes => Head(gate.lines).d \in gate.yes
<1>1. IsSeq(gate.lines) /\ gate.lines \in Seq(Line_) BY AnySeq DEF Gate
<1>2. /\ IsSeq(Tail(gate.lines)) /\ Len(Tail(gate.lines)) = Len(gate.lines) - 1
      /\ \A n \in 1..Len(gate.lines) - 1 : Tail(gate.lines)[n] = gate.lines[n + 1]
      /\ Head(gate.lines) = gate.lines[1] /\ Len(gate.lines) > 0
  BY <1>1, TailIs
<1>3. Tail(gate.lines) \in Seq(Line_) BY <1>1, HeadTailProperties
<1>4. /\ DOMAIN gate.lines = 1..Len(gate.lines) /\ Len(gate.lines) \in Nat
      /\ DOMAIN Tail(gate.lines) = 1..Len(gate.lines) - 1
  BY <1>1, <1>2, SeqIs
<1> DEFINE s == Tail(gate.lines)
<1>5. gate' = [gate EXCEPT !.lines = s, !.reason = r] /\ s \in Seq(Line_) BY <1>3
<1> HIDE DEF s
<1>6. /\ gate' \in Gate /\ gate'.decision = gate.decision /\ gate'.of = gate.of /\ gate'.yes = gate.yes
      /\ gate'.lines = s
  BY <1>5 DEF Gate
<1>7. \A n \in DOMAIN gate'.lines : gate'.lines[n].yes => gate'.lines[n].d \in gate'.yes
  <2>1. TAKE n \in DOMAIN gate'.lines
  <2>2. n + 1 \in DOMAIN gate.lines /\ gate'.lines[n] = gate.lines[n + 1]
    BY <1>2, <1>4, <1>6 DEF s
  <2> QED BY <1>6, <2>2 DEF Asked
<1>8. 1 \in DOMAIN gate.lines BY <1>2, <1>4
<1> QED BY <1>2, <1>6, <1>7, <1>8 DEF Asked

(* The person's answer is read, or there is nobody to give one *)
LEMMA LeaveHears ==
    ASSUME Shape, Leave, Answered \/ HungUp
    PROVE  Leave'
<1> USE DEF talk, span, world, hosts
<1>1. SeenIs(seen) /\ EgressIs(egress) /\ gate \in Gate /\ Asked /\ Hosted BY DEF Leave
<1>2. pc \in Preparing /\ pc = "await" /\ UNCHANGED <<calls, done, upto, floor>>
  BY DEF Answered, HungUp, Preparing
<1>3. ASSUME NEW r, seen' = Told(r)
      PROVE  SeenIs(seen') /\ seen'.acts = seen.acts /\ seen'.touched = seen.touched /\ seen'.made = seen.made
  <2>1. \E s : seen' = [seen EXCEPT !.why = s] BY <1>3 DEF Told
  <2> QED BY <1>1, <2>1 DEF SeenIs
<1>4. CASE HungUp
  <2>1. Refused /\ UNCHANGED <<egress, gate>> /\ seen' = Told(gate.reason) BY <1>4 DEF HungUp
  <2> QED BY <1>2, <1>3, <2>1, LeaveRefused
<1>5. CASE Answered
  <2> DEFINE line == Head(gate.lines)
  <2>1. gate.lines # <<>> BY <1>5 DEF Answered
  <2>2. PICK i : i = Current OBVIOUS
  <2>3. gate.decision \in Nat /\ gate.reason \in Nat BY <1>1 DEF Gate
  <2>4. \/ /\ Grant(line) /\ Ready /\ seen' = seen
           /\ egress' = IF EgressAsks(egress, TheCall) THEN Granted(egress, TheCall.host) ELSE egress
           /\ gate' = [gate EXCEPT !.lines = Tail(@)]
        \/ /\ Refused /\ egress' = egress /\ \E r : seen' = Told(r)
           /\ \E r \in {gate.decision, gate.reason} : gate' = [gate EXCEPT !.lines = Tail(@), !.reason = r]
    BY <1>5 DEF Answered
  <2>5. CASE Refused /\ egress' = egress /\ (\E r : seen' = Told(r))
             /\ \E r \in {gate.decision, gate.reason} : gate' = [gate EXCEPT !.lines = Tail(@), !.reason = r]
    <3>1. prep' = Append(prep, [ok |-> FALSE, obj |-> "none"]) /\ pc' = AfterPrepare BY <2>5 DEF Refused
    <3>2. pc' # "await" BY <3>1 DEF AfterPrepare
    <3>3. gate' \in Gate /\ Asked' /\ \A d \in gate.yes : d \in gate'.yes /\ gate'.of[d] = gate.of[d]
      BY <1>1, <2>1, <2>3, <2>5, <3>2, LinesIs
    <3>4. SeenIs(seen') /\ seen'.acts = seen.acts /\ seen'.touched = seen.touched /\ seen'.made = seen.made
      BY <1>3, <2>5
    <3> QED BY <1>1, <1>2, <2>2, <2>5, <3>1, <3>3, <3>4, LeaveDecided
  <2>6. CASE /\ Grant(line) /\ Ready /\ seen' = seen
             /\ egress' = IF EgressAsks(egress, TheCall) THEN Granted(egress, TheCall.host) ELSE egress
             /\ gate' = [gate EXCEPT !.lines = Tail(@)]
    <3>1. PICK obj : prep' = Append(prep, [ok |-> TRUE, obj |-> obj]) /\ pc' = AfterPrepare
      BY <2>6 DEF Ready
    <3>2. pc' # "await" BY <3>1 DEF AfterPrepare
    <3>3. gate' = [gate EXCEPT !.lines = Tail(@), !.reason = gate.reason]
      <4> DEFINE s == Tail(gate.lines)
      <4>1. gate' = [gate EXCEPT !.lines = s] BY <2>6
      <4> HIDE DEF s
      <4>2. gate' = [gate EXCEPT !.lines = s, !.reason = gate.reason] BY <1>1, <4>1 DEF Gate
      <4> QED BY <4>2 DEF s
    <3>4. /\ gate' \in Gate /\ Asked' /\ gate'.decision = gate.decision
          /\ \A d \in gate.yes : d \in gate'.yes /\ gate'.of[d] = gate.of[d]
          /\ line.yes => line.d \in gate.yes
      BY <1>1, <2>1, <2>3, <3>2, <3>3, LinesIs
    <3>5. gate.decision \in gate.yes /\ gate.of[gate.decision] = i
      BY <1>1, <1>2, <2>2, <2>6, <3>4 DEF Grant, Names, Asked
    <3>6. gate.decision \in gate'.yes /\ gate'.of[gate.decision] = i BY <3>4, <3>5
    <3>7. Consented(i)' BY <3>6 DEF Consented
    <3>8. i \in DOMAIN calls /\ calls[i] = TheCall BY <1>2, <2>2, CurrentIs DEF TheCall
    <3>14. PICK host : host = TheCall.host OBVIOUS
    <3>9. HostConsented(host)' BY <1>2, <3>7, <3>8, <3>14 DEF HostConsented
    <3>10. Registered(TheCall) /\ ~BlockedFirst(TheCall, floor) /\ ~EgressBlocked(egress, TheCall)
      BY <1>2 DEF Leave, Passed
    <3>11. NeedsHost(TheCall) => TheCall.host \in Of(TheCall).hosts
      BY <3>10 DEF EgressBlocked, Permits
    <3>12. Allowed(i, floor)'
      BY <1>2, <3>14, <3>7, <3>8, <3>9, <3>10, <3>11 DEF Allowed, BlockedFirst
    <3>13. EgressIs(egress') /\ Hosted'
      <4>1. \A h : HostConsented(h) => HostConsented(h)' BY <1>2, <3>4, StaysAllowed
      <4>2. CASE egress' = egress BY <1>1, <4>1, <4>2 DEF Hosted
      <4>3. CASE egress' = [egress EXCEPT !.hosts = @ \cup {host}]
        <5>1. EgressIs(egress') /\ egress'.mode = egress.mode /\ egress'.hosts = egress.hosts \cup {host}
          BY <1>1, <4>3 DEF EgressIs
        <5> QED BY <1>1, <3>9, <4>1, <5>1 DEF Hosted
      <4> QED BY <2>6, <3>14, <4>2, <4>3 DEF Granted
    <3> QED BY <1>1, <1>2, <2>2, <2>6, <3>1, <3>4, <3>12, <3>13, LeaveDecided
  <2> QED BY <2>4, <2>5, <2>6
<1> QED BY <1>4, <1>5

(* Between the groups nothing is done, and calls are only added *)
LEMMA LeaveBetween ==
    ASSUME Shape, Leave, calls' \in Seq(Call),
           \A i \in DOMAIN calls : i \in DOMAIN calls' /\ calls'[i] = calls[i],
           UNCHANGED <<gate, egress, seen>>, pc' \notin Preparing \cup {"run"} \/ (pc' = "prepare" /\ prep' = <<>>)
    PROVE  Leave'
<1>1. Deeds' /\ Hosted' BY DeedsStay DEF Leave, Shape
<1>2. pc' \notin {"dir", "file", "decide", "prompt", "await"} BY DEF Preparing
<1>3. Passed' /\ Asked' BY <1>2 DEF Leave, Passed, Asked
<1>4. SoFar'
  <2>1. CASE pc' \notin Preparing \cup {"run"} BY <2>1 DEF SoFar, Grouped
  <2>2. CASE prep' = <<>> BY <2>2, NoneIs DEF SoFar
  <2> QED BY <2>1, <2>2
<1> QED BY <1>1, <1>3, <1>4 DEF Leave

LEMMA LeaveRests ==
    ASSUME Shape, Leave,
           \/ Reply \/ NextGroup \/ EndBatch
           \/ Fold \/ AllCached \/ NoBudget \/ ReadUnderQuarantine \/ ReaderFails
    PROVE  Leave'
<1> USE DEF talk, span, step, world, hosts
<1>1. CASE Reply
  <2>1. /\ left.replies \in Seq(Seq(Call)) /\ left.replies # <<>> /\ pc' = "group"
        /\ UNCHANGED <<gate, egress, seen>> /\ calls' = calls \o Head(left.replies)
    BY <1>1 DEF Reply, Shape, Left
  <2>2. Head(left.replies) \in Seq(Call) BY <2>1, HeadTailProperties
  <2> DEFINE more == Head(left.replies)
  <2>3. IsSeq(calls) /\ IsSeq(more) BY <2>2, AnySeq DEF Shape
  <2> HIDE DEF more
  <2>4. /\ IsSeq(calls \o more) /\ Len(calls \o more) = Len(calls) + Len(more)
        /\ \A n \in 1..Len(calls) : (calls \o more)[n] = calls[n]
    BY <2>3, ConcatIs
  <2>5. /\ DOMAIN calls = 1..Len(calls) /\ DOMAIN (calls \o more) = 1..Len(calls \o more)
        /\ Len(calls) \in Nat /\ Len(more) \in Nat
    BY <2>3, <2>4, SeqIs
  <2>6. \A n \in DOMAIN calls : n \in DOMAIN (calls \o more) /\ (calls \o more)[n] = calls[n]
    BY <2>4, <2>5
  <2>7. calls' = calls \o more /\ calls \o more \in Seq(Call) BY <2>1, <2>2, ConcatProperties DEF Shape, more
  <2>8. pc' \notin Preparing \cup {"run"} BY <2>1 DEF Preparing
  <2> QED BY <2>1, <2>6, <2>7, <2>8, LeaveBetween
<1>2. ASSUME NextGroup \/ EndBatch \/ Fold \/ AllCached \/ NoBudget \/ ReadUnderQuarantine \/ ReaderFails
      PROVE  Leave'
  <2>1. UNCHANGED <<calls, gate, egress, seen>>
    BY <1>2 DEF NextGroup, EndBatch, Fold, AllCached, NoBudget, ReadUnderQuarantine, ReaderFails, Push
  <2>2. pc' \in {"group", "condense", "idle"} \/ (pc' = "prepare" /\ prep' = <<>>)
    BY <1>2 DEF NextGroup, EndBatch, Fold, AllCached, NoBudget, ReadUnderQuarantine, ReaderFails, Push
  <2>3. pc' \notin Preparing \cup {"run"} \/ (pc' = "prepare" /\ prep' = <<>>) BY <2>2 DEF Preparing
  <2>4. calls' \in Seq(Call) BY <2>1 DEF Shape
  <2> QED BY <2>1, <2>3, <2>4, LeaveBetween
<1> QED BY <1>1, <1>2

LEMMA LeaveStep == Shape /\ Leave /\ [Next]_vars => Leave'
<1> SUFFICES ASSUME Shape, Leave, [Next]_vars PROVE Leave' OBVIOUS
<1>1. CASE Reply BY <1>1, LeaveRests
<1>2. CASE Loop
  <2>1. CASE Prepare \/ WalkDir \/ WalkFile BY <2>1, LeaveLooks
  <2>2. CASE Decide \/ Prompt \/ Answered \/ HungUp BY <2>2, LeaveDecides, LeaveAsks, LeaveHears
  <2> QED BY <1>2, <2>1, <2>2, LeaveRests, LeaveRuns DEF Loop
<1>3. CASE Shell_ \/ McpServer \/ Sites \/ Swap \/ PersonAnswers \/ PersonLeaves BY <1>3, LeaveOutside
<1>4. CASE UNCHANGED vars
  <2>1. UNCHANGED <<pc, calls, done, upto, prep, floor, egress, gate, seen>>
    BY <1>4 DEF vars, talk, span, step, world, hosts
  <2> QED BY <2>1, LeaveKept DEF Leave
<1> QED BY <1>1, <1>2, <1>3, <1>4 DEF Next

(* Nothing is carried out that the rules and the person did not allow when the reply was  *)
(* composed, outside the workspace, or before a call with an effect that precedes it; and   *)
(* a call that provenance refuses makes no file (adjudicate, prepare_call, await_approval,  *)
(* run_group and the scope that opens a path once).                                         *)
THEOREM CarriedOutOnlyWithLeave == Spec => []ActsOnlyWithLeave
<1>1. Init => Shape /\ Leave BY ShapeInit, LeaveInit
<1>2. Shape /\ Leave /\ [Next]_vars => Shape' /\ Leave' BY ShapeStep, LeaveStep
<1>3. Leave => ActsOnlyWithLeave BY LeaveMeans
<1> QED BY <1>1, <1>2, <1>3, PTL DEF Spec

-----------------------------------------------------------------------------
(* A connection that is kept is as good as a new one *)

(* What may lie on a connection that is kept to site h: what its server wrote out of turn, *)
(* or the response to an earlier fetch of the same site that took that instead               *)
Stale(c, h, ends) ==
    c.astray /\ (c.rest \in {Unasked, Garbage} \/ \E f \in ends : f.of = c.rest /\ f.site = h)
Spare(h, ends) == {c \in Connection : c.rest # NoCall => Stale(c, h, ends)}

WorkIs(w, ends) ==
    /\ w = [site |-> w.site, conn |-> w.conn, pooled |-> w.pooled, again |-> w.again,
            answer |-> w.answer]
    /\ w.site \in DOMAIN Answers /\ w.conn \in Spare(w.site, ends) /\ ~(w.again /\ w.pooled)
    /\ w.answer # NoAnswer => w.conn.rest # Garbage
PoolIs(p, ends) == /\ p = [h \in DOMAIN Answers |-> p[h]]
                   /\ \A h \in DOMAIN Answers : p[h] \in Seq(Spare(h, ends))
NetIs(m) == m = [pool |-> m.pool, work |-> m.work, ends |-> m.ends, closes |-> m.closes,
                 strays |-> m.strays]

Fetches == /\ NetIs(net) /\ PoolIs(net.pool, net.ends)
           /\ DOMAIN net.work \subseteq Int
           /\ \A i \in DOMAIN net.work : WorkIs(net.work[i], net.ends)
           /\ PoolInvisible

LEMMA FetchesInit == Init => Fetches
<1> SUFFICES ASSUME Init PROVE Fetches OBVIOUS
<1>1. net = [pool |-> [h \in DOMAIN Answers |-> <<>>], work |-> <<>>, ends |-> {}, closes |-> 0,
             strays |-> 0]
  BY DEF Init, Idle
<1>2. DOMAIN net.work = {} BY <1>1, NoneIs
<1>3. \A h : <<>> \in Seq(Spare(h, {})) BY EmptySeq
<1>4. NetIs(net) BY <1>1 DEF NetIs
<1>5. PoolIs(net.pool, net.ends) BY <1>1, <1>3 DEF PoolIs
<1> QED BY <1>1, <1>2, <1>4, <1>5 DEF Fetches, PoolInvisible

LEMMA NewIsKept == \A h, ends : NewConnection \in Spare(h, ends)
<1> QED BY DEF NewConnection, Connection, Spare, NoCall

(* What is kept is no less sound for another fetch having ended *)
LEMMA MoreEnds ==
    ASSUME NEW ends, NEW e
    PROVE  /\ \A h : Spare(h, ends) \subseteq Spare(h, ends \cup {e})
           /\ \A p : PoolIs(p, ends) => PoolIs(p, ends \cup {e})
           /\ \A w : WorkIs(w, ends) => WorkIs(w, ends \cup {e})
<1>1. ASSUME NEW h PROVE Spare(h, ends) \subseteq Spare(h, ends \cup {e}) BY DEF Spare, Stale
<1>2. ASSUME NEW p, PoolIs(p, ends) PROVE PoolIs(p, ends \cup {e})
  <2>1. ASSUME NEW h \in DOMAIN Answers PROVE p[h] \in Seq(Spare(h, ends \cup {e}))
    <3>1. p[h] \in Seq(Spare(h, ends)) BY <1>2 DEF PoolIs
    <3> QED BY <1>1, <3>1, WiderSeq
  <2> QED BY <1>2, <2>1 DEF PoolIs
<1>3. ASSUME NEW w, WorkIs(w, ends) PROVE WorkIs(w, ends \cup {e}) BY <1>1, <1>3 DEF WorkIs
<1> QED BY <1>1, <1>2, <1>3

LEMMA PoolWith ==
    ASSUME NEW p, NEW ends, PoolIs(p, ends), NEW h, NEW s,
           h \in DOMAIN Answers => s \in Seq(Spare(h, ends))
    PROVE  PoolIs([p EXCEPT ![h] = s], ends)
<1> DEFINE q == [p EXCEPT ![h] = s]
<1>1. DOMAIN q = DOMAIN Answers BY DEF PoolIs
<1>2. q = [g \in DOMAIN Answers |-> q[g]] BY <1>1
<1>3. \A g \in DOMAIN Answers : q[g] = IF g = h THEN s ELSE p[g] BY <1>1 DEF PoolIs
<1> HIDE DEF q
<1>4. \A g \in DOMAIN Answers : q[g] \in Seq(Spare(g, ends)) BY <1>3 DEF PoolIs
<1>5. PoolIs(q, ends) BY <1>2, <1>4 DEF PoolIs
<1> QED BY <1>5 DEF q

(* A step that changes one pool, one fetch, and none of the ends *)
LEMMA FetchesKept ==
    ASSUME Fetches, NetIs(net'), PoolIs(net'.pool, net.ends), net'.ends = net.ends,
           DOMAIN net'.work \subseteq Int,
           \A i \in DOMAIN net'.work : WorkIs(net'.work[i], net.ends)
    PROVE  Fetches'
<1> QED BY DEF Fetches, PoolInvisible

LEMMA SitesKeep ==
    ASSUME Fetches, Sites
    PROVE  Fetches'
<1>1. NetIs(net) /\ PoolIs(net.pool, net.ends) BY DEF Fetches
<1>2. ASSUME NEW h \in DOMAIN net.pool, NEW k \in DOMAIN net.pool[h], NEW c,
             c \in Spare(h, net.ends), NEW closes, NEW strays,
             net' = [net EXCEPT !.pool[h][k] = c, !.closes = closes, !.strays = strays]
      PROVE  Fetches'
  <2>1. h \in DOMAIN Answers /\ net.pool[h] \in Seq(Spare(h, net.ends)) BY <1>1 DEF PoolIs
  <2>2. net.pool[h] \in [1..Len(net.pool[h]) -> Spare(h, net.ends)] /\ DOMAIN net.pool[h] = 1..Len(net.pool[h])
        /\ Len(net.pool[h]) \in Nat
    BY <2>1, LenProperties
  <2> DEFINE s == [net.pool[h] EXCEPT ![k] = c]
             p == [net.pool EXCEPT ![h] = s]
  <2>3. s \in [1..Len(net.pool[h]) -> Spare(h, net.ends)] BY <1>2, <2>2
  <2>4. s \in Seq(Spare(h, net.ends))
    <3> HIDE DEF s
    <3> QED BY <2>2, <2>3
  <2>5. net' = [net EXCEPT !.pool = p, !.closes = closes, !.strays = strays] BY <1>2
  <2>6. PoolIs(p, net.ends)
    <3> HIDE DEF s
    <3> QED BY <1>1, <2>4, PoolWith
  <2> HIDE DEF p
  <2>7. NetIs(net') /\ net'.pool = p /\ net'.work = net.work /\ net'.ends = net.ends
    BY <1>1, <2>5 DEF NetIs
  <2> QED BY <2>6, <2>7, FetchesKept DEF Fetches
<1>3. CASE SiteCloses
  <2>1. PICK h \in DOMAIN net.pool :
          \E k \in DOMAIN net.pool[h] : net' = [net EXCEPT !.pool[h][k].dead = TRUE, !.closes = @ + 1]
    BY <1>3 DEF SiteCloses
  <2>2. PICK k \in DOMAIN net.pool[h] : net' = [net EXCEPT !.pool[h][k].dead = TRUE, !.closes = @ + 1]
    BY <2>1
  <2> DEFINE c == [net.pool[h][k] EXCEPT !.dead = TRUE]
  <2>3. net.pool[h][k] \in Spare(h, net.ends)
    <3>1. h \in DOMAIN Answers /\ net.pool[h] \in Seq(Spare(h, net.ends)) BY <1>1 DEF PoolIs
    <3> QED BY <2>2, <3>1, LenProperties
  <2>4. c \in Spare(h, net.ends) BY <2>3 DEF Spare, Connection, Stale
  <2>5. net' = [net EXCEPT !.pool[h][k] = c, !.closes = net.closes + 1, !.strays = net.strays]
    BY <1>1, <2>2 DEF NetIs
  <2> HIDE DEF c
  <2> QED BY <1>2, <2>4, <2>5
<1>4. CASE SiteStrays
  <2>1. PICK h \in DOMAIN net.pool : \E k \in DOMAIN net.pool[h] :
          \E what \in {Unasked, Garbage}, closes \in BOOLEAN :
              net' = [net EXCEPT !.pool[h][k] = [dead |-> closes, rest |-> what, astray |-> TRUE],
                                 !.strays = @ + 1]
    BY <1>4 DEF SiteStrays
  <2>2. PICK k \in DOMAIN net.pool[h], what \in {Unasked, Garbage}, closes \in BOOLEAN :
              net' = [net EXCEPT !.pool[h][k] = [dead |-> closes, rest |-> what, astray |-> TRUE],
                                 !.strays = @ + 1]
    BY <2>1
  <2> DEFINE c == [dead |-> closes, rest |-> what, astray |-> TRUE]
  <2>3. c \in Spare(h, net.ends) BY <2>2 DEF Spare, Connection, Stale, Unasked, Garbage
  <2>4. net' = [net EXCEPT !.pool[h][k] = c, !.closes = net.closes, !.strays = net.strays + 1]
    BY <1>1, <2>2 DEF NetIs
  <2> HIDE DEF c
  <2> QED BY <1>2, <2>3, <2>4
<1>5. ASSUME NEW i \in DOMAIN net.work, SiteAnswers(i) PROVE Fetches'
  <2>1. net.work[i].conn.rest # Garbage BY <1>5 DEF SiteAnswers
  <2>2. PICK r : net' = [net EXCEPT !.work[i].answer = r] BY <1>5 DEF SiteAnswers
  <2> DEFINE w == [net.work[i] EXCEPT !.answer = r]
             f == [net.work EXCEPT ![i] = w]
  <2>3. WorkIs(net.work[i], net.ends) BY <1>5 DEF Fetches
  <2>4. WorkIs(w, net.ends)
    <3>1. w = [site |-> net.work[i].site, conn |-> net.work[i].conn, pooled |-> net.work[i].pooled,
               again |-> net.work[i].again, answer |-> r]
      BY <2>3 DEF WorkIs
    <3> HIDE DEF w
    <3>2. w.site = net.work[i].site /\ w.conn = net.work[i].conn /\ w.pooled = net.work[i].pooled
          /\ w.again = net.work[i].again /\ w.answer = r
      BY <3>1
    <3> QED BY <2>1, <2>3, <3>1, <3>2 DEF WorkIs
  <2>5. net' = [net EXCEPT !.work = f] BY <2>2
  <2>6. DOMAIN f = DOMAIN net.work /\ \A j \in DOMAIN f : f[j] = IF j = i THEN w ELSE net.work[j] OBVIOUS
  <2> HIDE DEF w, f
  <2>7. \A j \in DOMAIN f : WorkIs(f[j], net.ends) BY <2>4, <2>6 DEF Fetches
  <2>8. NetIs(net') /\ net'.pool = net.pool /\ net'.work = f /\ net'.ends = net.ends
    BY <1>1, <2>5 DEF NetIs
  <2>9. DOMAIN f \subseteq Int BY <2>6 DEF Fetches
  <2> QED BY <1>1, <2>7, <2>8, <2>9, FetchesKept
<1> QED BY <1>3, <1>4, <1>5 DEF Sites

(* A fetch starts on a kept connection or on one of its own *)
LEMMA FetchStarts ==
    ASSUME Fetches, NEW i \in Int, NEW h \in DOMAIN Answers, TakePooled(i, h) \/ Connect(i, h)
    PROVE  Fetches'
<1>1. NetIs(net) /\ PoolIs(net.pool, net.ends) BY DEF Fetches
<1>2. ASSUME NEW s \in Seq(Spare(h, net.ends)), NEW c \in Spare(h, net.ends), NEW pooled, NEW again,
             ~(again /\ pooled),
             net' = [net EXCEPT !.pool[h] = s, !.work = With(@, i, Work(h, c, pooled, again))]
      PROVE  Fetches'
  <2> DEFINE p == [net.pool EXCEPT ![h] = s]
             w == Work(h, c, pooled, again)
             f == With(net.work, i, w)
  <2>1. WorkIs(w, net.ends) BY <1>2 DEF WorkIs, Work
  <2>2. net' = [net EXCEPT !.pool = p, !.work = f] BY <1>2
  <2>3. PoolIs(p, net.ends) BY <1>1, PoolWith
  <2>4. DOMAIN f = DOMAIN net.work \cup {i} /\ \A j \in DOMAIN f : f[j] = IF j = i THEN w ELSE net.work[j]
    BY DEF With
  <2> HIDE DEF p, w, f
  <2>5. \A j \in DOMAIN f : WorkIs(f[j], net.ends) BY <2>1, <2>4 DEF Fetches
  <2>6. NetIs(net') /\ net'.pool = p /\ net'.work = f /\ net'.ends = net.ends BY <1>1, <2>2 DEF NetIs
  <2>7. DOMAIN f \subseteq Int BY <2>4 DEF Fetches
  <2> QED BY <2>3, <2>5, <2>6, <2>7, FetchesKept
<1>3. CASE TakePooled(i, h)
  <2> DEFINE s == net.pool[h]
             S == Spare(h, net.ends)
  <2>1. s \in Seq(S) /\ s # <<>> BY <1>1, <1>3 DEF TakePooled, PoolIs
  <2>5. net' = [net EXCEPT !.pool[h] = Front(s), !.work = With(@, i, Work(h, Last(s), TRUE, FALSE))]
    BY <1>3 DEF TakePooled
  <2> HIDE DEF s, S
  <2>2. Len(s) \in Nat /\ Len(s) # 0 /\ s \in [1..Len(s) -> S] /\ DOMAIN s = 1..Len(s)
    BY <2>1, EmptySeq, LenProperties
  <2>3. Last(s) \in S BY <2>2 DEF Last
  <2>4. Front(s) \in Seq(S)
    <3>1. Front(s) = [n \in 1..Len(s) - 1 |-> s[n]] BY <2>1 DEF Front
    <3>2. Len(s) - 1 \in Nat /\ \A n \in 1..Len(s) - 1 : s[n] \in S BY <2>2
    <3> QED BY <3>1, <3>2
  <2> QED BY <1>2, <2>3, <2>4, <2>5 DEF S
<1>4. CASE Connect(i, h)
  <2>1. PICK failed \in BOOLEAN :
          net' = [net EXCEPT !.pool[h] = <<>>, !.work = With(@, i, Work(h, NewConnection, FALSE, failed))]
    BY <1>4 DEF Connect
  <2>2. <<>> \in Seq(Spare(h, net.ends)) BY EmptySeq
  <2> QED BY <1>2, <2>1, <2>2, NewIsKept
<1> QED BY <1>3, <1>4

(* A fetch ends, and its connection may be kept *)
LEMMA FetchEnds ==
    ASSUME Fetches, NEW i \in DOMAIN net.work, NEW from, NEW fault, NEW p, NEW e,
           e = [of |-> i, site |-> net.work[i].site, from |-> from, fault |-> fault,
                pooled |-> net.work[i].pooled, astray |-> net.work[i].conn.astray],
           from # i => Stale([net.work[i].conn EXCEPT !.rest = from], net.work[i].site, net.ends)
                       /\ from # Garbage,
           fault => net.work[i].again, PoolIs(p, net.ends \cup {e}),
           net' = [Ended(i, from, fault) EXCEPT !.pool = p]
    PROVE  Fetches'
<1>1. NetIs(net) /\ PoolInvisible /\ WorkIs(net.work[i], net.ends) BY DEF Fetches
<1> DEFINE f == Rest(net.work, i)
           g == net.ends \cup {e}
<1>2. Ended(i, from, fault) = [net EXCEPT !.work = f, !.ends = g] BY DEF Ended
<1>3. DOMAIN f = DOMAIN net.work \ {i} /\ \A j \in DOMAIN f : f[j] = net.work[j] BY DEF Rest
<1>4. /\ e.of = i /\ e.site = net.work[i].site /\ e.from = from /\ ~(e.fault /\ e.pooled)
      /\ net.work[i].conn.astray => e.astray
  BY <1>1 DEF WorkIs
<1>5. \A j \in DOMAIN f : WorkIs(f[j], net.ends \cup {e})
  <2> HIDE DEF f
  <2> QED BY <1>3, MoreEnds DEF Fetches
<1>6. NetIs(net') /\ net'.pool = p /\ net'.work = f /\ net'.ends = g
  <2> DEFINE ended == Ended(i, from, fault)
  <2>1. ended = [net EXCEPT !.work = f, !.ends = g] /\ net' = [ended EXCEPT !.pool = p] BY <1>2
  <2> HIDE DEF f, g, ended
  <2>2. ended = [pool |-> net.pool, work |-> f, ends |-> g, closes |-> net.closes,
                 strays |-> net.strays]
    BY <1>1, <2>1 DEF NetIs
  <2>3. net' = [pool |-> p, work |-> f, ends |-> g, closes |-> net.closes, strays |-> net.strays]
    BY ONLY <2>1, <2>2
  <2> QED BY ONLY <2>3 DEF NetIs
<1>7. ASSUME from # i
      PROVE  e.astray /\ (from = Unasked \/ \E d \in net.ends : d.of = from /\ d.site = e.site)
  <2> DEFINE c == [net.work[i].conn EXCEPT !.rest = from]
  <2>1. net.work[i].conn \in Connection BY <1>1 DEF WorkIs, Spare
  <2>2. c.rest = from /\ c.astray = net.work[i].conn.astray BY <2>1 DEF Connection
  <2>3. Stale(c, net.work[i].site, net.ends) /\ from # Garbage BY <1>7
  <2> HIDE DEF c
  <2>4. c.astray /\ (from \in {Unasked, Garbage} \/ \E d \in net.ends : d.of = from /\ d.site = e.site)
    BY <1>4, <2>2, <2>3 DEF Stale
  <2> QED BY <1>4, <2>2, <2>3, <2>4
<1>8. PoolInvisible'
  <2>1. SUFFICES ASSUME NEW d \in g
                 PROVE  /\ ~(d.fault /\ d.pooled)
                        /\ d.from # d.of => /\ d.astray
                                            /\ \/ d.from = Unasked
                                               \/ \E b \in g : b.of = d.from /\ b.site = d.site
    BY <1>6 DEF PoolInvisible
  <2>2. CASE d = e BY <1>4, <1>7, <2>2
  <2>3. CASE d \in net.ends BY <1>1, <2>3 DEF PoolInvisible
  <2> QED BY <2>1, <2>2, <2>3
<1>9. DOMAIN f \subseteq Int BY <1>3 DEF Fetches
<1> HIDE DEF f
<1> QED BY <1>5, <1>6, <1>8, <1>9 DEF Fetches

(* What a fetch gives back with its connection is nothing, or stale on a stray connection *)
LEMMA GivenBackIs ==
    ASSUME Fetches, NEW i \in DOMAIN net.work, NEW r, NEW ends, NEW e \in ends,
           net.ends \subseteq ends, e.of = i, e.site = net.work[i].site,
           NEW s \in Seq(Spare(net.work[i].site, ends))
    PROVE  GivenBack(s, i, r) \in Seq(Spare(net.work[i].site, ends))
<1> DEFINE h == net.work[i].site
           conn == net.work[i].conn
           c == [conn EXCEPT !.rest = Behind(i, r)]
<1>1. conn \in Connection /\ (conn.rest # NoCall => conn.astray) /\ i \in Int
  BY DEF Fetches, WorkIs, Spare, Stale
<1>2. CASE Poolable(r) /\ Len(s) < MaxPooled
  <2>1. Behind(i, r) \in {i, NoCall} /\ (Behind(i, r) # NoCall => conn.rest # NoCall)
    BY <1>2 DEF Behind, Poolable, CutShort
  <2>2. c = [dead |-> conn.dead, rest |-> Behind(i, r), astray |-> conn.astray] BY <1>1 DEF Connection
  <2> HIDE DEF c
  <2>3. c \in Connection BY <1>1, <2>1, <2>2 DEF Connection, NoCall
  <2>4. c.rest # NoCall => Stale(c, h, ends) BY <1>1, <2>1, <2>2 DEF Stale
  <2>5. c \in Spare(h, ends) BY <2>3, <2>4 DEF Spare
  <2>6. Append(s, c) \in Seq(Spare(h, ends)) BY <2>5, AppendProperties
  <2> QED BY <1>2, <2>6 DEF GivenBack, c
<1>3. CASE ~(Poolable(r) /\ Len(s) < MaxPooled) BY <1>3 DEF GivenBack
<1> QED BY <1>2, <1>3

LEMMA FetchTalks ==
    ASSUME Fetches, NEW i \in DOMAIN net.work, NEW r, r = net.work[i].answer,
           Retried(i) \/ GivenUp(i) \/ Unfetched(i) \/ Received(i, r)
    PROVE  Fetches'
<1>1. NetIs(net) /\ PoolIs(net.pool, net.ends) /\ WorkIs(net.work[i], net.ends) BY DEF Fetches
<1>2. CASE Retried(i)
  <2> DEFINE w == Work(net.work[i].site, NewConnection, FALSE, TRUE)
             f == [net.work EXCEPT ![i] = w]
  <2>1. WorkIs(w, net.ends) BY <1>1, NewIsKept DEF WorkIs, Work
  <2>2. net' = [net EXCEPT !.work = f] BY <1>2 DEF Retried, Again
  <2>3. DOMAIN f = DOMAIN net.work /\ \A j \in DOMAIN f : f[j] = IF j = i THEN w ELSE net.work[j] OBVIOUS
  <2> HIDE DEF w, f
  <2>4. \A j \in DOMAIN f : WorkIs(f[j], net.ends) BY <2>1, <2>3 DEF Fetches
  <2>5. NetIs(net') /\ net'.pool = net.pool /\ net'.work = f /\ net'.ends = net.ends
    BY <1>1, <2>2 DEF NetIs
  <2>6. DOMAIN f \subseteq Int BY <2>3 DEF Fetches
  <2> QED BY <1>1, <2>4, <2>5, <2>6, FetchesKept
<1>3. ASSUME NEW fault, NEW from
      PROVE  Ended(i, from, fault) = [Ended(i, from, fault) EXCEPT !.pool = net.pool]
             /\ Ended(i, from, fault).pool = net.pool
  <2>1. PICK f, g : Ended(i, from, fault) = [net EXCEPT !.work = f, !.ends = g]
    <3> DEFINE f == Rest(net.work, i)
               g == net.ends \cup {[of |-> i, site |-> net.work[i].site, from |-> from, fault |-> fault,
                                    pooled |-> net.work[i].pooled, astray |-> net.work[i].conn.astray]}
    <3>1. Ended(i, from, fault) = [net EXCEPT !.work = f, !.ends = g] BY DEF Ended
    <3> HIDE DEF f, g
    <3> QED BY <3>1
  <2> QED BY <1>1, <2>1 DEF NetIs
<1>4. ASSUME NEW fault \in BOOLEAN, fault => net.work[i].again, net' = Ended(i, i, fault)
      PROVE  Fetches'
  <2>1. PICK e : e = [of |-> i, site |-> net.work[i].site, from |-> i, fault |-> fault,
                      pooled |-> net.work[i].pooled, astray |-> net.work[i].conn.astray]
    OBVIOUS
  <2>2. net' = [Ended(i, i, fault) EXCEPT !.pool = net.pool] BY <1>3, <1>4
  <2>3. PoolIs(net.pool, net.ends \cup {e}) BY <1>1, MoreEnds
  <2> QED BY <1>4, <2>1, <2>2, <2>3, FetchEnds
<1>5. CASE GivenUp(i) \/ Unfetched(i) BY <1>4, <1>5 DEF GivenUp, Unfetched
<1>6. CASE Received(i, r)
  <2> DEFINE h == net.work[i].site
             from == From(i)
             conn == net.work[i].conn
  <2>1. from # i => Stale([conn EXCEPT !.rest = from], h, net.ends) /\ from # Garbage
    <3>1. SUFFICES ASSUME from # i PROVE Stale([conn EXCEPT !.rest = from], h, net.ends) /\ from # Garbage
      OBVIOUS
    <3>2. conn \in Connection /\ (conn.rest # NoCall => Stale(conn, h, net.ends)) BY <1>1 DEF WorkIs, Spare
    <3>3. conn.rest # NoCall /\ from = conn.rest BY <3>1 DEF From
    <3>4. [conn EXCEPT !.rest = from] = conn BY <3>2, <3>3 DEF Connection
    <3>5. r # NoAnswer BY <1>6 DEF Received
    <3> QED BY <1>1, <3>2, <3>3, <3>4, <3>5 DEF WorkIs
  <2>2. PICK e : e = [of |-> i, site |-> h, from |-> from, fault |-> FALSE,
                      pooled |-> net.work[i].pooled, astray |-> conn.astray]
    OBVIOUS
  <2> DEFINE ends == net.ends \cup {e}
             s == GivenBack(net.pool[h], i, r)
             p == [net.pool EXCEPT ![h] = s]
  <2>3. PoolIs(net.pool, ends) BY <1>1, MoreEnds
  <2>4. h \in DOMAIN Answers => s \in Seq(Spare(h, ends))
    <3>1. e \in ends /\ net.ends \subseteq ends /\ e.of = i /\ e.site = h BY <2>2
    <3>2. h \in DOMAIN Answers => net.pool[h] \in Seq(Spare(h, ends)) BY <2>3 DEF PoolIs
    <3> HIDE DEF ends
    <3> QED BY <3>1, <3>2, GivenBackIs
  <2>5. PoolIs(p, ends)
    <3> HIDE DEF s, ends, h
    <3> QED BY <2>3, <2>4, PoolWith
  <2>6. Ended(i, from, FALSE).pool = net.pool BY <1>3
  <2>7. net' = [Ended(i, from, FALSE) EXCEPT !.pool = p]
    <3>1. net' = [Ended(i, from, FALSE) EXCEPT !.pool[h] = GivenBack(@, i, r)] BY <1>6 DEF Received
    <3> DEFINE g == Ended(i, from, FALSE)
    <3>2. net' = [g EXCEPT !.pool = [g.pool EXCEPT ![h] = GivenBack(g.pool[h], i, r)]] BY <3>1
    <3> HIDE DEF g
    <3> QED BY <2>6, <3>2 DEF g
  <2> HIDE DEF p, from
  <2> QED BY <2>1, <2>2, <2>5, <2>7, FetchEnds
<1> QED BY <1>2, <1>5, <1>6

(* Only a call that named a host of its tool's is ever fetched *)
LEMMA HostIs ==
    ASSUME Shape, Leave, NEW n \in DOMAIN out[0], WebAsks(n)
    PROVE  calls[ItemsOf(0)[n]].host \in DOMAIN Answers /\ ItemsOf(0)[n] \in Int
<1>1. pc = "run" /\ n \in DOMAIN ItemsOf(0)
  <2>1. pc = "run"
    <3>1. SUFFICES ASSUME pc # "run" PROVE FALSE OBVIOUS
    <3>2. out[0] = <<>> BY <3>1 DEF Shape, Layers
    <3> QED BY <3>2, NoneIs
  <2>2. Slots /\ 0 \in Layers BY <2>1 DEF Shape, Layers
  <2>3. IsSeq(out[0]) /\ DOMAIN out[0] = 1..Len(out[0]) BY <2>2, SeqIs DEF Slots
  <2>4. DOMAIN ItemsOf(0) = 1..Len(ItemsOf(0)) BY ItemsAre DEF Shape
  <2>5. out[0] # <<>> BY NoneIs
  <2> QED BY <2>1, <2>2, <2>3, <2>4, <2>5 DEF Slots
<1> DEFINE i == ItemsOf(0)[n]
           c == calls[i]
<1>2. c.tool = "web" /\ c.host # NoHost BY DEF WebAsks
<1>3. i \in Cleared BY <1>1, ItemsAre DEF Shape
<1> HIDE DEF i
<1>4. i \in done + 1..upto /\ prep[i - done].ok BY <1>3 DEF Cleared, Group
<1>5. /\ done \in Nat /\ upto \in Nat /\ done + Len(prep) = upto /\ Len(prep) \in Nat
      /\ DOMAIN prep = 1..Len(prep)
  BY <1>1, LenProperties DEF Shape, OpenGroup, Grouped
<1>6. i - done \in DOMAIN prep /\ done + (i - done) = i BY <1>4, <1>5
<1>7. Allowed(i, floor)
  <2>1. Allowed(done + (i - done), floor) BY <1>1, <1>4, <1>6 DEF Leave, SoFar, Grouped
  <2> QED BY <1>6, <2>1
<1>8. Registered(c) /\ (NeedsHost(c) => c.host \in Of(c).hosts) BY <1>7 DEF Allowed
<1>9. Of(c) \in Manifest BY <1>8, PermissionAssumption DEF Registered, Of
<1>10. Of(c).hosts \subseteq Hosts BY <1>9 DEF Manifest
<1>11. NeedsHost(c) BY <1>2, <1>8, BatchAssumption DEF NeedsHost, Registered, Of
<1> QED BY <1>4, <1>5, <1>8, <1>10, <1>11, BatchAssumption DEF i

LEMMA FetchesStep == Shape /\ Leave /\ Fetches /\ [Next]_vars => Fetches'
<1> SUFFICES ASSUME Shape, Leave, Fetches, [Next]_vars PROVE Fetches' OBVIOUS
<1> USE DEF talk, span, step, world, hosts
<1>1. ASSUME UNCHANGED net PROVE Fetches' BY <1>1 DEF Fetches, PoolInvisible
<1>2. CASE Reply \/ Swap \/ PersonAnswers \/ PersonLeaves \/ Shell_ \/ McpServer
  BY <1>1, <1>2 DEF Reply, Swap, PersonAnswers, PersonLeaves, Shell_, McpServer
<1>3. CASE Sites BY <1>3, SitesKeep
<1>4. CASE Loop
  <2>1. CASE NextGroup \/ EndBatch \/ Prepare \/ WalkDir \/ WalkFile \/ Decide \/ Prompt \/ Answered \/ HungUp
    BY <1>1, <2>1 DEF NextGroup, EndBatch, Prepare, WalkDir, WalkFile, Decide, Prompt, Answered, HungUp
  <2>2. CASE Open \/ Recall \/ McpAsks \/ McpGoesOn \/ McpAnswered \/ McpFails
    BY <1>1, <2>2 DEF Open, Recall, McpAsks, McpGoesOn, McpAnswered, McpFails
  <2>3. CASE Fold \/ AllCached \/ NoBudget \/ ReadUnderQuarantine \/ ReaderFails
    BY <1>1, <2>3 DEF Fold, AllCached, NoBudget, ReadUnderQuarantine, ReaderFails, Push
  <2>4. ASSUME NEW n \in DOMAIN out[0], FileTool(n) \/ BashStarts(n) \/ BashEnds(n) PROVE Fetches'
    BY <1>1, <2>4 DEF FileTool, BashStarts, BashEnds
  <2>5. ASSUME NEW n \in DOMAIN out[0], WebAsks(n) PROVE Fetches'
    <3>1. TakePooled(ItemsOf(0)[n], calls[ItemsOf(0)[n]].host)
          \/ Connect(ItemsOf(0)[n], calls[ItemsOf(0)[n]].host)
      BY <2>5 DEF WebAsks
    <3> QED BY <2>5, <3>1, HostIs, FetchStarts
  <2>6. ASSUME NEW n \in DOMAIN out[0], WebTalks(n) PROVE Fetches'
    <3> DEFINE i == ItemsOf(0)[n]
    <3>1. Busy(i) /\ (Retried(i) \/ GivenUp(i) \/ Unfetched(i) \/ Received(i, net.work[i].answer))
      BY <2>6 DEF WebTalks
    <3> HIDE DEF i
    <3> QED BY <3>1, FetchTalks DEF Busy
  <2> QED BY <1>4, <2>1, <2>2, <2>3, <2>4, <2>5, <2>6 DEF Loop
<1>5. CASE UNCHANGED vars BY <1>1, <1>5 DEF vars
<1> QED BY <1>2, <1>3, <1>4, <1>5 DEF Next

(* A fetch that fails on the transport fails on a connection it opened itself, whatever    *)
(* sites do with the ones that are kept; and a fetch takes another response than its own    *)
(* only on a connection whose server wrote out of turn, and then that or the response to an  *)
(* earlier fetch of the same site (take_pooled, give_back, try_fetch).                       *)
THEOREM KeptConnectionsAreInvisible == Spec => []PoolInvisible
<1>1. Init => Shape /\ Leave /\ Fetches BY ShapeInit, LeaveInit, FetchesInit
<1>2. Shape /\ Leave /\ Fetches /\ [Next]_vars => Shape' /\ Leave' /\ Fetches'
  BY ShapeStep, LeaveStep, FetchesStep
<1>3. Fetches => PoolInvisible BY DEF Fetches
<1> QED BY <1>1, <1>2, <1>3, PTL DEF Spec

-----------------------------------------------------------------------------
(* The command: what was collected of its output is all of it, or is said to be cut *)

ShIs(s) == /\ s = [phase |-> s.phase, child |-> s.child, held |-> s.held, wrote |-> s.wrote,
                   buf |-> s.buf, seen |-> s.seen, over |-> s.over, sent |-> s.sent,
                   waited |-> s.waited, got |-> s.got, stopped |-> s.stopped, flooded |-> s.flooded]
           /\ s.wrote \in Nat /\ s.buf \in 0..Cap /\ s.seen \in Nat /\ s.got \in Nat

Drained == /\ ShIs(sh)
           /\ ~sh.over => sh.buf = sh.seen
           /\ sh.sent => sh.child = "gone" /\ ~sh.held /\ sh.seen = sh.wrote
           /\ sh.phase = "done" /\ sh.got > 0 => sh.sent /\ sh.got = sh.buf /\ (sh.over => sh.flooded)

LEMMA DrainedMeans == Drained => CutIsTold
<1> QED BY DEF Drained, ShIs, CutIsTold

LEMMA FreshShell ==
    ASSUME NEW s \in {NoShell, Spawned}
    PROVE  ShIs(s) /\ s.buf = 0 /\ s.seen = 0 /\ s.sent = FALSE /\ s.phase # "done"
<1>1. Cap \in Nat /\ 0 \in 0..Cap BY ShellAssumption
<1>2. ShIs(NoShell) /\ NoShell.buf = 0 /\ NoShell.seen = 0 /\ NoShell.sent = FALSE /\ NoShell.phase = "off"
  BY <1>1 DEF NoShell, ShIs
<1>3. Spawned = [NoShell EXCEPT !.phase = "wait", !.child = "run"] BY DEF Spawned
<1>4. ShIs(Spawned) /\ Spawned.buf = 0 /\ Spawned.seen = 0 /\ Spawned.sent = FALSE /\ Spawned.phase = "wait"
  BY <1>2, <1>3 DEF ShIs
<1> QED BY <1>2, <1>4

LEMMA DrainedStarts ==
    ASSUME sh' = NoShell \/ sh' = Spawned
    PROVE  Drained'
<1> QED BY FreshShell DEF Drained

LEMMA DrainedInit == Init => Drained
<1> QED BY FreshShell DEF Init, Drained

LEMMA DrainedRuns ==
    ASSUME Drained, ShellNext
    PROVE  Drained'
<1>1. ShIs(sh) /\ Cap \in Nat BY ShellAssumption DEF Drained
<1>2. CASE ChildWrites
  <2>1. sh' = [sh EXCEPT !.wrote = @ + 1] /\ ~sh.sent BY <1>2 DEF ChildWrites, Drained
  <2>2. /\ ShIs(sh') /\ sh'.sent = sh.sent /\ sh'.over = sh.over /\ sh'.buf = sh.buf /\ sh'.seen = sh.seen
        /\ sh'.phase = sh.phase /\ sh'.got = sh.got /\ sh'.flooded = sh.flooded
    BY <1>1, <2>1 DEF ShIs
  <2> QED BY <2>1, <2>2 DEF Drained
<1>3. CASE ChildForks \/ ChildExits \/ GrandchildExits
  <2>1. \/ sh' = [sh EXCEPT !.held = TRUE] /\ ~sh.sent
        \/ sh' = [sh EXCEPT !.child = "gone"]
        \/ sh' = [sh EXCEPT !.held = FALSE]
    BY <1>3 DEF ChildForks, ChildExits, GrandchildExits, Drained
  <2>2. /\ ShIs(sh') /\ sh'.sent = sh.sent /\ sh'.over = sh.over /\ sh'.buf = sh.buf /\ sh'.seen = sh.seen
        /\ sh'.phase = sh.phase /\ sh'.got = sh.got /\ sh'.flooded = sh.flooded /\ sh'.wrote = sh.wrote
        /\ sh.sent => (sh'.child = sh.child \/ sh'.child = "gone") /\ (sh'.held = sh.held \/ ~sh'.held)
    BY <1>1, <2>1 DEF ShIs
  <2> QED BY <2>2 DEF Drained
<1>4. CASE ReaderReads
  <2> DEFINE buf == IF sh.buf < Cap THEN sh.buf + 1 ELSE sh.buf
             over == sh.over \/ sh.buf = Cap
  <2>1. sh' = [sh EXCEPT !.seen = @ + 1, !.buf = buf, !.over = over] /\ ~sh.sent
    BY <1>4 DEF ReaderReads
  <2>2. sh.buf \in 0..Cap /\ sh.seen \in Nat BY <1>1 DEF ShIs
  <2>3. buf \in 0..Cap BY <1>1, <2>2
  <2>4. ~over => buf = sh.seen + 1 BY <1>1, <2>2 DEF Drained
  <2> DEFINE read == sh.seen + 1
  <2>5. sh' = [sh EXCEPT !.seen = read, !.buf = buf, !.over = over] /\ read \in Nat BY <2>1, <2>2
  <2> HIDE DEF buf, over, read
  <2>6. /\ ShIs(sh') /\ sh'.sent = sh.sent /\ sh'.over = over /\ sh'.buf = buf /\ sh'.seen = read
        /\ sh'.phase = sh.phase /\ sh'.got = sh.got
    BY <1>1, <2>3, <2>5 DEF ShIs
  <2> QED BY <2>1, <2>4, <2>6 DEF Drained, read
<1>5. CASE ReaderEnds
  <2>1. sh' = [sh EXCEPT !.sent = TRUE] /\ sh.child = "gone" /\ ~sh.held /\ sh.seen = sh.wrote
    BY <1>5 DEF ReaderEnds
  <2>2. /\ ShIs(sh') /\ sh'.sent /\ sh'.over = sh.over /\ sh'.buf = sh.buf /\ sh'.seen = sh.seen
        /\ sh'.phase = sh.phase /\ sh'.got = sh.got /\ sh'.flooded = sh.flooded /\ sh'.wrote = sh.wrote
        /\ sh'.child = sh.child /\ sh'.held = sh.held
    BY <1>1, <2>1 DEF ShIs
  <2> QED BY <2>1, <2>2 DEF Drained
<1>6. CASE Poll
  <2>1. sh.phase = "wait" BY <1>6 DEF Poll
  <2>2. \/ sh' = [sh EXCEPT !.phase = "grace", !.flooded = TRUE, !.child = "gone"]
        \/ sh' = [sh EXCEPT !.phase = "grace"]
        \/ sh' = [sh EXCEPT !.phase = "grace", !.stopped = TRUE, !.child = "gone"]
        \/ sh' = [sh EXCEPT !.waited = @ + 1]
    BY <1>6 DEF Poll
  <2>3. /\ ShIs(sh') /\ sh'.sent = sh.sent /\ sh'.over = sh.over /\ sh'.buf = sh.buf /\ sh'.seen = sh.seen
        /\ sh'.phase # "done" /\ sh'.wrote = sh.wrote /\ sh'.held = sh.held
        /\ sh'.child = "gone" \/ sh'.child = sh.child
    BY <1>1, <2>1, <2>2 DEF ShIs
  <2> QED BY <2>3 DEF Drained
<1>7. CASE Collect
  <2> DEFINE flooded == sh.flooded \/ sh.over
  <2>1. PICK got \in {0, sh.buf} :
          sh' = [sh EXCEPT !.phase = "done", !.got = got, !.flooded = flooded] /\ (got = 0 \/ (sh.sent /\ got = sh.buf))
    BY <1>7 DEF Collect, Collected
  <2> HIDE DEF flooded
  <2>2. got \in Nat BY <1>1, <2>1 DEF ShIs
  <2>3. /\ ShIs(sh') /\ sh'.sent = sh.sent /\ sh'.over = sh.over /\ sh'.buf = sh.buf /\ sh'.seen = sh.seen
        /\ sh'.wrote = sh.wrote /\ sh'.held = sh.held /\ sh'.child = sh.child /\ sh'.flooded = flooded
        /\ sh'.got = got
    BY <1>1, <2>1, <2>2 DEF ShIs
  <2>4. sh.over => flooded BY DEF flooded
  <2>5. got > 0 => sh.sent /\ got = sh.buf BY <2>1, <2>2
  <2> QED BY <2>3, <2>4, <2>5 DEF Drained
<1> QED BY <1>2, <1>3, <1>4, <1>5, <1>6, <1>7 DEF ShellNext, Command, Reader, ShellHarness

LEMMA DrainedStep == Drained /\ [Next]_vars => Drained'
<1> SUFFICES ASSUME Drained, [Next]_vars PROVE Drained' OBVIOUS
<1> USE DEF talk, span, step, world, hosts
<1>1. ASSUME UNCHANGED sh PROVE Drained' BY <1>1 DEF Drained, ShIs
<1>2. CASE Reply \/ Swap \/ PersonAnswers \/ PersonLeaves \/ Sites \/ McpServer
  BY <1>1, <1>2 DEF Reply, Swap, PersonAnswers, PersonLeaves, Sites, McpServer
<1>3. CASE Shell_ BY <1>3, DrainedRuns DEF Shell_
<1>4. CASE Loop
  <2>1. CASE NextGroup \/ EndBatch \/ Prepare \/ WalkDir \/ WalkFile \/ Decide \/ Prompt \/ Answered \/ HungUp
    BY <1>1, <2>1 DEF NextGroup, EndBatch, Prepare, WalkDir, WalkFile, Decide, Prompt, Answered, HungUp
  <2>2. CASE Open \/ Recall \/ McpAsks \/ McpGoesOn \/ McpAnswered \/ McpFails
    BY <1>1, <2>2 DEF Open, Recall, McpAsks, McpGoesOn, McpAnswered, McpFails
  <2>3. CASE Fold \/ AllCached \/ NoBudget \/ ReadUnderQuarantine \/ ReaderFails
    BY <1>1, <2>3 DEF Fold, AllCached, NoBudget, ReadUnderQuarantine, ReaderFails, Push
  <2>4. ASSUME NEW n \in DOMAIN out[0], FileTool(n) \/ WebAsks(n) \/ WebTalks(n) PROVE Drained'
    BY <1>1, <2>4 DEF FileTool, WebAsks, WebTalks
  <2>5. ASSUME NEW n \in DOMAIN out[0], BashStarts(n) \/ BashEnds(n) PROVE Drained'
    BY <2>5, DrainedStarts DEF BashStarts, BashEnds
  <2> QED BY <1>4, <2>1, <2>2, <2>3, <2>4, <2>5 DEF Loop
<1>5. CASE UNCHANGED vars BY <1>1, <1>5 DEF vars
<1> QED BY <1>2, <1>3, <1>4, <1>5 DEF Next

-----------------------------------------------------------------------------
(* Every call is answered, once, by what was really returned for it *)

Own(o, i, docs) ==
    /\ o.class \in Classes /\ (o.of = i \/ (o.kind = "astray" /\ o.class = Observed))
    /\ o.doc # NoDoc => /\ o.class = Untrusted \/ o.kind = "server words"
                       /\ i \in DOMAIN docs /\ docs[i] = o.doc
OutOwn == \A k \in Layers : \A n \in DOMAIN out[k] :
             (k = 0 /\ out[k][n] = NoOut) \/ Own(out[k][n], ItemsOf(k)[n], seen.doc)

(* The requests of a server are numbered in the order they were made *)
Heard == /\ IsSeq(seen.asked) /\ Len(seen.asked) + 2 = mcp.id
         /\ mcp.phase # "rest" => Len(seen.asked) > 0 /\ seen.asked[Len(seen.asked)] = NextOf(McpLayer)

Ofs(s) == {s[n].of : n \in DOMAIN s}
OnceEach(s) == \A m, n \in DOMAIN s : s[m].of = s[n].of => m = n

(* Every call up to `done` is answered, or waits for the reader, and never both *)
Accounted == /\ IsSeq(blocks) /\ IsSeq(pend) /\ OnceEach(blocks) /\ OnceEach(pend)
             /\ Ofs(blocks) \cap Ofs(pend) = {} /\ Ofs(blocks) \cup Ofs(pend) = 1..done
             /\ pc # "condense" => pend = <<>>

Faithful(b, docs) ==
    /\ b.kind \in {"result", "note"} => b.from = b.of \/ b.astray
    /\ b.class > Untrusted
    /\ b.doc # NoDoc => /\ (b.kind = "note" /\ b.class = Inferred) \/ b.words
                       /\ b.of \in DOMAIN docs /\ docs[b.of] = b.doc
Unaltered(p, docs) ==
    p.from = p.of /\ (p.doc # NoDoc => p.of \in DOMAIN docs /\ docs[p.of] = p.doc)
Said == /\ \A n \in DOMAIN blocks : Faithful(blocks[n], seen.doc)
        /\ \A n \in DOMAIN pend : Unaltered(pend[n], seen.doc)

Answering == OutOwn /\ Heard /\ Accounted /\ Said /\ CacheUncontaminated

LEMMA AnswersInit == Init => Answering
<1> SUFFICES ASSUME Init PROVE Answering OBVIOUS
<1>1. blocks = <<>> /\ pend = <<>> /\ done = 0 /\ seen.asked = <<>> BY DEF Init
<1>2. OutOwn
  <2>1. \A k \in Layers : out[k] = <<>> BY DEF Init
  <2> QED BY <2>1, NoneIs DEF OutOwn
<1>3. mcp.id = 2 /\ mcp.phase = "rest" BY DEF Init, Connected
<1>4. Heard BY <1>1, <1>3, NoneIs DEF Heard
<1>5. Ofs(blocks) = {} /\ Ofs(pend) = {} /\ OnceEach(blocks) /\ OnceEach(pend)
  BY <1>1, NoneIs DEF Ofs, OnceEach
<1>6. Accounted BY <1>1, <1>5, NoneIs DEF Accounted
<1>7. Said BY <1>1, NoneIs DEF Said
<1> QED BY <1>2, <1>4, <1>6, <1>7 DEF Answering, Init, CacheUncontaminated

(* What the invariant says of the conversation *)
LEMMA OneEach ==
    ASSUME Shape, Answering
    PROVE  OneAnswerPerCall
<1>1. SUFFICES ASSUME pc = "idle", NEW i \in DOMAIN calls
               PROVE  Cardinality({n \in DOMAIN blocks : blocks[n].of = i}) = 1
  BY DEF OneAnswerPerCall
<1>2. pend = <<>> /\ Ofs(blocks) \cup Ofs(pend) = 1..done /\ OnceEach(blocks)
  BY <1>1 DEF Answering, Accounted
<1>3. DOMAIN calls = 1..Len(calls) /\ done = Len(calls) BY <1>1, LenProperties DEF Shape
<1>4. Ofs(pend) = {} BY <1>2, NoneIs DEF Ofs
<1>5. i \in Ofs(blocks) BY <1>2, <1>3, <1>4
<1>6. PICK n \in DOMAIN blocks : blocks[n].of = i BY <1>5 DEF Ofs
<1>7. {m \in DOMAIN blocks : blocks[m].of = i} = {n} BY <1>2, <1>6 DEF OnceEach
<1> QED BY <1>7, FS_Singleton

LEMMA AnswersMean ==
    ASSUME Shape, Answering, Drained
    PROVE  OwnAnswer /\ NothingRaw
<1>1. ASSUME NEW b \in Range(blocks) PROVE Faithful(b, seen.doc)
  <2>1. PICK n \in DOMAIN blocks : b = blocks[n] BY <1>1 DEF Range
  <2> QED BY <2>1 DEF Answering, Said
<1>2. NothingRaw BY <1>1 DEF NothingRaw, Faithful
<1>3. OneAnswerPerCall /\ CacheUncontaminated /\ CutIsTold BY OneEach, DrainedMeans DEF Answering
<1> QED BY <1>1, <1>2, <1>3 DEF OwnAnswer, Faithful

LEMMA Listed ==
    ASSUME done \in Nat, upto \in Nat, NEW S \in SUBSET Group
    PROVE  /\ IsSeq(InOrder(S)) /\ Len(InOrder(S)) \in Nat /\ DOMAIN InOrder(S) = 1..Len(InOrder(S))
           /\ \A n \in DOMAIN InOrder(S) : InOrder(S)[n] \in S
           /\ \A i \in S : \E n \in DOMAIN InOrder(S) : InOrder(S)[n] = i
           /\ \A m, n \in DOMAIN InOrder(S) : InOrder(S)[m] = InOrder(S)[n] => m = n
<1>1. S \in SUBSET Nat /\ IsFiniteSet(S) BY Within DEF Group
<1>2. /\ IsSeq(InOrder(S)) /\ \A n \in 1..Len(InOrder(S)) : InOrder(S)[n] \in S
      /\ \A i \in S : \E n \in 1..Len(InOrder(S)) : InOrder(S)[n] = i
      /\ \A m, n \in 1..Len(InOrder(S)) : InOrder(S)[m] = InOrder(S)[n] => m = n
  BY <1>1, InOrderIs
<1>3. Len(InOrder(S)) \in Nat /\ DOMAIN InOrder(S) = 1..Len(InOrder(S)) BY <1>2, SeqIs
<1> QED BY <1>2, <1>3

LEMMA RankIs ==
    ASSUME NEW s, NEW i, \E n \in DOMAIN s : s[n] = i
    PROVE  Rank(s, i) \in DOMAIN s /\ s[Rank(s, i)] = i
<1> QED BY DEF Rank

(* Nothing is answered *)
LEMMA AnswersKept ==
    ASSUME Shape, Answering, UNCHANGED <<calls, done, upto, prep, out, blocks, pend, cache, pc>>,
           seen'.doc = seen.doc, seen'.asked = seen.asked, mcp'.id = mcp.id,
           mcp'.phase # "rest" => mcp.phase # "rest"
    PROVE  Answering'
<1>1. \A k : ItemsOf(k)' = ItemsOf(k) BY ItemsStay
<1>2. OutOwn' BY <1>1 DEF Answering, OutOwn
<1>3. NextOf(McpLayer)' = NextOf(McpLayer) BY <1>1 DEF NextOf
<1>4. Heard' BY <1>3 DEF Answering, Heard
<1> QED BY <1>2, <1>4 DEF Answering, Accounted, Said, CacheUncontaminated, Ofs, OnceEach

(* Nobody is served yet, or any more *)
LEMMA AnswersBefore ==
    ASSUME Shape, Answering, UNCHANGED <<done, blocks, pend, cache, mcp>>,
           seen'.doc = seen.doc, seen'.asked = seen.asked,
           pc # "run", pc # "condense", \A k \in Layers : out'[k] = <<>>
    PROVE  Answering'
<1>1. OutOwn' BY NoneIs DEF OutOwn
<1>2. mcp.phase = "rest" BY DEF Shape, Waits
<1>3. Heard' BY <1>2 DEF Answering, Heard
<1> QED BY <1>1, <1>3 DEF Answering, Accounted, Said, CacheUncontaminated, Ofs, OnceEach

LEMMA AnswersQuiet ==
    ASSUME Shape, Answering,
           \/ Reply \/ NextGroup \/ EndBatch \/ Prepare \/ WalkDir \/ WalkFile \/ Decide \/ Prompt
           \/ Answered \/ HungUp \/ Shell_ \/ McpServer \/ Sites \/ Swap \/ PersonAnswers \/ PersonLeaves
           \/ UNCHANGED vars,
           Leave
    PROVE  Answering'
<1> USE DEF talk, span, step, world, hosts
<1>1. SeenIs(seen) BY DEF Leave
<1>2. CASE Reply \/ NextGroup \/ EndBatch \/ Prepare \/ WalkDir \/ WalkFile \/ Decide \/ Prompt
           \/ Answered \/ HungUp
  <2>1. UNCHANGED <<done, blocks, pend, cache, mcp>>
    BY <1>2 DEF Reply, NextGroup, EndBatch, Prepare, WalkDir, WalkFile, Decide, Prompt, Answered, HungUp
  <2>2. pc \in {"idle", "group"} \cup Preparing
    BY <1>2 DEF Reply, NextGroup, EndBatch, Prepare, WalkDir, WalkFile, Decide, Prompt, Answered, HungUp,
                Preparing
  <2>3. pc # "run" /\ pc # "condense" BY <2>2 DEF Preparing
  <2>4. out' = out \/ out' = [k \in Layers |-> <<>>]
    BY <1>2 DEF Reply, NextGroup, EndBatch, Prepare, WalkDir, WalkFile, Decide, Prompt, Answered, HungUp
  <2>5. \A k \in Layers : out'[k] = <<>> BY <2>3, <2>4 DEF Shape
  <2>6. \/ seen' = seen
        \/ \E s : seen' = [seen EXCEPT !.made = s]
        \/ \E s : seen' = [seen EXCEPT !.why = s]
    <3>1. CASE Reply \/ NextGroup \/ EndBatch \/ Prepare \/ WalkDir \/ Decide
      BY <3>1 DEF Reply, NextGroup, EndBatch, Prepare, WalkDir, Decide
    <3>2. CASE WalkFile BY <3>2 DEF WalkFile
    <3>3. CASE Prompt BY <3>3 DEF Prompt
    <3>4. CASE Answered BY <3>4 DEF Answered, Told
    <3>5. CASE HungUp BY <3>5 DEF HungUp, Told
    <3> QED BY <1>2, <3>1, <3>2, <3>3, <3>4, <3>5
  <2>7. seen'.doc = seen.doc /\ seen'.asked = seen.asked BY <1>1, <2>6 DEF SeenIs
  <2> QED BY <2>1, <2>3, <2>5, <2>7, AnswersBefore
<1>3. CASE Shell_ \/ Sites \/ Swap \/ PersonAnswers \/ PersonLeaves \/ UNCHANGED vars
  <2>1. UNCHANGED <<calls, done, upto, prep, out, blocks, pend, cache, pc, seen, mcp>>
    BY <1>3 DEF Shell_, Sites, Swap, PersonAnswers, PersonLeaves, vars
  <2> QED BY <2>1, AnswersKept
<1>4. CASE McpServer
  <2>1. UNCHANGED <<calls, done, upto, prep, out, blocks, pend, cache, pc, seen>> /\ mcp.phase # "rest"
    BY <1>4 DEF McpServer
  <2>2. McpIs(mcp) BY DEF Shape
  <2>3. mcp'.id = mcp.id
    <3>1. CASE ServerAnswers BY <2>2, <3>1 DEF McpIs, ServerAnswers
    <3>2. CASE ServerNotes BY <2>2, <3>2 DEF McpIs, ServerNotes
    <3>3. CASE ServerDies BY <2>2, <3>3 DEF McpIs, ServerDies
    <3>4. CASE TimePasses BY <2>2, <3>4 DEF McpIs, TimePasses
    <3> QED BY <1>4, <3>1, <3>2, <3>3, <3>4 DEF McpServer, Server
  <2> QED BY <2>1, <2>3, AnswersKept
<1> QED BY <1>2, <1>3, <1>4

(* What is learned of one call says nothing of the others *)
LEMMA StillOwn ==
    ASSUME Shape, Answering, pc = "run", NEW k \in Layers, NEW n \in DOMAIN ItemsOf(k),
           NEW i, i = ItemsOf(k)[n], NEW docs,
           \A j \in DOMAIN seen.doc : j # i => j \in DOMAIN docs /\ docs[j] = seen.doc[j]
    PROVE  /\ \A l \in Layers : \A m \in DOMAIN out[l] :
                 \/ l = k /\ m = n
                 \/ l = 0 /\ out[l][m] = NoOut
                 \/ Own(out[l][m], ItemsOf(l)[m], docs)
           /\ \A m \in DOMAIN blocks : Faithful(blocks[m], docs)
           /\ \A m \in DOMAIN pend : Unaltered(pend[m], docs)
<1>1. i \in Cleared /\ Layer[calls[i].tool] = k BY ItemsAre DEF Shape
<1>2. i \in done + 1..upto /\ done \in Nat /\ upto \in Nat BY <1>1 DEF Cleared, Group, Shape
<1>3. ASSUME NEW j \in 1..done PROVE j # i BY <1>2
<1>4. \A m \in DOMAIN blocks : blocks[m].of # i
  <2>1. TAKE m \in DOMAIN blocks
  <2>2. blocks[m].of \in Ofs(blocks) BY DEF Ofs
  <2>3. blocks[m].of \in 1..done BY <2>2 DEF Answering, Accounted
  <2> QED BY <1>3, <2>3
<1>5. \A m \in DOMAIN pend : pend[m].of # i
  <2>1. TAKE m \in DOMAIN pend
  <2>2. pend[m].of \in Ofs(pend) BY DEF Ofs
  <2>3. pend[m].of \in 1..done BY <2>2 DEF Answering, Accounted
  <2> QED BY <1>3, <2>3
<1>6. \A m \in DOMAIN blocks : Faithful(blocks[m], docs)
  <2>1. TAKE m \in DOMAIN blocks
  <2>2. Faithful(blocks[m], seen.doc) /\ blocks[m].of # i BY <1>4 DEF Answering, Said
  <2> QED BY <2>2 DEF Faithful
<1>7. \A m \in DOMAIN pend : Unaltered(pend[m], docs)
  <2>1. TAKE m \in DOMAIN pend
  <2>2. Unaltered(pend[m], seen.doc) /\ pend[m].of # i BY <1>5 DEF Answering, Said
  <2> QED BY <2>2 DEF Unaltered
<1>8. ASSUME NEW l \in Layers, NEW m \in DOMAIN out[l], ~(l = k /\ m = n), ~(l = 0 /\ out[l][m] = NoOut)
      PROVE  Own(out[l][m], ItemsOf(l)[m], docs)
  <2>1. Own(out[l][m], ItemsOf(l)[m], seen.doc) BY <1>8 DEF Answering, OutOwn
  <2>2. m \in DOMAIN ItemsOf(l)
    <3>1. IsSeq(out[l]) /\ Len(out[l]) <= Len(ItemsOf(l)) BY DEF Shape, Slots
    <3>2. Len(out[l]) \in Nat /\ DOMAIN out[l] = 1..Len(out[l]) BY <3>1, SeqIs
    <3>3. Len(ItemsOf(l)) \in Nat /\ DOMAIN ItemsOf(l) = 1..Len(ItemsOf(l)) BY ItemsAre DEF Shape
    <3> QED BY <3>1, <3>2, <3>3
  <2>3. ItemsOf(l)[m] # i
    <3>1. CASE l # k
      <4>1. Layer[calls[ItemsOf(l)[m]].tool] = l BY <2>2, ItemsAre DEF Shape
      <4> QED BY <1>1, <3>1, <4>1
    <3>2. CASE l = k
      <4>1. m # n BY <1>8, <3>2
      <4>2. \A x, y \in DOMAIN ItemsOf(k) : ItemsOf(k)[x] = ItemsOf(k)[y] => x = y BY ItemsAre DEF Shape
      <4>3. m \in DOMAIN ItemsOf(k) BY <2>2, <3>2
      <4> QED BY <3>2, <4>1, <4>2, <4>3
    <3> QED BY <3>1, <3>2
  <2> QED BY <2>1, <2>3 DEF Own
<1> QED BY <1>6, <1>7, <1>8

LEMMA AnswersFilled ==
    ASSUME Shape, Answering, pc = "run", UNCHANGED <<calls, done, upto, prep, pc, blocks, pend, cache, mcp>>,
           NEW n \in DOMAIN out[0], n \in DOMAIN ItemsOf(0), NEW o, Filled(n, o),
           Own(o, ItemsOf(0)[n], seen'.doc), seen'.asked = seen.asked,
           \A j \in DOMAIN seen.doc : j # ItemsOf(0)[n] => j \in DOMAIN seen'.doc /\ seen'.doc[j] = seen.doc[j]
    PROVE  Answering'
<1> DEFINE docs == seen'.doc
<1>1. \A k : ItemsOf(k)' = ItemsOf(k) BY ItemsStay
<1>2. DOMAIN out = Layers /\ 0 \in Layers /\ McpLayer \in Layers /\ McpLayer # 0
  BY DEF Shape, Layers, McpLayer
<1>3. /\ \A l \in Layers : \A m \in DOMAIN out[l] :
            \/ l = 0 /\ m = n
            \/ l = 0 /\ out[l][m] = NoOut
            \/ Own(out[l][m], ItemsOf(l)[m], docs)
      /\ \A m \in DOMAIN blocks : Faithful(blocks[m], docs)
      /\ \A m \in DOMAIN pend : Unaltered(pend[m], docs)
  BY <1>2, StillOwn
<1> HIDE DEF docs
<1>4. /\ \A l \in Layers : l # 0 => out'[l] = out[l]
      /\ DOMAIN out'[0] = DOMAIN out[0] /\ out'[0][n] = o /\ \A m \in DOMAIN out[0] : m # n => out'[0][m] = out[0][m]
  BY <1>2 DEF Filled
<1>5. Own(o, ItemsOf(0)[n], docs) BY DEF docs
<1>6. \A l \in Layers : \A m \in DOMAIN out'[l] :
         (l = 0 /\ out'[l][m] = NoOut) \/ Own(out'[l][m], ItemsOf(l)[m], docs)
  <2>1. TAKE l \in Layers
  <2>2. TAKE m \in DOMAIN out'[l]
  <2>3. CASE l # 0 BY <1>3, <1>4, <2>3
  <2>4. CASE l = 0 /\ m = n BY <1>4, <1>5, <2>4
  <2>5. CASE l = 0 /\ m # n BY <1>3, <1>4, <2>5
  <2> QED BY <2>3, <2>4, <2>5
<1>7. OutOwn' BY <1>1, <1>6 DEF OutOwn, docs
<1>8. Heard'
  <2>1. NextOf(McpLayer)' = NextOf(McpLayer) BY <1>1, <1>2, <1>4 DEF NextOf
  <2> QED BY <2>1 DEF Answering, Heard
<1>9. Said' BY <1>3 DEF Said, docs
<1> QED BY <1>7, <1>8, <1>9 DEF Answering, Accounted, CacheUncontaminated, Ofs, OnceEach

LEMMA AnswersServed ==
    ASSUME Shape, Answering, pc = "run", UNCHANGED <<calls, done, upto, prep, pc, blocks, pend, cache>>,
           NEW k \in Layers \ {0}, Len(out[k]) < Len(ItemsOf(k)),
           NEW o, out' = [out EXCEPT ![k] = Append(@, o)],
           Own(o, NextOf(k), seen'.doc), seen'.asked = seen.asked, mcp'.id = mcp.id,
           mcp'.phase = "rest" \/ (k # McpLayer /\ mcp' = mcp),
           \A j \in DOMAIN seen.doc : j # NextOf(k) => j \in DOMAIN seen'.doc /\ seen'.doc[j] = seen.doc[j]
    PROVE  Answering'
<1> DEFINE docs == seen'.doc
           n == Len(out[k]) + 1
<1>1. \A l : ItemsOf(l)' = ItemsOf(l) BY ItemsStay
<1>2. DOMAIN out = Layers /\ IsSeq(out[k]) BY DEF Shape, Slots
<1>3. Len(out[k]) \in Nat /\ DOMAIN out[k] = 1..Len(out[k]) BY <1>2, SeqIs
<1>4. n \in DOMAIN ItemsOf(k) /\ ItemsOf(k)[n] = NextOf(k)
  <2>1. Len(ItemsOf(k)) \in Nat /\ DOMAIN ItemsOf(k) = 1..Len(ItemsOf(k)) BY ItemsAre DEF Shape
  <2> QED BY <1>3, <2>1 DEF NextOf
<1>5. /\ IsSeq(Append(out[k], o)) /\ Len(Append(out[k], o)) = Len(out[k]) + 1
      /\ \A m \in 1..Len(out[k]) : Append(out[k], o)[m] = out[k][m]
      /\ Append(out[k], o)[n] = o
  BY <1>2, AppendIs
<1>6. DOMAIN Append(out[k], o) = 1..Len(out[k]) + 1 BY <1>5, SeqIs
<1>7. /\ \A l \in Layers : \A m \in DOMAIN out[l] :
            \/ l = k /\ m = n
            \/ l = 0 /\ out[l][m] = NoOut
            \/ Own(out[l][m], ItemsOf(l)[m], docs)
      /\ \A m \in DOMAIN blocks : Faithful(blocks[m], docs)
      /\ \A m \in DOMAIN pend : Unaltered(pend[m], docs)
  <2> HIDE DEF n
  <2> QED BY <1>4, StillOwn
<1>8. Own(o, ItemsOf(k)[n], docs) BY <1>4
<1>9. /\ \A l \in Layers : l # k => out'[l] = out[l]
      /\ out'[k] = Append(out[k], o)
  BY <1>2
<1>14. n \notin DOMAIN out[k] /\ \A m \in 1..Len(out[k]) + 1 : m \in DOMAIN out[k] \/ m = n BY <1>3
<1> HIDE DEF docs, n
<1>10. \A l \in Layers : \A m \in DOMAIN out'[l] :
         (l = 0 /\ out'[l][m] = NoOut) \/ Own(out'[l][m], ItemsOf(l)[m], docs)
  <2>1. TAKE l \in Layers
  <2>2. TAKE m \in DOMAIN out'[l]
  <2>3. CASE l # k BY <1>7, <1>9, <2>3
  <2>4. CASE l = k /\ m = n BY <1>5, <1>8, <1>9, <2>4
  <2>5. CASE l = k /\ m # n
    <3>1. m \in DOMAIN out[k] BY <1>6, <1>9, <1>14, <2>2, <2>5
    <3>2. out'[k][m] = out[k][m] BY <1>3, <1>5, <1>9, <3>1
    <3> QED BY <1>7, <2>5, <3>1, <3>2
  <2> QED BY <2>3, <2>4, <2>5
<1>11. OutOwn' BY <1>1, <1>10 DEF OutOwn, docs
<1>12. Heard'
  <2>1. CASE mcp'.phase = "rest" BY <2>1 DEF Answering, Heard
  <2>2. CASE k # McpLayer /\ mcp' = mcp
    <3>1. McpLayer \in Layers BY DEF McpLayer, Layers
    <3>2. NextOf(McpLayer)' = NextOf(McpLayer) BY <1>1, <1>9, <2>2, <3>1 DEF NextOf
    <3> QED BY <2>2, <3>2 DEF Answering, Heard
  <2> QED BY <2>1, <2>2
<1>13. Said' BY <1>7 DEF Said, docs
<1> QED BY <1>11, <1>12, <1>13 DEF Answering, Accounted, CacheUncontaminated, Ofs, OnceEach

LEMMA WithIs ==
    ASSUME NEW f, NEW i, NEW v
    PROVE  /\ i \in DOMAIN With(f, i, v) /\ With(f, i, v)[i] = v
           /\ \A j \in DOMAIN f : j # i => j \in DOMAIN With(f, i, v) /\ With(f, i, v)[j] = f[j]
<1> QED BY DEF With

LEMMA OwnIs ==
    ASSUME NEW i, NEW docs
    PROVE  /\ \A kind : Own([of |-> i, class |-> Observed, kind |-> kind, doc |-> NoDoc], i, docs)
           /\ Own(Fact(i), i, docs) /\ Own(Failure(i), i, docs)
           /\ \A d : i \in DOMAIN docs /\ docs[i] = d => Own(Text(i, d), i, docs)
<1> QED BY DEF Own, Fact, Failure, Text, Observed, Untrusted, Classes

(* The innermost host answers for the call at its own place *)
LEMMA AnswersFiles ==
    ASSUME Shape, Leave, Answering, NEW n \in DOMAIN out[0], FileTool(n) \/ BashEnds(n)
    PROVE  Answering'
<1> USE DEF talk, span, step, world, hosts
<1> DEFINE i == ItemsOf(0)[n]
<1>1. SeenIs(seen) BY DEF Leave
<1>2. UNCHANGED <<calls, done, upto, prep, pc, blocks, pend, cache, mcp>> BY DEF FileTool, BashEnds
<1>3. ASSUME NEW o, Filled(n, o), Own(o, i, seen'.doc), seen'.asked = seen.asked,
             \A j \in DOMAIN seen.doc : j # i => j \in DOMAIN seen'.doc /\ seen'.doc[j] = seen.doc[j]
      PROVE  Answering'
  <2>1. pc = "run" /\ n \in DOMAIN ItemsOf(0)
    <3>1. UNCHANGED <<left>> BY DEF FileTool, BashEnds
    <3> QED BY <1>2, <1>3, <3>1, ShapeFilled
  <2> QED BY <1>2, <1>3, <2>1, AnswersFilled
<1> HIDE DEF i
<1>4. ASSUME NEW o \in {Fact(i), Failure(i)}, Filled(n, o),
             seen'.doc = seen.doc, seen'.asked = seen.asked
      PROVE  Answering'
  <2>1. Own(o, i, seen'.doc) BY <1>4, OwnIs
  <2> QED BY <1>3, <1>4, <2>1
<1>5. CASE BashEnds(n)
  <2>1. \E o \in {Fact(i), Failure(i)} : Filled(n, o) BY <1>5 DEF BashEnds, i
  <2>2. seen' = seen BY <1>5 DEF BashEnds
  <2> QED BY <1>4, <2>1, <2>2
<1>6. CASE FileTool(n)
  <2>1. \/ WriteFile(n, i) \/ EditFile(n, i) \/ ReadFile(n, i) \/ GlobFiles(n, i) \/ GrepFiles(n, i)
        \/ ReadRef(n, i) \/ NoAddress(n, i)
    BY <1>6 DEF FileTool, i
  <2>2. \/ (\E o \in {Fact(i), Failure(i)} : Filled(n, o)) /\ \E obj : seen' = Acted(i, obj)
        \/ \E d : Filled(n, Text(i, d)) /\ seen' = Learned(i, d)
    <3>1. CASE WriteFile(n, i) BY <3>1 DEF WriteFile
    <3>2. CASE EditFile(n, i) BY <3>2 DEF EditFile
    <3>3. CASE ReadFile(n, i) BY <3>3 DEF ReadFile
    <3>4. CASE GlobFiles(n, i)
      <4>1. Filled(n, Fact(i)) /\ (seen' = Acted(i, "names outside") \/ seen' = Acted(i, "own"))
        BY <3>4 DEF GlobFiles
      <4> QED BY <4>1
    <3>5. CASE GrepFiles(n, i)
      <4>1. (Filled(n, Fact(i)) \/ Filled(n, Failure(i)))
            /\ (seen' = Acted(i, "none") \/ seen' = Acted(i, "own"))
        BY <3>5 DEF GrepFiles
      <4> QED BY <4>1
    <3>6. CASE ReadRef(n, i) BY <3>6 DEF ReadRef
    <3>7. CASE NoAddress(n, i) BY <3>7 DEF NoAddress
    <3> QED BY <2>1, <3>1, <3>2, <3>3, <3>4, <3>5, <3>6, <3>7
  <2>3. ASSUME NEW obj, seen' = Acted(i, obj) PROVE seen'.doc = seen.doc /\ seen'.asked = seen.asked
    BY <1>1, <2>3, ActedIs
  <2>4. ASSUME NEW d, Filled(n, Text(i, d)), seen' = Learned(i, d) PROVE Answering'
    <3>1. seen'.doc = With(seen.doc, i, d) /\ seen'.asked = seen.asked BY <1>1, <2>4, LearnedIs
    <3>2. i \in DOMAIN seen'.doc /\ seen'.doc[i] = d BY <3>1, WithIs
    <3>3. Own(Text(i, d), i, seen'.doc) BY <3>2, OwnIs
    <3>4. \A j \in DOMAIN seen.doc : j # i => j \in DOMAIN seen'.doc /\ seen'.doc[j] = seen.doc[j]
      BY <3>1, WithIs
    <3> QED BY <1>3, <2>4, <3>1, <3>3, <3>4
  <2> QED BY <1>4, <2>2, <2>3, <2>4
<1> QED BY <1>5, <1>6

(* A fetch answers for the call it was made for, or its connection's server wrote astray *)
LEMMA AnswersWeb ==
    ASSUME Shape, Leave, Fetches, Answering, NEW n \in DOMAIN out[0], WebTalks(n)
    PROVE  Answering'
<1> USE DEF talk, span, step, world, hosts
<1> DEFINE i == ItemsOf(0)[n]
           r == net.work[i].answer
<1>1. SeenIs(seen) BY DEF Leave
<1>2. UNCHANGED <<calls, done, upto, prep, pc, blocks, pend, cache, mcp, left>> BY DEF WebTalks
<1>3. seen'.doc = seen.doc /\ seen'.asked = seen.asked
  <2>1. seen' = seen \/ \E s : seen' = [seen EXCEPT !.read = s] BY DEF WebTalks, WebReads
  <2> QED BY <1>1, <2>1 DEF SeenIs
<1>4. From(i) = i \/ net.work[i].conn.astray
  <2>1. i \in DOMAIN net.work BY DEF WebTalks, Busy
  <2>2. net.work[i].conn.rest # NoCall => net.work[i].conn.astray BY <2>1 DEF Fetches, WorkIs, Spare, Stale
  <2> QED BY <2>2 DEF From
<1>5. \/ out' = out \/ Filled(n, Failure(i))
      \/ \E kind : Filled(n, Answered_([of |-> i, class |-> Observed, kind |-> kind, doc |-> NoDoc], i))
  <2>1. \/ UNCHANGED <<out, store, seen>> \/ Filled(n, Failure(i))
        \/ Filled(n, Answered_(Failure(i), i)) \/ WebReads(n, i, r)
    BY DEF WebTalks
  <2> HIDE DEF i, r
  <2>2. \A kind : [Fact(i) EXCEPT !.kind = kind] = [of |-> i, class |-> Observed, kind |-> kind, doc |-> NoDoc]
    BY DEF Fact
  <2>3. Failure(i) = [of |-> i, class |-> Observed, kind |-> Failure(i).kind, doc |-> NoDoc]
        /\ Fact(i) = [of |-> i, class |-> Observed, kind |-> Fact(i).kind, doc |-> NoDoc]
    BY DEF Failure, Fact
  <2>4. CASE WebReads(n, i, r)
    <3>1. \/ Filled(n, Answered_([Fact(i) EXCEPT !.kind = RedirectTo(r.location)], i))
          \/ Filled(n, Answered_(Failure(i), i)) \/ Filled(n, Answered_(Fact(i), i))
      BY <2>4 DEF WebReads
    <3> QED BY <2>2, <2>3, <3>1
  <2> QED BY <2>1, <2>3, <2>4
<1> HIDE DEF i, r
<1>6. \E o : out' = out \/ (Filled(n, o) /\ Own(o, i, seen'.doc))
  <2>1. Own(Failure(i), i, seen'.doc) BY OwnIs
  <2>2. ASSUME NEW kind,
               Filled(n, Answered_([of |-> i, class |-> Observed, kind |-> kind, doc |-> NoDoc], i))
        PROVE  \E o : Filled(n, o) /\ Own(o, i, seen'.doc)
    <3> DEFINE o == [of |-> i, class |-> Observed, kind |-> kind, doc |-> NoDoc]
               k == IF net.work[i].conn.astray THEN "astray" ELSE kind
    <3> HIDE DEF k
    <3> DEFINE q == [of |-> From(i), class |-> Observed, kind |-> k, doc |-> NoDoc]
    <3>1. [o EXCEPT !.of = From(i), !.kind = k] = q
      <4> DEFINE m == [of |-> From(i), class |-> Observed, kind |-> kind, doc |-> NoDoc]
      <4>1. [o EXCEPT !.of = From(i)] = m OBVIOUS
      <4>2. [m EXCEPT !.kind = k] = q OBVIOUS
      <4> HIDE DEF o, m, q
      <4> QED BY <4>1, <4>2
    <3>2. o.kind = kind OBVIOUS
    <3> HIDE DEF o
    <3>3. Answered_(o, i) = q BY <3>1, <3>2 DEF Answered_, k
    <3>4. k = "astray" \/ From(i) = i BY <1>4 DEF k
    <3>5. Own(q, i, seen'.doc) BY <3>4 DEF Own, Observed, Classes
    <3>6. Filled(n, q) BY <2>2, <3>3 DEF o
    <3> HIDE DEF q
    <3> QED BY <3>5, <3>6
  <2> QED BY <1>5, <2>1, <2>2
<1>7. CASE out' = out BY <1>2, <1>3, <1>7, AnswersKept
<1>8. ASSUME NEW o, Filled(n, o), Own(o, i, seen'.doc) PROVE Answering'
  <2>1. pc = "run" /\ n \in DOMAIN ItemsOf(0) BY <1>2, <1>8, ShapeFilled
  <2> QED BY <1>2, <1>3, <1>8, <2>1, AnswersFilled DEF i
<1> QED BY <1>6, <1>7, <1>8

(* The wrappers serve one item after the other *)
LEMMA AnswersLayers ==
    ASSUME Shape, Leave, Answering, Open \/ Recall \/ McpAsks \/ McpGoesOn \/ McpAnswered \/ McpFails
    PROVE  Answering'
<1> USE DEF talk, span, step, world, hosts
<1>1. SeenIs(seen) /\ McpIs(mcp) BY DEF Leave, Shape
<1>2. McpLayer \in Layers \ {0} /\ 1 \in Layers \ {0} /\ 1 # McpLayer BY DEF Layers, McpLayer
<1>3. CASE Open
  <2>1. /\ UNCHANGED <<calls, done, upto, prep, pc, blocks, pend, cache, mcp, seen>>
        /\ out' = [out EXCEPT ![0] = [n \in DOMAIN ItemsOf(0) |-> NoOut]]
    BY <1>3 DEF Open
  <2>2. \A l \in Layers : l # 0 => out'[l] = out[l] BY <2>1 DEF Shape
  <2>3. \A m \in DOMAIN out'[0] : out'[0][m] = NoOut BY <2>1 DEF Shape, Layers
  <2>4. \A k : ItemsOf(k)' = ItemsOf(k) BY <2>1, ItemsStay
  <2>5. OutOwn' BY <2>1, <2>2, <2>3, <2>4 DEF OutOwn, Answering
  <2>6. NextOf(McpLayer)' = NextOf(McpLayer) BY <1>2, <2>2, <2>4 DEF NextOf
  <2>7. Heard' BY <2>1, <2>6 DEF Heard, Answering
  <2> QED BY <2>1, <2>5, <2>7 DEF Answering, Accounted, Said, CacheUncontaminated, Ofs, OnceEach
<1>4. CASE Recall
  <2>1. /\ UNCHANGED <<calls, done, upto, prep, pc, blocks, pend, cache, mcp>> /\ pc = "run"
        /\ Len(out[1]) < Len(ItemsOf(1))
    BY <1>4 DEF Recall, Started
  <2>2. PICK i : i = NextOf(1) OBVIOUS
  <2>3. PICK d \in Docs \cup {NoDoc} :
          /\ out' = [out EXCEPT ![1] = Append(@, IF d = NoDoc THEN Fact(i) ELSE Text(i, d))]
          /\ seen' = IF d = NoDoc THEN Acted(i, "none") ELSE Learned(i, d)
    BY <1>4, <2>2 DEF Recall
  <2>4. CASE d = NoDoc
    <3>1. out' = [out EXCEPT ![1] = Append(@, Fact(i))] BY <2>3, <2>4
    <3>2. seen'.doc = seen.doc /\ seen'.asked = seen.asked BY <1>1, <2>3, <2>4, ActedIs
    <3>3. Own(Fact(i), NextOf(1), seen'.doc) BY <2>2, OwnIs
    <3> QED BY <1>2, <2>1, <3>1, <3>2, <3>3, AnswersServed
  <2>5. CASE d # NoDoc
    <3>1. out' = [out EXCEPT ![1] = Append(@, Text(i, d))] BY <2>3, <2>5
    <3>2. seen'.doc = With(seen.doc, i, d) /\ seen'.asked = seen.asked BY <1>1, <2>3, <2>5, LearnedIs
    <3>3. i \in DOMAIN seen'.doc /\ seen'.doc[i] = d BY <3>2, WithIs
    <3>4. Own(Text(i, d), NextOf(1), seen'.doc) BY <2>2, <3>3, OwnIs
    <3>5. \A j \in DOMAIN seen.doc : j # NextOf(1) => j \in DOMAIN seen'.doc /\ seen'.doc[j] = seen.doc[j]
      BY <2>2, <3>2, WithIs
    <3> QED BY <1>2, <2>1, <3>1, <3>2, <3>4, <3>5, AnswersServed
  <2> QED BY <2>4, <2>5
<1>5. CASE McpAsks
  <2> DEFINE next == NextOf(McpLayer)
             a == Acted(next, "none")
  <2>1. /\ UNCHANGED <<calls, done, upto, prep, pc, out, blocks, pend, cache>>
        /\ mcp' = Sent /\ seen' = [a EXCEPT !.asked = Append(@, next)]
    BY <1>5 DEF McpAsks
  <2>2. SeenIs(a) /\ a.doc = seen.doc /\ a.asked = seen.asked BY <1>1, ActedIs
  <2> HIDE DEF a, next
  <2>3. seen'.doc = seen.doc /\ seen'.asked = Append(seen.asked, next)
    <3> DEFINE s == Append(a.asked, next)
    <3>1. seen' = [a EXCEPT !.asked = s] BY <2>1
    <3> HIDE DEF s
    <3>2. seen'.doc = a.doc /\ seen'.asked = s BY <2>2, <3>1 DEF SeenIs
    <3> QED BY <2>2, <3>2 DEF s
  <2>4. mcp'.id = mcp.id + 1 BY <1>1, <2>1 DEF Sent, McpIs
  <2>5. \A k : ItemsOf(k)' = ItemsOf(k) BY <2>1, ItemsStay
  <2>6. NextOf(McpLayer)' = next BY <2>1, <2>5 DEF NextOf, next
  <2>7. Heard'
    <3>1. IsSeq(seen.asked) /\ Len(seen.asked) + 2 = mcp.id BY DEF Answering, Heard
    <3>2. /\ IsSeq(Append(seen.asked, next)) /\ Len(Append(seen.asked, next)) = Len(seen.asked) + 1
          /\ Append(seen.asked, next)[Len(seen.asked) + 1] = next /\ Len(seen.asked) \in Nat
      BY <3>1, AppendIs, SeqIs
    <3>3. IsSeq(seen'.asked) /\ Len(seen'.asked) = Len(seen.asked) + 1 /\ seen'.asked[Len(seen'.asked)] = next
      BY <2>3, <3>2
    <3>4. Len(seen'.asked) > 0 /\ Len(seen'.asked) + 2 = mcp'.id BY <2>4, <3>1, <3>2, <3>3
    <3> QED BY <2>6, <3>3, <3>4 DEF Heard
  <2>8. OutOwn' BY <2>1, <2>3, <2>5 DEF OutOwn, Answering
  <2>9. Accounted' /\ CacheUncontaminated'
    <3>1. UNCHANGED <<done, pc, blocks, pend, cache>> BY <2>1
    <3>2. Accounted /\ CacheUncontaminated BY DEF Answering
    <3> QED BY ONLY <3>1, <3>2 DEF Accounted, CacheUncontaminated, Ofs, OnceEach
  <2>10. Said' BY <2>1, <2>3 DEF Answering, Said
  <2> QED BY <2>7, <2>8, <2>9, <2>10 DEF Answering
<1>6. CASE McpGoesOn
  <2>1. UNCHANGED <<calls, done, upto, prep, pc, out, blocks, pend, cache, seen>> /\ (Blocks \/ Skip)
    BY <1>6 DEF McpGoesOn
  <2>2. mcp.phase # "rest" BY <2>1 DEF Blocks, Skip, Arrived, AtTop
  <2>3. mcp'.id = mcp.id BY <1>1, <2>1 DEF Blocks, Skip, McpIs
  <2> QED BY <2>1, <2>2, <2>3, AnswersKept
<1>7. ASSUME McpAnswered \/ McpFails
      PROVE  /\ UNCHANGED <<calls, done, upto, prep, pc, blocks, pend, cache>> /\ mcp.phase # "rest"
             /\ mcp'.id = mcp.id /\ mcp'.phase = "rest"
             /\ pc = "run" /\ Len(out[McpLayer]) < Len(ItemsOf(McpLayer))
  <2>1. mcp.phase # "rest" /\ (mcp' = AfterTaken \/ mcp' = AfterError)
    BY <1>7 DEF McpAnswered, McpFails, Taken, Arrived, TimedOut, AtTop, Closed
  <2>2. mcp'.id = mcp.id /\ mcp'.phase = "rest" BY <1>1, <2>1 DEF McpIs, AfterTaken, AfterError
  <2> QED BY <1>7, <2>1, <2>2 DEF McpAnswered, McpFails, Shape, Waits
<1>8. CASE McpFails
  <2>1. out' = [out EXCEPT ![McpLayer] = Append(@, Failure(NextOf(McpLayer)))] /\ seen' = seen
    BY <1>8 DEF McpFails, Served
  <2>2. Own(Failure(NextOf(McpLayer)), NextOf(McpLayer), seen'.doc) BY OwnIs
  <2> QED BY <1>2, <1>7, <1>8, <2>1, <2>2, AnswersServed
<1>9. CASE McpAnswered
  <2> DEFINE i == seen.asked[Head(mcp.lines).id - 2]
             said(d) == [of |-> i, class |-> Observed, kind |-> "server words", doc |-> d]
  <2>1. i = NextOf(McpLayer)
    <3>1. Head(mcp.lines).id = mcp.id BY <1>9 DEF McpAnswered, Taken, Matches
    <3>2. Len(seen.asked) + 2 = mcp.id /\ IsSeq(seen.asked) /\ seen.asked[Len(seen.asked)] = NextOf(McpLayer)
      BY <1>7, <1>9 DEF Answering, Heard
    <3>3. Len(seen.asked) \in Nat BY <3>2, SeqIs
    <3>4. Head(mcp.lines).id - 2 = Len(seen.asked) BY <3>1, <3>2, <3>3
    <3> QED BY <3>2, <3>4
  <2>2. PICK d \in Docs : /\ Served(Text(i, d)) \/ Served(said(d))
                         /\ seen' = [seen EXCEPT !.doc = With(@, i, d)]
    BY <1>9 DEF McpAnswered
  <2>3. PICK o : Served(o) /\ (o = Text(i, d) \/ o = said(d)) BY <2>2
  <2> HIDE DEF i
  <2>4. seen'.doc = With(seen.doc, i, d) /\ seen'.asked = seen.asked
    <3> DEFINE s == With(seen.doc, i, d)
    <3>1. seen' = [seen EXCEPT !.doc = s] BY <2>2
    <3> HIDE DEF s
    <3>2. seen'.doc = s /\ seen'.asked = seen.asked BY <1>1, <3>1 DEF SeenIs
    <3> QED BY <3>2 DEF s
  <2>5. i \in DOMAIN seen'.doc /\ seen'.doc[i] = d BY <2>4, WithIs
  <2>6. Own(said(d), i, seen'.doc) BY <2>5 DEF Own, Observed, Classes
  <2> HIDE DEF said
  <2>7. Own(o, NextOf(McpLayer), seen'.doc) BY <2>1, <2>3, <2>5, <2>6, OwnIs
  <2>8. \A j \in DOMAIN seen.doc :
           j # NextOf(McpLayer) => j \in DOMAIN seen'.doc /\ seen'.doc[j] = seen.doc[j]
    BY <2>1, <2>4, WithIs
  <2>9. out' = [out EXCEPT ![McpLayer] = Append(@, o)] BY <2>3 DEF Served
  <2> QED BY <1>2, <1>7, <1>9, <2>4, <2>7, <2>8, <2>9, AnswersServed
<1> QED BY <1>3, <1>4, <1>5, <1>6, <1>8, <1>9

-----------------------------------------------------------------------------
(* Folding back: what the layers return, one over the other *)

LEMMA LayerIs ==
    ASSUME Shape, Leave, pc = "run", NEW i \in Cleared
    PROVE  i \in DOMAIN calls /\ Layer[calls[i].tool] \in Layers
<1>1. i \in done + 1..upto /\ prep[i - done].ok BY DEF Cleared, Group
<1>2. /\ done \in Nat /\ upto \in Nat /\ DOMAIN prep = 1..Len(prep) /\ Len(prep) \in Nat
      /\ done + Len(prep) = upto /\ upto <= Len(calls)
      /\ DOMAIN calls = 1..Len(calls) /\ Len(calls) \in Nat
  BY LenProperties DEF Shape, OpenGroup, Grouped
<1>3. i - done \in DOMAIN prep /\ done + (i - done) = i /\ i \in DOMAIN calls BY <1>1, <1>2
<1>4. Allowed(done + (i - done), floor) BY <1>1, <1>3 DEF Leave, SoFar, Grouped
<1>5. Registered(calls[i]) BY <1>3, <1>4 DEF Allowed
<1> QED BY <1>3, <1>5, BatchAssumption DEF Registered

LEMMA ReturnedIs ==
    Returned[0] = out[0] /\ Returned[1] = Merged(1, Returned[0]) /\ Returned[2] = Merged(2, Returned[1])
<1> DEFINE G(f) == [k \in Layers |-> IF k = 0 THEN out[0] ELSE Merged(k, f[k - 1])]
           R1 == Merged(1, out[0])
           R2 == Merged(2, R1)
           all == [k \in Layers |-> IF k = 0 THEN out[0] ELSE IF k = 1 THEN R1 ELSE R2]
<1>1. Returned = CHOOSE f : f = G(f) BY DEF Returned
<1>2. 0 \in Layers /\ 1 \in Layers /\ 2 \in Layers /\ \A k \in Layers : k = 0 \/ k = 1 \/ k = 2
  BY DEF Layers
<1>3. all = G(all)
  <2>1. all[0] = out[0] /\ all[1] = R1 BY <1>2
  <2> HIDE DEF all
  <2>2. \A k \in Layers : all[k] = IF k = 0 THEN out[0] ELSE Merged(k, all[k - 1])
    <3>1. TAKE k \in Layers
    <3>2. CASE k = 0 BY <2>1, <3>2
    <3>3. CASE k = 1 BY <2>1, <3>3
    <3>4. CASE k = 2
      <4>1. all[2] = R2 BY <1>2 DEF all
      <4> QED BY <2>1, <3>4, <4>1
    <3> QED BY <1>2, <3>2, <3>3, <3>4
  <2>3. all = [k \in Layers |-> all[k]] BY DEF all
  <2> QED BY <2>2, <2>3
<1> HIDE DEF all, R1, R2
<1>4. Returned = G(Returned) BY <1>1, <1>3
<1>5. Returned = [k \in Layers |-> IF k = 0 THEN out[0] ELSE Merged(k, Returned[k - 1])] BY <1>4
<1> HIDE DEF G
<1>6. Returned[0] = out[0] /\ Returned[1] = Merged(1, Returned[1 - 1]) /\ Returned[2] = Merged(2, Returned[2 - 1])
  BY ONLY <1>2, <1>5
<1> QED BY <1>6

(* Outcome `n` of what is returned is that of item `n` *)
Given(items, s) == /\ DOMAIN s = DOMAIN items
                   /\ \A n \in DOMAIN items : Own(s[n], items[n], seen.doc)

LEMMA BelowAre ==
    ASSUME done \in Nat, upto \in Nat, NEW k
    PROVE  LET items == ItemsBelow(k)
           IN /\ \A n \in DOMAIN items : items[n] \in Cleared /\ Layer[calls[items[n]].tool] <= k
              /\ \A i \in Cleared : Layer[calls[i].tool] <= k => \E n \in DOMAIN items : items[n] = i
<1> DEFINE S == {i \in Cleared : Layer[calls[i].tool] <= k}
<1>1. S \in SUBSET Group /\ \A i : i \in S <=> i \in Cleared /\ Layer[calls[i].tool] <= k BY DEF Cleared
<1>2. ItemsBelow(k) = InOrder(S) BY DEF ItemsBelow
<1> HIDE DEF S
<1>3. /\ \A n \in DOMAIN InOrder(S) : InOrder(S)[n] \in S
      /\ \A i \in S : \E n \in DOMAIN InOrder(S) : InOrder(S)[n] = i
  BY <1>1, Listed
<1> QED BY <1>1, <1>2, <1>3

(* When all are served, every host's outcomes are those of its items *)
LEMMA ServedAre ==
    ASSUME Shape, Answering, pc = "run", AllServed, NEW k \in Layers
    PROVE  Given(ItemsOf(k), out[k])
<1>1. k < McpLayer + 1 BY DEF McpLayer, Layers
<1>2. Len(out[k]) = Len(ItemsOf(k)) /\ \A n \in DOMAIN out[k] : out[k][n] # NoOut
  BY <1>1 DEF AllServed, Started
<1>3. DOMAIN out[k] = 1..Len(out[k]) BY SeqIs DEF Shape, Slots
<1>4. DOMAIN ItemsOf(k) = 1..Len(ItemsOf(k)) BY ItemsAre DEF Shape
<1> QED BY <1>2, <1>3, <1>4 DEF Answering, OutOwn, Given

LEMMA MergedIs ==
    ASSUME Shape, Leave, Answering, pc = "run", AllServed, NEW k \in {1, 2},
           NEW inner, Given(ItemsBelow(k - 1), inner)
    PROVE  Given(ItemsBelow(k), Merged(k, inner))
<1> DEFINE items == ItemsBelow(k)
           own == ItemsOf(k)
           under == ItemsBelow(k - 1)
<1>1. k \in Layers /\ k \in Nat /\ k - 1 \in Nat BY DEF Layers
<1>2. Given(own, out[k]) BY <1>1, ServedAre
<1>3. /\ \A n \in DOMAIN items : items[n] \in Cleared /\ Layer[calls[items[n]].tool] <= k
      /\ \A i \in Cleared : Layer[calls[i].tool] <= k - 1 => \E n \in DOMAIN under : under[n] = i
      /\ \A i \in Cleared : Layer[calls[i].tool] = k => \E n \in DOMAIN own : own[n] = i
  <2>1. done \in Nat /\ upto \in Nat BY DEF Shape
  <2>2. \A n \in DOMAIN items : items[n] \in Cleared /\ Layer[calls[items[n]].tool] <= k
    BY <2>1, BelowAre, Zenon
  <2>3. \A i \in Cleared : Layer[calls[i].tool] <= k - 1 => \E n \in DOMAIN under : under[n] = i
    BY <2>1, BelowAre, Zenon
  <2>4. \A i \in Cleared : Layer[calls[i].tool] = k => \E n \in DOMAIN own : own[n] = i
    BY <2>1, ItemsAre, Zenon
  <2> QED BY <2>2, <2>3, <2>4
<1>4. \A i \in Cleared : Layer[calls[i].tool] \in Nat BY LayerIs DEF Layers
<1>5. \A i : Slot(k, i) = Rank(under, i) BY DEF Slot
<1>6. Merged(k, inner) =
        [n \in DOMAIN items |->
           IF Layer[calls[items[n]].tool] = k THEN out[k][Rank(own, items[n])]
           ELSE IF Slot(k, items[n]) \in DOMAIN inner THEN inner[Slot(k, items[n])] ELSE NoOut]
  BY DEF Merged
<1> HIDE DEF items, own, under
<1>7. ASSUME NEW n \in DOMAIN items PROVE Own(Merged(k, inner)[n], items[n], seen.doc)
  <2> DEFINE i == items[n]
  <2>1. i \in Cleared /\ Layer[calls[i].tool] <= k /\ Layer[calls[i].tool] \in Nat BY <1>3, <1>4
  <2>2. CASE Layer[calls[i].tool] = k
    <3>1. \E m \in DOMAIN own : own[m] = i BY <1>3, <2>1, <2>2
    <3>2. Rank(own, i) \in DOMAIN own /\ own[Rank(own, i)] = i BY <3>1, RankIs
    <3>3. Own(out[k][Rank(own, i)], i, seen.doc) BY <1>2, <3>2 DEF Given
    <3> QED BY <1>6, <2>2, <3>3
  <2>3. CASE Layer[calls[i].tool] # k
    <3>1. Layer[calls[i].tool] <= k - 1 BY <1>1, <2>1, <2>3
    <3>2. \E m \in DOMAIN under : under[m] = i BY <1>3, <2>1, <3>1
    <3>3. Slot(k, i) \in DOMAIN under /\ under[Slot(k, i)] = i BY <1>5, <3>2, RankIs
    <3>4. Slot(k, i) \in DOMAIN inner /\ Own(inner[Slot(k, i)], i, seen.doc) BY <3>3 DEF Given, under
    <3> QED BY <1>6, <2>3, <3>4
  <2> QED BY <2>2, <2>3
<1> QED BY <1>6, <1>7 DEF Given, items

(* The outcome given to a call is the one its host returned for it *)
LEMMA ResultsAre ==
    ASSUME Shape, Leave, Answering, pc = "run", AllServed
    PROVE  \A i \in Cleared : Own(Results[i], i, seen.doc)
<1>1. done \in Nat /\ upto \in Nat /\ \A i \in Cleared : Layer[calls[i].tool] \in Layers BY LayerIs DEF Shape
<1>2. ItemsBelow(0) = ItemsOf(0)
  <2>1. {i \in Cleared : Layer[calls[i].tool] <= 0} = {i \in Cleared : Layer[calls[i].tool] = 0}
    BY <1>1 DEF Layers
  <2> QED BY <2>1 DEF ItemsBelow, ItemsOf
<1>3. ItemsBelow(2) = Items
  <2>1. {i \in Cleared : Layer[calls[i].tool] <= 2} = Cleared BY <1>1 DEF Layers
  <2> QED BY <2>1 DEF ItemsBelow, Items
<1>4. Given(ItemsBelow(0), Returned[0]) BY <1>2, ServedAre, ReturnedIs DEF Layers
<1>5. Given(ItemsBelow(1), Returned[1])
  <2>1. Given(ItemsBelow(1 - 1), Returned[0]) BY <1>4
  <2>2. Given(ItemsBelow(1), Merged(1, Returned[0])) BY <2>1, MergedIs
  <2> QED BY <2>2, ReturnedIs
<1>6. Given(ItemsBelow(2), Returned[2])
  <2>1. Given(ItemsBelow(2 - 1), Returned[1]) BY <1>5
  <2>2. Given(ItemsBelow(2), Merged(2, Returned[1])) BY <2>1, MergedIs
  <2> QED BY <2>2, ReturnedIs
<1>7. ASSUME NEW i \in Cleared PROVE Own(Results[i], i, seen.doc)
  <2>1. \E n \in DOMAIN Items : Items[n] = i
    <3>1. Cleared \in SUBSET Group BY DEF Cleared
    <3> QED BY <1>1, <3>1, Listed DEF Items
  <2>2. Rank(Items, i) \in DOMAIN Items /\ Items[Rank(Items, i)] = i BY <2>1, RankIs
  <2>3. Own(Returned[2][Rank(Items, i)], i, seen.doc) BY <1>3, <1>6, <2>2 DEF Given
  <2> QED BY <2>3 DEF Results, McpLayer
<1> QED BY <1>7

(* What both of two lists are about *)
BothOf(s, t) ==
    /\ IsSeq(s \o t) /\ Ofs(s \o t) = Ofs(s) \cup Ofs(t)
    /\ OnceEach(s) /\ OnceEach(t) /\ Ofs(s) \cap Ofs(t) = {} => OnceEach(s \o t)
    /\ \A n \in DOMAIN (s \o t) : \/ \E m \in DOMAIN s : (s \o t)[n] = s[m]
                                  \/ \E m \in DOMAIN t : (s \o t)[n] = t[m]

LEMMA OfBoth ==
    ASSUME NEW s, IsSeq(s), NEW t, IsSeq(t)
    PROVE  BothOf(s, t)
<1> DEFINE u == s \o t
<1>1. /\ IsSeq(u) /\ Len(u) = Len(s) + Len(t)
      /\ \A n \in 1..Len(s) : u[n] = s[n]
      /\ \A n \in 1..Len(t) : u[Len(s) + n] = t[n]
  BY ConcatIs
<1>2. /\ DOMAIN s = 1..Len(s) /\ DOMAIN t = 1..Len(t) /\ DOMAIN u = 1..Len(u)
      /\ Len(s) \in Nat /\ Len(t) \in Nat
  BY <1>1, SeqIs
<1> HIDE DEF u
<1>3. ASSUME NEW n \in DOMAIN u
      PROVE  \/ n \in DOMAIN s /\ u[n] = s[n]
             \/ n - Len(s) \in DOMAIN t /\ u[n] = t[n - Len(s)]
  <2>1. n \in Nat /\ 1 <= n /\ n <= Len(s) + Len(t) BY <1>1, <1>2
  <2>2. CASE n <= Len(s) BY <1>1, <1>2, <2>1, <2>2
  <2>3. CASE ~(n <= Len(s))
    <3>1. n - Len(s) \in 1..Len(t) /\ Len(s) + (n - Len(s)) = n BY <1>2, <2>1, <2>3
    <3>2. u[Len(s) + (n - Len(s))] = t[n - Len(s)] BY <1>1, <3>1
    <3> QED BY <1>2, <3>1, <3>2
  <2> QED BY <2>2, <2>3
<1>4. /\ \A n \in DOMAIN s : n \in DOMAIN u /\ u[n] = s[n]
      /\ \A n \in DOMAIN t : Len(s) + n \in DOMAIN u /\ u[Len(s) + n] = t[n]
  <2>1. ASSUME NEW n \in DOMAIN s PROVE n \in DOMAIN u /\ u[n] = s[n] BY <1>1, <1>2
  <2>2. ASSUME NEW n \in DOMAIN t PROVE Len(s) + n \in DOMAIN u /\ u[Len(s) + n] = t[n] BY <1>1, <1>2
  <2> QED BY <2>1, <2>2
<1>5. Ofs(u) = Ofs(s) \cup Ofs(t)
  <2>1. ASSUME NEW i \in Ofs(u) PROVE i \in Ofs(s) \cup Ofs(t)
    <3>1. PICK n \in DOMAIN u : i = u[n].of BY DEF Ofs
    <3> QED BY <1>3, <3>1 DEF Ofs
  <2>2. ASSUME NEW i \in Ofs(s) PROVE i \in Ofs(u)
    <3>1. PICK n \in DOMAIN s : i = s[n].of BY DEF Ofs
    <3> QED BY <1>4, <3>1 DEF Ofs
  <2>3. ASSUME NEW i \in Ofs(t) PROVE i \in Ofs(u)
    <3>1. PICK n \in DOMAIN t : i = t[n].of BY DEF Ofs
    <3> QED BY <1>4, <3>1 DEF Ofs
  <2> QED BY <2>1, <2>2, <2>3
<1>6. ASSUME OnceEach(s), OnceEach(t), Ofs(s) \cap Ofs(t) = {} PROVE OnceEach(u)
  <2>1. SUFFICES ASSUME NEW m \in DOMAIN u, NEW n \in DOMAIN u, u[m].of = u[n].of PROVE m = n
    BY DEF OnceEach
  <2>2. (\A k \in DOMAIN s : s[k].of \in Ofs(s)) /\ (\A k \in DOMAIN t : t[k].of \in Ofs(t)) BY DEF Ofs
  <2>3. m \in Nat /\ n \in Nat /\ Len(s) \in Nat BY <1>2
  <2>4. CASE m \in DOMAIN s /\ u[m] = s[m]
    <3>1. n \in DOMAIN s /\ u[n] = s[n] BY <1>3, <1>6, <2>1, <2>2, <2>4
    <3> QED BY <1>6, <2>1, <2>4, <3>1 DEF OnceEach
  <2>5. CASE m - Len(s) \in DOMAIN t /\ u[m] = t[m - Len(s)]
    <3>1. n - Len(s) \in DOMAIN t /\ u[n] = t[n - Len(s)] BY <1>3, <1>6, <2>1, <2>2, <2>5
    <3>2. m - Len(s) = n - Len(s) BY <1>6, <2>1, <2>5, <3>1 DEF OnceEach
    <3> QED BY <2>3, <3>2
  <2> QED BY <1>3, <2>4, <2>5
<1> QED BY <1>1, <1>3, <1>5, <1>6 DEF u, BothOf

(* A list made of each member of a set once *)
LEMMA OfList ==
    ASSUME done \in Nat, upto \in Nat, NEW S \in SUBSET Group,
           NEW t, DOMAIN t = DOMAIN InOrder(S), t = [n \in DOMAIN InOrder(S) |-> t[n]],
           \A n \in DOMAIN t : t[n].of = InOrder(S)[n]
    PROVE  IsSeq(t) /\ Ofs(t) = S /\ OnceEach(t)
<1> DEFINE places == InOrder(S)
<1>1. /\ Len(places) \in Nat /\ DOMAIN places = 1..Len(places)
      /\ \A n \in DOMAIN places : places[n] \in S
      /\ \A i \in S : \E n \in DOMAIN places : places[n] = i
      /\ \A m, n \in DOMAIN places : places[m] = places[n] => m = n
  BY Listed
<1>2. DOMAIN t = DOMAIN places /\ t = [n \in DOMAIN places |-> t[n]] /\ \A n \in DOMAIN t : t[n].of = places[n]
  OBVIOUS
<1> HIDE DEF places
<1>3. IsSeq(t) BY <1>1, <1>2, ListIs
<1>4. Ofs(t) = S BY <1>1, <1>2 DEF Ofs
<1>5. OnceEach(t) BY <1>1, <1>2 DEF OnceEach
<1> QED BY <1>3, <1>4, <1>5

LEMMA AnswersFold ==
    ASSUME Shape, Leave, Answering, Fold
    PROVE  Answering'
<1> USE DEF world, hosts
<1>1. /\ pc = "run" /\ AllServed /\ done' = upto /\ (pc' # "condense" => pend' = <<>>)
      /\ out' = [k \in Layers |-> <<>>] /\ UNCHANGED <<cache, mcp, seen>>
  BY DEF Fold
<1>2. PICK o \in {Results} :
        \E deferred \in {{i \in Cleared : BlocksComposedTargets(o[i].class)}} :
          LET shown   == InOrder(Group \ deferred)
              waiting == InOrder(deferred)
          IN /\ blocks' = blocks \o [n \in DOMAIN shown |-> Answer(o, shown[n])]
             /\ pend' = [n \in DOMAIN waiting |-> [of |-> waiting[n], from |-> o[waiting[n]].of,
                                                   doc |-> o[waiting[n]].doc]]
  BY Zenon DEF Fold
<1>20. PICK deferred \in {{i \in Cleared : BlocksComposedTargets(o[i].class)}} :
          LET shown   == InOrder(Group \ deferred)
              waiting == InOrder(deferred)
          IN /\ blocks' = blocks \o [n \in DOMAIN shown |-> Answer(o, shown[n])]
             /\ pend' = [n \in DOMAIN waiting |-> [of |-> waiting[n], from |-> o[waiting[n]].of,
                                                   doc |-> o[waiting[n]].doc]]
  BY ONLY <1>2, Zenon
<1> DEFINE shown == InOrder(Group \ deferred)
           waiting == InOrder(deferred)
           new == [n \in DOMAIN shown |-> Answer(o, shown[n])]
<1>3. \A i \in Cleared : Own(o[i], i, seen.doc) BY <1>1, <1>2, ResultsAre
<1>4. /\ done \in Nat /\ upto \in Nat /\ done < upto /\ deferred \in SUBSET Group
      /\ Group \ deferred \in SUBSET Group
  BY <1>1, <1>20 DEF Shape, OpenGroup, Grouped, Cleared
<1>5. /\ \A n \in DOMAIN shown : shown[n] \in Group \ deferred
      /\ \A n \in DOMAIN waiting : waiting[n] \in deferred
  BY <1>4, Listed
<1>6. \A n \in DOMAIN new : new[n].of = shown[n] BY DEF Answer, Block
<1>7. IsSeq(new) /\ Ofs(new) = Group \ deferred /\ OnceEach(new)
  <2> HIDE DEF new
  <2>1. DOMAIN new = DOMAIN InOrder(Group \ deferred) /\ new = [n \in DOMAIN InOrder(Group \ deferred) |-> new[n]]
        /\ \A n \in DOMAIN new : new[n].of = InOrder(Group \ deferred)[n]
    BY <1>6 DEF new
  <2> HIDE DEF shown
  <2> QED BY <1>4, <2>1, OfList
<1>8. IsSeq(pend') /\ Ofs(pend') = deferred /\ OnceEach(pend')
  <2>1. /\ DOMAIN pend' = DOMAIN InOrder(deferred) /\ pend' = [n \in DOMAIN InOrder(deferred) |-> pend'[n]]
        /\ \A n \in DOMAIN pend' : pend'[n].of = InOrder(deferred)[n]
    BY <1>20
  <2>2. PICK t : t = pend' OBVIOUS
  <2> QED BY <1>4, <2>1, <2>2, OfList
<1>9. ASSUME NEW n \in DOMAIN new PROVE Faithful(new[n], seen.doc)
  <2> DEFINE i == shown[n]
  <2>1. i \in Group \ deferred /\ new[n] = Answer(o, i) BY <1>5
  <2> HIDE DEF i, new
  <2>2. CASE i \in Cleared
    <3>1. Own(o[i], i, seen.doc) /\ ~BlocksComposedTargets(o[i].class) BY <1>3, <1>20, <2>1, <2>2
    <3>2. new[n] = Block(i, o[i], o[i].class, "result") BY <2>1, <2>2 DEF Answer
    <3> DEFINE w == o[i].kind = "server words"
               a == o[i].kind = "astray"
               b == new[n]
    <3>3. /\ o[i].class > Untrusted /\ (o[i].of = i \/ a)
          /\ o[i].doc # NoDoc => w /\ i \in DOMAIN seen.doc /\ seen.doc[i] = o[i].doc
      <4>1. o[i].class \in 0..3 /\ ~(o[i].class <= 0)
        BY <3>1 DEF Own, BlocksComposedTargets, Untrusted, Classes
      <4>2. o[i].class > 0 /\ o[i].class # Untrusted BY <4>1 DEF Untrusted
      <4>3. o[i].class > Untrusted BY <4>2 DEF Untrusted
      <4>4. /\ o[i].of = i \/ o[i].kind = "astray"
            /\ o[i].doc # NoDoc => /\ o[i].kind = "server words"
                                  /\ i \in DOMAIN seen.doc /\ seen.doc[i] = o[i].doc
        BY <3>1, <4>2, Zenon DEF Own
      <4> QED BY <4>3, <4>4
    <3>4. b = [of |-> i, from |-> o[i].of, class |-> o[i].class, kind |-> "result",
               doc |-> o[i].doc, words |-> w, astray |-> a]
      BY <3>2 DEF Block
    <3> HIDE DEF w, a, b
    <3>5. /\ b.of = i /\ b.from = o[i].of /\ b.class = o[i].class /\ b.doc = o[i].doc
          /\ b.words = w /\ b.astray = a
      BY <3>4
    <3>6. Faithful(b, seen.doc) BY <3>3, <3>5, Zenon DEF Faithful
    <3> QED BY <3>6 DEF b
  <2>3. CASE i \notin Cleared
    <3>1. new[n] = Block(i, Blank(i), Observed, "refusal") BY <2>1, <2>3 DEF Answer
    <3> QED BY <3>1 DEF Block, Blank, NoOut, Faithful, Observed, Untrusted
  <2> QED BY <2>2, <2>3
<1>10. ASSUME NEW n \in DOMAIN pend' PROVE Unaltered(pend'[n], seen.doc)
  <2> DEFINE i == waiting[n]
  <2>1. n \in DOMAIN waiting /\ pend'[n] = [of |-> i, from |-> o[i].of, doc |-> o[i].doc] BY <1>20
  <2>2. i \in Cleared BY <1>5, <1>20, <2>1
  <2> HIDE DEF i
  <2>3. Own(o[i], i, seen.doc) /\ BlocksComposedTargets(o[i].class) BY <1>3, <1>5, <1>20, <2>1, <2>2 DEF i
  <2>4. o[i].class # Observed BY <2>3 DEF BlocksComposedTargets, Untrusted, Observed
  <2>5. o[i].of = i /\ (o[i].doc # NoDoc => i \in DOMAIN seen.doc /\ seen.doc[i] = o[i].doc)
    BY <2>3, <2>4, Zenon DEF Own
  <2> QED BY <2>1, <2>5 DEF Unaltered
<1>11. blocks' = blocks \o new BY <1>20
<1> HIDE DEF new, shown, waiting
<1>12. pend = <<>> /\ IsSeq(blocks) /\ OnceEach(blocks) /\ Ofs(blocks) = 1..done
  <2>1. pend = <<>> BY <1>1 DEF Answering, Accounted
  <2>2. Ofs(pend) = {} BY <2>1, NoneIs DEF Ofs
  <2> QED BY <2>1, <2>2 DEF Answering, Accounted
<1>13. Ofs(blocks) \cap Group = {} /\ 1..upto = 1..done \cup Group BY <1>4, <1>12 DEF Group
<1>14. /\ IsSeq(blocks') /\ OnceEach(blocks') /\ Ofs(blocks') = Ofs(blocks) \cup Ofs(new)
       /\ \A n \in DOMAIN blocks' : \/ \E m \in DOMAIN blocks : blocks'[n] = blocks[m]
                                    \/ \E m \in DOMAIN new : blocks'[n] = new[m]
  <2>1. Ofs(blocks) \cap Ofs(new) = {} BY <1>7, <1>13
  <2>2. BothOf(blocks, new) BY <1>7, <1>12, OfBoth
  <2> QED BY ONLY <1>7, <1>11, <1>12, <2>1, <2>2 DEF BothOf
<1>15. Accounted'
  <2>1. Ofs(blocks') \cap Ofs(pend') = {} BY <1>4, <1>7, <1>8, <1>13, <1>14
  <2>2. Ofs(blocks') \cup Ofs(pend') = 1..done' BY <1>1, <1>4, <1>7, <1>8, <1>12, <1>13, <1>14
  <2> QED BY <1>1, <1>8, <1>14, <2>1, <2>2 DEF Accounted, Ofs, OnceEach
<1>16. Said'
  <2>1. ASSUME NEW n \in DOMAIN blocks' PROVE Faithful(blocks'[n], seen.doc)
    BY <1>9, <1>14 DEF Answering, Said
  <2> QED BY <1>1, <1>10, <2>1 DEF Said
<1>17. OutOwn'
  <2>1. \A k \in Layers : out'[k] = <<>> BY <1>1
  <2> QED BY <2>1, NoneIs DEF OutOwn
<1>18. Heard'
  <2>1. Len(out[McpLayer]) = Len(ItemsOf(McpLayer)) BY <1>1 DEF AllServed, Started, McpLayer, Layers
  <2>2. Len(ItemsOf(McpLayer)) \in Nat BY ItemsAre DEF Shape
  <2>3. mcp.phase = "rest" BY <2>1, <2>2 DEF Shape, Waits
  <2> QED BY <1>1, <2>3 DEF Answering, Heard
<1>19. CacheUncontaminated' BY <1>1 DEF Answering, CacheUncontaminated
<1> QED BY <1>15, <1>16, <1>17, <1>18, <1>19 DEF Answering

-----------------------------------------------------------------------------
(* The reader's notes *)

LEMMA ChunkIs ==
    ASSUME IsSeq(pend), NEW rest, rest = SubSeq(pend, Len(Chunk) + 1, Len(pend))
    PROVE  /\ Len(Chunk) \in Nat /\ DOMAIN Chunk = 1..Len(Chunk) /\ DOMAIN Chunk \subseteq DOMAIN pend
           /\ \A n \in DOMAIN Chunk : Chunk[n] = pend[n]
           /\ IsSeq(rest)
           /\ \A n \in DOMAIN rest : Len(Chunk) + n \in DOMAIN pend \ DOMAIN Chunk
                                     /\ rest[n] = pend[Len(Chunk) + n]
           /\ \A n \in DOMAIN pend \ DOMAIN Chunk : n - Len(Chunk) \in DOMAIN rest
                                                    /\ rest[n - Len(Chunk)] = pend[n]
<1> DEFINE L == Len(pend)
           m == IF L < MaxSources THEN L ELSE MaxSources
<1>1. L \in Nat /\ DOMAIN pend = 1..L BY SeqIs
<1>2. m \in Nat /\ m <= L BY <1>1, BatchAssumption
<1>3. Chunk = SubSeq(pend, 1, m) BY DEF Chunk
<1> HIDE DEF L, m
<1>4. /\ IsSeq(Chunk) /\ Len(Chunk) = IF 1 <= m THEN m - 1 + 1 ELSE 0
      /\ \A i \in 1..m - 1 + 1 : Chunk[i] = pend[1 + i - 1]
  <2>1. m \in Nat /\ 1 \in Nat /\ 0 < 1 /\ m <= Len(pend) BY <1>2 DEF L
  <2>2. /\ IsSeq(SubSeq(pend, 1, m))
        /\ Len(SubSeq(pend, 1, m)) = IF 1 <= m THEN m - 1 + 1 ELSE 0
        /\ \A i \in 1..m - 1 + 1 : SubSeq(pend, 1, m)[i] = pend[1 + i - 1]
    BY ONLY IsSeq(pend), <2>1, PartIs
  <2> QED BY <1>3, <2>2
<1>5. Len(Chunk) = m /\ DOMAIN Chunk = 1..m BY <1>2, <1>4, SeqIs
<1>6. \A n \in 1..m : Chunk[n] = pend[n]
  <2>1. TAKE n \in 1..m
  <2>2. n \in 1..m - 1 + 1 /\ 1 + n - 1 = n BY <1>2
  <2>3. Chunk[n] = pend[1 + n - 1] BY <1>4, <2>2
  <2> QED BY <2>2, <2>3
<1>7. rest = SubSeq(pend, m + 1, L) BY <1>5 DEF L
<1>8. /\ IsSeq(rest) /\ Len(rest) = IF m + 1 <= L THEN L - (m + 1) + 1 ELSE 0
      /\ \A i \in 1..L - (m + 1) + 1 : rest[i] = pend[m + 1 + i - 1]
  <2>1. PICK from : from = m + 1 OBVIOUS
  <2>2. from \in Nat /\ 0 < from /\ L \in Nat /\ L <= Len(pend) BY <1>1, <1>2, <2>1 DEF L
  <2>3. /\ IsSeq(SubSeq(pend, from, L))
        /\ Len(SubSeq(pend, from, L)) = IF from <= L THEN L - from + 1 ELSE 0
        /\ \A i \in 1..L - from + 1 : SubSeq(pend, from, L)[i] = pend[from + i - 1]
    BY ONLY IsSeq(pend), <2>2, PartIs
  <2> QED BY <1>7, <2>1, <2>3
<1>9. Len(rest) = L - m /\ DOMAIN rest = 1..L - m
  <2>1. Len(rest) = L - m BY <1>1, <1>2, <1>8
  <2> QED BY <1>8, <2>1, SeqIs
<1>10. \A n \in 1..L - m : rest[n] = pend[m + n]
  <2>1. TAKE n \in 1..L - m
  <2>2. n \in 1..L - (m + 1) + 1 /\ m + 1 + n - 1 = m + n BY <1>1, <1>2
  <2>3. rest[n] = pend[m + 1 + n - 1] BY <1>8, <2>2
  <2> QED BY <2>2, <2>3
<1>11. \A n \in 1..L - m : m + n \in (1..L) \ (1..m) BY <1>1, <1>2
<1>12. \A n \in (1..L) \ (1..m) : n - m \in 1..L - m /\ m + (n - m) = n BY <1>1, <1>2
<1>13. \A n \in (1..L) \ (1..m) : rest[n - m] = pend[n]
  <2>1. TAKE n \in (1..L) \ (1..m)
  <2>2. rest[n - m] = pend[m + (n - m)] BY <1>10, <1>12
  <2> QED BY <1>12, <2>2
<1>14. 1..m \subseteq 1..L BY <1>1, <1>2
<1> QED BY <1>1, <1>2, <1>5, <1>6, <1>8, <1>9, <1>10, <1>11, <1>12, <1>13, <1>14

(* What is not remembered is shown to the reader, and its label leads back to it *)
LEMMA FreshIs ==
    ASSUME IsSeq(pend), NEW n \in DOMAIN Chunk, ~Cached(Chunk[n])
    PROVE  Fresh # <<>> /\ Fresh[FieldOf(Chunk[n])] = Chunk[n]
<1> DEFINE S == {k \in DOMAIN Chunk : ~Cached(Chunk[k])}
           places == InOrder(S)
<1>1. Len(Chunk) \in Nat /\ DOMAIN Chunk = 1..Len(Chunk) BY ChunkIs
<1>2. S \in SUBSET Nat /\ IsFiniteSet(S)
  <2>1. S \in SUBSET (0 + 1..Len(Chunk)) /\ 0 \in Nat BY <1>1
  <2> HIDE DEF S
  <2> QED BY <1>1, <2>1, Within
<1>3. n \in S OBVIOUS
<1>4. Fresh = [k \in DOMAIN places |-> Chunk[places[k]]] BY DEF Fresh
<1> HIDE DEF S
<1>5. PICK k \in DOMAIN places : places[k] = n
  <2>1. IsSeq(places) /\ \E k \in 1..Len(places) : places[k] = n BY <1>2, <1>3, InOrderIs
  <2> QED BY <2>1, SeqIs
<1> HIDE DEF places
<1>6. k \in DOMAIN Fresh /\ Fresh[k] = Chunk[n] BY <1>4, <1>5
<1>7. Fresh # <<>> BY <1>6, NoneIs
<1>8. Fresh[FieldOf(Chunk[n])] = Chunk[n] BY <1>6 DEF FieldOf
<1> QED BY <1>7, <1>8

(* Each kind of note is true to what it stands for *)
LEMMA NotesAre ==
    ASSUME NEW p, NEW docs, Unaltered(p, docs)
    PROVE  /\ Unread(p).of = p.of /\ Faithful(Unread(p), docs)
           /\ Note(p, p).of = p.of /\ Faithful(Note(p, p), docs)
           /\ Cached(p) => OldNote(p).of = p.of /\ Faithful(OldNote(p), docs)
<1>1. Unread(p).of = p.of /\ Faithful(Unread(p), docs)
  BY DEF Unread, Faithful, Inferred, Untrusted
<1>2. Note(p, p).of = p.of /\ Faithful(Note(p, p), docs)
  BY DEF Note, Unaltered, Faithful, Inferred, Untrusted
<1>3. ASSUME Cached(p) PROVE OldNote(p).of = p.of /\ Faithful(OldNote(p), docs)
  <2>1. Entry(p).doc = p.doc BY <1>3 DEF Cached, Entry
  <2> QED BY <2>1 DEF OldNote, Note, Unaltered, Faithful, Inferred, Untrusted
<1> QED BY <1>1, <1>2, <1>3

LEMMA AnswersPush ==
    ASSUME Shape, Answering, pc = "condense", NEW notes, Push(notes),
           DOMAIN notes = DOMAIN Chunk, notes = [n \in DOMAIN Chunk |-> notes[n]],
           \A n \in DOMAIN Chunk : notes[n].of = Chunk[n].of /\ Faithful(notes[n], seen.doc),
           CacheUncontaminated'
    PROVE  Answering'
<1> USE DEF span, world, hosts
<1>1. /\ blocks' = blocks \o notes /\ pend' = SubSeq(pend, Len(Chunk) + 1, Len(pend))
      /\ pc' \in {"group", "condense"} /\ (pc' # "condense" => pend' = <<>>)
      /\ UNCHANGED <<calls, done, upto, prep, out, mcp, seen>>
  BY DEF Push
<1>2. PICK rest : rest = pend' OBVIOUS
<1>3. /\ IsSeq(blocks) /\ IsSeq(pend) /\ OnceEach(blocks) /\ OnceEach(pend)
      /\ Ofs(blocks) \cap Ofs(pend) = {} /\ Ofs(blocks) \cup Ofs(pend) = 1..done
  BY DEF Answering, Accounted
<1>4. /\ Len(Chunk) \in Nat /\ DOMAIN Chunk = 1..Len(Chunk) /\ DOMAIN Chunk \subseteq DOMAIN pend
      /\ \A n \in DOMAIN Chunk : Chunk[n] = pend[n]
      /\ IsSeq(rest)
      /\ \A n \in DOMAIN rest : Len(Chunk) + n \in DOMAIN pend \ DOMAIN Chunk
                                /\ rest[n] = pend[Len(Chunk) + n]
      /\ \A n \in DOMAIN pend \ DOMAIN Chunk : n - Len(Chunk) \in DOMAIN rest
                                               /\ rest[n - Len(Chunk)] = pend[n]
  BY <1>1, <1>2, <1>3, ChunkIs
<1>5. IsSeq(notes) BY <1>4, ListIs
<1>6. \A n \in DOMAIN notes : notes[n].of = pend[n].of BY <1>4
<1>7. Ofs(pend) = Ofs(notes) \cup Ofs(rest) /\ Ofs(notes) \cap Ofs(rest) = {}
  <2>1. ASSUME NEW i \in Ofs(pend) PROVE i \in Ofs(notes) \cup Ofs(rest)
    <3>1. PICK n \in DOMAIN pend : i = pend[n].of BY DEF Ofs
    <3>2. CASE n \in DOMAIN Chunk BY <1>6, <3>1, <3>2 DEF Ofs
    <3>3. CASE n \notin DOMAIN Chunk
      <4>1. n - Len(Chunk) \in DOMAIN rest /\ rest[n - Len(Chunk)].of = i BY <1>4, <3>1, <3>3
      <4> QED BY <4>1 DEF Ofs
    <3> QED BY <3>2, <3>3
  <2>2. ASSUME NEW i \in Ofs(notes)
        PROVE  i \in Ofs(pend) /\ \E n \in DOMAIN Chunk : pend[n].of = i
    <3>1. PICK n \in DOMAIN notes : i = notes[n].of BY DEF Ofs
    <3> QED BY <1>4, <1>6, <3>1 DEF Ofs
  <2>3. ASSUME NEW i \in Ofs(rest)
        PROVE  i \in Ofs(pend) /\ \E n \in DOMAIN pend \ DOMAIN Chunk : pend[n].of = i
    <3>1. PICK n \in DOMAIN rest : i = rest[n].of BY DEF Ofs
    <3>2. Len(Chunk) + n \in DOMAIN pend \ DOMAIN Chunk /\ pend[Len(Chunk) + n].of = i BY <1>4, <3>1
    <3> QED BY <3>2 DEF Ofs
  <2>4. ASSUME NEW i \in Ofs(notes), i \in Ofs(rest) PROVE FALSE
    <3>1. PICK m \in DOMAIN Chunk : pend[m].of = i BY <2>2
    <3>2. PICK n \in DOMAIN pend \ DOMAIN Chunk : pend[n].of = i BY <2>3, <2>4
    <3> QED BY <1>3, <1>4, <3>1, <3>2 DEF OnceEach
  <2> QED BY <2>1, <2>2, <2>3, <2>4
<1>8. OnceEach(notes) BY <1>3, <1>4, <1>6 DEF OnceEach
<1>9. OnceEach(rest)
  <2>1. SUFFICES ASSUME NEW m \in DOMAIN rest, NEW n \in DOMAIN rest, rest[m].of = rest[n].of PROVE m = n
    BY DEF OnceEach
  <2>2. Len(Chunk) + m = Len(Chunk) + n BY <1>3, <1>4, <2>1 DEF OnceEach
  <2>3. m \in Nat /\ n \in Nat BY <1>4, SeqIs
  <2> QED BY <1>4, <2>2, <2>3
<1>10. BothOf(blocks, notes) BY <1>3, <1>5, OfBoth
<1>11. Ofs(blocks) \cap Ofs(notes) = {} BY <1>3, <1>7
<1>12. /\ IsSeq(blocks') /\ OnceEach(blocks') /\ Ofs(blocks') = Ofs(blocks) \cup Ofs(notes)
       /\ \A n \in DOMAIN blocks' : \/ \E m \in DOMAIN blocks : blocks'[n] = blocks[m]
                                    \/ \E m \in DOMAIN notes : blocks'[n] = notes[m]
  BY ONLY <1>1, <1>3, <1>8, <1>10, <1>11 DEF BothOf
<1>13. Accounted'
  <2>1. Ofs(blocks') \cap Ofs(rest) = {} BY <1>3, <1>7, <1>12
  <2>2. Ofs(blocks') \cup Ofs(rest) = 1..done' BY <1>1, <1>3, <1>7, <1>12
  <2>3. /\ IsSeq(pend') /\ OnceEach(pend') /\ Ofs(blocks') \cap Ofs(pend') = {}
        /\ Ofs(blocks') \cup Ofs(pend') = 1..done'
    BY <1>2, <1>4, <1>9, <2>1, <2>2
  <2>4. IsSeq(blocks') /\ OnceEach(blocks') BY <1>12
  <2>5. pc' # "condense" => pend' = <<>> BY <1>1
  <2> QED BY ONLY <2>3, <2>4, <2>5 DEF Accounted, Ofs, OnceEach
<1>14. Said'
  <2>1. ASSUME NEW n \in DOMAIN blocks' PROVE Faithful(blocks'[n], seen.doc)
    BY <1>12 DEF Answering, Said
  <2>2. ASSUME NEW n \in DOMAIN rest PROVE Unaltered(rest[n], seen.doc)
    BY <1>4 DEF Answering, Said
  <2> QED BY <1>1, <1>2, <2>1, <2>2 DEF Said
<1>15. OutOwn'
  <2>1. \A k \in Layers : out'[k] = <<>> BY <1>1 DEF Shape
  <2> QED BY <2>1, NoneIs DEF OutOwn
<1>16. Heard'
  <2>1. mcp.phase = "rest" BY DEF Shape, Waits
  <2> QED BY <1>1, <2>1 DEF Answering, Heard
<1> QED BY <1>13, <1>14, <1>15, <1>16 DEF Answering

LEMMA AnswersRead ==
    ASSUME Shape, Answering, AllCached \/ NoBudget \/ ReadUnderQuarantine \/ ReaderFails
    PROVE  Answering'
<1>1. IsSeq(pend) /\ CacheUncontaminated BY DEF Answering, Accounted
<1>2. CacheUncontaminated'
  <2>1. CASE AllCached \/ NoBudget \/ ReaderFails
    BY <1>1, <2>1 DEF AllCached, NoBudget, ReaderFails, CacheUncontaminated
  <2>2. CASE ReadUnderQuarantine
    <3>1. cache' = {} \/ cache' = cache \cup Remembered BY <2>2 DEF ReadUnderQuarantine
    <3>2. \A e \in Remembered : e.with = {e.doc} BY DEF Remembered
    <3> QED BY <1>1, <3>1, <3>2 DEF CacheUncontaminated
  <2> QED BY <2>1, <2>2
<1>3. ASSUME NEW n \in DOMAIN Chunk PROVE Unaltered(Chunk[n], seen.doc)
  <2>1. n \in DOMAIN pend /\ Chunk[n] = pend[n] BY <1>1, ChunkIs
  <2> QED BY <2>1 DEF Answering, Said
<1>4. \A n \in DOMAIN Chunk :
        LET p == Chunk[n]
        IN /\ Unread(p).of = p.of /\ Faithful(Unread(p), seen.doc)
           /\ Note(p, p).of = p.of /\ Faithful(Note(p, p), seen.doc)
           /\ Cached(p) => OldNote(p).of = p.of /\ Faithful(OldNote(p), seen.doc)
  BY <1>3, NotesAre
<1>5. \A n \in DOMAIN Chunk : ~Cached(Chunk[n]) => Fresh # <<>> /\ Fresh[FieldOf(Chunk[n])] = Chunk[n]
  BY <1>1, FreshIs
<1>6. CASE AllCached
  <2> DEFINE notes == [n \in DOMAIN Chunk |-> OldNote(Chunk[n])]
  <2>1. pc = "condense" /\ Fresh = <<>> /\ Push(notes) BY <1>6 DEF AllCached
  <2>2. \A n \in DOMAIN Chunk : notes[n].of = Chunk[n].of /\ Faithful(notes[n], seen.doc)
    BY <1>4, <1>5, <2>1
  <2>3. DOMAIN notes = DOMAIN Chunk /\ notes = [n \in DOMAIN Chunk |-> notes[n]] OBVIOUS
  <2> HIDE DEF notes
  <2> QED BY <1>2, <2>1, <2>2, <2>3, AnswersPush
<1>7. CASE NoBudget
  <2> DEFINE notes == [n \in DOMAIN Chunk |-> Unread(Chunk[n])]
  <2>1. pc = "condense" /\ Push(notes) BY <1>7 DEF NoBudget
  <2>2. \A n \in DOMAIN Chunk : notes[n].of = Chunk[n].of /\ Faithful(notes[n], seen.doc) BY <1>4
  <2>3. DOMAIN notes = DOMAIN Chunk /\ notes = [n \in DOMAIN Chunk |-> notes[n]] OBVIOUS
  <2> HIDE DEF notes
  <2> QED BY <1>2, <2>1, <2>2, <2>3, AnswersPush
<1>8. CASE ReadUnderQuarantine
  <2> DEFINE notes == [n \in DOMAIN Chunk |->
                         LET p == Chunk[n] IN IF Cached(p) THEN OldNote(p) ELSE Note(p, Fresh[FieldOf(p)])]
  <2>1. pc = "condense" /\ Push(notes) BY <1>8 DEF ReadUnderQuarantine
  <2>2. ASSUME NEW n \in DOMAIN Chunk PROVE notes[n].of = Chunk[n].of /\ Faithful(notes[n], seen.doc)
    <3>1. CASE Cached(Chunk[n])
      <4>1. notes[n] = OldNote(Chunk[n]) BY <3>1
      <4> QED BY <1>4, <3>1, <4>1
    <3>2. CASE ~Cached(Chunk[n])
      <4>1. notes[n] = Note(Chunk[n], Chunk[n]) BY <1>5, <3>2
      <4> QED BY <1>4, <4>1
    <3> QED BY <3>1, <3>2
  <2>3. DOMAIN notes = DOMAIN Chunk /\ notes = [n \in DOMAIN Chunk |-> notes[n]] OBVIOUS
  <2> HIDE DEF notes
  <2> QED BY <1>2, <2>1, <2>2, <2>3, AnswersPush
<1>9. CASE ReaderFails
  <2> DEFINE notes == [n \in DOMAIN Chunk |->
                         LET p == Chunk[n] IN IF Cached(p) THEN OldNote(p) ELSE Unread(p)]
  <2>1. pc = "condense" /\ Push(notes) BY <1>9 DEF ReaderFails
  <2>2. ASSUME NEW n \in DOMAIN Chunk PROVE notes[n].of = Chunk[n].of /\ Faithful(notes[n], seen.doc)
    <3>1. CASE Cached(Chunk[n])
      <4>1. notes[n] = OldNote(Chunk[n]) BY <3>1
      <4> QED BY <1>4, <3>1, <4>1
    <3>2. CASE ~Cached(Chunk[n])
      <4>1. notes[n] = Unread(Chunk[n]) BY <3>2
      <4> QED BY <1>4, <4>1
    <3> QED BY <3>1, <3>2
  <2>3. DOMAIN notes = DOMAIN Chunk /\ notes = [n \in DOMAIN Chunk |-> notes[n]] OBVIOUS
  <2> HIDE DEF notes
  <2> QED BY <1>2, <2>1, <2>2, <2>3, AnswersPush
<1> QED BY <1>6, <1>7, <1>8, <1>9

LEMMA AnswersStep ==
    ASSUME Shape, Leave, Fetches, Answering, [Next]_vars
    PROVE  Answering'
<1> USE DEF talk, span, step, world, hosts
<1>1. CASE \/ Reply \/ NextGroup \/ EndBatch \/ Prepare \/ WalkDir \/ WalkFile \/ Decide \/ Prompt
           \/ Answered \/ HungUp \/ Shell_ \/ McpServer \/ Sites \/ Swap \/ PersonAnswers \/ PersonLeaves
           \/ UNCHANGED vars
  BY ONLY <1>1, Shape, Leave, Answering, AnswersQuiet
<1>2. CASE Open \/ Recall \/ McpAsks \/ McpGoesOn \/ McpAnswered \/ McpFails BY <1>2, AnswersLayers
<1>3. CASE Fold BY <1>3, AnswersFold
<1>4. CASE AllCached \/ NoBudget \/ ReadUnderQuarantine \/ ReaderFails BY <1>4, AnswersRead
<1>5. ASSUME NEW n \in DOMAIN out[0], FileTool(n) \/ BashEnds(n) PROVE Answering' BY <1>5, AnswersFiles
<1>6. ASSUME NEW n \in DOMAIN out[0], WebTalks(n) PROVE Answering' BY <1>6, AnswersWeb
<1>7. ASSUME NEW n \in DOMAIN out[0], BashStarts(n) \/ WebAsks(n) PROVE Answering'
  <2>1. UNCHANGED <<calls, done, upto, prep, out, blocks, pend, cache, pc, mcp>>
    BY <1>7 DEF BashStarts, WebAsks
  <2>2. seen' = Acted(ItemsOf(0)[n], "none") BY <1>7 DEF BashStarts, WebAsks
  <2>3. seen'.doc = seen.doc /\ seen'.asked = seen.asked BY <2>2, ActedIs DEF Leave
  <2> QED BY <2>1, <2>3, AnswersKept
<1> QED BY <1>1, <1>2, <1>3, <1>4, <1>5, <1>6, <1>7 DEF Next, Loop

-----------------------------------------------------------------------------
(* Every call of a reply is answered once, by what was really returned for it: no        *)
(* merge of the wrappers' outcomes, late line of a server, reader's label or remembered   *)
(* note puts one call's answer in another's place, and a command's cut output says so;     *)
(* excepted is a fetch on a connection whose server wrote out of turn                      *)
(* (`tool_batch`, `finish_call`, `condense_chunk`, `delegated_slots`, `call_tool`).       *)
THEOREM EveryCallHasItsOwnAnswer == Spec => []OwnAnswer
<1>1. Init => Shape /\ Leave /\ Fetches /\ Drained /\ Answering
  BY ShapeInit, LeaveInit, FetchesInit, DrainedInit, AnswersInit
<1>2. Shape /\ Leave /\ Fetches /\ Drained /\ Answering /\ [Next]_vars
        => (Shape /\ Leave /\ Fetches /\ Drained /\ Answering)'
  BY ShapeStep, LeaveStep, FetchesStep, DrainedStep, AnswersStep
<1>3. Shape /\ Answering /\ Drained => OwnAnswer BY AnswersMean
<1> QED BY <1>1, <1>2, <1>3, PTL DEF Spec

(* The text of an untrusted result never enters the conversation: what is there of it is  *)
(* the quarantined reader's note, also when the reader fails, has no budget, or was asked *)
(* before (`finish_call` defers it to `condense_batch`).  The one thing from outside that  *)
(* does is the message of a server's JSON-RPC error, which `McpTools::call` puts into the  *)
(* refusal; it is marked as such (`words`) and nothing else ever is.                       *)
THEOREM NothingUntrustedIsQuoted == Spec => []NothingRaw
<1>1. Init => Shape /\ Leave /\ Fetches /\ Drained /\ Answering
  BY ShapeInit, LeaveInit, FetchesInit, DrainedInit, AnswersInit
<1>2. Shape /\ Leave /\ Fetches /\ Drained /\ Answering /\ [Next]_vars
        => (Shape /\ Leave /\ Fetches /\ Drained /\ Answering)'
  BY ShapeStep, LeaveStep, FetchesStep, DrainedStep, AnswersStep
<1>3. Shape /\ Answering /\ Drained => NothingRaw BY AnswersMean
<1> QED BY <1>1, <1>2, <1>3, PTL DEF Spec
=============================================================================

-------------------------- MODULE BeliefStore_proofs --------------------------
(***************************************************************************)
(* For any sessions, texts, channels, requests and faults: the store in     *)
(* memory is the one a restart rebuilds, no belief is worth more than what  *)
(* it was derived from, and no write takes another belief's place.  And of  *)
(* the host around the store: for any configuration, card and load, what    *)
(* a start brings up is what was found, a batch's vectors are those of its  *)
(* texts, an answer accounts for what it injects, and its order is earned.  *)
(***************************************************************************)
EXTENDS BeliefStore, MemoryHost, FiniteSetTheorems, WellFoundedInduction, TLAPS

-----------------------------------------------------------------------------
(* What the log and the store are made of *)

WrittenEvent == [kind : {"written"}, id : Ids, text : Texts, own : 0..3, eff : 0..3,
                 lineage : SUBSET Ids, silent : Nat]
SupersededEvent == [kind : {"superseded"}, id : Ids, by : Ids]
TombstonedEvent == [kind : {"tombstoned"}, id : Ids]
MergedEvent == [kind : {"merged"}, rep : Ids, losers : SUBSET Ids]
Event == WrittenEvent \cup SupersededEvent \cup TombstonedEvent \cup MergedEvent
         \cup {Rejected, Ran}

IsStore(s) == DOMAIN s \subseteq Ids /\ IsFiniteSet(DOMAIN s) /\ s \in [DOMAIN s -> Entry]

(* Claims are numbered from zero, with no number left out *)
ClaimsOf(s, session) == {id \in DOMAIN s : id[1] = session /\ id[2] = Claim}
ClaimNumbers(session, k) == {<<session, Claim, i>> : i \in 0..(k - 1)}
ClaimsCounted(s) ==
    \A session \in Sessions : \E k \in Nat : ClaimsOf(s, session) = ClaimNumbers(session, k)

(* No belief is worth more than one it was derived from *)
Derived(s) ==
    \A id \in DOMAIN s : /\ s[id].eff <= s[id].own
                         /\ \A p \in s[id].lineage : p \in DOMAIN s /\ s[id].eff <= s[p].eff

(* An entry says what the log said of it last *)
Live(e) == e.by = None /\ e.fidelity = Record
Speaks(e, id) == e.kind \in {"written", "superseded", "tombstoned"} /\ e.id = id
LastAt(l, i, id) == i \in DOMAIN l /\ Speaks(l[i], id) /\ \A j \in DOMAIN l : Speaks(l[j], id) => j <= i
Told(l, s, id) ==
    /\ \E i \in DOMAIN l : l[i].kind = "written" /\ l[i].id = id
    /\ \E i \in DOMAIN l : /\ LastAt(l, i, id)
                           /\ Live(s[id]) <=> l[i].kind = "written"
                           /\ Live(s[id]) => s[id].silent = l[i].silent
Matches(l, s) ==
    /\ \A i \in DOMAIN l : l[i].kind = "written" => l[i].id \in DOMAIN s
    /\ \A id \in DOMAIN s : /\ Told(l, s, id) /\ s[id].origin \in DOMAIN l
                            /\ l[s[id].origin].kind = "written" /\ l[s[id].origin].id = id

(* What was forgotten says nothing *)
Buried(s) == \A id \in DOMAIN s : s[id].fidelity = Tombstone => s[id].text = Blank

(* A belief is of the session its identifier names *)
Titled(s) == \A id \in DOMAIN s : s[id].sess = id[1]

(* What an adapter's store never holds *)
Plain(s) ==
    \A id \in DOMAIN s : /\ s[id].lineage = {} /\ s[id].fidelity = Record /\ s[id].text \in Texts
                         /\ id[2] \in {"turn"} \X Turns

(* A belief gives way to a younger one, and in the daemon to one worth as much *)
Led(h, s) ==
    \A id \in DOMAIN s : s[id].by # None =>
        /\ s[id].by \in DOMAIN s /\ s[id].origin < s[s[id].by].origin
        /\ h = "daemon" => s[id].eff <= s[s[id].by].eff

(* A log and the store it replays to *)
Good(h, l, s) ==
    /\ IsStore(s) /\ ClaimsCounted(s) /\ Derived(s) /\ Buried(s) /\ Matches(l, s)
    /\ Led(h, s) /\ Titled(s)
    /\ h = "adapter" => Plain(s)

LogInv == log \in Seq(Event) /\ Good(host, log, derive(log))

(* What an operation under way has in hand *)
TurnRecord == [turn : TurnIds \ {Claim}, text : Texts, channel : DOMAIN trust_for_channel,
               actor : Actors]
Cluster == [rep : Ids, losers : SUBSET Ids]
InStore(c) ==
    /\ c.rep \in DOMAIN store /\ c.losers \subseteq DOMAIN store
    /\ \A id \in c.losers : store[id].origin < store[c.rep].origin

TakingTurns ==
    /\ op \in [at : {"turns"}, sess : Sessions, turns : Seq(TurnRecord), i : Nat \ {0}]
    /\ op.i <= Len(op.turns)
    /\ host = "daemon" => /\ op.i = 1 /\ Len(op.turns) = 1
                          /\ <<op.sess, op.turns[1].turn, 0>> \notin DOMAIN store
    /\ host = "adapter" => op.turns \in Seq(Inbound)
Consolidating ==
    /\ host = "adapter"
    /\ \/ op \in [at : {"embed", "plan"}, sess : Sessions]
       \/ op \in [at : {"merge"}, clusters : SUBSET Cluster] /\ \A c \in op.clusters : InStore(c)
       \/ /\ op \in [at : {"lose"}, rep : Ids, losers : SUBSET Ids, rest : SUBSET Cluster]
          /\ InStore(op) /\ \A c \in op.rest : InStore(c)
       \/ op = [at |-> "ran"]
Correcting ==
    /\ host = "daemon" /\ op \in [at : {"supersede"}, id : Ids, by : Ids]
    /\ op.id \in DOMAIN store /\ op.by \in DOMAIN store
    /\ store[op.id].origin < store[op.by].origin /\ store[op.id].eff <= store[op.by].eff
OpInv == op = Idle \/ TakingTurns \/ Consolidating \/ Correcting

StoreInv ==
    /\ host \in Hosts /\ up \in BOOLEAN /\ now \in Nat
    /\ LogInv /\ OpInv
    /\ IF up THEN store = derive(log) ELSE store = <<>> /\ op = Idle

(* A plan reads a vector of every belief *)
VectorInv ==
    /\ \A id \in DOMAIN vectors : vectors[id] \in Texts
    /\ up /\ op.at = "plan" => DOMAIN store \subseteq DOMAIN vectors

-----------------------------------------------------------------------------
(* Numbers, identifiers and records *)

(* A set of naturals that is not empty has a least element. *)
LEMMA LeastNatural ==
    ASSUME NEW S \in SUBSET Nat, S # {}
    PROVE  \E m \in S : \A k \in S : m <= k
<1> DEFINE R == OpToRel(<, Nat)
<1>1. \A x, y \in Nat : y < x => <<y, x>> \in R
  BY DEF OpToRel
<1> HIDE DEF R
<1>2. IsWellFoundedOn(R, Nat)
  BY NatLessThanWellFounded DEF R
<1>3. PICK x \in S : \A y \in S : ~ (<<y, x>> \in R)
  BY <1>2, WFMin
<1>4. ASSUME NEW k \in S PROVE x <= k
  <2>1. ~ (k < x)
    BY <1>1, <1>3
  <2> QED
    BY <2>1
<1> QED
  BY <1>3, <1>4

(* The least of some trust levels is one of them, and none is less. *)
LEMMA MinTrust ==
    ASSUME NEW S \in SUBSET (0..3), S # {}
    PROVE  Min(S) \in S /\ \A x \in S : Min(S) <= x
<1>1. \E m \in S : \A k \in S : m <= k
  BY LeastNatural
<1> QED
  BY <1>1 DEF Min

(* An identifier is never `None`. *)
LEMMA NoneIsNoId == None \notin Ids
BY DEF None, Ids

(* A store that could not be replayed is no store. *)
LEMMA StoresReplay == \A s : IsStore(s) => s # Unreplayable
BY NoneIsNoId DEF IsStore, Unreplayable

-----------------------------------------------------------------------------
(* Replay, event by event *)

ReplayTo(f, l, n) == f = [i \in 0..n |-> IF i = 0 THEN <<>> ELSE ReplayOne(f[i - 1], l[i], i)]

(* Every log can be replayed as far as one likes. *)
LEMMA ReplayExists ==
    ASSUME NEW l, NEW n \in Nat
    PROVE  \E f : ReplayTo(f, l, n)
<1> DEFINE Missing == {k \in Nat : ~ \E f : ReplayTo(f, l, k)}
<1>1. SUFFICES ASSUME Missing # {} PROVE FALSE
  OBVIOUS
<1>2. PICK m \in Missing : \A k \in Missing : m <= k
  BY <1>1, LeastNatural
<1>3. CASE m = 0
  <2>1. ReplayTo([i \in 0..0 |-> <<>>], l, 0)
    BY DEF ReplayTo
  <2> QED
    BY <1>2, <1>3, <2>1
<1>4. CASE m > 0
  <2>1. m - 1 \in Nat /\ m - 1 \notin Missing /\ m \in Nat
    BY <1>2, <1>4
  <2>2. PICK f : ReplayTo(f, l, m - 1)
    BY <2>1
  <2> DEFINE g == [i \in 0..m |-> IF i = m THEN ReplayOne(f[m - 1], l[m], m) ELSE f[i]]
  <2>3. ASSUME NEW i \in 0..m
        PROVE  g[i] = IF i = 0 THEN <<>> ELSE ReplayOne(g[i - 1], l[i], i)
    <3>1. \A j \in 0..(m - 1) : f[j] = IF j = 0 THEN <<>> ELSE ReplayOne(f[j - 1], l[j], j)
      BY <2>1, <2>2 DEF ReplayTo
    <3>2. CASE i = m
      BY <2>1, <1>4, <3>2
    <3>3. CASE i # m
      <4>1. i \in 0..(m - 1) /\ g[i] = f[i]
        BY <2>1, <3>3
      <4>2. i # 0 => g[i - 1] = f[i - 1]
        BY <2>1, <4>1
      <4> QED
        BY <3>1, <4>1, <4>2
    <3> QED
      BY <3>2, <3>3
  <2>4. g = [i \in 0..m |-> g[i]]
    OBVIOUS
  <2>5. ReplayTo(g, l, m)
    <3> HIDE DEF g
    <3> QED
      BY <2>3, <2>4 DEF ReplayTo
  <2> QED
    BY <1>2, <2>5
<1> QED
  BY <1>2, <1>3, <1>4

Agree(l, k, n) == \A i \in 1..n : l[i] = k[i]

(* Two logs that agree so far replay to the same so far. *)
LEMMA ReplayAgrees ==
    ASSUME NEW l, NEW k, NEW f, NEW g, NEW n \in Nat, NEW m \in Nat, n <= m,
           Agree(l, k, n), ReplayTo(f, l, n), ReplayTo(g, k, m)
    PROVE  f[n] = g[n]
<1> DEFINE Differ == {i \in 0..n : f[i] # g[i]}
<1>1. SUFFICES ASSUME Differ # {} PROVE FALSE
  OBVIOUS
<1>2. PICK i \in Differ : \A j \in Differ : i <= j
  <2>1. Differ \in SUBSET Nat
    OBVIOUS
  <2> HIDE DEF Differ
  <2> QED
    BY <1>1, <2>1, LeastNatural
<1>3. /\ f[i] = IF i = 0 THEN <<>> ELSE ReplayOne(f[i - 1], l[i], i)
      /\ g[i] = IF i = 0 THEN <<>> ELSE ReplayOne(g[i - 1], k[i], i)
  BY <1>2 DEF ReplayTo
<1>4. i > 0 => i - 1 \in 0..n /\ i - 1 \notin Differ
  BY <1>2
<1>5. i > 0 => f[i - 1] = g[i - 1] /\ l[i] = k[i]
  BY <1>2, <1>4 DEF Agree
<1> QED
  BY <1>2, <1>3, <1>5

(* `derive` reads the last value of the function that replays the log. *)
LEMMA DeriveIs ==
    ASSUME NEW l, NEW n \in Nat, Len(l) = n
    PROVE  \E g : ReplayTo(g, l, n) /\ derive(l) = g[n]
<1>1. derive(l) = (CHOOSE g : ReplayTo(g, l, n))[n]
  BY DEF derive, ReplayTo
<1>2. \E f : ReplayTo(f, l, n)
  BY ReplayExists
<1>3. ReplayTo(CHOOSE g : ReplayTo(g, l, n), l, n)
  BY <1>2
<1> QED
  BY <1>1, <1>3

(* An empty log is an empty store. *)
LEMMA DeriveEmpty == derive(<<>>) = <<>>
<1>1. PICK g : ReplayTo(g, <<>>, 0) /\ derive(<<>>) = g[0]
  BY DeriveIs
<1> QED
  BY <1>1 DEF ReplayTo

(* One more event is one more step of the replay. *)
LEMMA DeriveAppend ==
    ASSUME NEW S, NEW l \in Seq(S), NEW e \in S
    PROVE  derive(Append(l, e)) = ReplayOne(derive(l), e, Len(l) + 1)
<1> DEFINE n == Len(l)
           m == n + 1
           k == Append(l, e)
<1>1. n \in Nat /\ m \in Nat /\ n <= m
  OBVIOUS
<1>2. Len(k) = m /\ k[m] = e /\ m # 0 /\ m - 1 = n /\ m \in 0..m
  OBVIOUS
<1>3. Agree(l, k, n)
  BY DEF Agree
<1>4. Len(l) = n
  OBVIOUS
<1> HIDE DEF k, m, n
<1>5. PICK f : ReplayTo(f, l, n) /\ derive(l) = f[n]
  BY <1>1, <1>4, DeriveIs
<1>6. PICK g : ReplayTo(g, k, m) /\ derive(k) = g[m]
  BY <1>1, <1>2, DeriveIs
<1>7. f[n] = g[n]
  BY ONLY <1>1, <1>3, <1>5, <1>6, ReplayAgrees
<1>8. g[m] = ReplayOne(g[n], k[m], m)
  BY <1>2, <1>6 DEF ReplayTo
<1>9. derive(k) = ReplayOne(derive(l), e, m)
  BY <1>2, <1>5, <1>6, <1>7, <1>8
<1> QED
  BY <1>9 DEF k, m, n
-----------------------------------------------------------------------------
(* What one more event changes *)

(* The old events stay where they were, the new one comes last. *)
LEMMA OneMore ==
    ASSUME NEW l \in Seq(Event), NEW e \in Event, NEW k, k = Append(l, e)
    PROVE  /\ k \in Seq(Event) /\ Len(l) \in Nat /\ Len(l) + 1 \in Nat
           /\ DOMAIN l = 1..Len(l) /\ DOMAIN k = 1..(Len(l) + 1) /\ Len(l) + 1 \in DOMAIN k
           /\ \A i \in DOMAIN l : i \in DOMAIN k /\ k[i] = l[i] /\ i <= Len(l) + 1
           /\ \A i \in DOMAIN k : i \in DOMAIN l \/ i = Len(l) + 1
           /\ k[Len(l) + 1] = e
OBVIOUS

(* A belief the event does not speak of is told as before. *)
LEMMA ToldAsBefore ==
    ASSUME NEW l \in Seq(Event), NEW e \in Event, NEW s, NEW t, NEW id,
           Told(l, s, id), ~ Speaks(e, id),
           Live(t[id]) <=> Live(s[id]), t[id].silent = s[id].silent
    PROVE  Told(Append(l, e), t, id)
<1> DEFINE k == Append(l, e)
<1>1. /\ \A i \in DOMAIN l : i \in DOMAIN k /\ k[i] = l[i]
      /\ \A i \in DOMAIN k : i \in DOMAIN l \/ k[i] = e
  BY OneMore
<1> HIDE DEF k
<1>2. PICK i \in DOMAIN l : l[i].kind = "written" /\ l[i].id = id
  BY DEF Told
<1>3. PICK j \in DOMAIN l : /\ LastAt(l, j, id)
                            /\ Live(s[id]) <=> l[j].kind = "written"
                            /\ Live(s[id]) => s[id].silent = l[j].silent
  BY DEF Told
<1>4. LastAt(k, j, id)
  BY <1>1, <1>3 DEF LastAt
<1>5. Told(k, t, id)
  BY <1>1, <1>2, <1>3, <1>4 DEF Told
<1> QED
  BY <1>5 DEF k

(* A belief the event speaks of is told by the event. *)
LEMMA ToldByTheEvent ==
    ASSUME NEW l \in Seq(Event), NEW e \in Event, NEW t, NEW id, Speaks(e, id),
           \/ e.kind = "written"
           \/ \E i \in DOMAIN l : l[i].kind = "written" /\ l[i].id = id,
           Live(t[id]) <=> e.kind = "written", Live(t[id]) => t[id].silent = e.silent
    PROVE  Told(Append(l, e), t, id)
<1> DEFINE k == Append(l, e)
           n == Len(l) + 1
<1>1. /\ n \in DOMAIN k /\ k[n] = e /\ \A i \in DOMAIN k : i <= n
      /\ \A i \in DOMAIN l : i \in DOMAIN k /\ k[i] = l[i]
  BY OneMore
<1> HIDE DEF k, n
<1>2. LastAt(k, n, id)
  BY <1>1 DEF LastAt
<1>3. \E i \in DOMAIN k : k[i].kind = "written" /\ k[i].id = id
  BY <1>1 DEF Speaks
<1>4. Told(k, t, id)
  BY <1>1, <1>2, <1>3 DEF Told
<1> QED
  BY <1>4 DEF k

(* A change that touches neither trust, lineage nor origin. *)
Keeps(s, t) ==
    /\ DOMAIN t = DOMAIN s
    /\ \A id \in DOMAIN s : /\ t[id].own = s[id].own /\ t[id].eff = s[id].eff
                            /\ t[id].lineage = s[id].lineage /\ t[id].origin = s[id].origin
                            /\ t[id].silent = s[id].silent /\ t[id].sess = s[id].sess

LEMMA KeptStructure ==
    ASSUME NEW s, NEW t, Keeps(s, t), ClaimsCounted(s), Derived(s), Titled(s)
    PROVE  ClaimsCounted(t) /\ Derived(t) /\ Titled(t)
BY DEF Keeps, ClaimsCounted, ClaimsOf, Derived, Titled

LEMMA KeptMatches ==
    ASSUME NEW l \in Seq(Event), NEW e \in Event, NEW s, NEW t, Keeps(s, t), Matches(l, s),
           e.kind = "written" => e.id \in DOMAIN s,
           \A id \in DOMAIN s : Told(Append(l, e), t, id)
    PROVE  Matches(Append(l, e), t)
<1> DEFINE k == Append(l, e)
<1>1. /\ \A i \in DOMAIN l : i \in DOMAIN k /\ k[i] = l[i]
      /\ \A i \in DOMAIN k : (i \in DOMAIN l /\ k[i] = l[i]) \/ k[i] = e
  BY OneMore
<1>2. \A id \in DOMAIN s : Told(k, t, id)
  OBVIOUS
<1> HIDE DEF k
<1>3. Matches(k, t)
  BY <1>1, <1>2 DEF Matches, Keeps
<1> QED
  BY <1>3 DEF k
-----------------------------------------------------------------------------
(* Entries *)

Kept(x, y) == /\ y.own = x.own /\ y.eff = x.eff /\ y.lineage = x.lineage
              /\ y.origin = x.origin /\ y.silent = x.silent /\ y.sess = x.sess

LEMMA MarkedEntry ==
    ASSUME NEW x \in Entry, NEW b \in Ids, NEW y, y = [x EXCEPT !.by = b]
    PROVE  /\ y \in Entry /\ Kept(x, y) /\ y.by = b
           /\ y.fidelity = x.fidelity /\ y.text = x.text /\ y.supersedes = x.supersedes
BY DEF Entry, Kept

LEMMA CreditedEntry ==
    ASSUME NEW x \in Entry, NEW b \in Ids, NEW y, y = [x EXCEPT !.supersedes = Append(@, b)]
    PROVE  /\ y \in Entry /\ Kept(x, y) /\ y.by = x.by
           /\ y.fidelity = x.fidelity /\ y.text = x.text
<1>1. x.supersedes \in Seq(Ids)
  BY DEF Entry
<1>2. Append(x.supersedes, b) \in Seq(Ids)
  BY <1>1
<1>3. y = [x EXCEPT !.supersedes = Append(x.supersedes, b)]
  BY DEF Entry
<1> QED
  BY <1>2, <1>3 DEF Entry, Kept

LEMMA BuriedEntry ==
    ASSUME NEW x \in Entry, NEW y, y = [x EXCEPT !.fidelity = Tombstone, !.text = Blank]
    PROVE  /\ y \in Entry /\ Kept(x, y) /\ y.by = x.by /\ y.fidelity = Tombstone /\ y.text = Blank
BY DEF Entry, Kept

LEMMA WrittenEntry ==
    ASSUME NEW e \in WrittenEvent, NEW n \in Nat, NEW y, y = EntryOf(e, n)
    PROVE  /\ y \in Entry /\ y.own = e.own /\ y.eff = e.eff /\ y.lineage = e.lineage
           /\ y.origin = n /\ y.silent = e.silent /\ y.by = None /\ y.fidelity = Record
           /\ y.text = e.text /\ y.sess = e.id[1]
<1>1. e.id[1] \in Sessions
  BY DEF WrittenEvent, Ids
<1>2. <<>> \in Seq(Ids)
  OBVIOUS
<1> QED
  BY <1>1, <1>2 DEF WrittenEvent, EntryOf, Entry, None, Record, Tombstone

(* What each change of the store does, entry by entry *)
Inserts(s, id, y, t) ==
    /\ IsStore(t) /\ DOMAIN t = DOMAIN s \cup {id} /\ t[id] = y
    /\ \A k \in DOMAIN s : k # id => t[k] = s[k]

LEMMA Inserted ==
    ASSUME NEW s, IsStore(s), NEW id \in Ids, NEW y \in Entry
    PROVE  Inserts(s, id, y, Insert(s, id, y))
<1>1. IsFiniteSet(DOMAIN s \cup {id})
  BY FS_AddElement DEF IsStore
<1> QED
  BY <1>1 DEF IsStore, Insert, Inserts

Marks(s, id, by, t) ==
    /\ IsStore(t) /\ DOMAIN t = DOMAIN s /\ Keeps(s, t)
    /\ \A k \in DOMAIN s : /\ t[k].fidelity = s[k].fidelity /\ t[k].text = s[k].text
                           /\ t[k].by = IF k = id THEN by ELSE s[k].by

LEMMA SupersededStore ==
    ASSUME NEW s, IsStore(s), NEW id \in DOMAIN s, NEW by \in DOMAIN s
    PROVE  Marks(s, id, by, Supersede(s, id, by))
<1> DEFINE m == [s EXCEPT ![id].by = by]
<1>1. id \in Ids /\ by \in Ids /\ s = [k \in DOMAIN s |-> s[k]] /\ \A k \in DOMAIN s : s[k] \in Entry
  BY DEF IsStore
<1>2. /\ m = [k \in DOMAIN s |-> m[k]] /\ DOMAIN m = DOMAIN s
      /\ \A k \in DOMAIN s : m[k] = IF k = id THEN [s[k] EXCEPT !.by = by] ELSE s[k]
  BY <1>1
<1>3. ASSUME NEW k \in DOMAIN s
      PROVE  /\ m[k] \in Entry /\ Kept(s[k], m[k]) /\ m[k].fidelity = s[k].fidelity
             /\ m[k].text = s[k].text /\ m[k].by = IF k = id THEN by ELSE s[k].by
  <2>1. CASE k = id
    BY <1>1, <1>2, <2>1, MarkedEntry
  <2>2. CASE k # id
    BY <1>1, <1>2, <2>2 DEF Kept
  <2> QED
    BY <2>1, <2>2
<1> DEFINE u == [m EXCEPT ![by].supersedes = Append(@, id)]
<1> HIDE DEF m
<1>4. /\ DOMAIN u = DOMAIN s /\ u = [k \in DOMAIN s |-> u[k]]
      /\ \A k \in DOMAIN s : u[k] = IF k = by THEN [m[k] EXCEPT !.supersedes = Append(@, id)] ELSE m[k]
  BY <1>2
<1> HIDE DEF u
<1>5. ASSUME NEW k \in DOMAIN s
      PROVE  /\ u[k] \in Entry /\ Kept(m[k], u[k]) /\ u[k].fidelity = m[k].fidelity
             /\ u[k].text = m[k].text /\ u[k].by = m[k].by
  <2>1. CASE k = by
    BY <1>1, <1>3, <1>4, <2>1, CreditedEntry
  <2>2. CASE k # by
    BY <1>3, <1>4, <2>2 DEF Kept
  <2> QED
    BY <2>1, <2>2
<1>6. Supersede(s, id, by) = u
  BY DEF Supersede, m, u
<1>7. IsStore(u)
  BY <1>4, <1>5 DEF IsStore
<1>8. Marks(s, id, by, u)
  BY <1>3, <1>4, <1>5, <1>7 DEF Marks, Keeps, Kept
<1> QED
  BY <1>6, <1>8

Buries(s, id, t) ==
    /\ IsStore(t) /\ DOMAIN t = DOMAIN s /\ Keeps(s, t)
    /\ t[id].fidelity = Tombstone /\ t[id].text = Blank
    /\ \A k \in DOMAIN s : /\ t[k].by = s[k].by
                           /\ k # id => t[k].fidelity = s[k].fidelity /\ t[k].text = s[k].text

LEMMA BuriedStore ==
    ASSUME NEW s, IsStore(s), NEW id \in DOMAIN s
    PROVE  Buries(s, id, Bury(s, id))
<1> DEFINE t == Bury(s, id)
<1>1. s = [k \in DOMAIN s |-> s[k]] /\ \A k \in DOMAIN s : s[k] \in Entry
  BY DEF IsStore
<1>2. t = [s EXCEPT ![id] = [s[id] EXCEPT !.fidelity = Tombstone, !.text = Blank]]
  BY <1>1 DEF Bury
<1>3. /\ DOMAIN t = DOMAIN s /\ t = [k \in DOMAIN s |-> t[k]]
      /\ t[id] = [s[id] EXCEPT !.fidelity = Tombstone, !.text = Blank]
      /\ \A k \in DOMAIN s : k # id => t[k] = s[k]
  BY <1>1, <1>2
<1>4. /\ t[id] \in Entry /\ Kept(s[id], t[id]) /\ t[id].by = s[id].by
      /\ t[id].fidelity = Tombstone /\ t[id].text = Blank
  BY <1>1, <1>3, BuriedEntry
<1> HIDE DEF t
<1>5. \A k \in DOMAIN s : t[k] \in Entry /\ Kept(s[k], t[k]) /\ t[k].by = s[k].by
  BY <1>1, <1>3, <1>4 DEF Kept
<1>6. Buries(s, id, t)
  BY <1>3, <1>4, <1>5 DEF IsStore, Keeps, Kept, Buries
<1> QED
  BY <1>6 DEF t
-----------------------------------------------------------------------------
(* Every event keeps the log and its store in step *)

(* The next claim of a session is numbered one more. *)
LEMMA NextClaimNumber ==
    ASSUME NEW session, NEW k \in Nat
    PROVE  ClaimNumbers(session, k + 1) = ClaimNumbers(session, k) \cup {<<session, Claim, k>>}
<1>1. 0..(k + 1 - 1) = 0..(k - 1) \cup {k}
  OBVIOUS
<1> QED
  BY <1>1 DEF ClaimNumbers

(* What the writer of an event owes the store *)
Fitting(h, s, e) ==
    /\ e.eff <= e.own
    /\ \A p \in e.lineage : p \in DOMAIN s /\ e.eff <= s[p].eff
    /\ e.id \notin DOMAIN s \/ (h = "adapter" /\ Plain(s))
    /\ \/ e.id[2] # Claim
       \/ \E k \in Nat : /\ ClaimsOf(s, e.id[1]) = ClaimNumbers(e.id[1], k)
                         /\ e.id = <<e.id[1], Claim, k>>
    /\ h = "adapter" => e.lineage = {} /\ e.id[2] \in {"turn"} \X Turns

LEMMA WriteKeepsGood ==
    ASSUME NEW h, NEW l \in Seq(Event), NEW s, Good(h, l, s),
           NEW e \in WrittenEvent, Fitting(h, s, e),
           NEW t, t = Insert(s, e.id, EntryOf(e, Len(l) + 1))
    PROVE  Good(h, Append(l, e), t)
<1> DEFINE k == Append(l, e)
           y == EntryOf(e, Len(l) + 1)
<1>1. IsStore(s) /\ ClaimsCounted(s) /\ Derived(s) /\ Buried(s) /\ Matches(l, s) /\ Titled(s)
  BY DEF Good
<1>2. e.id \in Ids /\ e \in Event /\ e.kind = "written"
  BY DEF WrittenEvent, Event
<1>3. Len(l) + 1 \in Nat
  OBVIOUS
<1>4. /\ y \in Entry /\ y.own = e.own /\ y.eff = e.eff /\ y.lineage = e.lineage
      /\ y.origin = Len(l) + 1 /\ y.silent = e.silent /\ y.by = None /\ y.fidelity = Record
      /\ y.text = e.text /\ y.sess = e.id[1]
  BY <1>3, WrittenEntry
<1>5. /\ IsStore(t) /\ DOMAIN t = DOMAIN s \cup {e.id} /\ t[e.id] = y
      /\ \A i \in DOMAIN s : i # e.id => t[i] = s[i]
  <2> HIDE DEF y
  <2>1. t = Insert(s, e.id, y)
    BY DEF y
  <2>2. Inserts(s, e.id, y, t)
    BY ONLY <1>1, <1>2, <1>4, <2>1, Inserted
  <2> QED
    BY <2>2 DEF Inserts
<1> HIDE DEF y
<1>6. ClaimsCounted(t)
  <2>1. SUFFICES ASSUME NEW session \in Sessions
                 PROVE  \E n \in Nat : ClaimsOf(t, session) = ClaimNumbers(session, n)
    BY DEF ClaimsCounted
  <2>2. PICK n \in Nat : ClaimsOf(s, session) = ClaimNumbers(session, n)
    BY <1>1 DEF ClaimsCounted
  <2>3. CASE e.id[2] # Claim \/ e.id[1] # session
    <3>1. ClaimsOf(t, session) = ClaimsOf(s, session)
      BY <1>5, <2>3 DEF ClaimsOf
    <3> QED
      BY <2>2, <3>1
  <2>4. CASE e.id[2] = Claim /\ e.id[1] = session
    <3>1. PICK m \in Nat : /\ ClaimsOf(s, session) = ClaimNumbers(session, m)
                           /\ e.id = <<session, Claim, m>>
      BY <2>4 DEF Fitting
    <3>2. ClaimsOf(t, session) = ClaimsOf(s, session) \cup {e.id}
      BY <1>5, <2>4 DEF ClaimsOf
    <3>3. ClaimsOf(t, session) = ClaimNumbers(session, m + 1)
      BY <3>1, <3>2, NextClaimNumber
    <3>4. m + 1 \in Nat
      OBVIOUS
    <3> QED
      BY <3>3, <3>4
  <2> QED
    BY <2>3, <2>4
<1>7. Derived(t)
  <2>1. SUFFICES ASSUME NEW id \in DOMAIN t
                 PROVE  /\ t[id].eff <= t[id].own
                        /\ \A p \in t[id].lineage : p \in DOMAIN t /\ t[id].eff <= t[p].eff
    BY DEF Derived
  <2>2. CASE e.id \notin DOMAIN s
    BY <1>1, <1>4, <1>5, <2>2 DEF Derived, Fitting
  <2>3. CASE Plain(s) /\ id # e.id
    BY <1>1, <1>5, <2>3 DEF Derived, Plain
  <2>4. CASE e.id \in DOMAIN s /\ Plain(s) /\ id = e.id
    <3>1. SUFFICES ASSUME NEW p \in e.lineage PROVE p \in DOMAIN t /\ e.eff <= t[p].eff
      BY <1>4, <1>5, <2>4 DEF Fitting
    <3>2. p \in DOMAIN s /\ e.eff <= s[p].eff
      BY DEF Fitting
    <3>3. CASE p = e.id
      BY <1>4, <1>5, <2>4, <3>3 DEF WrittenEvent
    <3>4. CASE p # e.id
      BY <1>5, <3>2, <3>4
    <3> QED
      BY <3>3, <3>4
  <2> QED
    BY <2>2, <2>3, <2>4 DEF Fitting
<1>8. Buried(t)
  BY <1>1, <1>4, <1>5 DEF Buried, Record, Tombstone
<1>9. Matches(k, t)
  <2>1. /\ \A i \in DOMAIN l : i \in DOMAIN k /\ k[i] = l[i]
        /\ \A i \in DOMAIN k : (i \in DOMAIN l /\ k[i] = l[i]) \/ k[i] = e
        /\ Len(l) + 1 \in DOMAIN k /\ k[Len(l) + 1] = e
    BY <1>2, OneMore
  <2>2. ASSUME NEW id \in DOMAIN t PROVE Told(k, t, id)
    <3>1. CASE id = e.id
      <4>1. Speaks(e, id) /\ Live(t[id]) /\ t[id].silent = e.silent
        BY <1>2, <1>4, <1>5, <3>1 DEF Speaks, Live
      <4> QED
        BY <1>2, <4>1, ToldByTheEvent
    <3>2. CASE id # e.id
      <4>1. id \in DOMAIN s /\ t[id] = s[id] /\ ~ Speaks(e, id)
        BY <1>5, <3>2 DEF Speaks
      <4>2. Told(l, s, id)
        BY <1>1, <4>1 DEF Matches
      <4> QED
        BY <1>2, <4>1, <4>2, ToldAsBefore
    <3> QED
      BY <3>1, <3>2
  <2> HIDE DEF k
  <2> QED
    BY <1>1, <1>2, <1>4, <1>5, <2>1, <2>2 DEF Matches
<1>10. h = "adapter" => Plain(t)
  <2>1. e.text \in Texts
    BY DEF WrittenEvent
  <2> QED
    BY <1>4, <1>5, <2>1 DEF Good, Plain, Fitting
<1>11. Led(h, t)
  <2>1. SUFFICES ASSUME NEW id \in DOMAIN t, t[id].by # None
                 PROVE  /\ t[id].by \in DOMAIN t /\ t[id].origin < t[t[id].by].origin
                        /\ h = "daemon" => t[id].eff <= t[t[id].by].eff
    BY DEF Led
  <2>2. id # e.id /\ id \in DOMAIN s /\ t[id] = s[id]
    BY <1>4, <1>5, <2>1
  <2>3. /\ s[id].by \in DOMAIN s /\ s[id].origin < s[s[id].by].origin
        /\ h = "daemon" => s[id].eff <= s[s[id].by].eff
    BY <2>1, <2>2 DEF Good, Led
  <2>4. CASE s[id].by # e.id
    BY <1>5, <2>2, <2>3, <2>4
  <2>5. CASE s[id].by = e.id
    <3>1. h # "daemon"
      BY <2>3, <2>5 DEF Fitting
    <3>2. s[id].origin \in 1..Len(l)
      BY <1>1, <2>2 DEF Matches
    <3>3. s[id].origin < Len(l) + 1
      BY <3>2
    <3> QED
      BY <1>4, <1>5, <2>2, <2>5, <3>1, <3>3
  <2> QED
    BY <2>4, <2>5
<1>12. Titled(t)
  BY <1>4, <1>5 DEF Good, Titled
<1> QED
  BY <1>5, <1>6, <1>7, <1>8, <1>9, <1>10, <1>11, <1>12 DEF Good

LEMMA SupersedeKeepsGood ==
    ASSUME NEW h, NEW l \in Seq(Event), NEW s, Good(h, l, s),
           NEW id \in DOMAIN s, NEW by \in DOMAIN s, s[id].origin < s[by].origin,
           h = "daemon" => s[id].eff <= s[by].eff, NEW t, t = Supersede(s, id, by)
    PROVE  Superseded(id, by) \in Event /\ Good(h, Append(l, Superseded(id, by)), t)
<1> DEFINE e == Superseded(id, by)
<1>1. IsStore(s) /\ ClaimsCounted(s) /\ Derived(s) /\ Buried(s) /\ Matches(l, s) /\ Titled(s)
  BY DEF Good
<1>2. id \in Ids /\ by \in Ids
  BY <1>1 DEF IsStore
<1>3. e \in Event /\ e.kind = "superseded" /\ e.id = id
  BY <1>2 DEF Superseded, Event, SupersededEvent
<1>4. /\ IsStore(t) /\ DOMAIN t = DOMAIN s /\ Keeps(s, t)
      /\ \A k \in DOMAIN s : /\ t[k].fidelity = s[k].fidelity /\ t[k].text = s[k].text
                             /\ t[k].by = IF k = id THEN by ELSE s[k].by
  <2>1. Marks(s, id, by, t)
    BY <1>1, SupersededStore
  <2> QED
    BY <2>1 DEF Marks
<1> HIDE DEF e
<1>5. Buried(t)
  BY <1>1, <1>4 DEF Buried
<1>6. ASSUME NEW k \in DOMAIN s PROVE Told(Append(l, e), t, k)
  <2>0. Told(l, s, k)
    BY <1>1 DEF Matches
  <2>1. CASE k = id
    <3>1. Speaks(e, k) /\ ~ Live(t[k]) /\ e.kind # "written"
      BY <1>2, <1>3, <1>4, <2>1, NoneIsNoId DEF Speaks, Live
    <3>2. \E i \in DOMAIN l : l[i].kind = "written" /\ l[i].id = k
      BY <2>0 DEF Told
    <3> QED
      BY <1>3, <3>1, <3>2, ToldByTheEvent
  <2>2. CASE k # id
    <3>1. ~ Speaks(e, k) /\ (Live(t[k]) <=> Live(s[k])) /\ t[k].silent = s[k].silent
      BY <1>3, <1>4, <2>2 DEF Speaks, Live, Keeps
    <3> QED
      BY <1>3, <2>0, <3>1, ToldAsBefore
  <2> QED
    BY <2>1, <2>2
<1>7. Matches(Append(l, e), t)
  BY <1>1, <1>3, <1>4, <1>6, KeptMatches
<1>8. h = "adapter" => Plain(t)
  BY <1>4 DEF Good, Plain, Keeps
<1>9. ClaimsCounted(t) /\ Derived(t) /\ Titled(t)
  BY <1>1, <1>4, KeptStructure
<1>10. Led(h, t)
  BY <1>4 DEF Good, Led, Keeps
<1>11. Good(h, Append(l, e), t)
  BY <1>4, <1>5, <1>7, <1>8, <1>9, <1>10 DEF Good
<1> QED
  BY <1>3, <1>11 DEF e

LEMMA BuryKeepsGood ==
    ASSUME NEW h, h # "adapter", NEW l \in Seq(Event), NEW s, Good(h, l, s),
           NEW id \in DOMAIN s, NEW t, t = Bury(s, id)
    PROVE  Tombstoned(id) \in Event /\ Good(h, Append(l, Tombstoned(id)), t)
<1> DEFINE e == Tombstoned(id)
<1>1. IsStore(s) /\ ClaimsCounted(s) /\ Derived(s) /\ Buried(s) /\ Matches(l, s) /\ Titled(s)
  BY DEF Good
<1>2. e \in Event /\ e.kind = "tombstoned" /\ e.id = id
  BY <1>1 DEF IsStore, Tombstoned, Event, TombstonedEvent
<1>3. /\ IsStore(t) /\ DOMAIN t = DOMAIN s /\ Keeps(s, t)
      /\ t[id].fidelity = Tombstone /\ t[id].text = Blank
      /\ \A k \in DOMAIN s : /\ t[k].by = s[k].by
                             /\ k # id => t[k].fidelity = s[k].fidelity /\ t[k].text = s[k].text
  BY <1>1, BuriedStore DEF Buries
<1> HIDE DEF e
<1>4. Buried(t)
  BY <1>1, <1>3 DEF Buried
<1>5. ASSUME NEW k \in DOMAIN s PROVE Told(Append(l, e), t, k)
  <2>0. Told(l, s, k)
    BY <1>1 DEF Matches
  <2>1. CASE k = id
    <3>1. Speaks(e, k) /\ ~ Live(t[k]) /\ e.kind # "written"
      BY <1>2, <1>3, <2>1 DEF Speaks, Live, Tombstone, Record
    <3>2. \E i \in DOMAIN l : l[i].kind = "written" /\ l[i].id = k
      BY <2>0 DEF Told
    <3> QED
      BY <1>2, <3>1, <3>2, ToldByTheEvent
  <2>2. CASE k # id
    <3>1. ~ Speaks(e, k) /\ (Live(t[k]) <=> Live(s[k])) /\ t[k].silent = s[k].silent
      BY <1>2, <1>3, <2>2 DEF Speaks, Live, Keeps
    <3> QED
      BY <1>2, <2>0, <3>1, ToldAsBefore
  <2> QED
    BY <2>1, <2>2
<1>6. Matches(Append(l, e), t)
  BY <1>1, <1>2, <1>3, <1>5, KeptMatches
<1>7. ClaimsCounted(t) /\ Derived(t) /\ Titled(t)
  BY <1>1, <1>3, KeptStructure
<1>8. Led(h, t)
  BY <1>3 DEF Good, Led, Keeps
<1>9. Good(h, Append(l, e), t)
  BY <1>3, <1>4, <1>6, <1>7, <1>8 DEF Good
<1> QED
  BY <1>2, <1>9 DEF e

(* Refusals, announcements and the record of a run speak of no belief. *)
LEMMA RemarkKeepsGood ==
    ASSUME NEW h, NEW l \in Seq(Event), NEW s, Good(h, l, s),
           NEW e \in MergedEvent \cup {Rejected, Ran}
    PROVE  e \in Event /\ Good(h, Append(l, e), s)
<1>1. e \in Event /\ e.kind \in {"merged", "rejected", "ran"}
  BY DEF Event, MergedEvent, Rejected, Ran
<1>2. \A id : ~ Speaks(e, id)
  BY <1>1 DEF Speaks
<1>3. ASSUME NEW id \in DOMAIN s PROVE Told(Append(l, e), s, id)
  <2>1. Told(l, s, id)
    BY DEF Good, Matches
  <2> QED
    BY <1>1, <1>2, <2>1, ToldAsBefore
<1>4. Keeps(s, s) /\ Matches(l, s)
  BY DEF Keeps, Good
<1>5. Matches(Append(l, e), s)
  BY <1>1, <1>3, <1>4, KeptMatches
<1> QED
  BY <1>1, <1>5 DEF Good
-----------------------------------------------------------------------------
(* What a consolidation plans *)

Alone(ids) == {{id} : id \in ids}
JoinTo(J, ids, n) ==
    J = [i \in 0..n |-> IF i = 0 THEN Alone(ids) ELSE Join(J[i - 1], MergeCandidates(ids)[i])]

LEMMA JoinExists ==
    ASSUME NEW ids, NEW n \in Nat
    PROVE  \E J : JoinTo(J, ids, n)
<1> DEFINE Missing == {k \in Nat : ~ \E J : JoinTo(J, ids, k)}
<1>1. SUFFICES ASSUME Missing # {} PROVE FALSE
  OBVIOUS
<1>2. PICK m \in Missing : \A k \in Missing : m <= k
  BY <1>1, LeastNatural
<1>3. CASE m = 0
  <2>1. JoinTo([i \in 0..0 |-> Alone(ids)], ids, 0)
    BY DEF JoinTo
  <2> QED
    BY <1>2, <1>3, <2>1
<1>4. CASE m > 0
  <2>1. m - 1 \in Nat /\ m - 1 \notin Missing /\ m \in Nat
    BY <1>2, <1>4
  <2>2. PICK J : JoinTo(J, ids, m - 1)
    BY <2>1
  <2> DEFINE H == [i \in 0..m |-> IF i = m THEN Join(J[m - 1], MergeCandidates(ids)[m]) ELSE J[i]]
  <2>3. \A j \in 0..(m - 1) :
           J[j] = IF j = 0 THEN Alone(ids) ELSE Join(J[j - 1], MergeCandidates(ids)[j])
    BY <2>1, <2>2 DEF JoinTo
  <2>4. ASSUME NEW i \in 0..m
        PROVE  H[i] = IF i = 0 THEN Alone(ids) ELSE Join(H[i - 1], MergeCandidates(ids)[i])
    <3>1. CASE i = m
      BY <2>1, <1>4, <3>1
    <3>2. CASE i # m
      <4>1. i \in 0..(m - 1) /\ H[i] = J[i]
        BY <2>1, <3>2
      <4>2. i # 0 => H[i - 1] = J[i - 1]
        BY <2>1, <4>1
      <4> QED
        BY <2>3, <4>1, <4>2
    <3> QED
      BY <3>1, <3>2
  <2>5. H = [i \in 0..m |-> H[i]]
    OBVIOUS
  <2>6. JoinTo(H, ids, m)
    <3> HIDE DEF H
    <3> QED
      BY <2>4, <2>5 DEF JoinTo
  <2> QED
    BY <1>2, <2>6
<1> QED
  BY <1>2, <1>3, <1>4

LEMMA GroupsAre ==
    ASSUME NEW ids, NEW n \in Nat, n = Cardinality(Pairs(ids))
    PROVE  \E J : JoinTo(J, ids, n) /\ Groups(ids) = J[n]
<1>1. Groups(ids) = (CHOOSE J : JoinTo(J, ids, n))[n]
  BY DEF Groups, JoinTo, Alone
<1>2. \E J : JoinTo(J, ids, n)
  BY JoinExists
<1>3. JoinTo(CHOOSE J : JoinTo(J, ids, n), ids, n)
  BY <1>2
<1> QED
  BY <1>1, <1>3

(* Groups are made of the identifiers they were asked about. *)
LEMMA GroupsInside ==
    ASSUME NEW ids, IsFiniteSet(ids)
    PROVE  Groups(ids) \subseteq SUBSET ids
<1> DEFINE n == Cardinality(Pairs(ids))
<1>1. n \in Nat
  <2>1. IsFiniteSet(ids \X ids)
    BY FS_Product
  <2>2. IsFiniteSet(Pairs(ids))
    BY <2>1, FS_Subset DEF Pairs
  <2> QED
    BY <2>2, FS_CardinalityType
<1> HIDE DEF n
<1>2. PICK J : JoinTo(J, ids, n) /\ Groups(ids) = J[n]
  BY <1>1, GroupsAre DEF n
<1>3. /\ J[0] = Alone(ids)
      /\ \A i \in 1..n : J[i] = Join(J[i - 1], MergeCandidates(ids)[i])
  BY <1>1, <1>2 DEF JoinTo
<1>4. ASSUME NEW groups, groups \subseteq SUBSET ids, NEW link
      PROVE  Join(groups, link) \subseteq SUBSET ids
  <2> DEFINE met == {g \in groups : link[1] \in g \/ link[2] \in g}
  <2>1. UNION met \subseteq ids
    BY <1>4
  <2>2. (groups \ met) \cup {UNION met} \subseteq SUBSET ids
    BY <1>4, <2>1
  <2>3. Join(groups, link) \in {groups, (groups \ met) \cup {UNION met}}
    BY DEF Join
  <2> QED
    BY <1>4, <2>2, <2>3
<1> DEFINE Outside == {i \in 0..n : ~ (J[i] \subseteq SUBSET ids)}
<1>5. Outside \in SUBSET Nat
  BY <1>1
<1>6. 0 \notin Outside
  BY <1>1, <1>3 DEF Alone
<1>7. ASSUME NEW i \in Outside PROVE i - 1 \in Outside
  <2>1. i \in 1..n /\ ~ (J[i] \subseteq SUBSET ids)
    BY <1>1, <1>6
  <2>2. J[i] = Join(J[i - 1], MergeCandidates(ids)[i])
    BY <1>3, <2>1
  <2>3. ~ (J[i - 1] \subseteq SUBSET ids)
    BY <1>4, <2>1, <2>2
  <2> QED
    BY <1>1, <2>1, <2>3
<1>8. n \notin Outside
  <2> HIDE DEF Outside
  <2>1. SUFFICES ASSUME Outside # {} PROVE FALSE
    OBVIOUS
  <2>2. PICK m \in Outside : \A k \in Outside : m <= k
    BY <1>5, <2>1, LeastNatural
  <2>3. m - 1 \in Outside /\ m \in Nat
    BY <1>5, <1>7
  <2> QED
    BY <2>2, <2>3
<1> QED
  BY <1>1, <1>2, <1>8

(* The newest of a group is a member of it. *)
LEMMA WinnerInside ==
    ASSUME NEW group, group # {}, NEW n \in Nat, \A id \in group : store[id].origin \in 1..n
    PROVE  Winner(group) \in group /\ \A id \in group : store[id].origin <= store[Winner(group)].origin
<1> DEFINE Ages == {n - store[id].origin : id \in group}
<1>1. Ages \in SUBSET Nat /\ Ages # {}
  OBVIOUS
<1>2. PICK a \in Ages : \A b \in Ages : a <= b
  <2> HIDE DEF Ages
  <2> QED
    BY <1>1, LeastNatural
<1>3. PICK w \in group : a = n - store[w].origin
  OBVIOUS
<1>4. ASSUME NEW id \in group PROVE store[id].origin <= store[w].origin
  <2>1. n - store[id].origin \in Ages
    OBVIOUS
  <2>2. a <= n - store[id].origin
    BY <1>2, <2>1
  <2>3. store[id].origin \in 1..n /\ store[w].origin \in 1..n
    BY <1>3
  <2> QED
    BY <1>3, <2>2, <2>3
<1> QED
  BY <1>4 DEF Winner
-----------------------------------------------------------------------------
(* What an append leaves *)

LEMMA ReplayOfWrite ==
    ASSUME NEW s, IsStore(s), NEW n, NEW e \in WrittenEvent
    PROVE  ReplayOne(s, e, n) = Insert(s, e.id, EntryOf(e, n))
<1>1. s # Unreplayable
  BY StoresReplay
<1> QED
  BY <1>1 DEF ReplayOne, WrittenEvent

LEMMA ReplayOfSupersede ==
    ASSUME NEW s, IsStore(s), NEW n, NEW id \in DOMAIN s, NEW by
    PROVE  ReplayOne(s, Superseded(id, by), n) = Supersede(s, id, by)
<1>1. s # Unreplayable
  BY StoresReplay
<1>2. ReplayOne(s, Superseded(id, by), n) = ReplaySuperseded(s, id, by)
  BY <1>1 DEF ReplayOne, Superseded
<1>3. ReplaySuperseded(s, id, by) = Supersede(s, id, by)
  BY DEF ReplaySuperseded, Supersede
<1> QED
  BY <1>2, <1>3

LEMMA ReplayOfBury ==
    ASSUME NEW s, IsStore(s), NEW n, NEW id \in DOMAIN s
    PROVE  ReplayOne(s, Tombstoned(id), n) = Bury(s, id)
<1>1. s # Unreplayable
  BY StoresReplay
<1>2. ReplayOne(s, Tombstoned(id), n) = ReplayTombstoned(s, id)
  BY <1>1 DEF ReplayOne, Tombstoned
<1>3. ReplayTombstoned(s, id) = Bury(s, id)
  BY DEF ReplayTombstoned, Bury
<1> QED
  BY <1>2, <1>3

LEMMA ReplayOfRemark ==
    ASSUME NEW s, IsStore(s), NEW n, NEW e \in MergedEvent \cup {Rejected, Ran}
    PROVE  ReplayOne(s, e, n) = s
<1>1. s # Unreplayable
  BY StoresReplay
<1>2. e.kind \in {"merged", "rejected", "ran"}
  BY DEF MergedEvent, Rejected, Ran
<1> QED
  BY <1>1, <1>2 DEF ReplayOne

(* The store follows the log, and loses no name. *)
Follows ==
    /\ host' = host /\ up' = up /\ now' = now
    /\ LogInv' /\ store' = derive(log') /\ DOMAIN store \subseteq DOMAIN store'

LEMMA OneAppend ==
    ASSUME StoreInv, up, NEW e \in Event, NEW s, log' = Append(log, e), store' = s,
           s = ReplayOne(store, e, Len(log) + 1), Good(host, Append(log, e), s),
           DOMAIN store \subseteq DOMAIN s, UNCHANGED <<host, up, now>>
    PROVE  Follows
<1>1. log \in Seq(Event) /\ store = derive(log)
  BY DEF StoreInv, LogInv
<1>2. derive(Append(log, e)) = s
  BY <1>1, DeriveAppend
<1>3. Append(log, e) \in Seq(Event)
  BY <1>1
<1> QED
  BY <1>2, <1>3 DEF Follows, LogInv

LEMMA StoreIsGood ==
    ASSUME StoreInv, up
    PROVE  Good(host, log, store) /\ IsStore(store) /\ log \in Seq(Event)
BY DEF StoreInv, LogInv, Good

LEMMA WriteFollows ==
    ASSUME StoreInv, up, NEW e \in WrittenEvent, Fitting(host, store, e),
           Commit(e, Insert(store, e.id, EntryOf(e, Len(log) + 1))), UNCHANGED <<host, up, now>>
    PROVE  Follows /\ DOMAIN store' = DOMAIN store \cup {e.id}
<1> DEFINE t == Insert(store, e.id, EntryOf(e, Len(log) + 1))
<1>1. Good(host, log, store) /\ IsStore(store) /\ log \in Seq(Event)
  BY StoreIsGood
<1>2. Good(host, Append(log, e), t)
  BY <1>1, WriteKeepsGood
<1>3. t = ReplayOne(store, e, Len(log) + 1)
  BY <1>1, ReplayOfWrite
<1>4. e \in Event /\ DOMAIN t = DOMAIN store \cup {e.id}
  BY DEF Event, Insert
<1>5. log' = Append(log, e) /\ store' = t
  BY DEF Commit
<1> HIDE DEF t
<1> QED
  BY <1>2, <1>3, <1>4, <1>5, OneAppend

LEMMA SupersedeFollows ==
    ASSUME StoreInv, up, NEW id \in DOMAIN store, NEW by \in DOMAIN store,
           store[id].origin < store[by].origin, host = "daemon" => store[id].eff <= store[by].eff,
           Commit(Superseded(id, by), Supersede(store, id, by)), UNCHANGED <<host, up, now>>
    PROVE  Follows /\ Marks(store, id, by, store')
<1> DEFINE t == Supersede(store, id, by)
           e == Superseded(id, by)
<1>1. Good(host, log, store) /\ IsStore(store) /\ log \in Seq(Event)
  BY StoreIsGood
<1>2. e \in Event /\ Good(host, Append(log, e), t)
  <2>1. t = Supersede(store, id, by)
    OBVIOUS
  <2> HIDE DEF t
  <2> QED
    BY <1>1, <2>1, SupersedeKeepsGood
<1>3. t = ReplayOne(store, e, Len(log) + 1)
  BY <1>1, ReplayOfSupersede
<1>4. Marks(store, id, by, t)
  BY <1>1, SupersededStore
<1>5. log' = Append(log, e) /\ store' = t
  BY DEF Commit
<1> HIDE DEF t, e
<1>6. DOMAIN store \subseteq DOMAIN t
  BY <1>4 DEF Marks
<1> QED
  BY <1>2, <1>3, <1>4, <1>5, <1>6, OneAppend

LEMMA BuryFollows ==
    ASSUME StoreInv, up, host = "daemon", NEW id \in DOMAIN store,
           Commit(Tombstoned(id), Bury(store, id)), UNCHANGED <<host, up, now>>
    PROVE  Follows /\ Buries(store, id, store')
<1> DEFINE t == Bury(store, id)
           e == Tombstoned(id)
<1>1. Good(host, log, store) /\ IsStore(store) /\ log \in Seq(Event)
  BY StoreIsGood
<1>2. e \in Event /\ Good(host, Append(log, e), t)
  BY <1>1, BuryKeepsGood
<1>3. t = ReplayOne(store, e, Len(log) + 1)
  BY <1>1, ReplayOfBury
<1>4. Buries(store, id, t)
  BY <1>1, BuriedStore
<1>5. log' = Append(log, e) /\ store' = t
  BY DEF Commit
<1> HIDE DEF t, e
<1>6. DOMAIN store \subseteq DOMAIN t
  BY <1>4 DEF Buries
<1> QED
  BY <1>2, <1>3, <1>4, <1>5, <1>6, OneAppend

LEMMA RemarkFollows ==
    ASSUME StoreInv, up, NEW e \in MergedEvent \cup {Rejected, Ran},
           Commit(e, store), UNCHANGED <<host, up, now>>
    PROVE  Follows
<1>1. Good(host, log, store) /\ IsStore(store) /\ log \in Seq(Event)
  BY StoreIsGood
<1>2. e \in Event /\ Good(host, Append(log, e), store)
  BY <1>1, RemarkKeepsGood
<1>3. store = ReplayOne(store, e, Len(log) + 1)
  BY <1>1, ReplayOfRemark
<1> QED
  BY <1>2, <1>3, OneAppend DEF Commit
-----------------------------------------------------------------------------
(* The invariant, operation by operation *)

(* An operation that appends keeps the invariant when it keeps its own part. *)
LEMMA FollowsKeeps ==
    ASSUME StoreInv, up, Follows, OpInv'
    PROVE  StoreInv'
BY DEF StoreInv, Follows

LEMMA QuietKeeps ==
    ASSUME StoreInv, up, UNCHANGED <<host, log, store, up, now>>, OpInv'
    PROVE  StoreInv'
BY DEF StoreInv, LogInv

LEMMA IdleKeeps ==
    ASSUME StoreInv, UNCHANGED <<host, log, store, up>>, op' = Idle, now' \in Nat
    PROVE  StoreInv'
BY DEF StoreInv, LogInv, OpInv

LEMMA StartIngestKeeps ==
    ASSUME StoreInv, NEW session \in Sessions, NEW turns \in Requests, StartIngest(session, turns)
    PROVE  StoreInv'
<1>1. turns \in Seq(Inbound) /\ turns # <<>>
  BY InboundAssumption
<1>2. Inbound \subseteq TurnRecord
  BY DEF Inbound, TurnRecord, TurnIds, Claim
<1>3. turns \in Seq(TurnRecord)
  BY <1>1, <1>2
<1>4. Len(turns) \in Nat /\ 1 <= Len(turns)
  BY <1>1
<1>5. op' = [at |-> "turns", sess |-> session, turns |-> turns, i |-> 1]
  BY DEF StartIngest
<1>6. op'.at = "turns" /\ op'.sess = session /\ op'.turns = turns /\ op'.i = 1
  BY <1>5
<1>7. op' \in [at : {"turns"}, sess : Sessions, turns : Seq(TurnRecord), i : Nat \ {0}]
  BY <1>3, <1>5
<1>8. TakingTurns'
  BY <1>1, <1>4, <1>6, <1>7 DEF TakingTurns, StartIngest
<1> QED
  BY <1>8, QuietKeeps DEF StartIngest, Free, OpInv

LEMMA IngestExternalKeeps ==
    ASSUME StoreInv, NEW session \in Sessions, NEW run \in Runs, NEW text \in Said,
           NEW channel \in Channels, IngestExternal(session, run, text, channel)
    PROVE  StoreInv'
<1> DEFINE turn == external_turn_id(run, text, channel)
           rec == [turn |-> turn, text |-> text, channel |-> channel, actor |-> "plain"]
<1>1. turn \in TurnIds \ {Claim}
  BY BeliefAssumption DEF external_turn_id, TurnIds, Claim
<1>2. text \in Texts /\ channel \in DOMAIN trust_for_channel /\ "plain" \in Actors
  BY BeliefAssumption, InboundAssumption DEF Actors
<1>3. op' = [at |-> "turns", sess |-> session, i |-> 1, turns |-> <<rec>>]
  BY DEF IngestExternal
<1>4. <<session, turn, 0>> \notin DOMAIN store
  BY DEF IngestExternal, Known
<1> HIDE DEF turn
<1>5. rec \in TurnRecord /\ rec.turn = turn
  BY <1>1, <1>2 DEF TurnRecord
<1> HIDE DEF rec
<1>6. <<rec>> \in Seq(TurnRecord) /\ Len(<<rec>>) = 1 /\ <<rec>>[1] = rec
  BY <1>5
<1>7. op'.sess = session /\ op'.i = 1 /\ op'.turns = <<rec>>
  BY <1>3
<1>8. op' \in [at : {"turns"}, sess : Sessions, turns : Seq(TurnRecord), i : Nat \ {0}]
  BY <1>3, <1>6
<1>9. TakingTurns'
  BY <1>4, <1>5, <1>6, <1>7, <1>8 DEF TakingTurns, IngestExternal
<1> QED
  BY <1>9, QuietKeeps DEF IngestExternal, Free, OpInv
LEMMA ChannelTrust == \A c \in DOMAIN trust_for_channel : trust_for_channel[c] \in 0..3
BY DEF trust_for_channel, Asserted, Untrusted, Observed

(* A belief is worth no more than itself and each of its parents. *)
LEMMA EffectiveTrust ==
    ASSUME NEW own \in 0..3, NEW parents \in SUBSET (0..3)
    PROVE  /\ effective_trust(own, parents) \in 0..3
           /\ effective_trust(own, parents) <= own
           /\ \A p \in parents : effective_trust(own, parents) <= p
<1>1. parents \cup {own} \in SUBSET (0..3) /\ parents \cup {own} # {}
  OBVIOUS
<1> QED
  BY <1>1, MinTrust DEF effective_trust

LEMMA HostIs ==
    ASSUME StoreInv
    PROVE  host \in {"daemon", "adapter"}
BY BeliefAssumption DEF StoreInv

(* The turn an ingest has reached *)
TurnAt == op.turns[op.i]
TurnEvent ==
    Written(<<op.sess, TurnAt.turn, op.i - 1>>, TurnAt.text, trust_for_channel[TurnAt.channel],
            effective_trust(trust_for_channel[TurnAt.channel], {}), {}, now + Window)

LEMMA TurnIsTaken ==
    ASSUME StoreInv, up, op.at = "turns"
    PROVE  /\ TakingTurns /\ TurnAt \in TurnRecord
           /\ TurnEvent \in WrittenEvent /\ TurnEvent # Rejected /\ Fitting(host, store, TurnEvent)
<1>1. TakingTurns
  BY DEF StoreInv, OpInv, Consolidating, Correcting, Idle
<1>2. /\ op.sess \in Sessions /\ op.turns \in Seq(TurnRecord) /\ op.i \in Nat \ {0}
      /\ op.i <= Len(op.turns)
  BY <1>1 DEF TakingTurns
<1>3. op.i \in 1..Len(op.turns) /\ op.i - 1 \in Nat
  BY <1>2
<1>4. TurnAt \in TurnRecord
  BY <1>2, <1>3 DEF TurnAt
<1>5. /\ TurnAt.turn \in TurnIds /\ TurnAt.turn # Claim /\ TurnAt.text \in Texts
      /\ TurnAt.channel \in DOMAIN trust_for_channel
  BY <1>4 DEF TurnRecord
<1> DEFINE own == trust_for_channel[TurnAt.channel]
           id == <<op.sess, TurnAt.turn, op.i - 1>>
           eff == effective_trust(own, {})
<1>6. own \in 0..3
  BY <1>5, ChannelTrust
<1>7. eff \in 0..3 /\ eff <= own
  BY <1>6, EffectiveTrust
<1>8. id \in Ids /\ id[2] # Claim
  BY <1>2, <1>3, <1>5 DEF Ids
<1>9. host = "daemon" => id \notin DOMAIN store
  BY <1>1 DEF TakingTurns, TurnAt
<1>9a. host = "adapter" => id[2] \in {"turn"} \X Turns
  <2>1. host = "adapter" => op.turns \in Seq(Inbound)
    BY <1>1 DEF TakingTurns
  <2>2. host = "adapter" => TurnAt \in Inbound
    BY <1>3, <2>1 DEF TurnAt
  <2> QED
    BY <2>2 DEF Inbound
<1>10. host = "adapter" => Plain(store)
  BY StoreIsGood DEF Good
<1>11. now + Window \in Nat
  <2>1. now \in Nat
    BY DEF StoreInv
  <2>2. Window \in Nat
    BY BeliefAssumption
  <2> QED
    BY <2>1, <2>2
<1> HIDE DEF own, id, eff
<1> DEFINE e == Written(id, TurnAt.text, own, eff, {}, now + Window)
<1>12. e \in WrittenEvent
  BY <1>5, <1>6, <1>7, <1>8, <1>11 DEF Written, WrittenEvent
<1>13. e # Rejected
  BY DEF Written, Rejected
<1>14. Fitting(host, store, e)
  BY <1>7, <1>8, <1>9, <1>10, <1>9a, HostIs DEF Fitting, Written
<1>15. TurnEvent = e
  BY DEF TurnEvent, id, own, eff
<1> QED
  BY <1>1, <1>4, <1>12, <1>13, <1>14, <1>15

LEMMA IngestTurnFollows ==
    ASSUME StoreInv, IngestTurn
    PROVE  /\ Follows
           /\ \/ store' = store
              \/ store' = Insert(store, TurnEvent.id, EntryOf(TurnEvent, Len(log) + 1))
<1>1. up /\ op.at = "turns" /\ UNCHANGED <<host, up, now>>
  BY DEF IngestTurn
<1>2. /\ TurnEvent \in WrittenEvent /\ TurnEvent # Rejected /\ Fitting(host, store, TurnEvent)
  BY <1>1, TurnIsTaken
<1>3. TurnEvent.id = <<op.sess, TurnAt.turn, op.i - 1>>
  BY DEF TurnEvent, Written
<1>4. CASE TurnAt.actor = "reserved"
  <2>1. Commit(Rejected, store)
    BY <1>4 DEF IngestTurn, TurnAt
  <2>2. Follows
    BY <1>1, <2>1, RemarkFollows
  <2> QED
    BY <2>1, <2>2 DEF Commit
<1>5. CASE TurnAt.actor # "reserved"
  <2>1. Commit(TurnEvent, IF TurnEvent = Rejected THEN store
                          ELSE Insert(store, <<op.sess, TurnAt.turn, op.i - 1>>,
                                      EntryOf(TurnEvent, Len(log) + 1)))
    BY <1>5 DEF IngestTurn, TurnAt, TurnEvent
  <2>2. Commit(TurnEvent, Insert(store, TurnEvent.id, EntryOf(TurnEvent, Len(log) + 1)))
    BY <1>2, <1>3, <2>1
  <2>3. Follows
    BY <1>1, <1>2, <2>2, WriteFollows
  <2> QED
    BY <2>2, <2>3 DEF Commit
<1> QED
  BY <1>4, <1>5

LEMMA IngestTurnKeeps ==
    ASSUME StoreInv, IngestTurn
    PROVE  StoreInv'
<1>1. up /\ op.at = "turns" /\ host' = host
  BY DEF IngestTurn
<1>2. TakingTurns
  BY <1>1, TurnIsTaken
<1>3. /\ op \in [at : {"turns"}, sess : Sessions, turns : Seq(TurnRecord), i : Nat \ {0}]
      /\ Len(op.turns) \in Nat /\ op.i <= Len(op.turns)
  BY <1>2 DEF TakingTurns
<1>4. CASE op.i < Len(op.turns)
  <2>1. op' = [op EXCEPT !.i = op.i + 1]
    BY <1>4 DEF IngestTurn
  <2>2. /\ op' \in [at : {"turns"}, sess : Sessions, turns : Seq(TurnRecord), i : Nat \ {0}]
        /\ op'.i = op.i + 1 /\ op'.turns = op.turns
    BY <1>3, <2>1
  <2>3. host # "daemon"
    <3>1. host = "daemon" => op.i = 1 /\ Len(op.turns) = 1
      BY <1>2 DEF TakingTurns
    <3>2. ~ (1 < 1)
      OBVIOUS
    <3> QED
      BY ONLY <1>4, <3>1, <3>2
  <2>4. TakingTurns'
    BY <1>1, <1>2, <1>3, <1>4, <2>2, <2>3 DEF TakingTurns
  <2> QED
    BY <1>1, <2>4, IngestTurnFollows, FollowsKeeps DEF OpInv
<1>5. CASE ~ (op.i < Len(op.turns))
  <2>1. op' = AfterTurns
    BY <1>5 DEF IngestTurn
  <2>2. OpInv'
    BY <1>1, <1>3, <2>1 DEF AfterTurns, OpInv, Consolidating
  <2> QED
    BY <1>1, <2>2, IngestTurnFollows, FollowsKeeps
<1> QED
  BY <1>4, <1>5
LEMMA EmbedKeeps ==
    ASSUME StoreInv, Embed
    PROVE  StoreInv'
<1>1. up /\ op.at = "embed" /\ UNCHANGED <<host, log, store, up, now>>
      /\ op' = [at |-> "plan", sess |-> op.sess]
  BY DEF Embed
<1>2. host = "adapter" /\ op.sess \in Sessions
  BY <1>1 DEF StoreInv, OpInv, TakingTurns, Consolidating, Correcting, Idle
<1>3. Consolidating'
  BY <1>1, <1>2 DEF Consolidating
<1> QED
  BY <1>1, <1>3, QuietKeeps DEF OpInv

(* A plan is about beliefs of the store. *)
LEMMA PlannedInside ==
    ASSUME StoreInv, up, NEW session, NEW c \in Clusters(session)
    PROVE  c \in Cluster /\ InStore(c)
<1>1. PICK g \in Groups(Scoped(session)) :
           Cardinality(g) >= 2 /\ c = [rep |-> Winner(g), losers |-> Losers(g)]
  BY DEF Clusters
<1>2. IsStore(store) /\ Matches(log, store) /\ log \in Seq(Event)
  BY StoreIsGood DEF Good
<1>3. Scoped(session) \subseteq DOMAIN store
  BY DEF Scoped, recall_candidates
<1>4. IsFiniteSet(Scoped(session))
  BY <1>2, <1>3, FS_Subset DEF IsStore
<1>5. g \subseteq DOMAIN store
  BY <1>3, <1>4, GroupsInside
<1>6. g # {}
  <2>1. Cardinality({}) = 0
    BY FS_EmptySet
  <2> QED
    BY <1>1, <2>1
<1>7. Len(log) \in Nat /\ \A id \in g : store[id].origin \in 1..Len(log)
  BY <1>2, <1>5 DEF Matches
<1>8. Winner(g) \in g
  BY <1>6, <1>7, WinnerInside
<1>9. c.rep = Winner(g) /\ c.losers = g \ {Winner(g)}
  BY <1>1 DEF Losers
<1>10. DOMAIN store \subseteq Ids
  BY <1>2 DEF IsStore
<1>11. ASSUME NEW id \in c.losers PROVE store[id].origin < store[c.rep].origin
  <2>1. id \in DOMAIN store /\ id # c.rep /\ id \in g /\ c.rep \in DOMAIN store
    BY <1>5, <1>8, <1>9
  <2>2. store[id].origin <= store[c.rep].origin
    BY <1>6, <1>7, <1>9, <2>1, WinnerInside
  <2>3. store[id].origin # store[c.rep].origin
    BY <1>2, <2>1 DEF Matches
  <2>4. store[id].origin \in 1..Len(log) /\ store[c.rep].origin \in 1..Len(log)
    BY <1>7, <1>8, <1>9, <2>1
  <2> QED
    BY <2>2, <2>3, <2>4
<1> QED
  BY <1>1, <1>5, <1>8, <1>9, <1>10, <1>11 DEF Cluster, InStore, Losers

LEMMA ApplyNextInside ==
    ASSUME host = "adapter", host' = host, Keeps(store, store'),
           NEW clusters \in SUBSET Cluster, \A c \in clusters : InStore(c),
           op' = ApplyNext(clusters)
    PROVE  OpInv'
<1>1. CASE clusters = {}
  <2>1. op' = [at |-> "ran"]
    BY <1>1 DEF ApplyNext
  <2> QED
    BY <2>1 DEF OpInv, Consolidating
<1>2. CASE clusters # {}
  <2>1. op' = [at |-> "merge", clusters |-> clusters]
    BY <1>2 DEF ApplyNext
  <2>2. \A c \in clusters : InStore(c)'
    BY DEF InStore, Keeps
  <2> QED
    BY <2>1, <2>2 DEF OpInv, Consolidating
<1> QED
  BY <1>1, <1>2

LEMMA PlanKeeps ==
    ASSUME StoreInv, Plan
    PROVE  StoreInv'
<1>1. up /\ op.at = "plan" /\ UNCHANGED <<host, log, store, up, now>>
      /\ op' = ApplyNext(Clusters(op.sess))
  BY DEF Plan
<1>2. host = "adapter"
  BY <1>1 DEF StoreInv, OpInv, TakingTurns, Consolidating, Correcting, Idle
<1> DEFINE clusters == Clusters(op.sess)
<1>3. \A c \in clusters : c \in Cluster /\ InStore(c)
  BY <1>1, PlannedInside
<1>4. op' = ApplyNext(clusters)
  BY <1>1
<1> HIDE DEF clusters
<1>5. clusters \in SUBSET Cluster
  BY <1>3
<1>6. OpInv'
  BY <1>1, <1>2, <1>3, <1>4, <1>5, ApplyNextInside DEF Keeps
<1> QED
  BY <1>1, <1>6, QuietKeeps

LEMMA MergeFollows ==
    ASSUME StoreInv, Merge
    PROVE  Follows /\ store' = store /\ StoreInv'
<1>1. PICK c \in op.clusters :
         /\ Commit(Merged(c.rep, c.losers), store)
         /\ op' = [at |-> "lose", rep |-> c.rep, losers |-> c.losers, rest |-> op.clusters \ {c}]
  BY DEF Merge
<1>2. up /\ op.at = "merge" /\ UNCHANGED <<host, up, now>>
  BY DEF Merge
<1>3. /\ host = "adapter" /\ op.clusters \in SUBSET Cluster
      /\ \A d \in op.clusters : InStore(d)
  BY <1>2 DEF StoreInv, OpInv, TakingTurns, Consolidating, Correcting, Idle
<1>4. c \in Cluster /\ InStore(c) /\ c.rep \in Ids /\ c.losers \in SUBSET Ids
  BY <1>3 DEF Cluster
<1>5. Merged(c.rep, c.losers) \in MergedEvent
  BY <1>4 DEF Merged, MergedEvent
<1>6. Follows
  BY <1>1, <1>2, <1>5, RemarkFollows
<1>7. store' = store
  BY <1>1 DEF Commit
<1>8. op' \in [at : {"lose"}, rep : Ids, losers : SUBSET Ids, rest : SUBSET Cluster]
  BY <1>1, <1>3, <1>4
<1>9. op'.rep = c.rep /\ op'.losers = c.losers /\ op'.rest \subseteq op.clusters
  BY <1>1
<1>10. InStore(op)' /\ \A d \in op'.rest : InStore(d)'
  BY <1>3, <1>4, <1>7, <1>9 DEF InStore
<1>11. Consolidating'
  BY <1>2, <1>3, <1>8, <1>10 DEF Consolidating
<1>12. OpInv'
  BY <1>11 DEF OpInv
<1> QED
  BY <1>2, <1>6, <1>7, <1>12, FollowsKeeps

LEMMA LoseFollows ==
    ASSUME StoreInv, Lose
    PROVE  /\ Follows /\ StoreInv'
           /\ host = "adapter" /\ op.rep \in DOMAIN store
           /\ \E id \in op.losers \cap DOMAIN store : Marks(store, id, op.rep, store')
<1>1. PICK id \in op.losers :
         /\ Commit(Superseded(id, op.rep), Supersede(store, id, op.rep))
         /\ op' = IF op.losers = {id} THEN ApplyNext(op.rest) ELSE [op EXCEPT !.losers = @ \ {id}]
  BY DEF Lose
<1>2. up /\ op.at = "lose" /\ UNCHANGED <<host, up, now>>
  BY DEF Lose
<1>3. /\ host = "adapter"
      /\ op \in [at : {"lose"}, rep : Ids, losers : SUBSET Ids, rest : SUBSET Cluster]
      /\ InStore(op) /\ \A c \in op.rest : InStore(c)
  BY <1>2 DEF StoreInv, OpInv, TakingTurns, Consolidating, Correcting, Idle
<1>4. id \in DOMAIN store /\ op.rep \in DOMAIN store /\ store[id].origin < store[op.rep].origin
      /\ host # "daemon"
  BY <1>3 DEF InStore
<1>5. Follows /\ Marks(store, id, op.rep, store')
  BY <1>1, <1>2, <1>4, SupersedeFollows
<1>6. Keeps(store, store')
  BY <1>5 DEF Marks
<1>7. CASE op.losers = {id}
  <2>1. op' = ApplyNext(op.rest) /\ op.rest \in SUBSET Cluster
    BY <1>1, <1>3, <1>7
  <2>2. OpInv'
    BY <1>2, <1>3, <1>6, <2>1, ApplyNextInside
  <2> QED
    BY <1>2, <1>3, <1>4, <1>5, <2>2, FollowsKeeps
<1>8. CASE op.losers # {id}
  <2>1. op' = [op EXCEPT !.losers = op.losers \ {id}]
    BY <1>1, <1>8
  <2>2. /\ op' \in [at : {"lose"}, rep : Ids, losers : SUBSET Ids, rest : SUBSET Cluster]
        /\ op'.rep = op.rep /\ op'.losers \subseteq op.losers /\ op'.rest = op.rest
    BY <1>3, <2>1
  <2>3. InStore(op)' /\ \A c \in op'.rest : InStore(c)'
    BY <1>3, <1>6, <2>2 DEF InStore, Keeps
  <2>4. Consolidating'
    BY <1>2, <1>3, <2>2, <2>3 DEF Consolidating
  <2>5. OpInv'
    BY <2>4 DEF OpInv
  <2> QED
    BY <1>2, <1>3, <1>4, <1>5, <2>5, FollowsKeeps
<1> QED
  BY <1>7, <1>8

LEMMA ConsolidationRanFollows ==
    ASSUME StoreInv, ConsolidationRan
    PROVE  Follows /\ store' = store /\ StoreInv'
<1>1. up /\ Commit(Ran, store) /\ op' = Idle /\ UNCHANGED <<host, up, now>>
  BY DEF ConsolidationRan
<1>2. Follows
  BY <1>1, RemarkFollows
<1>3. OpInv'
  BY <1>1 DEF OpInv
<1> QED
  BY <1>1, <1>2, <1>3, FollowsKeeps DEF Commit
LEMMA HowManyClaims ==
    ASSUME NEW session, NEW k \in Nat
    PROVE  Cardinality(ClaimNumbers(session, k)) = k
<1> DEFINE S == 0..(k - 1)
           f == [i \in S |-> <<session, Claim, i>>]
<1>1. IsFiniteSet(S) /\ Cardinality(S) = k
  <2>1. 0 \in Int /\ k - 1 \in Int
    OBVIOUS
  <2>2. IsFiniteSet(S) /\ Cardinality(S) = IF 0 > k - 1 THEN 0 ELSE k - 1 - 0 + 1
    BY <2>1, FS_Interval
  <2> QED
    BY <2>2
<1>2. ClaimNumbers(session, k) = {<<session, Claim, i>> : i \in S}
  BY DEF ClaimNumbers
<1> HIDE DEF S
<1>3. f \in [S -> ClaimNumbers(session, k)]
  BY <1>2
<1>4. \A i, j \in S : f[i] = f[j] => i = j
  OBVIOUS
<1>5. \A c \in ClaimNumbers(session, k) : \E i \in S : f[i] = c
  BY <1>2
<1>6. f \in Bijection(S, ClaimNumbers(session, k))
  BY <1>3, <1>4, <1>5 DEF Bijection, Injection, Surjection, IsInjective
<1> QED
  BY <1>1, <1>6, FS_Bijection DEF ExistsBijection

(* A claim's identifier is the next of its session's numbers, and is not in use. *)
LEMMA ClaimIdIsNew ==
    ASSUME StoreInv, up, NEW session \in Sessions
    PROVE  /\ ClaimId(session) \in Ids /\ ClaimId(session) \notin DOMAIN store
           /\ ClaimId(session)[1] = session /\ ClaimId(session)[2] = Claim
           /\ \E k \in Nat : /\ ClaimsOf(store, session) = ClaimNumbers(session, k)
                             /\ ClaimId(session) = <<session, Claim, k>>
<1>1. ClaimsCounted(store)
  BY StoreIsGood DEF Good
<1>2. PICK k \in Nat : ClaimsOf(store, session) = ClaimNumbers(session, k)
  BY <1>1 DEF ClaimsCounted
<1>3. ClaimId(session) = <<session, Claim, Cardinality(ClaimsOf(store, session))>>
  BY DEF ClaimId, ClaimsOf, recall_candidates
<1>4. ClaimId(session) = <<session, Claim, k>>
  BY <1>2, <1>3, HowManyClaims
<1>5. <<session, Claim, k>> \in Ids
  BY DEF Ids, TurnIds
<1>6. <<session, Claim, k>> \notin ClaimNumbers(session, k)
  BY DEF ClaimNumbers
<1>7. <<session, Claim, k>> \notin DOMAIN store
  BY <1>2, <1>6 DEF ClaimsOf
<1> QED
  BY <1>2, <1>4, <1>5, <1>7

LEMMA ClaimFits ==
    ASSUME StoreInv, up, host = "daemon", NEW session \in Sessions, NEW text \in Said,
           NEW parents, parents \subseteq DOMAIN store, NEW floor \in Floors,
           NEW e, e = ClaimWritten(session, text, parents, floor)
    PROVE  /\ e \in WrittenEvent /\ Fitting(host, store, e)
           /\ e.id = ClaimId(session) /\ e.id \notin DOMAIN store
           /\ e.eff = ClaimTrust(floor, parents)
<1> DEFINE own == Min({Inferred, floor})
           worth == {store[p].eff : p \in parents \cap DOMAIN store}
<1>1. IsStore(store)
  BY StoreIsGood
<1>2. own \in 0..3
  <2> DEFINE S == {Inferred, floor}
  <2>0. floor \in 0..3 /\ Inferred \in 0..3
    <3>1. Floors \subseteq 0..3
      BY BeliefAssumption
    <3> QED
      BY <3>1 DEF Inferred
  <2>1. S \in SUBSET (0..3) /\ S # {}
    BY <2>0
  <2> HIDE DEF S
  <2>2. Min(S) \in S
    BY <2>1, MinTrust
  <2> QED
    BY <2>1, <2>2 DEF S
<1>3. \A id \in DOMAIN store : store[id].eff \in 0..3
  BY <1>1 DEF IsStore, Entry
<1>4. worth \in SUBSET (0..3)
  BY <1>3
<1>5. \A p \in parents : store[p].eff \in worth
  OBVIOUS
<1>6. ClaimTrust(floor, parents) = effective_trust(own, worth)
  BY DEF ClaimTrust
<1> HIDE DEF own, worth
<1> DEFINE eff == effective_trust(own, worth)
<1>7. eff \in 0..3 /\ eff <= own /\ \A p \in worth : eff <= p
  BY <1>2, <1>4, EffectiveTrust
<1>8. e = Written(ClaimId(session), text, own, eff, parents, now + Window)
  BY <1>6 DEF ClaimWritten, own
<1> HIDE DEF eff
<1>9. now + Window \in Nat
  <2>1. now \in Nat
    BY DEF StoreInv
  <2>2. Window \in Nat
    BY BeliefAssumption
  <2> QED
    BY <2>1, <2>2
<1>10. text \in Texts /\ parents \in SUBSET Ids
  BY <1>1, BeliefAssumption DEF IsStore
<1>11. ClaimId(session) \in Ids
  BY ClaimIdIsNew
<1>12. e \in WrittenEvent
  BY <1>2, <1>7, <1>8, <1>9, <1>10, <1>11 DEF Written, WrittenEvent
<1>13. e.id = ClaimId(session) /\ e.eff = eff /\ e.own = own /\ e.lineage = parents
  BY <1>8 DEF Written
<1>14. /\ ClaimId(session) \notin DOMAIN store /\ ClaimId(session)[1] = session
       /\ \E k \in Nat : /\ ClaimsOf(store, session) = ClaimNumbers(session, k)
                         /\ ClaimId(session) = <<session, Claim, k>>
  BY ClaimIdIsNew
<1>15. \A p \in parents : p \in DOMAIN store /\ eff <= store[p].eff
  BY <1>5, <1>7
<1>16. Fitting(host, store, e)
  BY <1>7, <1>13, <1>14, <1>15 DEF Fitting
<1> QED
  BY <1>6, <1>12, <1>13, <1>14, <1>16 DEF eff
-----------------------------------------------------------------------------
(* What a step may not do to a belief *)

Lasts ==
    /\ host = "daemon" =>
           \A id \in DOMAIN store : store[id].fidelity > Tombstone =>
               /\ id \in DOMAIN store'
               /\ store'[id].origin = store[id].origin
               /\ store'[id].text \in {store[id].text, Blank}
    /\ \A id \in DOMAIN store : store[id].fidelity = Tombstone =>
           store'[id].fidelity = Tombstone /\ store'[id].text = Blank

LEMMA SameStoreLasts ==
    ASSUME StoreInv, up, store' = store
    PROVE  Lasts
<1>1. Buried(store)
  BY StoreIsGood DEF Good
<1> QED
  BY <1>1 DEF Lasts, Buried

LEMMA MarkedStoreLasts ==
    ASSUME StoreInv, up, NEW id, NEW by, Marks(store, id, by, store')
    PROVE  Lasts
<1>1. Buried(store)
  BY StoreIsGood DEF Good
<1> QED
  BY <1>1 DEF Lasts, Buried, Marks, Keeps

LEMMA BuriedStoreLasts ==
    ASSUME StoreInv, up, NEW id, Buries(store, id, store')
    PROVE  Lasts
<1>1. Buried(store)
  BY StoreIsGood DEF Good
<1> QED
  BY <1>1 DEF Lasts, Buried, Buries, Keeps

LEMMA GrownStoreLasts ==
    ASSUME StoreInv, up, NEW e \in WrittenEvent, Fitting(host, store, e), NEW y,
           store' = Insert(store, e.id, y)
    PROVE  Lasts
<1>1. CASE e.id \notin DOMAIN store
  <2>1. DOMAIN store \subseteq DOMAIN store' /\ \A id \in DOMAIN store : store'[id] = store[id]
    BY <1>1 DEF Insert
  <2>2. Buried(store)
    BY StoreIsGood DEF Good
  <2> QED
    BY <2>1, <2>2 DEF Lasts, Buried
<1>2. CASE host = "adapter" /\ Plain(store)
  BY <1>2 DEF Lasts, Plain, Record, Tombstone
<1> QED
  BY <1>1, <1>2 DEF Fitting

(* Each step of an operation that appends *)
LEMMA RememberFollows ==
    ASSUME StoreInv, NEW session \in Sessions, NEW text \in Said, NEW parents, NEW floor \in Floors,
           Remember(session, text, parents, floor)
    PROVE  Lasts /\ StoreInv'
<1> DEFINE e == ClaimWritten(session, text, parents, floor)
<1>1. /\ up /\ host = "daemon" /\ op = Idle /\ parents \subseteq DOMAIN store
      /\ Commit(e, Insert(store, e.id, EntryOf(e, Len(log) + 1)))
      /\ UNCHANGED <<host, op, up, now>>
  BY DEF Remember, Free, ClaimRejected
<1>2. e \in WrittenEvent /\ Fitting(host, store, e)
  BY <1>1, ClaimFits
<1> HIDE DEF e
<1>3. Follows
  BY <1>1, <1>2, WriteFollows
<1>4. Lasts
  BY <1>1, <1>2, GrownStoreLasts DEF Commit
<1>5. OpInv'
  BY <1>1 DEF OpInv
<1> QED
  BY <1>1, <1>3, <1>4, <1>5, FollowsKeeps

LEMMA CorrectFollows ==
    ASSUME StoreInv, NEW target, NEW session \in Sessions, NEW text \in Said, NEW parents,
           NEW floor \in Floors, Correct(target, session, text, parents, floor)
    PROVE  Lasts /\ StoreInv'
<1> DEFINE e == ClaimWritten(session, text, parents, floor)
<1>1. /\ up /\ host = "daemon" /\ parents \subseteq DOMAIN store
      /\ Commit(e, Insert(store, e.id, EntryOf(e, Len(log) + 1)))
      /\ op' = [at |-> "supersede", id |-> target, by |-> e.id]
      /\ UNCHANGED <<host, up, now>>
  BY DEF Correct, Free, ClaimRejected
<1>2. target \in DOMAIN store /\ ClaimTrust(floor, parents) >= store[target].eff
  BY DEF Correct, MayCorrect
<1>3. /\ e \in WrittenEvent /\ Fitting(host, store, e) /\ e.id \notin DOMAIN store
      /\ e.eff = ClaimTrust(floor, parents)
  BY <1>1, ClaimFits
<1> HIDE DEF e
<1>4. Follows /\ DOMAIN store' = DOMAIN store \cup {e.id}
  BY <1>1, <1>3, WriteFollows
<1>5. Lasts
  BY <1>1, <1>3, GrownStoreLasts DEF Commit
<1>6. target \in Ids /\ e.id \in Ids
  BY <1>1, <1>2, <1>3, StoreIsGood DEF IsStore, WrittenEvent
<1>7. /\ store'[target].origin < store'[e.id].origin
      /\ store'[target].eff <= store'[e.id].eff
  <2>1. IsStore(store) /\ Matches(log, store) /\ log \in Seq(Event)
    BY <1>1, StoreIsGood DEF Good
  <2>2. Len(log) + 1 \in Nat /\ store[target].origin < Len(log) + 1
    <3>1. store[target].origin \in 1..Len(log) /\ Len(log) \in Nat
      BY <1>2, <2>1 DEF Matches
    <3> QED
      BY <3>1
  <2>3. store'[target] = store[target] /\ store'[e.id] = EntryOf(e, Len(log) + 1)
    BY <1>1, <1>2, <1>3 DEF Commit, Insert
  <2>4. store'[e.id].origin = Len(log) + 1 /\ store'[e.id].eff = e.eff
    BY <1>3, <2>2, <2>3, WrittenEntry
  <2>5. store[target].eff \in 0..3 /\ e.eff \in 0..3
    BY <1>2, <1>3, <2>1 DEF IsStore, Entry, WrittenEvent
  <2> QED
    BY <1>2, <1>3, <2>2, <2>3, <2>4, <2>5
<1>8. op'.id = target /\ op'.by = e.id
  BY <1>1
<1>9. Correcting'
  BY <1>1, <1>2, <1>4, <1>6, <1>7, <1>8 DEF Correcting
<1>10. OpInv'
  BY <1>9 DEF OpInv
<1> QED
  BY <1>1, <1>4, <1>5, <1>10, FollowsKeeps

LEMMA CorrectSupersedesFollows ==
    ASSUME StoreInv, CorrectSupersedes
    PROVE  Lasts /\ StoreInv'
<1>1. /\ up /\ op.at = "supersede" /\ op' = Idle /\ UNCHANGED <<host, up, now>>
      /\ Commit(Superseded(op.id, op.by), Supersede(store, op.id, op.by))
  BY DEF CorrectSupersedes
<1>2. /\ op.id \in DOMAIN store /\ op.by \in DOMAIN store
      /\ store[op.id].origin < store[op.by].origin /\ store[op.id].eff <= store[op.by].eff
  BY <1>1 DEF StoreInv, OpInv, TakingTurns, Consolidating, Correcting, Idle
<1>3. Follows /\ Marks(store, op.id, op.by, store')
  BY <1>1, <1>2, SupersedeFollows
<1>4. OpInv'
  BY <1>1 DEF OpInv
<1> QED
  BY <1>1, <1>3, <1>4, FollowsKeeps, MarkedStoreLasts

LEMMA ForgetFollows ==
    ASSUME StoreInv, NEW target, Forget(target)
    PROVE  Lasts /\ StoreInv'
<1>1. /\ up /\ op = Idle /\ host = "daemon" /\ target \in DOMAIN store
      /\ Commit(Tombstoned(target), Bury(store, target)) /\ UNCHANGED <<host, op, up, now>>
  BY DEF Forget, Free, Forgettable
<1>2. Follows /\ Buries(store, target, store')
  BY <1>1, BuryFollows
<1>3. OpInv'
  BY <1>1 DEF OpInv
<1> QED
  BY <1>1, <1>2, <1>3, FollowsKeeps, BuriedStoreLasts

LEMMA RemarkDerives ==
    ASSUME NEW l \in Seq(Event), IsStore(derive(l)), NEW e \in MergedEvent \cup {Rejected, Ran}
    PROVE  derive(Append(l, e)) = derive(l)
<1>1. e \in Event
  BY DEF Event
<1>2. derive(Append(l, e)) = ReplayOne(derive(l), e, Len(l) + 1)
  BY <1>1, DeriveAppend
<1>3. ReplayOne(derive(l), e, Len(l) + 1) = derive(l)
  BY ReplayOfRemark
<1> QED
  BY <1>2, <1>3

(* A refusal is journalled twice, and the store stands. *)
LEMMA RememberRefusedFollows ==
    ASSUME StoreInv, NEW text, NEW parents, RememberRefused(text, parents)
    PROVE  Lasts /\ StoreInv'
<1>1. /\ up /\ op = Idle /\ log' = log \o <<Rejected, Rejected>>
      /\ UNCHANGED <<host, store, op, up, now>>
  BY DEF RememberRefused, Free
<1>2. Good(host, log, store) /\ IsStore(store) /\ log \in Seq(Event) /\ store = derive(log)
  BY <1>1, StoreIsGood DEF StoreInv
<1> DEFINE one == Append(log, Rejected)
<1>3. Rejected \in Event /\ Good(host, one, store)
  BY <1>2, RemarkKeepsGood
<1>4. one \in Seq(Event)
  BY <1>2, <1>3
<1>5. derive(one) = store
  BY <1>2, RemarkDerives
<1>6. log' = Append(one, Rejected)
  BY <1>1, <1>2, <1>3
<1> HIDE DEF one
<1>7. log' \in Seq(Event) /\ Good(host, log', store)
  BY <1>3, <1>4, <1>6, RemarkKeepsGood
<1>8. derive(log') = store
  BY <1>2, <1>4, <1>5, <1>6, RemarkDerives
<1>9. Follows
  BY <1>1, <1>7, <1>8 DEF Follows, LogInv
<1>10. OpInv'
  BY <1>1 DEF OpInv
<1> QED
  BY <1>1, <1>9, <1>10, FollowsKeeps, SameStoreLasts
-----------------------------------------------------------------------------
(* Init, Next and the theorems *)

LEMMA EmptyIsGood == \A h : Good(h, <<>>, <<>>)
<1>1. DOMAIN <<>> = {} /\ IsFiniteSet({})
  BY FS_EmptySet
<1>2. IsStore(<<>>)
  BY <1>1 DEF IsStore
<1>3. ASSUME NEW session PROVE ClaimsOf(<<>>, session) = ClaimNumbers(session, 0)
  BY <1>1 DEF ClaimsOf, ClaimNumbers
<1>4. ClaimsCounted(<<>>)
  BY <1>3 DEF ClaimsCounted
<1>5. /\ Derived(<<>>) /\ Buried(<<>>) /\ Matches(<<>>, <<>>) /\ Plain(<<>>)
      /\ Titled(<<>>)
  BY <1>1 DEF Derived, Buried, Matches, Plain, Titled
<1>6. \A h : Led(h, <<>>)
  BY <1>1 DEF Led
<1> QED
  BY <1>2, <1>4, <1>5, <1>6 DEF Good

LEMMA InitStore == Init => StoreInv
<1>1. SUFFICES ASSUME Init PROVE StoreInv
  OBVIOUS
<1>2. log = <<>> /\ store = <<>> /\ derive(log) = <<>>
  BY <1>1, DeriveEmpty DEF Init
<1>3. LogInv
  BY <1>2, EmptyIsGood DEF LogInv
<1> QED
  BY <1>1, <1>2, <1>3 DEF Init, StoreInv, OpInv

LEMMA CrashKeeps ==
    ASSUME StoreInv, Crash
    PROVE  StoreInv' /\ ~ up'
BY DEF Crash, StoreInv, LogInv, OpInv

LEMMA StartKeeps ==
    ASSUME StoreInv, Start
    PROVE  StoreInv' /\ ~ up
BY DEF Start, StoreInv, LogInv, OpInv

(* The invariant holds after every step, and the step loses no belief. *)
LEMMA StepLasts ==
    ASSUME StoreInv, [Next]_vars
    PROVE  StoreInv' /\ (up /\ up' => Lasts)
<1>1. ASSUME NEW s \in Sessions, NEW r \in Requests, StartIngest(s, r)
      PROVE  StoreInv' /\ (up /\ up' => Lasts)
  BY <1>1, StartIngestKeeps, SameStoreLasts DEF StartIngest
<1>2. ASSUME NEW s \in Sessions, NEW r \in Runs, NEW t \in Said, NEW c \in Channels,
             IngestExternal(s, r, t, c)
      PROVE  StoreInv' /\ (up /\ up' => Lasts)
  BY <1>2, IngestExternalKeeps, SameStoreLasts DEF IngestExternal
<1>3. CASE IngestTurn
  <2>1. up /\ op.at = "turns"
    BY <1>3 DEF IngestTurn
  <2>2. TurnEvent \in WrittenEvent /\ Fitting(host, store, TurnEvent)
    BY <2>1, TurnIsTaken
  <2>3. Lasts
    BY <1>3, <2>1, <2>2, IngestTurnFollows, SameStoreLasts, GrownStoreLasts
  <2> QED
    BY <1>3, <2>3, IngestTurnKeeps
<1>4. CASE Embed
  BY <1>4, EmbedKeeps, SameStoreLasts DEF Embed
<1>5. CASE EmbedFails
  <2>1. OpInv' /\ up
    BY <1>5 DEF EmbedFails, OpInv
  <2> QED
    BY <1>5, <2>1, QuietKeeps, SameStoreLasts DEF EmbedFails
<1>6. CASE Plan
  BY <1>6, PlanKeeps, SameStoreLasts DEF Plan
<1>7. CASE Merge
  BY <1>7, MergeFollows, SameStoreLasts
<1>8. CASE Lose
  BY <1>8, LoseFollows, MarkedStoreLasts
<1>9. CASE ConsolidationRan
  BY <1>9, ConsolidationRanFollows, SameStoreLasts
<1>10. CASE ClaimStep
  BY <1>10, RememberFollows, CorrectFollows DEF ClaimStep
<1>11. ASSUME NEW t, NEW p, RememberRefused(t, p)
       PROVE  StoreInv' /\ (up /\ up' => Lasts)
  BY <1>11, RememberRefusedFollows
<1>12. CASE CorrectSupersedes
  BY <1>12, CorrectSupersedesFollows
<1>13. ASSUME NEW target, Forget(target)
       PROVE  StoreInv' /\ (up /\ up' => Lasts)
  BY <1>13, ForgetFollows
<1>14. CASE AppendFails
  <2>1. OpInv' /\ up
    BY <1>14 DEF AppendFails, OpInv
  <2> QED
    BY <1>14, <2>1, QuietKeeps, SameStoreLasts DEF AppendFails
<1>15. CASE Crash
  BY <1>15, CrashKeeps
<1>16. CASE Start
  BY <1>16, StartKeeps
<1>17. CASE Tick
  <2>1. op' = Idle /\ UNCHANGED <<host, log, store, up>> /\ now' = now + 1
    BY <1>17 DEF Tick
  <2>2. now' \in Nat
    BY <2>1 DEF StoreInv
  <2> QED
    BY <2>1, <2>2, IdleKeeps, SameStoreLasts
<1>18. CASE UNCHANGED vars
  BY <1>18, SameStoreLasts
     DEF vars, StoreInv, LogInv, OpInv, TakingTurns, Consolidating, Correcting,
     InStore
<1> QED
  BY <1>1, <1>2, <1>3, <1>4, <1>5, <1>6, <1>7, <1>8, <1>9, <1>10, <1>11, <1>12, <1>13, <1>14,
     <1>15, <1>16, <1>17, <1>18 DEF Next

(* The store and what a restart would make of the log agree at every point,   *)
(* however operations fail between two of their appends: `StoreInv` is the    *)
(* inductive invariant behind every theorem of this module.                   *)
THEOREM StoreFollowsLog == Spec => []StoreInv
<1>1. StoreInv /\ [Next]_vars => StoreInv'
  BY StepLasts
<1> QED
  BY InitStore, <1>1, PTL DEF Spec

(* What may be injected is what the log says: in an invariant state the last  *)
(* word of a belief's events decides.                                         *)
LEMMA LastWordIs ==
    ASSUME LogInv, NEW id, NEW i, LastAt(log, i, id)
    PROVE  LastWord(id) = log[i]
<1> DEFINE about == {j \in DOMAIN log : log[j].kind \in {"written", "superseded", "tombstoned"}
                                        /\ log[j].id = id}
<1>1. DOMAIN log \subseteq Int
  BY DEF LogInv
<1>2. about \subseteq Int /\ i \in about /\ \A j \in about : j <= i
  BY <1>1 DEF LastAt, Speaks
<1>3. LastWord(id) = log[Max(about)]
  BY DEF LastWord
<1> HIDE DEF about
<1>4. Max(about) \in about /\ \A j \in about : Max(about) >= j
  BY <1>2 DEF Max
<1>5. ASSUME NEW m, m \in about, \A j \in about : m >= j PROVE m = i
  <2>1. m \in Int /\ i \in Int /\ m <= i /\ m >= i
    BY <1>2, <1>5
  <2> QED
    BY ONLY <2>1
<1> QED
  BY <1>3, <1>4, <1>5

LEMMA CandidatesAgree ==
    ASSUME StoreInv
    PROVE  CandidatesPerLog
<1>1. SUFFICES ASSUME up PROVE CandidatesPerLog
  BY DEF CandidatesPerLog
<1>2. IsStore(store) /\ Matches(log, store) /\ LogInv
  BY <1>1, StoreIsGood DEF StoreInv, Good
<1> DEFINE Names == {log[i].id : i \in {i \in DOMAIN log : log[i].kind = "written"}}
           Meant == {id \in Names : LastWord(id).kind = "written" /\ LastWord(id).silent <= now}
<1>3. Names = DOMAIN store
  BY <1>2 DEF Matches, Told
<1>4. ASSUME NEW id \in DOMAIN store
      PROVE  InjectionCandidate(store[id], now) <=>
                LastWord(id).kind = "written" /\ LastWord(id).silent <= now
  <2>1. PICK i \in DOMAIN log : /\ LastAt(log, i, id)
                                /\ Live(store[id]) <=> log[i].kind = "written"
                                /\ Live(store[id]) => store[id].silent = log[i].silent
    BY <1>2 DEF Matches, Told
  <2>2. LastWord(id) = log[i]
    BY <1>2, <2>1, LastWordIs
  <2>3. store[id].fidelity \in {Tombstone, Record}
    BY <1>2 DEF IsStore, Entry
  <2>4. InjectionCandidate(store[id], now) <=> Live(store[id]) /\ store[id].silent <= now
    BY <2>3 DEF InjectionCandidate, Matured, Live, Tombstone, Record
  <2> QED
    BY <2>1, <2>2, <2>4
<1> HIDE DEF Names
<1>5. injection_candidates(now) = Meant
  BY <1>3, <1>4 DEF injection_candidates
<1> QED
  BY <1>5 DEF CandidatesPerLog, Names

(* For any log an interrupted or failing operation can leave: a restart       *)
(* rebuilds the store that was in memory, never refuses the log, and readers  *)
(* are offered what the log says (`derive` against the live operations).      *)
THEOREM RestartRebuildsTheStore == Spec => []LiveIsReplayed
<1>1. StoreInv => LiveIsReplayed
  <2>1. StoreInv => derive(log) # Unreplayable /\ (up => store = derive(log))
    BY StoresReplay DEF StoreInv, LogInv, Good
  <2> QED
    BY <2>1, CandidatesAgree DEF LiveIsReplayed
<1> QED
  BY <1>1, StoreFollowsLog, PTL

(* A claim is worth no more than any belief behind it, through any number of  *)
(* claims: what is worth at least as much is closed under lineage.            *)
THEOREM TrustFollowsLineage == Spec => []LineageBounds
<1>1. StoreInv => LineageBounds
  <2>1. SUFFICES ASSUME StoreInv, NEW id \in DOMAIN store, NEW a \in Ancestors(id)
                 PROVE  store[id].eff <= store[a].eff /\ store[id].eff <= store[a].own
    BY DEF LineageBounds
  <2>2. up
    BY <2>1 DEF StoreInv
  <2>3. IsStore(store) /\ Derived(store)
    BY <2>1, <2>2, StoreIsGood DEF Good
  <2>4. \A x \in DOMAIN store : store[x].eff \in 0..3 /\ store[x].own \in 0..3
    BY <2>3 DEF IsStore, Entry
  <2> DEFINE Worthy == {x \in DOMAIN store : store[id].eff <= store[x].eff}
  <2>5. id \in Worthy
    BY <2>4
  <2>6. Closed(Worthy)
    BY <2>3, <2>4 DEF Closed, Derived
  <2>7. a \in Worthy
    BY <2>5, <2>6 DEF Ancestors
  <2> QED
    BY <2>3, <2>4, <2>7 DEF Derived
<1> QED
  BY <1>1, StoreFollowsLog, PTL

(* No write of the daemon takes another belief's place, and what was          *)
(* forgotten stays forgotten.                                                 *)
THEOREM NothingIsOverwritten == Spec => BeliefsLast
<1> DEFINE A == /\ host = "daemon" /\ up /\ up' =>
                     \A id \in {id \in DOMAIN store : store[id].fidelity > Tombstone} :
                         /\ id \in DOMAIN store'
                         /\ store'[id].origin = store[id].origin
                         /\ store'[id].text \in {store[id].text, Blank}
                /\ \A id \in DOMAIN store :
                     store[id].fidelity = Tombstone /\ up' =>
                         store'[id].fidelity = Tombstone /\ store'[id].text = Blank
<1>1. ASSUME StoreInv, [Next]_vars PROVE A
  <2>1. CASE up
    BY <1>1, <2>1, StepLasts DEF Lasts
  <2>2. CASE ~ up
    BY <1>1, <2>2 DEF StoreInv
  <2> QED
    BY <2>1, <2>2
<1>2. StoreInv /\ [Next]_vars => [A]_vars
  BY <1>1
<1> QED
  BY <1>2, StoreFollowsLog, PTL DEF Spec, BeliefsLast
-----------------------------------------------------------------------------
(* Superseding ends: a successor is younger, so a chain of them stops *)

LEMMA ChainsEnd ==
    ASSUME StoreInv
    PROVE  SurvivorRemains
<1>1. CASE ~ up
  <2>1. DOMAIN store = {}
    BY <1>1 DEF StoreInv
  <2> QED
    BY <2>1 DEF SurvivorRemains, Passed
<1>2. CASE up
  <2>1. IsStore(store) /\ Led(host, store) /\ Matches(log, store) /\ log \in Seq(Event)
    BY <1>2, StoreIsGood DEF Good
  <2>2. Passed(DOMAIN store)
    BY <2>1 DEF Led, Passed
  <2>3. ASSUME NEW id \in DOMAIN store
        PROVE  \E last \in Heirs(id) :
                  store[last].by = None /\ (host = "daemon" => store[last].eff >= store[id].eff)
    <3>1. id \in Heirs(id) /\ Heirs(id) \subseteq DOMAIN store
      BY DEF Heirs
    <3>2. ASSUME NEW h \in Heirs(id), store[h].by # None PROVE store[h].by \in Heirs(id)
      BY <2>1, <3>1, <3>2 DEF Heirs, Passed, Led
    <3>3. Len(log) \in Nat /\ \A h \in Heirs(id) : store[h].origin \in 1..Len(log)
      BY <2>1, <3>1 DEF Matches
    <3> DEFINE last == Winner(Heirs(id))
    <3>4. last \in Heirs(id) /\ \A h \in Heirs(id) : store[h].origin <= store[last].origin
      BY <3>1, <3>3, WinnerInside
    <3> HIDE DEF last
    <3>5. store[last].by = None
      <4>1. SUFFICES ASSUME store[last].by # None PROVE FALSE
        OBVIOUS
      <4>2. store[last].by \in Heirs(id) /\ store[last].origin < store[store[last].by].origin
        BY <2>1, <3>1, <3>2, <3>4, <4>1 DEF Led
      <4>3. store[store[last].by].origin <= store[last].origin
        BY <3>4, <4>2
      <4>4. store[last].origin \in 1..Len(log) /\ store[store[last].by].origin \in 1..Len(log)
        BY <3>3, <3>4, <4>2
      <4> QED
        BY <4>2, <4>3, <4>4
    <3>6. host = "daemon" => store[last].eff >= store[id].eff
      <4> DEFINE Worthy == {x \in DOMAIN store : store[id].eff <= store[x].eff}
      <4>1. \A x \in DOMAIN store : store[x].eff \in 0..3
        BY <2>1 DEF IsStore, Entry
      <4>2. id \in Worthy
        BY <4>1
      <4>3. host = "daemon" => Passed(Worthy)
        BY <2>1, <4>1 DEF Passed, Led
      <4>4. host = "daemon" => last \in Worthy
        BY <3>4, <4>2, <4>3 DEF Heirs
      <4> QED
        BY <4>1, <4>4
    <3> QED
      BY <3>4, <3>5, <3>6
  <2> QED
    BY <2>2, <2>3 DEF SurvivorRemains
<1> QED
  BY <1>1, <1>2

-----------------------------------------------------------------------------
(* Plans are exact: the order of the pairs, and what joining them leaves *)

(* What makes the order of the pairs total *)
Orderly(ids) ==
    /\ \A a, b \in ids : Similarity(a, b) \in Int /\ Similarity(a, b) = Similarity(b, a)
    /\ \A a, b \in ids : a # b => Before(a, b) \/ Before(b, a)
    /\ \A a \in ids : ~ Before(a, a)
    /\ \A a, b, c \in ids : Before(a, b) /\ Before(b, c) => Before(a, c)

LEMMA SoonerIsTotal ==
    ASSUME NEW ids, Orderly(ids)
    PROVE  /\ \A p \in Pairs(ids) : ~ Sooner(p, p)
           /\ \A p, q \in Pairs(ids) : p # q => Sooner(p, q) \/ Sooner(q, p)
           /\ \A p, q, r \in Pairs(ids) : Sooner(p, q) /\ Sooner(q, r) => Sooner(p, r)
<1>1. \A p \in Pairs(ids) : /\ p[1] \in ids /\ p[2] \in ids /\ p = <<p[1], p[2]>>
                            /\ Similarity(p[1], p[2]) \in Int
  BY DEF Pairs, Orderly
<1>2. ASSUME NEW p \in Pairs(ids) PROVE ~ Sooner(p, p)
  BY <1>1 DEF Sooner, Orderly
<1>3. ASSUME NEW p \in Pairs(ids), NEW q \in Pairs(ids), p # q
      PROVE  Sooner(p, q) \/ Sooner(q, p)
  <2>1. p[1] # q[1] \/ p[2] # q[2]
    BY <1>1, <1>3
  <2> QED
    BY <1>1, <2>1 DEF Sooner, Orderly
<1>4. ASSUME NEW p \in Pairs(ids), NEW q \in Pairs(ids), NEW r \in Pairs(ids),
             Sooner(p, q), Sooner(q, r)
      PROVE  Sooner(p, r)
  BY <1>1, <1>4 DEF Sooner, Orderly
<1> QED
  BY <1>2, <1>3, <1>4

LEMMA PairsFinite ==
    ASSUME NEW ids, IsFiniteSet(ids)
    PROVE  IsFiniteSet(Pairs(ids)) /\ Cardinality(Pairs(ids)) \in Nat
<1>1. IsFiniteSet(ids \X ids)
  BY FS_Product
<1>2. IsFiniteSet(Pairs(ids))
  BY <1>1, FS_Subset DEF Pairs
<1> QED
  BY <1>2, FS_CardinalityType

(* Every pair has its place, and every place its pair. *)
LEMMA EveryPairHasItsTurn ==
    ASSUME NEW ids, IsFiniteSet(ids), Orderly(ids), NEW n, n = Cardinality(Pairs(ids))
    PROVE  /\ \A p \in Pairs(ids) : \E i \in 1..n : MergeCandidates(ids)[i] = p
           /\ \A i \in 1..n : MergeCandidates(ids)[i] \in Pairs(ids)
<1> DEFINE P == Pairs(ids)
           Ahead(p) == {q \in P : Sooner(q, p)}
           f == [p \in P |-> Rank(P, p)]
<1>1. IsFiniteSet(P) /\ n \in Nat /\ n = Cardinality(P)
  BY PairsFinite
<1>2. /\ \A p \in P : ~ Sooner(p, p)
      /\ \A p, q \in P : p # q => Sooner(p, q) \/ Sooner(q, p)
      /\ \A p, q, r \in P : Sooner(p, q) /\ Sooner(q, r) => Sooner(p, r)
  BY SoonerIsTotal
<1>3. \A p : Rank(P, p) = Cardinality(Ahead(p)) + 1
  BY DEF Rank
<1>4. MergeCandidates(ids) = [i \in 1..n |-> CHOOSE p \in P : Rank(P, p) = i]
  BY DEF MergeCandidates
<1> HIDE DEF P
<1>5. ASSUME NEW p \in P
      PROVE  IsFiniteSet(Ahead(p)) /\ Cardinality(Ahead(p)) \in Nat /\ Cardinality(Ahead(p)) + 1 <= n
  <2>1. IsFiniteSet(P \ {p}) /\ Cardinality(P \ {p}) = n - 1
    BY <1>1, FS_RemoveElement
  <2>2. Ahead(p) \in SUBSET (P \ {p})
    BY <1>2
  <2> HIDE DEF Ahead
  <2>3. IsFiniteSet(Ahead(p)) /\ Cardinality(Ahead(p)) <= n - 1
    BY <2>1, <2>2, FS_Subset
  <2>4. Cardinality(Ahead(p)) \in Nat
    BY <2>3, FS_CardinalityType
  <2> QED
    BY <1>1, <2>3, <2>4
<1>6. ASSUME NEW p \in P, NEW q \in P, Sooner(p, q)
      PROVE  Cardinality(Ahead(p)) < Cardinality(Ahead(q))
  <2>1. p \notin Ahead(p) /\ Ahead(p) \cup {p} \in SUBSET Ahead(q)
    BY <1>2, <1>6
  <2>2. /\ IsFiniteSet(Ahead(p)) /\ Cardinality(Ahead(p)) \in Nat
        /\ IsFiniteSet(Ahead(q)) /\ Cardinality(Ahead(q)) \in Nat
    BY <1>5
  <2> HIDE DEF Ahead
  <2>3. Cardinality(Ahead(p) \cup {p}) = Cardinality(Ahead(p)) + 1
    BY <2>1, <2>2, FS_AddElement
  <2>4. Cardinality(Ahead(p) \cup {p}) <= Cardinality(Ahead(q))
    BY <2>1, <2>2, FS_Subset
  <2> QED
    BY <2>2, <2>3, <2>4
<1> HIDE DEF Ahead
<1>7. f \in Injection(P, 1..n)
  <2>1. f \in [P -> 1..n]
    BY <1>1, <1>3, <1>5
  <2>2. ASSUME NEW p \in P, NEW q \in P, f[p] = f[q] PROVE p = q
    <3>1. Cardinality(Ahead(p)) = Cardinality(Ahead(q))
      BY <1>3, <1>5, <2>2
    <3> QED
      BY <1>2, <1>5, <1>6, <3>1
  <2> QED
    BY <2>1, <2>2 DEF Injection, IsInjective
<1>8. IsFiniteSet(1..n) /\ Cardinality(1..n) = n
  <2>1. 1 \in Int /\ n \in Int
    BY <1>1
  <2>2. IsFiniteSet(1..n) /\ Cardinality(1..n) = IF 1 > n THEN 0 ELSE n - 1 + 1
    BY <2>1, FS_Interval
  <2> QED
    BY <1>1, <2>2
<1>9. f \in Surjection(P, 1..n)
  BY <1>1, <1>7, <1>8, FS_Injection
<1>10. \A i \in 1..n : \E p \in P : Rank(P, p) = i
  BY <1>9 DEF Surjection
<1>11. \A p, q \in P : Rank(P, p) = Rank(P, q) => p = q
  BY <1>7 DEF Injection, IsInjective
<1>12. \A p \in P : Rank(P, p) \in 1..n
  BY <1>7 DEF Injection
<1>13. ASSUME NEW i \in 1..n
       PROVE  MergeCandidates(ids)[i] \in P /\ Rank(P, MergeCandidates(ids)[i]) = i
  BY <1>4, <1>10
<1>14. \A p \in P : MergeCandidates(ids)[Rank(P, p)] = p
  BY <1>11, <1>12, <1>13
<1> QED
  BY <1>12, <1>13, <1>14 DEF P
(* Groups that divide the identifiers, each of them alike throughout *)
Alike(g) == \A a, b \in g : a # b => Similarity(a, b) >= Threshold
Divided(groups, ids) ==
    /\ groups \subseteq SUBSET ids /\ {} \notin groups
    /\ \A x \in ids : \E g \in groups : x \in g
    /\ \A g, h \in groups : g # h => g \cap h = {}
    /\ \A g \in groups : Alike(g)

(* The two groups of a pair that could be one are one *)
Decided(groups, p) ==
    \A g, h \in groups : p[1] \in g /\ p[2] \in h /\ g # h =>
        \E a \in g, b \in h : Similarity(a, b) < Threshold

(* What a join does, in terms of the two groups its pair is in *)
LEMMA JoinOfTwo ==
    ASSUME NEW ids, NEW groups, Divided(groups, ids), NEW p, NEW g \in groups, NEW h \in groups,
           p[1] \in g, p[2] \in h
    PROVE  Join(groups, p) = IF g # h => Joins(g, h) /\ Joins(h, g)
                             THEN (groups \ {g, h}) \cup {g \cup h} ELSE groups
<1> DEFINE met == {k \in groups : p[1] \in k \/ p[2] \in k}
<1>1. met = {g, h}
  <2>1. \A k \in groups : (p[1] \in k \/ p[2] \in k) <=> k \in {g, h}
    BY DEF Divided
  <2> QED
    BY <2>1
<1>2. Join(groups, p) = IF \A left, right \in met : left # right => Joins(left, right)
                        THEN (groups \ met) \cup {UNION met} ELSE groups
  BY DEF Join
<1> HIDE DEF met
<1>3. UNION met = g \cup h
  BY <1>1
<1>4. (\A left, right \in met : left # right => Joins(left, right)) <=>
      (g # h => Joins(g, h) /\ Joins(h, g))
  BY <1>1
<1> QED
  BY <1>1, <1>2, <1>3, <1>4

LEMMA JoinKeepsGroups ==
    ASSUME NEW ids, Orderly(ids), Threshold \in Int, NEW groups, Divided(groups, ids),
           NEW p, p[1] \in ids, p[2] \in ids
    PROVE  /\ Divided(Join(groups, p), ids) /\ Decided(Join(groups, p), p)
           /\ \A q : Decided(groups, q) /\ q[1] \in ids /\ q[2] \in ids => Decided(Join(groups, p), q)
<1>1. PICK g \in groups, h \in groups : p[1] \in g /\ p[2] \in h
  BY DEF Divided
<1>2. Join(groups, p) = IF g # h => Joins(g, h) /\ Joins(h, g)
                        THEN (groups \ {g, h}) \cup {g \cup h} ELSE groups
  BY <1>1, JoinOfTwo
<1>3. g \subseteq ids /\ h \subseteq ids
  BY DEF Divided
<1>4. CASE g # h => Joins(g, h) /\ Joins(h, g)
  <2> DEFINE one == g \cup h
             joined == (groups \ {g, h}) \cup {one}
  <2>1. Join(groups, p) = joined
    BY <1>2, <1>4
  <2>2. Alike(one)
    <3>1. SUFFICES ASSUME NEW a \in one, NEW b \in one, a # b
                   PROVE  Similarity(a, b) >= Threshold
      BY DEF Alike
    <3>2. Alike(g) /\ Alike(h)
      BY DEF Divided
    <3>3. CASE (a \in g /\ b \in g) \/ (a \in h /\ b \in h)
      BY <3>1, <3>2, <3>3 DEF Alike
    <3>4. CASE g # h /\ ((a \in g /\ b \in h) \/ (a \in h /\ b \in g))
      BY <1>4, <3>4 DEF Joins
    <3> QED
      BY <3>3, <3>4
  <2> HIDE DEF one
  <2>3. one = g \cup h
    BY DEF one
  <2>4. Divided(joined, ids)
    <3>1. joined \subseteq SUBSET ids /\ {} \notin joined
      BY <1>1, <1>3, <2>3 DEF Divided
    <3>2. \A x \in ids : \E k \in joined : x \in k
      BY <2>3 DEF Divided
    <3>3. ASSUME NEW k \in joined, NEW m \in joined, k # m PROVE k \cap m = {}
      <4>1. \A x \in groups \ {g, h} : x \cap one = {}
        BY <2>3 DEF Divided
      <4> QED
        BY <3>3, <4>1 DEF Divided
    <3>4. \A k \in joined : Alike(k)
      BY <2>2 DEF Divided
    <3> QED
      BY <3>1, <3>2, <3>3, <3>4 DEF Divided
  <2>5. Decided(joined, p)
    <3>1. \A k \in joined : p[1] \in k \/ p[2] \in k => k = one
      BY <1>1, <2>3 DEF Divided
    <3> QED
      BY <3>1 DEF Decided
  <2>6. ASSUME NEW q, Decided(groups, q), q[1] \in ids, q[2] \in ids PROVE Decided(joined, q)
    <3>1. SUFFICES ASSUME NEW k \in joined, NEW m \in joined, q[1] \in k, q[2] \in m, k # m
                   PROVE  \E a \in k, b \in m : Similarity(a, b) < Threshold
      BY DEF Decided
    <3>2. PICK x \in groups, y \in groups : q[1] \in x /\ q[2] \in y
      BY <2>6 DEF Divided
    <3>3. x \subseteq k /\ y \subseteq m
      <4>1. \A z \in groups : \E w \in joined : z \subseteq w
        BY <2>3
      <4>2. PICK w \in joined : x \subseteq w
        BY <4>1
      <4>3. PICK v \in joined : y \subseteq v
        BY <4>1
      <4>4. w = k /\ v = m
        BY <2>4, <3>1, <3>2, <4>2, <4>3 DEF Divided
      <4> QED
        BY <4>2, <4>3, <4>4
    <3>4. x # y
      BY <2>4, <3>1, <3>2, <3>3 DEF Divided
    <3>5. \E a \in x, b \in y : Similarity(a, b) < Threshold
      BY <2>6, <3>2, <3>4 DEF Decided
    <3> QED
      BY <3>3, <3>5
  <2> QED
    BY <2>1, <2>4, <2>5, <2>6
<1>5. CASE ~ (g # h => Joins(g, h) /\ Joins(h, g))
  <2>1. Join(groups, p) = groups
    BY <1>2, <1>5
  <2>2. PICK a \in g, b \in h : Similarity(a, b) < Threshold
    BY <1>3, <1>5 DEF Joins, Orderly
  <2>3. Decided(groups, p)
    <3>1. SUFFICES ASSUME NEW k \in groups, NEW m \in groups, p[1] \in k, p[2] \in m, k # m
                   PROVE  \E x \in k, y \in m : Similarity(x, y) < Threshold
      BY DEF Decided
    <3>2. k = g /\ m = h
      BY <1>1, <3>1 DEF Divided
    <3> QED
      BY <2>2, <3>2
  <2> QED
    BY <2>1, <2>3
<1> QED
  BY <1>4, <1>5
LEMMA GroupsExact ==
    ASSUME NEW ids, IsFiniteSet(ids), Orderly(ids), Threshold \in Int
    PROVE  /\ Divided(Groups(ids), ids)
           /\ \A p \in Pairs(ids) : Decided(Groups(ids), p)
<1> DEFINE n == Cardinality(Pairs(ids))
           M == MergeCandidates(ids)
<1>1. n \in Nat
  BY PairsFinite
<1>2. /\ \A p \in Pairs(ids) : \E i \in 1..n : M[i] = p
      /\ \A i \in 1..n : M[i] \in Pairs(ids)
  BY EveryPairHasItsTurn
<1>3. PICK J : JoinTo(J, ids, n) /\ Groups(ids) = J[n]
  BY <1>1, GroupsAre
<1>4. J[0] = Alone(ids) /\ \A i \in 1..n : J[i] = Join(J[i - 1], M[i])
  BY <1>1, <1>3 DEF JoinTo
<1> HIDE DEF n, M
<1> DEFINE Exact(i) == Divided(J[i], ids) /\ \A j \in 1..i : Decided(J[i], M[j])
           Wrong == {i \in 0..n : ~ Exact(i)}
<1>5. Exact(0)
  <2>1. Divided(Alone(ids), ids)
    BY DEF Divided, Alone, Alike
  <2> QED
    BY <1>4, <2>1
<1>6. ASSUME NEW i \in 1..n, Exact(i - 1) PROVE Exact(i)
  <2>1. M[i][1] \in ids /\ M[i][2] \in ids /\ J[i] = Join(J[i - 1], M[i])
    BY <1>2, <1>4 DEF Pairs
  <2>2. Divided(J[i], ids) /\ Decided(J[i], M[i])
    BY <1>6, <2>1, JoinKeepsGroups
  <2>3. ASSUME NEW j \in 1..i, j # i PROVE Decided(J[i], M[j])
    <3>1. j \in 1..(i - 1) /\ j \in 1..n
      BY <1>1, <2>3
    <3>2. Decided(J[i - 1], M[j]) /\ M[j][1] \in ids /\ M[j][2] \in ids
      BY <1>2, <1>6, <3>1 DEF Pairs
    <3> QED
      BY <1>6, <2>1, <3>2, JoinKeepsGroups
  <2> QED
    BY <2>2, <2>3
<1> HIDE DEF Exact
<1>7. Wrong = {}
  <2>1. SUFFICES ASSUME Wrong # {} PROVE FALSE
    OBVIOUS
  <2>2. Wrong \in SUBSET Nat
    BY <1>1
  <2>3. \A i \in Wrong : i \in 1..n /\ i - 1 \in Wrong
    BY <1>1, <1>5, <1>6
  <2> HIDE DEF Wrong
  <2>4. PICK m \in Wrong : \A k \in Wrong : m <= k
    BY <2>1, <2>2, LeastNatural
  <2> QED
    BY <2>2, <2>3, <2>4
<1>8. Exact(n)
  BY <1>1, <1>7
<1> QED
  BY <1>2, <1>3, <1>8 DEF Exact

LEMMA PlanIsOrderly ==
    ASSUME StoreInv, VectorInv, up, op.at = "plan", NEW session
    PROVE  /\ IsFiniteSet(Scoped(session)) /\ Scoped(session) \subseteq DOMAIN store
           /\ Orderly(Scoped(session))
<1> DEFINE ids == Scoped(session)
<1>1. IsStore(store) /\ Good(host, log, store)
  BY StoreIsGood
<1>2. ids \subseteq DOMAIN store
  BY DEF Scoped, recall_candidates
<1>3. IsFiniteSet(ids)
  BY <1>1, <1>2, FS_Subset DEF IsStore
<1>4. host = "adapter"
  BY DEF StoreInv, OpInv, TakingTurns, Consolidating, Correcting, Idle
<1>5. ASSUME NEW id \in ids
      PROVE  /\ id \in Ids /\ id[2] \in {"turn"} \X Nat /\ id[3] \in Nat
             /\ store[id].sess = session /\ vectors[id] \in Texts
  <2>1. id \in DOMAIN store /\ store[id].sess = session
    BY <1>2 DEF Scoped
  <2>2. id \in Ids
    BY <1>1, <2>1 DEF IsStore
  <2>3. id[2] \in {"turn"} \X Turns
    BY <1>1, <1>4, <2>1 DEF Good, Plain
  <2>4. vectors[id] \in Texts
    BY <2>1 DEF VectorInv
  <2> QED
    BY <2>1, <2>2, <2>3, <2>4, BeliefAssumption DEF Ids
<1>6. \A id \in DOMAIN store : store[id].sess = id[1]
  BY <1>1 DEF Good, Titled
<1> HIDE DEF ids
<1>7. ASSUME NEW a \in ids, NEW b \in ids
      PROVE  /\ Similarity(a, b) \in Int /\ Similarity(a, b) = Similarity(b, a)
             /\ a # b => Before(a, b) \/ Before(b, a)
             /\ ~ Before(a, a)
  <2>1. Similarity(a, b) \in Int /\ Similarity(a, b) = Similarity(b, a)
    BY <1>5, BeliefAssumption DEF Similarity
  <2>2. a = <<session, <<"turn", a[2][2]>>, a[3]>> /\ b = <<session, <<"turn", b[2][2]>>, b[3]>>
    BY <1>2, <1>5, <1>6 DEF Ids
  <2>3. a[2][2] \in Nat /\ b[2][2] \in Nat /\ a[3] \in Nat /\ b[3] \in Nat
    BY <1>5
  <2>4. a # b => a[2][2] # b[2][2] \/ a[3] # b[3]
    BY <2>2
  <2> QED
    BY <2>1, <2>3, <2>4 DEF Before
<1>8. ASSUME NEW a \in ids, NEW b \in ids, NEW c \in ids, Before(a, b), Before(b, c)
      PROVE  Before(a, c)
  <2>1. /\ a[2][2] \in Nat /\ b[2][2] \in Nat /\ c[2][2] \in Nat
        /\ a[3] \in Nat /\ b[3] \in Nat /\ c[3] \in Nat
    BY <1>5
  <2> QED
    BY <1>8, <2>1 DEF Before
<1>9. Orderly(ids)
  BY <1>7, <1>8 DEF Orderly
<1> QED
  BY <1>2, <1>3, <1>9 DEF ids

LEMMA PlanIsExact ==
    ASSUME StoreInv, VectorInv
    PROVE  ClustersExact
<1>1. SUFFICES ASSUME up, op.at = "plan"
               PROVE  /\ \A c \in Clusters(op.sess) : \A a, b \in c.losers \cup {c.rep} :
                            a # b => Similarity(a, b) >= Threshold
                      /\ \A g, h \in Groups(Scoped(op.sess)) :
                            g # h => \E a \in g, b \in h : Similarity(a, b) < Threshold
  BY DEF ClustersExact
<1> DEFINE ids == Scoped(op.sess)
<1>2. IsFiniteSet(ids) /\ ids \subseteq DOMAIN store /\ Orderly(ids)
  BY <1>1, PlanIsOrderly
<1>3. Threshold \in Int
  BY BeliefAssumption
<1>4. Divided(Groups(ids), ids) /\ \A p \in Pairs(ids) : Decided(Groups(ids), p)
  BY <1>2, <1>3, GroupsExact
<1>5. ASSUME NEW c \in Clusters(op.sess), NEW a \in c.losers \cup {c.rep},
             NEW b \in c.losers \cup {c.rep}, a # b
      PROVE  Similarity(a, b) >= Threshold
  <2>1. PICK g \in Groups(ids) : Cardinality(g) >= 2 /\ c = [rep |-> Winner(g), losers |-> Losers(g)]
    BY DEF Clusters
  <2>2. Len(log) \in Nat /\ \A id \in g : store[id].origin \in 1..Len(log)
    <3>1. log \in Seq(Event) /\ Matches(log, store)
      BY <1>1, StoreIsGood DEF Good
    <3>2. g \subseteq DOMAIN store
      BY <1>2, <1>4 DEF Divided
    <3> QED
      BY <3>1, <3>2 DEF Matches
  <2>3. g # {} /\ Alike(g)
    BY <1>4 DEF Divided
  <2>4. Winner(g) \in g
    BY <2>2, <2>3, WinnerInside
  <2>5. c.losers \cup {c.rep} = g
    BY <2>1, <2>4 DEF Losers
  <2> QED
    BY <1>5, <2>3, <2>5 DEF Alike
<1>6. ASSUME NEW g \in Groups(ids), NEW h \in Groups(ids), g # h,
             \A a \in g, b \in h : ~ (Similarity(a, b) < Threshold)
      PROVE  FALSE
  <2>0. g # {} /\ h # {} /\ g \cap h = {} /\ g \subseteq ids /\ h \subseteq ids
    BY <1>4, <1>6 DEF Divided
  <2>1. PICK a \in g, b \in h : a # b /\ a \in ids /\ b \in ids
    BY <2>0
  <2>2. /\ Similarity(a, b) \in Int /\ Similarity(a, b) = Similarity(b, a)
        /\ Before(a, b) \/ Before(b, a)
    BY <1>2, <2>1 DEF Orderly
  <2>3. Similarity(a, b) >= Threshold
    BY <1>3, <1>6, <2>1, <2>2
  <2>4. CASE Before(a, b)
    <3>1. <<a, b>> \in Pairs(ids)
      BY <2>1, <2>3, <2>4 DEF Pairs
    <3> QED
      BY <1>4, <1>6, <2>1, <3>1 DEF Decided
  <2>5. CASE Before(b, a)
    <3>1. <<b, a>> \in Pairs(ids)
      BY <2>1, <2>2, <2>3, <2>5 DEF Pairs
    <3>2. PICK x \in h, y \in g : Similarity(x, y) < Threshold
      BY <1>4, <1>6, <2>1, <3>1 DEF Decided
    <3>3. x \in ids /\ y \in ids
      BY <1>4 DEF Divided
    <3>4. Similarity(y, x) < Threshold
      BY <1>2, <3>2, <3>3 DEF Orderly
    <3> QED
      BY <1>6, <3>2, <3>4
  <2> QED
    BY <2>2, <2>4, <2>5
<1> QED
  BY <1>5, <1>6
(* Only `Embed` leads to a plan, and it leaves no belief without a vector. *)
LEMMA VectorStep ==
    ASSUME StoreInv, VectorInv, [Next]_vars
    PROVE  VectorInv'
<1> DEFINE Elsewhere == vectors' = vectors /\ op'.at # "plan"
<1>1. Elsewhere => VectorInv'
  BY DEF VectorInv
<1>2. Free => op.at # "plan"
  BY DEF Free, Idle
<1>3. CASE \E s \in Sessions, r \in Requests : StartIngest(s, r)
  BY <1>1, <1>3 DEF StartIngest
<1>4. CASE \E s \in Sessions, r \in Runs, t \in Said, c \in Channels : IngestExternal(s, r, t, c)
  BY <1>1, <1>4 DEF IngestExternal
<1>5. CASE IngestTurn
  <2>1. up /\ op.at = "turns"
    BY <1>5 DEF IngestTurn
  <2>2. op \in [at : {"turns"}, sess : Sessions, turns : Seq(TurnRecord), i : Nat \ {0}]
    BY <2>1 DEF StoreInv, OpInv, TakingTurns, Consolidating, Correcting, Idle
  <2>3. [op EXCEPT !.i = @ + 1].at = "turns"
    BY <2>2
  <2>4. AfterTurns.at # "plan"
    BY DEF AfterTurns, Idle
  <2> QED
    BY <1>1, <1>5, <2>3, <2>4 DEF IngestTurn
<1>6. CASE Embed
  <2>1. /\ up /\ UNCHANGED <<store, host>>
        /\ vectors' = [id \in DOMAIN vectors \cup DOMAIN store |->
                          IF id \in DOMAIN vectors THEN vectors[id] ELSE store[id].text]
    BY <1>6 DEF Embed, recall_candidates
  <2>2. host = "adapter"
    BY <1>6 DEF Embed, StoreInv, OpInv, TakingTurns, Consolidating, Correcting, Idle
  <2>3. \A id \in DOMAIN store : store[id].text \in Texts
    BY <2>1, <2>2, StoreIsGood DEF Good, Plain
  <2> QED
    BY <2>1, <2>3 DEF VectorInv
<1>7. CASE EmbedFails \/ AppendFails
  BY <1>1, <1>7 DEF EmbedFails, AppendFails, Idle
<1>8. CASE Plan
  BY <1>1, <1>8 DEF Plan, ApplyNext
<1>9. CASE Merge
  BY <1>1, <1>9 DEF Merge
<1>10. CASE Lose
  <2>1. up /\ op.at = "lose"
    BY <1>10 DEF Lose
  <2>2. op \in [at : {"lose"}, rep : Ids, losers : SUBSET Ids, rest : SUBSET Cluster]
    BY <2>1 DEF StoreInv, OpInv, TakingTurns, Consolidating, Correcting, Idle
  <2>3. \A id : [op EXCEPT !.losers = @ \ {id}].at = "lose"
    BY <2>2
  <2> QED
    BY <1>1, <1>10, <2>3 DEF Lose, ApplyNext
<1>11. CASE ConsolidationRan
  BY <1>1, <1>11 DEF ConsolidationRan, Idle
<1>12. CASE ClaimStep
  BY <1>1, <1>2, <1>12 DEF ClaimStep, Remember, Correct
<1>13. CASE \E t \in Said \cup {Blank}, p \in Lineages : RememberRefused(t, p)
  BY <1>1, <1>2, <1>13 DEF RememberRefused
<1>14. CASE CorrectSupersedes
  BY <1>1, <1>14 DEF CorrectSupersedes, Idle
<1>15. CASE \E target \in Named : Forget(target)
  BY <1>1, <1>2, <1>15 DEF Forget
<1>16. CASE Crash
  BY <1>16 DEF Crash, VectorInv, Idle
<1>17. CASE Start
  <2>1. op = Idle
    BY <1>17 DEF Start, StoreInv
  <2> QED
    BY <1>1, <1>17, <2>1 DEF Start, Idle
<1>18. CASE Tick
  BY <1>1, <1>18 DEF Tick, Idle
<1>19. CASE UNCHANGED vars
  BY <1>19 DEF vars, VectorInv
<1> QED
  BY <1>3, <1>4, <1>5, <1>6, <1>7, <1>8, <1>9, <1>10, <1>11, <1>12, <1>13, <1>14, <1>15, <1>16,
     <1>17, <1>18, <1>19 DEF Next

(* Neither a correction nor a consolidation loses what was believed: every    *)
(* superseded belief has a live successor worth as much, and a plan merges    *)
(* exactly the groups that complete linkage makes (`Supersede`, `Groups`).    *)
THEOREM MergesLoseNothing == Spec => []MergesKeepMeaning
<1>1. Init => VectorInv
  BY DEF Init, VectorInv, Idle
<1>2. StoreInv /\ VectorInv /\ [Next]_vars => VectorInv'
  BY VectorStep
<1>3. StoreInv /\ VectorInv => MergesKeepMeaning
  BY ChainsEnd, PlanIsExact DEF MergesKeepMeaning
<1> QED
  BY <1>1, <1>2, <1>3, StoreFollowsLog, PTL DEF Spec

-----------------------------------------------------------------------------
(* The memory host's start: where it stands at each step *)

(* The lesser and the greater of two numbers *)
LEMMA Lesser ==
    ASSUME NEW a \in Int, NEW b \in Int
    PROVE  /\ Min({a, b}) = IF a <= b THEN a ELSE b
           /\ Max({a, b}) = IF a <= b THEN b ELSE a
<1>1. /\ Min({a, b}) \in {a, b} /\ Min({a, b}) <= a /\ Min({a, b}) <= b
  <2>1. \E x \in {a, b} : \A y \in {a, b} : x <= y
    OBVIOUS
  <2>2. Min({a, b}) \in {a, b} /\ \A y \in {a, b} : Min({a, b}) <= y
    BY <2>1, Zenon DEF Min
  <2> QED BY <2>2
<1>2. /\ Max({a, b}) \in {a, b} /\ Max({a, b}) >= a /\ Max({a, b}) >= b
  <2>1. \E x \in {a, b} : \A y \in {a, b} : x >= y
    OBVIOUS
  <2>2. Max({a, b}) \in {a, b} /\ \A y \in {a, b} : Max({a, b}) >= y
    BY <2>1, Zenon DEF Max
  <2> QED BY <2>2
<1> QED BY <1>1, <1>2

(* The start up to the embedder with its cache, and what comes after it *)
OwnStages == {"embed", "explicit", "probe", "open", "measure", "widen", "grow", "cache"}
LaterStages == {"rerank", "rprobe", "ropen", "rcuda", "plan", "fuse", "up"}
Providers == {Absent, "cpu", "cuda"}

(* Types *)
HostTyped ==
    /\ setup \in Setups /\ at \in OwnStages \cup LaterStages \cup {"dead", "serving"}
    /\ free \in Nat \cup {-1} /\ shifts \in Nat /\ failures \in Nat
    /\ usable \in Nat /\ cost \in Nat /\ ledger \in Nat /\ sessions \in Nat
    /\ provider \in Providers /\ rprovider \in Providers /\ rplan \in {"off", "shipped", "cascade"}

(* Only the adapter has an embedder, a second graph, or a start that fails *)
DaemonGoesOn ==
    setup.host = "daemon" =>
        /\ at \in LaterStages \cup {"serving"} /\ at # "fuse"
        /\ provider = Absent /\ sessions = 0 /\ batch = <<>>

(* The embedder's width on its way *)
Widening ==
    /\ at \in {"embed", "probe", "open"} => sessions = 0 /\ provider = Absent
    /\ at = "explicit" => /\ setup.embed = "cuda" /\ sessions < setup.workers
                          /\ provider = (IF sessions = 0 THEN Absent ELSE "cuda")
    /\ at \in {"probe", "open", "measure", "widen", "grow"} => setup.embed \notin {"cpu", "cuda"}
    /\ at = "measure" => sessions = 1 /\ provider = "cuda"
    /\ at \in {"widen", "grow"} => /\ provider = "cuda" /\ sessions \in 1..setup.workers
                                   /\ cost >= SessionFloor
                                   /\ ledger = Less(usable, sessions * cost)
    /\ at = "grow" => sessions < setup.workers /\ ledger >= 2 * cost

(* ... and once it is decided *)
Settles ==
    at \in {"cache"} \cup LaterStages /\ setup.host = "adapter" =>
        /\ provider = "cpu" => sessions = setup.workers /\ setup.embed # "cuda"
        /\ provider = "cuda" => sessions \in 1..setup.workers /\ setup.embed # "cpu"
        /\ provider # Absent

(* The cross-encoder's provider, and the plan made of it *)
Planned ==
    /\ at = "rcuda" => setup.rerank = "cuda"
    /\ at \in {"rprobe", "ropen"} => setup.rerank = "auto"
    /\ at \in {"plan", "fuse", "up"} /\ rprovider = "cpu" => setup.rerank # "cuda"
    /\ at = "fuse" => rplan = "cascade"
    /\ at \in {"fuse", "up"} /\ rplan = "cascade" =>
          rprovider # Absent /\ (setup.plan = "auto" => rprovider = "cuda")

(* A session that takes no more than what is kept for it and its spare *)
CostsNearFloor == \A c \in Costs : c <= 2 * SessionFloor

(* What the card has left while nobody else touches it *)
CardSpare ==
    CostsNearFloor /\ shifts = 0 /\ failures = 0 /\ setup.embed = "auto" =>
        /\ at = "open" => free >= reserve + 2 * SessionFloor
        /\ at \in {"measure", "widen", "grow"} => free >= reserve
        /\ at = "grow" => free >= reserve + 2 * cost
        /\ at = "cache" /\ provider = "cuda" => free >= reserve

(* What every step of the start and of a batch keeps *)
HostInv == /\ HostTyped /\ DaemonGoesOn /\ Widening /\ Settles /\ Planned /\ CardSpare
           /\ OnlyStrictStartsFail /\ SpareOnTheLedger

(* What a configuration is, `workers.max(1)` and the parsed reserve among it *)
LEMMA SetupTyped ==
    ASSUME setup \in Setups
    PROVE  /\ setup.host \in {"adapter", "daemon"} /\ setup.workers \in Nat \ {0}
           /\ setup.embed \in {"auto", "cpu", "cuda", "none"}
           /\ setup.rerank \in {"auto", "cpu", "cuda", "off"}
           /\ reserve \in Nat
<1>1. setup.tier1.size.value \in Nat
  BY DevicesAssumption
<1>2. ASSUME NEW l, l.value \in Nat PROVE parse_size(l) \in Nat \cup {-1}
  <2>1. CASE l.unit \in DOMAIN Units
    <3>1. Units[l.unit] \in {1, 1000}
      BY <2>1 DEF Units
    <3>2. l.value * Units[l.unit] \in Nat
      BY <1>2, <3>1
    <3> DEFINE v == l.value * Units[l.unit]
    <3>3. (v + 999) \div 1000 \in Nat
      <4>1. v \in Nat
        BY <3>2
      <4> HIDE DEF v
      <4> QED BY <4>1
    <3> QED BY <2>1, <3>3 DEF parse_size
  <2> QED BY <2>1 DEF parse_size, Silent
<1>3. reserve \in Nat
  BY <1>1, <1>2 DEF reserve, Silent
<1> QED BY <1>3, DevicesAssumption

(* Everything that stands at the first step *)
LEMMA HostStarts == DevInit => HostInv
  BY SetupTyped, DevicesAssumption
  DEF DevInit, HostInv, HostTyped, DaemonGoesOn, Widening, Settles, Planned, CardSpare,
      OnlyStrictStartsFail, SpareOnTheLedger, OwnStages, LaterStages, Providers, Absent

(* The digests are looked at before any session is opened. *)
LEMMA VerifyEmbedderStands == ASSUME HostInv, VerifyEmbedder PROVE HostInv'
<1> USE DEF HostInv, OwnStages, LaterStages, Providers, Absent, Silent, Stop, Go, card, plans, cached, served
<1>0. /\ reserve \in Nat /\ reserve' = reserve
      /\ Costs \subseteq Nat /\ SessionFloor \in Nat \ {0}
  BY SetupTyped, DevicesAssumption DEF HostTyped, reserve, VerifyEmbedder
<1>1. HostTyped'
  BY <1>0, SetupTyped DEF VerifyEmbedder, Broken, OnCpu, HostTyped, Widening
<1>2. DaemonGoesOn'
  BY <1>0, SetupTyped DEF VerifyEmbedder, Broken, OnCpu, HostTyped, DaemonGoesOn
<1>3. Widening'
  BY <1>0, SetupTyped DEF VerifyEmbedder, Broken, OnCpu, HostTyped, DaemonGoesOn, Widening
<1>4. Settles'
  BY <1>0, SetupTyped DEF VerifyEmbedder, Broken, OnCpu, HostTyped, DaemonGoesOn, Widening, Settles
<1>5. Planned'
  BY <1>0, SetupTyped DEF VerifyEmbedder, Broken, OnCpu, HostTyped, Planned
<1>6. CardSpare'
  BY <1>0, SetupTyped
     DEF VerifyEmbedder, Broken, OnCpu, HostTyped, Widening, CardSpare, CostsNearFloor
<1>7. OnlyStrictStartsFail'
  BY <1>0, SetupTyped
     DEF VerifyEmbedder, Broken, OnCpu, HostTyped, DaemonGoesOn, Widening, Planned,
         OnlyStrictStartsFail
<1>8. SpareOnTheLedger'
  BY <1>0, SetupTyped DEF VerifyEmbedder, Broken, OnCpu, HostTyped, Widening, SpareOnTheLedger
<1> QED BY <1>1, <1>2, <1>3, <1>4, <1>5, <1>6, <1>7, <1>8

(* Asked for by name, a session that does not construct ends the start. *)
LEMMA ExplicitCudaStands == ASSUME HostInv, ExplicitCuda PROVE HostInv'
<1> USE DEF HostInv, OwnStages, LaterStages, Providers, Absent, Silent, Stop, Go, card, plans, cached, served
<1>0. /\ reserve \in Nat /\ reserve' = reserve
      /\ Costs \subseteq Nat /\ SessionFloor \in Nat \ {0}
  BY SetupTyped, DevicesAssumption DEF HostTyped, reserve, ExplicitCuda
<1>1. HostTyped'
  BY <1>0, SetupTyped DEF ExplicitCuda, Constructs, ChargeRefusal, HostTyped, Widening
<1>2. DaemonGoesOn'
  BY <1>0, SetupTyped DEF ExplicitCuda, Constructs, ChargeRefusal, HostTyped, DaemonGoesOn
<1>3. Widening'
  BY <1>0, SetupTyped DEF ExplicitCuda, Constructs, ChargeRefusal, HostTyped, DaemonGoesOn, Widening
<1>4. Settles'
  BY <1>0, SetupTyped
     DEF ExplicitCuda, Constructs, ChargeRefusal, HostTyped, DaemonGoesOn, Widening, Settles
<1>5. Planned'
  BY <1>0, SetupTyped DEF ExplicitCuda, Constructs, ChargeRefusal, HostTyped, Planned
<1>6. CardSpare'
  BY <1>0, SetupTyped
     DEF ExplicitCuda, Constructs, ChargeRefusal, HostTyped, Widening, CardSpare, CostsNearFloor
<1>7. OnlyStrictStartsFail'
  BY <1>0, SetupTyped
     DEF ExplicitCuda, Constructs, ChargeRefusal, HostTyped, DaemonGoesOn, Widening, Planned,
         OnlyStrictStartsFail
<1>8. SpareOnTheLedger'
  BY <1>0, SetupTyped
     DEF ExplicitCuda, Constructs, ChargeRefusal, HostTyped, Widening, SpareOnTheLedger
<1> QED BY <1>1, <1>2, <1>3, <1>4, <1>5, <1>6, <1>7, <1>8

(* Room for one session and a spare, or the CPU. *)
LEMMA ProbeStands == ASSUME HostInv, Probe PROVE HostInv'
<1> USE DEF HostInv, OwnStages, LaterStages, Providers, Absent, Silent, Stop, Go, card, plans, cached, served
<1>0. /\ reserve \in Nat /\ reserve' = reserve
      /\ Costs \subseteq Nat /\ SessionFloor \in Nat \ {0}
  BY SetupTyped, DevicesAssumption DEF HostTyped, reserve, Probe
<1>1. HostTyped'
  BY <1>0, SetupTyped DEF Probe, Charge, Readings, Less, OnCpu, HostTyped, Widening
<1>2. DaemonGoesOn'
  BY <1>0, SetupTyped DEF Probe, Charge, Readings, Less, OnCpu, HostTyped, DaemonGoesOn
<1>3. Widening'
  BY <1>0, SetupTyped DEF Probe, Charge, Readings, Less, OnCpu, HostTyped, DaemonGoesOn, Widening
<1>4. Settles'
  BY <1>0, SetupTyped
     DEF Probe, Charge, Readings, Less, OnCpu, HostTyped, DaemonGoesOn, Widening, Settles
<1>5. Planned'
  BY <1>0, SetupTyped DEF Probe, Charge, Readings, Less, OnCpu, HostTyped, Planned
<1>6. CardSpare'
  BY <1>0, SetupTyped
     DEF Probe, Charge, Readings, Less, OnCpu, HostTyped, Widening, CardSpare, CostsNearFloor
<1>7. OnlyStrictStartsFail'
  BY <1>0, SetupTyped
     DEF Probe, Charge, Readings, Less, OnCpu, HostTyped, DaemonGoesOn, Widening, Planned,
         OnlyStrictStartsFail
<1>8. SpareOnTheLedger'
  BY <1>0, SetupTyped
     DEF Probe, Charge, Readings, Less, OnCpu, HostTyped, Widening, SpareOnTheLedger
<1> QED BY <1>1, <1>2, <1>3, <1>4, <1>5, <1>6, <1>7, <1>8

(* The first session of an automatic embedder: it was probed for twice the floor. *)
LEMMA OpenStands == ASSUME HostInv, Open PROVE HostInv'
<1> USE DEF HostInv, OwnStages, LaterStages, Providers, Absent, Silent, Stop, Go, card, plans, cached, served
<1>0. /\ reserve \in Nat /\ reserve' = reserve
      /\ Costs \subseteq Nat /\ SessionFloor \in Nat \ {0}
  BY SetupTyped, DevicesAssumption DEF HostTyped, reserve, Open
<1>1. HostTyped'
  BY <1>0, SetupTyped DEF Open, Constructs, ChargeRefusal, OnCpu, HostTyped, Widening
<1>2. DaemonGoesOn'
  BY <1>0, SetupTyped DEF Open, Constructs, ChargeRefusal, OnCpu, HostTyped, DaemonGoesOn
<1>3. Widening'
  BY <1>0, SetupTyped DEF Open, Constructs, ChargeRefusal, OnCpu, HostTyped, DaemonGoesOn, Widening
<1>4. Settles'
  BY <1>0, SetupTyped
     DEF Open, Constructs, ChargeRefusal, OnCpu, HostTyped, DaemonGoesOn, Widening, Settles
<1>5. Planned'
  BY <1>0, SetupTyped DEF Open, Constructs, ChargeRefusal, OnCpu, HostTyped, Planned
<1>6. CardSpare'
  BY <1>0, SetupTyped
     DEF Open, Constructs, ChargeRefusal, OnCpu, HostTyped, Widening, CardSpare, CostsNearFloor
<1>7. OnlyStrictStartsFail'
  BY <1>0, SetupTyped
     DEF Open, Constructs, ChargeRefusal, OnCpu, HostTyped, DaemonGoesOn, Widening, Planned,
         OnlyStrictStartsFail
<1>8. SpareOnTheLedger'
  BY <1>0, SetupTyped
     DEF Open, Constructs, ChargeRefusal, OnCpu, HostTyped, Widening, SpareOnTheLedger
<1> QED BY <1>1, <1>2, <1>3, <1>4, <1>5, <1>6, <1>7, <1>8

(* What a session costs is never measured below the floor. *)
LEMMA MeasureStands == ASSUME HostInv, Measure PROVE HostInv'
<1> USE DEF HostInv, OwnStages, LaterStages, Providers, Absent, Silent, Stop, Go, card, plans, cached, served
<1>0. /\ reserve \in Nat /\ reserve' = reserve
      /\ Costs \subseteq Nat /\ SessionFloor \in Nat \ {0}
  BY SetupTyped, DevicesAssumption DEF HostTyped, reserve, Measure
<1>a. cost' >= SessionFloor /\ cost' \in Nat /\ ledger' = Less(usable, cost') /\ failures' \in Nat
  <2>1. PICK r \in Readings :
          LET after == IF r = Silent THEN usable + reserve ELSE r
              measured == Max({Less(usable + reserve, after), SessionFloor})
          IN  Charge(r) /\ cost' = measured /\ ledger' = Less(usable, measured)
    BY DEF Measure
  <2> DEFINE spent == Less(usable + reserve, IF r = Silent THEN usable + reserve ELSE r)
  <2>2. spent \in Int /\ failures' \in Nat
    BY <1>0, <2>1 DEF HostTyped, Readings, Charge, Less
  <2>3. cost' = Max({spent, SessionFloor}) /\ ledger' = Less(usable, cost')
    BY <2>1
  <2> HIDE DEF spent
  <2>4. Max({spent, SessionFloor}) = IF spent <= SessionFloor THEN SessionFloor ELSE spent
    BY <1>0, <2>2, Lesser
  <2> QED BY <1>0, <2>2, <2>3, <2>4
<1>1. HostTyped'
  BY <1>0, <1>a DEF Measure, HostTyped, Less
<1>2. DaemonGoesOn'
  BY <1>0, SetupTyped DEF Measure, Charge, Readings, Less, HostTyped, DaemonGoesOn
<1>3. Widening'
  BY <1>0, <1>a, SetupTyped DEF Measure, HostTyped, DaemonGoesOn, Widening, Less
<1>4. Settles'
  BY <1>0, SetupTyped
     DEF Measure, Charge, Readings, Less, HostTyped, DaemonGoesOn, Widening, Settles
<1>5. Planned'
  BY <1>0, SetupTyped DEF Measure, Charge, Readings, Less, HostTyped, Planned
<1>6. CardSpare'
  BY <1>0, SetupTyped
     DEF Measure, Charge, Readings, Less, HostTyped, Widening, CardSpare, CostsNearFloor
<1>7. OnlyStrictStartsFail'
  BY <1>0, SetupTyped
     DEF Measure, Charge, Readings, Less, HostTyped, DaemonGoesOn, Widening, Planned,
         OnlyStrictStartsFail
<1>8. SpareOnTheLedger'
  BY <1>0, SetupTyped DEF Measure, Charge, Readings, Less, HostTyped, Widening, SpareOnTheLedger
<1> QED BY <1>1, <1>2, <1>3, <1>4, <1>5, <1>6, <1>7, <1>8

(* Another session is begun only with room for it and a spare. *)
LEMMA WidenStands == ASSUME HostInv, Widen PROVE HostInv'
<1> USE DEF HostInv, OwnStages, LaterStages, Providers, Absent, Silent, Stop, Go, card, plans, cached, served
<1>0. /\ reserve \in Nat /\ reserve' = reserve
      /\ Costs \subseteq Nat /\ SessionFloor \in Nat \ {0}
  BY SetupTyped, DevicesAssumption DEF HostTyped, reserve, Widen
<1>a. Room(free) => /\ free # Silent /\ Less(free, reserve) >= 2 * cost
                   /\ ledger >= 2 * cost
  <2>1. Less(free, reserve) \in Int /\ ledger \in Int /\ cost \in Int
    BY <1>0 DEF HostTyped, Less
  <2> QED BY <2>1, Lesser DEF Room
<1>1. HostTyped'
  BY <1>0, <1>a, SetupTyped DEF Widen, Charge, Readings, Less, HostTyped, Widening
<1>2. DaemonGoesOn'
  BY <1>0, SetupTyped DEF Widen, Charge, Readings, Less, HostTyped, DaemonGoesOn
<1>3. Widening'
  BY <1>0, <1>a, SetupTyped DEF Widen, Charge, Readings, Less, HostTyped, DaemonGoesOn, Widening
<1>4. Settles'
  BY <1>0, SetupTyped DEF Widen, Charge, Readings, Less, HostTyped, DaemonGoesOn, Widening, Settles
<1>5. Planned'
  BY <1>0, SetupTyped DEF Widen, Charge, Readings, Less, HostTyped, Planned
<1>6. CardSpare'
  BY <1>0, <1>a, SetupTyped
     DEF Widen, Charge, Readings, Less, HostTyped, Widening, CardSpare, CostsNearFloor
<1>7. OnlyStrictStartsFail'
  BY <1>0, SetupTyped
     DEF Widen, Charge, Readings, Less, HostTyped, DaemonGoesOn, Widening, Planned,
         OnlyStrictStartsFail
<1>8. SpareOnTheLedger'
  BY <1>0, SetupTyped DEF Widen, Charge, Readings, Less, HostTyped, Widening, SpareOnTheLedger
<1> QED BY <1>1, <1>2, <1>3, <1>4, <1>5, <1>6, <1>7, <1>8

(* The ledger pays for each session what the first one cost. *)
LEMMA GrowStands == ASSUME HostInv, Grow PROVE HostInv'
<1> USE DEF HostInv, OwnStages, LaterStages, Providers, Absent, Silent, Stop, Go, card, plans, cached, served
<1>0. /\ reserve \in Nat /\ reserve' = reserve
      /\ Costs \subseteq Nat /\ SessionFloor \in Nat \ {0}
  BY SetupTyped, DevicesAssumption DEF HostTyped, reserve, Grow
<1>1. HostTyped'
  BY <1>0, SetupTyped DEF Grow, Constructs, ChargeRefusal, Less, HostTyped, Widening
<1>2. DaemonGoesOn'
  BY <1>0, SetupTyped DEF Grow, Constructs, ChargeRefusal, Less, HostTyped, DaemonGoesOn
<1>3. Widening'
  BY <1>0, SetupTyped DEF Grow, Constructs, ChargeRefusal, Less, HostTyped, DaemonGoesOn, Widening
<1>4. Settles'
  BY <1>0, SetupTyped
     DEF Grow, Constructs, ChargeRefusal, Less, HostTyped, DaemonGoesOn, Widening, Settles
<1>5. Planned'
  BY <1>0, SetupTyped DEF Grow, Constructs, ChargeRefusal, Less, HostTyped, Planned
<1>6. CardSpare'
  BY <1>0, SetupTyped
     DEF Grow, Constructs, ChargeRefusal, Less, HostTyped, Widening, CardSpare, CostsNearFloor
<1>7. OnlyStrictStartsFail'
  BY <1>0, SetupTyped
     DEF Grow, Constructs, ChargeRefusal, Less, HostTyped, DaemonGoesOn, Widening, Planned,
         OnlyStrictStartsFail
<1>8. SpareOnTheLedger'
  BY <1>0, SetupTyped
     DEF Grow, Constructs, ChargeRefusal, Less, HostTyped, Widening, SpareOnTheLedger
<1> QED BY <1>1, <1>2, <1>3, <1>4, <1>5, <1>6, <1>7, <1>8

(* The cache opens or refuses; the embedder is decided by then. *)
LEMMA OpenCacheStands == ASSUME HostInv, OpenCache PROVE HostInv'
<1> USE DEF HostInv, OwnStages, LaterStages, Providers, Absent, Silent, Stop, Go, card, plans, cached, served
<1>0. /\ reserve \in Nat /\ reserve' = reserve
      /\ Costs \subseteq Nat /\ SessionFloor \in Nat \ {0}
  BY SetupTyped, DevicesAssumption DEF HostTyped, reserve, OpenCache
<1>1. HostTyped'
  BY <1>0, SetupTyped DEF OpenCache, HostTyped, Widening
<1>2. DaemonGoesOn'
  BY <1>0, SetupTyped DEF OpenCache, HostTyped, DaemonGoesOn
<1>3. Widening'
  BY <1>0, SetupTyped DEF OpenCache, HostTyped, DaemonGoesOn, Widening
<1>4. Settles'
  BY <1>0, SetupTyped DEF OpenCache, HostTyped, DaemonGoesOn, Widening, Settles
<1>5. Planned'
  BY <1>0, SetupTyped DEF OpenCache, HostTyped, Planned
<1>6. CardSpare'
  BY <1>0, SetupTyped DEF OpenCache, HostTyped, Widening, CardSpare, CostsNearFloor
<1>7. OnlyStrictStartsFail'
  BY <1>0, SetupTyped
     DEF OpenCache, HostTyped, DaemonGoesOn, Widening, Planned, OnlyStrictStartsFail
<1>8. SpareOnTheLedger'
  BY <1>0, SetupTyped DEF OpenCache, HostTyped, Widening, SpareOnTheLedger
<1> QED BY <1>1, <1>2, <1>3, <1>4, <1>5, <1>6, <1>7, <1>8

(* The cross-encoder's steps, which leave the embedder as it is *)
LEMMA VerifyRerankerStands == ASSUME HostInv, VerifyReranker PROVE HostInv'
<1> USE DEF HostInv, OwnStages, LaterStages, Providers, Absent, Silent, Stop, Go, card, plans, cached, served
<1>0. /\ reserve \in Nat /\ reserve' = reserve
      /\ Costs \subseteq Nat /\ SessionFloor \in Nat \ {0}
  BY SetupTyped, DevicesAssumption DEF HostTyped, reserve, VerifyReranker
<1>1. HostTyped'
  BY <1>0, SetupTyped DEF VerifyReranker, Refuse, load_auto, Broken, HostTyped, Widening
<1>2. DaemonGoesOn'
  BY <1>0, SetupTyped DEF VerifyReranker, Refuse, load_auto, Broken, HostTyped, DaemonGoesOn
<1>3. Widening'
  BY <1>0, SetupTyped
     DEF VerifyReranker, Refuse, load_auto, Broken, HostTyped, DaemonGoesOn, Widening
<1>4. Settles'
  BY <1>0, SetupTyped
     DEF VerifyReranker, Refuse, load_auto, Broken, HostTyped, DaemonGoesOn, Widening, Settles
<1>5. Planned'
  BY <1>0, SetupTyped DEF VerifyReranker, Refuse, load_auto, Broken, HostTyped, Planned
<1>6. CardSpare'
  BY <1>0, SetupTyped
     DEF VerifyReranker, Refuse, load_auto, Broken, HostTyped, Widening, CardSpare,
         CostsNearFloor
<1>7. OnlyStrictStartsFail'
  BY <1>0, SetupTyped
     DEF VerifyReranker, Refuse, load_auto, Broken, HostTyped, DaemonGoesOn, Widening, Planned,
         OnlyStrictStartsFail
<1>8. SpareOnTheLedger'
  BY <1>0, SetupTyped
     DEF VerifyReranker, Refuse, load_auto, Broken, HostTyped, Widening, SpareOnTheLedger
<1> QED BY <1>1, <1>2, <1>3, <1>4, <1>5, <1>6, <1>7, <1>8

LEMMA ProbeRerankerStands == ASSUME HostInv, ProbeReranker PROVE HostInv'
<1> USE DEF HostInv, OwnStages, LaterStages, Providers, Absent, Silent, Stop, Go, card, plans, cached, served
<1>0. /\ reserve \in Nat /\ reserve' = reserve
      /\ Costs \subseteq Nat /\ SessionFloor \in Nat \ {0}
  BY SetupTyped, DevicesAssumption DEF HostTyped, reserve, ProbeReranker
<1>1. HostTyped'
  BY <1>0, SetupTyped DEF ProbeReranker, Charge, Readings, HostTyped, Widening
<1>2. DaemonGoesOn'
  BY <1>0, SetupTyped DEF ProbeReranker, Charge, Readings, HostTyped, DaemonGoesOn
<1>3. Widening'
  BY <1>0, SetupTyped DEF ProbeReranker, Charge, Readings, HostTyped, DaemonGoesOn, Widening
<1>4. Settles'
  BY <1>0, SetupTyped
     DEF ProbeReranker, Charge, Readings, HostTyped, DaemonGoesOn, Widening, Settles
<1>5. Planned'
  BY <1>0, SetupTyped DEF ProbeReranker, Charge, Readings, HostTyped, Planned
<1>6. CardSpare'
  BY <1>0, SetupTyped
     DEF ProbeReranker, Charge, Readings, HostTyped, Widening, CardSpare, CostsNearFloor
<1>7. OnlyStrictStartsFail'
  BY <1>0, SetupTyped
     DEF ProbeReranker, Charge, Readings, HostTyped, DaemonGoesOn, Widening, Planned,
         OnlyStrictStartsFail
<1>8. SpareOnTheLedger'
  BY <1>0, SetupTyped DEF ProbeReranker, Charge, Readings, HostTyped, Widening, SpareOnTheLedger
<1> QED BY <1>1, <1>2, <1>3, <1>4, <1>5, <1>6, <1>7, <1>8

LEMMA OpenRerankerStands == ASSUME HostInv, OpenReranker PROVE HostInv'
<1> USE DEF HostInv, OwnStages, LaterStages, Providers, Absent, Silent, Stop, Go, card, plans, cached, served
<1>0. /\ reserve \in Nat /\ reserve' = reserve
      /\ Costs \subseteq Nat /\ SessionFloor \in Nat \ {0}
  BY SetupTyped, DevicesAssumption DEF HostTyped, reserve, OpenReranker
<1>1. HostTyped'
  BY <1>0, SetupTyped DEF OpenReranker, Constructs, ChargeRefusal, Refuse, HostTyped, Widening
<1>2. DaemonGoesOn'
  BY <1>0, SetupTyped DEF OpenReranker, Constructs, ChargeRefusal, Refuse, HostTyped, DaemonGoesOn
<1>3. Widening'
  BY <1>0, SetupTyped
     DEF OpenReranker, Constructs, ChargeRefusal, Refuse, HostTyped, DaemonGoesOn, Widening
<1>4. Settles'
  BY <1>0, SetupTyped
     DEF OpenReranker, Constructs, ChargeRefusal, Refuse, HostTyped, DaemonGoesOn, Widening,
         Settles
<1>5. Planned'
  BY <1>0, SetupTyped DEF OpenReranker, Constructs, ChargeRefusal, Refuse, HostTyped, Planned
<1>6. CardSpare'
  BY <1>0, SetupTyped
     DEF OpenReranker, Constructs, ChargeRefusal, Refuse, HostTyped, Widening, CardSpare,
         CostsNearFloor
<1>7. OnlyStrictStartsFail'
  BY <1>0, SetupTyped
     DEF OpenReranker, Constructs, ChargeRefusal, Refuse, HostTyped, DaemonGoesOn, Widening,
         Planned, OnlyStrictStartsFail
<1>8. SpareOnTheLedger'
  BY <1>0, SetupTyped
     DEF OpenReranker, Constructs, ChargeRefusal, Refuse, HostTyped, Widening, SpareOnTheLedger
<1> QED BY <1>1, <1>2, <1>3, <1>4, <1>5, <1>6, <1>7, <1>8

(* The cascade is chosen where the graph is on the GPU, or was asked for. *)
LEMMA SelectPlanStands == ASSUME HostInv, SelectPlan PROVE HostInv'
<1> USE DEF HostInv, OwnStages, LaterStages, Providers, Absent, Silent, Stop, Go, card, plans, cached, served
<1>0. /\ reserve \in Nat /\ reserve' = reserve
      /\ Costs \subseteq Nat /\ SessionFloor \in Nat \ {0}
  BY SetupTyped, DevicesAssumption DEF HostTyped, reserve, SelectPlan
<1>1. HostTyped'
  BY <1>0, SetupTyped DEF SelectPlan, Selected, HostTyped, Widening
<1>2. DaemonGoesOn'
  BY <1>0, SetupTyped DEF SelectPlan, Selected, HostTyped, DaemonGoesOn
<1>3. Widening'
  BY <1>0, SetupTyped DEF SelectPlan, Selected, HostTyped, DaemonGoesOn, Widening
<1>4. Settles'
  BY <1>0, SetupTyped DEF SelectPlan, Selected, HostTyped, DaemonGoesOn, Widening, Settles
<1>5. Planned'
  BY <1>0, SetupTyped DEF SelectPlan, Selected, HostTyped, Planned
<1>6. CardSpare'
  BY <1>0, SetupTyped DEF SelectPlan, Selected, HostTyped, Widening, CardSpare, CostsNearFloor
<1>7. OnlyStrictStartsFail'
  BY <1>0, SetupTyped
     DEF SelectPlan, Selected, HostTyped, DaemonGoesOn, Widening, Planned, OnlyStrictStartsFail
<1>8. SpareOnTheLedger'
  BY <1>0, SetupTyped DEF SelectPlan, Selected, HostTyped, Widening, SpareOnTheLedger
<1> QED BY <1>1, <1>2, <1>3, <1>4, <1>5, <1>6, <1>7, <1>8

(* The fusion graph, opened without a fallback *)
LEMMA LoadFusionStands == ASSUME HostInv, LoadFusion PROVE HostInv'
<1> USE DEF HostInv, OwnStages, LaterStages, Providers, Absent, Silent, Stop, Go, card, plans, cached, served
<1>0. /\ reserve \in Nat /\ reserve' = reserve
      /\ Costs \subseteq Nat /\ SessionFloor \in Nat \ {0}
  BY SetupTyped, DevicesAssumption DEF HostTyped, reserve, LoadFusion
<1>1. HostTyped'
  BY <1>0, SetupTyped DEF LoadFusion, Constructs, ChargeRefusal, Broken, HostTyped, Widening
<1>2. DaemonGoesOn'
  BY <1>0, SetupTyped DEF LoadFusion, Constructs, ChargeRefusal, Broken, HostTyped, DaemonGoesOn
<1>3. Widening'
  BY <1>0, SetupTyped
     DEF LoadFusion, Constructs, ChargeRefusal, Broken, HostTyped, DaemonGoesOn, Widening
<1>4. Settles'
  BY <1>0, SetupTyped
     DEF LoadFusion, Constructs, ChargeRefusal, Broken, HostTyped, DaemonGoesOn, Widening,
         Settles
<1>5. Planned'
  BY <1>0, SetupTyped DEF LoadFusion, Constructs, ChargeRefusal, Broken, HostTyped, Planned
<1>6. CardSpare'
  BY <1>0, SetupTyped
     DEF LoadFusion, Constructs, ChargeRefusal, Broken, HostTyped, Widening, CardSpare,
         CostsNearFloor
<1>7. OnlyStrictStartsFail'
  BY <1>0, SetupTyped
     DEF LoadFusion, Constructs, ChargeRefusal, Broken, HostTyped, DaemonGoesOn, Widening,
         Planned, OnlyStrictStartsFail
<1>8. SpareOnTheLedger'
  BY <1>0, SetupTyped
     DEF LoadFusion, Constructs, ChargeRefusal, Broken, HostTyped, Widening, SpareOnTheLedger
<1> QED BY <1>1, <1>2, <1>3, <1>4, <1>5, <1>6, <1>7, <1>8

(* Other processes, a batch, another start on the cache it wrote *)
LEMMA ShiftStands == ASSUME HostInv, Shift PROVE HostInv'
<1>1. reserve' = reserve
  BY DEF Shift, reserve
<1>2. free' \in Nat \cup {-1}
  <2>1. free' \in Memory
    BY DEF Shift
  <2> QED BY <2>1, DevicesAssumption
<1>3. shifts' \in Nat \ {0}
  BY DEF HostInv, HostTyped, Shift
<1> QED
  BY <1>1, <1>2, <1>3 DEF HostInv, HostTyped, DaemonGoesOn, Widening, Settles, Planned, CardSpare,
      OnlyStrictStartsFail, SpareOnTheLedger, Shift, plans, served

(* A batch, another process on the card, the next start: none of them moves the stage back. *)
LEMMA EmbedTextsStands == ASSUME HostInv, EmbedTexts PROVE HostInv'
<1>1. /\ at = "up" /\ setup.host = "adapter" /\ failures' \in {failures, failures + 1}
      /\ UNCHANGED <<setup, at, why, free, shifts, starts, plans, rprovider, rplan>>
  BY DEF EmbedTexts, EmbedBatch
<1>2. reserve' = reserve
  BY <1>1 DEF reserve
<1> QED
  BY <1>1, <1>2 DEF HostInv, HostTyped, DaemonGoesOn, Widening, Settles, Planned, CardSpare,
      OnlyStrictStartsFail, SpareOnTheLedger, plans

LEMMA NextStartStands == ASSUME HostInv, NextStart PROVE HostInv'
<1>1. setup.host = "adapter"
  BY SetupTyped DEF HostInv, HostTyped, DaemonGoesOn, NextStart
<1> QED
  BY <1>1, SetupTyped, DevicesAssumption
  DEF HostInv, HostTyped, DaemonGoesOn, Widening, Settles, Planned, CardSpare,
      OnlyStrictStartsFail, SpareOnTheLedger, NextStart, Fresh, OwnStages, LaterStages, Providers, Absent

LEMMA ServeStands == ASSUME HostInv, Serve PROVE HostInv'
<1>1. AnySetup \in Setups
  BY DEF HostInv, HostTyped, AnySetup
<1> QED
  BY <1>1
  DEF HostInv, HostTyped, DaemonGoesOn, Widening, Settles, Planned, CardSpare,
      OnlyStrictStartsFail, SpareOnTheLedger, Serve, Fresh, OwnStages, LaterStages, Providers, Absent

LEMMA IdleStands == ASSUME HostInv, UNCHANGED devVars PROVE HostInv'
<1>1. reserve' = reserve
  BY DEF reserve, devVars
<1> QED
  BY <1>1 DEF HostInv, HostTyped, DaemonGoesOn, Widening, Settles, Planned, CardSpare,
      OnlyStrictStartsFail, SpareOnTheLedger, devVars, card, plans, served

(* What the host does to its devices in a step *)
LEMMA HostSteps ==
    ASSUME HostNext \/ UNCHANGED hostVars
    PROVE  DevNext \/ Serve \/ UNCHANGED devVars
  BY DEF HostNext, hostVars, Query, Score

(* All steps together *)
LEMMA NextStands == ASSUME HostInv, HostNext \/ UNCHANGED hostVars PROVE HostInv'
<1>1. CASE DevNext
  BY <1>1, VerifyEmbedderStands, ExplicitCudaStands, ProbeStands, OpenStands, MeasureStands,
     WidenStands, GrowStands, OpenCacheStands, VerifyRerankerStands, ProbeRerankerStands,
     OpenRerankerStands, SelectPlanStands, LoadFusionStands,
     EmbedTextsStands, ShiftStands, NextStartStands DEF DevNext
<1> QED BY <1>1, HostSteps, ServeStands, IdleStands

(* RunsAsFound of what has been decided by the time the host is up *)
LEMMA UpAsFound == ASSUME HostInv PROVE RunsAsFound
  BY SetupTyped
     DEF HostInv, HostTyped, DaemonGoesOn, Settles, Planned, RunsAsFound, LaterStages,
         Providers, Absent

(* load_with_provider, load_auto: for any setups, cards and readings, and whatever other
   processes take meanwhile: only a strict start fails, a widened embedder leaves a spare
   session on its ledger, and what runs is what was found.  Where no session takes more
   than the floor keeps for it and its spare, tier 1's claim is still on the card. *)
THEOREM HostStandsAsFound == ASSUME CostsNearFloor PROVE HostSpec => []HostStands
<1>1. HostInit => HostInv
  BY HostStarts DEF HostInit
<1>2. HostInv /\ [HostNext]_hostVars => HostInv'
  BY NextStands
<1>3. HostInv => HostStands
  BY UpAsFound DEF HostInv, HostStands, CardSpare, RoomForTier1
<1> QED BY <1>1, <1>2, <1>3, PTL DEF HostSpec

(* The part of it that needs no such hypothesis: whatever a session costs, a daemon's start
   never fails, an adapter's fails only where it was asked to be strict (`cuda` by name, a graph
   of another digest, a torn cache, a cascade on the card), a widened embedder has accounted for
   a spare session, and no provider is announced but the one that was found. *)
THEOREM StartsStand == HostSpec => [](OnlyStrictStartsFail /\ SpareOnTheLedger /\ RunsAsFound)
<1>1. HostInit => HostInv
  BY HostStarts DEF HostInit
<1>2. HostInv /\ [HostNext]_hostVars => HostInv'
  BY NextStands
<1>3. HostInv => OnlyStrictStartsFail /\ SpareOnTheLedger /\ RunsAsFound
  BY UpAsFound DEF HostInv
<1> QED BY <1>1, <1>2, <1>3, PTL DEF HostSpec

-----------------------------------------------------------------------------
(* Folding over the places of a sequence, one place at a time *)

(* What holds at first and survives each step holds at every place *)
LEMMA StepsUp ==
    ASSUME NEW n \in Nat, NEW S, 0 \in S, \A k \in 1..n : k - 1 \in S => k \in S
    PROVE  \A k \in 0..n : k \in S
<1> DEFINE Out == {k \in 0..n : k \notin S}
<1> SUFFICES ASSUME Out # {} PROVE FALSE
  OBVIOUS
<1>1. Out \subseteq Nat
  OBVIOUS
<1>2. PICK m \in Out : \A k \in Out : m <= k
  BY <1>1, LeastNatural
<1>3. m \in 1..n /\ m - 1 \in 0..n /\ m \notin S
  BY <1>2
<1>4. m - 1 \in S
  BY <1>2, <1>3
<1> QED BY <1>3, <1>4

(* The largest of 1..n is n, so a fold over n places takes the n-th last. *)
LEMMA LargestOf ==
    ASSUME NEW n \in Nat, NEW t \in SUBSET (1..n), t # {}
    PROVE  Max(t) \in t /\ \A x \in t : x <= Max(t)
<1> DEFINE above == {k \in Nat : \E x \in t : k = n - x}
<1>1. PICK m \in above : \A k \in above : m <= k
  <2>1. PICK x \in t : TRUE
    OBVIOUS
  <2>2. n - x \in above
    BY <2>1
  <2> QED BY <2>2, LeastNatural
<1>2. PICK x \in t : m = n - x
  BY <1>1
<1>3. \A y \in t : x >= y
  <2> SUFFICES ASSUME NEW y \in t PROVE x >= y
    OBVIOUS
  <2>1. n - y \in above
    OBVIOUS
  <2>2. m <= n - y
    BY <1>1, <2>1
  <2> QED BY <1>2, <2>2
<1>4. Max(t) \in t /\ \A y \in t : Max(t) >= y
  BY <1>3, Zenon DEF Max
<1> QED BY <1>4

(* What folding n places with F from e goes through *)
Folding(g, n, e, F) ==
    g = [t \in SUBSET (1..n) |-> IF t = {} THEN e ELSE F[Max(t)][g[t \ {Max(t)}]]]

(* A fold is defined for every step that stays within a set *)
LEMMA FoldsExist ==
    ASSUME NEW n \in Nat, NEW X, NEW e \in X, NEW F, \A k \in 1..n : \A x \in X : F[k][x] \in X
    PROVE  \E g : Folding(g, n, e, F) /\ \A t \in SUBSET (1..n) : g[t] \in X
<1> DEFINE Step(g, t) == IF t = {} THEN e ELSE F[Max(t)][g[t \ {Max(t)}]]
           Def(g, k) == /\ \A t \in SUBSET (1..k) : g[t] \in X /\ g[t] = Step(g, t)
                        /\ g = [t \in SUBSET (1..k) |-> g[t]]
           S == {k \in 0..n : \E g : Def(g, k)}
<1>1. 0 \in S
  <2> DEFINE g == [t \in SUBSET (1..0) |-> e]
  <2>1. Def(g, 0)
    OBVIOUS
  <2> QED BY <2>1
<1>2. ASSUME NEW k \in 1..n, NEW a, Def(a, k - 1) PROVE \E g : Def(g, k)
  <2> DEFINE g == [t \in SUBSET (1..k) |-> IF k \in t THEN F[k][a[t \ {k}]] ELSE a[t]]
  <2>0. \A t \in SUBSET (1..k - 1) : a[t] \in X /\ a[t] = Step(a, t)
    BY <1>2
  <2>1. \A t \in SUBSET (1..k) : k \notin t => t \in SUBSET (1..k - 1)
    OBVIOUS
  <2>2. \A t \in SUBSET (1..k) : t \ {k} \in SUBSET (1..k - 1)
    OBVIOUS
  <2>3. ASSUME NEW t \in SUBSET (1..k), k \in t PROVE Max(t) = k
    <3>1. k \in Nat /\ t # {}
      BY <2>3
    <3>2. Max(t) \in t /\ \A x \in t : x <= Max(t)
      BY <3>1, LargestOf
    <3>3. Max(t) \in 1..k /\ k <= Max(t)
      BY <2>3, <3>2
    <3> QED BY <3>1, <3>3
  <2>4. ASSUME NEW t \in SUBSET (1..k) PROVE g[t] \in X /\ g[t] = Step(g, t)
    <3>1. CASE k \in t
      <4>1. t \ {k} \in SUBSET (1..k) /\ k \notin t \ {k} /\ t # {}
        BY <3>1
      <4>2. g[t \ {k}] = a[t \ {k}] /\ a[t \ {k}] \in X
        BY <2>0, <2>2, <4>1
      <4>3. g[t] = F[k][a[t \ {k}]]
        BY <3>1
      <4> HIDE DEF g
      <4> QED BY <2>3, <3>1, <4>1, <4>2, <4>3
    <3>2. CASE k \notin t
      <4>1. g[t] = a[t] /\ t \in SUBSET (1..k - 1)
        BY <2>1, <3>2
      <4>2. t \ {Max(t)} \in SUBSET (1..k) /\ k \notin t \ {Max(t)}
        BY <3>2
      <4>3. g[t \ {Max(t)}] = a[t \ {Max(t)}]
        BY <4>2
      <4> HIDE DEF g
      <4> QED BY <2>0, <4>1, <4>3
    <3> QED BY <3>1, <3>2
  <2>5. g = [t \in SUBSET (1..k) |-> g[t]]
    OBVIOUS
  <2> HIDE DEF g
  <2>6. Def(g, k)
    BY <2>4, <2>5
  <2> QED BY <2>6
<1> HIDE DEF Def
<1>3. ASSUME NEW k \in 1..n, k - 1 \in S PROVE k \in S
  <2>1. PICK a : Def(a, k - 1)
    BY <1>3
  <2>2. \E g : Def(g, k)
    BY <1>2, <2>1
  <2> QED BY <2>2
<1>4. n \in S
  <2>1. \A k \in 0..n : k \in S
    BY <1>1, <1>3, StepsUp
  <2> QED BY <2>1
<1>5. PICK g : Def(g, n)
  BY <1>4
<1>6. \A t \in SUBSET (1..n) : g[t] \in X /\ g[t] = Step(g, t)
  BY <1>5 DEF Def
<1>7. g = [t \in SUBSET (1..n) |-> g[t]]
  BY <1>5, Zenon DEF Def
<1>8. Folding(g, n, e, F)
  BY <1>6, <1>7, Zenon DEF Folding
<1> QED BY <1>6, <1>8

(* The places up to one, and the last of them *)
LEMMA PlacesUpTo ==
    ASSUME NEW i \in Nat \ {0}
    PROVE  1..i # {} /\ Max(1..i) = i /\ (1..i) \ {i} = 1..i - 1
<1>1. 1..i # {} /\ i \in 1..i /\ 1..i \in SUBSET (1..i)
  OBVIOUS
<1>2. Max(1..i) \in 1..i /\ i <= Max(1..i)
  BY <1>1, LargestOf
<1> QED BY <1>1, <1>2

-----------------------------------------------------------------------------
(* embed_batch, one text and one worker at a time *)

(* One text looked up in the cache *)
Looked(acc, texts, i) == IF texts[i] \in DOMAIN entries THEN acc ELSE Append(acc, i)

(* The pending texts are found one after the other. *)
LEMMA PendingByTexts ==
    ASSUME NEW texts, NEW n \in Nat, DOMAIN texts = 1..n
    PROVE  \E h : /\ h[0] = <<>> /\ h[n] = Pending(texts)
                  /\ \A i \in 1..n : h[i] = Looked(h[i - 1], texts, i)
<1> DEFINE s == [i \in DOMAIN texts |-> i]
           It == CHOOSE g : g = [t \in SUBSET DOMAIN s |->
                                  IF t = {} THEN <<>> ELSE Looked(g[t \ {Max(t)}], texts, s[Max(t)])]
<1>1. Pending(texts) = It[DOMAIN s]
  BY DEF Pending, FoldLeft, MapThenFoldSet, Looked
<1>2. DOMAIN s = 1..n /\ \A i \in 1..n : s[i] = i
  OBVIOUS
<1>3. \E g : g = [t \in SUBSET DOMAIN s |->
                    IF t = {} THEN <<>> ELSE Looked(g[t \ {Max(t)}], texts, s[Max(t)])]
  <2> DEFINE F == [k \in 1..n |-> [x \in Seq(Nat) |-> Looked(x, texts, k)]]
  <2>1. \A k \in 1..n : \A x \in Seq(Nat) : F[k][x] = Looked(x, texts, k) /\ F[k][x] \in Seq(Nat)
    BY DEF Looked
  <2> HIDE DEF F
  <2>2. PICK g : Folding(g, n, <<>>, F) /\ \A t \in SUBSET (1..n) : g[t] \in Seq(Nat)
    <3>1. <<>> \in Seq(Nat) /\ \A k \in 1..n : \A x \in Seq(Nat) : F[k][x] \in Seq(Nat)
      BY <2>1
    <3> QED BY <3>1, FoldsExist
  <2>3. ASSUME NEW t \in SUBSET (1..n), t # {}
        PROVE  F[Max(t)][g[t \ {Max(t)}]] = Looked(g[t \ {Max(t)}], texts, s[Max(t)])
    <3>1. Max(t) \in 1..n
      BY <2>3, LargestOf
    <3>2. g[t \ {Max(t)}] \in Seq(Nat)
      BY <2>2
    <3> QED BY <1>2, <2>1, <3>1, <3>2
  <2> HIDE DEF s
  <2>4. g = [t \in SUBSET DOMAIN s |->
                IF t = {} THEN <<>> ELSE Looked(g[t \ {Max(t)}], texts, s[Max(t)])]
    BY <1>2, <2>2, <2>3, Zenon DEF Folding
  <2> QED BY <2>4
<1>4. It = [t \in SUBSET DOMAIN s |->
              IF t = {} THEN <<>> ELSE Looked(It[t \ {Max(t)}], texts, s[Max(t)])]
  <2> HIDE DEF s
  <2> QED BY <1>3
<1> HIDE DEF It, s
<1>5. \A t \in SUBSET (1..n) :
         It[t] = IF t = {} THEN <<>> ELSE Looked(It[t \ {Max(t)}], texts, s[Max(t)])
  BY <1>2, <1>4, Zenon
<1> DEFINE h == [i \in 0..n |-> It[1..i]]
<1>6. h[0] = <<>> /\ h[n] = Pending(texts)
  <2>1. h[0] = It[1..0] /\ h[n] = It[1..n] /\ 1..0 = {} /\ 1..0 \in SUBSET (1..n)
    OBVIOUS
  <2> QED BY <1>1, <1>2, <1>5, <2>1
<1>7. ASSUME NEW i \in 1..n PROVE h[i] = Looked(h[i - 1], texts, i)
  <2>1. 1..i \in SUBSET (1..n) /\ 1..i # {} /\ Max(1..i) = i /\ (1..i) \ {i} = 1..i - 1
    <3>1. i \in Nat \ {0} /\ 1..i \in SUBSET (1..n)
      OBVIOUS
    <3> QED BY <3>1, PlacesUpTo
  <2>2. h[i] = It[1..i] /\ h[i - 1] = It[1..i - 1]
    <3>1. i \in 0..n /\ i - 1 \in 0..n
      OBVIOUS
    <3> QED BY <3>1
  <2>3. It[1..i] = Looked(It[(1..i) \ {Max(1..i)}], texts, s[Max(1..i)])
    BY <1>5, <2>1
  <2> HIDE DEF h
  <2> QED BY <1>2, <2>1, <2>2, <2>3
<1> QED BY <1>6, <1>7

(* One computed vector put beside the others, unless its text is there *)
PutOne(acc, texts, i) ==
    IF \E r \in Range(acc) : r.key = texts[i] THEN acc
    ELSE Append(acc, [key |-> texts[i], vector |-> forward(texts[i], provider)])

(* The computed vectors are put into the cache one after the other. *)
LEMMA PutByTexts ==
    ASSUME NEW f, NEW V, f \in Seq(V), NEW texts, NEW done, NEW n \in Nat, DOMAIN done = 1..n,
           \A k \in 1..n :
              [key |-> texts[done[k]], vector |-> forward(texts[done[k]], provider)] \in V
    PROVE  \E h : /\ h[0] = f /\ h[n] = Put(f, texts, done)
                  /\ \A i \in 1..n : h[i] = PutOne(h[i - 1], texts, done[i])
<1> DEFINE It == CHOOSE g : g = [t \in SUBSET DOMAIN done |->
                                  IF t = {} THEN f ELSE PutOne(g[t \ {Max(t)}], texts, done[Max(t)])]
<1>1. Put(f, texts, done) = It[DOMAIN done]
  BY DEF Put, FoldLeft, MapThenFoldSet, PutOne
<1>2. \E g : g = [t \in SUBSET DOMAIN done |->
                    IF t = {} THEN f ELSE PutOne(g[t \ {Max(t)}], texts, done[Max(t)])]
  <2> DEFINE F == [k \in 1..n |-> [x \in Seq(V) |-> PutOne(x, texts, done[k])]]
  <2>1. \A k \in 1..n : \A x \in Seq(V) : F[k][x] = PutOne(x, texts, done[k]) /\ F[k][x] \in Seq(V)
    BY DEF PutOne
  <2> HIDE DEF F
  <2>2. PICK g : Folding(g, n, f, F) /\ \A t \in SUBSET (1..n) : g[t] \in Seq(V)
    <3>1. \A k \in 1..n : \A x \in Seq(V) : F[k][x] \in Seq(V)
      BY <2>1
    <3> QED BY <3>1, FoldsExist
  <2>3. ASSUME NEW t \in SUBSET (1..n), t # {}
        PROVE  F[Max(t)][g[t \ {Max(t)}]] = PutOne(g[t \ {Max(t)}], texts, done[Max(t)])
    <3>1. Max(t) \in 1..n
      BY <2>3, LargestOf
    <3>2. g[t \ {Max(t)}] \in Seq(V)
      BY <2>2
    <3> QED BY <2>1, <3>1, <3>2
  <2>4. g = [t \in SUBSET DOMAIN done |->
                IF t = {} THEN f ELSE PutOne(g[t \ {Max(t)}], texts, done[Max(t)])]
    BY <2>2, <2>3, Zenon DEF Folding
  <2> QED BY <2>4
<1>3. It = [t \in SUBSET DOMAIN done |->
              IF t = {} THEN f ELSE PutOne(It[t \ {Max(t)}], texts, done[Max(t)])]
  BY <1>2
<1> HIDE DEF It
<1>4. \A t \in SUBSET (1..n) :
         It[t] = IF t = {} THEN f ELSE PutOne(It[t \ {Max(t)}], texts, done[Max(t)])
  BY <1>3, Zenon
<1> DEFINE h == [i \in 0..n |-> It[1..i]]
<1>5. h[0] = f /\ h[n] = Put(f, texts, done)
  <2>1. h[0] = It[1..0] /\ h[n] = It[1..n] /\ 1..0 = {} /\ 1..0 \in SUBSET (1..n)
    OBVIOUS
  <2> QED BY <1>1, <1>4, <2>1
<1>6. ASSUME NEW i \in 1..n PROVE h[i] = PutOne(h[i - 1], texts, done[i])
  <2>1. 1..i \in SUBSET (1..n) /\ 1..i # {} /\ Max(1..i) = i /\ (1..i) \ {i} = 1..i - 1
    <3>1. i \in Nat \ {0} /\ 1..i \in SUBSET (1..n)
      OBVIOUS
    <3> QED BY <3>1, PlacesUpTo
  <2>2. h[i] = It[1..i] /\ h[i - 1] = It[1..i - 1]
    <3>1. i \in 0..n /\ i - 1 \in 0..n
      OBVIOUS
    <3> QED BY <3>1
  <2>3. It[1..i] = PutOne(It[(1..i) \ {Max(1..i)}], texts, done[Max(1..i)])
    BY <1>4, <2>1
  <2> HIDE DEF h
  <2> QED BY <2>1, <2>2, <2>3
<1> QED BY <1>5, <1>6

(* Every record is of a vector the graph made of its text on that provider *)
OwnRecords(f, p) == f \in Seq(Range(f)) /\ \A r \in Range(f) : r.vector = forward(r.key, p)

(* Putting computed vectors into a file of own records leaves a file of own records. *)
LEMMA PutKeepsOwn ==
    ASSUME NEW f, OwnRecords(f, provider), NEW texts, NEW done, NEW n \in Nat, DOMAIN done = 1..n
    PROVE  OwnRecords(Put(f, texts, done), provider)
<1> DEFINE made == [k \in 1..n |-> [key |-> texts[done[k]], vector |-> forward(texts[done[k]], provider)]]
           V == Range(f) \cup Range(made)
<1>1. \A k \in 1..n :
         [key |-> texts[done[k]], vector |-> forward(texts[done[k]], provider)] \in V
  BY DEF Range
<1>2. \A r \in V : r.vector = forward(r.key, provider)
  <2>1. \A r \in Range(made) : r.vector = forward(r.key, provider)
    BY DEF Range
  <2> QED BY <2>1 DEF OwnRecords
<1>3. f \in Seq(V)
  <2> HIDE DEF made
  <2>1. f \in Seq(Range(f))
    BY DEF OwnRecords
  <2>2. \A i \in 1..Len(f) : f[i] \in V
    BY <2>1
  <2>3. f = [i \in 1..Len(f) |-> f[i]] /\ Len(f) \in Nat
    BY <2>1
  <2> HIDE DEF V
  <2> QED BY <2>2, <2>3
<1> HIDE DEF V
<1>4. PICK h : /\ h[0] = f /\ h[n] = Put(f, texts, done)
               /\ \A i \in 1..n : h[i] = PutOne(h[i - 1], texts, done[i])
  BY <1>1, <1>3, PutByTexts
<1> DEFINE S == {k \in 0..n : h[k] \in Seq(V)}
<1>5. 0 \in S
  BY <1>3, <1>4
<1>6. ASSUME NEW k \in 1..n, k - 1 \in S PROVE k \in S
  <2> DEFINE rec == [key |-> texts[done[k]], vector |-> forward(texts[done[k]], provider)]
  <2>1. h[k - 1] \in Seq(V) /\ rec \in V
    BY <1>1, <1>6
  <2>2. h[k] \in {h[k - 1], Append(h[k - 1], rec)}
    BY <1>4 DEF PutOne
  <2> HIDE DEF rec
  <2>3. ASSUME NEW x \in Seq(V), NEW r \in V PROVE Append(x, r) \in Seq(V)
    OBVIOUS
  <2>4. h[k] \in Seq(V)
    BY <2>1, <2>2, <2>3, Zenon
  <2> QED BY <2>4
<1>7. h[n] \in Seq(V)
  <2>1. \A k \in 0..n : k \in S
    <3> HIDE DEF S
    <3> QED BY <1>5, <1>6, StepsUp
  <2> QED BY <2>1
<1>8. ASSUME NEW s \in Seq(V) PROVE s \in Seq(Range(s)) /\ Range(s) \subseteq V
  BY DEF Range
<1> QED BY <1>2, <1>4, <1>7, <1>8 DEF OwnRecords

(* What is multiplied stays a number. *)
LEMMA Products == ASSUME NEW a \in Nat, NEW b \in Nat PROVE a * b \in Nat
  OBVIOUS

(* Rounding a share up loses no text. *)
LEMMA CeilDivCovers ==
    ASSUME NEW n \in Nat, NEW k \in Nat \ {0}
    PROVE  CeilDiv(n, k) \in Nat /\ k * CeilDiv(n, k) >= n
<1> DEFINE m == n + k - 1
           q == m \div k
<1>1. m \in Nat
  OBVIOUS
<1> HIDE DEF m
<1>2. q \in Int /\ m = k * q + (m % k) /\ m % k \in 0..(k - 1)
  BY <1>1
<1>3. q >= 0
  BY <1>1
<1> HIDE DEF q
<1>4. k * q \in Int
  BY <1>2
<1>5. k * q >= n
  BY <1>2, <1>4 DEF m
<1> QED BY <1>2, <1>3, <1>5 DEF CeilDiv, q, m

(* Where the shares of the first w workers end *)
SharedBy(p, w) == Min({w * CeilDiv(Len(p), sessions), Len(p)})

(* A worker's share begins where the one before it ended. *)
LEMMA SharesMeet ==
    ASSUME NEW p \in Seq(Nat), sessions \in Nat \ {0}, NEW w \in 1..sessions
    PROVE  /\ SharedBy(p, w - 1) \in 0..Len(p) /\ SharedBy(p, w) \in SharedBy(p, w - 1)..Len(p)
           /\ Share(p, w) = SubSeq(p, SharedBy(p, w - 1) + 1, SharedBy(p, w))
<1> DEFINE n == Len(p)
           per == CeilDiv(Len(p), sessions)
           from == (w - 1) * per
           to == w * per
           lo == SharedBy(p, w - 1)
           hi == SharedBy(p, w)
<1>1. n \in Nat /\ w \in Nat /\ w - 1 \in Nat /\ per \in Nat
  <2>1. Len(p) \in Nat
    OBVIOUS
  <2>2. CeilDiv(Len(p), sessions) \in Nat
    BY <2>1, CeilDivCovers
  <2> QED BY <2>1, <2>2
<1> HIDE DEF per, n
<1>2. from \in Nat /\ to \in Nat /\ to = from + per
  <2>1. from \in Nat /\ to \in Nat
    BY <1>1, Products
  <2>2. w * per = (w - 1) * per + per
    BY <1>1
  <2> QED BY <2>1, <2>2
<1> HIDE DEF from, to
<1>3. /\ lo = IF from <= n THEN from ELSE n
      /\ hi = IF to <= n THEN to ELSE n
  <2>1. lo = Min({from, n}) /\ hi = Min({to, n})
    BY DEF SharedBy, from, to, per, n
  <2> QED BY <1>1, <1>2, <2>1, Lesser
<1>4. Share(p, w) = SubSeq(p, from + 1, hi)
  BY DEF Share, SharedBy, from, per
<1> HIDE DEF lo, hi
<1>5. lo \in 0..n /\ hi \in lo..n /\ (from <= n => from = lo)
  BY <1>1, <1>2, <1>3
<1>6. CASE from > n
  <2>1. hi = n /\ lo = n
    BY <1>1, <1>2, <1>3, <1>6
  <2>2. SubSeq(p, from + 1, n) = <<>> /\ SubSeq(p, n + 1, n) = <<>>
    BY <1>1, <1>2, <1>6
  <2>3. Share(p, w) = SubSeq(p, lo + 1, hi)
    BY <1>4, <2>1, <2>2
  <2> QED BY <1>5, <2>3 DEF lo, hi, n
<1>7. CASE from <= n
  <2>1. Share(p, w) = SubSeq(p, lo + 1, hi)
    BY <1>4, <1>5, <1>7
  <2> QED BY <1>5, <2>1 DEF lo, hi, n
<1> QED BY <1>1, <1>2, <1>6, <1>7

(* Two runs of a sequence that meet are one run. *)
LEMMA RunsJoin ==
    ASSUME NEW p \in Seq(Nat), NEW a \in 0..Len(p), NEW b \in a..Len(p)
    PROVE  SubSeq(p, 1, a) \o SubSeq(p, a + 1, b) = SubSeq(p, 1, b)
<1>1. a \in Nat /\ b \in Nat /\ Len(p) \in Nat /\ a <= b /\ b <= Len(p)
  OBVIOUS
<1>2. /\ SubSeq(p, 1, a) \in Seq(Nat) /\ Len(SubSeq(p, 1, a)) = a
      /\ \A i \in 1..a : SubSeq(p, 1, a)[i] = p[i]
  BY <1>1
<1>3. /\ SubSeq(p, a + 1, b) \in Seq(Nat) /\ Len(SubSeq(p, a + 1, b)) = b - a
      /\ \A i \in 1..(b - a) : SubSeq(p, a + 1, b)[i] = p[a + i]
  <2>1. SubSeq(p, a + 1, b) \in Seq(Nat)
    BY <1>1
  <2>2. Len(SubSeq(p, a + 1, b)) = b - a
    BY <1>1
  <2>3. ASSUME NEW i \in 1..(b - a) PROVE SubSeq(p, a + 1, b)[i] = p[a + i]
    BY <1>1
  <2> QED BY <2>1, <2>2, <2>3
<1>4. /\ SubSeq(p, 1, b) \in Seq(Nat) /\ Len(SubSeq(p, 1, b)) = b
      /\ \A i \in 1..b : SubSeq(p, 1, b)[i] = p[i]
  BY <1>1
<1> DEFINE u == SubSeq(p, 1, a)
           v == SubSeq(p, a + 1, b)
           x == SubSeq(p, 1, b)
<1> HIDE DEF u, v, x
<1>5. u \o v \in Seq(Nat) /\ Len(u \o v) = b
  BY <1>1, <1>2, <1>3 DEF u, v
<1>6. ASSUME NEW i \in 1..b PROVE (u \o v)[i] = x[i]
  <2>0. i \in Nat
    OBVIOUS
  <2>1. CASE i <= a
    BY <1>1, <1>2, <1>3, <1>4, <2>1 DEF u, v, x
  <2>2. CASE i > a
    <3>1. i - a \in 1..(b - a) /\ a + (i - a) = i
      BY <1>1, <2>2
    <3>2. (u \o v)[i] = v[i - a]
      BY <1>1, <1>2, <1>3, <2>2 DEF u, v
    <3> QED BY <1>3, <1>4, <3>1, <3>2 DEF u, v, x
  <2>3. i <= a \/ i > a
    BY <1>1, <2>0
  <2> QED BY <2>1, <2>2, <2>3, Zenon
<1>7. u \o v = x
  BY <1>4, <1>5, <1>6 DEF x
<1> QED BY <1>7 DEF u, v, x

(* The workers' answers are joined one worker after the other. *)
LEMMA ComputedByWorkers ==
    ASSUME NEW p \in Seq(Nat), sessions \in Nat \ {0}
    PROVE  \E h : /\ h[0] = <<>> /\ h[sessions] = Computed(p)
                  /\ \A w \in 1..sessions : h[w] = h[w - 1] \o Share(p, w)
<1> DEFINE n == sessions
           s == [w \in 1..sessions |-> w]
           It == CHOOSE g : g = [t \in SUBSET DOMAIN s |->
                                  IF t = {} THEN <<>> ELSE g[t \ {Max(t)}] \o Share(p, s[Max(t)])]
<1>1. Computed(p) = It[DOMAIN s]
  BY DEF Computed, FoldLeft, MapThenFoldSet
<1>2. DOMAIN s = 1..n /\ \A i \in 1..n : s[i] = i
  OBVIOUS
<1>3. \E g : g = [t \in SUBSET DOMAIN s |->
                    IF t = {} THEN <<>> ELSE g[t \ {Max(t)}] \o Share(p, s[Max(t)])]
  <2> DEFINE F == [k \in 1..n |-> [x \in Seq(Nat) |-> x \o Share(p, k)]]
  <2>1. \A k \in 1..n : \A x \in Seq(Nat) : F[k][x] = x \o Share(p, k) /\ F[k][x] \in Seq(Nat)
    <3>1. ASSUME NEW k \in 1..n PROVE Share(p, k) \in Seq(Nat)
      <4>1. /\ SharedBy(p, k - 1) \in 0..Len(p) /\ SharedBy(p, k) \in SharedBy(p, k - 1)..Len(p)
            /\ Share(p, k) = SubSeq(p, SharedBy(p, k - 1) + 1, SharedBy(p, k))
        BY SharesMeet
      <4> QED BY <4>1
    <3> QED BY <3>1
  <2> HIDE DEF F
  <2>2. PICK g : Folding(g, n, <<>>, F) /\ \A t \in SUBSET (1..n) : g[t] \in Seq(Nat)
    <3>1. <<>> \in Seq(Nat) /\ \A k \in 1..n : \A x \in Seq(Nat) : F[k][x] \in Seq(Nat)
      BY <2>1
    <3> QED BY <3>1, FoldsExist
  <2>3. ASSUME NEW t \in SUBSET (1..n), t # {}
        PROVE  F[Max(t)][g[t \ {Max(t)}]] = g[t \ {Max(t)}] \o Share(p, s[Max(t)])
    <3>1. Max(t) \in 1..n
      BY <2>3, LargestOf
    <3>2. g[t \ {Max(t)}] \in Seq(Nat)
      BY <2>2
    <3> QED BY <1>2, <2>1, <3>1, <3>2
  <2> HIDE DEF s
  <2>4. g = [t \in SUBSET DOMAIN s |->
                IF t = {} THEN <<>> ELSE g[t \ {Max(t)}] \o Share(p, s[Max(t)])]
    BY <1>2, <2>2, <2>3, Zenon DEF Folding
  <2> QED BY <2>4
<1>4. It = [t \in SUBSET DOMAIN s |->
              IF t = {} THEN <<>> ELSE It[t \ {Max(t)}] \o Share(p, s[Max(t)])]
  <2> HIDE DEF s
  <2> QED BY <1>3
<1> HIDE DEF It, s
<1>5. \A t \in SUBSET (1..n) :
         It[t] = IF t = {} THEN <<>> ELSE It[t \ {Max(t)}] \o Share(p, s[Max(t)])
  BY <1>2, <1>4, Zenon
<1> DEFINE h == [i \in 0..n |-> It[1..i]]
<1>6. h[0] = <<>> /\ h[n] = Computed(p)
  <2>1. h[0] = It[1..0] /\ h[n] = It[1..n] /\ 1..0 = {} /\ 1..0 \in SUBSET (1..n)
    OBVIOUS
  <2> QED BY <1>1, <1>2, <1>5, <2>1
<1>7. ASSUME NEW i \in 1..n PROVE h[i] = h[i - 1] \o Share(p, i)
  <2>1. 1..i \in SUBSET (1..n) /\ 1..i # {} /\ Max(1..i) = i /\ (1..i) \ {i} = 1..i - 1
    <3>1. i \in Nat \ {0} /\ 1..i \in SUBSET (1..n)
      OBVIOUS
    <3> QED BY <3>1, PlacesUpTo
  <2>2. h[i] = It[1..i] /\ h[i - 1] = It[1..i - 1]
    <3>1. i \in 0..n /\ i - 1 \in 0..n
      OBVIOUS
    <3> QED BY <3>1
  <2>3. It[1..i] = It[(1..i) \ {Max(1..i)}] \o Share(p, s[Max(1..i)])
    BY <1>5, <2>1
  <2> HIDE DEF h
  <2> QED BY <1>2, <2>1, <2>2, <2>3
<1> QED BY <1>6, <1>7

(* However many workers there are, together they computed what was pending, in order. *)
LEMMA EverythingComputed ==
    ASSUME NEW p \in Seq(Nat), sessions \in Nat \ {0}
    PROVE  Computed(p) = p
<1>1. PICK h : /\ h[0] = <<>> /\ h[sessions] = Computed(p)
               /\ \A w \in 1..sessions : h[w] = h[w - 1] \o Share(p, w)
  BY ComputedByWorkers
<1> DEFINE S == {w \in 0..sessions : h[w] = SubSeq(p, 1, SharedBy(p, w))}
<1>2. Len(p) \in Nat /\ CeilDiv(Len(p), sessions) \in Nat
      /\ sessions * CeilDiv(Len(p), sessions) >= Len(p)
  <2>1. Len(p) \in Nat
    OBVIOUS
  <2> QED BY <2>1, CeilDivCovers
<1>3. SharedBy(p, 0) = 0 /\ SharedBy(p, sessions) = Len(p)
  <2> DEFINE per == CeilDiv(Len(p), sessions)
             all == sessions * per
  <2>1. 0 * per = 0 /\ all \in Int /\ all >= Len(p) /\ 0 \in Int
    BY <1>2
  <2>2. SharedBy(p, 0) = Min({0, Len(p)}) /\ SharedBy(p, sessions) = Min({all, Len(p)})
    BY <2>1 DEF SharedBy
  <2>3. Min({0, Len(p)}) = IF 0 <= Len(p) THEN 0 ELSE Len(p)
    BY <1>2, Lesser
  <2>4. Min({all, Len(p)}) = IF all <= Len(p) THEN all ELSE Len(p)
    BY <1>2, <2>1, Lesser
  <2> HIDE DEF all
  <2> QED BY <1>2, <2>1, <2>2, <2>3, <2>4
<1>4. 0 \in S
  <2>1. SubSeq(p, 1, 0) = <<>>
    OBVIOUS
  <2>2. h[0] = SubSeq(p, 1, SharedBy(p, 0))
    BY <1>1, <1>3, <2>1, Zenon
  <2>3. 0 \in 0..sessions
    OBVIOUS
  <2> QED BY <2>2, <2>3
<1>5. ASSUME NEW w \in 1..sessions, w - 1 \in S PROVE w \in S
  <2>1. /\ SharedBy(p, w - 1) \in 0..Len(p) /\ SharedBy(p, w) \in SharedBy(p, w - 1)..Len(p)
        /\ Share(p, w) = SubSeq(p, SharedBy(p, w - 1) + 1, SharedBy(p, w))
    BY SharesMeet
  <2>2. h[w - 1] = SubSeq(p, 1, SharedBy(p, w - 1)) /\ h[w] = h[w - 1] \o Share(p, w)
    BY <1>1, <1>5
  <2>3. h[w] = SubSeq(p, 1, SharedBy(p, w))
    BY <2>1, <2>2, RunsJoin
  <2> QED BY <2>3
<1>6. sessions \in S
  <2>1. \A w \in 0..sessions : w \in S
    <3> HIDE DEF S
    <3> QED BY <1>4, <1>5, StepsUp
  <2> QED BY <2>1
<1>7. SubSeq(p, 1, Len(p)) = p
  OBVIOUS
<1> QED BY <1>1, <1>3, <1>6, <1>7

-----------------------------------------------------------------------------
(* What is cached, and what a batch returns *)

(* What is pending is every text the cache does not know, and texts of the batch. *)
LEMMA PendingIs ==
    ASSUME NEW texts, NEW n \in Nat, DOMAIN texts = 1..n
    PROVE  /\ Pending(texts) \in Seq(Nat)
           /\ \A i \in 1..n : texts[i] \notin DOMAIN entries => i \in Range(Pending(texts))
<1>1. PICK h : /\ h[0] = <<>> /\ h[n] = Pending(texts)
               /\ \A i \in 1..n : h[i] = Looked(h[i - 1], texts, i)
  BY PendingByTexts
<1> DEFINE Waits(i) == texts[i] \notin DOMAIN entries
           S == {k \in 0..n : /\ h[k] \in Seq(Nat)
                              /\ \A i \in 1..k : Waits(i) => i \in Range(h[k])}
<1>2. 0 \in S
  <2>1. h[0] \in Seq(Nat) /\ 1..0 = {} /\ 0 \in 0..n
    BY <1>1
  <2>2. \A i \in 1..0 : Waits(i) => i \in Range(h[0])
    BY <2>1
  <2> QED BY <2>1, <2>2
<1>3. ASSUME NEW k \in 1..n, k - 1 \in S PROVE k \in S
  <2>1. h[k - 1] \in Seq(Nat) /\ \A i \in 1..k - 1 : Waits(i) => i \in Range(h[k - 1])
    BY <1>3
  <2>2. h[k] = IF Waits(k) THEN Append(h[k - 1], k) ELSE h[k - 1]
    BY <1>1 DEF Looked
  <2>3. ASSUME NEW x \in Seq(Nat)
        PROVE  /\ Append(x, k) \in Seq(Nat) /\ k \in Range(Append(x, k))
               /\ \A i \in Range(x) : i \in Range(Append(x, k))
    <3>1. /\ Append(x, k) \in Seq(Nat) /\ Append(x, k)[Len(x) + 1] = k
          /\ DOMAIN Append(x, k) = 1..Len(x) + 1 /\ DOMAIN x = 1..Len(x) /\ Len(x) \in Nat
          /\ \A j \in 1..Len(x) : Append(x, k)[j] = x[j]
      OBVIOUS
    <3>2. \A j \in 1..Len(x) : j \in 1..Len(x) + 1
      BY <3>1
    <3>3. Len(x) + 1 \in 1..Len(x) + 1
      BY <3>1
    <3> QED BY <3>1, <3>2, <3>3 DEF Range
  <2>4. \A i \in 1..k : i = k \/ i \in 1..k - 1
    OBVIOUS
  <2> HIDE DEF Waits
  <2>5. h[k] \in Seq(Nat) /\ \A i \in 1..k : Waits(i) => i \in Range(h[k])
    BY <2>1, <2>2, <2>3, <2>4, Zenon
  <2> QED BY <2>5
<1>4. n \in S
  <2>1. \A k \in 0..n : k \in S
    <3> HIDE DEF S
    <3> QED BY <1>2, <1>3, StepsUp
  <2> QED BY <2>1
<1> QED BY <1>1, <1>4

(* What the cache knows when it is read again was made on the provider of its file. *)
LEMMA RecordsAreOwn ==
    ASSUME NEW f, NEW p, OwnRecords(f[p], p)
    PROVE  \A k \in DOMAIN Records(f, p) : Records(f, p)[k] = forward(k, p)
<1>1. ASSUME NEW k \in DOMAIN Records(f, p) PROVE Records(f, p)[k] = forward(k, p)
  <2>1. \E r \in Range(f[p]) : r.key = k
    BY DEF Records
  <2>2. Records(f, p)[k] = (CHOOSE r \in Range(f[p]) : r.key = k).vector
    BY DEF Records
  <2> DEFINE r == CHOOSE r \in Range(f[p]) : r.key = k
  <2>3. r \in Range(f[p]) /\ r.key = k
    BY <2>1
  <2> HIDE DEF r
  <2> QED BY <2>2, <2>3 DEF OwnRecords, r
<1> QED BY <1>1

(* The cache in memory, the cache file for either provider, the batch just returned *)
EntriesOwn == \A t \in DOMAIN entries : entries[t] = forward(t, provider)
FileOwn == /\ DOMAIN file.whole = {"cpu", "cuda"}
           /\ \A p \in {"cpu", "cuda"} : OwnRecords(file.whole[p], p)
ReturnedOwn == returned # <<>> => returned = [i \in DOMAIN batch |-> forward(batch[i], provider)]
OwnInv == /\ FileOwn /\ ReturnedOwn
          /\ at \in LaterStages => EntriesOwn
          /\ at # "up" => returned = <<>>

(* A batch goes by what the cache knows and what the workers computed, and both are
   what the graph makes of the texts on this provider. *)
LEMMA BatchIsOwn ==
    ASSUME FileOwn, EntriesOwn, provider \in {"cpu", "cuda"}, sessions \in Nat \ {0}, provider' = provider,
           NEW texts \in Batches, EmbedBatch(texts)
    PROVE  FileOwn' /\ EntriesOwn' /\ ReturnedOwn'
<1> DEFINE n == Len(texts)
           pending == Pending(texts)
           order == Computed(pending)
           vector(i) == IF i \in Range(pending)
                        THEN LET k == CHOOSE k \in DOMAIN pending : pending[k] = i
                             IN  IF k \in DOMAIN order THEN forward(texts[order[k]], provider) ELSE Unfilled
                        ELSE entries[texts[i]]
<1>1. n \in Nat /\ DOMAIN texts = 1..n
  BY DevicesAssumption
<1>2. /\ pending \in Seq(Nat)
      /\ \A i \in 1..n : texts[i] \notin DOMAIN entries => i \in Range(pending)
  BY <1>1, PendingIs
<1>3. order = pending
  BY <1>2, EverythingComputed
<1>4. ASSUME NEW i \in 1..n PROVE vector(i) = forward(texts[i], provider)
  <2>1. CASE i \in Range(pending)
    <3> DEFINE k == CHOOSE k \in DOMAIN pending : pending[k] = i
    <3>1. k \in DOMAIN pending /\ pending[k] = i
      BY <2>1 DEF Range
    <3>2. vector(i) = IF k \in DOMAIN order THEN forward(texts[order[k]], provider) ELSE Unfilled
      BY <2>1
    <3> HIDE DEF k, vector, order, pending
    <3> QED BY <1>3, <3>1, <3>2
  <2>2. CASE i \notin Range(pending)
    BY <1>2, <2>2 DEF EntriesOwn
  <2> QED BY <2>1, <2>2
<1> DEFINE done(bad) == IF bad = 0 THEN pending ELSE SubSeq(pending, 1, bad - 1)
           after(bad) == IF setup.cache THEN Put(file.whole[provider], texts, done(bad))
                         ELSE file.whole[provider]
<1>5. PICK bad \in 0..Len(pending) :
        /\ file'.whole = [file.whole EXCEPT ![provider] = after(bad)]
        /\ entries' = IF setup.cache THEN Records(file'.whole, provider) ELSE entries
        /\ batch' = texts
        /\ returned' = IF bad = 0 THEN [i \in DOMAIN texts |-> vector(i)] ELSE <<>>
  <2>1. Len(pending) \in Nat
    BY <1>2
  <2> HIDE DEF n
  <2>2. PICK bad \in 0..(IF failures < MaxFailures THEN Len(pending) ELSE 0), torn \in BOOLEAN :
          /\ file' = [whole |-> [file.whole EXCEPT ![provider] = after(bad)],
                      torn |-> [file.torn EXCEPT ![provider] = @ \/ torn]]
          /\ entries' = IF setup.cache THEN Records(file'.whole, provider) ELSE entries
          /\ batch' = texts
          /\ returned' = IF bad = 0 THEN [i \in DOMAIN texts |-> vector(i)] ELSE <<>>
    BY DEF EmbedBatch, namespace
  <2>3. file'.whole = [file.whole EXCEPT ![provider] = after(bad)]
    BY <2>2
  <2>4. bad \in 0..Len(pending)
    BY <2>1, <2>2
  <2> HIDE DEF after, vector, pending
  <2> QED BY <2>2, <2>3, <2>4
<1> HIDE DEF vector, order
<1>6. OwnRecords(after(bad), provider)
  <2>1. \E m \in Nat : DOMAIN done(bad) = 1..m
    <3> HIDE DEF pending
    <3>1. CASE bad = 0
      BY <1>2, <3>1
    <3>2. CASE bad # 0
      <4>1. Len(pending) \in Nat /\ bad \in 1..Len(pending) /\ bad - 1 \in Nat
        BY <1>2, <3>2
      <4>2. DOMAIN SubSeq(pending, 1, bad - 1) = 1..(bad - 1)
        BY <1>2, <4>1
      <4> QED BY <3>2, <4>1, <4>2
    <3> QED BY <3>1, <3>2
  <2> HIDE DEF done
  <2>2. OwnRecords(file.whole[provider], provider)
    BY DEF FileOwn
  <2>3. OwnRecords(Put(file.whole[provider], texts, done(bad)), provider)
    BY <2>1, <2>2, PutKeepsOwn
  <2> QED BY <2>2, <2>3
<1> HIDE DEF after, pending
<1>7. FileOwn'
  <2>1. file'.whole[provider] = after(bad)
    BY <1>5 DEF FileOwn
  <2>2. \A p \in {"cpu", "cuda"} : p # provider => file'.whole[p] = file.whole[p]
    BY <1>5 DEF FileOwn
  <2>3. DOMAIN file'.whole = {"cpu", "cuda"}
    BY <1>5 DEF FileOwn
  <2>4. \A p \in {"cpu", "cuda"} : OwnRecords(file'.whole[p], p)
    BY <1>6, <2>1, <2>2 DEF FileOwn
  <2> QED BY <2>3, <2>4 DEF FileOwn, OwnRecords
<1>8. EntriesOwn'
  <2>1. CASE setup.cache
    <3>1. OwnRecords(file'.whole[provider], provider)
      BY <1>7 DEF FileOwn, OwnRecords
    <3>2. \A k \in DOMAIN Records(file'.whole, provider) : Records(file'.whole, provider)[k] = forward(k, provider)
      BY <3>1, RecordsAreOwn
    <3> QED BY <1>5, <2>1, <3>2 DEF EntriesOwn, forward
  <2>2. CASE ~setup.cache
    BY <1>5, <2>2 DEF EntriesOwn, forward
  <2> QED BY <2>1, <2>2
<1>9. ReturnedOwn'
  <2>1. bad = 0 => returned' = [i \in DOMAIN texts |-> forward(texts[i], provider)]
    <3>1. \A i \in DOMAIN texts : vector(i) = forward(texts[i], provider)
      BY <1>1, <1>4
    <3> QED BY <1>5, <3>1
  <2> QED BY <1>5, <2>1 DEF ReturnedOwn, forward
<1> QED BY <1>7, <1>8, <1>9

(* A step that neither serves a batch nor opens or drops a cache *)
LEMMA QuietOwn ==
    ASSUME OwnInv, UNCHANGED <<cached, served>>,
           at' \in LaterStages => at \in LaterStages /\ provider' = provider,
           at # "up", returned = <<>>
    PROVE  OwnInv'
<1>1. FileOwn' /\ ReturnedOwn' /\ returned' = <<>>
  BY DEF OwnInv, FileOwn, OwnRecords, ReturnedOwn, cached, served
<1>2. at' \in LaterStages => EntriesOwn'
  BY DEF OwnInv, EntriesOwn, cached, forward
<1> QED BY <1>1, <1>2 DEF OwnInv

(* The start and its batches keep what is cached and what is returned its own. *)
LEMMA DevStepsOwn == ASSUME HostInv, OwnInv, DevNext PROVE OwnInv'
<1> USE DEF LaterStages
<1>1. at # "up" => returned = <<>>
  BY DEF OwnInv
<1>2. CASE VerifyEmbedder
  BY <1>1, <1>2, QuietOwn DEF VerifyEmbedder, Stop, Go
<1>3. CASE ExplicitCuda
  BY <1>1, <1>3, QuietOwn DEF ExplicitCuda, Stop, Go
<1>4. CASE Probe
  BY <1>1, <1>4, QuietOwn DEF Probe, Go
<1>5. CASE Open
  BY <1>1, <1>5, QuietOwn DEF Open, Go
<1>6. CASE Measure
  BY <1>1, <1>6, QuietOwn DEF Measure, Go
<1>7. CASE Widen
  BY <1>1, <1>7, QuietOwn DEF Widen, Go
<1>8. CASE Grow
  BY <1>1, <1>8, QuietOwn DEF Grow, Go
<1>9. CASE OpenCache
  <2>1. /\ at = "cache" /\ UNCHANGED <<setup, file, served, provider>>
        /\ \/ at' = "dead"
           \/ at' = "rerank" /\ entries' = <<>>
           \/ at' = "rerank" /\ setup.cache /\ entries' = Records(file.whole, provider)
    BY <1>9 DEF OpenCache, Stop, Go, namespace, plans
  <2>2. FileOwn' /\ ReturnedOwn' /\ returned' = <<>>
    BY <1>1, <2>1 DEF OwnInv, FileOwn, OwnRecords, ReturnedOwn, served
  <2>3. CASE at' = "rerank" /\ entries' = Records(file.whole, provider)
    <3>1. setup.host = "adapter" /\ provider \in {"cpu", "cuda"}
      BY <2>1, SetupTyped DEF HostInv, HostTyped, DaemonGoesOn, Settles, Providers
    <3>2. \A k \in DOMAIN Records(file.whole, provider) : Records(file.whole, provider)[k] = forward(k, provider)
      BY <3>1, RecordsAreOwn DEF OwnInv, FileOwn
    <3> QED BY <2>1, <2>2, <2>3, <3>2 DEF OwnInv, EntriesOwn, forward
  <2>4. CASE at' = "rerank" /\ entries' = <<>>
    BY <2>2, <2>4 DEF OwnInv, EntriesOwn
  <2>5. CASE at' = "dead"
    BY <2>2, <2>5 DEF OwnInv
  <2> QED BY <2>1, <2>3, <2>4, <2>5
<1>10. CASE VerifyReranker
  BY <1>1, <1>10, QuietOwn DEF VerifyReranker, Refuse, load_auto, plans, Stop, Go
<1>11. CASE ProbeReranker
  BY <1>1, <1>11, QuietOwn DEF ProbeReranker, plans, Go
<1>12. CASE OpenReranker
  BY <1>1, <1>12, QuietOwn DEF OpenReranker, Refuse, plans, Stop, Go
<1>13. CASE SelectPlan
  BY <1>1, <1>13, QuietOwn DEF SelectPlan, plans, Go
<1>14. CASE LoadFusion
  BY <1>1, <1>14, QuietOwn DEF LoadFusion, plans, Stop, Go
<1>15. CASE EmbedTexts
  <2>1. PICK texts \in Batches : EmbedBatch(texts)
    BY <1>15 DEF EmbedTexts
  <2>2. /\ at = "up" /\ at' = "up" /\ setup.host = "adapter" /\ provider' = provider
    BY <1>15 DEF EmbedTexts, plans
  <2>3. provider \in {"cpu", "cuda"} /\ sessions \in Nat \ {0}
    BY <2>2, SetupTyped DEF HostInv, HostTyped, Settles, Providers
  <2>4. FileOwn' /\ EntriesOwn' /\ ReturnedOwn'
    BY <2>1, <2>2, <2>3, BatchIsOwn DEF OwnInv
  <2> QED BY <2>2, <2>4 DEF OwnInv
<1>16. CASE Shift
  BY <1>1, <1>16, QuietOwn DEF Shift, plans
<1>17. CASE NextStart
  BY <1>17 DEF NextStart, Fresh, OwnInv, FileOwn, OwnRecords, ReturnedOwn, EntriesOwn
<1> QED
  BY <1>2, <1>3, <1>4, <1>5, <1>6, <1>7, <1>8, <1>9, <1>10, <1>11, <1>12, <1>13, <1>14, <1>15,
     <1>16, <1>17 DEF DevNext

(* No records are all own. *)
LEMMA EmptyIsOwn == \A p : OwnRecords(<<>>, p)
  BY DEF OwnRecords, Range

LEMMA ServeOwn == ASSUME OwnInv, Serve PROVE OwnInv'
<1>1. FileOwn'
  BY EmptyIsOwn DEF Serve, FileOwn, OwnRecords
<1> QED BY <1>1 DEF Serve, Fresh, OwnInv, ReturnedOwn, LaterStages

LEMMA IdleOwn == ASSUME OwnInv, UNCHANGED devVars PROVE OwnInv'
  BY
     DEF OwnInv, devVars, plans, cached, served, FileOwn, OwnRecords, ReturnedOwn, EntriesOwn,
         forward

(* embed_batch: however many sessions the card had room for, however often the host was
   started on the cache it left, and wherever the graph or the cache failed, the i-th vector a
   batch returns is what this graph makes of the i-th text on the provider that was announced. *)
THEOREM VectorsAreTheTexts == HostSpec => []VectorsAreOwn
<1>1. HostInit => HostInv /\ OwnInv
  <2>1. ASSUME HostInit PROVE HostInv
    BY <2>1, HostStarts DEF HostInit
  <2>2. ASSUME HostInit PROVE OwnInv
    BY <2>2, EmptyIsOwn DEF HostInit, DevInit, OwnInv, FileOwn, ReturnedOwn, EntriesOwn
  <2> QED BY <2>1, <2>2
<1>2. HostInv /\ OwnInv /\ [HostNext]_hostVars => HostInv' /\ OwnInv'
  BY NextStands, HostSteps, DevStepsOwn, ServeOwn, IdleOwn
<1>3. OwnInv => VectorsAreOwn
  BY DEF OwnInv, ReturnedOwn, EntriesOwn, VectorsAreOwn, LaterStages
<1> QED BY <1>1, <1>2, <1>3, PTL DEF HostSpec

-----------------------------------------------------------------------------
(* Sorting: whatever the relation, what comes out is what went in *)

(* Every member of S, once *)
IsOrderOf(s, S) ==
    /\ s \in Seq(S) /\ Range(s) = S
    /\ \A i, j \in DOMAIN s : s[i] = s[j] => i = j

(* The same of a fold over a set of places *)
FoldingOver(g, S, e, F) ==
    g = [t \in SUBSET S |-> IF t = {} THEN e ELSE F[Max(t)][g[t \ {Max(t)}]]]

(* A fold over any set of places is defined for every step that stays within a set. *)
LEMMA FoldsOver ==
    ASSUME NEW n \in Nat, NEW S \in SUBSET (1..n), NEW X, NEW e \in X, NEW F,
           \A k \in 1..n : \A x \in X : F[k][x] \in X
    PROVE  \E g : FoldingOver(g, S, e, F) /\ \A t \in SUBSET S : g[t] \in X
<1>1. PICK a : Folding(a, n, e, F) /\ \A t \in SUBSET (1..n) : a[t] \in X
  BY FoldsExist
<1>2. \A t \in SUBSET (1..n) : a[t] = IF t = {} THEN e ELSE F[Max(t)][a[t \ {Max(t)}]]
  BY <1>1, Zenon DEF Folding
<1> DEFINE g == [t \in SUBSET S |-> a[t]]
<1>3. \A t \in SUBSET S : t \in SUBSET (1..n) /\ t \ {Max(t)} \in SUBSET S
  OBVIOUS
<1>4. \A t \in SUBSET S : g[t] = a[t] /\ g[t \ {Max(t)}] = a[t \ {Max(t)}]
  BY <1>3
<1>5. g = [t \in SUBSET S |-> g[t]]
  OBVIOUS
<1> HIDE DEF g
<1>6. \A t \in SUBSET S : g[t] = IF t = {} THEN e ELSE F[Max(t)][g[t \ {Max(t)}]]
  BY <1>2, <1>3, <1>4
<1>7. FoldingOver(g, S, e, F)
  BY <1>5, <1>6, Zenon DEF FoldingOver
<1> QED BY <1>1, <1>3, <1>4, <1>7

(* The least of a set of numbers *)
LEMMA MinOf ==
    ASSUME NEW S \in SUBSET Nat, S # {}
    PROVE  Min(S) \in S /\ \A x \in S : Min(S) <= x
<1>1. PICK m \in S : \A k \in S : m <= k
  BY LeastNatural
<1> QED BY <1>1, Zenon DEF Min

(* A joined sequence is as long as its parts. *)
LEMMA JoinedLen ==
    ASSUME NEW T, NEW a \in Seq(T), NEW b \in Seq(T)
    PROVE  Len(a \o b) = Len(a) + Len(b)
  OBVIOUS

(* One more goes in before some place. *)
LEMMA PlaceFor ==
    ASSUME NEW T, NEW s \in Seq(T), NEW x, NEW R
    PROVE  Min({i \in DOMAIN s : <<x, s[i]>> \in R} \cup {Len(s) + 1}) \in 1..(Len(s) + 1)
<1> DEFINE at0 == {i \in DOMAIN s : <<x, s[i]>> \in R} \cup {Len(s) + 1}
           m == Len(s)
<1>1. m \in Nat /\ DOMAIN s = 1..m
  OBVIOUS
<1>2. m + 1 \in at0 /\ m + 1 \in 1..(m + 1)
  BY <1>1
<1>3. ASSUME NEW i \in at0 PROVE i \in 1..(m + 1)
  <2>1. i \in DOMAIN s \/ i = m + 1
    OBVIOUS
  <2> QED BY <1>1, <1>2, <2>1
<1> HIDE DEF at0
<1>4. at0 \in SUBSET Nat /\ at0 # {}
  BY <1>1, <1>2, <1>3
<1>5. Min(at0) \in at0
  BY <1>4, MinOf
<1>6. Min(at0) \in 1..(m + 1)
  BY <1>3, <1>5
<1> QED BY <1>6 DEF at0

LEMMA WiderSeq == ASSUME NEW A, NEW B, A \in SUBSET B, NEW s \in Seq(A) PROVE s \in Seq(B)
<1>1. Len(s) \in Nat /\ s = [i \in 1..Len(s) |-> s[i]]
  OBVIOUS
<1>2. \A i \in 1..Len(s) : s[i] \in B
  OBVIOUS
<1> QED BY <1>1, <1>2

(* The largest of any numbers that stop somewhere *)
LEMMA LargestBelow ==
    ASSUME NEW n \in Int, NEW t \in SUBSET Int, t # {}, \A x \in t : x <= n
    PROVE  Max(t) \in t /\ \A x \in t : x <= Max(t)
<1> DEFINE above == {k \in Nat : \E x \in t : k = n - x}
<1>1. PICK m \in above : \A k \in above : m <= k
  <2>1. PICK x \in t : TRUE
    OBVIOUS
  <2>2. n - x \in above
    BY <2>1
  <2> QED BY <2>2, LeastNatural
<1>2. PICK x \in t : m = n - x
  BY <1>1
<1>3. \A y \in t : x >= y
  <2> SUFFICES ASSUME NEW y \in t PROVE x >= y
    OBVIOUS
  <2>1. n - y \in above
    OBVIOUS
  <2>2. m <= n - y
    BY <1>1, <2>1
  <2> QED BY <1>2, <2>2
<1>4. Max(t) \in t /\ \A y \in t : Max(t) >= y
  BY <1>3, Zenon DEF Max
<1> QED BY <1>4

(* A fold that counts its places from zero *)
LEMMA FoldsFromZero ==
    ASSUME NEW n \in Nat, NEW S \in SUBSET (0..n), NEW X, NEW e \in X, NEW F,
           \A k \in 0..n : \A x \in X : F[k][x] \in X
    PROVE  \E g : FoldingOver(g, S, e, F) /\ \A t \in SUBSET S : g[t] \in X
<1> DEFINE S1 == S \ {0}
           e1 == F[0][e]
<1>0. S1 \in SUBSET (1..n) /\ e1 \in X /\ \A k \in 1..n : \A x \in X : F[k][x] \in X
  OBVIOUS
<1> HIDE DEF S1, e1
<1>1. PICK a : FoldingOver(a, S1, e, F) /\ \A t \in SUBSET S1 : a[t] \in X
  BY <1>0, FoldsOver
<1>2. PICK b : FoldingOver(b, S1, e1, F) /\ \A t \in SUBSET S1 : b[t] \in X
  BY <1>0, FoldsOver
<1> DEFINE g == [t \in SUBSET S |-> IF 0 \in t THEN b[t \ {0}] ELSE a[t]]
<1>3. \A t \in SUBSET S1 : /\ a[t] = IF t = {} THEN e ELSE F[Max(t)][a[t \ {Max(t)}]]
                           /\ b[t] = IF t = {} THEN e1 ELSE F[Max(t)][b[t \ {Max(t)}]]
  BY <1>1, <1>2, Zenon DEF FoldingOver
<1>4. ASSUME NEW t \in SUBSET S
      PROVE  /\ g[t] \in X
             /\ g[t] = IF t = {} THEN e ELSE F[Max(t)][g[t \ {Max(t)}]]
  <2>1. CASE 0 \notin t
    <3>1. t \in SUBSET S1
      BY <2>1 DEF S1
    <3>2. t \ {Max(t)} \in SUBSET S /\ 0 \notin t \ {Max(t)}
      BY <2>1
    <3>3. g[t] = a[t] /\ g[t \ {Max(t)}] = a[t \ {Max(t)}]
      BY <2>1, <3>2
    <3> HIDE DEF g
    <3> QED BY <1>1, <1>3, <3>1, <3>3
  <2>2. CASE t = {0}
    <3>1. Max(t) = 0
      <4>1. Max(t) \in t
        BY <2>2, LargestBelow, 0 \in Int
      <4> QED BY <2>2, <4>1
    <3>2. {} \in SUBSET S1 /\ {} \in SUBSET S /\ t \ {0} = {} /\ 0 \in t /\ t # {}
      BY <2>2
    <3>3. g[t] = b[{}] /\ g[{}] = a[{}]
      BY <3>2
    <3> HIDE DEF g
    <3>4. b[{}] = e1 /\ a[{}] = e
      BY <1>3, <3>2
    <3> QED BY <1>0, <3>1, <3>2, <3>3, <3>4 DEF e1
  <2>3. CASE 0 \in t /\ t # {0}
    <3> DEFINE u == t \ {0}
    <3>1. u \in SUBSET S1 /\ u # {} /\ u \in SUBSET (1..n)
      BY <1>0, <2>3 DEF S1
    <3> DEFINE c == Max(u)
    <3>2. c \in u /\ \A x \in u : x <= c
      BY <3>1, LargestOf
    <3>3. Max(t) = c
      <4> HIDE DEF c
      <4>0. c \in 1..n
        BY <3>1, <3>2
      <4>1. c \in Int /\ c >= 0 /\ c \in t
        BY <3>2, <4>0
      <4>2. \A x \in t : x <= c
        BY <3>2, <4>1
      <4>3. t \in SUBSET Int /\ t # {}
        BY <2>3
      <4>4. Max(t) \in t /\ c <= Max(t)
        BY <4>1, <4>2, <4>3, LargestBelow
      <4>5. Max(t) \in Int /\ Max(t) <= c
        BY <4>2, <4>3, <4>4
      <4> QED BY <4>1, <4>4, <4>5
    <3>4. t \ {c} \in SUBSET S /\ 0 \in t \ {c} /\ (t \ {c}) \ {0} = u \ {c}
      BY <2>3, <3>1, <3>2
    <3>5. g[t] = b[u] /\ g[t \ {c}] = b[u \ {c}]
      BY <2>3, <3>4
    <3>6. b[u] = F[c][b[u \ {c}]] /\ b[u] \in X
      BY <1>2, <1>3, <3>1
    <3> HIDE DEF g, u, c
    <3> QED BY <2>3, <3>3, <3>5, <3>6
  <2> QED BY <2>1, <2>2, <2>3
<1>5. g = [t \in SUBSET S |-> g[t]]
  OBVIOUS
<1> HIDE DEF g
<1>6. FoldingOver(g, S, e, F)
  BY <1>4, <1>5, Zenon DEF FoldingOver
<1> QED BY <1>4, <1>6

(* x is at the k-th place of p, and the rest of it is s *)
PlacedThere(p, s, x, k) ==
    /\ k \in 1..(Len(s) + 1) /\ Len(p) = Len(s) + 1
    /\ \A i \in 1..(Len(s) + 1) : p[i] = IF i < k THEN s[i] ELSE IF i = k THEN x ELSE s[i - 1]

(* It goes before the first it ranks above. *)
LEMMA PlacedAt ==
    ASSUME NEW T, NEW s \in Seq(T), NEW x \in T, NEW R
    PROVE  /\ Placed(s, x, R) \in Seq(T)
           /\ \E k : /\ PlacedThere(Placed(s, x, R), s, x, k)
                     /\ \A i \in 1..(k - 1) : <<x, s[i]>> \notin R
                     /\ k <= Len(s) => <<x, s[k]>> \in R
<1> DEFINE at0 == {i \in DOMAIN s : <<x, s[i]>> \in R} \cup {Len(s) + 1}
           k == Min(at0)
           m == Len(s)
           u == SubSeq(s, 1, k - 1)
           v == SubSeq(s, k, m)
           p == u \o <<x>> \o v
<1>1. m \in Nat /\ DOMAIN s = 1..m
  OBVIOUS
<1>2. k \in 1..(m + 1)
  BY PlaceFor
<1>3. Placed(s, x, R) = p
  BY DEF Placed, InsertAt
<1>x. k \in at0 /\ \A i \in at0 : k <= i
  <2>1. at0 \in SUBSET Nat
    <3>1. \A i \in at0 : i \in 1..m \/ i = m + 1
      BY <1>1
    <3> HIDE DEF at0
    <3> QED BY <1>1, <3>1
  <2>2. at0 # {}
    OBVIOUS
  <2> HIDE DEF at0
  <2> QED BY <2>1, <2>2, MinOf
<1>y. \A i \in 1..(k - 1) : <<x, s[i]>> \notin R
  <2> SUFFICES ASSUME NEW i \in 1..(k - 1), <<x, s[i]>> \in R PROVE FALSE
    OBVIOUS
  <2>1. i \in 1..m /\ i < k
    <3> HIDE DEF k
    <3> QED BY <1>1, <1>2
  <2>2. i \in at0
    BY <1>1, <2>1
  <2> HIDE DEF at0
  <2>3. k <= i
    BY <1>x, <2>2
  <2> HIDE DEF k
  <2> QED BY <1>1, <1>2, <2>1, <2>3
<1>z. k <= m => <<x, s[k]>> \in R
  <2> HIDE DEF k
  <2>1. k <= m => k # m + 1
    BY <1>1, <1>2
  <2> QED BY <1>x, <2>1 DEF at0
<1> HIDE DEF k
<1>4. k \in Nat /\ k - 1 \in 0..m /\ k >= 1 /\ k <= m + 1
  BY <1>1, <1>2
<1>5. u \in Seq(T) /\ Len(u) = k - 1 /\ \A i \in 1..(k - 1) : u[i] = s[i]
  <2>1. u \in Seq(T)
    BY <1>1, <1>4
  <2>2. Len(u) = k - 1
    BY <1>1, <1>4
  <2>3. \A i \in 1..(k - 1) : u[i] = s[i]
    BY <1>1, <1>4
  <2> QED BY <2>1, <2>2, <2>3
<1>6. v \in Seq(T) /\ Len(v) = m + 1 - k /\ \A i \in 1..(m + 1 - k) : v[i] = s[k + i - 1]
  <2>1. v \in Seq(T)
    BY <1>1, <1>4
  <2>2. Len(v) = m + 1 - k
    BY <1>1, <1>4
  <2>3. ASSUME NEW i \in 1..(m + 1 - k) PROVE v[i] = s[k + i - 1]
    BY <1>1, <1>4
  <2> QED BY <2>1, <2>2, <2>3
<1> HIDE DEF u, v, m
<1>7. <<x>> \in Seq(T) /\ Len(<<x>>) = 1 /\ <<x>>[1] = x
  OBVIOUS
<1> DEFINE w == u \o <<x>>
<1>8. w \in Seq(T) /\ Len(w) = k /\ (\A i \in 1..(k - 1) : w[i] = s[i]) /\ w[k] = x
  <2>1. w \in Seq(T)
    BY <1>5, <1>7
  <2>2. Len(w) = k
    BY <1>4, <1>5, <1>7
  <2>3. \A i \in 1..(k - 1) : w[i] = s[i]
    BY <1>4, <1>5, <1>7
  <2>4. w[k] = x
    BY <1>4, <1>5, <1>7
  <2> QED BY <2>1, <2>2, <2>3, <2>4
<1> HIDE DEF w
<1>9. p \in Seq(T) /\ Len(p) = m + 1
  <2>1. p = w \o v
    BY DEF w
  <2> HIDE DEF p
  <2>2. p \in Seq(T)
    BY <1>6, <1>8, <2>1
  <2>3. Len(p) = m + 1
    <3>1. Len(p) = Len(w) + Len(v)
      BY <1>6, <1>8, <2>1, JoinedLen
    <3> QED BY <1>1, <1>4, <1>6, <1>8, <3>1
  <2> QED BY <2>2, <2>3
<1>10. ASSUME NEW i \in 1..(m + 1)
       PROVE  p[i] = IF i < k THEN s[i] ELSE IF i = k THEN x ELSE s[i - 1]
  <2>0. i \in Nat /\ m \in Nat
    BY <1>1
  <2>1. p = w \o v
    BY DEF w
  <2> HIDE DEF p
  <2>2. CASE i < k
    <3>1. p[i] = w[i]
      BY <1>1, <1>4, <1>6, <1>8, <2>0, <2>1, <2>2
    <3> QED BY <1>4, <1>8, <2>0, <2>2, <3>1
  <2>3. CASE i = k
    <3>1. p[i] = w[i]
      BY <1>1, <1>4, <1>6, <1>8, <2>0, <2>1, <2>3
    <3> QED BY <1>4, <1>8, <2>0, <2>3, <3>1
  <2>4. CASE i > k
    <3>1. i - k \in 1..(m + 1 - k)
      BY <1>4, <2>0, <2>4
    <3>2. p[i] = v[i - k]
      BY <1>1, <1>4, <1>6, <1>8, <2>0, <2>1, <2>4
    <3>3. v[i - k] = s[k + (i - k) - 1]
      BY <1>6, <3>1
    <3> QED BY <1>4, <2>0, <2>4, <3>2, <3>3
  <2> QED BY <1>4, <2>0, <2>2, <2>3, <2>4
<1> HIDE DEF p
<1>11. PlacedThere(p, s, x, k)
  BY <1>2, <1>9, <1>10 DEF PlacedThere, m
<1> QED BY <1>3, <1>9, <1>11, <1>y, <1>z, Zenon DEF m

(* Nothing in it ranks above what is before it *)
InOrder(s, D) == \A i, j \in 1..Len(s) : i < j => <<s[j], s[i]>> \notin D

(* D says no more than the comparison, and is a ranking: who is not below a second, who is not
   below a third, is not below the third *)
RanksBy(D, R, S) ==
    /\ \A x, y \in S : <<x, y>> \in D => <<x, y>> \in R /\ <<y, x>> \notin R
    /\ \A x, y, z \in S : <<x, z>> \in D => <<x, y>> \in D \/ <<y, z>> \in D

MayBePlaced(s, S, x, D, R, V) ==
    IsOrderOf(s, S) /\ x \notin S /\ S \cup {x} \in SUBSET V /\ RanksBy(D, R, V) /\ InOrder(s, D)

PlacedWell(p, s, S, x, D) == IsOrderOf(p, S \cup {x}) /\ InOrder(p, D) /\ Len(p) = Len(s) + 1

(* What it is put into stays what it was, each once, in order. *)
LEMMA PlacedKeepsOrder ==
    ASSUME NEW S, NEW s, NEW x, NEW R, NEW D, NEW V, MayBePlaced(s, S, x, D, R, V)
    PROVE  PlacedWell(Placed(s, x, R), s, S, x, D)
<1>0. IsOrderOf(s, S) /\ x \notin S /\ S \cup {x} \in SUBSET V /\ RanksBy(D, R, V) /\ InOrder(s, D)
  BY DEF MayBePlaced
<1> DEFINE T == S \cup {x}
           m == Len(s)
<1>1. s \in Seq(S) /\ s \in Seq(T) /\ m \in Nat /\ DOMAIN s = 1..m
  <2>1. s \in Seq(S)
    BY <1>0 DEF IsOrderOf
  <2> QED BY <2>1, WiderSeq
<1>2. Placed(s, x, R) \in Seq(T) /\ x \in T
  BY <1>1, PlacedAt
<1>3. PICK k : /\ PlacedThere(Placed(s, x, R), s, x, k)
               /\ \A i \in 1..(k - 1) : <<x, s[i]>> \notin R
               /\ k <= m => <<x, s[k]>> \in R
  BY <1>1, <1>2, PlacedAt, Zenon
<1> DEFINE p == Placed(s, x, R)
<1> HIDE DEF p, m
<1>4. /\ k \in 1..(m + 1) /\ Len(p) = m + 1
      /\ \A i \in 1..(m + 1) : p[i] = IF i < k THEN s[i] ELSE IF i = k THEN x ELSE s[i - 1]
  BY <1>3, Zenon DEF PlacedThere, p, m
<1>5. k \in Nat /\ k - 1 \in 0..m /\ k >= 1 /\ k <= m + 1
  BY <1>1, <1>4
<1>11. DOMAIN p = 1..(m + 1)
  BY <1>1, <1>2, <1>4 DEF p
<1>12. Range(s) = S /\ \A i, j \in 1..m : s[i] \in S /\ (s[i] = s[j] => i = j)
  BY <1>0, <1>1 DEF IsOrderOf
<1>13. Range(p) = T
  <2>1. \A i \in 1..(m + 1) : p[i] \in T
    <3>1. p \in Seq(T)
      BY <1>2 DEF p
    <3> HIDE DEF T
    <3>2. \A i \in DOMAIN p : p[i] \in T
      BY <3>1
    <3> QED BY <1>11, <3>2
  <2>2. ASSUME NEW y \in T PROVE \E i \in 1..(m + 1) : p[i] = y
    <3>1. CASE y = x
      <4>1. k \in 1..(m + 1) /\ ~ (k < k)
        BY <1>4, <1>5
      <4>2. p[k] = x
        BY <1>4, <4>1
      <4> QED BY <3>1, <4>1, <4>2
    <3>2. CASE y # x
      <4>1. PICK j \in 1..m : s[j] = y
        BY <1>1, <1>12, <3>2 DEF Range
      <4>2. CASE j < k
        BY <1>1, <1>4, <1>5, <4>1, <4>2
      <4>3. CASE j >= k
        <5>1. j + 1 \in 1..(m + 1) /\ ~ (j + 1 < k) /\ j + 1 # k /\ (j + 1) - 1 = j
          BY <1>1, <1>5, <4>3
        <5>2. p[j + 1] = s[(j + 1) - 1]
          BY <1>4, <5>1
        <5> QED BY <4>1, <5>1, <5>2
      <4> QED BY <1>1, <1>5, <4>2, <4>3
    <3> QED BY <3>1, <3>2
  <2> QED BY <1>11, <2>1, <2>2 DEF Range
<1> DEFINE from(i) == IF i < k THEN i ELSE i - 1
<1>15. ASSUME NEW i \in 1..(m + 1), i # k
       PROVE  from(i) \in 1..m /\ p[i] = s[from(i)]
  <2>1. from(i) \in 1..m
    BY <1>1, <1>5, <1>15
  <2>2. p[i] = IF i < k THEN s[i] ELSE IF i = k THEN x ELSE s[i - 1]
    BY <1>4
  <2> QED BY <1>15, <2>1, <2>2
<1>16. p[k] = x
  <2>1. ~ (k < k)
    BY <1>5
  <2> QED BY <1>4, <2>1
<1>17. \A i, j \in 1..(m + 1) : i # k /\ j # k /\ i < j => from(i) < from(j)
  BY <1>1, <1>5
<1> HIDE DEF from
<1>14. ASSUME NEW i \in 1..(m + 1), NEW j \in 1..(m + 1), i < j PROVE p[i] # p[j]
  <2>1. CASE i = k
    <3>1. j # k
      BY <1>14, <1>5, <2>1
    <3> QED BY <1>0, <1>12, <1>15, <1>16, <2>1, <3>1
  <2>2. CASE j = k
    <3>1. i # k
      BY <1>14, <1>5, <2>2
    <3> QED BY <1>0, <1>12, <1>15, <1>16, <2>2, <3>1
  <2>3. CASE i # k /\ j # k
    <3>1. from(i) \in 1..m /\ from(j) \in 1..m /\ from(i) < from(j)
      BY <1>14, <1>15, <1>17, <2>3
    <3>2. from(i) # from(j)
      BY <3>1, <1>1
    <3> QED BY <1>12, <1>15, <2>3, <3>1, <3>2
  <2> QED BY <2>1, <2>2, <2>3
<1>18. IsOrderOf(p, T)
  <2>1. ASSUME NEW i \in 1..(m + 1), NEW j \in 1..(m + 1), p[i] = p[j] PROVE i = j
    <3>1. ~ (i < j) /\ ~ (j < i)
      BY <1>14, <2>1
    <3> QED BY <1>1, <3>1
  <2> QED BY <1>2, <1>11, <1>13, <2>1 DEF IsOrderOf, p
<1>19. ASSUME NEW i \in 1..(m + 1), NEW j \in 1..(m + 1), i < j PROVE <<p[j], p[i]>> \notin D
  <2>0. /\ \A a \in 1..m : s[a] \in V
        /\ x \in V
        /\ \A y, z \in V : <<y, z>> \in D => <<y, z>> \in R /\ <<z, y>> \notin R
        /\ \A y, z, w \in V : <<y, w>> \in D => <<y, z>> \in D \/ <<z, w>> \in D
        /\ \A a, b \in 1..m : a < b => <<s[b], s[a]>> \notin D
    BY <1>0, <1>12 DEF RanksBy, InOrder, m
  <2>1. CASE i = k
    <3>1. j # k /\ j > k
      BY <1>14, <1>5, <1>19, <2>1
    <3>2. from(j) \in 1..m /\ p[j] = s[from(j)] /\ from(j) >= k /\ k \in 1..m
      <4>1. from(j) \in 1..m /\ p[j] = s[from(j)]
        BY <1>15, <3>1
      <4>2. from(j) >= k /\ k \in 1..m
        BY <1>1, <1>5, <3>1 DEF from
      <4> QED BY <4>1, <4>2
    <3>3. <<x, s[k]>> \in R
      <4>1. k <= m
        BY <3>2
      <4> QED BY <1>3, <4>1
    <3>4. <<s[k], x>> \notin D
      BY <2>0, <3>2, <3>3
    <3>5. <<s[from(j)], s[k]>> \notin D
      <4>1. CASE from(j) = k
        <5>1. \A y \in V : <<y, y>> \notin D
          BY <2>0
        <5> QED BY <2>0, <3>2, <4>1, <5>1
      <4>2. CASE from(j) > k
        BY <2>0, <3>2, <4>2
      <4> QED BY <1>1, <1>5, <3>2, <4>1, <4>2
    <3> QED BY <1>16, <2>0, <2>1, <3>2, <3>4, <3>5
  <2>2. CASE j = k
    <3>1. i # k /\ i \in 1..(k - 1)
      BY <1>5, <1>19, <2>2
    <3>2. p[i] = s[i] /\ i \in 1..m
      BY <1>1, <1>4, <1>5, <3>1
    <3>3. <<x, s[i]>> \notin R
      BY <1>3, <3>1
    <3> QED BY <1>16, <2>0, <2>2, <3>2, <3>3
  <2>3. CASE i # k /\ j # k
    <3>1. from(i) \in 1..m /\ from(j) \in 1..m /\ from(i) < from(j)
      BY <1>15, <1>17, <1>19, <2>3
    <3> QED BY <1>15, <2>0, <2>3, <3>1
  <2> QED BY <2>1, <2>2, <2>3
<1>20. InOrder(p, D)
  BY <1>4, <1>19 DEF InOrder
<1> QED BY <1>4, <1>18, <1>20 DEF p, m, PlacedWell

(* sort_by: nothing is lost and nothing comes twice, whatever the comparison says, and it is in
   order by every ranking the comparison refines. *)
LEMMA ArrangedInOrder ==
    ASSUME NEW n \in Nat, NEW S \in SUBSET (0..n), NEW R, NEW D, RanksBy(D, R, S)
    PROVE  /\ IsOrderOf(Arranged(S, R), S)
           /\ InOrder(Arranged(S, R), D)
           /\ Len(Arranged(S, R)) <= n + 1
<1> DEFINE It == CHOOSE g : g = [t \in SUBSET S |->
                                  IF t = {} THEN <<>> ELSE Placed(g[t \ {Max(t)}], Max(t), R)]
<1>1. Arranged(S, R) = It[S]
  BY DEF Arranged, MapThenFoldSet
<1>2. \E g : g = [t \in SUBSET S |-> IF t = {} THEN <<>> ELSE Placed(g[t \ {Max(t)}], Max(t), R)]
  <2> DEFINE Y == Seq(0..n)
             F == [k \in 0..n |-> [x \in Y |-> Placed(x, k, R)]]
  <2>1. \A k \in 0..n : \A x \in Y : F[k][x] = Placed(x, k, R) /\ F[k][x] \in Y
    <3> SUFFICES ASSUME NEW k \in 0..n, NEW x \in Y PROVE Placed(x, k, R) \in Y
      OBVIOUS
    <3> QED BY PlacedAt
  <2> HIDE DEF F
  <2>2. PICK g : FoldingOver(g, S, <<>>, F) /\ \A t \in SUBSET S : g[t] \in Y
    <3>1. \A k \in 0..n : \A x \in Y : F[k][x] \in Y
      BY <2>1
    <3>2. <<>> \in Y
      OBVIOUS
    <3> HIDE DEF Y
    <3> QED BY <3>1, <3>2, FoldsFromZero
  <2>3. ASSUME NEW t \in SUBSET S, t # {}
        PROVE  F[Max(t)][g[t \ {Max(t)}]] = Placed(g[t \ {Max(t)}], Max(t), R)
    <3>1. Max(t) \in 0..n
      <4>1. t \in SUBSET Int /\ n \in Int /\ \A x \in t : x <= n
        OBVIOUS
      <4>2. Max(t) \in t
        BY <2>3, <4>1, LargestBelow
      <4> QED BY <4>2
    <3>2. g[t \ {Max(t)}] \in Y
      BY <2>2
    <3> QED BY <2>1, <3>1, <3>2
  <2>4. g = [t \in SUBSET S |-> IF t = {} THEN <<>> ELSE Placed(g[t \ {Max(t)}], Max(t), R)]
    BY <2>2, <2>3, Zenon DEF FoldingOver
  <2> QED BY <2>4
<1>3. It = [t \in SUBSET S |-> IF t = {} THEN <<>> ELSE Placed(It[t \ {Max(t)}], Max(t), R)]
  BY <1>2
<1> HIDE DEF It
<1>4. \A t \in SUBSET S : It[t] = IF t = {} THEN <<>> ELSE Placed(It[t \ {Max(t)}], Max(t), R)
  BY <1>3, Zenon
<1> DEFINE Done(s, t, k) == IsOrderOf(s, t) /\ InOrder(s, D) /\ Len(s) <= k
           K == {k \in 0..(n + 1) : \A t \in SUBSET S : t \subseteq 0..(k - 1) => Done(It[t], t, k)}
<1>5. 0 \in K
  <2>0. 0..(0 - 1) = {} /\ 0 \in 0..(n + 1)
    OBVIOUS
  <2>1. ASSUME NEW t \in SUBSET S, t \subseteq 0..(0 - 1) PROVE Done(It[t], t, 0)
    <3>1. t = {}
      BY <2>0, <2>1, Zenon
    <3>2. It[t] = <<>>
      BY <1>4, <3>1
    <3> QED BY <3>1, <3>2 DEF IsOrderOf, Range, InOrder
  <2> QED BY <2>0, <2>1, Zenon
<1>6. ASSUME NEW k \in 1..(n + 1), k - 1 \in K PROVE k \in K
  <2> SUFFICES ASSUME NEW t \in SUBSET S, t \subseteq 0..(k - 1) PROVE Done(It[t], t, k)
    OBVIOUS
  <2>0. \A u \in SUBSET S : u \subseteq 0..((k - 1) - 1) => Done(It[u], u, k - 1)
    BY <1>6, Zenon
  <2>1. CASE k - 1 \notin t
    <3>1. t \subseteq 0..((k - 1) - 1)
      BY <2>1
    <3>2. Done(It[t], t, k - 1)
      BY <2>0, <3>1
    <3>3. Len(It[t]) \in Nat
      BY <3>2 DEF IsOrderOf
    <3> QED BY <3>2, <3>3
  <2>2. CASE k - 1 \in t
    <3>1. Max(t) = k - 1
      <4>1. t \in SUBSET Int /\ n \in Int /\ \A x \in t : x <= n
        OBVIOUS
      <4>2. Max(t) \in t /\ k - 1 <= Max(t)
        BY <2>2, <4>1, LargestBelow
      <4>3. Max(t) \in 0..(k - 1)
        BY <4>2, Zenon
      <4> QED BY <4>2, <4>3
    <3> DEFINE u == t \ {k - 1}
    <3>2. u \subseteq 0..((k - 1) - 1) /\ u \in SUBSET S /\ k - 1 \notin u /\ u \cup {k - 1} = t
      BY <2>2
    <3>3. It[t] = Placed(It[u], k - 1, R)
      BY <1>4, <2>2, <3>1
    <3>4. Done(It[u], u, k - 1)
      BY <2>0, <3>2
    <3> HIDE DEF u
    <3>5. /\ IsOrderOf(Placed(It[u], k - 1, R), u \cup {k - 1})
          /\ InOrder(Placed(It[u], k - 1, R), D)
          /\ Len(Placed(It[u], k - 1, R)) = Len(It[u]) + 1
      <4> DEFINE x == k - 1
                 s == It[u]
      <4>1. u \cup {x} \in SUBSET S /\ x \notin u
        BY <3>2
      <4>2. IsOrderOf(s, u) /\ InOrder(s, D)
        BY <3>4
      <4> HIDE DEF x, s
      <4>3. MayBePlaced(s, u, x, D, R, S)
        BY <4>1, <4>2 DEF MayBePlaced
      <4>4. PlacedWell(Placed(s, x, R), s, u, x, D)
        BY <4>3, PlacedKeepsOrder, Zenon
      <4> QED BY <4>4 DEF x, s, PlacedWell
    <3>6. Len(It[u]) \in Nat /\ Len(It[u]) <= k - 1
      BY <3>4 DEF IsOrderOf
    <3>7. Len(It[u]) + 1 <= k
      BY <3>6
    <3> QED BY <3>2, <3>3, <3>5, <3>7
  <2> QED BY <2>1, <2>2
<1>7. n + 1 \in K
  <2> HIDE DEF K
  <2>1. n + 1 \in Nat /\ n + 1 \in 0..(n + 1)
    OBVIOUS
  <2>2. \A k \in 0..(n + 1) : k \in K
    BY <1>5, <1>6, <2>1, StepsUp
  <2> QED BY <2>1, <2>2
<1>8. Done(It[S], S, n + 1)
  BY <1>7
<1> QED BY <1>1, <1>8

(* ... and in particular when the comparison is no ranking. *)
LEMMA ArrangedIs ==
    ASSUME NEW n \in Nat, NEW S \in SUBSET (1..n), NEW R
    PROVE  IsOrderOf(Arranged(S, R), S)
<1>1. S \in SUBSET (0..n) /\ RanksBy({}, R, S)
  BY DEF RanksBy
<1> QED BY <1>1, ArrangedInOrder

-----------------------------------------------------------------------------
(* Summing: whatever order the members are taken in *)

(* h sums f over every part of A, the largest place first *)
Summing(h, f, A) ==
    \A t \in SUBSET A : /\ h[t] \in Nat
                        /\ h[t] = IF t = {} THEN 0 ELSE f[Max(t)] + h[t \ {Max(t)}]

(* `Sum` is what summing every part comes to. *)
LEMMA SumOver ==
    ASSUME NEW n \in Nat, NEW f \in [1..n -> Nat], NEW A \in SUBSET (1..n)
    PROVE  \E h : Summing(h, f, A) /\ h[A] = Sum(Restrict(f, A))
<1> DEFINE r == Restrict(f, A)
           It == CHOOSE g : g = [t \in SUBSET A |->
                                  IF t = {} THEN 0 ELSE r[Max(t)] + g[t \ {Max(t)}]]
<1>1. DOMAIN r = A /\ \A i \in A : r[i] = f[i] /\ f[i] \in Nat
  BY DEF Restrict
<1>2. Sum(r) = It[A]
  BY <1>1 DEF Sum, MapThenFoldSet
<1> HIDE DEF r
<1>3. \E g : /\ g = [t \in SUBSET A |-> IF t = {} THEN 0 ELSE r[Max(t)] + g[t \ {Max(t)}]]
             /\ \A t \in SUBSET A : g[t] \in Nat
  <2> DEFINE F == [k \in 1..n |-> [x \in Nat |-> IF k \in A THEN r[k] + x ELSE 0]]
  <2>1. \A k \in 1..n : \A x \in Nat : F[k][x] \in Nat /\ (k \in A => F[k][x] = r[k] + x)
    BY <1>1
  <2> HIDE DEF F
  <2>2. PICK g : FoldingOver(g, A, 0, F) /\ \A t \in SUBSET A : g[t] \in Nat
    <3>1. \A k \in 1..n : \A x \in Nat : F[k][x] \in Nat
      BY <2>1
    <3> QED BY <3>1, FoldsOver
  <2>3. ASSUME NEW t \in SUBSET A, t # {}
        PROVE  F[Max(t)][g[t \ {Max(t)}]] = r[Max(t)] + g[t \ {Max(t)}]
    <3>1. Max(t) \in 1..n /\ Max(t) \in A
      BY <2>3, LargestOf
    <3>2. g[t \ {Max(t)}] \in Nat
      BY <2>2
    <3> QED BY <2>1, <3>1, <3>2
  <2>4. g = [t \in SUBSET A |-> IF t = {} THEN 0 ELSE r[Max(t)] + g[t \ {Max(t)}]]
    BY <2>2, <2>3, Zenon DEF FoldingOver
  <2> QED BY <2>2, <2>4
<1>4. It = [t \in SUBSET A |-> IF t = {} THEN 0 ELSE r[Max(t)] + It[t \ {Max(t)}]]
  BY <1>3
<1> HIDE DEF It
<1>5. \A t \in SUBSET A : It[t] = IF t = {} THEN 0 ELSE r[Max(t)] + It[t \ {Max(t)}]
  BY <1>4, Zenon
<1>6. \A k \in 0..n : \A t \in SUBSET A : t \subseteq 1..k => It[t] \in Nat
  <2> DEFINE K == {k \in 0..n : \A t \in SUBSET A : t \subseteq 1..k => It[t] \in Nat}
  <2>1. 0 \in K
    <3>1. 1..0 = {} /\ 0 \in 0..n /\ 0 \in Nat
      OBVIOUS
    <3>2. It[{}] = 0
      BY <1>5
    <3>3. ASSUME NEW t \in SUBSET A, t \subseteq 1..0 PROVE It[t] \in Nat
      <4>1. t = {}
        BY <3>1, <3>3, Zenon
      <4> QED BY <3>1, <3>2, <4>1
    <3> QED BY <3>1, <3>3, Zenon
  <2>2. ASSUME NEW k \in 1..n, k - 1 \in K PROVE k \in K
    <3>0. k \in 0..n
      OBVIOUS
    <3> SUFFICES ASSUME NEW t \in SUBSET A, t \subseteq 1..k PROVE It[t] \in Nat
      BY <3>0, Zenon
    <3>1. \A u \in SUBSET A : u \subseteq 1..(k - 1) => It[u] \in Nat
      BY <2>2, Zenon
    <3>2. CASE t = {}
      <4>1. It[t] = 0
        BY <1>5, <3>2, Zenon
      <4> QED BY <4>1
    <3>3. CASE t # {}
      <4>1. /\ Max(t) \in t /\ \A y \in t : y <= Max(t)
            /\ t \ {Max(t)} \in SUBSET A
        BY <3>3, LargestOf
      <4>2. Max(t) \in 1..k
        BY <4>1, Zenon
      <4>3. t \ {Max(t)} \subseteq 1..(k - 1)
        <5>1. ASSUME NEW y \in t, y # Max(t) PROVE y \in 1..(k - 1)
          <6>1. y \in 1..k /\ y <= Max(t)
            BY <4>1
          <6> QED BY <4>2, <5>1, <6>1
        <5> QED BY <5>1
      <4>4. It[t \ {Max(t)}] \in Nat /\ r[Max(t)] \in Nat
        BY <1>1, <3>1, <4>1, <4>3
      <4>5. It[t] = r[Max(t)] + It[t \ {Max(t)}]
        BY <1>5, <3>3
      <4> QED BY <4>4, <4>5
    <3> QED BY <3>2, <3>3
  <2>3. \A k \in 0..n : k \in K
    <3> HIDE DEF K
    <3> QED BY <2>1, <2>2, StepsUp
  <2> QED BY <2>3
<1>7. ASSUME NEW t \in SUBSET A
      PROVE  /\ It[t] \in Nat
             /\ It[t] = IF t = {} THEN 0 ELSE f[Max(t)] + It[t \ {Max(t)}]
  <2>1. It[t] \in Nat
    <3>1. n \in 0..n /\ t \subseteq 1..n
      OBVIOUS
    <3> QED BY <1>6, <3>1
  <2>2. t # {} => r[Max(t)] = f[Max(t)]
    <3>1. t # {} => Max(t) \in t
      BY LargestOf
    <3> QED BY <1>1, <3>1
  <2> QED BY <1>5, <2>1, <2>2
<1> QED BY <1>2, <1>7 DEF Summing, r

SameSum(h, g, A) == h[A] = g[A]

TakenFirst(h, f, B, y) == h[B] = f[y] + h[B \ {y}]

(* Two sums agree on what both are over. *)
LEMMA SumsAgree ==
    ASSUME NEW n, NEW f, NEW B, NEW A, NEW h, NEW g, n \in Nat, B \in SUBSET (1..n), A \in SUBSET B,
           Summing(h, f, A), Summing(g, f, B)
    PROVE  SameSum(h, g, A)
<1> DEFINE K == {k \in 0..n : \A t \in SUBSET A : t \subseteq 1..k => h[t] = g[t]}
<1>0. \A t \in SUBSET A : t \in SUBSET B
  OBVIOUS
<1>1. 0 \in K
  <2>1. 1..0 = {} /\ 0 \in 0..n
    OBVIOUS
  <2>2. h[{}] = g[{}]
    BY DEF Summing
  <2>3. ASSUME NEW t \in SUBSET A, t \subseteq 1..0 PROVE h[t] = g[t]
    <3>1. t = {}
      BY <2>1, <2>3, Zenon
    <3> QED BY <2>2, <3>1
  <2> QED BY <2>1, <2>3, Zenon
<1>2. ASSUME NEW k \in 1..n, k - 1 \in K PROVE k \in K
  <2> SUFFICES ASSUME NEW t \in SUBSET A, t \subseteq 1..k PROVE h[t] = g[t]
    OBVIOUS
  <2>1. \A u \in SUBSET A : u \subseteq 1..(k - 1) => h[u] = g[u]
    BY <1>2, Zenon
  <2>2. CASE t = {}
    BY <1>0, <2>2 DEF Summing
  <2>3. CASE t # {}
    <3>1. Max(t) \in t /\ (\A y \in t : y <= Max(t)) /\ t \ {Max(t)} \in SUBSET A
      BY <2>3, LargestOf
    <3>2. Max(t) \in 1..k
      BY <3>1, Zenon
    <3>3. t \ {Max(t)} \subseteq 1..(k - 1)
      <4>1. ASSUME NEW y \in t, y # Max(t) PROVE y \in 1..(k - 1)
        <5>1. y \in 1..k /\ y <= Max(t)
          BY <3>1
        <5> QED BY <3>2, <4>1, <5>1
      <4> QED BY <4>1
    <3>4. h[t \ {Max(t)}] = g[t \ {Max(t)}]
      BY <2>1, <3>1, <3>3
    <3>5. /\ h[t] = f[Max(t)] + h[t \ {Max(t)}]
          /\ g[t] = f[Max(t)] + g[t \ {Max(t)}]
      BY <1>0, <2>3 DEF Summing
    <3> QED BY <3>4, <3>5
  <2> QED BY <2>2, <2>3
<1>3. \A k \in 0..n : k \in K
  <2> HIDE DEF K
  <2> QED BY <1>1, <1>2, StepsUp
<1>4. n \in 0..n /\ A \subseteq 1..n /\ A \in SUBSET A
  OBVIOUS
<1> QED BY <1>3, <1>4 DEF SameSum

(* Any member may be taken first. *)
LEMMA AnyFirst ==
    ASSUME NEW n, NEW f, NEW B, NEW h, NEW y, n \in Nat, f \in [1..n -> Nat], B \in SUBSET (1..n),
           Summing(h, f, B), y \in B
    PROVE  TakenFirst(h, f, B, y)
<1> DEFINE K == {k \in 0..n : \A t \in SUBSET B : t \subseteq 1..k =>
                                 \A z \in t : h[t] = f[z] + h[t \ {z}]}
<1>1. 0 \in K
  <2>1. 1..0 = {} /\ 0 \in 0..n
    OBVIOUS
  <2> QED BY <2>1, Zenon
<1>2. ASSUME NEW k \in 1..n, k - 1 \in K PROVE k \in K
  <2>0. k \in 0..n
    OBVIOUS
  <2> SUFFICES ASSUME NEW t \in SUBSET B, t \subseteq 1..k, NEW z \in t
               PROVE  h[t] = f[z] + h[t \ {z}]
    BY <2>0, Zenon
  <2>1. \A u \in SUBSET B : u \subseteq 1..(k - 1) => \A w \in u : h[u] = f[w] + h[u \ {w}]
    BY <1>2, Zenon
  <2> DEFINE c == Max(t)
  <2>2. c \in t /\ (\A w \in t : w <= c) /\ t \in SUBSET (1..n)
    BY LargestOf
  <2> HIDE DEF c
  <2>3. c \in 1..k
    BY <2>2, Zenon
  <2>4. t \ {c} \subseteq 1..(k - 1)
    <3>1. ASSUME NEW w \in t, w # c PROVE w \in 1..(k - 1)
      <4>1. w \in 1..k /\ w <= c
        BY <2>2
      <4> QED BY <2>3, <3>1, <4>1
    <3> QED BY <3>1
  <2>5. h[t] = f[c] + h[t \ {c}]
    BY DEF Summing, c
  <2>6. CASE z = c
    BY <2>5, <2>6
  <2>7. CASE z # c
    <3>1. t \ {c} \in SUBSET B /\ z \in t \ {c}
      BY <2>7
    <3>2. h[t \ {c}] = f[z] + h[(t \ {c}) \ {z}]
      BY <2>1, <2>4, <3>1
    <3>3. Max(t \ {z}) = c
      <4>1. t \ {z} \in SUBSET (1..n) /\ t \ {z} # {} /\ c \in t \ {z}
        BY <2>2, <2>7
      <4>2. Max(t \ {z}) \in t \ {z} /\ c <= Max(t \ {z})
        BY <4>1, LargestOf
      <4>3. Max(t \ {z}) <= c /\ Max(t \ {z}) \in 1..n
        BY <2>2, <4>1, <4>2
      <4> QED BY <2>3, <4>2, <4>3
    <3>4. h[t \ {z}] = f[c] + h[(t \ {z}) \ {c}]
      <4>1. t \ {z} \in SUBSET B /\ t \ {z} # {}
        BY <2>2, <2>7
      <4> QED BY <3>3, <4>1 DEF Summing
    <3>5. (t \ {z}) \ {c} = (t \ {c}) \ {z} /\ (t \ {z}) \ {c} \in SUBSET B
      OBVIOUS
    <3>6. h[(t \ {c}) \ {z}] \in Nat /\ f[c] \in Nat /\ f[z] \in Nat
      <4>1. c \in 1..n /\ z \in 1..n
        BY <2>2
      <4>2. h[(t \ {c}) \ {z}] \in Nat
        BY <3>5 DEF Summing
      <4> QED BY <4>1, <4>2
    <3>7. h[t \ {z}] = f[c] + h[(t \ {c}) \ {z}] /\ h[t] = f[c] + (f[z] + h[(t \ {c}) \ {z}])
      BY <2>5, <3>2, <3>4, <3>5, Zenon
    <3>8. \A i, j, k1 \in Nat : i + (j + k1) = j + (i + k1)
      OBVIOUS
    <3>9. f[c] + (f[z] + h[(t \ {c}) \ {z}]) = f[z] + (f[c] + h[(t \ {c}) \ {z}])
      BY <3>6, <3>8, Zenon
    <3> QED BY <3>7, <3>9, Zenon
  <2> QED BY <2>6, <2>7
<1>3. \A k \in 0..n : k \in K
  <2> HIDE DEF K
  <2> QED BY <1>1, <1>2, StepsUp
<1>4. n \in 0..n /\ B \subseteq 1..n /\ B \in SUBSET B
  OBVIOUS
<1> QED BY <1>3, <1>4 DEF TakenFirst

OneMoreSummed(f, A, y) ==
    /\ Sum(Restrict(f, A)) \in Nat
    /\ Sum(Restrict(f, A \cup {y})) = Sum(Restrict(f, A)) + f[y]

(* A memory more costs what it costs. *)
LEMMA SumOfMore ==
    ASSUME NEW n, NEW f, NEW A, NEW y, n \in Nat, f \in [1..n -> Nat], A \in SUBSET (1..n),
           y \in 1..n, y \notin A
    PROVE  OneMoreSummed(f, A, y)
<1> DEFINE B == A \cup {y}
<1>0. B \in SUBSET (1..n) /\ A \in SUBSET B /\ B \ {y} = A /\ y \in B
  OBVIOUS
<1> HIDE DEF B
<1>1. PICK h : Summing(h, f, A) /\ h[A] = Sum(Restrict(f, A))
  BY SumOver
<1>2. PICK g : Summing(g, f, B) /\ g[B] = Sum(Restrict(f, B))
  BY <1>0, SumOver
<1>3. h[A] = g[A]
  <2>1. Summing(h, f, A) /\ Summing(g, f, B)
    BY <1>1, <1>2
  <2>2. SameSum(h, g, A)
    BY <1>0, <2>1, SumsAgree, Zenon
  <2> QED BY <2>2 DEF SameSum
<1>4. g[B] = f[y] + g[A]
  <2>1. Summing(g, f, B)
    BY <1>2
  <2>2. TakenFirst(g, f, B, y)
    BY <1>0, <2>1, AnyFirst, Zenon
  <2> QED BY <1>0, <2>2 DEF TakenFirst
<1>5. h[A] \in Nat /\ f[y] \in Nat
  BY <1>1 DEF Summing
<1>6. Sum(Restrict(f, B)) = Sum(Restrict(f, A)) + f[y]
  BY <1>1, <1>2, <1>3, <1>4, <1>5
<1> QED BY <1>1, <1>5, <1>6 DEF B, OneMoreSummed

(* Nothing costs nothing. *)
LEMMA SumOfNone == ASSUME NEW n \in Nat, NEW f \in [1..n -> Nat] PROVE Sum(Restrict(f, {})) = 0
<1>1. PICK h : Summing(h, f, {}) /\ h[{}] = Sum(Restrict(f, {}))
  BY SumOver
<1> QED BY <1>1 DEF Summing

-----------------------------------------------------------------------------
(* The answer: what is taken of an order, and what of that fits *)

(* A sequence over a part is one over the whole, and takes its members from there. *)
LEMMA TakenFrom == ASSUME NEW T, NEW s \in Seq(T) PROVE \A x \in Range(s) : x \in T
<1>1. \A i \in DOMAIN s : s[i] \in T
  OBVIOUS
<1> QED BY <1>1, Zenon DEF Range

(* q is s up to some place *)
StartOf(q, s) == Len(q) <= Len(s) /\ \A i \in 1..Len(q) : q[i] = s[i]

(* The first k of a sequence, or all of it *)
LEMMA TakeIs ==
    ASSUME NEW T, NEW s \in Seq(T), NEW k \in Nat
    PROVE  /\ Take(s, k) \in Seq(T)
           /\ StartOf(Take(s, k), s)
           /\ k # 0 /\ s # <<>> => Take(s, k) # <<>>
<1> DEFINE m == Min({k, Len(s)})
<1>0. Len(s) \in Nat
  OBVIOUS
<1>1. m \in {k, Len(s)} /\ \A x \in {k, Len(s)} : m <= x
  <2>1. {k, Len(s)} \in SUBSET Nat /\ {k, Len(s)} # {}
    BY <1>0
  <2> QED BY <2>1, MinOf
<1>2. Take(s, k) = SubSeq(s, 1, m)
  BY DEF Take
<1> HIDE DEF m
<1>3. m \in 0..Len(s) /\ m \in Nat
  BY <1>0, <1>1
<1>4. SubSeq(s, 1, m) \in Seq(T) /\ Len(SubSeq(s, 1, m)) = m
  BY <1>3
<1>5. \A i \in 1..m : SubSeq(s, 1, m)[i] = s[i]
  BY <1>3
<1>6. k # 0 /\ s # <<>> => m # 0
  BY <1>0, <1>1
<1>7. StartOf(Take(s, k), s)
  BY <1>0, <1>2, <1>3, <1>4, <1>5 DEF StartOf
<1> QED BY <1>2, <1>4, <1>6, <1>7

(* One step of filling the budget *)
AddOne(acc, i, costs) ==
    IF acc.full \/ acc.tokens + costs[i] > MaxTokens THEN [acc EXCEPT !.full = TRUE]
    ELSE [acc EXCEPT !.tokens = @ + costs[i], !.injected = Append(@, i)]

Fillings(n) == [injected : Seq(1..n), tokens : Nat, full : BOOLEAN]

(* What the budget holds of the first k of q: a start of it that costs what it costs, and if
   anything was left out, the next did not fit *)
FilledTo(a, q, f, k) ==
    /\ Len(a.injected) <= k
    /\ \A i \in 1..Len(a.injected) : a.injected[i] = q[i]
    /\ a.tokens = Sum(Restrict(f, Range(a.injected)))
    /\ a.tokens <= MaxTokens
    /\ ~a.full => Len(a.injected) = k
    /\ a.full => Len(a.injected) < k /\ f[q[Len(a.injected) + 1]] + a.tokens > MaxTokens

(* A memory that fits is taken, and the first that does not ends it. *)
LEMMA AddOneFits ==
    ASSUME NEW n \in Nat, NEW q, NEW m \in Nat, q \in Seq(1..n), Len(q) = m,
           \A i, j \in 1..m : q[i] = q[j] => i = j,
           NEW f \in [1..n -> Nat], NEW k \in 1..m, NEW a \in Fillings(n), FilledTo(a, q, f, k - 1)
    PROVE  FilledTo(AddOne(a, q[k], f), q, f, k)
<1> DEFINE l == Len(a.injected)
           b == AddOne(a, q[k], f)
<1>0. MaxTokens \in Nat
  BY PoolsAssumption
<1>1. /\ a.injected \in Seq(1..n) /\ a.tokens \in Nat /\ a.full \in BOOLEAN
      /\ l \in Nat
  BY DEF Fillings
<1>2. q[k] \in 1..n /\ f[q[k]] \in Nat
  <2>1. q[k] \in 1..n
    OBVIOUS
  <2> QED BY <2>1
<1>3. /\ l <= k - 1 /\ (\A i \in 1..l : a.injected[i] = q[i])
      /\ a.tokens = Sum(Restrict(f, Range(a.injected))) /\ a.tokens <= MaxTokens
      /\ (~a.full => l = k - 1)
      /\ (a.full => l < k - 1 /\ f[q[l + 1]] + a.tokens > MaxTokens)
  BY DEF FilledTo
<1>b. AddOne(a, q[k], f) = b
  OBVIOUS
<1> SUFFICES FilledTo(b, q, f, k)
  BY <1>b
<1>4. CASE a.full
  <2>1. b.injected = a.injected /\ b.tokens = a.tokens /\ b.full = TRUE
    BY <1>4 DEF AddOne, Fillings
  <2> HIDE DEF b
  <2>2. l <= k /\ l < k
    <3> HIDE DEF l
    <3>1. l \in Nat /\ l < k - 1 /\ k \in Nat
      BY <1>1, <1>3, <1>4
    <3> QED BY <3>1
  <2> QED BY <1>3, <1>4, <2>1, <2>2, Zenon DEF FilledTo
<1>5. CASE ~a.full /\ a.tokens + f[q[k]] > MaxTokens
  <2>1. b.injected = a.injected /\ b.tokens = a.tokens /\ b.full = TRUE
    BY <1>5 DEF AddOne, Fillings
  <2> HIDE DEF b
  <2>2. l = k - 1 /\ l <= k /\ l < k /\ l + 1 = k
    <3>1. l = k - 1
      BY <1>3, <1>5, Zenon
    <3> HIDE DEF l
    <3> QED BY <3>1
  <2>3. f[q[l + 1]] + a.tokens > MaxTokens
    BY <1>1, <1>2, <1>5, <2>2
  <2> QED BY <1>3, <2>1, <2>2, <2>3, Zenon DEF FilledTo
<1>6. CASE ~a.full /\ ~(a.tokens + f[q[k]] > MaxTokens)
  <2> DEFINE w == Append(a.injected, q[k])
  <2>1. b.injected = w /\ b.tokens = a.tokens + f[q[k]] /\ b.full = a.full
    BY <1>6 DEF AddOne, Fillings
  <2> HIDE DEF b
  <2>2. l = k - 1
    BY <1>3, <1>6
  <2>3. /\ Len(w) = k /\ w[k] = q[k] /\ \A i \in 1..(k - 1) : w[i] = a.injected[i]
        /\ DOMAIN w = 1..k
    BY <1>1, <1>2, <2>2
  <2>4. \A i \in 1..k : w[i] = q[i]
    <3>1. \A i \in 1..k : i = k \/ i \in 1..(k - 1)
      OBVIOUS
    <3> QED BY <1>3, <2>2, <2>3, <3>1
  <2>5. Range(w) = Range(a.injected) \cup {q[k]} /\ q[k] \notin Range(a.injected)
    <3>1. DOMAIN a.injected = 1..(k - 1)
      BY <1>1, <2>2
    <3>2. \A i \in 1..k : i = k \/ i \in 1..(k - 1)
      OBVIOUS
    <3>3. k \in 1..k /\ \A i \in 1..(k - 1) : i \in 1..k
      OBVIOUS
    <3>4. Range(w) = Range(a.injected) \cup {q[k]}
      <4> HIDE DEF w
      <4>1. ASSUME NEW y \in Range(w) PROVE y \in Range(a.injected) \cup {q[k]}
        <5>1. PICK i \in 1..k : y = w[i]
          BY <2>3, Zenon DEF Range
        <5>2. CASE i = k
          BY <2>3, <5>1, <5>2
        <5>3. CASE i \in 1..(k - 1)
          BY <2>3, <3>1, <5>1, <5>3, Zenon DEF Range
        <5> QED BY <3>2, <5>2, <5>3
      <4>2. q[k] \in Range(w)
        BY <2>3, <3>3, Zenon DEF Range
      <4>3. ASSUME NEW y \in Range(a.injected) PROVE y \in Range(w)
        <5>1. PICK i \in 1..(k - 1) : y = a.injected[i]
          BY <3>1, Zenon DEF Range
        <5> QED BY <2>3, <3>3, <5>1, Zenon DEF Range
      <4> QED BY <4>1, <4>2, <4>3
    <3>5. q[k] \notin Range(a.injected)
      <4> SUFFICES ASSUME NEW i \in 1..(k - 1), a.injected[i] = q[k] PROVE FALSE
        BY <3>1, Zenon DEF Range
      <4>0. i \in 1..l
        BY <2>2
      <4>1. q[i] = q[k] /\ i \in 1..m /\ k \in 1..m
        <5>1. a.injected[i] = q[i]
          BY <1>3, <4>0, Zenon
        <5>2. i \in 1..m
          OBVIOUS
        <5> QED BY <5>1, <5>2
      <4>2. i = k
        BY <4>1
      <4> QED BY <4>2
    <3> QED BY <3>4, <3>5
  <2> HIDE DEF w
  <2>6. Range(a.injected) \in SUBSET (1..n)
    <3>1. \A x \in Range(a.injected) : x \in 1..n
      BY <1>1, TakenFrom
    <3> QED BY <3>1
  <2>7. Sum(Restrict(f, Range(w))) = Sum(Restrict(f, Range(a.injected))) + f[q[k]]
    <3>1. Sum(Restrict(f, Range(a.injected) \cup {q[k]})) = Sum(Restrict(f, Range(a.injected))) + f[q[k]]
      <4> DEFINE A == Range(a.injected)
                 y == q[k]
      <4>1. A \in SUBSET (1..n) /\ y \in 1..n /\ y \notin A
        BY <1>2, <2>5, <2>6
      <4> HIDE DEF A, y
      <4>2. OneMoreSummed(f, A, y)
        BY <4>1, SumOfMore, Zenon
      <4> QED BY <4>2 DEF A, y, OneMoreSummed
    <3> QED BY <2>5, <3>1
  <2>8. b.tokens <= MaxTokens
    BY <1>0, <1>1, <1>2, <1>6, <2>1
  <2>9. b.tokens = Sum(Restrict(f, Range(b.injected)))
    BY <1>3, <2>1, <2>7
  <2>10. Len(b.injected) = k /\ k <= k /\ \A i \in 1..Len(b.injected) : b.injected[i] = q[i]
    BY <2>1, <2>3, <2>4
  <2>11. ~b.full
    BY <1>6, <2>1
  <2> HIDE DEF l
  <2> QED BY <2>8, <2>9, <2>10, <2>11, Zenon DEF FilledTo
<1> QED BY <1>4, <1>5, <1>6

(* Whole memories in their order while they fit: what `Fill` comes to *)
LEMMA FillHolds ==
    ASSUME NEW n \in Nat, NEW q, NEW m \in Nat, q \in Seq(1..n), Len(q) = m,
           \A i, j \in 1..m : q[i] = q[j] => i = j, NEW f \in [1..n -> Nat]
    PROVE  Fill(q, f) \in Fillings(n) /\ FilledTo(Fill(q, f), q, f, m)
<1> DEFINE e == [injected |-> <<>>, tokens |-> 0, full |-> FALSE]
           It == CHOOSE g : g = [t \in SUBSET DOMAIN q |->
                                  IF t = {} THEN e ELSE AddOne(g[t \ {Max(t)}], q[Max(t)], f)]
<1>0. DOMAIN q = 1..m /\ MaxTokens \in Nat
  BY PoolsAssumption
<1>1. Fill(q, f) = It[DOMAIN q]
  BY DEF Fill, FoldLeft, MapThenFoldSet, AddOne
<1>2. \E g : g = [t \in SUBSET DOMAIN q |->
                    IF t = {} THEN e ELSE AddOne(g[t \ {Max(t)}], q[Max(t)], f)]
  <2> DEFINE F == [k \in 1..m |-> [x \in Fillings(n) |-> AddOne(x, q[k], f)]]
  <2>1. \A k \in 1..m : \A x \in Fillings(n) : F[k][x] = AddOne(x, q[k], f) /\ F[k][x] \in Fillings(n)
    <3> SUFFICES ASSUME NEW k \in 1..m, NEW x \in Fillings(n) PROVE AddOne(x, q[k], f) \in Fillings(n)
      OBVIOUS
    <3>1. q[k] \in 1..n
      OBVIOUS
    <3>2. f[q[k]] \in Nat
      BY <3>1
    <3>3. x.injected \in Seq(1..n) /\ x.tokens \in Nat
      BY DEF Fillings
    <3>4. Append(x.injected, q[k]) \in Seq(1..n) /\ x.tokens + f[q[k]] \in Nat
      BY <3>1, <3>2, <3>3
    <3> QED BY <3>4 DEF AddOne, Fillings
  <2>2. e \in Fillings(n)
    BY DEF Fillings
  <2> HIDE DEF F, e
  <2>3. PICK g : Folding(g, m, e, F) /\ \A t \in SUBSET (1..m) : g[t] \in Fillings(n)
    <3>1. \A k \in 1..m : \A x \in Fillings(n) : F[k][x] \in Fillings(n)
      BY <2>1
    <3> QED BY <2>2, <3>1, FoldsExist
  <2>4. ASSUME NEW t \in SUBSET (1..m), t # {}
        PROVE  F[Max(t)][g[t \ {Max(t)}]] = AddOne(g[t \ {Max(t)}], q[Max(t)], f)
    <3>1. Max(t) \in 1..m
      BY <2>4, LargestOf
    <3>2. g[t \ {Max(t)}] \in Fillings(n)
      BY <2>3
    <3> QED BY <2>1, <3>1, <3>2
  <2>5. g = [t \in SUBSET DOMAIN q |->
                IF t = {} THEN e ELSE AddOne(g[t \ {Max(t)}], q[Max(t)], f)]
    BY <1>0, <2>3, <2>4, Zenon DEF Folding
  <2> QED BY <2>5
<1>3. It = [t \in SUBSET DOMAIN q |->
              IF t = {} THEN e ELSE AddOne(It[t \ {Max(t)}], q[Max(t)], f)]
  BY <1>2
<1> HIDE DEF It
<1>4. \A t \in SUBSET (1..m) :
         It[t] = IF t = {} THEN e ELSE AddOne(It[t \ {Max(t)}], q[Max(t)], f)
  BY <1>0, <1>3, Zenon
<1> DEFINE Good1(k) == It[1..k] \in Fillings(n) /\ FilledTo(It[1..k], q, f, k)
           K == {k \in 0..m : Good1(k)}
<1>5. 0 \in K
  <2>1. 1..0 = {} /\ 1..0 \in SUBSET (1..m) /\ 0 \in 0..m
    OBVIOUS
  <2>2. It[1..0] = e
    BY <1>4, <2>1
  <2>3. e \in Fillings(n)
    BY DEF Fillings
  <2>4. FilledTo(e, q, f, 0)
    <3>1. Range(<<>>) = {}
      BY DEF Range
    <3>2. Sum(Restrict(f, Range(<<>>))) = 0
      BY <3>1, SumOfNone
    <3> QED BY <1>0, <3>2 DEF FilledTo
  <2> QED BY <2>1, <2>2, <2>3, <2>4
<1>6. ASSUME NEW k \in 1..m, k - 1 \in K PROVE k \in K
  <2>1. 1..k \in SUBSET (1..m) /\ 1..k # {} /\ Max(1..k) = k /\ (1..k) \ {k} = 1..k - 1
    <3>1. k \in Nat \ {0} /\ 1..k \in SUBSET (1..m)
      OBVIOUS
    <3> QED BY <3>1, PlacesUpTo
  <2>2. It[1..k] = AddOne(It[1..k - 1], q[k], f)
    BY <1>4, <2>1
  <2>3. It[1..k - 1] \in Fillings(n) /\ FilledTo(It[1..k - 1], q, f, k - 1)
    BY <1>6
  <2> DEFINE a == It[1..k - 1]
  <2>4. a \in Fillings(n) /\ FilledTo(a, q, f, k - 1)
    BY <2>3
  <2>5. It[1..k] = AddOne(a, q[k], f)
    BY <2>2
  <2> HIDE DEF a
  <2>6. FilledTo(AddOne(a, q[k], f), q, f, k)
    BY <2>4, AddOneFits
  <2>7. AddOne(a, q[k], f) \in Fillings(n)
    <3>1. q[k] \in 1..n
      OBVIOUS
    <3>2. f[q[k]] \in Nat
      BY <3>1
    <3>3. a.injected \in Seq(1..n) /\ a.tokens \in Nat
      BY <2>4 DEF Fillings
    <3>4. Append(a.injected, q[k]) \in Seq(1..n) /\ a.tokens + f[q[k]] \in Nat
      BY <3>1, <3>2, <3>3
    <3> QED BY <2>4, <3>4 DEF AddOne, Fillings
  <2>8. k \in 0..m
    OBVIOUS
  <2> QED BY <2>5, <2>6, <2>7, <2>8
<1>7. m \in K
  <2> HIDE DEF K
  <2>1. \A k \in 0..m : k \in K
    BY <1>5, <1>6, StepsUp
  <2> QED BY <2>1
<1> QED BY <1>0, <1>1, <1>7

-----------------------------------------------------------------------------
(* The answer accounts for itself *)

(* What every request's beliefs are *)
LEMMA PoolTyped ==
    ASSUME pool \in Pools
    PROVE  /\ pool.n \in Nat /\ All \in SUBSET (1..pool.n)
           /\ pool.eff \in [1..pool.n -> 0..UserAsserted] /\ pool.cost \in [1..pool.n -> Nat]
           /\ MaxTokens \in Nat /\ RecallLimit \in Nat
  BY PoolsAssumption DEF All

(* Whatever the plan, the order is of the injection candidates, each once. *)
LEMMA OrderIs ==
    ASSUME pool \in Pools
    PROVE  IsOrderOf(Order, All)
<1> DEFINE R1 == {p \in All \X All : RanksAbove(p[1], p[2])}
           R2 == {p \in All \X All : \/ pool.made[p[1]] > pool.made[p[2]]
                                     \/ pool.made[p[1]] = pool.made[p[2]] /\ p[1] < p[2]}
<1>1. Order = Arranged(All, R1) \/ Order = Arranged(All, R2)
  BY DEF Order, SortedBy
<1> HIDE DEF R1, R2
<1> QED BY <1>1, PoolTyped, ArrangedIs

(* The least of what was taken, and what the user asserted of nothing *)
LEMMA FloorIs ==
    ASSUME pool \in Pools, NEW s \in Seq(1..pool.n)
    PROVE  \A i \in Range(s) : Floor(s) <= pool.eff[i]
<1> DEFINE S == {pool.eff[i] : i \in Range(s)} \cup {UserAsserted}
<1>1. \A i \in Range(s) : i \in 1..pool.n
  BY TakenFrom
<1>2. \A i \in Range(s) : pool.eff[i] \in Nat
  <2>1. pool.eff \in [1..pool.n -> 0..3]
    BY PoolTyped DEF UserAsserted
  <2> DEFINE e == pool.eff
             m == pool.n
  <2> HIDE DEF e, m
  <2>2. e \in [1..m -> 0..3]
    BY <2>1 DEF e, m
  <2>3. \A k \in 1..m : e[k] \in 0..3
    BY <2>2, Zenon
  <2>4. \A v \in 0..3 : v \in Nat
    OBVIOUS
  <2> QED BY <1>1, <2>3, <2>4, Zenon DEF e, m
<1>3. S \in SUBSET Nat /\ S # {}
  BY <1>2 DEF UserAsserted
<1>4. \A i \in Range(s) : pool.eff[i] \in S
  OBVIOUS
<1>5. Floor(s) = Min(S)
  BY DEF Floor
<1> HIDE DEF S
<1>6. \A x \in S : Min(S) <= x
  BY <1>3, MinOf
<1> QED BY <1>4, <1>5, <1>6

(* What the point admits is a start of the order. *)
LEMMA AdmittedIs ==
    ASSUME pool \in Pools, NEW o, IsOrderOf(o, All)
    PROVE  /\ Admitted(o) \in Seq(1..pool.n)
           /\ StartOf(Admitted(o), o)
           /\ Len(o) \in Nat
           /\ \A i, j \in 1..Len(o) : o[i] = o[j] => i = j
           /\ o = <<>> <=> All = {}
           /\ Admitted(o) = <<>> => o = <<>> \/ (Gated /\ decide(o) # "admit")
<1>1. o \in Seq(All) /\ o \in Seq(1..pool.n) /\ Range(o) = All /\ DOMAIN o = 1..Len(o) /\ Len(o) \in Nat
  <2>1. o \in Seq(All) /\ Range(o) = All
    BY DEF IsOrderOf
  <2>2. All \in SUBSET (1..pool.n)
    BY PoolTyped
  <2>3. o \in Seq(1..pool.n)
    BY <2>1, <2>2, WiderSeq
  <2> QED BY <2>1, <2>3
<1>2. \A i, j \in 1..Len(o) : o[i] = o[j] => i = j
  BY <1>1 DEF IsOrderOf
<1>3. o = <<>> <=> All = {}
  <2>1. o = <<>> => Range(o) = {}
    BY DEF Range
  <2>2. o # <<>> => 1 \in DOMAIN o
    BY <1>1
  <2>3. o # <<>> => Range(o) # {}
    BY <2>2 DEF Range
  <2> QED BY <1>1, <2>1, <2>3
<1>4. CASE ~Gated
  <2>1. Admitted(o) = o
    BY <1>4 DEF Admitted
  <2>2. StartOf(o, o)
    BY <1>1 DEF StartOf
  <2> QED BY <1>1, <1>2, <1>3, <2>1, <2>2
<1>5. CASE Gated /\ decide(o) = "admit"
  <2>1. Admitted(o) = Take(o, AdmitTopK)
    BY <1>5 DEF Admitted
  <2>2. AdmitTopK \in Nat /\ AdmitTopK # 0
    BY RetrievalAssumption
  <2>3. /\ Take(o, AdmitTopK) \in Seq(1..pool.n) /\ StartOf(Take(o, AdmitTopK), o)
        /\ o # <<>> => Take(o, AdmitTopK) # <<>>
    BY <1>1, <2>2, TakeIs
  <2> QED BY <1>1, <1>2, <1>3, <2>1, <2>3
<1>6. CASE Gated /\ decide(o) # "admit"
  <2>1. Admitted(o) = <<>>
    BY <1>6 DEF Admitted
  <2>2. <<>> \in Seq(1..pool.n) /\ StartOf(<<>>, o)
    BY <1>1 DEF StartOf
  <2> QED BY <1>1, <1>2, <1>3, <1>6, <2>1, <2>2
<1> QED BY <1>4, <1>5, <1>6

(* What is injected of an order, and why it is what it is *)
LEMMA FillIs ==
    ASSUME pool \in Pools, NEW o, IsOrderOf(o, All)
    PROVE  LET r == Fill(Admitted(o), pool.cost)
           IN  /\ r.injected \in Seq(1..pool.n) /\ r.full \in BOOLEAN /\ r.tokens \in Nat
               /\ r.tokens = Sum(Restrict(pool.cost, Range(r.injected)))
               /\ r.tokens <= MaxTokens
               /\ r.full => pool.cost[o[Len(r.injected) + 1]] + r.tokens > MaxTokens
               /\ r.full => All # {} /\ ~(Gated /\ decide(o) # "admit")
               /\ All = {} => r.injected = <<>>
               /\ r.injected = <<>> /\ ~r.full => All = {} \/ (Gated /\ decide(o) # "admit")
               /\ Gated /\ decide(o) # "admit" => r.injected = <<>>
               /\ r.injected # <<>> => r.injected[1] = o[1]
<1> DEFINE q == Admitted(o)
           r == Fill(q, pool.cost)
           m == Len(q)
           l == Len(r.injected)
<1>1. /\ q \in Seq(1..pool.n) /\ Len(o) \in Nat
      /\ Len(q) <= Len(o) /\ \A i \in 1..Len(q) : q[i] = o[i]
      /\ \A i, j \in 1..Len(o) : o[i] = o[j] => i = j
      /\ o = <<>> <=> All = {}
      /\ q = <<>> => o = <<>> \/ (Gated /\ decide(o) # "admit")
  BY AdmittedIs DEF StartOf
<1>2. Gated /\ decide(o) # "admit" => q = <<>>
  BY DEF Admitted
<1> HIDE DEF q
<1>3. m \in Nat /\ (m = 0 <=> q = <<>>)
  BY <1>1
<1>4. o = <<>> => q = <<>>
  BY <1>1
<1>5. \A i, j \in 1..m : q[i] = q[j] => i = j
  <2> SUFFICES ASSUME NEW i \in 1..m, NEW j \in 1..m, q[i] = q[j] PROVE i = j
    OBVIOUS
  <2>1. i \in 1..Len(o) /\ j \in 1..Len(o)
    BY <1>1
  <2>2. o[i] = o[j]
    BY <1>1
  <2> QED BY <1>1, <2>1, <2>2
<1>6. r \in Fillings(pool.n) /\ FilledTo(r, q, pool.cost, m)
  <2>1. pool.n \in Nat /\ pool.cost \in [1..pool.n -> Nat]
    BY PoolTyped
  <2> DEFINE c == pool.cost
             k == pool.n
  <2> HIDE DEF c, k, m
  <2>2. m \in Nat /\ Len(q) = m /\ q \in Seq(1..k) /\ k \in Nat /\ c \in [1..k -> Nat]
    BY <1>1, <1>3, <2>1 DEF m, c, k
  <2>3. Fill(q, c) \in Fillings(k) /\ FilledTo(Fill(q, c), q, c, m)
    BY <1>5, <2>2, FillHolds
  <2> QED BY <2>3 DEF c, k
<1> HIDE DEF r, m
<1>7. r.injected \in Seq(1..pool.n) /\ r.full \in BOOLEAN /\ r.tokens \in Nat
  BY <1>6 DEF Fillings
<1>8. /\ l <= m /\ r.tokens = Sum(Restrict(pool.cost, Range(r.injected)))
      /\ r.tokens <= MaxTokens
      /\ (~r.full => l = m)
      /\ (r.full => l < m /\ pool.cost[q[l + 1]] + r.tokens > MaxTokens)
  BY <1>6 DEF FilledTo
<1>9. l \in Nat /\ (l = 0 <=> r.injected = <<>>)
  BY <1>7
<1> HIDE DEF l
<1>10. r.full => pool.cost[o[l + 1]] + r.tokens > MaxTokens
  <2> SUFFICES ASSUME r.full PROVE q[l + 1] = o[l + 1]
    BY <1>8
  <2>1. l + 1 \in 1..Len(q)
    BY <1>3, <1>8, <1>9 DEF m
  <2> QED BY <1>1, <2>1
<1>11. r.full => m # 0
  BY <1>3, <1>8, <1>9
<1>12. r.full => All # {} /\ ~(Gated /\ decide(o) # "admit")
  BY <1>1, <1>2, <1>3, <1>4, <1>11
<1>13. m = 0 => r.injected = <<>>
  BY <1>8, <1>9
<1>14. r.injected = <<>> /\ ~r.full => m = 0
  BY <1>8, <1>9
<1>15. r.injected # <<>> => r.injected[1] = o[1]
  <2> SUFFICES ASSUME r.injected # <<>> PROVE r.injected[1] = o[1]
    OBVIOUS
  <2>1. 1 \in 1..l /\ 1 \in 1..m
    BY <1>3, <1>8, <1>9
  <2>2. \A i \in 1..l : r.injected[i] = q[i]
    BY <1>6 DEF FilledTo, l
  <2> QED BY <1>1, <2>1, <2>2 DEF m
<1> QED
  BY <1>1, <1>2, <1>3, <1>4, <1>7, <1>8, <1>10, <1>12, <1>13, <1>14, <1>15 DEF q, r, l

(* The five verdicts that refuse, and the one that admits *)
LEMMA VerdictIs ==
    ASSUME NEW o
    PROVE  /\ decide(o) \in {"no candidates", "no reranker", "no runner-up", "margin undefined",
                             "below threshold", "admit"}
           /\ decide(o) = "no candidates" <=> o = <<>>
  BY DEF decide

AccountInv ==
    /\ pool \in Pools
    /\ stage = "waiting" => recalled.found = <<>>
    /\ AnswerAccounts

LEMMA AssembleAccounts == ASSUME AccountInv, Assemble PROVE AccountInv'
<1>1. pool \in Pools /\ pool' = pool /\ stage' = "done" /\ recalled' = recalled /\ plan' = plan
  BY DEF AccountInv, Assemble
<1> DEFINE o == Order
           verdict == decide(o)
           r == Fill(Admitted(o), pool.cost)
<1>2. IsOrderOf(o, All) /\ (o = <<>> <=> All = {})
  <2>1. IsOrderOf(o, All)
    BY <1>1, OrderIs
  <2> HIDE DEF o
  <2> QED BY <1>1, <2>1, AdmittedIs
<1>3. answer' = [order |-> o, injected |-> r.injected, tokens |-> r.tokens, full |-> r.full,
                 abstention |-> IF Gated /\ verdict # "admit" THEN verdict ELSE NoReason,
                 reason |-> AbstentionReason(r, verdict), floor |-> Floor(r.injected)]
  BY DEF Assemble
<1> HIDE DEF o
<1>4. /\ r.injected \in Seq(1..pool.n) /\ r.full \in BOOLEAN
      /\ r.tokens = Sum(Restrict(pool.cost, Range(r.injected)))
      /\ r.tokens <= MaxTokens
      /\ (r.full => pool.cost[o[Len(r.injected) + 1]] + r.tokens > MaxTokens)
      /\ (r.full => All # {} /\ ~(Gated /\ verdict # "admit"))
      /\ (All = {} => r.injected = <<>>)
      /\ (r.injected = <<>> /\ ~r.full => All = {} \/ (Gated /\ verdict # "admit"))
      /\ (Gated /\ verdict # "admit" => r.injected = <<>>)
  BY <1>1, <1>2, FillIs
<1>5. verdict = "no candidates" <=> All = {}
  BY <1>2, VerdictIs
<1> HIDE DEF r, verdict
<1>6. \A i \in Range(r.injected) : Floor(r.injected) <= pool.eff[i]
  BY <1>1, <1>4, FloorIs
<1>7. /\ answer'.order = o /\ answer'.injected = r.injected /\ answer'.tokens = r.tokens
      /\ answer'.full = r.full /\ answer'.reason = AbstentionReason(r, verdict)
      /\ answer'.floor = Floor(r.injected)
      /\ answer'.abstention = IF Gated /\ verdict # "admit" THEN verdict ELSE NoReason
  BY <1>3
<1>8. WithinBudget'
  BY <1>1, <1>4, <1>7 DEF WithinBudget
<1>9. EmptyExplained'
  <2>1. All' = All
    BY <1>1 DEF All
  <2> DEFINE why0 == AbstentionReason(r, verdict)
             none == r.injected = <<>>
             refused == Gated /\ verdict # "admit"
             short == All # {} /\ above_threshold = {}
  <2>2. why0 = IF ~none THEN NoReason
               ELSE IF Gated /\ verdict = "no candidates" THEN "NoCandidates"
               ELSE IF refused THEN "NoCandidateAboveThreshold"
               ELSE IF r.full THEN "BudgetExhausted"
               ELSE IF short THEN "NoCandidateAboveThreshold" ELSE "NoCandidates"
    BY DEF AbstentionReason
  <2>3. /\ (r.full => All # {} /\ ~refused)
        /\ (All = {} => none)
        /\ (none /\ ~r.full => All = {} \/ refused)
    BY <1>4
  <2>4. All = {} => ~short
    OBVIOUS
  <2> HIDE DEF why0, none, short
  <2>5. why0 = NoReason <=> ~none
    BY <2>2 DEF NoReason
  <2>6. why0 = "NoCandidates" <=> All = {}
    BY <1>5, <2>2, <2>3, <2>4 DEF NoReason
  <2>7. why0 = "BudgetExhausted" => r.full /\ ~refused
    BY <2>2 DEF NoReason
  <2> QED BY <1>1, <1>7, <2>1, <2>5, <2>6, <2>7 DEF EmptyExplained, why0, none
<1>10. FloorIsLeast'
  BY <1>1, <1>6, <1>7 DEF FloorIsLeast, AccountInv, AnswerAccounts
<1> QED BY <1>1, <1>8, <1>9, <1>10 DEF AccountInv, AnswerAccounts

LEMMA RecallAccounts == ASSUME AccountInv, Recall PROVE AccountInv'
<1>1. pool \in Pools /\ pool' = pool /\ stage' = "recalled" /\ answer' = answer
  BY DEF AccountInv, Recall
<1> DEFINE hits == {i \in 1..pool.n : pool.lex[i] > 0}
           R == {p \in hits \X hits : \/ pool.lex[p[1]] > pool.lex[p[2]]
                                      \/ pool.lex[p[1]] = pool.lex[p[2]] /\ p[1] < p[2]}
           found == Take(Arranged(hits, R), RecallLimit)
<1>2. recalled' = [found |-> found, floor |-> IF found = <<>> THEN AgentObserved ELSE Floor(found)]
  BY DEF Recall, SortedBy
<1>3. hits \in SUBSET (1..pool.n) /\ pool.n \in Nat /\ RecallLimit \in Nat
  BY <1>1, PoolTyped
<1> HIDE DEF hits, R
<1>4. IsOrderOf(Arranged(hits, R), hits)
  BY <1>3, ArrangedIs
<1>5. Arranged(hits, R) \in Seq(1..pool.n)
  <2>1. Arranged(hits, R) \in Seq(hits)
    BY <1>4 DEF IsOrderOf
  <2> QED BY <1>3, <2>1, WiderSeq
<1>6. found \in Seq(1..pool.n)
  BY <1>3, <1>5, TakeIs
<1> HIDE DEF found
<1>7. \A i \in Range(found) : Floor(found) <= pool.eff[i]
  BY <1>1, <1>6, FloorIs
<1>8. \A i \in Range(found) : found # <<>>
  BY DEF Range
<1>9. FloorIsLeast'
  BY <1>1, <1>2, <1>7, <1>8 DEF FloorIsLeast
<1> QED BY <1>1, <1>9 DEF AccountInv, AnswerAccounts, WithinBudget, EmptyExplained

(* A stage on the way to the answer *)
LEMMA StageAccounts ==
    ASSUME AccountInv, stage' \in {"prune", "rerank", "fuse", "assemble"}, pool' \in Pools,
           pool' = pool \/ recalled.found = <<>>, recalled' = recalled
    PROVE  AccountInv'
<1>1. FloorIsLeast'
  BY DEF FloorIsLeast, AccountInv, AnswerAccounts, Range
<1> QED BY <1>1 DEF AccountInv, AnswerAccounts, WithinBudget, EmptyExplained

LEMMA IdleAccounts ==
    ASSUME AccountInv, UNCHANGED <<stage, pool, answer, recalled>> PROVE AccountInv'
  BY DEF AccountInv, AnswerAccounts, WithinBudget, EmptyExplained, FloorIsLeast, All

(* Whatever the order of the candidates, the plan and the scores: what is injected fits the
   budget and costs what it says, what was left out did not fit, an empty answer has the reason
   that applies and a full one none, and neither it nor a recall is worth more than the least
   trusted memory in it. *)
THEOREM AnswersAccount == HostSpec => []AnswerAccounts
<1>1. HostInit => AccountInv
  <2> SUFFICES ASSUME HostInit PROVE AccountInv
    OBVIOUS
  <2>1. pool \in Pools
    BY PoolsAssumption DEF HostInit
  <2>2. stage = "waiting" /\ recalled.found = <<>>
    BY DEF HostInit, NoRecall
  <2> QED
    BY <2>1, <2>2 DEF AccountInv, AnswerAccounts, WithinBudget, EmptyExplained, FloorIsLeast, Range
<1>2. AccountInv /\ [HostNext]_hostVars => AccountInv'
  <2> SUFFICES ASSUME AccountInv, [HostNext]_hostVars PROVE AccountInv'
    OBVIOUS
  <2>1. CASE DevNext /\ UNCHANGED <<retrievalVars, pair>>
    BY <2>1, IdleAccounts DEF retrievalVars
  <2>2. CASE Serve
    BY <2>2, IdleAccounts DEF Serve
  <2>3. CASE Query
    BY <2>3, StageAccounts DEF Query, AccountInv
  <2>4. CASE Score
    BY <2>4, IdleAccounts DEF Score, retrievalVars
  <2>5. CASE Prune \/ Rerank \/ Fuse
    <3>1. stage' \in {"rerank", "fuse", "assemble"} /\ pool' = pool /\ recalled' = recalled
      BY <2>5 DEF Prune, Rerank, Fuse
    <3> QED BY <3>1, StageAccounts DEF AccountInv
  <2>6. CASE Assemble
    BY <2>6, AssembleAccounts
  <2>7. CASE Recall
    BY <2>7, RecallAccounts
  <2>8. CASE UNCHANGED hostVars
    BY <2>8, IdleAccounts DEF hostVars, retrievalVars
  <2> QED BY <2>1, <2>2, <2>3, <2>4, <2>5, <2>6, <2>7, <2>8 DEF HostNext, RetrievalNext
<1>3. AccountInv => AnswerAccounts
  BY DEF AccountInv
<1> QED BY <1>1, <1>2, <1>3, PTL DEF HostSpec

-----------------------------------------------------------------------------
(* The order is earned *)

(* Somebody of any few is outscored by none. *)
LEMMA BestOf ==
    ASSUME NEW n \in Nat, NEW f \in [1..n -> Int], NEW S \in SUBSET (1..n), S # {}
    PROVE  \E m \in S : \A j \in S : f[j] <= f[m]
<1> DEFINE K == {k \in 0..n : \A t \in SUBSET S : t # {} /\ t \subseteq 1..k =>
                                  \E m \in t : \A j \in t : f[j] <= f[m]}
<1>1. 0 \in K
  <2>1. 1..0 = {} /\ 0 \in 0..n
    OBVIOUS
  <2>2. \A t \in SUBSET S : ~(t # {} /\ t \subseteq 1..0)
    BY <2>1, Zenon
  <2> QED BY <2>1, <2>2
<1>2. ASSUME NEW k \in 1..n, k - 1 \in K PROVE k \in K
  <2> SUFFICES ASSUME NEW t \in SUBSET S, t # {}, t \subseteq 1..k
               PROVE  \E m \in t : \A j \in t : f[j] <= f[m]
    OBVIOUS
  <2>0. \A u \in SUBSET S : u # {} /\ u \subseteq 1..(k - 1) => \E m \in u : \A j \in u : f[j] <= f[m]
    BY <1>2, Zenon
  <2>1. CASE k \notin t
    <3>1. t \subseteq 1..(k - 1)
      BY <2>1
    <3> QED BY <2>0, <3>1
  <2>2. CASE k \in t /\ t = {k}
    BY <2>2
  <2>3. CASE k \in t /\ t # {k}
    <3> DEFINE u == t \ {k}
    <3>1. u \in SUBSET S /\ u # {} /\ u \subseteq 1..(k - 1)
      BY <2>3
    <3>2. PICK m \in u : \A j \in u : f[j] <= f[m]
      BY <2>0, <3>1
    <3>3. \A j \in t : f[j] \in Int
      OBVIOUS
    <3>4. CASE f[k] <= f[m]
      BY <3>2, <3>4
    <3>5. CASE ~(f[k] <= f[m])
      <4>1. k \in t /\ \A j \in t : j = k \/ j \in u
        BY <2>3
      <4>2. \A j \in u : f[j] <= f[k]
        <5> SUFFICES ASSUME NEW j \in u PROVE f[j] <= f[k]
          OBVIOUS
        <5>1. f[j] <= f[m]
          BY <3>2
        <5>2. f[j] \in Int /\ f[m] \in Int /\ f[k] \in Int
          BY <2>3, <3>3
        <5> HIDE DEF u
        <5> QED BY <3>5, <5>1, <5>2
      <4>3. f[k] <= f[k]
        BY <2>3, <3>3
      <4>4. \A j \in t : f[j] <= f[k]
        <5> HIDE DEF u
        <5> QED BY <4>1, <4>2, <4>3
      <4> QED BY <4>1, <4>4
    <3> QED BY <3>4, <3>5
  <2> QED BY <2>1, <2>2, <2>3
<1>3. n \in K
  <2> HIDE DEF K
  <2>1. \A k \in 0..n : k \in K
    BY <1>1, <1>2, StepsUp
  <2> QED BY <2>1
<1>4. S \subseteq 1..n
  OBVIOUS
<1> QED BY <1>3, <1>4

(* The best score of any few is one of theirs. *)
LEMMA BestScore ==
    ASSUME NEW n \in Nat, NEW f \in [1..n -> Int], NEW S \in SUBSET (1..n), S # {}
    PROVE  /\ Max({f[i] : i \in S}) \in Int
           /\ \E m \in S : Max({f[i] : i \in S}) = f[m]
           /\ \A j \in S : f[j] <= Max({f[i] : i \in S})
<1>1. PICK m \in S : \A j \in S : f[j] <= f[m]
  BY BestOf
<1> DEFINE t == {f[i] : i \in S}
           c == f[m]
<1>2. c \in Int /\ t \in SUBSET Int /\ c \in t /\ t # {}
  OBVIOUS
<1>3. \A x \in t : x <= c
  BY <1>1
<1>4. \A j \in S : f[j] \in t
  OBVIOUS
<1>5. c = f[m]
  OBVIOUS
<1> HIDE DEF t, c
<1>6. Max(t) \in t /\ \A x \in t : x <= Max(t)
  BY <1>2, <1>3, LargestBelow
<1>7. Max(t) = c
  <2>1. Max(t) \in Int /\ Max(t) <= c /\ c <= Max(t)
    BY <1>2, <1>3, <1>6
  <2> QED BY <1>2, <2>1
<1>8. Max(t) \in Int /\ Max(t) = f[m] /\ \A j \in S : f[j] <= Max(t)
  BY <1>2, <1>4, <1>5, <1>6, <1>7
<1>9. m \in S
  OBVIOUS
<1> QED BY <1>8, <1>9, Zenon DEF t

(* Who ranks above another comes before it. *)
LEMMA Precedes ==
    ASSUME NEW s, NEW D, InOrder(s, D), NEW i, NEW j, i \in 1..Len(s), j \in 1..Len(s),
           Len(s) \in Nat, <<s[i], s[j]>> \in D, s[i] # s[j]
    PROVE  i < j
<1>1. \A x, y \in 1..Len(s) : x < y => <<s[y], s[x]>> \notin D
  BY DEF InOrder
<1>2. ~(j < i)
  BY <1>1
<1>3. i # j
  OBVIOUS
<1> QED BY <1>2, <1>3

(* An order has a place for each. *)
LEMMA OrderLength ==
    ASSUME NEW n \in Nat, NEW S \in SUBSET (1..n), NEW s, IsOrderOf(s, S)
    PROVE  IsFiniteSet(S) /\ Len(s) = Cardinality(S) /\ Len(s) \in 0..n
<1>1. IsFiniteSet(1..n) /\ Cardinality(1..n) = n
  BY FS_Interval
<1>2. IsFiniteSet(S) /\ Cardinality(S) <= n
  BY <1>1, FS_Subset
<1>3. Len(s) \in Nat /\ DOMAIN s = 1..Len(s) /\ s \in [1..Len(s) -> S]
  BY DEF IsOrderOf
<1>4. \A y \in S : \E i \in 1..Len(s) : s[i] = y
  BY <1>3, Zenon DEF IsOrderOf, Range
<1>5. s \in Surjection(1..Len(s), S)
  BY <1>3, <1>4 DEF Surjection
<1>6. s \in Injection(1..Len(s), S)
  BY <1>3 DEF Injection, IsInjective, IsOrderOf
<1>7. IsFiniteSet(1..Len(s)) /\ Cardinality(1..Len(s)) = Len(s)
  BY <1>3, FS_Interval
<1>8. Cardinality(S) = Len(s)
  BY <1>5, <1>6, <1>7, FS_Surjection
<1> QED BY <1>2, <1>3, <1>8

(* What a request finds, as far as its order goes *)
LEMMA PoolScored ==
    ASSUME pool \in Pools
    PROVE  /\ pool.n \in Nat /\ All \in SUBSET (1..pool.n)
           /\ pool.at \in [1..pool.n -> Int] /\ pool.lex \in [1..pool.n -> Int]
           /\ pool.den \in [1..pool.n -> Int]
  BY PoolsAssumption DEF All

(* A calibration reads no surer than its end, and no less sure further up. *)
LEMMA CurveRises ==
    ASSUME NEW curve, curve \in Seq(Int \X Int), validate_curve(curve)
    PROVE  /\ Last(curve)[2] \in 0..Certain
           /\ \A v \in Int : /\ calibrate_cue(curve, v) \in 0..Certain
                             /\ calibrate_cue(curve, v) <= Last(curve)[2]
           /\ \A v, w \in Int : v <= w => calibrate_cue(curve, v) <= calibrate_cue(curve, w)
<1> DEFINE m == Len(curve)
<1>1. m \in Nat \ {0} /\ DOMAIN curve = 1..m
  BY DEF validate_curve
<1>2. \A k \in 1..m : curve[k] \in Int \X Int /\ curve[k][1] \in Int
  BY <1>1
<1>3. /\ \A k \in 1..m : curve[k][2] \in 0..Certain
      /\ \A k \in 2..m : curve[k - 1][2] <= curve[k][2]
  BY <1>1 DEF validate_curve
<1>c. Certain \in Nat
  BY RetrievalAssumption
<1> HIDE DEF m
<1> DEFINE c == [k \in 1..m |-> curve[k][2]]
<1>4. \A k \in 1..m : c[k] = curve[k][2] /\ c[k] \in Int /\ c[k] \in 0..Certain
  BY <1>3, <1>c
<1>5. \A k \in 2..m : c[k - 1] <= c[k]
  <2> SUFFICES ASSUME NEW k \in 2..m PROVE c[k - 1] <= c[k]
    OBVIOUS
  <2>1. k \in 1..m /\ k - 1 \in 1..m
    BY <1>1
  <2> QED BY <1>3, <1>4, <2>1
<1> HIDE DEF c
<1>6. \A i, j \in 1..m : i <= j => c[i] <= c[j]
  <2> DEFINE K == {k \in 0..m : \A i, j \in 1..m : i <= j /\ j <= k => c[i] <= c[j]}
  <2>1. 0 \in K
    BY <1>1
  <2>2. ASSUME NEW k \in 1..m, k - 1 \in K PROVE k \in K
    <3> SUFFICES ASSUME NEW i \in 1..m, NEW j \in 1..m, i <= j, j <= k PROVE c[i] <= c[j]
      BY <1>1
    <3>1. CASE j <= k - 1
      BY <1>1, <2>2, <3>1
    <3>2. CASE j = k /\ i = k
      BY <1>4, <3>2
    <3>3. CASE j = k /\ i <= k - 1
      <4>1. k \in 2..m /\ k - 1 \in 1..m
        BY <1>1, <3>3
      <4>2. c[i] <= c[k - 1]
        BY <1>1, <2>2, <3>3, <4>1
      <4>3. c[k - 1] <= c[k]
        BY <1>5, <4>1
      <4> QED BY <1>4, <3>3, <4>1, <4>2, <4>3
    <3> QED BY <1>1, <3>1, <3>2, <3>3
  <2>3. m \in K
    <3> HIDE DEF K
    <3>1. \A k \in 0..m : k \in K
      BY <1>1, <2>1, <2>2, StepsUp
    <3> QED BY <1>1, <3>1
  <2> QED BY <1>1, <2>3
<1> DEFINE over(v) == {k \in DOMAIN curve : curve[k][1] >= v}
           place(v) == IF over(v) = {} THEN Len(curve) ELSE Min(over(v))
<1>7. \A v : calibrate_cue(curve, v) = curve[place(v)][2]
  BY DEF calibrate_cue
<1>8. ASSUME NEW v \in Int
      PROVE  /\ over(v) \in SUBSET (1..m)
             /\ place(v) \in 1..m /\ (over(v) # {} => place(v) \in over(v))
             /\ \A x \in over(v) : place(v) <= x
  <2>1. over(v) \in SUBSET (1..m) /\ over(v) \in SUBSET Nat
    BY <1>1
  <2>2. CASE over(v) = {}
    BY <1>1, <2>1, <2>2 DEF m
  <2>3. CASE over(v) # {}
    <3>1. place(v) = Min(over(v))
      BY <2>3
    <3> HIDE DEF over
    <3>2. Min(over(v)) \in over(v) /\ \A x \in over(v) : Min(over(v)) <= x
      BY <2>1, <2>3, MinOf
    <3> HIDE DEF place
    <3> QED BY <2>1, <3>1, <3>2
  <2> QED BY <2>2, <2>3
<1>9. ASSUME NEW v \in Int, NEW w \in Int, v <= w PROVE place(v) <= place(w)
  <2>1. \A x \in over(w) : x \in over(v)
    BY <1>1, <1>2, <1>9
  <2>2. CASE over(w) = {}
    <3>1. place(w) = m
      BY <2>2 DEF m
    <3>2. place(v) \in 1..m
      BY <1>8
    <3> HIDE DEF place
    <3> QED BY <1>1, <3>1, <3>2
  <2>3. CASE over(w) # {}
    <3>1. place(w) \in over(w)
      BY <1>8, <2>3
    <3> HIDE DEF over, place
    <3>2. place(w) \in over(v)
      BY <2>1, <3>1
    <3> QED BY <1>8, <3>2
  <2> QED BY <2>2, <2>3
<1> HIDE DEF over, place
<1>10. \A v \in Int : place(v) \in 1..m /\ calibrate_cue(curve, v) = c[place(v)]
  BY <1>4, <1>7, <1>8
<1>11. Last(curve)[2] = c[m] /\ m \in 1..m
  BY <1>1, <1>4 DEF Last, m
<1>12. \A v \in Int : calibrate_cue(curve, v) \in 0..Certain
                      /\ calibrate_cue(curve, v) <= Last(curve)[2]
  <2> SUFFICES ASSUME NEW v \in Int
               PROVE  calibrate_cue(curve, v) \in 0..Certain /\ calibrate_cue(curve, v) <= Last(curve)[2]
    OBVIOUS
  <2>0. place(v) \in 1..m
    BY <1>10
  <2>1. place(v) \in 1..m /\ place(v) <= m
    BY <1>1, <2>0
  <2> QED BY <1>4, <1>6, <1>10, <1>11, <2>1
<1>13. \A v, w \in Int : v <= w => calibrate_cue(curve, v) <= calibrate_cue(curve, w)
  BY <1>6, <1>9, <1>10
<1> QED BY <1>4, <1>11, <1>12, <1>13

(* A margin is a number. *)
LEMMA MarginIs ==
    ASSUME NEW n \in Nat, NEW f \in [1..n -> Int], NEW S \in SUBSET (1..n), NEW i \in S
    PROVE  CueMargin(Restrict(f, S), i) \in Int
<1> DEFINE r == Restrict(f, S)
           top == Max(Range(r))
           below == {j \in DOMAIN r : j # i}
           most(T) == Max({r[j] : j \in T})
<1>1. DOMAIN r = S /\ \A j \in S : r[j] = f[j] /\ r[j] \in Int
  BY DEF Restrict
<1>2. Range(r) = {f[j] : j \in S}
  BY <1>1, Zenon DEF Range, Restrict
<1>3. top \in Int
  <2>1. Max({f[j] : j \in S}) \in Int
    BY BestScore
  <2> QED BY <1>2, <2>1
<1>4. below \in SUBSET S
  BY <1>1
<1>5. ASSUME below # {} PROVE Max({r[j] : j \in below}) \in Int
  <2> DEFINE T == below
  <2>0. T \in SUBSET (1..n) /\ T # {} /\ T \in SUBSET S
    BY <1>4, <1>5
  <2> HIDE DEF T
  <2>1. Max({f[j] : j \in T}) \in Int
    BY <2>0, BestScore
  <2>2. \A j \in T : r[j] = f[j]
    BY <1>1, <2>0
  <2> HIDE DEF r
  <2>3. {r[j] : j \in T} = {f[j] : j \in T}
    BY <2>2, Zenon
  <2> QED BY <2>1, <2>3 DEF T
<1>6. RunnerUp(r, i) = IF r[i] = top /\ \A j \in below : r[j] < top
                       THEN IF below = {} THEN 0 ELSE Max({r[j] : j \in below}) ELSE top
  BY DEF RunnerUp
<1>7. r[i] \in Int
  BY <1>1
<1>8. CueMargin(r, i) = r[i] - RunnerUp(r, i)
  BY DEF CueMargin
<1> HIDE DEF r, top
<1>9. RunnerUp(r, i) \in Int
  <2>1. CASE below = {}
    <3>1. RunnerUp(r, i) = 0 \/ RunnerUp(r, i) = top
      BY <1>6, <2>1
    <3> QED BY <1>3, <3>1
  <2>2. CASE below # {}
    <3>1. RunnerUp(r, i) = Max({r[j] : j \in below}) \/ RunnerUp(r, i) = top
      BY <1>6, <2>2, Zenon
    <3> QED BY <1>3, <1>5, <2>2, <3>1
  <2> QED BY <2>1, <2>2
<1>10. CueMargin(r, i) \in Int
  BY <1>7, <1>8, <1>9
<1> QED BY <1>10 DEF r

(* A gate that a build loads has a calibration for each cue, and says the most it ever says. *)
LEMMA GateRead ==
    ASSUME NEW g, g \in Artifacts, from_artifact(g)
    PROVE  /\ DOMAIN g.curves = {"lexical", "dense"}
           /\ \A c \in DOMAIN g.curves :
                /\ g.curves[c] \in Seq(Int \X Int) /\ validate_curve(g.curves[c])
                /\ Last(g.curves[c])[2] <= max_calibrated_precision(g)
           /\ max_calibrated_precision(g) \in Int
           /\ g.floor = "fail" => max_calibrated_precision(g) < PassAt
<1>1. /\ DOMAIN g.curves = Range(CueFeatures)
      /\ \A c \in DOMAIN g.curves : validate_curve(g.curves[c])
      /\ ~(g.floor = "fail" /\ max_calibrated_precision(g) >= PassAt)
  BY DEF from_artifact, CurvesRead, FloorInterlock
<1>2. Range(CueFeatures) = {"lexical", "dense"}
  <2>1. DOMAIN CueFeatures = {1, 2} /\ CueFeatures[1] = "lexical" /\ CueFeatures[2] = "dense"
    BY DEF CueFeatures
  <2> QED BY <2>1 DEF Range
<1>3. \A c \in DOMAIN g.curves : g.curves[c] \in Seq(Int \X Int)
  BY GateAssumption
<1>4. \A c \in DOMAIN g.curves : Last(g.curves[c])[2] \in 0..Certain
  <2> SUFFICES ASSUME NEW c \in DOMAIN g.curves PROVE Last(g.curves[c])[2] \in 0..Certain
    OBVIOUS
  <2> DEFINE curve == g.curves[c]
  <2>1. curve \in Seq(Int \X Int) /\ validate_curve(curve)
    BY <1>1, <1>3
  <2> HIDE DEF curve
  <2>2. Last(curve)[2] \in 0..Certain
    BY <2>1, CurveRises
  <2> QED BY <2>2 DEF curve
<1> DEFINE last(c) == Last(g.curves[c])[2]
           ends == {last(c) : c \in DOMAIN g.curves}
           most == {0} \cup ends
<1>5. max_calibrated_precision(g) = Max(most)
  BY DEF max_calibrated_precision
<1>6. \A c \in DOMAIN g.curves : last(c) \in most /\ last(c) \in 0..Certain
  BY <1>4
<1>7. \A x \in ends : \E c \in DOMAIN g.curves : x = last(c)
  OBVIOUS
<1> HIDE DEF ends, last
<1>8. Certain \in Nat /\ PassAt \in Int
  BY RetrievalAssumption
<1>9. most \in SUBSET Int /\ most # {} /\ \A x \in most : x <= Certain
  BY <1>6, <1>7, <1>8
<1> HIDE DEF most
<1>10. Max(most) \in most /\ \A x \in most : x <= Max(most)
  BY <1>8, <1>9, LargestBelow
<1>11. max_calibrated_precision(g) \in Int
  BY <1>5, <1>9, <1>10
<1>12. \A c \in DOMAIN g.curves : last(c) <= max_calibrated_precision(g)
  BY <1>5, <1>6, <1>10
<1>13. g.floor = "fail" => max_calibrated_precision(g) < PassAt
  BY <1>1, <1>8, <1>11
<1> QED BY <1>1, <1>2, <1>3, <1>11, <1>12, <1>13 DEF last

(* A cue's margin is a number, whichever the cue *)
LEMMA CuesMargin ==
    ASSUME pool \in Pools, NEW c, NEW i \in All PROVE CueMargin(CueOf(c), i) \in Int
<1> DEFINE f == IF c = "lexical" THEN pool.lex ELSE pool.den
           n == pool.n
           S == All
<1>1. n \in Nat /\ f \in [1..n -> Int] /\ S \in SUBSET (1..n) /\ i \in S
  BY PoolScored
<1>2. CueOf(c) = Restrict(f, S)
  BY DEF CueOf
<1> HIDE DEF f, n, S
<1> QED BY <1>1, <1>2, MarginIs

(* Whatever gate is loaded, what it says is within what it ever says, and rises with the margin. *)
LEMMA GateSound == ASSUME pool \in Pools PROVE GateIsSound
<1> SUFFICES ASSUME NEW g \in Artifacts, from_artifact(g)
             PROVE  /\ \A i \in All : judgeBy(g.curves, i).p <= max_calibrated_precision(g)
                    /\ g.floor = "fail" => \A i \in All : judgeBy(g.curves, i).p < PassAt
                    /\ \A c \in DOMAIN g.curves : \A i, j \in All :
                          CueMargin(CueOf(c), i) <= CueMargin(CueOf(c), j) =>
                              Reading(g.curves, c, i).p <= Reading(g.curves, c, j).p
  BY Zenon DEF GateIsSound
<1> DEFINE top == max_calibrated_precision(g)
<1>1. /\ DOMAIN g.curves = {"lexical", "dense"}
      /\ \A c \in DOMAIN g.curves :
           /\ g.curves[c] \in Seq(Int \X Int) /\ validate_curve(g.curves[c])
           /\ Last(g.curves[c])[2] <= top
      /\ top \in Int
      /\ g.floor = "fail" => top < PassAt
  BY GateRead
<1> HIDE DEF top
<1>2. \A c, i : Reading(g.curves, c, i).p = calibrate_cue(g.curves[c], CueMargin(CueOf(c), i))
  BY DEF Reading
<1>3. ASSUME NEW c \in DOMAIN g.curves, NEW i \in All
      PROVE  Reading(g.curves, c, i).p \in Int /\ Reading(g.curves, c, i).p <= top
  <2> DEFINE curve == g.curves[c]
             v == CueMargin(CueOf(c), i)
  <2>1. curve \in Seq(Int \X Int) /\ validate_curve(curve) /\ Last(curve)[2] <= top
    BY <1>1
  <2>2. v \in Int
    BY CuesMargin
  <2>3. Reading(g.curves, c, i).p = calibrate_cue(curve, v)
    BY <1>2
  <2> HIDE DEF curve, v
  <2>4. /\ calibrate_cue(curve, v) \in 0..Certain /\ calibrate_cue(curve, v) <= Last(curve)[2]
        /\ Last(curve)[2] \in 0..Certain
    BY <2>1, <2>2, CurveRises
  <2>5. Certain \in Nat
    BY RetrievalAssumption
  <2> QED BY <1>1, <2>1, <2>3, <2>4, <2>5
<1>4. ASSUME NEW c \in DOMAIN g.curves, NEW i \in All, NEW j \in All,
             CueMargin(CueOf(c), i) <= CueMargin(CueOf(c), j)
      PROVE  Reading(g.curves, c, i).p <= Reading(g.curves, c, j).p
  <2> DEFINE curve == g.curves[c]
             v == CueMargin(CueOf(c), i)
             w == CueMargin(CueOf(c), j)
  <2>1. curve \in Seq(Int \X Int) /\ validate_curve(curve)
    BY <1>1
  <2>2. v \in Int /\ w \in Int /\ v <= w
    BY <1>4, CuesMargin
  <2>3. Reading(g.curves, c, i).p = calibrate_cue(curve, v)
        /\ Reading(g.curves, c, j).p = calibrate_cue(curve, w)
    BY <1>2
  <2> HIDE DEF curve, v, w
  <2>4. \A a, b \in Int : a <= b => calibrate_cue(curve, a) <= calibrate_cue(curve, b)
    BY <2>1, CurveRises
  <2> QED BY <2>2, <2>3, <2>4
<1>5. \A i \in All : judgeBy(g.curves, i).p \in Int /\ judgeBy(g.curves, i).p <= top
  <2> SUFFICES ASSUME NEW i \in All PROVE judgeBy(g.curves, i).p \in Int /\ judgeBy(g.curves, i).p <= top
    OBVIOUS
  <2>1. judgeBy(g.curves, i) = Reading(g.curves, "lexical", i)
        \/ judgeBy(g.curves, i) = Reading(g.curves, "dense", i)
    BY DEF judgeBy
  <2> QED BY <1>1, <1>3, <2>1
<1>6. PassAt \in Int
  BY RetrievalAssumption
<1>7. g.floor = "fail" => \A i \in All : judgeBy(g.curves, i).p < PassAt
  BY <1>1, <1>5, <1>6
<1> QED BY <1>4, <1>5, <1>7 DEF top

-----------------------------------------------------------------------------
(* Sessions *)

(* One more in order of time: it is in the session of the last, or opens one *)
GroupOf(acc, i, at0) == IF acc.seen /\ LongGap(acc.previous, at0[i]) THEN acc.group + 1 ELSE acc.group
Scanned(acc, i, at0) ==
    [keys |-> [acc.keys EXCEPT ![i] = GroupOf(acc, i, at0)], group |-> GroupOf(acc, i, at0),
     previous |-> at0[i], seen |-> TRUE]

NoneScanned(S) == [keys |-> [i \in S |-> 0], group |-> 0, previous |-> 0, seen |-> FALSE]
Scans(S) == [keys : [S -> Nat], group : Nat, previous : Int, seen : BOOLEAN]

(* A session more between the p-th and the next exactly at a long gap *)
Steps(keys, o, at0, p) ==
    keys[o[p + 1]] = keys[o[p]] + IF LongGap(at0[o[p]], at0[o[p + 1]]) THEN 1 ELSE 0

(* What the scan has made of the first k of o *)
ScannedTo(a, o, at0, k) ==
    /\ a.group <= k /\ (a.seen <=> k # 0)
    /\ \A i \in DOMAIN a.keys : a.keys[i] <= a.group
    /\ k # 0 => a.previous = at0[o[k]] /\ a.keys[o[k]] = a.group
    /\ \A p \in 1..(k - 1) : Steps(a.keys, o, at0, p)

Lined(o, S, m, at0, n) ==
    /\ n \in Nat /\ S \in SUBSET (1..n) /\ at0 \in [1..n -> Int] /\ m \in Nat
    /\ \A k \in 1..m : o[k] \in S
    /\ \A i, j \in 1..m : o[i] = o[j] => i = j

LEMMA ScanFits ==
    ASSUME NEW n, NEW S, NEW at0, NEW o, NEW m, Lined(o, S, m, at0, n),
           NEW k, k \in 1..m, NEW a, a \in Scans(S), ScannedTo(a, o, at0, k - 1)
    PROVE  Scanned(a, o[k], at0) \in Scans(S) /\ ScannedTo(Scanned(a, o[k], at0), o, at0, k)
<1>1. /\ n \in Nat /\ S \in SUBSET (1..n) /\ m \in Nat
      /\ \A i \in 1..m : o[i] \in S
      /\ \A i, j \in 1..m : o[i] = o[j] => i = j
      /\ \A i \in S : at0[i] \in Int
  BY DEF Lined
<1>2. /\ a.keys \in [S -> Nat] /\ a.group \in Nat /\ a.previous \in Int /\ a.seen \in BOOLEAN
  BY DEF Scans
<1>3. /\ a.group <= k - 1 /\ (a.seen <=> k - 1 # 0)
      /\ \A i \in S : a.keys[i] <= a.group
      /\ k - 1 # 0 => a.previous = at0[o[k - 1]] /\ a.keys[o[k - 1]] = a.group
      /\ \A p \in 1..(k - 1 - 1) : Steps(a.keys, o, at0, p)
  BY <1>2 DEF ScannedTo
<1> DEFINE i == o[k]
           q == GroupOf(a, i, at0)
           b == Scanned(a, i, at0)
           keys == [a.keys EXCEPT ![i] = q]
<1>4. k \in Nat /\ k # 0 /\ i \in S
  BY <1>1
<1>5. q \in Nat /\ (q = a.group \/ (q = a.group + 1 /\ a.seen))
      /\ q = a.group + IF a.seen /\ LongGap(a.previous, at0[i]) THEN 1 ELSE 0
  BY <1>2 DEF GroupOf
<1>6. b.keys = keys /\ b.group = q /\ b.previous = at0[i] /\ b.seen = TRUE
  BY DEF Scanned
<1>7. b \in Scans(S)
  <2>1. at0[i] \in Int
    BY <1>1, <1>4
  <2>2. keys \in [S -> Nat]
    <3> HIDE DEF q
    <3> QED BY <1>2, <1>4, <1>5
  <2> HIDE DEF q, i
  <2>3. b = [keys |-> keys, group |-> q, previous |-> at0[i], seen |-> TRUE]
    BY DEF Scanned, q, i
  <2> HIDE DEF keys, b
  <2> QED BY <1>5, <2>1, <2>2, <2>3 DEF Scans
<1>8. DOMAIN keys = S /\ keys[i] = q /\ \A j \in S : j # i => keys[j] = a.keys[j]
  <2> HIDE DEF q, i
  <2> QED BY <1>2, <1>4
<1> HIDE DEF q, keys, b
<1>9. \A j \in S : keys[j] \in Nat /\ keys[j] <= q
  <2> SUFFICES ASSUME NEW j \in S PROVE keys[j] \in Nat /\ keys[j] <= q
    OBVIOUS
  <2>1. CASE j = i
    BY <1>5, <1>8, <2>1
  <2>2. CASE j # i
    <3>1. keys[j] = a.keys[j] /\ a.keys[j] \in Nat /\ a.keys[j] <= a.group
      BY <1>2, <1>3, <1>8, <2>2
    <3> QED BY <1>2, <1>5, <3>1
  <2> QED BY <2>1, <2>2
<1>10. \A p \in 1..(k - 1) : Steps(keys, o, at0, p)
  <2> SUFFICES ASSUME NEW p \in 1..(k - 1) PROVE Steps(keys, o, at0, p)
    OBVIOUS
  <2>1. p \in 1..m /\ p + 1 \in 1..m /\ p # k /\ p \in Nat
    BY <1>1, <1>4
  <2>2. o[p] \in S /\ o[p + 1] \in S /\ o[p] # i
    BY <1>1, <1>4, <2>1
  <2>3. keys[o[p]] = a.keys[o[p]]
    BY <1>8, <2>2
  <2>4. CASE p = k - 1
    <3>1. p + 1 = k /\ k - 1 # 0
      BY <1>4, <2>1, <2>4
    <3>2. a.seen /\ a.previous = at0[o[p]] /\ a.keys[o[p]] = a.group
      BY <1>3, <2>4, <3>1
    <3>3. keys[o[p + 1]] = a.group + IF LongGap(at0[o[p]], at0[o[p + 1]]) THEN 1 ELSE 0
      BY <1>5, <1>8, <3>1, <3>2
    <3> QED BY <2>3, <3>2, <3>3 DEF Steps
  <2>5. CASE p # k - 1
    <3>1. p \in 1..(k - 1 - 1) /\ p + 1 # k
      BY <1>4, <2>1, <2>5
    <3>2. o[p + 1] # i
      BY <1>1, <1>4, <2>1, <3>1
    <3>3. keys[o[p + 1]] = a.keys[o[p + 1]]
      BY <1>8, <2>2, <3>2
    <3>4. Steps(a.keys, o, at0, p)
      BY <1>3, <3>1
    <3> QED BY <2>3, <3>3, <3>4 DEF Steps
  <2> QED BY <2>4, <2>5
<1>11. q <= k
  BY <1>2, <1>3, <1>4, <1>5
<1>12. ScannedTo(b, o, at0, k)
  BY <1>4, <1>6, <1>8, <1>9, <1>10, <1>11 DEF ScannedTo, i
<1> QED BY <1>7, <1>12 DEF b

(* The last that a scan of o leaves *)
ScanOf(o, S, at0) ==
    FoldLeft(LAMBDA acc, i : Scanned(acc, i, at0), NoneScanned(S), o)

LEMMA ScanHolds ==
    ASSUME NEW n, NEW S, NEW at0, NEW o, NEW m, Lined(o, S, m, at0, n), o \in Seq(S), Len(o) = m
    PROVE  ScanOf(o, S, at0) \in Scans(S) /\ ScannedTo(ScanOf(o, S, at0), o, at0, m)
<1> DEFINE e == NoneScanned(S)
           It == CHOOSE g : g = [t \in SUBSET DOMAIN o |->
                                  IF t = {} THEN e ELSE Scanned(g[t \ {Max(t)}], o[Max(t)], at0)]
<1>0. /\ DOMAIN o = 1..m /\ m \in Nat
      /\ \A k \in 1..m : o[k] \in S /\ at0[o[k]] \in Int
  <2>1. /\ m \in Nat /\ S \in SUBSET (1..n) /\ at0 \in [1..n -> Int] /\ \A k \in 1..m : o[k] \in S
    BY DEF Lined
  <2>2. \A k \in 1..m : at0[o[k]] \in Int
    BY <2>1
  <2> QED BY <2>1, <2>2
<1>1. ScanOf(o, S, at0) = It[DOMAIN o]
  BY DEF ScanOf, FoldLeft, MapThenFoldSet
<1>e. e \in Scans(S)
  BY DEF NoneScanned, Scans
<1>s. ASSUME NEW k \in 1..m, NEW x \in Scans(S) PROVE Scanned(x, o[k], at0) \in Scans(S)
  <2>1. x.keys \in [S -> Nat] /\ x.group \in Nat
    BY DEF Scans
  <2> DEFINE q == GroupOf(x, o[k], at0)
  <2>2. q \in Nat
    BY <2>1 DEF GroupOf
  <2>3. Scanned(x, o[k], at0)
          = [keys |-> [x.keys EXCEPT ![o[k]] = q], group |-> q, previous |-> at0[o[k]], seen |-> TRUE]
    BY DEF Scanned
  <2> HIDE DEF q
  <2>4. [x.keys EXCEPT ![o[k]] = q] \in [S -> Nat]
    BY <2>1, <2>2
  <2> QED BY <1>0, <2>2, <2>3, <2>4 DEF Scans
<1>2. \E g : g = [t \in SUBSET DOMAIN o |->
                    IF t = {} THEN e ELSE Scanned(g[t \ {Max(t)}], o[Max(t)], at0)]
  <2> DEFINE F == [k \in 1..m |-> [x \in Scans(S) |-> Scanned(x, o[k], at0)]]
  <2>1. \A k \in 1..m : \A x \in Scans(S) : F[k][x] = Scanned(x, o[k], at0) /\ F[k][x] \in Scans(S)
    BY <1>s
  <2> HIDE DEF F, e
  <2>3. PICK g : Folding(g, m, e, F) /\ \A t \in SUBSET (1..m) : g[t] \in Scans(S)
    <3>1. \A k \in 1..m : \A x \in Scans(S) : F[k][x] \in Scans(S)
      BY <2>1
    <3> DEFINE X == Scans(S)
    <3>2. m \in Nat /\ e \in X /\ \A k \in 1..m : \A x \in X : F[k][x] \in X
      BY <1>0, <1>e, <3>1
    <3> HIDE DEF X
    <3>3. \E g : Folding(g, m, e, F) /\ \A t \in SUBSET (1..m) : g[t] \in X
      BY <3>2, FoldsExist
    <3> QED BY <3>3 DEF X
  <2>4. ASSUME NEW t \in SUBSET (1..m), t # {}
        PROVE  F[Max(t)][g[t \ {Max(t)}]] = Scanned(g[t \ {Max(t)}], o[Max(t)], at0)
    <3>1. Max(t) \in 1..m
      BY <1>0, <2>4, LargestOf
    <3>2. g[t \ {Max(t)}] \in Scans(S)
      BY <2>3
    <3> QED BY <2>1, <3>1, <3>2
  <2>5. g = [t \in SUBSET DOMAIN o |->
                IF t = {} THEN e ELSE Scanned(g[t \ {Max(t)}], o[Max(t)], at0)]
    BY <1>0, <2>3, <2>4, Zenon DEF Folding
  <2> QED BY <2>5
<1>3. It = [t \in SUBSET DOMAIN o |->
              IF t = {} THEN e ELSE Scanned(It[t \ {Max(t)}], o[Max(t)], at0)]
  BY <1>2
<1> HIDE DEF It
<1>4. \A t \in SUBSET (1..m) :
         It[t] = IF t = {} THEN e ELSE Scanned(It[t \ {Max(t)}], o[Max(t)], at0)
  BY <1>0, <1>3, Zenon
<1> DEFINE Good1(k) == It[1..k] \in Scans(S) /\ ScannedTo(It[1..k], o, at0, k)
           K == {k \in 0..m : Good1(k)}
<1>5. 0 \in K
  <2>1. 1..0 = {} /\ 1..0 \in SUBSET (1..m) /\ 0 \in 0..m
    BY <1>0
  <2>2. It[1..0] = e
    BY <1>4, <2>1
  <2>3. ScannedTo(e, o, at0, 0)
    BY DEF ScannedTo, NoneScanned
  <2> QED BY <1>e, <2>1, <2>2, <2>3
<1>6. ASSUME NEW k \in 1..m, k - 1 \in K PROVE k \in K
  <2>1. 1..k \in SUBSET (1..m) /\ 1..k # {} /\ Max(1..k) = k /\ (1..k) \ {k} = 1..k - 1
    <3>1. k \in Nat \ {0} /\ 1..k \in SUBSET (1..m)
      BY <1>0
    <3> QED BY <3>1, PlacesUpTo
  <2>2. It[1..k] = Scanned(It[1..k - 1], o[k], at0)
    BY <1>4, <2>1
  <2> DEFINE a == It[1..k - 1]
  <2>4. a \in Scans(S) /\ ScannedTo(a, o, at0, k - 1)
    BY <1>6
  <2>5. It[1..k] = Scanned(a, o[k], at0)
    BY <2>2
  <2> HIDE DEF a
  <2>6. Scanned(a, o[k], at0) \in Scans(S) /\ ScannedTo(Scanned(a, o[k], at0), o, at0, k)
    BY <2>4, ScanFits
  <2>8. k \in 0..m
    BY <1>0
  <2> QED BY <2>5, <2>6, <2>8
<1>7. m \in K
  <2> HIDE DEF K
  <2>1. \A k \in 0..m : k \in K
    BY <1>0, <1>5, <1>6, StepsUp
  <2> QED BY <1>0, <2>1
<1> QED BY <1>0, <1>1, <1>7

(* In order of time *)
AheadInTime(a, b) == pool.at[a] < pool.at[b] \/ (pool.at[a] = pool.at[b] /\ a < b)
TimeLine == Arranged(All, {p \in All \X All : AheadInTime(p[1], p[2])})

LEMMA KeysAre == session_keys = ScanOf(TimeLine, All, pool.at).keys
  BY DEF session_keys, ScanOf, TimeLine, SortedBy, AheadInTime, Scanned, GroupOf, NoneScanned

Earlier == {p \in All \X All : pool.at[p[1]] < pool.at[p[2]]}

(* The time line, and where the sessions open on it *)
LEMMA SessionsScanned ==
    ASSUME pool \in Pools
    PROVE  /\ IsOrderOf(TimeLine, All) /\ InOrder(TimeLine, Earlier)
           /\ session_keys \in [All -> 0..pool.n]
           /\ \A p \in 1..(Len(TimeLine) - 1) : Steps(session_keys, TimeLine, pool.at, p)
<1> DEFINE n == pool.n
           S == All
           at0 == pool.at
           R == {p \in S \X S : AheadInTime(p[1], p[2])}
           o == TimeLine
           m == Len(o)
           a == ScanOf(o, S, at0)
<1>1. n \in Nat /\ S \in SUBSET (1..n) /\ S \in SUBSET (0..n) /\ at0 \in [1..n -> Int]
  BY PoolScored
<1>2. RanksBy(Earlier, R, S)
  <2>1. \A x \in S : at0[x] \in Int
    BY <1>1
  <2>2. \A x, y \in S : /\ <<x, y>> \in Earlier <=> at0[x] < at0[y]
                        /\ <<x, y>> \in R <=> at0[x] < at0[y] \/ (at0[x] = at0[y] /\ x < y)
    BY DEF Earlier, AheadInTime
  <2> HIDE DEF S, at0, R
  <2> QED BY <2>1, <2>2 DEF RanksBy
<1>3. o = Arranged(S, R)
  BY DEF TimeLine
<1> HIDE DEF n, S, at0, R, o
<1>4. IsOrderOf(o, S) /\ InOrder(o, Earlier)
  BY <1>1, <1>2, <1>3, ArrangedInOrder
<1>5. m \in 0..n
  BY <1>1, <1>4, OrderLength
<1>6. /\ o \in Seq(S) /\ DOMAIN o = 1..m
      /\ \A k \in 1..m : o[k] \in S
      /\ \A i, j \in 1..m : o[i] = o[j] => i = j
  <2>1. o \in Seq(S) /\ DOMAIN o = 1..m
    BY <1>4 DEF IsOrderOf
  <2> QED BY <1>4, <2>1 DEF IsOrderOf
<1>7. Lined(o, S, m, at0, n)
  BY <1>1, <1>5, <1>6 DEF Lined
<1> HIDE DEF a
<1>8. a \in Scans(S) /\ ScannedTo(a, o, at0, m)
  <2> HIDE DEF m
  <2>1. Len(o) = m
    BY DEF m
  <2> QED BY <1>6, <1>7, <2>1, ScanHolds DEF a
<1>9. session_keys = a.keys
  BY KeysAre DEF a, o, S, at0
<1>10. a.keys \in [S -> 0..n]
  <2>1. a.keys \in [S -> Nat] /\ a.group \in Nat /\ a.group <= n
    BY <1>1, <1>5, <1>8 DEF Scans, ScannedTo
  <2>2. \A i \in S : a.keys[i] <= a.group
    BY <1>8, <2>1 DEF ScannedTo
  <2> DEFINE f == a.keys
             top == a.group
  <2>3. f \in [S -> Nat] /\ top \in Nat /\ top <= n /\ \A i \in S : f[i] <= top
    BY <2>1, <2>2
  <2> HIDE DEF f, top
  <2>4. \A i \in S : f[i] \in 0..n
    BY <1>1, <2>3
  <2>5. f \in [S -> 0..n]
    BY <2>3, <2>4
  <2> QED BY <2>5 DEF f
<1>11. \A p \in 1..(m - 1) : Steps(a.keys, o, at0, p)
  BY <1>8 DEF ScannedTo
<1> QED BY <1>4, <1>9, <1>10, <1>11 DEF n, S, at0, o, m

(* A time line o whose keys step at long gaps *)
Timed(o, S, m, at0, n, keys) ==
    /\ Lined(o, S, m, at0, n)
    /\ \A i \in S : \E a \in 1..m : o[a] = i
    /\ \A i \in S : keys[i] \in Nat
    /\ \A x, y \in 1..m : x < y => at0[o[x]] <= at0[o[y]]
    /\ \A p \in 1..(m - 1) : Steps(keys, o, at0, p)

(* No gap between the a-th and the b-th is a long one *)
NoGap(o, at0, a, b) == \A p \in a..(b - 1) : ~LongGap(at0[o[p]], at0[o[p + 1]])

(* Sessions never close again, and two places share one when no long gap lies between them. *)
LEMMA SessionsRise ==
    ASSUME NEW o, NEW S, NEW m, NEW at0, NEW n, NEW keys, Timed(o, S, m, at0, n, keys),
           NEW a, a \in 1..m
    PROVE  \A b \in a..m : /\ keys[o[a]] <= keys[o[b]]
                           /\ keys[o[a]] = keys[o[b]] <=> NoGap(o, at0, a, b)
<1>1. /\ m \in Nat /\ \A k \in 1..m : o[k] \in S /\ keys[o[k]] \in Nat
      /\ \A p \in 1..(m - 1) : Steps(keys, o, at0, p)
  BY DEF Timed, Lined
<1> DEFINE Rises(b) == /\ keys[o[a]] <= keys[o[b]]
                       /\ keys[o[a]] = keys[o[b]] <=> NoGap(o, at0, a, b)
           K == {k \in 0..(m - a) : Rises(a + k)}
<1>2. 0 \in K
  <2>1. a..(a - 1) = {} /\ 0 \in 0..(m - a) /\ a + 0 = a
    BY <1>1
  <2>2. NoGap(o, at0, a, a)
    BY <2>1, Zenon DEF NoGap
  <2> QED BY <1>1, <2>1, <2>2
<1>3. ASSUME NEW k \in 1..(m - a), k - 1 \in K PROVE k \in K
  <2> DEFINE p == a + (k - 1)
  <2>1. p \in 1..(m - 1) /\ p + 1 = a + k /\ p \in 1..m /\ p + 1 \in 1..m /\ a <= p
    BY <1>1
  <2>2. keys[o[a]] <= keys[o[p]] /\ (keys[o[a]] = keys[o[p]] <=> NoGap(o, at0, a, p))
    BY <1>3
  <2>3. keys[o[p + 1]] = keys[o[p]] + IF LongGap(at0[o[p]], at0[o[p + 1]]) THEN 1 ELSE 0
    BY <1>1, <2>1 DEF Steps
  <2>4. k \in 0..(m - a)
    BY <1>1
  <2>5. p = a + (k - 1) /\ p + 1 = a + k
    BY <2>1
  <2> HIDE DEF p
  <2>6. NoGap(o, at0, a, p + 1) <=> NoGap(o, at0, a, p) /\ ~LongGap(at0[o[p]], at0[o[p + 1]])
    <3>1. a..((p + 1) - 1) = (a..(p - 1)) \cup {p}
      BY <1>1, <2>1
    <3> QED BY <3>1 DEF NoGap
  <2>7. keys[o[a]] \in Nat /\ keys[o[p]] \in Nat /\ keys[o[p + 1]] \in Nat
    BY <1>1, <2>1
  <2>8. Rises(p + 1)
    BY <2>2, <2>3, <2>6, <2>7
  <2> QED BY <2>4, <2>5, <2>8
<1>4. \A k \in 0..(m - a) : k \in K
  <2> HIDE DEF K
  <2>1. m - a \in Nat
    BY <1>1
  <2> QED BY <1>2, <1>3, <2>1, StepsUp
<1>5. \A b \in a..m : b - a \in 0..(m - a) /\ a + (b - a) = b
  BY <1>1
<1> HIDE DEF Rises
<1>6. ASSUME NEW b \in a..m PROVE Rises(b)
  <2>1. b - a \in K
    BY <1>4, <1>5
  <2>2. Rises(a + (b - a))
    BY <2>1
  <2> QED BY <1>5, <2>2
<1> QED BY <1>6 DEF Rises

(* From one time to the next, every step is a short one *)
Chained(S, at0, i, j) ==
    \A k \in S : at0[i] <= at0[k] /\ at0[k] < at0[j] => \E l \in S : at0[l] - at0[k] \in 1..Gap

(* Between an earlier place and a later one: no long gap is a chain of short ones. *)
LEMMA GapsAreChains ==
    ASSUME NEW o, NEW S, NEW m, NEW at0, NEW n, NEW keys, Timed(o, S, m, at0, n, keys),
           NEW a, NEW b, a \in 1..m, b \in a..m
    PROVE  NoGap(o, at0, a, b) <=> Chained(S, at0, o[a], o[b])
<1>1. /\ m \in Nat /\ \A k \in 1..m : o[k] \in S /\ at0[o[k]] \in Int
      /\ \A x, y \in 1..m : x < y => at0[o[x]] <= at0[o[y]]
      /\ \A i \in S : \E c \in 1..m : o[c] = i
      /\ \A i \in S : at0[i] \in Int
  <2>1. S \in SUBSET (1..n) /\ at0 \in [1..n -> Int] /\ \A k \in 1..m : o[k] \in S
    BY DEF Timed, Lined
  <2>2. \A i \in S : at0[i] \in Int
    BY <2>1
  <2>3. \A k \in 1..m : at0[o[k]] \in Int
    BY <2>1, <2>2
  <2> QED BY <2>1, <2>2, <2>3 DEF Timed, Lined
<1>2. Gap \in Nat
  BY RetrievalAssumption
<1> DEFINE t(k) == at0[o[k]]
<1>3. \A x, y \in 1..m : x <= y => t(x) <= t(y)
  <2> SUFFICES ASSUME NEW x \in 1..m, NEW y \in 1..m, x <= y PROVE t(x) <= t(y)
    OBVIOUS
  <2>1. CASE x = y
    BY <1>1, <2>1
  <2>2. CASE x < y
    BY <1>1, <2>2
  <2> QED BY <1>1, <2>1, <2>2
<1>4. \A x \in 1..m : t(x) \in Int /\ o[x] \in S
  BY <1>1
<1>5. b \in 1..m /\ a <= b
  BY <1>1
<1>6. ASSUME NoGap(o, at0, a, b), NEW k \in S, t(a) <= at0[k], at0[k] < t(b)
      PROVE  \E l \in S : at0[l] - at0[k] \in 1..Gap
  <2> DEFINE later == {q \in (a + 1)..b : at0[k] < t(q)}
  <2>1. at0[k] \in Int
    BY <1>1
  <2>2. later \in SUBSET Nat
    BY <1>1
  <2>3. b \in later
    <3>1. a # b
      BY <1>4, <1>5, <1>6, <2>1
    <3>2. b \in (a + 1)..b
      BY <1>1, <1>5, <3>1
    <3> QED BY <1>6, <3>2
  <2> DEFINE q == Min(later)
  <2>4. q \in later /\ \A x \in later : q <= x
    <3> HIDE DEF later
    <3> QED BY <2>2, <2>3, MinOf
  <2> HIDE DEF q
  <2>5. q \in (a + 1)..b /\ at0[k] < t(q)
    BY <2>4
  <2>6. q \in 1..m /\ q - 1 \in 1..m /\ q - 1 \in a..(b - 1) /\ (q - 1) + 1 = q
    BY <1>1, <1>5, <2>5
  <2>7. t(q - 1) <= at0[k]
    <3>1. CASE q - 1 = a
      BY <1>6, <3>1
    <3>2. CASE q - 1 # a
      <4>1. q - 1 \in (a + 1)..b
        BY <1>1, <1>5, <2>6, <3>2
      <4>2. q - 1 \notin later
        BY <2>4, <2>6
      <4>3. ~(at0[k] < t(q - 1))
        BY <4>1, <4>2
      <4> QED BY <1>4, <2>1, <2>6, <4>3
    <3> QED BY <3>1, <3>2
  <2>8. at0[k] <= t(q - 1)
    <3>1. PICK c \in 1..m : o[c] = k
      BY <1>1
    <3>2. c < q
      BY <1>3, <1>4, <2>1, <2>5, <2>6, <3>1
    <3>3. c <= q - 1
      BY <2>6, <3>2
    <3> QED BY <1>3, <2>6, <3>1, <3>3
  <2>9. ~LongGap(at0[o[q - 1]], at0[o[q]])
    BY <1>6, <2>6 DEF NoGap
  <2>10. t(q) - at0[k] \in 1..Gap
    BY <1>2, <1>4, <2>1, <2>5, <2>6, <2>7, <2>8, <2>9 DEF LongGap
  <2> QED BY <1>4, <2>6, <2>10
<1>7. ASSUME Chained(S, at0, o[a], o[b]), NEW p \in a..(b - 1) PROVE ~LongGap(t(p), t(p + 1))
  <2>1. p \in 1..m /\ p + 1 \in 1..m /\ p + 1 <= b /\ a <= p
    BY <1>1, <1>5
  <2>2. t(a) <= t(p) /\ t(p) <= t(p + 1) /\ t(p + 1) <= t(b)
    BY <1>3, <1>5, <2>1
  <2>3. CASE t(p) = t(b)
    BY <1>2, <1>4, <1>5, <2>1, <2>2, <2>3 DEF LongGap
  <2>4. CASE t(p) # t(b)
    <3>1. t(p) < t(b)
      BY <1>4, <1>5, <2>1, <2>2, <2>4
    <3>2. PICK l \in S : at0[l] - at0[o[p]] \in 1..Gap
      BY <1>4, <1>7, <2>1, <2>2, <3>1 DEF Chained
    <3>3. PICK d \in 1..m : o[d] = l
      BY <1>1
    <3>4. t(p) < t(d) /\ t(d) - t(p) <= Gap
      BY <1>2, <1>4, <2>1, <3>2, <3>3
    <3>5. p < d
      BY <1>3, <1>4, <2>1, <3>4
    <3>6. t(p + 1) <= t(d)
      <4>1. p + 1 <= d
        BY <2>1, <3>5
      <4> QED BY <1>3, <2>1, <4>1
    <3> QED BY <1>2, <1>4, <2>1, <3>4, <3>6 DEF LongGap
  <2> QED BY <2>3, <2>4
<1>8. NoGap(o, at0, a, b) => Chained(S, at0, o[a], o[b])
  BY <1>6 DEF Chained
<1>9. Chained(S, at0, o[a], o[b]) => NoGap(o, at0, a, b)
  BY <1>7 DEF NoGap
<1> QED BY <1>8, <1>9

(* A session is what a chain of short gaps connects, whatever the order of ids. *)
LEMMA SessionsAreWhole == ASSUME pool \in Pools PROVE SessionsWhole
<1> DEFINE n == pool.n
           S == All
           at0 == pool.at
           o == TimeLine
           m == Len(o)
           keys == session_keys
<1>1. n \in Nat /\ S \in SUBSET (1..n) /\ at0 \in [1..n -> Int]
  BY PoolScored
<1>2. /\ IsOrderOf(o, S) /\ InOrder(o, Earlier) /\ keys \in [S -> 0..n]
      /\ \A p \in 1..(m - 1) : Steps(keys, o, at0, p)
  BY SessionsScanned
<1>3. \A x, y \in S : <<x, y>> \in Earlier <=> at0[x] < at0[y]
  BY DEF Earlier
<1>g. SessionsWhole = \A i, j \in S : at0[i] <= at0[j] => (keys[i] = keys[j] <=> Chained(S, at0, i, j))
  BY DEF SessionsWhole, Chained
<1> HIDE DEF n, S, at0, o, keys
<1>4. /\ m \in Nat /\ \A k \in 1..m : o[k] \in S
      /\ \A i, j \in 1..m : o[i] = o[j] => i = j
      /\ \A i \in S : \E a \in 1..m : o[a] = i
  <2>1. o \in Seq(S) /\ DOMAIN o = 1..m /\ Range(o) = S
    BY <1>2 DEF IsOrderOf
  <2>2. \A i, j \in 1..m : o[i] = o[j] => i = j
    BY <1>2, <2>1 DEF IsOrderOf
  <2>3. \A i \in S : \E a \in 1..m : o[a] = i
    BY <2>1, Zenon DEF Range
  <2>4. m \in Nat /\ \A k \in 1..m : o[k] \in S
    BY <2>1
  <2> HIDE DEF m
  <2> QED BY <2>2, <2>3, <2>4
<1>5. \A x, y \in 1..m : x < y => at0[o[x]] <= at0[o[y]]
  <2> SUFFICES ASSUME NEW x \in 1..m, NEW y \in 1..m, x < y PROVE at0[o[x]] <= at0[o[y]]
    OBVIOUS
  <2>1. <<o[y], o[x]>> \notin Earlier
    BY <1>2 DEF InOrder
  <2>2. o[x] \in S /\ o[y] \in S
    BY <1>4
  <2>3. ~(at0[o[y]] < at0[o[x]])
    BY <1>3, <2>1, <2>2
  <2>4. at0[o[x]] \in Int /\ at0[o[y]] \in Int
    BY <1>1, <2>2
  <2> QED BY <2>3, <2>4
<1>6. Timed(o, S, m, at0, n, keys)
  <2>1. \A i \in S : keys[i] \in Nat
    BY <1>1, <1>2
  <2> HIDE DEF m
  <2> QED BY <1>1, <1>2, <1>4, <1>5, <2>1 DEF Timed, Lined
<1> HIDE DEF m
<1>7. ASSUME NEW i \in S, NEW j \in S, at0[i] <= at0[j]
      PROVE  keys[i] = keys[j] <=> Chained(S, at0, i, j)
  <2>1. PICK a \in 1..m : o[a] = i
    BY <1>4
  <2>2. PICK b \in 1..m : o[b] = j
    BY <1>4
  <2>3. CASE a <= b
    <3>1. b \in a..m
      BY <1>4, <2>3
    <3>2. keys[o[a]] = keys[o[b]] <=> NoGap(o, at0, a, b)
      BY <1>6, <3>1, SessionsRise
    <3>3. NoGap(o, at0, a, b) <=> Chained(S, at0, o[a], o[b])
      BY <1>6, <3>1, GapsAreChains
    <3> QED BY <2>1, <2>2, <3>2, <3>3
  <2>4. CASE b < a
    <3>0. a \in b..m
      BY <1>4, <2>4
    <3>t. \A k \in S : at0[k] \in Int
      BY <1>1
    <3>1. at0[j] <= at0[i]
      BY <1>5, <2>1, <2>2, <2>4
    <3>2. at0[i] = at0[j]
      BY <1>7, <3>1, <3>t
    <3>3. Chained(S, at0, i, j) /\ Chained(S, at0, j, i)
      BY <3>2, <3>t DEF Chained
    <3>4. NoGap(o, at0, b, a)
      BY <1>6, <2>1, <2>2, <3>0, <3>3, GapsAreChains
    <3>5. keys[o[b]] = keys[o[a]]
      BY <1>6, <3>0, <3>4, SessionsRise
    <3> QED BY <2>1, <2>2, <3>3, <3>5
  <2> QED BY <1>4, <2>3, <2>4
<1> QED BY <1>7, <1>g

(* Nobody outscores i *)
Unbeaten(scores, i) == i \in All /\ \A j \in All : scores[j] <= scores[i]

(* A cue's best session is among its top ones. *)
LEMMA TopKept ==
    ASSUME pool \in Pools, NEW keys, keys \in [All -> 0..pool.n],
           NEW scores, scores \in [1..pool.n -> Int], NEW i, Unbeaten(scores, i)
    PROVE  \E j \in All : keys[j] \in TopSessions(keys, scores) /\ scores[j] = scores[i]
<1> DEFINE n == pool.n
           S == All
           ids == Range(keys)
           R == {p \in ids \X ids :
                   \/ Best(keys, scores, p[1]) > Best(keys, scores, p[2])
                   \/ Best(keys, scores, p[1]) = Best(keys, scores, p[2]) /\ p[1] < p[2]}
           D == {p \in ids \X ids : Best(keys, scores, p[1]) > Best(keys, scores, p[2])}
           ranked == Arranged(ids, R)
           q == Take(ranked, PruneTopN)
           best(k) == Best(keys, scores, k)
           own(k) == {j \in S : keys[j] = k}
<1>1. /\ n \in Nat /\ S \in SUBSET (1..n) /\ keys \in [S -> 0..n] /\ scores \in [1..n -> Int]
      /\ i \in S /\ \A j \in S : scores[j] <= scores[i]
  BY PoolScored DEF Unbeaten
<1>2. TopSessions(keys, scores) = Range(q)
  BY DEF TopSessions, SortedBy
<1>3. ids \in SUBSET (0..n) /\ \A k \in ids : \E j \in S : keys[j] = k
  <2>1. DOMAIN keys = S /\ \A j \in S : keys[j] \in 0..n
    BY <1>1
  <2>2. \A k \in ids : \E j \in S : keys[j] = k
    BY <2>1, Zenon DEF Range
  <2> HIDE DEF S, n
  <2> QED BY <2>1, <2>2
<1>4. keys[i] \in ids
  BY <1>1 DEF Range
<1>5. ASSUME NEW k \in ids
      PROVE  /\ best(k) \in Int /\ (\E j \in S : keys[j] = k /\ best(k) = scores[j])
             /\ \A j \in S : keys[j] = k => scores[j] <= best(k)
  <2> DEFINE T == own(k)
  <2>1. T \in SUBSET (1..n) /\ T # {} /\ \A j \in T : j \in S /\ keys[j] = k
    BY <1>1, <1>3
  <2>2. best(k) = Max({scores[j] : j \in T})
    BY DEF Best
  <2>4. \A j \in S : keys[j] = k => j \in T
    OBVIOUS
  <2> HIDE DEF T
  <2>3. /\ Max({scores[j] : j \in T}) \in Int
        /\ \E j \in T : Max({scores[l] : l \in T}) = scores[j]
        /\ \A j \in T : scores[j] <= Max({scores[l] : l \in T})
    BY <1>1, <2>1, BestScore
  <2> HIDE DEF best, S
  <2> QED BY <2>1, <2>2, <2>3, <2>4
<1>6. /\ \A x, y \in ids : <<x, y>> \in D <=> best(x) > best(y)
      /\ \A x, y \in ids : <<x, y>> \in R <=> best(x) > best(y) \/ (best(x) = best(y) /\ x < y)
  OBVIOUS
<1> HIDE DEF R, D, best, ids, n, S, q, ranked
<1>7. RanksBy(D, R, ids)
  BY <1>5, <1>6 DEF RanksBy
<1>8. IsOrderOf(ranked, ids) /\ InOrder(ranked, D)
  BY <1>1, <1>3, <1>7, ArrangedInOrder DEF ranked
<1>9. /\ ranked \in Seq(ids) /\ DOMAIN ranked = 1..Len(ranked) /\ Len(ranked) \in Nat
      /\ Range(ranked) = ids
  BY <1>8 DEF IsOrderOf
<1>10. PICK a \in 1..Len(ranked) : ranked[a] = keys[i]
  BY <1>4, <1>9, Zenon DEF Range
<1>11. /\ q \in Seq(ids) /\ StartOf(q, ranked) /\ q # <<>>
  <2>1. PruneTopN \in Nat /\ PruneTopN # 0
    BY RetrievalAssumption
  <2>2. ranked # <<>>
    BY <1>9, <1>10
  <2> QED BY <1>9, <2>1, <2>2, TakeIs DEF q
<1> DEFINE k == q[1]
<1>12. k \in Range(q) /\ k = ranked[1] /\ k \in ids /\ 1 \in 1..Len(ranked)
  <2>1. 1 \in 1..Len(q) /\ DOMAIN q = 1..Len(q)
    BY <1>11
  <2>2. q[1] = ranked[1] /\ 1 \in 1..Len(ranked)
    BY <1>9, <1>11, <2>1 DEF StartOf
  <2>3. q[1] \in Range(q)
    BY <2>1 DEF Range
  <2> QED BY <1>11, <2>1, <2>2, <2>3
<1> HIDE DEF k
<1>13. best(keys[i]) <= best(k)
  <2>1. <<ranked[a], ranked[1]>> \notin D
    <3>1. CASE a = 1
      BY <1>5, <1>6, <1>10, <1>12, <3>1
    <3>2. CASE a # 1
      <4>1. 1 < a
        BY <1>9, <1>10, <3>2
      <4> QED BY <1>8, <1>10, <1>12, <4>1 DEF InOrder
    <3> QED BY <3>1, <3>2
  <2>2. ~(best(keys[i]) > best(k))
    BY <1>4, <1>6, <1>10, <1>12, <2>1
  <2>3. best(keys[i]) \in Int /\ best(k) \in Int
    BY <1>4, <1>5, <1>12
  <2> QED BY <2>2, <2>3
<1>14. PICK j \in S : keys[j] = k /\ best(k) = scores[j]
  BY <1>5, <1>12
<1>15. scores[i] <= best(keys[i])
  BY <1>1, <1>4, <1>5
<1>16. scores[j] = scores[i]
  <2>1. scores[i] \in Int /\ scores[j] \in Int /\ best(keys[i]) \in Int
    BY <1>1, <1>4, <1>5
  <2> QED BY <1>1, <1>13, <1>14, <1>15, <2>1
<1> QED BY <1>2, <1>12, <1>14, <1>16 DEF S

(* Pruning never loses either cue's best. *)
LEMMA PruneKeepsBest ==
    ASSUME pool \in Pools, Prune
    PROVE  /\ survived' \subseteq All
           /\ \A scores \in {pool.lex, pool.den} : \A i \in All :
                 (\A j \in All : scores[j] <= scores[i]) =>
                     \E j \in survived' : scores[j] = scores[i]
<1> DEFINE keys == session_keys
<1>1. survived' = IF Gated THEN {i \in All : keys[i] \in surviving_sessions(keys)} ELSE All
  BY DEF Prune
<1>2. keys \in [All -> 0..pool.n]
  BY SessionsScanned
<1>3. survived' \subseteq All
  BY <1>1
<1> SUFFICES ASSUME NEW scores \in {pool.lex, pool.den}, NEW i \in All, \A j \in All : scores[j] <= scores[i]
             PROVE  \E j \in survived' : scores[j] = scores[i]
  BY <1>3
<1>4. scores \in [1..pool.n -> Int] /\ Unbeaten(scores, i)
  BY PoolScored DEF Unbeaten
<1> HIDE DEF keys
<1>5. PICK j \in All : keys[j] \in TopSessions(keys, scores) /\ scores[j] = scores[i]
  BY <1>2, <1>4, TopKept
<1>6. CASE ~Gated
  BY <1>1, <1>6
<1>7. CASE Gated /\ Cardinality(Range(keys)) <= PruneTopN
  <2>1. surviving_sessions(keys) = Range(keys)
    BY <1>7 DEF surviving_sessions
  <2>2. keys[i] \in Range(keys)
    BY <1>2 DEF Range
  <2> QED BY <1>1, <1>7, <2>1, <2>2
<1>8. CASE Gated /\ ~(Cardinality(Range(keys)) <= PruneTopN)
  <2>1. surviving_sessions(keys) = TopSessions(keys, pool.lex) \cup TopSessions(keys, pool.den)
    BY <1>8 DEF surviving_sessions
  <2>2. keys[j] \in surviving_sessions(keys)
    BY <1>5, <2>1
  <2> QED BY <1>1, <1>5, <1>8, <2>2
<1> QED BY <1>6, <1>7, <1>8

(* Products of numbers that are not below zero keep their order. *)
LEMMA TimesMore == ASSUME NEW a \in Int, NEW b \in Int, NEW c \in Nat, a <= b PROVE a * c <= b * c
<1>1. (b - a) * c \in Nat
  <2>1. b - a \in Nat
    OBVIOUS
  <2> DEFINE d == b - a
  <2> HIDE DEF d
  <2>2. d * c \in Nat
    BY <2>1, Products DEF d
  <2> QED BY <2>2 DEF d
<1>2. (b - a) * c = b * c - a * c
  OBVIOUS
<1>3. a * c \in Int /\ b * c \in Int
  OBVIOUS
<1> QED BY <1>1, <1>2, <1>3

LEMMA TimesOver == ASSUME NEW a \in Int, NEW b \in Int, NEW c \in Nat \ {0}, a < b PROVE a * c < b * c
<1>1. (a + 1) * c <= b * c
  BY TimesMore
<1>2. (a + 1) * c = a * c + c
  OBVIOUS
<1>3. a * c \in Int /\ b * c \in Int
  OBVIOUS
<1> QED BY <1>1, <1>2, <1>3

Fraction(x) == x.num \in Nat /\ x.den \in Nat \ {0}

(* Fractions compared across are in order. *)
LEMMA FusionRanks ==
    ASSUME NEW x, NEW y, NEW z, Fraction(x), Fraction(y), Fraction(z)
    PROVE  /\ FusionAbove(x, y) => ~FusionAbove(y, x)
           /\ FusionAbove(x, z) => FusionAbove(x, y) \/ FusionAbove(y, z)
<1> DEFINE a == x.num
           b == x.den
           c == y.num
           d == y.den
           e == z.num
           f == z.den
<1>1. a \in Nat /\ c \in Nat /\ e \in Nat /\ b \in Nat \ {0} /\ d \in Nat \ {0} /\ f \in Nat \ {0}
  BY DEF Fraction
<1>2. /\ FusionAbove(x, y) <=> a * d > c * b
      /\ FusionAbove(y, x) <=> c * b > a * d
      /\ FusionAbove(x, z) <=> a * f > e * b
      /\ FusionAbove(y, z) <=> c * f > e * d
  BY DEF FusionAbove
<1> HIDE DEF a, b, c, d, e, f
<1>3. /\ a * d \in Nat /\ c * b \in Nat /\ a * f \in Nat /\ e * b \in Nat /\ c * f \in Nat /\ e * d \in Nat
  BY <1>1, Products
<1>4. ASSUME a * f > e * b, a * d <= c * b, c * f <= e * d PROVE FALSE
  <2>1. (a * d) * f <= (c * b) * f
    BY <1>1, <1>3, <1>4, TimesMore
  <2>2. (c * f) * b <= (e * d) * b
    BY <1>1, <1>3, <1>4, TimesMore
  <2>3. (e * b) * d < (a * f) * d
    BY <1>1, <1>3, <1>4, TimesOver
  <2>4. (a * d) * f = (a * f) * d /\ (c * b) * f = (c * f) * b /\ (e * d) * b = (e * b) * d
    BY <1>1
  <2>5. (a * f) * d \in Nat /\ (c * f) * b \in Nat /\ (e * b) * d \in Nat
    BY <1>1, <1>3, Products
  <2> QED BY <2>1, <2>2, <2>3, <2>4, <2>5
<1> QED BY <1>2, <1>3, <1>4

(* What both graphs rank ahead is worth more. *)
LEMMA FusionAgrees ==
    ASSUME NEW p \in Nat, NEW q \in Nat, NEW r \in Nat, NEW s \in Nat
    PROVE  /\ Fraction(fusion(p, q))
           /\ p < r /\ q < s => FusionAbove(fusion(p, q), fusion(r, s))
<1>0. RrfK \in Nat \ {0}
  BY RetrievalAssumption
<1> DEFINE a == RrfK + p
           b == RrfK + q
           c == RrfK + r
           d == RrfK + s
<1>1. a \in Nat \ {0} /\ b \in Nat \ {0} /\ c \in Nat \ {0} /\ d \in Nat \ {0}
  BY <1>0
<1>2. /\ fusion(p, q).num = a + b /\ fusion(p, q).den = a * b
      /\ fusion(r, s).num = c + d /\ fusion(r, s).den = c * d
  BY <1>0 DEF fusion
<1>3. p < r /\ q < s => a < c /\ b < d
  BY <1>0
<1> HIDE DEF a, b, c, d
<1>4. a * b \in Nat \ {0}
  <2>1. 0 * b < a * b
    BY <1>1, TimesOver
  <2>2. a * b \in Nat /\ 0 * b = 0
    BY <1>1, Products
  <2> QED BY <2>1, <2>2
<1>5. ASSUME a < c, b < d PROVE (a + b) * (c * d) > (c + d) * (a * b)
  <2>1. a * c \in Nat \ {0} /\ b * d \in Nat \ {0}
    <3>1. 0 * c < a * c /\ 0 * d < b * d /\ 0 * c = 0 /\ 0 * d = 0
      BY <1>1, TimesOver
    <3>2. a * c \in Nat /\ b * d \in Nat
      BY <1>1, Products
    <3> QED BY <3>1, <3>2
  <2>2. b * (a * c) < d * (a * c)
    BY <1>1, <1>5, <2>1, TimesOver
  <2>3. a * (b * d) < c * (b * d)
    BY <1>1, <1>5, <2>1, TimesOver
  <2>4. (a + b) * (c * d) = d * (a * c) + c * (b * d)
    BY <1>1
  <2>5. (c + d) * (a * b) = b * (a * c) + a * (b * d)
    BY <1>1
  <2>6. d * (a * c) \in Nat /\ c * (b * d) \in Nat /\ b * (a * c) \in Nat /\ a * (b * d) \in Nat
    BY <1>1, <2>1, Products
  <2> QED BY <2>2, <2>3, <2>4, <2>5, <2>6
<1>6. Fraction(fusion(p, q))
  BY <1>1, <1>2, <1>4 DEF Fraction
<1>7. p < r /\ q < s => FusionAbove(fusion(p, q), fusion(r, s))
  BY <1>2, <1>3, <1>5 DEF FusionAbove
<1> QED BY <1>6, <1>7

-----------------------------------------------------------------------------
(* What is written back of a slate *)

LEMMA WrittenBack ==
    ASSUME NEW slate, slate \in Seq(All), NEW f, f \in Scorings(slate)
    PROVE  /\ WriteBack(slate, f) \in [All -> Logits \cup {Fail}]
           /\ \A i \in All : WriteBack(slate, f)[i] # Fail => i \in Range(slate)
           /\ \A k \in DOMAIN slate : f[k] \in Logits \cup {Fail}
           /\ \A k \in DOMAIN slate :
                 (\A l \in DOMAIN slate : slate[l] = slate[k] => l = k) =>
                     WriteBack(slate, f)[slate[k]] = f[k]
<1> DEFINE X == Logits \cup {Fail}
           w == WriteBack(slate, f)
           place(i) == CHOOSE k \in DOMAIN slate : slate[k] = i
<1>1. f \in [DOMAIN slate -> X]
  BY DEF Scorings
<1>2. \A i \in All : i \in Range(slate) => place(i) \in DOMAIN slate /\ slate[place(i)] = i
  BY DEF Range
<1>3. w = [i \in All |-> IF i \in Range(slate) THEN f[place(i)] ELSE Fail]
  BY DEF WriteBack
<1>4. Fail \in X
  OBVIOUS
<1>s. \A k \in DOMAIN slate : slate[k] \in All /\ slate[k] \in Range(slate)
  BY DEF Range
<1> HIDE DEF X, w, place
<1>5. \A i \in All : w[i] = IF i \in Range(slate) THEN f[place(i)] ELSE Fail
  BY <1>3
<1>6. \A i \in All : w[i] \in X
  BY <1>1, <1>2, <1>4, <1>5
<1>7. w \in [All -> X]
  BY <1>3, <1>6
<1>8. \A i \in All : w[i] # Fail => i \in Range(slate)
  BY <1>5
<1>9. ASSUME NEW k \in DOMAIN slate, \A l \in DOMAIN slate : slate[l] = slate[k] => l = k
      PROVE  w[slate[k]] = f[k]
  <2>1. place(slate[k]) = k
    BY <1>2, <1>9, <1>s
  <2> QED BY <1>5, <1>s, <2>1
<1>10. \A k \in DOMAIN slate : f[k] \in X
  BY <1>1
<1> QED BY <1>7, <1>8, <1>9, <1>10 DEF X, w

(* A logit is a number, and above none. *)
LEMMA LogitsAre ==
    ASSUME NEW x, x \in Logits \cup {Fail}
    PROVE  x \in Int /\ Fail \in Int /\ (x # Fail => x > Fail)
  BY RetrievalAssumption DEF Fail

(* Only survivors are scored. *)
LEMMA RerankScores ==
    ASSUME pool \in Pools, survived \subseteq All, Rerank
    PROVE  /\ logit' \in [All -> Logits \cup {Fail}]
           /\ \A i \in All : logit'[i] # Fail => i \in survived
<1>1. CASE plan \in {"shipped", "cascade"}
  <2> DEFINE k == IF plan = "cascade" THEN CascadeSlate ELSE RerankBudget
             R == {p \in survived \X survived :
                    LET a == p[1]
                        b == p[2]
                    IN  \/ ZGreater(judge(a).z, judge(b).z)
                        \/ /\ ZEqual(judge(a).z, judge(b).z)
                           /\ \/ judge(a).margin > judge(b).margin
                              \/ judge(a).margin = judge(b).margin /\ a < b}
             o == Arranged(survived, R)
  <2>1. Slate = Take(o, k)
    BY DEF Slate, draw_slate, SortedBy
  <2>2. k \in Nat
    BY RetrievalAssumption
  <2> HIDE DEF k, R
  <2>3. survived \in SUBSET (1..pool.n) /\ pool.n \in Nat
    BY PoolScored
  <2>4. IsOrderOf(o, survived)
    BY <2>3, ArrangedIs
  <2>5. o \in Seq(survived)
    BY <2>4 DEF IsOrderOf
  <2>6. Slate \in Seq(survived)
    BY <2>1, <2>2, <2>5, TakeIs
  <2>7. Slate \in Seq(All)
    BY <2>6, WiderSeq
  <2>8. PICK f \in Scorings(Slate) : logit' = WriteBack(Slate, f)
    BY <1>1 DEF Rerank
  <2>9. \A i \in Range(Slate) : i \in survived
    BY <2>6, TakenFrom
  <2> QED BY <2>7, <2>8, <2>9, WrittenBack
<1>2. CASE plan \notin {"shipped", "cascade"}
  <2>1. logit' = [i \in All |-> Fail]
    BY <1>2 DEF Rerank
  <2> QED BY <2>1
<1> QED BY <1>1, <1>2

LogitsTyped == logit \in [All -> Logits \cup {Fail}]

LEMMA LogitIs == ASSUME LogitsTyped PROVE \A i \in All : logit[i] \in Int
<1>1. \A i \in All : logit[i] \in Logits \cup {Fail}
  BY DEF LogitsTyped
<1> QED BY <1>1, LogitsAre

(* The narrowed ones are scored, each once, best first. *)
LEMMA NarrowedIs ==
    ASSUME pool \in Pools, LogitsTyped
    PROVE  /\ Narrowed \in Seq(All) /\ DOMAIN Narrowed = 1..Len(Narrowed)
           /\ Len(Narrowed) \in 0..pool.n
           /\ \A a \in 1..Len(Narrowed) : Narrowed[a] \in Scored
           /\ \A a, b \in 1..Len(Narrowed) : Narrowed[a] = Narrowed[b] => a = b
           /\ \A a, b \in 1..Len(Narrowed) : ByLogit(Narrowed[a], Narrowed[b]) => a < b
<1> DEFINE n == pool.n
           S == Scored
           R == {p \in S \X S : ByLogit(p[1], p[2])}
           o == Arranged(S, R)
           N == Narrowed
           m == Len(N)
<1>1. n \in Nat /\ S \in SUBSET (1..n) /\ S \in SUBSET (0..n) /\ S \in SUBSET All
  BY PoolScored DEF Scored
<1>2. N = Take(o, CascadeNarrow) /\ CascadeNarrow \in Nat
  BY RetrievalAssumption DEF Narrowed, SortedBy
<1>3. \A x \in S : logit[x] \in Int /\ x \in Int
  BY <1>1, LogitIs
<1>4. \A x, y \in S : <<x, y>> \in R <=> logit[x] > logit[y] \/ (logit[x] = logit[y] /\ x < y)
  BY DEF ByLogit
<1>5. \A x, y \in S : ByLogit(x, y) <=> <<x, y>> \in R
  OBVIOUS
<1> HIDE DEF R, S, n, o, N
<1>6. RanksBy(R, R, S)
  BY <1>3, <1>4 DEF RanksBy
<1>7. IsOrderOf(o, S) /\ InOrder(o, R)
  BY <1>1, <1>6, ArrangedInOrder DEF o
<1>8. Len(o) \in 0..n
  BY <1>1, <1>7, OrderLength
<1>9. o \in Seq(S) /\ DOMAIN o = 1..Len(o) /\ \A i, j \in 1..Len(o) : o[i] = o[j] => i = j
  <2>1. o \in Seq(S) /\ DOMAIN o = 1..Len(o)
    BY <1>7 DEF IsOrderOf
  <2> QED BY <1>7, <2>1 DEF IsOrderOf
<1>10. N \in Seq(S) /\ Len(N) <= Len(o) /\ \A i \in 1..Len(N) : N[i] = o[i]
  BY <1>2, <1>9, TakeIs DEF StartOf
<1>11. N \in Seq(All) /\ DOMAIN N = 1..m /\ \A a \in 1..m : N[a] \in S
  <2>1. N \in Seq(S) /\ S \in SUBSET All
    BY <1>1, <1>10
  <2>2. N \in Seq(All)
    BY <2>1, WiderSeq
  <2>3. DOMAIN N = 1..m
    BY <2>1
  <2>4. \A a \in 1..m : N[a] \in S
    BY <2>1
  <2> QED BY <2>2, <2>3, <2>4
<1>12. m \in 0..n /\ m \in Nat
  BY <1>1, <1>8, <1>10
<1>13. \A a \in 1..m : a \in 1..Len(o)
  BY <1>1, <1>8, <1>10, <1>12
<1>14. \A a, b \in 1..m : N[a] = N[b] => a = b
  BY <1>9, <1>10, <1>13
<1>15. ASSUME NEW a \in 1..m, NEW b \in 1..m, ByLogit(N[a], N[b]) PROVE a < b
  <2>1. <<o[a], o[b]>> \in R /\ a \in 1..Len(o) /\ b \in 1..Len(o)
    BY <1>5, <1>10, <1>11, <1>13, <1>15
  <2>2. o[a] # o[b]
    BY <1>3, <1>4, <1>10, <1>11, <2>1
  <2>3. InOrder(o, R) /\ Len(o) \in Nat
    BY <1>7, <1>9
  <2> HIDE DEF m
  <2> QED BY <2>1, <2>2, <2>3, Precedes
<1> QED BY <1>11, <1>12, <1>14, <1>15 DEF m, N, n, S

(* What a second opinion prefers of two places *)
Prefers(sec, a, b) == sec[a] > sec[b] \/ (sec[a] = sec[b] /\ Narrowed[a] < Narrowed[b])

(* What is ahead by both opinions is ahead by their fusion. *)
LEMMA FusedInOrder ==
    ASSUME pool \in Pools, LogitsTyped, NEW m, m = Len(Narrowed), NEW sec, sec \in [1..m -> Int]
    PROVE  /\ IsOrderOf(cascade_fusion_order(sec), 1..m)
           /\ Len(cascade_fusion_order(sec)) = m
           /\ \A u, v \in 1..m :
                LET a == cascade_fusion_order(sec)[u]
                    b == cascade_fusion_order(sec)[v]
                IN  a < b /\ Prefers(sec, a, b) => u < v
<1> DEFINE N == Narrowed
           S == DOMAIN N
           Q == {p \in S \X S : Prefers(sec, p[1], p[2])}
           opinion == Arranged(S, Q)
           pos(a) == CHOOSE k \in DOMAIN opinion : opinion[k] = a
           worth(a) == fusion(a - 1, pos(a) - 1)
           R == {p \in S \X S : \/ FusionAbove(worth(p[1]), worth(p[2]))
                                \/ /\ ~FusionAbove(worth(p[2]), worth(p[1]))
                                   /\ N[p[1]] < N[p[2]]}
           D == {p \in S \X S : FusionAbove(worth(p[1]), worth(p[2]))}
           o == Arranged(S, R)
<1>1. /\ m \in Nat /\ S = 1..m /\ S \in SUBSET (1..m) /\ S \in SUBSET (0..m)
      /\ \A a \in S : N[a] \in Int
  <2>1. /\ N \in Seq(All) /\ DOMAIN N = 1..m /\ m \in 0..pool.n
    BY NarrowedIs
  <2>2. pool.n \in Nat /\ All \in SUBSET (1..pool.n)
    BY PoolScored
  <2> HIDE DEF N, S
  <2>3. S = 1..m /\ m \in Nat
    BY <2>1 DEF S
  <2>4. \A a \in S : N[a] \in All
    BY <2>1, <2>3
  <2>6. \A i \in All : i \in Int
    BY <2>2
  <2>5. \A a \in S : N[a] \in Int
    BY <2>4, <2>6, Zenon
  <2> QED BY <2>3, <2>5
<1>2. cascade_fusion_order(sec) = o
  BY DEF cascade_fusion_order, SortedBy, Prefers
<1>3. /\ \A x, y \in S : <<x, y>> \in Q <=> Prefers(sec, x, y)
      /\ \A x, y \in S : <<x, y>> \in Q <=> sec[x] > sec[y] \/ (sec[x] = sec[y] /\ N[x] < N[y])
  BY DEF Prefers
<1>4. \A x, y \in S : <<x, y>> \in D <=> FusionAbove(worth(x), worth(y))
  OBVIOUS
<1>5. \A x, y \in S : <<x, y>> \in R <=> \/ FusionAbove(worth(x), worth(y))
                                         \/ ~FusionAbove(worth(y), worth(x)) /\ N[x] < N[y]
  OBVIOUS
<1> HIDE DEF Q, R, D, N, S, opinion, o, pos
<1>6. \A x \in S : sec[x] \in Int
  BY <1>1
<1>7. RanksBy(Q, Q, S)
  <2>1. \A x \in S : N[x] \in Int
    BY <1>1
  <2>2. \A x, y \in S : <<x, y>> \in Q <=> sec[x] > sec[y] \/ (sec[x] = sec[y] /\ N[x] < N[y])
    BY <1>3
  <2>3. ASSUME NEW x \in S, NEW y \in S, <<x, y>> \in Q PROVE <<y, x>> \notin Q
    BY <1>6, <2>1, <2>2, <2>3
  <2>4. ASSUME NEW x \in S, NEW y \in S, NEW z \in S, <<x, z>> \in Q
        PROVE  <<x, y>> \in Q \/ <<y, z>> \in Q
    <3>1. /\ sec[x] \in Int /\ sec[y] \in Int /\ sec[z] \in Int
          /\ N[x] \in Int /\ N[y] \in Int /\ N[z] \in Int
      BY <1>6, <2>1
    <3>2. /\ sec[x] > sec[z] \/ (sec[x] = sec[z] /\ N[x] < N[z])
          /\ <<x, y>> \in Q <=> sec[x] > sec[y] \/ (sec[x] = sec[y] /\ N[x] < N[y])
          /\ <<y, z>> \in Q <=> sec[y] > sec[z] \/ (sec[y] = sec[z] /\ N[y] < N[z])
      BY <2>2, <2>4
    <3> QED BY <3>1, <3>2
  <2> QED BY <2>3, <2>4 DEF RanksBy
<1>8. IsOrderOf(opinion, S) /\ InOrder(opinion, Q)
  BY <1>1, <1>7, ArrangedInOrder DEF opinion
<1>9. /\ opinion \in Seq(S) /\ DOMAIN opinion = 1..Len(opinion) /\ Len(opinion) \in Nat
      /\ \A a \in S : pos(a) \in DOMAIN opinion /\ opinion[pos(a)] = a
  <2>1. opinion \in Seq(S) /\ Range(opinion) = S
    BY <1>8 DEF IsOrderOf
  <2>2. \A a \in S : \E k \in DOMAIN opinion : opinion[k] = a
    BY <2>1, Zenon DEF Range
  <2>3. \A a \in S : pos(a) \in DOMAIN opinion /\ opinion[pos(a)] = a
    BY <2>2 DEF pos
  <2> QED BY <2>1, <2>3
<1>10. \A a \in S : a - 1 \in Nat /\ pos(a) - 1 \in Nat /\ pos(a) \in Nat
  BY <1>1, <1>9
<1>11. ASSUME NEW a \in S, NEW b \in S, <<a, b>> \in Q PROVE pos(a) < pos(b)
  <2>1. a # b
    BY <1>3, <1>6, <1>1, <1>11
  <2> DEFINE i == pos(a)
             j == pos(b)
  <2>2. i \in 1..Len(opinion) /\ j \in 1..Len(opinion) /\ <<opinion[i], opinion[j]>> \in Q
        /\ opinion[i] # opinion[j]
    BY <1>9, <1>11, <2>1
  <2> HIDE DEF i, j
  <2>3. i < j
    BY <1>8, <1>9, <2>2, Precedes
  <2> QED BY <2>3 DEF i, j
<1>12. \A a \in S : Fraction(worth(a))
  BY <1>10, FusionAgrees
<1>13. ASSUME NEW a \in S, NEW b \in S, a < b, <<a, b>> \in Q PROVE <<a, b>> \in D
  <2> DEFINE p == a - 1
             q == pos(a) - 1
             r == b - 1
             s == pos(b) - 1
  <2>1. p \in Nat /\ q \in Nat /\ r \in Nat /\ s \in Nat
    BY <1>10
  <2>2. p < r /\ q < s
    BY <1>1, <1>10, <1>11, <1>13
  <2>3. worth(a) = fusion(p, q) /\ worth(b) = fusion(r, s)
    OBVIOUS
  <2> HIDE DEF p, q, r, s, worth
  <2>4. FusionAbove(fusion(p, q), fusion(r, s))
    BY <2>1, <2>2, FusionAgrees
  <2> QED BY <1>4, <2>3, <2>4
<1> HIDE DEF worth
<1>14. RanksBy(D, R, S)
  <2>1. ASSUME NEW x \in S, NEW y \in S, <<x, y>> \in D PROVE <<x, y>> \in R /\ <<y, x>> \notin R
    <3>1. FusionAbove(worth(x), worth(y)) /\ ~FusionAbove(worth(y), worth(x))
      BY <1>4, <1>12, <2>1, FusionRanks
    <3> QED BY <1>5, <3>1
  <2>2. ASSUME NEW x \in S, NEW y \in S, NEW z \in S, <<x, z>> \in D
        PROVE  <<x, y>> \in D \/ <<y, z>> \in D
    <3>1. FusionAbove(worth(x), worth(y)) \/ FusionAbove(worth(y), worth(z))
      BY <1>4, <1>12, <2>2, FusionRanks
    <3> QED BY <1>4, <3>1
  <2> QED BY <2>1, <2>2 DEF RanksBy
<1>15. IsOrderOf(o, S) /\ InOrder(o, D)
  BY <1>1, <1>14, ArrangedInOrder DEF o
<1>16. Len(o) = m
  <2>1. Len(o) = Cardinality(S)
    BY <1>1, <1>15, OrderLength
  <2>2. Cardinality(1..m) = m
    <3>1. 1 \in Int /\ m \in Int /\ m \in Nat
      BY <1>1
    <3>2. Cardinality(1..m) = IF 1 > m THEN 0 ELSE m - 1 + 1
      BY <3>1, FS_Interval
    <3> QED BY <3>1, <3>2
  <2> QED BY <1>1, <2>1, <2>2
<1>17. ASSUME NEW u \in 1..m, NEW v \in 1..m, o[u] < o[v], Prefers(sec, o[u], o[v]) PROVE u < v
  <2>1. o[u] \in S /\ o[v] \in S
    <3>1. o \in Seq(S)
      BY <1>15 DEF IsOrderOf
    <3> QED BY <1>16, <3>1
  <2>2. <<o[u], o[v]>> \in D
    BY <1>3, <1>13, <1>17, <2>1
  <2>3. o[u] # o[v]
    BY <1>1, <1>17, <2>1
  <2> QED BY <1>1, <1>15, <1>16, <2>2, <2>3, Precedes
<1> QED BY <1>1, <1>2, <1>15, <1>16, <1>17

RankTyped == DOMAIN rank \subseteq Scored /\ \A i \in DOMAIN rank : rank[i] \in 0..pool.n

(* The fusion ranks the narrowed ones, and keeps what both graphs agree on. *)
LEMMA FuseAgrees ==
    ASSUME pool \in Pools, LogitsTyped, Fuse
    PROVE  RankTyped' /\ AgreementKept'
<1> DEFINE N == Narrowed
           m == Len(N)
<1>1. /\ N \in Seq(All) /\ DOMAIN N = 1..m /\ m \in 0..pool.n
      /\ \A a \in 1..m : N[a] \in Scored
      /\ \A a, b \in 1..m : N[a] = N[b] => a = b
      /\ \A a, b \in 1..m : ByLogit(N[a], N[b]) => a < b
  BY NarrowedIs
<1>2. PICK f \in Scorings(N) :
         LET order == cascade_fusion_order([k \in DOMAIN N |-> StandIn(N[k], f[k])])
         IN  /\ second' = [i \in Range(N) |-> WriteBack(N, f)[i]]
             /\ rank' = [i \in Range(N) |-> (CHOOSE k \in DOMAIN order : N[order[k]] = i) - 1]
  BY Zenon DEF Fuse
<1> DEFINE sec == [k \in DOMAIN N |-> StandIn(N[k], f[k])]
           o == cascade_fusion_order(sec)
           w == WriteBack(N, f)
           at0(i) == CHOOSE k \in DOMAIN o : N[o[k]] = i
<1>3. second' = [i \in Range(N) |-> w[i]] /\ rank' = [i \in Range(N) |-> at0(i) - 1]
  BY <1>2
<1>4. pool' = pool /\ logit' = logit /\ All' = All /\ Scored' = Scored
  BY DEF Fuse, All, Scored
<1>5. pool.n \in Nat /\ m \in Nat /\ All \in SUBSET (1..pool.n)
  BY <1>1, PoolScored
<1>6. /\ w \in [All -> Logits \cup {Fail}]
      /\ \A k \in 1..m : f[k] \in Logits \cup {Fail}
      /\ \A k \in 1..m : w[N[k]] = f[k]
  <2>1. /\ w \in [All -> Logits \cup {Fail}]
        /\ \A k \in DOMAIN N : f[k] \in Logits \cup {Fail}
        /\ \A k \in DOMAIN N : (\A l \in DOMAIN N : N[l] = N[k] => l = k) => w[N[k]] = f[k]
    BY <1>1, WrittenBack
  <2> QED BY <1>1, <2>1
<1>7. \A k \in 1..m : f[k] \in Int /\ logit[N[k]] \in Int /\ N[k] \in All
  <2>1. \A k \in 1..m : f[k] \in Int
    BY <1>6, LogitsAre
  <2>2. \A k \in 1..m : N[k] \in All
    BY <1>1 DEF Scored
  <2>3. \A k \in 1..m : logit[N[k]] \in Int
    BY <2>2, LogitIs
  <2> QED BY <2>1, <2>2, <2>3
<1>8. \A k \in 1..m : sec[k] = IF f[k] = Fail THEN logit[N[k]] ELSE f[k]
  BY <1>1 DEF StandIn
<1>9. sec \in [1..m -> Int]
  <2>1. \A k \in 1..m : sec[k] \in Int
    BY <1>7, <1>8
  <2>2. sec = [k \in 1..m |-> sec[k]]
    BY <1>1
  <2> HIDE DEF sec
  <2> QED BY <2>1, <2>2
<1>n. N = Narrowed
  OBVIOUS
<1> HIDE DEF sec, w, N
<1>10. /\ IsOrderOf(o, 1..m) /\ Len(o) = m
       /\ \A u, v \in 1..m : o[u] < o[v] /\ Prefers(sec, o[u], o[v]) => u < v
  <2> DEFINE l == m
  <2>1. l = Len(Narrowed) /\ sec \in [1..l -> Int]
    BY <1>9, <1>n
  <2> HIDE DEF l
  <2>2. /\ IsOrderOf(o, 1..l) /\ Len(o) = l
        /\ \A u, v \in 1..l : o[u] < o[v] /\ Prefers(sec, o[u], o[v]) => u < v
    BY <2>1, FusedInOrder
  <2> QED BY <2>2 DEF l
<1> HIDE DEF o
<1>11. /\ DOMAIN o = 1..m /\ \A u \in 1..m : o[u] \in 1..m
       /\ \A a \in 1..m : \E u \in 1..m : o[u] = a
  <2>1. o \in Seq(1..m) /\ Range(o) = 1..m
    BY <1>10 DEF IsOrderOf
  <2>2. DOMAIN o = 1..m
    BY <1>10, <2>1
  <2>3. \A a \in 1..m : \E u \in 1..m : o[u] = a
    BY <2>1, <2>2, Zenon DEF Range
  <2>4. \A u \in 1..m : o[u] \in 1..m
    BY <2>1, <2>2
  <2> QED BY <2>2, <2>3, <2>4
<1>12. ASSUME NEW i \in Range(N)
       PROVE  \E a \in 1..m : N[a] = i /\ at0(i) \in 1..m /\ o[at0(i)] = a
  <2>1. PICK a \in 1..m : N[a] = i
    BY <1>1, Zenon DEF Range
  <2>2. PICK u \in 1..m : o[u] = a
    BY <1>11
  <2>3. at0(i) \in DOMAIN o /\ N[o[at0(i)]] = i
    BY <1>11, <2>1, <2>2
  <2>4. o[at0(i)] = a
    BY <1>1, <1>11, <2>1, <2>3
  <2> QED BY <1>11, <2>1, <2>3, <2>4
<1> HIDE DEF at0
<1>13. ASSUME NEW i \in Range(N) PROVE i \in Scored /\ rank'[i] = at0(i) - 1 /\ rank'[i] \in 0..pool.n
  <2>1. PICK a \in 1..m : N[a] = i /\ at0(i) \in 1..m
    BY <1>12
  <2>2. rank'[i] = at0(i) - 1
    BY <1>3
  <2> QED BY <1>1, <1>5, <2>1, <2>2
<1>14. RankTyped'
  BY <1>3, <1>4, <1>13 DEF RankTyped
<1>15. ASSUME NEW i \in Range(N), NEW j \in Range(N), ByLogit(i, j),
              \/ w[i] = Fail /\ w[j] = Fail
              \/ /\ w[i] # Fail /\ w[j] # Fail
                 /\ w[i] > w[j] \/ (w[i] = w[j] /\ i < j)
       PROVE  at0(i) < at0(j)
  <2>1. PICK a \in 1..m : N[a] = i /\ at0(i) \in 1..m /\ o[at0(i)] = a
    BY <1>12
  <2>2. PICK b \in 1..m : N[b] = j /\ at0(j) \in 1..m /\ o[at0(j)] = b
    BY <1>12
  <2>3. a < b
    BY <1>1, <1>15, <2>1, <2>2
  <2>4. w[i] = f[a] /\ w[j] = f[b]
    BY <1>6, <2>1, <2>2
  <2>5. sec[a] > sec[b] \/ (sec[a] = sec[b] /\ i < j)
    <3>1. CASE w[i] = Fail /\ w[j] = Fail
      <4>1. sec[a] = logit[i] /\ sec[b] = logit[j]
        BY <1>8, <2>1, <2>2, <2>4, <3>1
      <4> QED BY <1>15, <4>1 DEF ByLogit
    <3>2. CASE w[i] # Fail /\ w[j] # Fail
      <4>1. sec[a] = w[i] /\ sec[b] = w[j]
        BY <1>8, <2>1, <2>2, <2>4, <3>2
      <4> QED BY <1>15, <3>2, <4>1
    <3> QED BY <1>15, <3>1, <3>2
  <2>6. Prefers(sec, a, b)
    BY <1>n, <2>1, <2>2, <2>5 DEF Prefers
  <2>7. \A u, v \in 1..m : o[u] < o[v] /\ Prefers(sec, o[u], o[v]) => u < v
    BY <1>10
  <2> QED BY <2>1, <2>2, <2>3, <2>6, <2>7, Zenon
<1>16. AgreementKept'
  <2>1. DOMAIN rank' = Range(N)
    BY <1>3
  <2>2. \A i \in Range(N) : second'[i] = w[i]
    BY <1>3
  <2> SUFFICES ASSUME NEW i \in Range(N), NEW j \in Range(N), ByLogit(i, j),
                      \/ w[i] = Fail /\ w[j] = Fail
                      \/ /\ w[i] # Fail /\ w[j] # Fail
                         /\ w[i] > w[j] \/ (w[i] = w[j] /\ i < j)
               PROVE  rank'[i] < rank'[j]
    BY <1>4, <2>1, <2>2 DEF AgreementKept, ByLogit
  <2>3. at0(i) < at0(j)
    BY <1>15
  <2>4. at0(i) \in 1..m /\ at0(j) \in 1..m
    BY <1>12
  <2> QED BY <1>5, <1>13, <2>3, <2>4
<1> QED BY <1>14, <1>16

(* Who is above another by what was scored, before the cues are looked at *)
AheadByScore(a, b) ==
    IF (a \in survived) # (b \in survived) THEN a \in survived
    ELSE IF RankOf(a) # RankOf(b) THEN RankOf(a) < RankOf(b)
    ELSE logit[a] > logit[b]
ByScore == {p \in All \X All : AheadByScore(p[1], p[2])}

ScoredSurvive == \A i \in All : logit[i] # Fail => i \in survived

(* The order keeps to the scores. *)
LEMMA OrderByScore ==
    ASSUME pool \in Pools, LogitsTyped, RankTyped, Gated
    PROVE  IsOrderOf(Order, All) /\ InOrder(Order, ByScore)
<1> DEFINE n == pool.n
           S == All
           R == {p \in S \X S : RanksAbove(p[1], p[2])}
           D == ByScore
           r(i) == RankOf(i)
           l(i) == logit[i]
           s(i) == IF i \in survived THEN 1 ELSE 0
           v(i) == <<s(i), r(i), l(i)>>
<1>1. n \in Nat /\ S \in SUBSET (0..n)
  BY PoolScored
<1>2. Order = Arranged(S, R)
  BY DEF Order, SortedBy
<1>3. \A x \in S : r(x) \in Int /\ l(x) \in Int /\ s(x) \in Int
  <2> SUFFICES ASSUME NEW x \in S PROVE r(x) \in Int /\ l(x) \in Int /\ s(x) \in Int
    OBVIOUS
  <2>1. l(x) \in Int
    BY LogitIs
  <2>2. r(x) \in Int
    BY <1>1 DEF RankOf, RankTyped
  <2> QED BY <2>1, <2>2
<1>4. \A x, y \in S : <<x, y>> \in D <=>
         IF s(x) # s(y) THEN s(x) > s(y) ELSE IF r(x) # r(y) THEN r(x) < r(y) ELSE l(x) > l(y)
  BY DEF ByScore, AheadByScore
<1>5. \A x, y \in S : /\ s(x) # s(y) => (<<x, y>> \in R <=> s(x) > s(y))
                      /\ s(x) = s(y) /\ r(x) # r(y) => (<<x, y>> \in R <=> r(x) < r(y))
                      /\ s(x) = s(y) /\ r(x) = r(y) /\ l(x) # l(y) => (<<x, y>> \in R <=> l(x) > l(y))
  <2> SUFFICES ASSUME NEW x \in S, NEW y \in S
               PROVE  /\ s(x) # s(y) => (<<x, y>> \in R <=> s(x) > s(y))
                      /\ s(x) = s(y) /\ r(x) # r(y) => (<<x, y>> \in R <=> r(x) < r(y))
                      /\ s(x) = s(y) /\ r(x) = r(y) /\ l(x) # l(y) => (<<x, y>> \in R <=> l(x) > l(y))
    OBVIOUS
  <2>1. <<x, y>> \in R <=> RanksAbove(x, y)
    OBVIOUS
  <2>2. (x \in survived) # (y \in survived) => (RanksAbove(x, y) <=> x \in survived)
    BY DEF RanksAbove
  <2>3. (x \in survived) = (y \in survived) /\ RankOf(x) # RankOf(y)
           => (RanksAbove(x, y) <=> RankOf(x) < RankOf(y))
    BY DEF RanksAbove
  <2>4. (x \in survived) = (y \in survived) /\ RankOf(x) = RankOf(y) /\ logit[x] # logit[y]
           => (RanksAbove(x, y) <=> logit[x] > logit[y])
    BY DEF RanksAbove, LogitOf
  <2>5. (s(x) = s(y) <=> (x \in survived) = (y \in survived)) /\ (s(x) # s(y) => (s(x) > s(y) <=> x \in survived))
    OBVIOUS
  <2> HIDE DEF R, s
  <2> QED BY <2>1, <2>2, <2>3, <2>4, <2>5
<1> HIDE DEF n, S, R, D, r, l, s
<1>6. RanksBy(D, R, S)
  <2>1. ASSUME NEW x \in S, NEW y \in S, <<x, y>> \in D PROVE <<x, y>> \in R /\ <<y, x>> \notin R
    <3>1. /\ r(x) \in Int /\ l(x) \in Int /\ s(x) \in Int /\ r(y) \in Int /\ l(y) \in Int /\ s(y) \in Int
      BY <1>3
    <3>2. IF s(x) # s(y) THEN s(x) > s(y) ELSE IF r(x) # r(y) THEN r(x) < r(y) ELSE l(x) > l(y)
      BY <1>4, <2>1
    <3>3. /\ s(x) # s(y) => (<<x, y>> \in R <=> s(x) > s(y))
          /\ s(x) = s(y) /\ r(x) # r(y) => (<<x, y>> \in R <=> r(x) < r(y))
          /\ s(x) = s(y) /\ r(x) = r(y) /\ l(x) # l(y) => (<<x, y>> \in R <=> l(x) > l(y))
      BY <1>5
    <3>4. /\ s(y) # s(x) => (<<y, x>> \in R <=> s(y) > s(x))
          /\ s(y) = s(x) /\ r(y) # r(x) => (<<y, x>> \in R <=> r(y) < r(x))
          /\ s(y) = s(x) /\ r(y) = r(x) /\ l(y) # l(x) => (<<y, x>> \in R <=> l(y) > l(x))
      BY <1>5
    <3> QED BY <3>1, <3>2, <3>3, <3>4
  <2>2. ASSUME NEW x \in S, NEW y \in S, NEW z \in S, <<x, z>> \in D
        PROVE  <<x, y>> \in D \/ <<y, z>> \in D
    <3>1. /\ r(x) \in Int /\ l(x) \in Int /\ s(x) \in Int /\ r(y) \in Int /\ l(y) \in Int /\ s(y) \in Int
          /\ r(z) \in Int /\ l(z) \in Int /\ s(z) \in Int
      BY <1>3
    <3>2. /\ IF s(x) # s(z) THEN s(x) > s(z) ELSE IF r(x) # r(z) THEN r(x) < r(z) ELSE l(x) > l(z)
          /\ <<x, y>> \in D <=>
               IF s(x) # s(y) THEN s(x) > s(y) ELSE IF r(x) # r(y) THEN r(x) < r(y) ELSE l(x) > l(y)
          /\ <<y, z>> \in D <=>
               IF s(y) # s(z) THEN s(y) > s(z) ELSE IF r(y) # r(z) THEN r(y) < r(z) ELSE l(y) > l(z)
      BY <1>4, <2>2
    <3> QED BY <3>1, <3>2
  <2> QED BY <2>1, <2>2 DEF RanksBy
<1>7. IsOrderOf(Arranged(S, R), S) /\ InOrder(Arranged(S, R), D)
  BY <1>1, <1>6, ArrangedInOrder
<1> QED BY <1>2, <1>7 DEF S, D

(* Of two candidates the one that got a logit is before the one that got none. *)
LEMMA ScoredFirst ==
    ASSUME pool \in Pools, LogitsTyped, RankTyped, ScoredSurvive,
           NEW a, a \in All, NEW b, b \in All, logit[a] # Fail, logit[b] = Fail
    PROVE  <<a, b>> \in ByScore
<1>1. a \in survived
  BY DEF ScoredSurvive
<1>2. b \notin DOMAIN rank
  BY DEF RankTyped, Scored
<1>3. RankOf(b) = pool.n /\ RankOf(a) \in 0..pool.n /\ pool.n \in Nat
  BY <1>2, PoolScored DEF RankOf, RankTyped
<1>4. logit[a] > logit[b]
  <2>1. logit[a] \in Logits \cup {Fail}
    BY DEF LogitsTyped
  <2> QED BY <2>1, LogitsAre
<1>5. AheadByScore(a, b)
  BY <1>1, <1>3, <1>4 DEF AheadByScore
<1> QED BY <1>5 DEF ByScore

(* The first two of the order are the two best scored, if two were. *)
LEMMA FirstTwo ==
    ASSUME pool \in Pools, LogitsTyped, RankTyped, ScoredSurvive, Gated,
           NEW o, o = Order, Len(o) >= 2
    PROVE  /\ o[1] \in All /\ o[2] \in All
           /\ \A i \in Scored \ {o[1]} : /\ logit[o[1]] # Fail /\ logit[o[2]] # Fail
                                         /\ rank = <<>> => logit[i] <= logit[o[2]]
<1>1. IsOrderOf(o, All) /\ InOrder(o, ByScore)
  BY OrderByScore
<1>2. o \in Seq(All) /\ DOMAIN o = 1..Len(o) /\ Len(o) \in Nat /\ Range(o) = All
  BY <1>1 DEF IsOrderOf
<1>3. 1 \in 1..Len(o) /\ 2 \in 1..Len(o) /\ o[1] \in All /\ o[2] \in All
  BY <1>2
<1>4. \A x, y \in 1..Len(o) : x < y => <<o[y], o[x]>> \notin ByScore
  BY <1>1 DEF InOrder
<1> SUFFICES ASSUME NEW i \in Scored \ {o[1]}
             PROVE  /\ logit[o[1]] # Fail /\ logit[o[2]] # Fail
                    /\ rank = <<>> => logit[i] <= logit[o[2]]
  BY <1>3
<1>5. i \in All /\ logit[i] # Fail /\ i # o[1]
  BY DEF Scored
<1>6. PICK y \in 1..Len(o) : o[y] = i
  BY <1>2, <1>5, Zenon DEF Range
<1>7. y # 1 /\ 1 < y /\ (y = 2 \/ 2 < y)
  BY <1>2, <1>5, <1>6
<1>8. logit[o[1]] # Fail
  BY <1>3, <1>4, <1>5, <1>6, <1>7, ScoredFirst
<1>9. logit[o[2]] # Fail
  <2>1. CASE y = 2
    BY <1>5, <1>6, <2>1
  <2>2. CASE 2 < y
    BY <1>3, <1>4, <1>5, <1>6, <2>2, ScoredFirst
  <2> QED BY <1>7, <2>1, <2>2
<1>10. ASSUME rank = <<>> PROVE logit[i] <= logit[o[2]]
  <2>0. logit[i] \in Int /\ logit[o[2]] \in Int
    BY <1>3, <1>5, LogitIs
  <2>1. CASE y = 2
    BY <1>6, <2>0, <2>1
  <2>2. CASE 2 < y
    <3>1. ~AheadByScore(i, o[2])
      BY <1>3, <1>4, <1>5, <1>6, <2>2 DEF ByScore
    <3>2. i \in survived /\ o[2] \in survived
      BY <1>3, <1>5, <1>9 DEF ScoredSurvive
    <3>3. RankOf(i) = RankOf(o[2])
      <4>1. DOMAIN rank = {}
        BY <1>10
      <4> QED BY <4>1 DEF RankOf
    <3>4. ~(logit[i] > logit[o[2]])
      BY <3>1, <3>2, <3>3 DEF AheadByScore
    <3> QED BY <2>0, <3>4
  <2> QED BY <1>7, <2>1, <2>2
<1> QED BY <1>8, <1>9, <1>10

(* What a retrieval has established at each of its stages *)
EarnedInv ==
    /\ pool \in Pools
    /\ stage = "waiting" => pool.n = 0
    /\ stage # "waiting" => at = "serving"
    /\ stage \in {"waiting", "prune", "rerank", "fuse"} \/ plan = "shipped" => rank = <<>>
    /\ stage = "fuse" => plan = "cascade"
    /\ stage \in {"rerank", "fuse", "assemble", "done"} => survived \subseteq All
    /\ stage \in {"fuse", "assemble", "done"} => LogitsTyped /\ ScoredSurvive
    /\ stage \in {"assemble", "done"} => RankTyped
    /\ BestSurvives /\ ConfidentLead /\ UndefinedOnlyUnscored /\ AgreementKept

LEMMA NoneRanked == ASSUME rank = <<>> PROVE RankTyped /\ AgreementKept
<1>1. DOMAIN rank = {}
  OBVIOUS
<1> QED BY <1>1 DEF RankTyped, AgreementKept

LEMMA StartEarns == HostInit => EarnedInv
<1> SUFFICES ASSUME HostInit PROVE EarnedInv
  OBVIOUS
<1>1. stage = "waiting" /\ rank = <<>> /\ pool \in Pools /\ pool.n = 0
  BY PoolsAssumption DEF HostInit
<1>2. All = {}
  BY <1>1, PoolScored
<1>3. BestSurvives /\ ConfidentLead /\ UndefinedOnlyUnscored
  BY <1>1, <1>2 DEF BestSurvives, ConfidentLead, UndefinedOnlyUnscored
<1> QED BY <1>1, <1>3, NoneRanked DEF EarnedInv

(* The devices are done with before a request is served. *)
LEMMA DevicesRest == DevNext => at # "serving"
  BY DEF DevNext, VerifyEmbedder, ExplicitCuda, Probe, Open, Measure, Widen, Grow, OpenCache,
         VerifyReranker, ProbeReranker, OpenReranker, SelectPlan, LoadFusion, EmbedTexts, Shift,
         NextStart

LEMMA IdleEarns ==
    ASSUME EarnedInv, UNCHANGED retrievalVars, stage = "waiting" \/ at' = at
    PROVE  EarnedInv'
<1>1. /\ stage' = stage /\ pool' = pool /\ plan' = plan /\ coverage' = coverage
      /\ survived' = survived /\ logit' = logit /\ second' = second /\ rank' = rank /\ answer' = answer
  BY DEF retrievalVars
<1>2. All' = All /\ Scored' = Scored
  BY <1>1 DEF All, Scored
<1>3. /\ LogitsTyped' = LogitsTyped /\ ScoredSurvive' = ScoredSurvive /\ RankTyped' = RankTyped
      /\ BestSurvives' = BestSurvives /\ ConfidentLead' = ConfidentLead
      /\ UndefinedOnlyUnscored' = UndefinedOnlyUnscored /\ AgreementKept' = AgreementKept
  BY <1>1, <1>2
     DEF LogitsTyped, ScoredSurvive, RankTyped, BestSurvives, ConfidentLead, UndefinedOnlyUnscored,
         AgreementKept, ByLogit
<1> QED BY <1>1, <1>2, <1>3 DEF EarnedInv

LEMMA ServeEarns == ASSUME EarnedInv, Serve PROVE EarnedInv'
<1>1. /\ stage' = stage /\ pool' = pool /\ rank' = rank /\ survived' = survived
      /\ logit' = logit /\ second' = second /\ at = "up" /\ stage = "waiting"
  BY DEF Serve, EarnedInv
<1>2. All' = All /\ rank' = <<>> /\ All = {}
  BY <1>1, PoolScored DEF All, EarnedInv
<1>3. RankTyped' /\ AgreementKept'
  BY <1>2 DEF RankTyped, AgreementKept
<1>4. BestSurvives' /\ ConfidentLead' /\ UndefinedOnlyUnscored'
  BY <1>1, <1>2 DEF BestSurvives, ConfidentLead, UndefinedOnlyUnscored
<1> QED BY <1>1, <1>2, <1>3, <1>4 DEF EarnedInv

LEMMA QueryEarns == ASSUME EarnedInv, Query PROVE EarnedInv'
<1>1. stage' = "prune" /\ pool' \in Pools /\ rank' = <<>> /\ at' = at /\ at = "serving"
  BY DEF Query, EarnedInv, devVars, plans, cached, served
<1>2. RankTyped' /\ AgreementKept'
  BY <1>1 DEF RankTyped, AgreementKept
<1>3. BestSurvives' /\ ConfidentLead' /\ UndefinedOnlyUnscored'
  BY <1>1 DEF BestSurvives, ConfidentLead, UndefinedOnlyUnscored
<1> QED BY <1>1, <1>2, <1>3 DEF EarnedInv

LEMMA PruneEarns == ASSUME EarnedInv, Prune, at' = at PROVE EarnedInv'
<1>1. /\ stage = "prune" /\ stage' = "rerank" /\ pool' = pool /\ plan' = plan /\ rank' = <<>>
      /\ at = "serving" /\ pool \in Pools
  BY DEF Prune, EarnedInv
<1>2. All' = All
  BY <1>1 DEF All
<1>3. RankTyped' /\ AgreementKept'
  BY <1>1 DEF RankTyped, AgreementKept
<1>4. survived' \subseteq All' /\ BestSurvives'
  BY <1>1, <1>2, PruneKeepsBest DEF BestSurvives
<1>5. ConfidentLead' /\ UndefinedOnlyUnscored'
  BY <1>1 DEF ConfidentLead, UndefinedOnlyUnscored
<1> QED BY <1>1, <1>3, <1>4, <1>5 DEF EarnedInv

LEMMA RerankEarns == ASSUME EarnedInv, Rerank, at' = at PROVE EarnedInv'
<1>1. /\ stage = "rerank" /\ pool' = pool /\ plan' = plan /\ rank' = <<>> /\ survived' = survived
      /\ stage' = (IF plan = "cascade" THEN "fuse" ELSE "assemble")
      /\ at = "serving" /\ pool \in Pools /\ survived \subseteq All
  BY DEF Rerank, EarnedInv
<1>2. All' = All
  BY <1>1 DEF All
<1>3. RankTyped' /\ AgreementKept'
  BY <1>1 DEF RankTyped, AgreementKept
<1>4. LogitsTyped' /\ ScoredSurvive'
  BY <1>1, <1>2, RerankScores DEF LogitsTyped, ScoredSurvive
<1>5. BestSurvives'
  BY <1>1, <1>2 DEF BestSurvives, EarnedInv
<1>6. ConfidentLead' /\ UndefinedOnlyUnscored'
  BY <1>1 DEF ConfidentLead, UndefinedOnlyUnscored
<1> QED BY <1>1, <1>2, <1>3, <1>4, <1>5, <1>6 DEF EarnedInv

LEMMA FuseEarns == ASSUME EarnedInv, Fuse, at' = at PROVE EarnedInv'
<1>1. /\ stage = "fuse" /\ stage' = "assemble" /\ pool' = pool /\ plan' = plan /\ plan = "cascade"
      /\ survived' = survived /\ logit' = logit
      /\ at = "serving" /\ pool \in Pools /\ survived \subseteq All /\ LogitsTyped /\ ScoredSurvive
  BY DEF Fuse, EarnedInv
<1>2. All' = All
  BY <1>1 DEF All
<1>3. RankTyped' /\ AgreementKept'
  BY <1>1, FuseAgrees
<1>4. LogitsTyped' /\ ScoredSurvive'
  BY <1>1, <1>2 DEF LogitsTyped, ScoredSurvive
<1>5. BestSurvives'
  BY <1>1, <1>2 DEF BestSurvives, EarnedInv
<1>6. ConfidentLead' /\ UndefinedOnlyUnscored'
  BY <1>1 DEF ConfidentLead, UndefinedOnlyUnscored
<1> QED BY <1>1, <1>2, <1>3, <1>4, <1>5, <1>6 DEF EarnedInv

LEMMA RecallEarns == ASSUME EarnedInv, Recall, at' = at PROVE EarnedInv'
<1>1. /\ stage = "prune" /\ stage' = "recalled" /\ pool' = pool /\ rank' = <<>> /\ at = "serving"
      /\ pool \in Pools
  BY DEF Recall, EarnedInv
<1>2. RankTyped' /\ AgreementKept'
  BY <1>1 DEF RankTyped, AgreementKept
<1>3. BestSurvives' /\ ConfidentLead' /\ UndefinedOnlyUnscored'
  BY <1>1 DEF BestSurvives, ConfidentLead, UndefinedOnlyUnscored
<1> QED BY <1>1, <1>2, <1>3 DEF EarnedInv

(* The decision on an order: a lead is over every rival, and undefined only without one. *)
LEMMA AssembleEarns == ASSUME EarnedInv, Assemble, at' = at PROVE EarnedInv'
<1>1. /\ stage = "assemble" /\ stage' = "done" /\ pool' = pool /\ plan' = plan
      /\ coverage' = coverage /\ survived' = survived /\ logit' = logit /\ second' = second
      /\ rank' = rank /\ at = "serving" /\ pool \in Pools /\ survived \subseteq All
      /\ LogitsTyped /\ ScoredSurvive /\ RankTyped /\ (plan = "shipped" => rank = <<>>)
  BY DEF Assemble, EarnedInv
<1>2. All' = All /\ Scored' = Scored
  BY <1>1 DEF All, Scored
<1>3. LogitsTyped' /\ ScoredSurvive' /\ RankTyped' /\ BestSurvives' /\ AgreementKept'
  BY <1>1, <1>2
     DEF LogitsTyped, ScoredSurvive, RankTyped, BestSurvives, AgreementKept, ByLogit, EarnedInv
<1> DEFINE o == Order
           verdict == decide(o)
           r == Fill(Admitted(o), pool.cost)
<1>4. /\ answer'.injected = r.injected
      /\ answer'.abstention = IF Gated /\ verdict # "admit" THEN verdict ELSE NoReason
  BY DEF Assemble
<1>5. IsOrderOf(o, All)
  BY <1>1, OrderIs
<1>o. o = Order
  OBVIOUS
<1> HIDE DEF o
<1>6. /\ r.injected # <<>> => r.injected[1] = o[1]
      /\ Gated /\ verdict # "admit" => r.injected = <<>>
  BY <1>1, <1>5, FillIs
<1> HIDE DEF r, verdict
<1>7. Len(o) \in Nat
  BY <1>5 DEF IsOrderOf
<1>8. ASSUME Gated, Len(o) >= 2
      PROVE  /\ o[1] \in All /\ o[2] \in All
             /\ \A i \in Scored \ {o[1]} : /\ logit[o[1]] # Fail /\ logit[o[2]] # Fail
                                           /\ rank = <<>> => logit[i] <= logit[o[2]]
  BY <1>1, <1>8, <1>o, FirstTwo
<1>9. ConfidentLead'
  <2> SUFFICES ASSUME plan = "shipped", coverage = "declared", answer'.injected # <<>>,
                      NEW i \in Scored \ {answer'.injected[1]}
               PROVE  logit[answer'.injected[1]] - logit[i] >= Margin
    BY <1>1, <1>2 DEF ConfidentLead
  <2>1. Gated
    BY DEF Gated
  <2>2. verdict = "admit" /\ answer'.injected[1] = o[1]
    BY <1>4, <1>6, <2>1
  <2>3. Len(o) >= 2 /\ logit[o[1]] - logit[o[2]] >= Margin
    <3>1. Len(o) >= 2 /\ ~(logit[o[1]] - logit[o[2]] < Margin)
      BY <1>7, <2>2 DEF verdict, decide
    <3>2. logit[o[1]] \in Int /\ logit[o[2]] \in Int
      BY <1>1, <1>8, <2>1, <3>1, LogitIs
    <3>3. Margin \in Int
      BY RetrievalAssumption
    <3> DEFINE first == logit[o[1]]
               next == logit[o[2]]
    <3>4. ~(first - next < Margin) /\ first \in Int /\ next \in Int
      BY <3>1, <3>2, Zenon
    <3> HIDE DEF first, next
    <3>5. first - next >= Margin
      BY <3>3, <3>4
    <3> QED BY <3>1, <3>5, Zenon DEF first, next
  <2>4. o[1] \in All /\ o[2] \in All /\ logit[i] <= logit[o[2]]
    BY <1>1, <1>8, <2>1, <2>2, <2>3
  <2>5. i \in All
    BY DEF Scored
  <2>6. logit[i] \in Int /\ logit[o[1]] \in Int /\ logit[o[2]] \in Int /\ Margin \in Int
    BY <1>1, <2>4, <2>5, LogitIs, RetrievalAssumption
  <2> QED BY <2>2, <2>3, <2>4, <2>6
<1>10. ASSUME Gated, verdict = "margin undefined" PROVE Cardinality(Scored) < 2
  <2>2. Len(o) >= 2 /\ (logit[o[1]] = Fail \/ logit[o[2]] = Fail)
    <3> DEFINE short == Len(o) < 2
               lost == logit[o[1]] = Fail \/ logit[o[2]] = Fail
    <3>1. verdict \in {"no candidates", "no reranker", "no runner-up", "below threshold", "admit"}
            \/ (~short /\ lost)
      BY Zenon DEF verdict, decide
    <3> HIDE DEF short, lost
    <3>2. ~short /\ lost
      BY <1>10, <3>1
    <3> QED BY <1>7, <3>2 DEF short, lost
  <2>3. Scored \subseteq {o[1]}
    BY <1>8, <1>10, <2>2
  <2>4. IsFiniteSet({o[1]}) /\ Cardinality({o[1]}) = 1
    BY FS_Singleton
  <2>5. Cardinality(Scored) <= 1 /\ Cardinality(Scored) \in Nat
    BY <2>3, <2>4, FS_Subset, FS_CardinalityType
  <2> DEFINE c == Cardinality(Scored)
  <2>6. c <= 1 /\ c \in Nat
    BY <2>5
  <2> HIDE DEF c
  <2>7. c < 2
    BY <2>6
  <2> QED BY <2>7 DEF c
<1>11. UndefinedOnlyUnscored'
  <2> SUFFICES ASSUME answer'.abstention = "margin undefined" PROVE Cardinality(Scored) < 2
    BY <1>2 DEF UndefinedOnlyUnscored
  <2>1. Gated /\ verdict = "margin undefined"
    BY <1>4 DEF NoReason
  <2> QED BY <1>10, <2>1
<1> QED BY <1>1, <1>2, <1>3, <1>9, <1>11 DEF EarnedInv

(* select_for_injection: for any beliefs, scores, failures, plans and gates, pruning drops whole
   sessions and neither cue's best, what the declared point injects leads every scored rival by
   the margin, a failed pair costs its own place and nobody else's, the fusion keeps what both
   graphs agree on, and nobody is called surer than the loaded gate ever says. *)
THEOREM OrderEarned == HostSpec => []OrderIsEarned
<1>1. EarnedInv /\ [HostNext]_hostVars => EarnedInv'
  <2> SUFFICES ASSUME EarnedInv, [HostNext]_hostVars PROVE EarnedInv'
    OBVIOUS
  <2>1. CASE DevNext /\ UNCHANGED <<retrievalVars, pair>>
    <3>1. stage = "waiting"
      BY <2>1, DevicesRest DEF EarnedInv
    <3> QED BY <2>1, <3>1, IdleEarns
  <2>2. CASE Serve
    BY <2>2, ServeEarns
  <2>3. CASE Query
    BY <2>3, QueryEarns
  <2>4. CASE Score
    BY <2>4, IdleEarns DEF Score, devVars, plans, cached, served
  <2>5. CASE RetrievalNext /\ UNCHANGED <<devVars, pair>>
    <3>1. at' = at
      BY <2>5 DEF devVars, plans, cached, served
    <3> QED BY <2>5, <3>1, PruneEarns, RerankEarns, FuseEarns, AssembleEarns, RecallEarns
        DEF RetrievalNext
  <2>6. CASE UNCHANGED hostVars
    BY <2>6, IdleEarns DEF hostVars, devVars, plans, cached, served
  <2> QED BY <2>1, <2>2, <2>3, <2>4, <2>5, <2>6 DEF HostNext
<1>2. EarnedInv => OrderIsEarned
  BY SessionsAreWhole, GateSound DEF EarnedInv, OrderIsEarned
<1> QED BY <1>1, <1>2, StartEarns, PTL DEF HostSpec
=============================================================================

-------------------------- MODULE SpawnTree_proofs --------------------------
(***************************************************************************)
(* What grows out of a run.  The runs it spawns, for any runs, tools,      *)
(* requests, budgets and any number of crashes; then its windows: the ring *)
(* of frames they follow, for every size of the ring and any number of     *)
(* pushes, polls, drives and restarts, and the requests made in them, for  *)
(* any keys, polls and broken connections.                                 *)
(***************************************************************************)
EXTENDS SpawnTree, WatchWindow, Composer_proofs, SequenceTheorems, FiniteSetTheorems, TLAPS

(* The runs being driven are distinct, and an id not yet given out is nowhere *)
Shape ==
    /\ \A i, j \in DOMAIN stack : stack[i] = stack[j] => i = j
    /\ \A i \in DOMAIN stack : ~Fresh(stack[i])
    /\ \A r \in Runs : Fresh(r) => /\ cp[r] = NoState /\ run[r] = NoState /\ r \notin settled
                                   /\ \A p \in Runs : <<p, r>> \notin children

(* A run that waits for a child can pay for all the child was granted *)
Funded ==
    \A i \in DOMAIN stack : i + 1 \in DOMAIN stack =>
        run[stack[i]].tokens + budget[stack[i + 1]].tokens <= budget[stack[i]].tokens

(* Every run was created with enough for a call *)
Endowed == \A r \in Runs : ~Fresh(r) => budget[r].tokens >= MinCall /\ budget[r].agents > 0

(* Only a run with tools reads, and its reader has none *)
Quarantine ==
    /\ pc = "batch" => prof[Top].tools # {}
    /\ \A r \in Runs : prof[r].level = "reader" => prof[r].tools = {}
    /\ \A i \in DOMAIN stack : i + 1 \in DOMAIN stack /\ prof[stack[i + 1]].level = "reader"
                                  => prof[stack[i]].tools # {}

(* A child awaiting settlement is driven, if at all, right above its parent; a settled child
   is driven only once it has been detached; no child has two parents *)
Fate ==
    /\ OrphansSettled
    /\ \A i \in DOMAIN stack : stack[i] \in settled =>
          prof[stack[i]].orphan = "detach" /\ run[stack[i]].parent = NoRun
    /\ \A p, c \in Runs : <<p, c>> \in children =>
          /\ c \notin settled /\ \E i \in DOMAIN stack : stack[i] = p
          /\ \A i, j \in DOMAIN stack : stack[i] = p /\ stack[j] = c => j = i + 1
          /\ \A o \in Runs : <<o, c>> \in children => o = p

(* A run that is being driven has not finished, in memory or in the journal *)
Unfinished ==
    \A i \in DOMAIN stack :
        /\ i < Len(stack) \/ pc \notin {"final", "settle"} => run[stack[i]].status = "running"
        /\ i < Len(stack) \/ pc # "settle" => cp[stack[i]].status \notin Terminal

IInv == /\ TypeOK /\ Shape
        /\ Funded /\ SpendBounded /\ Endowed
        /\ Quarantine /\ TaintEndsDelegation /\ LadderDescends
        /\ Fate /\ Unfinished

-----------------------------------------------------------------------------
(* Facts about the operators *)

(* What is left, and what is handed out of it, are budgets; nothing handed out is more than
   what is left, and all of it buys a call. *)
LEMMA GrantFits ==
    ASSUME TypeOK, NEW r \in Runs, NEW q \in Requests, Grantable(r, q)
    PROVE  /\ Grant(r, q) \in Budget
           /\ Grant(r, q).tokens <= Remaining(r)
           /\ Grant(r, q).tokens >= MinCall
           /\ run[r].agents < budget[r].agents => Grant(r, q).agents > 0
<1>1. /\ budget[r].tokens \in Nat /\ budget[r].agents \in Nat /\ budget[r].depth \in Nat
      /\ run[r].tokens \in Nat /\ run[r].agents \in Nat /\ q.grant \in Nat
  BY RequestAssumption DEF TypeOK, Budget, State, Request
<1>2. (budget[r].tokens * 3) \div 8 \in Nat
  BY <1>1
<1>3. Remaining(r) \in Nat /\ RemainingAgents(r) \in Nat
  BY <1>1 DEF Remaining, RemainingAgents, Larger
<1>4. /\ budget[r].depth > 0 /\ Remaining(r) >= MinChild
      /\ q.grant = 0 \/ q.grant <= Remaining(r)
  BY <1>1, <1>3, FloorAssumption DEF Grantable
<1> DEFINE want == IF q.grant = 0 THEN (budget[r].tokens * 3) \div 8 ELSE q.grant
           t == Larger(Smaller(want, Remaining(r)), MinChild)
           a == AtLeastOne(RemainingAgents(r) - 1, RemainingAgents(r))
<1>5. want \in Nat
  BY <1>1, <1>2
<1>6. t \in Nat /\ t <= Remaining(r) /\ t >= MinCall
  <2> HIDE DEF want
  <2> QED BY <1>3, <1>4, <1>5, FloorAssumption DEF Larger, Smaller
<1>7. a \in Nat /\ (run[r].agents < budget[r].agents => a > 0)
  BY <1>1, <1>3 DEF AtLeastOne, Larger, RemainingAgents
<1>8. Grant(r, q) = [tokens |-> t, agents |-> a, depth |-> budget[r].depth - 1]
  BY DEF Grant
<1>9. budget[r].depth - 1 \in Nat
  BY <1>1, <1>4
<1> HIDE DEF t, a
<1> QED BY <1>6, <1>7, <1>8, <1>9 DEF Budget

(* The same of the slice a quarantined reader is handed. *)
LEMMA SliceFits ==
    ASSUME TypeOK, NEW r \in Runs, Remaining(r) > 0, Remaining(r) >= MinChild
    PROVE  /\ ReaderSlice(r) \in Budget
           /\ ReaderSlice(r).tokens <= Remaining(r)
           /\ ReaderSlice(r).tokens >= MinCall
           /\ ReaderSlice(r).agents > 0
<1>1. budget[r].tokens \in Nat /\ run[r].tokens \in Nat
  BY DEF TypeOK, Budget, State
<1>2. (budget[r].tokens * 2) \div 8 \in Nat
  BY <1>1
<1>3. Remaining(r) \in Nat
  BY <1>1 DEF Remaining, Larger
<1> DEFINE want == (budget[r].tokens * 2) \div 8
           t == Larger(AtLeastOne(Smaller(want, Remaining(r)), Remaining(r)), MinChild)
<1>4. t \in Nat /\ t <= Remaining(r) /\ t >= MinCall
  <2>1. want \in Nat BY <1>2
  <2> HIDE DEF want
  <2> QED BY <1>3, <2>1, FloorAssumption DEF Larger, Smaller, AtLeastOne
<1>5. ReaderSlice(r) = [tokens |-> t, agents |-> 1, depth |-> 0]
  BY DEF ReaderSlice
<1> HIDE DEF t
<1> QED BY <1>4, <1>5 DEF Budget

(* While anything is driven the topmost run is a run. *)
LEMMA TopIsRun ==
    ASSUME TypeOK, pc # "idle"
    PROVE  /\ Top \in Runs /\ Len(stack) \in Nat \ {0} /\ Len(stack) \in DOMAIN stack
           /\ Top = stack[Len(stack)] /\ \A i \in DOMAIN stack : stack[i] \in Runs
           /\ DOMAIN stack = 1..Len(stack)
BY DEF TypeOK, Top

(* What a push and a pop of the stack of driven runs leave in place. *)
LEMMA Pushed ==
    ASSUME TypeOK, NEW c \in Runs, stack' = Append(stack, c)
    PROVE  /\ stack' \in Seq(Runs) /\ Len(stack') = Len(stack) + 1
           /\ DOMAIN stack' = 1..(Len(stack) + 1)
           /\ stack'[Len(stack) + 1] = c /\ stack' # <<>>
           /\ \A i \in DOMAIN stack : stack'[i] = stack[i]
BY DEF TypeOK

(* A sequence without its last element. *)
LEMMA FrontOf ==
    ASSUME NEW S, NEW q \in Seq(S), NEW n \in Nat, n + 1 = Len(q)
    PROVE  /\ SubSeq(q, 1, n) \in Seq(S) /\ Len(SubSeq(q, 1, n)) = n
           /\ \A i \in 1..n : SubSeq(q, 1, n)[i] = q[i]
<1>1. /\ 1 \in Int /\ n \in Int /\ \A i \in 1..n : q[i] \in S
  OBVIOUS
<1>2. /\ SubSeq(q, 1, n) \in Seq(S)
      /\ Len(SubSeq(q, 1, n)) = (IF 1 <= n THEN n - 1 + 1 ELSE 0)
      /\ \A i \in 1..(n - 1 + 1) : SubSeq(q, 1, n)[i] = q[1 + i - 1]
  BY <1>1, SubSeqProperties
<1>3. (IF 1 <= n THEN n - 1 + 1 ELSE 0) = n /\ 1..(n - 1 + 1) = 1..n
  OBVIOUS
<1>4. \A i \in 1..n : 1 + i - 1 = i
  OBVIOUS
<1> QED BY <1>2, <1>3, <1>4, Zenon

(* Engine::drive returns: the stack loses its top and nothing else. *)
LEMMA Popped ==
    ASSUME TypeOK, pc # "idle", stack' = SubSeq(stack, 1, Len(stack) - 1)
    PROVE  /\ stack' \in Seq(Runs) /\ Len(stack') = Len(stack) - 1
           /\ DOMAIN stack' = 1..(Len(stack) - 1)
           /\ \A i \in DOMAIN stack' : i \in DOMAIN stack /\ stack'[i] = stack[i]
           /\ Len(stack) = 1 <=> stack' = <<>>
           /\ Len(stack) > 1 => Below \in Runs
<1>1. stack \in Seq(Runs) /\ Len(stack) \in Nat \ {0}
  BY DEF TypeOK
<1>2. Len(stack) - 1 \in Nat /\ (Len(stack) - 1) + 1 = Len(stack)
  BY <1>1
<1>3. /\ stack' \in Seq(Runs) /\ Len(stack') = Len(stack) - 1
      /\ \A i \in 1..(Len(stack) - 1) : stack'[i] = stack[i]
  BY <1>1, <1>2, FrontOf, Zenon
<1>4. Len(stack) = 1 <=> stack' = <<>>
  <2>1. stack' = <<>> <=> Len(stack') = 0
    BY <1>3, EmptySeq
  <2> QED BY <1>1, <1>3, <2>1
<1>5. Len(stack) > 1 => Below \in Runs
  BY <1>1 DEF Below
<1> QED BY <1>1, <1>3, <1>4, <1>5

(* AgentLevel::child_of answers with a level strictly below the parent's, and never with
   the reader's. *)
LEMMA ChildOfDescends ==
    ASSUME NEW l \in Levels \cup {"none"}, NEW k \in {"work", "manage"}
    PROVE  /\ ChildOf(l, k) \in Levels \cup {"none"} /\ ChildOf(l, k) # "reader"
           /\ ChildOf(l, k) # "none" => l \in Levels /\ Rank[l] < Rank[ChildOf(l, k)]
BY DEF ChildOf, Levels, Rank

(* What charging a call and rolling a child up do to a run. *)
LEMMA ChargedState ==
    ASSUME NEW s \in State, NEW n \in Nat, NEW f \in Floors
    PROVE  /\ Charged(s, n, f) \in State
           /\ Charged(s, n, f).tokens = s.tokens + n /\ Charged(s, n, f).floor = f
           /\ Charged(s, n, f).status = s.status /\ Charged(s, n, f).parent = s.parent
<1>1. [s EXCEPT !.tokens = @ + n] \in State
  BY DEF State
<1>2. [[s EXCEPT !.tokens = @ + n] EXCEPT !.floor = f] \in State
  BY <1>1 DEF State
<1>3. Charged(s, n, f) = [[s EXCEPT !.tokens = @ + n] EXCEPT !.floor = f]
  BY DEF Charged
<1>4. Charged(s, n, f).tokens = s.tokens + n /\ Charged(s, n, f).floor = f
  BY DEF Charged, State
<1>5. Charged(s, n, f).status = s.status /\ Charged(s, n, f).parent = s.parent
  BY DEF Charged, State
<1> QED BY <1>2, <1>3, <1>4, <1>5

(* Engine::spawn and condense_chunk add a child's spend to its parent's and nothing else. *)
LEMMA RolledUpState ==
    ASSUME NEW s \in State, NEW c \in State
    PROVE  /\ RolledUp(s, c) \in State
           /\ RolledUp(s, c).tokens = s.tokens + c.tokens /\ RolledUp(s, c).floor = s.floor
           /\ RolledUp(s, c).status = s.status /\ RolledUp(s, c).parent = s.parent
<1> DEFINE t == [s EXCEPT !.tokens = @ + c.tokens]
<1>1. t \in State
  BY DEF State
<1>2. t.agents = s.agents /\ t.agents \in Nat /\ c.agents \in Nat
  BY DEF State
<1>3. RolledUp(s, c) = [t EXCEPT !.agents = t.agents + c.agents + 1]
  BY <1>2 DEF RolledUp
<1>4. [t EXCEPT !.agents = t.agents + c.agents + 1] \in State
  <2> HIDE DEF t
  <2> QED BY <1>1, <1>2 DEF State
<1>5. RolledUp(s, c).tokens = s.tokens + c.tokens /\ RolledUp(s, c).floor = s.floor
  BY DEF RolledUp, State
<1>6. RolledUp(s, c).status = s.status /\ RolledUp(s, c).parent = s.parent
  BY DEF RolledUp, State
<1> QED BY <1>3, <1>4, <1>5, <1>6

-----------------------------------------------------------------------------
(* Types *)

(* Before the first message every variable has its type. *)
LEMMA TypeInit == Init => TypeOK
BY DEF Init, TypeOK, NoProfile, NoBudget, NoState, Profile, Budget, State, Places, Policies,
       Floors, Statuses

(* Every handler leaves every variable in its type. *)
LEMMA TypeStep == ASSUME TypeOK, [Next]_vars PROVE TypeOK'
<1> USE DEF TypeOK
<1>1. CASE UNCHANGED vars
  BY <1>1 DEF vars
<1>2. ASSUME NEW r \in Runs, Ask(r) PROVE TypeOK'
  <2>1. /\ [level |-> "secretary", tools |-> Tools, orphan |-> "terminate"] \in Profile
        /\ [NoState EXCEPT !.status = "running"] \in State /\ RootBudget \in Budget
    BY BudgetAssumption DEF Profile, Levels, Policies, NoState, State, Floors, Statuses
  <2>2. stack' \in Seq(Runs) /\ stack' # <<>>
    BY <1>2 DEF Ask
  <2> QED BY <1>2, <2>1, <2>2 DEF Ask, Places
<1>3. ASSUME NEW r \in Runs, Resume(r) PROVE TypeOK'
  <2>1. [cp[r] EXCEPT !.status = "running"] \in State
    BY DEF State, Statuses
  <2>2. stack' \in Seq(Runs) /\ stack' # <<>>
    BY <1>3 DEF Resume
  <2> QED BY <1>3, <2>1, <2>2 DEF Resume, Places
<1>4. ASSUME NEW c \in Runs, NEW p \in Profile, NEW g \in Budget, pc # "idle",
             Enter(c, p, g), children' \subseteq Runs \X Runs
      PROVE  TypeOK'
  <2>1. Top \in Runs
    BY <1>4, TopIsRun
  <2>2. [tokens |-> 0, agents |-> 0, floor |-> run[Top].floor, status |-> "running",
         parent |-> Top] \in State
    BY <2>1 DEF State, Statuses
  <2>3. stack' \in Seq(Runs) /\ stack' # <<>>
    BY <1>4, Pushed DEF Enter
  <2> QED BY <1>4, <2>2, <2>3 DEF Enter, Places
<1>5. ASSUME NEW c \in Runs, Spawn(c) PROVE TypeOK'
  <2>1. PICK q \in Requests :
          /\ Accepts(Top, q)
          /\ Enter(c, [level  |-> ChildOf(prof[Top].level, q.kind), tools |-> q.tools,
                       orphan |-> q.orphan], Grant(Top, q))
    BY <1>5 DEF Spawn
  <2>2. pc # "idle" /\ Top \in Runs
    BY <1>5, TopIsRun DEF Spawn
  <2>3. Grant(Top, q) \in Budget
    BY <2>1, <2>2, GrantFits DEF Accepts
  <2>4. /\ q.tools \in SUBSET Tools /\ q.orphan \in Policies /\ q.kind \in {"work", "manage"}
        /\ prof[Top].level \in Levels \cup {"none"}
    BY <2>2, RequestAssumption DEF Request, Profile
  <2>5. [level  |-> ChildOf(prof[Top].level, q.kind), tools |-> q.tools,
         orphan |-> q.orphan] \in Profile
    BY <2>4, ChildOfDescends DEF Profile
  <2>6. children' \subseteq Runs \X Runs
    BY <1>5, <2>2 DEF Spawn
  <2> QED BY <1>4, <2>1, <2>2, <2>3, <2>5, <2>6
<1>6. ASSUME NEW c \in Runs, Read(c) PROVE TypeOK'
  <2>1. pc # "idle" /\ Top \in Runs
    BY <1>6, TopIsRun DEF Read
  <2>2. ReaderSlice(Top) \in Budget
    BY <1>6, <2>1, SliceFits DEF Read
  <2>3. [level |-> "reader", tools |-> {}, orphan |-> "terminate"] \in Profile
    BY DEF Profile, Levels, Policies
  <2> QED BY <1>4, <1>6, <2>1, <2>2, <2>3 DEF Read
<1>7. ASSUME NEW c \in Runs, Settle(c) PROVE TypeOK'
  <2>1. Amended(c) \in State
    BY DEF Amended, State, Statuses
  <2> QED BY <1>7, <2>1 DEF Settle
<1>8. ASSUME NEW s \in Statuses, pc # "idle", EndWith(s) PROVE TypeOK'
  <2>1. Top \in Runs
    BY <1>8, TopIsRun
  <2>2. [run[Top] EXCEPT !.status = s] \in State
    BY <2>1 DEF State
  <2> QED BY <1>8, <2>1, <2>2 DEF EndWith, Places
<1>9. CASE Exhausted \/ Stop \/ Finish
  BY <1>8, <1>9 DEF Exhausted, Stop, Finish, Statuses
<1>10. CASE Call
  <2>1. Top \in Runs /\ pc # "idle"
    BY <1>10, TopIsRun DEF Call
  <2>2. PICK n \in Costs, f \in Floors :
          run' = [run EXCEPT ![Top] = Charged(@, n, f)]
    BY <1>10 DEF Call
  <2>3. Charged(run[Top], n, f) \in State
    BY <2>1, BoundAssumption, ChargedState
  <2>4. run' \in [Runs -> State]
    BY <2>1, <2>2, <2>3
  <2> QED BY <1>10, <2>1, <2>4 DEF Call, Places
<1>11. CASE Again \/ Act \/ Refuse
  BY <1>11 DEF Again, Act, Refuse, goOn, Places
<1>12. CASE Save \/ Conclude
  <2>1. Top \in Runs /\ pc # "idle" /\ pc' # "idle"
    BY <1>12, TopIsRun DEF Save, Conclude
  <2> QED BY <1>12, <2>1 DEF Save, Conclude, Places
<1>13. CASE Return
  <2>1. Top \in Runs /\ pc # "idle" /\ Len(stack) \in Nat \ {0}
    BY <1>13, TopIsRun DEF Return
  <2>2. /\ stack' \in Seq(Runs)
        /\ Len(stack) = 1 <=> stack' = <<>>
        /\ Len(stack) > 1 => Below \in Runs
    BY <1>13, <2>1, Popped DEF Return
  <2>3. NoState \in State
    BY DEF NoState, State, Floors, Statuses
  <2>4. run' \in [Runs -> State]
    <3>1. CASE Len(stack) = 1
      BY <1>13, <2>3, <3>1 DEF Return
    <3>2. CASE Len(stack) # 1
      <4>1. Len(stack) > 1
        <5>1. \A n \in Nat \ {0} : n # 1 => n > 1 OBVIOUS
        <5> QED BY <2>1, <3>2, <5>1, Zenon
      <4>2. RolledUp(run[Below], run[Top]) \in State
        BY <2>1, <2>2, <4>1, RolledUpState
      <4>3. run' = [run EXCEPT ![Top] = NoState, ![Below] = RolledUp(@, run[Top])]
        BY <1>13, <3>2 DEF Return
      <4>4. Top # Below => run' = [run EXCEPT ![Top] = NoState,
                                              ![Below] = RolledUp(run[Below], run[Top])]
        BY <2>1, <4>3
      <4>5. RolledUp(NoState, run[Top]) \in State
        BY <2>1, <2>3, RolledUpState
      <4> QED BY <2>1, <2>2, <2>3, <4>1, <4>2, <4>3, <4>4, <4>5
    <3> QED BY <3>1, <3>2
  <2> QED BY <1>13, <2>1, <2>2, <2>4 DEF Return, Places
<1>14. CASE Crash
  BY <1>14 DEF Crash, NoState, State, Floors, Statuses, Places
<1> QED BY <1>1, <1>2, <1>3, <1>5, <1>6, <1>7, <1>9, <1>10, <1>11, <1>12, <1>13, <1>14 DEF Next

-----------------------------------------------------------------------------
(* What each kind of step does to the stack and the runs on it *)

(* A child begins: Run::child and the push of its drive. *)
LEMMA EnterEffect ==
    ASSUME TypeOK, Shape, pc # "idle", NEW c \in Runs, NEW p, NEW g, Enter(c, p, g)
    PROVE  /\ stack' = Append(stack, c) /\ DOMAIN stack' = 1..(Len(stack) + 1)
           /\ Len(stack') = Len(stack) + 1 /\ stack'[Len(stack) + 1] = c
           /\ \A i \in DOMAIN stack : stack'[i] = stack[i] /\ stack[i] # c
           /\ prof'[c] = p /\ budget'[c] = g
           /\ run'[c] = [tokens |-> 0, agents |-> 0, floor |-> run[Top].floor,
                         status |-> "running", parent |-> Top]
           /\ \A r \in Runs : r # c => /\ prof'[r] = prof[r] /\ budget'[r] = budget[r]
                                        /\ run'[r] = run[r]
           /\ cp' = cp /\ settled' = settled /\ pc' = "loop" /\ Fresh(c)
<1>1. /\ stack' = Append(stack, c) /\ Fresh(c) /\ c \notin Roots
  BY DEF Enter
<1>2. \A i \in DOMAIN stack : stack[i] # c
  BY <1>1 DEF Shape
<1>3. /\ prof'[c] = p /\ budget'[c] = g
      /\ run'[c] = [tokens |-> 0, agents |-> 0, floor |-> run[Top].floor,
                    status |-> "running", parent |-> Top]
      /\ \A r \in Runs : r # c => /\ prof'[r] = prof[r] /\ budget'[r] = budget[r]
                                   /\ run'[r] = run[r]
      /\ cp' = cp /\ settled' = settled /\ pc' = "loop"
  BY DEF Enter, TypeOK
<1> QED BY <1>1, <1>2, <1>3, Pushed

(* A drive returns, into the parent's step if there is one. *)
LEMMA ReturnEffect ==
    ASSUME TypeOK, Shape, Return
    PROVE  /\ Len(stack') = Len(stack) - 1 /\ DOMAIN stack' = 1..(Len(stack) - 1)
           /\ Len(stack) \in Nat \ {0} /\ Top \in Runs
           /\ \A i \in DOMAIN stack' : /\ i \in DOMAIN stack /\ stack'[i] = stack[i]
                                       /\ stack[i] # Top /\ stack[i] \in Runs
                                       /\ i < Len(stack') => run'[stack[i]] = run[stack[i]]
           /\ run'[Top] = NoState
           /\ Len(stack) > 1 => /\ Below \in Runs /\ Below # Top
                                /\ Below = stack'[Len(stack')]
                                /\ run'[Below] = RolledUp(run[Below], run[Top])
           /\ \A r \in Runs : run'[r] = run[r] \/ r = Top \/ (r = Below /\ Len(stack) > 1)
           /\ prof' = prof /\ budget' = budget /\ cp' = cp /\ children' = children
           /\ settled' = settled
<1>1. /\ pc # "idle" /\ Top \in Runs /\ Len(stack) \in Nat \ {0}
      /\ DOMAIN stack = 1..Len(stack) /\ Top = stack[Len(stack)]
      /\ \A i \in DOMAIN stack : stack[i] \in Runs
  BY TopIsRun DEF Return
<1>2. /\ Len(stack') = Len(stack) - 1 /\ DOMAIN stack' = 1..(Len(stack) - 1)
      /\ \A i \in DOMAIN stack' : i \in DOMAIN stack /\ stack'[i] = stack[i]
  BY <1>1, Popped DEF Return
<1>3. \A i \in DOMAIN stack' : stack[i] # Top
  BY <1>1, <1>2 DEF Shape
<1>4. CASE Len(stack) = 1
  <2>1. run' = [run EXCEPT ![Top] = NoState]
    BY <1>4 DEF Return
  <2> QED BY <1>1, <1>2, <1>3, <1>4, <2>1 DEF Return, TypeOK
<1>5. CASE Len(stack) > 1
  <2>1. /\ Below = stack[Len(stack) - 1] /\ Len(stack) - 1 \in DOMAIN stack'
        /\ Below = stack'[Len(stack')] /\ Below \in Runs
    BY <1>1, <1>2, <1>5 DEF Below
  <2>2. Below # Top
    BY <1>3, <2>1
  <2>3. run' = [run EXCEPT ![Top] = NoState, ![Below] = RolledUp(@, run[Top])]
    BY <1>1, <1>5 DEF Return
  <2>4. /\ run'[Top] = NoState /\ run'[Below] = RolledUp(run[Below], run[Top])
        /\ \A r \in Runs : r # Top /\ r # Below => run'[r] = run[r]
    BY <1>1, <2>1, <2>2, <2>3 DEF TypeOK
  <2>5. \A i \in DOMAIN stack' : i < Len(stack') => stack[i] # Below
    BY <1>1, <1>2, <1>5, <2>1 DEF Shape
  <2> QED BY <1>1, <1>2, <1>3, <1>5, <2>1, <2>2, <2>4, <2>5 DEF Return
<1>6. Len(stack) = 1 \/ Len(stack) > 1
  BY <1>1
<1> QED BY <1>4, <1>5, <1>6

(* A step that touches at most the topmost run. *)
LEMMA TopEffect ==
    ASSUME TypeOK, Exhausted \/ Stop \/ Finish \/ Call \/ Again \/ Act \/ Refuse
    PROVE  /\ prof' = prof /\ budget' = budget /\ stack' = stack /\ children' = children
           /\ cp' = cp /\ settled' = settled /\ pc # "idle" /\ Top \in Runs
           /\ \A r \in Runs : r # Top => run'[r] = run[r]
           /\ run'[Top].agents = run[Top].agents /\ run'[Top].parent = run[Top].parent
<1>1. pc # "idle" /\ Top \in Runs
  BY TopIsRun DEF Exhausted, Stop, Finish, Call, Again, Act, Refuse
<1>2. ASSUME NEW s, EndWith(s)
      PROVE  /\ run'[Top].agents = run[Top].agents /\ run'[Top].parent = run[Top].parent
             /\ \A r \in Runs : r # Top => run'[r] = run[r]
             /\ prof' = prof /\ budget' = budget /\ stack' = stack /\ children' = children
             /\ cp' = cp /\ settled' = settled
  BY <1>1, <1>2 DEF EndWith, TypeOK, State
<1>3. CASE Exhausted \/ Stop \/ Finish
  BY <1>1, <1>2, <1>3 DEF Exhausted, Stop, Finish
<1>4. CASE Call
  <2>1. PICK n \in Costs, f \in Floors : run' = [run EXCEPT ![Top] = Charged(@, n, f)]
    BY <1>4 DEF Call
  <2>2. run'[Top] = Charged(run[Top], n, f) /\ \A r \in Runs : r # Top => run'[r] = run[r]
    BY <1>1, <2>1 DEF TypeOK
  <2>3. Charged(run[Top], n, f).parent = run[Top].parent
        /\ Charged(run[Top], n, f).agents = run[Top].agents
    BY <1>1 DEF Charged, TypeOK, State
  <2> QED BY <1>1, <1>4, <2>2, <2>3 DEF Call
<1>5. CASE Again \/ Act \/ Refuse
  BY <1>1, <1>5 DEF Again, Act, Refuse, goOn
<1> QED BY <1>3, <1>4, <1>5

(* A checkpoint, of the step or of the drive's end. *)
LEMMA SaveEffect ==
    ASSUME TypeOK, Save \/ Conclude
    PROVE  /\ prof' = prof /\ budget' = budget /\ stack' = stack /\ children' = children
           /\ run' = run /\ settled' = settled /\ pc # "idle" /\ Top \in Runs
           /\ cp'[Top] = run[Top] /\ \A r \in Runs : r # Top => cp'[r] = cp[r]
<1>1. pc # "idle" /\ Top \in Runs
  BY TopIsRun DEF Save, Conclude
<1> QED BY <1>1 DEF Save, Conclude, TypeOK

(* One child settled by settle_children. *)
LEMMA SettleEffect ==
    ASSUME TypeOK, NEW c \in Runs, Settle(c)
    PROVE  /\ prof' = prof /\ budget' = budget /\ stack' = stack /\ run' = run /\ pc' = pc
           /\ pc = "settle" /\ Top \in Runs
           /\ <<Top, c>> \in children /\ children' = children \ {<<Top, c>>}
           /\ settled' = settled \cup {c}
           /\ cp'[c] = Amended(c) /\ \A r \in Runs : r # c => cp'[r] = cp[r]
<1>1. pc # "idle" /\ Top \in Runs
  BY TopIsRun DEF Settle
<1> QED BY <1>1 DEF Settle, TypeOK

(* Whichever way a child is created (Engine::spawn or condense_chunk), it is paid for out of
   what its parent has left, holds part of its parent's tools, none of them once the parent is
   tainted, and stands below it on the ladder. *)
LEMMA Created ==
    ASSUME TypeOK, Shape, Quarantine, NEW c \in Runs, Spawn(c) \/ Read(c)
    PROVE  \E p \in Profile, g \in Budget :
             /\ Enter(c, p, g) /\ pc \in {"reply", "batch"} /\ Top \in Runs
             /\ children' \subseteq children \cup {<<Top, c>>}
             /\ g.tokens >= MinCall /\ g.agents > 0
             /\ run[Top].tokens + g.tokens <= budget[Top].tokens
             /\ p.level # "none" /\ (p.level = "reader" => p.tools = {})
             /\ prof[Top].tools # {} /\ p.tools \subseteq prof[Top].tools
             /\ run[Top].floor = "tainted" => p.tools = {}
             /\ Rank[prof[Top].level] < Rank[p.level]
<1>1. pc # "idle" /\ Top \in Runs /\ ~Fresh(Top)
  BY TopIsRun DEF Spawn, Read, Shape
<1>2. /\ budget[Top].tokens \in Nat /\ run[Top].tokens \in Nat
      /\ prof[Top].level \in Levels /\ prof[Top].tools \subseteq Tools
  BY <1>1 DEF TypeOK, Budget, State, Profile, Fresh
<1>3. Remaining(Top) > 0 => Remaining(Top) = budget[Top].tokens - run[Top].tokens
  BY <1>2 DEF Remaining, Larger
<1>4. ASSUME Spawn(c)
      PROVE  \E q \in Requests :
               /\ Accepts(Top, q) /\ children' = children \cup {<<Top, c>>} /\ pc = "reply"
               /\ Enter(c, [level  |-> ChildOf(prof[Top].level, q.kind), tools |-> q.tools,
                            orphan |-> q.orphan], Grant(Top, q))
  BY <1>4 DEF Spawn
<1>5. CASE Spawn(c)
  <2>1. PICK q \in Requests :
          /\ Accepts(Top, q) /\ children' = children \cup {<<Top, c>>} /\ pc = "reply"
          /\ Enter(c, [level  |-> ChildOf(prof[Top].level, q.kind), tools |-> q.tools,
                       orphan |-> q.orphan], Grant(Top, q))
    BY <1>4, <1>5
  <2> DEFINE p == [level  |-> ChildOf(prof[Top].level, q.kind), tools |-> q.tools,
                   orphan |-> q.orphan]
             g == Grant(Top, q)
  <2>2. Grantable(Top, q) /\ run[Top].agents < budget[Top].agents /\ Remaining(Top) > 0
    BY <2>1 DEF Accepts, Grantable
  <2>3. g \in Budget /\ g.tokens <= Remaining(Top) /\ g.tokens >= MinCall /\ g.agents > 0
    BY <1>1, <2>2, GrantFits
  <2>4. run[Top].tokens + g.tokens <= budget[Top].tokens
    <3>1. g.tokens \in Nat
      BY <2>3 DEF Budget
    <3> HIDE DEF g
    <3> QED BY <1>2, <1>3, <2>2, <2>3, <3>1
  <2>5. q.kind \in {"work", "manage"} /\ q.tools \in SUBSET Tools /\ q.orphan \in Policies
    BY RequestAssumption DEF Request
  <2>6. /\ p.level # "none" /\ p.level # "reader" /\ p.level \in Levels
        /\ Rank[prof[Top].level] < Rank[p.level]
    BY <1>2, <2>1, <2>5, ChildOfDescends DEF Accepts
  <2>7. p \in Profile
    BY <2>5, <2>6 DEF Profile
  <2>8. /\ prof[Top].tools # {} /\ p.tools \subseteq prof[Top].tools
        /\ run[Top].floor = "tainted" => p.tools = {}
    BY <2>1 DEF Accepts, ComposesTargets
  <2> HIDE DEF p, g
  <2> QED BY <1>1, <2>1, <2>3, <2>4, <2>6, <2>7, <2>8 DEF p, g
<1>6. CASE Read(c)
  <2> DEFINE p == [level |-> "reader", tools |-> {}, orphan |-> "terminate"]
             g == ReaderSlice(Top)
  <2>1. /\ pc = "batch" /\ Remaining(Top) > 0 /\ Remaining(Top) >= MinChild
        /\ Enter(c, p, g) /\ children' = children
    BY <1>6 DEF Read
  <2>2. g \in Budget /\ g.tokens <= Remaining(Top) /\ g.tokens >= MinCall /\ g.agents > 0
    BY <1>1, <2>1, SliceFits
  <2>3. run[Top].tokens + g.tokens <= budget[Top].tokens
    <3>1. g.tokens \in Nat
      BY <2>2 DEF Budget
    <3> HIDE DEF g
    <3> QED BY <1>2, <1>3, <2>1, <2>2, <3>1
  <2>4. prof[Top].tools # {} /\ prof[Top].level # "reader"
    BY <1>1, <2>1 DEF Quarantine
  <2>5. Rank[prof[Top].level] < Rank["reader"]
    BY <1>2, <2>4 DEF Rank, Levels
  <2>6. p \in Profile /\ p.level = "reader" /\ p.tools = {}
    BY DEF Profile, Levels, Policies
  <2> HIDE DEF p, g
  <2> QED BY <1>1, <2>1, <2>2, <2>3, <2>4, <2>5, <2>6
<1> QED BY <1>5, <1>6

(* A drive begins from an idle engine, with one run on the stack. *)
LEMMA BeginEffect ==
    ASSUME TypeOK, NEW r \in Runs, Ask(r) \/ Resume(r)
    PROVE  /\ stack = <<>> /\ DOMAIN stack = {} /\ Len(stack') = 1
           /\ stack' = <<r>> /\ DOMAIN stack' = {1} /\ stack'[1] = r
           /\ pc' = "loop" /\ cp' = cp /\ children' = children /\ settled' = settled
           /\ Top' = r /\ run'[r].status = "running"
           /\ \A s \in Runs : s # r => /\ prof'[s] = prof[s] /\ budget'[s] = budget[s]
                                        /\ run'[s] = run[s]
<1>1. pc = "idle" /\ stack = <<>> /\ stack' = <<r>>
  BY DEF Ask, Resume, TypeOK
<1>2. Len(<<r>>) = 1 /\ DOMAIN <<r>> = {1} /\ <<r>>[1] = r
  OBVIOUS
<1>3. DOMAIN stack = {}
  BY <1>1
<1>4. run'[r].status = "running"
  BY DEF Ask, Resume, TypeOK, NoState, State
<1>5. \A s \in Runs : s # r => /\ prof'[s] = prof[s] /\ budget'[s] = budget[s]
                                /\ run'[s] = run[s]
  BY DEF Ask, Resume, TypeOK
<1>6. pc' = "loop" /\ cp' = cp /\ children' = children /\ settled' = settled
  BY DEF Ask, Resume
<1> QED BY <1>1, <1>2, <1>3, <1>4, <1>5, <1>6 DEF Top

-----------------------------------------------------------------------------
(* Each part of the invariant, step by step *)

TopStep == Exhausted \/ Stop \/ Finish \/ Call \/ Again \/ Act \/ Refuse

(* The kinds of step there are. *)
LEMMA StepKinds ==
    ASSUME [Next]_vars
    PROVE  \/ UNCHANGED vars \/ TopStep \/ Save \/ Conclude \/ Return \/ Crash
           \/ \E r \in Runs : Ask(r) \/ Resume(r) \/ Spawn(r) \/ Read(r) \/ Settle(r)
BY DEF Next, TopStep

(* The runs being driven stay distinct, and no step touches an id not yet given out. *)
LEMMA ShapeStep == ASSUME IInv, [Next]_vars PROVE Shape'
<1> USE DEF IInv
<1>1. CASE UNCHANGED vars
  BY <1>1 DEF vars, Shape, Fresh
<1>2. ASSUME NEW r \in Runs, Ask(r) \/ Resume(r) PROVE Shape'
  <2>1. prof'[r].level # "none"
    BY <1>2 DEF Ask, Resume, TypeOK, Shape, Fresh, NoState, Resumable
  <2> QED BY <1>2, <2>1, BeginEffect DEF Shape, Fresh
<1>3. ASSUME NEW c \in Runs, Spawn(c) \/ Read(c) PROVE Shape'
  <2>1. PICK q \in Profile, g \in Budget :
          /\ Enter(c, q, g) /\ pc # "idle" /\ Top \in Runs
          /\ children' \subseteq children \cup {<<Top, c>>} /\ q.level # "none"
    BY <1>3, Created
  <2>2. /\ DOMAIN stack' = 1..(Len(stack) + 1) /\ stack'[Len(stack) + 1] = c
        /\ \A i \in DOMAIN stack : stack'[i] = stack[i] /\ stack[i] # c
        /\ prof'[c] = q /\ cp' = cp /\ settled' = settled
        /\ \A r \in Runs : r # c => prof'[r] = prof[r] /\ run'[r] = run[r]
    BY <2>1, EnterEffect
  <2>3. /\ DOMAIN stack = 1..Len(stack) /\ Len(stack) \in Nat
        /\ \A i \in DOMAIN stack : stack[i] \in Runs
    BY DEF TypeOK
  <2>4. \A i \in DOMAIN stack' : i \in DOMAIN stack \/ i = Len(stack) + 1
    BY <2>2, <2>3
  <2>5. \A i, j \in DOMAIN stack' : stack'[i] = stack'[j] => i = j
    BY <2>2, <2>4 DEF Shape
  <2>6. \A i \in DOMAIN stack' : prof'[stack'[i]].level # "none"
    BY <2>1, <2>2, <2>3, <2>4 DEF Shape, Fresh
  <2>7. \A r \in Runs : prof'[r].level = "none" => r # c /\ Fresh(r)
    BY <2>1, <2>2 DEF Fresh
  <2>8. \A r, o \in Runs : r # c /\ <<o, r>> \in children' => <<o, r>> \in children
    BY <2>1
  <2> QED BY <2>2, <2>5, <2>6, <2>7, <2>8 DEF Shape, Fresh
<1>4. CASE TopStep
  <2>1. /\ prof' = prof /\ stack' = stack /\ children' = children
        /\ cp' = cp /\ settled' = settled /\ pc # "idle" /\ Top \in Runs
        /\ \A r \in Runs : r # Top => run'[r] = run[r]
    BY <1>4, TopEffect DEF TopStep
  <2>2. ~Fresh(Top)
    BY <2>1, TopIsRun DEF Shape
  <2> QED BY <2>1, <2>2 DEF Shape, Fresh
<1>5. CASE Save \/ Conclude
  <2>1. /\ prof' = prof /\ stack' = stack /\ children' = children
        /\ run' = run /\ settled' = settled /\ pc # "idle" /\ Top \in Runs
        /\ \A r \in Runs : r # Top => cp'[r] = cp[r]
    BY <1>5, SaveEffect
  <2>2. ~Fresh(Top)
    BY <2>1, TopIsRun DEF Shape
  <2> QED BY <2>1, <2>2 DEF Shape, Fresh
<1>6. ASSUME NEW c \in Runs, Settle(c) PROVE Shape'
  <2>1. /\ prof' = prof /\ stack' = stack /\ run' = run /\ Top \in Runs
        /\ <<Top, c>> \in children /\ children' \subseteq children
        /\ settled' = settled \cup {c} /\ \A r \in Runs : r # c => cp'[r] = cp[r]
    BY <1>6, SettleEffect
  <2>2. ~Fresh(c)
    BY <2>1 DEF Shape
  <2> QED BY <2>1, <2>2 DEF Shape, Fresh
<1>7. CASE Return
  <2>1. /\ DOMAIN stack' \subseteq DOMAIN stack /\ \A i \in DOMAIN stack' : stack'[i] = stack[i]
        /\ prof' = prof /\ cp' = cp /\ children' = children /\ settled' = settled
        /\ run'[Top] = NoState
        /\ \A r \in Runs : run'[r] = run[r] \/ r = Top \/ (r = Below /\ Len(stack) > 1)
    BY <1>7, ReturnEffect
  <2>2. Len(stack) > 1 => ~Fresh(Below)
    BY <1>7, TopIsRun DEF Return, Shape, Below
  <2> QED BY <2>1, <2>2 DEF Shape, Fresh
<1>8. CASE Crash
  BY <1>8 DEF Crash, Shape, Fresh
<1> QED BY <1>1, <1>2, <1>3, <1>4, <1>5, <1>6, <1>7, <1>8, StepKinds

(* A run that waits can still pay for its child, no run passes its line by more than a prompt,
   and every child can make a call. *)
LEMMA SpendStep == ASSUME IInv, [Next]_vars PROVE Funded' /\ SpendBounded' /\ Endowed'
<1> USE DEF IInv
<1>0. /\ \A r \in Runs : /\ run[r].tokens \in Nat /\ cp[r].tokens \in Nat
                         /\ budget[r].tokens \in Nat /\ budget[r].agents \in Nat
      /\ MaxPrompt \in Nat /\ MinCall \in Nat
  BY BoundAssumption, FloorAssumption DEF TypeOK, State, Budget
<1>a. NoState.tokens = 0
  BY DEF NoState
<1>b. \A i \in DOMAIN stack : stack[i] \in Runs
  BY DEF TypeOK
<1>c. DOMAIN stack = 1..Len(stack) /\ Len(stack) \in Nat
  BY DEF TypeOK
<1>1. CASE UNCHANGED vars
  BY <1>1 DEF vars, Funded, SpendBounded, Endowed, Fresh
<1>2. ASSUME NEW r \in Runs, Ask(r) \/ Resume(r) PROVE Funded' /\ SpendBounded' /\ Endowed'
  <2>1. /\ DOMAIN stack' = {1} /\ cp' = cp
        /\ \A s \in Runs : s # r => /\ prof'[s] = prof[s] /\ budget'[s] = budget[s]
                                     /\ run'[s] = run[s]
    BY <1>2, BeginEffect
  <2>2. Funded'
    BY <2>1 DEF Funded
  <2>3. CASE Ask(r)
    <3>1. /\ run'[r].tokens = 0 /\ budget'[r] = RootBudget /\ cp[r] = NoState
      BY <2>3 DEF Ask, TypeOK, NoState, Shape
    <3>2. /\ RootBudget.tokens \in Nat /\ RootBudget.tokens >= MinCall /\ RootBudget.agents > 0
      BY BudgetAssumption DEF Budget
    <3> QED BY <1>0, <1>a, <2>1, <2>2, <3>1, <3>2 DEF SpendBounded, Endowed, Fresh
  <2>4. CASE Resume(r)
    <3>1. run'[r].tokens = cp[r].tokens /\ prof' = prof /\ budget' = budget
      BY <2>4 DEF Resume, TypeOK, State
    <3> QED BY <2>1, <2>2, <3>1 DEF SpendBounded, Endowed, Fresh
  <2> QED BY <1>2, <2>3, <2>4
<1>3. ASSUME NEW c \in Runs, Spawn(c) \/ Read(c) PROVE Funded' /\ SpendBounded' /\ Endowed'
  <2>1. PICK p \in Profile, g \in Budget :
          /\ Enter(c, p, g) /\ pc # "idle" /\ Top \in Runs
          /\ g.tokens >= MinCall /\ g.agents > 0
          /\ run[Top].tokens + g.tokens <= budget[Top].tokens
    BY <1>3, Created
  <2>2. /\ DOMAIN stack' = 1..(Len(stack) + 1) /\ stack'[Len(stack) + 1] = c
        /\ \A i \in DOMAIN stack : stack'[i] = stack[i] /\ stack[i] # c
        /\ budget'[c] = g /\ run'[c].tokens = 0 /\ cp' = cp /\ Fresh(c)
        /\ \A r \in Runs : r # c => /\ prof'[r] = prof[r] /\ budget'[r] = budget[r]
                                     /\ run'[r] = run[r]
    BY <2>1, EnterEffect
  <2>3. g.tokens \in Nat /\ g.agents \in Nat
    BY DEF Budget
  <2>4. SpendBounded'
    BY <1>0, <1>a, <2>2, <2>3 DEF SpendBounded, Shape
  <2>5. Endowed'
    BY <2>1, <2>2 DEF Endowed, Fresh
  <2>6. Funded'
    <3> SUFFICES ASSUME NEW i \in DOMAIN stack', i + 1 \in DOMAIN stack'
                 PROVE  run'[stack'[i]].tokens + budget'[stack'[i + 1]].tokens
                          <= budget'[stack'[i]].tokens
      BY DEF Funded
    <3>1. i \in DOMAIN stack /\ (i + 1 \in DOMAIN stack \/ i = Len(stack))
      BY <1>c, <2>2
    <3>2. run'[stack'[i]] = run[stack[i]] /\ budget'[stack'[i]] = budget[stack[i]]
      BY <1>b, <2>2, <3>1
    <3>3. CASE i + 1 \in DOMAIN stack
      BY <1>b, <2>2, <3>1, <3>2, <3>3 DEF Funded
    <3>4. CASE i = Len(stack)
      BY <2>1, <2>2, <3>2, <3>4 DEF Top
    <3> QED BY <3>1, <3>3, <3>4
  <2> QED BY <2>4, <2>5, <2>6
<1>4. CASE TopStep
  <2>1. /\ prof' = prof /\ budget' = budget /\ stack' = stack /\ cp' = cp
        /\ pc # "idle" /\ Top \in Runs /\ \A r \in Runs : r # Top => run'[r] = run[r]
    BY <1>4, TopEffect DEF TopStep
  <2>2. \A i \in DOMAIN stack : i + 1 \in DOMAIN stack => stack[i] # Top
    BY <1>c, <2>1, TopIsRun DEF Shape
  <2>3. Funded' /\ Endowed'
    BY <1>b, <2>1, <2>2 DEF Funded, Endowed, Fresh
  <2>4. run'[Top].tokens <= budget[Top].tokens + MaxPrompt
    <3>1. ASSUME NEW s, EndWith(s) PROVE run'[Top].tokens = run[Top].tokens
      BY <2>1, <3>1 DEF EndWith, TypeOK, State
    <3>2. CASE Exhausted \/ Stop \/ Finish
      BY <2>1, <3>1, <3>2 DEF Exhausted, Stop, Finish, SpendBounded
    <3>3. CASE Again \/ Act \/ Refuse
      BY <2>1, <3>3 DEF Again, Act, Refuse, goOn, SpendBounded
    <3>4. CASE Call
      <4>1. PICK n \in Costs, f \in Floors :
              /\ n <= Remaining(Top) + MaxPrompt
              /\ run' = [run EXCEPT ![Top] = Charged(@, n, f)]
        BY <3>4 DEF Call
      <4>2. run'[Top].tokens = run[Top].tokens + n
        BY <2>1, <4>1, BoundAssumption, ChargedState DEF TypeOK
      <4>3. run[Top].tokens < budget[Top].tokens
        BY <3>4 DEF Call, HasRoom
      <4>4. Remaining(Top) = budget[Top].tokens - run[Top].tokens /\ n \in Nat
        BY <1>0, <2>1, <4>3, BoundAssumption DEF Remaining, Larger
      <4> QED BY <1>0, <2>1, <4>1, <4>2, <4>4
    <3> QED BY <1>4, <3>2, <3>3, <3>4 DEF TopStep
  <2>5. SpendBounded'
    BY <2>1, <2>4 DEF SpendBounded
  <2> QED BY <2>3, <2>5
<1>5. CASE Save \/ Conclude
  <2>1. /\ prof' = prof /\ budget' = budget /\ stack' = stack /\ run' = run
        /\ Top \in Runs /\ cp'[Top] = run[Top] /\ \A r \in Runs : r # Top => cp'[r] = cp[r]
    BY <1>5, SaveEffect
  <2> QED BY <2>1 DEF Funded, SpendBounded, Endowed, Fresh
<1>6. ASSUME NEW c \in Runs, Settle(c) PROVE Funded' /\ SpendBounded' /\ Endowed'
  <2>1. /\ prof' = prof /\ budget' = budget /\ stack' = stack /\ run' = run
        /\ cp'[c] = Amended(c) /\ \A r \in Runs : r # c => cp'[r] = cp[r]
    BY <1>6, SettleEffect
  <2>2. Amended(c).tokens = cp[c].tokens
    BY DEF Amended, TypeOK, State
  <2> QED BY <2>1, <2>2 DEF Funded, SpendBounded, Endowed, Fresh
<1>7. CASE Return
  <2>1. /\ Len(stack') = Len(stack) - 1 /\ DOMAIN stack' = 1..(Len(stack) - 1)
        /\ Len(stack) \in Nat \ {0} /\ Top \in Runs
        /\ \A i \in DOMAIN stack' : /\ i \in DOMAIN stack /\ stack'[i] = stack[i]
                                    /\ i < Len(stack') => run'[stack[i]] = run[stack[i]]
        /\ run'[Top] = NoState
        /\ Len(stack) > 1 => Below \in Runs /\ run'[Below] = RolledUp(run[Below], run[Top])
        /\ \A r \in Runs : run'[r] = run[r] \/ r = Top \/ (r = Below /\ Len(stack) > 1)
        /\ prof' = prof /\ budget' = budget /\ cp' = cp
    BY <1>7, ReturnEffect
  <2>2. Funded'
    <3> SUFFICES ASSUME NEW i \in DOMAIN stack', i + 1 \in DOMAIN stack'
                 PROVE  run'[stack'[i]].tokens + budget'[stack'[i + 1]].tokens
                          <= budget'[stack'[i]].tokens
      BY DEF Funded
    <3>1. i < Len(stack') /\ i \in DOMAIN stack /\ i + 1 \in DOMAIN stack
      BY <2>1
    <3> QED BY <2>1, <3>1 DEF Funded
  <2>3. Len(stack) > 1 => run'[Below].tokens <= budget[Below].tokens + MaxPrompt
    <3> SUFFICES ASSUME Len(stack) > 1
                 PROVE  run'[Below].tokens <= budget[Below].tokens + MaxPrompt
      OBVIOUS
    <3>1. run'[Below].tokens = run[Below].tokens + run[Top].tokens
      BY <2>1, RolledUpState DEF TypeOK
    <3>2. run[Below].tokens + budget[Top].tokens <= budget[Below].tokens
      <4>1. /\ Len(stack) - 1 \in DOMAIN stack /\ (Len(stack) - 1) + 1 = Len(stack)
            /\ Len(stack) \in DOMAIN stack
        BY <1>c, <2>1
      <4> QED BY <4>1 DEF Funded, Top, Below
    <3>3. run[Top].tokens <= budget[Top].tokens + MaxPrompt
      BY <2>1 DEF SpendBounded
    <3> QED BY <1>0, <2>1, <3>1, <3>2, <3>3
  <2>4. SpendBounded'
    BY <1>0, <1>a, <2>1, <2>3 DEF SpendBounded
  <2> QED BY <2>1, <2>2, <2>4 DEF Endowed, Fresh
<1>8. CASE Crash
  <2>1. /\ stack' = <<>> /\ \A r \in Runs : run'[r] = NoState
        /\ prof' = prof /\ budget' = budget /\ cp' = cp
    BY <1>8 DEF Crash
  <2>2. SpendBounded'
    BY <1>0, <1>a, <2>1 DEF SpendBounded
  <2> QED BY <2>1, <2>2 DEF Funded, Endowed, Fresh
<1> QED BY <1>1, <1>2, <1>3, <1>4, <1>5, <1>6, <1>7, <1>8, StepKinds

(* A tainted run never drives more than one run, a run drives only runs below it, and only a
   run with tools reads. *)
LEMMA AuthorityStep ==
    ASSUME IInv, [Next]_vars PROVE Quarantine' /\ TaintEndsDelegation' /\ LadderDescends'
<1> USE DEF IInv
<1>a. \A i \in DOMAIN stack : stack[i] \in Runs
  BY DEF TypeOK
<1>b. DOMAIN stack = 1..Len(stack) /\ Len(stack) \in Nat
  BY DEF TypeOK
<1>c. \A r \in Runs : ~Fresh(r) => Rank[prof[r].level] \in Nat
  BY DEF TypeOK, Profile, Fresh, Rank, Levels
<1>1. CASE UNCHANGED vars
  BY <1>1 DEF vars, Quarantine, TaintEndsDelegation, LadderDescends, Top
<1>2. ASSUME NEW r \in Runs, Ask(r) \/ Resume(r)
      PROVE  Quarantine' /\ TaintEndsDelegation' /\ LadderDescends'
  <2>1. /\ DOMAIN stack' = {1} /\ pc' = "loop"
        /\ \A s \in Runs : s # r => prof'[s] = prof[s]
    BY <1>2, BeginEffect
  <2>2. prof'[r].level # "reader" \/ prof'[r] = prof[r]
    BY <1>2 DEF Ask, Resume, TypeOK
  <2>3. \A s \in Runs : prof'[s].level = "reader" => prof'[s].tools = {}
    BY <2>1, <2>2 DEF Quarantine
  <2>4. \A i, j \in DOMAIN stack' : ~(i < j) /\ i + 1 \notin DOMAIN stack'
    BY <2>1
  <2> QED BY <2>1, <2>3, <2>4 DEF Quarantine, TaintEndsDelegation, LadderDescends
<1>3. ASSUME NEW c \in Runs, Spawn(c) \/ Read(c)
      PROVE  Quarantine' /\ TaintEndsDelegation' /\ LadderDescends'
  <2>1. PICK p \in Profile, g \in Budget :
          /\ Enter(c, p, g) /\ pc # "idle" /\ Top \in Runs
          /\ p.level # "none" /\ (p.level = "reader" => p.tools = {})
          /\ prof[Top].tools # {} /\ p.tools \subseteq prof[Top].tools
          /\ run[Top].floor = "tainted" => p.tools = {}
          /\ Rank[prof[Top].level] < Rank[p.level]
    BY <1>3, Created
  <2>2. /\ DOMAIN stack' = 1..(Len(stack) + 1) /\ stack'[Len(stack) + 1] = c
        /\ \A i \in DOMAIN stack : stack'[i] = stack[i] /\ stack[i] # c
        /\ prof'[c] = p /\ pc' = "loop"
        /\ \A r \in Runs : r # c => prof'[r] = prof[r] /\ run'[r] = run[r]
    BY <2>1, EnterEffect
  <2>3. /\ Len(stack) \in DOMAIN stack /\ Top = stack[Len(stack)]
        /\ \A i \in DOMAIN stack' : i \in DOMAIN stack \/ i = Len(stack) + 1
        /\ \A i \in DOMAIN stack : i < Len(stack) \/ i = Len(stack)
    BY <1>b, <2>1, <2>2, TopIsRun
  <2>4. \A i \in DOMAIN stack : /\ prof'[stack'[i]] = prof[stack[i]]
                                /\ run'[stack'[i]] = run[stack[i]]
    BY <1>a, <2>2
  <2>5. Quarantine'
    <3>1. \A i \in DOMAIN stack' :
            i + 1 \in DOMAIN stack' /\ prof'[stack'[i + 1]].level = "reader"
              => prof'[stack'[i]].tools # {}
      <4> SUFFICES ASSUME NEW i \in DOMAIN stack', i + 1 \in DOMAIN stack',
                          prof'[stack'[i + 1]].level = "reader"
                   PROVE  prof'[stack'[i]].tools # {}
        OBVIOUS
      <4>1. i \in DOMAIN stack /\ (i + 1 \in DOMAIN stack \/ i = Len(stack))
        BY <1>b, <2>2
      <4>2. CASE i = Len(stack)
        BY <2>1, <2>3, <2>4, <4>2
      <4>3. CASE i + 1 \in DOMAIN stack
        BY <2>4, <4>1, <4>3 DEF Quarantine
      <4> QED BY <4>1, <4>2, <4>3
    <3> QED BY <2>1, <2>2, <3>1 DEF Quarantine
  <2>6. TaintEndsDelegation'
    <3> SUFFICES ASSUME NEW i \in DOMAIN stack', NEW j \in DOMAIN stack', i < j,
                        run'[stack'[i]].floor = "tainted"
                 PROVE  j = i + 1 /\ prof'[stack'[j]].tools = {}
      BY DEF TaintEndsDelegation
    <3>1. i \in DOMAIN stack /\ run[stack[i]].floor = "tainted"
      BY <1>b, <2>2, <2>4
    <3>2. CASE j \in DOMAIN stack
      BY <2>4, <3>1, <3>2 DEF TaintEndsDelegation
    <3>3. CASE j = Len(stack) + 1
      <4>1. i = Len(stack)
        BY <2>1, <2>3, <3>1 DEF TaintEndsDelegation
      <4> QED BY <2>1, <2>2, <2>3, <3>1, <3>3, <4>1
    <3> QED BY <2>3, <3>2, <3>3
  <2>7. LadderDescends'
    <3> SUFFICES ASSUME NEW i \in DOMAIN stack', NEW j \in DOMAIN stack', i < j
                 PROVE  /\ Rank[prof'[stack'[i]].level] < Rank[prof'[stack'[j]].level]
                        /\ prof'[stack'[j]].tools \subseteq prof'[stack'[i]].tools
      BY DEF LadderDescends
    <3>1. i \in DOMAIN stack
      BY <1>b, <2>2
    <3>2. CASE j \in DOMAIN stack
      BY <2>4, <3>1, <3>2 DEF LadderDescends
    <3>3. CASE j = Len(stack) + 1
      <4>1. prof'[stack'[j]] = p /\ prof'[stack'[i]] = prof[stack[i]]
        BY <2>2, <2>4, <3>1, <3>3
      <4>2. CASE i = Len(stack)
        BY <2>1, <2>3, <4>1, <4>2
      <4>3. CASE i < Len(stack)
        <5>1. /\ Rank[prof[stack[i]].level] < Rank[prof[Top].level]
              /\ prof[Top].tools \subseteq prof[stack[i]].tools
          BY <2>3, <3>1, <4>3 DEF LadderDescends
        <5>2. /\ Rank[prof[stack[i]].level] \in Nat /\ Rank[prof[Top].level] \in Nat
              /\ Rank[p.level] \in Nat
          <6>1. p.level \in Levels
            BY <2>1 DEF Profile
          <6>2. Rank[p.level] \in Nat
            BY <6>1 DEF Rank, Levels
          <6> QED BY <1>a, <1>c, <2>1, <2>3, <3>1, <6>2 DEF Shape
        <5> QED BY <2>1, <4>1, <5>1, <5>2
      <4> QED BY <2>3, <3>1, <4>2, <4>3
    <3> QED BY <2>3, <3>2, <3>3
  <2> QED BY <2>5, <2>6, <2>7
<1>4. CASE TopStep
  <2>1. /\ prof' = prof /\ stack' = stack /\ pc # "idle" /\ Top \in Runs
        /\ \A r \in Runs : r # Top => run'[r] = run[r]
    BY <1>4, TopEffect DEF TopStep
  <2>2. pc' = "batch" => prof'[Top'].tools # {}
    BY <1>4, <2>1 DEF TopStep, Exhausted, Stop, Finish, Call, Again, Act, Refuse, EndWith, Top
  <2>3. \A i, j \in DOMAIN stack : i < j => stack[i] # Top
    BY <1>b, <2>1, TopIsRun DEF Shape
  <2>4. TaintEndsDelegation'
    BY <1>a, <2>1, <2>3 DEF TaintEndsDelegation
  <2> QED BY <2>1, <2>2, <2>4 DEF Quarantine, LadderDescends
<1>5. CASE Save \/ Conclude
  <2>1. prof' = prof /\ stack' = stack /\ run' = run /\ pc' # "batch"
    BY <1>5 DEF Save, Conclude
  <2> QED BY <2>1 DEF Quarantine, TaintEndsDelegation, LadderDescends
<1>6. ASSUME NEW c \in Runs, Settle(c)
      PROVE  Quarantine' /\ TaintEndsDelegation' /\ LadderDescends'
  <2>1. prof' = prof /\ stack' = stack /\ run' = run /\ pc' # "batch"
    BY <1>6 DEF Settle
  <2> QED BY <2>1 DEF Quarantine, TaintEndsDelegation, LadderDescends
<1>7. CASE Return
  <2>1. /\ DOMAIN stack' = 1..(Len(stack) - 1) /\ Len(stack) \in Nat \ {0} /\ Top \in Runs
        /\ Len(stack') = Len(stack) - 1
        /\ \A i \in DOMAIN stack' : /\ i \in DOMAIN stack /\ stack'[i] = stack[i]
                                    /\ i < Len(stack') => run'[stack[i]] = run[stack[i]]
        /\ Len(stack) > 1 => Below \in Runs /\ Below = stack'[Len(stack')]
        /\ prof' = prof
    BY <1>7, ReturnEffect
  <2>2. pc' = "batch" => prof'[Top'].tools # {}
    <3> SUFFICES ASSUME pc' = "batch" PROVE prof[Top'].tools # {}
      BY <2>1
    <3>1. Len(stack) # 1 /\ prof[Top].level = "reader"
      BY <1>7 DEF Return
    <3>2. /\ Len(stack) > 1 /\ Len(stack) - 1 \in DOMAIN stack
          /\ (Len(stack) - 1) + 1 = Len(stack) /\ Len(stack) \in DOMAIN stack
      BY <1>b, <2>1, <3>1
    <3>3. prof[stack[Len(stack) - 1]].tools # {}
      BY <3>1, <3>2 DEF Quarantine, Top
    <3>4. Top' = stack[Len(stack) - 1]
      BY <2>1, <3>2 DEF Top, Below
    <3> QED BY <3>3, <3>4
  <2>3. \A i, j \in DOMAIN stack' : i < j => run'[stack'[i]] = run[stack[i]]
    BY <2>1
  <2>4. \A i \in DOMAIN stack' : i + 1 \in DOMAIN stack' =>
           stack'[i] = stack[i] /\ stack'[i + 1] = stack[i + 1]
           /\ i \in DOMAIN stack /\ i + 1 \in DOMAIN stack
    BY <2>1
  <2>5. Quarantine'
    BY <2>1, <2>2, <2>4 DEF Quarantine
  <2>6. TaintEndsDelegation' /\ LadderDescends'
    BY <2>1, <2>3 DEF TaintEndsDelegation, LadderDescends
  <2> QED BY <2>5, <2>6
<1>8. CASE Crash
  <2>1. stack' = <<>> /\ pc' = "idle" /\ prof' = prof
    BY <1>8 DEF Crash
  <2> QED BY <2>1 DEF Quarantine, TaintEndsDelegation, LadderDescends
<1> QED BY <1>1, <1>2, <1>3, <1>4, <1>5, <1>6, <1>7, <1>8, StepKinds

(* A child that settle_children is to settle is not being driven: it could only be right
   above its parent, and that is the top. *)
LEMMA SettledIsNotDriven ==
    ASSUME TypeOK, Fate, NEW c \in Runs, Settle(c)
    PROVE  \A i \in DOMAIN stack : stack[i] # c
<1>1. /\ pc # "idle" /\ Top \in Runs /\ <<Top, c>> \in children
      /\ Len(stack) \in DOMAIN stack /\ DOMAIN stack = 1..Len(stack)
      /\ Top = stack[Len(stack)] /\ Len(stack) \in Nat
  BY TopIsRun DEF Settle
<1>2. \A i \in DOMAIN stack : stack[i] = c => i = Len(stack) + 1
  BY <1>1 DEF Fate
<1>3. Len(stack) + 1 \notin DOMAIN stack
  BY <1>1
<1> QED BY <1>2, <1>3

(* A child is settled once, by the drive that spawned it, and what it was settled to lasts. *)
LEMMA FateStep == ASSUME IInv, [Next]_vars PROVE Fate'
<1> USE DEF IInv
<1>a. \A i \in DOMAIN stack : stack[i] \in Runs
  BY DEF TypeOK
<1>b. DOMAIN stack = 1..Len(stack) /\ Len(stack) \in Nat
  BY DEF TypeOK
<1>1. CASE UNCHANGED vars
  BY <1>1 DEF vars, Fate, OrphansSettled
<1>2. ASSUME NEW r \in Runs, Ask(r) \/ Resume(r) PROVE Fate'
  <2>1. /\ DOMAIN stack = {} /\ DOMAIN stack' = {1} /\ stack'[1] = r
        /\ cp' = cp /\ children' = children /\ settled' = settled
        /\ \A s \in Runs : s # r => prof'[s] = prof[s]
    BY <1>2, BeginEffect
  <2>2. \A p, c \in Runs : <<p, c>> \notin children
    BY <2>1 DEF Fate
  <2>3. r \in settled => /\ prof'[r] = prof[r] /\ prof[r].orphan = "detach"
                          /\ run'[r].parent = NoRun
    BY <1>2 DEF Ask, Resume, Shape, Fate, OrphansSettled, TypeOK, State
  <2>4. settled \subseteq Runs
    BY DEF TypeOK
  <2>5. OrphansSettled'
    BY <2>1, <2>3, <2>4 DEF Fate, OrphansSettled
  <2> QED BY <2>1, <2>2, <2>3, <2>5 DEF Fate
<1>3. ASSUME NEW c \in Runs, Spawn(c) \/ Read(c) PROVE Fate'
  <2>1. PICK q \in Profile, g \in Budget :
          /\ Enter(c, q, g) /\ pc # "idle" /\ Top \in Runs
          /\ children' \subseteq children \cup {<<Top, c>>}
    BY <1>3, Created
  <2>2. /\ DOMAIN stack' = 1..(Len(stack) + 1) /\ stack'[Len(stack) + 1] = c
        /\ \A i \in DOMAIN stack : stack'[i] = stack[i] /\ stack[i] # c
        /\ cp' = cp /\ settled' = settled /\ Fresh(c)
        /\ \A r \in Runs : r # c => prof'[r] = prof[r] /\ run'[r] = run[r]
    BY <2>1, EnterEffect
  <2>3. /\ Len(stack) \in DOMAIN stack /\ Top = stack[Len(stack)]
        /\ \A i \in DOMAIN stack' : i \in DOMAIN stack \/ i = Len(stack) + 1
        /\ DOMAIN stack \subseteq DOMAIN stack'
    BY <1>b, <2>1, <2>2, TopIsRun
  <2>4. c \notin settled /\ \A p \in Runs : <<p, c>> \notin children
    BY <2>2 DEF Shape
  <2>5. OrphansSettled'
    BY <2>2, <2>4 DEF Fate, OrphansSettled, TypeOK
  <2>6. \A i \in DOMAIN stack' : stack'[i] \in settled' =>
          prof'[stack'[i]].orphan = "detach" /\ run'[stack'[i]].parent = NoRun
    BY <1>a, <2>2, <2>3, <2>4 DEF Fate
  <2>7. ASSUME NEW p \in Runs, NEW d \in Runs, <<p, d>> \in children'
        PROVE  /\ d \notin settled' /\ \E i \in DOMAIN stack' : stack'[i] = p
               /\ \A i, j \in DOMAIN stack' : stack'[i] = p /\ stack'[j] = d => j = i + 1
               /\ \A o \in Runs : <<o, d>> \in children' => o = p
    <3>1. CASE d = c
      <4>1. p = Top /\ \A o \in Runs : <<o, d>> \in children' => o = Top
        BY <2>1, <2>4, <2>7, <3>1
      <4>2. \A i \in DOMAIN stack' : stack'[i] = Top => i = Len(stack)
        BY <2>2, <2>3 DEF Shape
      <4>3. \A j \in DOMAIN stack' : stack'[j] = c => j = Len(stack) + 1
        BY <2>2, <2>3
      <4>4. \A i, j \in DOMAIN stack' : stack'[i] = p /\ stack'[j] = d => j = i + 1
        BY <3>1, <4>1, <4>2, <4>3
      <4>5. \E i \in DOMAIN stack' : stack'[i] = p
        BY <2>2, <2>3, <4>1
      <4> QED BY <2>2, <2>4, <3>1, <4>1, <4>4, <4>5
    <3>2. CASE d # c
      <4>1. <<p, d>> \in children /\ \A o \in Runs : <<o, d>> \in children' => <<o, d>> \in children
        BY <2>1, <2>7, <3>2
      <4>2. p # c
        BY <2>2, <4>1 DEF Fate
      <4>3. \A i \in DOMAIN stack' :
              stack'[i] \in {p, d} => i \in DOMAIN stack /\ stack'[i] = stack[i]
        BY <2>2, <2>3, <3>2, <4>2
      <4>4. \A i, j \in DOMAIN stack' : stack'[i] = p /\ stack'[j] = d => j = i + 1
        BY <4>1, <4>3 DEF Fate
      <4>5. \E i \in DOMAIN stack' : stack'[i] = p
        BY <2>2, <2>3, <4>1 DEF Fate
      <4> QED BY <2>2, <4>1, <4>4, <4>5 DEF Fate
    <3> QED BY <3>1, <3>2
  <2> QED BY <2>5, <2>6, <2>7 DEF Fate
<1>4. CASE TopStep
  <2>1. /\ prof' = prof /\ stack' = stack /\ children' = children /\ cp' = cp
        /\ settled' = settled /\ Top \in Runs /\ \A r \in Runs : r # Top => run'[r] = run[r]
        /\ run'[Top].parent = run[Top].parent
    BY <1>4, TopEffect DEF TopStep
  <2>2. \A r \in Runs : run'[r].parent = run[r].parent
    BY <2>1
  <2>3. OrphansSettled'
    BY <2>1 DEF Fate, OrphansSettled
  <2> QED BY <1>a, <2>1, <2>2, <2>3 DEF Fate
<1>5. CASE Save \/ Conclude
  <2>1. /\ prof' = prof /\ stack' = stack /\ children' = children /\ run' = run
        /\ settled' = settled /\ pc # "idle" /\ Top \in Runs
        /\ cp'[Top] = run[Top] /\ \A r \in Runs : r # Top => cp'[r] = cp[r]
    BY <1>5, SaveEffect
  <2>2. Top \in settled => prof[Top].orphan = "detach" /\ run[Top].parent = NoRun
    BY <2>1, TopIsRun DEF Fate
  <2>3. OrphansSettled'
    BY <2>1, <2>2 DEF Fate, OrphansSettled, TypeOK
  <2> QED BY <2>1, <2>3 DEF Fate
<1>6. ASSUME NEW c \in Runs, Settle(c) PROVE Fate'
  <2>1. /\ prof' = prof /\ stack' = stack /\ run' = run /\ Top \in Runs
        /\ <<Top, c>> \in children /\ children' = children \ {<<Top, c>>}
        /\ settled' = settled \cup {c}
        /\ cp'[c] = Amended(c) /\ \A r \in Runs : r # c => cp'[r] = cp[r]
    BY <1>6, SettleEffect
  <2>2. \A i \in DOMAIN stack : stack[i] # c
    BY <1>6, SettledIsNotDriven
  <2>3. Amended(c).status \in Resumable => prof[c].orphan = "detach" /\ Amended(c).parent = NoRun
    <3>1. prof[c].orphan \in {"terminate", "detach"}
      BY DEF TypeOK, Profile, Policies
    <3>2. CASE cp[c].status \in Terminal \cup {"none"}
      BY <3>2 DEF Amended, Terminal, Resumable
    <3>3. CASE cp[c].status \notin Terminal \cup {"none"} /\ prof[c].orphan = "terminate"
      BY <3>3 DEF Amended, TypeOK, State, Resumable
    <3>4. CASE cp[c].status \notin Terminal \cup {"none"} /\ prof[c].orphan = "detach"
      BY <3>4 DEF Amended, TypeOK, State
    <3> QED BY <3>1, <3>2, <3>3, <3>4
  <2>4. OrphansSettled'
    BY <2>1, <2>3 DEF Fate, OrphansSettled, TypeOK
  <2>5. \A i \in DOMAIN stack' : stack'[i] \in settled' =>
          prof'[stack'[i]].orphan = "detach" /\ run'[stack'[i]].parent = NoRun
    BY <2>1, <2>2 DEF Fate
  <2>6. \A p, d \in Runs : <<p, d>> \in children' => <<p, d>> \in children /\ d # c
    BY <2>1 DEF Fate
  <2>7. \A p, d \in Runs : <<p, d>> \in children' =>
          /\ d \notin settled' /\ \E i \in DOMAIN stack' : stack'[i] = p
          /\ \A i, j \in DOMAIN stack' : stack'[i] = p /\ stack'[j] = d => j = i + 1
          /\ \A o \in Runs : <<o, d>> \in children' => o = p
    BY <2>1, <2>6 DEF Fate
  <2> QED BY <2>4, <2>5, <2>7 DEF Fate
<1>7. CASE Return
  <2>1. /\ DOMAIN stack' = 1..(Len(stack) - 1) /\ Len(stack) \in Nat \ {0} /\ Top \in Runs
        /\ \A i \in DOMAIN stack' : i \in DOMAIN stack /\ stack'[i] = stack[i] /\ stack[i] # Top
        /\ Len(stack) > 1 => Below \in Runs /\ run'[Below] = RolledUp(run[Below], run[Top])
        /\ \A r \in Runs : run'[r] = run[r] \/ r = Top \/ (r = Below /\ Len(stack) > 1)
        /\ prof' = prof /\ cp' = cp /\ children' = children /\ settled' = settled
    BY <1>7, ReturnEffect
  <2>2. Len(stack) > 1 => run'[Below].parent = run[Below].parent
    BY <2>1, RolledUpState DEF TypeOK
  <2>3. \A r \in Runs : r # Top => run'[r].parent = run[r].parent
    BY <2>1, <2>2
  <2>4. OrphansSettled'
    BY <2>1 DEF Fate, OrphansSettled
  <2>5. \A i \in DOMAIN stack' : stack'[i] \in settled' =>
          prof'[stack'[i]].orphan = "detach" /\ run'[stack'[i]].parent = NoRun
    BY <1>a, <2>1, <2>3 DEF Fate
  <2>6. ASSUME NEW p \in Runs, NEW d \in Runs, <<p, d>> \in children
        PROVE  \E i \in DOMAIN stack' : stack'[i] = p
    <3>1. p # Top
      BY <1>7, <2>6 DEF Return
    <3>2. PICK i \in DOMAIN stack : stack[i] = p
      BY <2>6 DEF Fate
    <3>3. i \in DOMAIN stack'
      BY <1>b, <2>1, <3>1, <3>2 DEF Top
    <3> QED BY <2>1, <3>2, <3>3
  <2>7. \A p, d \in Runs : <<p, d>> \in children' =>
          /\ d \notin settled' /\ \E i \in DOMAIN stack' : stack'[i] = p
          /\ \A i, j \in DOMAIN stack' : stack'[i] = p /\ stack'[j] = d => j = i + 1
          /\ \A o \in Runs : <<o, d>> \in children' => o = p
    BY <2>1, <2>6 DEF Fate
  <2> QED BY <2>4, <2>5, <2>7 DEF Fate
<1>8. CASE Crash
  BY <1>8 DEF Crash, Fate, OrphansSettled
<1> QED BY <1>1, <1>2, <1>3, <1>4, <1>5, <1>6, <1>7, <1>8, StepKinds

(* No driven run has finished, and no step rewrites the checkpoint of a run that has. *)
LEMMA UnfinishedStep ==
    ASSUME IInv, [Next]_vars
    PROVE  /\ Unfinished'
           /\ \A r \in Runs : cp[r].status \in Terminal => cp'[r] = cp[r]
<1> USE DEF IInv
<1>a. \A i \in DOMAIN stack : stack[i] \in Runs
  BY DEF TypeOK
<1>b. DOMAIN stack = 1..Len(stack) /\ Len(stack) \in Nat
  BY DEF TypeOK
<1>1. CASE UNCHANGED vars
  BY <1>1 DEF vars, Unfinished
<1>2. ASSUME NEW r \in Runs, Ask(r) \/ Resume(r) PROVE Unfinished' /\ cp' = cp
  <2>1. /\ DOMAIN stack' = {1} /\ stack'[1] = r /\ cp' = cp /\ run'[r].status = "running"
    BY <1>2, BeginEffect
  <2>2. cp[r].status \notin Terminal
    BY <1>2 DEF Ask, Resume, Shape, NoState, Resumable, Terminal
  <2> QED BY <2>1, <2>2 DEF Unfinished
<1>3. ASSUME NEW c \in Runs, Spawn(c) \/ Read(c) PROVE Unfinished' /\ cp' = cp
  <2>1. PICK p \in Profile, g \in Budget :
          Enter(c, p, g) /\ pc \in {"reply", "batch"} /\ Top \in Runs
    BY <1>3, Created
  <2>2. /\ DOMAIN stack' = 1..(Len(stack) + 1) /\ stack'[Len(stack) + 1] = c
        /\ \A i \in DOMAIN stack : stack'[i] = stack[i] /\ stack[i] # c
        /\ run'[c].status = "running" /\ cp' = cp /\ Fresh(c)
        /\ \A r \in Runs : r # c => run'[r] = run[r]
    BY <2>1, EnterEffect
  <2>3. cp[c].status \notin Terminal
    BY <2>2 DEF Shape, NoState, Terminal
  <2>4. \A i \in DOMAIN stack :
          run[stack[i]].status = "running" /\ cp[stack[i]].status \notin Terminal
    BY <2>1 DEF Unfinished
  <2>5. \A i \in DOMAIN stack' : i \in DOMAIN stack \/ i = Len(stack) + 1
    BY <1>b, <2>2
  <2>6. \A i \in DOMAIN stack' :
          run'[stack'[i]].status = "running" /\ cp'[stack'[i]].status \notin Terminal
    BY <1>a, <2>2, <2>3, <2>4, <2>5
  <2> QED BY <2>2, <2>6 DEF Unfinished
<1>4. CASE TopStep
  <2>1. /\ stack' = stack /\ cp' = cp /\ pc # "idle" /\ Top \in Runs
        /\ \A r \in Runs : r # Top => run'[r] = run[r]
    BY <1>4, TopEffect DEF TopStep
  <2>2. pc \in {"loop", "reply"} /\ pc' # "settle"
    BY <1>4 DEF TopStep, Exhausted, Stop, Finish, Call, Again, Act, Refuse, EndWith
  <2>3. pc' # "final" => run'[Top].status = run[Top].status
    <3>1. CASE Exhausted \/ Stop \/ Finish
      BY <3>1 DEF Exhausted, Stop, Finish, EndWith
    <3>2. CASE Again \/ Act \/ Refuse
      BY <3>2 DEF Again, Act, Refuse, goOn
    <3>3. CASE Call
      <4>1. PICK n \in Costs, f \in Floors : run' = [run EXCEPT ![Top] = Charged(@, n, f)]
        BY <3>3 DEF Call
      <4>2. run'[Top] = Charged(run[Top], n, f) /\ run[Top] \in State /\ n \in Nat
        BY <2>1, <4>1, BoundAssumption DEF TypeOK
      <4> QED BY <4>2, ChargedState
    <3> QED BY <1>4, <3>1, <3>2, <3>3 DEF TopStep
  <2>4. \A i \in DOMAIN stack :
          run[stack[i]].status = "running" /\ cp[stack[i]].status \notin Terminal
    BY <2>2 DEF Unfinished
  <2>5. \A i \in DOMAIN stack : i < Len(stack) => stack[i] # Top
    BY <1>b, <2>1, TopIsRun DEF Shape
  <2>6. \A i \in DOMAIN stack : i < Len(stack) \/ pc' # "final" => run'[stack[i]].status = "running"
    BY <1>a, <2>1, <2>3, <2>4, <2>5
  <2> QED BY <2>1, <2>2, <2>4, <2>6 DEF Unfinished
<1>5. CASE Save \/ Conclude
  <2>1. /\ stack' = stack /\ run' = run /\ pc # "idle" /\ Top \in Runs
        /\ cp'[Top] = run[Top] /\ \A r \in Runs : r # Top => cp'[r] = cp[r]
    BY <1>5, SaveEffect
  <2>2. cp[Top].status \notin Terminal
    BY <1>5, <2>1, TopIsRun DEF Unfinished, Save, Conclude
  <2>3. \A i \in DOMAIN stack : i < Len(stack) =>
          run[stack[i]].status = "running" /\ cp'[stack[i]].status \notin Terminal
    BY <1>a, <2>1 DEF Unfinished, Terminal
  <2>4. \A i \in DOMAIN stack : i < Len(stack) \/ (i = Len(stack) /\ Top = stack[i])
    BY <1>b, <2>1, TopIsRun
  <2>5. CASE Save
    <3>1. pc' = "loop" /\ run[Top].status = "running"
      BY <2>1, <2>5, TopIsRun DEF Save, Unfinished
    <3> QED BY <2>1, <2>2, <2>3, <2>4, <3>1 DEF Unfinished, Terminal
  <2>6. CASE Conclude
    <3>1. pc' = "settle"
      BY <2>6 DEF Conclude
    <3> QED BY <2>1, <2>2, <2>3, <3>1 DEF Unfinished
  <2> QED BY <1>5, <2>5, <2>6
<1>6. ASSUME NEW c \in Runs, Settle(c)
      PROVE  Unfinished' /\ \A r \in Runs : cp[r].status \in Terminal => cp'[r] = cp[r]
  <2>1. /\ stack' = stack /\ run' = run /\ pc' = pc /\ pc = "settle"
        /\ cp'[c] = Amended(c) /\ \A r \in Runs : r # c => cp'[r] = cp[r]
    BY <1>6, SettleEffect
  <2>2. cp[c].status \in Terminal => Amended(c) = cp[c]
    BY DEF Amended
  <2>3. \A i \in DOMAIN stack : stack[i] # c
    BY <1>6, SettledIsNotDriven
  <2> QED BY <1>a, <2>1, <2>2, <2>3 DEF Unfinished
<1>7. CASE Return
  <2>1. /\ DOMAIN stack' = 1..(Len(stack) - 1) /\ Len(stack) \in Nat \ {0} /\ Top \in Runs
        /\ \A i \in DOMAIN stack' : /\ i \in DOMAIN stack /\ stack'[i] = stack[i]
                                    /\ stack[i] # Top
        /\ Len(stack) > 1 => Below \in Runs /\ run'[Below] = RolledUp(run[Below], run[Top])
        /\ \A r \in Runs : run'[r] = run[r] \/ r = Top \/ (r = Below /\ Len(stack) > 1)
        /\ cp' = cp
    BY <1>7, ReturnEffect
  <2>2. Len(stack) > 1 => run'[Below].status = run[Below].status
    BY <2>1, RolledUpState DEF TypeOK
  <2>3. \A r \in Runs : r # Top => run'[r].status = run[r].status
    BY <2>1, <2>2
  <2>4. \A i \in DOMAIN stack' : i < Len(stack)
    BY <2>1
  <2>5. \A i \in DOMAIN stack' :
          run'[stack'[i]].status = "running" /\ cp'[stack'[i]].status \notin Terminal
    BY <1>a, <2>1, <2>3, <2>4 DEF Unfinished
  <2> QED BY <2>1, <2>5 DEF Unfinished
<1>8. CASE Crash
  BY <1>8 DEF Crash, Unfinished
<1> QED BY <1>1, <1>2, <1>3, <1>4, <1>5, <1>6, <1>7, <1>8, StepKinds

-----------------------------------------------------------------------------
(* Theorems *)

(* The invariant holds before the first message. *)
LEMMA InvInit == Init => IInv
<1> SUFFICES ASSUME Init PROVE IInv
  OBVIOUS
<1>1. TypeOK
  BY TypeInit
<1>2. /\ stack = <<>> /\ pc = "idle" /\ children = {} /\ settled = {}
      /\ \A r \in Runs : /\ prof[r].level = "none" /\ prof[r].level # "reader"
                         /\ run[r] = NoState /\ cp[r] = NoState
                         /\ run[r].tokens = 0 /\ cp[r].tokens = 0 /\ budget[r].tokens = 0
  BY DEF Init, NoProfile, NoState, NoBudget
<1>3. SpendBounded
  BY <1>2, BoundAssumption DEF SpendBounded
<1>4. Shape /\ Funded /\ Endowed
  BY <1>2 DEF Shape, Funded, Endowed, Fresh
<1>5. Quarantine /\ TaintEndsDelegation /\ LadderDescends
  BY <1>2 DEF Quarantine, TaintEndsDelegation, LadderDescends
<1>6. Fate /\ Unfinished
  BY <1>2 DEF Fate, OrphansSettled, Unfinished
<1> QED BY <1>1, <1>3, <1>4, <1>5, <1>6 DEF IInv

(* Every step preserves the invariant. *)
LEMMA InvStep == ASSUME IInv, [Next]_vars PROVE IInv'
BY TypeStep, ShapeStep, SpendStep, AuthorityStep, FateStep, UnfinishedStep DEF IInv

(* The invariant always holds. *)
LEMMA Invariance == Spec => []IInv
BY InvInit, InvStep, PTL DEF Spec

(* Every variable keeps its type. *)
THEOREM TypeCorrect == Spec => []TypeOK
<1>1. IInv => TypeOK
  BY DEF IInv
<1> QED BY <1>1, Invariance, PTL

(* Engine::spawn's roll-up and Budget::grant: no run ever passes its token cap by more than
   one prompt, whatever tree it drives and whatever crashes it is resumed after. *)
THEOREM SpendStaysBounded == Spec => []SpendBounded
<1>1. IInv => SpendBounded
  BY DEF IInv
<1> QED BY <1>1, Invariance, PTL

(* Budget::grant and slice_for_quarantined_read: no run is born exhausted. *)
THEOREM EveryGrantBuysACall == Spec => []GrantBuysACall
<1>1. IInv => GrantBuysACall
  <2> SUFFICES ASSUME IInv, pc = "loop", run[Top].tokens = 0, run[Top].agents = 0
               PROVE  HasRoom(Top)
    BY DEF GrantBuysACall
  <2>1. Top \in Runs /\ ~Fresh(Top)
    BY TopIsRun DEF IInv, Shape
  <2>2. budget[Top].tokens >= MinCall /\ budget[Top].agents > 0
    BY <2>1 DEF IInv, Endowed
  <2>3. budget[Top].tokens \in Nat /\ budget[Top].agents \in Nat
    BY <2>1 DEF IInv, TypeOK, Budget
  <2> QED BY <2>2, <2>3, FloorAssumption DEF HasRoom, Remaining, Larger
<1> QED BY <1>1, Invariance, PTL

(* Layer 3 at Engine::spawn: a run that has seen untrusted content drives at most one run,
   and that one holds no tool. *)
THEOREM TaintedRunsDoNotDelegate == Spec => []TaintEndsDelegation
<1>1. IInv => TaintEndsDelegation
  BY DEF IInv
<1> QED BY <1>1, Invariance, PTL

(* AgentLevel::child_of: every run driven is below, and holds no more tools than, every run
   it works for. *)
THEOREM EveryChildIsLower == Spec => []LadderDescends
<1>1. IInv => LadderDescends
  BY DEF IInv
<1> QED BY <1>1, Invariance, PTL

(* settle_children: a settled child is never resumable, or has been detached for good. *)
THEOREM SettlementLasts == Spec => []OrphansSettled
<1>1. IInv => OrphansSettled
  BY DEF IInv, Fate
<1> QED BY <1>1, Invariance, PTL

(* durable.rs: the checkpoint of a finished run is never rewritten. *)
THEOREM TheFinishedStayFinished == Spec => FinishedStays
<1>1. IInv /\ [Next]_vars => [\A r \in Runs : cp[r].status \in Terminal => cp'[r] = cp[r]]_vars
  BY UnfinishedStep
<1> QED BY <1>1, Invariance, PTL DEF Spec, FinishedStays

-----------------------------------------------------------------------------
(* The three bounds of a tree of runs, together: spend, grants and levels (`Budget::grant`,
   `Budget::exhausted`, `CapabilityProfile`), for any runs, requests and budgets. *)
THEOREM DelegationStaysBounded == Spec => []DelegationBounded
BY SpendStaysBounded, EveryGrantBuysACall, EveryChildIsLower, PTL DEF DelegationBounded

-----------------------------------------------------------------------------
(* The ring of frames that a run's windows follow *)

USE FrameAssumption

(* A ring of well-typed frames that the shape describes; state predicate of the three
   fields of Frames. *)
GoodRing(r, f, n) ==
    /\ r \in Seq(Frame) /\ f \in Nat \ {0} /\ n \in Nat \ {0}
    /\ Len(r) <= MaxFrames
    /\ n = f + Len(r)
    /\ \A i \in 1..Len(r) : r[i].n = f + i - 1

(* Appending a frame, with the drop at the front, keeps the ring's shape. *)
LEMMA AppendKeepsRing ==
    ASSUME GoodRing(ring, first, next), NEW f \in Frame, AppendFrame(f)
    PROVE  GoodRing(ring', first', next')
<1> DEFINE g == [f EXCEPT !.n = next]
           grown == Append(ring, g)
<1>1. ring \in Seq(Frame) /\ first \in Nat \ {0} /\ next \in Nat \ {0}
      /\ Len(ring) <= MaxFrames /\ next = first + Len(ring)
      /\ \A i \in 1..Len(ring) : ring[i].n = first + i - 1
  BY DEF GoodRing
<1>2. g \in Frame /\ g.n = next
  BY <1>1 DEF Frame
<1> HIDE DEF g
<1>3. grown \in Seq(Frame) /\ Len(grown) = Len(ring) + 1
      /\ (\A i \in 1..Len(ring) : grown[i] = ring[i]) /\ grown[Len(ring) + 1] = g
  BY <1>1, <1>2
<1> HIDE DEF grown
<1>4. ASSUME NEW i \in 1..Len(grown) PROVE grown[i].n = first + i - 1
  <2>1. CASE i \in 1..Len(ring)
    BY <1>1, <1>3, <2>1
  <2>2. CASE i = Len(ring) + 1
    BY <1>1, <1>2, <1>3, <2>2
  <2> QED
    BY <1>1, <1>3, <2>1, <2>2
<1>5. ring' = Keep(grown) /\ first' = first + Dropped(grown) /\ next' = next + 1
  BY DEF AppendFrame, grown, g
<1>6. next' \in Nat \ {0} /\ next' = first + Len(grown)
  <2>1. Len(ring) \in Nat /\ next \in Nat /\ first \in Nat /\ next = first + Len(ring)
    BY <1>1
  <2>2. next' = next + 1 /\ Len(grown) = Len(ring) + 1
    BY <1>3, <1>5
  <2> QED
    BY <2>1, <2>2
<1>7. CASE Len(grown) > MaxFrames
  <2>1. Len(grown) = MaxFrames + 1 /\ Len(ring) = MaxFrames
    BY <1>1, <1>3, <1>7
  <2>2. ring' = SubSeq(grown, 2, Len(grown)) /\ first' = first + 1
    <3>1. Len(grown) - MaxFrames = 1 /\ Len(grown) - MaxFrames + 1 = 2
      BY <2>1
    <3>2. Keep(grown) = SubSeq(grown, Len(grown) - MaxFrames + 1, Len(grown))
      BY <1>7 DEF Keep
    <3>3. Dropped(grown) = Len(grown) - MaxFrames
      BY <1>7 DEF Dropped
    <3> QED
      BY <1>5, <3>1, <3>2, <3>3
  <2>3. ring' \in Seq(Frame) /\ Len(ring') = MaxFrames
        /\ \A i \in 1..MaxFrames : ring'[i] = grown[i + 1]
    BY <1>3, <2>1, <2>2
  <2>4. \A i \in 1..MaxFrames : ring'[i].n = first' + i - 1
    BY <1>1, <1>4, <2>1, <2>2, <2>3
  <2>5. next' = first' + MaxFrames /\ first' \in Nat \ {0}
    BY <1>1, <1>6, <2>1, <2>2
  <2>6. /\ Len(ring') <= MaxFrames /\ next' = first' + Len(ring')
        /\ \A i \in 1..Len(ring') : ring'[i].n = first' + i - 1
    BY <2>3, <2>4, <2>5
  <2> QED
    BY <1>6, <2>3, <2>5, <2>6 DEF GoodRing
<1>8. CASE Len(grown) <= MaxFrames
  <2>1. ring' = grown /\ first' = first
    <3>1. ~ (Len(grown) > MaxFrames)
      BY <1>1, <1>3, <1>8
    <3>2. Keep(grown) = grown /\ Dropped(grown) = 0
      BY <3>1 DEF Keep, Dropped
    <3> QED
      BY <1>1, <1>5, <3>2
  <2>2. next' \in Nat \ {0} /\ next' = first' + Len(ring')
    BY <1>6, <2>1
  <2>3. \A i \in 1..Len(ring') : ring'[i].n = first' + i - 1
    BY <1>4, <2>1
  <2> QED
    BY <1>1, <1>3, <1>8, <2>1, <2>2, <2>3 DEF GoodRing
<1> QED
  BY <1>1, <1>3, <1>7, <1>8

(* Rewriting a frame in place, under its own sequence, keeps the ring's shape. *)
LEMMA ReplaceKeepsRing ==
    ASSUME GoodRing(ring, first, next), NEW i \in 1..Len(ring), NEW f \in Frame,
           f.n = ring[i].n, Replace(i, f)
    PROVE  GoodRing(ring', first', next')
<1>1. ring' = [ring EXCEPT ![i] = f] /\ first' = first /\ next' = next
  BY DEF Replace
<1>2. ring \in Seq(Frame)
  BY DEF GoodRing
<1>3. ring' \in Seq(Frame) /\ Len(ring') = Len(ring)
      /\ \A j \in 1..Len(ring) : ring'[j] = IF j = i THEN f ELSE ring[j]
  BY <1>1, <1>2
<1> QED
  BY <1>1, <1>3 DEF GoodRing

(* A tool line, opened or closed, keeps the ring's shape. *)
LEMMA ToolKeepsRing ==
    ASSUME GoodRing(ring, first, next), NEW f \in Frame, PushTool(f)
    PROVE  GoodRing(ring', first', next')
<1>1. CASE SlotsOf(f.id) = {}
  BY <1>1, AppendKeepsRing DEF PushTool
<1>2. CASE SlotsOf(f.id) # {}
  <2> DEFINE i == CHOOSE j \in SlotsOf(f.id) : \A k \in SlotsOf(f.id) : j <= k
  <2>1. ring \in Seq(Frame)
    BY DEF GoodRing
  <2>2. \E j \in SlotsOf(f.id) : \A k \in SlotsOf(f.id) : j <= k
    <3>1. SlotsOf(f.id) \subseteq 1..Len(ring)
      BY <2>1 DEF SlotsOf
    <3> QED
      BY <1>2, <3>1, LeastNatural
  <2>3. i \in SlotsOf(f.id)
    BY <2>2
  <2>4. i \in 1..Len(ring)
    BY <2>1, <2>3 DEF SlotsOf
  <2>5. Replace(i, [f EXCEPT !.n = ring[i].n])
    BY <1>2 DEF PushTool
  <2> HIDE DEF i
  <2>6. ring[i] \in Frame
    BY <2>1, <2>4
  <2>7. [f EXCEPT !.n = ring[i].n] \in Frame /\ [f EXCEPT !.n = ring[i].n].n = ring[i].n
    BY <2>6 DEF Frame
  <2> QED
    BY <2>4, <2>5, <2>7, ReplaceKeepsRing
<1> QED
  BY <1>1, <1>2

(* What the induction carries *)
RingInv == RingTyped /\ RingShape

LEMMA RingInvSplits ==
    RingInv <=> /\ GoodRing(ring, first, next)
                /\ RingTyped
  BY DEF RingInv, RingShape, GoodRing, RingTyped

(* A poll reads the ring; the highest sequence the window holds afterwards is a number,
   because the answer's last frame is the ring's. *)
LEMMA LatestIsASequence ==
    ASSUME RingInv, Poll
    PROVE  latest' \in Nat
<1> DEFINE got == Answer(Since(latest))
           ns == {f.n : f \in got}
           S == {latest} \cup ns
<1>1. /\ ring \in Seq(Frame) /\ first \in Nat /\ latest \in Nat
      /\ \A i \in 1..Len(ring) : ring[i].n = first + i - 1
  BY DEF RingInv, RingTyped, RingShape
<1>2. ns = {ring[i].n : i \in {j \in 1..Len(ring) : ring[j].n >= latest}}
  BY <1>1 DEF Answer, Since
<1>3. \A x \in ns : \E i \in 1..Len(ring) : x = first + i - 1 /\ x >= latest
  BY <1>1, <1>2
<1> HIDE DEF ns
<1>4. \E m \in S : \A y \in S : y <= m
  <2>1. CASE ns = {}
    <3>1. latest \in S /\ \A y \in S : y <= latest
      BY <1>1, <2>1
    <3> QED
      BY <3>1
  <2>2. CASE ns # {}
    <3> DEFINE m == first + Len(ring) - 1
    <3>1. PICK x \in ns : TRUE
      BY <2>2
    <3>2. PICK i \in 1..Len(ring) : x = first + i - 1 /\ x >= latest
      BY <1>3
    <3>3. Len(ring) \in 1..Len(ring) /\ ring[Len(ring)].n = m /\ m >= latest
      BY <1>1, <3>2
    <3>4. m \in ns
      BY <1>2, <3>3
    <3>5. ASSUME NEW y \in ns PROVE y <= m
      <4>1. PICK j \in 1..Len(ring) : y = first + j - 1
        BY <1>3
      <4> QED
        BY <1>1, <4>1
    <3> QED
      BY <1>1, <3>3, <3>4, <3>5
  <2> QED
    BY <2>1, <2>2
<1>5. S \subseteq Nat
  BY <1>1, <1>3
<1>6. latest' = MaxOf(S)
  BY DEF Poll, ns
<1> HIDE DEF S
<1> QED
  BY <1>4, <1>5, <1>6 DEF MaxOf

LEMMA InitRing == RingInit => RingInv
  BY DEF RingInit, RingInv, RingTyped, RingShape, Frame

(* A step of the run, of its window or of the daemon keeps the ring in shape. *)
LEMMA NextRing == ASSUME RingInv, [RingNext]_ringVars PROVE RingInv'
<1> USE DEF RingInv
<1>1. GoodRing(ring, first, next)
  BY RingInvSplits
<1>2. ASSUME GoodRing(ring', first', next'),
             turn' \in Nat \ {0}, nextId' \in Nat \ {0}, open' \subseteq (Nat \X Nat),
             held' \subseteq Frame, latest' \in Nat, fresh' \in {"yes", "no"},
             told' \in Nat, from' \in Nat,
             pushes' \in Nat, restarts' \in Nat
      PROVE  RingInv'
  BY <1>2 DEF RingTyped, RingShape, GoodRing
<1>3. ASSUME NEW k \in {"text", "reasoning"}, Say(k) PROVE RingInv'
  <2>1. GoodRing(ring', first', next')
    <3>1. CASE ring # <<>> /\ ring[Len(ring)].kind = k
      <4> DEFINE f == [ring[Len(ring)] EXCEPT !.chunks = @ + 1]
      <4>1. Len(ring) \in 1..Len(ring) /\ ring[Len(ring)] \in Frame
        BY <1>1, <3>1 DEF GoodRing
      <4>2. f \in Frame /\ f.n = ring[Len(ring)].n
        BY <4>1 DEF Frame
      <4>3. Replace(Len(ring), f)
        BY <1>3, <3>1 DEF Say
      <4> QED
        BY <1>1, <4>1, <4>2, <4>3, ReplaceKeepsRing
    <3>2. CASE ~ (ring # <<>> /\ ring[Len(ring)].kind = k)
      <4>1. Prose(k) \in Frame
        BY DEF Prose, Frame, Kinds
      <4>2. AppendFrame(Prose(k))
        BY <1>3, <3>2 DEF Say
      <4> QED
        BY <1>1, <4>1, <4>2, AppendKeepsRing
    <3> QED
      BY <3>1, <3>2
  <2>2. QED
    <3>1. Emits /\ UNCHANGED <<turn, nextId, open>>
      BY <1>3 DEF Say
    <3> QED
      BY <1>2, <2>1, <3>1 DEF Emits, RingTyped
<1>4. ASSUME NEW k \in {"retract", "compact"}, Note(k) PROVE RingInv'
  <2>1. Prose(k) \in Frame
    BY DEF Prose, Frame, Kinds
  <2>2. GoodRing(ring', first', next')
    BY <1>1, <1>4, <2>1, AppendKeepsRing DEF Note
  <2> QED
    BY <1>2, <1>4, <2>2 DEF Note, Emits, RingTyped
<1>5. CASE OpenTool
  <2>1. ToolFrame(<<turn, nextId>>, "running") \in Frame
    BY DEF ToolFrame, Frame, Kinds, RingTyped
  <2>2. GoodRing(ring', first', next')
    BY <1>1, <1>5, <2>1, ToolKeepsRing DEF OpenTool
  <2> QED
    BY <1>2, <1>5, <2>2 DEF OpenTool, Emits, RingTyped
<1>6. ASSUME NEW c \in open, CloseTool(c) PROVE RingInv'
  <2>1. ToolFrame(c, "closed") \in Frame
    BY DEF ToolFrame, Frame, Kinds, RingTyped
  <2>2. GoodRing(ring', first', next')
    BY <1>1, <1>6, <2>1, ToolKeepsRing DEF CloseTool
  <2> QED
    BY <1>2, <1>6, <2>2 DEF CloseTool, Emits, RingTyped
<1>7. CASE NextTurn
  BY <1>1, <1>2, <1>7 DEF NextTurn, RingTyped
<1>8. CASE Restart
  <2>1. GoodRing(ring', first', next')
    BY <1>8 DEF Restart, GoodRing
  <2> QED
    BY <1>2, <1>8, <2>1 DEF Restart, RingTyped
<1>9. CASE Poll
  <2>1. latest' \in Nat
    BY <1>9, LatestIsASequence
  <2>2. held' \subseteq Frame
    BY <1>9 DEF Poll, Answer, RingTyped
  <2>3. told' \in Nat /\ from' \in Nat
    BY <1>9 DEF Poll, DroppedBefore, Since, RingTyped
  <2> QED
    BY <1>1, <1>2, <1>9, <2>1, <2>2, <2>3 DEF Poll, RingTyped
<1>10. CASE UNCHANGED ringVars
  BY <1>1, <1>2, <1>10 DEF ringVars, RingTyped
<1> QED
  BY <1>3, <1>4, <1>5, <1>6, <1>7, <1>8, <1>9, <1>10 DEF RingNext

(* For every size of the ring, however pushes, polls, resumes and restarts interleave,
   the ring holds an unbroken run of sequences from `first` to just before `next` and
   no more than MAX_FRAMES of them: the arithmetic by which frames_since reports a gap
   is about the frames that are really gone. *)
THEOREM RingHoldsItsShape == RingSpec => []RingShape
<1>1. RingInv => RingShape
  BY DEF RingInv
<1> QED
  BY InitRing, NextRing, <1>1, PTL DEF RingSpec

HIDE FrameAssumption

-----------------------------------------------------------------------------
(* A run's window *)

AppParts == {"field", "focus", "confirm", "armed", "notice", "age", "close"}
RequestParts == {"kind", "text", "good"}
ArrivalParts == {"id", "run", "good", "queued"}

WindowTyped ==
    /\ DOMAIN app = AppParts /\ DOMAIN request = RequestParts
    /\ at \in {"idle", "apply", "resume", "poll", "closed"}
    /\ typed \in {"id", "name"} /\ DOMAIN row = Namesakes
    /\ asked \in Nat /\ restarts \in Nat

Meant == MeansIt(app.field, meant) /\ request.good

InTheirOrder ==
    /\ DOMAIN arrived = 1..Len(arrived) /\ Len(arrived) \in Nat
    /\ \A i \in 1..Len(arrived) :
          /\ arrived[i].good /\ arrived[i].run # None
          /\ arrived[i].id \in 0..asked
          /\ at = "apply" => arrived[i].id < asked
    /\ \A i, j \in 1..Len(arrived) : i < j => arrived[i].id < arrived[j].id

OneName == typed = "id" \/ restarts = 0
ToTheirRun ==
    OneName =>
        /\ typed = "name" => row["a"] # None
        /\ view.run = "a"
        /\ \A i \in 1..Len(arrived) : arrived[i].run = "a"

WatchInv == WindowTyped /\ Meant /\ InTheirOrder /\ ToTheirRun

LEMMA WatchStarts == Opens => WatchInv
<1> SUFFICES ASSUME Opens PROVE WatchInv
  OBVIOUS
<1>1. MeansIt(app.field, meant)
  <2> DEFINE f == app.field
             m == meant
  <2>1. f = Blank /\ m = [text |-> <<>>, broken |-> FALSE]
    BY DEF Opens
  <2>2. /\ DOMAIN f = {"input", "pastes", "all"} /\ f.pastes = <<>> /\ f.input = <<>>
        /\ DOMAIN m = {"text", "broken"} /\ m.text = <<>>
    BY <2>1 DEF Blank
  <2>3. Shows(f.pastes, f.input, m.text)
    BY <2>2, ShowsNothing
  <2> HIDE DEF f, m
  <2>4. Draft(f)
    BY <2>2 DEF Draft
  <2>5. MeansIt(f, m)
    BY <2>2, <2>3, <2>4 DEF MeansIt
  <2> QED BY <2>5 DEF f, m
<1>2. WindowTyped /\ request.good
  BY DEF Opens, RingInit, WindowTyped, AppParts, NoRequest, RequestParts
<1>3. arrived = <<>> /\ asked = 0 /\ view.run = "a" /\ row["a"] # None
  BY DEF Opens, Namesakes, None
<1>4. InTheirOrder /\ ToTheirRun
  BY <1>3 DEF InTheirOrder, ToTheirRun
<1> QED BY <1>1, <1>2, <1>4 DEF WatchInv, Meant

(* A name is resolved to a run that is listed, and while the daemon has not been started
   again the run the window was opened on is. *)
LEMMA ResolvesTheirs ==
    ASSUME WindowTyped, ToTheirRun
    PROVE  resolve \in {"a", "b", None} /\ (OneName => resolve \in {"a", None})
<1> DEFINE hits == {r \in Namesakes : row[r] # None}
<1>1. CASE typed = "id"
  BY <1>1 DEF resolve
<1>2. CASE typed # "id" /\ Cardinality(hits) # 1
  BY <1>2 DEF resolve
<1>3. CASE typed # "id" /\ Cardinality(hits) = 1
  <2>1. IsFiniteSet(hits)
    <3>1. IsFiniteSet({"a", "b"})
      <4>1. IsFiniteSet({"a"})
        BY FS_Singleton
      <4>2. IsFiniteSet({"a"} \cup {"b"})
        BY <4>1, FS_AddElement
      <4>3. {"a"} \cup {"b"} = {"a", "b"}
        OBVIOUS
      <4> QED BY <4>2, <4>3
    <3>2. hits \subseteq {"a", "b"}
      BY DEF Namesakes
    <3> QED BY <3>1, <3>2, FS_Subset
  <2>2. PICK r : hits = {r}
    BY <1>3, <2>1, FS_Singleton
  <2>3. resolve = r /\ r \in {"a", "b"}
    <3>1. resolve = CHOOSE q \in hits : TRUE
      BY <1>3 DEF resolve
    <3>2. r \in hits /\ \A q \in hits : q = r
      BY <2>2
    <3> HIDE DEF hits
    <3>3. (CHOOSE q \in hits : TRUE) \in hits
      BY <3>2
    <3>4. hits \subseteq {"a", "b"}
      BY DEF hits, Namesakes
    <3> QED BY <3>1, <3>2, <3>3, <3>4
  <2>4. OneName => "a" \in hits
    BY <1>3 DEF WindowTyped, ToTheirRun, OneName, Namesakes
  <2> QED BY <2>2, <2>3, <2>4
<1> QED BY <1>1, <1>2, <1>3

(* Only a connection that nobody took is followed by another: at most one is read *)
LEMMA OneArrival ==
    ASSUME NEW tries \in Exchanges
    PROVE  Arrivals(tries) \in {0, 1}
<1> DEFINE S == {i \in DOMAIN tries : Reached(tries[i])}
<1>1. PICK c \in Tries, m \in Tries : tries = control_or_main(c, m)
  BY DEF Exchanges
<1>2. S = {} \/ S = {1} \/ S = {2}
  BY <1>1 DEF control_or_main, Reached, Tries
<1>3. \A i : Cardinality({i}) = 1
  BY FS_Singleton
<1>4. Cardinality({}) = 0
  BY FS_EmptySet
<1> QED BY <1>2, <1>3, <1>4 DEF Arrivals

(* A notice is all that a poll changes of the app *)
LEMMA NoticesKeep ==
    ASSUME NEW a, DOMAIN a = AppParts
    PROVE  /\ \A n : DOMAIN Says(a, n) = AppParts /\ Says(a, n).field = a.field
           /\ DOMAIN Aged(a) = AppParts /\ Aged(a).field = a.field
BY DEF Says, Aged, AppParts

-----------------------------------------------------------------------------
(* What the keys do to the draft *)

(* A draft that shows what is meant, or in which a chip is broken now, or was *)
LEMMA DraftMeans ==
    ASSUME NEW f, Draft(f), NEW m,
           EndsIn(f.input, "wreck") \/ meant.broken \/ Shows(f.pastes, f.input, m)
    PROVE  MeansIt(f, [text |-> m, broken |-> Breaks(f, m)])
<1> DEFINE b == Breaks(f, m)
           n == [text |-> m, broken |-> b]
<1>1. b \/ Shows(f.pastes, f.input, m)
  <2>1. CASE f.input = <<>> /\ m = <<>>
    BY <2>1, ShowsNothing
  <2>2. CASE f.input # <<>> \/ m # <<>>
    BY <2>2 DEF Breaks
  <2> QED BY <2>1, <2>2
<1> HIDE DEF b
<1>2. DOMAIN n = {"text", "broken"} /\ n.text = m /\ n.broken = b
  OBVIOUS
<1> HIDE DEF n
<1>3. MeansIt(f, n)
  BY <1>1, <1>2 DEF MeansIt
<1> QED BY <1>3 DEF n, b

(* A key that leaves the text alone leaves what is meant alone *)
LEMMA RestMeans ==
    ASSUME MeansIt(app.field, meant), NEW f, DOMAIN f = {"input", "pastes", "all"},
           f.input = app.field.input, f.pastes = app.field.pastes
    PROVE  MeansIt(f, [text |-> meant.text, broken |-> Breaks(f, meant.text)])
<1>1. Draft(f) /\ (meant.broken \/ Shows(f.pastes, f.input, meant.text))
  BY DEF MeansIt, Draft
<1> QED BY <1>1, DraftMeans

(* A key the field hears *)
LEMMA EditMeansIt ==
    ASSUME MeansIt(app.field, meant), Hears, NEW k, k \notin Bodies, k \notin Chords,
           k \notin {"focus", "esc"}
    PROVE  MeansIt(Edit(app.field, k), [text |-> MeansBy(k),
                                        broken |-> Breaks(Edit(app.field, k), MeansBy(k))])
<1> DEFINE f == app.field
           g == Edit(f, k)
           m == meant.text
           n == MeansBy(k)
<1>1. Draft(f) /\ (meant.broken \/ Shows(f.pastes, f.input, m))
  BY DEF MeansIt
<1>2. CASE k \in Letters
  <2>1. g = Insert(f, Letter) /\ n = Means(f, m, "insert", Letter)
    BY <1>2, LettersAssumption DEF Edit, MeansBy
  <2>2. Letter \in Pieces /\ Letter.k # "chip"
    BY DEF Letter, Atom, Pieces, Heights
  <2>3. Draft(g)
    BY <1>1, <2>1, KeysLeaveDrafts
  <2>4. meant.broken \/ Shows(g.pastes, g.input, n)
    BY <1>1, <2>1, <2>2, InsertMeans
  <2> QED BY <2>3, <2>4, DraftMeans
<1>3. CASE k = "bs"
  <2>1. g = Backspace(f) /\ n = Means(f, m, "bs", Letter)
    BY <1>3, LettersAssumption DEF Edit, MeansBy
  <2>2. Draft(g)
    BY <1>1, <2>1, KeysLeaveDrafts
  <2>3. meant.broken \/ Shows(g.pastes, g.input, n)
    BY <1>1, <2>1, BackspaceMeans
  <2> QED BY <2>2, <2>3, DraftMeans
<1>4. CASE k = "cbs"
  <2>1. g = CtrlBackspace(f) /\ n = Means(f, m, "cbs", Letter)
    BY <1>4, LettersAssumption DEF Edit, MeansBy
  <2>2. Draft(g)
    BY <1>1, <2>1, KeysLeaveDrafts
  <2>3. EndsIn(g.input, "wreck") \/ meant.broken \/ Shows(g.pastes, g.input, n)
    BY <1>1, <2>1, CtrlBackspaceMeans
  <2> QED BY <2>2, <2>3, DraftMeans
<1>5. CASE k = "newline"
  <2>1. g = [f EXCEPT !.input = Append(f.input, Space)] /\ n = Append(m, Space)
    BY <1>5, LettersAssumption DEF Edit, MeansBy
  <2>2. /\ DOMAIN g = {"input", "pastes", "all"} /\ g.pastes = f.pastes
        /\ g.input = Append(f.input, Space)
    BY <1>1, <2>1 DEF Draft
  <2>3. Space \in Pieces /\ Space.k # "chip"
    BY DEF Space, Atom, Pieces, Heights
  <2>4. Draft(g)
    BY <1>1, <2>2 DEF Draft
  <2>5. meant.broken \/ Shows(g.pastes, g.input, n)
    BY <1>1, <2>1, <2>2, <2>3, ShowsAppend
  <2> QED BY <2>4, <2>5, DraftMeans
<1>6. CASE k = "enter"
  <2>1. g = [Blank EXCEPT !.all = f.all] /\ n = <<>>
    BY <1>6, LettersAssumption DEF Edit, MeansBy
  <2>2. DOMAIN g = {"input", "pastes", "all"} /\ g.pastes = <<>> /\ g.input = <<>>
    BY <2>1 DEF Blank
  <2>3. Draft(g)
    BY <2>2 DEF Draft
  <2>4. Shows(g.pastes, g.input, n)
    BY <2>1, <2>2, ShowsNothing
  <2> QED BY <2>3, <2>4, DraftMeans
<1>7. CASE k = "all"
  <2>1. g = SelectAll(f) /\ n = m
    BY <1>7, LettersAssumption DEF Edit, MeansBy
  <2>2. /\ DOMAIN g = {"input", "pastes", "all"} /\ g.pastes = f.pastes /\ g.input = f.input
    BY <1>1, <2>1 DEF SelectAll, Draft
  <2> QED BY <2>1, <2>2, RestMeans
<1>8. CASE k \notin Letters \cup {"bs", "cbs", "newline", "enter", "all"}
  <2>1. g = f /\ n = m
    BY <1>8 DEF Edit, MeansBy
  <2> QED BY <1>1, <2>1, RestMeans DEF Draft
<1> QED BY <1>2, <1>3, <1>4, <1>5, <1>6, <1>7, <1>8

(* An app whose text a key left alone, and one whose draft is what is meant *)
Rests(a) ==
    /\ DOMAIN a = AppParts /\ DOMAIN a.field = {"input", "pastes", "all"}
    /\ a.field.input = app.field.input /\ a.field.pastes = app.field.pastes
Follows(a, m) ==
    DOMAIN a = AppParts /\ MeansIt(a.field, [text |-> m, broken |-> Breaks(a.field, m)])

(* The question and ^c leave the text alone *)
LEMMA ChordsRest ==
    ASSUME NEW a, Rests(a), NEW k
    PROVE  Rests(OnConfirmKey(a, k).app) /\ Rests(OnCtrlC(a).app)
<1>1. \A x, q : Asking(x, q).app = x
  BY DEF Asking
<1>2. \A v : Rests([a EXCEPT !.confirm = v]) /\ Rests([a EXCEPT !.armed = v])
  BY DEF Rests, AppParts
<1>3. \A x, n : Rests(x) => Rests(Says(x, n)) /\ Rests([x EXCEPT !.close = TRUE])
  BY DEF Rests, AppParts, Says
<1>4. \A x : Rests(x) => Rests([x EXCEPT !.armed = FALSE])
  BY DEF Rests, AppParts
<1>5. Rests([a EXCEPT !.field = [@ EXCEPT !.all = FALSE]])
  <2> DEFINE f == [a.field EXCEPT !.all = FALSE]
             b == [a EXCEPT !.field = f]
  <2>1. DOMAIN f = DOMAIN a.field /\ f.input = a.field.input /\ f.pastes = a.field.pastes
    BY DEF Rests
  <2> HIDE DEF f
  <2>2. DOMAIN b = DOMAIN a /\ b.field = f
    BY DEF Rests, AppParts
  <2> HIDE DEF b
  <2>3. Rests(b)
    BY <2>1, <2>2 DEF Rests
  <2> QED BY <2>3 DEF b, f
<1>6. Rests([a EXCEPT !.field.all = FALSE, !.armed = FALSE])
  BY <1>4, <1>5
<1>7. Rests([a EXCEPT !.armed = FALSE, !.close = TRUE])
  BY <1>3, <1>4
<1>8. Rests(OnConfirmKey(a, k).app)
  <2> HIDE DEF Rests
  <2>1. CASE k = "enter"
    <3>1. OnConfirmKey(a, k).app = [a EXCEPT !.confirm = FALSE]
      BY <1>1, <2>1 DEF OnConfirmKey
    <3> QED BY <1>2, <3>1
  <2>2. CASE k = "esc"
    <3>1. OnConfirmKey(a, k).app = [a EXCEPT !.confirm = FALSE]
      BY <1>1, <2>2 DEF OnConfirmKey
    <3> QED BY <1>2, <3>1
  <2>3. CASE k \notin {"enter", "esc"}
    <3>1. OnConfirmKey(a, k).app = a
      BY <1>1, <2>3 DEF OnConfirmKey
    <3> QED BY <3>1
  <2> QED BY <2>1, <2>2, <2>3
<1>9. Rests(OnCtrlC(a).app)
  <2> HIDE DEF Rests
  <2>1. CASE a.field.all \/ a.field.input # <<>>
    <3>1. Rests(Says([a EXCEPT !.field.all = FALSE, !.armed = FALSE], "copied"))
      BY <1>3, <1>6
    <3> QED BY <1>1, <2>1, <3>1 DEF OnCtrlC
  <2>2. CASE ~ (a.field.all \/ a.field.input # <<>>)
    <3>1. Rests(Says([a EXCEPT !.armed = TRUE], "again"))
      BY <1>2, <1>3
    <3> QED BY <1>1, <1>7, <2>2, <3>1 DEF OnCtrlC
  <2> QED BY <2>1, <2>2
<1> QED BY <1>8, <1>9

(* After any key the draft is what is meant *)
LEMMA KeyFollows ==
    ASSUME WindowTyped, Meant, NEW k, k \notin Bodies, NEW to
    PROVE  Follows(OnKey(k, to).app, MeansBy(k))
<1> DEFINE a == [app EXCEPT !.armed = IF k = "^c" THEN @ ELSE FALSE]
<1>1. /\ DOMAIN app = AppParts /\ DOMAIN app.field = {"input", "pastes", "all"}
      /\ MeansIt(app.field, meant)
  BY DEF WindowTyped, Meant, MeansIt, Draft
<1>2. Rests(a) /\ a.field = app.field /\ a.focus = app.focus /\ a.confirm = app.confirm
  BY <1>1 DEF Rests, AppParts
<1>3. \A x : Rests(x) => Follows(x, meant.text)
  BY <1>1, RestMeans DEF Rests, Follows
<1>4. \A x, q : Asking(x, q).app = x
  BY DEF Asking
<1>5. OnKey(k, to) = IF a.confirm THEN OnConfirmKey(a, k)
                     ELSE CASE k = "^c" -> OnCtrlC(a)
                            [] k = "^x" -> Asking([a EXCEPT !.confirm = TRUE], None)
                            [] k = "^r" -> Asking(a, "resume")
                            [] k = "^d" -> Asking([a EXCEPT !.close = TRUE], "detach")
                            [] k = "focus" -> Asking([a EXCEPT !.focus = to], None)
                            [] OTHER -> OnPlainKey(a, k)
  BY DEF OnKey
<1> HIDE DEF a
<1>6. CASE a.confirm
  <2>1. MeansBy(k) = meant.text
    BY <1>2, <1>6 DEF MeansBy, Hears
  <2>2. OnKey(k, to) = OnConfirmKey(a, k)
    BY <1>5, <1>6
  <2> QED BY <1>2, <1>3, <2>1, <2>2, ChordsRest
<1>7. CASE ~a.confirm /\ k \in Chords \cup {"focus"}
  <2>1. MeansBy(k) = meant.text
    BY <1>7, LettersAssumption DEF MeansBy, Chords
  <2>2. /\ Rests([a EXCEPT !.confirm = TRUE]) /\ Rests([a EXCEPT !.close = TRUE])
        /\ Rests([a EXCEPT !.focus = to])
    BY <1>2 DEF Rests, AppParts
  <2>3. Rests(OnCtrlC(a).app)
    BY <1>2, ChordsRest
  <2>4. Rests(OnKey(k, to).app)
    BY <1>2, <1>4, <1>5, <1>7, <2>2, <2>3 DEF Chords
  <2> QED BY <1>3, <2>1, <2>4
<1>8. CASE ~a.confirm /\ k \notin Chords \cup {"focus"} /\ a.focus # "steer"
  <2>1. MeansBy(k) = meant.text
    BY <1>2, <1>8 DEF MeansBy, Hears
  <2>2. OnKey(k, to) = OnPlainKey(a, k)
    BY <1>5, <1>8 DEF Chords
  <2>3. Rests(Says(a, None))
    BY <1>2 DEF Rests, AppParts, Says
  <2>4. Rests(OnPlainKey(a, k).app)
    BY <1>2, <1>4, <1>8, <2>3 DEF OnPlainKey
  <2> QED BY <1>3, <2>1, <2>2, <2>4
<1>9. CASE ~a.confirm /\ k \notin Chords \cup {"focus"} /\ a.focus = "steer"
  <2>1. OnKey(k, to) = OnTextKey(a, k)
    BY <1>5, <1>9 DEF Chords, OnPlainKey
  <2>2. CASE k = "esc"
    <3>1. MeansBy(k) = meant.text
      BY <2>2, LettersAssumption DEF MeansBy
    <3>2. Rests([a EXCEPT !.focus = "output"])
      BY <1>2 DEF Rests, AppParts
    <3>3. OnTextKey(a, k).app = [a EXCEPT !.focus = "output"]
      BY <1>4, <2>2 DEF OnTextKey
    <3> QED BY <1>3, <2>1, <3>1, <3>2, <3>3
  <2>3. CASE k # "esc"
    <3> DEFINE g == Edit(a.field, k)
               b == [a EXCEPT !.field = Edit(@, k)]
               c == Says(b, None)
    <3>1. OnTextKey(a, k).app = c
      BY <1>4, <2>3 DEF OnTextKey
    <3>2. b = [a EXCEPT !.field = g]
      OBVIOUS
    <3> HIDE DEF g
    <3>3. DOMAIN b = AppParts /\ b.field = g
      BY <1>2, <3>2 DEF Rests, AppParts
    <3> HIDE DEF b
    <3>4. DOMAIN c = AppParts /\ c.field = g
      BY <3>3 DEF Says, AppParts
    <3> HIDE DEF c
    <3>5. Hears
      BY <1>2, <1>9 DEF Hears
    <3>6. MeansIt(g, [text |-> MeansBy(k), broken |-> Breaks(g, MeansBy(k))])
      BY <1>1, <1>2, <1>9, <2>3, <3>5, EditMeansIt DEF g
    <3>7. Follows(c, MeansBy(k))
      BY <3>4, <3>6 DEF Follows
    <3> QED BY <2>1, <3>1, <3>7
  <2> QED BY <2>2, <2>3
<1> QED BY <1>6, <1>7, <1>8, <1>9

(* ... and a paste *)
LEMMA PasteFollows ==
    ASSUME WindowTyped, Meant, NEW b \in Bodies
    PROVE  Follows(OnPaste(app, b), MeansBy(b))
<1> DEFINE f == app.field
           g == Paste(f, b)
           a == OnPaste(app, b)
           m == MeansBy(b)
<1>1. /\ DOMAIN app = AppParts /\ Draft(f)
      /\ meant.broken \/ Shows(f.pastes, f.input, meant.text)
  BY DEF WindowTyped, Meant, MeansIt
<1>2. m = Means(f, meant.text, "paste", b)
  BY DEF MeansBy
<1>3. Draft(g)
  BY <1>1, KeysLeaveDrafts
<1>4. meant.broken \/ Shows(g.pastes, g.input, m)
  BY <1>1, <1>2, PasteMeans
<1>5. MeansIt(g, [text |-> m, broken |-> Breaks(g, m)])
  BY <1>3, <1>4, DraftMeans
<1>6. a = [app EXCEPT !.focus = "steer", !.field = g]
  BY DEF OnPaste
<1> HIDE DEF g
<1>7. DOMAIN a = AppParts /\ a.field = g
  BY <1>1, <1>6 DEF AppParts
<1> HIDE DEF a, m
<1>8. Follows(a, m)
  BY <1>5, <1>7 DEF Follows
<1> QED BY <1>8 DEF a, m

-----------------------------------------------------------------------------
(* The steps of the window *)

(* What a poll sees is the run the window was opened on, as long as it has one name *)
LEMMA PollSees ==
    ASSUME WatchInv,
           \/ UNCHANGED <<ringVars, view>>
           \/ Poll /\ view' = ViewOf(Detail("a"))
           \/ resolve = "b" /\ view' = ViewOf(Detail("b")) /\ UNCHANGED ringVars
    PROVE  restarts' = restarts /\ (OneName => view'.run = "a")
<1>1. \A r : ViewOf(Detail(r)).run = r
  BY DEF ViewOf, Detail
<1>2. OneName => view.run = "a" /\ resolve \in {"a", None}
  BY ResolvesTheirs DEF WatchInv, ToTheirRun
<1>3. "b" # None
  BY DEF None
<1>4. restarts' = restarts
  BY DEF ringVars, Poll
<1> QED BY <1>1, <1>2, <1>3, <1>4

(* A poll takes the notice and the view, and asks the plane about one run *)
LEMMA PollKeeps ==
    ASSUME WatchInv, PollRun(Aged) \/ PollRun(Same)
    PROVE  /\ DOMAIN app' = AppParts /\ app'.field = app.field
           /\ restarts' = restarts /\ (OneName => view'.run = "a")
<1> DEFINE Kept(a) == DOMAIN a = AppParts /\ a.field = app.field
           told_ == IF DroppedBefore(Since(latest)) > 0 THEN Says(app, "dropped") ELSE app
           Seen_ == \/ UNCHANGED <<ringVars, view>>
                    \/ Poll /\ view' = ViewOf(Detail("a"))
                    \/ resolve = "b" /\ view' = ViewOf(Detail("b")) /\ UNCHANGED ringVars
<1>1. Kept(app) /\ (\A n : Kept(Says(app, n))) /\ Kept(told_)
  BY NoticesKeep DEF WatchInv, WindowTyped
<1>2. \A a : Kept(a) => Kept(Aged(a)) /\ Kept(Same(a))
  BY NoticesKeep DEF Same
<1>3. CASE PollRun(Aged)
  <2>1. app' \in {Aged(Says(app, "unreachable")), Aged(app), Aged(told_)} /\ Seen_
    BY <1>3 DEF PollRun
  <2> QED BY <1>1, <1>2, <2>1, PollSees
<1>4. CASE PollRun(Same)
  <2>1. app' \in {Same(Says(app, "unreachable")), Same(app), Same(told_)} /\ Seen_
    BY <1>4 DEF PollRun
  <2> QED BY <1>1, <1>2, <2>1, PollSees
<1> QED BY <1>3, <1>4

(* A step that makes no request and lets none arrive *)
LEMMA QuietStep ==
    ASSUME WatchInv, DOMAIN app' = AppParts, app'.field = app.field,
           UNCHANGED <<typed, meant, asked, arrived>>,
           request' \in {request, NoRequest}, at' \in {at, "resume", "poll", "idle", "closed"},
           DOMAIN row' = Namesakes, restarts' \in Nat, restarts' >= restarts,
           OneName' => view'.run = "a" /\ (typed = "name" => row'["a"] # None)
    PROVE  WatchInv'
<1>1. WindowTyped'
  BY DEF WatchInv, WindowTyped, NoRequest, RequestParts
<1>2. Meant'
  BY DEF WatchInv, Meant, NoRequest
<1>3. InTheirOrder'
  BY DEF WatchInv, InTheirOrder
<1>4. OneName' => OneName
  BY DEF WatchInv, WindowTyped, OneName
<1>5. ToTheirRun'
  BY <1>4 DEF WatchInv, ToTheirRun
<1> QED BY <1>1, <1>2, <1>3, <1>5 DEF WatchInv

(* A key: what it asks has the next number, and says what is meant *)
LEMMA HandleStep == WatchInv /\ Handle => WatchInv'
<1> SUFFICES ASSUME WatchInv, Handle PROVE WatchInv'
  OBVIOUS
<1> DEFINE k == Head(burst)
           text == Submitted(app.field)
<1>1. UNCHANGED <<ringVars, view, typed, plane, pressed, faults>> /\ at = "idle"
  BY DEF Handle
<1>2. PICK to : LET did == IF k \in Bodies THEN Asking(OnPaste(app, k), None) ELSE OnKey(k, to)
                IN  /\ app' = [did.app EXCEPT !.age = 0]
                    /\ request' = [kind |-> did.ask,
                                   text |-> IF did.ask = "steer" THEN text ELSE <<>>,
                                   good |-> did.ask # "steer" \/ meant.broken
                                            \/ text = Trim(meant.text)]
                    /\ at' = IF did.ask # None THEN "apply"
                             ELSE IF did.app.close /\ Len(burst) = 1 THEN "closed" ELSE "idle"
                    /\ meant' = [text |-> MeansBy(k), broken |-> Breaks(did.app.field, MeansBy(k))]
                    /\ asked' = asked + (IF did.ask = None THEN 0 ELSE 1)
  BY DEF Handle
<1> DEFINE did == IF k \in Bodies THEN Asking(OnPaste(app, k), None) ELSE OnKey(k, to)
           good == did.ask # "steer" \/ meant.broken \/ text = Trim(meant.text)
           ask == did.ask
           after == did.app
           m == MeansBy(k)
<1>3. Follows(after, m)
  <2>1. CASE k \in Bodies
    BY <2>1, PasteFollows DEF WatchInv, Asking
  <2>2. CASE k \notin Bodies
    BY <2>2, KeyFollows DEF WatchInv
  <2> QED BY <2>1, <2>2
<1>4. good
  BY TrimShows DEF WatchInv, Meant, MeansIt
<1>5. /\ app' = [after EXCEPT !.age = 0]
      /\ request' = [kind |-> ask, text |-> IF ask = "steer" THEN text ELSE <<>>, good |-> good]
      /\ at' = IF ask # None THEN "apply" ELSE IF after.close /\ Len(burst) = 1 THEN "closed" ELSE "idle"
      /\ meant' = [text |-> m, broken |-> Breaks(after.field, m)]
      /\ asked' = asked + (IF ask = None THEN 0 ELSE 1)
  BY <1>2
<1> HIDE DEF k, did, good, ask, after, m, text
<1>6. DOMAIN app' = AppParts /\ app'.field = after.field
  BY <1>3, <1>5 DEF Follows, AppParts
<1>7. MeansIt(app'.field, meant')
  BY <1>3, <1>5, <1>6 DEF Follows
<1>8. DOMAIN request' = RequestParts /\ request'.good
  BY <1>4, <1>5 DEF RequestParts
<1>9. /\ at' \in {"idle", "apply", "closed"} /\ asked \in Nat /\ asked' \in {asked, asked + 1}
      /\ at' = "apply" => asked' = asked + 1
  BY <1>5 DEF WatchInv, WindowTyped
<1>10. WindowTyped'
  BY <1>1, <1>6, <1>8, <1>9 DEF WatchInv, WindowTyped, ringVars, plane
<1>11. InTheirOrder'
  BY <1>1, <1>9 DEF WatchInv, InTheirOrder, plane
<1>12. ToTheirRun'
  BY <1>1 DEF WatchInv, ToTheirRun, OneName, ringVars, plane
<1> QED BY <1>7, <1>8, <1>10, <1>11, <1>12 DEF WatchInv, Meant

(* A request is read at most once, by the run its name means *)
LEMMA ApplyStep == WatchInv /\ Apply => WatchInv'
<1> SUFFICES ASSUME WatchInv, Apply PROVE WatchInv'
  OBVIOUS
<1>1. PICK tries \in Exchanges : Answered(Arrivals(tries)) /\ app' = Says(app, Reported(tries))
  BY DEF Apply
<1>2. /\ UNCHANGED <<ringVars, burst, view, typed, meant, asked, pressed>>
      /\ at = "apply" /\ at' = "poll" /\ request' = NoRequest
  BY DEF Apply
<1>3. DOMAIN app' = AppParts /\ app'.field = app.field
  BY <1>1, NoticesKeep DEF WatchInv, WindowTyped
<1>4. Arrivals(tries) \in {0, 1}
  BY OneArrival
<1>5. CASE UNCHANGED plane
  <2>1. /\ UNCHANGED <<typed, meant, asked, arrived, row, view, restarts>>
        /\ DOMAIN row = Namesakes /\ restarts \in Nat /\ restarts >= restarts
    BY <1>2, <1>5 DEF WatchInv, WindowTyped, plane, ringVars
  <2>2. OneName' => view'.run = "a" /\ (typed = "name" => row'["a"] # None)
    BY <2>1 DEF WatchInv, ToTheirRun, OneName
  <2>3. request' \in {request, NoRequest} /\ at' \in {at, "resume", "poll", "idle", "closed"}
    BY <1>2
  <2> QED BY <1>3, <2>1, <2>2, <2>3, QuietStep
<1>6. CASE ~ UNCHANGED plane
  <2> DEFINE q == [id |-> asked, run |-> resolve, good |-> request.good,
                   queued |-> request.kind = "steer" /\ Admits(resolve, request.text)]
             n == Len(arrived)
  <2>1. /\ Arrivals(tries) = 1 /\ resolve # None
        /\ arrived' = arrived \o [i \in 1..1 |-> q]
        /\ row' = IF request.kind = "cancel" /\ row[resolve] # None
                  THEN [row EXCEPT ![resolve] = "cancelling"] ELSE row
    BY <1>1, <1>4, <1>6 DEF Answered
  <2>2. q.id = asked /\ q.run = resolve /\ (q.good <=> request.good)
    OBVIOUS
  <2>3. q.id = asked /\ q.run = resolve /\ q.good
    BY <2>2 DEF WatchInv, Meant
  <2> HIDE DEF q
  <2>4. /\ DOMAIN arrived = 1..n /\ n \in Nat
        /\ \A i \in 1..n : /\ arrived[i].good /\ arrived[i].run # None /\ arrived[i].id \in 0..asked
                           /\ arrived[i].id < asked
        /\ \A i, j \in 1..n : i < j => arrived[i].id < arrived[j].id
    BY <1>2 DEF WatchInv, InTheirOrder
  <2>5. /\ DOMAIN arrived' = 1..n + 1 /\ Len(arrived') = n + 1
        /\ arrived'[n + 1] = q /\ \A i \in 1..n : arrived'[i] = arrived[i]
    BY <2>1, <2>4
  <2>6. asked \in Nat /\ asked' = asked
    BY <1>2 DEF WatchInv, WindowTyped
  <2>7. \A i \in 1..n + 1 : i \in 1..n \/ i = n + 1
    BY <2>4
  <2>8. InTheirOrder'
    <3>1. \A i \in 1..n + 1 : /\ arrived'[i].good /\ arrived'[i].run # None
                              /\ arrived'[i].id \in 0..asked
      BY <2>1, <2>3, <2>4, <2>5, <2>6, <2>7
    <3>2. \A i, j \in 1..n + 1 : i < j => arrived'[i].id < arrived'[j].id
      BY <2>3, <2>4, <2>5, <2>6, <2>7
    <3> QED BY <1>2, <2>4, <2>5, <2>6, <3>1, <3>2 DEF InTheirOrder
  <2>9. DOMAIN row' = Namesakes /\ (row["a"] # None => row'["a"] # None)
    BY <2>1 DEF WatchInv, WindowTyped, None
  <2>10. ToTheirRun'
    <3> SUFFICES ASSUME OneName PROVE (/\ typed = "name" => row["a"] # None
                                       /\ view.run = "a"
                                       /\ \A i \in 1..Len(arrived) : arrived[i].run = "a")'
      BY <1>2 DEF ToTheirRun, OneName, ringVars
    <3>1. resolve = "a"
      BY <2>1, ResolvesTheirs DEF WatchInv
    <3> QED BY <1>2, <2>3, <2>5, <2>7, <2>9, <3>1 DEF WatchInv, ToTheirRun
  <2>11. WindowTyped'
    BY <1>2, <1>3, <2>9 DEF WatchInv, WindowTyped, NoRequest, RequestParts, ringVars
  <2>12. Meant'
    BY <1>2, <1>3 DEF WatchInv, Meant, NoRequest
  <2> QED BY <2>8, <2>10, <2>11, <2>12 DEF WatchInv
<1> QED BY <1>5, <1>6

(* The steps that make no request *)
LEMMA QuietSteps ==
    ASSUME WatchInv,
           \/ \E keys \in Bursts : Press(keys)
           \/ Detach \/ AskResume \/ ResumeAnswered \/ Idle \/ PollAfter
           \/ Emit \/ Stops \/ Begins \/ Reopens \/ UNCHANGED allVars
    PROVE  WatchInv'
<1> DEFINE Kept == /\ UNCHANGED <<typed, meant, asked, arrived>>
                   /\ request' \in {request, NoRequest}
                   /\ at' \in {at, "resume", "poll", "idle", "closed"}
           AppKept == DOMAIN app' = AppParts /\ app'.field = app.field
           Sees == OneName' => view'.run = "a" /\ (typed = "name" => row'["a"] # None)
           Rows == DOMAIN row' = Namesakes /\ restarts' \in Nat /\ restarts' >= restarts
<1>0. /\ DOMAIN app = AppParts /\ DOMAIN row = Namesakes /\ restarts \in Nat /\ "a" \in Namesakes
      /\ \A n : DOMAIN Says(app, n) = AppParts /\ Says(app, n).field = app.field
      /\ OneName => view.run = "a" /\ (typed = "name" => row["a"] # None)
  BY NoticesKeep DEF WatchInv, WindowTyped, ToTheirRun, Namesakes
<1>1. ASSUME Kept, AppKept, Rows, Sees PROVE WatchInv'
  BY <1>1, QuietStep
<1>2. ASSUME UNCHANGED restarts, UNCHANGED typed, UNCHANGED view, DOMAIN row' = Namesakes,
             row["a"] # None => row'["a"] # None
      PROVE  Rows /\ Sees
  BY <1>0, <1>2 DEF OneName
<1> HIDE DEF Sees
<1>3. ASSUME NEW keys \in Bursts, Press(keys) PROVE WatchInv'
  <2>1. Kept /\ AppKept /\ UNCHANGED <<row, restarts, view>>
    BY <1>0, <1>3 DEF Press, ringVars, plane
  <2> QED BY <1>0, <1>1, <1>2, <2>1
<1>4. CASE Detach
  <2>1. Kept /\ AppKept /\ UNCHANGED <<row, restarts, view>>
    BY <1>0, <1>4 DEF Detach, ringVars, plane
  <2> QED BY <1>0, <1>1, <1>2, <2>1
<1>5. CASE AskResume
  <2>1. Kept /\ UNCHANGED <<restarts, view>>
    BY <1>0, <1>5 DEF AskResume, ringVars
  <2>2. AppKept
    BY <1>0, <1>5 DEF AskResume
  <2>3. row' = row \/ row' = [row EXCEPT ![resolve] = "running"]
    BY <1>5 DEF AskResume
  <2>4. DOMAIN row' = Namesakes /\ (row["a"] # None => row'["a"] # None)
    BY <1>0, <2>3 DEF None
  <2> QED BY <1>1, <1>2, <2>1, <2>2, <2>4
<1>6. CASE ResumeAnswered
  <2>1. Kept /\ UNCHANGED <<restarts, view>>
    BY <1>0, <1>6 DEF ResumeAnswered, ringVars
  <2>2. AppKept
    BY <1>0, <1>6 DEF ResumeAnswered
  <2>3. DOMAIN row' = Namesakes /\ (row["a"] # None => row'["a"] # None)
    BY <1>0, <1>6 DEF ResumeAnswered, None
  <2> QED BY <1>1, <1>2, <2>1, <2>2, <2>3
<1>7. CASE Idle
  <2>1. PollRun(Aged)
    BY <1>7 DEF Idle
  <2>2. AppKept /\ restarts' = restarts /\ (OneName => view'.run = "a")
    BY <2>1, NoticesKeep, PollKeeps
  <2>3. Kept /\ UNCHANGED row
    BY <1>7 DEF Idle, plane
  <2>4. Rows /\ Sees
    BY <1>0, <2>2, <2>3 DEF Sees, OneName
  <2> QED BY <1>1, <2>2, <2>3, <2>4
<1>8. CASE PollAfter
  <2>1. PollRun(Same)
    BY <1>8 DEF PollAfter
  <2>2. \A a : Same(a) = a
    BY DEF Same
  <2>3. AppKept /\ restarts' = restarts /\ (OneName => view'.run = "a")
    BY <2>1, <2>2, PollKeeps
  <2>4. Kept /\ UNCHANGED row
    BY <1>8 DEF PollAfter, plane
  <2>5. Rows /\ Sees
    BY <1>0, <2>3, <2>4 DEF Sees, OneName
  <2> QED BY <1>1, <2>3, <2>4, <2>5
<1>9. CASE Emit
  <2>1. Kept /\ AppKept /\ UNCHANGED <<row, view>>
    BY <1>0, <1>9 DEF Emit, windowVars, plane
  <2>2. UNCHANGED restarts
    BY <1>9 DEF Emit, Say, Note, OpenTool, CloseTool, NextTurn, Emits
  <2> QED BY <1>0, <1>1, <1>2, <2>1, <2>2
<1>10. CASE Stops
  <2>1. Kept /\ AppKept /\ UNCHANGED <<restarts, view>>
    BY <1>0, <1>10 DEF Stops, ringVars
  <2>2. DOMAIN row' = Namesakes /\ row'["a"] # None
    BY <1>0, <1>10 DEF Stops, None
  <2> QED BY <1>1, <1>2, <2>1, <2>2
<1>11. CASE Begins
  <2>1. Kept /\ AppKept /\ UNCHANGED <<restarts, view>>
    BY <1>0, <1>11 DEF Begins, ringVars
  <2>2. DOMAIN row' = Namesakes /\ row'["a"] = row["a"]
    BY <1>0, <1>11 DEF Begins
  <2> QED BY <1>1, <1>2, <2>1, <2>2
<1>12. CASE Reopens
  <2>1. Kept /\ AppKept /\ UNCHANGED view /\ DOMAIN row' = Namesakes
    BY <1>0, <1>12 DEF Reopens
  <2>2. restarts' = restarts + 1
    BY <1>12 DEF Reopens, Restart
  <2>3. Rows
    BY <1>0, <2>1, <2>2
  <2>4. Sees
    BY <1>0, <2>1, <2>2 DEF Sees, OneName
  <2> QED BY <1>1, <2>1, <2>3, <2>4
<1>13. CASE UNCHANGED allVars
  <2>1. Kept /\ AppKept /\ UNCHANGED <<restarts, view, row>>
    BY <1>0, <1>13 DEF allVars, windowVars, plane, ringVars
  <2> QED BY <1>0, <1>1, <1>2, <2>1
<1> QED BY <1>3, <1>4, <1>5, <1>6, <1>7, <1>8, <1>9, <1>10, <1>11, <1>12, <1>13

(* WindowApp's requests: whatever breaks and however many keys, polls and
   restarts there are, a request reaches the run it was meant for, at most once, in the
   order it was made, with the words the person wrote; a window opened by a name is sent
   to another run of that name only after the daemon was started again. *)
THEOREM RequestsReachTheirRun == WatchSpec => []RequestsAreTheirs
<1>1. WatchInv /\ [Watches]_allVars => WatchInv'
  BY HandleStep, ApplyStep, QuietSteps DEF Watches, Loop
<1>2. WatchInv => RequestsAreTheirs
  <2> SUFFICES ASSUME WatchInv PROVE RequestsAreTheirs
    OBVIOUS
  <2>1. /\ Len(arrived) \in Nat
        /\ \A i \in 1..Len(arrived) - 1 :
              i \in 1..Len(arrived) /\ i + 1 \in 1..Len(arrived) /\ i < i + 1
    BY DEF WatchInv, InTheirOrder
  <2> QED BY <2>1 DEF WatchInv, InTheirOrder, ToTheirRun, OneName, RequestsAreTheirs
<1> QED BY <1>1, <1>2, WatchStarts, PTL DEF WatchSpec

-----------------------------------------------------------------------------
(* What a window holds of the ring *)

(* What a window holds of the ring: it never counts past the ring's end before the daemon
   is started again, and holds as it stands each frame of prose it has counted past; what
   it misses was reported to it. *)
Missing == {n \in from..latest : n > 0 /\ \A f \in held : f.n # n}

Counted ==
    /\ IsFiniteSet(held)
    /\ \A f \in held : f.n \in 1..latest
    /\ \A f, g \in held : f.n = g.n => f = g
    /\ from \in 0..latest /\ (from = 0 => latest = 0)

Prosaic(f) == f.kind # "tool"
Followed ==
    restarts = 0 =>
        /\ latest < next
        /\ \A i \in 1..Len(ring) :
              Prosaic(ring[i]) /\ (ring[i].n < latest \/ fresh = "yes") => ring[i] \in held

FollowInv == RingInv /\ Counted /\ Followed /\ GapsReported

LEMMA FollowStarts == RingInit => FollowInv
<1> SUFFICES ASSUME RingInit PROVE FollowInv
  OBVIOUS
<1>1. RingInv
  BY InitRing
<1>2. held = {} /\ from = 0 /\ latest = 0 /\ ring = <<>> /\ next = 1 /\ told = 0
  BY DEF RingInit
<1>3. Counted
  BY <1>2, FS_EmptySet DEF Counted
<1>4. Missing = {}
  BY <1>2 DEF Missing
<1>5. GapsReported
  BY <1>2, <1>4, FS_EmptySet DEF GapsReported, Missing
<1> QED BY <1>1, <1>2, <1>3, <1>5 DEF FollowInv, Followed

(* A push leaves alone what the window has counted past: only the newest frame of prose
   grows, and a line that is replaced is a tool's. *)
LEMMA AppendKeepsProse ==
    ASSUME GoodRing(ring, first, next), NEW f \in Frame, AppendFrame(f)
    PROVE  /\ next' = next + 1
           /\ \A i \in 1..Len(ring') :
                 \/ ring'[i].n = next
                 \/ \E j \in 1..Len(ring) : ring'[i] = ring[j]
<1> USE FrameAssumption
<1> DEFINE g == [f EXCEPT !.n = next]
           grown == Append(ring, g)
<1>1. ring \in Seq(Frame) /\ next \in Nat /\ MaxFrames \in Nat /\ MaxFrames # 0
  BY DEF GoodRing
<1>2. g.n = next /\ g \in Frame
  BY <1>1 DEF Frame
<1> HIDE DEF g
<1>3. /\ Len(grown) = Len(ring) + 1 /\ grown \in Seq(Frame) /\ grown[Len(grown)] = g
      /\ \A i \in 1..Len(ring) : grown[i] = ring[i]
  BY <1>1, <1>2
<1>4. ring' = Keep(grown) /\ next' = next + 1
  BY DEF AppendFrame, g
<1> HIDE DEF grown
<1>5. \A i \in 1..Len(ring') : \E k \in 1..Len(grown) : ring'[i] = grown[k]
  <2>1. CASE Len(grown) > MaxFrames
    <3> DEFINE l == Len(grown)
               d == l - MaxFrames
    <3>1. ring' = SubSeq(grown, d + 1, l)
      BY <1>4, <2>1, Zenon DEF Keep
    <3>2. grown \in Seq(Frame) /\ l \in Nat /\ MaxFrames \in Nat /\ l > MaxFrames
      BY <1>1, <1>3, <2>1
    <3>3. d \in Nat /\ l = d + MaxFrames /\ d + 1 \in 1..l
      <4> HIDE DEF l
      <4> QED BY <1>1, <3>2
    <3> HIDE DEF d
    <3>4. Len(ring') = MaxFrames /\ \A i \in 1..MaxFrames : ring'[i] = grown[d + i]
      BY <3>1, <3>2, <3>3
    <3> HIDE DEF l
    <3>5. ASSUME NEW i \in 1..MaxFrames PROVE d + i \in 1..l
      BY <3>2, <3>3
    <3> QED BY <3>4, <3>5, Zenon DEF l
  <2>2. CASE ~(Len(grown) > MaxFrames)
    <3>1. ring' = grown
      BY <1>4, <2>2 DEF Keep
    <3> QED BY <3>1, Zenon
  <2> QED BY <2>1, <2>2
<1>6. \A k \in 1..Len(grown) : grown[k] = g \/ \E j \in 1..Len(ring) : grown[k] = ring[j]
  <2>1. ASSUME NEW k \in 1..Len(ring) PROVE \E j \in 1..Len(ring) : grown[k] = ring[j]
    BY <1>3, Zenon
  <2>2. \A k \in 1..Len(grown) : k = Len(grown) \/ k \in 1..Len(ring)
    BY <1>1, <1>3
  <2> QED BY <1>3, <2>1, <2>2, Zenon
<1>7. ASSUME NEW i \in 1..Len(ring')
      PROVE  ring'[i].n = next \/ \E j \in 1..Len(ring) : ring'[i] = ring[j]
  <2>1. PICK k \in 1..Len(grown) : ring'[i] = grown[k]
    BY <1>5, Zenon
  <2>2. CASE grown[k] = g
    BY <1>2, <2>1, <2>2, Zenon
  <2>3. CASE \E j \in 1..Len(ring) : grown[k] = ring[j]
    BY <2>1, <2>3, Zenon
  <2> QED BY <1>6, <2>2, <2>3, Zenon
<1> QED BY <1>4, <1>7, Zenon

LEMMA PushKeepsProse ==
    ASSUME GoodRing(ring, first, next),
           \/ \E k \in {"text", "reasoning"} : Say(k)
           \/ \E k \in {"retract", "compact"} : Note(k)
           \/ OpenTool
           \/ \E c \in open : CloseTool(c),
           RingTyped
    PROVE  /\ Emits /\ next' \in {next, next + 1}
           /\ \A i \in 1..Len(ring') :
                 \/ ~Prosaic(ring'[i])
                 \/ ring'[i].n >= next - 1
                 \/ \E j \in 1..Len(ring) : ring'[i] = ring[j]
<1> DEFINE Safe == /\ next' \in {next, next + 1}
                   /\ \A i \in 1..Len(ring') :
                         \/ ~Prosaic(ring'[i])
                         \/ ring'[i].n >= next - 1
                         \/ \E j \in 1..Len(ring) : ring'[i] = ring[j]
<1>1. /\ ring \in Seq(Frame) /\ next \in Nat /\ next = first + Len(ring) /\ first \in Nat
      /\ \A i \in 1..Len(ring) : ring[i].n = first + i - 1
  BY DEF GoodRing
<1>2. ASSUME NEW f \in Frame, AppendFrame(f) PROVE Safe
  <2>1. /\ next' = next + 1
        /\ \A i \in 1..Len(ring') :
              \/ ring'[i].n = next
              \/ \E j \in 1..Len(ring) : ring'[i] = ring[j]
    BY <1>2, AppendKeepsProse
  <2>2. next >= next - 1
    BY <1>1
  <2> QED BY <2>1, <2>2
<1>3. ASSUME NEW i \in 1..Len(ring), NEW f, Replace(i, f), ~Prosaic(f) \/ f.n >= next - 1
      PROVE  Safe
  <2>1. ring' = [ring EXCEPT ![i] = f] /\ next' = next
    BY <1>3 DEF Replace
  <2>2. Len(ring') = Len(ring) /\ \A j \in 1..Len(ring) : ring'[j] = IF j = i THEN f ELSE ring[j]
    BY <1>1, <2>1
  <2> QED BY <1>1, <1>3, <2>1, <2>2
<1>4. ASSUME NEW f \in Frame, f.kind = "tool", PushTool(f) PROVE Safe
  <2>1. CASE SlotsOf(f.id) = {}
    BY <1>2, <1>4, <2>1 DEF PushTool
  <2>2. CASE SlotsOf(f.id) # {}
    <3> DEFINE i == CHOOSE j \in SlotsOf(f.id) : \A k \in SlotsOf(f.id) : j <= k
               g == [f EXCEPT !.n = ring[i].n]
    <3>1. SlotsOf(f.id) \subseteq 1..Len(ring)
      BY <1>1 DEF SlotsOf
    <3>2. \E j \in SlotsOf(f.id) : \A k \in SlotsOf(f.id) : j <= k
      BY <2>2, <3>1, LeastNatural
    <3>3. i \in 1..Len(ring)
      BY <3>1, <3>2
    <3>4. Replace(i, g)
      BY <1>4, <2>2 DEF PushTool
    <3>5. g.kind = "tool"
      BY <1>4 DEF Frame
    <3> HIDE DEF i, g
    <3> QED BY <1>3, <3>3, <3>4, <3>5 DEF Prosaic
  <2> QED BY <2>1, <2>2
<1>5. ASSUME NEW k \in {"text", "reasoning"}, Say(k) PROVE Safe
  <2>1. CASE ring # <<>> /\ ring[Len(ring)].kind = k
    <3> DEFINE f == [ring[Len(ring)] EXCEPT !.chunks = @ + 1]
    <3>1. Len(ring) \in 1..Len(ring) /\ ring[Len(ring)] \in Frame
      BY <1>1, <2>1
    <3>2. f.n = ring[Len(ring)].n
      BY <3>1 DEF Frame
    <3>3. Replace(Len(ring), f)
      BY <1>5, <2>1 DEF Say
    <3> HIDE DEF f
    <3>4. f.n >= next - 1
      BY <1>1, <3>1, <3>2
    <3> QED BY <1>3, <3>1, <3>3, <3>4
  <2>2. CASE ~(ring # <<>> /\ ring[Len(ring)].kind = k)
    <3>1. Prose(k) \in Frame
      BY DEF Prose, Frame, Kinds
    <3> QED BY <1>2, <1>5, <2>2, <3>1 DEF Say
  <2> QED BY <2>1, <2>2
<1>6. ASSUME NEW k \in {"retract", "compact"}, Note(k) PROVE Safe
  <2>1. Prose(k) \in Frame
    BY DEF Prose, Frame, Kinds
  <2> QED BY <1>2, <1>6, <2>1 DEF Note
<1>7. CASE OpenTool
  <2> DEFINE f == ToolFrame(<<turn, nextId>>, "running")
  <2>1. f \in Frame /\ f.kind = "tool"
    BY DEF ToolFrame, Frame, Kinds, RingTyped
  <2> HIDE DEF f
  <2> QED BY <1>4, <1>7, <2>1 DEF OpenTool, f
<1>8. ASSUME NEW c \in open, CloseTool(c) PROVE Safe
  <2> DEFINE f == ToolFrame(c, "closed")
  <2>1. f \in Frame /\ f.kind = "tool"
    BY DEF ToolFrame, Frame, Kinds, RingTyped
  <2> HIDE DEF f
  <2> QED BY <1>4, <1>8, <2>1 DEF CloseTool, f
<1>9. Emits
  BY DEF Say, Note, OpenTool, CloseTool
<1> QED BY <1>5, <1>6, <1>7, <1>8, <1>9


(* What a poll brings: the frames from the last one held on, the ring's last among them *)
LEMMA PollBrings ==
    ASSUME RingInv, NEW got, got = Answer(Since(latest)), NEW ns, ns = {f.n : f \in got}
    PROVE  /\ IsFiniteSet(got) /\ got \subseteq Frame /\ ns \subseteq Nat
           /\ \A f \in got : f.n >= latest /\ f.n \in first..next - 1
           /\ \A f, g \in got : f.n = g.n => f = g
           /\ \A i \in 1..Len(ring) : ring[i].n >= latest => ring[i] \in got
           /\ \A n \in first..next - 1 : n >= latest => n \in ns
           /\ ns # {} => next - 1 \in ns
<1> DEFINE D == {j \in 1..Len(ring) : ring[j].n >= latest}
<1>1. /\ ring \in Seq(Frame) /\ next \in Nat /\ next = first + Len(ring) /\ first \in Nat \ {0}
      /\ \A i \in 1..Len(ring) : ring[i].n = first + i - 1
      /\ latest \in Nat /\ Len(ring) \in Nat
  <2>1. ring \in Seq(Frame)
    BY DEF RingInv, RingTyped
  <2>2. Len(ring) \in Nat
    BY <2>1
  <2> QED BY <2>1, <2>2 DEF RingInv, RingTyped, RingShape
<1>2. got = {ring[i] : i \in D}
  BY <1>1 DEF Answer, Since
<1>3. IsFiniteSet(got)
  <2>0. Len(ring) \in Int /\ 1 \in Int
    BY <1>1
  <2>1. IsFiniteSet(1..Len(ring))
    BY <2>0, FS_Interval
  <2>2. IsFiniteSet(D)
    BY <2>1, FS_Subset
  <2> DEFINE h == [i \in D |-> ring[i]]
  <2>3. h \in Surjection(D, got)
    BY <1>2 DEF Surjection
  <2> QED BY <2>2, <2>3, FS_Surjection
<1>4. \A f \in got : \E i \in 1..Len(ring) : f = ring[i] /\ f.n >= latest
  BY <1>2
<1>5. \A i \in 1..Len(ring) : ring[i].n >= latest => ring[i] \in got
  BY <1>2
<1> HIDE DEF D
<1>6. got \subseteq Frame
  BY <1>1, <1>4
<1>7. \A f \in got : f.n >= latest /\ f.n \in first..next - 1 /\ f.n \in Nat
  <2> SUFFICES ASSUME NEW f \in got PROVE f.n >= latest /\ f.n \in first..next - 1 /\ f.n \in Nat
    OBVIOUS
  <2>1. PICK i \in 1..Len(ring) : f = ring[i] /\ f.n >= latest
    BY <1>4
  <2> QED BY <1>1, <2>1
<1>8. \A f, g \in got : f.n = g.n => f = g
  <2> SUFFICES ASSUME NEW f \in got, NEW g \in got, f.n = g.n PROVE f = g
    OBVIOUS
  <2>1. PICK i \in 1..Len(ring) : f = ring[i]
    BY <1>4
  <2>2. PICK j \in 1..Len(ring) : g = ring[j]
    BY <1>4
  <2>3. first + i - 1 = first + j - 1
    BY <1>1, <2>1, <2>2
  <2>4. i = j
    BY <1>1, <2>3
  <2> QED BY <2>1, <2>2, <2>4
<1>9. \A n \in first..next - 1 : n >= latest => n \in ns
  <2> SUFFICES ASSUME NEW n \in first..next - 1, n >= latest PROVE n \in ns
    OBVIOUS
  <2>1. n - first + 1 \in 1..Len(ring) /\ ring[n - first + 1].n = n
    BY <1>1
  <2>2. ring[n - first + 1] \in got
    BY <1>5, <2>1
  <2> QED BY <2>1, <2>2
<1>10. ns # {} => next - 1 \in ns
  <2> SUFFICES ASSUME ns # {} PROVE next - 1 \in ns
    OBVIOUS
  <2>1. PICK f \in got : TRUE
    OBVIOUS
  <2>2. next - 1 \in first..next - 1 /\ next - 1 >= latest
    BY <1>1, <1>7, <2>1
  <2> QED BY <1>9, <2>2
<1>11. ns \subseteq Nat
  BY <1>7
<1> QED BY <1>3, <1>5, <1>6, <1>7, <1>8, <1>9, <1>10, <1>11

(* ... after which the window has counted to the ring's end, if that is further *)
LEMMA PollCounts ==
    ASSUME RingInv, Poll, NEW got, got = Answer(Since(latest)), NEW ns, ns = {f.n : f \in got}
    PROVE  /\ latest' = IF ns = {} THEN latest ELSE next - 1
           /\ ns # {} => next - 1 >= latest
<1>1. /\ ns \subseteq Nat /\ (ns # {} => next - 1 \in ns)
      /\ \A f \in got : f.n >= latest /\ f.n \in first..next - 1
  BY PollBrings
<1>2. latest \in Nat /\ next \in Nat /\ first \in Nat
  BY DEF RingInv, RingTyped
<1>3. latest' = MaxOf({latest} \cup ns)
  BY DEF Poll
<1>4. \A x \in ns : x >= latest /\ x =< next - 1
  BY <1>1, <1>2
<1>5. CASE ns = {}
  <2>1. {latest} \cup ns = {latest}
    BY <1>5
  <2>2. MaxOf({latest}) = latest
    BY <1>2 DEF MaxOf
  <2> QED BY <1>3, <1>5, <2>1, <2>2
<1>6. CASE ns # {}
  <2> DEFINE S == {latest} \cup ns
  <2>1. next - 1 \in S /\ \A y \in S : y <= next - 1
    BY <1>1, <1>2, <1>4, <1>6
  <2>2. \A x \in S : (\A y \in S : y <= x) => x = next - 1
    BY <1>1, <1>2, <2>1
  <2>3. MaxOf(S) = next - 1
    BY <2>1, <2>2 DEF MaxOf
  <2> QED BY <1>1, <1>3, <1>4, <1>6, <2>3
<1> QED BY <1>5, <1>6

(* What a poll leaves missing was missing, or fell off the ring since the last one *)
LEMMA PollMissing ==
    ASSUME FollowInv, Poll
    PROVE  Missing' \subseteq Missing \cup (IF latest > 0 THEN latest + 1..first - 1 ELSE {})
<1> DEFINE got == Answer(Since(latest))
           ns == {f.n : f \in got}
<1>1. RingInv /\ Counted
  BY DEF FollowInv
<1>2. /\ \A f \in got : f.n >= latest /\ f.n \in first..next - 1
      /\ \A n \in first..next - 1 : n >= latest => n \in ns
      /\ ns \subseteq Nat
  BY <1>1, PollBrings
<1>3. /\ latest' = IF ns = {} THEN latest ELSE next - 1
      /\ ns # {} => next - 1 >= latest
  BY <1>1, PollCounts
<1>4. /\ held' = {f \in held : f.n \notin ns} \cup got
      /\ from' = IF from = 0 /\ got # {} THEN first ELSE from
  BY DEF Poll
<1>5. \A n : (\E f \in held : f.n = n) \/ n \in ns => \E f \in held' : f.n = n
  <2> SUFFICES ASSUME NEW n, (\E f \in held : f.n = n) \/ n \in ns
               PROVE  \E f \in held' : f.n = n
    OBVIOUS
  <2>1. CASE n \in ns
    <3>1. PICK f \in got : f.n = n
      BY <2>1
    <3>2. f \in held'
      BY <1>4
    <3> QED BY <3>1, <3>2
  <2>2. CASE n \notin ns
    <3>1. PICK f \in held : f.n = n
      BY <2>2
    <3>2. f \in held'
      BY <1>4, <2>2, <3>1
    <3> QED BY <3>1, <3>2
  <2> QED BY <2>1, <2>2
<1>6. got = {} <=> ns = {}
  OBVIOUS
<1>7. latest \in Nat /\ from \in Nat /\ first \in Nat \ {0} /\ next \in Nat
  BY <1>1 DEF RingInv, RingTyped
<1>8. from \in 0..latest /\ (from = 0 => latest = 0)
  BY <1>1 DEF Counted
<1> HIDE DEF got, ns
<1>9. ASSUME NEW n \in Missing'
      PROVE  n \in Missing \cup (IF latest > 0 THEN latest + 1..first - 1 ELSE {})
  <2>1. n \in from'..latest' /\ n > 0 /\ \A f \in held' : f.n # n
    BY <1>9 DEF Missing
  <2>2. n \notin ns /\ \A f \in held : f.n # n
    BY <1>5, <2>1
  <2>3. CASE ns = {}
    <3>1. from' = from /\ latest' = latest
      BY <1>3, <1>4, <1>6, <2>3
    <3> QED BY <2>1, <2>2, <3>1 DEF Missing
  <2>4. CASE ns # {} /\ from = 0
    <3>1. from' = first /\ latest' = next - 1 /\ latest = 0
      BY <1>3, <1>4, <1>6, <1>8, <2>4
    <3>2. n \in first..next - 1 /\ n >= latest
      BY <1>7, <2>1, <3>1
    <3> QED BY <1>2, <2>2, <3>2
  <2>5. CASE ns # {} /\ from # 0
    <3>1. from' = from /\ latest' = next - 1
      BY <1>3, <1>4, <2>5
    <3>2. CASE n =< latest
      <4>1. n \in from..latest
        BY <1>7, <2>1, <3>1, <3>2
      <4> QED BY <2>1, <2>2, <4>1 DEF Missing
    <3>3. CASE ~(n =< latest)
      <4>1. latest > 0
        BY <1>7, <1>8, <2>5
      <4>2. ~(n \in first..next - 1)
        BY <1>2, <1>7, <2>1, <2>2, <3>1, <3>3
      <4>3. n \in latest + 1..first - 1
        BY <1>7, <2>1, <3>1, <3>3, <4>2
      <4> QED BY <4>1, <4>3
    <3> QED BY <3>2, <3>3
  <2> QED BY <2>3, <2>4, <2>5
<1> QED BY <1>9

LEMMA PollFollows == FollowInv /\ Poll => FollowInv'
<1> SUFFICES ASSUME FollowInv, Poll PROVE FollowInv'
  OBVIOUS
<1> DEFINE got == Answer(Since(latest))
           ns == {f.n : f \in got}
<1>1. RingInv /\ Counted /\ Followed /\ GapsReported
  BY DEF FollowInv
<1>2. /\ IsFiniteSet(got) /\ got \subseteq Frame /\ ns \subseteq Nat
      /\ \A f \in got : f.n >= latest /\ f.n \in first..next - 1
      /\ \A f, g \in got : f.n = g.n => f = g
      /\ \A i \in 1..Len(ring) : ring[i].n >= latest => ring[i] \in got
      /\ ns # {} => next - 1 \in ns
  BY <1>1, PollBrings
<1>3. /\ latest' = IF ns = {} THEN latest ELSE next - 1
      /\ ns # {} => next - 1 >= latest
  BY <1>1, PollCounts
<1>4. /\ held' = {f \in held : f.n \notin ns} \cup got
      /\ from' = IF from = 0 /\ got # {} THEN first ELSE from
      /\ told' = told + DroppedBefore(Since(latest))
      /\ UNCHANGED <<ring, first, next, restarts>>
  BY DEF Poll
<1>5. \A f \in got : f.n \in ns
  OBVIOUS
<1>6. got = {} <=> ns = {}
  OBVIOUS
<1>7. /\ latest \in Nat /\ from \in Nat /\ first \in Nat \ {0} /\ next \in Nat /\ told \in Nat
      /\ held \subseteq Frame /\ ring \in Seq(Frame)
      /\ \A i \in 1..Len(ring) : ring[i].n = first + i - 1
      /\ next = first + Len(ring)
  BY <1>1 DEF RingInv, RingTyped, RingShape
<1>8. RingInv'
  BY <1>1, NextRing DEF RingNext
<1>9. Missing' \subseteq Missing \cup (IF latest > 0 THEN latest + 1..first - 1 ELSE {})
  BY PollMissing
<1> HIDE DEF got, ns
<1>10. Counted'
  <2>1. IsFiniteSet({f \in held : f.n \notin ns})
    BY <1>1, FS_Subset DEF Counted
  <2>2. IsFiniteSet(held')
    BY <1>2, <1>4, <2>1, FS_Union
  <2>3. latest' >= latest /\ latest' \in Nat
    BY <1>3, <1>7
  <2>4. ASSUME NEW f \in held' PROVE f.n \in 1..latest'
    <3>1. CASE f \in held
      <4>1. f.n \in 1..latest
        BY <1>1, <3>1 DEF Counted
      <4> QED BY <1>7, <2>3, <4>1
    <3>2. CASE f \in got
      BY <1>2, <1>3, <1>5, <1>7, <3>2
    <3> QED BY <1>4, <3>1, <3>2
  <2>5. \A f, g \in held' : f.n = g.n => f = g
    BY <1>1, <1>2, <1>4, <1>5 DEF Counted
  <2>6. from' \in 0..latest' /\ (from' = 0 => latest' = 0)
    <3>1. from \in 0..latest /\ (from = 0 => latest = 0)
      BY <1>1 DEF Counted
    <3>2. CASE ns = {}
      BY <1>3, <1>4, <1>6, <3>1, <3>2
    <3>3. CASE ns # {}
      <4>1. PICK f \in got : TRUE
        BY <1>6, <3>3
      <4>2. first =< next - 1
        BY <1>2, <1>7, <4>1
      <4> QED BY <1>3, <1>4, <1>6, <1>7, <2>3, <3>1, <3>3, <4>2
    <3> QED BY <3>2, <3>3
  <2> QED BY <2>2, <2>4, <2>5, <2>6 DEF Counted
<1>11. Followed'
  <2> SUFFICES ASSUME restarts = 0
               PROVE  /\ latest' < next
                      /\ \A i \in 1..Len(ring) : Prosaic(ring[i]) => ring[i] \in held'
    BY <1>4 DEF Followed
  <2>1. /\ latest < next
        /\ \A i \in 1..Len(ring) : Prosaic(ring[i]) /\ ring[i].n < latest => ring[i] \in held
    BY <1>1 DEF Followed
  <2>2. latest' < next
    BY <1>3, <1>7, <2>1
  <2>3. ASSUME NEW i \in 1..Len(ring), Prosaic(ring[i]) PROVE ring[i] \in held'
    <3>1. CASE ring[i].n >= latest
      BY <1>2, <1>4, <3>1
    <3>2. CASE ~(ring[i].n >= latest)
      <4>1. ring[i].n \in Nat
        BY <1>7
      <4>2. ring[i] \in held
        BY <1>7, <2>1, <2>3, <3>2, <4>1
      <4>3. ring[i].n \notin ns
        <5> SUFFICES ASSUME ring[i].n \in ns PROVE FALSE
          OBVIOUS
        <5>1. PICK f \in got : f.n = ring[i].n
          BY DEF ns
        <5> QED BY <1>2, <3>2, <5>1
      <4> QED BY <1>4, <4>2, <4>3
    <3> QED BY <3>1, <3>2
  <2> QED BY <2>2, <2>3
<1>12. GapsReported'
  <2> DEFINE Gap == IF latest > 0 THEN latest + 1..first - 1 ELSE {}
  <2>1. /\ IsFiniteSet(Missing) /\ Cardinality(Missing) \in Nat /\ Cardinality(Missing) =< told
    <3>1. IsFiniteSet(from..latest)
      BY <1>7, FS_Interval
    <3>2. IsFiniteSet(Missing)
      BY <3>1, FS_Subset DEF Missing
    <3> QED BY <1>1, <3>2, FS_CardinalityType DEF GapsReported, Missing
  <2>2. /\ IsFiniteSet(Gap) /\ Cardinality(Gap) \in Nat
        /\ Cardinality(Gap) =< DroppedBefore(Since(latest))
    <3>1. CASE latest > 0
      <4>1. /\ IsFiniteSet(latest + 1..first - 1)
            /\ Cardinality(latest + 1..first - 1) =
                 IF latest + 1 > first - 1 THEN 0 ELSE first - 1 - (latest + 1) + 1
        <5>1. latest + 1 \in Int /\ first - 1 \in Int
          BY <1>7
        <5> QED BY <5>1, FS_Interval
      <4>2. Gap = latest + 1..first - 1
        BY <3>1
      <4>3. DroppedBefore(Since(latest)) = IF latest < first THEN first - latest ELSE 0
        BY <3>1 DEF DroppedBefore, Since
      <4> HIDE DEF Gap
      <4> QED BY <1>7, <4>1, <4>2, <4>3
    <3>2. CASE ~(latest > 0)
      <4>1. Gap = {}
        BY <3>2
      <4>2. DroppedBefore(Since(latest)) = 0
        BY <3>2 DEF DroppedBefore, Since
      <4>3. IsFiniteSet({}) /\ Cardinality({}) = 0
        BY FS_EmptySet
      <4> HIDE DEF Gap
      <4> QED BY <4>1, <4>2, <4>3
    <3> QED BY <3>1, <3>2
  <2> HIDE DEF Gap
  <2>3. DroppedBefore(Since(latest)) \in Nat
    BY <1>7 DEF DroppedBefore, Since
  <2>4. /\ IsFiniteSet(Missing \cup Gap)
        /\ Cardinality(Missing \cup Gap) =
              Cardinality(Missing) + Cardinality(Gap) - Cardinality(Missing \cap Gap)
    BY <2>1, <2>2, FS_Union
  <2>5. Cardinality(Missing \cap Gap) \in Nat
    BY <2>1, FS_Intersection, FS_CardinalityType
  <2>6. Missing' \subseteq Missing \cup Gap
    BY <1>9 DEF Gap
  <2>7. IsFiniteSet(Missing') /\ Cardinality(Missing') =< Cardinality(Missing \cup Gap)
        /\ Cardinality(Missing') \in Nat
    BY <2>4, <2>6, FS_Subset, FS_CardinalityType
  <2>8. told' = told + DroppedBefore(Since(latest))
    BY <1>4
  <2>9. Cardinality(Missing') =< told'
    BY <1>7, <2>1, <2>2, <2>3, <2>4, <2>5, <2>7, <2>8
  <2> QED BY <2>9 DEF GapsReported, Missing
<1> QED BY <1>8, <1>10, <1>11, <1>12 DEF FollowInv

(* A push, a resume and a restart leave what the window holds *)
LEMMA FollowStep == FollowInv /\ [RingNext]_ringVars => FollowInv'
<1> SUFFICES ASSUME FollowInv, [RingNext]_ringVars PROVE FollowInv'
  OBVIOUS
<1>1. RingInv /\ Counted /\ Followed /\ GapsReported
  BY DEF FollowInv
<1>2. RingInv'
  BY <1>1, NextRing
<1>3. ASSUME UNCHANGED <<held, latest, told, from>>, Followed' PROVE FollowInv'
  BY <1>1, <1>2, <1>3 DEF FollowInv, Counted, GapsReported
<1>4. ASSUME \/ \E k \in {"text", "reasoning"} : Say(k)
             \/ \E k \in {"retract", "compact"} : Note(k)
             \/ OpenTool
             \/ \E c \in open : CloseTool(c)
      PROVE  FollowInv'
  <2>1. GoodRing(ring, first, next) /\ RingTyped
    BY <1>1, RingInvSplits
  <2>2. /\ Emits /\ next' \in {next, next + 1}
        /\ \A i \in 1..Len(ring') :
              \/ ~Prosaic(ring'[i])
              \/ ring'[i].n >= next - 1
              \/ \E j \in 1..Len(ring) : ring'[i] = ring[j]
    BY <1>4, <2>1, PushKeepsProse
  <2>3. UNCHANGED <<held, latest, told, from, restarts>> /\ fresh' = "no"
    BY <2>2 DEF Emits
  <2>4. latest \in Nat /\ next \in Nat
    BY <2>1 DEF RingTyped
  <2>5. /\ ring' \in Seq(Frame)
    BY <1>2 DEF RingInv, RingTyped
  <2>6. Followed'
    <3> SUFFICES ASSUME restarts = 0
                 PROVE  /\ latest < next'
                        /\ \A i \in 1..Len(ring') :
                              Prosaic(ring'[i]) /\ ring'[i].n < latest => ring'[i] \in held
      BY <2>3 DEF Followed
    <3>1. /\ latest < next
          /\ \A i \in 1..Len(ring) : Prosaic(ring[i]) /\ ring[i].n < latest => ring[i] \in held
      BY <1>1 DEF Followed
    <3>2. ASSUME NEW i \in 1..Len(ring'), Prosaic(ring'[i]), ring'[i].n < latest
          PROVE  ring'[i] \in held
      <4>1. ring'[i].n \in Nat
        <5>1. ring'[i] \in Frame
          BY <2>5
        <5> QED BY <5>1 DEF Frame
      <4>2. ~(ring'[i].n >= next - 1)
        BY <2>4, <3>1, <3>2, <4>1
      <4> QED BY <2>2, <3>1, <3>2, <4>2
    <3> QED BY <2>2, <2>4, <3>1, <3>2
  <2> QED BY <1>3, <2>3, <2>6
<1>5. CASE NextTurn
  <2>1. UNCHANGED <<ring, first, next, held, latest, fresh, told, from, restarts>>
    BY <1>5 DEF NextTurn
  <2> QED BY <1>1, <1>3, <2>1 DEF Followed
<1>6. CASE Restart
  <2>1. UNCHANGED <<held, latest, told, from>> /\ restarts' = restarts + 1
    BY <1>6 DEF Restart
  <2>2. restarts \in Nat
    BY <1>1 DEF RingInv, RingTyped
  <2> QED BY <1>3, <2>1, <2>2 DEF Followed
<1>7. CASE UNCHANGED ringVars
  BY <1>1, <1>3, <1>7 DEF ringVars, Followed
<1> QED BY <1>4, <1>5, <1>6, <1>7, PollFollows DEF RingNext

LEMMA FollowedIsCaughtUp == FollowInv => ProseCaughtUp /\ GapsReported
BY DEF FollowInv, Counted, Followed, ProseCaughtUp, Prosaic

-----------------------------------------------------------------------------
(* The entries of the frames it holds *)

(* The frames in order: their ranks are the places, so each place has its frame, and a
   later place a later one. *)
LEMMA RanksGrow ==
    ASSUME Counted, NEW f \in held, NEW g \in held, f.n < g.n
    PROVE  PlaceOf(f) < PlaceOf(g)
<1> DEFINE F == {x \in held : x.n <= f.n}
           G == {x \in held : x.n <= g.n}
<1>1. \A x \in held : x.n \in Int
  BY DEF Counted
<1>2. IsFiniteSet(G)
  BY FS_Subset DEF Counted
<1>3. F \in SUBSET G /\ g \in G /\ g \notin F
  BY <1>1
<1>4. Cardinality(F) =< Cardinality(G) /\ Cardinality(F) # Cardinality(G)
  BY <1>2, <1>3, FS_Subset
<1>5. Cardinality(F) \in Nat /\ Cardinality(G) \in Nat
  BY <1>2, <1>3, FS_Subset, FS_CardinalityType
<1> QED BY <1>4, <1>5 DEF PlaceOf

LEMMA InOrderIs ==
    ASSUME Counted
    PROVE  /\ Cardinality(held) \in Nat /\ DOMAIN InOrder = 1..Cardinality(held)
           /\ \A i \in DOMAIN InOrder : InOrder[i] \in held
           /\ \A f \in held : \E i \in DOMAIN InOrder : f = InOrder[i]
           /\ \A i, j \in DOMAIN InOrder : i < j => InOrder[i].n < InOrder[j].n
<1> DEFINE N == Cardinality(held)
           r == [f \in held |-> PlaceOf(f)]
<1>1. IsFiniteSet(held) /\ N \in Nat /\ (\A f \in held : f.n \in Int)
  BY FS_CardinalityType DEF Counted
<1>2. \A f \in held : PlaceOf(f) \in 1..N
  <2> SUFFICES ASSUME NEW f \in held PROVE PlaceOf(f) \in 1..N
    OBVIOUS
  <2> DEFINE F == {x \in held : x.n <= f.n}
  <2>1. F \in SUBSET held /\ f \in F
    BY <1>1
  <2>2. IsFiniteSet(F) /\ Cardinality(F) =< N /\ Cardinality(F) \in Nat
    BY <1>1, <2>1, FS_Subset, FS_CardinalityType
  <2>3. Cardinality(F) # 0
    BY <2>1, <2>2, FS_EmptySet
  <2> HIDE DEF N
  <2>4. Cardinality(F) \in 1..N
    BY <1>1, <2>2, <2>3
  <2> QED BY <2>4 DEF PlaceOf
<1>3. \A f, g \in held : PlaceOf(f) = PlaceOf(g) => f = g
  <2> SUFFICES ASSUME NEW f \in held, NEW g \in held, PlaceOf(f) = PlaceOf(g) PROVE f = g
    OBVIOUS
  <2>1. ~(f.n < g.n) /\ ~(g.n < f.n)
    BY <1>2, RanksGrow
  <2>2. f.n = g.n
    BY <1>1, <2>1
  <2> QED BY <2>2 DEF Counted
<1>4. r \in Injection(held, 1..N)
  BY <1>2, <1>3 DEF Injection, IsInjective
<1>5. IsFiniteSet(1..N) /\ Cardinality(1..N) = N
  <2>1. 1 \in Int /\ N \in Int
    BY <1>1
  <2>2. /\ IsFiniteSet(1..N)
        /\ Cardinality(1..N) = IF 1 > N THEN 0 ELSE N - 1 + 1
    BY <2>1, FS_Interval
  <2> HIDE DEF N
  <2> QED BY <1>1, <2>2
<1>6. r \in Surjection(held, 1..N)
  BY <1>4, <1>5, FS_Injection
<1>7. \A i \in 1..N : \E f \in held : PlaceOf(f) = i
  <2> SUFFICES ASSUME NEW i \in 1..N PROVE \E f \in held : PlaceOf(f) = i
    OBVIOUS
  <2> HIDE DEF N
  <2>1. \E f \in held : r[f] = i
    BY <1>6 DEF Surjection
  <2> QED BY <2>1
<1>8. DOMAIN InOrder = 1..N
  BY DEF InOrder
<1>9. \A i \in 1..N : InOrder[i] \in held /\ PlaceOf(InOrder[i]) = i
  <2> SUFFICES ASSUME NEW i \in 1..N PROVE InOrder[i] \in held /\ PlaceOf(InOrder[i]) = i
    OBVIOUS
  <2>1. InOrder[i] = CHOOSE f \in held : PlaceOf(f) = i
    BY DEF InOrder
  <2>2. \E f \in held : PlaceOf(f) = i
    BY <1>7
  <2> QED BY <2>1, <2>2
<1> HIDE DEF N, r
<1>10. \A f \in held : \E i \in 1..N : f = InOrder[i]
  <2> SUFFICES ASSUME NEW f \in held PROVE \E i \in 1..N : f = InOrder[i]
    OBVIOUS
  <2>1. PlaceOf(f) \in 1..N /\ PlaceOf(InOrder[PlaceOf(f)]) = PlaceOf(f) /\ InOrder[PlaceOf(f)] \in held
    BY <1>2, <1>9
  <2>2. f = InOrder[PlaceOf(f)]
    BY <1>3, <2>1
  <2> QED BY <2>1, <2>2
<1>11. ASSUME NEW i \in 1..N, NEW j \in 1..N, i < j PROVE InOrder[i].n < InOrder[j].n
  <2>1. InOrder[i] \in held /\ InOrder[j] \in held /\ PlaceOf(InOrder[i]) = i /\ PlaceOf(InOrder[j]) = j
    BY <1>9
  <2>2. ~(InOrder[j].n < InOrder[i].n)
    <3> SUFFICES ASSUME InOrder[j].n < InOrder[i].n PROVE FALSE
      OBVIOUS
    <3>1. PlaceOf(InOrder[j]) < PlaceOf(InOrder[i])
      BY <2>1, RanksGrow
    <3> QED BY <1>1, <1>11, <2>1, <3>1
  <2>3. InOrder[i].n # InOrder[j].n
    <3> SUFFICES ASSUME InOrder[i].n = InOrder[j].n PROVE FALSE
      OBVIOUS
    <3>1. InOrder[i] = InOrder[j]
      BY <2>1 DEF Counted
    <3> QED BY <1>1, <1>11, <2>1, <3>1
  <2> QED BY <1>1, <2>1, <2>2, <2>3
<1> QED BY <1>1, <1>8, <1>9, <1>10, <1>11 DEF N

(* entries folds AddEntry over the frames in order: its value, step by step *)
LEMMA EntriesStepByStep ==
    ASSUME NEW s, NEW n \in Nat, DOMAIN s = 1..n
    PROVE  \E h : /\ h[0] = <<>> /\ h[n] = FoldLeft(AddEntry, <<>>, s)
                  /\ \A i \in 1..n : h[i] = AddEntry(h[i - 1], s[i])
<1> DEFINE Def(g, k) == g = [t \in SUBSET (1..k) |->
                               IF t = {} THEN <<>> ELSE AddEntry(g[t \ {Max(t)}], s[Max(t)])]
           It == CHOOSE g : Def(g, n)
           C == {k \in Nat : ~\E g : Def(g, k)}
<1>1. FoldLeft(AddEntry, <<>>, s) = It[1..n]
  BY DEF FoldLeft, MapThenFoldSet
<1>2. \E g : Def(g, 0)
  <2> DEFINE g == [t \in SUBSET (1..0) |-> <<>>]
  <2>1. Def(g, 0)
    OBVIOUS
  <2> QED BY <2>1
<1>3. ASSUME NEW k \in Nat, NEW g, Def(g, k) PROVE \E h : Def(h, k + 1)
  <2> DEFINE a == g
             h == [t \in SUBSET (1..k + 1) |->
                     IF k + 1 \in t THEN AddEntry(a[t \ {k + 1}], s[k + 1]) ELSE a[t]]
  <2>0. \A t \in SUBSET (1..k) : a[t] = IF t = {} THEN <<>> ELSE AddEntry(a[t \ {Max(t)}], s[Max(t)])
    BY <1>3
  <2> HIDE DEF a
  <2>1. \A t \in SUBSET (1..k + 1) : k + 1 \notin t => t \in SUBSET (1..k)
    OBVIOUS
  <2>2. \A t \in SUBSET (1..k + 1) : t \ {k + 1} \in SUBSET (1..k)
    OBVIOUS
  <2>3. ASSUME NEW t \in SUBSET (1..k + 1), k + 1 \in t PROVE Max(t) = k + 1
    <3>1. k + 1 \in Nat /\ t # {}
      BY <2>3
    <3>2. Max(t) \in t /\ \A x \in t : Max(t) >= x
      BY <3>1, Bounded
    <3>3. Max(t) >= k + 1 /\ Max(t) \in 1..k + 1
      BY <2>3, <3>2
    <3> QED BY <3>3
  <2>4. ASSUME NEW t \in SUBSET (1..k), t # {} PROVE t \ {Max(t)} \in SUBSET (1..k)
    OBVIOUS
  <2>5. ASSUME NEW t \in SUBSET (1..k + 1)
        PROVE  h[t] = IF t = {} THEN <<>> ELSE AddEntry(h[t \ {Max(t)}], s[Max(t)])
    <3>1. CASE k + 1 \in t
      <4>1. t \ {k + 1} \in SUBSET (1..k + 1) /\ k + 1 \notin t \ {k + 1}
        OBVIOUS
      <4>2. h[t \ {k + 1}] = a[t \ {k + 1}]
        BY <4>1
      <4>3. h[t] = AddEntry(a[t \ {k + 1}], s[k + 1])
        BY <3>1
      <4> HIDE DEF h
      <4> QED BY <2>3, <3>1, <4>2, <4>3
    <3>2. CASE k + 1 \notin t
      <4>1. h[t] = a[t] /\ t \in SUBSET (1..k)
        BY <2>1, <3>2
      <4>2. t \ {Max(t)} \in SUBSET (1..k + 1) /\ k + 1 \notin t \ {Max(t)}
        BY <3>2
      <4>3. h[t \ {Max(t)}] = a[t \ {Max(t)}]
        BY <4>2
      <4> HIDE DEF h
      <4> QED BY <2>0, <4>1, <4>3
    <3> QED BY <3>1, <3>2
  <2>6. h = [t \in SUBSET (1..k + 1) |-> h[t]]
    OBVIOUS
  <2> HIDE DEF h
  <2>7. h = [t \in SUBSET (1..k + 1) |->
                IF t = {} THEN <<>> ELSE AddEntry(h[t \ {Max(t)}], s[Max(t)])]
    BY <2>5, <2>6, Zenon
  <2> QED BY <2>7
<1> HIDE DEF Def
<1>4. C = {}
  <2> SUFFICES ASSUME C # {} PROVE FALSE
    OBVIOUS
  <2>1. PICK m \in C : \A k \in C : m =< k
    BY LeastNatural
  <2>2. m # 0
    BY <1>2, <2>1
  <2>3. m - 1 \in Nat /\ m - 1 \notin C
    BY <2>1, <2>2
  <2>4. PICK g : Def(g, m - 1)
    BY <2>3
  <2>5. \E h : Def(h, m - 1 + 1)
    BY <1>3, <2>3, <2>4
  <2>6. m - 1 + 1 = m
    BY <2>1
  <2> QED BY <2>1, <2>5, <2>6
<1>5. Def(It, n)
  BY <1>4
<1>6. /\ It[{}] = <<>>
      /\ \A t \in SUBSET (1..n) : t # {} => It[t] = AddEntry(It[t \ {Max(t)}], s[Max(t)])
  <2> HIDE DEF It
  <2>1. It = [t \in SUBSET (1..n) |->
                IF t = {} THEN <<>> ELSE AddEntry(It[t \ {Max(t)}], s[Max(t)])]
    BY <1>5 DEF Def
  <2>2. \A t \in SUBSET (1..n) :
           It[t] = IF t = {} THEN <<>> ELSE AddEntry(It[t \ {Max(t)}], s[Max(t)])
    BY <2>1, Zenon
  <2> QED BY <2>2
<1> HIDE DEF It
<1> DEFINE h == [i \in 0..n |-> It[1..i]]
<1>7. h[0] = <<>> /\ h[n] = It[1..n]
  <2>1. 1..0 = {} /\ h[0] = It[1..0]
    OBVIOUS
  <2> QED BY <1>6, <2>1
<1>8. ASSUME NEW i \in 1..n PROVE h[i] = AddEntry(h[i - 1], s[i])
  <2> DEFINE t == 1..i
  <2>1. i \in Nat /\ t \in SUBSET (1..i) /\ t # {} /\ i \in t
    <3>1. i \in Nat /\ i \in 1..i
      OBVIOUS
    <3> QED BY <3>1
  <2>2. Max(t) \in t /\ Max(t) >= i
    BY <2>1, Bounded
  <2>3. Max(t) = i
    BY <2>2
  <2>4. t \ {i} = 1..i - 1
    OBVIOUS
  <2>5. t \in SUBSET (1..n)
    OBVIOUS
  <2>6. It[t] = AddEntry(It[t \ {Max(t)}], s[Max(t)])
    BY <1>6, <2>1, <2>5
  <2>7. h[i] = It[t] /\ h[i - 1] = It[1..i - 1]
    <3>1. i \in 0..n /\ i - 1 \in 0..n
      OBVIOUS
    <3> QED BY <3>1
  <2> HIDE DEF h, t
  <2> QED BY <2>3, <2>4, <2>6, <2>7
<1>9. h[0] = <<>> /\ h[n] = FoldLeft(AddEntry, <<>>, s)
  BY <1>1, <1>7
<1> QED BY <1>8, <1>9

(* Frames in the order of their sequences, each retraction right behind its speech *)
Entry == [k : Kinds, n : Nat]
Retraction(fs, i) == fs[i].kind = "retract"
Orderly(fs, N) ==
    /\ N \in Nat /\ fs \in [1..N -> Frame]
    /\ \A i, j \in 1..N : i < j => fs[i].n < fs[j].n
    /\ \A i \in 1..N : Retraction(fs, i) => i > 1 /\ fs[i - 1].kind = "text"

(* What the entries are after the first i frames *)
SaidBy(fs, i, j) == IF j < i /\ Retraction(fs, j + 1) THEN "reasoning" ELSE "text"
HasEntry(out, fs, i, j) ==
    \E m \in 1..Len(out) :
        out[m].n = fs[j].n /\ (fs[j].kind = "text" => out[m].k = SaidBy(fs, i, j))
EntriesUpTo(out, fs, i) ==
    /\ out \in Seq(Entry)
    /\ \A m \in 1..Len(out) : \E j \in 1..i : ~Retraction(fs, j) /\ out[m].n = fs[j].n
    /\ \A j \in 1..i : ~Retraction(fs, j) => HasEntry(out, fs, i, j)
    /\ \A l, m \in 1..Len(out) : l < m => out[l].n < out[m].n
    /\ i > 0 /\ fs[i].kind = "text" =>
           Len(out) > 0 /\ out[Len(out)] = [k |-> "text", n |-> fs[i].n]

LEMMA AddEntryFollows ==
    ASSUME NEW fs, NEW N, Orderly(fs, N), NEW i \in 1..N, NEW out, EntriesUpTo(out, fs, i - 1)
    PROVE  EntriesUpTo(AddEntry(out, fs[i]), fs, i)
<1> DEFINE new == AddEntry(out, fs[i])
           n == Len(out)
<1>1. /\ N \in Nat /\ i \in Nat /\ i - 1 \in Nat /\ (\A j \in 1..i - 1 : j \in 1..N)
      /\ \A j \in 1..N : fs[j] \in Frame /\ fs[j].n \in Nat /\ fs[j].kind \in Kinds
      /\ i \in 1..i
  BY DEF Orderly, Frame
<1>2. /\ out \in Seq(Entry) /\ n \in Nat
      /\ \A m \in 1..n : out[m] \in Entry
      /\ \A m \in 1..n : \E j \in 1..i - 1 : ~Retraction(fs, j) /\ out[m].n = fs[j].n
      /\ \A j \in 1..i - 1 : ~Retraction(fs, j) => HasEntry(out, fs, i - 1, j)
      /\ \A l, m \in 1..n : l < m => out[l].n < out[m].n
  <2>1. out \in Seq(Entry)
    BY DEF EntriesUpTo
  <2> QED BY <2>1 DEF EntriesUpTo
<1>3. \A j \in 1..i : j \in 1..i - 1 \/ j = i
  BY <1>1
<1>4. \A m \in 1..n : out[m].n \in Nat /\ out[m].n < fs[i].n
  <2> SUFFICES ASSUME NEW m \in 1..n PROVE out[m].n \in Nat /\ out[m].n < fs[i].n
    OBVIOUS
  <2>1. PICK j \in 1..i - 1 : out[m].n = fs[j].n
    BY <1>2
  <2>2. j \in 1..N /\ j < i
    BY <1>1
  <2> QED BY <1>1, <2>1, <2>2 DEF Orderly
<1>5. CASE ~Retraction(fs, i)
  <2> DEFINE e == [k |-> fs[i].kind, n |-> fs[i].n]
  <2>1. new = Append(out, e) /\ e \in Entry /\ e.n = fs[i].n /\ e.k = fs[i].kind
    BY <1>1, <1>5 DEF AddEntry, Retraction, Entry
  <2> HIDE DEF new, e
  <2>2. /\ new \in Seq(Entry) /\ Len(new) = n + 1 /\ new[n + 1] = e
        /\ \A m \in 1..n : new[m] = out[m]
    BY <1>2, <2>1
  <2> HIDE DEF n
  <2>3. \A m \in 1..n + 1 : m \in 1..n \/ m = n + 1
    BY <1>2
  <2>4. \A m \in 1..Len(new) : \E j \in 1..i : ~Retraction(fs, j) /\ new[m].n = fs[j].n
    <3> SUFFICES ASSUME NEW m \in 1..n + 1
                 PROVE  \E j \in 1..i : ~Retraction(fs, j) /\ new[m].n = fs[j].n
      BY <2>2
    <3>1. CASE m = n + 1
      BY <1>1, <1>5, <2>1, <2>2, <3>1
    <3>2. CASE m \in 1..n
      <4>1. PICK j \in 1..i - 1 : ~Retraction(fs, j) /\ out[m].n = fs[j].n
        BY <1>2, <3>2
      <4>2. j \in 1..i
        BY <1>1
      <4> QED BY <2>2, <3>2, <4>1, <4>2
    <3> QED BY <2>3, <3>1, <3>2
  <2>5. ASSUME NEW j \in 1..i, ~Retraction(fs, j) PROVE HasEntry(new, fs, i, j)
    <3>1. CASE j = i
      <4>1. n + 1 \in 1..Len(new) /\ SaidBy(fs, i, i) = "text"
        BY <1>1, <1>2, <2>2 DEF SaidBy
      <4> QED BY <2>1, <2>2, <3>1, <4>1 DEF HasEntry
    <3>2. CASE j \in 1..i - 1
      <4>1. PICK m \in 1..n :
               out[m].n = fs[j].n /\ (fs[j].kind = "text" => out[m].k = SaidBy(fs, i - 1, j))
        BY <1>2, <2>5, <3>2 DEF HasEntry, n
      <4>2. SaidBy(fs, i, j) = SaidBy(fs, i - 1, j)
        <5>1. CASE j < i - 1
          BY <1>1, <5>1 DEF SaidBy
        <5>2. CASE ~(j < i - 1)
          <6>1. j + 1 = i /\ j < i
            BY <1>1, <3>2, <5>2
          <6> QED BY <1>5, <5>2, <6>1 DEF SaidBy
        <5> QED BY <5>1, <5>2
      <4>3. m \in 1..Len(new) /\ new[m] = out[m]
        BY <1>2, <2>2
      <4> QED BY <4>1, <4>2, <4>3 DEF HasEntry
    <3> QED BY <1>3, <3>1, <3>2
  <2>6. ASSUME NEW l \in 1..Len(new), NEW m \in 1..Len(new), l < m PROVE new[l].n < new[m].n
    <3>1. l \in 1..n /\ (m \in 1..n \/ m = n + 1)
      BY <1>2, <2>2, <2>6
    <3> QED BY <1>2, <1>4, <2>1, <2>2, <2>6, <3>1
  <2>7. fs[i].kind = "text" => Len(new) > 0 /\ new[Len(new)] = [k |-> "text", n |-> fs[i].n]
    BY <1>2, <2>2 DEF e
  <2> QED BY <2>2, <2>4, <2>5, <2>6, <2>7 DEF EntriesUpTo, new
<1>6. CASE Retraction(fs, i)
  <2>1. i > 1 /\ fs[i - 1].kind = "text" /\ i - 1 \in 1..N /\ i - 1 > 0
    BY <1>1, <1>6 DEF Orderly
  <2>2. n > 0 /\ out[n] = [k |-> "text", n |-> fs[i - 1].n]
    BY <2>1 DEF EntriesUpTo
  <2> DEFINE e == [out[n] EXCEPT !.k = "reasoning"]
  <2>3. e = [k |-> "reasoning", n |-> fs[i - 1].n] /\ e \in Entry
    BY <1>1, <2>1, <2>2 DEF Entry, Kinds
  <2>4. new = Append(SubSeq(out, 1, n - 1), e)
    <3>1. out # <<>> /\ Last(out).k = "text"
      BY <1>2, <2>2 DEF Last
    <3> QED BY <1>6, <3>1 DEF AddEntry, Retraction, Last, Front
  <2> HIDE DEF new, e
  <2>5. /\ new \in Seq(Entry) /\ Len(new) = n /\ new[n] = e
        /\ \A m \in 1..n - 1 : new[m] = out[m]
    <3> DEFINE front == SubSeq(out, 1, n - 1)
    <3>1. front \in Seq(Entry) /\ Len(front) = n - 1 /\ \A m \in 1..n - 1 : front[m] = out[m]
      <4>1. 1 \in 1..n + 1 /\ n - 1 \in 1 - 1..n
        BY <1>2, <2>2
      <4>2. /\ SubSeq(out, 1, n - 1) \in Seq(Entry)
            /\ Len(SubSeq(out, 1, n - 1)) = IF 1 =< n - 1 THEN n - 1 - 1 + 1 ELSE 0
            /\ \A m \in 1..n - 1 - 1 + 1 : SubSeq(out, 1, n - 1)[m] = out[1 + m - 1]
        BY <1>2, <4>1, SubSeqProperties
      <4>3. n \in Nat /\ n > 0
        BY <1>2, <2>2
      <4> HIDE DEF n
      <4>4. n - 1 - 1 + 1 = n - 1 /\ \A m \in 1..n - 1 : 1 + m - 1 = m
        BY <4>3
      <4>5. Len(front) = n - 1 /\ front \in Seq(Entry)
        BY <4>2, <4>3
      <4>6. \A m \in 1..n - 1 : front[m] = out[m]
        BY <4>2, <4>4
      <4> QED BY <4>5, <4>6
    <3> HIDE DEF front
    <3>2. /\ Append(front, e) \in Seq(Entry) /\ Len(Append(front, e)) = n - 1 + 1
          /\ Append(front, e)[n - 1 + 1] = e /\ \A m \in 1..n - 1 : Append(front, e)[m] = front[m]
      BY <1>2, <2>2, <2>3, <3>1
    <3>3. n - 1 + 1 = n
      BY <1>2
    <3> QED BY <2>4, <3>1, <3>2, <3>3 DEF front
  <2> HIDE DEF n
  <2>6. \A m \in 1..n : new[m].n = out[m].n /\ (m = n \/ new[m] = out[m])
    <3>1. \A m \in 1..n : m = n \/ m \in 1..n - 1
      BY <1>2
    <3> QED BY <2>2, <2>3, <2>5, <3>1
  <2>7. \A m \in 1..Len(new) : \E j \in 1..i : ~Retraction(fs, j) /\ new[m].n = fs[j].n
    <3> SUFFICES ASSUME NEW m \in 1..n
                 PROVE  \E j \in 1..i : ~Retraction(fs, j) /\ new[m].n = fs[j].n
      BY <2>5
    <3>1. PICK j \in 1..i - 1 : ~Retraction(fs, j) /\ out[m].n = fs[j].n
      BY <1>2
    <3>2. j \in 1..i
      BY <1>1
    <3> QED BY <2>6, <3>1, <3>2
  <2>8. ASSUME NEW j \in 1..i, ~Retraction(fs, j) PROVE HasEntry(new, fs, i, j)
    <3>1. j \in 1..i - 1
      BY <1>3, <1>6, <2>8
    <3>2. PICK m \in 1..n :
             out[m].n = fs[j].n /\ (fs[j].kind = "text" => out[m].k = SaidBy(fs, i - 1, j))
      BY <1>2, <2>8, <3>1 DEF HasEntry, n
    <3>3. m \in 1..Len(new)
      BY <2>5
    <3>4. CASE j = i - 1
      <4>1. n \in 1..Len(new) /\ j < i /\ j + 1 = i
        BY <1>1, <1>2, <2>2, <2>5, <3>4
      <4>2. SaidBy(fs, i, j) = "reasoning"
        BY <1>6, <4>1 DEF SaidBy
      <4>3. new[n].n = fs[j].n /\ new[n].k = "reasoning"
        BY <2>3, <2>5, <3>4
      <4> QED BY <4>1, <4>2, <4>3 DEF HasEntry
    <3>5. CASE j # i - 1
      <4>1. j < i - 1 /\ j \in 1..N /\ j < i
        BY <1>1, <3>1, <3>5
      <4>2. SaidBy(fs, i, j) = SaidBy(fs, i - 1, j)
        BY <4>1 DEF SaidBy
      <4>3. fs[j].n < fs[i - 1].n
        BY <2>1, <4>1 DEF Orderly
      <4>4. m # n
        <5> SUFFICES ASSUME m = n PROVE FALSE
          OBVIOUS
        <5>1. out[m].n = fs[i - 1].n
          BY <2>2
        <5> QED BY <1>1, <2>1, <3>2, <4>1, <4>3, <5>1
      <4>5. new[m] = out[m]
        BY <2>6, <4>4
      <4> QED BY <3>2, <3>3, <4>2, <4>5 DEF HasEntry
    <3> QED BY <3>4, <3>5
  <2>9. \A l, m \in 1..Len(new) : l < m => new[l].n < new[m].n
    BY <1>2, <2>5, <2>6
  <2>10. fs[i].kind # "text"
    BY <1>6 DEF Retraction
  <2> QED BY <2>5, <2>7, <2>8, <2>9, <2>10 DEF EntriesUpTo, new
<1> QED BY <1>5, <1>6

LEMMA EntriesHold == Counted /\ held \subseteq Frame => EntriesFollow
<1> SUFFICES ASSUME Counted, held \subseteq Frame PROVE EntriesFollow
  OBVIOUS
<1> DEFINE fs == InOrder
           N == Cardinality(held)
           shown == entries
           Retracts(i) == i \in DOMAIN fs /\ fs[i].kind = "retract"
<1>1. /\ N \in Nat /\ DOMAIN fs = 1..N
      /\ \A i \in 1..N : fs[i] \in held
      /\ \A f \in held : \E i \in 1..N : f = fs[i]
      /\ \A i, j \in 1..N : i < j => fs[i].n < fs[j].n
  <2>1. DOMAIN InOrder = 1..N
    BY InOrderIs
  <2> QED BY <2>1, InOrderIs
<1> SUFFICES ASSUME \A i \in DOMAIN fs : Retracts(i) => i > 1 /\ fs[i - 1].kind = "text"
             PROVE  /\ {e.n : e \in Range(shown)} = {f.n : f \in {g \in held : g.kind # "retract"}}
                    /\ \A i, j \in DOMAIN shown : i < j => shown[i].n < shown[j].n
                    /\ \A i \in DOMAIN fs : fs[i].kind = "text" =>
                          \E e \in Range(shown) :
                              e.n = fs[i].n /\ e.k = (IF Retracts(i + 1) THEN "reasoning" ELSE "text")
  BY DEF EntriesFollow
<1> HIDE DEF N
<1>2. Orderly(fs, N)
  <2>1. fs = [i \in 1..N |-> fs[i]]
    BY <1>1 DEF InOrder, N
  <2>2. fs \in [1..N -> Frame]
    BY <1>1, <2>1
  <2>3. \A i \in 1..N : Retraction(fs, i) => i > 1 /\ fs[i - 1].kind = "text"
    BY <1>1 DEF Retraction
  <2> QED BY <1>1, <2>2, <2>3 DEF Orderly
<1>3. shown = FoldLeft(AddEntry, <<>>, fs)
  BY DEF entries
<1> HIDE DEF fs
<1>4. PICK h : /\ h[0] = <<>> /\ h[N] = FoldLeft(AddEntry, <<>>, fs)
               /\ \A i \in 1..N : h[i] = AddEntry(h[i - 1], fs[i])
  BY <1>1, EntriesStepByStep
<1> HIDE DEF shown
<1>5. EntriesUpTo(h[0], fs, 0)
  <2>1. <<>> \in Seq(Entry) /\ Len(<<>>) = 0 /\ 1..0 = {}
    OBVIOUS
  <2> QED BY <1>4, <2>1 DEF EntriesUpTo
<1>6. EntriesUpTo(h[N], fs, N)
  <2> DEFINE C == {i \in Nat : i =< N /\ ~EntriesUpTo(h[i], fs, i)}
  <2>1. C = {}
    <3> SUFFICES ASSUME C # {} PROVE FALSE
      OBVIOUS
    <3>1. PICK i \in C : \A j \in C : i =< j
      BY LeastNatural
    <3>2. i \in Nat /\ i =< N /\ ~EntriesUpTo(h[i], fs, i)
      OBVIOUS
    <3>3. i # 0
      BY <1>5, <3>2
    <3>4. i \in 1..N /\ i - 1 \in Nat /\ i - 1 =< N
      BY <1>1, <3>2, <3>3
    <3>5. ~(i =< i - 1)
      BY <3>2
    <3>6. i - 1 \notin C
      BY <3>1, <3>5
    <3>7. EntriesUpTo(h[i - 1], fs, i - 1)
      BY <3>4, <3>6
    <3> HIDE DEF C
    <3>8. EntriesUpTo(AddEntry(h[i - 1], fs[i]), fs, i)
      BY <1>2, <3>4, <3>7, AddEntryFollows
    <3> QED BY <1>4, <3>2, <3>4, <3>8
  <2> QED BY <1>1, <2>1
<1>7. EntriesUpTo(shown, fs, N)
  BY <1>3, <1>4, <1>6
<1>8. /\ shown \in Seq(Entry) /\ DOMAIN shown = 1..Len(shown)
      /\ \A m \in 1..Len(shown) : \E j \in 1..N : ~Retraction(fs, j) /\ shown[m].n = fs[j].n
      /\ \A j \in 1..N : ~Retraction(fs, j) => HasEntry(shown, fs, N, j)
      /\ \A l, m \in 1..Len(shown) : l < m => shown[l].n < shown[m].n
  <2>1. shown \in Seq(Entry)
    BY <1>7 DEF EntriesUpTo
  <2> QED BY <1>7, <2>1 DEF EntriesUpTo
<1>9. Range(shown) = {shown[m] : m \in 1..Len(shown)}
  BY <1>8 DEF Range
<1>10. {e.n : e \in Range(shown)} \subseteq {f.n : f \in {g \in held : g.kind # "retract"}}
  <2> SUFFICES ASSUME NEW e \in Range(shown) PROVE \E f \in held : f.kind # "retract" /\ e.n = f.n
    OBVIOUS
  <2>1. PICK m \in 1..Len(shown) : e = shown[m]
    BY <1>9
  <2>2. PICK j \in 1..N : ~Retraction(fs, j) /\ shown[m].n = fs[j].n
    BY <1>8
  <2> QED BY <1>1, <2>1, <2>2 DEF Retraction
<1>11. {f.n : f \in {g \in held : g.kind # "retract"}} \subseteq {e.n : e \in Range(shown)}
  <2> SUFFICES ASSUME NEW f \in held, f.kind # "retract" PROVE \E e \in Range(shown) : f.n = e.n
    OBVIOUS
  <2>1. PICK j \in 1..N : f = fs[j]
    BY <1>1
  <2>2. PICK m \in 1..Len(shown) : shown[m].n = fs[j].n
    BY <1>8, <2>1 DEF HasEntry, Retraction
  <2> QED BY <1>9, <2>1, <2>2
<1>12. ASSUME NEW j \in 1..N, fs[j].kind = "text"
       PROVE  \E e \in Range(shown) :
                 e.n = fs[j].n /\ e.k = (IF Retracts(j + 1) THEN "reasoning" ELSE "text")
  <2>1. PICK m \in 1..Len(shown) :
           shown[m].n = fs[j].n /\ (fs[j].kind = "text" => shown[m].k = SaidBy(fs, N, j))
    BY <1>8, <1>12 DEF HasEntry, Retraction
  <2>2. j + 1 \in 1..N <=> j < N
    BY <1>1
  <2>3. SaidBy(fs, N, j) = IF Retracts(j + 1) THEN "reasoning" ELSE "text"
    BY <1>1, <2>2 DEF SaidBy, Retraction
  <2> QED BY <1>9, <1>12, <2>1, <2>3
<1> QED BY <1>1, <1>8, <1>10, <1>11, <1>12

(* RunProjection: for a ring of any size and any pushes, polls, resumes and restarts, a
   window that has just polled shows the ring's prose as it stands, what it missed was
   reported to it, and each frame it holds has its entry, in order. *)
THEOREM WindowsAreCurrent == WatchSpec => []WindowIsCurrent
<1>1. Opens => FollowInv
  BY FollowStarts DEF Opens
<1>2. FollowInv /\ [Watches]_allVars => FollowInv'
  <2>1. [Watches]_allVars => [RingNext]_ringVars
    <3> SUFFICES ASSUME [Watches]_allVars, ~UNCHANGED ringVars PROVE RingNext
      OBVIOUS
    <3>1. CASE UNCHANGED allVars
      BY <3>1 DEF allVars
    <3>2. CASE Emit \/ Reopens
      BY <3>2 DEF Emit, Reopens, RingNext
    <3>4. CASE Idle
      BY <3>4 DEF Idle, PollRun, RingNext
    <3>5. CASE PollAfter
      BY <3>5 DEF PollAfter, PollRun, RingNext
    <3>6. CASE \E keys \in Bursts : Press(keys)
      BY <3>6 DEF Press
    <3>7. CASE Handle
      BY <3>7 DEF Handle
    <3>8. CASE Apply \/ Detach \/ AskResume \/ ResumeAnswered
      BY <3>8 DEF Apply, Detach, AskResume, ResumeAnswered
    <3>9. CASE Stops \/ Begins
      BY <3>9 DEF Stops, Begins
    <3> QED BY <3>1, <3>2, <3>4, <3>5, <3>6, <3>7, <3>8, <3>9 DEF Watches, Loop
  <2> QED BY <2>1, FollowStep
<1>3. FollowInv => WindowIsCurrent
  BY FollowedIsCaughtUp, EntriesHold DEF FollowInv, RingInv, RingTyped, WindowIsCurrent
<1> QED BY <1>1, <1>2, <1>3, PTL DEF WatchSpec
=============================================================================

----------------------------- MODULE SpawnTree ------------------------------
(***************************************************************************)
(* Delegation.  A step of a run may create a child run: `Engine::spawn`    *)
(* for a model that calls `run`, `Engine::condense_chunk` for content a    *)
(* tool fetched.  The child is driven to its outcome inside the parent's   *)
(* step, by the same thread, so the runs being driven form a stack; `pc`   *)
(* is the place of the topmost one.  A child is granted a part of its      *)
(* parent's budget, its spend is added to its parent's when it ends, and   *)
(* when a drive ends the children it left behind are settled by the        *)
(* orphan policy each was spawned with.  Only the journal survives a       *)
(* crash of the daemon.                                                    *)
(*                                                                         *)
(* Of a budget's six dimensions the model keeps tokens, subagents and      *)
(* depth; a stop on one of the others, on the step limit or on a           *)
(* compaction that does not fit is a nondeterministic stop.                *)
(***************************************************************************)
EXTENDS Integers, Sequences, FiniteSets

CONSTANTS
    Runs,          \* run ids
    Roots,         \* bound: the ids given to runs that clients start
    NoRun,         \* "no parent"
    Tools,         \* tool ids; "run" is the one that creates agents
    RootBudget,    \* Budget::interactive()
    MinCall,       \* budget.rs MIN_CALL_TOKENS
    MinChild,      \* budget.rs MIN_CHILD_TOKENS
    MaxPrompt,     \* bound: the longest prompt, counted as spend and capped by nothing
    Costs,         \* tokens one model call may report
    Requests,      \* spawn requests a model makes
    MaxCrashes     \* bound: crashes of the daemon process

Levels   == {"secretary", "manager", "soloist", "master", "worker", "reader"}
Policies == {"terminate", "detach"}
Floors   == {"clean", "tainted"}
Statuses == {"none", "running", "paused", "ended", "cancelled"}
Terminal == {"ended", "cancelled"}    \* "ended" is Completed and Failed
Resumable == {"running", "paused"}

Budget  == [tokens : Nat, agents : Nat, depth : Nat]
Profile == [level : Levels \cup {"none"}, tools : SUBSET Tools, orphan : Policies]
Request == [said : BOOLEAN, tools : SUBSET Tools, kind : {"work", "manage"},
            orphan : Policies, grant : Nat, role : {"worker", "other"}]
State   == [tokens : Nat, agents : Nat, floor : Floors, status : Statuses,
            parent : Runs \cup {NoRun}]

ASSUME RunsAssumption    == NoRun \notin Runs /\ Roots \subseteq Runs
ASSUME ToolsAssumption   == "run" \in Tools
ASSUME BudgetAssumption  == RootBudget \in Budget /\ RootBudget.tokens >= MinCall
                            /\ RootBudget.agents > 0
ASSUME FloorAssumption   == /\ MinCall \in Nat \ {0} /\ MinChild \in Nat
                            /\ MinCall <= MinChild
ASSUME BoundAssumption   == MaxPrompt \in Nat /\ Costs \subseteq Nat /\ MaxCrashes \in Nat
ASSUME RequestAssumption == Requests \subseteq Request

VARIABLES
    prof,      \* CapabilityProfile and OrphanPolicy of each run created
    budget,    \* Run.budget
    run,       \* Run of the runs being driven: spend, floor, status, parent
    stack,     \* the runs being driven, the outermost first
    pc,        \* the main thread
    children,  \* Engine.children: <<parent, child>> not yet settled
    cp,        \* journal: latest checkpoint of each run
    settled,   \* history: children the drive that spawned them has settled
    crashes

vars == <<prof, budget, run, stack, pc, children, cp, settled, crashes>>

Places == {"idle", "loop", "reply", "batch", "acted", "final", "settle"}
Top    == stack[Len(stack)]
Below  == stack[Len(stack) - 1]
NoBudget  == [tokens |-> 0, agents |-> 0, depth |-> 0]
NoProfile == [level |-> "none", tools |-> {}, orphan |-> "terminate"]
NoState   == [tokens |-> 0, agents |-> 0, floor |-> "clean", status |-> "none",
              parent |-> NoRun]
Fresh(r)  == prof[r].level = "none"

Init ==
    /\ prof = [r \in Runs |-> NoProfile] /\ budget = [r \in Runs |-> NoBudget]
    /\ run = [r \in Runs |-> NoState] /\ cp = [r \in Runs |-> NoState]
    /\ stack = <<>> /\ pc = "idle" /\ children = {} /\ settled = {} /\ crashes = 0

-----------------------------------------------------------------------------
(* Budgets *)

Larger(a, b)  == IF a > b THEN a ELSE b
Smaller(a, b) == IF a < b THEN a ELSE b

Remaining(r)       == Larger(budget[r].tokens - run[r].tokens, 0)
RemainingAgents(r) == Larger(budget[r].agents - run[r].agents, 0)

(* Neither exhausted nor too short for a call *)
HasRoom(r) == /\ run[r].tokens < budget[r].tokens /\ run[r].agents < budget[r].agents
              /\ Remaining(r) >= MinCall

(* A granted dimension is never zero while the parent still has some of it *)
AtLeastOne(sliced, remaining) == IF remaining = 0 THEN 0 ELSE Larger(sliced, 1)

Grantable(r, q) == /\ budget[r].depth > 0
                   /\ Remaining(r) > 0 /\ Remaining(r) >= MinChild
                   /\ q.grant = 0 \/ q.grant \in MinChild..Remaining(r)

(* Three eighths of the ORIGINAL tokens or the amount asked for, within what is left *)
Grant(r, q) ==
    [tokens |-> Larger(Smaller(IF q.grant = 0 THEN (budget[r].tokens * 3) \div 8 ELSE q.grant,
                               Remaining(r)), MinChild),
     agents |-> AtLeastOne(RemainingAgents(r) - 1, RemainingAgents(r)),
     depth  |-> budget[r].depth - 1]

(* A quarantined reader's slice: a quarter of the original, within what is left *)
ReaderSlice(r) ==
    [tokens |-> Larger(AtLeastOne(Smaller((budget[r].tokens * 2) \div 8, Remaining(r)),
                                  Remaining(r)), MinChild),
     agents |-> 1, depth |-> 0]

-----------------------------------------------------------------------------
(* Who may create what *)

(* AgentLevel::child_of; "none" is its refusal *)
ChildOf(level, kind) ==
    CASE level = "secretary" -> IF kind = "manage" THEN "manager" ELSE "soloist"
      [] level = "manager"   -> IF kind = "manage" THEN "master" ELSE "worker"
      [] level = "master" /\ kind = "work" -> "worker"
      [] OTHER -> "none"

(* CapabilityProfile::new at a level a model's spawn can give *)
ProfileAllowed(level, tools) ==
    /\ "run" \in tools => level \in {"secretary", "manager", "master"}
    /\ level = "master" => "ask" \notin tools

(* mutant: a tool set is not one of the fields layer 3 looks at *)
ComposesButTools(q) == \/ q.grant # 0 \/ q.orphan # "terminate"
                       \/ q.role # "worker" \/ q.kind # "work"

ComposesTargets(q) == \/ q.tools # {} \/ q.grant # 0 \/ q.orphan # "terminate"
                      \/ q.role # "worker" \/ q.kind # "work"

(* Every early return of Engine::spawn, in its order *)
Accepts(r, q) ==
    /\ "run" \in prof[r].tools
    /\ q.said
    /\ ~(run[r].floor = "tainted" /\ ComposesTargets(q))
    /\ Grantable(r, q)
    /\ run[r].agents < budget[r].agents
    /\ q.tools \subseteq prof[r].tools
    /\ ChildOf(prof[r].level, q.kind) # "none"
    /\ ProfileAllowed(ChildOf(prof[r].level, q.kind), q.tools)

-----------------------------------------------------------------------------
(* A drive begins *)

(* A client's message: a root run with the interactive budget and every tool *)
Ask(r) ==
    /\ pc = "idle" /\ r \in Roots /\ Fresh(r)
    /\ prof' = [prof EXCEPT ![r] = [level |-> "secretary", tools |-> Tools,
                                    orphan |-> "terminate"]]
    /\ budget' = [budget EXCEPT ![r] = RootBudget]
    /\ run' = [run EXCEPT ![r] = [NoState EXCEPT !.status = "running"]]
    /\ stack' = <<r>> /\ pc' = "loop"
    /\ UNCHANGED <<children, cp, settled, crashes>>

(* Any run whose latest checkpoint is not terminal, a child's too *)
Resume(r) ==
    /\ pc = "idle" /\ cp[r].status \in Resumable
    /\ run' = [run EXCEPT ![r] = [cp[r] EXCEPT !.status = "running"]]
    /\ stack' = <<r>> /\ pc' = "loop"
    /\ UNCHANGED <<prof, budget, children, cp, settled, crashes>>

-----------------------------------------------------------------------------
(* The topmost run's iteration *)

EndWith(status) ==
    /\ run' = [run EXCEPT ![Top].status = status] /\ pc' = "final"
    /\ UNCHANGED <<prof, budget, stack, children, cp, settled, crashes>>

Exhausted == pc = "loop" /\ ~HasRoom(Top) /\ EndWith("paused")

(* Another cap, the step limit, a failed call or compaction; a cancel sent to this run,
   which a quarantined reader cannot be sent *)
Stop ==
    /\ pc = "loop" /\ HasRoom(Top)
    /\ \E s \in {"paused", "ended", "cancelled"} :
          (s = "cancelled" => prof[Top].level # "reader") /\ EndWith(s)

(* A run after a call of n tokens whose view latched its floor at f *)
Charged(s, n, f) == [s EXCEPT !.tokens = @ + n, !.floor = f]

(* mutant: the provider is not told what remains *)
CallUncapped ==
    /\ pc = "loop" /\ HasRoom(Top)
    /\ \E n \in Costs, f \in Floors :
          /\ run[Top].floor = "tainted" \/ prof[Top].level = "reader" => f = "tainted"
          /\ run' = [run EXCEPT ![Top] = Charged(@, n, f)]
    /\ pc' = "reply"
    /\ UNCHANGED <<prof, budget, stack, children, cp, settled, crashes>>

(* The floor latches on what the view shows, then the call is spent.  The provider caps the
   output at what remains, and the prompt comes on top of it *)
Call ==
    /\ pc = "loop" /\ HasRoom(Top)
    /\ \E n \in Costs, f \in Floors :
          /\ n <= Remaining(Top) + MaxPrompt
          /\ run[Top].floor = "tainted" \/ prof[Top].level = "reader" => f = "tainted"
          /\ run' = [run EXCEPT ![Top] = Charged(@, n, f)]
    /\ pc' = "reply"
    /\ UNCHANGED <<prof, budget, stack, children, cp, settled, crashes>>

goOn == <<prof, budget, run, stack, children, cp, settled, crashes>>

(* An interruption, an empty reply, an unmet contract, an `ask` that is not the
   conversation's: back to the loop's top with no checkpoint *)
Again == pc = "reply" /\ pc' = "loop" /\ UNCHANGED goOn

(* A result, one reply too many that is none, or the conversation's own question *)
Finish ==
    /\ pc = "reply"
    /\ \E s \in {"ended", "paused"} :
          (s = "paused" => prof[Top].level = "secretary") /\ EndWith(s)

(* Tool calls, whose fetched content is condensed after them, or another step *)
Act ==
    /\ pc = "reply" /\ pc' \in {"batch", "acted"}
    /\ pc' = "batch" => prof[Top].tools # {}
    /\ UNCHANGED goOn

Refuse == /\ pc = "reply" /\ \E q \in Requests : ~Accepts(Top, q)
          /\ pc' = "acted" /\ UNCHANGED goOn

(* The child takes the stack's top: Run::child, which inherits the floor *)
Enter(c, profile, grant) ==
    /\ c \notin Roots /\ Fresh(c)
    /\ prof' = [prof EXCEPT ![c] = profile]
    /\ budget' = [budget EXCEPT ![c] = grant]
    /\ run' = [run EXCEPT ![c] = [tokens |-> 0, agents |-> 0, floor |-> run[Top].floor,
                                  status |-> "running", parent |-> Top]]
    /\ stack' = Append(stack, c) /\ pc' = "loop"
    /\ UNCHANGED <<cp, settled, crashes>>

Spawn(c) ==
    /\ pc = "reply"
    /\ \E q \in Requests :
          /\ Accepts(Top, q)
          /\ Enter(c, [level  |-> ChildOf(prof[Top].level, q.kind), tools |-> q.tools,
                       orphan |-> q.orphan], Grant(Top, q))
    /\ children' = children \cup {<<Top, c>>}

(* One chunk of fetched content, if anything is left to read it with *)
Read(c) ==
    /\ pc = "batch" /\ Remaining(Top) > 0 /\ Remaining(Top) >= MinChild
    /\ Enter(c, [level |-> "reader", tools |-> {}, orphan |-> "terminate"],
             ReaderSlice(Top))
    /\ UNCHANGED children

(* The step's checkpoint *)
Save ==
    /\ pc \in {"batch", "acted"} /\ pc' = "loop"
    /\ cp' = [cp EXCEPT ![Top] = run[Top]]
    /\ UNCHANGED <<prof, budget, run, stack, children, settled, crashes>>

-----------------------------------------------------------------------------
(* A drive ends *)

(* The drive's last checkpoint, whatever the outcome *)
Conclude ==
    /\ pc = "final" /\ pc' = "settle"
    /\ cp' = [cp EXCEPT ![Top] = run[Top]]
    /\ UNCHANGED <<prof, budget, run, stack, children, settled, crashes>>

(* mutant: only a run that never wrote a checkpoint is left alone *)
AmendedAlways(c) ==
    IF cp[c].status = "none" THEN cp[c]
    ELSE IF prof[c].orphan = "terminate" THEN [cp[c] EXCEPT !.status = "cancelled"]
    ELSE [cp[c] EXCEPT !.parent = NoRun]

(* mutant: a child that paused is taken for one that has ended *)
AmendedRunning(c) ==
    IF cp[c].status # "running" THEN cp[c]
    ELSE IF prof[c].orphan = "terminate" THEN [cp[c] EXCEPT !.status = "cancelled"]
    ELSE [cp[c] EXCEPT !.parent = NoRun]

(* settle_orphan: what the child's last checkpoint becomes *)
Amended(c) ==
    IF cp[c].status \in Terminal \cup {"none"} THEN cp[c]
    ELSE IF prof[c].orphan = "terminate" THEN [cp[c] EXCEPT !.status = "cancelled"]
    ELSE [cp[c] EXCEPT !.parent = NoRun]

Settle(c) ==
    /\ pc = "settle" /\ <<Top, c>> \in children
    /\ children' = children \ {<<Top, c>>}
    /\ cp' = [cp EXCEPT ![c] = Amended(c)]
    /\ settled' = settled \cup {c}
    /\ UNCHANGED <<prof, budget, run, stack, pc, crashes>>

(* A parent after its child: the child's spend is its own, and the child is one agent *)
RolledUp(s, child) == [s EXCEPT !.tokens = @ + child.tokens,
                                !.agents = @ + child.agents + 1]

(* Back to the turn, or into the parent's step *)
Return ==
    /\ pc = "settle" /\ \A c \in Runs : <<Top, c>> \notin children
    /\ stack' = SubSeq(stack, 1, Len(stack) - 1)
    /\ IF Len(stack) = 1
         THEN pc' = "idle" /\ run' = [run EXCEPT ![Top] = NoState]
         ELSE /\ pc' = (IF prof[Top].level = "reader" THEN "batch" ELSE "acted")
              /\ run' = [run EXCEPT ![Top] = NoState, ![Below] = RolledUp(@, run[Top])]
    /\ UNCHANGED <<prof, budget, children, cp, settled, crashes>>

(* The daemon process dies; Engine.children and every Run go with it *)
Crash ==
    /\ pc # "idle" /\ crashes < MaxCrashes /\ crashes' = crashes + 1
    /\ stack' = <<>> /\ pc' = "idle" /\ children' = {}
    /\ run' = [r \in Runs |-> NoState]
    /\ UNCHANGED <<prof, budget, cp, settled>>

Next ==
    \/ \E r \in Runs : Ask(r) \/ Resume(r) \/ Spawn(r) \/ Read(r) \/ Settle(r)
    \/ Exhausted \/ Stop \/ Call \/ Again \/ Finish \/ Act \/ Refuse
    \/ Save \/ Conclude \/ Return \/ Crash

Spec == Init /\ [][Next]_vars

-----------------------------------------------------------------------------
(* Properties *)

TypeOK ==
    /\ prof \in [Runs -> Profile] /\ budget \in [Runs -> Budget]
    /\ run \in [Runs -> State] /\ cp \in [Runs -> State]
    /\ stack \in Seq(Runs) /\ pc \in Places /\ (pc = "idle" <=> stack = <<>>)
    /\ children \subseteq Runs \X Runs /\ settled \subseteq Runs /\ crashes \in Nat

(* budget.rs: a cap stops a run before its line is crossed by more than the prompt of one
   call, however deep the runs below it go and whatever a crash makes it resume from:
   overshoots of the children do not add up in the parent. *)
SpendBounded ==
    \A r \in Runs : /\ run[r].tokens <= budget[r].tokens + MaxPrompt
                    /\ cp[r].tokens <= budget[r].tokens + MaxPrompt

(* Budget::grant and slice_for_quarantined_read: a child is never born exhausted in tokens
   or in subagents; its first iteration issues a call. *)
GrantBuysACall ==
    pc = "loop" /\ run[Top].tokens = 0 /\ run[Top].agents = 0 => HasRoom(Top)

(* Layer 3 at Engine::spawn: a run that has seen untrusted content can be driving at most
   one run, and that one holds no tool, `run` included. *)
TaintEndsDelegation ==
    \A i, j \in DOMAIN stack :
        i < j /\ run[stack[i]].floor = "tainted"
            => j = i + 1 /\ prof[stack[j]].tools = {}

Rank == [l \in Levels |-> CASE l = "secretary" -> 1
                            [] l \in {"manager", "soloist"} -> 2
                            [] l = "master" -> 3 [] l = "worker" -> 4
                            [] OTHER -> 5]

(* AgentLevel: a child is always of a lower level than every run it works for, so a tree is
   at most five deep whatever depth the budget was given, and holds no tool they do not. *)
LadderDescends ==
    \A i, j \in DOMAIN stack : i < j =>
        /\ Rank[prof[stack[i]].level] < Rank[prof[stack[j]].level]
        /\ prof[stack[j]].tools \subseteq prof[stack[i]].tools

(* A tree of runs is bounded in all three ways at once: no run passes its cap by more
   than a prompt, no child is created with nothing to spend, and levels descend. *)
DelegationBounded == SpendBounded /\ GrantBuysACall /\ LadderDescends

(* settle_children: once the drive that spawned a child has settled it, a child to be
   terminated can never be resumed, and one to be detached has no parent for good. *)
OrphansSettled ==
    \A c \in settled : cp[c].status \in Resumable =>
        prof[c].orphan = "detach" /\ cp[c].parent = NoRun

(* durable.rs: a run that finished stays as it finished; settling its parent's children
   does not rewrite its end. *)
FinishedStays ==
    [][\A r \in Runs : cp[r].status \in Terminal => cp'[r] = cp[r]]_vars
=============================================================================

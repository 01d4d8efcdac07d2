-------------------------- MODULE DurableRun_proofs --------------------------
(* Proofs about DurableRun, for every set of runs and every limit. *)
EXTENDS DurableRun, SequenceTheorems, TLAPS, SequenceTheorems

USE DEF Untrusted, Inferred, Observed, Asserted, Classes

(* Lowering a class gives a class. *)
LEMMA LowerType == ASSUME NEW a \in Classes, NEW b \in Classes
                   PROVE  Lower(a, b) \in Classes /\ Lower(a, b) <= a /\ Lower(a, b) <= b
BY DEF Lower

(* While a turn is under way the main thread drives a run. *)
DrivesARun == pc \in Driving => cur \in Runs

TypeInv == TypeOK /\ DrivesARun

LEMMA InitType == Init => TypeInv
BY RunsAssumption DEF Init, TypeInv, TypeOK, DrivesARun, Checkpoint, NoCheckpoint, Empty, Zero,
   RowWords, RunStatus, Driving

LEMMA TurnType == ASSUME TypeInv, Turn PROVE TypeInv'
<1> USE DEF TypeInv, TypeOK, DrivesARun, plane, loop, ghosts, Driving, RowWords, RunStatus
<1>1. CASE AcceptResumed BY <1>1 DEF AcceptResumed
<1>2. CASE Degrade BY <1>2 DEF Degrade, DropLocals
<1>3. CASE LoadFresh
  <2>1. window' \in Classes BY <1>3, ClassAssumption, LowerType DEF LoadFresh
  <2> QED BY <1>3, <2>1 DEF LoadFresh
<1>4. CASE LoadResumed
  <2>1. cp[cur] \in Checkpoint BY <1>4 DEF LoadResumed
  <2>2. /\ cp[cur].step \in Nat /\ cp[cur].spent \in Nat
        /\ cp[cur].floor \in Classes /\ cp[cur].window \in Classes
    BY <2>1 DEF Checkpoint
  <2>3. window' \in Classes BY <1>4, <2>2, ClassAssumption, LowerType DEF LoadResumed
  <2> QED BY <1>4, <2>2, <2>3 DEF LoadResumed
<1>5. CASE BudgetStop BY <1>5 DEF BudgetStop
<1>6. CASE StepStop BY <1>6 DEF StepStop
<1>7. CASE CancelStop BY <1>7 DEF CancelStop
<1>8. CASE Proceed BY <1>8 DEF Proceed
<1>9. CASE TakeSteer
  <2>1. CASE steers[cur] = <<>> BY <1>9, <2>1 DEF TakeSteer
  <2>2. CASE steers[cur] # <<>>
    <3>1. steers[cur] \in Seq(Nat) /\ heard[cur] \in Seq(Nat) BY <1>9 DEF TakeSteer
    <3>2. Head(steers[cur]) \in Nat /\ Tail(steers[cur]) \in Seq(Nat)
      BY <2>2, <3>1, HeadTailProperties
    <3>3. Append(heard[cur], Head(steers[cur])) \in Seq(Nat)
      BY <3>1, <3>2, AppendProperties
    <3> QED BY <1>9, <2>2, <3>2, <3>3 DEF TakeSteer
  <2> QED BY <2>1, <2>2
<1>10. CASE Compact BY <1>10, LowerType DEF Compact, Compacted
<1>11. CASE MaskToolResults BY <1>11 DEF MaskToolResults
<1>12. CASE IssueCall
  <2>1. floor' \in Classes BY <1>12, LowerType DEF IssueCall, Latched, ViewFloor
  <2> QED BY <1>12, <2>1 DEF IssueCall
<1>13. CASE Failover BY <1>13 DEF Failover
<1>14. CASE CallFails BY <1>14 DEF CallFails
<1>15. CASE EmptyReply BY <1>15, CostAssumption DEF EmptyReply, Spend, replyUnchanged
<1>16. CASE Say BY <1>16, CostAssumption, LowerType DEF Say, Spend, replyUnchanged
<1>17. CASE AskUser BY <1>17, CostAssumption DEF AskUser, Spend, replyUnchanged
<1>18. CASE Reply BY <1>18, CostAssumption DEF Reply, Spend, replyUnchanged
<1>19. CASE Act BY <1>19, CostAssumption, LowerType DEF Act, Spend, replyUnchanged
<1>20. CASE SaveIteration
  <2>1. Capture(steps) \in Checkpoint BY DEF Capture, Checkpoint
  <2>2. cp' \in [Runs -> Checkpoint]
    <3> HIDE DEF Checkpoint, Capture
    <3> QED BY <1>20, <2>1 DEF SaveIteration, AppendCheckpoint
  <2>3. StatusWord(status) \in RowWords BY DEF StatusWord
  <2>4. row' \in [Runs -> RowWords]
    <3> HIDE DEF RowWords
    <3> QED BY <1>20, <2>3 DEF SaveIteration, AppendCheckpoint
  <2>5. failures' \in Nat BY <1>20 DEF SaveIteration, AppendCheckpoint
  <2> QED BY <1>20, <2>2, <2>4, <2>5 DEF SaveIteration
<1>21. CASE SaveFinal
  <2>1. Capture(saved) \in Checkpoint BY DEF Capture, Checkpoint
  <2>2. cp' \in [Runs -> Checkpoint]
    <3> HIDE DEF Checkpoint, Capture
    <3> QED BY <1>21, <2>1 DEF SaveFinal, AppendCheckpoint
  <2>3. StatusWord(status) \in RowWords BY DEF StatusWord
  <2>4. row' \in [Runs -> RowWords]
    <3> HIDE DEF RowWords
    <3> QED BY <1>21, <2>3 DEF SaveFinal, AppendCheckpoint
  <2>5. failures' \in Nat BY <1>21 DEF SaveFinal, AppendCheckpoint
  <2> QED BY <1>21, <2>2, <2>4, <2>5 DEF SaveFinal
<1>22. CASE Mark BY <1>22 DEF Mark, DropLocals, OutcomeWord
<1> QED BY <1>1, <1>2, <1>3, <1>4, <1>5, <1>6, <1>7, <1>8, <1>9, <1>10, <1>11, <1>12,
           <1>13, <1>14, <1>15, <1>16, <1>17, <1>18, <1>19, <1>20, <1>21, <1>22 DEF Turn

LEMMA ClientType == ASSUME TypeInv, NEW r \in Runs, Ask(r) \/ Resume(r) \/ Steer(r) \/ Cancel(r)
                    PROVE  TypeInv'
<1> USE DEF TypeInv, TypeOK, DrivesARun, plane, loop, ghosts, Driving, RowWords, RunStatus
<1>1. CASE Ask(r) BY <1>1 DEF Ask
<1>2. CASE Resume(r) BY <1>2 DEF Resume
<1>3. CASE Steer(r)
  <2>1. steers[r] \in Seq(Nat) /\ accepted[r] \in Seq(Nat) /\ tickets + 1 \in Nat OBVIOUS
  <2>2. /\ Append(steers[r], tickets + 1) \in Seq(Nat)
        /\ Append(accepted[r], tickets + 1) \in Seq(Nat)
    BY <2>1, AppendProperties
  <2> QED BY <1>3, <2>1, <2>2 DEF Steer
<1>4. CASE Cancel(r) BY <1>4 DEF Cancel
<1> QED BY <1>1, <1>2, <1>3, <1>4

LEMMA ProcessType == ASSUME TypeInv, Crash \/ Shutdown \/ Restart PROVE TypeInv'
<1> USE DEF TypeInv, TypeOK, DrivesARun, plane, loop, ghosts, Driving, RowWords, RunStatus
<1>1. CASE Crash BY <1>1 DEF Crash, LoseMemory, DropLocals, Empty
<1>2. CASE Shutdown BY <1>2 DEF Shutdown, LoseMemory, DropLocals, Empty
<1>3. CASE Restart BY <1>3 DEF Restart
<1> QED BY <1>1, <1>2, <1>3

LEMMA StutterType == ASSUME TypeInv, UNCHANGED vars PROVE TypeInv'
BY DEF TypeInv, TypeOK, DrivesARun, vars, plane, loop, ghosts

LEMMA NextType == ASSUME TypeInv, [Next]_vars PROVE TypeInv'
BY TurnType, ClientType, ProcessType, StutterType DEF Next

(* The daemon's and the loop's variables keep their domains for ever. *)
THEOREM TypeCorrect == Spec => []TypeOK
<1>1. TypeInv => TypeOK BY DEF TypeInv
<1> QED BY InitType, NextType, <1>1, PTL DEF Spec

-----------------------------------------------------------------------------
(* No phantom live run: a row says "running" only for the run being driven. *)

Looping == {"boundary", "steer", "view", "call", "act", "save"}

LiveInv ==
    /\ pc \in Looping => status = "running"
    /\ pc \in {"final", "mark"} => status # "running"
    /\ \A r \in Runs : row[r] = "running" => pc \in Driving /\ cur = r

LEMMA TurnLive == ASSUME TypeInv, LiveInv, Turn PROVE LiveInv'
<1> USE DEF TypeInv, TypeOK, DrivesARun, LiveInv, Looping, plane, loop, ghosts, Driving
<1>1. CASE AcceptResumed BY <1>1 DEF AcceptResumed
<1>2. CASE Degrade BY <1>2 DEF Degrade, DropLocals
<1>3. CASE LoadFresh BY <1>3 DEF LoadFresh
<1>4. CASE LoadResumed BY <1>4 DEF LoadResumed
<1>5. CASE BudgetStop BY <1>5 DEF BudgetStop
<1>6. CASE StepStop BY <1>6 DEF StepStop
<1>7. CASE CancelStop BY <1>7 DEF CancelStop
<1>8. CASE Proceed BY <1>8 DEF Proceed
<1>9. CASE TakeSteer BY <1>9 DEF TakeSteer
<1>10. CASE Compact BY <1>10 DEF Compact
<1>11. CASE MaskToolResults BY <1>11 DEF MaskToolResults
<1>12. CASE IssueCall BY <1>12 DEF IssueCall
<1>13. CASE Failover BY <1>13 DEF Failover
<1>14. CASE CallFails BY <1>14 DEF CallFails
<1>15. CASE EmptyReply BY <1>15 DEF EmptyReply, replyUnchanged
<1>16. CASE Say BY <1>16 DEF Say, replyUnchanged
<1>17. CASE AskUser BY <1>17 DEF AskUser, replyUnchanged
<1>18. CASE Reply BY <1>18 DEF Reply, replyUnchanged
<1>19. CASE Act BY <1>19 DEF Act, replyUnchanged
<1>20. CASE SaveIteration BY <1>20 DEF SaveIteration, AppendCheckpoint
<1>21. CASE SaveFinal BY <1>21 DEF SaveFinal, AppendCheckpoint
<1>22. CASE Mark BY <1>22 DEF Mark, DropLocals, OutcomeWord
<1> QED BY <1>1, <1>2, <1>3, <1>4, <1>5, <1>6, <1>7, <1>8, <1>9, <1>10, <1>11, <1>12,
           <1>13, <1>14, <1>15, <1>16, <1>17, <1>18, <1>19, <1>20, <1>21, <1>22 DEF Turn

LEMMA NextLive == ASSUME TypeInv, LiveInv, [Next]_vars PROVE LiveInv'
<1> USE DEF TypeInv, TypeOK, DrivesARun, LiveInv, Looping, plane, loop, ghosts, Driving
<1>1. ASSUME NEW r \in Runs, Ask(r) PROVE LiveInv' BY <1>1 DEF Ask
<1>2. ASSUME NEW r \in Runs, Resume(r) PROVE LiveInv' BY <1>2 DEF Resume
<1>3. ASSUME NEW r \in Runs, Steer(r) PROVE LiveInv' BY <1>3 DEF Steer
<1>4. ASSUME NEW r \in Runs, Cancel(r) PROVE LiveInv' BY <1>4 DEF Cancel
<1>5. CASE Crash BY <1>5 DEF Crash, LoseMemory, DropLocals
<1>6. CASE Shutdown BY <1>6 DEF Shutdown, LoseMemory, DropLocals
<1>7. CASE Restart BY <1>7 DEF Restart
<1>8. CASE UNCHANGED vars BY <1>8 DEF vars
<1> QED BY TurnLive, <1>1, <1>2, <1>3, <1>4, <1>5, <1>6, <1>7, <1>8 DEF Next

(* Whatever the journal refuses and whatever the control thread writes to a row, with
   the main thread at rest no row says "running", so Shutdown is never refused for a
   run that nothing drives. *)
THEOREM ShutdownNeverStuck == Spec => []NoPhantomLiveRun
<1>1. Init => LiveInv BY DEF Init, LiveInv, Looping
<1>2. TypeInv /\ LiveInv => NoPhantomLiveRun
  BY DEF LiveInv, NoPhantomLiveRun, Driving
<1> QED BY InitType, NextType, NextLive, <1>1, <1>2, PTL DEF Spec

-----------------------------------------------------------------------------
(* Finished runs: with a journal that refuses nothing, the last checkpoint of a
   reported outcome is terminal, and no turn is entered over a terminal one. *)

FinishedInv ==
    /\ \A r \in done : cp[r].status \in Terminal
    /\ \A r \in Runs \ started : cp[r].status = "none" /\ r \notin done
    /\ pc \in Driving => cur \in started /\ cur \notin done
    /\ pc \in Driving \ {"mark"} => cp[cur].status \notin Terminal
    /\ pc = "mark" => cp[cur].status = status

LEMMA TurnFinished ==
    ASSUME TypeInv, LiveInv, FinishedInv, Turn, MaxAppendFailures = 0 PROVE FinishedInv'
<1> USE DEF TypeInv, TypeOK, DrivesARun, LiveInv, FinishedInv, Looping, plane, loop, ghosts,
        Driving, Terminal
<1>1. CASE AcceptResumed BY <1>1 DEF AcceptResumed
<1>2. CASE Degrade BY <1>2 DEF Degrade, DropLocals
<1>3. CASE LoadFresh BY <1>3 DEF LoadFresh
<1>4. CASE LoadResumed BY <1>4 DEF LoadResumed
<1>5. CASE BudgetStop BY <1>5 DEF BudgetStop
<1>6. CASE StepStop BY <1>6 DEF StepStop
<1>7. CASE CancelStop BY <1>7 DEF CancelStop
<1>8. CASE Proceed BY <1>8 DEF Proceed
<1>9. CASE TakeSteer BY <1>9 DEF TakeSteer
<1>10. CASE Compact BY <1>10 DEF Compact
<1>11. CASE MaskToolResults BY <1>11 DEF MaskToolResults
<1>12. CASE IssueCall BY <1>12 DEF IssueCall
<1>13. CASE Failover BY <1>13 DEF Failover
<1>14. CASE CallFails BY <1>14 DEF CallFails
<1>15. CASE EmptyReply BY <1>15 DEF EmptyReply, replyUnchanged
<1>16. CASE Say BY <1>16 DEF Say, replyUnchanged
<1>17. CASE AskUser BY <1>17 DEF AskUser, replyUnchanged
<1>18. CASE Reply BY <1>18 DEF Reply, replyUnchanged
<1>19. CASE Act BY <1>19 DEF Act, replyUnchanged
<1>20. CASE SaveIteration
  <2>1. cp' = [cp EXCEPT ![cur] = Capture(steps)]
    BY <1>20 DEF SaveIteration, AppendCheckpoint
  <2>2. Capture(steps).status = "running" BY <1>20 DEF SaveIteration, Capture
  <2> QED BY <1>20, <2>1, <2>2 DEF SaveIteration
<1>21. CASE SaveFinal
  <2>1. cp' = [cp EXCEPT ![cur] = Capture(saved)]
    BY <1>21 DEF SaveFinal, AppendCheckpoint
  <2>2. Capture(saved).status = status BY DEF Capture
  <2> QED BY <1>21, <2>1, <2>2 DEF SaveFinal
<1>22. CASE Mark BY <1>22 DEF Mark, DropLocals
<1> QED BY <1>1, <1>2, <1>3, <1>4, <1>5, <1>6, <1>7, <1>8, <1>9, <1>10, <1>11, <1>12,
           <1>13, <1>14, <1>15, <1>16, <1>17, <1>18, <1>19, <1>20, <1>21, <1>22 DEF Turn

LEMMA NextFinished ==
    ASSUME TypeInv, LiveInv, FinishedInv, [Next]_vars, MaxAppendFailures = 0 PROVE FinishedInv'
<1> USE DEF TypeInv, TypeOK, DrivesARun, FinishedInv, plane, loop, ghosts, Driving, Terminal
<1>1. ASSUME NEW r \in Runs, Ask(r) PROVE FinishedInv' BY <1>1 DEF Ask
<1>2. ASSUME NEW r \in Runs, Resume(r) PROVE FinishedInv' BY <1>2 DEF Resume, Resumable
<1>3. ASSUME NEW r \in Runs, Steer(r) PROVE FinishedInv' BY <1>3 DEF Steer
<1>4. ASSUME NEW r \in Runs, Cancel(r) PROVE FinishedInv' BY <1>4 DEF Cancel
<1>5. CASE Crash BY <1>5 DEF Crash, LoseMemory, DropLocals
<1>6. CASE Shutdown BY <1>6 DEF Shutdown, LoseMemory, DropLocals
<1>7. CASE Restart BY <1>7 DEF Restart
<1>8. CASE UNCHANGED vars BY <1>8 DEF vars
<1> QED BY TurnFinished, <1>1, <1>2, <1>3, <1>4, <1>5, <1>6, <1>7, <1>8 DEF Next

(* If the journal refuses no checkpoint, a run whose outcome was reported as finished
   is never driven again, through any crashes, shutdowns and resumes. *)
THEOREM FinishedRunsStayFinished ==
    ASSUME MaxAppendFailures = 0 PROVE Spec => []FinishedNeverRedriven
<1>1. Init => LiveInv BY DEF Init, LiveInv, Looping
<1>2. Init => FinishedInv BY DEF Init, FinishedInv, NoCheckpoint, Driving, Terminal
<1>3. FinishedInv => FinishedNeverRedriven BY DEF FinishedInv, FinishedNeverRedriven
<1>4. TypeInv /\ LiveInv /\ FinishedInv /\ [Next]_vars => FinishedInv' BY NextFinished
<1> QED BY InitType, NextType, NextLive, <1>1, <1>2, <1>3, <1>4, PTL DEF Spec

-----------------------------------------------------------------------------
(* The trust floor: what a run was ever shown is in its checkpoint, or in memory. *)

Loaded == Looping \cup {"final", "mark"}

(* untrusted content has reached the floor, or is still in the window for the next
   call to latch *)
Carries(f, w) == f = Untrusted \/ w = Untrusted

BlockInv ==
    /\ \A r \in Runs \ started : cp[r].status = "none" /\ r \notin exposed
    /\ pc = "select" /\ entry = "message" => cp[cur].status = "none" /\ cur \notin exposed
    /\ pc \in Driving => cur \in started
    /\ pc \in Driving /\ entry = "checkpoint" => cp[cur].status # "none"
    /\ pc = "staged" => entry = "checkpoint"
    \* durable: every checkpoint of an exposed run carries it
    /\ \A r \in exposed : cp[r].status # "none" => Carries(cp[r].floor, cp[r].window)
    \* durable before it is shown: a step's blocks are saved before the next call
    /\ pc \in Looping \ {"save"} /\ window = Untrusted /\ cp[cur].status # "none"
         => Carries(cp[cur].floor, cp[cur].window)
    \* in memory
    /\ pc \in Loaded /\ cur \in exposed => Carries(floor, window)
    /\ pc \in {"call", "act"} /\ cur \in exposed => floor = Untrusted
    \* the conversation's window
    /\ exposure = "tainted" =>
         IF pc \in Loaded /\ entry = "message" THEN window = Untrusted ELSE sess = Untrusted
    /\ pc \in {"call", "act"} /\ entry = "message" /\ exposure = "tainted" => floor = Untrusted

LEMMA LowerKeeps == ASSUME NEW a \in Classes, NEW b \in Classes
                    PROVE  Lower(a, b) = Untrusted <=> a = Untrusted \/ b = Untrusted
BY DEF Lower

LEMMA TurnBlock ==
    ASSUME TypeInv, BlockInv, Turn, MaxAppendFailures = 0, Untrusted \notin EmptyQueryClasses
    PROVE  BlockInv'
<1> USE DEF TypeInv, TypeOK, DrivesARun, BlockInv, Loaded, Looping, Carries, plane, loop, ghosts,
        Driving
<1>1. CASE AcceptResumed BY <1>1 DEF AcceptResumed
<1>2. CASE Degrade BY <1>2 DEF Degrade, DropLocals
<1>3. CASE LoadFresh BY <1>3, LowerKeeps, ClassAssumption DEF LoadFresh
<1>4. CASE LoadResumed
  <2>1. cp[cur] \in Checkpoint BY <1>4 DEF LoadResumed
  <2>2. cp[cur].window \in Classes BY <2>1 DEF Checkpoint
  <2>3. window' = Untrusted <=> cp[cur].window = Untrusted
    <3>1. CASE cp[cur].step > 0 BY <1>4, <3>1 DEF LoadResumed
    <3>2. CASE ~(cp[cur].step > 0)
      <4>1. PICK c \in EmptyQueryClasses : window' = Lower(cp[cur].window, c)
        BY <1>4, <3>2 DEF LoadResumed
      <4>2. c \in Classes /\ c # Untrusted BY ClassAssumption
      <4> QED BY <2>2, <4>1, <4>2, LowerKeeps
    <3> QED BY <3>1, <3>2
  <2> QED BY <1>4, <2>3 DEF LoadResumed
<1>5. CASE BudgetStop BY <1>5 DEF BudgetStop
<1>6. CASE StepStop BY <1>6 DEF StepStop
<1>7. CASE CancelStop BY <1>7 DEF CancelStop
<1>8. CASE Proceed BY <1>8 DEF Proceed
<1>9. CASE TakeSteer BY <1>9 DEF TakeSteer
<1>10. CASE Compact BY <1>10, LowerKeeps DEF Compact, Compacted
<1>11. CASE MaskToolResults BY <1>11 DEF MaskToolResults
<1>12. CASE IssueCall
  <2>1. ViewFloor = Untrusted <=> window = Untrusted BY LowerKeeps DEF ViewFloor
  <2>2. ViewFloor \in Classes BY LowerType DEF ViewFloor
  <2>3. floor' = Untrusted <=> floor = Untrusted \/ window = Untrusted
    BY <1>12, <2>1, <2>2, LowerKeeps DEF IssueCall, Latched
  <2> QED BY <1>12, <2>1, <2>3 DEF IssueCall
<1>13. CASE Failover BY <1>13 DEF Failover
<1>14. CASE CallFails BY <1>14 DEF CallFails
<1>15. CASE EmptyReply BY <1>15 DEF EmptyReply, replyUnchanged
<1>16. CASE Say BY <1>16, LowerKeeps DEF Say, replyUnchanged
<1>17. CASE AskUser BY <1>17 DEF AskUser, replyUnchanged
<1>18. CASE Reply BY <1>18 DEF Reply, replyUnchanged
<1>19. CASE Act BY <1>19, LowerKeeps DEF Act, replyUnchanged
<1>20. CASE SaveIteration
  <2>1. cp' = [cp EXCEPT ![cur] = Capture(steps)]
    BY <1>20 DEF SaveIteration, AppendCheckpoint
  <2>2. /\ Capture(steps).floor = floor /\ Capture(steps).window = window
        /\ Capture(steps).status # "none"
    BY DEF Capture, RunStatus
  <2> QED BY <1>20, <2>1, <2>2 DEF SaveIteration
<1>21. CASE SaveFinal
  <2>1. cp' = [cp EXCEPT ![cur] = Capture(saved)]
    BY <1>21 DEF SaveFinal, AppendCheckpoint
  <2>2. /\ Capture(saved).floor = floor /\ Capture(saved).window = window
        /\ Capture(saved).status # "none"
    BY DEF Capture, RunStatus
  <2> QED BY <1>21, <2>1, <2>2 DEF SaveFinal
<1>22. CASE Mark BY <1>22 DEF Mark, DropLocals
<1> QED BY <1>1, <1>2, <1>3, <1>4, <1>5, <1>6, <1>7, <1>8, <1>9, <1>10, <1>11, <1>12,
           <1>13, <1>14, <1>15, <1>16, <1>17, <1>18, <1>19, <1>20, <1>21, <1>22 DEF Turn

LEMMA NextBlock ==
    ASSUME TypeInv, BlockInv, [Next]_vars, MaxAppendFailures = 0,
           Untrusted \notin EmptyQueryClasses
    PROVE  BlockInv'
<1> USE DEF TypeInv, TypeOK, DrivesARun, BlockInv, Loaded, Looping, Carries, plane, loop, ghosts,
        Driving
<1>1. ASSUME NEW r \in Runs, Ask(r) PROVE BlockInv' BY <1>1 DEF Ask
<1>2. ASSUME NEW r \in Runs, Resume(r) PROVE BlockInv' BY <1>2 DEF Resume, Resumable
<1>3. ASSUME NEW r \in Runs, Steer(r) PROVE BlockInv' BY <1>3 DEF Steer
<1>4. ASSUME NEW r \in Runs, Cancel(r) PROVE BlockInv' BY <1>4 DEF Cancel
<1>5. CASE Crash BY <1>5 DEF Crash, LoseMemory, DropLocals
<1>6. CASE Shutdown BY <1>6 DEF Shutdown, LoseMemory, DropLocals
<1>7. CASE Restart BY <1>7 DEF Restart
<1>8. CASE UNCHANGED vars BY <1>8 DEF vars
<1> QED BY TurnBlock, <1>1, <1>2, <1>3, <1>4, <1>5, <1>6, <1>7, <1>8 DEF Next

(* If the journal refuses no checkpoint and a retrieval asked with no message injects
   nothing untrusted, a run that any call of its life showed untrusted content, or a
   run over a conversation that received some, acts only under the untrusted floor. *)
THEOREM FloorSurvivesTheDaemon ==
    ASSUME MaxAppendFailures = 0, Untrusted \notin EmptyQueryClasses
    PROVE  Spec => []BlockedStaysBlocked
<1>1. Init => BlockInv BY DEF Init, BlockInv, NoCheckpoint, Driving, Loaded, Looping
<1>2. BlockInv => BlockedStaysBlocked BY DEF BlockInv, BlockedStaysBlocked
<1>3. TypeInv /\ BlockInv /\ [Next]_vars => BlockInv' BY NextBlock
<1> QED BY InitType, NextType, <1>1, <1>2, <1>3, PTL DEF Spec

-----------------------------------------------------------------------------
(* The steer queues *)

(* Moving the head of a queue to the end of what was heard changes nothing of the two
   together, and neither order of appending does. *)
LEMMA QueueMoves ==
    ASSUME NEW h \in Seq(Nat), NEW q \in Seq(Nat)
    PROVE  /\ q # <<>> => Append(h, Head(q)) \o Tail(q) = h \o q
           /\ \A t \in Nat : h \o Append(q, t) = Append(h \o q, t)
<1>1. ASSUME q # <<>> PROVE Append(h, Head(q)) \o Tail(q) = h \o q
  <2>1. Head(q) \in Nat /\ Tail(q) \in Seq(Nat) /\ <<Head(q)>> \in Seq(Nat)
    BY <1>1
  <2>2. <<Head(q)>> \o Tail(q) = q
    BY <1>1
  <2>3. Append(h, Head(q)) = h \o <<Head(q)>>
    BY <2>1, AppendIsConcat
  <2>4. \A a, b \in Seq(Nat) : (h \o a) \o b = h \o (a \o b)
    BY ConcatAssociative
  <2> QED BY <2>1, <2>2, <2>3, <2>4
<1>2. ASSUME NEW t \in Nat PROVE h \o Append(q, t) = Append(h \o q, t)
  <2>1. <<t>> \in Seq(Nat) /\ h \o q \in Seq(Nat)
    OBVIOUS
  <2>2. Append(q, t) = q \o <<t>> /\ Append(h \o q, t) = (h \o q) \o <<t>>
    BY <2>1, AppendIsConcat
  <2>3. (h \o q) \o <<t>> = h \o (q \o <<t>>)
    BY <2>1, ConcatAssociative
  <2> QED BY <2>2, <2>3
<1> QED BY <1>1, <1>2

LEMMA NextSteers ==
    ASSUME TypeInv, SteersRoutedOnce, [Next]_vars PROVE SteersRoutedOnce'
<1> USE DEF SteersRoutedOnce, plane, loop, ghosts
<1>0. /\ steers \in [Runs -> Seq(Nat)] /\ heard \in [Runs -> Seq(Nat)]
      /\ accepted \in [Runs -> Seq(Nat)] /\ tickets \in Nat
  BY DEF TypeInv, TypeOK
<1>1. ASSUME NEW r \in Runs, Ask(r) PROVE SteersRoutedOnce' BY <1>1 DEF Ask
<1>2. ASSUME NEW r \in Runs, Resume(r) PROVE SteersRoutedOnce' BY <1>2 DEF Resume
<1>3. ASSUME NEW r \in Runs, Steer(r) PROVE SteersRoutedOnce'
  <2>1. heard[r] \in Seq(Nat) /\ steers[r] \in Seq(Nat)
    BY <1>0
  <2>2. \A t \in Nat : heard[r] \o Append(steers[r], t) = Append(heard[r] \o steers[r], t)
    BY ONLY <2>1, QueueMoves, Zenon
  <2>3. tickets + 1 \in Nat
    BY <1>0
  <2>4. heard[r] \o Append(steers[r], tickets + 1) = Append(heard[r] \o steers[r], tickets + 1)
    BY ONLY <2>2, <2>3, Zenon
  <2> QED BY <1>0, <1>3, <2>4 DEF Steer
<1>4. ASSUME NEW r \in Runs, Cancel(r) PROVE SteersRoutedOnce' BY <1>4 DEF Cancel
<1>5. CASE TakeSteer
  <2>1. CASE steers[cur] = <<>> BY <1>5, <2>1 DEF TakeSteer
  <2>2. CASE steers[cur] # <<>>
    <3>1. cur \in Runs BY <1>5 DEF TypeInv, DrivesARun, TakeSteer, Driving
    <3>0. heard[cur] \in Seq(Nat) /\ steers[cur] \in Seq(Nat)
      BY <1>0, <3>1
    <3>2. Append(heard[cur], Head(steers[cur])) \o Tail(steers[cur]) = heard[cur] \o steers[cur]
      BY ONLY <2>2, <3>0, QueueMoves, Zenon
    <3>3. /\ steers' = [steers EXCEPT ![cur] = Tail(@)]
          /\ heard' = [heard EXCEPT ![cur] = Append(@, Head(steers[cur]))]
          /\ accepted' = accepted
      BY <1>5, <2>2 DEF TakeSteer
    <3> QED BY <1>0, <3>1, <3>2, <3>3
  <2> QED BY <2>1, <2>2
<1>6. CASE Turn /\ ~TakeSteer
  <2>1. UNCHANGED <<steers, heard, accepted>>
    BY <1>6 DEF Turn, AcceptResumed, Degrade, LoadFresh, LoadResumed, BudgetStop, StepStop,
       CancelStop, Proceed, Compact, MaskToolResults, IssueCall, Failover, CallFails,
       EmptyReply, Say, AskUser, Reply, Act, SaveIteration, SaveFinal, Mark, replyUnchanged
  <2> QED BY <2>1
<1>7. CASE LoseMemory
  <2>1. steers' = Empty /\ heard' = Empty /\ accepted' = Empty BY <1>7 DEF LoseMemory
  <2> QED BY <2>1 DEF Empty
<1>8. CASE Restart BY <1>8 DEF Restart
<1>9. CASE UNCHANGED vars BY <1>9 DEF vars
<1> QED
  BY <1>1, <1>2, <1>3, <1>4, <1>5, <1>6, <1>7, <1>8, <1>9 DEF Next, Crash, Shutdown

(* For any number of runs and steers, each steer accepted in a daemon's life waits in
   the queue of the run it named or was heard by it, once and in order: `take_steer`
   never hands one run another's words. *)
THEOREM SteersReachTheirRun == Spec => []SteersRoutedOnce
<1>1. Init => SteersRoutedOnce BY DEF Init, SteersRoutedOnce, Empty
<1>2. TypeInv /\ SteersRoutedOnce /\ [Next]_vars => SteersRoutedOnce' BY NextSteers
<1> QED BY InitType, NextType, <1>1, <1>2, PTL DEF Spec

-----------------------------------------------------------------------------
(* A run that is cut short stops in time and has its calls on its account. *)

(* A call made after the cancel is the one in flight: the next boundary stops the run *)
PromptInv ==
    /\ late \in {0, 1}
    /\ late = 1 => cur \in cancelled
    /\ pc \in {"idle", "down", "staged", "select", "steer", "view"} => late = 0

LEMMA NextPrompt == ASSUME TypeInv, PromptInv, [Next]_vars PROVE PromptInv'
<1> USE DEF TypeInv, TypeOK, DrivesARun, PromptInv, plane, loop, ghosts, Driving
<1>1. ASSUME NEW r \in Runs, Ask(r) PROVE PromptInv' BY <1>1 DEF Ask
<1>2. ASSUME NEW r \in Runs, Resume(r) PROVE PromptInv' BY <1>2 DEF Resume
<1>3. ASSUME NEW r \in Runs, Steer(r) PROVE PromptInv' BY <1>3 DEF Steer
<1>4. ASSUME NEW r \in Runs, Cancel(r) PROVE PromptInv' BY <1>4 DEF Cancel
<1>5. CASE Crash BY <1>5 DEF Crash, LoseMemory, DropLocals
<1>6. CASE Shutdown BY <1>6 DEF Shutdown, LoseMemory, DropLocals
<1>7. CASE Restart BY <1>7 DEF Restart
<1>8. CASE UNCHANGED vars BY <1>8 DEF vars
<1>9. CASE AcceptResumed \/ Degrade \/ LoadFresh \/ LoadResumed \/ Mark
  BY <1>9 DEF AcceptResumed, Degrade, LoadFresh, LoadResumed, Mark, DropLocals
<1>10. CASE BudgetStop \/ StepStop \/ CancelStop \/ Proceed \/ TakeSteer \/ Compact
            \/ MaskToolResults
  BY <1>10 DEF BudgetStop, StepStop, CancelStop, Proceed, TakeSteer, Compact, MaskToolResults
<1>11. CASE IssueCall BY <1>11 DEF IssueCall
<1>12. CASE Failover \/ CallFails \/ EmptyReply \/ Say \/ AskUser \/ Reply \/ Act
            \/ SaveIteration \/ SaveFinal
  BY <1>12 DEF Failover, CallFails, EmptyReply, Say, AskUser, Reply, Act, SaveIteration,
     SaveFinal, replyUnchanged
<1> QED BY <1>1, <1>2, <1>3, <1>4, <1>5, <1>6, <1>7, <1>8, <1>9, <1>10, <1>11, <1>12
        DEF Next, Turn

(* The dearest call, the dearest step of children, and what is lost at most at a time *)
CallMax == MaxOf(CallCosts)
ChildMax == MaxOf(ChildCosts)
Chain(n) == n * CallMax
Lost(n) == n * Unsaved

LEMMA CostsHaveMaxima ==
    /\ CallMax \in Nat /\ \A n \in CallCosts : n <= CallMax
    /\ ChildMax \in Nat /\ \A n \in ChildCosts : n <= ChildMax
<1>1. ASSUME NEW S \in {CallCosts, ChildCosts}
      PROVE  MaxOf(S) \in S /\ \A n \in S : n <= MaxOf(S)
  BY BoundAssumption DEF MaxOf
<1> QED BY <1>1, CostAssumption DEF CallMax, ChildMax

LEMMA TimesArithmetic ==
    ASSUME NEW u \in Nat
    PROVE  /\ 0 * u = 0
           /\ \A n \in Nat : n * u \in Nat /\ (n + 1) * u = n * u + u
           /\ \A m, n \in Nat : m <= n => m * u <= n * u
OBVIOUS

LEMMA Sums ==
    /\ Unsaved \in Nat /\ Unsaved = Chain(MaxAuto + 1) + ChildMax
    /\ Chain(0) = 0 /\ Lost(0) = 0
    /\ \A n \in Nat : /\ Chain(n) \in Nat /\ Chain(n + 1) = Chain(n) + CallMax
                      /\ Lost(n) \in Nat /\ Lost(n + 1) = Lost(n) + Unsaved
    /\ \A n \in Nat : n <= MaxAuto => Chain(n + 1) <= Chain(MaxAuto + 1)
<1>1. /\ Chain(0) = 0
      /\ \A n \in Nat : Chain(n) \in Nat /\ Chain(n + 1) = Chain(n) + CallMax
      /\ \A m, n \in Nat : m <= n => Chain(m) <= Chain(n)
  <2>1. CallMax \in Nat BY CostsHaveMaxima
  <2>2. /\ 0 * CallMax = 0
        /\ \A n \in Nat : n * CallMax \in Nat /\ (n + 1) * CallMax = n * CallMax + CallMax
        /\ \A m, n \in Nat : m <= n => m * CallMax <= n * CallMax
    BY ONLY <2>1, TimesArithmetic, Zenon
  <2> QED BY ONLY <2>2, Zenon DEF Chain
<1>2. Unsaved \in Nat /\ Unsaved = Chain(MaxAuto + 1) + ChildMax
  <2>1. Unsaved = Chain(MaxAuto + 1) + ChildMax
    BY Zenon DEF Unsaved, Chain, CallMax, ChildMax
  <2>2. MaxAuto + 1 \in Nat BY LimitAssumption
  <2>3. Chain(MaxAuto + 1) \in Nat BY ONLY <1>1, <2>2, Zenon
  <2> QED BY ONLY <2>1, <2>3, CostsHaveMaxima
<1>3. Lost(0) = 0 /\ \A n \in Nat : Lost(n) \in Nat /\ Lost(n + 1) = Lost(n) + Unsaved
  <2>1. /\ 0 * Unsaved = 0
        /\ \A n \in Nat : n * Unsaved \in Nat /\ (n + 1) * Unsaved = n * Unsaved + Unsaved
    BY ONLY <1>2, TimesArithmetic, Zenon
  <2> QED BY ONLY <2>1, Zenon DEF Lost
<1>4. ASSUME NEW n \in Nat, n <= MaxAuto PROVE Chain(n + 1) <= Chain(MaxAuto + 1)
  BY <1>1, <1>4, LimitAssumption
<1> QED BY <1>1, <1>2, <1>3, <1>4

(* What a run may have used since its last checkpoint was attempted: the chain of
   auto-continued calls, then the call that acted, then what its children used *)
Since(p, a) ==
    CASE p \in {"boundary", "steer", "view", "call"} -> Chain(a)
      [] p = "act" -> Chain(MaxAuto + 1)
      [] p \in {"save", "final"} -> Unsaved
      [] OTHER -> 0
Unsafe(r, c, p, a) == IF c = r /\ p \in Driving THEN Since(p, a) ELSE 0
Losses == Lost(crashes + failures)

SpendPlace ==
    /\ auto <= MaxAuto /\ (pc \in {"act", "save"} => auto = 0)
    /\ \A r \in Runs \ started : cp[r] = NoCheckpoint /\ real[r] = 0
    /\ pc \in Driving => cur \in started
    /\ pc = "staged" => entry = "checkpoint"
    /\ pc = "select" /\ entry = "message" => cp[cur] = NoCheckpoint
Owed ==
    \A r \in Metered : real[r] <= cp[r].spent + Losses + Unsafe(r, cur, pc, auto)
Paid == pc \in Loaded /\ cur \in Metered => real[cur] <= spent + Losses
SpendInv == SpendPlace /\ Owed /\ Paid

LEMMA SpendStart == Init => SpendInv
BY LimitAssumption, Sums, RunsAssumption
   DEF Init, SpendInv, SpendPlace, Owed, Paid, Driving, Loaded, Looping, Zero, NoCheckpoint, Unsafe, Losses

(* What the sums are made of is a number, wherever the run is *)
LEMMA SinceNat ==
    ASSUME NEW p, NEW a \in Nat, a <= MaxAuto
    PROVE  Since(p, a) \in Nat /\ Since(p, a) <= Unsaved
<1>1. Chain(a) \in Nat /\ Chain(a) <= Chain(a + 1) /\ Chain(a + 1) \in Nat
  <2>1. Chain(a) \in Nat /\ Chain(a + 1) = Chain(a) + CallMax BY Sums, Zenon
  <2> QED BY ONLY <2>1, CostsHaveMaxima
<1>2. Chain(a + 1) <= Chain(MaxAuto + 1) BY Sums, Zenon
<1>3. Chain(MaxAuto + 1) \in Nat
  <2>1. MaxAuto + 1 \in Nat BY LimitAssumption
  <2> QED BY ONLY <2>1, Sums, Zenon
<1>4. Unsaved = Chain(MaxAuto + 1) + ChildMax /\ ChildMax \in Nat /\ Unsaved \in Nat
  BY Sums, CostsHaveMaxima, Zenon
<1>5. Chain(a) <= Unsaved /\ Chain(MaxAuto + 1) <= Unsaved BY ONLY <1>1, <1>2, <1>3, <1>4
<1> QED BY <1>1, <1>3, <1>4, <1>5 DEF Since

(* A step that neither spends nor checkpoints, and moves the run to a place that may owe
   as much *)
LEMMA QuietSpend ==
    ASSUME TypeInv, SpendInv, UNCHANGED <<cp, real, crashes, failures>>,
           \A r \in Metered : Unsafe(r, cur, pc, auto) \in Nat
                              /\ Unsafe(r, cur, pc, auto)' \in Nat
                              /\ Unsafe(r, cur, pc, auto) <= Unsafe(r, cur, pc, auto)'
    PROVE  \A r \in Metered : real'[r] <= cp'[r].spent + Losses' + Unsafe(r, cur, pc, auto)'
<1> TAKE r \in Metered
<1>1. r \in Runs BY RunsAssumption
<1>2. real[r] \in Nat /\ cp[r] \in Checkpoint BY <1>1 DEF TypeInv, TypeOK
<1>3. cp[r].spent \in Nat BY <1>2 DEF Checkpoint
<1>4. Losses \in Nat /\ Losses' = Losses
  <2>1. crashes + failures \in Nat BY DEF TypeInv, TypeOK
  <2>2. Losses \in Nat BY ONLY <2>1, Sums, Zenon DEF Losses
  <2> QED BY <2>2 DEF Losses
<1>5. real[r] <= cp[r].spent + Losses + Unsafe(r, cur, pc, auto) BY DEF SpendInv, Owed
<1> QED BY <1>2, <1>3, <1>4, <1>5

LEMMA SinceCases ==
    ASSUME NEW a \in Nat, a <= MaxAuto
    PROVE  /\ \A p : Since(p, a) \in Nat /\ Since(p, a) <= Unsaved
           /\ \A p \in {"boundary", "steer", "view", "call"} : Since(p, a) = Chain(a)
           /\ Since("act", a) = Chain(MaxAuto + 1)
           /\ \A p \in {"save", "final"} : Since(p, a) = Unsaved
           /\ \A p \in {"idle", "down", "staged", "select", "mark"} : Since(p, a) = 0
<1>1. \A p : Since(p, a) \in Nat /\ Since(p, a) <= Unsaved BY SinceNat
<1> QED BY <1>1 DEF Since

(* The steps that use no tokens and take no checkpoint *)
LEMMA QuietNext ==
    ASSUME TypeInv, SpendInv, UNCHANGED <<cp, real, crashes, failures>>,
           \/ \E r \in Runs : Ask(r) \/ Resume(r) \/ Steer(r) \/ Cancel(r)
           \/ AcceptResumed \/ Degrade \/ LoadFresh \/ LoadResumed \/ Mark
           \/ BudgetStop \/ StepStop \/ CancelStop \/ Proceed \/ TakeSteer
           \/ Compact \/ MaskToolResults \/ IssueCall \/ Failover \/ CallFails
           \/ Shutdown \/ Restart \/ UNCHANGED vars
    PROVE  \A r \in Metered : real'[r] <= cp'[r].spent + Losses' + Unsafe(r, cur, pc, auto)'
<1>1. auto \in Nat /\ auto <= MaxAuto BY DEF TypeInv, TypeOK, SpendInv, SpendPlace
<1>2. auto' \in {auto, 0}
  BY DEF Ask, Resume, Steer, Cancel, AcceptResumed, Degrade, LoadFresh, LoadResumed, Mark,
     BudgetStop, StepStop, CancelStop, Proceed, TakeSteer, Compact, MaskToolResults, IssueCall,
     Failover, CallFails, Shutdown, LoseMemory, DropLocals, Restart, vars, plane, loop, ghosts
<1>3. 0 \in Nat /\ 0 <= MaxAuto BY LimitAssumption
<1>4. auto' \in Nat /\ auto' <= MaxAuto BY <1>1, <1>2, <1>3
<1>5. cur' = cur \/ pc \notin Driving \/ pc' \notin Driving
  BY DEF Ask, Resume, Steer, Cancel, AcceptResumed, Degrade, LoadFresh, LoadResumed, Mark,
     BudgetStop, StepStop, CancelStop, Proceed, TakeSteer, Compact, MaskToolResults, IssueCall,
     Failover, CallFails, Shutdown, LoseMemory, DropLocals, Restart, vars, plane, loop, ghosts,
     Driving
<1>6. Since(pc, auto) <= Since(pc', auto') /\ (cur' # cur => Since(pc, auto) = 0)
  <2> USE SinceCases, <1>1, <1>4
  <2>1. CASE pc' = pc /\ auto' = auto /\ cur' = cur BY <2>1
  <2>2. CASE pc \in {"idle", "down", "staged", "select", "mark"} BY <2>2
  <2>3. CASE pc' = "final" /\ cur' = cur BY <2>3
  <2>4. CASE pc \in {"boundary", "steer", "view", "call"} /\ auto' = auto /\ cur' = cur
             /\ pc' \in {"boundary", "steer", "view", "call"}
    BY <2>4
  <2>5. \/ pc' = pc /\ auto' = auto /\ cur' = cur
        \/ pc \in {"idle", "down", "staged", "select", "mark"}
        \/ pc' = "final" /\ cur' = cur
        \/ /\ pc \in {"boundary", "steer", "view", "call"} /\ auto' = auto /\ cur' = cur
           /\ pc' \in {"boundary", "steer", "view", "call"}
    BY DEF Ask, Resume, Steer, Cancel, AcceptResumed, Degrade, LoadFresh, LoadResumed, Mark,
       BudgetStop, StepStop, CancelStop, Proceed, TakeSteer, Compact, MaskToolResults, IssueCall,
       Failover, CallFails, Shutdown, LoseMemory, Restart, vars, plane, loop, ghosts
  <2> QED BY <2>1, <2>2, <2>3, <2>4, <2>5
<1>7. Since(pc, auto) \in Nat /\ Since(pc', auto') \in Nat BY SinceCases, <1>1, <1>4
<1>8. ASSUME NEW r \in Metered
      PROVE  /\ Unsafe(r, cur, pc, auto) \in Nat /\ Unsafe(r, cur, pc, auto)' \in Nat
             /\ Unsafe(r, cur, pc, auto) <= Unsafe(r, cur, pc, auto)'
  <2>1. pc' \notin Driving => pc \notin Driving \/ Since(pc, auto) = 0
    BY SinceCases, <1>1
       DEF Ask, Resume, Steer, Cancel, AcceptResumed, Degrade, LoadFresh, LoadResumed, Mark,
       BudgetStop, StepStop, CancelStop, Proceed, TakeSteer, Compact, MaskToolResults, IssueCall,
       Failover, CallFails, Shutdown, LoseMemory, Restart, vars, plane, loop, ghosts, Driving
  <2>2. /\ Unsafe(r, cur, pc, auto) = IF cur = r /\ pc \in Driving THEN Since(pc, auto) ELSE 0
        /\ Unsafe(r, cur, pc, auto)' = IF cur' = r /\ pc' \in Driving THEN Since(pc', auto') ELSE 0
    BY DEF Unsafe
  <2> QED BY ONLY <1>6, <1>7, <2>1, <2>2
<1> QED BY <1>8, QuietSpend

LEMMA NextPlace == ASSUME TypeInv, SpendPlace, [Next]_vars PROVE SpendPlace'
<1> USE LimitAssumption, RunsAssumption
    DEF TypeInv, TypeOK, DrivesARun, SpendPlace, plane, loop, ghosts, Driving
<1>1. ASSUME NEW r \in Runs, Ask(r) PROVE SpendPlace' BY <1>1 DEF Ask
<1>2. ASSUME NEW r \in Runs, Resume(r) PROVE SpendPlace'
  BY <1>2 DEF Resume, NoCheckpoint, Resumable
<1>3. ASSUME NEW r \in Runs, Steer(r) PROVE SpendPlace' BY <1>3 DEF Steer
<1>4. ASSUME NEW r \in Runs, Cancel(r) PROVE SpendPlace' BY <1>4 DEF Cancel
<1>5. CASE Crash BY <1>5 DEF Crash, LoseMemory, DropLocals
<1>6. CASE Shutdown BY <1>6 DEF Shutdown, LoseMemory, DropLocals
<1>7. CASE Restart BY <1>7 DEF Restart
<1>8. CASE UNCHANGED vars BY <1>8 DEF vars
<1>9. CASE AcceptResumed \/ Degrade \/ LoadFresh \/ LoadResumed \/ Mark
  BY <1>9 DEF AcceptResumed, Degrade, LoadFresh, LoadResumed, Mark, DropLocals
<1>10. CASE BudgetStop \/ StepStop \/ CancelStop \/ Proceed \/ TakeSteer \/ Compact
            \/ MaskToolResults \/ IssueCall \/ Failover \/ CallFails
  BY <1>10 DEF BudgetStop, StepStop, CancelStop, Proceed, TakeSteer, Compact, MaskToolResults,
     IssueCall, Failover, CallFails
<1>11. CASE EmptyReply \/ Say \/ AskUser \/ Reply \/ Act
  <2>1. /\ UNCHANGED <<cp, cur, entry, started>> /\ pc \in {"call", "act"}
        /\ pc' \notin {"staged", "select"} /\ (pc' \in {"act", "save"} => auto' = 0)
        /\ auto' \in {0, auto} \/ (auto < MaxAuto /\ auto' = auto + 1)
    BY <1>11 DEF EmptyReply, Say, AskUser, Reply, Act, replyUnchanged
  <2>2. \E n \in Nat : Spend(n)
    BY <1>11, CostAssumption DEF EmptyReply, Say, AskUser, Reply, Act
  <2>3. \A r \in Runs \ started : real'[r] = real[r] BY <2>1, <2>2 DEF Spend
  <2>4. auto' <= MaxAuto BY <2>1
  <2> QED BY <2>1, <2>3, <2>4
<1>12. CASE SaveIteration \/ SaveFinal
  <2>1. cur \in started /\ pc' \in {"boundary", "mark"}
    BY <1>12 DEF SaveIteration, SaveFinal
  <2>2. \A r \in Runs \ started : cp'[r] = cp[r]
    BY <1>12, <2>1 DEF SaveIteration, SaveFinal, AppendCheckpoint
  <2>3. UNCHANGED <<auto, cur, entry, started, real>>
    BY <1>12 DEF SaveIteration, SaveFinal
  <2> QED BY <2>1, <2>2, <2>3
<1> QED BY <1>1, <1>2, <1>3, <1>4, <1>5, <1>6, <1>7, <1>8, <1>9, <1>10, <1>11, <1>12
        DEF Next, Turn

(* Tokens are used: what they add to the account, the place owes *)
LEMMA CallSpend ==
    ASSUME TypeInv, SpendInv, NEW n \in Nat, Spend(n), UNCHANGED <<cp, crashes, failures, cur>>,
           pc \in Driving, pc' \in Driving, auto' \in Nat, auto' <= MaxAuto,
           Since(pc, auto) + n <= Since(pc', auto')
    PROVE  Owed'
<1>1. Losses \in Nat /\ Losses' = Losses
  <2>1. crashes + failures \in Nat BY DEF TypeInv, TypeOK
  <2>2. Losses \in Nat BY ONLY <2>1, Sums, Zenon DEF Losses
  <2> QED BY <2>2 DEF Losses
<1>2. Since(pc, auto) \in Nat /\ Since(pc', auto') \in Nat
  BY SinceNat DEF TypeInv, TypeOK, SpendInv, SpendPlace
<1>3. ASSUME NEW r \in Metered
      PROVE  real'[r] <= cp'[r].spent + Losses' + Unsafe(r, cur, pc, auto)'
  <2>1. r \in Runs BY RunsAssumption
  <2>2. real \in [Runs -> Nat] /\ cp[r] \in Checkpoint BY <2>1 DEF TypeInv, TypeOK
  <2>3. cp[r].spent \in Nat /\ real[r] \in Nat BY <2>1, <2>2 DEF Checkpoint
  <2>4. real[r] <= cp[r].spent + Losses + Unsafe(r, cur, pc, auto) BY DEF SpendInv, Owed
  <2>5. CASE r = cur
    <3>1. Unsafe(r, cur, pc, auto) = Since(pc, auto)
          /\ Unsafe(r, cur, pc, auto)' = Since(pc', auto')
      BY <2>5 DEF Unsafe
    <3>2. real'[r] = real[r] + n BY <2>1, <2>2, <2>5 DEF Spend
    <3> QED BY <1>1, <1>2, <2>3, <2>4, <3>1, <3>2
  <2>6. CASE r # cur
    <3>1. Unsafe(r, cur, pc, auto) = 0 /\ Unsafe(r, cur, pc, auto)' = 0 BY <2>6 DEF Unsafe
    <3>2. real'[r] = real[r] BY <2>1, <2>2, <2>6 DEF Spend
    <3> QED BY <1>1, <2>3, <2>4, <3>1, <3>2
  <2> QED BY <2>5, <2>6
<1> QED BY <1>3 DEF Owed

(* A crash, or a checkpoint the journal refused, is charged all that may be lost at once *)
LEMMA LossSpend ==
    ASSUME TypeInv, SpendInv, UNCHANGED <<cp, real>>, auto' \in Nat, auto' <= MaxAuto,
           crashes' + failures' = (crashes + failures) + 1
    PROVE  Owed' /\ Losses \in Nat /\ Losses' = Losses + Unsaved
<1>1. Losses \in Nat /\ Losses' = Losses + Unsaved
  <2>1. crashes + failures \in Nat BY DEF TypeInv, TypeOK
  <2>2. Losses \in Nat BY ONLY <2>1, Sums, Zenon DEF Losses
  <2>3. Lost((crashes + failures) + 1) = Lost(crashes + failures) + Unsaved
    BY ONLY <2>1, Sums, Zenon
  <2>4. Losses' = Lost(crashes' + failures') BY DEF Losses, Lost, Unsaved, MaxOf
  <2> QED BY <2>2, <2>3, <2>4 DEF Losses
<1>2. ASSUME NEW r \in Metered
      PROVE  real'[r] <= cp'[r].spent + Losses' + Unsafe(r, cur, pc, auto)'
  <2>1. r \in Runs BY RunsAssumption
  <2>2. real[r] \in Nat /\ cp[r] \in Checkpoint BY <2>1 DEF TypeInv, TypeOK
  <2>3. cp[r].spent \in Nat BY <2>2 DEF Checkpoint
  <2>4. real[r] <= cp[r].spent + Losses + Unsafe(r, cur, pc, auto) BY DEF SpendInv, Owed
  <2>5. Unsaved \in Nat BY Sums
  <2>6. Unsafe(r, cur, pc, auto) \in Nat /\ Unsafe(r, cur, pc, auto) <= Unsaved
    BY SinceNat, <2>5 DEF TypeInv, TypeOK, SpendInv, SpendPlace, Unsafe
  <2>7. Unsafe(r, cur, pc, auto)' \in Nat BY SinceNat DEF Unsafe
  <2> QED BY <1>1, <2>2, <2>3, <2>4, <2>5, <2>6, <2>7
<1> QED BY <1>1, <1>2 DEF Owed

LEMMA NextOwed == ASSUME TypeInv, SpendInv, [Next]_vars PROVE Owed'
<1>0. auto \in Nat /\ auto <= MaxAuto /\ 0 <= MaxAuto /\ MaxAuto \in Nat
  BY LimitAssumption DEF TypeInv, TypeOK, SpendInv, SpendPlace
<1>1. CASE \/ \E r \in Runs : Ask(r) \/ Resume(r) \/ Steer(r) \/ Cancel(r)
           \/ AcceptResumed \/ Degrade \/ LoadFresh \/ LoadResumed \/ Mark
           \/ BudgetStop \/ StepStop \/ CancelStop \/ Proceed \/ TakeSteer
           \/ Compact \/ MaskToolResults \/ IssueCall \/ Failover \/ CallFails
           \/ Shutdown \/ Restart \/ UNCHANGED vars
  <2>1. UNCHANGED <<cp, real, crashes, failures>>
    BY <1>1 DEF Ask, Resume, Steer, Cancel, AcceptResumed, Degrade, LoadFresh, LoadResumed, Mark,
       BudgetStop, StepStop, CancelStop, Proceed, TakeSteer, Compact, MaskToolResults, IssueCall,
       Failover, CallFails, Shutdown, LoseMemory, Restart, vars, plane, loop, ghosts
  <2> QED BY <1>1, <2>1, QuietNext DEF Owed
<1>2. CASE EmptyReply \/ Say \/ AskUser \/ Reply
  <2>1. PICK n \in CallCosts : Spend(n)
    BY <1>2 DEF EmptyReply, Say, AskUser, Reply
  <2>2. n \in Nat /\ n <= CallMax /\ CallMax \in Nat BY CostsHaveMaxima, CostAssumption
  <2>3. /\ UNCHANGED <<cp, crashes, failures, cur>> /\ pc = "call"
        /\ \/ auto < MaxAuto /\ auto' = auto + 1 /\ pc' = "boundary"
           \/ auto' \in {0, auto} /\ pc' \in {"final", "act"}
    BY <1>2 DEF EmptyReply, Say, AskUser, Reply, replyUnchanged
  <2>4. auto' \in Nat /\ auto' <= MaxAuto BY <1>0, <2>3
  <2>5. Since(pc, auto) = Chain(auto) /\ Chain(auto) \in Nat BY <1>0, <2>3, Sums DEF Since
  <2>6. Chain(auto + 1) = Chain(auto) + CallMax BY <1>0, Sums, Zenon
  <2>7. Chain(auto + 1) <= Chain(MaxAuto + 1) BY <1>0, Sums, Zenon
  <2>8. Chain(MaxAuto + 1) \in Nat /\ Chain(MaxAuto + 1) <= Unsaved
    BY <1>0, SinceNat DEF Since
  <2>9. Since(pc', auto') \in {Chain(auto + 1), Chain(MaxAuto + 1), Unsaved}
    BY <2>3 DEF Since
  <2>10. Since(pc, auto) + n <= Since(pc', auto')
    <3>1. Chain(auto) + n <= Chain(auto + 1) /\ Chain(auto + 1) \in Nat BY <2>2, <2>5, <2>6
    <3>2. Unsaved \in Nat BY Sums
    <3> QED BY <2>2, <2>5, <2>7, <2>8, <2>9, <3>1, <3>2
  <2>11. pc \in Driving /\ pc' \in Driving BY <2>3 DEF Driving
  <2> QED BY <2>1, <2>2, <2>3, <2>4, <2>10, <2>11, CallSpend
<1>3. CASE Act
  <2>1. PICK n \in ChildCosts : Spend(n) BY <1>3 DEF Act
  <2>2. n \in Nat /\ n <= ChildMax /\ ChildMax \in Nat BY CostsHaveMaxima, CostAssumption
  <2>3. /\ UNCHANGED <<cp, crashes, failures, cur, auto>>
        /\ pc = "act" /\ pc' = "save"
    BY <1>3 DEF Act, replyUnchanged
  <2>4. Since(pc, auto) = Chain(MaxAuto + 1) /\ Since(pc', auto') = Unsaved BY <2>3 DEF Since
  <2>5. Since(pc, auto) \in Nat BY <1>0, SinceNat
  <2>6. Unsaved = Chain(MaxAuto + 1) + ChildMax BY Sums, Zenon
  <2>7. Since(pc, auto) + n <= Since(pc', auto') BY <2>2, <2>4, <2>5, <2>6
  <2>8. pc \in Driving /\ pc' \in Driving /\ auto' \in Nat /\ auto' <= MaxAuto
    BY <1>0, <2>3 DEF Driving
  <2> QED BY <2>1, <2>2, <2>3, <2>7, <2>8, CallSpend
<1>4. CASE SaveIteration \/ SaveFinal
  <2>1. /\ UNCHANGED <<auto, real, crashes, cur, spent>> /\ pc \in {"save", "final"}
        /\ pc' \in {"boundary", "mark"} /\ \E st \in Nat : AppendCheckpoint(st)
    BY <1>4 DEF SaveIteration, SaveFinal, TypeInv, TypeOK, loop
  <2>2. CASE failures' = failures + 1 /\ UNCHANGED cp
    <3>1. crashes' + failures' = (crashes + failures) + 1
      BY <2>1, <2>2 DEF TypeInv, TypeOK
    <3> QED BY <1>0, <2>1, <2>2, <3>1, LossSpend
  <2>3. CASE \E st \in Nat : cp' = [cp EXCEPT ![cur] = Capture(st)] /\ UNCHANGED failures
    <3>1. Losses \in Nat /\ Losses' = Losses
      <4>1. crashes + failures \in Nat BY DEF TypeInv, TypeOK
      <4>2. Losses \in Nat BY ONLY <4>1, Sums, Zenon DEF Losses
      <4> QED BY <2>1, <2>3, <4>2 DEF Losses
    <3>2. ASSUME NEW r \in Metered
          PROVE  real'[r] <= cp'[r].spent + Losses' + Unsafe(r, cur, pc, auto)'
      <4>1. r \in Runs BY RunsAssumption
      <4>2. real[r] \in Nat /\ cp \in [Runs -> Checkpoint] /\ cp[r] \in Checkpoint
            /\ spent \in Nat
        BY <4>1 DEF TypeInv, TypeOK
      <4>3. cp[r].spent \in Nat BY <4>2 DEF Checkpoint
      <4>4. Unsafe(r, cur, pc, auto)' \in Nat BY <1>0, <2>1, SinceNat DEF Unsafe
      <4>5. CASE r = cur
        <5>1. real[cur] <= spent + Losses
          BY <2>1, <4>5 DEF SpendInv, Paid, Loaded, Looping
        <5>2. cp'[r].spent = spent BY <2>3, <4>1, <4>2, <4>5 DEF Capture
        <5> QED BY <2>1, <3>1, <4>2, <4>4, <4>5, <5>1, <5>2
      <4>6. CASE r # cur
        <5>1. Unsafe(r, cur, pc, auto) = 0 BY <4>6 DEF Unsafe
        <5>2. real[r] <= cp[r].spent + Losses + Unsafe(r, cur, pc, auto)
          BY DEF SpendInv, Owed
        <5>3. cp'[r] = cp[r] BY <2>3, <4>1, <4>2, <4>6
        <5> QED BY <2>1, <3>1, <4>2, <4>3, <4>4, <5>1, <5>2, <5>3
      <4> QED BY <4>5, <4>6
    <3> QED BY <3>2 DEF Owed
  <2> QED BY <2>1, <2>2, <2>3 DEF AppendCheckpoint
<1>5. CASE Crash
  <2>1. UNCHANGED <<cp, real>> /\ auto' = 0 BY <1>5 DEF Crash, LoseMemory, DropLocals
  <2>2. crashes' + failures' = (crashes + failures) + 1
    BY <1>5 DEF Crash, LoseMemory, TypeInv, TypeOK
  <2> QED BY <1>0, <2>1, <2>2, LossSpend
<1> QED BY <1>1, <1>2, <1>3, <1>4, <1>5 DEF Next, Turn

LEMMA NextPaid == ASSUME TypeInv, SpendInv, [Next]_vars PROVE Paid'
<1> USE DEF Paid, Loaded, Looping, plane, loop, ghosts
<1>1. Losses \in Nat /\ (Losses' = Losses \/ Losses' = Losses + Unsaved)
      /\ (UNCHANGED <<crashes, failures>> => Losses' = Losses) /\ Unsaved \in Nat
  <2>1. crashes + failures \in Nat /\ Unsaved \in Nat BY Sums DEF TypeInv, TypeOK
  <2>2. Losses \in Nat BY ONLY <2>1, Sums, Zenon DEF Losses
  <2>3. CASE UNCHANGED <<crashes, failures>> BY <2>1, <2>2, <2>3 DEF Losses
  <2>4. CASE crashes' + failures' = (crashes + failures) + 1
    <3>1. Lost((crashes + failures) + 1) = Lost(crashes + failures) + Unsaved
      BY ONLY <2>1, Sums, Zenon
    <3>2. Losses' = Lost(crashes' + failures') BY DEF Losses, Lost, Unsaved, MaxOf
    <3>3. ~UNCHANGED <<crashes, failures>> BY <2>4 DEF TypeInv, TypeOK
    <3> QED BY <2>1, <2>2, <2>4, <3>1, <3>2, <3>3 DEF Losses
  <2>5. UNCHANGED <<crashes, failures>> \/ crashes' + failures' = (crashes + failures) + 1
    BY DEF Next, Turn, TypeInv, TypeOK, vars, Ask, Resume, Steer, Cancel, AcceptResumed, Degrade,
       LoadFresh, LoadResumed, Mark, BudgetStop, StepStop, CancelStop, Proceed, TakeSteer,
       Compact, MaskToolResults, IssueCall, Failover, CallFails, EmptyReply, Say, AskUser, Reply,
       Act, replyUnchanged, SaveIteration, SaveFinal, AppendCheckpoint, Crash, Shutdown,
       LoseMemory, Restart
  <2> QED BY <2>3, <2>4, <2>5
<1>2. \A r \in Metered : r \in Runs /\ real[r] \in Nat /\ cp[r].spent \in Nat
  BY RunsAssumption DEF TypeInv, TypeOK, Checkpoint
<1>3. spent \in Nat /\ real \in [Runs -> Nat] BY DEF TypeInv, TypeOK
<1>4. CASE pc' \notin Loaded BY <1>4
<1>5. CASE LoadFresh \/ LoadResumed
  <2>1. /\ pc = "select" /\ UNCHANGED <<cp, real, cur, crashes, failures>>
        /\ \/ entry = "message" /\ spent' = 0
           \/ spent' = cp[cur].spent
    BY <1>5 DEF LoadFresh, LoadResumed
  <2>2. entry = "message" => cp[cur].spent = 0
    BY <2>1 DEF SpendInv, SpendPlace, NoCheckpoint
  <2>3. cur \in Metered => real[cur] <= cp[cur].spent + Losses
    <3>1. cur \in Metered => real[cur] <= cp[cur].spent + Losses + Unsafe(cur, cur, pc, auto)
      BY DEF SpendInv, Owed
    <3>2. Unsafe(cur, cur, pc, auto) = 0 BY <2>1 DEF Unsafe, Since
    <3> QED BY <1>1, <1>2, <3>1, <3>2
  <2> QED BY <1>1, <1>2, <2>1, <2>2, <2>3
<1>6. CASE pc \in Loaded /\ UNCHANGED <<spent, real, cur>> BY <1>1, <1>2, <1>3, <1>6 DEF SpendInv
<1>7. CASE EmptyReply \/ Say \/ AskUser \/ Reply \/ Act
  <2>1. /\ pc \in Loaded /\ UNCHANGED <<cur, crashes, failures>>
        /\ \E n \in Nat : Spend(n)
    BY <1>7, CostAssumption DEF EmptyReply, Say, AskUser, Reply, Act, replyUnchanged
  <2> QED BY <1>1, <1>2, <1>3, <2>1 DEF SpendInv, Spend
<1>8. \/ pc' \notin Loaded \/ LoadFresh \/ LoadResumed
      \/ pc \in Loaded /\ UNCHANGED <<spent, real, cur>>
      \/ EmptyReply \/ Say \/ AskUser \/ Reply \/ Act
  BY DEF Next, Turn, vars, Ask, Resume, Steer, Cancel, AcceptResumed, Degrade,
     Mark, BudgetStop, StepStop, CancelStop, Proceed, TakeSteer,
     Compact, MaskToolResults, IssueCall, Failover, CallFails,
     SaveIteration, SaveFinal, Crash, Shutdown, LoseMemory, Restart
<1> QED BY <1>4, <1>5, <1>6, <1>7, <1>8

LEMMA AccountHolds == ASSUME TypeInv, PromptInv, SpendInv PROVE StopIsPromptAndPaid
<1>1. CancelStopsAtBoundary BY DEF PromptInv, CancelStopsAtBoundary
<1>2. ASSUME NEW r \in Metered
      PROVE  real[r] <= (IF cur = r /\ pc \in Driving \ {"staged", "select"}
                         THEN spent ELSE cp[r].spent) + (crashes + failures) * Unsaved
  <2>1. real[r] \in Nat /\ cp[r].spent \in Nat /\ spent \in Nat
    BY RunsAssumption DEF TypeInv, TypeOK, Checkpoint
  <2>2. Losses \in Nat /\ Losses = (crashes + failures) * Unsaved
    <3>1. crashes + failures \in Nat BY DEF TypeInv, TypeOK
    <3>2. Losses \in Nat BY ONLY <3>1, Sums, Zenon DEF Losses
    <3> QED BY ONLY <3>2 DEF Losses, Lost
  <2>3. CASE cur = r /\ pc \in Driving \ {"staged", "select"}
    <3>1. pc \in Loaded BY <2>3 DEF Driving, Loaded, Looping
    <3>2. real[r] <= spent + Losses BY <2>3, <3>1 DEF SpendInv, Paid
    <3> QED BY <2>2, <2>3, <3>2
  <2>4. CASE ~(cur = r /\ pc \in Driving \ {"staged", "select"})
    <3>1. Unsafe(r, cur, pc, auto) = 0 BY <2>4 DEF Unsafe, Since
    <3>2. real[r] <= cp[r].spent + Losses + Unsafe(r, cur, pc, auto) BY DEF SpendInv, Owed
    <3>3. real[r] <= cp[r].spent + Losses BY <2>1, <2>2, <3>1, <3>2
    <3> QED BY <2>2, <2>4, <3>3
  <2> QED BY <2>3, <2>4
<1> QED BY <1>1, <1>2 DEF SpendLossBounded, StopIsPromptAndPaid

(* For any limits, costs and numbers of crashes and refused checkpoints: a cancelled run
   makes at most the call in flight, and each crash or refused checkpoint takes at most
   one iteration's calls and children off the account a resume goes on from
   (`run.usage` in Checkpoint::capture and restore). *)
THEOREM CutShortInTimeAndPaid == Spec => []StopIsPromptAndPaid
<1>1. Init => PromptInv BY DEF Init, PromptInv
<1>2. TypeInv /\ PromptInv /\ [Next]_vars => PromptInv' BY NextPrompt
<1>3. TypeInv /\ SpendInv /\ [Next]_vars => SpendInv'
  BY NextPlace, NextOwed, NextPaid DEF SpendInv
<1>4. TypeInv /\ PromptInv /\ SpendInv => StopIsPromptAndPaid BY AccountHolds
<1> QED BY InitType, NextType, SpendStart, <1>1, <1>2, <1>3, <1>4, PTL DEF Spec
=============================================================================

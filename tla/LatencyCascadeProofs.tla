------------------------ MODULE LatencyCascadeProofs ------------------------
(***************************************************************************)
(* Theorems about LatencyCascade for every set of requests and tiers and   *)
(* every max_background.                                                   *)
(***************************************************************************)
EXTENDS LatencyCascade, TLAPS

\* What an attempt's state says about its tier: no tier before the first step, an outcome exactly
\* when the attempt returned.
AttemptsMatch ==
  \A q \in Requests, p \in Tiers :
    /\ attempt[q][p] \in {"none", "created"} => task[q][p] = "none"
    /\ outcome[q][p] # "none" <=> attempt[q][p] = "returned"

\* A completion in the background belongs to a RAG attempt that timed out, and holds its slot.
FinishMatches ==
  \A q \in Requests :
    /\ finish[q] # "none" => outcome[q][RAG] = "timeout"
    /\ finish[q] = "waiting" => q \in background

\* Who counts an access, and when.
CountsMatch ==
  \A q \in Requests :
    /\ finish[q] = "none" => /\ sunk[q] = 0
                             /\ recorded[q] = IF outcome[q][RAG] = "hit" THEN 1 ELSE 0
    /\ finish[q] = "waiting" => sunk[q] = 0 /\ recorded[q] = 0
    /\ finish[q] \in {"sinking", "done"} => sunk[q] = recorded[q] /\ recorded[q] \in {0, 1}

\* A run that has not been called has no attempts.
NewIsUntouched ==
  \A q \in Requests, p \in Tiers : run[q].pc = "new" => attempt[q][p] = "none"

CascadeInv ==
  TypeOK /\ AttemptsMatch /\ FinishMatches /\ CountsMatch /\ NewIsUntouched /\ NoOrphanTier

-----------------------------------------------------------------------------
\* The cascade starts with nothing running.
LEMMA CascadeInitial == Init => CascadeInv
<1>1. RAG \in Tiers
  BY CascadeAssumption
<1> QED
  BY <1>1 DEF Init, CascadeInv, TypeOK, AttemptsMatch, FinishMatches, CountsMatch,
       NewIsUntouched,
     NoOrphanTier, AttemptState, TaskState, Results, Ended
\* cancel() leaves a task in one of its states.
LEMMA CancelledTaskType ==
  ASSUME task \in [Requests -> [Tiers -> TaskState]],
         NEW q \in Requests, NEW p \in Tiers, TaskCancelled(q, p)
  PROVE  task' \in [Requests -> [Tiers -> TaskState]]
<1>1. CASE task[q][p] = "running"
  <2>1. task' = [task EXCEPT ![q][p] = "cancelling"]
    BY <1>1 DEF TaskCancelled
  <2> QED
    BY <2>1 DEF TaskState
<1>2. CASE task[q][p] # "running"
  <2>1. task' = [task EXCEPT ![q][p] = task[q][p]]
    BY <1>2 DEF TaskCancelled
  <2> QED
    BY <2>1
<1> QED
  BY <1>1, <1>2

\* Every step of every coroutine and callback keeps the invariant.
LEMMA CascadeStep == CascadeInv /\ [Next]_vars => CascadeInv'
<1> SUFFICES ASSUME CascadeInv, [Next]_vars PROVE CascadeInv'
  OBVIOUS
<1> DEFINE RunType == [Requests -> [pc : {"new", "running", "unwinding", "ended"},
                                    mode : {"unrouted", "cascade", "parallel"},
                                    routed : SUBSET Paradigms]]
           DrainType == [pc : {"idle", "waiting", "returned"},
                         on : SUBSET ((Requests \X {"finish"}) \union (Requests \X Tiers))]
<1>a. /\ run \in RunType
      /\ attempt \in [Requests -> [Tiers -> AttemptState]]
      /\ outcome \in [Requests -> [Tiers -> Results \union {"none", "error", "timeout"}]]
      /\ task \in [Requests -> [Tiers -> TaskState]]
      /\ finish \in [Requests -> {"none", "waiting", "sinking", "done"}]
      /\ background \subseteq Requests
      /\ cancelled \subseteq Requests \X Tiers
      /\ drain \in DrainType
      /\ recorded \in [Requests -> Nat]
      /\ sunk \in [Requests -> Nat]
  BY DEF CascadeInv, TypeOK
<1>b. TypeOK /\ AttemptsMatch /\ FinishMatches /\ CountsMatch /\ NewIsUntouched /\ NoOrphanTier
  BY DEF CascadeInv
<1>c. RAG \in Tiers
  BY CascadeAssumption
<1> USE <1>a, <1>b, <1>c
<1> HIDE DEF RunType, DrainType
<1>1. ASSUME NEW q \in Requests, NEW d \in Decisions, Start(q, d) PROVE CascadeInv'
  <2>1. UNCHANGED <<outcome, task, finish, background, cancelled, drain, recorded, sunk>>
    BY <1>1 DEF Start, taskVars, bgVars, Decisions, RAG
  <2>2. run' \in RunType
    BY <1>1 DEF Start, Decisions, RAG, RunType, Decisions, Paradigms
  <2>3. attempt' \in [Requests -> [Tiers -> AttemptState]]
    BY <1>1 DEF Start, Decisions, RAG, AttemptState, Awaiting
  <2>4. TypeOK'
    BY <2>1, <2>2, <2>3 DEF TypeOK, RunType, DrainType
  <2>5. AttemptsMatch'
    BY <1>1, <2>1 DEF Start, Decisions, RAG, AttemptsMatch, NewIsUntouched, Results, Ended,
       TaskState, AttemptState, Awaiting
  <2>6. FinishMatches'
    BY <2>1 DEF FinishMatches
  <2>7. CountsMatch'
    BY <2>1 DEF CountsMatch
  <2>8. NewIsUntouched'
    BY <1>1, <2>1 DEF Start, Decisions, RAG, NewIsUntouched, Results, Ended, TaskState,
       AttemptState, Awaiting, RunType
  <2>9. NoOrphanTier'
    BY <1>1, <2>1 DEF Start, Decisions, RAG, NoOrphanTier, AttemptsMatch, NewIsUntouched,
       Results, Ended, TaskState, AttemptState, Awaiting
  <2> QED
    BY <2>4, <2>5, <2>6, <2>7, <2>8, <2>9 DEF CascadeInv
<1>2. ASSUME NEW q \in Requests, NEW p \in Tiers, NextTier(q, p) PROVE CascadeInv'
  <2>1. UNCHANGED <<run, outcome, finish, background, cancelled, drain, recorded, sunk>>
    BY <1>2 DEF NextTier, taskVars, bgVars, Untried, Eligible
  <2>2. attempt' \in [Requests -> [Tiers -> AttemptState]]
    BY <1>2 DEF NextTier, Untried, Eligible, AttemptState, Awaiting
  <2>3. task' \in [Requests -> [Tiers -> TaskState]]
    BY <1>2 DEF NextTier, Untried, Eligible, TaskState, Ended, Results
  <2>4. TypeOK'
    BY <2>1, <2>2, <2>3 DEF TypeOK, RunType, DrainType
  <2>5. AttemptsMatch'
    BY <1>2, <2>1 DEF NextTier, Untried, Eligible, AttemptsMatch, Results, Ended, TaskState,
       AttemptState, Awaiting
  <2>6. FinishMatches'
    BY <2>1 DEF FinishMatches
  <2>7. CountsMatch'
    BY <2>1 DEF CountsMatch
  <2>8. NewIsUntouched'
    BY <1>2, <2>1 DEF NextTier, Untried, Eligible, NewIsUntouched, Results, Ended, TaskState,
       AttemptState, Awaiting, RunType
  <2>9. NoOrphanTier'
    BY <1>2, <2>1 DEF NextTier, Untried, Eligible, NoOrphanTier, AttemptsMatch, Results, Ended,
       TaskState, AttemptState, Awaiting
  <2> QED
    BY <2>4, <2>5, <2>6, <2>7, <2>8, <2>9 DEF CascadeInv
<1>3. ASSUME NEW q \in Requests, SequentialEnd(q) PROVE CascadeInv'
  <2>1. UNCHANGED <<attempt, outcome, task, finish, background, cancelled, drain, recorded,
       sunk>>
    BY <1>3 DEF SequentialEnd, taskVars, bgVars
  <2>2. run' \in RunType
    BY <1>3 DEF SequentialEnd, RunType, Decisions, Paradigms
  <2>3. TypeOK'
    BY <2>1, <2>2 DEF TypeOK, RunType, DrainType
  <2>4. AttemptsMatch'
    BY <2>1 DEF AttemptsMatch
  <2>5. FinishMatches'
    BY <2>1 DEF FinishMatches
  <2>6. CountsMatch'
    BY <2>1 DEF CountsMatch
  <2>7. NewIsUntouched'
    BY <1>3, <2>1 DEF SequentialEnd, NewIsUntouched, Results, Ended, TaskState, AttemptState,
       Awaiting, RunType
  <2>8. NoOrphanTier'
    BY <2>1 DEF NoOrphanTier
  <2> QED
    BY <2>3, <2>4, <2>5, <2>6, <2>7, <2>8 DEF CascadeInv
<1>4. ASSUME NEW q \in Requests, GatherEnd(q) PROVE CascadeInv'
  <2>1. UNCHANGED <<attempt, outcome, task, finish, background, cancelled, drain, recorded,
       sunk>>
    BY <1>4 DEF GatherEnd, taskVars, bgVars
  <2>2. run' \in RunType
    BY <1>4 DEF GatherEnd, RunType, Decisions, Paradigms
  <2>3. TypeOK'
    BY <2>1, <2>2 DEF TypeOK, RunType, DrainType
  <2>4. AttemptsMatch'
    BY <2>1 DEF AttemptsMatch
  <2>5. FinishMatches'
    BY <2>1 DEF FinishMatches
  <2>6. CountsMatch'
    BY <2>1 DEF CountsMatch
  <2>7. NewIsUntouched'
    BY <1>4, <2>1 DEF GatherEnd, NewIsUntouched, Results, Ended, TaskState, AttemptState,
       Awaiting, RunType
  <2>8. NoOrphanTier'
    BY <2>1 DEF NoOrphanTier
  <2> QED
    BY <2>3, <2>4, <2>5, <2>6, <2>7, <2>8 DEF CascadeInv
<1>5. ASSUME NEW q \in Requests, GatherRaise(q) PROVE CascadeInv'
  <2>1. UNCHANGED <<outcome, task, finish, background, cancelled, drain, recorded, sunk>>
    BY <1>5 DEF GatherRaise, taskVars, bgVars
  <2>2. run' \in RunType
    BY <1>5 DEF GatherRaise, RunType, Decisions, Paradigms
  <2>3. attempt' \in [Requests -> [Tiers -> AttemptState]]
    BY <1>5 DEF GatherRaise, AttemptState, Awaiting
  <2>4. TypeOK'
    BY <2>1, <2>2, <2>3 DEF TypeOK, RunType, DrainType
  <2>5. AttemptsMatch'
    BY <1>5, <2>1 DEF GatherRaise, AttemptsMatch, Results, Ended, TaskState, AttemptState,
       Awaiting
  <2>6. FinishMatches'
    BY <2>1 DEF FinishMatches
  <2>7. CountsMatch'
    BY <2>1 DEF CountsMatch
  <2>8. NewIsUntouched'
    BY <1>5, <2>1 DEF GatherRaise, NewIsUntouched, Results, Ended, TaskState, AttemptState,
       Awaiting, RunType
  <2>9. NoOrphanTier'
    BY <1>5, <2>1 DEF GatherRaise, NoOrphanTier, Results, Ended, TaskState, AttemptState,
       Awaiting
  <2> QED
    BY <2>4, <2>5, <2>6, <2>7, <2>8, <2>9 DEF CascadeInv
<1>6. ASSUME NEW q \in Requests, CancelCaller(q) PROVE CascadeInv'
  <2>1. UNCHANGED <<outcome, task, finish, background, cancelled, drain, recorded, sunk>>
    BY <1>6 DEF CancelCaller, taskVars, bgVars
  <2>2. run' \in RunType
    <3>1. CASE run[q].mode = "parallel"
      <4>1. run' = [run EXCEPT ![q].pc = "unwinding"]
        BY <1>6, <3>1 DEF CancelCaller
      <4> QED
        BY <4>1 DEF RunType
    <3>2. CASE run[q].mode # "parallel"
      <4>1. run' = [run EXCEPT ![q].pc = run[q].pc]
        BY <1>6, <3>2 DEF CancelCaller
      <4> QED
        BY <4>1 DEF RunType
    <3> QED
      BY <3>1, <3>2
  <2>3. attempt' \in [Requests -> [Tiers -> AttemptState]]
    BY <1>6 DEF CancelCaller, AttemptState, Awaiting
  <2>4. TypeOK'
    BY <2>1, <2>2, <2>3 DEF TypeOK, RunType, DrainType
  <2>5. AttemptsMatch'
    BY <1>6, <2>1 DEF CancelCaller, AttemptsMatch, Results, Ended, TaskState, AttemptState,
       Awaiting
  <2>6. FinishMatches'
    BY <2>1 DEF FinishMatches
  <2>7. CountsMatch'
    BY <2>1 DEF CountsMatch
  <2>8. NewIsUntouched'
    BY <1>6, <2>1 DEF CancelCaller, NewIsUntouched, Results, Ended, TaskState, AttemptState,
       Awaiting, RunType
  <2>9. NoOrphanTier'
    BY <1>6, <2>1 DEF CancelCaller, NoOrphanTier, Results, Ended, TaskState, AttemptState,
       Awaiting
  <2> QED
    BY <2>4, <2>5, <2>6, <2>7, <2>8, <2>9 DEF CascadeInv
<1>7. ASSUME NEW q \in Requests, NEW p \in Tiers, AttemptStart(q, p) PROVE CascadeInv'
  <2>1. UNCHANGED <<run, outcome, finish, background, cancelled, drain, recorded, sunk>>
    BY <1>7 DEF AttemptStart, taskVars, bgVars
  <2>2. attempt' \in [Requests -> [Tiers -> AttemptState]]
    BY <1>7 DEF AttemptStart, AttemptState, Awaiting
  <2>3. task' \in [Requests -> [Tiers -> TaskState]]
    BY <1>7 DEF AttemptStart, TaskState, Ended, Results
  <2>4. TypeOK'
    BY <2>1, <2>2, <2>3 DEF TypeOK, RunType, DrainType
  <2>5. AttemptsMatch'
    BY <1>7, <2>1 DEF AttemptStart, AttemptsMatch, Results, Ended, TaskState, AttemptState,
       Awaiting
  <2>6. FinishMatches'
    BY <2>1 DEF FinishMatches
  <2>7. CountsMatch'
    BY <2>1 DEF CountsMatch
  <2>8. NewIsUntouched'
    BY <1>7, <2>1 DEF AttemptStart, NewIsUntouched, Results, Ended, TaskState, AttemptState,
       Awaiting, RunType
  <2>9. NoOrphanTier'
    BY <1>7, <2>1 DEF AttemptStart, NoOrphanTier, Results, Ended, TaskState, AttemptState,
       Awaiting
  <2> QED
    BY <2>4, <2>5, <2>6, <2>7, <2>8, <2>9 DEF CascadeInv
<1>8. ASSUME NEW q \in Requests, NEW p \in Tiers, AttemptReturns(q, p) PROVE CascadeInv'
  <2>1. UNCHANGED <<run, task, finish, background, cancelled, drain, sunk>>
    BY <1>8 DEF AttemptReturns, taskVars, bgVars
  <2>2. attempt' \in [Requests -> [Tiers -> AttemptState]]
    BY <1>8 DEF AttemptReturns, AttemptState, Awaiting
  <2>3. outcome' \in [Requests -> [Tiers -> Results \union {"none", "error", "timeout"}]]
    BY <1>8 DEF AttemptReturns, Results, TaskState, Ended
  <2>4. recorded' \in [Requests -> Nat]
    BY <1>8 DEF AttemptReturns
  <2>5. TypeOK'
    BY <2>1, <2>2, <2>3, <2>4 DEF TypeOK, RunType, DrainType
  <2>6. AttemptsMatch'
    BY <1>8, <2>1 DEF AttemptReturns, AttemptsMatch, Results, Ended, TaskState, AttemptState,
       Awaiting
  <2>7. FinishMatches'
    BY <1>8, <2>1 DEF AttemptReturns, FinishMatches, AttemptsMatch, Results, Ended, TaskState,
       AttemptState, Awaiting
  <2>8. CountsMatch'
    BY <1>8, <2>1 DEF AttemptReturns, CountsMatch, AttemptsMatch, FinishMatches, Results,
       Ended, TaskState, AttemptState, Awaiting
  <2>9. NewIsUntouched'
    BY <1>8, <2>1 DEF AttemptReturns, NewIsUntouched, Results, Ended, TaskState, AttemptState,
       Awaiting, RunType
  <2>10. NoOrphanTier'
    BY <1>8, <2>1 DEF AttemptReturns, NoOrphanTier, Results, Ended, TaskState, AttemptState,
       Awaiting
  <2> QED
    BY <2>5, <2>6, <2>7, <2>8, <2>9, <2>10 DEF CascadeInv
<1>9. ASSUME NEW q \in Requests, NEW p \in Tiers, AttemptTimeout(q, p) PROVE CascadeInv'
  <2>1. UNCHANGED <<run, drain, recorded, sunk>>
    BY <1>9 DEF AttemptTimeout, taskVars, bgVars, GiveUp, cancel_tier, TaskCancelled
  <2>2. attempt' \in [Requests -> [Tiers -> AttemptState]]
    BY <1>9 DEF AttemptTimeout, GiveUp, cancel_tier, TaskCancelled, AttemptState, Awaiting
  <2>3. outcome' \in [Requests -> [Tiers -> Results \union {"none", "error", "timeout"}]]
    BY <1>9 DEF AttemptTimeout, GiveUp, cancel_tier, TaskCancelled, Results, TaskState, Ended
  <2>4. finish' \in [Requests -> {"none", "waiting", "sinking", "done"}]
    BY <1>9 DEF AttemptTimeout, GiveUp, cancel_tier, TaskCancelled
  <2>5. background' \subseteq Requests
    BY <1>9 DEF AttemptTimeout, GiveUp, cancel_tier, TaskCancelled
  <2>6. task' \in [Requests -> [Tiers -> TaskState]]
    BY <1>9, CancelledTaskType DEF AttemptTimeout, GiveUp, cancel_tier
  <2>7. cancelled' \subseteq Requests \X Tiers
    BY <1>9 DEF AttemptTimeout, GiveUp, cancel_tier, TaskCancelled
  <2>8. TypeOK'
    BY <2>1, <2>2, <2>3, <2>4, <2>5, <2>6, <2>7 DEF TypeOK, RunType, DrainType
  <2>9. AttemptsMatch'
    BY <1>9, <2>1 DEF AttemptTimeout, GiveUp, cancel_tier, TaskCancelled, AttemptsMatch,
       Results, Ended, TaskState, AttemptState, Awaiting
  <2>10. FinishMatches'
    BY <1>9, <2>1 DEF AttemptTimeout, GiveUp, cancel_tier, TaskCancelled, FinishMatches,
       AttemptsMatch, Results, Ended, TaskState, AttemptState, Awaiting
  <2>11. CountsMatch'
    BY <1>9, <2>1 DEF AttemptTimeout, GiveUp, cancel_tier, TaskCancelled, CountsMatch,
       AttemptsMatch, FinishMatches, Results, Ended, TaskState, AttemptState, Awaiting
  <2>12. NewIsUntouched'
    BY <1>9, <2>1 DEF AttemptTimeout, GiveUp, cancel_tier, TaskCancelled, NewIsUntouched,
       Results, Ended, TaskState, AttemptState, Awaiting, RunType
  <2>13. NoOrphanTier'
    BY <1>9, <2>1 DEF AttemptTimeout, GiveUp, cancel_tier, TaskCancelled, NoOrphanTier,
       Results, Ended, TaskState, AttemptState, Awaiting
  <2> QED
    BY <2>8, <2>9, <2>10, <2>11, <2>12, <2>13 DEF CascadeInv
<1>10. ASSUME NEW q \in Requests, NEW p \in Tiers, AttemptCancelled(q, p) PROVE CascadeInv'
  <2>1. UNCHANGED <<run, outcome, finish, background, drain, recorded, sunk>>
    BY <1>10 DEF AttemptCancelled, taskVars, bgVars, cancel_tier, TaskCancelled
  <2>2. attempt' \in [Requests -> [Tiers -> AttemptState]]
    BY <1>10 DEF AttemptCancelled, cancel_tier, TaskCancelled, AttemptState, Awaiting
  <2>3. task' \in [Requests -> [Tiers -> TaskState]]
    BY <1>10, CancelledTaskType DEF AttemptCancelled, cancel_tier
  <2>4. cancelled' \subseteq Requests \X Tiers
    BY <1>10 DEF AttemptCancelled, cancel_tier, TaskCancelled
  <2>5. TypeOK'
    BY <2>1, <2>2, <2>3, <2>4 DEF TypeOK, RunType, DrainType
  <2>6. AttemptsMatch'
    BY <1>10, <2>1 DEF AttemptCancelled, cancel_tier, TaskCancelled, AttemptsMatch, Results,
       Ended, TaskState, AttemptState, Awaiting
  <2>7. FinishMatches'
    BY <2>1 DEF FinishMatches
  <2>8. CountsMatch'
    BY <2>1 DEF CountsMatch
  <2>9. NewIsUntouched'
    BY <1>10, <2>1 DEF AttemptCancelled, cancel_tier, TaskCancelled, NewIsUntouched, Results,
       Ended, TaskState, AttemptState, Awaiting, RunType
  <2>10. NoOrphanTier'
    BY <1>10, <2>1 DEF AttemptCancelled, cancel_tier, TaskCancelled, NoOrphanTier,
       AttemptsMatch, Results, Ended, TaskState, AttemptState, Awaiting
  <2> QED
    BY <2>5, <2>6, <2>7, <2>8, <2>9, <2>10 DEF CascadeInv
<1>11. ASSUME NEW q \in Requests, NEW p \in Tiers, NEW end \in Ended, TierEnds(q, p,
       end) PROVE CascadeInv'
  <2>1. UNCHANGED <<run, attempt, outcome, finish, background, cancelled, drain, recorded,
       sunk>>
    BY <1>11 DEF TierEnds, taskVars, bgVars
  <2>2. task' \in [Requests -> [Tiers -> TaskState]]
    BY <1>11 DEF TierEnds, TaskState, Ended, Results
  <2>3. TypeOK'
    BY <2>1, <2>2 DEF TypeOK, RunType, DrainType
  <2>4. AttemptsMatch'
    BY <1>11, <2>1 DEF TierEnds, AttemptsMatch, Results, Ended, TaskState, AttemptState,
       Awaiting
  <2>5. FinishMatches'
    BY <2>1 DEF FinishMatches
  <2>6. CountsMatch'
    BY <2>1 DEF CountsMatch
  <2>7. NewIsUntouched'
    BY <2>1 DEF NewIsUntouched
  <2>8. NoOrphanTier'
    BY <1>11, <2>1 DEF TierEnds, NoOrphanTier, Results, Ended, TaskState, AttemptState,
       Awaiting
  <2> QED
    BY <2>3, <2>4, <2>5, <2>6, <2>7, <2>8 DEF CascadeInv
<1>12. ASSUME NEW q \in Requests, NEW p \in Tiers, TierCleansUp(q, p) PROVE CascadeInv'
  <2>1. UNCHANGED <<run, attempt, outcome, finish, background, cancelled, drain, recorded,
       sunk>>
    BY <1>12 DEF TierCleansUp, taskVars, bgVars
  <2>2. task' \in [Requests -> [Tiers -> TaskState]]
    BY <1>12 DEF TierCleansUp, TaskState, Ended, Results
  <2>3. TypeOK'
    BY <2>1, <2>2 DEF TypeOK, RunType, DrainType
  <2>4. AttemptsMatch'
    BY <1>12, <2>1 DEF TierCleansUp, AttemptsMatch, Results, Ended, TaskState, AttemptState,
       Awaiting
  <2>5. FinishMatches'
    BY <2>1 DEF FinishMatches
  <2>6. CountsMatch'
    BY <2>1 DEF CountsMatch
  <2>7. NewIsUntouched'
    BY <2>1 DEF NewIsUntouched
  <2>8. NoOrphanTier'
    BY <1>12, <2>1 DEF TierCleansUp, NoOrphanTier, Results, Ended, TaskState, AttemptState,
       Awaiting
  <2> QED
    BY <2>3, <2>4, <2>5, <2>6, <2>7, <2>8 DEF CascadeInv
<1>13. ASSUME NEW q \in Requests, FinishResumes(q) PROVE CascadeInv'
  <2>1. UNCHANGED <<run, attempt, outcome, task, background, cancelled, drain>>
    BY <1>13 DEF FinishResumes, taskVars, bgVars
  <2>2. recorded' \in [Requests -> Nat]
    BY <1>13 DEF FinishResumes
  <2>3. sunk' \in [Requests -> Nat]
    BY <1>13 DEF FinishResumes
  <2>4. finish' \in [Requests -> {"none", "waiting", "sinking", "done"}]
    BY <1>13 DEF FinishResumes
  <2>5. TypeOK'
    BY <2>1, <2>2, <2>3, <2>4 DEF TypeOK, RunType, DrainType
  <2>6. AttemptsMatch'
    BY <2>1 DEF AttemptsMatch
  <2>7. FinishMatches'
    BY <1>13, <2>1 DEF FinishResumes, FinishMatches, Results, Ended, TaskState, AttemptState,
       Awaiting
  <2>8. CountsMatch'
    BY <1>13, <2>1 DEF FinishResumes, CountsMatch, Results, Ended, TaskState, AttemptState,
       Awaiting
  <2>9. NewIsUntouched'
    BY <2>1 DEF NewIsUntouched
  <2>10. NoOrphanTier'
    BY <1>13, <2>1 DEF FinishResumes, NoOrphanTier, Results, Ended, TaskState, AttemptState,
       Awaiting
  <2> QED
    BY <2>5, <2>6, <2>7, <2>8, <2>9, <2>10 DEF CascadeInv
<1>14. ASSUME NEW q \in Requests, FinishDeadline(q) PROVE CascadeInv'
  <2>1. UNCHANGED <<run, attempt, outcome, finish, background, cancelled, drain, recorded,
       sunk>>
    BY <1>14 DEF FinishDeadline, taskVars, bgVars, TaskCancelled
  <2>2. task' \in [Requests -> [Tiers -> TaskState]]
    BY <1>14 DEF FinishDeadline, TaskCancelled, TaskState, Ended, Results
  <2>3. TypeOK'
    BY <2>1, <2>2 DEF TypeOK, RunType, DrainType
  <2>4. AttemptsMatch'
    BY <1>14, <2>1 DEF FinishDeadline, TaskCancelled, AttemptsMatch, Results, Ended, TaskState,
       AttemptState, Awaiting
  <2>5. FinishMatches'
    BY <2>1 DEF FinishMatches
  <2>6. CountsMatch'
    BY <2>1 DEF CountsMatch
  <2>7. NewIsUntouched'
    BY <2>1 DEF NewIsUntouched
  <2>8. NoOrphanTier'
    BY <1>14, <2>1 DEF FinishDeadline, TaskCancelled, NoOrphanTier, Results, Ended, TaskState,
       AttemptState, Awaiting
  <2> QED
    BY <2>3, <2>4, <2>5, <2>6, <2>7, <2>8 DEF CascadeInv
<1>15. ASSUME NEW q \in Requests, SinkEnds(q) PROVE CascadeInv'
  <2>1. UNCHANGED <<run, attempt, outcome, task, background, cancelled, drain, recorded, sunk>>
    BY <1>15 DEF SinkEnds, taskVars, bgVars
  <2>2. finish' \in [Requests -> {"none", "waiting", "sinking", "done"}]
    BY <1>15 DEF SinkEnds
  <2>3. TypeOK'
    BY <2>1, <2>2 DEF TypeOK, RunType, DrainType
  <2>4. AttemptsMatch'
    BY <2>1 DEF AttemptsMatch
  <2>5. FinishMatches'
    BY <1>15, <2>1 DEF SinkEnds, FinishMatches, Results, Ended, TaskState, AttemptState,
       Awaiting
  <2>6. CountsMatch'
    BY <1>15, <2>1 DEF SinkEnds, CountsMatch, Results, Ended, TaskState, AttemptState, Awaiting
  <2>7. NewIsUntouched'
    BY <2>1 DEF NewIsUntouched
  <2>8. NoOrphanTier'
    BY <1>15, <2>1 DEF SinkEnds, NoOrphanTier, Results, Ended, TaskState, AttemptState,
       Awaiting
  <2> QED
    BY <2>3, <2>4, <2>5, <2>6, <2>7, <2>8 DEF CascadeInv
<1>16. ASSUME NEW q \in Requests, DiscardBackground(q) PROVE CascadeInv'
  <2>1. UNCHANGED <<run, attempt, outcome, task, finish, cancelled, drain, recorded, sunk>>
    BY <1>16 DEF DiscardBackground, taskVars, bgVars
  <2>2. background' \subseteq Requests
    BY <1>16 DEF DiscardBackground
  <2>3. TypeOK'
    BY <2>1, <2>2 DEF TypeOK, RunType, DrainType
  <2>4. AttemptsMatch'
    BY <2>1 DEF AttemptsMatch
  <2>5. FinishMatches'
    BY <1>16, <2>1 DEF DiscardBackground, FinishMatches, Results, Ended, TaskState,
       AttemptState, Awaiting
  <2>6. CountsMatch'
    BY <2>1 DEF CountsMatch
  <2>7. NewIsUntouched'
    BY <2>1 DEF NewIsUntouched
  <2>8. NoOrphanTier'
    BY <1>16, <2>1 DEF DiscardBackground, NoOrphanTier, Results, Ended, TaskState,
       AttemptState, Awaiting
  <2> QED
    BY <2>3, <2>4, <2>5, <2>6, <2>7, <2>8 DEF CascadeInv
<1>17. ASSUME NEW q \in Requests, NEW p \in Tiers, DiscardCancelled(q, p) PROVE CascadeInv'
  <2>1. UNCHANGED <<run, attempt, outcome, task, finish, background, drain, recorded, sunk>>
    BY <1>17 DEF DiscardCancelled, taskVars, bgVars
  <2>2. cancelled' \subseteq Requests \X Tiers
    BY <1>17 DEF DiscardCancelled
  <2>3. TypeOK'
    BY <2>1, <2>2 DEF TypeOK, RunType, DrainType
  <2>4. AttemptsMatch'
    BY <2>1 DEF AttemptsMatch
  <2>5. FinishMatches'
    BY <2>1 DEF FinishMatches
  <2>6. CountsMatch'
    BY <2>1 DEF CountsMatch
  <2>7. NewIsUntouched'
    BY <2>1 DEF NewIsUntouched
  <2>8. NoOrphanTier'
    BY <1>17, <2>1 DEF DiscardCancelled, NoOrphanTier, Results, Ended, TaskState, AttemptState,
       Awaiting
  <2> QED
    BY <2>3, <2>4, <2>5, <2>6, <2>7, <2>8 DEF CascadeInv
<1>18. ASSUME DrainCall PROVE CascadeInv'
  <2>1. UNCHANGED <<run, attempt, outcome, task, finish, background, cancelled, recorded,
       sunk>>
    BY <1>18 DEF DrainCall, taskVars, bgVars, DrainLoop, Held
  <2>2. drain' \in DrainType
    BY <1>18 DEF DrainCall, DrainLoop, Held, DrainType
  <2>3. TypeOK'
    BY <2>1, <2>2 DEF TypeOK, RunType, DrainType
  <2>4. AttemptsMatch'
    BY <2>1 DEF AttemptsMatch
  <2>5. FinishMatches'
    BY <2>1 DEF FinishMatches
  <2>6. CountsMatch'
    BY <2>1 DEF CountsMatch
  <2>7. NewIsUntouched'
    BY <2>1 DEF NewIsUntouched
  <2>8. NoOrphanTier'
    BY <2>1 DEF NoOrphanTier
  <2> QED
    BY <2>3, <2>4, <2>5, <2>6, <2>7, <2>8 DEF CascadeInv
<1>19. ASSUME DrainResumes PROVE CascadeInv'
  <2>1. UNCHANGED <<run, attempt, outcome, task, finish, background, cancelled, recorded,
       sunk>>
    BY <1>19 DEF DrainResumes, taskVars, bgVars, DrainLoop, Held
  <2>2. drain' \in DrainType
    BY <1>19 DEF DrainResumes, DrainLoop, Held, DrainType
  <2>3. TypeOK'
    BY <2>1, <2>2 DEF TypeOK, RunType, DrainType
  <2>4. AttemptsMatch'
    BY <2>1 DEF AttemptsMatch
  <2>5. FinishMatches'
    BY <2>1 DEF FinishMatches
  <2>6. CountsMatch'
    BY <2>1 DEF CountsMatch
  <2>7. NewIsUntouched'
    BY <2>1 DEF NewIsUntouched
  <2>8. NoOrphanTier'
    BY <2>1 DEF NoOrphanTier
  <2> QED
    BY <2>3, <2>4, <2>5, <2>6, <2>7, <2>8 DEF CascadeInv
<1>20. CASE UNCHANGED vars
  BY <1>20 DEF vars, CascadeInv, TypeOK, AttemptsMatch, FinishMatches, CountsMatch,
       NewIsUntouched, NoOrphanTier
<1> QED
  BY <1>1, <1>2, <1>3, <1>4, <1>5, <1>6, <1>7, <1>8, <1>9, <1>10, <1>11, <1>12, <1>13, <1>14,
       <1>15, <1>16, <1>17, <1>18, <1>19, <1>20 DEF Next, RunStep, AttemptStep, FinishStep

-----------------------------------------------------------------------------
\* CascadeInv holds in every state of every behaviour.
LEMMA CascadeInvariant == Spec => []CascadeInv
  BY CascadeInitial, CascadeStep, PTL DEF Spec

\* The state of the cascade keeps its types.
THEOREM CascadeTypes == Spec => []TypeOK
<1>1. CascadeInv => TypeOK
  BY DEF CascadeInv
<1> QED
  BY CascadeInvariant, <1>1, PTL

\* However many runs share the tiers, and whatever times out, raises or is cancelled in which order,
\* no tier's task is ever left running without somebody that ends it.
THEOREM NoTierOrphaned == Spec => []NoOrphanTier
<1>1. CascadeInv => NoOrphanTier
  BY DEF CascadeInv
<1> QED
  BY CascadeInvariant, <1>1, PTL

\* A late finding is handed to on_rag_findings at most once and only when the answer went out
\* without it, and a RAG hit is recorded as exactly one access.
THEOREM LateFindingsNew == Spec => []LateFindingIsNew
<1>1. CascadeInv => LateFindingIsNew
  <2> SUFFICES ASSUME CascadeInv, NEW q \in Requests
               PROVE  /\ recorded[q] <= 1 /\ sunk[q] <= recorded[q]
                      /\ sunk[q] = 1 => outcome[q][RAG] = "timeout"
                      /\ outcome[q][RAG] = "hit" => recorded[q] = 1 /\ sunk[q] = 0
    BY DEF LateFindingIsNew
  <2>1. finish[q] \in {"none", "waiting", "sinking", "done"}
    BY DEF CascadeInv, TypeOK
  <2>2. CountsMatch /\ FinishMatches
    BY DEF CascadeInv
  <2>3. CASE finish[q] = "none"
    BY <2>2, <2>3 DEF CountsMatch
  <2>4. CASE finish[q] # "none"
    BY <2>1, <2>2, <2>4 DEF CountsMatch, FinishMatches
  <2> QED
    BY <2>3, <2>4
<1> QED
  BY CascadeInvariant, <1>1, PTL

\* When drain() returns, no tier still runs for a run that is over and whose attempts are.
THEOREM DrainCovers == Spec => DrainCoversSettledRuns
<1> DEFINE Covered == \A q \in Requests : run[q].pc = "ended" /\ Resting(q) => NoTierLeft(q)
<1>1. CascadeInv /\ [Next]_vars => [DrainEnds => Covered]_vars
  <2> SUFFICES ASSUME CascadeInv, Next, DrainEnds, NEW q \in Requests, Resting(q)
               PROVE  NoTierLeft(q)
    BY DEF vars, DrainEnds
  <2>1. DrainCall \/ DrainResumes
    <3>1. drain' # drain
      BY DEF DrainEnds
    <3>2. ASSUME NEW r \in Requests,
                 \/ \E d \in Decisions : Start(r, d)
                 \/ RunStep(r) \/ CancelCaller(r)
          PROVE  drain' = drain
      BY <3>2 DEF Start, RunStep, NextTier, SequentialEnd, GatherEnd, GatherRaise, CancelCaller
    <3>3. ASSUME NEW r \in Requests, FinishStep(r) PROVE drain' = drain
      BY <3>3 DEF FinishStep, FinishResumes, FinishDeadline, SinkEnds, DiscardBackground
    <3>4. ASSUME NEW r \in Requests, NEW p \in Tiers,
                 \/ AttemptStep(r, p)
                 \/ \E end \in Ended : TierEnds(r, p, end)
                 \/ TierCleansUp(r, p) \/ DiscardCancelled(r, p)
          PROVE  drain' = drain
      BY <3>4 DEF AttemptStep, AttemptStart, AttemptReturns, AttemptTimeout, AttemptCancelled,
         TierEnds, TierCleansUp, DiscardCancelled
    <3> QED
      BY <3>1, <3>2, <3>3, <3>4 DEF Next
  <2>2. Held = {}
    BY <2>1 DEF DrainCall, DrainResumes, DrainLoop, DrainEnds
  <2>3. background = {} /\ cancelled = {}
    BY <2>2 DEF Held
  <2> QED
    BY <2>3 DEF CascadeInv, NoOrphanTier, NoTierLeft, Resting, Awaiting
<1> QED
  BY CascadeInvariant, <1>1, PTL DEF Spec, DrainCoversSettledRuns
=============================================================================

--------------------------- MODULE LatencyCascade ---------------------------
(***************************************************************************)
(* LatencyCascade: concurrent run() calls over shared tiers, each tier a   *)
(* task of its own behind a timeout; RAG attempts that time out and finish *)
(* in the background; drain().                                             *)
(*                                                                         *)
(* Every action is one stretch of a coroutine between two awaits, or one   *)
(* callback of the event loop.  A done callback runs some time after its   *)
(* task ended, so the sets _background and _cancelled lag behind the tasks *)
(* they hold.  How long a tier takes is left open: a timeout may fire at   *)
(* any time, also when the tier has just finished.                         *)
(***************************************************************************)
EXTENDS Integers, Sequences, FiniteSets

CONSTANTS
  Requests,        \* the run() calls, each made at most once
  Tiers,           \* the paradigms a tier is configured for
  MaxBackground,   \* max_background
  HasSink,         \* whether on_rag_findings is set
  TierRaisesCancelled,  \* whether a tier may raise CancelledError of its own accord
  CallersCancel    \* whether the caller of run() may be cancelled

CAG == "cag"
MAG == "mag"
RAG == "rag"

PARADIGM_ORDER == <<CAG, MAG, RAG>>
Paradigms == {CAG, MAG, RAG}

ASSUME CascadeAssumption ==
  /\ Tiers \subseteq Paradigms /\ RAG \in Tiers
  /\ MaxBackground \in Nat \ {0}
  /\ HasSink \in BOOLEAN /\ TierRaisesCancelled \in BOOLEAN /\ CallersCancel \in BOOLEAN

ASSUME RequestsAssumption == IsFiniteSet(Requests)

VARIABLES
  run,         \* [pc, mode, routed] of each run(): pc is "new", "running", "unwinding" or "ended"
  attempt,     \* the state of each _attempt coroutine
  outcome,     \* the TierAttempt outcome each attempt reported, or "none"
  task,        \* the state of each tier's own task
  finish,      \* the state of each background completion
  background,  \* self._background, by request
  cancelled,   \* self._cancelled, by request and tier
  drain,       \* [pc, on]: a drain() call and the tasks its gather waits for
  recorded,    \* accesses recorded for the request's RAG hit
  sunk         \* findings handed to on_rag_findings for the request

taskVars == <<attempt, outcome, task>>
bgVars   == <<finish, background, recorded, sunk>>
vars == <<run, attempt, outcome, task, finish, background, cancelled, drain, recorded, sunk>>

\* What a tier's task ends with: a result, an exception, or a cancellation.
Results   == {"hit", "partial", "miss"}
Ended     == Results \union {"error", "timeout", "cancelled"}
TaskState == {"none", "running", "cancelling"} \union Ended

\* An attempt is created (a parallel route's task that has not started), waiting for its tier,
\* cancelling (told to cancel, not yet resumed), or over.
AttemptState == {"none", "created", "waiting", "cancelling", "returned", "raised"}
Awaiting == {"created", "waiting", "cancelling"}

\* decision=None, or a mode with the paradigms the router chose: one without a tier included.
Decisions ==
  {[mode |-> "unrouted", routed |-> {}]} \union
  [mode : {"cascade", "parallel"}, routed : SUBSET Paradigms \ {{}}]

-----------------------------------------------------------------------------
(* Routing, and what the collector knows. *)

\* The tiers run() may try: without a decision, all; else the routed ones and RAG.
Eligible(q) ==
  IF run[q].mode = "unrouted" THEN Tiers ELSE Tiers \intersect (run[q].routed \union {RAG})

Satisfied(q) == {p \in Tiers : outcome[q][p] = "hit"}

Untried(q) == {p \in Eligible(q) : attempt[q][p] = "none"}

Rank(p) == CHOOSE k \in 1..3 : PARADIGM_ORDER[k] = p

\* Sequential modes: the loop is over, because of a hit or because nothing is left.
LoopOver(q) ==
  \/ Untried(q) = {}
  \/ run[q].mode = "unrouted" /\ Satisfied(q) # {}
  \/ run[q].mode = "cascade" /\ run[q].routed \subseteq Satisfied(q)

Resting(q) == \A p \in Tiers : attempt[q][p] \notin Awaiting

\* _cancel_tier: cancel() only reaches a task that still runs; the set takes any.
TaskCancelled(q, p) ==
  task' = [task EXCEPT ![q][p] = IF @ = "running" THEN "cancelling" ELSE @]

cancel_tier(q, p) ==
  /\ TaskCancelled(q, p)
  /\ cancelled' = cancelled \union {<<q, p>>}

-----------------------------------------------------------------------------
(* run *)

\* run() is called.  A parallel route creates every attempt at once.
Start(q, d) ==
  /\ run[q].pc = "new"
  /\ run' = [run EXCEPT ![q] = [pc |-> "running", mode |-> d.mode, routed |-> d.routed]]
  /\ attempt' = [attempt EXCEPT ![q] =
       [p \in Tiers |-> IF d.mode = "parallel" /\ p \in d.routed \union {RAG}
                        THEN "created" ELSE "none"]]
  /\ UNCHANGED <<outcome, task, bgVars, cancelled, drain>>

\* The loops of _run_unrouted and _run_routed: the cheapest tier not tried yet.
NextTier(q, p) ==
  /\ run[q].pc = "running" /\ run[q].mode # "parallel"
  /\ Resting(q) /\ \A t \in Tiers : attempt[q][t] # "raised"
  /\ ~LoopOver(q)
  /\ p \in Untried(q) /\ \A t \in Untried(q) : Rank(p) <= Rank(t)
  /\ attempt' = [attempt EXCEPT ![q][p] = "waiting"]
  /\ task' = [task EXCEPT ![q][p] = "running"]
  /\ UNCHANGED <<run, outcome, bgVars, cancelled, drain>>

\* A sequential run returns its result, or lets its attempt's CancelledError through.
SequentialEnd(q) ==
  /\ run[q].pc = "running" /\ run[q].mode # "parallel"
  /\ Resting(q)
  /\ LoopOver(q) \/ \E t \in Tiers : attempt[q][t] = "raised"
  /\ run' = [run EXCEPT ![q].pc = "ended"]
  /\ UNCHANGED <<taskVars, bgVars, cancelled, drain>>

\* gather has every outcome and none was raised: _run_parallel returns, or its own cancellation
\* is raised.
GatherEnd(q) ==
  /\ run[q].pc \in {"running", "unwinding"} /\ run[q].mode = "parallel" /\ Resting(q)
  /\ \A p \in Eligible(q) : attempt[q][p] = "returned"
  /\ run' = [run EXCEPT ![q].pc = "ended"]
  /\ UNCHANGED <<taskVars, bgVars, cancelled, drain>>

\* gather raises at the first attempt that raised, though it is being cancelled itself: the others
\* are told to cancel, and run() raises before any of them has resumed.
GatherRaise(q) ==
  /\ run[q].pc \in {"running", "unwinding"} /\ run[q].mode = "parallel"
  /\ \E p \in Tiers : attempt[q][p] = "raised"
  /\ attempt' = [attempt EXCEPT ![q] =
       [p \in Tiers |-> IF @[p] \in Awaiting THEN "cancelling" ELSE @[p]]]
  /\ run' = [run EXCEPT ![q].pc = "ended"]
  /\ UNCHANGED <<outcome, task, bgVars, cancelled, drain>>

\* The caller of run() is cancelled: what it awaits is told to cancel.  A gather only ends once
\* one of its children has raised or all have ended.
CancelCaller(q) ==
  /\ CallersCancel
  /\ run[q].pc = "running" /\ ~Resting(q)
  /\ attempt' = [attempt EXCEPT ![q] =
       [p \in Tiers |-> IF @[p] \in Awaiting THEN "cancelling" ELSE @[p]]]
  /\ run' = [run EXCEPT ![q].pc = IF run[q].mode = "parallel" THEN "unwinding" ELSE @]
  /\ UNCHANGED <<outcome, task, bgVars, cancelled, drain>>

-----------------------------------------------------------------------------
(* _attempt *)

\* A parallel attempt's task takes its first step.
AttemptStart(q, p) ==
  /\ attempt[q][p] = "created"
  /\ attempt' = [attempt EXCEPT ![q][p] = "waiting"]
  /\ task' = [task EXCEPT ![q][p] = "running"]
  /\ UNCHANGED <<run, outcome, bgVars, cancelled, drain>>

\* The tier ended in time.  A TimeoutError of the tier's own is AttemptTimeout's.  Python 3.11's
\* wait_for also returns a result that is there when a cancellation arrives.
AttemptReturns(q, p) ==
  /\ attempt[q][p] \in {"waiting", "cancelling"}
  /\ task[q][p] \in Results \union {"error"}
  /\ attempt' = [attempt EXCEPT ![q][p] = "returned"]
  /\ outcome' = [outcome EXCEPT ![q][p] = task[q][p]]
  /\ recorded' = IF p = RAG /\ task[q][p] = "hit" THEN [recorded EXCEPT ![q] = @ + 1] ELSE recorded
  /\ UNCHANGED <<run, task, finish, background, sunk, cancelled, drain>>

HasRoom == Cardinality(background) < MaxBackground

\* Fault: a timed-out tier is left alone.
GiveUp_NoCancel(q, p) ==
  \/ /\ p = RAG /\ HasSink /\ HasRoom
     /\ finish' = [finish EXCEPT ![q] = "waiting"]
     /\ background' = background \union {q}
     /\ UNCHANGED <<task, cancelled>>
  \/ /\ ~(p = RAG /\ HasSink /\ HasRoom)
     /\ UNCHANGED <<task, cancelled, finish, background>>

\* What becomes of a tier that timed out: a RAG attempt may go on in the background.
GiveUp(q, p) ==
  \/ /\ p = RAG /\ HasSink /\ HasRoom
     /\ finish' = [finish EXCEPT ![q] = "waiting"]
     /\ background' = background \union {q}
     /\ UNCHANGED <<task, cancelled>>
  \/ /\ ~(p = RAG /\ HasSink /\ HasRoom)
     /\ cancel_tier(q, p)
     /\ UNCHANGED <<finish, background>>

\* The tier's timeout fires, or the tier raised a TimeoutError (which, like a result, may still
\* win over a cancellation).
AttemptTimeout(q, p) ==
  /\ attempt[q][p] = "waiting" \/ (attempt[q][p] = "cancelling" /\ task[q][p] = "timeout")
  /\ attempt' = [attempt EXCEPT ![q][p] = "returned"]
  /\ outcome' = [outcome EXCEPT ![q][p] = "timeout"]
  /\ GiveUp(q, p)
  /\ UNCHANGED <<run, recorded, sunk, drain>>

\* A cancellation reaches the attempt, or its tier raised one: it cancels the tier and raises.
\* An attempt cancelled before its first step has no tier to cancel.
AttemptCancelled(q, p) ==
  /\ attempt[q][p] = "cancelling" \/ (attempt[q][p] = "waiting" /\ task[q][p] = "cancelled")
  /\ attempt' = [attempt EXCEPT ![q][p] = "raised"]
  /\ IF task[q][p] = "none" THEN UNCHANGED <<task, cancelled>> ELSE cancel_tier(q, p)
  /\ UNCHANGED <<run, outcome, bgVars, drain>>

-----------------------------------------------------------------------------
(* The tiers' own tasks: external. *)

\* A running tier ends by itself.  RAG knows no partial hit.
TierEnds(q, p, end) ==
  /\ task[q][p] = "running"
  /\ end = "partial" => p # RAG
  /\ end = "cancelled" => TierRaisesCancelled
  /\ task' = [task EXCEPT ![q][p] = end]
  /\ UNCHANGED <<run, attempt, outcome, bgVars, cancelled, drain>>

\* A cancelled tier has cleaned up.
TierCleansUp(q, p) ==
  /\ task[q][p] = "cancelling"
  /\ task' = [task EXCEPT ![q][p] = "cancelled"]
  /\ UNCHANGED <<run, attempt, outcome, bgVars, cancelled, drain>>

-----------------------------------------------------------------------------
(* _finish_in_background, and the done callbacks *)

\* Fault: the late result is handed on before anyone looks whether it is a hit.
FinishResumes_AnyResult(q) ==
  /\ finish[q] = "waiting"
  /\ task[q][RAG] \in Ended
  /\ sunk' = [sunk EXCEPT ![q] = @ + 1]
  /\ finish' = [finish EXCEPT ![q] = "sinking"]
  /\ UNCHANGED <<run, taskVars, background, recorded, cancelled, drain>>

\* finish() resumes with the late result: a hit is recorded and handed to the sink.
FinishResumes(q) ==
  /\ finish[q] = "waiting"
  /\ task[q][RAG] \in Ended
  /\ \/ /\ task[q][RAG] = "hit"
        /\ recorded' = [recorded EXCEPT ![q] = @ + 1]
        /\ sunk' = [sunk EXCEPT ![q] = @ + 1]
        /\ finish' = [finish EXCEPT ![q] = "sinking"]
     \/ /\ task[q][RAG] # "hit"
        /\ finish' = [finish EXCEPT ![q] = "done"]
        /\ UNCHANGED <<recorded, sunk>>
  /\ UNCHANGED <<run, taskVars, background, cancelled, drain>>

\* Fault: the background completion waits without a deadline.
FinishDeadline_Never(q) ==
  /\ FALSE
  /\ UNCHANGED <<run, attempt, outcome, task, bgVars, cancelled, drain>>

\* background_timeout passed: wait_for cancels the task, and waits for it.
FinishDeadline(q) ==
  /\ finish[q] = "waiting"
  /\ task[q][RAG] = "running"
  /\ TaskCancelled(q, RAG)
  /\ UNCHANGED <<run, attempt, outcome, bgVars, cancelled, drain>>

\* on_rag_findings returned or raised.
SinkEnds(q) ==
  /\ finish[q] = "sinking"
  /\ finish' = [finish EXCEPT ![q] = "done"]
  /\ UNCHANGED <<run, taskVars, background, recorded, sunk, cancelled, drain>>

DiscardBackground(q) ==
  /\ q \in background /\ finish[q] = "done"
  /\ background' = background \ {q}
  /\ UNCHANGED <<run, taskVars, finish, recorded, sunk, cancelled, drain>>

DiscardCancelled(q, p) ==
  /\ <<q, p>> \in cancelled /\ task[q][p] \in Ended
  /\ cancelled' = cancelled \ {<<q, p>>}
  /\ UNCHANGED <<run, taskVars, bgVars, drain>>

-----------------------------------------------------------------------------
(* drain *)

\* Fault: only background completions are waited for.
Held_BackgroundOnly == {<<q, "finish">> : q \in background}

\* The tasks drain's gather takes from the two sets.
Held == {<<q, "finish">> : q \in background} \union cancelled

\* The while test: return, or gather what the sets hold now.
DrainLoop ==
  drain' = IF Held = {} THEN [pc |-> "returned", on |-> {}]
           ELSE [pc |-> "waiting", on |-> Held]

DrainCall ==
  /\ drain.pc = "idle"
  /\ DrainLoop
  /\ UNCHANGED <<run, taskVars, bgVars, cancelled>>

\* gather is over once all its tasks are; their discards were scheduled before it.
DrainResumes ==
  /\ drain.pc = "waiting"
  /\ drain.on \intersect Held = {}
  /\ DrainLoop
  /\ UNCHANGED <<run, taskVars, bgVars, cancelled>>

-----------------------------------------------------------------------------
Init ==
  /\ run = [q \in Requests |-> [pc |-> "new", mode |-> "unrouted", routed |-> {}]]
  /\ attempt = [q \in Requests |-> [p \in Tiers |-> "none"]]
  /\ outcome = [q \in Requests |-> [p \in Tiers |-> "none"]]
  /\ task = [q \in Requests |-> [p \in Tiers |-> "none"]]
  /\ finish = [q \in Requests |-> "none"]
  /\ background = {} /\ cancelled = {}
  /\ drain = [pc |-> "idle", on |-> {}]
  /\ recorded = [q \in Requests |-> 0] /\ sunk = [q \in Requests |-> 0]

RunStep(q) ==
  \/ \E p \in Tiers : NextTier(q, p)
  \/ SequentialEnd(q) \/ GatherEnd(q) \/ GatherRaise(q)

AttemptStep(q, p) ==
  AttemptStart(q, p) \/ AttemptReturns(q, p) \/ AttemptTimeout(q, p) \/ AttemptCancelled(q, p)

FinishStep(q) == FinishResumes(q) \/ FinishDeadline(q) \/ SinkEnds(q) \/ DiscardBackground(q)

Next ==
  \/ \E q \in Requests :
       \/ \E d \in Decisions : Start(q, d)
       \/ RunStep(q) \/ CancelCaller(q) \/ FinishStep(q)
       \/ \E p \in Tiers : \/ AttemptStep(q, p)
                           \/ \E end \in Ended : TierEnds(q, p, end)
                           \/ TierCleansUp(q, p)
                           \/ DiscardCancelled(q, p)
  \/ DrainCall \/ DrainResumes

Spec == Init /\ [][Next]_vars

\* The event loop runs what is ready and its timers fire.  A tier may hang for ever, but not in
\* its cleanup, and the sink returns.
Fairness ==
  /\ \A q \in Requests : WF_vars(RunStep(q)) /\ WF_vars(FinishStep(q))
  /\ \A q \in Requests, p \in Tiers :
       WF_vars(AttemptStep(q, p)) /\ WF_vars(TierCleansUp(q, p)) /\ WF_vars(DiscardCancelled(q, p))
  /\ WF_vars(DrainResumes)

FairSpec == Spec /\ Fairness

-----------------------------------------------------------------------------
\* The type invariant of the cascade's state.
TypeOK ==
  /\ run \in [Requests -> [pc : {"new", "running", "unwinding", "ended"},
                           mode : {"unrouted", "cascade", "parallel"},
                           routed : SUBSET Paradigms]]
  /\ attempt \in [Requests -> [Tiers -> AttemptState]]
  /\ outcome \in [Requests -> [Tiers -> Results \union {"none", "error", "timeout"}]]
  /\ task \in [Requests -> [Tiers -> TaskState]]
  /\ finish \in [Requests -> {"none", "waiting", "sinking", "done"}]
  /\ background \subseteq Requests
  /\ cancelled \subseteq Requests \X Tiers
  /\ drain \in [pc : {"idle", "waiting", "returned"},
                on : SUBSET ((Requests \X {"finish"}) \union (Requests \X Tiers))]
  /\ recorded \in [Requests -> Nat] /\ sunk \in [Requests -> Nat]

\* Every tier that still runs has somebody to end it: an attempt that waits for it or is about to
\* cancel it, a background completion, or the set of cancelled tiers.
NoOrphanTier ==
  \A q \in Requests, p \in Tiers :
    task[q][p] \in {"running", "cancelling"} =>
      \/ attempt[q][p] \in {"waiting", "cancelling"}
      \/ <<q, p>> \in cancelled
      \/ p = RAG /\ q \in background /\ finish[q] = "waiting"

\* A finding reaches on_rag_findings at most once and only if the answer went out without it, and
\* a RAG hit is counted as one access, in the answer or in the background.
LateFindingIsNew ==
  \A q \in Requests :
    /\ recorded[q] <= 1 /\ sunk[q] <= recorded[q]
    /\ sunk[q] = 1 => outcome[q][RAG] = "timeout"
    /\ outcome[q][RAG] = "hit" => recorded[q] = 1 /\ sunk[q] = 0

NoTierLeft(q) == \A p \in Tiers : task[q][p] \notin {"running", "cancelling"}

DrainEnds == drain.pc # "returned" /\ drain'.pc = "returned"

\* When drain() returns it leaves no tier behind of a run that is over and whose attempts
\* have all seen their own end.  That is every run that answered, and every one its caller
\* cancelled.
DrainCoversSettledRuns ==
  [][DrainEnds => \A q \in Requests : run[q].pc = "ended" /\ Resting(q) => NoTierLeft(q)]_vars

\* Every run and every drain comes to an end, though tiers and the RAG backend hang.
RunsEnd ==
  /\ \A q \in Requests : run[q].pc = "running" ~> run[q].pc = "ended"
  /\ drain.pc = "waiting" ~> drain.pc = "returned"
=============================================================================

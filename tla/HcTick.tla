------------------------------- MODULE HcTick -------------------------------
(***************************************************************************)
(* The controller's side of HarvestContainers: hcTick of                   *)
(* cmd/mitigation-controller/formula.go holds HC on or off with            *)
(* consecutive-window persistence on e_iso, calling the actuator of        *)
(* HcActuator; main restores it on an orderly shutdown.  One target, so    *)
(* one goroutine: the tick waits for the call it made.                     *)
(***************************************************************************)
EXTENDS HcActuator

CONSTANTS UpWindows, DownWindows   \* hc.upWindows, hc.downWindows

ASSUME WindowsAssumption == UpWindows \in Nat \ {0} /\ DownWindows \in Nat \ {0}

VARIABLES
  eIso,           \* last tick's mean e_iso: over thetaOn, under thetaOff, between
  hcHeld,         \* formulaState.hcHeld
  upRun, downRun, \* hcUpRun, hcDownRun, saturated at their thresholds
  armFile, armed, \* the arm file exists; checkArmed's latch
  stopping,       \* SIGTERM seen: the deferred Restore is running
  unsure,         \* history: a call failed since the last Restore that did not
  beat            \* flips on every tick: no tick is a stuttering step

tickVars == <<eIso, hcHeld, upRun, downRun, armFile, armed, stopping,
             unsure, beat>>
allVars  == <<vars, tickVars>>

Levels == {"high", "mid", "low"}

\* A run longer than its threshold is not told apart from the threshold.
Saturate(n, bound) == IF n > bound THEN bound ELSE n

UpRun(level)   == IF level = "high" THEN Saturate(upRun + 1, UpWindows) ELSE 0
DownRun(level) == IF level = "low" THEN Saturate(downRun + 1, DownWindows) ELSE 0

Free == pc = "idle" /\ ret = NoRet /\ ~stopping

\* The counters run and the arm latch closes on every tick; a disarmed tick
\* dispatches nothing.
Count(level) ==
  /\ Free
  /\ eIso' = level /\ beat' = ~beat
  /\ armed' = (armed \/ armFile)
  /\ UNCHANGED <<hcHeld, armFile, stopping, unsure>>

TickApply(t, level) ==
  /\ Count(level) /\ armed'
  /\ ~hcHeld /\ UpRun(level) >= UpWindows
  /\ upRun' = 0 /\ downRun' = DownRun(level)
  /\ CallApply(t)

\* Bug: the run is taken for acted on, but nothing is restored.
TickRestoreSkipped(level) ==
  /\ Count(level) /\ armed'
  /\ hcHeld /\ DownRun(level) >= DownWindows
  /\ upRun' = UpRun(level) /\ downRun' = 0
  /\ UNCHANGED vars

TickRestore(level) ==
  /\ Count(level) /\ armed'
  /\ hcHeld /\ DownRun(level) >= DownWindows
  /\ upRun' = UpRun(level) /\ downRun' = 0
  /\ CallRestore

\* Bug: while HC is held nothing is applied again.
TickReapplyNever(t, level) ==
  /\ Count(level) /\ armed'
  /\ hcHeld /\ DownRun(level) < DownWindows
  /\ upRun' = UpRun(level) /\ downRun' = DownRun(level)
  /\ UNCHANGED vars

\* Held and hc.reapply has passed: register the aggressors that appeared.
TickReapply(t, level) ==
  /\ Count(level) /\ armed'
  /\ hcHeld /\ DownRun(level) < DownWindows
  /\ upRun' = UpRun(level) /\ downRun' = DownRun(level)
  /\ CallApply(t)

TickOnly(level) ==
  /\ Count(level)
  /\ armed' => IF hcHeld THEN DownRun(level) < DownWindows
                         ELSE UpRun(level) < UpWindows
  /\ upRun' = UpRun(level) /\ downRun' = DownRun(level)
  /\ UNCHANGED vars

Tick ==
  \E level \in Levels :
    \/ \E t \in Targets : TickApply(t, level) \/ TickReapply(t, level)
    \/ TickRestore(level)
    \/ TickOnly(level)

Unsure == ret.err \/ (unsure /\ ret.kind # "restore")

\* Bug: a re-apply that changed nothing counts as not held.
HandleResultLast ==
  /\ pc = "idle" /\ ret # NoRet /\ ~stopping
  /\ ret' = NoRet
  /\ hcHeld' = ret.applied
  /\ unsure' = Unsure
  /\ UNCHANGED <<podVars, annVars, hostVars, listenerVars, unitVars, pc, op, budget,
                 eIso, upRun, downRun, armFile, armed, stopping, beat>>

\* A call's result reaches hcTick; after an error the state is as before the
\* call, and a re-apply's result is ignored.
HandleResult ==
  /\ pc = "idle" /\ ret # NoRet /\ ~stopping
  /\ ret' = NoRet
  /\ hcHeld' = CASE ret.err -> hcHeld
                 [] ret.kind = "restore" -> FALSE
                 [] OTHER -> hcHeld \/ ret.applied
  /\ unsure' = Unsure
  /\ UNCHANGED <<podVars, annVars, hostVars, listenerVars, unitVars, pc, op, budget,
                 eIso, upRun, downRun, armFile, armed, stopping, beat>>

\* A call whose context is cancelled sends no further patch, message or systemctl,
\* and so returns, but what it writes to the host it goes on writing: Apply the
\* Monitor's cores or the cpuset of the pod it has just recorded, Restore the
\* CPUs of the aggressors it listed, whose annotations stay.  (A failed write of
\* these is left out.)
HandedBack(a) ==
  LET c == [cpuset[a] EXCEPT !.pod = Wanted(aggAnn[a].pod, Online)] IN
  [c EXCEPT !.ctr = Wanted(aggAnn[a].ctr, EffPod(c))]

ConfinedOn(a) ==
  LET c == IF pc = "narrowPod" THEN [cpuset[a] EXCEPT !.pod = Allowed(op.target)]
           ELSE cpuset[a] IN
  [c EXCEPT !.ctr = Allowed(op.target)]

CancelledCall ==
  LET handed == IF pc \in RestoreLabels THEN Running(aggPod, Aggs) \cap op.todo ELSE {}
      caught == IF pc \in {"narrowPod", "narrowCtr"}
                THEN Running(aggPod, Aggs) \cap {op.cur} ELSE {} IN
  /\ cpuset' = [a \in Aggs |-> IF a \in handed THEN HandedBack(a)
                               ELSE IF a \in caught THEN ConfinedOn(a) ELSE cpuset[a]]
  /\ pinned' = pinned \ handed
  /\ monitor' = IF pc = "monitor" THEN op.target ELSE monitor

\* Bug: main exits without the Restore.
ShutdownWithoutRestore ==
  /\ pc # "down" /\ ~stopping
  /\ pc' = "idle" /\ op' = NoOp /\ ret' = NoRet
  /\ CancelledCall
  /\ stopping' = TRUE
  /\ UNCHANGED <<podVars, annVars, primary, secondaries, unitVars, budget, eIso, hcHeld,
                 upRun, downRun, armFile, armed, unsure, beat>>

\* SIGTERM cancels the context of the call in flight, at whatever step of it; the
\* tick loops end, and main restores under a context of its own.  Neither the end
\* of the call nor the list depends on what else happens in between.
Shutdown ==
  /\ pc # "down" /\ ~stopping
  /\ ListRecorded
  /\ CancelledCall
  /\ stopping' = TRUE
  /\ UNCHANGED <<eIso, hcHeld, upRun, downRun, armFile, armed, unsure, beat>>

\* A new process starts from a fresh formulaState.
FreshState ==
  /\ hcHeld' = FALSE /\ upRun' = 0 /\ downRun' = 0
  /\ armed' = FALSE /\ stopping' = FALSE /\ unsure' = FALSE
  /\ UNCHANGED <<eIso, armFile, beat>>

Exit ==
  /\ pc = "idle" /\ stopping
  /\ pc' = "down" /\ op' = NoOp /\ ret' = NoRet
  /\ FreshState
  /\ UNCHANGED <<podVars, annVars, hostVars, listenerVars, unitVars, budget>>

Arm ==
  /\ ~armFile /\ armFile' = TRUE
  /\ UNCHANGED <<vars, eIso, hcHeld, upRun, downRun, armed, stopping, unsure, beat>>

Outside == VictimChurn \/ AggChurn \/ Rebalance \/ BalancerDies \/ StaticByHand

TickInit ==
  /\ Init
  /\ eIso = "mid" /\ hcHeld = FALSE /\ upRun = 0 /\ downRun = 0
  /\ armFile \in BOOLEAN /\ armed = FALSE /\ stopping = FALSE
  /\ unsure = FALSE /\ beat = FALSE

TickNext ==
  \/ Tick \/ HandleResult \/ Shutdown \/ Exit \/ Arm
  \/ (Apply \/ Restore \/ Restart \/ Outside) /\ UNCHANGED tickVars
  \/ Crash /\ FreshState

TickSpec == TickInit /\ [][TickNext]_allVars

\* A victim of the target runs, so that the tick has its scores (a tick may
\* also act on the last scores of a pod that is gone).
Scored == \E t \in Targets : RunningVictims(t) # {}

\* While a victim runs the ticker fires again and again, hc.reapply passes
\* again and again while HC is held, and a call that was made goes on.
TickFairness ==
  /\ WF_allVars(Scored /\ Tick)
  /\ SF_allVars(Scored /\ \E t \in Targets, level \in Levels : TickReapply(t, level))
  /\ WF_allVars((Apply \/ Restore \/ Restart) /\ UNCHANGED tickVars)
  /\ WF_allVars(HandleResult) /\ WF_allVars(Exit)

TickFairSpec == TickSpec /\ TickFairness

-----------------------------------------------------------------------------
\* hcHeld is what the controller believes between calls, formed from their
\* results.  Whatever errors they returned, a hold it believes in is on record, so
\* that the Restore it will dispatch finds it, and if it believes in none the node
\* is released or on record for Reconcile.  While no call has failed since the
\* last Restore or Reconcile that did not, the belief is the truth: held means
\* that the Listener has the Primary and the Balancer runs, not held that nothing
\* of HC is left on the node.  The failing calls are the host's (class host).  What
\* Apply and Restore only log is excluded, the classes api, systemd and cgroup; so
\* is a failed Reset (HcResetLost), and a crash followed by a failed Reconcile:
\* the next Apply takes what the crash left narrowed for the original.
BeliefIsTruth ==
  Free =>
    /\ Released \/ AnnotatedVictims # {}
    /\ hcHeld => AnnotatedVictims # {}
    /\ ~unsure => IF hcHeld THEN primary # NoTarget /\ balancer ELSE Released

\* Restore after downWindows ticks below thetaOff (formula.go:564-567): once
\* e_iso stays low, and no call has failed since the last Restore that did not,
\* the node is released for good.
LowReleases == <>[](eIso = "low" /\ ~unsure) => <>[]Released

\* An armed controller that sees e_iso low on every tick does not leave the
\* victims registered for ever (formula.go:564-566: "Restore after
\* hc.downWindows ticks below hc.thetaOff").
LowIsActedOn == ~<>[](eIso = "low" /\ armed /\ AnnotatedVictims # {})

\* Once e_iso stays high and the controller stays up, armed, every aggressor
\* on the node is registered, the ones that appear while HC is held too.
HighRegistersAll ==
  <>[](eIso = "high" /\ armed /\ RunningVictims(CHOOSE t \in Targets : TRUE) # {})
    => <>[](Running(aggPod, Aggs) \subseteq secondaries)

\* And the Balancer that dies, or whose start fails, is started again.
HighKeepsBalancer ==
  <>[](/\ eIso = "high" /\ armed
       /\ RunningVictims(CHOOSE t \in Targets : TRUE) # {}
       /\ Running(aggPod, Aggs) # {})
    => <>[]balancer

\* An orderly exit whose Restore reported success leaves a released node, whatever
\* call SIGTERM cut short (main.go:218-220) and whichever call failed before.
ExitReleases ==
  [][stopping /\ pc = "idle" /\ pc' = "down" /\ ~ret.err => Released]_allVars
=============================================================================

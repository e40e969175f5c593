-------------------------- MODULE PolicyLoopProofs --------------------------
(***************************************************************************)
(* Rules mode, for all policy files, cooldowns, edits, faults and limits:  *)
(* a rule fires once per cooldown, and the baseline on record is the pod's *)
(* own limit as long as the patch that records it does not fail.           *)
(***************************************************************************)
EXTENDS PolicyLoop, TLAPS

-----------------------------------------------------------------------------
(***************************************************************************)
(* Cooldowns.  What is left of one and what has passed of it make it up,   *)
(* through reloads and crashes.                                            *)
(***************************************************************************)
CooldownInv ==
  /\ left \in [Names -> Nat] /\ since \in [Names -> Nat]
  /\ \A r \in Names : left[r] + since[r] = Cooldown[r]

LEMMA CooldownInit == LoopInit => CooldownInv
BY PolicyAssumption DEF LoopInit, CooldownInv, NoneLeft

LEMMA FiredHasElapsed ==
  ASSUME NEW scores, NEW r \in Fired(scores)
  PROVE  left[r] = 0
BY DEF Fired, Fires, Elapsed

LEMMA TickCools ==
  ASSUME CooldownInv, Tick
  PROVE  CooldownInv' /\ \A r \in Names : since'[r] < since[r] => since[r] = Cooldown[r]
<1>1. PICK scores : Evaluate(scores)
  BY DEF Tick
<1> DEFINE fired == Fired(scores)
<1>2. /\ left' = [r \in Names |-> IF r \in fired THEN Cooldown[r] ELSE left[r]]
      /\ since' = [r \in Names |-> IF r \in fired THEN 0 ELSE since[r]]
      /\ \A r \in fired : left[r] = 0
  BY <1>1, FiredHasElapsed DEF Evaluate
<1> HIDE DEF fired
<1> QED
  BY <1>2, PolicyAssumption DEF CooldownInv

LEMMA PassCools ==
  ASSUME CooldownInv, Pass
  PROVE  CooldownInv' /\ \A r \in Names : since'[r] < since[r] => since[r] = Cooldown[r]
<1>1. ASSUME NEW r \in Names
      PROVE  /\ left'[r] \in Nat /\ since'[r] \in Nat /\ left'[r] + since'[r] = Cooldown[r]
             /\ ~(since'[r] < since[r])
  BY PolicyAssumption DEF Pass, CooldownInv
<1>2. left' \in [Names -> Nat] /\ since' \in [Names -> Nat]
  BY <1>1 DEF Pass
<1> QED
  BY <1>1, <1>2 DEF CooldownInv

LEMMA CrashCools ==
  ASSUME CooldownInv, Crash
  PROVE  CooldownInv' /\ \A r \in Names : since'[r] < since[r] => since[r] = Cooldown[r]
BY PolicyAssumption DEF Crash, CooldownInv, NoneLeft

LEMMA LoopCools ==
  ASSUME CooldownInv, [LoopNext]_loopVars
  PROVE  CooldownInv' /\ \A r \in Names : since'[r] < since[r] => since[r] = Cooldown[r]
<1>1. CASE Tick \/ Pass \/ Crash
  BY <1>1, TickCools, PassCools, CrashCools
<1>2. CASE ~(Tick \/ Pass \/ Crash)
  <2>1. UNCHANGED <<left, since>>
    BY <1>2 DEF LoopNext, loopVars, engineVars, Edit, Subscribe, Schedule, Fire, Reload,
                Dispatch, CallStep, Start
  <2> QED
    BY <2>1 DEF CooldownInv
<1> QED
  BY <1>1, <1>2

\* A rule fires once per cooldown, across reloads of the file and whatever the
\* documents in between made of the rule (engine.go:121-124).
THEOREM RulesFireOncePerCooldown == LoopSpec => FiresOncePerCooldown
<1>1. CooldownInv /\ [LoopNext]_loopVars =>
        CooldownInv' /\ [\A r \in Names : since'[r] < since[r] => since[r] = Cooldown[r]]_loopVars
  BY LoopCools
<1> QED
  BY <1>1, CooldownInit, PTL DEF LoopSpec, FiresOncePerCooldown

-----------------------------------------------------------------------------
(***************************************************************************)
(* The baseline.  By control point: what a call that is about to record,   *)
(* to resize, to return the limit or to empty the record knows.            *)
(***************************************************************************)
BaselineInv ==
  /\ call = [pc |-> call.pc, want |-> call.want, cur |-> call.cur, restored |-> call.restored]
  /\ ann \in {NoAnn, Empty, Orig}
  /\ ann = NoAnn => limit = Orig
  /\ At("annotate") => ann = NoAnn /\ call.cur = Orig
  /\ At("resize") => ann # NoAnn
  /\ At("return") => ann = Orig /\ call.want = Orig
  /\ At("clear") => limit = Orig /\ ann = Orig

\* The patch that records the baseline is best effort; here it succeeds.
AnnotationsSucceed == "annotate" \notin Faults

LEMMA OrigIsNoMark == Orig # NoAnn /\ Orig # Empty /\ NoAnn # Empty
BY VerticalAssumption

LEMMA BaselineInit == LoopInit => BaselineInv
BY DEF LoopInit, VerticalInit, BaselineInv, NoCall, At

\* A call that starts or ends without a write, at a control point with nothing
\* to know, keeps the invariant.
LEMMA CallBegins ==
  ASSUME BaselineInv, limit' = limit, ann' = ann,
         NEW pc, NEW want, NEW cur, NEW restored,
         call' = [pc |-> pc, want |-> want, cur |-> cur, restored |-> restored],
         \/ pc = "idle"
         \/ pc = "annotate" /\ ann = NoAnn /\ cur = limit
         \/ pc = "resize" /\ ann # NoAnn
         \/ pc = "return" /\ ann = Orig /\ want = ann
  PROVE  BaselineInv'
<1>1. call'.pc = pc /\ call'.want = want /\ call'.cur = cur /\ call'.restored = restored
  OBVIOUS
<1> QED
  BY <1>1 DEF BaselineInv, At

LEMMA ApplyKeepsBaseline ==
  ASSUME BaselineInv, NEW action, ApplyGet(action)
  PROVE  BaselineInv'
<1> DEFINE want == Desired(action, limit)
<1>1. /\ limit' = limit /\ ann' = ann
      /\ \/ call' = NoCall
         \/ call' = [NoCall EXCEPT !.pc = IF ann = NoAnn THEN "annotate" ELSE "resize",
                                   !.want = want, !.cur = limit]
  BY DEF ApplyGet
<1> HIDE DEF want
<1>2. CASE call' = NoCall
  BY <1>1, <1>2, CallBegins DEF NoCall
<1>3. CASE call' # NoCall
  <2>1. call' = [pc |-> IF ann = NoAnn THEN "annotate" ELSE "resize", want |-> want,
                 cur |-> limit, restored |-> FALSE]
    BY <1>1, <1>3 DEF NoCall
  <2> QED
    BY <1>1, <2>1, CallBegins
<1> QED
  BY <1>2, <1>3

LEMMA RestoreKeepsBaseline ==
  ASSUME BaselineInv, RestoreGet
  PROVE  BaselineInv'
<1>1. /\ limit' = limit /\ ann' = ann
      /\ \/ call' = NoCall
         \/ call' = [NoCall EXCEPT !.restored = TRUE]
         \/ ann \notin {NoAnn, Empty} /\ call' = [NoCall EXCEPT !.pc = "return", !.want = ann]
  BY DEF RestoreGet
<1>2. CASE call' = NoCall
  BY <1>1, <1>2, CallBegins DEF NoCall
<1>3. CASE call' = [NoCall EXCEPT !.restored = TRUE]
  <2>1. call' = [pc |-> "idle", want |-> 0, cur |-> 0, restored |-> TRUE]
    BY <1>3 DEF NoCall
  <2> QED
    BY <1>1, <2>1, CallBegins
<1>4. CASE ann \notin {NoAnn, Empty} /\ call' = [NoCall EXCEPT !.pc = "return", !.want = ann]
  <2>1. call' = [pc |-> "return", want |-> ann, cur |-> 0, restored |-> FALSE]
    BY <1>4 DEF NoCall
  <2>2. ann = Orig
    BY <1>4 DEF BaselineInv
  <2> QED
    BY <1>1, <2>1, <2>2, CallBegins
<1> QED
  BY <1>1, <1>2, <1>3, <1>4

LEMMA CallStepKeepsBaseline ==
  ASSUME BaselineInv, AnnotationsSucceed, CallStep
  PROVE  BaselineInv'
<1>1. CASE AnnotateBaseline
  <2>1. ann' = Orig /\ limit' = limit /\ call' = [call EXCEPT !.pc = "resize"]
    BY <1>1 DEF AnnotateBaseline, Attempt, CanFail, AnnotationsSucceed, BaselineInv
  <2> QED
    BY <2>1, OrigIsNoMark DEF BaselineInv, At
<1>2. CASE PatchResize
  <2>1. ann' = ann /\ ann # NoAnn /\ call' = NoCall
    BY <1>2 DEF PatchResize, BaselineInv
  <2> QED
    BY <2>1 DEF BaselineInv, NoCall, At
<1>3. CASE RestoreResize
  <2>1. /\ ann' = ann /\ ann = Orig /\ call.want = Orig /\ At("return")
        /\ \/ limit' = Orig /\ call' = [call EXCEPT !.pc = "clear"]
           \/ limit' \in {limit, Orig} /\ call' = NoCall
    BY <1>3 DEF RestoreResize, BaselineInv
  <2> QED
    BY <2>1, OrigIsNoMark DEF BaselineInv, NoCall, At
<1>4. CASE RestoreClear
  <2>1. /\ limit' = limit /\ limit = Orig /\ ann = Orig /\ ann' \in {Empty, ann}
        /\ call' = [NoCall EXCEPT !.restored = TRUE]
    BY <1>4 DEF RestoreClear, BaselineInv
  <2> QED
    BY <2>1, OrigIsNoMark DEF BaselineInv, NoCall, At
<1> QED
  BY <1>1, <1>2, <1>3, <1>4 DEF CallStep

LEMMA DispatchIs ==
  ASSUME Dispatch
  PROVE  ApplyGet(Head(todo)) \/ RestoreGet \/ UNCHANGED verticalVars
BY DEF Dispatch

LEMMA LoopKeepsBaseline ==
  ASSUME BaselineInv, AnnotationsSucceed, [LoopNext]_loopVars
  PROVE  BaselineInv'
<1>1. CASE Dispatch
  <2>1. CASE UNCHANGED verticalVars
    BY <2>1 DEF verticalVars, BaselineInv, At
  <2> QED
    BY <1>1, <2>1, DispatchIs, ApplyKeepsBaseline, RestoreKeepsBaseline
<1>2. CASE Crash
  BY <1>2 DEF Crash, BaselineInv, NoCall, At
<1>3. CASE CallStep
  BY <1>3, CallStepKeepsBaseline
<1>4. CASE ~(Dispatch \/ Crash \/ CallStep)
  <2>1. UNCHANGED <<limit, ann, call>>
    BY <1>4 DEF LoopNext, loopVars, verticalVars, Edit, Subscribe, Schedule, Fire, Reload,
                Tick, Pass, Start
  <2> QED
    BY <2>1 DEF BaselineInv, At
<1> QED
  BY <1>1, <1>2, <1>3, <1>4

\* When the patch that records the baseline does not fail, what is on record is
\* the pod's own limit, whatever else fails and wherever the process crashes
\* (vertical.go:135, 164).
THEOREM BaselineStaysOriginal ==
  AnnotationsSucceed => (LoopSpec => []BaselineIsOriginal)
<1> SUFFICES ASSUME AnnotationsSucceed PROVE LoopSpec => []BaselineIsOriginal
  OBVIOUS
<1>1. BaselineInv /\ [LoopNext]_loopVars => BaselineInv'
  BY LoopKeepsBaseline
<1>2. BaselineInv => BaselineIsOriginal
  BY DEF BaselineInv, BaselineIsOriginal, At
<1> QED
  BY <1>1, <1>2, BaselineInit, PTL DEF LoopSpec
=============================================================================

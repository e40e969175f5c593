----------------------------- MODULE PolicyLoop -----------------------------
(***************************************************************************)
(* Rules mode: the policy file, its watcher, the engine and the tick of    *)
(* one target with one pod, around the vertical actuator.                  *)
(*                                                                         *)
(* Three processes share the engine (its lock e.mu makes Evaluate and the  *)
(* exchange of the rules atomic): the watcher's loop restarts a debounce   *)
(* timer on every file event; the timer's goroutine reads the file,        *)
(* compiles it and installs it; the tick evaluates the rules in force and  *)
(* then dispatches what they ask, one call after the other.  Time is       *)
(* counted in ticks.  At most MaxEdits changes of the file happen in a     *)
(* behaviour.                                                              *)
(***************************************************************************)
EXTENDS VerticalResize, SequencesExt

CONSTANTS
  Docs, NoDoc,      \* documents the file may hold
  Parsed, Valid,    \* the documents that LoadFile accepts, and that compile
  Rules,            \* document -> its rules in the order of the file
  Names, Levels,    \* rule names; the scores, as far as conditions tell them apart
  Cooldown,         \* rule name -> its cooldown in ticks
  MaxEdits

ASSUME PolicyAssumption ==
  /\ Valid \subseteq Parsed /\ Parsed \subseteq Docs /\ NoDoc \notin Docs
  /\ \A d \in Valid : \A i \in DOMAIN Rules[d] :
       Rules[d][i].name \in Names /\ Rules[d][i].fire # <<>>
  /\ Cooldown \in [Names -> Nat] /\ MaxEdits \in Nat

VARIABLES
  file,      \* what the file holds
  edits,     \* changes still allowed
  notified,  \* an event is in the watcher's channel
  watching,  \* the watcher has subscribed
  timer,     \* the debounce timer: "none" before the first event
  reloads,   \* documents read and on their way into the engine
  inForce,   \* the engine's document, NoDoc while the process is down
  left,      \* rule -> ticks until its cooldown has elapsed
  level,     \* the scores at the last tick
  todo,      \* actions still to dispatch
  unseen,    \* history: the last change came before the watcher subscribed
  overtook,  \* history: the last reload began while another was under way
  since      \* history: rule -> ticks since it fired, Cooldown for long ago

watchVars == <<notified, watching, timer, reloads>>
engineVars == <<inForce, left, since>>
tickVars == <<level, todo>>
pastVars == <<unseen, overtook>>
loopVars == <<verticalVars, file, edits, watchVars, engineVars, tickVars, pastVars>>

Up == inForce # NoDoc
NoneLeft == [r \in Names |-> 0]

-----------------------------------------------------------------------------
(***************************************************************************)
(* The file and the watcher.                                               *)
(***************************************************************************)
\* A change in the file's directory, of the file itself or not.
Edit ==
  /\ edits > 0 /\ edits' = edits - 1
  /\ file' \in Docs
  /\ notified' = (notified \/ watching)
  /\ unseen' = (Up /\ ~watching /\ (unseen \/ file' # file))
  /\ UNCHANGED <<verticalVars, watching, timer, reloads, engineVars, tickVars, overtook>>

Subscribe ==
  /\ Up /\ ~watching /\ watching' = TRUE
  /\ UNCHANGED <<verticalVars, file, edits, notified, timer, reloads, engineVars,
                 tickVars, pastVars>>

\* Bug: a timer that has fired is not started again.
ScheduleOnce ==
  /\ notified /\ notified' = FALSE
  /\ timer' = IF timer = "none" THEN "running" ELSE timer
  /\ UNCHANGED <<verticalVars, file, edits, watching, reloads, engineVars, tickVars, pastVars>>

\* The timer is started, or started anew.
Schedule ==
  /\ notified /\ notified' = FALSE /\ timer' = "running"
  /\ UNCHANGED <<verticalVars, file, edits, watching, reloads, engineVars, tickVars, pastVars>>

\* The timer's goroutine reads the file, beside a goroutine of an earlier timer
\* that has not come to its end; a document that is not accepted ends it.
Fire ==
  /\ timer = "running" /\ timer' = "fired"
  /\ reloads' = reloads \cup ({file} \cap Parsed)
  /\ overtook' = (reloads # {})
  /\ UNCHANGED <<verticalVars, file, edits, notified, watching, engineVars, tickVars, unseen>>

-----------------------------------------------------------------------------
(***************************************************************************)
(* The engine.                                                             *)
(***************************************************************************)
\* Bug: new rules start without their cooldowns.
ReloadClears ==
  \E d \in reloads :
    /\ reloads' = reloads \ {d}
    /\ inForce' = IF d \in Valid THEN d ELSE inForce
    /\ left' = IF d \in Valid THEN NoneLeft ELSE left
    /\ UNCHANGED <<verticalVars, file, edits, notified, watching, timer, since, tickVars, pastVars>>

\* A document with a rule that does not compile leaves the rules as they are;
\* cooldowns are kept, by the name of the rule.
Reload ==
  \E d \in reloads :
    /\ reloads' = reloads \ {d}
    /\ inForce' = IF d \in Valid THEN d ELSE inForce
    /\ UNCHANGED <<verticalVars, file, edits, notified, watching, timer, left, since,
                   tickVars, pastVars>>

\* The enabled rules by descending priority, ties in the order of the file.
SortedRules(d) ==
  LET rules == Rules[d]
      order == SetToSortSeq({i \in DOMAIN rules : rules[i].enabled},
                 LAMBDA i, j : \/ rules[i].priority > rules[j].priority
                               \/ rules[i].priority = rules[j].priority /\ i < j)
  IN [k \in DOMAIN order |-> rules[order[k]]]

Matches(rule, scores) == scores \in rule.when
Elapsed(rule) == left[rule.name] = 0

\* Bug: a match that its cooldown holds back starts the cooldown anew.
EvaluateRestamps(scores) ==
  LET matched == SelectSeq(SortedRules(inForce), LAMBDA rule : Matches(rule, scores))
      fired == SelectSeq(matched, Elapsed)
  IN /\ left' = [r \in Names |-> IF \E i \in DOMAIN matched : matched[i].name = r
                                  THEN Cooldown[r] ELSE left[r]]
     /\ since' = [r \in Names |-> IF \E i \in DOMAIN fired : fired[i].name = r
                                   THEN 0 ELSE since[r]]
     /\ todo' = FlattenSeq([i \in DOMAIN fired |-> fired[i].fire])

Fires(rule, scores) == Matches(rule, scores) /\ Elapsed(rule)

Fired(scores) ==
  LET rules == SortedRules(inForce)
  IN {rules[i].name : i \in {i \in DOMAIN rules : Fires(rules[i], scores)}}

\* The actions of the rules that fire, in the order of the rules.
Asked(scores) ==
  LET fired == SelectSeq(SortedRules(inForce), LAMBDA rule : Fires(rule, scores))
  IN FlattenSeq([i \in DOMAIN fired |-> fired[i].fire])

\* The rules that match and whose cooldown has elapsed fire and are stamped,
\* before anything is dispatched.
Evaluate(scores) ==
  /\ left' = [r \in Names |-> IF r \in Fired(scores) THEN Cooldown[r] ELSE left[r]]
  /\ since' = [r \in Names |-> IF r \in Fired(scores) THEN 0 ELSE since[r]]
  /\ todo' = Asked(scores)

-----------------------------------------------------------------------------
(***************************************************************************)
(* The tick.                                                               *)
(***************************************************************************)
Free == Up /\ todo = <<>> /\ At("idle")

Tick ==
  /\ Free
  /\ level' \in Levels
  /\ Evaluate(level')
  /\ UNCHANGED <<verticalVars, file, edits, watchVars, inForce, pastVars>>

\* The time of one tick passes.
Pass ==
  /\ Up /\ \E r \in Names : left[r] > 0
  /\ left' = [r \in Names |-> IF left[r] > 0 THEN left[r] - 1 ELSE 0]
  /\ since' = [r \in Names |-> IF since[r] < Cooldown[r] THEN since[r] + 1 ELSE since[r]]
  /\ UNCHANGED <<verticalVars, file, edits, watchVars, inForce, tickVars, pastVars>>

\* The next action: a call of the actuator, or nothing when its kind is unknown.
Dispatch ==
  /\ todo # <<>> /\ At("idle")
  /\ CASE Head(todo).kind = "vertical" -> ApplyGet(Head(todo))
       [] Head(todo).kind = "restore"  -> RestoreGet
       [] OTHER -> UNCHANGED verticalVars
  /\ todo' = Tail(todo)
  /\ UNCHANGED <<file, edits, watchVars, engineVars, level, pastVars>>

-----------------------------------------------------------------------------
\* All of the engine, the watcher and the call is lost.
Crash ==
  /\ Up /\ Attempt("crash", FALSE)
  /\ inForce' = NoDoc /\ left' = NoneLeft /\ since' = Cooldown
  /\ notified' = FALSE /\ watching' = FALSE /\ timer' = "none" /\ reloads' = {}
  /\ todo' = <<>> /\ call' = NoCall
  /\ unseen' = FALSE /\ overtook' = FALSE
  /\ UNCHANGED <<limit, ann, file, edits, level>>

\* The process exits at once when the file is not valid.
Start ==
  /\ ~Up /\ file \in Valid /\ inForce' = file
  /\ UNCHANGED <<verticalVars, file, edits, watchVars, left, since, tickVars, pastVars>>

LoopInit ==
  /\ VerticalInit
  /\ file \in Docs /\ edits = MaxEdits
  /\ notified = FALSE /\ watching = FALSE /\ timer = "none" /\ reloads = {}
  /\ inForce = NoDoc /\ left = NoneLeft /\ since = Cooldown
  /\ level \in Levels /\ todo = <<>>
  /\ unseen = FALSE /\ overtook = FALSE

CallStep ==
  /\ AnnotateBaseline \/ PatchResize \/ RestoreResize \/ RestoreClear
  /\ UNCHANGED <<file, edits, watchVars, engineVars, tickVars, pastVars>>

LoopNext ==
  \/ Edit \/ Subscribe \/ Schedule \/ Fire \/ Reload
  \/ Tick \/ Pass \/ Dispatch \/ CallStep
  \/ Crash \/ Start

LoopSpec == LoopInit /\ [][LoopNext]_loopVars

\* The goroutines of a running process go on, time passes, and an exited
\* process is started again.
LoopFairness ==
  /\ WF_loopVars(Subscribe) /\ WF_loopVars(Schedule) /\ WF_loopVars(Fire) /\ WF_loopVars(Reload)
  /\ WF_loopVars(Tick) /\ WF_loopVars(Pass) /\ WF_loopVars(Dispatch) /\ WF_loopVars(CallStep)
  /\ WF_loopVars(Start)

LoopFairSpec == LoopSpec /\ LoopFairness
-----------------------------------------------------------------------------
\* Once the file no longer changes and is valid, its rules are the ones in
\* force, however its changes and the debounce fell and whatever was rejected
\* before (loader.go:19-23), with two exceptions: a change that comes before the
\* watcher has subscribed is not seen, and a last reload that began while another
\* was under way, which loader.go:51-55 does not wait for, may be installed first.
PolicyConverges ==
  <>[](Up /\ ~unseen /\ ~overtook /\ file \in Valid) => <>[](inForce = file)

\* The same without the second exception, which the code does not keep: a reload
\* that takes longer than the debounce puts the older document in force.
NewestInForce ==
  <>[](Up /\ ~unseen /\ file \in Valid) => <>[](inForce = file)

\* A rule fires once per cooldown, across reloads (engine.go:121-124).
FiresOncePerCooldown ==
  [][\A r \in Names : since'[r] < since[r] => since[r] = Cooldown[r]]_loopVars

Demands(d, scores) ==
  {a \in UNION {ToSet(SortedRules(d)[i].fire) :
                  i \in {i \in DOMAIN SortedRules(d) : Matches(SortedRules(d)[i], scores)}} :
     a.kind = "vertical"}

\* A resize that failed is asked for again once the cooldown has elapsed: while
\* a rule goes on matching, the pod gets what the rule demands.
DemandIsMet ==
  \A d \in Valid, scores \in Levels :
    <>[](inForce = d /\ level = scores)
      => <>[](\A a \in Demands(d, scores) : Desired(a, limit) = limit)
=============================================================================

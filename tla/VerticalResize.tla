--------------------------- MODULE VerticalResize ---------------------------
(***************************************************************************)
(* The vertical actuator and one victim pod: Apply resizes the pod's CPU   *)
(* limit in place and records the limit it found, Restore resizes it back. *)
(*                                                                         *)
(* The target's goroutine makes one call at a time; each action is one     *)
(* request to the API server.  CPU is counted in integers (milli-CPU).  At *)
(* most MaxFaults of the faults in Faults happen in a behaviour.           *)
(*                                                                         *)
(* A definition under a comment that begins "Bug:" is no part of the       *)
(* specification: it is a plausible mistake in the definition after it,    *)
(* which a checked property must catch.                                    *)
(***************************************************************************)
EXTENDS Integers, Sequences

CONSTANTS
  Orig,             \* the pod's own CPU limit
  MinCPU, MaxCPU,   \* MIN_CPU and MAX_CPU
  NoAnn, Empty,     \* no baseline annotation, and one that is the empty string
  Faults, MaxFaults

ASSUME VerticalAssumption ==
  /\ Orig \in Nat /\ MinCPU \in Nat \ {0} /\ MaxCPU \in Nat /\ MinCPU <= MaxCPU
  /\ NoAnn # Empty /\ {NoAnn, Empty} \cap Nat = {}
  /\ Faults \subseteq {"crash", "get", "annotate", "resize", "clear"} /\ MaxFaults \in Nat

VARIABLES
  limit,   \* the pod's requests and limits, which are equal
  ann,     \* mitigation/cpu-limit-baseline
  call,    \* control point and locals of the call
  budget   \* faults still allowed

verticalVars == <<limit, ann, call, budget>>

NoCall == [pc |-> "idle", want |-> 0, cur |-> 0, restored |-> FALSE]

Clamp(cpu) == IF cpu < MinCPU THEN MinCPU ELSE IF cpu > MaxCPU THEN MaxCPU ELSE cpu

\* target_cpu, or scale_factor times the limit, halves rounded up.
Desired(action, cur) ==
  Clamp(IF action.by = "target" THEN action.cpu
        ELSE (2 * cur * action.num + action.den) \div (2 * action.den))

CanFail(class) == class \in Faults /\ budget > 0
Attempt(class, ok) ==
  /\ ok \/ CanFail(class)
  /\ budget' = IF ok THEN budget ELSE budget - 1

At(label) == call.pc = label

-----------------------------------------------------------------------------
(***************************************************************************)
(* Apply.                                                                  *)
(***************************************************************************)
\* Bug: the limit found is recorded by every Apply.
ApplyGetAnnotatesAgain(action) ==
  LET want == Desired(action, limit) IN
  /\ At("idle")
  /\ UNCHANGED budget
  /\ call' = IF want = limit THEN NoCall
             ELSE [NoCall EXCEPT !.pc = "annotate", !.want = want, !.cur = limit]
  /\ UNCHANGED <<limit, ann>>

\* Get the pod; nothing to do when it has the limit already, and a baseline
\* is recorded unless the annotation is there.
ApplyGet(action) ==
  LET want == Desired(action, limit) IN
  /\ At("idle")
  /\ \E ok \in BOOLEAN :
       /\ Attempt("get", ok)
       /\ call' = IF ~ok \/ want = limit THEN NoCall
                  ELSE [NoCall EXCEPT !.pc = IF ann = NoAnn THEN "annotate" ELSE "resize",
                                      !.want = want, !.cur = limit]
  /\ UNCHANGED <<limit, ann>>

\* Best effort: Apply goes on when the patch fails.  A failed patch may have
\* been applied all the same, here and below.
AnnotateBaseline ==
  /\ At("annotate")
  /\ \E ok, done \in BOOLEAN :
       /\ Attempt("annotate", ok)
       /\ ok => done
       /\ ann' = IF done THEN call.cur ELSE ann
  /\ call' = [call EXCEPT !.pc = "resize"]
  /\ UNCHANGED limit

PatchResize ==
  /\ At("resize")
  /\ \E ok, done \in BOOLEAN :
       /\ Attempt("resize", ok)
       /\ ok => done
       /\ limit' = IF done THEN call.want ELSE limit
  /\ call' = NoCall
  /\ UNCHANGED ann

-----------------------------------------------------------------------------
(***************************************************************************)
(* Restore.                                                                *)
(***************************************************************************)
\* Nothing to do without a baseline, or with an empty one.
RestoreGet ==
  /\ At("idle")
  /\ \E ok \in BOOLEAN :
       /\ Attempt("get", ok)
       /\ call' = CASE ~ok -> NoCall
                    [] ok /\ ann \in {NoAnn, Empty} -> [NoCall EXCEPT !.restored = TRUE]
                    [] OTHER -> [NoCall EXCEPT !.pc = "return", !.want = ann]
  /\ UNCHANGED <<limit, ann>>

RestoreResize ==
  /\ At("return")
  /\ \E ok, done \in BOOLEAN :
       /\ Attempt("resize", ok)
       /\ ok => done
       /\ limit' = IF done THEN call.want ELSE limit
       /\ call' = IF ok THEN [call EXCEPT !.pc = "clear"] ELSE NoCall
  /\ UNCHANGED ann

\* The annotation is set to the empty string; a failure is only logged.
RestoreClear ==
  /\ At("clear")
  /\ \E ok, done \in BOOLEAN :
       /\ Attempt("clear", ok)
       /\ ok => done
       /\ ann' = IF done THEN Empty ELSE ann
  /\ call' = [NoCall EXCEPT !.restored = TRUE]
  /\ UNCHANGED limit

VerticalInit == limit = Orig /\ ann = NoAnn /\ call = NoCall /\ budget = MaxFaults
-----------------------------------------------------------------------------
\* While the patch that records the baseline does not fail, what is on record is
\* the pod's own limit, never one an Apply set; a resized pod is without a record
\* only once a Restore has emptied it, and it is emptied when the pod has its limit
\* back, wherever the other requests fail or the process crashes.  When that patch
\* fails, Apply resizes all the same (vertical.go:135-144) and the next one records
\* the resized limit; after a Restore, nothing is recorded any more, which is what
\* RestoreReturns runs into.
BaselineIsOriginal ==
  /\ ann \notin {NoAnn, Empty} => ann = Orig
  /\ limit # Orig => ann \in {Orig, Empty}
  /\ At("clear") => limit = Orig

\* A Restore that reports no error has reversed the Apply before it
\* (actuator.go:55: "Restore reverses a prior Apply").
RestoreReturns == At("idle") /\ call.restored => limit = Orig
=============================================================================

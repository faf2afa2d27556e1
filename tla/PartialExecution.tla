-------------------------- MODULE PartialExecution --------------------------
(***************************************************************************)
(* The step engine of contracts/PartialExecution.sol: a task is a job      *)
(* executed a few steps per transaction.  A task is a record; every        *)
(* operator maps the task before a call to the task after it.  What the    *)
(* steps themselves do (stepFunction, onFinish) belongs to the contract    *)
(* that owns the task, which reads from StepsRun and JustFinished which    *)
(* hooks the call fired.                                                   *)
(***************************************************************************)
EXTENDS Integers

ExecutionState == {"Ready", "Running", "Finished"}

Task == [state : ExecutionState, currentStep : Nat, stepCount : Nat]

\* A task as createTask leaves it in fresh storage.
NewTask == [state |-> "Ready", currentStep |-> 0, stepCount |-> 0]

\* The first call of an execution freezes the step count for all the others.
StartTask(t, getStepCount) ==
    IF t.state = "Ready"
    THEN [state |-> "Running", currentStep |-> t.currentStep,
          stepCount |-> getStepCount]
    ELSE t

\* The step at which a call with this many steps stops.
EndStep(t, steps) ==
    IF t.currentStep + steps < t.stepCount THEN t.currentStep + steps
                                           ELSE t.stepCount

\* Mutant: the end is tested strictly, as if currentStep could pass stepCount.
RunStepsPastTheEnd(t, steps) ==
    [state |-> IF EndStep(t, steps) > t.stepCount THEN "Finished" ELSE "Running",
     currentStep |-> EndStep(t, steps),
     stepCount |-> t.stepCount]

RunSteps(t, steps) ==
    [state |-> IF EndStep(t, steps) = t.stepCount THEN "Finished" ELSE "Running",
     currentStep |-> EndStep(t, steps),
     stepCount |-> t.stepCount]

ExecuteTask(t, steps, getStepCount) ==
    IF t.state = "Finished"
    THEN t
    ELSE RunSteps(StartTask(t, getStepCount), steps)

\* Mutant: the task does not report its steps, so the next one starts too early.
ConsumedNothing(t, executed) == 0

\* executeTask returns how many steps it consumed.
Consumed(t, executed) == executed.currentStep - t.currentStep

\* The indices stepFunction was called with, and whether onFinish was called.
StepsRun(t, executed) == t.currentStep .. (executed.currentStep - 1)

JustFinished(t, executed) ==
    /\ t.state # "Finished"
    /\ executed.state = "Finished"

\* stepCount survives a reset; it is overwritten when the task starts again.
ResetTask(t) ==
    [state |-> "Ready", currentStep |-> 0, stepCount |-> t.stepCount]

=============================================================================

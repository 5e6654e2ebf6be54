-------------------------------- MODULE Saga --------------------------------
(***************************************************************************)
(* What platform/workflow/README.md promises of a pipeline run, without    *)
(* rows, claims, workers or copies: steps succeed one after another; a run *)
(* that gives up unwinds its successes from the last to the first; it ends *)
(* as success when everything succeeded, as failed when everything is      *)
(* undone, and it ends once.                                               *)
(***************************************************************************)
EXTENDS Naturals

CONSTANT NumSteps

VARIABLES
    phase,   \* "absent", "forward", "unwinding", "success" or "failed"
    done     \* the steps whose success stands

saga == <<phase, done>>

SagaInit == phase = "absent" /\ done = {}

Begin == phase = "absent" /\ phase' = "forward" /\ UNCHANGED done

Succeed(i) ==
    /\ phase = "forward"
    /\ done = 0 .. i - 1
    /\ done' = done \cup {i}
    /\ UNCHANGED phase

Complete ==
    /\ phase = "forward"
    /\ done = 0 .. NumSteps - 1
    /\ phase' = "success"
    /\ UNCHANGED done

(* Only a run with a step left to fail can give up.                         *)
GiveUp ==
    /\ phase = "forward"
    /\ done # 0 .. NumSteps - 1
    /\ phase' = "unwinding"
    /\ UNCHANGED done

Undo(i) ==
    /\ phase = "unwinding"
    /\ i \in done
    /\ \A j \in done : j <= i
    /\ done' = done \ {i}
    /\ UNCHANGED phase

Settle ==
    /\ phase = "unwinding"
    /\ done = {}
    /\ phase' = "failed"
    /\ UNCHANGED done

SagaNext ==
    \/ Begin \/ Complete \/ GiveUp \/ Settle
    \/ \E i \in 0 .. NumSteps - 1 : Succeed(i) \/ Undo(i)

SagaSpec == SagaInit /\ [][SagaNext]_saga
=============================================================================

----------------------------- MODULE MCAutomium -----------------------------
(* A small instance of Automium for TLC. *)
EXTENDS Automium, MCModule

\* Bounds: no pod fails; the first spec wants a replica, and every change of the
\* spec is to one image (the first spec may have the other one); a call works on
\* an old copy of the Module only when the spec has changed; a pod that outlives
\* its Job is followed only while it runs, the Job is not replaced and changes
\* are left: both properties excuse what comes after it.
SameImage == CHOOSE image \in Images : TRUE
SmoothRollouts ==
    /\ failures = 0 /\ pod # "failed"
    /\ IF edits = 0 THEN module.spec.replicas = MaxReplicas
                    ELSE module.spec.image = SameImage
    /\ w = Idle \/ w.fresh \/ w.inst.spec # module.spec
    /\ overlapped => strays /\ job = NoJob /\ edits < MaxEdits
=============================================================================

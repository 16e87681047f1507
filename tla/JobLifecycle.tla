---------------------------- MODULE JobLifecycle ----------------------------
(***************************************************************************)
(* What the runner queue promises to the callers of the trigger endpoint   *)
(* and to the runners, without statements, stamps, polls or requests: a    *)
(* job waits for its turn, is held by one runner that may serve it, may be *)
(* given back only before its holder has reported, and ends for good.      *)
(***************************************************************************)
CONSTANTS Runner, Job, Model, ModelsOf, NoRunner

VARIABLES
    stage,    \* how far each job has come
    want,     \* the model a job asks for and the runner it is pinned to
    before,   \* the pairs of jobs of which the first was submitted earlier
    holder    \* the runner that has the job, or NoRunner

lifecycle == <<stage, want, before, holder>>

Ended == {"completed", "failed"}
Want == [model : Model, pin : Runner \cup {NoRunner}]
NoWant == [model |-> CHOOSE m \in Model : TRUE, pin |-> NoRunner]

MayServe(r, w) == w.model \in ModelsOf[r] /\ w.pin \in {NoRunner, r}

Init ==
    /\ stage = [j \in Job |-> "absent"]
    /\ want = [j \in Job |-> NoWant]
    /\ before = {}
    /\ holder = [j \in Job |-> NoRunner]

\* A job comes after all the jobs there are.
Submit(j, w) ==
    /\ stage[j] = "absent"
    /\ stage' = [stage EXCEPT ![j] = "queued"]
    /\ want' = [want EXCEPT ![j] = w]
    /\ before' = before \cup {<<k, j>> : k \in {i \in Job : stage[i] # "absent"}}
    /\ UNCHANGED holder

\* A runner takes the first waiting job that it may serve.
Take(r, j) ==
    /\ stage[j] = "queued" /\ MayServe(r, want[j])
    /\ ~\E k \in Job : stage[k] = "queued" /\ MayServe(r, want[k]) /\ <<k, j>> \in before
    /\ stage' = [stage EXCEPT ![j] = "claimed"]
    /\ holder' = [holder EXCEPT ![j] = r]
    /\ UNCHANGED <<want, before>>

\* The first report of the holder.
Report(j) ==
    /\ stage[j] = "claimed"
    /\ stage' = [stage EXCEPT ![j] = "running"]
    /\ UNCHANGED <<want, before, holder>>

\* Jobs whose holders have not reported go back to their places.
GiveBack(back) ==
    /\ \A j \in back : stage[j] = "claimed"
    /\ stage' = [j \in Job |-> IF j \in back THEN "queued" ELSE stage[j]]
    /\ holder' = [j \in Job |-> IF j \in back THEN NoRunner ELSE holder[j]]
    /\ UNCHANGED <<want, before>>

\* The holder ends the job; the outcome may be corrected, nothing else.
End(j, outcome) ==
    /\ stage[j] \in {"claimed", "running"} \cup Ended
    /\ stage' = [stage EXCEPT ![j] = outcome]
    /\ UNCHANGED <<want, before, holder>>

Next ==
    \/ \E j \in Job, w \in Want : Submit(j, w)
    \/ \E r \in Runner, j \in Job : Take(r, j)
    \/ \E j \in Job : Report(j)
    \/ \E back \in SUBSET Job : GiveBack(back)
    \/ \E j \in Job, outcome \in Ended : End(j, outcome)

Spec == Init /\ [][Next]_lifecycle
=============================================================================

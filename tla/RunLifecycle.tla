---------------------------- MODULE RunLifecycle ----------------------------
(***************************************************************************)
(* What the store promises about a run, with nothing of how it keeps it:   *)
(* no rows, no leases, no clock, no attempts, no history.  RunStore        *)
(* implements this specification (RunStore!Lifecycle).                     *)
(***************************************************************************)
CONSTANTS Run, Step

VARIABLES
    status,     \* where a run is in its life
    requested,  \* whether somebody asked to cancel it
    work        \* what is known of each of its steps

lifeVars == <<status, requested, work>>

LifeInit ==
    /\ status = [r \in Run |-> "absent"]
    /\ requested = [r \in Run |-> FALSE]
    /\ work = [r \in Run |-> [s \in Step |-> "waiting"]]

Submit(r) ==
    /\ status[r] = "absent"
    /\ status' = [status EXCEPT ![r] = "queued"]
    /\ UNCHANGED <<requested, work>>

\* A request is heard at any time and never withdrawn.
Request(r) ==
    /\ status[r] # "absent"
    /\ requested' = [requested EXCEPT ![r] = TRUE]
    /\ UNCHANGED <<status, work>>

\* A run starts once, and only while nobody has asked to cancel it.
Launch(r) ==
    /\ status[r] = "queued" /\ ~requested[r]
    /\ status' = [status EXCEPT ![r] = "running"]
    /\ UNCHANGED <<requested, work>>

\* Work begins only under a run that is running.
BeginWork(r, s) ==
    /\ status[r] = "running" /\ work[r][s] = "waiting"
    /\ work' = [work EXCEPT ![r][s] = "busy"]
    /\ UNCHANGED <<status, requested>>

\* Work that has begun ends well or badly, or waits for another attempt.
EndWork(r, s, result) ==
    /\ status[r] # "absent" /\ work[r][s] = "busy"
    /\ result \in {"waiting", "good", "bad"}
    /\ work' = [work EXCEPT ![r][s] = result]
    /\ UNCHANGED <<status, requested>>

\* Work that will never begin is given up, which is not a failure.
GiveUp(r, s) ==
    /\ status[r] # "absent" /\ work[r][s] = "waiting"
    /\ work' = [work EXCEPT ![r][s] = "good"]
    /\ UNCHANGED <<status, requested>>

\* The verdict speaks of all the work, and agrees with it.
Conclude(r) ==
    /\ status[r] = "running"
    /\ \A s \in Step : work[r][s] \in {"good", "bad"}
    /\ status' = [status EXCEPT ![r] =
                    IF \E s \in Step : work[r][s] = "bad" THEN "failed" ELSE "succeeded"]
    /\ UNCHANGED <<requested, work>>

\* A run is cancelled only on request, and whatever waits is given up with it.
Cancel(r) ==
    /\ status[r] \in {"queued", "running"} /\ requested[r]
    /\ status' = [status EXCEPT ![r] = "cancelled"]
    /\ work' = [work EXCEPT ![r] = [s \in Step |->
                    IF work[r][s] = "waiting" THEN "good" ELSE work[r][s]]]
    /\ UNCHANGED requested

LifeNext ==
    \E r \in Run :
        \/ Submit(r) \/ Request(r) \/ Launch(r) \/ Conclude(r) \/ Cancel(r)
        \/ \E s \in Step :
            \/ BeginWork(r, s) \/ GiveUp(r, s)
            \/ \E result \in {"waiting", "good", "bad"} : EndWork(r, s, result)

LifeSpec == LifeInit /\ [][LifeNext]_lifeVars
=============================================================================

---------------------------- MODULE JobLifecycle ----------------------------
(***************************************************************************)
(* What the queue promises about a job, whoever reads and writes its row   *)
(* and in which order: the states of JobState, the attempts it is charged, *)
(* and whether somebody is executing it.                                   *)
(***************************************************************************)
EXTENDS Integers

CONSTANTS Jobs, MaxAttempts

VARIABLES state,     \* state[j], "absent" before the row exists
          attempts,  \* attempt_count
          held       \* whether a thread is executing j

vars == <<state, attempts, held>>

Ended == {"succeeded", "failed", "cancelled"}

Init ==
    /\ state = [j \in Jobs |-> "absent"]
    /\ attempts = [j \in Jobs |-> 0]
    /\ held = [j \in Jobs |-> FALSE]

-----------------------------------------------------------------------------
(* What may become of one job in one step *)

Became(j, s, n, h) == state'[j] = s /\ attempts'[j] = n /\ held'[j] = h

Appears(j) == state[j] = "absent" /\ Became(j, "queued", 0, FALSE)

\* Only a queued job that nobody executes is started, and each start is charged.
Starts(j) ==
    /\ state[j] = "queued" /\ ~held[j] /\ attempts[j] < MaxAttempts[j]
    /\ Became(j, "running", attempts[j] + 1, TRUE)

\* Its executor ends it, and may have its follow-ups still to queue.
Ends(j) ==
    /\ held[j]
    /\ \E s \in Ended, h \in BOOLEAN : Became(j, s, attempts[j], h)

\* Its executor puts it back, for a retry or with its attempt refunded.
PutBack(j) ==
    /\ held[j]
    /\ \E n \in {attempts[j], attempts[j] - 1} : n >= 0 /\ Became(j, "queued", n, FALSE)

\* Its executor lets go of it, killed or by an error, and the row stays.
LetGo(j) == held[j] /\ Became(j, state[j], attempts[j], FALSE)

\* A job left running by a dead executor is queued again or given up, even if a
\* late cancellation has committed since it was seen to be running.
Reaped(j) ==
    /\ state[j] \in {"running", "cancelled"} /\ ~held[j]
    /\ \/ attempts[j] < MaxAttempts[j] /\ Became(j, "queued", attempts[j], FALSE)
       \/ attempts[j] = MaxAttempts[j] /\ Became(j, "failed", attempts[j], FALSE)

\* A cancellation that found the job queued commits, however late.
Cancelled(j) == state[j] # "absent" /\ Became(j, "cancelled", attempts[j], held[j])

Move(j) ==
    \/ Appears(j) \/ Starts(j) \/ Ends(j) \/ PutBack(j) \/ LetGo(j)
    \/ Reaped(j) \/ Cancelled(j)
    \/ Became(j, state[j], attempts[j], held[j])

\* One commit may move several jobs: a reap, a listing's follow-ups, a crash.
Next == \A j \in Jobs : Move(j)

Spec == Init /\ [][Next]_vars
=============================================================================

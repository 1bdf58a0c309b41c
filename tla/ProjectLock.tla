----------------------------- MODULE ProjectLock ----------------------------
(***************************************************************************)
(* What the status column of the projects table promises as a lock.        *)
(*                                                                         *)
(* Every project is held by nobody, by a job (from set_busy in the request *)
(* to reset_busy in the worker) or by a client that uploads a file.  A     *)
(* holder is never replaced by another one: it gives the project back, or  *)
(* it goes away without doing so and leaves the project blocked, until     *)
(* somebody resets it.                                                     *)
(***************************************************************************)
CONSTANT Projects

VARIABLE holder

Holders == {"nobody", "job", "client", "blocked"}

Init == holder = [p \in Projects |-> "nobody"]

\* set_busy takes a project that nobody holds.
Take(p, h) ==
    /\ holder[p] = "nobody"
    /\ holder' = [holder EXCEPT ![p] = h]

\* reset_busy, by the holder.
GiveBack(p) ==
    /\ holder[p] \in {"job", "client"}
    /\ holder' = [holder EXCEPT ![p] = "nobody"]

\* Holders go away, several at once when the daemon is killed; a request that
\* fails right after set_busy leaves the project blocked in the same step.
Leave(gone) ==
    /\ gone # {}
    /\ \A p \in gone : holder[p] # "blocked"
    /\ holder' = [p \in Projects |-> IF p \in gone THEN "blocked" ELSE holder[p]]

\* reset_project frees a blocked project.
Reset(p) ==
    /\ holder[p] = "blocked"
    /\ holder' = [holder EXCEPT ![p] = "nobody"]

Next ==
    \/ \E p \in Projects :
          \/ \E h \in {"job", "client"} : Take(p, h)
          \/ GiveBack(p)
          \/ Reset(p)
    \/ \E gone \in SUBSET Projects : Leave(gone)

Spec == Init /\ [][Next]_holder

\* A job gives back what it holds.  A client may hold a project for ever.
JobEnds(p) == holder[p] = "job" /\ GiveBack(p)

FairSpec == Spec /\ \A p \in Projects : WF_holder(JobEnds(p))
=============================================================================

-------------------------- MODULE CheckpointStore --------------------------
(***************************************************************************)
(* What wal.Save and the restore promise the agent, without files: a run   *)
(* advances through generations of its state and has some of them          *)
(* acknowledged; the next run continues from one of them.  Unharmed, that  *)
(* is the last acknowledged one or a later one; a harmed store may cost    *)
(* the last acknowledged generation, and costs more only with another      *)
(* epoch, or with the same one if the clock repeats its second.            *)
(***************************************************************************)
EXTENDS Naturals

VARIABLES
    up,      \* a run is going on
    mem,     \* its generation, or the last of the previous run
    epoch,   \* the declared reset its counters start from
    acked,   \* the generation last acknowledged to this or an earlier run
    prior,   \* the one acknowledged before it
    harmed,  \* a stored file was damaged
    tied     \* the last restart stamped the epoch it had

vars == <<up, mem, epoch, acked, prior, harmed, tied>>

Init ==
    /\ up = FALSE /\ harmed = FALSE /\ tied = FALSE
    /\ mem \in Nat /\ epoch = 0 /\ acked = mem /\ prior = 0

Advance ==
    /\ up
    /\ mem' = mem + 1
    /\ UNCHANGED <<up, epoch, acked, prior, harmed, tied>>

\* A generation at least as new as the last acknowledged one is stored; the
\* acknowledgement of a shutdown ends the run.
Acknowledge ==
    /\ up
    /\ acked' >= acked /\ acked' <= mem
    /\ prior' = acked
    /\ up' \in BOOLEAN
    /\ UNCHANGED <<mem, epoch, harmed, tied>>

Stop ==
    /\ up
    /\ up' = FALSE
    /\ UNCHANGED <<mem, epoch, acked, prior, harmed, tied>>

Harm ==
    /\ ~up
    /\ harmed' = TRUE
    /\ UNCHANGED <<up, mem, epoch, acked, prior, tied>>

Older(i, j) == IF i <= j THEN i ELSE j

\* The next run takes over generation mem'.
Restart ==
    /\ ~up /\ up' = TRUE
    /\ harmed \/ mem' <= mem
    /\ \/ mem' >= acked
       \/ harmed /\ mem' >= prior
       \/ harmed /\ (epoch' # epoch \/ tied')
    /\ tied' => epoch' = epoch
    /\ acked' = Older(acked, mem') /\ prior' = Older(prior, mem')
    /\ UNCHANGED harmed

Next == Advance \/ Acknowledge \/ Stop \/ Harm \/ Restart

Spec == Init /\ [][Next]_vars
=============================================================================

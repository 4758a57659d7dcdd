------------------------------ MODULE KickLoop ------------------------------
(***************************************************************************)
(* From a change in Neutron to the pass that applies it: the Kafka         *)
(* consumer, Kick's one-deep channel, and Reconciler.Run's select over the *)
(* ticker, the channel and the debounce timer.                             *)
(*                                                                         *)
(* Neutron's state is a version number.  Timers count down in units of     *)
(* time, which passes only while the loop has nothing ready to select; a   *)
(* pass may take any time.                                                 *)
(***************************************************************************)
EXTENDS Naturals

CONSTANTS
    MaxWait,      \* kickMaxWait
    Interval,     \* ReconcileInterval
    Windows,      \* the values KickDebounce is reloaded to
    MaxVersion,   \* bound on the changes in Neutron
    MaxFailures   \* bound on the passes that fail

ASSUME KickAssumption ==
    /\ MaxWait \in Nat /\ Interval \in Nat \ {0}
    /\ Windows \subseteq Nat /\ Windows # {}
    /\ MaxVersion \in Nat /\ MaxFailures \in Nat

VARIABLES
    version,    \* Neutron
    handled,    \* the changes whose notification the consumer has handled
    kick,       \* a token in the kick channel
    window,     \* KickDebounce
    armed,      \* settleC is not nil
    settle,     \* time to the debounce timer
    deadline,   \* time to the deadline of the first waiting kick
    tick,       \* time to the ticker's next tick
    ticked,     \* a tick in the ticker's channel
    pc,         \* select, fetch or apply
    trigger,    \* what the pass under way was started by
    got,        \* the version its fetch read
    seen,       \* the version of the last committed pass
    failures,
    lost,       \* history: the last version handled when a pass failed
    wait        \* history: how long a kick has waited in an idle loop

kickVars == <<version, handled, kick, window>>
timerVars == <<armed, settle, deadline, tick, ticked>>
runVars == <<pc, trigger, got, seen, failures, lost>>
loopVars == <<kickVars, timerVars, runVars, wait>>

Least(a, b) == IF a < b THEN a ELSE b
Less1(n) == IF n = 0 THEN 0 ELSE n - 1

-----------------------------------------------------------------------------
\* A change in Neutron, with its *.end notification.
Change ==
    /\ version < MaxVersion
    /\ version' = version + 1
    /\ UNCHANGED <<handled, kick, window, timerVars, runVars, wait>>

\* A token into the channel; onto another one it coalesces.
Kick == kick' = TRUE

\* The consumer reads and handles the next notification.
Handle ==
    /\ handled < version
    /\ handled' = handled + 1
    /\ Kick
    /\ UNCHANGED <<version, window, timerVars, runVars, wait>>

\* KickDebounce is reloaded.
Reload(w) ==
    /\ window' = w
    /\ UNCHANGED <<version, handled, kick, timerVars, runVars, wait>>

-----------------------------------------------------------------------------
(* Reconciler.Run.                                                         *)

StartPass(t) ==
    /\ pc' = "fetch" /\ trigger' = t /\ wait' = 0
    /\ UNCHANGED <<got, seen, failures, lost>>

OnTick ==
    /\ pc = "select" /\ ticked
    /\ ticked' = FALSE
    /\ StartPass("tick")
    /\ UNCHANGED <<kickVars, armed, settle, deadline, tick>>

\* No window: pass at once.  A kick that waits stays waiting.
OnKickNow ==
    /\ pc = "select" /\ kick /\ window = 0
    /\ kick' = FALSE
    /\ StartPass("kick")
    /\ UNCHANGED <<version, handled, window, timerVars>>

\* Fault: every kick moves the deadline on.
OnKickRestarts ==
    /\ pc = "select" /\ kick /\ window # 0
    /\ kick' = FALSE /\ armed' = TRUE
    /\ deadline' = MaxWait
    /\ settle' = Least(window, deadline')
    /\ UNCHANGED <<version, handled, window, tick, ticked, runVars, wait>>

\* The first kick sets the deadline, each one restarts the window within it.
OnKick ==
    /\ pc = "select" /\ kick /\ window # 0
    /\ kick' = FALSE /\ armed' = TRUE
    /\ deadline' = IF armed THEN deadline ELSE MaxWait
    /\ settle' = Least(window, deadline')
    /\ UNCHANGED <<version, handled, window, tick, ticked, runVars, wait>>

OnSettle ==
    /\ pc = "select" /\ armed /\ settle = 0
    /\ armed' = FALSE
    /\ StartPass("kick")
    /\ UNCHANGED <<kickVars, settle, deadline, tick, ticked>>

\* fetch reads Neutron at some moment of the pass.
Fetch ==
    /\ pc = "fetch"
    /\ pc' = "apply" /\ got' = version
    /\ UNCHANGED <<kickVars, timerVars, trigger, seen, failures, lost, wait>>

\* After a tick's pass the waiting kicks are taken for covered.
Disarm == armed' = (armed /\ trigger # "tick")

\* Fault: the end of a pass also empties the channel.
CommitDrains ==
    /\ pc = "apply"
    /\ pc' = "select" /\ seen' = got /\ kick' = FALSE
    /\ Disarm
    /\ UNCHANGED <<version, handled, window, settle, deadline, tick, ticked, trigger, got, failures, lost, wait>>

\* The pass applies what it read and commits.
Commit ==
    /\ pc = "apply"
    /\ pc' = "select" /\ seen' = got
    /\ Disarm
    /\ UNCHANGED <<kickVars, settle, deadline, tick, ticked, trigger, got, failures, lost, wait>>

\* Fault: an error ends the loop.
FailStops ==
    /\ pc \in {"fetch", "apply"} /\ failures < MaxFailures
    /\ pc' = "stopped" /\ failures' = failures + 1 /\ lost' = handled
    /\ Disarm
    /\ UNCHANGED <<kickVars, settle, deadline, tick, ticked, trigger, got, seen, wait>>

\* The fetch or the trie delta fails: nothing is committed.
Fail ==
    /\ pc \in {"fetch", "apply"} /\ failures < MaxFailures
    /\ pc' = "select" /\ failures' = failures + 1 /\ lost' = handled
    /\ Disarm
    /\ UNCHANGED <<kickVars, settle, deadline, tick, ticked, trigger, got, seen, wait>>

-----------------------------------------------------------------------------
Ready == kick \/ (armed /\ settle = 0) \/ ticked

\* One unit of time.
Tock ==
    /\ pc = "select" => ~Ready
    /\ settle' = Less1(settle) /\ deadline' = Less1(deadline)
    /\ tick' = IF tick = 1 THEN Interval ELSE tick - 1
    /\ ticked' = (ticked \/ tick = 1)
    /\ wait' = IF pc = "select" /\ armed THEN wait + 1 ELSE wait
    /\ UNCHANGED <<kickVars, armed, runVars>>

LoopInit ==
    /\ version = 0 /\ handled = 0 /\ kick = FALSE /\ window \in Windows
    /\ armed = FALSE /\ settle = 0 /\ deadline = 0
    /\ tick = Interval /\ ticked = FALSE
    /\ pc = "select" /\ trigger = "tick" /\ got = 0 /\ seen = 0
    /\ failures = 0 /\ lost = 0 /\ wait = 0

Loop == OnTick \/ OnKickNow \/ OnKick \/ OnSettle \/ Fetch \/ Commit \/ Fail

LoopNext == Change \/ Handle \/ (\E w \in Windows : Reload(w)) \/ Loop \/ Tock

LoopSpec == LoopInit /\ [][LoopNext]_loopVars

\* The loop runs for the life of the process, and time passes.  Nothing is
\* assumed of Kafka.
LoopFairSpec ==
    /\ LoopSpec
    /\ WF_loopVars(Loop)
    /\ WF_loopVars(Tock)

-----------------------------------------------------------------------------
\* Every variable has its type, and no pass knows more than Neutron.
LoopTypeOK ==
    /\ version \in 0..MaxVersion /\ handled \in 0..version
    /\ kick \in BOOLEAN /\ window \in Windows
    /\ armed \in BOOLEAN /\ settle \in Nat /\ deadline \in Nat
    /\ tick \in 1..Interval /\ ticked \in BOOLEAN
    /\ pc \in {"select", "fetch", "apply"} /\ trigger \in {"tick", "kick"}
    /\ got \in 0..version /\ seen \in 0..got
    /\ failures \in Nat /\ lost \in 0..handled /\ wait \in Nat

\* A handled change is applied, or a pass that will read it is under way, or a
\* kick still stands for it in the channel or the timer -- however kicks
\* coalesce, windows restart and ticks intervene, unless a pass failed.
NothingForgotten ==
    handled > seen /\ handled > lost
        => kick \/ armed \/ pc = "fetch" \/ (pc = "apply" /\ got >= handled)

\* A kick keeps an idle loop waiting for at most MaxWait, whatever follows it
\* and however the window is reloaded.
WaitBounded == wait <= MaxWait

\* Once the changes stop every one of them is applied, though passes failed and
\* notifications never came: the ticker is the safety net (Run).
EventuallyFresh == [](version = MaxVersion => <>(seen = MaxVersion))

-----------------------------------------------------------------------------
\* reconcile.go, Run: after a tick's pass the waiting kicks are dropped because
\* "it already covers them".  (With no token in the channel, every handled
\* change is one they stand for.)
TickCovers ==
    [][(armed /\ ~armed' /\ pc # "select" /\ ~kick) => seen' >= handled]_loopVars
=============================================================================

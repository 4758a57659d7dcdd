---------------------------- MODULE ScenarioRun ----------------------------
(***************************************************************************)
(* internal/scenariotest: the commands that realize a topology on a live   *)
(* cluster (up), tear it down (down), or do both around a script of steps  *)
(* (run), on a cloud whose calls can fail, or succeed and lose the reply.  *)
(*                                                                         *)
(* What a command still has to do is a sequence of operations, in the      *)
(* order of the code.  Realizing and the steps stop at the first error;    *)
(* the teardown goes on and remembers that there was one.  The run-state   *)
(* is kept in memory and saved to a file after every create; a crash loses *)
(* the memory, and `down` starts again from the file.                      *)
(*                                                                         *)
(* One agent host stands for the hosts; the traffic a step drives and what *)
(* it asserts change nothing here and are one call that can fail.  The     *)
(* file is for one topology: starting a new one over a torn-down file is   *)
(* not modelled.                                                           *)
(***************************************************************************)
EXTENDS ScenarioCloud, FiniteSets, SequencesExt

CONSTANTS
    Deferred,   \* the resources only a step creates, and the platform's own ports
    Links,      \* the router interfaces in order, <<router, subnet>> or <<router, port>>
    StaticRoutes, \* the routers with static routes, in order
    Platform,   \* ports the platform plugs into a network by itself
    Scripts,    \* the scenarios' scripts, as sequences of steps
    MaxRuns,    \* bound: runs and ups started
    MaxFaults,  \* bound: calls and saves that fail, interrupts
    MaxCrashes, \* bound: processes killed
    MaxTroubles \* bound: faults, crashes and resumed runs together

\* The steps of the scenarios, <<name, argument, ...>>.
AgentSteps == {<<name>> : name \in {"drive", "set-config", "restore-config", "reload"}}
VMSteps == {"delete-vm", "boot-vm", "migrate", "delete-while-down"} \X Of("server", Resources)
PortSteps == {"attach-port", "reattach-port", "detach-port", "detach-delete"}
             \X Of("server", Resources) \X Of("port", Resources)
FIPSteps == {"associate-fip", "delete-fip"} \X Of("fip", Resources)
RouteSteps == {"set-routes", "clear-routes"} \X Of("router", Resources)

\* Every resource belongs to a project, and a step creates only VMs, their
\* ports and floating IPs.
ASSUME ScenarioAssumption ==
    /\ Deferred \subseteq UNION {Of(kind, Resources) : kind \in {"port", "server", "fip"}}
    /\ Platform \subseteq Of("port", Resources)
    /\ Of("project", Resources) # {}
    /\ Links \in Seq(Of("router", Resources) \X (Of("subnet", Resources) \cup Of("port", Resources)))
    /\ StaticRoutes \in Seq(Of("router", Resources))
    /\ Scripts \subseteq Seq(AgentSteps \cup VMSteps \cup PortSteps \cup FIPSteps \cup RouteSteps)
    /\ {MaxRuns, MaxFaults, MaxCrashes, MaxTroubles} \subseteq Nat

\* A set-config before the i-th step of script s that no restore-config undid.
InForce(s, i) ==
    \E j \in 1..(i - 1) : /\ s[j][1] = "set-config"
                          /\ \A k \in (j + 1)..(i - 1) : s[k][1] # "restore-config"

\* ReloadAgentStep's PRECONDITION: it patches what an earlier restart has backed
\* up; and no restart backs up a config that is patched already.
ASSUME ScriptsAssumption ==
    \A s \in Scripts : \A i \in DOMAIN s :
        /\ s[i][1] = "set-config" => ~InForce(s, i)
        /\ s[i][1] = "reload" => InForce(s, i)

VARIABLES
    mode,    \* "idle", "realize", "script", "restore", "teardown" or "down"
    part,    \* the parts of the phase's plan that have begun
    todo,    \* the operations left of the current part
    failed,  \* an operation of this phase failed
    rs,      \* the run-state in memory
    dirty,   \* StepEnv.configDirty: the agent config owes a restore
    stops,   \* interrupts this process got
    steps,   \* the steps of the script left
    script,  \* the scenario's script; <<>> until the first run gets to it
    cloud,
    file,    \* the run-state file
    agent,   \* the agent host: its config, the backup, whether it runs
    hist     \* history: platform ports, creating processes, faults, crashes, declared config losses

procVars == <<mode, part, todo, failed, rs, dirty, stops, steps>>
vars == <<procVars, script, cloud, file, agent, hist>>

NoState == [recs |-> {}, done |-> FALSE]
ForEach(s, Op(_)) == FlattenSeq([i \in DOMAIN s |-> Op(s[i])])
InOrder(S) == ForEach(Order, LAMBDA x : IF x \in S THEN <<x>> ELSE <<>>)

Init ==
    /\ mode = "idle" /\ part = 0 /\ todo = <<>> /\ failed = FALSE
    /\ rs = NoState /\ dirty = FALSE /\ stops = 0 /\ steps = <<>> /\ script = <<>>
    /\ cloud = Empty
    /\ file = [there |-> FALSE, torn |-> FALSE, state |-> NoState]
    /\ agent = [config |-> "own", backup |-> "none", up |-> TRUE]
    /\ hist = [plugged |-> {}, runs |-> 0, faults |-> 0, crashes |-> 0, excused |-> FALSE]

(***************************************************************************)
(* realize.Run                                                             *)
(***************************************************************************)
Made(x) == << <<"create", x>>, <<"record", x>> >>
\* PortMAC is read between a port's creation and its record.
MadePort(p) == << <<"create", p>>, <<"wait">>, <<"record", p>> >>

Planned(kind) == InOrder(Of(kind, Resources \ (Deferred \cup Platform)))
VMPorts == InOrder({Parent[v] : v \in Of("server", Resources \ Deferred)})
VIPPorts == {VIPPort[x] : x \in Of("lb", Resources)}
FIPsOf(P) == InOrder({x \in Of("fip", Resources \ Deferred) : Parent[x] \in P})

resolvePrereqs == << <<"wait">> >>
projects == ForEach(Planned("project"), Made)
networks == ForEach(Planned("network"), Made)
subnets == ForEach(Planned("subnet"), Made)
routers == ForEach(Planned("router"), Made)
routerInterfaces ==
    ForEach(Links, LAMBDA l : (IF Kind[l[2]] = "port" THEN MadePort(l[2]) ELSE <<>>)
                              \o << <<"attach", l[1], l[2]>> >>)
routerRoutes == ForEach(StaticRoutes, LAMBDA r : << <<"routes", r>> >>)
\* Fault: the ports of the VMs are not recorded.
vmPortsUnsaved == ForEach(VMPorts, LAMBDA p : << <<"create", p>>, <<"wait">> >>)
vmPorts == ForEach(VMPorts, MadePort)
\* The taps are counted before the first boot.
Baseline == << <<"wait">> >>
bootServers == ForEach(Planned("server"), Made)
waitActive == ForEach(Planned("server"), LAMBDA v : << <<"wait">> >>)
allocateFIPs == ForEach(FIPsOf(Range(VMPorts)), Made)

lbBackends == << <<"wait">> >>
loadBalancers ==
    ForEach(Planned("lb"), LAMBDA x : Made(x) \o << <<"wait">> >>
                           \o ForEach(FIPsOf({VIPPort[x]}), Made) \o lbBackends)
attachGate == << <<"wait">>, <<"save">> >>

UpPlan == <<resolvePrereqs \o projects, networks, subnets, routers, routerInterfaces,
            routerRoutes, vmPorts \o Baseline, bootServers \o waitActive, allocateFIPs, loadBalancers,
            attachGate>>

(***************************************************************************)
(* down.Run                                                                *)
(***************************************************************************)
All(kind) == InOrder(Of(kind, Resources))
Removed(x) == IF Kind[x] \in {"server", "lb"} THEN << <<"delete", x>>, <<"gone", x>> >>
              ELSE << <<"delete", x>> >>
clearRoutes == ForEach(All("router"), LAMBDA r : << <<"clear", r>> >>)
detachAll ==
    ForEach(All("router"), LAMBDA r :
        ForEach(All("subnet") \o All("port"), LAMBDA x : << <<"detach", r, x>> >>))
residualServers == ForEach(All("project"), LAMBDA p : << <<"servers", p>> >>)
\* Fault: no sweep of the ports the run-state does not know.
NoResidualPorts == <<>>
residualPorts == ForEach(All("network"), LAMBDA n : << <<"ports", n>> >>)

\* The teardown of everything a topology can have; a `down` does the part of
\* it that its run-state records.
DownPlan == <<ForEach(All("lb") \o All("fip") \o All("server"), Removed), residualServers,
              clearRoutes, detachAll, ForEach(All("port") \o All("router"), Removed),
              residualPorts, ForEach(All("subnet") \o All("network"), Removed), << <<"done">> >> >>
DownPart(R, i) ==
    ForEach(DownPlan[i], LAMBDA op : IF \A j \in 2..Len(op) : op[j] \in R THEN <<op>> ELSE <<>>)

(***************************************************************************)
(* The steps                                                               *)
(***************************************************************************)
DeleteVM(v) ==
    << <<"wait">> >>
    \o ForEach(InOrder({x \in Of("fip", rs.recs) : Parent[x] = Parent[v]}), Removed)
    \o ForEach(InOrder({v} \cap rs.recs), Removed)
    \o IF Parent[v] \in rs.recs THEN << <<"delete", Parent[v]>>, <<"forget", Parent[v]>> >>
       ELSE << <<"save">> >>
BootVM(v) ==
    << <<"wait">> >> \o MadePort(Parent[v]) \o Made(v) \o << <<"wait">> >>
    \o ForEach(InOrder({x \in Of("fip", Deferred) : Parent[x] = Parent[v]}), Made)
    \o << <<"wait">>, <<"save">> >>
AttachPort(v, p) ==
    << <<"need", v>> >> \o Baseline \o MadePort(p) \o << <<"plug", v, p>>, <<"wait">>, <<"save">> >>
ReattachPort(v, p) ==
    << <<"need", p>>, <<"need", v>> >> \o Baseline \o << <<"plug", v, p>>, <<"wait">>, <<"save">> >>
DetachPort(v, p) ==
    << <<"need", p>>, <<"need", v>> >> \o Baseline \o << <<"unplug", v, p>>, <<"wait">>, <<"save">> >>
DetachDelete(v, p) == DetachPort(v, p) \o << <<"delete", p>>, <<"forget", p>> >>
AssociateFIP(x) == << <<"need", Parent[x]>> >> \o Made(x)
DeleteFIP(x) == << <<"need", x>>, <<"delete", x>>, <<"forget", x>> >>
SetRoutes(r) == << <<"need", r>>, <<"routes", r>> >>
ClearRoutes(r) == << <<"need", r>>, <<"clear", r>> >>
Migrate(v) == << <<"need", v>>, <<"wait">>, <<"save">> >>
Drive == << <<"wait">> >>

\* Fault: the restore is owed only once the restarted agent is ready.
RestartSetMarkLate == << <<"baseline">>, <<"set">>, <<"restart">>, <<"ready">>, <<"mark">> >>
RestartSet == << <<"baseline">>, <<"set">>, <<"mark">>, <<"restart">>, <<"ready">> >>
RestartRestore == << <<"baseline">>, <<"putback">>, <<"settle">>, <<"restart">>, <<"ready">> >>
\* The Down steps run between stop and start.
RestartAround(during) == << <<"baseline">>, <<"stop">> >> \o during \o << <<"start">>, <<"ready">> >>
ReloadSet == << <<"patch">>, <<"mark">>, <<"hup">> >>

StepOps(name) ==
    CASE name[1] = "delete-vm" -> DeleteVM(name[2])
      [] name[1] = "boot-vm" -> BootVM(name[2])
      [] name[1] = "attach-port" -> AttachPort(name[2], name[3])
      [] name[1] = "reattach-port" -> ReattachPort(name[2], name[3])
      [] name[1] = "detach-port" -> DetachPort(name[2], name[3])
      [] name[1] = "detach-delete" -> DetachDelete(name[2], name[3])
      [] name[1] = "associate-fip" -> AssociateFIP(name[2])
      [] name[1] = "delete-fip" -> DeleteFIP(name[2])
      [] name[1] = "set-routes" -> SetRoutes(name[2])
      [] name[1] = "clear-routes" -> ClearRoutes(name[2])
      [] name[1] = "migrate" -> Migrate(name[2])
      [] name[1] = "drive" -> Drive
      [] name[1] = "set-config" -> RestartSet
      [] name[1] = "restore-config" -> RestartRestore
      [] name[1] = "delete-while-down" -> RestartAround(DeleteVM(name[2]))
      [] name[1] = "reload" -> ReloadSet

(***************************************************************************)
(* Running an operation                                                    *)
(***************************************************************************)
Doing(verbs) == todo # <<>> /\ Head(todo)[1] \in verbs
Calm == hist.faults + hist.crashes + hist.runs <= MaxTroubles
FaultLeft == hist.faults < MaxFaults /\ Calm
Fault == [hist EXCEPT !.faults = @ + 1]
Down == mode \in {"down", "teardown"}

\* The context of the phase is cancelled: the run's by an interrupt, the
\* deferred teardown's by a second one or its timeout, the restore's never.
Cancelled == \/ stops >= 1 /\ mode \in {"realize", "script", "down"}
             \/ stops = 2 /\ mode = "teardown"

Advance == todo' = Tail(todo) /\ UNCHANGED failed

\* Fault: downer.do drops the error.
FailSwallowed ==
    /\ failed' = IF Down THEN failed ELSE TRUE
    /\ todo' = IF Down THEN Tail(todo) ELSE <<>>

\* downer.do counts the error and goes on (a failed delete is not waited for);
\* everywhere else the phase ends, except that an agent the step stopped is
\* started first.
AgentStopped == \E i \in 2..Len(todo) : todo[i] = <<"start">>
                                       /\ \A j \in 1..Len(todo) : todo[j] # <<"stop">>
Fail ==
    /\ failed' = TRUE
    /\ todo' = IF Down
               THEN IF Head(todo)[1] = "delete" /\ Len(todo) > 1 /\ todo[2] = <<"gone", Head(todo)[2]>>
                    THEN Tail(Tail(todo)) ELSE Tail(todo)
               ELSE IF AgentStopped THEN << <<"start">> >> ELSE <<>>

idleVars == <<mode, part, rs, dirty, stops, steps, script>>

\* An API call that changes the cloud.
CallOk ==
    /\ Doing(Calls) /\ ~Cancelled /\ ~Refused(cloud, Head(todo))
    /\ cloud' = Apply(cloud, Head(todo))
    /\ Advance
    /\ UNCHANGED <<idleVars, file, agent, hist>>

CallFails ==
    /\ Doing(Calls \cup {"wait", "gone", "servers", "ports"})
    /\ \/ (Cancelled \/ (Head(todo)[1] \in Calls /\ Refused(cloud, Head(todo)))) /\ UNCHANGED hist
       \/ ~Cancelled /\ FaultLeft /\ hist' = Fault
    /\ Fail
    /\ UNCHANGED <<idleVars, cloud, file, agent>>

\* The cloud does it, and the answer is lost.
CallLost ==
    /\ Doing(Calls) /\ ~Cancelled /\ ~Refused(cloud, Head(todo)) /\ FaultLeft
    /\ cloud' = Apply(cloud, Head(todo))
    /\ hist' = Fault
    /\ Fail
    /\ UNCHANGED <<idleVars, file, agent>>

\* Reads, lookups, gates and waits.
WaitOk ==
    /\ Doing({"wait"}) /\ ~Cancelled
    /\ Advance
    /\ UNCHANGED <<idleVars, cloud, file, agent, hist>>

WaitServerGone ==
    /\ Doing({"gone"}) /\ ~Cancelled /\ Head(todo)[2] \notin cloud.live
    /\ Advance
    /\ UNCHANGED <<idleVars, cloud, file, agent, hist>>

\* The listings of the teardown: what they find is deleted next.
Sweep ==
    /\ Doing({"servers", "ports"}) /\ ~Cancelled
    /\ LET found == IF Head(todo)[1] = "servers" THEN ListProjectServers(cloud)
                    ELSE ListNetworkPorts(cloud, Head(todo)[2])
       IN todo' = ForEach(InOrder(found), Removed) \o Tail(todo)
    /\ UNCHANGED <<idleVars, failed, cloud, file, agent, hist>>

\* The step's lookup in the run-state.
Need ==
    /\ Doing({"need"})
    /\ IF Head(todo)[2] \in rs.recs THEN Advance ELSE Fail
    /\ UNCHANGED <<idleVars, cloud, file, agent, hist>>

\* RunState.Save writes the file in place.
Remembered ==
    CASE Head(todo)[1] = "record" -> [rs EXCEPT !.recs = @ \cup {Head(todo)[2]}]
      [] Head(todo)[1] = "forget" -> [rs EXCEPT !.recs = @ \ {Head(todo)[2]}]
      [] Head(todo)[1] = "done" -> [rs EXCEPT !.done = TRUE]
      [] OTHER -> rs
Saves == {"record", "forget", "save", "done"}
MustSave == Doing(Saves) /\ ~(Head(todo)[1] = "done" /\ failed)

SaveOk ==
    /\ MustSave
    /\ rs' = Remembered
    /\ file' = [there |-> TRUE, torn |-> FALSE, state |-> rs']
    /\ Advance
    /\ UNCHANGED <<mode, part, dirty, stops, steps, script, cloud, agent, hist>>

\* The file cannot be opened, or is cut short.
SaveFails ==
    /\ MustSave /\ FaultLeft
    /\ hist' = Fault
    /\ rs' = Remembered
    /\ file' \in {file, [there |-> TRUE, torn |-> TRUE, state |-> NoState]}
    /\ Fail
    /\ UNCHANGED <<mode, part, dirty, stops, steps, script, cloud, agent>>

\* A teardown with errors does not mark the file.
NotDone ==
    /\ Doing({"done"}) /\ failed
    /\ todo' = Tail(todo)
    /\ UNCHANGED <<idleVars, failed, cloud, file, agent, hist>>

(***************************************************************************)
(* The agent host                                                          *)
(***************************************************************************)
Shell == {"set", "patch", "putback", "stop", "start", "restart", "hup"}
ShellRefused(op) == op = "putback" /\ agent.backup = "none"
ShellDoes(op) ==
    CASE op = "set" -> [agent EXCEPT !.backup = agent.config, !.config = "patched"]
      [] op = "patch" -> [agent EXCEPT !.config = "patched"]
      [] op = "putback" -> [agent EXCEPT !.config = agent.backup]
      [] op = "stop" -> [agent EXCEPT !.up = FALSE]
      [] op \in {"start", "restart"} -> [agent EXCEPT !.up = TRUE]
      [] OTHER -> agent

ShellOk ==
    /\ Doing(Shell) /\ ~Cancelled /\ ~ShellRefused(Head(todo)[1])
    /\ agent' = ShellDoes(Head(todo)[1])
    /\ Advance
    /\ UNCHANGED <<idleVars, cloud, file, hist>>

\* The restore that fails is reported: the host stays on the scenario's config.
Reported(op, h) == [h EXCEPT !.excused = @ \/ (mode = "restore" /\ op \in {"baseline", "putback"})]

\* SSH refuses the command, or the agent's metrics do not answer.
AgentFails ==
    /\ Doing(Shell \cup {"baseline", "ready"})
    /\ LET op == Head(todo)[1]
       IN \/ /\ \/ Cancelled
                \/ op \in {"baseline", "ready"} /\ ~agent.up
                \/ ShellRefused(op)
             /\ hist' = Reported(op, hist)
          \/ ~Cancelled /\ FaultLeft /\ hist' = Reported(op, Fault)
    /\ Fail
    /\ UNCHANGED <<idleVars, cloud, file, agent>>

\* The command ran and the connection was lost: a config patched like this is
\* not known to owe a restore.
ShellLost ==
    /\ Doing(Shell) /\ ~Cancelled /\ FaultLeft /\ ~ShellRefused(Head(todo)[1])
    /\ agent' = ShellDoes(Head(todo)[1])
    /\ hist' = [Fault EXCEPT !.excused = @ \/ Head(todo)[1] \in {"set", "patch"}]
    /\ Fail
    /\ UNCHANGED <<idleVars, cloud, file>>

AgentAnswers ==
    /\ Doing({"baseline", "ready"}) /\ ~Cancelled /\ agent.up
    /\ Advance
    /\ UNCHANGED <<idleVars, cloud, file, agent, hist>>

MarkConfigDirty ==
    /\ Doing({"mark", "settle"})
    /\ dirty' = (Head(todo)[1] = "mark")
    /\ Advance
    /\ UNCHANGED <<mode, part, rs, stops, steps, script, cloud, file, agent, hist>>

(***************************************************************************)
(* The phases of a command                                                 *)
(***************************************************************************)
Enter(m, ops) == mode' = m /\ part' = 0 /\ todo' = ops /\ failed' = FALSE

\* The parts run one after the other; the teardown's see the same run-state.
Parts == IF mode = "realize" THEN Len(UpPlan) ELSE IF Down THEN Len(DownPlan) ELSE 0
Finished == todo = <<>> /\ (part = Parts \/ (failed /\ ~Down))

NextPart ==
    /\ todo = <<>> /\ ~Finished
    /\ part' = part + 1
    /\ todo' = IF Down THEN DownPart(rs.recs, part + 1) ELSE UpPlan[part + 1]
    /\ UNCHANGED <<mode, failed, rs, dirty, stops, steps, script, cloud, file, agent, hist>>

\* up, or run without a live topology.  The file is absent: up refuses one
\* that records a live topology, run resumes it.
Start ==
    /\ mode = "idle" /\ hist.runs < MaxRuns /\ ~file.there
    /\ Enter("realize", <<>>)
    /\ rs' = NoState /\ dirty' = FALSE /\ stops' = 0
    /\ hist' = [hist EXCEPT !.runs = @ + 1]
    /\ UNCHANGED <<steps, script, cloud, file, agent>>

\* run --state over a live topology.  A preflight that fails, here as before a
\* fresh run, ends the command before it has done anything.
Resume ==
    /\ mode = "idle" /\ hist.runs < MaxRuns /\ Calm
    /\ file.there /\ ~file.torn /\ ~file.state.done
    /\ script' \in IF script = <<>> THEN Scripts ELSE {script}
    /\ Enter("script", <<>>)
    /\ rs' = file.state /\ dirty' = FALSE /\ stops' = 0 /\ steps' = script'
    /\ hist' = [hist EXCEPT !.runs = @ + 1]
    /\ UNCHANGED <<cloud, file, agent>>

\* Over a torn-down file it would only repeat deletions of what is gone.
StartDown ==
    /\ mode = "idle" /\ file.there /\ ~file.torn /\ ~file.state.done
    /\ Enter("down", <<>>)
    /\ rs' = file.state /\ dirty' = FALSE /\ stops' = 0
    /\ UNCHANGED <<steps, script, cloud, file, agent, hist>>

\* The command returns; what it knew is gone.
Exit == Enter("idle", <<>>) /\ rs' = NoState /\ dirty' = FALSE /\ steps' = <<>>

StartScript ==
    /\ mode = "realize" /\ Finished /\ ~failed
    /\ Enter("script", <<>>)
    /\ script' \in IF script = <<>> THEN Scripts ELSE {script}
    /\ steps' = script'
    /\ UNCHANGED <<rs, dirty, stops, cloud, file, agent, hist>>

RunStep ==
    /\ mode = "script" /\ todo = <<>> /\ ~failed /\ steps # <<>>
    /\ todo' = StepOps(Head(steps)) /\ steps' = Tail(steps)
    /\ UNCHANGED <<mode, part, failed, rs, dirty, stops, script, cloud, file, agent, hist>>

\* runSteps returns: the deferred RestoreDirtyConfigs takes the debt.
EndScript ==
    /\ mode = "script" /\ todo = <<>> /\ (failed \/ steps = <<>>)
    /\ Enter("restore", IF dirty THEN RestartRestore ELSE <<>>)
    /\ dirty' = FALSE
    /\ UNCHANGED <<rs, stops, steps, script, cloud, file, agent, hist>>

\* Run's deferred teardown, after the script or a partial realize.
StartTeardown ==
    /\ Finished
    /\ mode = "restore" \/ (mode = "realize" /\ failed)
    /\ Enter("teardown", <<>>)
    /\ UNCHANGED <<rs, dirty, stops, steps, script, cloud, file, agent, hist>>

\* up ends when the topology is realized or an error stops it, run with --keep
\* after its script, and a teardown when it has tried everything.
EndCommand ==
    /\ Finished /\ mode \in {"realize", "restore", "down", "teardown"}
    /\ Exit
    /\ UNCHANGED <<stops, script, cloud, file, agent, hist>>

(***************************************************************************)
(* The world outside                                                       *)
(***************************************************************************)
\* Ctrl-C; or the deferred teardown's five minutes are over.
Interrupt ==
    /\ mode # "idle" /\ stops < 2 /\ FaultLeft
    /\ stops' = IF mode = "teardown" THEN 2 ELSE stops + 1
    /\ hist' = Fault
    /\ UNCHANGED <<mode, part, todo, failed, rs, dirty, steps, script, cloud, file, agent>>

\* The process is killed, possibly in the middle of a save.
Crash ==
    /\ mode # "idle" /\ hist.crashes < MaxCrashes /\ Calm
    /\ Exit
    /\ hist' = [hist EXCEPT !.crashes = @ + 1, !.excused = @ \/ agent.config # "own"]
    /\ \/ UNCHANGED file
       \/ MustSave /\ file' = [there |-> TRUE, torn |-> TRUE, state |-> NoState]
    /\ UNCHANGED <<stops, script, cloud, agent>>

DeletionEnds ==
    \E x \in cloud.dying :
        /\ cloud' = Vanish(cloud, x)
        /\ UNCHANGED <<procVars, script, file, agent, hist>>

PlatformPlugs ==
    \E p \in Platform \ hist.plugged :
        /\ Parent[p] \in cloud.live
        /\ cloud' = CreateOther(cloud, p)
        /\ hist' = [hist EXCEPT !.plugged = @ \cup {p}]
        /\ UNCHANGED <<procVars, script, file, agent>>

Work ==
    \/ CallOk \/ CallFails \/ CallLost \/ WaitOk \/ WaitServerGone \/ Sweep \/ Need
    \/ SaveOk \/ SaveFails \/ NotDone
    \/ ShellOk \/ AgentFails \/ ShellLost \/ AgentAnswers \/ MarkConfigDirty
    \/ NextPart \/ StartScript \/ RunStep \/ EndScript \/ StartTeardown \/ EndCommand
Next ==
    \/ Work
    \/ Start \/ Resume \/ StartDown
    \/ Interrupt \/ Crash \/ DeletionEnds \/ PlatformPlugs

\* Something goes on: the command, or a deletion a service accepted, or, when
\* neither can, the operator runs `down` again on a file that is live.
Fairness == WF_vars(Work \/ DeletionEnds \/ StartDown)
Spec == Init /\ [][Next]_vars /\ Fairness

(***************************************************************************)
(* Properties                                                              *)
(***************************************************************************)
\* What an operation can be.
Verbs == Calls \cup Saves \cup Shell
         \cup {"wait", "gone", "servers", "ports", "need", "baseline", "ready", "mark", "settle"}

\* Every variable keeps its type, and what is left to do is made of operations
\* that some action runs.
TypeOK ==
    /\ mode \in {"idle", "realize", "script", "restore", "teardown", "down"}
    /\ part \in 0..20 /\ \A i \in DOMAIN todo : todo[i][1] \in Verbs
    /\ {failed, dirty} \subseteq BOOLEAN
    /\ rs.recs \subseteq Resources /\ rs.done \in BOOLEAN
    /\ stops \in 0..2 /\ script \in Scripts \cup {<<>>} /\ Len(steps) <= Len(script)
    /\ cloud.dying \subseteq cloud.live /\ cloud.live \subseteq Resources
    /\ cloud.routed \subseteq cloud.live
    /\ file.state.recs \subseteq Resources /\ {file.there, file.torn} \subseteq BOOLEAN
    /\ agent \in [config : {"own", "patched"}, backup : {"none", "own", "patched"}, up : BOOLEAN]

Projects == Of("project", Resources)
Servers == Of("server", Resources)
NetworkPorts == Of("port", Resources)
Subnets == Of("subnet", Resources)
Owned == cloud.live \ Projects

\* What a teardown finds without a record: servers by name, and the ports and
\* subnets of a recorded network.
Swept(R) == Servers \cup {p \in NetworkPorts : NetworkOf(p) \in R}
                    \cup {s \in Subnets : Parent[s] \in R}

\* Ports nobody records: the ones the platform plugs and Octavia's VIP ports.
Unrecorded == Platform \cup VIPPorts

\* However a command ends, a readable run-state file misses at most one live
\* resource per command that created any, VMs and their ports included; only the
\* ports other services make are on no record (RunState.Save: "the on-disk record
\* never lags the live resources by more than one create").
RecordLagsByOne ==
    file.torn \/ Cardinality(Owned \ (file.state.recs \cup Unrecorded)) <= hist.runs

\* A file marked torn down means that nothing it records, and nothing a sweep
\* would find, is alive (RunState.TornDown: "every recorded resource is gone").
TornDownMeansGone ==
    file.state.done => Owned \cap (file.state.recs \cup Swept(file.state.recs)) = {}

\* When a command has ended, the agent host is back on its own config, unless
\* the process was killed, the reply to the patch was lost or the restore was
\* reported as failed (runSteps: "an aborted run never leaves an agent host on
\* the scenario's temporary config").
ConfigsRestored == mode = "idle" /\ ~hist.excused => agent.config = "own"

\* Running `down` again converges: a topology whose file can be read does not
\* stay, whatever the earlier commands left half done.
Live == file.there /\ ~file.torn /\ ~file.state.done
DownConverges == []<>(~Live)
=============================================================================

-------------------------- MODULE ReconcileProofs --------------------------
(***************************************************************************)
(* Proofs about the reconciler: when its passes run (KickLoop), for any    *)
(* MaxWait, interval, windows and number of changes and failures; what a   *)
(* pass publishes (Zoning), for any topology, changes and load balancers;  *)
(* and what it does to the bindings that other goroutines read and sweep   *)
(* (MacLifecycle), for any MACs, owners, changes and failed writes.        *)
(*                                                                         *)
(* When: whatever is handled after a pass has read Neutron leaves a token  *)
(* in the channel that the pass cannot take, and the debounce timer never  *)
(* outlives the deadline set by the first waiting kick.                    *)
(*                                                                         *)
(* What: bytes are folded before either map they are labelled by changes;  *)
(* a pass that lists the load balancers flags their ports and adds their   *)
(* addresses, and no address is added that was never an amphora's.  The    *)
(* loop that resolves a static route is a walk over the routers: it visits *)
(* none twice, each hop has one successor, so it answers what the one      *)
(* longest path does; and the trie is that of the topology, so a tenant's  *)
(* own addresses bill as its own unless a route leads them elsewhere.      *)
(*                                                                         *)
(* Bindings: userspace is written first and deleted last, so the kernel    *)
(* knows no MAC that userspace does not, except one learnt under a sweep.  *)
(***************************************************************************)
EXTENDS KickLoop, Zoning, MacLifecycle, TLAPS, WellFoundedInduction, NaturalsInduction,
        FiniteSetTheorems, SequenceTheorems

\* A change handled since the fetch has its token in the channel.
TokenInv == pc = "apply" /\ handled > got => kick

\* The timer ends before the deadline, and the deadline with MaxWait.
TimerInv ==
    /\ armed => settle <= deadline /\ wait + deadline <= MaxWait
    /\ ~armed \/ pc # "select" => wait = 0

\* The inductive invariant.
LoopInv == LoopTypeOK /\ NothingForgotten /\ TokenInv /\ TimerInv

\* The types, with the Boolean variables apart.
Numbers ==
    /\ version \in Nat /\ handled \in Nat /\ got \in Nat /\ seen \in Nat /\ lost \in Nat
    /\ handled <= version /\ got <= version /\ seen <= got /\ lost <= handled
    /\ settle \in Nat /\ deadline \in Nat /\ wait \in Nat /\ tick \in Nat
    /\ window \in Nat

\* What the types say of the numbers.
LEMMA NumbersTyped == LoopTypeOK => Numbers
  BY KickAssumption DEF LoopTypeOK, Numbers

\* A booted loop has nothing to do.
LEMMA LoopStart == LoopInit => LoopInv
<1> SUFFICES ASSUME LoopInit PROVE LoopInv
  OBVIOUS
<1> USE KickAssumption DEF LoopInit
<1>1. LoopTypeOK
  <2>1. kick \in BOOLEAN /\ armed \in BOOLEAN /\ ticked \in BOOLEAN
    OBVIOUS
  <2>2. tick \in 1..Interval /\ version \in 0..MaxVersion /\ handled \in 0..version
    OBVIOUS
  <2>3. got \in 0..version /\ seen \in 0..got /\ lost \in 0..handled
    OBVIOUS
  <2> QED BY <2>1, <2>2, <2>3 DEF LoopTypeOK
<1>2. NothingForgotten /\ TokenInv /\ TimerInv
  BY DEF NothingForgotten, TokenInv, TimerInv
<1> QED BY <1>1, <1>2 DEF LoopInv

\* Every step keeps the types.
LEMMA LoopStepTypeOK ==
    ASSUME LoopTypeOK, LoopNext
    PROVE  LoopTypeOK'
<1> USE KickAssumption DEF LoopTypeOK, kickVars, timerVars, runVars
<1>1. CASE Change
  BY <1>1 DEF Change
<1>2. CASE Handle
  BY <1>2 DEF Handle, Kick
<1>3. CASE \E w \in Windows : Reload(w)
  BY <1>3 DEF Reload
<1>4. CASE OnTick
  BY <1>4 DEF OnTick, StartPass
<1>5. CASE OnKickNow
  BY <1>5 DEF OnKickNow, StartPass
<1>6. CASE OnKick
  BY <1>6 DEF OnKick, Least
<1>7. CASE OnSettle
  BY <1>7 DEF OnSettle, StartPass
<1>8. CASE Fetch
  BY <1>8 DEF Fetch
<1>9. CASE Commit \/ Fail
  <2>1. armed' \in BOOLEAN
    BY <1>9 DEF Commit, Fail, Disarm
  <2>2. CASE Commit
    BY <2>1, <2>2 DEF Commit
  <2>3. CASE Fail
    BY <2>1, <2>3 DEF Fail
  <2> QED BY <1>9, <2>2, <2>3
<1>10. CASE Tock
  <2>1. ticked' \in BOOLEAN
    BY <1>10 DEF Tock
  <2>2. settle' \in Nat /\ deadline' \in Nat /\ wait' \in Nat /\ tick' \in 1..Interval
    BY <1>10 DEF Tock, Less1
  <2> QED BY <1>10, <2>1, <2>2 DEF Tock
<1> QED BY <1>1, <1>2, <1>3, <1>4, <1>5, <1>6, <1>7, <1>8, <1>9, <1>10 DEF LoopNext, Loop

\* Every step keeps handled changes in sight.
LEMMA LoopStepForgotten ==
    ASSUME LoopInv, LoopNext
    PROVE  NothingForgotten' /\ TokenInv'
<1> USE DEF NothingForgotten, TokenInv, kickVars, timerVars, runVars
<1>0. Numbers /\ NothingForgotten /\ TokenInv
  BY NumbersTyped DEF LoopInv
<1>1. CASE Change
  BY <1>0, <1>1 DEF Change
<1>2. CASE Handle
  BY <1>2 DEF Handle, Kick
<1>3. CASE \E w \in Windows : Reload(w)
  BY <1>0, <1>3 DEF Reload
<1>4. CASE OnTick \/ OnKickNow \/ OnSettle
  BY <1>4 DEF OnTick, OnKickNow, OnSettle, StartPass
<1>5. CASE OnKick
  BY <1>5 DEF OnKick
<1>6. CASE Fetch
  BY <1>0, <1>6 DEF Fetch, Numbers
<1>7. CASE Commit
  BY <1>0, <1>7 DEF Commit, Numbers
<1>8. CASE Fail
  BY <1>0, <1>8 DEF Fail, Numbers
<1>9. CASE Tock
  BY <1>0, <1>9 DEF Tock
<1> QED BY <1>1, <1>2, <1>3, <1>4, <1>5, <1>6, <1>7, <1>8, <1>9 DEF LoopNext, Loop

\* Every step keeps the timer within the deadline.
LEMMA LoopStepTimer ==
    ASSUME LoopInv, LoopNext
    PROVE  TimerInv'
<1> USE KickAssumption DEF TimerInv, kickVars, timerVars, runVars
<1>0. Numbers /\ TimerInv
  BY NumbersTyped DEF LoopInv
<1>1. CASE Change \/ Handle \/ \E w \in Windows : Reload(w)
  BY <1>0, <1>1 DEF Change, Handle, Kick, Reload
<1>2. CASE OnTick \/ OnKickNow \/ OnSettle
  BY <1>0, <1>2 DEF OnTick, OnKickNow, OnSettle, StartPass, Numbers
<1>3. CASE OnKick
  BY <1>0, <1>3 DEF OnKick, Least, Numbers
<1>4. CASE Fetch
  BY <1>0, <1>4 DEF Fetch
<1>5. CASE Commit \/ Fail
  BY <1>0, <1>5 DEF Commit, Fail, Disarm
<1>6. CASE Tock
  BY <1>0, <1>6 DEF Tock, Less1, Ready, Numbers
<1> QED BY <1>1, <1>2, <1>3, <1>4, <1>5, <1>6 DEF LoopNext, Loop

\* Every step keeps the invariant.
LEMMA LoopStep == LoopInv /\ [LoopNext]_loopVars => LoopInv'
<1> SUFFICES ASSUME LoopInv, [LoopNext]_loopVars PROVE LoopInv'
  OBVIOUS
<1>1. CASE LoopNext
  BY <1>1, LoopStepTypeOK, LoopStepForgotten, LoopStepTimer DEF LoopInv
<1>2. CASE UNCHANGED loopVars
  BY <1>2 DEF loopVars, kickVars, timerVars, runVars, LoopInv, LoopTypeOK, NothingForgotten,
              TokenInv, TimerInv
<1> QED BY <1>1, <1>2

\* The inductive invariant holds in every reachable state of the loop.
THEOREM LoopInvariant == LoopSpec => []LoopInv
<1> QED BY LoopStart, LoopStep, PTL DEF LoopSpec

\* The loop's variables keep their types, and no pass commits more than it read.
THEOREM LoopTypeCorrect == LoopSpec => []LoopTypeOK
<1>1. LoopInv => LoopTypeOK
  BY DEF LoopInv
<1> QED BY <1>1, LoopInvariant, PTL

\* No coalesced, debounced or overtaken kick forgets its change (Kick, Run).
THEOREM NoKickForgotten == LoopSpec => []NothingForgotten
<1>1. LoopInv => NothingForgotten
  BY DEF LoopInv
<1> QED BY <1>1, LoopInvariant, PTL

\* A steady stream of kicks cannot hold a pass back beyond MaxWait (Run).
THEOREM DebounceBounded == LoopSpec => []WaitBounded
<1>1. LoopInv => WaitBounded
  BY KickAssumption, NumbersTyped DEF LoopInv, TimerInv, Numbers, WaitBounded
<1> QED BY <1>1, LoopInvariant, PTL

-----------------------------------------------------------------------------
(* Zoning: bytes and labels.                                               *)

VMMacs == {p.mac : p \in VMs}

\* Live bytes show under the label they carry; what has just been folded has none,
\* nor has a VM that no pass has bound.
LabelInv ==
    /\ BytesKeepLabel
    /\ \A f \in InWindow : carried[f] = {}
    /\ \A f \in Flows : f[1] \notin DOMAIN labels => carried[f] = {}
    /\ DOMAIN labels = VMMacs \cap DOMAIN kmac

\* How far a running pass is.
PartInv ==
    /\ part # "rest" => dirty
    /\ settling # NoMAC => part = "learn"
    /\ part \in {"routers", "swap", "addresses"} =>
        /\ \A m \in VMMacs : m \in DOMAIN labels /\ labels[m] = ExternalNetworkByPort[m]
        /\ \A m \in DOMAIN DesiredMACs : m \in DOMAIN kmac /\ kmac[m] = DesiredMACs[m]
    /\ part = "addresses" => Changed(RouterExtMACs) = {}

\* Octavia's maps after a pass that missed no load balancer.
SegmentInv ==
    /\ kbase \subseteq ever
    /\ ~dirty => /\ VMMacs \subseteq DOMAIN kmac
                 /\ \A m \in VMMacs : kmac[m].amphora = FALSE
    /\ ~dirty /\ octavia =>
        \A l \in Live : /\ Mac(l) \in DOMAIN kmac
                        /\ kmac[Mac(l)].amphora = TRUE /\ kmac[Mac(l)].tenant = LBOwner[l]
                        /\ <<LBOwner[l], lb[l].base>> \in kbase

\* The invariant of what a pass publishes.
ZInv == LabelInv /\ PartInv /\ SegmentInv /\ LabelsAgree

\* The flows are between VMs and router interfaces.
LEMMA FlowEnds == \A f \in Flows : f[1] \in VMMacs /\ f[1] # NoMAC
<1>1. \A p \in VMs : p.mac # NoMAC
  BY PortsAssumption DEF VMs
<1> QED BY <1>1 DEF Flows, VMMacs

\* A pass labels the VMs, and only those.
LEMMA LabelDomain == DOMAIN ExternalNetworkByPort = VMMacs
  BY DEF ExternalNetworkByPort, VMMacs

\* What a pass wants depends on Neutron, and on the lists it got, alone.
LEMMA SameWanted ==
    ASSUME UNCHANGED <<gateway, fip, lb>>
    PROVE  /\ ExternalNetworkByPort' = ExternalNetworkByPort /\ RouterExtMACs' = RouterExtMACs
           /\ listed' = listed => DesiredMACs' = DesiredMACs
<1>1. ExternalNetworkByPort' = ExternalNetworkByPort
  BY DEF ExternalNetworkByPort, Candidates, SubnetExt
<1>2. RouterExtMACs' = RouterExtMACs
  BY DEF RouterExtMACs
<1>3. listed' = listed => DesiredMACs' = DesiredMACs
  BY DEF DesiredMACs, AmphoraMACs, Live
<1> QED BY <1>1, <1>2, <1>3

\* Between passes no flow is folded and unpublished.
LEMMA NoWindow == part # "swap" /\ settling = NoMAC => InWindow = {}
  BY FlowEnds DEF InWindow

\* An edit publishes nothing.
LEMMA EditKeeps ==
    ASSUME ZInv, Edit
    PROVE  ZInv'
<1>1. /\ UNCHANGED <<part, settling, listed, octavia, entries, labels, routerExt, kmac, ktrie, kbase, carried,
                     late, ever, misfiled>>
      /\ dirty' = TRUE /\ ~dirty
  BY DEF Edit, publishedVars, kernelVars, partVars, bytesVars
<1>2. part = "rest" /\ settling = NoMAC
  BY <1>1 DEF ZInv, PartInv
<1>3. InWindow' = {}
  <2>1. (part # "swap" /\ settling = NoMAC)'
    BY <1>1, <1>2
  <2> QED BY <2>1, FlowEnds DEF InWindow, Flows
<1>4. BytesKeepLabel'
  BY <1>1 DEF ZInv, LabelInv, BytesKeepLabel, FlowExternalLabel
<1>5. LabelInv'
  BY <1>1, <1>3, <1>4 DEF ZInv, LabelInv
<1>6. PartInv'
  BY <1>1, <1>2 DEF PartInv
<1>7. SegmentInv' /\ LabelsAgree'
  BY <1>1 DEF ZInv, SegmentInv, LabelsAgree
<1> QED BY <1>5, <1>6, <1>7 DEF ZInv

\* A fold empties its flows and credits their bytes with the label they carry.
LEMMA SettleKeeps ==
    ASSUME LabelInv, NEW F, F \subseteq Flows, Settle(F), UNCHANGED <<labels, routerExt, kmac>>
    PROVE  /\ BytesKeepLabel'
           /\ \A f \in Flows : carried'[f] = IF f \in F THEN {} ELSE carried[f]
           /\ \A f \in Flows : f[1] \notin DOMAIN labels' => carried'[f] = {}
           /\ DOMAIN labels' = VMMacs \cap DOMAIN kmac'
<1>1. /\ carried' = [f \in Flows |-> IF f \in F THEN {} ELSE carried[f]]
      /\ misfiled' = (misfiled \/ \E f \in F : carried[f] \ {FlowExternalLabel(routerExt, labels, f)} # {})
  BY DEF Settle
<1>2. \A f \in Flows : carried'[f] = IF f \in F THEN {} ELSE carried[f]
  BY <1>1
<1>3. ~misfiled /\ \A f \in Flows : \A x \in carried[f] : x = FlowExternalLabel(routerExt, labels, f)
  BY DEF LabelInv, BytesKeepLabel
<1>4. ~misfiled'
  <2>1. ~\E f \in F : carried[f] \ {FlowExternalLabel(routerExt, labels, f)} # {}
    BY <1>3
  <2> QED BY <1>1, <1>3, <2>1
<1>5. \A f \in Flows : \A x \in carried'[f] : x = FlowExternalLabel(routerExt, labels, f)
  BY <1>2, <1>3
<1>6. BytesKeepLabel'
  BY <1>4, <1>5 DEF BytesKeepLabel, FlowExternalLabel
<1>7. \A f \in Flows : f[1] \notin DOMAIN labels' => carried'[f] = {}
  BY <1>2 DEF LabelInv
<1> QED BY <1>2, <1>6, <1>7 DEF LabelInv

\* settleAttributionChange: the window of the MAC opens with nothing live in it.
LEMMA SettleMACKeeps ==
    ASSUME ZInv, NEW m, SettleMAC(m)
    PROVE  ZInv'
<1> DEFINE F == {f \in Flows : f[1] = m}
<1>1. /\ part = "learn" /\ settling = NoMAC /\ settling' = m /\ Settle(F)
      /\ UNCHANGED <<routes, shared, gateway, fip, lb, dirty, part, listed, octavia, labels, routerExt, kmac, kbase, ever>>
  BY DEF SettleMAC, At, netVars, publishedVars, kernelVars
<1>2. /\ BytesKeepLabel'
      /\ \A f \in Flows : carried'[f] = IF f \in F THEN {} ELSE carried[f]
      /\ \A f \in Flows : f[1] \notin DOMAIN labels' => carried'[f] = {}
      /\ DOMAIN labels' = VMMacs \cap DOMAIN kmac'
  <2>1. F \subseteq Flows
    OBVIOUS
  <2> HIDE DEF F
  <2> QED BY <1>1, <2>1, SettleKeeps DEF ZInv
<1>3. \A f \in InWindow' : f \in F
  BY <1>1 DEF InWindow, Flows
<1>4. \A f \in InWindow' : carried'[f] = {}
  BY <1>2, <1>3
<1>5. LabelInv'
  BY <1>2, <1>4 DEF LabelInv, Flows
<1>6. PartInv'
  BY <1>1 DEF ZInv, PartInv
<1>7. SegmentInv' /\ LabelsAgree'
  BY <1>1 DEF ZInv, SegmentInv, LabelsAgree, Live
<1> QED BY <1>5, <1>6, <1>7 DEF ZInv

\* insertMAC: a new label meets no live bytes.
LEMMA InsertMACKeeps ==
    ASSUME ZInv, NEW m \in DOMAIN DesiredMACs, InsertMAC(m)
    PROVE  ZInv'
<1>1. /\ part = "learn" /\ (settling = m \/ (settling = NoMAC /\ m \notin DOMAIN kmac))
      /\ settling' = NoMAC /\ part' = "learn"
      /\ kmac' = Put(kmac, m, DesiredMACs[m])
      /\ labels' = IF m \in VMMacs THEN Put(labels, m, ExternalNetworkByPort[m]) ELSE labels
      /\ UNCHANGED <<dirty, listed, octavia, routerExt, kbase, ever, carried, late, misfiled>>
  BY LabelDomain DEF InsertMAC, Unbound, bytesVars
<1>2. dirty
  BY <1>1 DEF ZInv, PartInv
<1>3. DOMAIN kmac' = DOMAIN kmac \cup {m}
  BY <1>1 DEF Put
<1>4. /\ DOMAIN labels' = VMMacs \cap DOMAIN kmac'
      /\ DOMAIN labels \subseteq DOMAIN labels'
      /\ \A k \in DOMAIN labels : k # m => labels'[k] = labels[k]
  <2>1. CASE m \in VMMacs
    <3>1. labels' = Put(labels, m, ExternalNetworkByPort[m])
      BY <1>1, <2>1
    <3> QED BY <1>3, <2>1, <3>1 DEF Put, ZInv, LabelInv
  <2>2. CASE m \notin VMMacs
    BY <1>1, <1>3, <2>2 DEF ZInv, LabelInv
  <2> QED BY <2>1, <2>2
<1>5. \A f \in Flows : f[1] = m => carried[f] = {}
  <2>1. CASE settling = m
    BY <2>1 DEF ZInv, LabelInv, InWindow
  <2>2. CASE m \notin DOMAIN kmac
    BY <2>2 DEF ZInv, LabelInv
  <2> QED BY <1>1, <2>1, <2>2
<1>6. \A f \in Flows : \A x \in carried[f] : x = FlowExternalLabel(routerExt, labels', f)
  <2> SUFFICES ASSUME NEW f \in Flows, NEW x \in carried[f]
               PROVE  x = FlowExternalLabel(routerExt, labels', f)
    OBVIOUS
  <2>1. f[1] \in DOMAIN labels /\ f[1] # m
    BY <1>5 DEF ZInv, LabelInv
  <2>2. labels'[f[1]] = labels[f[1]]
    BY <1>4, <2>1
  <2>3. x = FlowExternalLabel(routerExt, labels, f)
    BY DEF ZInv, LabelInv, BytesKeepLabel
  <2> QED BY <2>2, <2>3 DEF FlowExternalLabel
<1>7. BytesKeepLabel'
  <2>1. ~misfiled'
    BY <1>1 DEF ZInv, LabelInv, BytesKeepLabel
  <2> QED BY <1>1, <1>6, <2>1 DEF BytesKeepLabel, FlowExternalLabel
<1>8. InWindow' = {}
  BY <1>1, FlowEnds DEF InWindow, Flows
<1>9. \A f \in Flows : f[1] \notin DOMAIN labels' => carried'[f] = {}
  BY <1>1, <1>4 DEF ZInv, LabelInv
<1>10. LabelInv'
  BY <1>4, <1>7, <1>8, <1>9 DEF LabelInv
<1>11. PartInv'
  BY <1>1, <1>2 DEF PartInv
<1>12. SegmentInv' /\ LabelsAgree'
  BY <1>1, <1>2 DEF ZInv, SegmentInv, LabelsAgree
<1> QED BY <1>10, <1>11, <1>12 DEF ZInv

\* Before a MAC is settled, applyTrie changes no label.
LEMMA ApplyTrieKeeps ==
    ASSUME ZInv, NEW ok, ApplyTrie(ok)
    PROVE  ZInv'
<1>1. /\ dirty /\ settling = NoMAC /\ part' = "learn"
      /\ UNCHANGED <<dirty, settling, octavia, labels, routerExt, kmac, kbase, ever, carried, late, misfiled>>
  BY DEF ApplyTrie, At, bytesVars
<1>2. InWindow' = {}
  BY <1>1, FlowEnds DEF InWindow, Flows
<1>3. BytesKeepLabel'
  BY <1>1 DEF ZInv, LabelInv, BytesKeepLabel, FlowExternalLabel
<1>4. LabelInv'
  BY <1>1, <1>2, <1>3 DEF ZInv, LabelInv
<1>5. PartInv' /\ SegmentInv' /\ LabelsAgree'
  BY <1>1 DEF ZInv, PartInv, SegmentInv, LabelsAgree
<1> QED BY <1>4, <1>5 DEF ZInv

\* The label of a VM and that of the interface at its gateway's address.
LEMMA SameLabel ==
    ASSUME NEW v \in VMs, NEW p \in PortSet, fip[v.mac] = NoNet, p.kind = "iface", p.net = v.net,
           p.ip = Gateway[v.net], p.mac \in DOMAIN RouterExtMACs
    PROVE  ExternalNetworkByPort[v.mac] = RouterExtMACs[p.mac]
<1>1. \A q \in PortSet : q.mac = p.mac => q = p
  BY PortsAssumption
<1>2. p.dev \in Routers /\ gateway[p.dev] # NoNet
  <2>1. p.mac \in {q.mac : q \in {q \in PortSet : q.kind = "iface" /\ q.dev \in Routers /\ gateway[q.dev] # NoNet}}
    BY DEF RouterExtMACs
  <2> QED BY <1>1, <2>1
<1>3. RouterExtMACs[p.mac] = gateway[p.dev]
  <2>1. (CHOOSE q \in PortSet : q.mac = p.mac) = p
    BY <1>1
  <2> QED BY <2>1 DEF RouterExtMACs
<1>4. (CHOOSE q \in VMs : q.mac = v.mac) = v
  <2>1. \A q \in VMs : q.mac = v.mac => q = v
    BY PortsAssumption DEF VMs
  <2> QED BY <2>1
<1> DEFINE exts(S) == {gateway[q.dev] : q \in {q \in S : q.dev \in Routers}} \ {NoNet}
           ifs == {q \in PortSet : q.kind = "iface" /\ q.net = v.net}
           own == {q \in ifs : q.ip = Gateway[v.net]}
<1>5. own = {p}
  BY PortsAssumption
<1>6. exts(own) = {gateway[p.dev]}
  BY <1>2, <1>5
<1>7. SubnetExt(v.net) = {gateway[p.dev]}
  <2>1. SubnetExt(v.net) = IF exts(own) # {} THEN exts(own) ELSE exts(ifs)
    BY DEF SubnetExt
  <2> QED BY <1>6, <2>1
<1>8. Candidates(v) = {gateway[p.dev]}
  BY <1>7 DEF Candidates
<1>9. Pick({gateway[p.dev]}) = gateway[p.dev]
  BY DEF Pick
<1>10. ExternalNetworkByPort[v.mac] = gateway[p.dev]
  <2>1. v.mac \in {q.mac : q \in VMs}
    OBVIOUS
  <2>2. ExternalNetworkByPort[v.mac] =
          LET c == Candidates(CHOOSE q \in VMs : q.mac = v.mac) IN IF c = {} THEN NoNet ELSE Pick(c)
    BY <2>1 DEF ExternalNetworkByPort
  <2> QED BY <1>4, <1>8, <1>9, <2>2
<1> QED BY <1>3, <1>10

\* The ports of the amphorae are not those of VMs.
LEMMA AmphoraPorts ==
    ASSUME NEW l \in LBs
    PROVE  Mac(l) \notin VMMacs
<1>1. Mac(l) \in LBs \X {"data", "mgmt"}
  BY DEF Mac
<1>2. \A p \in VMs : p.mac \notin LBs \X {"data", "mgmt"}
  BY PortsAssumption DEF VMs
<1> QED BY <1>1, <1>2 DEF VMMacs

\* The bindings a pass wants: every VM, and every load balancer it listed.
LEMMA DesiredDomain ==
    ASSUME listed \in BOOLEAN
    PROVE  /\ VMMacs \subseteq DOMAIN DesiredMACs
           /\ \A m \in VMMacs : DesiredMACs[m].amphora = FALSE
           /\ listed => \A l \in Live :
                  /\ Mac(l) \in DOMAIN DesiredMACs
                  /\ DesiredMACs[Mac(l)] = [tenant |-> LBOwner[l], amphora |-> TRUE]
<1> DEFINE vm == [m \in VMMacs |-> [tenant |-> (CHOOSE p \in VMs : p.mac = m).proj, amphora |-> FALSE]]
           amp == AmphoraMACs
<1>1. DesiredMACs = [m \in DOMAIN vm \cup DOMAIN amp |-> IF m \in DOMAIN vm THEN vm[m] ELSE amp[m]]
  BY DEF DesiredMACs, VMMacs
<1>2. /\ DOMAIN vm = VMMacs
      /\ \A m \in VMMacs : vm[m].amphora = FALSE
  OBVIOUS
<1>3. ASSUME listed, NEW l \in Live
      PROVE  Mac(l) \in DOMAIN amp /\ amp[Mac(l)] = [tenant |-> LBOwner[l], amphora |-> TRUE]
  <2>1. Mac(l) \in {<<k, "data">> : k \in Live} \cup {<<k, "mgmt">> : k \in Live}
    BY DEF Mac
  <2>2. Mac(l)[1] = l /\ Mac(l)[2] = "data"
    BY DEF Mac
  <2> QED BY <1>3, <2>1, <2>2 DEF AmphoraMACs
<1>4. \A l \in Live : Mac(l) \notin VMMacs
  BY AmphoraPorts DEF Live
<1> HIDE DEF vm, amp
<1> QED BY <1>1, <1>2, <1>3, <1>4

\* ghostGoneMACs comes when every wanted MAC is bound as wanted.
LEMMA GhostMACsKeeps ==
    ASSUME ZInv, listed \in BOOLEAN, NEW ghosts, GhostMACs(ghosts)
    PROVE  ZInv'
<1> DEFINE want == DesiredMACs
<1>1. /\ part = "learn" /\ settling = NoMAC /\ part' = "routers"
      /\ \A m \in DOMAIN want : ~Unbound(m) /\ ~Rebound(m)
      /\ kmac' = [m \in DOMAIN want \cup ghosts |-> kmac[m]]
      /\ UNCHANGED <<gateway, fip, lb, dirty, settling, listed, octavia, labels, routerExt, kbase, ever, carried, late, misfiled>>
  BY DEF GhostMACs, At, bytesVars, netVars
<1>2. dirty
  BY <1>1 DEF ZInv, PartInv
<1>3. DOMAIN want \subseteq DOMAIN kmac' /\ \A m \in DOMAIN want : kmac'[m] = kmac[m]
  <2> HIDE DEF want
  <2> QED BY <1>1
<1>4. \A m \in DOMAIN want : m \in DOMAIN kmac /\ kmac[m] = want[m]
  BY <1>1 DEF Unbound, Rebound
<1>5. VMMacs \subseteq DOMAIN want
  BY DesiredDomain
<1>6. \A m \in VMMacs : m \in DOMAIN labels => labels[m] = ExternalNetworkByPort[m]
  BY <1>1, <1>5 DEF Rebound
<1>7. DOMAIN labels = VMMacs
  BY <1>4, <1>5 DEF ZInv, LabelInv
<1>8. InWindow' = {}
  BY <1>1, FlowEnds DEF InWindow, Flows
<1>9. BytesKeepLabel'
  BY <1>1 DEF ZInv, LabelInv, BytesKeepLabel, FlowExternalLabel
<1>10. LabelInv'
  <2>1. DOMAIN labels' = VMMacs \cap DOMAIN kmac'
    BY <1>1, <1>3, <1>5, <1>7
  <2> QED BY <1>1, <1>8, <1>9, <2>1 DEF ZInv, LabelInv
<1>11. PartInv'
  <2>1. ExternalNetworkByPort' = ExternalNetworkByPort /\ DesiredMACs' = want
    BY <1>1, SameWanted
  <2>2. \A m \in DOMAIN want : m \in DOMAIN kmac' /\ kmac'[m] = want[m]
    BY <1>3, <1>4
  <2>3. \A m \in VMMacs : m \in DOMAIN labels' /\ labels'[m] = ExternalNetworkByPort[m]
    BY <1>1, <1>6, <1>7
  <2> HIDE DEF want
  <2> QED BY <1>1, <1>2, <2>1, <2>2, <2>3 DEF PartInv, VMMacs
<1>12. SegmentInv' /\ LabelsAgree'
  BY <1>1, <1>2 DEF ZInv, SegmentInv, LabelsAgree
<1> QED BY <1>10, <1>11, <1>12 DEF ZInv

\* The fold of reconcileRouterMACs empties what rides a changed interface.
LEMMA SettleRoutersKeeps ==
    ASSUME ZInv, SettleRouters
    PROVE  ZInv'
<1> DEFINE changed == Changed(RouterExtMACs)
           F == {f \in Flows : f[2] \in changed}
<1>1. /\ part = "routers" /\ settling = NoMAC /\ Settle(F)
      /\ part' = IF changed = {} THEN "addresses" ELSE "swap"
      /\ UNCHANGED <<routes, shared, gateway, fip, lb, dirty, settling, listed, octavia, labels, routerExt, kmac, kbase, ever>>
  BY DEF SettleRouters, At, netVars, publishedVars, kernelVars
<1>2. dirty
  BY <1>1 DEF ZInv, PartInv
<1>3. RouterExtMACs' = RouterExtMACs /\ ExternalNetworkByPort' = ExternalNetworkByPort
      /\ DesiredMACs' = DesiredMACs
  BY <1>1, SameWanted
<1>4. Changed(RouterExtMACs)' = changed
  BY <1>1, <1>3 DEF Changed
<1>5. /\ BytesKeepLabel'
      /\ \A f \in Flows : carried'[f] = IF f \in F THEN {} ELSE carried[f]
      /\ \A f \in Flows : f[1] \notin DOMAIN labels' => carried'[f] = {}
      /\ DOMAIN labels' = VMMacs \cap DOMAIN kmac'
  <2>1. F \subseteq Flows
    OBVIOUS
  <2> HIDE DEF F
  <2> QED BY <1>1, <2>1, SettleKeeps DEF ZInv
<1>6. \A f \in InWindow' : f \in F
  <2> HIDE DEF changed
  <2> QED BY <1>1, <1>4, FlowEnds DEF InWindow, Flows
<1>7. LabelInv'
  <2>1. \A f \in InWindow' : carried'[f] = {}
    BY <1>5, <1>6
  <2> QED BY <1>5, <2>1 DEF LabelInv, Flows
<1>8. PartInv'
  <2> HIDE DEF changed
  <2> QED BY <1>1, <1>2, <1>3, <1>4 DEF ZInv, PartInv, VMMacs
<1>9. SegmentInv' /\ LabelsAgree'
  BY <1>1, <1>2 DEF ZInv, SegmentInv, LabelsAgree
<1> QED BY <1>7, <1>8, <1>9 DEF ZInv

\* A map that changes no interface gives every flow the label it had.
LEMMA SameFlowLabel ==
    ASSUME NEW routers, NEW f, f[2] \notin Changed(routers)
    PROVE  FlowExternalLabel(routers, labels, f) = FlowExternalLabel(routerExt, labels, f)
  BY DEF Changed, FlowExternalLabel

\* Replace: the flows of the changed interfaces have nothing live.
LEMMA ReplaceRoutersKeeps ==
    ASSUME ZInv, ReplaceRouters
    PROVE  ZInv'
<1>1. /\ part = "swap" /\ settling = NoMAC /\ part' = "addresses" /\ routerExt' = RouterExtMACs
      /\ UNCHANGED <<gateway, fip, lb, dirty, settling, listed, octavia, labels, kmac, kbase, ever, carried, late, misfiled>>
  BY DEF ReplaceRouters, At, netVars, kernelVars, bytesVars
<1>2. dirty
  BY <1>1 DEF ZInv, PartInv
<1>3. RouterExtMACs' = RouterExtMACs /\ ExternalNetworkByPort' = ExternalNetworkByPort
      /\ DesiredMACs' = DesiredMACs
  BY <1>1, SameWanted
<1>4. \A f \in Flows : \A x \in carried[f] : x = FlowExternalLabel(RouterExtMACs, labels, f)
  <2> SUFFICES ASSUME NEW f \in Flows, NEW x \in carried[f]
               PROVE  x = FlowExternalLabel(RouterExtMACs, labels, f)
    OBVIOUS
  <2>1. f \notin InWindow
    BY DEF ZInv, LabelInv
  <2>2. f[2] \notin Changed(RouterExtMACs)
    BY <1>1, <2>1 DEF InWindow
  <2>3. x = FlowExternalLabel(routerExt, labels, f)
    BY DEF ZInv, LabelInv, BytesKeepLabel
  <2> QED BY <2>2, <2>3, SameFlowLabel
<1>5. BytesKeepLabel'
  <2>1. ~misfiled'
    BY <1>1 DEF ZInv, LabelInv, BytesKeepLabel
  <2> QED BY <1>1, <1>4, <2>1 DEF BytesKeepLabel, FlowExternalLabel
<1>6. InWindow' = {}
  BY <1>1, FlowEnds DEF InWindow, Flows
<1>7. LabelInv'
  BY <1>1, <1>5, <1>6 DEF ZInv, LabelInv
<1>8. PartInv'
  <2>1. Changed(RouterExtMACs)' = {}
    BY <1>1, <1>3 DEF Changed
  <2> QED BY <1>1, <1>2, <1>3, <2>1 DEF ZInv, PartInv, VMMacs
<1>9. SegmentInv' /\ LabelsAgree'
  BY <1>1, <1>2 DEF ZInv, SegmentInv, LabelsAgree
<1> QED BY <1>7, <1>8, <1>9 DEF ZInv

\* The end of a pass: the labels agree, and every segment is explained by what
\* was published.
LEMMA CommitPassKeeps ==
    ASSUME ZInv, listed \in BOOLEAN, CommitPass
    PROVE  ZInv'
<1>1. /\ part = "addresses" /\ settling = NoMAC /\ part' = "rest" /\ dirty' = FALSE
      /\ kbase' = kbase \cup AmphoraBaseIPs
      /\ ever' = ever \cup {<<LBOwner[l], lb[l].base>> : l \in Live}
      /\ octavia' = (listed \/ Live = {})
      /\ UNCHANGED <<gateway, fip, lb, settling, listed, labels, routerExt, kmac, carried, late, misfiled>>
  BY DEF CommitPass, At, netVars, bytesVars
<1>2. /\ \A m \in VMMacs : m \in DOMAIN labels /\ labels[m] = ExternalNetworkByPort[m]
      /\ \A m \in DOMAIN DesiredMACs : m \in DOMAIN kmac /\ kmac[m] = DesiredMACs[m]
      /\ Changed(RouterExtMACs) = {}
  BY <1>1 DEF ZInv, PartInv
<1>3. InWindow' = {}
  BY <1>1, FlowEnds DEF InWindow, Flows
<1>4. BytesKeepLabel'
  BY <1>1 DEF ZInv, LabelInv, BytesKeepLabel, FlowExternalLabel
<1>5. LabelInv'
  BY <1>1, <1>3, <1>4 DEF ZInv, LabelInv
<1>6. PartInv'
  BY <1>1 DEF PartInv
<1>7. LabelsAgree'
  <2> SUFFICES ASSUME NEW v \in VMs, NEW p \in PortSet, fip[v.mac] = NoNet, p.kind = "iface",
                      p.net = v.net, p.ip = Gateway[v.net], p.mac \in DOMAIN routerExt
               PROVE  labels[v.mac] = routerExt[p.mac]
    BY <1>1 DEF LabelsAgree
  <2>1. p.mac \in DOMAIN RouterExtMACs /\ routerExt[p.mac] = RouterExtMACs[p.mac]
    BY <1>2 DEF Changed
  <2>2. labels[v.mac] = ExternalNetworkByPort[v.mac]
    BY <1>2 DEF VMMacs
  <2> QED BY <2>1, <2>2, SameLabel
<1>8. SegmentInv'
  <2>1. kbase' \subseteq ever'
    BY <1>1 DEF ZInv, SegmentInv, AmphoraBaseIPs
  <2>2. /\ VMMacs \subseteq DOMAIN kmac
        /\ \A m \in VMMacs : kmac[m].amphora = FALSE
    BY <1>2, DesiredDomain
  <2>3. Live' = Live
    BY <1>1 DEF Live
  <2>4. ASSUME octavia', NEW l \in Live
        PROVE  /\ Mac(l) \in DOMAIN kmac
               /\ kmac[Mac(l)].amphora = TRUE /\ kmac[Mac(l)].tenant = LBOwner[l]
               /\ <<LBOwner[l], lb[l].base>> \in kbase'
    <3>1. listed
      BY <1>1, <2>4
    <3>2. Mac(l) \in DOMAIN DesiredMACs /\ DesiredMACs[Mac(l)] = [tenant |-> LBOwner[l], amphora |-> TRUE]
      BY <3>1, DesiredDomain
    <3>3. <<LBOwner[l], lb[l].base>> \in kbase'
      BY <1>1, <3>1 DEF AmphoraBaseIPs
    <3> QED BY <1>2, <3>2, <3>3
  <2> QED BY <1>1, <2>1, <2>2, <2>3, <2>4 DEF SegmentInv, Mac
<1> QED BY <1>5, <1>6, <1>7, <1>8 DEF ZInv

\* Bytes are counted under the label they show.
LEMMA CountKeeps ==
    ASSUME ZInv, Count
    PROVE  ZInv'
<1> DEFINE shown(f) == IF f[1] \in DOMAIN labels THEN {FlowExternalLabel(routerExt, labels, f)} ELSE {}
<1>1. /\ carried' = [f \in Flows |-> IF f \in InWindow THEN carried[f] ELSE carried[f] \cup shown(f)]
      /\ UNCHANGED <<routes, shared, gateway, fip, lb, dirty, part, settling, listed, octavia, labels, routerExt, kmac,
                     kbase, ever, misfiled>>
  BY DEF Count, netVars, kernelVars, partVars, publishedVars
<1>2. BytesKeepLabel'
  <2>1. ~misfiled'
    BY <1>1 DEF ZInv, LabelInv, BytesKeepLabel
  <2>2. \A f \in Flows : \A x \in carried'[f] : x \in carried[f] \/ x = FlowExternalLabel(routerExt, labels, f)
    BY <1>1
  <2>3. \A f \in Flows : \A x \in carried'[f] : x = FlowExternalLabel(routerExt, labels, f)
    BY <2>2 DEF ZInv, LabelInv, BytesKeepLabel
  <2> QED BY <1>1, <2>1, <2>3 DEF BytesKeepLabel, FlowExternalLabel
<1>3. RouterExtMACs' = RouterExtMACs /\ ExternalNetworkByPort' = ExternalNetworkByPort
      /\ DesiredMACs' = DesiredMACs
  BY <1>1, SameWanted
<1>4. Changed(RouterExtMACs)' = Changed(RouterExtMACs)
  BY <1>1, <1>3 DEF Changed
<1>5. InWindow' = InWindow
  BY <1>1, <1>4 DEF InWindow, Flows
<1>6. LabelInv'
  <2>1. \A f \in InWindow : carried'[f] = {}
    BY <1>1 DEF ZInv, LabelInv, InWindow
  <2>2. \A f \in Flows : f[1] \notin DOMAIN labels => carried'[f] = {}
    BY <1>1 DEF ZInv, LabelInv
  <2> QED BY <1>1, <1>2, <1>5, <2>1, <2>2 DEF ZInv, LabelInv
<1>7. PartInv'
  BY <1>1, <1>3, <1>4 DEF ZInv, PartInv, VMMacs
<1>8. SegmentInv' /\ LabelsAgree'
  BY <1>1 DEF ZInv, SegmentInv, LabelsAgree, Live
<1> QED BY <1>6, <1>7, <1>8 DEF ZInv

\* The invariant holds at the start.
LEMMA ZoningStart == ZoningInit => ZInv
<1> SUFFICES ASSUME ZoningInit PROVE ZInv
  OBVIOUS
<1>1. /\ carried = [f \in Flows |-> {}] /\ misfiled = FALSE /\ dirty = TRUE /\ kbase = {} /\ ever = {}
      /\ part = "rest" /\ settling = NoMAC /\ labels = <<>> /\ kmac = <<>>
  BY DEF ZoningInit
<1>2. DOMAIN labels = {} /\ DOMAIN kmac = {} /\ InWindow = {}
  BY <1>1, NoWindow
<1>3. LabelInv
  BY <1>1, <1>2 DEF LabelInv, BytesKeepLabel
<1>4. PartInv
  BY <1>1 DEF PartInv
<1>5. SegmentInv /\ LabelsAgree
  BY <1>1 DEF SegmentInv, LabelsAgree
<1> QED BY <1>3, <1>4, <1>5 DEF ZInv

\* Every step keeps the invariant.
LEMMA ZoningStep == ZInv /\ listed \in BOOLEAN /\ [ZoningNext]_zoningVars => ZInv'
<1> SUFFICES ASSUME ZInv, listed \in BOOLEAN, [ZoningNext]_zoningVars PROVE ZInv'
  OBVIOUS
<1>1. CASE Edit
  BY <1>1, EditKeeps
<1>2. CASE \E ok \in IF Live = {} THEN {TRUE} ELSE BOOLEAN : ApplyTrie(ok)
  BY <1>2, ApplyTrieKeeps
<1>3. CASE \E m \in DOMAIN DesiredMACs : SettleMAC(m) \/ InsertMAC(m)
  BY <1>3, SettleMACKeeps, InsertMACKeeps
<1>4. CASE \E ghosts \in {{}, Ghosts} : GhostMACs(ghosts)
  BY <1>4, GhostMACsKeeps
<1>5. CASE SettleRouters
  BY <1>5, SettleRoutersKeeps
<1>6. CASE ReplaceRouters
  BY <1>6, ReplaceRoutersKeeps
<1>7. CASE CommitPass
  BY <1>7, CommitPassKeeps
<1>8. CASE Count
  BY <1>8, CountKeeps
<1>9. CASE UNCHANGED zoningVars
  <2>1. UNCHANGED <<routes, shared, gateway, fip, lb, dirty, part, settling, listed, octavia, labels, routerExt,
                    kmac, kbase, carried, ever, misfiled>>
    BY <1>9 DEF zoningVars, netVars, partVars, bytesVars, publishedVars, kernelVars
  <2>2. BytesKeepLabel'
    BY <2>1 DEF ZInv, LabelInv, BytesKeepLabel, FlowExternalLabel
  <2>3. RouterExtMACs' = RouterExtMACs /\ ExternalNetworkByPort' = ExternalNetworkByPort
        /\ DesiredMACs' = DesiredMACs
    BY <2>1, SameWanted
  <2>4. Changed(RouterExtMACs)' = Changed(RouterExtMACs)
    BY <2>1, <2>3 DEF Changed
  <2>5. InWindow' = InWindow
    BY <2>1, <2>4 DEF InWindow, Flows
  <2>6. LabelInv'
    BY <2>1, <2>2, <2>5 DEF ZInv, LabelInv
  <2>7. PartInv'
    BY <2>1, <2>3, <2>4 DEF ZInv, PartInv, VMMacs
  <2>8. SegmentInv' /\ LabelsAgree'
    BY <2>1 DEF ZInv, SegmentInv, LabelsAgree, Live
  <2> QED BY <2>6, <2>7, <2>8 DEF ZInv
<1>10. CASE \E r \in Routers, d \in Dests, a \in NextHops : AddRoute(r, d, a)
  BY <1>1, <1>10 DEF AddRoute
<1>11. CASE \E n \in Networks \ External : ShareNetwork(n)
  BY <1>1, <1>11 DEF ShareNetwork
<1>12. CASE \E r \in Routers, x \in Uplinks \cup {NoNet} : SetGateway(r, x)
  BY <1>1, <1>12 DEF SetGateway
<1>13. CASE \E m \in DOMAIN fip, x \in Uplinks \cup {NoNet} : BindFloatingIP(m, x)
  BY <1>1, <1>13 DEF BindFloatingIP
<1>14. CASE \E l \in LBs, v \in LBAddrs, b \in LBAddrs : CreateLB(l, v, b)
  BY <1>1, <1>14 DEF CreateLB
<1>15. CASE \E l \in LBs : DeleteLB(l) \/ \E b \in LBAddrs : Failover(l, b)
  BY <1>1, <1>15 DEF DeleteLB, Failover
<1> QED BY <1>2, <1>3, <1>4, <1>5, <1>6, <1>7, <1>8, <1>9, <1>10, <1>11, <1>12, <1>13, <1>14, <1>15 DEF ZoningNext

\* The lists were fetched or not.
LEMMA ListedTyped == ZoningSpec => [](listed \in BOOLEAN)
<1>1. ZoningInit => listed \in BOOLEAN
  BY DEF ZoningInit
<1>2. listed \in BOOLEAN /\ [ZoningNext]_zoningVars => (listed \in BOOLEAN)'
  BY DEF ZoningNext, zoningVars, partVars, AddRoute, ShareNetwork, SetGateway, BindFloatingIP, CreateLB,
         DeleteLB, Failover, Edit, ApplyTrie, SettleMAC, InsertMAC, GhostMACs, SettleRouters,
         ReplaceRouters, CommitPass, Count
<1> QED BY <1>1, <1>2, PTL DEF ZoningSpec

\* What a pass publishes stays consistent with what it counted and with Neutron.
THEOREM ZoningInvariant == ZoningSpec => []ZInv
  BY ZoningStart, ZoningStep, ListedTyped, PTL DEF ZoningSpec

\* Whatever gateways and floating IPs do, at whatever point of a pass bytes are
\* counted, only those counted between the fold of their flow and the publication
\* of its new label change series (learnMACs, reconcileRouterMACs, SettleResolver).
THEOREM BytesKeepTheirLabel == ZoningSpec => []BytesKeepLabel
<1>1. ZInv => BytesKeepLabel
  BY DEF ZInv, LabelInv
<1> QED BY <1>1, ZoningInvariant, PTL

\* The label of a VM is that of its gateway's interface (externalCandidatesByPort,
\* ExternalNetworkByRouterMAC).
THEOREM LabelsAlwaysAgree == ZoningSpec => []LabelsAgree
<1>1. ZInv => LabelsAgree
  BY DEF ZInv
<1> QED BY <1>1, ZoningInvariant, PTL

\* Amphora to backend is plumbing at both taps and client to VIP is not
\* (is_amphora_segment2), after any creations, deletions and failovers.
THEOREM SegmentsAreSplit == ZoningSpec => []SegmentsSplit
<1>1. ZInv => SegmentsSplit
  <2> SUFFICES ASSUME ZInv, ~dirty, octavia, NEW l \in Live, NEW v \in VMs
               PROVE  /\ lookup_zone(Mac(l), v.mac, lb[l].base, v.ip) = ZoneInfra
                      /\ lookup_zone(v.mac, Mac(l), v.ip, lb[l].base) = ZoneInfra
                      /\ <<LBOwner[l], lb[l].vip>> \notin ever =>
                            lookup_zone(v.mac, Mac(l), v.ip, lb[l].vip) \in {ZoneSameTenant, ZoneOtherTenant}
    BY DEF SegmentsSplit
  <2>1. v.mac \in VMMacs
    BY DEF VMMacs
  <2>2. v.mac \in DOMAIN kmac /\ kmac[v.mac].amphora = FALSE
    BY <2>1 DEF ZInv, SegmentInv
  <2>3. /\ Mac(l) \in DOMAIN kmac
        /\ kmac[Mac(l)].amphora = TRUE /\ kmac[Mac(l)].tenant = LBOwner[l]
        /\ <<LBOwner[l], lb[l].base>> \in kbase /\ kbase \subseteq ever
    BY DEF ZInv, SegmentInv
  <2>4. Segment2(Mac(l), lb[l].base) /\ \A a : ~Segment2(v.mac, a)
    BY <2>2, <2>3 DEF Segment2
  <2>5. <<LBOwner[l], lb[l].vip>> \notin ever => ~Segment2(Mac(l), lb[l].vip)
    BY <2>3 DEF Segment2
  <2> HIDE DEF Mac
  <2> QED BY <2>2, <2>3, <2>4, <2>5 DEF lookup_zone
<1> QED BY <1>1, ZoningInvariant, PTL

-----------------------------------------------------------------------------
\* A non-empty set of numbers has a least one.
LEMMA LeastNat ==
    ASSUME NEW S \in SUBSET Nat, S # {}
    PROVE  \E i \in S : \A j \in S : i <= j
<1>1. PICK i \in S : \A j \in S : <<j, i>> \notin OpToRel(<, Nat)
  BY NatLessThanWellFounded, WFMin
<1>2. \A j \in S : ~(j < i)
  BY <1>1 DEF OpToRel
<1> QED BY <1>2

\* FirstOf is the least index.
LEMMA FirstOfIn ==
    ASSUME NEW S \in SUBSET Nat, S # {}
    PROVE  FirstOf(S) \in S /\ \A j \in S : FirstOf(S) <= j
  BY LeastNat DEF FirstOf

\* Among some sets, one of the fewest elements.
LEMMA LeastRank ==
    ASSUME NEW S, S # {}, NEW f, \A x \in S : f[x] \in Nat
    PROVE  \E x \in S : \A y \in S : f[x] <= f[y]
<1> DEFINE V == {f[x] : x \in S}
<1>1. V \in SUBSET Nat /\ V # {}
  OBVIOUS
<1>2. PICK v \in V : \A w \in V : v <= w
  BY <1>1, LeastNat
<1> QED BY <1>2

\* H has the equation of a loop over the states S.
Loops(H, S, stop, ans, follow) == H = [s \in S |-> IF stop[s] THEN ans[s] ELSE H[follow[s]]]
\* Every step of the loop lowers the rank.
Lowers(S, rank, stop, follow) ==
    \A s \in S : ~stop[s] => follow[s] \in S /\ rank[follow[s]] < rank[s]

\* A loop whose steps lower a bounded rank computes a function.
LEMMA LoopExists ==
    ASSUME NEW S, NEW rank \in [S -> Nat], NEW bound \in Nat, \A s \in S : rank[s] <= bound,
           NEW stop, NEW ans, NEW follow,
           Lowers(S, rank, stop, follow)
    PROVE  \E H : Loops(H, S, stop, ans, follow)
<1> USE DEF Loops, Lowers
<1> DEFINE L(n) == {s \in S : rank[s] <= n}
           Fits(H, n) == H = [s \in L(n) |-> IF stop[s] THEN ans[s] ELSE H[follow[s]]]
           Bad == {n \in Nat : ~\E H : Fits(H, n)}
<1>1. L(bound) = S
  OBVIOUS
<1>2. CASE Bad = {}
  <2>1. PICK H : Fits(H, bound)
    BY <1>2
  <2> QED BY <2>1, <1>1
<1>3. CASE Bad # {}
  <2>1. PICK n \in Bad : \A m \in Bad : n <= m
    BY <1>3, LeastNat
  <2>2. \E h : \A s \in L(n) : rank[s] < n => h[s] = IF stop[s] THEN ans[s] ELSE h[follow[s]]
    <3>1. CASE n = 0
      BY <3>1
    <3>2. CASE n # 0
      <4>1. n - 1 \in Nat /\ n - 1 \notin Bad
        <5>1. n \in Nat
          BY <2>1
        <5> HIDE DEF Bad
        <5>2. n - 1 \in Nat /\ ~(n <= n - 1)
          BY <5>1, <3>2
        <5> QED BY <5>2, <2>1
      <4>2. PICK h : Fits(h, n - 1)
        BY <4>1
      <4>3. ASSUME NEW s \in L(n), rank[s] < n
            PROVE  h[s] = IF stop[s] THEN ans[s] ELSE h[follow[s]]
        <5>1. s \in L(n - 1)
          BY <4>3, <3>2
        <5> QED BY <4>2, <5>1
      <4> QED BY <4>3
    <3> QED BY <3>1, <3>2
  <2>3. PICK h : \A s \in L(n) : rank[s] < n => h[s] = IF stop[s] THEN ans[s] ELSE h[follow[s]]
    BY <2>2
  <2> DEFINE g == [s \in L(n) |-> IF stop[s] THEN ans[s] ELSE h[follow[s]]]
  <2>4. ASSUME NEW s \in L(n), ~stop[s]
        PROVE  g[follow[s]] = h[follow[s]]
    <3>1. follow[s] \in L(n) /\ rank[follow[s]] < n
      BY <2>4
    <3> QED BY <3>1, <2>3
  <2>5. Fits(g, n)
    BY <2>4
  <2> QED BY <2>1, <2>5
<1> QED BY <1>2, <1>3

\* The loop of resolveStaticRouteZone, one hop: where it stops, with what, and
\* where it goes on otherwise.
HopNet(s) == Ports[FirstOf(Anchors(s.router, s.nexthop))].net
HopPort(s) == CHOOSE p \in PortsAt(HopNet(s), s.nexthop) : TRUE
HopAt(s, dst) == AttachedAt(HopPort(s).dev, HopNet(s), dst)
HopOwners(s, dst) == {NetOwner[Ports[i].net] : i \in HopAt(s, dst)}
HopEnd(s, dst) == Ports[FirstOf(HopAt(s, dst))].net
HopStuck(s) == s.hop = MaxHops \/ Anchors(s.router, s.nexthop) = {} \/ PortsAt(HopNet(s), s.nexthop) = {}
HopDead(s) == HopPort(s).kind # "iface" \/ HopPort(s).dev \notin Routers
HopStops(s, dst) ==
    \/ HopStuck(s) \/ HopPort(s).kind = "compute" \/ HopDead(s) \/ HopPort(s).dev \in s.visited
    \/ Cardinality(HopOwners(s, dst)) > 1 \/ HopAt(s, dst) # {} \/ MatchRoute(HopPort(s).dev, dst) = {}
HopAnswer(s, dst, source) ==
    IF HopStuck(s) THEN Unresolved
    ELSE IF HopPort(s).kind = "compute"
      THEN [Unresolved EXCEPT !.zone = zoneFor(HopPort(s).proj, source, HopNet(s))]
    ELSE IF HopDead(s) THEN Unresolved
    ELSE IF HopPort(s).dev \in s.visited THEN [Unresolved EXCEPT !.cycle = TRUE]
    ELSE IF Cardinality(HopOwners(s, dst)) > 1 THEN [Unresolved EXCEPT !.owners = HopOwners(s, dst)]
    ELSE IF HopAt(s, dst) # {}
      THEN [Unresolved EXCEPT !.zone = zoneFor(NetOwner[HopEnd(s, dst)], source, HopEnd(s, dst))]
    ELSE Unresolved
HopFollow(s, dst) ==
    LET t == CHOOSE t \in MatchRoute(HopPort(s).dev, dst) : TRUE
    IN  [hop |-> s.hop + 1, router |-> HopPort(s).dev, nexthop |-> t.via,
         visited |-> s.visited \cup {HopPort(s).dev}]

\* A function with the equation of the loop.
IsHop(H, dst, source) ==
    H = [s \in LoopState |->
        IF HopStuck(s) THEN Unresolved
        ELSE IF HopPort(s).kind = "compute"
          THEN [Unresolved EXCEPT !.zone = zoneFor(HopPort(s).proj, source, HopNet(s))]
        ELSE IF HopDead(s) THEN Unresolved
        ELSE IF HopPort(s).dev \in s.visited THEN [Unresolved EXCEPT !.cycle = TRUE]
        ELSE IF Cardinality(HopOwners(s, dst)) > 1 THEN [Unresolved EXCEPT !.owners = HopOwners(s, dst)]
        ELSE IF HopAt(s, dst) # {}
          THEN [Unresolved EXCEPT !.zone = zoneFor(NetOwner[HopEnd(s, dst)], source, HopEnd(s, dst))]
        ELSE IF MatchRoute(HopPort(s).dev, dst) = {} THEN Unresolved
        ELSE H[HopFollow(s, dst)]]

\* Resolve is the recursive function of resolveStaticRouteZone's loop, from its
\* first hop.
LEMMA ResolveIsHop ==
    ASSUME NEW r0, NEW dst, NEW nh
    PROVE  Resolve(r0, dst, nh) = (CHOOSE H : IsHop(H, dst, RouterOwner[r0]))[
               [hop |-> 0, router |-> r0, nexthop |-> nh, visited |-> {r0}]]
  BY DEF Resolve, IsHop, HopFollow, HopNet, HopPort, HopAt, HopOwners, HopEnd, HopStuck, HopDead

\* A hop of the loop either answers or goes on from the next router.
LEMMA HopSplit ==
    ASSUME NEW H, NEW dst, NEW source
    PROVE  IsHop(H, dst, source) <=>
             H = [s \in LoopState |->
                  IF HopStops(s, dst) THEN HopAnswer(s, dst, source) ELSE H[HopFollow(s, dst)]]
  BY DEF IsHop, HopStops, HopAnswer

Route == [dst : Dests, via : NextHops]
RoutesOK == routes \in [Routers -> Seq(Route)]

\* The match of a lookup, when there is one, is one route of the router.
LEMMA MatchOne ==
    ASSUME RoutesOK, NEW r \in Routers, NEW dst, MatchRoute(r, dst) # {}
    PROVE  \E t \in Route : MatchRoute(r, dst) = {t}
<1> DEFINE covering == {k \in DOMAIN routes[r] : dst \subseteq routes[r][k].dst}
           longest == {k \in covering : \A j \in covering :
                       Cardinality(routes[r][k].dst) <= Cardinality(routes[r][j].dst)}
           f == [k \in covering |-> Cardinality(routes[r][k].dst)]
<1>1. covering # {} /\ MatchRoute(r, dst) = {routes[r][FirstOf(longest)]}
  BY DEF MatchRoute
<1>2. routes[r] \in Seq(Route)
  BY DEF RoutesOK
<1>3. covering \in SUBSET Nat /\ \A k \in covering : routes[r][k] \in Route
  BY <1>2
<1>4. \A k \in covering : f[k] \in Nat
  <2> SUFFICES ASSUME NEW k \in covering PROVE Cardinality(routes[r][k].dst) \in Nat
    OBVIOUS
  <2>1. routes[r][k].dst \in SUBSET Addrs
    BY <1>3, TopologyAssumption DEF Route
  <2> QED BY <2>1, TopologyAssumption, FS_Subset, FS_CardinalityType
<1>5. PICK k \in covering : \A j \in covering : f[k] <= f[j]
  <2> HIDE DEF covering, f
  <2> QED BY <1>1, <1>4, LeastRank
<1>6. longest \in SUBSET Nat /\ longest # {} /\ longest \subseteq covering
  BY <1>3, <1>5
<1>7. FirstOf(longest) \in covering
  <2> HIDE DEF longest
  <2> QED BY <1>6, FirstOfIn
<1> QED BY <1>1, <1>3, <1>7

\* The loop's function exists, so CHOOSE finds one.
LEMMA HopExists ==
    ASSUME RoutesOK, NEW dst, NEW source
    PROVE  \E H : IsHop(H, dst, source)
<1> DEFINE rank == [s \in LoopState |-> MaxHops - s.hop]
           stop == [s \in LoopState |-> HopStops(s, dst)]
           ans == [s \in LoopState |-> HopAnswer(s, dst, source)]
           follow == [s \in LoopState |-> HopFollow(s, dst)]
<1>1. rank \in [LoopState -> Nat] /\ MaxHops \in Nat /\ \A s \in LoopState : rank[s] <= MaxHops
  BY ZoningAssumption DEF LoopState
<1>2. ASSUME NEW s \in LoopState, ~stop[s]
      PROVE  follow[s] \in LoopState /\ rank[follow[s]] < rank[s]
  <2>1. /\ s.hop # MaxHops /\ HopPort(s).dev \in Routers /\ MatchRoute(HopPort(s).dev, dst) # {}
        /\ follow[s] = HopFollow(s, dst)
    BY <1>2 DEF HopStops, HopStuck, HopDead
  <2>2. PICK t \in Route : MatchRoute(HopPort(s).dev, dst) = {t}
    BY <2>1, MatchOne
  <2>3. t.via \in Addrs \cup {NoAddr}
    BY TopologyAssumption DEF Route
  <2>4. HopFollow(s, dst) = [hop |-> s.hop + 1, router |-> HopPort(s).dev, nexthop |-> t.via,
                             visited |-> s.visited \cup {HopPort(s).dev}]
    BY <2>2 DEF HopFollow
  <2>5. s.hop \in 0..MaxHops /\ s.visited \subseteq Routers
    BY DEF LoopState
  <2>6. s.hop + 1 \in 0..MaxHops
    BY <2>1, <2>5, ZoningAssumption
  <2>7. HopFollow(s, dst) \in LoopState /\ HopFollow(s, dst).hop = s.hop + 1
    BY <2>1, <2>3, <2>4, <2>5, <2>6 DEF LoopState
  <2> QED BY <2>1, <2>7, <2>5, ZoningAssumption
<1>3. PICK H : Loops(H, LoopState, stop, ans, follow)
  <2>1. Lowers(LoopState, rank, stop, follow)
    BY <1>2 DEF Lowers
  <2> HIDE DEF rank, stop, ans, follow
  <2> QED BY <1>1, <2>1, LoopExists
<1>4. H = [s \in LoopState |->
              IF HopStops(s, dst) THEN HopAnswer(s, dst, source) ELSE H[HopFollow(s, dst)]]
  BY <1>3 DEF Loops
<1> QED BY <1>4, HopSplit

\* What Resolve computes: the loop's equation from the state it starts in.
LEMMA ResolveHops ==
    ASSUME RoutesOK, NEW r0, NEW dst, NEW nh
    PROVE  \E H : /\ H = [s \in LoopState |->
                         IF HopStops(s, dst) THEN HopAnswer(s, dst, RouterOwner[r0])
                         ELSE H[HopFollow(s, dst)]]
                  /\ Resolve(r0, dst, nh) = H[[hop |-> 0, router |-> r0, nexthop |-> nh, visited |-> {r0}]]
<1> DEFINE H == CHOOSE H : IsHop(H, dst, RouterOwner[r0])
<1>1. IsHop(H, dst, RouterOwner[r0])
  BY HopExists
<1>2. Resolve(r0, dst, nh) = H[[hop |-> 0, router |-> r0, nexthop |-> nh, visited |-> {r0}]]
  BY ResolveIsHop
<1> HIDE DEF H
<1> QED BY <1>1, <1>2, HopSplit

\* A next hop leads to one port at most.
LEMMA TowardsOne ==
    ASSUME NEW r, NEW a, NEW p \in Towards(r, a), NEW q \in Towards(r, a)
    PROVE  p = q
  BY PortsAssumption DEF Towards, PortsAt

\* The shape of a path.
LEMMA PathShape ==
    ASSUME NEW r, NEW dst, NEW nh, NEW p \in Paths(r, dst, nh)
    PROVE  /\ Len(p) \in Nat /\ Len(p) >= 1 /\ Len(p) <= MaxHops + 1
           /\ p \in [1..Len(p) -> Routers] /\ DOMAIN p = 1..Len(p) /\ p[1] = r
<1>1. PICK k \in 1..(MaxHops + 1) : p \in [1..k -> Routers]
  BY DEF Paths
<1>2. k \in Nat /\ p \in Seq(Routers) /\ Len(p) = k
  BY <1>1, ZoningAssumption
<1> QED BY <1>1, <1>2, ZoningAssumption DEF Paths

\* One hop of a path.
PathHop(p, i, dst, nh) ==
    \E q \in Towards(p[i], Via(p, i, dst, nh)) :
        /\ q.kind = "iface" /\ q.dev = p[i + 1]
        /\ i + 1 < Len(p) => AttachedAt(p[i + 1], q.net, dst) = {}

\* A path goes from router to router by the route that matches, and visits none
\* twice.
LEMMA PathHops ==
    ASSUME NEW r, NEW dst, NEW nh, NEW p \in Paths(r, dst, nh)
    PROVE  /\ \A i \in 1..(Len(p) - 1) : PathHop(p, i, dst, nh)
           /\ \A i, j \in DOMAIN p : p[i] = p[j] => i = j
  BY DEF Paths, PathHop

\* From one router, for one destination and next hop, there is one way to go.
LEMMA PathsAgree ==
    ASSUME NEW r, NEW dst, NEW nh, NEW p \in Paths(r, dst, nh), NEW q \in Paths(r, dst, nh),
           NEW i \in Nat, i >= 1, i <= Len(p), i <= Len(q)
    PROVE  p[i] = q[i]
<1> DEFINE Bad == {j \in Nat : j >= 1 /\ j <= Len(p) /\ j <= Len(q) /\ p[j] # q[j]}
<1> SUFFICES ASSUME Bad # {} PROVE FALSE
  OBVIOUS
<1>1. PICK j \in Bad : \A m \in Bad : j <= m
  BY LeastNat
<1>2. /\ Len(p) \in Nat /\ Len(q) \in Nat /\ p[1] = r /\ q[1] = r
      /\ j \in Nat /\ j >= 1 /\ j <= Len(p) /\ j <= Len(q) /\ p[j] # q[j]
  BY PathShape, <1>1
<1>3. j # 1
  BY <1>2
<1> DEFINE m == j - 1
<1>4. m \in Nat /\ m >= 1 /\ m < j /\ m + 1 = j /\ m \in 1..(Len(p) - 1) /\ m \in 1..(Len(q) - 1)
  BY <1>2, <1>3
<1>5. p[m] = q[m]
  BY <1>1, <1>4, <1>2
<1>6. Via(p, m, dst, nh) = Via(q, m, dst, nh)
  BY <1>5 DEF Via
<1> HIDE DEF m, Bad
<1>7. PathHop(p, m, dst, nh) /\ PathHop(q, m, dst, nh)
  BY <1>4, PathHops
<1>8. PICK a \in Towards(p[m], Via(p, m, dst, nh)) : a.dev = p[m + 1]
  BY <1>7 DEF PathHop
<1>9. PICK b \in Towards(q[m], Via(q, m, dst, nh)) : b.dev = q[m + 1]
  BY <1>7 DEF PathHop
<1>10. a = b
  BY <1>5, <1>6, TowardsOne
<1> QED BY <1>2, <1>4, <1>8, <1>9, <1>10

\* Two paths of one length are the same: the route and the port are the first
\* that match.
LEMMA PathsEqual ==
    ASSUME NEW r, NEW dst, NEW nh, NEW p \in Paths(r, dst, nh), NEW q \in Paths(r, dst, nh),
           Len(p) = Len(q)
    PROVE  p = q
<1>1. /\ Len(p) \in Nat /\ p \in [1..Len(p) -> Routers] /\ q \in [1..Len(p) -> Routers]
  BY PathShape
<1>2. \A i \in 1..Len(p) : p[i] = q[i]
  BY <1>1, PathsAgree
<1> QED BY <1>1, <1>2

\* Where a path points from its last router.
Ahead(p, dst, nh) == Towards(p[Len(p)], Via(p, Len(p), dst, nh))
Seen(p) == {p[i] : i \in DOMAIN p}

\* A longer path goes on through the port ahead, to a router not seen yet, and
\* does not go past a router that is attached to dst.
LEMMA LongerPath ==
    ASSUME NEW r, NEW dst, NEW nh, NEW p \in Paths(r, dst, nh), NEW q \in Paths(r, dst, nh),
           Len(q) > Len(p)
    PROVE  \E a \in Ahead(p, dst, nh) :
              /\ a.kind = "iface" /\ a.dev \in Routers \ Seen(p) /\ a.dev = q[Len(p) + 1]
              /\ Len(q) > Len(p) + 1 => AttachedAt(a.dev, a.net, dst) = {}
<1> DEFINE k == Len(p)
<1>1. /\ k \in Nat /\ k >= 1 /\ DOMAIN p = 1..k /\ Len(q) \in Nat
      /\ q \in [1..Len(q) -> Routers] /\ DOMAIN q = 1..Len(q)
  BY PathShape
<1> HIDE DEF k
<1>2. k \in 1..(Len(q) - 1) /\ Len(p) = k /\ k + 1 \in 1..Len(q)
  BY <1>1 DEF k
<1>3. PICK a \in Towards(q[k], Via(q, k, dst, nh)) :
        /\ a.kind = "iface" /\ a.dev = q[k + 1]
        /\ k + 1 < Len(q) => AttachedAt(q[k + 1], a.net, dst) = {}
  <2>1. PathHop(q, k, dst, nh)
    BY <1>2, PathHops
  <2> QED BY <2>1 DEF PathHop
<1>4. p[k] = q[k]
  BY <1>1, <1>2, PathsAgree
<1>5. a \in Ahead(p, dst, nh)
  BY <1>2, <1>3, <1>4 DEF Ahead, Via
<1>6. a.dev \in Routers
  BY <1>1, <1>2, <1>3
<1>7. ASSUME NEW i \in DOMAIN p, p[i] = a.dev PROVE FALSE
  <2>1. i \in Nat /\ i >= 1 /\ i <= k /\ i <= Len(q) /\ i \in DOMAIN q /\ k + 1 \in DOMAIN q
    BY <1>1, <1>2
  <2>2. p[i] = q[i]
    BY <2>1, <1>2, PathsAgree
  <2>3. i = k + 1
    BY <2>1, <2>2, <1>3, <1>7, PathHops
  <2> QED BY <2>1, <2>3, <1>1
<1> QED BY <1>1, <1>2, <1>3, <1>5, <1>6, <1>7 DEF Seen

\* A path whose end is not attached to dst.
Open(p, dst, nh) == Len(p) > 1 => Ends(p, dst, nh) = {}

\* Where a path of more than one router ends.
LEMMA EndsIs ==
    ASSUME NEW r, NEW dst, NEW nh, NEW p \in Paths(r, dst, nh), Len(p) > 1
    PROVE  \E a \in Towards(p[Len(p) - 1], Via(p, Len(p) - 1, dst, nh)) :
              a.dev = p[Len(p)] /\ Ends(p, dst, nh) = AttachedAt(p[Len(p)], a.net, dst)
<1>1. Len(p) \in Nat /\ Len(p) - 1 \in 1..(Len(p) - 1) /\ (Len(p) - 1) + 1 = Len(p)
  BY PathShape
<1>2. PathHop(p, Len(p) - 1, dst, nh)
  BY <1>1, PathHops
<1>3. PICK a \in Towards(p[Len(p) - 1], Via(p, Len(p) - 1, dst, nh)) : a.dev = p[Len(p)]
  BY <1>1, <1>2 DEF PathHop
<1>4. a = Pick(Towards(p[Len(p) - 1], Via(p, Len(p) - 1, dst, nh)))
  BY TowardsOne DEF Pick
<1> QED BY <1>3, <1>4 DEF Ends

\* No path that reaches dst is as short as an open one.
LEMMA ReachedLonger ==
    ASSUME NEW r, NEW dst, NEW nh, NEW p \in Paths(r, dst, nh), Open(p, dst, nh),
           NEW q \in Reached(r, dst, nh)
    PROVE  q \in Paths(r, dst, nh) /\ Len(q) > Len(p)
<1>1. q \in Paths(r, dst, nh) /\ Len(q) > 1 /\ Ends(q, dst, nh) # {}
  BY DEF Reached
<1>2. Len(q) # Len(p)
  BY <1>1, PathsEqual DEF Open
<1>3. ASSUME Len(q) < Len(p) PROVE FALSE
  <2> DEFINE k == Len(q) - 1
  <2>1. /\ Len(q) \in Nat /\ Len(p) \in Nat /\ k \in Nat /\ k >= 1 /\ k + 1 = Len(q)
        /\ k \in 1..(Len(p) - 1) /\ k + 1 < Len(p)
    BY <1>1, <1>3, PathShape
  <2>2. PICK a \in Towards(q[k], Via(q, k, dst, nh)) : Ends(q, dst, nh) = AttachedAt(q[k + 1], a.net, dst)
    BY <1>1, <2>1, EndsIs
  <2> HIDE DEF k
  <2>3. PathHop(p, k, dst, nh)
    BY <2>1, PathHops
  <2>4. PICK b \in Towards(p[k], Via(p, k, dst, nh)) : AttachedAt(p[k + 1], b.net, dst) = {}
    BY <2>1, <2>3 DEF PathHop
  <2>5. p[k] = q[k] /\ p[k + 1] = q[k + 1]
    BY <1>1, <2>1, PathsAgree
  <2>6. a = b
    BY <2>5, TowardsOne DEF Via
  <2> QED BY <1>1, <2>2, <2>4, <2>5, <2>6
<1> QED BY <1>1, <1>2, <1>3, PathShape

\* No path that points at a machine is shorter than another path, and one as
\* long is that path.
LEMMA ApplianceAhead ==
    ASSUME NEW r, NEW dst, NEW nh, NEW p \in Paths(r, dst, nh), NEW a \in Appliance(r, dst, nh)
    PROVE  \E q \in Paths(r, dst, nh) :
              /\ a \in Ahead(q, dst, nh) /\ a.kind = "compute" /\ Len(q) <= MaxHops /\ Len(q) >= Len(p)
<1>1. PICK q \in Paths(r, dst, nh) : Len(q) <= MaxHops /\ a \in Ahead(q, dst, nh) /\ a.kind = "compute"
  BY DEF Appliance, Ahead
<1>2. ASSUME Len(q) < Len(p) PROVE FALSE
  <2>1. PICK b \in Ahead(q, dst, nh) : b.kind = "iface"
    BY <1>2, LongerPath
  <2>2. a = b
    BY <1>1, TowardsOne DEF Ahead
  <2> QED BY <1>1, <2>1, <2>2
<1> QED BY <1>1, <1>2, PathShape

\* The loop gives up where no path goes on.
LEMMA WalkStuck ==
    ASSUME NEW r, NEW dst, NEW nh, NEW p \in Paths(r, dst, nh), Open(p, dst, nh),
           \/ Len(p) = MaxHops + 1
           \/ \A a \in Ahead(p, dst, nh) :
                 a.kind # "compute" /\ ~(a.kind = "iface" /\ a.dev \in Routers \ Seen(p))
    PROVE  WalkZone(r, dst, nh) = ZoneExternal
<1>0. MaxHops \in Nat /\ Len(p) \in Nat
  BY ZoningAssumption, PathShape
<1>1. ASSUME NEW q \in Paths(r, dst, nh) PROVE ~(Len(q) > Len(p))
  <2>1. Len(q) \in Nat /\ Len(q) <= MaxHops + 1
    BY PathShape
  <2> QED BY <1>0, <2>1, LongerPath
<1>2. Reached(r, dst, nh) = {}
  BY <1>1, ReachedLonger
<1>3. ASSUME NEW a \in Appliance(r, dst, nh) PROVE FALSE
  <2>1. PICK q \in Paths(r, dst, nh) :
              /\ a \in Ahead(q, dst, nh) /\ a.kind = "compute" /\ Len(q) <= MaxHops /\ Len(q) >= Len(p)
    BY ApplianceAhead
  <2>2. Len(q) = Len(p)
    BY <1>0, <1>1, <2>1, PathShape
  <2>3. q = p
    BY <2>2, PathsEqual
  <2> QED BY <1>0, <2>1, <2>2, <2>3
<1>4. Appliance(r, dst, nh) = {}
  BY <1>3
<1> QED BY <1>2, <1>4 DEF WalkZone

\* A machine ahead is where the route leads.
LEMMA WalkAppliance ==
    ASSUME NEW r, NEW dst, NEW nh, NEW p \in Paths(r, dst, nh), Open(p, dst, nh),
           Len(p) <= MaxHops, NEW a \in Ahead(p, dst, nh), a.kind = "compute"
    PROVE  WalkZone(r, dst, nh) = zoneFor(a.proj, RouterOwner[r], a.net)
<1>0. MaxHops \in Nat /\ Len(p) \in Nat
  BY ZoningAssumption, PathShape
<1>1. ASSUME NEW q \in Paths(r, dst, nh) PROVE ~(Len(q) > Len(p))
  <2> SUFFICES ASSUME Len(q) > Len(p) PROVE FALSE
    OBVIOUS
  <2>1. PICK b \in Ahead(p, dst, nh) : b.kind = "iface"
    BY LongerPath
  <2> QED BY <2>1, TowardsOne DEF Ahead
<1>2. Reached(r, dst, nh) = {}
  BY <1>1, ReachedLonger
<1>3. ASSUME NEW b \in Appliance(r, dst, nh) PROVE b = a
  <2>1. PICK q \in Paths(r, dst, nh) :
              /\ b \in Ahead(q, dst, nh) /\ Len(q) >= Len(p)
    BY ApplianceAhead
  <2>2. q = p
    BY <1>0, <1>1, <2>1, PathShape, PathsEqual
  <2> QED BY <2>1, <2>2, TowardsOne DEF Ahead
<1>4. a \in Appliance(r, dst, nh)
  BY DEF Appliance, Ahead, Open
<1>5. Pick(Appliance(r, dst, nh)) = a
  BY <1>3, <1>4 DEF Pick
<1> QED BY <1>2, <1>4, <1>5 DEF WalkZone

\* An open path goes on through an interface of a router not seen yet.
LEMMA PathExtends ==
    ASSUME NEW r, NEW dst, NEW nh, NEW p \in Paths(r, dst, nh), Open(p, dst, nh),
           Len(p) <= MaxHops, NEW a \in Ahead(p, dst, nh), a.kind = "iface", a.dev \in Routers \ Seen(p)
    PROVE  LET e == Append(p, a.dev)
           IN  /\ e \in Paths(r, dst, nh) /\ Len(e) = Len(p) + 1 /\ e[Len(e)] = a.dev
               /\ Ends(e, dst, nh) = AttachedAt(a.dev, a.net, dst)
               /\ Seen(e) = Seen(p) \cup {a.dev}
<1> DEFINE k == Len(p)
           e == Append(p, a.dev)
<1>1. /\ k \in Nat /\ k >= 1 /\ p \in [1..k -> Routers] /\ DOMAIN p = 1..k /\ p[1] = r
      /\ MaxHops \in Nat
  BY PathShape, ZoningAssumption
<1>2. p \in Seq(Routers)
  BY <1>1
<1>3. /\ e \in [1..(k + 1) -> Routers] /\ Len(e) = k + 1 /\ DOMAIN e = 1..(k + 1)
      /\ \A i \in 1..k : e[i] = p[i]
      /\ e[k + 1] = a.dev
  <2>1. a.dev \in Routers
    OBVIOUS
  <2>2. /\ e \in Seq(Routers) /\ Len(e) = k + 1 /\ e[k + 1] = a.dev
        /\ \A i \in 1..k : e[i] = p[i]
    BY <1>1, <1>2, <2>1, AppendProperties
  <2> HIDE DEF e, k
  <2>3. e \in [1..Len(e) -> Routers] /\ DOMAIN e = 1..Len(e)
    BY <2>2, LenProperties
  <2> QED BY <2>2, <2>3
<1> HIDE DEF e, k
<1>4. \A i \in 1..k : Via(e, i, dst, nh) = Via(p, i, dst, nh)
  BY <1>3 DEF Via
<1>5. ASSUME NEW i \in 1..k
      PROVE  \E q \in Towards(e[i], Via(e, i, dst, nh)) :
                   /\ q.kind = "iface" /\ q.dev = e[i + 1]
                   /\ i + 1 < Len(e) => AttachedAt(e[i + 1], q.net, dst) = {}
  <2>1. CASE i = k
    <3>1. a \in Towards(e[k], Via(e, k, dst, nh))
      BY <1>1, <1>3, <1>4 DEF Ahead, k
    <3> QED BY <2>1, <3>1, <1>1, <1>3
  <2>2. CASE i # k
    <3>1. i \in 1..(k - 1) /\ i + 1 \in 1..k /\ i \in Nat
      BY <1>1, <2>2
    <3>2. PathHop(p, i, dst, nh)
      BY <3>1, PathHops DEF k
    <3>3. PICK q \in Towards(p[i], Via(p, i, dst, nh)) :
             /\ q.kind = "iface" /\ q.dev = p[i + 1]
             /\ i + 1 < k => AttachedAt(p[i + 1], q.net, dst) = {}
      BY <3>2 DEF PathHop, k
    <3>4. AttachedAt(p[i + 1], q.net, dst) = {}
      <4>1. CASE i + 1 < k
        BY <3>3, <4>1
      <4>2. CASE i + 1 = k
        <5>1. k > 1 /\ k - 1 = i
          BY <3>1, <4>2, <1>1
        <5>2. PICK b \in Towards(p[i], Via(p, i, dst, nh)) :
                 Ends(p, dst, nh) = AttachedAt(p[i + 1], b.net, dst)
          BY <5>1, <4>2, EndsIs DEF k
        <5>3. Ends(p, dst, nh) = {}
          BY <5>1 DEF Open, k
        <5> QED BY <5>2, <5>3, TowardsOne
      <4> QED BY <4>1, <4>2, <3>1, <1>1
    <3> QED BY <3>1, <3>3, <3>4, <1>3, <1>4
  <2> QED BY <2>1, <2>2
<1>6. \A i, j \in DOMAIN e : e[i] = e[j] => i = j
  <2>1. \A i, j \in 1..k : p[i] = p[j] => i = j
    BY <1>1, PathHops
  <2>2. \A i \in 1..k : p[i] # a.dev
    BY <1>1 DEF Seen
  <2> QED BY <2>1, <2>2, <1>1, <1>3
<1>7. e \in Paths(r, dst, nh)
  <2>1. k + 1 \in 1..(MaxHops + 1) /\ e[1] = r /\ 1..(Len(e) - 1) = 1..k
    BY <1>1, <1>3 DEF k
  <2> QED BY <1>3, <1>5, <1>6, <2>1 DEF Paths
<1>8. Ends(e, dst, nh) = AttachedAt(a.dev, a.net, dst)
  <2>1. Len(e) > 1 /\ Len(e) - 1 = k /\ k \in 1..k
    BY <1>1, <1>3
  <2>2. PICK b \in Towards(e[k], Via(e, k, dst, nh)) : Ends(e, dst, nh) = AttachedAt(e[k + 1], b.net, dst)
    <3>1. \E b \in Towards(e[Len(e) - 1], Via(e, Len(e) - 1, dst, nh)) :
              b.dev = e[Len(e)] /\ Ends(e, dst, nh) = AttachedAt(e[Len(e)], b.net, dst)
      BY <1>7, <2>1, EndsIs
    <3> QED BY <3>1, <2>1, <1>3
  <2>3. b \in Ahead(p, dst, nh)
    BY <2>1, <2>2, <1>3, <1>4 DEF Ahead, k
  <2>4. b = a
    BY <2>3, TowardsOne DEF Ahead
  <2> QED BY <2>2, <2>4, <1>3
<1>9. Seen(e) = Seen(p) \cup {a.dev}
  BY <1>1, <1>3 DEF Seen
<1> QED BY <1>3, <1>7, <1>8, <1>9 DEF e, k

\* A path that comes to a router attached to dst is the one that does.
LEMMA WalkReached ==
    ASSUME NEW r, NEW dst, NEW nh, NEW p \in Paths(r, dst, nh), Open(p, dst, nh),
           Len(p) <= MaxHops, NEW a \in Ahead(p, dst, nh), a.kind = "iface", a.dev \in Routers \ Seen(p),
           AttachedAt(a.dev, a.net, dst) # {}
    PROVE  LET here == AttachedAt(a.dev, a.net, dst)
               end == Ports[FirstOf(here)].net
           IN  WalkZone(r, dst, nh) =
                 IF \E i, j \in here : NetOwner[Ports[i].net] # NetOwner[Ports[j].net] THEN ZoneExternal
                 ELSE zoneFor(NetOwner[end], RouterOwner[r], end)
<1> DEFINE e == Append(p, a.dev)
<1>1. /\ e \in Paths(r, dst, nh) /\ Len(e) = Len(p) + 1
      /\ Ends(e, dst, nh) = AttachedAt(a.dev, a.net, dst)
  BY PathExtends
<1> HIDE DEF e
<1>2. Len(p) \in Nat /\ Len(p) >= 1
  BY PathShape
<1>3. e \in Reached(r, dst, nh)
  BY <1>1, <1>2 DEF Reached
<1>4. ASSUME NEW q \in Reached(r, dst, nh) PROVE q = e
  <2>1. q \in Paths(r, dst, nh) /\ Len(q) > Len(p)
    BY ReachedLonger
  <2>2. PICK b \in Ahead(p, dst, nh) : Len(q) > Len(p) + 1 => AttachedAt(b.dev, b.net, dst) = {}
    BY <2>1, LongerPath
  <2>3. b = a
    BY TowardsOne DEF Ahead
  <2>4. Len(q) = Len(e)
    BY <1>1, <1>2, <2>1, <2>2, <2>3, PathShape
  <2> QED BY <1>1, <2>1, <2>4, PathsEqual
<1>5. Pick(Reached(r, dst, nh)) = e
  BY <1>3, <1>4 DEF Pick
<1> QED BY <1>1, <1>3, <1>5 DEF WalkZone

\* The loop's ambiguous owners are two ports on networks of different tenants.
LEMMA OwnersDiffer ==
    ASSUME NEW s, NEW dst, HopAt(s, dst) \subseteq DOMAIN Ports
    PROVE  Cardinality(HopOwners(s, dst)) > 1
             <=> \E i, j \in HopAt(s, dst) : NetOwner[Ports[i].net] # NetOwner[Ports[j].net]
<1> DEFINE here == HopAt(s, dst)
           own == HopOwners(s, dst)
           f == [i \in here |-> NetOwner[Ports[i].net]]
<1>1. IsFiniteSet(here)
  <2>1. DOMAIN Ports = 1..Len(Ports) /\ Len(Ports) \in Nat
    BY TopologyAssumption, LenProperties
  <2>2. IsFiniteSet(1..Len(Ports))
    BY <2>1, FS_Interval
  <2> HIDE DEF here
  <2>3. here \subseteq 1..Len(Ports)
    BY <2>1 DEF here
  <2> QED BY <2>2, <2>3, FS_Subset
<1>2. f \in Surjection(here, own)
  BY DEF Surjection, HopOwners
<1>3. IsFiniteSet(own) /\ Cardinality(own) \in Nat
  <2> HIDE DEF here, own, f
  <2> QED BY <1>1, <1>2, FS_Surjection, FS_CardinalityType
<1>4. ASSUME NEW x \in own, NEW y \in own, x # y PROVE Cardinality(own) > 1
  <2>1. Cardinality({x, y}) = 2 /\ IsFiniteSet({x, y})
    <3>1. IsFiniteSet({x}) /\ Cardinality({x}) = 1 /\ y \notin {x} /\ {x} \cup {y} = {x, y}
      BY <1>4, FS_Singleton
    <3>2. IsFiniteSet({x} \cup {y}) /\ Cardinality({x} \cup {y}) = Cardinality({x}) + 1
      BY <3>1, FS_AddElement
    <3> QED BY <3>1, <3>2
  <2>2. {x, y} \subseteq own
    OBVIOUS
  <2>3. Cardinality({x, y}) <= Cardinality(own)
    <3> HIDE DEF own
    <3> QED BY <1>3, <2>2, FS_Subset
  <2> QED BY <1>3, <2>1, <2>3
<1>5. ASSUME \A x, y \in own : x = y PROVE ~(Cardinality(own) > 1)
  <2>1. CASE own = {}
    BY <2>1, FS_EmptySet
  <2>2. CASE own # {}
    <3>1. PICK x : x \in own
      BY <2>2
    <3>2. own = {x}
      BY <1>5, <3>1
    <3>3. Cardinality({x}) = 1
      BY FS_Singleton
    <3> QED BY <3>2, <3>3
  <2> QED BY <2>1, <2>2
<1>6. (\E i, j \in here : NetOwner[Ports[i].net] # NetOwner[Ports[j].net]) <=> \E x, y \in own : x # y
  BY DEF HopOwners
<1> HIDE DEF own, here
<1> QED BY <1>4, <1>5, <1>6 DEF own, here

\* The state of the loop at the end of a path.
AtEnd(p, dst, nh) ==
    [hop |-> Len(p) - 1, router |-> p[Len(p)], nexthop |-> Via(p, Len(p), dst, nh), visited |-> Seen(p)]

\* What the loop looks up there is what is ahead.
LEMMA HopAhead ==
    ASSUME NEW p, NEW dst, NEW nh, Len(p) - 1 # MaxHops
    PROVE  LET s == AtEnd(p, dst, nh)
           IN  /\ HopStuck(s) <=> Ahead(p, dst, nh) = {}
               /\ ~HopStuck(s) => /\ HopPort(s) \in Ahead(p, dst, nh)
                                  /\ HopPort(s).net = HopNet(s)
<1> DEFINE s == AtEnd(p, dst, nh)
<1>1. s.hop = Len(p) - 1 /\ Ahead(p, dst, nh) = Towards(s.router, s.nexthop)
  BY DEF AtEnd, Ahead
<1> HIDE DEF s
<1>2. HopStuck(s) <=> Towards(s.router, s.nexthop) = {}
  BY <1>1 DEF HopStuck, Towards, HopNet
<1>3. ASSUME ~HopStuck(s) 
      PROVE HopPort(s) \in Towards(s.router, s.nexthop) /\ HopPort(s).net = HopNet(s)
  <2>1. PortsAt(HopNet(s), s.nexthop) # {} /\ Towards(s.router, s.nexthop) = PortsAt(HopNet(s), s.nexthop)
    BY <1>3 DEF HopStuck, Towards, HopNet
  <2>2. HopPort(s) \in PortsAt(HopNet(s), s.nexthop)
    BY <2>1 DEF HopPort
  <2> QED BY <2>1, <2>2 DEF PortsAt
<1> QED BY <1>1, <1>2, <1>3 DEF s

\* The next hop is an address.
LEMMA ViaTyped ==
    ASSUME RoutesOK, NEW p, NEW i, p[i] \in Routers, NEW dst, NEW nh \in Addrs \cup {NoAddr}
    PROVE  Via(p, i, dst, nh) \in Addrs \cup {NoAddr}
<1>1. CASE i = 1
  BY <1>1 DEF Via
<1>2. CASE i # 1 /\ MatchRoute(p[i], dst) = {}
  BY <1>2 DEF Via
<1>3. CASE i # 1 /\ MatchRoute(p[i], dst) # {}
  <2>1. PICK t \in Route : MatchRoute(p[i], dst) = {t}
    BY <1>3, MatchOne
  <2>2. Via(p, i, dst, nh) = t.via
    BY <1>3, <2>1 DEF Via, Pick
  <2> QED BY <2>2, TopologyAssumption DEF Route
<1> QED BY <1>1, <1>2, <1>3

\* The state at the end of a path is of the loop's type.
LEMMA AtEndTyped ==
    ASSUME RoutesOK, NEW r, NEW dst, NEW nh \in Addrs \cup {NoAddr}, NEW p \in Paths(r, dst, nh)
    PROVE  AtEnd(p, dst, nh) \in LoopState
<1>1. /\ Len(p) \in Nat /\ Len(p) >= 1 /\ Len(p) <= MaxHops + 1
      /\ p \in [1..Len(p) -> Routers] /\ DOMAIN p = 1..Len(p) /\ MaxHops \in Nat
  BY PathShape, ZoningAssumption
<1>2. Len(p) - 1 \in 0..MaxHops /\ p[Len(p)] \in Routers /\ Seen(p) \subseteq Routers
  BY <1>1 DEF Seen
<1>3. Via(p, Len(p), dst, nh) \in Addrs \cup {NoAddr}
  BY <1>2, ViaTyped
<1> QED BY <1>2, <1>3 DEF AtEnd, LoopState

\* An address that does not parse is in no subnet.
LEMMA NoWayOut == \A r \in Routers : Anchors(r, NoAddr) = {}
<1> SUFFICES ASSUME NEW r \in Routers, NEW i \in Anchors(r, NoAddr) PROVE FALSE
  OBVIOUS
<1>1. i \in DOMAIN Ports /\ NoAddr \in Cidr[Ports[i].net]
  BY DEF Anchors, RouterSubnets
<1>2. Ports[i].net \in Networks
  BY <1>1, TopologyAssumption DEF PortSet
<1> QED BY <1>1, <1>2, TopologyAssumption, ZoningAssumption

\* H has the loop's equation for dst and a source project.
HopLoop(H, dst, source) ==
    H = [s \in LoopState |-> IF HopStops(s, dst) THEN HopAnswer(s, dst, source) ELSE H[HopFollow(s, dst)]]

\* One hop of the loop, from the end of an open path.
LEMMA HopOnce ==
    ASSUME RoutesOK, NEW r, NEW dst, NEW nh \in Addrs \cup {NoAddr},
           NEW H, HopLoop(H, dst, RouterOwner[r]), NEW p \in Paths(r, dst, nh), Open(p, dst, nh),
           \A e \in Paths(r, dst, nh) : Len(e) = Len(p) + 1 /\ Open(e, dst, nh) =>
              H[AtEnd(e, dst, nh)].zone = WalkZone(r, dst, nh)
    PROVE  H[AtEnd(p, dst, nh)].zone = WalkZone(r, dst, nh)
<1> DEFINE s == AtEnd(p, dst, nh)
           a == HopPort(s)
<1>0. MaxHops \in Nat /\ Len(p) \in Nat /\ Len(p) <= MaxHops + 1 /\ Len(p) >= 1
  BY ZoningAssumption, PathShape
<1>1. /\ s \in LoopState /\ s.hop = Len(p) - 1 /\ s.visited = Seen(p)
      /\ H[s] = IF HopStops(s, dst) THEN HopAnswer(s, dst, RouterOwner[r]) ELSE H[HopFollow(s, dst)]
  <2>1. s \in LoopState /\ s.hop = Len(p) - 1 /\ s.visited = Seen(p)
    BY AtEndTyped DEF AtEnd
  <2> HIDE DEF s
  <2> QED BY <2>1 DEF HopLoop
<1>2. Unresolved.zone = ZoneExternal
  BY DEF Unresolved
<1>3. CASE Len(p) = MaxHops + 1
  <2>1. HopStuck(s)
    BY <1>0, <1>1, <1>3 DEF HopStuck
  <2>2. H[s] = Unresolved
    BY <1>1, <2>1 DEF HopStops, HopAnswer
  <2> QED BY <1>2, <1>3, <2>2, WalkStuck
<1>4. CASE Len(p) # MaxHops + 1
  <2>0. Len(p) <= MaxHops /\ Len(p) - 1 # MaxHops
    BY <1>0, <1>4
  <2>1. CASE HopStuck(s)
    <3>1. H[s] = Unresolved
      BY <1>1, <2>1 DEF HopStops, HopAnswer
    <3>2. Ahead(p, dst, nh) = {}
      BY <2>0, <2>1, HopAhead
    <3> QED BY <1>2, <3>1, <3>2, WalkStuck
  <2>2. CASE ~HopStuck(s)
    <3>1. a \in Ahead(p, dst, nh) /\ a.net = HopNet(s)
      BY <2>0, <2>2, HopAhead
    <3> HIDE DEF s
    <3>2. \A b \in Ahead(p, dst, nh) : b = a
      BY <3>1, TowardsOne DEF Ahead
    <3>3. CASE a.kind = "compute"
      <4>1. H[s].zone = zoneFor(a.proj, RouterOwner[r], HopNet(s))
        BY <1>1, <2>2, <3>3 DEF HopStops, HopAnswer, Unresolved
      <4> HIDE DEF a
      <4>2. WalkZone(r, dst, nh) = zoneFor(a.proj, RouterOwner[r], a.net)
        BY <2>0, <3>1, <3>3, WalkAppliance
      <4> QED BY <3>1, <4>1, <4>2 DEF s
    <3>4. CASE a.kind # "compute" /\ (HopDead(s) \/ a.dev \in s.visited)
      <4>1. H[s].zone = ZoneExternal
        BY <1>1, <2>2, <3>4 DEF HopStops, HopAnswer, Unresolved
      <4>2. \A b \in Ahead(p, dst, nh) :
               b.kind # "compute" /\ ~(b.kind = "iface" /\ b.dev \in Routers \ Seen(p))
        BY <1>1, <3>2, <3>4 DEF HopDead
      <4> QED BY <4>1, <4>2, WalkStuck DEF s
    <3>5. CASE a.kind # "compute" /\ ~HopDead(s) /\ a.dev \notin s.visited
      <4>1. a.kind = "iface" /\ a.dev \in Routers \ Seen(p)
        BY <1>1, <3>5 DEF HopDead
      <4>2. HopAt(s, dst) = AttachedAt(a.dev, a.net, dst) /\ HopAt(s, dst) \subseteq DOMAIN Ports
        BY <3>1, <4>1 DEF HopAt, AttachedAt, RouterSubnets
      <4>3. Cardinality(HopOwners(s, dst)) > 1
             <=> \E i, j \in HopAt(s, dst) : NetOwner[Ports[i].net] # NetOwner[Ports[j].net]
        BY <4>2, OwnersDiffer
      <4>4. CASE HopAt(s, dst) # {}
        <5>1. H[s].zone = IF Cardinality(HopOwners(s, dst)) > 1 THEN ZoneExternal
                          ELSE zoneFor(NetOwner[HopEnd(s, dst)], RouterOwner[r], HopEnd(s, dst))
          BY <1>1, <2>2, <3>5, <4>4 DEF HopStops, HopAnswer, Unresolved
        <5>2. HopEnd(s, dst) = Ports[FirstOf(AttachedAt(a.dev, a.net, dst))].net
          BY <4>2 DEF HopEnd
        <5> HIDE DEF a
        <5>3. WalkZone(r, dst, nh) =
                IF \E i, j \in HopAt(s, dst) : NetOwner[Ports[i].net] # NetOwner[Ports[j].net] THEN ZoneExternal
                ELSE zoneFor(NetOwner[HopEnd(s, dst)], RouterOwner[r], HopEnd(s, dst))
          <6> DEFINE here == AttachedAt(a.dev, a.net, dst)
                     end == Ports[FirstOf(here)].net
          <6>1. here # {}
            BY <4>2, <4>4 DEF a
          <6>2. a.kind = "iface" /\ a.dev \in Routers \ Seen(p) /\ a \in Ahead(p, dst, nh)
            BY <3>1, <4>1
          <6>3. WalkZone(r, dst, nh) =
                  IF \E i, j \in here : NetOwner[Ports[i].net] # NetOwner[Ports[j].net] THEN ZoneExternal
                  ELSE zoneFor(NetOwner[end], RouterOwner[r], end)
            BY <2>0, <6>1, <6>2, WalkReached
          <6>4. here = HopAt(s, dst) /\ end = HopEnd(s, dst)
            BY <4>2, <5>2
          <6> HIDE DEF here, end
          <6> QED BY <6>3, <6>4
        <5> QED BY <4>3, <5>1, <5>3 DEF s
      <4>5. CASE HopAt(s, dst) = {}
        <5> DEFINE e == Append(p, a.dev)
        <5>1. /\ e \in Paths(r, dst, nh) /\ Len(e) = Len(p) + 1 /\ e[Len(e)] = a.dev
              /\ Ends(e, dst, nh) = {} /\ Seen(e) = s.visited \cup {a.dev}
          <6> HIDE DEF a
          <6>1. a.kind = "iface" /\ a.dev \in Routers \ Seen(p) /\ a \in Ahead(p, dst, nh)
            BY <3>1, <4>1
          <6>2. /\ e \in Paths(r, dst, nh) /\ Len(e) = Len(p) + 1 /\ e[Len(e)] = a.dev
                /\ Ends(e, dst, nh) = AttachedAt(a.dev, a.net, dst) /\ Seen(e) = Seen(p) \cup {a.dev}
            BY <2>0, <6>1, PathExtends
          <6> HIDE DEF e
          <6> QED BY <6>2, <1>1, <4>2, <4>5
        <5> HIDE DEF e, a
        <5>2. H[AtEnd(e, dst, nh)].zone = WalkZone(r, dst, nh)
          BY <5>1 DEF Open
        <5>3. ~(Cardinality(HopOwners(s, dst)) > 1)
          BY <4>3, <4>5
        <5>4. CASE MatchRoute(a.dev, dst) = {}
          <6>1. H[s].zone = ZoneExternal
            BY <1>1, <1>2, <2>2, <3>5, <4>5, <5>3, <5>4 DEF HopStops, HopAnswer, a
          <6> DEFINE u == AtEnd(e, dst, nh)
          <6>2. u.router = a.dev /\ u.nexthop = NoAddr /\ u \in LoopState
            <7>1. Len(e) # 1
              BY <1>0, <5>1
            <7>2. u \in LoopState
              BY <5>1, AtEndTyped
            <7> QED BY <5>1, <5>4, <7>1, <7>2 DEF AtEnd, Via
          <6> HIDE DEF u
          <6>3. HopStuck(u)
            BY <6>2, <4>1, NoWayOut DEF HopStuck
          <6>4. H[u] = Unresolved
            BY <6>2, <6>3 DEF HopLoop, HopStops, HopAnswer
          <6> QED BY <1>2, <5>2, <6>1, <6>4 DEF s, u
        <5>5. CASE MatchRoute(a.dev, dst) # {}
          <6>1. ~HopStops(s, dst)
            BY <2>2, <3>5, <4>5, <5>3, <5>5 DEF HopStops, a
          <6>2. HopFollow(s, dst) = AtEnd(e, dst, nh)
            <7>1. Len(e) # 1 /\ Len(e) - 1 = s.hop + 1
              BY <1>0, <1>1, <5>1
            <7>2. Via(e, Len(e), dst, nh) = Pick(MatchRoute(a.dev, dst)).via
              BY <5>1, <5>5, <7>1 DEF Via
            <7>3. HopFollow(s, dst) = [hop |-> s.hop + 1, router |-> a.dev,
                      nexthop |-> Pick(MatchRoute(a.dev, dst)).via, visited |-> s.visited \cup {a.dev}]
              BY DEF HopFollow, a, Pick
            <7> QED BY <5>1, <7>1, <7>2, <7>3 DEF AtEnd
          <6> QED BY <1>1, <5>2, <6>1, <6>2 DEF s
        <5> QED BY <5>4, <5>5
      <4> QED BY <4>4, <4>5
    <3> QED BY <3>3, <3>4, <3>5
  <2> QED BY <2>1, <2>2
<1> QED BY <1>3, <1>4

\* The resolver's loop gives the zone its hops lead to.
LEMMA ResolveIsWalk ==
    ASSUME RoutesOK, NEW r \in Routers, NEW dst, NEW nh \in Addrs \cup {NoAddr}
    PROVE  Resolve(r, dst, nh).zone = WalkZone(r, dst, nh)
<1>1. PICK H : /\ HopLoop(H, dst, RouterOwner[r])
               /\ Resolve(r, dst, nh) = H[[hop |-> 0, router |-> r, nexthop |-> nh, visited |-> {r}]]
  BY ResolveHops DEF HopLoop
<1> DEFINE P == {p \in Paths(r, dst, nh) : Open(p, dst, nh)}
           Bad == {p \in P : H[AtEnd(p, dst, nh)].zone # WalkZone(r, dst, nh)}
           f == [p \in Bad |-> MaxHops + 1 - Len(p)]
<1>2. Bad = {}
  <2> SUFFICES ASSUME Bad # {} PROVE FALSE
    OBVIOUS
  <2>1. \A p \in Bad : Len(p) \in Nat /\ f[p] = MaxHops + 1 - Len(p) /\ f[p] \in Nat
    BY PathShape, ZoningAssumption
  <2>2. PICK p \in Bad : \A q \in Bad : f[p] <= f[q]
    <3> HIDE DEF Bad, f
    <3> QED BY <2>1, LeastRank
  <2>3. /\ p \in Paths(r, dst, nh) /\ Open(p, dst, nh)
        /\ H[AtEnd(p, dst, nh)].zone # WalkZone(r, dst, nh)
    BY <2>2
  <2>4. ASSUME NEW e \in Paths(r, dst, nh), Len(e) = Len(p) + 1, Open(e, dst, nh)
        PROVE  H[AtEnd(e, dst, nh)].zone = WalkZone(r, dst, nh)
    <3> SUFFICES ASSUME e \in Bad PROVE FALSE
      BY <2>4
    <3> HIDE DEF Bad, f
    <3> QED BY <2>1, <2>2, <2>4, ZoningAssumption
  <2> HIDE DEF Bad, P, f
  <2> QED BY <1>1, <2>3, <2>4, HopOnce
<1>3. <<r>> \in Paths(r, dst, nh) /\ Len(<<r>>) = 1 /\ <<r>>[1] = r /\ DOMAIN <<r>> = {1}
  <2>1. <<r>> \in [1..1 -> Routers] /\ Len(<<r>>) = 1 /\ <<r>>[1] = r /\ DOMAIN <<r>> = {1}
    OBVIOUS
  <2>2. 1 \in 1..(MaxHops + 1) /\ 1..(1 - 1) = {}
    BY ZoningAssumption
  <2> QED BY <2>1, <2>2 DEF Paths
<1>4. <<r>> \in P
  BY <1>3 DEF Open
<1>5. AtEnd(<<r>>, dst, nh) = [hop |-> 0, router |-> r, nexthop |-> nh, visited |-> {r}]
  <2>1. Seen(<<r>>) = {r}
    BY <1>3 DEF Seen
  <2> QED BY <1>3, <2>1 DEF AtEnd, Via
<1> QED BY <1>1, <1>2, <1>4, <1>5


\* The rows are a matter of the routes and the shared networks alone.
LEMMA SameRows == UNCHANGED <<routes, shared>> => BuildTrie' = BuildTrie
  BY DEF BuildTrie, EmitOwnedSubnets, EmitSharedSubnets, EmitExtraRoutes, EmitInfraPrefixes,
         EmitCatchall, SharedPrefixes, RouteSet, Owned, Row, Resolve, MatchRoute, zoneFor

\* What a pass wrote, and commits at its end, is what Neutron says, until the next
\* change.
TrieInv ==
    /\ RoutesOK
    /\ part # "rest" => dirty
    /\ part # "rest" => ktrie = TrieMap(BuildTrie)
    /\ ~dirty => entries = BuildTrie /\ ktrie = TrieMap(BuildTrie)

\* The trie invariant holds at the start.
LEMMA TrieStart == ZoningInit => TrieInv
<1> SUFFICES ASSUME ZoningInit PROVE TrieInv
  OBVIOUS
<1>1. routes = [r \in Routers |-> <<>>] /\ dirty = TRUE /\ part = "rest"
  BY DEF ZoningInit
<1>2. RoutesOK
  BY <1>1 DEF RoutesOK
<1> QED BY <1>1, <1>2 DEF TrieInv

\* Every step keeps the trie invariant.
LEMMA TrieStep == TrieInv /\ [ZoningNext]_zoningVars => TrieInv'
<1> SUFFICES ASSUME TrieInv, [ZoningNext]_zoningVars PROVE TrieInv'
  OBVIOUS
<1>0. ASSUME Edit PROVE dirty' = TRUE /\ part' = "rest"
  BY <1>0 DEF TrieInv, Edit, partVars
<1>1. ASSUME Edit, routes' = routes PROVE TrieInv'
  BY <1>0, <1>1 DEF TrieInv, RoutesOK
<1>2. ASSUME NEW r \in Routers, NEW d \in Dests, NEW a \in NextHops, AddRoute(r, d, a)
      PROVE  TrieInv'
  <2>1. Edit /\ routes' = [routes EXCEPT ![r] = Append(@, [dst |-> d, via |-> a])]
    BY <1>2 DEF AddRoute
  <2>2. routes \in [Routers -> Seq(Route)] /\ [dst |-> d, via |-> a] \in Route
    BY DEF TrieInv, RoutesOK, Route
  <2>3. Append(routes[r], [dst |-> d, via |-> a]) \in Seq(Route)
    BY <2>2, AppendProperties
  <2>4. RoutesOK'
    BY <2>1, <2>2, <2>3 DEF RoutesOK
  <2> QED BY <1>0, <2>1, <2>4 DEF TrieInv
<1>3. ASSUME UNCHANGED <<routes, shared>>,
             \/ UNCHANGED <<dirty, entries, ktrie>> /\ (part' # "rest" => part # "rest")
             \/ UNCHANGED dirty /\ dirty /\ ktrie' = TrieMap(BuildTrie)
             \/ part # "rest" /\ part' = "rest" /\ entries' = BuildTrie /\ ktrie' = ktrie
      PROVE  TrieInv'
  <2>1. RoutesOK'
    BY <1>3 DEF TrieInv, RoutesOK
  <2>2. BuildTrie' = BuildTrie
    BY <1>3, SameRows
  <2>3. TrieMap(BuildTrie)' = TrieMap(BuildTrie)
    BY <2>2 DEF TrieMap
  <2>4. CASE UNCHANGED <<dirty, entries, ktrie>> /\ (part' # "rest" => part # "rest")
    BY <2>1, <2>2, <2>3, <2>4 DEF TrieInv
  <2>5. CASE UNCHANGED dirty /\ dirty /\ ktrie' = TrieMap(BuildTrie)
    BY <2>1, <2>2, <2>3, <2>5 DEF TrieInv
  <2>6. CASE part # "rest" /\ part' = "rest" /\ entries' = BuildTrie /\ ktrie' = ktrie
    BY <2>1, <2>2, <2>3, <2>6 DEF TrieInv
  <2> QED BY <1>3, <2>4, <2>5, <2>6
<1>4. CASE \E ok \in IF Live = {} THEN {TRUE} ELSE BOOLEAN : ApplyTrie(ok)
  <2>1. UNCHANGED <<routes, shared, dirty>> /\ dirty /\ ktrie' = TrieMap(BuildTrie)
    BY <1>4 DEF ApplyTrie, netVars
  <2> QED BY <2>1, <1>3
<1>5. CASE \/ \E m \in DOMAIN DesiredMACs : SettleMAC(m) \/ InsertMAC(m)
          \/ \E ghosts \in {{}, Ghosts} : GhostMACs(ghosts)
          \/ SettleRouters \/ ReplaceRouters \/ Count
  <2>1. UNCHANGED <<routes, shared, dirty, entries, ktrie>> /\ (part' # "rest" => part # "rest")
    BY <1>5 DEF SettleMAC, InsertMAC, GhostMACs, SettleRouters, ReplaceRouters, Count, At, netVars, partVars,
                publishedVars, kernelVars
  <2> QED BY <2>1, <1>3
<1>6. CASE UNCHANGED zoningVars
  <2>1. UNCHANGED <<routes, shared, dirty, entries, ktrie, part>>
    BY <1>6 DEF zoningVars, netVars, partVars, publishedVars, kernelVars
  <2> QED BY <2>1, <1>3
<1>12. CASE CommitPass
  <2>1. /\ UNCHANGED <<routes, shared, ktrie>> /\ entries' = BuildTrie
        /\ part # "rest" /\ part' = "rest"
    BY <1>12 DEF CommitPass, At, netVars
  <2> QED BY <2>1, <1>3
<1>7. CASE \E n \in Networks \ External : ShareNetwork(n)
  BY <1>1, <1>7 DEF ShareNetwork
<1>8. CASE \E r \in Routers, x \in Uplinks \cup {NoNet} : SetGateway(r, x)
  BY <1>1, <1>8 DEF SetGateway
<1>9. CASE \E m \in DOMAIN fip, x \in Uplinks \cup {NoNet} : BindFloatingIP(m, x)
  BY <1>1, <1>9 DEF BindFloatingIP
<1>10. CASE \E l \in LBs, v \in LBAddrs, b \in LBAddrs : CreateLB(l, v, b)
  BY <1>1, <1>10 DEF CreateLB
<1>11. CASE \E l \in LBs : DeleteLB(l) \/ \E b \in LBAddrs : Failover(l, b)
  BY <1>1, <1>11 DEF DeleteLB, Failover
<1> QED BY <1>2, <1>4, <1>5, <1>6, <1>7, <1>8, <1>9, <1>10, <1>11, <1>12 DEF ZoningNext

\* After a pass the trie is that of the routes and networks there are.
THEOREM TrieInvariant == ZoningSpec => []TrieInv
  BY TrieStart, TrieStep, PTL DEF ZoningSpec

\* A route's row has the zone its hops lead to.
LEMMA RouteRow ==
    ASSUME RoutesOK, NEW x \in RouteSet
    PROVE  LET t == routes[x[1]][x[2]]
           IN  Resolve(x[1], t.dst, t.via).zone = WalkZone(x[1], t.dst, t.via)
<1>1. x[1] \in Routers /\ x[2] \in DOMAIN routes[x[1]]
  BY DEF RouteSet
<1>2. routes[x[1]] \in Seq(Route)
  BY <1>1 DEF RoutesOK
<1>3. routes[x[1]][x[2]] \in Route
  BY <1>1, <1>2
<1>4. routes[x[1]][x[2]].via \in Addrs \cup {NoAddr}
  BY <1>3, TopologyAssumption DEF Route
<1> QED BY <1>1, <1>4, ResolveIsWalk

\* Every route of every router resolves to the network or machine its hops lead
\* to, for any topology and any hop limit (resolveStaticRouteZone).
THEOREM RoutesResolveToWalk == ZoningSpec => []RouteZoneIsWalk
<1>1. TrieInv => RouteZoneIsWalk
  <2> SUFFICES ASSUME TrieInv, ~dirty, NEW x \in RouteSet, routes[x[1]][x[2]].via # NoAddr
               PROVE  Row(RouterOwner[x[1]], routes[x[1]][x[2]].dst,
                          WalkZone(x[1], routes[x[1]][x[2]].dst, routes[x[1]][x[2]].via)) \in entries
    BY DEF RouteZoneIsWalk
  <2>1. Row(RouterOwner[x[1]], routes[x[1]][x[2]].dst,
            Resolve(x[1], routes[x[1]][x[2]].dst, routes[x[1]][x[2]].via).zone) \in EmitExtraRoutes
    BY DEF EmitExtraRoutes
  <2>2. Resolve(x[1], routes[x[1]][x[2]].dst, routes[x[1]][x[2]].via).zone
          = WalkZone(x[1], routes[x[1]][x[2]].dst, routes[x[1]][x[2]].via)
    BY RouteRow DEF TrieInv
  <2>3. entries = BuildTrie
    BY DEF TrieInv
  <2> QED BY <2>1, <2>2, <2>3 DEF BuildTrie
<1> QED BY <1>1, TrieInvariant, PTL

\* The last row of a key in the order of the zones: one of its rows.
LEMMA LastRow ==
    ASSUME NEW rows, NEW k \in DOMAIN TrieMap(rows), \A x \in rows : x.zone \in 0..5
    PROVE  \E x \in rows : <<x.tenant, x.prefix>> = k /\ x.zone = TrieMap(rows)[k]
<1> DEFINE mine == {x \in rows : <<x.tenant, x.prefix>> = k}
           zs == {x.zone : x \in mine}
           f == [z \in zs |-> 5 - z]
<1>1. k \in {<<x.tenant, x.prefix>> : x \in rows} /\ TrieMap(rows)[k] = CHOOSE z \in zs : \A y \in zs : y <= z
  BY DEF TrieMap
<1>2. zs # {} /\ \A z \in zs : z \in 0..5
  BY <1>1
<1> HIDE DEF zs
<1>3. \A z \in zs : f[z] \in Nat
  BY <1>2
<1>4. PICK z \in zs : \A y \in zs : f[z] <= f[y]
  <2> HIDE DEF f
  <2> QED BY <1>2, <1>3, LeastRank
<1>5. \A y \in zs : y <= z
  BY <1>2, <1>4
<1>6. TrieMap(rows)[k] \in zs
  BY <1>1, <1>5
<1> QED BY <1>6 DEF zs

\* The walk ends in a zone.
LEMMA WalkZones == \A r, dst, nh : WalkZone(r, dst, nh) \in {0, 1, 2, 5}
<1>1. \A o, q, n : zoneFor(o, q, n) \in {0, 1, 2, 5}
  BY DEF zoneFor, ZoneExternal, ZoneShared, ZoneSameTenant, ZoneOtherTenant
<1> QED BY <1>1 DEF WalkZone, ZoneExternal

\* The rows of a tenant are those of its own networks and of its routes.
LEMMA TenantRows ==
    ASSUME RoutesOK, NEW x \in BuildTrie, NEW t \in Tenants, x.tenant = t
    PROVE  \/ \E n \in Owned(t) : x = Row(t, Cidr[n], ZoneSameTenant)
           \/ \E y \in RouteSet : /\ RouterOwner[y[1]] = t /\ x.prefix = routes[y[1]][y[2]].dst
                                  /\ routes[y[1]][y[2]].via # NoAddr
                                  /\ x.zone = WalkZone(y[1], routes[y[1]][y[2]].dst, routes[y[1]][y[2]].via)
<1>1. CASE x \in EmitCatchall \cup EmitSharedSubnets \cup EmitInfraPrefixes
  BY <1>1, ZoningAssumption DEF EmitCatchall, EmitSharedSubnets, EmitInfraPrefixes, Row
<1>2. CASE x \in EmitOwnedSubnets
  BY <1>2 DEF EmitOwnedSubnets, Row
<1>3. CASE x \in EmitExtraRoutes
  <2>1. PICK y \in {y \in RouteSet : routes[y[1]][y[2]].via # NoAddr} :
            x = Row(RouterOwner[y[1]], routes[y[1]][y[2]].dst,
                    Resolve(y[1], routes[y[1]][y[2]].dst, routes[y[1]][y[2]].via).zone)
    BY <1>3 DEF EmitExtraRoutes
  <2>2. Resolve(y[1], routes[y[1]][y[2]].dst, routes[y[1]][y[2]].via).zone
          = WalkZone(y[1], routes[y[1]][y[2]].dst, routes[y[1]][y[2]].via)
    BY RouteRow
  <2> QED BY <2>1, <2>2 DEF Row
<1> QED BY <1>1, <1>2, <1>3 DEF BuildTrie

\* Every row has a zone.
LEMMA RowZones ==
    ASSUME RoutesOK, NEW x \in BuildTrie
    PROVE  x.zone \in 0..5
<1>1. CASE x \in EmitCatchall \cup EmitSharedSubnets \cup EmitInfraPrefixes \cup EmitOwnedSubnets
  BY <1>1 DEF EmitCatchall, EmitSharedSubnets, EmitInfraPrefixes, EmitOwnedSubnets, Row,
              ZoneExternal, ZoneShared, ZoneInfra, ZoneSameTenant
<1>2. CASE x \in EmitExtraRoutes
  <2>1. PICK y \in RouteSet :
            x = Row(RouterOwner[y[1]], routes[y[1]][y[2]].dst,
                    Resolve(y[1], routes[y[1]][y[2]].dst, routes[y[1]][y[2]].via).zone)
    BY <1>2 DEF EmitExtraRoutes
  <2>2. Resolve(y[1], routes[y[1]][y[2]].dst, routes[y[1]][y[2]].via).zone \in {0, 1, 2, 5}
    BY RouteRow, WalkZones
  <2> QED BY <2>1, <2>2 DEF Row
<1> QED BY <1>1, <1>2 DEF BuildTrie

\* A tenant's own addresses bill as its own (emitOwnedSubnets, lookup_zone), for
\* any topology, unless a route of the tenant, for a prefix as long as the subnet's
\* or longer, leads them elsewhere.
THEOREM OwnTrafficStaysSame == ZoningSpec => []OwnTrafficSame
<1>1. TrieInv => OwnTrafficSame
  <2> SUFFICES ASSUME TrieInv, ~dirty, NEW t \in Tenants, NEW n \in Owned(t), NEW a \in Cidr[n]
               PROVE  \/ TrieZone(t, a) = ZoneSameTenant
                      \/ \E x \in RouteSet :
                            /\ RouterOwner[x[1]] = t /\ a \in routes[x[1]][x[2]].dst
                            /\ routes[x[1]][x[2]].via # NoAddr
                            /\ Cardinality(routes[x[1]][x[2]].dst) <= Cardinality(Cidr[n])
                            /\ WalkZone(x[1], routes[x[1]][x[2]].dst, routes[x[1]][x[2]].via) # ZoneSameTenant
    BY DEF OwnTrafficSame
  <2>0. RoutesOK /\ entries = BuildTrie /\ ktrie = TrieMap(BuildTrie)
    BY DEF TrieInv
  <2> DEFINE hit == {x \in DOMAIN ktrie : x[1] = t /\ a \in x[2]}
             f == [x \in hit |-> Cardinality(x[2])]
             best == {x \in hit : \A y \in hit : Cardinality(x[2]) <= Cardinality(y[2])}
  <2>1. DOMAIN ktrie = {<<x.tenant, x.prefix>> : x \in BuildTrie}
    BY <2>0 DEF TrieMap
  <2>2. <<t, Cidr[n]>> \in hit
    <3>1. Row(t, Cidr[n], ZoneSameTenant) \in BuildTrie
      BY DEF BuildTrie, EmitOwnedSubnets
    <3>2. <<t, Cidr[n]>> \in DOMAIN ktrie
      BY <2>1, <3>1 DEF Row
    <3> QED BY <3>2
  <2>3. ASSUME NEW k \in hit
        PROVE  k[2] \in SUBSET Addrs
    <3>1. PICK x \in BuildTrie : k = <<x.tenant, x.prefix>>
      BY <2>1
    <3>2. x.tenant = t /\ k[2] = x.prefix
      BY <3>1
    <3>3. CASE \E m \in Owned(t) : x = Row(t, Cidr[m], ZoneSameTenant)
      BY <3>2, <3>3, TopologyAssumption DEF Owned, Row
    <3>4. CASE \E y \in RouteSet : x.prefix = routes[y[1]][y[2]].dst
      <4>1. PICK y \in RouteSet : x.prefix = routes[y[1]][y[2]].dst
        BY <3>4
      <4>2. y[1] \in Routers /\ y[2] \in DOMAIN routes[y[1]]
        BY DEF RouteSet
      <4>3. routes[y[1]] \in Seq(Route)
        BY <2>0, <4>2 DEF RoutesOK
      <4>4. routes[y[1]][y[2]] \in Route
        BY <4>2, <4>3
      <4> QED BY <3>2, <4>1, <4>4, TopologyAssumption DEF Route
    <3> QED BY <2>0, <3>2, <3>3, <3>4, TenantRows
  <2>4. \A k \in hit : f[k] \in Nat
    BY <2>3, TopologyAssumption, FS_Subset, FS_CardinalityType
  <2>5. PICK k \in hit : \A y \in hit : f[k] <= f[y]
    <3> HIDE DEF hit, f
    <3> QED BY <2>2, <2>4, LeastRank
  <2>6. best # {}
    BY <2>5
  <2>7. Longest(ktrie, t, a) = {ktrie[x] : x \in best}
    BY DEF Longest
  <2>8. PICK b \in best : TrieZone(t, a) = ktrie[b]
    <3> HIDE DEF best
    <3> QED BY <2>6, <2>7 DEF TrieZone, Pick
  <2>9. PICK x \in BuildTrie : <<x.tenant, x.prefix>> = b /\ x.zone = ktrie[b]
    <3>1. b \in DOMAIN TrieMap(BuildTrie)
      BY <2>0, <2>8
    <3>2. \A x \in BuildTrie : x.zone \in 0..5
      BY <2>0, RowZones
    <3>3. \E x \in BuildTrie : <<x.tenant, x.prefix>> = b /\ x.zone = TrieMap(BuildTrie)[b]
      BY <3>1, <3>2, LastRow
    <3> QED BY <2>0, <3>3
  <2>10. x.tenant = t /\ a \in x.prefix /\ Cardinality(x.prefix) <= Cardinality(Cidr[n])
    BY <2>2, <2>8, <2>9
  <2>11. CASE \E m \in Owned(t) : x = Row(t, Cidr[m], ZoneSameTenant)
    BY <2>8, <2>9, <2>11 DEF Row
  <2>12. CASE \E y \in RouteSet : /\ RouterOwner[y[1]] = t /\ x.prefix = routes[y[1]][y[2]].dst
                                  /\ routes[y[1]][y[2]].via # NoAddr
                                  /\ x.zone = WalkZone(y[1], routes[y[1]][y[2]].dst, routes[y[1]][y[2]].via)
    BY <2>8, <2>9, <2>10, <2>12
  <2> QED BY <2>0, <2>10, <2>11, <2>12, TenantRows
<1> QED BY <1>1, TrieInvariant, PTL

\* The rows a pass writes are for prefixes of the address space.
LEMMA RowsTyped ==
    ASSUME RoutesOK, shared \subseteq Networks
    PROVE  BuildTrie \subseteq [tenant : Tenants \cup {Global}, prefix : SUBSET Addrs, zone : Zones]
<1> SUFFICES ASSUME NEW x \in BuildTrie
             PROVE  x \in [tenant : Tenants \cup {Global}, prefix : SUBSET Addrs, zone : Zones]
  OBVIOUS
<1>1. x.zone \in Zones
  BY RowZones DEF Zones, ZoneExternal, ZoneSameTenant, ZoneOtherTenant, ZoneInfra, ZoneMiss, ZoneShared
<1>2. CASE x \in EmitCatchall
  <2>1. x = Row(Global, Addrs, x.zone)
    BY <1>2 DEF EmitCatchall, Row
  <2> QED BY <1>1, <2>1 DEF Row
<1>3. CASE x \in EmitSharedSubnets
  <2>1. PICK n \in shared : x = Row(Global, Cidr[n], ZoneShared)
    BY <1>3 DEF EmitSharedSubnets, SharedPrefixes
  <2>2. Cidr[n] \in SUBSET Addrs
    BY TopologyAssumption
  <2> QED BY <1>1, <2>1, <2>2 DEF Row
<1>4. CASE x \in EmitInfraPrefixes
  <2>1. PICK a \in Addrs : x = Row(Global, {a}, ZoneInfra)
    <3>1. PICK p \in InfraPrefixes \cup {{Metadata}} : x = Row(Global, p, ZoneInfra)
      BY <1>4 DEF EmitInfraPrefixes
    <3>2. \E a \in Addrs : p = {a}
      BY OwnersAssumption DEF InfraPrefixes
    <3> QED BY <3>1, <3>2
  <2> QED BY <1>1, <2>1 DEF Row
<1>5. CASE x \in EmitOwnedSubnets
  <2>1. PICK t \in Tenants : \E n \in Owned(t) : x = Row(t, Cidr[n], ZoneSameTenant)
    BY <1>5 DEF EmitOwnedSubnets
  <2>2. PICK n \in Networks : x = Row(t, Cidr[n], ZoneSameTenant)
    BY <2>1 DEF Owned
  <2>3. Cidr[n] \in SUBSET Addrs
    BY TopologyAssumption
  <2> QED BY <1>1, <2>2, <2>3 DEF Row
<1>6. CASE x \in EmitExtraRoutes
  <2>1. PICK y \in RouteSet :
            x = Row(RouterOwner[y[1]], routes[y[1]][y[2]].dst,
                    Resolve(y[1], routes[y[1]][y[2]].dst, routes[y[1]][y[2]].via).zone)
    BY <1>6 DEF EmitExtraRoutes
  <2>2. y[1] \in Routers /\ y[2] \in DOMAIN routes[y[1]]
    BY DEF RouteSet
  <2>3. routes[y[1]] \in Seq(Route)
    BY <2>2 DEF RoutesOK
  <2>4. routes[y[1]][y[2]] \in Route
    BY <2>2, <2>3
  <2>5. routes[y[1]][y[2]].dst \in SUBSET Addrs /\ RouterOwner[y[1]] \in Tenants
    BY <2>2, <2>4, TopologyAssumption, OwnersAssumption DEF Route
  <2> QED BY <1>1, <2>1, <2>5 DEF Row
<1> QED BY <1>2, <1>3, <1>4, <1>5, <1>6 DEF BuildTrie

\* The types, with those of the labels and the floating IPs.
Labels == External \cup {NoNet}
ZoningType ==
    /\ ZoningTypeOK /\ fip \in [VMMacs -> Labels]
    /\ \A m \in DOMAIN labels : labels[m] \in Labels
    /\ \A m \in DOMAIN routerExt : routerExt[m] \in Labels
    /\ \A l \in LBs : lb[l] # NoLB => lb[l].base \in Addrs

\* The labels of a pass are external networks, or none.
LEMMA LabelsTyped ==
    ASSUME gateway \in [Routers -> Labels], fip \in [VMMacs -> Labels]
    PROVE  /\ \A m \in DOMAIN ExternalNetworkByPort : ExternalNetworkByPort[m] \in Labels
           /\ \A m \in DOMAIN RouterExtMACs : RouterExtMACs[m] \in Labels
<1>1. ASSUME NEW p \in VMs PROVE Candidates(p) \subseteq Labels
  <2>1. fip[p.mac] \in Labels
    BY DEF VMMacs
  <2>2. SubnetExt(p.net) \subseteq Labels
    BY DEF SubnetExt
  <2> QED BY <2>1, <2>2 DEF Candidates
<1>2. ASSUME NEW m \in DOMAIN ExternalNetworkByPort PROVE ExternalNetworkByPort[m] \in Labels
  <2> DEFINE v == CHOOSE p \in VMs : p.mac = m
  <2>1. m \in {p.mac : p \in VMs}
    BY <1>2 DEF ExternalNetworkByPort
  <2>2. v \in VMs
    BY <2>1
  <2>3. ExternalNetworkByPort[m] = IF Candidates(v) = {} THEN NoNet ELSE Pick(Candidates(v))
    BY <2>1 DEF ExternalNetworkByPort
  <2> HIDE DEF v
  <2>4. Candidates(v) # {} => Pick(Candidates(v)) \in Candidates(v)
    BY DEF Pick
  <2> QED BY <1>1, <2>2, <2>3, <2>4 DEF Labels
<1>3. ASSUME NEW m \in DOMAIN RouterExtMACs PROVE RouterExtMACs[m] \in Labels
  <2>1. PICK p \in PortSet : p.mac = m /\ p.dev \in Routers
    BY <1>3 DEF RouterExtMACs
  <2>2. (CHOOSE q \in PortSet : q.mac = m) = p
    BY <2>1, PortsAssumption
  <2>3. RouterExtMACs[m] = gateway[p.dev]
    BY <1>3, <2>2 DEF RouterExtMACs
  <2> QED BY <2>1, <2>3
<1> QED BY <1>2, <1>3

\* The labels of a flow are those of its maps.
LEMMA FlowLabelTyped ==
    ASSUME NEW r, NEW vm, NEW f \in Flows, DOMAIN vm = VMMacs,
           \A m \in DOMAIN r : r[m] \in Labels, \A m \in DOMAIN vm : vm[m] \in Labels
    PROVE  FlowExternalLabel(r, vm, f) \in Labels
  BY FlowEnds DEF FlowExternalLabel

\* The types hold at the start.
LEMMA ZoningTypeStart == ZoningInit => ZoningType
<1> SUFFICES ASSUME ZoningInit PROVE ZoningType
  OBVIOUS
<1>1. routes \in [Routers -> Seq([dst : Dests, via : Addrs \cup {NoAddr}])]
  BY DEF ZoningInit
<1>2. shared \subseteq Networks /\ gateway \in [Routers -> External \cup {NoNet}]
  BY DEF ZoningInit
<1>3. NoLB \in [vip : Addrs \cup {NoAddr}, base : Addrs \cup {NoAddr}] /\ lb = [l \in LBs |-> NoLB]
  BY DEF ZoningInit, NoLB
<1>4. edits \in 0..MaxEdits
  BY ZoningAssumption DEF ZoningInit
<1>5. dirty \in BOOLEAN /\ octavia \in BOOLEAN /\ misfiled \in BOOLEAN /\ entries = {} /\ kbase = {}
      /\ listed \in BOOLEAN /\ part = "rest" /\ settling = NoMAC
  BY DEF ZoningInit
<1>6. /\ carried \in [Flows -> SUBSET (External \cup {NoNet})]
      /\ late \in [Flows -> SUBSET (External \cup {NoNet})]
  BY DEF ZoningInit
<1>7. fip \in [VMMacs -> Labels]
  BY DEF ZoningInit, VMMacs, Labels
<1>8. DOMAIN labels = {} /\ DOMAIN routerExt = {}
  BY DEF ZoningInit
<1> QED BY <1>1, <1>2, <1>3, <1>4, <1>5, <1>6, <1>7, <1>8 DEF ZoningType, ZoningTypeOK

\* A change in Neutron keeps the types of what it does not change.
LEMMA EditType ==
    ASSUME ZoningType, Edit,
           routes' \in [Routers -> Seq([dst : Dests, via : Addrs \cup {NoAddr}])],
           shared' \subseteq Networks, gateway' \in [Routers -> Labels], fip' \in [VMMacs -> Labels],
           lb' \in [LBs -> [vip : Addrs \cup {NoAddr}, base : Addrs \cup {NoAddr}]],
           \A l \in LBs : lb'[l] # NoLB => lb'[l].base \in Addrs
    PROVE  ZoningType'
<1>1. edits' \in 0..MaxEdits /\ dirty' \in BOOLEAN
  <2>1. edits \in 0..MaxEdits /\ edits < MaxEdits /\ edits' = edits + 1 /\ dirty' = TRUE
    BY DEF ZoningType, ZoningTypeOK, Edit
  <2> QED BY <2>1, ZoningAssumption
<1>2. UNCHANGED <<part, settling, listed, octavia, entries, labels, routerExt, kbase, carried, late, misfiled>>
  BY DEF Edit, publishedVars, kernelVars, partVars, bytesVars
<1> QED BY <1>1, <1>2 DEF ZoningType, ZoningTypeOK, Labels, Zones, Flows

\* The part of the types that no pass touches.
LEMMA SameTypes ==
    ASSUME ZoningType, UNCHANGED <<routes, shared, gateway, fip, lb, edits>>,
           dirty' \in BOOLEAN, octavia' \in BOOLEAN, listed' \in BOOLEAN, misfiled' \in BOOLEAN,
           part' \in {"rest", "learn", "routers", "swap", "addresses"},
           settling' \in VMMacs \cup (LBs \X {"data", "mgmt"}) \cup {NoMAC},
           entries' \subseteq [tenant : Tenants \cup {Global}, prefix : SUBSET Addrs, zone : Zones],
           kbase' \subseteq Tenants \X Addrs,
           carried' \in [Flows -> SUBSET Labels], late' \in [Flows -> SUBSET Labels],
           \A m \in DOMAIN labels' : labels'[m] \in Labels,
           \A m \in DOMAIN routerExt' : routerExt'[m] \in Labels
    PROVE  ZoningType'
  BY DEF ZoningType, ZoningTypeOK, Labels, Zones, Flows, VMMacs

\* What SameTypes asks, of the present state.
LEMMA Typed ==
    ASSUME ZoningType
    PROVE  /\ dirty \in BOOLEAN /\ octavia \in BOOLEAN /\ listed \in BOOLEAN /\ misfiled \in BOOLEAN
           /\ part \in {"rest", "learn", "routers", "swap", "addresses"}
           /\ settling \in VMMacs \cup (LBs \X {"data", "mgmt"}) \cup {NoMAC}
           /\ entries \subseteq [tenant : Tenants \cup {Global}, prefix : SUBSET Addrs, zone : Zones]
           /\ kbase \subseteq Tenants \X Addrs
           /\ carried \in [Flows -> SUBSET Labels] /\ late \in [Flows -> SUBSET Labels]
           /\ \A m \in DOMAIN labels : labels[m] \in Labels
           /\ \A m \in DOMAIN routerExt : routerExt[m] \in Labels
           /\ gateway \in [Routers -> Labels] /\ fip \in [VMMacs -> Labels]
  BY DEF ZoningType, ZoningTypeOK, Labels, VMMacs

\* The wanted MACs are of VMs and load balancers.
LEMMA WantedMACs == DOMAIN DesiredMACs \subseteq VMMacs \cup (LBs \X {"data", "mgmt"})
<1>1. DOMAIN AmphoraMACs \subseteq LBs \X {"data", "mgmt"}
  <2>1. DOMAIN AmphoraMACs = {<<l, "data">> : l \in Live} \cup {<<l, "mgmt">> : l \in Live}
    BY DEF AmphoraMACs
  <2> QED BY <2>1 DEF Live
<1>2. DOMAIN DesiredMACs = VMMacs \cup DOMAIN AmphoraMACs
  BY DEF DesiredMACs, VMMacs
<1> QED BY <1>1, <1>2

\* A fold keeps the types of the bytes.
LEMMA SettleType ==
    ASSUME NEW F, Settle(F), carried \in [Flows -> SUBSET Labels], late \in [Flows -> SUBSET Labels],
           misfiled \in BOOLEAN
    PROVE  carried' \in [Flows -> SUBSET Labels] /\ late' \in [Flows -> SUBSET Labels] /\ misfiled' \in BOOLEAN
<1>1. carried' \in [Flows -> SUBSET Labels] /\ late' \in [Flows -> SUBSET Labels]
  BY DEF Settle
<1>2. misfiled' \in BOOLEAN
  BY DEF Settle
<1> QED BY <1>1, <1>2

\* A pass writes rows, labels and addresses of the topology.
LEMMA PassType ==
    ASSUME ZoningType, TrieInv,
           \/ \E ok \in IF Live = {} THEN {TRUE} ELSE BOOLEAN : ApplyTrie(ok)
           \/ \E m \in DOMAIN DesiredMACs : SettleMAC(m) \/ InsertMAC(m)
           \/ \E ghosts \in {{}, Ghosts} : GhostMACs(ghosts)
           \/ SettleRouters \/ ReplaceRouters \/ CommitPass
    PROVE  ZoningType'
<1>0. /\ \A m \in VMMacs : ExternalNetworkByPort[m] \in Labels
      /\ \A m \in DOMAIN RouterExtMACs : RouterExtMACs[m] \in Labels
  BY Typed, LabelsTyped, LabelDomain
<1> USE Typed
<1>1. CASE \E ok \in IF Live = {} THEN {TRUE} ELSE BOOLEAN : ApplyTrie(ok)
  <2>1. PICK ok \in BOOLEAN : ApplyTrie(ok)
    BY <1>1
  <2>2. /\ listed' \in BOOLEAN /\ part' = "learn"
        /\ UNCHANGED <<routes, shared, gateway, fip, lb, edits, dirty, settling, octavia, entries, labels, routerExt,
                       kbase, carried, late, misfiled>>
    BY <2>1 DEF ApplyTrie, netVars, bytesVars
  <2> QED BY <2>2, SameTypes DEF Flows, VMMacs
<1>2. ASSUME NEW m \in DOMAIN DesiredMACs, SettleMAC(m) PROVE ZoningType'
  <2>1. /\ settling' = m
        /\ UNCHANGED <<routes, shared, gateway, fip, lb, edits, dirty, part, listed, octavia, entries, labels, routerExt, kbase>>
        /\ Settle({f \in Flows : f[1] = m})
    BY <1>2 DEF SettleMAC, netVars, publishedVars, kernelVars
  <2>2. carried' \in [Flows -> SUBSET Labels] /\ late' \in [Flows -> SUBSET Labels] /\ misfiled' \in BOOLEAN
    BY <2>1, SettleType
  <2>3. settling' \in VMMacs \cup (LBs \X {"data", "mgmt"}) \cup {NoMAC}
    BY <2>1, WantedMACs
  <2> QED BY <2>1, <2>2, <2>3, SameTypes DEF Flows, VMMacs
<1>3. ASSUME NEW m \in DOMAIN DesiredMACs, InsertMAC(m) PROVE ZoningType'
  <2>1. /\ settling' = NoMAC
        /\ UNCHANGED <<routes, shared, gateway, fip, lb, edits, dirty, part, listed, octavia, entries, routerExt, kbase,
                       carried, late, misfiled>>
        /\ labels' = IF m \in VMMacs THEN Put(labels, m, ExternalNetworkByPort[m]) ELSE labels
    BY <1>3, LabelDomain DEF InsertMAC, netVars, bytesVars
  <2>2. \A k \in DOMAIN labels' : labels'[k] \in Labels
    <3>1. CASE m \in VMMacs
      <4>1. labels' = [k \in DOMAIN labels \cup {m} |-> IF k = m THEN ExternalNetworkByPort[m] ELSE labels[k]]
        BY <2>1, <3>1 DEF Put
      <4> QED BY <1>0, <3>1, <4>1
    <3>2. CASE m \notin VMMacs
      BY <2>1, <3>2
    <3> QED BY <3>1, <3>2
  <2> QED BY <2>1, <2>2, SameTypes DEF Flows, VMMacs
<1>4. CASE \E ghosts \in {{}, Ghosts} : GhostMACs(ghosts)
  <2>1. /\ part' = "routers"
        /\ UNCHANGED <<routes, shared, gateway, fip, lb, edits, dirty, settling, listed, octavia, entries, labels, routerExt,
                       kbase, carried, late, misfiled>>
    BY <1>4 DEF GhostMACs, netVars, bytesVars
  <2> QED BY <2>1, SameTypes DEF Flows, VMMacs
<1>5. CASE SettleRouters
  <2>1. /\ part' \in {"addresses", "swap"}
        /\ UNCHANGED <<routes, shared, gateway, fip, lb, edits, dirty, settling, listed, octavia, entries, labels, routerExt,
                       kbase>>
        /\ Settle({f \in Flows : f[2] \in Changed(RouterExtMACs)})
    BY <1>5 DEF SettleRouters, netVars, publishedVars, kernelVars
  <2>2. carried' \in [Flows -> SUBSET Labels] /\ late' \in [Flows -> SUBSET Labels] /\ misfiled' \in BOOLEAN
    BY <2>1, SettleType
  <2> QED BY <2>1, <2>2, SameTypes DEF Flows, VMMacs
<1>6. CASE ReplaceRouters
  <2>1. /\ part' = "addresses" /\ routerExt' = RouterExtMACs
        /\ UNCHANGED <<routes, shared, gateway, fip, lb, edits, dirty, settling, listed, octavia, entries, labels,
                       kbase, carried, late, misfiled>>
    BY <1>6 DEF ReplaceRouters, netVars, kernelVars, bytesVars
  <2> QED BY <1>0, <2>1, SameTypes DEF Flows, VMMacs
<1>7. CASE CommitPass
  <2>1. /\ part' = "rest" /\ dirty' = FALSE /\ entries' = BuildTrie /\ kbase' = kbase \cup AmphoraBaseIPs
        /\ UNCHANGED <<routes, shared, gateway, fip, lb, edits, settling, listed, labels, routerExt, carried, late, misfiled>>
    BY <1>7 DEF CommitPass, netVars, bytesVars
  <2>2. octavia' \in BOOLEAN
    BY <1>7 DEF CommitPass
  <2>3. entries' \subseteq [tenant : Tenants \cup {Global}, prefix : SUBSET Addrs, zone : Zones]
    BY <2>1, RowsTyped DEF TrieInv, ZoningType, ZoningTypeOK
  <2>4. kbase' \subseteq Tenants \X Addrs
    <3>1. \A l \in Live : LBOwner[l] \in Tenants /\ lb[l].base \in Addrs
      BY OwnersAssumption DEF Live, ZoningType
    <3> QED BY <2>1, <3>1 DEF AmphoraBaseIPs
  <2> QED BY <2>1, <2>2, <2>3, <2>4, SameTypes DEF Flows, VMMacs
<1> QED BY <1>1, <1>2, <1>3, <1>4, <1>5, <1>6, <1>7

\* The counted bytes are under a label of the maps.
LEMMA CountType ==
    ASSUME ZoningType, ZInv, Count
    PROVE  ZoningType'
<1> DEFINE shown(f) == IF f[1] \in DOMAIN labels THEN {FlowExternalLabel(routerExt, labels, f)} ELSE {}
<1>1. /\ carried' = [f \in Flows |-> IF f \in InWindow THEN carried[f] ELSE carried[f] \cup shown(f)]
      /\ late' = [f \in Flows |-> IF f \in InWindow THEN late[f] \cup shown(f) ELSE late[f]]
      /\ UNCHANGED <<routes, shared, gateway, fip, lb, edits, dirty, part, settling, listed, octavia, entries, labels,
                     routerExt, kbase, misfiled>>
  BY DEF Count, netVars, kernelVars, partVars, publishedVars
<1>2. \A f \in Flows : shown(f) \subseteq Labels
  BY Typed DEF FlowExternalLabel
<1>3. carried' \in [Flows -> SUBSET Labels] /\ late' \in [Flows -> SUBSET Labels]
  <2> HIDE DEF shown
  <2> QED BY <1>1, <1>2, Typed
<1> QED BY <1>1, <1>3, Typed, SameTypes DEF Flows, VMMacs

\* Every step keeps the types.
LEMMA ZoningTypeStep == ZoningType /\ ZInv /\ TrieInv /\ [ZoningNext]_zoningVars => ZoningType'
<1> SUFFICES ASSUME ZoningType, ZInv, TrieInv, [ZoningNext]_zoningVars PROVE ZoningType'
  OBVIOUS
<1> DEFINE R == [dst : Dests, via : Addrs \cup {NoAddr}]
           B == [vip : Addrs \cup {NoAddr}, base : Addrs \cup {NoAddr}]
<1>0. /\ routes \in [Routers -> Seq(R)] /\ shared \subseteq Networks /\ gateway \in [Routers -> Labels]
      /\ fip \in [VMMacs -> Labels] /\ lb \in [LBs -> B] /\ \A l \in LBs : lb[l] # NoLB => lb[l].base \in Addrs
  BY DEF ZoningType, ZoningTypeOK, Labels
<1>1. CASE \E r \in Routers, d \in Dests, a \in NextHops : AddRoute(r, d, a)
  <2>1. PICK r \in Routers, d \in Dests, a \in NextHops : AddRoute(r, d, a)
    BY <1>1
  <2>2. [dst |-> d, via |-> a] \in R
    BY TopologyAssumption
  <2>3. Append(routes[r], [dst |-> d, via |-> a]) \in Seq(R)
    BY <1>0, <2>2, AppendProperties
  <2>4. routes' = [routes EXCEPT ![r] = Append(routes[r], [dst |-> d, via |-> a])]
        /\ Edit /\ UNCHANGED <<shared, gateway, fip, lb>>
    BY <2>1 DEF AddRoute
  <2>5. routes' \in [Routers -> Seq(R)]
    BY <1>0, <2>3, <2>4
  <2> QED BY <1>0, <2>4, <2>5, EditType
<1>2. CASE \E n \in Networks \ External : ShareNetwork(n)
  <2>1. Edit /\ shared' \subseteq Networks /\ UNCHANGED <<routes, gateway, fip, lb>>
    BY <1>0, <1>2 DEF ShareNetwork
  <2> QED BY <1>0, <2>1, EditType
<1>3. CASE \E r \in Routers, x \in Uplinks \cup {NoNet} : SetGateway(r, x)
  <2>1. Edit /\ gateway' \in [Routers -> Labels] /\ UNCHANGED <<routes, shared, fip, lb>>
    BY <1>0, <1>3, TopologyAssumption DEF SetGateway, Labels
  <2> QED BY <1>0, <2>1, EditType
<1>4. CASE \E m \in DOMAIN fip, x \in Uplinks \cup {NoNet} : BindFloatingIP(m, x)
  <2>1. Edit /\ fip' \in [VMMacs -> Labels] /\ UNCHANGED <<routes, shared, gateway, lb>>
    BY <1>0, <1>4, TopologyAssumption DEF BindFloatingIP, Labels
  <2> QED BY <1>0, <2>1, EditType
<1>5. CASE \E l \in LBs, v \in LBAddrs, b \in LBAddrs : CreateLB(l, v, b)
  <2>1. PICK l \in LBs, v \in LBAddrs, b \in LBAddrs : CreateLB(l, v, b)
    BY <1>5
  <2>2. v \in Addrs /\ b \in Addrs
    BY OwnersAssumption
  <2>3. Edit /\ lb' = [lb EXCEPT ![l] = [vip |-> v, base |-> b]] /\ UNCHANGED <<routes, shared, gateway, fip>>
    BY <2>1 DEF CreateLB
  <2>4. lb' \in [LBs -> B] /\ \A k \in LBs : lb'[k] # NoLB => lb'[k].base \in Addrs
    BY <1>0, <2>2, <2>3
  <2> QED BY <1>0, <2>3, <2>4, EditType
<1>6. CASE \E l \in LBs : DeleteLB(l)
  <2>1. PICK l \in LBs : DeleteLB(l)
    BY <1>6
  <2>2. NoLB \in B
    BY DEF NoLB
  <2>3. Edit /\ lb' = [lb EXCEPT ![l] = NoLB] /\ UNCHANGED <<routes, shared, gateway, fip>>
    BY <2>1 DEF DeleteLB
  <2>4. lb' \in [LBs -> B] /\ \A k \in LBs : lb'[k] # NoLB => lb'[k].base \in Addrs
    BY <1>0, <2>2, <2>3
  <2> QED BY <1>0, <2>3, <2>4, EditType
<1>7. CASE \E l \in LBs : \E b \in LBAddrs : Failover(l, b)
  <2>1. PICK l \in LBs, b \in LBAddrs : Failover(l, b)
    BY <1>7
  <2>2. b \in Addrs
    BY OwnersAssumption
  <2>3. Edit /\ lb' = [lb EXCEPT ![l] = [lb[l] EXCEPT !.base = b]] /\ UNCHANGED <<routes, shared, gateway, fip>>
    BY <2>1 DEF Failover
  <2>4. lb' \in [LBs -> B] /\ \A k \in LBs : lb'[k] # NoLB => lb'[k].base \in Addrs
    BY <1>0, <2>2, <2>3
  <2> QED BY <1>0, <2>3, <2>4, EditType
<1>8. CASE \E ok \in IF Live = {} THEN {TRUE} ELSE BOOLEAN : ApplyTrie(ok)
  BY <1>8, PassType
<1>11. CASE \E m \in DOMAIN DesiredMACs : SettleMAC(m) \/ InsertMAC(m)
  BY <1>11, PassType
<1>12. CASE \E ghosts \in {{}, Ghosts} : GhostMACs(ghosts)
  BY <1>12, PassType
<1>13. CASE SettleRouters \/ ReplaceRouters \/ CommitPass
  BY <1>13, PassType
<1>9. CASE Count
  BY <1>9, CountType
<1>10. CASE UNCHANGED zoningVars
  <2>1. UNCHANGED <<routes, shared, gateway, fip, lb, edits, dirty, part, settling, listed, octavia, entries, labels,
                    routerExt, kbase, carried, late, misfiled>>
    BY <1>10 DEF zoningVars, netVars, partVars, bytesVars, publishedVars, kernelVars
  <2> QED BY <2>1 DEF ZoningType, ZoningTypeOK, Zones, Flows
<1> QED BY <1>1, <1>2, <1>3, <1>4, <1>5, <1>6, <1>7, <1>8, <1>9, <1>10, <1>11, <1>12, <1>13 DEF ZoningNext

\* The variables of Neutron and of a pass keep their types: every row is for a
\* prefix and a zone, and bytes carry labels of external networks or none.
THEOREM ZoningTypeCorrect == ZoningSpec => []ZoningTypeOK
<1>1. ZoningType => ZoningTypeOK
  BY DEF ZoningType
<1> QED BY <1>1, ZoningTypeStart, ZoningTypeStep, ZoningInvariant, TrieInvariant, PTL DEF ZoningSpec

-----------------------------------------------------------------------------
(* MacLifecycle.                                                           *)

\* Where the two loops are: the pass holds at most one MAC, only in learn, and
\* only MACs with a port; the sweep holds expired MACs in its first phase only.
ControlInv ==
    /\ rpc # "learn" => stage = "look"
    /\ stage = "look" => at = {}
    /\ \A a, b \in at : a = b
    /\ \A a \in at : desired[a] # None
    /\ rpc = "learn" => \A a \in todo : desired[a] # None
    /\ gpc # "kernel" => gtodo = {}

\* What holds of one MAC, unless it was learnt under a sweep.
MacInv(m) ==
    m \notin raced =>
        /\ m \in gtodo \cup swept => user[m].life = "expired"
        /\ m \in swept => kmap[m] = None
        /\ rpc = "ghost" /\ m \in todo => user[m].life = "live"
        /\ stage = "kernel" /\ m \in at => user[m].life = "live"
        /\ kmap[m] # None => Present(m)

\* The inductive invariant.
MacIInv == TypeOK /\ ControlInv /\ \A m \in Macs : MacInv(m)

\* The cold start establishes the invariant.
LEMMA MacStart == Init => MacIInv
<1> SUFFICES ASSUME Init PROVE MacIInv
  OBVIOUS
<1> USE MacAssumption DEF Init, Absent
<1>1. TypeOK
  BY DEF TypeOK, Life
<1>2. ControlInv
  BY DEF ControlInv
<1>3. \A m \in Macs : MacInv(m)
  BY DEF MacInv, Present
<1> QED BY <1>1, <1>2, <1>3 DEF MacIInv

\* A change in Neutron or the passing of time.
LEMMA EnvironmentStep ==
    ASSUME MacIInv, NEW m \in Macs, NEW o \in Owners \cup {None},
           PortChange(m, o) \/ Elapse(m)
    PROVE  MacIInv'
<1> USE MacAssumption DEF vars, neutronVars, mapVars, passVars, sweepVars
<1>1. CASE PortChange(m, o)
  <2>1. TypeOK'
    BY <1>1 DEF MacIInv, TypeOK, PortChange
  <2>2. ControlInv' /\ \A n \in Macs : MacInv(n)'
    BY <1>1 DEF MacIInv, ControlInv, MacInv, Present, PortChange
  <2> QED BY <2>1, <2>2 DEF MacIInv
<1>2. CASE Elapse(m)
  <2>1. TypeOK'
    BY <1>2 DEF MacIInv, TypeOK, Elapse, Life
  <2>2. ControlInv'
    BY <1>2 DEF MacIInv, ControlInv, Elapse
  <2>3. ASSUME NEW n \in Macs PROVE MacInv(n)'
    BY <1>2, <2>3 DEF MacIInv, TypeOK, MacInv, Present, Elapse
  <2> QED BY <2>1, <2>2, <2>3 DEF MacIInv
<1> QED BY <1>1, <1>2

\* The steps of a pass that write neither map.
LEMMA PassStep ==
    ASSUME MacIInv, Sync \/ (\E m \in todo : Look(m)) \/ CollectGone \/ EndPass
    PROVE  MacIInv'
<1> USE MacAssumption DEF neutronVars, mapVars, passVars, sweepVars
<1>1. CASE Sync
  <2>1. TypeOK'
    BY <1>1 DEF MacIInv, TypeOK, Sync
  <2>2. ControlInv' /\ \A n \in Macs : MacInv(n)'
    BY <1>1 DEF MacIInv, ControlInv, MacInv, Present, Sync
  <2> QED BY <2>1, <2>2 DEF MacIInv
<1>2. CASE \E m \in todo : Look(m)
  <2> PICK m \in todo : Look(m)
    BY <1>2
  <2>1. TypeOK'
    BY DEF MacIInv, TypeOK, Look
  <2>2. ControlInv'
    BY DEF MacIInv, TypeOK, ControlInv, Look
  <2>3. \A n \in Macs : MacInv(n)'
    BY DEF MacIInv, ControlInv, MacInv, Present, Look
  <2> QED BY <2>1, <2>2, <2>3 DEF MacIInv
<1>3. CASE CollectGone
  <2>1. TypeOK'
    BY <1>3 DEF MacIInv, TypeOK, CollectGone
  <2>2. ControlInv' /\ \A n \in Macs : MacInv(n)'
    BY <1>3 DEF MacIInv, ControlInv, MacInv, Present, CollectGone
  <2> QED BY <2>1, <2>2 DEF MacIInv
<1>4. CASE EndPass
  <2>1. TypeOK'
    BY <1>4 DEF MacIInv, TypeOK, EndPass
  <2>2. ControlInv' /\ \A n \in Macs : MacInv(n)'
    BY <1>4 DEF MacIInv, ControlInv, MacInv, Present, EndPass
  <2> QED BY <2>1, <2>2 DEF MacIInv
<1> QED BY <1>1, <1>2, <1>3, <1>4

\* insertMAC writes userspace: the MAC is live, and raced if a sweep holds it.
LEMMA InsertStep ==
    ASSUME MacIInv, NEW m \in at, InsertUser(m)
    PROVE  MacIInv'
<1> USE MacAssumption DEF neutronVars, sweepVars
<1>1. m \in Macs /\ desired[m] \in Owners /\ rpc = "learn"
  BY DEF MacIInv, TypeOK, ControlInv, InsertUser
<1>2. TypeOK'
  BY <1>1 DEF MacIInv, TypeOK, InsertUser, Life
<1>3. ControlInv'
  BY DEF MacIInv, ControlInv, InsertUser
<1>4. ASSUME NEW n \in Macs PROVE MacInv(n)'
  <2>1. CASE n = m
    BY <1>1, <2>1 DEF MacIInv, TypeOK, MacInv, Present, InsertUser
  <2>2. CASE n # m
    BY <1>1, <2>2 DEF MacIInv, TypeOK, ControlInv, MacInv, Present, InsertUser
  <2> QED BY <2>1, <2>2
<1> QED BY <1>2, <1>3, <1>4 DEF MacIInv

\* insertMAC writes the kernel: an unraced MAC is still live, so not swept.
LEMMA UpdateStep ==
    ASSUME MacIInv, NEW m \in at, NEW ok \in BOOLEAN, UpdateKernel(m, ok)
    PROVE  MacIInv'
<1> USE MacAssumption DEF neutronVars, sweepVars
<1>1. m \in Macs /\ rpc = "learn"
  BY DEF MacIInv, TypeOK, ControlInv, UpdateKernel
<1>2. TypeOK'
  BY <1>1 DEF MacIInv, TypeOK, UpdateKernel
<1>3. ControlInv'
  BY DEF MacIInv, ControlInv, UpdateKernel
<1>4. ASSUME NEW n \in Macs PROVE MacInv(n)'
  <2>1. CASE n = m
    BY <1>1, <2>1 DEF MacIInv, TypeOK, MacInv, Present, UpdateKernel
  <2>2. CASE n # m
    BY <1>1, <2>2 DEF MacIInv, TypeOK, MacInv, Present, UpdateKernel
  <2> QED BY <2>1, <2>2
<1> QED BY <1>2, <1>3, <1>4 DEF MacIInv

\* MarkDelete stamps a live entry, so none that an unraced sweep holds.
LEMMA MarkStep ==
    ASSUME MacIInv, NEW m \in todo, MarkDelete(m)
    PROVE  MacIInv'
<1> USE MacAssumption DEF neutronVars, sweepVars
<1>1. m \in Macs
  BY DEF MacIInv, TypeOK
<1>2. TypeOK'
  BY <1>1 DEF MacIInv, TypeOK, MarkDelete, Present, Life
<1>3. ControlInv'
  BY DEF MacIInv, ControlInv, MarkDelete
<1>4. ASSUME NEW n \in Macs PROVE MacInv(n)'
  <2>1. CASE n = m
    BY <1>1, <2>1 DEF MacIInv, TypeOK, ControlInv, MacInv, Present, MarkDelete
  <2>2. CASE n # m
    BY <1>1, <2>2 DEF MacIInv, TypeOK, ControlInv, MacInv, Present, MarkDelete
  <2> QED BY <2>1, <2>2
<1> QED BY <1>2, <1>3, <1>4 DEF MacIInv

\* A sweep collects expired entries, takes them out of the kernel and then
\* out of userspace.
LEMMA SweepStep ==
    ASSUME MacIInv, GhostSweep
    PROVE  MacIInv'
<1> USE MacAssumption DEF neutronVars, mapVars, passVars
<1>1. CASE Classify
  <2>1. TypeOK'
    BY <1>1 DEF MacIInv, TypeOK, Classify
  <2>2. ControlInv' /\ \A n \in Macs : MacInv(n)'
    BY <1>1 DEF MacIInv, ControlInv, MacInv, Present, Classify
  <2> QED BY <2>1, <2>2 DEF MacIInv
<1>2. CASE \E m \in gtodo, ok \in BOOLEAN : DeleteKernel(m, ok)
  <2> PICK m \in gtodo, ok \in BOOLEAN : DeleteKernel(m, ok)
    BY <1>2
  <2>1. TypeOK'
    BY DEF MacIInv, TypeOK, DeleteKernel
  <2>2. ControlInv'
    BY DEF MacIInv, ControlInv, DeleteKernel
  <2>3. ASSUME NEW n \in Macs PROVE MacInv(n)'
    BY <2>3 DEF MacIInv, TypeOK, MacInv, Present, DeleteKernel
  <2> QED BY <2>1, <2>2, <2>3 DEF MacIInv
<1>3. CASE KernelDone \/ EndSweep
  <2>1. TypeOK'
    BY <1>3 DEF MacIInv, TypeOK, KernelDone, EndSweep
  <2>2. ControlInv' /\ \A n \in Macs : MacInv(n)'
    BY <1>3 DEF MacIInv, ControlInv, MacInv, Present, KernelDone, EndSweep
  <2> QED BY <2>1, <2>2 DEF MacIInv
<1>4. CASE \E m \in swept : DeleteUser(m)
  <2> PICK m \in swept : DeleteUser(m)
    BY <1>4
  <2>1. TypeOK'
    BY DEF MacIInv, TypeOK, DeleteUser, Absent, Life
  <2>2. ControlInv'
    BY DEF MacIInv, ControlInv, DeleteUser
  <2>3. ASSUME NEW n \in Macs PROVE MacInv(n)'
    BY <2>3 DEF MacIInv, TypeOK, ControlInv, MacInv, Present, DeleteUser, Absent
  <2> QED BY <2>1, <2>2, <2>3 DEF MacIInv
<1> QED BY <1>1, <1>2, <1>3, <1>4 DEF GhostSweep

\* Every step keeps the invariant.
LEMMA MacStep == MacIInv /\ [Next]_vars => MacIInv'
<1> SUFFICES ASSUME MacIInv, [Next]_vars PROVE MacIInv'
  OBVIOUS
<1>1. CASE \E m \in Macs, o \in Owners \cup {None} : PortChange(m, o)
  BY <1>1, EnvironmentStep
<1>2. CASE \E m \in Macs : Elapse(m)
  <2> PICK m \in Macs : Elapse(m)
    BY <1>2
  <2> QED BY EnvironmentStep
<1>3. CASE ReconcileMACs
  BY <1>3, PassStep, InsertStep, UpdateStep, MarkStep
     DEF ReconcileMACs, LearnMACs, GhostGoneMACs
<1>4. CASE GhostSweep
  BY <1>4, SweepStep
<1>5. CASE UNCHANGED vars
  BY <1>5 DEF vars, neutronVars, mapVars, passVars, sweepVars,
              MacIInv, TypeOK, ControlInv, MacInv, Present
<1> QED BY <1>1, <1>2, <1>3, <1>4, <1>5 DEF Next

\* The inductive invariant holds in every reachable state of passes and
\* sweeps.
THEOREM BindingInvariant == Spec => []MacIInv
<1> QED BY MacStart, MacStep, PTL DEF Spec

\* The maps, the pass and the sweep keep their types, and no entry is ever
\* half deleted (MarkDelete, Delete).
THEOREM MacTypeCorrect == Spec => []TypeOK
<1>1. MacIInv => TypeOK
  BY DEF MacIInv
<1> QED BY <1>1, BindingInvariant, PTL

\* Insert userspace first, delete kernel first: the kernel never knows more
\* than userspace, except of a MAC learnt under a sweep.
THEOREM KernelWithinUserspace == Spec => []SupersetUnlessRaced
<1>1. MacIInv => SupersetUnlessRaced
  BY DEF MacIInv, MacInv, SupersetUnlessRaced
<1> QED BY <1>1, BindingInvariant, PTL

\* No step of any pass or sweep removes a binding within its grace window.
THEOREM GraceAlwaysRespected == Spec => GraceRespected
<1> DEFINE Kept == \A m \in Macs \ raced :
                       user[m].life \in {"live", "ghost"} => user'[m].life # "none"
<1>1. MacIInv /\ [Next]_vars => [Kept]_vars
  <2> SUFFICES ASSUME MacIInv, Next PROVE Kept
    OBVIOUS
  <2> SUFFICES ASSUME NEW m \in Macs \ raced, user[m].life \in {"live", "ghost"}
               PROVE  user'[m].life # "none"
    OBVIOUS
  <2> USE DEF neutronVars, mapVars, passVars, sweepVars
  <2>1. user \in [Macs -> [owner : Owners \cup {None}, life : Life]] /\ at \subseteq Macs
    BY DEF MacIInv, TypeOK
  <2>2. CASE UNCHANGED user
    BY <2>2
  <2>3. CASE \E n \in at : InsertUser(n)
    BY <2>1, <2>3 DEF InsertUser
  <2>4. CASE \E n \in Macs : Elapse(n) \/ MarkDelete(n)
    BY <2>1, <2>4 DEF Elapse, MarkDelete
  <2>5. CASE \E n \in swept : DeleteUser(n)
    <3> PICK n \in swept : DeleteUser(n)
      BY <2>5
    <3>1. user[m].life # "expired" /\ n # m
      BY DEF MacIInv, MacInv
    <3> QED BY <2>1, <3>1 DEF DeleteUser
  <2>6. \/ UNCHANGED user
        \/ \E n \in at : InsertUser(n)
        \/ \E n \in Macs : Elapse(n) \/ MarkDelete(n)
        \/ \E n \in swept : DeleteUser(n)
    BY DEF Next, PortChange, ReconcileMACs, Sync, LearnMACs, Look, UpdateKernel,
           GhostGoneMACs, CollectGone, MarkDelete, EndPass, GhostSweep, Classify,
           DeleteKernel, KernelDone, EndSweep, MacIInv, TypeOK
  <2> QED BY <2>2, <2>3, <2>4, <2>5, <2>6
<1>2. GraceRespected <=> [][Kept]_vars
  BY PTL DEF GraceRespected
<1> QED BY <1>1, <1>2, BindingInvariant, PTL DEF Spec
=============================================================================

-------------------------------- MODULE DNS --------------------------------
(***************************************************************************)
(* internal/dns and the lookups of the controller after it: a              *)
(* MachineConfig with dnsmasq entries for the new domain, the wait for the *)
(* MachineConfigPool, and the machine config operator, which reboots the   *)
(* only node of the cluster, and this controller with it.                  *)
(***************************************************************************)
EXTENDS Stage

CONSTANTS Domains, NodeCounts

MachineConfig == "relocation-dns-master"

ASSUME ObjectsAssumption == Objects = {MachineConfig}
ASSUME SpecsAssumption   == Specs \subseteq [domain : Domains, addInternalDNSEntries : BOOLEAN]
ASSUME DataAssumption    == Domains \cup {"other"} \subseteq Data
ASSUME NodesAssumption   == NodeCounts \subseteq Nat \ {0}
ASSUME NoneAssumption    == None \notin CRs /\ None \notin Kept /\ None \notin Data
ASSUME BoundsAssumption  == Lags \cup {MaxUID, MaxGeneration, MaxEdits, MaxFail} \subseteq Nat

VARIABLES
    nodes,       \* how many nodes the cluster has
    address,     \* the node's status has an InternalIP
    external,    \* domains that resolve without this operator
    rendered,    \* the entries in the configuration the pool is to have, or None
    active,      \* the entries in force on the node
    listed,      \* the pool's status names the MachineConfig among its sources
    updating     \* the pool's condition Updating

pool  == <<rendered, active, listed, updating>>
world == <<nodes, address, external>>
vars  == <<lifecycle, objects, program, budgets, world, pool>>

TypeOK ==
    /\ {cr, known, pass} \subseteq CRs \cup {None}
    /\ uids \in Nat /\ queued \in BOOLEAN
    /\ store \in Stores /\ behind \in Seq(Stores) /\ Len(behind) <= lag
    /\ todo # <<>> => pass # None
    /\ nodes \in NodeCounts /\ address \in BOOLEAN /\ external \subseteq Domains
    /\ {rendered, active} \subseteq Data \cup {None}
    /\ listed \in BOOLEAN /\ updating \in BOOLEAN

Init ==
    /\ StageInit([n \in Objects |-> None], Objects)
    /\ nodes \in NodeCounts /\ address \in BOOLEAN /\ external \in {{}, Domains}
    /\ rendered = None /\ active = None /\ listed = FALSE /\ updating = FALSE

-----------------------------------------------------------------------------
Plan(relocation) ==
    IF relocation.deleting THEN <<>>
    ELSE (IF relocation.spec.addInternalDNSEntries
          THEN <<Call("nodes", MachineConfig, None),
                 Call("put", MachineConfig, relocation.spec.domain),
                 Call("wait", MachineConfig, None)>>
          ELSE <<>>)
         \o <<Call("lookup", MachineConfig, relocation.spec.domain)>>

\* With several nodes the MachineConfig and the wait are left out.
ListNodes ==
    /\ At("nodes")
    /\ \/ /\ nodes > 1
          /\ todo' = SubSeq(todo, 4, Len(todo))
          /\ UNCHANGED <<lifecycle, objects, held, budgets>>
       \/ nodes = 1 /\ address /\ Skip
       \/ nodes = 1 /\ ~address /\ Fails

\* Mutant: the pool must be seen updating.
WaitForPool_Updating == At("wait") /\ listed /\ updating /\ Skip

\* Polled until it holds; the MachineConfig is looked for by name.
WaitForPool == At("wait") /\ listed /\ ~updating /\ Skip

Resolves(domain) == domain \in external \/ active = domain

\* Mutant: the lookups are left to the wait.
Lookup_Trusts == At("lookup") /\ Skip

\* net.LookupIP of the API's name and of one under apps.
Lookup == At("lookup") /\ IF Resolves(With) THEN Skip ELSE Fails

-----------------------------------------------------------------------------
(* The machine config operator and the node.                               *)

Wanted == IF store[MachineConfig] = None THEN None ELSE store[MachineConfig].data

Render ==
    /\ rendered # Wanted
    /\ rendered' = Wanted
    /\ UNCHANGED <<active, listed, updating>>

\* Which of the two versions of the sources the status shows meanwhile is
\* left open.
ShowUpdating ==
    /\ active # rendered /\ ~updating
    /\ updating' = TRUE
    /\ listed' \in {listed, rendered # None}
    /\ UNCHANGED <<rendered, active>>

ShowUpdated ==
    /\ active = rendered
    /\ updating \/ listed # (rendered # None)
    /\ updating' = FALSE
    /\ listed' = (rendered # None)
    /\ UNCHANGED <<rendered, active>>

MachineConfigOperator == /\ Render \/ ShowUpdating \/ ShowUpdated
                         /\ UNCHANGED <<lifecycle, objects, program, budgets, world>>

\* Every pod of the only node restarts.
Reboot ==
    /\ active # rendered /\ updating
    /\ active' = rendered
    /\ Restart
    /\ behind' = <<>> /\ todo' = <<>> /\ held' = None
    /\ UNCHANGED <<store, lag, watched, budgets, rendered, listed, updating, world>>

\* The kubelet reports the node's address.
ReportAddress ==
    /\ ~address /\ address' = TRUE
    /\ UNCHANGED <<lifecycle, objects, program, budgets, nodes, external, pool>>

\* Somebody deletes or overwrites the MachineConfig.
Drift ==
    /\ store[MachineConfig] # None
    /\ \/ Change(MachineConfig, None)
       \/ Change(MachineConfig, [store[MachineConfig] EXCEPT !.data = "other"])

\* A record is added to, or taken from, the site's DNS.
ChangeExternal ==
    /\ edits < MaxEdits /\ edits' = edits + 1
    /\ external' \in {{}, Domains} \ {external}
    /\ UNCHANGED <<lifecycle, objects, program, fails, nodes, address, pool>>

Start == StartPass /\ todo' = IF pass' = None THEN <<>> ELSE Plan(pass')

Worker == /\ Start \/ ListNodes \/ WaitForPool \/ Lookup \/ Calls
          /\ UNCHANGED <<world, pool>>

Surroundings == \/ Users \/ Drift \/ CallFails \/ Collect(MachineConfig)
                \/ Crash /\ UNCHANGED watched

Next == \/ Worker
        \/ (Surroundings \/ DeliverCR \/ DeliverObjects) /\ UNCHANGED <<world, pool>>
        \/ MachineConfigOperator \/ Reboot \/ ReportAddress \/ ChangeExternal

Spec == Init /\ [][Next]_vars

FairSpec == /\ Spec
            /\ WF_vars(Worker)
            /\ WF_vars(DeliverCR /\ UNCHANGED <<world, pool>>)
            /\ WF_vars(DeliverObjects /\ UNCHANGED <<world, pool>>)
            /\ WF_vars(MachineConfigOperator) /\ WF_vars(Reboot) /\ WF_vars(ReportAddress)

-----------------------------------------------------------------------------
(* A relocation is reported as done only if the cluster resolves its domain, *)
(* though the wait may end before the node has the entries: it looks for the *)
(* MachineConfig by name, and an earlier version has the same.  After more   *)
(* than one change of the spec the pool may still be on its way to an older  *)
(* version, unknown to the pass.                                             *)
ReportMeansResolvable ==
    edits = 0 /\ uids = 1 /\ cr # None /\ cr.generation <= 2 /\ cr.reconciled =>
        Resolves(cr.spec.domain)

\* A pass in the loop of the wait, for a MachineConfig that was deleted before
\* the pool had it: nothing in the loop would put it back.
Stuck == At("wait") /\ store[MachineConfig] = None /\ rendered = None

Resolvable(spec) ==
    spec.domain \in external \/ (spec.addInternalDNSEntries /\ nodes = 1)

(* The relocation is reported as done in the end, although the controller    *)
(* reboots its own node, and so itself, in the middle of the pass, and the   *)
(* pool's status may be of an older version.                                 *)
EventuallyReconciled ==
    <>[](cr # None /\ ~cr.deleting /\ Resolvable(cr.spec) => cr.reconciled \/ Stuck)

(* "Wait for the MachineConfigPool to include our new MachineConfig, and     *)
(* wait for it to update": after the wait the node has the new entries.      *)
WaitMeansActive == [][WaitForPool /\ edits = 0 => active = pass.spec.domain]_vars
==============================================================================

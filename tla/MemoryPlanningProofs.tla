------------------------- MODULE MemoryPlanningProofs -------------------------
(***************************************************************************)
(* Proofs about MemoryPlanning, for any graphs, sizes and memory ids:      *)
(* tensors that share storage are not in use at the same time, every       *)
(* tensor lies in its buffer, and modules do not share storage.            *)
(***************************************************************************)
EXTENDS MemoryPlanning, TLAPS

(* The inductive invariant of MemoryPlanning, and the steps that keep the  *)
(* lifetimes, the homes of the specs and the naive algorithm right.        *)

-----------------------------------------------------------------------------
(* The inductive invariant *)

\* Lifetimes cover the references of the nodes that have been visited.
LifeInv ==
  \A j \in 1 .. NNodes : \A s \in Refs(Node(j)) :
    pc # "lifetime" \/ j < idx => 1 <= first[s] /\ first[s] <= j /\ j <= last[s]

\* Where a spec was planned, and what has an offset.
HomeInv ==
  /\ \A s \in Specs :
       /\ home[s] = 0 => offset[s] = None
       /\ home[s] # 0 => home[s] <= mod /\ \E i \in DOMAIN plan.modules[home[s]].nodes :
                                             plan.modules[home[s]].nodes[i].spec = s
       /\ pc = "lifetime" => home[s] # mod
       /\ plan.algo = "greedy" /\ pc \notin {"next", "done"} /\ home[s] = mod
            => offset[s] = None

\* Objects are as large, and as long in use, as the specs that they hold, and
\* those do not overlap in time.
ObjInv ==
  plan.algo = "greedy" /\ pc \in {"plan", "scan", "materialize"} =>
    \A s \in Specs : home[s] = mod =>
      /\ obj[s] \in 1 .. nobj /\ omem[obj[s]] = Mem(s)
      /\ Allocated(s) <= osize[obj[s]] /\ last[s] <= olast[obj[s]]
      /\ \A t \in Specs : s # t /\ home[t] = mod /\ obj[s] = obj[t]
                            => last[s] < first[t] \/ last[t] < first[s]

\* There are no more objects than nodes.
CountInv ==
  /\ pc = "lifetime" => nobj = 0
  /\ pc \in {"plan", "scan"} => nobj < idx

\* The object that the scan has picked can hold the spec.
ScanInv ==
  pc = "scan" =>
    /\ plan.algo = "greedy" /\ idx <= NNodes /\ home[spec] = 0
    /\ first[spec] <= last[spec]
    /\ k <= nobj + 1 /\ picked < k
    /\ picked # 0 =>
         /\ omem[picked] = Mem(spec)
         /\ Allocated(spec) <= osize[picked] /\ last[spec] <= olast[picked]
         /\ \A s \in Specs : home[s] = mod /\ obj[s] = picked => last[s] < first[spec]

\* The objects that have been placed are disjoint.
MatInv ==
  pc = "materialize" =>
    /\ plan.algo = "greedy" /\ k <= nobj + 1
    /\ \A o \in 1 .. nobj : o < k =>
         /\ ooff[o] # None /\ ooff[o] + osize[o] <= total[omem[o]]
         /\ \A p \in 1 .. nobj : o < p /\ p < k /\ omem[o] = omem[p]
                                   => ooff[o] + osize[o] <= ooff[p]

\* The naive algorithm never goes back in a buffer.
NaiveInv ==
  plan.algo = "naive" =>
    /\ pc \in {"lifetime", "plan", "next", "done"}
    /\ \A s \in Specs : home[s] # 0 =>
         /\ offset[s] # None /\ offset[s] + Allocated(s) <= bufsizes[Mem(s)]
         /\ \A t \in Specs : s # t /\ home[t] # 0 /\ Mem(s) = Mem(t)
              => \/ offset[s] + Allocated(s) <= offset[t]
                 \/ offset[t] + Allocated(t) <= offset[s]

IInv ==
  /\ TypeOK /\ LifeInv /\ HomeInv /\ ObjInv /\ CountInv /\ ScanInv /\ MatInv /\ NaiveInv
  /\ SharingSound /\ FitsBuffer

-----------------------------------------------------------------------------
(* The input *)

LEMMA DivNat == ASSUME NEW a \in Nat, NEW b \in Nat, b > 0 PROVE a \div b \in Nat
OBVIOUS

LEMMA TimesNat == ASSUME NEW a \in Nat, NEW b \in Nat PROVE a * b \in Nat
OBVIOUS

LEMMA AllocatedNat == ASSUME plan \in Plans, NEW s \in Specs PROVE Allocated(s) \in Nat
<1>1. plan.bytes[s] \in Nat /\ Alignment \in Nat /\ Alignment > 0
  BY PlanningAssumption DEF PlanType
<1>2. (plan.bytes[s] + Alignment - 1) \in Nat
  BY <1>1
<1>3. (plan.bytes[s] + Alignment - 1) \div Alignment \in Nat
  BY <1>1, <1>2, DivNat, Zenon
<1>4. QED
  BY <1>1, <1>3, TimesNat, Zenon DEF Allocated

LEMMA PlanFacts ==
  ASSUME TypeOK
  PROVE  /\ mod \in DOMAIN plan.modules /\ plan.modules[mod] \in ModuleType
         /\ NNodes \in Nat /\ NNodes <= MaxNodes /\ MaxNodes \in Nat
         /\ DOMAIN Module.nodes = 1 .. NNodes
         /\ \A i \in 1 .. NNodes : /\ Node(i).spec \in Specs
                                   /\ Node(i).args \subseteq Specs
                                   /\ Refs(Node(i)) \subseteq Specs
         /\ \A s \in Specs : Mem(s) \in MemIds /\ Allocated(s) \in Nat
         /\ plan.algo \in {"greedy", "naive"}
<1>1. plan \in Plans /\ plan \in PlanType
  BY PlanningAssumption, Zenon DEF TypeOK
<1>2. /\ plan.modules \in Seq(ModuleType)
      /\ plan.mem_id \in [Specs -> MemIds] /\ plan.algo \in {"greedy", "naive"}
  BY <1>1, Zenon DEF PlanType
<1>3. mod \in DOMAIN plan.modules /\ plan.modules[mod] \in ModuleType
  BY <1>2 DEF TypeOK
<1>4. Module.nodes \in Seq(Nodes)
  BY <1>3, Zenon DEF Module, ModuleType
<1>5. NNodes \in Nat /\ NNodes <= MaxNodes /\ MaxNodes \in Nat
  BY <1>1, <1>3, <1>4, PlanningAssumption DEF NNodes, Module
<1>6. DOMAIN Module.nodes = 1 .. NNodes
  BY <1>4 DEF NNodes
<1>7. ASSUME NEW i \in 1 .. NNodes
      PROVE  /\ Node(i).spec \in Specs /\ Node(i).args \subseteq Specs
             /\ Refs(Node(i)) \subseteq Specs
  <2>1. Node(i) \in NodeType
    <3>1. Module.nodes[i] \in Nodes
      BY <1>4 DEF NNodes
    <3>2. QED
      BY <3>1, PlanningAssumption, Zenon DEF Node
  <2>2. QED
    BY <2>1, Zenon DEF NodeType, Refs
<1>8. \A s \in Specs : Mem(s) \in MemIds /\ Allocated(s) \in Nat
  BY <1>1, <1>2, AllocatedNat, Zenon DEF Mem
<1>9. QED
  BY <1>2, <1>3, <1>5, <1>6, <1>7, <1>8, Zenon

\* A step that stays in the module sees the same nodes.
LEMMA SameModule ==
  ASSUME UNCHANGED <<plan, mod>>
  PROVE  /\ NNodes' = NNodes /\ Module' = Module
         /\ \A i : Node(i)' = Node(i)
         /\ \A i : Refs(Node(i))' = Refs(Node(i))
         /\ \A s : Mem(s)' = Mem(s) /\ Allocated(s)' = Allocated(s)
BY Zenon DEF NNodes, Module, Node, Refs, Mem, Allocated

LEMMA SamePlan ==
  ASSUME UNCHANGED plan
  PROVE  \A s : Mem(s)' = Mem(s) /\ Allocated(s)' = Allocated(s)
BY Zenon DEF Mem, Allocated

\* The spec that is planned has not been planned before, in any module.
LEMMA SpecFresh ==
  ASSUME TypeOK, HomeInv, Yield
  PROVE  /\ spec \in Specs /\ home[spec] = 0 /\ offset[spec] = None
         /\ idx \in 1 .. NNodes
<1>1. idx \in 1 .. NNodes /\ spec \in Specs
  BY PlanFacts, SMTT(60) DEF TypeOK, Yield, spec
<1>2. home[spec] # mod
  BY Zenon DEF Yield, Ignored, spec
<1>3. ASSUME home[spec] # 0 PROVE FALSE
  <2>1. PICK i \in DOMAIN plan.modules[home[spec]].nodes :
               plan.modules[home[spec]].nodes[i].spec = spec
    BY <1>1, <1>3, Zenon DEF HomeInv
  <2>2. home[spec] \in DOMAIN plan.modules /\ mod \in DOMAIN plan.modules
    <3>1. home[spec] \in 1 .. mod
      BY <1>1, <1>3 DEF HomeInv, TypeOK
    <3>2. plan.modules \in Seq(ModuleType)
      BY PlanningAssumption, SMTT(60) DEF TypeOK, PlanType
    <3>3. QED
      BY <3>1, <3>2, SMTT(60) DEF TypeOK
  <2>3. idx \in DOMAIN plan.modules[mod].nodes /\ spec = plan.modules[mod].nodes[idx].spec
    BY <1>1, PlanFacts, Zenon DEF spec, Node, Module
  <2>4. plan \in Plans
    BY Zenon DEF TypeOK
  <2>5. QED
    BY <1>2, <2>1, <2>2, <2>3, <2>4, PlanningAssumption, Zenon
<1>4. QED
  BY <1>1, <1>3, Zenon DEF HomeInv

-----------------------------------------------------------------------------
(* Each conjunct is preserved *)

LEMMA TypeNext == ASSUME IInv, Next PROVE TypeOK'
<1>1. /\ NNodes \in Nat /\ NNodes <= MaxNodes /\ MaxNodes \in Nat
      /\ plan \in Plans /\ idx \in 1 .. MaxNodes + 1 /\ mod \in 1 .. Len(plan.modules)
      /\ Len(plan.modules) \in Nat
      /\ \A s \in Specs : Mem(s) \in MemIds /\ Allocated(s) \in Nat
  <2>1. Len(plan.modules) \in Nat
    <3>1. plan.modules \in Seq(ModuleType)
      BY PlanningAssumption, Zenon DEF IInv, TypeOK, PlanType
    <3>2. QED
      BY <3>1
  <2>2. QED
    BY <2>1, PlanFacts, SMTT(60) DEF IInv, TypeOK
<1>2. idx <= NNodes => spec \in Specs
  BY <1>1, PlanFacts DEF IInv, spec
<1>3. CASE UpdateLifetime
  <2>1. first' \in [Specs -> Nat] /\ last' \in [Specs -> Nat] /\ idx' \in 1 .. MaxNodes + 1
    BY <1>1, <1>3 DEF IInv, TypeOK, UpdateLifetime
  <2>2. QED
    BY <1>3, <2>1, Zenon DEF IInv, TypeOK, UpdateLifetime, objects
<1>4. CASE LifetimesDone
  <2>1. idx' \in 1 .. MaxNodes + 1
    BY <1>1, <1>4 DEF LifetimesDone
  <2>2. QED
    BY <1>4, <2>1, Zenon DEF IInv, TypeOK, LifetimesDone, objects
<1>5. CASE IgnoreNode
  <2>1. idx' \in 1 .. MaxNodes + 1
    BY <1>1, <1>5 DEF IgnoreNode
  <2>2. QED
    BY <1>5, <2>1, Zenon DEF IInv, TypeOK, IgnoreNode, objects
<1>6. CASE AllocateBuf
  <2>1. spec \in Specs /\ Mem(spec) \in MemIds /\ Allocated(spec) \in Nat
    BY <1>1, <1>2, <1>6, Zenon DEF AllocateBuf, Yield
  <2>2. bufsizes[Mem(spec)] \in Nat
    BY <2>1, Zenon DEF IInv, TypeOK
  <2>3. offset' \in [Specs -> Nat \cup {None}]
    BY <1>6, <2>1, <2>2, Zenon DEF IInv, TypeOK, AllocateBuf
  <2>4. bufsizes' \in [MemIds -> Nat]
    BY <1>6, <2>1, <2>2, SMTT(60) DEF IInv, TypeOK, AllocateBuf
  <2>5. home' \in [Specs -> Nat] /\ idx' \in 1 .. MaxNodes + 1
    BY <1>1, <1>6, <2>1 DEF IInv, TypeOK, AllocateBuf, Yield
  <2>6. QED
    BY <1>6, <2>3, <2>4, <2>5, Zenon DEF IInv, TypeOK, AllocateBuf, Yield, objects
<1>7. CASE NaiveDone
  BY <1>1, <1>7, Zenon DEF IInv, TypeOK, NaiveDone, objects
<1>8. CASE BeginScan
  <2>1. k' \in 1 .. MaxNodes + 1 /\ picked' \in 0 .. MaxNodes
    BY <1>1, <1>8 DEF BeginScan
  <2>2. QED
    BY <1>8, <2>1, Zenon DEF IInv, TypeOK, BeginScan, objects
<1>9. CASE TakeObject
  <2>1. spec \in Specs /\ k \in 1 .. MaxNodes
    BY <1>1, <1>2, <1>9 DEF IInv, TypeOK, ScanInv, TakeObject
  <2>2. olast' \in [1 .. MaxNodes -> Nat]
    BY <1>9, <2>1, Zenon DEF IInv, TypeOK, TakeObject
  <2>3. osize' \in [1 .. MaxNodes -> Nat]
    BY <1>1, <1>9, <2>1, SMTT(60) DEF IInv, TypeOK, TakeObject
  <2>4. picked' \in 0 .. MaxNodes /\ k' \in 1 .. MaxNodes + 1
    BY <1>1, <1>9, <2>1 DEF TakeObject
  <2>5. QED
    BY <1>9, <2>2, <2>3, <2>4, Zenon DEF IInv, TypeOK, TakeObject
<1>10. CASE PassObject
  <2>1. k' \in 1 .. MaxNodes + 1
    BY <1>1, <1>10 DEF IInv, TypeOK, PassObject
  <2>2. QED
    BY <1>10, <2>1, Zenon DEF IInv, TypeOK, PassObject, objects
<1>11. CASE ShareObject
  <2>1. spec \in Specs /\ idx' \in 1 .. MaxNodes + 1
    BY <1>1, <1>2, <1>11 DEF IInv, TypeOK, ScanInv, ShareObject, ScanDone
  <2>2. obj' \in [Specs -> 0 .. MaxNodes] /\ home' \in [Specs -> Nat]
    BY <1>1, <1>11, <2>1, SMTT(60) DEF IInv, TypeOK, ShareObject, ScanDone
  <2>3. QED
    BY <1>11, <2>1, <2>2, SMTT(60) DEF IInv, TypeOK, ShareObject, ScanDone, objects
<1>12. CASE NewObject
  <2>1. spec \in Specs /\ idx' \in 1 .. MaxNodes + 1 /\ nobj + 1 \in 1 .. MaxNodes
    BY <1>1, <1>2, <1>12 DEF IInv, TypeOK, ScanInv, CountInv, NewObject, ScanDone
  <2>2. obj' \in [Specs -> 0 .. MaxNodes]
    BY <1>1, <1>12, <2>1 DEF IInv, TypeOK, NewObject
  <2>3. home' \in [Specs -> Nat]
    BY <1>1, <1>12, <2>1 DEF IInv, TypeOK, NewObject, ScanDone
  <2>4. /\ omem' \in [1 .. MaxNodes -> MemIds] /\ osize' \in [1 .. MaxNodes -> Nat]
        /\ olast' \in [1 .. MaxNodes -> Nat] /\ ooff' \in [1 .. MaxNodes -> Nat \cup {None}]
    BY <1>1, <1>12, <2>1, Zenon DEF IInv, TypeOK, NewObject
  <2>5. QED
    BY <1>12, <2>1, <2>2, <2>3, <2>4, ZenonT(60) DEF IInv, TypeOK, NewObject, ScanDone
<1>13. CASE BeginMaterialize
  <2>1. total' \in [MemIds -> Nat] /\ k' \in 1 .. MaxNodes + 1
    BY <1>1, <1>13 DEF IInv, TypeOK, BeginMaterialize
  <2>2. QED
    BY <1>13, <2>1, Zenon DEF IInv, TypeOK, BeginMaterialize, objects
<1>14. CASE MaterializeObject
  <2>1. /\ k \in 1 .. MaxNodes /\ omem[k] \in MemIds /\ osize[k] \in Nat
        /\ total[omem[k]] \in Nat
    BY <1>1, <1>14 DEF IInv, TypeOK, MaterializeObject
  <2>2. /\ ooff' \in [1 .. MaxNodes -> Nat \cup {None}] /\ total' \in [MemIds -> Nat]
        /\ k' \in 1 .. MaxNodes + 1
    BY <1>1, <1>14, <2>1, SMTT(60) DEF IInv, TypeOK, MaterializeObject
  <2>3. QED
    BY <1>14, <2>2, SMTT(60) DEF IInv, TypeOK, MaterializeObject
<1>15. CASE GreedyDone
  <2>1. offset' \in [Specs -> Nat \cup {None}]
    BY <1>1, <1>15 DEF IInv, TypeOK, GreedyDone, ObjInv, MatInv
  <2>2. QED
    BY <1>15, <2>1, Zenon DEF IInv, TypeOK, GreedyDone, objects
<1>16. CASE NextModule
  <2>1. mod' \in 1 .. Len(plan.modules) /\ idx' \in 1 .. MaxNodes + 1 /\ nobj' \in 0 .. MaxNodes
    BY <1>1, <1>16 DEF NextModule
  <2>2. QED
    BY <1>16, <2>1, SMTT(60) DEF IInv, TypeOK, NextModule
<1>17. CASE Done
  BY <1>1, <1>17, Zenon DEF IInv, TypeOK, Done, objects
<1>18. QED
  BY <1>3, <1>4, <1>5, <1>6, <1>7, <1>8, <1>9, <1>10, <1>11, <1>12, <1>13, <1>14, <1>15,
     <1>16, <1>17, ZenonT(60) DEF Next

\* The steps that place no spec and do not go on to another module.
Quiet ==
  \/ UpdateLifetime \/ LifetimesDone \/ IgnoreNode \/ NaiveDone \/ BeginScan \/ TakeObject
  \/ PassObject \/ BeginMaterialize \/ MaterializeObject \/ Done

LEMMA QuietSteps ==
  ASSUME Quiet
  PROVE  /\ UNCHANGED <<plan, mod, home, obj, offset, bufsizes>>
         /\ pc' = "lifetime" => pc = "lifetime"
         /\ pc' \notin {"next", "done"} => pc \notin {"next", "done"}
         /\ pc' = "next" => pc = "plan" /\ plan.algo = "naive"
<1>1. UNCHANGED <<plan, mod, home, obj, offset, bufsizes>>
  BY Zenon DEF Quiet, UpdateLifetime, LifetimesDone, IgnoreNode, NaiveDone, BeginScan, TakeObject,
         PassObject, BeginMaterialize, MaterializeObject, Done
<1>2. \/ pc' = pc /\ pc \in {"lifetime", "plan", "scan", "materialize"}
      \/ pc = "lifetime" /\ pc' = "plan"
      \/ pc = "plan" /\ pc' = "next" /\ plan.algo = "naive"
      \/ pc = "plan" /\ pc' \in {"scan", "materialize"}
      \/ pc' = "done"
  BY Zenon DEF Quiet, UpdateLifetime, LifetimesDone, IgnoreNode, NaiveDone, BeginScan, TakeObject,
         PassObject, BeginMaterialize, MaterializeObject, Done, Yield
<1>3. QED
  BY <1>1, <1>2, Zenon

LEMMA NextCases ==
  ASSUME Next
  PROVE  Quiet \/ AllocateBuf \/ ShareObject \/ NewObject \/ GreedyDone \/ NextModule
BY Zenon DEF Next, Quiet

LEMMA LifeNext == ASSUME IInv, Next PROVE LifeInv'
<1>1. CASE UpdateLifetime
  <2>1. SUFFICES ASSUME NEW j \in 1 .. NNodes, NEW s \in Refs(Node(j)), j < idx'
                 PROVE  1 <= first'[s] /\ first'[s] <= j /\ j <= last'[s]
    <3>1. UNCHANGED <<plan, mod>> /\ pc' = "lifetime"
      BY <1>1, Zenon DEF UpdateLifetime
    <3>2. QED
      BY <3>1, SameModule, Zenon DEF LifeInv
  <2>2. s \in Specs /\ idx \in Nat /\ idx >= 1 /\ first[s] \in Nat /\ last[s] \in Nat
    BY PlanFacts, SMTT(60) DEF IInv, TypeOK
  <2>3. j < idx => 1 <= first[s] /\ first[s] <= j /\ j <= last[s]
    BY Zenon DEF IInv, LifeInv
  <2>4. CASE j = idx
    BY <1>1, <2>2, <2>4 DEF UpdateLifetime
  <2>5. CASE j < idx
    BY <1>1, <2>2, <2>3, <2>5 DEF UpdateLifetime
  <2>6. j \in Nat /\ idx' = idx + 1
    BY <1>1, <2>1, SMTT(60) DEF UpdateLifetime
  <2>7. j = idx \/ j < idx
    BY <2>1, <2>2, <2>6, SMTT(60)
  <2>8. QED
    BY <2>4, <2>5, <2>7, Zenon
<1>2. CASE LifetimesDone
  <2>1. UNCHANGED <<plan, mod, first, last>> /\ pc = "lifetime" /\ idx > NNodes
    BY <1>2, Zenon DEF LifetimesDone
  <2>2. \A j \in 1 .. NNodes : j < idx
    BY <2>1, PlanFacts, SMTT(60) DEF IInv, TypeOK
  <2>3. QED
    BY <2>1, <2>2, SameModule, Zenon DEF IInv, LifeInv
<1>3. CASE NextModule
  <2>1. pc' = "lifetime" /\ idx' = 1
    BY <1>3, Zenon DEF NextModule
  <2>2. QED
    BY <2>1 DEF LifeInv
<1>4. CASE ~UpdateLifetime /\ ~LifetimesDone /\ ~NextModule
  <2>1. UNCHANGED <<plan, mod, first, last>> /\ pc # "lifetime"
    BY <1>4, Zenon DEF Next, IgnoreNode, AllocateBuf, Yield, NaiveDone, BeginScan, TakeObject,
                PassObject, ShareObject, NewObject, ScanDone, BeginMaterialize,
                MaterializeObject, GreedyDone, Done
  <2>2. QED
    BY <2>1, SameModule, Zenon DEF IInv, LifeInv
<1>5. QED
  BY <1>1, <1>2, <1>3, <1>4, SMTT(60)

LEMMA HomeNext == ASSUME IInv, Next PROVE HomeInv'
<1>1. CASE Quiet
  BY <1>1, QuietSteps, SMTT(60) DEF IInv, HomeInv
<1>2. ASSUME UNCHANGED <<plan, mod>>, spec \in Specs, home[spec] = 0, idx \in 1 .. NNodes,
             home' = [home EXCEPT ![spec] = mod], pc' = "plan", pc \in {"plan", "scan"},
             \A s \in Specs : s # spec => offset'[s] = offset[s],
             plan.algo = "greedy" => offset' = offset
      PROVE  HomeInv'
  <2>1. SUFFICES ASSUME NEW s \in Specs
                 PROVE  /\ home'[s] = 0 => offset'[s] = None
                        /\ home'[s] # 0 =>
                             home'[s] <= mod /\ \E i \in DOMAIN plan.modules[home'[s]].nodes :
                                                  plan.modules[home'[s]].nodes[i].spec = s
                        /\ plan.algo = "greedy" /\ home'[s] = mod => offset'[s] = None
    BY <1>2 DEF HomeInv
  <2>2. mod \in Nat /\ mod # 0 /\ mod <= mod
    BY DEF IInv, TypeOK
  <2>3. CASE s = spec
    <3>1. home'[s] = mod
      BY <1>2, <2>3, SMTT(60) DEF IInv, TypeOK
    <3>2. idx \in DOMAIN plan.modules[mod].nodes /\ plan.modules[mod].nodes[idx].spec = s
      BY <1>2, <2>3, PlanFacts, Zenon DEF IInv, spec, Node, Module
    <3>3. plan.algo = "greedy" => offset'[s] = None
      BY <1>2, <2>3, Zenon DEF IInv, HomeInv
    <3>4. QED
      BY <2>2, <3>1, <3>2, <3>3, Zenon
  <2>4. CASE s # spec
    <3>1. home'[s] = home[s] /\ offset'[s] = offset[s]
      BY <1>2, <2>4, Zenon DEF IInv, TypeOK
    <3>2. QED
      BY <1>2, <3>1 DEF IInv, HomeInv
  <2>5. QED
    BY <2>3, <2>4, Zenon
<1>3. CASE AllocateBuf
  <2>1. spec \in Specs /\ home[spec] = 0 /\ idx \in 1 .. NNodes
    BY <1>3, SpecFresh, Zenon DEF IInv, AllocateBuf
  <2>2. \A s \in Specs : s # spec => offset'[s] = offset[s]
    BY <1>3, Zenon DEF IInv, TypeOK, AllocateBuf
  <2>3. QED
    BY <1>2, <1>3, <2>1, <2>2, Zenon DEF AllocateBuf, Yield
<1>4. CASE ShareObject \/ NewObject
  <2>a. pc = "scan"
    BY <1>4, Zenon DEF ShareObject, NewObject, ScanDone
  <2>b. idx <= NNodes /\ home[spec] = 0
    BY <2>a, Zenon DEF IInv, ScanInv
  <2>c. idx \in 1 .. NNodes
    BY <2>b, PlanFacts, SMTT(60) DEF IInv, TypeOK
  <2>1. spec \in Specs /\ home[spec] = 0 /\ idx \in 1 .. NNodes
    BY <2>b, <2>c, PlanFacts, SMTT(60) DEF IInv, TypeOK, spec
  <2>2. QED
    BY <1>2, <1>4, <2>1, SMTT(60) DEF ShareObject, NewObject, ScanDone
<1>5. CASE GreedyDone
  <2>1. \A s \in Specs : home[s] # mod => offset'[s] = offset[s]
    BY <1>5, Zenon DEF GreedyDone
  <2>2. mod # 0
    BY SMTT(60) DEF IInv, TypeOK
  <2>3. QED
    BY <1>5, <2>1, <2>2, ZenonT(60) DEF IInv, HomeInv, GreedyDone
<1>6. CASE NextModule
  <2>1. UNCHANGED <<plan, home, offset>> /\ mod' = mod + 1
    BY <1>6, Zenon DEF NextModule
  <2>2. \A s \in Specs : home[s] # 0 => home[s] <= mod' /\ home[s] # mod'
    BY <2>1 DEF IInv, HomeInv, TypeOK
  <2>3. \A s \in Specs : home[s] = mod' => home[s] # 0
    BY <2>1 DEF IInv, TypeOK
  <2>4. QED
    BY <2>1, <2>2, <2>3, Zenon DEF IInv, HomeInv
<1>7. QED
  BY <1>1, <1>3, <1>4, <1>5, <1>6, NextCases, Zenon

LEMMA CountNext == ASSUME IInv, Next PROVE CountInv'
<1>1. nobj \in Nat /\ idx \in Nat /\ idx >= 1
  BY PlanningAssumption DEF IInv, TypeOK
<1>2. CASE UpdateLifetime \/ LifetimesDone \/ NextModule
  <2>1. nobj' = 0 /\ (pc' = "lifetime" \/ (pc' = "plan" /\ idx' = 1))
    <3>1. CASE UpdateLifetime
      <4>1. pc = "lifetime" /\ pc' = pc /\ nobj' = nobj
        BY <3>1, Zenon DEF UpdateLifetime, objects
      <4>2. QED
        BY <4>1, Zenon DEF IInv, CountInv
    <3>2. CASE LifetimesDone
      BY <3>2, Zenon DEF IInv, CountInv, LifetimesDone, objects
    <3>3. CASE NextModule
      BY <3>3, Zenon DEF NextModule
    <3>4. QED
      BY <1>2, <3>1, <3>2, <3>3, Zenon
  <2>2. QED
    BY <2>1 DEF CountInv
<1>3. CASE IgnoreNode \/ AllocateBuf \/ ShareObject
  <2>1. nobj' = nobj /\ idx' = idx + 1 /\ pc' = "plan" /\ pc \in {"plan", "scan"}
    BY <1>3, Zenon DEF IgnoreNode, AllocateBuf, ShareObject, ScanDone, Yield, objects
  <2>2. QED
    BY <1>1, <2>1 DEF IInv, CountInv
<1>4. CASE BeginScan \/ TakeObject \/ PassObject
  <2>1. nobj' = nobj /\ idx' = idx /\ pc' = "scan" /\ pc \in {"plan", "scan"}
    BY <1>4, Zenon DEF BeginScan, TakeObject, PassObject, Yield, objects
  <2>2. QED
    BY <2>1, Zenon DEF IInv, CountInv
<1>5. CASE NewObject
  <2>1. nobj' = nobj + 1 /\ idx' = idx + 1 /\ pc' = "plan" /\ pc = "scan"
    BY <1>5, Zenon DEF NewObject, ScanDone
  <2>2. QED
    BY <1>1, <2>1 DEF IInv, CountInv
<1>6. CASE NaiveDone \/ BeginMaterialize \/ MaterializeObject \/ GreedyDone \/ Done
  <2>1. pc' \in {"next", "materialize", "done"}
    BY <1>6, Zenon DEF NaiveDone, BeginMaterialize, MaterializeObject, GreedyDone, Done
  <2>2. QED
    BY <2>1, Zenon DEF CountInv
<1>7. QED
  BY <1>2, <1>3, <1>4, <1>5, <1>6, Zenon DEF Next

LEMMA NaiveNext == ASSUME IInv, Next PROVE NaiveInv'
<1> SUFFICES ASSUME plan'.algo = "naive" PROVE NaiveInv'
  BY Zenon DEF NaiveInv
<1>1. UNCHANGED plan /\ plan.algo = "naive"
  BY Zenon DEF Next, UpdateLifetime, LifetimesDone, IgnoreNode, AllocateBuf, NaiveDone,
         BeginScan, TakeObject, PassObject, ShareObject, NewObject, ScanDone, BeginMaterialize,
         MaterializeObject, GreedyDone, NextModule, Done
<1>2. pc \in {"lifetime", "plan", "next", "done"}
  BY <1>1, SMTT(60) DEF IInv, NaiveInv
<1>3. \/ UpdateLifetime \/ LifetimesDone \/ IgnoreNode \/ NaiveDone \/ Done \/ AllocateBuf
      \/ NextModule
  BY <1>1, <1>2, ZenonT(60) DEF Next, BeginScan, TakeObject, PassObject, ShareObject, NewObject, ScanDone,
                    BeginMaterialize, MaterializeObject, GreedyDone
<1>4. pc' \in {"lifetime", "plan", "next", "done"}
  BY <1>2, <1>3, SMTT(60) DEF UpdateLifetime, LifetimesDone, IgnoreNode, NaiveDone, Done, AllocateBuf,
                    NextModule
<1>5. CASE AllocateBuf
  <2>1. spec \in Specs /\ home[spec] = 0
    BY <1>5, SpecFresh, SMTT(60) DEF IInv, AllocateBuf
  <2>2. /\ Mem(spec) \in MemIds /\ Allocated(spec) \in Nat
        /\ bufsizes[Mem(spec)] \in Nat
        /\ \A s \in Specs : Mem(s) \in MemIds /\ Allocated(s) \in Nat /\ bufsizes[Mem(s)] \in Nat
    BY <2>1, PlanFacts, SMTT(60) DEF IInv, TypeOK
  <2>3. /\ offset'[spec] = bufsizes[Mem(spec)]
        /\ bufsizes'[Mem(spec)] = bufsizes[Mem(spec)] + Allocated(spec)
    BY <1>5, <2>1, <2>2, Zenon DEF IInv, TypeOK, AllocateBuf
  <2>4. \A s \in Specs : s # spec => home'[s] = home[s] /\ offset'[s] = offset[s]
    BY <1>5, Zenon DEF IInv, TypeOK, AllocateBuf
  <2>5. \A s \in Specs : bufsizes[Mem(s)] <= bufsizes'[Mem(s)] /\ bufsizes'[Mem(s)] \in Nat
    BY <1>5, <2>2, SMTT(60) DEF IInv, TypeOK, AllocateBuf
  <2>6. ASSUME NEW s \in Specs, s # spec, home'[s] # 0
        PROVE  /\ offset'[s] # None /\ offset'[s] \in Nat
               /\ offset'[s] + Allocated(s) <= bufsizes[Mem(s)]
               /\ offset'[s] + Allocated(s) <= bufsizes'[Mem(s)]
    <3>1. offset[s] # None /\ offset[s] + Allocated(s) <= bufsizes[Mem(s)]
      BY <1>1, <2>4, <2>6, Zenon DEF IInv, NaiveInv
    <3>2. offset[s] \in Nat
      BY <3>1, Zenon DEF IInv, TypeOK
    <3>3. QED
      BY <2>2, <2>4, <2>5, <2>6, <3>1, <3>2
  <2>7. \A s \in Specs : home'[s] # 0 =>
          offset'[s] # None /\ offset'[s] + Allocated(s) <= bufsizes'[Mem(s)]
    BY <2>2, <2>3, <2>6 DEF None
  <2>8. ASSUME NEW s \in Specs, NEW t \in Specs, s # t, home'[s] # 0, home'[t] # 0,
               Mem(s) = Mem(t)
        PROVE  \/ offset'[s] + Allocated(s) <= offset'[t]
               \/ offset'[t] + Allocated(t) <= offset'[s]
    <3>1. CASE s # spec /\ t # spec
      BY <1>1, <2>4, <2>8, <3>1, SMTT(60) DEF IInv, NaiveInv
    <3>2. CASE t = spec
      BY <2>3, <2>6, <2>8, <3>2, Zenon
    <3>3. CASE s = spec
      BY <2>3, <2>6, <2>8, <3>3, Zenon
    <3>4. QED
      BY <3>1, <3>2, <3>3, Zenon
  <2>9. QED
    BY <1>1, <1>4, <2>7, <2>8, SamePlan, Zenon DEF NaiveInv
<1>6. CASE ~AllocateBuf
  <2>1. UNCHANGED <<home, offset, bufsizes>>
    BY <1>3, <1>6, Zenon DEF UpdateLifetime, LifetimesDone, IgnoreNode, NaiveDone, Done, NextModule
  <2>2. QED
    BY <1>1, <1>4, <2>1, SamePlan, SMTT(60) DEF IInv, NaiveInv
<1>7. QED
  BY <1>5, <1>6, SMTT(60)

-----------------------------------------------------------------------------
(* Proofs about MemoryPlanning, for any graphs, sizes and memory ids:      *)
(* tensors that share storage are not in use at the same time, every       *)
(* tensor lies in its buffer, and modules do not share storage.            *)

(* The steps of MemoryPlanning that keep the shared objects of the greedy  *)
(* algorithm right.                                                        *)

LEMMA ObjectFacts ==
  ASSUME TypeOK
  PROVE  /\ MaxNodes \in Nat /\ nobj \in Nat /\ nobj <= MaxNodes
         /\ k \in Nat /\ k >= 1 /\ picked \in Nat /\ idx \in Nat /\ idx >= 1
         /\ \A o \in 1 .. nobj : /\ o \in 1 .. MaxNodes /\ omem[o] \in MemIds
                                  /\ osize[o] \in Nat /\ olast[o] \in Nat
                                  /\ ooff[o] \in Nat \cup {None} /\ total[omem[o]] \in Nat
<1>1. MaxNodes \in Nat /\ nobj \in Nat /\ nobj <= MaxNodes
  BY PlanningAssumption DEF TypeOK
<1>2. k \in Nat /\ k >= 1 /\ picked \in Nat /\ idx \in Nat /\ idx >= 1
  BY DEF TypeOK
<1>3. \A o \in 1 .. nobj : o \in 1 .. MaxNodes
  BY <1>1
<1>4. \A o \in 1 .. nobj : /\ omem[o] \in MemIds /\ osize[o] \in Nat /\ olast[o] \in Nat
                            /\ ooff[o] \in Nat \cup {None} /\ total[omem[o]] \in Nat
  BY <1>3, Zenon DEF TypeOK
<1>5. QED
  BY <1>1, <1>2, <1>3, <1>4, Zenon

\* An object that may be taken has no user that outlives the start of the spec.
LEMMA BetterFacts ==
  ASSUME IInv, pc = "scan", k <= nobj, Better
  PROVE  /\ spec \in Specs /\ k \in 1 .. nobj /\ k \in 1 .. MaxNodes
         /\ omem[k] = Mem(spec) /\ olast[k] < first[spec] /\ first[spec] <= last[spec]
         /\ \A s \in Specs : home[s] = mod /\ obj[s] = k => last[s] < first[spec]
<1>1. spec \in Specs
  BY PlanFacts DEF IInv, TypeOK, ScanInv, spec
<1>2. k \in 1 .. nobj /\ k \in 1 .. MaxNodes
  BY ObjectFacts DEF IInv
<1>3. omem[k] = Mem(spec) /\ olast[k] < first[spec] /\ first[spec] <= last[spec]
  BY <1>1, <1>2, Zenon DEF IInv, TypeOK, ScanInv, Better
<1>4. ASSUME NEW s \in Specs, home[s] = mod, obj[s] = k PROVE last[s] < first[spec]
  <2>1. last[s] <= olast[k]
    BY <1>4, Zenon DEF IInv, ObjInv, ScanInv
  <2>2. last[s] \in Nat /\ olast[k] \in Nat /\ first[spec] \in Nat
    BY <1>1, <1>2, SMTT(60) DEF IInv, TypeOK
  <2>3. QED
    BY <1>3, <2>1, <2>2
<1>5. QED
  BY <1>1, <1>2, <1>3, <1>4, Zenon

LEMMA ObjNext == ASSUME IInv, Next PROVE ObjInv'
<1> SUFFICES ASSUME plan'.algo = "greedy", pc' \in {"plan", "scan", "materialize"}
             PROVE  ObjInv'
  BY Zenon DEF ObjInv
<1> DEFINE Held(s) == /\ obj[s] \in 1 .. nobj /\ omem[obj[s]] = Mem(s)
                      /\ Allocated(s) <= osize[obj[s]] /\ last[s] <= olast[obj[s]]
<1> DEFINE Apart(s, t) == last[s] < first[t] \/ last[t] < first[s]
<1>1. CASE LifetimesDone
  BY <1>1, Zenon DEF IInv, HomeInv, ObjInv, LifetimesDone
<1>2. CASE TakeObject
  <2>1. /\ spec \in Specs /\ k \in 1 .. nobj /\ k \in 1 .. MaxNodes /\ olast[k] < first[spec]
        /\ first[spec] <= last[spec]
    BY <1>2, BetterFacts, Zenon DEF TakeObject
  <2>2. UNCHANGED <<plan, mod, home, obj, nobj, omem, first, last>> /\ plan.algo = "greedy"
    BY <1>2, Zenon DEF TakeObject
  <2>3. ASSUME NEW o \in 1 .. nobj PROVE osize[o] <= osize'[o] /\ olast[o] <= olast'[o]
    <3>1. Allocated(spec) \in Nat /\ last[spec] \in Nat /\ first[spec] \in Nat
      BY <2>1, PlanFacts, Zenon DEF IInv, TypeOK
    <3>2. o \in 1 .. MaxNodes /\ osize[o] \in Nat /\ olast[o] \in Nat /\ olast[k] \in Nat
      BY <2>1, ObjectFacts, Zenon DEF IInv
    <3>3. /\ osize'[o] = IF o = k /\ osize[k] < Allocated(spec) THEN Allocated(spec) ELSE osize[o]
          /\ olast'[o] = IF o = k THEN last[spec] ELSE olast[o]
      BY <1>2, <3>2, SMTT(60) DEF IInv, TypeOK, TakeObject
    <3>4. osize[o] <= osize'[o]
      BY <3>1, <3>2, <3>3
    <3>5. olast[o] <= olast'[o]
      BY <2>1, <3>1, <3>2, <3>3
    <3>6. QED
      BY <3>4, <3>5, Zenon
  <2>4. ASSUME NEW s \in Specs, home[s] = mod
        PROVE  /\ obj[s] \in 1 .. nobj /\ omem[obj[s]] = Mem(s)
               /\ Allocated(s) <= osize'[obj[s]] /\ last[s] <= olast'[obj[s]]
    <3>1. Held(s)
      BY <1>2, <2>2, <2>4, Zenon DEF IInv, ObjInv, TakeObject
    <3>2. /\ obj[s] \in 1 .. MaxNodes /\ osize[obj[s]] \in Nat /\ olast[obj[s]] \in Nat
          /\ Allocated(s) \in Nat
      BY <3>1, ObjectFacts, PlanFacts, Zenon DEF IInv
    <3>3. osize'[obj[s]] \in Nat /\ olast'[obj[s]] \in Nat
      BY <3>2, TypeNext, SMTT(60) DEF TypeOK
    <3>4. last[s] \in Nat
      BY Zenon DEF IInv, TypeOK
    <3>5. QED
      BY <2>3, <3>1, <3>2, <3>3, <3>4
  <2>5. \A s, t \in Specs : s # t /\ home[s] = mod /\ home[t] = mod /\ obj[s] = obj[t]
                              => Apart(s, t)
    BY <1>2, <2>2, Zenon DEF IInv, ObjInv, TakeObject
  <2>6. QED
    BY <2>2, <2>4, <2>5, SameModule, Zenon DEF ObjInv
<1>3. ASSUME UNCHANGED <<plan, mod, first, last>>, spec \in Specs, home[spec] = 0,
             pc = "scan", nobj' >= nobj,
             home' = [home EXCEPT ![spec] = mod],
             \A s \in Specs : s # spec => obj'[s] = obj[s],
             \A o \in 1 .. nobj : /\ omem'[o] = omem[o] /\ osize'[o] = osize[o]
                                   /\ olast'[o] = olast[o],
             obj'[spec] \in 1 .. nobj', omem'[obj'[spec]] = Mem(spec),
             Allocated(spec) <= osize'[obj'[spec]], last[spec] <= olast'[obj'[spec]],
             \A s \in Specs : home[s] = mod /\ obj[s] = obj'[spec] => last[s] < first[spec]
      PROVE  ObjInv'
  <2>1. \A s \in Specs : s # spec => home'[s] = home[s]
    BY <1>3, Zenon DEF IInv, TypeOK
  <2>2. nobj \in Nat /\ nobj' \in Nat
    BY TypeNext, SMTT(60) DEF IInv, TypeOK
  <2>3. ASSUME NEW s \in Specs, home'[s] = mod
        PROVE  /\ obj'[s] \in 1 .. nobj' /\ omem'[obj'[s]] = Mem(s)
               /\ Allocated(s) <= osize'[obj'[s]] /\ last[s] <= olast'[obj'[s]]
    <3>1. CASE s = spec
      BY <1>3, <3>1, Zenon
    <3>2. CASE s # spec
      <4>1. Held(s)
        BY <1>3, <2>1, <2>3, <3>2, Zenon DEF IInv, ObjInv
      <4>2. obj'[s] = obj[s] /\ obj[s] \in 1 .. nobj'
        BY <1>3, <2>2, <3>2, <4>1
      <4>3. QED
        BY <1>3, <4>1, <4>2, Zenon
    <3>3. QED
      BY <3>1, <3>2, Zenon
  <2>4. ASSUME NEW s \in Specs, NEW t \in Specs, s # t, home'[s] = mod, home'[t] = mod,
               obj'[s] = obj'[t]
        PROVE  Apart(s, t)
    <3>1. CASE s # spec /\ t # spec
      BY <1>3, <2>1, <2>4, <3>1, Zenon DEF IInv, ObjInv
    <3>2. CASE s = spec
      BY <1>3, <2>1, <2>4, <3>2, Zenon
    <3>3. CASE t = spec
      BY <1>3, <2>1, <2>4, <3>3, Zenon
    <3>4. QED
      BY <3>1, <3>2, <3>3, Zenon
  <2>5. QED
    BY <1>3, <2>3, <2>4, SameModule DEF ObjInv
<1>4. ASSUME ScanDone
      PROVE  /\ spec \in Specs /\ home[spec] = 0 /\ UNCHANGED <<plan, mod, first, last>>
             /\ pc = "scan" /\ home' = [home EXCEPT ![spec] = mod]
             /\ last[spec] \in Nat /\ Allocated(spec) \in Nat
             /\ nobj \in Nat /\ nobj < MaxNodes
             /\ plan.algo = "greedy"
  <2>1. /\ pc = "scan" /\ UNCHANGED <<plan, mod, first, last>>
        /\ home' = [home EXCEPT ![spec] = mod]
    BY <1>4, Zenon DEF ScanDone
  <2>2. /\ idx \in 1 .. NNodes /\ home[spec] = 0 /\ plan.algo = "greedy"
    <3>1. idx <= NNodes /\ home[spec] = 0 /\ plan.algo = "greedy"
      BY <2>1, Zenon DEF IInv, ScanInv
    <3> QED BY <3>1, ObjectFacts, PlanFacts DEF IInv
  <2>3. spec \in Specs /\ Allocated(spec) \in Nat
    BY <2>2, PlanFacts, Zenon DEF IInv, spec
  <2>4. last[spec] \in Nat
    BY <2>3, Zenon DEF IInv, TypeOK
  <2>5. nobj \in Nat /\ nobj < MaxNodes
    BY <2>1, <2>2, PlanFacts, SMTT(60) DEF IInv, TypeOK, CountInv
  <2>6. QED
    BY <2>1, <2>2, <2>3, <2>4, <2>5, Zenon
<1>5. CASE ShareObject
  <2>1. UNCHANGED <<nobj, omem, osize, olast>> /\ picked # 0 /\ ScanDone
    BY <1>5, Zenon DEF ShareObject, objects
  <2>2. obj'[spec] = picked /\ \A s \in Specs : s # spec => obj'[s] = obj[s]
    BY <1>4, <1>5, <2>1, Zenon DEF IInv, TypeOK, ShareObject
  <2>3. picked \in 1 .. nobj
    BY <1>4, <2>1 DEF IInv, TypeOK, ScanInv
  <2>4. /\ omem[picked] = Mem(spec)
        /\ Allocated(spec) <= osize[picked] /\ last[spec] <= olast[picked]
        /\ \A s \in Specs : home[s] = mod /\ obj[s] = picked => last[s] < first[spec]
    BY <1>4, <2>1, Zenon DEF IInv, ScanInv
  <2>5. nobj' >= nobj
    BY <1>4, <2>1
  <2>6. QED
    BY <1>3, <1>4, <2>1, <2>2, <2>3, <2>4, <2>5, Zenon
<1>6. CASE NewObject
  <2>1. ScanDone
    BY <1>6, Zenon DEF NewObject
  <2>2. nobj + 1 \in 1 .. MaxNodes /\ nobj' = nobj + 1 /\ nobj' >= nobj /\ nobj + 1 \in 1 .. nobj'
    <3>1. nobj' = nobj + 1 /\ nobj \in Nat /\ nobj < MaxNodes /\ MaxNodes \in Nat
      BY <1>4, <1>6, <2>1, PlanFacts, Zenon DEF IInv, NewObject
    <3> QED BY <3>1
  <2>3. obj'[spec] = nobj + 1 /\ \A s \in Specs : s # spec => obj'[s] = obj[s]
    BY <1>4, <1>6, <2>1, Zenon DEF IInv, TypeOK, NewObject
  <2>4. \A o \in 1 .. nobj : omem'[o] = omem[o] /\ osize'[o] = osize[o] /\ olast'[o] = olast[o]
    <3>1. \A o \in 1 .. nobj : o \in 1 .. MaxNodes /\ o # nobj + 1
      BY ObjectFacts DEF IInv
    <3>2. QED
      BY <1>6, <3>1, Zenon DEF IInv, TypeOK, NewObject
  <2>5. /\ omem'[nobj + 1] = Mem(spec) /\ osize'[nobj + 1] = Allocated(spec)
        /\ olast'[nobj + 1] = last[spec]
    BY <1>6, <2>2, Zenon DEF IInv, TypeOK, NewObject
  <2>6. \A s \in Specs : home[s] = mod => obj[s] # nobj + 1
    <3>1. \A s \in Specs : home[s] = mod => obj[s] \in 1 .. nobj
      BY <1>4, <2>1, Zenon DEF IInv, ObjInv
    <3>2. QED
      BY <1>4, <2>1, <3>1
  <2>7. Allocated(spec) <= osize'[obj'[spec]] /\ last[spec] <= olast'[obj'[spec]]
    BY <1>4, <2>1, <2>3, <2>5
  <2>8. QED
    BY <1>3, <1>4, <2>1, <2>2, <2>3, <2>4, <2>5, <2>6, <2>7, Zenon
<1>7. CASE IgnoreNode \/ BeginScan \/ PassObject \/ BeginMaterialize \/ MaterializeObject
  <2>1. /\ UNCHANGED <<plan, mod, home, obj, nobj, omem, osize, olast, first, last>>
        /\ pc \in {"plan", "scan", "materialize"}
    BY <1>7, Zenon DEF IgnoreNode, BeginScan, PassObject, BeginMaterialize, MaterializeObject, Yield,
                objects
  <2>2. QED
    BY <2>1, SameModule, SMTT(60) DEF IInv, ObjInv
<1>8. ~UpdateLifetime /\ ~AllocateBuf /\ ~NaiveDone /\ ~GreedyDone /\ ~NextModule /\ ~Done
  BY Zenon DEF UpdateLifetime, AllocateBuf, NaiveDone, GreedyDone, NextModule, Done
<1>9. QED
  BY <1>1, <1>2, <1>5, <1>6, <1>7, <1>8, Zenon DEF Next

LEMMA ScanNext == ASSUME IInv, Next PROVE ScanInv'
<1> SUFFICES ASSUME pc' = "scan" PROVE ScanInv'
  BY SMTT(60) DEF ScanInv
<1>1. BeginScan \/ TakeObject \/ PassObject
  BY Zenon DEF Next, UpdateLifetime, LifetimesDone, IgnoreNode, AllocateBuf, NaiveDone, ShareObject,
         NewObject, ScanDone, BeginMaterialize, MaterializeObject, GreedyDone, NextModule,
         Done, Yield
<1>2. UNCHANGED <<plan, mod, idx, home, first, last, obj, nobj, omem>>
  BY <1>1, Zenon DEF BeginScan, TakeObject, PassObject, objects
<1>3. NNodes' = NNodes /\ spec' = spec
  BY <1>2, SameModule, Zenon DEF spec
<1>4. CASE BeginScan
  <2>1. Yield /\ plan.algo = "greedy" /\ k' = 1 /\ picked' = 0
    BY <1>4, Zenon DEF BeginScan
  <2>2. spec \in Specs /\ home[spec] = 0 /\ idx \in 1 .. NNodes
    BY <2>1, SpecFresh, Zenon DEF IInv
  <2>3. spec \in Refs(Node(idx))
    BY <2>1, Zenon DEF Yield, Ignored, spec, Refs
  <2>4. first[spec] <= idx /\ idx <= last[spec]
    BY <2>1, <2>2, <2>3, Zenon DEF IInv, LifeInv, Yield
  <2>5. first[spec] <= last[spec]
    BY <2>2, <2>4, ObjectFacts DEF IInv, TypeOK
  <2>6. idx <= NNodes /\ k' <= nobj + 1 /\ picked' < k'
    BY <2>1, ObjectFacts, SMTT(60) DEF IInv, Yield
  <2>7. QED
    BY <1>2, <1>3, <2>1, <2>2, <2>5, <2>6, Zenon DEF ScanInv
<1>5. CASE TakeObject
  <2>1. pc = "scan" /\ k <= nobj /\ Better /\ picked' = k /\ k' = k + 1
    BY <1>5, Zenon DEF TakeObject
  <2>2. /\ spec \in Specs /\ k \in 1 .. nobj /\ k \in 1 .. MaxNodes /\ omem[k] = Mem(spec)
        /\ \A s \in Specs : home[s] = mod /\ obj[s] = k => last[s] < first[spec]
    BY <2>1, BetterFacts, Zenon
  <2>3. osize[k] \in Nat /\ Allocated(spec) \in Nat /\ last[spec] \in Nat
    BY <2>2, PlanFacts, ObjectFacts, ZenonT(60) DEF IInv, TypeOK
  <2>4. /\ osize'[k] = IF osize[k] < Allocated(spec) THEN Allocated(spec) ELSE osize[k]
        /\ olast'[k] = last[spec]
    BY <1>5, <2>2, Zenon DEF IInv, TypeOK, TakeObject
  <2>5. Allocated(spec) <= osize'[k] /\ last[spec] <= olast'[k]
    <3>1. last[spec] <= olast'[k]
      BY <2>3, <2>4, SMTT(60)
    <3>2. CASE osize[k] < Allocated(spec)
      BY <2>3, <2>4, <3>1, <3>2
    <3>3. CASE ~(osize[k] < Allocated(spec))
      BY <2>3, <2>4, <3>1, <3>3
    <3>4. QED
      BY <3>2, <3>3, Zenon
  <2>6. Mem(spec)' = Mem(spec) /\ Allocated(spec)' = Allocated(spec)
    BY <1>2, <1>3, Zenon DEF Mem, Allocated
  <2>7. k' <= nobj + 1 /\ picked' < k'
    BY <2>1, ObjectFacts DEF IInv
  <2>8. plan.algo = "greedy" /\ idx <= NNodes /\ home[spec] = 0 /\ first[spec] <= last[spec]
    BY <2>1, SMTT(60) DEF IInv, ScanInv
  <2>9. QED
    BY <1>2, <1>3, <2>1, <2>2, <2>5, <2>6, <2>7, <2>8, Zenon DEF ScanInv
<1>6. CASE PassObject
  <2>1. pc = "scan" /\ k <= nobj /\ k' = k + 1 /\ UNCHANGED <<picked, osize, olast>>
    BY <1>6, Zenon DEF PassObject, objects
  <2>2. k' <= nobj + 1 /\ picked < k'
    BY <2>1, ObjectFacts DEF IInv, ScanInv
  <2>3. Mem(spec)' = Mem(spec) /\ Allocated(spec)' = Allocated(spec)
    BY <1>2, <1>3, Zenon DEF Mem, Allocated
  <2>4. QED
    BY <1>2, <1>3, <2>1, <2>2, <2>3, Zenon DEF IInv, ScanInv
<1>7. QED
  BY <1>1, <1>4, <1>5, <1>6, SMTT(60)

LEMMA MatNext == ASSUME IInv, Next PROVE MatInv'
<1> SUFFICES ASSUME pc' = "materialize" PROVE MatInv'
  BY SMTT(60) DEF MatInv
<1>1. BeginMaterialize \/ MaterializeObject
  BY ZenonT(60) DEF Next, UpdateLifetime, LifetimesDone, IgnoreNode, AllocateBuf, NaiveDone, BeginScan,
         TakeObject, PassObject, ShareObject, NewObject, ScanDone, GreedyDone, NextModule,
         Done, Yield
<1>2. CASE BeginMaterialize
  <2>1. plan'.algo = "greedy" /\ nobj' = nobj /\ k' = 1
    BY <1>2, Zenon DEF BeginMaterialize, objects
  <2>2. k' <= nobj + 1 /\ \A o \in 1 .. nobj : ~(o < k')
    BY <2>1, ObjectFacts DEF IInv
  <2>3. QED
    BY <2>1, <2>2, Zenon DEF MatInv
<1>3. CASE MaterializeObject
  <2>1. /\ pc = "materialize" /\ k <= nobj /\ k' = k + 1
        /\ UNCHANGED <<plan, nobj, omem, osize>>
    BY <1>3, Zenon DEF MaterializeObject
  <2>2. k \in 1 .. nobj /\ k \in 1 .. MaxNodes /\ nobj \in Nat
    BY <2>1, ObjectFacts DEF IInv
  <2>3. /\ omem[k] \in MemIds /\ osize[k] \in Nat /\ total[omem[k]] \in Nat
    BY <2>2, ObjectFacts, Zenon DEF IInv
  <2>4. ooff'[k] = total[omem[k]] /\ total'[omem[k]] = total[omem[k]] + osize[k]
    BY <1>3, <2>2, <2>3, SMTT(60) DEF IInv, TypeOK, MaterializeObject
  <2>5. ASSUME NEW o \in 1 .. nobj, o < k
        PROVE  /\ ooff'[o] = ooff[o] /\ ooff[o] \in Nat /\ ooff[o] # None
               /\ ooff[o] + osize[o] <= total[omem[o]]
               /\ ooff[o] + osize[o] <= total'[omem[o]]
    <3>1. /\ o \in 1 .. MaxNodes /\ omem[o] \in MemIds /\ osize[o] \in Nat
          /\ ooff[o] \in Nat \cup {None} /\ total[omem[o]] \in Nat
      BY ObjectFacts, Zenon DEF IInv
    <3>2. ooff[o] # None /\ ooff[o] + osize[o] <= total[omem[o]]
      BY <2>1, <2>5, Zenon DEF IInv, MatInv
    <3>3. ooff'[o] = ooff[o]
      BY <1>3, <2>2, <2>5, <3>1 DEF IInv, TypeOK, MaterializeObject
    <3>4. total'[omem[o]] = IF omem[o] = omem[k] THEN total[omem[k]] + osize[k]
                            ELSE total[omem[o]]
      BY <1>3, <3>1, Zenon DEF IInv, TypeOK, MaterializeObject
    <3>5. QED
      BY <2>3, <3>1, <3>2, <3>3, <3>4, SMTT(60)
  <2>6. ASSUME NEW o \in 1 .. nobj, o < k'
        PROVE  ooff'[o] # None /\ ooff'[o] + osize[o] <= total'[omem[o]]
    <3>1. o < k \/ o = k
      BY <2>1, <2>2, <2>6
    <3>2. QED
      BY <2>3, <2>4, <2>5, <3>1 DEF None
  <2>7. ASSUME NEW o \in 1 .. nobj, NEW p \in 1 .. nobj, o < p, p < k', omem[o] = omem[p]
        PROVE  ooff'[o] + osize[o] <= ooff'[p]
    <3>1. o < k /\ (p < k \/ p = k)
      BY <2>1, <2>2, <2>7
    <3>2. CASE p < k
      BY <2>1, <2>5, <2>7, <3>1, <3>2, Zenon DEF IInv, MatInv
    <3>3. CASE p = k
      BY <2>4, <2>5, <2>7, <3>1, <3>3, Zenon
    <3>4. QED
      BY <3>1, <3>2, <3>3, Zenon
  <2>8. plan.algo = "greedy" /\ k' <= nobj + 1
    BY <2>1, <2>2 DEF IInv, MatInv
  <2>9. QED
    BY <2>1, <2>6, <2>7, <2>8, Zenon DEF MatInv
<1>4. QED
  BY <1>1, <1>2, <1>3, Zenon

-----------------------------------------------------------------------------
(* What the invariant gives, and the theorems.                             *)

\* When all objects are placed, tensors of the module that share storage share an
\* object, and so have disjoint lifetimes.
LEMMA GreedyShares ==
  ASSUME IInv, GreedyDone, NEW s \in Specs, NEW t \in Specs, s # t,
         home[s] = mod, home[t] = mod, StorageOverlap(s, t)'
  PROVE  Before(s, t, mod) \/ Before(t, s, mod)
<1>1. UNCHANGED plan /\ pc = "materialize" /\ k > nobj
  BY Zenon DEF GreedyDone
<1>2. offset'[s] = ooff[obj[s]] /\ offset'[t] = ooff[obj[t]]
  BY Zenon DEF GreedyDone
<1>3. ASSUME NEW x \in {s, t}
      PROVE  /\ obj[x] \in 1 .. nobj /\ omem[obj[x]] = Mem(x) /\ obj[x] < k
             /\ Allocated(x) <= osize[obj[x]] /\ ooff[obj[x]] \in Nat
             /\ osize[obj[x]] \in Nat /\ Allocated(x) \in Nat
  <2>1. obj[x] \in 1 .. nobj /\ omem[obj[x]] = Mem(x) /\ Allocated(x) <= osize[obj[x]]
    BY <1>1, Zenon DEF IInv, ObjInv, MatInv
  <2>2. obj[x] < k
    BY <1>1, <2>1, ObjectFacts DEF IInv
  <2>3. ooff[obj[x]] # None
    BY <1>1, <2>1, <2>2, Zenon DEF IInv, MatInv
  <2>4. ooff[obj[x]] \in Nat \cup {None} /\ osize[obj[x]] \in Nat /\ Allocated(x) \in Nat
    BY <2>1, ObjectFacts, PlanFacts, Zenon DEF IInv
  <2>5. QED
    BY <2>1, <2>2, <2>3, <2>4, Zenon
<1>4. /\ Mem(s) = Mem(t)
      /\ offset'[s] < offset'[t] + Allocated(t) /\ offset'[t] < offset'[s] + Allocated(s)
  BY <1>1, SamePlan, Zenon DEF StorageOverlap
<1>5. obj[s] = obj[t]
  <2>1. ASSUME NEW x \in {s, t}, NEW y \in {s, t}, x # y, obj[x] < obj[y] PROVE FALSE
    <3>1. Mem(x) = Mem(y)
      BY <1>4, <2>1, Zenon
    <3>2. ooff[obj[x]] + osize[obj[x]] <= ooff[obj[y]]
      BY <1>1, <1>3, <2>1, <3>1, Zenon DEF IInv, MatInv
    <3>3. ooff[obj[y]] < ooff[obj[x]] + Allocated(x)
      BY <1>2, <1>4, <2>1
    <3>4. /\ ooff[obj[x]] \in Nat /\ ooff[obj[y]] \in Nat /\ osize[obj[x]] \in Nat
          /\ Allocated(x) \in Nat /\ Allocated(x) <= osize[obj[x]]
      BY <1>3, Zenon
    <3>5. QED
      BY <3>2, <3>3, <3>4
  <2>2. obj[s] \in Nat /\ obj[t] \in Nat
    BY <1>3, ObjectFacts DEF IInv
  <2>3. QED
    BY <2>1, <2>2
<1>6. last[s] < first[t] \/ last[t] < first[s]
  BY <1>1, <1>5, Zenon DEF IInv, ObjInv, MatInv
<1>7. ASSUME NEW x \in Specs, NEW y \in Specs, last[x] < first[y] PROVE Before(x, y, mod)
  <2>1. SUFFICES ASSUME NEW i \in 1 .. NNodes, NEW j \in 1 .. NNodes,
                        x \in Refs(Node(i)), y \in Refs(Node(j))
                 PROVE  i < j
    BY PlanFacts, SMTT(60) DEF IInv, Before, Node, Module
  <2>2. i <= last[x] /\ first[y] <= j
    BY <1>1, <2>1, Zenon DEF IInv, LifeInv
  <2>3. i \in Nat /\ j \in Nat /\ last[x] \in Nat /\ first[y] \in Nat
    BY PlanFacts DEF IInv, TypeOK
  <2>4. QED
    BY <1>7, <2>2, <2>3
<1>8. QED
  BY <1>6, <1>7, Zenon

LEMMA SharingNext == ASSUME IInv, Next PROVE SharingSound'
<1>1. ASSUME UNCHANGED <<plan, offset>>,
             \A s \in Specs : home'[s] = home[s] \/ offset[s] = None
      PROVE  SharingSound'
  <2>1. \A s, t : StorageOverlap(s, t)' <=> StorageOverlap(s, t)
    BY <1>1, Zenon DEF StorageOverlap, Mem, Allocated
  <2>2. \A s, t, m : Before(s, t, m)' <=> Before(s, t, m)
    BY <1>1, Zenon DEF Before
  <2>3. SUFFICES ASSUME NEW s \in Specs, NEW t \in Specs, s # t, home'[s] # 0,
                        home'[s] = home'[t], offset[s] # None, offset[t] # None,
                        StorageOverlap(s, t)
                 PROVE  Before(s, t, home'[s]) \/ Before(t, s, home'[s])
    BY <1>1, <2>1, <2>2, Zenon DEF SharingSound
  <2>4. home'[s] = home[s] /\ home'[t] = home[t]
    BY <1>1, <2>3, Zenon
  <2>5. QED
    BY <2>3, <2>4, Zenon DEF IInv, SharingSound
<1>2. CASE Quiet
  BY <1>1, <1>2, QuietSteps, Zenon
<1>3. CASE NextModule
  BY <1>1, <1>3, Zenon DEF NextModule
<1>4. CASE ShareObject \/ NewObject
  <2>1. spec \in Specs /\ home[spec] = 0
    <3>1. idx <= NNodes /\ home[spec] = 0
      BY <1>4, Zenon DEF IInv, ScanInv, ShareObject, NewObject, ScanDone
    <3>2. idx \in 1 .. NNodes
      BY <3>1, PlanFacts, ObjectFacts DEF IInv
    <3>3. QED
      BY <3>1, <3>2, PlanFacts, Zenon DEF IInv, spec
  <2>2. offset[spec] = None
    BY <2>1, Zenon DEF IInv, HomeInv
  <2>3. \A s \in Specs : s # spec => home'[s] = home[s]
    BY <1>4, Zenon DEF IInv, TypeOK, ShareObject, NewObject, ScanDone
  <2>4. UNCHANGED <<plan, offset>>
    BY <1>4, Zenon DEF ShareObject, NewObject, ScanDone
  <2>5. QED
    BY <1>1, <2>2, <2>3, <2>4, Zenon
<1>5. CASE AllocateBuf
  <2>1. UNCHANGED plan /\ plan.algo = "naive"
    BY <1>5, Zenon DEF AllocateBuf
  <2>2. ASSUME NEW s \in Specs, NEW t \in Specs, s # t, home'[s] # 0, home'[s] = home'[t]
        PROVE  ~StorageOverlap(s, t)'
    <3>1. /\ offset'[s] # None /\ offset'[t] # None
          /\ Mem(s) = Mem(t) => \/ offset'[s] + Allocated(s) <= offset'[t]
                                \/ offset'[t] + Allocated(t) <= offset'[s]
      BY <2>1, <2>2, NaiveNext, SamePlan, Zenon DEF NaiveInv
    <3>2. offset'[s] \in Nat /\ offset'[t] \in Nat /\ Allocated(s) \in Nat /\ Allocated(t) \in Nat
      BY <3>1, TypeNext, PlanFacts, Zenon DEF IInv, TypeOK
    <3>3. QED
      BY <2>1, <3>1, <3>2, SamePlan DEF StorageOverlap
  <2>3. QED
    BY <2>2, Zenon DEF SharingSound
<1>6. CASE GreedyDone
  <2>1. UNCHANGED <<plan, home, mod>>
    BY <1>6, Zenon DEF GreedyDone
  <2>2. \A s, t, m : Before(s, t, m)' <=> Before(s, t, m)
    BY <2>1, Zenon DEF Before
  <2>3. SUFFICES ASSUME NEW s \in Specs, NEW t \in Specs, s # t, home[s] # 0,
                        home[s] = home[t], offset'[s] # None, offset'[t] # None,
                        StorageOverlap(s, t)'
                 PROVE  Before(s, t, home[s]) \/ Before(t, s, home[s])
    BY <2>1, <2>2, Zenon DEF SharingSound
  <2>4. CASE home[s] = mod
    BY <1>6, <2>3, <2>4, GreedyShares, Zenon
  <2>5. CASE home[s] # mod
    <3>1. offset'[s] = offset[s] /\ offset'[t] = offset[t]
      BY <1>6, <2>3, <2>5, Zenon DEF GreedyDone
    <3>2. StorageOverlap(s, t)
      BY <2>1, <2>3, <3>1, Zenon DEF StorageOverlap, Mem, Allocated
    <3>3. QED
      BY <2>3, <3>1, <3>2, Zenon DEF IInv, SharingSound
  <2>6. QED
    BY <2>4, <2>5, Zenon
<1>7. QED
  BY <1>2, <1>3, <1>4, <1>5, <1>6, NextCases, Zenon

LEMMA FitsNext == ASSUME IInv, Next PROVE FitsBuffer'
<1> SUFFICES ASSUME pc' = "next", NEW s \in Specs, home'[s] = mod'
             PROVE  offset'[s] # None /\ offset'[s] + Allocated(s)' <= bufsizes'[Mem(s)']
  BY SMTT(60) DEF FitsBuffer
<1>1. NaiveDone \/ GreedyDone
  BY ZenonT(60) DEF Next, UpdateLifetime, LifetimesDone, IgnoreNode, AllocateBuf, BeginScan, TakeObject,
         PassObject, ShareObject, NewObject, ScanDone, BeginMaterialize, MaterializeObject,
         NextModule, Done, Yield
<1>2. UNCHANGED <<plan, mod, home>>
  BY <1>1, Zenon DEF NaiveDone, GreedyDone
<1>3. Allocated(s)' = Allocated(s) /\ Mem(s)' = Mem(s) /\ home[s] = mod /\ home[s] # 0
  BY <1>2, SamePlan DEF IInv, TypeOK
<1>4. CASE NaiveDone
  BY <1>3, <1>4, Zenon DEF IInv, NaiveInv, NaiveDone
<1>5. CASE GreedyDone
  <2>1. pc = "materialize" /\ k > nobj /\ bufsizes' = total /\ offset'[s] = ooff[obj[s]]
    BY <1>3, <1>5, Zenon DEF GreedyDone
  <2>2. obj[s] \in 1 .. nobj /\ omem[obj[s]] = Mem(s) /\ Allocated(s) <= osize[obj[s]]
    BY <1>3, <2>1, Zenon DEF IInv, ObjInv, MatInv
  <2>3. obj[s] < k
    BY <2>1, <2>2, ObjectFacts DEF IInv
  <2>4. ooff[obj[s]] # None /\ ooff[obj[s]] + osize[obj[s]] <= total[Mem(s)]
    BY <2>1, <2>2, <2>3, Zenon DEF IInv, MatInv
  <2>5. /\ ooff[obj[s]] \in Nat /\ osize[obj[s]] \in Nat /\ total[Mem(s)] \in Nat
        /\ Allocated(s) \in Nat
    BY <2>2, <2>4, ObjectFacts, PlanFacts, ZenonT(60) DEF IInv
  <2>6. QED
    BY <1>3, <2>1, <2>2, <2>4, <2>5
<1>6. QED
  BY <1>1, <1>4, <1>5, Zenon

-----------------------------------------------------------------------------
(* The theorems *)

LEMMA IInvInit == ASSUME Init PROVE IInv
<1>1. plan.modules \in Seq(ModuleType) /\ plan.modules # <<>> /\ plan.algo \in {"greedy", "naive"}
  BY PlanningAssumption, Zenon DEF Init, PlanType
<1>2. mod \in 1 .. Len(plan.modules)
  BY <1>1 DEF Init
<1>3. MaxNodes \in Nat /\ (CHOOSE m \in MemIds : TRUE) \in MemIds
  BY PlanningAssumption, Zenon
<1>4. TypeOK
  <2>1. idx \in 1 .. MaxNodes + 1 /\ k \in 1 .. MaxNodes + 1 /\ nobj \in 0 .. MaxNodes
        /\ picked \in 0 .. MaxNodes
    BY <1>3 DEF Init
  <2>2. first \in [Specs -> Nat] /\ last \in [Specs -> Nat] /\ home \in [Specs -> Nat]
    BY Zenon DEF Init
  <2>3. obj \in [Specs -> 0 .. MaxNodes] /\ offset \in [Specs -> Nat \cup {None}]
    BY <1>3 DEF Init
  <2>4. /\ omem \in [1 .. MaxNodes -> MemIds] /\ osize \in [1 .. MaxNodes -> Nat]
        /\ olast \in [1 .. MaxNodes -> Nat] /\ ooff \in [1 .. MaxNodes -> Nat \cup {None}]
    BY <1>3, Zenon DEF Init
  <2>5. total \in [MemIds -> Nat] /\ bufsizes \in [MemIds -> Nat]
    BY Zenon DEF Init
  <2>6. QED
    BY <1>2, <2>1, <2>2, <2>3, <2>4, <2>5, Zenon DEF Init, TypeOK
<1>5. LifeInv
  BY DEF Init, LifeInv
<1>6. \A s \in Specs : home[s] = 0 /\ offset[s] = None
  BY Zenon DEF Init
<1>7. HomeInv
  BY <1>2, <1>6 DEF Init, HomeInv
<1>8. ObjInv /\ CountInv /\ ScanInv /\ MatInv
  BY Zenon DEF Init, ObjInv, CountInv, ScanInv, MatInv
<1>9. NaiveInv /\ SharingSound /\ FitsBuffer
  BY <1>6, Zenon DEF Init, NaiveInv, SharingSound, FitsBuffer
<1>10. QED
  BY <1>4, <1>5, <1>7, <1>8, <1>9, Zenon DEF IInv

LEMMA IInvNext == ASSUME IInv, [Next]_vars PROVE IInv'
<1>1. CASE Next
  BY <1>1, TypeNext, LifeNext, HomeNext, ObjNext, CountNext, ScanNext, MatNext, NaiveNext,
     SharingNext, FitsNext, Zenon DEF IInv
<1>2. CASE UNCHANGED vars
  <2>1. UNCHANGED <<plan, mod, pc, idx, first, last, home, obj, nobj, omem, osize, olast, ooff,
                    k, picked, total, offset, bufsizes>>
    BY <1>2, SMTT(60) DEF vars, objects
  <2>2. TypeOK' /\ HomeInv' /\ CountInv'
    BY <2>1, ZenonT(60) DEF IInv, TypeOK, HomeInv, CountInv
  <2>3. LifeInv' /\ ObjInv' /\ MatInv' /\ NaiveInv' /\ FitsBuffer'
    BY <2>1, SameModule, ZenonT(60) DEF IInv, LifeInv, ObjInv, MatInv, NaiveInv, FitsBuffer
  <2>4. ScanInv'
    BY <2>1, ZenonT(60) DEF IInv, ScanInv, spec, Node, Module, NNodes, Mem, Allocated
  <2>5. SharingSound'
    <3>1. ASSUME NEW s \in Specs, NEW t \in Specs
          PROVE  /\ StorageOverlap(s, t)' <=> StorageOverlap(s, t)
                 /\ Before(s, t, home[s])' <=> Before(s, t, home[s])
                 /\ Before(t, s, home[s])' <=> Before(t, s, home[s])
      BY <2>1, Zenon DEF StorageOverlap, Before, Mem, Allocated
    <3>2. SharingSound
      BY Zenon DEF IInv
    <3>3. QED
      BY <2>1, <3>1, <3>2, Zenon DEF SharingSound
  <2>6. QED
    BY <2>2, <2>3, <2>4, <2>5, Zenon DEF IInv
<1>3. QED
  BY <1>1, <1>2, Zenon

\* The inductive invariant holds in every state of memory planning.
THEOREM Invariance == Spec => []IInv
<1>1. Init => IInv
  BY IInvInit, Zenon
<1>2. IInv /\ [Next]_vars => IInv'
  BY IInvNext, Zenon
<1>3. QED
  BY <1>1, <1>2, PTL DEF Spec

\* Type correctness: no object, spec or module index of apply_algo() leaves its range.
THEOREM TypeCorrect == Spec => []TypeOK
<1>1. IInv => TypeOK
  BY Zenon DEF IInv
<1>2. QED
  BY <1>1, Invariance, PTL

\* Tensors that pick_shared_obj() lets share storage are not in use at the same time.
THEOREM SharingIsSound == Spec => []SharingSound
<1>1. IInv => SharingSound
  BY Zenon DEF IInv
<1>2. QED
  BY <1>1, Invariance, PTL

\* The buffer sizes that greedy() and naive() return cover every tensor of the module.
THEOREM TensorsFit == Spec => []FitsBuffer
<1>1. IInv => FitsBuffer
  BY Zenon DEF IInv
<1>2. QED
  BY <1>1, Invariance, PTL

-----------------------------------------------------------------------------
(* Modules.  greedy() puts the objects of a module behind the buffers of   *)
(* the modules before it, in the memories that it has objects in; the size *)
(* of any other memory is lost.                                            *)

\* What collect_specs_from_nodes() leaves out of a module, of whatever was planned
\* before.
Left(p, m, nd) ==
  \/ nd.kind \in {"get_attr", "out_variant", "inplace"}
  \/ nd.spec \in p.unplanned
  \/ ~m.alloc_input /\ \E j \in DOMAIN m.nodes : m.nodes[j].kind = "placeholder" /\ m.nodes[j].spec = nd.spec
  \/ ~m.alloc_output /\ \E j \in DOMAIN m.nodes : m.nodes[j].kind = "output" /\ m.nodes[j].spec = nd.spec

Planned(p, m) == {m.nodes[i].spec : i \in {j \in DOMAIN m.nodes : ~Left(p, m, m.nodes[j])}}

\* Every module plans a tensor in each memory that the modules before it use.
ReusesMemories(p) ==
  \A m, n \in DOMAIN p.modules : m < n =>
    \A s \in Planned(p, p.modules[m]) :
      \E t \in Planned(p, p.modules[n]) : p.mem_id[t] = p.mem_id[s]

\* A spec is planned where it is not left out, and all of those are, in turn.
YieldInv ==
  /\ \A s \in Specs : home[s] # 0 => s \in Planned(plan, plan.modules[home[s]])
  /\ \A i \in 1 .. NNodes :
       ~Left(plan, Module, Node(i)) /\ pc # "lifetime" /\ (pc \in {"plan", "scan"} => i < idx)
         => home[Node(i).spec] = mod
  /\ pc = "scan" => ~Left(plan, Module, Node(idx))

\* The modules that are finished lie one above the other, below the buffer sizes,
\* and the objects of the current one above those.
Placed(s) == home[s] # 0 /\ (home[s] = mod => pc \in {"next", "done"})
StackInv ==
  plan.algo = "greedy" /\ ReusesMemories(plan) =>
    /\ \A s \in Specs : Placed(s) =>
         /\ offset[s] # None /\ offset[s] + Allocated(s) <= bufsizes[Mem(s)]
         /\ \A t \in Specs : Placed(t) /\ home[s] < home[t] /\ Mem(s) = Mem(t)
                               => offset[s] + Allocated(s) <= offset[t]
    /\ pc = "materialize" =>
         \A s \in Specs : Placed(s) =>
           /\ bufsizes[Mem(s)] <= total[Mem(s)]
           /\ \A o \in 1 .. nobj : o < k /\ omem[o] = Mem(s) => bufsizes[Mem(s)] <= ooff[o]

LEMMA LeftFacts ==
  ASSUME TypeOK, NEW i \in 1 .. NNodes
  PROVE  /\ Ignored(Node(i)) <=> Left(plan, Module, Node(i)) \/ home[Node(i).spec] = mod
         /\ ~Left(plan, Module, Node(i)) => Node(i).spec \in Planned(plan, Module)
<1>1. DOMAIN Module.nodes = 1 .. NNodes
  BY PlanFacts, Zenon
<1>2. /\ Node(i).spec \in InputSpecs <=>
           \E j \in DOMAIN Module.nodes : Module.nodes[j].kind = "placeholder" /\ Module.nodes[j].spec = Node(i).spec
      /\ Node(i).spec \in OutputSpecs <=>
           \E j \in DOMAIN Module.nodes : Module.nodes[j].kind = "output" /\ Module.nodes[j].spec = Node(i).spec
  BY <1>1, Zenon DEF InputSpecs, OutputSpecs, Node
<1>3. Ignored(Node(i)) <=> Left(plan, Module, Node(i)) \/ home[Node(i).spec] = mod
  BY <1>2, Zenon DEF Ignored, Left
<1>4. QED
  BY <1>1, <1>3, Zenon DEF Planned, Node

LEMMA YieldNext == ASSUME IInv, YieldInv, Next PROVE YieldInv'
<1>t. TypeOK /\ HomeInv /\ ScanInv
  BY Zenon DEF IInv
<1>n. NNodes \in Nat /\ idx \in Nat /\ idx >= 1 /\ mod \in Nat /\ mod # 0
  BY <1>t, PlanFacts DEF TypeOK
<1>1. ASSUME UNCHANGED <<plan, mod, home>>, pc' # "scan",
             \A i \in 1 .. NNodes :
               ~Left(plan, Module, Node(i)) /\ pc' # "lifetime" /\ (pc' = "plan" => i < idx')
                 => home[Node(i).spec] = mod
      PROVE  YieldInv'
  <2>1. NNodes' = NNodes /\ Module' = Module /\ \A i : Node(i)' = Node(i)
    BY <1>1, SameModule, Zenon
  <2>2. \A i \in 1 .. NNodes' :
          ~Left(plan', Module', Node(i)') /\ pc' # "lifetime" /\ (pc' \in {"plan", "scan"} => i < idx')
            => home'[Node(i)'.spec] = mod'
    BY <1>1, <2>1, ZenonT(60)
  <2>3. \A s \in Specs : home'[s] # 0 => s \in Planned(plan', plan'.modules[home'[s]])
    BY <1>1, Zenon DEF YieldInv
  <2> QED BY <1>1, <2>2, <2>3, Zenon DEF YieldInv
<1>2. ASSUME UNCHANGED <<plan, mod>>, idx \in 1 .. NNodes, spec \in Specs, pc \in {"plan", "scan"},
             ~Left(plan, Module, Node(idx)), home' = [home EXCEPT ![spec] = mod],
             idx' = idx + 1, pc' = "plan"
      PROVE  YieldInv'
  <2>1. NNodes' = NNodes /\ Module' = Module /\ \A i : Node(i)' = Node(i)
    BY <1>2, SameModule, Zenon
  <2>2. home'[spec] = mod /\ \A s \in Specs : s # spec => home'[s] = home[s]
    BY <1>2, <1>t, Zenon DEF TypeOK
  <2>3. spec \in Planned(plan, plan.modules[mod])
    BY <1>2, <1>t, LeftFacts, Zenon DEF spec, Module
  <2>4. \A s \in Specs : home'[s] # 0 => s \in Planned(plan', plan'.modules[home'[s]])
    BY <1>2, <2>2, <2>3, Zenon DEF YieldInv
  <2>5. ASSUME NEW i \in 1 .. NNodes, ~Left(plan, Module, Node(i)), i < idx' PROVE home'[Node(i).spec] = mod
    <3>1. i < idx \/ i = idx
      BY <1>2, <1>n, <2>5
    <3>2. CASE i = idx
      BY <2>2, <3>2, Zenon DEF spec
    <3>3. CASE i < idx
      <4>1. home[Node(i).spec] = mod
        BY <1>2, <2>5, <3>3, Zenon DEF YieldInv
      <4>2. Node(i).spec \in Specs
        BY <1>t, <2>5, PlanFacts, Zenon
      <4> QED BY <2>2, <4>1, <4>2, Zenon
    <3> QED BY <3>1, <3>2, <3>3, Zenon
  <2> QED BY <1>2, <2>1, <2>4, <2>5, ZenonT(60) DEF YieldInv
<1>3. CASE UpdateLifetime
  BY <1>1, <1>3, Zenon DEF UpdateLifetime
<1>4. CASE LifetimesDone
  <2>1. UNCHANGED <<plan, mod, home>> /\ pc' = "plan" /\ idx' = 1
    BY <1>4, Zenon DEF LifetimesDone
  <2>2. \A i \in 1 .. NNodes : ~(i < idx')
    BY <1>n, <2>1
  <2> QED BY <1>1, <2>1, <2>2, Zenon
<1>5. CASE IgnoreNode
  <2>1. UNCHANGED <<plan, mod, home>> /\ pc = "plan" /\ pc' = "plan" /\ idx' = idx + 1 /\ idx <= NNodes /\ Ignored(Node(idx))
    BY <1>5, Zenon DEF IgnoreNode
  <2>2. idx \in 1 .. NNodes
    BY <1>n, <2>1
  <2>3. ASSUME NEW i \in 1 .. NNodes, ~Left(plan, Module, Node(i)), i < idx' PROVE home[Node(i).spec] = mod
    <3>1. i < idx \/ i = idx
      BY <1>n, <2>1, <2>3
    <3>2. CASE i = idx
      BY <1>t, <2>1, <2>2, <2>3, <3>2, LeftFacts, Zenon
    <3>3. CASE i < idx
      BY <2>1, <2>3, <3>3, Zenon DEF YieldInv
    <3> QED BY <3>1, <3>2, <3>3, Zenon
  <2> QED BY <1>1, <2>1, <2>3, Zenon
<1>6. CASE AllocateBuf
  <2>1. Yield /\ UNCHANGED <<plan, mod>> /\ home' = [home EXCEPT ![spec] = mod] /\ idx' = idx + 1 /\ pc' = pc
    BY <1>6, Zenon DEF AllocateBuf
  <2>2. spec \in Specs /\ idx \in 1 .. NNodes
    BY <1>t, <2>1, SpecFresh, Zenon
  <2>3. ~Left(plan, Module, Node(idx)) /\ pc = "plan"
    BY <1>t, <2>1, <2>2, LeftFacts, Zenon DEF Yield
  <2> QED BY <1>2, <2>1, <2>2, <2>3, Zenon
<1>7. CASE NaiveDone \/ BeginMaterialize
  <2>1. UNCHANGED <<plan, mod, home>> /\ pc = "plan" /\ pc' \in {"next", "materialize"} /\ idx > NNodes
    BY <1>7, Zenon DEF NaiveDone, BeginMaterialize
  <2>2. \A i \in 1 .. NNodes : i < idx
    BY <1>n, <2>1
  <2>3. \A i \in 1 .. NNodes : ~Left(plan, Module, Node(i)) => home[Node(i).spec] = mod
    BY <2>1, <2>2, Zenon DEF YieldInv
  <2> QED BY <1>1, <2>1, <2>3, Zenon
<1>8. CASE BeginScan \/ TakeObject \/ PassObject
  <2>1. UNCHANGED <<plan, mod, home, idx>> /\ pc \in {"plan", "scan"} /\ pc' = "scan"
    BY <1>8, Zenon DEF BeginScan, TakeObject, PassObject, Yield
  <2>2. NNodes' = NNodes /\ Module' = Module /\ \A i : Node(i)' = Node(i)
    BY <2>1, SameModule, Zenon
  <2>3. CASE pc = "scan"
    BY <2>1, <2>2, <2>3, ZenonT(60) DEF YieldInv
  <2>4. CASE pc = "plan"
    <3>1. Yield
      BY <1>8, <2>4, Zenon DEF BeginScan, TakeObject, PassObject
    <3>2. idx \in 1 .. NNodes
      BY <1>t, <3>1, SpecFresh, Zenon
    <3>3. ~Left(plan, Module, Node(idx))
      BY <1>t, <3>1, <3>2, LeftFacts, Zenon DEF Yield
    <3> QED BY <2>1, <2>2, <2>4, <3>3, ZenonT(60) DEF YieldInv
  <2> QED BY <2>1, <2>3, <2>4, Zenon
<1>9. CASE ShareObject \/ NewObject
  <2>1. pc = "scan" /\ UNCHANGED <<plan, mod>> /\ home' = [home EXCEPT ![spec] = mod] /\ idx' = idx + 1 /\ pc' = "plan"
    BY <1>9, Zenon DEF ShareObject, NewObject, ScanDone
  <2>2. idx <= NNodes
    BY <1>t, <2>1, Zenon DEF ScanInv
  <2>3. idx \in 1 .. NNodes
    BY <1>n, <2>2
  <2>4. spec \in Specs
    BY <1>t, <2>3, PlanFacts, Zenon DEF spec
  <2>5. ~Left(plan, Module, Node(idx))
    BY <2>1, Zenon DEF YieldInv
  <2> QED BY <1>2, <2>1, <2>3, <2>4, <2>5, Zenon
<1>10. CASE MaterializeObject \/ GreedyDone \/ Done
  <2>1. UNCHANGED <<plan, mod, home>> /\ pc \in {"materialize", "next"} /\ pc' \in {"materialize", "next", "done"}
    BY <1>10, Zenon DEF MaterializeObject, GreedyDone, Done
  <2>2. \A i \in 1 .. NNodes : ~Left(plan, Module, Node(i)) => home[Node(i).spec] = mod
    BY <2>1, Zenon DEF YieldInv
  <2> QED BY <1>1, <2>1, <2>2, Zenon
<1>11. CASE NextModule
  BY <1>11, Zenon DEF NextModule, YieldInv
<1> QED BY <1>3, <1>4, <1>5, <1>6, <1>7, <1>8, <1>9, <1>10, <1>11, Zenon DEF Next

\* A module that begins to place its objects does so above all modules before it.
LEMMA BeginsAbove ==
  ASSUME IInv, YieldInv, BeginMaterialize, ReusesMemories(plan), NEW s \in Specs, home[s] # 0, home[s] # mod
  PROVE  total'[Mem(s)] = bufsizes[Mem(s)]
<1>1. TypeOK /\ HomeInv /\ ObjInv
  BY Zenon DEF IInv
<1>2. pc = "plan" /\ plan.algo = "greedy" /\ idx > NNodes
  BY Zenon DEF BeginMaterialize
<1>3. home[s] \in Nat /\ mod \in Nat /\ idx \in Nat /\ NNodes \in Nat /\ plan.modules \in Seq(ModuleType)
  <2>1. plan \in PlanType
    BY <1>1, PlanningAssumption, Zenon DEF TypeOK
  <2>2. plan.modules \in Seq(ModuleType)
    BY <2>1, Zenon DEF PlanType
  <2>3. NNodes \in Nat
    BY <1>1, PlanFacts, Zenon
  <2>4. home[s] \in Nat /\ mod \in Nat /\ idx \in Nat
    BY <1>1, <2>2, PlanningAssumption DEF TypeOK
  <2> QED BY <2>2, <2>3, <2>4
<1>4. home[s] <= mod
  BY <1>1, Zenon DEF HomeInv
<1>5. home[s] \in DOMAIN plan.modules /\ mod \in DOMAIN plan.modules /\ home[s] < mod
  BY <1>1, <1>3, <1>4 DEF TypeOK
<1>6. s \in Planned(plan, plan.modules[home[s]])
  BY Zenon DEF YieldInv
<1>7. PICK t \in Planned(plan, Module) : Mem(t) = Mem(s)
  BY <1>5, <1>6, Zenon DEF ReusesMemories, Mem, Module
<1>8. PICK i \in 1 .. NNodes : t = Node(i).spec /\ ~Left(plan, Module, Node(i))
  BY <1>1, PlanFacts, Zenon DEF Planned, Node
<1>9. i < idx
  BY <1>2, <1>3
<1>10. home[t] = mod /\ t \in Specs
  BY <1>1, <1>2, <1>8, <1>9, PlanFacts, Zenon DEF YieldInv
<1>11. obj[t] \in 1 .. nobj /\ omem[obj[t]] = Mem(s)
  BY <1>1, <1>2, <1>7, <1>10, Zenon DEF ObjInv
<1>12. Mem(s) \in MemIds
  BY <1>1, PlanFacts, Zenon
<1> QED BY <1>11, <1>12, Zenon DEF BeginMaterialize

LEMMA StackNext == ASSUME IInv, YieldInv, StackInv, Next PROVE StackInv'
<1> SUFFICES ASSUME plan'.algo = "greedy", ReusesMemories(plan') PROVE StackInv'
  BY Zenon DEF StackInv
<1>1. UNCHANGED plan
  BY Zenon DEF Next, UpdateLifetime, LifetimesDone, IgnoreNode, AllocateBuf, NaiveDone,
         BeginScan, TakeObject, PassObject, ShareObject, NewObject, ScanDone, BeginMaterialize,
         MaterializeObject, GreedyDone, NextModule, Done
<1>2. plan.algo = "greedy" /\ ReusesMemories(plan)
  BY <1>1, Zenon
<1>3. \A s : Mem(s)' = Mem(s) /\ Allocated(s)' = Allocated(s)
  BY <1>1, SamePlan, Zenon
<1>4. TypeOK /\ HomeInv /\ ObjInv /\ MatInv /\ ScanInv
  BY Zenon DEF IInv
<1>5. \A s \in Specs : Mem(s) \in MemIds /\ Allocated(s) \in Nat /\ home[s] \in Nat
                       /\ bufsizes[Mem(s)] \in Nat /\ total[Mem(s)] \in Nat
                       /\ (offset[s] # None => offset[s] \in Nat)
  BY <1>4, PlanFacts, Zenon DEF TypeOK
<1>6. ASSUME NEW s \in Specs, Placed(s)
      PROVE  /\ offset[s] # None /\ offset[s] + Allocated(s) <= bufsizes[Mem(s)]
             /\ \A t \in Specs : Placed(t) /\ home[s] < home[t] /\ Mem(s) = Mem(t)
                                   => offset[s] + Allocated(s) <= offset[t]
  BY <1>2, <1>6, Zenon DEF StackInv
\* Steps that place nothing.
<1>7. ASSUME UNCHANGED <<offset, bufsizes>>, pc' # "materialize",
             \A s \in Specs : Placed(s)' => Placed(s) /\ home'[s] = home[s]
      PROVE  StackInv'
  BY <1>3, <1>6, <1>7, ZenonT(60) DEF StackInv
<1>8. CASE UpdateLifetime \/ LifetimesDone \/ IgnoreNode \/ BeginScan \/ TakeObject \/ PassObject
  <2>1. /\ UNCHANGED <<mod, home, offset, bufsizes>>
        /\ pc' \in {"lifetime", "plan", "scan"}
    BY <1>8, Zenon DEF UpdateLifetime, LifetimesDone, IgnoreNode, BeginScan, TakeObject, PassObject
  <2>2. \A s \in Specs : Placed(s)' => Placed(s)
    BY <2>1, Zenon DEF Placed
  <2> QED BY <1>7, <2>1, <2>2, Zenon
<1>9. CASE ShareObject \/ NewObject
  <2>1. /\ UNCHANGED <<mod, offset, bufsizes>> /\ pc' = "plan" /\ pc = "scan"
        /\ home' = [home EXCEPT ![spec] = mod]
    BY <1>9, Zenon DEF ShareObject, NewObject, ScanDone
  <2>2. \A s \in Specs : home'[s] = IF s = spec THEN mod ELSE home[s]
    BY <1>4, <2>1, Zenon DEF TypeOK
  <2>3. \A s \in Specs : Placed(s)' => Placed(s) /\ home'[s] = home[s]
    BY <2>1, <2>2, Zenon DEF Placed
  <2> QED BY <1>7, <2>1, <2>3, Zenon
<1>10. CASE NextModule \/ Done
  <2>1. UNCHANGED <<home, offset, bufsizes>> /\ pc = "next" /\ pc' \in {"lifetime", "done"}
    BY <1>10, Zenon DEF NextModule, Done
  <2>2. \A s \in Specs : Placed(s)' => Placed(s)
    BY <2>1, Zenon DEF Placed
  <2> QED BY <1>7, <2>1, <2>2, Zenon
<1>11. CASE BeginMaterialize
  <2>1. /\ UNCHANGED <<mod, home, offset, bufsizes, nobj>> /\ pc = "plan" /\ pc' = "materialize" /\ k' = 1
    BY <1>11, Zenon DEF BeginMaterialize, objects
  <2>2. \A s \in Specs : Placed(s)' => Placed(s) /\ home[s] # 0 /\ home[s] # mod
    BY <2>1, Zenon DEF Placed
  <2>3. \A s \in Specs : Placed(s)' => bufsizes[Mem(s)] <= total'[Mem(s)]
    <3> SUFFICES ASSUME NEW s \in Specs, Placed(s)' PROVE bufsizes[Mem(s)] <= total'[Mem(s)]
      OBVIOUS
    <3>1. total'[Mem(s)] = bufsizes[Mem(s)]
      BY <1>2, <1>11, <2>2, BeginsAbove, Zenon
    <3> QED BY <1>5, <3>1
  <2>4. \A o \in 1 .. nobj : ~(o < k')
    BY <1>4, <2>1, ObjectFacts
  <2>5. \A s \in Specs : Placed(s)' =>
          /\ offset[s] # None /\ offset[s] + Allocated(s) <= bufsizes[Mem(s)]
          /\ \A t \in Specs : Placed(t)' /\ home[s] < home[t] /\ Mem(s) = Mem(t)
                                => offset[s] + Allocated(s) <= offset[t]
    BY <1>6, <2>2, Zenon
  <2> QED BY <1>3, <2>1, <2>3, <2>4, <2>5, ZenonT(60) DEF StackInv
<1>12. CASE MaterializeObject
  <2>1. /\ UNCHANGED <<mod, home, offset, bufsizes, nobj, omem>> /\ pc = "materialize" /\ pc' = "materialize"
        /\ k <= nobj /\ k' = k + 1
    BY <1>12, Zenon DEF MaterializeObject
  <2>2. \A s \in Specs : Placed(s)' => Placed(s)
    BY <2>1, Zenon DEF Placed
  <2>3. k \in 1 .. nobj /\ k \in 1 .. MaxNodes /\ omem[k] \in MemIds /\ osize[k] \in Nat /\ total[omem[k]] \in Nat
    <3>1. k \in 1 .. nobj
      BY <1>4, <2>1, ObjectFacts
    <3> QED BY <1>4, <3>1, ObjectFacts, Zenon
  <2>4. /\ ooff'[k] = total[omem[k]]
        /\ \A o \in 1 .. MaxNodes : o # k => ooff'[o] = ooff[o]
        /\ \A m \in MemIds : total'[m] = IF m = omem[k] THEN total[m] + osize[k] ELSE total[m]
    BY <1>4, <1>12, <2>3, Zenon DEF MaterializeObject, TypeOK
  <2>5. ASSUME NEW s \in Specs, Placed(s)
        PROVE  /\ bufsizes[Mem(s)] <= total'[Mem(s)]
               /\ \A o \in 1 .. nobj : o < k' /\ omem[o] = Mem(s) => bufsizes[Mem(s)] <= ooff'[o]
    <3>1. /\ bufsizes[Mem(s)] <= total[Mem(s)]
          /\ \A o \in 1 .. nobj : o < k /\ omem[o] = Mem(s) => bufsizes[Mem(s)] <= ooff[o]
      BY <1>2, <2>1, <2>5, Zenon DEF StackInv
    <3>2. total'[Mem(s)] = IF Mem(s) = omem[k] THEN total[Mem(s)] + osize[k] ELSE total[Mem(s)]
      BY <1>5, <2>4, Zenon
    <3>3. bufsizes[Mem(s)] <= total'[Mem(s)]
      BY <1>5, <2>3, <3>1, <3>2
    <3>4. ASSUME NEW o \in 1 .. nobj, o < k', omem[o] = Mem(s) PROVE bufsizes[Mem(s)] <= ooff'[o]
      <4>1. o \in 1 .. MaxNodes /\ (o < k \/ o = k)
        BY <1>4, <2>1, <3>4, ObjectFacts
      <4>2. CASE o = k
        BY <2>4, <3>1, <3>4, <4>2, Zenon
      <4>3. CASE o < k
        <5>1. o # k
          BY <1>4, <4>3, ObjectFacts
        <5> QED BY <2>4, <3>1, <3>4, <4>1, <4>3, <5>1, Zenon
      <4> QED BY <4>1, <4>2, <4>3, Zenon
    <3> QED BY <3>3, <3>4, Zenon
  <2>6. \A s \in Specs : Placed(s)' =>
          /\ offset[s] # None /\ offset[s] + Allocated(s) <= bufsizes[Mem(s)]
          /\ \A t \in Specs : Placed(t)' /\ home[s] < home[t] /\ Mem(s) = Mem(t)
                                => offset[s] + Allocated(s) <= offset[t]
    BY <1>6, <2>2, Zenon
  <2> QED BY <1>3, <2>1, <2>2, <2>5, <2>6, ZenonT(60) DEF StackInv
<1>13. CASE GreedyDone
  <2>1. /\ UNCHANGED <<mod, home>> /\ pc = "materialize" /\ pc' = "next" /\ k > nobj /\ bufsizes' = total
        /\ \A s \in Specs : offset'[s] = IF home[s] = mod THEN ooff[obj[s]] ELSE offset[s]
    BY <1>13, Zenon DEF GreedyDone
  <2>2. FitsBuffer'
    BY FitsNext, Zenon
  <2>3. \A s \in Specs : home[s] # 0 /\ home[s] # mod => Placed(s)
    BY Zenon DEF Placed
  <2>4. ASSUME NEW s \in Specs, home[s] # 0, home[s] # mod
        PROVE  /\ offset'[s] = offset[s] /\ offset[s] # None /\ offset[s] + Allocated(s) <= bufsizes[Mem(s)]
               /\ bufsizes[Mem(s)] <= total[Mem(s)] /\ offset[s] + Allocated(s) <= total[Mem(s)]
    <3>1. bufsizes[Mem(s)] <= total[Mem(s)]
      BY <1>2, <2>1, <2>3, <2>4, Zenon DEF StackInv
    <3>2. offset'[s] = offset[s] /\ offset[s] # None /\ offset[s] + Allocated(s) <= bufsizes[Mem(s)]
      BY <1>6, <2>1, <2>3, <2>4, Zenon
    <3> QED BY <1>5, <3>1, <3>2
  <2>5. ASSUME NEW s \in Specs, home[s] # 0
        PROVE  offset'[s] # None /\ offset'[s] + Allocated(s) <= bufsizes'[Mem(s)]
    <3>1. CASE home[s] = mod
      BY <1>3, <2>1, <2>2, <3>1, Zenon DEF FitsBuffer
    <3>2. CASE home[s] # mod
      BY <2>1, <2>4, <2>5, <3>2, Zenon
    <3> QED BY <3>1, <3>2
  <2>6. ASSUME NEW s \in Specs, NEW t \in Specs, home[s] # 0, home[t] # 0, home[s] < home[t], Mem(s) = Mem(t)
        PROVE  offset'[s] + Allocated(s) <= offset'[t]
    <3>1. home[s] # mod /\ home[s] # home[t]
      <4>1. home[t] <= mod /\ mod \in Nat
        BY <1>4, <2>6 DEF HomeInv, TypeOK
      <4> QED BY <1>5, <2>6, <4>1
    <3>2. CASE home[t] # mod
      <4>1. offset[s] + Allocated(s) <= offset[t]
        BY <1>6, <2>3, <2>6, <3>1, <3>2, Zenon
      <4> QED BY <2>1, <2>6, <3>1, <3>2, <4>1, Zenon
    <3>3. CASE home[t] = mod
      <4>1. obj[t] \in 1 .. nobj /\ omem[obj[t]] = Mem(s)
        BY <1>2, <1>4, <2>1, <2>6, <3>3, Zenon DEF ObjInv
      <4>2. obj[t] < k
        BY <1>4, <2>1, <4>1, ObjectFacts
      <4>3. bufsizes[Mem(s)] <= ooff[obj[t]]
        BY <1>2, <2>1, <2>3, <2>6, <3>1, <4>1, <4>2, Zenon DEF StackInv
      <4>4. ooff[obj[t]] \in Nat
        BY <1>4, <2>1, <4>1, <4>2, ObjectFacts, Zenon DEF MatInv
      <4>5. offset[s] # None /\ offset[s] + Allocated(s) <= bufsizes[Mem(s)] /\ offset'[s] = offset[s]
        BY <2>4, <2>6, <3>1, Zenon
      <4>6. offset'[t] = ooff[obj[t]]
        BY <2>1, <3>3, Zenon
      <4> QED BY <1>5, <4>3, <4>4, <4>5, <4>6
    <3> QED BY <3>2, <3>3
  <2>7. \A s \in Specs : Placed(s)' => home[s] # 0 /\ home'[s] = home[s]
    BY <2>1, Zenon DEF Placed
  <2> QED BY <1>3, <2>1, <2>5, <2>6, <2>7, ZenonT(60) DEF StackInv
<1>14. ~AllocateBuf /\ ~NaiveDone
  BY <1>2 DEF AllocateBuf, NaiveDone
<1> QED BY <1>8, <1>9, <1>10, <1>11, <1>12, <1>13, <1>14, Zenon DEF Next

LEMMA StackInvariance == Spec => [](YieldInv /\ StackInv)
<1>1. Init => YieldInv /\ StackInv
  <2> SUFFICES ASSUME Init PROVE YieldInv /\ StackInv
    OBVIOUS
  <2>1. (\A s \in Specs : home[s] = 0) /\ pc = "lifetime"
    BY Zenon DEF Init
  <2> QED BY <2>1, Zenon DEF YieldInv, StackInv, Placed
<1>2. ASSUME IInv, YieldInv, StackInv, [Next]_vars PROVE YieldInv' /\ StackInv'
  <2>1. CASE Next
    BY <1>2, <2>1, YieldNext, StackNext, Zenon
  <2>2. CASE UNCHANGED vars
    <3>1. UNCHANGED <<plan, mod, pc, idx, home, nobj, omem, ooff, k, total, offset, bufsizes>>
      BY <2>2, Zenon DEF vars, objects
    <3>2. YieldInv'
      BY <1>2, <3>1, SameModule, ZenonT(60) DEF YieldInv
    <3>3. \A s : Placed(s)' <=> Placed(s)
      BY <3>1, Zenon DEF Placed
    <3>4. StackInv'
      BY <1>2, <3>1, <3>3, SamePlan, ZenonT(60) DEF StackInv
    <3> QED BY <3>2, <3>4
  <2> QED BY <1>2, <2>1, <2>2
<1>3. IInv /\ (YieldInv /\ StackInv) /\ [Next]_vars => (YieldInv /\ StackInv)'
  BY <1>2, Zenon
<1> QED BY <1>1, <1>3, Invariance, PTL DEF Spec

\* apply_algo() keeps the tensors of all modules apart, and in the program's buffers:
\* naive() always, and greedy() when each module has a tensor in every memory that the
\* modules before it use.  (A module without one loses the size of that memory, and the
\* next one is put on top of the first.)
THEOREM ModulesStayApart ==
  ASSUME \A p \in Plans : p.algo = "naive" \/ ReusesMemories(p)
  PROVE  Spec => []ModulesDisjoint
<1>1. ASSUME IInv, StackInv PROVE ModulesDisjoint
  <2> SUFFICES ASSUME pc = "done" PROVE ModulesDisjoint
    BY Zenon DEF ModulesDisjoint
  <2>1. TypeOK /\ plan \in Plans /\ plan.algo \in {"greedy", "naive"}
    BY <1>1, PlanFacts, Zenon DEF IInv, TypeOK
  <2>2. \A s \in Specs : Allocated(s) \in Nat /\ home[s] \in Nat
    BY <2>1, PlanFacts, Zenon DEF TypeOK
  <2>3. CASE plan.algo = "naive"
    <3>1. \A s \in Specs : home[s] # 0 =>
            offset[s] # None /\ offset[s] + Allocated(s) <= bufsizes[Mem(s)]
      BY <1>1, <2>3, Zenon DEF IInv, NaiveInv
    <3>2. ASSUME NEW s \in Specs, NEW t \in Specs, home[s] # 0, home[t] # 0, home[s] # home[t]
          PROVE  ~StorageOverlap(s, t)
      <4>1. Mem(s) = Mem(t) => \/ offset[s] + Allocated(s) <= offset[t]
                               \/ offset[t] + Allocated(t) <= offset[s]
        BY <1>1, <2>3, <3>2, Zenon DEF IInv, NaiveInv
      <4>2. offset[s] \in Nat /\ offset[t] \in Nat
        BY <2>1, <3>1, <3>2, Zenon DEF TypeOK
      <4> QED BY <2>2, <4>1, <4>2 DEF StorageOverlap
    <3> QED BY <3>1, <3>2, Zenon DEF ModulesDisjoint
  <2>4. CASE plan.algo = "greedy"
    <3>1. ReusesMemories(plan)
      BY <2>1, <2>4
    <3>2. \A s \in Specs : home[s] # 0 => Placed(s)
      BY Zenon DEF Placed
    <3>3. \A s \in Specs : home[s] # 0 =>
            offset[s] # None /\ offset[s] + Allocated(s) <= bufsizes[Mem(s)]
      BY <1>1, <2>4, <3>1, <3>2, Zenon DEF StackInv
    <3>4. ASSUME NEW s \in Specs, NEW t \in Specs, home[s] # 0, home[t] # 0, home[s] # home[t]
          PROVE  ~StorageOverlap(s, t)
      <4>1. home[s] < home[t] \/ home[t] < home[s]
        BY <2>2, <3>4
      <4>2. Mem(s) = Mem(t) => \/ offset[s] + Allocated(s) <= offset[t]
                               \/ offset[t] + Allocated(t) <= offset[s]
        BY <1>1, <2>4, <3>1, <3>2, <3>4, <4>1, Zenon DEF StackInv
      <4>3. offset[s] \in Nat /\ offset[t] \in Nat
        BY <2>1, <3>3, <3>4, Zenon DEF TypeOK
      <4> QED BY <2>2, <4>2, <4>3 DEF StorageOverlap
    <3> QED BY <3>3, <3>4, Zenon DEF ModulesDisjoint
  <2> QED BY <2>1, <2>3, <2>4
<1>2. IInv /\ (YieldInv /\ StackInv) => ModulesDisjoint
  BY <1>1, Zenon
<1> QED BY <1>2, Invariance, StackInvariance, PTL
=============================================================================

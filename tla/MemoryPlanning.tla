--------------------------- MODULE MemoryPlanning ---------------------------
(***************************************************************************)
(* Memory planning (exir/memory_planning.py): the lifetime of each tensor  *)
(* of a graph module is computed, then a place in a memory buffer is found *)
(* for it, by the greedy algorithm, which lets tensors share objects, or   *)
(* by the naive one.  apply_algo() does this for a module and then for the *)
(* submodules of its control flow, handing on the sizes of the buffers.    *)
(*                                                                         *)
(* A plan is the input of a whole run: the modules in the order in which   *)
(* they are planned, and the sizes and memory ids of the specs.            *)
(***************************************************************************)
EXTENDS Integers, Sequences

CONSTANTS
  Specs,      \* the tensor specs
  MemIds,     \* the memory buffers
  Nodes,      \* the nodes that the graphs are made of
  Plans,      \* what may be planned
  MaxNodes,   \* no graph has more nodes
  Alignment

\* "call" stands for delegates, cond and map: nodes that own their result.
Kinds == {"placeholder", "mutable_buffer", "alloc", "out_variant", "call", "inplace",
          "get_attr", "output"}

\* args: the specs of the nodes that a node takes as arguments, except the ones
\* that the collection skips (get_attr and in-place nodes).
NodeType == [kind : Kinds, spec : Specs, args : SUBSET Specs]

ModuleType == [nodes : Seq(Nodes), alloc_input : BOOLEAN, alloc_output : BOOLEAN]

PlanType == [modules : Seq(ModuleType), algo : {"greedy", "naive"},
             bytes : [Specs -> Nat], mem_id : [Specs -> MemIds],
             unplanned : SUBSET Specs]

\* The specs that a node refers to, as update_all_tensors_lifetime() sees them.
Refs(nd) == nd.args \cup (IF nd.kind \in {"get_attr", "inplace"} THEN {} ELSE {nd.spec})

ASSUME PlanningAssumption ==
  /\ Alignment \in Nat \ {0} /\ MaxNodes \in Nat /\ MemIds # {}
  /\ Nodes \subseteq NodeType
  /\ \A p \in Plans :
       /\ p \in PlanType
       /\ \A m \in DOMAIN p.modules : Len(p.modules[m].nodes) <= MaxNodes
       \* a spec belongs to one module
       /\ \A m, n \in DOMAIN p.modules :
            \A i \in DOMAIN p.modules[m].nodes, j \in DOMAIN p.modules[n].nodes :
              p.modules[m].nodes[i].spec = p.modules[n].nodes[j].spec => m = n

VARIABLES
  plan,
  mod, pc,      \* the module that is planned, and what is done with it
  idx,          \* the node in hand
  first, last,  \* lifetime of each spec; 0 is None
  home,         \* the module that a spec was planned in; 0 before that
  obj,          \* spec2obj
  nobj, omem, osize, olast, ooff,  \* shared_objects: mem_id, size, last_used_index, offset
  k, picked,    \* the scan of pick_shared_obj()
  total,        \* total_sizes of greedy()
  offset,       \* mem_offset
  bufsizes      \* the sizes handed from module to module

objects == <<nobj, omem, osize, olast, ooff>>
vars == <<plan, mod, pc, idx, first, last, home, obj, objects, k, picked, total,
          offset, bufsizes>>

Module  == plan.modules[mod]
NNodes  == Len(Module.nodes)
Node(i) == Module.nodes[i]

\* calculate_aligned_num_bytes()
Allocated(s) == ((plan.bytes[s] + Alignment - 1) \div Alignment) * Alignment

None == -1

\* Every variable has its type; no object or module is past the end of its list.
TypeOK ==
  /\ plan \in Plans
  /\ mod \in 1 .. Len(plan.modules) /\ idx \in 1 .. MaxNodes + 1
  /\ pc \in {"lifetime", "plan", "scan", "materialize", "next", "done"}
  /\ first \in [Specs -> Nat] /\ last \in [Specs -> Nat]
  /\ home \in [Specs -> Nat] /\ obj \in [Specs -> 0 .. MaxNodes]
  /\ nobj \in 0 .. MaxNodes
  /\ omem \in [1 .. MaxNodes -> MemIds] /\ osize \in [1 .. MaxNodes -> Nat]
  /\ olast \in [1 .. MaxNodes -> Nat] /\ ooff \in [1 .. MaxNodes -> Nat \cup {None}]
  /\ k \in 1 .. MaxNodes + 1 /\ picked \in 0 .. MaxNodes
  /\ total \in [MemIds -> Nat] /\ bufsizes \in [MemIds -> Nat]
  /\ offset \in [Specs -> Nat \cup {None}]

Init ==
  /\ plan \in Plans /\ plan.modules # <<>>
  /\ mod = 1 /\ pc = "lifetime" /\ idx = 1
  /\ first = [s \in Specs |-> 0] /\ last = [s \in Specs |-> 0]
  /\ home = [s \in Specs |-> 0] /\ obj = [s \in Specs |-> 0]
  /\ nobj = 0
  /\ omem = [o \in 1 .. MaxNodes |-> CHOOSE m \in MemIds : TRUE]
  /\ osize = [o \in 1 .. MaxNodes |-> 0] /\ olast = [o \in 1 .. MaxNodes |-> 0]
  /\ ooff = [o \in 1 .. MaxNodes |-> None]
  /\ k = 1 /\ picked = 0
  /\ total = [m \in MemIds |-> 0] /\ bufsizes = [m \in MemIds |-> 0]
  /\ offset = [s \in Specs |-> None]

-----------------------------------------------------------------------------
(* update_all_tensors_lifetime() *)

\* update_tensor_lifetime() for the specs of a node and of its arguments.
UpdateLifetime ==
  /\ pc = "lifetime" /\ idx <= NNodes
  /\ first' = [s \in Specs |-> IF s \in Refs(Node(idx)) /\ (first[s] = 0 \/ first[s] > idx)
                               THEN idx ELSE first[s]]
  /\ last' = [s \in Specs |-> IF s \in Refs(Node(idx)) /\ last[s] < idx THEN idx ELSE last[s]]
  /\ idx' = idx + 1
  /\ UNCHANGED <<plan, mod, pc, home, obj, objects, k, picked, total, offset, bufsizes>>

LifetimesDone ==
  /\ pc = "lifetime" /\ idx > NNodes
  /\ pc' = "plan" /\ idx' = 1
  /\ UNCHANGED <<plan, mod, first, last, home, obj, objects, k, picked, total, offset,
                 bufsizes>>

-----------------------------------------------------------------------------
(* collect_specs_from_nodes() *)

InputSpecs  == {Node(i).spec : i \in {j \in 1 .. NNodes : Node(j).kind = "placeholder"}}
OutputSpecs == {Node(i).spec : i \in {j \in 1 .. NNodes : Node(j).kind = "output"}}

\* unplanned: constants, and tensors whose size has no bound.
Ignored(nd) ==
  \/ nd.kind \in {"get_attr", "out_variant", "inplace"}
  \/ nd.spec \in plan.unplanned
  \/ ~Module.alloc_input /\ nd.spec \in InputSpecs
  \/ ~Module.alloc_output /\ nd.spec \in OutputSpecs
  \/ home[nd.spec] = mod

IgnoreNode ==
  /\ pc = "plan" /\ idx <= NNodes /\ Ignored(Node(idx))
  /\ idx' = idx + 1
  /\ UNCHANGED <<plan, mod, pc, first, last, home, obj, objects, k, picked, total, offset,
                 bufsizes>>

\* A spec is yielded.
Yield == pc = "plan" /\ idx <= NNodes /\ ~Ignored(Node(idx))

spec == Node(idx).spec
Mem(s) == plan.mem_id[s]

-----------------------------------------------------------------------------
(* naive() *)

AllocateBuf ==
  /\ Yield /\ plan.algo = "naive"
  /\ offset' = [offset EXCEPT ![spec] = bufsizes[Mem(spec)]]
  /\ bufsizes' = [bufsizes EXCEPT ![Mem(spec)] = @ + Allocated(spec)]
  /\ home' = [home EXCEPT ![spec] = mod]
  /\ idx' = idx + 1
  /\ UNCHANGED <<plan, mod, pc, first, last, obj, objects, k, picked, total>>

NaiveDone ==
  /\ pc = "plan" /\ plan.algo = "naive" /\ idx > NNodes
  /\ pc' = "next"
  /\ UNCHANGED <<plan, mod, idx, first, last, home, obj, objects, k, picked, total, offset,
                 bufsizes>>

-----------------------------------------------------------------------------
(* greedy(), pick_shared_obj(), materialize_buffer() *)

BeginScan ==
  /\ Yield /\ plan.algo = "greedy"
  /\ pc' = "scan" /\ k' = 1 /\ picked' = 0
  /\ UNCHANGED <<plan, mod, idx, first, last, home, obj, objects, total, offset, bufsizes>>

Abs(n) == IF n < 0 THEN -n ELSE n

SizeAbsDif(o) == Abs(osize[o] - Allocated(spec))

\* Mutant: an object is taken while its last user is alive.
BetterOverlapping ==
  /\ omem[k] = Mem(spec) /\ first[spec] >= olast[k]
  /\ picked # 0 => SizeAbsDif(k) < SizeAbsDif(picked)

\* The lists of objects, one for each mem_id, are kept in one list here.
Better ==
  /\ omem[k] = Mem(spec) /\ first[spec] > olast[k]
  /\ picked # 0 => SizeAbsDif(k) < SizeAbsDif(picked)

\* Mutant: the object keeps its size.
TakeObjectKeepsSize ==
  /\ pc = "scan" /\ k <= nobj /\ Better
  /\ picked' = k
  /\ olast' = [olast EXCEPT ![k] = last[spec]]
  /\ k' = k + 1
  /\ UNCHANGED <<plan, mod, pc, idx, first, last, home, obj, nobj, omem, osize, ooff, total,
                 offset, bufsizes>>

\* The object found so far changes at once, also when a better one follows.
TakeObject ==
  /\ pc = "scan" /\ k <= nobj /\ Better
  /\ picked' = k
  /\ olast' = [olast EXCEPT ![k] = last[spec]]
  /\ osize' = [osize EXCEPT ![k] = IF @ < Allocated(spec) THEN Allocated(spec) ELSE @]
  /\ k' = k + 1
  /\ UNCHANGED <<plan, mod, pc, idx, first, last, home, obj, nobj, omem, ooff, total, offset,
                 bufsizes>>

PassObject ==
  /\ pc = "scan" /\ k <= nobj /\ ~Better
  /\ k' = k + 1
  /\ UNCHANGED <<plan, mod, pc, idx, first, last, home, obj, objects, picked, total, offset,
                 bufsizes>>

ScanDone ==
  /\ pc = "scan" /\ k > nobj
  /\ home' = [home EXCEPT ![spec] = mod]
  /\ pc' = "plan" /\ idx' = idx + 1
  /\ UNCHANGED <<plan, mod, first, last, k, picked, total, offset, bufsizes>>

ShareObject ==
  /\ ScanDone /\ picked # 0
  /\ obj' = [obj EXCEPT ![spec] = picked]
  /\ UNCHANGED objects

NewObject ==
  /\ ScanDone /\ picked = 0
  /\ nobj' = nobj + 1
  /\ obj' = [obj EXCEPT ![spec] = nobj + 1]
  /\ omem' = [omem EXCEPT ![nobj + 1] = Mem(spec)]
  /\ osize' = [osize EXCEPT ![nobj + 1] = Allocated(spec)]
  /\ olast' = [olast EXCEPT ![nobj + 1] = last[spec]]
  /\ ooff' = [ooff EXCEPT ![nobj + 1] = None]

\* Mutant: the buffers of a submodule start at 0.
BeginMaterializeAtZero ==
  /\ pc = "plan" /\ plan.algo = "greedy" /\ idx > NNodes
  /\ pc' = "materialize" /\ k' = 1
  /\ total' = [m \in MemIds |-> 0]
  /\ UNCHANGED <<plan, mod, idx, first, last, home, obj, objects, picked, offset, bufsizes>>

\* A memory id that no object has starts, and stays, at 0.
BeginMaterialize ==
  /\ pc = "plan" /\ plan.algo = "greedy" /\ idx > NNodes
  /\ pc' = "materialize" /\ k' = 1
  /\ total' = [m \in MemIds |-> IF \E o \in 1 .. nobj : omem[o] = m THEN bufsizes[m] ELSE 0]
  /\ UNCHANGED <<plan, mod, idx, first, last, home, obj, objects, picked, offset, bufsizes>>

MaterializeObject ==
  /\ pc = "materialize" /\ k <= nobj
  /\ ooff' = [ooff EXCEPT ![k] = total[omem[k]]]
  /\ total' = [total EXCEPT ![omem[k]] = @ + osize[k]]
  /\ k' = k + 1
  /\ UNCHANGED <<plan, mod, pc, idx, first, last, home, obj, nobj, omem, osize, olast, picked,
                 offset, bufsizes>>

GreedyDone ==
  /\ pc = "materialize" /\ k > nobj
  /\ offset' = [s \in Specs |-> IF home[s] = mod THEN ooff[obj[s]] ELSE offset[s]]
  /\ bufsizes' = total
  /\ pc' = "next"
  /\ UNCHANGED <<plan, mod, idx, first, last, home, obj, objects, k, picked, total>>

-----------------------------------------------------------------------------
(* apply_algo() goes on with the next submodule *)

NextModule ==
  /\ pc = "next" /\ mod < Len(plan.modules)
  /\ mod' = mod + 1 /\ pc' = "lifetime" /\ idx' = 1 /\ nobj' = 0
  /\ UNCHANGED <<plan, first, last, home, obj, omem, osize, olast, ooff, k, picked, total,
                 offset, bufsizes>>

Done ==
  /\ pc = "next" /\ mod = Len(plan.modules)
  /\ pc' = "done"
  /\ UNCHANGED <<plan, mod, idx, first, last, home, obj, objects, k, picked, total, offset,
                 bufsizes>>

Next ==
  \/ UpdateLifetime \/ LifetimesDone \/ IgnoreNode \/ AllocateBuf \/ NaiveDone
  \/ BeginScan \/ TakeObject \/ PassObject \/ ShareObject \/ NewObject
  \/ BeginMaterialize \/ MaterializeObject \/ GreedyDone
  \/ NextModule \/ Done

Spec == Init /\ [][Next]_vars

-----------------------------------------------------------------------------
(* Properties *)

\* Verifier.storage_overlap()
StorageOverlap(s, t) ==
  /\ Mem(s) = Mem(t)
  /\ Allocated(s) > 0 /\ Allocated(t) > 0
  /\ offset[s] < offset[t] + Allocated(t) /\ offset[t] < offset[s] + Allocated(s)

\* All references to s come before all references to t in module m.
Before(s, t, m) ==
  \A i, j \in DOMAIN plan.modules[m].nodes :
    s \in Refs(plan.modules[m].nodes[i]) /\ t \in Refs(plan.modules[m].nodes[j]) => i < j

\* Two tensors of a module that share storage are never in use at the same time:
\* the last node that refers to one comes before the first that refers to the
\* other.  (The Verifier compares the recorded lifetimes, and only in the outermost
\* module.)
SharingSound ==
  \A s, t \in Specs :
    /\ s # t /\ home[s] # 0 /\ home[s] = home[t]
    /\ offset[s] # None /\ offset[t] # None
    /\ StorageOverlap(s, t)
    => Before(s, t, home[s]) \/ Before(t, s, home[s])

\* When a module has been planned each of its tensors lies in its buffer.
FitsBuffer ==
  pc = "next" => \A s \in Specs : home[s] = mod =>
                   offset[s] # None /\ offset[s] + Allocated(s) <= bufsizes[Mem(s)]

\* The tensors of different modules are disjoint: a submodule runs while tensors
\* of the modules around it are in use, and what it returns is used after it.
\* Every tensor lies in the buffers of the program.
ModulesDisjoint ==
  pc = "done" =>
    /\ \A s, t \in Specs : /\ home[s] # 0 /\ home[t] # 0 /\ home[s] # home[t]
                           => ~StorageOverlap(s, t)
    /\ \A s \in Specs : home[s] # 0 => offset[s] + Allocated(s) <= bufsizes[Mem(s)]
=============================================================================

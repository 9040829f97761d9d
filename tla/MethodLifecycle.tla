--------------------------- MODULE MethodLifecycle ---------------------------
(***************************************************************************)
(* Life of a Method (runtime/executor/method.{h,cpp}): Method::load parses *)
(* the values, initializes the delegates, resolves the kernels of every    *)
(* chain and hands the Method to its caller, who may move it and may       *)
(* destroy it.  Every one of these steps can fail half way.                *)
(*                                                                         *)
(* The model keeps who owns what: the EValues that were constructed, the   *)
(* backend handles that were created, the buffers that were loaded for     *)
(* them, and how often each was released.  Data (tensor contents, compile  *)
(* specs, operator names) is abstracted to the outcome of the step that    *)
(* reads it, so an allocation may succeed or fail at any point.  A Method  *)
(* is used by one thread; one action is one iteration of a loop.           *)
(***************************************************************************)
EXTENDS Integers

CONSTANTS
  Objects,    \* C++ objects of class Method
  Local,      \* the one that Method::load declares on its stack
  None,       \* no object
  NValue,     \* number of serialized values
  IntLists,   \* the values that are non-empty IntLists
  NDelegate,  \* number of serialized delegates
  Segments,   \* the delegates whose data is in a SEGMENT, not INLINE
  NChain,     \* number of chains
  NInstr,     \* number of instructions of each chain
  Kind        \* the type of each instruction

Values       == 0 .. NValue - 1
Delegates    == 0 .. NDelegate - 1
Chains       == 0 .. NChain - 1
Instructions == UNION {{c} \X (0 .. NInstr[c] - 1) : c \in Chains}
KernelCalls  == {p \in Instructions : Kind[p] = "KernelCall"}

ASSUME LifecycleAssumption ==
  /\ Local \in Objects /\ None \notin Objects
  /\ NValue \in Nat /\ NDelegate \in Nat /\ NChain \in Nat
  /\ IntLists \subseteq Values
  /\ Segments \subseteq Delegates
  /\ NInstr \in [Chains -> Nat]

VARIABLES
  pc,         \* where Method::load is
  cur,        \* its loop counter: value, delegate or chain
  instr,      \* its inner loop counter: instruction of chain cur
  delayed,    \* delayed_error of Method::init
  missing,    \* num_instructions_missing_op of Method::init
  err,        \* what Method::load returns
  live,       \* Method objects between their constructor and destructor
  init_state, \* init_state_ of every Method object
  n_value,    \* n_value_ of every Method object
  values,     \* Method objects whose values_ is not null
  n_delegate, \* n_delegate_ of every Method object
  delegates,  \* Method objects whose delegates_ is not null
  dying,      \* the object whose destructor is running, or None
  at, i,      \* the loop that destructor is in, and its counter
  built,      \* values whose EValue was constructed
  unboxed,    \* IntLists whose int_list storage was allocated
  dtors,      \* how often the EValue at each index was destroyed
  loaded,     \* delegates for which LoadSegment returned a buffer
  data,       \* delegates whose segment_ has a non-null data_
  frees,      \* how often free_fn was called for each delegate's buffer
  kept,       \* delegates whose backend did not free its buffer in init()
  made,       \* delegates whose backend returned a handle
  destroys,   \* how often the handle of each delegate was destroyed
  kernels     \* the KernelCalls whose kernels_ entry was assigned

loadVars   == <<pc, cur, instr, delayed, missing, err>>
initVars   == <<instr, delayed, missing>>
objVars    == <<live, init_state, n_value, values, n_delegate, delegates>>
dtorVars   == <<dying, at, i>>
valueVars  == <<built, unboxed, dtors>>
bufferVars == <<loaded, data, frees, kept>>
handleVars == <<made, destroys>>
resources  == <<valueVars, bufferVars, handleVars, kernels>>
vars       == <<loadVars, objVars, dtorVars, resources>>

InitState == {"Uninitialized", "Initialized", "InitializationFailed"}

\* "Failed" stands for every error code that the callers do not tell apart.
Errors == {"Ok", "OperatorMissing", "MemoryAllocationFailed", "Failed"}
EarlyErrors == {"MemoryAllocationFailed", "Failed"}

\* Every variable has its type; the counts of ~Method()'s loops never exceed
\* the serialized ones.
TypeOK ==
  /\ pc \in {"uncalled", "values", "delegates", "processed", "chains", "instrs",
             "initialized", "unwind", "moved", "returned", "crashed"}
  /\ cur \in Nat /\ instr \in Nat
  /\ delayed \in Errors /\ missing \in Nat /\ err \in Errors
  /\ live \subseteq Objects /\ init_state \in [Objects -> InitState]
  /\ n_value \in [Objects -> 0 .. NValue] /\ values \subseteq Objects
  /\ n_delegate \in [Objects -> 0 .. NDelegate] /\ delegates \subseteq Objects
  /\ dying \in Objects \cup {None} /\ i \in Nat
  /\ at \in {"values", "handle", "segment"}
  /\ built \subseteq Values /\ unboxed \subseteq IntLists
  /\ dtors \in [Values -> Nat]
  /\ loaded \subseteq Segments /\ data \subseteq Delegates
  /\ frees \in [Delegates -> Nat] /\ kept \subseteq Delegates
  /\ made \subseteq Delegates /\ destroys \in [Delegates -> Nat]
  /\ kernels \subseteq KernelCalls

\* No Method exists: what the private constructor sets every field to.
Init ==
  /\ pc = "uncalled" /\ cur = 0 /\ instr = 0
  /\ delayed = "Ok" /\ missing = 0 /\ err = "Ok"
  /\ live = {} /\ init_state = [o \in Objects |-> "Uninitialized"]
  /\ n_value = [o \in Objects |-> 0] /\ values = {}
  /\ n_delegate = [o \in Objects |-> 0] /\ delegates = {}
  /\ dying = None /\ at = "values" /\ i = 0
  /\ built = {} /\ unboxed = {} /\ dtors = [v \in Values |-> 0]
  /\ loaded = {} /\ data = {} /\ kept = {}
  /\ frees = [d \in Delegates |-> 0]
  /\ made = {} /\ destroys = [d \in Delegates |-> 0]
  /\ kernels = {}

-----------------------------------------------------------------------------
(* Method::load and Method::init *)

\* ~Method() begins.
BeginDtor(o) == dying' = o /\ at' = "values" /\ i' = 0

\* An error return of init(): load() returns the error and destroys its local.
Fail(e) ==
  /\ pc' = "unwind" /\ err' = e
  /\ BeginDtor(Local)
  /\ UNCHANGED <<cur, initVars>>

GoTo(label) ==
  /\ pc' = label /\ cur' = 0
  /\ UNCHANGED <<initVars, err, dtorVars>>

\* load() up to the list allocation of parse_values(): the temp allocator or
\* the list of values may not fit in the method allocator.
Load ==
  /\ pc = "uncalled"
  /\ \/ /\ pc' = "returned" /\ err' = "MemoryAllocationFailed"
        /\ UNCHANGED <<cur, initVars, dtorVars, live, init_state, values>>
     \/ /\ live' = live \cup {Local}
        /\ init_state' = [init_state EXCEPT ![Local] = "InitializationFailed"]
        /\ \/ values' = values \cup {Local} /\ GoTo("values")
           \/ UNCHANGED values /\ \E e \in EarlyErrors : Fail(e)
  /\ UNCHANGED <<n_value, n_delegate, delegates, resources>>

\* One iteration of parse_values().  Neither allocation of an IntList is
\* checked: the loop that fills evalp_list writes through a null pointer, and
\* a null int_list becomes part of the EValue.
ParseValue ==
  /\ pc = "values" /\ cur < NValue
  /\ \/ /\ built' = built \cup {cur}
        /\ unboxed' \in {unboxed, unboxed \cup ({cur} \cap IntLists)}
        /\ n_value' = [n_value EXCEPT ![Local] = cur + 1]
        /\ cur' = cur + 1
        /\ UNCHANGED <<pc, initVars, err, dtorVars>>
     \/ /\ cur \in IntLists /\ pc' = "crashed"
        /\ UNCHANGED <<cur, initVars, err, dtorVars, n_value, built, unboxed>>
     \/ /\ \E e \in EarlyErrors : Fail(e)
        /\ UNCHANGED <<n_value, built, unboxed>>
  /\ UNCHANGED <<live, init_state, values, n_delegate, delegates, dtors,
                 bufferVars, handleVars, kernels>>

\* init() after parse_values() returned Ok: the list of delegates.
AllocateDelegates ==
  /\ pc = "values" /\ cur = NValue
  /\ \/ delegates' = delegates \cup {Local} /\ GoTo("delegates")
     \/ UNCHANGED delegates /\ \E e \in EarlyErrors : Fail(e)
  /\ UNCHANGED <<live, init_state, n_value, n_delegate, values, resources>>

-----------------------------------------------------------------------------
(* BackendDelegate::Init and its FreeableBuffer *)

\* FreeableBuffer::Free on the buffer of delegate d.
FreeBuffer(d) ==
  /\ data' = data \ {d}
  /\ frees' = IF d \in data \cap Segments
              THEN [frees EXCEPT ![d] = @ + 1] ELSE frees

\* The first half of Init: look up the backend and get the delegate's data, a
\* buffer that owns a segment or, for INLINE data, a view of the program.
GetProcessedData ==
  /\ pc = "delegates" /\ cur < NDelegate
  /\ \/ /\ pc' = "processed"
        /\ data' = data \cup {cur}
        /\ loaded' = loaded \cup ({cur} \cap Segments)
        /\ UNCHANGED <<cur, initVars, err, dtorVars>>
     \/ Fail("Failed") /\ UNCHANGED <<data, loaded>>
  /\ UNCHANGED <<objVars, valueVars, frees, kept, handleVars, kernels>>

\* Mutant: the buffer is moved into segment_ before the specs are parsed, so
\* nothing frees it on this path.
PopulateCompileSpecsLeaks ==
  /\ pc = "processed"
  /\ Fail("MemoryAllocationFailed")
  /\ UNCHANGED <<objVars, resources>>

\* The compile specs do not fit: Init returns, and the buffer it still holds in
\* a local variable is freed by its destructor.
PopulateCompileSpecsFails ==
  /\ pc = "processed"
  /\ FreeBuffer(cur)
  /\ Fail("MemoryAllocationFailed")
  /\ UNCHANGED <<objVars, valueVars, loaded, kept, handleVars, kernels>>

\* The second half of Init when backend->init() fails, having freed the buffer
\* or not: segment_.Free() is idempotent.
BackendInitFails ==
  /\ pc = "processed"
  /\ FreeBuffer(cur)
  /\ Fail("Failed")
  /\ UNCHANGED <<objVars, valueVars, loaded, kept, handleVars, kernels>>

\* backend->init() returns a handle, and may have freed the buffer.
BackendInit ==
  /\ pc = "processed"
  /\ \/ FreeBuffer(cur) /\ UNCHANGED kept
     \/ kept' = kept \cup {cur} /\ UNCHANGED <<data, frees>>
  /\ made' = made \cup {cur}
  /\ n_delegate' = [n_delegate EXCEPT ![Local] = cur + 1]
  /\ pc' = "delegates" /\ cur' = cur + 1
  /\ UNCHANGED <<initVars, err, live, init_state, n_value, values, delegates,
                 dtorVars, valueVars, loaded, destroys, kernels>>

-----------------------------------------------------------------------------
(* The chains of Method::init *)

\* init() after the delegates: "No chains", or the list does not fit.
AllocateChains ==
  /\ pc = "delegates" /\ cur = NDelegate
  /\ \/ NChain > 0 /\ GoTo("chains")
     \/ \E e \in EarlyErrors : Fail(e)
  /\ UNCHANGED <<objVars, resources>>

\* One iteration of the loop over the chains, up to its inner loop.
BeginChain ==
  /\ pc = "chains" /\ cur < NChain
  /\ \/ /\ pc' = "instrs" /\ instr' = 0
        /\ UNCHANGED <<cur, delayed, missing, err, dtorVars>>
     \/ \E e \in EarlyErrors : Fail(e)
  /\ UNCHANGED <<objVars, resources>>

\* A KernelCall whose arguments are in place and whose operator is looked up.
\* Only OperatorMissing is counted; any other result, Ok included, becomes the
\* delayed error.
ResolveOperator ==
  /\ pc = "instrs" /\ <<cur, instr>> \in KernelCalls
  /\ \/ /\ missing' = missing + 1
        /\ UNCHANGED <<delayed, kernels>>
     \/ /\ delayed' = "Failed"
        /\ UNCHANGED <<missing, kernels>>
     \/ /\ delayed' = "Ok" /\ kernels' = kernels \cup {<<cur, instr>>}
        /\ UNCHANGED missing
  /\ instr' = instr + 1
  /\ UNCHANGED <<pc, cur, err, objVars, dtorVars, valueVars, bufferVars, handleVars>>

\* Any other instruction.
SetUpInstruction ==
  /\ pc = "instrs" /\ <<cur, instr>> \in Instructions \ KernelCalls
  /\ instr' = instr + 1
  /\ UNCHANGED <<pc, cur, delayed, missing, err, objVars, dtorVars, resources>>

\* The errors that return from init() at once: a null instruction, a bad index,
\* or an argument list or the operator's tensor metadata that does not fit.
InstructionFails ==
  /\ pc = "instrs" /\ <<cur, instr>> \in Instructions
  /\ \/ Fail("Failed")
     \/ /\ Kind[<<cur, instr>>] \in {"KernelCall", "DelegateCall"}
        /\ Fail("MemoryAllocationFailed")
  /\ UNCHANGED <<objVars, resources>>

EndChain ==
  /\ pc = "instrs" /\ instr = NInstr[cur]
  /\ pc' = "chains" /\ cur' = cur + 1
  /\ UNCHANGED <<initVars, err, objVars, dtorVars, resources>>

\* The end of init() when an operator is missing or delayed_error is not Ok.
InitFails ==
  /\ pc = "chains" /\ cur = NChain
  /\ \/ missing > 0 /\ Fail("OperatorMissing")
     \/ missing = 0 /\ delayed # "Ok" /\ Fail(delayed)
  /\ UNCHANGED <<objVars, resources>>

\* The end of init() when it returns Ok.
InitSucceeds ==
  /\ pc = "chains" /\ cur = NChain
  /\ missing = 0 /\ delayed = "Ok"
  /\ pc' = "initialized"
  /\ init_state' = [init_state EXCEPT ![Local] = "Initialized"]
  /\ UNCHANGED <<cur, initVars, err, live, n_value, values, n_delegate,
                 delegates, dtorVars, resources>>

\* Mutants: rhs keeps its delegates; rhs stays Initialized.
MoveKeepsDelegates(src, dst) ==
  /\ live' = live \cup {dst}
  /\ init_state' = [init_state EXCEPT ![dst] = init_state[src], ![src] = "Uninitialized"]
  /\ n_value' = [n_value EXCEPT ![dst] = n_value[src], ![src] = 0]
  /\ n_delegate' = [n_delegate EXCEPT ![dst] = n_delegate[src]]
  /\ values' = IF src \in values THEN (values \ {src}) \cup {dst} ELSE values
  /\ delegates' = IF src \in delegates THEN delegates \cup {dst} ELSE delegates

MoveKeepsState(src, dst) ==
  /\ live' = live \cup {dst}
  /\ init_state' = [init_state EXCEPT ![dst] = init_state[src]]
  /\ n_value' = [n_value EXCEPT ![dst] = n_value[src], ![src] = 0]
  /\ n_delegate' = [n_delegate EXCEPT ![dst] = n_delegate[src], ![src] = 0]
  /\ values' = IF src \in values THEN (values \ {src}) \cup {dst} ELSE values
  /\ delegates' = IF src \in delegates THEN (delegates \ {src}) \cup {dst}
                                       ELSE delegates

\* The move constructor of Method.
MoveConstruct(src, dst) ==
  /\ live' = live \cup {dst}
  /\ init_state' = [init_state EXCEPT ![dst] = init_state[src],
                                      ![src] = "Uninitialized"]
  /\ n_value' = [n_value EXCEPT ![dst] = n_value[src], ![src] = 0]
  /\ n_delegate' = [n_delegate EXCEPT ![dst] = n_delegate[src], ![src] = 0]
  /\ values' = IF src \in values THEN (values \ {src}) \cup {dst} ELSE values
  /\ delegates' = IF src \in delegates THEN (delegates \ {src}) \cup {dst}
                                       ELSE delegates

\* The end of load(): the local is moved into the Result, then destroyed.
ReturnMethod(dst) ==
  /\ pc = "initialized" /\ dst \notin live
  /\ MoveConstruct(Local, dst)
  /\ pc' = "moved"
  /\ BeginDtor(Local)
  /\ UNCHANGED <<cur, initVars, err, resources>>

-----------------------------------------------------------------------------
(* What the caller does with the Method, and the destructor *)

\* Method(Method&& rhs), from any live object, moved-from ones included.
Move(src, dst) ==
  /\ pc = "returned" /\ dying = None
  /\ src \in live /\ dst \notin live /\ dst # Local
  /\ MoveConstruct(src, dst)
  /\ UNCHANGED <<loadVars, dtorVars, resources>>

Destroy(o) ==
  /\ pc = "returned" /\ dying = None /\ o \in live
  /\ BeginDtor(o)
  /\ UNCHANGED <<loadVars, objVars, resources>>

\* ~Method(): the loop over the values ...
DestroyValue ==
  /\ dying # None /\ at = "values"
  /\ \/ /\ dying \in values /\ i < n_value[dying]
        /\ dtors' = [dtors EXCEPT ![i] = @ + 1]
        /\ i' = i + 1 /\ UNCHANGED at
     \/ /\ dying \notin values \/ i >= n_value[dying]
        /\ at' = "handle" /\ i' = 0 /\ UNCHANGED dtors
  /\ UNCHANGED <<loadVars, objVars, dying, built, unboxed, bufferVars,
                 handleVars, kernels>>

HasDelegate == dying \in delegates /\ i < n_delegate[dying]

\* Mutant: the segment is freed before the handle is destroyed.
DestroySegmentFirst ==
  /\ dying # None /\ at = "handle" /\ HasDelegate
  /\ FreeBuffer(i)
  /\ at' = "segment"
  /\ UNCHANGED <<loadVars, objVars, dying, i, valueVars, loaded, kept,
                 handleVars, kernels>>

\* ... and the loop over the delegates: ~BackendDelegate() destroys the handle,
\* then its member segment_ is destroyed, which frees what is left to free.
DestroyHandle ==
  /\ dying # None /\ at = "handle" /\ HasDelegate
  /\ destroys' = [destroys EXCEPT ![i] = @ + 1]
  /\ at' = "segment"
  /\ UNCHANGED <<loadVars, objVars, dying, i, valueVars, bufferVars, made, kernels>>

DestroySegment ==
  /\ dying # None /\ at = "segment"
  /\ FreeBuffer(i)
  /\ at' = "handle" /\ i' = i + 1
  /\ UNCHANGED <<loadVars, objVars, dying, valueVars, loaded, kept, handleVars, kernels>>

\* The object is gone, and its fields with it.
EndDestroy ==
  /\ dying # None /\ at = "handle" /\ ~HasDelegate
  /\ live' = live \ {dying}
  /\ init_state' = [init_state EXCEPT ![dying] = "Uninitialized"]
  /\ n_value' = [n_value EXCEPT ![dying] = 0]
  /\ n_delegate' = [n_delegate EXCEPT ![dying] = 0]
  /\ values' = values \ {dying} /\ delegates' = delegates \ {dying}
  /\ BeginDtor(None)
  /\ pc' = "returned"
  /\ UNCHANGED <<cur, initVars, err, resources>>

-----------------------------------------------------------------------------
LoadStep ==
  \/ Load \/ ParseValue \/ AllocateDelegates
  \/ GetProcessedData \/ PopulateCompileSpecsFails
  \/ BackendInitFails \/ BackendInit
  \/ AllocateChains \/ BeginChain \/ ResolveOperator \/ SetUpInstruction
  \/ InstructionFails \/ EndChain \/ InitFails \/ InitSucceeds
  \/ \E dst \in Objects : ReturnMethod(dst)

DtorStep == DestroyValue \/ DestroyHandle \/ DestroySegment \/ EndDestroy

Next ==
  \/ LoadStep \/ DtorStep
  \/ \E src, dst \in Objects : Move(src, dst)
  \/ \E o \in Objects : Destroy(o)

Spec == Init /\ [][Next]_vars

-----------------------------------------------------------------------------
(* Properties *)

Alive(d) == d \in made /\ destroys[d] = 0

\* Whatever step of load() fails and however the Method is moved around before
\* it is destroyed, ~Method(), ~BackendDelegate() and FreeableBuffer::Free()
\* release a value, a handle or a segment at most once, and only if it was made.
ReleasedOnce ==
  /\ \A v \in Values : dtors[v] <= IF v \in built THEN 1 ELSE 0
  /\ \A d \in Delegates : /\ destroys[d] <= IF d \in made THEN 1 ELSE 0
                          /\ frees[d] <= IF d \in loaded THEN 1 ELSE 0

\* Once load() has returned and every Method object is gone, nothing that any
\* step of load() made is left: no EValue, no backend handle, no segment.
NoLeak ==
  (pc = "returned" /\ live = {}) =>
     /\ \A v \in built : dtors[v] = 1
     /\ \A d \in made : destroys[d] = 1
     /\ \A d \in loaded : frees[d] = 1

\* A handle may point to the buffer that its backend left alone in init(): the
\* buffer has its data for as long as the handle exists (the comment in
\* BackendDelegate::Init), across moves and in the middle of the destructor.
SegmentOutlivesHandle ==
  \A d \in Delegates : Alive(d) /\ d \in kept => d \in data

\* A Method that says it is initialized, and whose destructor has not begun, has
\* all its values and all its delegates, alive.
ReadyToRun ==
  \A o \in Objects :
    o \in live /\ init_state[o] = "Initialized" /\ dying # o =>
      /\ n_value[o] = NValue /\ n_delegate[o] = NDelegate
      /\ \A v \in Values : v \in built /\ dtors[v] = 0
      /\ \A d \in Delegates : Alive(d)
====

------------------------ MODULE MethodLifecycleProofs ------------------------
(***************************************************************************)
(* Proofs about MethodLifecycle, for any number of values, delegates,      *)
(* chains, instructions and Method objects.                                *)
(*                                                                         *)
(* The inductive invariant says that at most one object owns the values    *)
(* and at most one owns the delegates, and that what its destructor has    *)
(* not reached yet is exactly what was made and not released.              *)
(***************************************************************************)
EXTENDS MethodLifecycle, TLAPS

-----------------------------------------------------------------------------
(* The inductive invariant *)

Loading == {"values", "delegates", "processed", "chains", "instrs", "initialized"}

\* Where load() is determines what its local object holds.
LoadInv ==
  /\ pc = "uncalled" =>
       /\ live = {} /\ dying = None
       /\ built = {} /\ made = {} /\ data = {} /\ loaded = {}
  /\ pc \in Loading => dying = None /\ live = {Local} /\ Local \in values
  /\ pc = "values" =>
       /\ n_value[Local] = cur /\ delegates = {}
       /\ made = {} /\ data = {} /\ loaded = {}
  /\ pc \in Loading \ {"values"} =>
       n_value[Local] = NValue /\ Local \in delegates
  /\ pc \in {"delegates", "processed"} => n_delegate[Local] = cur
  /\ pc = "delegates" => \A d \in loaded : d < cur
  /\ pc = "processed" =>
       cur < NDelegate /\ cur \in data /\ \A d \in loaded : d <= cur
  /\ pc \in {"chains", "instrs", "initialized"} =>
       n_delegate[Local] = NDelegate
  /\ pc \in {"unwind", "moved"} => dying = Local
  /\ pc = "crashed" => dying = None

\* The fields of an object agree with each other, and owners are unique.
ObjInv ==
  /\ values \subseteq live /\ delegates \subseteq live
  /\ \A o \in Objects :
       /\ o \notin values => n_value[o] = 0
       /\ o \notin delegates => n_delegate[o] = 0
       /\ init_state[o] = "Initialized" =>
            /\ o \in values /\ n_value[o] = NValue
            /\ o \in delegates /\ n_delegate[o] = NDelegate
  /\ \A o, p \in values : o = p
  /\ \A o, p \in delegates : o = p
  /\ dying # None => dying \in live
  /\ at = "segment" => HasDelegate

\* The destructor of o has passed value v, handle d, buffer d.
ValuePassed(o, v)  == dying = o /\ (at # "values" \/ v < i)
HandlePassed(o, d) == dying = o /\ at # "values" /\ (d < i \/ (at = "segment" /\ d = i))
BufferPassed(o, d) == dying = o /\ at # "values" /\ d < i

\* An EValue was destroyed if it was built and its owner's destructor has
\* passed it, or it has no owner any more.
ValueInv ==
  /\ \A o \in values :
       /\ built = 0 .. n_value[o] - 1
       /\ \A v \in Values :
            dtors[v] = IF v \in built /\ ValuePassed(o, v) THEN 1 ELSE 0
  /\ values = {} => \A v \in Values : dtors[v] = IF v \in built THEN 1 ELSE 0

\* The same for the handles.
HandleInv ==
  /\ kept \subseteq made
  /\ \A o \in delegates :
       /\ made = 0 .. n_delegate[o] - 1
       /\ \A d \in Delegates :
            destroys[d] = IF d \in made /\ HandlePassed(o, d) THEN 1 ELSE 0
  /\ delegates = {} =>
       \A d \in Delegates : destroys[d] = IF d \in made THEN 1 ELSE 0

\* A buffer with data is held by Init's local variable or by a delegate that
\* the destructor has not passed; one that its backend kept has its data until
\* the handle is destroyed.
BufferInv ==
  /\ data \cap Segments \subseteq loaded
  /\ \A d \in Delegates : frees[d] = IF d \in loaded \ data THEN 1 ELSE 0
  /\ \A o \in delegates :
       /\ \A d \in data : \/ pc = "processed" /\ d = cur
                          \/ d < n_delegate[o] /\ ~BufferPassed(o, d)
       /\ \A d \in kept : HandlePassed(o, d) \/ d \in data
  /\ delegates = {} => data = {}

IInv == TypeOK /\ LoadInv /\ ObjInv /\ ValueInv /\ HandleInv /\ BufferInv

-----------------------------------------------------------------------------
\* Every action keeps the variables in their types.
LEMMA TypeNext ==
  ASSUME TypeOK, LoadInv, [Next]_vars PROVE TypeOK'
<1> USE DEF TypeOK, loadVars, initVars, objVars, dtorVars, valueVars, bufferVars, handleVars, resources
<1>1. CASE Load
  BY <1>1, LifecycleAssumption DEF Load, GoTo, EarlyErrors, Fail, BeginDtor, InitState, Errors
<1>2. CASE ParseValue
  <2>0. cur \in Values
    BY <1>2, LifecycleAssumption DEF ParseValue, Values
  <2>1. built' \subseteq Values /\ unboxed' \subseteq IntLists
    BY Zenon, <1>2, <2>0 DEF ParseValue
  <2>2. n_value' \in [Objects -> 0 .. NValue]
    BY <1>2, LifecycleAssumption DEF ParseValue
  <2>3. QED
    BY <1>2, <2>1, <2>2, LifecycleAssumption DEF ParseValue, EarlyErrors, Fail, BeginDtor, Errors
<1>3. CASE AllocateDelegates
  BY <1>3, LifecycleAssumption DEF AllocateDelegates, GoTo, EarlyErrors, Fail, BeginDtor, Errors
<1>4. CASE GetProcessedData
  <2>0. cur \in Delegates
    BY <1>4, LifecycleAssumption DEF GetProcessedData, Delegates
  <2>1. data' \subseteq Delegates /\ loaded' \subseteq Segments
    BY Zenon, <1>4, <2>0 DEF GetProcessedData
  <2>2. QED
    BY <1>4, <2>1, LifecycleAssumption DEF GetProcessedData, Fail, BeginDtor, Errors
<1>5. CASE PopulateCompileSpecsFails
  BY <1>5, LifecycleAssumption DEF PopulateCompileSpecsFails, FreeBuffer, Fail, BeginDtor, Errors
<1>6. CASE BackendInitFails
  BY <1>6, LifecycleAssumption DEF BackendInitFails, FreeBuffer, Fail, BeginDtor, Errors
<1>7. CASE BackendInit
  <2>1. cur \in Delegates
    BY <1>7, LifecycleAssumption, Zenon DEF BackendInit, LoadInv, Delegates
  <2>2. n_delegate' \in [Objects -> 0 .. NDelegate]
    BY <1>7, <2>1, LifecycleAssumption DEF BackendInit, Delegates
  <2>3. frees' \in [Delegates -> Nat]
    BY <1>7, <2>1 DEF BackendInit, FreeBuffer
  <2>4. data' \subseteq Delegates /\ kept' \subseteq Delegates /\ made' \subseteq Delegates
    BY Zenon, <1>7, <2>1 DEF BackendInit, FreeBuffer
  <2>5. QED
    BY <1>7, <2>2, <2>3, <2>4 DEF BackendInit
<1>8. CASE AllocateChains
  BY <1>8, LifecycleAssumption DEF AllocateChains, GoTo, EarlyErrors, Fail, BeginDtor, Errors
<1>9. CASE BeginChain
  BY <1>9, LifecycleAssumption DEF BeginChain, EarlyErrors, Fail, BeginDtor, Errors
<1>10. CASE ResolveOperator
  BY <1>10, LifecycleAssumption DEF ResolveOperator, Errors
<1>11. CASE SetUpInstruction
  BY <1>11, LifecycleAssumption DEF SetUpInstruction
<1>12. CASE InstructionFails
  BY <1>12, LifecycleAssumption DEF InstructionFails, Fail, BeginDtor, Errors
<1>13. CASE EndChain
  BY <1>13, LifecycleAssumption DEF EndChain
<1>14. CASE InitFails
  BY <1>14, LifecycleAssumption DEF InitFails, Fail, BeginDtor, Errors
<1>15. CASE InitSucceeds
  BY <1>15, LifecycleAssumption, Zenon DEF InitSucceeds, InitState
<1>16. CASE \E dst \in Objects : ReturnMethod(dst)
  BY <1>16, LifecycleAssumption DEF ReturnMethod, MoveConstruct, BeginDtor, InitState
<1>17. CASE DestroyValue
  <2>1. CASE dying \in values /\ i < n_value[dying]
    <3>1. i \in Values
      BY <2>1, LifecycleAssumption DEF Values
    <3>2. dtors' \in [Values -> Nat]
      BY <1>17, <3>1 DEF DestroyValue
    <3>3. QED
      BY <1>17, <3>2 DEF DestroyValue
  <2>2. CASE dying \notin values \/ i >= n_value[dying]
    BY <1>17, <2>2 DEF DestroyValue
  <2>3. QED
    BY <1>17, <2>1, <2>2, Zenon DEF DestroyValue
<1>18. CASE DestroyHandle
  <2>1. i \in Delegates
    BY <1>18, LifecycleAssumption DEF DestroyHandle, HasDelegate, Delegates
  <2>2. destroys' \in [Delegates -> Nat]
    BY <1>18, <2>1 DEF DestroyHandle
  <2>3. QED
    BY <1>18, <2>2, Zenon DEF DestroyHandle
<1>19. CASE DestroySegment
  BY <1>19, LifecycleAssumption DEF DestroySegment, FreeBuffer
<1>20. CASE EndDestroy
  BY <1>20, LifecycleAssumption DEF EndDestroy, HasDelegate, BeginDtor, InitState
<1>21. CASE \E src, dst \in Objects : Move(src, dst)
  BY <1>21, LifecycleAssumption DEF Move, MoveConstruct, InitState
<1>22. CASE \E o \in Objects : Destroy(o)
  BY <1>22, LifecycleAssumption DEF Destroy, BeginDtor
<1>23. CASE UNCHANGED vars
  BY SMTT(60), <1>23, LifecycleAssumption DEF vars
<1>24. QED
  BY ZenonT(60), <1>1, <1>2, <1>3, <1>4, <1>5, <1>6, <1>7, <1>8, <1>9, <1>10, <1>11, <1>12, <1>13, <1>14, <1>15, <1>16, <1>17, <1>18, <1>19, <1>20, <1>21, <1>22, <1>23 DEF Next, LoadStep, DtorStep

\* Every action keeps the fields of the objects consistent.
LEMMA ObjNext ==
  ASSUME TypeOK, LoadInv, ObjInv, [Next]_vars PROVE ObjInv'
<1> USE DEF TypeOK, LoadInv, Loading, ObjInv, HasDelegate, loadVars, initVars, objVars, dtorVars, valueVars, bufferVars, handleVars, resources
<1>1. CASE Load
  BY <1>1, LifecycleAssumption DEF Load, GoTo, EarlyErrors, Fail, BeginDtor
<1>2. CASE ParseValue
  BY <1>2, LifecycleAssumption DEF ParseValue, EarlyErrors, Fail, BeginDtor
<1>3. CASE AllocateDelegates
  BY <1>3, LifecycleAssumption, Zenon DEF AllocateDelegates, GoTo, EarlyErrors, Fail, BeginDtor
<1>4. CASE GetProcessedData
  BY <1>4, LifecycleAssumption, Zenon DEF GetProcessedData, Fail, BeginDtor
<1>5. CASE PopulateCompileSpecsFails
  BY <1>5, LifecycleAssumption, Zenon DEF PopulateCompileSpecsFails, FreeBuffer, Fail, BeginDtor
<1>6. CASE BackendInitFails
  BY <1>6, LifecycleAssumption, Zenon DEF BackendInitFails, FreeBuffer, Fail, BeginDtor
<1>7. CASE BackendInit
  BY <1>7, LifecycleAssumption DEF BackendInit, FreeBuffer
<1>8. CASE AllocateChains
  BY <1>8, LifecycleAssumption, Zenon DEF AllocateChains, GoTo, EarlyErrors, Fail, BeginDtor
<1>9. CASE BeginChain
  BY <1>9, LifecycleAssumption, Zenon DEF BeginChain, EarlyErrors, Fail, BeginDtor
<1>10. CASE ResolveOperator
  BY <1>10, LifecycleAssumption, Zenon DEF ResolveOperator
<1>11. CASE SetUpInstruction
  BY <1>11, LifecycleAssumption, Zenon DEF SetUpInstruction
<1>12. CASE InstructionFails
  BY <1>12, LifecycleAssumption, Zenon DEF InstructionFails, Fail, BeginDtor
<1>13. CASE EndChain
  BY <1>13, LifecycleAssumption, Zenon DEF EndChain
<1>14. CASE InitFails
  BY <1>14, LifecycleAssumption, Zenon DEF InitFails, Fail, BeginDtor
<1>15. CASE InitSucceeds
  BY <1>15, LifecycleAssumption DEF InitSucceeds
<1>16. CASE \E dst \in Objects : ReturnMethod(dst)
  BY <1>16, LifecycleAssumption DEF ReturnMethod, MoveConstruct, BeginDtor
<1>17. CASE DestroyValue
  BY <1>17, LifecycleAssumption, Zenon DEF DestroyValue
<1>18. CASE DestroyHandle
  BY <1>18, LifecycleAssumption, Zenon DEF DestroyHandle, HasDelegate
<1>19. CASE DestroySegment
  BY <1>19, LifecycleAssumption, Zenon DEF DestroySegment, FreeBuffer
<1>20. CASE EndDestroy
  BY <1>20, LifecycleAssumption DEF EndDestroy, HasDelegate, BeginDtor
<1>21. CASE \E src, dst \in Objects : Move(src, dst)
  BY <1>21, LifecycleAssumption DEF Move, MoveConstruct
<1>22. CASE \E o \in Objects : Destroy(o)
  BY <1>22, LifecycleAssumption DEF Destroy, BeginDtor
<1>23. CASE UNCHANGED vars
  BY SMTT(60), <1>23, LifecycleAssumption DEF vars
<1>24. QED
  BY ZenonT(60), <1>1, <1>2, <1>3, <1>4, <1>5, <1>6, <1>7, <1>8, <1>9, <1>10, <1>11, <1>12, <1>13, <1>14, <1>15, <1>16, <1>17, <1>18, <1>19, <1>20, <1>21, <1>22, <1>23 DEF Next, LoadStep, DtorStep

\* Every action keeps load() and its local object in step.
LEMMA LoadNext ==
  ASSUME TypeOK, LoadInv, ObjInv, [Next]_vars PROVE LoadInv'
<1> USE DEF TypeOK, LoadInv, Loading, loadVars, initVars, objVars, dtorVars, valueVars, bufferVars, handleVars, resources
<1>1. CASE Load
  BY <1>1, LifecycleAssumption, Zenon DEF Load, GoTo, EarlyErrors, Fail, BeginDtor, ObjInv
<1>2. CASE ParseValue
  BY <1>2, LifecycleAssumption, Zenon DEF ParseValue, EarlyErrors, Fail, BeginDtor
<1>3. CASE AllocateDelegates
  BY <1>3, LifecycleAssumption, Zenon DEF AllocateDelegates, GoTo, EarlyErrors, Fail, BeginDtor, ObjInv
<1>4. CASE GetProcessedData
  <2>1. cur \in Delegates /\ loaded \subseteq Nat
    BY <1>4, LifecycleAssumption DEF GetProcessedData, Delegates
  <2>2. \A d \in loaded : d <= cur
    BY <1>4, <2>1 DEF GetProcessedData
  <2>3. CASE pc' = "processed"
    <3>1. \A d \in loaded' : d <= cur'
      <4>1. loaded' \subseteq loaded \cup {cur} /\ cur' = cur /\ cur \in Nat
        BY <1>4, <2>3, Zenon DEF GetProcessedData, Fail
      <4>2. cur <= cur
        BY <4>1
      <4>3. QED
        BY <2>2, <4>1, <4>2, Zenon
    <3>2. cur' < NDelegate /\ cur' \in data'
      BY <1>4, <2>3, Zenon DEF GetProcessedData, Fail
    <3>3. QED
      BY <1>4, <2>3, <3>1, <3>2, Zenon DEF GetProcessedData, Fail
  <2>4. CASE Fail("Failed")
    BY <1>4, <2>4, Zenon DEF GetProcessedData, Fail, BeginDtor
  <2>5. QED
    BY <1>4, <2>3, <2>4, Zenon DEF GetProcessedData
<1>5. CASE PopulateCompileSpecsFails
  BY <1>5, LifecycleAssumption, Zenon DEF PopulateCompileSpecsFails, FreeBuffer, Fail, BeginDtor
<1>6. CASE BackendInitFails
  BY <1>6, LifecycleAssumption, Zenon DEF BackendInitFails, FreeBuffer, Fail, BeginDtor
<1>7. CASE BackendInit
  BY <1>7, LifecycleAssumption DEF BackendInit, FreeBuffer, Delegates
<1>8. CASE AllocateChains
  BY <1>8, LifecycleAssumption, Zenon DEF AllocateChains, GoTo, EarlyErrors, Fail, BeginDtor
<1>9. CASE BeginChain
  BY <1>9, LifecycleAssumption, Zenon DEF BeginChain, EarlyErrors, Fail, BeginDtor
<1>10. CASE ResolveOperator
  BY <1>10, LifecycleAssumption, Zenon DEF ResolveOperator
<1>11. CASE SetUpInstruction
  BY <1>11, LifecycleAssumption, Zenon DEF SetUpInstruction
<1>12. CASE InstructionFails
  BY <1>12, LifecycleAssumption, Zenon DEF InstructionFails, Fail, BeginDtor
<1>13. CASE EndChain
  BY <1>13, LifecycleAssumption, Zenon DEF EndChain
<1>14. CASE InitFails
  BY <1>14, LifecycleAssumption, Zenon DEF InitFails, Fail, BeginDtor
<1>15. CASE InitSucceeds
  BY <1>15, LifecycleAssumption, Zenon DEF InitSucceeds
<1>16. CASE \E dst \in Objects : ReturnMethod(dst)
  BY <1>16, LifecycleAssumption, Zenon DEF ReturnMethod, MoveConstruct, BeginDtor
<1>17. CASE DestroyValue
  BY <1>17, LifecycleAssumption, Zenon DEF DestroyValue
<1>18. CASE DestroyHandle
  BY <1>18, LifecycleAssumption, Zenon DEF DestroyHandle, HasDelegate
<1>19. CASE DestroySegment
  BY <1>19, LifecycleAssumption, Zenon DEF DestroySegment, FreeBuffer
<1>20. CASE EndDestroy
  BY <1>20, LifecycleAssumption, SMTT(60) DEF EndDestroy, HasDelegate, BeginDtor
<1>21. CASE \E src, dst \in Objects : Move(src, dst)
  BY <1>21, LifecycleAssumption, SMTT(60) DEF Move, MoveConstruct
<1>22. CASE \E o \in Objects : Destroy(o)
  BY <1>22, LifecycleAssumption, SMTT(60) DEF Destroy, BeginDtor
<1>23. CASE UNCHANGED vars
  BY SMTT(60), <1>23, LifecycleAssumption DEF vars
<1>24. QED
  BY ZenonT(60), <1>1, <1>2, <1>3, <1>4, <1>5, <1>6, <1>7, <1>8, <1>9, <1>10, <1>11, <1>12, <1>13, <1>14, <1>15, <1>16, <1>17, <1>18, <1>19, <1>20, <1>21, <1>22, <1>23 DEF Next, LoadStep, DtorStep


\* Every action keeps the count of destroyed values.
LEMMA ValueNext ==
  ASSUME TypeOK, LoadInv, ObjInv, ValueInv, [Next]_vars PROVE ValueInv'
<1> USE DEF TypeOK, LoadInv, Loading, ObjInv, ValueInv, ValuePassed, loadVars, initVars, objVars, dtorVars, valueVars, bufferVars, handleVars, resources
<1>1. CASE Load
  <2>1. values = {} /\ built = {}
    BY <1>1, Zenon DEF Load
  <2>2. n_value[Local] = 0 /\ 0 .. 0 - 1 = {}
    BY <2>1, LifecycleAssumption
  <2>3. \A v \in Values : dtors[v] = 0
    BY <2>1, Zenon
  <2>4. QED
    BY <1>1, <2>1, <2>2, <2>3, LifecycleAssumption, Zenon DEF Load, GoTo, EarlyErrors, Fail, BeginDtor
<1>2. CASE ParseValue
  <2>1. CASE built' = built \cup {cur} /\ n_value' = [n_value EXCEPT ![Local] = cur + 1]
    <3>1. built = 0 .. cur - 1 /\ values = {Local} /\ n_value'[Local] = cur + 1
      BY <1>2, <2>1, LifecycleAssumption DEF ParseValue
    <3>2. built' = 0 .. n_value'[Local] - 1
      BY <2>1, <3>1
    <3>3. \A v \in Values : dtors[v] = 0
      BY <1>2, <3>1, LifecycleAssumption, Zenon DEF ParseValue
    <3>4. dying' = None /\ values' = values /\ dtors' = dtors
      BY <1>2, <2>1, LifecycleAssumption DEF ParseValue
    <3>5. QED
      BY <3>1, <3>2, <3>3, <3>4, LifecycleAssumption, Zenon
  <2>2. CASE UNCHANGED <<n_value, built>>
    BY <1>2, <2>2, LifecycleAssumption DEF ParseValue, EarlyErrors, Fail, BeginDtor
  <2>3. QED
    BY <1>2, <2>1, <2>2, Zenon DEF ParseValue
<1>3. CASE AllocateDelegates
  BY <1>3, LifecycleAssumption DEF AllocateDelegates, GoTo, EarlyErrors, Fail, BeginDtor
<1>4. CASE GetProcessedData
  BY <1>4, LifecycleAssumption DEF GetProcessedData, Fail, BeginDtor
<1>5. CASE PopulateCompileSpecsFails
  BY <1>5, LifecycleAssumption DEF PopulateCompileSpecsFails, FreeBuffer, Fail, BeginDtor
<1>6. CASE BackendInitFails
  BY <1>6, LifecycleAssumption DEF BackendInitFails, FreeBuffer, Fail, BeginDtor
<1>7. CASE BackendInit
  BY <1>7, LifecycleAssumption DEF BackendInit, FreeBuffer
<1>8. CASE AllocateChains
  BY <1>8, LifecycleAssumption DEF AllocateChains, GoTo, EarlyErrors, Fail, BeginDtor
<1>9. CASE BeginChain
  BY <1>9, LifecycleAssumption DEF BeginChain, EarlyErrors, Fail, BeginDtor
<1>10. CASE ResolveOperator
  BY <1>10, LifecycleAssumption DEF ResolveOperator
<1>11. CASE SetUpInstruction
  BY <1>11, LifecycleAssumption DEF SetUpInstruction
<1>12. CASE InstructionFails
  BY <1>12, LifecycleAssumption DEF InstructionFails, Fail, BeginDtor
<1>13. CASE EndChain
  BY <1>13, LifecycleAssumption DEF EndChain
<1>14. CASE InitFails
  BY <1>14, LifecycleAssumption DEF InitFails, Fail, BeginDtor
<1>15. CASE InitSucceeds
  BY <1>15, LifecycleAssumption DEF InitSucceeds
<1>16. CASE \E dst \in Objects : ReturnMethod(dst)
  BY <1>16, LifecycleAssumption DEF ReturnMethod, MoveConstruct, BeginDtor
<1>17. CASE DestroyValue
  BY SMTT(60), <1>17, LifecycleAssumption DEF DestroyValue
<1>18. CASE DestroyHandle
  BY <1>18, LifecycleAssumption DEF DestroyHandle, HasDelegate
<1>19. CASE DestroySegment
  BY <1>19, LifecycleAssumption DEF DestroySegment, FreeBuffer
<1>20. CASE EndDestroy
  BY <1>20, LifecycleAssumption DEF EndDestroy, HasDelegate, BeginDtor
<1>21. CASE \E src, dst \in Objects : Move(src, dst)
  BY <1>21, LifecycleAssumption, SMTT(60) DEF Move, MoveConstruct
<1>22. CASE \E o \in Objects : Destroy(o)
  BY <1>22, LifecycleAssumption DEF Destroy, BeginDtor
<1>23. CASE UNCHANGED vars
  BY SMTT(60), <1>23, LifecycleAssumption DEF vars
<1>24. QED
  BY ZenonT(60), <1>1, <1>2, <1>3, <1>4, <1>5, <1>6, <1>7, <1>8, <1>9, <1>10, <1>11, <1>12, <1>13, <1>14, <1>15, <1>16, <1>17, <1>18, <1>19, <1>20, <1>21, <1>22, <1>23 DEF Next, LoadStep, DtorStep

\* Every action keeps the count of destroyed handles.
LEMMA HandleNext ==
  ASSUME TypeOK, LoadInv, ObjInv, HandleInv, [Next]_vars PROVE HandleInv'
<1> USE DEF TypeOK, LoadInv, Loading, ObjInv, HandleInv, HandlePassed, loadVars, initVars, objVars, dtorVars, valueVars, bufferVars, handleVars, resources
<1>1. CASE Load
  BY <1>1, LifecycleAssumption, Zenon DEF Load, GoTo, EarlyErrors, Fail, BeginDtor
<1>2. CASE ParseValue
  BY <1>2, LifecycleAssumption, Zenon DEF ParseValue, EarlyErrors, Fail, BeginDtor
<1>3. CASE AllocateDelegates
  <2>1. n_delegate[Local] = 0 /\ 0 .. 0 - 1 = {} /\ made = {} /\ delegates = {}
    BY <1>3, LifecycleAssumption DEF AllocateDelegates
  <2>2. QED
    BY <1>3, <2>1, LifecycleAssumption, Zenon DEF AllocateDelegates, GoTo, EarlyErrors, Fail, BeginDtor
<1>4. CASE GetProcessedData
  BY <1>4, LifecycleAssumption DEF GetProcessedData, Fail, BeginDtor
<1>5. CASE PopulateCompileSpecsFails
  BY <1>5, LifecycleAssumption DEF PopulateCompileSpecsFails, FreeBuffer, Fail, BeginDtor
<1>6. CASE BackendInitFails
  BY <1>6, LifecycleAssumption DEF BackendInitFails, FreeBuffer, Fail, BeginDtor
<1>7. CASE BackendInit
  BY <1>7, LifecycleAssumption DEF BackendInit, FreeBuffer
<1>8. CASE AllocateChains
  BY <1>8, LifecycleAssumption DEF AllocateChains, GoTo, EarlyErrors, Fail, BeginDtor
<1>9. CASE BeginChain
  BY <1>9, LifecycleAssumption DEF BeginChain, EarlyErrors, Fail, BeginDtor
<1>10. CASE ResolveOperator
  BY <1>10, LifecycleAssumption DEF ResolveOperator
<1>11. CASE SetUpInstruction
  BY <1>11, LifecycleAssumption DEF SetUpInstruction
<1>12. CASE InstructionFails
  BY <1>12, LifecycleAssumption DEF InstructionFails, Fail, BeginDtor
<1>13. CASE EndChain
  BY <1>13, LifecycleAssumption DEF EndChain
<1>14. CASE InitFails
  BY <1>14, LifecycleAssumption DEF InitFails, Fail, BeginDtor
<1>15. CASE InitSucceeds
  BY <1>15, LifecycleAssumption DEF InitSucceeds
<1>16. CASE \E dst \in Objects : ReturnMethod(dst)
  BY <1>16, LifecycleAssumption DEF ReturnMethod, MoveConstruct, BeginDtor
<1>17. CASE DestroyValue
  BY <1>17, LifecycleAssumption DEF DestroyValue
<1>18. CASE DestroyHandle
  BY <1>18, LifecycleAssumption, SMTT(60) DEF DestroyHandle, HasDelegate
<1>19. CASE DestroySegment
  BY SMTT(60), <1>19, LifecycleAssumption DEF DestroySegment, FreeBuffer
<1>20. CASE EndDestroy
  BY <1>20, LifecycleAssumption DEF EndDestroy, HasDelegate, BeginDtor
<1>21. CASE \E src, dst \in Objects : Move(src, dst)
  BY <1>21, LifecycleAssumption, SMTT(60) DEF Move, MoveConstruct
<1>22. CASE \E o \in Objects : Destroy(o)
  BY <1>22, LifecycleAssumption DEF Destroy, BeginDtor
<1>23. CASE UNCHANGED vars
  BY SMTT(60), <1>23, LifecycleAssumption DEF vars
<1>24. QED
  BY ZenonT(60), <1>1, <1>2, <1>3, <1>4, <1>5, <1>6, <1>7, <1>8, <1>9, <1>10, <1>11, <1>12, <1>13, <1>14, <1>15, <1>16, <1>17, <1>18, <1>19, <1>20, <1>21, <1>22, <1>23 DEF Next, LoadStep, DtorStep

\* Every action keeps the count of freed buffers.
LEMMA BufferNext ==
  ASSUME TypeOK, LoadInv, ObjInv, HandleInv, BufferInv, [Next]_vars PROVE BufferInv'
<1> USE DEF TypeOK, LoadInv, Loading, ObjInv, HasDelegate, BufferInv, HandlePassed, BufferPassed, loadVars, initVars, objVars, dtorVars, valueVars, bufferVars, handleVars, resources
<1>1. CASE Load
  BY <1>1, LifecycleAssumption, Zenon DEF Load, GoTo, EarlyErrors, Fail, BeginDtor
<1>2. CASE ParseValue
  BY <1>2, LifecycleAssumption, Zenon DEF ParseValue, EarlyErrors, Fail, BeginDtor
<1>3. CASE AllocateDelegates
  <2>1. data = {} /\ kept = {}
    BY <1>3, SMTT(60) DEF AllocateDelegates, HandleInv
  <2>2. QED
    BY <1>3, <2>1, LifecycleAssumption, Zenon DEF AllocateDelegates, GoTo, EarlyErrors, Fail, BeginDtor
<1>4. CASE GetProcessedData
  BY <1>4, LifecycleAssumption, SMTT(60) DEF GetProcessedData, Fail, BeginDtor
<1>5. CASE PopulateCompileSpecsFails
  <2>1. pc = "processed" /\ cur \in Delegates /\ delegates = {Local} /\ dying = None
    BY <1>5, LifecycleAssumption DEF PopulateCompileSpecsFails, Delegates
  <2>2. n_delegate[Local] = cur /\ made = 0 .. cur - 1
    BY <2>1, LifecycleAssumption, Zenon DEF HandleInv
  <2>3. cur \notin kept
    BY <2>2, LifecycleAssumption DEF HandleInv
  <2>4. \A d \in Delegates : frees'[d] = IF d \in loaded' \ data' THEN 1 ELSE 0
    BY <1>5, <2>1 DEF PopulateCompileSpecsFails, FreeBuffer
  <2>5. QED
    BY <1>5, <2>1, <2>2, <2>3, <2>4, LifecycleAssumption, SMTT(60) DEF PopulateCompileSpecsFails, FreeBuffer, Fail, BeginDtor
<1>6. CASE BackendInitFails
  <2>1. pc = "processed" /\ cur \in Delegates /\ delegates = {Local} /\ dying = None
    BY <1>6, LifecycleAssumption DEF BackendInitFails, Delegates
  <2>2. n_delegate[Local] = cur /\ made = 0 .. cur - 1
    BY <2>1, LifecycleAssumption, Zenon DEF HandleInv
  <2>3. cur \notin kept
    BY <2>2, LifecycleAssumption DEF HandleInv
  <2>4. \A d \in Delegates : frees'[d] = IF d \in loaded' \ data' THEN 1 ELSE 0
    BY <1>6, <2>1 DEF BackendInitFails, FreeBuffer
  <2>5. QED
    BY <1>6, <2>1, <2>2, <2>3, <2>4, LifecycleAssumption DEF BackendInitFails, FreeBuffer, Fail, BeginDtor
<1>7. CASE BackendInit
  <2>1. pc = "processed" /\ cur \in Delegates /\ delegates = {Local} /\ dying = None
    BY <1>7, LifecycleAssumption DEF BackendInit, Delegates
  <2>2. n_delegate[Local] = cur /\ made = 0 .. cur - 1
    BY <2>1, LifecycleAssumption, Zenon DEF HandleInv
  <2>3. cur \notin kept
    BY <2>2, LifecycleAssumption DEF HandleInv
  <2>4. \A d \in Delegates : frees'[d] = IF d \in loaded' \ data' THEN 1 ELSE 0
    BY <1>7, <2>1 DEF BackendInit, FreeBuffer
  <2>5. n_delegate'[Local] = cur + 1 /\ delegates' = {Local} /\ dying' = None
    BY <1>7, <2>1, LifecycleAssumption, Zenon DEF BackendInit
  <2>6. \A d \in data : d <= cur
    BY <2>1, <2>2, LifecycleAssumption DEF Delegates
  <2>7. \A d \in kept : d \in data /\ d # cur
    BY <2>1, <2>3, LifecycleAssumption, Zenon
  <2>8. data' \cap Segments \subseteq loaded'
    BY <1>7, Zenon DEF BackendInit, FreeBuffer
  <2>9. \A d \in data' : d < cur + 1
    <3>1. data' \subseteq data
      BY <1>7, Zenon DEF BackendInit, FreeBuffer
    <3>2. QED
      BY <2>6, <3>1, LifecycleAssumption DEF Delegates
  <2>10. \A d \in kept' : d \in data'
    BY <1>7, <2>7 DEF BackendInit, FreeBuffer
  <2>11. QED
    BY <2>4, <2>5, <2>8, <2>9, <2>10, LifecycleAssumption
<1>8. CASE AllocateChains
  BY <1>8, LifecycleAssumption, SMTT(60) DEF AllocateChains, GoTo, EarlyErrors, Fail, BeginDtor
<1>9. CASE BeginChain
  BY <1>9, LifecycleAssumption, SMTT(60) DEF BeginChain, EarlyErrors, Fail, BeginDtor
<1>10. CASE ResolveOperator
  BY <1>10, LifecycleAssumption, SMTT(60) DEF ResolveOperator
<1>11. CASE SetUpInstruction
  BY <1>11, LifecycleAssumption, SMTT(60) DEF SetUpInstruction
<1>12. CASE InstructionFails
  BY <1>12, LifecycleAssumption, SMTT(60) DEF InstructionFails, Fail, BeginDtor
<1>13. CASE EndChain
  BY <1>13, LifecycleAssumption, Zenon DEF EndChain
<1>14. CASE InitFails
  BY <1>14, LifecycleAssumption, Zenon DEF InitFails, Fail, BeginDtor
<1>15. CASE InitSucceeds
  BY <1>15, LifecycleAssumption, Zenon DEF InitSucceeds
<1>16. CASE \E dst \in Objects : ReturnMethod(dst)
  BY <1>16, LifecycleAssumption DEF ReturnMethod, MoveConstruct, BeginDtor
<1>17. CASE DestroyValue
  <2>1. \A d \in Delegates : ~(d < 0)
    BY LifecycleAssumption DEF Delegates
  <2>2. QED
    BY <1>17, <2>1 DEF DestroyValue
<1>18. CASE DestroyHandle
  BY <1>18, LifecycleAssumption, Zenon DEF DestroyHandle, HasDelegate
<1>19. CASE DestroySegment
  <2>0. dying \in Objects /\ HasDelegate
    BY <1>19, Zenon DEF DestroySegment
  <2>1. i \in Delegates
    BY <2>0, LifecycleAssumption DEF Delegates
  <2>2. \A d \in Delegates : frees'[d] = IF d \in loaded' \ data' THEN 1 ELSE 0
    BY <1>19, <2>1 DEF DestroySegment, FreeBuffer
  <2>3. \A o \in delegates : o = dying
    BY <2>0, SMTT(60)
  <2>4. \A d \in data' : \/ pc' = "processed" /\ d = cur'
                         \/ d < n_delegate'[dying] /\ ~BufferPassed(dying, d)'
    BY <1>19, <2>0, <2>1, LifecycleAssumption, SMTT(60) DEF DestroySegment, FreeBuffer, Delegates
  <2>5. \A d \in kept' : HandlePassed(dying, d)' \/ d \in data'
    BY <1>19, <2>0, <2>1, LifecycleAssumption, SMTT(60) DEF DestroySegment, FreeBuffer, Delegates
  <2>6. QED
    BY <1>19, <2>0, <2>2, <2>3, <2>4, <2>5, Zenon DEF DestroySegment, FreeBuffer
<1>20. CASE EndDestroy
  <2>1. CASE dying \in delegates
    <3>1. i >= n_delegate[dying] /\ \A o \in delegates : o = dying
      BY <1>20, <2>1, LifecycleAssumption DEF EndDestroy
    <3>2. pc # "processed"
      BY <1>20, LifecycleAssumption, Zenon DEF EndDestroy
    <3>3. data = {}
      BY <1>20, <2>1, <3>1, <3>2, LifecycleAssumption, SMTT(60) DEF EndDestroy, Delegates
    <3>4. QED
      BY <1>20, <3>1, <3>3, Zenon DEF EndDestroy
  <2>2. CASE dying \notin delegates
    <3>1. delegates' = delegates /\ pc # "processed"
      BY <1>20, <2>2, LifecycleAssumption, SMTT(60) DEF EndDestroy
    <3>2. \A o \in delegates : o # dying /\ n_delegate'[o] = n_delegate[o]
      BY <1>20, <2>2 DEF EndDestroy
    <3>3. dying' = None
      BY <1>20, SMTT(60) DEF EndDestroy, BeginDtor
    <3>4. QED
      BY <1>20, <3>1, <3>2, <3>3, LifecycleAssumption, SMTT(60) DEF EndDestroy
  <2>3. QED
    BY <2>1, <2>2, Zenon
<1>21. CASE \E src, dst \in Objects : Move(src, dst)
  BY <1>21, LifecycleAssumption, SMTT(60) DEF Move, MoveConstruct
<1>22. CASE \E o \in Objects : Destroy(o)
  BY <1>22, LifecycleAssumption, SMTT(60) DEF Destroy, BeginDtor
<1>23. CASE UNCHANGED vars
  BY <1>23, LifecycleAssumption, Zenon DEF vars
<1>24. QED
  BY ZenonT(60), <1>1, <1>2, <1>3, <1>4, <1>5, <1>6, <1>7, <1>8, <1>9, <1>10, <1>11, <1>12, <1>13, <1>14, <1>15, <1>16, <1>17, <1>18, <1>19, <1>20, <1>21, <1>22, <1>23 DEF Next, LoadStep, DtorStep

-----------------------------------------------------------------------------
(* Theorems *)

\* The inductive invariant holds in every reachable state.
THEOREM Invariance == Spec => []IInv
<1>1. Init => IInv
  <2> SUFFICES ASSUME Init PROVE IInv
    OBVIOUS
  <2>1. TypeOK
    BY LifecycleAssumption DEF Init, TypeOK, Errors, InitState
  <2>2. LoadInv
    BY Zenon DEF Init, LoadInv, Loading
  <2>3. ObjInv
    BY LifecycleAssumption, Zenon DEF Init, ObjInv, HasDelegate
  <2>4. ValueInv
    BY Zenon DEF Init, ValueInv
  <2>5. HandleInv
    BY Zenon DEF Init, HandleInv
  <2>6. BufferInv
    BY Zenon DEF Init, BufferInv
  <2>7. QED
    BY <2>1, <2>2, <2>3, <2>4, <2>5, <2>6, Zenon DEF IInv
<1>2. IInv /\ [Next]_vars => IInv'
  BY TypeNext, LoadNext, ObjNext, ValueNext, HandleNext, BufferNext, Zenon DEF IInv
<1>3. QED
  BY <1>1, <1>2, PTL DEF Spec

\* The type invariant, for any program: in particular n_value_ and n_delegate_
\* of every object, moved-from and half-initialized ones included, never exceed
\* the number of serialized values and delegates.
THEOREM TypeCorrect == Spec => []TypeOK
<1>1. IInv => TypeOK
  BY Zenon DEF IInv
<1>2. QED
  BY <1>1, Invariance, PTL

\* ~Method(), ~BackendDelegate() and FreeableBuffer::Free() release nothing
\* twice and nothing that was not made, wherever load() fails and however often
\* the Method is moved.
THEOREM ReleaseAtMostOnce == Spec => []ReleasedOnce
<1>1. IInv => ReleasedOnce
  <2> SUFFICES ASSUME IInv PROVE ReleasedOnce
    OBVIOUS
  <2>1. \A v \in Values : dtors[v] <= IF v \in built THEN 1 ELSE 0
    BY DEF IInv, ValueInv
  <2>2. \A d \in Delegates : destroys[d] <= IF d \in made THEN 1 ELSE 0
    BY DEF IInv, HandleInv
  <2>3. \A d \in Delegates : frees[d] <= IF d \in loaded THEN 1 ELSE 0
    BY DEF IInv, BufferInv
  <2>4. QED
    BY <2>1, <2>2, <2>3, Zenon DEF ReleasedOnce
<1>2. QED
  BY <1>1, Invariance, PTL

\* Once load() has returned and every Method object is destroyed, everything
\* that load() made has been released.
THEOREM NothingLeaks == Spec => []NoLeak
<1>1. IInv => NoLeak
  <2> SUFFICES ASSUME IInv, pc = "returned", live = {} PROVE NoLeak
    BY Zenon DEF NoLeak
  <2>1. values = {} /\ delegates = {}
    BY Zenon DEF IInv, ObjInv
  <2>2. \A v \in built : dtors[v] = 1
    BY <2>1, Zenon DEF IInv, TypeOK, ValueInv
  <2>3. \A d \in made : destroys[d] = 1
    BY <2>1, Zenon DEF IInv, TypeOK, HandleInv
  <2>4. \A d \in loaded : frees[d] = 1
    BY <2>1, LifecycleAssumption, Zenon DEF IInv, TypeOK, BufferInv
  <2>5. QED
    BY <2>2, <2>3, <2>4, Zenon DEF NoLeak
<1>2. QED
  BY <1>1, Invariance, PTL

\* The comment in BackendDelegate::Init: the buffer outlives the handle that may
\* point to it.
THEOREM BufferOutlivesHandle == Spec => []SegmentOutlivesHandle
<1>1. IInv => SegmentOutlivesHandle
  <2> SUFFICES ASSUME IInv, NEW d \in Delegates, Alive(d), d \in kept PROVE d \in data
    BY Zenon DEF SegmentOutlivesHandle
  <2>1. d \in made /\ destroys[d] = 0
    BY Zenon DEF Alive
  <2>2. delegates # {}
    BY <2>1 DEF IInv, HandleInv
  <2>3. PICK o \in delegates : TRUE
    BY <2>2, Zenon
  <2>4. ~HandlePassed(o, d)
    BY <2>1, <2>3 DEF IInv, HandleInv
  <2>5. QED
    BY <2>3, <2>4, Zenon DEF IInv, BufferInv
<1>2. QED
  BY <1>1, Invariance, PTL

\* An initialized Method has all its values and delegates, alive, until its own
\* destructor begins.
THEOREM InitializedIsReady == Spec => []ReadyToRun
<1>1. IInv => ReadyToRun
  <2> SUFFICES ASSUME IInv, NEW o \in Objects, o \in live,
                      init_state[o] = "Initialized", dying # o
               PROVE  /\ n_value[o] = NValue /\ n_delegate[o] = NDelegate
                      /\ \A v \in Values : v \in built /\ dtors[v] = 0
                      /\ \A d \in Delegates : Alive(d)
    BY Zenon DEF ReadyToRun
  <2>1. /\ o \in values /\ n_value[o] = NValue
        /\ o \in delegates /\ n_delegate[o] = NDelegate
    BY Zenon DEF IInv, ObjInv
  <2>2. \A v \in Values : v \in built /\ dtors[v] = 0
    BY Zenon, <2>1 DEF IInv, ValueInv, ValuePassed, Values
  <2>3. \A d \in Delegates : Alive(d)
    BY Zenon, <2>1 DEF IInv, HandleInv, HandlePassed, Delegates, Alive
  <2>4. QED
    BY <2>1, <2>2, <2>3, Zenon
<1>2. QED
  BY <1>1, Invariance, PTL
=============================================================================

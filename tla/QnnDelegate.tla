---------------------------- MODULE QnnDelegate ----------------------------
(***************************************************************************)
(* The Qualcomm delegate: QnnManager, the objects it makes in the QNN      *)
(* library, the shared memory of SharedBuffer and the tensors it hands to  *)
(* a graph.  Every delegate of a program has a manager; all of them share  *)
(* the static members of QnnImplementation, HtpContext and SharedBuffer.   *)
(*                                                                         *)
(* The QNN library, the dynamic loader and rpcmem are external.  A call of *)
(* a library that has been closed is a crash.  rpcmem returns page-aligned *)
(* addresses.  At most one call fails in the life of a manager: the one    *)
(* that its setup names.                                                   *)
(***************************************************************************)
EXTENDS Integers, Sequences, FiniteSets, SequencesExt, TLC

CONSTANTS
  Managers,    \* the delegate instances
  Setups,      \* which of them there are, and their options
  Aot,         \* the graph they run: [tensors, ops], as lowered
  Slots,       \* where rpcmem_alloc puts its blocks
  SlotBytes,   \* the bytes of a block
  Infos,       \* the CustomMemTensorInfo a caller may announce
  ArgTuples,   \* the addresses of the arguments of a call
  Colliding,   \* tensor names whose hashes collide in a QNN graph
  MaxRename,   \* bound: renamings of a tensor
  MaxRuns      \* bound: calls of execute per manager

VARIABLES
  qsetup,  \* the options of each manager and what fails
  qlib,    \* QnnImplementation's static members, dlopen counts
  qhtp,    \* what the QNN library holds
  qman,    \* the managers
  qbuf,    \* SharedBuffer and the blocks of rpcmem
  qcall    \* the last execution of each manager

QnnVars == <<qsetup, qlib, qhtp, qman, qbuf, qcall>>

-----------------------------------------------------------------------------
(* QnnImplementation.  The interface and the handle of the one backend id  *)
(* are named after the path they came from.                                *)
Libs == {"libQnnHtp.so", "custom.so"}
NoLibs == [ids |-> {}, backend |-> "absent", handle |-> "absent", refs |-> [l \in Libs |-> 0], sys |-> 0]

dlopen(l, path) == [l EXCEPT !.refs[path] = @ + 1]
dlclose(l, path) == IF path = "absent" THEN l ELSE [l EXCEPT !.refs[path] = @ - 1]

StartBackend(l, path, fault) ==
  LET opened == dlopen(l, path)
      stored == [dlclose(opened, l.handle) EXCEPT !.ids = @ \cup {path}, !.backend = path, !.handle = path]
  IN CASE fault = "dlopen" -> l
       [] fault = "providers" -> opened
       [] fault = "saver" -> [dlclose(stored, path) EXCEPT !.ids = @ \ {path}, !.backend = "absent", !.handle = "absent"]
       [] OTHER -> stored

TerminateAllBackends(l) ==
  [dlclose(l, l.handle) EXCEPT !.ids = {}, !.backend = "absent", !.handle = "absent"]

-----------------------------------------------------------------------------
(* Tables of the conversion between QNN and the serialized graph (qcir).   *)
QnnTypes == <<"WRITE", "READ", "READWRITE", "NATIVE", "STATIC", "NULL", "UNDEFINED">>
IrTypes == <<"WRITE", "READ", "READWRITE", "NATIVE", "STATIC", "OPTIONAL", "UNDEFINED">>
ToTensorType(type) == IrTypes[CHOOSE i \in DOMAIN QnnTypes : QnnTypes[i] = type]
FromTensorType(type) == QnnTypes[CHOOSE i \in DOMAIN IrTypes : IrTypes[i] = type]

QnnDataTypes ==
  <<"INT_8", "INT_16", "INT_32", "INT_64", "UINT_8", "UINT_16", "UINT_32", "UINT_64", "FLOAT_16", "FLOAT_32",
    "SFIXED_POINT_4", "SFIXED_POINT_8", "SFIXED_POINT_16", "SFIXED_POINT_32", "UFIXED_POINT_4", "UFIXED_POINT_8",
    "UFIXED_POINT_16", "UFIXED_POINT_32", "BOOL_8", "UNDEFINED">>
IrDataTypes ==
  <<"INT8", "INT16", "INT32", "INT64", "UINT8", "UINT16", "UINT32", "UINT64", "FLOAT16", "FLOAT32", "SFIXED4",
    "SFIXED8", "SFIXED16", "SFIXED32", "UFIXED4", "UFIXED8", "UFIXED16", "UFIXED32", "BOOL", "UNDEFINED">>
ToDataType(dtype) == IrDataTypes[CHOOSE i \in DOMAIN QnnDataTypes : QnnDataTypes[i] = dtype]
FromDataType(dtype) == QnnDataTypes[CHOOSE i \in DOMAIN IrDataTypes : IrDataTypes[i] = dtype]

GetDataTypeSize(dtype) ==
  CASE dtype \in {"INT_8", "UINT_8", "SFIXED_POINT_8", "UFIXED_POINT_8", "BOOL_8"} -> 1
    [] dtype \in {"INT_16", "UINT_16", "FLOAT_16", "SFIXED_POINT_16", "UFIXED_POINT_16"} -> 2
    [] dtype \in {"INT_32", "UINT_32", "FLOAT_32", "SFIXED_POINT_32", "UFIXED_POINT_32"} -> 4
    [] dtype \in {"INT_64", "UINT_64"} -> 8
    [] OTHER -> 0

ScalarTypeOf ==
  [INT_32 |-> "Int", FLOAT_32 |-> "Float", SFIXED_POINT_8 |-> "Char", SFIXED_POINT_16 |-> "Short",
   UFIXED_POINT_8 |-> "Byte", UFIXED_POINT_16 |-> "Bits16"]
(* operator[] of a type that is not there makes ScalarType(0), Byte.       *)
qnn_dtype_to_scalar_type(dtype) == IF dtype \in DOMAIN ScalarTypeOf THEN ScalarTypeOf[dtype] ELSE "Byte"
scalar_type_to_qnn_dtype(type) == CHOOSE dtype \in DOMAIN ScalarTypeOf : ScalarTypeOf[dtype] = type

(* Quantization: encoding, axis, bit width, scales and offsets.            *)
NoQuant == [def |-> "UNDEFINED", enc |-> "UNDEFINED", axis |-> 0, bitwidth |-> 0, scales |-> <<>>, offsets |-> <<>>]

CreateQuantizeParams(enc, axis, bitwidth, scales, offsets) ==
  [def |-> "DEFINED", enc |-> enc, axis |-> axis, bitwidth |-> bitwidth, scales |-> scales, offsets |-> offsets]

CreateQuantizationParamWrapper(p) ==
  CASE p.enc = "UNDEFINED" -> NoQuant
    [] p.enc = "AXIS_SCALE_OFFSET" -> CreateQuantizeParams(p.enc, p.axis, 0, p.scales, p.offsets)
    [] p.enc = "BW_AXIS_SCALE_OFFSET" -> CreateQuantizeParams(p.enc, p.axis, p.bitwidth, p.scales, p.offsets)
    [] p.enc = "BW_SCALE_OFFSET" -> CreateQuantizeParams(p.enc, 0, p.bitwidth, p.scales, p.offsets)
    [] p.enc = "SCALE_OFFSET" -> CreateQuantizeParams(p.enc, 0, 0, p.scales, p.offsets)

(* In qcir, data holds pairs; scales and offsets are those of the types    *)
(* with a bit width.                                                       *)
Pairs(p) == [i \in DOMAIN p.scales |-> <<p.scales[i], p.offsets[i]>>]
ToQuantizeParam(p) ==
  LET wide == p.enc \in {"BW_SCALE_OFFSET", "BW_AXIS_SCALE_OFFSET"}
  IN [def |-> p.def, type |-> p.enc,
      bitwidth |-> IF wide THEN p.bitwidth ELSE 0,
      axis |-> IF p.enc \in {"AXIS_SCALE_OFFSET", "BW_AXIS_SCALE_OFFSET"} THEN p.axis ELSE 0,
      scales |-> IF wide THEN p.scales ELSE <<>>, offsets |-> IF wide THEN p.offsets ELSE <<>>,
      data |-> IF p.enc \in {"SCALE_OFFSET", "AXIS_SCALE_OFFSET"} THEN Pairs(p) ELSE <<>>]
FromQuantizeParam(q) ==
  LET p == [NoQuant EXCEPT !.def = q.def, !.enc = q.type]
      n == IF q.type \in {"SCALE_OFFSET", "BW_SCALE_OFFSET"} THEN 1 ELSE Len(q.data) + Len(q.scales)
  IN CASE q.type \in {"SCALE_OFFSET", "AXIS_SCALE_OFFSET"} ->
            [p EXCEPT !.axis = q.axis, !.scales = [i \in 1..n |-> q.data[i][1]], !.offsets = [i \in 1..n |-> q.data[i][2]]]
       [] q.type \in {"BW_SCALE_OFFSET", "BW_AXIS_SCALE_OFFSET"} ->
            [p EXCEPT !.bitwidth = q.bitwidth, !.axis = q.axis, !.scales = SubSeq(q.scales, 1, n),
                      !.offsets = SubSeq(q.offsets, 1, n)]
       [] OTHER -> p

-----------------------------------------------------------------------------
(* Tensors.  A Qnn_Tensor_t is [name, type, dtype, quant, dims, data], data *)
(* the bytes of a constant; a name is [prefix, num, suffix], num the digits *)
(* after the first underscore: input_3_0_1 is ["input", 3, <<0, 1>>].      *)
ToTensor(t) ==
  [name |-> t.name, shape |-> t.dims, type |-> ToTensorType(t.type), dtype |-> ToDataType(t.dtype),
   qparam |-> ToQuantizeParam(t.quant), data |-> t.data]

is_io_tensor(type) == type \in {"WRITE", "READ", "READWRITE", "NATIVE"}
FromTensor(q) ==
  LET type == FromTensorType(q.type)
  IN [name |-> q.name, type |-> type, dtype |-> FromDataType(q.dtype), quant |-> FromQuantizeParam(q.qparam),
      dims |-> q.shape, data |-> IF is_io_tensor(type) THEN <<>> ELSE q.data]

(* What a wrapper points at; memHandle and clientBuf.data share their      *)
(* bytes, mem is whichever was written last.                               *)

Nowhere == [kind |-> "data", at |-> 0]
AtAddress(address) == [kind |-> "data", at |-> address]
MemHandle(h) == [kind |-> "handle", at |-> h]
ElementCount(s) == FoldLeft(LAMBDA a, b : a * b, 1, s)

CreateTensorWrapper(t) ==
  [name |-> t.name, type |-> t.type, dtype |-> t.dtype, quant |-> CreateQuantizationParamWrapper(t.quant),
   dims |-> t.dims, data |-> IF t.type = "STATIC" THEN t.data ELSE <<>>, created |-> FALSE, memtype |-> "RAW",
   mem |-> Nowhere, bytes |-> IF t.data = <<>> THEN ElementCount(t.dims) * GetDataTypeSize(t.dtype) ELSE Len(t.data)]

FillDataBuffer(w, data) == IF data = 0 THEN w ELSE [w EXCEPT !.memtype = "RAW", !.mem = AtAddress(data)]
(* A buffer of the wrapper's own.                                          *)
AllocateDataBuffer(w) == [w EXCEPT !.memtype = "RAW", !.mem = [kind |-> "own", at |-> w.name]]
SetMemHandle(w, h) == [w EXCEPT !.memtype = "MEMHANDLE", !.mem = MemHandle(h)]

CompareExportedInput(a, b) == a.name.num < b.name.num
SortedInputs(s, ws) == IF s.from_context_binary THEN ws ELSE SortSeq(ws, CompareExportedInput)
Dumped(s, ws) == IF s.dump THEN [i \in DOMAIN ws |-> AllocateDataBuffer(ws[i])] ELSE ws
OutputName(s, w) == IF s.from_context_binary /\ w.name.prefix # "output" THEN [w EXCEPT !.name.prefix = "output"] ELSE w

(* A graph lowered to dump its tensors returns the intermediate ones too.  *)
Lowered(s, t) == IF s.dump /\ ~s.from_context_binary /\ t.type = "NATIVE" THEN [t EXCEPT !.type = "READ"] ELSE t
OfType(ws, type) == SelectSeq(ws, LAMBDA w : w.type = type)

(* The graph of a context binary is the one that was lowered.              *)
AllocateFromBinary(s) ==
  LET all == [i \in DOMAIN Aot.tensors |-> CreateTensorWrapper(Lowered(s, Aot.tensors[i]))]
      outs == OfType(all, "READ")
  IN [ins |-> SortedInputs(s, OfType(all, "WRITE")), outs |-> Dumped(s, [i \in DOMAIN outs |-> OutputName(s, outs[i])])]

AllocateTensor(s, ins, outs) == [ins |-> SortedInputs(s, ins), outs |-> Dumped(s, outs)]

-----------------------------------------------------------------------------
(* What the device holds: objects of the managers, memory registrations,   *)
(* graphs and the votes of the power clients.                              *)
kSleepHighLatency == 2000
Corners ==
  [kHtpBurst |-> <<40, "MAX">>, kHtpSustainedHighPerformance |-> <<100, "TURBO">>, kHtpHighPerformance |-> <<100, "TURBO">>,
   kHtpPowerSaver |-> <<1000, "SVS">>, kHtpLowPowerSaver |-> <<1000, "SVS2">>, kHtpHighPowerSaver |-> <<1000, "SVS_PLUS">>,
   kHtpLowBalanced |-> <<1000, "NOM">>, kHtpBalanced |-> <<1000, "NOM_PLUS">>]
SetVotePowerConfig(mode, vote) ==
  IF vote = "down" THEN [dcvs |-> TRUE, power |-> "SAVER", sleep |-> kSleepHighLatency, corner |-> "SVS2"]
  ELSE [dcvs |-> FALSE, power |-> "PERFORMANCE", sleep |-> Corners[mode][1], corner |-> Corners[mode][2]]
SetRpcPollingPowerConfig(mode) ==
  [latency |-> 100, polling |-> IF mode \in {"kHtpBurst", "kHtpSustainedHighPerformance", "kHtpHighPerformance"} THEN 9999 ELSE 0]

NoGraph == [tensors |-> <<>>, nodes |-> <<>>, finalized |-> FALSE]
EmptyDevice ==
  [live |-> {}, mems |-> <<>>, sf_handle |-> "none", votes |-> [m \in Managers |-> <<>>],
   graph |-> [m \in Managers |-> NoGraph]]

NewManager ==
  [pc |-> "none", interface |-> "null", state |-> "INVALID", op |-> 1, ins |-> <<>>, outs |-> <<>>, wrappers |-> <<>>, ops |-> <<>>,
   infos |-> {}, registered |-> <<>>, pre |-> <<>>, teardown |-> 1, undercut |-> FALSE]
NoRun == [run |-> 0, args |-> <<>>, ins |-> <<>>, outs |-> <<>>]

Made(h, m, kinds) == [h EXCEPT !.live = @ \cup (kinds \X {m})]
Freed(h, m, kinds) == [h EXCEPT !.live = @ \ (kinds \X {m})]
Has(m, kind) == <<kind, m>> \in qhtp.live

Callable(m) == qman[m].interface \in Libs /\ qlib.refs[qman[m].interface] > 0
Fault(m) == qsetup[m].fault
Goto(m, pc) == qman' = [qman EXCEPT ![m].pc = pc]
QnnFail(m) == Goto(m, "failed")
(* The step of Init at pc: a call of a closed library, the failure that    *)
(* the setup names, or what the code does.                                 *)
AtPc(m, pc) == qman[m].pc = pc
Crash(m) == ~Callable(m) /\ Goto(m, "crash") /\ UNCHANGED <<qlib, qhtp>>

(* The managers whose interface loses its library to another manager.      *)
Undercut(m, lib) ==
  [n \in Managers |->
     IF /\ n # m
        /\ \/ qman[n].interface \in Libs /\ lib.refs[qman[n].interface] < qlib.refs[qman[n].interface]
           \/ qman[n].pc = "connect" /\ lib.backend = "absent"
     THEN [qman[n] EXCEPT !.undercut = TRUE] ELSE qman[n]]

-----------------------------------------------------------------------------
(* QnnManager::Init                                                        *)
Construct(m) ==
  /\ AtPc(m, "none")
  /\ Goto(m, "load")
  /\ UNCHANGED <<qlib, qhtp>>

(* Load, under be_init_mutex_.                                             *)
Load(m) ==
  /\ AtPc(m, "load")
  /\ LET path == qsetup[m].library
         lib == IF path \in qlib.ids THEN qlib ELSE StartBackend(qlib, path, Fault(m))
         ok == path \in lib.ids /\ lib.backend # "absent" /\ lib.handle # "absent"
     IN /\ qlib' = lib
        /\ qman' = [Undercut(m, lib) EXCEPT ![m].pc = IF ok THEN "connect" ELSE "failed"]
  /\ UNCHANGED qhtp

(* The interface is read after the mutex is released; operator[] makes a   *)
(* null one when the map was cleared in between.                           *)
Connect(m) ==
  /\ AtPc(m, "connect")
  /\ qlib' = [qlib EXCEPT !.backend = IF @ = "absent" THEN "null" ELSE @]
  /\ qman' = [qman EXCEPT ![m].pc = "create", ![m].interface = qlib'.backend]
  /\ UNCHANGED qhtp

(* QnnLogger, QnnBackendFactory::Create, VerifyQNNSDKVersion.              *)
QnnLogger(h, m) == IF qsetup[m].log /\ Fault(m) # "log" THEN Made(h, m, {"log"}) ELSE h
VerifyQNNSDKVersion(m) == Fault(m) # "version"
Create(m) ==
  /\ AtPc(m, "create")
  /\ \/ Crash(m)
     \/ /\ Callable(m)
        /\ qhtp' = QnnLogger(qhtp, m)
        /\ Goto(m, IF VerifyQNNSDKVersion(m) THEN "cache" ELSE "failed")
        /\ UNCHANGED qlib

(* QnnBackendCache::Configure.  QnnSystemImplementation::Load keeps its    *)
(* handle in a local variable: Unload finds none and closes nothing.       *)
GetQnnGraphInfoFromBinary(m) == qsetup[m].blob = "binary"
CacheState(m) ==
  CASE qsetup[m].blob = "none" -> "SERIALIZE"
    [] GetQnnGraphInfoFromBinary(m) -> "DESERIALIZE"
    [] qsetup[m].blob = "qcir" -> "ONLINE_PREPARE"
    [] OTHER -> "INVALID"
ConfigureCache(m) ==
  LET none == qsetup[m].blob = "none"
      loads == ~none /\ Fault(m) # "sys_dlopen"
      ok == none \/ Fault(m) \notin {"sys_dlopen", "sys_providers", "sys_context"}
  IN /\ AtPc(m, "cache")
     /\ qlib' = IF loads THEN [qlib EXCEPT !.sys = @ + 1] ELSE qlib
     /\ qhtp' = IF ok /\ ~none THEN Made(qhtp, m, {"sys"}) ELSE qhtp
     /\ qman' = [qman EXCEPT ![m].pc = IF ok THEN "backend" ELSE "failed", ![m].state = IF ok THEN CacheState(m) ELSE @]

(* A step that makes one object of the QNN library.                        *)
ConfigureBackend(m) ==
  /\ AtPc(m, "backend")
  /\ \/ Crash(m)
     \/ /\ Callable(m)
        /\ IF Fault(m) = "backend" THEN QnnFail(m) /\ qhtp' = qhtp
           ELSE Goto(m, "device") /\ qhtp' = Made(qhtp, m, {"backend"})
        /\ UNCHANGED qlib

(* QnnDevice::Configure, HtpDevice::AfterCreateDevice.                     *)
AfterCreateDevice(h, m, mode) ==
  [Made(h, m, {"power"}) EXCEPT !.votes[m] = <<SetVotePowerConfig(mode, "up"), SetRpcPollingPowerConfig(mode)>>]
ConfigureDevice(m) ==
  LET mode == qsetup[m].mode
      perf == mode # "kHtpDefault"
      made == Made(qhtp, m, {"device"})
  IN /\ AtPc(m, "device")
     /\ \/ Crash(m)
        \/ /\ Callable(m)
           /\ CASE Fault(m) = "device" -> QnnFail(m) /\ qhtp' = qhtp
                [] perf /\ Fault(m) \in {"infra", "power"} -> QnnFail(m) /\ qhtp' = made
                [] OTHER -> Goto(m, "context") /\ qhtp' = IF perf THEN AfterCreateDevice(made, m, mode) ELSE made
           /\ UNCHANGED qlib

(* QnnContext::Configure, HtpContext::AfterConfigure.                      *)
AfterConfigure(h, m) == [h EXCEPT !.sf_handle = IF @ = "none" THEN m ELSE @]
ConfigureContext(m) ==
  /\ AtPc(m, "context")
  /\ \/ qman[m].state = "INVALID" /\ QnnFail(m) /\ UNCHANGED <<qlib, qhtp>>
     \/ qman[m].state # "INVALID" /\ Crash(m)
     \/ /\ qman[m].state # "INVALID" /\ Callable(m)
        /\ IF Fault(m) = "context" THEN QnnFail(m) /\ qhtp' = qhtp
           ELSE /\ Goto(m, "graph")
                /\ qhtp' = AfterConfigure(Made(qhtp, m, {"context"}), m)
        /\ UNCHANGED qlib

(* QnnGraph::Configure and its QnnProfile; a context binary has the graph. *)
QnnProfile(h, m) == IF qsetup[m].profile /\ Fault(m) # "profile" THEN Made(h, m, {"profile"}) ELSE h
ConfigureGraph(m) ==
  /\ AtPc(m, "graph")
  /\ \/ Crash(m)
     \/ /\ Callable(m)
        /\ IF Fault(m) = "graph" THEN QnnFail(m) /\ qhtp' = qhtp
           ELSE /\ qman' = [qman EXCEPT ![m].pc = "preregister", ![m].infos = qbuf.infos]
                /\ qhtp' = QnnProfile(qhtp, m)
        /\ UNCHANGED qlib

-----------------------------------------------------------------------------
(* SharedBuffer.  Maps are functions; insert leaves an entry as it is.     *)
NoBuffers ==
  [restore |-> <<>>, sizes |-> <<>>, custom |-> <<>>, infos |-> {}, blocks |-> <<>>, next |-> 1]
Insert(map, key, value) == IF key \in DOMAIN map THEN map ELSE map @@ (key :> value)
Erase(map, key) == [k \in DOMAIN map \ {key} |-> map[k]]
Lookup(map, key, default) == IF key \in DOMAIN map THEN map[key] ELSE default

alignTo(alignment, offset) == IF offset % alignment = 0 THEN offset ELSE offset + (alignment - (offset % alignment))
Alignment == 4

AllocMem(b, base, bytes) ==
  LET aligned == alignTo(Alignment, base)
      made == [b EXCEPT !.blocks = @ @@ (base :> b.next), !.next = @ + 1, !.sizes = Insert(@, base, bytes + Alignment)]
  IN IF aligned \in DOMAIN b.restore THEN [made EXCEPT !.blocks = Erase(@, base)]
     ELSE [made EXCEPT !.restore = Insert(@, aligned, base)]

FreeMem(b, buf) ==
  IF buf \notin DOMAIN b.restore THEN b
  ELSE [b EXCEPT !.blocks = Erase(@, b.restore[buf]), !.restore = Erase(@, buf)]

AddCusomMemTensorAddr(b, address, custom_mem) == [b EXCEPT !.custom = Insert(@, address, custom_mem)]
AddCusomMemTensorInfo(b, info) ==
  [b EXCEPT !.infos = @ \cup {info}, !.custom = Insert(@, info.tensor_addr, info.custom_mem)]

GetCustomMemBase(buf) == Lookup(qbuf.custom, buf, 0)
GetUnAlignedAddr(buf) == Lookup(qbuf.restore, buf, 0)
GetAllocatedSize(buf) == Lookup(qbuf.sizes, buf, 0)
IsAllocated(buf) == buf \in DOMAIN qbuf.restore
(* rpcmem_to_fd: the file of the block at an address.                      *)
MemToFd(buf) == Lookup(qbuf.blocks, buf, -1)

-----------------------------------------------------------------------------
(* QnnMemManager.  c is [man, mems]: the manager and the registrations.    *)
IsRegistered(c, w, mem_ptr) ==
  w.mem.kind = "handle" /\ w.mem.at \in DOMAIN c.man.registered /\ c.man.registered[w.mem.at] = mem_ptr

(* qnn_mem_register: memory of file fd from offset on.                     *)
Registration(m, fd, offset, size, dtype, dims) ==
  [m |-> m, fd |-> fd, offset |-> offset, size |-> size, dtype |-> dtype, dims |-> dims, live |-> TRUE]
Registered(c, reg, mem_ptr) ==
  LET h == Len(c.mems) + 1
  IN [c EXCEPT !.mems = Append(@, reg), !.man.registered = Insert(@, h, mem_ptr)]
NewHandle(c) == Len(c.mems) + 1

OffsetIn(custom_mem, pos) == (custom_mem - GetUnAlignedAddr(custom_mem)) + pos

PreRegisterCustomMemHandle(c, m, fd, info) ==
  LET reg == Registration(m, fd, OffsetIn(info.custom_mem, info.pos), GetAllocatedSize(info.custom_mem),
                          scalar_type_to_qnn_dtype(info.dtype), info.shape)
      to == Registered(c, reg, 0)
  IN [to EXCEPT !.man.pre = Insert(@, info, NewHandle(c))]

(* The registrations of QnnManager: the wrapper is given a handle, or the  *)
(* call reports an error.  error: qnn_mem_register fails.                  *)
NotRegistered(c, w) == [ok |-> FALSE, c |-> c, w |-> w]
RegisterIonMem(c, m, w, data_ptr, error) ==
  LET fd == MemToFd(data_ptr)
      reg == Registration(m, fd, 0, 0, w.dtype, w.dims)
  IN CASE ~IsAllocated(data_ptr) -> NotRegistered(c, w)
       [] IsAllocated(data_ptr) /\ IsRegistered(c, w, data_ptr) -> [ok |-> TRUE, c |-> c, w |-> w]
       [] OTHER -> IF fd = -1 \/ error THEN NotRegistered(c, w)
                   ELSE [ok |-> TRUE, c |-> Registered(c, reg, data_ptr), w |-> SetMemHandle(w, NewHandle(c))]

RegisterCustomMem(c, m, w, data_ptr, base, error) ==
  LET info == [custom_mem |-> base, tensor_addr |-> data_ptr, pos |-> data_ptr - base, bytes |-> w.bytes,
               shape |-> w.dims, dtype |-> qnn_dtype_to_scalar_type(w.dtype)]
      fd == MemToFd(GetUnAlignedAddr(base))
      reg == Registration(m, fd, OffsetIn(base, info.pos), GetAllocatedSize(base), w.dtype, w.dims)
  IN CASE IsRegistered(c, w, data_ptr) -> [ok |-> TRUE, c |-> c, w |-> w]
       [] ~IsRegistered(c, w, data_ptr) /\ info \in DOMAIN c.man.pre ->
            [ok |-> TRUE, c |-> [c EXCEPT !.man.registered = Insert(@, c.man.pre[info], data_ptr)],
             w |-> SetMemHandle(w, c.man.pre[info])]
       [] OTHER -> IF fd = -1 \/ error THEN NotRegistered(c, w)
                   ELSE [ok |-> TRUE, c |-> Registered(c, reg, data_ptr), w |-> SetMemHandle(w, NewHandle(c))]

RegisterMem(c, m, w, data_ptr, error) ==
  CASE ~qsetup[m].shared -> NotRegistered(c, w)
    [] qsetup[m].shared /\ GetCustomMemBase(data_ptr) # 0 ->
         RegisterCustomMem(c, m, w, data_ptr, GetCustomMemBase(data_ptr), error)
    [] OTHER -> RegisterIonMem(c, m, w, data_ptr, error)

(* PreRegisterMem, one announced tensor at a time, in any order.           *)
PreRegisterMem(m) ==
  /\ AtPc(m, "preregister")
  /\ \/ /\ qman[m].infos = {}
        /\ qman' = [qman EXCEPT ![m].pc = CASE qsetup[m].blob \in {"none", "qcir"} -> "wrap" [] OTHER -> "allocate"]
        /\ UNCHANGED qhtp
     \/ \E info \in qman[m].infos :
          LET fd == MemToFd(GetUnAlignedAddr(info.custom_mem))
              to == PreRegisterCustomMemHandle([man |-> qman[m], mems |-> qhtp.mems], m, fd, info)
          IN IF fd = -1 \/ Fault(m) = "register" THEN QnnFail(m) /\ UNCHANGED qhtp
             ELSE IF ~Callable(m) THEN Goto(m, "crash") /\ UNCHANGED qhtp
             ELSE /\ qman' = [qman EXCEPT ![m] = [to.man EXCEPT !.infos = @ \ {info}]]
                  /\ qhtp' = [qhtp EXCEPT !.mems = to.mems]
  /\ UNCHANGED qlib

-----------------------------------------------------------------------------
(* The graph, ahead of time and, when the blob is a serialized graph, on   *)
(* the device.  An operator is [name, inputs, outputs, params]: operands   *)
(* are indices of tensors, a param is [name, tensor] or [name, dtype,      *)
(* value].                                                                 *)

(* PyQnnManager::Compile.  s is [tensors, map, nodes, params]: map, where a *)
(* tensor wrapper went.                                                    *)
SetTensorAgain(s, i, t) ==
  [s EXCEPT !.map = (i :> Len(s.tensors) + 1) @@ @, !.tensors = Append(@, ToTensor(t))]
SetTensor(s, i, t) ==
  IF i \in DOMAIN s.map THEN s
  ELSE [s EXCEPT !.map = @ @@ (i :> Len(s.tensors) + 1), !.tensors = Append(@, ToTensor(t))]
SerializeParam(setup, s, p) ==
  LET named == [Aot.tensors[p.tensor] EXCEPT !.name = p.name]
      to == SetTensor(s, p.tensor, named)
      scalar == [name |-> p.name, type |-> "UNDEFINED", dtype |-> p.dtype, quant |-> NoQuant, dims |-> <<>>, data |-> <<p.value>>]
  IN IF "tensor" \in DOMAIN p THEN [to EXCEPT !.params = Append(@, to.map[p.tensor])]
     ELSE [s EXCEPT !.params = Append(@, Len(s.tensors) + 1), !.tensors = Append(@, ToTensor(scalar))]
SerializeOp(setup, s, op) ==
  LET Add(r, i) == SetTensor(r, i, Lowered(setup, Aot.tensors[i]))
      AddParam(r, p) == SerializeParam(setup, r, p)
      io == FoldLeft(Add, s, op.inputs \o op.outputs)
      all == FoldLeft(AddParam, [io EXCEPT !.params = <<>>], op.params)
      node == [name |-> op.name, inputs |-> [k \in DOMAIN op.inputs |-> all.map[op.inputs[k]]],
               outputs |-> [k \in DOMAIN op.outputs |-> all.map[op.outputs[k]]], params |-> all.params]
  IN [all EXCEPT !.nodes = Append(@, node)]
Serialize(setup) ==
  LET Add(s, op) == SerializeOp(setup, s, op)
  IN FoldLeft(Add, [tensors |-> <<>>, map |-> <<>>, nodes |-> <<>>, params |-> <<>>], Aot.ops)

(* QnnExecuTorchBackend::init of a serialized graph.  A tensor param gets a *)
(* wrapper of its own, under the next intermediate id.                     *)
CreateIntermediateTensorId(n) == [prefix |-> "id", num |-> n, suffix |-> <<>>]
AddTensorParam(s, q) ==
  LET w == CreateTensorWrapper([name |-> CreateIntermediateTensorId(Len(s.ws)), type |-> "STATIC",
             dtype |-> FromDataType(q.dtype), quant |-> NoQuant, dims |-> q.shape, data |-> q.data])
  IN [ws |-> Append(s.ws, w), params |-> Append(s.params, [name |-> q.name, tensor |-> Len(s.ws) + 1])]
AddScalarParam(s, q) ==
  [s EXCEPT !.params = Append(@, [name |-> q.name, dtype |-> FromDataType(q.dtype), value |-> q.data[1]])]
DeserializeNode(graph, s, node) ==
  LET Add(r, i) == IF graph.tensors[i].shape # <<>> THEN AddTensorParam(r, graph.tensors[i]) ELSE AddScalarParam(r, graph.tensors[i])
      to == FoldLeft(Add, [ws |-> s.ws, params |-> <<>>], node.params)
  IN [ws |-> to.ws, ops |-> Append(s.ops, [node EXCEPT !.params = to.params])]
Deserialize(graph) ==
  LET Add(s, node) == DeserializeNode(graph, s, node)
      ws == [i \in DOMAIN graph.tensors |-> CreateTensorWrapper(FromTensor(graph.tensors[i]))]
  IN FoldLeft(Add, [ws |-> ws, ops |-> <<>>], graph.nodes)

WrappersAndOps(setup) ==
  IF setup.blob = "qcir" THEN Deserialize(Serialize(setup))
  ELSE [ws |-> [i \in DOMAIN Aot.tensors |-> CreateTensorWrapper(Lowered(setup, Aot.tensors[i]))], ops |-> Aot.ops]
Wrap(m) ==
  LET made == WrappersAndOps(qsetup[m])
  IN /\ AtPc(m, "wrap")
     /\ qman' = [qman EXCEPT ![m].pc = "compile", ![m].wrappers = made.ws, ![m].ops = made.ops]
     /\ UNCHANGED <<qlib, qhtp>>

(* QnnManager::Compile.                                                    *)
Suffixed(name, n) == [name EXCEPT !.suffix = @ \o [i \in 1..n |-> i - 1]]
Names(g) == {g.tensors[i].name : i \in DOMAIN g.tensors}
FreeName(g, name) ==
  Suffixed(name, CHOOSE n \in 0..MaxRename :
    /\ Suffixed(name, n) \notin Names(g) \cup Colliding
    /\ \A k \in 0..(n - 1) : Suffixed(name, k) \in Names(g) \cup Colliding)

(* s is [g, ws]: the graph and the wrappers.  A tensor that the library    *)
(* refuses for another reason than its name is marked created all the same.*)
EnsureTensorInQnnGraph(s, i, error) ==
  LET w == [s.ws[i] EXCEPT !.name = FreeName(s.g, @), !.created = TRUE]
  IN CASE s.ws[i].created -> s
       [] ~s.ws[i].created /\ error -> [s EXCEPT !.ws[i].created = TRUE]
       [] OTHER -> [g |-> [s.g EXCEPT !.tensors = Append(@, w)], ws |-> [s.ws EXCEPT ![i] = w]]

OpTensors(op) ==
  op.inputs \o op.outputs \o
  FoldLeft(LAMBDA acc, p : IF "tensor" \in DOMAIN p THEN Append(acc, p.tensor) ELSE acc, <<>>, op.params)
ScalarTypes == {"BOOL_8", "UINT_8", "INT_8", "UINT_16", "INT_16", "UINT_32", "INT_32", "FLOAT_32"}
PopulateQnnParam(ws, p) == IF "tensor" \in DOMAIN p THEN ws[p.tensor].type = "STATIC" ELSE p.dtype \in ScalarTypes
GetOpConfig(ws, op) ==
  [name |-> op.name, inputs |-> [k \in DOMAIN op.inputs |-> ws[op.inputs[k]]],
   outputs |-> [k \in DOMAIN op.outputs |-> ws[op.outputs[k]]],
   params |-> [k \in DOMAIN op.params |->
     IF "tensor" \in DOMAIN op.params[k] THEN [op.params[k] EXCEPT !.tensor = ws[@]] ELSE op.params[k]]]
InGraph(g, ws, op) == \A k \in ToSet(OpTensors(op)) : ws[k] \in ToSet(g.tensors)

CompileOp(m) ==
  LET op == qman[m].ops[qman[m].op]
      Ensure(s, i) == EnsureTensorInQnnGraph(s, i, Fault(m) = "tensor")
      s == FoldLeft(Ensure, [g |-> qhtp.graph[m], ws |-> qman[m].wrappers], OpTensors(op))
      ok == (\A p \in ToSet(op.params) : PopulateQnnParam(s.ws, p)) /\ InGraph(s.g, s.ws, op) /\ Fault(m) # "node"
      g == IF ok THEN [s.g EXCEPT !.nodes = Append(@, GetOpConfig(s.ws, op))] ELSE s.g
  IN /\ AtPc(m, "compile") /\ qman[m].op \in DOMAIN qman[m].ops
     /\ \/ Crash(m)
        \/ /\ Callable(m)
           /\ qhtp' = [qhtp EXCEPT !.graph[m] = g]
           /\ qman' = [qman EXCEPT ![m].wrappers = s.ws, ![m].op = @ + 1, ![m].pc = IF ok THEN @ ELSE "failed"]
           /\ UNCHANGED qlib

(* GraphFinalize and, ahead of time, GetContextBinary.                     *)
Finalize(m) ==
  LET failed == Fault(m) = "finalize" \/ (qsetup[m].blob = "none" /\ Fault(m) = "binary")
  IN /\ AtPc(m, "compile") /\ qman[m].op \notin DOMAIN qman[m].ops
     /\ \/ Crash(m)
        \/ /\ Callable(m)
           /\ qhtp' = [qhtp EXCEPT !.graph[m].finalized = Fault(m) # "finalize"]
           /\ Goto(m, CASE failed -> "failed" [] ~failed /\ qsetup[m].blob = "none" -> "ready" [] OTHER -> "allocate")
           /\ UNCHANGED qlib

Allocate(m) ==
  LET ws == qman[m].wrappers
      io == IF qsetup[m].blob = "qcir" THEN AllocateTensor(qsetup[m], OfType(ws, "WRITE"), OfType(ws, "READ"))
            ELSE AllocateFromBinary(qsetup[m])
  IN /\ AtPc(m, "allocate")
     /\ qman' = [qman EXCEPT ![m].pc = "ready", ![m].ins = io.ins, ![m].outs = io.outs]
     /\ UNCHANGED <<qlib, qhtp>>

-----------------------------------------------------------------------------
(* execute                                                                 *)
(* r is [c, ws, next]: the manager, the wrappers bound so far and the      *)
(* argument of the next one.                                               *)
BindTensor(m, args, error, r, w) ==
  LET got == RegisterMem(r.c, m, w, args[r.next], error)
      bound == IF got.ok THEN got.w ELSE FillDataBuffer(w, args[r.next])
  IN [c |-> got.c, ws |-> Append(r.ws, bound), next |-> r.next + 1]
BindOutput(m, args, error, r, w) ==
  IF w.name.prefix = "output" THEN BindTensor(m, args, error, r, w) ELSE [r EXCEPT !.ws = Append(@, w)]

Execute(m, args) ==
  LET error == Fault(m) = "register"
      c == [man |-> qman[m], mems |-> qhtp.mems]
      BindIn(r, w) == BindTensor(m, args, error, r, w)
      BindOut(r, w) == BindOutput(m, args, error, r, w)
      ins == FoldLeft(BindIn, [c |-> c, ws |-> <<>>, next |-> 1], qman[m].ins)
      outs == FoldLeft(BindOut, [c |-> ins.c, ws |-> <<>>, next |-> ins.next], qman[m].outs)
  IN /\ AtPc(m, "ready") /\ qsetup[m].blob # "none" /\ qcall[m].run < MaxRuns
     /\ \/ Crash(m) /\ UNCHANGED qcall
        \/ /\ Callable(m)
           /\ qman' = [qman EXCEPT ![m] = [outs.c.man EXCEPT !.ins = ins.ws, !.outs = outs.ws]]
           /\ qhtp' = [qhtp EXCEPT !.mems = outs.c.mems]
           /\ qcall' = [qcall EXCEPT ![m] = [run |-> @.run + 1, args |-> args, ins |-> ins.ws, outs |-> outs.ws]]
           /\ UNCHANGED qlib

-----------------------------------------------------------------------------
(* Destroy.  ~BackendConfigParameters resets the members in this order,    *)
(* then the logger goes, then every library.                               *)
TeardownOrder == <<"profile", "sys", "mems", "context", "device", "backend", "log", "libraries">>

DeRegisterMem(h, m, registered) ==
  [h EXCEPT !.mems = [k \in DOMAIN @ |-> IF k \in DOMAIN registered THEN [@[k] EXCEPT !.live = FALSE] ELSE @[k]]]
(* ~HtpDevice: vote down and give the client id back, then ~QnnDevice.     *)
FreeDevice(h, m) ==
  Freed(IF <<"power", m>> \in h.live THEN [h EXCEPT !.votes[m] = Append(@, SetVotePowerConfig("kHtpDefault", "down"))] ELSE h,
        m, {"power", "device"})

(* The handles of a manager that kind stands for; none: no call is made.   *)
Holds(m, kind) == IF kind = "mems" THEN DOMAIN qman[m].registered # {} ELSE Has(m, kind)

Teardown(m, kind) ==
  CASE kind = "mems" -> DeRegisterMem(qhtp, m, qman[m].registered)
    [] kind = "device" -> FreeDevice(qhtp, m)
    [] OTHER -> Freed(qhtp, m, {kind})

(* init() that failed leaves its manager as it is; ahead of time the caller *)
(* destroys it.                                                            *)
BeginDestroy(m) ==
  /\ AtPc(m, "ready") \/ (AtPc(m, "failed") /\ qsetup[m].blob = "none")
  /\ Goto(m, "destroy")
  /\ UNCHANGED <<qlib, qhtp>>

Destroy(m) ==
  LET kind == TeardownOrder[qman[m].teardown]
  IN /\ AtPc(m, "destroy")
     /\ IF kind = "libraries"
        THEN /\ qlib' = TerminateAllBackends(qlib)
             /\ qman' = [Undercut(m, qlib') EXCEPT ![m].pc = "destroyed"]
             /\ qhtp' = qhtp
        ELSE /\ UNCHANGED qlib
             /\ IF Holds(m, kind) /\ kind # "sys" /\ ~Callable(m) THEN Goto(m, "crash") /\ qhtp' = qhtp
                ELSE /\ qhtp' = Teardown(m, kind)
                     /\ qman' = [qman EXCEPT ![m].teardown = @ + 1,
                                             ![m].registered = IF kind = "mems" THEN <<>> ELSE @,
                                             ![m].pre = IF kind = "mems" THEN <<>> ELSE @]

(* ~QnnManager, ahead of time, where the manager is a Python object.       *)
Destruct(m) ==
  /\ AtPc(m, "destroyed") /\ qsetup[m].blob = "none"
  /\ qlib' = TerminateAllBackends(qlib)
  /\ qman' = [Undercut(m, qlib') EXCEPT ![m].pc = "gone"]
  /\ UNCHANGED qhtp

-----------------------------------------------------------------------------
(* The callers of the C interface.  Memory is freed between the lives of   *)
(* the delegates that use it.                                              *)
Alive(m) == qman[m].pc \notin {"none", "destroyed", "gone", "failed", "crash"}

QnnExecuTorchAllocCustomMem(base) ==
  /\ base \notin DOMAIN qbuf.blocks
  /\ qbuf.next <= Cardinality(Slots) + 1
  /\ qbuf' = AllocMem(qbuf, base, SlotBytes - Alignment)
QnnExecuTorchFreeCustomMem(buf) ==
  /\ \A m \in Managers : ~Alive(m)
  /\ IsAllocated(buf)
  /\ qbuf' = FreeMem(qbuf, buf)
QnnExecuTorchAddCustomMemTensorInfo(info) ==
  IsAllocated(info.custom_mem) /\ info \notin qbuf.infos /\ qbuf' = AddCusomMemTensorInfo(qbuf, info)
QnnExecuTorchAddCustomMemTensorAddr(info) ==
  /\ IsAllocated(info.custom_mem) /\ info.tensor_addr \notin DOMAIN qbuf.custom
  /\ qbuf' = AddCusomMemTensorAddr(qbuf, info.tensor_addr, info.custom_mem)

Callers ==
  /\ \E m \in DOMAIN qsetup : qsetup[m].shared /\ qman[m].pc \in {"none", "ready"}
  /\ \/ \E base \in Slots : QnnExecuTorchAllocCustomMem(base) \/ QnnExecuTorchFreeCustomMem(base)
     \/ \E info \in Infos : QnnExecuTorchAddCustomMemTensorInfo(info) \/ QnnExecuTorchAddCustomMemTensorAddr(info)
  /\ UNCHANGED <<qlib, qhtp, qman>>

(* The block an address is in, and where in it.                            *)
BlockAt(address) == {base \in DOMAIN qbuf.blocks : base <= address /\ address < base + SlotBytes}
Mapped(args) == \A i \in DOMAIN args : args[i] < 100 => BlockAt(args[i]) # {}

QnnInit ==
  /\ qsetup \in Setups
  /\ qlib = NoLibs
  /\ qhtp = EmptyDevice
  /\ qman = [m \in Managers |-> NewManager]
  /\ qbuf = NoBuffers
  /\ qcall = [m \in Managers |-> NoRun]

Step(m) ==
  \/ Construct(m) \/ Load(m) \/ Connect(m) \/ Create(m) \/ ConfigureCache(m) \/ ConfigureBackend(m)
  \/ ConfigureDevice(m) \/ ConfigureContext(m) \/ ConfigureGraph(m) \/ PreRegisterMem(m)
  \/ Wrap(m) \/ CompileOp(m) \/ Finalize(m) \/ Allocate(m)
  \/ BeginDestroy(m) \/ Destroy(m) \/ Destruct(m)

QnnNext ==
  /\ UNCHANGED qsetup
  /\ \/ \E m \in DOMAIN qsetup : Step(m) /\ UNCHANGED <<qbuf, qcall>>
     \/ \E m \in DOMAIN qsetup, args \in ArgTuples : Mapped(args) /\ Execute(m, args) /\ UNCHANGED qbuf
     \/ Callers /\ UNCHANGED qcall

QnnSpec == QnnInit /\ [][QnnNext]_QnnVars

-----------------------------------------------------------------------------
(* Properties *)

PlaceOf(address) ==
  IF BlockAt(address) = {} THEN <<"heap", address>>
  ELSE LET base == CHOOSE b \in BlockAt(address) : TRUE IN <<qbuf.blocks[base], address - base>>
MemoryOf(w) ==
  IF w.memtype = "RAW" THEN PlaceOf(w.mem.at) ELSE <<qhtp.mems[w.mem.at].fd, qhtp.mems[w.mem.at].offset>>
Described(m, w) ==
  w.memtype = "MEMHANDLE" =>
    LET reg == qhtp.mems[w.mem.at] IN reg.live /\ reg.m = m /\ reg.dtype = w.dtype /\ reg.dims = w.dims

\* What execute hands to the graph is the memory of the arguments of this call,
\* whether a tensor is passed by address or by a handle registered in an earlier
\* call, at initialization, or for other arguments since: input_i gets argument i,
\* the outputs get the arguments after the inputs, and a handle is one of this
\* manager's context, made for a tensor of this type and shape.
DataInPlace ==
  \A m \in Managers :
    LET call == qcall[m]
        outs == SelectSeq(call.outs, LAMBDA w : w.name.prefix = "output")
        bound == call.ins \o outs
    IN AtPc(m, "ready") /\ call.run > 0 =>
       /\ Len(bound) = Len(call.args)
       /\ \A i \in DOMAIN call.outs : call.outs[i].mem # Nowhere
       /\ \A i \in DOMAIN bound : MemoryOf(bound[i]) = PlaceOf(call.args[i]) /\ Described(m, bound[i])
       /\ ~qsetup[m].from_context_binary => \A i \in DOMAIN call.ins : call.ins[i].name.num = i - 1

\* The graph a manager compiles is the one that was lowered, also when it was
\* serialized and rebuilt on the device in between: every node with its operands,
\* their types, quantization and constants and its params, a tensor of several nodes
\* once, and no two tensors of one name.
Similar(w, t) == w.type = t.type /\ w.dtype = t.dtype /\ w.dims = t.dims /\ w.quant = t.quant /\ w.data = t.data
CompilesLowered ==
  \A m \in Managers :
    LET g == qhtp.graph[m]
        Source(i) == Lowered(qsetup[m], Aot.tensors[i])
        Same(ws, is) == Len(ws) = Len(is) /\ \A k \in DOMAIN is : Similar(ws[k], Source(is[k])) /\ ws[k] \in ToSet(g.tensors)
        Uses(k, op) == [i \in DOMAIN op.inputs |-> <<op.inputs[i], g.nodes[k].inputs[i].name>>]
                       \o [i \in DOMAIN op.outputs |-> <<op.outputs[i], g.nodes[k].outputs[i].name>>]
        AllUses == UNION {ToSet(Uses(k, Aot.ops[k])) : k \in DOMAIN g.nodes}
    IN AtPc(m, "ready") /\ qman[m].wrappers # <<>> =>
       /\ g.finalized /\ Len(g.nodes) = Len(Aot.ops)
       /\ \A k \in DOMAIN g.nodes :
            LET op == Aot.ops[k]
            IN /\ g.nodes[k].name = op.name /\ Same(g.nodes[k].inputs, op.inputs) /\ Same(g.nodes[k].outputs, op.outputs)
               /\ Len(g.nodes[k].params) = Len(op.params)
               /\ \A j \in DOMAIN op.params :
                    IF "tensor" \in DOMAIN op.params[j]
                    THEN /\ g.nodes[k].params[j].name = op.params[j].name
                         /\ Similar(g.nodes[k].params[j].tensor, Source(op.params[j].tensor))
                    ELSE g.nodes[k].params[j] = op.params[j]
       /\ \A u, v \in AllUses : u[1] = v[1] <=> u[2] = v[2]
       /\ \A i, j \in DOMAIN g.tensors : g.tensors[i].name = g.tensors[j].name => i = j

\* No object of the QNN library outlives what it was made from, and a manager that
\* was destroyed has left nothing behind: no handle, no memory registration, no vote
\* for performance.  Only the destruction or the start of another manager can take
\* the library away from under one that is in use.
ObjectsNested ==
  \A m \in Managers :
    /\ Has(m, "context") => Has(m, "backend") /\ Has(m, "device")
    /\ Has(m, "profile") => Has(m, "backend")
    /\ Has(m, "power") => Has(m, "device")
    /\ Has(m, "backend") /\ qsetup[m].log /\ Fault(m) # "log" => Has(m, "log")
    /\ \A k \in DOMAIN qhtp.mems : qhtp.mems[k].m = m /\ qhtp.mems[k].live => Has(m, "context")
    /\ qman[m].pc \in {"destroyed", "gone"} =>
         /\ \A kind \in {"profile", "sys", "context", "power", "device", "backend", "log"} : ~Has(m, kind)
         /\ qhtp.votes[m] = <<>> \/ Last(qhtp.votes[m]) = SetVotePowerConfig("kHtpDefault", "down")
    /\ qman[m].pc = "crash" => qman[m].undercut
=============================================================================

--------------------------- MODULE ModuleRuntime ---------------------------
(***************************************************************************)
(* Module, Program and the data loaders: how the bytes of a program file   *)
(* become the buffers that loaded methods point into, and how they are     *)
(* given back.  Memory is addressed by byte: malloc() blocks and the pages *)
(* that mmap() gave out, above a buffer of the caller's.                   *)
(*                                                                         *)
(* A call that the operating system may answer in several ways has a set of*)
(* results [err, val, mem]; an operation of Module takes one of them.  What*)
(* the flatbuffer of a file says is the field flat of the file.            *)
(***************************************************************************)
EXTENDS Integers, Sequences, FiniteSets, Functions, SequencesExt, FiniteSetsExt

CONSTANTS
  Nothing,      \* nullptr, an EValue that is None
  Files,        \* program files: [bytes, flat]
  Modes,        \* LoadMode, or the loader the caller passes
  Spans,        \* what a library registers: sequences of [name, key, op]
  Given,        \* lists of inputs that execute and set_inputs are called with
  Scripts,      \* what pread() may answer: numbers of bytes, EINTR, or less
  PageSize,     \* sysconf(_SC_PAGESIZE)
  MaxAlign,     \* alignof(std::max_align_t)
  MaxKernels,   \* kMaxRegisteredKernels
  MaxOps        \* bound: operations of one Module

VARIABLES
  module,       \* the Module
  memory_map,   \* heap blocks, mapped pages, open files
  registered_kernels,   \* the table of operator_registry.cpp
  ops           \* number of operations so far

ModuleVars == <<module, memory_map, registered_kernels, ops>>

EINTR == -2

OkR(val, m) == [err |-> "Ok", val |-> val, mem |-> m]
ErrR(err, m) == [err |-> err, val |-> Nothing, mem |-> m]

-----------------------------------------------------------------------------
(* Memory.                                                                 *)
CallerBuffer == 100000   \* where the bytes of a BufferDataLoader are

Ends(m) == {a + Len(m.heap[a]) : a \in DOMAIN m.heap} \cup {(p + 1) * PageSize : p \in DOMAIN m.pages}
UpTo(n, unit) == ((n + unit - 1) \div unit) * unit
Top(m) == Max(Ends(m) \cup {MaxAlign})

MallocAt(m, skew) == UpTo(Top(m), MaxAlign) + skew
Malloc(m, a, size) == [m EXCEPT !.heap = [b \in DOMAIN @ \cup {a} |-> IF b = a THEN [i \in 1..size |-> 0] ELSE @[b]]]
FreeBlock(m, a) ==
  IF a \in DOMAIN m.heap THEN [m EXCEPT !.heap = RestrictDomain(@, LAMBDA b : b # a)] ELSE [m EXCEPT !.invalid = TRUE]
Store(m, block, at, bytes) ==
  [m EXCEPT !.heap[block] = [i \in DOMAIN @ |-> LET j == block + i - at IN IF j \in 1..Len(bytes) THEN bytes[j] ELSE @[i]]]

Unmap(m, start, size) ==
  [m EXCEPT !.pages = RestrictDomain(@, LAMBDA p : p \notin (start \div PageSize)..(UpTo(start + size, PageSize) \div PageSize - 1))]

(* The byte at an address, for a file that may be mapped there.            *)
ByteAt(m, file, a) ==
  LET blocks == {b \in DOMAIN m.heap : b <= a /\ a < b + Len(m.heap[b])}
      at == m.pages[a \div PageSize] * PageSize + (a % PageSize)
  IN CASE a >= CallerBuffer -> file.bytes[a - CallerBuffer + 1]
       [] a < CallerBuffer /\ blocks # {} -> LET b == CHOOSE b \in blocks : TRUE IN m.heap[b][a - b + 1]
       [] a < CallerBuffer /\ blocks = {} /\ a \div PageSize \in DOMAIN m.pages ->
            IF at < Len(file.bytes) THEN file.bytes[at + 1] ELSE 0
       [] OTHER -> Nothing

BytesAt(m, file, a, n) == [i \in 1..n |-> ByteAt(m, file, a + i - 1)]

(* FreeableBuffer; from is the place in the file that was asked for.       *)
EmptyBuffer == [data |-> Nothing, size |-> 0, free_fn |-> Nothing, context |-> 0, from |-> 0]

get_overlapping_pages(offset, size) ==
  LET start == (offset \div PageSize) * PageSize
      end == ((offset + size + PageSize - 1) \div PageSize) * PageSize
  IN [start |-> start, size |-> end - start]

FreeSegment(m, buffer) == FreeBlock(m, buffer.data - buffer.context)

MunmapBySize(m, buffer) == Unmap(m, (buffer.data \div PageSize) * PageSize, buffer.size)
MunmapSegment(m, buffer) ==
  LET range == get_overlapping_pages(buffer.data, buffer.size) IN Unmap(m, range.start, range.size)

Free(m, buffer) ==
  CASE buffer.data = Nothing \/ buffer.free_fn = Nothing -> m
    [] buffer.free_fn = "FreeSegment" -> FreeSegment(m, buffer)
    [] buffer.free_fn = "MunmapSegment" -> MunmapSegment(m, buffer)

-----------------------------------------------------------------------------
(* The loaders.  l is [file, mode].                                        *)
FileSize(l) == Len(l.file.bytes)
Alignment(l) == IF l.mode = "FileAligned" THEN 2 * MaxAlign ELSE MaxAlign

align_pointer(a, alignment) == IF a % alignment = 0 THEN a ELSE (a \div alignment) * alignment + (alignment - 1) + 1

(* The loop of load_into: pread() answers as the script says, then in full. *)
ReadStep(l, s, nread) ==
  IF s.err # "Ok" \/ s.needed = 0 \/ nread = EINTR THEN s
  ELSE IF nread <= 0 THEN [s EXCEPT !.err = "AccessFailed"]
  ELSE LET n == Min({nread, s.needed})
       IN [s EXCEPT !.needed = @ - n, !.offset = @ + n, !.buf = @ \o SubSeq(l.file.bytes, s.offset + 1, s.offset + n)]

file_load_into(l, offset, size, script) ==
  IF offset + size > FileSize(l) THEN [err |-> "InvalidArgument", needed |-> size, offset |-> offset, buf |-> <<>>]
  ELSE LET answers == Append(script, size)
           read[i \in 0..Len(answers)] ==
             IF i = 0 THEN [err |-> "Ok", needed |-> size, offset |-> offset, buf |-> <<>>]
             ELSE ReadStep(l, read[i - 1], answers[i])
       IN read[Len(answers)]

file_load(l, m, offset, size) ==
  IF offset + size > FileSize(l) THEN {ErrR("InvalidArgument", m)}
  ELSE IF size = 0 THEN {OkR(EmptyBuffer, m)}
  ELSE LET alloc_size == size + IF Alignment(l) > MaxAlign THEN Alignment(l) ELSE 0
           Read(block, script) ==
             LET data == align_pointer(block, Alignment(l))
                 got == file_load_into(l, offset, size, script)
                 taken == Malloc(m, block, alloc_size)
             IN IF got.err # "Ok" THEN ErrR(got.err, FreeBlock(taken, block))
                ELSE OkR([data |-> data, size |-> size, free_fn |-> "FreeSegment", context |-> data - block, from |-> offset],
                         Store(taken, block, data, got.buf))
       IN {ErrR("MemoryAllocationFailed", m)} \cup
          {Read(MallocAt(m, skew), script) : skew \in {0, MaxAlign}, script \in Scripts}

(* mlock() may fail; what is mapped is then unmapped by the size asked for. *)
mmap_load(l, m, offset, size) ==
  IF offset + size > FileSize(l) THEN {ErrR("InvalidArgument", m)}
  ELSE IF size = 0 THEN {OkR(EmptyBuffer, m)}
  ELSE LET range == get_overlapping_pages(offset, size)
           first == UpTo(Top(m), PageSize) \div PageSize
           count == range.size \div PageSize
           mapped == [m EXCEPT !.pages = [p \in DOMAIN @ \cup (first..(first + count - 1)) |->
                        IF p < first THEN @[p] ELSE range.start \div PageSize + p - first]]
           left == Unmap(mapped, first * PageSize, size)
           buffer == [data |-> first * PageSize + offset - range.start, size |-> size,
                      free_fn |-> "MunmapSegment", context |-> PageSize, from |-> offset]
       IN {ErrR("AccessFailed", m), OkR(buffer, mapped)} \cup
          (IF l.mode = "MmapUseMlock"
           THEN {ErrR("NotSupported", [left EXCEPT !.leaked = @ \cup (DOMAIN left.pages \ DOMAIN m.pages)])} ELSE {})

buffer_load(l, m, offset, size) ==
  IF offset + size > FileSize(l) THEN {ErrR("InvalidArgument", m)}
  ELSE {OkR([data |-> CallerBuffer + offset, size |-> size, free_fn |-> Nothing, context |-> 0, from |-> offset], m)}

load_from(l, m, offset, size) ==
  CASE l.mode \in {"File", "FileAligned"} -> file_load(l, m, offset, size)
    [] l.mode \in {"Mmap", "MmapUseMlock", "MmapUseMlockIgnoreErrors"} -> mmap_load(l, m, offset, size)
    [] l.mode = "Buffer" -> buffer_load(l, m, offset, size)

(* load_into writes to a block of the heap; MmapDataLoader has none.       *)
load_into(l, m, offset, size, block, at) ==
  CASE l.mode \in {"File", "FileAligned"} ->
         {LET got == file_load_into(l, offset, size, script)
          IN IF got.err # "Ok" THEN ErrR(got.err, Store(m, block, at, got.buf)) ELSE OkR(at, Store(m, block, at, got.buf))
            : script \in Scripts}
    [] l.mode = "Buffer" ->
         IF offset + size > FileSize(l) THEN {ErrR("InvalidArgument", m)}
         ELSE {OkR(at, Store(m, block, at, SubSeq(l.file.bytes, offset + 1, offset + size)))}
    [] OTHER -> {ErrR("NotImplemented", m)}

-----------------------------------------------------------------------------
(* ExtendedHeader.                                                         *)
kNumHeadBytes == 64
kHeaderOffset == 8
kMagic == <<101, 104, 48, 48>>
kMinimumHeaderLength == 24

LittleEndian(bytes) == FoldRight(LAMBDA b, n : n * 256 + b, bytes, 0)
Field(head, at, width) == LittleEndian(SubSeq(head, kHeaderOffset + at + 1, kHeaderOffset + at + width))

Parse(head) ==
  CASE Len(head) < kNumHeadBytes -> [err |-> "InvalidArgument"]
    [] Len(head) >= kNumHeadBytes /\ SubSeq(head, kHeaderOffset + 1, kHeaderOffset + 4) # kMagic -> [err |-> "NotFound"]
    [] OTHER -> IF Field(head, 4, 4) < kMinimumHeaderLength THEN [err |-> "InvalidProgram"]
                ELSE [err |-> "Ok", program_size |-> Field(head, 8, 8), segment_base_offset |-> Field(head, 16, 8)]

-----------------------------------------------------------------------------
(* Program.                                                                *)
HasConstantSegment(flat) == flat.constant_segment # Nothing /\ Len(flat.constant_segment.offsets) > 1

CheckProgram(flat, p) ==
  CASE ~flat.identified -> "InvalidProgram"
    [] flat.identified /\ p.data % MaxAlign # 0 -> "InvalidArgument"
    [] flat.identified /\ p.data % MaxAlign = 0 /\ HasConstantSegment(flat) /\
       (flat.constant_buffer # <<>> \/ flat.constant_segment.segment_index >= Len(flat.segments)) -> "InvalidProgram"
    [] OTHER -> "Ok"

load_constants(l, p, base) ==
  LET flat == l.file.flat
      made(c) == [loader |-> l, segment_base_offset |-> base, data |-> p.val, constants |-> c]
      segment == flat.segments[flat.constant_segment.segment_index + 1]
  IN IF ~HasConstantSegment(flat) THEN {OkR(made(EmptyBuffer), p.mem)}
     ELSE {IF c.err # "Ok" THEN ErrR(c.err, Free(c.mem, p.val)) ELSE OkR(made(c.val), c.mem)
             : c \in load_from(l, p.mem, base + segment.offset, segment.size)}

load_data(l, m, size, base) ==
  UNION {IF p.err # "Ok" THEN {p}
         ELSE IF CheckProgram(l.file.flat, p.val) # "Ok" THEN {ErrR(CheckProgram(l.file.flat, p.val), Free(p.mem, p.val))}
         ELSE load_constants(l, p, base) : p \in load_from(l, m, 0, size)}

program_load(l, m) ==
  UNION {IF h.err # "Ok" THEN {h}
         ELSE LET eh == Parse(BytesAt(h.mem, l.file, h.val.data, h.val.size))
                  freed == Free(h.mem, h.val)
              IN CASE eh.err = "Ok" -> load_data(l, freed, eh.program_size, eh.segment_base_offset)
                   [] eh.err = "NotFound" -> load_data(l, freed, FileSize(l), 0)
                   [] OTHER -> {ErrR(eh.err, freed)} : h \in load_from(l, m, 0, kNumHeadBytes)}

LoadSegment(p, m, index) ==
  LET segments == p.loader.file.flat.segments
  IN IF p.segment_base_offset = 0 \/ index >= Len(segments) THEN {ErrR("NotFound", m)}
     ELSE load_from(p.loader, m, p.segment_base_offset + segments[index + 1].offset, segments[index + 1].size)

get_constant_buffer_data(p, m, index, nbytes) ==
  LET flat == p.loader.file.flat
      offsets == flat.constant_segment.offsets
  IN IF p.constants.data # Nothing
     THEN IF index >= Len(offsets) \/ offsets[index + 1] + nbytes > p.constants.size THEN ErrR("InvalidArgument", m)
          ELSE OkR(p.constants.data + offsets[index + 1], m)
     ELSE IF index >= Len(flat.constant_buffer) \/ flat.constant_buffer[index + 1].size > nbytes
          THEN ErrR("InvalidArgument", m)
          ELSE OkR(p.data.data + flat.constant_buffer[index + 1].at, m)

load_mutable_subsegment_into(p, m, index, size, block, at) ==
  LET flat == p.loader.file.flat
      mutables == flat.mutable_data_segment
      segment == flat.segments[mutables.segment_index + 1]
  IN IF p.segment_base_offset = 0 \/ mutables = Nothing THEN {ErrR("NotFound", m)}
     ELSE IF index >= Len(mutables.offsets) \/ mutables.segment_index >= Len(flat.segments) THEN {ErrR("NotFound", m)}
     ELSE IF mutables.offsets[index + 1] + size > segment.size THEN {ErrR("InvalidArgument", m)}
     ELSE load_into(p.loader, m, p.segment_base_offset + segment.offset + mutables.offsets[index + 1], size, block, at)

PlanOf(p, name) == CHOOSE plan \in p.loader.file.flat.plans : plan.name = name
HasPlan(p, name) == \E plan \in p.loader.file.flat.plans : plan.name = name

method_meta(p, name) == IF HasPlan(p, name) THEN "Ok" ELSE "InvalidArgument"

num_memory_planned_buffers(plan) == IF plan.buffer_sizes = <<>> THEN 0 ELSE Len(plan.buffer_sizes) - 1
memory_planned_buffer_size(plan, index) == plan.buffer_sizes[index + 2]

-----------------------------------------------------------------------------
(* The registry of kernels.                                                *)
IsFallback(k) == k.key = <<>>

register_kernels_internal(table, span) ==
  LET put[i \in 0..Len(span)] ==
        IF i = 0 THEN [table |-> table, err |-> "Ok"]
        ELSE LET before == put[i - 1]
             IN IF before.err # "Ok" THEN before
                ELSE IF \E j \in DOMAIN before.table : before.table[j].name = span[i].name /\ before.table[j].key = span[i].key
                THEN [before EXCEPT !.err = "InvalidArgument"]
                ELSE [before EXCEPT !.table = Append(@, span[i])]
  IN IF Len(span) + Len(table) > MaxKernels THEN [table |-> table, err |-> "Internal"] ELSE put[Len(span)]

(* The first of that key, or else the last that is a fallback.             *)
get_op_function_from_registry(table, op) ==
  LET exact == {i \in DOMAIN table : table[i].name = op.name /\ table[i].key = op.key}
      fallback == {i \in DOMAIN table : table[i].name = op.name /\ IsFallback(table[i])}
  IN IF exact # {} THEN table[Min(exact)].op
     ELSE IF fallback # {} THEN table[Max(fallback)].op ELSE Nothing

-----------------------------------------------------------------------------
(* Module.  A step takes and gives [mod, mem].                             *)
NoModule == [life |-> "none"]
NewModule(file, mode) ==
  [life |-> "live", file |-> file, mode |-> mode, loader |-> mode \in {"Buffer", "FileAligned"},
   program |-> Nothing, methods |-> <<>>, ran |-> Nothing]

LoaderOf(mod) == [file |-> mod.file, mode |-> mod.mode]
NoFile(mode) == mode = "Buffer"

(* from(): open, fstat or strdup may fail, and close what was opened.      *)
loader_from(mod, m) ==
  IF mod.loader THEN {OkR(mod, m)}
  ELSE {ErrR("AccessFailed", m), OkR([mod EXCEPT !.loader = TRUE], [m EXCEPT !.fds = @ + 1])}

module_load(mod, m) ==
  IF mod.program # Nothing THEN {[err |-> "Ok", mod |-> mod, mem |-> m]}
  ELSE UNION {IF l.err # "Ok" THEN {[err |-> l.err, mod |-> mod, mem |-> l.mem]}
              ELSE {[err |-> p.err, mod |-> IF p.err = "Ok" THEN [l.val EXCEPT !.program = p.val] ELSE l.val, mem |-> p.mem]
                      : p \in program_load(LoaderOf(mod), l.mem)}
                : l \in loader_from(mod, m)}

(* The planned buffers of a method, one block each.                        *)
AllocatePlanned(m, plan) ==
  LET put[i \in 0..num_memory_planned_buffers(plan)] ==
        IF i = 0 THEN [mem |-> m, spans |-> <<>>]
        ELSE LET size == memory_planned_buffer_size(plan, i - 1)
                 a == MallocAt(put[i - 1].mem, 0)
             IN [mem |-> Malloc(put[i - 1].mem, a, size), spans |-> Append(put[i - 1].spans, [data |-> a, size |-> size])]
  IN put[num_memory_planned_buffers(plan)]

FreeAll(m, spans) == FoldSeq(LAMBDA s, n : FreeBlock(n, s.data), m, spans)

get_offset_address(spans, memory_id, offset_bytes, size_bytes) ==
  IF memory_id \notin 0..(Len(spans) - 1) THEN "InvalidArgument"
  ELSE IF offset_bytes + size_bytes > spans[memory_id + 1].size THEN "MemoryAllocationFailed" ELSE "Ok"

getMemPlannedPtrById(m, spans, t) ==
  LET id == t.memory.id
      err == get_offset_address(spans, id, t.memory.offset, t.nbytes)
  IN IF err # "Ok" THEN ErrR(err, m) ELSE OkR(spans[id + 1].data + t.memory.offset, m)
getMemPlannedPtr(m, spans, t) ==
  LET id == t.memory.id - 1
      err == get_offset_address(spans, id, t.memory.offset, t.nbytes)
  IN IF err # "Ok" THEN ErrR(err, m) ELSE OkR(spans[id + 1].data + t.memory.offset, m)

getTensorDataPtr(p, m, spans, t) ==
  LET planned == getMemPlannedPtr(m, spans, t)
      block == spans[t.memory.id].data
  IN IF t.memory # Nothing
     THEN IF planned.err # "Ok" \/ t.data_buffer_idx = 0 THEN {planned}
          ELSE load_mutable_subsegment_into(p, m, t.data_buffer_idx, t.nbytes, block, planned.val)
     ELSE IF t.data_buffer_idx > 0 THEN {get_constant_buffer_data(p, m, t.data_buffer_idx, t.nbytes)}
     ELSE {OkR(Nothing, m)}

ParseTensors(p, m, spans, tensors) ==
  LET upto[i \in 0..Len(tensors)] ==
        IF i = 0 THEN {OkR(<<>>, m)}
        ELSE UNION {IF r.err # "Ok" THEN {r}
                    ELSE {IF t.err # "Ok" THEN t ELSE OkR(Append(r.val, t.val), t.mem)
                            : t \in getTensorDataPtr(p, r.mem, spans, tensors[i])} : r \in upto[i - 1]}
  IN upto[Len(tensors)]

(* A backend may free its data in init() or keep it; it may fail.          *)
InitDelegate(p, m, plan) ==
  IF plan.delegate = Nothing THEN {OkR(EmptyBuffer, m)}
  ELSE UNION {IF s.err # "Ok" THEN {s}
              ELSE {OkR(s.val, s.mem), OkR(EmptyBuffer, Free(s.mem, s.val)), ErrR("DelegateInvalidHandle", Free(s.mem, s.val))}
                : s \in LoadSegment(p, m, plan.delegate)}

(* Method::load: values, then delegates, then the operators of the chains. *)
LoadHolder(p, m, plan) ==
  LET planned == AllocatePlanned(m, plan)
      Resolve(op) == get_op_function_from_registry(registered_kernels, op)
      holder(ptrs, segment) ==
        [plan |-> plan, spans |-> planned.spans, ptrs |-> ptrs, segment |-> segment, cursor |-> "start",
         ops |-> [i \in DOMAIN plan.ops |-> Resolve(plan.ops[i])], inputs |-> [i \in 1..plan.inputs |-> Nothing]]
      Undo(r) == ErrR(r.err, FreeAll(r.mem, planned.spans))
  IN UNION {IF t.err # "Ok" THEN {Undo(t)}
            ELSE {IF d.err # "Ok" THEN Undo(d)
                  ELSE IF \E i \in DOMAIN plan.ops : Resolve(plan.ops[i]) = Nothing
                  THEN ErrR("OperatorMissing", FreeAll(Free(d.mem, d.val), planned.spans))
                  ELSE OkR(holder(t.val, d.val), d.mem) : d \in InitDelegate(p, t.mem, plan)}
              : t \in ParseTensors(p, planned.mem, planned.spans, plan.tensors)}

Loaded(mod, name) == name \in DOMAIN mod.methods
WithMethod(mod, name, h) == [mod EXCEPT !.methods = [n \in DOMAIN @ \cup {name} |-> IF n = name THEN h ELSE @[n]]]

load_module_method(mod, m, name) ==
  IF Loaded(mod, name) THEN {[err |-> "Ok", mod |-> mod, mem |-> m]}
  ELSE UNION {IF r.err # "Ok" THEN {r}
              ELSE IF method_meta(r.mod.program, name) # "Ok"
              THEN {[r EXCEPT !.err = method_meta(r.mod.program, name)]}
              ELSE {[err |-> h.err, mod |-> IF h.err = "Ok" THEN WithMethod(r.mod, name, h.val) ELSE r.mod, mem |-> h.mem]
                      : h \in LoadHolder(r.mod.program, r.mem, PlanOf(r.mod.program, name))}
                : r \in module_load(mod, m)}

Names == UNION {{plan.name : plan \in f.flat.plans} : f \in Files} \cup {"missing"}

(* What happened becomes the state.                                        *)
Operation(outcomes) ==
  /\ module.life = "live" /\ ops < MaxOps /\ ops' = ops + 1
  /\ \E r \in outcomes : module' = r.mod /\ memory_map' = r.mem
  /\ UNCHANGED registered_kernels

Construct(file, mode) ==
  /\ module.life = "none"
  /\ module' = NewModule(file, mode)
  /\ memory_map' = [memory_map EXCEPT !.fds = @ + IF mode = "FileAligned" THEN 1 ELSE 0]
  /\ UNCHANGED <<registered_kernels, ops>>

module_method_names == Operation(module_load(module, memory_map))
module_load_method(name) == Operation(load_module_method(module, memory_map, name))

(* set_inputs of the Method refuses a cursor that is not at the start.     *)
Executions(h, inputs) ==
  IF h.cursor # "start" \/ \E i \in DOMAIN inputs : inputs[i] = Nothing THEN {}
  ELSE {[cursor |-> "start", ran |-> inputs], [cursor |-> "start", ran |-> Nothing], [cursor |-> "middle", ran |-> Nothing]}

Merged(inputs, values) ==
  [i \in DOMAIN inputs |-> IF i \in DOMAIN values /\ values[i] # Nothing THEN values[i] ELSE inputs[i]]

module_execute(name, values) ==
  Operation(UNION {
    IF r.err # "Ok" THEN {r}
    ELSE LET h == r.mod.methods[name]
             inputs == Merged(h.inputs, values)
             with(cursor) == WithMethod(r.mod, name, [h EXCEPT !.inputs = inputs, !.cursor = cursor])
         IN {[r EXCEPT !.mod = with(h.cursor)]} \cup
            {[r EXCEPT !.mod = [with(e.cursor) EXCEPT !.ran = IF e.ran = Nothing THEN @ ELSE <<name, e.ran>>]]
               : e \in Executions(h, inputs)}
      : r \in {q \in load_module_method(module, memory_map, name) :
                 q.err = "Ok" => Len(values) <= Len(q.mod.methods[name].inputs)}})

module_set_input(name, index, value) ==
  Operation({IF r.err # "Ok" THEN r
             ELSE [r EXCEPT !.mod = WithMethod(r.mod, name, [r.mod.methods[name] EXCEPT !.inputs[index] = value])]
               : r \in {q \in load_module_method(module, memory_map, name) :
                          q.err = "Ok" => index \in DOMAIN q.mod.methods[name].inputs}})

module_set_inputs(name, values) ==
  Operation({IF r.err # "Ok" \/ Len(values) # Len(r.mod.methods[name].inputs) THEN r
             ELSE [r EXCEPT !.mod = WithMethod(r.mod, name, [r.mod.methods[name] EXCEPT !.inputs = values])]
               : r \in load_module_method(module, memory_map, name)})

(* Methods go first, then the loader and then the program.                 *)
FreeHolder(m, h) == FreeAll(Free(m, h.segment), h.spans)

DestroyModule ==
  LET names == SetToSeq(DOMAIN module.methods)
      freed == FoldSeq(LAMBDA n, m : FreeHolder(m, module.methods[n]), memory_map, names)
      closed == IF module.loader /\ ~NoFile(module.mode) THEN [freed EXCEPT !.fds = @ - 1] ELSE freed
  IN /\ module.life = "live"
     /\ module' = [life |-> "gone"]
     /\ memory_map' = IF module.program = Nothing THEN closed
                      ELSE Free(Free(closed, module.program.constants), module.program.data)
     /\ UNCHANGED <<registered_kernels, ops>>

(* A library is loaded: its kernels are registered, or the process aborts. *)
register_kernels(span) ==
  LET r == register_kernels_internal(registered_kernels, span)
  IN /\ module.life = "none"
     /\ r.err = "Ok"
     /\ registered_kernels' = r.table
     /\ UNCHANGED <<module, memory_map, ops>>

ModuleInit ==
  /\ module = NoModule
  /\ memory_map = [heap |-> <<>>, pages |-> <<>>, leaked |-> {}, fds |-> 0, invalid |-> FALSE]
  /\ registered_kernels = <<>>
  /\ ops = 0

ModuleNext ==
  \/ \E span \in Spans : register_kernels(span)
  \/ \E file \in Files, mode \in Modes : Construct(file, mode)
  \/ module_method_names
  \/ \E name \in Names :
       \/ module_load_method(name)
       \/ \E values \in Given : module_execute(name, values) \/ module_set_inputs(name, values)
       \/ \E values \in Given, index \in 1..2 : values # <<>> /\ module_set_input(name, index, values[1])
  \/ DestroyModule

ModuleSpec == ModuleInit /\ [][ModuleNext]_ModuleVars

-----------------------------------------------------------------------------
(* Properties.                                                             *)
Live == module.life = "live"
HasProgram == Live /\ module.program # Nothing
Holders == IF Live THEN {module.methods[n] : n \in DOMAIN module.methods} ELSE {}

HeldBuffers ==
  (IF HasProgram THEN {module.program.data, module.program.constants} ELSE {}) \cup {h.segment : h \in Holders}

Shows(a, from, n) == BytesAt(memory_map, module.file, a, n) = SubSeq(module.file.bytes, from + 1, from + n)

(* Where the bytes of the constant, or of the initial value, of a tensor   *)
(* are in the file.                                                        *)
ConstantFrom(p, t) ==
  LET flat == module.file.flat
  IN IF HasConstantSegment(flat)
     THEN p.segment_base_offset + flat.segments[flat.constant_segment.segment_index + 1].offset
          + flat.constant_segment.offsets[t.data_buffer_idx + 1]
     ELSE flat.constant_buffer[t.data_buffer_idx + 1].at
InitialFrom(p, t) ==
  LET mutables == module.file.flat.mutable_data_segment
  IN p.segment_base_offset + module.file.flat.segments[mutables.segment_index + 1].offset
     + mutables.offsets[t.data_buffer_idx + 1]

TensorInPlace(h, i) ==
  LET t == h.plan.tensors[i]
      a == h.ptrs[i]
      own == h.spans[t.memory.id]
  IN /\ t.memory # Nothing =>
          /\ own.size = h.plan.buffer_sizes[t.memory.id + 1]
          /\ own.data + t.memory.offset = a /\ a + t.nbytes <= own.data + own.size
          /\ t.data_buffer_idx > 0 => Shows(a, InitialFrom(module.program, t), t.nbytes)
     /\ t.memory = Nothing /\ t.data_buffer_idx > 0 => Shows(a, ConstantFrom(module.program, t), t.nbytes)

(* Whatever calls failed before it: what the program, its constants and    *)
(* the segments of its delegates show are the bytes of the file that were  *)
(* asked for, and every tensor of a loaded method points to its own part   *)
(* of a planned buffer, or to its constant (Program::load, LoadSegment,    *)
(* getTensorDataPtr, the load() of the loaders).                           *)
LoadedBytes ==
  /\ \A b \in HeldBuffers : b.data # Nothing => Shows(b.data, b.from, b.size)
  /\ \A h \in Holders : \A i \in DOMAIN h.plan.tensors : TensorInPlace(h, i)
  /\ \A h \in Holders : \A i \in DOMAIN h.ops :
       LET own == {k \in Range(registered_kernels) : k.name = h.plan.ops[i].name /\ k.key = h.plan.ops[i].key}
           any == {k \in Range(registered_kernels) : k.name = h.plan.ops[i].name /\ IsFallback(k)}
       IN h.ops[i] \in {k.op : k \in IF own # {} THEN own ELSE any}

(* The blocks, pages and files in use are those of what the Module holds,  *)
(* each once, after any failure in the middle of a load and after the      *)
(* Module is gone: but for the pages that MmapDataLoader::load leaves when *)
(* mlock() fails, which it unmaps by the size of the segment               *)
(* (FreeSegment, MunmapSegment, ~Module).                                  *)
NothingLost ==
  LET blocks == {b \in HeldBuffers : b.free_fn = "FreeSegment"}
      maps == {b \in HeldBuffers : b.free_fn = "MunmapSegment"}
      PagesOf(b) == (b.data \div PageSize)..((b.data + b.size - 1) \div PageSize)
  IN /\ ~memory_map.invalid
     /\ DOMAIN memory_map.heap = {b.data - b.context : b \in blocks} \cup UNION {{s.data : s \in Range(h.spans)} : h \in Holders}
     /\ DOMAIN memory_map.pages = memory_map.leaked \cup UNION {PagesOf(b) : b \in maps}
     /\ memory_map.fds = IF Live /\ module.loader /\ ~NoFile(module.mode) THEN 1 ELSE 0
============================================================================

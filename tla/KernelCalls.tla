---------------------------- MODULE KernelCalls ----------------------------
(***************************************************************************)
(* The kernel calls of one instruction, over the executions of a loaded    *)
(* method.  Memory planning gives the instruction's output tensors their   *)
(* types, their dimension orders and buffers for their upper-bound shapes  *)
(* (planned); every call resizes them in place and leaves them for the     *)
(* next call, with other input shapes, to resize again.                    *)
(*                                                                         *)
(* A kernel is an operator of its output tensor, or of the sequence of its *)
(* output tensors, that returns an Outcome (module Tensors).  The record   *)
(* call keeps what the current call did until the runtime has looked at    *)
(* the status; `fresh' is what the same call would have done on the        *)
(* outputs as planned.  A process that aborted takes no further step.      *)
(***************************************************************************)
EXTENDS Tensors

CONSTANT
  Instructions   \* [family, outs]: a family of kernels and planned outputs

VARIABLES planned, outs, call
vars == <<planned, outs, call>>

NoCall == [op |-> "none"]

Init ==
  /\ planned \in Instructions
  /\ outs = planned.outs
  /\ call = NoCall

(* The Method::execute_instruction case for kernel calls, seen from the    *)
(* kernel.                                                                 *)
CallMany(op, ins, args, kernel(_)) ==
  /\ \E r \in {kernel(outs)} :
       /\ outs' = r.out
       /\ call' = [op |-> op, ins |-> ins, args |-> args, before |-> outs, status |-> r.status,
                   reads |-> r.reads, fresh |-> IF outs = planned.outs THEN r ELSE kernel(planned.outs)]
  /\ UNCHANGED planned

(* A kernel with one output: its outcome as one of several outputs         *)
AsMany(r) == Outcome(r.status, <<r.out>>, <<r.reads>>)
Call(op, ins, args, kernel(_)) == CallMany(op, ins, args, LAMBDA os : AsMany(kernel(os[1])))

(* The family of kernels this instruction may call, between two calls.     *)
Idle(family) == call = NoCall /\ planned.family = family

Return ==
  /\ call # NoCall
  /\ call.status # "abort"
  /\ call' = NoCall
  /\ UNCHANGED <<planned, outs>>

-----------------------------------------------------------------------------
Ok == call # NoCall /\ call.status = "Ok"
out == outs[1]
reads == call.reads[1]

(* Coordinates of a position, and back, for the properties.                *)
CoordOf(t, p) == LET st == strides(t) IN [d \in 1..dim(t) |-> (p \div st[d]) % t.sizes[d]]
At(t, c) == calculate_linear_index(c, strides(t))
Norm(i, n) == IF i < 0 THEN i + n ELSE i

(* Kernels that use the shape they find in the output.                     *)
InPlace == {"copy_", "allclose_out", "split_copy_Tensor_out", "unbind_copy_int_out"}

(* TypeOK: no kernel changes anything of its outputs but the sizes, whose  *)
(* number stays the same, and the sizes always fit the planned buffer,     *)
(* whether the call succeeded or failed after the resize                   *)
(* (TensorImpl::internal_resize_contiguous).                               *)
TypeOK ==
  /\ planned \in Instructions
  /\ DOMAIN outs = DOMAIN planned.outs
  /\ \A k \in DOMAIN outs :
       /\ outs[k] = [planned.outs[k] EXCEPT !.sizes = outs[k].sizes]
       /\ dim(outs[k]) = dim(planned.outs[k])
       /\ numel(outs[k]) <= outs[k].bound
       /\ outs[k].static => outs[k].sizes = planned.outs[k].sizes
  /\ call # NoCall =>
       call.status \in {"Ok", "InvalidArgument", "MemoryAllocationFailed", "abort"}

(* HistoryFree: what a call returns, and which elements it combines, does  *)
(* not depend on the shapes earlier calls left in its outputs: a tensor    *)
(* that shrank can grow back as long as the buffer holds it.               *)
HistoryFree ==
  call # NoCall /\ call.op \notin InPlace =>
    /\ call.status = call.fresh.status
    /\ call.reads = call.fresh.reads
    /\ call.status = "Ok" => outs = call.fresh.out
=============================================================================

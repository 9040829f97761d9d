-------------------------- MODULE MCMethodLifecycle --------------------------
(* MethodLifecycle and ModuleRuntime for TLC, one of them at a time: the     *)
(* other stays where it starts.  A method has two chains and one delegate of *)
(* each data location.                                                       *)
EXTENDS MethodLifecycle, ModuleRuntime, TLC

CONSTANTS m1, m2, local

VARIABLE which

MCObjects == {local, m1, m2}
MCNInstr  == (0 :> 3) @@ (1 :> 1)
MCKind    == (<<0, 0>> :> "KernelCall") @@ (<<0, 1>> :> "KernelCall")
             @@ (<<0, 2>> :> "DelegateCall") @@ (<<1, 0>> :> "JumpFalseCall")

(* Program files: two that are as they should be, with segments and without, *)
(* and one for each thing Program::load refuses.                             *)
Byte(b) == (b * 7) % 251
Le(n, width) == [b \in 1..width |-> IF b = 1 THEN n ELSE 0]
HeadOf(length, size, base) == [b \in 1..8 |-> Byte(b)] \o kMagic \o Le(length, 4) \o Le(size, 8) \o Le(base, 8)
FileOf(head, size, flat) == [bytes |-> [b \in 1..size |-> IF b <= Len(head) THEN head[b] ELSE Byte(b)], flat |-> flat]
Tn(idx, id, offset, n) ==
  [data_buffer_idx |-> idx, memory |-> IF id = 0 THEN Nothing ELSE [id |-> id, offset |-> offset], nbytes |-> n]
Forward == [name |-> "forward", buffer_sizes |-> <<0, 5, 9>>, inputs |-> 2, delegate |-> 1,
            ops |-> <<[name |-> "add", key |-> <<6, 0>>], [name |-> "mul", key |-> <<6, 0>>]>>,
            tensors |-> <<Tn(0, 0, 0, 4), Tn(0, 1, 1, 4), Tn(1, 0, 0, 3), Tn(2, 0, 0, 6), Tn(1, 2, 3, 6)>>]
Plain == [Forward EXCEPT !.name = "plain", !.inputs = 1, !.ops = <<[name |-> "add", key |-> <<7, 0>>]>>,
            !.tensors = <<Tn(0, 2, 0, 9), Tn(1, 0, 0, 4)>>]
TooBig == [Plain EXCEPT !.name = "toobig", !.tensors = <<Tn(0, 1, 2, 4)>>]
Flat == [identified |-> TRUE, plans |-> {Forward, Plain, TooBig}, segments |-> <<[offset |-> 0, size |-> 10], [offset |-> 40, size |-> 20], [offset |-> 64, size |-> 8]>>,
         constant_segment |-> [segment_index |-> 0, offsets |-> <<0, 0, 4>>], constant_buffer |-> <<>>,
         mutable_data_segment |-> [segment_index |-> 2, offsets |-> <<0, 2>>]]
InFlat == [Flat EXCEPT !.plans = {[Plain EXCEPT !.delegate = Nothing]}, !.segments = <<>>, !.constant_segment = Nothing, !.mutable_data_segment = Nothing,
             !.constant_buffer = <<[at |-> 0, size |-> 0], [at |-> 50, size |-> 4]>>]
Good == FileOf(HeadOf(24, 70, 80), 152, Flat)
MCFiles == {Good, FileOf(<<>>, 70, InFlat), FileOf(HeadOf(23, 70, 80), 90, Flat), FileOf(HeadOf(24, 99, 80), 90, Flat),
            FileOf(HeadOf(24, 70, 80), 90, [Flat EXCEPT !.identified = FALSE]), FileOf(<<>>, 40, InFlat),
            FileOf(HeadOf(24, 70, 80), 152, [Flat EXCEPT !.constant_buffer = InFlat.constant_buffer])}
Kn(name, key, op) == [name |-> name, key |-> key, op |-> op]
MCSpans == {<<Kn("add", <<>>, 1), Kn("mul", <<6, 0>>, 2)>>, <<Kn("add", <<7, 0>>, 4), Kn("add", <<6, 0>>, 5)>>}
MCGiven == {<<1>>, <<Nothing, 2>>}
MCScripts == {<<-2, 3>>, <<3, 0>>}

MCInit == Init /\ ModuleInit /\ which \in {"Lifecycle", "Module"}

MCNext ==
  \/ which = "Lifecycle" /\ Next /\ UNCHANGED <<ModuleVars, which>>
  \/ which = "Module" /\ ModuleNext /\ UNCHANGED <<vars, which>>

MCSpec == MCInit /\ [][MCNext]_<<vars, ModuleVars, which>>
=============================================================================

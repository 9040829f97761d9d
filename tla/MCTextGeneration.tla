-------------------------- MODULE MCTextGeneration --------------------------
(* One of two runners: the portable one, or the one for MediaTek devices.  *)
EXTENDS TextGeneration, NeuronLlama, TLC

VARIABLE which

VocabMC == 0..2
ConfigsMC == [kv : BOOLEAN, parallel : BOOLEAN, greedy : BOOLEAN]
PromptsMC == {<<0>>, <<1, 2>>, <<0, 0, 1>>, <<1, 1, 1, 1>>}
DistributionsMC == {(0 :> a @@ 1 :> b @@ 2 :> 20 - a - b) : a \in {1, 6, 10}, b \in {0, 9}} \cup {(0 :> 0 @@ 1 :> 1 @@ 2 :> 19)}

(* One chunk with two rows of cache each, or two chunks.  The cache holds  *)
(* one or two batches, less than a conversation.                           *)
LlamaOptionsMC ==
  {[chunks |-> n, batch |-> b, cache |-> 3, max |-> 7, align |-> 2, rows |-> 3 - n, prompt |-> p, import |-> p, caller |-> a] :
     n \in 1..2, b \in {2, 3}, p \in BOOLEAN, a \in {"any", "inference"}}

Unused == lopt = 0 /\ lrt = 0 /\ lchunk = 0 /\ lmem = 0 /\ lhist = 0
FirstConfig == [kv |-> TRUE, parallel |-> TRUE, greedy |-> TRUE]

InitMC ==
  \/ which = "portable" /\ Init /\ Unused
  \/ which = "neuron" /\ Init /\ config = FirstConfig /\ LlamaInit

NextMC ==
  /\ UNCHANGED which
  /\ \/ which = "portable" /\ Next /\ UNCHANGED LlamaVars
     \/ which = "neuron" /\ LlamaNext /\ UNCHANGED vars

SpecMC == InitMC /\ [][NextMC]_<<vars, LlamaVars, which>> /\ WF_vars(RunnerStep)

(* What the MediaTek runner computes for a token is what the token and its *)
(* own past give, from the buffers of its chunks and from none other.      *)
ChunksCompute == which = "neuron" => AttendsOwnPast /\ BuffersInPlace
=============================================================================

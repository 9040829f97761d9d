--------------------------- MODULE TextGeneration ---------------------------
(***************************************************************************)
(* The text runner: Runner::generate of examples/models/llama/runner over  *)
(* TextPrefiller, TextTokenGenerator, TextDecoderRunner and Sampler of     *)
(* extension/llm.  The program (external) keeps the key-value cache        *)
(* between the steps, and between the calls of generate; a step writes the *)
(* tokens it is given at start_pos onwards and answers from every position *)
(* up to the last one written.  Another thread may call stop at any time.  *)
(***************************************************************************)
EXTENDS Integers, Sequences, FiniteSets, FiniteSetsExt

CONSTANTS
  Vocab,             \* 0..n-1
  Eos,               \* end-of-sequence tokens
  MaxSeqLen,         \* get_max_seq_len, the length of the cache
  Configs,           \* [kv, parallel, greedy]: use_kv_cache, dynamic shapes, temperature 0
  Prompts,           \* token sequences
  SeqLens,           \* seq_len arguments of generate
  Distributions,     \* softmax outputs: token -> probability, in parts of One
  One,
  Coins,             \* random_f32, in parts of One
  Topp,              \* kTopp, in parts of One
  Calls              \* bound: calls of generate

ASSUME RunnerAssumption ==
  /\ MaxSeqLen \in Nat \ {0} /\ Prompts \subseteq Seq(Vocab) /\ SeqLens \subseteq Int
  /\ Configs \subseteq [kv : BOOLEAN, parallel : BOOLEAN, greedy : BOOLEAN]

VARIABLES
  config,
  loaded,            \* Runner::is_loaded
  pc,                \* where generate is
  cache,             \* position -> token, -1 for none
  text,              \* prompt_tokens, then the tokens sampled
  prompt,            \* num_prompt_tokens
  start_pos, seq_len,
  drawn,             \* the last sampling: [probs, token]
  should_stop,       \* TextTokenGenerator::should_stop_
  late,              \* tokens printed since stop was called in the token loop
  status, calls

vars == <<config, loaded, pc, cache, text, prompt, start_pos, seq_len, drawn, should_stop, late, status, calls>>

NotDrawn == [token |-> -1]

Init ==
  /\ config \in Configs
  /\ loaded = FALSE
  /\ pc = "idle"
  /\ cache = [i \in 0..(MaxSeqLen - 1) |-> -1]
  /\ text = <<>> /\ prompt = 0 /\ start_pos = 0 /\ seq_len = 0
  /\ drawn = NotDrawn
  /\ should_stop = FALSE /\ late = 0
  /\ status = "none" /\ calls = 0

-----------------------------------------------------------------------------
(* Every candidate above the cutoff stays in the list.                     *)
sample_topp_uncut(probs, coin) ==
  {i \in Vocab : probs[i] * (Cardinality(Vocab) - 1) >= One - Topp}

(* Candidates below the cutoff are dropped, the rest sorted in descending  *)
(* order (equal ones in any order) and cut where their sum exceeds topp;   *)
(* the first whose cumulative sum exceeds the coin's share of that sum is  *)
(* taken.                                                                  *)
sample_topp(probs, coin) ==
  LET index == {i \in Vocab : probs[i] * (Cardinality(Vocab) - 1) >= One - Topp}
      sorted == {s \in [1..Cardinality(index) -> index] :
                   \A i, j \in DOMAIN s : i < j => s[i] # s[j] /\ probs[s[i]] >= probs[s[j]]}
      upto(s, i) == MapThenSumSet(LAMBDA k : probs[s[k]], 1..i)
      last_idx(s) == LET over == {i \in DOMAIN s : upto(s, i) > Topp} IN IF over = {} THEN Len(s) ELSE Min(over)
      pick(s) == LET last == last_idx(s)
                     hit == {i \in 1..last : coin * upto(s, last) < upto(s, i) * One}
                 IN s[IF hit = {} THEN last ELSE Min(hit)]
  IN {pick(s) : s \in sorted}

sample_mult(probs, coin) ==
  LET upto(i) == MapThenSumSet(LAMBDA k : probs[k], 0..i)
      hit == {i \in Vocab : coin < upto(i)}
  IN IF hit = {} THEN Max(Vocab) ELSE Min(hit)

sample_argmax(probs) == Min({i \in Vocab : \A j \in Vocab : probs[j] <= probs[i]})

(* Sampler::sample over the last row of logits.                            *)
logits_to_token(probs, coin) ==
  IF config.greedy THEN {sample_argmax(probs)}
  ELSE IF Topp <= 0 \/ Topp >= One THEN {sample_mult(probs, coin)}
  ELSE sample_topp(probs, coin)

(* The program: the cache operators refuse positions beyond the cache.     *)
step(tokens, at) ==
  IF ~config.kv THEN [ok |-> TRUE, cache |-> cache]
  ELSE IF at + Len(tokens) > MaxSeqLen THEN [ok |-> FALSE, cache |-> cache]
  ELSE [ok |-> TRUE, cache |-> [i \in DOMAIN cache |-> IF i \in at..(at + Len(tokens) - 1) THEN tokens[i - at + 1] ELSE cache[i]]]

Sample == \E probs \in Distributions, coin \in Coins : \E t \in logits_to_token(probs, coin) :
            drawn' = [probs |-> probs, token |-> t] /\ text' = Append(text, t)

-----------------------------------------------------------------------------

SequenceLength(len) == IF len > 0 /\ len <= MaxSeqLen THEN len ELSE MaxSeqLen

(* Runner::generate up to the prefill.  load fails before anything is      *)
(* kept, or succeeds.                                                      *)
LoadFails ==
  /\ pc = "idle" /\ ~loaded /\ calls < Calls
  /\ status' = "error"
  /\ calls' = calls + 1
  /\ UNCHANGED <<config, loaded, pc, cache, text, prompt, start_pos, seq_len, drawn, should_stop, late>>

Generate(p, len) ==
  /\ pc = "idle" /\ calls < Calls
  /\ loaded' = TRUE
  /\ text' = p
  /\ prompt' = Len(p)
  /\ seq_len' = SequenceLength(len)
  /\ start_pos' = 0
  /\ pc' = IF Len(p) >= 1 /\ Len(p) < MaxSeqLen /\ Len(p) < seq_len' THEN "prefill" ELSE "aborted"
  /\ status' = "running"
  /\ calls' = calls + 1
  /\ drawn' = NotDrawn
  /\ late' = 0
  /\ UNCHANGED <<config, cache, should_stop>>

(* The end of the prefill and the entry of TextTokenGenerator::generate.   *)
FirstToken ==
  /\ Sample
  /\ pc' = "loop"
  /\ should_stop' = FALSE

(* The whole prompt in one step.                                           *)
PrefillAll ==
  /\ pc = "prefill" /\ (config.parallel \/ ~config.kv)
  /\ LET s == step(text, start_pos)
     IN /\ s.ok
        /\ cache' = s.cache
  /\ start_pos' = start_pos + Len(text)
  /\ FirstToken
  /\ UNCHANGED <<config, loaded, prompt, seq_len, late, status, calls>>

(* The position is not advanced.                                           *)
PrefillAgain ==
  /\ pc = "prefill" /\ config.kv /\ ~config.parallel
  /\ LET s == step(<<text[start_pos + 1]>>, start_pos)
     IN /\ s.ok
        /\ cache' = s.cache
  /\ IF start_pos + 1 < prompt THEN UNCHANGED <<drawn, text, pc, should_stop, start_pos>> ELSE FirstToken /\ start_pos' = start_pos + 1
  /\ UNCHANGED <<config, loaded, prompt, seq_len, late, status, calls>>

(* One prompt token at a time, all at the position of the first.           *)
PrefillOneInPlace ==
  /\ pc = "prefill" /\ config.kv /\ ~config.parallel
  /\ LET s == step(<<text[start_pos + 1]>>, 0)
     IN /\ s.ok
        /\ cache' = s.cache
  /\ start_pos' = start_pos + 1
  /\ IF start_pos' < prompt THEN UNCHANGED <<drawn, text, pc, should_stop>> ELSE FirstToken
  /\ UNCHANGED <<config, loaded, prompt, seq_len, late, status, calls>>

PrefillOne ==
  /\ pc = "prefill" /\ config.kv /\ ~config.parallel
  /\ LET s == step(<<text[start_pos + 1]>>, start_pos)
     IN /\ s.ok
        /\ cache' = s.cache
  /\ start_pos' = start_pos + 1
  /\ IF start_pos' < prompt THEN UNCHANGED <<drawn, text, pc, should_stop>> ELSE FirstToken
  /\ UNCHANGED <<config, loaded, prompt, seq_len, late, status, calls>>

(* An iteration of the token loop up to the callback.  Without a cache the *)
(* token tensor, whose bound is its first size, cannot grow: the loop      *)
(* returns the error of resize_tensor_ptr.                                 *)
GenerateToken ==
  /\ pc = "loop" /\ start_pos < seq_len - 1
  /\ LET s == step(IF config.kv THEN <<text[Len(text)]>> ELSE text, start_pos)
     IN /\ s.ok
        /\ cache' = s.cache
  /\ Sample
  /\ start_pos' = start_pos + 1
  /\ IF config.kv
     THEN pc' = "printed" /\ late' = (IF should_stop THEN late + 1 ELSE late) /\ UNCHANGED status
     ELSE pc' = "idle" /\ status' = "error" /\ UNCHANGED late
  /\ UNCHANGED <<config, loaded, prompt, seq_len, should_stop, calls>>

StepFails ==
  /\ pc \in {"prefill", "loop"}
  /\ pc = "loop" => start_pos < seq_len - 1
  /\ pc' = "idle"
  /\ status' = "error"
  /\ UNCHANGED <<config, loaded, cache, text, prompt, start_pos, seq_len, drawn, should_stop, late, calls>>

Ends == should_stop \/ text[Len(text)] \in Eos

AfterCallback ==
  /\ pc = "printed"
  /\ pc' = IF Ends THEN "idle" ELSE "loop"
  /\ status' = IF Ends THEN "Ok" ELSE status
  /\ UNCHANGED <<config, loaded, cache, text, prompt, start_pos, seq_len, drawn, should_stop, late, calls>>

LengthReached ==
  /\ pc = "loop" /\ start_pos >= seq_len - 1
  /\ pc' = "idle"
  /\ status' = "Ok"
  /\ UNCHANGED <<config, loaded, cache, text, prompt, start_pos, seq_len, drawn, should_stop, late, calls>>

(* Runner::stop, from any thread.                                          *)
Stop ==
  /\ loaded /\ pc # "aborted"
  /\ should_stop' = TRUE
  /\ UNCHANGED <<config, loaded, pc, cache, text, prompt, start_pos, seq_len, drawn, late, status, calls>>

RunnerStep == PrefillAll \/ PrefillOne \/ GenerateToken \/ AfterCallback \/ LengthReached

Next ==
  \/ LoadFails
  \/ \E p \in Prompts, len \in SeqLens : Generate(p, len)
  \/ RunnerStep
  \/ StepFails
  \/ Stop

(* The thread that called generate runs until it returns; nothing makes a  *)
(* step fail.                                                              *)
Spec == Init /\ [][Next]_vars /\ WF_vars(RunnerStep)

-----------------------------------------------------------------------------
Running == pc \in {"prefill", "loop", "printed"}

(* OwnContext: every position a step answers from holds this call's token  *)
(* for it, the prompt's and then each sampled token fed once and in order, *)
(* whatever earlier calls left in the cache and wherever they stopped      *)
(* (TextPrefiller::prefill, TextTokenGenerator::generate).                 *)
OwnContext ==
  Running /\ config.kv => start_pos < Len(text) + 1 /\ \A i \in 0..(start_pos - 1) : cache[i] = text[i + 1]

(* FitsCache: generate never asks for a step beyond the cache.             *)
FitsCache ==
  Running /\ config.kv =>
    /\ pc = "prefill" => start_pos + (IF config.parallel THEN Len(text) ELSE 1) <= MaxSeqLen
    /\ pc = "loop" /\ start_pos < seq_len - 1 => start_pos + 1 <= MaxSeqLen

(* EndsInTime: generate returns Ok only after an end-of-sequence token, a  *)
(* stop, or seq_len tokens, and no token but the first is printed after an *)
(* end-of-sequence token; after a stop in the token loop at most one more  *)
(* token is printed (TextTokenGenerator::generate).                        *)
EndsInTime ==
  /\ late <= 1
  /\ status = "Ok" /\ pc = "idle" => Len(text) = seq_len \/ should_stop \/ text[Len(text)] \in Eos
  /\ \A i \in (prompt + 2)..(Len(text) - 1) : text[i] \notin Eos

(* Nucleus: the sampled token is the most probable one at temperature 0;   *)
(* otherwise the tokens more probable than it hold at most topp, so it     *)
(* belongs to the smallest set that exceeds topp (Sampler::sample_topp).   *)
Nucleus ==
  drawn # NotDrawn =>
    LET above == {t \in Vocab : drawn.probs[t] > drawn.probs[drawn.token]}
    IN IF config.greedy THEN above = {} ELSE MapThenSumSet(LAMBDA t : drawn.probs[t], above) <= Topp

(* Returns: a call of generate returns or aborts.                          *)
Returns == Running ~> ~Running
=============================================================================

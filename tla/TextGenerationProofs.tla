------------------------ MODULE TextGenerationProofs ------------------------
(***************************************************************************)
(* Proofs that generate() answers from the context of its own call, for    *)
(* every vocabulary, sampler, cache length, prompt and number of calls;    *)
(* and that the masks and caches of the MediaTek runner forget padding,    *)
(* for every batch, cache length and number of rows.                       *)
(***************************************************************************)
EXTENDS TextGeneration, LlamaBuffers, TLAPS

(* The inductive invariant.  What OwnContext needs is how far the cache is *)
(* written: the step of a loop writes at the position of the last token,   *)
(* so the text is always one longer than the cache that was filled.        *)

Filled(c, t, n) == \A i \in 0 .. n - 1 : c[i] = t[i + 1]

Shape ==
  /\ config \in Configs /\ start_pos \in Nat /\ prompt \in Nat /\ seq_len \in Nat
  /\ DOMAIN cache = 0 .. MaxSeqLen - 1
  /\ \E S : text \in Seq(S)

Prefilling ==
  pc = "prefill" =>
    /\ Len(text) = prompt /\ start_pos < prompt /\ prompt < seq_len /\ seq_len <= MaxSeqLen
    /\ config.parallel \/ ~config.kv => start_pos = 0

Looping ==
  pc \in {"loop", "printed"} =>
    /\ Len(text) = start_pos + 1 /\ prompt <= start_pos
    /\ start_pos < seq_len /\ seq_len <= MaxSeqLen

Written == Running /\ config.kv => Filled(cache, text, start_pos)

Stopping ==
  /\ pc \in {"prefill", "loop"} => late = 0
  /\ pc = "printed" /\ late # 0 => late = 1 /\ should_stop
  /\ late \in {0, 1}

\* Beyond the first sampled token, the last one is the first that may end the text.
Ended ==
  /\ status = "Ok" /\ pc = "idle" => Len(text) = seq_len \/ should_stop \/ text[Len(text)] \in Eos
  /\ \A i \in prompt + 2 .. Len(text) - 1 : text[i] \notin Eos
  /\ pc = "loop" => \A i \in prompt + 2 .. Len(text) : text[i] \notin Eos

IInv == Shape /\ Prefilling /\ Looping /\ Written /\ Stopping /\ Ended

-----------------------------------------------------------------------------
(* What the parts of a step do *)

\* A step with a cache writes its tokens at its position and nothing else.
LEMMA StepWrites ==
  ASSUME DOMAIN cache = 0 .. MaxSeqLen - 1, config.kv, NEW S, NEW tokens \in Seq(S), NEW at \in Nat,
         step(tokens, at).ok, NEW after, after = step(tokens, at).cache
  PROVE  /\ at + Len(tokens) <= MaxSeqLen /\ DOMAIN after = 0 .. MaxSeqLen - 1
         /\ \A i \in 0 .. MaxSeqLen - 1 :
              after[i] = IF at <= i /\ i < at + Len(tokens) THEN tokens[i - at + 1] ELSE cache[i]
<1>1. Len(tokens) \in Nat /\ MaxSeqLen \in Nat
  BY RunnerAssumption
<1>2. at + Len(tokens) <= MaxSeqLen
  BY <1>1 DEF step
<1>3. step(tokens, at).cache =
        [i \in DOMAIN cache |-> IF i \in at .. at + Len(tokens) - 1 THEN tokens[i - at + 1] ELSE cache[i]]
  BY <1>1, <1>2 DEF step
<1> QED BY <1>1, <1>2, <1>3

\* A step without a cache leaves it alone.
LEMMA StepWithoutCache ==
  ASSUME NEW tokens, NEW at, ~config.kv PROVE step(tokens, at).cache = cache
  BY DEF step

\* Sampling appends a token to the text.
LEMMA SampleAppends ==
  ASSUME NEW S, text \in Seq(S), Sample
  PROVE  /\ \E R : text' \in Seq(R)
         /\ Len(text') = Len(text) + 1 /\ \A i \in 1 .. Len(text) : text'[i] = text[i]
<1>1. PICK t : text' = Append(text, t)
  BY Zenon DEF Sample
<1>2. text \in Seq(S \cup {t})
  OBVIOUS
<1>3. text' \in Seq(S \cup {t})
  BY <1>1, <1>2
<1> QED BY <1>1, <1>2, <1>3

-----------------------------------------------------------------------------
(* The invariant is inductive *)

\* The invariant holds before the first call of generate() ...
LEMMA InvariantInit == Init => IInv
<1> SUFFICES ASSUME Init PROVE IInv
  OBVIOUS
<1>1. Shape
  <2>1. text \in Seq({})
    BY DEF Init
  <2> QED BY <2>1, RunnerAssumption DEF Init, Shape
<1> QED BY <1>1 DEF Init, IInv, Prefilling, Looping, Written, Running, Stopping, Ended

\* ... generate() begins with nothing of the text in the cache ...
LEMMA GenerateKeeps ==
  ASSUME IInv, NEW p \in Prompts, NEW len \in SeqLens, Generate(p, len) PROVE IInv'
<1>1. p \in Seq(Vocab) /\ Len(p) \in Nat /\ len \in Int /\ MaxSeqLen \in Nat \ {0}
  BY RunnerAssumption
<1>2. seq_len' \in 1 .. MaxSeqLen
  BY <1>1 DEF Generate, SequenceLength
<1>3. /\ text' = p /\ prompt' = Len(p) /\ start_pos' = 0 /\ UNCHANGED <<config, cache>>
      /\ late' = 0 /\ status' = "running"
      /\ pc' = IF Len(p) >= 1 /\ Len(p) < MaxSeqLen /\ Len(p) < seq_len' THEN "prefill" ELSE "aborted"
  BY DEF Generate
<1>4. Shape'
  BY <1>1, <1>2, <1>3 DEF IInv, Shape
<1>5. Prefilling' /\ Looping' /\ Stopping'
  BY <1>1, <1>2, <1>3 DEF Prefilling, Looping, Stopping
<1>6. Written'
  BY <1>3 DEF Written, Filled
<1>7. Ended'
  BY <1>1, <1>3 DEF Ended
<1> QED BY <1>4, <1>5, <1>6, <1>7 DEF IInv

\* ... the first token is sampled when the whole prompt is in the cache ...
LEMMA FirstTokenKeeps ==
  ASSUME IInv, pc = "prefill", FirstToken, start_pos' = prompt, DOMAIN cache' = 0 .. MaxSeqLen - 1,
         config.kv => Filled(cache', text, prompt),
         UNCHANGED <<config, loaded, prompt, seq_len, late, status, calls>>
  PROVE  IInv'
<1>1. PICK S : text \in Seq(S)
  BY DEF IInv, Shape
<1>2. /\ \E R : text' \in Seq(R)
      /\ Len(text') = Len(text) + 1 /\ \A i \in 1 .. Len(text) : text'[i] = text[i]
  BY <1>1, SampleAppends DEF FirstToken
<1>3. pc' = "loop" /\ Len(text) = prompt /\ prompt \in Nat /\ prompt < seq_len /\ seq_len <= MaxSeqLen
  BY DEF IInv, FirstToken, Prefilling, Shape
<1>4. Shape'
  BY <1>2 DEF IInv, Shape
<1>5. Prefilling' /\ Looping' /\ Stopping'
  BY <1>2, <1>3 DEF IInv, Prefilling, Looping, Stopping
<1>6. Written'
  BY <1>2, <1>3 DEF Written, Filled
<1>7. Ended'
  BY <1>2, <1>3 DEF Ended
<1> QED BY <1>4, <1>5, <1>6, <1>7 DEF IInv

\* ... which is one step of the program ...
LEMMA PrefillAllKeeps == ASSUME IInv, PrefillAll PROVE IInv'
<1>1. PICK S : text \in Seq(S)
  BY DEF IInv, Shape
<1>2. pc = "prefill" /\ start_pos = 0 /\ Len(text) = prompt /\ DOMAIN cache = 0 .. MaxSeqLen - 1
  BY DEF IInv, Shape, Prefilling, PrefillAll
<1>3. step(text, 0).ok /\ cache' = step(text, 0).cache
  BY <1>2 DEF PrefillAll
<1>4. DOMAIN cache' = 0 .. MaxSeqLen - 1 /\ (config.kv => Filled(cache', text, prompt))
  <2>1. CASE config.kv
    <3>1. /\ DOMAIN cache' = 0 .. MaxSeqLen - 1 /\ Len(text) <= MaxSeqLen
          /\ \A i \in 0 .. MaxSeqLen - 1 : cache'[i] = IF i < Len(text) THEN text[i + 1] ELSE cache[i]
      <4>1. /\ 0 + Len(text) <= MaxSeqLen /\ DOMAIN cache' = 0 .. MaxSeqLen - 1
            /\ \A i \in 0 .. MaxSeqLen - 1 :
                 cache'[i] = IF 0 <= i /\ i < 0 + Len(text) THEN text[i - 0 + 1] ELSE cache[i]
        <5>1. DOMAIN cache = 0 .. MaxSeqLen - 1 /\ 0 \in Nat
          BY <1>2
        <5> QED BY <1>1, <1>3, <2>1, <5>1, StepWrites
      <4> QED BY <1>1, <4>1, RunnerAssumption
    <3> QED BY <1>1, <1>2, <3>1, RunnerAssumption DEF Filled
  <2>2. CASE ~config.kv
    BY <1>2, <1>3, <2>2, StepWithoutCache
  <2> QED BY <2>1, <2>2
<1>5. start_pos' = prompt
  BY <1>1, <1>2 DEF PrefillAll
<1> QED BY <1>2, <1>4, <1>5, FirstTokenKeeps DEF PrefillAll

\* ... or a step for each of its tokens ...
LEMMA PrefillOneKeeps == ASSUME IInv, PrefillOne PROVE IInv'
<1>1. PICK S : text \in Seq(S)
  BY DEF IInv, Shape
<1>2. /\ pc = "prefill" /\ start_pos \in Nat /\ prompt \in Nat /\ start_pos < prompt /\ Len(text) = prompt
      /\ DOMAIN cache = 0 .. MaxSeqLen - 1 /\ config.kv /\ ~config.parallel
  BY DEF IInv, Shape, Prefilling, PrefillOne
<1> DEFINE tokens == <<text[start_pos + 1]>>
<1>3. tokens \in Seq(S) /\ Len(tokens) = 1 /\ tokens[1] = text[start_pos + 1]
  BY <1>1, <1>2
<1>4. step(tokens, start_pos).ok /\ cache' = step(tokens, start_pos).cache
  BY DEF PrefillOne
<1>5. start_pos' = start_pos + 1
  BY DEF PrefillOne
<1> HIDE DEF tokens
<1>6. /\ start_pos + 1 <= MaxSeqLen /\ DOMAIN cache' = 0 .. MaxSeqLen - 1
      /\ \A i \in 0 .. MaxSeqLen - 1 : cache'[i] = IF i = start_pos THEN text[start_pos + 1] ELSE cache[i]
  <2>1. /\ start_pos + Len(tokens) <= MaxSeqLen /\ DOMAIN cache' = 0 .. MaxSeqLen - 1
        /\ \A i \in 0 .. MaxSeqLen - 1 :
             cache'[i] = IF start_pos <= i /\ i < start_pos + Len(tokens) THEN tokens[i - start_pos + 1] ELSE cache[i]
    <3>1. DOMAIN cache = 0 .. MaxSeqLen - 1 /\ config.kv /\ start_pos \in Nat /\ tokens \in Seq(S)
      BY <1>2, <1>3
    <3> QED BY <1>4, <3>1, StepWrites
  <2> QED BY <1>2, <1>3, <2>1, RunnerAssumption
<1>7. Filled(cache', text, start_pos')
  <2>1. \A i \in 0 .. start_pos - 1 : cache[i] = text[i + 1]
    BY <1>2 DEF IInv, Written, Running, Filled
  <2> QED BY <1>2, <1>5, <1>6, <2>1, RunnerAssumption DEF Filled
<1>8. CASE start_pos' < prompt
  <2>1. UNCHANGED <<config, text, pc, prompt, seq_len, late, status, should_stop>>
    BY <1>8 DEF PrefillOne
  <2>2. Shape'
    BY <1>5, <1>6, <2>1 DEF IInv, Shape
  <2>3. Prefilling' /\ Looping' /\ Stopping'
    BY <1>2, <1>8, <2>1 DEF IInv, Prefilling, Looping, Stopping
  <2>4. Written' /\ Ended'
    BY <1>7, <2>1 DEF IInv, Written, Ended
  <2> QED BY <2>2, <2>3, <2>4 DEF IInv
<1>9. CASE ~(start_pos' < prompt)
  <2>1. start_pos' = prompt
    BY <1>2, <1>5, <1>9
  <2> QED BY <1>2, <1>6, <1>7, <1>9, <2>1, FirstTokenKeeps DEF PrefillOne
<1> QED BY <1>8, <1>9

\* ... a step of the loop puts the last token into the cache and samples one more ...
LEMMA GenerateTokenKeeps == ASSUME IInv, GenerateToken PROVE IInv'
<1>1. PICK S : text \in Seq(S)
  BY DEF IInv, Shape
<1>2. /\ pc = "loop" /\ start_pos \in Nat /\ seq_len \in Nat /\ prompt \in Nat /\ prompt <= start_pos
      /\ Len(text) = start_pos + 1 /\ start_pos < seq_len - 1 /\ seq_len <= MaxSeqLen
      /\ DOMAIN cache = 0 .. MaxSeqLen - 1
  BY DEF IInv, Shape, Looping, GenerateToken
<1>3. /\ \E R : text' \in Seq(R)
      /\ Len(text') = Len(text) + 1 /\ \A i \in 1 .. Len(text) : text'[i] = text[i]
  BY <1>1, SampleAppends DEF GenerateToken
<1>4. /\ start_pos' = start_pos + 1 /\ UNCHANGED <<config, prompt, seq_len, should_stop>>
      /\ config.kv => pc' = "printed" /\ late' = (IF should_stop THEN late + 1 ELSE late) /\ status' = status
      /\ ~config.kv => pc' = "idle" /\ status' = "error" /\ late' = late
  BY DEF GenerateToken
<1>5. DOMAIN cache' = 0 .. MaxSeqLen - 1 /\ (config.kv => Filled(cache', text, start_pos + 1))
  <2>1. CASE config.kv
    <3> DEFINE tokens == <<text[Len(text)]>>
    <3>1. tokens \in Seq(S) /\ Len(tokens) = 1 /\ tokens[1] = text[start_pos + 1]
      BY <1>1, <1>2
    <3>2. step(tokens, start_pos).ok /\ cache' = step(tokens, start_pos).cache
      BY <2>1 DEF GenerateToken
    <3> HIDE DEF tokens
    <3>3. /\ DOMAIN cache' = 0 .. MaxSeqLen - 1
          /\ \A i \in 0 .. MaxSeqLen - 1 :
               cache'[i] = IF i = start_pos THEN text[start_pos + 1] ELSE cache[i]
      <4>1. /\ DOMAIN cache' = 0 .. MaxSeqLen - 1
            /\ \A i \in 0 .. MaxSeqLen - 1 :
                 cache'[i] = IF start_pos <= i /\ i < start_pos + Len(tokens) THEN tokens[i - start_pos + 1]
                             ELSE cache[i]
        <5>1. DOMAIN cache = 0 .. MaxSeqLen - 1 /\ start_pos \in Nat /\ tokens \in Seq(S)
          BY <1>2, <3>1
        <5> QED BY <2>1, <3>2, <5>1, StepWrites
      <4> QED BY <1>2, <3>1, <4>1, RunnerAssumption
    <3> QED BY <1>2, <2>1, <3>3, RunnerAssumption DEF IInv, Written, Running, Filled
  <2>2. CASE ~config.kv
    BY <1>2, <2>2, StepWithoutCache DEF GenerateToken
  <2> QED BY <2>1, <2>2
<1>6. Shape'
  BY <1>2, <1>3, <1>4, <1>5 DEF IInv, Shape
<1>7. Prefilling' /\ Looping' /\ Stopping'
  BY <1>2, <1>3, <1>4 DEF IInv, Prefilling, Looping, Stopping
<1>8. Written'
  BY <1>2, <1>3, <1>4, <1>5 DEF Written, Running, Filled
<1>9. Ended'
  BY <1>2, <1>3, <1>4 DEF IInv, Ended
<1> QED BY <1>6, <1>7, <1>8, <1>9 DEF IInv

\* ... so every step keeps it ...
LEMMA InvariantNext == IInv /\ [Next]_vars => IInv'
<1> SUFFICES ASSUME IInv, [Next]_vars PROVE IInv'
  OBVIOUS
\* Steps that change neither the text nor the cache, and do not go on with the loop.
<1>1. ASSUME UNCHANGED <<config, cache, text, prompt, start_pos, seq_len, late>>,
             pc' = pc \/ pc' = "idle", pc' = "idle" /\ status' = "Ok" => Ended',
             pc' # "idle" => status' = status, pc' = pc => (should_stop => should_stop')
      PROVE  IInv'
  <2>1. Shape'
    BY <1>1 DEF IInv, Shape
  <2>2. Prefilling' /\ Looping' /\ Stopping'
    BY <1>1 DEF IInv, Prefilling, Looping, Stopping
  <2>3. Written'
    BY <1>1 DEF IInv, Written, Running
  <2>4. Ended'
    BY <1>1 DEF IInv, Ended
  <2> QED BY <2>1, <2>2, <2>3, <2>4 DEF IInv
<1>2. CASE LoadFails
  BY <1>1, <1>2 DEF LoadFails
<1>3. ASSUME NEW p \in Prompts, NEW len \in SeqLens, Generate(p, len) PROVE IInv'
  BY <1>3, GenerateKeeps
<1>4. CASE PrefillAll
  BY <1>4, PrefillAllKeeps
<1>5. CASE PrefillOne
  BY <1>5, PrefillOneKeeps
<1>6. CASE GenerateToken
  BY <1>6, GenerateTokenKeeps
<1>7. CASE AfterCallback
  <2>1. UNCHANGED <<config, cache, text, prompt, start_pos, seq_len, late, should_stop>> /\ pc = "printed"
    BY <1>7 DEF AfterCallback
  <2>2. CASE Ends
    <3>1. pc' = "idle" /\ status' = "Ok"
      BY <1>7, <2>2 DEF AfterCallback
    <3>2. Ended'
      BY <2>1, <2>2, <3>1 DEF IInv, Ended, Ends
    <3> QED BY <1>1, <2>1, <3>1, <3>2
  <2>3. CASE ~Ends
    <3>1. pc' = "loop" /\ status' = status
      BY <1>7, <2>3 DEF AfterCallback
    <3>2. Shape' /\ Prefilling' /\ Looping'
      BY <2>1, <3>1 DEF IInv, Shape, Prefilling, Looping
    <3>3. Written' /\ Stopping'
      BY <2>1, <2>3, <3>1 DEF IInv, Written, Running, Stopping, Ends
    <3>4. Len(text) \in Nat /\ prompt \in Nat
      BY DEF IInv, Shape
    <3>5. Ended'
      BY <2>1, <2>3, <3>1, <3>4 DEF IInv, Ended, Ends
    <3> QED BY <3>2, <3>3, <3>5 DEF IInv
  <2> QED BY <2>2, <2>3
<1>8. CASE LengthReached
  <2>1. UNCHANGED <<config, cache, text, prompt, start_pos, seq_len, late, should_stop>> /\ pc = "loop"
        /\ pc' = "idle" /\ status' = "Ok" /\ start_pos >= seq_len - 1
    BY <1>8 DEF LengthReached
  <2>2. Len(text) = seq_len
    BY <2>1 DEF IInv, Looping, Shape
  <2>3. Ended'
    BY <2>1, <2>2 DEF IInv, Ended
  <2> QED BY <1>1, <2>1, <2>3
<1>9. CASE StepFails
  BY <1>1, <1>9 DEF StepFails
<1>10. CASE Stop
  <2>1. UNCHANGED <<config, cache, text, prompt, start_pos, seq_len, late, pc, status>> /\ should_stop'
    BY <1>10 DEF Stop
  <2>2. Ended'
    BY <2>1 DEF IInv, Ended
  <2> QED BY <1>1, <2>1, <2>2
<1>11. CASE UNCHANGED vars
  <2>1. Ended'
    BY <1>11 DEF IInv, Ended, vars
  <2> QED BY <1>1, <1>11, <2>1 DEF vars
<1> QED
  BY <1>2, <1>3, <1>4, <1>5, <1>6, <1>7, <1>8, <1>9, <1>10, <1>11 DEF Next, RunnerStep

\* ... and it always holds.
LEMMA InvariantAlways == Spec => []IInv
  BY InvariantInit, InvariantNext, PTL DEF Spec

-----------------------------------------------------------------------------
(* Results *)

\* generate() answers from this call's tokens only: every position of the cache up
\* to start_pos holds the prompt's token or the token that was sampled for it,
\* whatever an earlier call left there and wherever it was stopped or failed
\* (TextPrefiller::prefill, TextTokenGenerator::generate).
THEOREM AnswersFromOwnContext == Spec => []OwnContext
<1>1. IInv => OwnContext
  <2> SUFFICES ASSUME IInv, Running, config.kv
               PROVE  start_pos < Len(text) + 1 /\ \A i \in 0..(start_pos - 1) : cache[i] = text[i + 1]
    BY DEF OwnContext
  <2>1. start_pos \in Nat /\ prompt \in Nat
    BY DEF IInv, Shape
  <2>2. start_pos < Len(text) + 1
    BY <2>1 DEF IInv, Prefilling, Looping, Running
  <2> QED BY <2>2 DEF IInv, Written, Filled
<1> QED BY <1>1, InvariantAlways, PTL

\* generate() never runs the program at a position the cache does not have: the
\* check of the prompt and the clamped seq_len suffice (Runner::generate).
THEOREM StepsFitCache == Spec => []FitsCache
<1>1. IInv => FitsCache
  <2> SUFFICES ASSUME IInv, Running, config.kv
               PROVE  /\ pc = "prefill" => start_pos + (IF config.parallel THEN Len(text) ELSE 1) <= MaxSeqLen
                      /\ pc = "loop" /\ start_pos < seq_len - 1 => start_pos + 1 <= MaxSeqLen
    BY DEF FitsCache
  <2>1. start_pos \in Nat /\ prompt \in Nat /\ seq_len \in Nat /\ MaxSeqLen \in Nat
    BY RunnerAssumption DEF IInv, Shape
  <2> QED BY <2>1 DEF IInv, Prefilling, Looping
<1> QED BY <1>1, InvariantAlways, PTL

\* generate() returns Ok only after an end-of-sequence token, a stop or seq_len
\* tokens, prints nothing after such a token but the first, and at most one token
\* after a stop, whenever stop() is called (TextTokenGenerator::generate).
THEOREM GenerationEndsInTime == Spec => []EndsInTime
<1>1. IInv => EndsInTime
  BY DEF IInv, EndsInTime, Stopping, Ended
<1> QED BY <1>1, InvariantAlways, PTL

-----------------------------------------------------------------------------
(* The MediaTek runner *)

\* Setting the cells of the tokens of the last batch gives the mask that would be built.
LEMMA FillIsRebuild ==
  ASSUME NEW b \in Nat \ {0}, NEW c \in Nat, NEW w \in Nat, b <= c, c + b <= w,
         NEW seen \in Nat, NEW size \in Nat, NEW data \in [Cells(size) -> BOOLEAN]
  PROVE  fillSeen(buildMask(data, b, c, w, seen), b, c, w, seen + b, Least(b, seen + b)) = buildMask(data, b, c, w, seen + b)
<1>1. Least(b, seen + b) = b
  BY DEF Least
<1>. DEFINE start == c - Least(c, seen + b)
<1>2. start \in Int /\ c - Least(c, seen) <= start + b /\ start <= c - Least(c, seen) /\ start + b <= c
  BY DEF Least
<1>. HIDE DEF start
<1> SUFFICES ASSUME NEW x \in Cells(size)
             PROVE  fillSeen(buildMask(data, b, c, w, seen), b, c, w, seen + b, b)[x] = buildMask(data, b, c, w, seen + b)[x]
  BY <1>1 DEF fillSeen, buildMask
<1>3. x \div w \in Nat /\ x % w \in Nat
  BY DEF Cells
<1>. DEFINE r == x \div w
            i == x % w
<1>. HIDE DEF r, i
<1>4. r \in Nat /\ i \in Nat
  BY <1>3 DEF r, i
<1>5. buildMask(data, b, c, w, seen)[x] = IF r < b /\ i < c + b THEN c - Least(c, seen) <= i /\ i <= c + r ELSE data[x]
  BY DEF buildMask, r, i
<1>6. buildMask(data, b, c, w, seen + b)[x] = IF r < b /\ i < c + b THEN start <= i /\ i <= c + r ELSE data[x]
  BY DEF buildMask, r, i, start
<1>7. fillSeen(buildMask(data, b, c, w, seen), b, c, w, seen + b, b)[x]
        = IF r < b /\ start <= i /\ i < start + b THEN TRUE ELSE buildMask(data, b, c, w, seen)[x]
  BY DEF fillSeen, buildMask, r, i, start
<1>8. CASE r < b /\ start <= i /\ i < start + b
  <2>1. i < c + b /\ i <= c + r
    BY <1>2, <1>4, <1>8
  <2> QED BY <1>6, <1>7, <1>8, <2>1
<1>9. CASE ~(r < b /\ start <= i /\ i < start + b)
  <2>1. r < b => ((c - Least(c, seen) <= i) <=> (start <= i))
    BY <1>2, <1>4, <1>9 DEF Least
  <2>2. CASE r < b /\ i < c + b
    <3>1. (c - Least(c, seen) <= i /\ i <= c + r) = (start <= i /\ i <= c + r)
      BY <2>1, <2>2, Zenon
    <3>2. buildMask(data, b, c, w, seen)[x] = (c - Least(c, seen) <= i /\ i <= c + r)
      BY <1>5, <2>2, Zenon
    <3>3. buildMask(data, b, c, w, seen + b)[x] = (start <= i /\ i <= c + r)
      BY <1>6, <2>2, Zenon
    <3>4. fillSeen(buildMask(data, b, c, w, seen), b, c, w, seen + b, b)[x] = buildMask(data, b, c, w, seen)[x]
      BY <1>7, <1>9, Zenon
    <3> QED BY <3>1, <3>2, <3>3, <3>4, Zenon
  <2> QED BY <1>5, <1>6, <1>7, <1>9, <2>2, Zenon
<1> QED BY <1>8, <1>9

\* MaskBuilder::updateMask extends the mask of the pass before instead of building it
\* again: after a pass of b tokens without padding, setting the cells of the b tokens
\* that were then in the batch gives the very mask that buildMask would, cell by cell,
\* also when the tokens seen fill the cache or more, for every length of cache and of
\* batch and for rows that the compiler padded.  So it does not matter if the mask was
\* marked dirty in between.
THEOREM MaskUpdateIsRebuild ==
  ASSUME NEW b \in Nat \ {0}, NEW c \in Nat, NEW w \in Nat, b <= c, c + b <= w,
         NEW seen \in Nat, NEW size \in Nat, NEW data \in [Cells(size) -> BOOLEAN], NEW ch
  PROVE  updateMask(ch, buildMask(data, b, c, w, seen), b, c, w, seen + b, b) = buildMask(data, b, c, w, seen + b)
<1>1. CASE ch.updatable
  <2>1. updateMask(ch, buildMask(data, b, c, w, seen), b, c, w, seen + b, b)
          = fillSeen(buildMask(data, b, c, w, seen), b, c, w, seen + b, Least(b, seen + b))
    BY <1>1, Zenon DEF updateMask
  <2>2. fillSeen(buildMask(data, b, c, w, seen), b, c, w, seen + b, Least(b, seen + b)) = buildMask(data, b, c, w, seen + b)
    BY FillIsRebuild
  <2> QED BY <2>1, <2>2, Zenon
<1>2. CASE ~ch.updatable
  <2>. DEFINE old == buildMask(data, b, c, w, seen)
              new == buildMask(data, b, c, w, seen + b)
  <2>1. updateMask(ch, old, b, c, w, seen + b, b) = buildMask(old, b, c, w, seen + b)
    BY <1>2, Zenon DEF updateMask
  <2>2. DOMAIN old = DOMAIN data
    BY Zenon DEF buildMask
  <2>3. ASSUME NEW x \in DOMAIN data
        PROVE  buildMask(old, b, c, w, seen + b)[x] = new[x]
    <3>1. CASE x \div w < b /\ x % w < c + b
      BY <2>2, <3>1, Zenon DEF buildMask
    <3>2. CASE ~(x \div w < b /\ x % w < c + b)
      BY <2>2, <3>2, Zenon DEF buildMask
    <3> QED BY <3>1, <3>2
  <2>4. buildMask(old, b, c, w, seen + b) = new
    BY <2>2, <2>3, Zenon DEF buildMask
  <2> QED BY <2>1, <2>4, Zenon
<1> QED BY <1>1, <1>2, Zenon

\* The remainder is the only one below the divisor.
LEMMA ModUnique ==
  ASSUME NEW c \in Nat \ {0}, NEW q \in Int, NEW i \in 0..(c - 1)
  PROVE  (c * q + i) % c = i
<1>0. \A n \in Int : n = c * (n \div c) + (n % c) /\ n % c \in 0..(c - 1) /\ n \div c \in Int
  OBVIOUS
<1>1. \E p \in Int : c * q + i = c * p + ((c * q + i) % c) /\ (c * q + i) % c \in 0..(c - 1)
  <2>1. c * q + i \in Int
    OBVIOUS
  <2> QED BY <1>0, <2>1
<1>2. PICK p \in Int : c * q + i = c * p + ((c * q + i) % c) /\ (c * q + i) % c \in 0..(c - 1)
  BY <1>1
<1>. DEFINE m == (c * q + i) % c
<1>3. m \in Int /\ c * (q - p) = m - i /\ -c < m - i /\ m - i < c
  BY <1>2
<1>. HIDE DEF m
<1>4. q - p = 0
  <2>1. ~(q - p >= 1)
    <3>1. q - p >= 1 => c * (q - p) >= c
      OBVIOUS
    <3> QED BY <1>3, <3>1
  <2>2. ~(q - p <= -1)
    <3>1. q - p <= -1 => c * (q - p) <= -c
      OBVIOUS
    <3> QED BY <1>3, <3>1
  <2> QED BY <2>1, <2>2
<1>5. m = i
  BY <1>3, <1>4
<1> QED BY <1>5 DEF m

\* Columns add up as long as they stay in the row.
LEMMA ModShift ==
  ASSUME NEW c \in Nat \ {0}, NEW x \in Nat, NEW k \in Int, 0 <= (x % c) + k, (x % c) + k < c
  PROVE  (x + k) % c = (x % c) + k
<1>1. x = c * (x \div c) + (x % c) /\ x \div c \in Int /\ x % c \in Int
  OBVIOUS
<1>2. (c * (x \div c) + ((x % c) + k)) % c = (x % c) + k
  <2>1. (x % c) + k \in 0..(c - 1)
    BY <1>1
  <2> QED BY <1>1, <2>1, ModUnique
<1>3. c * (x \div c) + ((x % c) + k) = x + k
  BY <1>1
<1> QED BY <1>2, <1>3

\* A cell further to the right in the same row is a cell of the array.
LEMMA SameRow ==
  ASSUME NEW c \in Nat \ {0}, NEW rows \in Nat, NEW x \in Nat, x < rows * c, NEW k \in Nat, (x % c) + k < c
  PROVE  x + k < rows * c
<1>. DEFINE q == x \div c
<1>1. x = c * q + (x % c) /\ q \in Nat /\ x % c \in Nat
  OBVIOUS
<1>. HIDE DEF q
<1>2. q < rows
  <2>1. q >= rows => c * q >= c * rows
    BY <1>1
  <2>2. c * rows = rows * c
    OBVIOUS
  <2> QED BY <1>1, <2>1, <2>2
<1>3. c * q + c <= rows * c
  <2>1. q + 1 <= rows
    BY <1>1, <1>2
  <2>2. (q + 1) * c <= rows * c
    BY <1>1, <2>1
  <2> QED BY <1>1, <2>2
<1> QED BY <1>1, <1>3

\* LlamaModelChunk::RollbackCache after a pass that was padded on the right: when the
\* tokens seen and the batch fit the cache, and what was not seen is zero, every cache
\* is the one that a pass of the tokens alone would have left, in every row.
THEOREM RollbackForgetsPadding ==
  ASSUME NEW c \in Nat \ {0}, NEW rows \in Nat, NEW b \in Nat, NEW pad \in 0..(b - 1), NEW seen \in Nat, seen + b <= c,
         NEW data, DOMAIN data = Cells(rows * c), NEW new,
         \A x \in Cells(rows * c) : x % c < c - seen => data[x] = Zero
  PROVE  RollbackCache(Shifted(data, c, b, new), c, pad, seen + b) = Shifted(data, c, b - pad, new)
<1>. DEFINE n == rows * c
            S == Shifted(data, c, b, new)
            first == c - (seen + b)
<1>1. n \in Nat /\ b - pad \in Nat
  BY DEF n
<1>2. DOMAIN S = Cells(n)
  BY DEF Shifted
<1>3. Least(seen + b, c) = seen + b
  BY DEF Least
<1>4. CASE pad = 0
  <2>1. RollbackCache(S, c, pad, seen + b) = S
    BY <1>4 DEF RollbackCache
  <2> QED BY <1>4, <2>1
<1>5. CASE pad > 0
  <2>. DEFINE moved == [x \in Cells(n) |-> IF first + pad <= x % c THEN S[x - pad] ELSE S[x]]
  <2>1. RollbackCache(S, c, pad, seen + b) = zeroCells(moved, c, first, pad)
    BY <1>2, <1>3, <1>5 DEF RollbackCache
  <2>2. ASSUME NEW x \in Cells(n)
        PROVE  zeroCells(moved, c, first, pad)[x] = Shifted(data, c, b - pad, new)[x]
    <3>. DEFINE i == x % c
    <3>1. x \in Nat /\ i \in 0..(c - 1) /\ x < n
      BY <1>1 DEF Cells
    <3>2. \A k \in Nat : i + k < c => x + k \in Cells(n) /\ (x + k) % c = i + k
      <4>. SUFFICES ASSUME NEW k \in Nat, i + k < c
                    PROVE  x + k \in Cells(n) /\ (x + k) % c = i + k
        OBVIOUS
      <4>0. k \in Int /\ 0 <= (x % c) + k /\ (x % c) + k < c
        BY <3>1
      <4>1. (x + k) % c = i + k
        BY <3>1, <4>0, ModShift, Zenon
      <4>2. x + k < n
        BY <3>1, SameRow
      <4> QED BY <4>1, <4>2, <3>1, <1>1 DEF Cells
    <3>3. Shifted(data, c, b - pad, new)[x] = IF i + (b - pad) < c THEN data[x + (b - pad)] ELSE new[i + (b - pad) - c]
      BY DEF Shifted
    <3>4. S[x] = IF i + b < c THEN data[x + b] ELSE new[i + b - c]
      BY DEF Shifted
    <3>5. zeroCells(moved, c, first, pad)[x] = IF first <= i /\ i < first + pad THEN Zero ELSE moved[x]
      BY DEF zeroCells
    <3>. HIDE DEF n, i, S
    <3>6. CASE i < first
      <4>1. moved[x] = S[x]
        BY <3>6, <3>1 DEF i
      <4>2. i + b < c /\ i + b < c - seen /\ i + (b - pad) < c /\ i + (b - pad) < c - seen
        BY <3>6, <3>1
      <4>3. data[x + b] = Zero
        BY <3>2, <4>2 DEF n
      <4>4. data[x + (b - pad)] = Zero
        BY <1>1, <3>2, <4>2 DEF n
      <4> QED BY <3>3, <3>4, <3>5, <3>6, <3>1, <4>1, <4>2, <4>3, <4>4
    <3>7. CASE first <= i /\ i < first + pad
      <4>1. i + (b - pad) < c /\ i + (b - pad) < c - seen
        BY <3>7, <3>1
      <4>2. data[x + (b - pad)] = Zero
        BY <1>1, <3>2, <4>1 DEF n
      <4> QED BY <3>3, <3>5, <3>7, <4>1, <4>2
    <3>8. CASE first + pad <= i
      <4>1. moved[x] = S[x - pad]
        BY <3>8 DEF i
      <4>2. i - pad >= 0 /\ i - pad < c
        BY <3>8, <3>1
      <4>3. (x - pad) % c = i - pad /\ x - pad \in Cells(n)
        <5>0. -pad \in Int /\ 0 <= (x % c) + (-pad) /\ (x % c) + (-pad) < c
          BY <3>1, <4>2 DEF i
        <5>1. (x + (-pad)) % c = i + (-pad)
          BY <3>1, <5>0, ModShift, Zenon DEF i
        <5>2. x >= i
          BY <3>1 DEF i
        <5>3. x + (-pad) = x - pad /\ i + (-pad) = i - pad
          BY <3>1
        <5> QED BY <5>1, <5>2, <5>3, <3>1, <1>1, <4>2 DEF Cells
      <4>4. S[x - pad] = IF (i - pad) + b < c THEN data[(x - pad) + b] ELSE new[(i - pad) + b - c]
        BY <4>3 DEF Shifted, S, n
      <4>5. (x - pad) + b = x + (b - pad) /\ (i - pad) + b = i + (b - pad)
        BY <3>1
      <4> QED BY <3>1, <3>3, <3>5, <3>8, <4>1, <4>4, <4>5
    <3> QED BY <3>1, <3>6, <3>7, <3>8
  <2>3. DOMAIN zeroCells(moved, c, first, pad) = Cells(n) /\ DOMAIN Shifted(data, c, b - pad, new) = Cells(n)
    BY DEF zeroCells, Shifted
  <2>4. zeroCells(moved, c, first, pad) = Shifted(data, c, b - pad, new)
    BY <2>2, <2>3 DEF zeroCells, Shifted
  <2> QED BY <2>1, <2>4
<1> QED BY <1>4, <1>5

\* LlamaModelChunk::LeftPaddingCachePostprocess after a first pass that was padded on
\* the left: from caches that are zero, every cache is the one that a pass of the tokens
\* alone would have left.
THEOREM LeftPaddingForgotten ==
  ASSUME NEW c \in Nat \ {0}, NEW rows \in Nat, NEW b \in Nat, b <= c, NEW pad \in 0..(b - 1),
         NEW data, DOMAIN data = Cells(rows * c), NEW new, \A x \in Cells(rows * c) : data[x] = Zero
  PROVE  LeftPaddingCachePostprocess(Shifted(data, c, b, new), c, b, pad)
           = Shifted(data, c, b - pad, [k \in Cells(b - pad) |-> new[k + pad]])
<1>. DEFINE n == rows * c
            L == LeftPaddingCachePostprocess(Shifted(data, c, b, new), c, b, pad)
            valid == [k \in Cells(b - pad) |-> new[k + pad]]
            R == Shifted(data, c, b - pad, valid)
<1>1. L = [x \in Cells(n) |-> L[x]] /\ R = [x \in Cells(n) |-> R[x]]
  BY DEF LeftPaddingCachePostprocess, zeroCells, Shifted
<1>2. ASSUME NEW x \in Cells(n) PROVE L[x] = R[x]
  <2>. DEFINE i == x % c
  <2>1. n \in Nat /\ x \in Nat /\ x < n /\ i \in 0..(c - 1)
    BY DEF Cells
  <2>2. L[x] = IF c - b <= i /\ i < (c - b) + pad THEN Zero ELSE IF i + b < c THEN data[x + b] ELSE new[i + b - c]
    BY DEF LeftPaddingCachePostprocess, zeroCells, Shifted
  <2>3. R[x] = IF i + (b - pad) < c THEN data[x + (b - pad)] ELSE valid[i + (b - pad) - c]
    BY DEF Shifted
  <2>4. \A k \in Nat : i + k < c => data[x + k] = Zero
    <3>1. \A k \in Nat : i + k < c => x + k \in Cells(n)
      <4>. SUFFICES ASSUME NEW k \in Nat, i + k < c PROVE x + k \in Cells(n)
        OBVIOUS
      <4>1. x + k < n
        BY <2>1, SameRow, Zenon
      <4> QED BY <2>1, <4>1 DEF Cells
    <3> QED BY <3>1
  <2>5. i + (b - pad) >= c => valid[i + (b - pad) - c] = new[i + b - c]
    BY <2>1 DEF Cells
  <2>. HIDE DEF i, n, L, R, valid
  <2>6. CASE i + (b - pad) < c
    <3>1. R[x] = Zero
      BY <2>1, <2>3, <2>4, <2>6
    <3>2. CASE c - b <= i
      BY <2>1, <2>2, <2>6, <3>1, <3>2
    <3>3. CASE i < c - b
      <4>1. data[x + b] = Zero
        BY <2>1, <2>4, <3>3
      <4> QED BY <2>1, <2>2, <3>1, <3>3, <4>1
    <3> QED BY <2>1, <3>2, <3>3
  <2>7. CASE i + (b - pad) >= c
    BY <2>1, <2>2, <2>3, <2>5, <2>7
  <2> QED BY <2>1, <2>6, <2>7
<1> QED BY <1>1, <1>2, Zenon
=============================================================================

---------------------------- MODULE LlamaBuffers ----------------------------
(***************************************************************************)
(* What the MediaTek Llama runner writes to the buffers of a chunk, from   *)
(* examples/mediatek/executor_runner/llama_runner: the attention mask      *)
(* (llm_helper/mask_builder.cpp), the rotary embedding                     *)
(* (llm_helper/rotary_embedding.cpp), the token embedding                  *)
(* (llm_helper/token_embedding.cpp), and the caches after a pass that was  *)
(* padded (LlamaModelChunk.cpp).                                           *)
(*                                                                         *)
(* A buffer is a function from cells 0 .. n - 1.                           *)
(***************************************************************************)
EXTENDS Integers, FiniteSets

CONSTANT Zero     \* a cleared cell

Least(a, b) == IF a < b THEN a ELSE b
HeadDim == 2
Cells(n) == 0..(n - 1)

-----------------------------------------------------------------------------
(* MaskBuilder.  A mask has b rows of w cells, of which the first c stand  *)
(* for the cache and the next b for the tokens of the batch.               *)
buildMask(data, b, c, w, seen) ==
  [x \in DOMAIN data |->
     IF x \div w < b /\ x % w < c + b THEN c - Least(c, seen) <= x % w /\ x % w <= c + (x \div w) ELSE data[x]]

fillSeen(data, b, c, w, seen, count) ==
  LET start == c - Least(c, seen)
  IN [x \in DOMAIN data |-> IF x \div w < b /\ start <= x % w /\ x % w < start + count THEN TRUE ELSE data[x]]

adjustForLeft(data, b, c, w, pad) ==
  [x \in DOMAIN data |->
     IF \/ x \div w < pad /\ x % w < c + b
        \/ pad <= x \div w /\ x \div w < b /\ c <= x % w /\ x % w < c + Least(pad, (x \div w) + 1)
     THEN FALSE ELSE data[x]]
adjustForRight(data, b, c, w, pad) ==
  [x \in DOMAIN data |-> IF b - pad <= x \div w /\ x \div w < b /\ x % w < c + b THEN FALSE ELSE data[x]]

adjustMaskForPadding(ch, data, b, c, w) ==
  CASE ch.left > 0 -> adjustForLeft(data, b, c, w, ch.left)
    [] ch.left = 0 /\ ch.right > 0 -> adjustForRight(data, b, c, w, ch.right)
    [] OTHER -> data

\* Mutant: a mask that is dirty is extended all the same.
updateMaskOnly(ch, data, b, c, w, seen, length) == fillSeen(data, b, c, w, seen, Least(length, seen))

(* The mask as updateMask leaves it, before padding: rebuilt, or extended. *)
updateMask(ch, data, b, c, w, seen, length) ==
  IF ch.updatable THEN fillSeen(data, b, c, w, seen, Least(length, seen)) ELSE buildMask(data, b, c, w, seen)

Updated(ch) == [ch EXCEPT !.updatable = ch.left + ch.right = 0, !.left = 0, !.right = 0]

-----------------------------------------------------------------------------
(* RotaryEmbeddingMasterLut: a row is [cos, cos, sin, sin].                *)
generate(length) ==
  [pos \in Cells(length) |-> [col \in Cells(2 * HeadDim) |->
     <<IF col < HeadDim THEN "cos" ELSE "sin", pos, col % (HeadDim \div 2)>>]]

(* The model takes all cos rows, then all sin rows.                        *)
setEmbed(data, lut, index, b, left, right) ==
  [x \in DOMAIN data |->
     LET half == x \div (b * HeadDim)
         r == (x % (b * HeadDim)) \div HeadDim
     IN CASE half > 1 \/ r < left -> data[x]
          [] half <= 1 /\ left <= r /\ r < b - right -> lut[index + r - left][half * HeadDim + (x % HeadDim)]
          [] OTHER -> Zero]

(* TokenEmbeddingLut: nothing is written to a buffer that is too small.    *)
lookupEmbedding(data, tokens) ==
  IF Cardinality(DOMAIN data) < Cardinality(DOMAIN tokens) THEN data
  ELSE [x \in DOMAIN data |-> IF x < Cardinality(DOMAIN tokens) THEN tokens[x + 1] ELSE data[x]]

-----------------------------------------------------------------------------
(* The caches, rows of c cells.                                            *)
zeroCells(data, c, first, count) ==
  [x \in DOMAIN data |-> IF first <= x % c /\ x % c < first + count THEN Zero ELSE data[x]]

LeftPaddingCachePostprocess(data, c, b, pad) == zeroCells(data, c, c - b, pad)

RollbackCache(data, c, rollback, seen) ==
  LET alive == Least(seen, c)
      first == c - alive
      moved == [x \in DOMAIN data |-> IF first + rollback <= x % c THEN data[x - rollback] ELSE data[x]]
  IN CASE rollback = 0 -> data
       [] rollback > 0 /\ alive <= rollback -> [x \in DOMAIN data |-> Zero]
       [] OTHER -> zeroCells(moved, c, first, rollback)

(* The model (external): the rows of its batch enter the cache from the    *)
(* right.                                                                  *)
Shifted(data, c, b, new) ==
  [x \in DOMAIN data |-> IF (x % c) + b < c THEN data[x + b] ELSE new[(x % c) + b - c]]

=============================================================================

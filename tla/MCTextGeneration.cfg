SPECIFICATION SpecMC
CONSTANTS
  Vocab <- VocabMC
  Eos = {2}
  MaxSeqLen = 4
  Configs <- ConfigsMC
  Prompts <- PromptsMC
  SeqLens = {0, 2, 3, 9}
  Distributions <- DistributionsMC
  One = 20
  Coins = {0, 8, 19}
  Topp = 18
  Calls = 2
  LlamaOptions <- LlamaOptionsMC
  MaxResponse = 3
  MaxTokens = 8
  MaxSwaps = 2
  Junk = Junk
  Zero = Zero
INVARIANTS OwnContext Nucleus 
PROPERTY Returns
CHECK_DEADLOCK FALSE

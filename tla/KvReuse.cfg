SPECIFICATION Spec
CONSTANTS
  Chars <- SmallChars
  Tokens <- SmallTokens
  Spell <- SmallSpell
  Tokenize <- Greedy
  Prompts <- SmallPrompts
  MaxPrompt = 4
  NCtx = 3
  FirstChunk = 1
  Chunk = 2
  SaveMin = 1
INVARIANTS MirrorSound
PROPERTIES ReuseIsInvisible GenerateReturns


SPECIFICATION Spec
CONSTANTS
  Texts <- UsualTexts
  Overhead <- LeanPrompt
  Windows = {1024, 1536}
  MaxItems = 5
INVARIANTS TaskAndCallsIntact BudgetFitsWindow
PROPERTIES FreshestGoesLast LoopsEnd

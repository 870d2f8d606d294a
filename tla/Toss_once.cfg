SPECIFICATION Spec
CONSTANTS
  c1 = c1
  c2 = c2
  k1 = k1
  k2 = k2
  NoCall = NoCall
  NoKey = NoKey
  Calls = {c1, c2}
  Keys = {k1, k2}
  Runtimes = {"next"}
  Required = 1
  MaxTokens = 2
INVARIANTS OneReissue

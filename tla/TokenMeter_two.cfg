\* Two requests at a time, and a caller that preloads a tokenizer or maps a model.
SPECIFICATION FairSpec
CONSTANTS
  h1 = h1
  h2 = h2
  p = p
  Callers = {h1, h2, p}
  Handlers = {h1, h2}
  NoCaller = NoCaller
  Tokenizers = {t}
  Errands = {"preload", "map"}
  Keys = {k}
  Models = {a, b}
  Unknown = Unknown
  Lengths = {1}
  Usages <- MCUsages
  MaxRequests = 2
INVARIANTS TypeOK LoadedOnce EveryTokenOnce TalliesAgree
PROPERTIES RequestsEnd

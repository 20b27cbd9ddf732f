SPECIFICATION Spec
CONSTANTS
  Directions = {"DL", "UL"}
  NumHarqProcess = 4
  HarqTimeout = 3
  MaxRv = 1
  RoundTrip = 2
  FreeSymbols = {1, 2}
  Sizes = {1, 2}
  NTbs = 5
INVARIANT FeedbackSentOnce

\* Two goroutines, two signers of one wallet, a 5-bit word with a 3-bit float.
CONSTANTS
  c1 = c1
  c2 = c2
  s1 = s1
  s2 = s2
  Caller = {c1, c2}
  Signer = {s1, s2}
  Wallet = "0xw"
  Word = 32
  Exact = 8
  DefaultWindow = 2
  MaxClock = 3
  MaxSends = 2
  Plans <- MCPlans
SPECIFICATION Spec
INVARIANT TypeOK
INVARIANT DuplicateOnlyByChoice
INVARIANT ExpiryAhead
INVARIANT CarriesWhatWasSigned
INVARIANT AnswerTellsOutcome
PROPERTY ImplementsNonceSource
CHECK_DEADLOCK FALSE

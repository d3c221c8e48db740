CONSTANTS
  x = x
  v1 = v1
  v2 = v2
  v3 = v3
  h1 = h1
  h2 = h2
  Input = {x}
  Output = {o1}
  Value = {v1, v2, v3}
  Initial <- FirstValue
  Empty <- SecondEmpty
  HashCode = {h1, h2}
  stringToHashCode <- OneCollision
  Delay = 2
  Lateness = 1
  MaxEvaluations = 3
  Undefined = Undefined
  Nothing = Nothing
  Garbled = Garbled
  Absent = Absent
  NoOutput = NoOutput
SPECIFICATION FairSpec
INVARIANTS TypeOK CacheHoldsOwnAnswers DisplayFollowsInputs
PROPERTIES RequestsSpaced EvaluationsEnd

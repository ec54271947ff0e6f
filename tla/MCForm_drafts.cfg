SPECIFICATION Spec
CONSTANTS
  chosen = chosen
  listed = listed
  Fields <- MCFields
  Selectors = {chosen}
  Lists = {listed}
  Nullable = {chosen}
  Others = {other}
  Values = {v}
  FirstChoice = v
  Unwieldy = {big}
  Odd = {odd}
  Null = null
  Draft = draft
  Invalid = invalid
  MaxItems = 2
  MaxEdits = 3
INVARIANT TypeOK
INVARIANT DirtyTold
PROPERTY ConversionKeepsArguments
CHECK_DEADLOCK FALSE

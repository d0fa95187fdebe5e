SPECIFICATION Spec
CONSTANTS
  WordToken <- MCWords
  Digit <- MCDigits
  Unit <- MCUnits
  Chains <- MCChains
  Slips <- MCSlips
INVARIANTS
  ParsedAsWritten
  AcceptedIsTyped
CHECK_DEADLOCK FALSE

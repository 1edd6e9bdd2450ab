SPECIFICATION Spec
CONSTANTS
  Browsers = {b1}
  Choices <- MCChoices
  MaxWaiting = 1
INVARIANTS TypeOK Settled LiveAgrees

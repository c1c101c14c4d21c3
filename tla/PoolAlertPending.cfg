SPECIFICATION Spec
CONSTANTS
  Cooldown = 1
  MaxTime = 1
PROPERTY PendingClearedByDelivery

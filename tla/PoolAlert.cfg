SPECIFICATION FairSpec
CONSTANTS
  Cooldown = 2
  MaxTime = 3
INVARIANT ReceiverAgrees
PROPERTIES KeepsPromise AnnouncedInTheEnd

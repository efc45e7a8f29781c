SPECIFICATION FairSpec
CONSTANTS
  new1 = new1
  new2 = new2
  old = old
  Instances = {new1, new2, old}
  Shipped <- ShippedByBuild
  Environments <- Deployments
  MaxFaults = 2
CHECK_DEADLOCK FALSE
INVARIANTS TypeOK VersionIffApplied AppliedInOrder ServesMigrated OptionsUsable
PROPERTY EventuallyServes

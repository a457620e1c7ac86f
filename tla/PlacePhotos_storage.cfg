SPECIFICATION Spec
CONSTANTS
  Asset = {"a", "b"}
  Actor = {"me", "you"}
  Place = {"p"}
  Upload = {"u1", "u2", "u3"}
  Discard = {"d"}
  Cleanup = {"c"}
  AssetOf <- MCAssetOf
  ActorOf <- MCActorOf
  Lease = 1
  Ttl = 2
  Arriving <- MCArriving
  Limit = 1
  MaxTime = 3
  MaxFaults = 1
  NoActor = NoActor
  NoUpload = NoUpload
  NoPlace = NoPlace
INVARIANTS TypeOK ReadyPhotosStored BoundPhotosKept
PROPERTIES UploadsKeepTheirRow LeftoversReconciled
CHECK_DEADLOCK FALSE

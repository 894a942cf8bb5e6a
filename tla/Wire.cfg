SPECIFICATION Spec
CONSTANTS
  Addrs <- TheAddrs
  AddrText <- TheTexts
  Now <- SomeMillis
  NowSecs <- SomeTime
  ClusterMessages <- TheClusterMessages
  OldStatuses <- TheOldStatuses
  DeviceMessages <- TheDeviceMessages
INVARIANTS
  Delivered
  OldNodesUnderstood

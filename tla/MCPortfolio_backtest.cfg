SPECIFICATION Spec
CONSTANTS
  eurusd = eurusd
  gbpusd = gbpusd
  Symbols = {eurusd, gbpusd}
  Books <- MCBooks
  Configs <- MCConfigs
  Warmup <- MCWarmup
  Shapes <- MCShapes
  Horizon = 8
  TickValue = 1
  Commission = 10
  VolumeMin = 10
  VolumeMax = 100
  VolumeStep = 10
INVARIANTS UnmanagedIsTheoretical BalanceAccounts
PROPERTIES StopOnlyTightens

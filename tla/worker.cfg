CONSTANTS
  Granules = {g1, g2}
  Tasks = 2
  Followed = {g1}
  Configured <- OneEach
  Asked <- TwoDownloads
  Settings <- BothSettings
  Uploads = 1
  Troubles = {"crash", "drain", "reply", "answer", "beat", "lapse", "again", "pause", "remove", "settings"}
  MaxTrouble = 1
SPECIFICATION LiveSpec
INVARIANTS NoLostWakeup HeldIsAccounted WithinLimits
PROPERTIES ReclaimSparesWork LeaseEnds SettingsArrive DrainEnds
CHECK_DEADLOCK FALSE

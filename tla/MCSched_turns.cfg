CONSTANTS
  drv = drv
  fs = fs
  srv = srv
  app = app
  Task = {drv, fs, srv, app}
  FS = fs
  None = None
  Idle = Idle
  Wild = Wild
  Prio <- Shared
  PRI_DRV = 0
  PRI_IDLE = 4
  quantum = 2
  OneShot = FALSE
  Usec = {}
  Sender = {}
  Sleeper = {}
  Exiting = {}
  Notified = {drv, srv, app}
  MaxSleepers = 0
  MaxTicks = 0
  MaxWait = 0
SPECIFICATION FairSpec
PROPERTY SharedFairly

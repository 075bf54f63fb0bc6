CONSTANTS
  drv = drv
  fs = fs
  srv = srv
  app = app
  Task = {drv, fs, srv, app}
  FS = fs
  None = None
  Idle = Idle
  Wild = Wild
  Prio <- Shared
  PRI_DRV = 0
  PRI_IDLE = 4
  quantum = 2
  OneShot = TRUE
  Usec = {1, 3}
  Sender = {fs, app}
  Sleeper = {srv, app}
  Exiting = {srv, app}
  Notified = {drv, srv}
  MaxSleepers = 1
  MaxTicks = 6
  MaxWait = 13
SPECIFICATION Spec
INVARIANTS TasksInLists CursorsValid BoundedWait

SPECIFICATION Spec
CONSTANTS
  Profiles = {p1, p2}
  States = {"operational", "in-maintenance"}
  Notified = {"operational", "in-maintenance"}
  Schedules = {"periodic", "scheduled", "oneshot"}
  Interval = 2
  Delay = 2
  Instant = 1
  Weekdays = {0, 1}
  Day = 2
  Week = 3
  Month = 2
  MaxPause = 2
  MaxTime = 5
  Faults = {"retry", "error", "patch"}
INVARIANTS
  TypeOK
  AnnouncedOnce
  Spaced
  OncePerDay
PROPERTIES
  Announced
SYMMETRY Symmetry

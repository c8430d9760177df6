SPECIFICATION Spec
CONSTANTS
  k1 = k1
  k2 = k2
  e1 = e1
  e2 = e2
  Keys = {k1, k2}
  Events = {e1, e2}
  EventsOf <- MCEventsOf
  Runs = {r1}
  Threads = {t1, t2}
  MaxInstant = 2
  MaxPuts = 2
  MaxFaults = 2
  None = None
PROPERTY EveryObjectIsLoaded

CONSTANTS
  m1 = m1
  m2 = m2
  t1 = t1
  t2 = t2
  Machines = {m1, m2}
  Threads = {t1, t2}
  Host <- MCHost
  None = None
  NumBoxes = 1
  MaxMail = 2
  MaxBoots = 2
SPECIFICATION Spec
INVARIANTS InOrderOnce BufferedOnce
CHECK_DEADLOCK FALSE
PROPERTY Delivered

SPECIFICATION Spec
CONSTANTS
  t1 = t1  t2 = t2  t3 = t3
  Txs = {t1, t2, t3}
  Capacity = 2
  Wait = 1
  MaxTtl = 2
  Extension = 1
  MaxTime = 3
  Loads <- Instances
CHECK_DEADLOCK FALSE
PROPERTIES Contract ProducerSafe

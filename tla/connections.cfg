SPECIFICATION Spec
CONSTANTS
  Pcbs = {p1, p2, p3}
  Null = Null
  Prios = {1}
  MaxIdle = 1
INVARIANTS TypeOK CursorFindsTheEnd PoolIsPartitioned VictimIsUndominated HalfOpenOnlyIfRefused
PROPERTIES SentToAllOnce WalksEnd

\* A human and a bot: the memory of shots is of the human alone, the teams of
\* both.  Time 3: an old shot, a newer one, and the end of the map.
SPECIFICATION RecoilSpec
CONSTANTS
  Clients = {1, 2}
  Humans = {1}
  MaxTime = 3
INVARIANTS
  TypeOK
  TeamCounted
  DeadAtMost
  RecoilReady
  ScaledForShot

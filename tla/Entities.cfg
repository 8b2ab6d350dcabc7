\* Three entities, since a list that is shortened while it is walked over
\* shows it at the third; at most two weapons, held by two players.
SPECIFICATION Spec
CONSTANTS
  Entities = {e1, e2, e3}
  Players = {p1, p2}
  Classes = {weapon_awp, func_buyzone}
  Weapons = {weapon_awp}
  ShortWeapons = {}
  Buyzone = func_buyzone
  PlayerStart = info_player_start
  NoClass = NoClass
  NoOwner = NoOwner
  Sizes = {3}
  MaxList = 2
  MaxMisfiled = 1
  MaxItems = 2
  MaxKilled = 1
SYMMETRY Symmetry
INVARIANTS
  ClassIndex
  OwnerIndex
  QueryExact
  WalkedExists

------------------------------ MODULE Entities ------------------------------
(***************************************************************************)
(* The index of entities of refsapi.cpp (g_Tries).                         *)
(*                                                                         *)
(* The module notes every entity under its class name when the engine      *)
(* allocates its private data, weapons once more in wp_entities, and the   *)
(* items of each player from two hooks of the game.  Plugins ask for the   *)
(* entities of a class and move the items of one player to another.  Class *)
(* names change behind the module's back: it finds out when somebody asks. *)
(*                                                                         *)
(* state, class, owner and inventory belong to the engine and to the game. *)
(* A string is a model value, NoClass the empty one.  The vectors are      *)
(* sequences; a loop that erases from the vector it walks over is modelled *)
(* with the memory it really reads.                                        *)
(***************************************************************************)
EXTENDS Integers, Sequences, SequencesExt, FiniteSets, Functions

CONSTANTS
  Entities,        \* indices of edicts, those of the players left out
  Players,
  Classes,         \* class names
  Weapons,         \* those that begin with weapon_ and go on
  ShortWeapons,    \* those with one more character only
  Buyzone,         \* func_buyzone
  PlayerStart,     \* info_player_start and info_player_deathmatch
  NoClass,         \* the empty class name
  NoOwner,         \* no player
  Sizes,           \* sizes of the arrays that plugins give
  MaxList,         \* bound: length of wp_entities, which keeps entities
                   \* that ceased to be weapons and may grow
  MaxMisfiled,     \* bound: entities of a map that change into a weapon
                   \* or from one
  MaxItems,        \* bound: items that players hold
  MaxKilled        \* bound: entities that wait for the end of the frame

ASSUME EntitiesAssumption ==
  /\ IsFiniteSet(Entities)
  /\ ShortWeapons \subseteq Weapons /\ Weapons \subseteq Classes
  /\ Buyzone \in Classes \ Weapons
  /\ NoClass \notin Classes \cup {PlayerStart} /\ NoOwner \notin Players
  /\ Sizes \subseteq Nat \ {0}
  /\ MaxList \in Nat /\ MaxMisfiled \in Nat /\ MaxItems \in Nat
  /\ MaxKilled \in Nat

VARIABLES
  entities,               \* class name -> entities
  wp_entities,
  classnames,             \* entity -> class name
  player_entities,
  r_bMapHasBuyZone,
  phase,                  \* of the map
  state, class, owner,    \* engine: edicts
  inventory,              \* game: items of each player
  asked,                  \* history: lists that plugins asked for
  misfiled                \* history: entities that became a weapon, or
                          \* ceased to be one, while they existed

tries  == <<entities, wp_entities, classnames, player_entities>>
engine == <<state, class, owner, inventory>>
vars   == <<tries, r_bMapHasBuyZone, phase, engine, asked, misfiled>>

Init ==
  /\ entities = <<>> /\ wp_entities = <<>> /\ classnames = <<>>
  /\ player_entities = [p \in Players |-> <<>>]
  /\ r_bMapHasBuyZone = FALSE
  /\ phase = "loading"
  /\ state = [e \in Entities |-> "free"]
  /\ class = [e \in Entities |-> NoClass]
  /\ owner = [e \in Entities |-> NoOwner]
  /\ inventory = [p \in Players |-> {}]
  /\ asked = {} /\ misfiled = {}

-----------------------------------------------------------------------------
(* Maps of vectors. *)

vector_remove(v, e) == RemoveFirst(v, e)

(* The elements of v that are in S: what remove_if leaves. *)
Keep(v, S) ==
  LET kept[i \in 0 .. Len(v)] ==
        IF i = 0 THEN <<>>
        ELSE IF v[i] \in S THEN Append(kept[i - 1], v[i]) ELSE kept[i - 1]
  IN kept[Len(v)]

ListOf(trie, key) == IF key \in DOMAIN trie THEN trie[key] ELSE <<>>

Without(f, x) == Restrict(f, DOMAIN f \ {x})
With(f, x, y) == [z \in DOMAIN f \cup {x} |-> IF z = x THEN y ELSE f[z]]

trie_add(trie, key, e) == With(trie, key, Append(ListOf(trie, key), e))

(* Mutant: the list goes with the last entity but one. *)
trie_removeEarly(trie, key, e) ==
  IF key \notin DOMAIN trie THEN trie
  ELSE LET v == vector_remove(trie[key], e) IN
       IF Len(v) <= 1 THEN Without(trie, key) ELSE With(trie, key, v)

trie_remove(trie, key, e) ==
  IF key \notin DOMAIN trie THEN trie
  ELSE LET v == vector_remove(trie[key], e) IN
       IF v = <<>> THEN Without(trie, key) ELSE With(trie, key, v)

(* trie_transfer, for entities; the caller notes the class name. *)
trie_transfer(trie, from, to, e) == trie_add(trie_remove(trie, from, e), to, e)

-----------------------------------------------------------------------------
(* The engine allocates and frees private data, and class names change.    *)

is_valid_entity(e) == state[e] \in {"live", "leaving"}

(* Entities created without a name get theirs later and are not noted. *)
Alloc_EntPrivateData(e, key) ==
  /\ phase \in {"loading", "active"} /\ state[e] = "free"
  /\ key \in Weapons => Len(wp_entities) < MaxList
  /\ state' = [state EXCEPT ![e] = "live"]
  /\ class' = [class EXCEPT ![e] = key]
  /\ owner' = [owner EXCEPT ![e] = NoOwner]
  /\ IF key = NoClass THEN UNCHANGED <<entities, classnames>>
     ELSE /\ entities' = trie_add(entities, key, e)
          /\ classnames' = With(classnames, e, key)
  /\ wp_entities' = IF key \in Weapons THEN Append(wp_entities, e)
                    ELSE wp_entities
  /\ UNCHANGED <<player_entities, r_bMapHasBuyZone, phase, inventory, asked,
                 misfiled>>

(* Mutant: an entity is looked for under its present name only. *)
FreeUnderPresentName(e) ==
  /\ entities' = trie_remove(entities, class[e], e)
  /\ wp_entities' = IF class[e] \in Weapons THEN vector_remove(wp_entities, e)
                    ELSE wp_entities
  /\ player_entities' = IF owner[e] \in Players
       THEN [player_entities EXCEPT ![owner[e]] = vector_remove(@, e)]
       ELSE player_entities
  /\ classnames' = Without(classnames, e)

Free_EntPrivateData(e) ==
  LET key_old == IF e \in DOMAIN classnames THEN classnames[e] ELSE NoClass
      key     == IF class[e] = NoClass THEN key_old ELSE class[e]
      trie    == IF key_old # key
                 THEN trie_transfer(entities, key_old, key, e) ELSE entities
  IN
  /\ entities' = trie_remove(trie, key, e)
  /\ wp_entities' = IF key \in Weapons THEN vector_remove(wp_entities, e)
                    ELSE wp_entities
  /\ player_entities' = IF owner[e] \in Players
       THEN [player_entities EXCEPT ![owner[e]] = vector_remove(@, e)]
       ELSE player_entities
  /\ classnames' = Without(classnames, e)

OnFreeEntPrivateData(e) ==
  /\ state[e] # "free"
  /\ Free_EntPrivateData(e)
  /\ state' = [state EXCEPT ![e] = "free"]
  /\ class' = [class EXCEPT ![e] = NoClass]
  /\ owner' = [owner EXCEPT ![e] = NoOwner]
  /\ inventory' = [p \in Players |-> inventory[p] \ {e}]
  /\ asked' = asked \cap DOMAIN entities'
  /\ UNCHANGED <<r_bMapHasBuyZone, phase, misfiled>>

(* The game or a plugin writes pev->classname. *)
Rename(e, key) ==
  /\ phase \in {"loading", "active"} /\ state[e] # "free"
  /\ class[e] # key
  /\ class' = [class EXCEPT ![e] = key]
  /\ misfiled' = IF (key \in Weapons) # (class[e] \in Weapons)
                 THEN misfiled \cup {e} ELSE misfiled
  /\ Cardinality(misfiled') <= MaxMisfiled
  /\ UNCHANGED <<tries, r_bMapHasBuyZone, phase, state, owner, inventory,
                 asked>>

(* UTIL_Remove sets FL_KILLME: the entity is freed after the frame. *)
UTIL_Remove(e) ==
  /\ phase \in {"loading", "active"} /\ state[e] \in {"live", "leaving"}
  /\ Cardinality({k \in Entities : state[k] = "killme"}) < MaxKilled
  /\ state' = [state EXCEPT ![e] = "killme"]
  /\ UNCHANGED <<tries, r_bMapHasBuyZone, phase, class, owner, inventory,
                 asked, misfiled>>

-----------------------------------------------------------------------------
(* Items.  What they do is computed on a record of the variables that they *)
(* may change, because rf_transfer_items does many at once.                *)

Now == [list |-> player_entities, inv |-> inventory, owner |-> owner,
        state |-> state]

Becomes(s) ==
  /\ player_entities' = s.list /\ inventory' = s.inv
  /\ owner' = s.owner /\ state' = s.state

(* Mutant: the owner of the item is left to the game. *)
AddedOnly(s, p, e) ==
  [s EXCEPT !.list[p] = Append(@, e), !.inv[p] = @ \cup {e}]

(* CBasePlayer_AddPlayerItem_RG, when the game took the item: FIX OWNER. *)
Added(s, p, e) ==
  [list  |-> [s.list EXCEPT ![p] = Append(@, e)],
   inv   |-> [s.inv EXCEPT ![p] = @ \cup {e}],
   owner |-> [s.owner EXCEPT ![e] = p],
   state |-> s.state]

(* CBasePlayer_RemovePlayerItem_RG, when the game gave it away. *)
Removed(s, p, e) ==
  [list  |-> IF s.owner[e] \in Players
             THEN [s.list EXCEPT ![s.owner[e]] = vector_remove(@, e)]
             ELSE s.list,
   inv   |-> [s.inv EXCEPT ![p] = @ \ {e}],
   owner |-> s.owner,
   state |-> s.state]

(* CBasePlayerItem::Kill and Drop: SUB_Remove in a moment. *)
Killed(s, e) ==
  [s EXCEPT !.state[e] = IF @ = "live" THEN "leaving" ELSE @]

(* CBasePlayer::RemoveAllItems drops the items without RemovePlayerItem. *)
AllRemoved(s, p) ==
  [list  |-> s.list,
   inv   |-> [s.inv EXCEPT ![p] = {}],
   owner |-> s.owner,
   state |-> [e \in Entities |-> IF e \in s.inv[p] THEN Killed(s, e).state[e]
                                                  ELSE s.state[e]]]

(* Items are created as weapons, whatever they are called later, and the   *)
(* game keeps an item at one player.                                       *)
CanAdd(e) ==
  /\ state[e] = "live" /\ e \in DOMAIN classnames
  /\ classnames[e] \in Weapons \/ e \in misfiled
  /\ \A p \in Players : e \notin inventory[p]

rest == <<entities, wp_entities, classnames, r_bMapHasBuyZone, phase, class,
          asked, misfiled>>

AddPlayerItem(p, e) ==
  /\ phase = "active" /\ CanAdd(e)
  /\ Cardinality(UNION Range(inventory)) < MaxItems
  /\ Becomes(Added(Now, p, e))
  /\ UNCHANGED rest

RemovePlayerItem(p, e) ==
  /\ phase = "active" /\ e \in inventory[p]
  /\ Becomes(Removed(Now, p, e))
  /\ UNCHANGED rest

(* CWeaponBox::PackWeapon, after RemovePlayerItem. *)
PackWeapon(e) ==
  /\ phase = "active" /\ CanAdd(e) /\ owner[e] \in Players
  /\ owner' = [owner EXCEPT ![e] = NoOwner]
  /\ UNCHANGED <<rest, player_entities, inventory, state>>

RemoveAllItems(p) ==
  /\ phase = "active" /\ inventory[p] # {}
  /\ Becomes(AllRemoved(Now, p))
  /\ UNCHANGED rest

(* A loop over a vector that its body may shorten: erase() moves the rest  *)
(* to the left and leaves what stood behind it, and the loop goes on to    *)
(* where the vector ended when it began.                                   *)
Memory(old, v) == v \o SubSeq(old, Len(v) + 1, Len(old))

(* "REPLACE" of some items: each one that is not to be skipped. *)
ReplaceItem(s, i, p, skip) ==
  LET e == s.mem[i] IN
  IF s.now.state[e] = "free" \/ s.now.owner[e] # p \/ e \in skip
     \/ e \notin s.now.inv[p]
  THEN s
  ELSE LET now == Killed(Removed(s.now, p, e), e)
       IN [now |-> now, mem |-> Memory(s.mem, now.list[p])]

ReplaceItems(p, skip) ==
  LET v == player_entities[p]
      round[i \in 0 .. Len(v)] ==
        IF i = 0 THEN [now |-> Now, mem |-> v]
        ELSE ReplaceItem(round[i - 1], i, p, skip)
  IN round[Len(v)].now

(* One item of the list, which is a copy.  It stays when it is to be       *)
(* skipped or just thrown; kept by nobody when the receiver refuses it.    *)
TransferItem(s, from, to, e, skip, kill, refuse) ==
  IF s.state[e] = "free" \/ s.owner[e] # from \/ e \in skip
     \/ e \notin s.inv[from]
  THEN s
  ELSE LET removed == Removed(s, from, e) IN
       IF e \in kill THEN Killed(removed, e)
       ELSE IF e \in refuse THEN removed ELSE Added(removed, to, e)

TransferItems(start, from, to, skip, kill, refuse) ==
  LET v == start.list[from]
      round[i \in 0 .. Len(v)] ==
        IF i = 0 THEN start
        ELSE TransferItem(round[i - 1], from, to, v[i], skip, kill, refuse)
  IN round[Len(v)]

(* rf_transfer_items.  kill: what CanHavePlayerItem forbids, unless force  *)
(* is given; refuse: what AddPlayerItem does not take.                     *)
rf_transfer_items(from, to, skip, replace, kill, refuse) ==
  /\ phase = "active"
  /\ LET start == IF ~replace THEN Now
                  ELSE IF skip # {} THEN ReplaceItems(to, skip)
                  ELSE AllRemoved(Now, to)
     IN Becomes(TransferItems(start, from, to, skip, kill, refuse))
  /\ UNCHANGED rest

-----------------------------------------------------------------------------
(* rf_get_ent_by_class *)

(* The list that copy_entities walks over: the owner's, the weapons, or    *)
(* that of the class, which is created when there is none.                 *)
AsksWeapons(key) == key \in Weapons \ ShortWeapons

List(p, key) ==
  IF p \in Players THEN player_entities[p]
  ELSE IF AsksWeapons(key) THEN wp_entities ELSE ListOf(entities, key)

OfClass(p, key) == p \notin Players /\ ~AsksWeapons(key)

(* Mutant: FL_KILLME is not looked at. *)
PurgedUnnoted(v) == Keep(v, DOMAIN classnames)

Purged(v) == Keep(v, {e \in DOMAIN classnames : is_valid_entity(e)})

(* One round of the loop: a class name that changed moves the entity out   *)
(* of its list, which may be the one in the loop.  With its last entity    *)
(* the vector itself is destroyed (l.524): no round after this may read    *)
(* it, which WalkedExists states.                                          *)
CopyEntity(s, i, key, size, own) ==
  LET e     == s.mem[i]
      moved == s.names[e] # class[e]
      trie  == IF moved THEN trie_transfer(s.trie, s.names[e], class[e], e)
               ELSE s.trie
  IN IF Len(s.result) = size THEN s
     ELSE [trie   |-> trie,
           names  |-> [s.names EXCEPT ![e] = class[e]],
           mem    |-> IF own /\ moved THEN Memory(s.mem, ListOf(trie, key))
                      ELSE s.mem,
           result |-> IF class[e] = key THEN Append(s.result, e)
                      ELSE s.result]

(* The state after each round. *)
Walk(p, key, size) ==
  LET v   == Purged(List(p, key))
      own == OfClass(p, key)
      round[i \in 0 .. Len(v)] ==
        IF i = 0
        THEN [trie |-> IF own THEN With(entities, key, v) ELSE entities,
              names |-> classnames, mem |-> v, result |-> <<>>]
        ELSE CopyEntity(round[i - 1], i, key, size, own)
  IN round

copy_entities(p, key, size) == Walk(p, key, size)[Len(Purged(List(p, key)))]

rf_get_ent_by_class(p, key, size) ==
  /\ phase \in {"loading", "active"}
  /\ LET s == copy_entities(p, key, size) IN
     /\ entities' = s.trie /\ classnames' = s.names
     /\ player_entities' = IF p \in Players
                           THEN [player_entities EXCEPT ![p] = Purged(@)]
                           ELSE player_entities
     /\ wp_entities' = IF p \notin Players /\ AsksWeapons(key)
                       THEN Purged(wp_entities) ELSE wp_entities
  /\ asked' = (IF OfClass(p, key) THEN asked \cup {key} ELSE asked)
               \cap DOMAIN entities'
  /\ UNCHANGED <<r_bMapHasBuyZone, phase, engine, misfiled>>

(* get_user_buyzone looks into the list of the zones, or of the places     *)
(* where a team spawns, and thereby creates it.                            *)
get_user_buyzone ==
  /\ phase = "active"
  /\ LET key == IF r_bMapHasBuyZone THEN Buyzone ELSE PlayerStart IN
     /\ entities' = With(entities, key, ListOf(entities, key))
     /\ asked' = asked \cup {key}
  /\ UNCHANGED <<wp_entities, classnames, player_entities, r_bMapHasBuyZone,
                 phase, engine, misfiled>>

-----------------------------------------------------------------------------
(* Maps. *)

ServerActivate_Post ==
  /\ phase = "loading"
  /\ phase' = "active"
  /\ r_bMapHasBuyZone' = (Buyzone \in DOMAIN entities)
  /\ UNCHANGED <<tries, engine, asked, misfiled>>

ServerDeactivate_Post ==
  /\ phase = "active"
  /\ phase' = "ended"
  /\ entities' = <<>> /\ wp_entities' = <<>> /\ classnames' = <<>>
  /\ player_entities' = [p \in Players |-> <<>>]
  /\ r_bMapHasBuyZone' = FALSE
  /\ asked' = {} /\ misfiled' = {}
  /\ UNCHANGED engine

(* The engine has freed the entities and loads the next map. *)
NextMap ==
  /\ phase = "ended" /\ \A e \in Entities : state[e] = "free"
  /\ phase' = "loading"
  /\ UNCHANGED <<tries, r_bMapHasBuyZone, engine, asked, misfiled>>

-----------------------------------------------------------------------------
EntityNext(e) ==
  \/ \E key \in Classes \cup {NoClass} : Alloc_EntPrivateData(e, key)
  \/ OnFreeEntPrivateData(e)
  \/ \E key \in Classes : Rename(e, key)
  \/ UTIL_Remove(e)
  \/ PackWeapon(e)

PlayerNext(p) ==
  \/ RemoveAllItems(p)
  \/ \E e \in Entities : AddPlayerItem(p, e) \/ RemovePlayerItem(p, e)
  \/ \E to \in Players, replace \in BOOLEAN, kill \in {{}, inventory[p]} :
       \E skip \in SUBSET (inventory[p] \cup inventory[to]),
          refuse \in {{}, inventory[p] \ kill} :
         rf_transfer_items(p, to, skip, replace, kill, refuse)

Next ==
  \/ \E e \in Entities : EntityNext(e)
  \/ \E p \in Players : PlayerNext(p)
  \/ \E p \in Players \cup {NoOwner}, key \in Classes, size \in Sizes :
       rf_get_ent_by_class(p, key, size)
  \/ get_user_buyzone \/ ServerActivate_Post \/ ServerDeactivate_Post \/ NextMap

Spec == Init /\ [][Next]_vars

-----------------------------------------------------------------------------
(* entities and classnames, kept apart over trie_add, trie_remove and      *)
(* trie_transfer (l.503-533), name each other: whatever is renamed, freed  *)
(* and asked for in between, an entity is in the list of the class name    *)
(* noted for it, once, and in no other list; the list of a class is gone   *)
(* with its last entity unless a plugin asked for it.                      *)
ClassIndex ==
  /\ \A key \in DOMAIN entities :
       /\ entities[key] = <<>> => key \in asked
       /\ \A i, j \in DOMAIN entities[key] :
            LET e == entities[key][i] IN
            /\ e \in DOMAIN classnames /\ classnames[e] = key
            /\ e = entities[key][j] => i = j
  /\ \A e \in DOMAIN classnames : is_valid_entity(e) =>
       Contains(ListOf(entities, classnames[e]), e)

(* rf_get_user_weapons (natives_refsapi.cpp l.34) copies the list as it    *)
(* is: the list of a player holds every item of the player, once, and only *)
(* entities that exist and that the player owns.                           *)
OwnerIndex ==
  \A p \in Players :
    /\ \A i, j \in DOMAIN player_entities[p] :
         LET e == player_entities[p][i] IN
         /\ state[e] # "free" /\ owner[e] = p
         /\ e = player_entities[p][j] => i = j
    /\ \A e \in inventory[p] : phase = "active" /\ is_valid_entity(e) =>
         Contains(player_entities[p], e)

(* Every noted class name is the present one. *)
Settled ==
  \A e \in DOMAIN classnames : is_valid_entity(e) => classnames[e] = class[e]

Answer(p, key) ==
  Keep(copy_entities(p, key, Len(List(p, key)) + 1).result,
       Entities \ misfiled)

(* rf_get_ent_by_class (natives_refsapi.cpp l.63) answers with every valid *)
(* noted entity of the class and the owner, once.  Entities that became or *)
(* ceased to be weapons are left out, and of a class without a list for    *)
(* weapons it is so once no class name is waiting to be noticed.           *)
QueryExact ==
  phase # "ended" =>
    \A p \in Players \cup {NoOwner}, key \in Classes :
      (OfClass(p, key) => Settled) =>
        LET answer == Answer(p, key) IN
        /\ IsInjective(answer)
        /\ ToSet(answer) =
             {e \in DOMAIN classnames \ misfiled :
                /\ is_valid_entity(e) /\ class[e] = key
                /\ p \in Players => Contains(player_entities[p], e)}

(* copy_entities (l.558) walks over a vector that trie_remove destroys     *)
(* when it takes the last entity out (l.523): whatever was renamed, the    *)
(* list of the class is there before every round, so that no round reads   *)
(* an element of a vector that is gone.                                    *)
WalkedExists ==
  phase # "ended" =>
    \A key \in Classes, size \in Sizes : OfClass(NoOwner, key) =>
      \A i \in 0 .. Len(Purged(List(NoOwner, key))) - 1 :
        key \in DOMAIN Walk(NoOwner, key, size)[i].trie

=============================================================================

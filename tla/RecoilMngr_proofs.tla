------------------------- MODULE RecoilMngr_proofs -------------------------
(***************************************************************************)
(* The recoil manager over the events of the clients, for every set of     *)
(* clients and humans and every length of a map.                           *)
(***************************************************************************)
EXTENDS RecoilMngr, Clients_proofs

RecoilTypes ==
  /\ is_enabled \in BOOLEAN /\ weapon_recoil \in {"null", "live", "freed"}
  /\ hooks \in Int
  /\ last_fired \in [Humans -> Int] /\ m_flLastFired \in [Humans -> Int]
  /\ time \in Int

(* The inductive invariant: ScaledForShot needs no more than the types,    *)
(* because every event that lets a client live again forgets the shot on   *)
(* both sides.                                                             *)
RInv == RecoilTypes /\ RecoilReady /\ ScaledForShot

-----------------------------------------------------------------------------
(* A step of the composition is a step of the clients, or leaves them      *)
(* alone.                                                                  *)
LEMMA ClientStep ==
  ASSUME [RecoilNext]_recoilVars
  PROVE  [Next]_vars
<1>1. CASE enable \/ disable \/ Tick
  BY <1>1 DEF enable, disable, Tick
<1>2. CASE RecoilDeactivate
  BY <1>2 DEF RecoilDeactivate, Next
<1>3. CASE CSGameRules_CheckMapConditions /\ UNCHANGED recoil
  BY <1>3 DEF Next
<1>4. ASSUME NEW i \in Humans, SetLastFired(i) \/ think_post(i)
      PROVE  UNCHANGED vars
  BY <1>4 DEF SetLastFired, think_post
<1>5. ASSUME NEW i \in Clients, RecoilEvent(i)
      PROVE  Next
  BY <1>5 DEF RecoilEvent, Next, ClientEvent
<1>6. CASE UNCHANGED recoilVars
  BY <1>6 DEF recoilVars
<1>7. QED
  BY <1>1, <1>2, <1>3, <1>4, <1>5, <1>6 DEF RecoilNext

(* Every behaviour of the recoil manager and the clients together is one   *)
(* of the clients alone (refsapi.cpp l.317-411 with the calls into the     *)
(* recoil manager left out).                                               *)
THEOREM Composed == RecoilSpec => Spec
<1>1. RecoilInit => Init
  BY DEF RecoilInit
<1>2. [RecoilNext]_recoilVars => [Next]_vars
  BY ClientStep
<1>3. QED
  BY <1>1, <1>2, PTL DEF RecoilSpec, Spec

-----------------------------------------------------------------------------
(* The types hold after every step. *)
LEMMA RecoilTypesStep ==
  ASSUME RecoilTypes, RecoilNext
  PROVE  RecoilTypes'
<1> USE RecoilAssumption DEF RecoilTypes, NoShots, RECOIL_LAST_FIRED_NONE
<1>1. CASE enable
  <2>1. is_enabled' \in BOOLEAN
    BY <1>1, Zenon DEF enable
  <2>2. QED
    BY <1>1, <2>1 DEF enable, Disabled
<1>2. CASE disable
  <2>1. is_enabled' \in BOOLEAN
    BY <1>2, Zenon DEF disable
  <2>2. QED
    BY <1>2, <2>1 DEF disable, Disabled
<1>3. CASE Tick
  BY <1>3 DEF Tick
<1>4. CASE RecoilDeactivate
  <2>1. is_enabled' \in BOOLEAN
    BY <1>4, Zenon DEF RecoilDeactivate
  <2>2. QED
    BY <1>4, <2>1 DEF RecoilDeactivate, Disabled
<1>5. CASE UNCHANGED recoil
  BY <1>5 DEF recoil
<1>6. ASSUME NEW i \in Humans, SetLastFired(i) \/ think_post(i)
      PROVE  RecoilTypes'
  BY <1>6 DEF SetLastFired, think_post
<1>7. ASSUME NEW i \in Clients, on_client_disconnected(i) \/ Spawned(i)
      PROVE  RecoilTypes'
  BY <1>7 DEF on_client_disconnected, Spawned, reset_player, Forgotten
<1>8. QED
  BY <1>1, <1>2, <1>3, <1>4, <1>5, <1>6, <1>7 DEF RecoilNext, RecoilEvent

(* The hooks and the pointers: enable() after disable() registers once and *)
(* renews the pointers, and the end of a map disables before it frees.     *)
LEMMA ReadyStep ==
  ASSUME RecoilTypes, RecoilReady, RecoilNext
  PROVE  RecoilReady'
<1> USE DEF RecoilTypes, RecoilReady
<1>1. CASE enable
  BY <1>1 DEF enable, Disabled
<1>2. CASE disable
  BY <1>2 DEF disable, Disabled
<1>3. CASE RecoilDeactivate
  BY <1>3 DEF RecoilDeactivate, Disabled
<1>4. CASE UNCHANGED <<is_enabled, hooks, weapon_recoil>>
  BY <1>4
<1>5. CASE Tick \/ UNCHANGED recoil
  BY <1>4, <1>5 DEF Tick, recoil
<1>6. ASSUME NEW i \in Humans, SetLastFired(i) \/ think_post(i)
      PROVE  UNCHANGED <<is_enabled, hooks, weapon_recoil>>
  BY <1>6 DEF SetLastFired, think_post
<1>7. ASSUME NEW i \in Clients, on_client_disconnected(i) \/ Spawned(i)
      PROVE  UNCHANGED <<is_enabled, hooks, weapon_recoil>>
  BY <1>7 DEF on_client_disconnected, Spawned
<1>8. QED
  BY <1>1, <1>2, <1>3, <1>4, <1>5, <1>6, <1>7 DEF RecoilNext, RecoilEvent

(* A player whose memory differs from the game's has a shot to be noticed. *)
Noticed(i) ==
  is_enabled /\ Alive(i) /\ m_flLastFired[i] # last_fired[i]
    => i \in due \cup refilled

(* Every event that lets a client live again forgets its shots on both     *)
(* sides, so that a shot of the last life is never taken for a new one.    *)
LEMMA NoticedStep ==
  ASSUME RecoilTypes, slot \in [Clients -> {"out", "in", "dropping"}],
         NEW i \in Humans, Noticed(i), RecoilNext
  PROVE  Noticed(i)'
<1> USE RecoilAssumption DEF RecoilTypes, Noticed, Alive, NoShots
<1>1. CASE enable
  BY <1>1 DEF enable, vars, game
<1>2. CASE disable \/ RecoilDeactivate
  BY <1>2 DEF disable, RecoilDeactivate
<1>3. CASE Tick
  BY <1>3 DEF Tick, vars, game
<1>4. CASE CSGameRules_CheckMapConditions /\ UNCHANGED recoil
  BY <1>4 DEF CSGameRules_CheckMapConditions, recoil, game
<1>5. ASSUME NEW j \in Humans, SetLastFired(j)
      PROVE  Noticed(i)'
  BY <1>5 DEF SetLastFired, vars, game
<1>6. ASSUME NEW j \in Humans, think_post(j)
      PROVE  Noticed(i)'
  BY <1>6 DEF think_post, vars, game
<1>7. ASSUME NEW j \in Clients, RecoilEvent(j)
      PROVE  Noticed(i)'
  <2>1. CASE Client_PutInServer(j) /\ Spawned(j)
    BY <2>1 DEF Client_PutInServer, Spawned, reset_player, Forgotten
  <2>2. CASE CBasePlayer_Spawn(j) /\ Spawned(j)
    BY <2>2 DEF CBasePlayer_Spawn, Spawned, reset_player, Forgotten
  <2>3. CASE (SV_DropClient(j) \/ R_ClientDisconnect(j)) /\ on_client_disconnected(j)
    BY <2>3 DEF SV_DropClient, R_ClientDisconnect, on_client_disconnected, Forgotten
  <2>4. CASE CBasePlayer_Killed(j) /\ UNCHANGED recoil
    BY <2>4 DEF CBasePlayer_Killed, recoil
  <2>5. CASE \E t \in Team : Client_TeamInfo(j, t) /\ UNCHANGED recoil
    BY <2>5 DEF Client_TeamInfo, recoil
  <2>6. QED
    BY <1>7, <2>1, <2>2, <2>3, <2>4, <2>5 DEF RecoilEvent
<1>8. QED
  BY <1>1, <1>2, <1>3, <1>4, <1>5, <1>6, <1>7 DEF RecoilNext

-----------------------------------------------------------------------------
(* The counters of the clients stay consistent below the recoil manager.   *)
THEOREM ClientsBelow == RecoilSpec => [](CInv /\ TypeOK /\ TeamCounted /\ DeadAtMost)
BY Composed, Consistent, TypeCorrect, TeamsCounted, DeadBounded, PTL

(* The invariant of the recoil manager holds in every state, across any    *)
(* number of maps.                                                         *)
THEOREM RecoilConsistent == RecoilSpec => []RInv
<1>1. RecoilInit => RInv
  <2> SUFFICES ASSUME RecoilInit PROVE RInv
    OBVIOUS
  <2>1. is_enabled \in BOOLEAN
    BY Zenon DEF RecoilInit
  <2>2. QED
    BY <2>1 DEF RecoilInit, RInv, RecoilTypes, RecoilReady, ScaledForShot,
       NoShots, RECOIL_LAST_FIRED_NONE
<1>2. CInv /\ RInv /\ [RecoilNext]_recoilVars => RInv'
  <2> SUFFICES ASSUME CInv, RInv, [RecoilNext]_recoilVars PROVE RInv'
    OBVIOUS
  <2>1. CASE RecoilNext
    <3>1. RecoilTypes' /\ RecoilReady'
      BY <2>1, RecoilTypesStep, ReadyStep DEF RInv
    <3>2. \A i \in Humans : Noticed(i)'
      BY <2>1, NoticedStep DEF RInv, CInv, ClientTypes, ScaledForShot, Noticed
    <3>3. QED
      BY <3>1, <3>2 DEF RInv, ScaledForShot, Noticed
  <2>2. CASE UNCHANGED recoilVars
    BY <2>2 DEF recoilVars, vars, game, recoil, RInv, RecoilTypes, RecoilReady,
       ScaledForShot, Alive
  <2>3. QED
    BY <2>1, <2>2
<1>3. QED
  BY <1>1, <1>2, ClientsBelow, PTL DEF RecoilSpec

(* The four hooks are registered once exactly while the manager is         *)
(* enabled, and then the pointers to the factors are live.                 *)
THEOREM Ready == RecoilSpec => []RecoilReady
<1>1. RInv => RecoilReady
  BY DEF RInv
<1>2. QED
  BY <1>1, RecoilConsistent, PTL

(* The view of a living player is scaled only for a shot of this life that *)
(* was not yet noticed, unless the manager was enabled after it.           *)
THEOREM Scaled == RecoilSpec => []ScaledForShot
<1>1. RInv => ScaledForShot
  BY DEF RInv
<1>2. QED
  BY <1>1, RecoilConsistent, PTL
=============================================================================

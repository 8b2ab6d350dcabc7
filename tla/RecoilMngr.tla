----------------------------- MODULE RecoilMngr -----------------------------
(***************************************************************************)
(* The recoil manager of refsapi_recoil_mngr.h, composed with the clients. *)
(*                                                                         *)
(* While it is enabled it weakens or strengthens the kick of a shot in the *)
(* frame after it.  The game does not report shots to it: think_post sees  *)
(* that m_flLastFired of a player is not the one of the last time.  The    *)
(* events that reset that memory are those of Clients, and the factors are *)
(* read through pointers into the cvar manager, which forgets its cvars    *)
(* when a map ends.                                                        *)
(*                                                                         *)
(* m_flLastFired and time belong to the game.  What the factor is, and     *)
(* what the scaling of the spread and of the view computes, is left out;   *)
(* set() and clear() have no callers.                                      *)
(***************************************************************************)
EXTENDS Clients

CONSTANTS
  Humans,          \* clients that are no bots
  MaxTime          \* bound: time of a map

ASSUME RecoilAssumption == Humans \subseteq Clients /\ MaxTime \in Nat

VARIABLES
  is_enabled,
  weapon_recoil,   \* the pointers: "null", "live", or "freed" by clear_all()
  hooks,           \* registrations of its four hooks
  last_fired,
  m_flLastFired, time,   \* game
  due,             \* history: players with a shot that was not noticed yet
  refilled         \* history: players whose shots enable() forgot

recoil     == <<is_enabled, weapon_recoil, hooks, last_fired, m_flLastFired,
                time, due, refilled>>
recoilVars == <<vars, recoil>>

RECOIL_LAST_FIRED_NONE == -15

NoShots == [i \in Humans |-> RECOIL_LAST_FIRED_NONE]

RecoilInit ==
  /\ Init
  /\ is_enabled = FALSE /\ weapon_recoil = "null" /\ hooks = 0
  /\ last_fired = NoShots /\ m_flLastFired = NoShots
  /\ time = 1 /\ due = {} /\ refilled = {}

-----------------------------------------------------------------------------
(* Natives. *)

Disabled == IF is_enabled THEN hooks - 1 ELSE hooks

(* rf_recoil_enable *)
enable ==
  /\ is_enabled' = TRUE
  /\ weapon_recoil' = "live"
  /\ hooks' = Disabled + 1
  /\ last_fired' = NoShots
  /\ refilled' = {i \in Humans : m_flLastFired[i] # RECOIL_LAST_FIRED_NONE}
  /\ UNCHANGED <<vars, m_flLastFired, time, due>>

(* rf_recoil_disable *)
disable ==
  /\ is_enabled' = FALSE /\ hooks' = Disabled
  /\ UNCHANGED <<vars, weapon_recoil, last_fired, m_flLastFired, time, due,
                 refilled>>

-----------------------------------------------------------------------------
(* Shots. *)

Alive(i) == slot[i] = "in" /\ i \notin dead

(* The game: SetAnimation of an attack. *)
SetLastFired(i) ==
  /\ Alive(i)
  /\ m_flLastFired' = [m_flLastFired EXCEPT ![i] = time]
  /\ due' = IF m_flLastFired[i] # time THEN due \cup {i} ELSE due
  /\ UNCHANGED <<vars, is_enabled, weapon_recoil, hooks, last_fired, time,
                 refilled>>

(* RG_CBasePlayer_PostThink finds a shot and scales the view. *)
think_post(i) ==
  /\ is_enabled /\ Alive(i)
  /\ m_flLastFired[i] # last_fired[i]
  /\ last_fired' = [last_fired EXCEPT ![i] = m_flLastFired[i]]
  /\ due' = due \ {i} /\ refilled' = refilled \ {i}
  /\ UNCHANGED <<vars, is_enabled, weapon_recoil, hooks, m_flLastFired, time>>

Tick ==
  /\ time < MaxTime /\ time' = time + 1
  /\ UNCHANGED <<vars, is_enabled, weapon_recoil, hooks, last_fired,
                 m_flLastFired, due, refilled>>

-----------------------------------------------------------------------------
(* Events of the clients, with what they do here. *)

Forgotten(f, i) == [k \in Humans |-> IF k = i THEN RECOIL_LAST_FIRED_NONE
                                     ELSE f[k]]

(* Mutant: the shot of the last life is remembered. *)
reset_player_not(i) == UNCHANGED last_fired

reset_player(i) == last_fired' = Forgotten(last_fired, i)

on_client_disconnected(i) ==
  /\ last_fired' = Forgotten(last_fired, i)
  /\ UNCHANGED <<is_enabled, weapon_recoil, hooks, m_flLastFired, time, due,
                 refilled>>

(* CBasePlayer::Spawn, also of a client that is put in the server. *)
Spawned(i) ==
  /\ reset_player(i)
  /\ m_flLastFired' = Forgotten(m_flLastFired, i)
  /\ due' = due \ {i} /\ refilled' = refilled \ {i}
  /\ UNCHANGED <<is_enabled, weapon_recoil, hooks, time>>

(* Mutant: the manager stays enabled. *)
RecoilDeactivateEnabled ==
  /\ ServerDeactivate
  /\ weapon_recoil' = IF weapon_recoil = "live" THEN "freed"
                      ELSE weapon_recoil
  /\ time' = 1
  /\ UNCHANGED <<is_enabled, hooks, last_fired, m_flLastFired, due, refilled>>

(* ServerDeactivate_Post: disable(), then clear_all() of the cvars. *)
RecoilDeactivate ==
  /\ ServerDeactivate
  /\ is_enabled' = FALSE /\ hooks' = Disabled
  /\ weapon_recoil' = IF weapon_recoil = "live" THEN "freed"
                      ELSE weapon_recoil
  /\ time' = 1
  /\ UNCHANGED <<last_fired, m_flLastFired, due, refilled>>

RecoilEvent(i) ==
  \/ Client_PutInServer(i) /\ Spawned(i)
  \/ CBasePlayer_Spawn(i) /\ Spawned(i)
  \/ SV_DropClient(i) /\ on_client_disconnected(i)
  \/ R_ClientDisconnect(i) /\ on_client_disconnected(i)
  \/ CBasePlayer_Killed(i) /\ UNCHANGED recoil
  \/ \E t \in Team : Client_TeamInfo(i, t) /\ UNCHANGED recoil

RecoilNext ==
  \/ enable \/ disable \/ Tick \/ RecoilDeactivate
  \/ CSGameRules_CheckMapConditions /\ UNCHANGED recoil
  \/ \E i \in Humans : SetLastFired(i) \/ think_post(i)
  \/ \E i \in Clients : RecoilEvent(i)

RecoilSpec == RecoilInit /\ [][RecoilNext]_recoilVars

-----------------------------------------------------------------------------
(* get_weapon_recoil (l.189, l.204) follows pointers that clear_all()      *)
(* invalidates and that only enable() renews, and a hook registered twice  *)
(* would apply the factor twice: however plugins enable and disable over   *)
(* the maps, the hooks are registered once exactly while the manager is    *)
(* enabled, and then no pointer is of the last map.                        *)
RecoilReady ==
  /\ hooks = IF is_enabled THEN 1 ELSE 0
  /\ is_enabled => weapon_recoil = "live"

(* think_post (l.236): the view of a living player is scaled only for a    *)
(* shot of this life that was not yet noticed, unless the manager was      *)
(* enabled after it.                                                       *)
ScaledForShot ==
  \A i \in Humans :
    is_enabled /\ Alive(i) /\ m_flLastFired[i] # last_fired[i]
      => i \in due \cup refilled

=============================================================================

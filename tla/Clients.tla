------------------------------ MODULE Clients ------------------------------
(***************************************************************************)
(* The clients and the team counters of refsapi.cpp.                       *)
(*                                                                         *)
(* refsapi does not ask the game for the teams: it keeps g_Clients and     *)
(* g_PlayersNum by itself, from the events of the engine (connect, drop,   *)
(* disconnect), the hooks of the game (killed, spawn, restart of a round)  *)
(* and the TeamInfo messages that pass by.  rf_get_players_num gives the   *)
(* counters to plugins.                                                    *)
(*                                                                         *)
(* slot, dead and m_iTeam belong to the engine and to the game.  The game  *)
(* sets m_iTeam and sends TeamInfo in one call, and a message is written   *)
(* without interruption.  is_bot is never read and left out.               *)
(***************************************************************************)
EXTENDS Integers, FiniteSets

CONSTANT Clients       \* the indices of player slots

ASSUME ClientsAssumption == IsFiniteSet(Clients)

TEAM_UNASSIGNED == 0
TEAM_TERRORIST  == 1
TEAM_CT         == 2
TEAM_SPECTRATOR == 3
TEAM_DEAD_TT    == 4

Team == TEAM_UNASSIGNED .. TEAM_SPECTRATOR

is_valid_team(t) == t \in TEAM_TERRORIST .. TEAM_CT

VARIABLES
  is_connected, team,    \* g_Clients: the connected ones, and the teams
  g_PlayersNum,          \* clients of each team, and dead ones of two teams
  slot, dead, m_iTeam    \* engine and game

own  == <<is_connected, team, g_PlayersNum>>
game == <<slot, dead, m_iTeam>>
vars == <<own, game>>

Init ==
  /\ is_connected = {} /\ team = [i \in Clients |-> TEAM_UNASSIGNED]
  /\ g_PlayersNum = [k \in 0 .. 5 |-> 0]
  /\ slot = [i \in Clients |-> "out"] /\ dead = {}
  /\ m_iTeam = [i \in Clients |-> TEAM_UNASSIGNED]

(* The counter of the dead of a team. *)
Dead(t) == TEAM_DEAD_TT + t - 1

(* "FIX TEAMS DEAD COUNT": one dead client of team t less. *)
DeadLess(nums, t) ==
  IF is_valid_team(t) /\ nums[Dead(t)] > 0
  THEN [nums EXCEPT ![Dead(t)] = @ - 1] ELSE nums

(* One more; an empty counter stays empty. *)
DeadMore(nums, t) ==
  IF is_valid_team(t) /\ nums[Dead(t)] > 0
  THEN [nums EXCEPT ![Dead(t)] = @ + 1] ELSE nums

-----------------------------------------------------------------------------
(* Connections. *)

(* R_ClientPutInServer_Post for players, CreateFakeClient_RH for bots. *)
Client_PutInServer(i) ==
  /\ slot[i] = "out"
  /\ slot' = [slot EXCEPT ![i] = "in"]
  /\ is_connected' = is_connected \cup {i}
  /\ team' = [team EXCEPT ![i] = TEAM_UNASSIGNED]
  /\ g_PlayersNum' = [g_PlayersNum EXCEPT ![TEAM_UNASSIGNED] = @ + 1]
  /\ \E d \in BOOLEAN : dead' = IF d THEN dead \cup {i} ELSE dead \ {i}
  /\ m_iTeam' = [m_iTeam EXCEPT ![i] = TEAM_UNASSIGNED]

(* Mutant: every notice of a disconnection is counted. *)
DisconnectedAgain(i) ==
  /\ is_connected' = is_connected \ {i}
  /\ g_PlayersNum' =
       LET nums == [g_PlayersNum EXCEPT ![team[i]] = @ - 1] IN
       IF i \in dead THEN DeadLess(nums, team[i]) ELSE nums
  /\ UNCHANGED team

(* Mutant: the dead client that leaves stays counted. *)
DisconnectedStaysDead(i) ==
  /\ is_connected' = is_connected \ {i}
  /\ g_PlayersNum' = IF i \in is_connected
                     THEN [g_PlayersNum EXCEPT ![team[i]] = @ - 1]
                     ELSE g_PlayersNum
  /\ UNCHANGED team

(* Both notices of a disconnection end here; the second finds nothing to do. *)
Client_Disconnected(i) ==
  \/ /\ i \in is_connected
     /\ is_connected' = is_connected \ {i}
     /\ g_PlayersNum' =
          LET nums == [g_PlayersNum EXCEPT ![team[i]] = @ - 1] IN
          IF i \in dead THEN DeadLess(nums, team[i]) ELSE nums
     /\ UNCHANGED team
  \/ i \notin is_connected /\ UNCHANGED own

(* The first notice; the engine then calls ClientDisconnect. *)
SV_DropClient(i) ==
  /\ slot[i] # "dropping"
  /\ Client_Disconnected(i)
  /\ slot' = [slot EXCEPT ![i] = "dropping"]
  /\ UNCHANGED <<dead, m_iTeam>>

(* The second, or the only one, when SV_DropClient is not hooked. *)
R_ClientDisconnect(i) ==
  /\ slot[i] # "out"
  /\ Client_Disconnected(i)
  /\ slot' = [slot EXCEPT ![i] = "out"]
  /\ UNCHANGED <<dead, m_iTeam>>

-----------------------------------------------------------------------------
(* The game. *)

(* A change of the team; UNASSIGNED is ignored for connected clients. *)
Client_TeamInfo(i, new_team) ==
  /\ slot[i] # "out"
  /\ m_iTeam' = [m_iTeam EXCEPT ![i] = new_team]
  /\ \/ /\ i \notin is_connected
        /\ team' = [team EXCEPT ![i] = new_team]
        /\ UNCHANGED g_PlayersNum
     \/ /\ i \in is_connected
        /\ new_team # TEAM_UNASSIGNED /\ team[i] # new_team
        /\ g_PlayersNum' =
             LET nums == IF i \in dead
                         THEN DeadMore(DeadLess(g_PlayersNum, team[i]), new_team)
                         ELSE g_PlayersNum
             IN [nums EXCEPT ![team[i]] = @ - 1, ![new_team] = @ + 1]
        /\ team' = [team EXCEPT ![i] = new_team]
     \/ /\ i \in is_connected
        /\ new_team = TEAM_UNASSIGNED \/ team[i] = new_team
        /\ UNCHANGED <<team, g_PlayersNum>>
  /\ UNCHANGED <<is_connected, slot, dead>>

CBasePlayer_Killed(i) ==
  /\ slot[i] # "out" /\ i \notin dead
  /\ g_PlayersNum' =
       IF i \in is_connected /\ is_valid_team(m_iTeam[i])
       THEN [g_PlayersNum EXCEPT ![Dead(m_iTeam[i])] = @ + 1]
       ELSE g_PlayersNum
  /\ dead' = dead \cup {i}
  /\ UNCHANGED <<is_connected, team, slot, m_iTeam>>

CBasePlayer_Spawn(i) ==
  /\ slot[i] # "out"
  /\ g_PlayersNum' =
       IF i \in dead THEN DeadLess(g_PlayersNum, team[i]) ELSE g_PlayersNum
  /\ dead' \in {dead, dead \ {i}}     \* a spectator spawns dead
  /\ UNCHANGED <<is_connected, team, slot, m_iTeam>>

(* A round restarts, before the clients spawn again. *)
CSGameRules_CheckMapConditions ==
  /\ g_PlayersNum' = [k \in 0 .. 5 |-> IF k \in Team THEN g_PlayersNum[k] ELSE 0]
  /\ UNCHANGED <<is_connected, team, game>>

(* The map ends; every client has to be put in the server again. *)
ServerDeactivate ==
  /\ is_connected' = {} /\ team' = [i \in Clients |-> TEAM_UNASSIGNED]
  /\ g_PlayersNum' = [k \in 0 .. 5 |-> 0]
  /\ slot' = [i \in Clients |-> "out"]
  /\ UNCHANGED <<dead, m_iTeam>>

-----------------------------------------------------------------------------
ClientEvent(i) ==
  \/ Client_PutInServer(i) \/ SV_DropClient(i) \/ R_ClientDisconnect(i)
  \/ CBasePlayer_Killed(i) \/ CBasePlayer_Spawn(i)
  \/ \E t \in Team : Client_TeamInfo(i, t)

Next ==
  \/ CSGameRules_CheckMapConditions \/ ServerDeactivate
  \/ \E i \in Clients : ClientEvent(i)

Spec == Init /\ [][Next]_vars

-----------------------------------------------------------------------------
(* Every variable has its type, and no counter is negative. *)
TypeOK ==
  /\ is_connected \subseteq Clients
  /\ team \in [Clients -> Team] /\ m_iTeam \in [Clients -> Team]
  /\ g_PlayersNum \in [0 .. 5 -> Nat]
  /\ slot \in [Clients -> {"out", "in", "dropping"}]
  /\ dead \subseteq Clients

Members(t) == {i \in is_connected : team[i] = t}

DeadMembers(t) == Members(t) \cap dead

(* rf_get_players_num (natives_refsapi.cpp l.3) reports the counters that  *)
(* refsapi.cpp l.317-411 keeps by increments: they are the clients of each *)
(* team, although a disconnection is announced twice, teams are announced  *)
(* for clients that are not in yet, and maps end under connected clients.  *)
TeamCounted == \A t \in Team : g_PlayersNum[t] = Cardinality(Members(t))

(* "FIX TEAMS DEAD COUNT" (refsapi.cpp l.202, l.343, l.391): however       *)
(* deaths, spawns, team changes, disconnections and restarts of the round  *)
(* alternate, a team is never said to have more dead clients than it has,  *)
(* so that the living ones a plugin computes are never too few.            *)
DeadAtMost ==
  \A t \in TEAM_TERRORIST .. TEAM_CT :
    g_PlayersNum[Dead(t)] \in 0 .. Cardinality(DeadMembers(t))

=============================================================================

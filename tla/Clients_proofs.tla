--------------------------- MODULE Clients_proofs ---------------------------
(***************************************************************************)
(* The team counters, for every number of player slots.                    *)
(***************************************************************************)
EXTENDS Clients, FiniteSetTheorems, TLAPS

ClientTypes ==
  /\ is_connected \subseteq Clients
  /\ team \in [Clients -> Team] /\ m_iTeam \in [Clients -> Team]
  /\ g_PlayersNum \in [0 .. 5 -> Int]
  /\ slot \in [Clients -> {"out", "in", "dropping"}]
  /\ dead \subseteq Clients

(* A client that is counted is in the server: it cannot be put in again.   *)
(* The game knows its team, or has just taken it away.                     *)
ConnectedIn ==
  \A i \in is_connected :
    /\ slot[i] = "in"
    /\ m_iTeam[i] \in {team[i], TEAM_UNASSIGNED}

(* The inductive invariant of the counters. *)
CInv == ClientTypes /\ ConnectedIn /\ TeamCounted /\ DeadAtMost

-----------------------------------------------------------------------------
(* The sets that are counted are finite. *)
LEMMA FiniteMembers ==
  ASSUME is_connected \subseteq Clients, NEW t
  PROVE  /\ IsFiniteSet(Members(t)) /\ Cardinality(Members(t)) \in Nat
         /\ IsFiniteSet(DeadMembers(t)) /\ Cardinality(DeadMembers(t)) \in Nat
<1>1. Members(t) \in SUBSET Clients /\ DeadMembers(t) \in SUBSET Clients
  BY DEF Members, DeadMembers
<1>2. IsFiniteSet(Members(t)) /\ IsFiniteSet(DeadMembers(t))
  BY <1>1, FS_Subset, ClientsAssumption
<1>3. QED
  BY <1>2, FS_CardinalityType

(* Adding or removing an element changes a cardinality by at most one. *)
LEMMA OneMoreOrLess ==
  ASSUME NEW S, IsFiniteSet(S), NEW x
  PROVE  /\ Cardinality(S \cup {x}) >= Cardinality(S)
         /\ Cardinality(S \cup {x}) \in Nat
         /\ Cardinality(S \ {x}) \in Nat
         /\ Cardinality(S \ {x}) >= Cardinality(S) - 1
<1>1. Cardinality(S) \in Nat
  BY FS_CardinalityType
<1>2. /\ IsFiniteSet(S \cup {x})
      /\ Cardinality(S \cup {x}) \in {Cardinality(S), Cardinality(S) + 1}
  BY FS_AddElement
<1>3. /\ IsFiniteSet(S \ {x})
      /\ Cardinality(S \ {x}) \in {Cardinality(S), Cardinality(S) - 1}
  BY FS_RemoveElement
<1>4. Cardinality(S \ {x}) \in Nat
  BY <1>3, FS_CardinalityType
<1>5. QED
  BY <1>1, <1>2, <1>3, <1>4

(* A step that leaves the clients of every team alone, and the dead ones   *)
(* or their counters.                                                      *)
LEMMA SameTeams ==
  ASSUME CInv, ClientTypes', ConnectedIn',
         \A t \in Team : Members(t)' = Members(t),
         \A t \in Team : g_PlayersNum'[t] = g_PlayersNum[t], DeadAtMost'
  PROVE  CInv'
BY DEF CInv, TeamCounted

(* A client is put in the server, without a team. *)
LEMMA PutInKeeps ==
  ASSUME CInv, NEW i \in Clients, Client_PutInServer(i)
  PROVE  CInv'
<1> USE DEF Client_PutInServer, Team, TEAM_UNASSIGNED, TEAM_SPECTRATOR,
            TEAM_TERRORIST, TEAM_CT, TEAM_DEAD_TT, Dead
<1>1. ClientTypes /\ ConnectedIn
  BY DEF CInv
<1>2. i \notin is_connected
  BY <1>1 DEF ConnectedIn
<1>3. ClientTypes'
  BY <1>1 DEF ClientTypes
<1>4. ConnectedIn'
  BY <1>1 DEF ConnectedIn, ClientTypes
<1>5. Members(0)' = Members(0) \cup {i} /\ i \notin Members(0)
  BY <1>1, <1>2 DEF Members, ClientTypes
<1>6. ASSUME NEW t \in 1 .. 3
      PROVE  Members(t)' = Members(t) /\ DeadMembers(t)' = DeadMembers(t)
  BY <1>1, <1>2 DEF Members, DeadMembers, ClientTypes
<1>7. TeamCounted'
  <2>1. Cardinality(Members(0)') = Cardinality(Members(0)) + 1
    BY <1>1, <1>5, FiniteMembers, FS_AddElement DEF ClientTypes
  <2>2. g_PlayersNum'[0] = g_PlayersNum[0] + 1
        /\ \A k \in 1 .. 5 : g_PlayersNum'[k] = g_PlayersNum[k]
    BY <1>1 DEF ClientTypes
  <2>3. QED
    BY <1>6, <2>1, <2>2 DEF CInv, TeamCounted
<1>8. DeadAtMost'
  BY <1>1, <1>6 DEF CInv, DeadAtMost, ClientTypes
<1>9. QED
  BY <1>3, <1>4, <1>7, <1>8 DEF CInv

(* Client_Disconnected uncounts a connected client once. *)
LEMMA DisconnectedKeeps ==
  ASSUME CInv, NEW i \in Clients, Client_Disconnected(i),
         slot' \in [Clients -> {"out", "in", "dropping"}],
         \A j \in Clients \ {i} : slot'[j] = slot[j],
         dead' = dead, m_iTeam' = m_iTeam
  PROVE  CInv'
<1> USE DEF Team, TEAM_UNASSIGNED, TEAM_SPECTRATOR, TEAM_TERRORIST, TEAM_CT,
            TEAM_DEAD_TT, Dead
<1>1. ClientTypes /\ ConnectedIn
  BY DEF CInv
<1>2. CASE i \in is_connected
  <2> DEFINE k == team[i]
             nums == [g_PlayersNum EXCEPT ![k] = @ - 1]
  <2>1. /\ is_connected' = is_connected \ {i} /\ team' = team /\ k \in 0 .. 3
        /\ g_PlayersNum' = IF i \in dead THEN DeadLess(nums, k) ELSE nums
    BY <1>1, <1>2 DEF Client_Disconnected, ClientTypes
  <2>2. ClientTypes'
    BY <1>1, <2>1 DEF ClientTypes, DeadLess, is_valid_team
  <2>3. ConnectedIn'
    BY <1>1, <2>1 DEF ConnectedIn, ClientTypes
  <2>4. \A t \in 0 .. 3 : g_PlayersNum'[t] = IF t = k THEN g_PlayersNum[t] - 1
                                             ELSE g_PlayersNum[t]
    BY <1>1, <2>1 DEF ClientTypes, DeadLess, is_valid_team
  <2>5. ASSUME NEW t \in 0 .. 3
        PROVE  /\ t # k => Members(t)' = Members(t) /\ DeadMembers(t)' = DeadMembers(t)
               /\ t = k => /\ Members(t)' = Members(t) \ {i} /\ i \in Members(t)
                           /\ DeadMembers(t)' = DeadMembers(t) \ {i}
    BY <1>1, <1>2, <2>1 DEF Members, DeadMembers
  <2>6. TeamCounted'
    <3>1. Cardinality(Members(k)') = Cardinality(Members(k)) - 1
      BY <1>1, <2>1, <2>5, FiniteMembers, FS_RemoveElement DEF ClientTypes
    <3>2. QED
      BY <2>1, <2>4, <2>5, <3>1 DEF CInv, TeamCounted
  <2>7. DeadAtMost'
    <3> SUFFICES ASSUME NEW t \in 1 .. 2
                 PROVE  g_PlayersNum'[t + 3] \in 0 .. Cardinality(DeadMembers(t)')
      BY DEF DeadAtMost
    <3>1. g_PlayersNum[t + 3] \in 0 .. Cardinality(DeadMembers(t))
      BY DEF CInv, DeadAtMost
    <3>2. IsFiniteSet(DeadMembers(t)) /\ Cardinality(DeadMembers(t)) \in Nat
      BY <1>1, FiniteMembers DEF ClientTypes
    <3>3. CASE t = k /\ i \in dead
      <4>1. i \in DeadMembers(t) /\ DeadMembers(t)' = DeadMembers(t) \ {i}
        BY <2>5, <3>3 DEF DeadMembers
      <4>2. /\ Cardinality(DeadMembers(t)') = Cardinality(DeadMembers(t)) - 1
            /\ Cardinality(DeadMembers(t)') \in Nat
        BY <3>2, <4>1, FS_RemoveElement, FS_CardinalityType
      <4>3. nums \in [0 .. 5 -> Int] /\ nums[t + 3] = g_PlayersNum[t + 3]
        BY <1>1, <2>1, <3>3 DEF ClientTypes
      <4>4. g_PlayersNum' = DeadLess(nums, t)
        BY <2>1, <3>3
      <4> HIDE DEF nums
      <4>5. g_PlayersNum'[t + 3] = IF nums[t + 3] > 0 THEN nums[t + 3] - 1
                                   ELSE nums[t + 3]
        BY <4>3, <4>4 DEF DeadLess, is_valid_team
      <4>6. QED
        BY <3>1, <3>2, <4>2, <4>3, <4>5
    <3>4. CASE t # k \/ i \notin dead
      <4>1. DeadMembers(t)' = DeadMembers(t)
        BY <2>5, <3>4 DEF DeadMembers
      <4>2. g_PlayersNum'[t + 3] = g_PlayersNum[t + 3]
        BY <1>1, <2>1, <3>4 DEF ClientTypes, DeadLess, is_valid_team
      <4>3. QED
        BY <3>1, <4>1, <4>2
    <3>5. QED
      BY <3>3, <3>4
  <2>8. QED
    BY <2>2, <2>3, <2>6, <2>7 DEF CInv
<1>3. CASE i \notin is_connected
  <2>1. UNCHANGED <<is_connected, team, g_PlayersNum, dead, m_iTeam>>
    BY <1>3 DEF Client_Disconnected, own
  <2>2. ClientTypes' /\ ConnectedIn'
    BY <1>1, <1>3, <2>1 DEF ClientTypes, ConnectedIn
  <2>3. TeamCounted' /\ DeadAtMost'
    BY <2>1 DEF CInv, TeamCounted, DeadAtMost, Members, DeadMembers
  <2>4. QED
    BY <2>2, <2>3 DEF CInv
<1>4. QED
  BY <1>2, <1>3

(* A change of the team moves a connected client, and a dead one at most   *)
(* from one counter of the dead to the other.                              *)
LEMMA TeamInfoKeeps ==
  ASSUME CInv, NEW i \in Clients, NEW n \in Team, Client_TeamInfo(i, n)
  PROVE  CInv'
<1> USE DEF Team, TEAM_UNASSIGNED, TEAM_SPECTRATOR, TEAM_TERRORIST, TEAM_CT,
            TEAM_DEAD_TT, Dead
<1>1. /\ ClientTypes /\ ConnectedIn
      /\ is_connected' = is_connected /\ slot' = slot /\ dead' = dead
      /\ m_iTeam' = [m_iTeam EXCEPT ![i] = n]
  BY DEF CInv, Client_TeamInfo
<1>2. CASE i \in is_connected /\ n # 0 /\ team[i] # n
  <2> DEFINE k == team[i]
             less == IF i \in dead THEN DeadLess(g_PlayersNum, k) ELSE g_PlayersNum
             nums == IF i \in dead THEN DeadMore(less, n) ELSE less
  <2>1. /\ k \in 0 .. 3 /\ team' = [team EXCEPT ![i] = n]
        /\ g_PlayersNum' = [nums EXCEPT ![k] = @ - 1, ![n] = @ + 1]
    BY <1>1, <1>2 DEF Client_TeamInfo, ClientTypes
  <2>2. less \in [0 .. 5 -> Int] /\ \A t \in 0 .. 3 : less[t] = g_PlayersNum[t]
    BY <1>1, <2>1 DEF ClientTypes, DeadLess, is_valid_team
  <2>3. /\ \A t \in 1 .. 2 : t # k \/ i \notin dead => less[t + 3] = g_PlayersNum[t + 3]
        /\ \A t \in 1 .. 2 : t = k /\ i \in dead =>
             less[t + 3] = IF g_PlayersNum[t + 3] > 0 THEN g_PlayersNum[t + 3] - 1
                           ELSE g_PlayersNum[t + 3]
    BY <1>1, <2>1 DEF ClientTypes, DeadLess, is_valid_team
  <2> HIDE DEF less
  <2>4. nums \in [0 .. 5 -> Int] /\ \A t \in 0 .. 3 : nums[t] = less[t]
    BY <2>2 DEF DeadMore, is_valid_team
  <2>5. /\ \A t \in 1 .. 2 : t # n \/ i \notin dead => nums[t + 3] = less[t + 3]
        /\ \A t \in 1 .. 2 : t = n /\ i \in dead =>
             nums[t + 3] = IF less[t + 3] > 0 THEN less[t + 3] + 1 ELSE less[t + 3]
    BY <2>2 DEF DeadMore, is_valid_team
  <2> HIDE DEF nums
  <2>6. ClientTypes' /\ ConnectedIn'
    <3>1. g_PlayersNum' \in [0 .. 5 -> Int]
      BY <2>1, <2>4
    <3>2. ClientTypes'
      BY <1>1, <2>1, <3>1 DEF ClientTypes
    <3>3. ConnectedIn'
      BY <1>1, <1>2, <2>1 DEF ConnectedIn, ClientTypes
    <3>4. QED
      BY <3>2, <3>3
  <2>7. ASSUME NEW t \in 0 .. 3
        PROVE  /\ t = k => /\ Members(t)' = Members(t) \ {i} /\ i \in Members(t)
                           /\ DeadMembers(t)' = DeadMembers(t) \ {i}
               /\ t = n => /\ Members(t)' = Members(t) \cup {i} /\ i \notin Members(t)
                           /\ i \in dead => DeadMembers(t)' = DeadMembers(t) \cup {i}
                           /\ i \notin dead => DeadMembers(t)' = DeadMembers(t)
               /\ t # k /\ t # n => /\ Members(t)' = Members(t)
                                    /\ DeadMembers(t)' = DeadMembers(t)
    BY <1>1, <1>2, <2>1 DEF Members, DeadMembers, ClientTypes
  <2>8. TeamCounted'
    <3> SUFFICES ASSUME NEW t \in 0 .. 3
                 PROVE  g_PlayersNum'[t] = Cardinality(Members(t)')
      BY DEF TeamCounted
    <3>1. g_PlayersNum[t] = Cardinality(Members(t)) /\ IsFiniteSet(Members(t))
      BY <1>1, FiniteMembers DEF CInv, TeamCounted, ClientTypes
    <3>2. g_PlayersNum'[t] = IF t = k THEN g_PlayersNum[t] - 1
                             ELSE IF t = n THEN g_PlayersNum[t] + 1
                             ELSE g_PlayersNum[t]
      BY <1>2, <2>1, <2>2, <2>4
    <3>3. CASE t = k
      BY <2>7, <3>1, <3>2, <3>3, FS_RemoveElement
    <3>4. CASE t = n
      <4>1. Members(t)' = Members(t) \cup {i} /\ i \notin Members(t)
        BY <2>7, <3>4
      <4>2. Cardinality(Members(t)') = Cardinality(Members(t)) + 1
        BY <3>1, <4>1, FS_AddElement
      <4>3. QED
        BY <1>2, <3>1, <3>2, <3>4, <4>2
    <3>5. CASE t # k /\ t # n
      BY <2>7, <3>1, <3>2, <3>5
    <3>6. QED
      BY <3>3, <3>4, <3>5
  <2>9. DeadAtMost'
    <3> SUFFICES ASSUME NEW t \in 1 .. 2
                 PROVE  g_PlayersNum'[t + 3] \in 0 .. Cardinality(DeadMembers(t)')
      BY DEF DeadAtMost
    <3>1. /\ g_PlayersNum[t + 3] \in 0 .. Cardinality(DeadMembers(t))
          /\ IsFiniteSet(DeadMembers(t)) /\ Cardinality(DeadMembers(t)) \in Nat
      BY <1>1, FiniteMembers DEF CInv, DeadAtMost, ClientTypes
    <3>2. g_PlayersNum'[t + 3] = nums[t + 3]
      BY <2>1, <2>4
    <3>3. CASE t = k
      <4>1. DeadMembers(t)' = DeadMembers(t) \ {i} /\ nums[t + 3] = less[t + 3]
        BY <1>2, <2>5, <2>7, <3>3
      <4>2. CASE i \in dead
        <5>1. i \in DeadMembers(t)
          BY <2>7, <3>3, <4>2 DEF DeadMembers
        <5>2. /\ Cardinality(DeadMembers(t)') = Cardinality(DeadMembers(t)) - 1
              /\ Cardinality(DeadMembers(t)') \in Nat
          BY <3>1, <4>1, <5>1, FS_RemoveElement, FS_CardinalityType
        <5>3. QED
          BY <2>3, <3>1, <3>2, <3>3, <4>1, <4>2, <5>2
      <4>3. CASE i \notin dead
        <5>1. DeadMembers(t)' = DeadMembers(t)
          BY <4>1, <4>3 DEF DeadMembers
        <5>2. QED
          BY <2>3, <3>1, <3>2, <4>1, <4>3, <5>1
      <4>4. QED
        BY <4>2, <4>3
    <3>4. CASE t = n
      <4>1. less[t + 3] = g_PlayersNum[t + 3]
        BY <1>2, <2>3, <3>4
      <4>2. CASE i \in dead
        <5>1. Cardinality(DeadMembers(t)') = Cardinality(DeadMembers(t)) + 1
          BY <2>7, <3>1, <3>4, <4>2, FS_AddElement DEF DeadMembers
        <5>2. QED
          BY <2>5, <3>1, <3>2, <3>4, <4>1, <4>2, <5>1
      <4>3. CASE i \notin dead
        BY <2>5, <2>7, <3>1, <3>2, <3>4, <4>1, <4>3
      <4>4. QED
        BY <4>2, <4>3
    <3>5. CASE t # k /\ t # n
      BY <2>3, <2>5, <2>7, <3>1, <3>2, <3>5
    <3>6. QED
      BY <3>3, <3>4, <3>5
  <2>10. QED
    BY <2>6, <2>8, <2>9 DEF CInv
<1>3. CASE i \notin is_connected
  <2>1. team' = [team EXCEPT ![i] = n] /\ g_PlayersNum' = g_PlayersNum
    BY <1>3 DEF Client_TeamInfo
  <2>2. \A t : Members(t)' = Members(t) /\ DeadMembers(t)' = DeadMembers(t)
    BY <1>1, <1>3, <2>1 DEF Members, DeadMembers, ClientTypes
  <2>3. ClientTypes' /\ ConnectedIn'
    BY <1>1, <1>3, <2>1 DEF ClientTypes, ConnectedIn
  <2>4. DeadAtMost'
    BY <2>1, <2>2 DEF CInv, DeadAtMost
  <2>5. QED
    BY <2>1, <2>2, <2>3, <2>4, SameTeams
<1>4. CASE i \in is_connected /\ (n = 0 \/ team[i] = n)
  <2>1. UNCHANGED <<team, g_PlayersNum>>
    BY <1>4 DEF Client_TeamInfo
  <2>2. \A t : Members(t)' = Members(t) /\ DeadMembers(t)' = DeadMembers(t)
    BY <1>1, <2>1 DEF Members, DeadMembers
  <2>3. ClientTypes' /\ ConnectedIn'
    BY <1>1, <1>4, <2>1 DEF ClientTypes, ConnectedIn
  <2>4. DeadAtMost'
    BY <2>1, <2>2 DEF CInv, DeadAtMost
  <2>5. QED
    BY <2>1, <2>2, <2>3, <2>4, SameTeams
<1>5. QED
  BY <1>2, <1>3, <1>4

(* Deaths, spawns and restarts of the round only touch the counters of the *)
(* dead.                                                                   *)
LEMMA GameKeeps ==
  ASSUME CInv,
         \/ \E i \in Clients : CBasePlayer_Killed(i) \/ CBasePlayer_Spawn(i)
         \/ CSGameRules_CheckMapConditions
  PROVE  CInv'
<1> USE DEF Team, TEAM_UNASSIGNED, TEAM_SPECTRATOR, TEAM_TERRORIST, TEAM_CT,
            TEAM_DEAD_TT, Dead, is_valid_team
<1>1. /\ ClientTypes /\ ConnectedIn
      /\ UNCHANGED <<is_connected, team, slot, m_iTeam>>
  BY DEF CInv, CBasePlayer_Killed, CBasePlayer_Spawn,
         CSGameRules_CheckMapConditions, game
<1>2. \A t : Members(t)' = Members(t)
  BY <1>1 DEF Members
<1>3. ASSUME NEW t \in 1 .. 2
      PROVE  /\ g_PlayersNum[t + 3] \in 0 .. Cardinality(DeadMembers(t))
             /\ IsFiniteSet(DeadMembers(t)) /\ Cardinality(DeadMembers(t)) \in Nat
  BY <1>1, FiniteMembers DEF CInv, DeadAtMost, ClientTypes
<1>4. ASSUME NEW i \in Clients, CBasePlayer_Killed(i)
      PROVE  CInv'
  <2>1. i \notin dead /\ dead' = dead \cup {i}
    BY <1>4 DEF CBasePlayer_Killed
  <2>2. CASE i \in is_connected /\ is_valid_team(m_iTeam[i])
    <3>1. /\ m_iTeam[i] \in 1 .. 2 /\ team[i] = m_iTeam[i]
          /\ g_PlayersNum' = [g_PlayersNum EXCEPT ![m_iTeam[i] + 3] = @ + 1]
      <4>1. m_iTeam[i] \in 1 .. 2 /\ team[i] = m_iTeam[i]
        BY <1>1, <2>2 DEF ConnectedIn
      <4>2. g_PlayersNum' = [g_PlayersNum EXCEPT ![4 + m_iTeam[i] - 1] = @ + 1]
        BY <1>4, <2>2 DEF CBasePlayer_Killed
      <4>3. 4 + m_iTeam[i] - 1 = m_iTeam[i] + 3
        BY <4>1
      <4>4. QED
        BY <4>1, <4>2, <4>3
    <3>2. ClientTypes' /\ ConnectedIn' /\ \A t \in Team : g_PlayersNum'[t] = g_PlayersNum[t]
      BY <1>1, <2>1, <3>1 DEF ClientTypes, ConnectedIn
    <3>3. DeadAtMost'
      <4> SUFFICES ASSUME NEW t \in 1 .. 2
                   PROVE  g_PlayersNum'[t + 3] \in 0 .. Cardinality(DeadMembers(t)')
        BY DEF DeadAtMost
      <4>1. CASE t = team[i]
        <5>1. DeadMembers(t)' = DeadMembers(t) \cup {i} /\ i \notin DeadMembers(t)
          <6>1. i \in Members(t)
            BY <2>2, <4>1 DEF Members
          <6>2. QED
            BY <1>2, <2>1, <6>1 DEF DeadMembers
        <5>2. Cardinality(DeadMembers(t)') = Cardinality(DeadMembers(t)) + 1
          BY <1>3, <5>1, FS_AddElement
        <5>3. g_PlayersNum'[t + 3] = g_PlayersNum[t + 3] + 1
          BY <1>1, <3>1, <4>1 DEF ClientTypes
        <5>4. QED
          BY <1>3, <5>2, <5>3
      <4>2. CASE t # team[i]
        <5>1. DeadMembers(t)' = DeadMembers(t)
          BY <1>2, <2>1, <4>2 DEF DeadMembers, Members
        <5>2. g_PlayersNum'[t + 3] = g_PlayersNum[t + 3]
          BY <1>1, <3>1, <4>2 DEF ClientTypes
        <5>3. QED
          BY <1>3, <5>1, <5>2
      <4>3. QED
        BY <4>1, <4>2
    <3>4. QED
      BY <1>2, <3>2, <3>3, SameTeams
  <2>3. CASE ~(i \in is_connected /\ is_valid_team(m_iTeam[i]))
    <3>1. g_PlayersNum' = g_PlayersNum
      BY <1>4, <2>3 DEF CBasePlayer_Killed
    <3>2. ClientTypes' /\ ConnectedIn'
      BY <1>1, <2>1, <3>1 DEF ClientTypes, ConnectedIn
    <3>3. ASSUME NEW t \in 1 .. 2
          PROVE  Cardinality(DeadMembers(t)') >= Cardinality(DeadMembers(t))
                 /\ Cardinality(DeadMembers(t)') \in Nat
      <4>1. DeadMembers(t)' \in {DeadMembers(t), DeadMembers(t) \cup {i}}
        BY <1>2, <2>1 DEF DeadMembers
      <4>2. /\ Cardinality(DeadMembers(t) \cup {i}) >= Cardinality(DeadMembers(t))
            /\ Cardinality(DeadMembers(t) \cup {i}) \in Nat
        BY <1>3, OneMoreOrLess
      <4>3. QED
        BY <1>3, <4>1, <4>2
    <3>4. DeadAtMost'
      <4> SUFFICES ASSUME NEW t \in 1 .. 2
                   PROVE  g_PlayersNum'[t + 3] \in 0 .. Cardinality(DeadMembers(t)')
        BY DEF DeadAtMost
      <4>1. QED
        BY <1>3, <3>1, <3>3
    <3>5. QED
      BY <1>2, <3>1, <3>2, <3>4, SameTeams
  <2>4. QED
    BY <2>2, <2>3
<1>5. ASSUME NEW i \in Clients, CBasePlayer_Spawn(i)
      PROVE  CInv'
  <2> DEFINE k == team[i]
  <2>1. /\ dead' \in {dead, dead \ {i}} /\ k \in 0 .. 3
        /\ g_PlayersNum' = IF i \in dead THEN DeadLess(g_PlayersNum, k) ELSE g_PlayersNum
    BY <1>1, <1>5 DEF CBasePlayer_Spawn, ClientTypes
  <2>2. /\ g_PlayersNum' \in [0 .. 5 -> Int]
        /\ \A t \in 0 .. 3 : g_PlayersNum'[t] = g_PlayersNum[t]
    BY <1>1, <2>1 DEF ClientTypes, DeadLess
  <2>3. ClientTypes' /\ ConnectedIn'
    BY <1>1, <2>1, <2>2 DEF ClientTypes, ConnectedIn
  <2>4. DeadAtMost'
    <3> SUFFICES ASSUME NEW t \in 1 .. 2
                 PROVE  g_PlayersNum'[t + 3] \in 0 .. Cardinality(DeadMembers(t)')
      BY DEF DeadAtMost
    <3>1. CASE t = k /\ i \in dead
      <4>1. g_PlayersNum'[t + 3] = IF g_PlayersNum[t + 3] > 0 THEN g_PlayersNum[t + 3] - 1
                                   ELSE g_PlayersNum[t + 3]
        BY <1>1, <2>1, <3>1 DEF ClientTypes, DeadLess
      <4>2. DeadMembers(t)' \in {DeadMembers(t), DeadMembers(t) \ {i}}
        BY <1>2, <2>1 DEF DeadMembers
      <4>3. /\ Cardinality(DeadMembers(t)') \in Nat
            /\ Cardinality(DeadMembers(t)') >= Cardinality(DeadMembers(t)) - 1
        <5>1. /\ Cardinality(DeadMembers(t) \ {i}) \in Nat
              /\ Cardinality(DeadMembers(t) \ {i}) >= Cardinality(DeadMembers(t)) - 1
          BY <1>3, OneMoreOrLess
        <5>2. QED
          BY <1>3, <4>2, <5>1
      <4>4. QED
        BY <1>3, <4>1, <4>3
    <3>2. CASE t # k \/ i \notin dead
      <4>1. g_PlayersNum'[t + 3] = g_PlayersNum[t + 3]
        BY <1>1, <2>1, <3>2 DEF ClientTypes, DeadLess
      <4>2. DeadMembers(t)' = DeadMembers(t)
        BY <1>2, <2>1, <3>2 DEF DeadMembers, Members
      <4>3. QED
        BY <1>3, <4>1, <4>2
    <3>3. QED
      BY <3>1, <3>2
  <2>5. QED
    BY <1>2, <2>2, <2>3, <2>4, SameTeams
<1>6. CASE CSGameRules_CheckMapConditions
  <2>1. dead' = dead /\ g_PlayersNum' = [k \in 0 .. 5 |-> IF k \in 0 .. 3 THEN g_PlayersNum[k] ELSE 0]
    BY <1>6 DEF CSGameRules_CheckMapConditions, game
  <2>2. ClientTypes' /\ ConnectedIn' /\ \A t \in 0 .. 3 : g_PlayersNum'[t] = g_PlayersNum[t]
    BY <1>1, <2>1 DEF ClientTypes, ConnectedIn
  <2>3. DeadAtMost'
    <3> SUFFICES ASSUME NEW t \in 1 .. 2
                 PROVE  g_PlayersNum'[t + 3] \in 0 .. Cardinality(DeadMembers(t)')
      BY DEF DeadAtMost
    <3>1. g_PlayersNum'[t + 3] = 0 /\ DeadMembers(t)' = DeadMembers(t)
      BY <1>2, <2>1 DEF DeadMembers
    <3>2. QED
      BY <1>3, <3>1
  <2>4. QED
    BY <1>2, <2>2, <2>3, SameTeams
<1>7. QED
  BY <1>4, <1>5, <1>6

-----------------------------------------------------------------------------
(* The counters stay consistent with the clients over every sequence of    *)
(* events, for any number of slots.                                        *)
THEOREM Consistent == Spec => []CInv
<1> USE DEF Team, TEAM_UNASSIGNED, TEAM_SPECTRATOR, TEAM_TERRORIST, TEAM_CT,
            TEAM_DEAD_TT, Dead
<1>1. ASSUME is_connected = {}, g_PlayersNum = [k \in 0 .. 5 |-> 0]
      PROVE  TeamCounted /\ DeadAtMost
  <2>1. \A t : Members(t) = {} /\ DeadMembers(t) = {}
    BY <1>1 DEF Members, DeadMembers
  <2>2. QED
    BY <1>1, <2>1, FS_EmptySet DEF TeamCounted, DeadAtMost
<1>2. Init => CInv
  BY <1>1 DEF Init, CInv, ClientTypes, ConnectedIn
<1>3. CInv /\ [Next]_vars => CInv'
  <2> SUFFICES ASSUME CInv, [Next]_vars PROVE CInv'
    OBVIOUS
  <2>1. ASSUME NEW i \in Clients, ClientEvent(i)
        PROVE  CInv'
    <3>1. CASE Client_PutInServer(i)
      BY <3>1, PutInKeeps
    <3>2. CASE SV_DropClient(i) \/ R_ClientDisconnect(i)
      <4>1. /\ Client_Disconnected(i) /\ dead' = dead /\ m_iTeam' = m_iTeam
            /\ slot' \in [Clients -> {"out", "in", "dropping"}]
            /\ \A j \in Clients \ {i} : slot'[j] = slot[j]
        BY <3>2 DEF SV_DropClient, R_ClientDisconnect, CInv, ClientTypes
      <4>2. QED
        BY <4>1, DisconnectedKeeps
    <3>3. CASE CBasePlayer_Killed(i) \/ CBasePlayer_Spawn(i)
      BY <3>3, GameKeeps
    <3>4. CASE \E t \in Team : Client_TeamInfo(i, t)
      BY <3>4, TeamInfoKeeps
    <3>5. QED
      BY <2>1, <3>1, <3>2, <3>3, <3>4 DEF ClientEvent
  <2>2. CASE CSGameRules_CheckMapConditions
    BY <2>2, GameKeeps
  <2>3. CASE ServerDeactivate
    <3>1. /\ is_connected' = {} /\ g_PlayersNum' = [k \in 0 .. 5 |-> 0]
          /\ ClientTypes' /\ ConnectedIn'
      BY <2>3 DEF ServerDeactivate, CInv, ClientTypes, ConnectedIn
    <3>2. \A t : Members(t)' = {} /\ DeadMembers(t)' = {}
      BY <3>1 DEF Members, DeadMembers
    <3>3. TeamCounted' /\ DeadAtMost'
      BY <3>1, <3>2, FS_EmptySet DEF TeamCounted, DeadAtMost
    <3>4. QED
      BY <3>1, <3>3 DEF CInv
  <2>4. CASE UNCHANGED vars
    BY <2>4 DEF vars, own, game, CInv, ClientTypes, ConnectedIn, TeamCounted,
       DeadAtMost, Members, DeadMembers
  <2>5. QED
    BY <2>1, <2>2, <2>3, <2>4 DEF Next
<1>4. QED
  BY <1>2, <1>3, PTL DEF Spec

(* rf_get_players_num reports the number of clients of each team.          *)
THEOREM TeamsCounted == Spec => []TeamCounted
<1>1. CInv => TeamCounted
  BY DEF CInv
<1>2. QED
  BY <1>1, Consistent, PTL

(* A team is never said to have more dead clients than it has.             *)
THEOREM DeadBounded == Spec => []DeadAtMost
<1>1. CInv => DeadAtMost
  BY DEF CInv
<1>2. QED
  BY <1>1, Consistent, PTL

(* Every variable keeps its type, and no counter becomes negative.         *)
THEOREM TypeCorrect == Spec => []TypeOK
<1>1. CInv => TypeOK
  <2> SUFFICES ASSUME CInv PROVE TypeOK
    OBVIOUS
  <2>1. ASSUME NEW k \in 0 .. 3
        PROVE  g_PlayersNum[k] \in Nat
    BY FiniteMembers DEF CInv, ClientTypes, TeamCounted, Team, TEAM_UNASSIGNED,
       TEAM_SPECTRATOR
  <2>2. ASSUME NEW k \in 1 .. 2
        PROVE  g_PlayersNum[k + 3] \in Nat
    BY FiniteMembers DEF CInv, ClientTypes, DeadAtMost, Dead, TEAM_TERRORIST,
       TEAM_CT, TEAM_DEAD_TT
  <2>3. \A k \in 0 .. 5 : g_PlayersNum[k] \in Nat
    <3>1. g_PlayersNum[4] \in Nat /\ g_PlayersNum[5] \in Nat
      <4>1. g_PlayersNum[1 + 3] \in Nat /\ g_PlayersNum[2 + 3] \in Nat
        BY <2>2
      <4>2. QED
        BY <4>1
    <3>2. QED
      BY <2>1, <3>1
  <2>4. QED
    BY <2>3 DEF CInv, ClientTypes, TypeOK
<1>2. QED
  BY <1>1, Consistent, PTL
=============================================================================

-------------------------- MODULE SmvServerProofs --------------------------
(***************************************************************************)
(* What smvserver.lua promises.  First SmvServer, its sessions and scene,  *)
(* for every number of sessions, agents and addresses and every value of   *)
(* its bounds; then SendPath, its packets, for every folder and asset.     *)
(*                                                                         *)
(* SendPath is proved about by induction over the bytes of a packet, the   *)
(* items of a folder and the pieces of an asset.  Induct and InductTo get  *)
(* it from the order of the numbers.                                       *)
(***************************************************************************)
EXTENDS SmvServer, SendPath, SequenceTheorems, WellFoundedInduction, TLAPS

LEMMA FreshStateType == FreshState \in ServerState
BY NoneAssumption DEF FreshState, ServerState, NoAvatars, NoAvatar, FirstLocalId

LEMMA RunningType == TypeOK => Running \in ServerState
BY DEF TypeOK, Running, ServerState

LEMMA RunningWithoutSceneType ==
  TypeOK => [Running EXCEPT !.avatars = NoAvatars] \in ServerState
BY DEF TypeOK, Running, ServerState, NoAvatars, NoAvatar

LEMMA RestartType ==
  ASSUME TypeOK, NEW file \in ServerState, Restart(file)
  PROVE  TypeOK'
<1>1. /\ circuit' \in [Session -> Remote \union {None}]
      /\ byRemote' \in [Remote -> Session \union {None}]
      /\ byAgent' \in [Agent -> Session \union {None}]
      /\ avatars' \in [Agent -> Nat]
      /\ nextLocalId' \in Nat
  <2>1. /\ file.circuit \in [Session -> Remote \union {None}]
        /\ file.byRemote \in [Remote -> Session \union {None}]
        /\ file.byAgent \in [Agent -> Session \union {None}]
        /\ file.avatars \in [Agent -> Nat]
        /\ file.nextLocalId \in Nat
    BY DEF ServerState
  <2>2. Load(file)
    BY DEF Restart
  <2>3. QED
    BY <2>1, <2>2 DEF Load
<1>2. disk' \in ServerState /\ pending' \subseteq Session /\ log' \in Outcome
  BY DEF Restart, Outcome
<1>3. restarts' \in Nat
  BY DEF Restart, TypeOK
<1>4. UNCHANGED <<net, dups, greeted, left, view>>
  BY DEF Restart, viewer
<1>5. QED
  BY <1>1, <1>2, <1>3, <1>4 DEF TypeOK

LEMMA DeliverType ==
  ASSUME TypeOK, NEW d, Deliver(d)
  PROVE  net' \subseteq Datagram /\ dups' \in Nat
BY DEF TypeOK, Deliver

(* Every variable keeps its type: the handlers store in each table of       *)
(* smv_state and mv_state what it is meant to hold.                         *)
THEOREM TypeCorrect == Spec => []TypeOK
<1>1. Init => TypeOK
  BY FreshStateType, NoneAssumption
  DEF Init, TypeOK, FreshState, ServerState, NoAvatars, NoAvatar, FirstLocalId, Outcome
<1>2. TypeOK /\ [Next]_vars => TypeOK'
  <2> SUFFICES ASSUME TypeOK, [Next]_vars PROVE TypeOK'
    OBVIOUS
  <2> USE NoneAssumption, AgentOfAssumption, RemotesOfAssumption, BoundsAssumption
  <2>1. ASSUME NEW k \in Kind, NEW s \in Session, NEW r \in Remote,
               ViewerSends(k, s, r)
        PROVE  TypeOK'
    BY <2>1 DEF TypeOK, ViewerSends, server, Datagram
  <2>2. ASSUME NEW d \in net, Lose(d) PROVE TypeOK'
    BY <2>2 DEF TypeOK, Lose, server, viewer
  <2>3. ASSUME NEW d \in net, Handle(d) PROVE TypeOK'
    <3> d \in Datagram
      BY DEF TypeOK
    <3>1. CASE OpenCircuit(d)
      <4>1. /\ circuit' \in [Session -> Remote \union {None}]
            /\ byRemote' \in [Remote -> Session \union {None}]
            /\ byAgent' \in [Agent -> Session \union {None}]
        BY <3>1 DEF TypeOK, OpenCircuit, Register, Datagram
      <4>2. greeted' \subseteq Session /\ log' \in Outcome
        BY <3>1 DEF TypeOK, OpenCircuit, Outcome, Datagram
      <4>3. net' \subseteq Datagram /\ dups' \in Nat
        BY <3>1, DeliverType DEF OpenCircuit
      <4>4. QED
        BY <3>1, <4>1, <4>2, <4>3 DEF TypeOK, OpenCircuit
    <3>2. CASE DuplicateCircuit(d)
      BY <3>2, DeliverType DEF TypeOK, DuplicateCircuit, Outcome, server, viewer
    <3>3. CASE Unrouted(d)
      BY <3>3, DeliverType DEF TypeOK, Unrouted, Outcome, server, viewer
    <3>4. CASE CompleteAgentMovement(d)
      <4> SessionOf(d) \in Session
        BY <3>4 DEF TypeOK, CompleteAgentMovement, Routed, HasCircuit, SessionOf, Datagram
      <4>1. nextLocalId \in Nat /\ nextLocalId' \in Nat
        BY <3>4 DEF TypeOK, CompleteAgentMovement, AllocateLocalId
      <4>2. avatars' \in [Agent -> Nat]
        BY <3>4, <4>1 DEF TypeOK, CompleteAgentMovement
      <4>3. view' \in [Session -> [Agent -> Nat]]
        BY <3>4, <4>2 DEF TypeOK, CompleteAgentMovement
      <4>4. log' \in Outcome
        BY <3>4 DEF CompleteAgentMovement, SceneOutcome, Outcome
      <4>5. net' \subseteq Datagram /\ dups' \in Nat
        BY <3>4, DeliverType DEF CompleteAgentMovement, Routed
      <4>6. QED
        BY <3>4, <4>1, <4>2, <4>3, <4>4, <4>5 DEF TypeOK, CompleteAgentMovement
    <3>5. CASE AgentUpdate(d)
      <4>1. view' \in [Session -> [Agent -> Nat]]
        <5>1. avatars[AgentOf[d.sid]] \in Nat
          BY DEF TypeOK, Datagram
        <5>2. CASE UNCHANGED view
          BY <5>2 DEF TypeOK
        <5>3. CASE ~UNCHANGED view
          <6>1. PICK reached \in ReachedByMove(avatars) : view' =
                  [t \in Session |-> [b \in Agent |->
                    IF b = AgentOf[d.sid] /\ \E c \in reached : byAgent[c] = t
                    THEN avatars[AgentOf[d.sid]] ELSE view[t][b]]]
            BY <3>5, <5>3, Zenon DEF AgentUpdate
          <6>2. QED
            BY <5>1, <6>1 DEF TypeOK
        <5>4. QED
          BY <5>2, <5>3
      <4>2. net' \subseteq Datagram /\ dups' \in Nat
        BY <3>5, DeliverType DEF AgentUpdate, Routed
      <4>3. log' \in Outcome
        BY <3>5 DEF AgentUpdate, SceneOutcome, Outcome
      <4>4. QED
        BY <3>5, <4>1, <4>2, <4>3 DEF TypeOK, AgentUpdate, server
    <3>6. CASE LogoutRequest(d)
      BY <3>6, DeliverType
      DEF TypeOK, LogoutRequest, Routed, HasCircuit, SessionOf, ForgetSession,
          RemoveAvatar, NoAvatar, Outcome, Datagram, viewer
    <3>7. CASE AgentWearablesRequest(d)
      BY <3>7, DeliverType
      DEF TypeOK, AgentWearablesRequest, Routed, HasCircuit, SessionOf, Outcome,
          Datagram, server, viewer
    <3>8. QED
      BY <2>3, <3>1, <3>2, <3>3, <3>4, <3>5, <3>6, <3>7 DEF Handle
  <2>4. ASSUME NEW s \in Session, WearablesReceived(s) PROVE TypeOK'
    BY <2>4 DEF TypeOK, WearablesReceived, Outcome, server, viewer
  <2>5. CASE Interrupt
    BY <2>5, RunningType, RestartType DEF Interrupt
  <2>6. CASE Crash
    BY <2>6, RestartType DEF Crash, TypeOK
  <2>7. CASE CrashWhileSaving
    BY <2>7, FreshStateType, RunningWithoutSceneType, RestartType DEF CrashWhileSaving
  <2>8. CASE UNCHANGED vars
    BY <2>8 DEF TypeOK, vars, server, viewer
  <2>9. QED
    BY <2>1, <2>2, <2>3, <2>4, <2>5, <2>6, <2>7, <2>8 DEF Next
<1>3. QED
  BY <1>1, <1>2, PTL DEF Spec

-----------------------------------------------------------------------------
(* Which steps touch the session tables, the scene and the file.            *)

LEMMA StepCases ==
  ASSUME TypeOK, [Next]_vars
  PROVE  \/ UNCHANGED <<server, disk>>
         \/ \E d \in net : OpenCircuit(d)
         \/ \E d \in net : LogoutRequest(d)
         \/ \E d \in net : CompleteAgentMovement(d)
         \/ Restart(Running)
         \/ CanCrash /\ Restart(disk)
         \/ CanCrash /\ Restart(FreshState)
         \/ CanCrash /\ Restart([Running EXCEPT !.avatars = NoAvatars])
BY DEF Next, vars, ViewerSends, Lose, Handle, DuplicateCircuit, Unrouted,
       AgentUpdate, AgentWearablesRequest, WearablesReceived, Interrupt, Crash,
       CrashWhileSaving

LEMMA RoutedFacts ==
  ASSUME TypeOK, NEW d \in net, NEW k, Routed(d, k)
  PROVE  /\ d \in Datagram
         /\ SessionOf(d) \in Session
         /\ byRemote[d.from] = SessionOf(d)
         /\ circuit[SessionOf(d)] \in Remote
BY NoneAssumption DEF TypeOK, Routed, HasCircuit, SessionOf, Datagram

(* Running after a restart is what was read.                                *)
LEMMA RestartRunning ==
  ASSUME NEW file \in ServerState, Restart(file)
  PROVE  Running' = file /\ disk' = file
<1>1. Load(file) /\ disk' = file
  BY DEF Restart
<1>2. file = [circuit |-> file.circuit, byRemote |-> file.byRemote,
              byAgent |-> file.byAgent, avatars |-> file.avatars,
              nextLocalId |-> file.nextLocalId]
  BY DEF ServerState
<1>3. QED
  BY <1>1, <1>2 DEF Load, Running

-----------------------------------------------------------------------------
(* The saved file is as sound as the tables in memory, so that a restart    *)
(* from any of the files a crash may leave preserves soundness.             *)
SoundInv == Sound(Running) /\ Sound(disk)

LEMMA SoundOpen ==
  ASSUME TypeOK, SoundInv, NEW d \in net, OpenCircuit(d)
  PROVE  SoundInv'
<1>1. d \in Datagram
  BY DEF TypeOK
<1> DEFINE s == d.sid
           r == d.from
<1>2. /\ s \in Session /\ r \in Remote /\ AgentOf[s] \in Agent
      /\ circuit[s] = None
      /\ circuit' = [circuit EXCEPT ![s] = r]
      /\ byRemote' = [byRemote EXCEPT ![r] = s]
      /\ byAgent' = [byAgent EXCEPT ![AgentOf[s]] = s]
      /\ disk' = disk
  BY <1>1, AgentOfAssumption DEF OpenCircuit, Register, Datagram
<1>3. ASSUME NEW q \in Remote, byRemote'[q] # None
      PROVE  circuit'[byRemote'[q]] = q
  BY <1>2, <1>3, NoneAssumption DEF SoundInv, Sound, Running, TypeOK
<1>4. ASSUME NEW a \in Agent, byAgent'[a] # None
      PROVE  circuit'[byAgent'[a]] # None /\ AgentOf[byAgent'[a]] = a
  BY <1>2, <1>4, NoneAssumption DEF SoundInv, Sound, Running, TypeOK
<1>5. QED
  BY <1>2, <1>3, <1>4 DEF SoundInv, Sound, Running

LEMMA SoundLogout ==
  ASSUME TypeOK, SoundInv, NEW d \in net, LogoutRequest(d)
  PROVE  SoundInv'
<1> DEFINE s == SessionOf(d)
<1>1. s \in Session /\ circuit[s] \in Remote
  BY RoutedFacts DEF LogoutRequest
<1>2. /\ AgentOf[s] \in Agent
      /\ byRemote' = [byRemote EXCEPT ![circuit[s]] = None]
      /\ byAgent' = [byAgent EXCEPT ![AgentOf[s]] = None]
      /\ circuit' = [circuit EXCEPT ![s] = None]
      /\ disk' = disk
  BY <1>1, AgentOfAssumption DEF LogoutRequest, ForgetSession
<1>3. ASSUME NEW q \in Remote, byRemote'[q] # None
      PROVE  circuit'[byRemote'[q]] = q
  BY <1>1, <1>2, <1>3 DEF SoundInv, Sound, Running, TypeOK
<1>4. ASSUME NEW a \in Agent, byAgent'[a] # None
      PROVE  circuit'[byAgent'[a]] # None /\ AgentOf[byAgent'[a]] = a
  BY <1>1, <1>2, <1>4 DEF SoundInv, Sound, Running, TypeOK
<1>5. QED
  BY <1>2, <1>3, <1>4 DEF SoundInv, Sound, Running

LEMMA SoundRestart ==
  ASSUME TypeOK, SoundInv, NEW file \in ServerState, Restart(file), Sound(file)
  PROVE  SoundInv'
BY RestartRunning DEF SoundInv, Sound

(* No index entry leads to a session that is gone or is somebody else's.    *)
THEOREM IndexesAreSound == Spec => []IndexesSound
<1>1. Init => SoundInv
  BY DEF Init, SoundInv, Sound, Running, FreshState
<1>2. TypeOK /\ SoundInv /\ [Next]_vars => SoundInv'
  <2> SUFFICES ASSUME TypeOK, SoundInv, [Next]_vars PROVE SoundInv'
    OBVIOUS
  <2>1. CASE UNCHANGED <<server, disk>>
    BY <2>1 DEF SoundInv, Sound, Running, server
  <2>2. CASE \E d \in net : OpenCircuit(d)
    BY <2>2, SoundOpen
  <2>3. CASE \E d \in net : LogoutRequest(d)
    BY <2>3, SoundLogout
  <2>4. CASE \E d \in net : CompleteAgentMovement(d)
    BY <2>4 DEF CompleteAgentMovement, SoundInv, Sound, Running
  <2>5. CASE Restart(Running)
    BY <2>5, RunningType, SoundRestart DEF SoundInv
  <2>6. CASE CanCrash /\ Restart(disk)
    BY <2>6, SoundRestart DEF SoundInv, TypeOK
  <2>7. CASE CanCrash /\ Restart([Running EXCEPT !.avatars = NoAvatars])
    <3>1. Sound([Running EXCEPT !.avatars = NoAvatars])
      BY DEF SoundInv, Sound, Running
    <3>2. QED
      BY <2>7, <3>1, RunningWithoutSceneType, SoundRestart
  <2>8. CASE CanCrash /\ Restart(FreshState)
    <3>1. Sound(FreshState)
      BY DEF Sound, FreshState
    <3>2. QED
      BY <2>8, <3>1, FreshStateType, SoundRestart
  <2>9. QED
    BY <2>1, <2>2, <2>3, <2>4, <2>5, <2>6, <2>7, <2>8, StepCases
<1>3. SoundInv => IndexesSound
  BY DEF SoundInv, IndexesSound
<1>4. QED
  BY <1>1, <1>2, <1>3, TypeCorrect, PTL DEF Spec

-----------------------------------------------------------------------------
(* LocalIDs: the counter is saved together with the scene it numbered.      *)
IdsInv ==
  /\ DistinctIds(Running) /\ nextLocalId > 0
  /\ DistinctIds(disk) /\ disk.nextLocalId > 0

LEMMA IdsRestart ==
  ASSUME TypeOK, IdsInv, NEW file \in ServerState, Restart(file),
         DistinctIds(file), file.nextLocalId > 0
  PROVE  IdsInv'
<1>1. Running' = file /\ disk' = file
  BY RestartRunning
<1>2. nextLocalId' = file.nextLocalId
  BY DEF Restart, Load
<1>3. QED
  BY <1>1, <1>2 DEF IdsInv, DistinctIds

LEMMA IdsStep ==
  ASSUME TypeOK, IdsInv, [Next]_vars PROVE IdsInv'
<1>1. CASE UNCHANGED <<server, disk>>
  BY <1>1 DEF IdsInv, DistinctIds, Running, server
<1>2. CASE \E d \in net : OpenCircuit(d)
  BY <1>2 DEF OpenCircuit, IdsInv, DistinctIds, Running
<1>3. CASE \E d \in net : LogoutRequest(d)
  <2>1. PICK d \in net : LogoutRequest(d)
    BY <1>3
  <2>2. AgentOf[SessionOf(d)] \in Agent
    BY <2>1, RoutedFacts, AgentOfAssumption DEF LogoutRequest
  <2>3. /\ avatars' = [avatars EXCEPT ![AgentOf[SessionOf(d)]] = 0]
        /\ nextLocalId' = nextLocalId /\ disk' = disk
    BY <2>1 DEF LogoutRequest, RemoveAvatar, NoAvatar
  <2>4. QED
    BY <2>2, <2>3
    DEF IdsInv, DistinctIds, Running, TypeOK, NoAvatar
<1>4. CASE \E d \in net : CompleteAgentMovement(d)
  <2>1. PICK d \in net : CompleteAgentMovement(d)
    BY <1>4
  <2>2. AgentOf[SessionOf(d)] \in Agent
    BY <2>1, RoutedFacts, AgentOfAssumption DEF CompleteAgentMovement
  <2>3. /\ avatars' = [avatars EXCEPT ![AgentOf[SessionOf(d)]] = nextLocalId]
        /\ nextLocalId' = nextLocalId + 1 /\ disk' = disk
    BY <2>1 DEF CompleteAgentMovement, AllocateLocalId
  <2>4. QED
    BY <2>2, <2>3
    DEF IdsInv, DistinctIds, Running, TypeOK, NoAvatar
<1>5. CASE Restart(Running)
  <2>1. Running.nextLocalId > 0
    BY DEF IdsInv, Running
  <2>2. QED
    BY <1>5, <2>1, RunningType, IdsRestart DEF IdsInv
<1>6. CASE CanCrash /\ Restart(disk)
  BY <1>6, IdsRestart DEF IdsInv, TypeOK
<1>7. CASE CanCrash /\ Restart([Running EXCEPT !.avatars = NoAvatars])
  <2> DEFINE file == [Running EXCEPT !.avatars = NoAvatars]
  <2>1. file.nextLocalId = nextLocalId /\ file.avatars = NoAvatars
    BY DEF Running
  <2>2. DistinctIds(file) /\ file.nextLocalId > 0
    BY <2>1 DEF DistinctIds, IdsInv, NoAvatars, NoAvatar
  <2>3. QED
    BY <1>7, <2>2, RunningWithoutSceneType, IdsRestart
<1>8. CASE CanCrash /\ Restart(FreshState)
  <2>1. DistinctIds(FreshState) /\ FreshState.nextLocalId > 0
    BY DEF DistinctIds, FreshState, NoAvatars, NoAvatar, FirstLocalId
  <2>2. QED
    BY <1>8, <2>1, FreshStateType, IdsRestart
<1>9. QED
  BY <1>1, <1>2, <1>3, <1>4, <1>5, <1>6, <1>7, <1>8, StepCases

(* No two avatars of the scene ever share a LocalID, across any logins,     *)
(* restarts and crashes.                                                    *)
THEOREM LocalIdsAreDistinct == Spec => []LocalIdsDistinct
<1>1. Init => IdsInv
  BY DEF Init, IdsInv, DistinctIds, Running, FreshState, NoAvatars,
         NoAvatar, FirstLocalId
<1>2. TypeOK /\ IdsInv /\ [Next]_vars => IdsInv'
  BY IdsStep
<1>3. IdsInv => LocalIdsDistinct
  BY DEF IdsInv, LocalIdsDistinct
<1>4. QED
  BY <1>1, <1>2, <1>3, TypeCorrect, PTL DEF Spec

-----------------------------------------------------------------------------
(* When no agent is logged in twice, every live session is the one its      *)
(* agent's entry leads to, and only agents of live sessions have avatars.   *)
OwnEntry(st) ==
  /\ \A s \in Session : st.circuit[s] # None => st.byAgent[AgentOf[s]] = s
  /\ \A a \in Agent : st.avatars[a] # NoAvatar => st.byAgent[a] # None

OwnEntryInv == OwnEntry(Running) /\ OwnEntry(disk)

LEMMA OwnEntryRestart ==
  ASSUME NEW file \in ServerState, Restart(file), OwnEntry(file)
  PROVE  OwnEntryInv'
BY RestartRunning DEF OwnEntryInv, OwnEntry

LEMMA OwnEntryStep ==
  ASSUME OneViewerPerAgent, TypeOK, OwnEntryInv, [Next]_vars PROVE OwnEntryInv'
<1> USE DEF OwnEntryInv, OwnEntry, Running
<1>1. CASE UNCHANGED <<server, disk>>
  BY <1>1 DEF server
<1>2. CASE \E d \in net : OpenCircuit(d)
  <2>1. PICK d \in net : OpenCircuit(d)
    BY <1>2
  <2>2. /\ d.sid \in Session
        /\ circuit' = [circuit EXCEPT ![d.sid] = d.from]
        /\ byAgent' = [byAgent EXCEPT ![AgentOf[d.sid]] = d.sid]
        /\ UNCHANGED <<avatars, disk>>
    BY <2>1 DEF OpenCircuit, Register, TypeOK, Datagram
  <2>3. QED
    BY <2>2, AgentOfAssumption, NoneAssumption DEF OneViewerPerAgent, TypeOK
<1>3. CASE \E d \in net : LogoutRequest(d)
  <2>1. PICK d \in net : LogoutRequest(d)
    BY <1>3
  <2> DEFINE s == SessionOf(d)
  <2>2. s \in Session
    BY <2>1, RoutedFacts DEF LogoutRequest
  <2>3. /\ byAgent' = [byAgent EXCEPT ![AgentOf[s]] = None]
        /\ circuit' = [circuit EXCEPT ![s] = None]
        /\ avatars' = [avatars EXCEPT ![AgentOf[s]] = NoAvatar]
        /\ disk' = disk
    BY <2>1 DEF LogoutRequest, ForgetSession, RemoveAvatar
  <2>4. QED
    BY <2>2, <2>3, AgentOfAssumption DEF OneViewerPerAgent, TypeOK
<1>4. CASE \E d \in net : CompleteAgentMovement(d)
  <2>1. PICK d \in net : CompleteAgentMovement(d)
    BY <1>4
  <2> DEFINE s == SessionOf(d)
  <2>2. s \in Session /\ circuit[s] # None
    BY <2>1, RoutedFacts, NoneAssumption DEF CompleteAgentMovement
  <2>3. /\ avatars' = [avatars EXCEPT ![AgentOf[s]] = nextLocalId]
        /\ UNCHANGED <<circuit, byAgent, disk>>
    BY <2>1 DEF CompleteAgentMovement
  <2>4. byAgent[AgentOf[s]] # None
    BY <2>2, NoneAssumption
  <2>5. QED
    BY <2>3, <2>4 DEF TypeOK
<1>5. CASE Restart(Running)
  BY <1>5, RunningType, OwnEntryRestart
<1>6. CASE CanCrash /\ Restart(disk)
  BY <1>6, OwnEntryRestart DEF TypeOK
<1>7. CASE CanCrash /\ Restart([Running EXCEPT !.avatars = NoAvatars])
  <2>1. OwnEntry([Running EXCEPT !.avatars = NoAvatars])
    BY DEF NoAvatars
  <2>2. QED
    BY <1>7, <2>1, RunningWithoutSceneType, OwnEntryRestart
<1>8. CASE CanCrash /\ Restart(FreshState)
  <2>1. OwnEntry(FreshState)
    BY DEF FreshState, NoAvatars
  <2>2. QED
    BY <1>8, <2>1, FreshStateType, OwnEntryRestart
<1>9. QED
  BY <1>1, <1>2, <1>3, <1>4, <1>5, <1>6, <1>7, <1>8, StepCases

(* With one viewer per agent the check of smv_get_session_id_agent_id never *)
(* fails for an avatar of the scene, whatever the network and restarts do.  *)
THEOREM AvatarsHaveSessions == OneViewerPerAgent /\ Spec => []SceneResolvable
<1> SUFFICES ASSUME OneViewerPerAgent PROVE Spec => []SceneResolvable
  OBVIOUS
<1>1. Init => OwnEntryInv
  BY DEF Init, OwnEntryInv, OwnEntry, Running, FreshState, NoAvatars
<1>2. TypeOK /\ OwnEntryInv /\ [Next]_vars => OwnEntryInv'
  BY OwnEntryStep
<1>3. OwnEntryInv => SceneResolvable
  BY DEF OwnEntryInv, OwnEntry, Running, SceneResolvable
<1>4. QED
  BY <1>1, <1>2, <1>3, TypeCorrect, PTL DEF Spec

-----------------------------------------------------------------------------
(* What is on its way was sent by a viewer from one of its addresses, and   *)
(* whoever sent a LogoutRequest has asked to leave, however late it comes.  *)
TrafficInv ==
  /\ \A d \in net : d.from \in RemotesOf[d.sid]
  /\ \A d \in net : d.kind = "LogoutRequest" => d.sid \in left

LEMMA NetSteps ==
  ASSUME [Next]_vars
  PROVE  \/ net' \subseteq net /\ left' = left
         \/ \E k \in Kind, s \in Session, r \in Remote : ViewerSends(k, s, r)
BY DEF Next, vars, Lose, Handle, Deliver, OpenCircuit, DuplicateCircuit,
       Unrouted, Routed, CompleteAgentMovement, AgentUpdate, LogoutRequest,
       AgentWearablesRequest, WearablesReceived, Interrupt, Crash,
       CrashWhileSaving, Restart, viewer

LEMMA TrafficStep ==
  ASSUME TrafficInv, [Next]_vars
  PROVE  TrafficInv'
<1>1. CASE net' \subseteq net /\ left' = left
  BY <1>1 DEF TrafficInv
<1>2. CASE \E k \in Kind, s \in Session, r \in Remote : ViewerSends(k, s, r)
  BY <1>2 DEF TrafficInv, ViewerSends
<1>3. QED
  BY <1>1, <1>2, NetSteps

(* Only LogoutRequest ends a session while the process goes on.             *)
LEMMA EndsByLogout ==
  ASSUME TypeOK, [Next]_vars, restarts' = restarts,
         NEW s \in Session, circuit[s] # None, circuit'[s] = None
  PROVE  \E d \in net : LogoutRequest(d)
<1>1. ASSUME UNCHANGED circuit
      PROVE  FALSE
  BY <1>1
<1>2. ASSUME NEW d \in net, OpenCircuit(d)
      PROVE  FALSE
  BY <1>2, NoneAssumption DEF OpenCircuit, Register, TypeOK, Datagram
<1>3. ASSUME NEW file, Restart(file)
      PROVE  FALSE
  BY <1>3 DEF Restart, TypeOK
<1>4. ASSUME NEW d \in net, CompleteAgentMovement(d)
      PROVE  FALSE
  BY <1>1, <1>4 DEF CompleteAgentMovement
<1>5. QED
  BY <1>1, <1>2, <1>3, <1>4, StepCases DEF server

LEMMA EndsAtAddressStep ==
  ASSUME TypeOK, IndexesSound, TrafficInv, [Next]_vars, restarts' = restarts,
         NEW s \in Session, circuit[s] # None, circuit'[s] = None
  PROVE  /\ byRemote[circuit[s]] = s
         /\ \E t \in left : circuit[s] \in RemotesOf[t]
<1>1. PICK d \in net : LogoutRequest(d)
  BY EndsByLogout
<1>2. /\ d \in Datagram /\ SessionOf(d) \in Session
      /\ byRemote[d.from] = SessionOf(d)
  BY <1>1, RoutedFacts DEF LogoutRequest
<1>3. SessionOf(d) = s
  BY <1>1 DEF LogoutRequest, ForgetSession, TypeOK
<1>4. circuit[s] = d.from
  BY <1>2, <1>3, NoneAssumption DEF IndexesSound, Sound, Running, Datagram
<1>5. d.sid \in left /\ d.from \in RemotesOf[d.sid]
  BY <1>1 DEF LogoutRequest, Routed, TrafficInv
<1>6. QED
  BY <1>2, <1>3, <1>4, <1>5

(* Whoever shares an address, and from whatever file the process was last   *)
(* started: a logout ends only the session that opened the last circuit at  *)
(* its address, and a viewer that may send from there has asked for it.     *)
THEOREM SessionsEndAtTheirAddress == Spec => EndsAtItsAddress
<1>1. Init => TrafficInv
  BY DEF Init, TrafficInv
<1>2. TrafficInv /\ [Next]_vars => TrafficInv'
  BY TrafficStep
<1>3. TypeOK /\ IndexesSound /\ TrafficInv /\ [Next]_vars
        => [\A s \in Session :
              circuit[s] # None /\ circuit'[s] = None /\ restarts' = restarts =>
                /\ byRemote[circuit[s]] = s
                /\ \E t \in left : circuit[s] \in RemotesOf[t]]_vars
  BY EndsAtAddressStep
<1>4. QED
  BY <1>1, <1>2, <1>3, TypeCorrect, IndexesAreSound, PTL DEF Spec, EndsAtItsAddress

-----------------------------------------------------------------------------
(* When every viewer has an agent and addresses of its own, both indexes    *)
(* lead back to every live session, in memory and in every file a crash may *)
(* leave: nobody else's circuit or logout touches its two entries.          *)
Indexed(st) ==
  \A s \in Session : st.circuit[s] # None =>
    /\ st.circuit[s] \in RemotesOf[s]
    /\ st.byRemote[st.circuit[s]] = s
    /\ st.byAgent[AgentOf[s]] = s

IndexedInv ==
  /\ Indexed(Running) /\ Indexed(disk)
  /\ \A d \in net : d.from \in RemotesOf[d.sid]

LEMMA OwnAddressStep ==
  ASSUME IndexedInv, [Next]_vars
  PROVE  \A d \in net' : d.from \in RemotesOf[d.sid]
<1>1. CASE net' \subseteq net
  BY <1>1 DEF IndexedInv
<1>2. CASE \E k \in Kind, s \in Session, r \in Remote : ViewerSends(k, s, r)
  BY <1>2 DEF IndexedInv, ViewerSends
<1>3. QED
  BY <1>1, <1>2, NetSteps

LEMMA IndexedOpen ==
  ASSUME OneViewerPerAgent, OneViewerPerRemote, TypeOK, IndexedInv,
         NEW d \in net, OpenCircuit(d)
  PROVE  Indexed(Running)'
<1> DEFINE s == d.sid
           r == d.from
<1>1. /\ s \in Session /\ r \in RemotesOf[s] /\ r \in Remote
      /\ AgentOf[s] \in Agent
  BY AgentOfAssumption DEF TypeOK, Datagram, IndexedInv
<1>2. /\ circuit' = [circuit EXCEPT ![s] = r]
      /\ byRemote' = [byRemote EXCEPT ![r] = s]
      /\ byAgent' = [byAgent EXCEPT ![AgentOf[s]] = s]
  BY DEF OpenCircuit, Register
<1>3. ASSUME NEW t \in Session, circuit'[t] # None
      PROVE  /\ circuit'[t] \in RemotesOf[t]
             /\ byRemote'[circuit'[t]] = t
             /\ byAgent'[AgentOf[t]] = t
  <2>1. CASE t = s
    BY <1>1, <1>2, <2>1 DEF TypeOK
  <2>2. CASE t # s
    <3>1. circuit'[t] = circuit[t] /\ circuit[t] \in Remote
      BY <1>2, <1>3, <2>2 DEF TypeOK
    <3>2. /\ circuit[t] \in RemotesOf[t]
          /\ byRemote[circuit[t]] = t
          /\ byAgent[AgentOf[t]] = t
      BY <1>3, <3>1 DEF IndexedInv, Indexed, Running
    <3>3. circuit[t] # r
      BY <1>1, <2>2, <3>2 DEF OneViewerPerRemote
    <3>4. AgentOf[t] # AgentOf[s] /\ AgentOf[t] \in Agent
      BY <1>1, <2>2, AgentOfAssumption DEF OneViewerPerAgent
    <3>5. QED
      BY <1>1, <1>2, <3>1, <3>2, <3>3, <3>4 DEF TypeOK
  <2>3. QED
    BY <2>1, <2>2
<1>4. QED
  BY <1>3 DEF Indexed, Running

LEMMA IndexedLogout ==
  ASSUME OneViewerPerAgent, OneViewerPerRemote, TypeOK, IndexedInv,
         NEW d \in net, LogoutRequest(d)
  PROVE  Indexed(Running)'
<1> DEFINE s == SessionOf(d)
<1>1. s \in Session /\ circuit[s] \in Remote /\ AgentOf[s] \in Agent
  BY RoutedFacts, AgentOfAssumption DEF LogoutRequest
<1>2. /\ byRemote' = [byRemote EXCEPT ![circuit[s]] = None]
      /\ byAgent' = [byAgent EXCEPT ![AgentOf[s]] = None]
      /\ circuit' = [circuit EXCEPT ![s] = None]
  BY DEF LogoutRequest, ForgetSession
<1>3. circuit[s] \in RemotesOf[s]
  BY <1>1, NoneAssumption DEF IndexedInv, Indexed, Running
<1>4. ASSUME NEW t \in Session, circuit'[t] # None
      PROVE  /\ circuit'[t] \in RemotesOf[t]
             /\ byRemote'[circuit'[t]] = t
             /\ byAgent'[AgentOf[t]] = t
  <2>1. t # s /\ circuit'[t] = circuit[t] /\ circuit[t] \in Remote
    BY <1>1, <1>2, <1>4 DEF TypeOK
  <2>2. /\ circuit[t] \in RemotesOf[t]
        /\ byRemote[circuit[t]] = t
        /\ byAgent[AgentOf[t]] = t
    BY <1>4, <2>1 DEF IndexedInv, Indexed, Running
  <2>3. circuit[t] # circuit[s]
    BY <1>1, <1>3, <2>1, <2>2 DEF OneViewerPerRemote
  <2>4. AgentOf[t] # AgentOf[s] /\ AgentOf[t] \in Agent
    BY <1>1, <2>1, AgentOfAssumption DEF OneViewerPerAgent
  <2>5. QED
    BY <1>1, <1>2, <2>1, <2>2, <2>3, <2>4 DEF TypeOK
<1>5. QED
  BY <1>4 DEF Indexed, Running

(* With an agent and addresses per viewer no live session is ever left      *)
(* without its entry in either index, also after a crash.                   *)
THEOREM SessionsStayIndexed ==
  OneViewerPerAgent /\ OneViewerPerRemote /\ Spec => []LiveSessionsIndexed
<1> SUFFICES ASSUME OneViewerPerAgent, OneViewerPerRemote
             PROVE  Spec => []LiveSessionsIndexed
  OBVIOUS
<1>1. Init => IndexedInv
  BY DEF Init, IndexedInv, Indexed, Running, FreshState
<1>2. TypeOK /\ IndexedInv /\ [Next]_vars => IndexedInv'
  <2> SUFFICES ASSUME TypeOK, IndexedInv, [Next]_vars PROVE IndexedInv'
    OBVIOUS
  <2>1. \A d \in net' : d.from \in RemotesOf[d.sid]
    BY OwnAddressStep
  <2>2. SUFFICES Indexed(Running)' /\ Indexed(disk)'
    BY <2>1, Zenon DEF IndexedInv
  <2>3. CASE UNCHANGED <<server, disk>>
    BY <2>3 DEF IndexedInv, Indexed, Running, server
  <2>4. CASE \E d \in net : OpenCircuit(d)
    <3>1. disk' = disk
      BY <2>4 DEF OpenCircuit
    <3>2. QED
      BY <2>4, <3>1, IndexedOpen DEF IndexedInv, Indexed
  <2>5. CASE \E d \in net : LogoutRequest(d)
    <3>1. disk' = disk
      BY <2>5 DEF LogoutRequest
    <3>2. QED
      BY <2>5, <3>1, IndexedLogout DEF IndexedInv, Indexed
  <2>6. CASE \E d \in net : CompleteAgentMovement(d)
    BY <2>6 DEF CompleteAgentMovement, IndexedInv, Indexed, Running
  <2>7. ASSUME NEW file \in ServerState, Restart(file), Indexed(file)
        PROVE  Indexed(Running)' /\ Indexed(disk)'
    BY <2>7, RestartRunning DEF Indexed
  <2>8. Indexed([Running EXCEPT !.avatars = NoAvatars])
    BY DEF IndexedInv, Indexed, Running
  <2>9. /\ Running \in ServerState /\ disk \in ServerState
        /\ [Running EXCEPT !.avatars = NoAvatars] \in ServerState
    BY RunningType, RunningWithoutSceneType DEF TypeOK
  <2>10. Indexed(Running) /\ Indexed(disk)
    BY DEF IndexedInv
  <2>11. Indexed(FreshState) /\ FreshState \in ServerState
    BY FreshStateType DEF Indexed, FreshState
  <2>12. QED
    BY <2>3, <2>4, <2>5, <2>6, <2>7, <2>8, <2>9, <2>10, <2>11, StepCases
<1>3. TypeOK /\ IndexedInv => LiveSessionsIndexed
  BY DEF IndexedInv, Indexed, Running, LiveSessionsIndexed
<1>4. QED
  BY <1>1, <1>2, <1>3, TypeCorrect, PTL DEF Spec

-----------------------------------------------------------------------------
(* What viewers are told.  Only two handlers tell them anything, and what   *)
(* they say of an agent is the LocalID its avatar has then.                 *)
LEMMA EnterFacts ==
  ASSUME TypeOK, NEW d \in net, CompleteAgentMovement(d)
  PROVE  /\ SessionOf(d) \in Session
         /\ circuit[SessionOf(d)] # None
         /\ AgentOf[SessionOf(d)] \in Agent
         /\ avatars' = [avatars EXCEPT ![AgentOf[SessionOf(d)]] = nextLocalId]
         /\ nextLocalId' = nextLocalId + 1
         /\ UNCHANGED <<circuit, byAgent>>
BY RoutedFacts, AgentOfAssumption, NoneAssumption
DEF CompleteAgentMovement, AllocateLocalId

LEMMA EnterTells ==
  ASSUME TypeOK, NEW d \in net, CompleteAgentMovement(d),
         NEW t \in Session, NEW b \in Agent
  PROVE  view'[t][b] \in {view[t][b], avatars'[b]}
<1> DEFINE s == SessionOf(d)
           a == AgentOf[s]
           av == [avatars EXCEPT ![a] = nextLocalId]
<1>1. PICK reached \in ReachedByAdd(av, a) :
        view' = [u \in Session |-> [c \in Agent |->
                  IF \/ c = a /\ \E e \in reached : byAgent[e] = u
                     \/ c \in reached /\ byAgent[a] = u
                     \/ c = a /\ u = s /\ AllResolvable(av)
                  THEN av[c] ELSE view[u][c]]]
  BY Zenon DEF CompleteAgentMovement
<1>2. avatars' = av
  BY DEF CompleteAgentMovement
<1>3. QED
  BY <1>1, <1>2, Zenon

LEMMA EnterTellsAll ==
  ASSUME TypeOK, NEW d \in net, CompleteAgentMovement(d), AllResolvable(avatars'),
         NEW x \in Present(avatars'), NEW y \in Present(avatars'),
         AgentOf[SessionOf(d)] \in Present(avatars'),
         AgentOf[SessionOf(d)] \in {x, y}, byAgent[x] \in Session
  PROVE  view'[byAgent[x]][y] = avatars'[y]
<1> DEFINE s == SessionOf(d)
           a == AgentOf[s]
           av == [avatars EXCEPT ![a] = nextLocalId]
<1>1. PICK reached \in ReachedByAdd(av, a) :
        view' = [u \in Session |-> [c \in Agent |->
                  IF \/ c = a /\ \E e \in reached : byAgent[e] = u
                     \/ c \in reached /\ byAgent[a] = u
                     \/ c = a /\ u = s /\ AllResolvable(av)
                  THEN av[c] ELSE view[u][c]]]
  BY Zenon DEF CompleteAgentMovement
<1>2. avatars' = av
  BY DEF CompleteAgentMovement
<1>3. reached = Present(av)
  BY <1>1, <1>2, Zenon DEF ReachedByAdd
<1>4. x \in Agent /\ y \in Agent
  BY DEF Present
<1>5. \/ y = a /\ \E e \in reached : byAgent[e] = byAgent[x]
      \/ y \in reached /\ byAgent[a] = byAgent[x]
  BY <1>2, <1>3
<1>6. QED
  BY <1>1, <1>2, <1>4, <1>5, Zenon

LEMMA MoveTells ==
  ASSUME TypeOK, NEW d \in net, AgentUpdate(d),
         NEW t \in Session, NEW b \in Agent
  PROVE  view'[t][b] \in {view[t][b], avatars[b]}
<1>1. CASE UNCHANGED view
  BY <1>1, Zenon
<1>2. CASE ~UNCHANGED view
  <2>1. PICK reached \in ReachedByMove(avatars) : view' =
          [u \in Session |-> [c \in Agent |->
            IF c = AgentOf[d.sid] /\ \E e \in reached : byAgent[e] = u
            THEN avatars[AgentOf[d.sid]] ELSE view[u][c]]]
    BY <1>2, Zenon DEF AgentUpdate
  <2>2. QED
    BY <2>1, Zenon
<1>3. QED
  BY <1>1, <1>2

LEMMA ViewSteps ==
  ASSUME TypeOK, [Next]_vars
  PROVE  \/ UNCHANGED view
         \/ \E d \in net : CompleteAgentMovement(d)
         \/ \E d \in net : AgentUpdate(d) /\ UNCHANGED <<server, disk>>
BY DEF Next, vars, viewer, ViewerSends, Lose, Handle, OpenCircuit, DuplicateCircuit,
       Unrouted, AgentUpdate, LogoutRequest, AgentWearablesRequest,
       WearablesReceived, Interrupt, Crash, CrashWhileSaving, Restart

-----------------------------------------------------------------------------
(* Every id a viewer was told lies below the counter, and whoever has or    *)
(* had it is the same agent.  A crash may take the counter back.            *)
NamesInv ==
  /\ \A s \in Session, a \in Agent : view[s][a] < nextLocalId
  /\ \A s \in Session, a, b \in Agent :
       view[s][a] = avatars[b] /\ view[s][a] # NoAvatar => a = b
  /\ IdsNameOneAgent

LEMMA NamesEnter ==
  ASSUME TypeOK, IdsInv, NamesInv, NEW d \in net, CompleteAgentMovement(d)
  PROVE  NamesInv'
<1> DEFINE a == AgentOf[SessionOf(d)]
<1>1. /\ a \in Agent
      /\ avatars' = [avatars EXCEPT ![a] = nextLocalId]
      /\ nextLocalId' = nextLocalId + 1
      /\ nextLocalId \in Nat
  BY EnterFacts DEF TypeOK
<1>2. \A t \in Session, b \in Agent : view'[t][b] \in {view[t][b], avatars'[b]}
  BY EnterTells
<1>3. /\ \A b \in Agent : avatars[b] \in Nat /\ avatars[b] < nextLocalId
      /\ \A b, c \in Agent : avatars[b] = avatars[c] /\ avatars[b] # 0 => b = c
  BY DEF IdsInv, DistinctIds, Running, TypeOK, NoAvatar
<1>4. /\ \A t \in Session, b \in Agent : view[t][b] \in Nat /\ view[t][b] < nextLocalId
      /\ \A t \in Session, b, c \in Agent :
           view[t][b] = avatars[c] /\ view[t][b] # 0 => b = c
      /\ \A t, u \in Session, b, c \in Agent :
           view[t][b] = view[u][c] /\ view[t][b] # 0 => b = c
  BY DEF NamesInv, IdsNameOneAgent, TypeOK, NoAvatar
<1>5. \A b \in Agent : avatars'[b] = IF b = a THEN nextLocalId ELSE avatars[b]
  BY <1>1 DEF TypeOK
<1>6. \A b, c \in Agent : avatars'[b] = avatars'[c] /\ avatars'[b] # 0 => b = c
  BY <1>1, <1>3, <1>5
<1>7. \A t \in Session, b, c \in Agent :
        view[t][b] = avatars'[c] /\ view[t][b] # 0 => b = c
  BY <1>1, <1>4, <1>5
<1>8. \A t \in Session, b \in Agent : view'[t][b] < nextLocalId'
  BY <1>1, <1>2, <1>3, <1>4, <1>5
<1>9. ASSUME NEW t \in Session, NEW b \in Agent, NEW c \in Agent,
             view'[t][b] = avatars'[c], view'[t][b] # NoAvatar
      PROVE  b = c
  BY <1>2, <1>6, <1>7, <1>9 DEF NoAvatar
<1>10. ASSUME NEW t \in Session, NEW u \in Session, NEW b \in Agent, NEW c \in Agent,
             view'[t][b] = view'[u][c], view'[t][b] # NoAvatar
      PROVE  b = c
  <2>1. view'[t][b] \in {view[t][b], avatars'[b]} /\ view'[u][c] \in {view[u][c], avatars'[c]}
    BY <1>2
  <2>2. QED
    BY <1>4, <1>6, <1>7, <1>10, <2>1 DEF NoAvatar
<1>11. QED
  BY <1>8, <1>9, <1>10 DEF NamesInv, IdsNameOneAgent

LEMMA NamesMove ==
  ASSUME TypeOK, IdsInv, NamesInv, NEW d \in net, AgentUpdate(d),
         UNCHANGED <<server, disk>>
  PROVE  NamesInv'
<1>1. avatars' = avatars /\ nextLocalId' = nextLocalId
  BY DEF server
<1>2. \A t \in Session, b \in Agent : view'[t][b] \in {view[t][b], avatars[b]}
  BY MoveTells
<1>3. /\ \A b \in Agent : avatars[b] < nextLocalId
      /\ \A b, c \in Agent : avatars[b] = avatars[c] /\ avatars[b] # NoAvatar => b = c
  BY DEF IdsInv, DistinctIds, Running
<1>4. \A t \in Session, b \in Agent : view'[t][b] < nextLocalId'
  BY <1>1, <1>2, <1>3 DEF NamesInv
<1>5. ASSUME NEW t \in Session, NEW b \in Agent, NEW c \in Agent,
             view'[t][b] = avatars'[c], view'[t][b] # NoAvatar
      PROVE  b = c
  BY <1>1, <1>2, <1>3, <1>5 DEF NamesInv
<1>6. ASSUME NEW t \in Session, NEW u \in Session, NEW b \in Agent, NEW c \in Agent,
             view'[t][b] = view'[u][c], view'[t][b] # NoAvatar
      PROVE  b = c
  <2>1. view'[t][b] \in {view[t][b], avatars[b]} /\ view'[u][c] \in {view[u][c], avatars[c]}
    BY <1>2
  <2>2. QED
    BY <1>3, <1>6, <2>1 DEF NamesInv, IdsNameOneAgent
<1>7. QED
  BY <1>4, <1>5, <1>6 DEF NamesInv, IdsNameOneAgent

(* Without a crash a LocalID names one agent for ever: no viewer was ever   *)
(* told of two agents under the same id, whoever shares agents or           *)
(* addresses, and across saved restarts.                                    *)
THEOREM IdsNameOneAgentEver == ~CanCrash /\ Spec => []IdsNameOneAgent
<1> SUFFICES ASSUME ~CanCrash PROVE Spec => []IdsNameOneAgent
  OBVIOUS
<1>1. Init => IdsInv /\ NamesInv
  BY DEF Init, IdsInv, DistinctIds, NamesInv, IdsNameOneAgent, Running, FreshState,
         NoAvatars, NoAvatar, FirstLocalId
<1>2. TypeOK /\ IdsInv /\ [Next]_vars => IdsInv'
  BY IdsStep
<1>3. TypeOK /\ IdsInv /\ NamesInv /\ [Next]_vars => NamesInv'
  <2> SUFFICES ASSUME TypeOK, IdsInv, NamesInv, [Next]_vars PROVE NamesInv'
    OBVIOUS
  <2>1. CASE \E d \in net : CompleteAgentMovement(d)
    BY <2>1, NamesEnter
  <2>2. CASE \E d \in net : AgentUpdate(d) /\ UNCHANGED <<server, disk>>
    BY <2>2, NamesMove
  <2>3. CASE UNCHANGED view /\ ~\E d \in net : CompleteAgentMovement(d)
    <3>1. nextLocalId' = nextLocalId
      BY <2>3, StepCases DEF server, OpenCircuit, LogoutRequest, Restart, Load, Running
    <3>2. \A b \in Agent : avatars'[b] \in {avatars[b], NoAvatar}
      <4>1. CASE \E d \in net : LogoutRequest(d)
        <5>1. PICK d \in net : LogoutRequest(d)
          BY <4>1
        <5>2. avatars' = [avatars EXCEPT ![AgentOf[SessionOf(d)]] = NoAvatar]
          BY <5>1 DEF LogoutRequest, RemoveAvatar
        <5>3. QED
          BY <5>2 DEF TypeOK
      <4>2. CASE ~\E d \in net : LogoutRequest(d)
        BY <2>3, <4>2, StepCases DEF server, OpenCircuit, Restart, Load, Running
      <4>3. QED
        BY <4>1, <4>2
    <3>3. ASSUME NEW s \in Session, NEW a \in Agent, NEW b \in Agent,
                 view'[s][a] = avatars'[b], view'[s][a] # NoAvatar
          PROVE  a = b
      BY <2>3, <3>2, <3>3 DEF NamesInv
    <3>4. QED
      BY <2>3, <3>1, <3>3 DEF NamesInv, IdsNameOneAgent
  <2>4. QED
    BY <2>1, <2>2, <2>3, ViewSteps
<1>4. NamesInv => IdsNameOneAgent
  BY DEF NamesInv
<1>5. QED
  BY <1>1, <1>2, <1>3, <1>4, TypeCorrect, PTL DEF Spec

-----------------------------------------------------------------------------
(* What the agents of the scene see of one another.                         *)
LEMMA SeesOpen ==
  ASSUME OneViewerPerAgent, TypeOK, IndexesSound, OwnEntryInv, EveryoneSeesEveryone,
         NEW d \in net, OpenCircuit(d)
  PROVE  EveryoneSeesEveryone'
<1>1. /\ d.sid \in Session /\ circuit[d.sid] = None
      /\ byAgent' = [byAgent EXCEPT ![AgentOf[d.sid]] = d.sid]
      /\ UNCHANGED <<avatars, view>>
  BY DEF OpenCircuit, Register, TypeOK, Datagram
<1>2. ASSUME NEW a \in Present(avatars) PROVE byAgent'[a] = byAgent[a] /\ Resolvable(a)
  <2>1. a \in Agent /\ byAgent[a] # None
    BY DEF Present, OwnEntryInv, OwnEntry, Running
  <2>2. byAgent[a] \in Session /\ circuit[byAgent[a]] # None /\ AgentOf[byAgent[a]] = a
    BY <2>1 DEF IndexesSound, Sound, Running, TypeOK
  <2>3. AgentOf[d.sid] # a
    BY <1>1, <2>2 DEF OneViewerPerAgent
  <2>4. QED
    BY <1>1, <2>1, <2>3 DEF TypeOK, Resolvable
<1>3. QED
  BY <1>1, <1>2 DEF EveryoneSeesEveryone

LEMMA SeesEnter ==
  ASSUME TypeOK, IdsInv, OwnEntryInv, EveryoneSeesEveryone,
         NEW d \in net, CompleteAgentMovement(d)
  PROVE  EveryoneSeesEveryone'
<1> DEFINE s == SessionOf(d)
           a == AgentOf[s]
<1>1. /\ s \in Session /\ circuit[s] # None /\ a \in Agent
      /\ avatars' = [avatars EXCEPT ![a] = nextLocalId]
      /\ byAgent' = byAgent
  BY EnterFacts
<1>2. \A b \in Agent : avatars'[b] = IF b = a THEN nextLocalId ELSE avatars[b]
  BY <1>1 DEF TypeOK
<1>3. nextLocalId # NoAvatar
  BY DEF IdsInv, NoAvatar
<1>4. byAgent[a] # None
  BY <1>1, NoneAssumption DEF OwnEntryInv, OwnEntry, Running
<1>5. AllResolvable(avatars') /\ a \in Present(avatars')
  BY <1>1, <1>2, <1>3, <1>4 DEF AllResolvable, Present, Resolvable, OwnEntryInv, OwnEntry, Running
<1>6. ASSUME NEW x \in Present(avatars'), NEW y \in Present(avatars')
      PROVE  view'[byAgent[x]][y] = avatars'[y]
  <2>1. x \in Agent /\ y \in Agent /\ byAgent[x] # None /\ byAgent[x] \in Session
    BY <1>5 DEF Present, AllResolvable, Resolvable, TypeOK
  <2>2. CASE a \in {x, y}
    BY <1>5, <2>1, <2>2, EnterTellsAll
  <2>3. CASE a \notin {x, y}
    <3>1. x \in Present(avatars) /\ y \in Present(avatars) /\ avatars'[y] = avatars[y]
      BY <1>2, <2>1, <2>3 DEF Present
    <3>2. view[byAgent[x]][y] = avatars[y]
      BY <2>1, <3>1 DEF EveryoneSeesEveryone, Resolvable
    <3>3. view'[byAgent[x]][y] \in {view[byAgent[x]][y], avatars'[y]}
      BY <2>1, EnterTells
    <3>4. QED
      BY <3>1, <3>2, <3>3
  <2>4. QED
    BY <2>2, <2>3
<1>7. QED
  BY <1>1, <1>6 DEF EveryoneSeesEveryone

LEMMA SeesMove ==
  ASSUME TypeOK, EveryoneSeesEveryone, NEW d \in net, AgentUpdate(d),
         UNCHANGED <<server, disk>>
  PROVE  EveryoneSeesEveryone'
<1>1. avatars' = avatars /\ byAgent' = byAgent
  BY DEF server
<1>2. ASSUME NEW x \in Present(avatars), NEW y \in Present(avatars), Resolvable(x)
      PROVE  view'[byAgent[x]][y] = avatars[y]
  <2>1. byAgent[x] \in Session /\ y \in Agent
    BY <1>2 DEF Present, Resolvable, TypeOK
  <2>2. view'[byAgent[x]][y] \in {view[byAgent[x]][y], avatars[y]}
    BY <2>1, MoveTells
  <2>3. QED
    BY <1>2, <2>2 DEF EveryoneSeesEveryone
<1>3. QED
  BY <1>1, <1>2 DEF EveryoneSeesEveryone, Resolvable

LEMMA SeesLogout ==
  ASSUME TypeOK, EveryoneSeesEveryone, NEW d \in net, LogoutRequest(d)
  PROVE  EveryoneSeesEveryone'
<1> DEFINE a == AgentOf[SessionOf(d)]
<1>1. /\ a \in Agent
      /\ byAgent' = [byAgent EXCEPT ![a] = None]
      /\ avatars' = [avatars EXCEPT ![a] = NoAvatar]
      /\ view' = view
  BY RoutedFacts, AgentOfAssumption DEF LogoutRequest, ForgetSession, RemoveAvatar, viewer
<1>2. \A b \in Present(avatars') : b \in Present(avatars) /\ b # a
                                   /\ avatars'[b] = avatars[b] /\ byAgent'[b] = byAgent[b]
  BY <1>1 DEF Present, TypeOK
<1>3. QED
  BY <1>1, <1>2 DEF EveryoneSeesEveryone, Resolvable

(* With one viewer per agent and no crash, everybody in the scene has been  *)
(* told of everybody in it under the ids they have now.                     *)
THEOREM EveryoneIsSeen ==
  OneViewerPerAgent /\ ~CanCrash /\ Spec => []EveryoneSeesEveryone
<1> SUFFICES ASSUME OneViewerPerAgent, ~CanCrash PROVE Spec => []EveryoneSeesEveryone
  OBVIOUS
<1>1. Init => IdsInv /\ OwnEntryInv /\ EveryoneSeesEveryone
  BY DEF Init, IdsInv, DistinctIds, OwnEntryInv, OwnEntry, EveryoneSeesEveryone, Present,
         Running, FreshState, NoAvatars, NoAvatar, FirstLocalId
<1>2. TypeOK /\ IdsInv /\ [Next]_vars => IdsInv'
  BY IdsStep
<1>3. TypeOK /\ OwnEntryInv /\ [Next]_vars => OwnEntryInv'
  BY OwnEntryStep
<1>4. TypeOK /\ IndexesSound /\ IdsInv /\ OwnEntryInv /\ EveryoneSeesEveryone /\ [Next]_vars
        => EveryoneSeesEveryone'
  <2> SUFFICES ASSUME TypeOK, IndexesSound, IdsInv, OwnEntryInv, EveryoneSeesEveryone,
                      [Next]_vars
               PROVE  EveryoneSeesEveryone'
    OBVIOUS
  <2>1. CASE \E d \in net : CompleteAgentMovement(d)
    BY <2>1, SeesEnter
  <2>2. CASE \E d \in net : AgentUpdate(d) /\ UNCHANGED <<server, disk>>
    BY <2>2, SeesMove
  <2>3. CASE \E d \in net : OpenCircuit(d)
    BY <2>3, SeesOpen
  <2>4. CASE \E d \in net : LogoutRequest(d)
    BY <2>4, SeesLogout
  <2>5. CASE UNCHANGED <<avatars, byAgent, view>>
    BY <2>5 DEF EveryoneSeesEveryone, Present, Resolvable
  <2>6. QED
    BY <2>1, <2>2, <2>3, <2>4, <2>5, ViewSteps, StepCases
    DEF server, Restart, Load, Running
<1>5. QED
  BY <1>1, <1>2, <1>3, <1>4, TypeCorrect, IndexesAreSound, PTL DEF Spec

-----------------------------------------------------------------------------
(* SendPath: induction. *)

\* The order of the numbers, which no set of them descends for ever.
Below == {p \in Nat \X Nat : p[1] < p[2]}

LEMMA BelowWF == IsWellFoundedOn(Below, Nat)
<1>1. OpToRel(<, Nat) = Below
  BY Zenon DEF OpToRel, Below
<1> QED BY <1>1, NatLessThanWellFounded, Zenon

LEMMA Least ==
  ASSUME NEW T, T \subseteq Nat, T # {}
  PROVE  \E x \in T : \A y \in T : x <= y
<1>1. PICK x \in T : \A y \in T : ~(<<y, x>> \in Below)
  BY BelowWF, WFMin, Zenon
<1>2. ASSUME NEW y \in T PROVE x <= y
  <2>1. y \in Nat /\ x \in Nat
    OBVIOUS
  <2>2. ~(<<y, x>> \in Below)
    BY <1>1
  <2> QED BY <2>1, <2>2 DEF Below
<1> QED BY <1>2

\* Induction over a set, since an operator cannot be a lemma's parameter here.
LEMMA Induct ==
  ASSUME NEW S, 0 \in S, \A n \in Nat : n \in S => n + 1 \in S
  PROVE  Nat \subseteq S
<1> SUFFICES ASSUME Nat \ S # {} PROVE FALSE
  OBVIOUS
<1>1. PICK x \in Nat \ S : \A y \in Nat \ S : x <= y
  BY Least
<1>2. x # 0 /\ x - 1 \in Nat
  BY <1>1
<1>3. x - 1 \in S
  BY <1>1, <1>2
<1> QED BY <1>1, <1>2, <1>3

\* And over the numbers up to one.
LEMMA InductTo ==
  ASSUME NEW len \in Nat, NEW S, 0 \in S, \A n \in 1 .. len : n - 1 \in S => n \in S
  PROVE  \A n \in 0 .. len : n \in S
<1> DEFINE T == {n \in Nat : n <= len => n \in S}
<1>1. 0 \in T
  OBVIOUS
<1>2. ASSUME NEW n \in Nat, n \in T PROVE n + 1 \in T
  <2>1. CASE n + 1 <= len
    <3>1. n \in S /\ n + 1 \in 1 .. len /\ (n + 1) - 1 = n
      BY <1>2, <2>1
    <3> QED BY <3>1, n + 1 \in S
  <2> QED BY <2>1
<1>3. Nat \subseteq T
  <2> HIDE DEF T
  <2> QED BY <1>1, <1>2, Induct
<1> QED BY <1>3

IsLoop(g, S, first, len, step) ==
  /\ g \in [0 .. len -> S]
  /\ g[0] = first
  /\ \A n \in 1 .. len : g[n] = step[<<g[n - 1], n>>]

LEMMA LoopExists ==
  ASSUME NEW S, NEW first \in S, NEW len \in Nat, NEW step \in [S \X (1 .. len) -> S]
  PROVE  \E g : IsLoop(g, S, first, len, step)
<1> DEFINE Good(k, g) == g[0] = first /\ \A n \in 1 .. k : g[n] = step[<<g[n - 1], n>>]
           T == {k \in 0 .. len : \E g \in [0 .. k -> S] : Good(k, g)}
<1>1. 0 \in T
  <2> DEFINE h == [k \in 0 .. 0 |-> first]
  <2>1. h \in [0 .. 0 -> S] /\ Good(0, h)
    OBVIOUS
  <2> HIDE DEF h, Good
  <2> QED BY <2>1
<1>2. ASSUME NEW k \in 1 .. len, k - 1 \in T PROVE k \in T
  <2>1. PICK g \in [0 .. k - 1 -> S] : Good(k - 1, g)
    BY <1>2
  <2> DEFINE h == [n \in 0 .. k |-> IF n = k THEN step[<<g[k - 1], k>>] ELSE g[n]]
  <2>2. h \in [0 .. k -> S]
    <3>1. step[<<g[k - 1], k>>] \in S
      OBVIOUS
    <3> QED BY <3>1
  <2>3. Good(k, h)
    <3>1. h[0] = first
      BY <2>1
    <3>2. ASSUME NEW n \in 1 .. k PROVE h[n] = step[<<h[n - 1], n>>]
      BY <2>1
    <3> QED BY <3>1, <3>2
  <2> HIDE DEF h, Good
  <2> QED BY <2>2, <2>3
<1>3. len \in T
  <2> HIDE DEF T
  <2> QED BY <1>1, <1>2, InductTo
<1> QED BY <1>3 DEF IsLoop

\* u is s, then t.
Joins(u, s, t) ==
  /\ Len(u) = Len(s) + Len(t)
  /\ \A i \in 1 .. Len(s) : u[i] = s[i]
  /\ \A i \in 1 .. Len(t) : u[Len(s) + i] = t[i]

LEMMA ConcatIs ==
  ASSUME NEW S, NEW s \in Seq(S), NEW t \in Seq(S), NEW u \in Seq(S), Joins(u, s, t)
  PROVE  s \o t = u
<1> USE DEF Joins
<1>1. s \o t \in Seq(S) /\ Len(s \o t) = Len(u)
  BY ConcatProperties
<1>2. Len(s) \in Nat /\ Len(t) \in Nat /\ Len(u) \in Nat
  BY LenProperties
<1>3. ASSUME NEW i \in 1 .. Len(u) PROVE (s \o t)[i] = u[i]
  <2>1. (s \o t)[i] = IF i <= Len(s) THEN s[i] ELSE t[i - Len(s)]
    BY <1>2, ConcatProperties
  <2>2. CASE i <= Len(s)
    BY <1>2, <2>1, <2>2
  <2>3. CASE ~(i <= Len(s))
    <3>1. i - Len(s) \in 1 .. Len(t) /\ Len(s) + (i - Len(s)) = i
      BY <1>2, <2>3
    <3> QED BY <2>1, <2>3, <3>1
  <2> QED BY <2>2, <2>3
<1> QED BY <1>1, <1>3, SeqEqual

\* The first n elements.
LEMMA FirstIs ==
  ASSUME NEW S, NEW s \in Seq(S), NEW n \in 0 .. Len(s)
  PROVE  /\ SubSeq(s, 1, n) \in Seq(S) /\ Len(SubSeq(s, 1, n)) = n
         /\ \A i \in 1 .. n : SubSeq(s, 1, n)[i] = s[i]
<1>1. Len(s) \in Nat /\ \A i \in 1 .. n : s[i] \in S
  BY LenProperties, ElementOfSeq
<1> QED BY <1>1, SubSeqProperties

-----------------------------------------------------------------------------
(* Zero coding. *)

Coder == [out : Seq(Byte), zeros : Byte]
Decoder == [out : Seq(Byte), counts : BOOLEAN]
Zeros(n) == [i \in 1 .. n |-> 0]

\* s is what t starts with.
Starts(s, t) == Len(s) <= Len(t) /\ \A i \in 1 .. Len(s) : t[i] = s[i]

LEMMA ByteFacts == Byte \subseteq Nat /\ 0 \in Byte /\ 1 \in Byte /\ 2 \in Byte /\ 3 \in Byte /\ MaxByte \in Byte
BY ByteAssumption DEF Byte

LEMMA RunIsBytes == ASSUME NEW n \in Byte PROVE Run(n) \in Seq(Byte)
BY ByteFacts DEF Run

LEMMA ZerosAreBytes == ASSUME NEW n \in Byte PROVE Zeros(n) \in Seq(Byte) /\ Len(Zeros(n)) = n
<1>1. n \in Nat /\ Zeros(n) \in [1 .. n -> Byte]
  BY ByteFacts DEF Zeros
<1> QED BY <1>1 DEF Zeros

LEMMA EncodeByteType ==
  ASSUME NEW e \in Coder, NEW b \in Byte
  PROVE  EncodeByte(e, b) \in Coder
<1>1. e.out \in Seq(Byte) /\ e.zeros \in Byte /\ e = [out |-> e.out, zeros |-> e.zeros]
  BY DEF Coder
<1>2. CASE b # 0
  <2>1. Append(e.out \o Run(e.zeros), b) \in Seq(Byte)
    BY <1>1, RunIsBytes, ConcatProperties, AppendProperties
  <2> QED BY <2>1, <1>2, ByteFacts DEF EncodeByte, Coder
<1>3. CASE b = 0 /\ e.zeros = MaxByte
  <2>1. e.out \o Run(MaxByte) \in Seq(Byte)
    BY <1>1, RunIsBytes, ConcatProperties, ByteFacts
  <2> QED BY <2>1, <1>3, ByteFacts DEF EncodeByte, Coder
<1>4. CASE b = 0 /\ e.zeros # MaxByte
  <2>1. EncodeByte(e, b) = [out |-> e.out, zeros |-> e.zeros + 1]
    BY <1>1, <1>4 DEF EncodeByte
  <2>2. e.zeros + 1 \in Byte
    BY <1>1, <1>4, ByteAssumption DEF Byte
  <2> QED BY <2>1, <2>2, <1>1 DEF Coder
<1> QED BY <1>2, <1>3, <1>4

\* The loop of ZeroEncodePacket.
LEMMA EncodingIs ==
  ASSUME NEW body \in Seq(Byte)
  PROVE  /\ Encoding(body) \in [0 .. Len(body) -> Coder]
         /\ Encoding(body)[0] = [out |-> <<>>, zeros |-> 0]
         /\ \A n \in 1 .. Len(body) : Encoding(body)[n] = EncodeByte(Encoding(body)[n - 1], body[n])
<1> DEFINE first == [out |-> <<>>, zeros |-> 0]
           step == [p \in Coder \X (1 .. Len(body)) |-> EncodeByte(p[1], body[p[2]])]
           Is(g) == g = [n \in 0 .. Len(body) |-> IF n = 0 THEN first ELSE EncodeByte(g[n - 1], body[n])]
           f == Encoding(body)
           S == {k \in 0 .. Len(body) : f[k] \in Coder}
<1>0. Len(body) \in Nat /\ \A n \in 1 .. Len(body) : body[n] \in Byte
  BY LenProperties, ElementOfSeq
<1>1. first \in Coder
  BY ByteFacts DEF Coder
<1>2. step \in [Coder \X (1 .. Len(body)) -> Coder]
  BY EncodeByteType, <1>0
<1>3. PICK g : IsLoop(g, Coder, first, Len(body), step)
  <2>1. Len(body) \in Nat
    BY <1>0
  <2> HIDE DEF first, step
  <2> QED BY <2>1, <1>1, <1>2, LoopExists
<1>4. ASSUME NEW n \in 1 .. Len(body)
      PROVE  g[n] = EncodeByte(g[n - 1], body[n])
  <2>1. n - 1 \in 0 .. Len(body) /\ g[n - 1] \in Coder
    BY <1>0, <1>3 DEF IsLoop
  <2>2. g[n] = step[<<g[n - 1], n>>]
    BY <1>3 DEF IsLoop
  <2> QED BY <2>1, <2>2
<1>5. Is(g)
  <2> HIDE DEF first, step
  <2> QED BY <1>3, <1>4 DEF IsLoop
<1>6. Is(f)
  <2>1. f = CHOOSE h : Is(h)
    BY DEF Encoding
  <2> HIDE DEF Is, f
  <2> QED BY <1>5, <2>1, Zenon
<1>7. f[0] = first /\ \A n \in 1 .. Len(body) : f[n] = EncodeByte(f[n - 1], body[n])
  <2> HIDE DEF f, first
  <2> QED BY <1>0, <1>6
<1>8. \A n \in 0 .. Len(body) : n \in S
  <2>1. 0 \in S
    BY <1>0, <1>1, <1>7
  <2>2. ASSUME NEW k \in 1 .. Len(body), k - 1 \in S PROVE k \in S
    BY <1>0, <1>7, <2>2, EncodeByteType
  <2>3. Len(body) \in Nat
    BY <1>0
  <2> HIDE DEF S, f
  <2> QED BY <2>1, <2>2, <2>3, InductTo
<1>9. f \in [0 .. Len(body) -> Coder]
  <2> HIDE DEF f, first
  <2> QED BY <1>6, <1>8
<1> QED BY <1>7, <1>9

LEMMA DecodeByteType ==
  ASSUME NEW d \in Decoder, NEW b \in Byte
  PROVE  DecodeByte(d, b) \in Decoder
<1>1. d.out \in Seq(Byte) /\ d.counts \in BOOLEAN /\ d = [out |-> d.out, counts |-> d.counts]
  BY DEF Decoder
<1>2. CASE d.counts
  <2>1. d.out \o Zeros(b) \in Seq(Byte)
    BY <1>1, ZerosAreBytes, ConcatProperties
  <2> QED BY <2>1, <1>2 DEF DecodeByte, Decoder, Zeros
<1>3. CASE ~d.counts /\ b = 0
  <2>1. DecodeByte(d, b) = [out |-> d.out, counts |-> TRUE]
    BY <1>1, <1>3 DEF DecodeByte
  <2> QED BY <2>1, <1>1 DEF Decoder
<1>4. CASE ~d.counts /\ b # 0
  <2>1. DecodeByte(d, b) = [out |-> Append(d.out, b), counts |-> d.counts]
    BY <1>1, <1>4 DEF DecodeByte
  <2> QED BY <2>1, <1>1, AppendProperties DEF Decoder
<1> QED BY <1>2, <1>3, <1>4, <1>1

\* The loop of ZeroDecodePacket.
LEMMA DecodingIs ==
  ASSUME NEW bytes \in Seq(Byte)
  PROVE  /\ Decoding(bytes) \in [0 .. Len(bytes) -> Decoder]
         /\ Decoding(bytes)[0] = [out |-> <<>>, counts |-> FALSE]
         /\ \A n \in 1 .. Len(bytes) : Decoding(bytes)[n] = DecodeByte(Decoding(bytes)[n - 1], bytes[n])
<1> DEFINE first == [out |-> <<>>, counts |-> FALSE]
           step == [p \in Decoder \X (1 .. Len(bytes)) |-> DecodeByte(p[1], bytes[p[2]])]
           Is(g) == g = [n \in 0 .. Len(bytes) |-> IF n = 0 THEN first ELSE DecodeByte(g[n - 1], bytes[n])]
           f == Decoding(bytes)
           S == {k \in 0 .. Len(bytes) : f[k] \in Decoder}
<1>0. Len(bytes) \in Nat /\ \A n \in 1 .. Len(bytes) : bytes[n] \in Byte
  BY LenProperties, ElementOfSeq
<1>1. first \in Decoder
  BY DEF Decoder
<1>2. step \in [Decoder \X (1 .. Len(bytes)) -> Decoder]
  BY DecodeByteType, <1>0
<1>3. PICK g : IsLoop(g, Decoder, first, Len(bytes), step)
  <2>1. Len(bytes) \in Nat
    BY <1>0
  <2> HIDE DEF first, step
  <2> QED BY <2>1, <1>1, <1>2, LoopExists
<1>4. ASSUME NEW n \in 1 .. Len(bytes)
      PROVE  g[n] = DecodeByte(g[n - 1], bytes[n])
  <2>1. n - 1 \in 0 .. Len(bytes) /\ g[n - 1] \in Decoder
    BY <1>0, <1>3 DEF IsLoop
  <2>2. g[n] = step[<<g[n - 1], n>>]
    BY <1>3 DEF IsLoop
  <2> QED BY <2>1, <2>2
<1>5. Is(g)
  <2> HIDE DEF first, step
  <2> QED BY <1>3, <1>4 DEF IsLoop
<1>6. Is(f)
  <2>1. f = CHOOSE h : Is(h)
    BY DEF Decoding
  <2> HIDE DEF Is, f
  <2> QED BY <1>5, <2>1, Zenon
<1>7. f[0] = first /\ \A n \in 1 .. Len(bytes) : f[n] = DecodeByte(f[n - 1], bytes[n])
  <2> HIDE DEF f, first
  <2> QED BY <1>0, <1>6
<1>8. \A n \in 0 .. Len(bytes) : n \in S
  <2>1. 0 \in S
    BY <1>0, <1>1, <1>7
  <2>2. ASSUME NEW k \in 1 .. Len(bytes), k - 1 \in S PROVE k \in S
    BY <1>0, <1>7, <2>2, DecodeByteType
  <2>3. Len(bytes) \in Nat
    BY <1>0
  <2> HIDE DEF S, f
  <2> QED BY <2>1, <2>2, <2>3, InductTo
<1>9. f \in [0 .. Len(bytes) -> Decoder]
  <2> HIDE DEF f, first
  <2> QED BY <1>6, <1>8
<1> QED BY <1>7, <1>9

\* What the decoder has after n bytes, when it is not at a counter.
Decoded(bytes, n, out) == Decoding(bytes)[n] = [out |-> out, counts |-> FALSE]

\* A byte that is not 0 is decoded as it is, two that begin with 0 as zeros.
LEMMA ByteDecoded ==
  ASSUME NEW bytes \in Seq(Byte), NEW n \in 0 .. Len(bytes) - 1, NEW out, Decoded(bytes, n, out),
         bytes[n + 1] # 0
  PROVE  Decoded(bytes, n + 1, Append(out, bytes[n + 1]))
<1>1. n + 1 \in 1 .. Len(bytes) /\ (n + 1) - 1 = n
  BY LenProperties
<1>2. Decoding(bytes)[n + 1] = DecodeByte([out |-> out, counts |-> FALSE], bytes[n + 1])
  BY <1>1, DecodingIs DEF Decoded
<1>3. DecodeByte([out |-> out, counts |-> FALSE], bytes[n + 1])
        = [out |-> Append(out, bytes[n + 1]), counts |-> FALSE]
  BY DEF DecodeByte
<1> QED BY <1>2, <1>3 DEF Decoded

LEMMA CountDecoded ==
  ASSUME NEW bytes \in Seq(Byte), NEW n \in 0 .. Len(bytes) - 2, NEW out, Decoded(bytes, n, out),
         bytes[n + 1] = 0
  PROVE  Decoded(bytes, n + 2, out \o Zeros(bytes[n + 2]))
<1>1. n + 1 \in 1 .. Len(bytes) /\ (n + 1) - 1 = n /\ n + 2 \in 1 .. Len(bytes) /\ (n + 2) - 1 = n + 1
  BY LenProperties
<1>2. Decoding(bytes)[n + 1] = DecodeByte([out |-> out, counts |-> FALSE], 0)
  BY <1>1, DecodingIs DEF Decoded
<1>3. DecodeByte([out |-> out, counts |-> FALSE], 0) = [out |-> out, counts |-> TRUE]
  BY DEF DecodeByte
<1>4. Decoding(bytes)[n + 2] = DecodeByte([out |-> out, counts |-> TRUE], bytes[n + 2])
  BY <1>1, <1>2, <1>3, DecodingIs
<1>5. DecodeByte([out |-> out, counts |-> TRUE], bytes[n + 2])
        = [out |-> out \o Zeros(bytes[n + 2]), counts |-> FALSE]
  BY DEF DecodeByte, Zeros
<1> QED BY <1>4, <1>5 DEF Decoded

\* Zeros m + 1 to m + z of the body are decoded from what Run(z) wrote.
LEMMA RunDecoded ==
  ASSUME NEW bytes \in Seq(Byte), NEW body \in Seq(Byte), NEW n \in Nat, NEW m \in Nat, NEW z \in Byte,
         Decoded(bytes, n, SubSeq(body, 1, m)), m + z <= Len(body),
         \A i \in m + 1 .. m + z : body[i] = 0,
         n + Len(Run(z)) <= Len(bytes), \A i \in 1 .. Len(Run(z)) : bytes[n + i] = Run(z)[i]
  PROVE  Decoded(bytes, n + Len(Run(z)), SubSeq(body, 1, m + z))
<1>0. Len(bytes) \in Nat /\ Len(body) \in Nat /\ z \in Nat
  BY LenProperties, ByteFacts
<1>1. CASE z = 0
  BY <1>0, <1>1 DEF Run
<1>2. CASE z # 0
  <2>1. Run(z) = <<0, z>> /\ Len(Run(z)) = 2
    BY <1>2 DEF Run
  <2>2. bytes[n + 1] = 0 /\ bytes[n + 2] = z /\ n \in 0 .. Len(bytes) - 2
    BY <1>0, <2>1
  <2>3. Decoded(bytes, n + 2, SubSeq(body, 1, m) \o Zeros(z))
    BY <2>2, CountDecoded
  <2>4. SubSeq(body, 1, m) \o Zeros(z) = SubSeq(body, 1, m + z)
    <3>1. m \in 0 .. Len(body) /\ m + z \in 0 .. Len(body)
      BY <1>0
    <3>2. Zeros(z) \in Seq(Byte) /\ Len(Zeros(z)) = z /\ \A i \in 1 .. z : Zeros(z)[i] = 0
      BY ZerosAreBytes DEF Zeros
    <3> DEFINE s == SubSeq(body, 1, m)
               u == SubSeq(body, 1, m + z)
    <3>3. s \in Seq(Byte) /\ Len(s) = m /\ \A i \in 1 .. m : s[i] = body[i]
      BY <3>1, FirstIs
    <3>4. u \in Seq(Byte) /\ Len(u) = m + z /\ \A i \in 1 .. m + z : u[i] = body[i]
      BY <3>1, FirstIs
    <3> HIDE DEF s, u
    <3>5. \A i \in 1 .. z : u[m + i] = 0
      BY <1>0, <3>1, <3>4
    <3>6. Joins(u, s, Zeros(z))
      <4>1. ASSUME NEW i \in 1 .. m PROVE u[i] = s[i]
        <5>1. i \in 1 .. m + z
          BY <1>0
        <5> QED BY <5>1, <3>3, <3>4
      <4>2. \A i \in 1 .. z : u[m + i] = Zeros(z)[i]
        BY <3>2, <3>5
      <4> QED BY <4>1, <4>2, <3>2, <3>3, <3>4 DEF Joins
    <3>7. s \o Zeros(z) = u
      BY <3>2, <3>3, <3>4, <3>6, ConcatIs
    <3> QED BY <3>7 DEF s, u
  <2> QED BY <2>1, <2>3, <2>4
<1> QED BY <1>1, <1>2

LEMMA StartsConcat ==
  ASSUME NEW s \in Seq(Byte), NEW t \in Seq(Byte), NEW bytes \in Seq(Byte), Starts(s \o t, bytes)
  PROVE  /\ Starts(s, bytes) /\ Len(s) + Len(t) <= Len(bytes)
         /\ \A i \in 1 .. Len(t) : bytes[Len(s) + i] = t[i]
<1>1. /\ Len(s \o t) = Len(s) + Len(t)
      /\ \A i \in 1 .. Len(s) + Len(t) : (s \o t)[i] = IF i <= Len(s) THEN s[i] ELSE t[i - Len(s)]
  BY ConcatProperties
<1>2. Len(s) \in Nat /\ Len(t) \in Nat /\ Len(bytes) \in Nat
  BY LenProperties
<1>3. \A i \in 1 .. Len(s) + Len(t) : bytes[i] = (s \o t)[i]
  BY <1>1 DEF Starts
<1>4. Len(s) + Len(t) <= Len(bytes)
  BY <1>1 DEF Starts
<1>5. ASSUME NEW i \in 1 .. Len(s) PROVE bytes[i] = s[i]
  <2>1. i \in 1 .. Len(s) + Len(t) /\ i <= Len(s)
    BY <1>2
  <2> QED BY <2>1, <1>1, <1>3
<1>6. ASSUME NEW i \in 1 .. Len(t) PROVE bytes[Len(s) + i] = t[i]
  <2>1. Len(s) + i \in 1 .. Len(s) + Len(t) /\ ~(Len(s) + i <= Len(s)) /\ (Len(s) + i) - Len(s) = i
    BY <1>2
  <2> QED BY <2>1, <1>1, <1>3
<1>7. Len(s) <= Len(bytes)
  BY <1>2, <1>4
<1> QED BY <1>4, <1>5, <1>6, <1>7 DEF Starts

\* The decoder of bytes that start with what n bytes of a body were coded as.
DecodesPart(bytes, body, n) ==
  LET e == Encoding(body)[n] IN
  /\ e.zeros <= n
  /\ \A i \in n - e.zeros + 1 .. n : body[i] = 0
  /\ Starts(e.out, bytes) => Decoded(bytes, Len(e.out), SubSeq(body, 1, n - e.zeros))

LEMMA PartIsDecoded ==
  ASSUME NEW body \in Seq(Byte), NEW bytes \in Seq(Byte)
  PROVE  \A n \in 0 .. Len(body) : DecodesPart(bytes, body, n)
<1> DEFINE S == {n \in 0 .. Len(body) : DecodesPart(bytes, body, n)}
<1>0. Len(body) \in Nat
  BY LenProperties
<1>1. 0 \in S
  <2>1. Encoding(body)[0] = [out |-> <<>>, zeros |-> 0]
    BY EncodingIs
  <2>2. Decoded(bytes, 0, <<>>)
    BY DecodingIs DEF Decoded
  <2>3. SubSeq(body, 1, 0) = <<>>
    BY SubSeqEmpty
  <2>4. /\ Encoding(body)[0].out = <<>> /\ Encoding(body)[0].zeros = 0
        /\ Len(<<>>) = 0 /\ 0 - 0 = 0 /\ 0 <= 0 /\ \A i \in 0 - 0 + 1 .. 0 : FALSE
    BY <2>1
  <2>5. DecodesPart(bytes, body, 0)
    BY <2>2, <2>3, <2>4 DEF DecodesPart
  <2> QED BY <1>0, <2>5
<1>2. ASSUME NEW n \in 1 .. Len(body), n - 1 \in S PROVE n \in S
  <2> DEFINE e == Encoding(body)[n - 1]
             z == e.zeros
             b == body[n]
  <2>0. n - 1 \in 0 .. Len(body)
    BY <1>0
  <2>1. e \in Coder /\ e.out \in Seq(Byte) /\ z \in Byte /\ z \in Nat /\ b \in Byte
    BY <2>0, EncodingIs, ElementOfSeq, ByteFacts DEF Coder
  <2>2. Encoding(body)[n] = EncodeByte(e, b)
    BY EncodingIs
  <2>3. z <= n - 1 /\ \A i \in (n - 1) - z + 1 .. n - 1 : body[i] = 0
    BY <1>2 DEF DecodesPart
  <2>4. ASSUME Starts(e.out \o Run(z), bytes)
        PROVE  /\ Decoded(bytes, Len(e.out) + Len(Run(z)), SubSeq(body, 1, n - 1))
               /\ Len(e.out) + Len(Run(z)) <= Len(bytes)
    <3>0. Run(z) \in Seq(Byte)
      BY <2>1, RunIsBytes
    <3>1. /\ Starts(e.out, bytes) /\ Len(e.out) + Len(Run(z)) <= Len(bytes)
          /\ \A i \in 1 .. Len(Run(z)) : bytes[Len(e.out) + i] = Run(z)[i]
      <4>1. e.out \in Seq(Byte) /\ Starts(e.out \o Run(z), bytes)
        BY <2>1, <2>4
      <4> DEFINE s == e.out
                 t == Run(z)
      <4>2. s \in Seq(Byte) /\ t \in Seq(Byte) /\ Starts(s \o t, bytes)
        BY <4>1, <3>0
      <4> HIDE DEF s, t
      <4>3. /\ Starts(s, bytes) /\ Len(s) + Len(t) <= Len(bytes)
            /\ \A i \in 1 .. Len(t) : bytes[Len(s) + i] = t[i]
        BY <4>2, StartsConcat
      <4> QED BY <4>3 DEF s, t
    <3>2. Decoded(bytes, Len(e.out), SubSeq(body, 1, (n - 1) - z))
      BY <3>1, <1>2 DEF DecodesPart
    <3> DEFINE m == (n - 1) - z
    <3>3. m \in Nat /\ m + z = n - 1 /\ m + z <= Len(body) /\ Len(e.out) \in Nat
      BY <1>0, <2>1, <2>3, LenProperties
    <3>4. Decoded(bytes, Len(e.out), SubSeq(body, 1, m)) /\ \A i \in m + 1 .. m + z : body[i] = 0
      BY <2>3, <3>2, <3>3
    <3> HIDE DEF m, e, z
    <3>5. Decoded(bytes, Len(e.out) + Len(Run(z)), SubSeq(body, 1, m + z))
      BY <2>1, <3>1, <3>3, <3>4, RunDecoded
    <3> QED BY <3>1, <3>3, <3>5
  <2>5. CASE b # 0
    <3>0. Encoding(body)[n] = [out |-> Append(e.out \o Run(z), b), zeros |-> 0]
      BY <2>2, <2>5, Zenon DEF EncodeByte
    <3>1. /\ Encoding(body)[n].out = Append(e.out \o Run(z), b)
          /\ Encoding(body)[n].zeros = 0
      <4> HIDE DEF e, z, b
      <4> QED BY <3>0
    <3> DEFINE s == e.out \o Run(z)
    <3>2. s \in Seq(Byte) /\ Len(s) = Len(e.out) + Len(Run(z))
      BY <2>1, RunIsBytes, ConcatProperties
    <3>3. /\ <<b>> \in Seq(Byte) /\ Len(<<b>>) = 1 /\ <<b>>[1] = b
          /\ Append(s, b) = s \o <<b>> /\ Len(Append(s, b)) = Len(s) + 1
          /\ Len(s) \in Nat /\ Len(bytes) \in Nat
      <4> HIDE DEF s, e, z, b
      <4> QED BY <2>1, <3>2, AppendIsConcat, AppendProperties, LenProperties
    <3>4. ASSUME Starts(Append(s, b), bytes)
          PROVE  Decoded(bytes, Len(Append(s, b)), SubSeq(body, 1, n))
      <4>1. Starts(s \o <<b>>, bytes)
        BY <3>3, <3>4
      <4>2. /\ Starts(s, bytes) /\ Len(s) + Len(<<b>>) <= Len(bytes)
            /\ \A i \in 1 .. Len(<<b>>) : bytes[Len(s) + i] = <<b>>[i]
        BY <3>2, <3>3, <4>1, StartsConcat
      <4>3. Len(s) + 1 <= Len(bytes) /\ bytes[Len(s) + 1] = b
        <5> HIDE DEF s, e, z, b
        <5> QED BY <4>2, <3>3
      <4>4. Decoded(bytes, Len(s), SubSeq(body, 1, n - 1))
        BY <2>4, <3>2, <4>2
      <4>5. Len(s) \in 0 .. Len(bytes) - 1
        <5> HIDE DEF s, e, z, b
        <5> QED BY <3>3, <4>3
      <4> HIDE DEF s, e, z
      <4>6. Decoded(bytes, Len(s) + 1, Append(SubSeq(body, 1, n - 1), b))
        BY <4>3, <4>4, <4>5, <2>5, ByteDecoded
      <4>7. Append(SubSeq(body, 1, n - 1), b) = SubSeq(body, 1, n)
        <5>1. SubSeq(body, 1, n) = SubSeq(body, 1, n - 1) \o <<body[n]>>
          BY <1>0, SubSeqRecursiveSecond
        <5>2. SubSeq(body, 1, n - 1) \in Seq(Byte)
          BY <2>0, FirstIs
        <5> QED BY <5>1, <5>2, <2>1, AppendIsConcat
      <4> QED BY <3>3, <4>6, <4>7
    <3>5. n - 0 = n /\ 0 <= n /\ \A i \in n - 0 + 1 .. n : body[i] = 0
      BY <1>0
    <3>6. DecodesPart(bytes, body, n)
      <4> HIDE DEF e, z, b
      <4> QED BY <3>1, <3>4, <3>5 DEF DecodesPart
    <3> QED BY <1>0, <3>6
  <2>6. CASE b = 0 /\ z = MaxByte
    <3>1. /\ Encoding(body)[n].out = e.out \o Run(z)
          /\ Encoding(body)[n].zeros = 1
      BY <2>2, <2>6 DEF EncodeByte
    <3>2. Len(e.out \o Run(z)) = Len(e.out) + Len(Run(z))
      BY <2>1, RunIsBytes, ConcatProperties
    <3>3. 1 <= n /\ \A i \in n - 1 + 1 .. n : body[i] = 0
      BY <1>0, <2>6
    <3>4. DecodesPart(bytes, body, n)
      <4> HIDE DEF e, z, b
      <4> QED BY <2>4, <3>1, <3>2, <3>3 DEF DecodesPart
    <3> QED BY <1>0, <3>4
  <2>7. CASE b = 0 /\ z # MaxByte
    <3>1. /\ Encoding(body)[n].out = e.out
          /\ Encoding(body)[n].zeros = z + 1
      BY <2>1, <2>2, <2>7 DEF EncodeByte, Coder
    <3>2. n - (z + 1) = (n - 1) - z /\ z + 1 <= n
      BY <2>1, <2>3, <1>0
    <3>3. ASSUME NEW i \in n - (z + 1) + 1 .. n PROVE body[i] = 0
      <4>1. CASE i = n
        BY <4>1, <2>7
      <4>2. CASE i # n
        <5>1. i \in (n - 1) - z + 1 .. n - 1
          BY <2>1, <1>0, <4>2
        <5> QED BY <5>1, <2>3
      <4> QED BY <4>1, <4>2
    <3>4. Starts(e.out, bytes) => Decoded(bytes, Len(e.out), SubSeq(body, 1, (n - 1) - z))
      BY <1>2 DEF DecodesPart
    <3>5. DecodesPart(bytes, body, n)
      <4> HIDE DEF e, z, b
      <4> QED BY <3>1, <3>2, <3>3, <3>4 DEF DecodesPart
    <3> QED BY <1>0, <3>5
  <2> QED BY <2>5, <2>6, <2>7
<1>3. \A n \in 0 .. Len(body) : n \in S
  <2>1. Len(body) \in Nat
    BY <1>0
  <2> HIDE DEF S
  <2> QED BY <1>1, <1>2, <2>1, InductTo
<1> QED BY <1>3

LEMMA StartsTransitive ==
  ASSUME NEW s \in Seq(Byte), NEW t \in Seq(Byte), NEW u \in Seq(Byte), Starts(s, t), Starts(t, u)
  PROVE  Starts(s, u)
BY LenProperties DEF Starts

LEMMA ConcatStarts ==
  ASSUME NEW s \in Seq(Byte), NEW t \in Seq(Byte)
  PROVE  Starts(s, s \o t)
<1>1. Len(s) \in Nat /\ Len(t) \in Nat /\ Len(s \o t) = Len(s) + Len(t)
  BY LenProperties, ConcatProperties
<1>2. ASSUME NEW i \in 1 .. Len(s) PROVE (s \o t)[i] = s[i]
  <2>1. i \in 1 .. Len(s) + Len(t) /\ i <= Len(s)
    BY <1>1
  <2> QED BY <2>1, ConcatProperties
<1> QED BY <1>1, <1>2 DEF Starts

\* The decoder takes nothing back.
LEMMA DecodingGrows ==
  ASSUME NEW bytes \in Seq(Byte), NEW n \in 0 .. Len(bytes)
  PROVE  Starts(Decoding(bytes)[n].out, ZeroDecode(bytes)) /\ ZeroDecode(bytes) \in Seq(Byte)
<1> DEFINE Out(k) == Decoding(bytes)[k].out
           S == {k \in 0 .. Len(bytes) : n <= k => Starts(Out(n), Out(k))}
<1>0. Len(bytes) \in Nat
  BY LenProperties
<1>1. \A k \in 0 .. Len(bytes) : Decoding(bytes)[k] \in Decoder /\ Out(k) \in Seq(Byte)
  BY DecodingIs DEF Decoder
<1>2. Starts(Out(n), Out(n))
  BY <1>1, LenProperties DEF Starts
<1>3. ASSUME NEW k \in 1 .. Len(bytes), k - 1 \in S PROVE k \in S
  <2> DEFINE d == Decoding(bytes)[k - 1]
  <2>1. k - 1 \in 0 .. Len(bytes) /\ k \in 0 .. Len(bytes) /\ bytes[k] \in Byte
    BY <1>0, ElementOfSeq
  <2>2. d \in Decoder /\ d = [out |-> d.out, counts |-> d.counts] /\ d.out \in Seq(Byte)
    BY <1>1, <2>1 DEF Decoder
  <2>3. Decoding(bytes)[k] = DecodeByte(d, bytes[k])
    BY DecodingIs
  <2>4. Starts(d.out, DecodeByte(d, bytes[k]).out)
    <3> HIDE DEF d
    <3>1. CASE d.counts
      <4>1. DecodeByte(d, bytes[k]).out = d.out \o Zeros(bytes[k])
        BY <3>1 DEF DecodeByte, Zeros
      <4> QED BY <4>1, <2>1, <2>2, ZerosAreBytes, ConcatStarts
    <3>2. CASE ~d.counts /\ bytes[k] = 0
      <4>1. DecodeByte(d, bytes[k]).out = d.out
        BY <2>2, <3>2 DEF DecodeByte
      <4> QED BY <4>1, <2>2, LenProperties DEF Starts
    <3>3. CASE ~d.counts /\ bytes[k] # 0
      <4>1. DecodeByte(d, bytes[k]).out = Append(d.out, bytes[k])
        BY <2>2, <3>3 DEF DecodeByte
      <4>2. Append(d.out, bytes[k]) = d.out \o <<bytes[k]>> /\ <<bytes[k]>> \in Seq(Byte)
        BY <2>1, <2>2, AppendIsConcat
      <4> QED BY <4>1, <4>2, <2>2, ConcatStarts
    <3> QED BY <3>1, <3>2, <3>3
  <2>5. Starts(Out(k - 1), Out(k))
    BY <2>3, <2>4
  <2>6. CASE n <= k - 1
    <3>1. Starts(Out(n), Out(k - 1))
      BY <1>3, <2>6
    <3>2. Out(n) \in Seq(Byte) /\ Out(k - 1) \in Seq(Byte) /\ Out(k) \in Seq(Byte)
      BY <1>1, <2>1
    <3>3. Starts(Out(n), Out(k))
      <4> HIDE DEF Out
      <4> QED BY <2>5, <3>1, <3>2, StartsTransitive
    <3> QED BY <2>1, <3>3
  <2>7. CASE ~(n <= k - 1)
    <3>1. n <= k => n = k
      BY <1>0, <2>7
    <3> QED BY <1>2, <2>1, <3>1
  <2> QED BY <2>6, <2>7
<1>4. 0 \in S
  <2>1. n <= 0 => n = 0
    BY <1>0
  <2> QED BY <1>0, <1>2, <2>1
<1>5. \A k \in 0 .. Len(bytes) : k \in S
  <2>1. Len(bytes) \in Nat
    BY <1>0
  <2> HIDE DEF S
  <2> QED BY <1>3, <1>4, <2>1, InductTo
<1>6. Starts(Out(n), Out(Len(bytes))) /\ Out(Len(bytes)) \in Seq(Byte)
  BY <1>0, <1>1, <1>5
<1> QED BY <1>6 DEF ZeroDecode

LEMMA ZeroEncodeType ==
  ASSUME NEW body \in Seq(Byte)
  PROVE  ZeroEncode(body) \in Seq(Byte)
<1> DEFINE e == Encoding(body)[Len(body)]
<1>1. e.out \in Seq(Byte) /\ e.zeros \in Byte
  <2>1. Len(body) \in 0 .. Len(body)
    BY LenProperties
  <2> QED BY <2>1, EncodingIs DEF Coder
<1>2. e.out \o Run(e.zeros) \in Seq(Byte)
  <2> HIDE DEF e
  <2> QED BY <1>1, RunIsBytes, ConcatProperties
<1> QED BY <1>2 DEF ZeroEncode

(* What ZeroEncodePacket does ZeroDecodePacket undoes: of a coded body, and *)
(* of whatever is appended to it, the decoder reads the body first and, when *)
(* nothing is appended, nothing else.  Runs of more zeros than a byte counts *)
(* and runs at the end are bodies like all others.                           *)
THEOREM ZeroCodingIsUndone ==
  ASSUME NEW body \in Seq(Byte), NEW acks \in Seq(Byte)
  PROVE  /\ ZeroDecode(ZeroEncode(body)) = body
         /\ Starts(body, ZeroDecode(ZeroEncode(body) \o acks))
<1> DEFINE e == Encoding(body)[Len(body)]
           coded == ZeroEncode(body)
<1>0. Len(body) \in Nat
  BY LenProperties
<1>1. e.out \in Seq(Byte) /\ e.zeros \in Byte /\ e.zeros \in Nat /\ Run(e.zeros) \in Seq(Byte)
  <2>1. Len(body) \in 0 .. Len(body)
    BY <1>0
  <2> QED BY <2>1, EncodingIs, ByteFacts, RunIsBytes DEF Coder
<1>2. coded = e.out \o Run(e.zeros) /\ coded \in Seq(Byte) /\ Len(coded) \in Nat
  <2>1. coded = e.out \o Run(e.zeros)
    BY DEF ZeroEncode
  <2> QED BY <2>1, ZeroEncodeType, LenProperties
<1>3. Len(coded) = Len(e.out) + Len(Run(e.zeros)) /\ Len(e.out) \in Nat
  <2> HIDE DEF e, coded
  <2> QED BY <1>1, <1>2, ConcatProperties, LenProperties
<1>4. ASSUME NEW bytes \in Seq(Byte), Starts(coded, bytes)
      PROVE  Decoded(bytes, Len(coded), body)
  <2>1. /\ Starts(e.out, bytes) /\ Len(e.out) + Len(Run(e.zeros)) <= Len(bytes)
        /\ \A i \in 1 .. Len(Run(e.zeros)) : bytes[Len(e.out) + i] = Run(e.zeros)[i]
    <3>1. Starts(e.out \o Run(e.zeros), bytes)
      BY <1>2, <1>4
    <3>2. e.out \in Seq(Byte) /\ Run(e.zeros) \in Seq(Byte)
      BY <1>1
    <3> DEFINE s == e.out
               run == Run(e.zeros)
    <3>3. s \in Seq(Byte) /\ run \in Seq(Byte) /\ Starts(s \o run, bytes)
      BY <3>1, <3>2
    <3> HIDE DEF s, run
    <3>4. /\ Starts(s, bytes) /\ Len(s) + Len(run) <= Len(bytes)
          /\ \A i \in 1 .. Len(run) : bytes[Len(s) + i] = run[i]
      BY <3>3, StartsConcat
    <3> QED BY <3>4 DEF s, run
  <2>2. DecodesPart(bytes, body, Len(body))
    BY <1>0, PartIsDecoded
  <2> DEFINE m == Len(body) - e.zeros
  <2>3. /\ e.zeros <= Len(body) /\ \A i \in m + 1 .. Len(body) : body[i] = 0
        /\ Decoded(bytes, Len(e.out), SubSeq(body, 1, m))
    BY <2>1, <2>2 DEF DecodesPart
  <2>4. m \in Nat /\ m + e.zeros = Len(body)
    BY <1>0, <1>1, <2>3
  <2>5. m + e.zeros <= Len(body) /\ \A i \in m + 1 .. m + e.zeros : body[i] = 0
    BY <1>0, <2>3, <2>4
  <2> HIDE DEF m, e
  <2>6. Decoded(bytes, Len(e.out) + Len(Run(e.zeros)), SubSeq(body, 1, m + e.zeros))
    BY <1>1, <1>3, <2>1, <2>3, <2>4, <2>5, RunDecoded
  <2> QED BY <2>4, <2>6, <1>3, SubSeqFull
<1>5. ZeroDecode(coded) = body
  <2>1. Starts(coded, coded)
    BY <1>2 DEF Starts
  <2>2. Decoded(coded, Len(coded), body)
    BY <1>2, <1>4, <2>1
  <2> HIDE DEF coded
  <2> QED BY <2>2 DEF Decoded, ZeroDecode
<1>6. Starts(body, ZeroDecode(coded \o acks))
  <2>1. Starts(coded, coded \o acks) /\ coded \o acks \in Seq(Byte)
    BY <1>2, ConcatStarts, ConcatProperties
  <2>2. Decoded(coded \o acks, Len(coded), body)
    BY <1>4, <2>1
  <2>3. Len(coded) \in 0 .. Len(coded \o acks)
    <3>1. Len(coded \o acks) \in Nat /\ Len(coded) <= Len(coded \o acks)
      BY <2>1, LenProperties DEF Starts
    <3>2. Len(coded) \in Nat
      BY <1>2
    <3> QED BY <3>1, <3>2
  <2>4. Decoding(coded \o acks)[Len(coded)].out = body
    BY <2>2 DEF Decoded
  <2> HIDE DEF coded
  <2> QED BY <2>1, <2>3, <2>4, DecodingGrows
<1> QED BY <1>5, <1>6

-----------------------------------------------------------------------------
(* Answers. *)

\* g[n] is what the first n sequences of seqs are together.
Gathers(g, seqs, T) ==
  /\ g \in [0 .. Len(seqs) -> Seq(T)]
  /\ g[0] = <<>>
  /\ \A n \in 1 .. Len(seqs) : g[n] = g[n - 1] \o seqs[n]

LEMMA FlattenIs ==
  ASSUME NEW T, NEW seqs \in Seq(Seq(T)), NEW g, Gathers(g, seqs, T)
  PROVE  FlattenSeq(seqs) = g[Len(seqs)]
<1>0. Len(seqs) \in Nat /\ \A n \in 1 .. Len(seqs) : seqs[n] \in Seq(T)
  BY LenProperties, ElementOfSeq
<1>1. CASE Len(seqs) = 0
  <2>1. seqs = <<>>
    BY <1>1, EmptySeq
  <2> QED BY <2>1, <1>1 DEF FlattenSeq, Gathers
<1>2. CASE Len(seqs) # 0
  <2> DEFINE Is(h) == h = [i \in 1 .. Len(seqs) |-> IF i = 1 THEN seqs[i] ELSE h[i - 1] \o seqs[i]]
             f == CHOOSE h : Is(h)
             h0 == [i \in 1 .. Len(seqs) |-> g[i]]
  <2>1. Is(h0)
    <3>1. ASSUME NEW i \in 1 .. Len(seqs) PROVE h0[i] = IF i = 1 THEN seqs[i] ELSE h0[i - 1] \o seqs[i]
      <4>1. g[i] = g[i - 1] \o seqs[i]
        BY DEF Gathers
      <4>2. CASE i = 1
        <5>1. g[i - 1] = <<>> /\ seqs[i] \in Seq(T)
          BY <1>0, <4>2 DEF Gathers
        <5> QED BY <4>1, <4>2, <5>1, ConcatEmptySeq
      <4>3. CASE i # 1
        <5>1. i - 1 \in 1 .. Len(seqs)
          BY <1>0, <4>3
        <5> QED BY <4>1, <4>3, <5>1
      <4> QED BY <4>2, <4>3
    <3> QED BY <3>1
  <2>2. Is(f)
    <3> HIDE DEF Is, h0
    <3> QED BY <2>1, Zenon
  <2>3. FlattenSeq(seqs) = f[Len(seqs)]
    BY <1>2 DEF FlattenSeq
  <2> DEFINE S == {k \in 0 .. Len(seqs) : k # 0 => f[k] = g[k]}
  <2>4. 0 \in S
    BY <1>0
  <2>5. ASSUME NEW k \in 1 .. Len(seqs), k - 1 \in S PROVE k \in S
    <3> HIDE DEF f
    <3>1. f[k] = IF k = 1 THEN seqs[k] ELSE f[k - 1] \o seqs[k]
      BY <2>2
    <3>2. g[k] = g[k - 1] \o seqs[k]
      BY DEF Gathers
    <3>3. CASE k = 1
      <4>1. g[k - 1] = <<>> /\ seqs[k] \in Seq(T)
        BY <1>0, <3>3 DEF Gathers
      <4> QED BY <3>1, <3>2, <3>3, <4>1, ConcatEmptySeq
    <3>4. CASE k # 1
      <4>1. f[k - 1] = g[k - 1]
        BY <2>5, <3>4
      <4>2. f[k] = f[k - 1] \o seqs[k]
        BY <3>1, <3>4
      <4>3. f[k] = g[k]
        BY <3>2, <4>1, <4>2, Zenon
      <4> QED BY <1>0, <4>3
    <3> QED BY <3>3, <3>4
  <2>6. \A k \in 0 .. Len(seqs) : k \in S
    <3>1. Len(seqs) \in Nat
      BY <1>0
    <3> HIDE DEF S
    <3> QED BY <2>4, <2>5, <3>1, InductTo
  <2>7. f[Len(seqs)] = g[Len(seqs)]
    <3> HIDE DEF f
    <3> QED BY <1>0, <1>2, <2>6
  <2> HIDE DEF f
  <2> QED BY <2>3, <2>7
<1> QED BY <1>1, <1>2

LEMMA GatheringExists ==
  ASSUME NEW T, NEW seqs \in Seq(Seq(T))
  PROVE  \E g : Gathers(g, seqs, T)
<1> DEFINE step == [p \in Seq(T) \X (1 .. Len(seqs)) |-> p[1] \o seqs[p[2]]]
           first == <<>>
<1>0. Len(seqs) \in Nat /\ \A n \in 1 .. Len(seqs) : seqs[n] \in Seq(T)
  BY LenProperties, ElementOfSeq
<1>1. first \in Seq(T)
  OBVIOUS
<1>2. step \in [Seq(T) \X (1 .. Len(seqs)) -> Seq(T)]
  BY <1>0, ConcatProperties
<1>3. PICK g : IsLoop(g, Seq(T), first, Len(seqs), step)
  <2>1. Len(seqs) \in Nat
    BY <1>0
  <2> HIDE DEF first, step
  <2> QED BY <2>1, <1>1, <1>2, LoopExists
<1>4. ASSUME NEW n \in 1 .. Len(seqs)
      PROVE  g[n] = g[n - 1] \o seqs[n]
  <2>1. n - 1 \in 0 .. Len(seqs) /\ g[n - 1] \in Seq(T)
    <3>1. n - 1 \in 0 .. Len(seqs) /\ g \in [0 .. Len(seqs) -> Seq(T)]
      BY <1>0, <1>3 DEF IsLoop
    <3> QED BY <3>1
  <2>2. g[n] = step[<<g[n - 1], n>>]
    BY <1>3 DEF IsLoop
  <2> QED BY <2>1, <2>2
<1>5. Gathers(g, seqs, T)
  <2>1. g \in [0 .. Len(seqs) -> Seq(T)] /\ g[0] = <<>>
    BY <1>3 DEF IsLoop
  <2> HIDE DEF step, first
  <2> QED BY <1>4, <2>1 DEF Gathers
<1> QED BY <1>5

LEMMA FlattenAppend ==
  ASSUME NEW T, NEW seqs \in Seq(Seq(T)), NEW s \in Seq(T)
  PROVE  /\ FlattenSeq(seqs) \in Seq(T)
         /\ FlattenSeq(Append(seqs, s)) = FlattenSeq(seqs) \o s
<1>0. Len(seqs) \in Nat
  BY LenProperties
<1>1. PICK g : Gathers(g, seqs, T)
  BY GatheringExists
<1> DEFINE n == Len(seqs)
           longer == Append(seqs, s)
           h == [i \in 0 .. n + 1 |-> IF i = n + 1 THEN g[n] \o s ELSE g[i]]
<1>2. /\ longer \in Seq(Seq(T)) /\ Len(longer) = n + 1 /\ longer[n + 1] = s
      /\ \A i \in 1 .. n : longer[i] = seqs[i]
  BY AppendProperties
<1>3. \A i \in 0 .. n : g[i] \in Seq(T)
  BY <1>1 DEF Gathers
<1>4. g[n] \in Seq(T) /\ g[n] \o s \in Seq(T)
  <2>1. g[n] \in Seq(T)
    BY <1>0, <1>3
  <2> QED BY <2>1, ConcatProperties
<1>5. Gathers(h, longer, T)
  <2>1. h \in [0 .. n + 1 -> Seq(T)]
    <3>1. ASSUME NEW i \in 0 .. n + 1 PROVE (IF i = n + 1 THEN g[n] \o s ELSE g[i]) \in Seq(T)
      <4>1. i # n + 1 => i \in 0 .. n
        BY <1>0
      <4> QED BY <4>1, <1>3, <1>4
    <3> QED BY <3>1
  <2>2. h[0] = <<>>
    BY <1>0, <1>1 DEF Gathers
  <2>3. ASSUME NEW i \in 1 .. n + 1 PROVE h[i] = h[i - 1] \o longer[i]
    <3>1. CASE i = n + 1
      <4>1. h[i] = g[n] \o s /\ h[i - 1] = g[n]
        BY <1>0, <3>1
      <4> QED BY <4>1, <3>1, <1>2
    <3>2. CASE i # n + 1
      <4>1. i \in 1 .. n /\ i - 1 \in 0 .. n
        BY <1>0, <3>2
      <4>2. h[i] = g[i] /\ h[i - 1] = g[i - 1] /\ longer[i] = seqs[i]
        BY <1>0, <1>2, <3>2, <4>1
      <4>3. g[i] = g[i - 1] \o seqs[i]
        BY <1>1, <4>1 DEF Gathers
      <4> QED BY <4>2, <4>3
    <3> QED BY <3>1, <3>2
  <2> HIDE DEF h, longer
  <2> QED BY <1>2, <2>1, <2>2, <2>3 DEF Gathers
<1>6. FlattenSeq(longer) = h[n + 1]
  <2> HIDE DEF h, longer, n
  <2> QED BY <1>2, <1>5, FlattenIs
<1>7. FlattenSeq(seqs) = g[n]
  BY <1>1, FlattenIs
<1>8. h[n + 1] = g[n] \o s
  BY <1>0
<1> QED BY <1>4, <1>6, <1>7, <1>8

LEMMA FlattenEmpty == FlattenSeq(<<>>) = <<>>
BY DEF FlattenSeq

\* Bytes and numbers of two bytes.
LEMMA DivMod ==
  ASSUME NEW n \in Nat, NEW b \in Nat \ {0}
  PROVE  /\ n % b \in 0 .. b - 1 /\ n \div b \in Nat
         /\ n = b * (n \div b) + (n % b)
         /\ n < b => n % b = n
<1>1. n % b \in 0 .. b - 1
  OBVIOUS
<1>2. n \div b \in Int /\ n \div b >= 0
  <2>1. n \div b \in Int
    OBVIOUS
  <2>2. n \div b >= 0
    OBVIOUS
  <2> QED BY <2>1, <2>2
<1>3. n = b * (n \div b) + (n % b)
  OBVIOUS
<1>4. ASSUME n < b PROVE n % b = n
  BY <1>4
<1> QED BY <1>1, <1>2, <1>3, <1>4

LEMMA DivBelow ==
  ASSUME NEW b \in Nat \ {0}, NEW q \in Nat, NEW r \in Nat, b * q + r < b * b
  PROVE  q < b
<1> SUFFICES ASSUME q >= b PROVE FALSE
  OBVIOUS
<1> QED OBVIOUS

LEMMA U8Type ==
  ASSUME NEW n \in Nat
  PROVE  U8(n) \in Byte /\ (n <= MaxByte => U8(n) = n)
BY ByteAssumption, DivMod DEF U8, Byte

LEMMA S32Type ==
  ASSUME NEW n \in Nat
  PROVE  S32(n) \in Seq(Byte) /\ Len(S32(n)) = 2
<1>1. n \div (MaxByte + 1) \in Nat
  BY ByteAssumption, DivMod
<1> QED BY <1>1, U8Type DEF S32

LEMMA S32IsRead ==
  ASSUME NEW n \in Nat, Fits(n)
  PROVE  FromS32(S32(n)[1], S32(n)[2]) = n
<1> DEFINE b == MaxByte + 1
           q == n \div b
           r == n % b
<1>1. b \in Nat \ {0} /\ b - 1 = MaxByte
  BY ByteAssumption
<1>2. r \in 0 .. b - 1 /\ q \in Nat /\ n = b * q + r
  <2> HIDE DEF b
  <2> QED BY <1>1, DivMod
<1>3. q < b
  <2>1. b * q + r < b * b /\ r \in Nat
    BY <1>2 DEF Fits
  <2> HIDE DEF b, q, r
  <2> QED BY <1>1, <1>2, <2>1, DivBelow
<1>4. U8(n) = r /\ U8(q) = q
  <2>1. q <= MaxByte
    <3> HIDE DEF b, q
    <3> QED BY <1>1, <1>2, <1>3
  <2>2. U8(n) = r
    BY DEF U8
  <2> HIDE DEF q
  <2> QED BY <1>2, <2>1, <2>2, U8Type
<1>5. S32(n) = <<r, q>>
  BY <1>4 DEF S32
<1>6. FromS32(r, q) = r + b * q
  BY DEF FromS32
<1>7. r + b * q = n
  <2>1. b * q \in Nat
    <3> HIDE DEF q, b
    <3> QED BY <1>1, <1>2
  <2> HIDE DEF q, r, b
  <2> QED BY <1>2, <2>1
<1> QED BY <1>5, <1>6, <1>7

LEMMA ConcatAt ==
  ASSUME NEW S, NEW s \in Seq(S), NEW t \in Seq(S)
  PROVE  /\ s \o t \in Seq(S) /\ Len(s \o t) = Len(s) + Len(t)
         /\ \A i \in 1 .. Len(s) : (s \o t)[i] = s[i]
         /\ \A i \in 1 .. Len(t) : (s \o t)[Len(s) + i] = t[i]
<1>0. Len(s) \in Nat /\ Len(t) \in Nat
  BY LenProperties
<1>1. ASSUME NEW i \in 1 .. Len(s) PROVE (s \o t)[i] = s[i]
  <2>1. i \in 1 .. Len(s) + Len(t) /\ i <= Len(s)
    BY <1>0
  <2> QED BY <2>1, ConcatProperties
<1>2. ASSUME NEW i \in 1 .. Len(t) PROVE (s \o t)[Len(s) + i] = t[i]
  <2>1. Len(s) + i \in 1 .. Len(s) + Len(t) /\ ~(Len(s) + i <= Len(s)) /\ (Len(s) + i) - Len(s) = i
    BY <1>0
  <2> QED BY <2>1, ConcatProperties
<1> QED BY <1>1, <1>2, ConcatProperties

\* t follows s and is followed by u.
LEMMA MiddleOf ==
  ASSUME NEW S, NEW s \in Seq(S), NEW t \in Seq(S), NEW u \in Seq(S)
  PROVE  SubSeq((s \o t) \o u, Len(s) + 1, Len(s) + Len(t)) = t
<1> DEFINE all == (s \o t) \o u
           m == Len(s) + 1
           n == Len(s) + Len(t)
           part == SubSeq(all, m, n)
<1>0. Len(s) \in Nat /\ Len(t) \in Nat /\ Len(s \o t) = n /\ s \o t \in Seq(S)
  BY LenProperties, ConcatAt
<1>1. ASSUME NEW i \in 1 .. Len(t) PROVE all[Len(s) + i] = t[i]
  <2>1. Len(s) + i \in 1 .. Len(s \o t)
    BY <1>0
  <2>2. all[Len(s) + i] = (s \o t)[Len(s) + i]
    BY <1>0, <2>1, ConcatAt
  <2> QED BY <2>2, ConcatAt
<1>2. ASSUME NEW i \in m .. n PROVE all[i] \in S
  <2>1. i - Len(s) \in 1 .. Len(t) /\ Len(s) + (i - Len(s)) = i
    BY <1>0
  <2>2. all[i] = t[i - Len(s)]
    BY <1>1, <2>1
  <2> QED BY <2>1, <2>2, ElementOfSeq
<1>3. /\ part \in Seq(S) /\ Len(part) = IF m <= n THEN n - m + 1 ELSE 0
      /\ \A i \in 1 .. n - m + 1 : part[i] = all[m + i - 1]
  <2>1. m \in Int /\ n \in Int
    BY <1>0
  <2> HIDE DEF all, m, n
  <2> QED BY <1>2, <2>1, SubSeqProperties
<1>4. Len(part) = Len(t)
  <2> HIDE DEF part
  <2> QED BY <1>0, <1>3
<1>5. ASSUME NEW i \in 1 .. Len(t) PROVE part[i] = t[i]
  <2>1. i \in 1 .. n - m + 1 /\ m + i - 1 = Len(s) + i
    BY <1>0
  <2>2. part[i] = all[Len(s) + i]
    <3> HIDE DEF part, all, m, n
    <3> QED BY <1>3, <2>1
  <2> QED BY <1>1, <2>2
<1>6. part = t
  <2> HIDE DEF part
  <2> QED BY <1>3, <1>4, <1>5, SeqEqual
<1> QED BY <1>6

\* The messages of answers.
Message == [zerocoded : BOOLEAN, body : Seq(Byte)]

Prelude(id, total, folders) == (<<1, id>> \o S32(total)) \o <<U8(Len(folders))>>

LEMMA PreludeIs ==
  ASSUME NEW id \in Byte, NEW total \in Nat, NEW folders \in Seq(Byte)
  PROVE  /\ Prelude(id, total, folders) \in Seq(Byte) /\ Len(Prelude(id, total, folders)) = 5
         /\ Prelude(id, total, folders)[1] = 1
         /\ Prelude(id, total, folders)[3] = S32(total)[1]
         /\ Prelude(id, total, folders)[4] = S32(total)[2]
         /\ Prelude(id, total, folders)[5] = U8(Len(folders))
<1> DEFINE front == <<1, id>>
           count == <<U8(Len(folders))>>
           num == S32(total)
           fn == front \o num
<1>1. front \in Seq(Byte) /\ Len(front) = 2 /\ front[1] = 1
  BY ByteFacts
<1>2. count \in Seq(Byte) /\ Len(count) = 1 /\ count[1] = U8(Len(folders))
  BY LenProperties, U8Type
<1>3. num \in Seq(Byte) /\ Len(num) = 2
  BY S32Type
<1> HIDE DEF front, count, num
<1>4. fn \in Seq(Byte) /\ Len(fn) = 4 /\ fn[1] = 1 /\ fn[3] = num[1] /\ fn[4] = num[2]
  <2>1. 1 \in 1 .. Len(front) /\ 1 \in 1 .. Len(num) /\ 2 \in 1 .. Len(num)
    BY <1>1, <1>3
  <2>2. fn[1] = front[1] /\ fn[Len(front) + 1] = num[1] /\ fn[Len(front) + 2] = num[2]
    <3>1. front \in Seq(Byte) /\ num \in Seq(Byte)
      BY <1>1, <1>3
    <3>2. /\ \A i \in 1 .. Len(front) : (front \o num)[i] = front[i]
          /\ \A i \in 1 .. Len(num) : (front \o num)[Len(front) + i] = num[i]
      BY <3>1, ConcatAt
    <3> QED BY <2>1, <3>2, Zenon
  <2>3. fn \in Seq(Byte) /\ Len(fn) = Len(front) + Len(num)
    BY <1>1, <1>3, ConcatAt
  <2> QED BY <1>1, <1>3, <2>2, <2>3
<1> HIDE DEF fn
<1>5. /\ fn \o count \in Seq(Byte) /\ Len(fn \o count) = 5 /\ (fn \o count)[5] = count[1]
      /\ \A i \in 1 .. 4 : (fn \o count)[i] = fn[i]
  <2>1. 1 \in 1 .. Len(count)
    BY <1>2
  <2>2. (fn \o count)[Len(fn) + 1] = count[1] /\ \A i \in 1 .. Len(fn) : (fn \o count)[i] = fn[i]
    <3>1. fn \in Seq(Byte) /\ count \in Seq(Byte)
      BY <1>2, <1>4
    <3>2. /\ \A i \in 1 .. Len(fn) : (fn \o count)[i] = fn[i]
          /\ \A i \in 1 .. Len(count) : (fn \o count)[Len(fn) + i] = count[i]
      BY <3>1, ConcatAt
    <3> QED BY <2>1, <3>2
  <2>3. fn \o count \in Seq(Byte) /\ Len(fn \o count) = Len(fn) + Len(count)
    BY <1>2, <1>4, ConcatAt
  <2> QED BY <1>2, <1>4, <2>2, <2>3
<1>6. Prelude(id, total, folders) = fn \o count
  BY DEF Prelude, fn, front, num, count
<1> QED BY <1>2, <1>4, <1>5, <1>6 DEF num

LEMMA BytesAssociate ==
  \A s, t, u \in Seq(Byte) : (s \o t) \o u = s \o (t \o u)
BY ConcatAssociative

\* A viewer reads of an InventoryDescendents what was written to it.
LEMMA DescendentsAreRead ==
  ASSUME NEW id \in Byte, NEW folders \in Seq(Byte), NEW items \in Seq(Byte), NEW total \in Nat
  PROVE  LET m == Descendents(id, folders, items, total) IN
         /\ m \in Message /\ m.body[1] = 1
         /\ Len(folders) <= MaxByte /\ Len(items) <= MaxByte
              => FoldersOf(m.body) = folders /\ ItemsOf(m.body) = items
         /\ Fits(total) => FromS32(m.body[3], m.body[4]) = total
<1> DEFINE first == Prelude(id, total, folders)
           count == <<U8(Len(items))>>
           m == Descendents(id, folders, items, total)
           body == ((first \o folders) \o count) \o items
<1>0. m.body = body /\ m.zerocoded = TRUE /\ m = [zerocoded |-> TRUE, body |-> body]
  BY DEF Descendents, Prelude
<1>1. /\ first \in Seq(Byte) /\ Len(first) = 5 /\ first[1] = 1 /\ first[3] = S32(total)[1]
      /\ first[4] = S32(total)[2] /\ first[5] = U8(Len(folders))
  BY PreludeIs
<1>2. count \in Seq(Byte) /\ Len(count) = 1 /\ count[1] = U8(Len(items))
  BY LenProperties, U8Type
<1>3. Len(folders) \in Nat /\ Len(items) \in Nat
  BY LenProperties
<1> DEFINE ff == first \o folders
           ffc == ff \o count
<1> HIDE DEF first, count
<1>4. ff \in Seq(Byte) /\ Len(ff) = 5 + Len(folders) /\ \A i \in 1 .. 5 : ff[i] = first[i]
  <2>1. 1 .. 5 = 1 .. Len(first)
    BY <1>1
  <2>2. first \o folders \in Seq(Byte) /\ Len(first \o folders) = Len(first) + Len(folders)
    BY <1>1, ConcatAt
  <2>3. \A i \in 1 .. Len(first) : (first \o folders)[i] = first[i]
    <3>1. first \in Seq(Byte)
      BY <1>1
    <3> QED BY <3>1, ConcatAt, Zenon
  <2> QED BY <1>1, <2>1, <2>2, <2>3
<1> HIDE DEF ff
<1>5. /\ ffc \in Seq(Byte) /\ Len(ffc) = 6 + Len(folders) /\ ffc[6 + Len(folders)] = count[1]
      /\ \A i \in 1 .. 5 : ffc[i] = ff[i]
  <2>1. 1 \in 1 .. Len(count) /\ Len(ff) + 1 = 6 + Len(folders) /\ 1 .. 5 \subseteq 1 .. Len(ff)
    BY <1>2, <1>3, <1>4
  <2>2. ffc[Len(ff) + 1] = count[1] /\ \A i \in 1 .. Len(ff) : ffc[i] = ff[i]
    <3>1. ff \in Seq(Byte) /\ count \in Seq(Byte)
      BY <1>2, <1>4
    <3>2. /\ \A i \in 1 .. Len(ff) : (ff \o count)[i] = ff[i]
          /\ \A i \in 1 .. Len(count) : (ff \o count)[Len(ff) + i] = count[i]
      BY <3>1, ConcatAt
    <3> QED BY <2>1, <3>2
  <2>3. ffc \in Seq(Byte) /\ Len(ffc) = Len(ff) + Len(count)
    BY <1>2, <1>4, ConcatAt
  <2> QED BY <1>2, <1>3, <1>4, <2>1, <2>2, <2>3
<1> HIDE DEF ffc
<1>6. /\ body \in Seq(Byte) /\ Len(body) = 6 + Len(folders) + Len(items)
      /\ body[6 + Len(folders)] = count[1]
      /\ \A i \in 1 .. 5 : body[i] = ffc[i]
  <2>1. body = ffc \o items
    BY DEF ffc, ff
  <2>2. 1 .. 5 \subseteq 1 .. Len(ffc) /\ 6 + Len(folders) \in 1 .. Len(ffc)
    BY <1>3, <1>5
  <2>3. \A i \in 1 .. Len(ffc) : (ffc \o items)[i] = ffc[i]
    BY <1>5, ConcatAt
  <2>4. ffc \o items \in Seq(Byte) /\ Len(ffc \o items) = Len(ffc) + Len(items)
    BY <1>5, ConcatAt
  <2> QED BY <1>3, <1>5, <2>1, <2>2, <2>3, <2>4
<1>7. body = (first \o folders) \o (count \o items)
  <2>1. first \o folders \in Seq(Byte) /\ count \in Seq(Byte)
    BY <1>2, <1>4 DEF ff
  <2> QED BY <2>1, BytesAssociate
<1> HIDE DEF m
<1>8. SubSeq(body, 6, 5 + Len(folders)) = folders
  <2>1. count \o items \in Seq(Byte)
    BY <1>2, ConcatProperties
  <2>2. SubSeq((first \o folders) \o (count \o items), Len(first) + 1, Len(first) + Len(folders)) = folders
    BY <1>1, <2>1, MiddleOf
  <2>3. Len(first) + 1 = 6 /\ Len(first) + Len(folders) = 5 + Len(folders)
    BY <1>1
  <2>4. SubSeq(body, Len(first) + 1, Len(first) + Len(folders)) = folders
    BY <1>7, <2>2, Zenon
  <2> HIDE DEF body
  <2> QED BY <2>3, <2>4
<1>9. SubSeq(body, 7 + Len(folders), 6 + Len(folders) + Len(items)) = items
  <2>1. SubSeq((ffc \o items) \o <<>>, Len(ffc) + 1, Len(ffc) + Len(items)) = items
    BY <1>5, MiddleOf
  <2>2. (ffc \o items) \o <<>> = ffc \o items
    BY <1>5, ConcatProperties, ConcatEmptySeq
  <2>3. body = ffc \o items
    BY DEF ffc, ff
  <2>4. Len(ffc) + 1 = 7 + Len(folders) /\ Len(ffc) + Len(items) = 6 + Len(folders) + Len(items)
    BY <1>3, <1>5
  <2> HIDE DEF body
  <2> QED BY <2>1, <2>2, <2>3, <2>4
<1>10. m \in Message
  <2> HIDE DEF body
  <2> QED BY <1>0, <1>6 DEF Message
<1>11. body[1] = 1 /\ body[3] = S32(total)[1] /\ body[4] = S32(total)[2] /\ body[5] = U8(Len(folders))
  <2> HIDE DEF body
  <2>1. body[1] = first[1] /\ body[3] = first[3] /\ body[4] = first[4] /\ body[5] = first[5]
    BY <1>4, <1>5, <1>6
  <2> QED BY <1>1, <2>1
<1>12. ASSUME Len(folders) <= MaxByte, Len(items) <= MaxByte
       PROVE  FoldersOf(body) = folders /\ ItemsOf(body) = items
  <2>1. body[5] = Len(folders)
    BY <1>3, <1>11, <1>12, U8Type
  <2>2. body[6 + body[5]] = Len(items)
    BY <1>2, <1>3, <1>6, <1>12, <2>1, U8Type
  <2> HIDE DEF body
  <2> QED BY <1>8, <1>9, <2>1, <2>2 DEF FoldersOf, ItemsOf
<1>13. ASSUME Fits(total) PROVE FromS32(body[3], body[4]) = total
  BY <1>11, <1>13, S32IsRead
<1> HIDE DEF body
<1> QED BY <1>0, <1>10, <1>11, <1>12, <1>13 DEF m

LEMMA ConcatJoins ==
  ASSUME NEW S, NEW s \in Seq(S), NEW t \in Seq(S)
  PROVE  s \o t \in Seq(S) /\ Joins(s \o t, s, t)
BY ConcatAt DEF Joins

LEMMA FunctionIsSeq ==
  ASSUME NEW T, NEW n \in Nat, NEW s \in [1 .. n -> T]
  PROVE  s \in Seq(T) /\ Len(s) = n
OBVIOUS

\* The first byte of a body is the number of the message.
Listing == {m \in Message : m.body[1] = 1}

Packer == [done : Seq(Listing), folders : Seq(Byte), items : Seq(Byte)]

\* What a list of the inventory server holds.
Entry == [ID : Byte, IsFolder : BOOLEAN]

LEMMA ElementsAre ==
  ASSUME NEW ids \in Seq(Byte)
  PROVE  /\ FolderElements(ids) \in Seq(Entry) /\ Len(FolderElements(ids)) = Len(ids)
         /\ ItemElements(ids) \in Seq(Entry) /\ Len(ItemElements(ids)) = Len(ids)
         /\ Len(ids) \in Nat
         /\ \A n \in 1 .. Len(ids) : /\ FolderElements(ids)[n].ID = ids[n] /\ FolderElements(ids)[n].IsFolder
                                     /\ ItemElements(ids)[n].ID = ids[n] /\ ~ItemElements(ids)[n].IsFolder
<1>1. Len(ids) \in Nat /\ \A i \in 1 .. Len(ids) : ids[i] \in Byte
  BY LenProperties, ElementOfSeq
<1>2. FolderElements(ids) \in [1 .. Len(ids) -> Entry] /\ ItemElements(ids) \in [1 .. Len(ids) -> Entry]
  BY <1>1 DEF FolderElements, ItemElements, Entry
<1>3. /\ FolderElements(ids) \in Seq(Entry) /\ Len(FolderElements(ids)) = Len(ids)
      /\ ItemElements(ids) \in Seq(Entry) /\ Len(ItemElements(ids)) = Len(ids)
  BY <1>1, <1>2, FunctionIsSeq
<1>4. \A n \in 1 .. Len(ids) : /\ FolderElements(ids)[n].ID = ids[n] /\ FolderElements(ids)[n].IsFolder
                               /\ ItemElements(ids)[n].ID = ids[n] /\ ~ItemElements(ids)[n].IsFolder
  BY DEF FolderElements, ItemElements
<1> QED BY <1>1, <1>3, <1>4

LEMMA ChildElementsAre ==
  ASSUME NEW id \in Byte, NEW children \in Seq(Entry)
  PROVE  LET list == ChildElements(id, children) IN
         /\ list \in Seq(Entry) /\ Len(list) = Len(children) + 1 /\ Len(children) \in Nat
         /\ list[1].ID = id /\ list[1].IsFolder
         /\ \A n \in 1 .. Len(children) : list[n + 1] = children[n]
<1> DEFINE ids == <<id>>
           front == FolderElements(ids)
           list == ChildElements(id, children)
<1>1. ids \in Seq(Byte) /\ Len(ids) = 1 /\ ids[1] = id
  OBVIOUS
<1>2. list = front \o children
  BY DEF ChildElements
<1> HIDE DEF ids
<1>3. front \in Seq(Entry) /\ Len(front) = 1 /\ front[1].ID = id /\ front[1].IsFolder
  <2>1. 1 \in 1 .. Len(ids)
    BY <1>1
  <2> QED BY <1>1, <2>1, ElementsAre
<1> HIDE DEF front, list
<1>4. list \in Seq(Entry) /\ Joins(list, front, children) /\ Len(children) \in Nat
  BY <1>2, <1>3, ConcatJoins, LenProperties
<1>5. /\ Len(list) = Len(front) + Len(children)
      /\ \A i \in 1 .. Len(front) : list[i] = front[i]
      /\ \A i \in 1 .. Len(children) : list[Len(front) + i] = children[i]
  BY <1>4 DEF Joins
<1>6. list[1] = front[1]
  <2>1. 1 \in 1 .. Len(front)
    BY <1>3
  <2> QED BY <1>5, <2>1
<1>7. ASSUME NEW n \in 1 .. Len(children) PROVE list[n + 1] = children[n]
  <2>1. Len(front) + n = n + 1
    BY <1>3, <1>4
  <2> QED BY <1>5, <2>1
<1>8. Len(list) = Len(children) + 1
  BY <1>3, <1>4, <1>5
<1> QED BY <1>3, <1>4, <1>6, <1>7, <1>8 DEF list

LEMMA ItemListIs ==
  ASSUME NEW id \in Byte, NEW items \in Seq(Byte)
  PROVE  LET list == ChildElements(id, ItemElements(items)) IN
         /\ Len(list) = Len(items) + 1 /\ Len(items) \in Nat /\ list[1].IsFolder
         /\ \A n \in 1 .. Len(items) : list[n + 1].ID = items[n] /\ ~list[n + 1].IsFolder
<1> DEFINE children == ItemElements(items)
           list == ChildElements(id, children)
<1>1. /\ children \in Seq(Entry) /\ Len(children) = Len(items)
      /\ \A n \in 1 .. Len(items) : children[n].ID = items[n] /\ ~children[n].IsFolder
  BY ElementsAre
<1> HIDE DEF children
<1>2. /\ Len(list) = Len(children) + 1 /\ Len(children) \in Nat /\ list[1].IsFolder
      /\ \A n \in 1 .. Len(children) : list[n + 1] = children[n]
  BY <1>1, ChildElementsAre
<1> HIDE DEF list
<1> QED BY <1>1, <1>2 DEF list, children

\* Both lists: nothing, or the folder itself and its children.
LEMMA DescIs ==
  ASSUME NEW id \in Byte
  PROVE  /\ Desc(id).Folders \in Seq(Entry) /\ Len(Desc(id).Folders) \in Nat
         /\ Desc(id).Items \in Seq(Entry) /\ Len(Desc(id).Items) \in Nat
         /\ Folders[id] = NotFound => Desc(id).Folders = <<>> /\ Desc(id).Items = <<>>
         /\ Folders[id] # NotFound
              => /\ Folders[id].folders \in Seq(Byte) /\ Folders[id].items \in Seq(Byte)
                 /\ Desc(id).Folders = ChildElements(id, FolderElements(Folders[id].folders))
                 /\ Desc(id).Items = ChildElements(id, ItemElements(Folders[id].items))
<1>1. CASE Folders[id] = NotFound
  <2>1. Desc(id).Folders = <<>> /\ Desc(id).Items = <<>>
    BY <1>1 DEF Desc
  <2>2. <<>> \in Seq(Entry) /\ Len(<<>>) \in Nat
    OBVIOUS
  <2> QED BY <1>1, <2>1, <2>2
<1>2. CASE Folders[id] # NotFound
  <2>1. Folders[id] \in [folders : Seq(Byte), items : Seq(Byte)]
    BY <1>2, FoldersAssumption
  <2>2. Folders[id].folders \in Seq(Byte) /\ Folders[id].items \in Seq(Byte)
    BY <2>1
  <2>3. /\ Desc(id).Folders = ChildElements(id, FolderElements(Folders[id].folders))
        /\ Desc(id).Items = ChildElements(id, ItemElements(Folders[id].items))
    BY <1>2 DEF Desc
  <2>4. Desc(id).Folders \in Seq(Entry) /\ Desc(id).Items \in Seq(Entry)
    <3>1. /\ FolderElements(Folders[id].folders) \in Seq(Entry)
          /\ ItemElements(Folders[id].items) \in Seq(Entry)
      BY <2>2, ElementsAre
    <3> QED BY <2>3, <3>1, ChildElementsAre
  <2> QED BY <1>2, <2>2, <2>3, <2>4, LenProperties
<1> QED BY <1>1, <1>2

\* The loop over the first list.
LEMMA FolderBlocksAre ==
  ASSUME NEW id \in Byte
  PROVE  LET list == Desc(id).Folders IN
         /\ FolderBlocks(id) \in [0 .. Len(list) -> Seq(Byte)]
         /\ FolderBlocks(id)[0] = <<>>
         /\ \A n \in 1 .. Len(list) : FolderBlocks(id)[n] = AddFolder(FolderBlocks(id)[n - 1], list[n])
<1> DEFINE list == Desc(id).Folders
           step == [p \in Seq(Byte) \X (1 .. Len(list)) |-> AddFolder(p[1], list[p[2]])]
           Is(g) == g = [n \in 0 .. Len(list) |-> IF n = 0 THEN <<>> ELSE AddFolder(g[n - 1], list[n])]
           f == FolderBlocks(id)
           S == {k \in 0 .. Len(list) : f[k] \in Seq(Byte)}
<1>0. Len(list) \in Nat /\ \A n \in 1 .. Len(list) : list[n] \in Entry
  BY DescIs, ElementOfSeq
<1>1. <<>> \in Seq(Byte)
  OBVIOUS
<1>a. ASSUME NEW folders \in Seq(Byte), NEW item \in Entry PROVE AddFolder(folders, item) \in Seq(Byte)
  <2>1. item.ID \in Byte
    BY DEF Entry
  <2> QED BY <2>1, AppendProperties DEF AddFolder
<1>2. step \in [Seq(Byte) \X (1 .. Len(list)) -> Seq(Byte)]
  <2> HIDE DEF list
  <2> QED BY <1>a, <1>0
<1>3. PICK g : IsLoop(g, Seq(Byte), <<>>, Len(list), step)
  <2>1. Len(list) \in Nat
    BY <1>0
  <2> HIDE DEF step, list
  <2> QED BY <2>1, <1>1, <1>2, LoopExists
<1>4. ASSUME NEW n \in 1 .. Len(list)
      PROVE  g[n] = AddFolder(g[n - 1], list[n])
  <2>1. n - 1 \in 0 .. Len(list) /\ g[n - 1] \in Seq(Byte)
    <3>1. n - 1 \in 0 .. Len(list) /\ g \in [0 .. Len(list) -> Seq(Byte)]
      <4> HIDE DEF list, step
      <4> QED BY <1>0, <1>3 DEF IsLoop
    <3> QED BY <3>1
  <2>2. g[n] = step[<<g[n - 1], n>>]
    <3> HIDE DEF list, step
    <3> QED BY <1>3 DEF IsLoop
  <2> HIDE DEF list
  <2> QED BY <2>1, <2>2
<1>5. Is(g)
  <2> HIDE DEF step, list
  <2> QED BY <1>3, <1>4 DEF IsLoop
<1>6. Is(f)
  <2>1. f = CHOOSE h : Is(h)
    BY DEF FolderBlocks
  <2> HIDE DEF Is, f
  <2> QED BY <1>5, <2>1, Zenon
<1>7. f[0] = <<>> /\ \A n \in 1 .. Len(list) : f[n] = AddFolder(f[n - 1], list[n])
  <2> HIDE DEF f, list
  <2> QED BY <1>0, <1>6
<1>8. \A n \in 0 .. Len(list) : n \in S
  <2>1. 0 \in S
    <3>1. f[0] \in Seq(Byte)
      BY <1>1, <1>7, Zenon
    <3>2. 0 \in 0 .. Len(list)
      BY <1>0
    <3> QED BY <3>1, <3>2, Zenon
  <2>2. ASSUME NEW k \in 1 .. Len(list), k - 1 \in S PROVE k \in S
    <3>1. f[k - 1] \in Seq(Byte) /\ list[k] \in Entry /\ f[k] = AddFolder(f[k - 1], list[k])
      BY <1>0, <1>7, <2>2
    <3> HIDE DEF f, list
    <3> QED BY <1>0, <1>a, <3>1
  <2>3. Len(list) \in Nat
    BY <1>0
  <2> HIDE DEF S, f, list
  <2> QED BY <2>1, <2>2, <2>3, InductTo
<1>9. f \in [0 .. Len(list) -> Seq(Byte)]
  <2> HIDE DEF f, list
  <2> QED BY <1>6, <1>8
<1> QED BY <1>7, <1>9

\* The folders of an answer: the folder and those in it.
FoldersToSend(id) == IF Folders[id] = NotFound THEN <<>> ELSE <<id>> \o Folders[id].folders
ItemsToSend(id) == IF Folders[id] = NotFound THEN <<>> ELSE Folders[id].items

LEMMA ToSendAre ==
  ASSUME NEW id \in Byte
  PROVE  /\ FoldersToSend(id) \in Seq(Byte) /\ Len(FoldersToSend(id)) = Len(Desc(id).Folders)
         /\ ItemsToSend(id) \in Seq(Byte) /\ Len(ItemsToSend(id)) \in Nat
         /\ \A n \in 1 .. Len(Desc(id).Folders) :
              Desc(id).Folders[n].IsFolder /\ Desc(id).Folders[n].ID = FoldersToSend(id)[n]
<1>1. CASE Folders[id] = NotFound
  <2>1. FoldersToSend(id) = <<>> /\ ItemsToSend(id) = <<>> /\ Desc(id).Folders = <<>>
    BY <1>1, DescIs DEF FoldersToSend, ItemsToSend
  <2>2. <<>> \in Seq(Byte) /\ Len(<<>>) = 0 /\ 0 \in Nat /\ \A n \in 1 .. 0 : FALSE
    OBVIOUS
  <2> QED BY <2>1, <2>2
<1>2. CASE Folders[id] # NotFound
  <2> DEFINE ids == Folders[id].folders
             front == <<id>>
             list == Desc(id).Folders
             all == FoldersToSend(id)
  <2>1. ids \in Seq(Byte) /\ Folders[id].items \in Seq(Byte) /\ list = ChildElements(id, FolderElements(ids))
    BY <1>2, DescIs
  <2>2. /\ Len(list) = Len(ids) + 1 /\ Len(ids) \in Nat
        /\ list[1].ID = id /\ list[1].IsFolder
        /\ \A n \in 1 .. Len(ids) : list[n + 1].ID = ids[n] /\ list[n + 1].IsFolder
    <3> DEFINE children == FolderElements(ids)
    <3> HIDE DEF ids, list
    <3>1. /\ children \in Seq(Entry) /\ Len(children) = Len(ids)
          /\ \A n \in 1 .. Len(ids) : children[n].ID = ids[n] /\ children[n].IsFolder
      BY <2>1, ElementsAre
    <3>2. list = ChildElements(id, children)
      BY <2>1
    <3> HIDE DEF children
    <3>3. /\ Len(list) = Len(children) + 1 /\ Len(children) \in Nat
          /\ list[1].ID = id /\ list[1].IsFolder
          /\ \A n \in 1 .. Len(children) : list[n + 1] = children[n]
      BY <3>1, <3>2, ChildElementsAre
    <3> QED BY <3>1, <3>3
  <2>3. front \in Seq(Byte) /\ Len(front) = 1 /\ front[1] = id
    OBVIOUS
  <2>4. all = front \o ids
    BY <1>2 DEF FoldersToSend
  <2> HIDE DEF ids, front, list, all
  <2>5. all \in Seq(Byte) /\ Joins(all, front, ids)
    BY <2>1, <2>3, <2>4, ConcatJoins
  <2>6. Len(all) = Len(list)
    <3>1. Len(all) = Len(front) + Len(ids)
      BY <2>5 DEF Joins
    <3> QED BY <2>2, <2>3, <3>1
  <2>7. ASSUME NEW n \in 1 .. Len(list) PROVE list[n].IsFolder /\ list[n].ID = all[n]
    <3>1. CASE n = 1
      <4>1. all[1] = front[1]
        <5>1. 1 \in 1 .. Len(front)
          BY <2>3
        <5> QED BY <2>5, <5>1 DEF Joins
      <4> QED BY <2>2, <2>3, <3>1, <4>1
    <3>2. CASE n # 1
      <4>1. n - 1 \in 1 .. Len(ids) /\ Len(front) + (n - 1) = n /\ (n - 1) + 1 = n
        BY <2>2, <2>3, <3>2
      <4>2. all[n] = ids[n - 1]
        BY <2>5, <4>1 DEF Joins
      <4>3. list[(n - 1) + 1].ID = ids[n - 1] /\ list[(n - 1) + 1].IsFolder
        BY <2>2, <4>1
      <4> QED BY <4>1, <4>2, <4>3
    <3> QED BY <3>1, <3>2
  <2>8. ItemsToSend(id) \in Seq(Byte) /\ Len(ItemsToSend(id)) \in Nat
    BY <1>2, <2>1, LenProperties DEF ItemsToSend
  <2> QED BY <2>5, <2>6, <2>7, <2>8 DEF all, list
<1> QED BY <1>1, <1>2

\* All folders pass the filter of the loop, the folder itself first.
LEMMA FolderBlocksAll ==
  ASSUME NEW id \in Byte
  PROVE  FolderBlocks(id)[Len(Desc(id).Folders)] = FoldersToSend(id)
<1> DEFINE list == Desc(id).Folders
           all == FoldersToSend(id)
           f == FolderBlocks(id)
           S == {n \in 0 .. Len(list) : f[n] = SubSeq(all, 1, n)}
<1>1. Len(list) \in Nat /\ all \in Seq(Byte) /\ Len(all) = Len(list)
  BY DescIs, ToSendAre
<1>2. \A n \in 1 .. Len(list) : list[n].IsFolder /\ list[n].ID = all[n]
  BY ToSendAre
<1>3. f[0] = <<>> /\ \A n \in 1 .. Len(list) : f[n] = AddFolder(f[n - 1], list[n])
  BY FolderBlocksAre
<1> HIDE DEF list, all, f
<1>4. 0 \in S
  <2>1. SubSeq(all, 1, 0) = <<>>
    <3>1. 0 \in Int /\ 1 \in Int /\ 0 < 1
      OBVIOUS
    <3> QED BY <3>1, SubSeqEmpty, Zenon
  <2>2. f[0] = SubSeq(all, 1, 0) /\ 0 \in 0 .. Len(list)
    BY <1>1, <1>3, <2>1
  <2> QED BY <2>2, Zenon
<1>5. ASSUME NEW n \in 1 .. Len(list), n - 1 \in S PROVE n \in S
  <2>1. f[n - 1] = SubSeq(all, 1, n - 1)
    BY <1>5
  <2>2. f[n] = Append(f[n - 1], all[n])
    BY <1>2, <1>3 DEF AddFolder
  <2>3. SubSeq(all, 1, n) = SubSeq(all, 1, n - 1) \o <<all[n]>>
    BY <1>1, SubSeqRecursiveSecond
  <2>4. n - 1 \in 0 .. Len(all) /\ n \in 0 .. Len(list)
    BY <1>1
  <2>5. SubSeq(all, 1, n - 1) \in Seq(Byte) /\ all[n] \in Byte
    BY <1>1, <2>4, FirstIs, ElementOfSeq
  <2>6. Append(f[n - 1], all[n]) = f[n - 1] \o <<all[n]>>
    BY <2>1, <2>5, AppendIsConcat
  <2> QED BY <2>1, <2>2, <2>3, <2>4, <2>6
<1>6. \A n \in 0 .. Len(list) : n \in S
  <2> HIDE DEF S
  <2> QED BY <1>1, <1>4, <1>5, InductTo
<1>7. f[Len(list)] = SubSeq(all, 1, Len(list))
  BY <1>1, <1>6
<1>8. SubSeq(all, 1, Len(all)) = all
  BY <1>1, SubSeqFull
<1> QED BY <1>1, <1>7, <1>8 DEF f, list, all

LEMMA AddItemType ==
  ASSUME NEW id \in Byte, NEW s \in Packer, NEW item \in Entry
  PROVE  AddItem(id, s, item) \in Packer
<1> DEFINE items == Append(s.items, item.ID)
           m == Descendents(id, s.folders, items, Len(s.folders) + Len(items))
<1>1. /\ s.done \in Seq(Listing) /\ s.folders \in Seq(Byte) /\ s.items \in Seq(Byte)
      /\ s = [done |-> s.done, folders |-> s.folders, items |-> s.items]
  BY DEF Packer
<1>2. items \in Seq(Byte)
  <2>1. item.ID \in Byte
    BY DEF Entry
  <2> QED BY <1>1, <2>1, AppendProperties
<1>3. m \in Listing
  <2>1. Len(s.folders) + Len(items) \in Nat
    BY <1>1, <1>2, LenProperties
  <2> HIDE DEF items
  <2> QED BY <1>1, <1>2, <2>1, DescendentsAreRead DEF Listing
<1>0. CASE item.IsFolder
  BY <1>0 DEF AddItem
<1>4. CASE ~item.IsFolder /\ Len(items) > PerPacket
  <2>1. AddItem(id, s, item) = [done |-> Append(s.done, m), folders |-> <<>>, items |-> <<>>]
    BY <1>4 DEF AddItem
  <2>2. Append(s.done, m) \in Seq(Listing)
    BY <1>1, <1>3, AppendProperties
  <2> QED BY <2>1, <2>2 DEF Packer
<1>5. CASE ~item.IsFolder /\ ~(Len(items) > PerPacket)
  <2>1. AddItem(id, s, item) = [done |-> s.done, folders |-> s.folders, items |-> items]
    BY <1>1, <1>5 DEF AddItem
  <2> QED BY <2>1, <1>1, <1>2 DEF Packer
<1> QED BY <1>0, <1>4, <1>5

\* The loop over the second list.
LEMMA PackingIs ==
  ASSUME NEW id \in Byte
  PROVE  LET items == Desc(id).Items IN
         /\ Packing(id) \in [0 .. Len(items) -> Packer]
         /\ Packing(id)[0] = [done |-> <<>>, folders |-> FoldersToSend(id), items |-> <<>>]
         /\ \A n \in 1 .. Len(items) : Packing(id)[n] = AddItem(id, Packing(id)[n - 1], items[n])
<1> DEFINE items == Desc(id).Items
           first == [done |-> <<>>, folders |-> FolderBlocks(id)[Len(Desc(id).Folders)], items |-> <<>>]
           step == [p \in Packer \X (1 .. Len(items)) |-> AddItem(id, p[1], items[p[2]])]
           Is(g) == g = [n \in 0 .. Len(items) |-> IF n = 0 THEN first ELSE AddItem(id, g[n - 1], items[n])]
           f == Packing(id)
           S == {k \in 0 .. Len(items) : f[k] \in Packer}
<1>0. Len(items) \in Nat /\ \A n \in 1 .. Len(items) : items[n] \in Entry
  BY DescIs, ElementOfSeq
<1>f. first = [done |-> <<>>, folders |-> FoldersToSend(id), items |-> <<>>]
  BY FolderBlocksAll
<1>1. first \in Packer
  <2>1. FoldersToSend(id) \in Seq(Byte) /\ <<>> \in Seq(Listing) /\ <<>> \in Seq(Byte)
    BY ToSendAre
  <2> HIDE DEF first
  <2> QED BY <1>f, <2>1 DEF Packer
<1>2. step \in [Packer \X (1 .. Len(items)) -> Packer]
  <2> HIDE DEF items
  <2> QED BY AddItemType, <1>0
<1>3. PICK g : IsLoop(g, Packer, first, Len(items), step)
  <2>1. Len(items) \in Nat
    BY <1>0
  <2> HIDE DEF first, step, items
  <2> QED BY <2>1, <1>1, <1>2, LoopExists
<1>4. ASSUME NEW n \in 1 .. Len(items)
      PROVE  g[n] = AddItem(id, g[n - 1], items[n])
  <2>1. n - 1 \in 0 .. Len(items) /\ g[n - 1] \in Packer
    <3>1. n - 1 \in 0 .. Len(items) /\ g \in [0 .. Len(items) -> Packer]
      <4> HIDE DEF items, first, step
      <4> QED BY <1>0, <1>3 DEF IsLoop
    <3> QED BY <3>1
  <2>2. g[n] = step[<<g[n - 1], n>>]
    <3> HIDE DEF items, first, step
    <3> QED BY <1>3 DEF IsLoop
  <2> HIDE DEF items
  <2> QED BY <2>1, <2>2
<1>5. Is(g)
  <2> HIDE DEF first, step, items
  <2> QED BY <1>3, <1>4 DEF IsLoop
<1>6. Is(f)
  <2>1. f = CHOOSE h : Is(h)
    BY DEF Packing
  <2> HIDE DEF Is, f
  <2> QED BY <1>5, <2>1, Zenon
<1>7. f[0] = first /\ \A n \in 1 .. Len(items) : f[n] = AddItem(id, f[n - 1], items[n])
  <2> HIDE DEF f, first, items
  <2> QED BY <1>0, <1>6
<1>8. \A n \in 0 .. Len(items) : n \in S
  <2>1. 0 \in S
    BY <1>0, <1>1, <1>7
  <2>2. ASSUME NEW k \in 1 .. Len(items), k - 1 \in S PROVE k \in S
    <3> HIDE DEF f, items
    <3> QED BY <1>0, <1>7, <2>2, AddItemType
  <2>3. Len(items) \in Nat
    BY <1>0
  <2> HIDE DEF S, f, items
  <2> QED BY <2>1, <2>2, <2>3, InductTo
<1>9. f \in [0 .. Len(items) -> Packer]
  <2> HIDE DEF f, first, items
  <2> QED BY <1>6, <1>8
<1> HIDE DEF first
<1> QED BY <1>f, <1>7, <1>9

\* Packets a viewer can read, with no more than their share.
Parcel ==
  {m \in Message : /\ FoldersOf(m.body) \in Seq(Byte)
                   /\ ItemsOf(m.body) \in Seq(Byte)
                   /\ Len(ItemsOf(m.body)) <= PerPacket + 1}

\* All folders, and all items, of some packets.
FoldersIn(messages) == FlattenSeq([i \in 1 .. Len(messages) |-> FoldersOf(messages[i].body)])
ItemsIn(messages) == FlattenSeq([i \in 1 .. Len(messages) |-> ItemsOf(messages[i].body)])

LEMMA OneMore ==
  ASSUME NEW T, NEW messages \in Seq(Parcel), NEW m \in Parcel, NEW of \in [Parcel -> T]
  PROVE  /\ [i \in 1 .. Len(messages) |-> of[messages[i]]] \in Seq(T)
         /\ [i \in 1 .. Len(Append(messages, m)) |-> of[Append(messages, m)[i]]]
              = Append([i \in 1 .. Len(messages) |-> of[messages[i]]], of[m])
<1> DEFINE s == [i \in 1 .. Len(messages) |-> of[messages[i]]]
           more == Append(messages, m)
           t == [i \in 1 .. Len(more) |-> of[more[i]]]
<1>0. Len(messages) \in Nat /\ \A i \in 1 .. Len(messages) : messages[i] \in Parcel
  BY LenProperties, ElementOfSeq
<1>1. /\ more \in Seq(Parcel) /\ Len(more) = Len(messages) + 1 /\ more[Len(messages) + 1] = m
      /\ \A i \in 1 .. Len(messages) : more[i] = messages[i]
  BY AppendProperties
<1> HIDE DEF more
<1>2. Len(more) \in Nat /\ \A i \in 1 .. Len(more) : more[i] \in Parcel
  BY <1>1, LenProperties, ElementOfSeq
<1>3. s \in Seq(T) /\ Len(s) = Len(messages)
  <2>1. s \in [1 .. Len(messages) -> T]
    BY <1>0
  <2> QED BY <2>1, <1>0
<1>4. t \in Seq(T) /\ Len(t) = Len(messages) + 1
  <2>1. t \in [1 .. Len(more) -> T]
    BY <1>2
  <2> QED BY <2>1, <1>1, <1>2
<1>5. /\ Append(s, of[m]) \in Seq(T) /\ Len(Append(s, of[m])) = Len(messages) + 1
      /\ \A i \in 1 .. Len(messages) : Append(s, of[m])[i] = s[i]
      /\ Append(s, of[m])[Len(messages) + 1] = of[m]
  <2>1. of[m] \in T
    OBVIOUS
  <2>2. Len(s) = Len(messages)
    BY <1>3
  <2> HIDE DEF s
  <2> QED BY <1>3, <2>1, <2>2, AppendProperties
<1>6. ASSUME NEW i \in 1 .. Len(messages) + 1 PROVE t[i] = Append(s, of[m])[i]
  <2>1. t[i] = of[more[i]]
    BY <1>1
  <2>2. CASE i = Len(messages) + 1
    BY <1>1, <1>5, <2>1, <2>2
  <2>3. CASE i # Len(messages) + 1
    <3>1. i \in 1 .. Len(messages)
      BY <1>0, <2>3
    <3>2. s[i] = of[messages[i]]
      BY <3>1
    <3> HIDE DEF s, t
    <3> QED BY <1>1, <1>5, <2>1, <3>1, <3>2
  <2> QED BY <2>2, <2>3
<1>7. t = Append(s, of[m])
  <2> HIDE DEF s, t
  <2> QED BY <1>4, <1>5, <1>6, SeqEqual
<1> QED BY <1>3, <1>7 DEF more

LEMMA ParcelAdds ==
  ASSUME NEW messages \in Seq(Parcel), NEW m \in Parcel
  PROVE  /\ FoldersIn(messages) \in Seq(Byte) /\ ItemsIn(messages) \in Seq(Byte)
         /\ FoldersIn(Append(messages, m)) = FoldersIn(messages) \o FoldersOf(m.body)
         /\ ItemsIn(Append(messages, m)) = ItemsIn(messages) \o ItemsOf(m.body)
<1> DEFINE T == Seq(Byte)
           folders == [p \in Parcel |-> FoldersOf(p.body)]
           items == [p \in Parcel |-> ItemsOf(p.body)]
           more == Append(messages, m)
           Map(ms, of) == [i \in 1 .. Len(ms) |-> of[ms[i]]]
<1>1. folders \in [Parcel -> T] /\ items \in [Parcel -> T]
  BY DEF Parcel
<1>2. more \in Seq(Parcel)
  BY AppendProperties
<1>3. ASSUME NEW ms \in Seq(Parcel)
      PROVE  FoldersIn(ms) = FlattenSeq(Map(ms, folders)) /\ ItemsIn(ms) = FlattenSeq(Map(ms, items))
  <2>1. \A i \in 1 .. Len(ms) : ms[i] \in Parcel
    BY ElementOfSeq
  <2>2. [i \in 1 .. Len(ms) |-> FoldersOf(ms[i].body)] = Map(ms, folders)
    BY <2>1
  <2>3. [i \in 1 .. Len(ms) |-> ItemsOf(ms[i].body)] = Map(ms, items)
    BY <2>1
  <2> QED BY <2>2, <2>3 DEF FoldersIn, ItemsIn
<1>4. ASSUME NEW of \in [Parcel -> T]
      PROVE  /\ FlattenSeq(Map(messages, of)) \in T
             /\ FlattenSeq(Map(more, of)) = FlattenSeq(Map(messages, of)) \o of[m]
  <2>1. Map(messages, of) \in Seq(T) /\ Map(more, of) = Append(Map(messages, of), of[m])
    <3> HIDE DEF T
    <3> QED BY OneMore
  <2>2. of[m] \in Seq(Byte)
    OBVIOUS
  <2> HIDE DEF Map, more
  <2> QED BY <2>1, <2>2, FlattenAppend
<1>5. folders[m] = FoldersOf(m.body) /\ items[m] = ItemsOf(m.body)
  OBVIOUS
<1> HIDE DEF Map, folders, items, more
<1>6. /\ FlattenSeq(Map(messages, folders)) \in T
      /\ FlattenSeq(Map(more, folders)) = FlattenSeq(Map(messages, folders)) \o folders[m]
  BY <1>1, <1>4
<1>7. /\ FlattenSeq(Map(messages, items)) \in T
      /\ FlattenSeq(Map(more, items)) = FlattenSeq(Map(messages, items)) \o items[m]
  BY <1>1, <1>4
<1>8. /\ FoldersIn(messages) \in Seq(Byte) /\ ItemsIn(messages) \in Seq(Byte)
      /\ FoldersIn(more) = FoldersIn(messages) \o FoldersOf(m.body)
      /\ ItemsIn(more) = ItemsIn(messages) \o ItemsOf(m.body)
  BY <1>2, <1>3, <1>5, <1>6, <1>7
<1> QED BY <1>8 DEF more

LEMMA NothingIn == FoldersIn(<<>>) = <<>> /\ ItemsIn(<<>>) = <<>>
<1>1. [i \in 1 .. Len(<<>>) |-> FoldersOf(<<>>[i].body)] = <<>>
  OBVIOUS
<1>2. [i \in 1 .. Len(<<>>) |-> ItemsOf(<<>>[i].body)] = <<>>
  OBVIOUS
<1> QED BY <1>1, <1>2, FlattenEmpty DEF FoldersIn, ItemsIn

\* After n of the list, the folder itself and n - 1 items: what is sent and
\* what is not, together, is all there is.
PackedSoFar(id, n) ==
  LET s == Packing(id)[n] IN
  /\ s.done \in Seq(Parcel) /\ s.folders \in Seq(Byte) /\ s.items \in Seq(Byte)
  /\ FoldersIn(s.done) \o s.folders = FoldersToSend(id)
  /\ ItemsIn(s.done) \o s.items = SubSeq(ItemsToSend(id), 1, n - 1)
  /\ Len(s.items) <= PerPacket
  /\ Len(s.folders) <= MaxByte

LEMMA DescendentsAreParcels ==
  ASSUME NEW id \in Byte, NEW folders \in Seq(Byte), NEW items \in Seq(Byte), NEW total \in Nat,
         Len(folders) <= MaxByte, Len(items) <= PerPacket + 1
  PROVE  LET m == Descendents(id, folders, items, total) IN
         m \in Parcel /\ FoldersOf(m.body) = folders /\ ItemsOf(m.body) = items
<1>1. Len(items) <= MaxByte
  BY LenProperties, PacketAssumption, ByteAssumption
<1> DEFINE m == Descendents(id, folders, items, total)
<1>2. m \in Message /\ FoldersOf(m.body) = folders /\ ItemsOf(m.body) = items
  BY <1>1, DescendentsAreRead
<1> HIDE DEF m
<1>3. m \in Parcel /\ FoldersOf(m.body) = folders /\ ItemsOf(m.body) = items
  BY <1>2 DEF Parcel
<1> QED BY <1>3 DEF m

LEMMA PackedIs ==
  ASSUME AnswersFit, NEW id \in Byte, Folders[id] # NotFound
  PROVE  \A n \in 1 .. Len(ItemsToSend(id)) + 1 : PackedSoFar(id, n)
<1> DEFINE items == ItemsToSend(id)
           list == Desc(id).Items
           S == {n \in 0 .. Len(items) : PackedSoFar(id, n + 1)}
<1>0. Len(items) \in Nat /\ items \in Seq(Byte) /\ PerPacket \in Nat
  BY ToSendAre, PacketAssumption
<1>l. /\ Len(list) = Len(items) + 1 /\ list[1].IsFolder
      /\ \A n \in 1 .. Len(items) : list[n + 1].ID = items[n] /\ ~list[n + 1].IsFolder
  <2>1. items = Folders[id].items /\ items \in Seq(Byte) /\ list = ChildElements(id, ItemElements(items))
    BY DescIs DEF ItemsToSend
  <2> HIDE DEF items, list
  <2> QED BY <2>1, ItemListIs
<1>1. 0 \in S
  <2> DEFINE f == Packing(id)
             all == FoldersToSend(id)
  <2>1. f[0] = [done |-> <<>>, folders |-> all, items |-> <<>>]
    BY PackingIs
  <2>a. f[1] = f[0]
    <3>1. 1 \in 1 .. Len(list) /\ 1 - 1 = 0
      BY <1>0, <1>l
    <3>2. f[1] = AddItem(id, f[0], list[1])
      <4>1. \A n \in 1 .. Len(list) : f[n] = AddItem(id, f[n - 1], list[n])
        BY PackingIs
      <4> HIDE DEF f, list
      <4> QED BY <3>1, <4>1
    <3> HIDE DEF f, list
    <3> QED BY <1>l, <3>2 DEF AddItem
  <2>2. SubSeq(items, 1, 0) = <<>>
    BY <1>0, SubSeqEmpty
  <2>3. <<>> \o all = all /\ <<>> \o <<>> = <<>>
    BY ToSendAre, ConcatEmptySeq
  <2>4. Len(all) <= MaxByte
    BY ToSendAre DEF AnswersFit
  <2>5. Len(<<>>) <= PerPacket /\ <<>> \in Seq(Parcel) /\ <<>> \in Seq(Byte)
    BY <1>0
  <2>t. all \in Seq(Byte)
    BY ToSendAre
  <2> DEFINE s == f[1]
  <2> HIDE DEF f, all, items
  <2>6. s.done = <<>> /\ s.folders = all /\ s.items = <<>>
    BY <2>1, <2>a
  <2> HIDE DEF s
  <2>7. /\ s.done \in Seq(Parcel) /\ s.folders \in Seq(Byte) /\ s.items \in Seq(Byte)
        /\ FoldersIn(s.done) \o s.folders = all
        /\ ItemsIn(s.done) \o s.items = SubSeq(items, 1, 0)
        /\ Len(s.items) <= PerPacket /\ Len(s.folders) <= MaxByte
    BY <2>2, <2>3, <2>4, <2>5, <2>6, <2>t, NothingIn
  <2>8. PackedSoFar(id, 1)
    <3>1. 1 - 1 = 0
      OBVIOUS
    <3> QED BY <2>7, <3>1 DEF PackedSoFar, s, f, all, items
  <2>9. 0 + 1 = 1 /\ 0 \in 0 .. Len(items)
    BY <1>0 DEF items
  <2> QED BY <2>8, <2>9 DEF items
<1>2. ASSUME NEW n \in 1 .. Len(items), n - 1 \in S PROVE n \in S
  <2> DEFINE s == Packing(id)[n]
             item == items[n]
             now == Append(s.items, item)
             total == Len(s.folders) + Len(now)
             m == Descendents(id, s.folders, now, total)
             r == Packing(id)[n + 1]
  <2>0. /\ n \in 0 .. Len(list) /\ n + 1 \in 1 .. Len(list)
        /\ (n - 1) + 1 = n /\ (n + 1) - 1 = n
    BY <1>0, <1>l
  <2>1. /\ s.done \in Seq(Parcel) /\ s.folders \in Seq(Byte) /\ s.items \in Seq(Byte)
        /\ FoldersIn(s.done) \o s.folders = FoldersToSend(id)
        /\ ItemsIn(s.done) \o s.items = SubSeq(items, 1, n - 1)
        /\ Len(s.items) <= PerPacket /\ Len(s.folders) <= MaxByte
    <3>1. PackedSoFar(id, n)
      BY <1>2, <2>0
    <3> QED BY <3>1 DEF PackedSoFar
  <2>2. s \in Packer /\ s = [done |-> s.done, folders |-> s.folders, items |-> s.items]
    <3>1. s \in Packer
      BY <2>0, PackingIs
    <3> QED BY <3>1 DEF Packer
  <2>3. r = AddItem(id, s, list[n + 1]) /\ ~list[n + 1].IsFolder /\ list[n + 1].ID = item
    <3>1. \A k \in 1 .. Len(list) : Packing(id)[k] = AddItem(id, Packing(id)[k - 1], list[k])
      BY PackingIs
    <3> HIDE DEF list, items
    <3> QED BY <1>l, <2>0, <3>1
  <2>4. item \in Byte
    BY <1>0, ElementOfSeq
  <2> HIDE DEF s, item, r, list
  <2>5. now \in Seq(Byte) /\ Len(now) = Len(s.items) + 1 /\ now = s.items \o <<item>> /\ <<item>> \in Seq(Byte)
    BY <2>1, <2>4, AppendProperties, AppendIsConcat
  <2>6. /\ FoldersIn(s.done) \in Seq(Byte) /\ ItemsIn(s.done) \in Seq(Byte)
    <3> PICK p \in Parcel : TRUE
      <4>1. Descendents(id, <<>>, <<>>, 0) \in Parcel
        <5>1. /\ <<>> \in Seq(Byte) /\ Len(<<>>) <= MaxByte /\ Len(<<>>) <= PerPacket + 1 /\ 0 \in Nat
          BY <1>0, ByteAssumption
        <5> QED BY <5>1, DescendentsAreParcels
      <4> QED BY <4>1
    <3> QED BY <2>1, ParcelAdds
  <2>7. ItemsIn(s.done) \o now = SubSeq(items, 1, n)
    <3>1. ItemsIn(s.done) \o (s.items \o <<item>>) = (ItemsIn(s.done) \o s.items) \o <<item>>
      <4>1. ItemsIn(s.done) \in Seq(Byte) /\ s.items \in Seq(Byte) /\ <<item>> \in Seq(Byte)
        BY <2>1, <2>5, <2>6
      <4> DEFINE x == ItemsIn(s.done)
                 y == s.items
                 z == <<item>>
      <4>2. x \in Seq(Byte) /\ y \in Seq(Byte) /\ z \in Seq(Byte)
        BY <4>1
      <4> HIDE DEF x, y, z
      <4>3. (x \o y) \o z = x \o (y \o z)
        BY <4>2, ConcatAssociative
      <4> QED BY <4>3 DEF x, y, z
    <3>2. SubSeq(items, 1, n) = SubSeq(items, 1, n - 1) \o <<item>>
      BY <1>0, SubSeqRecursiveSecond DEF item
    <3> QED BY <2>1, <2>5, <3>1, <3>2
  <2>8. n \in 0 .. Len(items)
    BY <1>0
  <2>9. CASE Len(now) > PerPacket
    <3>1. r = [done |-> Append(s.done, m), folders |-> <<>>, items |-> <<>>]
      BY <2>3, <2>9 DEF AddItem
    <3>2. total \in Nat /\ Len(now) <= PerPacket + 1
      <4>1. Len(s.folders) \in Nat /\ Len(s.items) \in Nat
        BY <2>1, LenProperties
      <4>2. Len(s.items) <= PerPacket /\ Len(now) = Len(s.items) + 1
        BY <2>1, <2>5
      <4> HIDE DEF now
      <4>3. Len(now) \in Nat /\ Len(now) <= PerPacket + 1
        BY <1>0, <4>1, <4>2
      <4> QED BY <4>1, <4>3
    <3>3. m \in Parcel /\ FoldersOf(m.body) = s.folders /\ ItemsOf(m.body) = now
      <4>1. /\ s.folders \in Seq(Byte) /\ Len(s.folders) <= MaxByte
            /\ now \in Seq(Byte) /\ Len(now) <= PerPacket + 1 /\ total \in Nat
        <5> HIDE DEF total, now
        <5> QED BY <2>1, <2>5, <3>2
      <4> HIDE DEF total, now, s
      <4> QED BY <4>1, DescendentsAreParcels
    <3> HIDE DEF m, now
    <3>4. /\ Append(s.done, m) \in Seq(Parcel)
          /\ FoldersIn(Append(s.done, m)) = FoldersToSend(id)
          /\ ItemsIn(Append(s.done, m)) = SubSeq(items, 1, n)
      <4>1. /\ FoldersIn(Append(s.done, m)) = FoldersIn(s.done) \o FoldersOf(m.body)
            /\ ItemsIn(Append(s.done, m)) = ItemsIn(s.done) \o ItemsOf(m.body)
        BY <2>1, <3>3, ParcelAdds
      <4>2. Append(s.done, m) \in Seq(Parcel)
        BY <2>1, <3>3, AppendProperties
      <4> QED BY <2>1, <2>7, <3>3, <4>1, <4>2
    <3>5. /\ FoldersToSend(id) \o <<>> = FoldersToSend(id)
          /\ SubSeq(items, 1, n) \o <<>> = SubSeq(items, 1, n)
      <4>1. SubSeq(items, 1, n) \in Seq(Byte)
        BY <1>0, <2>8, FirstIs
      <4> QED BY <4>1, ToSendAre, ConcatEmptySeq
    <3>6. r.done = Append(s.done, m) /\ r.folders = <<>> /\ r.items = <<>>
      BY <3>1
    <3>7. Len(<<>>) <= PerPacket /\ Len(<<>>) <= MaxByte /\ <<>> \in Seq(Byte)
      BY <1>0, ByteAssumption
    <3>8. PackedSoFar(id, n + 1)
      BY <2>0, <3>4, <3>5, <3>6, <3>7 DEF PackedSoFar, r
    <3> QED BY <2>8, <3>8
  <2>10. CASE ~(Len(now) > PerPacket)
    <3>1. r = [done |-> s.done, folders |-> s.folders, items |-> now]
      BY <2>2, <2>3, <2>10 DEF AddItem
    <3>2. r.done = s.done /\ r.folders = s.folders /\ r.items = now
      BY <3>1
    <3>3. Len(now) <= PerPacket
      BY <1>0, <2>5, <2>10, LenProperties
    <3> HIDE DEF now
    <3>4. PackedSoFar(id, n + 1)
      BY <2>0, <2>1, <2>5, <2>7, <3>2, <3>3 DEF PackedSoFar, r
    <3> QED BY <2>8, <3>4
  <2> QED BY <2>9, <2>10
<1>3. \A n \in 0 .. Len(items) : n \in S
  <2>1. Len(items) \in Nat
    BY <1>0
  <2> HIDE DEF S, items
  <2> QED BY <1>1, <1>2, <2>1, InductTo
<1>4. ASSUME NEW n \in 1 .. Len(items) + 1 PROVE PackedSoFar(id, n)
  <2>1. n - 1 \in 0 .. Len(items) /\ (n - 1) + 1 = n
    BY <1>0
  <2> QED BY <1>3, <2>1
<1> QED BY <1>4


LEMMA TwoMore ==
  ASSUME NEW T, NEW s \in Seq(T), NEW a \in T, NEW b \in T
  PROVE  /\ s \o <<a, b>> = Append(Append(s, a), b)
         /\ Append(s, a) \in Seq(T) /\ Append(Append(s, a), b) \in Seq(T)
<1>1. Append(s, a) \in Seq(T) /\ Append(s, a) = s \o <<a>>
  BY AppendProperties, AppendIsConcat
<1>2. Append(Append(s, a), b) \in Seq(T) /\ Append(Append(s, a), b) = Append(s, a) \o <<b>>
  BY <1>1, AppendProperties, AppendIsConcat
<1>3. <<a>> \in Seq(T) /\ <<b>> \in Seq(T) /\ <<a>> \o <<b>> = <<a, b>>
  <2>1. /\ <<a>> \in Seq(T) /\ <<b>> \in Seq(T) /\ <<a, b>> \in Seq(T)
        /\ Len(<<a>>) = 1 /\ Len(<<b>>) = 1 /\ Len(<<a, b>>) = 2
        /\ <<a>>[1] = a /\ <<b>>[1] = b /\ <<a, b>>[1] = a /\ <<a, b>>[2] = b
    OBVIOUS
  <2> DEFINE x == <<a>>
             y == <<b>>
             z == <<a, b>>
  <2>2. /\ x \in Seq(T) /\ y \in Seq(T) /\ z \in Seq(T) /\ Len(x) = 1 /\ Len(y) = 1 /\ Len(z) = 2
        /\ x[1] = a /\ y[1] = b /\ z[1] = a /\ z[2] = b
    BY <2>1
  <2> HIDE DEF x, y, z
  <2>3. Joins(z, x, y)
    BY <2>2 DEF Joins
  <2>4. x \o y = z
    BY <2>2, <2>3, ConcatIs
  <2> QED BY <2>1, <2>4 DEF x, y, z
<1>4. (s \o <<a>>) \o <<b>> = s \o (<<a>> \o <<b>>)
  BY <1>3, ConcatAssociative
<1> QED BY <1>1, <1>2, <1>3, <1>4

\* The answer: what the loop has sent, the rest, and a packet with nothing.
LEMMA DescendentsMessagesType ==
  ASSUME NEW id \in Byte
  PROVE  DescendentsMessages(id) \in Seq(Listing)
<1> DEFINE desc == Desc(id)
           s == Packing(id)[Len(desc.Items)]
           total == Len(desc.Folders) + Len(desc.Items)
           rest == Descendents(id, s.folders, s.items, total)
           none == Descendents(id, <<>>, <<>>, 0)
<1>1. s.done \in Seq(Listing) /\ s.folders \in Seq(Byte) /\ s.items \in Seq(Byte)
  <2>1. Len(desc.Items) \in 0 .. Len(desc.Items)
    BY DescIs
  <2> QED BY <2>1, PackingIs DEF Packer
<1>2. total \in Nat /\ 0 \in Nat /\ <<>> \in Seq(Byte)
  <2>1. Len(desc.Folders) \in Nat /\ Len(desc.Items) \in Nat
    BY DescIs
  <2>2. total \in Nat
    <3>1. \A x, y \in Nat : x + y \in Nat
      OBVIOUS
    <3> QED BY <2>1, <3>1, Zenon
  <2> QED BY <2>2, EmptySeq
<1>3. DescendentsMessages(id) = s.done \o <<rest, none>>
  BY DEF DescendentsMessages
<1> HIDE DEF s, total
<1>4. rest \in Listing /\ none \in Listing
  BY <1>1, <1>2, DescendentsAreRead DEF Listing
<1> HIDE DEF rest, none
<1> QED BY <1>1, <1>3, <1>4, TwoMore

LEMMA AnswerIsComplete ==
  ASSUME AnswersFit, NEW id \in Byte
  PROVE  LET messages == DescendentsMessages(id) IN
         /\ messages \in Seq(Parcel)
         /\ FoldersIn(messages) = FoldersToSend(id)
         /\ ItemsIn(messages) = ItemsToSend(id)
         /\ \E i \in 1 .. Len(messages) :
              FromS32(messages[i].body[3], messages[i].body[4]) = Len(Desc(id).Folders) + Len(Desc(id).Items)
<1> DEFINE desc == Desc(id)
           s == Packing(id)[Len(desc.Items)]
           total == Len(desc.Folders) + Len(desc.Items)
           rest == Descendents(id, s.folders, s.items, total)
           none == Descendents(id, <<>>, <<>>, 0)
           messages == DescendentsMessages(id)
<1> DEFINE folders == FoldersToSend(id)
           items == ItemsToSend(id)
<1>0. PerPacket \in Nat /\ Len(items) \in Nat /\ MaxByte \in Nat
  BY ToSendAre, PacketAssumption, ByteAssumption
<1>1. /\ s.done \in Seq(Parcel) /\ s.folders \in Seq(Byte) /\ s.items \in Seq(Byte)
      /\ FoldersIn(s.done) \o s.folders = folders
      /\ ItemsIn(s.done) \o s.items = items
      /\ Len(s.items) <= PerPacket /\ Len(s.folders) <= MaxByte
  <2>1. CASE Folders[id] = NotFound
    <3>1. desc.Items = <<>> /\ folders = <<>> /\ items = <<>>
      BY <2>1, DescIs DEF FoldersToSend, ItemsToSend
    <3>2. s = [done |-> <<>>, folders |-> <<>>, items |-> <<>>]
      <4>1. Packing(id)[0] = [done |-> <<>>, folders |-> folders, items |-> <<>>]
        BY PackingIs
      <4>2. Len(desc.Items) = 0
        BY <3>1
      <4> HIDE DEF desc, folders, items
      <4> QED BY <3>1, <4>1, <4>2
    <3>3. s.done = <<>> /\ s.folders = <<>> /\ s.items = <<>>
      BY <3>2
    <3>4. /\ <<>> \in Seq(Parcel) /\ <<>> \in Seq(Byte) /\ <<>> \o <<>> = <<>>
          /\ Len(<<>>) <= PerPacket /\ Len(<<>>) <= MaxByte
      BY <1>0, ConcatEmptySeq
    <3> HIDE DEF s, folders, items
    <3> QED BY <3>1, <3>3, <3>4, NothingIn
  <2>2. CASE Folders[id] # NotFound
    <3>1. Len(desc.Items) = Len(items) + 1
      <4>1. items = Folders[id].items /\ items \in Seq(Byte) /\ desc.Items = ChildElements(id, ItemElements(items))
        BY <2>2, DescIs DEF ItemsToSend
      <4> HIDE DEF items, desc
      <4> QED BY <4>1, ItemListIs
    <3>2. PackedSoFar(id, Len(desc.Items))
      <4>1. Len(items) + 1 \in 1 .. Len(items) + 1
        BY <1>0
      <4> QED BY <2>2, <3>1, <4>1, PackedIs
    <3>3. SubSeq(items, 1, Len(desc.Items) - 1) = items
      <4>1. Len(desc.Items) - 1 = Len(items)
        BY <1>0, <3>1
      <4> QED BY <4>1, ToSendAre, SubSeqFull
    <3> QED BY <3>2, <3>3 DEF PackedSoFar
  <2> QED BY <2>1, <2>2
<1>2. total \in Nat /\ 0 \in Nat /\ <<>> \in Seq(Byte) /\ Fits(total)
  <2>1. Len(desc.Folders) \in Nat /\ Len(desc.Items) \in Nat
    BY DescIs
  <2>2. Fits(total)
    BY DEF AnswersFit
  <2>3. total \in Nat
    <3>1. \A x, y \in Nat : x + y \in Nat
      OBVIOUS
    <3> QED BY <2>1, <3>1, Zenon
  <2> QED BY <2>2, <2>3, EmptySeq
<1>3. messages = s.done \o <<rest, none>>
  BY DEF DescendentsMessages
<1> HIDE DEF s, total, desc, folders, items
<1>4. Len(s.items) <= PerPacket + 1 /\ Len(<<>>) <= MaxByte /\ Len(<<>>) <= PerPacket + 1
  <2>1. Len(s.items) \in Nat
    BY <1>1, LenProperties
  <2>2. Len(<<>>) = 0
    OBVIOUS
  <2> QED BY <1>0, <1>1, <2>1, <2>2
<1>5. rest \in Parcel /\ FoldersOf(rest.body) = s.folders /\ ItemsOf(rest.body) = s.items
  BY <1>1, <1>2, <1>4, DescendentsAreParcels
<1>6. none \in Parcel /\ FoldersOf(none.body) = <<>> /\ ItemsOf(none.body) = <<>>
  BY <1>2, <1>4, DescendentsAreParcels
<1>7. FromS32(rest.body[3], rest.body[4]) = total
  BY <1>1, <1>2, DescendentsAreRead
<1> HIDE DEF rest, none, messages
<1>8. messages = Append(Append(s.done, rest), none) /\ Append(s.done, rest) \in Seq(Parcel) /\ messages \in Seq(Parcel)
  BY <1>1, <1>3, <1>5, <1>6, TwoMore
<1>9. /\ FoldersIn(Append(s.done, rest)) = folders
      /\ ItemsIn(Append(s.done, rest)) = items
  <2>1. /\ FoldersIn(Append(s.done, rest)) = FoldersIn(s.done) \o FoldersOf(rest.body)
        /\ ItemsIn(Append(s.done, rest)) = ItemsIn(s.done) \o ItemsOf(rest.body)
    BY <1>1, <1>5, ParcelAdds
  <2> QED BY <1>1, <1>5, <2>1
<1>10. FoldersIn(messages) = folders /\ ItemsIn(messages) = items
  <2>1. /\ FoldersIn(messages) = FoldersIn(Append(s.done, rest)) \o FoldersOf(none.body)
        /\ ItemsIn(messages) = ItemsIn(Append(s.done, rest)) \o ItemsOf(none.body)
    BY <1>6, <1>8, ParcelAdds
  <2>2. folders \o <<>> = folders /\ items \o <<>> = items
    BY ToSendAre, ConcatEmptySeq DEF folders, items
  <2> QED BY <1>6, <1>9, <2>1, <2>2
<1>11. \E i \in 1 .. Len(messages) : messages[i] = rest
  <2>1. /\ Len(Append(s.done, rest)) = Len(s.done) + 1 /\ Append(s.done, rest)[Len(s.done) + 1] = rest
        /\ Len(s.done) \in Nat
    BY <1>1, <1>5, AppendProperties, LenProperties
  <2> DEFINE t == Append(s.done, rest)
  <2>2. t \in Seq(Parcel) /\ Len(t) = Len(s.done) + 1 /\ t[Len(s.done) + 1] = rest /\ messages = Append(t, none)
    BY <1>8, <2>1
  <2> HIDE DEF t
  <2>3. Len(messages) = Len(t) + 1 /\ \A i \in 1 .. Len(t) : messages[i] = t[i]
    BY <1>6, <2>2, AppendProperties
  <2>4. Len(s.done) + 1 \in 1 .. Len(t) /\ Len(s.done) + 1 \in 1 .. Len(messages)
    BY <2>1, <2>2, <2>3
  <2> QED BY <2>2, <2>3, <2>4
<1>12. \E i \in 1 .. Len(messages) : FromS32(messages[i].body[3], messages[i].body[4]) = total
  BY <1>7, <1>11
<1> QED BY <1>8, <1>10, <1>12 DEF messages, desc, total, folders, items

LEMMA TransferInfoIs ==
  ASSUME NEW n \in Byte, NEW status \in {0, 1}, NEW size \in Nat
  PROVE  LET m == TransferInfo(n, status, size) IN
         /\ m \in Message /\ m.body[1] = 2 /\ m.body[2] = n /\ m.body[3] = status
         /\ Fits(size) => FromS32(m.body[4], m.body[5]) = size
<1> DEFINE front == <<2, n, status>>
           num == S32(size)
           m == TransferInfo(n, status, size)
<1>1. /\ front \in Seq(Byte) /\ Len(front) = 3 /\ front[1] = 2 /\ front[2] = n /\ front[3] = status
  BY ByteFacts
<1>2. num \in Seq(Byte) /\ Len(num) = 2
  BY S32Type
<1>3. m = [zerocoded |-> TRUE, body |-> front \o num]
  BY DEF TransferInfo
<1> HIDE DEF front, num
<1>4. /\ front \o num \in Seq(Byte)
      /\ \A i \in 1 .. Len(front) : (front \o num)[i] = front[i]
      /\ \A i \in 1 .. Len(num) : (front \o num)[Len(front) + i] = num[i]
  <2>1. front \in Seq(Byte) /\ num \in Seq(Byte)
    BY <1>1, <1>2
  <2>2. front \o num \in Seq(Byte) /\ Joins(front \o num, front, num)
    BY <2>1, ConcatJoins
  <2> QED BY <2>2 DEF Joins
<1> DEFINE body == front \o num
<1> HIDE DEF body
<1>5. /\ body \in Seq(Byte) /\ body[1] = 2 /\ body[2] = n /\ body[3] = status
      /\ body[4] = num[1] /\ body[5] = num[2]
  <2>1. 1 \in 1 .. Len(front) /\ 2 \in 1 .. Len(front) /\ 3 \in 1 .. Len(front) /\ 1 \in 1 .. Len(num) /\ 2 \in 1 .. Len(num)
    BY <1>1, <1>2
  <2>2. body[1] = front[1] /\ body[2] = front[2] /\ body[3] = front[3]
    BY <1>4, <2>1 DEF body
  <2>3. body[Len(front) + 1] = num[1] /\ body[Len(front) + 2] = num[2]
    BY <1>4, <2>1 DEF body
  <2>4. body \in Seq(Byte)
    BY <1>4 DEF body
  <2> QED BY <1>1, <2>2, <2>3, <2>4
<1>6. Fits(size) => FromS32(num[1], num[2]) = size
  BY S32IsRead DEF num
<1>7. m.body = body /\ m = [zerocoded |-> TRUE, body |-> body]
  BY <1>3 DEF body
<1>8. m \in Message
  BY <1>5, <1>7 DEF Message
<1> HIDE DEF m
<1>9. m.body[1] = 2 /\ m.body[2] = n /\ m.body[3] = status /\ m.body[4] = num[1] /\ m.body[5] = num[2]
  BY <1>5, <1>7
<1>10. /\ m \in Message /\ m.body[1] = 2 /\ m.body[2] = n /\ m.body[3] = status
       /\ Fits(size) => FromS32(m.body[4], m.body[5]) = size
  BY <1>6, <1>8, <1>9
<1> QED BY <1>10 DEF m

\* A viewer reads of a TransferPacket what was written to it.
LEMMA TransferPacketIs ==
  ASSUME NEW n \in Byte, NEW packet \in Nat, NEW status \in {0, 1}, NEW data \in Seq(Byte), Len(data) <= MaxByte
  PROVE  LET m == TransferPacket(n, packet, status, data) IN
         /\ m \in Message /\ m.body[1] = 3 /\ m.body[2] = n /\ m.body[5] = status
         /\ Fits(packet) => FromS32(m.body[3], m.body[4]) = packet
         /\ SubSeq(m.body, 7, 6 + m.body[6]) = data
<1> DEFINE front == <<3, n>>
           num == S32(packet)
           tail == <<status, U8(Len(data))>>
           fn == front \o num
           fnt == fn \o tail
           body == fnt \o data
           m == TransferPacket(n, packet, status, data)
<1>0. m = [zerocoded |-> FALSE, body |-> body]
  BY DEF TransferPacket
<1>1. front \in Seq(Byte) /\ Len(front) = 2 /\ front[1] = 3 /\ front[2] = n
  BY ByteFacts
<1>2. num \in Seq(Byte) /\ Len(num) = 2
  BY S32Type
<1>3. tail \in Seq(Byte) /\ Len(tail) = 2 /\ tail[1] = status /\ tail[2] = Len(data) /\ Len(data) \in Nat
  <2>1. Len(data) \in Nat
    BY LenProperties
  <2>2. U8(Len(data)) = Len(data) /\ U8(Len(data)) \in Byte /\ status \in Byte
    BY <2>1, U8Type, ByteFacts
  <2> QED BY <2>1, <2>2
<1>4. Fits(packet) => FromS32(num[1], num[2]) = packet
  BY S32IsRead
<1> HIDE DEF front, num, tail
<1>5. /\ fn \in Seq(Byte) /\ Len(fn) = 4 /\ fn[1] = 3 /\ fn[2] = n /\ fn[3] = num[1] /\ fn[4] = num[2]
  <2>1. 1 \in 1 .. Len(front) /\ 2 \in 1 .. Len(front) /\ 1 \in 1 .. Len(num) /\ 2 \in 1 .. Len(num)
    BY <1>1, <1>2
  <2>2. /\ fn \in Seq(Byte) /\ Len(fn) = Len(front) + Len(num)
        /\ \A i \in 1 .. Len(front) : fn[i] = front[i]
        /\ \A i \in 1 .. Len(num) : fn[Len(front) + i] = num[i]
    <3>1. front \in Seq(Byte) /\ num \in Seq(Byte)
      BY <1>1, <1>2
    <3>2. fn \in Seq(Byte) /\ Joins(fn, front, num)
      BY <3>1, ConcatJoins
    <3> HIDE DEF fn
    <3> QED BY <3>2 DEF Joins
  <2> HIDE DEF fn
  <2>3. fn[1] = front[1] /\ fn[2] = front[2] /\ fn[Len(front) + 1] = num[1] /\ fn[Len(front) + 2] = num[2]
    BY <2>1, <2>2
  <2> QED BY <1>1, <1>2, <2>2, <2>3
<1> HIDE DEF fn
<1>6. /\ fnt \in Seq(Byte) /\ Len(fnt) = 6 /\ fnt[1] = 3 /\ fnt[2] = n /\ fnt[3] = num[1] /\ fnt[4] = num[2]
      /\ fnt[5] = status /\ fnt[6] = Len(data)
  <2>1. /\ 1 \in 1 .. Len(fn) /\ 2 \in 1 .. Len(fn) /\ 3 \in 1 .. Len(fn) /\ 4 \in 1 .. Len(fn)
        /\ 1 \in 1 .. Len(tail) /\ 2 \in 1 .. Len(tail)
    BY <1>3, <1>5
  <2>2. /\ fnt \in Seq(Byte) /\ Len(fnt) = Len(fn) + Len(tail)
        /\ \A i \in 1 .. Len(fn) : fnt[i] = fn[i]
        /\ \A i \in 1 .. Len(tail) : fnt[Len(fn) + i] = tail[i]
    <3>1. fn \in Seq(Byte) /\ tail \in Seq(Byte)
      BY <1>3, <1>5
    <3>2. fnt \in Seq(Byte) /\ Joins(fnt, fn, tail)
      BY <3>1, ConcatJoins
    <3> HIDE DEF fnt
    <3> QED BY <3>2 DEF Joins
  <2> HIDE DEF fnt
  <2>3. /\ fnt[1] = fn[1] /\ fnt[2] = fn[2] /\ fnt[3] = fn[3] /\ fnt[4] = fn[4]
        /\ fnt[Len(fn) + 1] = tail[1] /\ fnt[Len(fn) + 2] = tail[2]
    BY <2>1, <2>2
  <2> QED BY <1>3, <1>5, <2>2, <2>3
<1> HIDE DEF fnt
<1>7. body \in Seq(Byte) /\ \A i \in 1 .. 6 : body[i] = fnt[i]
  <2>1. 1 .. 6 = 1 .. Len(fnt)
    BY <1>6
  <2>2. body \in Seq(Byte) /\ \A i \in 1 .. Len(fnt) : body[i] = fnt[i]
    BY <1>6, ConcatAt
  <2> HIDE DEF body
  <2> QED BY <2>1, <2>2
<1>8. SubSeq(body, 7, 6 + Len(data)) = data
  <2>1. SubSeq((fnt \o data) \o <<>>, Len(fnt) + 1, Len(fnt) + Len(data)) = data
    <3>1. fnt \in Seq(Byte) /\ <<>> \in Seq(Byte)
      BY <1>6, EmptySeq
    <3> QED BY <3>1, MiddleOf
  <2>2. body \o <<>> = body
    BY <1>7, ConcatEmptySeq
  <2>3. SubSeq(body \o <<>>, Len(fnt) + 1, Len(fnt) + Len(data)) = data
    BY <2>1
  <2>4. Len(fnt) + 1 = 7 /\ Len(fnt) + Len(data) = 6 + Len(data)
    BY <1>3, <1>6
  <2> HIDE DEF body
  <2> QED BY <2>2, <2>3, <2>4
<1> HIDE DEF body, m
<1>9. m.body = body /\ m \in Message
  BY <1>0, <1>7 DEF Message
<1>10. /\ body[1] = 3 /\ body[2] = n /\ body[3] = num[1] /\ body[4] = num[2]
       /\ body[5] = status /\ body[6] = Len(data)
  BY <1>6, <1>7
<1>11. /\ m \in Message /\ m.body[1] = 3 /\ m.body[2] = n /\ m.body[5] = status
       /\ Fits(packet) => FromS32(m.body[3], m.body[4]) = packet
       /\ SubSeq(m.body, 7, 6 + m.body[6]) = data
  BY <1>4, <1>8, <1>9, <1>10
<1> QED BY <1>11 DEF m

LEMMA Multiples ==
  /\ \A c \in Nat : c * MAX_SZ \in Nat /\ (c + 1) * MAX_SZ = c * MAX_SZ + MAX_SZ /\ c <= c * MAX_SZ
  /\ \A c, d \in Nat : c <= d => c * MAX_SZ <= d * MAX_SZ
<1>0. MAX_SZ \in Nat \ {0}
  BY PacketAssumption, ByteAssumption
<1>1. ASSUME NEW c \in Nat
      PROVE  c * MAX_SZ \in Nat /\ (c + 1) * MAX_SZ = c * MAX_SZ + MAX_SZ /\ c <= c * MAX_SZ
  <2>1. c * MAX_SZ \in Nat
    BY <1>0
  <2>2. (c + 1) * MAX_SZ = c * MAX_SZ + MAX_SZ
    BY <1>0
  <2>3. c <= c * MAX_SZ
    BY <1>0
  <2> QED BY <2>1, <2>2, <2>3
<1>2. ASSUME NEW c \in Nat, NEW d \in Nat, c <= d
      PROVE  c * MAX_SZ <= d * MAX_SZ
  BY <1>0, <1>2
<1> QED BY <1>1, <1>2

LEMMA MinOfTwo ==
  ASSUME NEW a \in Int, NEW b \in Int
  PROVE  Min({a, b}) = IF a <= b THEN a ELSE b
<1>1. \E x \in {a, b} : \A y \in {a, b} : x <= y
  OBVIOUS
<1>2. Min({a, b}) \in {a, b} /\ \A y \in {a, b} : Min({a, b}) <= y
  BY <1>1 DEF Min
<1> QED BY <1>2

\* The number of the last packet of a transfer.
LastPacket(data) == IF Len(data) <= MAX_SZ THEN 0 ELSE (Len(data) - 1) \div MAX_SZ

LEMMA LastPacketIs ==
  ASSUME NEW data \in Seq(Byte)
  PROVE  /\ LastPacket(data) \in Nat /\ Len(data) \in Nat
         /\ LastPacket(data) * MAX_SZ <= Len(data) /\ LastPacket(data) <= Len(data)
         /\ Len(data) <= (LastPacket(data) + 1) * MAX_SZ
<1>0. MAX_SZ \in Nat \ {0} /\ Len(data) \in Nat
  BY PacketAssumption, ByteAssumption, LenProperties
<1>1. CASE Len(data) <= MAX_SZ
  <2>1. LastPacket(data) = 0
    BY <1>1 DEF LastPacket
  <2>2. 0 * MAX_SZ = 0 /\ (0 + 1) * MAX_SZ = MAX_SZ
    BY <1>0
  <2> QED BY <1>0, <1>1, <2>1, <2>2
<1>2. CASE ~(Len(data) <= MAX_SZ)
  <2> DEFINE n == Len(data) - 1
             q == n \div MAX_SZ
             r == n % MAX_SZ
  <2>1. n \in Nat
    BY <1>0, <1>2
  <2>2. r \in 0 .. MAX_SZ - 1 /\ q \in Nat /\ n = MAX_SZ * q + r
    <3> HIDE DEF n
    <3> QED BY <1>0, <2>1, DivMod
  <2>3. LastPacket(data) = q
    BY <1>2 DEF LastPacket
  <2>4. MAX_SZ * q = q * MAX_SZ
    <3> HIDE DEF q
    <3> QED BY <1>0, <2>2
  <2> HIDE DEF q, r
  <2>5. q * MAX_SZ \in Nat /\ (q + 1) * MAX_SZ = q * MAX_SZ + MAX_SZ /\ q <= q * MAX_SZ
    BY <2>2, Multiples
  <2>6. q * MAX_SZ <= n /\ n + 1 <= q * MAX_SZ + MAX_SZ
    <3> HIDE DEF n
    <3> QED BY <1>0, <2>1, <2>2, <2>4, <2>5
  <2> QED BY <1>0, <2>2, <2>3, <2>5, <2>6
<1> QED BY <1>1, <1>2

\* How many bytes the first k pieces are.
Upto(data, k) == IF Len(data) <= k * MAX_SZ THEN Len(data) ELSE k * MAX_SZ

\* A piece fits a packet and continues the ones before it.
LEMMA PieceIs ==
  ASSUME NEW data \in Seq(Byte), NEW k \in 0 .. LastPacket(data)
  PROVE  /\ Piece(data, k) \in Seq(Byte) /\ Len(Piece(data, k)) <= MAX_SZ
         /\ SubSeq(data, 1, Upto(data, k)) \in Seq(Byte)
         /\ SubSeq(data, 1, Upto(data, k + 1)) = SubSeq(data, 1, Upto(data, k)) \o Piece(data, k)
<1> DEFINE from == k * MAX_SZ
           end == Upto(data, k + 1)
           piece == SubSeq(data, from + 1, end)
<1>0. MAX_SZ \in Nat \ {0} /\ Len(data) \in Nat /\ k \in Nat /\ LastPacket(data) \in Nat
  BY PacketAssumption, ByteAssumption, LastPacketIs
<1>1. from \in Nat /\ (k + 1) * MAX_SZ = from + MAX_SZ /\ (k + 1) * MAX_SZ \in Nat
  <2>1. k + 1 \in Nat
    BY <1>0
  <2> QED BY <1>0, <2>1, Multiples
<1>2. from <= Len(data)
  <2>1. from <= LastPacket(data) * MAX_SZ
    BY <1>0, Multiples
  <2>2. LastPacket(data) * MAX_SZ \in Nat /\ LastPacket(data) * MAX_SZ <= Len(data)
    BY <1>0, Multiples, LastPacketIs
  <2> HIDE DEF from
  <2> QED BY <1>0, <1>1, <2>1, <2>2
<1>3. Upto(data, k) = from
  <2> HIDE DEF from
  <2>1. Upto(data, k) = IF Len(data) <= from THEN Len(data) ELSE from
    BY DEF Upto, from
  <2> QED BY <1>0, <1>1, <1>2, <2>1
<1>4. end = IF Len(data) <= from + MAX_SZ THEN Len(data) ELSE from + MAX_SZ
  BY <1>1 DEF Upto
<1>5. Piece(data, k) = piece
  <2>1. Min({Len(data), (k + 1) * MAX_SZ}) = IF Len(data) <= (k + 1) * MAX_SZ THEN Len(data) ELSE (k + 1) * MAX_SZ
    <3>1. Len(data) \in Int /\ (k + 1) * MAX_SZ \in Int
      BY <1>0, <1>1
    <3> QED BY <3>1, MinOfTwo
  <2> QED BY <2>1 DEF Piece, Upto
<1> HIDE DEF from, end
<1>6. end \in from .. Len(data) /\ end - from <= MAX_SZ /\ end \in Nat
  BY <1>0, <1>1, <1>2, <1>4
<1>7. piece \in Seq(Byte) /\ Len(piece) <= MAX_SZ
  <2>1. \A i \in from + 1 .. end : data[i] \in Byte
    <3>1. ASSUME NEW i \in from + 1 .. end PROVE i \in 1 .. Len(data)
      BY <1>0, <1>1, <1>6
    <3> QED BY <3>1, ElementOfSeq
  <2>2. from + 1 \in Int /\ end \in Int
    BY <1>1, <1>6
  <2>3. SubSeq(data, from + 1, end) \in Seq(Byte)
    BY <2>1, <2>2, SubSeqProperties
  <2>4. Len(SubSeq(data, from + 1, end)) = IF from + 1 <= end THEN end - (from + 1) + 1 ELSE 0
    BY <2>1, <2>2, SubSeqProperties
  <2> QED BY <1>0, <1>1, <1>6, <2>3, <2>4
<1>8. SubSeq(data, 1, from) \o piece = SubSeq(data, 1, end)
  <2>1. 1 \in 1 .. Len(data) + 1 /\ from \in 1 - 1 .. Len(data) /\ end \in from .. Len(data)
    BY <1>0, <1>1, <1>2, <1>6
  <2> QED BY <2>1, ConcatAdjacentSubSeq
<1>9. SubSeq(data, 1, from) \in Seq(Byte)
  <2>1. from \in 0 .. Len(data)
    BY <1>0, <1>1, <1>2
  <2> QED BY <2>1, FirstIs
<1> HIDE DEF piece
<1> QED BY <1>3, <1>5, <1>7, <1>8, <1>9 DEF end

\* The pieces of an asset are the asset.
LEMMA PiecesAreTheAsset ==
  ASSUME NEW data \in Seq(Byte)
  PROVE  FlattenSeq([i \in 1 .. LastPacket(data) + 1 |-> Piece(data, i - 1)]) = data
<1> DEFINE last == LastPacket(data)
           pieces == [i \in 1 .. last + 1 |-> Piece(data, i - 1)]
           g == [k \in 0 .. last + 1 |-> SubSeq(data, 1, Upto(data, k))]
<1>0. last \in Nat /\ Len(data) \in Nat /\ MAX_SZ \in Nat \ {0}
  BY PacketAssumption, ByteAssumption, LastPacketIs
<1>1. \A i \in 1 .. last + 1 : i - 1 \in 0 .. last
  BY <1>0
<1>2. pieces \in Seq(Seq(Byte)) /\ Len(pieces) = last + 1
  <2>1. pieces \in [1 .. last + 1 -> Seq(Byte)]
    BY <1>1, PieceIs
  <2>2. last + 1 \in Nat
    BY <1>0
  <2> DEFINE len == last + 1
  <2>3. pieces \in [1 .. len -> Seq(Byte)] /\ len \in Nat
    BY <2>1, <2>2
  <2> HIDE DEF pieces, len
  <2>4. pieces \in Seq(Seq(Byte)) /\ Len(pieces) = len
    BY <2>3, FunctionIsSeq
  <2> QED BY <2>4 DEF len
<1>3. Upto(data, last + 1) = Len(data)
  <2>1. Len(data) <= (last + 1) * MAX_SZ
    BY LastPacketIs
  <2> QED BY <2>1 DEF Upto
<1>4. SubSeq(data, 1, Upto(data, last + 1)) = data
  BY <1>3, SubSeqFull
<1>5. g \in [0 .. last + 1 -> Seq(Byte)]
  <2>1. ASSUME NEW k \in 0 .. last + 1 PROVE SubSeq(data, 1, Upto(data, k)) \in Seq(Byte)
    <3>1. CASE k = last + 1
      BY <1>4, <3>1
    <3>2. CASE k # last + 1
      <4>1. k \in 0 .. last
        BY <1>0, <3>2
      <4> QED BY <4>1, PieceIs
    <3> QED BY <3>1, <3>2
  <2> QED BY <2>1
<1>6. g[0] = <<>>
  <2>1. Upto(data, 0) = 0
    <3>1. 0 * MAX_SZ = 0
      BY <1>0
    <3> QED BY <1>0, <3>1 DEF Upto
  <2> QED BY <1>0, <2>1, SubSeqEmpty
<1>7. ASSUME NEW i \in 1 .. last + 1 PROVE g[i] = g[i - 1] \o pieces[i]
  <2>1. i - 1 \in 0 .. last /\ i \in 0 .. last + 1 /\ i - 1 \in 0 .. last + 1 /\ (i - 1) + 1 = i
    BY <1>0
  <2>2. SubSeq(data, 1, Upto(data, (i - 1) + 1)) = SubSeq(data, 1, Upto(data, i - 1)) \o Piece(data, i - 1)
    BY <2>1, PieceIs
  <2>3. g[i] = SubSeq(data, 1, Upto(data, i)) /\ g[i - 1] = SubSeq(data, 1, Upto(data, i - 1))
    BY <2>1
  <2> QED BY <2>1, <2>2, <2>3
<1>8. Gathers(g, pieces, Byte)
  <2> HIDE DEF g, pieces
  <2> QED BY <1>2, <1>5, <1>6, <1>7 DEF Gathers
<1>9. FlattenSeq(pieces) = g[last + 1]
  <2> HIDE DEF g, pieces, last
  <2> QED BY <1>2, <1>8, FlattenIs
<1>10. g[last + 1] = data
  BY <1>0, <1>4
<1> QED BY <1>9, <1>10

\* What a message of transfer n of an asset says: that there is none, its size,
\* or a piece.
OfTransfer(m, n, data) ==
  \/ m.body[1] = 2 /\ m.body[2] = n /\ m.body[3] = 1 /\ FromS32(m.body[4], m.body[5]) = 0
  \/ /\ data # NotFound
     /\ m.body[1] = 2 /\ m.body[2] = n /\ m.body[3] = 0 /\ FromS32(m.body[4], m.body[5]) = Len(data)
  \/ /\ data # NotFound
     /\ m.body[1] = 3 /\ m.body[2] = n
     /\ \E k \in 0 .. LastPacket(data) :
          /\ FromS32(m.body[3], m.body[4]) = k
          /\ m.body[5] = IF k = LastPacket(data) THEN 1 ELSE 0
          /\ SubSeq(m.body, 7, 6 + m.body[6]) = Piece(data, k)

LEMMA FitsBelow ==
  ASSUME NEW k \in Nat, NEW n \in Nat, k <= n, Fits(n)
  PROVE  Fits(k)
<1> DEFINE limit == (MaxByte + 1) * (MaxByte + 1)
<1>1. limit \in Int
  BY ByteAssumption
<1> HIDE DEF limit
<1> QED BY <1>1 DEF Fits, limit

LEMMA TransferMessagesAre ==
  ASSUME NEW n \in Byte, NEW data \in Seq(Byte) \union {NotFound}
  PROVE  /\ TransferMessages(n, data) \in Seq(Message)
         /\ (data # NotFound => Fits(Len(data)))
              => \A i \in 1 .. Len(TransferMessages(n, data)) : OfTransfer(TransferMessages(n, data)[i], n, data)
         /\ \A i \in 1 .. Len(TransferMessages(n, data)) : TransferMessages(n, data)[i].body[1] \in {2, 3}
         /\ \A i \in 1 .. Len(TransferMessages(n, data)) : TransferMessages(n, data)[i].body[2] = n
<1>1. CASE data = NotFound
  <2> DEFINE info == TransferInfo(n, 1, 0)
  <2>1. TransferMessages(n, data) = <<info>>
    BY <1>1 DEF TransferMessages
  <2>0. Fits(0)
    <3>1. \A x \in Nat : 0 < (x + 1) * (x + 1)
      OBVIOUS
    <3> QED BY <3>1, ByteAssumption DEF Fits
  <2>2. /\ info \in Message /\ info.body[1] = 2 /\ info.body[2] = n /\ info.body[3] = 1
        /\ FromS32(info.body[4], info.body[5]) = 0
    BY <2>0, TransferInfoIs
  <2> HIDE DEF info
  <2>3. OfTransfer(info, n, data)
    BY <1>1, <2>2 DEF OfTransfer
  <2>4. <<info>> \in Seq(Message) /\ \A i \in 1 .. Len(<<info>>) : <<info>>[i] = info
    BY <2>2
  <2> QED BY <2>1, <2>2, <2>3, <2>4
<1>2. CASE data # NotFound
  <2> DEFINE last == LastPacket(data)
             Status(k) == IF k = last THEN 1 ELSE 0
             P(k) == TransferPacket(n, k, Status(k), Piece(data, k))
             packets == [i \in 1 .. last + 1 |-> TransferPacket(n, i - 1, IF i = last + 1 THEN 1 ELSE 0, Piece(data, i - 1))]
             info == TransferInfo(n, 0, Len(data))
             front == <<info>>
             ms == front \o packets
  <2>0. data \in Seq(Byte) /\ last \in Nat /\ Len(data) \in Nat /\ last <= Len(data) /\ MAX_SZ \in Nat /\ MAX_SZ <= MaxByte
    BY <1>2, LastPacketIs, PacketAssumption, ByteAssumption
  <2>1. TransferMessages(n, data) = ms
    BY <1>2 DEF TransferMessages, LastPacket
  <2>2. /\ info \in Message /\ info.body[1] = 2 /\ info.body[2] = n /\ info.body[3] = 0
        /\ Fits(Len(data)) => FromS32(info.body[4], info.body[5]) = Len(data)
    BY <2>0, TransferInfoIs
  <2>3. ASSUME NEW k \in 0 .. last
        PROVE  /\ P(k) \in Message /\ P(k).body[1] = 3 /\ P(k).body[2] = n /\ P(k).body[5] = Status(k)
               /\ Fits(k) => FromS32(P(k).body[3], P(k).body[4]) = k
               /\ SubSeq(P(k).body, 7, 6 + P(k).body[6]) = Piece(data, k)
    <3>1. Piece(data, k) \in Seq(Byte) /\ Len(Piece(data, k)) <= MAX_SZ
      BY <2>0, PieceIs
    <3>2. Len(Piece(data, k)) <= MaxByte
      <4>1. Len(Piece(data, k)) \in Nat
        BY <3>1, LenProperties
      <4> QED BY <2>0, <3>1, <4>1, ByteAssumption
    <3>3. Status(k) \in {0, 1} /\ k \in Nat
      BY <2>0
    <3> DEFINE piece == Piece(data, k)
               status == Status(k)
    <3> HIDE DEF piece, status
    <3>4. piece \in Seq(Byte) /\ Len(piece) <= MaxByte /\ status \in {0, 1} /\ P(k) = TransferPacket(n, k, status, piece)
      BY <3>1, <3>2, <3>3 DEF piece, status
    <3> HIDE DEF P
    <3>5. /\ P(k) \in Message /\ P(k).body[1] = 3 /\ P(k).body[2] = n /\ P(k).body[5] = status
          /\ Fits(k) => FromS32(P(k).body[3], P(k).body[4]) = k
          /\ SubSeq(P(k).body, 7, 6 + P(k).body[6]) = piece
      <4>1. k \in Nat
        BY <3>3
      <4>2. LET m == TransferPacket(n, k, status, piece) IN
            /\ m \in Message /\ m.body[1] = 3 /\ m.body[2] = n /\ m.body[5] = status
            /\ Fits(k) => FromS32(m.body[3], m.body[4]) = k
            /\ SubSeq(m.body, 7, 6 + m.body[6]) = piece
        BY <3>4, <4>1, TransferPacketIs
      <4>3. P(k) = TransferPacket(n, k, status, piece)
        BY <3>4
      <4> QED BY <4>2, <4>3, Zenon
    <3> QED BY <3>5 DEF piece, status
  <2>4. ASSUME NEW i \in 1 .. last + 1
        PROVE  packets[i] = P(i - 1) /\ i - 1 \in 0 .. last
    <3>1. i - 1 \in 0 .. last /\ (i = last + 1 <=> i - 1 = last)
      BY <2>0
    <3> QED BY <3>1
  <2>5. packets \in Seq(Message) /\ Len(packets) = last + 1
    <3>1. ASSUME NEW i \in 1 .. last + 1 PROVE packets[i] \in Message
      <4> HIDE DEF packets, P
      <4> QED BY <2>3, <2>4
    <3>2. packets \in [1 .. last + 1 -> Message]
      BY <3>1
    <3>3. last + 1 \in Nat
      BY <2>0
    <3> HIDE DEF packets, last
    <3> DEFINE len == last + 1
    <3>4. packets \in [1 .. len -> Message] /\ len \in Nat
      BY <3>2, <3>3
    <3> HIDE DEF len
    <3>5. packets \in Seq(Message) /\ Len(packets) = len
      BY <3>4, FunctionIsSeq
    <3> QED BY <3>5 DEF len
  <2>6. front \in Seq(Message) /\ Len(front) = 1 /\ front[1] = info
    <3> HIDE DEF info
    <3> QED BY <2>2
  <2> HIDE DEF packets, P, info, front
  <2>7. ms \in Seq(Message) /\ Joins(ms, front, packets) /\ Len(ms) = last + 2
    <3>1. ms \in Seq(Message) /\ Joins(ms, front, packets)
      BY <2>5, <2>6, ConcatJoins
    <3> HIDE DEF ms, last
    <3>2. Len(ms) = Len(front) + Len(packets)
      BY <3>1 DEF Joins
    <3>3. last \in Nat
      BY <2>0
    <3>4. Len(ms) = 1 + (last + 1)
      BY <2>5, <2>6, <3>2, Zenon
    <3>5. 1 + (last + 1) = last + 2
      BY <3>3
    <3>6. Len(ms) = last + 2
      BY <3>4, <3>5, Zenon
    <3> QED BY <3>1, <3>6
  <2> HIDE DEF ms
  <2>8. ASSUME NEW i \in 1 .. Len(ms)
        PROVE  /\ ms[i].body[1] \in {2, 3} /\ ms[i].body[2] = n
               /\ Fits(Len(data)) => OfTransfer(ms[i], n, data)
    <3>1. CASE i = 1
      <4>1. ms[i] = info
        <5>1. 1 \in 1 .. Len(front)
          BY <2>6
        <5> QED BY <2>6, <2>7, <3>1, <5>1 DEF Joins
      <4>2. Fits(Len(data)) => OfTransfer(info, n, data)
        BY <1>2, <2>2 DEF OfTransfer
      <4> QED BY <2>2, <4>1, <4>2
    <3>2. CASE i # 1
      <4>1. i - 1 \in 1 .. last + 1 /\ Len(front) + (i - 1) = i
        BY <2>0, <2>6, <2>7, <3>2
      <4>2. ms[i] = packets[i - 1]
        BY <2>5, <2>7, <4>1 DEF Joins
      <4> DEFINE k == (i - 1) - 1
      <4>3. ms[i] = P(k) /\ k \in 0 .. last
        BY <2>4, <4>1, <4>2
      <4> HIDE DEF k
      <4>4. Fits(Len(data)) => Fits(k)
        <5>1. k \in Nat /\ k <= Len(data)
          BY <2>0, <4>3
        <5> QED BY <2>0, <5>1, FitsBelow
      <4>5. /\ P(k).body[1] = 3 /\ P(k).body[2] = n /\ P(k).body[5] = Status(k)
            /\ Fits(k) => FromS32(P(k).body[3], P(k).body[4]) = k
            /\ SubSeq(P(k).body, 7, 6 + P(k).body[6]) = Piece(data, k)
        BY <2>3, <4>3
      <4>6. Fits(Len(data)) => OfTransfer(P(k), n, data)
        BY <1>2, <4>3, <4>4, <4>5 DEF OfTransfer
      <4> QED BY <4>3, <4>5, <4>6
    <3> QED BY <3>1, <3>2
  <2> QED BY <1>2, <2>1, <2>7, <2>8
<1> QED BY <1>1, <1>2

-----------------------------------------------------------------------------
(* What requests, packets and messages are, in every state. *)

\* What the server may answer: for an asset also that there is none.
MessagesOf(r) ==
  IF r.kind = FetchDescendents THEN {DescendentsMessages(r.id)}
  ELSE {TransferMessages(r.n, asset) : asset \in {Assets[r.id], NotFound}}

AskedInOrder == asked \in Seq(Requests) /\ \A i \in 1 .. Len(asked) : asked[i].n = i - 1

Coded(r, acks) == [zerocoded |-> TRUE, bytes |-> ZeroEncode(Request(r.n, r.kind, r.id)) \o acks]

UpIsCoded == \A p \in up : \E r \in ToSet(asked) : \E acks \in AppendedAcks : p = Coded(r, acks)

HeardWasAsked ==
  /\ heard \in Seq(Requests)
  /\ ToSet(heard) \subseteq ToSet(asked)
  /\ \A q \in requested : q \in [request : Requests, turn : Nat] /\ q.request \in ToSet(asked)

SentAnswers ==
  /\ sent \in Seq(Message)
  /\ \A s \in 1 .. Len(sent) :
       sent[s] = PacketAck \/ \E r \in ToSet(asked) : \E messages \in MessagesOf(r) : sent[s] \in ToSet(messages)

Answers == [request : Requests, first : Nat, last : Nat]

\* Messages a.first to a.last of s are messages, in order.
IsIn(messages, a, s) ==
  /\ a.first >= 1 /\ a.last = a.first + Len(messages) - 1 /\ a.last <= Len(s)
  /\ \A k \in 1 .. Len(messages) : s[a.first + k - 1] = messages[k]

AnswerIn(a, s) == \E messages \in MessagesOf(a.request) : IsIn(messages, a, s)

AnswersSent ==
  /\ answers \in Seq(Answers)
  /\ \A i \in 1 .. Len(answers) : AnswerIn(answers[i], sent)

DownIsSent == \A p \in down : p.seq \in 1 .. Len(sent) /\ p = Packet(p.seq, sent[p.seq])

GotIsSent == DOMAIN got \subseteq 1 .. Len(sent) /\ \A s \in DOMAIN got : got[s] = sent[s].body

PathInv ==
  /\ AskedInOrder /\ UpIsCoded /\ HeardWasAsked /\ SentAnswers
  /\ AnswersSent /\ DownIsSent /\ GotIsSent

LEMMA ToSetOf ==
  ASSUME NEW T, NEW s \in Seq(T)
  PROVE  /\ ToSet(s) = {s[i] : i \in 1 .. Len(s)}
         /\ \A i \in 1 .. Len(s) : s[i] \in ToSet(s)
         /\ \A x \in ToSet(s) : x \in T /\ \E i \in 1 .. Len(s) : x = s[i]
<1>1. DOMAIN s = 1 .. Len(s) /\ \A i \in 1 .. Len(s) : s[i] \in T
  BY LenProperties, ElementOfSeq
<1> QED BY <1>1 DEF ToSet

LEMMA ToSetAppend ==
  ASSUME NEW T, NEW s \in Seq(T), NEW e \in T
  PROVE  Append(s, e) \in Seq(T) /\ ToSet(Append(s, e)) = ToSet(s) \union {e}
<1> DEFINE t == Append(s, e)
<1>1. /\ t \in Seq(T) /\ Len(t) = Len(s) + 1 /\ Len(s) \in Nat
      /\ \A i \in 1 .. Len(s) : t[i] = s[i]
      /\ t[Len(s) + 1] = e
  BY AppendProperties, LenProperties
<1> HIDE DEF t
<1>2. ToSet(t) = {t[i] : i \in 1 .. Len(t)} /\ ToSet(s) = {s[i] : i \in 1 .. Len(s)}
  BY <1>1, ToSetOf
<1>3. ASSUME NEW x \in ToSet(t) PROVE x \in ToSet(s) \union {e}
  <2>1. PICK i \in 1 .. Len(t) : x = t[i]
    BY <1>2
  <2>2. i = Len(s) + 1 \/ i \in 1 .. Len(s)
    BY <1>1
  <2> QED BY <1>1, <1>2, <2>1, <2>2
<1>4. ASSUME NEW x \in ToSet(s) PROVE x \in ToSet(t)
  <2>1. PICK i \in 1 .. Len(s) : x = s[i]
    BY <1>2
  <2>2. i \in 1 .. Len(t)
    BY <1>1
  <2> QED BY <1>1, <1>2, <2>1, <2>2
<1>5. e \in ToSet(t)
  <2>1. Len(s) + 1 \in 1 .. Len(t)
    BY <1>1
  <2> QED BY <1>1, <1>2, <2>1
<1>6. ToSet(t) = ToSet(s) \union {e}
  BY <1>3, <1>4, <1>5
<1> QED BY <1>1, <1>6 DEF t

LEMMA RequestIsBytes ==
  ASSUME NEW r \in Requests
  PROVE  LET body == Request(r.n, r.kind, r.id) IN
         body \in Seq(Byte) /\ Len(body) = 3 /\ body[1] = r.kind /\ body[2] = r.n /\ body[3] = r.id
BY ByteFacts DEF Request, Requests, FetchDescendents, TransferRequest

LEMMA AcksAreBytes == AppendedAcks \subseteq Seq(Byte)
<1>1. ASSUME NEW acks \in AppendedAcks PROVE acks \in Seq(Byte)
  <2>1. CASE acks = <<>>
    BY <2>1
  <2>2. CASE acks # <<>>
    <3>1. PICK a \in {0, MaxByte}, b \in {0, MaxByte} : acks = <<a, b, 1>>
      BY <2>2 DEF AppendedAcks
    <3>2. a \in Byte /\ b \in Byte /\ 1 \in Byte
      BY ByteFacts
    <3> QED BY <3>1, <3>2
  <2> QED BY <2>1, <2>2
<1> QED BY <1>1

LEMMA MessagesType ==
  ASSUME NEW r \in Requests, NEW messages \in MessagesOf(r)
  PROVE  messages \in Seq(Message)
<1>1. r.id \in Byte /\ r.n \in Byte
  BY DEF Requests
<1>2. DescendentsMessages(r.id) \in Seq(Message)
  <2>1. Listing \subseteq Message
    BY DEF Listing
  <2> QED BY <1>1, <2>1, DescendentsMessagesType, SeqMonotonic
<1>3. ASSUME NEW asset \in {Assets[r.id], NotFound} PROVE TransferMessages(r.n, asset) \in Seq(Message)
  <2>1. asset \in Seq(Byte) \union {NotFound}
    BY <1>1, AssetsAssumption
  <2> QED BY <1>1, <2>1, TransferMessagesAre
<1>4. CASE r.kind = FetchDescendents
  BY <1>2, <1>4 DEF MessagesOf
<1>5. CASE r.kind # FetchDescendents
  <2>1. PICK asset \in {Assets[r.id], NotFound} : messages = TransferMessages(r.n, asset)
    BY <1>5 DEF MessagesOf
  <2> QED BY <1>3, <2>1
<1> QED BY <1>4, <1>5

\* Whatever was appended to a request: its first three bytes are read.
LEMMA RequestIsRead ==
  ASSUME NEW r \in Requests, NEW acks \in AppendedAcks
  PROVE  LET d == MaybeZeroDecode(Coded(r, acks)) IN
         [kind |-> d[1], n |-> d[2], id |-> d[3]] = r
<1> DEFINE body == Request(r.n, r.kind, r.id)
           d == ZeroDecode(ZeroEncode(body) \o acks)
<1>1. body \in Seq(Byte) /\ Len(body) = 3 /\ body[1] = r.kind /\ body[2] = r.n /\ body[3] = r.id
  BY RequestIsBytes
<1>2. MaybeZeroDecode(Coded(r, acks)) = d
  BY DEF MaybeZeroDecode, Coded
<1> HIDE DEF body
<1>3. Starts(body, d)
  BY <1>1, AcksAreBytes, ZeroCodingIsUndone
<1> HIDE DEF d
<1>4. d[1] = r.kind /\ d[2] = r.n /\ d[3] = r.id
  BY <1>1, <1>3 DEF Starts
<1>5. r = [kind |-> r.kind, n |-> r.n, id |-> r.id]
  BY DEF Requests
<1> QED BY <1>2, <1>4, <1>5

\* What is sent is read, coded or not.
LEMMA PacketIsRead ==
  ASSUME NEW m \in Message, NEW seq
  PROVE  MaybeZeroDecode(Packet(seq, m)) = m.body
<1>1. m.body \in Seq(Byte) /\ m.zerocoded \in BOOLEAN
  BY DEF Message
<1>2. Packet(seq, m).zerocoded = m.zerocoded /\ Packet(seq, m).bytes = MaybeZeroEncode(m)
  BY DEF Packet
<1>3. CASE m.zerocoded
  <2>1. ZeroDecode(ZeroEncode(m.body)) = m.body
    BY <1>1, EmptySeq, ZeroCodingIsUndone
  <2> QED BY <1>2, <1>3, <2>1 DEF MaybeZeroDecode, MaybeZeroEncode
<1>4. CASE ~m.zerocoded
  BY <1>2, <1>4 DEF MaybeZeroDecode, MaybeZeroEncode
<1> QED BY <1>1, <1>3, <1>4

LEMMA PacketAckIs == PacketAck \in Message /\ PacketAck.body[1] = 0
BY ByteFacts DEF PacketAck, Message

\* Messages are added to those sent; nothing sent before changes.
LEMMA SendKeeps ==
  ASSUME SentAnswers, DownIsSent, GotIsSent, AnswersSent, NEW messages \in Seq(Message), Send(messages)
  PROVE  /\ sent' \in Seq(Message) /\ Len(sent') = Len(sent) + Len(messages) /\ Len(sent) \in Nat
         /\ Len(messages) \in Nat
         /\ \A s \in 1 .. Len(sent) : sent'[s] = sent[s]
         /\ \A k \in 1 .. Len(messages) : sent'[Len(sent) + k] = messages[k]
         /\ DownIsSent'
         /\ UNCHANGED got => GotIsSent'
         /\ \A a \in Answers : AnswerIn(a, sent) => AnswerIn(a, sent')
<1>1. sent \in Seq(Message) /\ sent' = sent \o messages
  BY DEF SentAnswers, Send
<1>2. /\ sent' \in Seq(Message) /\ Len(sent') = Len(sent) + Len(messages)
      /\ \A s \in 1 .. Len(sent) : sent'[s] = sent[s]
      /\ \A k \in 1 .. Len(messages) : sent'[Len(sent) + k] = messages[k]
  <2>1. sent' \in Seq(Message) /\ Joins(sent', sent, messages)
    BY <1>1, ConcatJoins
  <2> QED BY <2>1 DEF Joins
<1>3. Len(sent) \in Nat /\ Len(messages) \in Nat
  BY <1>1, LenProperties
<1>4. DownIsSent'
  <2> SUFFICES ASSUME NEW p \in down' PROVE p.seq \in 1 .. Len(sent') /\ p = Packet(p.seq, sent'[p.seq])
    BY DEF DownIsSent
  <2>1. CASE p \in down
    <3>1. p.seq \in 1 .. Len(sent) /\ p = Packet(p.seq, sent[p.seq])
      BY <2>1 DEF DownIsSent
    <3>2. p.seq \in 1 .. Len(sent')
      BY <1>2, <1>3, <3>1
    <3> QED BY <1>2, <3>1, <3>2
  <2>2. CASE p \notin down
    <3>1. PICK i \in DOMAIN messages : p = Packet(Len(sent) + i, messages[i])
      BY <2>2 DEF Send
    <3>2. i \in 1 .. Len(messages)
      BY <3>1, LenProperties
    <3>3. p.seq = Len(sent) + i
      BY <3>1 DEF Packet
    <3>4. p.seq \in 1 .. Len(sent') /\ sent'[p.seq] = messages[i]
      BY <1>2, <1>3, <3>2, <3>3
    <3> QED BY <3>1, <3>3, <3>4
  <2> QED BY <2>1, <2>2
<1>5. ASSUME UNCHANGED got PROVE GotIsSent'
  <2>1. \A s \in DOMAIN got : s \in 1 .. Len(sent) /\ s \in 1 .. Len(sent') /\ got[s] = sent[s].body
    BY <1>2, <1>3 DEF GotIsSent
  <2> QED BY <1>2, <1>5, <2>1 DEF GotIsSent
<1>6. ASSUME NEW a \in Answers, AnswerIn(a, sent)
      PROVE  AnswerIn(a, sent')
  <2>0. PICK ms \in MessagesOf(a.request) : IsIn(ms, a, sent)
    BY <1>6 DEF AnswerIn
  <2>1. ms \in Seq(Message) /\ Len(ms) \in Nat /\ a.first \in Nat /\ a.last \in Nat
    BY MessagesType, LenProperties DEF Answers
  <2>2. /\ a.first >= 1 /\ a.last = a.first + Len(ms) - 1 /\ a.last <= Len(sent)
        /\ \A k \in 1 .. Len(ms) : sent[a.first + k - 1] = ms[k]
    BY <2>0 DEF IsIn
  <2>3. a.last <= Len(sent')
    BY <1>2, <1>3, <2>1, <2>2
  <2>4. ASSUME NEW k \in 1 .. Len(ms) PROVE sent'[a.first + k - 1] = ms[k]
    <3>1. a.first + k - 1 \in 1 .. Len(sent)
      BY <1>3, <2>1, <2>2
    <3> QED BY <1>2, <2>2, <3>1
  <2>5. IsIn(ms, a, sent')
    BY <2>2, <2>3, <2>4 DEF IsIn
  <2> QED BY <2>5 DEF AnswerIn
<1> QED BY <1>2, <1>3, <1>4, <1>5, <1>6

LEMMA PathInvInit == PathInit => PathInv
<1> SUFFICES ASSUME PathInit PROVE PathInv
  OBVIOUS
<1>1. asked = <<>> /\ up = {} /\ heard = <<>> /\ requested = {} /\ sent = <<>> /\ answers = <<>> /\ down = {} /\ got = <<>>
  BY DEF PathInit
<1>2. Len(<<>>) = 0 /\ DOMAIN <<>> = {} /\ \A i \in 1 .. 0 : FALSE
  OBVIOUS
<1>3. AskedInOrder /\ UpIsCoded /\ DownIsSent
  BY <1>1, <1>2 DEF AskedInOrder, UpIsCoded, DownIsSent
<1>4. HeardWasAsked
  BY <1>1, <1>2 DEF HeardWasAsked, ToSet
<1>5. SentAnswers /\ AnswersSent
  BY <1>1, <1>2 DEF SentAnswers, AnswersSent
<1>6. GotIsSent
  BY <1>1, <1>2 DEF GotIsSent
<1> QED BY <1>3, <1>4, <1>5, <1>6 DEF PathInv

LEMMA AsksKeeps == PathInv /\ ViewerAsks => PathInv'
<1> SUFFICES ASSUME PathInv, ViewerAsks PROVE PathInv'
  OBVIOUS
<1> USE DEF PathInv
<1> DEFINE n == Len(asked)
<1>1. PICK kind \in {FetchDescendents, TransferRequest}, id \in Byte, acks \in AppendedAcks :
         /\ asked' = Append(asked, [kind |-> kind, n |-> n, id |-> id])
         /\ up' = up \union {[zerocoded |-> TRUE, bytes |-> ZeroEncode(Request(n, kind, id)) \o acks]}
  BY DEF ViewerAsks
<1>2. n < MaxAsked /\ UNCHANGED <<heard, requested, sent, answers, down, got>>
  BY DEF ViewerAsks
<1> DEFINE r == [kind |-> kind, n |-> n, id |-> id]
<1>3. r \in Requests /\ n \in Nat /\ asked \in Seq(Requests)
  <2>1. asked \in Seq(Requests)
    BY DEF AskedInOrder
  <2>2. n \in Nat
    BY <2>1, LenProperties
  <2>3. n \in Byte
    BY <1>2, <2>2, LimitsAssumption, ByteAssumption DEF Byte
  <2> QED BY <2>1, <2>2, <2>3 DEF Requests
<1>4. asked' = Append(asked, r) /\ up' = up \union {Coded(r, acks)} /\ r.n = n
  BY <1>1 DEF Coded
<1> HIDE DEF r
<1>5. /\ asked' \in Seq(Requests) /\ ToSet(asked') = ToSet(asked) \union {r}
      /\ Len(asked') = n + 1 /\ asked'[n + 1] = r /\ \A i \in 1 .. n : asked'[i] = asked[i]
  BY <1>3, <1>4, ToSetAppend, AppendProperties
<1>6. AskedInOrder'
  <2>1. ASSUME NEW i \in 1 .. Len(asked') PROVE asked'[i].n = i - 1
    <3>1. i = n + 1 \/ i \in 1 .. n
      BY <1>3, <1>5
    <3>2. \A j \in 1 .. n : asked[j].n = j - 1
      BY DEF AskedInOrder
    <3> QED BY <1>3, <1>4, <1>5, <3>1, <3>2
  <2> QED BY <1>5, <2>1 DEF AskedInOrder
<1>7. UpIsCoded'
  <2>1. ASSUME NEW p \in up' PROVE \E q \in ToSet(asked') : \E a \in AppendedAcks : p = Coded(q, a)
    <3>1. CASE p \in up
      BY <1>5, <3>1 DEF UpIsCoded
    <3>2. CASE p \notin up
      BY <1>4, <1>5, <3>2
    <3> QED BY <3>1, <3>2
  <2>2. AppendedAcks' = AppendedAcks /\ \A q, a : Coded(q, a)' = Coded(q, a)
    BY DEF AppendedAcks, Coded
  <2> QED BY <2>1, <2>2 DEF UpIsCoded
<1>8. HeardWasAsked'
  BY <1>2, <1>5 DEF HeardWasAsked
<1>9. SentAnswers'
  <2>1. \A q : MessagesOf(q)' = MessagesOf(q)
    BY DEF MessagesOf
  <2> QED BY <1>2, <1>5, <2>1 DEF SentAnswers
<1>10. AnswersSent' /\ DownIsSent' /\ GotIsSent'
  BY <1>2 DEF AnswersSent, DownIsSent, GotIsSent
<1> QED BY <1>6, <1>7, <1>8, <1>9, <1>10

LEMMA HearsKeeps ==
  ASSUME PathInv, NEW p \in up, ServerHears(p)
  PROVE  PathInv'
<1> USE DEF PathInv
<1> DEFINE d == MaybeZeroDecode(p)
           request == [kind |-> d[1], n |-> d[2], id |-> d[3]]
<1>1. /\ heard' = Append(heard, request)
      /\ requested' = requested \union {[request |-> request, turn |-> Len(heard)]}
      /\ Send(<<PacketAck>>)
      /\ UNCHANGED <<asked, up, answers, got>>
  BY DEF ServerHears
<1>2. PICK r \in ToSet(asked) : \E acks \in AppendedAcks : p = Coded(r, acks)
  BY DEF UpIsCoded
<1>3. r \in Requests
  BY ToSetOf DEF AskedInOrder
<1>4. request = r
  BY <1>2, <1>3, RequestIsRead
<1> HIDE DEF request
<1>5. <<PacketAck>> \in Seq(Message) /\ Len(<<PacketAck>>) = 1 /\ <<PacketAck>>[1] = PacketAck
  BY PacketAckIs
<1>6. /\ sent' \in Seq(Message) /\ Len(sent') = Len(sent) + 1 /\ Len(sent) \in Nat
      /\ \A s \in 1 .. Len(sent) : sent'[s] = sent[s]
      /\ sent'[Len(sent) + 1] = PacketAck
      /\ DownIsSent' /\ GotIsSent'
      /\ \A a \in Answers : AnswerIn(a, sent) => AnswerIn(a, sent')
  <2> DEFINE messages == <<PacketAck>>
  <2>1. messages \in Seq(Message) /\ Len(messages) = 1 /\ messages[1] = PacketAck /\ Send(messages)
    BY <1>1, <1>5
  <2> HIDE DEF messages
  <2>2. SentAnswers /\ DownIsSent /\ GotIsSent /\ AnswersSent /\ UNCHANGED got
    BY <1>1
  <2> HIDE DEF PathInv
  <2>3. /\ sent' \in Seq(Message) /\ Len(sent') = Len(sent) + Len(messages) /\ Len(sent) \in Nat
        /\ \A s \in 1 .. Len(sent) : sent'[s] = sent[s]
        /\ \A k \in 1 .. Len(messages) : sent'[Len(sent) + k] = messages[k]
        /\ DownIsSent'
        /\ UNCHANGED got => GotIsSent'
        /\ \A a \in Answers : AnswerIn(a, sent) => AnswerIn(a, sent')
    BY <2>1, <2>2, SendKeeps
  <2>4. 1 \in 1 .. Len(messages)
    BY <2>1
  <2> QED BY <2>1, <2>2, <2>3, <2>4
<1>7. AskedInOrder' /\ UpIsCoded'
  BY <1>1 DEF AskedInOrder, UpIsCoded
<1>8. HeardWasAsked'
  <2>1. heard \in Seq(Requests) /\ Len(heard) \in Nat
    BY LenProperties DEF HeardWasAsked
  <2>2. heard' \in Seq(Requests) /\ ToSet(heard') = ToSet(heard) \union {r}
    BY <1>1, <1>3, <1>4, <2>1, ToSetAppend
  <2>3. ToSet(heard') \subseteq ToSet(asked')
    BY <1>1, <1>2, <2>2 DEF HeardWasAsked
  <2>4. ASSUME NEW q \in requested' PROVE q \in [request : Requests, turn : Nat] /\ q.request \in ToSet(asked')
    <3>1. CASE q \in requested
      BY <1>1, <3>1 DEF HeardWasAsked
    <3>2. CASE q = [request |-> request, turn |-> Len(heard)]
      BY <1>1, <1>2, <1>3, <1>4, <2>1, <3>2
    <3> QED BY <1>1, <3>1, <3>2
  <2> QED BY <2>2, <2>3, <2>4 DEF HeardWasAsked
<1>9. SentAnswers'
  <2>1. ASSUME NEW s \in 1 .. Len(sent')
        PROVE  sent'[s] = PacketAck
                 \/ \E q \in ToSet(asked') : \E ms \in MessagesOf(q) : sent'[s] \in ToSet(ms)
    <3>1. s \in 1 .. Len(sent) \/ s = Len(sent) + 1
      BY <1>6
    <3> QED BY <1>1, <1>6, <3>1 DEF SentAnswers
  <2>2. PacketAck' = PacketAck /\ \A q : MessagesOf(q)' = MessagesOf(q)
    BY DEF PacketAck, MessagesOf
  <2> QED BY <1>6, <2>1, <2>2 DEF SentAnswers
<1>10. AnswersSent'
  <2>1. \A i \in 1 .. Len(answers) : answers[i] \in Answers /\ AnswerIn(answers[i], sent)
    BY ElementOfSeq DEF AnswersSent
  <2>2. \A i \in 1 .. Len(answers) : AnswerIn(answers[i], sent')
    BY <1>6, <2>1
  <2> QED BY <1>1, <2>2 DEF AnswersSent
<1> QED BY <1>6, <1>7, <1>8, <1>9, <1>10

LEMMA AnswerKeeps ==
  ASSUME PathInv, NEW q \in requested, NEW messages \in MessagesOf(q.request), Answer(q, messages)
  PROVE  PathInv'
<1> USE DEF PathInv
<1> DEFINE a == [request |-> q.request, first |-> Len(sent) + 1, last |-> Len(sent) + Len(messages)]
<1>1. /\ requested' = requested \ {q}
      /\ Send(messages)
      /\ answers' = Append(answers, a)
      /\ UNCHANGED <<asked, up, heard, got>>
  BY DEF Answer
<1>2. q.request \in Requests /\ q.request \in ToSet(asked)
  BY DEF HeardWasAsked
<1>3. messages \in Seq(Message)
  BY <1>2, MessagesType
<1>5. /\ sent' \in Seq(Message) /\ Len(sent') = Len(sent) + Len(messages) /\ Len(sent) \in Nat
      /\ Len(messages) \in Nat
      /\ \A s \in 1 .. Len(sent) : sent'[s] = sent[s]
      /\ \A k \in 1 .. Len(messages) : sent'[Len(sent) + k] = messages[k]
      /\ DownIsSent' /\ GotIsSent'
      /\ \A x \in Answers : AnswerIn(x, sent) => AnswerIn(x, sent')
  <2>1. SentAnswers /\ DownIsSent /\ GotIsSent /\ AnswersSent /\ UNCHANGED got
    BY <1>1
  <2> HIDE DEF PathInv
  <2> QED BY <1>1, <1>3, <2>1, SendKeeps
<1>6. AskedInOrder' /\ UpIsCoded' /\ HeardWasAsked'
  BY <1>1 DEF AskedInOrder, UpIsCoded, HeardWasAsked
<1>7. SentAnswers'
  <2>1. ASSUME NEW s \in 1 .. Len(sent')
        PROVE  sent'[s] = PacketAck
                 \/ \E r \in ToSet(asked') : \E ms \in MessagesOf(r) : sent'[s] \in ToSet(ms)
    <3>1. CASE s \in 1 .. Len(sent)
      BY <1>1, <1>5, <3>1 DEF SentAnswers
    <3>2. CASE s \notin 1 .. Len(sent)
      <4> DEFINE k == s - Len(sent)
      <4>1. k \in 1 .. Len(messages) /\ Len(sent) + k = s
        BY <1>5, <3>2
      <4> HIDE DEF k
      <4>2. sent'[s] = messages[k]
        BY <1>5, <4>1
      <4>3. messages[k] \in ToSet(messages)
        BY <1>3, <4>1, ToSetOf
      <4> QED BY <1>1, <1>2, <4>2, <4>3
    <3> QED BY <3>1, <3>2
  <2> QED BY <1>5, <2>1 DEF SentAnswers
<1>8. AnswersSent'
  <2>1. a \in Answers
    BY <1>2, <1>5 DEF Answers
  <2>2. AnswerIn(a, sent')
    <3>1. a.request = q.request /\ a.first = Len(sent) + 1 /\ a.last = Len(sent) + Len(messages)
      OBVIOUS
    <3> HIDE DEF a
    <3>2. a.first >= 1 /\ a.last = a.first + Len(messages) - 1 /\ a.last <= Len(sent')
      BY <1>5, <3>1
    <3>3. ASSUME NEW k \in 1 .. Len(messages) PROVE sent'[a.first + k - 1] = messages[k]
      <4>1. a.first + k - 1 = Len(sent) + k
        BY <1>5, <3>1
      <4> QED BY <1>5, <4>1
    <3>4. IsIn(messages, a, sent')
      BY <3>2, <3>3 DEF IsIn
    <3> QED BY <3>1, <3>4 DEF AnswerIn
  <2> HIDE DEF a
  <2>3. answers \in Seq(Answers)
    BY DEF AnswersSent
  <2>4. /\ answers' \in Seq(Answers) /\ Len(answers') = Len(answers) + 1 /\ Len(answers) \in Nat
        /\ \A i \in 1 .. Len(answers) : answers'[i] = answers[i]
        /\ answers'[Len(answers) + 1] = a
    BY <1>1, <2>1, <2>3, AppendProperties, LenProperties
  <2>5. \A i \in 1 .. Len(answers) : answers[i] \in Answers /\ AnswerIn(answers[i], sent)
    BY ElementOfSeq DEF AnswersSent
  <2>6. ASSUME NEW i \in 1 .. Len(answers') PROVE AnswerIn(answers'[i], sent')
    <3>1. i \in 1 .. Len(answers) \/ i = Len(answers) + 1
      BY <2>4
    <3> QED BY <1>5, <2>2, <2>4, <2>5, <3>1
  <2> QED BY <2>4, <2>6 DEF AnswersSent
<1> QED BY <1>5, <1>6, <1>7, <1>8

LEMMA ReadsKeeps ==
  ASSUME PathInv, NEW p \in down, ViewerReads(p)
  PROVE  PathInv'
<1> USE DEF PathInv
<1>1. /\ got' = [s \in DOMAIN got \union {p.seq} |-> IF s = p.seq THEN MaybeZeroDecode(p) ELSE got[s]]
      /\ UNCHANGED <<asked, up, heard, requested, sent, answers, down>>
  BY DEF ViewerReads
<1>2. p.seq \in 1 .. Len(sent) /\ MaybeZeroDecode(p) = sent[p.seq].body
  <2>1. p.seq \in 1 .. Len(sent) /\ p = Packet(p.seq, sent[p.seq])
    BY DEF DownIsSent
  <2>2. sent[p.seq] \in Message
    BY <2>1, ElementOfSeq DEF SentAnswers
  <2>3. MaybeZeroDecode(Packet(p.seq, sent[p.seq])) = sent[p.seq].body
    BY <2>2, PacketIsRead
  <2> QED BY <2>1, <2>3
<1>3. GotIsSent'
  BY <1>1, <1>2 DEF GotIsSent
<1>4. AskedInOrder' /\ UpIsCoded' /\ HeardWasAsked' /\ SentAnswers' /\ AnswersSent' /\ DownIsSent'
  BY <1>1 DEF AskedInOrder, UpIsCoded, HeardWasAsked, SentAnswers, AnswersSent, DownIsSent
<1> QED BY <1>3, <1>4

LEMMA PathInvNext == PathInv /\ [PathNext]_pathVars => PathInv'
<1> SUFFICES ASSUME PathInv, [PathNext]_pathVars PROVE PathInv'
  OBVIOUS
<1>1. CASE ViewerAsks
  BY <1>1, AsksKeeps
<1>2. ASSUME NEW p \in up, ServerHears(p) PROVE PathInv'
  BY <1>2, HearsKeeps
<1>3. ASSUME NEW q \in requested, InventoryAnswers(q) PROVE PathInv'
  <2>1. DescendentsMessages(q.request.id) \in MessagesOf(q.request)
    BY <1>3 DEF InventoryAnswers, MessagesOf
  <2>2. Answer(q, DescendentsMessages(q.request.id))
    BY <1>3 DEF InventoryAnswers
  <2> QED BY <2>1, <2>2, AnswerKeeps
<1>4. ASSUME NEW q \in requested, AssetAnswers(q) PROVE PathInv'
  <2>1. q.request.kind # FetchDescendents
    BY <1>4 DEF AssetAnswers, FetchDescendents, TransferRequest
  <2>2. PICK asset \in {Assets[q.request.id], NotFound} : Answer(q, TransferMessages(q.request.n, asset))
    BY <1>4 DEF AssetAnswers
  <2>3. TransferMessages(q.request.n, asset) \in MessagesOf(q.request)
    BY <2>1 DEF MessagesOf
  <2> QED BY <2>2, <2>3, AnswerKeeps
<1>5. ASSUME NEW p \in down, ViewerReads(p) PROVE PathInv'
  BY <1>5, ReadsKeeps
<1>6. CASE UNCHANGED pathVars
  BY <1>6 DEF pathVars, PathInv, AskedInOrder, UpIsCoded, HeardWasAsked, SentAnswers, AnswersSent, DownIsSent, GotIsSent
<1> QED BY <1>1, <1>2, <1>3, <1>4, <1>5, <1>6 DEF PathNext

(* All that is true of the packets on their way: each carries, coded, what   *)
(* was asked or sent with its number; requests were asked, and every answer  *)
(* is messages for its request under the numbers it took.                    *)
THEOREM PathInvariant == PathSpec => []PathInv
<1>1. PathInv /\ [PathNext]_pathVars => PathInv'
  BY PathInvNext
<1> QED BY <1>1, PathInvInit, PTL DEF PathSpec

LEMMA BytesSent ==
  ASSUME NEW m \in Message, NEW seq
  PROVE  Packet(seq, m).bytes \in Seq(Byte) /\ m.body \in Seq(Byte)
<1>1. m.body \in Seq(Byte) /\ m.zerocoded \in BOOLEAN
  BY DEF Message
<1>2. ZeroEncode(m.body) \in Seq(Byte)
  BY <1>1, ZeroEncodeType
<1> QED BY <1>1, <1>2 DEF Packet, MaybeZeroEncode

LEMMA PathInvTypes == PathInv => PathTypeOK
<1> SUFFICES ASSUME PathInv PROVE PathTypeOK
  OBVIOUS
<1> USE DEF PathInv
<1>1. asked \in Seq(Requests) /\ heard \in Seq(Requests) /\ requested \subseteq [request : Requests, turn : Nat]
  BY DEF AskedInOrder, HeardWasAsked
<1>2. ASSUME NEW p \in up PROVE p.bytes \in Seq(Byte)
  <2>1. PICK r \in ToSet(asked), acks \in AppendedAcks : p = Coded(r, acks)
    BY DEF UpIsCoded
  <2>2. r \in Requests
    BY <1>1, ToSetOf
  <2>3. ZeroEncode(Request(r.n, r.kind, r.id)) \in Seq(Byte) /\ acks \in Seq(Byte)
    BY <2>2, RequestIsBytes, ZeroEncodeType, AcksAreBytes
  <2>4. p.bytes = ZeroEncode(Request(r.n, r.kind, r.id)) \o acks
    BY <2>1 DEF Coded
  <2> QED BY <2>3, <2>4, ConcatProperties
<1>3. DOMAIN sent = 1 .. Len(sent) /\ \A i \in 1 .. Len(sent) : sent[i] \in Message
  BY LenProperties, ElementOfSeq DEF SentAnswers
<1>4. \A i \in DOMAIN sent : sent[i].body \in Seq(Byte)
  BY <1>3, BytesSent
<1>5. \A p \in down : p.seq \in 1 .. Len(sent) /\ p.bytes \in Seq(Byte)
  BY <1>3, BytesSent DEF DownIsSent
<1>6. answers \in Seq([request : Requests, first : Nat, last : Nat])
  BY DEF AnswersSent, Answers
<1>7. DOMAIN got \subseteq 1 .. Len(sent)
  BY DEF GotIsSent
<1> QED BY <1>1, <1>2, <1>4, <1>5, <1>6, <1>7 DEF PathTypeOK

(* A handler reads what a viewer asked for, whatever was appended, and a     *)
(* viewer reads what was sent: no run of zeros is lost or made longer        *)
(* between ZeroEncodePacket and ZeroDecodePacket.                            *)
THEOREM ReadsAreAsSent == PathSpec => []ReadAsSent
<1>1. PathInv => ReadAsSent
  BY PathInvTypes DEF PathInv, HeardWasAsked, GotIsSent, ReadAsSent
<1> QED BY <1>1, PathInvariant, PTL

LEMMA NothingMissingOf ==
  ASSUME AnswersFit, PathInv
  PROVE  NothingMissing
<1> USE DEF PathInv
<1> SUFFICES ASSUME NEW a \in ToSet(answers),
                    a.request.kind = FetchDescendents, a.first .. a.last \subseteq DOMAIN got
             PROVE  LET Body(i) == got[a.first + i - 1]
                        packets == 1 .. a.last - a.first + 1
                        folders == FlattenSeq([i \in packets |-> FoldersOf(Body(i))])
                        items == FlattenSeq([i \in packets |-> ItemsOf(Body(i))])
                        Told(n) == \E i \in packets : FromS32(Body(i)[3], Body(i)[4]) = n
                        id == a.request.id IN
                    /\ IF Folders[id] = NotFound THEN folders = <<>> /\ items = <<>> /\ Told(0)
                       ELSE /\ folders = <<id>> \o Folders[id].folders
                            /\ items = Folders[id].items
                            /\ Told(Len(folders) + Len(items) + 1)
                    /\ \A i \in packets : Len(ItemsOf(Body(i))) <= PerPacket + 1
  BY DEF NothingMissing
<1> DEFINE Body(i) == got[a.first + i - 1]
           packets == 1 .. a.last - a.first + 1
           folders == FlattenSeq([i \in packets |-> FoldersOf(Body(i))])
           items == FlattenSeq([i \in packets |-> ItemsOf(Body(i))])
           Told(n) == \E i \in packets : FromS32(Body(i)[3], Body(i)[4]) = n
           id == a.request.id
           messages == DescendentsMessages(a.request.id)
           total == Len(Desc(id).Folders) + Len(Desc(id).Items)
<1>1. a \in Answers /\ AnswerIn(a, sent)
  <2>1. \E i \in 1 .. Len(answers) : a = answers[i]
    BY ToSetOf DEF AnswersSent
  <2>2. \A x \in ToSet(answers) : x \in Answers
    BY ToSetOf DEF AnswersSent
  <2> QED BY <2>1, <2>2 DEF AnswersSent
<1>2. a.request.id \in Byte /\ a.first \in Nat /\ a.last \in Nat
  BY <1>1 DEF Answers, Requests
<1>3. MessagesOf(a.request) = {messages}
  BY DEF MessagesOf
<1>4. /\ messages \in Seq(Parcel)
      /\ FoldersIn(messages) = FoldersToSend(id)
      /\ ItemsIn(messages) = ItemsToSend(id)
      /\ \E i \in 1 .. Len(messages) : FromS32(messages[i].body[3], messages[i].body[4]) = total
  BY <1>2, AnswerIsComplete
<1> HIDE DEF messages
<1>5. Len(messages) \in Nat /\ \A i \in 1 .. Len(messages) : messages[i] \in Parcel
  BY <1>4, LenProperties, ElementOfSeq
<1>6. /\ a.first >= 1 /\ a.last = a.first + Len(messages) - 1
      /\ \A i \in 1 .. Len(messages) : sent[a.first + i - 1] = messages[i]
  BY <1>1, <1>3 DEF AnswerIn, IsIn
<1>7. packets = 1 .. Len(messages)
  BY <1>2, <1>5, <1>6
<1>8. ASSUME NEW i \in 1 .. Len(messages) PROVE Body(i) = messages[i].body
  <2>1. a.first + i - 1 \in a.first .. a.last
    BY <1>2, <1>5, <1>6
  <2>2. a.first + i - 1 \in DOMAIN got
    BY <2>1
  <2>3. got[a.first + i - 1] = sent[a.first + i - 1].body
    BY <2>2 DEF GotIsSent
  <2> QED BY <1>6, <2>3
<1> HIDE DEF Body, packets, total
<1>9. [i \in packets |-> FoldersOf(Body(i))] = [i \in 1 .. Len(messages) |-> FoldersOf(messages[i].body)]
  BY <1>7, <1>8
<1>10. [i \in packets |-> ItemsOf(Body(i))] = [i \in 1 .. Len(messages) |-> ItemsOf(messages[i].body)]
  BY <1>7, <1>8
<1>11. folders = FoldersToSend(id) /\ items = ItemsToSend(id)
  BY <1>4, <1>9, <1>10 DEF FoldersIn, ItemsIn
<1>12. Told(total)
  BY <1>4, <1>7, <1>8
<1>13. \A i \in packets : Len(ItemsOf(Body(i))) <= PerPacket + 1
  BY <1>5, <1>7, <1>8 DEF Parcel
<1> HIDE DEF folders, items, Told, id
<1>14. id \in Byte
  BY <1>2 DEF id
<1>15. CASE Folders[id] = NotFound
  <2>1. folders = <<>> /\ items = <<>>
    BY <1>11, <1>15 DEF FoldersToSend, ItemsToSend
  <2>2. total = 0
    <3>1. Desc(id).Folders = <<>> /\ Desc(id).Items = <<>>
      BY <1>14, <1>15, DescIs
    <3>2. Len(Desc(id).Folders) = 0 /\ Len(Desc(id).Items) = 0
      BY <3>1
    <3> QED BY <3>2 DEF total
  <2>3. Told(0)
    BY <1>12, <2>2
  <2> QED BY <1>13, <1>15, <2>1, <2>3 DEF folders, items, Told, id, Body, packets
<1>16. CASE Folders[id] # NotFound
  <2>1. folders = <<id>> \o Folders[id].folders /\ items = Folders[id].items
    BY <1>11, <1>16 DEF FoldersToSend, ItemsToSend
  <2>2. total = Len(folders) + Len(items) + 1
    <3>1. items \in Seq(Byte) /\ Desc(id).Items = ChildElements(id, ItemElements(items))
      BY <1>14, <1>16, <2>1, DescIs
    <3>2. Len(Desc(id).Items) = Len(items) + 1 /\ Len(items) \in Nat
      BY <1>14, <3>1, ItemListIs
    <3>3. Len(folders) = Len(Desc(id).Folders)
      BY <1>11, <1>14, ToSendAre
    <3>4. Len(folders) \in Nat
      BY <1>14, <3>3, DescIs
    <3> DEFINE x == Len(Desc(id).Folders)
               y == Len(Desc(id).Items)
    <3>5. x = Len(folders) /\ y = Len(items) + 1
      BY <3>2, <3>3
    <3> HIDE DEF x, y
    <3>6. x + y = Len(folders) + Len(items) + 1
      BY <3>2, <3>4, <3>5
    <3> QED BY <3>6 DEF total, x, y
  <2>3. Told(Len(folders) + Len(items) + 1)
    BY <1>12, <2>2
  <2> QED BY <1>13, <1>16, <2>1, <2>3 DEF folders, items, Told, id, Body, packets
<1> QED BY <1>15, <1>16

(* The folder, every folder and every item in it reach a viewer that got     *)
(* the packets of an answer, as long as a byte counts the folders and an S32 *)
(* all: the loops of smv_cb_inventory_descendents leave out no item and      *)
(* repeat none, wherever they cut.                                           *)
THEOREM AnswersMissNothing == AnswersFit => (PathSpec => []NothingMissing)
<1> SUFFICES ASSUME AnswersFit PROVE PathSpec => []NothingMissing
  OBVIOUS
<1>1. PathInv => NothingMissing
  BY NothingMissingOf
<1> QED BY <1>1, PathInvariant, PTL

\* A number of a transfer is one request's.
LEMMA GotOfTransfer ==
  ASSUME AnswersFit, PathInv, NEW request \in ToSet(asked), NEW s \in DOMAIN got,
         got[s][1] \in {2, 3}, got[s][2] = request.n
  PROVE  OfTransfer(sent[s], request.n, Assets[request.id]) /\ got[s] = sent[s].body
<1> USE DEF PathInv
<1>1. got[s] = sent[s].body /\ s \in 1 .. Len(sent)
  BY DEF GotIsSent
<1>2. sent[s] # PacketAck
  BY <1>1, PacketAckIs
<1>3. PICK r \in ToSet(asked) : \E messages \in MessagesOf(r) : sent[s] \in ToSet(messages)
  BY <1>1, <1>2 DEF SentAnswers
<1>4. asked \in Seq(Requests) /\ r \in Requests /\ request \in Requests
  BY <1>3, ToSetOf DEF AskedInOrder
<1>5. PICK messages \in MessagesOf(r) : \E i \in 1 .. Len(messages) : sent[s] = messages[i]
  <2>1. PICK messages \in MessagesOf(r) : sent[s] \in ToSet(messages)
    BY <1>3
  <2>2. messages \in Seq(Message)
    BY <1>4, MessagesType
  <2> QED BY <2>1, <2>2, ToSetOf
<1>6. r.id \in Byte /\ r.n \in Byte /\ Assets[r.id] \in Seq(Byte) \union {NotFound}
      /\ (Assets[r.id] # NotFound => Fits(Len(Assets[r.id])))
  BY <1>4, AssetsAssumption DEF Requests, AnswersFit
<1>7. r.kind # FetchDescendents
  <2> SUFFICES ASSUME r.kind = FetchDescendents PROVE FALSE
    OBVIOUS
  <2>1. messages = DescendentsMessages(r.id)
    BY DEF MessagesOf
  <2>2. sent[s] \in Listing
    BY <1>5, <1>6, <2>1, DescendentsMessagesType, ElementOfSeq
  <2> QED BY <1>1, <2>2 DEF Listing
<1>8. PICK asset \in {Assets[r.id], NotFound} : messages = TransferMessages(r.n, asset)
  BY <1>7 DEF MessagesOf
<1>9. OfTransfer(sent[s], r.n, Assets[r.id]) /\ sent[s].body[2] = r.n
  <2>1. asset \in Seq(Byte) \union {NotFound} /\ (asset # NotFound => Fits(Len(asset)))
    BY <1>6, <1>8
  <2>2. OfTransfer(sent[s], r.n, asset) /\ sent[s].body[2] = r.n
    BY <1>5, <1>6, <1>8, <2>1, TransferMessagesAre
  <2>3. asset = Assets[r.id] \/ OfTransfer(sent[s], r.n, NotFound)
    BY <1>8, <2>2
  <2> QED BY <2>2, <2>3 DEF OfTransfer
<1>10. r = request
  <2>1. r.n = request.n
    BY <1>1, <1>9
  <2>2. PICK j \in 1 .. Len(asked) : r = asked[j]
    BY <1>4, ToSetOf
  <2>3. PICK k \in 1 .. Len(asked) : request = asked[k]
    BY <1>4, ToSetOf
  <2>4. j - 1 = k - 1
    BY <2>1, <2>2, <2>3 DEF AskedInOrder
  <2> QED BY <2>2, <2>3, <2>4
<1> QED BY <1>1, <1>9, <1>10

LEMMA ReassemblesOf ==
  ASSUME AnswersFit, PathInv
  PROVE  TransferReassembles
<1> DEFINE Number(p) == FromS32(p[3], p[4])
<1> SUFFICES ASSUME NEW request \in ToSet(asked), NEW last \in PacketsOf(request.n),
                    last[5] = 1,
                    \A i \in 0 .. Number(last) : \E p \in PacketsOf(request.n) : Number(p) = i
             PROVE  LET packets == PacketsOf(request.n)
                        Data(i) == LET p == CHOOSE p \in packets : Number(p) = i IN SubSeq(p, 7, 6 + p[6])
                        data == FlattenSeq([i \in 1 .. Number(last) + 1 |-> Data(i - 1)]) IN
                    /\ data = Assets[request.id]
                    /\ \A s \in DOMAIN got :
                         got[s][1] = 2 /\ got[s][2] = request.n
                           => \/ got[s][3] = 0 /\ FromS32(got[s][4], got[s][5]) = Len(data)
                              \/ got[s][3] = 1 /\ FromS32(got[s][4], got[s][5]) = 0
  BY DEF TransferReassembles
<1> DEFINE packets == PacketsOf(request.n)
           asset == Assets[request.id]
           Data(i) == LET p == CHOOSE p \in packets : Number(p) = i IN SubSeq(p, 7, 6 + p[6])
           end == LastPacket(asset)
<1>1. ASSUME NEW p \in packets
      PROVE  /\ asset # NotFound
             /\ \E k \in 0 .. end :
                  /\ Number(p) = k /\ p[5] = (IF k = end THEN 1 ELSE 0)
                  /\ SubSeq(p, 7, 6 + p[6]) = Piece(asset, k)
  <2>1. PICK s \in DOMAIN got : p = got[s] /\ got[s][1] = 3 /\ got[s][2] = request.n
    BY DEF PacketsOf
  <2>2. OfTransfer(sent[s], request.n, asset) /\ p = sent[s].body
    BY <2>1, GotOfTransfer
  <2>3. p[1] = 3
    BY <2>1
  <2> QED BY <2>2, <2>3 DEF OfTransfer
<1>2. asset # NotFound
  BY <1>1
<1>3. asset \in Seq(Byte) /\ end \in Nat
  <2>1. request.id \in Byte
    <3>1. asked \in Seq(Requests)
      BY DEF PathInv, AskedInOrder
    <3>2. request \in Requests
      BY <3>1, ToSetOf
    <3> QED BY <3>2 DEF Requests
  <2>2. asset \in Seq(Byte)
    BY <1>2, <2>1, AssetsAssumption
  <2> QED BY <2>2, LastPacketIs
<1>4. Number(last) = end
  BY <1>1
<1>5. ASSUME NEW i \in 0 .. end PROVE Data(i) = Piece(asset, i)
  <2> DEFINE p == CHOOSE p \in packets : Number(p) = i
  <2>1. \E q \in packets : Number(q) = i
    BY <1>4
  <2>2. p \in packets /\ Number(p) = i
    <3> HIDE DEF packets, Number
    <3> QED BY <2>1
  <2>3. Data(i) = SubSeq(p, 7, 6 + p[6])
    OBVIOUS
  <2> HIDE DEF p, packets, Data, Number
  <2>4. PICK k \in 0 .. end : Number(p) = k /\ SubSeq(p, 7, 6 + p[6]) = Piece(asset, k)
    BY <1>1, <2>2
  <2> QED BY <2>2, <2>3, <2>4
<1> HIDE DEF Data, Number, packets, end
<1>6. [i \in 1 .. Number(last) + 1 |-> Data(i - 1)] = [i \in 1 .. end + 1 |-> Piece(asset, i - 1)]
  <2>1. \A i \in 1 .. end + 1 : i - 1 \in 0 .. end
    BY <1>3
  <2>2. \A i \in 1 .. end + 1 : Data(i - 1) = Piece(asset, i - 1)
    BY <1>5, <2>1
  <2> QED BY <1>4, <2>2
<1>7. FlattenSeq([i \in 1 .. Number(last) + 1 |-> Data(i - 1)]) = asset
  BY <1>3, <1>6, PiecesAreTheAsset DEF end
<1>8. ASSUME NEW s \in DOMAIN got, got[s][1] = 2, got[s][2] = request.n
      PROVE  \/ got[s][3] = 0 /\ FromS32(got[s][4], got[s][5]) = Len(asset)
             \/ got[s][3] = 1 /\ FromS32(got[s][4], got[s][5]) = 0
  <2>1. OfTransfer(sent[s], request.n, asset) /\ got[s] = sent[s].body
    BY <1>8, GotOfTransfer
  <2> QED BY <1>2, <1>8, <2>1 DEF OfTransfer
<1> QED BY <1>7, <1>8 DEF Data, Number, packets

(* A viewer with the last packet of a transfer and all before it has the     *)
(* asset, whichever answers they are from and in whatever order they came,   *)
(* and every TransferInfo it has tells the size, or that there is none: of   *)
(* an asset server that hung up.  smv_cb_asset_client_asset leaves no byte   *)
(* out and sends none twice, as long as an S32 holds the size.               *)
THEOREM TransfersReassemble == AnswersFit => (PathSpec => []TransferReassembles)
<1> SUFFICES ASSUME AnswersFit PROVE PathSpec => []TransferReassembles
  OBVIOUS
<1>1. PathInv => TransferReassembles
  BY ReassemblesOf
<1> QED BY <1>1, PathInvariant, PTL
=============================================================================

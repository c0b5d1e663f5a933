----------------------------- MODULE SmvServer -----------------------------
(***************************************************************************)
(* The UDP "SMV" server of cosimus: circuits (sessions), the two indexes    *)
(* that find them, and the avatar scene they share.                         *)
(*                                                                          *)
(* One datagram is handled at a time (one thread, one poll loop), so each   *)
(* handler of script/smvserver.lua is one action.  The network below it is  *)
(* UDP: datagrams wait in a set, and are delivered in any order, lost, or   *)
(* delivered again.  A handler that raises a Lua error is cut short by the  *)
(* pcall of pktsmv.c: what it did before the error stays done.              *)
(*                                                                          *)
(* A viewer sends from one of the addresses RemotesOf gives it (more than   *)
(* one when a NAT rebinds it); two viewers may share an address when one    *)
(* is started after the other, and an agent may be logged in twice.         *)
(***************************************************************************)
EXTENDS Naturals, FiniteSets

CONSTANTS
  Session,       \* session ids handed out by the login server
  Agent,         \* agent (user) ids
  Remote,        \* viewers' "address:port" strings
  AgentOf,       \* the agent each session was created for
  RemotesOf,     \* the addresses the viewer of a session may send from
  None,          \* Lua's nil
  MaxDups,       \* bound: datagrams the network duplicates
  MaxIds,        \* bound: LocalIDs the scene hands out
  MaxInFlight,   \* bound: datagrams on their way at a time
  MaxRestarts,   \* bound: times the process ends and is started again
  CanCrash       \* whether the process may die without SIGINT

ASSUME NoneAssumption == None \notin Session \union Remote
ASSUME AgentOfAssumption == AgentOf \in [Session -> Agent]
ASSUME RemotesOfAssumption ==
  RemotesOf \in [Session -> SUBSET Remote \ {{}}]
ASSUME BoundsAssumption ==
  {MaxDups, MaxIds, MaxInFlight, MaxRestarts} \subseteq Nat /\ CanCrash \in BOOLEAN

VARIABLES
  circuit,       \* smv_state.sessions: a live session's remote_str, or None
  byRemote,      \* smv_state.sess_id_by_remote
  byAgent,       \* smv_state.sess_id_by_agent_id
  avatars,       \* mv_state.scene.avatars: an avatar's LocalID, NoAvatar if absent
  nextLocalId,   \* smv_state.scene.next_local_id
  pending,       \* sessions an inventory request is in flight for
  disk,          \* luastate.lua
  restarts,      \* times the process was started again
  log,           \* how the last handler ended
  net,           \* datagrams on their way to the server
  dups,          \* datagrams duplicated so far
  greeted,       \* sessions whose viewer was sent the region handshake
  left,          \* sessions whose viewer has asked to log out
  view           \* the LocalIDs each session's viewer was told of

server == <<circuit, byRemote, byAgent, avatars, nextLocalId>>
viewer == <<greeted, left, view>>
vars == <<server, pending, disk, restarts, log, net, dups, viewer>>

NoAvatar == 0
FirstLocalId == 1000

Kind == {"UseCircuitCode", "CompleteAgentMovement", "AgentUpdate",
         "AgentWearablesRequest", "LogoutRequest"}
Datagram == [kind : Kind, sid : Session, from : Remote]

(* How the last handler ended: it came to its end, or raised an error       *)
(* because an agent has no session, an agent has no avatar, or a callback's *)
(* session is gone.                                                         *)
Outcome == {"ok", "no session for agent", "no avatar", "session gone"}

ServerState == [circuit : [Session -> Remote \union {None}],
                byRemote : [Remote -> Session \union {None}],
                byAgent : [Agent -> Session \union {None}],
                avatars : [Agent -> Nat],
                nextLocalId : Nat]

Running == [circuit |-> circuit, byRemote |-> byRemote, byAgent |-> byAgent,
            avatars |-> avatars, nextLocalId |-> nextLocalId]

NoAvatars == [a \in Agent |-> NoAvatar]

FreshState == [circuit |-> [s \in Session |-> None],
               byRemote |-> [r \in Remote |-> None],
               byAgent |-> [a \in Agent |-> None],
               avatars |-> NoAvatars,
               nextLocalId |-> FirstLocalId]

\* Seeded fault: the id counter is not read back.
LoadResettingIds(st) ==
  /\ circuit' = st.circuit
  /\ byRemote' = st.byRemote
  /\ byAgent' = st.byAgent
  /\ avatars' = st.avatars
  /\ nextLocalId' = FirstLocalId

Load(st) ==
  /\ circuit' = st.circuit
  /\ byRemote' = st.byRemote
  /\ byAgent' = st.byAgent
  /\ avatars' = st.avatars
  /\ nextLocalId' = st.nextLocalId

Init ==
  /\ circuit = FreshState.circuit
  /\ byRemote = FreshState.byRemote
  /\ byAgent = FreshState.byAgent
  /\ avatars = FreshState.avatars
  /\ nextLocalId = FreshState.nextLocalId
  /\ pending = {}
  /\ disk = FreshState
  /\ restarts = 0
  /\ log = "ok"
  /\ net = {}
  /\ dups = 0
  /\ greeted = {}
  /\ left = {}
  /\ view = [s \in Session |-> NoAvatars]

-----------------------------------------------------------------------------
(* The viewers: external.  Each says hello until greeted, asks to enter the *)
(* region until it is told of its own avatar, and then moves, asks for its  *)
(* wearables and logs out as it likes.                                      *)

InWorld(s) == view[s][AgentOf[s]] # NoAvatar

MaySend(kind, s) ==
  /\ s \notin left
  /\ CASE kind = "UseCircuitCode" -> s \notin greeted
       [] kind = "CompleteAgentMovement" -> s \in greeted /\ ~InWorld(s)
       [] kind = "LogoutRequest" -> s \in greeted
       [] OTHER -> InWorld(s)

ViewerSends(kind, s, r) ==
  /\ r \in RemotesOf[s]
  /\ MaySend(kind, s)
  /\ Cardinality(net) < MaxInFlight
  /\ [kind |-> kind, sid |-> s, from |-> r] \notin net
  /\ net' = net \union {[kind |-> kind, sid |-> s, from |-> r]}
  /\ left' = IF kind = "LogoutRequest" THEN left \union {s} ELSE left
  /\ UNCHANGED <<server, pending, disk, restarts, log, dups, greeted, view>>

Lose(d) ==
  /\ net' = net \ {d}
  /\ UNCHANGED <<server, pending, disk, restarts, log, dups, viewer>>

(* Delivery takes the datagram off the network, or leaves a copy behind.    *)
Deliver(d) ==
  \/ net' = net \ {d} /\ UNCHANGED dups
  \/ dups < MaxDups /\ dups' = dups + 1 /\ UNCHANGED net

-----------------------------------------------------------------------------
(* smv_packet: UseCircuitCode opens a circuit unless the session has one.   *)

\* Seeded fault: the address index is not set.
RegisterByAgentOnly(s, r) ==
  /\ circuit' = [circuit EXCEPT ![s] = r]
  /\ byAgent' = [byAgent EXCEPT ![AgentOf[s]] = s]
  /\ UNCHANGED byRemote

Register(s, r) ==
  /\ circuit' = [circuit EXCEPT ![s] = r]
  /\ byRemote' = [byRemote EXCEPT ![r] = s]
  /\ byAgent' = [byAgent EXCEPT ![AgentOf[s]] = s]

OpenCircuit(d) ==
  /\ d.kind = "UseCircuitCode"
  /\ Deliver(d)
  /\ circuit[d.sid] = None
  /\ Register(d.sid, d.from)
  /\ greeted' = greeted \union {d.sid}
  /\ log' = "ok"
  /\ UNCHANGED <<avatars, nextLocalId, pending, disk, restarts, left, view>>

DuplicateCircuit(d) ==
  /\ d.kind = "UseCircuitCode"
  /\ Deliver(d)
  /\ circuit[d.sid] # None
  /\ log' = "ok"
  /\ UNCHANGED <<server, pending, disk, restarts, viewer>>

(* Any other datagram belongs to the session its source address leads to,   *)
(* whatever session or agent it names.                                      *)
\* Seeded fault: the session is looked up by the agent the datagram names.
SessionOfAgent(d) == byAgent[AgentOf[d.sid]]

SessionOf(d) == byRemote[d.from]
HasCircuit(d) == IF SessionOf(d) = None THEN FALSE
                                       ELSE circuit[SessionOf(d)] # None

Routed(d, kind) ==
  /\ d.kind = kind
  /\ Deliver(d)
  /\ HasCircuit(d)

Unrouted(d) ==
  /\ d.kind # "UseCircuitCode"
  /\ Deliver(d)
  /\ ~HasCircuit(d)
  /\ log' = "ok"
  /\ UNCHANGED <<server, pending, disk, restarts, viewer>>

-----------------------------------------------------------------------------
(* The scene.  pairs() visits the avatars in no particular order; the first *)
(* one whose agent has no session raises an error, and those after it hear  *)
(* nothing.                                                                 *)

Present(av) == {a \in Agent : av[a] # NoAvatar}
Resolvable(a) == byAgent[a] # None
AllResolvable(av) == \A a \in Present(av) : Resolvable(a)

(* scene_update_all_agent_add tells each avatar's agent of the new one and  *)
(* the new one's agent of each; the second fails at once when the new       *)
(* avatar's own agent has no session.                                       *)
\* Seeded fault: the loop stops after the newcomer.
ReachesNewcomerOnly(av, a) == {{a}}

ReachedByAdd(av, a) ==
  LET ok == {b \in Present(av) : Resolvable(b)} IN
  IF AllResolvable(av) THEN {Present(av)}
  ELSE IF Resolvable(a) THEN SUBSET ok
  ELSE {{}} \union {{b} : b \in ok}

ReachedByMove(av) ==
  IF AllResolvable(av) THEN {Present(av)}
  ELSE SUBSET {b \in Present(av) : Resolvable(b)}

SceneOutcome(av) ==
  IF AllResolvable(av) THEN "ok" ELSE "no session for agent"

\* Seeded fault: the id counter does not advance.
AllocateNothing == UNCHANGED nextLocalId

AllocateLocalId == nextLocalId' = nextLocalId + 1

(* smv_scene_add_avatar allocates the id and enters the avatar before       *)
(* anyone is told; the session itself is told last, if nothing failed.      *)
CompleteAgentMovement(d) ==
  LET s == SessionOf(d)
      a == AgentOf[s]
      av == [avatars EXCEPT ![a] = nextLocalId]
      Tells(reached, t, b) ==
        \/ b = a /\ \E c \in reached : byAgent[c] = t
        \/ b \in reached /\ byAgent[a] = t
        \/ b = a /\ t = s /\ AllResolvable(av)
  IN
  /\ Routed(d, "CompleteAgentMovement")
  /\ nextLocalId < FirstLocalId + MaxIds
  /\ AllocateLocalId
  /\ avatars' = av
  /\ \E reached \in ReachedByAdd(av, a) :
       view' = [t \in Session |-> [b \in Agent |->
                 IF Tells(reached, t, b) THEN av[b] ELSE view[t][b]]]
  /\ log' = SceneOutcome(av)
  /\ UNCHANGED <<circuit, byRemote, byAgent, pending, disk, restarts, greeted, left>>

(* smv_agent_update_received moves the avatar of the agent the datagram     *)
(* names, when its control flags say so and the terrain allows it.          *)
AgentUpdate(d) ==
  LET a == AgentOf[d.sid] IN
  /\ Routed(d, "AgentUpdate")
  /\ \/ /\ avatars[a] = NoAvatar
        /\ log' = "no avatar"
        /\ UNCHANGED view
     \/ /\ log' = "ok"
        /\ UNCHANGED view
     \/ /\ avatars[a] # NoAvatar
        /\ \E reached \in ReachedByMove(avatars) :
             view' = [t \in Session |-> [b \in Agent |->
                       IF b = a /\ \E c \in reached : byAgent[c] = t
                       THEN avatars[a] ELSE view[t][b]]]
        /\ log' = SceneOutcome(avatars)
  /\ UNCHANGED <<server, pending, disk, restarts, greeted, left>>

(* smv_logout_session; the viewers of the others are told nothing           *)
(* (scene_update_all_agent_remove has no body).                             *)
\* Seeded fault: the address index keeps its entry.
ForgetButAddress(s) ==
  /\ byAgent' = [byAgent EXCEPT ![AgentOf[s]] = None]
  /\ circuit' = [circuit EXCEPT ![s] = None]
  /\ UNCHANGED byRemote

ForgetSession(s) ==
  /\ byRemote' = [byRemote EXCEPT ![circuit[s]] = None]
  /\ byAgent' = [byAgent EXCEPT ![AgentOf[s]] = None]
  /\ circuit' = [circuit EXCEPT ![s] = None]

RemoveAvatar(a) == avatars' = [avatars EXCEPT ![a] = NoAvatar]

LogoutRequest(d) ==
  LET s == SessionOf(d) IN
  /\ Routed(d, "LogoutRequest")
  /\ ForgetSession(s)
  /\ RemoveAvatar(AgentOf[s])
  /\ log' = "ok"
  /\ UNCHANGED <<nextLocalId, pending, disk, restarts, viewer>>

(* smv_agent_wearables_request asks the inventory server over HTTP; the     *)
(* answer calls back with the session id, however much later.               *)
AgentWearablesRequest(d) ==
  /\ Routed(d, "AgentWearablesRequest")
  /\ pending' = pending \union {SessionOf(d)}
  /\ log' = "ok"
  /\ UNCHANGED <<server, disk, restarts, viewer>>

WearablesReceived(s) ==
  /\ s \in pending
  /\ pending' = pending \ {s}
  /\ log' = IF circuit[s] = None THEN "session gone" ELSE "ok"
  /\ UNCHANGED <<server, disk, restarts, net, dups, viewer>>

-----------------------------------------------------------------------------
(* SIGINT saves both tables to luastate.lua and the process ends; the next  *)
(* start reads them back.  The HTTP requests in flight die with the process.*)
(* Without SIGINT the next start finds the previous file.  When the process *)
(* dies in smv.serialize it finds an empty one, which io.open has cut to    *)
(* nothing, or one without the scene, which is written last.  A file that   *)
(* ends inside a statement is no Lua and the server does not start from it; *)
(* one that ends between two lines of a table is left out.                  *)

Restart(file) ==
  /\ restarts < MaxRestarts
  /\ restarts' = restarts + 1
  /\ disk' = file
  /\ Load(file)
  /\ pending' = {}
  /\ log' = "ok"
  /\ UNCHANGED <<net, dups, viewer>>

Interrupt == Restart(Running)

Crash == CanCrash /\ Restart(disk)

\* Seeded fault: the scene is written before the sessions.
CrashSceneFirst ==
  CanCrash /\ Restart([disk EXCEPT !.avatars = avatars])

CrashWhileSaving ==
  CanCrash /\ (Restart(FreshState) \/ Restart([Running EXCEPT !.avatars = NoAvatars]))

Handle(d) ==
  \/ OpenCircuit(d)
  \/ DuplicateCircuit(d)
  \/ Unrouted(d)
  \/ CompleteAgentMovement(d)
  \/ AgentUpdate(d)
  \/ LogoutRequest(d)
  \/ AgentWearablesRequest(d)

Next ==
  \/ \E k \in Kind, s \in Session, r \in Remote : ViewerSends(k, s, r)
  \/ \E d \in net : Lose(d)
  \/ \E d \in net : Handle(d)
  \/ \E s \in Session : WearablesReceived(s)
  \/ Interrupt
  \/ Crash
  \/ CrashWhileSaving

Spec == Init /\ [][Next]_vars

(* A viewer repeats a reliable datagram until it is answered, and a         *)
(* datagram repeated for ever gets through; the poll loop handles whatever  *)
(* arrives.                                                                 *)
Joining == {"UseCircuitCode", "CompleteAgentMovement"}

Fairness ==
  \A k \in Joining, s \in Session : \A r \in RemotesOf[s] :
    /\ WF_vars(ViewerSends(k, s, r))
    /\ SF_vars(LET d == [kind |-> k, sid |-> s, from |-> r] IN
               d \in net /\ Handle(d))

FairSpec == Spec /\ Fairness

-----------------------------------------------------------------------------
(* Assumptions on how viewers are run, under which more can be promised.    *)

OneViewerPerAgent ==
  \A s, t \in Session : AgentOf[s] = AgentOf[t] => s = t

OneViewerPerRemote ==
  \A s, t \in Session : s # t => RemotesOf[s] \intersect RemotesOf[t] = {}

(* Every variable ranges over what the code stores in it: session tables    *)
(* hold addresses, indexes hold session ids, avatars hold local ids.        *)
TypeOK ==
  /\ circuit \in [Session -> Remote \union {None}]
  /\ byRemote \in [Remote -> Session \union {None}]
  /\ byAgent \in [Agent -> Session \union {None}]
  /\ avatars \in [Agent -> Nat]
  /\ nextLocalId \in Nat
  /\ pending \subseteq Session
  /\ disk \in ServerState
  /\ restarts \in Nat
  /\ log \in Outcome
  /\ net \subseteq Datagram
  /\ dups \in Nat
  /\ greeted \subseteq Session
  /\ left \subseteq Session
  /\ view \in [Session -> [Agent -> Nat]]

(* An index of smv_state never leads to a session that is gone or to one of *)
(* another address or agent, however logins, logouts, duplicates, saves and *)
(* crashes interleave: smv_logout_session removes all three entries.        *)
Sound(st) ==
  /\ \A r \in Remote : st.byRemote[r] # None => st.circuit[st.byRemote[r]] = r
  /\ \A a \in Agent : st.byAgent[a] # None =>
       /\ st.circuit[st.byAgent[a]] # None
       /\ AgentOf[st.byAgent[a]] = a

IndexesSound == Sound(Running)

(* No two avatars of the scene share a LocalID, and the id handed out next  *)
(* is fresh: across overlapping logins, repeated CompleteAgentMovement and  *)
(* restarts from any luastate.lua.                                          *)
DistinctIds(st) ==
  /\ \A a \in Agent : st.avatars[a] < st.nextLocalId
  /\ \A a, b \in Agent :
       st.avatars[a] = st.avatars[b] /\ st.avatars[a] # NoAvatar => a = b

LocalIdsDistinct == DistinctIds(Running)

(* A LocalID names one agent for ever: whatever two viewers were told, at   *)
(* whatever time and across saved restarts, the same id is the same agent   *)
(* (smv_scene_allocate_local_id's counter is saved with the scene).         *)
IdsNameOneAgent ==
  \A s, t \in Session, a, b \in Agent :
    view[s][a] = view[t][b] /\ view[s][a] # NoAvatar => a = b

(* The check smv_get_session_id_agent_id makes on the agent of every avatar *)
(* it notifies succeeds: an avatar in the scene has a session by its agent. *)
SceneResolvable ==
  \A a \in Agent : avatars[a] # NoAvatar => byAgent[a] # None

(* smvserver.lua:48 asserts of the agent it is about to notify "Session by  *)
(* agent id ... not nil".                                                   *)
AgentCheckHolds == log # "no session for agent"

(* Datagrams from the address a live session spoke from last reach that     *)
(* session: no live session is left without an entry in either index.       *)
LiveSessionsIndexed ==
  /\ TypeOK
  /\ \A s \in Session : circuit[s] # None =>
       byRemote[circuit[s]] = s /\ byAgent[AgentOf[s]] = s

(* Whoever is in the scene has been told of everyone in the scene, itself   *)
(* included, under the ids they have now (scene_update_all_agent_add).      *)
EveryoneSeesEveryone ==
  \A a, b \in Present(avatars) :
    Resolvable(a) => view[byAgent[a]][b] = avatars[b]

(* A LogoutRequest names the agent and the session it logs out              *)
(* (message_template.msg:5474-5478): the session that ends is the one whose *)
(* viewer asked.  smv_packet looks at neither, but at the address.          *)
OnlyOwnLogout ==
  [][\A s \in Session : circuit[s] # None /\ circuit'[s] = None => s \in left]_vars

(* What smv_packet's routing keeps, whoever shares an address: the process  *)
(* going on, a session ends only when some viewer that may send from its    *)
(* address has asked to leave, and only if it was the last to open a        *)
(* circuit there, so that nobody who took the address over loses the entry. *)
EndsAtItsAddress ==
  [][\A s \in Session :
       circuit[s] # None /\ circuit'[s] = None /\ restarts' = restarts =>
         /\ byRemote[circuit[s]] = s
         /\ \E t \in left : circuit[s] \in RemotesOf[t]]_vars

(* A viewer that was greeted and does not log out gets its avatar.          *)
GreetedViewersEnter ==
  \A s \in Session : s \in greeted ~> (InWorld(s) \/ s \in left)
=============================================================================

# cosimus: specifications, model checks and proofs

cosimus is a small virtual-world server: a C core (a poll loop, HTTP and UDP
listeners, buffers, lists, hash tables, timers) that runs Lua scripts (login,
inventory, asset and "SMV" packet servers). This directory holds TLA+ modules
translated from that code, TLC configurations that check them on small
instances, and proofs checked by TLAPS.

## Inventory

One process, one thread. `cosimus.c` calls `sock_one_cycle`, and nothing else,
until SIGINT, then saves the state and exits (the timers of `lib_timers.c` are a
library that nothing here drives: no file calls `check_timers`). Every handler
runs to its end before the next one starts, so a handler is one atomic action;
what interleaves is the order of packets, connections and answers, and what a
handler assumed about state that an earlier handler has changed since.

| Component | State | Operations | Correct when |
|---|---|---|---|
| SMV server (`smvserver.lua`, `pktsmv.c`) | sessions; indexes by address and by agent; requests in flight | one handler per packet type, callbacks of inventory and asset requests | the indexes lead to live sessions of that address and agent; live sessions are reachable; a logout ends the session that last opened a circuit at its address, and no other |
| Avatar scene (`mv_scene.lua`, `mv_smv_scene.lua`) | avatars by agent, next LocalID | add, remove, move; each notifies every agent in the scene | ids unique for ever; everyone present is shown to everyone present |
| State management (`smv_state_mgmt.lua`, `serialize.lua`) | `luastate.lua` | save at SIGINT, read at start | what is restored is consistent |
| Socket loop (`lib_sock.c`) | `ufds`, `cdata`, `nfds`, transmit lists | listen, connect, accept, read, write, close, one cycle | every byte queued is sent once and in order; an event is never handled for another socket in its slot; handlers that were told of a connection are told of its end once |
| Lists (`lib_lists.c`) | doubly linked items | lpush, rpush, lpop, rpop, ldelete | a sequence |
| dbufs (`lib_dbuf.c`) | reference count, data, size, used size, destructor | dalloc, dlock, dunlock, copy, append, print | freed once, at the last unlock; data kept when it grows; a writer of text leaves a C string |
| Hash tables (`lib_hash.c`) | buckets, iterators, deferred deletes | insert, find, delete, lock and walk iterators | iterators visit every key that stays, skip deleted ones, and nothing is freed under an iterator |
| Timers (`lib_timers.c`) | list of slots, chain of inactive slots, wheel of positions | start, stop, tick, grow | no slot is lost or used twice; a timer fires after its ticks unless it is stopped; its buffer is unlocked once |
| UUIDs (`lib_uuid.c`) | last reading, count within it, clock sequence, state file | create, read and write the file | no UUID twice, across restarts and clocks that are set back |
| HTTP server (`lib_httpd.c`, `httpd_common.lua`) | per connection: parser state, buffered data | read, parse, dispatch, answer, close | a request is handled when its last byte is read, with all of its body |
| HTTP client, async requests (`httpc_common.lua`, `async.lua`, `lua_libsu.c`) | request table by slot, store of what requests were about | start, connected, read, closed | an answer that was read is called back once, for the request it answers; an answer's buffer is never lost |
| Inventory (`inventory_*.lua`) | per owner: folders, items, child lists, outfit | create, update, fetch | children exist and name their parent; what a viewer was told it has, it has |
| Assets (`asset*.lua`) | files by id | store, fetch, chunked transfer | what is fetched is what was stored |
| Login (`loginserver.lua`) | none beyond its answer | login | a session id and circuit code the SMV server will accept |
| Packet codec (`sta_fmv.c`) | packet bytes | zero-code and decode | decode inverts encode, also with acknowledgements appended |

The parts talk through TCP on the loopback (login, inventory, assets), through
the scene and state tables they share, and through callbacks from the socket
loop. `PROJECT.json` lists each of them with what is modelled.

The hard behaviours are those no test of the repository reaches: UDP packets
late, lost and repeated; two viewers that share an address or an agent; answers
to requests whose session is gone; a slot of the socket table reused within the
cycle that closed it; writes accepted in part; deletion under an iterator;
timers started and stopped in the middle of a tick; a clock that is set back; a
process that dies without saving. `PROJECT.json` lists them as hazards, each at
its line, with the properties that cover it.

## Modules

| Module | Models | Used by |
|---|---|---|
| `SmvServer` | `script/smvserver.lua`, `mv_scene.lua`, `mv_smv_scene.lua`, `smv_state_mgmt.lua`, over UDP | `MCSmvServer` (instances), `SmvServerProofs` |
| `SockLoop` | `supp_src/lib_sock.c` with its two users, over the kernel's TCP | `SockStream` |
| `Conduit` | nothing: what a connection promises, abstractly | `SockStream` |
| `SockStream` | the bytes a peer of `SockLoop` sees; maps `SockLoop` to `Conduit` | `MCSockStream`, `SockLoopProofs` |
| `HttpServer` | `supp_src/lib_httpd.c`, one connection | `MCHttpServer`, `HttpServerProofs` |
| `HttpClient` | `script/httpc_common.lua`, `async.lua`, the channels of `lua_libsu.c` | `Inventory` |
| `Inventory` | `inventory_local.lua`, `inventoryserver.lua`, `assetserver.lua`, their clients and the callbacks of `smvserver.lua`, composed with `HttpClient` | `MCInventory`, `InventoryProofs` |
| `SendPath` | zero coding of `sta_fmv.c` under the answers `smvserver.lua` cuts into packets | `MCSendPath`, `SmvServerProofs` |
| `HashTable` | `supp_src/lib_hash.c` with its iterators | `MCHashTable`, `HashTableProofs` |
| `Dict` | nothing: what a table promises those who look keys up | `HashTable` |
| `TimerWheel` | `supp_src/lib_timers.c`, with its use of `lib_lists.c` | `MCTimerWheel`, `TimerWheelProofs` |
| `Dbuf` | `supp_src/lib_dbuf.c`, with what an HTTP connection keeps in it | `MCDbuf`, `DbufProofs` |
| `UuidClock` | `supp_src/lib_uuid.c` with its clock and state file | `MCUuidClock`, `UuidClockProofs` |

### SmvServer

`circuit`, `byRemote` and `byAgent` are `smv_state.sessions`,
`sess_id_by_remote` and `sess_id_by_agent_id`; `avatars` and `nextLocalId` are
the scene; `disk` is `luastate.lua`. `pending` holds the sessions an
asynchronous inventory request was started for. `net`, `greeted`, `left` and
`view` belong to the network and the viewers.

One action is one handler, with all it calls: opening a circuit, ignoring a
duplicate, `CompleteAgentMovement` (which allocates a LocalID, adds the avatar
and notifies every agent of the scene), `AgentUpdate`, the wearables request
and its late answer, `LogoutRequest`, save at SIGINT, restart. A Lua error cuts
a handler short and `pcall` reports it: what was done before it stays done, and
`log` says which error it was. Datagrams wait in a set; they are lost, repeated
and delivered in any order. A `LogoutRequest` ends the session its source address
leads to, whoever sent it: `EndsAtItsAddress` says what that guarantees, and
`OnlyOwnLogout`, which the message template promises, is violated when an address
is used again.

### SockLoop, SockStream, Conduit

`ufd`, `events` and `revents` are the three fields of `ufds[i]`, `cdata` is
`cdata[i]` (`owner` names the connection the slot was last given to; `xmit` is
`xmit_list`). `Poll` copies readiness into `revents`; `Handle(i)` is one branch
(POLLIN before POLLOUT, slots in order) and `EndCycle` is
`sock_remove_closed_fds`. Peers and the kernel move between any two branches, so
a socket can fail after poll reported it and before its branch runs. A failed
branch closes the slot and goes on, so `ev_newconn` or `ev_channel_ready` may run
on the slot just closed (`lib_sock.c:605-610`, `813-815`): its handlers hear of a
channel that is over and never of its end (`late`, which `ClosedOnce` names).
`AcceptNothing` is an `accept` that returns -1, which goes into a slot like any
other descriptor. Two steps end the process (`died`): a write to a peer that is
gone (`SendKilled`: nothing ignores SIGPIPE, since `makedaemon` is never called),
and `initiate_connect` when `nfds` has passed `MAX_FDS` (`ConnectAborts`, the
assertion of `lib_sock.c:503`). Above the
loop stand its two users: the HTTP server, which answers with a buffer and an
empty one that means "close", and the Lua HTTP client, which writes when its
channel is ready and may start new connections from any handler.

Bytes are numbered in the order they are handed over. `StreamIntact` cuts `1 .. n`
at some `ends`: what the kernel took is the first piece and every buffer of the
transmit list one of the others, in their order, whether the connection failed,
lost a part or not. The loop, with `sent` mapped to the length of that stream and
`state` to the kernel's, implements `Conduit`.

The read of an uninitialised `err` after `getsockopt` fails
(`sock_unconnected_pollinout`) is a choice: either branch may be taken.

### HttpServer

`l7state`, `rdb`, `wanted`, `got` and `content` are the fields of
`appdata_http_t`. A connection's bytes are a script of tokens (a line, CR, LF,
body bytes); `Read(n)` is one call of `ev_http_read` with the next `n` of them,
so every cut is explored. `handled` records the requests handed to the
dispatcher. A script may end with the CR LF that `http_client_make_req` puts behind
every request (`httpc_common.lua:99`); when it comes in a read of its own after a
request without a body, the request is handled again, since `do_l7_reset` keeps
its headers (`lib_httpd.c:208`). `HandledAtEachEnd` says that nothing else is.
Where `SockLoop` says when `ev_read` is called, `HttpServer` says
what it does with the bytes; `SockLoop`'s own `ReadRequest` keeps of it only
that an answer may be queued.

### HttpClient, Inventory

`is` is `inventory_client_sockets`, one entry for each socket index; `conn` is
the channel of that index and what its server answered; `async_requests_store`
is the table of `async.lua`. `MakeReq` takes a free index, and with it whatever
the request before left in its entry. `ChannelReady`, `Read` and `ClosedEvent`
are the three events of a channel; `ConnectFails` closes it and calls nobody, as
`lib_sock.c` does. The buffers that go out are in `out`: the copy of a request
(`SendBuffer`, `httpc_common.lua:38`), which `sock_write_data` unlocks only when
its first write leaves something over (`lib_sock.c:965-979`), and the body of an
upload (`PostBuffer`), which nobody unlocks when `make_req` raises
(`asset_client.lua:71`, `89`). `whole` has the requests whose first write took all.

`local_inventory` has a tree for each agent and one for the library;
`transactions`, `assets` and `all_assets` are the stores of uploads.
`Inventory!Ask` is a packet handler of `smvserver.lua` up to the request it
makes, `ServerHandles` a command of `inventoryserver.lua` or `assetserver.lua`
on the trees and the store, and `Callback` what `smvserver.lua` does with the
answer: it may find its session gone, or an answer that ended early and cannot
be decoded. `told` of a packet is the set of ids it names. A viewer updates its own
items and those of the library, which it is shown as its own
(`smvserver.lua:343`): the first update of one stores what the packet has as a new
item of the agent (`inventory_local.lua:262-265`), without an AssetID when the
packet names no transaction, and every answer that shows it then makes the
callback raise at `luaL_checkx_uuid`.

### SendPath

`sent` numbers what the server sends, `down` and `up` are the network, `got` is
what the viewer read. `Encoding` and `Decoding` are the loops of
`ZeroEncodePacket` and `ZeroDecodePacket`: functions from the bytes they have
seen to what they have written, with a counter that is a byte. `Desc` is the
inventory server's answer: two lists, each with the folder itself first
(`inventory_local.lua:135`), both empty when there is no such folder.
`smv_cb_inventory_descendents` takes the folders of the first list (`FolderBlocks`)
and the items of the second: `Packing` is its loop over that one, from the
elements it has seen to the packets it has sent and what it holds for the next.
`DescendentsMessages` adds the rest, with the lengths of both lists as the total,
and an empty packet; since the folder itself is filtered out of the second list
only after it was counted, the total is one more than what is sent.
`TransferMessages` is `smv_cb_asset_client_asset`, called with the asset or, when
the asset server hung up, as if there were none. A
number is written as a byte (`U8`) or as two of them (`S32`) and wraps when it
does not fit. A request is decoded with the acknowledgements that viewers append
to it.

It is the other half of `smvserver.lua`, with names of its own (`PathInit`,
`PathNext`, `PathSpec`), so that one module of proofs can extend both.

### HashTable, Dict

`ht.hens` is the memory of every entry ever allocated, so a pointer to freed
memory can be told from one to a later entry; `buckets` and `all_entries` are
the two lists an entry is on. `HTryDelete` marks an entry that an iterator sits
on, and `Unlock` removes it when the last one leaves. With `dict` mapped to what
`hfind` finds and `given` to the entries allocated, `HashTable` implements `Dict`.

### TimerWheel

`timers`, `timer_first_inactive`, `timer_last_inactive`, `timerwheel` and
`timerwheel_idx` have the names of the code. `CheckTimers` begins a tick, `Fire`
pops a timer and calls its handler, `HandlerReturns` is the rest of the loop's
body, `TickEnds` turns the wheel. Between `Fire` and `HandlerReturns` the handler
may start and stop timers, its own included. `halted` records a failed
assertion, or a use of memory the code has no say about: the pointer to the
timer is kept across a handler that makes the list move, and slots of a list
that has grown are not initialised.

### Dbuf

`bufs` is every buffer ever allocated, so that a pointer to freed memory can be
told from one to a later buffer; `place` is whatever keeps a pointer to one: a
variable, an item of a queue, a timer. The appdata of an HTTP connection is a
buffer with a destructor which keeps two pointers of its own, `rdb` and `content`.
An action is a call: the four ways to allocate, `Dlock`, `Dunlock` (with the
destructor it runs and the locks that one gives up), `dmemcat`, `dstrcat`,
`dxprintf` and the other appending calls, each with what it leaves behind when
`realloc` finds no memory. `lost`, `frees`, `meant`, `string` and `spoilt` look
back: how many pointers were forgotten, how often a buffer was freed, what its
data is meant to be, whether its last writer left a C string, and whether a call
left it wrong without saying so.

### UuidClock

`clock` is the machine's, in readings; `file` is what `write_state` left. A
restart forgets everything but the file. `used` and `repeated` look back on all
processes.

## Runs

| Run | Checks | Shows |
|---|---|---|
| `smv_separate` | `IdsNameOneAgent`, `LiveSessionsIndexed`, `EveryoneSeesEveryone`, `GreetedViewersEnter` | with an agent and an address per viewer the server keeps its tables and its viewers' views right under any loss, repetition and order, and across a saved restart; a greeted viewer gets its avatar |
| `smv_crash` | `IndexesSound`, `LocalIdsDistinct`, `SceneResolvable`, `EndsAtItsAddress` | dying unsaved, or between the two tables of the save, leaves nothing inconsistent, also when a viewer moves to the other's address; a logout ends the last session its address opened |
| `smv_logout` | `OnlyOwnLogout` | violated: a late LogoutRequest ends the session another viewer has opened from the same address since |
| `smv_agent_check` | `AgentCheckHolds` | violated: with an agent logged in twice, logout clears the other session's index entry and a later notification fails half-way |
| `sock_answers` | `OpenConnectionsHaveASlot`, `EventsBelongToTheirSocket`, `QueuedMeansInterested`, `ClosedOnce`, `StreamIntact`, `KeepsPromise`, `AnswersEnd` | slots may be closed and reused within a cycle without an event, a queue or a close going astray, but for the connections handlers hear of too late; answers arrive whole and in order, the loop implements `Conduit`, and every answered connection ends unless the process dies |
| `http_reads` | `HandledWhenComplete`, `HandledAtEachEnd`, `BodyIntact` | a request is handled with its whole body, when its last byte is read, and again exactly for the empty line of `httpc_common.lua` after a request without a body |
| `inventory_requests` | `TreeSound`, `BuffersCounted`, `ToldItemsExist`, `AnswersNotLost`, `ItemsKeepAssets` | trees stay sound, no buffer is lost but of the two kinds named, whoever was told of an item has it, and an answer that was read whole is called back or found its session gone; both this and that items keep their assets name the one case of a library item that was updated without one |
| `send_path` | `ReadAsSent`, `NothingMissing`, `TransferReassembles` | zero coding is undone, and a viewer with all packets of an answer has all of the folder or asset, once, was told one entry too many of the folder, and the asset's size or, by a server that hung up, that there is none |
| `hash_iterators` | `LocksCountIterators`, `DestroyedOnce`, `IterationComplete`, `ImplementsDict` | no iterator is left on freed memory, every entry is destroyed once, iterations are complete, and look-ups see a dictionary |
| `timer_wheel` | `SlotsAccountedFor`, `OnSchedule`, `AssertionsHold`, `BuffersCounted`, `QueuedTimersFire` | no slot is lost or used twice, no timer fires early or late by the ticks counted for it, none is passed over if `check_timers` is called for ever, and buffers are unlocked once |
| `uuid_clock` | `UuidsDistinct`, `FileIsRecent` | no UUID is created twice as long as restarts or a clock set back happen, not both, and no more are created in a microsecond than it has ticks |
| `dbuf_life` | `LocksCountReferences`, `DataAsMeant`, `StringsEnd` | a buffer is freed once, when the last of those who keep it lets go, but for the pointers that are forgotten; what is appended stays, and text is ended, also when memory runs out, but where a call is known not to say so |

Both violations are findings; `PROJECT.json` quotes the lines they contradict.
Each module's `TypeOK` (`PathTypeOK` in `SendPath`) is checked as the first
conjunct of one of its invariants: `LiveSessionsIndexed`,
`OpenConnectionsHaveASlot`, `HandledWhenComplete`, `TreeSound`, `ReadAsSent`,
`LocksCountIterators`, `SlotsAccountedFor` and `LocksCountReferences`.

### Bounds

- SMV: two sessions of two agents, with an address each, are the smallest
  instance in which viewers see one another and a restart can revive a session
  beside a newer one. In `smv_crash` the second viewer is moved by a NAT to the
  first one's address, so one index entry can change hands between a save and the
  restart that reads it. `smv_logout` and `smv_agent_check` take three sessions,
  one agent logged in twice and two viewers at one address. One duplicated datagram repeats any handler.
  `MaxInFlight = 10` in `smv_separate` is every datagram these viewers can send, so
  it bounds nothing there; in the other runs two at a time are on their way. Four
  LocalIDs are one for each entry of either avatar and one for each after a
  restart.
- Socket loop: an accepted connection and an outgoing one, three slots beside each
  other with the listener, let a slot be freed and taken again in one cycle by a
  connection of the other kind. `MaxFds` equals the number of slots, so the table
  can be full, and `nfds` can pass it by a refused connection. Two bytes are enough
  for an answer to be split once.
- HTTP: a script is one request of each shape with up to two header lines, a
  four-byte body that holds an empty line of its own, with and without the CR LF
  of `httpc_common.lua` behind it, a POST without a body included. Every script
  satisfies `OneRequest`, the hypothesis of the theorems: `ViewersSendOneRequest`
  of `MCHttpServer` is evaluated by the run.
- Inventory: two sessions of two agents, two requests and two socket indexes let
  requests overlap, an index be used again and a session end before its answer;
  an answer of two parts can end between them. One asset is uploaded, one
  folder created, and one restart may come at any point. Only an upload's first
  write may leave something over (`Cut`): the other requests are shorter, and what
  is left over waits the same way whoever asked. The two agents are exchanged
  together with their sessions (symmetry).
- Send path: a byte has four values and a counter that wraps after three, so runs
  of zeros that fill and overflow it fit an S32; two items fill a packet and two
  bytes a piece, and folders and assets of `MCSendPath` are empty, fit, fill and
  leave a rest; one folder and one asset are missing. Two requests can name the
  same folder or asset. They satisfy `AnswersFit`, the hypothesis of two theorems:
  the assumption `SmallAnswersFit` of `MCSendPath` is evaluated by the run.
- Hash table: two keys in one bucket, two iterators and four entries let an
  entry be replaced twice under both of them.
- Timers: three positions, and intervals in milliseconds of no tick (9), of one,
  of two and of a whole wheel (10, 29, 30), and one that wraps (670, with 2^16
  values of a `uint32_t`); a list of three grows once to four.
- Buffers: two places and three buffers let one be kept twice, forgotten and
  allocated again beside its successor; four bytes of memory, chunks of one and a
  temporary buffer of two let a buffer grow, an append be refused and a printed
  text be cut. The texts are one that the temporary buffer holds and one that it
  does not. Places are interchangeable (symmetry).
- UUIDs: three UUIDs per tick with two per reading, a file saved every third
  timestamp, two clock sequences, two restarts and one setting back, with five
  readings of the clock. That more settings back are harmless below the number of
  sequences is `UuidsAreDistinct`.

### Fairness

`SmvServer!FairSpec`: weak fairness of a viewer's sending (viewers repeat
reliable datagrams until they are acknowledged) and strong fairness of handling
a datagram that is on its way again and again (UDP loses some, not all; the
poll loop handles all that arrive). Nothing is assumed of logouts, restarts or
loss.

`SockStream!FairSpec`: weak fairness of the loop's own steps, since `cosimus.c`
calls `sock_one_cycle` for ever and a cycle's loop visits every slot; and strong
fairness of a poll that shows a slot writable, that is, the peer reads. Without
the last a peer that never reads keeps its answer queued, as in the program,
which has no timeout. A process that SIGPIPE or an assertion ended takes no step
that fairness could ask for, which is why `AnswersEnd` names it.

`TimerWheel!Spec` has no fairness: `cosimus.c:70-72` calls `sock_one_cycle` only,
and no file under `src/` calls `check_timers`, so in this program no timer ever
fires. `QueuedTimersFire` is conditional: of a program that calls `check_timers`
again and again (`[]<><<CheckTimers>>_vars`, which a tick that does not end would
refute) it says that a queued timer fires or is stopped, however many timers
handlers start.

`CHECK_DEADLOCK FALSE` is set where the bounds let the system stop: the SMV runs,
where everyone may have logged out with no datagram left, the socket run, whose
process can be killed, and the inventory, send path, buffer and UUID runs, which
are out of requests, buffers or clock readings.
The others run with the deadlock check.

## Theorems

All are proved by TLAPS for every value of the constants, from the named
assumptions in the modules and nothing else.

- `SmvServerProofs`: `TypeCorrect`; `IndexesAreSound` and `LocalIdsAreDistinct`
  for any sharing of agents and addresses, and any crash; `IdsNameOneAgentEver`
  without a crash; `AvatarsHaveSessions` for one viewer per agent,
  `SessionsStayIndexed` for an agent and addresses per viewer, `EveryoneIsSeen`
  for one viewer per agent and no crash, `SessionsEndAtTheirAddress` for any sharing
  and any crash: what is bound to an address is the session that opened the last
  circuit there, from whatever file it comes, and a LogoutRequest on its way was
  sent from its address by a viewer that left (`TrafficInv`).
  What is in memory is not enough for an induction: the state on disk can come
  back at any restart, so each invariant is also kept of `disk`.
  `AvatarsHaveSessions` needs besides that every live session is the one its
  agent's entry leads to (`OwnEntry`), for otherwise one logout could clear
  another session's entry. `EveryoneIsSeen` rests on it: a notification that finds
  every agent's session runs to its end.
- `SmvServerProofs`, of `SendPath`: `ZeroCodingIsUndone`, `PathInvariant`,
  `ReadsAreAsSent`, `AnswersMissNothing`, `TransfersReassemble`, for folders and
  assets of any length, any size of byte, packet and piece, and as many requests
  as a byte numbers. Each loop has an invariant. After `n` bytes the coder has
  written what decodes to the first `n` less the zeros it still counts
  (`PartIsDecoded`), and the decoder takes nothing back, so what is appended
  cannot change what came before. The loop over the first list keeps the folder
  itself and its folders (`FolderBlocks`); after `n` elements of the second the
  packets sent and what waits for the next one are, in their order, those folders
  and the first `n - 1` items, the first element being the folder (`Packing` and
  its lemmas). The first `k` pieces are the first `k * MAX_SZ` bytes
  (`PiecesAreTheAsset`). Above them `PathInv` says what is on its way: every
  packet is the coding of a request that was asked or of the message sent with its
  number (`UpIsCoded`, `DownIsSent`, `GotIsSent`), what a handler read was asked
  (`HeardWasAsked`), an answer is one of the possible messages of its request
  (`MessagesOf`: of an asset, also the one that says there is none) under the
  numbers it took (`AnswersSent`), and nothing else is sent but acknowledgements
  (`SentAnswers`). A transfer's number is one request's, which is why packets of
  several answers to a repeated request can be put together. `AnswersMissNothing`
  and `TransfersReassemble` assume `AnswersFit`: a byte counts the folders of an
  answer, the folder itself included, and an S32 its entries, or the asset's
  bytes. The code checks neither. A folder with 255 folders in it would be sent
  with a count of 0. The library's induction theorems take an operator, which the
  provers cannot be given; `Induct`, `InductTo` and `LoopExists` derive induction
  over a set of numbers, and the existence of a loop's function, from the order of
  the numbers being well-founded.
- `SockLoopProofs`: `TypeCorrect`, `ConnectionsKeepTheirSlot`,
  `EventsKeepTheirSocket`, `QueuesAreWatched`, `ClosingsAreSingle`. One inductive
  invariant, `IInv`, carries them all. `SlotsInv` says what a slot holds by its
  descriptor; `PendingInv` that an event left in a closed slot can only be the
  POLLOUT after the POLLIN that closed it, with an empty queue and all earlier
  slots done, which is why handling it does nothing and why `EndCycle` cannot meet
  it; `SocketsInv` and `ClosingInv` tie the table to the kernel and to
  `ev_closed`; `LateInv` that only an outgoing connection which failed before it
  was ready can be told of too late. On top of them `StreamsStayIntact`: `Carries`
  states the cuts of one connection's stream, and every branch of the loop is one
  of six things done to it (nothing, an answer queued, bytes sent, opened, hung
  up, dropped). From the same classification `PromiseKept`: every step of the loop
  is a step of `Conduit` or a stutter.
- `HttpServerProofs`: `TypeCorrect`, and `HandledInTime`, `HandledPerEnd` and
  `BodyKept` for scripts that hold one request each (`OneRequest`). That
  `HTTP_L7_READ_POST_DATA` never waits for bytes already there needs two facts
  about `rdb`: no end of headers lies in it between two reads (`NoEndInBuffer`), so
  headers completed later reach to its last byte but a CR
  (`HeadersKeepTheBuffer`), so a Content-Length once counted is still among them
  (`LengthRemembered`). The other three follow a connection through its stages
  (`Progress`): before its headers are complete nothing was handled, after them
  the buffer holds what was read and no more, after its body all of it was
  handled; behind it there is at most the CR LF of `httpc_common.lua`, which ends
  the same headers once more and cannot end a body (`Counted`).
- `HashTableProofs`: `LocksCount`, `DestructorsRunOnce`, `IterationsAreComplete`,
  and the refinement `TableIsADictionary`. The invariant, `Sound`, is stated of
  any table and iterators, since one call locks, moves and unlocks in turn: the
  two lists of live entries agree (`Linked`), a lock count is the number of
  iterators on the entry, but for one extra lock on the entry in between
  (`Counted`), and a deleted entry is still linked exactly while somebody sits on
  it (`Awaited`). Each of those operations keeps it.
- `DbufProofs`: `LocksCount`, `DataKept`, `StringsAreEnded`. Locks are a ledger:
  each operation says how many more it owes to whom, and how many fewer (a place
  that takes or drops a pointer, an appdata that does, a pointer that is
  forgotten, a destructor that pays for what its buffer kept).
- `InventoryProofs`: `TypeCorrect`, `TreesStaySound`, `BuffersStayCounted`,
  `ToldItemsStay`, `AnswersAreRead` and the action property `AssetsAreKept`, of
  viewers that update the library's items as well as their own. What a client's
  entry holds depends on the state of its connection (`EntryFits`), no two entries
  share a buffer (`Apart`), and those allocated are those held (`Allocated`),
  which is why a request that fails without a callback loses nothing: the next
  user of its index frees it. What the servers hold only grows, so what was told
  or is in an answer on its way is still there. What goes out is queued or lost in
  one of the two named ways (`OutCounted`). An item without an AssetID is a copy
  of the library's, of an agent that updated it without naming an asset
  (`NilAssets`), and only such an agent is shown one (`Bare`). Assumed of the
  constants: the library's inventory is not an agent's.
- `TimerWheelProofs`: `TypeCorrect`, `SlotsStayAccountedFor`,
  `TimersStayOnSchedule`, `AssertionsStayTrue`, `BuffersStayCounted`, for wheels,
  lists and intervals of any size. The invariant says that some sequence goes
  through exactly the inactive slots, each linked to the next (`Chained`); that
  a slot is in the list of its position, once, if it is queued, and in none
  otherwise (`Wheeled`); that this is the position the wheel comes to after its
  ticks (`Scheduled`); that locks are counted (`Counted`); and what a handler may
  have done to the timer that fires (`Handling`). Starting a timer breaks it half
  way, between taking a slot and queueing it, so its parts are stated of any
  values.

- `UuidClockProofs`: `TypeCorrect`, `UuidsAreDistinct`, `FileStaysRecent`, for any
  resolution of the clock. While the clock advances (`Ahead`), all that was
  created lies before what is left of the current reading, in whichever process
  and whatever the file says; the file matters only for `FileIsRecent`, where
  `FileWritten` ties it to the next save. While one process runs (`Counted`),
  every UUID of `m` changes ago has the sequence `m` before the present one, the
  changes are no more than the settings back, one less while the clock is still
  behind, and so the sequence has not come round (`Differ`). What makes this
  work is that the clock, not the timestamp, decides whether the time went back
  (`TimestampMoves`). Assumed: creating a UUID takes longer than one 100 ns tick,
  a restart longer than one reading, and the clock is set back less often
  than there are sequences.

Only model-checked: the liveness properties `GreetedViewersEnter`, `AnswersEnd`
and `QueuedTimersFire`. They rest on fairness and on which actions are enabled,
which is out of the prover's reach. `AgentCheckHolds` and `OnlyOwnLogout` are
violated.

## Facts about the code that the models show

- Viewers are never told that an avatar left: `scene_remove_avatar` calls a
  function whose body is empty (`mv_scene.lua:65`), though `mv_scene.lua:98` says
  it sends the cleanups. `EveryoneSeesEveryone` is about who is in the scene.
- When the kernel takes only a part of the first write on a connection, the rest
  is lost (`lib_sock.c:973`). `StreamIntact` is exact for what the loop queues.
- A connection that fails is closed and nobody is called back
  (`lib_sock.c:809`), so the slot's entry in the HTTP client stays until the
  index is used again; `MakeReq` then frees its buffer.
- A refused connection is counted in `nfds` first (`lib_sock.c:763`), and `nfds`
  never shrinks: a closed slot's descriptor, -1, is compared with `nfds - 1`.
- An empty line after an answered request without a body completes it again
  (`lib_httpd.c:208`), and `http_client_make_req` sends one after every request
  (`httpc_common.lua:99`); `HandledAtEachEnd` says exactly when.
- Handlers can be told of a channel whose slot was closed a moment before
  (`lib_sock.c:605-610`, `813-815`); nobody tells them of its end.
- A write to a peer that went away kills the process: only `makedaemon` ignores
  SIGPIPE (`lib_os.c:92`), and nothing calls it.
- Nothing calls `check_timers`, so no timer fires.
- The total of a folder's answer is one more than what is sent: the folder itself
  heads both lists (`smvserver.lua:706`, `inventory_local.lua:135`).
- The first update of a library item stores the update alone as the agent's item
  (`inventory_local.lua:262-265`); without an asset, the outfit and the folder that
  show it can no longer be sent (`smvserver.lua:352`, `738`).
- A POST whose lines end with a bare LF loses its first body byte
  (`lib_httpd.c:605`) and is kept out of the runs.
- A handler that makes the timer list grow leaves the tick with a pointer to the
  old list; a handler that stops its own timer and starts another is given its
  own slot, which the tick then frees; an interval that does not fit the wheel
  leaves a slot that was never queued. `AssertionsHold` says that these are the
  only ways to break the assertions of `lib_timers.c`.
- Created items are put under `zero_uuid`, and a created folder under its type
  taken for an id; an asset is acknowledged before it is stored.

- Two buffers of the HTTP client leak: the copy of every request whose first write
  takes it whole (`httpc_common.lua:38`), and the body of an upload that found no
  connection (`asset_client.lua:71`, `89`). `BuffersCounted` of `HttpClient` names
  both.
- Two pointers to buffers are forgotten, and with them the buffers leak: the
  destructor of a connection's appdata does not unlock `rdb` (`lib_httpd.c:151`),
  and a second Content-Length overwrites `post_content_buf` (`lib_httpd.c:584`).
  `LocksCountReferences` counts both as `lost`.
- `dstrcat` does not look at what `dmemcat` returned and ends the text of a buffer
  that did not grow (`lib_dbuf.c:470`); `dxprintf` appends what lies behind its
  temporary buffer when a text has 1024 bytes or more (`lib_dbuf.c:630`);
  `dsubstrcpy` returns a buffer whose used size is 0 (`lib_dbuf.c:411`).
  `DataAsMeant` names the first two by `spoilt`.

## What is abstracted or left out

- `SmvServer`'s packets keep their kind, session and address. The server's own
  datagrams are not lost there: `view` says what was sent. `SendPath` has their
  numbers and contents, and loses them. A save that is cut short leaves an empty
  file or the first of the two tables; a file cut between two statements of a
  table is left out, and one cut inside a statement is refused by Lua.
- `SockLoop` has TCP only, without TLS (no code sets `do_ssl`) and without UDP
  slots, which send at once and never queue. `sock_write_data` is called once per
  channel, as `lua_libsu.c` does.
- `HttpServer` has no values of headers but Content-Length, which is always the
  body's length, and no text of answers. A length that `dalloc` refuses leaves
  `post_content_buf` NULL (`lib_httpd.c:582-584`) and ends the process at the next
  byte of a body (763); an empty header value takes the next line (541).
- `HttpClient`: after a callback raised, `lua_libsu.c:226-228` pops the Lua stack
  once more than it was pushed; the stack is not modelled.
- `SmvServer` keeps of inventory requests that their answers come late; `Inventory`
  has what they do. An interrupted handler leaves nothing half done there.
- `Inventory`: an entry has its place and its asset; names, permissions and other
  fields are text. The zip archives are one library item. A login's XML-RPC answer
  is the session it hands out.
- `SendPath`: buffers are as long as they have to be, although those of
  `smvserver.lua` have 1500 bytes and ten items with long names need more; field
  accessors are copies.
  `GetAcks` and `AppendAcks` have no caller.
- `HashTable`: a refused insert or delete changes nothing. Statistics are left out.
  Keys are equal or different, while `lib_hash.c:79` compares as many bytes as the
  key looked up has: a longer key that begins with it, in the same bucket, is taken
  for it. No two keys of the model are such.
- `Dbuf`: `lib_httpd.c:584` stores what a refused `dalloc` returned
  (`ContentRefused`). A client of the buffers unlocks what it holds or forgets it;
  the HTTP client's two leaks are counted in `HttpClient`.
- `TimerWheel`: ids with an old generation are refused, so an id is a slot.
- `UuidClock`: the node id has its own file and stays the same; name-based UUIDs
  keep no state. `PerReadingAssumption` rules out what `lib_uuid.c:212` would do
  with more than ten UUIDs in a microsecond, which `UUIDS_PER_TICK` would allow.
- Chat, textures, terrain and replies that change nothing are left out of
  `smvserver.lua`.

The remaining components are in `PROJECT.json`, each with the reason it is not
modelled yet or at all.

## Plan

Done: `SmvServer`, `SockLoop` with `SockStream` refining `Conduit`, `HttpServer`,
`UuidClock`, `HashTable` refining `Dict`, `TimerWheel`, `HttpClient` with
`Inventory`, `Dbuf` and `SendPath`, model-checked and with proofs of every safety
property that a passing run checks.

What could be added, in this order:

1. The server's own datagrams lost, in `SmvServer`, with `EveryoneSeesEveryone`
   about what arrived.
2. Lists with their pointers, refining a sequence; the packet pools of
   `lib_sock.c`'s UDP side.
3. The rest of `lua_libsu.c` and `pktsmv.c`, as far as it keeps state.

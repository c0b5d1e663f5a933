----------------------------- MODULE Inventory ------------------------------
(***************************************************************************)
(* The inventory: the trees inventory_local.lua keeps, the commands of     *)
(* inventoryserver.lua on them, the assets of assetserver.lua, and the SMV *)
(* server between both and the viewers.  It asks over HttpClient and       *)
(* continues in a callback, when the session that asked may be gone.       *)
(*                                                                         *)
(* The requests of one viewer go over connections of their own and are     *)
(* answered in any order.  A datagram may be handled twice.  An entry of   *)
(* an inventory keeps its place and its asset; the other fields of an item *)
(* are left out.                                                           *)
(***************************************************************************)
EXTENDS HttpClient, SequencesExt

CONSTANTS
  Sessions, Agents,
  AgentOf,          \* the agent each session was issued to
  Folders,          \* the ids viewers give to new folders
  Transactions,
  Commands,         \* what viewers ask for
  Cut,              \* commands whose first write may not take all of them
  MaxRequests, MaxAssets, MaxRestarts     \* bounds

Library == "library"     \* what owns the library's inventory

ASSUME AgentAssumption == AgentOf \in [Sessions -> Agents] /\ Library \notin Agents

VARIABLES
  issued,           \* sessions that a login answered with
  sessions,         \* smv_state.sessions
  local_inventory,
  transactions,     \* the asset of each transaction the server heard of
  assets,           \* smv_state.assets: has each asset its data?
  all_assets,       \* what the asset server has stored
  hung,             \* requests whose connection ended early
  sent,             \* packets that callbacks sent
  restarts

store == <<local_inventory, transactions, assets, all_assets>>
viewers == <<issued, sessions>>
vars == <<client, viewers, store, hung, sent, restarts>>

zero_uuid == <<"zero", 0>>
nil == <<"nil", 0>>             \* an AssetID that is absent
wearables == <<"wearables", 0>>
TypeParent == <<"type", 0>>     \* the Type of a folder, used as an id
Item(r) == <<"item", r>>
Asset(n) == <<"asset", n>>
Root(owner) == <<"root", owner>>
LibraryItem == <<"library item", 0>>
LibraryAsset == <<"library asset", 0>>

NewFolder(parent) ==
  [IsFolder |-> TRUE, FolderID |-> parent, ChildFolders |-> <<>>, ChildItems |-> <<>>]
NewItem(parent, asset) == [IsFolder |-> FALSE, FolderID |-> parent, AssetID |-> asset]

Put(tree, id, entry) ==
  [x \in DOMAIN tree \cup {id} |-> IF x = id THEN entry ELSE tree[x]]
ListFolder(tree, parent, id) ==
  IF parent \in DOMAIN tree
    THEN [tree EXCEPT ![parent].ChildFolders = Append(@, id)] ELSE tree

\* Seeded fault: the parent that is missing is made after the new folder.
CreateFolderUnlisted(tree, id, parent) ==
  LET known == Put(ListFolder(tree, parent, id), id, NewFolder(parent))
  IN IF parent \in DOMAIN known THEN known ELSE Put(known, parent, NewFolder(zero_uuid))

\* invloc_create_folder; a parent that is missing is made under zero_uuid,
\* which nobody makes.
CreateFolder(tree, id, parent) ==
  LET known == IF parent \in DOMAIN tree THEN tree
               ELSE Put(ListFolder(tree, zero_uuid, parent), parent, NewFolder(zero_uuid))
  IN Put(ListFolder(known, parent, id), id, NewFolder(parent))

CreateSkeleton(agent) ==
  CreateFolder(Put(<<>>, Root(agent), NewFolder(zero_uuid)), <<"clothing", agent>>, Root(agent))

\* inventory_server_loadzip: what the archives put into the library.
LoadLibrary ==
  LET root == Put(<<>>, Root(Library), NewFolder(zero_uuid))
  IN Put([root EXCEPT ![Root(Library)].ChildItems = <<LibraryItem>>],
         LibraryItem, NewItem(Root(Library), LibraryAsset))

\* Seeded fault: the item that was sent replaces the old one.
UpdateItemWhole(tree, id, parent, asset) == Put(tree, id, NewItem(parent, asset))

\* invloc_update_inventory_item: the fields that were sent replace the old
\* ones; without an AssetID the item keeps its own.  An item that is not in
\* the agent's own inventory, one of the library's, is only what was sent.
UpdateItem(tree, id, parent, asset) ==
  LET old == IF id \in DOMAIN tree THEN tree[id].AssetID ELSE nil
  IN Put(tree, id, NewItem(parent, IF asset = zero_uuid THEN old ELSE asset))

\* What a look-up finds: the agent's own entry, or the library's.
Retrieve(agent, id) ==
  {id} \cap (DOMAIN local_inventory[agent] \cup DOMAIN local_inventory[Library])

\* An item as the agent sees it: its own, or the library's.
Seen(agent, id) ==
  local_inventory[IF id \in DOMAIN local_inventory[agent] THEN agent ELSE Library][id]
Items == {LibraryItem} \cup {Item(r) : r \in Made}

\* The entries an answer tells of; nil is among them when an item has no asset.
Shown(agent, ids) ==
  ids \cup {nil : id \in {x \in ids \cap Items : Seen(agent, x).AssetID = nil}}

\* The folder and the children that have an entry, in the agent's inventory
\* or else in the library.
ChildElements(owner, folder) ==
  LET tree == local_inventory[owner]
      f == tree[folder]
  IN IF folder \notin DOMAIN tree THEN {}
     ELSE {folder} \cup (Range(f.ChildFolders \o f.ChildItems) \cap DOMAIN tree)
Descendents(agent, folder) ==
  IF folder \in DOMAIN local_inventory[agent]
    THEN ChildElements(agent, folder) ELSE ChildElements(Library, folder)

\* The outfit an agent asked for last, or the library's.
Wearables(agent) ==
  LET tree == local_inventory[agent]
  IN IF wearables \in DOMAIN tree
       THEN UNION {Retrieve(agent, id) : id \in tree[wearables].WearablesList}
       ELSE Retrieve(agent, LibraryItem)

GetAsset(id) == {id} \cap (all_assets \cup {LibraryAsset})

Init ==
  /\ ClientInit
  /\ issued = {} /\ sessions = {}
  /\ local_inventory = [owner \in Agents \cup {Library} |->
                          IF owner = Library THEN LoadLibrary ELSE <<>>]
  /\ transactions = <<>> /\ assets = <<>> /\ all_assets = {}
  /\ hung = {} /\ sent = {} /\ restarts = 0

-----------------------------------------------------------------------------
(* Logins and circuits. *)

\* create_login_response: the first login of an agent makes its skeleton.
Login(s) ==
  /\ s \notin issued
  /\ issued' = issued \cup {s}
  /\ LET a == AgentOf[s] IN
     local_inventory' = [local_inventory EXCEPT ![a] =
                           IF Root(a) \in DOMAIN @ THEN @ ELSE CreateSkeleton(a)]
  /\ UNCHANGED <<client, sessions, transactions, assets, all_assets,
                 hung, sent, restarts>>

UseCircuitCode(s) ==
  /\ s \in issued /\ sessions' = sessions \cup {s}
  /\ UNCHANGED <<client, issued, store, hung, sent, restarts>>

LogoutRequest(s) ==
  /\ s \in sessions
  /\ sessions' = sessions \ {s}
  /\ UNCHANGED <<client, issued, store, hung, sent, restarts>>

-----------------------------------------------------------------------------
(* Datagrams that become requests.  A viewer knows the folders a login      *)
(* names, those it makes, the items it was told of, and the library's, which*)
(* are shown to every agent as its own.                                     *)

KnownFolders(s) ==
  {Root(AgentOf[s]), Root(Library)} \cup {<<"folder", f>> : f \in Folders}
ToldItems(s) ==
  {LibraryItem} \cup (Items \cap UNION {p.told : p \in {q \in sent : q.to = s}})

Request(s, cmd, arg, asset) ==
  [session |-> s, cmd |-> cmd, arg |-> arg, asset |-> asset]

Ask(s, cmd, arg, asset) ==
  /\ s \in sessions /\ cmd \in Commands /\ Len(async_requests_store) < MaxRequests
  /\ MakeReq(Request(s, cmd, arg, asset), cmd = "upload")
  /\ UNCHANGED <<viewers, local_inventory, all_assets, hung, sent, restarts>>

Unasked == UNCHANGED <<transactions, assets>>

AgentWearablesRequest(s) ==
  Ask(s, "wearables", zero_uuid, zero_uuid) /\ Unasked
AgentIsNowWearing(s, item) ==
  Ask(s, "update_wearables", item, zero_uuid) /\ Unasked
CreateInventoryFolder(s, folder) ==
  Ask(s, "create_folder", folder, zero_uuid) /\ Unasked
FetchInventoryDescendents(s, folder) ==
  Ask(s, "fetch_descendents", folder, zero_uuid) /\ Unasked
TransferRequest(s, asset) ==
  Ask(s, "get_asset", asset, zero_uuid) /\ Unasked

\* An unknown transaction gives the item no asset.
CreateInventoryItem(s, transaction) ==
  Ask(s, "create", zero_uuid,
      IF transaction \in DOMAIN transactions THEN transactions[transaction] ELSE zero_uuid)
  /\ Unasked

\* With an unknown transaction the handler raises an error; an item moved to
\* zero_uuid is not updated.
UpdateInventoryItem(s, item, transaction) ==
  /\ transaction \in DOMAIN transactions \cup {zero_uuid}
  /\ Ask(s, "update", item,
         IF transaction = zero_uuid THEN zero_uuid ELSE transactions[transaction])
  /\ Unasked

\* Each AssetUploadRequest names a new asset; one without data waits for a
\* transfer that never starts.
AssetUploadRequest(s, transaction) ==
  LET asset == Asset(Len(assets) + 1) IN
  /\ Len(assets) < MaxAssets
  /\ assets' = Append(assets, TRUE)
  /\ transactions' = Put(transactions, transaction, asset)
  /\ Ask(s, "upload", asset, asset)
AssetUploadRequestEmpty(s, transaction) ==
  LET asset == Asset(Len(assets) + 1) IN
  /\ s \in sessions /\ "upload" \in Commands /\ Len(assets) < MaxAssets
  /\ assets' = Append(assets, FALSE)
  /\ transactions' = Put(transactions, transaction, asset)
  /\ UNCHANGED <<client, viewers, local_inventory, all_assets, hung, sent, restarts>>

-----------------------------------------------------------------------------
(* The servers, and the callbacks. *)

\* Seeded fault: an item is answered before it is stored, which fails.
CommandedUnstored(r) ==
  LET q == async_requests_store[r]
      tree == local_inventory[AgentOf[q.session]]
  IN IF q.cmd = "create_folder" THEN CreateFolder(tree, q.arg, TypeParent) ELSE tree

\* What a command does to the agent's inventory, and the ids it answers with.
Commanded(r) ==
  LET q == async_requests_store[r]
      tree == local_inventory[AgentOf[q.session]]
  IN CASE q.cmd = "create" -> Put(tree, Item(r), NewItem(zero_uuid, q.asset))
       [] q.cmd = "create_folder" -> CreateFolder(tree, q.arg, TypeParent)
       [] q.cmd = "update" -> UpdateItem(tree, q.arg, Root(AgentOf[q.session]), q.asset)
       [] q.cmd = "update_wearables" -> Put(tree, wearables, [IsFolder |-> FALSE,
                                             FolderID |-> zero_uuid, WearablesList |-> {q.arg}])
       [] OTHER -> tree

Answered(r) ==
  LET q == async_requests_store[r]
      a == AgentOf[q.session]
  IN CASE q.cmd = "create" -> {Item(r)}
       [] q.cmd = "fetch_descendents" -> Shown(a, Descendents(a, q.arg))
       [] q.cmd = "wearables" -> Shown(a, Wearables(a))
       [] q.cmd = "get_asset" -> GetAsset(q.arg)
       [] OTHER -> {}

ServerHandles(i) ==
  LET r == conn[i].asked IN
  /\ Answer(i, Answered(r))
  /\ local_inventory' = [local_inventory EXCEPT
                           ![AgentOf[async_requests_store[r].session]] = Commanded(r)]
  /\ all_assets' = all_assets \cup
       (IF async_requests_store[r].cmd = "upload" THEN {async_requests_store[r].arg} ELSE {})
  /\ UNCHANGED <<viewers, transactions, assets, hung, sent, restarts>>

ServerHangsUp(i) ==
  /\ HangUp(i)
  /\ hung' = hung \cup {is[i].req}
  /\ UNCHANGED <<viewers, store, sent, restarts>>

Network(i) ==
  /\ \/ ChannelReady(i, async_requests_store[is[i].req].cmd \in Cut) \/ SendRest(i)
     \/ ConnectFails(i) \/ Read(i)
  /\ UNCHANGED <<viewers, store, hung, sent, restarts>>

\* Callbacks that send a packet need the session, and no uuid of it may be nil;
\* those that only take note of the answer do not.
Sends == {"wearables", "create", "fetch_descendents", "get_asset"}
\* These decode a part of an answer, or none, without an error.
Tolerant == {"update_wearables", "upload"}

\* Parts of an answer do not parse.
Undecodable(cmd, got) ==
  got < Chunks /\ cmd \notin Tolerant /\ ~(cmd = "get_asset" /\ got = 0)

Callback(i) ==
  LET r == is[i].req
      q == async_requests_store[r]
      result == CASE Undecodable(q.cmd, is[i].got) -> "raised"
                  [] q.cmd \in Sends /\ q.session \notin sessions -> "gone"
                  [] nil \in conn[i].answer -> "raised"
                  [] OTHER -> "called"
  IN /\ Ended(i)
     /\ ClosedEvent(i, result)
     /\ sent' = IF result = "called" /\ q.cmd \in Sends
                  THEN sent \cup {[to |-> q.session, req |-> r, told |-> conn[i].answer]}
                  ELSE sent
     /\ UNCHANGED <<viewers, store, hung, restarts>>

\* interrupt_save_state and a start from the saved state, which loads the
\* library anew.
Restart ==
  /\ restarts < MaxRestarts
  /\ restarts' = restarts + 1
  /\ ClientRestart
  /\ local_inventory' = [local_inventory EXCEPT ![Library] = LoadLibrary]
  /\ UNCHANGED <<viewers, transactions, assets, all_assets, hung, sent>>

Next ==
  \/ \E s \in Sessions :
       \/ Login(s) \/ UseCircuitCode(s) \/ LogoutRequest(s)
       \/ AgentWearablesRequest(s)
       \/ \E id \in KnownFolders(s) : FetchInventoryDescendents(s, id)
       \/ \E id \in ToldItems(s) : AgentIsNowWearing(s, id)
       \/ \E id \in ToldItems(s), x \in Transactions \cup {zero_uuid} :
            UpdateInventoryItem(s, id, x)
       \/ \E f \in Folders : CreateInventoryFolder(s, <<"folder", f>>)
       \/ \E n \in 1 .. Len(assets) : TransferRequest(s, Asset(n))
       \/ TransferRequest(s, LibraryAsset)
       \/ \E x \in Transactions \cup {zero_uuid} : CreateInventoryItem(s, x)
       \/ \E x \in Transactions : AssetUploadRequest(s, x) \/ AssetUploadRequestEmpty(s, x)
  \/ \E i \in Idx : Network(i) \/ ServerHandles(i) \/ ServerHangsUp(i) \/ Callback(i)
  \/ Restart

Spec == Init /\ [][Next]_vars

-----------------------------------------------------------------------------
(* Properties. *)

\* The client's and the server's tables hold what their users expect in them.
TypeOK ==
  /\ ClientTypeOK
  /\ sessions \subseteq issued /\ issued \subseteq Sessions
  /\ DOMAIN transactions \subseteq Transactions
  /\ \A x \in DOMAIN transactions : transactions[x] \in {Asset(n) : n \in 1 .. Len(assets)}
  /\ all_assets \subseteq {Asset(n) : n \in 1 .. Len(assets)}

\* In every inventory a folder's children exist and name it as their parent,
\* and a folder whose parent exists is among its children: what one command
\* adds, invloc_retrieve_child_elements finds.  The tables keep their types.
TreeSound ==
  /\ TypeOK
  /\ \A o \in DOMAIN local_inventory :
       LET tree == local_inventory[o]
           F == {id \in DOMAIN tree : tree[id].IsFolder}
       IN \A f \in F :
            /\ Range(tree[f].ChildItems) \subseteq DOMAIN tree
            /\ \A c \in Range(tree[f].ChildFolders) : c \in F /\ tree[c].FolderID = f
            /\ tree[f].FolderID \in F => f \in Range(tree[tree[f].FolderID].ChildFolders)

\* What a viewer was told it has, it has, in its own inventory or the
\* library's, whatever connections broke since and however often the server
\* was interrupted; nobody is told of what is another agent's.
ToldItemsExist ==
  \A p \in sent :
    /\ p.to = async_requests_store[p.req].session
    /\ p.told \subseteq DOMAIN local_inventory[AgentOf[p.to]]
                        \cup DOMAIN local_inventory[Library] \cup all_assets \cup {LibraryAsset}

\* A session of the agent asked for an update of the item and named no asset.
UpdateNamesNoAsset(agent, id) ==
  \E r \in Made : LET q == async_requests_store[r] IN
    q.cmd = "update" /\ q.arg = id /\ q.asset = zero_uuid /\ AgentOf[q.session] = agent

\* A callback raises an error only about an answer whose connection ended
\* early, or when it shows items to an agent that updated one of the library's
\* without naming an asset.
AnswersNotLost ==
  \A r \in Made : outcome[r] = "raised" =>
    \/ r \in hung
    \/ LET q == async_requests_store[r] IN
       /\ q.cmd \in {"wearables", "fetch_descendents"}
       /\ UpdateNamesNoAsset(AgentOf[q.session], LibraryItem)

\* An item that has an asset, as an agent sees it, is never seen without one
\* later, unless it was the library's and the agent updated it without naming
\* an asset: then the agent's own has none.
HasAsset(item) == item.AssetID \notin {zero_uuid, nil}
ItemsKeepAssets ==
  [][\A a \in Agents : \A id \in Items \cap (DOMAIN local_inventory[a] \cup {LibraryItem}) :
       HasAsset(Seen(a, id)) =>
         \/ HasAsset(Seen(a, id)')
         \/ id \notin DOMAIN local_inventory[a] /\ UpdateNamesNoAsset(a, id)]_vars
=============================================================================

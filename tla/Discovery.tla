------------------------------ MODULE Discovery ------------------------------
(***************************************************************************)
(* Nodes that know each other's agents (internal/core/peers.go,            *)
(* internal/storage/peers.go, internal/agents/service.go) and the way a    *)
(* task with a named target takes between them (CreateTask and routeRequest*)
(* in internal/core/orchestrator.go, handleNodeTaskSubmit in               *)
(* internal/api/router.go).                                                *)
(*                                                                         *)
(* Every node runs the same code on a database of its own.  A base URL is  *)
(* the node that answers there.  Every statement of the store is a step;   *)
(* syncs, operators and tasks run at once.  A sync holds nothing in memory *)
(* that outlives it, so a crash is an Abort of the syncs of a node.        *)
(* Left out: the intent and the capabilities that decide between local     *)
(* agents, and the lease of an agent, which routing never looks at.        *)
(***************************************************************************)
EXTENDS FiniteSetsExt, Functions

CONSTANTS Nodes,
          Peers,      \* peer ids
          Targets,    \* agent ids
          Addresses,  \* where a node's operator may say that a peer is
          Kinds,      \* how an agent may be registered: "ready", or "bare" without adapter
          Hosts,      \* nodes where agents register
          Fronts,     \* nodes where clients make requests
          Loops,      \* the loops that synchronise all peers of a node
          Requests,   \* requests to synchronise one peer or all, whose client may leave
          Tasks,      \* tasks on their way
          None

ASSUME DiscoveryAssumption ==
  /\ Addresses \in [Nodes -> [Peers -> SUBSET Nodes]]
  /\ Kinds \subseteq {"ready", "bare"}
  /\ Hosts \subseteq Nodes /\ Fronts \subseteq Nodes
  /\ Loops \cap Requests = {}
  /\ None \notin Nodes \cup Peers \cup Targets \cup {"ready", "bare", "listed", "moved"}

VARIABLES agents,  \* of a node: its agents table
          peers,   \* of a node: its peers table
          cache,   \* of a node: its peer_targets table, by peer
          sync,    \* syncPeerTargets and SyncAllPeerTargets
          task     \* a task: CreateTask and relayRemoteTask

Syncs == Loops \cup Requests

tables == <<agents, peers, cache>>
vars == <<agents, peers, cache, sync, task>>

NoUrl == None

\* answered: the address whose answers made the peer online.  Only a property
\* reads it, like from, alone and via below.
Peer == [url : Nodes \cup {NoUrl}, online : BOOLEAN, answered : Nodes \cup {None}]

Cached == [target : Targets, from : Nodes]

\* left: peers a sync of all has still to come to; bounded: its probes have the
\* deadline of peerSyncRequestTimeout.  url is the snapshot of the row.
Sync == [at : {"idle", "next", "probe", "listed", "caching", "synced"},
         node : Nodes \cup {None}, peer : Peers \cup {None}, url : Nodes \cup {NoUrl},
         list : SUBSET Targets, done : SUBSET Targets, left : SUBSET Peers,
         bounded : BOOLEAN, alone : BOOLEAN]

\* seen: the addresses ListPeers gave; via: whether a relayed task goes to the
\* address where its target was listed, or to one the peer moved to since.
Task == [at : {"idle", "resolve", "peers", "route", "chosen"},
         node : Nodes \cup {None}, target : Targets \cup {None},
         seen : [Peers -> Nodes \cup {NoUrl}], url : Nodes \cup {NoUrl}, via : {None, "listed", "moved"}]

NoPeer == [url |-> NoUrl, online |-> FALSE, answered |-> None]

NoSync == [at |-> "idle", node |-> None, peer |-> None, url |-> NoUrl, list |-> {},
           done |-> {}, left |-> {}, bounded |-> FALSE, alone |-> FALSE]

NoTask == [at |-> "idle", node |-> None, target |-> None,
           seen |-> [p \in Peers |-> NoUrl], url |-> NoUrl, via |-> None]

DiscoveryTypeOK ==
  /\ agents \in [Nodes -> [Targets -> Kinds \cup {None}]]
  /\ peers \in [Nodes -> [Peers -> Peer]]
  /\ cache \in [Nodes -> [Peers -> SUBSET Cached]]
  /\ sync \in [Syncs -> Sync]
  /\ task \in [Tasks -> Task]

Init ==
  /\ agents = [n \in Nodes |-> [t \in Targets |-> None]]
  /\ peers = [n \in Nodes |-> [p \in Peers |-> NoPeer]]
  /\ cache = [n \in Nodes |-> [p \in Peers |-> {}]]
  /\ sync = [s \in Syncs |-> NoSync]
  /\ task = [c \in Tasks |-> NoTask]

-----------------------------------------------------------------------------
(* Operators *)

\* UpsertAgent, from Register: a row is never deleted, Unregister only marks it.
Register(n, t) ==
  /\ \E kind \in Kinds \ {agents[n][t]} : agents' = [agents EXCEPT ![n][t] = kind]
  /\ UNCHANGED <<peers, cache, sync, task>>

\* AddPeer; the cached targets stay.
AddPeer(n, p) ==
  /\ \E url \in Addresses[n][p] :
       peers' = [peers EXCEPT ![n][p] = [url |-> url, online |-> FALSE, answered |-> None]]
  /\ UNCHANGED <<agents, cache, sync, task>>

-----------------------------------------------------------------------------
(* Synchronisation *)

\* Plausible bug: what a node knows of its peers is taken over as well.
ExportsAll(n) ==
  {t \in Targets : agents[n][t] # None \/ \E q \in Peers : \E k \in cache[n][q] : k.target = t}

\* ListTargets of a node: its own agents; what it knows of its peers is skipped.
Exports(n) == {t \in Targets : agents[n][t] # None}

Others(s, n, p) ==
  {r \in Syncs \ {s} : sync[r].node = n /\ sync[r].peer = p /\ sync[r].at # "idle"}

\* GetPeer.  What the syncs overlapping with it leave is not known to be exact.
Start(s, n, p, left, bounded) ==
  /\ peers[n][p] # NoPeer
  /\ LET others == Others(s, n, p)
         mine == [NoSync EXCEPT !.at = "probe", !.node = n, !.peer = p,
                                !.url = peers[n][p].url, !.left = left,
                                !.bounded = bounded, !.alone = others = {}]
     IN sync' = [r \in Syncs |-> IF r = s THEN mine
                                 ELSE IF r \in others THEN [sync[r] EXCEPT !.alone = FALSE]
                                 ELSE sync[r]]
  /\ UNCHANGED <<agents, peers, cache, task>>

\* POST /v1/peers/{peer_id}/sync: no deadline but that of the client.
SyncOne(s, n) ==
  /\ sync[s].at = "idle"
  /\ \E p \in Peers : Start(s, n, p, {}, FALSE)

\* SyncAllPeerTargets, of the loop or of a request: ListPeers.
SyncAll(s, n) ==
  /\ sync[s].at = "idle"
  /\ sync' = [sync EXCEPT ![s] = [NoSync EXCEPT !.at = "next", !.node = n, !.bounded = TRUE,
                !.left = {p \in Peers : peers[n][p] # NoPeer}]]
  /\ UNCHANGED <<tables, task>>

SyncNext(s) ==
  /\ sync[s].at = "next"
  /\ \E p \in sync[s].left : Start(s, sync[s].node, p, sync[s].left \ {p}, TRUE)

\* The end of syncPeerTargets, with or without an error: SyncAllPeerTargets goes on.
EndSync(s) ==
  sync' = [sync EXCEPT ![s] =
    IF sync[s].left = {} THEN NoSync
    ELSE [NoSync EXCEPT !.at = "next", !.node = sync[s].node, !.left = sync[s].left,
                        !.bounded = TRUE]]

\* No peer is left, or the context of a request is done.
AllSynced(s) ==
  /\ sync[s].at = "next" /\ (sync[s].left = {} \/ s \in Requests)
  /\ sync' = [sync EXCEPT ![s] = NoSync]
  /\ UNCHANGED <<tables, task>>

\* Health and ListTargets succeed.
Probe(s) ==
  /\ sync[s].at = "probe"
  /\ sync' = [sync EXCEPT ![s].at = "listed", ![s].list = Exports(sync[s].url)]
  /\ UNCHANGED <<tables, task>>

\* Plausible bug: the error of one peer ends the sync of all.
ProbeFailsForAll(s) ==
  /\ sync[s].at = "probe"
  /\ peers' = [peers EXCEPT ![sync[s].node][sync[s].peer] =
                 [url |-> sync[s].url, online |-> FALSE, answered |-> None]]
  /\ sync' = [sync EXCEPT ![s] = NoSync]
  /\ UNCHANGED <<agents, cache, task>>

\* One of them fails or is out of time: markPeerOfflineAfterSyncFailure writes
\* the whole row it read.
ProbeFails(s) ==
  /\ sync[s].at = "probe"
  /\ peers' = [peers EXCEPT ![sync[s].node][sync[s].peer] =
                 [url |-> sync[s].url, online |-> FALSE, answered |-> None]]
  /\ EndSync(s)
  /\ UNCHANGED <<agents, cache, task>>

\* Plausible bug: only the status is written, to whatever the row is now.
MarkStatusOnline(s) ==
  /\ sync[s].at = "listed"
  /\ peers' = [peers EXCEPT ![sync[s].node][sync[s].peer] =
                 [@ EXCEPT !.online = TRUE, !.answered = sync[s].url]]
  /\ sync' = [sync EXCEPT ![s].at = "caching"]
  /\ UNCHANGED <<agents, cache, task>>

\* UpsertPeer, with the address of the snapshot
MarkOnline(s) ==
  /\ sync[s].at = "listed"
  /\ peers' = [peers EXCEPT ![sync[s].node][sync[s].peer] =
                 [url |-> sync[s].url, online |-> TRUE, answered |-> sync[s].url]]
  /\ sync' = [sync EXCEPT ![s].at = "caching"]
  /\ UNCHANGED <<agents, cache, task>>

\* UpsertPeerTarget of the next listed target
CacheTarget(s) ==
  LET n == sync[s].node
      p == sync[s].peer
  IN /\ sync[s].at = "caching"
     /\ \E t \in sync[s].list \ sync[s].done :
          /\ cache' = [cache EXCEPT ![n][p] =
               {c \in @ : c.target # t} \cup {[target |-> t, from |-> sync[s].url]}]
          /\ sync' = [sync EXCEPT ![s].done = @ \cup {t}]
     /\ UNCHANGED <<agents, peers, task>>

\* What DeletePeerTargetsExcept leaves.
KeepListed(s, keep) ==
  LET n == sync[s].node
      p == sync[s].peer
  IN /\ sync[s].at = "caching" /\ sync[s].done = sync[s].list
     /\ cache' = [cache EXCEPT ![n][p] = {c \in @ : c.target \in keep}]
     /\ sync' = [sync EXCEPT ![s].at = "synced"]
     /\ UNCHANGED <<agents, peers, task>>

\* Plausible bug: NOT IN () with no target listed deletes nothing.
DropOthersIfAny(s) == KeepListed(s, IF sync[s].list = {} THEN Targets ELSE sync[s].list)

DropOthers(s) == KeepListed(s, sync[s].list)

\* PeerSyncResponse
Return(s) ==
  /\ sync[s].at = "synced"
  /\ EndSync(s)
  /\ UNCHANGED <<tables, task>>

\* The store fails or the context ends between two statements.
Abort(s) ==
  /\ sync[s].at \in {"probe", "listed", "caching"}
  /\ EndSync(s)
  /\ UNCHANGED <<tables, task>>

-----------------------------------------------------------------------------
(* A task with a target_agent_id *)

Ends(c) == task' = [task EXCEPT ![c] = NoTask] /\ UNCHANGED <<tables, sync>>

Ask(c, n, t) ==
  /\ task[c].at = "idle"
  /\ task' = [task EXCEPT ![c] = [NoTask EXCEPT !.at = "resolve", !.node = n, !.target = t]]
  /\ UNCHANGED <<tables, sync>>

\* isDispatchableRuntime of what ResolveRuntime finds among the local agents
Dispatchable(c) == agents[task[c].node][task[c].target] = "ready"

\* The agent of that name is local: TaskLifecycle takes it from here, or
\* supportsIntent does not hold and the request is refused.
RunsHere(c) ==
  /\ task[c].at \in {"resolve", "route"} /\ Dispatchable(c)
  /\ Ends(c)

\* resolveRemoteRuntime: remoteRuntimeSpecs reads the peers ...
ReadPeers(c) ==
  /\ task[c].at = "resolve" /\ ~Dispatchable(c)
  /\ task' = [task EXCEPT ![c].at = "peers", ![c].via = None,
                          ![c].seen = [p \in Peers |-> peers[task[c].node][p].url]]
  /\ UNCHANGED <<tables, sync>>

\* ... and then the cached targets, here those of the name asked for.
Found(c) == {p \in Peers : \E k \in cache[task[c].node][p] : k.target = task[c].target}

\* One peer has it: createRemoteProxyTask, with the address read before.
Choose(c) ==
  /\ task[c].at = "peers"
  /\ \E p \in Peers, k \in UNION Range(cache[task[c].node]) :
       /\ Found(c) = {p} /\ k \in cache[task[c].node][p] /\ k.target = task[c].target
       /\ task' = [task EXCEPT ![c].at = "chosen", ![c].url = task[c].seen[p],
                               ![c].via = IF task[c].seen[p] = k.from THEN "listed" ELSE "moved",
                               ![c].seen = NoTask.seen]
  /\ UNCHANGED <<tables, sync>>

\* None: routeRequest looks at the local agents once more.  More than one:
\* ErrRouteAmbiguous.
NoChoice(c) ==
  /\ task[c].at = "peers" /\ Cardinality(Found(c)) # 1
  /\ task' = [task EXCEPT ![c] = IF Found(c) = {} THEN [@ EXCEPT !.at = "route", !.seen = NoTask.seen]
                                ELSE NoTask]
  /\ UNCHANGED <<tables, sync>>

NotFound(c) == task[c].at = "route" /\ ~Dispatchable(c) /\ Ends(c)

\* relayRemoteTask: the node at the address takes the task as one of its own.
Submit(c) ==
  /\ task[c].at = "chosen" /\ task[c].url # NoUrl
  /\ task' = [task EXCEPT ![c].at = "resolve", ![c].node = task[c].url, ![c].url = NoUrl]
  /\ UNCHANGED <<tables, sync>>

SubmitFails(c) == task[c].at = "chosen" /\ Ends(c)

-----------------------------------------------------------------------------
\* Out of time: only a probe that has a deadline can be relied on to end.
Expire(s) == sync[s].bounded /\ ProbeFails(s)

Go(s) ==
  \/ SyncNext(s) \/ AllSynced(s) \/ MarkOnline(s) \/ CacheTarget(s) \/ DropOthers(s) \/ Return(s)

Route(c) ==
  \/ RunsHere(c) \/ ReadPeers(c) \/ Choose(c) \/ NoChoice(c) \/ NotFound(c)
  \/ Submit(c) \/ SubmitFails(c)

Next ==
  \/ \E n \in Hosts, t \in Targets : Register(n, t)
  \/ \E n \in Nodes, p \in Peers : AddPeer(n, p)
  \/ \E s \in Loops, n \in Nodes : SyncAll(s, n)
  \/ \E s \in Requests, n \in Fronts : SyncOne(s, n) \/ SyncAll(s, n)
  \/ \E s \in Syncs : Probe(s) \/ ProbeFails(s) \/ Go(s) \/ Abort(s)
  \/ \E c \in Tasks, n \in Fronts, t \in Targets : Ask(c, n, t)
  \/ \E c \in Tasks : Route(c)

Spec == Init /\ [][Next]_vars

\* A loop runs on.  No peer is assumed to answer.
Fairness == \A s \in Loops : WF_vars(Go(s) \/ Expire(s))

FairSpec == Spec /\ Fairness

-----------------------------------------------------------------------------
(***************************************************************************)
(* A peer is online only if the node at the very address its row shows has *)
(* answered health and target list, also when the operator moves the peer  *)
(* while a sync with the old address is under way.                         *)
(***************************************************************************)
OnlineWasProbed ==
  /\ DiscoveryTypeOK
  /\ \A n \in Nodes, p \in Peers :
       peers[n][p].online => peers[n][p].answered = peers[n][p].url

(***************************************************************************)
(* When a sync that no other overlapped returns, the cache is exactly what *)
(* it lists, the agents the peer has of its own, whatever the syncs before *)
(* it, finished or cut off, had left.                                      *)
(***************************************************************************)
LoneSyncIsExact ==
  \A s \in Syncs :
    sync[s].at = "synced" /\ sync[s].alone =>
      cache[sync[s].node][sync[s].peer] = [target : sync[s].list, from : {sync[s].url}]

(***************************************************************************)
(* A task sent to the address where its target was listed arrives at a     *)
(* node that has the agent itself, because no node lists what it knows of  *)
(* its own peers.  It runs there if the agent has an adapter; a listed     *)
(* agent may have none, and then the task is routed on.                    *)
(***************************************************************************)
RelayReachesOwner ==
  \A c \in Tasks :
    task[c].at = "resolve" /\ task[c].via = "listed" => agents[task[c].node][task[c].target] # None

(***************************************************************************)
(* A peer that never answers, or that fails in any way, does not stop the  *)
(* loop: its sync of all peers comes to an end, and not before it has come *)
(* to every one of them.                                                   *)
(***************************************************************************)
SyncAllEnds ==
  /\ \A s \in Loops : sync[s].at = "next" ~> sync[s].at = "idle"
  /\ [][\A s \in Loops : sync[s].at # "idle" /\ sync'[s].at = "idle" => sync[s].left = {}]_vars

-----------------------------------------------------------------------------
(* A statement of the source that the code does not keep                   *)

(***************************************************************************)
(* "handleNodeTaskSubmit accepts a peer relay request and executes it      *)
(* through local routing" (router.go:83): a task that came from a peer is  *)
(* never relayed on.  It is when the operator moved a peer after its       *)
(* targets were cached, or when the agent has no adapter.                  *)
(***************************************************************************)
RelayedRunsLocally ==
  [][\A c \in Tasks : task[c].via # None => task'[c].at # "peers"]_vars
=============================================================================

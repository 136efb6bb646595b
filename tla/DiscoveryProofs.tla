---------------------------- MODULE DiscoveryProofs ----------------------------
(***************************************************************************)
(* Proofs about Discovery: what a node believes of its peers and where it  *)
(* sends a task, for any number of nodes, peers, agents, syncs and tasks.  *)
(***************************************************************************)
EXTENDS Discovery, TLAPS

\* A sync with a peer of its own, from the probe to the answer.
Active == {"probe", "listed", "caching", "synced"}

\* Every peer row but the missing one has an address.
RowsHaveAddress ==
  \A n \in Nodes, p \in Peers : peers[n][p] # NoPeer => peers[n][p].url \in Nodes

\* What is known while a sync is at each of its steps.
SyncIsOfOnePeer ==
  \A s \in Syncs :
    /\ sync[s].at \notin Active => sync[s].peer = None
    /\ sync[s].at \in Active \cup {"next"} => sync[s].node \in Nodes
    /\ sync[s].at \in Active => sync[s].peer \in Peers /\ sync[s].url \in Nodes
    /\ sync[s].done \subseteq sync[s].list
    /\ sync[s].at \in {"probe", "listed"} => sync[s].done = {}

\* A listed target is an agent of the node at the address: a row is never deleted.
ListedExist ==
  \A s \in Syncs : sync[s].at \in Active => sync[s].list \subseteq Exports(sync[s].url)

\* And so is every cached one, at the node it was listed by.
CachedExist ==
  \A n \in Nodes, p \in Peers : \A k \in cache[n][p] : agents[k.from][k.target] # None

\* A sync that nothing overlapped is the only one of its peer.
AloneIsAlone ==
  \A s, r \in Syncs :
    s # r /\ sync[s].at \in Active /\ sync[s].alone /\ sync[r].at \in Active
      => sync[r].node # sync[s].node \/ sync[r].peer # sync[s].peer

\* While it fills the cache, the targets it has done are there as it listed them.
DoneIsCached ==
  \A s \in Syncs : sync[s].at = "caching" /\ sync[s].alone =>
    {k \in cache[sync[s].node][sync[s].peer] : k.target \in sync[s].done}
      = [target : sync[s].done, from : {sync[s].url}]

\* A task is at a node; one that goes where its target was listed finds it there.
TaskKnowsWay ==
  \A c \in Tasks :
    /\ task[c].at # "idle" => task[c].node \in Nodes /\ task[c].target \in Targets
    /\ task[c].at = "chosen" /\ task[c].via = "listed" =>
         task[c].url \in Nodes /\ agents[task[c].url][task[c].target] # None

DiscoveryInv ==
  /\ OnlineWasProbed
  /\ RowsHaveAddress
  /\ SyncIsOfOnePeer
  /\ ListedExist
  /\ CachedExist
  /\ AloneIsAlone
  /\ DoneIsCached
  /\ LoneSyncIsExact
  /\ TaskKnowsWay
  /\ RelayReachesOwner

-----------------------------------------------------------------------------
(* How the steps change one sync *)

\* Sync s changes at most, and stays one.
Only(s) ==
  /\ sync' \in [Syncs -> Sync]
  /\ \A r \in Syncs \ {s} : sync'[r] = sync[r]

\* The target list of a sync's peer, and where it was asked for.
SameQuest(s) ==
  /\ sync'[s].node = sync[s].node /\ sync'[s].peer = sync[s].peer
  /\ sync'[s].url = sync[s].url

\* Sync s starts with peer p of node n; the overlapping ones are no longer alone.
Begins(s, n, p) ==
  /\ peers[n][p] # NoPeer
  /\ sync' \in [Syncs -> Sync]
  /\ sync'[s].at = "probe" /\ sync'[s].node = n /\ sync'[s].peer = p
  /\ sync'[s].url = peers[n][p].url /\ sync'[s].list = {} /\ sync'[s].done = {}
  /\ sync'[s].alone => Others(s, n, p) = {}
  /\ \A r \in Syncs \ {s} :
       /\ sync'[r].at = sync[r].at /\ SameQuest(r)
       /\ sync'[r].list = sync[r].list /\ sync'[r].done = sync[r].done
       /\ sync'[r].alone => sync[r].alone /\ r \notin Others(s, n, p)
  /\ UNCHANGED <<agents, peers, cache, task>>

\* Sync s is done with its peer, or was with none; its row may be marked offline.
Rests(s) ==
  /\ Only(s)
  /\ sync'[s].at \in {"idle", "next"} /\ sync'[s].peer = None
  /\ sync'[s].at = "next" => sync'[s].node \in Nodes
  /\ sync'[s].list = {} /\ sync'[s].done = {}
  /\ \/ peers' = peers
     \/ /\ sync[s].at = "probe"
        /\ peers' = [peers EXCEPT ![sync[s].node][sync[s].peer] =
                       [url |-> sync[s].url, online |-> FALSE, answered |-> None]]
  /\ UNCHANGED <<agents, cache, task>>

Lists(s) ==
  /\ sync[s].at = "probe" /\ sync'[s].at = "listed"
  /\ Only(s) /\ SameQuest(s) /\ sync'[s].alone = sync[s].alone
  /\ sync'[s].list = Exports(sync[s].url) /\ sync'[s].done = sync[s].done
  /\ UNCHANGED <<agents, peers, cache, task>>

GoesOnline(s) ==
  /\ sync[s].at = "listed" /\ sync'[s].at = "caching"
  /\ Only(s) /\ SameQuest(s) /\ sync'[s].alone = sync[s].alone
  /\ sync'[s].list = sync[s].list /\ sync'[s].done = sync[s].done
  /\ peers' = [peers EXCEPT ![sync[s].node][sync[s].peer] =
                 [url |-> sync[s].url, online |-> TRUE, answered |-> sync[s].url]]
  /\ UNCHANGED <<agents, cache, task>>

Caches(s) ==
  /\ sync[s].at = "caching" /\ sync'[s].at = "caching"
  /\ Only(s) /\ SameQuest(s) /\ sync'[s].alone = sync[s].alone
  /\ sync'[s].list = sync[s].list
  /\ \E t \in sync[s].list \ sync[s].done :
       /\ sync'[s].done = sync[s].done \cup {t}
       /\ cache' = [cache EXCEPT ![sync[s].node][sync[s].peer] =
            {c \in @ : c.target # t} \cup {[target |-> t, from |-> sync[s].url]}]
  /\ UNCHANGED <<agents, peers, task>>

Drops(s) ==
  /\ sync[s].at = "caching" /\ sync'[s].at = "synced"
  /\ Only(s) /\ SameQuest(s) /\ sync'[s].alone = sync[s].alone
  /\ sync'[s].list = sync[s].list /\ sync'[s].done = sync[s].done
  /\ sync[s].done = sync[s].list
  /\ cache' = [cache EXCEPT ![sync[s].node][sync[s].peer] =
                 {c \in @ : c.target \in sync[s].list}]
  /\ UNCHANGED <<agents, peers, task>>

SyncStep(s) ==
  \/ \E n \in Nodes, p \in Peers : Begins(s, n, p)
  \/ Rests(s) \/ Lists(s) \/ GoesOnline(s) \/ Caches(s) \/ Drops(s)

\* The fields of a sync.
LEMMA SyncTyped ==
  ASSUME DiscoveryTypeOK, NEW s \in Syncs
  PROVE  /\ sync[s].node \in Nodes \cup {None} /\ sync[s].peer \in Peers \cup {None}
         /\ sync[s].url \in Nodes \cup {NoUrl} /\ sync[s].list \in SUBSET Targets
         /\ sync[s].done \in SUBSET Targets /\ sync[s].left \in SUBSET Peers
         /\ sync[s].alone \in BOOLEAN /\ sync[s].bounded \in BOOLEAN
BY DEF DiscoveryTypeOK, Sync

\* Setting one field of a sync leaves the others.
With(x, y, field) ==
  /\ y \in Sync
  /\ field # "at" => y.at = x.at
  /\ field # "node" => y.node = x.node
  /\ field # "peer" => y.peer = x.peer
  /\ field # "url" => y.url = x.url
  /\ field # "done" => y.done = x.done
  /\ field # "list" => y.list = x.list
  /\ field # "left" => y.left = x.left
  /\ field # "bounded" => y.bounded = x.bounded
  /\ field # "alone" => y.alone = x.alone

\* Its at.
LEMMA WithAt ==
  ASSUME NEW x \in Sync, NEW v \in {"idle", "next", "probe", "listed", "caching", "synced"}
  PROVE  LET y == [x EXCEPT !.at = v] IN With(x, y, "at") /\ y.at = v
BY DEF With, Sync

\* Its node.
LEMMA WithNode ==
  ASSUME NEW x \in Sync, NEW v \in Nodes \cup {None}
  PROVE  LET y == [x EXCEPT !.node = v] IN With(x, y, "node") /\ y.node = v
BY DEF With, Sync

\* Its peer.
LEMMA WithPeer ==
  ASSUME NEW x \in Sync, NEW v \in Peers \cup {None}
  PROVE  LET y == [x EXCEPT !.peer = v] IN With(x, y, "peer") /\ y.peer = v
BY DEF With, Sync

\* Its url.
LEMMA WithUrl ==
  ASSUME NEW x \in Sync, NEW v \in Nodes \cup {NoUrl}
  PROVE  LET y == [x EXCEPT !.url = v] IN With(x, y, "url") /\ y.url = v
BY DEF With, Sync

\* Its done.
LEMMA WithDone ==
  ASSUME NEW x \in Sync, NEW v \in SUBSET Targets
  PROVE  LET y == [x EXCEPT !.done = v] IN With(x, y, "done") /\ y.done = v
BY DEF With, Sync

\* Its list.
LEMMA WithList ==
  ASSUME NEW x \in Sync, NEW v \in SUBSET Targets
  PROVE  LET y == [x EXCEPT !.list = v] IN With(x, y, "list") /\ y.list = v
BY DEF With, Sync

\* Its left.
LEMMA WithLeft ==
  ASSUME NEW x \in Sync, NEW v \in SUBSET Peers
  PROVE  LET y == [x EXCEPT !.left = v] IN With(x, y, "left") /\ y.left = v
BY DEF With, Sync

\* Its bounded.
LEMMA WithBounded ==
  ASSUME NEW x \in Sync, NEW v \in BOOLEAN
  PROVE  LET y == [x EXCEPT !.bounded = v] IN With(x, y, "bounded") /\ y.bounded = v
BY DEF With, Sync

\* Its alone.
LEMMA WithAlone ==
  ASSUME NEW x \in Sync, NEW v \in BOOLEAN
  PROVE  LET y == [x EXCEPT !.alone = v] IN With(x, y, "alone") /\ y.alone = v
BY DEF With, Sync

\* A sync at rest is one.
LEMMA NoSyncTyped == NoSync \in Sync
BY DEF NoSync, Sync

\* What a sync of all is between two peers.
BetweenPeers(n, left) ==
  [NoSync EXCEPT !.at = "next", !.node = n, !.left = left, !.bounded = TRUE]

\* Its fields.
LEMMA RestsAtNext ==
  ASSUME NEW n \in Nodes, NEW left \in SUBSET Peers
  PROVE  LET x == BetweenPeers(n, left)
         IN /\ x \in Sync
            /\ x.at = "next" /\ x.node = n /\ x.peer = None /\ x.list = {} /\ x.done = {}
<1> DEFINE x0 == NoSync
           x1 == [x0 EXCEPT !.at = "next"]
           x2 == [x1 EXCEPT !.node = n]
           x3 == [x2 EXCEPT !.left = left]
           x4 == [x3 EXCEPT !.bounded = TRUE]
<1>0. x0 \in Sync /\ x0.list = {} /\ x0.done = {} /\ x0.peer = None
  BY NoSyncTyped DEF NoSync
<1>a. BetweenPeers(n, left) = x4
  BY DEF BetweenPeers
<1> HIDE DEF x0
<1>1. With(x0, x1, "at") /\ x1.at = "next"
  BY <1>0, WithAt
<1> HIDE DEF x1
<1>2. With(x1, x2, "node") /\ x2.node = n
  BY <1>1, WithNode DEF With
<1> HIDE DEF x2
<1>3. With(x2, x3, "left")
  BY <1>2, WithLeft DEF With
<1> HIDE DEF x3
<1>4. With(x3, x4, "bounded")
  BY <1>3, WithBounded DEF With
<1> HIDE DEF x4
<1>5. /\ x4 \in Sync
      /\ x4.at = "next" /\ x4.node = n /\ x4.peer = None /\ x4.list = {} /\ x4.done = {}
  BY <1>0, <1>1, <1>2, <1>3, <1>4 DEF With
<1> QED  BY <1>a, <1>5

\* One step of a sync that goes on with its peer.
LEMMA StepsOn ==
  ASSUME DiscoveryTypeOK, NEW s \in Syncs, NEW at \in {"listed", "caching", "synced"},
         sync' = [sync EXCEPT ![s].at = at]
  PROVE  /\ Only(s) /\ SameQuest(s) /\ sync'[s].at = at
         /\ sync'[s].alone = sync[s].alone /\ sync'[s].list = sync[s].list
         /\ sync'[s].done = sync[s].done
<1> DEFINE y == [sync[s] EXCEPT !.at = at]
<1>1. sync' = [sync EXCEPT ![s] = y] /\ sync \in [Syncs -> Sync]
  BY DEF DiscoveryTypeOK
<1>2. With(sync[s], y, "at") /\ y.at = at
  <2>1. at \in {"idle", "next", "probe", "listed", "caching", "synced"} /\ sync[s] \in Sync
    BY <1>1
  <2> QED  BY <2>1, WithAt
<1> HIDE DEF y
<1>3. Only(s) /\ sync'[s] = y
  BY <1>1, <1>2 DEF Only, With
<1> QED  BY <1>2, <1>3 DEF With, SameQuest

\* A target more is cached.
LEMMA DoesOne ==
  ASSUME DiscoveryTypeOK, NEW s \in Syncs, NEW d \in SUBSET Targets,
         sync' = [sync EXCEPT ![s].done = d]
  PROVE  /\ Only(s) /\ SameQuest(s) /\ sync'[s].at = sync[s].at
         /\ sync'[s].alone = sync[s].alone /\ sync'[s].list = sync[s].list
         /\ sync'[s].done = d
<1> DEFINE y == [sync[s] EXCEPT !.done = d]
<1>1. sync' = [sync EXCEPT ![s] = y] /\ sync \in [Syncs -> Sync]
  BY DEF DiscoveryTypeOK
<1>2. With(sync[s], y, "done") /\ y.done = d
  BY <1>1, WithDone
<1> HIDE DEF y
<1>3. Only(s) /\ sync'[s] = y
  BY <1>1, <1>2 DEF Only, With
<1> QED  BY <1>2, <1>3 DEF With, SameQuest

\* The end of a sync with a peer.
LEMMA EndRests ==
  ASSUME DiscoveryTypeOK, SyncIsOfOnePeer, NEW s \in Syncs,
         sync[s].at \in Active \cup {"next"}, EndSync(s)
  PROVE  /\ Only(s)
         /\ sync'[s].at \in {"idle", "next"} /\ sync'[s].peer = None
         /\ sync'[s].at = "next" => sync'[s].node \in Nodes
         /\ sync'[s].list = {} /\ sync'[s].done = {}
<1> DEFINE y == IF sync[s].left = {} THEN NoSync
                ELSE BetweenPeers(sync[s].node, sync[s].left)
<1>1. sync' = [sync EXCEPT ![s] = y] /\ sync \in [Syncs -> Sync]
  BY DEF EndSync, DiscoveryTypeOK, BetweenPeers
<1>2. /\ y \in Sync /\ y.at \in {"idle", "next"} /\ y.peer = None
      /\ y.at = "next" => y.node \in Nodes
      /\ y.list = {} /\ y.done = {}
  <2>1. sync[s].node \in Nodes /\ sync[s].left \in SUBSET Peers
    BY SyncTyped DEF SyncIsOfOnePeer
  <2>2. CASE sync[s].left = {}
    BY <2>2, NoSyncTyped DEF NoSync
  <2>3. CASE sync[s].left # {}
    BY <2>1, <2>3, RestsAtNext
  <2> QED  BY <2>2, <2>3
<1> HIDE DEF y
<1> QED  BY <1>1, <1>2 DEF Only

\* The start of a sync with a peer.
LEMMA StartBegins ==
  ASSUME DiscoveryTypeOK, RowsHaveAddress, NEW s \in Syncs, NEW n \in Nodes, NEW p \in Peers,
         NEW left \in SUBSET Peers, NEW b \in BOOLEAN, Start(s, n, p, left, b)
  PROVE  Begins(s, n, p)
<1> DEFINE others == Others(s, n, p)
<1>1. peers[n][p] # NoPeer /\ UNCHANGED <<agents, peers, cache, task>>
  BY DEF Start
<1>2. PICK url \in Nodes, a \in BOOLEAN : url = peers[n][p].url /\ a = (others = {})
  BY <1>1 DEF RowsHaveAddress
<1> DEFINE x0 == NoSync
           x1 == [x0 EXCEPT !.at = "probe"]
           x2 == [x1 EXCEPT !.node = n]
           x3 == [x2 EXCEPT !.peer = p]
           x4 == [x3 EXCEPT !.url = url]
           x5 == [x4 EXCEPT !.left = left]
           x6 == [x5 EXCEPT !.bounded = b]
           mine == [x6 EXCEPT !.alone = a]
<1>3. sync' = [r \in Syncs |-> IF r = s THEN mine
                              ELSE IF r \in others THEN [sync[r] EXCEPT !.alone = FALSE]
                              ELSE sync[r]]
  BY <1>2 DEF Start
<1>4. x0 \in Sync /\ x0.list = {} /\ x0.done = {}
  BY NoSyncTyped DEF NoSync
<1> HIDE DEF x0
<1>5. With(x0, x1, "at") /\ x1.at = "probe"
  BY <1>4, WithAt
<1> HIDE DEF x1
<1>6. With(x1, x2, "node") /\ x2.node = n
  BY <1>5, WithNode DEF With
<1> HIDE DEF x2
<1>7. With(x2, x3, "peer") /\ x3.peer = p
  BY <1>6, WithPeer DEF With
<1> HIDE DEF x3
<1>8. With(x3, x4, "url") /\ x4.url = url
  BY <1>7, WithUrl DEF With
<1> HIDE DEF x4
<1>9. With(x4, x5, "left")
  BY <1>8, WithLeft DEF With
<1> HIDE DEF x5
<1>10. With(x5, x6, "bounded")
  BY <1>9, WithBounded DEF With
<1> HIDE DEF x6
<1>11. With(x6, mine, "alone") /\ mine.alone = a
  BY <1>10, WithAlone DEF With
<1> HIDE DEF mine
<1>12. /\ mine \in Sync
       /\ mine.at = "probe" /\ mine.node = n /\ mine.peer = p /\ mine.url = url
       /\ mine.list = {} /\ mine.done = {} /\ mine.alone = a
  BY <1>4, <1>5, <1>6, <1>7, <1>8, <1>9, <1>10, <1>11 DEF With
<1>13. s \notin others /\ sync \in [Syncs -> Sync]
  BY DEF Others, DiscoveryTypeOK
<1> HIDE DEF others
<1>14. \A r \in Syncs : LET y == [sync[r] EXCEPT !.alone = FALSE]
                        IN With(sync[r], y, "alone") /\ y.alone = FALSE
  BY <1>13, WithAlone
<1>15. sync' \in [Syncs -> Sync] /\ sync'[s] = mine
  BY <1>3, <1>12, <1>13, <1>14 DEF With
<1>16. ASSUME NEW r \in Syncs \ {s}
       PROVE  /\ sync'[r].at = sync[r].at /\ SameQuest(r)
              /\ sync'[r].list = sync[r].list /\ sync'[r].done = sync[r].done
              /\ sync'[r].alone => sync[r].alone /\ r \notin others
  <2>1. CASE r \in others
    BY <1>3, <1>14, <2>1 DEF With, SameQuest
  <2>2. CASE r \notin others
    BY <1>3, <2>2 DEF SameQuest
  <2> QED  BY <2>1, <2>2
<1> QED  BY <1>1, <1>2, <1>12, <1>15, <1>16 DEF Begins, others

(***************************************************************************)
(* The steps of a sync, as the tables and the other syncs see them.        *)
(***************************************************************************)
LEMMA SyncSteps ==
  ASSUME DiscoveryTypeOK, RowsHaveAddress, SyncIsOfOnePeer, NEW s \in Syncs
  PROVE  /\ \A n \in Nodes, p \in Peers, left \in SUBSET Peers, b \in BOOLEAN :
              sync[s].at \in {"idle", "next"} /\ Start(s, n, p, left, b) => Begins(s, n, p)
         /\ \A n \in Nodes : SyncAll(s, n) => Rests(s)
         /\ Probe(s) \/ ProbeFails(s) \/ Go(s) \/ Abort(s) => SyncStep(s)
<1> USE DEF tables
<1>1. ASSUME NEW n \in Nodes, NEW p \in Peers, NEW left \in SUBSET Peers, NEW b \in BOOLEAN,
             Start(s, n, p, left, b)
      PROVE  Begins(s, n, p)
  BY <1>1, StartBegins
<1>2. ASSUME NEW n \in Nodes, SyncAll(s, n) PROVE Rests(s)
  <2> DEFINE left == {p \in Peers : peers[n][p] # NoPeer}
             y == BetweenPeers(n, left)
             z == [NoSync EXCEPT !.at = "next", !.node = n, !.bounded = TRUE, !.left = left]
  <2>1. sync' = [sync EXCEPT ![s] = z] /\ UNCHANGED <<agents, peers, cache, task>>
    BY <1>2 DEF SyncAll
  <2>2. z = y /\ left \in SUBSET Peers
    BY DEF NoSync, BetweenPeers
  <2> HIDE DEF left, z
  <2>3. /\ y \in Sync
        /\ y.at = "next" /\ y.node = n /\ y.peer = None /\ y.list = {} /\ y.done = {}
    BY <2>2, RestsAtNext
  <2> HIDE DEF y
  <2> QED  BY <2>1, <2>2, <2>3 DEF Rests, Only, DiscoveryTypeOK
<1>3. ASSUME SyncNext(s) PROVE SyncStep(s)
  <2>1. PICK p \in sync[s].left : Start(s, sync[s].node, p, sync[s].left \ {p}, TRUE)
    BY <1>3 DEF SyncNext
  <2>2. sync[s].node \in Nodes /\ p \in Peers /\ sync[s].left \ {p} \in SUBSET Peers
    BY <1>3, SyncTyped DEF SyncNext, SyncIsOfOnePeer
  <2> QED  BY <1>1, <2>1, <2>2 DEF SyncStep
<1>9. ASSUME AllSynced(s) PROVE Rests(s)
  <2>1. sync' = [sync EXCEPT ![s] = NoSync] /\ UNCHANGED <<agents, peers, cache, task>>
    BY <1>9 DEF AllSynced, tables
  <2>2. /\ NoSync \in Sync
        /\ NoSync.at = "idle" /\ NoSync.peer = None /\ NoSync.list = {} /\ NoSync.done = {}
    BY NoSyncTyped DEF NoSync
  <2> QED  BY <2>1, <2>2 DEF Rests, Only, DiscoveryTypeOK
<1>4. ASSUME Return(s) \/ Abort(s) \/ ProbeFails(s) PROVE Rests(s)
  <2>1. sync[s].at \in Active \cup {"next"} /\ EndSync(s)
    BY <1>4 DEF Return, Abort, ProbeFails, Active
  <2>2. /\ Only(s)
        /\ sync'[s].at \in {"idle", "next"} /\ sync'[s].peer = None
        /\ sync'[s].at = "next" => sync'[s].node \in Nodes
        /\ sync'[s].list = {} /\ sync'[s].done = {}
    BY <2>1, EndRests
  <2> QED  BY <1>4, <2>2 DEF Return, Abort, ProbeFails, Rests
<1>5. ASSUME Probe(s) PROVE Lists(s)
  <2> DEFINE l == Exports(sync[s].url)
             x == [sync[s] EXCEPT !.at = "listed"]
             y == [x EXCEPT !.list = l]
  <2>1. /\ sync' = [sync EXCEPT ![s] = y] /\ sync \in [Syncs -> Sync]
        /\ sync[s].at = "probe" /\ UNCHANGED <<agents, peers, cache, task>>
    BY <1>5 DEF Probe, DiscoveryTypeOK
  <2>2. l \in SUBSET Targets
    BY DEF Exports
  <2> HIDE DEF l
  <2>3. With(sync[s], x, "at") /\ x.at = "listed"
    BY <2>1, WithAt
  <2> HIDE DEF x
  <2>4. With(x, y, "list") /\ y.list = l
    BY <2>2, <2>3, WithList DEF With
  <2> HIDE DEF y
  <2> QED  BY <2>1, <2>3, <2>4 DEF Lists, Only, SameQuest, With, l
<1>6. ASSUME MarkOnline(s) PROVE GoesOnline(s)
  BY <1>6, StepsOn DEF MarkOnline, GoesOnline
<1>7. ASSUME CacheTarget(s) PROVE Caches(s)
  <2>1. PICK t \in sync[s].list \ sync[s].done :
          /\ cache' = [cache EXCEPT ![sync[s].node][sync[s].peer] =
               {c \in @ : c.target # t} \cup {[target |-> t, from |-> sync[s].url]}]
          /\ sync' = [sync EXCEPT ![s].done = @ \cup {t}]
    BY <1>7 DEF CacheTarget
  <2> DEFINE d == sync[s].done \cup {t}
  <2>2. sync' = [sync EXCEPT ![s].done = d] /\ d \in SUBSET Targets
    BY <2>1, SyncTyped
  <2> HIDE DEF d
  <2>3. /\ Only(s) /\ SameQuest(s) /\ sync'[s].at = sync[s].at
        /\ sync'[s].alone = sync[s].alone /\ sync'[s].list = sync[s].list
        /\ sync'[s].done = d
    BY <2>2, DoesOne
  <2> QED  BY <1>7, <2>1, <2>3 DEF CacheTarget, Caches, d
<1>8. ASSUME DropOthers(s) PROVE Drops(s)
  BY <1>8, StepsOn DEF DropOthers, KeepListed, Drops
<1> QED  BY <1>1, <1>2, <1>3, <1>4, <1>5, <1>6, <1>7, <1>8, <1>9 DEF Go, SyncStep

-----------------------------------------------------------------------------
(* How the steps change one task *)

\* Setting one field of a task leaves the others.
TaskWith(x, y, field) ==
  /\ y \in Task
  /\ field # "at" => y.at = x.at
  /\ field # "node" => y.node = x.node
  /\ field # "target" => y.target = x.target
  /\ field # "seen" => y.seen = x.seen
  /\ field # "url" => y.url = x.url
  /\ field # "via" => y.via = x.via

\* Its at.
LEMMA TaskAt ==
  ASSUME NEW x \in Task, NEW v \in {"idle", "resolve", "peers", "route", "chosen"}
  PROVE  LET y == [x EXCEPT !.at = v] IN TaskWith(x, y, "at") /\ y.at = v
BY DEF TaskWith, Task

\* Its node.
LEMMA TaskNode ==
  ASSUME NEW x \in Task, NEW v \in Nodes \cup {None}
  PROVE  LET y == [x EXCEPT !.node = v] IN TaskWith(x, y, "node") /\ y.node = v
BY DEF TaskWith, Task

\* Its target.
LEMMA TaskTarget ==
  ASSUME NEW x \in Task, NEW v \in Targets \cup {None}
  PROVE  LET y == [x EXCEPT !.target = v] IN TaskWith(x, y, "target") /\ y.target = v
BY DEF TaskWith, Task

\* Its seen.
LEMMA TaskSeen ==
  ASSUME NEW x \in Task, NEW v \in [Peers -> Nodes \cup {NoUrl}]
  PROVE  LET y == [x EXCEPT !.seen = v] IN TaskWith(x, y, "seen") /\ y.seen = v
BY DEF TaskWith, Task

\* Its url.
LEMMA TaskUrl ==
  ASSUME NEW x \in Task, NEW v \in Nodes \cup {NoUrl}
  PROVE  LET y == [x EXCEPT !.url = v] IN TaskWith(x, y, "url") /\ y.url = v
BY DEF TaskWith, Task

\* Its via.
LEMMA TaskVia ==
  ASSUME NEW x \in Task, NEW v \in {None, "listed", "moved"}
  PROVE  LET y == [x EXCEPT !.via = v] IN TaskWith(x, y, "via") /\ y.via = v
BY DEF TaskWith, Task

\* Where nothing is known yet.
LEMMA NoTaskTyped == NoTask \in Task /\ NoTask.at = "idle" /\ NoTask.via = None
BY DEF NoTask, Task

\* Task c changes at most, and stays one; it is on its way as TaskKnowsWay tells.
TaskMoves(c) ==
  /\ task' \in [Tasks -> Task]
  /\ \A d \in Tasks \ {c} : task'[d] = task[d]
  /\ \/ task'[c].at = "idle"
     \/ /\ task'[c].at = "resolve" /\ task'[c].via = None
        /\ task'[c].node \in Nodes /\ task'[c].target \in Targets
     \/ /\ task[c].at = "chosen" /\ task'[c].at = "resolve"
        /\ task[c].url \in Nodes /\ task'[c].node = task[c].url
        /\ task'[c].target = task[c].target /\ task'[c].via = task[c].via
     \/ /\ task[c].at # "idle" /\ task'[c].at \in {"peers", "route", "chosen"}
        /\ task'[c].node = task[c].node /\ task'[c].target = task[c].target
        /\ task'[c].at = "chosen" /\ task'[c].via = "listed" =>
             \E p \in Peers : \E k \in cache[task[c].node][p] :
               k.target = task[c].target /\ task'[c].url = k.from
  /\ UNCHANGED <<agents, peers, cache, sync>>

\* The fields of a task.
LEMMA TaskTyped ==
  ASSUME DiscoveryTypeOK, NEW c \in Tasks
  PROVE  /\ task[c] \in Task
         /\ task[c].node \in Nodes \cup {None} /\ task[c].target \in Targets \cup {None}
         /\ task[c].url \in Nodes \cup {NoUrl}
         /\ task[c].seen \in [Peers -> Nodes \cup {NoUrl}]
BY DEF DiscoveryTypeOK, Task

\* A request of a client.
LEMMA AskMoves ==
  ASSUME DiscoveryTypeOK, NEW c \in Tasks, NEW n \in Nodes, NEW t \in Targets, Ask(c, n, t)
  PROVE  TaskMoves(c)
<1> DEFINE x0 == NoTask
           x1 == [x0 EXCEPT !.at = "resolve"]
           x2 == [x1 EXCEPT !.node = n]
           y == [x2 EXCEPT !.target = t]
<1>1. task' = [task EXCEPT ![c] = y] /\ UNCHANGED <<agents, peers, cache, sync>>
  BY DEF Ask, tables
<1>2. x0 \in Task /\ x0.via = None
  BY NoTaskTyped
<1> HIDE DEF x0
<1>3. TaskWith(x0, x1, "at") /\ x1.at = "resolve"
  BY <1>2, TaskAt
<1> HIDE DEF x1
<1>4. TaskWith(x1, x2, "node") /\ x2.node = n
  BY <1>3, TaskNode DEF TaskWith
<1> HIDE DEF x2
<1>5. TaskWith(x2, y, "target") /\ y.target = t
  BY <1>4, TaskTarget DEF TaskWith
<1> HIDE DEF y
<1>6. y \in Task /\ y.at = "resolve" /\ y.via = None /\ y.node = n /\ y.target = t
  BY <1>2, <1>3, <1>4, <1>5 DEF TaskWith
<1>7. task'[c] = y /\ task' \in [Tasks -> Task] /\ \A d \in Tasks \ {c} : task'[d] = task[d]
  BY <1>1, <1>6 DEF DiscoveryTypeOK
<1> QED  BY <1>1, <1>6, <1>7 DEF TaskMoves

\* The peers are read.
LEMMA ReadMoves ==
  ASSUME DiscoveryTypeOK, TaskKnowsWay, NEW c \in Tasks, ReadPeers(c)
  PROVE  TaskMoves(c)
<1> DEFINE seen == [p \in Peers |-> peers[task[c].node][p].url]
           x1 == [task[c] EXCEPT !.at = "peers"]
           x2 == [x1 EXCEPT !.via = None]
           y == [x2 EXCEPT !.seen = seen]
<1>1. /\ task' = [task EXCEPT ![c] = y] /\ UNCHANGED <<agents, peers, cache, sync>>
      /\ task[c].at = "resolve"
  BY DEF ReadPeers, tables
<1>2. task[c] \in Task
  BY TaskTyped
<1>3. seen \in [Peers -> Nodes \cup {NoUrl}]
  <2>1. task[c].node \in Nodes
    BY <1>1 DEF TaskKnowsWay
  <2> QED  BY <2>1 DEF DiscoveryTypeOK, Peer
<1> HIDE DEF seen
<1>4. TaskWith(task[c], x1, "at") /\ x1.at = "peers"
  BY <1>2, TaskAt
<1> HIDE DEF x1
<1>5. TaskWith(x1, x2, "via") /\ x2.via = None
  BY <1>4, TaskVia DEF TaskWith
<1> HIDE DEF x2
<1>6. TaskWith(x2, y, "seen")
  BY <1>3, <1>5, TaskSeen DEF TaskWith
<1> HIDE DEF y
<1>7. y \in Task /\ y.at = "peers" /\ y.node = task[c].node /\ y.target = task[c].target
  BY <1>4, <1>5, <1>6 DEF TaskWith
<1>8. task'[c] = y /\ task' \in [Tasks -> Task] /\ \A d \in Tasks \ {c} : task'[d] = task[d]
  BY <1>1, <1>7 DEF DiscoveryTypeOK
<1> QED  BY <1>1, <1>7, <1>8 DEF TaskMoves

\* The one peer that has the target is chosen.
LEMMA ChooseMoves ==
  ASSUME DiscoveryTypeOK, NEW c \in Tasks, Choose(c)
  PROVE  TaskMoves(c)
<1>1. PICK p \in Peers, k \in UNION Range(cache[task[c].node]) :
        /\ k \in cache[task[c].node][p] /\ k.target = task[c].target
        /\ task' = [task EXCEPT ![c].at = "chosen", ![c].url = task[c].seen[p],
                        ![c].via = IF task[c].seen[p] = k.from THEN "listed" ELSE "moved",
                        ![c].seen = NoTask.seen]
  BY DEF Choose
<1>2. task[c].at = "peers" /\ UNCHANGED <<agents, peers, cache, sync>>
  BY DEF Choose, tables
<1> DEFINE url == task[c].seen[p]
           via == IF url = k.from THEN "listed" ELSE "moved"
           seen == NoTask.seen
           x1 == [task[c] EXCEPT !.at = "chosen"]
           x2 == [x1 EXCEPT !.url = url]
           x3 == [x2 EXCEPT !.via = via]
           y == [x3 EXCEPT !.seen = seen]
<1>3. task' = [task EXCEPT ![c] = y]
  BY <1>1
<1>4. task[c] \in Task /\ url \in Nodes \cup {NoUrl}
  BY TaskTyped
<1>5. seen \in [Peers -> Nodes \cup {NoUrl}]
  BY DEF NoTask
<1>6. via \in {None, "listed", "moved"} /\ (via = "listed" => url = k.from)
  OBVIOUS
<1> HIDE DEF url, via, seen
<1>7. TaskWith(task[c], x1, "at") /\ x1.at = "chosen"
  BY <1>4, TaskAt
<1> HIDE DEF x1
<1>8. TaskWith(x1, x2, "url") /\ x2.url = url
  BY <1>4, <1>7, TaskUrl DEF TaskWith
<1> HIDE DEF x2
<1>9. TaskWith(x2, x3, "via") /\ x3.via = via
  BY <1>6, <1>8, TaskVia DEF TaskWith
<1> HIDE DEF x3
<1>10. TaskWith(x3, y, "seen")
  BY <1>5, <1>9, TaskSeen DEF TaskWith
<1> HIDE DEF y
<1>11. /\ y \in Task /\ y.at = "chosen" /\ y.node = task[c].node /\ y.target = task[c].target
       /\ y.url = url /\ y.via = via
  BY <1>7, <1>8, <1>9, <1>10 DEF TaskWith
<1>12. task'[c] = y /\ task' \in [Tasks -> Task] /\ \A d \in Tasks \ {c} : task'[d] = task[d]
  BY <1>3, <1>11 DEF DiscoveryTypeOK
<1> QED  BY <1>1, <1>2, <1>6, <1>11, <1>12 DEF TaskMoves

\* No peer has it, or several.
LEMMA NoChoiceMoves ==
  ASSUME DiscoveryTypeOK, NEW c \in Tasks, NoChoice(c)
  PROVE  TaskMoves(c)
<1> DEFINE seen == NoTask.seen
           x1 == [task[c] EXCEPT !.at = "route"]
           y == [x1 EXCEPT !.seen = seen]
<1>1. /\ task' = [task EXCEPT ![c] = y] \/ task' = [task EXCEPT ![c] = NoTask]
      /\ task[c].at = "peers" /\ UNCHANGED <<agents, peers, cache, sync>>
  BY DEF NoChoice, tables
<1>2. task[c] \in Task
  BY TaskTyped
<1>3. seen \in [Peers -> Nodes \cup {NoUrl}]
  BY DEF NoTask
<1> HIDE DEF seen
<1>4. TaskWith(task[c], x1, "at") /\ x1.at = "route"
  BY <1>2, TaskAt
<1> HIDE DEF x1
<1>5. TaskWith(x1, y, "seen")
  BY <1>3, <1>4, TaskSeen DEF TaskWith
<1> HIDE DEF y
<1>6. y \in Task /\ y.at = "route" /\ y.node = task[c].node /\ y.target = task[c].target
  BY <1>4, <1>5 DEF TaskWith
<1>7. \A z \in {y, NoTask} : task' = [task EXCEPT ![c] = z] =>
        task'[c] = z /\ task' \in [Tasks -> Task] /\ \A d \in Tasks \ {c} : task'[d] = task[d]
  BY <1>6, NoTaskTyped DEF DiscoveryTypeOK
<1> QED  BY <1>1, <1>6, <1>7, NoTaskTyped DEF TaskMoves

\* The peer takes the task.
LEMMA SubmitMoves ==
  ASSUME DiscoveryTypeOK, TaskKnowsWay, NEW c \in Tasks, Submit(c)
  PROVE  TaskMoves(c)
<1> DEFINE url == task[c].url
           x1 == [task[c] EXCEPT !.at = "resolve"]
           x2 == [x1 EXCEPT !.node = url]
           y == [x2 EXCEPT !.url = NoUrl]
<1>1. /\ task' = [task EXCEPT ![c] = y] /\ UNCHANGED <<agents, peers, cache, sync>>
      /\ task[c].at = "chosen" /\ url # NoUrl
  BY DEF Submit, tables
<1>2. task[c] \in Task /\ url \in Nodes
  BY <1>1, TaskTyped
<1> HIDE DEF url
<1>3. TaskWith(task[c], x1, "at") /\ x1.at = "resolve"
  BY <1>2, TaskAt
<1> HIDE DEF x1
<1>4. TaskWith(x1, x2, "node") /\ x2.node = url
  BY <1>2, <1>3, TaskNode DEF TaskWith
<1> HIDE DEF x2
<1>5. TaskWith(x2, y, "url")
  BY <1>4, TaskUrl DEF TaskWith
<1> HIDE DEF y
<1>6. /\ y \in Task /\ y.at = "resolve" /\ y.node = url /\ y.target = task[c].target
      /\ y.via = task[c].via
  BY <1>3, <1>4, <1>5 DEF TaskWith
<1>7. task'[c] = y /\ task' \in [Tasks -> Task] /\ \A d \in Tasks \ {c} : task'[d] = task[d]
  BY <1>1, <1>6 DEF DiscoveryTypeOK
<1> QED  BY <1>1, <1>2, <1>6, <1>7 DEF TaskMoves, url

\* Every step of a task.
LEMMA RouteMoves ==
  ASSUME DiscoveryTypeOK, TaskKnowsWay, NEW c \in Tasks, Route(c)
  PROVE  TaskMoves(c)
<1>1. CASE Ends(c)
  <2>1. task' = [task EXCEPT ![c] = NoTask] /\ UNCHANGED <<agents, peers, cache, sync>>
    BY <1>1 DEF Ends, tables
  <2> QED  BY <2>1, NoTaskTyped DEF TaskMoves, DiscoveryTypeOK
<1> QED
  BY <1>1, ReadMoves, ChooseMoves, NoChoiceMoves, SubmitMoves
     DEF Route, RunsHere, NotFound, SubmitFails

-----------------------------------------------------------------------------
(* The tables *)

(***************************************************************************)
(* Writing one row of a table leaves the others.                           *)
(***************************************************************************)
LEMMA AgentsRow ==
  ASSUME DiscoveryTypeOK, NEW n \in Nodes, NEW t \in Targets, NEW v \in Kinds,
         agents' = [agents EXCEPT ![n][t] = v]
  PROVE  /\ agents' \in [Nodes -> [Targets -> Kinds \cup {None}]]
         /\ agents'[n][t] = v
         /\ \A m \in Nodes, u \in Targets : m # n \/ u # t => agents'[m][u] = agents[m][u]
BY DEF DiscoveryTypeOK

\* A peer's row, and the cached targets of a peer, are written.
SetsPeer(n, p, v) == peers' = [peers EXCEPT ![n][p] = v]

SetsCache(n, p, v) == cache' = [cache EXCEPT ![n][p] = v]

\* A peer.
LEMMA PeersRow ==
  ASSUME DiscoveryTypeOK, NEW n \in Nodes, NEW p \in Peers, NEW v \in Peer,
         SetsPeer(n, p, v)
  PROVE  /\ peers' \in [Nodes -> [Peers -> Peer]]
         /\ peers'[n][p] = v
         /\ \A m \in Nodes, q \in Peers : m # n \/ q # p => peers'[m][q] = peers[m][q]
<1> DEFINE Row == Peer
<1>1. peers \in [Nodes -> [Peers -> Row]] /\ v \in Row
  BY DEF DiscoveryTypeOK
<1> HIDE DEF Row
<1>2. /\ peers' \in [Nodes -> [Peers -> Row]]
      /\ peers'[n][p] = v
      /\ \A m \in Nodes, q \in Peers : m # n \/ q # p => peers'[m][q] = peers[m][q]
  BY <1>1 DEF SetsPeer
<1> QED  BY <1>2 DEF Row

\* The cached targets of a peer.
LEMMA CacheRow ==
  ASSUME DiscoveryTypeOK, NEW n \in Nodes, NEW p \in Peers, NEW v \in SUBSET Cached,
         SetsCache(n, p, v)
  PROVE  /\ cache' \in [Nodes -> [Peers -> SUBSET Cached]]
         /\ cache'[n][p] = v
         /\ \A m \in Nodes, q \in Peers : m # n \/ q # p => cache'[m][q] = cache[m][q]
<1> DEFINE Row == SUBSET Cached
<1>1. cache \in [Nodes -> [Peers -> Row]] /\ v \in Row
  BY DEF DiscoveryTypeOK
<1> HIDE DEF Row
<1>2. /\ cache' \in [Nodes -> [Peers -> Row]]
      /\ cache'[n][p] = v
      /\ \A m \in Nodes, q \in Peers : m # n \/ q # p => cache'[m][q] = cache[m][q]
  BY <1>1 DEF SetsCache
<1> QED  BY <1>2 DEF Row

\* What an entry of the cache is.
LEMMA CachedFields ==
  ASSUME DiscoveryTypeOK, NEW n \in Nodes, NEW p \in Peers, NEW k \in cache[n][p]
  PROVE  /\ k.target \in Targets /\ k.from \in Nodes
         /\ k = [target |-> k.target, from |-> k.from]
<1>1. cache[n][p] \in SUBSET Cached
  BY DEF DiscoveryTypeOK
<1> QED  BY <1>1 DEF Cached

(***************************************************************************)
(* The steps of the specification.                                         *)
(***************************************************************************)
LEMMA StepOfOne ==
  ASSUME DiscoveryInv, [Next]_vars
  PROVE  \/ \E n \in Nodes, t \in Targets : Register(n, t)
         \/ \E n \in Nodes, p \in Peers : AddPeer(n, p)
         \/ \E s \in Syncs : SyncStep(s)
         \/ \E c \in Tasks : TaskMoves(c)
         \/ UNCHANGED vars
<1>0. /\ DiscoveryTypeOK /\ RowsHaveAddress /\ SyncIsOfOnePeer /\ TaskKnowsWay
      /\ Hosts \subseteq Nodes /\ Fronts \subseteq Nodes
  BY DiscoveryAssumption DEF DiscoveryInv, OnlineWasProbed
<1>1. ASSUME NEW s \in Requests, NEW n \in Fronts, SyncOne(s, n) PROVE SyncStep(s) /\ s \in Syncs
  <2>1. PICK p \in Peers : Start(s, n, p, {}, FALSE)
    BY <1>1 DEF SyncOne
  <2>2. s \in Syncs /\ n \in Nodes
    BY <1>0, <1>1 DEF Syncs
  <2> QED  BY <1>0, <2>1, <2>2, StartBegins DEF SyncStep
<1>2. ASSUME NEW s \in Syncs, NEW n \in Nodes, SyncAll(s, n) PROVE SyncStep(s)
  BY <1>0, <1>2, SyncSteps DEF SyncStep
<1>3. ASSUME NEW s \in Syncs, Probe(s) \/ ProbeFails(s) \/ Go(s) \/ Abort(s) PROVE SyncStep(s)
  BY <1>0, <1>3, SyncSteps
<1>4. ASSUME NEW c \in Tasks, NEW n \in Fronts, NEW t \in Targets, Ask(c, n, t) PROVE TaskMoves(c)
  BY <1>0, <1>4, AskMoves
<1>5. ASSUME NEW c \in Tasks, Route(c) PROVE TaskMoves(c)
  BY <1>0, <1>5, RouteMoves
<1>6. /\ \A s \in Loops : s \in Syncs
      /\ \A s \in Requests : s \in Syncs
      /\ \A n \in Fronts : n \in Nodes
  BY <1>0 DEF Syncs
<1> QED  BY <1>0, <1>1, <1>2, <1>3, <1>4, <1>5, <1>6 DEF Next

-----------------------------------------------------------------------------
(* Each kind of step keeps the invariant *)

\* What the tables, the syncs and the tasks know.
Parts ==
  /\ DiscoveryTypeOK /\ OnlineWasProbed /\ RowsHaveAddress
  /\ SyncIsOfOnePeer /\ ListedExist /\ CachedExist
  /\ AloneIsAlone /\ DoneIsCached /\ LoneSyncIsExact
  /\ TaskKnowsWay /\ RelayReachesOwner

\* The parts are the invariant.
LEMMA InvIsParts == DiscoveryInv <=> Parts
BY DEF DiscoveryInv, Parts, OnlineWasProbed

\* The peer rows stay, and with them what they show.
LEMMA RowsKeep ==
  ASSUME Parts, UNCHANGED peers, DiscoveryTypeOK'
  PROVE  OnlineWasProbed' /\ RowsHaveAddress'
<1>1. OnlineWasProbed /\ RowsHaveAddress
  BY DEF Parts
<1>2. OnlineWasProbed'
  BY <1>1 DEF OnlineWasProbed
<1>3. RowsHaveAddress'
  BY <1>1 DEF RowsHaveAddress
<1> QED  BY <1>2, <1>3

\* A sync that has cached nothing says nothing of the cache.
LEMMA SyncsKeepExact ==
  ASSUME Parts, NEW s \in Syncs, UNCHANGED cache, Only(s),
         sync'[s].at # "synced", sync'[s].at = "caching" => sync'[s].done = {}
  PROVE  DoneIsCached' /\ LoneSyncIsExact'
<1>1. DoneIsCached /\ LoneSyncIsExact /\ \A r \in Syncs \ {s} : sync'[r] = sync[r]
  BY DEF Parts, Only
<1>2. DoneIsCached'
  <2> SUFFICES ASSUME NEW r \in Syncs, sync'[r].at = "caching", sync'[r].alone
               PROVE  {k \in cache'[sync'[r].node][sync'[r].peer] : k.target \in sync'[r].done}
                        = [target : sync'[r].done, from : {sync'[r].url}]
    BY DEF DoneIsCached
  <2>1. CASE r # s
    <3>1. sync'[r] = sync[r]
      BY <1>1, <2>1
    <3> QED  BY <1>1, <3>1 DEF DoneIsCached
  <2>2. CASE r = s
    <3>1. sync'[r].done = {}
      BY <2>2
    <3>2. [target : sync'[r].done, from : {sync'[r].url}] = {}
      BY <3>1
    <3> QED  BY <3>1, <3>2
  <2> QED  BY <2>1, <2>2
<1>3. LoneSyncIsExact'
  <2> SUFFICES ASSUME NEW r \in Syncs, sync'[r].at = "synced", sync'[r].alone
               PROVE  cache'[sync'[r].node][sync'[r].peer]
                        = [target : sync'[r].list, from : {sync'[r].url}]
    BY DEF LoneSyncIsExact
  <2>1. sync'[r] = sync[r]
    BY <1>1
  <2> QED  BY <1>1, <2>1 DEF LoneSyncIsExact
<1> QED  BY <1>2, <1>3

\* An agent is registered: what exists goes on to exist.
LEMMA RegisterKeeps ==
  ASSUME Parts, NEW n \in Nodes, NEW t \in Targets, Register(n, t)
  PROVE  Parts'
<1>0. Parts
  OBVIOUS
<1>1. PICK kind \in Kinds : agents' = [agents EXCEPT ![n][t] = kind]
  BY DEF Register
<1>2. peers' = peers /\ cache' = cache /\ sync' = sync /\ task' = task
  BY DEF Register
<1>3. /\ agents' \in [Nodes -> [Targets -> Kinds \cup {None}]]
      /\ \A m \in Nodes, u \in Targets : agents[m][u] # None => agents'[m][u] # None
  <2>1. DiscoveryTypeOK /\ None \notin Kinds
    BY <1>0, DiscoveryAssumption DEF Parts
  <2>2. /\ agents' \in [Nodes -> [Targets -> Kinds \cup {None}]]
        /\ agents'[n][t] = kind
        /\ \A m \in Nodes, u \in Targets : m # n \/ u # t => agents'[m][u] = agents[m][u]
    BY <1>1, <2>1, AgentsRow
  <2> QED  BY <2>1, <2>2
<1>a. DiscoveryTypeOK' /\ OnlineWasProbed' /\ RowsHaveAddress'
  <2>1. DiscoveryTypeOK'
    BY <1>0, <1>2, <1>3 DEF Parts, DiscoveryTypeOK
  <2> QED  BY <1>0, <1>2, <1>3, <2>1, RowsKeep
<1>b. SyncIsOfOnePeer' /\ AloneIsAlone' /\ DoneIsCached' /\ LoneSyncIsExact'
  BY <1>0, <1>2 DEF Parts, SyncIsOfOnePeer, AloneIsAlone, DoneIsCached, LoneSyncIsExact
<1>c. ListedExist'
  <2>1. \A m \in Nodes : Exports(m) \subseteq Exports(m)'
    BY <1>3 DEF Exports
  <2>2. \A s \in Syncs : sync[s].at \in Active => sync[s].url \in Nodes
    BY <1>0 DEF Parts, SyncIsOfOnePeer
  <2> QED  BY <1>0, <1>2, <2>1, <2>2 DEF Parts, ListedExist, Exports
<1>d. CachedExist'
  BY <1>0, <1>2, <1>3, CachedFields DEF Parts, CachedExist
<1>e. TaskKnowsWay' /\ RelayReachesOwner'
  <2>1. \A c \in Tasks : task[c].at # "idle" => task[c].node \in Nodes /\ task[c].target \in Targets
    BY <1>0 DEF Parts, TaskKnowsWay
  <2> QED  BY <1>0, <1>2, <1>3, <2>1 DEF Parts, TaskKnowsWay, RelayReachesOwner
<1> QED  BY <1>a, <1>b, <1>c, <1>d, <1>e DEF Parts

\* A peer is added or moved: the row is offline.
LEMMA AddPeerKeeps ==
  ASSUME Parts, NEW n \in Nodes, NEW p \in Peers, AddPeer(n, p)
  PROVE  Parts'
<1>0. Parts
  OBVIOUS
<1>1. PICK url \in Addresses[n][p] :
        peers' = [peers EXCEPT ![n][p] = [url |-> url, online |-> FALSE, answered |-> None]]
  BY DEF AddPeer
<1>2. agents' = agents /\ cache' = cache /\ sync' = sync /\ task' = task
  BY DEF AddPeer
<1> DEFINE row == [url |-> url, online |-> FALSE, answered |-> None]
<1>3. url \in Nodes /\ row \in Peer
  BY DiscoveryAssumption DEF Peer
<1>4. row.online = FALSE /\ row.url = url
  OBVIOUS
<1> HIDE DEF row
<1>5. /\ peers' \in [Nodes -> [Peers -> Peer]] /\ peers'[n][p] = row
      /\ \A m \in Nodes, q \in Peers : m # n \/ q # p => peers'[m][q] = peers[m][q]
  <2>1. DiscoveryTypeOK /\ SetsPeer(n, p, row)
    BY <1>0, <1>1 DEF Parts, row, SetsPeer
  <2> QED  BY <1>3, <2>1, PeersRow
<1>a. DiscoveryTypeOK'
  BY <1>0, <1>2, <1>5 DEF Parts, DiscoveryTypeOK
<1>b. OnlineWasProbed' /\ RowsHaveAddress'
  BY <1>0, <1>3, <1>4, <1>5, <1>a DEF Parts, OnlineWasProbed, RowsHaveAddress
<1>c. SyncIsOfOnePeer' /\ AloneIsAlone' /\ DoneIsCached' /\ LoneSyncIsExact'
  BY <1>0, <1>2 DEF Parts, SyncIsOfOnePeer, AloneIsAlone, DoneIsCached, LoneSyncIsExact
<1>d. ListedExist' /\ CachedExist' /\ TaskKnowsWay' /\ RelayReachesOwner'
  BY <1>0, <1>2 DEF Parts, ListedExist, CachedExist, TaskKnowsWay, RelayReachesOwner, Exports
<1> QED  BY <1>a, <1>b, <1>c, <1>d DEF Parts

\* A task moves, and nothing else.
LEMMA TaskKeeps ==
  ASSUME Parts, NEW c \in Tasks, TaskMoves(c)
  PROVE  Parts'
<1>0. Parts
  OBVIOUS
<1>1. agents' = agents /\ cache' = cache /\ sync' = sync /\ peers' = peers
  BY DEF TaskMoves
<1>a. DiscoveryTypeOK' /\ OnlineWasProbed' /\ RowsHaveAddress'
  <2>1. DiscoveryTypeOK'
    BY <1>0, <1>1 DEF Parts, DiscoveryTypeOK, TaskMoves
  <2> QED  BY <1>0, <1>1, <2>1, RowsKeep
<1>b. /\ SyncIsOfOnePeer' /\ AloneIsAlone' /\ DoneIsCached' /\ LoneSyncIsExact'
      /\ ListedExist' /\ CachedExist'
  <2>1. SyncIsOfOnePeer' /\ AloneIsAlone' /\ DoneIsCached' /\ LoneSyncIsExact'
    BY <1>0, <1>1 DEF Parts, SyncIsOfOnePeer, AloneIsAlone, DoneIsCached, LoneSyncIsExact
  <2>2. ListedExist' /\ CachedExist'
    BY <1>0, <1>1 DEF Parts, ListedExist, CachedExist, Exports
  <2> QED  BY <2>1, <2>2
<1>c. TaskKnowsWay'
  <2>1. \A k, m, q : m \in Nodes /\ q \in Peers /\ k \in cache[m][q] =>
          k.from \in Nodes /\ agents[k.from][k.target] # None
    BY <1>0, CachedFields DEF Parts, CachedExist
  <2>2. TaskKnowsWay
    BY <1>0 DEF Parts
  <2> QED  BY <1>1, <2>1, <2>2 DEF TaskMoves, TaskKnowsWay
<1>d. RelayReachesOwner'
  <2>1. TaskKnowsWay /\ RelayReachesOwner
    BY <1>0 DEF Parts
  <2> QED  BY <1>1, <2>1, DiscoveryAssumption DEF TaskMoves, TaskKnowsWay, RelayReachesOwner
<1> QED  BY <1>a, <1>b, <1>c, <1>d DEF Parts

\* The tasks look at the agents only.
LEMMA TasksKeep ==
  ASSUME Parts, UNCHANGED <<agents, task>>
  PROVE  TaskKnowsWay' /\ RelayReachesOwner'
BY DEF Parts, TaskKnowsWay, RelayReachesOwner

\* A sync starts, and those it overlaps with are alone no more.
LEMMA BeginsKeeps ==
  ASSUME Parts, NEW s \in Syncs, NEW n \in Nodes, NEW p \in Peers, Begins(s, n, p)
  PROVE  Parts'
<1>0. Parts
  OBVIOUS
<1>1. agents' = agents /\ cache' = cache /\ peers' = peers /\ task' = task
  BY DEF Begins
<1>2. /\ sync'[s].at = "probe" /\ sync'[s].node = n /\ sync'[s].peer = p
      /\ sync'[s].url \in Nodes /\ sync'[s].list = {} /\ sync'[s].done = {}
      /\ sync'[s].alone => Others(s, n, p) = {}
  BY <1>0 DEF Begins, Parts, RowsHaveAddress
<1>3. \A r \in Syncs \ {s} :
        /\ sync'[r].at = sync[r].at /\ sync'[r].node = sync[r].node
        /\ sync'[r].peer = sync[r].peer /\ sync'[r].url = sync[r].url
        /\ sync'[r].list = sync[r].list /\ sync'[r].done = sync[r].done
        /\ sync'[r].alone => sync[r].alone /\ r \notin Others(s, n, p)
  BY DEF Begins, SameQuest
<1>a. DiscoveryTypeOK' /\ OnlineWasProbed' /\ RowsHaveAddress'
  <2>1. DiscoveryTypeOK'
    BY <1>0, <1>1 DEF Parts, DiscoveryTypeOK, Begins
  <2> QED  BY <1>0, <1>1, <2>1, RowsKeep
<1>b. SyncIsOfOnePeer'
  <2>1. SyncIsOfOnePeer
    BY <1>0 DEF Parts
  <2> QED  BY <1>2, <1>3, <2>1 DEF SyncIsOfOnePeer, Active
<1>c. ListedExist'
  BY <1>0, <1>1, <1>2, <1>3 DEF Parts, ListedExist, Exports
<1>d. CachedExist'
  BY <1>0, <1>1 DEF Parts, CachedExist
<1>e. AloneIsAlone'
  <2>1. \A r \in Syncs \ {s} : sync[r].at \in Active /\ sync[r].node = n /\ sync[r].peer = p
          => r \in Others(s, n, p)
    BY DEF Others, Active
  <2>2. AloneIsAlone
    BY <1>0 DEF Parts
  <2> QED  BY <1>2, <1>3, <2>1, <2>2 DEF AloneIsAlone
<1>f. DoneIsCached' /\ LoneSyncIsExact'
  <2>1. DoneIsCached /\ LoneSyncIsExact
    BY <1>0 DEF Parts
  <2> QED  BY <1>1, <1>2, <1>3, <2>1 DEF DoneIsCached, LoneSyncIsExact
<1> QED  BY <1>0, <1>1, <1>a, <1>b, <1>c, <1>d, <1>e, <1>f, TasksKeep DEF Parts

\* A sync comes to rest; its peer may be marked offline.
LEMMA RestsKeeps ==
  ASSUME Parts, NEW s \in Syncs, Rests(s)
  PROVE  Parts'
<1>0. Parts
  OBVIOUS
<1>1. agents' = agents /\ cache' = cache /\ task' = task
  BY DEF Rests
<1>2. /\ sync'[s].at \notin Active /\ sync'[s].peer = None
      /\ sync'[s].at = "next" => sync'[s].node \in Nodes
      /\ sync'[s].list = {} /\ sync'[s].done = {}
      /\ \A r \in Syncs \ {s} : sync'[r] = sync[r]
  BY DEF Rests, Only, Active
<1>3. /\ peers' \in [Nodes -> [Peers -> Peer]]
      /\ \A m \in Nodes, q \in Peers :
           peers'[m][q] = peers[m][q] \/ (peers'[m][q].url \in Nodes /\ ~peers'[m][q].online)
  <2>1. CASE peers' = peers
    BY <1>0, <2>1 DEF Parts, DiscoveryTypeOK
  <2>2. CASE /\ sync[s].at = "probe"
             /\ peers' = [peers EXCEPT ![sync[s].node][sync[s].peer] =
                            [url |-> sync[s].url, online |-> FALSE, answered |-> None]]
    <3> DEFINE row == [url |-> sync[s].url, online |-> FALSE, answered |-> None]
    <3>1. sync[s].node \in Nodes /\ sync[s].peer \in Peers /\ sync[s].url \in Nodes
      BY <1>0, <2>2 DEF Parts, SyncIsOfOnePeer, Active
    <3>2. row \in Peer /\ row.url \in Nodes /\ ~row.online
      BY <3>1 DEF Peer
    <3>3. DiscoveryTypeOK /\ SetsPeer(sync[s].node, sync[s].peer, row)
      BY <1>0, <2>2 DEF Parts, SetsPeer
    <3> HIDE DEF row
    <3>4. /\ peers' \in [Nodes -> [Peers -> Peer]] /\ peers'[sync[s].node][sync[s].peer] = row
          /\ \A m \in Nodes, q \in Peers :
               m # sync[s].node \/ q # sync[s].peer => peers'[m][q] = peers[m][q]
      BY <3>1, <3>2, <3>3, PeersRow
    <3> QED  BY <3>2, <3>4
  <2> QED  BY <2>1, <2>2 DEF Rests
<1>a. DiscoveryTypeOK'
  BY <1>0, <1>1, <1>3 DEF Parts, DiscoveryTypeOK, Rests, Only
<1>b. OnlineWasProbed' /\ RowsHaveAddress'
  BY <1>0, <1>3, <1>a DEF Parts, OnlineWasProbed, RowsHaveAddress
<1>c. SyncIsOfOnePeer'
  <2>1. SyncIsOfOnePeer
    BY <1>0 DEF Parts
  <2> QED  BY <1>2, <2>1 DEF SyncIsOfOnePeer, Active
<1>d. ListedExist' /\ CachedExist'
  BY <1>0, <1>1, <1>2 DEF Parts, ListedExist, CachedExist, Exports
<1>e. AloneIsAlone' /\ DoneIsCached' /\ LoneSyncIsExact'
  <2>1. AloneIsAlone /\ DoneIsCached /\ LoneSyncIsExact
    BY <1>0 DEF Parts
  <2>2. sync'[s].at \notin Active \cup {"caching", "synced"}
    BY <1>2 DEF Active
  <2>3. AloneIsAlone'
    BY <1>2, <2>1 DEF AloneIsAlone
  <2>4. DoneIsCached' /\ LoneSyncIsExact'
    BY <1>1, <1>2, <2>1, <2>2 DEF DoneIsCached, LoneSyncIsExact
  <2> QED  BY <2>3, <2>4
<1> QED  BY <1>0, <1>1, <1>a, <1>b, <1>c, <1>d, <1>e, TasksKeep DEF Parts

\* A sync goes on with its peer: who is alone stays alone.
LEMMA SameQuestKeeps ==
  ASSUME Parts, NEW s \in Syncs, Only(s), SameQuest(s), sync'[s].alone = sync[s].alone,
         sync[s].at \in Active, sync'[s].at \in Active
  PROVE  /\ AloneIsAlone'
         /\ \A r \in Syncs \ {s} : sync[r].at \in Active /\ sync[r].alone =>
              sync[r].node # sync[s].node \/ sync[r].peer # sync[s].peer
<1>1. AloneIsAlone
  BY DEF Parts
<1>2. \A r \in Syncs \ {s} : sync'[r] = sync[r]
  BY DEF Only
<1> QED  BY <1>1, <1>2 DEF AloneIsAlone, SameQuest

\* The peer has answered.
LEMMA ListsKeeps ==
  ASSUME Parts, NEW s \in Syncs, Lists(s)
  PROVE  Parts'
<1>0. Parts
  OBVIOUS
<1>1. agents' = agents /\ cache' = cache /\ peers' = peers /\ task' = task
  BY DEF Lists
<1>2. /\ sync[s].at = "probe" /\ sync'[s].at = "listed"
      /\ sync'[s].node = sync[s].node /\ sync'[s].peer = sync[s].peer
      /\ sync'[s].url = sync[s].url
      /\ sync'[s].list = Exports(sync[s].url) /\ sync'[s].done = sync[s].done
      /\ \A r \in Syncs \ {s} : sync'[r] = sync[r]
  BY DEF Lists, Only, SameQuest
<1>a. DiscoveryTypeOK' /\ OnlineWasProbed' /\ RowsHaveAddress'
  <2>1. DiscoveryTypeOK'
    BY <1>0, <1>1 DEF Parts, DiscoveryTypeOK, Lists, Only
  <2> QED  BY <1>0, <1>1, <2>1, RowsKeep
<1>b. SyncIsOfOnePeer'
  <2>1. SyncIsOfOnePeer
    BY <1>0 DEF Parts
  <2> QED  BY <1>2, <2>1 DEF SyncIsOfOnePeer, Active
<1>c. ListedExist' /\ CachedExist'
  BY <1>0, <1>1, <1>2 DEF Parts, ListedExist, CachedExist, Exports
<1>d. AloneIsAlone'
  BY <1>0, SameQuestKeeps DEF Lists, Active
<1>e. DoneIsCached' /\ LoneSyncIsExact'
  BY <1>0, <1>1, <1>2, SyncsKeepExact DEF Lists
<1> QED  BY <1>0, <1>1, <1>a, <1>b, <1>c, <1>d, <1>e, TasksKeep DEF Parts

\* Its row shows the address that answered; nothing is cached yet.
LEMMA GoesOnlineKeeps ==
  ASSUME Parts, NEW s \in Syncs, GoesOnline(s)
  PROVE  Parts'
<1>0. Parts
  OBVIOUS
<1>1. agents' = agents /\ cache' = cache /\ task' = task
  BY DEF GoesOnline
<1>2. /\ sync[s].at = "listed" /\ sync'[s].at = "caching"
      /\ sync'[s].node = sync[s].node /\ sync'[s].peer = sync[s].peer
      /\ sync'[s].url = sync[s].url
      /\ sync'[s].list = sync[s].list /\ sync'[s].done = sync[s].done
      /\ \A r \in Syncs \ {s} : sync'[r] = sync[r]
  BY DEF GoesOnline, Only, SameQuest
<1>3. /\ sync[s].node \in Nodes /\ sync[s].peer \in Peers /\ sync[s].url \in Nodes
      /\ sync[s].done = {}
  BY <1>0, <1>2 DEF Parts, SyncIsOfOnePeer, Active
<1> DEFINE row == [url |-> sync[s].url, online |-> TRUE, answered |-> sync[s].url]
<1>4. row \in Peer /\ row.url \in Nodes /\ row.answered = row.url
  BY <1>3 DEF Peer
<1>5. DiscoveryTypeOK /\ SetsPeer(sync[s].node, sync[s].peer, row)
  BY <1>0 DEF Parts, GoesOnline, SetsPeer
<1> HIDE DEF row
<1>6. /\ peers' \in [Nodes -> [Peers -> Peer]] /\ peers'[sync[s].node][sync[s].peer] = row
      /\ \A m \in Nodes, q \in Peers :
           m # sync[s].node \/ q # sync[s].peer => peers'[m][q] = peers[m][q]
  BY <1>3, <1>4, <1>5, PeersRow
<1>a. DiscoveryTypeOK'
  BY <1>0, <1>1, <1>6 DEF Parts, DiscoveryTypeOK, GoesOnline, Only
<1>b. OnlineWasProbed' /\ RowsHaveAddress'
  BY <1>0, <1>4, <1>6, <1>a DEF Parts, OnlineWasProbed, RowsHaveAddress
<1>c. SyncIsOfOnePeer'
  <2>1. SyncIsOfOnePeer
    BY <1>0 DEF Parts
  <2> QED  BY <1>2, <2>1 DEF SyncIsOfOnePeer, Active
<1>d. ListedExist' /\ CachedExist'
  BY <1>0, <1>1, <1>2 DEF Parts, ListedExist, CachedExist, Exports, Active
<1>e. AloneIsAlone'
  BY <1>0, SameQuestKeeps DEF GoesOnline, Active
<1>f. DoneIsCached' /\ LoneSyncIsExact'
  BY <1>0, <1>1, <1>2, <1>3, SyncsKeepExact DEF GoesOnline
<1> QED  BY <1>0, <1>1, <1>a, <1>b, <1>c, <1>d, <1>e, <1>f, TasksKeep DEF Parts

\* A listed target is cached, in the place of what the cache had under its name.
LEMMA CachesKeeps ==
  ASSUME Parts, NEW s \in Syncs, Caches(s)
  PROVE  Parts'
<1>0. Parts
  OBVIOUS
<1>1. agents' = agents /\ peers' = peers /\ task' = task
  BY DEF Caches
<1>2. PICK t \in sync[s].list \ sync[s].done :
        /\ sync'[s].done = sync[s].done \cup {t}
        /\ cache' = [cache EXCEPT ![sync[s].node][sync[s].peer] =
             {c \in @ : c.target # t} \cup {[target |-> t, from |-> sync[s].url]}]
  BY DEF Caches
<1>3. /\ sync[s].at = "caching" /\ sync'[s].at = "caching"
      /\ sync'[s].node = sync[s].node /\ sync'[s].peer = sync[s].peer
      /\ sync'[s].url = sync[s].url /\ sync'[s].list = sync[s].list
      /\ sync'[s].alone = sync[s].alone
      /\ \A r \in Syncs \ {s} : sync'[r] = sync[r]
  BY DEF Caches, Only, SameQuest
<1> DEFINE n == sync[s].node
           p == sync[s].peer
           url == sync[s].url
           new == {c \in cache[n][p] : c.target # t} \cup {[target |-> t, from |-> url]}
<1>4. n \in Nodes /\ p \in Peers /\ url \in Nodes /\ t \in Targets /\ agents[url][t] # None
  <2>1. n \in Nodes /\ p \in Peers /\ url \in Nodes
    BY <1>0, <1>3 DEF Parts, SyncIsOfOnePeer, Active
  <2>2. sync[s].list \subseteq Exports(url)
    BY <1>0, <1>3 DEF Parts, ListedExist, Active
  <2> QED  BY <2>1, <2>2 DEF Exports
<1>5. SetsCache(n, p, new)
  BY <1>2 DEF SetsCache
<1>6. new \in SUBSET Cached /\ DiscoveryTypeOK
  <2>1. cache[n][p] \in SUBSET Cached /\ DiscoveryTypeOK
    BY <1>0, <1>4 DEF Parts, DiscoveryTypeOK
  <2>2. [target |-> t, from |-> url] \in Cached
    BY <1>4 DEF Cached
  <2> QED  BY <2>1, <2>2
<1>7. \A k \in new :
        \/ k \in cache[n][p] /\ k.target # t
        \/ k = [target |-> t, from |-> url] /\ k.target = t /\ k.from = url
  <2> SUFFICES ASSUME NEW k \in new
               PROVE  \/ k \in cache[n][p] /\ k.target # t
                      \/ k = [target |-> t, from |-> url] /\ k.target = t /\ k.from = url
    OBVIOUS
  <2>1. CASE k \in {c \in cache[n][p] : c.target # t}
    BY <2>1
  <2>2. CASE k = [target |-> t, from |-> url]
    BY <2>2
  <2> QED  BY <2>1, <2>2
<1>8. \A k \in cache[n][p] : k.target # t => k \in new
  OBVIOUS
<1>9. [target |-> t, from |-> url] \in new
  OBVIOUS
<1> HIDE DEF n, p, new
<1>10. /\ cache' \in [Nodes -> [Peers -> SUBSET Cached]]
       /\ cache'[n][p] = new
       /\ \A m \in Nodes, q \in Peers : m # n \/ q # p => cache'[m][q] = cache[m][q]
  BY <1>4, <1>5, <1>6, CacheRow
<1>a. DiscoveryTypeOK' /\ OnlineWasProbed' /\ RowsHaveAddress'
  <2>1. DiscoveryTypeOK'
    BY <1>0, <1>1, <1>10 DEF Parts, DiscoveryTypeOK, Caches, Only
  <2> QED  BY <1>0, <1>1, <1>10, <2>1, RowsKeep
<1>b. SyncIsOfOnePeer'
  <2>1. SyncIsOfOnePeer
    BY <1>0 DEF Parts
  <2> QED  BY <1>2, <1>3, <2>1 DEF SyncIsOfOnePeer, Active
<1>c. ListedExist'
  BY <1>0, <1>1, <1>3 DEF Parts, ListedExist, Exports, Active
<1>d. CachedExist'
  <2> SUFFICES ASSUME NEW m \in Nodes, NEW q \in Peers, NEW k \in cache'[m][q]
               PROVE  agents[k.from][k.target] # None
    BY <1>1 DEF CachedExist
  <2>1. CachedExist
    BY <1>0 DEF Parts
  <2>2. CASE m # n \/ q # p
    BY <1>10, <2>1, <2>2 DEF CachedExist
  <2>3. CASE m = n /\ q = p
    BY <1>4, <1>7, <1>10, <2>1, <2>3 DEF CachedExist
  <2> QED  BY <2>2, <2>3
<1>11. \A r \in Syncs \ {s} : sync[r].at \in Active /\ sync[r].alone =>
         sync[r].node # n \/ sync[r].peer # p
  BY <1>0, SameQuestKeeps DEF Caches, Active, n, p
<1>12. \A r \in Syncs \ {s} : sync[r].at \in Active =>
         sync[r].node \in Nodes /\ sync[r].peer \in Peers
  BY <1>0 DEF Parts, SyncIsOfOnePeer
<1>e. AloneIsAlone'
  BY <1>0, SameQuestKeeps DEF Caches, Active
<1>f. LoneSyncIsExact'
  <2> SUFFICES ASSUME NEW r \in Syncs, sync'[r].at = "synced", sync'[r].alone
               PROVE  cache'[sync'[r].node][sync'[r].peer]
                        = [target : sync'[r].list, from : {sync'[r].url}]
    BY DEF LoneSyncIsExact
  <2>1. r # s /\ sync'[r] = sync[r] /\ sync[r].at \in Active
    BY <1>3 DEF Active
  <2>2. cache'[sync[r].node][sync[r].peer] = cache[sync[r].node][sync[r].peer]
    BY <1>10, <1>11, <1>12, <2>1
  <2> QED  BY <1>0, <2>1, <2>2 DEF Parts, LoneSyncIsExact
<1>g. DoneIsCached'
  <2> SUFFICES ASSUME NEW r \in Syncs, sync'[r].at = "caching", sync'[r].alone
               PROVE  {k \in cache'[sync'[r].node][sync'[r].peer] : k.target \in sync'[r].done}
                        = [target : sync'[r].done, from : {sync'[r].url}]
    BY DEF DoneIsCached
  <2>1. DoneIsCached
    BY <1>0 DEF Parts
  <2>2. CASE r # s
    <3>1. sync'[r] = sync[r] /\ sync[r].at \in Active
      BY <1>3, <2>2 DEF Active
    <3>2. cache'[sync[r].node][sync[r].peer] = cache[sync[r].node][sync[r].peer]
      BY <1>10, <1>11, <1>12, <2>2, <3>1
    <3> QED  BY <2>1, <3>1, <3>2 DEF DoneIsCached
  <2>3. CASE r = s
    <3> DEFINE done == sync[s].done
    <3>1. {k \in cache[n][p] : k.target \in done} = [target : done, from : {url}]
      BY <1>3, <2>1, <2>3 DEF DoneIsCached, n, p
    <3> HIDE DEF done, url
    <3>2. {k \in new : k.target \in done \cup {t}} = [target : done \cup {t}, from : {url}]
      <4>1. ASSUME NEW k \in new, k.target \in done \cup {t}
            PROVE  k \in [target : done \cup {t}, from : {url}]
        <5>1. CASE k.target # t
          <6>1. k \in [target : done, from : {url}]
            BY <1>7, <3>1, <4>1, <5>1
          <6> QED  BY <6>1
        <5>2. CASE k.target = t
          BY <1>7, <4>1, <5>2
        <5> QED  BY <5>1, <5>2
      <4>2. ASSUME NEW k \in [target : done \cup {t}, from : {url}]
            PROVE  k \in new /\ k.target \in done \cup {t}
        <5>1. CASE k.target # t
          <6>1. k \in [target : done, from : {url}]
            BY <4>2, <5>1
          <6>2. k \in cache[n][p]
            BY <3>1, <6>1
          <6> QED  BY <1>8, <4>2, <5>1, <6>2
        <5>2. CASE k.target = t
          <6>1. k = [target |-> t, from |-> url]
            BY <4>2, <5>2
          <6> QED  BY <1>9, <6>1, <5>2
        <5> QED  BY <5>1, <5>2
      <4> QED  BY <4>1, <4>2
    <3> QED  BY <1>2, <1>3, <1>10, <2>3, <3>2 DEF n, p, done, url
  <2> QED  BY <2>2, <2>3
<1> QED  BY <1>0, <1>1, <1>a, <1>b, <1>c, <1>d, <1>e, <1>f, <1>g, TasksKeep DEF Parts

\* What was not listed is dropped: the rest is the list.
LEMMA DropsKeeps ==
  ASSUME Parts, NEW s \in Syncs, Drops(s)
  PROVE  Parts'
<1>0. Parts
  OBVIOUS
<1>1. agents' = agents /\ peers' = peers /\ task' = task
  BY DEF Drops
<1>2. /\ sync[s].at = "caching" /\ sync'[s].at = "synced" /\ sync[s].done = sync[s].list
      /\ sync'[s].node = sync[s].node /\ sync'[s].peer = sync[s].peer
      /\ sync'[s].url = sync[s].url /\ sync'[s].list = sync[s].list
      /\ sync'[s].done = sync[s].done /\ sync'[s].alone = sync[s].alone
      /\ \A r \in Syncs \ {s} : sync'[r] = sync[r]
  BY DEF Drops, Only, SameQuest
<1> DEFINE n == sync[s].node
           p == sync[s].peer
           new == {c \in cache[n][p] : c.target \in sync[s].list}
<1>3. n \in Nodes /\ p \in Peers
  BY <1>0, <1>2 DEF Parts, SyncIsOfOnePeer, Active
<1>4. SetsCache(n, p, new)
  BY DEF Drops, SetsCache
<1>5. new \in SUBSET Cached /\ DiscoveryTypeOK
  BY <1>0, <1>3 DEF Parts, DiscoveryTypeOK
<1>6. \A k \in new : k \in cache[n][p]
  OBVIOUS
<1>7. sync[s].alone => new = [target : sync[s].list, from : {sync[s].url}]
  BY <1>0, <1>2 DEF Parts, DoneIsCached
<1> HIDE DEF n, p, new
<1>8. /\ cache' \in [Nodes -> [Peers -> SUBSET Cached]]
      /\ cache'[n][p] = new
      /\ \A m \in Nodes, q \in Peers : m # n \/ q # p => cache'[m][q] = cache[m][q]
  BY <1>3, <1>4, <1>5, CacheRow
<1>a. DiscoveryTypeOK' /\ OnlineWasProbed' /\ RowsHaveAddress'
  <2>1. DiscoveryTypeOK'
    BY <1>0, <1>1, <1>8 DEF Parts, DiscoveryTypeOK, Drops, Only
  <2> QED  BY <1>0, <1>1, <1>8, <2>1, RowsKeep
<1>b. SyncIsOfOnePeer'
  <2>1. SyncIsOfOnePeer
    BY <1>0 DEF Parts
  <2> QED  BY <1>2, <2>1 DEF SyncIsOfOnePeer, Active
<1>c. ListedExist'
  BY <1>0, <1>1, <1>2 DEF Parts, ListedExist, Exports, Active
<1>d. CachedExist'
  <2> SUFFICES ASSUME NEW m \in Nodes, NEW q \in Peers, NEW k \in cache'[m][q]
               PROVE  agents[k.from][k.target] # None
    BY <1>1 DEF CachedExist
  <2>1. k \in cache[m][q]
    BY <1>6, <1>8
  <2> QED  BY <1>0, <2>1 DEF Parts, CachedExist
<1>9. \A r \in Syncs \ {s} : sync[r].at \in Active /\ sync[r].alone =>
        sync[r].node # n \/ sync[r].peer # p
  BY <1>0, SameQuestKeeps DEF Drops, Active, n, p
<1>10. \A r \in Syncs \ {s} : sync[r].at \in Active =>
         sync[r].node \in Nodes /\ sync[r].peer \in Peers
  BY <1>0 DEF Parts, SyncIsOfOnePeer
<1>e. AloneIsAlone'
  BY <1>0, SameQuestKeeps DEF Drops, Active
<1>11. \A r \in Syncs \ {s} : sync[r].at \in Active /\ sync[r].alone =>
         cache'[sync[r].node][sync[r].peer] = cache[sync[r].node][sync[r].peer]
  BY <1>8, <1>9, <1>10
<1>f. LoneSyncIsExact'
  <2> SUFFICES ASSUME NEW r \in Syncs, sync'[r].at = "synced", sync'[r].alone
               PROVE  cache'[sync'[r].node][sync'[r].peer]
                        = [target : sync'[r].list, from : {sync'[r].url}]
    BY DEF LoneSyncIsExact
  <2>1. CASE r # s
    <3>1. sync'[r] = sync[r] /\ sync[r].at \in Active
      BY <1>2, <2>1 DEF Active
    <3> QED  BY <1>0, <1>11, <2>1, <3>1 DEF Parts, LoneSyncIsExact
  <2>2. CASE r = s
    BY <1>2, <1>7, <1>8, <2>2 DEF n, p
  <2> QED  BY <2>1, <2>2
<1>g. DoneIsCached'
  <2> SUFFICES ASSUME NEW r \in Syncs, sync'[r].at = "caching", sync'[r].alone
               PROVE  {k \in cache'[sync'[r].node][sync'[r].peer] : k.target \in sync'[r].done}
                        = [target : sync'[r].done, from : {sync'[r].url}]
    BY DEF DoneIsCached
  <2>1. r # s /\ sync'[r] = sync[r] /\ sync[r].at \in Active
    BY <1>2 DEF Active
  <2> QED  BY <1>0, <1>11, <2>1 DEF Parts, DoneIsCached
<1> QED  BY <1>0, <1>1, <1>a, <1>b, <1>c, <1>d, <1>e, <1>f, <1>g, TasksKeep DEF Parts

-----------------------------------------------------------------------------
(* The theorems *)

\* The inductive invariant holds at first.
LEMMA InitInv ==
  ASSUME Init
  PROVE  DiscoveryInv
<1>1. /\ \A n \in Nodes : \A p \in Peers : peers[n][p] = NoPeer /\ cache[n][p] = {}
      /\ \A s \in Syncs : sync[s] = NoSync
      /\ \A c \in Tasks : task[c] = NoTask
  BY DEF Init
<1>2. /\ NoSync \in Sync /\ NoSync.at = "idle" /\ NoSync.peer = None
      /\ NoSync.list = {} /\ NoSync.done = {}
  BY NoSyncTyped DEF NoSync
<1>3. NoTask \in Task /\ NoTask.at = "idle"
  BY NoTaskTyped
<1>4. NoPeer \in Peer /\ ~NoPeer.online
  BY DEF NoPeer, Peer
<1>5. DiscoveryTypeOK
  <2>1. agents \in [Nodes -> [Targets -> Kinds \cup {None}]]
    BY DEF Init
  <2>2. peers \in [Nodes -> [Peers -> Peer]] /\ cache \in [Nodes -> [Peers -> SUBSET Cached]]
    BY <1>4 DEF Init
  <2>3. sync \in [Syncs -> Sync] /\ task \in [Tasks -> Task]
    BY <1>2, <1>3 DEF Init
  <2> QED  BY <2>1, <2>2, <2>3 DEF DiscoveryTypeOK
<1>6. OnlineWasProbed /\ RowsHaveAddress /\ CachedExist
  BY <1>1, <1>4, <1>5 DEF OnlineWasProbed, RowsHaveAddress, CachedExist
<1>7. SyncIsOfOnePeer /\ ListedExist /\ AloneIsAlone /\ DoneIsCached /\ LoneSyncIsExact
  BY <1>1, <1>2 DEF SyncIsOfOnePeer, ListedExist, AloneIsAlone, DoneIsCached, LoneSyncIsExact,
     Active
<1>8. TaskKnowsWay /\ RelayReachesOwner
  BY <1>1, <1>3 DEF TaskKnowsWay, RelayReachesOwner
<1> QED  BY <1>6, <1>7, <1>8 DEF DiscoveryInv

\* Every step keeps it.
LEMMA StepInv ==
  ASSUME DiscoveryInv, [Next]_vars
  PROVE  DiscoveryInv'
<1>1. Parts
  BY InvIsParts
<1>2. ASSUME NEW s \in Syncs, SyncStep(s) PROVE Parts'
  BY <1>1, <1>2, BeginsKeeps, RestsKeeps, ListsKeeps, GoesOnlineKeeps, CachesKeeps, DropsKeeps
     DEF SyncStep
<1>3. ASSUME UNCHANGED vars PROVE Parts'
  <2>1. UNCHANGED <<agents, peers, cache, sync, task>>
    BY <1>3 DEF vars
  <2>2. DiscoveryTypeOK' /\ OnlineWasProbed' /\ RowsHaveAddress'
    <3>1. DiscoveryTypeOK'
      BY <1>1, <2>1 DEF Parts, DiscoveryTypeOK
    <3> QED  BY <1>1, <2>1, <3>1, RowsKeep
  <2>3. SyncIsOfOnePeer' /\ AloneIsAlone' /\ DoneIsCached' /\ LoneSyncIsExact'
    BY <1>1, <2>1 DEF Parts, SyncIsOfOnePeer, AloneIsAlone, DoneIsCached, LoneSyncIsExact
  <2>4. ListedExist' /\ CachedExist' /\ TaskKnowsWay' /\ RelayReachesOwner'
    BY <1>1, <2>1 DEF Parts, ListedExist, CachedExist, TaskKnowsWay, RelayReachesOwner, Exports
  <2> QED  BY <2>2, <2>3, <2>4 DEF Parts
<1>4. ASSUME NEW n \in Nodes, NEW t \in Targets, Register(n, t) PROVE Parts'
  BY <1>1, <1>4, RegisterKeeps
<1>5. ASSUME NEW n \in Nodes, NEW p \in Peers, AddPeer(n, p) PROVE Parts'
  BY <1>1, <1>5, AddPeerKeeps
<1>6. ASSUME NEW c \in Tasks, TaskMoves(c) PROVE Parts'
  BY <1>1, <1>6, TaskKeeps
<1>7. Parts'
  BY <1>2, <1>3, <1>4, <1>5, <1>6, StepOfOne
<1> QED  BY <1>7, InvIsParts DEF DiscoveryInv, Parts

\* Hence it holds at every step.
LEMMA Invariant == Spec => []DiscoveryInv
<1>1. Init => DiscoveryInv
  BY InitInv
<1>2. DiscoveryInv /\ [Next]_vars => DiscoveryInv'
  BY StepInv
<1> QED  BY <1>1, <1>2, PTL DEF Spec

(***************************************************************************)
(* A peer that is shown online has answered at the address it is shown     *)
(* with, however syncs and operators interleave.                           *)
(***************************************************************************)
THEOREM OnlinePeersAnswered == Spec => []OnlineWasProbed
<1>1. DiscoveryInv => OnlineWasProbed
  BY DEF DiscoveryInv
<1> QED  BY <1>1, Invariant, PTL

(***************************************************************************)
(* A sync that nothing overlapped leaves in the cache what it was told,    *)
(* whatever was in it before.                                              *)
(***************************************************************************)
THEOREM LoneSyncsAreExact == Spec => []LoneSyncIsExact
<1>1. DiscoveryInv => LoneSyncIsExact
  BY DEF DiscoveryInv
<1> QED  BY <1>1, Invariant, PTL

(***************************************************************************)
(* A task that is sent where its target was listed finds the agent in the  *)
(* agents table there (ListTargets skips what came from peers).            *)
(***************************************************************************)
THEOREM RelaysReachOwners == Spec => []RelayReachesOwner
<1>1. DiscoveryInv => RelayReachesOwner
  BY DEF DiscoveryInv
<1> QED  BY <1>1, Invariant, PTL
=============================================================================

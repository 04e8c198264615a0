------------------------------ MODULE VolumeHub ------------------------------
(***************************************************************************)
(* The Volume Hub for one volume (services/btrfs-csi/pkg/volumehub): the   *)
(* registry entry with its lease, the manifest and the tombstone that the  *)
(* Hub writes to the object store, deletion, re-registration, and the      *)
(* storage nodes whose operations hold the lease (pkg/sync/daemon.go).     *)
(*                                                                         *)
(* The registry is memory of the Hub process and is lost when it restarts; *)
(* manifest and tombstone are durable.  The manifest is the set of its     *)
(* snapshots: a write to it is a GET and a PUT with steps of others in     *)
(* between.  A holder's nonce is left out: a node runs one operation at a  *)
(* time.  EnsureCached is modelled for callers without candidate nodes;    *)
(* moving a volume between nodes is in VolumeSync.                         *)
(***************************************************************************)
EXTENDS Naturals, FiniteSets

CONSTANTS Nodes,      \* nodes with a storage plugin
          None,
          MaxSnaps,   \* bound: snapshots taken
          MaxCalls,   \* bound: calls of clients of the Hub
          MaxFaults   \* bound: failed calls, lost nodes, Hub restarts

ASSUME HubAssumption == /\ Nodes # {} /\ None \notin Nodes
                        /\ "delete" \notin Nodes
                        /\ MaxSnaps \in Nat /\ MaxCalls \in Nat /\ MaxFaults \in Nat

VARIABLES
  live,    \* nodes the Hub can reach (Endpoints)
  reg,     \* the registry's entry: known, ownerNode, cachedNodes
  lease,   \* the entry's lease: holder, revoked, expired
  man,     \* the manifest: its snapshots, NoManifest if there is none
  tomb,    \* the tombstone
  copy,    \* nodes with the volume on disk
  track,   \* nodes whose daemon tracks the volume
  op,      \* each node's actor: where its operation is
  scan,    \* each node's discoverVolumes: whether it found no tombstone
  del,     \* the DeleteVolume call
  ens,     \* the EnsureCached call
  seen,    \* RebuildRegistry: nodes it found the volume on
  taken, calls, faults,
  \* observation only
  acked,   \* snapshots whose append was acknowledged
  deleted, \* a DeleteVolume call has succeeded
  excused  \* a running operation lost its lease, or a manifest was misread

hubVars  == <<reg, lease>>
nodeVars == <<copy, track>>
obs      == <<acked, deleted, excused>>
vars     == <<live, reg, lease, man, tomb, copy, track, op, scan, del, ens, seen,
              taken, calls, faults, acked, deleted, excused>>

NoManifest == {0}
NoEntry    == [known |-> FALSE, owner |-> None, cached |-> {}]
NoLease    == [holder |-> None, revoked |-> FALSE, expired |-> FALSE]
IdleOp     == [pc |-> "idle", kind |-> "none", snap |-> 0, base |-> {}, renews |-> FALSE]
Deleter    == "delete"

Running(n) == op[n].pc \in {"leased", "put", "release"}
\* The holder of the lease is an operation that has not ended.
HolderRuns == lease.holder \in Nodes /\ Running(lease.holder)

-----------------------------------------------------------------------------
(* The lease *)

\* Mistake: whether another holder has the lease is not looked at.
AlwaysFree == reg.known

\* AcquireLease succeeds.
Free == reg.known /\ (lease.holder = None \/ lease.revoked \/ lease.expired)

Grant(h) == lease' = [NoLease EXCEPT !.holder = h]

\* ReleaseLease: only if the holder matches.
Release(h) == lease' = IF lease.holder = h THEN NoLease ELSE lease

\* Mistake: the Hub renews its own lease.
ExpireNodesOnly ==
  /\ lease.holder \in Nodes /\ ~lease.expired
  /\ ~op[lease.holder].renews
  /\ lease' = [lease EXCEPT !.expired = TRUE]
  /\ excused' = (excused \/ HolderRuns)
  /\ UNCHANGED <<live, reg, man, tomb, nodeVars, op, scan, del, ens, seen, taken, calls, faults,
                 acked, deleted>>

\* The TTL runs out.  A node's operation renews its lease until the renewal
\* goroutine stops; the Hub does not renew the lease of a deletion.
Expire ==
  /\ lease.holder # None /\ ~lease.expired
  /\ lease.holder \in Nodes => ~op[lease.holder].renews
  /\ lease' = [lease EXCEPT !.expired = TRUE]
  /\ excused' = (excused \/ HolderRuns)
  /\ UNCHANGED <<live, reg, man, tomb, nodeVars, op, scan, del, ens, seen, taken, calls, faults,
                 acked, deleted>>

\* A renewal that fails, or learns of a revocation, is the last one.
RenewalStops(n) ==
  /\ op[n].renews
  /\ \/ lease.holder = n /\ lease.revoked /\ UNCHANGED faults
     \/ lease.holder # n /\ UNCHANGED faults
     \/ faults < MaxFaults /\ faults' = faults + 1
  /\ op' = [op EXCEPT ![n].renews = FALSE]
  /\ UNCHANGED <<live, hubVars, man, tomb, nodeVars, scan, del, ens, seen, taken, calls, obs>>

\* leaseReaper: expired leases, and leases of nodes that are not reachable.
Reap ==
  /\ lease.holder # None
  /\ lease.expired \/ lease.holder \in Nodes \ live
  /\ lease' = NoLease
  /\ excused' = (excused \/ HolderRuns)
  /\ UNCHANGED <<live, reg, man, tomb, nodeVars, op, scan, del, ens, seen, taken, calls, faults,
                 acked, deleted>>

-----------------------------------------------------------------------------
(* Operations of a node *)

\* An untrack that DeleteVolume has sent waits in the actor's queue.
Untracking(n) == del.pc = "untrack" /\ del.at = n

\* A sync of the next snapshot, with or without the lease it renews.
SyncAt(pc, renews) ==
  [pc |-> pc, kind |-> "sync", snap |-> taken + 1, base |-> {}, renews |-> renews]

\* The actor takes up a sync.  A background sync asks for the lease once; an
\* operation of a user waits for it.
StartSync(n) ==
  /\ n \in track /\ n \in copy /\ op[n] = IdleOp /\ ~Untracking(n)
  /\ taken < MaxSnaps /\ taken' = taken + 1
  /\ \/ /\ Free /\ Grant(n)
        /\ op' = [op EXCEPT ![n] = SyncAt("leased", TRUE)]
     \/ /\ reg.known
        /\ op' = [op EXCEPT ![n] = SyncAt("wait", FALSE)]
        /\ UNCHANGED lease
  /\ UNCHANGED <<live, reg, man, tomb, nodeVars, scan, del, ens, seen, calls, faults, obs>>

\* The next attempt of a waiting operation: the lease, or an error when the
\* volume is not registered, the call fails or the deadline is over.
LeaseGranted(n) ==
  /\ op[n].pc = "wait"
  /\ \/ /\ Free /\ Grant(n)
        /\ op' = [op EXCEPT ![n].pc = "leased", ![n].renews = TRUE]
        /\ UNCHANGED faults
     \/ /\ \/ ~reg.known /\ UNCHANGED faults
           \/ faults < MaxFaults /\ faults' = faults + 1
        /\ op' = [op EXCEPT ![n] = IdleOp]
        /\ UNCHANGED lease
  /\ UNCHANGED <<live, reg, man, tomb, nodeVars, scan, del, ens, seen, taken, calls, obs>>

\* handleAppendSnapshot, the GET.  Whether the caller has a lease is not
\* checked; any error counts as a manifest that does not exist.
ReadManifest(n) ==
  /\ op[n].pc = "leased" /\ op[n].kind = "sync"
  /\ \/ /\ op' = [op EXCEPT ![n].pc = "put", ![n].base = IF man = NoManifest THEN {} ELSE man]
        /\ UNCHANGED <<faults, excused>>
     \/ /\ faults < MaxFaults /\ faults' = faults + 1
        /\ op' = [op EXCEPT ![n].pc = "put", ![n].base = {}]
        /\ excused' = TRUE
  /\ UNCHANGED <<live, hubVars, man, tomb, nodeVars, scan, del, ens, seen, taken, calls, acked, deleted>>

\* handleAppendSnapshot, the PUT, and its answer.
PutManifest(n) ==
  /\ op[n].pc = "put"
  /\ \/ /\ man' = op[n].base \cup {op[n].snap}
        /\ acked' = acked \cup {op[n].snap}
        /\ UNCHANGED faults
     \/ /\ faults < MaxFaults /\ faults' = faults + 1
        /\ UNCHANGED <<man, acked>>
  /\ op' = [op EXCEPT ![n].pc = "release"]
  /\ UNCHANGED <<live, hubVars, tomb, nodeVars, scan, del, ens, seen, taken, calls, deleted, excused>>

\* doRestoreVolume under its lease: without a manifest it is an error.
Restore(n) ==
  /\ op[n].pc = "leased" /\ op[n].kind = "restore"
  /\ op' = [op EXCEPT ![n].pc = "release"]
  /\ copy' = IF man = NoManifest THEN copy ELSE copy \cup {n}
  /\ ens' = IF ens.at = n /\ man # NoManifest THEN [ens EXCEPT !.pc = "restored"] ELSE ens
  /\ UNCHANGED <<live, hubVars, man, tomb, track, scan, del, seen, taken, calls, faults, obs>>

\* The operation ends; the release may not reach the Hub.
ReleaseVolumeLease(n) ==
  /\ op[n].pc = "release"
  /\ op' = [op EXCEPT ![n] = IdleOp]
  /\ \/ Release(n) /\ UNCHANGED faults
     \/ faults < MaxFaults /\ faults' = faults + 1 /\ UNCHANGED lease
  /\ UNCHANGED <<live, reg, man, tomb, nodeVars, scan, del, ens, seen, taken, calls, obs>>

\* A volume that is gone from the disk is untracked: by a background sync,
\* which has taken the lease, or by the periodic cycle, which has not.
VolumeGone(n) ==
  /\ n \in track \ copy /\ op[n] = IdleOp
  /\ track' = track \ {n}
  /\ (Free /\ lease' = NoLease) \/ UNCHANGED lease
  /\ UNCHANGED <<live, reg, man, tomb, copy, op, scan, del, ens, seen, taken, calls, faults, obs>>

-----------------------------------------------------------------------------
(* discoverVolumes *)

\* A volume on disk that is not tracked: is it tombstoned?  If so what is left
\* of it is deleted, and the tombstone with it.
Discover(n) ==
  /\ n \in copy \ track /\ ~scan[n]
  /\ \/ /\ ~tomb
        /\ scan' = [scan EXCEPT ![n] = TRUE]
        /\ UNCHANGED <<copy, tomb, faults>>
     \/ /\ tomb
        /\ copy' = copy \ {n}
        /\ \/ tomb' = FALSE /\ UNCHANGED faults
           \/ faults < MaxFaults /\ faults' = faults + 1 /\ UNCHANGED tomb
        /\ UNCHANGED scan
  /\ UNCHANGED <<live, hubVars, man, track, op, del, ens, seen, taken, calls, obs>>

\* Otherwise it is tracked, by now deleted or not.
TrackDiscovered(n) ==
  /\ scan[n]
  /\ scan' = [scan EXCEPT ![n] = FALSE]
  /\ track' = track \cup {n}
  /\ UNCHANGED <<live, hubVars, man, tomb, copy, op, del, ens, seen, taken, calls, faults, obs>>

-----------------------------------------------------------------------------
(* DeleteVolumeFromNode *)

IdleDel == [pc |-> "idle", todo |-> {}, at |-> None, owner |-> None]

\* RevokeLease.
DeleteRevoke ==
  /\ del = IdleDel
  /\ calls < MaxCalls /\ calls' = calls + 1
  /\ IF lease.holder # None /\ ~lease.expired
     THEN /\ lease' = [lease EXCEPT !.revoked = TRUE]
          /\ del' = [del EXCEPT !.pc = "preempt"]
          /\ excused' = (excused \/ HolderRuns)
     ELSE /\ lease' = NoLease
          /\ del' = [del EXCEPT !.pc = "acquire"]
          /\ UNCHANGED excused
  /\ UNCHANGED <<live, reg, man, tomb, nodeVars, op, scan, ens, seen, taken, faults, acked, deleted>>

\* After the wait for the holder, ForceReleaseLease, whoever holds it now.
DeletePreempt ==
  /\ del.pc = "preempt"
  /\ lease' = NoLease
  /\ del' = [del EXCEPT !.pc = "acquire"]
  /\ excused' = (excused \/ HolderRuns)
  /\ UNCHANGED <<live, reg, man, tomb, nodeVars, op, scan, ens, seen, taken, calls, faults, acked, deleted>>

\* acquireLeaseOrFail; a lease somebody else got in between is no obstacle.
DeleteAcquire ==
  /\ del.pc = "acquire"
  /\ IF Free THEN Grant(Deleter) ELSE UNCHANGED lease
  /\ del' = [del EXCEPT !.pc = "tombstone"]
  /\ UNCHANGED <<live, reg, man, tomb, nodeVars, op, scan, ens, seen, taken, calls, faults, obs>>

\* PutTombstone; then the list of nodes is read.  Without a tombstone the call
\* fails and the lease is released.
DeleteTombstone ==
  /\ del.pc = "tombstone"
  /\ \/ /\ tomb' = TRUE
        /\ del' = [pc |-> "untrack", todo |-> (reg.cached \cup {reg.owner}) \ {None},
                   at |-> None, owner |-> reg.owner]
        /\ UNCHANGED <<lease, faults>>
     \/ /\ faults < MaxFaults /\ faults' = faults + 1
        /\ del' = IdleDel
        /\ Release(Deleter)
        /\ UNCHANGED tomb
  /\ UNCHANGED <<live, reg, man, nodeVars, op, scan, ens, seen, taken, calls, obs>>

\* The next node: UntrackVolume is sent, or the node cannot be reached.
DeleteCall(n) ==
  /\ del.pc = "untrack" /\ del.at = None /\ n \in del.todo
  /\ del' = IF n \in live THEN [del EXCEPT !.at = n] ELSE [del EXCEPT !.todo = @ \ {n}]
  /\ UNCHANGED <<live, hubVars, man, tomb, nodeVars, op, scan, ens, seen, taken, calls, faults, obs>>

\* The untrack has had its turn behind the node's operation.
DeleteUntracked(n) ==
  /\ Untracking(n) /\ op[n] = IdleOp
  /\ track' = track \ {n}
  /\ del' = IF n = del.owner THEN [del EXCEPT !.pc = "erase"]
            ELSE [del EXCEPT !.todo = @ \ {n}, !.at = None]
  /\ UNCHANGED <<live, hubVars, man, tomb, copy, op, scan, ens, seen, taken, calls, faults, obs>>

\* The node goes away during the call.
DeleteCallLost ==
  /\ del.at # None /\ del.at \notin live
  /\ del' = [del EXCEPT !.pc = "untrack", !.todo = @ \ {del.at}, !.at = None]
  /\ UNCHANGED <<live, hubVars, man, tomb, nodeVars, op, scan, ens, seen, taken, calls, faults, obs>>

\* On the owner: the subvolume, then the manifest, each best effort.
DeleteErase ==
  /\ del.pc = "erase"
  /\ \E sub, cas \in BOOLEAN :
       /\ faults + (IF sub THEN 0 ELSE 1) + (IF cas THEN 0 ELSE 1) <= MaxFaults
       /\ faults' = faults + (IF sub THEN 0 ELSE 1) + (IF cas THEN 0 ELSE 1)
       /\ copy' = IF sub THEN copy \ {del.at} ELSE copy
       /\ man' = IF cas THEN NoManifest ELSE man
       /\ acked' = IF cas THEN {} ELSE acked
  /\ del' = [del EXCEPT !.pc = "untrack", !.todo = @ \ {del.at}, !.at = None]
  /\ UNCHANGED <<live, hubVars, tomb, track, op, scan, ens, seen, taken, calls, deleted, excused>>

\* UnregisterVolume: the entry, and the lease in it, are gone.
DeleteFinish ==
  /\ del.pc = "untrack" /\ del.todo = {}
  /\ reg' = NoEntry /\ lease' = NoLease
  /\ del' = IdleDel /\ deleted' = TRUE
  /\ excused' = (excused \/ HolderRuns)
  /\ UNCHANGED <<live, man, tomb, nodeVars, op, scan, ens, seen, taken, calls, faults, acked>>

-----------------------------------------------------------------------------
(* EnsureCached *)

IdleEns == [pc |-> "idle", at |-> None]

\* Self-heal: a volume that is not registered and not tombstoned ...
EnsureCheck ==
  /\ ens = IdleEns
  /\ calls < MaxCalls /\ calls' = calls + 1
  /\ \/ reg.known /\ ens' = [ens EXCEPT !.pc = "place"]
     \/ ~reg.known /\ ~tomb /\ ens' = [ens EXCEPT !.pc = "checked"]
  /\ UNCHANGED <<live, hubVars, man, tomb, nodeVars, op, scan, del, seen, taken, faults, obs>>

\* ... is registered if it has a manifest.
EnsureRegister ==
  /\ ens.pc = "checked"
  /\ reg' = IF man = NoManifest THEN reg ELSE [reg EXCEPT !.known = TRUE]
  /\ ens' = [ens EXCEPT !.pc = "place"]
  /\ UNCHANGED <<live, lease, man, tomb, nodeVars, op, scan, del, seen, taken, calls, faults, obs>>

\* Steps 3 and 4: the owner, or a cached copy if the owner is not reachable.
\* Entries of nodes that are gone, or that were asked and have no copy, are
\* removed.
EnsureFound ==
  /\ ens.pc = "place"
  /\ \/ reg.owner \in live \cap copy /\ UNCHANGED reg
     \/ /\ reg.owner \notin live
        /\ \E n \in reg.cached \cap live \cap copy, unasked \in SUBSET ((reg.cached \cap live) \ copy) :
             reg' = [reg EXCEPT !.owner = n, !.cached = (@ \cap live \cap copy) \cup unasked]
  /\ ens' = IdleEns
  /\ UNCHANGED <<live, lease, man, tomb, nodeVars, op, scan, del, seen, taken, calls, faults, obs>>

\* Step 6: restore from the store on a node, which waits for the lease.  Before
\* that an owner without a copy has tracked the volume and failed to send it.
EnsureRestore(n) ==
  /\ ens.pc = "place" /\ n \in live /\ op[n] = IdleOp /\ ~Untracking(n)
  /\ reg.owner \notin live \cap copy
  /\ reg.owner \in live \/ reg.cached \cap live \cap copy = {}
  /\ track' = track \cup {n} \cup ({reg.owner} \cap live)
  /\ reg' = [reg EXCEPT !.cached = IF reg.owner \in live THEN @ \cap live ELSE {}]
  /\ op' = [op EXCEPT ![n] = [IdleOp EXCEPT !.pc = "wait", !.kind = "restore"]]
  /\ ens' = [pc |-> "restoring", at |-> n]
  /\ UNCHANGED <<live, lease, man, tomb, copy, scan, del, seen, taken, calls, faults, obs>>

\* The node answers that it has the volume: SetCached and SetOwner, which make
\* an entry if there is none.
EnsureAdopt ==
  /\ ens.pc = "restored" /\ op[ens.at].kind # "restore"
  /\ reg' = [known |-> TRUE, owner |-> ens.at, cached |-> reg.cached \cup {ens.at}]
  /\ ens' = IdleEns
  /\ UNCHANGED <<live, lease, man, tomb, nodeVars, op, scan, del, seen, taken, calls, faults, obs>>

\* It answers with an error, or not at all.
EnsureFails ==
  /\ \/ ens.pc = "restoring" /\ op[ens.at].kind # "restore"
     \/ ens.pc = "restored" /\ ens.at \notin live
  /\ ens' = IdleEns
  /\ UNCHANGED <<live, hubVars, man, tomb, nodeVars, op, scan, del, seen, taken, calls, faults, obs>>

-----------------------------------------------------------------------------
(* RebuildRegistry, ownership, restarts *)

\* A node is queried: what it has on disk or tracks is registered, tombstoned
\* or not.
RebuildVisit(n) ==
  /\ n \in live /\ n \in copy \cup track
  /\ \/ ~reg.known
     \/ n \in copy \ reg.cached
     \/ n \in copy \ seen /\ reg.owner = None
  /\ reg' = [reg EXCEPT !.known = TRUE, !.cached = IF n \in copy THEN @ \cup {n} ELSE @]
  /\ seen' = seen \cup ({n} \cap copy)
  /\ UNCHANGED <<live, lease, man, tomb, nodeVars, op, scan, del, ens, taken, calls, faults, obs>>

\* A volume without an owner gets one of the nodes that had it, or none if
\* there are several and nothing tells them apart.
RebuildOwner ==
  /\ seen # {}
  /\ \/ /\ reg.owner = None
        /\ \E n \in seen : reg' = [reg EXCEPT !.known = TRUE, !.owner = n]
     \/ /\ reg.owner # None \/ Cardinality(seen) > 1
        /\ UNCHANGED reg
  /\ seen' = {}
  /\ UNCHANGED <<live, lease, man, tomb, nodeVars, op, scan, del, ens, taken, calls, faults, obs>>

\* handleTransferOwnership, under a lease of its own.
TransferOwnership(n) ==
  /\ calls < MaxCalls /\ calls' = calls + 1
  /\ Free /\ n \in reg.cached
  /\ reg' = [reg EXCEPT !.owner = n]
  /\ lease' = NoLease
  /\ UNCHANGED <<live, man, tomb, nodeVars, op, scan, del, ens, seen, taken, faults, obs>>

\* A node leaves the Endpoints: its plugin dies, or it only cannot be reached.
NodeDown(n) ==
  /\ n \in live /\ faults < MaxFaults
  /\ faults' = faults + 1
  /\ live' = live \ {n}
  /\ \/ /\ op' = [op EXCEPT ![n] = IdleOp]
        /\ track' = track \ {n}
        /\ scan' = [scan EXCEPT ![n] = FALSE]
     \/ UNCHANGED <<op, track, scan>>
  /\ UNCHANGED <<hubVars, man, tomb, copy, del, ens, seen, taken, calls, obs>>

NodeUp(n) ==
  /\ n \notin live
  /\ live' = live \cup {n}
  /\ UNCHANGED <<hubVars, man, tomb, nodeVars, op, scan, del, ens, seen, taken, calls, faults, obs>>

\* The Hub restarts: registry, leases and running calls are gone; a handler
\* that had read a manifest does not write it.
HubRestart ==
  /\ faults < MaxFaults /\ faults' = faults + 1
  /\ reg' = NoEntry /\ lease' = NoLease
  /\ del' = IdleDel /\ ens' = IdleEns /\ seen' = {}
  /\ op' = [n \in Nodes |-> IF op[n].pc = "put" THEN [op[n] EXCEPT !.pc = "release"] ELSE op[n]]
  /\ excused' = (excused \/ HolderRuns)
  /\ UNCHANGED <<live, man, tomb, nodeVars, scan, taken, calls, acked, deleted>>

-----------------------------------------------------------------------------
\* The node a volume was created on; which one does not matter.
Creator == CHOOSE n \in Nodes : TRUE

\* A volume that was created on one node, and may have copies on others.  That
\* its first manifest could not be written is only logged.
Init ==
  /\ live = Nodes
  /\ \E others \in SUBSET (Nodes \ {Creator}) :
       /\ reg = [known |-> TRUE, owner |-> Creator, cached |-> others \cup {Creator}]
       /\ copy = others \cup {Creator}
       /\ track = others \cup {Creator}
  /\ lease = NoLease
  /\ man \in {{}, NoManifest} /\ tomb = FALSE
  /\ op = [n \in Nodes |-> IdleOp]
  /\ scan = [n \in Nodes |-> FALSE]
  /\ del = IdleDel /\ ens = IdleEns /\ seen = {}
  /\ taken = 0 /\ calls = 0 /\ faults = 0
  /\ acked = {} /\ deleted = FALSE /\ excused = FALSE

NodeStep(n) ==
  \/ LeaseGranted(n) \/ ReadManifest(n) \/ PutManifest(n) \/ Restore(n)
  \/ ReleaseVolumeLease(n)
DeleteStep ==
  \/ DeletePreempt \/ DeleteAcquire \/ DeleteTombstone \/ DeleteCallLost
  \/ DeleteErase \/ DeleteFinish
  \/ \E n \in Nodes : DeleteCall(n) \/ DeleteUntracked(n)
EnsureStep ==
  \/ EnsureCheck \/ EnsureRegister \/ EnsureFound \/ EnsureAdopt \/ EnsureFails
  \/ \E n \in Nodes : EnsureRestore(n)
Next ==
  \/ \E n \in Nodes :
       \/ StartSync(n) \/ NodeStep(n) \/ RenewalStops(n) \/ VolumeGone(n)
       \/ Discover(n) \/ TrackDiscovered(n)
       \/ RebuildVisit(n) \/ TransferOwnership(n) \/ NodeDown(n) \/ NodeUp(n)
  \/ Expire \/ Reap \/ DeleteRevoke \/ DeleteStep \/ EnsureStep
  \/ RebuildOwner \/ HubRestart

Spec == Init /\ [][Next]_vars

\* Goroutines run, and time passes.  A waiting operation retries every half
\* second, so it gets a lease that is free again and again.
FairSpec ==
  /\ Spec
  /\ WF_vars(DeleteStep) /\ WF_vars(Expire) /\ WF_vars(Reap)
  /\ \A n \in Nodes : SF_vars(NodeStep(n)) /\ WF_vars(RenewalStops(n))

-----------------------------------------------------------------------------
(* Properties *)

\* Every variable has its type.
RegistryTyped ==
  /\ reg \in [known : BOOLEAN, owner : Nodes \cup {None}, cached : SUBSET Nodes]
  /\ lease \in [holder : Nodes \cup {None, Deleter}, revoked : BOOLEAN, expired : BOOLEAN]
  /\ ~reg.known => reg = NoEntry /\ lease = NoLease
StoreTyped ==
  /\ taken \in 0..MaxSnaps
  /\ man = NoManifest \/ man \subseteq 1..taken
  /\ acked \subseteq 1..taken
NodesTyped ==
  /\ live \subseteq Nodes /\ copy \subseteq Nodes /\ track \subseteq Nodes /\ seen \subseteq Nodes
  /\ scan \in [Nodes -> BOOLEAN]
OpsTyped ==
  op \in [Nodes -> [pc : {"idle", "wait", "leased", "put", "release"},
                    kind : {"none", "sync", "restore"}, snap : 0..MaxSnaps,
                    base : SUBSET (1..MaxSnaps), renews : BOOLEAN]]
CallsTyped ==
  /\ del \in [pc : {"idle", "preempt", "acquire", "tombstone", "untrack", "erase"},
              todo : SUBSET Nodes, at : Nodes \cup {None}, owner : Nodes \cup {None}]
  /\ ens \in [pc : {"idle", "checked", "place", "restoring", "restored"},
              at : Nodes \cup {None}]
CountsTyped == calls \in 0..MaxCalls /\ faults \in 0..MaxFaults
FlagsTyped == tomb \in BOOLEAN /\ deleted \in BOOLEAN /\ excused \in BOOLEAN
TypeOK ==
  /\ RegistryTyped /\ StoreTyped /\ NodesTyped /\ OpsTyped /\ CallsTyped
  /\ CountsTyped /\ FlagsTyped

\* No snapshot whose append was acknowledged disappears from the manifest, short
\* of a deletion of the volume: the reads and writes of the manifest by different
\* nodes are serialised by the lease, as long as no operation that is still
\* running has lost it and no read failed (handleAppendSnapshot, AcquireLease).
HistoryKept == ~excused => acked \subseteq man

\* A DeleteVolume call comes to an end, although it waits for the nodes'
\* operations, which may be waiting for the lease the call itself holds
\* (DeleteVolumeFromNode, UntrackVolume, doAcquireHubLease).
DeleteEnds == del.pc # "idle" ~> del.pc = "idle"

\* "Even if the Hub crashes after this point, every node's discoverVolumes will
\* see the tombstone and clean up locally" (DeleteVolumeFromNode): while a node
\* has a copy of a deleted volume, the tombstone is there.
TombstoneUntilClean == deleted /\ copy # {} => tomb

-----------------------------------------------------------------------------
(* The inductive invariant behind HistoryKept *)

\* An append works with a snapshot that was taken and a manifest that was there.
AppendsTaken ==
  \A n \in Nodes :
    /\ op[n].kind = "sync" => op[n].snap \in 1..taken
    /\ op[n].pc = "put" => op[n].kind = "sync" /\ op[n].base \subseteq 1..taken

\* An EnsureCached call that waits for a restore waits for a node.
RestoresOnNode == ens.pc \in {"restoring", "restored"} => ens.at \in Nodes

\* Whoever runs holds the lease, which nobody has revoked and which has not run
\* out: two operations do not overlap.
RunnerHolds ==
  ~excused => \A n \in Nodes : Running(n) =>
                  lease.holder = n /\ ~lease.revoked /\ ~lease.expired

\* Between the GET and the PUT the manifest that was read lacks nothing that was
\* acknowledged.
BaseCurrent ==
  ~excused => \A n \in Nodes : op[n].pc = "put" => acked \subseteq op[n].base

HubInv ==
  /\ TypeOK /\ AppendsTaken /\ RestoresOnNode
  /\ RunnerHolds /\ BaseCurrent /\ HistoryKept
=============================================================================

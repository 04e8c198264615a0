----------------------------- MODULE VolumeSync -----------------------------
(***************************************************************************)
(* The sync daemon of one storage node, for one volume                     *)
(* (services/btrfs-csi/pkg/sync/daemon.go), with the snapshot manifest it  *)
(* grows (pkg/cas/manifest.go).                                            *)
(*                                                                         *)
(* A snapshot is a blob: the difference between the subvolume that was     *)
(* sent and a parent subvolume of the node's disk, or a full stream.  The  *)
(* manifest records, for each blob, the hash of the snapshot it claims as  *)
(* parent.  A restore downloads blobs and applies each one on the layer of *)
(* its recorded parent, so it is right only if the recorded parent and the *)
(* subvolume used for the send held the same data.                         *)
(*                                                                         *)
(* What the volume holds is a number: 0 for the template, and a new number *)
(* for every write.  A hash is the number of the snapshot.  The disk is    *)
(* what each layer subvolume holds, and their names in order of creation,  *)
(* which is the order `btrfs subvolume list --sort=ogen` gives.  fresh is  *)
(* the set of subvolumes whose btrfs generation is not behind the          *)
(* volume's.                                                               *)
(*                                                                         *)
(* The actor of the volume runs one operation at a time and every          *)
(* operation holds the Hub's lease, so op is one record; writers of files, *)
(* the periodic cycle, tracking calls and crashes interleave with its      *)
(* steps.  Operations that only fail before they change anything are left  *)
(* out.                                                                    *)
(***************************************************************************)
EXTENDS Integers, Sequences, FiniteSets, FiniteSetsExt, SequencesExt

CONSTANTS
    Interval,       \* consolidationInterval; 0 disables consolidation
    MaxWrites,      \* bound: writes to the volume
    MaxSnapshots,   \* bound: snapshots in the manifest
    MaxFaults,      \* bound: failing btrfs, object-store and Hub calls,
                    \* plugin restarts and lost nodes
    MaxDisruptions  \* bound: untracks, restores, migrations

ASSUME VolumeSyncAssumption ==
    /\ Interval \in Nat /\ MaxWrites \in Nat /\ MaxSnapshots \in Nat
    /\ MaxFaults \in Nat /\ MaxDisruptions \in Nat

VARIABLES
    content,     \* what volumes/{id} holds, NoVolume if it is absent
    disk,        \* layers/{id}@...: what each holds, their names in order
    tmpl,        \* the template subvolume is on this node
    fresh,       \* names of subvolumes not older than the volume
    snaps,       \* Manifest.Snapshots
    head,        \* Manifest.Head, Base when it is empty or the template
    tv,          \* Daemon.tracked[id], NoTv if absent
    actorUp,     \* Daemon.actors[id] exists
    untracking,  \* an UntrackVolume call has yet to drop the map entry
    actorDirty,  \* volumeActor.dirty
    queued,      \* a background sync is in bgCh
    op,          \* the actor's operation
    writes, faults, disruptions,
    misled       \* history: what has left a wrong entry in Daemon.tracked, a
                 \* "discovery" or a "rename" that failed

tracking == <<tv, actorUp, untracking, actorDirty, queued>>
manifest == <<snaps, head>>
local    == <<content, disk, tmpl, fresh>>
counters == <<writes, faults, disruptions, misled>>
vars     == <<local, manifest, tracking, op, counters>>

Base     == 0        \* the template's hash
NoHash   == -1       \* the empty string
NoVolume == -1
Garbage  == -2       \* a difference applied to the wrong parent
Full     == -3       \* the base of a full stream

Path(kind, of) == [kind |-> kind, of |-> of]
Layer(h)   == Path("layer", h)      \* layers/{id}@{h}
Consol(h)  == Path("consol", h)     \* layers/{id}@consol-{h}
Pending    == Path("pending", 0)    \* layers/{id}@pending
Template   == Path("template", 0)   \* templates/{name}
NoPath     == Path("none", 0)
Paths == {Pending, Template, NoPath}
            \cup {Layer(h) : h \in 1..MaxSnapshots}
            \cup {Consol(h) : h \in 1..MaxSnapshots}

Contents == 0..MaxWrites \cup {Garbage}
Hashes   == 1..MaxSnapshots
Refs     == Hashes \cup {Base, NoHash}
Snapshot == [parent : Refs, consolidation : BOOLEAN,
             base : Contents \cup {Full}, holds : Contents]
NoTv     == [layer |-> NoHash, snap |-> NoPath, consol |-> NoHash,
             consolPath |-> NoPath, dirty |-> FALSE, tmpl |-> FALSE,
             exists |-> FALSE]
Idle     == [pc |-> "idle"]

-----------------------------------------------------------------------------
(* Subvolumes *)

EmptyDisk      == [holds |-> [p \in {} |-> 0], order |-> <<>>]
OnDisk(p)      == IF p = Template THEN tmpl ELSE p \in DOMAIN disk.holds
HeldBy(p)      == IF p = Template THEN 0 ELSE disk.holds[p]

\* Names out of the list, at its end, and replaced in it.
Unlisted(o, S) == SelectSeq(o, LAMBDA p : p \notin S)
Listed(o, S)   == o \o [i \in 1..Cardinality(S) |-> Layer(SetToSortSeq(S, <)[i])]
Relisted(o, p, q) == [i \in DOMAIN o |-> IF o[i] = p THEN q ELSE o[i]]

Without(d, S) ==
    [holds |-> [p \in DOMAIN d.holds \ S |-> d.holds[p]], order |-> Unlisted(d.order, S)]
With(d, p, c) ==
    [holds |-> [q \in DOMAIN d.holds \cup {p} |-> IF q = p THEN c ELSE d.holds[q]],
     order |-> Append(d.order, p)]
Renamed(d, p, q) ==
    LET e == Without(d, {q})
    IN  IF p \notin DOMAIN d.holds THEN e
        ELSE [holds |-> [r \in (DOMAIN e.holds \ {p}) \cup {q} |->
                            IF r = q THEN d.holds[p] ELSE e.holds[r]],
              order |-> Relisted(e.order, p, q)]

-----------------------------------------------------------------------------
(* The manifest: walks along parent pointers.  A parent is always older.   *)

\* The ancestors of h that the manifest holds, oldest first, h included.
Ancestry ==
    LET walk[h \in Refs] ==
            IF h \notin DOMAIN snaps THEN <<>>
            ELSE Append(walk[snaps[h].parent], h)
    IN  walk

\* Position of the last consolidation in a walk, 0 if there is none.
LastConsolidation(chain) ==
    Max({0} \cup {i \in DOMAIN chain : snaps[chain[i]].consolidation})

LatestConsolidation ==
    LET i == LastConsolidation(Ancestry[head])
    IN  IF i = 0 THEN NoHash ELSE Ancestry[head][i]

SnapshotsSinceLastConsolidation ==
    Len(Ancestry[head]) - LastConsolidation(Ancestry[head])

\* The consolidations up to the last one, then everything.  The order in which
\* the layers are applied follows from their parents.
BuildRestoreChain(h) ==
    LET full == Ancestry[h]
    IN  {full[i] : i \in {j \in DOMAIN full : \/ snaps[full[j]].consolidation
                                              \/ j > LastConsolidation(full)}}

\* btrfs receive of a blob on top of a parent subvolume.
Receive(blob, parentHolds) ==
    IF blob.base \in {Full, parentHolds} THEN blob.holds ELSE Garbage

\* ensureParentLayer and downloadLayer: what layers/{id}@{h} holds once it
\* and its missing ancestors have been downloaded to a node with disk d.
Downloaded(d) ==
    LET get[h \in Refs] ==
            IF h = Base THEN 0
            ELSE IF h \notin DOMAIN snaps THEN NoVolume
            ELSE IF Layer(h) \in DOMAIN d.holds THEN d.holds[Layer(h)]
            ELSE Receive(snaps[h], get[snaps[h].parent])
    IN  get

\* The layers that have to be downloaded to have h on the disk.
Missing ==
    LET need[h \in Refs] ==
            IF h \notin DOMAIN snaps \/ OnDisk(Layer(h)) THEN {}
            ELSE {h} \cup need[snaps[h].parent]
    IN  need

\* A disk with the layers S downloaded to it, oldest first.
Layers(S) == {Layer(h) : h \in S}
Fetched(d, S) ==
    [holds |-> [p \in DOMAIN d.holds \cup Layers(S) |->
                   IF p \in DOMAIN d.holds THEN d.holds[p] ELSE Downloaded(disk)[p.of]],
     order |-> Listed(d.order, S)]

-----------------------------------------------------------------------------
(* Tracking *)

Tracked(layer, snap, consol, consolPath, known) ==
    [layer |-> layer, snap |-> snap, consol |-> consol,
     consolPath |-> consolPath, dirty |-> TRUE, tmpl |-> known, exists |-> TRUE]

\* TrackVolume(id, "", ""): what SyncVolume, RestoreVolume and
\* RestoreToSnapshot do for a volume without an actor.
BareTracked == Tracked(NoHash, NoPath, NoHash, NoPath, FALSE)

\* The on-disk copy of the latest consolidation, under either of its names.
ConsolidationOnDisk ==
    LET c == LatestConsolidation
    IN  IF c = NoHash THEN NoPath
        ELSE IF OnDisk(Consol(c)) THEN Consol(c)
        ELSE IF OnDisk(Layer(c)) THEN Layer(c)
        ELSE NoPath

\* autoTrackWithManifest: the layer is looked up by the hash of HEAD.
AutoTracked ==
    Tracked(head,
            IF head # Base /\ OnDisk(Layer(head)) THEN Layer(head) ELSE NoPath,
            LatestConsolidation, ConsolidationOnDisk, TRUE)

\* discoverVolumes: the layer is the last one listed for the volume, and
\* the hash is HEAD; without a readable manifest only the layer is known.
Discovered(manifestRead) ==
    LET newest == IF disk.order = <<>> THEN NoPath ELSE Last(disk.order)
        found  == IF manifestRead
                  THEN Tracked(head, newest, LatestConsolidation,
                               ConsolidationOnDisk, TRUE)
                  ELSE Tracked(NoHash, newest, NoHash, NoPath, FALSE)
    IN  [found EXCEPT !.dirty = newest \notin fresh]

Saved(c) == c = 0 \/ \E h \in DOMAIN snaps : snaps[h].holds = c

\* The name of a layer or a consolidation has the hash of its snapshot.
Names(p, h) == h \in DOMAIN snaps /\ p \in {Layer(h), Consol(h)}

\* The hash tracked beside a subvolume is the one of its data.
Labelled(p, h) == p = NoPath \/ (p = Template /\ h = Base) \/ Names(p, h)
Describes(t) == Labelled(t.snap, t.layer) /\ Labelled(t.consolPath, t.consol)

\* A volume that is tracked as clean has its last layer on disk, and if the
\* generations agree it is saved.
CleanIsSaved ==
    tv.exists /\ ~tv.dirty =>
        /\ tv.snap # Pending /\ tv.snap \in DOMAIN disk.holds
        /\ tv.snap \in fresh /\ content # NoVolume => Saved(content)

\* The tracked entry may be trusted.
EntryRight == Describes(tv) /\ CleanIsSaved
Misled(by) == misled' = IF EntryRight' THEN misled ELSE misled \cup {by}

Discover ==
    /\ ~tv.exists /\ content # NoVolume /\ op = Idle
    /\ \E ok \in BOOLEAN :
          /\ ok \/ faults < MaxFaults
          /\ faults' = IF ok THEN faults ELSE faults + 1
          /\ tv' = Discovered(ok)
    /\ actorUp' = TRUE /\ actorDirty' = TRUE /\ queued' = FALSE
    /\ UNCHANGED <<local, manifest, untracking, op, writes, disruptions>>
    /\ Misled("discovery")

\* doUntrack: forget the volume and delete its last layer.  The actor stops.
Untrack ==
    /\ op = Idle /\ tv.exists /\ actorUp /\ ~untracking
    /\ disruptions < MaxDisruptions
    /\ disruptions' = disruptions + 1
    /\ tv' = NoTv /\ untracking' = TRUE
    /\ disk' = Without(disk, {tv.snap})
    /\ tmpl' = (tmpl /\ tv.snap # Template)
    /\ fresh' = fresh \ {tv.snap}
    /\ queued' = FALSE
    /\ UNCHANGED <<content, manifest, actorUp, actorDirty, op, writes, faults, misled>>

\* UntrackVolume after doneCh: whatever actor the map holds by now is dropped.
UntrackDone ==
    /\ untracking
    /\ untracking' = FALSE /\ actorUp' = FALSE
    /\ UNCHANGED <<local, manifest, tv, actorDirty, queued, op, counters>>

\* The plugin process ends, in the middle of an operation or not.
Restart ==
    /\ faults < MaxFaults /\ faults' = faults + 1
    /\ tv' = NoTv /\ actorUp' = FALSE /\ untracking' = FALSE
    /\ actorDirty' = FALSE /\ queued' = FALSE /\ op' = Idle
    /\ UNCHANGED <<local, manifest, writes, disruptions, misled>>

\* The node is replaced by an empty one; only the object store remains.
NodeLost ==
    /\ faults < MaxFaults /\ faults' = faults + 1
    /\ content' = NoVolume /\ disk' = EmptyDisk /\ tmpl' = FALSE /\ fresh' = {}
    /\ tv' = NoTv /\ actorUp' = FALSE /\ untracking' = FALSE
    /\ actorDirty' = FALSE /\ queued' = FALSE /\ op' = Idle
    /\ UNCHANGED <<manifest, writes, disruptions, misled>>

-----------------------------------------------------------------------------
(* Writers and the periodic cycle *)

\* A write through FileOps is followed by MarkDirty; a write of a compute
\* pod to the mounted volume is not.
Write ==
    /\ content # NoVolume /\ writes < MaxWrites
    /\ writes' = writes + 1 /\ content' = writes + 1 /\ fresh' = {}
    /\ \E marked \in BOOLEAN :
          /\ tv' = [tv EXCEPT !.dirty = @ \/ (marked /\ tv.exists)]
          /\ actorDirty' = (actorDirty \/ (marked /\ actorUp))
    /\ UNCHANGED <<disk, tmpl, manifest, actorUp, untracking, queued, op,
                   faults, disruptions, misled>>

\* Mistake: generations are not compared.
GenerationIgnored == FALSE

\* The generation comparison finds a write nobody marked.
GenerationMoved ==
    /\ tv.exists /\ tv.snap # NoPath /\ content # NoVolume
    /\ OnDisk(tv.snap) /\ tv.snap \notin fresh

\* The map's entry is an actor that runs, not the one an untrack has stopped.
ActorRuns == actorUp /\ (untracking => tv.exists)

\* Mistake: only the dirty flag is looked at.
SyncAllMarked ==
    /\ ActorRuns /\ ~queued /\ actorDirty
    /\ queued' = TRUE
    /\ UNCHANGED <<local, manifest, tv, actorDirty, actorUp, untracking, op, counters>>

\* syncAll: mark what the generations show, and submit a background sync.
SyncAll ==
    /\ ActorRuns /\ ~queued
    /\ actorDirty \/ GenerationMoved
    /\ actorDirty' = TRUE /\ queued' = TRUE
    /\ tv' = IF actorDirty THEN tv ELSE [tv EXCEPT !.dirty = TRUE]
    /\ UNCHANGED <<local, manifest, actorUp, untracking, op, counters>>

-----------------------------------------------------------------------------
(* syncOne: snapshot, send, append, rotate *)

\* The parent of the send: the subvolume, and the hash to record.  When the
\* subvolume is gone but its hash is known it is fetched from the store.
Known(t, consolidating) ==
    IF consolidating THEN [path |-> t.consolPath, hash |-> t.consol]
    ELSE [path |-> t.snap, hash |-> t.layer]
RecoveryPath(h, consolidating) == IF consolidating THEN Consol(h) ELSE Layer(h)
ByTemplate(t) ==
    [path |-> IF t.tmpl /\ tmpl THEN Template ELSE NoPath,
     hash |-> IF t.tmpl THEN Base ELSE NoHash]
NeedsRecovery(t, consolidating) ==
    LET k == Known(t, consolidating)
    IN  /\ k.path = NoPath \/ ~OnDisk(k.path)
        /\ k.hash \in DOMAIN snaps
        /\ ~OnDisk(RecoveryPath(k.hash, consolidating))

\* Mistake: a consolidation is sent against the last one but records the
\* newest layer as its parent.
ChosenParentMislabelled(t, consolidating) ==
    [path |-> IF Known(t, consolidating).path = NoPath THEN ByTemplate(t).path
              ELSE Known(t, consolidating).path,
     hash |-> IF t.layer = NoHash THEN ByTemplate(t).hash ELSE t.layer]

ChosenParent(t, consolidating) ==
    LET k == Known(t, consolidating)
        p == IF k.path # NoPath /\ OnDisk(k.path) THEN k
             ELSE IF k.hash \in DOMAIN snaps
                  THEN [path |-> RecoveryPath(k.hash, consolidating), hash |-> k.hash]
             ELSE ByTemplate(t)
    IN  IF p.hash = NoHash /\ t.tmpl THEN [p EXCEPT !.hash = Base] ELSE p

Consolidates == Interval > 0 /\ SnapshotsSinceLastConsolidation + 1 >= Interval

\* Take the read-only snapshot of the volume.
SnapshotVolume(kind, target, t) ==
    /\ content # NoVolume
    /\ disk' = With(Without(disk, {Pending}), Pending, content)
    /\ fresh' = fresh \cup {Pending}
    /\ op' = [pc |-> "snapped", kind |-> kind, target |-> target, t |-> t,
              started |-> content]
    /\ UNCHANGED <<content, tmpl>>

CanSync == op = Idle /\ Cardinality(DOMAIN snaps) < MaxSnapshots

\* A background sync from the queue, or SyncVolume.  After a drain the actor
\* is there without a tracked entry and doSync rebuilds it from the manifest;
\* without an actor SyncVolume tracks the volume without its history.
StartSync ==
    /\ CanSync
    /\ LET t == IF tv.exists THEN tv ELSE IF actorUp THEN AutoTracked ELSE BareTracked
       IN  /\ IF tv.exists THEN ActorRuns \/ queued ELSE ~untracking
           /\ SnapshotVolume("sync", NoHash, t)
           /\ tv' = t
           /\ actorDirty' = (actorDirty \/ ~tv.exists)
    /\ actorUp' = (actorUp \/ ~tv.exists) /\ queued' = FALSE
    /\ UNCHANGED <<manifest, untracking, counters>>

\* CreateSnapshot.
StartCheckpoint ==
    /\ CanSync /\ tv.exists /\ ActorRuns
    /\ SnapshotVolume("checkpoint", NoHash, tv)
    /\ UNCHANGED <<manifest, tracking, counters>>

\* DrainAll for one volume: only the dirty flags are looked at.
StartDrain ==
    /\ CanSync /\ tv.exists /\ ActorRuns /\ (actorDirty \/ tv.dirty)
    /\ SnapshotVolume("drain", NoHash, tv)
    /\ UNCHANGED <<manifest, tracking, counters>>

\* The operation ends with an error; the pending snapshot is deleted.
DropPending ==
    /\ disk' = Without(disk, {Pending})
    /\ fresh' = fresh \ {Pending}

Replacing(kind, target, started, saved) ==
    [pc |-> "replace", kind |-> kind, target |-> target, started |-> started, saved |-> saved]

\* What follows the sync that begins a restore or a move, failed or not, is
\* the restore or the move itself.
AfterSync(saved) ==
    CASE op.kind = "restoreTo" -> Replacing("restoreTo", op.target, op.started, saved)
      [] op.kind = "migrate" -> [pc |-> "transfer", kind |-> "migrate"]
      [] OTHER -> Idle

\* recoverParentFromCAS: the download uses the name of the pending snapshot
\* and deletes it first, so the send that follows has nothing to send.
RecoverParent ==
    /\ op.pc = "snapped" /\ NeedsRecovery(op.t, Consolidates)
    /\ LET h    == Known(op.t, Consolidates).hash
           path == RecoveryPath(h, Consolidates)
           up   == Missing[snaps[h].parent]
           got  == Receive(snaps[h], Downloaded(disk)[snaps[h].parent])
           ok   == tmpl \/ \A k \in up \cup {h} : snaps[k].parent # Base
       IN  \/ /\ ok
              /\ disk' = With(Fetched(Without(disk, {Pending}), up), path, got)
              /\ fresh' = (fresh \ {Pending}) \cup Layers(up) \cup {path}
              /\ UNCHANGED faults
           \/ /\ ~ok \/ faults < MaxFaults
              /\ faults' = IF ok THEN faults + 1 ELSE faults
              /\ DropPending
    /\ op' = AfterSync(FALSE)
    /\ UNCHANGED <<content, tmpl, manifest, tracking, writes, disruptions, misled>>

\* btrfs send of the pending snapshot into PutBlob.
Send ==
    /\ op.pc = "snapped" /\ ~NeedsRecovery(op.t, Consolidates)
    /\ LET p == ChosenParent(op.t, Consolidates)
       IN  op' = [pc |-> "sent", kind |-> op.kind, target |-> op.target, t |-> op.t,
                  started |-> op.started,
                  blob |-> [parent |-> p.hash, consolidation |-> Consolidates,
                            base |-> IF p.path = NoPath THEN Full ELSE HeldBy(p.path),
                            holds |-> HeldBy(Pending)]]
    /\ UNCHANGED <<local, manifest, tracking, counters>>

\* The send, the upload or the append fails.
SyncFails ==
    /\ op.pc \in {"snapped", "sent"} /\ faults < MaxFaults
    /\ faults' = faults + 1
    /\ DropPending
    /\ op' = AfterSync(FALSE)
    /\ UNCHANGED <<content, tmpl, manifest, tracking, writes, disruptions, misled>>

NextHash == Cardinality(DOMAIN snaps) + 1

\* Hub.AppendSnapshot: record the snapshot and advance HEAD.  The answer may
\* be lost, and then the node treats the append as failed.
AppendSnapshot ==
    /\ op.pc = "sent"
    /\ snaps' = [h \in DOMAIN snaps \cup {NextHash} |->
                    IF h = NextHash THEN op.blob ELSE snaps[h]]
    /\ head' = NextHash
    /\ \/ /\ op' = [pc |-> "recorded", kind |-> op.kind, target |-> op.target, t |-> op.t,
                    started |-> op.started, blob |-> op.blob]
          /\ UNCHANGED <<disk, fresh, faults>>
       \/ /\ faults < MaxFaults /\ faults' = faults + 1
          /\ DropPending
          /\ op' = AfterSync(FALSE)
    /\ UNCHANGED <<content, tmpl, tracking, writes, disruptions, misled>>

\* Rotate the layers on disk, then update the tracked entry.
RotatedAway(t, consolidating) ==
    (IF t.snap # t.consolPath THEN {t.snap} ELSE {})
        \cup (IF consolidating THEN {t.consolPath} ELSE {})

\* RenameSubvolume of the pending snapshot, over whatever has the new name: by
\* os.Rename, by a new snapshot and a deletion (a deletion that fails leaves the
\* old name to the next sync), or not at all.
Rotated(d, new, how) ==
    CASE how = "renamed" -> Renamed(d, Pending, new)
      [] how = "copied"  -> With(Without(d, {Pending, new}), new, d.holds[Pending])
      [] how = "failed"  -> Without(d, {new})

\* A snapshot that cannot be renamed is tracked under the pending name.  A copy
\* is newer than the volume.
Rotate ==
    /\ op.pc = "recorded"
    /\ \E away \in SUBSET RotatedAway(op.t, op.blob.consolidation),
          how \in {"renamed", "copied", "failed"} :
       LET c    == op.blob.consolidation
           new  == IF c THEN Consol(head) ELSE Layer(head)
           kept == Without(disk, away)
           path == IF how = "failed" THEN Pending ELSE new
           done == [tv EXCEPT !.layer = head, !.snap = path,
                       !.consol = IF c /\ op.kind # "restoreTo" THEN head ELSE @,
                       !.consolPath = IF c /\ op.kind # "restoreTo" THEN path ELSE @,
                       !.dirty = @ /\ op.kind \in {"checkpoint", "restoreTo"}]
       IN  /\ Pending \in DOMAIN kept.holds \/ how = "failed"
           /\ \/ /\ away = RotatedAway(op.t, c)
                 /\ how = "renamed" \/ Pending \notin DOMAIN kept.holds
                 /\ UNCHANGED faults
              \/ faults < MaxFaults /\ faults' = faults + 1
           /\ disk' = Rotated(kept, new, how)
           /\ tmpl' = (tmpl /\ Template \notin away)
           /\ fresh' = (fresh \ (away \cup {new} \cup {p \in {Pending} : how # "failed"}))
                          \cup {p \in {new} : how = "copied" \/ (how = "renamed" /\ Pending \in fresh)}
           /\ tv' = IF op.kind = "drain" THEN NoTv ELSE IF tv.exists THEN done ELSE tv
           /\ actorDirty' = (actorDirty /\ op.kind \in {"checkpoint", "restoreTo"})
           /\ op' = AfterSync(TRUE)
           /\ UNCHANGED <<content, manifest, actorUp, untracking, queued, writes, disruptions>>
           /\ IF how = "renamed" THEN UNCHANGED misled ELSE Misled("rename")

-----------------------------------------------------------------------------
(* Restores *)

\* RestoreToSnapshot: save the volume first if it is dirty or its generation
\* moved, otherwise go straight to the replacement.
StartRestoreTo ==
    /\ CanSync /\ content # NoVolume
    /\ disruptions < MaxDisruptions /\ disruptions' = disruptions + 1
    /\ LET t == IF tv.exists THEN tv ELSE IF actorUp THEN AutoTracked ELSE BareTracked
       IN  /\ IF tv.exists THEN ActorRuns ELSE ~untracking
           /\ tv' = t
           /\ \E target \in DOMAIN snaps \cup {Base} :
                 \/ /\ t.dirty \/ GenerationMoved
                    /\ SnapshotVolume("restoreTo", target, t)
                 \/ /\ ~(t.dirty \/ GenerationMoved)
                    /\ op' = Replacing("restoreTo", target, content, TRUE)
                    /\ UNCHANGED local
    /\ actorDirty' = (actorDirty \/ ~tv.exists)
    /\ actorUp' = TRUE
    /\ UNCHANGED <<manifest, untracking, queued, writes, faults, misled>>

\* RestoreVolume: replace whatever the node has by HEAD.  A manifest with
\* snapshots whose HEAD is the template has an empty chain and is refused.
StartRestoreVolume ==
    /\ op = Idle /\ ~untracking
    /\ disruptions < MaxDisruptions /\ disruptions' = disruptions + 1
    /\ head # Base \/ DOMAIN snaps = {}
    /\ tv' = IF tv.exists THEN tv ELSE BareTracked
    /\ actorDirty' = (actorDirty \/ ~tv.exists)
    /\ actorUp' = TRUE
    /\ op' = Replacing("restore", head, NoVolume, FALSE)
    /\ UNCHANGED <<local, manifest, untracking, queued, writes, faults, misled>>

\* The base template, then the layers of the chain, then the volume.
ToFetch(h) == UNION {Missing[k] : k \in BuildRestoreChain(h)}

\* A download goes through the name of the pending snapshot.
Downloading(S) == IF S = {} THEN disk ELSE Without(disk, {Pending})

Replace ==
    /\ op.pc = "replace"
    /\ LET S == ToFetch(op.target)
       IN  disk' = Fetched(Downloading(S), S)
    /\ content' = IF op.target = Base THEN 0 ELSE Downloaded(disk)[op.target]
    /\ tmpl' = TRUE /\ fresh' = {}
    /\ op' = [pc |-> "finish", kind |-> op.kind, target |-> op.target,
              started |-> op.started, saved |-> op.saved]
    /\ UNCHANGED <<manifest, tracking, counters>>

\* A download fails after some of the layers, or the volume is deleted and
\* cannot be created again.
ReplaceFails ==
    /\ op.pc = "replace" /\ faults < MaxFaults
    /\ faults' = faults + 1
    /\ LET S == ToFetch(op.target)
       IN  \E T \in SUBSET S :
              /\ \A h \in T, k \in S : k < h => k \in T
              /\ disk' = Fetched(Downloading(S), T)
              /\ \/ content' = content /\ fresh' = fresh \cup Layers(T)
                 \/ T = S /\ content' = NoVolume /\ fresh' = {}
    /\ tmpl' = TRUE
    /\ op' = Idle
    /\ UNCHANGED <<manifest, tracking, writes, disruptions, misled>>

\* RestoreVolume: the tracked entry now describes HEAD.  The handler marks it
\* dirty (nodeops).
FinishRestoreVolume ==
    /\ op.pc = "finish" /\ op.kind = "restore"
    /\ LET c == LatestConsolidation
       IN  tv' = IF DOMAIN snaps = {} THEN [tv EXCEPT !.dirty = tv.exists]
                 ELSE [tv EXCEPT !.layer = head, !.snap = Layer(head), !.dirty = tv.exists,
                          !.consol = IF c = NoHash THEN @ ELSE c,
                          !.consolPath = IF c = NoHash THEN @ ELSE Layer(c)]
    /\ actorDirty' = TRUE
    /\ op' = Idle
    /\ UNCHANGED <<local, manifest, actorUp, untracking, queued, counters>>

\* RestoreToSnapshot: move HEAD, then update the tracked entry.  The latest
\* consolidation is the one of the HEAD that was left.  A Hub that does not
\* answer is an error, except for a restore to the template.  After a success
\* the handler marks the volume dirty (nodeops).
FinishRestoreTo ==
    /\ op.pc = "finish" /\ op.kind = "restoreTo"
    /\ LET c    == LatestConsolidation
           done == IF op.target = Base
                   THEN [tv EXCEPT !.layer = Base, !.snap = Template, !.dirty = tv.exists]
                   ELSE [tv EXCEPT !.layer = op.target, !.snap = Layer(op.target),
                            !.dirty = tv.exists,
                            !.consol = IF c = NoHash THEN @ ELSE c,
                            !.consolPath = IF c = NoHash THEN @ ELSE Layer(c)]
       IN  \/ /\ head' = op.target /\ tv' = done /\ actorDirty' = TRUE
              /\ UNCHANGED faults
           \/ /\ faults < MaxFaults /\ faults' = faults + 1
              /\ UNCHANGED head
              /\ IF op.target = Base THEN tv' = done /\ actorDirty' = TRUE
                 ELSE UNCHANGED <<tv, actorDirty>>
    /\ op' = Idle
    /\ UNCHANGED <<local, snaps, actorUp, untracking, queued, writes, disruptions, misled>>

\* SendVolumeTo, which the Hub's EnsureCached calls to move the volume to
\* another node: a dirty volume is synced first, and a sync that fails does
\* not stop the move.  The generations are not compared.
StartMigrate ==
    /\ CanSync /\ content # NoVolume
    /\ disruptions < MaxDisruptions /\ disruptions' = disruptions + 1
    /\ LET t == IF tv.exists THEN tv ELSE IF actorUp THEN AutoTracked ELSE BareTracked
       IN  /\ IF tv.exists THEN ActorRuns ELSE ~untracking
           /\ tv' = t
           /\ \/ t.dirty /\ SnapshotVolume("migrate", NoHash, t)
              \/ /\ ~t.dirty
                 /\ op' = [pc |-> "transfer", kind |-> "migrate"]
                 /\ UNCHANGED local
    /\ actorDirty' = (actorDirty \/ ~tv.exists)
    /\ actorUp' = TRUE
    /\ UNCHANGED <<manifest, untracking, queued, writes, faults, misled>>

\* The snapshot that is streamed to the other node.
TransferSnapshot ==
    /\ op.pc = "transfer"
    /\ op' = [pc |-> "moving", kind |-> "migrate", copy |-> content]
    /\ UNCHANGED <<local, manifest, tracking, counters>>

\* handleReceiveVolumeStream has the stream; the Hub makes the other node the
\* owner and deletes the volume here (cleanupSourceAfterTransfer).  From now
\* on the model's node is the other one: none of the layers, not tracked.
Moved ==
    /\ op.pc = "moving"
    /\ content' = op.copy
    /\ disk' = EmptyDisk /\ fresh' = {} /\ tmpl' \in BOOLEAN
    /\ tv' = NoTv /\ actorUp' = FALSE /\ untracking' = FALSE
    /\ actorDirty' = FALSE /\ queued' = FALSE
    /\ op' = Idle
    /\ UNCHANGED <<manifest, counters>>

\* The stream breaks: the volume stays where it is.
MoveFails ==
    /\ op.pc = "moving" /\ faults < MaxFaults
    /\ faults' = faults + 1
    /\ op' = Idle
    /\ UNCHANGED <<local, manifest, tracking, writes, disruptions, misled>>

-----------------------------------------------------------------------------
\* A volume just created from its template and tracked by the node.
Init ==
    /\ content = 0 /\ disk = EmptyDisk /\ tmpl = TRUE /\ fresh = {}
    /\ snaps = [h \in {} |-> 0] /\ head = Base
    /\ tv = Tracked(NoHash, NoPath, NoHash, NoPath, TRUE)
    /\ actorUp = TRUE /\ untracking = FALSE /\ actorDirty = TRUE /\ queued = FALSE
    /\ op = Idle
    /\ writes = 0 /\ faults = 0 /\ disruptions = 0 /\ misled = {}

ActorStep ==
    \/ RecoverParent \/ Send \/ SyncFails \/ AppendSnapshot \/ Rotate
    \/ Replace \/ ReplaceFails \/ FinishRestoreVolume \/ FinishRestoreTo
    \/ TransferSnapshot \/ Moved \/ MoveFails
StartOp ==
    \/ StartSync \/ StartCheckpoint \/ StartDrain
    \/ StartRestoreTo \/ StartRestoreVolume \/ StartMigrate
Environment ==
    \/ Write \/ Untrack \/ UntrackDone \/ Restart \/ NodeLost
Next == ActorStep \/ StartOp \/ SyncAll \/ Discover \/ Environment

Spec == Init /\ [][Next]_vars
\* The actor's goroutine and the ticker run; a queued background sync is
\* received; discovery runs every few cycles.
FairSpec ==
    /\ Spec /\ WF_vars(ActorStep) /\ WF_vars(SyncAll) /\ WF_vars(Discover)
    /\ WF_vars(queued /\ StartSync) /\ WF_vars(UntrackDone)

-----------------------------------------------------------------------------
(* The inductive invariants.  The manifest is ordered whatever happens;    *)
(* data and names agree until the tracked entry has been wrong.            *)

\* Hashes are numbered in order and a sync that has begun has room for one.
Numbered ==
    \E k \in 0..MaxSnapshots :
        DOMAIN snaps = 1..k /\ (op.pc \in {"snapped", "sent"} => k < MaxSnapshots)

\* Parents are older snapshots, so that every walk along them ends.
Recorded == DOMAIN snaps \cup {Base, NoHash}
ParentsOlder ==
    /\ \A h \in DOMAIN snaps : snaps[h].parent \in Recorded /\ snaps[h].parent < h
    /\ head \in DOMAIN snaps \cup {Base}

\* The hashes a tracked entry and the operation carry are of the manifest.
Refers(t) == t.layer \in Recorded /\ t.consol \in Recorded
CarriesRecorded ==
    /\ DOMAIN tv = DOMAIN NoTv /\ Refers(tv)
    /\ op.pc \in {"snapped", "sent", "recorded"} =>
          Refers(op.t) /\ (op.kind = "restoreTo" => op.target \in DOMAIN snaps \cup {Base})
    /\ op.pc = "sent" => op.blob.parent \in Recorded
    /\ op.pc \in {"replace", "finish"} => op.target \in DOMAIN snaps \cup {Base}

OrderInv == Numbered /\ ParentsOlder /\ CarriesRecorded

\* A blob is a full stream, or the difference to what its recorded parent holds.
Based(blob) ==
    \/ blob.base = Full /\ blob.parent \in Recorded
    \/ blob.base = 0 /\ blob.parent = Base
    \/ blob.parent \in DOMAIN snaps /\ blob.base = snaps[blob.parent].holds
ManifestSound == ParentsOlder /\ \A h \in DOMAIN snaps : Based(snaps[h])

\* A layer or a consolidation, under the hash in its name, holds the data of
\* that snapshot.
HoldsNamed(d) ==
    \A p \in DOMAIN d.holds :
        p = Pending \/ \E h \in DOMAIN snaps : Names(p, h) /\ d.holds[p] = snaps[h].holds
DiskSound ==
    HoldsNamed(disk) /\ \A p \in fresh : p = Pending \/ \E h \in DOMAIN snaps : Names(p, h)

TrackedVolume ==
    [layer : Refs, snap : Paths, consol : Refs, consolPath : Paths,
     dirty : BOOLEAN, tmpl : BOOLEAN, exists : BOOLEAN]
TrackingSound ==
    tv \in TrackedVolume /\ Describes(tv) /\ CleanIsSaved

\* The pending snapshot is the one the operation took, and what was sent and
\* recorded is what it holds.
SyncSound ==
    /\ op.pc \in {"snapped", "sent", "recorded"} =>
          /\ Describes(op.t)
          /\ Pending \in DOMAIN disk.holds /\ disk.holds[Pending] = op.started
          /\ Pending \in fresh => content = op.started
          /\ op.kind = "restoreTo" => op.target \in DOMAIN snaps \cup {Base}
    /\ op.pc \in {"sent", "recorded"} => op.blob.holds = op.started
    /\ op.pc = "sent" => Based(op.blob)
    /\ op.pc = "recorded" =>
          /\ head \in DOMAIN snaps /\ snaps[head] = op.blob
          /\ Layer(head) \notin fresh /\ Consol(head) \notin fresh

RestoreSound ==
    op.pc \in {"replace", "finish"} =>
        /\ op.target \in DOMAIN snaps \cup {Base}
        /\ op.kind = "restoreTo" /\ op.saved => Saved(op.started)
        /\ op.kind = "restore" => op.target = head /\ (head # Base \/ DOMAIN snaps = {})

Sound ==
    /\ Numbered /\ ManifestSound /\ DiskSound /\ TrackingSound /\ SyncSound /\ RestoreSound
SyncInv == misled = {} => Sound

-----------------------------------------------------------------------------
(* Properties *)

\* The state of the node, the manifest and the daemon has its type.
TypeOK ==
    /\ content \in Contents \cup {NoVolume}
    /\ misled \subseteq {"discovery", "rename"}
    /\ DOMAIN disk.holds \subseteq Paths /\ \A p \in DOMAIN disk.holds : disk.holds[p] \in Contents
    /\ ToSet(disk.order) = DOMAIN disk.holds /\ Len(disk.order) = Cardinality(DOMAIN disk.holds)
    /\ tmpl \in BOOLEAN /\ fresh \subseteq Paths
    /\ DOMAIN snaps \subseteq Hashes
    /\ \A h \in DOMAIN snaps : snaps[h] \in Snapshot /\ snaps[h].parent < h
    /\ head \in DOMAIN snaps \cup {Base}
    /\ tv.layer \in DOMAIN snaps \cup {Base, NoHash} /\ {tv.snap, tv.consolPath} \subseteq Paths
    /\ op.pc \in {"idle", "snapped", "sent", "recorded", "replace", "finish",
                 "transfer", "moving"}

\* Every snapshot of the manifest restores, on an empty node and on this one
\* with the layers it has, to exactly the data the snapshot was taken of.
RestoreExact ==
    \A h \in DOMAIN snaps :
        /\ Downloaded(EmptyDisk)[h] = snaps[h].holds
        /\ Downloaded(disk)[h] = snaps[h].holds

\* As long as no discovery and no failed rename has left a tracked entry that is
\* wrong, whatever syncs, checkpoints, consolidations, restores, untracks,
\* rediscoveries, migrations, failures and crashes came before, every snapshot
\* restores exactly (syncOne, ensureParentLayer, BuildRestoreChain).
ExactUnlessMisled == misled = {} => RestoreExact

\* When RestoreToSnapshot is about to replace the volume, what the volume
\* held when the operation began is in the manifest, unless saving the undo
\* point failed or the tracked entry was wrong before (doRestoreToSnapshot).
UndoPointSaved ==
    (op.pc = "finish" /\ op.kind = "restoreTo" /\ op.saved /\ misled = {}) => Saved(op.started)

\* "no FileOps writes can interleave with the snapshot --- preventing data loss
\* during migration" (SendVolumeTo, daemon.go): the node a volume is moved to
\* ends up with what the volume held when it was deleted here.
MoveKeepsWrites ==
    [][op.pc = "moving" /\ op' = Idle /\ content' # NoVolume => content' = content]_vars

\* Data that nothing overwrites ends up in the manifest: once writers and
\* faults stop, a volume with a running actor is saved, although a write may
\* go unmarked or have its mark cleared by the sync it overlaps (syncAll).
\* Three cases are left out: a node without the template, where a lost parent
\* can never be recovered, a tracked layer that is a pending snapshot, of a
\* crashed sync or of a failed rename, and a volume whose renamed layer is a copy
\* that looks newer than a write it does not have.
EventuallySaved ==
    <>[](tv.exists /\ actorUp /\ tmpl /\ tv.snap # Pending /\ "rename" \notin misled
            /\ content \in 1..MaxWrites /\ op = Idle
            /\ Cardinality(DOMAIN snaps) < MaxSnapshots => Saved(content))

=============================================================================

--------------------------- MODULE VolumeHubProofs ---------------------------
(***************************************************************************)
(* For any set of nodes, any number of snapshots, calls and faults: no     *)
(* snapshot the Hub has acknowledged disappears from the manifest.         *)
(***************************************************************************)
EXTENDS VolumeHub, TLAPS

\* A volume that was just created.
LEMMA HubInit == Init => HubInv
<1> SUFFICES ASSUME Init PROVE HubInv
  OBVIOUS
<1> USE HubAssumption
    DEF Init, NoEntry, NoLease, NoManifest, IdleOp, IdleDel, IdleEns, Deleter
<1>1. Creator \in Nodes
  BY DEF Creator
<1>2. RegistryTyped /\ NodesTyped
  BY <1>1 DEF RegistryTyped, NodesTyped
<1>3. StoreTyped /\ CountsTyped /\ FlagsTyped
  <2>1. StoreTyped
    BY DEF StoreTyped
  <2>2. CountsTyped
    BY DEF CountsTyped
  <2>3. FlagsTyped
    BY DEF FlagsTyped
  <2>4. QED
    BY <2>1, <2>2, <2>3
<1>4. OpsTyped /\ CallsTyped
  BY DEF OpsTyped, CallsTyped
<1>5. AppendsTaken /\ RestoresOnNode /\ RunnerHolds /\ BaseCurrent /\ HistoryKept
  BY DEF AppendsTaken, RestoresOnNode, RunnerHolds, BaseCurrent, HistoryKept, Running
<1>6. QED
  BY <1>2, <1>3, <1>4, <1>5 DEF HubInv, TypeOK

\* The entry and its lease.
LEMMA RegistryStep ==
  ASSUME HubInv, [Next]_vars
  PROVE  RegistryTyped'
<1> USE HubAssumption DEF hubVars, nodeVars, obs, HubInv, TypeOK, RegistryTyped, NodesTyped,
        RestoresOnNode, NoEntry, NoLease, Deleter, Free, Grant, Release
<1>1. ASSUME NEW n \in Nodes, StartSync(n) PROVE RegistryTyped'
  BY <1>1 DEF StartSync
<1>2. ASSUME NEW n \in Nodes, LeaseGranted(n) PROVE RegistryTyped'
  BY <1>2 DEF LeaseGranted
<1>3. ASSUME NEW n \in Nodes, ReleaseVolumeLease(n) PROVE RegistryTyped'
  <2>1. reg' = reg /\ (lease' = lease \/ lease' = NoLease)
    BY <1>3 DEF ReleaseVolumeLease
  <2>2. CASE lease' = lease
    BY <2>1, <2>2
  <2>3. CASE lease' = NoLease
    BY <2>1, <2>3
  <2>4. QED
    BY <2>1, <2>2, <2>3
<1>4. ASSUME NEW n \in Nodes, VolumeGone(n) PROVE RegistryTyped'
  <2>1. reg' = reg /\ (lease' = lease \/ lease' = NoLease)
    BY <1>4 DEF VolumeGone
  <2>2. CASE lease' = lease
    BY <2>1, <2>2
  <2>3. CASE lease' = NoLease
    BY <2>1, <2>3
  <2>4. QED
    BY <2>1, <2>2, <2>3
<1>5. ASSUME NEW n \in Nodes, RebuildVisit(n) PROVE RegistryTyped'
  BY <1>5 DEF RebuildVisit
<1>6. ASSUME NEW n \in Nodes, TransferOwnership(n) PROVE RegistryTyped'
  BY <1>6 DEF TransferOwnership
<1>7. ASSUME NEW n \in Nodes, EnsureRestore(n) PROVE RegistryTyped'
  <2>1. lease' = lease
    BY <1>7 DEF EnsureRestore
  <2>2. reg' \in [known : BOOLEAN, owner : Nodes \cup {None}, cached : SUBSET Nodes]
    BY <1>7 DEF EnsureRestore
  <2>3. ~reg'.known => reg' = NoEntry /\ ~reg.known
    <3>1. reg'.known = reg.known /\ reg'.owner = reg.owner /\ (reg.cached = {} => reg'.cached = {})
      BY <1>7 DEF EnsureRestore
    <3>2. ~reg.known => reg.owner = None /\ reg.cached = {}
      OBVIOUS
    <3>3. reg' = [known |-> reg'.known, owner |-> reg'.owner, cached |-> reg'.cached]
      BY <2>2
    <3>4. QED
      BY <3>1, <3>2, <3>3
  <2>4. QED
    BY <2>1, <2>2, <2>3
<1>8. CASE Expire
  <2>1. reg' = reg /\ reg.known
    BY <1>8 DEF Expire
  <2>2. lease' = [lease EXCEPT !.expired = TRUE]
    BY <1>8 DEF Expire
  <2>3. QED
    BY <2>1, <2>2
<1>9. CASE Reap
  BY <1>9 DEF Reap
<1>10. CASE DeleteRevoke
  <2>1. reg' = reg
    BY <1>10 DEF DeleteRevoke
  <2>2. CASE lease.holder # None /\ ~lease.expired
    <3>1. reg.known /\ lease' = [lease EXCEPT !.revoked = TRUE]
      BY <2>2, <1>10 DEF DeleteRevoke
    <3>2. QED
      BY <2>1, <3>1
  <2>3. CASE ~(lease.holder # None /\ ~lease.expired)
    <3>1. lease' = NoLease
      BY <2>3, <1>10 DEF DeleteRevoke
    <3>2. QED
      BY <2>1, <3>1
  <2>4. QED
    BY <2>2, <2>3
<1>11. CASE DeletePreempt
  BY <1>11 DEF DeletePreempt
<1>12. CASE DeleteAcquire
  BY <1>12 DEF DeleteAcquire
<1>13. CASE DeleteTombstone
  <2>1. reg' = reg /\ (lease' = lease \/ lease' = NoLease)
    BY <1>13 DEF DeleteTombstone
  <2>2. CASE lease' = lease
    BY <2>1, <2>2
  <2>3. CASE lease' = NoLease
    BY <2>1, <2>3
  <2>4. QED
    BY <2>1, <2>2, <2>3
<1>14. CASE DeleteFinish
  BY <1>14 DEF DeleteFinish
<1>15. CASE EnsureRegister
  BY <1>15 DEF EnsureRegister
<1>16. CASE EnsureFound
  <2>1. CASE reg' = reg
    BY <2>1, <1>16 DEF EnsureFound
  <2>2. CASE reg' # reg
    <3>1. PICK m \in reg.cached, unasked \in SUBSET reg.cached :
            reg' = [reg EXCEPT !.owner = m, !.cached = (@ \cap live \cap copy) \cup unasked]
      BY <2>2, <1>16 DEF EnsureFound
    <3>2. reg.known
      BY <3>1
    <3>3. lease' = lease
      BY <1>16 DEF EnsureFound
    <3>4. QED
      BY <3>1, <3>2, <3>3
  <2>3. QED
    BY <2>1, <2>2
<1>17. CASE EnsureAdopt
  BY <1>17 DEF EnsureAdopt
<1>18. CASE RebuildOwner
  BY <1>18 DEF RebuildOwner
<1>19. CASE HubRestart
  BY <1>19 DEF HubRestart
<1>20. ASSUME NEW n \in Nodes,
              ReadManifest(n) \/ PutManifest(n) \/ Restore(n) \/ RenewalStops(n) \/ Discover(n)
      PROVE  UNCHANGED <<reg, lease>>
  BY <1>20 DEF ReadManifest, PutManifest, Restore, RenewalStops, Discover
<1>21. ASSUME NEW n \in Nodes,
              TrackDiscovered(n) \/ NodeDown(n) \/ NodeUp(n) \/ DeleteCall(n) \/ DeleteUntracked(n)
      PROVE  UNCHANGED <<reg, lease>>
  BY <1>21 DEF TrackDiscovered, NodeDown, NodeUp, DeleteCall, DeleteUntracked
<1>22. ASSUME DeleteCallLost \/ DeleteErase \/ EnsureCheck \/ EnsureFails
      PROVE  UNCHANGED <<reg, lease>>
  BY <1>22 DEF DeleteCallLost, DeleteErase, EnsureCheck, EnsureFails
<1>23. CASE UNCHANGED <<reg, lease>>
  BY <1>23
<1>24. QED
  BY <1>1, <1>2, <1>3, <1>4, <1>5, <1>6, <1>7, <1>8, <1>9, <1>10, <1>11, <1>12,
     <1>13, <1>14, <1>15, <1>16, <1>17, <1>18, <1>19, <1>20, <1>21, <1>22, <1>23
     DEF Next, NodeStep, DeleteStep, EnsureStep, vars

\* The operations of the nodes.
LEMMA OpsStep ==
  ASSUME HubInv, [Next]_vars
  PROVE  OpsTyped'
<1> USE HubAssumption DEF hubVars, nodeVars, obs, HubInv, TypeOK, OpsTyped, StoreTyped,
        IdleOp, NoManifest
<1>1. ASSUME NEW n \in Nodes, StartSync(n) PROVE OpsTyped'
  <2>1. taken + 1 \in 0..MaxSnaps /\ taken' = taken + 1
    BY <1>1 DEF StartSync
  <2>2. CASE op' = [op EXCEPT ![n] = SyncAt("leased", TRUE)]
    BY <2>1, <2>2 DEF SyncAt
  <2>3. CASE op' = [op EXCEPT ![n] = SyncAt("wait", FALSE)]
    BY <2>1, <2>3 DEF SyncAt
  <2>4. QED
    BY <2>2, <2>3, <1>1 DEF StartSync
<1>2. ASSUME NEW n \in Nodes, LeaseGranted(n) PROVE OpsTyped'
  <2>1. CASE op' = [op EXCEPT ![n] = IdleOp]
    BY <2>1
  <2>2. CASE op' = [op EXCEPT ![n].pc = "leased", ![n].renews = TRUE]
    BY <2>2
  <2>3. QED
    BY <2>1, <2>2, <1>2 DEF LeaseGranted
<1>3. ASSUME NEW n \in Nodes, ReadManifest(n) PROVE OpsTyped'
  BY <1>3 DEF ReadManifest
<1>4. ASSUME NEW n \in Nodes, PutManifest(n) PROVE OpsTyped'
  BY <1>4 DEF PutManifest
<1>5. ASSUME NEW n \in Nodes, Restore(n) PROVE OpsTyped'
  BY <1>5 DEF Restore
<1>6. ASSUME NEW n \in Nodes, ReleaseVolumeLease(n) PROVE OpsTyped'
  BY <1>6 DEF ReleaseVolumeLease
<1>7. ASSUME NEW n \in Nodes, RenewalStops(n) PROVE OpsTyped'
  BY <1>7 DEF RenewalStops
<1>8. ASSUME NEW n \in Nodes, NodeDown(n) PROVE OpsTyped'
  <2>1. op' = op \/ op' = [op EXCEPT ![n] = IdleOp]
    BY <1>8 DEF NodeDown
  <2>2. CASE op' = op
    BY <2>2
  <2>3. CASE op' = [op EXCEPT ![n] = IdleOp]
    BY <2>3
  <2>4. QED
    BY <2>1, <2>2, <2>3
<1>9. ASSUME NEW n \in Nodes, EnsureRestore(n) PROVE OpsTyped'
  BY <1>9 DEF EnsureRestore
<1>10. CASE HubRestart
  BY <1>10 DEF HubRestart
<1>11. ASSUME NEW n \in Nodes,
              VolumeGone(n) \/ Discover(n) \/ TrackDiscovered(n) \/ RebuildVisit(n) \/ TransferOwnership(n)
      PROVE  UNCHANGED <<op>>
  BY <1>11 DEF VolumeGone, Discover, TrackDiscovered, RebuildVisit, TransferOwnership
<1>12. ASSUME NEW n \in Nodes, NodeUp(n) \/ DeleteCall(n) \/ DeleteUntracked(n)
      PROVE  UNCHANGED <<op>>
  BY <1>12 DEF NodeUp, DeleteCall, DeleteUntracked
<1>13. ASSUME Expire \/ Reap \/ DeleteRevoke \/ DeletePreempt \/ DeleteAcquire
      PROVE  UNCHANGED <<op>>
  BY <1>13 DEF Expire, Reap, DeleteRevoke, DeletePreempt, DeleteAcquire
<1>14. ASSUME DeleteTombstone \/ DeleteCallLost \/ DeleteErase \/ DeleteFinish \/ EnsureCheck
      PROVE  UNCHANGED <<op>>
  BY <1>14 DEF DeleteTombstone, DeleteCallLost, DeleteErase, DeleteFinish, EnsureCheck
<1>15. ASSUME EnsureRegister \/ EnsureFound \/ EnsureAdopt \/ EnsureFails \/ RebuildOwner
      PROVE  UNCHANGED <<op>>
  BY <1>15 DEF EnsureRegister, EnsureFound, EnsureAdopt, EnsureFails, RebuildOwner
<1>16. CASE UNCHANGED <<op>>
  BY <1>16
<1>17. QED
  BY <1>1, <1>2, <1>3, <1>4, <1>5, <1>6, <1>7, <1>8, <1>9, <1>10, <1>11, <1>12,
     <1>13, <1>14, <1>15, <1>16
     DEF Next, NodeStep, DeleteStep, EnsureStep, vars

\* The manifest and what was acknowledged.
LEMMA StoreStep ==
  ASSUME HubInv, [Next]_vars
  PROVE  StoreTyped'
<1> USE HubAssumption DEF hubVars, nodeVars, obs, HubInv, TypeOK, StoreTyped, AppendsTaken,
        NoManifest
<1>1. ASSUME NEW n \in Nodes, StartSync(n) PROVE StoreTyped'
  BY <1>1 DEF StartSync
<1>2. ASSUME NEW n \in Nodes, PutManifest(n) PROVE StoreTyped'
  BY <1>2 DEF PutManifest
<1>3. CASE DeleteErase
  BY <1>3 DEF DeleteErase
<1>4. ASSUME NEW n \in Nodes,
             LeaseGranted(n) \/ ReadManifest(n) \/ Restore(n) \/ ReleaseVolumeLease(n) \/ RenewalStops(n)
      PROVE  UNCHANGED <<man, acked, taken>>
  BY <1>4 DEF LeaseGranted, ReadManifest, Restore, ReleaseVolumeLease, RenewalStops
<1>5. ASSUME NEW n \in Nodes,
             VolumeGone(n) \/ Discover(n) \/ TrackDiscovered(n) \/ RebuildVisit(n) \/ TransferOwnership(n)
      PROVE  UNCHANGED <<man, acked, taken>>
  BY <1>5 DEF VolumeGone, Discover, TrackDiscovered, RebuildVisit, TransferOwnership
<1>6. ASSUME NEW n \in Nodes,
             NodeDown(n) \/ NodeUp(n) \/ DeleteCall(n) \/ DeleteUntracked(n) \/ EnsureRestore(n)
      PROVE  UNCHANGED <<man, acked, taken>>
  BY <1>6 DEF NodeDown, NodeUp, DeleteCall, DeleteUntracked, EnsureRestore
<1>7. ASSUME Expire \/ Reap \/ DeleteRevoke \/ DeletePreempt \/ DeleteAcquire
      PROVE  UNCHANGED <<man, acked, taken>>
  BY <1>7 DEF Expire, Reap, DeleteRevoke, DeletePreempt, DeleteAcquire
<1>8. ASSUME DeleteTombstone \/ DeleteCallLost \/ DeleteFinish \/ EnsureCheck \/ EnsureRegister
      PROVE  UNCHANGED <<man, acked, taken>>
  BY <1>8 DEF DeleteTombstone, DeleteCallLost, DeleteFinish, EnsureCheck, EnsureRegister
<1>9. ASSUME EnsureFound \/ EnsureAdopt \/ EnsureFails \/ RebuildOwner \/ HubRestart
      PROVE  UNCHANGED <<man, acked, taken>>
  BY <1>9 DEF EnsureFound, EnsureAdopt, EnsureFails, RebuildOwner, HubRestart
<1>10. CASE UNCHANGED <<man, acked, taken>>
  BY <1>10
<1>11. QED
  BY <1>1, <1>2, <1>3, <1>4, <1>5, <1>6, <1>7, <1>8, <1>9, <1>10
     DEF Next, NodeStep, DeleteStep, EnsureStep, vars

\* What the nodes have.
LEMMA NodesStep ==
  ASSUME HubInv, [Next]_vars
  PROVE  NodesTyped'
<1> USE HubAssumption DEF hubVars, nodeVars, obs, HubInv, TypeOK, NodesTyped, RegistryTyped
<1>1. ASSUME NEW n \in Nodes, Restore(n) PROVE NodesTyped'
  BY <1>1 DEF Restore
<1>2. ASSUME NEW n \in Nodes, VolumeGone(n) PROVE NodesTyped'
  BY <1>2 DEF VolumeGone
<1>3. ASSUME NEW n \in Nodes, Discover(n) PROVE NodesTyped'
  BY <1>3 DEF Discover
<1>4. ASSUME NEW n \in Nodes, TrackDiscovered(n) PROVE NodesTyped'
  BY <1>4 DEF TrackDiscovered
<1>5. ASSUME NEW n \in Nodes, RebuildVisit(n) PROVE NodesTyped'
  BY <1>5 DEF RebuildVisit
<1>6. ASSUME NEW n \in Nodes, NodeDown(n) PROVE NodesTyped'
  BY <1>6 DEF NodeDown
<1>7. ASSUME NEW n \in Nodes, NodeUp(n) PROVE NodesTyped'
  BY <1>7 DEF NodeUp
<1>8. ASSUME NEW n \in Nodes, DeleteUntracked(n) PROVE NodesTyped'
  BY <1>8 DEF DeleteUntracked
<1>9. ASSUME NEW n \in Nodes, EnsureRestore(n) PROVE NodesTyped'
  BY <1>9 DEF EnsureRestore
<1>10. CASE DeleteErase
  BY <1>10 DEF DeleteErase
<1>11. CASE RebuildOwner
  BY <1>11 DEF RebuildOwner
<1>12. CASE HubRestart
  BY <1>12 DEF HubRestart
<1>13. ASSUME NEW n \in Nodes,
              StartSync(n) \/ LeaseGranted(n) \/ ReadManifest(n) \/ PutManifest(n) \/ ReleaseVolumeLease(n)
      PROVE  UNCHANGED <<live, copy, track, seen, scan>>
  BY <1>13 DEF StartSync, LeaseGranted, ReadManifest, PutManifest, ReleaseVolumeLease
<1>14. ASSUME NEW n \in Nodes, RenewalStops(n) \/ TransferOwnership(n) \/ DeleteCall(n)
      PROVE  UNCHANGED <<live, copy, track, seen, scan>>
  BY <1>14 DEF RenewalStops, TransferOwnership, DeleteCall
<1>15. ASSUME Expire \/ Reap \/ DeleteRevoke \/ DeletePreempt \/ DeleteAcquire
      PROVE  UNCHANGED <<live, copy, track, seen, scan>>
  BY <1>15 DEF Expire, Reap, DeleteRevoke, DeletePreempt, DeleteAcquire
<1>16. ASSUME DeleteTombstone \/ DeleteCallLost \/ DeleteFinish \/ EnsureCheck \/ EnsureRegister
      PROVE  UNCHANGED <<live, copy, track, seen, scan>>
  BY <1>16 DEF DeleteTombstone, DeleteCallLost, DeleteFinish, EnsureCheck, EnsureRegister
<1>17. ASSUME EnsureFound \/ EnsureAdopt \/ EnsureFails
      PROVE  UNCHANGED <<live, copy, track, seen, scan>>
  BY <1>17 DEF EnsureFound, EnsureAdopt, EnsureFails
<1>18. CASE UNCHANGED <<live, copy, track, seen, scan>>
  BY <1>18
<1>19. QED
  BY <1>1, <1>2, <1>3, <1>4, <1>5, <1>6, <1>7, <1>8, <1>9, <1>10, <1>11, <1>12,
     <1>13, <1>14, <1>15, <1>16, <1>17, <1>18
     DEF Next, NodeStep, DeleteStep, EnsureStep, vars

\* The calls of the Hub.
LEMMA CallsStep ==
  ASSUME HubInv, [Next]_vars
  PROVE  CallsTyped' /\ RestoresOnNode'
<1> USE HubAssumption DEF hubVars, nodeVars, obs, HubInv, TypeOK, CallsTyped,
        RestoresOnNode, RegistryTyped, IdleDel, IdleEns, Untracking
<1>1. ASSUME NEW n \in Nodes, Restore(n) PROVE CallsTyped' /\ RestoresOnNode'
  BY <1>1 DEF Restore
<1>2. ASSUME NEW n \in Nodes, DeleteCall(n) PROVE CallsTyped' /\ RestoresOnNode'
  BY <1>2 DEF DeleteCall
<1>3. ASSUME NEW n \in Nodes, DeleteUntracked(n) PROVE CallsTyped' /\ RestoresOnNode'
  BY <1>3 DEF DeleteUntracked
<1>4. ASSUME NEW n \in Nodes, EnsureRestore(n) PROVE CallsTyped' /\ RestoresOnNode'
  BY <1>4 DEF EnsureRestore
<1>5. CASE DeleteRevoke
  BY <1>5 DEF DeleteRevoke
<1>6. CASE DeletePreempt
  BY <1>6 DEF DeletePreempt
<1>7. CASE DeleteAcquire
  BY <1>7 DEF DeleteAcquire
<1>8. CASE DeleteTombstone
  BY <1>8 DEF DeleteTombstone
<1>9. CASE DeleteCallLost
  BY <1>9 DEF DeleteCallLost
<1>10. CASE DeleteErase
  BY <1>10 DEF DeleteErase
<1>11. CASE DeleteFinish
  BY <1>11 DEF DeleteFinish
<1>12. CASE EnsureCheck
  BY <1>12 DEF EnsureCheck
<1>13. CASE EnsureRegister
  BY <1>13 DEF EnsureRegister
<1>14. CASE EnsureFound
  BY <1>14 DEF EnsureFound
<1>15. CASE EnsureAdopt
  BY <1>15 DEF EnsureAdopt
<1>16. CASE EnsureFails
  BY <1>16 DEF EnsureFails
<1>17. CASE HubRestart
  BY <1>17 DEF HubRestart
<1>18. ASSUME NEW n \in Nodes,
              StartSync(n) \/ LeaseGranted(n) \/ ReadManifest(n) \/ PutManifest(n) \/ ReleaseVolumeLease(n)
      PROVE  UNCHANGED <<del, ens>>
  BY <1>18 DEF StartSync, LeaseGranted, ReadManifest, PutManifest, ReleaseVolumeLease
<1>19. ASSUME NEW n \in Nodes,
              RenewalStops(n) \/ VolumeGone(n) \/ Discover(n) \/ TrackDiscovered(n) \/ RebuildVisit(n)
      PROVE  UNCHANGED <<del, ens>>
  BY <1>19 DEF RenewalStops, VolumeGone, Discover, TrackDiscovered, RebuildVisit
<1>20. ASSUME NEW n \in Nodes, TransferOwnership(n) \/ NodeDown(n) \/ NodeUp(n)
      PROVE  UNCHANGED <<del, ens>>
  BY <1>20 DEF TransferOwnership, NodeDown, NodeUp
<1>21. ASSUME Expire \/ Reap \/ RebuildOwner
      PROVE  UNCHANGED <<del, ens>>
  BY <1>21 DEF Expire, Reap, RebuildOwner
<1>22. CASE UNCHANGED <<del, ens>>
  BY <1>22
<1>23. QED
  BY <1>1, <1>2, <1>3, <1>4, <1>5, <1>6, <1>7, <1>8, <1>9, <1>10, <1>11, <1>12,
     <1>13, <1>14, <1>15, <1>16, <1>17, <1>18, <1>19, <1>20, <1>21, <1>22
     DEF Next, NodeStep, DeleteStep, EnsureStep, vars

\* The counters and the flags.
LEMMA CountsStep ==
  ASSUME HubInv, [Next]_vars
  PROVE  CountsTyped'
<1> USE HubAssumption DEF hubVars, nodeVars, obs, HubInv, TypeOK, CountsTyped
<1>1. ASSUME NEW n \in Nodes, LeaseGranted(n) PROVE CountsTyped'
  BY <1>1 DEF LeaseGranted
<1>2. ASSUME NEW n \in Nodes, ReadManifest(n) PROVE CountsTyped'
  BY <1>2 DEF ReadManifest
<1>3. ASSUME NEW n \in Nodes, PutManifest(n) PROVE CountsTyped'
  BY <1>3 DEF PutManifest
<1>4. ASSUME NEW n \in Nodes, ReleaseVolumeLease(n) PROVE CountsTyped'
  BY <1>4 DEF ReleaseVolumeLease
<1>5. ASSUME NEW n \in Nodes, RenewalStops(n) PROVE CountsTyped'
  BY <1>5 DEF RenewalStops
<1>6. ASSUME NEW n \in Nodes, Discover(n) PROVE CountsTyped'
  BY <1>6 DEF Discover
<1>7. ASSUME NEW n \in Nodes, TransferOwnership(n) PROVE CountsTyped'
  BY <1>7 DEF TransferOwnership
<1>8. ASSUME NEW n \in Nodes, NodeDown(n) PROVE CountsTyped'
  BY <1>8 DEF NodeDown
<1>9. CASE DeleteRevoke
  BY <1>9 DEF DeleteRevoke
<1>10. CASE DeleteTombstone
  BY <1>10 DEF DeleteTombstone
<1>11. CASE DeleteErase
  BY <1>11 DEF DeleteErase
<1>12. CASE EnsureCheck
  BY <1>12 DEF EnsureCheck
<1>13. CASE HubRestart
  BY <1>13 DEF HubRestart
<1>14. ASSUME NEW n \in Nodes,
              StartSync(n) \/ Restore(n) \/ VolumeGone(n) \/ TrackDiscovered(n) \/ RebuildVisit(n)
      PROVE  UNCHANGED <<calls, faults>>
  BY <1>14 DEF StartSync, Restore, VolumeGone, TrackDiscovered, RebuildVisit
<1>15. ASSUME NEW n \in Nodes,
              NodeUp(n) \/ DeleteCall(n) \/ DeleteUntracked(n) \/ EnsureRestore(n)
      PROVE  UNCHANGED <<calls, faults>>
  BY <1>15 DEF NodeUp, DeleteCall, DeleteUntracked, EnsureRestore
<1>16. ASSUME Expire \/ Reap \/ DeletePreempt \/ DeleteAcquire \/ DeleteCallLost
      PROVE  UNCHANGED <<calls, faults>>
  BY <1>16 DEF Expire, Reap, DeletePreempt, DeleteAcquire, DeleteCallLost
<1>17. ASSUME DeleteFinish \/ EnsureRegister \/ EnsureFound \/ EnsureAdopt \/ EnsureFails
      PROVE  UNCHANGED <<calls, faults>>
  BY <1>17 DEF DeleteFinish, EnsureRegister, EnsureFound, EnsureAdopt, EnsureFails
<1>18. ASSUME RebuildOwner
      PROVE  UNCHANGED <<calls, faults>>
  BY <1>18 DEF RebuildOwner
<1>19. CASE UNCHANGED <<calls, faults>>
  BY <1>19
<1>20. QED
  BY <1>1, <1>2, <1>3, <1>4, <1>5, <1>6, <1>7, <1>8, <1>9, <1>10, <1>11, <1>12,
     <1>13, <1>14, <1>15, <1>16, <1>17, <1>18, <1>19
     DEF Next, NodeStep, DeleteStep, EnsureStep, vars

\* The flags.
LEMMA FlagsStep ==
  ASSUME HubInv, [Next]_vars
  PROVE  FlagsTyped'
<1> USE HubAssumption DEF hubVars, nodeVars, obs, HubInv, TypeOK, FlagsTyped
<1>1. ASSUME NEW n \in Nodes, ReadManifest(n) PROVE FlagsTyped'
  BY <1>1 DEF ReadManifest
<1>2. ASSUME NEW n \in Nodes, Discover(n) PROVE FlagsTyped'
  BY <1>2 DEF Discover
<1>3. CASE Expire
  BY <1>3 DEF Expire
<1>4. CASE Reap
  BY <1>4 DEF Reap
<1>5. CASE DeleteRevoke
  BY <1>5 DEF DeleteRevoke
<1>6. CASE DeletePreempt
  BY <1>6 DEF DeletePreempt
<1>7. CASE DeleteTombstone
  BY <1>7 DEF DeleteTombstone
<1>8. CASE DeleteFinish
  BY <1>8 DEF DeleteFinish
<1>9. CASE HubRestart
  BY <1>9 DEF HubRestart
<1>10. ASSUME NEW n \in Nodes,
              StartSync(n) \/ LeaseGranted(n) \/ PutManifest(n) \/ Restore(n) \/ ReleaseVolumeLease(n)
      PROVE  UNCHANGED <<tomb, deleted, excused>>
  BY <1>10 DEF StartSync, LeaseGranted, PutManifest, Restore, ReleaseVolumeLease
<1>11. ASSUME NEW n \in Nodes,
              RenewalStops(n) \/ VolumeGone(n) \/ TrackDiscovered(n) \/ RebuildVisit(n) \/ TransferOwnership(n)
      PROVE  UNCHANGED <<tomb, deleted, excused>>
  BY <1>11 DEF RenewalStops, VolumeGone, TrackDiscovered, RebuildVisit, TransferOwnership
<1>12. ASSUME NEW n \in Nodes,
              NodeDown(n) \/ NodeUp(n) \/ DeleteCall(n) \/ DeleteUntracked(n) \/ EnsureRestore(n)
      PROVE  UNCHANGED <<tomb, deleted, excused>>
  BY <1>12 DEF NodeDown, NodeUp, DeleteCall, DeleteUntracked, EnsureRestore
<1>13. ASSUME DeleteAcquire \/ DeleteCallLost \/ DeleteErase \/ EnsureCheck \/ EnsureRegister
      PROVE  UNCHANGED <<tomb, deleted, excused>>
  BY <1>13 DEF DeleteAcquire, DeleteCallLost, DeleteErase, EnsureCheck, EnsureRegister
<1>14. ASSUME EnsureFound \/ EnsureAdopt \/ EnsureFails \/ RebuildOwner
      PROVE  UNCHANGED <<tomb, deleted, excused>>
  BY <1>14 DEF EnsureFound, EnsureAdopt, EnsureFails, RebuildOwner
<1>15. CASE UNCHANGED <<tomb, deleted, excused>>
  BY <1>15
<1>16. QED
  BY <1>1, <1>2, <1>3, <1>4, <1>5, <1>6, <1>7, <1>8, <1>9, <1>10, <1>11, <1>12,
     <1>13, <1>14, <1>15
     DEF Next, NodeStep, DeleteStep, EnsureStep, vars

\* The snapshot an operation appends was taken.
LEMMA AppendsStep ==
  ASSUME HubInv, [Next]_vars
  PROVE  AppendsTaken'
<1> USE HubAssumption DEF hubVars, nodeVars, obs, HubInv, TypeOK, OpsTyped, StoreTyped,
        AppendsTaken, IdleOp, NoManifest
<1>1. ASSUME NEW n \in Nodes, StartSync(n) PROVE AppendsTaken'
  <2>1. taken + 1 \in 0..MaxSnaps /\ taken' = taken + 1
    BY <1>1 DEF StartSync
  <2>2. CASE op' = [op EXCEPT ![n] = SyncAt("leased", TRUE)]
    BY <2>1, <2>2 DEF SyncAt
  <2>3. CASE op' = [op EXCEPT ![n] = SyncAt("wait", FALSE)]
    BY <2>1, <2>3 DEF SyncAt
  <2>4. QED
    BY <2>2, <2>3, <1>1 DEF StartSync
<1>2. ASSUME NEW n \in Nodes, LeaseGranted(n) PROVE AppendsTaken'
  BY <1>2 DEF LeaseGranted
<1>3. ASSUME NEW n \in Nodes, ReadManifest(n) PROVE AppendsTaken'
  BY <1>3 DEF ReadManifest
<1>4. ASSUME NEW n \in Nodes, PutManifest(n) PROVE AppendsTaken'
  BY <1>4 DEF PutManifest
<1>5. ASSUME NEW n \in Nodes, Restore(n) PROVE AppendsTaken'
  BY <1>5 DEF Restore
<1>6. ASSUME NEW n \in Nodes, ReleaseVolumeLease(n) PROVE AppendsTaken'
  BY <1>6 DEF ReleaseVolumeLease
<1>7. ASSUME NEW n \in Nodes, RenewalStops(n) PROVE AppendsTaken'
  BY <1>7 DEF RenewalStops
<1>8. ASSUME NEW n \in Nodes, NodeDown(n) PROVE AppendsTaken'
  BY <1>8 DEF NodeDown
<1>9. ASSUME NEW n \in Nodes, EnsureRestore(n) PROVE AppendsTaken'
  BY <1>9 DEF EnsureRestore
<1>10. CASE HubRestart
  BY <1>10 DEF HubRestart
<1>11. ASSUME NEW n \in Nodes,
              VolumeGone(n) \/ Discover(n) \/ TrackDiscovered(n) \/ RebuildVisit(n) \/ TransferOwnership(n)
      PROVE  UNCHANGED <<op, taken>>
  BY <1>11 DEF VolumeGone, Discover, TrackDiscovered, RebuildVisit, TransferOwnership
<1>12. ASSUME NEW n \in Nodes, NodeUp(n) \/ DeleteCall(n) \/ DeleteUntracked(n)
      PROVE  UNCHANGED <<op, taken>>
  BY <1>12 DEF NodeUp, DeleteCall, DeleteUntracked
<1>13. ASSUME Expire \/ Reap \/ DeleteRevoke \/ DeletePreempt \/ DeleteAcquire
      PROVE  UNCHANGED <<op, taken>>
  BY <1>13 DEF Expire, Reap, DeleteRevoke, DeletePreempt, DeleteAcquire
<1>14. ASSUME DeleteTombstone \/ DeleteCallLost \/ DeleteErase \/ DeleteFinish \/ EnsureCheck
      PROVE  UNCHANGED <<op, taken>>
  BY <1>14 DEF DeleteTombstone, DeleteCallLost, DeleteErase, DeleteFinish, EnsureCheck
<1>15. ASSUME EnsureRegister \/ EnsureFound \/ EnsureAdopt \/ EnsureFails \/ RebuildOwner
      PROVE  UNCHANGED <<op, taken>>
  BY <1>15 DEF EnsureRegister, EnsureFound, EnsureAdopt, EnsureFails, RebuildOwner
<1>16. CASE UNCHANGED <<op, taken>>
  BY <1>16
<1>17. QED
  BY <1>1, <1>2, <1>3, <1>4, <1>5, <1>6, <1>7, <1>8, <1>9, <1>10, <1>11, <1>12,
     <1>13, <1>14, <1>15, <1>16
     DEF Next, NodeStep, DeleteStep, EnsureStep, vars

\* An operation starts with a lease that was free, and whatever takes the lease
\* from one that runs is excused.
LEMMA HolderStep ==
  ASSUME HubInv, [Next]_vars
  PROVE  RunnerHolds'
<1> USE HubAssumption DEF hubVars, nodeVars, obs, HubInv, TypeOK, OpsTyped, RegistryTyped,
        FlagsTyped, RunnerHolds, Running, HolderRuns, SyncAt, IdleOp, NoLease, Deleter,
        Free, Grant, Release
<1>1. ASSUME NEW n \in Nodes, StartSync(n) PROVE RunnerHolds'
  BY <1>1 DEF StartSync
<1>2. ASSUME NEW n \in Nodes, LeaseGranted(n) PROVE RunnerHolds'
  BY <1>2 DEF LeaseGranted
<1>3. ASSUME NEW n \in Nodes, ReadManifest(n) PROVE RunnerHolds'
  BY <1>3 DEF ReadManifest
<1>4. ASSUME NEW n \in Nodes, PutManifest(n) PROVE RunnerHolds'
  BY <1>4 DEF PutManifest
<1>5. ASSUME NEW n \in Nodes, Restore(n) PROVE RunnerHolds'
  BY <1>5 DEF Restore
<1>6. ASSUME NEW n \in Nodes, ReleaseVolumeLease(n) PROVE RunnerHolds'
  BY <1>6 DEF ReleaseVolumeLease
<1>7. ASSUME NEW n \in Nodes, RenewalStops(n) PROVE RunnerHolds'
  BY <1>7 DEF RenewalStops
<1>8. ASSUME NEW n \in Nodes, VolumeGone(n) PROVE RunnerHolds'
  BY <1>8 DEF VolumeGone
<1>9. ASSUME NEW n \in Nodes, TransferOwnership(n) PROVE RunnerHolds'
  BY <1>9 DEF TransferOwnership
<1>10. ASSUME NEW n \in Nodes, NodeDown(n) PROVE RunnerHolds'
  BY <1>10 DEF NodeDown
<1>11. ASSUME NEW n \in Nodes, EnsureRestore(n) PROVE RunnerHolds'
  BY <1>11 DEF EnsureRestore
<1>12. CASE Expire
  BY <1>12 DEF Expire
<1>13. CASE Reap
  BY <1>13 DEF Reap
<1>14. CASE DeleteRevoke
  BY <1>14 DEF DeleteRevoke
<1>15. CASE DeletePreempt
  BY <1>15 DEF DeletePreempt
<1>16. CASE DeleteAcquire
  BY <1>16 DEF DeleteAcquire
<1>17. CASE DeleteTombstone
  BY <1>17 DEF DeleteTombstone
<1>18. CASE DeleteFinish
  BY <1>18 DEF DeleteFinish
<1>19. CASE HubRestart
  BY <1>19 DEF HubRestart
<1>20. ASSUME NEW n \in Nodes,
              Discover(n) \/ TrackDiscovered(n) \/ RebuildVisit(n) \/ NodeUp(n) \/ DeleteCall(n)
      PROVE  UNCHANGED <<op, lease, excused>>
  BY <1>20 DEF Discover, TrackDiscovered, RebuildVisit, NodeUp, DeleteCall
<1>21. ASSUME NEW n \in Nodes, DeleteUntracked(n)
      PROVE  UNCHANGED <<op, lease, excused>>
  BY <1>21 DEF DeleteUntracked
<1>22. ASSUME DeleteCallLost \/ DeleteErase \/ EnsureCheck \/ EnsureRegister \/ EnsureFound
      PROVE  UNCHANGED <<op, lease, excused>>
  BY <1>22 DEF DeleteCallLost, DeleteErase, EnsureCheck, EnsureRegister, EnsureFound
<1>23. ASSUME EnsureAdopt \/ EnsureFails \/ RebuildOwner
      PROVE  UNCHANGED <<op, lease, excused>>
  BY <1>23 DEF EnsureAdopt, EnsureFails, RebuildOwner
<1>24. CASE UNCHANGED <<op, lease, excused>>
  BY <1>24
<1>25. QED
  BY <1>1, <1>2, <1>3, <1>4, <1>5, <1>6, <1>7, <1>8, <1>9, <1>10, <1>11, <1>12,
     <1>13, <1>14, <1>15, <1>16, <1>17, <1>18, <1>19, <1>20, <1>21, <1>22,
     <1>23, <1>24
     DEF Next, NodeStep, DeleteStep, EnsureStep, vars

\* The manifest that was read is still the stored one when it is written back.
LEMMA BaseStep ==
  ASSUME HubInv, [Next]_vars
  PROVE  BaseCurrent' /\ HistoryKept'
<1> USE HubAssumption DEF hubVars, nodeVars, obs, HubInv, TypeOK, OpsTyped, RegistryTyped,
        StoreTyped, FlagsTyped, AppendsTaken, RunnerHolds, BaseCurrent, HistoryKept,
        Running, SyncAt, IdleOp, NoLease, NoManifest, Deleter, Free, Grant, Release
<1>1. ASSUME NEW n \in Nodes, StartSync(n) PROVE BaseCurrent' /\ HistoryKept'
  BY <1>1 DEF StartSync
<1>2. ASSUME NEW n \in Nodes, LeaseGranted(n) PROVE BaseCurrent' /\ HistoryKept'
  BY <1>2 DEF LeaseGranted
<1>3. ASSUME NEW n \in Nodes, ReadManifest(n) PROVE BaseCurrent' /\ HistoryKept'
  BY <1>3 DEF ReadManifest
<1>4. ASSUME NEW n \in Nodes, PutManifest(n) PROVE BaseCurrent' /\ HistoryKept'
  BY <1>4 DEF PutManifest
<1>5. ASSUME NEW n \in Nodes, Restore(n) PROVE BaseCurrent' /\ HistoryKept'
  BY <1>5 DEF Restore
<1>6. ASSUME NEW n \in Nodes, ReleaseVolumeLease(n) PROVE BaseCurrent' /\ HistoryKept'
  BY <1>6 DEF ReleaseVolumeLease
<1>7. ASSUME NEW n \in Nodes, RenewalStops(n) PROVE BaseCurrent' /\ HistoryKept'
  BY <1>7 DEF RenewalStops
<1>8. ASSUME NEW n \in Nodes, VolumeGone(n) PROVE BaseCurrent' /\ HistoryKept'
  BY <1>8 DEF VolumeGone
<1>9. ASSUME NEW n \in Nodes, TransferOwnership(n) PROVE BaseCurrent' /\ HistoryKept'
  BY <1>9 DEF TransferOwnership
<1>10. ASSUME NEW n \in Nodes, NodeDown(n) PROVE BaseCurrent' /\ HistoryKept'
  BY <1>10 DEF NodeDown
<1>11. ASSUME NEW n \in Nodes, EnsureRestore(n) PROVE BaseCurrent' /\ HistoryKept'
  BY <1>11 DEF EnsureRestore
<1>12. CASE Expire
  BY <1>12 DEF Expire
<1>13. CASE Reap
  BY <1>13 DEF Reap
<1>14. CASE DeleteRevoke
  BY <1>14 DEF DeleteRevoke
<1>15. CASE DeletePreempt
  BY <1>15 DEF DeletePreempt
<1>16. CASE DeleteAcquire
  BY <1>16 DEF DeleteAcquire
<1>17. CASE DeleteTombstone
  BY <1>17 DEF DeleteTombstone
<1>18. CASE DeleteErase
  BY <1>18 DEF DeleteErase
<1>19. CASE DeleteFinish
  BY <1>19 DEF DeleteFinish
<1>20. CASE HubRestart
  BY <1>20 DEF HubRestart
<1>21. ASSUME NEW n \in Nodes,
              Discover(n) \/ TrackDiscovered(n) \/ RebuildVisit(n) \/ NodeUp(n) \/ DeleteCall(n)
      PROVE  UNCHANGED <<op, lease, man, acked, excused>>
  BY <1>21 DEF Discover, TrackDiscovered, RebuildVisit, NodeUp, DeleteCall
<1>22. ASSUME NEW n \in Nodes, DeleteUntracked(n)
      PROVE  UNCHANGED <<op, lease, man, acked, excused>>
  BY <1>22 DEF DeleteUntracked
<1>23. ASSUME DeleteCallLost \/ EnsureCheck \/ EnsureRegister \/ EnsureFound \/ EnsureAdopt
      PROVE  UNCHANGED <<op, lease, man, acked, excused>>
  BY <1>23 DEF DeleteCallLost, EnsureCheck, EnsureRegister, EnsureFound, EnsureAdopt
<1>24. ASSUME EnsureFails \/ RebuildOwner
      PROVE  UNCHANGED <<op, lease, man, acked, excused>>
  BY <1>24 DEF EnsureFails, RebuildOwner
<1>25. CASE UNCHANGED <<op, lease, man, acked, excused>>
  BY <1>25
<1>26. QED
  BY <1>1, <1>2, <1>3, <1>4, <1>5, <1>6, <1>7, <1>8, <1>9, <1>10, <1>11, <1>12,
     <1>13, <1>14, <1>15, <1>16, <1>17, <1>18, <1>19, <1>20, <1>21, <1>22,
     <1>23, <1>24, <1>25
     DEF Next, NodeStep, DeleteStep, EnsureStep, vars

\* Every step preserves the inductive invariant.
LEMMA HubStep == HubInv /\ [Next]_vars => HubInv'
<1> SUFFICES ASSUME HubInv, [Next]_vars PROVE HubInv'
  OBVIOUS
<1>1. TypeOK'
  BY RegistryStep, OpsStep, StoreStep, NodesStep, CallsStep, CountsStep, FlagsStep DEF TypeOK
<1>2. QED
  BY <1>1, AppendsStep, CallsStep, HolderStep, BaseStep DEF HubInv

\* The inductive invariant holds in every reachable state.
THEOREM HubInvariant == Spec => []HubInv
<1>1. QED
  BY HubInit, HubStep, PTL DEF Spec

\* Every variable keeps its type.
THEOREM HubTypeCorrect == Spec => []TypeOK
<1>1. HubInv => TypeOK
  BY DEF HubInv
<1>2. QED
  BY <1>1, HubInvariant, PTL

\* No snapshot whose append was acknowledged disappears from the manifest, short
\* of a deletion of the volume (handleAppendSnapshot, AcquireLease).
THEOREM AcknowledgedIsKept == Spec => []HistoryKept
<1>1. HubInv => HistoryKept
  BY DEF HubInv
<1>2. QED
  BY <1>1, HubInvariant, PTL
=============================================================================

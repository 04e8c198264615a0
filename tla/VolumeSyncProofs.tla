-------------------------- MODULE VolumeSyncProofs --------------------------
(***************************************************************************)
(* For any number of writes, snapshots, faults and disruptions, and any    *)
(* consolidation interval: until a discovery or a failed rename leaves a   *)
(* wrong tracked entry, every snapshot of the manifest restores exactly    *)
(* and the undo point of a restore is saved; and always the manifest is    *)
(* ordered.                                                                *)
(*                                                                         *)
(* The walks along parent pointers are recursive functions.  What they     *)
(* compute is proved by least counterexample: a parent is older than its   *)
(* snapshot, so the first snapshot that is wrong has a parent that is      *)
(* right.                                                                  *)
(***************************************************************************)
EXTENDS VolumeSync, FiniteSetTheorems, WellFoundedInduction, TLAPS

-----------------------------------------------------------------------------
(* Recursion along parents *)

\* A non-empty set of naturals has a least element.
LEMMA Least ==
  ASSUME NEW T \in SUBSET Nat, T # {}
  PROVE  \E x \in T : \A y \in T : x <= y
<1>1. PICK x \in T : \A y \in T : ~(<<y, x>> \in OpToRel(<, Nat))
  BY WFMin, NatLessThanWellFounded
<1>2. \A y \in T : ~(y < x)
  BY <1>1 DEF OpToRel
<1>3. QED
  BY <1>2

\* f solves the recursion: its value at h in K is a step from its value at the
\* parent of h, elsewhere it is given.
Solves(f, N, K, par, base, step) ==
  \A h \in -1..N : f[h] = IF h \in K THEN step[h][f[par[h]]] ELSE base[h]
Solvable(N, K, V, par, base, step) ==
  \E f \in [-1..N -> V] : Solves(f, N, K, par, base, step)

\* A function over snapshots that refers to itself at a snapshot's parent
\* only is well defined.
LEMMA Recursion ==
  ASSUME NEW N \in Nat, NEW K \in SUBSET (1..N), NEW V,
         NEW par \in [K -> -1..N], \A h \in K : par[h] < h,
         NEW base \in [-1..N -> V], NEW step \in [K -> [V -> V]]
  PROVE  Solvable(N, K, V, par, base, step)
<1> DEFINE P(n) == \E f \in [-1..N -> V] : \A h \in -1..N : h <= n =>
                      f[h] = IF h \in K THEN step[h][f[par[h]]] ELSE base[h]
           T == {n \in 0..N : ~P(n)}
<1>1. P(0)
  <2>1. \A h \in -1..N : h <= 0 => h \notin K
    OBVIOUS
  <2>2. QED
    BY <2>1
<1> HIDE DEF P
<1>2. T = {}
  <2> SUFFICES ASSUME T # {} PROVE FALSE
    OBVIOUS
  <2>1. T \in SUBSET Nat
    OBVIOUS
  <2>2. PICK n \in T : \A y \in T : n <= y
    BY <2>1, Least
  <2>3. n \in 1..N /\ ~P(n)
    BY <1>1
  <2>4. n - 1 \in 0..N /\ n - 1 \notin T
    BY <2>2, <2>3
  <2>5. P(n - 1)
    BY <2>4
  <2>6. PICK f \in [-1..N -> V] : \A h \in -1..N : h <= n - 1 =>
               f[h] = IF h \in K THEN step[h][f[par[h]]] ELSE base[h]
    BY <2>5 DEF P
  <2> DEFINE v == IF n \in K THEN step[n][f[par[n]]] ELSE base[n]
             g == [f EXCEPT ![n] = v]
  <2>7. v \in V
    BY <2>3
  <2>8. g \in [-1..N -> V]
    BY <2>7
  <2>9. ASSUME NEW h \in -1..N, h <= n
        PROVE  g[h] = IF h \in K THEN step[h][g[par[h]]] ELSE base[h]
    <3>1. h \in K => par[h] \in -1..N /\ par[h] < n /\ g[par[h]] = f[par[h]]
      BY <2>9, <2>3
    <3>2. CASE h = n
      BY <3>1, <3>2, <2>3
    <3>3. CASE h # n
      <4>1. h <= n - 1 /\ g[h] = f[h]
        BY <3>3, <2>9, <2>3
      <4>2. QED
        BY <4>1, <2>6, <3>1
    <3>4. QED
      BY <3>2, <3>3
  <2>10. P(n)
    BY <2>8, <2>9 DEF P
  <2>11. QED
    BY <2>10, <2>3
<1>3. N \in 0..N /\ P(N)
  BY <1>2
<1>4. QED
  BY <1>3 DEF P, Solvable, Solves

-----------------------------------------------------------------------------
(* Subvolumes and hashes *)

\* The names of subvolumes are different from each other.
LEMMA PathsDiffer ==
  /\ \A h : Layer(h) # Pending /\ Layer(h) # Template /\ Layer(h) # NoPath
  /\ \A h : Consol(h) # Pending /\ Consol(h) # Template /\ Consol(h) # NoPath
  /\ Pending # Template /\ Pending # NoPath /\ Template # NoPath
  /\ \A h, k : Layer(h) # Consol(k)
  /\ \A h, k : (Layer(h) = Layer(k) \/ Consol(h) = Consol(k)) => h = k
  /\ \A h : Layer(h).of = h
BY DEF Layer, Consol, Pending, Template, NoPath, Path

\* The hashes of the manifest, and every parent in it.
LEMMA Hashed ==
  ASSUME Numbered, ParentsOlder
  PROVE  /\ Refs = -1..MaxSnapshots /\ DOMAIN snaps \in SUBSET (1..MaxSnapshots)
         /\ \A h \in DOMAIN snaps :
               /\ h \in Refs /\ h \in Int
               /\ snaps[h].parent \in DOMAIN snaps \cup {Base, NoHash}
               /\ snaps[h].parent \in Refs /\ snaps[h].parent < h
         /\ head \in Refs
<1>1. DOMAIN snaps \in SUBSET (1..MaxSnapshots) /\ Refs = -1..MaxSnapshots
  BY VolumeSyncAssumption DEF Numbered, Refs, Hashes, Base, NoHash
<1>2. ASSUME NEW h \in DOMAIN snaps
      PROVE  snaps[h].parent \in DOMAIN snaps \cup {Base, NoHash} /\ snaps[h].parent < h
  BY DEF ParentsOlder, Recorded
<1>3. QED
  BY <1>1, <1>2 DEF ParentsOlder, Refs, Hashes

\* The walk to the oldest ancestor, unfolded once.
LEMMA AncestryUnfolds ==
  ASSUME Numbered, ParentsOlder
  PROVE  Ancestry = [h \in Refs |-> IF h \notin DOMAIN snaps THEN <<>>
                                    ELSE Append(Ancestry[snaps[h].parent], h)]
<1> DEFINE K == DOMAIN snaps
           par == [h \in K |-> snaps[h].parent]
           base == [h \in -1..MaxSnapshots |-> <<>>]
           step == [h \in K |-> [v \in Seq(K) |-> Append(v, h)]]
<1>1. /\ K \in SUBSET (1..MaxSnapshots) /\ par \in [K -> -1..MaxSnapshots]
      /\ \A h \in K : par[h] < h
  BY Hashed
<1>2. base \in [-1..MaxSnapshots -> Seq(K)] /\ step \in [K -> [Seq(K) -> Seq(K)]]
  OBVIOUS
<1> HIDE DEF base, step, par
<1>3. PICK f \in [-1..MaxSnapshots -> Seq(K)] : Solves(f, MaxSnapshots, K, par, base, step)
  <2> HIDE DEF K
  <2>1. MaxSnapshots \in Nat
    BY VolumeSyncAssumption
  <2>2. Solvable(MaxSnapshots, K, Seq(K), par, base, step)
    BY <2>1, <1>1, <1>2, Recursion
  <2>3. QED
    BY <2>2 DEF Solvable
<1>4. f = [h \in Refs |-> IF h \notin K THEN <<>> ELSE Append(f[snaps[h].parent], h)]
  <2>1. ASSUME NEW h \in K PROVE f[h] = Append(f[snaps[h].parent], h)
    <3>1. h \in -1..MaxSnapshots /\ par[h] \in -1..MaxSnapshots /\ f[par[h]] \in Seq(K)
      BY <1>1
    <3>2. QED
      BY <3>1, <1>3 DEF Solves, step, par
  <2>2. ASSUME NEW h \in -1..MaxSnapshots, h \notin K PROVE f[h] = <<>>
    BY <2>2, <1>3 DEF Solves, base
  <2>3. QED
    BY <2>1, <2>2, Hashed
<1>5. QED
  BY <1>4 DEF Ancestry

\* The layers to download, unfolded once.
LEMMA MissingUnfolds ==
  ASSUME Numbered, ParentsOlder
  PROVE  Missing = [h \in Refs |-> IF h \notin DOMAIN snaps \/ OnDisk(Layer(h)) THEN {}
                                   ELSE {h} \cup Missing[snaps[h].parent]]
<1> DEFINE K == DOMAIN snaps \ {h \in DOMAIN snaps : OnDisk(Layer(h))}
           V == SUBSET K
           par == [h \in K |-> snaps[h].parent]
           base == [h \in -1..MaxSnapshots |-> {}]
           step == [h \in K |-> [v \in V |-> {h} \cup v]]
<1>1. /\ K \in SUBSET (1..MaxSnapshots) /\ par \in [K -> -1..MaxSnapshots]
      /\ \A h \in K : par[h] < h
  BY Hashed
<1>2. base \in [-1..MaxSnapshots -> V] /\ step \in [K -> [V -> V]]
  OBVIOUS
<1> HIDE DEF base, step, par, V
<1>3. PICK f \in [-1..MaxSnapshots -> V] : Solves(f, MaxSnapshots, K, par, base, step)
  <2> HIDE DEF K
  <2>1. MaxSnapshots \in Nat
    BY VolumeSyncAssumption
  <2>2. Solvable(MaxSnapshots, K, V, par, base, step)
    BY <2>1, <1>1, <1>2, Recursion
  <2>3. QED
    BY <2>2 DEF Solvable
<1>4. f = [h \in Refs |-> IF h \notin DOMAIN snaps \/ OnDisk(Layer(h)) THEN {}
                          ELSE {h} \cup f[snaps[h].parent]]
  <2>1. ASSUME NEW h \in K PROVE f[h] = {h} \cup f[snaps[h].parent]
    <3>1. h \in -1..MaxSnapshots /\ par[h] \in -1..MaxSnapshots /\ f[par[h]] \in V
      BY <1>1
    <3>2. QED
      BY <3>1, <1>3 DEF Solves, step, par
  <2>2. ASSUME NEW h \in -1..MaxSnapshots, h \notin K PROVE f[h] = {}
    BY <2>2, <1>3 DEF Solves, base
  <2>3. QED
    BY <2>1, <2>2, Hashed
<1>5. QED
  BY <1>4 DEF Missing

\* What a download gives, unfolded once.
LEMMA DownloadedUnfolds ==
  ASSUME Numbered, ParentsOlder, NEW d
  PROVE  Downloaded(d) =
            [h \in Refs |->
               IF h = Base THEN 0
               ELSE IF h \notin DOMAIN snaps THEN NoVolume
               ELSE IF Layer(h) \in DOMAIN d.holds THEN d.holds[Layer(h)]
               ELSE Receive(snaps[h], Downloaded(d)[snaps[h].parent])]
<1> DEFINE K == {h \in DOMAIN snaps : Layer(h) \notin DOMAIN d.holds}
           V == {0, NoVolume, Garbage} \cup {snaps[h].holds : h \in DOMAIN snaps}
                   \cup {d.holds[p] : p \in DOMAIN d.holds}
           par == [h \in K |-> snaps[h].parent]
           base == [h \in -1..MaxSnapshots |->
                      IF h = Base THEN 0
                      ELSE IF h \notin DOMAIN snaps THEN NoVolume
                      ELSE IF Layer(h) \in DOMAIN d.holds THEN d.holds[Layer(h)] ELSE 0]
           step == [h \in K |-> [v \in V |-> Receive(snaps[h], v)]]
<1>1. /\ K \in SUBSET (1..MaxSnapshots) /\ par \in [K -> -1..MaxSnapshots]
      /\ \A h \in K : par[h] < h
  BY Hashed
<1>2. base \in [-1..MaxSnapshots -> V] /\ step \in [K -> [V -> V]]
  BY DEF Receive
<1> HIDE DEF base, step, par, V
<1>3. PICK f \in [-1..MaxSnapshots -> V] : Solves(f, MaxSnapshots, K, par, base, step)
  <2> HIDE DEF K
  <2>1. MaxSnapshots \in Nat
    BY VolumeSyncAssumption
  <2>2. Solvable(MaxSnapshots, K, V, par, base, step)
    BY <2>1, <1>1, <1>2, Recursion
  <2>3. QED
    BY <2>2 DEF Solvable
<1>4. f = [h \in Refs |->
               IF h = Base THEN 0
               ELSE IF h \notin DOMAIN snaps THEN NoVolume
               ELSE IF Layer(h) \in DOMAIN d.holds THEN d.holds[Layer(h)]
               ELSE Receive(snaps[h], f[snaps[h].parent])]
  <2>1. ASSUME NEW h \in K PROVE f[h] = Receive(snaps[h], f[snaps[h].parent])
    <3>1. h \in -1..MaxSnapshots /\ par[h] \in -1..MaxSnapshots /\ f[par[h]] \in V
      BY <1>1
    <3>2. QED
      BY <3>1, <1>3 DEF Solves, step, par
  <2>2. ASSUME NEW h \in -1..MaxSnapshots, h \notin K
        PROVE  f[h] = IF h = Base THEN 0
                      ELSE IF h \notin DOMAIN snaps THEN NoVolume
                      ELSE d.holds[Layer(h)]
    BY <2>2, <1>3 DEF Solves, base
  <2>3. \A h \in K : h # Base
    BY <1>1 DEF Base
  <2>4. QED
    BY <2>1, <2>2, <2>3, Hashed
<1>5. QED
  BY <1>4 DEF Downloaded

-----------------------------------------------------------------------------
(* What the walks compute *)

\* If every wrong snapshot has an older wrong one, none is wrong.
LEMMA OldestFirst ==
  ASSUME Numbered, ParentsOlder, NEW B \in SUBSET DOMAIN snaps,
         \A h \in B : \E k \in B : k < h
  PROVE  B = {}
<1> SUFFICES ASSUME B # {} PROVE FALSE
  OBVIOUS
<1>1. B \in SUBSET Nat
  BY Hashed
<1>2. PICK x \in B : \A y \in B : x <= y
  BY <1>1, Least
<1>3. QED
  BY <1>1, <1>2

\* A walk is a sequence of snapshots of the manifest.
LEMMA AncestryTyped ==
  ASSUME Numbered, ParentsOlder
  PROVE  \A h \in Refs : Ancestry[h] \in Seq(DOMAIN snaps)
<1> DEFINE B == {h \in DOMAIN snaps : Ancestry[h] \notin Seq(DOMAIN snaps)}
<1>0. /\ <<>> \in Seq(DOMAIN snaps)
      /\ \A s \in Seq(DOMAIN snaps), x \in DOMAIN snaps : Append(s, x) \in Seq(DOMAIN snaps)
  OBVIOUS
<1>1. \A h \in Refs : h \notin DOMAIN snaps => Ancestry[h] = <<>>
  BY AncestryUnfolds
<1>2. \A h \in DOMAIN snaps : Ancestry[h] = Append(Ancestry[snaps[h].parent], h)
  BY AncestryUnfolds, Hashed
<1>3. ASSUME NEW h \in B PROVE \E k \in B : k < h
  <2>1. snaps[h].parent \in Refs /\ snaps[h].parent < h
    BY Hashed
  <2>2. Ancestry[snaps[h].parent] \notin Seq(DOMAIN snaps)
    BY <1>0, <1>2
  <2>3. snaps[h].parent \in B
    BY <1>0, <1>1, <2>1, <2>2
  <2>4. QED
    BY <2>1, <2>3
<1>4. B = {}
  BY <1>3, OldestFirst
<1>5. QED
  BY <1>0, <1>1, <1>4

\* Only layers that are not on disk have to be downloaded.
LEMMA MissingAbsent ==
  ASSUME Numbered, ParentsOlder
  PROVE  \A h \in Refs : \A k \in Missing[h] : k \in DOMAIN snaps /\ ~OnDisk(Layer(k))
<1> DEFINE A == {k \in DOMAIN snaps : ~OnDisk(Layer(k))}
           B == {h \in DOMAIN snaps : ~(Missing[h] \subseteq A)}
<1>1. \A h \in Refs : h \notin A => Missing[h] = {}
  BY MissingUnfolds
<1>2. \A h \in A : Missing[h] = {h} \cup Missing[snaps[h].parent]
  BY MissingUnfolds, Hashed
<1>3. ASSUME NEW h \in B PROVE \E k \in B : k < h
  <2>1. h \in Refs /\ snaps[h].parent \in Refs /\ snaps[h].parent < h
    BY Hashed
  <2>2. h \in A
    BY <1>1, <2>1
  <2>3. ~(Missing[snaps[h].parent] \subseteq A)
    BY <1>2, <2>2
  <2>4. snaps[h].parent \in B
    BY <1>1, <2>1, <2>3
  <2>5. QED
    BY <2>1, <2>4
<1>4. B = {}
  BY <1>3, OldestFirst
<1>5. QED
  BY <1>1, <1>4

\* A download gives the data the snapshot was taken of, on every node whose
\* layers hold theirs.
LEMMA DownloadExact ==
  ASSUME Numbered, ManifestSound, NEW d,
         \A h \in DOMAIN snaps : Layer(h) \in DOMAIN d.holds =>
                                    d.holds[Layer(h)] = snaps[h].holds
  PROVE  /\ \A h \in DOMAIN snaps : Downloaded(d)[h] = snaps[h].holds
         /\ \A h \in DOMAIN snaps :
               Receive(snaps[h], Downloaded(d)[snaps[h].parent]) = snaps[h].holds
<1> DEFINE B == {h \in DOMAIN snaps : Downloaded(d)[h] # snaps[h].holds}
<1>o. ParentsOlder
  BY DEF ManifestSound
<1>0. \A h \in DOMAIN snaps : h \in Refs /\ h # Base
  BY <1>o, Hashed DEF Base
<1>1. Downloaded(d)[Base] = 0
  BY <1>o, DownloadedUnfolds DEF Refs
<1>2. ASSUME NEW h \in DOMAIN snaps, Layer(h) \notin DOMAIN d.holds
      PROVE  Downloaded(d)[h] = Receive(snaps[h], Downloaded(d)[snaps[h].parent])
  BY <1>o, <1>0, <1>2, DownloadedUnfolds
<1>3. ASSUME NEW h \in DOMAIN snaps, Layer(h) \in DOMAIN d.holds
      PROVE  Downloaded(d)[h] = d.holds[Layer(h)]
  BY <1>o, <1>0, <1>3, DownloadedUnfolds
<1>4. ASSUME NEW h \in DOMAIN snaps, snaps[h].parent \notin B
      PROVE  Receive(snaps[h], Downloaded(d)[snaps[h].parent]) = snaps[h].holds
  BY <1>1, <1>4 DEF ManifestSound, Based, Receive
<1>5. ASSUME NEW h \in B PROVE \E k \in B : k < h
  <2>1. snaps[h].parent \in B
    BY <1>2, <1>3, <1>4
  <2>2. QED
    BY <1>o, <2>1, Hashed
<1>6. B = {}
  BY <1>o, <1>5, OldestFirst
<1>7. QED
  BY <1>4, <1>6

\* The greatest of some numbers is one of them.
LEMMA MaxIn ==
  ASSUME NEW n \in Nat, NEW S \in SUBSET (0..n), S # {}
  PROVE  Max(S) \in S
<1> DEFINE T == {n - x : x \in S}
<1>1. \A x \in S : n - x \in Nat
  OBVIOUS
<1>2. PICK y \in T : \A z \in T : y <= z
  <2>1. T \in SUBSET Nat /\ T # {}
    BY <1>1
  <2>2. QED
    BY <2>1, Least
<1>3. PICK x \in S : y = n - x
  OBVIOUS
<1>4. \A z \in S : x >= z
  BY <1>2, <1>3
<1>5. QED
  BY <1>4 DEF Max

\* The latest consolidation is a snapshot of the manifest.
LEMMA LatestTyped ==
  ASSUME Numbered, ParentsOlder
  PROVE  LatestConsolidation \in DOMAIN snaps \cup {NoHash}
<1> DEFINE chain == Ancestry[head]
           S == {0} \cup {i \in DOMAIN chain : snaps[chain[i]].consolidation}
<1>1. chain \in Seq(DOMAIN snaps)
  BY Hashed, AncestryTyped
<1>2. Len(chain) \in Nat /\ DOMAIN chain = 1..Len(chain)
  BY <1>1
<1>3. \A i \in DOMAIN chain : chain[i] \in DOMAIN snaps
  BY <1>1
<1> HIDE DEF chain
<1>4. S \in SUBSET (0..Len(chain)) /\ S # {}
  BY <1>2
<1>5. Max(S) \in S
  BY <1>2, <1>4, MaxIn
<1>6. LastConsolidation(chain) = Max(S)
  BY DEF LastConsolidation
<1>7. Max(S) = 0 \/ chain[Max(S)] \in DOMAIN snaps
  BY <1>3, <1>5
<1>8. QED
  BY <1>6, <1>7 DEF LatestConsolidation, chain

\* What a restore fetches is in the manifest and not on disk.
LEMMA FetchAbsent ==
  ASSUME Numbered, ParentsOlder, NEW h \in Refs
  PROVE  \A k \in ToFetch(h) : k \in DOMAIN snaps /\ ~OnDisk(Layer(k))
<1>1. Ancestry[h] \in Seq(DOMAIN snaps)
  BY AncestryTyped
<1>2. \A i \in DOMAIN Ancestry[h] : Ancestry[h][i] \in DOMAIN snaps
  BY <1>1
<1>3. \A k \in BuildRestoreChain(h) : k \in Refs
  BY <1>2, Hashed DEF BuildRestoreChain
<1>4. QED
  BY <1>3, MissingAbsent DEF ToFetch

-----------------------------------------------------------------------------
(* Operations on the disk *)

\* What subvolumes there are, and what they hold, after a deletion.
LEMMA WithoutHolds ==
  ASSUME NEW d, NEW S
  PROVE  /\ DOMAIN Without(d, S).holds = DOMAIN d.holds \ S
         /\ \A r \in DOMAIN d.holds \ S : Without(d, S).holds[r] = d.holds[r]
BY DEF Without

\* The same after the creation of one,
LEMMA WithHolds ==
  ASSUME NEW d, NEW p, NEW c
  PROVE  /\ DOMAIN With(d, p, c).holds = DOMAIN d.holds \cup {p}
         /\ With(d, p, c).holds[p] = c
         /\ \A r \in DOMAIN d.holds \ {p} : With(d, p, c).holds[r] = d.holds[r]
BY DEF With

\* after downloads,
LEMMA FetchedHolds ==
  ASSUME NEW d, NEW S
  PROVE  /\ DOMAIN Fetched(d, S).holds = DOMAIN d.holds \cup Layers(S)
         /\ \A r \in DOMAIN d.holds : Fetched(d, S).holds[r] = d.holds[r]
         /\ \A h \in S : Layer(h) \notin DOMAIN d.holds =>
                             Fetched(d, S).holds[Layer(h)] = Downloaded(disk)[h]
<1>1. \A h : Layer(h).of = h
  BY PathsDiffer
<1>2. QED
  BY <1>1 DEF Fetched, Layers

\* and after the pending snapshot is renamed.
LEMMA RenamedHolds ==
  ASSUME NEW d, NEW q, Pending \in DOMAIN d.holds, q # Pending
  PROVE  /\ DOMAIN Renamed(d, Pending, q).holds = (DOMAIN d.holds \ {Pending}) \cup {q}
         /\ Renamed(d, Pending, q).holds[q] = d.holds[Pending]
         /\ \A r \in DOMAIN d.holds \ {Pending, q} :
               Renamed(d, Pending, q).holds[r] = d.holds[r]
BY DEF Renamed, Without

\* Deleting subvolumes, and taking a new pending snapshot.
LEMMA HoldsNamedKept ==
  ASSUME NEW d, NEW S, NEW c, HoldsNamed(d)
  PROVE  HoldsNamed(Without(d, S)) /\ HoldsNamed(With(d, Pending, c))
<1>1. HoldsNamed(Without(d, S))
  BY DEF HoldsNamed, Without
<1>2. HoldsNamed(With(d, Pending, c))
  BY DEF HoldsNamed, With
<1>3. QED
  BY <1>1, <1>2

\* Downloading layers, and one subvolume more.
LEMMA HoldsNamedFetched ==
  ASSUME NEW d, NEW S \in SUBSET DOMAIN snaps, HoldsNamed(d), HoldsNamed(disk),
         Numbered, ManifestSound
  PROVE  HoldsNamed(Fetched(d, S))
<1>1. \A h \in DOMAIN snaps : Layer(h) \in DOMAIN disk.holds =>
                                  disk.holds[Layer(h)] = snaps[h].holds
  BY PathsDiffer DEF HoldsNamed, Names
<1>2. \A h \in DOMAIN snaps : Downloaded(disk)[h] = snaps[h].holds
  BY <1>1, DownloadExact
<1> SUFFICES ASSUME NEW p \in DOMAIN Fetched(d, S).holds
             PROVE  p = Pending \/ \E h \in DOMAIN snaps :
                       Names(p, h) /\ Fetched(d, S).holds[p] = snaps[h].holds
  BY DEF HoldsNamed
<1>3. CASE p \in DOMAIN d.holds
  BY <1>3, FetchedHolds DEF HoldsNamed
<1>4. CASE p \notin DOMAIN d.holds
  <2>1. PICK h \in S : p = Layer(h)
    BY <1>4, FetchedHolds DEF Layers
  <2>2. Fetched(d, S).holds[p] = snaps[h].holds
    BY <1>2, <1>4, <2>1, FetchedHolds
  <2>3. QED
    BY <2>1, <2>2 DEF Names
<1>5. QED
  BY <1>3, <1>4

\* Every snapshot of a sound manifest restores exactly, on a sound disk.
LEMMA SoundIsExact == Sound => RestoreExact
<1> SUFFICES ASSUME Sound PROVE RestoreExact
  OBVIOUS
<1>1. Numbered /\ ManifestSound /\ HoldsNamed(disk)
  BY DEF Sound, DiskSound
<1>2. \A h \in DOMAIN snaps : Layer(h) \in DOMAIN disk.holds =>
                                  disk.holds[Layer(h)] = snaps[h].holds
  BY <1>1, PathsDiffer DEF HoldsNamed, Names
<1>3. \A h \in DOMAIN snaps : Downloaded(disk)[h] = snaps[h].holds
  BY <1>1, <1>2, DownloadExact
<1>4. DOMAIN EmptyDisk.holds = {}
  BY DEF EmptyDisk
<1>5. \A h \in DOMAIN snaps : Downloaded(EmptyDisk)[h] = snaps[h].holds
  BY <1>1, <1>4, DownloadExact
<1>6. QED
  BY <1>3, <1>5 DEF RestoreExact

\* The daemon starts from a sound state.
LEMMA SoundInit == Init => Sound
<1> SUFFICES ASSUME Init PROVE Sound
  OBVIOUS
<1>1. DOMAIN snaps = {} /\ DOMAIN disk.holds = {} /\ op.pc = "idle"
  BY DEF Init, EmptyDisk, Idle
<1>2. Numbered
  <2>1. 0 \in 0..MaxSnapshots /\ DOMAIN snaps = 1..0
    BY <1>1, VolumeSyncAssumption
  <2>2. QED
    BY <1>1, <2>1 DEF Numbered
<1>3. ManifestSound /\ DiskSound /\ SyncSound /\ RestoreSound
  BY <1>1 DEF Init, ManifestSound, ParentsOlder, DiskSound, HoldsNamed, SyncSound,
     RestoreSound, Base
<1>4. TrackingSound
  BY DEF Init, TrackingSound, Tracked, TrackedVolume, Refs, Paths, Describes, Labelled,
     CleanIsSaved
<1>5. QED
  BY <1>2, <1>3, <1>4 DEF Sound

-----------------------------------------------------------------------------
(* The steps that do not grow the manifest *)

\* The manifest stays sound when it does not change.
LEMMA ManifestKept ==
  ASSUME Sound, UNCHANGED manifest
  PROVE  /\ ManifestSound'
         /\ op'.pc \notin {"snapped", "sent"} => Numbered'
         /\ (op.pc \in {"snapped", "sent"} \/ op'.pc = op.pc) => Numbered'
<1>1. snaps' = snaps /\ head' = head
  BY DEF manifest
<1>2. ManifestSound'
  BY <1>1 DEF Sound, ManifestSound, ParentsOlder, Based, Recorded
<1>3. Numbered
  BY DEF Sound
<1>4. QED
  BY <1>1, <1>2, <1>3 DEF Numbered

\* Nothing is asked of an operation that is over or only moves the volume.
LEMMA OpOver ==
  ASSUME op'.pc \notin {"snapped", "sent", "recorded", "replace", "finish"}
  PROVE  SyncSound' /\ RestoreSound'
BY DEF SyncSound, RestoreSound

\* Nothing is asked of a volume that is not tracked.
LEMMA Untracked ==
  ASSUME tv' = NoTv
  PROVE  TrackingSound'
BY DEF TrackingSound, NoTv, TrackedVolume, Refs, Paths, Describes, Labelled, CleanIsSaved

\* A tracked entry that does not change, or becomes dirty, describes the same
\* subvolumes.
LEMMA TrackingKept ==
  ASSUME Sound, UNCHANGED snaps,
         tv' = tv \/ tv' = [tv EXCEPT !.dirty = TRUE]
  PROVE  tv' \in TrackedVolume /\ Describes(tv)'
<1>1. tv \in TrackedVolume /\ Describes(tv)
  BY DEF Sound, TrackingSound
<1>2. /\ tv' \in TrackedVolume /\ tv'.snap = tv.snap /\ tv'.layer = tv.layer
      /\ tv'.consol = tv.consol /\ tv'.consolPath = tv.consolPath
  BY <1>1 DEF TrackedVolume
<1>3. QED
  BY <1>1, <1>2 DEF Describes, Labelled, Names

\* Steps that leave the node, the manifest and the tracked entry alone.
LEMMA NothingTouched ==
  ASSUME Sound, UNCHANGED <<local, manifest, tv>>,
         op' = op \/ op'.pc \notin {"snapped", "sent", "recorded", "replace", "finish"}
  PROVE  Sound'
<1>1. UNCHANGED <<content, disk, tmpl, fresh, snaps, head, tv>>
  BY DEF local, manifest
<1>2. Numbered' /\ ManifestSound'
  BY ManifestKept
<1>3. DiskSound'
  BY <1>1 DEF Sound, DiskSound, HoldsNamed, Names
<1>4. TrackingSound'
  BY <1>1, TrackingKept DEF Sound, TrackingSound, CleanIsSaved, Saved
<1>5. SyncSound' /\ RestoreSound'
  <2>1. CASE op' = op
    BY <1>1, <2>1 DEF Sound, SyncSound, RestoreSound, Describes, Labelled, Names, Based,
       Recorded, Saved
  <2>2. CASE op' # op
    BY <2>2, OpOver
  <2>3. QED
    BY <2>1, <2>2
<1>6. QED
  BY <1>2, <1>3, <1>4, <1>5 DEF Sound

\* Steps after which the daemon knows nothing of the volume, and the node has
\* the layers it had or none.
LEMMA Forgotten ==
  ASSUME Sound, UNCHANGED manifest, tv' = NoTv, op' = Idle,
         \/ UNCHANGED <<disk, fresh>>
         \/ disk' = EmptyDisk /\ fresh' = {}
         \/ \E S : disk' = Without(disk, S) /\ fresh' = fresh \ S
  PROVE  Sound'
<1>1. op'.pc = "idle" /\ snaps' = snaps
  BY DEF Idle, manifest
<1>2. Numbered' /\ ManifestSound' /\ SyncSound' /\ RestoreSound' /\ TrackingSound'
  BY <1>1, ManifestKept, OpOver, Untracked
<1>3. DiskSound'
  <2>1. /\ HoldsNamed(disk)
        /\ \A p \in fresh : p = Pending \/ \E h \in DOMAIN snaps : Names(p, h)
    BY DEF Sound, DiskSound
  <2>2. CASE UNCHANGED <<disk, fresh>>
    BY <1>1, <2>1, <2>2 DEF DiskSound, HoldsNamed, Names
  <2>3. CASE disk' = EmptyDisk /\ fresh' = {}
    BY <2>3 DEF DiskSound, HoldsNamed, EmptyDisk
  <2>4. ASSUME NEW S, disk' = Without(disk, S), fresh' = fresh \ S
        PROVE  DiskSound'
    <3>1. HoldsNamed(Without(disk, S))
      BY <2>1, HoldsNamedKept
    <3>2. QED
      BY <1>1, <2>1, <2>4, <3>1 DEF DiskSound, HoldsNamed, Names
  <2>5. QED
    BY <2>2, <2>3, <2>4
<1>4. QED
  BY <1>2, <1>3 DEF Sound

\* Untracks, restarts, lost nodes and completed moves.
LEMMA ForgetSound ==
  ASSUME Sound, Untrack \/ Restart \/ NodeLost \/ Moved
  PROVE  Sound'
<1>1. CASE Untrack
  BY <1>1, Forgotten DEF Untrack
<1>2. CASE Restart
  BY <1>2, Forgotten DEF Restart, local
<1>3. CASE NodeLost
  BY <1>3, Forgotten DEF NodeLost
<1>4. CASE Moved
  BY <1>4, Forgotten DEF Moved
<1>5. QED
  BY <1>1, <1>2, <1>3, <1>4

\* The steps of a move, and the end of an untrack.
LEMMA MoveSound ==
  ASSUME Sound, UntrackDone \/ TransferSnapshot \/ MoveFails
  PROVE  Sound'
<1>1. CASE UntrackDone
  BY <1>1, NothingTouched DEF UntrackDone
<1>2. CASE TransferSnapshot
  <2>1. UNCHANGED <<local, manifest, tv>> /\ op'.pc = "moving"
    BY <1>2 DEF TransferSnapshot, tracking
  <2>2. QED
    BY <2>1, NothingTouched
<1>3. CASE MoveFails
  <2>1. UNCHANGED <<local, manifest, tv>> /\ op'.pc = "idle"
    BY <1>3 DEF MoveFails, tracking, Idle
  <2>2. QED
    BY <2>1, NothingTouched
<1>4. QED
  BY <1>1, <1>2, <1>3

\* A write makes every subvolume older than the volume.
LEMMA WriteSound ==
  ASSUME Sound, Write
  PROVE  Sound'
<1>1. /\ fresh' = {} /\ UNCHANGED manifest /\ op' = op /\ disk' = disk
      /\ snaps' = snaps /\ head' = head
  BY DEF Write, manifest
<1>2. tv \in TrackedVolume /\ Describes(tv) /\ CleanIsSaved
  BY DEF Sound, TrackingSound
<1>3. content # NoVolume
  BY DEF Write
<1>4. PICK marked \in BOOLEAN : tv' = [tv EXCEPT !.dirty = tv.dirty \/ (marked /\ tv.exists)]
  BY DEF Write
<1>5. (tv.dirty \/ (marked /\ tv.exists)) \in BOOLEAN
  BY <1>2 DEF TrackedVolume
<1>6. /\ tv' \in TrackedVolume /\ tv'.snap = tv.snap /\ tv'.layer = tv.layer
      /\ tv'.consol = tv.consol /\ tv'.consolPath = tv.consolPath
      /\ tv'.exists = tv.exists /\ tv'.dirty = (tv.dirty \/ (marked /\ tv.exists))
  BY <1>2, <1>4, <1>5 DEF TrackedVolume
<1>7. TrackingSound'
  BY <1>1, <1>2, <1>3, <1>6 DEF TrackingSound, Describes, Labelled, Names, CleanIsSaved
<1>8. Numbered' /\ ManifestSound'
  BY <1>1, ManifestKept
<1>9. DiskSound'
  BY <1>1 DEF Sound, DiskSound, HoldsNamed, Names
<1>10. SyncSound' /\ RestoreSound'
  BY <1>1 DEF Sound, SyncSound, RestoreSound, Describes, Labelled, Names, Based,
       Recorded, Saved
<1>11. QED
  BY <1>7, <1>8, <1>9, <1>10 DEF Sound

\* The periodic cycle marks the volume dirty or leaves its entry alone.
LEMMA SyncAllSound ==
  ASSUME Sound, SyncAll
  PROVE  Sound'
<1>1. CASE tv' = tv
  BY <1>1, NothingTouched DEF SyncAll
<1>2. CASE tv' = [tv EXCEPT !.dirty = TRUE]
  <2>1. /\ UNCHANGED <<content, disk, fresh>> /\ UNCHANGED manifest /\ op' = op
        /\ snaps' = snaps /\ head' = head
    BY DEF SyncAll, local, manifest
  <2>2. tv \in TrackedVolume
    BY DEF Sound, TrackingSound
  <2>3. tv'.dirty = TRUE
    BY <1>2, <2>2 DEF TrackedVolume
  <2>4. TrackingSound'
    BY <1>2, <2>1, <2>3, TrackingKept DEF TrackingSound, CleanIsSaved
  <2>5. Numbered' /\ ManifestSound'
    BY <2>1, ManifestKept
  <2>6. DiskSound'
    BY <2>1 DEF Sound, DiskSound, HoldsNamed, Names
  <2>7. SyncSound' /\ RestoreSound'
    BY <2>1 DEF Sound, SyncSound, RestoreSound, Describes, Labelled, Names, Based,
       Recorded, Saved
  <2>8. QED
    BY <2>4, <2>5, <2>6, <2>7 DEF Sound
<1>3. QED
  BY <1>1, <1>2 DEF SyncAll

-----------------------------------------------------------------------------
(* The steps that begin an operation *)

\* The entry that autoTrackWithManifest rebuilds describes what is on disk.
LEMMA AutoTrackedSound ==
  ASSUME Sound
  PROVE  AutoTracked \in TrackedVolume /\ Describes(AutoTracked) /\ AutoTracked.dirty = TRUE
<1> DEFINE c == LatestConsolidation
           snap == IF head # Base /\ OnDisk(Layer(head)) THEN Layer(head) ELSE NoPath
<1>1. Numbered /\ ManifestSound
  BY DEF Sound
<1>2. head \in DOMAIN snaps \cup {Base} /\ c \in DOMAIN snaps \cup {NoHash}
  BY <1>1, LatestTyped DEF ManifestSound, ParentsOlder
<1>3. DOMAIN snaps \subseteq Hashes
  BY <1>1, Hashed DEF ManifestSound, Hashes
<1>4. Labelled(snap, head) /\ snap \in Paths
  BY <1>2, <1>3 DEF Labelled, Names, Paths, Hashes
<1>5. Labelled(ConsolidationOnDisk, c) /\ ConsolidationOnDisk \in Paths
  BY <1>2, <1>3 DEF Labelled, Names, Paths, Hashes, ConsolidationOnDisk
<1>6. head \in Refs /\ c \in Refs
  BY <1>2, <1>3 DEF Refs
<1>7. AutoTracked = [layer |-> head, snap |-> snap, consol |-> c,
                     consolPath |-> ConsolidationOnDisk,
                     dirty |-> TRUE, tmpl |-> TRUE, exists |-> TRUE]
  BY DEF AutoTracked, Tracked
<1> HIDE DEF c, snap
<1>8. AutoTracked \in TrackedVolume
  BY <1>4, <1>5, <1>6, <1>7 DEF TrackedVolume
<1>9. Describes(AutoTracked) /\ AutoTracked.dirty = TRUE
  BY <1>4, <1>5, <1>7 DEF Describes
<1>10. QED
  BY <1>8, <1>9

\* An entry without history describes nothing.
LEMMA BareTrackedSound ==
  BareTracked \in TrackedVolume /\ Describes(BareTracked) /\ BareTracked.dirty = TRUE
<1>1. BareTracked \in TrackedVolume
  BY DEF BareTracked, Tracked, TrackedVolume, Refs, Paths
<1>2. Describes(BareTracked)
  BY DEF BareTracked, Tracked, Describes, Labelled
<1>3. BareTracked.dirty = TRUE
  BY DEF BareTracked, Tracked
<1>4. QED
  BY <1>1, <1>2, <1>3

\* The entry an operation begins with: the one there is, or a dirty one that
\* is rebuilt from the manifest or knows nothing.
LEMMA StartTracked ==
  ASSUME Sound,
         NEW t, t = IF tv.exists THEN tv ELSE IF actorUp THEN AutoTracked ELSE BareTracked
  PROVE  t \in TrackedVolume /\ Describes(t) /\ (t = tv \/ t.dirty = TRUE)
<1>1. CASE t = tv
  BY <1>1 DEF Sound, TrackingSound
<1>2. CASE t = BareTracked
  BY <1>2, BareTrackedSound
<1>3. CASE t = AutoTracked
  BY <1>3, AutoTrackedSound
<1>4. QED
  BY <1>1, <1>2, <1>3

\* The manifest has room when an operation that syncs begins.
LEMMA Room ==
  ASSUME Sound, CanSync
  PROVE  \E k \in 0..MaxSnapshots : DOMAIN snaps = 1..k /\ k < MaxSnapshots
<1>1. PICK k \in 0..MaxSnapshots : DOMAIN snaps = 1..k
  BY DEF Sound, Numbered
<1>2. Cardinality(1..k) = k
  BY <1>1, FS_Interval
<1>3. QED
  BY <1>1, <1>2 DEF CanSync

\* Taking the snapshot of the volume.
LEMMA SnapshotSound ==
  ASSUME Sound, CanSync, UNCHANGED manifest,
         NEW kind, NEW target, NEW t, SnapshotVolume(kind, target, t),
         tv' = t, t \in TrackedVolume, Describes(t), t = tv \/ t.dirty = TRUE,
         kind = "restoreTo" => target \in DOMAIN snaps \cup {Base}
  PROVE  Sound'
<1> DEFINE d == With(Without(disk, {Pending}), Pending, content)
<1>1. /\ snaps' = snaps /\ head' = head /\ content' = content
      /\ disk' = d /\ fresh' = fresh \cup {Pending}
      /\ op' = [pc |-> "snapped", kind |-> kind, target |-> target, t |-> t,
                started |-> content]
  BY DEF SnapshotVolume, manifest
<1>2. /\ op'.pc = "snapped" /\ op'.kind = kind /\ op'.target = target /\ op'.t = t
      /\ op'.started = content
  BY <1>1
<1>3. HoldsNamed(d)
  <2>1. HoldsNamed(Without(disk, {Pending}))
    BY HoldsNamedKept DEF Sound, DiskSound
  <2>2. QED
    BY <2>1, HoldsNamedKept
<1>4. /\ Pending \in DOMAIN d.holds /\ d.holds[Pending] = content
      /\ \A p \in DOMAIN disk.holds : p \in DOMAIN d.holds
  BY DEF With, Without
<1> HIDE DEF d
<1>5. Numbered'
  BY <1>1, Room DEF Numbered
<1>6. ManifestSound'
  BY ManifestKept
<1>7. DiskSound'
  BY <1>1, <1>3 DEF Sound, DiskSound, HoldsNamed, Names
<1>8. CleanIsSaved'
  <2>1. CASE t = tv
    BY <1>1, <1>4, <2>1 DEF Sound, TrackingSound, CleanIsSaved, Saved
  <2>2. CASE t.dirty = TRUE
    BY <2>2 DEF CleanIsSaved
  <2>3. QED
    BY <2>1, <2>2
<1>9. TrackingSound'
  BY <1>1, <1>8 DEF TrackingSound, Describes, Labelled, Names
<1>10. SyncSound'
  BY <1>1, <1>2, <1>4 DEF SyncSound, Describes, Labelled, Names
<1>11. RestoreSound'
  BY <1>2 DEF RestoreSound
<1>12. QED
  BY <1>5, <1>6, <1>7, <1>9, <1>10, <1>11 DEF Sound

\* Syncs, checkpoints and drains begin with the snapshot.
LEMMA StartSound ==
  ASSUME Sound, StartSync \/ StartCheckpoint \/ StartDrain
  PROVE  Sound'
<1>1. CASE StartSync
  <2> DEFINE t == IF tv.exists THEN tv ELSE IF actorUp THEN AutoTracked ELSE BareTracked
  <2>1. /\ CanSync /\ UNCHANGED manifest /\ tv' = t
        /\ SnapshotVolume("sync", NoHash, t)
    BY <1>1 DEF StartSync
  <2>2. t \in TrackedVolume /\ Describes(t) /\ (t = tv \/ t.dirty = TRUE)
    BY StartTracked
  <2> HIDE DEF t
  <2>3. QED
    BY <2>1, <2>2, SnapshotSound
<1>2. CASE StartCheckpoint \/ StartDrain
  <2>1. tv \in TrackedVolume /\ Describes(tv)
    BY DEF Sound, TrackingSound
  <2>2. /\ CanSync /\ UNCHANGED manifest /\ tv' = tv
        /\ SnapshotVolume("checkpoint", NoHash, tv) \/ SnapshotVolume("drain", NoHash, tv)
    BY <1>2 DEF StartCheckpoint, StartDrain, tracking
  <2>3. QED
    BY <2>1, <2>2, SnapshotSound
<1>3. QED
  BY <1>1, <1>2

\* A volume with nothing to save is saved already: its entry is clean and its
\* generation is that of its last layer.
LEMMA StartRestoreToSound ==
  ASSUME Sound, StartRestoreTo
  PROVE  Sound'
<1> DEFINE t == IF tv.exists THEN tv ELSE IF actorUp THEN AutoTracked ELSE BareTracked
<1>1. t \in TrackedVolume /\ Describes(t) /\ (t = tv \/ t.dirty = TRUE)
  BY StartTracked
<1>2. ~tv.exists => t.dirty = TRUE
  BY DEF AutoTracked, BareTracked, Tracked
<1>3. CanSync /\ content # NoVolume /\ UNCHANGED manifest /\ tv' = t
  BY DEF StartRestoreTo
<1>4. PICK target \in DOMAIN snaps \cup {Base} :
         \/ SnapshotVolume("restoreTo", target, t)
         \/ /\ ~(t.dirty \/ GenerationMoved)
            /\ op' = Replacing("restoreTo", target, content, TRUE)
            /\ UNCHANGED local
  BY DEF StartRestoreTo
<1> HIDE DEF t
<1>5. CASE SnapshotVolume("restoreTo", target, t)
  BY <1>1, <1>3, <1>5, SnapshotSound
<1>6. CASE /\ ~(t.dirty \/ GenerationMoved)
           /\ op' = Replacing("restoreTo", target, content, TRUE)
           /\ UNCHANGED local
  <2>1. t = tv /\ tv.exists /\ ~tv.dirty
    BY <1>1, <1>2, <1>6
  <2>2. tv.snap # Template /\ tv.snap # NoPath /\ tv.snap \in DOMAIN disk.holds
    <3>1. tv.snap \in DOMAIN disk.holds /\ tv.snap # Pending
      BY <1>3, <2>1 DEF Sound, TrackingSound, CleanIsSaved
    <3>2. PICK h \in DOMAIN snaps : tv.snap \in {Layer(h), Consol(h)}
      BY <3>1 DEF Sound, DiskSound, HoldsNamed, Names
    <3>3. QED
      BY <3>1, <3>2, PathsDiffer
  <2>3. tv.snap \in fresh
    BY <1>3, <1>6, <2>1, <2>2 DEF GenerationMoved, OnDisk
  <2>4. Saved(content)
    BY <1>3, <2>1, <2>3 DEF Sound, TrackingSound, CleanIsSaved
  <2>5. /\ UNCHANGED <<content, disk, fresh>> /\ snaps' = snaps /\ head' = head /\ tv' = tv
        /\ op'.pc = "replace" /\ op'.target = target /\ op'.kind = "restoreTo"
        /\ op'.started = content
    BY <1>3, <1>6, <2>1 DEF local, manifest, Replacing
  <2>6. Numbered' /\ ManifestSound'
    BY <1>3, <2>5, ManifestKept
  <2>7. DiskSound'
    BY <2>5 DEF Sound, DiskSound, HoldsNamed, Names
  <2>8. TrackingSound'
    BY <2>5, TrackingKept DEF Sound, TrackingSound, CleanIsSaved, Saved
  <2>9. SyncSound' /\ RestoreSound'
    BY <2>4, <2>5 DEF SyncSound, RestoreSound, Saved
  <2>10. QED
    BY <2>6, <2>7, <2>8, <2>9 DEF Sound
<1>7. QED
  BY <1>4, <1>5, <1>6

\* A restore to HEAD begins without a snapshot of the volume.
LEMMA StartRestoreVolumeSound ==
  ASSUME Sound, StartRestoreVolume
  PROVE  Sound'
<1>1. /\ UNCHANGED <<content, disk, fresh>> /\ UNCHANGED manifest
      /\ snaps' = snaps /\ head' = head
      /\ op'.pc = "replace" /\ op'.target = head /\ op'.kind = "restore"
      /\ head # Base \/ DOMAIN snaps = {}
  BY DEF StartRestoreVolume, local, manifest, Replacing
<1>2. tv' = tv \/ tv' = BareTracked
  BY DEF StartRestoreVolume
<1>3. Numbered' /\ ManifestSound'
  BY <1>1, ManifestKept
<1>4. DiskSound'
  BY <1>1 DEF Sound, DiskSound, HoldsNamed, Names
<1>5. TrackingSound'
  <2>1. CASE tv' = tv
    BY <1>1, <2>1, TrackingKept DEF Sound, TrackingSound, CleanIsSaved, Saved
  <2>2. CASE tv' = BareTracked
    BY <2>2 DEF BareTracked, Tracked, TrackingSound, TrackedVolume, Refs, Paths, Describes,
       Labelled, CleanIsSaved
  <2>3. QED
    BY <1>2, <2>1, <2>2
<1>6. SyncSound' /\ RestoreSound'
  BY <1>1 DEF Sound, ManifestSound, ParentsOlder, SyncSound, RestoreSound
<1>7. QED
  BY <1>3, <1>4, <1>5, <1>6 DEF Sound

\* A move begins with the snapshot of a dirty volume.
LEMMA StartMigrateSound ==
  ASSUME Sound, StartMigrate
  PROVE  Sound'
<1> DEFINE t == IF tv.exists THEN tv ELSE IF actorUp THEN AutoTracked ELSE BareTracked
<1>1. t \in TrackedVolume /\ Describes(t) /\ (t = tv \/ t.dirty = TRUE)
  BY StartTracked
<1>2. CanSync /\ UNCHANGED manifest /\ tv' = t
  BY DEF StartMigrate
<1>3. \/ SnapshotVolume("migrate", NoHash, t)
      \/ ~t.dirty /\ op' = [pc |-> "transfer", kind |-> "migrate"] /\ UNCHANGED local
  BY DEF StartMigrate
<1> HIDE DEF t
<1>4. CASE SnapshotVolume("migrate", NoHash, t)
  BY <1>1, <1>2, <1>4, SnapshotSound
<1>5. CASE ~t.dirty /\ op' = [pc |-> "transfer", kind |-> "migrate"] /\ UNCHANGED local
  <2>1. tv' = tv /\ op'.pc = "transfer"
    BY <1>1, <1>2, <1>5
  <2>2. QED
    BY <1>2, <1>5, <2>1, NothingTouched
<1>6. QED
  BY <1>3, <1>4, <1>5

-----------------------------------------------------------------------------
(* The steps of a sync *)

\* After a sync, whatever its outcome, nothing of it is left but the restore
\* it was to precede.
LEMMA AfterSyncSound ==
  ASSUME Sound, op.pc \in {"snapped", "sent", "recorded"},
         \A h \in DOMAIN snaps : h \in DOMAIN snaps',
         NEW b \in BOOLEAN, op' = AfterSync(b),
         b => \E h \in DOMAIN snaps' : snaps'[h].holds = op.started
  PROVE  SyncSound' /\ RestoreSound' /\ op'.pc \in {"idle", "transfer", "replace"}
<1>1. CASE op.kind = "restoreTo"
  <2>1. op' = Replacing("restoreTo", op.target, op.started, b)
    BY <1>1 DEF AfterSync
  <2>2. /\ op'.pc = "replace" /\ op'.kind = "restoreTo" /\ op'.target = op.target
        /\ op'.started = op.started /\ op'.saved = b
    BY <2>1 DEF Replacing
  <2>3. op.target \in DOMAIN snaps \cup {Base}
    BY <1>1 DEF Sound, SyncSound
  <2>4. RestoreSound'
    BY <2>2, <2>3 DEF RestoreSound, Saved
  <2>5. QED
    BY <2>2, <2>4 DEF SyncSound
<1>2. CASE op.kind # "restoreTo"
  <2>1. op' = [pc |-> "transfer", kind |-> "migrate"] \/ op' = Idle
    BY <1>2 DEF AfterSync
  <2>2. op'.pc \in {"idle", "transfer"}
    BY <2>1 DEF Idle
  <2>3. QED
    BY <2>2, OpOver
<1>3. QED
  BY <1>1, <1>2

\* Deleting the pending snapshot touches no layer.
LEMMA PendingDropped ==
  ASSUME Sound, DropPending, UNCHANGED <<content, tv>>,
         \A h \in DOMAIN snaps : h \in DOMAIN snaps' /\ snaps'[h] = snaps[h]
  PROVE  DiskSound' /\ TrackingSound'
<1>1. /\ \A p : p \in DOMAIN disk'.holds <=> p \in DOMAIN disk.holds /\ p # Pending
      /\ \A p \in DOMAIN disk'.holds : disk'.holds[p] = disk.holds[p]
      /\ \A p \in fresh' : p \in fresh
  BY WithoutHolds DEF DropPending
<1>2. DiskSound'
  BY <1>1 DEF Sound, DiskSound, HoldsNamed, Names
<1>3. TrackingSound'
  <2>1. Describes(tv)'
    BY DEF Sound, TrackingSound, Describes, Labelled, Names
  <2>2. tv' \in TrackedVolume
    BY DEF Sound, TrackingSound
  <2>3. CleanIsSaved'
    BY <1>1 DEF Sound, TrackingSound, CleanIsSaved, Saved
  <2>4. QED
    BY <2>1, <2>2, <2>3 DEF TrackingSound
<1>4. QED
  BY <1>2, <1>3

\* A sync that fails leaves what was there.
LEMMA SyncFailsSound ==
  ASSUME Sound, SyncFails
  PROVE  Sound'
<1>1. /\ op.pc \in {"snapped", "sent"} /\ DropPending /\ op' = AfterSync(FALSE)
      /\ UNCHANGED <<content, tv>> /\ UNCHANGED manifest /\ snaps' = snaps
  BY DEF SyncFails, tracking, manifest
<1>2. SyncSound' /\ RestoreSound' /\ op'.pc \in {"idle", "transfer", "replace"}
  BY <1>1, AfterSyncSound
<1>3. QED
  BY <1>1, <1>2, PendingDropped, ManifestKept DEF Sound

\* The parent of a send is labelled with the hash of what it holds.
LEMMA ParentLabelled ==
  ASSUME Sound, NEW p, NEW h, Labelled(p, h), p # NoPath, OnDisk(p)
  PROVE  \/ h = Base /\ HeldBy(p) = 0
         \/ h \in DOMAIN snaps /\ HeldBy(p) = snaps[h].holds
<1>1. CASE p = Template
  BY <1>1, PathsDiffer DEF Labelled, Names, HeldBy
<1>2. CASE p # Template
  <2>1. h \in DOMAIN snaps /\ p \in {Layer(h), Consol(h)} /\ HeldBy(p) = disk.holds[p]
    BY <1>2 DEF Labelled, Names, HeldBy
  <2>2. p \in DOMAIN disk.holds /\ p # Pending
    BY <1>2, <2>1, PathsDiffer DEF OnDisk
  <2>3. PICK k \in DOMAIN snaps : p \in {Layer(k), Consol(k)} /\ disk.holds[p] = snaps[k].holds
    BY <2>2 DEF Sound, DiskSound, HoldsNamed, Names
  <2>4. k = h
    BY <2>1, <2>3, PathsDiffer
  <2>5. QED
    BY <2>1, <2>3, <2>4
<1>3. QED
  BY <1>1, <1>2

\* The send: the blob is the difference to what its recorded parent holds.
LEMMA SendSound ==
  ASSUME Sound, Send
  PROVE  Sound'
<1> DEFINE t == op.t
           k == Known(t, Consolidates)
           p == ChosenParent(t, Consolidates)
           blob == [parent |-> p.hash, consolidation |-> Consolidates,
                    base |-> IF p.path = NoPath THEN Full ELSE HeldBy(p.path),
                    holds |-> HeldBy(Pending)]
<1>1. /\ op.pc = "snapped" /\ ~NeedsRecovery(t, Consolidates)
      /\ op' = [pc |-> "sent", kind |-> op.kind, target |-> op.target, t |-> op.t,
                started |-> op.started, blob |-> blob]
      /\ UNCHANGED <<content, disk, fresh, tv>> /\ UNCHANGED manifest
      /\ snaps' = snaps /\ head' = head
  BY DEF Send, local, tracking, manifest
<1>2. Labelled(k.path, k.hash)
  BY <1>1 DEF Sound, SyncSound, Describes, Known
<1>3. \/ p.path = NoPath /\ p.hash \in {Base, NoHash}
      \/ p.path = Template /\ p.hash = Base
      \/ p.path # NoPath /\ OnDisk(p.path) /\ Labelled(p.path, p.hash)
  <2>1. CASE k.path # NoPath /\ OnDisk(k.path)
    <3>1. k.hash \in DOMAIN snaps \cup {Base}
      BY <1>2, <2>1 DEF Labelled, Names
    <3>2. k.hash # NoHash
      BY <3>1, Hashed DEF Sound, ManifestSound, Base, NoHash
    <3>3. p = k
      BY <2>1, <3>2 DEF ChosenParent
    <3>4. QED
      BY <1>2, <2>1, <3>3
  <2>2. CASE ~(k.path # NoPath /\ OnDisk(k.path)) /\ k.hash \in DOMAIN snaps
    <3>1. k.hash # NoHash
      BY <2>2, Hashed DEF Sound, ManifestSound, NoHash
    <3>2. p = [path |-> RecoveryPath(k.hash, Consolidates), hash |-> k.hash]
      BY <2>2, <3>1 DEF ChosenParent
    <3>3. OnDisk(p.path)
      BY <1>1, <2>2, <3>2 DEF NeedsRecovery
    <3>4. p.path # NoPath /\ Labelled(p.path, p.hash)
      BY <2>2, <3>2, PathsDiffer DEF RecoveryPath, Labelled, Names
    <3>5. QED
      BY <3>3, <3>4
  <2>3. CASE ~(k.path # NoPath /\ OnDisk(k.path)) /\ k.hash \notin DOMAIN snaps
    <3>1. p = ByTemplate(t)
      BY <2>3 DEF ChosenParent, ByTemplate, Base, NoHash
    <3>2. QED
      BY <3>1 DEF ByTemplate
  <2>4. QED
    BY <2>1, <2>2, <2>3
<1>4. Based(blob)
  <2>1. CASE p.path = NoPath /\ p.hash \in {Base, NoHash}
    BY <2>1 DEF Based, Recorded
  <2>2. CASE p.path = Template /\ p.hash = Base
    BY <2>2, PathsDiffer DEF Based, HeldBy
  <2>3. CASE p.path # NoPath /\ OnDisk(p.path) /\ Labelled(p.path, p.hash)
    BY <2>3, ParentLabelled DEF Based
  <2>4. QED
    BY <1>3, <2>1, <2>2, <2>3
<1>5. blob.holds = op.started
  BY <1>1, PathsDiffer DEF Sound, SyncSound, HeldBy
<1> HIDE DEF blob
<1>6. /\ op'.pc = "sent" /\ op'.kind = op.kind /\ op'.target = op.target /\ op'.t = op.t
      /\ op'.started = op.started /\ op'.blob = blob
  BY <1>1
<1>7. Numbered' /\ ManifestSound'
  BY <1>1, ManifestKept
<1>8. DiskSound'
  BY <1>1 DEF Sound, DiskSound, HoldsNamed, Names
<1>9. TrackingSound'
  BY <1>1, TrackingKept DEF Sound, TrackingSound, CleanIsSaved, Saved
<1>10. SyncSound'
  <2>1. Based(op.blob)'
    BY <1>1, <1>4, <1>6 DEF Based, Recorded
  <2>2. QED
    BY <1>1, <1>5, <1>6, <2>1 DEF Sound, SyncSound, Describes, Labelled, Names
<1>11. RestoreSound'
  BY <1>6 DEF RestoreSound
<1>12. QED
  BY <1>7, <1>8, <1>9, <1>10, <1>11 DEF Sound

\* A tracked entry stays sound when layers are added that were not on disk.
LEMMA TrackingFetched ==
  ASSUME Sound, UNCHANGED <<tv, snaps>>, content' = content \/ fresh' = {},
         \A p \in DOMAIN disk.holds \ {Pending} : p \in DOMAIN disk'.holds,
         \A p \in fresh' : p \in fresh \/ p \notin DOMAIN disk.holds
  PROVE  TrackingSound'
<1>1. tv' \in TrackedVolume /\ Describes(tv)'
  BY TrackingKept
<1>2. CleanIsSaved'
  BY DEF Sound, TrackingSound, CleanIsSaved, Saved
<1>3. QED
  BY <1>1, <1>2 DEF TrackingSound

\* Fetching a lost parent: what is downloaded is named and holds what its name
\* says, but the sync has lost its snapshot.
LEMMA RecoverParentSound ==
  ASSUME Sound, RecoverParent
  PROVE  Sound'
<1> DEFINE h    == Known(op.t, Consolidates).hash
           path == RecoveryPath(h, Consolidates)
           up   == Missing[snaps[h].parent]
           got  == Receive(snaps[h], Downloaded(disk)[snaps[h].parent])
           e    == Without(disk, {Pending})
<1>1. /\ op.pc = "snapped" /\ h \in DOMAIN snaps /\ ~OnDisk(path)
      /\ op' = AfterSync(FALSE) /\ UNCHANGED <<content, tv>> /\ UNCHANGED manifest
      /\ snaps' = snaps /\ head' = head
  BY DEF RecoverParent, NeedsRecovery, tracking, manifest
<1>2. \/ DropPending
      \/ /\ disk' = With(Fetched(e, up), path, got)
         /\ fresh' = (fresh \ {Pending}) \cup Layers(up) \cup {path}
  BY DEF RecoverParent
<1>3. Numbered /\ ManifestSound /\ HoldsNamed(disk)
  BY DEF Sound, DiskSound
<1>4. path # Template /\ path # Pending /\ Names(path, h)
  BY <1>1, PathsDiffer DEF RecoveryPath, Names
<1>5. path \notin DOMAIN disk.holds
  BY <1>1, <1>4 DEF OnDisk
<1>6. got = snaps[h].holds
  <2>1. \A k \in DOMAIN snaps : Layer(k) \in DOMAIN disk.holds =>
                                    disk.holds[Layer(k)] = snaps[k].holds
    BY <1>3, PathsDiffer DEF HoldsNamed, Names
  <2>2. QED
    BY <1>1, <1>3, <2>1, DownloadExact
<1>7. \A k \in up : k \in DOMAIN snaps /\ Layer(k) \notin DOMAIN disk.holds
  <2>1. snaps[h].parent \in Refs
    BY <1>1, <1>3, Hashed DEF ManifestSound
  <2>2. \A k \in up : k \in DOMAIN snaps /\ ~OnDisk(Layer(k))
    BY <1>3, <2>1, MissingAbsent DEF ManifestSound
  <2>3. QED
    BY <2>2, PathsDiffer DEF OnDisk
<1> HIDE DEF h, path, up, got
<1>8. SyncSound' /\ RestoreSound' /\ op'.pc \in {"idle", "transfer", "replace"}
  BY <1>1, AfterSyncSound
<1>9. Numbered' /\ ManifestSound'
  BY <1>1, <1>8, ManifestKept
<1>10. DiskSound' /\ TrackingSound'
  <2>1. CASE DropPending
    BY <1>1, <2>1, PendingDropped
  <2>2. CASE /\ disk' = With(Fetched(e, up), path, got)
             /\ fresh' = (fresh \ {Pending}) \cup Layers(up) \cup {path}
    <3>1. HoldsNamed(e)
      BY <1>3, HoldsNamedKept
    <3>2. HoldsNamed(Fetched(e, up))
      <4>1. up \in SUBSET DOMAIN snaps
        BY <1>7
      <4> HIDE DEF e
      <4>2. QED
        BY <1>3, <3>1, <4>1, HoldsNamedFetched
    <3> DEFINE d == Fetched(e, up)
    <3>3. \A p \in DOMAIN disk.holds \ {Pending} : p \in DOMAIN d.holds
      BY WithoutHolds, FetchedHolds
    <3> HIDE DEF d, e
    <3>4. /\ DOMAIN disk'.holds = DOMAIN d.holds \cup {path} /\ disk'.holds[path] = got
          /\ \A r \in DOMAIN d.holds \ {path} : disk'.holds[r] = d.holds[r]
      BY <2>2, WithHolds DEF d
    <3>5. HoldsNamed(d)
      BY <3>2 DEF d
    <3>6. \A p \in fresh' : p \in fresh \/ p = path \/ \E k \in up : p = Layer(k)
      BY <2>2 DEF Layers
    <3>7. HoldsNamed(disk)'
      <4> SUFFICES ASSUME NEW p \in DOMAIN disk'.holds
                   PROVE  p = Pending \/ \E k \in DOMAIN snaps :
                             Names(p, k) /\ disk'.holds[p] = snaps[k].holds
        BY <1>1 DEF HoldsNamed, Names
      <4>1. CASE p = path
        BY <1>1, <1>4, <1>6, <3>4, <4>1
      <4>2. CASE p # path
        BY <3>4, <3>5, <4>2 DEF HoldsNamed
      <4>3. QED
        BY <4>1, <4>2
    <3>8. \A p \in fresh' : p = Pending \/ \E k \in DOMAIN snaps : Names(p, k)
      BY <1>1, <1>4, <1>7, <3>6 DEF Sound, DiskSound, Names
    <3>9. DiskSound'
      BY <1>1, <3>7, <3>8 DEF DiskSound, Names
    <3>10. TrackingSound'
      BY <1>1, <1>5, <1>7, <3>3, <3>4, <3>6, TrackingFetched
    <3>11. QED
      BY <3>9, <3>10
  <2>3. QED
    BY <1>2, <2>1, <2>2
<1>11. QED
  BY <1>8, <1>9, <1>10 DEF Sound

\* The append: the new snapshot is the next number, and its parent is older.
LEMMA AppendSound ==
  ASSUME Sound, AppendSnapshot
  PROVE  Sound'
<1>1. PICK n \in 1..MaxSnapshots : DOMAIN snaps = 1..(n - 1) /\ n = NextHash
  <2>1. op.pc = "sent"
    BY DEF AppendSnapshot
  <2>2. PICK k \in 0..MaxSnapshots : DOMAIN snaps = 1..k /\ k < MaxSnapshots
    BY <2>1 DEF Sound, Numbered
  <2>3. Cardinality(1..k) = k
    BY <2>2, FS_Interval
  <2>4. k + 1 \in 1..MaxSnapshots /\ (k + 1) - 1 = k /\ k + 1 = NextHash
    BY <2>2, <2>3, VolumeSyncAssumption DEF NextHash
  <2>5. QED
    BY <2>2, <2>4
<1>2. /\ op.pc = "sent" /\ UNCHANGED <<content, tv>>
      /\ snaps' = [h \in DOMAIN snaps \cup {n} |-> IF h = n THEN op.blob ELSE snaps[h]]
      /\ head' = n
  BY <1>1 DEF AppendSnapshot, tracking
<1>3. \/ /\ op' = [pc |-> "recorded", kind |-> op.kind, target |-> op.target, t |-> op.t,
                    started |-> op.started, blob |-> op.blob]
         /\ UNCHANGED <<disk, fresh>>
      \/ DropPending /\ op' = AfterSync(FALSE)
  BY DEF AppendSnapshot
<1>4. n > 0 /\ n \in 0..MaxSnapshots /\ n \notin DOMAIN snaps /\ \A h \in DOMAIN snaps : h < n
  BY <1>1, VolumeSyncAssumption
<1>5. /\ DOMAIN snaps' = 1..n
      /\ n \in DOMAIN snaps' /\ snaps'[n] = op.blob
      /\ \A h \in DOMAIN snaps : h \in DOMAIN snaps' /\ snaps'[h] = snaps[h]
      /\ \A h \in DOMAIN snaps' : h # n => h \in DOMAIN snaps
  <2>1. DOMAIN snaps' = DOMAIN snaps \cup {n}
    BY <1>2
  <2>2. 1..n = (1..(n - 1)) \cup {n}
    BY <1>4, VolumeSyncAssumption
  <2>3. QED
    BY <1>1, <1>2, <1>4, <2>1, <2>2
<1>6. ManifestSound'
  <2>1. ASSUME NEW b, Based(b)
        PROVE  /\ Based(b)'
               /\ b.parent \in DOMAIN snaps \cup {Base, NoHash}
    BY <1>4, <1>5, <2>1 DEF Based, Recorded
  <2>2. ASSUME NEW h \in DOMAIN snaps PROVE Based(snaps[h])' /\ snaps'[h].parent < h
    <3>1. Based(snaps[h]) /\ snaps[h].parent < h /\ snaps'[h] = snaps[h]
      BY <1>4, <1>5 DEF Sound, ManifestSound, ParentsOlder
    <3>2. QED
      BY <1>4, <1>5, <3>1 DEF Based, Recorded
  <2>3. Based(snaps[n])' /\ snaps'[n].parent < n
    <3>1. Based(op.blob)
      BY <1>2 DEF Sound, SyncSound
    <3>2. op.blob.parent \in DOMAIN snaps \cup {Base, NoHash}
      BY <2>1, <3>1
    <3>3. op.blob.parent < n
      BY <1>4, <1>5, <3>2 DEF Base, NoHash
    <3>4. QED
      BY <1>4, <1>5, <3>1, <3>3 DEF Based, Recorded
  <2>4. QED
    BY <1>2, <1>4, <1>5, <2>2, <2>3 DEF ManifestSound, ParentsOlder, Based, Recorded
<1>7. CASE /\ op' = [pc |-> "recorded", kind |-> op.kind, target |-> op.target, t |-> op.t,
                     started |-> op.started, blob |-> op.blob]
           /\ UNCHANGED <<disk, fresh>>
  <2>1. /\ op'.pc = "recorded" /\ op'.kind = op.kind /\ op'.target = op.target
        /\ op'.t = op.t /\ op'.started = op.started /\ op'.blob = op.blob
    BY <1>7
  <2>2. Numbered'
    BY <1>4, <1>5, <2>1 DEF Numbered
  <2>3. DiskSound'
    BY <1>4, <1>5, <1>7 DEF Sound, DiskSound, HoldsNamed, Names
  <2>4. TrackingSound'
    <3>1. tv' \in TrackedVolume /\ Describes(tv)'
      BY <1>2, <1>4, <1>5 DEF Sound, TrackingSound, Describes, Labelled, Names
    <3>2. CleanIsSaved'
      BY <1>2, <1>4, <1>5, <1>7 DEF Sound, TrackingSound, CleanIsSaved, Saved
    <3>3. QED
      BY <3>1, <3>2 DEF TrackingSound
  <2>5. Layer(n) \notin fresh /\ Consol(n) \notin fresh
    BY <1>4, <1>5, PathsDiffer DEF Sound, DiskSound, Names
  <2>6. SyncSound'
    BY <1>2, <1>4, <1>5, <1>7, <2>1, <2>5 DEF Sound, SyncSound, Describes, Labelled, Names
  <2>7. RestoreSound'
    BY <2>1 DEF RestoreSound
  <2>8. QED
    BY <1>6, <2>2, <2>3, <2>4, <2>6, <2>7 DEF Sound
<1>8. CASE DropPending /\ op' = AfterSync(FALSE)
  <2>1. SyncSound' /\ RestoreSound' /\ op'.pc \in {"idle", "transfer", "replace"}
    BY <1>2, <1>4, <1>5, <1>8, AfterSyncSound
  <2>2. DiskSound' /\ TrackingSound'
    BY <1>2, <1>4, <1>5, <1>8, PendingDropped
  <2>3. Numbered'
    BY <1>4, <1>5, <2>1 DEF Numbered
  <2>4. QED
    BY <1>6, <2>1, <2>2, <2>3 DEF Sound
<1>9. QED
  BY <1>3, <1>7, <1>8

\* The disk after the rotation, whether the rename works, falls back to a copy or
\* fails: the new name, if it is there, holds what the pending snapshot held.
LEMMA RotatedHolds ==
  ASSUME NEW d, NEW new, NEW how \in {"renamed", "copied", "failed"},
         Pending \in DOMAIN d.holds, new # Pending
  PROVE  /\ how # "failed" => /\ new \in DOMAIN Rotated(d, new, how).holds
                              /\ Rotated(d, new, how).holds[new] = d.holds[Pending]
         /\ how = "failed" => new \notin DOMAIN Rotated(d, new, how).holds
         /\ \A p \in DOMAIN Rotated(d, new, how).holds : p # new =>
               p \in DOMAIN d.holds /\ Rotated(d, new, how).holds[p] = d.holds[p]
<1>1. CASE how = "renamed"
  <2>1. Rotated(d, new, how) = Renamed(d, Pending, new)
    BY <1>1 DEF Rotated
  <2>2. QED
    BY <1>1, <2>1, RenamedHolds
<1>2. CASE how = "copied"
  <2> DEFINE e == Without(d, {Pending, new})
  <2>1. Rotated(d, new, how) = With(e, new, d.holds[Pending])
    BY <1>2 DEF Rotated
  <2>2. /\ DOMAIN e.holds = DOMAIN d.holds \ {Pending, new}
        /\ \A r \in DOMAIN e.holds : e.holds[r] = d.holds[r]
    BY WithoutHolds
  <2> HIDE DEF e
  <2>3. QED
    BY <1>2, <2>1, <2>2, WithHolds
<1>3. CASE how = "failed"
  <2>1. Rotated(d, new, how) = Without(d, {new})
    BY <1>3 DEF Rotated
  <2>2. QED
    BY <1>3, <2>1, WithoutHolds
<1>4. QED
  BY <1>1, <1>2, <1>3

\* The rotation: the pending snapshot becomes the layer of the new HEAD, and
\* holds what was recorded under it; if it could not be renamed, the entry is as
\* right as the step leaves it.
LEMMA RotateSound ==
  ASSUME Sound, Rotate, misled' = {}
  PROVE  Sound'
<1> DEFINE c    == op.blob.consolidation
           new  == IF c THEN Consol(head) ELSE Layer(head)
           own  == c /\ op.kind # "restoreTo"
           keeps == op.kind \in {"checkpoint", "restoreTo"}
           Tracks(how) == IF how = "failed" THEN Pending ELSE new
           Done(how) == [tv EXCEPT !.layer = head, !.snap = Tracks(how),
                            !.consol = IF own THEN head ELSE @,
                            !.consolPath = IF own THEN Tracks(how) ELSE @,
                            !.dirty = @ /\ keeps]
<1>1. /\ op.pc = "recorded" /\ head \in DOMAIN snaps /\ snaps[head] = op.blob
      /\ op.blob.holds = op.started /\ Describes(op.t)
      /\ Pending \in DOMAIN disk.holds /\ disk.holds[Pending] = op.started
      /\ Pending \in fresh => content = op.started
      /\ Layer(head) \notin fresh /\ Consol(head) \notin fresh
  BY DEF Rotate, Sound, SyncSound
<1>2. PICK away \in SUBSET RotatedAway(op.t, c), how \in {"renamed", "copied", "failed"} :
         /\ disk' = Rotated(Without(disk, away), new, how)
         /\ fresh' = (fresh \ (away \cup {new} \cup {p \in {Pending} : how # "failed"}))
                        \cup {p \in {new} : how = "copied" \/ (how = "renamed" /\ Pending \in fresh)}
         /\ tv' = IF op.kind = "drain" THEN NoTv ELSE IF tv.exists THEN Done(how) ELSE tv
         /\ op' = AfterSync(TRUE)
         /\ content' = content /\ UNCHANGED manifest
         /\ IF how = "renamed" THEN UNCHANGED misled ELSE Misled("rename")
  BY DEF Rotate
<1> DEFINE kept == Without(disk, away)
           path == Tracks(how)
           done == Done(how)
<1>3. snaps' = snaps /\ head' = head
  BY <1>2 DEF manifest
<1>4. how # "renamed" => EntryRight'
  BY <1>2 DEF Misled
<1>5. Pending \notin away
  BY <1>1, PathsDiffer DEF Describes, Labelled, Names, RotatedAway
<1>6. /\ Pending \in DOMAIN kept.holds /\ kept.holds[Pending] = op.started
      /\ \A p \in DOMAIN kept.holds : p \in DOMAIN disk.holds /\ kept.holds[p] = disk.holds[p]
  BY <1>1, <1>5, WithoutHolds
<1>7. Names(new, head) /\ new # Pending /\ new \notin fresh
  BY <1>1, PathsDiffer DEF Names
<1> HIDE DEF new, kept, c
<1>8. /\ how # "failed" => new \in DOMAIN disk'.holds /\ disk'.holds[new] = op.started
      /\ how = "failed" => new \notin DOMAIN disk'.holds
      /\ \A p \in DOMAIN disk'.holds : p # new =>
            p \in DOMAIN disk.holds /\ disk'.holds[p] = disk.holds[p]
  <2>1. disk' = Rotated(kept, new, how)
    BY <1>2 DEF kept
  <2>2. QED
    BY <1>6, <1>7, <2>1, RotatedHolds
<1>9. HoldsNamed(disk)'
  <2> SUFFICES ASSUME NEW p \in DOMAIN disk'.holds
               PROVE  p = Pending \/ \E k \in DOMAIN snaps :
                         Names(p, k) /\ disk'.holds[p] = snaps[k].holds
    BY <1>3 DEF HoldsNamed, Names
  <2>1. CASE p = new
    BY <1>1, <1>7, <1>8, <2>1
  <2>2. CASE p # new
    BY <1>8, <2>2 DEF Sound, DiskSound, HoldsNamed
  <2>3. QED
    BY <2>1, <2>2
<1>10. \A p \in fresh' : p \in fresh \/ p = new
  BY <1>2
<1>11. how = "renamed" /\ new \in fresh' => Pending \in fresh
  BY <1>2, <1>7
<1>12. DiskSound'
  <2>1. \A p \in fresh' : p = Pending \/ \E k \in DOMAIN snaps : Names(p, k)
    BY <1>1, <1>7, <1>10 DEF Sound, DiskSound
  <2>2. QED
    BY <1>3, <1>9, <2>1 DEF DiskSound, Names
<1>13. TrackingSound'
  <2>1. tv \in TrackedVolume /\ Describes(tv)
    BY DEF Sound, TrackingSound
  <2>2. CASE tv' = NoTv
    BY <2>2, Untracked
  <2>3. CASE tv' = tv /\ ~tv.exists
    <3>1. tv' \in TrackedVolume /\ Describes(tv)'
      BY <1>3, <2>3, TrackingKept
    <3>2. QED
      BY <2>3, <3>1 DEF TrackingSound, CleanIsSaved
  <2>4. CASE tv' = done
    <3>1. head \in Refs /\ path \in Paths
      <4>1. head \in 1..MaxSnapshots
        BY <1>1, Hashed DEF Sound, ManifestSound
      <4>2. QED
        BY <4>1 DEF Refs, Hashes, Paths, new
    <3>2. (tv.dirty /\ keeps) \in BOOLEAN
      OBVIOUS
    <3>3. /\ tv' \in TrackedVolume /\ tv'.layer = head /\ tv'.snap = path
          /\ tv'.consol = IF own THEN head ELSE tv.consol
          /\ tv'.consolPath = IF own THEN path ELSE tv.consolPath
      <4>1. tv' = [tv EXCEPT !.layer = head, !.snap = path,
                      !.consol = IF own THEN head ELSE @,
                      !.consolPath = IF own THEN path ELSE @,
                      !.dirty = @ /\ keeps]
        BY <2>4
      <4> HIDE DEF own, keeps, path
      <4>2. QED
        BY <2>1, <3>1, <3>2, <4>1 DEF TrackedVolume
    <3>4. CASE how # "renamed"
      BY <1>4, <3>3, <3>4 DEF EntryRight, TrackingSound
    <3>5. CASE how = "renamed"
      <4>1. path = new
        BY <3>5
      <4>2. Labelled(tv'.snap, tv'.layer)
        BY <1>7, <3>3, <4>1 DEF Labelled
      <4>3. Labelled(tv'.consolPath, tv'.consol)
        BY <1>7, <2>1, <3>3, <4>1 DEF Labelled, Describes
      <4>4. Describes(tv)'
        BY <1>3, <4>2, <4>3 DEF Describes, Labelled, Names
      <4>5. \E k \in DOMAIN snaps : snaps[k].holds = op.started
        BY <1>1
      <4>6. new \in fresh' => Saved(content)'
        BY <1>1, <1>2, <1>3, <1>11, <3>5, <4>5 DEF Saved
      <4>7. CleanIsSaved'
        BY <1>7, <1>8, <3>3, <3>5, <4>1, <4>6 DEF CleanIsSaved
      <4>8. QED
        BY <3>3, <4>4, <4>7 DEF TrackingSound
    <3>6. QED
      BY <3>4, <3>5
  <2>5. QED
    BY <1>2, <2>2, <2>3, <2>4
<1>14. SyncSound' /\ RestoreSound' /\ op'.pc \in {"idle", "transfer", "replace"}
  <2>1. \E k \in DOMAIN snaps' : snaps'[k].holds = op.started
    BY <1>1, <1>3
  <2>2. QED
    BY <1>1, <1>2, <1>3, <2>1, AfterSyncSound
<1>15. Numbered' /\ ManifestSound'
  BY <1>2, <1>14, ManifestKept
<1>16. QED
  BY <1>12, <1>13, <1>14, <1>15 DEF Sound

-----------------------------------------------------------------------------
(* The steps of a restore *)

\* The node after some of the layers of a restore have been downloaded.
LEMMA Fetching ==
  ASSUME Sound, op.pc = "replace", UNCHANGED snaps, NEW T \in SUBSET ToFetch(op.target),
         disk' = Fetched(Downloading(ToFetch(op.target)), T),
         fresh' = {} \/ fresh' = fresh \cup Layers(T)
  PROVE  /\ DiskSound'
         /\ \A p \in DOMAIN disk.holds \ {Pending} : p \in DOMAIN disk'.holds
         /\ \A p \in fresh' : p \in fresh \/ p \notin DOMAIN disk.holds
<1> DEFINE S == ToFetch(op.target)
           d == Downloading(S)
<1>1. Numbered /\ ManifestSound /\ HoldsNamed(disk)
  BY DEF Sound, DiskSound
<1>2. op.target \in Refs
  BY <1>1, Hashed DEF Sound, ManifestSound, RestoreSound, Refs
<1>3. \A k \in S : k \in DOMAIN snaps /\ Layer(k) \notin DOMAIN disk.holds
  BY <1>1, <1>2, FetchAbsent, PathsDiffer DEF ManifestSound, OnDisk
<1>4. HoldsNamed(d) /\ \A p \in DOMAIN disk.holds \ {Pending} : p \in DOMAIN d.holds
  BY <1>1, HoldsNamedKept, WithoutHolds DEF Downloading
<1> HIDE DEF d
<1>5. disk' = Fetched(d, T)
  BY DEF d
<1>6. T \in SUBSET DOMAIN snaps
  BY <1>3
<1>7. HoldsNamed(Fetched(d, T))
  BY <1>1, <1>4, <1>6, HoldsNamedFetched
<1>8. \A p \in fresh' : p \in fresh \/ \E k \in T : p = Layer(k)
  BY DEF Layers
<1>9. DiskSound'
  <2>1. HoldsNamed(disk)'
    BY <1>5, <1>7 DEF HoldsNamed, Names
  <2>2. \A p \in fresh' : p = Pending \/ \E k \in DOMAIN snaps : Names(p, k)
    BY <1>6, <1>8 DEF Sound, DiskSound, Names
  <2>3. QED
    BY <2>1, <2>2 DEF DiskSound, Names
<1>10. \A p \in DOMAIN disk.holds \ {Pending} : p \in DOMAIN disk'.holds
  BY <1>4, <1>5, FetchedHolds
<1>11. QED
  BY <1>3, <1>8, <1>9, <1>10

\* The layers are fetched and the volume replaced.
LEMMA ReplaceSound ==
  ASSUME Sound, Replace
  PROVE  Sound'
<1>1. /\ op.pc = "replace" /\ fresh' = {} /\ UNCHANGED manifest /\ tv' = tv
      /\ snaps' = snaps /\ head' = head
      /\ disk' = Fetched(Downloading(ToFetch(op.target)), ToFetch(op.target))
      /\ op' = [pc |-> "finish", kind |-> op.kind, target |-> op.target,
                started |-> op.started, saved |-> op.saved]
  BY DEF Replace, manifest, tracking
<1>2. /\ op'.pc = "finish" /\ op'.kind = op.kind /\ op'.target = op.target
      /\ op'.started = op.started /\ op'.saved = op.saved
  BY <1>1
<1>3. /\ DiskSound'
      /\ \A p \in DOMAIN disk.holds \ {Pending} : p \in DOMAIN disk'.holds
  BY <1>1, Fetching
<1>4. TrackingSound'
  BY <1>1, <1>3, TrackingFetched
<1>5. Numbered' /\ ManifestSound'
  BY <1>1, <1>2, ManifestKept
<1>6. SyncSound' /\ RestoreSound'
  BY <1>1, <1>2 DEF Sound, SyncSound, RestoreSound, Saved
<1>7. QED
  BY <1>3, <1>4, <1>5, <1>6 DEF Sound

\* A restore that fails leaves some of its layers, and perhaps no volume.
LEMMA ReplaceFailsSound ==
  ASSUME Sound, ReplaceFails
  PROVE  Sound'
<1>1. /\ op.pc = "replace" /\ UNCHANGED manifest /\ tv' = tv /\ snaps' = snaps
      /\ op'.pc = "idle"
  BY DEF ReplaceFails, manifest, tracking, Idle
<1>2. PICK T \in SUBSET ToFetch(op.target) :
         /\ disk' = Fetched(Downloading(ToFetch(op.target)), T)
         /\ \/ content' = content /\ fresh' = fresh \cup Layers(T)
            \/ content' = NoVolume /\ fresh' = {}
  BY DEF ReplaceFails
<1>3. /\ DiskSound'
      /\ \A p \in DOMAIN disk.holds \ {Pending} : p \in DOMAIN disk'.holds
      /\ \A p \in fresh' : p \in fresh \/ p \notin DOMAIN disk.holds
  BY <1>1, <1>2, Fetching
<1>4. TrackingSound'
  BY <1>1, <1>2, <1>3, TrackingFetched
<1>5. QED
  BY <1>1, <1>3, <1>4, ManifestKept, OpOver DEF Sound

\* An entry that is marked dirty at the end of a restore only has to describe
\* what it names.
LEMMA Retracked ==
  ASSUME Sound, tv' \in TrackedVolume, tv'.exists = tv.exists, tv'.dirty = tv.exists,
         Labelled(tv.snap, tv.layer)', Labelled(tv.consolPath, tv.consol)'
  PROVE  TrackingSound'
BY DEF TrackingSound, Describes, CleanIsSaved

\* The restore to HEAD ends: the entry describes HEAD.
LEMMA FinishRestoreVolumeSound ==
  ASSUME Sound, FinishRestoreVolume
  PROVE  Sound'
<1> DEFINE c == LatestConsolidation
<1>1. /\ UNCHANGED <<content, disk, fresh>> /\ UNCHANGED manifest /\ snaps' = snaps
      /\ head' = head /\ op'.pc = "idle" /\ op.pc = "finish" /\ op.kind = "restore"
  BY DEF FinishRestoreVolume, local, manifest, Idle
<1>2. /\ Numbered /\ ManifestSound /\ tv \in TrackedVolume
      /\ Labelled(tv.snap, tv.layer) /\ Labelled(tv.consolPath, tv.consol)
  BY DEF Sound, TrackingSound, Describes
<1>3. c \in DOMAIN snaps \cup {NoHash} /\ DOMAIN snaps \subseteq 1..MaxSnapshots
  BY <1>2, LatestTyped, Hashed DEF ManifestSound
<1>4. DOMAIN snaps # {} => head \in DOMAIN snaps
  BY <1>1 DEF Sound, RestoreSound, ManifestSound, ParentsOlder
<1>5. tv' = IF DOMAIN snaps = {} THEN [tv EXCEPT !.dirty = tv.exists]
            ELSE [tv EXCEPT !.layer = head, !.snap = Layer(head), !.dirty = tv.exists,
                     !.consol = IF c = NoHash THEN @ ELSE c,
                     !.consolPath = IF c = NoHash THEN @ ELSE Layer(c)]
  BY DEF FinishRestoreVolume
<1> HIDE DEF c
<1>6. TrackingSound'
  <2>1. CASE DOMAIN snaps = {}
    <3>1. /\ tv' \in TrackedVolume /\ tv'.exists = tv.exists /\ tv'.dirty = tv.exists
          /\ tv'.snap = tv.snap /\ tv'.layer = tv.layer
          /\ tv'.consol = tv.consol /\ tv'.consolPath = tv.consolPath
      BY <1>2, <1>5, <2>1 DEF TrackedVolume
    <3>2. QED
      BY <1>1, <1>2, <3>1, Retracked DEF Labelled, Names
  <2>2. CASE DOMAIN snaps # {}
    <3>1. /\ head \in Refs /\ Layer(head) \in Paths /\ c \in Refs
          /\ c = NoHash \/ Layer(c) \in Paths
      BY <1>3, <1>4, <2>2 DEF Refs, Hashes, Paths
    <3>2. /\ tv' \in TrackedVolume /\ tv'.exists = tv.exists /\ tv'.dirty = tv.exists
          /\ tv'.snap = Layer(head) /\ tv'.layer = head
          /\ tv'.consol = IF c = NoHash THEN tv.consol ELSE c
          /\ tv'.consolPath = IF c = NoHash THEN tv.consolPath ELSE Layer(c)
      BY <1>2, <1>5, <2>2, <3>1 DEF TrackedVolume
    <3>3. Labelled(tv'.snap, tv'.layer) /\ Labelled(tv'.consolPath, tv'.consol)
      BY <1>2, <1>3, <1>4, <2>2, <3>2 DEF Labelled, Names
    <3>4. QED
      BY <1>1, <3>2, <3>3, Retracked DEF Labelled, Names
  <2>3. QED
    BY <2>1, <2>2
<1>7. DiskSound'
  BY <1>1 DEF Sound, DiskSound, HoldsNamed, Names
<1>8. QED
  BY <1>1, <1>6, <1>7, ManifestKept, OpOver DEF Sound

\* The restore to a snapshot ends: HEAD moves there, or the Hub did not answer.
LEMMA FinishRestoreToSound ==
  ASSUME Sound, FinishRestoreTo
  PROVE  Sound'
<1> DEFINE c == LatestConsolidation
           done == IF op.target = Base
                   THEN [tv EXCEPT !.layer = Base, !.snap = Template, !.dirty = tv.exists]
                   ELSE [tv EXCEPT !.layer = op.target, !.snap = Layer(op.target),
                            !.dirty = tv.exists,
                            !.consol = IF c = NoHash THEN @ ELSE c,
                            !.consolPath = IF c = NoHash THEN @ ELSE Layer(c)]
<1>1. /\ UNCHANGED <<content, disk, fresh>> /\ snaps' = snaps
      /\ op'.pc = "idle" /\ op.pc = "finish"
      /\ head' = head \/ head' = op.target
  BY DEF FinishRestoreTo, local, Idle
<1>2. tv' = done \/ tv' = tv
  BY DEF FinishRestoreTo
<1>3. /\ Numbered /\ ManifestSound /\ tv \in TrackedVolume
      /\ Labelled(tv.snap, tv.layer) /\ Labelled(tv.consolPath, tv.consol)
  BY DEF Sound, TrackingSound, Describes
<1>4. c \in DOMAIN snaps \cup {NoHash} /\ DOMAIN snaps \subseteq 1..MaxSnapshots
  BY <1>3, LatestTyped, Hashed DEF ManifestSound
<1>5. op.target \in DOMAIN snaps \cup {Base}
  BY <1>1 DEF Sound, RestoreSound
<1> HIDE DEF c
<1>6. TrackingSound'
  <2>1. CASE tv' = tv
    BY <1>1, <2>1, TrackingKept DEF Sound, TrackingSound, CleanIsSaved, Saved
  <2>2. CASE tv' = done /\ op.target = Base
    <3>1. Base \in Refs /\ Template \in Paths
      BY DEF Refs, Paths
    <3>2. /\ tv' \in TrackedVolume /\ tv'.exists = tv.exists /\ tv'.dirty = tv.exists
          /\ tv'.snap = Template /\ tv'.layer = Base
          /\ tv'.consol = tv.consol /\ tv'.consolPath = tv.consolPath
      BY <1>3, <2>2, <3>1 DEF TrackedVolume
    <3>3. QED
      BY <1>1, <1>3, <3>2, Retracked DEF Labelled, Names
  <2>3. CASE tv' = done /\ op.target # Base
    <3>1. /\ op.target \in Refs /\ Layer(op.target) \in Paths /\ c \in Refs
          /\ c = NoHash \/ Layer(c) \in Paths
      BY <1>4, <1>5, <2>3 DEF Refs, Hashes, Paths
    <3>2. /\ tv' \in TrackedVolume /\ tv'.exists = tv.exists /\ tv'.dirty = tv.exists
          /\ tv'.snap = Layer(op.target) /\ tv'.layer = op.target
          /\ tv'.consol = IF c = NoHash THEN tv.consol ELSE c
          /\ tv'.consolPath = IF c = NoHash THEN tv.consolPath ELSE Layer(c)
      BY <1>3, <2>3, <3>1 DEF TrackedVolume
    <3>3. Labelled(tv'.snap, tv'.layer) /\ Labelled(tv'.consolPath, tv'.consol)
      BY <1>3, <1>4, <1>5, <2>3, <3>2 DEF Labelled, Names
    <3>4. QED
      BY <1>1, <3>2, <3>3, Retracked DEF Labelled, Names
  <2>4. QED
    BY <1>2, <2>1, <2>2, <2>3
<1>7. DiskSound'
  BY <1>1 DEF Sound, DiskSound, HoldsNamed, Names
<1>8. Numbered' /\ ManifestSound'
  BY <1>1, <1>3, <1>5 DEF Numbered, ManifestSound, ParentsOlder, Based, Recorded
<1>9. QED
  BY <1>1, <1>6, <1>7, <1>8, OpOver DEF Sound

-----------------------------------------------------------------------------
(* The invariant and what it gives *)

\* A discovery that finds a layer of the manifest under its hash leaves a right
\* entry.
LEMMA DiscoverSound ==
  ASSUME Sound, Discover, misled' = {}
  PROVE  Sound'
<1>1. EntryRight'
  BY DEF Discover, Misled
<1>2. /\ UNCHANGED <<content, disk, tmpl, fresh, snaps, head, op>> /\ UNCHANGED manifest
      /\ op'.pc = "idle"
  BY DEF Discover, local, manifest, Idle
<1>3. PICK ok \in BOOLEAN : tv' = Discovered(ok)
  BY DEF Discover
<1>4. PICK p, dirty : dirty \in BOOLEAN /\
         tv' = [IF ok THEN Tracked(head, p, LatestConsolidation, ConsolidationOnDisk, TRUE)
                ELSE Tracked(NoHash, p, NoHash, NoPath, FALSE) EXCEPT !.dirty = dirty]
  BY <1>3 DEF Discovered
<1>5. Numbered /\ ManifestSound
  BY DEF Sound
<1>6. DOMAIN snaps \subseteq Hashes
  BY <1>5, Hashed DEF ManifestSound, Hashes
<1>7. {head, NoHash, LatestConsolidation} \subseteq Refs
  BY <1>5, <1>6, LatestTyped DEF ManifestSound, ParentsOlder, Refs
<1>8. Describes(tv')
  BY <1>1, <1>2 DEF EntryRight, Describes, Labelled, Names
<1>9. tv'.snap \in Paths /\ tv'.consolPath \in Paths
  BY <1>6, <1>8 DEF Describes, Labelled, Names, Paths, Hashes
<1>10. tv' \in TrackedVolume
  <2>1. tv' = [layer |-> tv'.layer, snap |-> tv'.snap, consol |-> tv'.consol,
               consolPath |-> tv'.consolPath, dirty |-> dirty, tmpl |-> ok, exists |-> TRUE]
        /\ tv'.layer \in {head, NoHash} /\ tv'.consol \in {LatestConsolidation, NoHash}
    BY <1>4 DEF Tracked
  <2>2. QED
    BY <1>4, <1>7, <1>9, <2>1 DEF TrackedVolume
<1>11. TrackingSound'
  BY <1>1, <1>10 DEF TrackingSound, EntryRight
<1>12. DiskSound'
  BY <1>2 DEF Sound, DiskSound, HoldsNamed, Names
<1>13. Numbered' /\ ManifestSound'
  BY <1>2, ManifestKept
<1>14. QED
  BY <1>2, <1>11, <1>12, <1>13, OpOver DEF Sound

\* Every step keeps the state sound, unless a discovery or a rename that failed
\* leaves a wrong entry.
LEMMA SyncStep == SyncInv /\ [Next]_vars => SyncInv'
<1> SUFFICES ASSUME SyncInv, [Next]_vars, misled' = {} PROVE Sound'
  BY DEF SyncInv
<1>1. CASE Discover
  <2>1. misled = {}
    BY <1>1 DEF Discover, Misled
  <2>2. QED
    BY <1>1, <2>1, DiscoverSound DEF SyncInv
<1>2. CASE UNCHANGED vars
  <2>1. UNCHANGED <<local, manifest, tv, op, misled>>
    BY <1>2 DEF vars, tracking, counters
  <2>2. Sound
    BY <2>1 DEF SyncInv
  <2>3. QED
    BY <2>1, <2>2, NothingTouched
<1>3. CASE ActorStep
  <2>1. CASE Rotate
    <3>1. misled = {}
      BY <2>1 DEF Rotate, Misled
    <3>2. QED
      BY <2>1, <3>1, RotateSound DEF SyncInv
  <2>2. CASE ~Rotate
    <3>1. misled' = misled
      BY <1>3, <2>2 DEF ActorStep, RecoverParent, Send, SyncFails, AppendSnapshot, Replace,
         ReplaceFails, FinishRestoreVolume, FinishRestoreTo, TransferSnapshot, Moved,
         MoveFails, counters
    <3>2. Sound
      BY <3>1 DEF SyncInv
    <3>3. QED
      BY <1>3, <2>2, <3>2, RecoverParentSound, SendSound, SyncFailsSound, AppendSound,
         ReplaceSound, ReplaceFailsSound, FinishRestoreVolumeSound, FinishRestoreToSound,
         MoveSound, ForgetSound DEF ActorStep
  <2>3. QED
    BY <2>1, <2>2
<1>4. CASE StartOp
  <2>1. misled' = misled
    BY <1>4 DEF StartOp, StartSync, StartCheckpoint, StartDrain, StartRestoreTo,
       StartRestoreVolume, StartMigrate, counters
  <2>2. Sound
    BY <2>1 DEF SyncInv
  <2>3. QED
    BY <1>4, <2>2, StartSound, StartRestoreToSound, StartRestoreVolumeSound,
       StartMigrateSound DEF StartOp
<1>5. CASE SyncAll \/ Environment
  <2>1. misled' = misled
    BY <1>5 DEF SyncAll, Environment, Write, Untrack, UntrackDone, Restart, NodeLost, counters
  <2>2. Sound
    BY <2>1 DEF SyncInv
  <2>3. QED
    BY <1>5, <2>2, SyncAllSound, WriteSound, ForgetSound, MoveSound DEF Environment
<1>6. QED
  BY <1>1, <1>2, <1>3, <1>4, <1>5 DEF Next

\* The manifest, the disk, the tracked entry and the running operation agree in
\* every reachable state before a discovery or a failed rename has left a wrong
\* entry (discoverVolumes, syncOne).
THEOREM SyncInvariant == Spec => []SyncInv
<1>1. Init => SyncInv
  BY SoundInit DEF SyncInv
<1>2. QED
  BY <1>1, SyncStep, PTL DEF Spec

\* Every snapshot restores to exactly the data it was taken of, on an empty node
\* and on this one, as long as no discovery and no failed rename has left a
\* wrong entry (syncOne, ensureParentLayer, BuildRestoreChain).
THEOREM RestoresExactly == Spec => []ExactUnlessMisled
<1>1. SyncInv => ExactUnlessMisled
  BY SoundIsExact DEF SyncInv, ExactUnlessMisled
<1>2. QED
  BY <1>1, SyncInvariant, PTL

\* A restore to a snapshot that did not report a failed save replaces only data
\* that the manifest has, under the same condition (doRestoreToSnapshot).
THEOREM UndoPointIsSaved == Spec => []UndoPointSaved
<1>1. SyncInv => UndoPointSaved
  BY DEF SyncInv, Sound, RestoreSound, UndoPointSaved
<1>2. QED
  BY <1>1, SyncInvariant, PTL

-----------------------------------------------------------------------------
(* The order of the manifest, also when the entry is wrong *)

\* A consolidation and HEAD are hashes of the manifest.
LEMMA OrderedHashes ==
  ASSUME OrderInv
  PROVE  /\ head \in DOMAIN snaps \cup {Base} /\ head \in Recorded
         /\ LatestConsolidation \in Recorded
         /\ NoHash \in Recorded /\ Base \in Recorded
BY LatestTyped DEF OrderInv, ParentsOlder, Recorded

\* An entry rebuilt from the manifest, from the disk or from nothing carries
\* hashes of the manifest.
LEMMA RebuiltRefers ==
  ASSUME OrderInv,
         NEW t, \/ t \in {tv, NoTv, AutoTracked, BareTracked}
                \/ \E ok \in BOOLEAN : t = Discovered(ok)
  PROVE  DOMAIN t = DOMAIN NoTv /\ Refers(t)
<1>1. DOMAIN tv = DOMAIN NoTv /\ Refers(tv)
  BY DEF OrderInv, CarriesRecorded
<1>2. DOMAIN NoTv = DOMAIN NoTv /\ Refers(NoTv)
  BY OrderedHashes DEF NoTv, Refers
<1>3. CASE t = AutoTracked
  BY <1>3, OrderedHashes DEF AutoTracked, Tracked, NoTv, Refers
<1>4. CASE t = BareTracked
  BY <1>4, OrderedHashes DEF BareTracked, Tracked, NoTv, Refers
<1>5. ASSUME NEW ok \in BOOLEAN, t = Discovered(ok)
      PROVE  DOMAIN t = DOMAIN NoTv /\ Refers(t)
  <2>1. PICK p, dirty : t = [IF ok THEN Tracked(head, p, LatestConsolidation,
                                                ConsolidationOnDisk, TRUE)
                                   ELSE Tracked(NoHash, p, NoHash, NoPath, FALSE)
                               EXCEPT !.dirty = dirty]
    BY <1>5 DEF Discovered
  <2>2. DOMAIN t = DOMAIN NoTv
    BY <2>1 DEF Tracked, NoTv
  <2>3. t.layer \in {head, NoHash} /\ t.consol \in {LatestConsolidation, NoHash}
    BY <2>1 DEF Tracked
  <2>4. QED
    BY <2>2, <2>3, OrderedHashes DEF Refers
<1>6. QED
  BY <1>1, <1>2, <1>3, <1>4, <1>5

\* A step that records nothing, and whose entry and operation carry hashes of
\* the manifest, keeps the order.
LEMMA OrderKept ==
  ASSUME OrderInv, snaps' = snaps, head' \in DOMAIN snaps \cup {Base},
         DOMAIN tv' = DOMAIN NoTv, Refers(tv'),
         \/ op' = op
         \/ op'.pc \in {"idle", "transfer", "moving"}
         \/ op'.pc \in {"replace", "finish"} /\ op'.target \in DOMAIN snaps \cup {Base}
  PROVE  OrderInv'
<1>1. Recorded' = Recorded
  BY DEF Recorded
<1>2. Numbered'
  BY DEF OrderInv, Numbered
<1>3. ParentsOlder'
  BY <1>1 DEF OrderInv, ParentsOlder
<1>4. CarriesRecorded'
  BY <1>1 DEF OrderInv, CarriesRecorded, Refers
<1>5. QED
  BY <1>2, <1>3, <1>4 DEF OrderInv

\* The steps of the environment, the periodic cycle, a discovery, and the steps
\* that end an untrack or a move.
LEMMA OrderOutside ==
  ASSUME OrderInv,
         Environment \/ SyncAll \/ Discover \/ Moved \/ MoveFails \/ TransferSnapshot
  PROVE  OrderInv'
<1>1. snaps' = snaps /\ head' \in DOMAIN snaps \cup {Base}
  BY OrderedHashes DEF Environment, Write, Untrack, UntrackDone, Restart, NodeLost, SyncAll,
     Discover, Moved, MoveFails, TransferSnapshot, manifest
<1>2. op' = op \/ op'.pc \in {"idle", "transfer", "moving"}
  BY DEF Environment, Write, Untrack, UntrackDone, Restart, NodeLost, SyncAll,
     Discover, Moved, MoveFails, TransferSnapshot, Idle
<1>3. \/ tv' \in {tv, NoTv} \/ \E ok \in BOOLEAN : tv' = Discovered(ok)
      \/ \E d : tv' = [tv EXCEPT !.dirty = d]
  BY DEF Environment, Write, Untrack, UntrackDone, Restart, NodeLost, SyncAll,
     Discover, Moved, MoveFails, TransferSnapshot, tracking
<1>4. DOMAIN tv' = DOMAIN NoTv /\ Refers(tv')
  <2>1. ASSUME NEW d, tv' = [tv EXCEPT !.dirty = d]
        PROVE  DOMAIN tv' = DOMAIN NoTv /\ Refers(tv')
    BY <2>1 DEF OrderInv, CarriesRecorded, Refers, NoTv
  <2>2. QED
    BY <1>3, <2>1, RebuiltRefers
<1>5. QED
  BY <1>1, <1>2, <1>4, OrderKept

\* What follows a sync that failed, or was rotated, carries the target that the
\* sync carried.
LEMMA OrderAfterSync ==
  ASSUME OrderInv, op.pc \in {"snapped", "sent", "recorded"}, NEW b, op' = AfterSync(b)
  PROVE  \/ op'.pc \in {"idle", "transfer", "moving"}
         \/ op'.pc \in {"replace", "finish"} /\ op'.target \in DOMAIN snaps \cup {Base}
BY DEF OrderInv, CarriesRecorded, AfterSync, Replacing, Idle

\* Failed syncs, and the rotation, whose new entry has the hash of HEAD.
LEMMA OrderSynced ==
  ASSUME OrderInv, RecoverParent \/ SyncFails \/ Rotate
  PROVE  OrderInv'
<1>1. /\ op.pc \in {"snapped", "sent", "recorded"} /\ snaps' = snaps
      /\ head' \in DOMAIN snaps \cup {Base}
  BY OrderedHashes DEF RecoverParent, SyncFails, Rotate, manifest
<1>2. op' = AfterSync(FALSE) \/ op' = AfterSync(TRUE)
  BY DEF RecoverParent, SyncFails, Rotate
<1>3. DOMAIN tv' = DOMAIN NoTv /\ Refers(tv')
  <2>1. CASE tv' \in {tv, NoTv}
    BY <2>1, RebuiltRefers
  <2>2. CASE RecoverParent \/ SyncFails
    BY <2>1, <2>2 DEF RecoverParent, SyncFails, tracking
  <2>3. CASE Rotate
    <3> DEFINE own  == op.blob.consolidation /\ op.kind # "restoreTo"
               new  == IF op.blob.consolidation THEN Consol(head) ELSE Layer(head)
               Done(path) == [tv EXCEPT !.layer = head, !.snap = path,
                                 !.consol = IF own THEN head ELSE @,
                                 !.consolPath = IF own THEN path ELSE @,
                                 !.dirty = @ /\ op.kind \in {"checkpoint", "restoreTo"}]
    <3>1. PICK path : tv' \in {tv, NoTv, Done(path)}
      BY <2>3 DEF Rotate
    <3> DEFINE done == Done(path)
    <3>2. /\ done.layer = head /\ done.consol \in {tv.consol, head}
          /\ DOMAIN done = DOMAIN NoTv
      BY DEF OrderInv, CarriesRecorded, NoTv
    <3>3. tv' \in {tv, NoTv, done}
      BY <3>1
    <3> HIDE DEF done
    <3>4. DOMAIN done = DOMAIN NoTv /\ Refers(done)
      BY <3>2, OrderedHashes DEF OrderInv, CarriesRecorded, Refers
    <3>5. QED
      BY <2>1, <3>3, <3>4
  <2>4. QED
    BY <2>2, <2>3
<1>4. QED
  BY <1>1, <1>2, <1>3, OrderAfterSync, OrderKept

\* The steps of a restore carry its target.
LEMMA OrderRestored ==
  ASSUME OrderInv, Replace \/ ReplaceFails \/ FinishRestoreVolume \/ FinishRestoreTo
  PROVE  OrderInv'
<1>1. op.target \in DOMAIN snaps \cup {Base}
  BY DEF OrderInv, CarriesRecorded, Replace, ReplaceFails, FinishRestoreVolume, FinishRestoreTo
<1>2. snaps' = snaps /\ head' \in DOMAIN snaps \cup {Base}
  BY <1>1, OrderedHashes DEF Replace, ReplaceFails, FinishRestoreVolume, FinishRestoreTo,
     manifest
<1>3. \/ op'.pc = "idle"
      \/ op'.pc = "finish" /\ op'.target \in DOMAIN snaps \cup {Base}
  BY <1>1 DEF Replace, ReplaceFails, FinishRestoreVolume, FinishRestoreTo, Idle
<1>4. DOMAIN tv' = DOMAIN NoTv /\ Refers(tv')
  <2>1. ASSUME NEW l \in Recorded, NEW c \in Recorded, NEW p, NEW q, NEW d,
               \/ tv' = [tv EXCEPT !.dirty = d]
               \/ tv' = [tv EXCEPT !.layer = l, !.snap = p, !.dirty = d]
               \/ tv' = [tv EXCEPT !.layer = l, !.snap = p, !.dirty = d, !.consol = c,
                            !.consolPath = q]
        PROVE  DOMAIN tv' = DOMAIN NoTv /\ Refers(tv')
    BY <2>1 DEF OrderInv, CarriesRecorded, Refers, NoTv
  <2>2. CASE tv' = tv
    BY <2>2, RebuiltRefers
  <2>3. /\ head \in Recorded /\ op.target \in Recorded /\ tv.consol \in Recorded
        /\ LatestConsolidation \in Recorded /\ Base \in Recorded
    BY <1>1, OrderedHashes DEF OrderInv, CarriesRecorded, Refers, Recorded
  <2>4. CASE Replace \/ ReplaceFails
    BY <2>2, <2>4 DEF Replace, ReplaceFails, tracking
  <2>5. CASE FinishRestoreVolume
    BY <2>1, <2>3, <2>5 DEF FinishRestoreVolume
  <2>6. CASE FinishRestoreTo
    <3> DEFINE c == LatestConsolidation
    <3>1. \/ tv' = tv
          \/ tv' = [tv EXCEPT !.layer = Base, !.snap = Template, !.dirty = tv.exists]
          \/ tv' = [tv EXCEPT !.layer = op.target, !.snap = Layer(op.target),
                       !.dirty = tv.exists,
                       !.consol = IF c = NoHash THEN @ ELSE c,
                       !.consolPath = IF c = NoHash THEN @ ELSE Layer(c)]
      BY <2>6 DEF FinishRestoreTo
    <3>2. (IF c = NoHash THEN tv.consol ELSE c) \in Recorded
      BY <2>3
    <3> HIDE DEF c
    <3>3. DOMAIN tv' = DOMAIN NoTv
      BY <3>1 DEF OrderInv, CarriesRecorded, NoTv
    <3>4. \/ tv'.layer = tv.layer /\ tv'.consol = tv.consol
          \/ tv'.layer = Base /\ tv'.consol = tv.consol
          \/ tv'.layer = op.target /\ tv'.consol = IF c = NoHash THEN tv.consol ELSE c
      BY <3>1 DEF OrderInv, CarriesRecorded, NoTv
    <3>5. QED
      BY <2>3, <3>2, <3>3, <3>4 DEF OrderInv, CarriesRecorded, Refers
  <2>7. QED
    BY <2>4, <2>5, <2>6
<1>5. QED
  BY <1>2, <1>3, <1>4, OrderKept

\* The snapshot of the volume is taken for an entry of the manifest's hashes.
LEMMA OrderSnapshot ==
  ASSUME OrderInv, CanSync, snaps' = snaps, head' = head,
         NEW kind, NEW target, NEW t, SnapshotVolume(kind, target, t), tv' = t,
         DOMAIN t = DOMAIN NoTv, Refers(t),
         kind = "restoreTo" => target \in DOMAIN snaps \cup {Base}
  PROVE  OrderInv'
<1>1. op'.pc = "snapped" /\ op'.kind = kind /\ op'.target = target /\ op'.t = t
  BY DEF SnapshotVolume
<1>2. Recorded' = Recorded
  BY DEF Recorded
<1>3. Numbered'
  <2>1. PICK k \in 0..MaxSnapshots : DOMAIN snaps = 1..k
    BY DEF OrderInv, Numbered
  <2>2. Cardinality(1..k) = k
    BY <2>1, FS_Interval
  <2>3. k < MaxSnapshots
    BY <2>1, <2>2 DEF CanSync
  <2>4. QED
    BY <2>1, <2>3 DEF Numbered
<1>4. ParentsOlder'
  BY <1>2 DEF OrderInv, ParentsOlder
<1>5. CarriesRecorded'
  BY <1>1, <1>2 DEF CarriesRecorded, Refers
<1>6. QED
  BY <1>3, <1>4, <1>5 DEF OrderInv

\* The steps that begin an operation.
LEMMA OrderStart ==
  ASSUME OrderInv, StartOp
  PROVE  OrderInv'
<1> DEFINE t == IF tv.exists THEN tv ELSE IF actorUp THEN AutoTracked ELSE BareTracked
<1>1. t \in {tv, AutoTracked, BareTracked}
  OBVIOUS
<1>2. DOMAIN t = DOMAIN NoTv /\ Refers(t)
  BY <1>1, RebuiltRefers
<1>3. DOMAIN tv = DOMAIN NoTv /\ Refers(tv)
  BY RebuiltRefers
<1>4. snaps' = snaps /\ head' = head /\ head \in DOMAIN snaps \cup {Base}
  BY OrderedHashes DEF StartOp, StartSync, StartCheckpoint, StartDrain, StartRestoreTo,
     StartRestoreVolume, StartMigrate, manifest
<1>5. CASE StartSync
  <2>1. CanSync /\ tv' = t /\ SnapshotVolume("sync", NoHash, t)
    BY <1>5 DEF StartSync
  <2> HIDE DEF t
  <2>2. QED
    BY <1>2, <1>4, <2>1, OrderSnapshot
<1>6. CASE StartCheckpoint \/ StartDrain
  <2>1. /\ CanSync /\ tv' = tv
        /\ SnapshotVolume("checkpoint", NoHash, tv) \/ SnapshotVolume("drain", NoHash, tv)
    BY <1>6 DEF StartCheckpoint, StartDrain, tracking
  <2>2. QED
    BY <1>3, <1>4, <2>1, OrderSnapshot
<1>7. CASE StartRestoreTo
  <2>1. CanSync /\ tv' = t
    BY <1>7 DEF StartRestoreTo
  <2>2. PICK target \in DOMAIN snaps \cup {Base} :
           \/ SnapshotVolume("restoreTo", target, t)
           \/ op' = Replacing("restoreTo", target, content, TRUE)
    BY <1>7 DEF StartRestoreTo
  <2> HIDE DEF t
  <2>3. CASE SnapshotVolume("restoreTo", target, t)
    BY <1>2, <1>4, <2>1, <2>3, OrderSnapshot
  <2>4. CASE op' = Replacing("restoreTo", target, content, TRUE)
    <3>1. op'.pc = "replace" /\ op'.target \in DOMAIN snaps \cup {Base}
      BY <2>4 DEF Replacing
    <3>2. QED
      BY <1>2, <1>4, <2>1, <3>1, OrderKept
  <2>5. QED
    BY <2>2, <2>3, <2>4
<1>8. CASE StartRestoreVolume
  <2>1. tv' \in {tv, BareTracked} /\ op'.pc = "replace" /\ op'.target = head
    BY <1>8 DEF StartRestoreVolume, Replacing
  <2>2. DOMAIN tv' = DOMAIN NoTv /\ Refers(tv')
    BY <2>1, RebuiltRefers
  <2>3. QED
    BY <1>4, <2>1, <2>2, OrderKept
<1>9. CASE StartMigrate
  <2>1. CanSync /\ tv' = t
    BY <1>9 DEF StartMigrate
  <2>2. SnapshotVolume("migrate", NoHash, t) \/ op'.pc = "transfer"
    BY <1>9 DEF StartMigrate
  <2> HIDE DEF t
  <2>3. CASE SnapshotVolume("migrate", NoHash, t)
    BY <1>2, <1>4, <2>1, <2>3, OrderSnapshot
  <2>4. CASE op'.pc = "transfer"
    BY <1>2, <1>4, <2>1, <2>4, OrderKept
  <2>5. QED
    BY <2>2, <2>3, <2>4
<1>10. QED
  BY <1>5, <1>6, <1>7, <1>8, <1>9 DEF StartOp

\* The blob that is sent claims a recorded snapshot, the template or nothing as
\* its parent, whatever the subvolume it was sent against.
LEMMA OrderSend ==
  ASSUME OrderInv, Send
  PROVE  OrderInv'
<1> DEFINE p == ChosenParent(op.t, Consolidates)
           blob == [parent |-> p.hash, consolidation |-> Consolidates,
                    base |-> IF p.path = NoPath THEN Full ELSE HeldBy(p.path),
                    holds |-> HeldBy(Pending)]
<1>1. /\ op.pc = "snapped" /\ snaps' = snaps /\ head' = head /\ tv' = tv
      /\ op' = [pc |-> "sent", kind |-> op.kind, target |-> op.target, t |-> op.t,
                started |-> op.started, blob |-> blob]
  BY DEF Send, tracking, manifest
<1>2. Refers(op.t) /\ (op.kind = "restoreTo" => op.target \in DOMAIN snaps \cup {Base})
  BY <1>1 DEF OrderInv, CarriesRecorded
<1>3. Recorded' = Recorded
  BY <1>1 DEF Recorded
<1>4. p.hash \in Recorded
  <2>1. Known(op.t, Consolidates).hash \in Recorded
    BY <1>2 DEF Known, Refers
  <2>2. ByTemplate(op.t).hash \in Recorded
    BY OrderedHashes DEF ByTemplate
  <2>3. QED
    BY <2>1, <2>2, OrderedHashes DEF ChosenParent
<1>5. blob.parent \in Recorded
  BY <1>4
<1> HIDE DEF blob
<1>6. /\ op'.pc = "sent" /\ op'.kind = op.kind /\ op'.target = op.target /\ op'.t = op.t
      /\ op'.blob = blob
  BY <1>1
<1>7. Numbered'
  BY <1>1, <1>6 DEF OrderInv, Numbered
<1>8. ParentsOlder'
  BY <1>1, <1>3 DEF OrderInv, ParentsOlder
<1>9. CarriesRecorded'
  BY <1>1, <1>2, <1>3, <1>5, <1>6 DEF OrderInv, CarriesRecorded, Refers
<1>10. QED
  BY <1>7, <1>8, <1>9 DEF OrderInv

\* The append gives the blob the next number, which is above its parent's.
LEMMA OrderAppend ==
  ASSUME OrderInv, AppendSnapshot
  PROVE  OrderInv'
<1>1. PICK k \in 0..MaxSnapshots : DOMAIN snaps = 1..k /\ k < MaxSnapshots
  BY DEF AppendSnapshot, OrderInv, Numbered
<1>2. NextHash = k + 1
  <2>1. Cardinality(1..k) = k
    BY <1>1, FS_Interval
  <2>2. QED
    BY <1>1, <2>1 DEF NextHash
<1>3. /\ op.pc = "sent" /\ head' = k + 1 /\ tv' = tv
      /\ snaps' = [h \in DOMAIN snaps \cup {k + 1} |->
                     IF h = k + 1 THEN op.blob ELSE snaps[h]]
  BY <1>2 DEF AppendSnapshot, tracking
<1>4. \/ op' = [pc |-> "recorded", kind |-> op.kind, target |-> op.target, t |-> op.t,
                started |-> op.started, blob |-> op.blob]
      \/ op' = AfterSync(FALSE)
  BY DEF AppendSnapshot
<1>5. DOMAIN snaps' = 1..(k + 1) /\ k + 1 \in 0..MaxSnapshots
  <2>1. 1..(k + 1) = (1..k) \cup {k + 1}
    BY <1>1
  <2>2. QED
    BY <1>1, <1>3, <2>1, VolumeSyncAssumption
<1>6. Recorded \in SUBSET Recorded' /\ DOMAIN snaps \in SUBSET DOMAIN snaps'
  BY <1>1, <1>5, VolumeSyncAssumption DEF Recorded
<1>7. op.blob.parent \in Recorded
  BY <1>3 DEF OrderInv, CarriesRecorded
<1>8. ParentsOlder'
  <2>1. ASSUME NEW h \in DOMAIN snaps
        PROVE  snaps'[h].parent \in Recorded' /\ snaps'[h].parent < h
    BY <1>1, <1>3, <1>6, VolumeSyncAssumption DEF OrderInv, ParentsOlder
  <2>2. snaps'[k + 1] = op.blob /\ op.blob.parent < k + 1
    BY <1>1, <1>3, <1>7, VolumeSyncAssumption DEF Recorded, Base, NoHash
  <2>3. \A h \in DOMAIN snaps' : h \in DOMAIN snaps \/ h = k + 1
    BY <1>3
  <2>4. head' \in DOMAIN snaps'
    BY <1>3
  <2>5. QED
    BY <1>6, <1>7, <2>1, <2>2, <2>3, <2>4 DEF ParentsOlder
<1>9. Refers(tv)' /\ DOMAIN tv' = DOMAIN NoTv
  BY <1>3, <1>6 DEF OrderInv, CarriesRecorded, Refers
<1>10. CASE op' = [pc |-> "recorded", kind |-> op.kind, target |-> op.target, t |-> op.t,
                   started |-> op.started, blob |-> op.blob]
  <2>1. op'.pc = "recorded" /\ op'.kind = op.kind /\ op'.target = op.target /\ op'.t = op.t
    BY <1>10
  <2>2. Refers(op.t) /\ (op.kind = "restoreTo" => op.target \in DOMAIN snaps \cup {Base})
    BY <1>3 DEF OrderInv, CarriesRecorded
  <2>3. Refers(op.t)'
    BY <1>6, <2>1, <2>2 DEF Refers
  <2>4. CarriesRecorded'
    BY <1>6, <1>9, <2>1, <2>2, <2>3 DEF CarriesRecorded
  <2>5. Numbered'
    BY <1>5, <2>1 DEF Numbered
  <2>6. QED
    BY <1>8, <2>4, <2>5 DEF OrderInv
<1>11. CASE op' = AfterSync(FALSE)
  <2>1. \/ op'.pc \in {"idle", "transfer", "moving"}
        \/ op'.pc \in {"replace", "finish"} /\ op'.target \in DOMAIN snaps \cup {Base}
    BY <1>3, <1>11, OrderAfterSync
  <2>2. CarriesRecorded'
    BY <1>6, <1>9, <2>1 DEF CarriesRecorded
  <2>3. Numbered'
    BY <1>5, <2>1 DEF Numbered
  <2>4. QED
    BY <1>8, <2>2, <2>3 DEF OrderInv
<1>12. QED
  BY <1>4, <1>10, <1>11

\* Whatever happens, a rediscovery included, the snapshots are numbered in the
\* order of their appends, the parent a snapshot records is an older snapshot,
\* the template or nothing, and HEAD and the hashes the daemon tracks are of the
\* manifest: every walk along parents ends (GetSnapshotChain, syncOne,
\* discoverVolumes, doRestoreToSnapshot).
THEOREM ManifestOrdered == Spec => []OrderInv
<1>1. Init => OrderInv
  <2> SUFFICES ASSUME Init PROVE OrderInv
    OBVIOUS
  <2>1. DOMAIN snaps = {} /\ head = Base /\ op.pc = "idle"
    BY DEF Init, Idle
  <2>2. 0 \in 0..MaxSnapshots /\ DOMAIN snaps = 1..0
    BY <2>1, VolumeSyncAssumption
  <2>3. Numbered /\ ParentsOlder
    BY <2>1, <2>2 DEF Numbered, ParentsOlder
  <2>4. CarriesRecorded
    BY <2>1 DEF Init, CarriesRecorded, Refers, Recorded, Tracked, NoTv
  <2>5. QED
    BY <2>3, <2>4 DEF OrderInv
<1>2. OrderInv /\ [Next]_vars => OrderInv'
  <2> SUFFICES ASSUME OrderInv, [Next]_vars PROVE OrderInv'
    OBVIOUS
  <2>1. CASE UNCHANGED vars
    <3>1. snaps' = snaps /\ head' = head /\ tv' = tv /\ op' = op
      BY <2>1 DEF vars, manifest, tracking
    <3>2. QED
      BY <3>1, RebuiltRefers, OrderedHashes, OrderKept
  <2>2. CASE ActorStep
    BY <2>2, OrderSynced, OrderSend, OrderAppend, OrderRestored, OrderOutside DEF ActorStep
  <2>3. CASE StartOp
    BY <2>3, OrderStart
  <2>4. CASE SyncAll \/ Discover \/ Environment
    BY <2>4, OrderOutside
  <2>5. QED
    BY <2>1, <2>2, <2>3, <2>4 DEF Next
<1>3. QED
  BY <1>1, <1>2, PTL DEF Spec
=============================================================================

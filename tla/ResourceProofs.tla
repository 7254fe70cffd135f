--------------------------- MODULE ResourceProofs ---------------------------
(***************************************************************************)
(* What sandboxes are made of.  Registered images stay whole and the files *)
(* of an image in use stay as they are; a clone runs on its own disk and   *)
(* TAPs; the records of the CNI and bridge networks cover what is on the   *)
(* host.  All this for any number of images, layers, operations, clones,   *)
(* slots, sandboxes and addresses, and any failures and crashes.           *)
(***************************************************************************)
EXTENDS Images, Copies, Network, TLAPS

USE Zenon    \* unless a leaf names another prover

(* A committed layer row holds a conversion, and images that share a source *)
(* digest agree on it.                                                      *)
RowsAgree ==
    \A m \in registered : \A l \in LayersOf[m] :
        /\ row[m][l] \in Conversions
        /\ \A n \in registered : l \in LayersOf[n] => row[n][l] = row[m][l]

(* The locks of a layer: one writer, or readers.                            *)
LocksCompatible == \A l \in Layers : excl[l] # None => shared[l] \subseteq {excl[l]}

Importing == {"convert", "lock", "publish", "boot"}

(* What an operation knows at its step.                                     *)
OpFacts(p) ==
    /\ step[p] \in Importing => ref[p] \in Names
    /\ step[p] \in Importing \cup {"rlock", "check", "use", "xlock", "unregister"} => man[p] \in Manifests
    /\ step[p] \in {"convert", "publish", "boot"} => todo[p] \subseteq LayersOf[man[p]]
    /\ step[p] \in {"publish", "boot", "unregister"} => \A l \in LayersOf[man[p]] : excl[l] = p
    /\ step[p] \in {"check", "use"} => \A l \in LayersOf[man[p]] : p \in shared[l]
    /\ step[p] \in {"collect", "erofs", "rmboot"} => \A l \in todo[p] : excl[l] = p
    /\ step[p] \in {"erofs", "rmboot"} => \A l \in todo[p] : \A m \in registered : l \notin LayersOf[m]
    /\ step[p] \in {"boot", "rmboot"} => cur[p] \in todo[p]
    /\ step[p] = "convert" => \A l \in LayersOf[man[p]] \ todo[p] : got[p][l] # None
    /\ step[p] \in {"lock", "publish", "boot"} => \A l \in LayersOf[man[p]] : got[p][l] # None
    /\ step[p] = "boot" => got[p][cur[p]] \in Conversions
    /\ step[p] = "boot" => \A m \in registered : cur[p] \in LayersOf[m] => row[m][cur[p]] = got[p][cur[p]]

ImagesInv ==
    /\ TypeOK
    /\ RowsAgree
    /\ ImagesStayUsable
    /\ LocksCompatible
    /\ \A p \in Procs : OpFacts(p)

-----------------------------------------------------------------------------
(* Facts shared by the steps *)

LEMMA Typing ==
    /\ \A m \in Manifests : LayersOf[m] \subseteq Layers
    /\ None \notin Manifests /\ None \notin Conversions /\ None \notin Procs
    /\ None # Cached /\ None # Rotten /\ Cached \notin Conversions /\ Rotten \notin Conversions
    /\ Cached # Rotten
BY LayersOfAssumption, NullAssumption

(* FindLayers is empty just when no image refers to the layer.              *)
LEMMA FindLayersFacts ==
    ASSUME TypeOK, RowsAgree, NEW l \in Layers
    PROVE  /\ FindLayers(l) \subseteq Conversions
           /\ FindLayers(l) = {} => \A m \in registered : l \notin LayersOf[m]
           /\ \A m \in registered : l \in LayersOf[m] => row[m][l] \in FindLayers(l)
BY DEF FindLayers, RowsAgree, TypeOK

(* A name or digest resolves to a registered image.                         *)
LEMMA ResolvedIsRegistered ==
    ASSUME TypeOK, AliasesLead, NEW r \in Names \cup Manifests, Resolve(r) # None
    PROVE  Resolve(r) \in registered /\ Resolve(r) \in Manifests
BY DEF Resolve, AliasesLead, TypeOK

(* A step of one operation keeps what another knows, when it takes no lock  *)
(* from it and commits no image over a layer that is locked.                *)
LEMMA OthersKeep ==
    ASSUME NEW q \in Procs, OpFacts(q), TypeOK,
           step'[q] = step[q], ref'[q] = ref[q], man'[q] = man[q], got'[q] = got[q],
           todo'[q] = todo[q], cur'[q] = cur[q],
           \A l \in Layers : excl[l] = q => excl'[l] = q,
           \A l \in Layers : q \in shared[l] => q \in shared'[l],
           \A m \in registered' : \A l \in LayersOf[m] :
               excl[l] = q => m \in registered /\ row'[m][l] = row[m][l]
    PROVE  OpFacts(q)'
<1>1. man[q] \in Manifests => LayersOf[man[q]] \subseteq Layers
  BY Typing
<1>2. todo[q] \subseteq Layers
  BY DEF TypeOK
<1> QED
  BY SMTT(30), <1>1, <1>2 DEF OpFacts, Importing

(* What the return of an operation changes.                                 *)
LEMMA ReturnFacts ==
    ASSUME TypeOK, LocksCompatible, NEW p \in Procs, Return(p)
    PROVE  /\ LocksCompatible' /\ OpFacts(p)'
           /\ excl' \in [Layers -> Procs \cup {None}] /\ shared' \in [Layers -> SUBSET Procs]
           /\ step' \in [Procs -> Steps] /\ ref' \in [Procs -> Names \cup Manifests \cup {None}]
           /\ man' \in [Procs -> Manifests \cup {None}]
           /\ known' \in [Procs -> [Layers -> SUBSET Conversions]]
           /\ got' \in [Procs -> [Layers -> Conversions \cup {None, Cached}]]
           /\ todo' \in [Procs -> SUBSET Layers] /\ cur' \in [Procs -> Layers \cup {None}]
           /\ \A q \in Procs \ {p} :
                /\ step'[q] = step[q] /\ ref'[q] = ref[q] /\ man'[q] = man[q] /\ got'[q] = got[q]
                /\ todo'[q] = todo[q] /\ cur'[q] = cur[q]
                /\ \A l \in Layers : excl[l] = q => excl'[l] = q
                /\ \A l \in Layers : q \in shared[l] => q \in shared'[l]
<1>1. LocksCompatible'
  BY Typing DEF Return, LocksCompatible, TypeOK
<1>2. step'[p] = "idle"
  BY DEF Return, Goto, TypeOK
<1>3. OpFacts(p)'
  BY <1>2 DEF OpFacts, Importing
<1>4. /\ excl' \in [Layers -> Procs \cup {None}] /\ shared' \in [Layers -> SUBSET Procs]
      /\ step' \in [Procs -> Steps] /\ ref' \in [Procs -> Names \cup Manifests \cup {None}]
      /\ man' \in [Procs -> Manifests \cup {None}]
      /\ known' \in [Procs -> [Layers -> SUBSET Conversions]]
      /\ got' \in [Procs -> [Layers -> Conversions \cup {None, Cached}]]
      /\ todo' \in [Procs -> SUBSET Layers] /\ cur' \in [Procs -> Layers \cup {None}]
  BY DEF Return, Goto, TypeOK, Steps, NoLayers
<1>5. \A q \in Procs \ {p} :
        /\ step'[q] = step[q] /\ ref'[q] = ref[q] /\ man'[q] = man[q] /\ got'[q] = got[q]
        /\ todo'[q] = todo[q] /\ cur'[q] = cur[q]
        /\ \A l \in Layers : excl[l] = q => excl'[l] = q
        /\ \A l \in Layers : q \in shared[l] => q \in shared'[l]
  BY DEF Return, Goto, TypeOK
<1> QED
  BY <1>1, <1>3, <1>4, <1>5

(* An operation that returns without touching catalog, files or pins.       *)
LEMMA ReturnKeeps ==
    ASSUME ImagesInv, NEW p \in Procs, Return(p), UNCHANGED <<catalog, files, pins>>,
           requests' \in Nat, faults' \in Nat
    PROVE  ImagesInv'
<1> USE DEF ImagesInv
<1>1. TypeOK'
  BY ReturnFacts DEF TypeOK, catalog, files, pins
<1>2. RowsAgree' /\ ImagesStayUsable'
  BY SMTT(30) DEF RowsAgree, ImagesStayUsable, ImagesWhole, PinnedRegistered, AliasesLead, catalog, files, pins
<1>3. \A q \in Procs \ {p} : OpFacts(q)'
  BY ReturnFacts, OthersKeep DEF catalog
<1> QED
  BY <1>1, <1>2, <1>3, ReturnFacts

(* What depends on parts of the state that a step leaves alone.             *)
LEMMA RowsKept ==
    ASSUME RowsAgree, UNCHANGED <<registered, row>>
    PROVE  RowsAgree'
BY SMTT(30) DEF RowsAgree

LEMMA WholeKept ==
    ASSUME ImagesWhole, UNCHANGED <<registered, row, erofs, boot>>
    PROVE  ImagesWhole'
BY DEF ImagesWhole

(* A file may be replaced by what every row says of its layer.              *)
LEMMA WholeAfter ==
    ASSUME ImagesWhole, UNCHANGED <<registered, row>>,
           \A m \in registered : \A l \in LayersOf[m] :
               /\ erofs'[l] \in {erofs[l], row[m][l]}
               /\ boot'[l] \in {boot[l], row[m][l]}
    PROVE  ImagesWhole'
BY SMTT(30) DEF ImagesWhole

LEMMA PinsKept ==
    ASSUME PinnedRegistered, UNCHANGED <<registered, pin, foreign>>
    PROVE  PinnedRegistered'
BY DEF PinnedRegistered

LEMMA AliasesKept ==
    ASSUME AliasesLead, UNCHANGED <<registered, names>>
    PROVE  AliasesLead'
BY DEF AliasesLead

LEMMA LocksKept ==
    ASSUME LocksCompatible, UNCHANGED <<excl, shared>>
    PROVE  LocksCompatible'
BY DEF LocksCompatible

LEMMA InitInv == Init => ImagesInv
<1> SUFFICES ASSUME Init PROVE ImagesInv
  OBVIOUS
<1>1. TypeOK
  BY Typing DEF Init, TypeOK, NoLayers, File, Steps
<1>2. \A p \in Procs : OpFacts(p)
  BY DEF Init, OpFacts, Importing
<1> QED
  BY <1>1, <1>2 DEF ImagesInv, Init, RowsAgree, ImagesStayUsable, ImagesWhole, PinnedRegistered,
     AliasesLead, LocksCompatible, NoLayers

-----------------------------------------------------------------------------
(* Begin, failures and pins *)

LEMMA BeginKeeps ==
    ASSUME ImagesInv, NEW p \in Procs, NEW r \in Names \cup Manifests, NEW m \in Manifests,
           NEW s, NEW S, Begin(p, r, m, s, S),
           known' \in [Procs -> [Layers -> SUBSET Conversions]],
           \/ s = "convert" /\ r \in Names /\ S = LayersOf[m]
           \/ s \in {"rlock", "xlock"} /\ S = {}
    PROVE  ImagesInv'
<1> USE DEF ImagesInv
<1>1. S \subseteq Layers /\ s \in Steps
  BY Typing DEF Steps
<1>2. TypeOK'
  <2>1. /\ ref' \in [Procs -> Names \cup Manifests \cup {None}]
        /\ man' \in [Procs -> Manifests \cup {None}]
        /\ todo' \in [Procs -> SUBSET Layers] /\ step' \in [Procs -> Steps]
        /\ requests' \in Nat
    BY SMTT(30), <1>1, BoundAssumption DEF Begin, TypeOK, Goto
  <2>2. UNCHANGED <<registered, row, names, erofs, boot, pin, foreign, excl, shared, got, cur, faults>>
    BY DEF Begin, catalog, files, pins, locks
  <2> QED
    BY <2>1, <2>2 DEF TypeOK
<1>3. RowsAgree' /\ ImagesStayUsable' /\ LocksCompatible'
  <2>1. UNCHANGED <<registered, row, names, erofs, boot, pin, foreign, excl, shared>>
    BY DEF Begin, catalog, files, pins, locks
  <2> QED
    BY <2>1, RowsKept, WholeKept, PinsKept, AliasesKept, LocksKept DEF ImagesStayUsable
<1>4. OpFacts(p)'
  <2>1. ref'[p] = r /\ man'[p] = m /\ step'[p] = s /\ todo'[p] = S
    BY DEF Begin, Goto, TypeOK
  <2> QED
    BY <2>1 DEF OpFacts, Importing
<1>5. \A q \in Procs \ {p} : OpFacts(q)'
  BY OthersKeep DEF Begin, Goto, TypeOK, catalog, locks
<1> QED
  BY <1>2, <1>3, <1>4, <1>5

LEMMA RequestsKeep ==
    ASSUME ImagesInv, NEW p \in Procs,
           \/ \E n \in Names, m \in Manifests : ImportBegin(p, n, m)
           \/ \E r \in Names \cup Manifests : GuardBegin(p, r) \/ RemoveBegin(p, r)
    PROVE  ImagesInv'
<1> USE DEF ImagesInv
<1>1. ASSUME NEW n \in Names, NEW m \in Manifests, ImportBegin(p, n, m)
      PROVE  ImagesInv'
  <2>1. known' \in [Procs -> [Layers -> SUBSET Conversions]]
    BY <1>1, FindLayersFacts DEF ImportBegin, TypeOK
  <2> QED
    BY <1>1, <2>1, BeginKeeps DEF ImportBegin
<1>2. ASSUME NEW r \in Names \cup Manifests, GuardBegin(p, r) \/ RemoveBegin(p, r)
      PROVE  ImagesInv'
  <2>1. Resolve(r) \in Manifests
    BY <1>2, ResolvedIsRegistered DEF GuardBegin, RemoveBegin, ImagesStayUsable
  <2>2. known' \in [Procs -> [Layers -> SUBSET Conversions]]
    BY <1>2 DEF GuardBegin, RemoveBegin, TypeOK
  <2> QED
    BY <1>2, <2>1, <2>2, BeginKeeps DEF GuardBegin, RemoveBegin
<1> QED
  BY <1>1, <1>2

LEMMA AbandonKeeps ==
    ASSUME ImagesInv, NEW p \in Procs, Abandon(p)
    PROVE  ImagesInv'
<1>1. requests' \in Nat /\ faults' \in Nat
  BY SMTT(30), BoundAssumption DEF Abandon, ImagesInv, TypeOK
<1> QED
  BY <1>1, ReturnKeeps DEF Abandon

(* Steps that leave locks, locals and catalog alone: damage and pins.       *)
LEMMA RotKeeps ==
    ASSUME ImagesInv, NEW l \in Layers, Rot(l)
    PROVE  ImagesInv'
<1> USE DEF ImagesInv
<1>0. UNCHANGED <<registered, row, names, pin, foreign, excl, shared, step, ref, man, known, got,
                  todo, cur, requests>>
  BY DEF Rot, catalog, pins, locks, locals
<1>1. /\ erofs' \in [Layers -> File] /\ boot' \in [Layers -> File] /\ faults' \in Nat
      /\ \A k \in Layers : erofs'[k] \in {erofs[k], Rotten} /\ boot'[k] \in {boot[k], Rotten}
  <2>1. faults' \in Nat
    BY SMTT(30), BoundAssumption DEF Rot, TypeOK
  <2>2. CASE erofs' = [erofs EXCEPT ![l] = Rotten] /\ UNCHANGED boot
    BY <2>1, <2>2 DEF TypeOK, File
  <2>3. CASE boot' = [boot EXCEPT ![l] = Rotten] /\ UNCHANGED erofs
    BY <2>1, <2>3 DEF TypeOK, File
  <2> QED
    BY <2>2, <2>3 DEF Rot
<1>2. TypeOK'
  BY <1>0, <1>1 DEF TypeOK
<1>3. RowsAgree' /\ LocksCompatible'
  BY <1>0, RowsKept, LocksKept
<1>4. PinnedRegistered' /\ AliasesLead'
  BY <1>0, PinsKept, AliasesKept DEF ImagesStayUsable
<1>5. ImagesWhole'
  BY <1>0, <1>1, Typing DEF ImagesStayUsable, ImagesWhole, TypeOK
<1>6. \A q \in Procs : OpFacts(q)'
  BY <1>0, OthersKeep
<1> QED
  BY <1>2, <1>3, <1>4, <1>5, <1>6 DEF ImagesStayUsable

LEMMA PinsKeep ==
    ASSUME ImagesInv, UNCHANGED <<catalog, files, locks, locals, bounds>>,
           pin' \in [Holders -> Manifests \cup {None}], foreign' \subseteq Snapshots, PinnedRegistered'
    PROVE  ImagesInv'
<1> USE DEF ImagesInv
<1>0. UNCHANGED <<registered, row, names, erofs, boot, excl, shared, step, ref, man, known, got,
                  todo, cur, requests, faults>>
  BY DEF catalog, files, locks, locals, bounds
<1>1. TypeOK'
  BY <1>0 DEF TypeOK
<1>2. RowsAgree' /\ LocksCompatible' /\ ImagesWhole' /\ AliasesLead'
  BY <1>0, RowsKept, LocksKept, WholeKept, AliasesKept DEF ImagesStayUsable
<1>3. \A q \in Procs : OpFacts(q)'
  BY <1>0, OthersKeep
<1> QED
  BY <1>1, <1>2, <1>3 DEF ImagesStayUsable

(* A capture pins what its sandbox pins; an archive's pin promises nothing. *)
LEMMA SnapshotPinKeeps ==
    ASSUME ImagesInv, NEW h \in Snapshots, SnapshotPin(h)
    PROVE  ImagesInv'
<1> USE DEF ImagesInv
<1>1. h \in Holders /\ UNCHANGED registered
  BY DEF Holders, SnapshotPin, catalog
<1>2. CASE \E s \in Sandboxes : pin[s] # None /\ pin' = [pin EXCEPT ![h] = pin[s]]
                                /\ foreign' = foreign \ {h}
  <2>1. PICK s \in Sandboxes : pin[s] # None /\ pin' = [pin EXCEPT ![h] = pin[s]]
                               /\ foreign' = foreign \ {h}
    BY <1>2
  <2>2. s \in Holders \ foreign
    BY DisjointAssumption DEF Holders, TypeOK
  <2>3. pin[s] \in registered
    BY <2>1, <2>2 DEF ImagesStayUsable, PinnedRegistered
  <2>4. pin' \in [Holders -> Manifests \cup {None}] /\ foreign' \subseteq Snapshots
    BY <2>1, <2>2, <1>1 DEF TypeOK
  <2>5. PinnedRegistered'
    BY <2>1, <2>3, <1>1 DEF ImagesStayUsable, PinnedRegistered, TypeOK
  <2> QED
    BY <2>4, <2>5, PinsKeep DEF SnapshotPin
<1>3. CASE \E m \in Manifests : pin' = [pin EXCEPT ![h] = m] /\ foreign' = foreign \cup {h}
  <2>1. pin' \in [Holders -> Manifests \cup {None}] /\ foreign' \subseteq Snapshots
    BY <1>3, <1>1 DEF TypeOK
  <2>2. PinnedRegistered'
    BY <1>3, <1>1 DEF ImagesStayUsable, PinnedRegistered, TypeOK
  <2> QED
    BY <2>1, <2>2, PinsKeep DEF SnapshotPin
<1> QED
  BY <1>2, <1>3 DEF SnapshotPin

LEMMA UnpinKeeps ==
    ASSUME ImagesInv, NEW h \in Holders, Unpin(h)
    PROVE  ImagesInv'
<1> USE DEF ImagesInv
<1>1. pin' \in [Holders -> Manifests \cup {None}] /\ foreign' \subseteq Snapshots
  BY DEF Unpin, TypeOK
<1>2. PinnedRegistered'
  BY DEF Unpin, ImagesStayUsable, PinnedRegistered, TypeOK, catalog
<1> QED
  BY <1>1, <1>2, PinsKeep DEF Unpin

-----------------------------------------------------------------------------
(* Steps of an operation *)

LocalsTyped ==
    /\ step \in [Procs -> Steps] /\ ref \in [Procs -> Names \cup Manifests \cup {None}]
    /\ man \in [Procs -> Manifests \cup {None}] /\ known \in [Procs -> [Layers -> SUBSET Conversions]]
    /\ got \in [Procs -> [Layers -> Conversions \cup {None, Cached}]]
    /\ todo \in [Procs -> SUBSET Layers] /\ cur \in [Procs -> Layers \cup {None}]

LocksTyped == excl \in [Layers -> Procs \cup {None}] /\ shared \in [Layers -> SUBSET Procs]

(* The step changes the locals of p only, and takes no lock from others.    *)
StepOf(p) ==
    \A q \in Procs \ {p} :
        /\ step'[q] = step[q] /\ ref'[q] = ref[q] /\ man'[q] = man[q] /\ got'[q] = got[q]
        /\ todo'[q] = todo[q] /\ cur'[q] = cur[q]
        /\ \A l \in Layers : excl[l] = q => excl'[l] = q
        /\ \A l \in Layers : q \in shared[l] => q \in shared'[l]

LEMMA OthersKeepStep ==
    ASSUME ImagesInv, NEW p \in Procs, StepOf(p), UNCHANGED <<registered, row>>
    PROVE  \A q \in Procs \ {p} : OpFacts(q)'
BY OthersKeep DEF StepOf, ImagesInv

(* Steps that leave catalog, files and pins alone.                          *)
LEMMA LocalStepKeeps ==
    ASSUME ImagesInv, NEW p \in Procs, StepOf(p), UNCHANGED <<catalog, files, pins, bounds>>,
           LocalsTyped', LocksTyped', LocksCompatible', OpFacts(p)'
    PROVE  ImagesInv'
<1> USE DEF ImagesInv
<1>0. UNCHANGED <<registered, row, names, erofs, boot, pin, foreign, requests, faults>>
  BY DEF catalog, files, pins, bounds
<1>1. TypeOK'
  BY <1>0 DEF TypeOK, LocalsTyped, LocksTyped
<1>2. RowsAgree' /\ ImagesStayUsable'
  BY <1>0, RowsKept, WholeKept, PinsKept, AliasesKept DEF ImagesStayUsable
<1>3. \A q \in Procs \ {p} : OpFacts(q)'
  BY <1>0, OthersKeepStep
<1> QED
  BY <1>1, <1>2, <1>3

(* Steps that change files under the writer's lock: the images stay whole.  *)
LEMMA FileStepKeeps ==
    ASSUME ImagesInv, NEW p \in Procs, StepOf(p), UNCHANGED <<catalog, pins, locks, requests>>,
           faults' \in Nat, LocalsTyped', OpFacts(p)', ImagesWhole',
           erofs' \in [Layers -> File], boot' \in [Layers -> File]
    PROVE  ImagesInv'
<1> USE DEF ImagesInv
<1>0. UNCHANGED <<registered, row, names, pin, foreign, excl, shared, requests>>
  BY DEF catalog, pins, locks
<1>1. TypeOK'
  BY <1>0 DEF TypeOK, LocalsTyped
<1>2. RowsAgree' /\ LocksCompatible'
  BY <1>0, RowsKept, LocksKept
<1>3. PinnedRegistered' /\ AliasesLead'
  BY <1>0, PinsKept, AliasesKept DEF ImagesStayUsable
<1>4. \A q \in Procs \ {p} : OpFacts(q)'
  BY <1>0, OthersKeepStep
<1> QED
  BY <1>1, <1>2, <1>3, <1>4 DEF ImagesStayUsable

LEMMA ImportLayerKeeps ==
    ASSUME ImagesInv, NEW p \in Procs, NEW l \in Layers, ImportLayer(p, l)
    PROVE  ImagesInv'
<1> USE DEF ImagesInv
<1>1. PICK v \in Conversions \cup {Cached} : got' = [got EXCEPT ![p][l] = v]
  BY DEF ImportLayer
<1>2. /\ got'[p][l] = v /\ \A k \in Layers \ {l} : got'[p][k] = got[p][k]
      /\ todo'[p] = todo[p] \ {l} /\ l \in todo[p] /\ step[p] = "convert"
      /\ step'[p] = IF todo[p] = {l} THEN "lock" ELSE "convert"
      /\ man' = man /\ ref' = ref
  BY <1>1 DEF ImportLayer, TypeOK, Goto
<1>3. LocalsTyped' /\ LocksTyped' /\ LocksCompatible'
  <2>1. got' \in [Procs -> [Layers -> Conversions \cup {None, Cached}]]
    BY <1>1 DEF TypeOK
  <2>2. step' \in [Procs -> Steps] /\ todo' \in [Procs -> SUBSET Layers]
    BY DEF ImportLayer, TypeOK, Goto, Steps
  <2> QED
    BY <2>1, <2>2 DEF ImportLayer, LocalsTyped, LocksTyped, LocksCompatible, TypeOK, locks
<1>4. StepOf(p)
  BY <1>1 DEF ImportLayer, StepOf, TypeOK, Goto, locks
<1>5. OpFacts(p)'
  <2>1. man[p] \in Manifests /\ ref[p] \in Names /\ todo[p] \subseteq LayersOf[man[p]]
        /\ \A k \in LayersOf[man[p]] \ todo[p] : got[p][k] # None
    BY <1>2 DEF OpFacts, Importing
  <2>2. v # None
    BY Typing
  <2>3. \A k \in LayersOf[man[p]] \ todo'[p] : got'[p][k] # None
    BY <1>2, <2>1, <2>2, Typing
  <2> QED
    BY <1>2, <2>1, <2>3 DEF OpFacts, Importing
<1> QED
  BY <1>3, <1>4, <1>5, LocalStepKeeps DEF ImportLayer, bounds

(* Import and removal lock all layers of their image.                       *)
LEMMA LockFacts ==
    ASSUME TypeOK, NEW p \in Procs, NEW S \in SUBSET Layers, Lock(p, S)
    PROVE  /\ LocksTyped' /\ (LocksCompatible => LocksCompatible')
           /\ \A l \in S : excl'[l] = p
           /\ \A q \in Procs \ {p} : /\ \A l \in Layers : excl[l] = q => excl'[l] = q
                                     /\ \A l \in Layers : q \in shared[l] => q \in shared'[l]
BY Typing DEF Lock, CanLock, LocksTyped, LocksCompatible, TypeOK

LEMMA ImportLockKeeps ==
    ASSUME ImagesInv, NEW p \in Procs, ImportLock(p)
    PROVE  ImagesInv'
<1> USE DEF ImagesInv
<1>1. /\ man[p] \in Manifests /\ ref[p] \in Names /\ LayersOf[man[p]] \subseteq Layers
      /\ \A l \in LayersOf[man[p]] : got[p][l] # None
  BY Typing DEF ImportLock, OpFacts, Importing
<1>2. todo'[p] = LayersOf[man[p]] /\ step'[p] = "publish" /\ UNCHANGED <<man, ref, got, known, cur>>
  BY DEF ImportLock, Goto, TypeOK
<1>3. LocalsTyped'
  BY <1>1 DEF ImportLock, LocalsTyped, TypeOK, Goto, Steps
<1>4. StepOf(p)
  <2>1. \A q \in Procs \ {p} : step'[q] = step[q] /\ todo'[q] = todo[q]
    BY DEF ImportLock, TypeOK, Goto
  <2>2. Lock(p, LayersOf[man[p]])
    BY DEF ImportLock
  <2> QED
    BY <1>1, <1>2, <2>1, <2>2, LockFacts DEF StepOf
<1>5. OpFacts(p)'
  <2>1. \A l \in LayersOf[man[p]] : excl'[l] = p
    BY <1>1, LockFacts DEF ImportLock
  <2> QED
    BY <1>1, <1>2, <2>1 DEF OpFacts, Importing
<1> QED
  BY <1>1, <1>3, <1>4, <1>5, LockFacts, LocalStepKeeps DEF ImportLock

LEMMA ImportReuseKeeps ==
    ASSUME ImagesInv, NEW p \in Procs, NEW l \in Layers, ImportReuse(p, l)
    PROVE  ImagesInv'
<1> USE DEF ImagesInv
<1>1. PICK v \in FindLayers(l) : got' = [got EXCEPT ![p][l] = v]
  BY DEF ImportReuse
<1>2. v \in Conversions
  BY FindLayersFacts
<1>3. /\ got'[p][l] = v /\ \A k \in Layers \ {l} : got'[p][k] = got[p][k]
      /\ todo'[p] = todo[p] \ {l} /\ step[p] = "publish"
      /\ UNCHANGED <<step, man, ref, known, cur, excl, shared>>
  BY <1>1 DEF ImportReuse, TypeOK, locks
<1>4. LocalsTyped' /\ LocksTyped' /\ LocksCompatible'
  <2>1. got' \in [Procs -> [Layers -> Conversions \cup {None, Cached}]] /\ todo' \in [Procs -> SUBSET Layers]
    BY <1>1, <1>2 DEF ImportReuse, TypeOK
  <2> QED
    BY <2>1, <1>3 DEF LocalsTyped, LocksTyped, LocksCompatible, TypeOK
<1>5. StepOf(p)
  BY <1>1, <1>3 DEF ImportReuse, StepOf, TypeOK
<1>6. OpFacts(p)'
  <2>1. v # None
    BY <1>2, Typing
  <2>2. /\ man[p] \in Manifests /\ ref[p] \in Names /\ todo[p] \subseteq LayersOf[man[p]]
        /\ \A k \in LayersOf[man[p]] : got[p][k] # None
        /\ \A k \in LayersOf[man[p]] : excl[k] = p
    BY <1>3 DEF OpFacts, Importing
  <2>3. \A k \in LayersOf[man[p]] : got'[p][k] # None
    BY <1>3, <2>1, <2>2, Typing
  <2> QED
    BY <1>3, <2>2, <2>3 DEF OpFacts, Importing
<1> QED
  BY <1>4, <1>5, <1>6, LocalStepKeeps DEF ImportReuse

(* A layer is replaced only by the conversion all its images agreed on.     *)
LEMMA ImportPublishKeeps ==
    ASSUME ImagesInv, NEW p \in Procs, NEW l \in Layers, ImportPublish(p, l)
    PROVE  ImagesInv'
<1> USE DEF ImagesInv
<1>1. /\ step[p] = "publish" /\ l \in todo[p] /\ man[p] \in Manifests /\ ref[p] \in Names
      /\ todo[p] \subseteq LayersOf[man[p]]
      /\ \A k \in LayersOf[man[p]] : got[p][k] # None /\ excl[k] = p
  BY DEF ImportPublish, OpFacts, Importing
<1>2. got[p][l] \in Conversions
  <2>1. got[p][l] # Cached /\ got[p][l] # None
    BY <1>1 DEF ImportPublish, Publishable
  <2> QED
    BY SMTT(30), <2>1 DEF TypeOK
<1>3. \A m \in registered : l \in LayersOf[m] => row[m][l] = got[p][l]
  BY FindLayersFacts DEF ImportPublish, Publishable
<1>4. /\ step'[p] = "boot" /\ cur'[p] = l /\ UNCHANGED <<registered, row, man, ref, got, todo, excl, shared>>
      /\ \A q \in Procs \ {p} : step'[q] = step[q] /\ cur'[q] = cur[q]
  BY DEF ImportPublish, Goto, TypeOK, catalog, locks
<1>5. LocalsTyped' /\ StepOf(p)
  BY <1>4 DEF ImportPublish, LocalsTyped, StepOf, TypeOK, Goto, Steps
<1>6. OpFacts(p)'
  BY <1>1, <1>2, <1>3, <1>4 DEF OpFacts, Importing
<1>7. erofs' \in [Layers -> File] /\ boot' \in [Layers -> File]
  BY <1>2 DEF ImportPublish, TypeOK, File
<1>8. ImagesWhole'
  <2>1. /\ erofs'[l] = got[p][l] /\ \A k \in Layers \ {l} : erofs'[k] = erofs[k]
        /\ UNCHANGED boot
    BY DEF ImportPublish, TypeOK
  <2>2. \A m \in registered : LayersOf[m] \subseteq Layers
    BY Typing DEF TypeOK
  <2> QED
    BY <1>3, <1>4, <2>1, <2>2, WholeAfter DEF ImagesStayUsable
<1>9. faults' \in Nat /\ UNCHANGED <<catalog, pins, locks, requests>>
  BY DEF ImportPublish, bounds, TypeOK
<1> QED
  BY <1>5, <1>6, <1>7, <1>8, <1>9, FileStepKeeps

LEMMA ImportPublishBootKeeps ==
    ASSUME ImagesInv, NEW p \in Procs, ImportPublishBoot(p)
    PROVE  ImagesInv'
<1> USE DEF ImagesInv
<1>1. /\ step[p] = "boot" /\ man[p] \in Manifests /\ ref[p] \in Names
      /\ todo[p] \subseteq LayersOf[man[p]] /\ cur[p] \in todo[p]
      /\ \A k \in LayersOf[man[p]] : got[p][k] # None /\ excl[k] = p
      /\ got[p][cur[p]] \in Conversions
      /\ \A m \in registered : cur[p] \in LayersOf[m] => row[m][cur[p]] = got[p][cur[p]]
  BY DEF ImportPublishBoot, OpFacts, Importing
<1>2. cur[p] \in Layers
  BY <1>1 DEF TypeOK
<1>3. /\ step'[p] = "publish" /\ todo'[p] = todo[p] \ {cur[p]}
      /\ UNCHANGED <<registered, row, man, ref, got, cur, excl, shared>>
      /\ \A q \in Procs \ {p} : step'[q] = step[q] /\ todo'[q] = todo[q]
  BY DEF ImportPublishBoot, Goto, TypeOK, catalog, locks
<1>4. LocalsTyped' /\ StepOf(p)
  BY <1>3 DEF ImportPublishBoot, LocalsTyped, StepOf, TypeOK, Goto, Steps
<1>5. OpFacts(p)'
  BY <1>1, <1>3 DEF OpFacts, Importing
<1>6. erofs' \in [Layers -> File] /\ boot' \in [Layers -> File]
  BY <1>1 DEF ImportPublishBoot, TypeOK, File
<1>7. ImagesWhole'
  <2>1. /\ boot'[cur[p]] = got[p][cur[p]] /\ \A k \in Layers \ {cur[p]} : boot'[k] = boot[k]
        /\ UNCHANGED erofs
    BY <1>2 DEF ImportPublishBoot, TypeOK
  <2>2. \A m \in registered : LayersOf[m] \subseteq Layers
    BY Typing DEF TypeOK
  <2>3. \A m \in registered : \A l \in LayersOf[m] :
            erofs'[l] \in {erofs[l], row[m][l]} /\ boot'[l] \in {boot[l], row[m][l]}
    <3> SUFFICES ASSUME NEW m \in registered, NEW l \in LayersOf[m]
                 PROVE  boot'[l] \in {boot[l], row[m][l]}
      BY <2>1
    <3>1. CASE l = cur[p]
      BY <1>1, <2>1, <3>1
    <3>2. CASE l # cur[p]
      BY <2>1, <2>2, <3>2
    <3> QED
      BY <3>1, <3>2
  <2>4. ImagesWhole /\ UNCHANGED <<registered, row>>
    BY <1>3 DEF ImagesStayUsable
  <2> QED
    BY <2>3, <2>4, WholeAfter
<1>8. faults' \in Nat /\ UNCHANGED <<catalog, pins, locks, requests>>
  BY DEF ImportPublishBoot, bounds, TypeOK
<1> QED
  BY <1>4, <1>5, <1>6, <1>7, <1>8, FileStepKeeps

LEMMA BoundsTyped == ASSUME ImagesInv, UNCHANGED bounds PROVE requests' \in Nat /\ faults' \in Nat
BY DEF ImagesInv, TypeOK, bounds

LEMMA ImportRefusedKeeps ==
    ASSUME ImagesInv, NEW p \in Procs, NEW l \in Layers, ImportRefused(p, l)
    PROVE  ImagesInv'
BY BoundsTyped, ReturnKeeps DEF ImportRefused

(* The commit: the verified files are what is recorded, so the new rows     *)
(* agree with those of every image that shares a layer.  Nobody else can    *)
(* be at work on these layers, because the importer has them locked.        *)
LEMMA ImportCommitKeeps ==
    ASSUME ImagesInv, NEW p \in Procs, ImportCommit(p)
    PROVE  ImagesInv'
<1> USE DEF ImagesInv
<1> DEFINE m == man[p]
<1>1. CASE UNCHANGED catalog
  BY <1>1, BoundsTyped, ReturnKeeps DEF ImportCommit
<1>2. CASE /\ CommitAllowed(p)
           /\ registered' = registered \cup {m}
           /\ row' = [row EXCEPT ![m] = [l \in Layers |-> IF l \in LayersOf[m] THEN got[p][l] ELSE None]]
           /\ names' = [names EXCEPT ![ref[p]] = m]
  <2>1. /\ m \in Manifests /\ ref[p] \in Names /\ LayersOf[m] \subseteq Layers
        /\ \A l \in LayersOf[m] : got[p][l] # None /\ excl[l] = p
    <3>1. step[p] = "publish"
      BY DEF ImportCommit
    <3>2. m \in Manifests /\ ref[p] \in Names
      BY <3>1 DEF OpFacts, Importing
    <3>3. \A l \in LayersOf[m] : got[p][l] # None /\ excl[l] = p
      BY <3>1 DEF OpFacts
    <3> QED
      BY <3>2, <3>3, Typing
  <2>2. \A l \in LayersOf[m] : /\ got[p][l] \in Conversions
                               /\ erofs[l] = got[p][l] /\ boot[l] = got[p][l]
    <3> SUFFICES ASSUME NEW l \in LayersOf[m]
                 PROVE  got[p][l] \in Conversions /\ erofs[l] = got[p][l] /\ boot[l] = got[p][l]
      OBVIOUS
    <3>1. l \in Layers /\ erofs[l] = got[p][l] /\ boot[l] = got[p][l] /\ got[p][l] # None
      BY <1>2, <2>1 DEF CommitAllowed, verifyLayer
    <3>2. erofs[l] \in File /\ got[p][l] \in Conversions \cup {None, Cached}
      BY SMTT(30), <3>1 DEF TypeOK
    <3> QED
      BY <3>1, <3>2, Typing DEF File
  <2>3. /\ \A l \in LayersOf[m] : row'[m][l] = got[p][l]
        /\ \A n \in Manifests \ {m} : row'[n] = row[n]
    BY <1>2, <2>1 DEF TypeOK
  <2>4. \A n \in registered : \A l \in LayersOf[n] : l \in LayersOf[m] => row[n][l] = got[p][l]
    <3> SUFFICES ASSUME NEW n \in registered, NEW l \in LayersOf[n], l \in LayersOf[m]
                 PROVE  row[n][l] = got[p][l]
      OBVIOUS
    <3>1. erofs[l] \in {row[n][l], Rotten}
      BY DEF ImagesStayUsable, ImagesWhole
    <3>2. erofs[l] = got[p][l] /\ got[p][l] \in Conversions
      BY <2>2
    <3> QED
      BY <3>1, <3>2, Typing
  <2>5. UNCHANGED <<erofs, boot, pin, foreign, requests, faults>>
    BY DEF ImportCommit, files, pins, bounds
  <2>6. TypeOK'
    <3>1. registered' \subseteq Manifests /\ names' \in [Names -> Manifests \cup {None}]
      BY <1>2, <2>1 DEF TypeOK
    <3>2. row' \in [Manifests -> [Layers -> Conversions \cup {None}]]
      <4>1. [l \in Layers |-> IF l \in LayersOf[m] THEN got[p][l] ELSE None]
              \in [Layers -> Conversions \cup {None}]
        BY <2>2
      <4> QED
        BY <1>2, <4>1 DEF TypeOK
    <3> QED
      BY <3>1, <3>2, <2>5, ReturnFacts DEF TypeOK, ImportCommit
  <2>7. \A n \in registered' : \A l \in LayersOf[n] :
            /\ row'[n][l] \in Conversions
            /\ l \in LayersOf[m] => row'[n][l] = got[p][l]
            /\ l \notin LayersOf[m] => n \in registered /\ row'[n] = row[n]
    <3> SUFFICES ASSUME NEW n \in registered', NEW l \in LayersOf[n]
                 PROVE  /\ row'[n][l] \in Conversions
                        /\ l \in LayersOf[m] => row'[n][l] = got[p][l]
                        /\ l \notin LayersOf[m] => n \in registered /\ row'[n] = row[n]
      OBVIOUS
    <3>1. CASE n = m
      BY <3>1, <2>2, <2>3
    <3>2. CASE n # m
      <4>1. n \in registered /\ n \in Manifests \ {m}
        BY <1>2, <3>2 DEF TypeOK
      <4>2. row'[n] = row[n] /\ row[n][l] \in Conversions
        BY <4>1, <2>3 DEF RowsAgree
      <4> QED
        BY <4>1, <4>2, <2>4
    <3> QED
      BY <3>1, <3>2
  <2>8. RowsAgree'
    BY SMTT(30), <2>7 DEF RowsAgree
  <2>9. ImagesWhole'
    BY SMTT(30), <2>2, <2>5, <2>7 DEF ImagesStayUsable, ImagesWhole
  <2>10. PinnedRegistered'
    BY <1>2, <2>5 DEF ImagesStayUsable, PinnedRegistered
  <2>11. AliasesLead'
    <3>1. /\ names'[ref[p]] = m /\ names[ref[p]] \in {None, m}
          /\ \A n \in Names \ {ref[p]} : names'[n] = names[n]
      BY <1>2, <2>1 DEF CommitAllowed, TypeOK
    <3>2. None \notin registered
      BY Typing DEF TypeOK
    <3> QED
      <4>1. \A n \in Names : names'[n] # None => names'[n] \in registered'
        <5> SUFFICES ASSUME NEW n \in Names, names'[n] # None PROVE names'[n] \in registered'
          OBVIOUS
        <5>a. m \in registered' /\ registered \subseteq registered'
          BY <1>2
        <5>1. CASE n = ref[p]
          BY ONLY <3>1, <5>1, <5>a
        <5>2. CASE n # ref[p]
          <6>1. names'[n] = names[n] /\ names[n] # None
            BY <3>1, <5>2
          <6>2. names[n] \in registered
            BY <6>1 DEF ImagesStayUsable, AliasesLead
          <6> QED
            BY ONLY <5>a, <6>1, <6>2
        <5> QED
          BY <5>1, <5>2
      <4>2. \A k \in registered : \E n \in Names : names'[n] = k
        <5> SUFFICES ASSUME NEW k \in registered PROVE \E n \in Names : names'[n] = k
          OBVIOUS
        <5>1. PICK n \in Names : names[n] = k
          BY DEF ImagesStayUsable, AliasesLead
        <5>2. n # ref[p] => names'[n] = k
          BY <3>1, <5>1
        <5>3. n = ref[p] => names'[n] = k
          BY <3>1, <3>2, <5>1
        <5> QED
          BY <5>2, <5>3
      <4> QED
        BY <1>2, <2>1, <3>1, <4>1, <4>2 DEF AliasesLead
  <2>12. Return(p)
    BY DEF ImportCommit
  <2>13. \A q \in Procs \ {p} : OpFacts(q)'
    <3>1. \A q \in Procs \ {p} : \A n \in registered' : \A l \in LayersOf[n] :
              excl[l] = q => n \in registered /\ row'[n][l] = row[n][l]
      BY <2>1, <2>7
    <3> QED
      BY <2>12, <3>1, ReturnFacts, OthersKeep
  <2> QED
    BY <2>6, <2>8, <2>9, <2>10, <2>11, <2>12, <2>13, ReturnFacts DEF ImagesStayUsable
<1> QED
  BY <1>1, <1>2 DEF ImportCommit

LEMMA GuardLockKeeps ==
    ASSUME ImagesInv, NEW p \in Procs, GuardLock(p)
    PROVE  ImagesInv'
<1> USE DEF ImagesInv
<1>1. man[p] \in Manifests /\ LayersOf[man[p]] \subseteq Layers
  BY Typing DEF GuardLock, OpFacts
<1>2. /\ LocksTyped' /\ LocksCompatible' /\ UNCHANGED excl
      /\ \A l \in LayersOf[man[p]] : p \in shared'[l]
      /\ \A l \in Layers : shared[l] \subseteq shared'[l]
  BY <1>1 DEF GuardLock, RLock, LocksTyped, LocksCompatible, TypeOK
<1>3. /\ step'[p] = "check" /\ UNCHANGED <<ref, man, got, todo, cur>>
      /\ \A q \in Procs \ {p} : step'[q] = step[q]
  BY DEF GuardLock, Goto, TypeOK
<1>4. LocalsTyped'
  BY DEF GuardLock, LocalsTyped, TypeOK, Goto, Steps
<1>5. StepOf(p)
  BY <1>2, <1>3 DEF StepOf
<1>6. OpFacts(p)'
  BY <1>1, <1>2, <1>3 DEF OpFacts, Importing
<1> QED
  BY <1>2, <1>4, <1>5, <1>6, LocalStepKeeps DEF GuardLock

LEMMA GuardCheckKeeps ==
    ASSUME ImagesInv, NEW p \in Procs, GuardCheck(p)
    PROVE  ImagesInv'
<1>1. CASE Goto(p, "use") /\ UNCHANGED <<locks, ref, man, known, got, todo, cur>>
  <2> USE DEF ImagesInv
  <2>1. /\ step[p] = "check" /\ step'[p] = "use" /\ \A q \in Procs \ {p} : step'[q] = step[q]
        /\ UNCHANGED <<excl, shared>>
    BY <1>1 DEF GuardCheck, Goto, TypeOK, locks
  <2>2. LocalsTyped' /\ LocksTyped' /\ LocksCompatible' /\ StepOf(p)
    BY <1>1, <2>1 DEF LocalsTyped, LocksTyped, LocksCompatible, StepOf, TypeOK, Goto, Steps
  <2>3. OpFacts(p)'
    BY <1>1, <2>1 DEF OpFacts, Importing
  <2> QED
    BY <2>2, <2>3, LocalStepKeeps DEF GuardCheck
<1>2. CASE Return(p)
  BY <1>2, BoundsTyped, ReturnKeeps DEF GuardCheck
<1> QED
  BY <1>1, <1>2 DEF GuardCheck

(* The reservation resolves in its own transaction, so what it pins is      *)
(* registered at that moment.                                               *)
LEMMA GuardUseKeeps ==
    ASSUME ImagesInv, NEW p \in Procs, GuardUse(p)
    PROVE  ImagesInv'
<1>1. CASE UNCHANGED pin
  BY <1>1, BoundsTyped, ReturnKeeps DEF GuardUse, pins
<1>2. CASE /\ Resolve(ref[p]) = man[p]
           /\ \E s \in Sandboxes : pin[s] = None /\ pin' = [pin EXCEPT ![s] = man[p]]
  <2> USE DEF ImagesInv
  <2>1. PICK s \in Sandboxes : pin' = [pin EXCEPT ![s] = man[p]]
    BY <1>2
  <2>2. man[p] \in Manifests
    BY DEF GuardUse, OpFacts
  <2>3. man[p] \in registered
    BY <1>2, <2>2, Typing DEF Resolve, ImagesStayUsable, AliasesLead, TypeOK
  <2>4. UNCHANGED <<registered, row, names, erofs, boot, foreign, requests, faults>>
    BY DEF GuardUse, catalog, files, bounds
  <2>5. TypeOK'
    BY <2>1, <2>2, <2>4, ReturnFacts DEF GuardUse, TypeOK
  <2>6. RowsAgree' /\ ImagesWhole' /\ AliasesLead'
    BY <2>4, RowsKept, WholeKept, AliasesKept DEF ImagesStayUsable
  <2>7. PinnedRegistered'
    BY <2>1, <2>3, <2>4 DEF ImagesStayUsable, PinnedRegistered, TypeOK
  <2>8. \A q \in Procs \ {p} : OpFacts(q)'
    BY <2>4, ReturnFacts, OthersKeep DEF GuardUse
  <2> QED
    BY <2>5, <2>6, <2>7, <2>8, ReturnFacts DEF GuardUse, ImagesStayUsable
<1> QED
  BY <1>1, <1>2 DEF GuardUse

LEMMA RemoveLockKeeps ==
    ASSUME ImagesInv, NEW p \in Procs, RemoveLock(p)
    PROVE  ImagesInv'
<1> USE DEF ImagesInv
<1>1. man[p] \in Manifests /\ LayersOf[man[p]] \subseteq Layers
  BY Typing DEF RemoveLock, OpFacts
<1>2. /\ step'[p] = "unregister" /\ UNCHANGED <<man, ref, got, todo, cur>>
      /\ \A q \in Procs \ {p} : step'[q] = step[q]
  BY DEF RemoveLock, Goto, TypeOK
<1>3. LocalsTyped'
  BY DEF RemoveLock, LocalsTyped, TypeOK, Goto, Steps
<1>4. StepOf(p)
  BY <1>1, <1>2, LockFacts DEF RemoveLock, StepOf
<1>5. OpFacts(p)'
  <2>1. \A l \in LayersOf[man[p]] : excl'[l] = p
    BY <1>1, LockFacts DEF RemoveLock
  <2> QED
    BY <1>1, <1>2, <2>1 DEF OpFacts, Importing
<1> QED
  BY <1>1, <1>3, <1>4, <1>5, LockFacts, LocalStepKeeps DEF RemoveLock

(* Aliases of other images stay; of the image itself some remain, or the    *)
(* record goes with the last one.                                           *)
LEMMA DroppedAliases ==
    ASSUME TypeOK, NEW r, NEW m \in Manifests, DropAliases(r, m)
    PROVE  /\ names' \in [Names -> Manifests \cup {None}]
           /\ \A n \in Names : names[n] # m => names'[n] = names[n]
           /\ \A n \in Names : names'[n] \in {names[n], None}
           /\ Remaining(r, m) = {} => \A n \in Names : names'[n] # m
           /\ Remaining(r, m) # {} => \E n \in Names : names'[n] = m
BY Typing DEF DropAliases, Aliases, Remaining, TypeOK

(* Store.Remove: the record goes only when nothing refers to it, and the    *)
(* layers to delete are those no other image has.                           *)
LEMMA RemoveRecordKeeps ==
    ASSUME ImagesInv, NEW p \in Procs, RemoveRecord(p)
    PROVE  ImagesInv'
<1> USE DEF ImagesInv
<1> DEFINE r == ref[p]
           m == man[p]
<1>1. m \in Manifests /\ LayersOf[m] \subseteq Layers /\ \A l \in LayersOf[m] : excl[l] = p
  BY Typing DEF RemoveRecord, OpFacts
<1>2. UNCHANGED <<erofs, boot, pin, foreign, requests, faults>>
  BY DEF RemoveRecord, files, pins, bounds
<1>3. CASE Remaining(r, m) # {} /\ DropAliases(r, m) /\ Return(p) /\ UNCHANGED <<registered, row>>
  <2>1. TypeOK'
    BY <1>1, <1>2, <1>3, DroppedAliases, ReturnFacts DEF TypeOK
  <2>2. RowsAgree' /\ ImagesWhole' /\ PinnedRegistered'
    BY <1>2, <1>3, RowsKept, WholeKept, PinsKept DEF ImagesStayUsable
  <2>3. AliasesLead'
    <3>0. /\ \A n \in Names : names[n] # m => names'[n] = names[n]
          /\ \A n \in Names : names'[n] \in {names[n], None}
          /\ \E n \in Names : names'[n] = m
      BY <1>1, <1>3, DroppedAliases
    <3>1. \A n \in Names : names'[n] # None => names'[n] \in registered
      BY <3>0 DEF ImagesStayUsable, AliasesLead
    <3>2. \A k \in registered : \E n \in Names : names'[n] = k
      BY <3>0 DEF ImagesStayUsable, AliasesLead
    <3> QED
      BY <1>3, <3>1, <3>2 DEF AliasesLead
  <2>4. \A q \in Procs \ {p} : OpFacts(q)'
    BY <1>3, ReturnFacts, OthersKeep
  <2> QED
    BY <1>3, <2>1, <2>2, <2>3, <2>4, ReturnFacts DEF ImagesStayUsable
<1>4. CASE /\ Remaining(r, m) = {} /\ ~InUse(m)
           /\ DropAliases(r, m)
           /\ registered' = registered \ {m}
           /\ row' = [row EXCEPT ![m] = NoLayers]
           /\ todo' = [todo EXCEPT ![p] = Unreferenced(m)]
           /\ Goto(p, "erofs")
           /\ UNCHANGED <<locks, ref, man, known, got, cur>>
  <2>1. /\ step'[p] = "erofs" /\ todo'[p] = Unreferenced(m)
        /\ \A q \in Procs \ {p} : step'[q] = step[q] /\ todo'[q] = todo[q]
        /\ UNCHANGED <<excl, shared>>
    BY <1>4 DEF Goto, TypeOK, locks
  <2>2. \A k \in registered' : k \in registered /\ k \in Manifests /\ row'[k] = row[k]
    BY <1>4 DEF TypeOK
  <2>3. TypeOK'
    <3>1. row' \in [Manifests -> [Layers -> Conversions \cup {None}]] /\ registered' \subseteq Manifests
      BY <1>4 DEF TypeOK, NoLayers
    <3>2. step' \in [Procs -> Steps] /\ todo' \in [Procs -> SUBSET Layers]
      BY <1>1, <1>4 DEF TypeOK, Goto, Steps, Unreferenced
    <3> QED
      BY <1>1, <1>2, <1>4, <2>1, <3>1, <3>2, DroppedAliases DEF TypeOK
  <2>4. RowsAgree' /\ LocksCompatible'
    <3>1. RowsAgree'
      BY SMTT(30), <2>2 DEF RowsAgree
    <3> QED
      BY <2>1, <3>1, LocksKept
  <2>5. ImagesWhole'
    BY <1>2, <2>2 DEF ImagesStayUsable, ImagesWhole
  <2>6. PinnedRegistered'
    BY <1>2, <1>4 DEF ImagesStayUsable, PinnedRegistered, InUse
  <2>7. AliasesLead'
    <3>0. /\ \A n \in Names : names[n] # m => names'[n] = names[n]
          /\ \A n \in Names : names'[n] \in {names[n], None}
          /\ \A n \in Names : names'[n] # m
      <4>1. DropAliases(r, m) /\ Remaining(r, m) = {}
        BY <1>4
      <4>2. TypeOK /\ m \in Manifests
        BY <1>1
      <4> QED
        BY ONLY SMTT(30), <4>1, <4>2, DroppedAliases
    <3>a. registered' = registered \ {m}
      BY <1>4
    <3>1. \A n \in Names : names'[n] # None => names'[n] \in registered'
      <4> SUFFICES ASSUME NEW n \in Names, names'[n] # None PROVE names'[n] \in registered \ {m}
        BY <3>a
      <4>1. names'[n] = names[n] /\ names'[n] # m
        BY <3>0
      <4> QED
        BY <4>1 DEF ImagesStayUsable, AliasesLead
    <3>2. \A k \in registered' : \E n \in Names : names'[n] = k
      <4> SUFFICES ASSUME NEW k \in registered, k # m PROVE \E n \in Names : names'[n] = k
        BY <3>a
      <4>1. PICK n \in Names : names[n] = k
        BY DEF ImagesStayUsable, AliasesLead
      <4> QED
        BY <3>0, <4>1
    <3> QED
      BY <3>1, <3>2 DEF AliasesLead
  <2>8. OpFacts(p)'
    BY <1>1, <1>4, <2>1 DEF OpFacts, Importing, Unreferenced
  <2>9. \A q \in Procs \ {p} : OpFacts(q)'
    BY <1>4, <2>1, <2>2, OthersKeep
  <2> QED
    BY <2>3, <2>4, <2>5, <2>6, <2>7, <2>8, <2>9 DEF ImagesStayUsable
<1>5. CASE Return(p) /\ UNCHANGED catalog
  BY <1>5, BoundsTyped, ReturnKeeps DEF RemoveRecord
<1> QED
  BY <1>3, <1>4, <1>5 DEF RemoveRecord

LEMMA CollectBeginKeeps ==
    ASSUME ImagesInv, NEW p \in Procs, NEW l \in Layers, CollectBegin(p, l)
    PROVE  ImagesInv'
<1> USE DEF ImagesInv
<1>1. /\ step'[p] = "collect" /\ todo'[p] = {l} /\ excl'[l] = p /\ excl[l] = None
      /\ UNCHANGED <<ref, man, got, cur, known, shared>>
      /\ \A q \in Procs \ {p} : step'[q] = step[q] /\ todo'[q] = todo[q]
      /\ \A k \in Layers \ {l} : excl'[k] = excl[k]
  BY DEF CollectBegin, CanLock, Goto, TypeOK
<1>2. LocalsTyped' /\ LocksTyped'
  BY DEF CollectBegin, LocalsTyped, LocksTyped, TypeOK, Goto, Steps
<1>3. LocksCompatible'
  BY <1>1 DEF CollectBegin, CanLock, LocksCompatible
<1>4. StepOf(p)
  BY SMTT(30), <1>1, Typing DEF StepOf
<1>5. OpFacts(p)'
  BY <1>1 DEF OpFacts, Importing
<1> QED
  BY <1>2, <1>3, <1>4, <1>5, LocalStepKeeps DEF CollectBegin

LEMMA CollectCheckKeeps ==
    ASSUME ImagesInv, NEW p \in Procs, CollectCheck(p)
    PROVE  ImagesInv'
<1>1. CASE /\ \A l \in todo[p] : FindLayers(l) = {}
           /\ Goto(p, "erofs") /\ UNCHANGED <<locks, ref, man, known, got, todo, cur>>
  <2> USE DEF ImagesInv
  <2>1. /\ step[p] = "collect" /\ step'[p] = "erofs" /\ \A q \in Procs \ {p} : step'[q] = step[q]
        /\ UNCHANGED <<excl, shared, registered>>
    BY <1>1 DEF CollectCheck, Goto, TypeOK, locks, catalog
  <2>2. LocalsTyped' /\ LocksTyped' /\ LocksCompatible' /\ StepOf(p)
    BY <1>1, <2>1 DEF LocalsTyped, LocksTyped, LocksCompatible, StepOf, TypeOK, Goto, Steps
  <2>3. \A l \in todo[p] : \A m \in registered : l \notin LayersOf[m]
    BY <1>1, FindLayersFacts DEF TypeOK
  <2>4. OpFacts(p)'
    BY <1>1, <2>1, <2>3 DEF OpFacts, Importing
  <2> QED
    BY <2>2, <2>4, LocalStepKeeps DEF CollectCheck
<1>2. CASE Return(p)
  BY <1>2, BoundsTyped, ReturnKeeps DEF CollectCheck
<1> QED
  BY <1>1, <1>2 DEF CollectCheck

(* Deletions: no registered image has the layer.                            *)
LEMMA DeleteErofsKeeps ==
    ASSUME ImagesInv, NEW p \in Procs, NEW l \in Layers, DeleteErofs(p, l)
    PROVE  ImagesInv'
<1> USE DEF ImagesInv
<1>1. /\ step[p] = "erofs" /\ l \in todo[p] /\ step'[p] = "rmboot" /\ cur'[p] = l
      /\ UNCHANGED <<ref, man, known, got, todo, excl, shared, registered, row, boot>>
      /\ \A q \in Procs \ {p} : step'[q] = step[q] /\ cur'[q] = cur[q]
  BY DEF DeleteErofs, Goto, TypeOK, locks, catalog
<1>2. LocalsTyped' /\ StepOf(p)
  BY <1>1 DEF DeleteErofs, LocalsTyped, StepOf, TypeOK, Goto, Steps
<1>3. OpFacts(p)'
  BY <1>1 DEF OpFacts, Importing
<1>4. \A m \in registered : l \notin LayersOf[m]
  BY <1>1 DEF OpFacts
<1>5. erofs' \in [Layers -> File] /\ \A k \in Layers \ {l} : erofs'[k] = erofs[k]
  <2>1. CASE erofs' = [erofs EXCEPT ![l] = None]
    BY <2>1 DEF TypeOK, File
  <2> QED
    BY <2>1 DEF DeleteErofs, TypeOK
<1>6. ImagesWhole'
  <2>1. \A m \in registered : LayersOf[m] \subseteq Layers
    BY Typing DEF TypeOK
  <2>2. \A m \in registered : \A k \in LayersOf[m] : erofs'[k] = erofs[k] /\ boot'[k] = boot[k]
    BY <1>1, <1>4, <1>5, <2>1
  <2> QED
    BY SMTT(30), <1>1, <2>2 DEF ImagesStayUsable, ImagesWhole
<1>7. faults' \in Nat
  BY SMTT(30) DEF DeleteErofs, TypeOK
<1>8. boot' \in [Layers -> File]
  BY <1>1 DEF TypeOK
<1> QED
  BY <1>2, <1>3, <1>5, <1>6, <1>7, <1>8, FileStepKeeps DEF DeleteErofs

LEMMA DeleteBootKeeps ==
    ASSUME ImagesInv, NEW p \in Procs, DeleteBoot(p)
    PROVE  ImagesInv'
<1> USE DEF ImagesInv
<1>0. step[p] = "rmboot" /\ cur[p] \in todo[p]
  BY DEF DeleteBoot, OpFacts
<1>1. /\ step'[p] = "erofs" /\ todo'[p] = todo[p] \ {cur[p]}
      /\ UNCHANGED <<ref, man, known, got, cur, excl, shared, registered, row, erofs>>
      /\ \A q \in Procs \ {p} : step'[q] = step[q] /\ todo'[q] = todo[q]
  BY DEF DeleteBoot, Goto, TypeOK, locks, catalog
<1>2. LocalsTyped' /\ StepOf(p)
  BY <1>1 DEF DeleteBoot, LocalsTyped, StepOf, TypeOK, Goto, Steps
<1>3. OpFacts(p)'
  BY <1>0, <1>1 DEF OpFacts, Importing
<1>4. cur[p] \in Layers /\ \A m \in registered : cur[p] \notin LayersOf[m]
  BY <1>0 DEF OpFacts, TypeOK
<1>5. boot' \in [Layers -> File] /\ \A k \in Layers \ {cur[p]} : boot'[k] = boot[k]
  <2>1. CASE boot' = [boot EXCEPT ![cur[p]] = None]
    BY <2>1 DEF TypeOK, File
  <2> QED
    BY <2>1 DEF DeleteBoot, TypeOK
<1>6. ImagesWhole'
  <2>1. \A m \in registered : LayersOf[m] \subseteq Layers
    BY Typing DEF TypeOK
  <2>2. \A m \in registered : \A k \in LayersOf[m] : erofs'[k] = erofs[k] /\ boot'[k] = boot[k]
    BY <1>1, <1>4, <1>5, <2>1
  <2> QED
    BY <1>1, <2>2 DEF ImagesStayUsable, ImagesWhole
<1>7. faults' \in Nat
  BY SMTT(30) DEF DeleteBoot, TypeOK
<1>8. erofs' \in [Layers -> File]
  BY <1>1 DEF TypeOK
<1> QED
  BY <1>2, <1>3, <1>5, <1>6, <1>7, <1>8, FileStepKeeps DEF DeleteBoot

LEMMA DeleteDoneKeeps ==
    ASSUME ImagesInv, NEW p \in Procs, DeleteDone(p)
    PROVE  ImagesInv'
BY BoundsTyped, ReturnKeeps DEF DeleteDone

-----------------------------------------------------------------------------

LEMMA ContinueKeeps ==
    ASSUME ImagesInv, NEW p \in Procs, Continue(p)
    PROVE  ImagesInv'
BY ImportLayerKeeps, ImportReuseKeeps, ImportPublishKeeps, ImportRefusedKeeps, DeleteErofsKeeps,
   ImportLockKeeps, ImportPublishBootKeeps, ImportCommitKeeps, GuardLockKeeps, GuardCheckKeeps,
   GuardUseKeeps, RemoveLockKeeps, RemoveRecordKeeps, CollectCheckKeeps, DeleteBootKeeps,
   DeleteDoneKeeps
DEF Continue

LEMMA NextKeepsInv == ImagesInv /\ [Next]_vars => ImagesInv'
<1> SUFFICES ASSUME ImagesInv, [Next]_vars PROVE ImagesInv'
  OBVIOUS
<1>1. CASE Next
  BY <1>1, RequestsKeep, CollectBeginKeeps, ContinueKeeps, AbandonKeeps, SnapshotPinKeeps,
     UnpinKeeps, RotKeeps DEF Next
<1>2. CASE UNCHANGED vars
  <2>1. UNCHANGED <<catalog, files, locks, locals, bounds>> /\ UNCHANGED <<pin, foreign>>
    BY <1>2 DEF vars, pins
  <2>2. PinnedRegistered'
    BY <2>1 DEF ImagesInv, ImagesStayUsable, PinnedRegistered, catalog
  <2>3. pin' \in [Holders -> Manifests \cup {None}] /\ foreign' \subseteq Snapshots
    BY <2>1 DEF ImagesInv, TypeOK
  <2> QED
    BY <2>1, <2>2, <2>3, PinsKeep
<1> QED
  BY <1>1, <1>2

(* Operations know what their locks and rows promise, in every run.         *)
THEOREM ImagesInvariant == Spec => []ImagesInv
BY InitInv, NextKeepsInv, PTL DEF Spec

(* Import, removal, collection and crashes keep every registered image      *)
(* whole, every image in use registered, and every alias leading to one.    *)
THEOREM ImagesAreUsable == Spec => []ImagesStayUsable
<1>1. ImagesInv => ImagesStayUsable
  BY DEF ImagesInv
<1> QED
  BY <1>1, ImagesInvariant, PTL

(* A step changes a file only as damage, or under the exclusive lock of its *)
(* layer, which no reader of the layer can be holding.                      *)
LEMMA WriterHoldsLock ==
    ASSUME ImagesInv, [Next]_vars, NEW l \in Layers,
           ~(erofs'[l] \in {erofs[l], Rotten} /\ boot'[l] \in {boot[l], Rotten})
    PROVE  \E q \in Procs : excl[l] = q /\ step[q] # "use"
<1> USE DEF ImagesInv
<1>1. CASE UNCHANGED files
  BY <1>1 DEF files
<1>2. ASSUME NEW p \in Procs, NEW k \in Layers, ImportPublish(p, k)
      PROVE  \E q \in Procs : excl[l] = q /\ step[q] # "use"
  <2>1. l = k
    BY <1>2 DEF ImportPublish, TypeOK
  <2> QED
    BY <1>2, <2>1 DEF ImportPublish, OpFacts
<1>3. ASSUME NEW p \in Procs, ImportPublishBoot(p)
      PROVE  \E q \in Procs : excl[l] = q /\ step[q] # "use"
  <2>1. l = cur[p]
    BY <1>3 DEF ImportPublishBoot, TypeOK
  <2> QED
    BY <1>3, <2>1 DEF ImportPublishBoot, OpFacts
<1>4. ASSUME NEW p \in Procs, NEW k \in Layers, DeleteErofs(p, k)
      PROVE  \E q \in Procs : excl[l] = q /\ step[q] # "use"
  <2>1. l = k
    BY <1>4 DEF DeleteErofs, TypeOK
  <2> QED
    BY <1>4, <2>1 DEF DeleteErofs, OpFacts
<1>5. ASSUME NEW p \in Procs, DeleteBoot(p)
      PROVE  \E q \in Procs : excl[l] = q /\ step[q] # "use"
  <2>1. l = cur[p]
    BY <1>5 DEF DeleteBoot, TypeOK
  <2> QED
    BY <1>5, <2>1 DEF DeleteBoot, OpFacts
<1>6. ASSUME NEW k \in Layers, Rot(k) PROVE FALSE
  BY <1>6 DEF Rot, TypeOK
<1>7. ASSUME NEW p \in Procs, Continue(p)
      PROVE  \E q \in Procs : excl[l] = q /\ step[q] # "use"
  <2>1. \/ UNCHANGED files \/ \E k \in Layers : ImportPublish(p, k) \/ DeleteErofs(p, k)
        \/ ImportPublishBoot(p) \/ DeleteBoot(p)
    BY <1>7 DEF Continue, ImportLayer, ImportReuse, ImportRefused, ImportLock, ImportCommit, GuardLock,
       GuardCheck, GuardUse, RemoveLock, RemoveRecord, CollectCheck, DeleteDone
  <2> QED
    BY <2>1, <1>1, <1>2, <1>3, <1>4, <1>5
<1>8. CASE Next
  <2>1. \/ UNCHANGED files
        \/ \E p \in Procs : Continue(p)
        \/ \E k \in Layers : Rot(k)
    BY <1>8 DEF Next, ImportBegin, GuardBegin, RemoveBegin, Begin, CollectBegin, Abandon,
       SnapshotPin, Unpin
  <2> QED
    BY <2>1, <1>1, <1>6, <1>7
<1> QED
  BY <1>1, <1>8 DEF vars

(* While a user of an image works under its leases, no file of the image is *)
(* replaced or deleted (verify.go withLocked).                              *)
THEOREM LeasedFilesAreStable == Spec => GuardedFilesStable
<1>1. ImagesInv /\ [Next]_vars =>
        [\A p \in Procs : step[p] = "use" =>
            \A l \in LayersOf[man[p]] :
                erofs'[l] \in {erofs[l], Rotten} /\ boot'[l] \in {boot[l], Rotten}]_vars
  <2> SUFFICES ASSUME ImagesInv, [Next]_vars, NEW p \in Procs, step[p] = "use",
                      NEW l \in LayersOf[man[p]],
                      ~(erofs'[l] \in {erofs[l], Rotten} /\ boot'[l] \in {boot[l], Rotten})
               PROVE  FALSE
    OBVIOUS
  <2>1. l \in Layers /\ p \in shared[l]
    BY Typing DEF ImagesInv, OpFacts
  <2>2. PICK q \in Procs : excl[l] = q /\ step[q] # "use"
    BY <2>1, WriterHoldsLock
  <2>3. excl[l] # None
    BY <2>2, Typing
  <2> QED
    BY <2>1, <2>2, <2>3 DEF ImagesInv, LocksCompatible
<1> QED
  BY <1>1, ImagesInvariant, PTL DEF Spec, GuardedFilesStable

(* Clones.  What a clone's step says of its record, lock, configuration and  *)
(* VMM.                                                                      *)

ClEarly == {"idle", "lease", "check", "validate", "image", "reserve"}
ClLoading == {"load", "swap", "add", "disks", "limit", "resume", "ready"}
ClBuilding ==
    {"network", "prepare", "stage", "patch", "exec", "configure", "commit", "abort", "fail"} \cup ClLoading
ClHolding == {"disk", "begin"} \cup ClBuilding
ClSteps == ClEarly \cup ClHolding \cup {"lock", "cleanup", "done"}
ClOwnTaps(c) == {Cloning!Tap(c), Cloning!TemporaryTap(c)}
ClTaps == UNION {ClOwnTaps(c) : c \in Clones \cup {Source}}

ClTyped ==
    /\ clOp \in [Clones -> [step : ClSteps, gen : Nat, preserve : BOOLEAN]]
    /\ clRec \in [Clones -> [state : {"none", "creating", "created", "starting", "running", "stopped", "error"},
                             gen : Nat]]
    /\ clVm \in [Clones -> [state : {"none", "api", "paused", "running"}, taps : SUBSET ClTaps,
                            disk : Clones \cup {Source}, stale : BOOLEAN, limited : BOOLEAN]]
    /\ clConfig \in [Clones -> [taps : SUBSET ClTaps, disk : Clones \cup {Source}]]

(* The leased snapshot or the private stage stays until the clone returns.   *)
ClSourced(c) == clOp[c].step \notin {"idle", "lease", "done"} => c \in clReaders \/ c \in clStaged

ClRecorded(c) ==
    /\ clOp[c].step \in ClEarly => clRec[c].state = "none"
    /\ clOp[c].step = "disk" => clRec[c].state = "creating"
    /\ clOp[c].step \in ClBuilding => clRec[c].state = "starting"
    /\ clRec[c].state \in {"creating", "created"} => clVm[c].state = "none"
    /\ clRec[c].state = "running" => clVm[c].state \in {"none", "running"}

ClGood(c, v) ==
    /\ Cloning!Tap(c) \in v.taps /\ v.taps \subseteq ClOwnTaps(c)
    /\ v.disk = c /\ v.stale = FALSE

(* How far the VMM has got when the clone's next request is due.             *)
ClBuilt(c, at, v) ==
    /\ v.state = "running" => ClGood(c, v) /\ v.limited = TRUE
    /\ at \in ClEarly \cup {"disk", "network", "prepare", "stage", "patch", "exec"} => v.state = "none"
    /\ at = "load" => v.state \in {"none", "api"}
    /\ at \in {"swap", "add", "disks", "limit", "resume"} => v.state \in {"none", "paused"}
    /\ at \in {"ready", "configure", "commit"} => v.state \in {"none", "running"}
    /\ at \in {"swap", "add"} /\ v.state # "none" => v.disk = c /\ v.taps \subseteq ClOwnTaps(c)
    /\ at = "swap" /\ v.state # "none" /\ clOp[c].preserve = TRUE => v.stale = FALSE
    /\ at = "add" /\ v.state # "none" => v.stale = FALSE
    /\ at \in {"disks", "limit", "resume"} /\ v.state # "none" => ClGood(c, v)
    /\ at = "resume" /\ v.state # "none" => v.limited = TRUE

ClConfigured(c) ==
    clOp[c].step \in {"exec", "load", "swap", "add"} =>
        clConfig[c].disk = c /\ clConfig[c].taps \subseteq ClOwnTaps(c)

ClFacts(c) ==
    /\ ClSourced(c)
    /\ ClRecorded(c)
    /\ ClBuilt(c, clOp[c].step, clVm[c])
    /\ ClConfigured(c)
    /\ c \in clLock <=> clOp[c].step \in ClHolding

CloneInv ==
    /\ ClTyped
    /\ clReaders # {} => clSnap = "ready"
    /\ \A c \in Clones : ClFacts(c)

-----------------------------------------------------------------------------
(* A step of one clone leaves what the others know.                          *)
ClFrame(c) ==
    \A u \in Clones \ {c} :
        /\ clOp'[u] = clOp[u] /\ clRec'[u] = clRec[u] /\ clVm'[u] = clVm[u] /\ clConfig'[u] = clConfig[u]
        /\ u \in clLock' <=> u \in clLock
        /\ u \in clReaders \/ u \in clStaged => u \in clReaders' \/ u \in clStaged'

LEMMA ClStep ==
    ASSUME CloneInv, NEW c \in Clones, ClTyped', clReaders' # {} => clSnap' = "ready",
           ClFacts(c)', ClFrame(c)
    PROVE  CloneInv'
<1>1. ASSUME NEW u \in Clones \ {c} PROVE ClFacts(u)'
  <2>1. ClFacts(u)
    BY DEF CloneInv
  <2>2. /\ clOp'[u] = clOp[u] /\ clRec'[u] = clRec[u] /\ clVm'[u] = clVm[u] /\ clConfig'[u] = clConfig[u]
        /\ u \in clLock' <=> u \in clLock
        /\ u \in clReaders \/ u \in clStaged => u \in clReaders' \/ u \in clStaged'
    BY DEF ClFrame
  <2>3. ClSourced(u)'
    BY <2>1, <2>2 DEF ClFacts, ClSourced
  <2>4. ClRecorded(u)'
    BY <2>1, <2>2 DEF ClFacts, ClRecorded
  <2>5. ClBuilt(u, clOp[u].step, clVm[u])'
    BY <2>1, <2>2 DEF ClFacts, ClBuilt
  <2>6. ClConfigured(u)'
    BY <2>1, <2>2 DEF ClFacts, ClConfigured
  <2>7. (u \in clLock <=> clOp[u].step \in ClHolding)'
    BY <2>1, <2>2 DEF ClFacts
  <2> QED
    BY <2>3, <2>4, <2>5, <2>6, <2>7 DEF ClFacts
<1> QED
  BY ZenonT(30), <1>1 DEF CloneInv

LEMMA ClGoto ==
    ASSUME ClTyped, NEW c \in Clones, NEW s \in ClSteps, Cloning!Goto(c, s)
    PROVE  /\ clOp' \in [Clones -> [step : ClSteps, gen : Nat, preserve : BOOLEAN]]
           /\ clOp'[c].step = s /\ clOp'[c].preserve = clOp[c].preserve
           /\ \A u \in Clones \ {c} : clOp'[u] = clOp[u]
BY SMTT(30) DEF ClTyped, Cloning!Goto

(* Where a clone may go while its VMM and its record stay as they are.       *)
LEMMA ClMoves ==
    ASSUME CloneInv, NEW c \in Clones, NEW s \in ClSteps, Cloning!Goto(c, s),
           UNCHANGED <<clRec, clLock, clConfig, clVm>>, clReaders' # {} => clSnap' = "ready",
           \A u \in Clones \ {c} : u \in clReaders \/ u \in clStaged => u \in clReaders' \/ u \in clStaged',
           s \notin {"lease", "done"} => c \in clReaders' \/ c \in clStaged',
           \/ clOp[c].step \in ClEarly /\ s \in ClEarly \ {"idle"}
           \/ clOp[c].step \in ClEarly \cup {"lock", "cleanup"} /\ s = "done"
           \/ clOp[c].step \in ClBuilding /\ s \in {"abort", "fail"}
           \/ clOp[c].step = "network" /\ s = "prepare"
           \/ clOp[c].step = "prepare" /\ s = "stage"
           \/ clOp[c].step \in {"ready", "configure"} /\ s \in {"configure", "commit"}
    PROVE  CloneInv'
<1>1. /\ clOp' \in [Clones -> [step : ClSteps, gen : Nat, preserve : BOOLEAN]]
      /\ clOp'[c].step = s /\ clOp'[c].preserve = clOp[c].preserve
      /\ \A u \in Clones \ {c} : clOp'[u] = clOp[u]
  BY ClGoto DEF CloneInv
<1>2. ClTyped' /\ ClFrame(c)
  BY <1>1 DEF CloneInv, ClTyped, ClFrame
<1>3. ClFacts(c)
  BY DEF CloneInv
<1>4. ClSourced(c)'
  BY <1>1, <1>3 DEF ClFacts, ClSourced, ClEarly
<1>5. ClRecorded(c)'
  BY <1>1, <1>3 DEF ClFacts, ClRecorded, ClEarly, ClBuilding, ClLoading
<1>6. ClBuilt(c, clOp[c].step, clVm[c])'
  BY <1>1, <1>3 DEF ClFacts, ClBuilt, ClEarly, ClBuilding, ClLoading
<1>7. ClConfigured(c)'
  BY <1>1, <1>3 DEF ClFacts, ClConfigured, ClEarly
<1>8. (c \in clLock <=> clOp[c].step \in ClHolding)'
  BY <1>1, <1>3 DEF ClFacts, ClHolding, ClBuilding, ClEarly, ClLoading
<1>9. ClFacts(c)'
  BY <1>4, <1>5, <1>6, <1>7, <1>8 DEF ClFacts
<1> QED
  BY <1>2, <1>9, ClStep

(* The deferred releases.                                                    *)
LEMMA ClReturns ==
    ASSUME CloneInv, NEW c \in Clones, Cloning!Return(c), UNCHANGED <<clSnap, clRec, clLock, clConfig, clVm>>,
           clOp[c].step \in ClEarly \cup {"lock", "cleanup"}
    PROVE  CloneInv'
<1>1. "done" \in ClSteps
  BY DEF ClSteps
<1>2. /\ Cloning!Goto(c, "done")
      /\ clReaders' # {} => clSnap' = "ready"
      /\ \A u \in Clones \ {c} : u \in clReaders \/ u \in clStaged => u \in clReaders' \/ u \in clStaged'
  BY DEF Cloning!Return, CloneInv
<1> QED
  BY <1>1, <1>2, ClMoves

(* While a clone reads, the snapshot is there.                               *)
LEMMA ClSourceReadable ==
    ASSUME CloneInv, NEW c \in Clones, clOp[c].step \notin {"idle", "lease", "done"}
    PROVE  Cloning!SourceReadable(c)
BY DEF CloneInv, ClFacts, ClSourced, Cloning!SourceReadable

-----------------------------------------------------------------------------
(* The source.                                                               *)
LEMMA ClSource ==
    ASSUME CloneInv, NEW c \in Clones,
           \/ Cloning!resolve(c) \/ Cloning!lease(c) \/ Cloning!StageDirectory(c)
           \/ Cloning!CheckCapture(c) \/ Cloning!ValidateRestore(c) \/ Cloning!ensureCloneImage(c)
    PROVE  CloneInv'
<1> USE DEF Cloning!At, Cloning!sandboxVars
<1>0. /\ {"lease", "check", "validate", "image", "reserve"} \subseteq ClSteps \cap (ClEarly \ {"idle"})
      /\ clOp[c].step \in {"idle", "lease", "check", "validate", "image", "reserve"} => clOp[c].step \in ClEarly
  BY DEF ClSteps, ClEarly
<1>1. CASE Cloning!resolve(c)
  BY <1>0, <1>1, ClMoves DEF Cloning!resolve, CloneInv
<1>2. CASE Cloning!lease(c)
  <2>1. CASE clSnap = "ready"
    BY <1>0, <1>2, <2>1, ClMoves DEF Cloning!lease, CloneInv
  <2>2. CASE clSnap # "ready"
    BY <1>0, <1>2, <2>2, ClReturns DEF Cloning!lease
  <2> QED
    BY <2>1, <2>2
<1>3. CASE Cloning!StageDirectory(c)
  BY <1>0, <1>3, ClMoves DEF Cloning!StageDirectory, CloneInv
<1>4. CASE Cloning!CheckCapture(c)
  <2>1. CASE Cloning!Return(c)
    BY <1>0, <1>4, <2>1, ClReturns DEF Cloning!CheckCapture
  <2>2. CASE Cloning!Goto(c, "validate") /\ UNCHANGED <<clReaders, clStaged>>
    BY <1>0, <1>4, <2>2, ClMoves DEF Cloning!CheckCapture, CloneInv, ClFacts, ClSourced
  <2> QED
    BY <1>4, <2>1, <2>2 DEF Cloning!CheckCapture
<1>5. CASE Cloning!ValidateRestore(c)
  <2>1. CASE Cloning!Return(c)
    BY <1>0, <1>5, <2>1, ClReturns DEF Cloning!ValidateRestore
  <2>2. CASE Cloning!Goto(c, "image") /\ UNCHANGED <<clReaders, clStaged>>
    BY <1>0, <1>5, <2>2, ClMoves DEF Cloning!ValidateRestore, CloneInv, ClFacts, ClSourced
  <2> QED
    BY <1>5, <2>1, <2>2 DEF Cloning!ValidateRestore
<1>6. CASE Cloning!ensureCloneImage(c)
  <2>1. CASE Cloning!Return(c)
    BY <1>0, <1>6, <2>1, ClReturns DEF Cloning!ensureCloneImage
  <2>2. CASE Cloning!Goto(c, "reserve") /\ UNCHANGED <<clReaders, clStaged>>
    BY <1>0, <1>6, <2>2, ClMoves DEF Cloning!ensureCloneImage, CloneInv, ClFacts, ClSourced
  <2> QED
    BY <1>6, <2>1, <2>2 DEF Cloning!ensureCloneImage
<1> QED
  BY <1>1, <1>2, <1>3, <1>4, <1>5, <1>6

ClStates == {"none", "creating", "created", "starting", "running", "stopped", "error"}

LEMMA ClCommit ==
    ASSUME ClTyped, NEW c \in Clones, NEW st \in ClStates, Cloning!Commit(c, st)
    PROVE  /\ clRec' \in [Clones -> [state : ClStates, gen : Nat]]
           /\ clRec'[c].state = st
           /\ \A u \in Clones \ {c} : clRec'[u] = clRec[u]
BY SMTT(30) DEF ClTyped, Cloning!Commit, ClStates

LEMMA ClForget ==
    ASSUME ClTyped, NEW c \in Clones, Cloning!Forget(c)
    PROVE  /\ clRec' \in [Clones -> [state : ClStates, gen : Nat]]
           /\ clRec'[c].state = "none"
           /\ \A u \in Clones \ {c} : clRec'[u] = clRec[u]
BY SMTT(30) DEF ClTyped, Cloning!Forget, ClStates

(* What a clone knows after a step that does not touch its VMM or its        *)
(* configuration, by the step it goes to and the record it leaves.           *)
LEMMA ClRecords ==
    ASSUME CloneInv, NEW c \in Clones, NEW s \in ClSteps, NEW st \in ClStates,
           clOp' \in [Clones -> [step : ClSteps, gen : Nat, preserve : BOOLEAN]],
           clOp'[c].step = s, \A u \in Clones \ {c} : clOp'[u] = clOp[u],
           clRec' \in [Clones -> [state : ClStates, gen : Nat]],
           clRec'[c].state = st, \A u \in Clones \ {c} : clRec'[u] = clRec[u],
           UNCHANGED <<clConfig, clVm>>, clReaders' # {} => clSnap' = "ready",
           \A u \in Clones \ {c} : u \in clLock' <=> u \in clLock,
           c \in clLock' <=> s \in ClHolding,
           \A u \in Clones \ {c} : u \in clReaders \/ u \in clStaged => u \in clReaders' \/ u \in clStaged',
           s \notin {"idle", "lease", "done"} => c \in clReaders' \/ c \in clStaged',
           \/ s = "disk" /\ st = "creating" /\ clVm[c].state = "none"
           \/ s \in {"lock", "done"} /\ st = "created" /\ clVm[c].state = "none"
           \/ s = "network" /\ st = "starting" /\ clVm[c].state = "none"
           \/ s \in {"cleanup", "done", "lock"} /\ st \in {"none", "starting", "error", "stopped"}
           \/ s \in {"cleanup", "done", "lock"} /\ st = "running" /\ clVm[c].state \in {"none", "running"}
           \/ s \in {"begin", "cleanup", "done"} /\ st = clRec[c].state
    PROVE  CloneInv'
<1>1. ClTyped' /\ ClFrame(c)
  BY DEF CloneInv, ClTyped, ClFrame, ClStates
<1>2. ClFacts(c)
  BY DEF CloneInv
<1>3. ClSourced(c)'
  BY DEF ClSourced
<1>4. ClRecorded(c)'
  BY <1>2 DEF ClFacts, ClRecorded, ClEarly, ClBuilding, ClLoading
<1>5. ClBuilt(c, clOp[c].step, clVm[c])'
  BY <1>2 DEF ClFacts, ClBuilt, ClEarly
<1>6. ClConfigured(c)'
  BY DEF ClConfigured
<1>7. ClFacts(c)'
  BY <1>3, <1>4, <1>5, <1>6 DEF ClFacts
<1> QED
  BY <1>1, <1>7, ClStep

-----------------------------------------------------------------------------
(* createFromSnapshot.                                                       *)
LEMMA ClCreate ==
    ASSUME CloneInv, NEW c \in Clones, Cloning!createFromSnapshot(c)
    PROVE  CloneInv'
<1>0. ClTyped /\ ClFacts(c) /\ clOp[c].step = "reserve" /\ "reserve" \in ClEarly /\ "disk" \in ClSteps
      /\ "disk" \in ClHolding
  BY DEF CloneInv, Cloning!createFromSnapshot, Cloning!At, ClEarly, ClSteps, ClHolding
<1>1. CASE clImage
  <2>1. /\ clRec' \in [Clones -> [state : ClStates, gen : Nat]]
        /\ clRec'[c].state = "creating"
        /\ \A u \in Clones \ {c} : clRec'[u] = clRec[u]
    BY SMTT(30), <1>0, <1>1 DEF Cloning!createFromSnapshot, ClTyped, ClStates
  <2>2. Cloning!Goto(c, "disk") /\ clLock' = clLock \cup {c}
        /\ UNCHANGED <<clReaders, clStaged, clSnap, clConfig, clVm>>
    BY <1>1 DEF Cloning!createFromSnapshot
  <2>3. /\ clOp' \in [Clones -> [step : ClSteps, gen : Nat, preserve : BOOLEAN]]
        /\ clOp'[c].step = "disk"
        /\ \A u \in Clones \ {c} : clOp'[u] = clOp[u]
    BY <1>0, <2>2, ClGoto
  <2>4. clVm[c].state = "none" /\ (c \in clReaders \/ c \in clStaged)
    BY <1>0 DEF ClFacts, ClBuilt, ClSourced
  <2>5. clReaders' # {} => clSnap' = "ready"
    BY <2>2 DEF CloneInv
  <2>6. "creating" \in ClStates
    BY DEF ClStates
  <2> QED
    BY <1>0, <2>1, <2>2, <2>3, <2>4, <2>5, <2>6, ClRecords
<1>2. CASE ~clImage
  BY <1>0, <1>2, ClReturns DEF Cloning!createFromSnapshot
<1> QED
  BY <1>1, <1>2

LEMMA ClCloneDisk ==
    ASSUME CloneInv, NEW c \in Clones, Cloning!CloneDisk(c)
    PROVE  CloneInv'
<1>0. /\ ClTyped /\ ClFacts(c) /\ clOp[c].step = "disk" /\ "lock" \in ClSteps /\ "lock" \notin ClHolding
      /\ "created" \in ClStates
  BY DEF CloneInv, Cloning!CloneDisk, Cloning!At, ClSteps, ClHolding, ClStates, ClBuilding, ClLoading
<1>1. Cloning!Commit(c, "created") /\ clLock' = clLock \ {c}
      /\ UNCHANGED <<clReaders, clStaged, clSnap, clConfig, clVm>>
  BY DEF Cloning!CloneDisk
<1>2. /\ clRec' \in [Clones -> [state : ClStates, gen : Nat]]
      /\ clRec'[c].state = "created"
      /\ \A u \in Clones \ {c} : clRec'[u] = clRec[u]
  BY <1>0, <1>1, ClCommit
<1>3. /\ clOp' \in [Clones -> [step : ClSteps, gen : Nat, preserve : BOOLEAN]]
      /\ clOp'[c].step = "lock"
      /\ \A u \in Clones \ {c} : clOp'[u] = clOp[u]
  <2> DEFINE g == clRec[c].gen + 1
  <2>1. g \in Nat
    BY SMTT(30), <1>0 DEF ClTyped
  <2>2. clOp' = [clOp EXCEPT ![c].step = "lock", ![c].gen = g]
    BY DEF Cloning!CloneDisk
  <2> HIDE DEF g
  <2>3. clOp \in [Clones -> [step : ClSteps, gen : Nat, preserve : BOOLEAN]]
    BY <1>0 DEF ClTyped
  <2> QED
    BY ONLY Zenon, <1>0, <2>1, <2>2, <2>3, c \in Clones
<1>4. clVm[c].state = "none" /\ (c \in clReaders \/ c \in clStaged)
  BY <1>0 DEF ClFacts, ClBuilt, ClSourced
<1>5. clReaders' # {} => clSnap' = "ready"
  BY <1>1 DEF CloneInv
<1> QED
  BY <1>0, <1>1, <1>2, <1>3, <1>4, <1>5, ClRecords

LEMMA ClCompensate ==
    ASSUME CloneInv, NEW c \in Clones, Cloning!compensate(c)
    PROVE  CloneInv'
<1>0. /\ ClTyped /\ ClFacts(c) /\ clOp[c].step = "disk" /\ "done" \in ClSteps /\ "done" \notin ClHolding
      /\ "error" \in ClStates /\ "none" \in ClStates
  BY DEF CloneInv, Cloning!compensate, Cloning!At, ClSteps, ClHolding, ClStates, ClBuilding, ClLoading
<1>1. Cloning!Return(c) /\ clLock' = clLock \ {c} /\ UNCHANGED <<clSnap, clConfig, clVm>>
  BY DEF Cloning!compensate
<1>2. /\ clOp' \in [Clones -> [step : ClSteps, gen : Nat, preserve : BOOLEAN]]
      /\ clOp'[c].step = "done"
      /\ \A u \in Clones \ {c} : clOp'[u] = clOp[u]
  BY <1>0, <1>1, ClGoto DEF Cloning!Return
<1>3. /\ clReaders' # {} => clSnap' = "ready"
      /\ \A u \in Clones \ {c} : u \in clReaders \/ u \in clStaged => u \in clReaders' \/ u \in clStaged'
  BY <1>1 DEF CloneInv, Cloning!Return
<1>4. CASE Cloning!Forget(c)
  BY <1>0, <1>1, <1>2, <1>3, <1>4, ClForget, ClRecords
<1>5. CASE Cloning!Commit(c, "error")
  BY <1>0, <1>1, <1>2, <1>3, <1>5, ClCommit, ClRecords
<1> QED
  BY <1>4, <1>5 DEF Cloning!compensate

LEMMA ClLock ==
    ASSUME CloneInv, NEW c \in Clones, Cloning!LockClone(c)
    PROVE  CloneInv'
<1>0. /\ ClTyped /\ ClFacts(c) /\ clOp[c].step = "lock" /\ "begin" \in ClSteps /\ "begin" \in ClHolding
  BY DEF CloneInv, Cloning!LockClone, Cloning!At, ClSteps, ClHolding
<1>1. Cloning!Goto(c, "begin") /\ clLock' = clLock \cup {c}
      /\ UNCHANGED <<clReaders, clStaged, clSnap, clRec, clConfig, clVm>>
  BY DEF Cloning!LockClone
<1>2. /\ clOp' \in [Clones -> [step : ClSteps, gen : Nat, preserve : BOOLEAN]]
      /\ clOp'[c].step = "begin"
      /\ \A u \in Clones \ {c} : clOp'[u] = clOp[u]
  BY <1>0, <1>1, ClGoto
<1>3. /\ clReaders' # {} => clSnap' = "ready"
      /\ c \in clReaders \/ c \in clStaged
      /\ clRec \in [Clones -> [state : ClStates, gen : Nat]] /\ clRec[c].state \in ClStates
  BY <1>0, <1>1 DEF CloneInv, ClFacts, ClSourced, ClTyped, ClStates
<1> QED
  BY <1>0, <1>1, <1>2, <1>3, ClRecords

LEMMA ClBegin ==
    ASSUME CloneInv, NEW c \in Clones, Cloning!BeginStart(c)
    PROVE  CloneInv'
<1>0. /\ ClTyped /\ ClFacts(c) /\ clOp[c].step = "begin" /\ {"network", "cleanup"} \subseteq ClSteps
      /\ "network" \in ClHolding /\ "cleanup" \notin ClHolding /\ "starting" \in ClStates
  BY DEF CloneInv, Cloning!BeginStart, Cloning!At, ClSteps, ClHolding, ClStates, ClBuilding, ClLoading
<1>1. /\ UNCHANGED <<clReaders, clStaged, clSnap, clConfig, clVm>>
      /\ clReaders' # {} => clSnap' = "ready"
      /\ c \in clReaders \/ c \in clStaged
  BY <1>0 DEF Cloning!BeginStart, CloneInv, ClFacts, ClSourced
<1>2. CASE Cloning!Goto(c, "cleanup") /\ clLock' = clLock \ {c}
  <2>1. /\ clOp' \in [Clones -> [step : ClSteps, gen : Nat, preserve : BOOLEAN]]
        /\ clOp'[c].step = "cleanup"
        /\ \A u \in Clones \ {c} : clOp'[u] = clOp[u]
    BY <1>0, <1>2, ClGoto
  <2>2. CASE Cloning!Commit(c, "starting")
    BY <1>0, <1>1, <1>2, <2>1, <2>2, ClCommit, ClRecords
  <2>3. CASE UNCHANGED clRec
    <3>1. clRec \in [Clones -> [state : ClStates, gen : Nat]] /\ clRec[c].state \in ClStates
      BY <1>0 DEF ClTyped, ClStates
    <3> QED
      BY <1>0, <1>1, <1>2, <2>1, <2>3, <3>1, ClRecords
  <2> QED
    BY <2>2, <2>3 DEF Cloning!BeginStart
<1>3. CASE /\ clRec[c] = [state |-> "created", gen |-> clOp[c].gen]
           /\ Cloning!Commit(c, "starting") /\ UNCHANGED clLock
           /\ clOp' = [clOp EXCEPT ![c].step = "network", ![c].gen = @ + 1]
  <2>1. /\ clOp' \in [Clones -> [step : ClSteps, gen : Nat, preserve : BOOLEAN]]
        /\ clOp'[c].step = "network"
        /\ \A u \in Clones \ {c} : clOp'[u] = clOp[u]
    BY SMTT(30), <1>0, <1>3 DEF ClTyped
  <2>2. clVm[c].state = "none" /\ c \in clLock
    BY SMTT(30), <1>0, <1>3 DEF ClFacts, ClRecorded, ClHolding
  <2> QED
    BY SMTT(30), <1>0, <1>1, <1>3, <2>1, <2>2, ClCommit, ClRecords
<1> QED
  BY <1>2, <1>3 DEF Cloning!BeginStart

(* cleanupCreated removes the record if it still may.                        *)
LEMMA ClCleanup ==
    ASSUME CloneInv, NEW c \in Clones, Cloning!cleanupCreated(c)
    PROVE  CloneInv'
<1>0. /\ ClTyped /\ ClFacts(c) /\ clOp[c].step = "cleanup" /\ "done" \in ClSteps /\ "done" \notin ClHolding
      /\ "none" \in ClStates
  BY DEF CloneInv, Cloning!cleanupCreated, Cloning!At, ClSteps, ClHolding, ClStates, ClBuilding, ClLoading
<1>1. /\ Cloning!Return(c) /\ UNCHANGED <<clSnap, clLock, clConfig, clVm>>
      /\ c \notin clLock
  BY DEF Cloning!cleanupCreated
<1>2. /\ clOp' \in [Clones -> [step : ClSteps, gen : Nat, preserve : BOOLEAN]]
      /\ clOp'[c].step = "done"
      /\ \A u \in Clones \ {c} : clOp'[u] = clOp[u]
  BY <1>0, <1>1, ClGoto DEF Cloning!Return
<1>3. /\ clReaders' # {} => clSnap' = "ready"
      /\ \A u \in Clones \ {c} : u \in clReaders \/ u \in clStaged => u \in clReaders' \/ u \in clStaged'
  BY <1>1 DEF CloneInv, Cloning!Return
<1>4. CASE Cloning!Forget(c)
  BY <1>0, <1>1, <1>2, <1>3, <1>4, ClForget, ClRecords
<1>5. CASE UNCHANGED clRec
  BY <1>0, <1>1, <1>5, ClReturns
<1> QED
  BY <1>4, <1>5 DEF Cloning!cleanupCreated

(* Driver.Clone: the VMM is built step by step.                              *)

ClVmType ==
    [state : {"none", "api", "paused", "running"}, taps : SUBSET ClTaps,
     disk : Clones \cup {Source}, stale : BOOLEAN, limited : BOOLEAN]

LEMMA ClOwn == ASSUME NEW c \in Clones PROVE ClOwnTaps(c) \subseteq ClTaps /\ Cloning!Tap(c) \in ClOwnTaps(c)
BY DEF ClTaps, ClOwnTaps

(* A clone that goes on with its VMM v, within its locked start.             *)
LEMMA ClBuilds ==
    ASSUME CloneInv, NEW c \in Clones, NEW s \in ClBuilding, NEW v \in ClVmType,
           Cloning!Goto(c, s), clOp[c].step \in ClBuilding,
           clVm' = [clVm EXCEPT ![c] = v],
           UNCHANGED <<clSnap, clReaders, clStaged, clRec, clLock, clConfig>>,
           ClBuilt(c, s, v), s \in {"exec", "load", "swap", "add"} => clOp[c].step \in {"exec", "load", "swap", "add"}
    PROVE  CloneInv'
<1>1. s \in ClSteps /\ ClTyped /\ ClFacts(c)
  BY DEF ClSteps, ClHolding, CloneInv
<1>2. /\ clOp' \in [Clones -> [step : ClSteps, gen : Nat, preserve : BOOLEAN]]
      /\ clOp'[c].step = s /\ clOp'[c].preserve = clOp[c].preserve
      /\ \A u \in Clones \ {c} : clOp'[u] = clOp[u]
  BY <1>1, ClGoto
<1>3. clVm' \in [Clones -> ClVmType] /\ clVm'[c] = v /\ \A u \in Clones \ {c} : clVm'[u] = clVm[u]
  BY <1>1 DEF ClTyped, ClVmType
<1>4. ClTyped' /\ ClFrame(c) /\ (clReaders' # {} => clSnap' = "ready")
  BY <1>1, <1>2, <1>3 DEF ClTyped, ClVmType, ClFrame, CloneInv
<1>5. ClSourced(c)'
  BY <1>1, <1>2 DEF ClFacts, ClSourced, ClBuilding, ClLoading
<1>6. ClRecorded(c)'
  BY <1>1, <1>2, <1>3 DEF ClFacts, ClRecorded, ClBuilding, ClLoading, ClEarly
<1>7. ClBuilt(c, clOp[c].step, clVm[c])'
  BY <1>2, <1>3 DEF ClBuilt
<1>8. ClConfigured(c)'
  BY <1>1, <1>2 DEF ClFacts, ClConfigured
<1>9. (c \in clLock <=> clOp[c].step \in ClHolding)'
  BY <1>1, <1>2 DEF ClFacts, ClHolding
<1>10. ClFacts(c)'
  BY <1>5, <1>6, <1>7, <1>8, <1>9 DEF ClFacts
<1> QED
  BY <1>4, <1>10, ClStep

(* One request: answered, or failed with or without effect.                  *)
LEMMA ClAsk ==
    ASSUME CloneInv, NEW c \in Clones, NEW at \in ClLoading, NEW v \in ClVmType, NEW next \in ClLoading,
           Cloning!Ask(c, at, v, next),
           ClBuilt(c, next, v),
           next \in {"swap", "add"} => at \in {"load", "swap"},
           next # "load"
    PROVE  CloneInv'
<1>1. /\ clOp[c].step = at /\ at \in ClBuilding /\ next \in ClBuilding /\ "abort" \in ClBuilding
      /\ "abort" \in ClSteps /\ next \notin {"exec", "load"}
      /\ UNCHANGED <<clSnap, clReaders, clStaged, clRec, clLock, clConfig>>
  BY DEF Cloning!Ask, Cloning!At, ClBuilding, ClLoading, ClSteps, ClHolding
<1>2. CASE clVm' = [clVm EXCEPT ![c] = v] /\ Cloning!Goto(c, next)
  BY <1>1, <1>2, ClBuilds
<1>3. CASE clVm' = [clVm EXCEPT ![c] = v] /\ Cloning!Goto(c, "abort")
  <2>1. ClBuilt(c, "abort", v)
    BY DEF ClBuilt, ClEarly
  <2> QED
    BY <1>1, <1>3, <2>1, ClBuilds
<1>4. CASE UNCHANGED clVm /\ Cloning!Goto(c, "abort")
  <2>1. ClFacts(c) /\ (clReaders # {} => clSnap = "ready")
    BY DEF CloneInv
  <2>2. c \in clReaders \/ c \in clStaged
    BY <1>1, <2>1 DEF ClFacts, ClSourced, ClLoading
  <2> QED
    BY <1>1, <1>4, <2>1, <2>2, ClMoves
<1> QED
  BY <1>2, <1>3, <1>4 DEF Cloning!Ask

(* What the requests make of the VMM.                                        *)
ClLoad(c) == [clVm[c] EXCEPT !.state = "paused", !.taps = clConfig[c].taps,
                             !.disk = clConfig[c].disk, !.stale = ~clOp[c].preserve]

LEMMA ClRestoreVM ==
    ASSUME CloneInv, NEW c \in Clones, Cloning!restoreVM(c)
    PROVE  CloneInv'
<1> DEFINE v == ClLoad(c)
<1>1. Cloning!Ask(c, "load", v, "swap") /\ clOp[c].step = "load"
  BY DEF Cloning!restoreVM, ClLoad, Cloning!Ask, Cloning!At
<1>2. ClTyped /\ ClFacts(c)
  BY DEF CloneInv
<1>3. clConfig[c].disk = c /\ clConfig[c].taps \subseteq ClOwnTaps(c)
  BY <1>1, <1>2 DEF ClFacts, ClConfigured
<1>4. /\ v \in ClVmType /\ v.state = "paused" /\ v.taps = clConfig[c].taps /\ v.disk = clConfig[c].disk
      /\ v.stale = ~clOp[c].preserve
  BY ZenonT(30), <1>2 DEF ClLoad, ClTyped, ClVmType
<1> HIDE DEF v
<1>5. ClBuilt(c, "swap", v)
  BY <1>2, <1>3, <1>4 DEF ClBuilt, ClEarly, ClTyped
<1>6. {"load", "swap"} \subseteq ClLoading
  BY DEF ClLoading
<1> QED
  BY <1>1, <1>4, <1>5, <1>6, ClAsk

ClSwap(c, left) == IF clOp[c].preserve THEN clVm[c] ELSE [clVm[c] EXCEPT !.stale = FALSE, !.taps = left]

LEMMA ClSwapNets ==
    ASSUME CloneInv, NEW c \in Clones, Cloning!swapCloneNets(c)
    PROVE  CloneInv'
<1>1. PICK left \in SUBSET clConfig[c].taps : Cloning!Ask(c, "swap", ClSwap(c, left), "add")
  BY DEF Cloning!swapCloneNets, ClSwap
<1> DEFINE v == ClSwap(c, left)
<1>2. ClTyped /\ ClFacts(c) /\ clOp[c].step = "swap" /\ clVm[c].state # "none"
  BY <1>1 DEF CloneInv, Cloning!Ask, Cloning!At
<1>3. clConfig[c].taps \subseteq ClOwnTaps(c)
  BY <1>2 DEF ClFacts, ClConfigured
<1>4. /\ clVm[c].state = "paused" /\ clVm[c].disk = c /\ clVm[c].taps \subseteq ClOwnTaps(c)
      /\ clOp[c].preserve = TRUE => clVm[c].stale = FALSE
  BY <1>2 DEF ClFacts, ClBuilt
<1>5. v \in ClVmType /\ v.state = "paused" /\ v.taps \subseteq ClOwnTaps(c) /\ v.disk = c /\ v.stale = FALSE
  <2>1. CASE clOp[c].preserve = TRUE
    BY <1>2, <1>4, <2>1 DEF ClSwap, ClTyped, ClVmType
  <2>2. CASE clOp[c].preserve = FALSE
    BY <1>2, <1>3, <1>4, <2>2 DEF ClSwap, ClTyped, ClVmType
  <2> QED
    BY <1>2, <2>1, <2>2 DEF ClTyped
<1>6. Cloning!Ask(c, "swap", v, "add")
  BY <1>1
<1> HIDE DEF v
<1>7. ClBuilt(c, "add", v)
  BY <1>5 DEF ClBuilt, ClEarly
<1>8. {"swap", "add"} \subseteq ClLoading
  BY DEF ClLoading
<1> QED
  BY <1>5, <1>6, <1>7, <1>8, ClAsk

LEMMA ClAddNets ==
    ASSUME CloneInv, NEW c \in Clones, Cloning!AddNets(c)
    PROVE  CloneInv'
<1> DEFINE v == [clVm[c] EXCEPT !.taps = @ \cup {Cloning!Tap(c)}]
<1>1. Cloning!Ask(c, "add", v, "disks")
  BY DEF Cloning!AddNets, Cloning!launchPlan
<1>2. ClTyped /\ ClFacts(c) /\ clOp[c].step = "add" /\ clVm[c].state # "none"
  BY <1>1 DEF CloneInv, Cloning!Ask, Cloning!At
<1>3. clVm[c].state = "paused" /\ clVm[c].disk = c /\ clVm[c].taps \subseteq ClOwnTaps(c) /\ clVm[c].stale = FALSE
  BY <1>2 DEF ClFacts, ClBuilt
<1>4. v \in ClVmType /\ v.state = "paused" /\ v.taps = clVm[c].taps \cup {Cloning!Tap(c)} /\ v.disk = c
      /\ v.stale = FALSE
  BY SMTT(30), <1>2, <1>3, ClOwn DEF ClTyped, ClVmType
<1> HIDE DEF v
<1>5. ClGood(c, v)
  BY <1>3, <1>4, ClOwn DEF ClGood
<1>6. ClBuilt(c, "disks", v)
  BY <1>4, <1>5 DEF ClBuilt, ClEarly
<1>7. {"add", "disks"} \subseteq ClLoading
  BY DEF ClLoading
<1> QED
  BY <1>1, <1>4, <1>6, <1>7, ClAsk

LEMMA ClLimit ==
    ASSUME CloneInv, NEW c \in Clones, Cloning!addCloneDataDisks(c) \/ Cloning!ApplyLimit(c)
    PROVE  CloneInv'
<1>1. CASE Cloning!addCloneDataDisks(c)
  <2>1. Cloning!Ask(c, "disks", clVm[c], "limit")
    BY <1>1 DEF Cloning!addCloneDataDisks
  <2>2. ClTyped /\ ClFacts(c) /\ clOp[c].step = "disks" /\ clVm[c].state # "none"
    BY <2>1 DEF CloneInv, Cloning!Ask, Cloning!At
  <2>3. clVm[c].state = "paused" /\ ClGood(c, clVm[c]) /\ clVm[c] \in ClVmType
    BY <2>2 DEF ClFacts, ClBuilt, ClTyped, ClVmType
  <2>4. ClBuilt(c, "limit", clVm[c])
    BY <2>3 DEF ClBuilt, ClEarly
  <2>5. {"disks", "limit"} \subseteq ClLoading
    BY DEF ClLoading
  <2> QED
    BY <2>1, <2>3, <2>4, <2>5, ClAsk
<1>2. CASE Cloning!ApplyLimit(c)
  <2> DEFINE v == [clVm[c] EXCEPT !.limited = TRUE]
  <2>1. Cloning!Ask(c, "limit", v, "resume")
    BY <1>2 DEF Cloning!ApplyLimit
  <2>2. ClTyped /\ ClFacts(c) /\ clOp[c].step = "limit" /\ clVm[c].state # "none"
    BY <2>1 DEF CloneInv, Cloning!Ask, Cloning!At
  <2>3. clVm[c].state = "paused" /\ ClGood(c, clVm[c])
    BY <2>2 DEF ClFacts, ClBuilt
  <2>4. v \in ClVmType /\ v.state = "paused" /\ v.limited = TRUE
        /\ v.taps = clVm[c].taps /\ v.disk = clVm[c].disk /\ v.stale = clVm[c].stale
    BY <2>2, <2>3 DEF ClTyped, ClVmType
  <2> HIDE DEF v
  <2>5. ClGood(c, v)
    BY <2>3, <2>4 DEF ClGood
  <2>6. ClBuilt(c, "resume", v)
    BY <2>4, <2>5 DEF ClBuilt, ClEarly
  <2>7. {"limit", "resume"} \subseteq ClLoading
    BY DEF ClLoading
  <2> QED
    BY <2>1, <2>4, <2>6, <2>7, ClAsk
<1> QED
  BY <1>1, <1>2

LEMMA ClResume ==
    ASSUME CloneInv, NEW c \in Clones, Cloning!Resume(c)
    PROVE  CloneInv'
<1> DEFINE v == [clVm[c] EXCEPT !.state = "running"]
<1>1. Cloning!Ask(c, "resume", v, "ready")
  BY DEF Cloning!Resume
<1>2. ClTyped /\ ClFacts(c) /\ clOp[c].step = "resume" /\ clVm[c].state # "none"
  BY <1>1 DEF CloneInv, Cloning!Ask, Cloning!At
<1>3. ClGood(c, clVm[c]) /\ clVm[c].limited = TRUE
  BY <1>2 DEF ClFacts, ClBuilt
<1>4. v \in ClVmType /\ v.state = "running" /\ v.limited = TRUE
      /\ v.taps = clVm[c].taps /\ v.disk = clVm[c].disk /\ v.stale = clVm[c].stale
  <2>1. clVm[c] \in ClVmType
    BY <1>2 DEF ClTyped, ClVmType
  <2> QED
    BY <1>3, <2>1 DEF ClVmType
<1> HIDE DEF v
<1>5. ClGood(c, v)
  BY <1>3, <1>4 DEF ClGood
<1>6. ClBuilt(c, "ready", v)
  BY <1>4, <1>5 DEF ClBuilt, ClEarly
<1>7. {"resume", "ready"} \subseteq ClLoading
  BY DEF ClLoading
<1> QED
  BY <1>1, <1>4, <1>6, <1>7, ClAsk

(* The steps of a locked start that leave the VMM alone.                     *)
LEMMA ClKeepsVm ==
    ASSUME CloneInv, NEW c \in Clones,
           \/ Cloning!recoverNetwork(c) \/ Cloning!PrepareLaunch(c) \/ Cloning!WaitReady(c)
           \/ Cloning!ProcessGone(c) \/ Cloning!configureCloneGuest(c)
    PROVE  CloneInv'
<1> USE DEF Cloning!At, Cloning!sandboxVars
<1>1. /\ UNCHANGED <<clRec, clLock, clConfig, clVm, clReaders, clStaged, clSnap>>
      /\ \/ clOp[c].step \in ClBuilding /\ \E s \in {"abort", "fail"} : Cloning!Goto(c, s)
         \/ clOp[c].step = "network" /\ Cloning!Goto(c, "prepare")
         \/ clOp[c].step = "prepare" /\ Cloning!Goto(c, "stage")
         \/ clOp[c].step \in {"ready", "configure"} /\ \E s \in {"configure", "commit"} : Cloning!Goto(c, s)
  BY DEF Cloning!recoverNetwork, Cloning!PrepareLaunch, Cloning!WaitReady, Cloning!ProcessGone,
     Cloning!configureCloneGuest, ClBuilding, ClLoading
<1>2. clReaders' # {} => clSnap' = "ready"
  BY <1>1 DEF CloneInv
<1>3. c \in clReaders \/ c \in clStaged
  BY <1>1 DEF CloneInv, ClFacts, ClSourced, ClBuilding, ClLoading
<1>4. {"abort", "fail", "prepare", "stage", "configure", "commit"} \subseteq ClSteps
  BY DEF ClSteps, ClHolding, ClBuilding
<1>5. PICK s \in {"abort", "fail", "prepare", "stage", "configure", "commit"} :
           /\ Cloning!Goto(c, s)
           /\ \/ clOp[c].step \in ClBuilding /\ s \in {"abort", "fail"}
              \/ clOp[c].step = "network" /\ s = "prepare"
              \/ clOp[c].step = "prepare" /\ s = "stage"
              \/ clOp[c].step \in {"ready", "configure"} /\ s \in {"configure", "commit"}
  BY <1>1
<1>6. s \notin {"lease", "done"}
  OBVIOUS
<1> QED
  BY <1>1, <1>2, <1>3, <1>4, <1>5, <1>6, ClMoves

LEMMA ClCopy ==
    ASSUME CloneInv, NEW c \in Clones, Cloning!copyNativeState(c)
    PROVE  CloneInv'
<1>1. /\ UNCHANGED <<clRec, clLock, clConfig, clVm, clReaders, clStaged, clSnap>> /\ clOp[c].step = "stage"
      /\ Cloning!Goto(c, "patch") \/ Cloning!Goto(c, "fail")
  BY DEF Cloning!copyNativeState, Cloning!At
<1>2. /\ ClTyped /\ ClFacts(c) /\ {"stage", "patch", "fail"} \subseteq ClBuilding
      /\ clReaders' # {} => clSnap' = "ready"
  BY <1>1 DEF CloneInv, ClBuilding
<1>3. clVm[c] \in ClVmType /\ clVm' = [clVm EXCEPT ![c] = clVm[c]] /\ clVm[c].state = "none"
  BY <1>1, <1>2 DEF ClTyped, ClVmType, ClFacts, ClBuilt
<1>4. ClBuilt(c, "patch", clVm[c]) /\ ClBuilt(c, "fail", clVm[c])
  BY <1>3 DEF ClBuilt, ClEarly
<1> QED
  BY <1>1, <1>2, <1>3, <1>4, ClBuilds

LEMMA ClExec ==
    ASSUME CloneInv, NEW c \in Clones, Cloning!restore(c)
    PROVE  CloneInv'
<1>1. /\ UNCHANGED <<clRec, clLock, clConfig, clReaders, clStaged, clSnap>> /\ clOp[c].step = "exec"
      /\ \/ clVm' = [clVm EXCEPT ![c] = Cloning!PrepareRestore] /\ Cloning!Goto(c, "load")
         \/ UNCHANGED clVm /\ Cloning!Goto(c, "fail")
  BY DEF Cloning!restore, Cloning!At
<1>2. ClTyped /\ ClFacts(c) /\ {"exec", "load", "fail"} \subseteq ClBuilding
  BY <1>1 DEF CloneInv, ClBuilding, ClLoading
<1>3. clVm[c] \in ClVmType /\ clVm = [clVm EXCEPT ![c] = clVm[c]] /\ clVm[c].state = "none"
  BY <1>1, <1>2 DEF ClTyped, ClVmType, ClFacts, ClBuilt
<1>4. Cloning!PrepareRestore \in ClVmType /\ Cloning!PrepareRestore.state = "api"
  BY DEF Cloning!PrepareRestore, Cloning!NoVM, ClVmType
<1>5. ClBuilt(c, "load", Cloning!PrepareRestore) /\ ClBuilt(c, "fail", clVm[c])
  BY <1>3, <1>4 DEF ClBuilt, ClEarly
<1> QED
  BY <1>1, <1>2, <1>3, <1>4, <1>5, ClBuilds

(* The rebound configuration names nothing but the clone's own.              *)
LEMMA ClPatched ==
    ASSUME NEW c \in Clones, NEW preserve \in BOOLEAN
    PROVE  /\ Cloning!patchCloneConfig(c, preserve) \in [taps : SUBSET ClTaps, disk : Clones \cup {Source}]
           /\ Cloning!patchCloneConfig(c, preserve).disk = c
           /\ Cloning!patchCloneConfig(c, preserve).taps \subseteq ClOwnTaps(c)
<1>1. Cloning!launchPlan(c).taps = {Cloning!Tap(c)} /\ Cloning!launchPlan(c).disk = c
  BY DEF Cloning!launchPlan
<1> DEFINE t == IF preserve THEN Cloning!launchPlan(c).taps ELSE {Cloning!TemporaryTap(c)}
<1>2. t \subseteq ClOwnTaps(c) /\ t \in SUBSET ClTaps
  <2>1. Cloning!Tap(c) \in ClOwnTaps(c) /\ Cloning!TemporaryTap(c) \in ClOwnTaps(c)
    BY DEF ClOwnTaps
  <2> QED
    BY <1>1, <2>1, ClOwn
<1>3. Cloning!patchCloneConfig(c, preserve) = [taps |-> t, disk |-> c]
  BY <1>1 DEF Cloning!patchCloneConfig
<1> HIDE DEF t
<1> QED
  BY SMTT(30), <1>2, <1>3

LEMMA ClWriteConfig ==
    ASSUME CloneInv, NEW c \in Clones, Cloning!WriteConfig(c)
    PROVE  CloneInv'
<1>1. UNCHANGED <<clRec, clLock, clVm, clReaders, clStaged, clSnap>> /\ clOp[c].step = "patch"
  BY DEF Cloning!WriteConfig, Cloning!At
<1>2. /\ ClTyped /\ ClFacts(c) /\ {"patch", "exec", "fail"} \subseteq ClBuilding
      /\ clReaders' # {} => clSnap' = "ready"
      /\ ClBuilding \subseteq ClSteps
  BY <1>1 DEF CloneInv, ClBuilding, ClSteps, ClHolding
<1>3. clVm[c].state = "none" /\ (c \in clReaders \/ c \in clStaged)
  BY <1>1, <1>2 DEF ClFacts, ClBuilt, ClSourced
<1>4. CASE Cloning!Goto(c, "fail") /\ UNCHANGED clConfig
  BY <1>1, <1>2, <1>3, <1>4, ClMoves
<1>5. ASSUME NEW preserve \in BOOLEAN,
             clConfig' = [clConfig EXCEPT ![c] = Cloning!patchCloneConfig(c, preserve)],
             clOp' = [clOp EXCEPT ![c].step = "exec", ![c].preserve = preserve]
      PROVE  CloneInv'
  <2> DEFINE k == Cloning!patchCloneConfig(c, preserve)
  <2>1. k \in [taps : SUBSET ClTaps, disk : Clones \cup {Source}] /\ k.disk = c /\ k.taps \subseteq ClOwnTaps(c)
    BY ClPatched
  <2>2. clConfig' = [clConfig EXCEPT ![c] = k]
    BY <1>5
  <2> HIDE DEF k
  <2>3. /\ clConfig' \in [Clones -> [taps : SUBSET ClTaps, disk : Clones \cup {Source}]] /\ clConfig'[c] = k
        /\ \A u \in Clones \ {c} : clConfig'[u] = clConfig[u]
    BY <1>2, <2>1, <2>2 DEF ClTyped
  <2>4. /\ clOp' \in [Clones -> [step : ClSteps, gen : Nat, preserve : BOOLEAN]]
        /\ clOp'[c].step = "exec"
        /\ \A u \in Clones \ {c} : clOp'[u] = clOp[u]
    <3>1. clOp \in [Clones -> [step : ClSteps, gen : Nat, preserve : BOOLEAN]] /\ "exec" \in ClSteps
      BY <1>2 DEF ClTyped
    <3> QED
      BY ONLY Zenon, <1>5, <3>1, c \in Clones, preserve \in BOOLEAN
  <2>5. ClTyped' /\ ClFrame(c)
    BY <1>1, <1>2, <2>3, <2>4 DEF ClTyped, ClFrame
  <2>6. ClRecorded(c)'
    BY <1>1, <1>2, <1>3, <2>4 DEF ClFacts, ClRecorded, ClEarly
  <2>7. ClBuilt(c, clOp[c].step, clVm[c])'
    BY <1>1, <1>3, <2>4 DEF ClBuilt, ClEarly
  <2>8. ClSourced(c)' /\ ClConfigured(c)' /\ (c \in clLock <=> clOp[c].step \in ClHolding)'
    BY <1>1, <1>2, <1>3, <2>1, <2>3, <2>4 DEF ClSourced, ClConfigured, ClFacts, ClHolding
  <2>9. ClFacts(c)'
    BY <2>6, <2>7, <2>8 DEF ClFacts
  <2> QED
    BY <1>2, <2>5, <2>9, ClStep
<1> QED
  BY <1>4, <1>5 DEF Cloning!WriteConfig

(* A clone outside its locked start: what remains to know of it.             *)
LEMMA ClRests ==
    ASSUME CloneInv, NEW c \in Clones, NEW s \in {"lock", "cleanup", "done"}, NEW r \in ClStates, NEW v \in ClVmType,
           clOp' \in [Clones -> [step : ClSteps, gen : Nat, preserve : BOOLEAN]],
           clOp'[c].step = s, \A u \in Clones \ {c} : clOp'[u] = clOp[u],
           clRec' \in [Clones -> [state : ClStates, gen : Nat]],
           clRec'[c].state = r, \A u \in Clones \ {c} : clRec'[u] = clRec[u],
           clVm' = [clVm EXCEPT ![c] = v],
           UNCHANGED <<clConfig>>, clReaders' # {} => clSnap' = "ready",
           clLock' = clLock \ {c},
           \A u \in Clones \ {c} : u \in clReaders \/ u \in clStaged => u \in clReaders' \/ u \in clStaged',
           s # "done" => c \in clReaders' \/ c \in clStaged',
           r \in {"creating", "created"} => v.state = "none",
           r = "running" => v.state \in {"none", "running"},
           v.state = "running" => ClGood(c, v) /\ v.limited = TRUE
    PROVE  CloneInv'
<1>1. clVm' \in [Clones -> ClVmType] /\ clVm'[c] = v /\ \A u \in Clones \ {c} : clVm'[u] = clVm[u]
  BY DEF CloneInv, ClTyped, ClVmType
<1>2. ClTyped' /\ ClFrame(c)
  BY <1>1 DEF CloneInv, ClTyped, ClFrame, ClStates, ClVmType
<1>3. ClSourced(c)' /\ ClConfigured(c)'
  BY DEF ClSourced, ClConfigured
<1>4. ClRecorded(c)'
  BY <1>1 DEF ClRecorded, ClEarly, ClBuilding, ClLoading
<1>5. ClBuilt(c, clOp[c].step, clVm[c])'
  BY <1>1 DEF ClBuilt, ClEarly
<1>6. (c \in clLock <=> clOp[c].step \in ClHolding)'
  BY DEF ClHolding, ClBuilding, ClLoading
<1>7. ClFacts(c)'
  BY <1>3, <1>4, <1>5, <1>6 DEF ClFacts
<1> QED
  BY <1>2, <1>7, ClStep

LEMMA ClNoVM == Cloning!NoVM \in ClVmType /\ Cloning!NoVM.state = "none"
BY DEF Cloning!NoVM, ClVmType

(* What is left of a VMM that is there or gone.                              *)
LEMMA ClVmGoes ==
    ASSUME CloneInv, NEW c \in Clones, UNCHANGED clVm \/ clVm' = [clVm EXCEPT ![c] = Cloning!NoVM]
    PROVE  \E v \in ClVmType :
               /\ clVm' = [clVm EXCEPT ![c] = v] /\ v \in {clVm[c], Cloning!NoVM}
               /\ v.state = "running" => ClGood(c, v) /\ v.limited = TRUE
<1>1. /\ clVm[c] \in ClVmType /\ clVm = [clVm EXCEPT ![c] = clVm[c]]
      /\ clVm[c].state = "running" => ClGood(c, clVm[c]) /\ clVm[c].limited = TRUE
  BY DEF CloneInv, ClTyped, ClVmType, ClFacts, ClBuilt
<1> QED
  BY <1>1, ClNoVM

LEMMA ClRestoreFailed ==
    ASSUME CloneInv, NEW c \in Clones, Cloning!restoreFailed(c)
    PROVE  CloneInv'
<1>1. /\ UNCHANGED <<clRec, clLock, clConfig, clReaders, clStaged, clSnap>> /\ clOp[c].step = "abort"
      /\ Cloning!Goto(c, "fail")
      /\ UNCHANGED clVm \/ clVm' = [clVm EXCEPT ![c] = Cloning!NoVM]
  BY DEF Cloning!restoreFailed, Cloning!At, Cloning!Abort, Cloning!Cleared
<1>2. PICK v \in ClVmType : /\ clVm' = [clVm EXCEPT ![c] = v]
                            /\ v.state = "running" => ClGood(c, v) /\ v.limited = TRUE
  BY <1>1, ClVmGoes
<1>3. ClBuilt(c, "fail", v) /\ {"abort", "fail"} \subseteq ClBuilding
  BY <1>2 DEF ClBuilt, ClEarly, ClBuilding
<1> QED
  BY <1>1, <1>2, <1>3, ClBuilds

LEMMA ClFailStart ==
    ASSUME CloneInv, NEW c \in Clones, Cloning!failStart(c)
    PROVE  CloneInv'
<1>1. /\ UNCHANGED <<clConfig, clSnap>> /\ clOp[c].step = "fail" /\ Cloning!Return(c) /\ clLock' = clLock \ {c}
      /\ Cloning!Commit(c, "error") \/ UNCHANGED clRec
      /\ UNCHANGED clVm \/ clVm' = [clVm EXCEPT ![c] = Cloning!NoVM]
  BY DEF Cloning!failStart, Cloning!At, Cloning!Abort, Cloning!Cleared
<1>2. PICK v \in ClVmType : /\ clVm' = [clVm EXCEPT ![c] = v]
                            /\ v.state = "running" => ClGood(c, v) /\ v.limited = TRUE
  BY <1>1, ClVmGoes
<1>3. ClTyped /\ ClFacts(c) /\ "done" \in ClSteps /\ "error" \in ClStates /\ "starting" \in ClStates
      /\ "fail" \in ClBuilding
  BY DEF CloneInv, ClSteps, ClStates, ClBuilding
<1>4. /\ clOp' \in [Clones -> [step : ClSteps, gen : Nat, preserve : BOOLEAN]]
      /\ clOp'[c].step = "done"
      /\ \A u \in Clones \ {c} : clOp'[u] = clOp[u]
  BY <1>1, <1>3, ClGoto DEF Cloning!Return
<1>5. /\ clReaders' # {} => clSnap' = "ready"
      /\ \A u \in Clones \ {c} : u \in clReaders \/ u \in clStaged => u \in clReaders' \/ u \in clStaged'
  BY <1>1 DEF CloneInv, Cloning!Return
<1>6. CASE Cloning!Commit(c, "error")
  <2>1. /\ clRec' \in [Clones -> [state : ClStates, gen : Nat]]
        /\ clRec'[c].state = "error"
        /\ \A u \in Clones \ {c} : clRec'[u] = clRec[u]
    BY <1>3, <1>6, ClCommit
  <2> QED
    BY <1>1, <1>2, <1>3, <1>4, <1>5, <2>1, ClRests
<1>7. CASE UNCHANGED clRec
  <2>1. clRec \in [Clones -> [state : ClStates, gen : Nat]] /\ clRec[c].state = "starting"
    BY <1>1, <1>3 DEF ClFacts, ClRecorded, ClTyped, ClStates
  <2> QED
    BY <1>1, <1>2, <1>3, <1>4, <1>5, <1>7, <2>1, ClRests
<1> QED
  BY <1>1, <1>6, <1>7

LEMMA ClMarkRunning ==
    ASSUME CloneInv, NEW c \in Clones, Cloning!MarkRunning(c)
    PROVE  CloneInv'
<1>1. UNCHANGED <<clConfig, clSnap, clVm>> /\ clOp[c].step = "commit"
  BY DEF Cloning!MarkRunning, Cloning!At
<1>2. ClTyped /\ ClFacts(c) /\ {"done", "fail"} \subseteq ClSteps /\ "running" \in ClStates
      /\ "commit" \in ClBuilding /\ "fail" \in ClBuilding
  BY DEF CloneInv, ClSteps, ClStates, ClBuilding, ClHolding
<1>3. CASE Cloning!Commit(c, "running") /\ Cloning!Return(c) /\ clLock' = clLock \ {c}
  <2>1. PICK v \in ClVmType : /\ clVm' = [clVm EXCEPT ![c] = v] /\ v \in {clVm[c], Cloning!NoVM}
                              /\ v.state = "running" => ClGood(c, v) /\ v.limited = TRUE
    BY <1>1, ClVmGoes
  <2>2. /\ clOp' \in [Clones -> [step : ClSteps, gen : Nat, preserve : BOOLEAN]]
        /\ clOp'[c].step = "done"
        /\ \A u \in Clones \ {c} : clOp'[u] = clOp[u]
    BY <1>2, <1>3, ClGoto DEF Cloning!Return
  <2>3. /\ clReaders' # {} => clSnap' = "ready"
        /\ \A u \in Clones \ {c} : u \in clReaders \/ u \in clStaged => u \in clReaders' \/ u \in clStaged'
    BY <1>1, <1>3 DEF CloneInv, Cloning!Return
  <2>4. /\ clRec' \in [Clones -> [state : ClStates, gen : Nat]]
        /\ clRec'[c].state = "running"
        /\ \A u \in Clones \ {c} : clRec'[u] = clRec[u]
    BY <1>2, <1>3, ClCommit
  <2>5. v.state \in {"none", "running"}
    BY <1>1, <1>2, <2>1, ClNoVM DEF ClFacts, ClBuilt
  <2>6. UNCHANGED <<clConfig>> /\ clLock' = clLock \ {c} /\ "running" \in ClStates
    BY <1>1, <1>2, <1>3
  <2>7. clVm' = [clVm EXCEPT ![c] = v] /\ (v.state = "running" => ClGood(c, v) /\ v.limited = TRUE)
    BY <2>1
  <2> QED
    BY ONLY Zenon, CloneInv, c \in Clones, v \in ClVmType, <2>2, <2>3, <2>4, <2>5, <2>6, <2>7, ClRests
<1>4. CASE Cloning!Goto(c, "fail") /\ UNCHANGED <<clRec, clLock, clReaders, clStaged>>
  <2>1. /\ clReaders' # {} => clSnap' = "ready"
        /\ c \in clReaders \/ c \in clStaged
    BY <1>1, <1>2, <1>4 DEF CloneInv, ClFacts, ClSourced
  <2> QED
    BY <1>1, <1>2, <1>4, <2>1, ClMoves
<1> QED
  BY <1>3, <1>4 DEF Cloning!MarkRunning

LEMMA ClCrash ==
    ASSUME CloneInv, NEW c \in Clones, Cloning!Crash(c)
    PROVE  CloneInv'
<1>1. /\ Cloning!Goto(c, "done") /\ clReaders' = clReaders \ {c} /\ clLock' = clLock \ {c}
      /\ UNCHANGED <<clSnap, clStaged, clRec, clConfig, clVm>>
  BY DEF Cloning!Crash
<1>2. /\ ClTyped /\ ClFacts(c) /\ "done" \in ClSteps
      /\ clReaders' # {} => clSnap' = "ready"
  BY <1>1 DEF CloneInv, ClSteps
<1>3. /\ clOp' \in [Clones -> [step : ClSteps, gen : Nat, preserve : BOOLEAN]]
      /\ clOp'[c].step = "done"
      /\ \A u \in Clones \ {c} : clOp'[u] = clOp[u]
  BY <1>1, <1>2, ClGoto
<1>4. PICK v \in ClVmType : /\ clVm' = [clVm EXCEPT ![c] = v] /\ v \in {clVm[c], Cloning!NoVM}
                            /\ v.state = "running" => ClGood(c, v) /\ v.limited = TRUE
  BY <1>1, ClVmGoes
<1>5. clRec \in [Clones -> [state : ClStates, gen : Nat]] /\ clRec[c].state \in ClStates
  BY <1>2 DEF ClTyped, ClStates
<1>6. /\ clRec[c].state \in {"creating", "created"} => v.state = "none"
      /\ clRec[c].state = "running" => v.state \in {"none", "running"}
  BY <1>2, <1>4, ClNoVM DEF ClFacts, ClRecorded
<1> QED
  BY <1>1, <1>2, <1>3, <1>4, <1>5, <1>6, ClRests

(* The other operations hold the sandbox's lock, so that the clone is not    *)
(* in its locked start, and they find a record.                              *)
LEMMA ClFree ==
    ASSUME CloneInv, NEW c \in Clones, c \notin clLock, clRec[c].state # "none"
    PROVE  clOp[c].step \in {"lock", "cleanup", "done"}
BY DEF CloneInv, ClFacts, ClRecorded, ClTyped, ClSteps

LEMMA ClOther ==
    ASSUME CloneInv, NEW c \in Clones, NEW r \in ClStates, NEW v \in ClVmType,
           c \notin clLock, clRec[c].state # "none",
           UNCHANGED <<clOp, clConfig, clReaders, clStaged, clSnap, clLock>>,
           clRec' \in [Clones -> [state : ClStates, gen : Nat]],
           clRec'[c].state = r, \A u \in Clones \ {c} : clRec'[u] = clRec[u],
           clVm' = [clVm EXCEPT ![c] = v],
           r \in {"creating", "created"} => v.state = "none",
           r = "running" => v.state \in {"none", "running"},
           v.state = "running" => ClGood(c, v) /\ v.limited = TRUE
    PROVE  CloneInv'
<1>1. PICK s \in {"lock", "cleanup", "done"} : clOp[c].step = s
  BY ClFree
<1>2. clOp' \in [Clones -> [step : ClSteps, gen : Nat, preserve : BOOLEAN]] /\ clOp'[c].step = s
      /\ \A u \in Clones \ {c} : clOp'[u] = clOp[u]
  BY <1>1 DEF CloneInv, ClTyped
<1>3. /\ clReaders' # {} => clSnap' = "ready"
      /\ clLock' = clLock \ {c}
      /\ s # "done" => c \in clReaders' \/ c \in clStaged'
      /\ \A u \in Clones \ {c} : u \in clReaders \/ u \in clStaged => u \in clReaders' \/ u \in clStaged'
  BY <1>1 DEF CloneInv, ClFacts, ClSourced
<1>4. UNCHANGED <<clConfig>>
  OBVIOUS
<1> QED
  BY <1>2, <1>3, <1>4, ClRests

(* A started sandbox uses what is its own.                                   *)
LEMMA ClBooted ==
    ASSUME NEW c \in Clones
    PROVE  /\ Cloning!Booted(c) \in ClVmType /\ Cloning!Booted(c).state = "running"
           /\ ClGood(c, Cloning!Booted(c)) /\ Cloning!Booted(c).limited = TRUE
<1>1. Cloning!Booted(c) = [state |-> "running", taps |-> {Cloning!Tap(c)}, disk |-> c, stale |-> FALSE, limited |-> TRUE]
  BY DEF Cloning!Booted, Cloning!launchPlan
<1>2. {Cloning!Tap(c)} \in SUBSET ClTaps /\ {Cloning!Tap(c)} \subseteq ClOwnTaps(c)
  BY ClOwn
<1> QED
  BY SMTT(30), <1>1, <1>2 DEF ClVmType, ClGood

LEMMA ClStart ==
    ASSUME CloneInv, NEW c \in Clones, Cloning!Start(c)
    PROVE  CloneInv'
<1>1. /\ c \notin clLock /\ clRec[c].state # "none"
      /\ UNCHANGED <<clOp, clConfig, clReaders, clStaged, clSnap, clLock>>
      /\ clVm' = [clVm EXCEPT ![c] = Cloning!Booted(c)]
  BY DEF Cloning!Start, Cloning!Free, Cloning!Startable
<1>2. /\ clRec' \in [Clones -> [state : ClStates, gen : Nat]]
      /\ clRec'[c].state = "running"
      /\ \A u \in Clones \ {c} : clRec'[u] = clRec[u]
  <2> DEFINE g == clRec[c].gen + (IF clRec[c].state = "starting" THEN 1 ELSE 2)
  <2>1. clRec' = [clRec EXCEPT ![c] = [state |-> "running", gen |-> g]]
    BY DEF Cloning!Start
  <2>2. clRec \in [Clones -> [state : ClStates, gen : Nat]] /\ g \in Nat /\ "running" \in ClStates
    BY SMTT(30) DEF CloneInv, ClTyped, ClStates
  <2> HIDE DEF g
  <2> QED
    BY <2>1, <2>2
<1>3. "running" \in ClStates
  BY DEF ClStates
<1> QED
  BY <1>1, <1>2, <1>3, ClBooted, ClOther

LEMMA ClRecover ==
    ASSUME CloneInv, NEW c \in Clones, Cloning!recoverStart(c)
    PROVE  CloneInv'
<1>1. /\ c \notin clLock /\ clRec[c].state # "none"
      /\ UNCHANGED <<clOp, clConfig, clReaders, clStaged, clSnap, clLock>>
  BY DEF Cloning!recoverStart, Cloning!Free
<1>2. ClTyped /\ {"running", "error"} \subseteq ClStates
  BY DEF CloneInv, ClStates
<1>3. CASE clVm[c].state = "running" /\ Cloning!Commit(c, "running") /\ UNCHANGED clVm
  <2>1. PICK v \in ClVmType : /\ clVm' = [clVm EXCEPT ![c] = v] /\ v \in {clVm[c], Cloning!NoVM}
                              /\ v.state = "running" => ClGood(c, v) /\ v.limited = TRUE
    BY <1>3, ClVmGoes
  <2>2. v.state \in {"none", "running"}
    BY <1>3, <2>1, ClNoVM
  <2> QED
    BY <1>1, <1>2, <1>3, <2>1, <2>2, ClCommit, ClOther
<1>4. CASE Cloning!Commit(c, "error") /\ clVm' = [clVm EXCEPT ![c] = Cloning!NoVM]
  BY <1>1, <1>2, <1>4, ClNoVM, ClCommit, ClOther
<1> QED
  BY <1>3, <1>4 DEF Cloning!recoverStart, Cloning!ObservedRunning, Cloning!Cleared

LEMMA ClReconcile ==
    ASSUME CloneInv, NEW c \in Clones, Cloning!Reconcile(c)
    PROVE  CloneInv'
<1>1. /\ c \notin clLock /\ clRec[c].state # "none"
      /\ UNCHANGED <<clOp, clConfig, clReaders, clStaged, clSnap, clLock, clVm>>
  BY DEF Cloning!Reconcile, Cloning!Free
<1>2. ClTyped /\ {"running", "stopped", "none"} \subseteq ClStates
  BY DEF CloneInv, ClStates
<1>3. PICK v \in ClVmType : /\ clVm' = [clVm EXCEPT ![c] = v] /\ v \in {clVm[c], Cloning!NoVM}
                            /\ v.state = "running" => ClGood(c, v) /\ v.limited = TRUE
  BY <1>1, ClVmGoes
<1>4. CASE Cloning!Forget(c)
  BY <1>1, <1>2, <1>3, <1>4, ClForget, ClOther
<1>5. CASE clVm[c].state = "running" /\ Cloning!Commit(c, "running")
  <2>1. v.state \in {"none", "running"}
    BY <1>3, <1>5, ClNoVM
  <2> QED
    BY <1>1, <1>2, <1>3, <1>5, <2>1, ClCommit, ClOther
<1>6. CASE Cloning!Commit(c, "stopped")
  BY <1>1, <1>2, <1>3, <1>6, ClCommit, ClOther
<1> QED
  BY <1>4, <1>5, <1>6 DEF Cloning!Reconcile, Cloning!ObservedRunning

LEMMA ClStop ==
    ASSUME CloneInv, NEW c \in Clones, Cloning!Stop(c)
    PROVE  CloneInv'
<1>1. /\ c \notin clLock /\ clRec[c].state # "none"
      /\ UNCHANGED <<clOp, clConfig, clReaders, clStaged, clSnap, clLock>>
      /\ clVm' = [clVm EXCEPT ![c] = Cloning!NoVM]
  BY DEF Cloning!Stop, Cloning!Free, Cloning!Cleared
<1>2. /\ clRec' \in [Clones -> [state : ClStates, gen : Nat]]
      /\ clRec'[c].state = "stopped"
      /\ \A u \in Clones \ {c} : clRec'[u] = clRec[u]
  <2> DEFINE g == clRec[c].gen + 2
  <2>1. clRec' = [clRec EXCEPT ![c] = [state |-> "stopped", gen |-> g]]
    BY DEF Cloning!Stop
  <2>2. clRec \in [Clones -> [state : ClStates, gen : Nat]] /\ g \in Nat /\ "stopped" \in ClStates
    BY SMTT(30) DEF CloneInv, ClTyped, ClStates
  <2> HIDE DEF g
  <2> QED
    BY <2>1, <2>2
<1>3. "stopped" \in ClStates
  BY DEF ClStates
<1> QED
  BY <1>1, <1>2, <1>3, ClNoVM, ClOther

LEMMA ClRemove ==
    ASSUME CloneInv, NEW c \in Clones, Cloning!Remove(c)
    PROVE  CloneInv'
<1>1. /\ c \notin clLock /\ clRec[c].state # "none" /\ Cloning!Forget(c)
      /\ UNCHANGED <<clOp, clConfig, clReaders, clStaged, clSnap, clLock, clVm>>
  BY DEF Cloning!Remove, Cloning!Free, Cloning!Removable
<1>2. ClTyped /\ "none" \in ClStates
  BY DEF CloneInv, ClStates
<1>3. PICK v \in ClVmType : /\ clVm' = [clVm EXCEPT ![c] = v]
                            /\ v.state = "running" => ClGood(c, v) /\ v.limited = TRUE
  BY <1>1, ClVmGoes
<1> QED
  BY <1>1, <1>2, <1>3, ClForget, ClOther

LEMMA ClExit ==
    ASSUME CloneInv, NEW c \in Clones, Cloning!Exit(c)
    PROVE  CloneInv'
<1>1. /\ clVm' = [clVm EXCEPT ![c] = Cloning!NoVM]
      /\ UNCHANGED <<clOp, clConfig, clReaders, clStaged, clSnap, clLock, clRec>>
  BY DEF Cloning!Exit
<1>2. clVm' \in [Clones -> ClVmType] /\ clVm'[c].state = "none" /\ \A u \in Clones \ {c} : clVm'[u] = clVm[u]
  BY <1>1, ClNoVM DEF CloneInv, ClTyped, ClVmType
<1>3. ClTyped' /\ ClFrame(c) /\ (clReaders' # {} => clSnap' = "ready") /\ ClFacts(c)
  BY <1>1, <1>2 DEF CloneInv, ClTyped, ClFrame, ClVmType
<1>4. ClFacts(c)'
  BY <1>1, <1>2, <1>3 DEF ClFacts, ClSourced, ClRecorded, ClBuilt, ClConfigured
<1> QED
  BY <1>3, <1>4, ClStep

(* What no fact of a clone depends on.                                       *)
LEMMA ClUnchanged ==
    ASSUME CloneInv, UNCHANGED <<clOp, clConfig, clReaders, clStaged, clLock, clRec, clVm>>,
           clReaders' # {} => clSnap' = "ready"
    PROVE  CloneInv'
<1>1. ClTyped'
  BY DEF CloneInv, ClTyped
<1>2. ASSUME NEW c \in Clones PROVE ClFacts(c)'
  <2>1. ClFacts(c)
    BY DEF CloneInv
  <2> QED
    BY ZenonT(30), <2>1 DEF ClFacts, ClSourced, ClRecorded, ClBuilt, ClConfigured
<1> QED
  BY <1>1, <1>2 DEF CloneInv

LEMMA ClRest ==
    ASSUME CloneInv,
           \/ \E c \in Clones : Cloning!CollectOrphan(c)
           \/ Cloning!RemoveSnapshot \/ Cloning!RemoveImage
    PROVE  CloneInv'
<1>1. /\ UNCHANGED <<clOp, clConfig, clReaders, clStaged, clLock, clRec, clVm>>
      /\ clSnap' = clSnap \/ clReaders = {}
  BY DEF Cloning!CollectOrphan, Cloning!RemoveSnapshot, Cloning!RemoveImage, Cloning!sandboxVars
<1> QED
  BY <1>1, ClUnchanged DEF CloneInv

LEMMA ClInit == Cloning!Init => CloneInv
<1> SUFFICES ASSUME Cloning!Init PROVE CloneInv
  OBVIOUS
<1>1. ClTyped
  <2>1. Cloning!NoVM \in ClVmType
    BY ClNoVM
  <2>2. {Cloning!Tap(Source)} \in SUBSET ClTaps
    BY SMTT(30) DEF ClTaps, ClOwnTaps
  <2>3. Cloning!Captured \in [taps : SUBSET ClTaps, disk : Clones \cup {Source}]
    BY <2>2 DEF Cloning!Captured
  <2>4. Cloning!NoRecord \in [state : ClStates, gen : Nat] /\ "idle" \in ClSteps
    BY DEF Cloning!NoRecord, ClStates, ClSteps, ClEarly
  <2> QED
    BY <2>1, <2>3, <2>4 DEF Cloning!Init, ClTyped, ClVmType, ClStates
<1>2. clReaders = {} /\ clLock = {} /\ "idle" \notin ClHolding /\ "idle" \notin ClBuilding
  BY DEF Cloning!Init, ClHolding, ClBuilding, ClLoading
<1>3. ASSUME NEW c \in Clones PROVE ClFacts(c)
  <2>1. clOp[c].step = "idle" /\ clRec[c].state = "none" /\ clVm[c].state = "none"
    BY ClNoVM DEF Cloning!Init, Cloning!NoRecord
  <2> QED
    BY <1>2, <2>1 DEF ClFacts, ClSourced, ClRecorded, ClBuilt, ClConfigured
<1> QED
  BY <1>1, <1>2, <1>3 DEF CloneInv

LEMMA ClNext == CloneInv /\ Cloning!Next => CloneInv'
<1> SUFFICES ASSUME CloneInv, Cloning!Next PROVE CloneInv'
  OBVIOUS
<1>1. ASSUME NEW c \in Clones,
             \/ Cloning!resolve(c) \/ Cloning!lease(c) \/ Cloning!StageDirectory(c)
             \/ Cloning!CheckCapture(c) \/ Cloning!ValidateRestore(c) \/ Cloning!ensureCloneImage(c)
      PROVE  CloneInv'
  BY <1>1, ClSource
<1>2. ASSUME NEW c \in Clones,
             \/ Cloning!createFromSnapshot(c) \/ Cloning!CloneDisk(c) \/ Cloning!compensate(c)
             \/ Cloning!LockClone(c) \/ Cloning!BeginStart(c) \/ Cloning!cleanupCreated(c)
      PROVE  CloneInv'
  BY <1>2, ClCreate, ClCloneDisk, ClCompensate, ClLock, ClBegin, ClCleanup
<1>3. ASSUME NEW c \in Clones,
             \/ Cloning!recoverNetwork(c) \/ Cloning!PrepareLaunch(c) \/ Cloning!WaitReady(c)
             \/ Cloning!ProcessGone(c) \/ Cloning!configureCloneGuest(c)
      PROVE  CloneInv'
  BY <1>3, ClKeepsVm
<1>4. ASSUME NEW c \in Clones,
             \/ Cloning!copyNativeState(c) \/ Cloning!WriteConfig(c) \/ Cloning!restore(c)
             \/ Cloning!restoreVM(c) \/ Cloning!swapCloneNets(c) \/ Cloning!AddNets(c)
             \/ Cloning!addCloneDataDisks(c) \/ Cloning!ApplyLimit(c) \/ Cloning!Resume(c)
      PROVE  CloneInv'
  BY <1>4, ClCopy, ClWriteConfig, ClExec, ClRestoreVM, ClSwapNets, ClAddNets, ClLimit, ClResume
<1>5. ASSUME NEW c \in Clones,
             \/ Cloning!restoreFailed(c) \/ Cloning!MarkRunning(c) \/ Cloning!failStart(c) \/ Cloning!Crash(c)
      PROVE  CloneInv'
  BY <1>5, ClRestoreFailed, ClMarkRunning, ClFailStart, ClCrash
<1>6. ASSUME NEW c \in Clones,
             \/ Cloning!Start(c) \/ Cloning!recoverStart(c) \/ Cloning!Reconcile(c) \/ Cloning!Stop(c)
             \/ Cloning!Remove(c) \/ Cloning!Exit(c)
      PROVE  CloneInv'
  BY <1>6, ClStart, ClRecover, ClReconcile, ClStop, ClRemove, ClExit
<1>7. CASE (\E c \in Clones : Cloning!CollectOrphan(c)) \/ Cloning!RemoveSnapshot \/ Cloning!RemoveImage
  BY <1>7, ClRest
<1> QED
  BY <1>1, <1>2, <1>3, <1>4, <1>5, <1>6, <1>7 DEF Cloning!Next

(* A guest that executes as a clone has its own disk and TAPs and its limit, *)
(* whatever failed, crashed or was recovered, for any number of clones       *)
(* (Driver.Clone, Start, reconciliation).                                    *)
THEOREM ClonesAreIsolated == CopiesSpec => []CloneIsIsolated
<1> DEFINE Inv == focus = "clone" => CloneInv
<1>1. CopiesInit => Inv
  BY ClInit DEF CopiesInit
<1>2. Inv /\ [CloneStep]_copiesVars => Inv'
  <2> SUFFICES ASSUME Inv, [CloneStep]_copiesVars, focus' = "clone" PROVE CloneInv'
    OBVIOUS
  <2>1. CASE CloneStep
    BY <2>1, ClNext DEF CloneStep
  <2>2. CASE UNCHANGED copiesVars
    BY <2>2, ClUnchanged DEF copiesVars, clVars, CloneInv
  <2> QED
    BY <2>1, <2>2
<1>3. Inv => CloneIsIsolated
  <2> SUFFICES ASSUME CloneInv, NEW c \in Clones
               PROVE  /\ clVm[c].state = "running" =>
                          /\ Cloning!Tap(c) \in clVm[c].taps
                          /\ clVm[c].taps \subseteq {Cloning!Tap(c), Cloning!TemporaryTap(c)}
                          /\ clVm[c].disk = c /\ ~clVm[c].stale /\ clVm[c].limited
                      /\ clRec[c].state = "running" => clVm[c].state \in {"none", "running"}
                      /\ clOp[c].step \in {"disk", "stage", "patch", "exec", "load"} => Cloning!SourceReadable(c)
    BY DEF CloneIsIsolated, Cloning!CloneIsIsolated
  <2>1. ClFacts(c)
    BY DEF CloneInv
  <2>2. clVm[c].state = "running" => ClGood(c, clVm[c]) /\ clVm[c].limited = TRUE
    BY <2>1 DEF ClFacts, ClBuilt
  <2>3. clRec[c].state = "running" => clVm[c].state \in {"none", "running"}
    BY <2>1 DEF ClFacts, ClRecorded
  <2>4. clOp[c].step \in {"disk", "stage", "patch", "exec", "load"} => Cloning!SourceReadable(c)
    BY ClSourceReadable
  <2> QED
    BY <2>2, <2>3, <2>4 DEF ClGood, ClOwnTaps
<1> QED
  BY <1>1, <1>2, <1>3, PTL DEF CopiesSpec

-----------------------------------------------------------------------------
(* CNI: what an operation knows at its step. *)
CniKnows ==
    /\ cniOp.kind # "idle" /\ ~Cni!At("add", "prepare") => cniRecord.phase # "none"
    /\ Cni!At("add", "plug") => cniOp.todo \subseteq cniOp.touched /\ \A i \in cniOp.touched : cniRecord.nic[i] = "adding"
    /\ Cni!At("add", "undo") => \A i \in cniOp.touched \ cniOp.todo : i \notin cniAttached
    /\ Cni!At("remove", "delete") => \A i \in cniOp.todo : cniOp.item[i] = "staged" => i \notin cniAttached
    /\ Cni!At("remove", "sweep") => \A i \in cniOp.todo : i \notin cniAttached
    /\ Cni!Deleting("delete") => /\ \A i \in cniOp.touched : i \notin cniAttached
                                 /\ ~cniOp.failed => Cni!Listed \subseteq cniOp.todo \cup cniOp.touched
    /\ Cni!Deleting("unnamespace") \/ Cni!Deleting("drop") => cniAttached = {}
    /\ Cni!Deleting("drop") => ~cniNamespace /\ cniTaps = {}

CniInv == Cni!TypeOK /\ Cni!JournalCoversHost /\ CniKnows

-----------------------------------------------------------------------------
LEMMA CniAddBeginKeeps ==
    ASSUME CniInv, NEW S \in SUBSET Nics, Cni!AddBegin(S)
    PROVE  CniInv'
<1>1. Cni!TypeOK'
  BY DEF Cni!AddBegin, Cni!update, Cni!validateRecord, Cni!Idle, Cni!Phases, Cni!host, CniInv, Cni!TypeOK, Cni!At, Cni!Deleting,
     Cni!Listed
<1>2. Cni!JournalCoversHost'
  BY DEF Cni!AddBegin, Cni!update, Cni!validateRecord, Cni!Idle, Cni!host, CniInv, Cni!TypeOK, Cni!JournalCoversHost,
     CniKnows, Cni!At, Cni!Deleting, Cni!Listed
<1>3. CniKnows'
  BY DEF Cni!AddBegin, Cni!update, Cni!validateRecord, Cni!Idle, Cni!host, CniInv, Cni!TypeOK, Cni!JournalCoversHost,
     CniKnows, Cni!At, Cni!Deleting, Cni!Listed
<1> QED
  BY <1>1, <1>2, <1>3 DEF CniInv

LEMMA CniEnsureNamespaceKeeps ==
    ASSUME CniInv, Cni!EnsureNamespace
    PROVE  CniInv'
<1>1. Cni!TypeOK'
  BY DEF Cni!EnsureNamespace, Cni!Goto, Cni!Phases, Cni!host, CniInv, Cni!TypeOK, Cni!At, Cni!Deleting, Cni!Listed
<1>2. Cni!JournalCoversHost'
  BY DEF Cni!EnsureNamespace, Cni!Goto, Cni!host, CniInv, Cni!TypeOK, Cni!JournalCoversHost, CniKnows, Cni!At,
     Cni!Deleting, Cni!Listed
<1>3. CniKnows'
  BY DEF Cni!EnsureNamespace, Cni!Goto, Cni!host, CniInv, Cni!TypeOK, Cni!JournalCoversHost, CniKnows, Cni!At,
     Cni!Deleting, Cni!Listed
<1> QED
  BY <1>1, <1>2, <1>3 DEF CniInv

(* New slots are not attached: an attached slot is listed already. *)
LEMMA CniStageKeeps ==
    ASSUME CniInv, Cni!stage
    PROVE  CniInv'
<1>1. Cni!TypeOK'
  BY DEF Cni!stage, Cni!update, Cni!validateRecord, Cni!SetNics, Cni!Goto, Cni!Phases, Cni!host, CniInv, Cni!TypeOK, Cni!At,
     Cni!Deleting, Cni!Listed
<1>2. Cni!JournalCoversHost'
  BY DEF Cni!stage, Cni!update, Cni!validateRecord, Cni!SetNics, Cni!Goto, Cni!host, CniInv, Cni!TypeOK,
     Cni!JournalCoversHost, CniKnows, Cni!At, Cni!Deleting, Cni!Listed
<1>3. CniKnows'
  BY DEF Cni!stage, Cni!update, Cni!validateRecord, Cni!SetNics, Cni!Goto, Cni!host, CniInv, Cni!TypeOK,
     Cni!JournalCoversHost, CniKnows, Cni!At, Cni!Deleting, Cni!Listed
<1> QED
  BY <1>1, <1>2, <1>3 DEF CniInv

LEMMA CniScanNicsKeeps ==
    ASSUME CniInv, Cni!ScanNics
    PROVE  CniInv'
<1> DEFINE bad == {i \in cniOp.specs : cniRecord.nic[i] = "deleting"}
           open == {i \in cniOp.specs : cniRecord.nic[i] \in {"staged", "adding"}}
           undo == {i \in open : \A b \in bad : i < b}
           redo == {i \in open : cniRecord.nic[i] = "adding"}
<1>1. /\ open \subseteq Nics /\ undo \subseteq Nics /\ redo \subseteq Nics
      /\ Cni!At("add", "scan") /\ UNCHANGED <<cniRecord, cniNamespace, cniAttached, cniTaps, cniFaults>>
  BY DEF Cni!ScanNics, Cni!host, CniInv, Cni!TypeOK
<1>2. \/ cniOp' = [cniOp EXCEPT !.step = "undo", !.failed = TRUE, !.touched = undo, !.todo = undo]
      \/ cniOp' = [cniOp EXCEPT !.step = "redo", !.touched = open, !.todo = redo]
  BY DEF Cni!ScanNics
<1> HIDE DEF bad, open, undo, redo
<1>3. Cni!TypeOK'
  <2>1. CASE cniOp' = [cniOp EXCEPT !.step = "undo", !.failed = TRUE, !.touched = undo, !.todo = undo]
    BY <1>1, <2>1 DEF CniInv, Cni!TypeOK, Cni!Phases
  <2>2. CASE cniOp' = [cniOp EXCEPT !.step = "redo", !.touched = open, !.todo = redo]
    BY <1>1, <2>2 DEF CniInv, Cni!TypeOK, Cni!Phases
  <2> QED
    BY <1>2, <2>1, <2>2
<1>4. Cni!JournalCoversHost'
  BY <1>1 DEF CniInv, Cni!JournalCoversHost
<1>5. /\ cniOp'.kind = "add" /\ cniOp'.step \in {"undo", "redo"}
      /\ cniOp'.step = "undo" => cniOp'.touched = cniOp'.todo
  BY <1>1, <1>2 DEF CniInv, Cni!TypeOK, Cni!At
<1>6. cniRecord'.phase # "none"
  BY <1>1 DEF CniInv, CniKnows, Cni!At
<1>7. CniKnows'
  BY <1>5, <1>6 DEF CniKnows, Cni!At, Cni!Deleting
<1> QED
  BY <1>3, <1>4, <1>7 DEF CniInv

LEMMA CniRedoNicKeeps ==
    ASSUME CniInv, NEW i \in Nics, Cni!RedoNic(i)
    PROVE  CniInv'
<1>1. Cni!TypeOK'
  BY DEF Cni!RedoNic, Cni!deleteOne, Cni!Phases, Cni!host, CniInv, Cni!TypeOK, Cni!At, Cni!Deleting, Cni!Listed
<1>2. Cni!JournalCoversHost'
  BY DEF Cni!RedoNic, Cni!deleteOne, Cni!host, CniInv, Cni!TypeOK, Cni!JournalCoversHost, CniKnows, Cni!At, Cni!Deleting, Cni!Listed
<1>3. CniKnows'
  BY DEF Cni!RedoNic, Cni!deleteOne, Cni!host, CniInv, Cni!TypeOK, Cni!JournalCoversHost, CniKnows, Cni!At, Cni!Deleting, Cni!Listed
<1> QED
  BY <1>1, <1>2, <1>3 DEF CniInv

(* Only looked-at slots are undone, and none of them counts as undone yet. *)
LEMMA CniRedoFailedKeeps ==
    ASSUME CniInv, NEW i \in Nics, Cni!RedoFailed(i)
    PROVE  CniInv'
<1> DEFINE seen == {j \in cniOp.touched : j <= i}
<1>1. /\ seen \subseteq Nics /\ Cni!At("add", "redo")
      /\ cniAttached' \subseteq cniAttached /\ UNCHANGED <<cniRecord, cniNamespace, cniTaps>>
  BY DEF Cni!RedoFailed, Cni!deleteOneFailed, CniInv, Cni!TypeOK
<1>2. cniOp' = [cniOp EXCEPT !.step = "undo", !.todo = seen, !.touched = seen, !.failed = TRUE]
  BY DEF Cni!RedoFailed
<1>3. cniFaults' \in Nat
  BY SMTT(30) DEF Cni!RedoFailed, Cni!deleteOneFailed, Cni!Fault, CniInv, Cni!TypeOK
<1> HIDE DEF seen
<1>4. Cni!TypeOK'
  BY <1>1, <1>2, <1>3 DEF CniInv, Cni!TypeOK, Cni!Phases
<1>5. Cni!JournalCoversHost'
  BY <1>1 DEF CniInv, Cni!JournalCoversHost
<1>6. cniOp'.kind = "add" /\ cniOp'.step = "undo" /\ cniOp'.touched = cniOp'.todo
  BY <1>1, <1>2 DEF CniInv, Cni!TypeOK, Cni!At
<1>7. CniKnows'
  BY <1>1, <1>6 DEF CniInv, CniKnows, Cni!At, Cni!Deleting
<1> QED
  BY <1>4, <1>5, <1>7 DEF CniInv

(* The journal says adding before a plugin runs. *)
LEMMA CniMarkAddingKeeps ==
    ASSUME CniInv, Cni!MarkAdding
    PROVE  CniInv'
<1>1. Cni!TypeOK'
  BY DEF Cni!MarkAdding, Cni!update, Cni!validateRecord, Cni!SetNics, Cni!Phases, Cni!host, CniInv, Cni!TypeOK, Cni!At,
     Cni!Deleting, Cni!Listed
<1>2. Cni!JournalCoversHost'
  BY DEF Cni!MarkAdding, Cni!update, Cni!validateRecord, Cni!SetNics, Cni!host, CniInv, Cni!TypeOK,
     Cni!JournalCoversHost, CniKnows, Cni!At, Cni!Deleting, Cni!Listed
<1>3. CniKnows'
  BY DEF Cni!MarkAdding, Cni!update, Cni!validateRecord, Cni!SetNics, Cni!host, CniInv, Cni!TypeOK,
     Cni!JournalCoversHost, CniKnows, Cni!At, Cni!Deleting, Cni!Listed
<1> QED
  BY <1>1, <1>2, <1>3 DEF CniInv

LEMMA CniAddOneKeeps ==
    ASSUME CniInv, NEW i \in Nics, Cni!addOne(i)
    PROVE  CniInv'
<1>1. Cni!TypeOK'
  BY DEF Cni!addOne, Cni!Phases, Cni!host, CniInv, Cni!TypeOK, Cni!At, Cni!Deleting, Cni!Listed
<1>2. Cni!JournalCoversHost'
  BY SMTT(30) DEF Cni!addOne, Cni!host, CniInv, Cni!TypeOK, Cni!JournalCoversHost, CniKnows, Cni!At, Cni!Deleting, Cni!Listed
<1>3. CniKnows'
  BY DEF Cni!addOne, Cni!host, CniInv, Cni!TypeOK, Cni!JournalCoversHost, CniKnows, Cni!At, Cni!Deleting, Cni!Listed
<1> QED
  BY <1>1, <1>2, <1>3 DEF CniInv

LEMMA CniAddOneFailedKeeps ==
    ASSUME CniInv, NEW i \in Nics, Cni!addOneFailed(i)
    PROVE  CniInv'
<1>1. Cni!TypeOK'
  <2>1. cniFaults' \in Nat
    BY SMTT(30) DEF Cni!addOneFailed, Cni!Fault, CniInv, Cni!TypeOK
  <2> QED
    BY <2>1 DEF Cni!addOneFailed, Cni!Phases, Cni!host, CniInv, Cni!TypeOK
<1>2. Cni!JournalCoversHost'
  BY SMTT(30) DEF Cni!addOneFailed, Cni!host, CniInv, Cni!TypeOK, Cni!JournalCoversHost, CniKnows, Cni!At, Cni!Deleting, Cni!Listed
<1>3. CniKnows'
  BY DEF Cni!addOneFailed, Cni!host, CniInv, Cni!TypeOK, Cni!JournalCoversHost, CniKnows, Cni!At, Cni!Deleting, Cni!Listed
<1> QED
  BY <1>1, <1>2, <1>3 DEF CniInv

LEMMA CniStoreReadyBatchKeeps ==
    ASSUME CniInv, Cni!storeReadyBatch
    PROVE  CniInv'
<1>1. CASE Cni!StartUndo /\ UNCHANGED cniRecord
  <2>1. Cni!TypeOK'
    BY <1>1 DEF Cni!storeReadyBatch, Cni!StartUndo, Cni!host, CniInv, Cni!TypeOK
  <2>2. Cni!JournalCoversHost' /\ CniKnows'
    BY <1>1 DEF Cni!storeReadyBatch, Cni!StartUndo, Cni!host, CniInv, Cni!TypeOK, Cni!JournalCoversHost,
       CniKnows, Cni!At, Cni!Deleting, Cni!Listed
  <2> QED
    BY <2>1, <2>2 DEF CniInv
<1>2. CASE /\ Cni!update([cniRecord EXCEPT !.nic = Cni!SetNics(cniOp.touched, "ready")])
           /\ Cni!Goto("commit")
  <2>1. Cni!TypeOK'
    BY <1>2 DEF Cni!storeReadyBatch, Cni!update, Cni!SetNics, Cni!Goto, Cni!Phases, Cni!host, CniInv, Cni!TypeOK
  <2>2. Cni!JournalCoversHost'
    BY <1>2 DEF Cni!storeReadyBatch, Cni!update, Cni!SetNics, Cni!host, CniInv, Cni!TypeOK, Cni!JournalCoversHost
  <2>3. CniKnows'
    BY <1>2 DEF Cni!storeReadyBatch, Cni!update, Cni!Goto, Cni!host, CniInv, Cni!TypeOK, CniKnows, Cni!At, Cni!Deleting
  <2> QED
    BY <2>1, <2>2, <2>3 DEF CniInv
<1> QED
  BY <1>1, <1>2 DEF Cni!storeReadyBatch

LEMMA CniCommitReadyKeeps ==
    ASSUME CniInv, Cni!CommitReady
    PROVE  CniInv'
<1>1. CASE Cni!StartUndo /\ UNCHANGED cniRecord
  <2>1. Cni!TypeOK'
    BY <1>1 DEF Cni!CommitReady, Cni!StartUndo, Cni!host, CniInv, Cni!TypeOK
  <2>2. Cni!JournalCoversHost' /\ CniKnows'
    BY <1>1 DEF Cni!CommitReady, Cni!StartUndo, Cni!host, CniInv, Cni!TypeOK, Cni!JournalCoversHost, CniKnows,
       Cni!At, Cni!Deleting, Cni!Listed
  <2> QED
    BY <2>1, <2>2 DEF CniInv
<1>2. CASE cniRecord' = [cniRecord EXCEPT !.phase = "ready"] /\ Cni!Return
  <2>1. Cni!TypeOK'
    BY <1>2 DEF Cni!CommitReady, Cni!Return, Cni!Idle, Cni!Phases, Cni!host, CniInv, Cni!TypeOK
  <2>2. Cni!JournalCoversHost' /\ CniKnows'
    BY <1>2 DEF Cni!CommitReady, Cni!Return, Cni!Idle, Cni!host, CniInv, Cni!TypeOK, Cni!JournalCoversHost,
       CniKnows, Cni!At, Cni!Deleting
  <2> QED
    BY <2>1, <2>2 DEF CniInv
<1> QED
  BY <1>1, <1>2 DEF Cni!CommitReady

LEMMA CniAddFailedKeeps ==
    ASSUME CniInv, Cni!AddFailed
    PROVE  CniInv'
<1>1. Cni!TypeOK'
  <2>1. cniFaults' \in Nat
    BY SMTT(30) DEF Cni!AddFailed, Cni!Fault, CniInv, Cni!TypeOK
  <2> QED
    BY <2>1 DEF Cni!AddFailed, Cni!StartUndo, Cni!Phases, Cni!host, CniInv, Cni!TypeOK
<1>2. Cni!JournalCoversHost'
  BY DEF Cni!AddFailed, Cni!StartUndo, Cni!host, CniInv, Cni!TypeOK, Cni!JournalCoversHost, CniKnows, Cni!At,
     Cni!Deleting, Cni!Listed
<1>3. CniKnows'
  BY DEF Cni!AddFailed, Cni!StartUndo, Cni!host, CniInv, Cni!TypeOK, Cni!JournalCoversHost, CniKnows, Cni!At,
     Cni!Deleting, Cni!Listed
<1> QED
  BY <1>1, <1>2, <1>3 DEF CniInv

LEMMA CniAddRefusedKeeps ==
    ASSUME CniInv, Cni!AddRefused
    PROVE  CniInv'
<1>1. Cni!TypeOK'
  BY SMTT(30) DEF Cni!AddRefused, Cni!Fault, Cni!Return, Cni!Idle, Cni!Phases, Cni!host, CniInv, Cni!TypeOK, Cni!At, Cni!Deleting, Cni!Listed
<1>2. Cni!JournalCoversHost'
  BY DEF Cni!AddRefused, Cni!Return, Cni!Idle, Cni!host, CniInv, Cni!TypeOK, Cni!JournalCoversHost, CniKnows, Cni!At,
     Cni!Deleting, Cni!Listed
<1>3. CniKnows'
  BY DEF Cni!AddRefused, Cni!Return, Cni!Idle, Cni!host, CniInv, Cni!TypeOK, Cni!JournalCoversHost, CniKnows, Cni!At,
     Cni!Deleting, Cni!Listed
<1> QED
  BY <1>1, <1>2, <1>3 DEF CniInv

(* A staged slot is not attached, so skipping its DEL is safe. *)
LEMMA CniRollbackKeeps ==
    ASSUME CniInv, NEW i \in Nics, Cni!rollback(i)
    PROVE  CniInv'
<1>1. Cni!TypeOK'
  BY DEF Cni!rollback, Cni!Phases, Cni!host, CniInv, Cni!TypeOK, Cni!At, Cni!Deleting, Cni!Listed
<1>2. Cni!JournalCoversHost'
  BY DEF Cni!rollback, Cni!host, CniInv, Cni!TypeOK, Cni!JournalCoversHost, CniKnows, Cni!At, Cni!Deleting, Cni!Listed
<1>3. CniKnows'
  BY DEF Cni!rollback, Cni!host, CniInv, Cni!TypeOK, Cni!JournalCoversHost, CniKnows, Cni!At, Cni!Deleting, Cni!Listed
<1> QED
  BY <1>1, <1>2, <1>3 DEF CniInv

(* A failed DEL keeps its slot in the record. *)
LEMMA CniRollbackFailedKeeps ==
    ASSUME CniInv, NEW i \in Nics, Cni!rollbackFailed(i)
    PROVE  CniInv'
<1>1. Cni!TypeOK'
  <2>1. cniFaults' \in Nat
    BY SMTT(30) DEF Cni!rollbackFailed, Cni!deleteOneFailed, Cni!Fault, CniInv, Cni!TypeOK
  <2> QED
    BY <2>1 DEF Cni!rollbackFailed, Cni!deleteOneFailed, Cni!Phases, Cni!host, CniInv, Cni!TypeOK
<1>2. Cni!JournalCoversHost'
  BY DEF Cni!rollbackFailed, Cni!deleteOneFailed, Cni!host, CniInv, Cni!TypeOK, Cni!JournalCoversHost, CniKnows, Cni!At, Cni!Deleting, Cni!Listed
<1>3. CniKnows'
  BY DEF Cni!rollbackFailed, Cni!deleteOneFailed, Cni!host, CniInv, Cni!TypeOK, Cni!JournalCoversHost, CniKnows, Cni!At, Cni!Deleting, Cni!Listed
<1> QED
  BY <1>1, <1>2, <1>3 DEF CniInv

LEMMA CniSweepUndoneKeeps ==
    ASSUME CniInv, Cni!SweepUndone
    PROVE  CniInv'
<1>1. Cni!TypeOK'
  BY DEF Cni!SweepUndone, Cni!update, Cni!validateRecord, Cni!SetNics, Cni!Return, Cni!Idle, Cni!Phases, Cni!host, CniInv,
     Cni!TypeOK, Cni!At, Cni!Deleting, Cni!Listed
<1>2. Cni!JournalCoversHost'
  BY DEF Cni!SweepUndone, Cni!update, Cni!validateRecord, Cni!SetNics, Cni!Return, Cni!Idle, Cni!host, CniInv, Cni!TypeOK,
     Cni!JournalCoversHost, CniKnows, Cni!At, Cni!Deleting, Cni!Listed
<1>3. CniKnows'
  BY DEF Cni!SweepUndone, Cni!update, Cni!validateRecord, Cni!SetNics, Cni!Return, Cni!Idle, Cni!host, CniInv, Cni!TypeOK,
     Cni!JournalCoversHost, CniKnows, Cni!At, Cni!Deleting, Cni!Listed
<1> QED
  BY <1>1, <1>2, <1>3 DEF CniInv

LEMMA CniRemoveIndexKeeps ==
    ASSUME CniInv, NEW i \in Nics, Cni!removeIndex(i)
    PROVE  CniInv'
<1>1. Cni!TypeOK'
  BY DEF Cni!removeIndex, Cni!update, Cni!validateRecord, Cni!SetNics, Cni!Idle, Cni!Phases, Cni!host, CniInv, Cni!TypeOK,
     Cni!At, Cni!Deleting, Cni!Listed
<1>2. Cni!JournalCoversHost'
  BY DEF Cni!removeIndex, Cni!update, Cni!validateRecord, Cni!SetNics, Cni!Idle, Cni!host, CniInv, Cni!TypeOK,
     Cni!JournalCoversHost, CniKnows, Cni!At, Cni!Deleting, Cni!Listed
<1>3. CniKnows'
  BY SMTT(30) DEF Cni!removeIndex, Cni!update, Cni!validateRecord, Cni!SetNics, Cni!Idle, Cni!host, CniInv, Cni!TypeOK,
     Cni!JournalCoversHost, CniKnows, Cni!At, Cni!Deleting, Cni!Listed
<1> QED
  BY <1>1, <1>2, <1>3 DEF CniInv

LEMMA CniRemoveNicKeeps ==
    ASSUME CniInv, Cni!RemoveNic
    PROVE  CniInv'
<1>1. Cni!TypeOK'
  BY DEF Cni!RemoveNic, Cni!Goto, Cni!Phases, Cni!host, CniInv, Cni!TypeOK, Cni!At, Cni!Deleting, Cni!Listed
<1>2. Cni!JournalCoversHost'
  BY DEF Cni!RemoveNic, Cni!Goto, Cni!host, CniInv, Cni!TypeOK, Cni!JournalCoversHost, CniKnows, Cni!At, Cni!Deleting, Cni!Listed
<1>3. CniKnows'
  BY DEF Cni!RemoveNic, Cni!Goto, Cni!host, CniInv, Cni!TypeOK, Cni!JournalCoversHost, CniKnows, Cni!At, Cni!Deleting, Cni!Listed
<1> QED
  BY <1>1, <1>2, <1>3 DEF CniInv

LEMMA CniSweepRemovedKeeps ==
    ASSUME CniInv, Cni!SweepRemoved
    PROVE  CniInv'
<1>1. Cni!TypeOK'
  BY SMTT(30) DEF Cni!SweepRemoved, Cni!update, Cni!validateRecord, Cni!SetNics, Cni!Return, Cni!Idle, Cni!Phases, Cni!host, CniInv,
     Cni!TypeOK, Cni!At, Cni!Deleting, Cni!Listed
<1>2. Cni!JournalCoversHost'
  BY DEF Cni!SweepRemoved, Cni!update, Cni!validateRecord, Cni!SetNics, Cni!Return, Cni!Idle, Cni!host, CniInv, Cni!TypeOK,
     Cni!JournalCoversHost, CniKnows, Cni!At, Cni!Deleting, Cni!Listed
<1>3. CniKnows'
  BY DEF Cni!SweepRemoved, Cni!update, Cni!validateRecord, Cni!SetNics, Cni!Return, Cni!Idle, Cni!host, CniInv, Cni!TypeOK,
     Cni!JournalCoversHost, CniKnows, Cni!At, Cni!Deleting, Cni!Listed
<1> QED
  BY <1>1, <1>2, <1>3 DEF CniInv

LEMMA CniRemoveFailedKeeps ==
    ASSUME CniInv, Cni!RemoveFailed
    PROVE  CniInv'
<1>1. Cni!TypeOK'
  <2>1. /\ cniOp' = Cni!Idle /\ cniAttached' \subseteq cniAttached /\ cniFaults' = cniFaults + 1
        /\ UNCHANGED <<cniRecord, cniNamespace, cniTaps>>
    BY DEF Cni!RemoveFailed, Cni!deleteOneFailed, Cni!Fault, Cni!Return
  <2>2. Cni!Idle \in [kind : {"idle"}, step : {"idle"}, specs : SUBSET Nics, todo : SUBSET Nics,
                      touched : SUBSET Nics, item : [Nics -> Cni!Phases], failed : BOOLEAN]
    BY DEF Cni!Idle, Cni!Phases
  <2>3. cniFaults \in Nat
    BY DEF CniInv, Cni!TypeOK
  <2>4. cniFaults + 1 \in Nat
    BY ONLY SMTT(30), <2>3
  <2> QED
    BY <2>1, <2>2, <2>4 DEF CniInv, Cni!TypeOK
<1>2. Cni!JournalCoversHost'
  BY DEF Cni!RemoveFailed, Cni!deleteOneFailed, Cni!Return, Cni!Idle, Cni!host, CniInv, Cni!TypeOK, Cni!JournalCoversHost, CniKnows, Cni!At,
     Cni!Deleting, Cni!Listed
<1>3. CniKnows'
  BY DEF Cni!RemoveFailed, Cni!deleteOneFailed, Cni!Return, Cni!Idle, Cni!host, CniInv, Cni!TypeOK, Cni!JournalCoversHost, CniKnows, Cni!At,
     Cni!Deleting, Cni!Listed
<1> QED
  BY <1>1, <1>2, <1>3 DEF CniInv

LEMMA CniDeleteKeeps ==
    ASSUME CniInv, Cni!Delete
    PROVE  CniInv'
<1>1. Cni!TypeOK'
  BY DEF Cni!Delete, Cni!StartDelete, Cni!update, Cni!validateRecord, Cni!Idle, Cni!Phases, Cni!host, CniInv, Cni!TypeOK,
     Cni!At, Cni!Deleting, Cni!Listed
<1>2. Cni!JournalCoversHost'
  BY DEF Cni!Delete, Cni!StartDelete, Cni!update, Cni!validateRecord, Cni!Idle, Cni!host, CniInv, Cni!TypeOK,
     Cni!JournalCoversHost, CniKnows, Cni!At, Cni!Deleting, Cni!Listed
<1>3. CniKnows'
  BY DEF Cni!Delete, Cni!StartDelete, Cni!update, Cni!validateRecord, Cni!Idle, Cni!host, CniInv, Cni!TypeOK,
     Cni!JournalCoversHost, CniKnows, Cni!At, Cni!Deleting, Cni!Listed
<1> QED
  BY <1>1, <1>2, <1>3 DEF CniInv

LEMMA CniRecoverKeeps ==
    ASSUME CniInv, NEW S \in SUBSET Nics, Cni!Recover(S)
    PROVE  CniInv'
<1>1. Cni!TypeOK'
  BY DEF Cni!Recover, Cni!StartDelete, Cni!update, Cni!validateRecord, Cni!Idle, Cni!Phases, Cni!host, CniInv, Cni!TypeOK,
     Cni!At, Cni!Deleting, Cni!Listed
<1>2. Cni!JournalCoversHost'
  BY DEF Cni!Recover, Cni!StartDelete, Cni!update, Cni!validateRecord, Cni!Idle, Cni!host, CniInv, Cni!TypeOK,
     Cni!JournalCoversHost, CniKnows, Cni!At, Cni!Deleting, Cni!Listed
<1>3. CniKnows'
  BY DEF Cni!Recover, Cni!StartDelete, Cni!update, Cni!validateRecord, Cni!Idle, Cni!host, CniInv, Cni!TypeOK,
     Cni!JournalCoversHost, CniKnows, Cni!At, Cni!Deleting, Cni!Listed
<1> QED
  BY <1>1, <1>2, <1>3 DEF CniInv

LEMMA CniDeleteNicKeeps ==
    ASSUME CniInv, NEW i \in Nics, Cni!DeleteNic(i)
    PROVE  CniInv'
<1>1. Cni!TypeOK'
  BY DEF Cni!DeleteNic, Cni!Phases, Cni!host, CniInv, Cni!TypeOK, Cni!At, Cni!Deleting, Cni!Listed
<1>2. Cni!JournalCoversHost'
  BY DEF Cni!DeleteNic, Cni!host, CniInv, Cni!TypeOK, Cni!JournalCoversHost, CniKnows, Cni!At, Cni!Deleting, Cni!Listed
<1>3. /\ cniOp' = [cniOp EXCEPT !.todo = @ \ {i}, !.touched = @ \cup {i}] /\ i \in cniOp.todo
      /\ cniAttached' = IF cniRecord.nic[i] = "staged" THEN cniAttached ELSE cniAttached \ {i}
      /\ UNCHANGED cniRecord /\ cniOp.kind \in {"delete", "recover"} /\ cniOp.step = "delete"
  BY DEF Cni!DeleteNic, Cni!Deleting
<1>4. /\ cniOp'.kind = cniOp.kind /\ cniOp'.step = "delete" /\ cniOp'.failed = cniOp.failed
      /\ cniOp'.todo = cniOp.todo \ {i} /\ cniOp'.touched = cniOp.touched \cup {i}
  BY <1>3 DEF CniInv, Cni!TypeOK
<1>5. i \notin cniAttached' /\ cniAttached' \subseteq cniAttached
  BY <1>3 DEF CniInv, Cni!JournalCoversHost
<1>6. /\ cniRecord.phase # "none" /\ \A k \in cniOp.touched : k \notin cniAttached
      /\ ~cniOp.failed => Cni!Listed \subseteq cniOp.todo \cup cniOp.touched
  <2>1. Cni!Deleting("delete") /\ ~Cni!At("add", "prepare") /\ cniOp.kind # "idle"
    BY <1>3 DEF Cni!Deleting, Cni!At
  <2>2. CniKnows
    BY DEF CniInv
  <2>3. cniRecord.phase # "none"
    BY <2>1, <2>2 DEF CniKnows
  <2>4. \A k \in cniOp.touched : k \notin cniAttached
    BY <2>1, <2>2 DEF CniKnows
  <2>5. ~cniOp.failed => Cni!Listed \subseteq cniOp.todo \cup cniOp.touched
    BY <2>1, <2>2 DEF CniKnows
  <2> QED
    BY <1>3, <2>3, <2>4, <2>5
<1>7. CniKnows'
  BY <1>3, <1>4, <1>5, <1>6 DEF CniKnows, Cni!At, Cni!Deleting, Cni!Listed
<1> QED
  BY <1>1, <1>2, <1>7 DEF CniInv

LEMMA CniDeleteNicFailedKeeps ==
    ASSUME CniInv, NEW i \in Nics, Cni!DeleteNicFailed(i)
    PROVE  CniInv'
<1>1. Cni!TypeOK'
  <2>1. cniFaults' \in Nat
    BY SMTT(30) DEF Cni!DeleteNicFailed, Cni!deleteOneFailed, Cni!Fault, CniInv, Cni!TypeOK
  <2> QED
    BY <2>1 DEF Cni!DeleteNicFailed, Cni!deleteOneFailed, Cni!Phases, Cni!host, CniInv, Cni!TypeOK
<1>2. Cni!JournalCoversHost'
  BY DEF Cni!DeleteNicFailed, Cni!deleteOneFailed, Cni!host, CniInv, Cni!TypeOK, Cni!JournalCoversHost, CniKnows, Cni!At, Cni!Deleting, Cni!Listed
<1>3. CniKnows'
  BY DEF Cni!DeleteNicFailed, Cni!deleteOneFailed, Cni!host, CniInv, Cni!TypeOK, Cni!JournalCoversHost, CniKnows, Cni!At, Cni!Deleting, Cni!Listed
<1> QED
  BY <1>1, <1>2, <1>3 DEF CniInv

LEMMA CniSweepDeletedKeeps ==
    ASSUME CniInv, Cni!SweepDeleted
    PROVE  CniInv'
<1>1. cniRecord' \in [phase : {"none", "preparing", "ready", "deleting"}, nic : [Nics -> Cni!Phases]]
  BY DEF Cni!SweepDeleted, Cni!update, Cni!SetNics, Cni!Phases, CniInv, Cni!TypeOK
<1>2. Cni!TypeOK'
  <2>1. CASE Cni!Return
    BY <1>1, <2>1 DEF Cni!SweepDeleted, Cni!Return, Cni!Idle, Cni!Phases, Cni!host, CniInv, Cni!TypeOK
  <2>2. CASE Cni!Goto("unnamespace")
    BY <1>1, <2>2 DEF Cni!SweepDeleted, Cni!Goto, Cni!host, CniInv, Cni!TypeOK
  <2> QED
    BY <2>1, <2>2 DEF Cni!SweepDeleted
<1>3. /\ UNCHANGED <<cniAttached, cniNamespace, cniTaps>>
      /\ cniOp.kind \in {"delete", "recover"} /\ cniOp.step = "delete" /\ cniOp.todo = {}
      /\ cniRecord' = [cniRecord EXCEPT !.nic = Cni!SetNics(cniOp.touched, "none")]
  BY DEF Cni!SweepDeleted, Cni!update, Cni!host, Cni!Deleting
<1>4. /\ cniRecord'.phase = cniRecord.phase
      /\ \A i \in Nics : cniRecord'.nic[i] = IF i \in cniOp.touched THEN "none" ELSE cniRecord.nic[i]
  BY <1>3 DEF CniInv, Cni!TypeOK, Cni!SetNics
<1>5. /\ cniRecord.phase # "none" /\ \A i \in cniOp.touched : i \notin cniAttached
      /\ ~cniOp.failed => Cni!Listed \subseteq cniOp.touched
  <2>1. Cni!Deleting("delete") /\ ~Cni!At("add", "prepare") /\ cniOp.kind # "idle"
    BY <1>3 DEF Cni!Deleting, Cni!At
  <2>2. CniKnows
    BY DEF CniInv
  <2>3. cniRecord.phase # "none"
    BY <2>1, <2>2 DEF CniKnows
  <2>4. \A k \in cniOp.touched : k \notin cniAttached
    BY <2>1, <2>2 DEF CniKnows
  <2>5. ~cniOp.failed => Cni!Listed \subseteq cniOp.todo \cup cniOp.touched
    BY <2>1, <2>2 DEF CniKnows
  <2> QED
    BY <1>3, <2>3, <2>4, <2>5
<1>6. Cni!JournalCoversHost'
  BY <1>3, <1>4, <1>5 DEF CniInv, Cni!TypeOK, Cni!JournalCoversHost
<1>7. CniKnows'
  <2>1. CASE Cni!Return
    BY <2>1 DEF Cni!Return, Cni!Idle, CniKnows, Cni!At, Cni!Deleting
  <2>2. CASE ~cniOp.failed /\ Cni!Goto("unnamespace")
    <3>1. cniOp'.kind = cniOp.kind /\ cniOp'.step = "unnamespace"
      BY <2>2 DEF Cni!Goto, CniInv, Cni!TypeOK
    <3>2. cniAttached = {}
      BY <1>5, <2>2 DEF CniInv, Cni!TypeOK, Cni!JournalCoversHost, Cni!Listed
    <3> QED
      BY <1>3, <1>4, <1>5, <3>1, <3>2 DEF CniKnows, Cni!At, Cni!Deleting
  <2> QED
    BY <2>1, <2>2 DEF Cni!SweepDeleted
<1> QED
  BY <1>2, <1>6, <1>7 DEF CniInv

LEMMA CniRemoveNamespaceKeeps ==
    ASSUME CniInv, Cni!RemoveNamespace
    PROVE  CniInv'
<1>1. Cni!TypeOK'
  BY DEF Cni!RemoveNamespace, Cni!Goto, Cni!Phases, Cni!host, CniInv, Cni!TypeOK, Cni!At, Cni!Deleting, Cni!Listed
<1>2. Cni!JournalCoversHost'
  BY DEF Cni!RemoveNamespace, Cni!Goto, Cni!host, CniInv, Cni!TypeOK, Cni!JournalCoversHost, CniKnows, Cni!At,
     Cni!Deleting, Cni!Listed
<1>3. CniKnows'
  BY DEF Cni!RemoveNamespace, Cni!Goto, Cni!host, CniInv, Cni!TypeOK, Cni!JournalCoversHost, CniKnows, Cni!At,
     Cni!Deleting, Cni!Listed
<1> QED
  BY <1>1, <1>2, <1>3 DEF CniInv

(* Only after every slot was deleted does the record go. *)
LEMMA CniDropRecordKeeps ==
    ASSUME CniInv, Cni!DropRecord
    PROVE  CniInv'
<1>1. Cni!TypeOK'
  BY DEF Cni!DropRecord, Cni!NoRecord, Cni!Idle, Cni!Phases, Cni!host, CniInv, Cni!TypeOK, Cni!At, Cni!Deleting, Cni!Listed
<1>2. Cni!JournalCoversHost'
  BY DEF Cni!DropRecord, Cni!NoRecord, Cni!Idle, Cni!host, CniInv, Cni!TypeOK, Cni!JournalCoversHost, CniKnows, Cni!At,
     Cni!Deleting, Cni!Listed
<1>3. CniKnows'
  BY DEF Cni!DropRecord, Cni!NoRecord, Cni!Idle, Cni!host, CniInv, Cni!TypeOK, Cni!JournalCoversHost, CniKnows, Cni!At,
     Cni!Deleting, Cni!Listed
<1> QED
  BY <1>1, <1>2, <1>3 DEF CniInv

LEMMA CniRecoverAddKeeps ==
    ASSUME CniInv, Cni!RecoverAdd
    PROVE  CniInv'
<1>1. Cni!TypeOK'
  BY DEF Cni!RecoverAdd, Cni!update, Cni!validateRecord, Cni!Goto, Cni!Phases, Cni!host, CniInv, Cni!TypeOK, Cni!At,
     Cni!Deleting, Cni!Listed
<1>2. Cni!JournalCoversHost'
  BY DEF Cni!RecoverAdd, Cni!update, Cni!validateRecord, Cni!Goto, Cni!host, CniInv, Cni!TypeOK, Cni!JournalCoversHost,
     CniKnows, Cni!At, Cni!Deleting, Cni!Listed
<1>3. CniKnows'
  BY DEF Cni!RecoverAdd, Cni!update, Cni!validateRecord, Cni!Goto, Cni!host, CniInv, Cni!TypeOK, Cni!JournalCoversHost,
     CniKnows, Cni!At, Cni!Deleting, Cni!Listed
<1> QED
  BY <1>1, <1>2, <1>3 DEF CniInv

LEMMA CniDeleteFailedKeeps ==
    ASSUME CniInv, Cni!DeleteFailed
    PROVE  CniInv'
<1>1. Cni!TypeOK'
  BY SMTT(30) DEF Cni!DeleteFailed, Cni!Fault, Cni!Return, Cni!Idle, Cni!Phases, Cni!host, CniInv, Cni!TypeOK, Cni!At, Cni!Deleting, Cni!Listed
<1>2. Cni!JournalCoversHost'
  BY DEF Cni!DeleteFailed, Cni!Return, Cni!Idle, Cni!host, CniInv, Cni!TypeOK, Cni!JournalCoversHost, CniKnows, Cni!At,
     Cni!Deleting, Cni!Listed
<1>3. CniKnows'
  BY DEF Cni!DeleteFailed, Cni!Return, Cni!Idle, Cni!host, CniInv, Cni!TypeOK, Cni!JournalCoversHost, CniKnows, Cni!At,
     Cni!Deleting, Cni!Listed
<1> QED
  BY <1>1, <1>2, <1>3 DEF CniInv

LEMMA CniCrashKeeps ==
    ASSUME CniInv, Cni!Crash
    PROVE  CniInv'
<1>1. Cni!TypeOK'
  BY SMTT(30) DEF Cni!Crash, Cni!Fault, Cni!Return, Cni!Idle, Cni!Phases, Cni!host, CniInv, Cni!TypeOK, Cni!At, Cni!Deleting, Cni!Listed
<1>2. Cni!JournalCoversHost'
  BY DEF Cni!Crash, Cni!Return, Cni!Idle, Cni!host, CniInv, Cni!TypeOK, Cni!JournalCoversHost, CniKnows, Cni!At,
     Cni!Deleting, Cni!Listed
<1>3. CniKnows'
  BY DEF Cni!Crash, Cni!Return, Cni!Idle, Cni!host, CniInv, Cni!TypeOK, Cni!JournalCoversHost, CniKnows, Cni!At,
     Cni!Deleting, Cni!Listed
<1> QED
  BY <1>1, <1>2, <1>3 DEF CniInv

LEMMA CniRebootKeeps ==
    ASSUME CniInv, Cni!Reboot
    PROVE  CniInv'
<1>1. Cni!TypeOK'
  <2>1. cniFaults' \in Nat
    BY SMTT(30) DEF Cni!Reboot, Cni!Fault, CniInv, Cni!TypeOK
  <2> QED
    BY <2>1 DEF Cni!Reboot, Cni!Return, Cni!Idle, Cni!Phases, Cni!host, CniInv, Cni!TypeOK
<1>2. Cni!JournalCoversHost'
  BY DEF Cni!Reboot, Cni!Return, Cni!Idle, Cni!host, CniInv, Cni!TypeOK, Cni!JournalCoversHost, CniKnows, Cni!At,
     Cni!Deleting, Cni!Listed
<1>3. CniKnows'
  BY DEF Cni!Reboot, Cni!Return, Cni!Idle, Cni!host, CniInv, Cni!TypeOK, Cni!JournalCoversHost, CniKnows, Cni!At,
     Cni!Deleting, Cni!Listed
<1> QED
  BY <1>1, <1>2, <1>3 DEF CniInv

-----------------------------------------------------------------------------

LEMMA CniInitially == Cni!Init => CniInv
<1> SUFFICES ASSUME Cni!Init PROVE CniInv
  OBVIOUS
<1>1. cniRecord \in [phase : {"none", "preparing", "ready", "deleting"}, nic : [Nics -> Cni!Phases]]
  BY DEF Cni!Init, Cni!NoRecord, Cni!Phases
<1>2. Cni!TypeOK
  <2>1. Cni!Idle \in [kind : {"idle"}, step : {"idle"}, specs : SUBSET Nics, todo : SUBSET Nics,
                  touched : SUBSET Nics, item : [Nics -> Cni!Phases], failed : BOOLEAN]
    BY DEF Cni!Idle, Cni!Phases
  <2>2. cniNamespace \in BOOLEAN /\ cniAttached \subseteq Nics /\ cniTaps \subseteq Nics /\ cniFaults \in Nat
    BY DEF Cni!Init
  <2> QED
    BY <1>1, <2>1, <2>2 DEF Cni!Init, Cni!TypeOK
<1>3. Cni!JournalCoversHost /\ CniKnows
  BY DEF Cni!Init, Cni!JournalCoversHost, CniKnows, Cni!NoRecord, Cni!Idle, Cni!At, Cni!Deleting, Cni!Listed
<1> QED
  BY <1>2, <1>3 DEF CniInv

LEMMA CniNext == CniInv /\ Cni!Next => CniInv'
  BY CniAddBeginKeeps, CniEnsureNamespaceKeeps, CniStageKeeps, CniScanNicsKeeps, CniRedoNicKeeps, CniRedoFailedKeeps, CniMarkAddingKeeps, CniAddOneKeeps, CniAddOneFailedKeeps, CniStoreReadyBatchKeeps, CniCommitReadyKeeps, CniAddFailedKeeps, CniAddRefusedKeeps, CniRollbackKeeps, CniRollbackFailedKeeps, CniSweepUndoneKeeps, CniRemoveIndexKeeps, CniRemoveNicKeeps, CniSweepRemovedKeeps, CniRemoveFailedKeeps, CniDeleteKeeps, CniRecoverKeeps, CniDeleteNicKeeps, CniDeleteNicFailedKeeps, CniSweepDeletedKeeps, CniRemoveNamespaceKeeps, CniDropRecordKeeps, CniRecoverAddKeeps, CniDeleteFailedKeeps, CniCrashKeeps, CniRebootKeeps
  DEF Cni!Next

\* Whichever steps of Add, Remove, Delete or Recover failed or died, every
\* plugin attachment, TAP and namespace left on the host is covered by the
\* record, so that a later Delete releases it (lifecycle.go).
THEOREM JournalCoversTheHost == NetworkSpec => []JournalCoversHost
<1> DEFINE Inv == focus = "cni" => CniInv
<1>1. NetworkInit => Inv
  BY CniInitially DEF NetworkInit
<1>2. Inv /\ [NetworkNext]_networkVars => Inv'
  <2> SUFFICES ASSUME Inv, [NetworkNext]_networkVars, focus' = "cni"
               PROVE  CniInv'
    OBVIOUS
  <2>1. CASE CniStep
    BY <2>1, CniNext DEF CniStep
  <2>2. CASE BridgeStep
    BY <2>2 DEF BridgeStep
  <2>3. CASE UNCHANGED networkVars
    <3>1. UNCHANGED <<focus, cniRecord, cniNamespace, cniAttached, cniTaps, cniOp, cniFaults>>
      BY <2>3 DEF networkVars, cniVars
    <3> QED
      BY SMTT(30), <3>1 DEF CniInv, Cni!TypeOK, Cni!JournalCoversHost, CniKnows, Cni!At, Cni!Deleting, Cni!Listed
  <2> QED
    BY <2>1, <2>2, <2>3 DEF NetworkNext
<1>3. Inv => JournalCoversHost
  BY DEF JournalCoversHost, CniInv
<1> QED
  BY <1>1, <1>2, <1>3, PTL DEF NetworkSpec

-----------------------------------------------------------------------------
(* Bridge: allocation holds the lock from the claim to the written lease,  *)
(* and a sandbox whose leases are being released records no address.       *)

BridgeSteps == {"idle", "lock", "claim", "write", "unlock", "tap", "scan", "release"}

BridgeOps == [step : BridgeSteps, at : SUBSET Addresses, todo : SUBSET Addresses, failed : BOOLEAN]

BridgeTypes ==
    /\ brLease \in [Addresses -> [state : {"free", "empty", "owned"}, owner : SUBSET Bridged]]
    /\ brNic \in [Bridged -> SUBSET Addresses]
    /\ brOp \in [Bridged -> BridgeOps]

Leased(s, a) == brLease[a] = [state |-> "owned", owner |-> {s}]

\* What the step that an operation has reached says of lock, leases and record.
BridgeOp(s) ==
    /\ brOp[s].step \in {"claim", "write", "unlock"} => brLock = {s}
    /\ brOp[s].step = "write" => \A a \in brOp[s].at : brLease[a] = [state |-> "empty", owner |-> {}]
    /\ brOp[s].step \in {"unlock", "tap"} => \A a \in brOp[s].at : Leased(s, a)
    /\ brOp[s].step \in {"scan", "release"} => brNic[s] = {}

BridgeRecord(s) == \A a \in brNic[s] : Leased(s, a)

BridgeInv ==
    /\ BridgeTypes
    /\ \A s \in Bridged : BridgeOp(s) /\ BridgeRecord(s)

\* What an operation of one sandbox leaves alone.
BridgeMove(s) ==
    /\ \A r \in Bridged \ {s} :
        brOp'[r] = brOp[r] /\ brNic'[r] = brNic[r] /\ (brLock = {r} => brLock' = {r})
    /\ \A a \in Addresses :
        \/ brLease'[a] = brLease[a]
        \/ brLease[a].state = "free" \/ brLease[a].owner = {s}
        \/ brLock = {s} /\ brLease[a].state = "empty"

\* A record names an address that is leased to its sandbox, so no other does.
LEMMA BridgeExclusive == BridgeInv => Bridge!RecordedAddressIsLeased
<1> SUFFICES ASSUME BridgeInv, NEW s \in Bridged, NEW a \in brNic[s]
             PROVE  /\ Leased(s, a)
                    /\ \A r \in Bridged \ {s} : a \notin brNic[r]
  BY DEF Bridge!RecordedAddressIsLeased, Leased
<1>1. Leased(s, a)
  BY DEF BridgeInv, BridgeRecord
<1>2. ASSUME NEW r \in Bridged, r # s, a \in brNic[r]
      PROVE  FALSE
  <2>1. Leased(r, a)
    BY <1>2 DEF BridgeInv, BridgeRecord
  <2>2. brLease[a].owner = {r} /\ brLease[a].owner = {s}
    BY SMTT(30), <1>1, <2>1 DEF Leased
  <2> QED
    BY <1>2, <2>2
<1> QED
  BY <1>1, <1>2

LEMMA BridgeInitially == Bridge!Init => BridgeInv
  BY SMTT(30) DEF Bridge!Init, BridgeInv, BridgeTypes, BridgeOp, BridgeRecord, Bridge!Free, Bridge!Idle,
         BridgeSteps, BridgeOps

\* Operations of other sandboxes keep their facts.
LEMMA BridgeFrame ==
    ASSUME BridgeInv, NEW s \in Bridged, BridgeTypes', BridgeMove(s), BridgeOp(s)', BridgeRecord(s)'
    PROVE  BridgeInv'
<1> SUFFICES ASSUME NEW r \in Bridged, r # s
             PROVE  BridgeOp(r)' /\ BridgeRecord(r)'
  BY DEF BridgeInv
<1>1. brOp'[r] = brOp[r] /\ brNic'[r] = brNic[r] /\ (brLock = {r} => brLock' = {r})
  BY DEF BridgeMove
<1>2. brNic[r] \subseteq Addresses /\ brOp[r].at \subseteq Addresses
  BY DEF BridgeInv, BridgeTypes, BridgeOps
<1>3. ASSUME NEW a \in Addresses, Leased(r, a)
      PROVE  Leased(r, a)'
  <2>1. brLease[a].state = "owned" /\ brLease[a].owner = {r}
    BY SMTT(30), <1>3 DEF Leased
  <2>2. brLease'[a] = brLease[a]
    BY SMTT(30), <2>1 DEF BridgeMove
  <2> QED
    BY <1>3, <2>2 DEF Leased
<1>4. ASSUME NEW a \in Addresses, brLock = {r}, brLease[a] = [state |-> "empty", owner |-> {}]
      PROVE  brLease'[a] = brLease[a]
  BY SMTT(30), <1>4 DEF BridgeMove
<1>5. BridgeOp(r) /\ BridgeRecord(r)
  BY DEF BridgeInv
<1>6. BridgeRecord(r)'
  BY <1>1, <1>2, <1>3, <1>5 DEF BridgeRecord
<1>7. BridgeOp(r)'
  BY <1>1, <1>2, <1>3, <1>4, <1>5 DEF BridgeOp
<1> QED
  BY <1>6, <1>7


\* A step that touches neither leases nor records.
LEMMA BridgeQuiet ==
    ASSUME BridgeInv, NEW s \in Bridged, UNCHANGED <<brLease, brNic>>,
           brOp' \in [Bridged -> BridgeOps], \A r \in Bridged \ {s} : brOp'[r] = brOp[r],
           \A r \in Bridged \ {s} : brLock = {r} => brLock' = {r},
           BridgeOp(s)'
    PROVE  BridgeInv'
<1>1. BridgeTypes'
  BY DEF BridgeInv, BridgeTypes
<1>2. BridgeMove(s)
  BY DEF BridgeMove
<1>3. BridgeRecord(s)'
  BY DEF BridgeInv, BridgeRecord, Leased
<1> QED
  BY <1>1, <1>2, <1>3, BridgeFrame

LEMMA BridgeGoto ==
    ASSUME BridgeInv, NEW s \in Bridged, NEW to \in BridgeSteps, Bridge!Goto(s, to)
    PROVE  /\ brOp' \in [Bridged -> BridgeOps]
           /\ \A r \in Bridged \ {s} : brOp'[r] = brOp[r]
           /\ brOp'[s].step = to /\ brOp'[s].at = brOp[s].at
<1>1. brOp \in [Bridged -> BridgeOps] /\ brOp' = [brOp EXCEPT ![s].step = to]
  BY DEF BridgeInv, BridgeTypes, Bridge!Goto
<1> QED
  BY <1>1 DEF BridgeOps

LEMMA BridgeReturn ==
    ASSUME BridgeInv, NEW s \in Bridged, Bridge!Return(s)
    PROVE  /\ brOp' \in [Bridged -> BridgeOps]
           /\ \A r \in Bridged \ {s} : brOp'[r] = brOp[r]
           /\ brOp'[s].step = "idle" /\ BridgeOp(s)'
<1>1. brOp \in [Bridged -> BridgeOps] /\ brOp' = [brOp EXCEPT ![s] = Bridge!Idle]
  BY DEF BridgeInv, BridgeTypes, Bridge!Return
<1>2. Bridge!Idle \in BridgeOps /\ Bridge!Idle.step = "idle"
  BY DEF Bridge!Idle, BridgeOps, BridgeSteps
<1>3. brOp'[s].step = "idle"
  BY <1>1, <1>2
<1>4. BridgeOp(s)'
  BY <1>3 DEF BridgeOp
<1> QED
  BY <1>1, <1>2, <1>3, <1>4

\* An operation that ends and leaves leases and records alone.
LEMMA BridgeIdles ==
    ASSUME BridgeInv, NEW s \in Bridged, UNCHANGED <<brLease, brNic>>, Bridge!Return(s),
           \A r \in Bridged \ {s} : brLock = {r} => brLock' = {r}
    PROVE  BridgeInv'
  BY BridgeReturn, BridgeQuiet

LEMMA BridgeClaimOwner ==
    ASSUME BridgeInv, NEW s \in Bridged, Bridge!claimOwner(s)
    PROVE  BridgeInv'
<1>1. Bridge!Goto(s, "lock") /\ UNCHANGED <<brLease, brNic, brLock>>
  BY DEF Bridge!claimOwner
<1>2. "lock" \in BridgeSteps
  BY DEF BridgeSteps
<1>3. BridgeOp(s)'
  BY <1>1, <1>2, BridgeGoto DEF BridgeOp
<1> QED
  BY <1>1, <1>2, <1>3, BridgeGoto, BridgeQuiet

LEMMA BridgeLockLeases ==
    ASSUME BridgeInv, NEW s \in Bridged, Bridge!lockLeases(s)
    PROVE  BridgeInv'
<1>1. Bridge!Goto(s, "claim") /\ UNCHANGED <<brLease, brNic>> /\ brLock = {} /\ brLock' = {s}
  BY DEF Bridge!lockLeases
<1>2. "claim" \in BridgeSteps
  BY DEF BridgeSteps
<1>3. BridgeOp(s)'
  BY <1>1, <1>2, BridgeGoto DEF BridgeOp
<1> QED
  BY <1>1, <1>2, <1>3, BridgeGoto, BridgeQuiet

\* The new file is empty and this sandbox's to write.
LEMMA BridgeClaimLease ==
    ASSUME BridgeInv, NEW s \in Bridged, NEW a \in Addresses, Bridge!claimLease(s, a)
    PROVE  BridgeInv'
<1>0. brOp \in [Bridged -> BridgeOps] /\ brOp[s].step = "claim" /\ brLock = {s} /\ UNCHANGED <<brNic, brLock>>
  BY DEF BridgeInv, BridgeTypes, BridgeOp, Bridge!claimLease, Bridge!At
<1>1. CASE /\ brLease[a] = Bridge!Free
           /\ brLease' = [brLease EXCEPT ![a].state = "empty"]
           /\ brOp' = [brOp EXCEPT ![s].step = "write", ![s].at = {a}]
  <2>1. /\ brOp' \in [Bridged -> BridgeOps] /\ \A r \in Bridged \ {s} : brOp'[r] = brOp[r]
        /\ brOp'[s].step = "write" /\ brOp'[s].at = {a}
    BY ZenonT(30), <1>0, <1>1 DEF BridgeOps, BridgeSteps
  <2>2. brLease'[a] = [state |-> "empty", owner |-> {}] /\ \A b \in Addresses \ {a} : brLease'[b] = brLease[b]
    <3>1. brLease' = [brLease EXCEPT ![a] = [brLease[a] EXCEPT !.state = "empty"]]
      BY <1>1 DEF BridgeInv, BridgeTypes
    <3>2. [brLease[a] EXCEPT !.state = "empty"] = [state |-> "empty", owner |-> {}]
      BY SMTT(30), <1>1 DEF Bridge!Free
    <3> QED
      BY <3>1, <3>2 DEF BridgeInv, BridgeTypes
  <2>3. BridgeTypes'
    BY SMTT(30), <1>0, <1>1, <2>1 DEF BridgeInv, BridgeTypes
  <2>4. brLease[a].state = "free"
    BY SMTT(30), <1>1 DEF Bridge!Free
  <2>5. BridgeMove(s)
    BY <1>0, <2>1, <2>2, <2>4 DEF BridgeMove
  <2>6. BridgeOp(s)'
    BY <1>0, <2>1, <2>2 DEF BridgeOp
  <2>7. BridgeRecord(s)'
    BY SMTT(30), <1>0, <2>2, <2>4 DEF BridgeInv, BridgeTypes, BridgeRecord, Leased
  <2> QED
    BY <2>3, <2>5, <2>6, <2>7, BridgeFrame
<1>2. CASE /\ brNic[s] = {a} /\ brLease[a].owner = {s}
           /\ brOp' = [brOp EXCEPT ![s].step = "unlock", ![s].at = {a}]
           /\ UNCHANGED brLease
  <2>1. /\ brOp' \in [Bridged -> BridgeOps] /\ \A r \in Bridged \ {s} : brOp'[r] = brOp[r]
        /\ brOp'[s].step = "unlock" /\ brOp'[s].at = {a}
    <3> DEFINE was == brOp[s]
               now == [was EXCEPT !.step = "unlock", !.at = {a}]
    <3>1. brOp' = [brOp EXCEPT ![s] = now]
      BY <1>0, <1>2
    <3>2. was \in BridgeOps
      BY <1>0
    <3> HIDE DEF was
    <3>3. now \in BridgeOps /\ now.step = "unlock" /\ now.at = {a}
      BY ZenonT(30), <3>2 DEF BridgeOps, BridgeSteps
    <3> HIDE DEF now
    <3> QED
      BY <1>0, <3>1, <3>3
  <2>2. Leased(s, a)
    BY <1>2 DEF BridgeInv, BridgeRecord
  <2>3. BridgeOp(s)'
    BY <1>0, <1>2, <2>1, <2>2 DEF BridgeOp, Leased
  <2> QED
    BY <1>0, <1>2, <2>1, <2>3, BridgeQuiet
<1> QED
  BY <1>1, <1>2 DEF Bridge!claimLease

LEMMA BridgeClaimRefused ==
    ASSUME BridgeInv, NEW s \in Bridged, Bridge!ClaimRefused(s)
    PROVE  BridgeInv'
<1>1. /\ UNCHANGED <<brLease, brNic>> /\ Bridge!Return(s) /\ brOp[s].step = "claim"
  BY DEF Bridge!ClaimRefused, Bridge!At
<1>2. brLock = {s}
  BY <1>1 DEF BridgeInv, BridgeOp
<1> QED
  BY <1>1, <1>2, BridgeIdles

\* The lease that an operation has claimed becomes its sandbox's.
LEMMA BridgeWritten ==
    ASSUME BridgeInv, NEW s \in Bridged, brOp[s].step = "write", UNCHANGED brNic,
           brLease' = [a \in Addresses |-> IF a \in brOp[s].at
                                           THEN [state |-> "owned", owner |-> {s}] ELSE brLease[a]]
    PROVE  /\ brLease' \in [Addresses -> [state : {"free", "empty", "owned"}, owner : SUBSET Bridged]]
           /\ brLock = {s} /\ BridgeRecord(s)'
           /\ \A a \in brOp[s].at : Leased(s, a)'
           /\ \A a \in Addresses : brLease'[a] = brLease[a] \/ brLease[a].state = "empty"
<1>1. brOp[s].at \subseteq Addresses
  BY DEF BridgeInv, BridgeTypes, BridgeOps
<1>2. brLock = {s} /\ \A a \in brOp[s].at : brLease[a] = [state |-> "empty", owner |-> {}]
  BY DEF BridgeInv, BridgeOp
<1>3. brLease' \in [Addresses -> [state : {"free", "empty", "owned"}, owner : SUBSET Bridged]]
  <2>1. [state |-> "owned", owner |-> {s}] \in [state : {"free", "empty", "owned"}, owner : SUBSET Bridged]
    OBVIOUS
  <2> QED
    BY <2>1 DEF BridgeInv, BridgeTypes
<1>4. \A a \in brOp[s].at : Leased(s, a)'
  BY <1>1 DEF Leased
<1>5. \A a \in Addresses : brLease'[a] = brLease[a] \/ brLease[a].state = "empty"
  BY SMTT(30), <1>2
<1>6. BridgeRecord(s)'
  <2> SUFFICES ASSUME NEW a \in brNic[s]
               PROVE  Leased(s, a)'
    BY DEF BridgeRecord
  <2>1. a \in Addresses /\ Leased(s, a)
    BY DEF BridgeInv, BridgeTypes, BridgeRecord
  <2> QED
    BY <1>4, <2>1 DEF Leased
<1> QED
  BY <1>2, <1>3, <1>4, <1>5, <1>6

LEMMA BridgeWriteLease ==
    ASSUME BridgeInv, NEW s \in Bridged, Bridge!WriteLease(s)
    PROVE  BridgeInv'
<1>1. /\ brOp[s].step = "write" /\ Bridge!Goto(s, "unlock") /\ UNCHANGED <<brNic, brLock>>
      /\ brLease' = [a \in Addresses |-> IF a \in brOp[s].at
                                         THEN [state |-> "owned", owner |-> {s}] ELSE brLease[a]]
  BY DEF Bridge!WriteLease, Bridge!At
<1>2. "unlock" \in BridgeSteps
  BY DEF BridgeSteps
<1>3. /\ brOp' \in [Bridged -> BridgeOps] /\ \A r \in Bridged \ {s} : brOp'[r] = brOp[r]
      /\ brOp'[s].step = "unlock" /\ brOp'[s].at = brOp[s].at
  BY <1>1, <1>2, BridgeGoto
<1>4. /\ brLease' \in [Addresses -> [state : {"free", "empty", "owned"}, owner : SUBSET Bridged]]
      /\ brLock = {s} /\ BridgeRecord(s)'
      /\ \A a \in brOp[s].at : Leased(s, a)'
      /\ \A a \in Addresses : brLease'[a] = brLease[a] \/ brLease[a].state = "empty"
  BY <1>1, BridgeWritten
<1>5. BridgeTypes'
  BY <1>1, <1>3, <1>4 DEF BridgeInv, BridgeTypes
<1>6. BridgeMove(s)
  BY <1>1, <1>3, <1>4 DEF BridgeMove
<1>7. BridgeOp(s)'
  BY <1>1, <1>3, <1>4 DEF BridgeOp
<1> QED
  BY <1>4, <1>5, <1>6, <1>7, BridgeFrame

LEMMA BridgeWriteFailed ==
    ASSUME BridgeInv, NEW s \in Bridged, Bridge!WriteFailed(s)
    PROVE  BridgeInv'
<1>1. brOp[s].step = "write" /\ Bridge!Return(s) /\ UNCHANGED brNic /\ brLock' = {}
  BY DEF Bridge!WriteFailed, Bridge!At
<1>2. brLock = {s}
  BY <1>1 DEF BridgeInv, BridgeOp
<1>3. CASE UNCHANGED brLease
  BY <1>1, <1>2, <1>3, BridgeIdles
<1>4. CASE brLease' = [a \in Addresses |-> IF a \in brOp[s].at
                                           THEN [state |-> "owned", owner |-> {s}] ELSE brLease[a]]
  <2>1. /\ brOp' \in [Bridged -> BridgeOps] /\ \A r \in Bridged \ {s} : brOp'[r] = brOp[r]
        /\ BridgeOp(s)'
    BY <1>1, BridgeReturn
  <2>2. /\ brLease' \in [Addresses -> [state : {"free", "empty", "owned"}, owner : SUBSET Bridged]]
        /\ BridgeRecord(s)'
        /\ \A a \in Addresses : brLease'[a] = brLease[a] \/ brLease[a].state = "empty"
    BY <1>1, <1>4, BridgeWritten
  <2>3. BridgeTypes'
    BY <1>1, <2>1, <2>2 DEF BridgeInv, BridgeTypes
  <2>4. BridgeMove(s)
    BY <1>1, <1>2, <2>1, <2>2 DEF BridgeMove
  <2> QED
    BY <2>1, <2>2, <2>3, <2>4, BridgeFrame
<1> QED
  BY <1>3, <1>4 DEF Bridge!WriteFailed

LEMMA BridgeUnlockLeases ==
    ASSUME BridgeInv, NEW s \in Bridged, Bridge!UnlockLeases(s)
    PROVE  BridgeInv'
<1>1. brOp[s].step = "unlock" /\ Bridge!Goto(s, "tap") /\ UNCHANGED <<brLease, brNic>>
  BY DEF Bridge!UnlockLeases, Bridge!At
<1>2. "tap" \in BridgeSteps
  BY DEF BridgeSteps
<1>3. brLock = {s} /\ \A a \in brOp[s].at : Leased(s, a)
  BY <1>1 DEF BridgeInv, BridgeOp
<1>4. BridgeOp(s)'
  BY <1>1, <1>2, <1>3, BridgeGoto DEF BridgeOp, Leased
<1> QED
  BY <1>1, <1>2, <1>3, <1>4, BridgeGoto, BridgeQuiet

\* The record takes the address that was claimed and written.
LEMMA BridgeAddOne ==
    ASSUME BridgeInv, NEW s \in Bridged, Bridge!addOne(s)
    PROVE  BridgeInv'
<1>1. /\ brOp[s].step = "tap" /\ Bridge!Return(s) /\ UNCHANGED <<brLease, brLock>>
      /\ brNic' = [brNic EXCEPT ![s] = brOp[s].at]
  BY DEF Bridge!addOne, Bridge!At
<1>2. /\ brOp' \in [Bridged -> BridgeOps] /\ \A r \in Bridged \ {s} : brOp'[r] = brOp[r]
      /\ BridgeOp(s)'
  BY <1>1, BridgeReturn
<1>3. brOp[s].at \subseteq Addresses /\ \A a \in brOp[s].at : Leased(s, a)
  BY <1>1 DEF BridgeInv, BridgeTypes, BridgeOp, BridgeOps
<1>4. BridgeTypes'
  BY <1>1, <1>2, <1>3 DEF BridgeInv, BridgeTypes
<1>5. BridgeMove(s)
  BY <1>1, <1>2 DEF BridgeMove, BridgeInv, BridgeTypes
<1>6. BridgeRecord(s)'
  BY <1>1, <1>3 DEF BridgeRecord, Leased, BridgeInv, BridgeTypes
<1> QED
  BY <1>2, <1>4, <1>5, <1>6, BridgeFrame

\* Delete takes the address out of the record before it releases the lease.
LEMMA BridgeDeleteTap ==
    ASSUME BridgeInv, NEW s \in Bridged, Bridge!DeleteTap(s)
    PROVE  BridgeInv'
<1>1. UNCHANGED <<brLease, brLock>> /\ brNic' = [brNic EXCEPT ![s] = {}]
  BY DEF Bridge!DeleteTap
<1>2. /\ brOp' \in [Bridged -> BridgeOps] /\ \A r \in Bridged \ {s} : brOp'[r] = brOp[r]
      /\ brOp'[s].step = "scan"
  <2>1. brOp \in [Bridged -> BridgeOps]
    BY DEF BridgeInv, BridgeTypes
  <2>2. CASE brOp' = [brOp EXCEPT ![s].step = "scan"]
    BY <2>1, <2>2 DEF BridgeOps, BridgeSteps
  <2>3. CASE brOp' = [brOp EXCEPT ![s].step = "scan", ![s].failed = TRUE]
    BY ZenonT(30), <2>1, <2>3 DEF BridgeOps, BridgeSteps
  <2> QED
    BY <2>2, <2>3 DEF Bridge!DeleteTap
<1>3. brNic'[s] = {} /\ \A r \in Bridged \ {s} : brNic'[r] = brNic[r]
  BY <1>1 DEF BridgeInv, BridgeTypes
<1>4. BridgeTypes'
  BY <1>1, <1>2 DEF BridgeInv, BridgeTypes
<1>5. BridgeMove(s)
  BY <1>1, <1>2, <1>3 DEF BridgeMove
<1>6. BridgeRecord(s)' /\ BridgeOp(s)'
  BY <1>2, <1>3 DEF BridgeRecord, BridgeOp
<1> QED
  BY <1>4, <1>5, <1>6, BridgeFrame

LEMMA BridgeReleaseLeases ==
    ASSUME BridgeInv, NEW s \in Bridged, Bridge!releaseLeases(s)
    PROVE  BridgeInv'
<1> DEFINE found == {a \in Addresses : brLease[a] # Bridge!Free}
<1>1. /\ brOp[s].step = "scan" /\ UNCHANGED <<brLease, brNic, brLock>>
      /\ brOp' = [brOp EXCEPT ![s].step = "release", ![s].todo = found]
  BY DEF Bridge!releaseLeases, Bridge!At
<1>2. brOp \in [Bridged -> BridgeOps] /\ found \in SUBSET Addresses /\ brNic[s] = {}
  BY <1>1 DEF BridgeInv, BridgeTypes, BridgeOp
<1> HIDE DEF found
<1>3. /\ brOp' \in [Bridged -> BridgeOps] /\ \A r \in Bridged \ {s} : brOp'[r] = brOp[r]
      /\ brOp'[s].step = "release"
  BY ZenonT(30), <1>1, <1>2 DEF BridgeOps, BridgeSteps
<1>4. BridgeOp(s)'
  BY <1>1, <1>2, <1>3 DEF BridgeOp
<1> QED
  BY <1>1, <1>3, <1>4, BridgeQuiet

\* The operation record after one listed file was looked at.
LEMMA BridgeReleasing ==
    ASSUME BridgeInv, NEW s \in Bridged, NEW a \in Addresses, brOp[s].step = "release",
           NEW missed \in BOOLEAN,
           brOp' = [brOp EXCEPT ![s].todo = brOp[s].todo \ {a}, ![s].failed = missed]
    PROVE  /\ brOp' \in [Bridged -> BridgeOps] /\ \A r \in Bridged \ {s} : brOp'[r] = brOp[r]
           /\ brOp'[s].step = "release" /\ brNic[s] = {}
<1>1. brOp \in [Bridged -> BridgeOps] /\ brNic[s] = {}
  BY DEF BridgeInv, BridgeTypes, BridgeOp
<1> QED
  BY ZenonT(30), <1>1 DEF BridgeOps

\* Only the file whose content names the sandbox is removed, and it records none.
LEMMA BridgeReleaseLease ==
    ASSUME BridgeInv, NEW s \in Bridged, NEW a \in Addresses, Bridge!ReleaseLease(s, a)
    PROVE  BridgeInv'
<1>1. /\ brOp[s].step = "release" /\ UNCHANGED <<brNic, brLock>>
      /\ brLease' = IF brLease[a].owner = {s} THEN [brLease EXCEPT ![a] = Bridge!Free] ELSE brLease
      /\ brOp' = [brOp EXCEPT ![s].todo = @ \ {a}, ![s].failed = @ \/ brLease[a] = Bridge!Free]
  BY DEF Bridge!ReleaseLease, Bridge!At
<1>2. (brOp[s].failed \/ brLease[a] = Bridge!Free) \in BOOLEAN
  OBVIOUS
<1>3. /\ brOp' \in [Bridged -> BridgeOps] /\ \A r \in Bridged \ {s} : brOp'[r] = brOp[r]
      /\ brOp'[s].step = "release" /\ brNic[s] = {}
  <2>1. brOp' = [brOp EXCEPT ![s].todo = brOp[s].todo \ {a}, ![s].failed = brOp[s].failed \/ brLease[a] = Bridge!Free]
    BY <1>1 DEF BridgeInv, BridgeTypes
  <2> QED
    BY <1>1, <1>2, <2>1, BridgeReleasing
<1>4. Bridge!Free \in [state : {"free", "empty", "owned"}, owner : SUBSET Bridged]
  BY DEF Bridge!Free
<1>5. BridgeTypes'
  BY <1>1, <1>3, <1>4 DEF BridgeInv, BridgeTypes
<1>6. BridgeMove(s)
  BY <1>1, <1>3 DEF BridgeMove, BridgeInv, BridgeTypes
<1>7. BridgeRecord(s)' /\ BridgeOp(s)'
  BY <1>1, <1>3 DEF BridgeRecord, BridgeOp
<1> QED
  BY <1>5, <1>6, <1>7, BridgeFrame

LEMMA BridgeReleaseFailed ==
    ASSUME BridgeInv, NEW s \in Bridged, NEW a \in Addresses, Bridge!ReleaseFailed(s, a)
    PROVE  BridgeInv'
<1>1. /\ brOp[s].step = "release" /\ UNCHANGED <<brLease, brNic, brLock>>
      /\ brOp' = [brOp EXCEPT ![s].todo = @ \ {a}, ![s].failed = TRUE]
  BY DEF Bridge!ReleaseFailed, Bridge!At
<1>2. /\ brOp' \in [Bridged -> BridgeOps] /\ \A r \in Bridged \ {s} : brOp'[r] = brOp[r]
      /\ brOp'[s].step = "release" /\ brNic[s] = {}
  <2>1. brOp' = [brOp EXCEPT ![s].todo = brOp[s].todo \ {a}, ![s].failed = TRUE]
    BY <1>1 DEF BridgeInv, BridgeTypes
  <2> QED
    BY <1>1, <2>1, BridgeReleasing
<1>3. BridgeOp(s)'
  BY <1>1, <1>2 DEF BridgeOp
<1> QED
  BY <1>1, <1>2, <1>3, BridgeQuiet

\* Steps that end an operation or change only VMs, TAPs and owner markers.
LEMMA BridgeOtherSteps ==
    ASSUME BridgeInv, NEW s \in Bridged,
           \/ Bridge!addOneFailed(s) \/ Bridge!Remove(s) \/ Bridge!releaseOwner(s) \/ Bridge!Crash(s)
           \/ Bridge!Launch(s) \/ Bridge!Exit(s)
    PROVE  BridgeInv'
<1>1. CASE Bridge!addOneFailed(s) \/ Bridge!Remove(s) \/ Bridge!releaseOwner(s) \/ Bridge!Crash(s)
  <2>1. UNCHANGED <<brLease, brNic>> /\ Bridge!Return(s) /\ (brLock' = brLock \/ brLock' = brLock \ {s})
    BY <1>1 DEF Bridge!addOneFailed, Bridge!Remove, Bridge!releaseOwner, Bridge!Crash
  <2>2. \A r \in Bridged \ {s} : brLock = {r} => brLock' = {r}
    BY <2>1
  <2> QED
    BY <2>1, <2>2, BridgeIdles
<1>2. CASE Bridge!Launch(s) \/ Bridge!Exit(s)
  <2>1. UNCHANGED <<brLease, brNic, brOp, brLock>>
    BY <1>2 DEF Bridge!Launch, Bridge!Exit
  <2> QED
    BY <2>1 DEF BridgeInv, BridgeTypes, BridgeOp, BridgeRecord, Leased
<1> QED
  BY <1>1, <1>2

LEMMA BridgeReboot ==
    ASSUME BridgeInv, Bridge!Reboot
    PROVE  BridgeInv'
<1>1. UNCHANGED <<brLease, brNic>> /\ brOp' = [s \in Bridged |-> Bridge!Idle]
  BY DEF Bridge!Reboot
<1>2. Bridge!Idle \in BridgeOps /\ Bridge!Idle.step = "idle"
  BY DEF Bridge!Idle, BridgeOps, BridgeSteps
<1>3. BridgeTypes'
  BY <1>1, <1>2 DEF BridgeInv, BridgeTypes
<1>4. \A s \in Bridged : BridgeOp(s)'
  BY <1>1, <1>2 DEF BridgeOp
<1>5. \A s \in Bridged : BridgeRecord(s)'
  BY <1>1 DEF BridgeInv, BridgeRecord, Leased
<1> QED
  BY <1>3, <1>4, <1>5 DEF BridgeInv

LEMMA BridgeNext ==
    ASSUME BridgeInv, Bridge!Next
    PROVE  BridgeInv'
<1>1. ASSUME NEW s \in Bridged, NEW a \in Addresses,
             Bridge!claimLease(s, a) \/ Bridge!ReleaseLease(s, a) \/ Bridge!ReleaseFailed(s, a)
      PROVE  BridgeInv'
  BY <1>1, BridgeClaimLease, BridgeReleaseLease, BridgeReleaseFailed
<1>2. ASSUME NEW s \in Bridged,
             \/ Bridge!claimOwner(s) \/ Bridge!lockLeases(s) \/ Bridge!ClaimRefused(s)
             \/ Bridge!WriteLease(s) \/ Bridge!WriteFailed(s) \/ Bridge!UnlockLeases(s)
             \/ Bridge!addOne(s) \/ Bridge!DeleteTap(s) \/ Bridge!releaseLeases(s)
      PROVE  BridgeInv'
  BY <1>2, BridgeClaimOwner, BridgeLockLeases, BridgeClaimRefused, BridgeWriteLease,
     BridgeWriteFailed, BridgeUnlockLeases, BridgeAddOne, BridgeDeleteTap, BridgeReleaseLeases
<1> QED
  BY <1>1, <1>2, BridgeOtherSteps, BridgeReboot DEF Bridge!Next

\* No two sandboxes record one address, and the lease file of a recorded
\* address names its sandbox, for any number of sandboxes and addresses
\* (network/bridge: claimLease, releaseLeases).
THEOREM RecordedAddressesAreLeased == NetworkSpec => []RecordedAddressIsLeased
<1> DEFINE Inv == focus = "bridge" => BridgeInv
<1>1. NetworkInit => Inv
  BY BridgeInitially DEF NetworkInit
<1>2. Inv /\ [NetworkNext]_networkVars => Inv'
  <2> SUFFICES ASSUME Inv, [NetworkNext]_networkVars, focus' = "bridge"
               PROVE  BridgeInv'
    OBVIOUS
  <2>1. CASE BridgeStep
    BY <2>1, BridgeNext DEF BridgeStep
  <2>2. CASE CniStep
    BY <2>2 DEF CniStep
  <2>3. CASE UNCHANGED networkVars
    <3>1. UNCHANGED <<focus, brLease, brNic, brOp, brLock>>
      BY <2>3 DEF networkVars, brVars
    <3> QED
      BY <3>1 DEF BridgeInv, BridgeTypes, BridgeOp, BridgeRecord, Leased
  <2> QED
    BY <2>1, <2>2, <2>3 DEF NetworkNext
<1>3. Inv => RecordedAddressIsLeased
  BY BridgeExclusive DEF RecordedAddressIsLeased
<1> QED
  BY <1>1, <1>2, <1>3, PTL DEF NetworkSpec

=============================================================================

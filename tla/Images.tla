-------------------------------- MODULE Images --------------------------------
(***************************************************************************)
(* Images: the catalog (internal/images/catalog), import, guarded use,      *)
(* removal (internal/images) and the collection of unreferenced artifacts   *)
(* (internal/core/gc_images.go).  A layer's files are shared by all images  *)
(* that contain its source digest.  Slow work runs without locks; the files *)
(* of a layer change only under the exclusive lock of its digest.           *)
(*                                                                          *)
(* A layer's artifact is its EROFS file and its boot files, published by    *)
(* one rename each; the value of a file is the conversion that produced it. *)
(* A lock set is taken in one step (FileLock shows what that rests on).     *)
(***************************************************************************)
EXTENDS Naturals

CONSTANTS
    Procs,        \* importers, removers, users of images, the collector
    Manifests, Names, Layers,
    LayersOf,     \* the source digests of each manifest's layers
    Conversions,  \* what a converter may produce for a layer
    Sandboxes, Snapshots,
    None,         \* no value
    Cached,       \* a layer to be reused from the managed files
    Rotten,       \* a file of the right size whose content was damaged
    MaxRequests, MaxFaults

ASSUME LayersOfAssumption == LayersOf \in [Manifests -> SUBSET Layers]
ASSUME NullAssumption ==
    /\ None \notin Manifests \cup Conversions \cup Procs \cup Layers \cup {Cached, Rotten}
    /\ {Cached, Rotten} \cap Conversions = {} /\ Cached # Rotten
ASSUME DisjointAssumption == Names \cap Manifests = {} /\ Sandboxes \cap Snapshots = {}
ASSUME BoundAssumption == MaxRequests \in Nat /\ MaxFaults \in Nat

VARIABLES
    registered,   \* the manifests with an image record
    row,          \* the layer rows of a manifest
    names,        \* the manifest each alias is bound to
    erofs, boot,  \* the managed files of each layer
    pin,          \* the image a sandbox or snapshot record refers to
    foreign,      \* the snapshots that came from an archive
    excl, shared, \* the locks of each layer
    step, ref, man, known, got, todo, cur,  \* the locals of an operation
    requests, faults

catalog == <<registered, row, names>>
files == <<erofs, boot>>
pins == <<pin, foreign>>
locks == <<excl, shared>>
locals == <<step, ref, man, known, got, todo, cur>>
bounds == <<requests, faults>>
vars == <<catalog, files, pins, locks, locals, bounds>>

Holders == Sandboxes \cup Snapshots

Steps == {"idle", "convert", "lock", "publish", "boot", "rlock", "check", "use",
          "xlock", "unregister", "collect", "erofs", "rmboot"}

File == Conversions \cup {None, Rotten}

TypeOK ==
    /\ registered \subseteq Manifests
    /\ row \in [Manifests -> [Layers -> Conversions \cup {None}]]
    /\ names \in [Names -> Manifests \cup {None}]
    /\ erofs \in [Layers -> File] /\ boot \in [Layers -> File]
    /\ pin \in [Holders -> Manifests \cup {None}]
    /\ foreign \subseteq Snapshots
    /\ excl \in [Layers -> Procs \cup {None}]
    /\ shared \in [Layers -> SUBSET Procs]
    /\ step \in [Procs -> Steps]
    /\ ref \in [Procs -> Names \cup Manifests \cup {None}]
    /\ man \in [Procs -> Manifests \cup {None}]
    /\ known \in [Procs -> [Layers -> SUBSET Conversions]]
    /\ got \in [Procs -> [Layers -> Conversions \cup {None, Cached}]]
    /\ todo \in [Procs -> SUBSET Layers]
    /\ cur \in [Procs -> Layers \cup {None}]
    /\ requests \in Nat /\ faults \in Nat

NoLayers == [l \in Layers |-> None]

Init ==
    /\ registered = {}
    /\ row = [m \in Manifests |-> NoLayers]
    /\ names = [n \in Names |-> None]
    /\ erofs = NoLayers /\ boot = NoLayers
    /\ pin = [h \in Holders |-> None] /\ foreign = {}
    /\ excl = NoLayers /\ shared = [l \in Layers |-> {}]
    /\ step = [p \in Procs |-> "idle"]
    /\ ref = [p \in Procs |-> None] /\ man = [p \in Procs |-> None]
    /\ known = [p \in Procs |-> [l \in Layers |-> {}]]
    /\ got = [p \in Procs |-> NoLayers]
    /\ todo = [p \in Procs |-> {}] /\ cur = [p \in Procs |-> None]
    /\ requests = 0 /\ faults = 0

-----------------------------------------------------------------------------
(* Catalog and files *)

(* resolveRecord: an exact alias first, then a digest.                      *)
Resolve(r) ==
    IF r \in Names THEN names[r] ELSE IF r \in registered THEN r ELSE None

(* FindLayers: the committed mappings of a digest; two are a corruption.    *)
FindLayers(l) == {row[m][l] : m \in {n \in registered : l \in LayersOf[n]}}

verifyLayer(l, v) == erofs[l] = v /\ boot[l] = v

(* availableImage looks at presence and size, not at content.               *)
availableImage(m) ==
    \A l \in LayersOf[m] : erofs[l] \in {row[m][l], Rotten} /\ boot[l] \in {row[m][l], Rotten}

(* imageUsage.InUse: a sandbox or snapshot record refers to the image.      *)
InUse(m) == \E h \in Holders : pin[h] = m

-----------------------------------------------------------------------------
(* Locks and operations *)

CanLock(p, S) == \A l \in S : excl[l] = None /\ shared[l] \subseteq {p}

Lock(p, S) ==
    /\ CanLock(p, S)
    /\ excl' = [l \in Layers |-> IF l \in S THEN p ELSE excl[l]]
    /\ UNCHANGED shared

RLock(p, S) ==
    /\ \A l \in S : excl[l] = None
    /\ shared' = [l \in Layers |-> IF l \in S THEN shared[l] \cup {p} ELSE shared[l]]
    /\ UNCHANGED excl

Goto(p, s) == step' = [step EXCEPT ![p] = s]

(* The operation returns; its deferred calls release the locks.             *)
Return(p) ==
    /\ excl' = [l \in Layers |-> IF excl[l] = p THEN None ELSE excl[l]]
    /\ shared' = [l \in Layers |-> shared[l] \ {p}]
    /\ Goto(p, "idle")
    /\ ref' = [ref EXCEPT ![p] = None]
    /\ man' = [man EXCEPT ![p] = None]
    /\ known' = [known EXCEPT ![p] = [l \in Layers |-> {}]]
    /\ got' = [got EXCEPT ![p] = NoLayers]
    /\ todo' = [todo EXCEPT ![p] = {}]
    /\ cur' = [cur EXCEPT ![p] = None]

Begin(p, r, m, s, S) ==
    /\ step[p] = "idle" /\ requests < MaxRequests
    /\ requests' = requests + 1
    /\ ref' = [ref EXCEPT ![p] = r]
    /\ man' = [man EXCEPT ![p] = m]
    /\ todo' = [todo EXCEPT ![p] = S]
    /\ Goto(p, s)
    /\ UNCHANGED <<catalog, files, pins, locks, got, cur, faults>>

(* An error of the environment, a canceled context, or the process dies.    *)
Abandon(p) ==
    /\ step[p] # "idle" /\ faults < MaxFaults
    /\ faults' = faults + 1
    /\ Return(p)
    /\ UNCHANGED <<catalog, files, pins, requests>>

(* A file is damaged without changing its size.                             *)
Rot(l) ==
    /\ faults < MaxFaults
    /\ faults' = faults + 1
    /\ \/ erofs[l] \in Conversions /\ erofs' = [erofs EXCEPT ![l] = Rotten] /\ UNCHANGED boot
       \/ boot[l] \in Conversions /\ boot' = [boot EXCEPT ![l] = Rotten] /\ UNCHANGED erofs
    /\ UNCHANGED <<catalog, pins, locks, locals, requests>>

-----------------------------------------------------------------------------
(* Import *)

ImportBegin(p, n, m) ==
    /\ Begin(p, n, m, "convert", LayersOf[m])
    /\ known' = [known EXCEPT ![p] = [l \in Layers |-> IF l \in LayersOf[m] THEN FindLayers(l) ELSE {}]]

(* One worker of the group: reuse a layer that verifies, or convert it.     *)
ImportLayer(p, l) ==
    /\ step[p] = "convert" /\ l \in todo[p]
    /\ \/ /\ \E v \in known[p][l] : verifyLayer(l, v)
          /\ got' = [got EXCEPT ![p][l] = Cached]
       \/ /\ ~ \E v \in known[p][l] : verifyLayer(l, v)
          /\ \E v \in Conversions : got' = [got EXCEPT ![p][l] = v]
    /\ todo' = [todo EXCEPT ![p] = @ \ {l}]
    /\ Goto(p, IF todo[p] = {l} THEN "lock" ELSE "convert")
    /\ UNCHANGED <<catalog, files, pins, locks, ref, man, known, cur, bounds>>

ImportLock(p) ==
    /\ step[p] = "lock"
    /\ Lock(p, LayersOf[man[p]])
    /\ todo' = [todo EXCEPT ![p] = LayersOf[man[p]]]
    /\ Goto(p, "publish")
    /\ UNCHANGED <<catalog, files, pins, ref, man, known, got, cur, bounds>>

(* Under the locks the catalog and the files are looked at again.           *)
Reusable(l) == \E v \in FindLayers(l) : FindLayers(l) = {v} /\ verifyLayer(l, v)

ImportReuse(p, l) ==
    /\ step[p] = "publish" /\ l \in todo[p] /\ Reusable(l)
    /\ \E v \in FindLayers(l) : got' = [got EXCEPT ![p][l] = v]
    /\ todo' = [todo EXCEPT ![p] = @ \ {l}]
    /\ UNCHANGED <<catalog, files, pins, locks, step, ref, man, known, cur, bounds>>

(* publishLayer: a rebuilt layer must equal the committed mapping before    *)
(* it replaces shared files.                                                *)
Publishable(p, l) == got[p][l] # Cached /\ FindLayers(l) \subseteq {got[p][l]}

ImportPublish(p, l) ==
    /\ step[p] = "publish" /\ l \in todo[p] /\ ~Reusable(l) /\ Publishable(p, l)
    /\ erofs' = [erofs EXCEPT ![l] = got[p][l]]
    /\ cur' = [cur EXCEPT ![p] = l]
    /\ Goto(p, "boot")
    /\ UNCHANGED <<catalog, boot, pins, locks, ref, man, known, got, todo, bounds>>

ImportPublishBoot(p) ==
    /\ step[p] = "boot"
    /\ boot' = [boot EXCEPT ![cur[p]] = got[p][cur[p]]]
    /\ todo' = [todo EXCEPT ![p] = @ \ {cur[p]}]
    /\ Goto(p, "publish")
    /\ UNCHANGED <<catalog, erofs, pins, locks, ref, man, known, got, cur, bounds>>

(* "cached layer changed during import", "rebuilt layer differs".           *)
ImportRefused(p, l) ==
    /\ step[p] = "publish" /\ l \in todo[p] /\ ~Reusable(l) /\ ~Publishable(p, l)
    /\ Return(p)
    /\ UNCHANGED <<catalog, files, pins, bounds>>

(* CommitImport binds the alias and stores the image, or leaves all as is.  *)
CommitAllowed(p) ==
    /\ \A l \in LayersOf[man[p]] : verifyLayer(l, got[p][l])
    /\ names[ref[p]] \in {None, man[p]}
    /\ man[p] \in registered => \A l \in LayersOf[man[p]] : row[man[p]][l] = got[p][l]

ImportCommit(p) ==
    /\ step[p] = "publish" /\ todo[p] = {}
    /\ \/ /\ CommitAllowed(p)
          /\ registered' = registered \cup {man[p]}
          /\ row' = [row EXCEPT ![man[p]] = [l \in Layers |-> IF l \in LayersOf[man[p]] THEN got[p][l] ELSE None]]
          /\ names' = [names EXCEPT ![ref[p]] = man[p]]
       \/ ~CommitAllowed(p) /\ UNCHANGED catalog
    /\ Return(p)
    /\ UNCHANGED <<files, pins, bounds>>

-----------------------------------------------------------------------------
(* Guarded use *)

GuardBegin(p, r) ==
    /\ Resolve(r) # None
    /\ Begin(p, r, Resolve(r), "rlock", {})
    /\ UNCHANGED known

GuardLock(p) ==
    /\ step[p] = "rlock"
    /\ RLock(p, LayersOf[man[p]])
    /\ Goto(p, "check")
    /\ UNCHANGED <<catalog, files, pins, ref, man, known, got, todo, cur, bounds>>

(* withLocked: the binding is resolved again under the locks.               *)
GuardCheck(p) ==
    /\ step[p] = "check"
    /\ \/ /\ Resolve(ref[p]) = man[p] /\ availableImage(man[p])
          /\ Goto(p, "use")
          /\ UNCHANGED <<locks, ref, man, known, got, todo, cur>>
       \/ /\ ~(Resolve(ref[p]) = man[p] /\ availableImage(man[p]))
          /\ Return(p)
    /\ UNCHANGED <<catalog, files, pins, bounds>>

(* The callback of a creation: Reserve resolves a third time in its         *)
(* transaction.  Verify and start use the image and pin nothing.            *)
GuardUse(p) ==
    /\ step[p] = "use"
    /\ \/ UNCHANGED pin
       \/ /\ Resolve(ref[p]) = man[p]
          /\ \E s \in Sandboxes : pin[s] = None /\ pin' = [pin EXCEPT ![s] = man[p]]
    /\ Return(p)
    /\ UNCHANGED <<catalog, files, foreign, bounds>>

(* A capture pins the image of its sandbox, an archive any image at all.    *)
SnapshotPin(h) ==
    /\ pin[h] = None
    /\ \/ /\ \E s \in Sandboxes : pin[s] # None /\ pin' = [pin EXCEPT ![h] = pin[s]]
          /\ foreign' = foreign \ {h}
       \/ /\ \E m \in Manifests : pin' = [pin EXCEPT ![h] = m]
          /\ foreign' = foreign \cup {h}
    /\ UNCHANGED <<catalog, files, locks, locals, bounds>>

Unpin(h) ==
    /\ pin[h] # None
    /\ pin' = [pin EXCEPT ![h] = None]
    /\ UNCHANGED <<catalog, files, foreign, locks, locals, bounds>>

-----------------------------------------------------------------------------
(* Removal and collection *)

RemoveBegin(p, r) ==
    /\ Resolve(r) # None
    /\ Begin(p, r, Resolve(r), "xlock", {})
    /\ UNCHANGED known

RemoveLock(p) ==
    /\ step[p] = "xlock"
    /\ Lock(p, LayersOf[man[p]])
    /\ Goto(p, "unregister")
    /\ UNCHANGED <<catalog, files, pins, ref, man, known, got, todo, cur, bounds>>

(* The aliases a removal by r takes away: one, or all of a digest.          *)
Aliases(r, m) == {n \in Names : names[n] = m /\ (r = n \/ r \notin Names)}

Remaining(r, m) == {n \in Names : names[n] = m} \ Aliases(r, m)

DropAliases(r, m) ==
    names' = [n \in Names |-> IF n \in Aliases(r, m) THEN None ELSE names[n]]

\* A mutant: layers that another image shares are deleted as well.
AllLayers(m) == LayersOf[m]

(* The layers no other image refers to once m is gone.                      *)
Unreferenced(m) == {l \in LayersOf[m] : \A n \in registered \ {m} : l \notin LayersOf[n]}

(* Store.Remove, one transaction.                                           *)
RemoveRecord(p) ==
    LET r == ref[p]
        m == man[p]
    IN /\ step[p] = "unregister"
       /\ \/ /\ Resolve(r) = m /\ Remaining(r, m) # {}
             /\ DropAliases(r, m)
             /\ Return(p)
             /\ UNCHANGED <<registered, row>>
          \/ /\ Resolve(r) = m /\ Remaining(r, m) = {} /\ ~InUse(m)
             /\ DropAliases(r, m)
             /\ registered' = registered \ {m}
             /\ row' = [row EXCEPT ![m] = NoLayers]
             /\ todo' = [todo EXCEPT ![p] = Unreferenced(m)]
             /\ Goto(p, "erofs")
             /\ UNCHANGED <<locks, ref, man, known, got, cur>>
          \/ /\ Resolve(r) # m \/ (Remaining(r, m) = {} /\ InUse(m))
             /\ Return(p)
             /\ UNCHANGED catalog
       /\ UNCHANGED <<files, pins, bounds>>

\* A mutant: the collector does not wait for users of the layer.
CollectLeased(p, l) ==
    /\ erofs[l] # None \/ boot[l] # None
    /\ step[p] = "idle"
    /\ excl' = [excl EXCEPT ![l] = p]
    /\ todo' = [todo EXCEPT ![p] = {l}]
    /\ Goto(p, "erofs")
    /\ UNCHANGED <<catalog, files, pins, shared, ref, man, known, got, cur, bounds>>

(* collectOrphanImage takes the lock without waiting and looks again.       *)
CollectBegin(p, l) ==
    /\ erofs[l] # None \/ boot[l] # None
    /\ CanLock(p, {l})
    /\ step[p] = "idle"
    /\ excl' = [excl EXCEPT ![l] = p]
    /\ todo' = [todo EXCEPT ![p] = {l}]
    /\ Goto(p, "collect")
    /\ UNCHANGED <<catalog, files, pins, shared, ref, man, known, got, cur, bounds>>

CollectCheck(p) ==
    /\ step[p] = "collect"
    /\ \/ /\ \A l \in todo[p] : FindLayers(l) = {}
          /\ Goto(p, "erofs")
          /\ UNCHANGED <<locks, ref, man, known, got, todo, cur>>
       \/ /\ \E l \in todo[p] : FindLayers(l) # {}
          /\ Return(p)
    /\ UNCHANGED <<catalog, files, pins, bounds>>

(* Both delete the EROFS file, then the boot directory.  A removal goes on  *)
(* after a failed deletion.                                                 *)
DeleteErofs(p, l) ==
    /\ step[p] = "erofs" /\ l \in todo[p]
    /\ \/ erofs' = [erofs EXCEPT ![l] = None] /\ UNCHANGED faults
       \/ man[p] # None /\ faults < MaxFaults /\ faults' = faults + 1 /\ UNCHANGED erofs
    /\ cur' = [cur EXCEPT ![p] = l]
    /\ Goto(p, "rmboot")
    /\ UNCHANGED <<catalog, boot, pins, locks, ref, man, known, got, todo, requests>>

DeleteBoot(p) ==
    /\ step[p] = "rmboot"
    /\ \/ boot' = [boot EXCEPT ![cur[p]] = None] /\ UNCHANGED faults
       \/ faults < MaxFaults /\ faults' = faults + 1 /\ UNCHANGED boot
    /\ todo' = [todo EXCEPT ![p] = @ \ {cur[p]}]
    /\ Goto(p, "erofs")
    /\ UNCHANGED <<catalog, erofs, pins, locks, ref, man, known, got, cur, requests>>

DeleteDone(p) ==
    /\ step[p] = "erofs" /\ todo[p] = {}
    /\ Return(p)
    /\ UNCHANGED <<catalog, files, pins, bounds>>

-----------------------------------------------------------------------------

Continue(p) ==
    \/ \E l \in Layers :
        \/ ImportLayer(p, l) \/ ImportReuse(p, l) \/ ImportPublish(p, l)
        \/ ImportRefused(p, l) \/ DeleteErofs(p, l)
    \/ ImportLock(p) \/ ImportPublishBoot(p) \/ ImportCommit(p)
    \/ GuardLock(p) \/ GuardCheck(p) \/ GuardUse(p)
    \/ RemoveLock(p) \/ RemoveRecord(p)
    \/ CollectCheck(p) \/ DeleteBoot(p) \/ DeleteDone(p)

Next ==
    \/ \E p \in Procs :
        \/ \E n \in Names, m \in Manifests : ImportBegin(p, n, m)
        \/ \E r \in Names \cup Manifests : GuardBegin(p, r) \/ RemoveBegin(p, r)
        \/ \E l \in Layers : CollectBegin(p, l)
        \/ Continue(p) \/ Abandon(p)
    \/ \E h \in Snapshots : SnapshotPin(h)
    \/ \E h \in Holders : Unpin(h)
    \/ \E l \in Layers : Rot(l)

Spec == Init /\ [][Next]_vars

-----------------------------------------------------------------------------

(* Every registered image has all its files, each being the conversion that *)
(* its layer row committed (or that one damaged): neither an import, a      *)
(* removal of an image that shares the layer, the collector nor a crash     *)
(* between two renames takes one away or replaces it by another conversion. *)
(* In particular two images never disagree about a shared layer.            *)
ImagesWhole ==
    \A m \in registered : \A l \in LayersOf[m] :
        erofs[l] \in {row[m][l], Rotten} /\ boot[l] \in {row[m][l], Rotten}

(* An image that a sandbox, or a snapshot captured from one, refers to      *)
(* stays registered: the removal cannot slip between the check of a         *)
(* creation and its reservation (verify.go, "closes the remove/use race").  *)
PinnedRegistered ==
    \A h \in Holders \ foreign : pin[h] # None => pin[h] \in registered

(* An alias always leads to an image, and an image always has an alias.     *)
AliasesLead ==
    /\ \A n \in Names : names[n] # None => names[n] \in registered
    /\ \A m \in registered : \E n \in Names : names[n] = m

(* While a user of an image works on it under its leases, no file of the    *)
(* image is deleted or replaced (damage apart).                             *)
GuardedFilesStable ==
    [][\A p \in Procs : step[p] = "use" =>
        \A l \in LayersOf[man[p]] :
            erofs'[l] \in {erofs[l], Rotten} /\ boot'[l] \in {boot[l], Rotten}]_vars

(* What the users of images rely on: registered images are whole, images    *)
(* in use stay registered, and aliases lead to images.                      *)
ImagesStayUsable == ImagesWhole /\ PinnedRegistered /\ AliasesLead
=============================================================================

--------------------------- MODULE StoreAlgorithms ---------------------------
(***************************************************************************)
(* The pure algorithms of the stores: which snapshots a policy evicts,     *)
(* which kernel and initrd an image boots, and what a snapshot archive or  *)
(* exported directory carries.  Each is given with a reference definition. *)
(***************************************************************************)
EXTENDS Integers, Sequences, FiniteSets, SequencesExt, FiniteSetsExt

CONSTANTS Kernels, Initrds      \* names that start with vmlinuz, initrd.img
-----------------------------------------------------------------------------
(***************************************************************************)
(* pickSnapshotEvictions (core/gc_snapshot_policy.go): which snapshots a   *)
(* policy of age, count and size limits selects.  A snapshot record is     *)
(* [id, access, size]; a limit of 0 is not set.                            *)
(***************************************************************************)

\* Least recently used first; ties resolve by ID.
Older(a, b) == a.access < b.access \/ (a.access = b.access /\ a.id < b.id)

\* A mutant: what is dropped is not taken off the total.
OverSizeAlways(sorted, limit) ==
    LET total == FoldLeft(LAMBDA n, r : n + r.size, 0, sorted)
    IN IF total > limit THEN {sorted[i].id : i \in DOMAIN sorted} ELSE {}

\* The loop over the size limit, from the oldest on, until the total fits.
OverSize(sorted, limit) ==
    LET drop(acc, r) ==
          IF acc.total <= limit THEN acc
          ELSE [total |-> acc.total - r.size, out |-> acc.out \cup {r.id}]
        total == FoldLeft(LAMBDA n, r : n + r.size, 0, sorted)
    IN FoldLeft(drop, [total |-> total, out |-> {}], sorted).out

pickSnapshotEvictions(records, policy, now) ==
    LET sorted == SetToSortSeq(records, Older)
        Ids(s) == {s[i].id : i \in DOMAIN s}
        all  == IF policy.keep = 0 /\ policy.age = 0 /\ policy.size = 0 THEN Ids(sorted) ELSE {}
        age  == IF policy.age > 0 THEN {r.id : r \in {x \in records : x.access < now - policy.age}}
                                  ELSE {}
        keep == IF policy.keep > 0 /\ Len(sorted) > policy.keep
                THEN Ids(SubSeq(sorted, 1, Len(sorted) - policy.keep)) ELSE {}
        size == IF policy.size > 0 THEN OverSize(sorted, policy.size) ELSE {}
    IN all \cup age \cup keep \cup size

-----------------------------------------------------------------------------
(* Reference: what each limit promises of the snapshots that survive it *)

NotOlder(records, r) == {x \in records : ~Older(x, r)}

Survives(records, policy, now, r) ==
    /\ policy.keep > 0 \/ policy.age > 0 \/ policy.size > 0
    /\ policy.age > 0 => r.access >= now - policy.age
    /\ policy.keep > 0 => Cardinality(NotOlder(records, r)) <= policy.keep
    /\ policy.size > 0 =>
        MapThenSumSet(LAMBDA x : x.size, NotOlder(records, r)) <= policy.size

\* A snapshot survives exactly if it passes every limit that is set: it is young
\* enough, among the most recent ones, and it fits with all more recent ones.
PolicyIsMet(records, policy, now) ==
    pickSnapshotEvictions(records, policy, now)
        = {r.id : r \in {x \in records : ~Survives(records, policy, now, x)}}
-----------------------------------------------------------------------------
(***************************************************************************)
(* SelectBoot (images/boot.go): the kernel and the initrd that an image of *)
(* several layers boots.  A layer is [opaque, whiteouts, files], where     *)
(* files is the order of its regular boot files; layers go base to top.    *)
(***************************************************************************)

NoFile == [layer |-> 0, name |-> "none"]

Without(candidates, name) == SelectSeq(candidates, LAMBDA c : c.name # name)

\* A mutant: a layer's whiteouts also hide the files of the layer itself.
OverlayWhiteoutLast(candidates, layer, index) ==
    LET base == IF layer.opaque THEN <<>> ELSE candidates
        add(acc, name) == Append(Without(acc, name), [layer |-> index, name |-> name])
    IN FoldLeft(Without, FoldLeft(add, base, layer.files), SetToSeq(layer.whiteouts))

\* One layer on top of the candidates so far.
Overlay(candidates, layer, index) ==
    LET base == IF layer.opaque THEN <<>> ELSE candidates
        kept == FoldLeft(Without, base, SetToSeq(layer.whiteouts))
        add(acc, name) == Append(Without(acc, name), [layer |-> index, name |-> name])
    IN FoldLeft(add, kept, layer.files)

LastOf(candidates, names) ==
    LET i == SelectLastInSeq(candidates, LAMBDA c : c.name \in names)
    IN IF i = 0 THEN NoFile ELSE candidates[i]

\* Both artifacts, or an incompatible image.
SelectBoot(layers) ==
    LET candidates == FoldLeftDomain(LAMBDA acc, i : Overlay(acc, layers[i], i), <<>>, layers)
        boot == [kernel |-> LastOf(candidates, Kernels), initrd |-> LastOf(candidates, Initrds)]
    IN IF NoFile \in {boot.kernel, boot.initrd} THEN [kernel |-> NoFile, initrd |-> NoFile] ELSE boot

-----------------------------------------------------------------------------
(* Reference: what is visible in the union of the layers *)

\* The file of this name in layer i is what the union file system shows.
Visible(layers, i, name) ==
    /\ name \in ToSet(layers[i].files)
    /\ \A j \in i + 1..Len(layers) :
        ~layers[j].opaque /\ name \notin layers[j].whiteouts \cup ToSet(layers[j].files)

Position(layers, i, name) == <<i, CHOOSE k \in DOMAIN layers[i].files : layers[i].files[k] = name>>
Above(a, b) == a[1] > b[1] \/ (a[1] = b[1] /\ a[2] > b[2])

\* The chosen one of some names is visible and above every other visible one.
IsTop(layers, names, chosen) ==
    /\ chosen.name \in names /\ chosen.layer \in DOMAIN layers
    /\ Visible(layers, chosen.layer, chosen.name)
    /\ \A i \in DOMAIN layers, name \in names :
        (Visible(layers, i, name) /\ <<i, name>> # <<chosen.layer, chosen.name>>) =>
            Above(Position(layers, chosen.layer, chosen.name), Position(layers, i, name))

Bootable(layers) ==
    /\ \E i \in DOMAIN layers, k \in Kernels : Visible(layers, i, k)
    /\ \E i \in DOMAIN layers, k \in Initrds : Visible(layers, i, k)

\* The image boots the topmost kernel and initrd that its layers leave visible,
\* and is refused exactly if one of them is missing.
BootIsVisible(layers) ==
    LET boot == SelectBoot(layers)
    IN IF Bootable(layers)
       THEN IsTop(layers, Kernels, boot.kernel) /\ IsTop(layers, Initrds, boot.initrd)
       ELSE boot.kernel = NoFile /\ boot.initrd = NoFile
-----------------------------------------------------------------------------
(***************************************************************************)
(* Snapshot transfer (snapshot/archive.go, sparse_linux.go, directory.go): *)
(* what the writers put into a tar stream or an exported directory, and    *)
(* what the readers accept of it.  A file is a sequence of cells, some of  *)
(* them holes; a checksum stands for the bytes it is taken over.           *)
(***************************************************************************)

\* A file: its bytes, and the cells the file system has allocated.  A hole
\* reads as zero.
Files(n) ==
    UNION {{f \in [data : [1..k -> {0, 1}], alloc : SUBSET (1..k)] :
                \A i \in 1..k : f.data[i] = 1 => i \in f.alloc} : k \in 0..n}
Size(f) == Len(f.data)
Refused == {}           \* a snapshot has at least one file
ManifestName == 0       \* snapshot.json; the files are numbered from 1
-----------------------------------------------------------------------------
\* Writing.

\* The maximal allocated runs in order.  A file is dense when the file system
\* cannot tell holes from data (seeks is FALSE).
scanSparse(f, seeks) ==
    LET runs == {e \in [offset : 0..Size(f), length : 1..Size(f)] :
                    /\ e.offset + e.length <= Size(f)
                    /\ (e.offset + 1)..(e.offset + e.length) \subseteq f.alloc
                    /\ e.offset \notin f.alloc /\ e.offset + e.length + 1 \notin f.alloc}
    IN [extents |-> SetToSortSeq(runs, LAMBDA x, y : x.offset < y.offset),
        sparse |-> seeks /\ Cardinality(f.alloc) < Size(f)]

Stored(f, extents) ==
    FlattenSeq([i \in DOMAIN extents |->
                  SubSeq(f.data, extents[i].offset + 1, extents[i].offset + extents[i].length)])

\* One tar entry: with a sparse map only the extents are stored.  A map too long
\* for its header makes the entry dense, as a file system without holes does.
writeArchiveFile(name, f, seeks) ==
    LET scan == scanSparse(f, seeks)
    IN [name |-> name, map |-> IF scan.sparse THEN <<scan.extents>> ELSE <<>>, logical |-> Size(f),
        bytes |-> IF scan.sparse THEN Stored(f, scan.extents) ELSE f.data]

\* What the manifest says of an entry, and what the reader recomputes.  An
\* empty list of extents and none at all are the same JSON.
Facts(entry) ==
    [name |-> entry.name, size |-> IF entry.map = <<>> THEN Len(entry.bytes) ELSE entry.logical,
     stored |-> Len(entry.bytes), sum |-> entry.bytes,
     extents |-> IF entry.map = <<>> THEN <<>> ELSE entry.map[1]]

\* The manifest is the last entry.
WriteArchive(dir, seeks) ==
    LET entries == [i \in DOMAIN dir |-> writeArchiveFile(i, dir[i], seeks)]
    IN Append(entries, [name |-> ManifestName, files |-> [i \in DOMAIN dir |-> Facts(entries[i])]])
-----------------------------------------------------------------------------
\* Reading.

validateExtents(extents, logical, stored) ==
    LET End(i) == IF i = 0 THEN 0 ELSE extents[i].offset + extents[i].length
    IN /\ \A i \in DOMAIN extents :
            extents[i].offset >= End(i - 1) /\ extents[i].length > 0 /\ End(i) <= logical
       /\ FoldLeft(LAMBDA n, e : n + e.length, 0, extents) = stored

\* The extents go to their offsets in a file of zeros.
Place(extents, bytes, logical) ==
    LET Before(i) == FoldLeft(LAMBDA n, e : n + e.length, 0, SubSeq(extents, 1, i - 1))
    IN [k \in 1..logical |->
          IF \E i \in DOMAIN extents : k - extents[i].offset \in 1..extents[i].length
          THEN LET i == CHOOSE i \in DOMAIN extents : k - extents[i].offset \in 1..extents[i].length
               IN bytes[Before(i) + k - extents[i].offset]
          ELSE 0]

Readable(entry) ==
    entry.map # <<>> => validateExtents(entry.map[1], entry.logical, Len(entry.bytes))

readArchiveFile(entry) ==
    [name |-> entry.name,
     data |-> IF entry.map = <<>> THEN entry.bytes ELSE Place(entry.map[1], entry.bytes, entry.logical)]

Distinct(list) == \A i, j \in DOMAIN list : list[i].name = list[j].name => i = j

\* A mutant: the digest of the stored bytes is taken to cover their places.
ListedByDigest(files, entries) ==
    /\ Len(files) = Len(entries) /\ Distinct(files)
    /\ \A i \in DOMAIN files : \E j \in DOMAIN entries :
        [files[i] EXCEPT !.extents = <<>>] = [Facts(entries[j]) EXCEPT !.extents = <<>>]

\* The manifest lists exactly the entries that came before it.
Listed(files, entries) ==
    /\ Len(files) = Len(entries) /\ Distinct(files)
    /\ \A i \in DOMAIN files : \E j \in DOMAIN entries : files[i] = Facts(entries[j])

\* The manifest is there, and nothing follows it.
ReadArchive(stream) ==
    LET entries == Front(stream)
    IN IF /\ stream # <<>> /\ Last(stream).name = ManifestName
          /\ \A i \in DOMAIN entries : entries[i].name # ManifestName /\ Readable(entries[i])
          /\ entries # <<>> /\ Distinct(entries) /\ Listed(Last(stream).files, entries)
       THEN {readArchiveFile(entries[i]) : i \in DOMAIN entries}
       ELSE Refused
-----------------------------------------------------------------------------
\* A directory carries sizes only; its manifest is written last.

WriteDirectory(dir) ==
    [manifest |-> [i \in DOMAIN dir |-> Size(dir[i])],
     files |-> {[name |-> i, data |-> dir[i].data] : i \in DOMAIN dir}]

StageDirectory(export) ==
    IF /\ export.manifest # <<>> /\ Cardinality(export.files) = Len(export.manifest)
       /\ \A f \in export.files : f.name \in DOMAIN export.manifest /\ Len(f.data) = export.manifest[f.name]
    THEN export.files ELSE Refused
-----------------------------------------------------------------------------
\* What happens to a stream on its way: it ends early, an entry is lost or
\* doubled, two change places, or a byte or an offset changes.

Damaged(stream) ==
    LET n == Len(stream) - 1
    IN {stream, Append(stream, stream[1])}
       \cup {SubSeq(stream, 1, k) : k \in 0..n}
       \cup {RemoveAt(stream, k) : k \in 1..n}
       \cup {InsertAt(stream, k, stream[k]) : k \in 1..(n + 1)}
       \cup {[stream EXCEPT ![k] = stream[k + 1], ![k + 1] = stream[k]] : k \in 1..n}
       \cup UNION {{[stream EXCEPT ![k].bytes[b] = 1 - @] : b \in DOMAIN stream[k].bytes} : k \in 1..n}
       \cup UNION {{[stream EXCEPT ![k].map[1][x].offset = @ + d] : x \in DOMAIN stream[k].map[1], d \in {-1, 1}} :
                    k \in {k \in 1..n : stream[k].map # <<>>}}
       \cup {[stream EXCEPT ![k].map = <<>>] : k \in 1..n}

DamagedDirectory(export) ==
    {export, [export EXCEPT !.manifest = <<>>]}
    \cup {[export EXCEPT !.files = @ \ {f}] : f \in export.files}
    \cup {[export EXCEPT !.files = (@ \ {f}) \cup {[f EXCEPT !.data = Front(@)]}] :
            f \in {f \in export.files : f.data # <<>>}}
    \cup {[export EXCEPT !.files = @ \cup {[name |-> Len(export.manifest) + 1, data |-> <<1>>]}]}
    \cup {[export EXCEPT !.files = (@ \ {f}) \cup {[f EXCEPT !.name = Len(export.manifest) + 1]}] : f \in export.files}

(* "Its presence proves the file list was fully written; each entry is     *)
(* checked before an imported snapshot is published": an archive or an     *)
(* exported directory reads back as the snapshot it was made of, whether   *)
(* the file system reports holes or not, and a damaged one is refused or   *)
(* reads the same.                                                         *)
TransferIsFaithful(dir) ==
    LET original == {[name |-> i, data |-> dir[i].data] : i \in DOMAIN dir}
    IN /\ \A seeks \in BOOLEAN :
            LET stream == WriteArchive(dir, seeks)
            IN ReadArchive(stream) = original /\ \A s \in Damaged(stream) : ReadArchive(s) \in {original, Refused}
       /\ LET export == WriteDirectory(dir)
          IN StageDirectory(export) = original
             /\ \A x \in DamagedDirectory(export) : StageDirectory(x) \in {original, Refused}
=============================================================================

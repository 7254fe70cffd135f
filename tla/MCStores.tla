------------------------------- MODULE MCStores -------------------------------
(***************************************************************************)
(* The images and the other stores of a node.  Bounds keep the             *)
(* combinations of a component small; two components are explored in two   *)
(* scenarios each.  The three pure algorithms are evaluated, while the     *)
(* stores rest, on every input of a small domain.                          *)
(*                                                                         *)
(* The components share three sets of interchangeable values: p1, p2 are   *)
(* operations, clones and sandboxes, n1, n2 aliases, snapshots and         *)
(* devices, c1, c2 files of a layer and addresses.  Components never move  *)
(* together, so sharing them only makes the symmetry group smaller.        *)
(***************************************************************************)
EXTENDS Images, Stores, Pool, Copies, Sequences, FiniteSets, TLC

VARIABLES
    scenario,   \* what is explored of the component that moves
    input       \* the input of a pure algorithm

Pure == INSTANCE StoreAlgorithms WITH Kernels <- {"k1", "k2"}, Initrds <- {"i1"}

\* Two manifests share one layer.
MCLayersOf == [m \in Manifests |-> IF m = "m1" THEN {"a", "b"} ELSE {"b"}]

\* Up to three snapshots with every access time and size that the limits of
\* the policies tell apart.
EvictionInputs ==
    {[records |-> {[id |-> i, access |-> r[i][1], size |-> r[i][2]] : i \in DOMAIN r}, policy |-> p] :
        r \in UNION {[S -> (0..2) \X (0..2)] : S \in SUBSET (1..3)},
        p \in [keep : 0..2, age : 0..1, size : {0, 1, 3}]}

BootNames == {"k1", "k2", "i1"}
FewOf(S) == {T \in SUBSET S : Cardinality(T) <= 1}
Files(n) == {f \in UNION {[1..k -> BootNames] : k \in 0..n} : \A i, j \in DOMAIN f : f[i] = f[j] => i = j}
Base(n) == [opaque : {FALSE}, whiteouts : {{}}, files : Files(n)]
Upper(n) == [opaque : BOOLEAN, whiteouts : FewOf(BootNames), files : Files(n)]

\* Three layers with a file each, or two with two.  Nothing lies below the
\* base layer, so what it hides does not matter.
BootInputs == {<<a, b>> : a \in Base(2), b \in Upper(2)}
              \cup {<<a, b, c>> : a \in Base(1), b \in Upper(1), c \in Upper(1)}

\* A snapshot of one file of up to three cells, or of two files.
ArchiveInputs == {<<f>> : f \in Pure!Files(3)} \cup {<<f, g>> : f \in Pure!Files(3), g \in Pure!Files(2)}

-----------------------------------------------------------------------------
MCInit ==
    /\ focus \in {"images", "snapshots", "access", "tap", "clone", "none"}
    /\ Init /\ StoresInit /\ PoolInit /\ CopiesInit
    /\ \/ focus \in {"images", "snapshots", "clone"} /\ scenario = "all" /\ input = <<>>
       \/ focus = "access" /\ scenario \in {"one", "two"} /\ input = <<>>
       \/ focus = "tap" /\ scenario \in {"pool", "scan"} /\ input = <<>>
       \/ focus = "none" /\ scenario = "archive" /\ input \in ArchiveInputs
       \/ focus = "none" /\ scenario = "eviction" /\ input \in EvictionInputs
       \/ focus = "none" /\ scenario = "boot" /\ input \in BootInputs

\* Together, requests and faults stay small.
ImagesBound == requests' + faults' <= 3
SnapBound == snapRequests' + snapFaults' <= 5

\* One clone with two faults, or two without: they meet only in what they read.
CloneBound == clFaults' = 0 \/ \E c \in Clones : clOp'[c].step = "idle"

\* The usage times need either a longer history of one snapshot or two
\* snapshots that compete for the buffer.
AccessBound ==
    \/ /\ scenario = "one"
       /\ \E s \in Used : \A t \in Used \ {s} :
            accState'[t] = "ready" /\ accDurable'[t] = 1 /\ accPending'[t] = 0 /\ \A a \in Actors : t \notin accAct'[a].snap
    \/ scenario = "two" /\ accNow' <= 2 /\ accFaults' = 0

\* The pool with two devices, or with one device while a scan of the lease
\* directory overlaps everything else.
TapBound ==
    \/ scenario = "pool" /\ tapScan' = tapScan /\ tapFaults' = 0
    \/ /\ scenario = "scan"
       /\ \E t \in Taps : \A u \in Taps \ {t} : ~tapDev'[u].there /\ tapEntry'[u].phase = "none"
       /\ Cardinality(UNION {tapAddress'[a].tap : a \in TapAddresses}) <= 1

Same == UNCHANGED <<scenario, input>>

MCNext ==
    \/ focus = "images" /\ Next /\ ImagesBound /\ UNCHANGED <<storesVars, poolVars, copiesVars>> /\ Same
    \/ SnapshotsStep /\ SnapBound /\ UNCHANGED <<vars, poolVars, copiesVars>> /\ Same
    \/ AccessStep /\ AccessBound /\ UNCHANGED <<vars, poolVars, copiesVars>> /\ Same
    \/ TapStep /\ TapBound /\ UNCHANGED <<vars, storesVars, copiesVars>> /\ Same
    \/ CloneStep /\ CloneBound /\ UNCHANGED <<vars, storesVars, poolVars>> /\ Same

MCSpec == MCInit /\ [][MCNext]_<<vars, storesVars, poolVars, copiesVars, scenario, input>>
-----------------------------------------------------------------------------
\* A reader accepts of a transfer only what its writer was given (snapshot).
TransferIsFaithful == scenario = "archive" => Pure!TransferIsFaithful(input)

\* pickSnapshotEvictions meets every limit with the least recently used ones.
PolicyIsMet == scenario = "eviction" => Pure!PolicyIsMet(input.records, input.policy, 2)

\* SelectBoot picks files that the merged layers show.
BootIsVisible == scenario = "boot" => Pure!BootIsVisible(input)

\* Of the shared values, as the run gives them.
Symmetry == Permutations(Procs) \cup Permutations(Names) \cup Permutations(Conversions)
=============================================================================

-------------------------- MODULE SnapshotsProofs ---------------------------
(***************************************************************************)
(* Snapshots and their usage times, for any number of operations,          *)
(* identities, touches, failures and crashes: captures are durable, leased *)
(* files stay, a paused guest has an owner, no use is lost and an eviction *)
(* is fenced.                                                              *)
(***************************************************************************)
EXTENDS Stores, TLAPS

USE Zenon    \* unless a leaf names another prover

(* Captures.  What an operation knows of its identity follows from its step: *)
(* a writer alone changes the record from none to pending to ready and the   *)
(* files, a remover only marks the record before it has the lock.            *)

SnCaptures == {"save", "hibernate", "import"}
SnKinds == SnCaptures \cup {"restore", "read", "remove", "collect", "evict", "idle"}
SnSteps ==
    {"idle", "lock", "reserve", "stage", "pause", "fill", "resume", "resumeFailed", "resumeKeep",
     "publish", "commit", "forget", "unstage", "beginStop", "stop", "markStopped", "rlock",
     "validate", "use", "clean", "create", "copy", "replace", "launch", "remove", "finalize",
     "check", "orphan", "delete"}
SnOps == [kind : SnKinds, step : SnSteps, id : SUBSET SnapIds, off : BOOLEAN]

SnTyped ==
    /\ snapRec \in [SnapIds -> {"none", "pending", "ready", "deleting"}]
    /\ snapStage \in [SnapIds -> {"none", "partial", "whole"}]
    /\ snapDir \in [SnapIds -> {"none", "partial", "whole"}]
    /\ snapIssued \in SUBSET SnapIds
    /\ snapWriter \in [SnapIds -> SUBSET Operations]
    /\ snapReaders \in [SnapIds -> SUBSET Operations]
    /\ snapOp \in [Operations -> SnOps]

(* Record r, stage g and directory d at step t of a capture of kind k.       *)
SnCap(k, t, r, g, d) ==
    /\ t = "reserve" \/ (k = "import" /\ t \in {"stage", "fill"}) => r = "none"
    /\ k # "import" /\ t \in {"stage", "pause", "fill", "resume"} => r = "pending"
    /\ t \in {"publish", "commit"} => r = "pending"
    /\ t \in {"resumeFailed", "forget"} => r # "none"
    /\ t = "unstage" => r = "none"
    /\ t \in {"beginStop", "stop", "markStopped", "resumeKeep"} => r \in {"ready", "deleting"}
    /\ (k = "import" /\ t = "reserve") \/ t \in {"resume", "publish"} => g = "whole"
    /\ t \in {"commit", "beginStop", "stop", "markStopped", "resumeKeep"} => d = "whole"

SnOk(p, k, t, s) ==
    /\ k \in SnCaptures => /\ s \in snapIssued /\ snapWriter[s] = {p}
                           /\ SnCap(k, t, snapRec[s], snapStage[s], snapDir[s])
    /\ k = "remove" => /\ s \in snapIssued /\ snapRec[s] \in {"deleting", "none"}
                       /\ t # "lock" => snapWriter[s] = {p}
    /\ k = "collect" /\ t # "delete" => /\ snapWriter[s] = {p}
                                        /\ t # "check" => snapRec[s] \in {"none", "pending"}
    /\ k \in {"restore", "read"} /\ t # "rlock" => /\ p \in snapReaders[s]
                                                   /\ t # "validate" => snapDir[s] = "whole"

SnCaptor(p, s) == snapOp[p].id = {s} /\ snapOp[p].kind \in SnCaptures
SnRemover(p, s) == snapOp[p].id = {s} /\ snapOp[p].kind = "remove"

SnKept(s) ==
    /\ snapReaders[s] # {} => snapWriter[s] = {}
    /\ snapRec[s] = "ready" => snapDir[s] = "whole"
    /\ snapRec[s] # "none" => s \in snapIssued
    /\ \A p, q \in Operations : SnCaptor(p, s) /\ SnRemover(q, s) => snapRec[s] = "deleting"

SnInv ==
    /\ SnTyped
    /\ \A s \in SnapIds : SnKept(s)
    /\ \A p \in Operations, s \in SnapIds : snapOp[p].id = {s} => SnOk(p, snapOp[p].kind, snapOp[p].step, s)

(* What p does to identity u leaves the knowledge of another operation q:    *)
(* p changes nothing there, marks the record, or has the lock.               *)
LEMMA SnOthers ==
    ASSUME SnInv, NEW p \in Operations, NEW q \in Operations, q # p, NEW u \in SnapIds,
           snapOp'[q] = snapOp[q], snapOp[q].id = {u},
           snapWriter[u] = {q} => snapWriter'[u] = {q},
           q \in snapReaders[u] => q \in snapReaders'[u],
           u \in snapIssued => u \in snapIssued',
           \/ snapRec'[u] = snapRec[u] /\ snapStage'[u] = snapStage[u] /\ snapDir'[u] = snapDir[u]
           \/ /\ snapRec[u] \in {"ready", "deleting"} /\ snapRec'[u] = "deleting"
              /\ snapStage'[u] = snapStage[u] /\ snapDir'[u] = snapDir[u]
           \/ snapWriter[u] = {p} /\ (SnRemover(q, u) => snapRec'[u] \in {"deleting", "none"})
    PROVE  SnOk(q, snapOp[q].kind, snapOp[q].step, u)'
<1> DEFINE k == snapOp[q].kind
           t == snapOp[q].step
<1>1. SnOk(q, k, t, u) /\ SnKept(u)
  BY DEF SnInv
<1>2. k \in SnCaptures => u \in snapIssued' /\ snapWriter'[u] = {q} /\ SnCap(k, t, snapRec'[u], snapStage'[u], snapDir'[u])
  BY <1>1 DEF SnOk, SnCap
<1>3. k = "remove" => /\ u \in snapIssued' /\ snapRec'[u] \in {"deleting", "none"}
                      /\ t # "lock" => snapWriter'[u] = {q}
  BY <1>1 DEF SnOk, SnRemover
<1>4. k = "collect" /\ t # "delete" => /\ snapWriter'[u] = {q}
                                       /\ t # "check" => snapRec'[u] \in {"none", "pending"}
  BY <1>1 DEF SnOk
<1>5. k \in {"restore", "read"} /\ t # "rlock" => /\ q \in snapReaders'[u]
                                                  /\ t # "validate" => snapDir'[u] = "whole"
  BY <1>1 DEF SnOk, SnKept
<1> QED
  BY <1>2, <1>3, <1>4, <1>5 DEF SnOk

LEMMA SnStep ==
    ASSUME SnInv, NEW p \in Operations, NEW s \in SnapIds, SnTyped',
           \A q \in Operations \ {p} : snapOp'[q] = snapOp[q],
           snapOp'[p].id = {} \/ snapOp'[p].id = {s},
           \A u \in SnapIds \ {s} :
               snapRec'[u] = snapRec[u] /\ snapStage'[u] = snapStage[u] /\ snapDir'[u] = snapDir[u],
           snapIssued \subseteq snapIssued',
           \A q \in Operations \ {p}, u \in SnapIds : snapWriter[u] = {q} => snapWriter'[u] = {q},
           \A q \in Operations \ {p}, u \in SnapIds : q \in snapReaders[u] => q \in snapReaders'[u],
           \A u \in SnapIds : snapReaders'[u] # {} => snapWriter'[u] = {},
           snapRec'[s] = "ready" => snapDir'[s] = "whole",
           snapRec'[s] # "none" => s \in snapIssued',
           \/ snapRec'[s] = snapRec[s] /\ snapStage'[s] = snapStage[s] /\ snapDir'[s] = snapDir[s]
           \/ /\ snapRec[s] \in {"ready", "deleting"} /\ snapRec'[s] = "deleting"
              /\ snapStage'[s] = snapStage[s] /\ snapDir'[s] = snapDir[s]
           \/ /\ snapWriter[s] = {p}
              /\ snapRec[s] = "deleting" => \/ snapRec'[s] = "deleting"
                                            \/ snapRec'[s] = "none" /\ ~SnCaptor(p, s)'
              /\ snapRec[s] = "none" => snapRec'[s] = "none" \/ SnCaptor(p, s),
           snapOp'[p].id = {s} => SnOk(p, snapOp[p].kind, snapOp[p].step, s)',
           SnCaptor(p, s)' => SnCaptor(p, s) \/ s \notin snapIssued,
           SnRemover(p, s)' => SnRemover(p, s) \/ snapRec'[s] = "deleting"
    PROVE  SnInv'
<1>1. ASSUME NEW q \in Operations, SnRemover(q, s)
      PROVE  s \in snapIssued /\ snapRec[s] \in {"deleting", "none"}
  BY <1>1 DEF SnInv, SnOk, SnRemover
<1>2. ASSUME NEW q \in Operations, SnCaptor(q, s)
      PROVE  snapWriter[s] = {q}
  BY <1>2 DEF SnInv, SnOk, SnCaptor
<1>3. \A c, r \in Operations : SnCaptor(c, s) /\ SnRemover(r, s) => snapRec[s] = "deleting"
  BY DEF SnInv, SnKept
<1>4. ASSUME NEW q \in Operations, NEW u \in SnapIds, snapOp'[q].id = {u}
      PROVE  SnOk(q, snapOp[q].kind, snapOp[q].step, u)'
  <2>1. CASE q = p
    <3>1. u = s
      BY SMTT(30), <1>4, <2>1
    <3> QED
      BY <3>1, <2>1, <1>4
  <2>2. CASE q # p
    <3>1. snapOp'[q] = snapOp[q] /\ snapOp[q].id = {u}
      BY <2>2, <1>4
    <3>2. /\ snapWriter[u] = {q} => snapWriter'[u] = {q}
          /\ q \in snapReaders[u] => q \in snapReaders'[u]
          /\ u \in snapIssued => u \in snapIssued'
      BY <2>2
    <3>3. CASE u # s
      BY <3>1, <3>2, <3>3, <2>2, SnOthers
    <3>4. CASE u = s
      <4>1. SnRemover(q, s) => s \in snapIssued /\ snapRec[s] \in {"deleting", "none"}
        BY <1>1
      <4>2. SnRemover(q, s) /\ snapRec[s] = "none" => ~SnCaptor(p, s)
        BY <1>3
      <4>3. \/ snapRec'[s] = snapRec[s] /\ snapStage'[s] = snapStage[s] /\ snapDir'[s] = snapDir[s]
            \/ /\ snapRec[s] \in {"ready", "deleting"} /\ snapRec'[s] = "deleting"
               /\ snapStage'[s] = snapStage[s] /\ snapDir'[s] = snapDir[s]
            \/ snapWriter[s] = {p} /\ (SnRemover(q, s) => snapRec'[s] \in {"deleting", "none"})
        BY <4>1, <4>2
      <4> QED
        BY <3>1, <3>2, <3>4, <4>3, <2>2, SnOthers
    <3> QED
      BY <3>3, <3>4
  <2> QED
    BY <2>1, <2>2
<1>5. ASSUME NEW c \in Operations, NEW r \in Operations, SnCaptor(c, s)', SnRemover(r, s)'
      PROVE  snapRec'[s] = "deleting"
  <2>1. c # r
    BY <1>5 DEF SnCaptor, SnRemover, SnCaptures
  <2>2. c # p => SnCaptor(c, s)
    BY <1>5 DEF SnCaptor
  <2>3. r # p => SnRemover(r, s)
    BY <1>5 DEF SnRemover
  <2>4. CASE c = p
    <3>1. SnCaptor(p, s) /\ snapRec[s] = "deleting"
      BY <2>1, <2>3, <2>4, <1>1, <1>3, <1>5
    <3> QED
      BY <3>1, <2>4, <1>5
  <2>5. CASE c # p
    <3>1. snapWriter[s] # {p}
      BY SMTT(30), <2>2, <2>5, <1>2
    <3>2. CASE r = p
      BY <3>1, <3>2, <2>2, <2>5, <1>3, <1>5
    <3>3. CASE r # p
      BY <3>1, <3>3, <2>2, <2>3, <2>5, <1>3
    <3> QED
      BY <3>2, <3>3
  <2> QED
    BY <2>4, <2>5
<1>6. SnKept(s)'
  BY <1>5 DEF SnKept
<1>7. ASSUME NEW u \in SnapIds, u # s PROVE SnKept(u)'
  <2>1. SnKept(u)
    BY DEF SnInv
  <2>2. ASSUME NEW c \in Operations, NEW r \in Operations, SnCaptor(c, u)', SnRemover(r, u)'
        PROVE  snapRec'[u] = "deleting"
    <3>1. c # p /\ r # p
      BY SMTT(30), <2>2, <1>7 DEF SnCaptor, SnRemover
    <3>2. SnCaptor(c, u) /\ SnRemover(r, u)
      BY <3>1, <2>2 DEF SnCaptor, SnRemover
    <3> QED
      BY <3>2, <2>1, <1>7 DEF SnKept
  <2> QED
    BY <2>1, <2>2, <1>7 DEF SnKept
<1> QED
  BY <1>4, <1>6, <1>7 DEF SnInv

LEMMA SnUnchanged ==
    ASSUME SnInv, UNCHANGED <<snapRec, snapStage, snapDir, snapIssued, snapWriter, snapReaders, snapOp>>
    PROVE  SnInv'
BY SMTT(30) DEF SnInv, SnTyped, SnKept, SnOk, SnCaptor, SnRemover

LEMMA SnInit == Snap!Init => SnInv
<1> SUFFICES ASSUME Snap!Init PROVE SnInv
  OBVIOUS
<1>1. \A p \in Operations : snapOp[p] = [kind |-> "idle", step |-> "idle", id |-> {}, off |-> FALSE]
  BY DEF Snap!Init, Snap!Idle
<1>2. [kind |-> "idle", step |-> "idle", id |-> {}, off |-> FALSE] \in SnOps
  BY DEF SnOps, SnKinds, SnSteps
<1>3. SnTyped
  BY <1>1, <1>2 DEF Snap!Init, SnTyped
<1>4. ASSUME NEW s \in SnapIds PROVE SnKept(s)
  BY SMTT(30), <1>1 DEF Snap!Init, SnKept, SnCaptor, SnRemover
<1> QED
  BY SMTT(30), <1>1, <1>3, <1>4 DEF SnInv

LEMMA SnGoto ==
    ASSUME SnInv, NEW p \in Operations, NEW t \in SnSteps, Snap!Goto(p, t)
    PROVE  /\ snapOp' \in [Operations -> SnOps]
           /\ \A q \in Operations \ {p} : snapOp'[q] = snapOp[q]
           /\ snapOp'[p].kind = snapOp[p].kind /\ snapOp'[p].step = t /\ snapOp'[p].id = snapOp[p].id
<1>1. snapOp \in [Operations -> SnOps] /\ snapOp' = [snapOp EXCEPT ![p].step = t]
  BY DEF Snap!Goto, SnInv, SnTyped
<1>2. snapOp[p] \in SnOps
  BY <1>1
<1>3. [snapOp[p] EXCEPT !.step = t] \in SnOps
  BY <1>2 DEF SnOps
<1>4. snapOp' = [snapOp EXCEPT ![p] = [snapOp[p] EXCEPT !.step = t]]
  BY <1>1
<1>5. snapOp'[p] = [snapOp[p] EXCEPT !.step = t]
  BY <1>1, <1>4
<1> QED
  BY <1>1, <1>2, <1>3, <1>4, <1>5 DEF SnOps

LEMMA SnSets ==
    ASSUME SnInv, NEW p \in Operations, NEW o \in SnOps, snapOp' = [snapOp EXCEPT ![p] = o]
    PROVE  /\ snapOp' \in [Operations -> SnOps]
           /\ \A q \in Operations \ {p} : snapOp'[q] = snapOp[q]
           /\ snapOp'[p] = o
BY DEF SnInv, SnTyped

LEMMA SnIdle == Snap!Idle \in SnOps /\ Snap!Idle.id = {} /\ Snap!Idle.kind = "idle"
BY DEF Snap!Idle, SnOps, SnKinds, SnSteps

(* Releasing every lock of p.                                                *)
LEMMA SnUnlock ==
    ASSUME SnInv, NEW p \in Operations, Snap!Unlock(p)
    PROVE  /\ snapWriter' \in [SnapIds -> SUBSET Operations] /\ snapReaders' \in [SnapIds -> SUBSET Operations]
           /\ \A q \in Operations \ {p}, u \in SnapIds : snapWriter[u] = {q} => snapWriter'[u] = {q}
           /\ \A q \in Operations \ {p}, u \in SnapIds : q \in snapReaders[u] => q \in snapReaders'[u]
           /\ \A u \in SnapIds : snapReaders'[u] # {} => snapWriter'[u] = {}
<1>1. /\ snapWriter' = [s \in SnapIds |-> snapWriter[s] \ {p}]
      /\ snapReaders' = [s \in SnapIds |-> snapReaders[s] \ {p}]
  BY DEF Snap!Unlock
<1>2. \A u \in SnapIds : snapReaders[u] # {} => snapWriter[u] = {}
  BY DEF SnInv, SnKept
<1>3. snapWriter' \in [SnapIds -> SUBSET Operations] /\ snapReaders' \in [SnapIds -> SUBSET Operations]
  BY <1>1 DEF SnInv, SnTyped
<1>4. \A q \in Operations \ {p}, u \in SnapIds : snapWriter[u] = {q} => snapWriter'[u] = {q}
  BY <1>1
<1>5. \A q \in Operations \ {p}, u \in SnapIds : q \in snapReaders[u] => q \in snapReaders'[u]
  BY <1>1
<1>6. \A u \in SnapIds : snapReaders'[u] # {} => snapWriter'[u] = {}
  BY <1>1, <1>2
<1> QED
  BY <1>3, <1>4, <1>5, <1>6

LEMMA SnStays ==
    ASSUME SnInv, NEW p \in Operations, UNCHANGED <<snapWriter, snapReaders>>
    PROVE  /\ snapWriter' \in [SnapIds -> SUBSET Operations] /\ snapReaders' \in [SnapIds -> SUBSET Operations]
           /\ \A q \in Operations \ {p}, u \in SnapIds : snapWriter[u] = {q} => snapWriter'[u] = {q}
           /\ \A q \in Operations \ {p}, u \in SnapIds : q \in snapReaders[u] => q \in snapReaders'[u]
           /\ \A u \in SnapIds : snapReaders'[u] # {} => snapWriter'[u] = {}
BY DEF SnInv, SnTyped, SnKept

SnRecs == {"none", "pending", "ready", "deleting"}
SnContents == {"none", "partial", "whole"}

(* Only what belongs to s changes.                                           *)
SnAlters(s) ==
    /\ snapRec' \in [SnapIds -> SnRecs]
    /\ snapStage' \in [SnapIds -> SnContents] /\ snapDir' \in [SnapIds -> SnContents]
    /\ \A u \in SnapIds \ {s} :
           snapRec'[u] = snapRec[u] /\ snapStage'[u] = snapStage[u] /\ snapDir'[u] = snapDir[u]

(* A step within an operation that changes at most what its lock protects.   *)
LEMMA SnMoves ==
    ASSUME SnInv, NEW p \in Operations, NEW s \in SnapIds, NEW k, NEW t \in SnSteps,
           snapOp[p].id = {s}, snapOp[p].kind = k, Snap!Goto(p, t),
           UNCHANGED <<snapIssued, snapWriter, snapReaders>>,
           SnAlters(s),
           \/ snapRec'[s] = snapRec[s] /\ snapStage'[s] = snapStage[s] /\ snapDir'[s] = snapDir[s]
           \/ /\ snapWriter[s] = {p} /\ (snapRec[s] = "deleting" => snapRec'[s] = "deleting")
              /\ snapRec[s] = "none" => snapRec'[s] = "none" \/ k \in SnCaptures,
           snapRec'[s] = "ready" => snapDir'[s] = "whole",
           snapRec'[s] # "none" => s \in snapIssued,
           SnOk(p, k, t, s)'
    PROVE  SnInv'
<1>1. /\ snapOp' \in [Operations -> SnOps] /\ \A q \in Operations \ {p} : snapOp'[q] = snapOp[q]
      /\ snapOp'[p].kind = k /\ snapOp'[p].step = t /\ snapOp'[p].id = {s}
  BY SnGoto
<1>2. \A u \in SnapIds \ {s} :
          snapRec'[u] = snapRec[u] /\ snapStage'[u] = snapStage[u] /\ snapDir'[u] = snapDir[u]
  BY DEF SnAlters
<1>3. SnTyped'
  BY <1>1 DEF SnInv, SnTyped, SnAlters, SnRecs, SnContents
<1>4. SnOk(p, snapOp[p].kind, snapOp[p].step, s)'
  BY <1>1
<1>5. /\ \A q \in Operations \ {p}, u \in SnapIds : snapWriter[u] = {q} => snapWriter'[u] = {q}
      /\ \A q \in Operations \ {p}, u \in SnapIds : q \in snapReaders[u] => q \in snapReaders'[u]
      /\ \A u \in SnapIds : snapReaders'[u] # {} => snapWriter'[u] = {}
  BY SnStays
<1>6. /\ SnCaptor(p, s)' => SnCaptor(p, s)
      /\ SnRemover(p, s)' => SnRemover(p, s)
      /\ k \in SnCaptures => SnCaptor(p, s)
  BY <1>1 DEF SnCaptor, SnRemover
<1>7. \/ snapRec'[s] = snapRec[s] /\ snapStage'[s] = snapStage[s] /\ snapDir'[s] = snapDir[s]
      \/ /\ snapWriter[s] = {p}
         /\ snapRec[s] = "deleting" => snapRec'[s] = "deleting"
         /\ snapRec[s] = "none" => snapRec'[s] = "none" \/ SnCaptor(p, s)
  BY <1>2, <1>6
<1>8. /\ snapIssued \subseteq snapIssued'
      /\ snapRec'[s] = "ready" => snapDir'[s] = "whole"
      /\ snapRec'[s] # "none" => s \in snapIssued'
  BY <1>2
<1> QED
  BY ONLY Zenon, SnInv, p \in Operations, s \in SnapIds, <1>1, <1>2, <1>3, <1>4, <1>5, <1>6, <1>7, <1>8, SnStep

(* An operation that ends, with what it changed under its lock.              *)
LEMMA SnLeaves ==
    ASSUME SnInv, NEW p \in Operations, NEW s \in SnapIds, Snap!Return(p),
           UNCHANGED <<snapIssued>>,
           SnAlters(s),
           \/ snapRec'[s] = snapRec[s] /\ snapStage'[s] = snapStage[s] /\ snapDir'[s] = snapDir[s]
           \/ /\ snapWriter[s] = {p} /\ (snapRec[s] = "deleting" => snapRec'[s] \in {"deleting", "none"})
              /\ snapRec[s] = "none" => snapRec'[s] = "none",
           snapRec'[s] = "ready" => snapDir'[s] = "whole",
           snapRec'[s] # "none" => s \in snapIssued
    PROVE  SnInv'
<1>1. snapOp' = [snapOp EXCEPT ![p] = Snap!Idle] /\ Snap!Unlock(p)
  BY DEF Snap!Return
<1>2. /\ snapOp' \in [Operations -> SnOps] /\ \A q \in Operations \ {p} : snapOp'[q] = snapOp[q]
      /\ snapOp'[p].id = {}
  BY <1>1, SnIdle, SnSets
<1>3. \A u \in SnapIds \ {s} :
          snapRec'[u] = snapRec[u] /\ snapStage'[u] = snapStage[u] /\ snapDir'[u] = snapDir[u]
  BY DEF SnAlters
<1>4. /\ snapWriter' \in [SnapIds -> SUBSET Operations] /\ snapReaders' \in [SnapIds -> SUBSET Operations]
      /\ \A q \in Operations \ {p}, u \in SnapIds : snapWriter[u] = {q} => snapWriter'[u] = {q}
      /\ \A q \in Operations \ {p}, u \in SnapIds : q \in snapReaders[u] => q \in snapReaders'[u]
      /\ \A u \in SnapIds : snapReaders'[u] # {} => snapWriter'[u] = {}
  BY <1>1, SnUnlock
<1>5. SnTyped'
  BY <1>2, <1>4 DEF SnInv, SnTyped, SnAlters, SnRecs, SnContents
<1>6. {} # {s}
  OBVIOUS
<1>7. /\ ~SnCaptor(p, s)' /\ ~SnRemover(p, s)' /\ snapOp'[p].id # {s}
  BY <1>2, <1>6 DEF SnCaptor, SnRemover
<1>8. \/ snapRec'[s] = snapRec[s] /\ snapStage'[s] = snapStage[s] /\ snapDir'[s] = snapDir[s]
      \/ /\ snapRec[s] \in {"ready", "deleting"} /\ snapRec'[s] = "deleting"
         /\ snapStage'[s] = snapStage[s] /\ snapDir'[s] = snapDir[s]
      \/ /\ snapWriter[s] = {p}
         /\ snapRec[s] = "deleting" => \/ snapRec'[s] = "deleting"
                                       \/ snapRec'[s] = "none" /\ ~SnCaptor(p, s)'
         /\ snapRec[s] = "none" => snapRec'[s] = "none" \/ SnCaptor(p, s)
  BY <1>3, <1>7
<1>9. /\ snapIssued \subseteq snapIssued'
      /\ snapRec'[s] = "ready" => snapDir'[s] = "whole"
      /\ snapRec'[s] # "none" => s \in snapIssued'
  BY <1>3
<1>10. /\ snapOp'[p].id = {} \/ snapOp'[p].id = {s}
       /\ snapOp'[p].id = {s} => SnOk(p, snapOp[p].kind, snapOp[p].step, s)'
       /\ SnCaptor(p, s)' => SnCaptor(p, s) \/ s \notin snapIssued
       /\ SnRemover(p, s)' => SnRemover(p, s) \/ snapRec'[s] = "deleting"
  BY <1>2, <1>7
<1> QED
  BY ONLY ZenonT(30), SnInv, p \in Operations, s \in SnapIds, <1>2, <1>3, <1>4, <1>5, <1>8, <1>9, <1>10, SnStep

(* The same when nothing of the captures changes.                            *)
LEMMA SnSame ==
    ASSUME SnInv, NEW s \in SnapIds, UNCHANGED <<snapRec, snapStage, snapDir>>
    PROVE  /\ SnAlters(s)
           /\ snapRec'[s] = snapRec[s] /\ snapStage'[s] = snapStage[s] /\ snapDir'[s] = snapDir[s]
           /\ snapRec'[s] = "ready" => snapDir'[s] = "whole"
           /\ snapRec'[s] # "none" => s \in snapIssued
BY DEF SnInv, SnTyped, SnKept, SnAlters, SnRecs, SnContents

LEMMA SnGoes ==
    ASSUME SnInv, NEW p \in Operations, NEW s \in SnapIds, NEW k, NEW t \in SnSteps,
           snapOp[p].id = {s}, snapOp[p].kind = k, Snap!Goto(p, t),
           UNCHANGED <<snapRec, snapStage, snapDir, snapIssued, snapWriter, snapReaders>>,
           SnOk(p, k, t, s)
    PROVE  SnInv'
<1>1. SnOk(p, k, t, s)'
  BY DEF SnOk
<1> QED
  BY <1>1, SnSame, SnMoves

LEMMA SnReturns ==
    ASSUME SnInv, NEW p \in Operations, Snap!Return(p),
           UNCHANGED <<snapRec, snapStage, snapDir, snapIssued>>
    PROVE  SnInv'
<1>1. CASE SnapIds = {}
  BY <1>1, SnSets, SnIdle, SnUnlock DEF SnInv, SnTyped, Snap!Return
<1>2. CASE SnapIds # {}
  <2>1. PICK s \in SnapIds : TRUE
    BY <1>2
  <2> QED
    BY <2>1, SnSame, SnLeaves
<1> QED
  BY <1>1, <1>2

LEMMA SnAt ==
    ASSUME SnInv, NEW p \in Operations, NEW K, NEW s \in SnapIds, NEW t, Snap!At(p, K, s, t)
    PROVE  /\ snapOp[p].id = {s} /\ snapOp[p].kind \in K /\ snapOp[p].step = t
           /\ SnOk(p, snapOp[p].kind, t, s) /\ snapOp[p] \in SnOps
BY DEF Snap!At, SnInv, SnTyped

LEMMA SnCapGoes ==
    ASSUME SnInv, NEW p \in Operations, NEW s \in SnapIds, NEW t \in SnSteps,
           snapOp[p].id = {s}, snapOp[p].kind \in SnCaptures, Snap!Goto(p, t),
           UNCHANGED <<snapRec, snapStage, snapDir, snapIssued, snapWriter, snapReaders>>,
           SnCap(snapOp[p].kind, t, snapRec[s], snapStage[s], snapDir[s])
    PROVE  SnInv'
<1>1. SnOk(p, snapOp[p].kind, snapOp[p].step, s)
  BY DEF SnInv
<1>2. SnOk(p, snapOp[p].kind, t, s)
  BY <1>1 DEF SnOk, SnCaptures
<1> QED
  BY <1>2, SnGoes

LEMMA SnCapAt ==
    ASSUME SnInv, NEW p \in Operations, NEW s \in SnapIds,
           snapOp[p].id = {s}, snapOp[p].kind \in SnCaptures
    PROVE  /\ s \in snapIssued /\ snapWriter[s] = {p} /\ SnCaptor(p, s)
           /\ SnCap(snapOp[p].kind, snapOp[p].step, snapRec[s], snapStage[s], snapDir[s])
           /\ snapRec[s] \in SnRecs /\ snapStage[s] \in SnContents /\ snapDir[s] \in SnContents
<1>1. SnOk(p, snapOp[p].kind, snapOp[p].step, s)
  BY DEF SnInv
<1>2. snapRec[s] \in SnRecs /\ snapStage[s] \in SnContents /\ snapDir[s] \in SnContents
  BY DEF SnInv, SnTyped, SnRecs, SnContents
<1> QED
  BY <1>1, <1>2 DEF SnOk, SnCaptor

(* The steps of a capture that touch the guest and the sandbox only.         *)
LEMMA SnCapLocal ==
    ASSUME SnInv, NEW p \in Operations, NEW s \in SnapIds,
           \/ Snap!PrepareStageFailed(p, s) \/ Snap!Pause(p, s) \/ Snap!PauseReplyLost(p, s)
           \/ Snap!PauseFailed(p, s) \/ Snap!FillFailed(p, s) \/ Snap!FillInterrupted(p, s)
           \/ Snap!HibernateBeginStop(p, s) \/ Snap!HibernateStop(p, s)
    PROVE  SnInv'
<1> DEFINE Stays == UNCHANGED <<snapRec, snapStage, snapDir, snapIssued, snapWriter, snapReaders>>
<1>1. CASE Snap!PrepareStageFailed(p, s)
  <2>1. Snap!At(p, {"save", "hibernate"}, s, "stage") /\ Snap!Goto(p, "forget") /\ Stays
    BY <1>1 DEF Snap!PrepareStageFailed, Snap!files, Snap!locks
  <2>2. /\ snapOp[p].id = {s} /\ snapOp[p].kind \in SnCaptures
        /\ SnCap(snapOp[p].kind, "forget", snapRec[s], snapStage[s], snapDir[s])
    BY <2>1, SnCapAt DEF Snap!At, SnCaptures, SnCap, SnRecs
  <2> QED
    BY <2>1, <2>2, SnCapGoes DEF SnSteps
<1>2. CASE Snap!Pause(p, s)
  <2>1. Snap!At(p, {"save", "hibernate"}, s, "pause") /\ Snap!Goto(p, "fill") /\ Stays
    BY <1>2 DEF Snap!Pause, Snap!files, Snap!locks
  <2>2. /\ snapOp[p].id = {s} /\ snapOp[p].kind \in SnCaptures
        /\ SnCap(snapOp[p].kind, "fill", snapRec[s], snapStage[s], snapDir[s])
    BY <2>1, SnCapAt DEF Snap!At, SnCaptures, SnCap, SnRecs
  <2> QED
    BY <2>1, <2>2, SnCapGoes DEF SnSteps
<1>3. CASE Snap!PauseReplyLost(p, s) \/ Snap!PauseFailed(p, s)
  <2>1. Snap!At(p, {"save", "hibernate"}, s, "pause") /\ Snap!Goto(p, "forget") /\ Stays
    BY <1>3 DEF Snap!PauseReplyLost, Snap!PauseFailed, Snap!files, Snap!locks
  <2>2. /\ snapOp[p].id = {s} /\ snapOp[p].kind \in SnCaptures
        /\ SnCap(snapOp[p].kind, "forget", snapRec[s], snapStage[s], snapDir[s])
    BY <2>1, SnCapAt DEF Snap!At, SnCaptures, SnCap, SnRecs
  <2> QED
    BY <2>1, <2>2, SnCapGoes DEF SnSteps
<1>4. CASE \/ Snap!At(p, {"save", "hibernate"}, s, "fill") /\ Snap!Goto(p, "resumeFailed") /\ Stays
           \/ Snap!At(p, {"import"}, s, "fill") /\ Snap!Goto(p, "unstage") /\ Stays
  <2>1. CASE Snap!At(p, {"save", "hibernate"}, s, "fill") /\ Snap!Goto(p, "resumeFailed") /\ Stays
    <3>1. /\ snapOp[p].id = {s} /\ snapOp[p].kind \in SnCaptures
          /\ SnCap(snapOp[p].kind, "resumeFailed", snapRec[s], snapStage[s], snapDir[s])
      BY <2>1, SnCapAt DEF Snap!At, SnCaptures, SnCap, SnRecs
    <3> QED
      BY <2>1, <3>1, SnCapGoes DEF SnSteps
  <2>2. CASE Snap!At(p, {"import"}, s, "fill") /\ Snap!Goto(p, "unstage") /\ Stays
    <3>1. /\ snapOp[p].id = {s} /\ snapOp[p].kind \in SnCaptures
          /\ SnCap(snapOp[p].kind, "unstage", snapRec[s], snapStage[s], snapDir[s])
      BY <2>2, SnCapAt DEF Snap!At, SnCaptures, SnCap, SnRecs
    <3> QED
      BY <2>2, <3>1, SnCapGoes DEF SnSteps
  <2> QED
    BY <1>4, <2>1, <2>2
<1>5. CASE Snap!FillFailed(p, s) \/ Snap!FillInterrupted(p, s)
  BY <1>4, <1>5 DEF Snap!FillFailed, Snap!FillInterrupted, Snap!files, Snap!locks
<1>6. CASE Snap!HibernateBeginStop(p, s) \/ Snap!HibernateStop(p, s)
  <2>1. PICK t \in {"stop", "resumeKeep", "markStopped"} :
            /\ Snap!At(p, {"hibernate"}, s, "beginStop") \/ Snap!At(p, {"hibernate"}, s, "stop")
            /\ Snap!Goto(p, t) /\ Stays
    BY <1>6 DEF Snap!HibernateBeginStop, Snap!HibernateStop, Snap!files, Snap!locks
  <2>2. /\ snapOp[p].id = {s} /\ snapOp[p].kind \in SnCaptures
        /\ SnCap(snapOp[p].kind, t, snapRec[s], snapStage[s], snapDir[s])
    BY <2>1, SnCapAt DEF Snap!At, SnCaptures, SnCap, SnRecs
  <2>3. t \in SnSteps
    BY DEF SnSteps
  <2> QED
    BY <2>1, <2>2, <2>3, SnCapGoes
<1> QED
  BY <1>1, <1>2, <1>3, <1>5, <1>6

LEMMA SnResume ==
    ASSUME SnInv, NEW p \in Operations, NEW s \in SnapIds, Snap!Resume(p, s) \/ Snap!ResumeLost(p, s)
    PROVE  SnInv'
<1> DEFINE Stays == UNCHANGED <<snapRec, snapStage, snapDir, snapIssued>>
<1>1. PICK from \in {"resume", "resumeFailed", "resumeKeep"} :
          /\ Snap!At(p, {"save", "hibernate"}, s, from) /\ Stays
          /\ \/ Snap!Return(p)
             \/ /\ from = "resume" /\ Snap!Goto(p, "publish") /\ UNCHANGED <<snapWriter, snapReaders>>
             \/ /\ from # "resumeKeep" /\ Snap!Goto(p, "forget") /\ UNCHANGED <<snapWriter, snapReaders>>
  BY DEF Snap!Resume, Snap!ResumeLost, Snap!files, Snap!locks
<1>2. CASE Snap!Return(p)
  BY <1>1, <1>2, SnReturns
<1>3. CASE from = "resume" /\ Snap!Goto(p, "publish") /\ UNCHANGED <<snapWriter, snapReaders>>
  <2>1. /\ snapOp[p].id = {s} /\ snapOp[p].kind \in SnCaptures
        /\ SnCap(snapOp[p].kind, "publish", snapRec[s], snapStage[s], snapDir[s])
    BY <1>1, <1>3, SnCapAt DEF Snap!At, SnCaptures, SnCap, SnRecs
  <2> QED
    BY <1>1, <1>3, <2>1, SnCapGoes DEF SnSteps
<1>4. CASE from # "resumeKeep" /\ Snap!Goto(p, "forget") /\ UNCHANGED <<snapWriter, snapReaders>>
  <2>1. /\ snapOp[p].id = {s} /\ snapOp[p].kind \in SnCaptures
        /\ SnCap(snapOp[p].kind, "forget", snapRec[s], snapStage[s], snapDir[s])
    BY <1>1, <1>4, SnCapAt DEF Snap!At, SnCaptures, SnCap, SnRecs
  <2> QED
    BY <1>1, <1>4, <2>1, SnCapGoes DEF SnSteps
<1> QED
  BY <1>1, <1>2, <1>3, <1>4

(* At a step of a capture: what it knows, and the types of what it holds.    *)
SnCaptureAt(p, s, k, t) ==
    /\ snapOp[p].id = {s} /\ snapOp[p].kind = k /\ k \in SnCaptures /\ s \in snapIssued
    /\ snapWriter[s] = {p} /\ SnCap(k, t, snapRec[s], snapStage[s], snapDir[s])
    /\ snapRec[s] \in SnRecs /\ snapStage[s] \in SnContents /\ snapDir[s] \in SnContents
    /\ snapRec[s] = "ready" => snapDir[s] = "whole"

LEMMA SnCapturing ==
    ASSUME SnInv, NEW p \in Operations, NEW s \in SnapIds, NEW t,
           Snap!At(p, SnCaptures, s, t)
    PROVE  SnCaptureAt(p, s, snapOp[p].kind, t)
<1>1. snapOp[p].id = {s} /\ snapOp[p].kind \in SnCaptures /\ snapOp[p].step = t
  BY DEF Snap!At
<1>2. snapRec[s] = "ready" => snapDir[s] = "whole"
  BY DEF SnInv, SnKept
<1> QED
  BY <1>1, <1>2, SnCapAt DEF SnCaptureAt

LEMMA SnAtAny ==
    ASSUME NEW p, NEW s, NEW t
    PROVE  /\ Snap!At(p, {"save", "hibernate"}, s, t) =>
                  Snap!At(p, SnCaptures, s, t) /\ snapOp[p].kind # "import"
           /\ Snap!At(p, {"import"}, s, t) => Snap!At(p, SnCaptures, s, t) /\ snapOp[p].kind = "import"
           /\ Snap!At(p, {"hibernate"}, s, t) => Snap!At(p, SnCaptures, s, t)
           /\ Snap!At(p, {"save", "hibernate", "import"}, s, t) => Snap!At(p, SnCaptures, s, t)
BY DEF Snap!At, SnCaptures

LEMMA SnCapWrites ==
    ASSUME SnInv, NEW p \in Operations, NEW s \in SnapIds, NEW k, NEW f, NEW t \in SnSteps,
           SnCaptureAt(p, s, k, f), Snap!Goto(p, t),
           UNCHANGED <<snapIssued, snapWriter, snapReaders>>, SnAlters(s),
           snapRec[s] = "deleting" => snapRec'[s] = "deleting",
           snapRec'[s] = "ready" => snapDir'[s] = "whole",
           SnCap(k, t, snapRec'[s], snapStage'[s], snapDir'[s])
    PROVE  SnInv'
<1>1. k \in SnCaptures /\ snapOp[p].id = {s} /\ snapOp[p].kind = k /\ snapWriter[s] = {p} /\ s \in snapIssued
  BY DEF SnCaptureAt
<1>2. SnOk(p, k, t, s)'
  BY <1>1 DEF SnOk, SnCaptures
<1>3. snapRec[s] = "none" => snapRec'[s] = "none" \/ k \in SnCaptures
  BY <1>1
<1> QED
  BY <1>1, <1>2, <1>3, SnMoves

LEMMA SnReserve ==
    ASSUME SnInv, NEW p \in Operations, NEW s \in SnapIds, Snap!Reserve(p, s)
    PROVE  SnInv'
<1>1. /\ snapRec[s] = "none" /\ snapRec' = [snapRec EXCEPT ![s] = "pending"]
      /\ UNCHANGED <<snapStage, snapDir, snapIssued, snapWriter, snapReaders>>
  BY DEF Snap!Reserve, Snap!files, Snap!locks, Snap!Set
<1>2. PICK t \in {"stage", "publish"} :
          /\ Snap!Goto(p, t) /\ Snap!At(p, SnCaptures, s, "reserve")
          /\ t = "publish" <=> snapOp[p].kind = "import"
  BY SnAtAny DEF Snap!Reserve
<1>3. PICK k : k = snapOp[p].kind
  OBVIOUS
<1>4. SnCaptureAt(p, s, k, "reserve")
  BY <1>2, <1>3, SnCapturing
<1>5. SnAlters(s) /\ snapRec'[s] = "pending" /\ snapStage'[s] = snapStage[s] /\ snapDir'[s] = snapDir[s]
  BY <1>1, <1>4 DEF SnAlters, SnCaptureAt, SnInv, SnTyped, SnRecs, SnContents
<1>6. SnCap(k, t, snapRec'[s], snapStage'[s], snapDir'[s])
  BY <1>2, <1>3, <1>4, <1>5 DEF SnCap, SnCaptureAt
<1>7. t \in SnSteps
  BY DEF SnSteps
<1>8. /\ snapRec'[s] = "ready" => snapDir'[s] = "whole"
      /\ snapRec[s] = "deleting" => snapRec'[s] = "deleting"
  BY <1>1, <1>4, <1>5 DEF SnCaptureAt
<1> QED
  BY <1>1, <1>2, <1>3, <1>4, <1>5, <1>6, <1>7, <1>8, SnCapWrites

LEMMA SnReserveFailed ==
    ASSUME SnInv, NEW p \in Operations, NEW s \in SnapIds, Snap!ReserveFailed(p, s)
    PROVE  SnInv'
<1>1. UNCHANGED <<snapRec, snapStage, snapDir, snapIssued>>
  BY DEF Snap!ReserveFailed, Snap!files
<1>2. CASE Snap!Return(p)
  BY <1>1, <1>2, SnReturns
<1>3. CASE Snap!At(p, {"import"}, s, "reserve") /\ Snap!Goto(p, "unstage") /\ UNCHANGED Snap!locks
  <2>1. SnCaptureAt(p, s, snapOp[p].kind, "reserve")
    BY <1>3, SnAtAny, SnCapturing
  <2>2. SnCap(snapOp[p].kind, "unstage", snapRec[s], snapStage[s], snapDir[s])
    BY <2>1 DEF SnCap, SnCaptureAt
  <2>3. UNCHANGED <<snapWriter, snapReaders>>
    BY <1>3 DEF Snap!locks
  <2> QED
    BY <1>1, <1>3, <2>1, <2>2, <2>3, SnCapGoes DEF SnCaptureAt, SnSteps
<1> QED
  BY <1>2, <1>3 DEF Snap!ReserveFailed

LEMMA SnPrepareStage ==
    ASSUME SnInv, NEW p \in Operations, NEW s \in SnapIds, Snap!PrepareStage(p, s)
    PROVE  SnInv'
<1>1. /\ snapStage' = [snapStage EXCEPT ![s] = "partial"]
      /\ UNCHANGED <<snapRec, snapDir, snapIssued, snapWriter, snapReaders>>
  BY DEF Snap!PrepareStage, Snap!locks, Snap!Set
<1>2. PICK t \in {"pause", "fill"} :
          /\ Snap!Goto(p, t) /\ Snap!At(p, SnCaptures, s, "stage")
          /\ t = "fill" <=> snapOp[p].kind = "import"
  BY SnAtAny DEF Snap!PrepareStage
<1>3. PICK k : k = snapOp[p].kind
  OBVIOUS
<1>4. SnCaptureAt(p, s, k, "stage")
  BY <1>2, <1>3, SnCapturing
<1>5. SnAlters(s) /\ snapRec'[s] = snapRec[s] /\ snapStage'[s] = "partial" /\ snapDir'[s] = snapDir[s]
  BY <1>1, <1>4 DEF SnAlters, SnCaptureAt, SnInv, SnTyped, SnRecs, SnContents
<1>6. SnCap(k, t, snapRec'[s], snapStage'[s], snapDir'[s])
  BY <1>2, <1>3, <1>4, <1>5 DEF SnCap, SnCaptureAt
<1>7. t \in SnSteps
  BY DEF SnSteps
<1>8. /\ snapRec'[s] = "ready" => snapDir'[s] = "whole"
      /\ snapRec[s] = "deleting" => snapRec'[s] = "deleting"
  BY <1>1, <1>4, <1>5 DEF SnCaptureAt
<1> QED
  BY <1>1, <1>2, <1>3, <1>4, <1>5, <1>6, <1>7, <1>8, SnCapWrites

LEMMA SnFill ==
    ASSUME SnInv, NEW p \in Operations, NEW s \in SnapIds, Snap!Fill(p, s)
    PROVE  SnInv'
<1>1. /\ snapStage' = [snapStage EXCEPT ![s] = "whole"]
      /\ UNCHANGED <<snapRec, snapDir, snapIssued, snapWriter, snapReaders>>
  BY DEF Snap!Fill, Snap!locks, Snap!Set
<1>2. PICK k : k = snapOp[p].kind
  OBVIOUS
<1>3. SnCaptureAt(p, s, k, "fill")
  BY <1>2, SnAtAny, SnCapturing DEF Snap!Fill
<1>4. PICK t \in {"resume", "publish", "reserve"} :
          Snap!Goto(p, t) /\ (t = "reserve" <=> k = "import")
  BY <1>2, <1>3 DEF Snap!Fill, SnCaptureAt, SnCaptures
<1>5. SnAlters(s) /\ snapRec'[s] = snapRec[s] /\ snapStage'[s] = "whole" /\ snapDir'[s] = snapDir[s]
  BY <1>1, <1>3 DEF SnAlters, SnCaptureAt, SnInv, SnTyped, SnRecs, SnContents
<1>6. SnCap(k, t, snapRec'[s], snapStage'[s], snapDir'[s])
  BY <1>2, <1>3, <1>4, <1>5 DEF SnCap, SnCaptureAt
<1>7. t \in SnSteps
  BY DEF SnSteps
<1>8. /\ snapRec'[s] = "ready" => snapDir'[s] = "whole"
      /\ snapRec[s] = "deleting" => snapRec'[s] = "deleting"
  BY <1>1, <1>3, <1>5 DEF SnCaptureAt
<1> QED
  BY <1>1, <1>2, <1>3, <1>4, <1>5, <1>6, <1>7, <1>8, SnCapWrites

LEMMA SnPublish ==
    ASSUME SnInv, NEW p \in Operations, NEW s \in SnapIds,
           Snap!Publish(p, s) \/ Snap!PublishFailed(p, s)
    PROVE  SnInv'
<1>1. /\ UNCHANGED <<snapRec, snapIssued, snapWriter, snapReaders>>
      /\ Snap!At(p, SnCaptures, s, "publish")
      /\ \/ UNCHANGED <<snapStage, snapDir>>
         \/ snapDir' = [snapDir EXCEPT ![s] = snapStage[s]] /\ snapStage' = [snapStage EXCEPT ![s] = "none"]
  BY SnAtAny DEF Snap!Publish, Snap!PublishFailed, Snap!locks, Snap!Set
<1>2. PICK k : k = snapOp[p].kind
  OBVIOUS
<1>3. SnCaptureAt(p, s, k, "publish")
  BY <1>1, <1>2, SnCapturing
<1>4. PICK t \in {"commit", "forget", "resumeFailed"} :
          /\ Snap!Goto(p, t)
          /\ t = "commit" => snapDir' = [snapDir EXCEPT ![s] = snapStage[s]] /\ snapStage' = [snapStage EXCEPT ![s] = "none"]
  BY DEF Snap!Publish, Snap!PublishFailed, Snap!PersistFailed, Snap!Set
<1>5. t \in SnSteps
  BY DEF SnSteps
<1>6. CASE UNCHANGED <<snapStage, snapDir>> /\ t # "commit"
  <2>1. SnCap(k, t, snapRec[s], snapStage[s], snapDir[s])
    BY <1>3, <1>4, <1>6 DEF SnCap, SnCaptureAt
  <2> QED
    BY <1>1, <1>2, <1>3, <1>4, <1>5, <1>6, <2>1, SnCapGoes DEF SnCaptureAt
<1>7. CASE snapDir' = [snapDir EXCEPT ![s] = snapStage[s]] /\ snapStage' = [snapStage EXCEPT ![s] = "none"]
  <2>1. SnAlters(s) /\ snapRec'[s] = snapRec[s] /\ snapStage'[s] = "none" /\ snapDir'[s] = snapStage[s]
    BY <1>1, <1>3, <1>7 DEF SnAlters, SnCaptureAt, SnInv, SnTyped, SnRecs, SnContents
  <2>2. SnCap(k, t, snapRec'[s], snapStage'[s], snapDir'[s])
    BY <1>3, <1>4, <2>1 DEF SnCap, SnCaptureAt
  <2>3. /\ snapRec'[s] = "ready" => snapDir'[s] = "whole"
        /\ snapRec[s] = "deleting" => snapRec'[s] = "deleting"
    BY <1>3, <2>1 DEF SnCaptureAt, SnCap
  <2> QED
    BY <1>1, <1>3, <1>4, <1>5, <2>1, <2>2, <2>3, SnCapWrites
<1> QED
  BY <1>1, <1>4, <1>6, <1>7

LEMMA SnCommit ==
    ASSUME SnInv, NEW p \in Operations, NEW s \in SnapIds,
           Snap!Commit(p, s) \/ Snap!CommitFailed(p, s)
    PROVE  SnInv'
<1>1. /\ UNCHANGED <<snapStage, snapDir, snapIssued>> /\ Snap!At(p, SnCaptures, s, "commit")
      /\ snapRec' = snapRec \/ snapRec' = [snapRec EXCEPT ![s] = "ready"]
  BY SnAtAny DEF Snap!Commit, Snap!CommitFailed, Snap!files, Snap!Set
<1>2. PICK k : k = snapOp[p].kind
  OBVIOUS
<1>3. SnCaptureAt(p, s, k, "commit")
  BY <1>1, <1>2, SnCapturing
<1>4. /\ SnAlters(s) /\ snapRec'[s] \in {snapRec[s], "ready"}
      /\ snapStage'[s] = snapStage[s] /\ snapDir'[s] = snapDir[s]
  BY <1>1, <1>3 DEF SnAlters, SnCaptureAt, SnInv, SnTyped, SnRecs, SnContents
<1>5. /\ snapRec[s] = "pending" /\ snapDir'[s] = "whole" /\ s \in snapIssued /\ snapWriter[s] = {p}
  BY <1>3, <1>4 DEF SnCaptureAt, SnCap
<1>6. CASE Snap!Return(p)
  BY <1>1, <1>4, <1>5, <1>6, SnLeaves
<1>7. ASSUME NEW t \in {"beginStop", "resumeFailed", "forget"}, Snap!Goto(p, t),
             t = "beginStop" => snapRec'[s] = "ready", UNCHANGED <<snapWriter, snapReaders>>
      PROVE  SnInv'
  <2>1. SnCap(k, t, snapRec'[s], snapStage'[s], snapDir'[s])
    BY <1>3, <1>4, <1>5, <1>7 DEF SnCap
  <2>2. t \in SnSteps
    BY DEF SnSteps
  <2>3. snapRec[s] = "deleting" => snapRec'[s] = "deleting"
    BY <1>5
  <2> QED
    BY <1>1, <1>3, <1>4, <1>5, <1>7, <2>1, <2>2, <2>3, SnCapWrites
<1>8. CASE Snap!Commit(p, s)
  <2>1. snapRec'[s] = "ready"
    BY <1>8 DEF Snap!Commit, Snap!Set, SnInv, SnTyped
  <2>2. Snap!Return(p) \/ (Snap!Goto(p, "beginStop") /\ UNCHANGED <<snapWriter, snapReaders>>)
    BY <1>8 DEF Snap!Commit, Snap!locks
  <2> QED
    BY <2>1, <2>2, <1>6, <1>7
<1>9. CASE Snap!CommitFailed(p, s)
  <2>1. PICK t \in {"resumeFailed", "forget"} : Snap!Goto(p, t) /\ UNCHANGED <<snapWriter, snapReaders>>
    BY <1>9 DEF Snap!CommitFailed, Snap!PersistFailed, Snap!locks
  <2> QED
    BY <2>1, <1>7
<1> QED
  BY <1>8, <1>9

LEMMA SnForget ==
    ASSUME SnInv, NEW p \in Operations, NEW s \in SnapIds,
           Snap!Forget(p, s) \/ Snap!ForgetFailed(p, s)
    PROVE  SnInv'
<1>1. UNCHANGED <<snapStage, snapDir, snapIssued>> /\ Snap!At(p, SnCaptures, s, "forget")
  BY SnAtAny DEF Snap!Forget, Snap!ForgetFailed, Snap!files
<1>2. \/ Snap!Return(p) /\ UNCHANGED snapRec
      \/ /\ snapRec' = [snapRec EXCEPT ![s] = "none"] /\ snapRec[s] = "pending"
         /\ Snap!Goto(p, "unstage") /\ UNCHANGED <<snapWriter, snapReaders>>
  BY DEF Snap!Forget, Snap!ForgetFailed, Snap!Set, Snap!locks
<1>3. CASE Snap!Return(p) /\ UNCHANGED snapRec
  BY <1>1, <1>3, SnReturns
<1>4. CASE /\ snapRec' = [snapRec EXCEPT ![s] = "none"] /\ snapRec[s] = "pending"
           /\ Snap!Goto(p, "unstage") /\ UNCHANGED <<snapWriter, snapReaders>>
  <2>1. PICK k : k = snapOp[p].kind
    OBVIOUS
  <2>2. SnCaptureAt(p, s, k, "forget")
    BY <1>1, <2>1, SnCapturing
  <2>3. SnAlters(s) /\ snapRec'[s] = "none"
    BY <1>1, <1>4 DEF SnAlters, SnInv, SnTyped, SnRecs, SnContents
  <2>4. SnCap(k, "unstage", snapRec'[s], snapStage'[s], snapDir'[s])
    BY <2>3 DEF SnCap
  <2>5. /\ snapRec'[s] = "ready" => snapDir'[s] = "whole"
        /\ snapRec[s] = "deleting" => snapRec'[s] = "deleting"
    BY <2>3, <1>4
  <2>6. "unstage" \in SnSteps
    BY DEF SnSteps
  <2> QED
    BY <1>1, <1>4, <2>2, <2>3, <2>4, <2>5, <2>6, SnCapWrites
<1> QED
  BY <1>2, <1>3, <1>4

LEMMA SnUnstage ==
    ASSUME SnInv, NEW p \in Operations, NEW s \in SnapIds, Snap!Unstage(p, s)
    PROVE  SnInv'
<1>1. /\ snapStage' = [snapStage EXCEPT ![s] = "none"] /\ snapDir' = [snapDir EXCEPT ![s] = "none"]
      /\ Snap!Return(p) /\ UNCHANGED <<snapRec, snapIssued>> /\ Snap!At(p, SnCaptures, s, "unstage")
  BY SnAtAny DEF Snap!Unstage, Snap!Set
<1>2. SnCaptureAt(p, s, snapOp[p].kind, "unstage")
  BY <1>1, SnCapturing
<1>3. snapRec[s] = "none" /\ snapWriter[s] = {p}
  BY <1>2 DEF SnCaptureAt, SnCap
<1>4. SnAlters(s) /\ snapRec'[s] = "none"
  BY <1>1, <1>3 DEF SnAlters, SnInv, SnTyped, SnRecs, SnContents
<1> QED
  BY <1>1, <1>3, <1>4, SnLeaves

LEMMA SnEnds ==
    ASSUME SnInv, NEW p \in Operations, NEW s \in SnapIds,
           Snap!HibernateEnd(p, s) \/ Snap!Use(p, s) \/ Snap!CaptureRefused(p)
    PROVE  SnInv'
<1>1. Snap!Return(p) /\ UNCHANGED <<snapRec, snapStage, snapDir, snapIssued>>
  BY DEF Snap!HibernateEnd, Snap!Use, Snap!CaptureRefused, Snap!files
<1> QED
  BY <1>1, SnReturns

(* An operation that begins without a lock.                                  *)
LEMMA SnBegins ==
    ASSUME SnInv, NEW p \in Operations, NEW s \in SnapIds, NEW o \in SnOps,
           snapOp' = [snapOp EXCEPT ![p] = o], o.id = {} \/ o.id = {s},
           UNCHANGED <<snapStage, snapDir, snapIssued, snapWriter, snapReaders>>, SnAlters(s),
           \/ snapRec'[s] = snapRec[s]
           \/ snapRec[s] \in {"ready", "deleting"} /\ snapRec'[s] = "deleting",
           o.id = {s} => /\ o.kind \notin SnCaptures
                         /\ o.kind = "remove" => o.step = "lock" /\ snapRec'[s] = "deleting"
                         /\ o.kind = "collect" => o.step = "delete"
                         /\ o.kind \in {"restore", "read"} => o.step = "rlock"
    PROVE  SnInv'
<1>1. /\ snapOp' \in [Operations -> SnOps] /\ \A q \in Operations \ {p} : snapOp'[q] = snapOp[q]
      /\ snapOp'[p] = o
  BY SnSets
<1>2. /\ \A u \in SnapIds \ {s} :
             snapRec'[u] = snapRec[u] /\ snapStage'[u] = snapStage[u] /\ snapDir'[u] = snapDir[u]
      /\ snapRec'[s] \in SnRecs
  BY DEF SnAlters
<1>3. SnTyped'
  BY <1>1 DEF SnInv, SnTyped, SnAlters, SnRecs, SnContents
<1>4. /\ \A q \in Operations \ {p}, u \in SnapIds : snapWriter[u] = {q} => snapWriter'[u] = {q}
      /\ \A q \in Operations \ {p}, u \in SnapIds : q \in snapReaders[u] => q \in snapReaders'[u]
      /\ \A u \in SnapIds : snapReaders'[u] # {} => snapWriter'[u] = {}
  BY SnStays
<1>5. /\ snapIssued \subseteq snapIssued'
      /\ snapRec'[s] = "ready" => snapDir'[s] = "whole"
      /\ snapRec'[s] # "none" => s \in snapIssued'
  BY DEF SnInv, SnKept
<1>6. snapOp'[p].id = {s} => SnOk(p, snapOp[p].kind, snapOp[p].step, s)'
  BY <1>1, <1>5 DEF SnOk
<1>7. ~SnCaptor(p, s)' /\ (SnRemover(p, s)' => snapRec'[s] = "deleting")
  BY <1>1 DEF SnCaptor, SnRemover
<1>8. snapOp'[p].id = {} \/ snapOp'[p].id = {s}
  BY <1>1
<1>9. \/ snapRec'[s] = snapRec[s] /\ snapStage'[s] = snapStage[s] /\ snapDir'[s] = snapDir[s]
      \/ /\ snapRec[s] \in {"ready", "deleting"} /\ snapRec'[s] = "deleting"
         /\ snapStage'[s] = snapStage[s] /\ snapDir'[s] = snapDir[s]
  OBVIOUS
<1> QED
  BY ONLY SMTT(30), SnInv, p \in Operations, s \in SnapIds, <1>1, <1>2, <1>3, <1>4, <1>5, <1>6, <1>7, <1>8, <1>9, SnStep

LEMMA SnBegin ==
    ASSUME NEW p \in Operations, NEW k \in SnKinds, NEW t \in SnSteps, NEW i \in SUBSET SnapIds,
           Snap!Begin(p, k, t, i)
    PROVE  \E o \in SnOps : /\ snapOp' = [snapOp EXCEPT ![p] = o]
                            /\ o.kind = k /\ o.step = t /\ o.id = i
<1> DEFINE b == snapSandbox = "Stopped" /\ k = "restore"
<1>1. snapOp' = [snapOp EXCEPT ![p] = [kind |-> k, step |-> t, id |-> i, off |-> b]]
  BY DEF Snap!Begin
<1>2. b \in BOOLEAN
  OBVIOUS
<1> HIDE DEF b
<1>3. [kind |-> k, step |-> t, id |-> i, off |-> b] \in SnOps
  BY <1>2 DEF SnOps
<1> QED
  BY <1>1, <1>3

LEMMA SnReadBegin ==
    ASSUME SnInv, NEW p \in Operations, NEW s \in SnapIds, NEW k \in {"restore", "read"},
           Snap!ReadBegin(p, k, s)
    PROVE  SnInv'
<1>1. Snap!Begin(p, k, "rlock", {s}) /\ UNCHANGED <<snapRec, snapStage, snapDir, snapIssued, snapWriter, snapReaders>>
  BY DEF Snap!ReadBegin, Snap!files, Snap!locks
<1>2. PICK o \in SnOps : /\ snapOp' = [snapOp EXCEPT ![p] = o]
                         /\ o.kind = k /\ o.step = "rlock" /\ o.id = {s}
  <2>1. {s} \in SUBSET SnapIds /\ k \in SnKinds /\ "rlock" \in SnSteps
    BY DEF SnKinds, SnSteps
  <2> QED
    BY SMTT(30), <1>1, <2>1, SnBegin
<1>3. SnAlters(s) /\ snapRec'[s] = snapRec[s]
  BY <1>1, SnSame
<1>4. o.kind \notin SnCaptures /\ o.kind # "remove" /\ o.kind # "collect"
  BY <1>2 DEF SnCaptures
<1> QED
  BY <1>1, <1>2, <1>3, <1>4, SnBegins

LEMMA SnRemoveBegin ==
    ASSUME SnInv, NEW p \in Operations, NEW s \in SnapIds, Snap!RemoveBegin(p, s) \/ Snap!Evict(p, s)
    PROVE  SnInv'
<1>1. PICK k \in {"remove", "evict"}, t \in {"lock", "delete"} :
          Snap!Begin(p, k, t, {s}) /\ (k = "remove" <=> t = "lock")
  BY DEF Snap!RemoveBegin, Snap!Evict
<1>2. /\ snapRec[s] \in {"ready", "deleting"} /\ snapRec' = [snapRec EXCEPT ![s] = "deleting"]
      /\ UNCHANGED <<snapStage, snapDir, snapIssued, snapWriter, snapReaders>>
  BY DEF Snap!RemoveBegin, Snap!Evict, Snap!Resolvable, Snap!Set, Snap!files, Snap!locks
<1>3. PICK o \in SnOps : /\ snapOp' = [snapOp EXCEPT ![p] = o]
                         /\ o.kind = k /\ o.step = t /\ o.id = {s}
  <2>1. {s} \in SUBSET SnapIds /\ k \in SnKinds /\ t \in SnSteps
    BY DEF SnKinds, SnSteps
  <2> QED
    BY SMTT(30), <1>1, <2>1, SnBegin
<1>4. SnAlters(s) /\ snapRec'[s] = "deleting"
  BY <1>2 DEF SnAlters, SnInv, SnTyped, SnRecs, SnContents
<1>5. o.kind \notin SnCaptures /\ o.kind # "collect" /\ o.kind \notin {"restore", "read"}
  BY <1>3 DEF SnCaptures
<1>6. o.kind = "remove" => o.step = "lock"
  BY <1>1, <1>3
<1> QED
  BY <1>2, <1>3, <1>4, <1>5, <1>6, SnBegins

LEMMA SnCollectDelete ==
    ASSUME SnInv, NEW p \in Operations, NEW s \in SnapIds, Snap!CollectDelete(p, s)
    PROVE  SnInv'
<1>1. UNCHANGED <<snapStage, snapDir, snapIssued, snapWriter, snapReaders>> /\ snapOp[p].id = {s}
  BY DEF Snap!CollectDelete, Snap!files, Snap!locks, Snap!At
<1>2. CASE snapRec[s] \in {"ready", "deleting"}
  <2> DEFINE o == [snapOp[p] EXCEPT !.kind = "remove", !.step = "lock"]
  <2>1. snapRec' = [snapRec EXCEPT ![s] = "deleting"] /\ snapOp' = [snapOp EXCEPT ![p] = o]
    BY <1>2 DEF Snap!CollectDelete, Snap!Set
  <2>2. snapOp[p] \in SnOps
    BY DEF SnInv, SnTyped
  <2>3. o \in SnOps /\ o.kind = "remove" /\ o.step = "lock" /\ o.id = {s}
    BY <2>2, <1>1 DEF SnOps, SnKinds, SnSteps
  <2>4. SnAlters(s) /\ snapRec'[s] = "deleting"
    BY <1>1, <2>1 DEF SnAlters, SnInv, SnTyped, SnRecs, SnContents
  <2>5. "remove" \notin SnCaptures
    BY DEF SnCaptures
  <2> HIDE DEF o
  <2> QED
    BY <1>1, <1>2, <2>1, <2>3, <2>4, <2>5, SnBegins
<1>3. CASE snapRec[s] \notin {"ready", "deleting"}
  <2>1. UNCHANGED snapRec /\ snapOp' = [snapOp EXCEPT ![p] = Snap!Idle]
    BY <1>3 DEF Snap!CollectDelete
  <2>2. SnAlters(s) /\ snapRec'[s] = snapRec[s]
    BY <1>1, <2>1, SnSame
  <2>3. Snap!Idle.id # {s}
    BY SnIdle
  <2> QED
    BY <1>1, <2>1, <2>2, <2>3, SnIdle, SnBegins
<1> QED
  BY <1>2, <1>3

(* An operation that does not name an identity yet.                          *)
LEMMA SnCaptureBegin ==
    ASSUME SnInv, NEW p \in Operations, NEW k \in {"save", "hibernate"}, Snap!CaptureBegin(p, k)
    PROVE  SnInv'
<1>1. Snap!Begin(p, k, "lock", {}) /\ UNCHANGED <<snapRec, snapStage, snapDir, snapIssued, snapWriter, snapReaders>>
  BY DEF Snap!CaptureBegin, Snap!files, Snap!locks
<1>2. PICK o \in SnOps : snapOp' = [snapOp EXCEPT ![p] = o] /\ o.id = {}
  BY SMTT(30), <1>1, SnBegin DEF SnKinds, SnSteps, SnCaptures
<1>3. CASE SnapIds = {}
  BY <1>1, <1>2, <1>3, SnSets DEF SnInv, SnTyped
<1>4. CASE SnapIds # {}
  <2>1. PICK s \in SnapIds : TRUE
    BY <1>4
  <2>2. SnAlters(s) /\ snapRec'[s] = snapRec[s] /\ o.id # {s}
    BY <1>1, <1>2, SnSame
  <2> QED
    BY <1>1, <1>2, <2>2, SnBegins
<1> QED
  BY <1>3, <1>4

(* An operation that takes the lock of s.                                    *)
LEMMA SnLocks ==
    ASSUME SnInv, NEW p \in Operations, NEW s \in SnapIds, NEW o \in SnOps,
           snapOp' = [snapOp EXCEPT ![p] = o], o.id = {s}, Snap!Lock(p, s),
           UNCHANGED <<snapRec, snapStage, snapDir, snapReaders>>,
           snapIssued' = snapIssued \/ snapIssued' = snapIssued \cup {s},
           o.kind \in SnCaptures => /\ s \notin snapIssued /\ s \in snapIssued'
                                    /\ o.step = "reserve" \/ (o.kind = "import" /\ o.step = "stage")
                                    /\ o.kind = "import" => o.step = "stage",
           o.kind = "remove" => SnRemover(p, s),
           o.kind = "collect" => o.step = "check",
           o.kind \notin {"restore", "read"}
    PROVE  SnInv'
<1>1. /\ snapOp' \in [Operations -> SnOps] /\ \A q \in Operations \ {p} : snapOp'[q] = snapOp[q]
      /\ snapOp'[p] = o
  BY SnSets
<1>2. /\ snapWriter[s] = {} /\ snapReaders[s] = {} /\ snapWriter' = [snapWriter EXCEPT ![s] = {p}]
  BY DEF Snap!Lock
<1>3. snapIssued \subseteq snapIssued' /\ snapIssued' \in SUBSET SnapIds
  BY DEF SnInv, SnTyped
<1>4. SnTyped' /\ snapWriter'[s] = {p} /\ \A u \in SnapIds \ {s} : snapWriter'[u] = snapWriter[u]
  BY <1>1, <1>2, <1>3 DEF SnInv, SnTyped
<1>5. /\ \A q \in Operations \ {p}, u \in SnapIds : snapWriter[u] = {q} => snapWriter'[u] = {q}
      /\ \A q \in Operations \ {p}, u \in SnapIds : q \in snapReaders[u] => q \in snapReaders'[u]
  BY <1>2, <1>4
<1>6. \A u \in SnapIds : snapReaders'[u] # {} => snapWriter'[u] = {}
  BY <1>2, <1>4 DEF SnInv, SnKept
<1>7. /\ snapRec'[s] = "ready" => snapDir'[s] = "whole"
      /\ snapRec'[s] # "none" => s \in snapIssued'
  BY <1>3 DEF SnInv, SnKept
<1>8. s \notin snapIssued => snapRec[s] = "none"
  BY DEF SnInv, SnKept
<1>9. SnRemover(p, s) => s \in snapIssued /\ snapRec[s] \in {"deleting", "none"}
  BY DEF SnRemover, SnInv, SnOk
<1>10. o.kind \in SnCaptures => SnCap(o.kind, o.step, snapRec[s], snapStage[s], snapDir[s])
  BY <1>8 DEF SnCap
<1>11. SnOk(p, snapOp[p].kind, snapOp[p].step, s)'
  BY <1>1, <1>3, <1>4, <1>9, <1>10 DEF SnOk
<1>12. (SnCaptor(p, s)' => s \notin snapIssued) /\ (SnRemover(p, s)' => SnRemover(p, s))
  BY <1>1 DEF SnCaptor, SnRemover
<1>13. snapOp'[p].id = {s}
  BY <1>1
<1>14. \A u \in SnapIds \ {s} :
            snapRec'[u] = snapRec[u] /\ snapStage'[u] = snapStage[u] /\ snapDir'[u] = snapDir[u]
  OBVIOUS
<1>15. snapRec'[s] = snapRec[s] /\ snapStage'[s] = snapStage[s] /\ snapDir'[s] = snapDir[s]
  OBVIOUS
<1>16. /\ snapOp'[p].id = {s} => SnOk(p, snapOp[p].kind, snapOp[p].step, s)'
       /\ SnCaptor(p, s)' => SnCaptor(p, s) \/ s \notin snapIssued
       /\ SnRemover(p, s)' => SnRemover(p, s) \/ snapRec'[s] = "deleting"
  BY <1>11, <1>12
<1> QED
  BY <1>1, <1>3, <1>4, <1>5, <1>6, <1>7, <1>13, <1>14, <1>15, <1>16, SnStep

LEMMA SnCaptureLock ==
    ASSUME SnInv, NEW p \in Operations, NEW s \in SnapIds, Snap!CaptureLock(p, s)
    PROVE  SnInv'
<1> DEFINE o == [snapOp[p] EXCEPT !.step = "reserve", !.id = {s}]
<1>1. snapOp[p] \in SnOps /\ snapOp \in [Operations -> SnOps]
  BY DEF SnInv, SnTyped
<1>2. o \in SnOps /\ o.id = {s} /\ o.step = "reserve" /\ o.kind = snapOp[p].kind
  BY <1>1 DEF SnOps, SnKinds, SnSteps
<1>3. snapOp' = [snapOp EXCEPT ![p] = o]
  BY <1>1 DEF Snap!CaptureLock
<1>4. /\ snapOp[p].kind \in {"save", "hibernate"} /\ s \notin snapIssued /\ snapIssued' = snapIssued \cup {s}
      /\ Snap!Lock(p, s) /\ UNCHANGED <<snapRec, snapStage, snapDir, snapReaders>>
  BY DEF Snap!CaptureLock, Snap!files
<1> HIDE DEF o
<1> QED
  BY <1>2, <1>3, <1>4, SnLocks

LEMMA SnImportBegin ==
    ASSUME SnInv, NEW p \in Operations, NEW s \in SnapIds, Snap!ImportBegin(p, s)
    PROVE  SnInv'
<1>1. /\ Snap!Begin(p, "import", "stage", {s}) /\ s \notin snapIssued /\ snapIssued' = snapIssued \cup {s}
      /\ Snap!Lock(p, s) /\ UNCHANGED <<snapRec, snapStage, snapDir, snapReaders>>
  BY DEF Snap!ImportBegin, Snap!files
<1>2. PICK o \in SnOps : /\ snapOp' = [snapOp EXCEPT ![p] = o]
                         /\ o.kind = "import" /\ o.step = "stage" /\ o.id = {s}
  <2>1. {s} \in SUBSET SnapIds /\ "import" \in SnKinds /\ "stage" \in SnSteps
    BY DEF SnKinds, SnSteps, SnCaptures
  <2> QED
    BY SMTT(30), <1>1, <2>1, SnBegin
<1> QED
  BY <1>1, <1>2, SnLocks

LEMMA SnRemoveLock ==
    ASSUME SnInv, NEW p \in Operations, NEW s \in SnapIds, Snap!RemoveLock(p, s)
    PROVE  SnInv'
<1> DEFINE o == [snapOp[p] EXCEPT !.step = "remove"]
<1>1. snapOp[p] \in SnOps /\ snapOp[p].kind = "remove" /\ snapOp[p].id = {s}
  BY DEF SnInv, SnTyped, Snap!RemoveLock, Snap!At
<1>2. o \in SnOps /\ o.id = {s} /\ o.kind = "remove"
  BY <1>1 DEF SnOps, SnKinds, SnSteps
<1>3. snapOp' = [snapOp EXCEPT ![p] = o]
  BY DEF Snap!RemoveLock, Snap!Goto
<1>4. Snap!Lock(p, s) /\ UNCHANGED <<snapRec, snapStage, snapDir, snapReaders>> /\ snapIssued' = snapIssued
  BY DEF Snap!RemoveLock, Snap!files
<1>5. SnRemover(p, s) /\ "remove" \notin SnCaptures
  BY <1>1 DEF SnRemover, SnCaptures
<1> HIDE DEF o
<1> QED
  BY <1>2, <1>3, <1>4, <1>5, SnLocks

LEMMA SnCollectBegin ==
    ASSUME SnInv, NEW p \in Operations, NEW s \in SnapIds, Snap!CollectBegin(p, s)
    PROVE  SnInv'
<1> DEFINE o == [Snap!Idle EXCEPT !.kind = "collect", !.step = "check", !.id = {s}]
<1>1. o \in SnOps /\ o.id = {s} /\ o.kind = "collect" /\ o.step = "check"
  BY DEF Snap!Idle, SnOps, SnKinds, SnSteps
<1>2. snapOp' = [snapOp EXCEPT ![p] = o]
  BY DEF Snap!CollectBegin
<1>3. Snap!Lock(p, s) /\ UNCHANGED <<snapRec, snapStage, snapDir, snapReaders>> /\ snapIssued' = snapIssued
  BY DEF Snap!CollectBegin, Snap!files
<1>4. "collect" \notin SnCaptures
  BY DEF SnCaptures
<1> HIDE DEF o
<1> QED
  BY <1>1, <1>2, <1>3, <1>4, SnLocks

LEMMA SnReadLock ==
    ASSUME SnInv, NEW p \in Operations, NEW s \in SnapIds, Snap!ReadLock(p, s)
    PROVE  SnInv'
<1>1. /\ snapOp[p].id = {s} /\ snapOp[p].kind \in {"restore", "read"} /\ Snap!Goto(p, "validate")
      /\ UNCHANGED <<snapRec, snapStage, snapDir, snapIssued, snapWriter>>
      /\ snapWriter[s] = {} /\ snapReaders' = [snapReaders EXCEPT ![s] = @ \cup {p}]
  BY DEF Snap!ReadLock, Snap!At, Snap!RLock, Snap!files
<1>2. /\ snapOp' \in [Operations -> SnOps] /\ \A q \in Operations \ {p} : snapOp'[q] = snapOp[q]
      /\ snapOp'[p].kind \in {"restore", "read"} /\ snapOp'[p].step = "validate" /\ snapOp'[p].id = {s}
  BY <1>1, SnGoto DEF SnSteps
<1>3. SnTyped' /\ p \in snapReaders'[s]
  BY <1>1, <1>2 DEF SnInv, SnTyped
<1>4. /\ \A q \in Operations \ {p}, u \in SnapIds : snapWriter[u] = {q} => snapWriter'[u] = {q}
      /\ \A q \in Operations \ {p}, u \in SnapIds : q \in snapReaders[u] => q \in snapReaders'[u]
  BY <1>1 DEF SnInv, SnTyped
<1>5. \A u \in SnapIds : snapReaders'[u] # {} => snapWriter'[u] = {}
  BY <1>1 DEF SnInv, SnTyped, SnKept
<1>6. /\ snapRec'[s] = "ready" => snapDir'[s] = "whole"
      /\ snapRec'[s] # "none" => s \in snapIssued'
      /\ snapIssued \subseteq snapIssued'
  BY <1>1 DEF SnInv, SnKept
<1>7. SnOk(p, snapOp[p].kind, snapOp[p].step, s)'
  BY <1>2, <1>3 DEF SnOk, SnCaptures
<1>8. ~SnCaptor(p, s)' /\ ~SnRemover(p, s)'
  BY <1>2 DEF SnCaptor, SnRemover, SnCaptures
<1>9. \A u \in SnapIds : snapRec'[u] = snapRec[u] /\ snapStage'[u] = snapStage[u] /\ snapDir'[u] = snapDir[u]
  BY <1>1
<1> QED
  BY ONLY SMTT(30), SnInv, p \in Operations, s \in SnapIds, <1>2, <1>3, <1>4, <1>5, <1>6, <1>7, <1>8, <1>9, SnStep

(* A step of a restore that reads the capture's files.                       *)
LEMMA SnReads ==
    ASSUME SnInv, NEW p \in Operations, NEW s \in SnapIds, NEW f, NEW t \in SnSteps,
           Snap!At(p, {"restore"}, s, f), f \notin {"rlock", "validate"},
           UNCHANGED <<snapRec, snapStage, snapDir, snapIssued>>,
           Snap!Return(p) \/ (Snap!Goto(p, t) /\ UNCHANGED <<snapWriter, snapReaders>>)
    PROVE  SnInv'
<1>1. snapOp[p].id = {s} /\ snapOp[p].kind = "restore" /\ snapOp[p].step = f
  BY DEF Snap!At
<1>2. SnOk(p, "restore", f, s)
  BY <1>1 DEF SnInv
<1>3. SnOk(p, "restore", t, s)
  BY <1>2 DEF SnOk, SnCaptures
<1> QED
  BY <1>1, <1>3, SnGoes, SnReturns

LEMMA SnRestore ==
    ASSUME SnInv, NEW p \in Operations, NEW s \in SnapIds,
           \/ Snap!RestoreClean(p, s) \/ Snap!RestoreCreate(p, s) \/ Snap!RestoreCopy(p, s)
           \/ Snap!RestoreCopyFailed(p, s) \/ Snap!RestoreSkipStop(p, s) \/ Snap!RestoreStop(p, s)
           \/ Snap!RestoreLock(p, s) \/ Snap!RestoreReplace(p, s) \/ Snap!RestoreLaunch(p, s)
    PROVE  SnInv'
<1>1. PICK f \in {"clean", "create", "copy", "stop", "lock", "replace", "launch"} :
          Snap!At(p, {"restore"}, s, f)
  BY DEF Snap!RestoreClean, Snap!RestoreCreate, Snap!RestoreCopy, Snap!RestoreCopyFailed,
     Snap!RestoreSkipStop, Snap!RestoreStop, Snap!RestoreLock, Snap!RestoreReplace, Snap!RestoreLaunch
<1>2. UNCHANGED <<snapRec, snapStage, snapDir, snapIssued>>
  BY DEF Snap!RestoreClean, Snap!RestoreCreate, Snap!RestoreCopy, Snap!RestoreCopyFailed,
     Snap!RestoreSkipStop, Snap!RestoreStop, Snap!RestoreLock, Snap!RestoreReplace, Snap!RestoreLaunch,
     Snap!files
<1>3. \E t \in {"create", "copy", "stop", "lock", "replace", "launch"} :
          Snap!Return(p) \/ (Snap!Goto(p, t) /\ UNCHANGED <<snapWriter, snapReaders>>)
  <2>1. CASE Snap!RestoreClean(p, s) \/ Snap!RestoreCreate(p, s) \/ Snap!RestoreCopy(p, s)
    BY <2>1 DEF Snap!RestoreClean, Snap!RestoreCreate, Snap!RestoreCopy, Snap!locks
  <2>2. CASE Snap!RestoreCopyFailed(p, s) \/ Snap!RestoreSkipStop(p, s) \/ Snap!RestoreStop(p, s)
    BY <2>2 DEF Snap!RestoreCopyFailed, Snap!RestoreSkipStop, Snap!RestoreStop, Snap!locks
  <2>3. CASE Snap!RestoreLock(p, s) \/ Snap!RestoreReplace(p, s) \/ Snap!RestoreLaunch(p, s)
    BY <2>3 DEF Snap!RestoreLock, Snap!RestoreReplace, Snap!RestoreLaunch, Snap!locks
  <2> QED
    BY <2>1, <2>2, <2>3
<1>4. f \notin {"rlock", "validate"} /\ {"create", "copy", "stop", "lock", "replace", "launch"} \subseteq SnSteps
  BY DEF SnSteps
<1> QED
  BY <1>1, <1>2, <1>3, <1>4, SnReads

LEMMA SnValidate ==
    ASSUME SnInv, NEW p \in Operations, NEW s \in SnapIds, Snap!Validate(p, s)
    PROVE  SnInv'
<1>1. /\ snapOp[p].id = {s} /\ snapOp[p].kind \in {"restore", "read"} /\ snapOp[p].step = "validate"
      /\ UNCHANGED <<snapRec, snapStage, snapDir, snapIssued>>
  BY DEF Snap!Validate, Snap!At, Snap!files
<1>2. CASE Snap!Return(p)
  BY <1>1, <1>2, SnReturns
<1>3. CASE snapDir[s] = "whole" /\ ~Snap!Return(p)
  <2>1. PICK t \in {"clean", "use"} : Snap!Goto(p, t) /\ UNCHANGED <<snapWriter, snapReaders>>
    BY <1>3 DEF Snap!Validate, Snap!locks
  <2>2. SnOk(p, snapOp[p].kind, "validate", s)
    BY <1>1 DEF SnInv
  <2>3. SnOk(p, snapOp[p].kind, t, s)
    BY <1>1, <1>3, <2>2 DEF SnOk, SnCaptures
  <2>4. t \in SnSteps
    BY DEF SnSteps
  <2> QED
    BY <1>1, <2>1, <2>3, <2>4, SnGoes
<1> QED
  BY <1>2, <1>3 DEF Snap!Validate

LEMMA SnRemoveFiles ==
    ASSUME SnInv, NEW p \in Operations, NEW s \in SnapIds, Snap!RemoveFiles(p, s)
    PROVE  SnInv'
<1>1. /\ snapOp[p].id = {s} /\ snapOp[p].kind = "remove" /\ snapOp[p].step = "remove"
      /\ UNCHANGED <<snapRec, snapStage, snapIssued>>
  BY DEF Snap!RemoveFiles, Snap!At
<1>2. SnOk(p, "remove", "remove", s)
  BY <1>1 DEF SnInv
<1>3. snapWriter[s] = {p} /\ snapRec[s] \in {"deleting", "none"} /\ s \in snapIssued
  BY <1>2 DEF SnOk
<1>4. \/ snapDir' = [snapDir EXCEPT ![s] = "none"] /\ Snap!Goto(p, "finalize") /\ UNCHANGED <<snapWriter, snapReaders>>
      \/ snapDir' = [snapDir EXCEPT ![s] = "partial"] /\ Snap!Return(p)
  BY DEF Snap!RemoveFiles, Snap!Set, Snap!locks
<1>5. SnAlters(s) /\ snapRec'[s] = snapRec[s]
  BY <1>1, <1>4 DEF SnAlters, SnInv, SnTyped, SnRecs, SnContents
<1>6. CASE Snap!Return(p)
  BY <1>1, <1>3, <1>5, <1>6, SnLeaves
<1>7. CASE Snap!Goto(p, "finalize") /\ UNCHANGED <<snapWriter, snapReaders>>
  <2>1. SnOk(p, "remove", "finalize", s)'
    BY <1>1, <1>3, <1>7, <1>5 DEF SnOk, SnCaptures
  <2>2. "finalize" \in SnSteps
    BY DEF SnSteps
  <2> QED
    BY <1>1, <1>3, <1>5, <1>7, <2>1, <2>2, SnMoves
<1> QED
  BY <1>4, <1>6, <1>7

LEMMA SnFinalize ==
    ASSUME SnInv, NEW p \in Operations, NEW s \in SnapIds, Snap!FinalizeDelete(p, s)
    PROVE  SnInv'
<1>1. /\ snapOp[p].id = {s} /\ snapOp[p].kind = "remove" /\ snapOp[p].step = "finalize"
      /\ UNCHANGED <<snapStage, snapDir, snapIssued>> /\ Snap!Return(p)
      /\ snapRec' = IF snapRec[s] = "deleting" THEN [snapRec EXCEPT ![s] = "none"] ELSE snapRec
  BY DEF Snap!FinalizeDelete, Snap!At, Snap!files, Snap!Set
<1>2. SnOk(p, "remove", "finalize", s)
  BY <1>1 DEF SnInv
<1>3. snapWriter[s] = {p} /\ snapRec[s] \in {"deleting", "none"}
  BY <1>2 DEF SnOk
<1>4. SnAlters(s) /\ snapRec'[s] = "none"
  BY <1>1, <1>3 DEF SnAlters, SnInv, SnTyped, SnRecs, SnContents
<1> QED
  BY <1>1, <1>3, <1>4, SnLeaves

LEMMA SnCollectAt ==
    ASSUME SnInv, NEW p \in Operations, NEW s \in SnapIds, NEW t, Snap!At(p, {"collect"}, s, t), t # "delete"
    PROVE  /\ snapOp[p].id = {s} /\ snapOp[p].kind = "collect" /\ snapWriter[s] = {p}
           /\ t # "check" => snapRec[s] \in {"none", "pending"}
<1>1. snapOp[p].id = {s} /\ snapOp[p].kind = "collect" /\ snapOp[p].step = t
  BY DEF Snap!At
<1>2. SnOk(p, "collect", t, s)
  BY <1>1 DEF SnInv
<1> QED
  BY <1>1, <1>2 DEF SnOk

LEMMA SnCollectRest ==
    ASSUME SnInv, NEW p \in Operations, NEW s \in SnapIds, Snap!CollectOrphan(p, s) \/ Snap!CollectForget(p, s)
    PROVE  SnInv'
<1>1. PICK t \in {"orphan", "forget"} : Snap!At(p, {"collect"}, s, t)
  BY DEF Snap!CollectOrphan, Snap!CollectForget
<1>2. /\ snapOp[p].id = {s} /\ snapOp[p].kind = "collect" /\ snapWriter[s] = {p}
      /\ snapRec[s] \in {"none", "pending"}
  BY <1>1, SnCollectAt
<1>3. snapRec[s] # "none" => s \in snapIssued
  BY DEF SnInv, SnKept
<1>4. CASE Snap!CollectOrphan(p, s)
  <2>1. /\ snapDir' = [snapDir EXCEPT ![s] = "none"] /\ Snap!Goto(p, "forget")
        /\ UNCHANGED <<snapRec, snapStage, snapIssued, snapWriter, snapReaders>>
    BY <1>4 DEF Snap!CollectOrphan, Snap!Set, Snap!locks
  <2>2. SnAlters(s) /\ snapRec'[s] = snapRec[s]
    BY <2>1 DEF SnAlters, SnInv, SnTyped, SnRecs, SnContents
  <2>3. SnOk(p, "collect", "forget", s)' /\ "forget" \in SnSteps
    BY <1>2, <2>1, <2>2 DEF SnOk, SnCaptures, SnSteps
  <2> QED
    BY <1>2, <1>3, <2>1, <2>2, <2>3, SnMoves
<1>5. CASE Snap!CollectForget(p, s)
  <2>1. /\ snapRec' = IF snapRec[s] = "pending" THEN [snapRec EXCEPT ![s] = "none"] ELSE snapRec
        /\ UNCHANGED <<snapStage, snapDir, snapIssued>> /\ Snap!Return(p)
    BY <1>5 DEF Snap!CollectForget, Snap!Set, Snap!files
  <2>2. SnAlters(s) /\ snapRec'[s] = "none"
    BY <2>1, <1>2 DEF SnAlters, SnInv, SnTyped, SnRecs, SnContents
  <2> QED
    BY <1>2, <2>1, <2>2, SnLeaves
<1> QED
  BY <1>4, <1>5

LEMMA SnCollectCheck ==
    ASSUME SnInv, NEW p \in Operations, NEW s \in SnapIds, Snap!CollectCheck(p, s)
    PROVE  SnInv'
<1>1. Snap!At(p, {"collect"}, s, "check") /\ UNCHANGED <<snapRec, snapDir, snapIssued>>
  BY DEF Snap!CollectCheck
<1>2. snapOp[p].id = {s} /\ snapOp[p].kind = "collect" /\ snapWriter[s] = {p} /\ snapOp[p] \in SnOps
  BY <1>1, SnCollectAt DEF SnInv, SnTyped
<1>3. /\ snapRec[s] # "none" => s \in snapIssued
      /\ snapRec[s] = "ready" => snapDir[s] = "whole"
  BY DEF SnInv, SnKept
<1>4. ASSUME snapStage' = [snapStage EXCEPT ![s] = "none"]
      PROVE  SnAlters(s) /\ snapRec'[s] = snapRec[s] /\ snapDir'[s] = snapDir[s]
  BY <1>1, <1>4 DEF SnAlters, SnInv, SnTyped, SnRecs, SnContents
<1>5. CASE snapRec[s] = "deleting"
  <2> DEFINE o == [snapOp[p] EXCEPT !.step = "delete"]
  <2>1. Snap!Unlock(p) /\ snapOp' = [snapOp EXCEPT ![p] = o] /\ UNCHANGED snapStage
    BY <1>5 DEF Snap!CollectCheck
  <2>2. o \in SnOps /\ o.kind = "collect" /\ o.step = "delete" /\ o.id = {s}
    BY <1>2 DEF SnOps, SnSteps
  <2> HIDE DEF o
  <2>3. /\ snapOp' \in [Operations -> SnOps] /\ \A q \in Operations \ {p} : snapOp'[q] = snapOp[q]
        /\ snapOp'[p] = o
    BY <2>1, <2>2, SnSets
  <2>4. /\ snapWriter' \in [SnapIds -> SUBSET Operations] /\ snapReaders' \in [SnapIds -> SUBSET Operations]
        /\ \A q \in Operations \ {p}, u \in SnapIds : snapWriter[u] = {q} => snapWriter'[u] = {q}
        /\ \A q \in Operations \ {p}, u \in SnapIds : q \in snapReaders[u] => q \in snapReaders'[u]
        /\ \A u \in SnapIds : snapReaders'[u] # {} => snapWriter'[u] = {}
    BY <2>1, SnUnlock
  <2>5. SnTyped'
    BY <1>1, <2>1, <2>3, <2>4 DEF SnInv, SnTyped
  <2>6. SnOk(p, snapOp[p].kind, snapOp[p].step, s)'
    BY <2>2, <2>3 DEF SnOk, SnCaptures
  <2>7. ~SnCaptor(p, s)' /\ ~SnRemover(p, s)' /\ snapOp'[p].id = {s}
    BY <2>2, <2>3 DEF SnCaptor, SnRemover, SnCaptures
  <2>8. /\ snapRec'[s] = "ready" => snapDir'[s] = "whole"
        /\ snapRec'[s] # "none" => s \in snapIssued'
        /\ snapIssued \subseteq snapIssued'
    BY <1>1, <1>3
  <2>9. /\ \A u \in SnapIds \ {s} :
               snapRec'[u] = snapRec[u] /\ snapStage'[u] = snapStage[u] /\ snapDir'[u] = snapDir[u]
        /\ snapRec'[s] = snapRec[s] /\ snapStage'[s] = snapStage[s] /\ snapDir'[s] = snapDir[s]
    BY <1>1, <2>1
  <2> QED
    BY ONLY Zenon, SnInv, p \in Operations, s \in SnapIds, <2>3, <2>4, <2>5, <2>6, <2>7, <2>8, <2>9, SnStep
<1>6. CASE snapRec[s] = "ready"
  <2>1. snapStage' = [snapStage EXCEPT ![s] = "none"] /\ Snap!Return(p)
    BY <1>3, <1>6 DEF Snap!CollectCheck, Snap!Set
  <2> QED
    BY <1>1, <1>2, <1>3, <1>4, <1>6, <2>1, SnLeaves
<1>7. CASE snapRec[s] \in {"none", "pending"}
  <2>1. snapStage' = [snapStage EXCEPT ![s] = "none"] /\ Snap!Goto(p, "orphan") /\ UNCHANGED <<snapWriter, snapReaders>>
    BY <1>7 DEF Snap!CollectCheck, Snap!Set, Snap!locks
  <2>2. SnOk(p, "collect", "orphan", s)' /\ "orphan" \in SnSteps
    BY <1>2, <1>4, <1>7, <2>1 DEF SnOk, SnCaptures, SnSteps
  <2> QED
    BY <1>1, <1>2, <1>3, <1>4, <1>7, <2>1, <2>2, SnMoves
<1> QED
  BY <1>5, <1>6, <1>7 DEF SnInv, SnTyped

LEMMA SnCrash ==
    ASSUME SnInv, NEW p \in Operations, Snap!Crash(p)
    PROVE  SnInv'
<1>1. /\ Snap!Return(p) /\ UNCHANGED <<snapRec, snapStage, snapIssued>>
      /\ snapDir' = [s \in SnapIds |-> IF Snap!At(p, {"remove"}, s, "remove") /\ snapDir[s] # "none"
                                       THEN "partial" ELSE snapDir[s]]
  BY DEF Snap!Crash
<1>2. CASE \A s \in SnapIds : ~Snap!At(p, {"remove"}, s, "remove")
  <2>1. snapDir' = [s \in SnapIds |-> snapDir[s]]
    BY <1>1, <1>2
  <2>2. UNCHANGED snapDir
    BY <2>1 DEF SnInv, SnTyped
  <2> QED
    BY <1>1, <2>2, SnReturns
<1>3. ASSUME NEW s \in SnapIds, Snap!At(p, {"remove"}, s, "remove") PROVE SnInv'
  <2>1. snapOp[p].id = {s} /\ snapOp[p].kind = "remove" /\ snapOp[p].step = "remove"
    BY <1>3 DEF Snap!At
  <2>2. SnOk(p, "remove", "remove", s)
    BY <2>1 DEF SnInv
  <2>3. snapWriter[s] = {p} /\ snapRec[s] \in {"deleting", "none"} /\ s \in snapIssued
    BY <2>2 DEF SnOk
  <2>4. \A u \in SnapIds \ {s} : ~Snap!At(p, {"remove"}, u, "remove")
    BY <2>1 DEF Snap!At
  <2>5. SnAlters(s) /\ snapRec'[s] = snapRec[s]
    <3>1. \A u \in SnapIds : snapDir'[u] \in SnContents
      BY <1>1 DEF SnInv, SnTyped, SnContents
    <3>2. \A u \in SnapIds \ {s} : snapDir'[u] = snapDir[u]
      BY <1>1, <2>4
    <3>3. snapDir' \in [SnapIds -> SnContents]
      <4>1. snapDir' = [u \in SnapIds |-> snapDir'[u]]
        BY <1>1
      <4> QED
        BY <4>1, <3>1
    <3> QED
      BY <1>1, <3>2, <3>3 DEF SnAlters, SnInv, SnTyped, SnRecs, SnContents
  <2> QED
    BY <1>1, <2>3, <2>5, SnLeaves
<1> QED
  BY <1>2, <1>3

LEMMA SnSandbox ==
    ASSUME SnInv, Snap!SandboxStart \/ Snap!SandboxStop \/ Snap!GuestExit
    PROVE  SnInv'
<1>1. UNCHANGED <<snapRec, snapStage, snapDir, snapIssued, snapWriter, snapReaders, snapOp>>
  BY DEF Snap!SandboxStart, Snap!SandboxStop, Snap!GuestExit, Snap!files, Snap!locks
<1> QED
  BY <1>1, SnUnchanged

LEMMA SnNext ==
    ASSUME SnInv, Snap!Next
    PROVE  SnInv'
<1>1. ASSUME NEW p \in Operations, NEW s \in SnapIds,
             \/ Snap!CaptureLock(p, s) \/ Snap!Reserve(p, s) \/ Snap!ReserveFailed(p, s)
             \/ Snap!PrepareStage(p, s) \/ Snap!PrepareStageFailed(p, s)
             \/ Snap!Pause(p, s) \/ Snap!PauseReplyLost(p, s) \/ Snap!PauseFailed(p, s)
             \/ Snap!Fill(p, s) \/ Snap!FillFailed(p, s) \/ Snap!FillInterrupted(p, s)
             \/ Snap!Resume(p, s) \/ Snap!ResumeLost(p, s)
      PROVE  SnInv'
  BY <1>1, SnCaptureLock, SnReserve, SnReserveFailed, SnPrepareStage, SnCapLocal, SnFill, SnResume
<1>2. ASSUME NEW p \in Operations, NEW s \in SnapIds,
             \/ Snap!Publish(p, s) \/ Snap!PublishFailed(p, s) \/ Snap!Commit(p, s) \/ Snap!CommitFailed(p, s)
             \/ Snap!Forget(p, s) \/ Snap!ForgetFailed(p, s) \/ Snap!Unstage(p, s)
             \/ Snap!HibernateBeginStop(p, s) \/ Snap!HibernateStop(p, s) \/ Snap!HibernateEnd(p, s)
             \/ Snap!ImportBegin(p, s)
      PROVE  SnInv'
  BY <1>2, SnPublish, SnCommit, SnForget, SnUnstage, SnCapLocal, SnEnds, SnImportBegin
<1>3. ASSUME NEW p \in Operations, NEW s \in SnapIds,
             \/ \E k \in {"restore", "read"} : Snap!ReadBegin(p, k, s)
             \/ Snap!ReadLock(p, s) \/ Snap!Validate(p, s) \/ Snap!Use(p, s)
             \/ Snap!RestoreClean(p, s) \/ Snap!RestoreCreate(p, s) \/ Snap!RestoreCopy(p, s)
             \/ Snap!RestoreCopyFailed(p, s) \/ Snap!RestoreSkipStop(p, s) \/ Snap!RestoreStop(p, s)
             \/ Snap!RestoreLock(p, s) \/ Snap!RestoreReplace(p, s) \/ Snap!RestoreLaunch(p, s)
      PROVE  SnInv'
  BY <1>3, SnReadBegin, SnReadLock, SnValidate, SnEnds, SnRestore
<1>4. ASSUME NEW p \in Operations, NEW s \in SnapIds,
             \/ Snap!RemoveBegin(p, s) \/ Snap!RemoveLock(p, s) \/ Snap!RemoveFiles(p, s) \/ Snap!FinalizeDelete(p, s)
             \/ Snap!CollectBegin(p, s) \/ Snap!CollectCheck(p, s) \/ Snap!CollectOrphan(p, s)
             \/ Snap!CollectForget(p, s) \/ Snap!CollectDelete(p, s) \/ Snap!Evict(p, s)
      PROVE  SnInv'
  BY <1>4, SnRemoveBegin, SnRemoveLock, SnRemoveFiles, SnFinalize, SnCollectBegin, SnCollectCheck,
     SnCollectRest, SnCollectDelete
<1>5. ASSUME NEW p \in Operations,
             \/ \E k \in {"save", "hibernate"} : Snap!CaptureBegin(p, k)
             \/ Snap!CaptureRefused(p)
             \/ Snap!Crash(p)
      PROVE  SnInv'
  <2>1. CASE Snap!CaptureRefused(p)
    BY <2>1, SnReturns DEF Snap!CaptureRefused, Snap!files
  <2> QED
    BY <1>5, <2>1, SnCaptureBegin, SnCrash
<1>6. CASE Snap!SandboxStart \/ Snap!SandboxStop \/ Snap!GuestExit
  BY <1>6, SnSandbox
<1> QED
  BY SMTT(30), <1>1, <1>2, <1>3, <1>4, <1>5, <1>6 DEF Snap!Next

LEMMA SnInvariant ==
    /\ StoresInit => (focus = "snapshots" => SnInv)
    /\ (focus = "snapshots" => SnInv) /\ [StoresNext]_storesVars => (focus = "snapshots" => SnInv)'
<1> DEFINE Inv == focus = "snapshots" => SnInv
<1>1. StoresInit => Inv
  BY SnInit DEF StoresInit
<1>2. Inv /\ [StoresNext]_storesVars => Inv'
  <2> SUFFICES ASSUME Inv, [StoresNext]_storesVars, focus' = "snapshots" PROVE SnInv'
    OBVIOUS
  <2>1. CASE SnapshotsStep
    BY <2>1, SnNext DEF SnapshotsStep
  <2>2. CASE AccessStep
    BY <2>2 DEF AccessStep
  <2>3. CASE UNCHANGED storesVars
    BY <2>3, SnUnchanged DEF storesVars, snapVars
  <2> QED
    BY <2>1, <2>2, <2>3 DEF StoresNext
<1> QED
  BY <1>1, <1>2

(* A record that Resolve offers has its complete published directory, and a  *)
(* hibernation gives its guest up only for a committed, complete capture,    *)
(* for any number of operations, identities, failures and crashes (capture,  *)
(* persist, Remove, collectSnapshot).                                        *)
THEOREM CapturesStayDurable == StoresSpec => []CapturesAreDurable
<1> DEFINE Inv == focus = "snapshots" => SnInv
<1>1. Inv => CapturesAreDurable
  <2> SUFFICES ASSUME SnInv PROVE Snap!ReadyIsWhole /\ Snap!HibernateIsDurable
    BY DEF CapturesAreDurable, Snap!CapturesAreDurable
  <2>1. Snap!ReadyIsWhole
    BY DEF SnInv, SnKept, Snap!ReadyIsWhole
  <2>2. ASSUME NEW p \in Operations, NEW s \in SnapIds,
               snapOp[p].kind = "hibernate", snapOp[p].id = {s}, snapOp[p].step \in {"stop", "markStopped"}
        PROVE  snapRec[s] \in {"ready", "deleting"} /\ snapDir[s] = "whole"
    BY <2>2 DEF SnInv, SnOk, SnCap, SnCaptures
  <2> QED
    BY <2>1, <2>2 DEF Snap!HibernateIsDurable
<1> QED
  BY <1>1, SnInvariant, PTL DEF StoresSpec

(* Published files change under the exclusive lock of their identity.        *)
LEMMA SnHolds ==
    ASSUME SnInv, NEW q \in Operations, NEW u \in SnapIds,
           \/ \E t \in {"publish", "unstage"} : Snap!At(q, SnCaptures, u, t)
           \/ Snap!At(q, {"remove"}, u, "remove")
           \/ Snap!At(q, {"collect"}, u, "orphan")
    PROVE  snapWriter[u] = {q}
<1>1. CASE \E t \in {"publish", "unstage"} : Snap!At(q, SnCaptures, u, t)
  BY <1>1, SnCapturing DEF SnCaptureAt
<1>2. CASE Snap!At(q, {"remove"}, u, "remove")
  <2>1. snapOp[q].id = {u} /\ snapOp[q].kind = "remove" /\ snapOp[q].step = "remove"
    BY <1>2 DEF Snap!At
  <2>2. SnOk(q, "remove", "remove", u)
    BY <2>1 DEF SnInv
  <2> QED
    BY <2>2 DEF SnOk
<1>3. CASE Snap!At(q, {"collect"}, u, "orphan")
  BY <1>3, SnCollectAt
<1> QED
  BY <1>1, <1>2, <1>3

LEMMA SnDirs ==
    ASSUME SnInv, Snap!Next, NEW s \in SnapIds, snapWriter[s] = {}
    PROVE  snapDir'[s] = snapDir[s]
<1>1. ASSUME NEW q \in Operations, NEW u \in SnapIds,
             \/ Snap!Publish(q, u) \/ Snap!PublishFailed(q, u) \/ Snap!Unstage(q, u)
             \/ Snap!RemoveFiles(q, u) \/ Snap!CollectOrphan(q, u)
      PROVE  snapDir'[s] = snapDir[s]
  <2>1. /\ \/ \E t \in {"publish", "unstage"} : Snap!At(q, SnCaptures, u, t)
           \/ Snap!At(q, {"remove"}, u, "remove")
           \/ Snap!At(q, {"collect"}, u, "orphan")
        /\ snapDir' = snapDir \/ \E v : snapDir' = [snapDir EXCEPT ![u] = v]
    BY <1>1, SnAtAny DEF Snap!Publish, Snap!PublishFailed, Snap!Unstage, Snap!RemoveFiles,
       Snap!CollectOrphan, Snap!Set
  <2>2. snapWriter[u] = {q}
    BY <2>1, SnHolds
  <2>3. u # s
    BY <2>2
  <2> QED
    BY <2>1, <2>3 DEF SnInv, SnTyped
<1>2. ASSUME NEW q \in Operations, Snap!Crash(q) PROVE snapDir'[s] = snapDir[s]
  <2>1. ~Snap!At(q, {"remove"}, s, "remove")
    BY SnHolds
  <2> QED
    BY <1>2, <2>1 DEF Snap!Crash
<1>3. ASSUME NEW p \in Operations, NEW u \in SnapIds,
             \/ Snap!CaptureLock(p, u) \/ Snap!Reserve(p, u) \/ Snap!ReserveFailed(p, u)
             \/ Snap!PrepareStage(p, u) \/ Snap!PrepareStageFailed(p, u)
             \/ Snap!Pause(p, u) \/ Snap!PauseReplyLost(p, u) \/ Snap!PauseFailed(p, u)
             \/ Snap!Fill(p, u) \/ Snap!FillFailed(p, u) \/ Snap!FillInterrupted(p, u)
             \/ Snap!Resume(p, u) \/ Snap!ResumeLost(p, u)
      PROVE  snapDir'[s] = snapDir[s]
  BY <1>3 DEF Snap!CaptureLock, Snap!Reserve, Snap!ReserveFailed, Snap!PrepareStage, Snap!PrepareStageFailed,
     Snap!Pause, Snap!PauseReplyLost, Snap!PauseFailed, Snap!Fill, Snap!FillFailed, Snap!FillInterrupted,
     Snap!Resume, Snap!ResumeLost, Snap!files
<1>4. ASSUME NEW p \in Operations, NEW u \in SnapIds,
             \/ Snap!Commit(p, u) \/ Snap!CommitFailed(p, u) \/ Snap!Forget(p, u) \/ Snap!ForgetFailed(p, u)
             \/ Snap!HibernateBeginStop(p, u) \/ Snap!HibernateStop(p, u) \/ Snap!HibernateEnd(p, u)
             \/ Snap!ImportBegin(p, u)
             \/ \E k \in {"restore", "read"} : Snap!ReadBegin(p, k, u)
             \/ Snap!ReadLock(p, u) \/ Snap!Validate(p, u) \/ Snap!Use(p, u)
      PROVE  snapDir'[s] = snapDir[s]
  BY <1>4 DEF Snap!Commit, Snap!CommitFailed, Snap!Forget, Snap!ForgetFailed, Snap!HibernateBeginStop,
     Snap!HibernateStop, Snap!HibernateEnd, Snap!ImportBegin, Snap!ReadBegin, Snap!ReadLock, Snap!Validate,
     Snap!Use, Snap!files
<1>5. ASSUME NEW p \in Operations, NEW u \in SnapIds,
             \/ Snap!RestoreClean(p, u) \/ Snap!RestoreCreate(p, u) \/ Snap!RestoreCopy(p, u)
             \/ Snap!RestoreCopyFailed(p, u) \/ Snap!RestoreSkipStop(p, u) \/ Snap!RestoreStop(p, u)
             \/ Snap!RestoreLock(p, u) \/ Snap!RestoreReplace(p, u) \/ Snap!RestoreLaunch(p, u)
      PROVE  snapDir'[s] = snapDir[s]
  BY <1>5 DEF Snap!RestoreClean, Snap!RestoreCreate, Snap!RestoreCopy, Snap!RestoreCopyFailed,
     Snap!RestoreSkipStop, Snap!RestoreStop, Snap!RestoreLock, Snap!RestoreReplace, Snap!RestoreLaunch, Snap!files
<1>6. ASSUME NEW p \in Operations, NEW u \in SnapIds,
             \/ Snap!RemoveBegin(p, u) \/ Snap!RemoveLock(p, u) \/ Snap!FinalizeDelete(p, u)
             \/ Snap!CollectBegin(p, u) \/ Snap!CollectCheck(p, u)
             \/ Snap!CollectForget(p, u) \/ Snap!CollectDelete(p, u) \/ Snap!Evict(p, u)
      PROVE  snapDir'[s] = snapDir[s]
  BY <1>6 DEF Snap!RemoveBegin, Snap!RemoveLock, Snap!FinalizeDelete, Snap!CollectBegin, Snap!CollectCheck,
     Snap!CollectForget, Snap!CollectDelete, Snap!Evict, Snap!files
<1>7. ASSUME NEW p \in Operations,
             \/ \E k \in {"save", "hibernate"} : Snap!CaptureBegin(p, k)
             \/ Snap!CaptureRefused(p)
      PROVE  snapDir'[s] = snapDir[s]
  BY <1>7 DEF Snap!CaptureBegin, Snap!CaptureRefused, Snap!files
<1>8. CASE Snap!SandboxStart \/ Snap!SandboxStop \/ Snap!GuestExit
  BY <1>8 DEF Snap!SandboxStart, Snap!SandboxStop, Snap!GuestExit, Snap!files
<1> QED
  BY ZenonT(120), <1>1, <1>2, <1>3, <1>4, <1>5, <1>6, <1>7, <1>8 DEF Snap!Next

(* While a restore, a clone or an export reads a snapshot under its lease,   *)
(* no step of removal, collection, eviction or of another capture changes    *)
(* the files it reads (Resolve and the lease of storage.Locks).              *)
THEOREM SnapshotFilesStay == StoresSpec => LeasedFilesStay
<1> DEFINE Inv == focus = "snapshots" => SnInv
<1>1. Inv /\ [StoresNext]_storesVars => [focus = "snapshots" => Snap!LeasedFilesStep]_snapVars
  <2> SUFFICES ASSUME Inv, [StoresNext]_storesVars, focus = "snapshots",
                      NEW p \in Operations, NEW s \in SnapIds,
                      snapOp[p].kind \in {"restore", "read"}, snapOp[p].id = {s},
                      snapOp[p].step \notin {"rlock", "validate"}, ~UNCHANGED snapVars
               PROVE  snapDir'[s] = snapDir[s] /\ snapDir[s] = "whole"
    BY DEF Snap!LeasedFilesStep
  <2>1. SnInv
    OBVIOUS
  <2>2. SnOk(p, snapOp[p].kind, snapOp[p].step, s)
    BY <2>1 DEF SnInv
  <2>3. p \in snapReaders[s] /\ snapDir[s] = "whole"
    BY <2>2 DEF SnOk
  <2>4. snapWriter[s] = {}
    BY <2>1, <2>3 DEF SnInv, SnKept
  <2>5. CASE SnapshotsStep
    BY <2>1, <2>3, <2>4, <2>5, SnDirs DEF SnapshotsStep
  <2>6. CASE AccessStep
    BY <2>6 DEF AccessStep
  <2>7. CASE UNCHANGED storesVars
    BY <2>7 DEF storesVars
  <2> QED
    BY <2>5, <2>6, <2>7 DEF StoresNext
<1> QED
  BY <1>1, SnInvariant, PTL DEF StoresSpec, LeasedFilesStay

(* The operation that will resume or stop the guest it has paused.           *)
SnOwner(p) ==
    /\ snapOp[p].kind \in {"save", "hibernate"}
    /\ snapOp[p].step \in {"fill", "resume", "resumeFailed", "resumeKeep"}
         \/ (snapOp[p].kind = "hibernate" /\ snapOp[p].step \in {"publish", "commit", "beginStop", "stop"})

LEMMA SnOwned ==
    ASSUME Snap!PausedHasOwner, NEW p \in Operations,
           \A q \in Operations \ {p} : snapOp'[q] = snapOp[q],
           \/ snapGuest' # "paused"
           \/ snapUnresumed'
           \/ SnOwner(p)'
           \/ /\ snapGuest' = snapGuest /\ (snapUnresumed => snapUnresumed')
              /\ SnOwner(p) => SnOwner(p)'
    PROVE  Snap!PausedHasOwner'
<1>1. Snap!PausedHasOwner <=> ((snapGuest = "paused" /\ ~snapUnresumed) => \E q \in Operations : SnOwner(q))
  BY DEF Snap!PausedHasOwner, SnOwner
<1>2. Snap!PausedHasOwner' <=> ((snapGuest' = "paused" /\ ~snapUnresumed') => \E q \in Operations : SnOwner(q)')
  BY DEF Snap!PausedHasOwner, SnOwner
<1>3. \A q \in Operations \ {p} : SnOwner(q) => SnOwner(q)'
  BY DEF SnOwner
<1> QED
  BY <1>1, <1>2, <1>3

LEMMA SnOnly ==
    ASSUME SnInv, NEW p \in Operations,
           \/ \E t : Snap!Goto(p, t)
           \/ Snap!Return(p)
           \/ \E o : snapOp' = [snapOp EXCEPT ![p] = o]
    PROVE  \A q \in Operations \ {p} : snapOp'[q] = snapOp[q]
BY DEF SnInv, SnTyped, Snap!Goto, Snap!Return

(* Operations that own no guest before they step, and leave it as it is.     *)
LEMMA SnBystander ==
    ASSUME SnInv, Snap!PausedHasOwner, NEW p \in Operations,
           \/ \E t : Snap!Goto(p, t)
           \/ Snap!Return(p)
           \/ \E o : snapOp' = [snapOp EXCEPT ![p] = o],
           UNCHANGED <<snapGuest, snapUnresumed>>, ~SnOwner(p)
    PROVE  Snap!PausedHasOwner'
<1>1. \A q \in Operations \ {p} : snapOp'[q] = snapOp[q]
  BY SnOnly
<1> QED
  BY <1>1, SnOwned

LEMMA SnPausedCapture ==
    ASSUME SnInv, Snap!PausedHasOwner, NEW p \in Operations, NEW s \in SnapIds,
           \/ Snap!CaptureLock(p, s) \/ Snap!Reserve(p, s) \/ Snap!ReserveFailed(p, s)
           \/ Snap!PrepareStage(p, s) \/ Snap!PrepareStageFailed(p, s) \/ Snap!PauseFailed(p, s)
           \/ Snap!Forget(p, s) \/ Snap!ForgetFailed(p, s) \/ Snap!Unstage(p, s)
    PROVE  Snap!PausedHasOwner'
<1>1. CASE Snap!CaptureLock(p, s)
  <2>1. /\ snapOp' = [snapOp EXCEPT ![p].step = "reserve", ![p].id = {s}]
        /\ UNCHANGED <<snapGuest, snapUnresumed>> /\ snapOp[p].step = "lock"
    BY <1>1 DEF Snap!CaptureLock, Snap!machine
  <2>2. \A q \in Operations \ {p} : snapOp'[q] = snapOp[q]
    BY <2>1 DEF SnInv, SnTyped
  <2>3. ~SnOwner(p)
    BY <2>1 DEF SnOwner
  <2> QED
    BY <2>1, <2>2, <2>3, SnOwned
<1>2. CASE Snap!Reserve(p, s) \/ Snap!ReserveFailed(p, s) \/ Snap!PrepareStage(p, s)
  <2>1. /\ (\E t : Snap!Goto(p, t)) \/ Snap!Return(p)
        /\ UNCHANGED <<snapGuest, snapUnresumed>> /\ snapOp[p].step \in {"reserve", "stage"}
    BY <1>2 DEF Snap!Reserve, Snap!ReserveFailed, Snap!PrepareStage, Snap!machine, Snap!At
  <2>2. ~SnOwner(p)
    BY <2>1 DEF SnOwner
  <2> QED
    BY <2>1, <2>2, SnBystander
<1>3. CASE Snap!PrepareStageFailed(p, s) \/ Snap!PauseFailed(p, s)
  <2>1. /\ (\E t : Snap!Goto(p, t)) \/ Snap!Return(p)
        /\ UNCHANGED <<snapGuest, snapUnresumed>> /\ snapOp[p].step \in {"stage", "pause"}
    BY <1>3 DEF Snap!PrepareStageFailed, Snap!PauseFailed, Snap!machine, Snap!At
  <2>2. ~SnOwner(p)
    BY <2>1 DEF SnOwner
  <2> QED
    BY <2>1, <2>2, SnBystander
<1>4. CASE Snap!Forget(p, s) \/ Snap!ForgetFailed(p, s) \/ Snap!Unstage(p, s)
  <2>1. /\ (\E t : Snap!Goto(p, t)) \/ Snap!Return(p)
        /\ UNCHANGED <<snapGuest, snapUnresumed>> /\ snapOp[p].step \in {"forget", "unstage"}
    BY <1>4 DEF Snap!Forget, Snap!ForgetFailed, Snap!Unstage, Snap!machine, Snap!At
  <2>2. ~SnOwner(p)
    BY <2>1 DEF SnOwner
  <2> QED
    BY <2>1, <2>2, SnBystander
<1> QED
  BY <1>1, <1>2, <1>3, <1>4

LEMMA SnPausedOthers ==
    ASSUME SnInv, Snap!PausedHasOwner, NEW p \in Operations, NEW s \in SnapIds,
           \/ Snap!ImportBegin(p, s)
           \/ \E k \in {"restore", "read"} : Snap!ReadBegin(p, k, s)
           \/ Snap!ReadLock(p, s) \/ Snap!Validate(p, s) \/ Snap!Use(p, s)
           \/ Snap!RestoreClean(p, s) \/ Snap!RestoreCreate(p, s) \/ Snap!RestoreCopy(p, s)
           \/ Snap!RestoreCopyFailed(p, s) \/ Snap!RestoreSkipStop(p, s)
           \/ Snap!RestoreLock(p, s) \/ Snap!RestoreReplace(p, s)
           \/ Snap!RemoveBegin(p, s) \/ Snap!RemoveLock(p, s) \/ Snap!RemoveFiles(p, s) \/ Snap!FinalizeDelete(p, s)
           \/ Snap!CollectBegin(p, s) \/ Snap!CollectCheck(p, s) \/ Snap!CollectOrphan(p, s)
           \/ Snap!CollectForget(p, s) \/ Snap!CollectDelete(p, s) \/ Snap!Evict(p, s)
    PROVE  Snap!PausedHasOwner'
<1> DEFINE Steps == \/ \E t : Snap!Goto(p, t)
                    \/ Snap!Return(p)
                    \/ \E o : snapOp' = [snapOp EXCEPT ![p] = o]
<1>1. CASE \/ Snap!ImportBegin(p, s) \/ (\E k \in {"restore", "read"} : Snap!ReadBegin(p, k, s))
           \/ Snap!RemoveBegin(p, s) \/ Snap!CollectBegin(p, s) \/ Snap!Evict(p, s)
  <2>1. snapOp[p] = Snap!Idle /\ UNCHANGED <<snapGuest, snapUnresumed>>
    BY <1>1 DEF Snap!ImportBegin, Snap!ReadBegin, Snap!RemoveBegin, Snap!CollectBegin, Snap!Evict, Snap!Begin,
       Snap!machine
  <2>2. \E o : snapOp' = [snapOp EXCEPT ![p] = o]
    BY ZenonT(30), <1>1 DEF Snap!ImportBegin, Snap!ReadBegin, Snap!RemoveBegin, Snap!CollectBegin, Snap!Evict, Snap!Begin
  <2>3. ~SnOwner(p)
    BY SMTT(30), <2>1 DEF SnOwner, Snap!Idle
  <2> QED
    BY <2>1, <2>2, <2>3, SnBystander
<1>2. CASE \/ Snap!ReadLock(p, s) \/ Snap!Validate(p, s) \/ Snap!Use(p, s)
           \/ Snap!RestoreClean(p, s) \/ Snap!RestoreCreate(p, s) \/ Snap!RestoreCopy(p, s)
  <2>1. snapOp[p].kind \in {"restore", "read"} /\ UNCHANGED <<snapGuest, snapUnresumed>> /\ Steps
    BY <1>2 DEF Snap!ReadLock, Snap!Validate, Snap!Use, Snap!RestoreClean, Snap!RestoreCreate, Snap!RestoreCopy,
       Snap!machine, Snap!At
  <2>2. ~SnOwner(p)
    BY <2>1 DEF SnOwner
  <2> QED
    BY <2>1, <2>2, SnBystander
<1>3. CASE \/ Snap!RestoreCopyFailed(p, s) \/ Snap!RestoreSkipStop(p, s)
           \/ Snap!RestoreLock(p, s) \/ Snap!RestoreReplace(p, s)
           \/ Snap!RemoveLock(p, s) \/ Snap!RemoveFiles(p, s) \/ Snap!FinalizeDelete(p, s)
  <2>1. snapOp[p].kind \in {"restore", "remove"} /\ UNCHANGED <<snapGuest, snapUnresumed>> /\ Steps
    BY <1>3 DEF Snap!RestoreCopyFailed, Snap!RestoreSkipStop, Snap!RestoreLock, Snap!RestoreReplace,
       Snap!RemoveLock, Snap!RemoveFiles, Snap!FinalizeDelete, Snap!machine, Snap!At
  <2>2. ~SnOwner(p)
    BY <2>1 DEF SnOwner
  <2> QED
    BY <2>1, <2>2, SnBystander
<1>4. CASE \/ Snap!CollectCheck(p, s) \/ Snap!CollectOrphan(p, s)
           \/ Snap!CollectForget(p, s) \/ Snap!CollectDelete(p, s)
  <2>1. snapOp[p].kind \in {"collect", "evict"} /\ UNCHANGED <<snapGuest, snapUnresumed>>
    BY <1>4 DEF Snap!CollectCheck, Snap!CollectOrphan, Snap!CollectForget, Snap!CollectDelete, Snap!machine, Snap!At
  <2>2. Steps
    BY <1>4 DEF Snap!CollectCheck, Snap!CollectOrphan, Snap!CollectForget, Snap!CollectDelete
  <2>3. ~SnOwner(p)
    BY <2>1 DEF SnOwner
  <2> QED
    BY <2>1, <2>2, <2>3, SnBystander
<1> QED
  BY <1>1, <1>2, <1>3, <1>4

LEMMA SnPausedFill ==
    ASSUME SnInv, Snap!PausedHasOwner, NEW p \in Operations, NEW s \in SnapIds,
           \/ Snap!Pause(p, s) \/ Snap!PauseReplyLost(p, s)
           \/ Snap!Fill(p, s) \/ Snap!FillFailed(p, s) \/ Snap!FillInterrupted(p, s)
           \/ Snap!Resume(p, s) \/ Snap!ResumeLost(p, s)
    PROVE  Snap!PausedHasOwner'
<1>1. CASE Snap!Pause(p, s)
  <2>1. Snap!Goto(p, "fill") /\ snapOp[p].kind \in {"save", "hibernate"} /\ "fill" \in SnSteps
    BY <1>1 DEF Snap!Pause, Snap!At, SnSteps
  <2>2. (\A q \in Operations \ {p} : snapOp'[q] = snapOp[q]) /\ SnOwner(p)'
    BY <2>1, SnGoto DEF SnOwner
  <2> QED
    BY <2>2, SnOwned
<1>2. CASE Snap!PauseReplyLost(p, s)
  <2>1. Snap!Goto(p, "forget") /\ snapUnresumed'
    BY <1>2 DEF Snap!PauseReplyLost
  <2>2. \A q \in Operations \ {p} : snapOp'[q] = snapOp[q]
    BY <2>1, SnOnly
  <2> QED
    BY <2>1, <2>2, SnOwned
<1>3. CASE Snap!Fill(p, s) \/ Snap!FillFailed(p, s) \/ Snap!FillInterrupted(p, s)
  <2>1. UNCHANGED <<snapGuest, snapUnresumed>>
    BY <1>3 DEF Snap!Fill, Snap!FillFailed, Snap!FillInterrupted, Snap!machine
  <2>2. CASE snapOp[p].kind = "import"
    <3>1. \E t : Snap!Goto(p, t)
      BY <1>3 DEF Snap!Fill, Snap!FillFailed, Snap!FillInterrupted
    <3>2. ~SnOwner(p)
      BY <2>2 DEF SnOwner
    <3> QED
      BY <2>1, <3>1, <3>2, SnBystander
  <2>3. CASE snapOp[p].kind # "import"
    <3>1. /\ snapOp[p].kind \in {"save", "hibernate"}
          /\ \/ Snap!Goto(p, "resumeFailed")
             \/ snapOp[p].kind = "save" /\ Snap!Goto(p, "resume")
             \/ snapOp[p].kind = "hibernate" /\ Snap!Goto(p, "publish")
      <4>1. CASE Snap!Fill(p, s)
        BY <4>1, <2>3 DEF Snap!Fill, Snap!At
      <4>2. CASE Snap!FillFailed(p, s) \/ Snap!FillInterrupted(p, s)
        BY <4>2, <2>3 DEF Snap!FillFailed, Snap!FillInterrupted, Snap!At
      <4> QED
        BY <1>3, <4>1, <4>2
    <3>2. {"resumeFailed", "resume", "publish"} \subseteq SnSteps
      BY DEF SnSteps
    <3>3. (\A q \in Operations \ {p} : snapOp'[q] = snapOp[q]) /\ SnOwner(p)'
      BY <3>1, <3>2, SnGoto DEF SnOwner
    <3> QED
      BY <3>3, SnOwned
  <2> QED
    BY <2>2, <2>3
<1>4. CASE Snap!Resume(p, s)
  <2>1. ((\E t : Snap!Goto(p, t)) \/ Snap!Return(p)) /\ snapGuest' # "paused"
    BY <1>4 DEF Snap!Resume
  <2>2. \A q \in Operations \ {p} : snapOp'[q] = snapOp[q]
    BY <2>1, SnOnly
  <2> QED
    BY <2>1, <2>2, SnOwned
<1>5. CASE Snap!ResumeLost(p, s)
  <2>1. ((\E t : Snap!Goto(p, t)) \/ Snap!Return(p)) /\ snapUnresumed'
    BY <1>5 DEF Snap!ResumeLost
  <2>2. \A q \in Operations \ {p} : snapOp'[q] = snapOp[q]
    BY <2>1, SnOnly
  <2> QED
    BY <2>1, <2>2, SnOwned
<1> QED
  BY <1>1, <1>2, <1>3, <1>4, <1>5

LEMMA SnPausedPersist ==
    ASSUME SnInv, Snap!PausedHasOwner, NEW p \in Operations, NEW s \in SnapIds,
           \/ Snap!Publish(p, s) \/ Snap!PublishFailed(p, s)
           \/ Snap!Commit(p, s) \/ Snap!CommitFailed(p, s)
    PROVE  Snap!PausedHasOwner'
<1>1. /\ UNCHANGED <<snapGuest, snapUnresumed>> /\ snapOp[p].step \in {"publish", "commit"}
      /\ (\E t : Snap!Goto(p, t)) \/ Snap!Return(p)
  BY DEF Snap!Publish, Snap!PublishFailed, Snap!Commit, Snap!CommitFailed, Snap!machine, Snap!At
<1>2. CASE snapOp[p].kind # "hibernate"
  <2>1. ~SnOwner(p)
    BY <1>1, <1>2 DEF SnOwner
  <2> QED
    BY <1>1, <2>1, SnBystander
<1>3. CASE snapOp[p].kind = "hibernate"
  <2>1. Snap!Goto(p, "commit") \/ Snap!Goto(p, "resumeFailed") \/ Snap!Goto(p, "beginStop")
    BY <1>3 DEF Snap!Publish, Snap!PublishFailed, Snap!Commit, Snap!CommitFailed, Snap!PersistFailed
  <2>2. {"commit", "resumeFailed", "beginStop"} \subseteq SnSteps
    BY DEF SnSteps
  <2>3. (\A q \in Operations \ {p} : snapOp'[q] = snapOp[q]) /\ SnOwner(p)'
    BY <1>3, <2>1, <2>2, SnGoto DEF SnOwner
  <2> QED
    BY <2>3, SnOwned
<1> QED
  BY <1>2, <1>3

LEMMA SnPausedStop ==
    ASSUME SnInv, Snap!PausedHasOwner, NEW p \in Operations, NEW s \in SnapIds,
           \/ Snap!HibernateBeginStop(p, s) \/ Snap!HibernateStop(p, s) \/ Snap!HibernateEnd(p, s)
           \/ Snap!RestoreStop(p, s) \/ Snap!RestoreLaunch(p, s)
    PROVE  Snap!PausedHasOwner'
<1>1. CASE Snap!HibernateBeginStop(p, s)
  <2>1. (Snap!Goto(p, "stop") \/ Snap!Goto(p, "resumeKeep")) /\ snapOp[p].kind = "hibernate"
    BY <1>1 DEF Snap!HibernateBeginStop, Snap!At
  <2>2. {"stop", "resumeKeep"} \subseteq SnSteps
    BY DEF SnSteps
  <2>3. (\A q \in Operations \ {p} : snapOp'[q] = snapOp[q]) /\ SnOwner(p)'
    BY <2>1, <2>2, SnGoto DEF SnOwner
  <2> QED
    BY <2>3, SnOwned
<1>2. CASE Snap!HibernateStop(p, s) \/ Snap!RestoreStop(p, s)
  <2>1. (\E t : Snap!Goto(p, t)) /\ snapGuest' = "off"
    BY <1>2 DEF Snap!HibernateStop, Snap!RestoreStop
  <2>2. \A q \in Operations \ {p} : snapOp'[q] = snapOp[q]
    BY <2>1, SnOnly
  <2> QED
    BY <2>1, <2>2, SnOwned
<1>3. CASE Snap!HibernateEnd(p, s)
  <2>1. Snap!Return(p) /\ UNCHANGED snapGuest /\ snapUnresumed' = (snapUnresumed \/ snapGuest = "paused")
    BY <1>3 DEF Snap!HibernateEnd
  <2>2. \A q \in Operations \ {p} : snapOp'[q] = snapOp[q]
    BY <2>1, SnOnly
  <2>3. snapGuest' # "paused" \/ snapUnresumed'
    BY <2>1
  <2> QED
    BY <2>2, <2>3, SnOwned
<1>4. CASE Snap!RestoreLaunch(p, s)
  <2>1. /\ Snap!Return(p) /\ UNCHANGED snapUnresumed /\ (snapGuest' = "running" \/ UNCHANGED snapGuest)
        /\ snapOp[p].kind = "restore"
    BY <1>4 DEF Snap!RestoreLaunch, Snap!At
  <2>2. \A q \in Operations \ {p} : snapOp'[q] = snapOp[q]
    BY <2>1, SnOnly
  <2>3. ~SnOwner(p)
    BY <2>1 DEF SnOwner
  <2> QED
    BY <2>1, <2>2, <2>3, SnOwned
<1> QED
  BY <1>1, <1>2, <1>3, <1>4

LEMMA SnPausedRest ==
    ASSUME SnInv, Snap!PausedHasOwner, NEW p \in Operations,
           \/ \E k \in {"save", "hibernate"} : Snap!CaptureBegin(p, k)
           \/ Snap!CaptureRefused(p)
           \/ Snap!Crash(p)
    PROVE  Snap!PausedHasOwner'
<1>1. CASE \E k \in {"save", "hibernate"} : Snap!CaptureBegin(p, k)
  <2>1. snapOp[p] = Snap!Idle /\ UNCHANGED <<snapGuest, snapUnresumed>>
    BY <1>1 DEF Snap!CaptureBegin, Snap!Begin, Snap!machine
  <2>2. \E o : snapOp' = [snapOp EXCEPT ![p] = o]
    BY <1>1 DEF Snap!CaptureBegin, Snap!Begin
  <2>3. ~SnOwner(p)
    BY SMTT(30), <2>1 DEF SnOwner, Snap!Idle
  <2> QED
    BY <2>1, <2>2, <2>3, SnBystander
<1>2. CASE Snap!CaptureRefused(p)
  <2>1. Snap!Return(p) /\ UNCHANGED <<snapGuest, snapUnresumed>> /\ snapOp[p].step = "lock"
    BY <1>2 DEF Snap!CaptureRefused, Snap!machine
  <2>2. ~SnOwner(p)
    BY <2>1 DEF SnOwner
  <2> QED
    BY <2>1, <2>2, SnBystander
<1>3. CASE Snap!Crash(p)
  <2>1. /\ Snap!Return(p) /\ UNCHANGED snapGuest
        /\ snapUnresumed' = (snapUnresumed \/ (snapGuest = "paused" /\ snapOp[p].kind \in {"save", "hibernate"}
                                   /\ snapOp[p].step \notin {"lock", "reserve", "stage", "pause"}))
    BY <1>3 DEF Snap!Crash
  <2>2. \A q \in Operations \ {p} : snapOp'[q] = snapOp[q]
    BY <2>1, SnOnly
  <2>3. snapGuest = "paused" /\ SnOwner(p) => snapUnresumed'
    BY <2>1 DEF SnOwner
  <2>4. snapUnresumed => snapUnresumed'
    BY <2>1
  <2> QED
    BY <2>1, <2>2, <2>3, <2>4, SnOwned
<1> QED
  BY <1>1, <1>2, <1>3

LEMMA SnPausedSandbox ==
    ASSUME Snap!PausedHasOwner, Snap!SandboxStart \/ Snap!SandboxStop \/ Snap!GuestExit
    PROVE  Snap!PausedHasOwner'
<1>1. snapGuest' \in {"running", "off"}
  BY DEF Snap!SandboxStart, Snap!SandboxStop, Snap!GuestExit
<1> QED
  BY <1>1 DEF Snap!PausedHasOwner

LEMMA SnPausedNext ==
    ASSUME SnInv, Snap!PausedHasOwner, Snap!Next
    PROVE  Snap!PausedHasOwner'
<1>1. ASSUME NEW p \in Operations, NEW s \in SnapIds,
             \/ Snap!CaptureLock(p, s) \/ Snap!Reserve(p, s) \/ Snap!ReserveFailed(p, s)
             \/ Snap!PrepareStage(p, s) \/ Snap!PrepareStageFailed(p, s)
             \/ Snap!Pause(p, s) \/ Snap!PauseReplyLost(p, s) \/ Snap!PauseFailed(p, s)
             \/ Snap!Fill(p, s) \/ Snap!FillFailed(p, s) \/ Snap!FillInterrupted(p, s)
             \/ Snap!Resume(p, s) \/ Snap!ResumeLost(p, s)
      PROVE  Snap!PausedHasOwner'
  BY <1>1, SnPausedCapture, SnPausedFill
<1>2. ASSUME NEW p \in Operations, NEW s \in SnapIds,
             \/ Snap!Publish(p, s) \/ Snap!PublishFailed(p, s) \/ Snap!Commit(p, s) \/ Snap!CommitFailed(p, s)
             \/ Snap!Forget(p, s) \/ Snap!ForgetFailed(p, s) \/ Snap!Unstage(p, s)
             \/ Snap!HibernateBeginStop(p, s) \/ Snap!HibernateStop(p, s) \/ Snap!HibernateEnd(p, s)
             \/ Snap!ImportBegin(p, s)
      PROVE  Snap!PausedHasOwner'
  BY <1>2, SnPausedCapture, SnPausedPersist, SnPausedStop, SnPausedOthers
<1>3. ASSUME NEW p \in Operations, NEW s \in SnapIds,
             \/ \E k \in {"restore", "read"} : Snap!ReadBegin(p, k, s)
             \/ Snap!ReadLock(p, s) \/ Snap!Validate(p, s) \/ Snap!Use(p, s)
             \/ Snap!RestoreClean(p, s) \/ Snap!RestoreCreate(p, s) \/ Snap!RestoreCopy(p, s)
             \/ Snap!RestoreCopyFailed(p, s) \/ Snap!RestoreSkipStop(p, s) \/ Snap!RestoreStop(p, s)
             \/ Snap!RestoreLock(p, s) \/ Snap!RestoreReplace(p, s) \/ Snap!RestoreLaunch(p, s)
      PROVE  Snap!PausedHasOwner'
  BY <1>3, SnPausedStop, SnPausedOthers
<1>4. ASSUME NEW p \in Operations, NEW s \in SnapIds,
             \/ Snap!RemoveBegin(p, s) \/ Snap!RemoveLock(p, s) \/ Snap!RemoveFiles(p, s) \/ Snap!FinalizeDelete(p, s)
             \/ Snap!CollectBegin(p, s) \/ Snap!CollectCheck(p, s) \/ Snap!CollectOrphan(p, s)
             \/ Snap!CollectForget(p, s) \/ Snap!CollectDelete(p, s) \/ Snap!Evict(p, s)
      PROVE  Snap!PausedHasOwner'
  BY <1>4, SnPausedOthers
<1>5. CASE Snap!SandboxStart \/ Snap!SandboxStop \/ Snap!GuestExit
  BY <1>5, SnPausedSandbox
<1> QED
  BY SMTT(30), <1>1, <1>2, <1>3, <1>4, <1>5, SnPausedRest DEF Snap!Next

(* A guest that a capture has paused has an operation that will resume it or *)
(* stop it, through failed captures, uncertain commits and hibernations,     *)
(* unless that operation died or its request to the VMM failed (Snapshot,    *)
(* Hibernate, pauseForCapture).                                              *)
THEOREM PausedGuestsHaveOwners == StoresSpec => []PausedHasOwner
<1> DEFINE Inv == focus = "snapshots" => SnInv
<1>1. StoresInit => PausedHasOwner
  BY DEF StoresInit, Snap!Init, PausedHasOwner, Snap!PausedHasOwner
<1>2. Inv /\ PausedHasOwner /\ [StoresNext]_storesVars => PausedHasOwner'
  <2> SUFFICES ASSUME Inv, PausedHasOwner, [StoresNext]_storesVars, focus' = "snapshots"
               PROVE  Snap!PausedHasOwner'
    BY DEF PausedHasOwner
  <2>1. CASE SnapshotsStep
    BY <2>1, SnPausedNext DEF SnapshotsStep, PausedHasOwner
  <2>2. CASE AccessStep
    BY <2>2 DEF AccessStep
  <2>3. CASE UNCHANGED storesVars
    BY <2>3 DEF storesVars, snapVars, PausedHasOwner, Snap!PausedHasOwner
  <2> QED
    BY <2>1, <2>2, <2>3 DEF StoresNext
<1> QED
  BY <1>1, <1>2, SnInvariant, PTL DEF StoresSpec

(* Usage times.  What a view has seen is never more than buffer and catalog  *)
(* hold together, and a view under the evictor's lock that no retirement     *)
(* interrupted has seen every completed touch.                               *)

AccGoals == {"idle", "record", "tryLock", "compare"}
AccSteps == AccGoals \cup {"touch", "view", "db", "buffer", "recheck"}
AccActors ==
    [step : AccSteps, snap : SUBSET Used, time : Nat, gen : Nat, db : Nat, seen : Nat,
     goal : AccGoals, chosen : Nat]

AccTyped ==
    /\ accState \in [Used -> {"ready", "deleting"}]
    /\ accDurable \in [Used -> Nat] /\ accPending \in [Used -> Nat] /\ accTouched \in [Used -> Nat]
    /\ accGeneration \in Nat /\ accNow \in Nat
    /\ accFlush \in [step : {"idle", "cloned", "committed"}, batch : [Used -> Nat]]
    /\ accLease \in [Used -> SUBSET Actors] /\ accLock \in [Used -> SUBSET Actors]
    /\ accAct \in [Actors -> AccActors]

(* The catalog and the buffer together hold time t for s.                    *)
AccHeld(s, t) == t <= accDurable[s] \/ t <= accPending[s]

AccKept ==
    /\ \A s \in Used : accState[s] = "ready" => AccHeld(s, accTouched[s])
    /\ accFlush.step = "committed" => \A s \in Used : accState[s] = "ready" => accFlush.batch[s] <= accDurable[s]
    /\ \A s \in Used : accLock[s] # {} => accLease[s] = {}

AccViews(a, s) ==
    /\ accAct[a].gen <= accGeneration
    /\ accAct[a].step = "touch" \/ accAct[a].goal = "record" => a \in accLease[s]
    /\ accAct[a].step \in AccGoals => accAct[a].goal = accAct[a].step
    /\ accAct[a].goal = "compare" => accLock[s] = {a}
    /\ accState[s] = "ready" => /\ accAct[a].db <= accDurable[s]
                                /\ AccHeld(s, accAct[a].seen)

AccFresh(a, s) ==
    accAct[a].goal = "compare" /\ accState[s] = "ready" =>
        /\ accAct[a].step = "buffer" /\ accAct[a].gen = accGeneration =>
               accTouched[s] <= accAct[a].db \/ accTouched[s] <= accPending[s]
        /\ accAct[a].step = "recheck" /\ accAct[a].gen = accGeneration => accTouched[s] <= accAct[a].seen
        /\ accAct[a].step = "compare" => accTouched[s] <= accAct[a].seen

AccInv ==
    /\ AccTyped /\ AccKept
    /\ \A a \in Actors, s \in Used : accAct[a].snap = {s} => AccViews(a, s) /\ AccFresh(a, s)

(* What the others do does not disturb an actor's view.                      *)
LEMMA AccFrame ==
    ASSUME AccInv, NEW b \in Actors, NEW s \in Used, accAct'[b] = accAct[b],
           accState'[s] = "ready" => /\ accState[s] = "ready"
                                     /\ accDurable[s] <= accDurable'[s]
                                     /\ \A t \in Nat : AccHeld(s, t) => AccHeld(s, t)',
           b \in accLease[s] => b \in accLease'[s],
           accLock[s] = {b} => accLock'[s] = {b} /\ accTouched'[s] = accTouched[s],
           \/ accGeneration' = accGeneration /\ accPending[s] <= accPending'[s]
           \/ accGeneration' = accGeneration + 1,
           accPending'[s] \in Nat, accDurable'[s] \in Nat
    PROVE  accAct'[b].snap = {s} => AccViews(b, s)' /\ AccFresh(b, s)'
<1> SUFFICES ASSUME accAct[b].snap = {s} PROVE AccViews(b, s)' /\ AccFresh(b, s)'
  OBVIOUS
<1>1. AccViews(b, s) /\ AccFresh(b, s) /\ accAct[b] \in AccActors
  BY DEF AccInv, AccTyped
<1>2. accAct[b].gen \in Nat /\ accAct[b].db \in Nat /\ accAct[b].seen \in Nat /\ accGeneration \in Nat
      /\ accTouched[s] \in Nat /\ accPending[s] \in Nat /\ accDurable[s] \in Nat
  BY ZenonT(30), <1>1 DEF AccActors, AccInv, AccTyped
<1>3. AccViews(b, s)'
  BY SMTT(30), <1>1, <1>2 DEF AccViews
<1>4. AccFresh(b, s)'
  BY SMTT(30), <1>1, <1>2 DEF AccFresh, AccViews
<1> QED
  BY <1>3, <1>4

(* A step that changes the actor's own variables only.                       *)
LEMMA AccLocal ==
    ASSUME AccInv, NEW a \in Actors, NEW s \in Used, NEW o \in AccActors, o.snap = {s},
           accAct' = [accAct EXCEPT ![a] = accAct'[a]], accAct'[a] = o,
           UNCHANGED <<accState, accDurable, accPending, accGeneration, accFlush, accLease, accLock, accTouched, accNow>>,
           AccViews(a, s)', AccFresh(a, s)'
    PROVE  AccInv'
<1>1. AccTyped'
  BY DEF AccInv, AccTyped
<1>2. AccKept'
  BY DEF AccInv, AccKept, AccHeld
<1>3. ASSUME NEW b \in Actors, NEW u \in Used, b # a
      PROVE  accAct'[b].snap = {u} => AccViews(b, u)' /\ AccFresh(b, u)'
  <2>1. accAct'[b] = accAct[b]
    BY <1>3 DEF AccInv, AccTyped
  <2>2. accPending[u] <= accPending'[u] /\ accPending'[u] \in Nat /\ accDurable'[u] \in Nat
        /\ accDurable[u] <= accDurable'[u]
    BY SMTT(30) DEF AccInv, AccTyped
  <2>3. \A t \in Nat : AccHeld(u, t) => AccHeld(u, t)'
    BY DEF AccHeld
  <2> QED
    BY <2>1, <2>2, <2>3, AccFrame
<1>4. ASSUME NEW u \in Used, accAct'[a].snap = {u} PROVE u = s
  BY <1>4
<1> QED
  BY <1>1, <1>2, <1>3, <1>4 DEF AccInv

(* An actor that comes to rest, with what it releases and records.           *)
LEMMA AccRest ==
    ASSUME AccInv, NEW a \in Actors, NEW s \in Used,
           accAct' = [accAct EXCEPT ![a] = Access!Resting],
           AccTyped', AccKept', accGeneration' = accGeneration, accFlush' = accFlush,
           accDurable' = accDurable,
           \A u \in Used : accState'[u] = "ready" => accState[u] = "ready",
           \A u \in Used : accPending[u] <= accPending'[u],
           accLock[s] # {} => accTouched' = accTouched,
           \A u \in Used \ {s} : accLease'[u] = accLease[u] /\ accLock'[u] = accLock[u] /\ accTouched'[u] = accTouched[u],
           accLease[s] \ {a} \subseteq accLease'[s],
           \A b \in Actors : b # a /\ accLock[s] = {b} => accLock'[s] = {b}
    PROVE  AccInv'
<1>1. ASSUME NEW b \in Actors, NEW u \in Used, b # a
      PROVE  accAct'[b].snap = {u} => AccViews(b, u)' /\ AccFresh(b, u)'
  <2>1. accAct'[b] = accAct[b]
    BY SMTT(30), <1>1 DEF AccInv, AccTyped
  <2>2. accPending[u] <= accPending'[u] /\ accPending'[u] \in Nat /\ accDurable'[u] \in Nat
        /\ accDurable[u] <= accDurable'[u] /\ accPending[u] \in Nat
    BY SMTT(30) DEF AccInv, AccTyped
  <2>3. \A t \in Nat : AccHeld(u, t) => AccHeld(u, t)'
    BY SMTT(30), <2>2 DEF AccHeld
  <2>4. b \in accLease[u] => b \in accLease'[u]
    BY <1>1
  <2>5. accLock[u] = {b} => accLock'[u] = {b} /\ accTouched'[u] = accTouched[u]
    BY <1>1
  <2> QED
    BY <2>1, <2>2, <2>3, <2>4, <2>5, AccFrame
<1>2. accAct'[a].snap = {}
  BY DEF AccInv, AccTyped, Access!Resting
<1> QED
  BY <1>1, <1>2 DEF AccInv

LEMMA AccResting == Access!Resting \in AccActors
BY DEF Access!Resting, AccActors, AccSteps, AccGoals

LEMMA AccUnchanged ==
    ASSUME AccInv, UNCHANGED accVars PROVE AccInv'
BY SMTT(30) DEF AccInv, accVars, AccTyped, AccKept, AccViews, AccFresh, AccHeld

LEMMA AccInit == Access!Init => AccInv
<1> SUFFICES ASSUME Access!Init PROVE AccInv
  OBVIOUS
<1>1. AccTyped
  BY AccResting DEF Access!Init, AccTyped, Access!NoBatch
<1>2. AccKept
  BY SMTT(30) DEF Access!Init, AccKept, AccHeld
<1>3. \A a \in Actors : accAct[a].snap = {}
  BY DEF Access!Init, Access!Resting
<1> QED
  BY <1>1, <1>2, <1>3 DEF AccInv

LEMMA AccLater ==
    ASSUME NEW x \in Nat, NEW y \in Nat
    PROVE  /\ Access!Later(x, y) \in Nat /\ x <= Access!Later(x, y) /\ y <= Access!Later(x, y)
           /\ Access!Later(x, y) = x \/ Access!Later(x, y) = y
BY SMTT(30) DEF Access!Later

(* What an actor at a step knows, as a record with its fields.               *)
LEMMA AccAt ==
    ASSUME AccInv, NEW a \in Actors, NEW s \in Used, NEW k, Access!At(a, s, k)
    PROVE  /\ accAct[a].step = k /\ accAct[a].snap = {s} /\ accAct[a] \in AccActors
           /\ AccViews(a, s) /\ AccFresh(a, s)
BY DEF Access!At, AccInv, AccTyped

LEMMA AccViewBegin ==
    ASSUME AccInv, NEW a \in Actors, NEW s \in Used, Access!ViewBegin(a, s)
    PROVE  AccInv'
<1> DEFINE o == [step |-> "db", snap |-> {s}, time |-> accAct[a].time, gen |-> accGeneration,
                 db |-> accAct[a].db, seen |-> accAct[a].seen, goal |-> accAct[a].goal,
                 chosen |-> accAct[a].chosen]
<1>1. Access!At(a, s, "view")
  BY DEF Access!ViewBegin
<1>2. AccViews(a, s) /\ accAct[a] \in AccActors /\ accAct[a].step = "view" /\ accAct[a].snap = {s}
  BY <1>1, AccAt
<1>3. o \in AccActors
  BY <1>2 DEF AccActors, AccSteps, AccGoals, AccInv, AccTyped
<1>4. /\ accAct' = [accAct EXCEPT ![a] = accAct'[a]]
      /\ accAct'[a] = [accAct[a] EXCEPT !.step = "db", !.gen = accGeneration]
  BY DEF Access!ViewBegin, AccInv, AccTyped
<1>5. accAct'[a] = o
  BY <1>2, <1>4 DEF AccActors
<1>6. UNCHANGED <<accState, accDurable, accPending, accGeneration, accFlush, accLease, accLock, accTouched, accNow>>
  BY DEF Access!ViewBegin
<1>7. AccViews(a, s)' /\ AccFresh(a, s)'
  BY SMTT(30), <1>2, <1>5, <1>6 DEF AccViews, AccFresh, AccHeld, AccGoals, AccInv, AccTyped
<1> QED
  BY <1>3, <1>4, <1>5, <1>6, <1>7, AccLocal

LEMMA AccViewDatabase ==
    ASSUME AccInv, NEW a \in Actors, NEW s \in Used, Access!ViewDatabase(a, s)
    PROVE  AccInv'
<1> DEFINE o == [step |-> "buffer", snap |-> {s}, time |-> accAct[a].time, gen |-> accAct[a].gen,
                 db |-> accDurable[s], seen |-> accAct[a].seen, goal |-> accAct[a].goal,
                 chosen |-> accAct[a].chosen]
<1>1. Access!At(a, s, "db")
  BY DEF Access!ViewDatabase
<1>2. AccViews(a, s) /\ accAct[a] \in AccActors /\ accAct[a].step = "db" /\ accAct[a].snap = {s}
  BY <1>1, AccAt
<1>3. o \in AccActors
  BY <1>2 DEF AccActors, AccSteps, AccGoals, AccInv, AccTyped
<1>4. /\ accAct' = [accAct EXCEPT ![a] = accAct'[a]]
      /\ accAct'[a] = [accAct[a] EXCEPT !.step = "buffer", !.db = accDurable[s]]
  BY DEF Access!ViewDatabase, AccInv, AccTyped
<1>5. accAct'[a] = o
  BY <1>2, <1>4 DEF AccActors
<1>6. UNCHANGED <<accState, accDurable, accPending, accGeneration, accFlush, accLease, accLock, accTouched, accNow>>
  BY DEF Access!ViewDatabase
<1>7. accState[s] = "ready" => AccHeld(s, accTouched[s])
  BY DEF AccInv, AccKept
<1>8. AccViews(a, s)' /\ AccFresh(a, s)'
  BY SMTT(30), <1>2, <1>5, <1>6, <1>7 DEF AccViews, AccFresh, AccHeld, AccGoals, AccInv, AccTyped
<1> QED
  BY <1>3, <1>4, <1>5, <1>6, <1>8, AccLocal

LEMMA AccVisible ==
    ASSUME AccInv, NEW a \in Actors, NEW s \in Used, Access!visibleAccess(a, s)
    PROVE  AccInv'
<1> DEFINE x == Access!Later(accPending[s], accAct[a].db)
           o == [step |-> "recheck", snap |-> {s}, time |-> accAct[a].time, gen |-> accAct[a].gen,
                 db |-> accAct[a].db, seen |-> x, goal |-> accAct[a].goal,
                 chosen |-> accAct[a].chosen]
<1>1. Access!At(a, s, "buffer")
  BY DEF Access!visibleAccess
<1>2. /\ AccViews(a, s) /\ AccFresh(a, s) /\ accAct[a] \in AccActors
      /\ accAct[a].step = "buffer" /\ accAct[a].snap = {s}
  BY <1>1, AccAt
<1>3. accPending[s] \in Nat /\ accAct[a].db \in Nat /\ accTouched[s] \in Nat /\ accDurable[s] \in Nat
  BY <1>2 DEF AccActors, AccInv, AccTyped
<1>4. x \in Nat /\ accPending[s] <= x /\ accAct[a].db <= x /\ (x = accPending[s] \/ x = accAct[a].db)
  BY <1>3, AccLater
<1>5. accAct' = [accAct EXCEPT ![a].step = "recheck", ![a].seen = x]
      /\ UNCHANGED <<accState, accDurable, accPending, accGeneration, accFlush, accLease, accLock, accTouched, accNow>>
  BY DEF Access!visibleAccess
<1> HIDE DEF x
<1>6. o \in AccActors
  BY <1>2, <1>4 DEF AccActors, AccSteps, AccGoals
<1>7. /\ accAct' = [accAct EXCEPT ![a] = accAct'[a]]
      /\ accAct'[a] = [accAct[a] EXCEPT !.step = "recheck", !.seen = x]
  BY <1>5 DEF AccInv, AccTyped
<1>8. accAct'[a] = o
  BY <1>2, <1>7 DEF AccActors
<1>9. AccViews(a, s)'
  BY SMTT(30), <1>2, <1>3, <1>4, <1>5, <1>8 DEF AccViews, AccHeld, AccGoals
<1>10. AccFresh(a, s)'
  BY SMTT(30), <1>2, <1>3, <1>4, <1>5, <1>8 DEF AccFresh
<1> QED
  BY <1>5, <1>6, <1>7, <1>8, <1>9, <1>10, AccLocal

LEMMA AccViewEnd ==
    ASSUME AccInv, NEW a \in Actors, NEW s \in Used, Access!ViewEnd(a, s)
    PROVE  AccInv'
<1> DEFINE k == IF accAct[a].gen = accGeneration THEN accAct[a].goal ELSE "view"
           x == IF accAct[a].gen = accGeneration THEN accAct[a].seen ELSE 0
           o == [step |-> k, snap |-> {s}, time |-> accAct[a].time, gen |-> 0,
                 db |-> 0, seen |-> x, goal |-> accAct[a].goal, chosen |-> accAct[a].chosen]
<1>1. Access!At(a, s, "recheck")
  BY DEF Access!ViewEnd
<1>2. /\ AccViews(a, s) /\ AccFresh(a, s) /\ accAct[a] \in AccActors
      /\ accAct[a].step = "recheck" /\ accAct[a].snap = {s}
  BY <1>1, AccAt
<1>3. o \in AccActors
  BY <1>2 DEF AccActors, AccSteps, AccGoals, AccInv, AccTyped
<1>4. /\ accAct' = [accAct EXCEPT ![a] = accAct'[a]]
      /\ accAct'[a] = [accAct[a] EXCEPT !.gen = 0, !.db = 0, !.step = k, !.seen = x]
  BY DEF Access!ViewEnd, AccInv, AccTyped
<1>5. accAct'[a] = o
  BY <1>2, <1>4 DEF AccActors
<1>6. UNCHANGED <<accState, accDurable, accPending, accGeneration, accFlush, accLease, accLock, accTouched, accNow>>
  BY DEF Access!ViewEnd
<1>7. accPending[s] \in Nat /\ accDurable[s] \in Nat /\ accGeneration \in Nat /\ accAct[a].goal \in AccGoals
  BY <1>2 DEF AccActors, AccInv, AccTyped
<1>8. AccViews(a, s)'
  BY SMTT(30), <1>2, <1>5, <1>6, <1>7 DEF AccViews, AccHeld, AccGoals
<1>9. AccFresh(a, s)'
  BY SMTT(30), <1>2, <1>5, <1>6, <1>7 DEF AccFresh, AccGoals
<1> QED
  BY <1>3, <1>4, <1>5, <1>6, <1>8, <1>9, AccLocal

LEMMA AccTouch ==
    ASSUME AccInv, NEW a \in Actors, NEW s \in Used, Access!Touch(a, s)
    PROVE  AccInv'
<1> DEFINE o == [step |-> "view", snap |-> {s}, time |-> accNow, gen |-> accAct[a].gen,
                 db |-> accAct[a].db, seen |-> accAct[a].seen, goal |-> "record",
                 chosen |-> accAct[a].chosen]
<1>1. Access!At(a, s, "touch")
  BY DEF Access!Touch
<1>2. AccViews(a, s) /\ accAct[a] \in AccActors /\ accAct[a].step = "touch" /\ accAct[a].snap = {s}
  BY <1>1, AccAt
<1>3. o \in AccActors
  BY <1>2 DEF AccActors, AccSteps, AccGoals, AccInv, AccTyped
<1>4. /\ accAct' = [accAct EXCEPT ![a] = accAct'[a]]
      /\ accAct'[a] = [accAct[a] EXCEPT !.step = "view", !.time = accNow, !.goal = "record"]
  BY DEF Access!Touch, AccInv, AccTyped
<1>5. accAct'[a] = o
  BY <1>2, <1>4 DEF AccActors
<1>6. UNCHANGED <<accState, accDurable, accPending, accGeneration, accFlush, accLease, accLock, accTouched, accNow>>
  BY DEF Access!Touch
<1>7. AccViews(a, s)' /\ AccFresh(a, s)'
  BY SMTT(30), <1>2, <1>5, <1>6 DEF AccViews, AccFresh, AccHeld, AccGoals
<1> QED
  BY <1>3, <1>4, <1>5, <1>6, <1>7, AccLocal

LEMMA AccEvictBegin ==
    ASSUME AccInv, NEW a \in Actors, NEW s \in Used, Access!EvictBegin(a, s)
    PROVE  AccInv'
<1> DEFINE o == [step |-> "view", snap |-> {s}, time |-> 0, gen |-> 0, db |-> 0, seen |-> 0,
                 goal |-> "tryLock", chosen |-> 0]
<1>1. o \in AccActors
  BY DEF AccActors, AccSteps, AccGoals
<1>2. /\ accAct' = [accAct EXCEPT ![a] = accAct'[a]]
      /\ accAct'[a] = [Access!Resting EXCEPT !.step = "view", !.snap = {s}, !.goal = "tryLock"]
  BY DEF Access!EvictBegin, AccInv, AccTyped
<1>3. accAct'[a] = o
  BY <1>2 DEF Access!Resting
<1>4. UNCHANGED <<accState, accDurable, accPending, accGeneration, accFlush, accLease, accLock, accTouched, accNow>>
  BY DEF Access!EvictBegin
<1>5. accPending[s] \in Nat /\ accDurable[s] \in Nat /\ accGeneration \in Nat
  BY DEF AccInv, AccTyped
<1>6. AccViews(a, s)' /\ AccFresh(a, s)'
  BY SMTT(30), <1>3, <1>4, <1>5 DEF AccViews, AccFresh, AccHeld, AccGoals
<1> QED
  BY <1>1, <1>2, <1>3, <1>4, <1>6, AccLocal

(* A step that takes a lock as well: the other actors keep theirs.           *)
LEMMA AccTakes ==
    ASSUME AccInv, NEW a \in Actors, NEW s \in Used, NEW o \in AccActors, o.snap = {s},
           accAct' = [accAct EXCEPT ![a] = accAct'[a]], accAct'[a] = o,
           UNCHANGED <<accState, accDurable, accPending, accGeneration, accFlush, accTouched, accNow>>,
           accLease' \in [Used -> SUBSET Actors], accLock' \in [Used -> SUBSET Actors],
           \A u \in Used : accLease[u] \subseteq accLease'[u],
           \A u \in Used : accLock[u] # {} => accLock'[u] = accLock[u],
           \A u \in Used : accLock'[u] # {} => accLease'[u] = {},
           AccViews(a, s)', AccFresh(a, s)'
    PROVE  AccInv'
<1>1. AccTyped'
  BY DEF AccInv, AccTyped
<1>2. AccKept'
  BY DEF AccInv, AccKept, AccHeld
<1>3. ASSUME NEW b \in Actors, NEW u \in Used, b # a
      PROVE  accAct'[b].snap = {u} => AccViews(b, u)' /\ AccFresh(b, u)'
  <2>1. accAct'[b] = accAct[b]
    BY <1>3 DEF AccInv, AccTyped
  <2>2. accPending[u] <= accPending'[u] /\ accPending'[u] \in Nat /\ accDurable'[u] \in Nat
        /\ accDurable[u] <= accDurable'[u]
    BY SMTT(30) DEF AccInv, AccTyped
  <2>3. \A t \in Nat : AccHeld(u, t) => AccHeld(u, t)'
    BY DEF AccHeld
  <2>4. b \in accLease[u] => b \in accLease'[u]
    OBVIOUS
  <2>5. accLock[u] = {b} => accLock'[u] = {b} /\ accTouched'[u] = accTouched[u]
    OBVIOUS
  <2> QED
    BY <2>1, <2>2, <2>3, <2>4, <2>5, AccFrame
<1>4. ASSUME NEW u \in Used, accAct'[a].snap = {u} PROVE u = s
  BY <1>4
<1> QED
  BY <1>1, <1>2, <1>3, <1>4 DEF AccInv

LEMMA AccUseBegin ==
    ASSUME AccInv, NEW a \in Actors, NEW s \in Used, Access!UseBegin(a, s)
    PROVE  AccInv'
<1> DEFINE o == [step |-> "touch", snap |-> {s}, time |-> 0, gen |-> 0, db |-> 0, seen |-> 0,
                 goal |-> "idle", chosen |-> 0]
<1>1. o \in AccActors
  BY DEF AccActors, AccSteps, AccGoals
<1>2. /\ accAct' = [accAct EXCEPT ![a] = accAct'[a]]
      /\ accAct'[a] = [Access!Resting EXCEPT !.step = "touch", !.snap = {s}]
  BY DEF Access!UseBegin, AccInv, AccTyped
<1>3. accAct'[a] = o
  BY <1>2 DEF Access!Resting
<1>4. UNCHANGED <<accState, accDurable, accPending, accGeneration, accFlush, accTouched, accNow>>
  BY DEF Access!UseBegin
<1>5. accLease' = [accLease EXCEPT ![s] = @ \cup {a}] /\ accLock' = accLock /\ accLock[s] = {}
  BY DEF Access!UseBegin
<1>6. /\ accLease' \in [Used -> SUBSET Actors] /\ accLock' \in [Used -> SUBSET Actors]
      /\ \A u \in Used : accLease[u] \subseteq accLease'[u]
      /\ \A u \in Used : accLock[u] # {} => accLock'[u] = accLock[u]
      /\ a \in accLease'[s]
  BY <1>5 DEF AccInv, AccTyped
<1>7. \A u \in Used : accLock'[u] # {} => accLease'[u] = {}
  BY <1>5 DEF AccInv, AccTyped, AccKept
<1>8. accPending[s] \in Nat /\ accDurable[s] \in Nat /\ accGeneration \in Nat
  BY DEF AccInv, AccTyped
<1>9. AccViews(a, s)' /\ AccFresh(a, s)'
  BY SMTT(30), <1>3, <1>4, <1>6, <1>8 DEF AccViews, AccFresh, AccHeld, AccGoals
<1> QED
  BY <1>1, <1>2, <1>3, <1>4, <1>6, <1>7, <1>9, AccTakes

LEMMA AccReleases ==
    ASSUME AccInv, NEW a \in Actors, NEW s \in Used,
           accAct' = [accAct EXCEPT ![a] = Access!Resting], accLock[s] = {a},
           UNCHANGED <<accDurable, accPending, accGeneration, accFlush, accLease, accTouched, accNow>>,
           accState' \in [Used -> {"ready", "deleting"}],
           \A u \in Used : accState'[u] = "ready" => accState[u] = "ready",
           accLock' = [accLock EXCEPT ![s] = {}]
    PROVE  AccInv'
<1>1. AccTyped'
  BY AccResting DEF AccInv, AccTyped
<1>2. AccKept'
  BY DEF AccInv, AccTyped, AccKept, AccHeld
<1>3. \A u \in Used : accPending[u] <= accPending'[u]
  BY SMTT(30) DEF AccInv, AccTyped
<1>4. \A u \in Used \ {s} : accLease'[u] = accLease[u] /\ accLock'[u] = accLock[u] /\ accTouched'[u] = accTouched[u]
  BY DEF AccInv, AccTyped
<1>5. accLease[s] \ {a} \subseteq accLease'[s]
  OBVIOUS
<1>6. \A b \in Actors : b # a /\ accLock[s] = {b} => accLock'[s] = {b}
  OBVIOUS
<1>7. /\ accGeneration' = accGeneration /\ accFlush' = accFlush /\ accDurable' = accDurable
      /\ accLock[s] # {} => accTouched' = accTouched
  OBVIOUS
<1>8. /\ accAct' = [accAct EXCEPT ![a] = Access!Resting]
      /\ \A u \in Used : accState'[u] = "ready" => accState[u] = "ready"
  OBVIOUS
<1> QED
  BY ONLY Zenon, AccInv, a \in Actors, s \in Used, <1>1, <1>2, <1>3, <1>4, <1>5, <1>6, <1>7, <1>8, AccRest

LEMMA AccEvictLock ==
    ASSUME AccInv, NEW a \in Actors, NEW s \in Used, Access!EvictLock(a, s)
    PROVE  AccInv'
<1>1. Access!At(a, s, "tryLock")
      /\ UNCHANGED <<accState, accDurable, accPending, accGeneration, accFlush, accTouched, accNow, accLease>>
  BY DEF Access!EvictLock
<1>2. AccViews(a, s) /\ accAct[a] \in AccActors /\ accAct[a].step = "tryLock" /\ accAct[a].snap = {s}
  BY <1>1, AccAt
<1>3. CASE accLease[s] = {} /\ accLock[s] = {}
  <2> DEFINE o == [step |-> "view", snap |-> {s}, time |-> accAct[a].time, gen |-> accAct[a].gen,
                   db |-> accAct[a].db, seen |-> 0, goal |-> "compare", chosen |-> accAct[a].seen]
  <2>1. o \in AccActors
    BY <1>2 DEF AccActors, AccSteps, AccGoals
  <2>2. /\ accAct' = [accAct EXCEPT ![a] = accAct'[a]]
        /\ accAct'[a] = [accAct[a] EXCEPT !.step = "view", !.goal = "compare", !.chosen = accAct[a].seen, !.seen = 0]
    BY <1>3 DEF Access!EvictLock, AccInv, AccTyped
  <2>3. accAct'[a] = o
    BY <1>2, <2>2 DEF AccActors
  <2>4. accLock' = [accLock EXCEPT ![s] = {a}]
    BY <1>3 DEF Access!EvictLock
  <2>5. /\ accLease' \in [Used -> SUBSET Actors] /\ accLock' \in [Used -> SUBSET Actors]
        /\ \A u \in Used : accLease[u] \subseteq accLease'[u]
        /\ \A u \in Used : accLock[u] # {} => accLock'[u] = accLock[u]
        /\ accLock'[s] = {a}
    BY <1>1, <1>3, <2>4 DEF AccInv, AccTyped
  <2>6. \A u \in Used : accLock'[u] # {} => accLease'[u] = {}
    BY <1>1, <1>3, <2>4 DEF AccInv, AccTyped, AccKept
  <2>7. accPending[s] \in Nat /\ accDurable[s] \in Nat
    BY DEF AccInv, AccTyped
  <2>8. AccViews(a, s)' /\ AccFresh(a, s)'
    BY SMTT(30), <1>1, <1>2, <2>3, <2>5, <2>7 DEF AccViews, AccFresh, AccHeld, AccGoals
  <2> QED
    BY <1>1, <2>1, <2>2, <2>3, <2>5, <2>6, <2>8, AccTakes
<1>4. CASE ~(accLease[s] = {} /\ accLock[s] = {})
  <2>1. accAct' = [accAct EXCEPT ![a] = Access!Resting] /\ UNCHANGED accLock
    BY <1>4 DEF Access!EvictLock
  <2>2. AccTyped'
    BY <1>1, <2>1, AccResting DEF AccInv, AccTyped
  <2>3. AccKept'
    BY <1>1, <2>1 DEF AccInv, AccKept, AccHeld
  <2>4. \A u \in Used : accPending[u] <= accPending'[u]
    BY SMTT(30), <1>1 DEF AccInv, AccTyped
  <2> QED
    BY <1>1, <2>1, <2>2, <2>3, <2>4, AccRest
<1> QED
  BY <1>3, <1>4

LEMMA AccEvictEnd ==
    ASSUME AccInv, NEW a \in Actors, NEW s \in Used, Access!EvictSkip(a, s) \/ Access!EvictDelete(a, s)
    PROVE  AccInv'
<1>1. /\ Access!At(a, s, "compare") /\ accAct' = [accAct EXCEPT ![a] = Access!Resting]
      /\ accLock' = [accLock EXCEPT ![s] = {}]
      /\ accState' = accState \/ accState' = [accState EXCEPT ![s] = "deleting"]
      /\ UNCHANGED <<accDurable, accPending, accGeneration, accFlush, accLease, accTouched, accNow>>
  BY DEF Access!EvictSkip, Access!EvictDelete
<1>2. accLock[s] = {a}
  BY <1>1, AccAt DEF AccViews, AccGoals
<1>3. /\ accState' \in [Used -> {"ready", "deleting"}]
      /\ \A u \in Used : accState'[u] = "ready" => accState[u] = "ready"
  BY <1>1 DEF AccInv, AccTyped
<1> QED
  BY <1>1, <1>2, <1>3, AccReleases

(* A completed touch: either the time goes into the buffer, or the view has  *)
(* seen one as late.                                                         *)
LEMMA AccRecord ==
    ASSUME AccInv, NEW a \in Actors, NEW s \in Used, Access!recordAccess(a, s)
    PROVE  AccInv'
<1> DEFINE t == accAct[a].time
           p == accPending'[s]
           h == Access!Later(accTouched[s], t)
<1>1. /\ Access!At(a, s, "record")
      /\ accAct' = [accAct EXCEPT ![a] = Access!Resting]
      /\ accLease' = [accLease EXCEPT ![s] = @ \ {a}]
      /\ UNCHANGED <<accState, accDurable, accGeneration, accFlush, accLock, accNow>>
  BY DEF Access!recordAccess
<1>2. accTouched' = [accTouched EXCEPT ![s] = h]
  BY DEF Access!recordAccess
<1>3. /\ accAct[a] \in AccActors /\ accAct[a].step = "record"
      /\ AccViews(a, s) /\ t \in Nat /\ accAct[a].seen \in Nat
  BY <1>1, AccAt DEF AccActors
<1>4. accTouched[s] \in Nat /\ accPending[s] \in Nat /\ accDurable[s] \in Nat
  BY DEF AccInv, AccTyped
<1>5. h \in Nat /\ (h = accTouched[s] \/ h = t)
  BY <1>3, <1>4, AccLater
<1>6. /\ accPending' = [accPending EXCEPT ![s] = p] /\ p \in Nat /\ accPending[s] <= p
      /\ t <= accAct[a].seen \/ t <= p
  <2>1. CASE t > accAct[a].seen
    <3>1. accPending' = [accPending EXCEPT ![s] = Access!Later(accPending[s], t)]
      BY <2>1 DEF Access!recordAccess
    <3>2. p = Access!Later(accPending[s], t)
      BY <3>1 DEF AccInv, AccTyped
    <3>3. PICK l : l = Access!Later(accPending[s], t)
      OBVIOUS
    <3>4. l \in Nat /\ accPending[s] <= l /\ t <= l
      BY <1>3, <1>4, <3>3, AccLater
    <3>5. accPending' = [accPending EXCEPT ![s] = l] /\ p = l
      BY <3>1, <3>2, <3>3
    <3> QED
      BY <3>4, <3>5
  <2>2. CASE ~(t > accAct[a].seen)
    <3>1. accPending' = accPending
      BY <2>2 DEF Access!recordAccess
    <3>2. accPending = [accPending EXCEPT ![s] = accPending[s]]
      BY DEF AccInv, AccTyped
    <3> QED
      BY SMTT(30), <2>2, <3>1, <3>2, <1>3, <1>4
  <2> QED
    BY <2>1, <2>2
<1> HIDE DEF p, h, t
<1>7. a \in accLease[s] /\ accLock[s] = {}
  BY <1>3 DEF AccViews, AccGoals, AccInv, AccKept
<1>8. AccTyped'
  BY ZenonT(30), <1>1, <1>2, <1>5, <1>6, AccResting DEF AccInv, AccTyped
<1>9. accState[s] = "ready" => h <= accDurable[s] \/ h <= p
  <2>1. accState[s] = "ready" => AccHeld(s, accTouched[s]) /\ AccHeld(s, accAct[a].seen)
    BY <1>3 DEF AccInv, AccKept, AccViews
  <2> QED
    BY SMTT(30), <2>1, <1>3, <1>4, <1>5, <1>6 DEF AccHeld
<1>10. AccKept'
  <2>1. \A u \in Used : accState'[u] = "ready" => AccHeld(u, accTouched[u])'
    <3> SUFFICES ASSUME NEW u \in Used, accState[u] = "ready" PROVE AccHeld(u, accTouched[u])'
      BY <1>1
    <3>1. CASE u = s
      BY <3>1, <1>1, <1>2, <1>6, <1>9 DEF AccInv, AccTyped, AccHeld
    <3>2. CASE u # s
      BY <3>2, <1>1, <1>2, <1>6 DEF AccInv, AccTyped, AccKept, AccHeld
    <3> QED
      BY <3>1, <3>2
  <2>2. \A u \in Used : accLock'[u] # {} => accLease'[u] = {}
    BY <1>1, <1>7 DEF AccInv, AccTyped, AccKept
  <2> QED
    BY <2>1, <2>2, <1>1 DEF AccInv, AccKept
<1>11. \A u \in Used : accPending[u] <= accPending'[u]
  BY SMTT(30), <1>6 DEF AccInv, AccTyped
<1>12. \A u \in Used \ {s} : accLease'[u] = accLease[u] /\ accLock'[u] = accLock[u] /\ accTouched'[u] = accTouched[u]
  BY <1>1, <1>2 DEF AccInv, AccTyped
<1>13. accLease[s] \ {a} \subseteq accLease'[s]
  BY <1>1 DEF AccInv, AccTyped
<1> QED
  BY <1>1, <1>7, <1>8, <1>10, <1>11, <1>12, <1>13, AccRest

(* A flush changes what nobody owns: the catalog, then the buffer.           *)
LEMMA AccShared ==
    ASSUME AccInv, AccTyped', AccKept',
           UNCHANGED <<accState, accLease, accLock, accAct, accTouched>>,
           \A s \in Used : accDurable[s] <= accDurable'[s],
           \A s \in Used : accState[s] = "ready" =>
               accPending[s] <= accPending'[s] \/ accPending[s] <= accDurable[s],
           \/ accGeneration' = accGeneration /\ \A s \in Used : accPending[s] <= accPending'[s]
           \/ accGeneration' = accGeneration + 1
    PROVE  AccInv'
<1> SUFFICES ASSUME NEW b \in Actors, NEW s \in Used
             PROVE  accAct'[b].snap = {s} => AccViews(b, s)' /\ AccFresh(b, s)'
  BY DEF AccInv
<1>1. /\ accPending[s] \in Nat /\ accPending'[s] \in Nat /\ accDurable[s] \in Nat /\ accDurable'[s] \in Nat
  BY DEF AccInv, AccTyped
<1>2. accState'[s] = "ready" => /\ accState[s] = "ready"
                                /\ accDurable[s] <= accDurable'[s]
                                /\ \A t \in Nat : AccHeld(s, t) => AccHeld(s, t)'
  BY SMTT(30), <1>1 DEF AccHeld
<1>3. \/ accGeneration' = accGeneration /\ accPending[s] <= accPending'[s]
      \/ accGeneration' = accGeneration + 1
  OBVIOUS
<1>4. /\ accAct'[b] = accAct[b] /\ (b \in accLease[s] => b \in accLease'[s])
      /\ accLock[s] = {b} => accLock'[s] = {b} /\ accTouched'[s] = accTouched[s]
  OBVIOUS
<1> QED
  BY <1>1, <1>2, <1>3, <1>4, AccFrame

LEMMA AccFlushIdle ==
    ASSUME AccInv, Access!FlushBegin \/ Access!FlushFailed \/ Access!Tick
    PROVE  AccInv'
<1>1. /\ UNCHANGED <<accState, accDurable, accPending, accGeneration, accLease, accLock, accAct, accTouched>>
      /\ accNow' = accNow \/ accNow' = accNow + 1
  BY DEF Access!FlushBegin, Access!FlushFailed, Access!Tick
<1>2. /\ accFlush' \in [step : {"idle", "cloned", "committed"}, batch : [Used -> Nat]]
      /\ accFlush' = accFlush \/ accFlush'.step # "committed"
  BY SMTT(30) DEF Access!FlushBegin, Access!FlushFailed, Access!Tick, Access!NoBatch, AccInv, AccTyped
<1>3. AccTyped'
  BY SMTT(30), <1>1, <1>2 DEF AccInv, AccTyped
<1>4. AccKept'
  BY <1>1, <1>2 DEF AccInv, AccKept, AccHeld
<1>5. (\A s \in Used : accDurable[s] <= accDurable'[s]) /\ (\A s \in Used : accPending[s] <= accPending'[s])
  BY SMTT(30), <1>1 DEF AccInv, AccTyped
<1> QED
  BY <1>1, <1>3, <1>4, <1>5, AccShared

LEMMA AccFlushCommit ==
    ASSUME AccInv, Access!FlushCommit
    PROVE  AccInv'
<1>1. /\ UNCHANGED <<accState, accPending, accGeneration, accLease, accLock, accAct, accTouched, accNow>>
      /\ accFlush' = [accFlush EXCEPT !.step = "committed"]
      /\ accDurable' = [s \in Used |-> IF accState[s] = "ready" THEN Access!Later(accDurable[s], accFlush.batch[s])
                                                                ELSE accDurable[s]]
  BY DEF Access!FlushCommit
<1>2. /\ accFlush' \in [step : {"idle", "cloned", "committed"}, batch : [Used -> Nat]]
      /\ accFlush'.batch = accFlush.batch /\ accFlush.batch \in [Used -> Nat]
  BY <1>1 DEF AccInv, AccTyped
<1>3. ASSUME NEW s \in Used
      PROVE  /\ accDurable'[s] \in Nat /\ accDurable[s] <= accDurable'[s]
             /\ accState[s] = "ready" => accFlush'.batch[s] <= accDurable'[s]
  <2>1. accDurable[s] \in Nat /\ accFlush.batch[s] \in Nat
    BY <1>2 DEF AccInv, AccTyped
  <2>2. CASE accState[s] = "ready"
    <3>1. accDurable'[s] = Access!Later(accDurable[s], accFlush.batch[s])
      BY <2>2, <1>1
    <3> QED
      BY SMTT(30), <3>1, <2>1, <1>2, AccLater
  <2>3. CASE accState[s] # "ready"
    BY SMTT(30), <2>1, <2>3, <1>1
  <2> QED
    BY <2>2, <2>3
<1>4. accDurable' \in [Used -> Nat]
  <2> HIDE <1>2
  <2>1. accDurable' = [s \in Used |-> accDurable'[s]]
    BY <1>1
  <2> QED
    BY <2>1, <1>3
<1>5. AccTyped'
  BY <1>1, <1>2, <1>4 DEF AccInv, AccTyped
<1>6. AccKept'
  <2>1. \A s \in Used : accState'[s] = "ready" => AccHeld(s, accTouched[s])'
    BY SMTT(30), <1>1, <1>3, <1>4 DEF AccInv, AccTyped, AccKept, AccHeld
  <2> QED
    BY <2>1, <1>1, <1>3 DEF AccInv, AccKept
<1>7. \A s \in Used : accPending[s] <= accPending'[s]
  BY SMTT(30), <1>1 DEF AccInv, AccTyped
<1> QED
  BY <1>1, <1>3, <1>5, <1>6, <1>7, AccShared

LEMMA AccFlushRetire ==
    ASSUME AccInv, Access!FlushRetire
    PROVE  AccInv'
<1>1. /\ UNCHANGED <<accState, accDurable, accLease, accLock, accAct, accTouched, accNow>>
      /\ accFlush' = [step |-> "idle", batch |-> Access!NoBatch] /\ accFlush.step = "committed"
      /\ accGeneration' = accGeneration + 1
      /\ accPending' = [s \in Used |-> IF accPending[s] > accFlush.batch[s] THEN accPending[s] ELSE 0]
  BY DEF Access!FlushRetire
<1>2. AccTyped'
  BY SMTT(30), <1>1 DEF AccInv, AccTyped, Access!NoBatch
<1>3. ASSUME NEW s \in Used, accState[s] = "ready"
      PROVE  accPending[s] <= accPending'[s] \/ accPending[s] <= accDurable[s]
  BY SMTT(30), <1>1, <1>3 DEF AccInv, AccTyped, AccKept
<1>4. AccKept'
  <2>1. \A s \in Used : accState'[s] = "ready" => AccHeld(s, accTouched[s])'
    BY SMTT(30), <1>1, <1>2, <1>3 DEF AccInv, AccTyped, AccKept, AccHeld
  <2> QED
    BY <2>1, <1>1 DEF AccInv, AccKept
<1>5. \A s \in Used : accDurable[s] <= accDurable'[s]
  BY SMTT(30), <1>1 DEF AccInv, AccTyped
<1> QED
  BY <1>1, <1>2, <1>3, <1>4, <1>5, AccShared

LEMMA AccCrash ==
    ASSUME AccInv, Access!Crash
    PROVE  AccInv'
<1>1. AccTyped'
  BY AccResting DEF AccInv, AccTyped, Access!Crash, Access!NoBatch
<1>2. AccKept'
  BY SMTT(30) DEF AccInv, AccTyped, Access!Crash, AccKept, AccHeld
<1>3. \A a \in Actors : accAct'[a].snap = {}
  BY DEF Access!Crash, Access!Resting
<1> QED
  BY <1>1, <1>2, <1>3 DEF AccInv

LEMMA AccNext ==
    ASSUME AccInv, Access!Next
    PROVE  AccInv'
<1>1. ASSUME NEW a \in Actors, NEW s \in Used,
             \/ Access!ViewBegin(a, s) \/ Access!ViewDatabase(a, s) \/ Access!visibleAccess(a, s) \/ Access!ViewEnd(a, s)
             \/ Access!UseBegin(a, s) \/ Access!Touch(a, s) \/ Access!recordAccess(a, s)
             \/ Access!EvictBegin(a, s) \/ Access!EvictLock(a, s) \/ Access!EvictSkip(a, s) \/ Access!EvictDelete(a, s)
      PROVE  AccInv'
  BY <1>1, AccViewBegin, AccViewDatabase, AccVisible, AccViewEnd, AccUseBegin, AccTouch, AccRecord,
     AccEvictBegin, AccEvictLock, AccEvictEnd
<1>2. CASE Access!FlushBegin \/ Access!FlushCommit \/ Access!FlushFailed \/ Access!FlushRetire \/ Access!Tick \/ Access!Crash
  BY <1>2, AccFlushIdle, AccFlushCommit, AccFlushRetire, AccCrash
<1> QED
  BY <1>1, <1>2 DEF Access!Next

LEMMA AccInvariant ==
    /\ StoresInit => (focus = "access" => AccInv)
    /\ (focus = "access" => AccInv) /\ [StoresNext]_storesVars => (focus = "access" => AccInv)'
<1> DEFINE Inv == focus = "access" => AccInv
<1>1. StoresInit => Inv
  BY AccInit DEF StoresInit
<1>2. Inv /\ [StoresNext]_storesVars => Inv'
  <2> SUFFICES ASSUME Inv, [StoresNext]_storesVars, focus' = "access" PROVE AccInv'
    OBVIOUS
  <2>1. CASE AccessStep
    BY <2>1, AccNext DEF AccessStep
  <2>2. CASE SnapshotsStep
    BY <2>2 DEF SnapshotsStep
  <2>3. CASE UNCHANGED storesVars
    BY <2>3, AccUnchanged DEF storesVars
  <2> QED
    BY <2>1, <2>2, <2>3 DEF StoresNext
<1> QED
  BY <1>1, <1>2

(* At every moment of a flush, buffer and catalog together hold the latest   *)
(* completed Touch of every snapshot that is not being deleted, for any      *)
(* number of users, snapshots and crashes and any capacity of the buffer     *)
(* (recordAccess, FlushAccesses).                                            *)
THEOREM AccessesAreKept == StoresSpec => []AccessIsKept
<1> DEFINE Inv == focus = "access" => AccInv
<1>1. Inv => AccessIsKept
  <2> SUFFICES ASSUME AccInv, NEW s \in Used, accState[s] = "ready"
               PROVE  Access!Later(accDurable[s], accPending[s]) >= accTouched[s]
    BY DEF AccessIsKept, Access!AccessIsKept
  <2>1. accDurable[s] \in Nat /\ accPending[s] \in Nat /\ accTouched[s] \in Nat
    BY DEF AccInv, AccTyped
  <2>2. AccHeld(s, accTouched[s])
    BY DEF AccInv, AccKept
  <2> QED
    BY SMTT(30), <2>1, <2>2 DEF AccHeld, Access!Later
<1> QED
  BY <1>1, AccInvariant, PTL DEF StoresSpec

(* Eviction marks a snapshot for deletion only when nobody holds it and no   *)
(* completed Touch is later than the time it was selected by, although the   *)
(* view it compares is read without the buffer's mutex and a flush may run   *)
(* in between (CollectWithPolicy, evictSnapshot).                            *)
THEOREM EvictionsAreFenced == StoresSpec => EvictionIsFenced
<1> DEFINE Inv == focus = "access" => AccInv
           Fenced == focus = "access" => Access!FencedStep
<1>1. Inv /\ [StoresNext]_storesVars => [Fenced]_accVars
  <2> SUFFICES ASSUME AccInv, focus = "access", [StoresNext]_storesVars,
                      NEW a \in Actors, NEW s \in Used,
                      Access!At(a, s, "compare"), accState[s] = "ready", accState'[s] = "deleting"
               PROVE  accLease[s] = {} /\ accTouched[s] <= accAct[a].chosen
    BY DEF Access!FencedStep
  <2>1. Access!Next
    BY DEF StoresNext, SnapshotsStep, AccessStep, storesVars, accVars
  <2>2. accState' = accState \/ \E b \in Actors, u \in Used : Access!EvictDelete(b, u)
    <3>1. ASSUME NEW b \in Actors, NEW u \in Used,
                 \/ Access!ViewBegin(b, u) \/ Access!ViewDatabase(b, u) \/ Access!visibleAccess(b, u)
                 \/ Access!ViewEnd(b, u) \/ Access!UseBegin(b, u) \/ Access!Touch(b, u)
                 \/ Access!recordAccess(b, u) \/ Access!EvictBegin(b, u) \/ Access!EvictLock(b, u)
                 \/ Access!EvictSkip(b, u)
          PROVE  accState' = accState
      BY <3>1 DEF Access!ViewBegin, Access!ViewDatabase, Access!visibleAccess, Access!ViewEnd, Access!UseBegin,
         Access!Touch, Access!recordAccess, Access!EvictBegin, Access!EvictLock, Access!EvictSkip
    <3>2. CASE Access!FlushBegin \/ Access!FlushCommit \/ Access!FlushFailed \/ Access!FlushRetire \/ Access!Tick \/ Access!Crash
      BY <3>2 DEF Access!FlushBegin, Access!FlushCommit, Access!FlushFailed, Access!FlushRetire, Access!Tick, Access!Crash
    <3> QED
      BY <2>1, <3>1, <3>2 DEF Access!Next
  <2>21. PICK b \in Actors, u \in Used : Access!EvictDelete(b, u)
    BY <2>2
  <2>3. u = s
    BY <2>21 DEF Access!EvictDelete, AccInv, AccTyped
  <2>4. accLock[s] = {a} /\ accLock[s] = {b}
    BY SMTT(30), <2>21, <2>3, AccAt DEF Access!EvictDelete, AccViews, AccGoals
  <2>5. a = b
    BY <2>4
  <2>6. accAct[a].seen = accAct[a].chosen
    BY <2>21, <2>5 DEF Access!EvictDelete
  <2>7. accTouched[s] <= accAct[a].seen
    BY AccAt DEF AccFresh, AccViews, AccGoals
  <2>8. accLease[s] = {}
    BY <2>4 DEF AccInv, AccKept
  <2> QED
    BY <2>6, <2>7, <2>8
<1> QED
  BY <1>1, AccInvariant, PTL DEF StoresSpec, EvictionIsFenced
=============================================================================

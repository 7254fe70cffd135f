----------------------------- MODULE PoolProofs -----------------------------
(***************************************************************************)
(* The pool of TAP devices, for any number of sandboxes, addresses and     *)
(* devices and whatever fails, crashes or reboots.                         *)
(***************************************************************************)
EXTENDS Pool, TLAPS

USE Zenon    \* unless a leaf names another prover

-----------------------------------------------------------------------------
(* The TAP pool.  A device is bound by one active address file, whose        *)
(* sandbox owns its pool entry, and only that sandbox's operation touches    *)
(* its permission; a lease ends without permission, holder and connections.  *)

TapSteps ==
    {"idle", "publish", "link", "ensure", "enable", "clean", "flows", "unindex", "retire", "ready"}
TapPhases == {"none", "Preparing", "Ready", "Reserved", "Active", "Cleaning"}
TapLeases == [state : {"free", "active", "cooling", "expired"}, sb : SUBSET Tenants, tap : SUBSET Taps, epoch : Nat]
TapDevices == [there : BOOLEAN, alias : Nat, endpoint : SUBSET TapAddresses, routes : SUBSET TapAddresses]
TapEntries == [phase : TapPhases, epoch : Nat, owner : SUBSET Tenants, prepared : BOOLEAN]
TapOps == [step : TapSteps, at : SUBSET TapAddresses, tap : SUBSET Taps, epoch : Nat, borrowed : BOOLEAN]

TapTyped ==
    /\ tapAddress \in [TapAddresses -> TapLeases]
    /\ tapIndex \in [Tenants -> SUBSET TapAddresses]
    /\ tapDev \in [Taps -> TapDevices]
    /\ tapHolder \in [Taps -> SUBSET Tenants]
    /\ tapTrack \in [TapAddresses -> SUBSET Tenants]
    /\ tapEntry \in [Taps -> TapEntries]
    /\ tapOp \in [Tenants -> TapOps]
    /\ tapUp \in BOOLEAN /\ tapWork \in SUBSET Taps

TapBinds(a, t) == tapAddress[a].state = "active" /\ tapAddress[a].tap = {t}
TapLeased(a, s, t) == TapBinds(a, t) /\ tapAddress[a].sb = {s}

(* Address files, devices and entries.                                       *)
TapFiles ==
    /\ \A a \in TapAddresses : tapAddress[a].state = "active" => \E s \in Tenants, t \in Taps : TapLeased(a, s, t)
    /\ \A a, b \in TapAddresses, t \in Taps : TapBinds(a, t) /\ TapBinds(b, t) => a = b
    /\ \A s \in Tenants : \A a \in tapIndex[s] : tapAddress[a].state = "active" /\ tapAddress[a].sb = {s}

TapKernel ==
    /\ \A t \in Taps : tapHolder[t] # {} => \E a \in TapAddresses, s \in Tenants : TapLeased(a, s, t) /\ tapHolder[t] = {s}
    /\ \A t \in Taps : \A a \in tapDev[t].endpoint : TapBinds(a, t)
    /\ \A t \in Taps : tapDev[t].there = FALSE => tapDev[t].endpoint = {}

TapFlows ==
    \A a \in TapAddresses :
        /\ tapAddress[a].state # "active" => tapTrack[a] = {}
        /\ tapAddress[a].state = "active" => tapTrack[a] \subseteq tapAddress[a].sb

TapPooled ==
    /\ tapUp = TRUE => \A a \in TapAddresses, s \in Tenants, t \in Taps :
           TapLeased(a, s, t) => tapEntry[t].owner = {s} /\ tapEntry[t].epoch = tapAddress[a].epoch
    /\ \A t \in Taps : tapEntry[t].phase \in {"none", "Ready", "Preparing"} => tapEntry[t].owner = {}
    /\ \A t \in Taps : tapEntry[t].phase = "none" => tapEntry[t].epoch = 0
    /\ \A t \in tapWork : tapEntry[t].phase = "Preparing"
    /\ tapUp = FALSE => tapWork = {}
    /\ tapUp = FALSE => \A t \in Taps : tapEntry[t].phase = "none"

(* An operation on a lease, and one that has a device without a lease.       *)
TapHas(s, a, t) == tapOp[s].at = {a} /\ tapOp[s].tap = {t} /\ TapLeased(a, s, t) /\ tapOp[s].epoch = tapAddress[a].epoch

TapOperates(s) ==
    /\ tapOp[s].step \in {"link", "ensure", "enable", "clean", "flows", "unindex", "retire"} =>
           \E a \in TapAddresses, t \in Taps : TapHas(s, a, t)
    /\ tapOp[s].step \in {"publish", "ready"} =>
           \E t \in Taps : /\ tapOp[s].tap = {t} /\ tapEntry[t].owner = {s}
                           /\ \A a \in TapAddresses : ~TapBinds(a, t)
    /\ tapOp[s].step = "publish" => \A t \in tapOp[s].tap : tapEntry[t].epoch = tapOp[s].epoch
    /\ tapOp[s].step = "enable" => \A t \in tapOp[s].tap : tapDev[t].there = TRUE
    /\ tapOp[s].step \in {"flows", "unindex", "retire"} =>
           \A t \in tapOp[s].tap : tapDev[t].endpoint = {} /\ tapHolder[t] = {}
    /\ tapOp[s].step \in {"unindex", "retire"} => \A a \in tapOp[s].at : tapTrack[a] = {}
    /\ tapOp[s].step = "retire" => tapIndex[s] = {}
    /\ tapUp = FALSE => tapOp[s].step = "idle"

TapInv ==
    /\ TapTyped /\ TapFiles /\ TapKernel /\ TapFlows /\ TapPooled
    /\ \A s \in Tenants : TapOperates(s)

(* A device of a running operation has that operation's sandbox as owner.    *)
LEMMA TapOwns ==
    ASSUME TapInv, tapUp = TRUE, NEW u \in Tenants, tapOp[u].step # "idle",
           NEW t \in tapOp[u].tap
    PROVE  t \in Taps /\ tapOp[u].tap = {t} /\ tapEntry[t].owner = {u}
<1>1. tapOp[u] \in TapOps /\ TapOperates(u)
  BY DEF TapInv, TapTyped
<1>2. CASE tapOp[u].step \in {"publish", "ready"}
  <2>1. PICK x \in Taps : tapOp[u].tap = {x} /\ tapEntry[x].owner = {u}
    BY <1>1, <1>2 DEF TapOperates
  <2> QED
    BY <2>1
<1>3. CASE tapOp[u].step \in {"link", "ensure", "enable", "clean", "flows", "unindex", "retire"}
  <2>1. PICK a \in TapAddresses, x \in Taps : TapHas(u, a, x)
    BY <1>1, <1>3 DEF TapOperates
  <2>2. tapEntry[x].owner = {u}
    BY SMTT(30), <2>1 DEF TapHas, TapInv, TapPooled
  <2> QED
    BY <2>1, <2>2 DEF TapHas
<1> QED
  BY <1>1, <1>2, <1>3 DEF TapOps, TapSteps

(* What a step may change without disturbing the operation of a sandbox.     *)
LEMMA TapOther ==
    ASSUME TapInv, NEW u \in Tenants, tapOp'[u] = tapOp[u], tapUp' = tapUp,
           \A t \in tapOp[u].tap : tapOp[u].step # "idle" =>
               /\ tapEntry'[t].owner = tapEntry[t].owner /\ tapEntry'[t].epoch = tapEntry[t].epoch
               /\ tapDev'[t].there = tapDev[t].there
               /\ tapDev'[t].endpoint \subseteq tapDev[t].endpoint
               /\ tapHolder'[t] \subseteq tapHolder[t]
               /\ \A a \in TapAddresses : TapBinds(a, t)' => TapBinds(a, t),
           \A a \in TapAddresses : tapAddress[a].state = "active" /\ tapAddress[a].sb = {u} =>
               tapAddress'[a] = tapAddress[a],
           \A a \in tapOp[u].at : tapOp[u].step \in {"unindex", "retire"} => tapTrack'[a] \subseteq tapTrack[a],
           tapOp[u].step = "retire" => tapIndex'[u] \subseteq tapIndex[u]
    PROVE  TapOperates(u)'
<1>1. TapOperates(u)
  BY DEF TapInv
<1>2. tapOp'[u].step \in {"link", "ensure", "enable", "clean", "flows", "unindex", "retire"} =>
          \E a \in TapAddresses, t \in Taps : TapHas(u, a, t)'
  <2> SUFFICES ASSUME tapOp[u].step \in {"link", "ensure", "enable", "clean", "flows", "unindex", "retire"}
               PROVE  \E a \in TapAddresses, t \in Taps : TapHas(u, a, t)'
    OBVIOUS
  <2>1. PICK a \in TapAddresses, t \in Taps : TapHas(u, a, t)
    BY <1>1 DEF TapOperates
  <2>2. tapAddress'[a] = tapAddress[a]
    BY <2>1 DEF TapHas, TapLeased, TapBinds
  <2>3. TapHas(u, a, t)'
    BY <2>1, <2>2 DEF TapHas, TapLeased, TapBinds
  <2> QED
    BY <2>3
<1>3. tapOp'[u].step \in {"publish", "ready"} =>
          \E t \in Taps : /\ tapOp'[u].tap = {t} /\ tapEntry'[t].owner = {u}
                          /\ \A a \in TapAddresses : ~TapBinds(a, t)'
  <2> SUFFICES ASSUME tapOp[u].step \in {"publish", "ready"}
               PROVE  \E t \in Taps : /\ tapOp[u].tap = {t} /\ tapEntry'[t].owner = {u}
                                      /\ \A a \in TapAddresses : ~TapBinds(a, t)'
    OBVIOUS
  <2>1. PICK t \in Taps : /\ tapOp[u].tap = {t} /\ tapEntry[t].owner = {u}
                          /\ \A a \in TapAddresses : ~TapBinds(a, t)
    BY <1>1 DEF TapOperates
  <2>2. t \in tapOp[u].tap /\ tapOp[u].step # "idle"
    BY <2>1
  <2>3. tapEntry'[t].owner = {u} /\ \A a \in TapAddresses : ~TapBinds(a, t)'
    BY <2>1, <2>2
  <2> QED
    BY <2>1, <2>3
<1>4. /\ tapOp'[u].step = "publish" => \A t \in tapOp'[u].tap : tapEntry'[t].epoch = tapOp'[u].epoch
      /\ tapOp'[u].step = "enable" => \A t \in tapOp'[u].tap : tapDev'[t].there = TRUE
      /\ tapOp'[u].step \in {"flows", "unindex", "retire"} =>
             \A t \in tapOp'[u].tap : tapDev'[t].endpoint = {} /\ tapHolder'[t] = {}
  BY SMTT(30), <1>1 DEF TapOperates
<1>5. /\ tapOp'[u].step \in {"unindex", "retire"} => \A a \in tapOp'[u].at : tapTrack'[a] = {}
      /\ tapOp'[u].step = "retire" => tapIndex'[u] = {}
      /\ tapUp' = FALSE => tapOp'[u].step = "idle"
  BY SMTT(30), <1>1 DEF TapOperates
<1> QED
  BY <1>2, <1>3, <1>4, <1>5 DEF TapOperates

(* A step on one device: its entry and its kernel state take new values.     *)
LEMMA TapDevice ==
    ASSUME TapInv, tapUp = TRUE, NEW t \in Taps, NEW v \in TapEntries, NEW d \in TapDevices,
           UNCHANGED <<tapAddress, tapIndex, tapHolder, tapUp>>,
           tapEntry' = [tapEntry EXCEPT ![t] = v], tapDev' = [tapDev EXCEPT ![t] = d],
           tapOp' \in [Tenants -> TapOps], tapWork' \in SUBSET tapWork,
           tapTrack' \in [TapAddresses -> SUBSET Tenants],
           \A a \in TapAddresses : tapTrack'[a] \subseteq tapTrack[a],
           v.phase \in {"none", "Ready", "Preparing"} => v.owner = {},
           v.phase = "none" => v.epoch = 0,
           t \in tapWork' => v.phase = "Preparing",
           \/ \A a \in TapAddresses : ~TapBinds(a, t)
           \/ v.owner = tapEntry[t].owner /\ v.epoch = tapEntry[t].epoch,
           d.there = FALSE => d.endpoint = {},
           \A a \in d.endpoint : TapBinds(a, t),
           \A u \in Tenants : tapOp'[u] # tapOp[u] \/ tapEntry[t].owner = {u} => TapOperates(u)'
    PROVE  TapInv'
<1>1. TapTyped'
  BY DEF TapInv, TapTyped
<1>2. /\ \A a \in TapAddresses, x \in Taps : TapBinds(a, x)' <=> TapBinds(a, x)
      /\ \A a \in TapAddresses, s \in Tenants, x \in Taps : TapLeased(a, s, x)' <=> TapLeased(a, s, x)
  BY DEF TapBinds, TapLeased
<1>3. TapFiles'
  BY <1>2 DEF TapInv, TapFiles
<1>4. tapDev'[t] = d /\ tapEntry'[t] = v /\ \A x \in Taps \ {t} : tapDev'[x] = tapDev[x] /\ tapEntry'[x] = tapEntry[x]
  BY DEF TapInv, TapTyped
<1>5. TapKernel'
  <2>1. TapKernel
    BY DEF TapInv
  <2>2. \A x \in Taps : tapHolder'[x] # {} => \E a \in TapAddresses, s \in Tenants : TapLeased(a, s, x)' /\ tapHolder'[x] = {s}
    BY <2>1, <1>2 DEF TapKernel
  <2>3. \A x \in Taps : tapDev'[x].there = FALSE => tapDev'[x].endpoint = {}
    BY SMTT(30), <2>1, <1>4 DEF TapKernel
  <2>4. ASSUME NEW x \in Taps, NEW a \in tapDev'[x].endpoint
        PROVE  TapBinds(a, x)'
    <3>1. a \in TapAddresses
      BY <1>1 DEF TapTyped, TapDevices
    <3>2. TapBinds(a, x)
      BY SMTT(30), <2>1, <1>4 DEF TapKernel
    <3> QED
      BY <3>1, <3>2, <1>2
  <2> QED
    BY <2>2, <2>3, <2>4 DEF TapKernel
<1>6. TapFlows'
  BY DEF TapInv, TapFlows
<1>7. TapPooled'
  <2>1. TapPooled
    BY DEF TapInv
  <2>2. ASSUME NEW a \in TapAddresses, NEW s \in Tenants, NEW x \in Taps, TapLeased(a, s, x)'
        PROVE  tapEntry'[x].owner = {s} /\ tapEntry'[x].epoch = tapAddress'[a].epoch
    <3>1. TapLeased(a, s, x)
      BY <2>2, <1>2
    <3>2. tapEntry[x].owner = {s} /\ tapEntry[x].epoch = tapAddress[a].epoch
      BY SMTT(30), <3>1, <2>1 DEF TapPooled
    <3>3. x = t => v.owner = tapEntry[t].owner /\ v.epoch = tapEntry[t].epoch
      BY <3>1 DEF TapLeased
    <3> QED
      BY <3>2, <3>3, <1>4
  <2>3. \A x \in Taps : tapEntry'[x].phase \in {"none", "Ready", "Preparing"} => tapEntry'[x].owner = {}
    BY <2>1, <1>4 DEF TapPooled
  <2>5. \A x \in Taps : tapEntry'[x].phase = "none" => tapEntry'[x].epoch = 0
    BY SMTT(30), <2>1, <1>4 DEF TapPooled
  <2>4. \A x \in tapWork' : tapEntry'[x].phase = "Preparing"
    BY <2>1, <1>1, <1>4 DEF TapPooled, TapTyped
  <2> QED
    BY <2>2, <2>3, <2>4, <2>5 DEF TapPooled
<1>8. ASSUME NEW u \in Tenants
      PROVE  TapOperates(u)'
  <2>1. CASE tapOp'[u] # tapOp[u] \/ tapEntry[t].owner = {u}
    BY <2>1
  <2>2. CASE tapOp'[u] = tapOp[u] /\ tapEntry[t].owner # {u}
    <3>1. ASSUME NEW x \in tapOp[u].tap, tapOp[u].step # "idle"
          PROVE  /\ tapEntry'[x].owner = tapEntry[x].owner /\ tapEntry'[x].epoch = tapEntry[x].epoch
                 /\ tapDev'[x].there = tapDev[x].there
                 /\ tapDev'[x].endpoint \subseteq tapDev[x].endpoint
                 /\ tapHolder'[x] \subseteq tapHolder[x]
                 /\ \A a \in TapAddresses : TapBinds(a, x)' => TapBinds(a, x)
      <4>1. x \in Taps /\ tapEntry[x].owner = {u}
        BY <3>1, TapOwns
      <4>2. x # t
        BY <4>1, <2>2
      <4> QED
        BY <4>1, <4>2, <1>2, <1>4
    <3>2. \A a \in tapOp[u].at : tapTrack'[a] \subseteq tapTrack[a]
      BY DEF TapInv, TapTyped, TapOps
    <3> QED
      BY <2>2, <3>1, <3>2, TapOther
  <2> QED
    BY <2>1, <2>2
<1> QED
  BY <1>1, <1>3, <1>5, <1>6, <1>7, <1>8 DEF TapInv

(* A step that only moves the operation of one sandbox.                      *)
LEMMA TapTurns ==
    ASSUME TapInv, NEW s \in Tenants, tapUp = TRUE, NEW o \in TapOps, tapOp' = [tapOp EXCEPT ![s] = o],
           UNCHANGED <<tapAddress, tapIndex, tapDev, tapHolder, tapTrack, tapEntry, tapWork, tapUp>>,
           TapOperates(s)'
    PROVE  TapInv'
<1>1. TapTyped'
  BY DEF TapInv, TapTyped
<1>2. TapFiles' /\ TapKernel' /\ TapFlows' /\ TapPooled'
  <2>1. TapFiles'
    BY SMTT(30) DEF TapInv, TapFiles, TapBinds, TapLeased
  <2>2. TapKernel'
    BY SMTT(30) DEF TapInv, TapKernel, TapBinds, TapLeased
  <2>3. TapFlows'
    BY DEF TapInv, TapFlows
  <2>4. TapPooled'
    BY SMTT(30) DEF TapInv, TapPooled, TapBinds, TapLeased
  <2> QED
    BY <2>1, <2>2, <2>3, <2>4
<1>3. ASSUME NEW u \in Tenants, u # s
      PROVE  TapOperates(u)'
  <2>1. tapOp'[u] = tapOp[u]
    BY <1>3 DEF TapInv, TapTyped
  <2>2. \A a \in TapAddresses, t \in Taps : TapBinds(a, t)' <=> TapBinds(a, t)
    BY DEF TapBinds
  <2>3. tapOp[u].tap \in SUBSET Taps
    BY DEF TapInv, TapTyped, TapOps
  <2> QED
    BY <2>1, <2>2, <2>3, TapOther
<1> QED
  BY <1>1, <1>2, <1>3 DEF TapInv

(* A returned operation has nothing to keep.                                 *)
LEMMA TapIdle ==
    ASSUME NEW s \in Tenants, tapOp'[s].step = "idle"
    PROVE  TapOperates(s)'
BY DEF TapOperates

LEMMA TapReturns ==
    ASSUME TapInv, NEW s \in Tenants, Tap!Return(s)
    PROVE  /\ Tap!Idle \in TapOps /\ tapOp' = [tapOp EXCEPT ![s] = Tap!Idle]
           /\ tapOp' \in [Tenants -> TapOps] /\ tapOp'[s].step = "idle"
           /\ \A u \in Tenants \ {s} : tapOp'[u] = tapOp[u]
           /\ TapOperates(s)'
<1>1. Tap!Idle \in TapOps /\ Tap!Idle.step = "idle"
  BY DEF Tap!Idle, TapOps, TapSteps
<1>2. tapOp' = [tapOp EXCEPT ![s] = Tap!Idle] /\ tapOp \in [Tenants -> TapOps]
  BY DEF Tap!Return, TapInv, TapTyped
<1>3. tapOp' \in [Tenants -> TapOps] /\ tapOp'[s] = Tap!Idle /\ \A u \in Tenants \ {s} : tapOp'[u] = tapOp[u]
  BY ONLY <1>1, <1>2, s \in Tenants
<1> QED
  BY <1>1, <1>2, <1>3, TapIdle

LEMMA TapGoes ==
    ASSUME TapInv, NEW s \in Tenants, NEW step \in TapSteps, Tap!Goto(s, step)
    PROVE  /\ tapOp' \in [Tenants -> TapOps] /\ tapOp'[s].step = step
           /\ tapOp'[s].at = tapOp[s].at /\ tapOp'[s].tap = tapOp[s].tap /\ tapOp'[s].epoch = tapOp[s].epoch
           /\ \A u \in Tenants \ {s} : tapOp'[u] = tapOp[u]
<1>1. tapOp \in [Tenants -> TapOps] /\ tapOp' = [tapOp EXCEPT ![s].step = step]
  BY DEF Tap!Goto, TapInv, TapTyped
<1> QED
  BY <1>1 DEF TapOps

(* The device and the address of an operation on a lease.                    *)
LEMMA TapCarries ==
    ASSUME TapInv, NEW s \in Tenants,
           tapOp[s].step \in {"link", "ensure", "enable", "clean", "flows", "unindex", "retire"}
    PROVE  \E a \in TapAddresses, t \in Taps : TapHas(s, a, t)
BY DEF TapInv, TapOperates

LEMMA TapTakes ==
    ASSUME TapInv, NEW s \in Tenants, tapUp = TRUE, NEW a \in TapAddresses, Tap!Active(s, a),
           NEW step \in {"link", "ensure", "clean"}, Tap!Take(s, a, step),
           UNCHANGED <<tapAddress, tapIndex, tapDev, tapHolder, tapTrack, tapEntry, tapWork, tapUp>>
    PROVE  TapInv'
<1> DEFINE o == [step |-> step, at |-> {a}, tap |-> tapAddress[a].tap,
                 epoch |-> tapAddress[a].epoch, borrowed |-> FALSE]
<1>1. tapAddress[a] \in TapLeases /\ tapOp \in [Tenants -> TapOps]
  BY DEF TapInv, TapTyped
<1>2. o \in TapOps
  BY <1>1 DEF TapOps, TapLeases, TapSteps
<1>3. tapOp' = [tapOp EXCEPT ![s] = o]
  BY DEF Tap!Take
<1>4. PICK t \in Taps : TapLeased(a, s, t)
  <2>1. tapAddress[a].state = "active" /\ tapAddress[a].sb = {s}
    BY DEF Tap!Active
  <2>2. PICK x \in Tenants, t \in Taps : TapLeased(a, x, t)
    BY <2>1 DEF TapInv, TapFiles
  <2> QED
    BY <2>1, <2>2 DEF TapLeased
<1>5. o.step = step /\ o.at = {a} /\ o.tap = {t} /\ o.epoch = tapAddress[a].epoch
  BY <1>4 DEF TapLeased, TapBinds
<1> HIDE DEF o
<1>6. tapOp'[s] = o
  BY <1>1, <1>3
<1>7. TapHas(s, a, t)'
  BY <1>4, <1>5, <1>6 DEF TapHas, TapLeased, TapBinds
<1>8. TapOperates(s)'
  BY <1>5, <1>6, <1>7 DEF TapOperates
<1> QED
  BY <1>2, <1>3, <1>8, TapTurns

LEMMA TapAddIndexed ==
    ASSUME TapInv, NEW s \in Tenants, Tap!AddIndexed(s)
    PROVE  TapInv'
<1>1. PICK a \in tapIndex[s] : Tap!Active(s, a) /\ Tap!Take(s, a, "ensure")
  BY DEF Tap!AddIndexed
<1>2. a \in TapAddresses
  BY <1>1 DEF TapInv, TapTyped
<1>3. tapUp = TRUE /\ UNCHANGED <<tapAddress, tapIndex, tapDev, tapHolder, tapTrack, tapEntry, tapWork, tapUp>>
  BY DEF Tap!AddIndexed, Tap!At, Tap!kernel, Tap!files, TapInv, TapTyped
<1> QED
  BY <1>1, <1>2, <1>3, TapTakes

LEMMA TapAddRemembered ==
    ASSUME TapInv, NEW s \in Tenants, Tap!AddRemembered(s), tapRemembered[s] \in SUBSET TapAddresses
    PROVE  TapInv'
<1>1. PICK a \in tapRemembered[s] : Tap!Active(s, a) /\ Tap!Take(s, a, "link")
  BY DEF Tap!AddRemembered
<1>2. tapUp = TRUE /\ UNCHANGED <<tapAddress, tapIndex, tapDev, tapHolder, tapTrack, tapEntry, tapWork, tapUp>>
  BY DEF Tap!AddRemembered, Tap!At, Tap!kernel, Tap!files, TapInv, TapTyped
<1> QED
  BY <1>1, <1>2, TapTakes

LEMMA TapDeleteBegin ==
    ASSUME TapInv, NEW s \in Tenants, Tap!DeleteBegin(s), tapRemembered[s] \in SUBSET TapAddresses
    PROVE  TapInv'
<1>1. PICK a \in Tap!leases(s) : Tap!Active(s, a) /\ Tap!Take(s, a, "clean")
  BY DEF Tap!DeleteBegin
<1>2. a \in TapAddresses
  BY <1>1 DEF TapInv, TapTyped, Tap!leases
<1>3. tapUp = TRUE /\ UNCHANGED <<tapAddress, tapIndex, tapDev, tapHolder, tapTrack, tapEntry, tapWork, tapUp>>
  BY DEF Tap!DeleteBegin, Tap!At, Tap!kernel, Tap!files, TapInv, TapTyped
<1> QED
  BY <1>1, <1>2, <1>3, TapTakes

(* A failure that changes nothing but the operation.                         *)
LEMMA TapFails ==
    ASSUME TapInv, NEW s \in Tenants, Tap!LinkFailed(s) \/ Tap!EnsureFailed(s) \/ Tap!DeleteFailed(s)
    PROVE  TapInv'
<1>1. /\ tapUp = TRUE /\ Tap!Return(s)
      /\ UNCHANGED <<tapAddress, tapIndex, tapDev, tapHolder, tapTrack, tapEntry, tapWork, tapUp>>
  <2>1. tapUp \in BOOLEAN
    BY DEF TapInv, TapTyped
  <2>2. CASE Tap!LinkFailed(s)
    BY <2>1, <2>2 DEF Tap!LinkFailed, Tap!At, Tap!kernel, Tap!files
  <2>3. CASE Tap!EnsureFailed(s)
    BY <2>1, <2>3 DEF Tap!EnsureFailed, Tap!At, Tap!kernel, Tap!files
  <2>4. CASE Tap!DeleteFailed(s)
    BY <2>1, <2>4 DEF Tap!DeleteFailed, Tap!kernel, Tap!files
  <2> QED
    BY <2>2, <2>3, <2>4
<1> QED
  BY <1>1, TapReturns, TapTurns

(* No lease binds a device whose entry has no owner.                         *)
LEMMA TapUnbound ==
    ASSUME TapInv, tapUp = TRUE, NEW t \in Taps, tapEntry[t].owner = {}
    PROVE  \A a \in TapAddresses : ~TapBinds(a, t)
<1> SUFFICES ASSUME NEW a \in TapAddresses, TapBinds(a, t) PROVE FALSE
  OBVIOUS
<1>1. PICK s \in Tenants, x \in Taps : TapLeased(a, s, x)
  BY DEF TapInv, TapFiles, TapBinds
<1>2. x = t
  BY <1>1 DEF TapLeased, TapBinds
<1>3. tapEntry[t].owner = {s}
  BY SMTT(30), <1>1, <1>2 DEF TapInv, TapPooled
<1> QED
  BY <1>3

(* A step of one sandbox on a device that is its own or nobody's.            *)
LEMMA TapStepOf ==
    ASSUME TapInv, tapUp = TRUE, NEW s \in Tenants, NEW t \in Taps, NEW v \in TapEntries, NEW d \in TapDevices,
           UNCHANGED <<tapAddress, tapIndex, tapHolder, tapUp, tapWork, tapTrack>>,
           tapEntry' = [tapEntry EXCEPT ![t] = v], tapDev' = [tapDev EXCEPT ![t] = d],
           tapOp' \in [Tenants -> TapOps], \A u \in Tenants \ {s} : tapOp'[u] = tapOp[u],
           tapEntry[t].owner \subseteq {s}, tapEntry[t].phase # "Preparing",
           v.phase \in {"none", "Ready", "Preparing"} => v.owner = {},
           v.phase = "none" => v.epoch = 0,
           \/ \A a \in TapAddresses : ~TapBinds(a, t)
           \/ v.owner = tapEntry[t].owner /\ v.epoch = tapEntry[t].epoch,
           d.there = FALSE => d.endpoint = {},
           \A a \in d.endpoint : TapBinds(a, t),
           TapOperates(s)'
    PROVE  TapInv'
<1>1. t \notin tapWork'
  BY DEF TapInv, TapPooled
<1>2. tapWork' \in SUBSET tapWork /\ tapTrack' \in [TapAddresses -> SUBSET Tenants]
      /\ \A a \in TapAddresses : tapTrack'[a] \subseteq tapTrack[a]
  BY DEF TapInv, TapTyped
<1>3. \A u \in Tenants : tapOp'[u] # tapOp[u] \/ tapEntry[t].owner = {u} => TapOperates(u)'
  <2> SUFFICES ASSUME NEW u \in Tenants, tapOp'[u] # tapOp[u] \/ tapEntry[t].owner = {u}
               PROVE  TapOperates(u)'
    OBVIOUS
  <2>1. u = s
    OBVIOUS
  <2> QED
    BY <2>1
<1> QED
  BY <1>1, <1>2, <1>3, TapDevice

(* A device is reserved for the sandbox that will publish its lease.         *)
LEMMA TapBorrows ==
    ASSUME TapInv, tapUp = TRUE, NEW s \in Tenants, NEW t \in Taps, tapEntry[t].owner = {},
           tapEntry[t].phase # "Preparing", NEW v \in TapEntries, NEW d \in TapDevices,
           UNCHANGED <<tapAddress, tapIndex, tapHolder, tapUp, tapWork, tapTrack>>,
           tapEntry' = [tapEntry EXCEPT ![t] = v], tapDev' = [tapDev EXCEPT ![t] = d],
           Tap!Borrowed(s, t), v.phase = "Reserved", v.owner = {s}, v.epoch = tapEntry[t].epoch + 1,
           d.endpoint = {}
    PROVE  TapInv'
<1> DEFINE o == [step |-> "publish", at |-> {}, tap |-> {t}, epoch |-> tapEntry[t].epoch + 1, borrowed |-> TRUE]
<1>1. tapEntry \in [Taps -> TapEntries] /\ tapOp \in [Tenants -> TapOps]
  BY DEF TapInv, TapTyped
<1>2. o \in TapOps
  BY <1>1 DEF TapOps, TapSteps, TapEntries
<1>3. tapOp' = [tapOp EXCEPT ![s] = o]
  BY DEF Tap!Borrowed
<1>4. o.step = "publish" /\ o.tap = {t} /\ o.epoch = tapEntry[t].epoch + 1
  OBVIOUS
<1> HIDE DEF o
<1>5. tapOp' \in [Tenants -> TapOps] /\ tapOp'[s] = o /\ \A u \in Tenants \ {s} : tapOp'[u] = tapOp[u]
  BY <1>1, <1>2, <1>3
<1>6. \A a \in TapAddresses : ~TapBinds(a, t) /\ ~TapBinds(a, t)'
  BY TapUnbound DEF TapBinds
<1>7. tapEntry'[t] = v
  BY <1>1
<1>8. TapOperates(s)'
  BY <1>4, <1>5, <1>6, <1>7 DEF TapOperates
<1> QED
  BY <1>5, <1>6, <1>8, TapStepOf

LEMMA TapBorrowReady ==
    ASSUME TapInv, NEW s \in Tenants, NEW t \in Taps, Tap!BorrowReady(s, t)
    PROVE  TapInv'
<1> DEFINE v == [phase |-> "Reserved", epoch |-> tapEntry[t].epoch + 1, owner |-> {s}, prepared |-> tapEntry[t].prepared]
<1>1. tapEntry \in [Taps -> TapEntries] /\ tapDev \in [Taps -> TapDevices] /\ tapUp \in BOOLEAN
  BY DEF TapInv, TapTyped
<1>2. v \in TapEntries
  BY SMTT(30), <1>1 DEF TapEntries, TapPhases
<1>3. tapEntry' = [tapEntry EXCEPT ![t] = v]
  <2>1. tapEntry' = [tapEntry EXCEPT ![t].phase = "Reserved", ![t].epoch = @ + 1, ![t].owner = {s}]
    BY DEF Tap!BorrowReady
  <2> QED
    BY SMTT(30), <1>1, <2>1 DEF TapEntries
<1>4. /\ tapUp = TRUE /\ tapEntry[t].phase = "Ready" /\ tapEntry[t].owner = {}
      /\ UNCHANGED <<tapAddress, tapIndex, tapHolder, tapUp, tapWork, tapTrack, tapDev>> /\ Tap!Borrowed(s, t)
  BY <1>1 DEF Tap!BorrowReady, Tap!MayBorrow, Tap!At, Tap!kernel, Tap!files, TapInv, TapPooled
<1>5. v.phase = "Reserved" /\ v.owner = {s} /\ v.epoch = tapEntry[t].epoch + 1
  OBVIOUS
<1> HIDE DEF v
<1>6. tapDev[t] \in TapDevices /\ tapDev' = [tapDev EXCEPT ![t] = tapDev[t]]
  BY <1>1, <1>4
<1>7. tapDev[t].endpoint = {}
  <2>1. \A a \in tapDev[t].endpoint : a \in TapAddresses /\ TapBinds(a, t)
    BY <1>1 DEF TapInv, TapKernel, TapDevices
  <2> QED
    BY <2>1, <1>4, TapUnbound
<1>8. tapEntry[t].phase # "Preparing"
  BY <1>4
<1>9. UNCHANGED <<tapAddress, tapIndex, tapHolder, tapUp, tapWork, tapTrack>>
  BY <1>4
<1> QED
  BY <1>2, <1>3, <1>4, <1>5, <1>6, <1>7, <1>8, <1>9, TapBorrows

LEMMA TapFreshDevice ==
    ASSUME NEW e \in Nat
    PROVE  /\ Tap!Device(e) \in TapDevices /\ Tap!Device(e).endpoint = {} /\ Tap!Device(e).there = TRUE
           /\ Tap!NoDevice \in TapDevices /\ Tap!NoDevice.endpoint = {}
           /\ Tap!NoEntry.epoch = 0 /\ Tap!NoEntry \in TapEntries /\ Tap!NoEntry.phase = "none" /\ Tap!NoEntry.owner = {}
BY DEF Tap!Device, Tap!NoDevice, Tap!NoEntry, TapDevices, TapEntries, TapPhases

LEMMA TapBorrowNew ==
    ASSUME TapInv, NEW s \in Tenants, NEW t \in Taps, Tap!BorrowNew(s, t)
    PROVE  TapInv'
<1> DEFINE v == [phase |-> "Reserved", epoch |-> 1, owner |-> {s}, prepared |-> TRUE]
<1>1. v \in TapEntries /\ v.phase = "Reserved" /\ v.owner = {s} /\ v.epoch = 1
  BY DEF TapEntries, TapPhases
<1>2. /\ tapEntry' = [tapEntry EXCEPT ![t] = v] /\ tapDev' = [tapDev EXCEPT ![t] = Tap!Device(0)]
      /\ UNCHANGED <<tapAddress, tapIndex, tapHolder, tapUp, tapWork, tapTrack>> /\ Tap!Borrowed(s, t)
  BY DEF Tap!BorrowNew, Tap!files
<1> HIDE DEF v
<1>3. tapUp = TRUE /\ tapEntry[t].phase = "none" /\ tapEntry[t].owner = {} /\ tapEntry[t].epoch = 0
  BY DEF Tap!BorrowNew, Tap!MayBorrow, Tap!At, Tap!Fresh, TapInv, TapPooled, TapTyped
<1>4. tapEntry[t].phase # "Preparing" /\ Tap!Device(0) \in TapDevices /\ Tap!Device(0).endpoint = {}
  <2>1. Tap!Device(0) \in TapDevices /\ Tap!Device(0).endpoint = {}
    BY TapFreshDevice
  <2> QED
    BY <1>3, <2>1
<1>5. v.epoch = tapEntry[t].epoch + 1
  BY SMTT(30), <1>1, <1>3
<1>6. v.phase = "Reserved" /\ v.owner = {s} /\ v \in TapEntries
  BY <1>1
<1> QED
  BY <1>2, <1>3, <1>4, <1>5, <1>6, TapBorrows

LEMMA TapBorrowFailed ==
    ASSUME TapInv, NEW s \in Tenants, NEW t \in Taps, Tap!BorrowFailed(s, t)
    PROVE  TapInv'
<1> DEFINE v == [Tap!NoEntry EXCEPT !.phase = "Cleaning"]
<1>1. v \in TapEntries /\ v.phase = "Cleaning" /\ v.owner = {}
  BY DEF TapEntries, TapPhases, Tap!NoEntry
<1>2. /\ tapEntry' = [tapEntry EXCEPT ![t] = v] /\ tapDev' = [tapDev EXCEPT ![t] = Tap!Device(0)]
      /\ UNCHANGED <<tapAddress, tapIndex, tapHolder, tapUp, tapWork, tapTrack>> /\ UNCHANGED tapOp
  BY DEF Tap!BorrowFailed, Tap!files
<1> HIDE DEF v
<1>3. tapUp = TRUE /\ tapEntry[t].phase = "none" /\ tapEntry[t].owner = {} /\ tapOp[s].step = "idle"
  BY DEF Tap!BorrowFailed, Tap!MayBorrow, Tap!At, Tap!Fresh, TapInv, TapPooled, TapTyped
<1>4. /\ tapEntry[t].phase # "Preparing" /\ tapEntry[t].owner \subseteq {s}
      /\ Tap!Device(0) \in TapDevices /\ Tap!Device(0).endpoint = {}
  BY <1>3, TapFreshDevice
<1>5. \A a \in TapAddresses : ~TapBinds(a, t)
  BY <1>3, TapUnbound
<1>6. TapOperates(s)'
  BY <1>2, <1>3, TapIdle
<1>7. tapOp' \in [Tenants -> TapOps] /\ \A u \in Tenants \ {s} : tapOp'[u] = tapOp[u]
  BY <1>2 DEF TapInv, TapTyped
<1> QED
  BY <1>1, <1>2, <1>3, <1>4, <1>5, <1>6, <1>7, TapStepOf

(* An operation that has a device without a lease.                           *)
LEMMA TapWithout ==
    ASSUME TapInv, NEW s \in Tenants, tapOp[s].step \in {"publish", "ready"}, NEW t \in tapOp[s].tap
    PROVE  /\ t \in Taps /\ tapOp[s].tap = {t} /\ tapEntry[t].owner = {s}
           /\ \A a \in TapAddresses : ~TapBinds(a, t)
<1>1. PICK x \in Taps : /\ tapOp[s].tap = {x} /\ tapEntry[x].owner = {s}
                        /\ \A a \in TapAddresses : ~TapBinds(a, x)
  BY DEF TapInv, TapOperates
<1>2. x = t
  BY <1>1
<1> QED
  BY <1>1, <1>2

(* The state of a device as it is.                                           *)
LEMMA TapAsItIs ==
    ASSUME TapInv, NEW t \in Taps
    PROVE  /\ tapDev[t] \in TapDevices /\ tapDev = [tapDev EXCEPT ![t] = tapDev[t]]
           /\ tapEntry[t] \in TapEntries /\ tapEntry = [tapEntry EXCEPT ![t] = tapEntry[t]]
           /\ tapDev[t].there = FALSE => tapDev[t].endpoint = {}
           /\ \A a \in tapDev[t].endpoint : TapBinds(a, t)
           /\ tapEntry[t].phase \in {"none", "Ready", "Preparing"} => tapEntry[t].owner = {}
BY DEF TapInv, TapTyped, TapKernel, TapPooled

LEMMA TapPoolFailure ==
    ASSUME TapInv, NEW t \in Taps, tapEntry' = Tap!poolFailure(t)
    PROVE  \E v \in TapEntries : /\ tapEntry' = [tapEntry EXCEPT ![t] = v]
                                 /\ v.phase = "Cleaning" /\ v.owner = {}
<1> DEFINE v == [phase |-> "Cleaning", epoch |-> tapEntry[t].epoch, owner |-> {}, prepared |-> tapEntry[t].prepared]
<1>1. tapEntry \in [Taps -> TapEntries]
  BY DEF TapInv, TapTyped
<1>2. v \in TapEntries /\ v.phase = "Cleaning" /\ v.owner = {}
  BY <1>1 DEF TapEntries, TapPhases
<1>3. tapEntry' = [tapEntry EXCEPT ![t].phase = "Cleaning", ![t].owner = {}]
  BY DEF Tap!poolFailure
<1>4. tapEntry' = [tapEntry EXCEPT ![t] = v]
  <2>1. /\ tapEntry' \in [Taps -> TapEntries] /\ tapEntry'[t] = v
        /\ \A x \in Taps \ {t} : tapEntry'[x] = tapEntry[x]
    BY ONLY Zenon, <1>1, <1>3, t \in Taps DEF TapEntries, TapPhases
  <2> HIDE DEF v
  <2> QED
    BY ONLY <1>1, <2>1, t \in Taps
<1> QED
  BY <1>2, <1>4

(* The device of an operation without a lease goes back to the pool.         *)
LEMMA TapGivesBack ==
    ASSUME TapInv, NEW s \in Tenants, tapUp = TRUE, tapOp[s].step \in {"publish", "ready"},
           NEW t \in tapOp[s].tap, Tap!Return(s),
           NEW v \in TapEntries, v.owner = {}, v.phase = "none" => v.epoch = 0, NEW d \in TapDevices,
           d = tapDev[t] \/ d.endpoint = {},
           tapEntry' = [tapEntry EXCEPT ![t] = v], tapDev' = [tapDev EXCEPT ![t] = d],
           UNCHANGED <<tapAddress, tapIndex, tapHolder, tapUp, tapWork, tapTrack>>
    PROVE  TapInv'
<1>1. t \in Taps /\ tapEntry[t].owner = {s} /\ \A a \in TapAddresses : ~TapBinds(a, t)
  BY TapWithout
<1>2. /\ d.there = FALSE => d.endpoint = {}
      /\ \A a \in d.endpoint : TapBinds(a, t)
      /\ tapEntry[t].phase # "Preparing"
  BY <1>1, TapAsItIs
<1>3. /\ tapOp' \in [Tenants -> TapOps] /\ TapOperates(s)'
      /\ \A u \in Tenants \ {s} : tapOp'[u] = tapOp[u]
  BY TapReturns
<1>4. tapEntry[t].owner \subseteq {s} /\ (v.phase \in {"none", "Ready", "Preparing"} => v.owner = {})
  BY <1>1
<1> QED
  BY <1>1, <1>2, <1>3, <1>4, TapStepOf

LEMMA TapFailsWithout ==
    ASSUME TapInv, NEW s \in Tenants, Tap!PublishFailed(s) \/ Tap!ReadyFailed(s)
    PROVE  TapInv'
<1>1. /\ tapUp = TRUE /\ tapOp[s].step \in {"publish", "ready"} /\ Tap!Return(s)
      /\ \E t \in tapOp[s].tap : tapEntry' = Tap!poolFailure(t)
      /\ UNCHANGED <<tapAddress, tapIndex, tapHolder, tapUp, tapWork, tapTrack, tapDev>>
  <2>1. tapUp \in BOOLEAN
    BY DEF TapInv, TapTyped
  <2>2. CASE Tap!PublishFailed(s)
    BY <2>1, <2>2 DEF Tap!PublishFailed, Tap!At, Tap!kernel, Tap!files
  <2>3. CASE Tap!ReadyFailed(s)
    BY <2>1, <2>3 DEF Tap!ReadyFailed, Tap!At, Tap!kernel, Tap!files
  <2> QED
    BY <2>2, <2>3
<1>2. PICK t \in tapOp[s].tap : tapEntry' = Tap!poolFailure(t)
  BY <1>1
<1>3. t \in Taps
  BY <1>1, TapWithout
<1>4. PICK v \in TapEntries : tapEntry' = [tapEntry EXCEPT ![t] = v] /\ v.phase = "Cleaning" /\ v.owner = {}
  BY <1>2, <1>3, TapPoolFailure
<1>5. tapDev[t] \in TapDevices /\ tapDev' = [tapDev EXCEPT ![t] = tapDev[t]]
  BY <1>1, <1>3, TapAsItIs
<1>6. UNCHANGED <<tapAddress, tapIndex, tapHolder, tapUp, tapWork, tapTrack>>
  BY <1>1
<1> QED
  BY <1>1, <1>4, <1>5, <1>6, TapGivesBack

LEMMA TapDeleteReady ==
    ASSUME TapInv, NEW s \in Tenants, Tap!DeleteReady(s)
    PROVE  TapInv'
<1>1. /\ tapUp = TRUE /\ tapOp[s].step \in {"publish", "ready"} /\ Tap!Return(s)
      /\ UNCHANGED <<tapAddress, tapIndex, tapHolder, tapUp, tapWork, tapTrack>>
  BY DEF Tap!DeleteReady, Tap!At, Tap!files, TapInv, TapTyped
<1>2. PICK t \in tapOp[s].tap :
          IF tapDev[t].there \/ ~tapEntry[t].prepared THEN Tap!markPoolReady(t)
          ELSE tapEntry' = Tap!poolFailure(t) /\ UNCHANGED tapDev
  BY DEF Tap!DeleteReady
<1>3. t \in Taps
  BY <1>1, TapWithout
<1>4. tapEntry[t] \in TapEntries /\ tapDev[t] \in TapDevices /\ tapDev = [tapDev EXCEPT ![t] = tapDev[t]]
  BY <1>3, TapAsItIs
<1>5. \E v \in TapEntries, d \in TapDevices :
          /\ tapEntry' = [tapEntry EXCEPT ![t] = v] /\ tapDev' = [tapDev EXCEPT ![t] = d]
          /\ v.owner = {} /\ (v.phase = "none" => v.epoch = 0) /\ (d = tapDev[t] \/ d.endpoint = {})
  <2>1. CASE tapEntry' = Tap!poolFailure(t) /\ UNCHANGED tapDev
    BY <1>3, <1>4, <2>1, TapPoolFailure
  <2>2. CASE Tap!markPoolReady(t)
    <3> DEFINE v == [phase |-> "Ready", epoch |-> tapEntry[t].epoch, owner |-> {}, prepared |-> TRUE]
               d == IF tapDev[t].there THEN tapDev[t] ELSE Tap!Device(tapEntry[t].epoch)
    <3>1. tapEntry[t].epoch \in Nat
      BY <1>4 DEF TapEntries
    <3>2. v \in TapEntries /\ v.owner = {} /\ v.phase = "Ready"
      BY <3>1 DEF TapEntries, TapPhases
    <3>3. d \in TapDevices /\ (d = tapDev[t] \/ d.endpoint = {})
      BY <3>1, <1>4, TapFreshDevice
    <3>4. \/ tapEntry' = [tapEntry EXCEPT ![t] = v] /\ tapDev' = [tapDev EXCEPT ![t] = d]
          \/ tapEntry' = [tapEntry EXCEPT ![t] = Tap!NoEntry] /\ tapDev' = [tapDev EXCEPT ![t] = Tap!NoDevice]
      BY <2>2, <1>3 DEF Tap!markPoolReady, TapInv, TapTyped
    <3> HIDE DEF v, d
    <3> QED
      BY <3>1, <3>2, <3>3, <3>4, TapFreshDevice
  <2> QED
    BY <1>2, <2>1, <2>2
<1>6. PICK v \in TapEntries, d \in TapDevices :
          /\ tapEntry' = [tapEntry EXCEPT ![t] = v] /\ tapDev' = [tapDev EXCEPT ![t] = d]
          /\ v.owner = {} /\ (v.phase = "none" => v.epoch = 0) /\ (d = tapDev[t] \/ d.endpoint = {})
  BY <1>5
<1> QED
  BY <1>1, <1>6, TapGivesBack

(* The entry of a lease is the lease's own.                                  *)
LEMMA TapLeaseEntry ==
    ASSUME TapInv, tapUp = TRUE, NEW s \in Tenants, NEW a \in TapAddresses, NEW t \in Taps, TapHas(s, a, t)
    PROVE  /\ tapEntry[t].owner = {s} /\ tapEntry[t].epoch = tapOp[s].epoch
           /\ tapEntry[t].phase \notin {"none", "Ready", "Preparing"}
           /\ Tap!Adoptable(t, s, tapOp[s].epoch)
           /\ Tap!adoptPooledLease(t, s, tapOp[s].epoch) = tapEntry[t]
<1>1. tapEntry[t].owner = {s} /\ tapEntry[t].epoch = tapOp[s].epoch
  BY SMTT(30) DEF TapHas, TapInv, TapPooled
<1>2. tapEntry[t].phase \notin {"none", "Ready", "Preparing"}
  BY <1>1, TapAsItIs
<1> QED
  BY <1>1, <1>2 DEF Tap!Adoptable, Tap!adoptPooledLease

(* A step on the device of the sandbox's lease.                              *)
LEMMA TapLeaseStep ==
    ASSUME TapInv, tapUp = TRUE, NEW s \in Tenants, NEW a \in TapAddresses, NEW t \in Taps, TapHas(s, a, t),
           NEW v \in TapEntries, v.owner = tapEntry[t].owner, v.epoch = tapEntry[t].epoch,
           v.phase \notin {"none", "Ready", "Preparing"},
           NEW d \in TapDevices, d.there = FALSE => d.endpoint = {}, d.endpoint \subseteq tapDev[t].endpoint \cup {a},
           UNCHANGED <<tapAddress, tapIndex, tapHolder, tapUp, tapWork, tapTrack>>,
           tapEntry' = [tapEntry EXCEPT ![t] = v], tapDev' = [tapDev EXCEPT ![t] = d],
           tapOp' \in [Tenants -> TapOps], \A u \in Tenants \ {s} : tapOp'[u] = tapOp[u],
           TapOperates(s)'
    PROVE  TapInv'
<1>1. tapEntry[t].owner \subseteq {s} /\ tapEntry[t].phase # "Preparing"
  BY SMTT(30), TapLeaseEntry
<1>2. \A b \in d.endpoint : TapBinds(b, t)
  BY TapAsItIs DEF TapHas, TapLeased
<1> QED
  BY <1>1, <1>2, TapStepOf

(* The lease is still the operation's after a step that leaves the files.    *)
LEMMA TapStillHas ==
    ASSUME NEW s \in Tenants, NEW a \in TapAddresses, NEW t \in Taps, TapHas(s, a, t), tapAddress' = tapAddress,
           tapOp'[s].at = tapOp[s].at, tapOp'[s].tap = tapOp[s].tap, tapOp'[s].epoch = tapOp[s].epoch
    PROVE  TapHas(s, a, t)'
BY DEF TapHas, TapLeased, TapBinds

LEMMA TapEnsureLink ==
    ASSUME TapInv, NEW s \in Tenants, Tap!EnsureLink(s)
    PROVE  TapInv'
<1>1. /\ tapUp = TRUE /\ tapOp[s].step = "ensure"
      /\ UNCHANGED <<tapAddress, tapIndex, tapHolder, tapUp, tapWork, tapTrack>>
  BY DEF Tap!EnsureLink, Tap!At, Tap!files, TapInv, TapTyped
<1>2. PICK a \in TapAddresses, t \in Taps : TapHas(s, a, t)
  BY <1>1, TapCarries
<1>3. tapOp[s].tap = {t}
  BY <1>2 DEF TapHas
<1>4. /\ tapEntry[t].phase \notin {"none", "Ready", "Preparing"}
      /\ Tap!Adoptable(t, s, tapOp[s].epoch)
      /\ Tap!adoptPooledLease(t, s, tapOp[s].epoch) = tapEntry[t]
  BY <1>1, <1>2, TapLeaseEntry
<1>5. tapEntry[t] \in TapEntries /\ tapDev[t] \in TapDevices /\ tapDev = [tapDev EXCEPT ![t] = tapDev[t]]
      /\ tapEntry = [tapEntry EXCEPT ![t] = tapEntry[t]] /\ (tapDev[t].there = FALSE => tapDev[t].endpoint = {})
  BY TapAsItIs
<1> DEFINE e == tapOp[s].epoch
           here == IF tapDev[t].there THEN tapDev[t] ELSE Tap!Device(e)
           d == [here EXCEPT !.alias = e, !.endpoint = IF tapEntry[t].prepared THEN @ ELSE {}]
           v == [tapEntry[t] EXCEPT !.prepared = TRUE]
<1>6. \/ /\ Tap!Return(s) /\ tapEntry' = tapEntry /\ tapDev' = tapDev
      \/ /\ tapDev' = [tapDev EXCEPT ![t] = d] /\ tapEntry' = [tapEntry EXCEPT ![t] = v]
         /\ Tap!Goto(s, "enable")
  <2> DEFINE own == Tap!adoptPooledLease(t, s, e)
             busy == here.alias > e \/ (here.alias # e /\ tapHolder[t] # {})
             may == Tap!Adoptable(t, s, e)
             dd == [here EXCEPT !.alias = e, !.endpoint = IF own.prepared THEN @ ELSE {}]
             vv == [own EXCEPT !.prepared = TRUE]
  <2>1. IF ~may \/ busy
        THEN /\ Tap!Return(s)
             /\ tapEntry' = IF may THEN [tapEntry EXCEPT ![t] = own] ELSE tapEntry
             /\ UNCHANGED tapDev
        ELSE /\ tapDev' = [tapDev EXCEPT ![t] = dd] /\ tapEntry' = [tapEntry EXCEPT ![t] = vv]
             /\ Tap!Goto(s, "enable")
    <3>1. PICK x \in tapOp[s].tap :
            LET hx == IF tapDev[x].there THEN tapDev[x] ELSE Tap!Device(e)
                ox == Tap!adoptPooledLease(x, s, e)
                bx == hx.alias > e \/ (hx.alias # e /\ tapHolder[x] # {})
            IN IF ~Tap!Adoptable(x, s, e) \/ bx
               THEN /\ Tap!Return(s)
                    /\ tapEntry' = IF Tap!Adoptable(x, s, e) THEN [tapEntry EXCEPT ![x] = ox] ELSE tapEntry
                    /\ UNCHANGED tapDev
               ELSE /\ tapDev' = [tapDev EXCEPT ![x] =
                        [hx EXCEPT !.alias = e, !.endpoint = IF ox.prepared THEN @ ELSE {}]]
                    /\ tapEntry' = [tapEntry EXCEPT ![x] = [ox EXCEPT !.prepared = TRUE]]
                    /\ Tap!Goto(s, "enable")
      BY DEF Tap!EnsureLink
    <3>2. x = t
      BY <1>3
    <3> QED
      BY ONLY <3>1, <3>2
  <2>2. own = tapEntry[t] /\ may
    BY <1>4
  <2>3. dd = d /\ vv = v
    BY ONLY <2>2
  <2>4. tapEntry = [tapEntry EXCEPT ![t] = own]
    BY <1>5, <2>2
  <2> HIDE DEF own, busy, may, dd, vv, d, v
  <2> QED
    BY <2>1, <2>2, <2>3, <2>4
<1>7. CASE Tap!Return(s) /\ tapEntry' = tapEntry /\ tapDev' = tapDev
  <2>1. Tap!Idle \in TapOps /\ tapOp' = [tapOp EXCEPT ![s] = Tap!Idle] /\ TapOperates(s)'
    BY <1>7, TapReturns
  <2> QED
    BY <1>1, <1>7, <2>1, TapTurns
<1>8. CASE /\ tapDev' = [tapDev EXCEPT ![t] = d] /\ tapEntry' = [tapEntry EXCEPT ![t] = v]
           /\ Tap!Goto(s, "enable")
  <2>1. e \in Nat
    BY DEF TapInv, TapTyped, TapOps
  <2>2. here \in TapDevices /\ here.there = TRUE /\ here.endpoint \subseteq tapDev[t].endpoint
    BY <1>5, <2>1, TapFreshDevice DEF TapDevices
  <2> HIDE DEF here, e
  <2>3. d \in TapDevices /\ d.there = TRUE /\ d.endpoint \subseteq here.endpoint
    BY <2>1, <2>2 DEF TapDevices
  <2>4. v \in TapEntries /\ v.owner = tapEntry[t].owner /\ v.epoch = tapEntry[t].epoch /\ v.phase = tapEntry[t].phase
    BY <1>5 DEF TapEntries
  <2> HIDE DEF d, v
  <2>5. "enable" \in TapSteps
    BY DEF TapSteps
  <2>6. /\ tapOp' \in [Tenants -> TapOps] /\ tapOp'[s].step = "enable"
        /\ tapOp'[s].at = tapOp[s].at /\ tapOp'[s].tap = tapOp[s].tap /\ tapOp'[s].epoch = tapOp[s].epoch
        /\ \A u \in Tenants \ {s} : tapOp'[u] = tapOp[u]
    BY <1>8, <2>5, TapGoes
  <2>7. TapHas(s, a, t)'
    BY <1>1, <1>2, <2>6, TapStillHas
  <2>8. tapDev'[t].there = TRUE
    BY <1>8, <2>3 DEF TapInv, TapTyped
  <2>9. TapOperates(s)'
    BY <1>1, <1>3, <2>6, <2>7, <2>8 DEF TapOperates
  <2>10. v.phase \notin {"none", "Ready", "Preparing"} /\ d.endpoint \subseteq tapDev[t].endpoint \cup {a}
         /\ (d.there = FALSE => d.endpoint = {})
    BY <1>4, <2>2, <2>3, <2>4
  <2> QED
    BY <1>1, <1>2, <1>8, <2>3, <2>4, <2>6, <2>9, <2>10, TapLeaseStep
<1> QED
  BY <1>6, <1>7, <1>8

LEMMA TapPublishEndpoint ==
    ASSUME TapInv, NEW s \in Tenants, Tap!publishEndpoint(s) \/ Tap!EndpointFailed(s)
    PROVE  TapInv'
<1>1. /\ tapUp = TRUE /\ tapOp[s].step = "enable" /\ Tap!Return(s)
      /\ UNCHANGED <<tapAddress, tapIndex, tapHolder, tapUp, tapWork, tapTrack>>
  <2>1. tapUp \in BOOLEAN
    BY DEF TapInv, TapTyped
  <2>2. CASE Tap!publishEndpoint(s)
    BY <2>1, <2>2 DEF Tap!publishEndpoint, Tap!At, Tap!files
  <2>3. CASE Tap!EndpointFailed(s)
    BY <2>1, <2>3 DEF Tap!EndpointFailed, Tap!At, Tap!files
  <2> QED
    BY <2>2, <2>3
<1>2. PICK a \in TapAddresses, t \in Taps : TapHas(s, a, t)
  BY <1>1, TapCarries
<1>3. tapOp[s].tap = {t} /\ tapOp[s].at = {a}
  BY <1>2 DEF TapHas
<1>4. tapDev[t].there = TRUE
  BY <1>1, <1>3 DEF TapInv, TapOperates
<1>5. tapEntry[t].phase \notin {"none", "Ready", "Preparing"}
  BY <1>1, <1>2, TapLeaseEntry
<1>6. tapEntry[t] \in TapEntries /\ tapDev[t] \in TapDevices /\ tapEntry = [tapEntry EXCEPT ![t] = tapEntry[t]]
  BY TapAsItIs
<1>7. \E r \in SUBSET TapAddresses, p \in SUBSET {a} :
          tapDev' = [tapDev EXCEPT ![t] = [tapDev[t] EXCEPT !.endpoint = p, !.routes = r]]
  <2>1. tapDev \in [Taps -> TapDevices]
    BY DEF TapInv, TapTyped
  <2>2. \/ tapDev' = [tapDev EXCEPT ![t].endpoint = {}]
        \/ tapDev' = [tapDev EXCEPT ![t].routes = @ \cup {a}, ![t].endpoint = {a}]
        \/ \E routed \in SUBSET {a} : tapDev' = [tapDev EXCEPT ![t].endpoint = {}, ![t].routes = @ \cup routed]
    <3>1. CASE Tap!publishEndpoint(s)
      BY <1>3, <3>1 DEF Tap!publishEndpoint
    <3>2. CASE Tap!EndpointFailed(s)
      BY <1>3, <3>2 DEF Tap!EndpointFailed
    <3> QED
      BY <3>1, <3>2
  <2>3. tapDev[t].routes \in SUBSET TapAddresses
    BY <1>6 DEF TapDevices
  <2>4. CASE tapDev' = [tapDev EXCEPT ![t].endpoint = {}]
    <3>1. tapDev' = [tapDev EXCEPT ![t] = [tapDev[t] EXCEPT !.endpoint = {}, !.routes = tapDev[t].routes]]
      BY ONLY Zenon, <2>1, <2>4, t \in Taps DEF TapDevices
    <3> QED
      BY <3>1, <2>3
  <2>5. CASE tapDev' = [tapDev EXCEPT ![t].routes = @ \cup {a}, ![t].endpoint = {a}]
    <3>1. tapDev' = [tapDev EXCEPT ![t] = [tapDev[t] EXCEPT !.endpoint = {a}, !.routes = tapDev[t].routes \cup {a}]]
      BY ONLY Zenon, <2>1, <2>5, t \in Taps DEF TapDevices
    <3> QED
      BY <3>1, <2>3
  <2>6. CASE \E routed \in SUBSET {a} : tapDev' = [tapDev EXCEPT ![t].endpoint = {}, ![t].routes = @ \cup routed]
    <3>1. PICK routed \in SUBSET {a} : tapDev' = [tapDev EXCEPT ![t].endpoint = {}, ![t].routes = @ \cup routed]
      BY <2>6
    <3>2. tapDev' = [tapDev EXCEPT ![t] = [tapDev[t] EXCEPT !.endpoint = {}, !.routes = tapDev[t].routes \cup routed]]
      BY ONLY Zenon, <2>1, <3>1, t \in Taps DEF TapDevices
    <3> QED
      BY <3>2, <2>3
  <2> QED
    BY <2>2, <2>4, <2>5, <2>6
<1>8. PICK r \in SUBSET TapAddresses, p \in SUBSET {a} :
          tapDev' = [tapDev EXCEPT ![t] = [tapDev[t] EXCEPT !.endpoint = p, !.routes = r]]
  BY <1>7
<1> DEFINE d == [tapDev[t] EXCEPT !.endpoint = p, !.routes = r]
<1>9. d \in TapDevices /\ d.there = TRUE /\ d.endpoint \subseteq tapDev[t].endpoint \cup {a}
  BY <1>4, <1>6, <1>8 DEF TapDevices
<1>10. \E v \in TapEntries : /\ tapEntry' = [tapEntry EXCEPT ![t] = v] /\ v.owner = tapEntry[t].owner
                             /\ v.epoch = tapEntry[t].epoch /\ v.phase \notin {"none", "Ready", "Preparing"}
  <2>1. \/ tapEntry' = tapEntry
        \/ tapEntry' = [tapEntry EXCEPT ![t].phase = "Active"]
    <3>1. CASE Tap!publishEndpoint(s)
      BY <1>3, <3>1 DEF Tap!publishEndpoint
    <3>2. CASE Tap!EndpointFailed(s)
      BY <3>2 DEF Tap!EndpointFailed
    <3> QED
      BY <3>1, <3>2
  <2>2. CASE tapEntry' = tapEntry
    BY <2>2, <1>5, <1>6
  <2>3. CASE tapEntry' = [tapEntry EXCEPT ![t].phase = "Active"]
    <3> DEFINE v == [tapEntry[t] EXCEPT !.phase = "Active"]
    <3>1. v \in TapEntries /\ v.owner = tapEntry[t].owner /\ v.epoch = tapEntry[t].epoch /\ v.phase = "Active"
      BY <1>6 DEF TapEntries, TapPhases
    <3>2. tapEntry' = [tapEntry EXCEPT ![t] = v]
      BY <2>3
    <3> QED
      BY <3>1, <3>2
  <2> QED
    BY <2>1, <2>2, <2>3
<1>11. PICK v \in TapEntries : /\ tapEntry' = [tapEntry EXCEPT ![t] = v] /\ v.owner = tapEntry[t].owner
                               /\ v.epoch = tapEntry[t].epoch /\ v.phase \notin {"none", "Ready", "Preparing"}
  BY <1>10
<1>12. tapDev' = [tapDev EXCEPT ![t] = d]
  BY <1>8
<1>13. tapOp' \in [Tenants -> TapOps] /\ TapOperates(s)' /\ \A u \in Tenants \ {s} : tapOp'[u] = tapOp[u]
  BY <1>1, TapReturns
<1> HIDE DEF d
<1> QED
  BY <1>1, <1>2, <1>9, <1>11, <1>12, <1>13, TapLeaseStep

(* Permission ends before the question who holds a queue.                    *)
LEMMA TapDeleteClean ==
    ASSUME TapInv, NEW s \in Tenants, Tap!DeleteClean(s)
    PROVE  TapInv'
<1>1. /\ tapUp = TRUE /\ tapOp[s].step = "clean"
      /\ UNCHANGED <<tapAddress, tapIndex, tapHolder, tapUp, tapWork, tapTrack>>
  BY DEF Tap!DeleteClean, Tap!At, Tap!files, TapInv, TapTyped
<1>2. PICK a \in TapAddresses, t \in Taps : TapHas(s, a, t)
  BY <1>1, TapCarries
<1>3. tapOp[s].tap = {t}
  BY <1>2 DEF TapHas
<1>4. /\ Tap!Adoptable(t, s, tapOp[s].epoch)
      /\ Tap!adoptPooledLease(t, s, tapOp[s].epoch) = tapEntry[t]
  BY SMTT(30), <1>1, <1>2, TapLeaseEntry
<1>5. tapEntry[t] \in TapEntries /\ tapDev[t] \in TapDevices /\ tapDev = [tapDev EXCEPT ![t] = tapDev[t]]
      /\ (tapDev[t].there = FALSE => tapDev[t].endpoint = {})
  BY TapAsItIs
<1> DEFINE newer == tapDev[t].there /\ tapDev[t].alias > tapEntry[t].epoch
           v == [tapEntry[t] EXCEPT !.phase = "Cleaning"]
<1>6. /\ tapEntry' = [tapEntry EXCEPT ![t] = v]
      /\ tapDev' = IF newer \/ ~tapDev[t].there THEN tapDev ELSE [tapDev EXCEPT ![t].endpoint = {}]
      /\ IF newer \/ tapHolder[t] # {} THEN Tap!Return(s) ELSE Tap!Goto(s, "flows")
  <2>1. PICK x \in tapOp[s].tap :
          LET ox == Tap!adoptPooledLease(x, s, tapOp[s].epoch)
              rx == ~Tap!Adoptable(x, s, tapOp[s].epoch)
              nx == tapDev[x].there /\ tapDev[x].alias > ox.epoch
          IN /\ tapEntry' = IF rx THEN tapEntry
                            ELSE [tapEntry EXCEPT ![x] = [ox EXCEPT !.phase = "Cleaning"]]
             /\ tapDev' = IF rx \/ nx \/ ~tapDev[x].there THEN tapDev
                          ELSE [tapDev EXCEPT ![x].endpoint = {}]
             /\ IF rx \/ nx \/ tapHolder[x] # {} THEN Tap!Return(s) ELSE Tap!Goto(s, "flows")
    BY DEF Tap!DeleteClean
  <2>2. x = t
    BY <1>3
  <2> QED
    BY ONLY SMTT(30), <2>1, <2>2, <1>4
<1>7. v \in TapEntries /\ v.owner = tapEntry[t].owner /\ v.epoch = tapEntry[t].epoch /\ v.phase = "Cleaning"
  BY <1>5 DEF TapEntries, TapPhases
<1> HIDE DEF v
<1>8. \E d \in TapDevices : /\ tapDev' = [tapDev EXCEPT ![t] = d] /\ d.endpoint \subseteq tapDev[t].endpoint
                            /\ (newer \/ d.endpoint = {}) /\ (d.there = FALSE => d.endpoint = {})
  <2>1. CASE newer \/ ~tapDev[t].there
    <3>1. tapDev[t].there \in BOOLEAN
      BY <1>5 DEF TapDevices
    <3> QED
      BY <1>5, <1>6, <2>1, <3>1
  <2>2. CASE ~(newer \/ ~tapDev[t].there)
    <3> DEFINE d == [tapDev[t] EXCEPT !.endpoint = {}]
    <3>1. d \in TapDevices /\ d.endpoint = {}
      BY <1>5 DEF TapDevices
    <3>2. tapDev' = [tapDev EXCEPT ![t] = d]
      BY <1>6, <2>2
    <3> QED
      BY <3>1, <3>2
  <2> QED
    BY <2>1, <2>2
<1>9. PICK d \in TapDevices : /\ tapDev' = [tapDev EXCEPT ![t] = d] /\ d.endpoint \subseteq tapDev[t].endpoint
                              /\ (newer \/ d.endpoint = {}) /\ (d.there = FALSE => d.endpoint = {})
  BY <1>8
<1>10. tapDev'[t] = d
  BY <1>9 DEF TapInv, TapTyped
<1>11. tapOp' \in [Tenants -> TapOps] /\ TapOperates(s)' /\ \A u \in Tenants \ {s} : tapOp'[u] = tapOp[u]
  <2>1. CASE Tap!Return(s)
    BY <2>1, TapReturns
  <2>2. CASE ~newer /\ tapHolder[t] = {} /\ Tap!Goto(s, "flows")
    <3>1. "flows" \in TapSteps
      BY DEF TapSteps
    <3>2. /\ tapOp' \in [Tenants -> TapOps] /\ tapOp'[s].step = "flows"
          /\ tapOp'[s].at = tapOp[s].at /\ tapOp'[s].tap = tapOp[s].tap /\ tapOp'[s].epoch = tapOp[s].epoch
          /\ \A u \in Tenants \ {s} : tapOp'[u] = tapOp[u]
      BY <2>2, <3>1, TapGoes
    <3>3. TapHas(s, a, t)'
      BY <1>1, <1>2, <3>2, TapStillHas
    <3>4. \A x \in tapOp'[s].tap : tapDev'[x].endpoint = {} /\ tapHolder'[x] = {}
      BY <1>1, <1>3, <1>9, <1>10, <2>2, <3>2
    <3>5. TapOperates(s)'
      BY <1>1, <3>2, <3>3, <3>4 DEF TapOperates
    <3> QED
      BY <3>2, <3>5
  <2> QED
    BY <1>6, <2>1, <2>2
<1>12. v.phase \notin {"none", "Ready", "Preparing"} /\ d.endpoint \subseteq tapDev[t].endpoint \cup {a}
  BY <1>7, <1>9
<1>13. /\ tapEntry' = [tapEntry EXCEPT ![t] = v] /\ tapDev' = [tapDev EXCEPT ![t] = d]
       /\ (d.there = FALSE => d.endpoint = {})
  BY <1>6, <1>9
<1>14. v \in TapEntries /\ v.owner = tapEntry[t].owner /\ v.epoch = tapEntry[t].epoch
  BY <1>7
<1> HIDE DEF newer
<1> QED
  BY <1>1, <1>2, <1>11, <1>12, <1>13, <1>14, TapLeaseStep

LEMMA TapDeleteFlows ==
    ASSUME TapInv, NEW s \in Tenants, Tap!DeleteFlows(s)
    PROVE  TapInv'
<1>1. /\ tapUp = TRUE /\ tapOp[s].step = "flows" /\ Tap!Goto(s, "unindex")
      /\ UNCHANGED <<tapAddress, tapIndex, tapHolder, tapUp, tapWork, tapEntry>>
  BY DEF Tap!DeleteFlows, Tap!At, Tap!files, TapInv, TapTyped
<1>2. PICK a \in TapAddresses, t \in Taps : TapHas(s, a, t)
  BY <1>1, TapCarries
<1>3. tapOp[s].tap = {t} /\ tapOp[s].at = {a} /\ tapDev[t].endpoint = {} /\ tapHolder[t] = {}
  BY <1>1, <1>2 DEF TapHas, TapInv, TapOperates
<1>4. tapEntry[t] \in TapEntries /\ tapDev[t] \in TapDevices /\ tapDev = [tapDev EXCEPT ![t] = tapDev[t]]
      /\ tapEntry' = [tapEntry EXCEPT ![t] = tapEntry[t]]
  BY <1>1, TapAsItIs
<1>5. Tap!CleanLink(t, {a})
  BY <1>3 DEF Tap!DeleteFlows
<1>6. /\ tapTrack' \in [TapAddresses -> SUBSET Tenants] /\ tapTrack'[a] = {}
      /\ \A b \in TapAddresses : tapTrack'[b] \subseteq tapTrack[b]
  BY <1>5 DEF Tap!CleanLink, TapInv, TapTyped
<1>7. \E d \in TapDevices : tapDev' = [tapDev EXCEPT ![t] = d] /\ d.endpoint = {}
  <2>1. tapDev' = tapDev \/ tapDev' = [tapDev EXCEPT ![t].routes = {}, ![t].alias = tapEntry[t].epoch]
    BY <1>5 DEF Tap!CleanLink
  <2>2. CASE tapDev' = tapDev
    BY <2>2, <1>3, <1>4
  <2>3. CASE tapDev' = [tapDev EXCEPT ![t].routes = {}, ![t].alias = tapEntry[t].epoch]
    <3> DEFINE d == [tapDev[t] EXCEPT !.routes = {}, !.alias = tapEntry[t].epoch]
    <3>1. d \in TapDevices /\ d.endpoint = {}
      BY <1>3, <1>4 DEF TapDevices, TapEntries
    <3>2. tapDev \in [Taps -> TapDevices]
      BY DEF TapInv, TapTyped
    <3>3. tapDev' = [tapDev EXCEPT ![t] = d]
      BY ONLY Zenon, <2>3, <3>2, t \in Taps DEF TapDevices
    <3> QED
      BY <3>1, <3>3
  <2> QED
    BY <2>1, <2>2, <2>3
<1>8. PICK d \in TapDevices : tapDev' = [tapDev EXCEPT ![t] = d] /\ d.endpoint = {}
  BY <1>7
<1>9. "unindex" \in TapSteps
  BY DEF TapSteps
<1>10. /\ tapOp' \in [Tenants -> TapOps] /\ tapOp'[s].step = "unindex"
       /\ tapOp'[s].at = tapOp[s].at /\ tapOp'[s].tap = tapOp[s].tap /\ tapOp'[s].epoch = tapOp[s].epoch
       /\ \A u \in Tenants \ {s} : tapOp'[u] = tapOp[u]
  BY <1>1, <1>9, TapGoes
<1>11. TapHas(s, a, t)'
  BY <1>1, <1>2, <1>10, TapStillHas
<1>12. tapDev'[t] = d
  BY <1>8 DEF TapInv, TapTyped
<1>13. TapOperates(s)'
  BY <1>1, <1>3, <1>6, <1>8, <1>10, <1>11, <1>12 DEF TapOperates
<1>14. tapEntry[t].owner = {s} /\ tapEntry[t].phase \notin {"none", "Ready", "Preparing"}
  BY <1>1, <1>2, TapLeaseEntry
<1>15. t \notin tapWork'
  BY <1>1, <1>14 DEF TapInv, TapPooled
<1>16. \A u \in Tenants : tapOp'[u] # tapOp[u] \/ tapEntry[t].owner = {u} => TapOperates(u)'
  <2> SUFFICES ASSUME NEW u \in Tenants, tapOp'[u] # tapOp[u] \/ tapEntry[t].owner = {u}
               PROVE  TapOperates(u)'
    OBVIOUS
  <2>1. u = s
    BY <1>10, <1>14
  <2> QED
    BY <2>1, <1>13
<1>17. tapWork' \in SUBSET tapWork /\ UNCHANGED <<tapAddress, tapIndex, tapHolder, tapUp>>
  BY <1>1
<1> QED
  BY <1>1, <1>4, <1>6, <1>8, <1>10, <1>14, <1>15, <1>16, <1>17, TapDevice

(* The index of one sandbox changes.                                         *)
LEMMA TapIndexes ==
    ASSUME TapInv, NEW s \in Tenants, NEW X \in SUBSET TapAddresses, tapIndex' = [tapIndex EXCEPT ![s] = X],
           \A a \in X : tapAddress[a].state = "active" /\ tapAddress[a].sb = {s},
           UNCHANGED <<tapAddress, tapDev, tapHolder, tapTrack, tapEntry, tapWork, tapUp>>,
           tapOp' \in [Tenants -> TapOps], \A u \in Tenants \ {s} : tapOp'[u] = tapOp[u],
           TapOperates(s)'
    PROVE  TapInv'
<1>1. TapTyped'
  BY DEF TapInv, TapTyped
<1>2. \A u \in Tenants : tapIndex'[u] = IF u = s THEN X ELSE tapIndex[u]
  BY DEF TapInv, TapTyped
<1>3. /\ \A a \in TapAddresses, x \in Taps : TapBinds(a, x)' <=> TapBinds(a, x)
      /\ \A a \in TapAddresses, u \in Tenants, x \in Taps : TapLeased(a, u, x)' <=> TapLeased(a, u, x)
  BY DEF TapBinds, TapLeased
<1>4. TapFiles'
  <2>1. \A u \in Tenants : \A a \in tapIndex'[u] : tapAddress'[a].state = "active" /\ tapAddress'[a].sb = {u}
    BY SMTT(30), <1>2 DEF TapInv, TapFiles
  <2> QED
    BY <1>3, <2>1 DEF TapInv, TapFiles
<1>5. TapKernel'
  BY SMTT(30) DEF TapInv, TapKernel, TapBinds, TapLeased
<1>6. TapFlows'
  BY DEF TapInv, TapFlows
<1>7. TapPooled'
  BY SMTT(30) DEF TapInv, TapPooled, TapBinds, TapLeased
<1>8. ASSUME NEW u \in Tenants, u # s
      PROVE  TapOperates(u)'
  <2>1. tapOp'[u] = tapOp[u] /\ tapIndex'[u] = tapIndex[u] /\ tapOp[u].tap \in SUBSET Taps
    BY <1>2, <1>8 DEF TapInv, TapTyped, TapOps
  <2> QED
    BY <1>3, <2>1, TapOther
<1> QED
  BY <1>1, <1>4, <1>5, <1>6, <1>7, <1>8 DEF TapInv

LEMMA TapLinkIndex ==
    ASSUME TapInv, NEW s \in Tenants, Tap!LinkIndex(s)
    PROVE  TapInv'
<1>1. /\ tapUp = TRUE /\ tapOp[s].step = "link" /\ Tap!Goto(s, "ensure")
      /\ tapIndex' = [tapIndex EXCEPT ![s] = tapOp[s].at]
      /\ UNCHANGED <<tapAddress, tapDev, tapHolder, tapTrack, tapEntry, tapWork, tapUp>>
  BY DEF Tap!LinkIndex, Tap!At, Tap!kernel, TapInv, TapTyped
<1>2. PICK a \in TapAddresses, t \in Taps : TapHas(s, a, t)
  BY <1>1, TapCarries
<1>3. /\ tapOp[s].at = {a}
      /\ tapAddress[a].state = "active" /\ tapAddress[a].sb = {s}
  BY <1>2 DEF TapHas, TapLeased, TapBinds
<1>4. "ensure" \in TapSteps
  BY DEF TapSteps
<1>5. /\ tapOp' \in [Tenants -> TapOps] /\ tapOp'[s].step = "ensure"
      /\ tapOp'[s].at = tapOp[s].at /\ tapOp'[s].tap = tapOp[s].tap /\ tapOp'[s].epoch = tapOp[s].epoch
      /\ \A u \in Tenants \ {s} : tapOp'[u] = tapOp[u]
  BY <1>1, <1>4, TapGoes
<1>6. TapHas(s, a, t)'
  BY <1>1, <1>2, <1>5, TapStillHas
<1>7. TapOperates(s)'
  BY <1>1, <1>5, <1>6 DEF TapOperates
<1>8. /\ tapOp[s].at \in SUBSET TapAddresses
      /\ \A b \in tapOp[s].at : tapAddress[b].state = "active" /\ tapAddress[b].sb = {s}
  BY <1>3
<1>9. UNCHANGED <<tapAddress, tapDev, tapHolder, tapTrack, tapEntry, tapWork, tapUp>>
  BY <1>1
<1>10. tapIndex' = [tapIndex EXCEPT ![s] = tapOp[s].at]
  BY <1>1
<1>11. tapOp' \in [Tenants -> TapOps] /\ \A u \in Tenants \ {s} : tapOp'[u] = tapOp[u]
  BY <1>5
<1> QED
  BY <1>7, <1>8, <1>9, <1>10, <1>11, TapIndexes

LEMMA TapRemoveIndex ==
    ASSUME TapInv, NEW s \in Tenants, Tap!RemoveIndex(s)
    PROVE  TapInv'
<1>1. /\ tapUp = TRUE /\ tapOp[s].step = "unindex" /\ Tap!Goto(s, "retire")
      /\ tapIndex' = [tapIndex EXCEPT ![s] = {}]
      /\ UNCHANGED <<tapAddress, tapDev, tapHolder, tapTrack, tapEntry, tapWork, tapUp>>
  BY DEF Tap!RemoveIndex, Tap!At, Tap!kernel, TapInv, TapTyped
<1>2. PICK a \in TapAddresses, t \in Taps : TapHas(s, a, t)
  BY <1>1, TapCarries
<1>3. "retire" \in TapSteps
  BY DEF TapSteps
<1>4. /\ tapOp' \in [Tenants -> TapOps] /\ tapOp'[s].step = "retire"
      /\ tapOp'[s].at = tapOp[s].at /\ tapOp'[s].tap = tapOp[s].tap /\ tapOp'[s].epoch = tapOp[s].epoch
      /\ \A u \in Tenants \ {s} : tapOp'[u] = tapOp[u]
  BY <1>1, <1>3, TapGoes
<1>5. TapHas(s, a, t)'
  BY <1>1, <1>2, <1>4, TapStillHas
<1>6. /\ \A x \in tapOp[s].tap : tapDev[x].endpoint = {} /\ tapHolder[x] = {}
      /\ \A b \in tapOp[s].at : tapTrack[b] = {}
  BY <1>1 DEF TapInv, TapOperates
<1>7. tapIndex'[s] = {}
  BY <1>1 DEF TapInv, TapTyped
<1>8. TapOperates(s)'
  BY <1>1, <1>4, <1>5, <1>6, <1>7 DEF TapOperates
<1>9. {} \in SUBSET TapAddresses /\ \A b \in {} : tapAddress[b].state = "active" /\ tapAddress[b].sb = {s}
  OBVIOUS
<1>10. UNCHANGED <<tapAddress, tapDev, tapHolder, tapTrack, tapEntry, tapWork, tapUp>>
  BY <1>1
<1>11. tapIndex' = [tapIndex EXCEPT ![s] = {}]
  BY <1>1
<1>12. tapOp' \in [Tenants -> TapOps] /\ \A u \in Tenants \ {s} : tapOp'[u] = tapOp[u]
  BY <1>4
<1> QED
  BY <1>8, <1>9, <1>10, <1>11, <1>12, TapIndexes

(* One address file changes: the others bind what they bound.                *)
LEMMA TapOneFile ==
    ASSUME TapInv, NEW a \in TapAddresses, NEW l \in TapLeases, tapAddress' = [tapAddress EXCEPT ![a] = l]
    PROVE  /\ tapAddress' \in [TapAddresses -> TapLeases] /\ tapAddress'[a] = l
           /\ \A b \in TapAddresses \ {a} :
                 /\ tapAddress'[b] = tapAddress[b]
                 /\ \A x \in Taps : TapBinds(b, x)' <=> TapBinds(b, x)
                 /\ \A x \in Taps, u \in Tenants : TapLeased(b, u, x)' <=> TapLeased(b, u, x)
BY DEF TapInv, TapTyped, TapBinds, TapLeased

(* An address file is published for the device its sandbox has reserved.     *)
LEMMA TapPublishes ==
    ASSUME TapInv, NEW s \in Tenants, NEW a \in TapAddresses, Tap!publishLease(s, a),
           UNCHANGED <<tapIndex, tapDev, tapHolder, tapTrack, tapEntry, tapWork, tapUp>>,
           tapOp' \in [Tenants -> TapOps], \A u \in Tenants \ {s} : tapOp'[u] = tapOp[u],
           \A t \in Taps : (tapOp[s].tap = {t} /\ TapLeased(a, s, t)' /\ tapAddress'[a].epoch = tapOp[s].epoch)
                               => TapOperates(s)'
    PROVE  TapInv'
<1> DEFINE l == [state |-> "active", sb |-> {s}, tap |-> tapOp[s].tap, epoch |-> tapOp[s].epoch]
<1>1. /\ tapUp = TRUE /\ tapOp[s].step = "publish" /\ tapAddress[a].state \in {"free", "expired"}
      /\ tapAddress' = [tapAddress EXCEPT ![a] = l]
  BY DEF Tap!publishLease, Tap!At, TapInv, TapTyped
<1>2. l \in TapLeases /\ l.state = "active" /\ l.sb = {s} /\ l.tap = tapOp[s].tap /\ l.epoch = tapOp[s].epoch
  BY DEF TapInv, TapTyped, TapOps, TapLeases
<1> HIDE DEF l
<1>3. PICK t \in Taps : /\ tapOp[s].tap = {t} /\ tapEntry[t].owner = {s} /\ tapEntry[t].epoch = tapOp[s].epoch
                        /\ \A b \in TapAddresses : ~TapBinds(b, t)
  <2>1. PICK t \in Taps : /\ tapOp[s].tap = {t} /\ tapEntry[t].owner = {s}
                          /\ \A b \in TapAddresses : ~TapBinds(b, t)
    BY <1>1 DEF TapInv, TapOperates
  <2>2. tapEntry[t].epoch = tapOp[s].epoch
    BY SMTT(30), <1>1, <2>1 DEF TapInv, TapOperates
  <2> QED
    BY <2>1, <2>2
<1>4. /\ tapAddress' \in [TapAddresses -> TapLeases] /\ tapAddress'[a] = l
      /\ \A b \in TapAddresses \ {a} :
            /\ tapAddress'[b] = tapAddress[b]
            /\ \A x \in Taps : TapBinds(b, x)' <=> TapBinds(b, x)
            /\ \A x \in Taps, u \in Tenants : TapLeased(b, u, x)' <=> TapLeased(b, u, x)
  BY <1>1, <1>2, TapOneFile
<1>5. TapTyped'
  BY <1>4 DEF TapInv, TapTyped
<1>6. /\ tapAddress[a].state # "active" /\ \A x \in Taps : ~TapBinds(a, x)
      /\ TapLeased(a, s, t)' /\ \A x \in Taps : TapBinds(a, x)' => x = t
      /\ \A u \in Tenants, x \in Taps : TapLeased(a, u, x)' => u = s /\ x = t
  BY SMTT(30), <1>1, <1>2, <1>3, <1>4 DEF TapBinds, TapLeased
<1>7. TapFiles'
  <2>1. TapFiles
    BY DEF TapInv
  <2>2. ASSUME NEW b \in TapAddresses, tapAddress'[b].state = "active"
        PROVE  \E u \in Tenants, x \in Taps : TapLeased(b, u, x)'
    <3>1. CASE b = a
      BY <3>1, <1>6
    <3>2. CASE b # a
      <4>1. tapAddress[b].state = "active"
        BY <2>2, <3>2, <1>4
      <4>2. PICK u \in Tenants, x \in Taps : TapLeased(b, u, x)
        BY <4>1, <2>1 DEF TapFiles
      <4> QED
        BY <3>2, <4>2, <1>4
    <3> QED
      BY <3>1, <3>2
  <2>3. ASSUME NEW b \in TapAddresses, NEW c \in TapAddresses, NEW x \in Taps, TapBinds(b, x)', TapBinds(c, x)'
        PROVE  b = c
    <3>1. CASE b # a /\ c # a
      BY ZenonT(30), <2>1, <2>3, <3>1, <1>4 DEF TapFiles
    <3>2. CASE b = a \/ c = a
      BY SMTT(30), <2>3, <3>2, <1>3, <1>4, <1>6
    <3> QED
      BY <3>1, <3>2
  <2>4. ASSUME NEW u \in Tenants, NEW b \in tapIndex'[u]
        PROVE  tapAddress'[b].state = "active" /\ tapAddress'[b].sb = {u}
    <3>1. b \in TapAddresses /\ tapAddress[b].state = "active" /\ tapAddress[b].sb = {u}
      BY <2>1 DEF TapFiles, TapInv, TapTyped
    <3> QED
      BY <3>1, <1>4, <1>6
  <2> QED
    BY <2>2, <2>3, <2>4 DEF TapFiles
<1>8. TapKernel'
  <2>1. TapKernel
    BY DEF TapInv
  <2>2. ASSUME NEW x \in Taps, tapHolder'[x] # {}
        PROVE  \E b \in TapAddresses, u \in Tenants : TapLeased(b, u, x)' /\ tapHolder'[x] = {u}
    <3>1. PICK b \in TapAddresses, u \in Tenants : TapLeased(b, u, x) /\ tapHolder[x] = {u}
      BY <2>1, <2>2 DEF TapKernel
    <3>2. b # a
      <4>1. TapBinds(b, x)
        BY <3>1 DEF TapLeased
      <4> QED
        BY <4>1, <1>6
    <3> QED
      BY <3>1, <3>2, <1>4
  <2>3. ASSUME NEW x \in Taps, NEW b \in tapDev'[x].endpoint
        PROVE  TapBinds(b, x)'
    <3>1. b \in TapAddresses /\ TapBinds(b, x)
      BY <2>1, <1>5 DEF TapKernel, TapTyped, TapDevices
    <3> QED
      BY <3>1, <1>4, <1>6
  <2> QED
    BY <2>1, <2>2, <2>3 DEF TapKernel
<1>9. TapFlows'
  BY <1>4, <1>6 DEF TapInv, TapFlows
<1>10. TapPooled'
  <2>1. TapPooled
    BY DEF TapInv
  <2>2. ASSUME NEW b \in TapAddresses, NEW u \in Tenants, NEW x \in Taps, TapLeased(b, u, x)'
        PROVE  tapEntry'[x].owner = {u} /\ tapEntry'[x].epoch = tapAddress'[b].epoch
    <3>1. CASE b = a
      BY ZenonT(30), <2>2, <3>1, <1>2, <1>3, <1>4, <1>6
    <3>2. CASE b # a
      BY SMTT(30), <2>1, <2>2, <3>2, <1>1, <1>4 DEF TapPooled
    <3> QED
      BY <3>1, <3>2
  <2> QED
    BY <2>1, <2>2, <1>1 DEF TapPooled
<1>11. TapOperates(s)'
  BY <1>2, <1>3, <1>4, <1>6
<1>12. ASSUME NEW u \in Tenants, u # s
       PROVE  TapOperates(u)'
  <2>1. tapOp'[u] = tapOp[u]
    BY <1>12
  <2>2. ASSUME NEW x \in tapOp[u].tap, tapOp[u].step # "idle"
        PROVE  \A b \in TapAddresses : TapBinds(b, x)' => TapBinds(b, x)
    <3>1. x \in Taps /\ tapEntry[x].owner = {u}
      BY <1>1, <2>2, TapOwns
    <3>2. x # t
      BY <3>1, <1>3, <1>12
    <3> QED
      BY <3>1, <3>2, <1>4, <1>6
  <2>3. \A b \in TapAddresses : tapAddress[b].state = "active" /\ tapAddress[b].sb = {u} =>
            tapAddress'[b] = tapAddress[b]
    BY <1>4, <1>6
  <2> QED
    BY <2>1, <2>2, <2>3, TapOther
<1> QED
  BY <1>5, <1>7, <1>8, <1>9, <1>10, <1>11, <1>12 DEF TapInv

LEMMA TapPublish ==
    ASSUME TapInv, NEW s \in Tenants, NEW a \in TapAddresses, Tap!Publish(s, a)
    PROVE  TapInv'
<1>1. /\ Tap!publishLease(s, a) /\ tapOp' = [tapOp EXCEPT ![s].step = "link", ![s].at = {a}]
      /\ UNCHANGED <<tapIndex, tapDev, tapHolder, tapTrack, tapEntry, tapWork, tapUp>>
  BY DEF Tap!Publish, Tap!kernel
<1>2. tapOp \in [Tenants -> TapOps] /\ tapUp = TRUE
  BY <1>1 DEF TapInv, TapTyped, Tap!publishLease, Tap!At
<1>3. /\ tapOp' \in [Tenants -> TapOps] /\ \A u \in Tenants \ {s} : tapOp'[u] = tapOp[u]
      /\ tapOp'[s].step = "link" /\ tapOp'[s].at = {a} /\ tapOp'[s].tap = tapOp[s].tap
      /\ tapOp'[s].epoch = tapOp[s].epoch
  BY ZenonT(30), <1>1, <1>2, s \in Tenants, a \in TapAddresses DEF TapOps, TapSteps
<1>4. ASSUME NEW t \in Taps, tapOp[s].tap = {t}, TapLeased(a, s, t)', tapAddress'[a].epoch = tapOp[s].epoch
      PROVE  TapOperates(s)'
  <2>1. TapHas(s, a, t)'
    BY <1>3, <1>4 DEF TapHas
  <2> QED
    BY <1>1, <1>2, <1>3, <2>1 DEF TapOperates
<1>5. UNCHANGED <<tapIndex, tapDev, tapHolder, tapTrack, tapEntry, tapWork, tapUp>> /\ Tap!publishLease(s, a)
  BY <1>1
<1>6. tapOp' \in [Tenants -> TapOps] /\ \A u \in Tenants \ {s} : tapOp'[u] = tapOp[u]
  BY <1>3
<1> QED
  BY <1>4, <1>5, <1>6, TapPublishes

LEMMA TapPublishUnsynced ==
    ASSUME TapInv, NEW s \in Tenants, NEW a \in TapAddresses, Tap!PublishUnsynced(s, a)
    PROVE  TapInv'
<1>1. /\ Tap!publishLease(s, a) /\ Tap!Return(s)
      /\ UNCHANGED <<tapIndex, tapDev, tapHolder, tapTrack, tapEntry, tapWork, tapUp>>
  BY DEF Tap!PublishUnsynced, Tap!kernel
<1>2. /\ tapOp' \in [Tenants -> TapOps] /\ \A u \in Tenants \ {s} : tapOp'[u] = tapOp[u]
      /\ TapOperates(s)'
  BY <1>1, TapReturns
<1> QED
  BY <1>1, <1>2, TapPublishes

(* An address file that is not active becomes or stays inactive, or an       *)
(* active one ends that nothing refers to any more.                          *)
LEMMA TapEnds ==
    ASSUME TapInv, NEW a \in TapAddresses, NEW l \in TapLeases, tapAddress' = [tapAddress EXCEPT ![a] = l],
           l.state # "active", tapTrack[a] = {},
           \A t \in Taps : TapBinds(a, t) => tapDev[t].endpoint = {} /\ tapHolder[t] = {},
           \A u \in Tenants : a \notin tapIndex[u],
           UNCHANGED <<tapIndex, tapDev, tapHolder, tapTrack, tapEntry, tapWork, tapUp>>,
           tapOp' \in [Tenants -> TapOps],
           \A u \in Tenants : \/ TapOperates(u)'
                              \/ /\ tapOp'[u] = tapOp[u]
                                 /\ ~(tapAddress[a].state = "active" /\ tapAddress[a].sb = {u})
    PROVE  TapInv'
<1>1. /\ tapAddress' \in [TapAddresses -> TapLeases] /\ tapAddress'[a] = l
      /\ \A b \in TapAddresses \ {a} :
            /\ tapAddress'[b] = tapAddress[b]
            /\ \A x \in Taps : TapBinds(b, x)' <=> TapBinds(b, x)
            /\ \A x \in Taps, u \in Tenants : TapLeased(b, u, x)' <=> TapLeased(b, u, x)
  BY TapOneFile
<1>2. TapTyped'
  BY <1>1 DEF TapInv, TapTyped
<1>3. /\ \A x \in Taps : ~TapBinds(a, x)'
      /\ \A x \in Taps, u \in Tenants : ~TapLeased(a, u, x)'
  BY <1>1 DEF TapBinds, TapLeased
<1>4. TapFiles'
  <2>1. TapFiles
    BY DEF TapInv
  <2>2. ASSUME NEW b \in TapAddresses, tapAddress'[b].state = "active"
        PROVE  \E u \in Tenants, x \in Taps : TapLeased(b, u, x)'
    <3>1. b # a /\ tapAddress[b].state = "active"
      BY <2>2, <1>1
    <3>2. PICK u \in Tenants, x \in Taps : TapLeased(b, u, x)
      BY <3>1, <2>1 DEF TapFiles
    <3> QED
      BY <3>1, <3>2, <1>1
  <2>3. ASSUME NEW b \in TapAddresses, NEW c \in TapAddresses, NEW x \in Taps, TapBinds(b, x)', TapBinds(c, x)'
        PROVE  b = c
    <3>1. b # a /\ c # a
      BY <2>3, <1>3
    <3>2. TapBinds(b, x) /\ TapBinds(c, x)
      BY <2>3, <3>1, <1>1
    <3> QED
      BY <2>1, <3>2 DEF TapFiles
  <2>4. ASSUME NEW u \in Tenants, NEW b \in tapIndex'[u]
        PROVE  tapAddress'[b].state = "active" /\ tapAddress'[b].sb = {u}
    <3>1. b \in TapAddresses /\ tapAddress[b].state = "active" /\ tapAddress[b].sb = {u} /\ b # a
      BY <2>1 DEF TapFiles, TapInv, TapTyped
    <3> QED
      BY <3>1, <1>1
  <2> QED
    BY <2>2, <2>3, <2>4 DEF TapFiles
<1>5. TapKernel'
  <2>1. TapKernel
    BY DEF TapInv
  <2>2. ASSUME NEW x \in Taps, tapHolder'[x] # {}
        PROVE  \E b \in TapAddresses, u \in Tenants : TapLeased(b, u, x)' /\ tapHolder'[x] = {u}
    <3>1. PICK b \in TapAddresses, u \in Tenants : TapLeased(b, u, x) /\ tapHolder[x] = {u}
      BY <2>1, <2>2 DEF TapKernel
    <3>2. TapBinds(b, x)
      BY <3>1 DEF TapLeased
    <3>3. b # a
      BY <2>2, <3>2
    <3> QED
      BY <3>1, <3>3, <1>1
  <2>3. ASSUME NEW x \in Taps, NEW b \in tapDev'[x].endpoint
        PROVE  TapBinds(b, x)'
    <3>1. b \in TapAddresses /\ TapBinds(b, x)
      BY <2>1, <1>2 DEF TapKernel, TapTyped, TapDevices
    <3>2. b # a
      BY <2>3, <3>1
    <3> QED
      BY <3>1, <3>2, <1>1
  <2> QED
    BY <2>1, <2>2, <2>3 DEF TapKernel
<1>6. TapFlows'
  BY <1>1 DEF TapInv, TapFlows
<1>7. TapPooled'
  <2>1. TapPooled
    BY DEF TapInv
  <2>2. ASSUME tapUp = TRUE, NEW b \in TapAddresses, NEW u \in Tenants, NEW x \in Taps, TapLeased(b, u, x)'
        PROVE  tapEntry'[x].owner = {u} /\ tapEntry'[x].epoch = tapAddress'[b].epoch
    BY SMTT(30), <2>1, <2>2, <1>1, <1>3 DEF TapPooled
  <2> QED
    BY <2>1, <2>2 DEF TapPooled
<1>8. ASSUME NEW u \in Tenants
      PROVE  TapOperates(u)'
  <2>1. CASE tapOp'[u] = tapOp[u] /\ ~(tapAddress[a].state = "active" /\ tapAddress[a].sb = {u})
    <3>1. tapOp[u].tap \in SUBSET Taps
      BY DEF TapInv, TapTyped, TapOps
    <3>2. \A x \in Taps, b \in TapAddresses : TapBinds(b, x)' => TapBinds(b, x)
      BY SMTT(30), <1>1, <1>3
    <3>3. \A b \in TapAddresses : tapAddress[b].state = "active" /\ tapAddress[b].sb = {u} =>
              tapAddress'[b] = tapAddress[b]
      BY <1>1, <2>1
    <3> QED
      BY <2>1, <3>1, <3>2, <3>3, TapOther
  <2> QED
    BY <2>1
<1> QED
  BY <1>2, <1>4, <1>5, <1>6, <1>7, <1>8 DEF TapInv

LEMMA TapExpire ==
    ASSUME TapInv, NEW a \in TapAddresses, Tap!Expire(a)
    PROVE  TapInv'
<1> DEFINE l == [tapAddress[a] EXCEPT !.state = "expired"]
<1>1. tapAddress \in [TapAddresses -> TapLeases] /\ tapOp \in [Tenants -> TapOps]
  BY DEF TapInv, TapTyped
<1>2. l \in TapLeases /\ l.state = "expired"
  BY <1>1 DEF TapLeases
<1>3. /\ tapAddress[a].state = "cooling" /\ tapAddress' = [tapAddress EXCEPT ![a] = l]
      /\ UNCHANGED <<tapIndex, tapDev, tapHolder, tapTrack, tapEntry, tapWork, tapUp, tapOp>>
  BY DEF Tap!Expire, Tap!memory, Tap!kernel
<1> HIDE DEF l
<1>4. tapTrack[a] = {} /\ \A u \in Tenants : a \notin tapIndex[u]
  BY <1>3 DEF TapInv, TapFlows, TapFiles
<1>5. \A t \in Taps : ~TapBinds(a, t)
  BY <1>3 DEF TapBinds
<1>6. UNCHANGED <<tapIndex, tapDev, tapHolder, tapTrack, tapEntry, tapWork, tapUp>>
  BY <1>3
<1>7. l.state # "active"
  BY <1>2
<1>8. tapOp' \in [Tenants -> TapOps] /\ \A u \in Tenants :
         tapOp'[u] = tapOp[u] /\ ~(tapAddress[a].state = "active" /\ tapAddress[a].sb = {u})
  BY <1>1, <1>3
<1> QED
  BY <1>2, <1>3, <1>4, <1>5, <1>6, <1>7, <1>8, TapEnds

LEMMA TapRetire ==
    ASSUME TapInv, NEW s \in Tenants, Tap!retireAddress(s)
    PROVE  TapInv'
<1>1. /\ tapUp = TRUE /\ tapOp[s].step = "retire"
      /\ UNCHANGED <<tapIndex, tapDev, tapHolder, tapTrack, tapEntry, tapWork, tapUp>>
  BY DEF Tap!retireAddress, Tap!At, Tap!kernel, TapInv, TapTyped
<1>2. PICK a \in TapAddresses, t \in Taps : TapHas(s, a, t)
  BY <1>1, TapCarries
<1>3. tapOp[s].at = {a} /\ tapOp[s].tap = {t} /\ TapBinds(a, t) /\ tapAddress[a].sb = {s}
      /\ tapAddress[a].state = "active"
  BY <1>2 DEF TapHas, TapLeased, TapBinds
<1>4. \/ /\ Tap!Return(s) /\ tapAddress' = tapAddress
      \/ /\ tapAddress' = [tapAddress EXCEPT ![a].state = "cooling"] /\ Tap!Goto(s, "ready")
  BY <1>3 DEF Tap!retireAddress
<1>5. CASE Tap!Return(s) /\ tapAddress' = tapAddress
  BY <1>1, <1>5, TapReturns, TapTurns
<1>6. CASE tapAddress' = [tapAddress EXCEPT ![a].state = "cooling"] /\ Tap!Goto(s, "ready")
  <2> DEFINE l == [tapAddress[a] EXCEPT !.state = "cooling"]
  <2>1. tapAddress \in [TapAddresses -> TapLeases]
    BY DEF TapInv, TapTyped
  <2>2. l \in TapLeases /\ l.state # "active" /\ tapAddress' = [tapAddress EXCEPT ![a] = l]
    BY <2>1, <1>6 DEF TapLeases
  <2> HIDE DEF l
  <2>3. /\ \A x \in tapOp[s].tap : tapDev[x].endpoint = {} /\ tapHolder[x] = {}
        /\ \A b \in tapOp[s].at : tapTrack[b] = {}
        /\ tapIndex[s] = {}
    BY <1>1 DEF TapInv, TapOperates
  <2>4. tapTrack[a] = {} /\ tapDev[t].endpoint = {} /\ tapHolder[t] = {}
    BY <2>3, <1>3
  <2>5. \A x \in Taps : TapBinds(a, x) => tapDev[x].endpoint = {} /\ tapHolder[x] = {}
    BY <2>4, <1>3 DEF TapBinds
  <2>6. \A u \in Tenants : a \notin tapIndex[u]
    BY SMTT(30), <2>3, <1>3 DEF TapInv, TapFiles
  <2>7. "ready" \in TapSteps
    BY DEF TapSteps
  <2>8. /\ tapOp' \in [Tenants -> TapOps] /\ tapOp'[s].step = "ready"
        /\ tapOp'[s].at = tapOp[s].at /\ tapOp'[s].tap = tapOp[s].tap /\ tapOp'[s].epoch = tapOp[s].epoch
        /\ \A u \in Tenants \ {s} : tapOp'[u] = tapOp[u]
    BY <1>6, <2>7, TapGoes
  <2>9. \A b \in TapAddresses : ~TapBinds(b, t)'
    <3>1. ~TapBinds(a, t)'
      BY <2>1, <2>2 DEF TapBinds
    <3>2. \A b \in TapAddresses \ {a} : ~TapBinds(b, t)
      BY <1>3 DEF TapInv, TapFiles
    <3>3. \A b \in TapAddresses \ {a} : ~TapBinds(b, t)'
      BY <3>2, <2>2, TapOneFile
    <3> QED
      BY <3>1, <3>3
  <2>10. tapEntry'[t].owner = {s}
    BY <1>1, <1>2, TapLeaseEntry
  <2>11. TapOperates(s)'
    BY <1>1, <1>3, <2>8, <2>9, <2>10 DEF TapOperates
  <2>12. \A u \in Tenants : \/ TapOperates(u)'
                            \/ /\ tapOp'[u] = tapOp[u]
                               /\ ~(tapAddress[a].state = "active" /\ tapAddress[a].sb = {u})
    <3> SUFFICES ASSUME NEW u \in Tenants, u # s
                 PROVE  tapOp'[u] = tapOp[u] /\ tapAddress[a].sb # {u}
      BY <2>11
    <3> QED
      BY <1>3, <2>8
  <2>13. tapOp' \in [Tenants -> TapOps]
    BY <2>8
  <2> QED
    BY <1>1, <2>2, <2>4, <2>5, <2>6, <2>12, <2>13, TapEnds
<1> QED
  BY <1>4, <1>5, <1>6

(* Quiesce and Unquiesce.                                                    *)
LEMMA TapSetEnabled ==
    ASSUME TapInv, NEW s \in Tenants, NEW enabled \in BOOLEAN, Tap!setEnabled(s, enabled)
    PROVE  TapInv'
<1>1. /\ tapUp = TRUE /\ tapOp[s].step = "idle"
      /\ UNCHANGED <<tapAddress, tapIndex, tapHolder, tapUp, tapWork, tapTrack, tapEntry, tapOp>>
  BY DEF Tap!setEnabled, Tap!At, Tap!memory, Tap!files, TapInv, TapTyped
<1>0. PICK a \in tapIndex[s] : \E t \in tapAddress[a].tap :
          /\ Tap!ownedLink(t, a)
          /\ tapDev' = [tapDev EXCEPT ![t].endpoint = IF enabled THEN {a} ELSE {}]
  BY DEF Tap!setEnabled
<1>2. PICK t \in tapAddress[a].tap :
          /\ Tap!ownedLink(t, a)
          /\ tapDev' = [tapDev EXCEPT ![t].endpoint = IF enabled THEN {a} ELSE {}]
  BY <1>0
<1>3. a \in TapAddresses /\ tapAddress[a].state = "active" /\ tapAddress[a].sb = {s}
  BY DEF TapInv, TapFiles, TapTyped
<1>4. PICK u \in Tenants, x \in Taps : TapLeased(a, u, x)
  BY <1>3 DEF TapInv, TapFiles
<1>5. t \in Taps /\ TapLeased(a, s, t)
  BY <1>2, <1>3, <1>4 DEF TapLeased, TapBinds
<1>6. tapEntry[t].owner = {s}
  <2>1. TapPooled
    BY DEF TapInv
  <2> QED
    BY SMTT(30), <1>1, <1>3, <1>5, <2>1 DEF TapPooled
<1>7. /\ tapDev[t] \in TapDevices /\ tapEntry[t] \in TapEntries
      /\ tapEntry = [tapEntry EXCEPT ![t] = tapEntry[t]]
      /\ tapEntry[t].phase \in {"none", "Ready", "Preparing"} => tapEntry[t].owner = {}
  BY <1>5, TapAsItIs
<1> DEFINE d == [tapDev[t] EXCEPT !.endpoint = IF enabled THEN {a} ELSE {}]
<1>8. d \in TapDevices /\ d.there = TRUE /\ d.endpoint \subseteq {a} /\ tapDev' = [tapDev EXCEPT ![t] = d]
  BY <1>2, <1>3, <1>7 DEF TapDevices, Tap!ownedLink
<1> HIDE DEF d
<1>9. \A b \in d.endpoint : TapBinds(b, t)
  BY <1>5, <1>8 DEF TapLeased
<1>10. TapOperates(s)' /\ tapOp' \in [Tenants -> TapOps] /\ \A z \in Tenants \ {s} : tapOp'[z] = tapOp[z]
  BY <1>1, TapIdle DEF TapInv, TapTyped
<1>11. tapEntry[t].phase \notin {"none", "Ready", "Preparing"} /\ tapEntry[t].owner \subseteq {s}
  BY <1>6, <1>7
<1>12. /\ tapEntry' = [tapEntry EXCEPT ![t] = tapEntry[t]]
       /\ UNCHANGED <<tapAddress, tapIndex, tapHolder, tapUp, tapWork, tapTrack>>
  BY <1>1, <1>7
<1>13. tapEntry[t].phase # "none" /\ tapEntry[t].phase # "Preparing" /\ d.there # FALSE
  BY <1>8, <1>11
<1> QED
  BY <1>1, <1>5, <1>7, <1>8, <1>9, <1>10, <1>11, <1>12, <1>13, TapStepOf

(* A device without an owner is prepared or given up.                        *)
LEMMA TapMaintains ==
    ASSUME TapInv, tapUp = TRUE, NEW t \in Taps, tapEntry[t].owner = {}, NEW v \in TapEntries, NEW d \in TapDevices,
           UNCHANGED <<tapAddress, tapIndex, tapHolder, tapUp, tapOp>>,
           tapEntry' = [tapEntry EXCEPT ![t] = v], tapDev' = [tapDev EXCEPT ![t] = d],
           tapWork' \in SUBSET (tapWork \ {t}),
           tapTrack' \in [TapAddresses -> SUBSET Tenants],
           \A a \in TapAddresses : tapTrack'[a] \subseteq tapTrack[a],
           v.owner = {}, v.phase = "none" => v.epoch = 0,
           d = tapDev[t] \/ d.endpoint = {}
    PROVE  TapInv'
<1>1. \A a \in TapAddresses : ~TapBinds(a, t)
  BY TapUnbound
<1>2. /\ d.there = FALSE => d.endpoint = {}
      /\ \A a \in d.endpoint : TapBinds(a, t)
  BY TapAsItIs
<1>3. tapOp' \in [Tenants -> TapOps] /\ tapWork' \in SUBSET tapWork /\ t \notin tapWork'
  BY DEF TapInv, TapTyped
<1>4. \A u \in Tenants : tapOp'[u] # tapOp[u] \/ tapEntry[t].owner = {u} => TapOperates(u)'
  <2> SUFFICES ASSUME NEW u \in Tenants PROVE tapOp'[u] = tapOp[u] /\ tapEntry[t].owner # {u}
    OBVIOUS
  <2> QED
    OBVIOUS
<1>5. v.phase \in {"none", "Ready", "Preparing"} => v.owner = {}
  OBVIOUS
<1> QED
  BY <1>1, <1>2, <1>3, <1>4, <1>5, TapDevice

LEMMA TapRefill ==
    ASSUME TapInv, NEW t \in Taps, Tap!Refill(t)
    PROVE  TapInv'
<1> DEFINE v == [Tap!NoEntry EXCEPT !.phase = "Ready", !.prepared = TRUE]
<1>1. v \in TapEntries /\ v.phase = "Ready" /\ v.owner = {}
  BY DEF TapEntries, TapPhases, Tap!NoEntry
<1>2. /\ tapEntry' = [tapEntry EXCEPT ![t] = v] /\ tapDev' = [tapDev EXCEPT ![t] = Tap!Device(0)]
      /\ tapUp = TRUE /\ tapWork = {} /\ tapEntry[t].phase = "none"
      /\ UNCHANGED <<tapAddress, tapIndex, tapHolder, tapUp, tapWork, tapTrack, tapOp>>
  BY DEF Tap!Refill, Tap!Fresh, Tap!files, TapInv, TapTyped
<1> HIDE DEF v
<1>3. tapEntry[t].owner = {} /\ (v.phase = "none" => v.epoch = 0)
  BY <1>1, <1>2, TapAsItIs
<1>4. Tap!Device(0) \in TapDevices /\ Tap!Device(0).endpoint = {}
  BY TapFreshDevice
<1>5. /\ tapTrack' \in [TapAddresses -> SUBSET Tenants] /\ tapWork' \in SUBSET (tapWork \ {t})
      /\ \A a \in TapAddresses : tapTrack'[a] \subseteq tapTrack[a]
  BY <1>2 DEF TapInv, TapTyped
<1>6. UNCHANGED <<tapAddress, tapIndex, tapHolder, tapUp, tapOp>>
  BY <1>2
<1> QED
  BY ZenonT(30), <1>1, <1>2, <1>3, <1>4, <1>5, <1>6, TapMaintains

LEMMA TapMaintainClean ==
    ASSUME TapInv, NEW t \in Taps, Tap!MaintainClean(t)
    PROVE  TapInv'
<1>1. /\ tapUp = TRUE /\ t \in tapWork /\ tapWork' = tapWork \ {t}
      /\ UNCHANGED <<tapAddress, tapIndex, tapHolder, tapUp, tapOp>>
  BY DEF Tap!MaintainClean, Tap!files, TapInv, TapTyped
<1>2. tapEntry[t].owner = {}
  BY <1>1 DEF TapInv, TapPooled
<1>3. /\ tapDev[t] \in TapDevices /\ tapDev = [tapDev EXCEPT ![t] = tapDev[t]]
      /\ tapEntry[t] \in TapEntries /\ tapEntry \in [Taps -> TapEntries] /\ tapEntry[t].epoch \in Nat
  BY TapAsItIs DEF TapInv, TapTyped, TapEntries
<1>4. tapTrack \in [TapAddresses -> SUBSET Tenants]
  BY DEF TapInv, TapTyped
<1> DEFINE Done == \E v \in TapEntries, d \in TapDevices :
                       /\ tapEntry' = [tapEntry EXCEPT ![t] = v] /\ tapDev' = [tapDev EXCEPT ![t] = d]
                       /\ v.owner = {} /\ (v.phase = "none" => v.epoch = 0)
                       /\ (d = tapDev[t] \/ d.endpoint = {})
           Less == tapTrack' \in [TapAddresses -> SUBSET Tenants] /\ \A a \in TapAddresses : tapTrack'[a] \subseteq tapTrack[a]
<1>5. Done /\ Less
  <2>1. CASE tapEntry' = [tapEntry EXCEPT ![t] = Tap!NoEntry] /\ UNCHANGED <<tapDev, tapTrack>>
    <3>1. Less
      BY <2>1, <1>4
    <3>2. Tap!NoEntry \in TapEntries /\ Tap!NoEntry.owner = {} /\ Tap!NoEntry.epoch = 0
      BY TapFreshDevice
    <3>3. tapDev' = [tapDev EXCEPT ![t] = tapDev[t]]
      BY <2>1, <1>3
    <3> QED
      BY <2>1, <1>3, <3>1, <3>2, <3>3
  <2>2. CASE /\ tapEntry' = Tap!poolFailure(t)
             /\ tapDev' = tapDev \/ tapDev' = [tapDev EXCEPT ![t].endpoint = {}]
             /\ UNCHANGED tapTrack
    <3>1. Less
      BY <2>2, <1>4
    <3>2. PICK v \in TapEntries : /\ tapEntry' = [tapEntry EXCEPT ![t] = v]
                                  /\ v.phase = "Cleaning" /\ v.owner = {}
      BY <2>2, TapPoolFailure
    <3> DEFINE d == [tapDev[t] EXCEPT !.endpoint = {}]
    <3>3. d \in TapDevices /\ d.endpoint = {}
      BY <1>3 DEF TapDevices
    <3>4. tapDev' = [tapDev EXCEPT ![t] = tapDev[t]] \/ tapDev' = [tapDev EXCEPT ![t] = d]
      BY <2>2, <1>3
    <3> HIDE DEF d
    <3> QED
      BY <1>3, <3>1, <3>2, <3>3, <3>4
  <2>3. CASE \E kept \in BOOLEAN :
                /\ tapTrack' = [a \in TapAddresses |-> IF a \in tapDev[t].routes THEN {} ELSE tapTrack[a]]
                /\ tapDev' = [tapDev EXCEPT ![t] = IF kept THEN Tap!Device(tapEntry[t].epoch) ELSE Tap!NoDevice]
                /\ tapEntry' = [tapEntry EXCEPT ![t] = IF kept
                        THEN [@ EXCEPT !.phase = "Ready", !.owner = {}, !.prepared = TRUE]
                        ELSE Tap!NoEntry]
    <3>1. Less
      BY <2>3, <1>4
    <3>2. PICK kept \in BOOLEAN :
                /\ tapDev' = [tapDev EXCEPT ![t] = IF kept THEN Tap!Device(tapEntry[t].epoch) ELSE Tap!NoDevice]
                /\ tapEntry' = [tapEntry EXCEPT ![t] = IF kept
                        THEN [@ EXCEPT !.phase = "Ready", !.owner = {}, !.prepared = TRUE]
                        ELSE Tap!NoEntry]
      BY <2>3
    <3> DEFINE r == [tapEntry[t] EXCEPT !.phase = "Ready", !.owner = {}, !.prepared = TRUE]
    <3>3. r \in TapEntries /\ r.owner = {} /\ r.phase = "Ready"
      BY <1>3 DEF TapEntries, TapPhases
    <3>4. \/ tapDev' = [tapDev EXCEPT ![t] = Tap!Device(tapEntry[t].epoch)] /\ tapEntry' = [tapEntry EXCEPT ![t] = r]
          \/ tapDev' = [tapDev EXCEPT ![t] = Tap!NoDevice] /\ tapEntry' = [tapEntry EXCEPT ![t] = Tap!NoEntry]
      BY <3>2, <1>3
    <3>5. /\ Tap!NoEntry \in TapEntries /\ Tap!NoEntry.owner = {} /\ Tap!NoEntry.epoch = 0
          /\ Tap!NoDevice \in TapDevices /\ Tap!NoDevice.endpoint = {}
          /\ Tap!Device(tapEntry[t].epoch) \in TapDevices /\ Tap!Device(tapEntry[t].epoch).endpoint = {}
      BY <1>3, TapFreshDevice
    <3> HIDE DEF r
    <3> QED
      BY <3>1, <3>3, <3>4, <3>5
  <2>4. \/ tapEntry' = [tapEntry EXCEPT ![t] = Tap!NoEntry] /\ UNCHANGED <<tapDev, tapTrack>>
        \/ /\ tapEntry' = Tap!poolFailure(t)
           /\ tapDev' = tapDev \/ tapDev' = [tapDev EXCEPT ![t].endpoint = {}]
           /\ UNCHANGED tapTrack
        \/ \E kept \in BOOLEAN :
                /\ tapTrack' = [a \in TapAddresses |-> IF a \in tapDev[t].routes THEN {} ELSE tapTrack[a]]
                /\ tapDev' = [tapDev EXCEPT ![t] = IF kept THEN Tap!Device(tapEntry[t].epoch) ELSE Tap!NoDevice]
                /\ tapEntry' = [tapEntry EXCEPT ![t] = IF kept
                        THEN [@ EXCEPT !.phase = "Ready", !.owner = {}, !.prepared = TRUE]
                        ELSE Tap!NoEntry]
    <3> DEFINE full == tapDev[t].alias > tapEntry[t].epoch
               held == full \/ tapHolder[t] # {}
               kept == Tap!IdleCount < PoolSize
    <3>1. CASE ~tapDev[t].there
      BY <3>1 DEF Tap!MaintainClean
    <3>2. CASE tapDev[t].there /\ held
      BY <3>2 DEF Tap!MaintainClean
    <3>3. CASE tapDev[t].there /\ ~held
      <4>1. kept \in BOOLEAN
        BY SMTT(30)
      <4> QED
        BY <3>3, <4>1 DEF Tap!MaintainClean
    <3> QED
      BY <3>1, <3>2, <3>3
  <2> HIDE DEF Done, Less
  <2> QED
    BY <2>1, <2>2, <2>3, <2>4
<1>6. PICK v \in TapEntries, d \in TapDevices :
          /\ tapEntry' = [tapEntry EXCEPT ![t] = v] /\ tapDev' = [tapDev EXCEPT ![t] = d]
          /\ v.owner = {} /\ (v.phase = "none" => v.epoch = 0)
          /\ (d = tapDev[t] \/ d.endpoint = {})
  BY <1>5
<1>7. tapTrack' \in [TapAddresses -> SUBSET Tenants] /\ \A a \in TapAddresses : tapTrack'[a] \subseteq tapTrack[a]
  BY <1>5
<1>8. tapWork' \in SUBSET (tapWork \ {t})
  BY <1>1
<1> QED
  BY ZenonT(30), <1>1, <1>2, <1>6, <1>7, <1>8, TapMaintains

(* Steps of the memory alone.                                                *)
LEMMA TapQuiet ==
    ASSUME TapInv, UNCHANGED <<tapAddress, tapIndex, tapDev, tapHolder, tapTrack>>
    PROVE  TapFiles' /\ TapKernel' /\ TapFlows'
<1>1. TapFiles'
  BY SMTT(30) DEF TapInv, TapFiles, TapBinds, TapLeased
<1>2. TapKernel'
  BY SMTT(30) DEF TapInv, TapKernel, TapBinds, TapLeased
<1>3. TapFlows'
  BY DEF TapInv, TapFlows
<1> QED
  BY <1>1, <1>2, <1>3

LEMMA TapMaintainPick ==
    ASSUME TapInv, Tap!MaintainPick
    PROVE  TapInv'
<1> DEFINE idle == {t \in Taps : tapEntry[t].phase = "Cleaning" /\ tapEntry[t].owner = {}}
<1>1. /\ tapUp = TRUE /\ tapWork' = idle
      /\ tapEntry' = [t \in Taps |-> IF t \in idle THEN [tapEntry[t] EXCEPT !.phase = "Preparing"] ELSE tapEntry[t]]
      /\ UNCHANGED <<tapAddress, tapIndex, tapDev, tapHolder, tapTrack, tapUp, tapOp>>
  BY DEF Tap!MaintainPick, Tap!kernel, Tap!files, TapInv, TapTyped
<1>2. tapEntry \in [Taps -> TapEntries]
  BY DEF TapInv, TapTyped
<1>3. tapEntry' \in [Taps -> TapEntries]
  BY SMTT(30), <1>1, <1>2 DEF TapEntries, TapPhases
<1>4. \A t \in Taps : /\ tapEntry'[t].owner = tapEntry[t].owner /\ tapEntry'[t].epoch = tapEntry[t].epoch
                      /\ t \in idle => tapEntry'[t].phase = "Preparing" /\ tapEntry[t].owner = {}
                      /\ t \notin idle => tapEntry'[t] = tapEntry[t]
  BY <1>1, <1>2 DEF TapEntries
<1>5. idle \in SUBSET Taps
  OBVIOUS
<1> HIDE DEF idle
<1>6. TapTyped'
  BY <1>1, <1>3, <1>5 DEF TapInv, TapTyped
<1>7. TapFiles' /\ TapKernel' /\ TapFlows'
  BY <1>1, TapQuiet
<1>10. TapPooled'
  <2>1. TapPooled
    BY DEF TapInv
  <2>2. \A a \in TapAddresses, s \in Tenants, t \in Taps : TapLeased(a, s, t)' => TapLeased(a, s, t)
    BY <1>1 DEF TapBinds, TapLeased
  <2>3. \A a \in TapAddresses, s \in Tenants, t \in Taps :
           TapLeased(a, s, t)' => tapEntry'[t].owner = {s} /\ tapEntry'[t].epoch = tapAddress'[a].epoch
    BY SMTT(30), <1>1, <1>4, <2>1, <2>2 DEF TapPooled
  <2>4. /\ \A t \in Taps : tapEntry'[t].phase \in {"none", "Ready", "Preparing"} => tapEntry'[t].owner = {}
        /\ \A t \in Taps : tapEntry'[t].phase = "none" => tapEntry'[t].epoch = 0
    BY <1>4, <2>1 DEF TapPooled
  <2>5. \A t \in tapWork' : tapEntry'[t].phase = "Preparing"
    BY <1>1, <1>4, <1>5
  <2> QED
    BY <1>1, <2>3, <2>4, <2>5 DEF TapPooled
<1>11. ASSUME NEW u \in Tenants
       PROVE  TapOperates(u)'
  <2>1. tapOp[u].tap \in SUBSET Taps
    BY DEF TapInv, TapTyped, TapOps
  <2>2. \A t \in Taps, a \in TapAddresses : TapBinds(a, t)' => TapBinds(a, t)
    BY <1>1 DEF TapBinds
  <2> QED
    BY <1>1, <1>4, <2>1, <2>2, TapOther
<1> QED
  BY <1>6, <1>7, <1>10, <1>11 DEF TapInv

(* The entries that a starting daemon derives from files and devices.        *)
LEMMA TapStarted ==
    ASSUME TapInv, Tap!StartPool, NEW t \in Taps
    PROVE  /\ tapEntry'[t] \in TapEntries
           /\ \A a \in TapAddresses, s \in Tenants : TapLeased(a, s, t) =>
                 tapEntry'[t].owner = {s} /\ tapEntry'[t].epoch = tapAddress[a].epoch
           /\ tapEntry'[t].phase \in {"none", "Ready", "Preparing"} => tapEntry'[t].owner = {} /\ tapEntry'[t].epoch = 0
<1> DEFINE owned == {a \in TapAddresses : tapAddress[a].state = "active" /\ tapAddress[a].tap = {t}}
           a0 == CHOOSE x \in owned : TRUE
           bound == [phase |-> "Active", epoch |-> tapAddress[a0].epoch, owner |-> tapAddress[a0].sb, prepared |-> FALSE]
           left == [Tap!NoEntry EXCEPT !.phase = "Cleaning", !.epoch = tapDev[t].alias]
<1>1. tapEntry'[t] = IF owned # {} THEN bound ELSE IF tapDev[t].there THEN left ELSE Tap!NoEntry
  BY DEF Tap!StartPool
<1>2. tapAddress \in [TapAddresses -> TapLeases] /\ tapDev \in [Taps -> TapDevices]
  BY DEF TapInv, TapTyped
<1>3. CASE owned # {}
  <2>1. a0 \in owned
    BY <1>3
  <2>2. a0 \in TapAddresses /\ TapBinds(a0, t)
    BY <2>1 DEF TapBinds
  <2> HIDE DEF a0
  <2>3. tapEntry'[t] = bound
    BY <1>1, <1>3
  <2>4. bound \in TapEntries /\ bound.phase = "Active" /\ bound.owner = tapAddress[a0].sb /\ bound.epoch = tapAddress[a0].epoch
    BY <1>2, <2>2 DEF TapEntries, TapPhases, TapLeases
  <2>5. \A a \in TapAddresses, s \in Tenants : TapLeased(a, s, t) => a = a0 /\ tapAddress[a].sb = {s}
    BY <2>2 DEF TapInv, TapFiles, TapLeased
  <2> HIDE DEF bound, owned
  <2> QED
    BY <2>3, <2>4, <2>5
<1>4. CASE owned = {}
  <2>1. \A a \in TapAddresses, s \in Tenants : ~TapLeased(a, s, t)
    BY <1>4 DEF TapLeased, TapBinds
  <2>2. left \in TapEntries /\ left.phase = "Cleaning"
    BY <1>2 DEF TapEntries, TapPhases, TapDevices, Tap!NoEntry
  <2>3. tapEntry'[t] = left \/ tapEntry'[t] = Tap!NoEntry
    BY <1>1, <1>4
  <2>4. Tap!NoEntry \in TapEntries /\ Tap!NoEntry.owner = {} /\ Tap!NoEntry.epoch = 0
    BY TapFreshDevice
  <2> HIDE DEF left, owned
  <2> QED
    BY <2>1, <2>2, <2>3, <2>4
<1> QED
  BY <1>3, <1>4

LEMMA TapStartPool ==
    ASSUME TapInv, Tap!StartPool
    PROVE  TapInv'
<1>1. /\ tapUp = FALSE /\ tapUp' = TRUE
      /\ UNCHANGED <<tapAddress, tapIndex, tapDev, tapHolder, tapTrack, tapWork, tapOp>>
  BY DEF Tap!StartPool, Tap!kernel, Tap!files, TapInv, TapTyped
<1>2. tapEntry' = [t \in Taps |-> tapEntry'[t]]
  BY DEF Tap!StartPool
<1>3. tapEntry' \in [Taps -> TapEntries]
  BY <1>2, TapStarted
<1>4. TapTyped'
  BY <1>1, <1>3 DEF TapInv, TapTyped
<1>5. TapFiles' /\ TapKernel' /\ TapFlows'
  BY <1>1, TapQuiet
<1>8. TapPooled'
  <2>1. tapWork' = {}
    BY <1>1 DEF TapInv, TapPooled
  <2>2. \A a \in TapAddresses, s \in Tenants, t \in Taps : TapLeased(a, s, t)' => TapLeased(a, s, t)
    BY <1>1 DEF TapBinds, TapLeased
  <2>3. \A a \in TapAddresses, s \in Tenants, t \in Taps :
           TapLeased(a, s, t)' => tapEntry'[t].owner = {s} /\ tapEntry'[t].epoch = tapAddress'[a].epoch
    BY SMTT(30), <1>1, <2>2, TapStarted
  <2>4. \A t \in Taps : tapEntry'[t].phase \in {"none", "Ready", "Preparing"} => tapEntry'[t].owner = {} /\ tapEntry'[t].epoch = 0
    BY TapStarted
  <2> QED
    BY <1>1, <2>1, <2>3, <2>4 DEF TapPooled
<1>9. ASSUME NEW u \in Tenants PROVE TapOperates(u)'
  <2>1. tapOp'[u].step = "idle"
    BY <1>1 DEF TapInv, TapOperates
  <2> QED
    BY <2>1, TapIdle
<1> QED
  BY <1>4, <1>5, <1>8, <1>9 DEF TapInv

(* Steps of VMs: they change holders and connections only.                   *)
LEMMA TapGuests ==
    ASSUME TapInv, UNCHANGED <<tapAddress, tapIndex, tapDev, tapEntry, tapWork, tapOp, tapUp>>,
           tapHolder' \in [Taps -> SUBSET Tenants], tapTrack' \in [TapAddresses -> SUBSET Tenants],
           \A t \in Taps : tapHolder'[t] # {} =>
               \E a \in TapAddresses, s \in Tenants : TapLeased(a, s, t) /\ tapHolder'[t] = {s},
           TapFlows', \A u \in Tenants : TapOperates(u)'
    PROVE  TapInv'
<1>1. TapTyped'
  BY DEF TapInv, TapTyped
<1>2. \A a \in TapAddresses, s \in Tenants, t \in Taps : TapLeased(a, s, t)' <=> TapLeased(a, s, t)
  BY DEF TapLeased, TapBinds
<1>3. TapFiles'
  BY SMTT(30) DEF TapInv, TapFiles, TapBinds, TapLeased
<1>4. TapKernel'
  <2>1. \A t \in Taps : tapHolder'[t] # {} =>
            \E a \in TapAddresses, s \in Tenants : TapLeased(a, s, t)' /\ tapHolder'[t] = {s}
    BY <1>2
  <2>2. \A t \in Taps : \A a \in tapDev'[t].endpoint : TapBinds(a, t)'
    BY DEF TapInv, TapKernel, TapBinds
  <2>3. \A t \in Taps : tapDev'[t].there = FALSE => tapDev'[t].endpoint = {}
    BY DEF TapInv, TapKernel
  <2> QED
    BY <2>1, <2>2, <2>3 DEF TapKernel
<1>5. TapPooled'
  BY SMTT(30) DEF TapInv, TapPooled, TapBinds, TapLeased
<1> QED
  BY <1>1, <1>3, <1>4, <1>5 DEF TapInv

LEMMA TapLaunch ==
    ASSUME TapInv, NEW s \in Tenants, Tap!Launch(s)
    PROVE  TapInv'
<1>1. /\ tapUp = TRUE /\ tapOp[s].step = "idle"
      /\ UNCHANGED <<tapAddress, tapIndex, tapDev, tapEntry, tapWork, tapOp, tapUp, tapTrack>>
  BY DEF Tap!Launch, Tap!At, Tap!memory, Tap!files, TapInv, TapTyped
<1>2. PICK a \in tapIndex[s] : \E t \in tapAddress[a].tap : tapHolder' = [tapHolder EXCEPT ![t] = {s}]
  BY DEF Tap!Launch
<1>3. PICK t \in tapAddress[a].tap : tapHolder' = [tapHolder EXCEPT ![t] = {s}]
  BY <1>2
<1>4. a \in TapAddresses /\ tapAddress[a].state = "active" /\ tapAddress[a].sb = {s}
  BY DEF TapInv, TapFiles, TapTyped
<1>5. PICK u \in Tenants, x \in Taps : TapLeased(a, u, x)
  BY <1>4 DEF TapInv, TapFiles
<1>6. t \in Taps /\ TapLeased(a, s, t)
  BY <1>3, <1>4, <1>5 DEF TapLeased, TapBinds
<1>7. /\ tapHolder \in [Taps -> SUBSET Tenants] /\ tapHolder' \in [Taps -> SUBSET Tenants]
      /\ tapHolder'[t] = {s} /\ \A y \in Taps \ {t} : tapHolder'[y] = tapHolder[y]
  BY <1>3, <1>6 DEF TapInv, TapTyped
<1>8. \A y \in Taps : tapHolder'[y] # {} =>
          \E b \in TapAddresses, z \in Tenants : TapLeased(b, z, y) /\ tapHolder'[y] = {z}
  <2> SUFFICES ASSUME NEW y \in Taps, tapHolder'[y] # {}
               PROVE  \E b \in TapAddresses, z \in Tenants : TapLeased(b, z, y) /\ tapHolder'[y] = {z}
    OBVIOUS
  <2>1. CASE y = t
    BY ZenonT(30), <2>1, <1>4, <1>6, <1>7
  <2>2. CASE y # t
    BY SMTT(30), <2>2, <1>7 DEF TapInv, TapKernel
  <2> QED
    BY <2>1, <2>2
<1>9. TapFlows' /\ tapTrack' \in [TapAddresses -> SUBSET Tenants]
  BY <1>1 DEF TapInv, TapFlows, TapTyped
<1>10. tapEntry[t].owner = {s}
  <2>1. TapPooled
    BY DEF TapInv
  <2> QED
    BY SMTT(30), <1>1, <1>4, <1>6, <2>1 DEF TapPooled
<1>11. ASSUME NEW z \in Tenants PROVE TapOperates(z)'
  <2>1. CASE z = s
    BY <2>1, <1>1, TapIdle
  <2>2. CASE z # s
    <3>1. ASSUME NEW y \in tapOp[z].tap, tapOp[z].step # "idle"
          PROVE  y \in Taps /\ tapHolder'[y] \subseteq tapHolder[y]
      <4>1. y \in Taps /\ tapEntry[y].owner = {z}
        BY <1>1, <3>1, TapOwns
      <4>2. y # t
        BY <4>1, <2>2, <1>10
      <4> QED
        BY <4>1, <4>2, <1>7
    <3>2. \A y \in Taps, b \in TapAddresses : TapBinds(b, y)' => TapBinds(b, y)
      BY <1>1 DEF TapBinds
    <3> QED
      BY <1>1, <3>1, <3>2, TapOther
  <2> QED
    BY <2>1, <2>2
<1>12. UNCHANGED <<tapAddress, tapIndex, tapDev, tapEntry, tapWork, tapOp, tapUp>>
  BY <1>1
<1> QED
  BY <1>7, <1>8, <1>9, <1>11, <1>12, TapGuests

LEMMA TapExit ==
    ASSUME TapInv, NEW s \in Tenants, Tap!Exit(s)
    PROVE  TapInv'
<1>1. /\ tapHolder' = [t \in Taps |-> tapHolder[t] \ {s}]
      /\ UNCHANGED <<tapAddress, tapIndex, tapDev, tapEntry, tapWork, tapOp, tapUp, tapTrack>>
  BY DEF Tap!Exit, Tap!memory, Tap!files
<1>2. tapHolder' \in [Taps -> SUBSET Tenants] /\ tapHolder \in [Taps -> SUBSET Tenants]
  BY <1>1 DEF TapInv, TapTyped
<1>3. ASSUME NEW t \in Taps, tapHolder'[t] # {}
      PROVE  \E a \in TapAddresses, z \in Tenants : TapLeased(a, z, t) /\ tapHolder'[t] = {z}
  <2>1. PICK a \in TapAddresses, z \in Tenants : TapLeased(a, z, t) /\ tapHolder[t] = {z}
    <3>1. tapHolder[t] # {}
      BY <1>1, <1>3
    <3> QED
      BY <3>1 DEF TapInv, TapKernel
  <2>2. tapHolder'[t] = {z}
    BY <1>1, <1>3, <2>1
  <2> QED
    BY <2>1, <2>2
<1>4. TapFlows' /\ tapTrack' \in [TapAddresses -> SUBSET Tenants]
  BY <1>1 DEF TapInv, TapFlows, TapTyped
<1>5. ASSUME NEW z \in Tenants PROVE TapOperates(z)'
  <2>1. \A t \in Taps : tapHolder'[t] \subseteq tapHolder[t] /\ \A b \in TapAddresses : TapBinds(b, t)' => TapBinds(b, t)
    BY <1>1 DEF TapBinds
  <2>2. tapOp[z].tap \in SUBSET Taps
    BY DEF TapInv, TapTyped, TapOps
  <2> QED
    BY <1>1, <2>1, <2>2, TapOther
<1>6. UNCHANGED <<tapAddress, tapIndex, tapDev, tapEntry, tapWork, tapOp, tapUp>>
  BY <1>1
<1> QED
  BY <1>2, <1>3, <1>4, <1>5, <1>6, TapGuests

LEMMA TapTraffic ==
    ASSUME TapInv, NEW s \in Tenants, Tap!Traffic(s)
    PROVE  TapInv'
<1>1. UNCHANGED <<tapAddress, tapIndex, tapDev, tapEntry, tapWork, tapOp, tapUp, tapHolder>>
  BY DEF Tap!Traffic, Tap!memory, Tap!files
<1>2. PICK t \in Taps : s \in tapHolder[t] /\ \E a \in tapDev[t].endpoint : tapTrack' = [tapTrack EXCEPT ![a] = @ \cup {s}]
  BY DEF Tap!Traffic
<1>3. PICK a \in tapDev[t].endpoint : tapTrack' = [tapTrack EXCEPT ![a] = @ \cup {s}]
  BY <1>2
<1>4. a \in TapAddresses /\ TapBinds(a, t)
  BY <1>3 DEF TapInv, TapKernel, TapTyped, TapDevices
<1>5. tapAddress[a].state = "active" /\ tapAddress[a].sb = {s}
  <2>1. PICK b \in TapAddresses, z \in Tenants : TapLeased(b, z, t) /\ tapHolder[t] = {z}
    BY <1>2 DEF TapInv, TapKernel
  <2>2. TapBinds(b, t)
    BY <2>1 DEF TapLeased
  <2>3. b = a
    BY <1>4, <2>2 DEF TapInv, TapFiles
  <2> QED
    BY <1>2, <2>1, <2>3 DEF TapLeased, TapBinds
<1>6. /\ tapTrack \in [TapAddresses -> SUBSET Tenants] /\ tapTrack' \in [TapAddresses -> SUBSET Tenants]
      /\ tapTrack'[a] = tapTrack[a] \cup {s} /\ \A b \in TapAddresses \ {a} : tapTrack'[b] = tapTrack[b]
  BY <1>3, <1>4 DEF TapInv, TapTyped
<1>7. TapFlows'
  <2>1. TapFlows
    BY DEF TapInv
  <2> QED
    BY <1>1, <1>5, <1>6, <2>1 DEF TapFlows
<1>8. ASSUME NEW z \in Tenants PROVE TapOperates(z)'
  <2>1. \A y \in Taps, b \in TapAddresses : TapBinds(b, y)' => TapBinds(b, y)
    BY <1>1 DEF TapBinds
  <2>2. tapOp[z].tap \in SUBSET Taps /\ tapOp[z].at \in SUBSET TapAddresses
    BY DEF TapInv, TapTyped, TapOps
  <2>3. ASSUME NEW b \in tapOp[z].at, tapOp[z].step \in {"unindex", "retire"}
        PROVE  tapTrack'[b] \subseteq tapTrack[b]
    <3>1. PICK c \in TapAddresses, y \in Taps : TapHas(z, c, y)
      BY ZenonT(30), <2>3, TapCarries
    <3>2. b = c /\ tapDev[y].endpoint = {} /\ TapBinds(c, y)
      BY SMTT(30), <2>3, <3>1 DEF TapHas, TapLeased, TapInv, TapOperates
    <3>3. b # a
      BY <1>3, <1>4, <3>2 DEF TapBinds
    <3> QED
      BY <3>3, <2>2, <1>6
  <2> QED
    BY ZenonT(30), <1>1, <2>1, <2>2, <2>3, TapOther
<1>9. UNCHANGED <<tapAddress, tapIndex, tapDev, tapEntry, tapWork, tapOp, tapUp>> /\ tapHolder' \in [Taps -> SUBSET Tenants]
  BY <1>1 DEF TapInv, TapTyped
<1>10. \A y \in Taps : tapHolder'[y] # {} =>
           \E b \in TapAddresses, z \in Tenants : TapLeased(b, z, y) /\ tapHolder'[y] = {z}
  BY <1>1 DEF TapInv, TapKernel
<1> QED
  BY <1>6, <1>7, <1>8, <1>9, <1>10, TapGuests

(* A dying daemon or host: nothing of the memory is left.                    *)
LEMMA TapForgotten ==
    ASSUME TapInv, Tap!LoseMemory, UNCHANGED <<tapAddress, tapIndex>>,
           tapDev' \in [Taps -> TapDevices], tapHolder' \in [Taps -> SUBSET Tenants],
           tapTrack' \in [TapAddresses -> SUBSET Tenants], TapKernel', TapFlows'
    PROVE  TapInv'
<1>1. /\ tapUp' = FALSE /\ tapWork' = {} /\ tapEntry' = [t \in Taps |-> Tap!NoEntry]
      /\ tapOp' = [s \in Tenants |-> Tap!Idle]
  BY DEF Tap!LoseMemory
<1>2. Tap!NoEntry \in TapEntries /\ Tap!NoEntry.phase = "none" /\ Tap!NoEntry.owner = {} /\ Tap!NoEntry.epoch = 0
  BY TapFreshDevice
<1>3. Tap!Idle \in TapOps /\ Tap!Idle.step = "idle"
  BY DEF Tap!Idle, TapOps, TapSteps
<1>4. TapTyped'
  BY ZenonT(30), <1>1, <1>2, <1>3 DEF TapInv, TapTyped
<1>5. TapFiles'
  BY SMTT(30) DEF TapInv, TapFiles, TapBinds, TapLeased
<1>6. TapPooled'
  BY <1>1, <1>2 DEF TapPooled
<1>7. ASSUME NEW u \in Tenants PROVE TapOperates(u)'
  <2>1. tapOp'[u].step = "idle"
    BY <1>1, <1>3
  <2> QED
    BY <2>1, TapIdle
<1> QED
  BY <1>4, <1>5, <1>6, <1>7 DEF TapInv

LEMMA TapCrash ==
    ASSUME TapInv, Tap!Crash
    PROVE  TapInv'
<1>1. Tap!LoseMemory /\ UNCHANGED <<tapAddress, tapIndex, tapDev, tapHolder, tapTrack>>
  BY DEF Tap!Crash, Tap!kernel, Tap!files
<1>2. TapKernel' /\ TapFlows'
  BY <1>1, TapQuiet
<1>3. /\ tapDev' \in [Taps -> TapDevices] /\ tapHolder' \in [Taps -> SUBSET Tenants]
      /\ tapTrack' \in [TapAddresses -> SUBSET Tenants]
  BY <1>1 DEF TapInv, TapTyped
<1> QED
  BY <1>1, <1>2, <1>3, TapForgotten

LEMMA TapReboot ==
    ASSUME TapInv, Tap!Reboot
    PROVE  TapInv'
<1>1. /\ Tap!LoseMemory /\ UNCHANGED <<tapAddress, tapIndex>>
      /\ tapDev' = [t \in Taps |-> Tap!NoDevice] /\ tapHolder' = [t \in Taps |-> {}]
      /\ tapTrack' = [a \in TapAddresses |-> {}]
  BY DEF Tap!Reboot, Tap!files
<1>2. Tap!NoDevice \in TapDevices /\ Tap!NoDevice.endpoint = {}
  BY TapFreshDevice
<1>3. /\ tapDev' \in [Taps -> TapDevices] /\ tapHolder' \in [Taps -> SUBSET Tenants]
      /\ tapTrack' \in [TapAddresses -> SUBSET Tenants]
  BY <1>1, <1>2
<1>4. TapKernel'
  BY <1>1, <1>2 DEF TapKernel
<1>5. TapFlows'
  BY <1>1 DEF TapFlows
<1> QED
  BY <1>1, <1>3, <1>4, <1>5, TapForgotten

(* The hints name addresses.                                                 *)
TapHints ==
    /\ tapRemembered \in [Tenants -> SUBSET TapAddresses]
    /\ tapScan \in [Tenants -> SUBSET TapAddresses]

LEMMA TapHintsStep ==
    ASSUME TapInv, TapHints, Tap!Next
    PROVE  TapHints'
<1>1. tapOp \in [Tenants -> TapOps] /\ tapIndex \in [Tenants -> SUBSET TapAddresses]
  BY DEF TapInv, TapTyped
<1>2. ASSUME NEW s \in Tenants PROVE tapOp[s].at \in SUBSET TapAddresses
  BY <1>1 DEF TapOps
<1>3. ASSUME NEW s \in Tenants,
             \/ \E X \in SUBSET TapAddresses : tapRemembered' = [tapRemembered EXCEPT ![s] = X]
             \/ tapRemembered' = tapRemembered,
             tapScan' = tapScan
      PROVE  TapHints'
  BY <1>3 DEF TapHints
<1>4. ASSUME NEW s \in Tenants, Tap!AddStep(s) PROVE TapHints'
  <2>1. CASE UNCHANGED <<tapRemembered, tapScan>>
    BY <2>1, <1>3
  <2>2. CASE \E a \in TapAddresses : Tap!PublishUnsynced(s, a)
    <3>1. PICK a \in TapAddresses : Tap!PublishUnsynced(s, a)
      BY <2>2
    <3>2. tapRemembered' = [tapRemembered EXCEPT ![s] = tapRemembered[s] \cup {a}] /\ tapScan' = tapScan
      BY <3>1 DEF Tap!PublishUnsynced
    <3>3. tapRemembered[s] \cup {a} \in SUBSET TapAddresses
      BY DEF TapHints
    <3> QED
      BY <3>2, <3>3, <1>3
  <2>3. CASE Tap!LinkFailed(s)
    <3>1. tapRemembered' = [tapRemembered EXCEPT ![s] = tapRemembered[s] \cup tapOp[s].at] /\ tapScan' = tapScan
      BY <2>3 DEF Tap!LinkFailed
    <3>2. tapRemembered[s] \cup tapOp[s].at \in SUBSET TapAddresses
      BY <1>2 DEF TapHints
    <3> QED
      BY <3>1, <3>2, <1>3
  <2>4. CASE \/ Tap!AddIndexed(s) \/ Tap!AddRemembered(s) \/ Tap!PublishFailed(s) \/ Tap!LinkIndex(s)
             \/ Tap!EnsureLink(s) \/ Tap!publishEndpoint(s) \/ Tap!EnsureFailed(s) \/ Tap!EndpointFailed(s)
    <3>1. UNCHANGED <<tapRemembered, tapScan>>
      BY <2>4 DEF Tap!AddIndexed, Tap!AddRemembered, Tap!PublishFailed, Tap!LinkIndex, Tap!EnsureLink,
                  Tap!publishEndpoint, Tap!EnsureFailed, Tap!EndpointFailed
    <3> QED
      BY <3>1, <2>1
  <2>5. CASE \/ \E t \in Taps : Tap!BorrowReady(s, t) \/ Tap!BorrowNew(s, t) \/ Tap!BorrowFailed(s, t)
             \/ \E a \in TapAddresses : Tap!Publish(s, a)
    <3>1. UNCHANGED <<tapRemembered, tapScan>>
      BY <2>5 DEF Tap!BorrowReady, Tap!BorrowNew, Tap!BorrowFailed, Tap!Publish
    <3> QED
      BY <3>1, <2>1
  <2> QED
    BY <1>4, <2>2, <2>3, <2>4, <2>5 DEF Tap!AddStep
<1>5. ASSUME NEW s \in Tenants, Tap!DeleteStep(s) PROVE TapHints'
  <2>1. CASE UNCHANGED <<tapRemembered, tapScan>>
    BY <2>1, <1>3
  <2>2. CASE Tap!DeleteBegin(s)
    <3> DEFINE X == {a \in tapRemembered[s] : Tap!Active(s, a)} \ tapIndex[s]
    <3>1. tapRemembered' = [tapRemembered EXCEPT ![s] = X] /\ tapScan' = tapScan
      BY <2>2 DEF Tap!DeleteBegin
    <3>2. X \in SUBSET TapAddresses
      BY DEF TapHints
    <3> QED
      BY <3>1, <3>2, <1>3
  <2>3. CASE Tap!RemoveIndex(s)
    <3>1. tapRemembered' = [tapRemembered EXCEPT ![s] = tapRemembered[s] \cup tapOp[s].at] /\ tapScan' = tapScan
      BY <2>3 DEF Tap!RemoveIndex
    <3>2. tapRemembered[s] \cup tapOp[s].at \in SUBSET TapAddresses
      BY <1>2 DEF TapHints
    <3> QED
      BY <3>1, <3>2, <1>3
  <2>4. CASE Tap!retireAddress(s)
    <3>1. /\ tapScan' = tapScan
          /\ \/ tapRemembered' = tapRemembered
             \/ \E a \in tapOp[s].at : tapRemembered' = [tapRemembered EXCEPT ![s] = tapRemembered[s] \ {a}]
      BY <2>4 DEF Tap!retireAddress
    <3>2. \A a \in TapAddresses : tapRemembered[s] \ {a} \in SUBSET TapAddresses
      BY DEF TapHints
    <3> QED
      BY <3>1, <3>2, <1>2, <1>3
  <2>5. CASE \/ Tap!DeleteClean(s) \/ Tap!DeleteFlows(s) \/ Tap!DeleteFailed(s) \/ Tap!DeleteReady(s)
             \/ Tap!ReadyFailed(s)
    <3>1. UNCHANGED <<tapRemembered, tapScan>>
      BY <2>5 DEF Tap!DeleteClean, Tap!DeleteFlows, Tap!DeleteFailed, Tap!DeleteReady, Tap!ReadyFailed
    <3> QED
      BY <3>1, <2>1
  <2> QED
    BY <1>5, <2>2, <2>3, <2>4, <2>5 DEF Tap!DeleteStep
<1>6. CASE \/ \E s \in Tenants : \/ \E enabled \in BOOLEAN : Tap!setEnabled(s, enabled)
                                 \/ Tap!Launch(s) \/ Tap!Exit(s) \/ Tap!Traffic(s)
           \/ Tap!MaintainPick \/ (\E t \in Taps : Tap!MaintainClean(t) \/ Tap!Refill(t))
           \/ \E a \in TapAddresses : Tap!Expire(a)
  <2>1. UNCHANGED <<tapRemembered, tapScan>>
    BY <1>6 DEF Tap!setEnabled, Tap!Launch, Tap!Exit, Tap!Traffic, Tap!MaintainPick, Tap!MaintainClean, Tap!Refill,
                Tap!Expire, Tap!memory
  <2> QED
    BY <2>1 DEF TapHints
<1>7. CASE Tap!scanLeases \/ Tap!rememberLeases \/ Tap!StartPool \/ Tap!Crash \/ Tap!Reboot
  <2>1. \A s \in Tenants : Tap!ActiveOf(s) \in SUBSET TapAddresses
    BY DEF Tap!ActiveOf
  <2>2. CASE Tap!scanLeases
    BY <2>1, <2>2 DEF Tap!scanLeases, TapHints
  <2>3. CASE Tap!rememberLeases
    BY <2>3 DEF Tap!rememberLeases, TapHints
  <2>4. CASE Tap!StartPool
    BY <2>1, <2>4 DEF Tap!StartPool, TapHints
  <2>5. CASE Tap!Crash \/ Tap!Reboot
    BY <2>5 DEF Tap!Crash, Tap!Reboot, Tap!LoseMemory, TapHints
  <2> QED
    BY ZenonT(30), <1>7, <2>2, <2>3, <2>4, <2>5
<1> QED
  BY <1>4, <1>5, <1>6, <1>7 DEF Tap!Next

LEMMA TapInitial ==
    ASSUME Tap!Init
    PROVE  TapInv /\ TapHints
<1>1. /\ Tap!NoEntry \in TapEntries /\ Tap!NoEntry.phase = "none" /\ Tap!NoEntry.owner = {} /\ Tap!NoEntry.epoch = 0
      /\ Tap!NoDevice \in TapDevices /\ Tap!NoDevice.endpoint = {}
  BY TapFreshDevice
<1>2. Tap!Idle \in TapOps /\ Tap!Idle.step = "idle"
  BY DEF Tap!Idle, TapOps, TapSteps
<1>3. Tap!NoLease \in TapLeases /\ Tap!NoLease.state = "free"
  BY DEF Tap!NoLease, TapLeases
<1>4. TapTyped /\ TapHints
  BY <1>1, <1>2, <1>3 DEF Tap!Init, TapTyped, TapHints
<1>5. \A a \in TapAddresses : tapAddress[a].state = "free"
  BY <1>3 DEF Tap!Init
<1>6. TapFiles
  BY <1>5 DEF Tap!Init, TapFiles, TapBinds
<1>7. TapKernel /\ TapFlows
  BY <1>1, <1>5 DEF Tap!Init, TapKernel, TapFlows
<1>8. TapPooled
  BY <1>1, <1>5 DEF Tap!Init, TapPooled, TapLeased, TapBinds
<1>9. ASSUME NEW s \in Tenants PROVE TapOperates(s)
  <2>1. tapOp[s].step = "idle"
    BY <1>2 DEF Tap!Init
  <2> QED
    BY <2>1 DEF TapOperates
<1> QED
  BY ZenonT(30), <1>4, <1>6, <1>7, <1>8, <1>9 DEF TapInv

(* The collector's hints are no part of the invariant.                       *)
LEMMA TapUnchanged ==
    ASSUME TapInv,
           UNCHANGED <<tapAddress, tapIndex, tapDev, tapHolder, tapTrack, tapEntry, tapWork, tapOp, tapUp>>
    PROVE  TapInv'
<1>1. TapFiles' /\ TapKernel' /\ TapFlows'
  BY TapQuiet
<1>2. TapTyped'
  BY DEF TapInv, TapTyped
<1>3. TapPooled'
  BY SMTT(30) DEF TapInv, TapPooled, TapLeased, TapBinds
<1>4. ASSUME NEW u \in Tenants PROVE TapOperates(u)'
  <2>1. TapOperates(u) /\ tapOp[u].tap \in SUBSET Taps
    BY DEF TapInv, TapTyped, TapOps
  <2>2. \A t \in Taps, a \in TapAddresses : TapBinds(a, t)' => TapBinds(a, t)
    BY DEF TapBinds
  <2> QED
    BY <2>1, <2>2, TapOther
<1> QED
  BY <1>1, <1>2, <1>3, <1>4 DEF TapInv

LEMMA TapNext ==
    ASSUME TapInv, TapHints, Tap!Next
    PROVE  TapInv'
<1>1. ASSUME NEW s \in Tenants, Tap!AddStep(s) PROVE TapInv'
  <2>1. tapRemembered[s] \in SUBSET TapAddresses
    BY DEF TapHints
  <2>2. CASE Tap!AddIndexed(s) \/ Tap!AddRemembered(s) \/ Tap!LinkIndex(s) \/ Tap!LinkFailed(s) \/ Tap!EnsureFailed(s)
    BY <2>1, <2>2, TapAddIndexed, TapAddRemembered, TapLinkIndex, TapFails
  <2>3. CASE Tap!PublishFailed(s) \/ Tap!EnsureLink(s) \/ Tap!publishEndpoint(s) \/ Tap!EndpointFailed(s)
    BY <2>3, TapFailsWithout, TapEnsureLink, TapPublishEndpoint
  <2>4. CASE \E t \in Taps : Tap!BorrowReady(s, t) \/ Tap!BorrowNew(s, t) \/ Tap!BorrowFailed(s, t)
    BY <2>4, TapBorrowReady, TapBorrowNew, TapBorrowFailed
  <2>5. CASE \E a \in TapAddresses : Tap!Publish(s, a) \/ Tap!PublishUnsynced(s, a)
    BY <2>5, TapPublish, TapPublishUnsynced
  <2> QED
    BY <1>1, <2>2, <2>3, <2>4, <2>5 DEF Tap!AddStep
<1>2. ASSUME NEW s \in Tenants, Tap!DeleteStep(s) PROVE TapInv'
  <2>1. tapRemembered[s] \in SUBSET TapAddresses
    BY DEF TapHints
  <2>2. CASE Tap!DeleteBegin(s) \/ Tap!DeleteClean(s) \/ Tap!DeleteFlows(s) \/ Tap!RemoveIndex(s)
    BY ZenonT(30), <2>1, <2>2, TapDeleteBegin, TapDeleteClean, TapDeleteFlows, TapRemoveIndex
  <2>3. CASE Tap!retireAddress(s) \/ Tap!DeleteFailed(s) \/ Tap!DeleteReady(s) \/ Tap!ReadyFailed(s)
    BY <2>3, TapRetire, TapFails, TapDeleteReady, TapFailsWithout
  <2> QED
    BY <1>2, <2>2, <2>3 DEF Tap!DeleteStep
<1>3. ASSUME NEW s \in Tenants,
             \/ \E enabled \in BOOLEAN : Tap!setEnabled(s, enabled)
             \/ Tap!Launch(s) \/ Tap!Exit(s) \/ Tap!Traffic(s)
      PROVE  TapInv'
  BY <1>3, TapSetEnabled, TapLaunch, TapExit, TapTraffic
<1>4. CASE \/ Tap!MaintainPick \/ Tap!StartPool \/ Tap!Crash \/ Tap!Reboot
           \/ \E t \in Taps : Tap!MaintainClean(t) \/ Tap!Refill(t)
           \/ \E a \in TapAddresses : Tap!Expire(a)
  BY <1>4, TapMaintainPick, TapStartPool, TapCrash, TapReboot, TapMaintainClean, TapRefill, TapExpire
<1>5. CASE Tap!scanLeases \/ Tap!rememberLeases
  <2>1. UNCHANGED <<tapAddress, tapIndex, tapDev, tapHolder, tapTrack, tapEntry, tapWork, tapOp, tapUp>>
    BY <1>5 DEF Tap!scanLeases, Tap!rememberLeases, Tap!kernel, Tap!files
  <2> QED
    BY <2>1, TapUnchanged
<1> QED
  BY ZenonT(30), <1>1, <1>2, <1>3, <1>4, <1>5 DEF Tap!Next

LEMMA TapExclusive ==
    ASSUME TapInv
    PROVE  Tap!LeasesAreExclusive
<1>1. Tap!OneLeasePerDevice
  <2> SUFFICES ASSUME NEW t \in Taps
               PROVE  LET bound == {a \in TapAddresses : tapAddress[a].state = "active" /\ tapAddress[a].tap = {t}}
                      IN /\ \A a, b \in bound : a = b
                         /\ tapEntry[t].phase \in {"Ready", "Preparing"} => bound = {}
    BY DEF Tap!OneLeasePerDevice
  <2> DEFINE bound == {a \in TapAddresses : tapAddress[a].state = "active" /\ tapAddress[a].tap = {t}}
  <2>1. \A a \in bound : a \in TapAddresses /\ TapBinds(a, t)
    BY DEF TapBinds
  <2>3. \A a, b \in bound : a = b
    BY <2>1 DEF TapInv, TapFiles
  <2>4. tapEntry[t].phase \in {"Ready", "Preparing"} => bound = {}
    <3> SUFFICES ASSUME tapEntry[t].phase \in {"Ready", "Preparing"} PROVE bound = {}
      OBVIOUS
    <3>1. tapUp = TRUE /\ tapEntry[t].owner = {}
      BY TapAsItIs DEF TapInv, TapPooled, TapTyped
    <3>2. \A a \in TapAddresses : ~TapBinds(a, t)
      BY <3>1, TapUnbound
    <3> QED
      BY <2>1, <3>2
  <2> QED
    BY <2>3, <2>4
<1>2. Tap!PermissionIsLeased
  <2> SUFFICES ASSUME NEW t \in Taps, NEW a \in tapDev[t].endpoint
               PROVE  /\ tapAddress[a].state = "active" /\ tapAddress[a].tap = {t}
                      /\ tapHolder[t] \subseteq tapAddress[a].sb
    BY DEF Tap!PermissionIsLeased
  <2>1. TapBinds(a, t) /\ a \in TapAddresses
    BY DEF TapInv, TapKernel, TapTyped, TapDevices
  <2>2. CASE tapHolder[t] = {}
    BY <2>1, <2>2 DEF TapBinds
  <2>3. CASE tapHolder[t] # {}
    <3>1. PICK b \in TapAddresses, s \in Tenants : TapLeased(b, s, t) /\ tapHolder[t] = {s}
      BY <2>3 DEF TapInv, TapKernel
    <3>2. a = b
      BY <2>1, <3>1 DEF TapInv, TapFiles, TapLeased
    <3> QED
      BY <2>1, <3>1, <3>2 DEF TapLeased, TapBinds
  <2> QED
    BY <2>2, <2>3
<1>3. Tap!FlowsStayWithOwner
  BY DEF TapInv, TapFlows, Tap!FlowsStayWithOwner
<1> QED
  BY <1>1, <1>2, <1>3 DEF Tap!LeasesAreExclusive

(* A device, its packet permission and the connections of its address belong *)
(* to one sandbox at a time, through crashes, reboots, scans and failed      *)
(* steps, for any number of sandboxes, devices and addresses (network/tap).  *)
THEOREM TapLeasesAreExclusive == PoolSpec => []LeasesAreExclusive
<1> DEFINE Inv == focus = "tap" => TapInv /\ TapHints
<1>1. PoolInit => Inv
  BY TapInitial DEF PoolInit
<1>2. Inv /\ [TapStep]_poolVars => Inv'
  <2> SUFFICES ASSUME Inv, [TapStep]_poolVars, focus' = "tap" PROVE TapInv' /\ TapHints'
    OBVIOUS
  <2>1. CASE TapStep
    BY <2>1, TapNext, TapHintsStep DEF TapStep
  <2>2. CASE UNCHANGED poolVars
    <3>1. focus = "tap" /\ UNCHANGED tapVars
      BY <2>2 DEF poolVars
    <3>2. TapInv'
      BY <3>1, TapUnchanged DEF tapVars
    <3>3. TapHints'
      BY <3>1 DEF tapVars, TapHints
    <3> QED
      BY <3>2, <3>3
  <2> QED
    BY <2>1, <2>2
<1>3. Inv => LeasesAreExclusive
  BY TapExclusive DEF LeasesAreExclusive
<1> QED
  BY <1>1, <1>2, <1>3, PTL DEF PoolSpec
=============================================================================

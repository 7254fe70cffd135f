--------------------------- MODULE ServicesProofs ---------------------------
(***************************************************************************)
(* The host's services: transactions of the metadata store, files copied   *)
(* into and out of a guest, and leases of the E2B service, for any number  *)
(* of writers, transfers, requests and failures.                           *)
(***************************************************************************)
EXTENDS Services, Sequences, TLAPS

USE Zenon    \* unless a leaf names another prover

-----------------------------------------------------------------------------
(* Metadata: the writer reservation keeps the database as the transaction   *)
(* that holds it has read it.                                               *)

MetaRecords == [version : Meta!Versions, x : Nat, y : Nat]
MetaSteps == {"shut", "guard", "init", "verify", "ready", "begin", "read", "put", "second",
              "commit", "view", "viewed", "done"}
MetaTxs == [step : MetaSteps, own : MetaRecords, runs : Nat]
Closed == {"shut", "guard", "init", "verify"}
Writing == {"init", "read", "put", "second", "commit"}

MetaTypes ==
    /\ metaDb \in MetaRecords /\ metaTx \in [Writers -> MetaTxs] /\ metaOk \in Nat /\ metaUnsure \in Nat

\* The database and the updates that were reported.
MetaCounts == metaDb.x = metaDb.y /\ metaOk <= metaDb.x /\ metaDb.x <= metaOk + metaUnsure

\* A transaction's copy is the database and what the transaction has put.
Ahead(p, m, n) ==
    /\ metaTx[p].own.version = metaDb.version
    /\ metaTx[p].own.x = metaDb.x + m /\ metaTx[p].own.y = metaDb.y + n

\* What a transaction knows at its step.
MetaKnows(p) ==
    /\ metaTx[p].step \in Writing => metaWriter = {p}
    /\ metaTx[p].step \in Closed \cup {"ready", "begin"} => metaTx[p].runs = 0
    /\ metaTx[p].runs <= 1
    /\ metaTx[p].step \notin Closed => metaDb.version = Meta!Current
    /\ metaTx[p].step \in {"read", "put"} => metaTx[p].own = metaDb
    /\ metaTx[p].step = "second" => Ahead(p, 1, 0)
    /\ metaTx[p].step = "commit" => Ahead(p, 1, 1)
    /\ metaTx[p].step \in {"view", "viewed"} => metaTx[p].own.x = metaTx[p].own.y

MetaInv == MetaTypes /\ MetaCounts /\ \A p \in Writers : MetaKnows(p)

LEMMA MetaSerial == ASSUME MetaInv PROVE Meta!UpdatesAreSerial
BY DEF MetaInv, MetaCounts, MetaKnows, Meta!UpdatesAreSerial, Meta!At, Closed

LEMMA MetaInitially == ASSUME Meta!Init PROVE MetaInv
<1>1. Meta!Shut \in MetaTxs /\ Meta!Shut.step = "shut" /\ Meta!Shut.runs = 0
  BY DEF MetaTxs, MetaSteps, MetaRecords, Meta!Shut, Meta!Blank, Meta!Versions, Meta!Current
<1>2. metaTx = [p \in Writers |-> Meta!Shut] /\ metaOk = 0 /\ metaUnsure = 0
  BY DEF Meta!Init
<1>3. metaDb \in MetaRecords /\ metaDb.x = 0 /\ metaDb.y = 0
  BY SMTT(30) DEF Meta!Init, Meta!Blank, MetaRecords, Meta!Versions, Meta!Current
<1>4. MetaTypes
  BY <1>1, <1>2, <1>3 DEF MetaTypes
<1>5. MetaCounts
  BY SMTT(30), <1>2, <1>3 DEF MetaCounts
<1>6. \A p \in Writers : MetaKnows(p)
  BY SMTT(30), <1>1, <1>2 DEF MetaKnows, Writing, Closed
<1> QED
  BY <1>4, <1>5, <1>6 DEF MetaInv

\* p moves on; whoever else holds the reservation keeps it.
LEMMA MetaMoves ==
    ASSUME MetaInv, NEW p \in Writers, UNCHANGED <<metaDb, metaOk, metaUnsure>>,
           NEW t \in MetaTxs, metaTx' = [metaTx EXCEPT ![p] = t], MetaKnows(p)',
           metaWriter' = metaWriter \/ metaWriter \subseteq {p} \/ metaWriter' = metaWriter \ {p}
    PROVE  MetaInv'
<1>1. metaTx' \in [Writers -> MetaTxs] /\ metaTx'[p] = t /\ \A q \in Writers \ {p} : metaTx'[q] = metaTx[q]
  BY DEF MetaInv, MetaTypes
<1>2. MetaTypes' /\ MetaCounts'
  BY <1>1 DEF MetaInv, MetaTypes, MetaCounts
<1>3. ASSUME NEW q \in Writers \ {p}, metaTx[q].step \in Writing
      PROVE  metaWriter' = {q}
  BY <1>3 DEF MetaInv, MetaKnows
<1>4. ASSUME NEW q \in Writers \ {p}
      PROVE  MetaKnows(q)'
  BY <1>1, <1>3, <1>4 DEF MetaInv, MetaKnows, Ahead
<1> QED
  BY <1>2, <1>4 DEF MetaInv

\* p writes the database it has reserved.
LEMMA MetaWrites ==
    ASSUME MetaInv, NEW p \in Writers, metaTx[p].step \in Writing,
           metaDb' \in MetaRecords, metaDb'.version = Meta!Current, metaOk' \in Nat, metaUnsure' \in Nat, MetaCounts',
           NEW t \in MetaTxs, metaTx' = [metaTx EXCEPT ![p] = t], MetaKnows(p)'
    PROVE  MetaInv'
<1>1. metaTx' \in [Writers -> MetaTxs] /\ metaTx'[p] = t /\ \A q \in Writers \ {p} : metaTx'[q] = metaTx[q]
  BY DEF MetaInv, MetaTypes
<1>2. MetaTypes'
  BY <1>1 DEF MetaInv, MetaTypes
<1>3. \A q \in Writers \ {p} : metaTx[q].step \notin Writing
  BY DEF MetaInv, MetaKnows
<1>4. ASSUME NEW q \in Writers \ {p}
      PROVE  MetaKnows(q)'
  BY <1>1, <1>3, <1>4 DEF MetaInv, MetaKnows, Ahead, Writing
<1> QED
  BY <1>2, <1>4 DEF MetaInv

\* What the outcomes of a call are.
LEMMA MetaValues ==
    /\ Meta!Shut \in MetaTxs /\ Meta!Shut.step = "shut" /\ Meta!Shut.runs = 0
    /\ Meta!Ready \in MetaTxs /\ Meta!Ready.step = "ready" /\ Meta!Ready.runs = 0
BY DEF MetaTxs, MetaSteps, MetaRecords, Meta!Shut, Meta!Ready, Meta!Blank, Meta!Versions, Meta!Current

LEMMA MetaGoto ==
    ASSUME MetaInv, NEW p \in Writers, NEW step \in MetaSteps
    PROVE  /\ metaTx[p] \in MetaTxs /\ [metaTx[p] EXCEPT !.step = step] \in MetaTxs
           /\ [metaTx[p] EXCEPT !.step = step].step = step
           /\ [metaTx[p] EXCEPT !.step = step].own = metaTx[p].own
           /\ [metaTx[p] EXCEPT !.step = step].runs = metaTx[p].runs
           /\ Meta!Goto(p, step) => metaTx' = [metaTx EXCEPT ![p] = [metaTx[p] EXCEPT !.step = step]]
<1>1. metaTx[p] \in MetaTxs /\ metaTx \in [Writers -> MetaTxs]
  BY DEF MetaInv, MetaTypes
<1> QED
  BY <1>1 DEF MetaTxs, Meta!Goto

\* The call ends, with the store open or shut.
LEMMA MetaEnds ==
    ASSUME MetaInv, NEW p \in Writers, UNCHANGED <<metaDb, metaOk, metaUnsure>>,
           \/ metaTx' = [metaTx EXCEPT ![p] = Meta!Shut]
           \/ metaTx' = [metaTx EXCEPT ![p] = Meta!Ready] /\ metaDb.version = Meta!Current,
           metaWriter' = metaWriter \/ metaWriter \subseteq {p} \/ metaWriter' = metaWriter \ {p}
    PROVE  MetaInv'
<1> DEFINE t == metaTx'[p]
<1>1. /\ t = Meta!Shut \/ (t = Meta!Ready /\ metaDb'.version = Meta!Current)
      /\ metaTx' = [metaTx EXCEPT ![p] = t] /\ t \in MetaTxs
  BY MetaValues DEF MetaInv, MetaTypes
<1>2. t.runs = 0 /\ (t.step = "shut" \/ (t.step = "ready" /\ metaDb'.version = Meta!Current))
  BY <1>1, MetaValues
<1>3. MetaKnows(p)'
  BY SMTT(30), <1>2 DEF MetaKnows, Writing, Closed
<1> QED
  BY <1>1, <1>3, MetaMoves

\* Steps that move a call on without touching the database.
LEMMA MetaGoes ==
    ASSUME MetaInv, NEW p \in Writers, NEW step \in MetaSteps, Meta!Goto(p, step),
           UNCHANGED <<metaDb, metaOk, metaUnsure>>,
           metaWriter' = metaWriter \/ metaWriter \subseteq {p} \/ metaWriter' = metaWriter \ {p},
           step \in Writing => metaWriter' = {p},
           \/ step \in Closed /\ metaTx[p].step \in Closed
           \/ step = "begin" /\ metaTx[p].step = "ready"
           \/ step = "put" /\ metaTx[p].step = "read"
           \/ step = "viewed" /\ metaTx[p].step = "view"
    PROVE  MetaInv'
<1> DEFINE t == [metaTx[p] EXCEPT !.step = step]
<1>1. /\ t \in MetaTxs /\ metaTx' = [metaTx EXCEPT ![p] = t]
      /\ t.step = step /\ t.own = metaTx[p].own /\ t.runs = metaTx[p].runs
  BY MetaGoto
<1>2. metaTx'[p].step = step /\ metaTx'[p].own = metaTx[p].own /\ metaTx'[p].runs = metaTx[p].runs
  BY <1>1 DEF MetaInv, MetaTypes
<1>3. MetaKnows(p)'
  BY <1>2 DEF MetaInv, MetaKnows, Writing, Closed
<1> HIDE DEF t
<1> QED
  BY <1>1, <1>3, MetaMoves

LEMMA MetaOpens ==
    ASSUME MetaInv, NEW p \in Writers,
           Meta!Open(p) \/ Meta!initialize(p) \/ Meta!OpenFailed(p) \/ Meta!verify(p) \/ Meta!Crash(p)
    PROVE  MetaInv'
<1>1. CASE Meta!Open(p)
  BY <1>1, MetaGoes DEF Meta!Open, Meta!At, MetaSteps, Closed, Writing
<1>2. CASE Meta!initialize(p) /\ metaDb.version = Meta!Current
  BY <1>2, MetaGoes DEF Meta!initialize, Meta!At, MetaSteps, Closed, Writing
<1>3. CASE Meta!initialize(p) /\ metaDb.version # Meta!Current
  BY <1>3, MetaGoes DEF Meta!initialize, Meta!At, MetaSteps, Closed, Writing
<1>4. CASE Meta!OpenFailed(p) \/ Meta!Crash(p)
  BY <1>4, MetaEnds DEF Meta!OpenFailed, Meta!Crash
<1>5. CASE Meta!verify(p)
  BY <1>5, MetaEnds DEF Meta!verify
<1> QED
  BY <1>1, <1>2, <1>3, <1>4, <1>5

\* The migration runs under the reservation and gives the current schema.
LEMMA MetaMigrates ==
    ASSUME MetaInv, NEW p \in Writers, Meta!migrateCollections(p)
    PROVE  MetaInv'
<1>1. /\ metaTx[p].step = "init" /\ Meta!Goto(p, "verify") /\ UNCHANGED <<metaOk, metaUnsure>>
      /\ metaDb' = [metaDb EXCEPT !.version = Meta!Current]
  BY DEF Meta!migrateCollections, Meta!At
<1>2. metaDb' \in MetaRecords /\ metaDb'.version = Meta!Current /\ metaDb'.x = metaDb.x /\ metaDb'.y = metaDb.y
  BY <1>1 DEF MetaInv, MetaTypes, MetaRecords, Meta!Versions
<1>3. MetaCounts' /\ metaOk' \in Nat /\ metaUnsure' \in Nat
  BY <1>1, <1>2 DEF MetaInv, MetaCounts, MetaTypes
<1> DEFINE t == [metaTx[p] EXCEPT !.step = "verify"]
<1>4. /\ t \in MetaTxs /\ metaTx' = [metaTx EXCEPT ![p] = t]
      /\ t.step = "verify" /\ t.own = metaTx[p].own /\ t.runs = metaTx[p].runs
  BY ZenonT(30), <1>1, MetaGoto DEF MetaSteps
<1>5. metaTx'[p].step = "verify" /\ metaTx'[p].runs = metaTx[p].runs
  BY <1>4 DEF MetaInv, MetaTypes
<1>6. MetaKnows(p)'
  BY <1>1, <1>5 DEF MetaInv, MetaKnows, Writing, Closed
<1> HIDE DEF t
<1> QED
  BY <1>1, <1>2, <1>3, <1>4, <1>6, MetaWrites DEF Writing

\* The callback works on the database as it is when the writer is reserved.
LEMMA MetaBegins ==
    ASSUME MetaInv, NEW p \in Writers, Meta!BeginTx(p) \/ Meta!View(p)
    PROVE  MetaInv'
<1> DEFINE t == [step |-> IF Meta!BeginTx(p) THEN "read" ELSE "view", own |-> metaDb, runs |-> 1]
<1>1. metaTx[p].runs = 0 /\ metaTx[p].step \in {"ready", "begin"} /\ metaDb.version = Meta!Current /\ metaDb.x = metaDb.y
  BY DEF MetaInv, MetaKnows, MetaCounts, Meta!BeginTx, Meta!View, Meta!At, Closed
<1>2. /\ metaTx' = [metaTx EXCEPT ![p] = t] /\ UNCHANGED <<metaDb, metaOk, metaUnsure>>
      /\ metaWriter' = metaWriter \/ (metaWriter = {} /\ metaWriter' = {p})
      /\ t.step = "read" => metaWriter' = {p}
  <2>1. CASE Meta!BeginTx(p)
    <3>1. metaTx' = [metaTx EXCEPT ![p] = [step |-> "read", own |-> metaDb, runs |-> metaTx[p].runs + 1]]
      BY <2>1 DEF Meta!BeginTx, MetaInv, MetaTypes
    <3> QED
      BY SMTT(30), <1>1, <2>1, <3>1 DEF Meta!BeginTx
  <2>2. CASE ~Meta!BeginTx(p) /\ Meta!View(p)
    BY <2>2 DEF Meta!View
  <2> QED
    BY <2>1, <2>2
<1>3. /\ t \in MetaTxs /\ t.step \in {"read", "view"} /\ t.own = metaDb /\ t.runs = 1
  BY DEF MetaTxs, MetaSteps, MetaInv, MetaTypes
<1> HIDE DEF t
<1>4. metaTx'[p] = t
  BY <1>2 DEF MetaInv, MetaTypes
<1>5. MetaKnows(p)'
  BY SMTT(30), <1>1, <1>2, <1>3, <1>4 DEF MetaKnows, Writing, Closed
<1> QED
  BY <1>2, <1>3, <1>5, MetaMoves

LEMMA MetaFirstPut ==
    ASSUME NEW t \in MetaTxs, NEW u, u = [t EXCEPT !.step = "second", !.own.x = @ + 1]
    PROVE  /\ u \in MetaTxs /\ u.step = "second" /\ u.runs = t.runs
           /\ u.own.version = t.own.version /\ u.own.x = t.own.x + 1 /\ u.own.y = t.own.y
<1>1. t.own \in MetaRecords /\ t.own.x + 1 \in Nat
  BY SMTT(30) DEF MetaTxs, MetaRecords
<1>2. [t.own EXCEPT !.x = @ + 1] \in MetaRecords
  BY <1>1 DEF MetaRecords
<1> QED
  BY <1>1, <1>2 DEF MetaTxs, MetaRecords, MetaSteps

LEMMA MetaSecondPut ==
    ASSUME NEW t \in MetaTxs, NEW u, u = [t EXCEPT !.step = "commit", !.own.y = @ + 1]
    PROVE  /\ u \in MetaTxs /\ u.step = "commit" /\ u.runs = t.runs
           /\ u.own.version = t.own.version /\ u.own.y = t.own.y + 1 /\ u.own.x = t.own.x
<1>1. t.own \in MetaRecords /\ t.own.y + 1 \in Nat
  BY SMTT(30) DEF MetaTxs, MetaRecords
<1>2. [t.own EXCEPT !.y = @ + 1] \in MetaRecords
  BY <1>1 DEF MetaRecords
<1> QED
  BY <1>1, <1>2 DEF MetaTxs, MetaRecords, MetaSteps

LEMMA MetaPuts ==
    ASSUME MetaInv, NEW p \in Writers, Meta!Put(p)
    PROVE  MetaInv'
<1> DEFINE t == metaTx'[p]
<1>1. metaTx \in [Writers -> MetaTxs] /\ metaTx[p] \in MetaTxs /\ metaDb \in MetaRecords /\ MetaKnows(p)
  BY DEF MetaInv, MetaTypes
<1>2. UNCHANGED <<metaDb, metaWriter, metaOk, metaUnsure>> /\ metaDb.x \in Nat /\ metaDb.y \in Nat
  BY <1>1 DEF Meta!Put, MetaRecords
<1>3. CASE metaTx[p].step = "put"
  <2>1. metaTx' = [metaTx EXCEPT ![p] = [metaTx[p] EXCEPT !.step = "second", !.own.x = @ + 1]]
    BY <1>1, <1>3 DEF Meta!Put, Meta!At
  <2>2. metaTx[p].own = metaDb /\ metaWriter = {p} /\ metaTx[p].runs <= 1 /\ metaDb.version = Meta!Current
    BY <1>1, <1>3 DEF MetaKnows, Writing, Closed
  <2>3. t = [metaTx[p] EXCEPT !.step = "second", !.own.x = @ + 1] /\ metaTx' = [metaTx EXCEPT ![p] = t]
    BY <1>1, <2>1
  <2>4. /\ t \in MetaTxs /\ t.step = "second" /\ t.runs = metaTx[p].runs
        /\ t.own.version = metaTx[p].own.version /\ t.own.x = metaTx[p].own.x + 1 /\ t.own.y = metaTx[p].own.y
    BY <1>1, <2>3, MetaFirstPut
  <2> HIDE DEF t
  <2>5. Ahead(p, 1, 0)'
    BY SMTT(30), <1>2, <2>2, <2>4 DEF Ahead, t
  <2>6. MetaKnows(p)'
    BY <1>2, <2>2, <2>4, <2>5 DEF MetaKnows, Writing, Closed, t
  <2> QED
    BY <1>2, <2>3, <2>4, <2>6, MetaMoves
<1>4. CASE metaTx[p].step = "second"
  <2>1. metaTx' = [metaTx EXCEPT ![p] = [metaTx[p] EXCEPT !.step = "commit", !.own.y = @ + 1]]
    BY <1>1, <1>4 DEF Meta!Put, Meta!At
  <2>2. Ahead(p, 1, 0) /\ metaWriter = {p} /\ metaTx[p].runs <= 1 /\ metaDb.version = Meta!Current
    BY <1>1, <1>4 DEF MetaKnows, Writing, Closed
  <2>3. t = [metaTx[p] EXCEPT !.step = "commit", !.own.y = @ + 1] /\ metaTx' = [metaTx EXCEPT ![p] = t]
    BY <1>1, <2>1
  <2>4. /\ t \in MetaTxs /\ t.step = "commit" /\ t.runs = metaTx[p].runs
        /\ t.own.version = metaTx[p].own.version /\ t.own.y = metaTx[p].own.y + 1 /\ t.own.x = metaTx[p].own.x
    BY <1>1, <2>3, MetaSecondPut
  <2> HIDE DEF t
  <2>5. Ahead(p, 1, 1)'
    BY SMTT(30), <1>2, <2>2, <2>4 DEF Ahead, t
  <2>6. MetaKnows(p)'
    BY <1>2, <2>2, <2>4, <2>5 DEF MetaKnows, Writing, Closed, t
  <2> QED
    BY <1>2, <2>3, <2>4, <2>6, MetaMoves
<1> QED
  BY <1>3, <1>4 DEF Meta!Put, Meta!At

\* A commit replaces the database by the transaction's copy, or, when it
\* reports an error, may have done so.
LEMMA MetaCommits ==
    ASSUME MetaInv, NEW p \in Writers, Meta!commit(p) \/ Meta!CommitFailed(p)
    PROVE  MetaInv'
<1>1. /\ metaTx[p].step = "commit" /\ Meta!Goto(p, "done")
      /\ \/ metaDb' = metaTx[p].own /\ metaOk' = metaOk + 1 /\ metaUnsure' = metaUnsure
         \/ metaDb' \in {metaDb, metaTx[p].own} /\ metaOk' = metaOk /\ metaUnsure' = metaUnsure + 1
  BY DEF Meta!commit, Meta!CommitFailed, Meta!At
<1>2. /\ Ahead(p, 1, 1) /\ metaTx[p].own \in MetaRecords /\ metaTx[p].runs <= 1
      /\ metaDb.version = Meta!Current /\ metaDb \in MetaRecords /\ metaOk \in Nat /\ metaUnsure \in Nat
  BY <1>1 DEF MetaInv, MetaKnows, MetaTypes, MetaTxs, Writing, Closed
<1>3. /\ metaTx[p].own \in MetaRecords /\ metaTx[p].own.version = Meta!Current
      /\ metaTx[p].own.x = metaDb.x + 1 /\ metaTx[p].own.y = metaDb.y + 1 /\ metaDb.x \in Nat /\ metaDb.y \in Nat
  BY <1>2 DEF MetaRecords, Ahead
<1>4. metaDb' \in MetaRecords /\ metaDb'.version = Meta!Current /\ metaOk' \in Nat /\ metaUnsure' \in Nat
  BY SMTT(30), <1>1, <1>2, <1>3
<1>5. MetaCounts'
  BY SMTT(30), <1>1, <1>2, <1>3 DEF MetaInv, MetaCounts
<1> DEFINE t == [metaTx[p] EXCEPT !.step = "done"]
<1>6. t \in MetaTxs /\ metaTx' = [metaTx EXCEPT ![p] = t] /\ t.step = "done" /\ t.runs = metaTx[p].runs
  BY <1>1, MetaGoto DEF MetaSteps
<1>7. metaTx'[p].step = "done" /\ metaTx'[p].runs = metaTx[p].runs
  BY <1>6 DEF MetaInv, MetaTypes
<1>8. MetaKnows(p)'
  BY <1>2, <1>4, <1>7 DEF MetaKnows, Writing, Closed
<1> HIDE DEF t
<1> QED
  BY <1>1, <1>4, <1>5, <1>6, <1>8, MetaWrites DEF Writing

LEMMA MetaNext ==
    ASSUME MetaInv, Meta!Next
    PROVE  MetaInv'
<1> PICK p \in Writers :
        \/ Meta!Open(p) \/ Meta!initialize(p) \/ Meta!migrateCollections(p) \/ Meta!OpenFailed(p) \/ Meta!verify(p)
        \/ Meta!Update(p) \/ Meta!BeginTx(p) \/ Meta!UpdateBusy(p) \/ Meta!Get(p) \/ Meta!Put(p) \/ Meta!rollback(p)
        \/ Meta!commit(p) \/ Meta!CommitFailed(p) \/ Meta!Return(p) \/ Meta!View(p) \/ Meta!ViewNext(p)
        \/ Meta!ViewEnd(p) \/ Meta!Crash(p)
  BY DEF Meta!Next
<1>1. CASE Meta!Open(p) \/ Meta!initialize(p) \/ Meta!OpenFailed(p) \/ Meta!verify(p) \/ Meta!Crash(p)
  BY <1>1, MetaOpens
<1>2. CASE Meta!Update(p) \/ Meta!Get(p) \/ Meta!ViewNext(p)
  BY <1>2, MetaGoes DEF MetaInv, MetaKnows, Meta!Update, Meta!Get, Meta!ViewNext, Meta!At, MetaSteps, Closed, Writing
<1>3. CASE Meta!UpdateBusy(p) \/ Meta!Return(p) \/ Meta!ViewEnd(p)
  <2>1. metaDb.version = Meta!Current
    BY <1>3 DEF MetaInv, MetaKnows, Meta!UpdateBusy, Meta!Return, Meta!ViewEnd, Meta!At, Closed
  <2> QED
    BY <1>3, <2>1, MetaEnds DEF Meta!UpdateBusy, Meta!Return, Meta!ViewEnd
<1>4. CASE Meta!rollback(p)
  <2>1. metaDb.version = Meta!Current /\ metaWriter = {p}
    BY <1>4 DEF MetaInv, MetaKnows, Meta!rollback, Closed, Writing
  <2> QED
    BY <1>4, <2>1, MetaEnds DEF Meta!rollback
<1> QED
  BY <1>1, <1>2, <1>3, <1>4, MetaMigrates, MetaBegins, MetaPuts, MetaCommits

\* Updates of the metadata store are serial and whole for any number of
\* processes, updates and failures (metadata/sqlite Store.Update).
THEOREM MetadataUpdatesAreSerial == ServicesSpec => []UpdatesAreSerial
<1> DEFINE Inv == focus = "metadata" => MetaInv
<1>1. ServicesInit => Inv
  BY MetaInitially DEF ServicesInit
<1>2. Inv /\ [ServicesNext]_servicesVars => Inv'
  <2> SUFFICES ASSUME Inv, [ServicesNext]_servicesVars, focus' = "metadata"
               PROVE  MetaInv'
    OBVIOUS
  <2>1. CASE MetaStep
    BY <2>1, MetaNext DEF MetaStep
  <2>2. CASE LeaseStep \/ PagesStep \/ FilesStep
    BY <2>2 DEF LeaseStep, PagesStep, FilesStep
  <2>3. CASE UNCHANGED servicesVars
    BY <2>3 DEF servicesVars, metaVars, MetaInv, MetaTypes, MetaCounts, MetaKnows, Ahead
  <2> QED
    BY <2>1, <2>2, <2>3 DEF ServicesNext
<1>3. Inv => UpdatesAreSerial
  BY MetaSerial DEF UpdatesAreSerial
<1> QED
  BY <1>1, <1>2, <1>3, PTL DEF ServicesSpec

-----------------------------------------------------------------------------
(* FileTransfer: the guest renames only what the end frame completes, and a *)
(* reply tells whether it has.                                              *)

FileRecords == [by : SUBSET Uploads, chunks : Int]
FileWords == {"none", "idle", "receiving", "rename", "reply", "done", "dead", "ready", "error", "remote",
              "ok", "cancelled", "reading", "failed"}

FilesTypes ==
    /\ fileTotal \in [Uploads -> Nat] /\ filePath \in FileRecords
    /\ fileTemp \in [Uploads -> Int] /\ fileSent \in [Uploads -> Nat] /\ fileGot \in [Uploads -> Nat]
    /\ fileServer \in [Uploads -> FileWords] /\ fileReply \in [Uploads -> FileWords]
    /\ fileResult \in [Uploads -> FileWords]
    /\ fileReader \in [step : FileWords, file : FileRecords, got : Int]

FileKnows(u) ==
    /\ fileSent[u] <= fileTotal[u] /\ fileGot[u] <= fileSent[u]
    /\ u \in fileEnded => fileSent[u] = fileTotal[u]
    /\ fileServer[u] = "idle" => fileGot[u] = 0 /\ u \notin fileCommitted
    /\ fileServer[u] = "receiving" => fileTemp[u] = fileGot[u] /\ u \notin fileCommitted
    /\ fileServer[u] = "rename" => fileTemp[u] = fileTotal[u] /\ u \notin fileCommitted
    /\ fileServer[u] = "reply" => fileTemp[u] = -1 /\ u \in fileCommitted
    /\ fileServer[u] = "done" => fileTemp[u] = -1
    /\ fileReply[u] = "done" => u \in fileCommitted
    /\ fileReply[u] = "error" => fileServer[u] = "done" /\ u \notin fileCommitted
    /\ fileResult[u] = "ok" => u \in fileCommitted
    /\ fileResult[u] = "remote" => fileServer[u] = "done" /\ u \notin fileCommitted

PathIsWhole == filePath = GuestFiles!Absent \/ GuestFiles!Whole(filePath)
ReaderIsWhole ==
    /\ fileReader.step \in {"reading", "ok"} => GuestFiles!Whole(fileReader.file)
    /\ fileReader.step = "ok" => fileReader.got = fileReader.file.chunks

FilesInv == FilesTypes /\ PathIsWhole /\ ReaderIsWhole /\ \A u \in Uploads : FileKnows(u)

LEMMA FilesWhole == ASSUME FilesInv PROVE GuestFiles!UploadsAreWhole
<1>1. fileReader.step = "ok" => GuestFiles!Whole([fileReader.file EXCEPT !.chunks = fileReader.got])
  <2>1. fileReader.step = "ok" => [fileReader.file EXCEPT !.chunks = fileReader.got] = fileReader.file
    BY DEF FilesInv, FilesTypes, ReaderIsWhole, FileRecords
  <2> QED
    BY <2>1 DEF FilesInv, ReaderIsWhole
<1> QED
  BY <1>1 DEF FilesInv, PathIsWhole, FileKnows, GuestFiles!UploadsAreWhole

LEMMA FilesInitially == ASSUME GuestFiles!Init PROVE FilesInv
<1>1. GuestFiles!Absent \in FileRecords /\ GuestFiles!Old \in FileRecords /\ GuestFiles!Whole(GuestFiles!Old)
  BY SMTT(30) DEF GuestFiles!Absent, GuestFiles!Old, GuestFiles!Whole, FileRecords
<1>2. fileTotal \in [Uploads -> Nat]
  BY SMTT(30), ServicesAssumption DEF GuestFiles!Init
<1>3. FilesTypes
  BY SMTT(30), <1>1, <1>2 DEF GuestFiles!Init, FilesTypes, FileWords
<1>4. PathIsWhole /\ ReaderIsWhole
  BY <1>1 DEF GuestFiles!Init, PathIsWhole, ReaderIsWhole
<1>5. ASSUME NEW u \in Uploads
      PROVE  FileKnows(u)
  BY SMTT(30), <1>2 DEF GuestFiles!Init, FileKnows
<1> QED
  BY <1>3, <1>4, <1>5 DEF FilesInv

\* Nothing that concerns an upload changes.
FileSame(v) ==
    /\ fileTemp'[v] = fileTemp[v] /\ fileSent'[v] = fileSent[v] /\ fileGot'[v] = fileGot[v]
    /\ fileServer'[v] = fileServer[v] /\ fileReply'[v] = fileReply[v] /\ fileResult'[v] = fileResult[v]
    /\ (v \in fileEnded' <=> v \in fileEnded) /\ (v \in fileCommitted' <=> v \in fileCommitted)

LEMMA FilesMove ==
    ASSUME FilesInv, NEW u \in Uploads, FilesTypes', UNCHANGED fileTotal, PathIsWhole', ReaderIsWhole',
           \A v \in Uploads \ {u} : FileSame(v), FileKnows(u)'
    PROVE  FilesInv'
<1>1. ASSUME NEW v \in Uploads \ {u}
      PROVE  FileKnows(v)'
  BY SMTT(30), <1>1 DEF FilesInv, FileKnows, FileSame
<1> QED
  BY <1>1 DEF FilesInv

\* Path and reader stay.
LEMMA FilesStay ==
    ASSUME FilesInv, UNCHANGED <<fileTotal, filePath, fileReader>>
    PROVE  PathIsWhole' /\ ReaderIsWhole'
BY DEF FilesInv, PathIsWhole, ReaderIsWhole, GuestFiles!Whole

\* Steps of the host that leave the frames alone.
LEMMA FilesHostMoves ==
    ASSUME FilesInv, NEW u \in Uploads,
           \/ GuestFiles!Request(u) \/ GuestFiles!Ready(u) \/ GuestFiles!NotReady(u) \/ GuestFiles!sendFileFailed(u)
           \/ GuestFiles!WriteFile(u) \/ GuestFiles!Cancel(u) \/ GuestFiles!Break(u)
    PROVE  FilesInv'
<1>1. /\ UNCHANGED <<fileTotal, fileSent, fileEnded, filePath, fileTemp, fileGot, fileServer, fileCommitted, fileReader>>
      /\ fileReply' = fileReply \/ fileReply' = [fileReply EXCEPT ![u] = "none"]
  BY DEF GuestFiles!Request, GuestFiles!Ready, GuestFiles!NotReady, GuestFiles!sendFileFailed,
         GuestFiles!WriteFile, GuestFiles!Cancel, GuestFiles!Break, GuestFiles!Set, GuestFiles!hostVars,
         GuestFiles!guestVars
<1>2. /\ fileResult' \in [Uploads -> FileWords] /\ \A v \in Uploads \ {u} : fileResult'[v] = fileResult[v]
      /\ fileResult'[u] = "ok" => fileResult[u] = "ok" \/ fileReply[u] = "done"
      /\ fileResult'[u] = "remote" => fileResult[u] = "remote" \/ fileReply[u] = "error"
  <2>0. fileResult \in [Uploads -> FileWords]
    BY DEF FilesInv, FilesTypes
  <2>1. CASE GuestFiles!Request(u) \/ GuestFiles!Ready(u) \/ GuestFiles!sendFileFailed(u) \/ GuestFiles!Break(u)
    <3>1. fileResult' = fileResult
      BY <2>1 DEF GuestFiles!Request, GuestFiles!Ready, GuestFiles!sendFileFailed, GuestFiles!Break,
                  GuestFiles!hostVars
    <3> QED
      BY <2>0, <3>1
  <2>2. CASE GuestFiles!NotReady(u)
    BY <2>0, <2>2 DEF GuestFiles!NotReady, GuestFiles!Set, FileWords
  <2>3. CASE GuestFiles!Cancel(u)
    BY <2>0, <2>3 DEF GuestFiles!Cancel, GuestFiles!Set, FileWords
  <2>4. CASE GuestFiles!WriteFile(u)
    <3>1. PICK response \in {fileReply[u], "none"} :
             fileResult' = [fileResult EXCEPT ![u] = IF response = "error" THEN "remote"
                                ELSE IF u \notin fileEnded \/ response # "done" THEN "error" ELSE "ok"]
      BY <2>4 DEF GuestFiles!WriteFile, GuestFiles!Set
    <3> QED
      BY <2>0, <3>1 DEF FileWords
  <2> QED
    BY <2>1, <2>2, <2>3, <2>4
<1>3. /\ fileReply' \in [Uploads -> FileWords] /\ fileReply'[u] \in {fileReply[u], "none"}
      /\ \A v \in Uploads \ {u} : fileReply'[v] = fileReply[v]
  BY <1>1 DEF FilesInv, FilesTypes, FileWords
<1>4. FilesTypes'
  BY <1>1, <1>2, <1>3 DEF FilesInv, FilesTypes
<1>5. \A v \in Uploads \ {u} : FileSame(v)
  BY <1>1, <1>2, <1>3 DEF FileSame
<1>6. FileKnows(u)'
  BY <1>1, <1>2, <1>3 DEF FilesInv, FileKnows
<1> QED
  BY <1>1, <1>4, <1>5, <1>6, FilesStay, FilesMove

\* Data frames, then the end frame.
LEMMA FilesSend ==
    ASSUME FilesInv, NEW u \in Uploads, GuestFiles!sendFile(u)
    PROVE  FilesInv'
<1>1. /\ UNCHANGED <<fileTotal, fileResult, fileReply, filePath, fileTemp, fileGot, fileServer, fileCommitted, fileReader>>
      /\ u \notin fileEnded
      /\ \/ /\ fileSent[u] < fileTotal[u] /\ fileSent' = [fileSent EXCEPT ![u] = fileSent[u] + 1]
            /\ fileEnded' = fileEnded
         \/ fileSent[u] >= fileTotal[u] /\ fileEnded' = fileEnded \cup {u} /\ fileSent' = fileSent
  BY SMTT(30) DEF GuestFiles!sendFile, GuestFiles!Set, GuestFiles!guestVars, FilesInv, FilesTypes
<1>2. fileSent \in [Uploads -> Nat] /\ fileTotal[u] \in Nat /\ fileGot[u] \in Nat
  BY DEF FilesInv, FilesTypes
<1>3. FilesTypes'
  BY SMTT(30), <1>1, <1>2 DEF FilesInv, FilesTypes
<1>4. \A v \in Uploads \ {u} : FileSame(v)
  BY <1>1, <1>2 DEF FileSame
<1>5. FileKnows(u)'
  BY SMTT(30), <1>1, <1>2 DEF FilesInv, FileKnows
<1> QED
  BY <1>1, <1>3, <1>4, <1>5, FilesStay, FilesMove

\* A frame to the host arrives or is lost.
LEMMA FilesEncode ==
    ASSUME FilesInv, NEW u \in Uploads, NEW type \in FileWords, GuestFiles!Encode(u, type)
    PROVE  /\ fileReply' \in [Uploads -> FileWords] /\ fileReply'[u] \in {fileReply[u], type}
           /\ \A v \in Uploads \ {u} : fileReply'[v] = fileReply[v]
BY DEF FilesInv, FilesTypes, GuestFiles!Encode, GuestFiles!Set

\* The guest's handler takes a request, fails or gives up.
LEMMA FilesHandle ==
    ASSUME FilesInv, NEW u \in Uploads,
           GuestFiles!writeGuestFile(u) \/ GuestFiles!fileFailure(u) \/ GuestFiles!Disconnected(u)
    PROVE  FilesInv'
<1>1. UNCHANGED <<fileTotal, fileSent, fileEnded, fileResult, filePath, fileGot, fileCommitted, fileReader>>
  BY DEF GuestFiles!writeGuestFile, GuestFiles!fileFailure, GuestFiles!Disconnected, GuestFiles!hostVars
<1>2. fileServer[u] \in {"idle", "receiving", "rename"} /\ fileReply[u] # "error" /\ fileResult[u] # "remote"
  BY DEF GuestFiles!writeGuestFile, GuestFiles!fileFailure, GuestFiles!Disconnected, FilesInv, FileKnows
<1>3. /\ fileTemp' \in [Uploads -> Int] /\ fileServer' \in [Uploads -> FileWords] /\ fileReply' \in [Uploads -> FileWords]
      /\ \A v \in Uploads \ {u} : /\ fileTemp'[v] = fileTemp[v] /\ fileServer'[v] = fileServer[v]
                                  /\ fileReply'[v] = fileReply[v]
      /\ \/ /\ fileServer[u] = "idle" /\ fileServer'[u] = "receiving" /\ fileTemp'[u] = 0
            /\ fileReply'[u] \in {fileReply[u], "ready"}
         \/ fileServer'[u] = "done" /\ fileTemp'[u] = -1 /\ fileReply'[u] \in {fileReply[u], "error"}
  <2>0. fileTemp \in [Uploads -> Int] /\ fileServer \in [Uploads -> FileWords] /\ fileReply \in [Uploads -> FileWords]
    BY DEF FilesInv, FilesTypes
  <2>1. CASE GuestFiles!writeGuestFile(u)
    <3>1. /\ fileServer[u] = "idle" /\ fileTemp' = [fileTemp EXCEPT ![u] = 0] /\ GuestFiles!Encode(u, "ready")
          /\ fileServer' = [fileServer EXCEPT ![u] = "receiving"]
      BY <2>1 DEF GuestFiles!writeGuestFile, GuestFiles!Set
    <3> QED
      BY SMTT(30), <2>0, <3>1, FilesEncode DEF FileWords
  <2>2. CASE GuestFiles!fileFailure(u)
    <3>1. /\ fileTemp' = [fileTemp EXCEPT ![u] = -1] /\ GuestFiles!Encode(u, "error")
          /\ fileServer' = [fileServer EXCEPT ![u] = "done"]
      BY <2>2 DEF GuestFiles!fileFailure, GuestFiles!Set
    <3> QED
      BY SMTT(30), <2>0, <3>1, FilesEncode DEF FileWords
  <2>3. CASE GuestFiles!Disconnected(u)
    <3>1. /\ fileTemp' = [fileTemp EXCEPT ![u] = -1] /\ fileReply' = fileReply
          /\ fileServer' = [fileServer EXCEPT ![u] = "done"]
      BY <2>3 DEF GuestFiles!Disconnected, GuestFiles!Set
    <3> QED
      BY SMTT(30), <2>0, <3>1 DEF FileWords
  <2> QED
    BY <2>1, <2>2, <2>3
<1>4. FilesTypes'
  BY <1>1, <1>3 DEF FilesInv, FilesTypes
<1>5. \A v \in Uploads \ {u} : FileSame(v)
  BY <1>1, <1>3 DEF FileSame
<1>6. FileKnows(u) /\ u \notin fileCommitted
  BY <1>2 DEF FilesInv, FileKnows
<1>7. FileKnows(u)'
  BY <1>1, <1>2, <1>3, <1>6 DEF FileKnows
<1> QED
  BY <1>1, <1>4, <1>5, <1>7, FilesStay, FilesMove

\* A chunk arrives, or the end frame behind all of them.
LEMMA FilesReceive ==
    ASSUME FilesInv, NEW u \in Uploads, GuestFiles!fileData(u) \/ GuestFiles!fileEnd(u)
    PROVE  FilesInv'
<1>1. /\ UNCHANGED <<fileTotal, fileSent, fileEnded, fileResult, fileReply, filePath, fileCommitted, fileReader>>
      /\ fileServer[u] = "receiving"
  BY DEF GuestFiles!fileData, GuestFiles!fileEnd, GuestFiles!hostVars
<1>2. /\ fileTemp \in [Uploads -> Int] /\ fileServer \in [Uploads -> FileWords] /\ fileGot \in [Uploads -> Nat]
      /\ fileSent[u] \in Nat
  BY DEF FilesInv, FilesTypes
<1>3. \/ /\ fileGot[u] < fileSent[u] /\ fileServer' = fileServer
         /\ fileGot' = [fileGot EXCEPT ![u] = fileGot[u] + 1] /\ fileTemp' = [fileTemp EXCEPT ![u] = fileTemp[u] + 1]
      \/ /\ fileGot[u] = fileSent[u] /\ u \in fileEnded /\ fileServer' = [fileServer EXCEPT ![u] = "rename"]
         /\ fileGot' = fileGot /\ fileTemp' = fileTemp
  BY DEF GuestFiles!fileData, GuestFiles!fileEnd, GuestFiles!Set
<1>4. FilesTypes'
  BY SMTT(30), <1>1, <1>2, <1>3 DEF FilesInv, FilesTypes, FileWords
<1>5. \A v \in Uploads \ {u} : FileSame(v)
  BY <1>1, <1>2, <1>3 DEF FileSame
<1>6. FileKnows(u)'
  BY SMTT(30), <1>1, <1>2, <1>3 DEF FilesInv, FileKnows
<1> QED
  BY <1>1, <1>4, <1>5, <1>6, FilesStay, FilesMove

\* The rename puts a whole file at the path.
LEMMA FilesRename ==
    ASSUME FilesInv, NEW u \in Uploads, GuestFiles!rename(u)
    PROVE  FilesInv'
<1>1. /\ UNCHANGED <<fileTotal, fileSent, fileEnded, fileResult, fileReply, fileGot, fileReader>>
      /\ fileServer[u] = "rename" /\ filePath' = [by |-> {u}, chunks |-> fileTemp[u]]
      /\ fileTemp' = [fileTemp EXCEPT ![u] = -1] /\ fileServer' = [fileServer EXCEPT ![u] = "reply"]
      /\ fileCommitted' = fileCommitted \cup {u}
  BY DEF GuestFiles!rename, GuestFiles!hostVars, GuestFiles!Set
<1>2. /\ fileTemp \in [Uploads -> Int] /\ fileServer \in [Uploads -> FileWords] /\ fileTemp[u] = fileTotal[u]
  BY <1>1 DEF FilesInv, FilesTypes, FileKnows
<1>3. filePath' \in FileRecords
  BY <1>1, <1>2 DEF FileRecords
<1>4. FilesTypes'
  BY SMTT(30), <1>1, <1>2, <1>3 DEF FilesInv, FilesTypes, FileWords
<1>5. PathIsWhole'
  BY <1>1, <1>2 DEF PathIsWhole, GuestFiles!Whole
<1>6. ReaderIsWhole'
  BY <1>1 DEF FilesInv, ReaderIsWhole, GuestFiles!Whole
<1>7. \A v \in Uploads \ {u} : FileSame(v)
  BY <1>1, <1>2 DEF FileSame
<1>8. FileKnows(u)'
  BY <1>1, <1>2 DEF FilesInv, FileKnows
<1> QED
  BY <1>1, <1>4, <1>5, <1>6, <1>7, <1>8, FilesMove

LEMMA FilesServe ==
    ASSUME FilesInv, NEW u \in Uploads, GuestFiles!serveFile(u)
    PROVE  FilesInv'
<1>1. /\ UNCHANGED <<fileTotal, fileSent, fileEnded, fileResult, filePath, fileTemp, fileGot, fileCommitted, fileReader>>
      /\ fileServer[u] = "reply" /\ fileServer' = [fileServer EXCEPT ![u] = "done"] /\ GuestFiles!Encode(u, "done")
  BY DEF GuestFiles!serveFile, GuestFiles!hostVars, GuestFiles!Set
<1>2. /\ fileReply' \in [Uploads -> FileWords] /\ fileReply'[u] \in {fileReply[u], "done"}
      /\ \A v \in Uploads \ {u} : fileReply'[v] = fileReply[v]
  BY <1>1, FilesEncode DEF FileWords
<1>3. fileServer \in [Uploads -> FileWords]
  BY DEF FilesInv, FilesTypes
<1>4. FilesTypes'
  BY <1>1, <1>2, <1>3 DEF FilesInv, FilesTypes, FileWords
<1>5. \A v \in Uploads \ {u} : FileSame(v)
  BY <1>1, <1>2, <1>3 DEF FileSame
<1>6. FileKnows(u)'
  BY <1>1, <1>2, <1>3 DEF FilesInv, FileKnows
<1> QED
  BY <1>1, <1>4, <1>5, <1>6, FilesStay, FilesMove

\* Unfinished handlers die with the agent, and so does the download.
LEMMA FilesDie ==
    ASSUME FilesInv, GuestFiles!Die
    PROVE  FilesInv'
<1>1. /\ UNCHANGED <<fileTotal, fileSent, fileEnded, fileResult, fileReply, filePath, fileTemp, fileGot, fileCommitted>>
      /\ fileServer' = [u \in Uploads |-> IF fileServer[u] = "done" THEN "done" ELSE "dead"]
      /\ fileReader' = [fileReader EXCEPT !.step = IF @ = "reading" THEN "failed" ELSE @]
  BY DEF GuestFiles!Die, GuestFiles!hostVars
<1>2. /\ fileReader' \in [step : FileWords, file : FileRecords, got : Int] /\ fileReader'.file = fileReader.file
      /\ fileReader'.got = fileReader.got /\ fileReader'.step \in {fileReader.step, "failed"}
  BY <1>1 DEF FilesInv, FilesTypes, FileWords
<1>3. FilesTypes'
  BY <1>1, <1>2 DEF FilesInv, FilesTypes, FileWords
<1>4. PathIsWhole' /\ ReaderIsWhole'
  BY <1>1, <1>2 DEF FilesInv, PathIsWhole, ReaderIsWhole, GuestFiles!Whole
<1>5. ASSUME NEW u \in Uploads
      PROVE  FileKnows(u)'
  BY <1>1 DEF FilesInv, FileKnows
<1> QED
  BY <1>3, <1>4, <1>5 DEF FilesInv

\* Removals and downloads.
LEMMA FilesRead ==
    ASSUME FilesInv,
           GuestFiles!RemoveFile \/ GuestFiles!openGuestEntry \/ GuestFiles!readGuestFile \/ GuestFiles!ReadFile
    PROVE  FilesInv'
<1>1. /\ UNCHANGED <<fileTotal, fileSent, fileEnded, fileResult, fileReply, fileTemp, fileGot, fileServer, fileCommitted>>
      /\ \/ filePath' = GuestFiles!Absent /\ fileReader' = fileReader
         \/ filePath' = filePath /\ fileReader' \in [step : FileWords, file : FileRecords, got : Int]
  <2>0. fileReader \in [step : FileWords, file : FileRecords, got : Int] /\ filePath \in FileRecords
    BY DEF FilesInv, FilesTypes
  <2>1. CASE GuestFiles!RemoveFile
    BY <2>1 DEF GuestFiles!RemoveFile, GuestFiles!hostVars
  <2>2. CASE GuestFiles!openGuestEntry
    BY SMTT(30), <2>0, <2>2 DEF GuestFiles!openGuestEntry, GuestFiles!hostVars, GuestFiles!guestVars, FileWords
  <2>3. CASE GuestFiles!readGuestFile
    BY SMTT(30), <2>0, <2>3 DEF GuestFiles!readGuestFile, GuestFiles!hostVars, GuestFiles!guestVars
  <2>4. CASE GuestFiles!ReadFile
    BY <2>0, <2>4 DEF GuestFiles!ReadFile, GuestFiles!hostVars, GuestFiles!guestVars, FileWords
  <2> QED
    BY <2>1, <2>2, <2>3, <2>4
<1>2. FilesTypes'
  BY SMTT(30), <1>1 DEF FilesInv, FilesTypes, GuestFiles!Absent, FileRecords
<1>3. PathIsWhole'
  BY <1>1 DEF FilesInv, PathIsWhole, GuestFiles!Whole
<1>4. ReaderIsWhole'
  <2>0. fileReader \in [step : FileWords, file : FileRecords, got : Int] /\ filePath \in FileRecords
    BY DEF FilesInv, FilesTypes
  <2>1. CASE GuestFiles!RemoveFile
    BY <1>1, <2>1 DEF GuestFiles!RemoveFile, FilesInv, ReaderIsWhole, GuestFiles!Whole
  <2>2. CASE GuestFiles!openGuestEntry
    BY <1>1, <2>2 DEF GuestFiles!openGuestEntry, FilesInv, PathIsWhole, ReaderIsWhole, GuestFiles!Whole
  <2>3. CASE GuestFiles!readGuestFile
    BY <1>1, <2>0, <2>3 DEF GuestFiles!readGuestFile, FilesInv, ReaderIsWhole, GuestFiles!Whole
  <2>4. CASE GuestFiles!ReadFile
    BY <1>1, <2>0, <2>4 DEF GuestFiles!ReadFile, FilesInv, ReaderIsWhole, GuestFiles!Whole
  <2> QED
    BY <2>1, <2>2, <2>3, <2>4
<1>5. ASSUME NEW u \in Uploads
      PROVE  FileKnows(u)'
  BY <1>1 DEF FilesInv, FileKnows
<1> QED
  BY <1>2, <1>3, <1>4, <1>5 DEF FilesInv

LEMMA FilesNext ==
    ASSUME FilesInv, GuestFiles!Next
    PROVE  FilesInv'
<1>1. ASSUME NEW u \in Uploads,
             \/ GuestFiles!Request(u) \/ GuestFiles!Ready(u) \/ GuestFiles!NotReady(u) \/ GuestFiles!sendFile(u)
             \/ GuestFiles!sendFileFailed(u) \/ GuestFiles!WriteFile(u) \/ GuestFiles!Cancel(u) \/ GuestFiles!Break(u)
      PROVE  FilesInv'
  BY <1>1, FilesHostMoves, FilesSend
<1>2. ASSUME NEW u \in Uploads,
             \/ GuestFiles!writeGuestFile(u) \/ GuestFiles!fileFailure(u) \/ GuestFiles!fileData(u)
             \/ GuestFiles!fileEnd(u) \/ GuestFiles!Disconnected(u) \/ GuestFiles!rename(u) \/ GuestFiles!serveFile(u)
      PROVE  FilesInv'
  BY <1>2, FilesHandle, FilesReceive, FilesRename, FilesServe
<1> QED
  BY <1>1, <1>2, FilesDie, FilesRead DEF GuestFiles!Next

\* The path in the guest names a whole file at all times and results are true,
\* for any number of uploads and chunks (agent writeGuestFile, WriteFile).
THEOREM GuestFilesAreWhole == ServicesSpec => []UploadsAreWhole
<1> DEFINE Inv == focus = "files" => FilesInv
<1>1. ServicesInit => Inv
  BY FilesInitially DEF ServicesInit
<1>2. Inv /\ [ServicesNext]_servicesVars => Inv'
  <2> SUFFICES ASSUME Inv, [ServicesNext]_servicesVars, focus' = "files"
               PROVE  FilesInv'
    OBVIOUS
  <2>1. CASE FilesStep
    BY <2>1, FilesNext DEF FilesStep
  <2>2. CASE LeaseStep \/ PagesStep \/ MetaStep
    BY <2>2 DEF LeaseStep, PagesStep, MetaStep
  <2>3. CASE UNCHANGED servicesVars
    BY <2>3 DEF servicesVars, fileVars, FilesInv, FilesTypes, PathIsWhole, ReaderIsWhole, FileKnows, GuestFiles!Whole
  <2> QED
    BY <2>1, <2>2, <2>3 DEF ServicesNext
<1>3. Inv => UploadsAreWhole
  BY FilesWhole DEF UploadsAreWhole
<1> QED
  BY <1>1, <1>2, <1>3, PTL DEF ServicesSpec

-----------------------------------------------------------------------------
(* E2BLease: a call works on the lease as it is on disk while it holds the  *)
(* file lock; only create writes without it, when there is no lease.        *)

LeaseKinds == {"none", "create", "pause", "timeout", "connect", "kill", "expire"}
LeaseSteps == {"idle", "lock", "read", "hibernate", "restore", "put", "undo", "stop", "remove", "purge", "retry"}
LeaseFiles == [there : BOOLEAN, expires : Nat, auto : BOOLEAN, paused : SUBSET Snapshots, retained : SUBSET Snapshots]
LeaseOps == [kind : LeaseKinds, step : LeaseSteps, policy : LeaseFiles, failed : BOOLEAN]
Working == {"hibernate", "restore", "stop", "remove", "purge"}

LeaseTypes ==
    /\ e2bLease \in LeaseFiles /\ e2bOp \in [Requests -> LeaseOps] /\ e2bNow \in Nat \ {0}
    /\ ~e2bLease.there => e2bLease.expires = 0

LeaseKnows(p) ==
    /\ e2bOp[p].step = "idle" => e2bOp[p].kind = "none"
    /\ e2bOp[p].kind = "create" => e2bOp[p].step \in {"put", "undo"}
    /\ e2bOp[p].step = "undo" => e2bOp[p].kind = "create"
    /\ e2bOp[p].step = "read" => /\ e2bLock = {p}
                                 /\ e2bOp[p].policy = e2bLease \/ ~e2bOp[p].policy.there
    /\ e2bOp[p].step \in Working => e2bLock = {p} /\ e2bOp[p].policy = e2bLease /\ e2bLease.there
    /\ e2bOp[p].step = "purge" => e2bSandbox = "none"
    /\ e2bOp[p].step = "put" => /\ e2bOp[p].policy.there
                                /\ IF e2bOp[p].kind = "create" THEN ~e2bLease.there /\ e2bOp[p].policy.paused = {}
                                   ELSE e2bLock = {p} /\ e2bLease.there /\ e2bOp[p].policy.paused \subseteq e2bSnaps
    /\ e2bOp[p].kind = "expire" /\ e2bOp[p].step \in Working => e2bLease.expires # 0 /\ e2bLease.expires <= e2bNow

OneCreates == \A p, q \in Requests : e2bOp[p].kind = "create" /\ e2bOp[q].kind = "create" => p = q

\* A callback that will see the deadline on disk.
Due(p) == e2bOp[p].kind = "expire" /\ (e2bOp[p].step \in {"lock", "retry", "put"} \/ e2bOp[p].policy = e2bLease)
LeaseScheduled == e2bUp /\ e2bLease.expires # 0 /\ ~e2bStray => e2bTimer # 0 \/ \E p \in Requests : Due(p)

LeaseInv ==
    /\ LeaseTypes /\ OneCreates /\ LeaseScheduled /\ Lease!PausedIsResumable
    /\ \A p \in Requests : LeaseKnows(p)

LEMMA LeaseKept == ASSUME LeaseInv PROVE Lease!LeaseIsKept
<1>1. Lease!ExpiryRespectsDeadline
  BY DEF LeaseInv, LeaseKnows, Lease!ExpiryRespectsDeadline, Working
<1>2. Lease!ExpiryIsScheduled
  BY DEF LeaseInv, LeaseScheduled, LeaseKnows, Due, Lease!ExpiryIsScheduled, Lease!At
<1> QED
  BY <1>1, <1>2 DEF LeaseInv, Lease!LeaseIsKept

LEMMA LeaseValues ==
    /\ Lease!NoLease \in LeaseFiles /\ Lease!NoLease.there = FALSE /\ Lease!NoLease.expires = 0
    /\ Lease!NoLease.paused = {}
    /\ Lease!Idle \in LeaseOps /\ Lease!Idle.kind = "none" /\ Lease!Idle.step = "idle"
<1>1. /\ Lease!NoLease \in LeaseFiles /\ Lease!NoLease.there = FALSE /\ Lease!NoLease.expires = 0
      /\ Lease!NoLease.paused = {}
  BY DEF Lease!NoLease, LeaseFiles
<1>2. Lease!Idle \in LeaseOps /\ Lease!Idle.kind = "none" /\ Lease!Idle.step = "idle"
  BY <1>1 DEF Lease!Idle, LeaseOps, LeaseKinds, LeaseSteps
<1> QED
  BY <1>1, <1>2

LEMMA LeaseInitially == ASSUME Lease!Init PROVE LeaseInv
<1>1. /\ e2bLease = Lease!NoLease /\ e2bOp = [p \in Requests |-> Lease!Idle] /\ e2bNow = 1
  BY DEF Lease!Init
<1>2. LeaseTypes
  BY SMTT(30), <1>1, LeaseValues DEF LeaseTypes
<1>3. OneCreates
  BY <1>1, LeaseValues DEF OneCreates
<1>4. LeaseScheduled /\ Lease!PausedIsResumable
  BY <1>1, LeaseValues DEF LeaseScheduled, Lease!PausedIsResumable
<1>5. ASSUME NEW p \in Requests
      PROVE  LeaseKnows(p)
  <2>1. e2bOp[p].step = "idle" /\ e2bOp[p].kind = "none"
    BY <1>1, LeaseValues
  <2> QED
    BY <2>1 DEF LeaseKnows, Working
<1> QED
  BY <1>2, <1>3, <1>4, <1>5 DEF LeaseInv

\* A step of p leaves the others what they know: it holds the lock of a lease
\* that is there, or creates, or leaves the lease alone.
LEMMA LeaseOthers ==
    ASSUME LeaseInv, NEW p \in Requests, NEW o \in LeaseOps, e2bOp' = [e2bOp EXCEPT ![p] = o], UNCHANGED e2bNow,
           e2bLock' = e2bLock \/ e2bLock' = e2bLock \ {p} \/ e2bLock = {},
           \/ e2bLock = {p} /\ e2bLease.there
           \/ /\ ~e2bLease.there /\ UNCHANGED e2bSnaps
              /\ \A q \in Requests \ {p} : e2bOp[q].kind # "create"
           \/ /\ e2bLease' = e2bLease /\ e2bSnaps \subseteq e2bSnaps'
              /\ e2bSandbox' = e2bSandbox \/ e2bSandbox' = "none",
           NEW q \in Requests \ {p}
    PROVE  LeaseKnows(q)'
<1>1. e2bOp'[q] = e2bOp[q] /\ LeaseKnows(q)
  BY DEF LeaseInv, LeaseTypes
<1>2. e2bLock = {q} => e2bLock' = {q}
  OBVIOUS
<1>3. CASE e2bLock = {p} /\ e2bLease.there
  <2>1. /\ e2bOp[q].step \notin Working \cup {"read", "put"} /\ (e2bOp[q].step = "idle" => e2bOp[q].kind = "none")
        /\ (e2bOp[q].kind = "create" => e2bOp[q].step = "undo") /\ (e2bOp[q].step = "undo" => e2bOp[q].kind = "create")
    <3>1. e2bLock # {q}
      BY <1>3
    <3> QED
      BY <1>1, <1>3, <3>1 DEF LeaseKnows
  <2> QED
    BY <1>1, <2>1 DEF LeaseKnows, Working
<1>4. CASE ~e2bLease.there /\ e2bOp[q].kind # "create" /\ UNCHANGED e2bSnaps
  BY <1>1, <1>2, <1>4 DEF LeaseKnows, Working
<1>5. CASE /\ e2bLease' = e2bLease /\ e2bSnaps \subseteq e2bSnaps'
           /\ e2bSandbox' = e2bSandbox \/ e2bSandbox' = "none"
  <2>1. e2bOp[q].step # "purge" \/ e2bSandbox' = "none"
    BY <1>1, <1>5 DEF LeaseKnows
  <2> QED
    BY <1>1, <1>2, <1>5, <2>1 DEF LeaseKnows, Working
<1> QED
  BY <1>3, <1>4, <1>5

\* A step of p, when p itself, the schedule and the snapshots are in order.
LEMMA LeaseMoves ==
    ASSUME LeaseInv, NEW p \in Requests, NEW o \in LeaseOps, e2bOp' = [e2bOp EXCEPT ![p] = o], UNCHANGED e2bNow,
           e2bLock' = e2bLock \/ e2bLock' = e2bLock \ {p} \/ e2bLock = {},
           \/ e2bLock = {p} /\ e2bLease.there
           \/ /\ ~e2bLease.there /\ UNCHANGED e2bSnaps
              /\ \A q \in Requests \ {p} : e2bOp[q].kind # "create"
           \/ /\ e2bLease' = e2bLease /\ e2bSnaps \subseteq e2bSnaps'
              /\ e2bSandbox' = e2bSandbox \/ e2bSandbox' = "none",
           e2bLease' \in LeaseFiles, ~e2bLease'.there => e2bLease'.expires = 0,
           o.kind = "create" => e2bOp[p].kind = "create" \/ \A q \in Requests : e2bOp[q].kind # "create",
           LeaseScheduled', Lease!PausedIsResumable', LeaseKnows(p)'
    PROVE  LeaseInv'
<1>1. e2bOp' \in [Requests -> LeaseOps] /\ e2bOp'[p] = o /\ \A q \in Requests \ {p} : e2bOp'[q] = e2bOp[q]
  BY DEF LeaseInv, LeaseTypes
<1>2. LeaseTypes'
  BY <1>1 DEF LeaseInv, LeaseTypes
<1>3. OneCreates'
  BY <1>1 DEF LeaseInv, OneCreates
<1>4. \A q \in Requests \ {p} : LeaseKnows(q)'
  BY LeaseOthers
<1> QED
  BY <1>2, <1>3, <1>4 DEF LeaseInv

\* A step of p that leaves everything but its own operation and the lock.
LEMMA LeaseQuiet ==
    ASSUME LeaseInv, NEW p \in Requests, NEW o \in LeaseOps, e2bOp' = [e2bOp EXCEPT ![p] = o],
           UNCHANGED <<e2bLease, e2bSandbox, e2bSnaps, e2bTimer, e2bUp, e2bStray, e2bNow>>,
           e2bLock' = e2bLock \/ e2bLock' = e2bLock \ {p} \/ e2bLock = {},
           o.kind = "create" => e2bOp[p].kind = "create",
           Due(p) => Due(p)', LeaseKnows(p)'
    PROVE  LeaseInv'
<1>1. \A q \in Requests \ {p} : e2bOp'[q] = e2bOp[q]
  BY DEF LeaseInv, LeaseTypes
<1>2. \A q \in Requests : Due(q) => Due(q)'
  BY <1>1 DEF Due
<1>3. LeaseScheduled'
  BY <1>2 DEF LeaseInv, LeaseScheduled
<1>4. Lease!PausedIsResumable'
  BY DEF LeaseInv, Lease!PausedIsResumable
<1>5. e2bLease' \in LeaseFiles /\ (~e2bLease'.there => e2bLease'.expires = 0)
  BY DEF LeaseInv, LeaseTypes
<1> QED
  BY <1>3, <1>4, <1>5, LeaseMoves

\* Leave ends a call or sends a failed callback to its retry.
LEMMA LeaseLeave ==
    ASSUME LeaseInv, NEW p \in Requests, NEW failed \in BOOLEAN, Lease!Leave(p, failed)
    PROVE  /\ e2bLock' = e2bLock \ {p} /\ LeaseKnows(p)'
           /\ \E o \in LeaseOps : e2bOp' = [e2bOp EXCEPT ![p] = o] /\ o.kind # "create"
           /\ failed /\ e2bOp[p].kind = "expire" => Due(p)'
<1> DEFINE retry == [Lease!Idle EXCEPT !.kind = "expire", !.step = "retry"]
           o == IF failed /\ e2bOp[p].kind = "expire" THEN retry ELSE Lease!Idle
<1>1. retry \in LeaseOps /\ retry.kind = "expire" /\ retry.step = "retry"
  BY LeaseValues DEF LeaseOps, LeaseKinds, LeaseSteps
<1>2. e2bLock' = e2bLock \ {p} /\ e2bOp' = [e2bOp EXCEPT ![p] = o]
  BY DEF Lease!Leave
<1> HIDE DEF retry
<1>3. /\ o \in LeaseOps
      /\ (o.kind = "none" /\ o.step = "idle") \/ (o.kind = "expire" /\ o.step = "retry")
      /\ failed /\ e2bOp[p].kind = "expire" => o.kind = "expire" /\ o.step = "retry"
  BY <1>1, LeaseValues
<1> HIDE DEF o
<1>4. e2bOp'[p] = o
  BY <1>2 DEF LeaseInv, LeaseTypes
<1>5. LeaseKnows(p)'
  BY <1>3, <1>4 DEF LeaseKnows, Working
<1>6. failed /\ e2bOp[p].kind = "expire" => Due(p)'
  BY <1>3, <1>4 DEF Due
<1>7. o \in LeaseOps /\ o.kind # "create"
  BY <1>3
<1> QED
  BY <1>2, <1>5, <1>6, <1>7

\* A call ends without having changed anything.
LEMMA LeaseGivesUp ==
    ASSUME LeaseInv, NEW p \in Requests, NEW failed \in BOOLEAN, Lease!Leave(p, failed),
           UNCHANGED <<e2bLease, e2bSandbox, e2bSnaps, e2bTimer, e2bUp, e2bStray, e2bNow>>,
           failed \/ ~Due(p)
    PROVE  LeaseInv'
<1>1. PICK o \in LeaseOps : e2bOp' = [e2bOp EXCEPT ![p] = o] /\ o.kind # "create"
  BY LeaseLeave
<1>2. Due(p) => Due(p)'
  BY LeaseLeave DEF Due
<1> QED
  BY <1>1, <1>2, LeaseLeave, LeaseQuiet

\* Goto
LEMMA LeaseGoto ==
    ASSUME LeaseInv, NEW p \in Requests, NEW step \in LeaseSteps, Lease!Goto(p, step)
    PROVE  \E o \in LeaseOps :
              /\ e2bOp' = [e2bOp EXCEPT ![p] = o] /\ e2bOp'[p] = o
              /\ o.kind = e2bOp[p].kind /\ o.step = step /\ o.policy = e2bOp[p].policy /\ o.failed = e2bOp[p].failed
<1> DEFINE o == [e2bOp[p] EXCEPT !.step = step]
<1>1. e2bOp \in [Requests -> LeaseOps] /\ e2bOp[p] \in LeaseOps
  BY DEF LeaseInv, LeaseTypes
<1>2. /\ o \in LeaseOps /\ o.kind = e2bOp[p].kind /\ o.step = step /\ o.policy = e2bOp[p].policy
      /\ o.failed = e2bOp[p].failed
  BY <1>1 DEF LeaseOps
<1>3. e2bOp' = [e2bOp EXCEPT ![p] = o] /\ e2bOp'[p] = o
  BY <1>1 DEF Lease!Goto
<1> HIDE DEF o
<1> QED
  BY <1>2, <1>3

\* A call that has read a lease goes to work on it.
LEMMA LeaseWorks ==
    ASSUME LeaseInv, NEW p \in Requests, e2bOp[p].step = "read", e2bOp[p].policy.there,
           NEW step \in Working, Lease!Goto(p, step),
           UNCHANGED <<e2bLease, e2bSandbox, e2bSnaps, e2bTimer, e2bLock, e2bUp, e2bStray, e2bNow>>,
           step = "purge" => e2bSandbox = "none",
           e2bOp[p].kind = "expire" => e2bOp[p].policy.expires # 0 /\ e2bOp[p].policy.expires <= e2bNow
    PROVE  LeaseInv'
<1>1. PICK o \in LeaseOps : /\ e2bOp' = [e2bOp EXCEPT ![p] = o] /\ e2bOp'[p] = o
                            /\ o.kind = e2bOp[p].kind /\ o.step = step /\ o.policy = e2bOp[p].policy
  BY SMTT(30), LeaseGoto DEF Working, LeaseSteps
<1>2. e2bLock = {p} /\ e2bOp[p].policy = e2bLease /\ e2bOp[p].kind # "create"
  BY DEF LeaseInv, LeaseKnows
<1>3. LeaseKnows(p)'
  BY <1>1, <1>2 DEF LeaseKnows, Working
<1>4. Due(p)' <=> Due(p)
  BY <1>1 DEF Due, Working
<1> QED
  BY <1>1, <1>2, <1>3, <1>4, LeaseQuiet

\* create starts where there is neither a sandbox nor a lease.
LEMMA LeaseCreate ==
    ASSUME LeaseInv, NEW p \in Requests, NEW auto \in BOOLEAN, Lease!create(p, auto)
    PROVE  LeaseInv'
<1>1. /\ ~e2bLease.there /\ \A q \in Requests : e2bOp[q].kind # "create"
      /\ UNCHANGED <<e2bLease, e2bSnaps, e2bTimer, e2bLock, e2bUp, e2bStray, e2bNow>>
  BY DEF Lease!create
<1>2. PICK t \in Lease!Deadlines :
         e2bOp' = [e2bOp EXCEPT ![p] = [kind |-> "create", step |-> "put", failed |-> FALSE,
                      policy |-> [Lease!NoLease EXCEPT !.there = TRUE, !.expires = t, !.auto = auto]]]
  BY DEF Lease!create
<1> DEFINE f == [Lease!NoLease EXCEPT !.there = TRUE, !.expires = t, !.auto = auto]
           o == [kind |-> "create", step |-> "put", failed |-> FALSE, policy |-> f]
<1>3. t \in Nat
  BY SMTT(30), ServicesAssumption DEF Lease!Deadlines, Lease!Times
<1>4. f \in LeaseFiles /\ f.there /\ f.paused = {}
  BY <1>3, LeaseValues DEF LeaseFiles
<1> HIDE DEF f
<1>5. o \in LeaseOps /\ o.kind = "create" /\ o.step = "put" /\ o.policy = f
  BY <1>4 DEF LeaseOps, LeaseKinds, LeaseSteps
<1>6. e2bOp' = [e2bOp EXCEPT ![p] = o] /\ e2bOp'[p] = o
  BY <1>2 DEF f, LeaseInv, LeaseTypes
<1> HIDE DEF o
<1>7. LeaseKnows(p)'
  BY <1>1, <1>4, <1>5, <1>6 DEF LeaseKnows, Working
<1>8. LeaseScheduled' /\ Lease!PausedIsResumable'
  BY <1>1 DEF LeaseInv, LeaseTypes, LeaseScheduled, Lease!PausedIsResumable
<1>9. e2bLease' \in LeaseFiles /\ (~e2bLease'.there => e2bLease'.expires = 0)
  BY <1>1 DEF LeaseInv, LeaseTypes
<1> QED
  BY <1>1, <1>5, <1>6, <1>7, <1>8, <1>9, LeaseMoves

\* The undo of a create removes the sandbox, or leaves it as it is or stopped.
LEMMA LeaseUndo ==
    ASSUME LeaseInv, NEW p \in Requests, Lease!createUndo(p) \/ Lease!createUndoFailed(p)
    PROVE  LeaseInv'
<1>1. /\ Lease!Leave(p, TRUE) /\ e2bOp[p].step = "undo"
      /\ UNCHANGED <<e2bLease, e2bSnaps, e2bTimer, e2bUp, e2bStray, e2bNow>>
      /\ e2bSandbox' \in {e2bSandbox, "none"} \/ (e2bSandbox = "running" /\ e2bSandbox' = "stopped")
  BY DEF Lease!createUndo, Lease!createUndoFailed, Lease!At
<1>2. PICK o \in LeaseOps : e2bOp' = [e2bOp EXCEPT ![p] = o] /\ o.kind # "create"
  BY <1>1, LeaseLeave
<1>3. e2bOp[p].kind = "create" /\ \A q \in Requests \ {p} : e2bOp'[q] = e2bOp[q]
  BY <1>1, <1>2 DEF LeaseInv, LeaseKnows, LeaseTypes
<1>4. LeaseScheduled'
  BY <1>1, <1>3 DEF LeaseInv, LeaseScheduled, Due
<1>5. Lease!PausedIsResumable'
  BY <1>1 DEF LeaseInv, Lease!PausedIsResumable
<1>6. e2bLease' \in LeaseFiles /\ (~e2bLease'.there => e2bLease'.expires = 0)
  BY <1>1 DEF LeaseInv, LeaseTypes
<1>7. e2bLock' = e2bLock \ {p} /\ LeaseKnows(p)'
  BY <1>1, LeaseLeave
<1>8. CASE e2bSandbox' \in {e2bSandbox, "none"}
  BY <1>1, <1>2, <1>4, <1>5, <1>6, <1>7, <1>8, LeaseMoves
<1>9. CASE e2bSandbox = "running" /\ e2bSandbox' = "stopped"
  <2>1. ASSUME NEW q \in Requests \ {p}
        PROVE  LeaseKnows(q)'
    <3>1. LeaseKnows(q) /\ e2bOp'[q] = e2bOp[q] /\ (e2bLock = {q} => e2bLock' = {q})
      BY <1>3, <1>7 DEF LeaseInv
    <3>2. e2bOp[q].step # "purge"
      BY <1>9, <3>1 DEF LeaseKnows
    <3> QED
      BY <1>1, <3>1, <3>2 DEF LeaseKnows
  <2>2. e2bOp' \in [Requests -> LeaseOps] /\ OneCreates'
    BY <1>2 DEF LeaseInv, LeaseTypes, OneCreates
  <2> QED
    BY <1>1, <1>4, <1>5, <1>6, <1>7, <2>1, <2>2 DEF LeaseInv, LeaseTypes
<1> QED
  BY <1>1, <1>8, <1>9

\* The calls up to the point where they have read the lease.
LEMMA LeaseCall ==
    ASSUME LeaseInv, NEW p \in Requests, NEW kind, Lease!Call(p, kind)
    PROVE  LeaseInv'
<1> DEFINE o == [Lease!Idle EXCEPT !.kind = kind, !.step = "lock"]
<1>1. /\ kind \in {"pause", "timeout", "connect", "kill"} /\ e2bOp[p].step = "idle" /\ e2bOp' = [e2bOp EXCEPT ![p] = o]
      /\ UNCHANGED <<e2bLease, e2bSandbox, e2bSnaps, e2bTimer, e2bLock, e2bUp, e2bStray, e2bNow>>
  BY DEF Lease!Call, Lease!At
<1>2. o \in LeaseOps /\ o.kind = kind /\ o.step = "lock"
  BY <1>1, LeaseValues DEF LeaseOps, LeaseKinds, LeaseSteps
<1> HIDE DEF o
<1>3. e2bOp'[p] = o
  BY <1>1 DEF LeaseInv, LeaseTypes
<1>4. LeaseKnows(p)'
  BY <1>1, <1>2, <1>3 DEF LeaseKnows, Working
<1>5. ~Due(p)
  BY <1>1 DEF LeaseInv, LeaseKnows, Due
<1> QED
  BY <1>1, <1>2, <1>4, <1>5, LeaseQuiet

LEMMA LeaseFire ==
    ASSUME LeaseInv, NEW p \in Requests, Lease!Fire(p)
    PROVE  LeaseInv'
<1> DEFINE o == [Lease!Idle EXCEPT !.kind = "expire", !.step = "lock"]
<1>1. /\ e2bOp' = [e2bOp EXCEPT ![p] = o]
      /\ UNCHANGED <<e2bLease, e2bSandbox, e2bSnaps, e2bLock, e2bUp, e2bStray, e2bNow>>
  BY DEF Lease!Fire
<1>2. o \in LeaseOps /\ o.kind = "expire" /\ o.step = "lock"
  BY LeaseValues DEF LeaseOps, LeaseKinds, LeaseSteps
<1> HIDE DEF o
<1>3. e2bOp'[p] = o
  BY <1>1 DEF LeaseInv, LeaseTypes
<1>4. LeaseKnows(p)'
  BY <1>2, <1>3 DEF LeaseKnows, Working
<1>5. LeaseScheduled'
  BY <1>2, <1>3 DEF LeaseScheduled, Due
<1>6. Lease!PausedIsResumable'
  BY <1>1 DEF LeaseInv, Lease!PausedIsResumable
<1>7. e2bLease' \in LeaseFiles /\ (~e2bLease'.there => e2bLease'.expires = 0)
  BY <1>1 DEF LeaseInv, LeaseTypes
<1> QED
  BY <1>1, <1>2, <1>4, <1>5, <1>6, <1>7, LeaseMoves

LEMMA LeaseLock ==
    ASSUME LeaseInv, NEW p \in Requests, Lease!Lock(p)
    PROVE  LeaseInv'
<1> DEFINE o == [e2bOp[p] EXCEPT !.step = "read", !.policy = e2bLease]
<1>1. /\ e2bOp[p].step = "lock" /\ e2bLock = {} /\ e2bLock' = {p}
      /\ UNCHANGED <<e2bLease, e2bSandbox, e2bSnaps, e2bTimer, e2bUp, e2bStray, e2bNow>>
  BY DEF Lease!Lock, Lease!At
<1>2. e2bOp \in [Requests -> LeaseOps] /\ e2bOp[p] \in LeaseOps /\ e2bLease \in LeaseFiles
  BY DEF LeaseInv, LeaseTypes
<1>3. o \in LeaseOps /\ o.kind = e2bOp[p].kind /\ o.step = "read" /\ o.policy = e2bLease
  BY <1>2 DEF LeaseOps, LeaseSteps
<1>4. e2bOp' = [e2bOp EXCEPT ![p] = o] /\ e2bOp'[p] = o
  BY <1>2 DEF Lease!Lock
<1> HIDE DEF o
<1>5. e2bOp[p].kind # "create"
  BY <1>1 DEF LeaseInv, LeaseKnows
<1>6. LeaseKnows(p)'
  BY <1>1, <1>3, <1>4, <1>5 DEF LeaseKnows, Working
<1>7. Due(p) => Due(p)'
  BY <1>1, <1>3, <1>4 DEF Due
<1> QED
  BY <1>1, <1>3, <1>4, <1>5, <1>6, <1>7, LeaseQuiet

LEMMA LeasePause ==
    ASSUME LeaseInv, NEW p \in Requests, Lease!LockFailed(p) \/ Lease!pause(p) \/ Lease!killSandbox(p)
    PROVE  LeaseInv'
<1>1. CASE Lease!LockFailed(p)
  BY <1>1, LeaseGivesUp DEF Lease!LockFailed
<1>2. CASE Lease!pause(p)
  <2>1. CASE Lease!Leave(p, TRUE)
    BY <1>2, <2>1, LeaseGivesUp DEF Lease!pause
  <2>2. CASE e2bOp[p].policy.there /\ Lease!Goto(p, "hibernate") /\ UNCHANGED e2bLock
    BY <1>2, <2>2, LeaseWorks DEF Lease!pause, Lease!At, Working
  <2> QED
    BY <1>2, <2>1, <2>2 DEF Lease!pause
<1>3. CASE Lease!killSandbox(p)
  <2>1. CASE Lease!Leave(p, TRUE)
    BY <1>3, <2>1, LeaseGivesUp DEF Lease!killSandbox
  <2>2. CASE e2bOp[p].policy.there
    <3> DEFINE next == CASE e2bSandbox = "none" -> "purge" [] e2bSandbox = "running" -> "stop" [] OTHER -> "remove"
    <3>1. next \in Working /\ (next = "purge" => e2bSandbox = "none")
      BY DEF Working
    <3>2. /\ Lease!Goto(p, next) /\ UNCHANGED e2bLock /\ e2bOp[p].step = "read" /\ e2bOp[p].kind = "kill"
          /\ UNCHANGED <<e2bLease, e2bSandbox, e2bSnaps, e2bTimer, e2bUp, e2bStray, e2bNow>>
      BY <1>3, <2>2 DEF Lease!killSandbox, Lease!At
    <3> HIDE DEF next
    <3> QED
      BY <2>2, <3>1, <3>2, LeaseWorks
  <2> QED
    BY <1>3, <2>1, <2>2 DEF Lease!killSandbox
<1> QED
  BY <1>1, <1>2, <1>3

\* The callback looks at the durable deadline.
LEMMA LeaseExpire ==
    ASSUME LeaseInv, NEW p \in Requests, Lease!expireLocked(p)
    PROVE  LeaseInv'
<1> DEFINE f == e2bOp[p].policy
<1>1. /\ e2bOp[p].step = "read" /\ e2bOp[p].kind = "expire"
      /\ UNCHANGED <<e2bLease, e2bSandbox, e2bSnaps, e2bUp, e2bStray, e2bNow>>
  BY DEF Lease!expireLocked, Lease!At
<1>2. /\ f \in LeaseFiles /\ f.expires \in Nat /\ e2bNow \in Nat /\ e2bLease \in LeaseFiles
      /\ ~e2bLease.there => e2bLease.expires = 0
      /\ f = e2bLease \/ ~f.there
  BY <1>1 DEF LeaseInv, LeaseTypes, LeaseKnows, LeaseOps, LeaseFiles
<1>3. CASE ~f.there \/ f.expires = 0
  <2>0. ~(f.there /\ f.expires > e2bNow)
    <3>1. f.expires = 0 => ~(f.expires > e2bNow)
      BY SMTT(30), <1>2
    <3> QED
      BY <1>3, <3>1
  <2>1. Lease!Leave(p, FALSE) /\ UNCHANGED e2bTimer
    BY <1>3, <2>0 DEF Lease!expireLocked
  <2>2. CASE e2bLease.expires # 0
    <3>1. f # e2bLease
      BY <1>2, <1>3, <2>2
    <3> QED
      BY <1>1, <2>1, <3>1, LeaseGivesUp DEF Due
  <2>3. CASE e2bLease.expires = 0
    <3>1. PICK o \in LeaseOps : e2bOp' = [e2bOp EXCEPT ![p] = o] /\ o.kind # "create"
      BY <2>1, LeaseLeave
    <3>2. e2bLock' = e2bLock \ {p} /\ LeaseKnows(p)'
      BY <2>1, LeaseLeave
    <3>3. LeaseScheduled' /\ Lease!PausedIsResumable'
      BY <1>1, <2>3 DEF LeaseInv, LeaseScheduled, Lease!PausedIsResumable
    <3> QED
      BY <1>1, <1>2, <3>1, <3>2, <3>3, LeaseMoves
  <2> QED
    BY <2>2, <2>3
<1>4. CASE f.there /\ f.expires # 0 /\ f.expires > e2bNow
  <2>1. Lease!Leave(p, FALSE) /\ e2bTimer' = f.expires
    BY <1>4 DEF Lease!expireLocked
  <2>2. PICK o \in LeaseOps : e2bOp' = [e2bOp EXCEPT ![p] = o] /\ o.kind # "create"
    BY <2>1, LeaseLeave
  <2>3. e2bLock' = e2bLock \ {p} /\ LeaseKnows(p)'
    BY <2>1, LeaseLeave
  <2>4. LeaseScheduled' /\ Lease!PausedIsResumable'
    BY <1>1, <1>4, <2>1 DEF LeaseInv, LeaseScheduled, Lease!PausedIsResumable
  <2> QED
    BY <1>1, <1>2, <2>2, <2>3, <2>4, LeaseMoves
<1>5. CASE f.there /\ f.expires # 0 /\ f.expires <= e2bNow
  <2> DEFINE next == CASE e2bSandbox = "none" -> "purge"
                       [] e2bSandbox = "running" -> IF e2bOp[p].policy.auto THEN "hibernate" ELSE "stop"
                       [] OTHER -> "remove"
  <2>1. next \in Working /\ (next = "purge" => e2bSandbox = "none")
    BY DEF Working
  <2>2. ~(f.expires > e2bNow)
    BY SMTT(30), <1>2, <1>5
  <2>3. Lease!Goto(p, next) /\ UNCHANGED <<e2bLock, e2bTimer>>
    BY <1>5, <2>2 DEF Lease!expireLocked
  <2> HIDE DEF next
  <2> QED
    BY <1>1, <1>5, <2>1, <2>3, LeaseWorks
<1> QED
  BY SMTT(30), <1>2, <1>3, <1>4, <1>5

LEMMA LeaseRetry ==
    ASSUME LeaseInv, NEW p \in Requests, Lease!expireRetry(p)
    PROVE  LeaseInv'
<1>1. /\ e2bOp' = [e2bOp EXCEPT ![p] = Lease!Idle] /\ e2bTimer' \in {e2bNow, e2bNow + 1}
      /\ UNCHANGED <<e2bLease, e2bSandbox, e2bSnaps, e2bLock, e2bUp, e2bStray, e2bNow>>
  BY DEF Lease!expireRetry
<1>2. e2bTimer' # 0
  BY SMTT(30), <1>1 DEF LeaseInv, LeaseTypes
<1>3. e2bOp'[p].step = "idle" /\ e2bOp'[p].kind = "none"
  BY <1>1, LeaseValues DEF LeaseInv, LeaseTypes
<1>4. LeaseKnows(p)'
  BY <1>3 DEF LeaseKnows, Working
<1>5. LeaseScheduled' /\ Lease!PausedIsResumable'
  BY <1>1, <1>2 DEF LeaseInv, LeaseScheduled, Lease!PausedIsResumable
<1>6. e2bLease' \in LeaseFiles /\ (~e2bLease'.there => e2bLease'.expires = 0)
  BY <1>1 DEF LeaseInv, LeaseTypes
<1> QED
  BY <1>1, <1>4, <1>5, <1>6, LeaseValues, LeaseMoves

\* What a call will put: a new deadline, and perhaps no pause snapshot.
RenewTo(f, t) == [f EXCEPT !.step = "put", !.policy.expires = t]
ResumeTo(f, t) == [f EXCEPT !.step = "put", !.policy.paused = {}, !.policy.expires = IF @ < t THEN t ELSE @]

LEMMA LeaseRenewal ==
    ASSUME NEW f \in LeaseOps, NEW t \in Nat
    PROVE  /\ RenewTo(f, t) \in LeaseOps /\ RenewTo(f, t).kind = f.kind /\ RenewTo(f, t).step = "put"
           /\ RenewTo(f, t).policy.there = f.policy.there /\ RenewTo(f, t).policy.paused = f.policy.paused
<1>1. f.policy \in LeaseFiles /\ [f.policy EXCEPT !.expires = t] \in LeaseFiles
  BY DEF LeaseOps, LeaseFiles
<1> QED
  BY <1>1 DEF RenewTo, LeaseOps, LeaseSteps, LeaseFiles

LEMMA LeaseResumption ==
    ASSUME NEW f \in LeaseOps, NEW t \in Nat
    PROVE  /\ ResumeTo(f, t) \in LeaseOps /\ ResumeTo(f, t).kind = f.kind /\ ResumeTo(f, t).step = "put"
           /\ ResumeTo(f, t).policy.there = f.policy.there /\ ResumeTo(f, t).policy.paused = {}
<1> DEFINE u == IF f.policy.expires < t THEN t ELSE f.policy.expires
<1>1. f.policy \in LeaseFiles /\ u \in Nat
  BY DEF LeaseOps, LeaseFiles
<1> DEFINE g == [f.policy EXCEPT !.paused = {}, !.expires = u]
<1>2. ResumeTo(f, t) = [f EXCEPT !.step = "put", !.policy = g]
  BY <1>1 DEF ResumeTo, LeaseOps, LeaseFiles
<1> HIDE DEF u
<1>3. g \in LeaseFiles /\ g.there = f.policy.there /\ g.paused = {}
  BY <1>1 DEF LeaseFiles
<1> HIDE DEF g
<1> QED
  BY <1>2, <1>3 DEF LeaseOps, LeaseSteps

\* A call that has read the lease will renew it.
LEMMA LeaseRenews ==
    ASSUME LeaseInv, NEW p \in Requests, e2bOp[p].step = "read", e2bOp[p].policy.there,
           e2bOp[p].kind \in {"timeout", "connect"}, NEW o \in LeaseOps, e2bOp' = [e2bOp EXCEPT ![p] = o],
           o.kind = e2bOp[p].kind, o.step = "put", o.policy.there, o.policy.paused = {},
           UNCHANGED <<e2bLease, e2bSandbox, e2bSnaps, e2bTimer, e2bLock, e2bUp, e2bStray, e2bNow>>
    PROVE  LeaseInv'
<1>1. e2bOp'[p] = o
  BY DEF LeaseInv, LeaseTypes
<1>2. e2bLock = {p} /\ e2bLease.there
  BY DEF LeaseInv, LeaseKnows
<1>3. LeaseKnows(p)'
  BY <1>1, <1>2 DEF LeaseKnows, Working
<1>4. ~Due(p)
  BY DEF Due
<1> QED
  BY <1>3, <1>4, LeaseQuiet

LEMMA LeaseTimeout ==
    ASSUME LeaseInv, NEW p \in Requests, Lease!setTimeout(p)
    PROVE  LeaseInv'
<1>1. /\ e2bOp[p].step = "read" /\ e2bOp[p].kind = "timeout"
      /\ UNCHANGED <<e2bLease, e2bSandbox, e2bSnaps, e2bTimer, e2bUp, e2bStray, e2bNow>>
  BY DEF Lease!setTimeout, Lease!At
<1>2. e2bOp \in [Requests -> LeaseOps] /\ e2bOp[p] \in LeaseOps
  BY DEF LeaseInv, LeaseTypes
<1>3. CASE e2bOp[p].policy.there /\ e2bOp[p].policy.paused = {}
  <2>1. PICK t \in Lease!Deadlines :
           e2bOp' = [e2bOp EXCEPT ![p].step = "put", ![p].policy.expires = t] /\ UNCHANGED e2bLock
    BY <1>3 DEF Lease!setTimeout
  <2> DEFINE o == RenewTo(e2bOp[p], t)
  <2>2. e2bOp' = [e2bOp EXCEPT ![p] = o]
    BY <1>2, <2>1 DEF RenewTo
  <2>3. t \in Nat
    BY SMTT(30), ServicesAssumption DEF Lease!Deadlines, Lease!Times
  <2>4. /\ o \in LeaseOps /\ o.kind = e2bOp[p].kind /\ o.step = "put" /\ o.policy.there = e2bOp[p].policy.there
        /\ o.policy.paused = e2bOp[p].policy.paused
    BY <1>2, <2>3, LeaseRenewal
  <2> HIDE DEF o
  <2> QED
    BY ZenonT(30), <1>1, <1>3, <2>1, <2>2, <2>4, LeaseRenews
<1>4. CASE ~(e2bOp[p].policy.there /\ e2bOp[p].policy.paused = {})
  BY <1>1, <1>4, LeaseGivesUp DEF Lease!setTimeout
<1> QED
  BY <1>3, <1>4

LEMMA LeaseConnect ==
    ASSUME LeaseInv, NEW p \in Requests, Lease!connectSandbox(p)
    PROVE  LeaseInv'
<1>1. /\ e2bOp[p].step = "read" /\ e2bOp[p].kind = "connect"
      /\ UNCHANGED <<e2bLease, e2bSandbox, e2bSnaps, e2bTimer, e2bUp, e2bStray, e2bNow>>
  BY DEF Lease!connectSandbox, Lease!At
<1>2. e2bOp \in [Requests -> LeaseOps] /\ e2bOp[p] \in LeaseOps
  BY DEF LeaseInv, LeaseTypes
<1>3. CASE e2bOp[p].policy.there /\ e2bOp[p].policy.paused # {} /\ e2bSandbox = "stopped"
  <2>1. Lease!Goto(p, "restore") /\ UNCHANGED e2bLock
    BY <1>3 DEF Lease!connectSandbox
  <2> QED
    BY <1>1, <1>3, <2>1, LeaseWorks DEF Working
<1>4. CASE e2bOp[p].policy.there /\ e2bSandbox = "running"
  <2>1. PICK t \in Lease!Deadlines :
           /\ e2bOp' = [e2bOp EXCEPT ![p].step = "put", ![p].policy.paused = {},
                                     ![p].policy.expires = IF @ < t THEN t ELSE @]
           /\ UNCHANGED e2bLock
    BY <1>4 DEF Lease!connectSandbox
  <2> DEFINE o == ResumeTo(e2bOp[p], t)
  <2>2. e2bOp' = [e2bOp EXCEPT ![p] = o]
    BY <1>2, <2>1 DEF ResumeTo
  <2>3. t \in Nat
    BY SMTT(30), ServicesAssumption DEF Lease!Deadlines, Lease!Times
  <2>4. /\ o \in LeaseOps /\ o.kind = e2bOp[p].kind /\ o.step = "put" /\ o.policy.there = e2bOp[p].policy.there
        /\ o.policy.paused = {}
    BY <1>2, <2>3, LeaseResumption
  <2> HIDE DEF o
  <2> QED
    BY <1>1, <1>4, <2>1, <2>2, <2>4, LeaseRenews
<1>5. CASE ~(e2bOp[p].policy.there /\ (e2bSandbox = "running" \/ (e2bSandbox = "stopped" /\ e2bOp[p].policy.paused # {})))
  <2>1. Lease!Leave(p, TRUE)
    BY <1>5 DEF Lease!connectSandbox
  <2> QED
    BY <1>1, <2>1, LeaseGivesUp
<1> QED
  BY <1>3, <1>4, <1>5

\* pauseSandbox will record the snapshot it has taken.
LEMMA LeasePaused ==
    ASSUME NEW f \in LeaseOps, NEW s \in Snapshots, NEW failed \in BOOLEAN
    PROVE  LET o == Lease!Paused(f, s, failed) IN
           /\ o \in LeaseOps /\ o.kind = f.kind /\ o.step = "put" /\ o.policy.there = f.policy.there
           /\ o.policy.paused = {s}
<1> DEFINE g == [f.policy EXCEPT !.paused = {s}, !.retained = @ \cup {s}, !.expires = 0]
<1>1. f.policy \in LeaseFiles
  BY DEF LeaseOps
<1>2. g \in LeaseFiles /\ g.there = f.policy.there /\ g.paused = {s}
  BY <1>1 DEF LeaseFiles
<1>3. Lease!Paused(f, s, failed) = [f EXCEPT !.step = "put", !.failed = failed, !.policy = g]
  BY <1>1 DEF Lease!Paused, LeaseOps, LeaseFiles
<1> HIDE DEF g
<1> QED
  BY <1>2, <1>3 DEF LeaseOps, LeaseSteps

LEMMA LeaseHibernated ==
    ASSUME LeaseInv, NEW p \in Requests, e2bOp[p].step = "hibernate", NEW s \in Snapshots, NEW failed \in BOOLEAN,
           e2bOp' = [e2bOp EXCEPT ![p] = Lease!Paused(@, s, failed)], e2bSnaps' = e2bSnaps \cup {s}, e2bSandbox = "running",
           UNCHANGED <<e2bLease, e2bTimer, e2bLock, e2bUp, e2bStray, e2bNow>>
    PROVE  LeaseInv'
<1> DEFINE o == Lease!Paused(e2bOp[p], s, failed)
<1>1. e2bOp \in [Requests -> LeaseOps] /\ e2bOp[p] \in LeaseOps /\ e2bLease \in LeaseFiles
      /\ (~e2bLease.there => e2bLease.expires = 0)
  BY DEF LeaseInv, LeaseTypes
<1>2. e2bOp' = [e2bOp EXCEPT ![p] = o]
  OBVIOUS
<1>3. e2bOp'[p] = o
  BY <1>1, <1>2
<1>4. /\ o \in LeaseOps /\ o.kind = e2bOp[p].kind /\ o.step = "put" /\ o.policy.there = e2bOp[p].policy.there
      /\ o.policy.paused = {s}
  BY ZenonT(30), <1>1, LeasePaused
<1> HIDE DEF o
<1>5. e2bLock = {p} /\ e2bLease.there /\ e2bOp[p].policy = e2bLease /\ e2bOp[p].kind # "create"
  BY DEF LeaseInv, LeaseKnows, Working
<1>6. LeaseKnows(p)'
  BY <1>3, <1>4, <1>5 DEF LeaseKnows, Working
<1>7. \A q \in Requests : Due(q) => Due(q)'
  BY <1>1, <1>2, <1>3, <1>4 DEF Due
<1>8. LeaseScheduled'
  BY <1>7 DEF LeaseInv, LeaseScheduled
<1>9. Lease!PausedIsResumable'
  BY DEF LeaseInv, Lease!PausedIsResumable
<1> QED
  BY <1>1, <1>2, <1>4, <1>5, <1>6, <1>8, <1>9, LeaseMoves

\* A call that holds the lock fails; a snapshot may stand, the sandbox may run.
LEMMA LeaseFails ==
    ASSUME LeaseInv, NEW p \in Requests, e2bOp[p].step \in Working, Lease!Leave(p, TRUE),
           UNCHANGED <<e2bLease, e2bTimer, e2bUp, e2bStray, e2bNow>>, Lease!PausedIsResumable'
    PROVE  LeaseInv'
<1>1. PICK o \in LeaseOps : e2bOp' = [e2bOp EXCEPT ![p] = o] /\ o.kind # "create"
  BY LeaseLeave
<1>2. e2bLock' = e2bLock \ {p} /\ LeaseKnows(p)' /\ (e2bOp[p].kind = "expire" => Due(p)')
  BY LeaseLeave
<1>3. e2bLock = {p} /\ e2bLease.there
  BY DEF LeaseInv, LeaseKnows
<1>4. \A q \in Requests : Due(q) => Due(q)'
  BY <1>1, <1>2 DEF Due, LeaseInv, LeaseTypes
<1>5. LeaseScheduled'
  BY <1>4 DEF LeaseInv, LeaseScheduled
<1>6. e2bLease' \in LeaseFiles /\ (~e2bLease'.there => e2bLease'.expires = 0)
  BY DEF LeaseInv, LeaseTypes
<1> QED
  BY <1>1, <1>2, <1>3, <1>5, <1>6, LeaseMoves

LEMMA LeaseHibernate ==
    ASSUME LeaseInv, NEW p \in Requests, Lease!Hibernate(p) \/ Lease!HibernateFailed(p)
    PROVE  LeaseInv'
<1>1. e2bOp[p].step = "hibernate" /\ UNCHANGED <<e2bLease, e2bTimer, e2bUp, e2bStray, e2bNow>>
  BY DEF Lease!Hibernate, Lease!HibernateFailed, Lease!At
<1>2. \/ /\ e2bSandbox = "running" /\ UNCHANGED e2bLock
         /\ \E s \in Snapshots, failed \in BOOLEAN :
                e2bOp' = [e2bOp EXCEPT ![p] = Lease!Paused(@, s, failed)] /\ e2bSnaps' = e2bSnaps \cup {s}
      \/ Lease!Leave(p, TRUE) /\ UNCHANGED e2bSandbox /\ e2bSnaps \subseteq e2bSnaps'
  BY DEF Lease!Hibernate, Lease!HibernateFailed
<1>3. CASE /\ e2bSandbox = "running" /\ UNCHANGED e2bLock
           /\ \E s \in Snapshots, failed \in BOOLEAN :
                e2bOp' = [e2bOp EXCEPT ![p] = Lease!Paused(@, s, failed)] /\ e2bSnaps' = e2bSnaps \cup {s}
  BY <1>1, <1>3, LeaseHibernated
<1>4. CASE Lease!Leave(p, TRUE) /\ UNCHANGED e2bSandbox /\ e2bSnaps \subseteq e2bSnaps'
  <2>1. Lease!PausedIsResumable'
    BY <1>1, <1>4 DEF LeaseInv, Lease!PausedIsResumable
  <2> QED
    BY <1>1, <1>4, <2>1, LeaseFails DEF Working
<1> QED
  BY <1>2, <1>3, <1>4

LEMMA LeaseRestore ==
    ASSUME LeaseInv, NEW p \in Requests, Lease!Restore(p)
    PROVE  LeaseInv'
<1>1. /\ e2bOp[p].step = "restore" /\ e2bSandbox = "stopped" /\ e2bOp[p].policy.paused \subseteq e2bSnaps
      /\ UNCHANGED <<e2bLease, e2bSnaps, e2bTimer, e2bLock, e2bUp, e2bStray, e2bNow>>
  BY DEF Lease!Restore, Lease!At
<1>2. e2bOp \in [Requests -> LeaseOps] /\ e2bOp[p] \in LeaseOps /\ e2bLease \in LeaseFiles
      /\ (~e2bLease.there => e2bLease.expires = 0)
  BY DEF LeaseInv, LeaseTypes
<1>3. PICK t \in Lease!Deadlines :
         e2bOp' = [e2bOp EXCEPT ![p].step = "put", ![p].policy.paused = {},
                                ![p].policy.expires = IF @ < t THEN t ELSE @]
  BY DEF Lease!Restore
<1> DEFINE o == ResumeTo(e2bOp[p], t)
<1>4. e2bOp' = [e2bOp EXCEPT ![p] = o] /\ e2bOp'[p] = o
  BY <1>2, <1>3 DEF ResumeTo
<1>5. t \in Nat
  BY SMTT(30), ServicesAssumption DEF Lease!Deadlines, Lease!Times
<1>7. /\ o \in LeaseOps /\ o.kind = e2bOp[p].kind /\ o.step = "put" /\ o.policy.there = e2bOp[p].policy.there
      /\ o.policy.paused = {}
  BY <1>2, <1>5, LeaseResumption
<1> HIDE DEF o
<1>8. e2bLock = {p} /\ e2bLease.there /\ e2bOp[p].policy = e2bLease /\ e2bOp[p].kind # "create"
  BY <1>1 DEF LeaseInv, LeaseKnows, Working
<1>9. LeaseKnows(p)'
  BY <1>1, <1>4, <1>7, <1>8 DEF LeaseKnows, Working
<1>10. \A q \in Requests : Due(q) => Due(q)'
  BY <1>1, <1>2, <1>4, <1>7 DEF Due
<1>11. LeaseScheduled' /\ Lease!PausedIsResumable'
  BY <1>1, <1>10 DEF LeaseInv, LeaseScheduled, Lease!PausedIsResumable
<1> QED
  BY <1>1, <1>2, <1>4, <1>7, <1>8, <1>9, <1>11, LeaseMoves

LEMMA LeaseFailures ==
    ASSUME LeaseInv, NEW p \in Requests, Lease!RestoreFailed(p) \/ Lease!KillFailed(p) \/ Lease!purgeFailed(p)
    PROVE  LeaseInv'
<1>1. /\ e2bOp[p].step \in Working /\ Lease!Leave(p, TRUE)
      /\ UNCHANGED <<e2bLease, e2bTimer, e2bUp, e2bStray, e2bNow>>
  BY DEF Lease!RestoreFailed, Lease!KillFailed, Lease!purgeFailed, Lease!At, Working
<1>2. CASE Lease!RestoreFailed(p)
  <2>1. UNCHANGED e2bSnaps /\ (e2bSandbox = "none" => e2bSandbox' = "none")
    BY <1>2 DEF Lease!RestoreFailed
  <2>2. Lease!PausedIsResumable'
    BY <1>1, <2>1 DEF LeaseInv, Lease!PausedIsResumable
  <2> QED
    BY <1>1, <2>2, LeaseFails
<1>3. CASE Lease!KillFailed(p)
  <2>1. UNCHANGED <<e2bSnaps, e2bSandbox>>
    BY <1>3 DEF Lease!KillFailed
  <2>2. Lease!PausedIsResumable'
    BY <1>1, <2>1 DEF LeaseInv, Lease!PausedIsResumable
  <2> QED
    BY <1>1, <2>2, LeaseFails
<1>4. CASE Lease!purgeFailed(p)
  <2>1. UNCHANGED e2bSandbox /\ e2bSandbox = "none"
    BY <1>4 DEF Lease!purgeFailed, Lease!At, LeaseInv, LeaseKnows
  <2>2. Lease!PausedIsResumable'
    BY <2>1 DEF Lease!PausedIsResumable
  <2> QED
    BY <1>1, <2>2, LeaseFails
<1> QED
  BY <1>2, <1>3, <1>4

\* Whoever puts has the lock of a lease that is there, or creates it.
LEMMA LeasePuts ==
    ASSUME LeaseInv, NEW p \in Requests, e2bOp[p].step = "put"
    PROVE  /\ e2bOp[p].policy \in LeaseFiles /\ e2bOp[p].policy.there /\ e2bOp[p].policy.paused \subseteq e2bSnaps
           /\ e2bOp[p].failed \in BOOLEAN
           /\ \/ e2bLock = {p} /\ e2bLease.there /\ e2bOp[p].kind # "create"
              \/ /\ ~e2bLease.there /\ e2bOp[p].kind = "create"
                 /\ \A q \in Requests \ {p} : e2bOp[q].kind # "create"
<1>1. e2bOp[p] \in LeaseOps /\ LeaseKnows(p) /\ OneCreates
  BY DEF LeaseInv, LeaseTypes
<1>2. e2bOp[p].policy \in LeaseFiles /\ e2bOp[p].failed \in BOOLEAN
  BY <1>1 DEF LeaseOps
<1>3. e2bOp[p].policy.there /\ e2bOp[p].policy.paused \subseteq e2bSnaps
  BY <1>1 DEF LeaseKnows
<1>4. CASE e2bOp[p].kind = "create"
  BY <1>1, <1>2, <1>3, <1>4 DEF LeaseKnows, OneCreates
<1>5. CASE e2bOp[p].kind # "create"
  BY <1>1, <1>2, <1>3, <1>5 DEF LeaseKnows
<1> QED
  BY <1>4, <1>5

LEMMA LeasePut ==
    ASSUME LeaseInv, NEW p \in Requests, Lease!put(p)
    PROVE  LeaseInv'
<1>1. /\ e2bOp[p].step = "put" /\ Lease!Leave(p, e2bOp[p].failed) /\ UNCHANGED <<e2bSandbox, e2bSnaps, e2bNow>>
      /\ e2bLease' = e2bOp[p].policy /\ e2bTimer' = e2bOp[p].policy.expires
  BY DEF Lease!put, Lease!At
<1>2. e2bOp[p].failed \in BOOLEAN
  BY <1>1, LeasePuts
<1>3. PICK o \in LeaseOps : e2bOp' = [e2bOp EXCEPT ![p] = o] /\ o.kind # "create"
  BY <1>1, <1>2, LeaseLeave
<1>4. e2bLock' = e2bLock \ {p} /\ LeaseKnows(p)'
  BY <1>1, <1>2, LeaseLeave
<1>5. LeaseScheduled'
  BY <1>1 DEF LeaseScheduled
<1>6. Lease!PausedIsResumable'
  BY <1>1, LeasePuts DEF Lease!PausedIsResumable
<1>7. e2bLease' \in LeaseFiles /\ (~e2bLease'.there => e2bLease'.expires = 0)
  BY <1>1, LeasePuts
<1>8. \/ e2bLock = {p} /\ e2bLease.there
      \/ ~e2bLease.there /\ UNCHANGED e2bSnaps /\ \A q \in Requests \ {p} : e2bOp[q].kind # "create"
  BY <1>1, LeasePuts
<1> QED
  BY <1>1, <1>3, <1>4, <1>5, <1>6, <1>7, <1>8, LeaseMoves

LEMMA LeasePutFailed ==
    ASSUME LeaseInv, NEW p \in Requests, Lease!putFailed(p)
    PROVE  LeaseInv'
<1>1. /\ e2bOp[p].step = "put" /\ UNCHANGED <<e2bSandbox, e2bSnaps, e2bNow>>
      /\ e2bLease' \in {e2bLease, e2bOp[p].policy} /\ e2bStray' = TRUE
  BY DEF Lease!putFailed, Lease!At
<1>2. LeaseScheduled'
  BY <1>1 DEF LeaseScheduled
<1>3. Lease!PausedIsResumable'
  BY <1>1, LeasePuts DEF LeaseInv, Lease!PausedIsResumable
<1>4. e2bLease' \in LeaseFiles /\ (~e2bLease'.there => e2bLease'.expires = 0)
  BY <1>1, LeasePuts DEF LeaseInv, LeaseTypes
<1>5. CASE e2bOp[p].kind = "create"
  <2>1. ~e2bLease.there /\ \A q \in Requests \ {p} : e2bOp[q].kind # "create"
    BY <1>1, <1>5, LeasePuts
  <2>2. Lease!Goto(p, "undo") /\ UNCHANGED e2bLock
    BY <1>5 DEF Lease!putFailed
  <2>3. PICK o \in LeaseOps :
           /\ e2bOp' = [e2bOp EXCEPT ![p] = o] /\ e2bOp'[p] = o /\ o.kind = e2bOp[p].kind /\ o.step = "undo"
    BY SMTT(30), <2>2, LeaseGoto DEF LeaseSteps
  <2>4. LeaseKnows(p)'
    BY <1>5, <2>3 DEF LeaseKnows, Working
  <2> QED
    BY <1>1, <1>2, <1>3, <1>4, <1>5, <2>1, <2>2, <2>3, <2>4, LeaseMoves
<1>6. CASE e2bOp[p].kind # "create"
  <2>1. e2bLock = {p} /\ e2bLease.there
    BY <1>1, <1>6, LeasePuts
  <2>2. Lease!Leave(p, TRUE)
    BY <1>6 DEF Lease!putFailed
  <2>3. PICK o \in LeaseOps : e2bOp' = [e2bOp EXCEPT ![p] = o] /\ o.kind # "create"
    BY <2>2, LeaseLeave
  <2>4. e2bLock' = e2bLock \ {p} /\ LeaseKnows(p)'
    BY <2>2, LeaseLeave
  <2> QED
    BY <1>1, <1>2, <1>3, <1>4, <2>1, <2>3, <2>4, LeaseMoves
<1> QED
  BY <1>5, <1>6

\* Stop, then remove.
LEMMA LeaseKill ==
    ASSUME LeaseInv, NEW p \in Requests, Lease!Stop(p) \/ Lease!Remove(p)
    PROVE  LeaseInv'
<1>1. /\ UNCHANGED <<e2bLease, e2bSnaps, e2bTimer, e2bLock, e2bUp, e2bStray, e2bNow>>
      /\ e2bOp[p].step \in Working /\ (e2bSandbox = "none" => e2bSandbox' = "none")
      /\ \E step \in {"remove", "purge"} : Lease!Goto(p, step) /\ (step = "purge" => e2bSandbox' = "none")
  BY DEF Lease!Stop, Lease!Remove, Lease!At, Working
<1>2. PICK step \in {"remove", "purge"} : Lease!Goto(p, step) /\ (step = "purge" => e2bSandbox' = "none")
  BY <1>1
<1>3. PICK o \in LeaseOps : /\ e2bOp' = [e2bOp EXCEPT ![p] = o] /\ e2bOp'[p] = o
                            /\ o.kind = e2bOp[p].kind /\ o.step = step /\ o.policy = e2bOp[p].policy
  BY SMTT(30), <1>2, LeaseGoto DEF LeaseSteps
<1>4. /\ e2bLock = {p} /\ e2bLease.there /\ e2bOp[p].policy = e2bLease /\ e2bOp[p].kind # "create"
      /\ e2bOp[p].kind = "expire" => e2bLease.expires # 0 /\ e2bLease.expires <= e2bNow
  BY <1>1 DEF LeaseInv, LeaseKnows, Working
<1>5. LeaseKnows(p)'
  BY <1>1, <1>2, <1>3, <1>4 DEF LeaseKnows, Working
<1>6. \A q \in Requests : Due(q) => Due(q)'
  BY <1>1, <1>3, <1>4 DEF Due, LeaseInv, LeaseTypes
<1>7. LeaseScheduled'
  BY <1>1, <1>6 DEF LeaseInv, LeaseScheduled
<1>8. Lease!PausedIsResumable'
  BY <1>1 DEF LeaseInv, Lease!PausedIsResumable
<1>9. e2bLease' \in LeaseFiles /\ (~e2bLease'.there => e2bLease'.expires = 0)
  BY <1>1 DEF LeaseInv, LeaseTypes
<1> QED
  BY <1>1, <1>3, <1>4, <1>5, <1>7, <1>8, <1>9, LeaseMoves

LEMMA LeasePurge ==
    ASSUME LeaseInv, NEW p \in Requests, Lease!purge(p)
    PROVE  LeaseInv'
<1>1. /\ e2bOp[p].step = "purge" /\ Lease!Leave(p, FALSE) /\ UNCHANGED <<e2bSandbox, e2bNow>>
      /\ e2bLease' = Lease!NoLease
  BY DEF Lease!purge, Lease!At
<1>2. PICK o \in LeaseOps : e2bOp' = [e2bOp EXCEPT ![p] = o] /\ o.kind # "create"
  BY <1>1, LeaseLeave
<1>3. e2bLock' = e2bLock \ {p} /\ LeaseKnows(p)'
  BY <1>1, LeaseLeave
<1>4. e2bLock = {p} /\ e2bLease.there
  BY <1>1 DEF LeaseInv, LeaseKnows, Working
<1>5. LeaseScheduled' /\ Lease!PausedIsResumable'
  BY <1>1, LeaseValues DEF LeaseScheduled, Lease!PausedIsResumable
<1> QED
  BY <1>1, <1>2, <1>3, <1>4, <1>5, LeaseValues, LeaseMoves

\* Time, the native API, crashes and restarts.
LEMMA LeaseWorld ==
    ASSUME LeaseInv, Lease!Tick \/ Lease!Native \/ Lease!Crash \/ Lease!load
    PROVE  LeaseInv'
<1>1. e2bLease \in LeaseFiles /\ e2bLease.expires \in Nat /\ e2bNow \in Nat \ {0}
  BY DEF LeaseInv, LeaseTypes, LeaseFiles
<1>2. CASE Lease!Tick
  <2>1. e2bNow' = e2bNow + 1 /\ UNCHANGED <<e2bLease, e2bSandbox, e2bSnaps, e2bTimer, e2bLock, e2bOp, e2bUp, e2bStray>>
    BY <1>2 DEF Lease!Tick
  <2>2. ASSUME NEW p \in Requests
        PROVE  LeaseKnows(p)'
    <3>1. e2bLease.expires <= e2bNow => e2bLease.expires <= e2bNow'
      BY SMTT(30), <1>1, <2>1
    <3> QED
      BY <2>1, <3>1 DEF LeaseInv, LeaseKnows
  <2>3. e2bNow' \in Nat \ {0}
    BY SMTT(30), <1>1, <2>1
  <2> QED
    BY <2>1, <2>2, <2>3 DEF LeaseInv, LeaseTypes, OneCreates, LeaseScheduled, Due, Lease!PausedIsResumable
<1>3. CASE Lease!Native
  <2>1. e2bSandbox # "none" /\ UNCHANGED <<e2bLease, e2bSnaps, e2bTimer, e2bLock, e2bOp, e2bUp, e2bStray, e2bNow>>
    BY <1>3 DEF Lease!Native
  <2>2. ASSUME NEW p \in Requests
        PROVE  LeaseKnows(p)'
    BY <2>1, <2>2 DEF LeaseInv, LeaseKnows
  <2> QED
    BY <2>1, <2>2 DEF LeaseInv, LeaseTypes, OneCreates, LeaseScheduled, Due, Lease!PausedIsResumable
<1>4. CASE Lease!Crash
  <2>1. /\ UNCHANGED <<e2bLease, e2bSandbox, e2bSnaps, e2bNow>> /\ e2bUp' = FALSE
        /\ e2bOp' = [p \in Requests |-> Lease!Idle]
    BY <1>4 DEF Lease!Crash
  <2>2. \A p \in Requests : e2bOp'[p].step = "idle" /\ e2bOp'[p].kind = "none"
    BY <2>1, LeaseValues
  <2>3. ASSUME NEW p \in Requests
        PROVE  LeaseKnows(p)'
    BY <2>2, <2>3 DEF LeaseKnows, Working
  <2>4. LeaseTypes' /\ OneCreates'
    BY <2>1, <2>2, LeaseValues DEF LeaseInv, LeaseTypes, OneCreates
  <2> QED
    BY <2>1, <2>3, <2>4 DEF LeaseInv, LeaseScheduled, Lease!PausedIsResumable
<1>5. CASE Lease!load
  <2>1. e2bTimer' = e2bLease.expires /\ UNCHANGED <<e2bLease, e2bSandbox, e2bSnaps, e2bLock, e2bOp, e2bNow>>
    BY <1>5 DEF Lease!load
  <2>2. ASSUME NEW p \in Requests
        PROVE  LeaseKnows(p)'
    BY <2>1, <2>2 DEF LeaseInv, LeaseKnows
  <2> QED
    BY <2>1, <2>2 DEF LeaseInv, LeaseTypes, OneCreates, LeaseScheduled, Lease!PausedIsResumable
<1> QED
  BY <1>2, <1>3, <1>4, <1>5

LEMMA LeaseNext ==
    ASSUME LeaseInv, Lease!Next
    PROVE  LeaseInv'
<1>1. ASSUME NEW p \in Requests, Lease!Calls(p)
      PROVE  LeaseInv'
  BY <1>1, LeaseCreate, LeaseCall, LeaseLock, LeasePause, LeaseTimeout, LeaseConnect, LeaseFire, LeaseExpire, LeaseRetry
     DEF Lease!Calls
<1>2. ASSUME NEW p \in Requests, Lease!Effects(p)
      PROVE  LeaseInv'
  BY <1>2, LeaseUndo, LeaseHibernate, LeaseRestore, LeaseFailures, LeasePut, LeasePutFailed, LeaseKill, LeasePurge
     DEF Lease!Effects
<1> QED
  BY <1>1, <1>2, LeaseWorld DEF Lease!Next

\* The durable lease is acted upon, and only it, for any number of calls,
\* snapshots, failures and restarts (api/e2b expire, put, load).
THEOREM LeasesAreKept == ServicesSpec => []LeaseIsKept
<1> DEFINE Inv == focus = "lease" => LeaseInv
<1>1. ServicesInit => Inv
  BY LeaseInitially DEF ServicesInit
<1>2. Inv /\ [ServicesNext]_servicesVars => Inv'
  <2> SUFFICES ASSUME Inv, [ServicesNext]_servicesVars, focus' = "lease"
               PROVE  LeaseInv'
    OBVIOUS
  <2>1. CASE LeaseStep
    BY <2>1, LeaseNext DEF LeaseStep
  <2>2. CASE FilesStep \/ PagesStep \/ MetaStep
    BY <2>2 DEF FilesStep, PagesStep, MetaStep
  <2>3. CASE UNCHANGED servicesVars
    <3>1. /\ UNCHANGED <<focus, e2bLease, e2bSandbox, e2bSnaps, e2bTimer, e2bLock, e2bOp, e2bUp, e2bStray, e2bNow>>
      BY <2>3 DEF servicesVars, e2bVars
    <3>2. ASSUME NEW p \in Requests
          PROVE  LeaseKnows(p)'
      BY <3>1, <3>2 DEF LeaseInv, LeaseKnows
    <3> QED
      BY <3>1, <3>2 DEF LeaseInv, LeaseTypes, OneCreates, LeaseScheduled, Due, Lease!PausedIsResumable
  <2> QED
    BY <2>1, <2>2, <2>3 DEF ServicesNext
<1>3. Inv => LeaseIsKept
  BY LeaseKept DEF LeaseIsKept
<1> QED
  BY <1>1, <1>2, <1>3, PTL DEF ServicesSpec

-----------------------------------------------------------------------------
(* The listing.  The token is the last sandbox answered so far, and a page   *)
(* holds the sandboxes after it in order.  A sandbox that did not move is    *)
(* answered, on the page, still to be looked at, or after the token.         *)

PgEntries == [id : ListIds, state : {"absent", "running", "stopped"}, created : Nat]
PgLess(order, a, b) ==
    IF order = "asc" THEN Pages!compareSandbox(a, b) ELSE Pages!compareSandbox(b, a)
PgBefore(a, b) == PgLess(pageQuery.order, a, b)
PgIn(e, list) == \E n \in 1..Len(list) : list[n] = e
PgOf(i) == Pages!Entry(i, pageRecord[i])
PgSelected(i) ==
    /\ pageRecord[i] # Pages!Absent /\ pageLease[i] # "none"
    /\ Pages!state(pageRecord[i], pageLease[i]) # {}
    /\ pageQuery.states = {} \/ Pages!state(pageRecord[i], pageLease[i]) \subseteq pageQuery.states

PgTypes ==
    /\ pageRecord \in [ListIds -> [state : {"absent", "running", "stopped"}, created : Nat]]
    /\ pageLease \in [ListIds -> {"none", "held", "paused"}]
    /\ pageQuery.limit \in {1, 2}
    /\ pageListed \subseteq PgEntries /\ pageCursor \subseteq PgEntries
    /\ pagePage \in Seq(PgEntries) /\ pageAnswered \in Seq(PgEntries)
    /\ pageAt \in {"next", "page", "end"}
    /\ pageAt # "page" => pageListed = {} /\ pagePage = <<>>

PgSorted(list) == \A m, n \in 1..Len(list) : m < n => PgBefore(list[m], list[n])

PgOrder ==
    /\ PgSorted(pageAnswered) /\ PgSorted(pagePage)
    /\ \A m \in 1..Len(pageAnswered), n \in 1..Len(pagePage) : PgBefore(pageAnswered[m], pagePage[n])
    /\ pageAt # "end" => \A m \in 1..Len(pageAnswered) :
        \E c \in pageCursor : pageAnswered[m] = c \/ PgBefore(pageAnswered[m], c)
    /\ \A e \in pageListed, n \in 1..Len(pagePage) : PgBefore(pagePage[n], e)

PgReached(i) ==
    /\ pageAt # "end" => \/ PgIn(PgOf(i), pageAnswered)
                         \/ \A c \in pageCursor : PgBefore(c, PgOf(i))
    /\ pageAt = "page" => \/ PgIn(PgOf(i), pageAnswered) \/ PgIn(PgOf(i), pagePage)
                          \/ PgOf(i) \in pageListed
    /\ pageAt = "end" => PgIn(PgOf(i), pageAnswered)
PgComplete == \A i \in ListIds \ pageMoved : PgSelected(i) => PgReached(i)

PgTrue(e) == e.id \notin pageMoved => e = PgOf(e.id) /\ PgSelected(e.id)
PgSound ==
    /\ \A n \in 1..Len(pageAnswered) : PgTrue(pageAnswered[n])
    /\ \A n \in 1..Len(pagePage) : PgTrue(pagePage[n])
    /\ \A e \in pageListed : e.id \notin pageMoved => e = PgOf(e.id) /\ pageRecord[e.id] # Pages!Absent

PgInv == PgTypes /\ PgOrder /\ PgComplete /\ PgSound
-----------------------------------------------------------------------------
LEMMA PgTransitive ==
    ASSUME NEW o, NEW a \in PgEntries, NEW b \in PgEntries, NEW c \in PgEntries,
           PgLess(o, a, b), PgLess(o, b, c)
    PROVE  PgLess(o, a, c)
<1>1. a.id \in Nat /\ b.id \in Nat /\ c.id \in Nat /\ a.created \in Nat /\ b.created \in Nat /\ c.created \in Nat
  BY ListAssumption DEF PgEntries
<1> QED
  BY SMTT(30), <1>1 DEF PgLess, Pages!compareSandbox

LEMMA PgConcat ==
    ASSUME NEW S, NEW a \in Seq(S), NEW b \in Seq(S)
    PROVE  /\ a \o b \in Seq(S) /\ Len(a \o b) = Len(a) + Len(b)
           /\ \A n \in 1..Len(a) : n \in 1..Len(a \o b) /\ (a \o b)[n] = a[n]
           /\ \A n \in 1..Len(b) : Len(a) + n \in 1..Len(a \o b) /\ (a \o b)[Len(a) + n] = b[n]
           /\ \A n \in 1..Len(a \o b) : n \in 1..Len(a) \/ (n - Len(a) \in 1..Len(b) /\ n = Len(a) + (n - Len(a)))
BY SMTT(30)

LEMMA PgAppend ==
    ASSUME NEW S, NEW a \in Seq(S), NEW e \in S
    PROVE  /\ Append(a, e) \in Seq(S) /\ Len(Append(a, e)) = Len(a) + 1
           /\ \A n \in 1..Len(a) : n \in 1..Len(Append(a, e)) /\ Append(a, e)[n] = a[n]
           /\ Len(a) + 1 \in 1..Len(Append(a, e)) /\ Append(a, e)[Len(a) + 1] = e
           /\ \A n \in 1..Len(Append(a, e)) : n \in 1..Len(a) \/ n = Len(a) + 1
BY SMTT(30)

LEMMA PgInit == Pages!Init => PgInv
<1> SUFFICES ASSUME Pages!Init PROVE PgInv
  OBVIOUS
<1>0. pageQuery.limit \in {1, 2}
  BY DEF Pages!Init
<1>a. pageLease \in [ListIds -> {"none", "held", "paused"}]
  BY DEF Pages!Init
<1>1. pageAnswered = <<>> /\ pagePage = <<>> /\ pageListed = {} /\ pageCursor = {} /\ pageAt = "next"
  BY DEF Pages!Init
<1>2. pageRecord \in [ListIds -> [state : {"absent", "running", "stopped"}, created : Nat]]
  <2> PICK created \in [ListIds -> ListTimes], absent \in SUBSET ListIds, paused \in SUBSET ListIds :
        /\ pageRecord = [i \in ListIds |-> IF i \in absent THEN Pages!Absent
            ELSE [state |-> IF i \in paused THEN "stopped" ELSE "running", created |-> created[i]]]
        /\ pageLease \in {l \in [ListIds -> {"none", "held", "paused"}] : \A i \in ListIds :
            /\ i \in absent => l[i] = "none"
            /\ l[i] = "paused" => i \in paused}
        /\ paused \cap absent = {} /\ \A i \in absent : created[i] = 1
    BY DEF Pages!Init
  <2>1. \A i \in ListIds : created[i] \in Nat
    BY ListAssumption
  <2> QED
    BY <2>1 DEF Pages!Absent
<1>3. PgTypes
  BY SMTT(30), <1>0, <1>a, <1>1, <1>2 DEF PgTypes
<1>4. Len(pageAnswered) = 0 /\ Len(pagePage) = 0
  BY <1>1
<1>5. PgOrder /\ PgSound
  BY SMTT(30), <1>1, <1>4 DEF PgOrder, PgSorted, PgSound
<1>6. PgComplete
  BY <1>1 DEF PgComplete, PgReached
<1> QED
  BY <1>3, <1>5, <1>6 DEF PgInv

\* What a sandbox that moves does to a walk that stays.
LEMMA PgMoves ==
    ASSUME PgInv, NEW i \in ListIds, Pages!Change(i),
           pageRecord' \in [ListIds -> [state : {"absent", "running", "stopped"}, created : Nat]],
           pageLease' \in [ListIds -> {"none", "held", "paused"}],
           \A k \in ListIds \ {i} : pageRecord'[k] = pageRecord[k] /\ pageLease'[k] = pageLease[k]
    PROVE  PgInv'
<1>1. /\ pageMoved' = pageMoved \cup {i} /\ pageQuery' = pageQuery /\ pageCursor' = pageCursor
      /\ pageListed' = pageListed /\ pagePage' = pagePage /\ pageAnswered' = pageAnswered /\ pageAt' = pageAt
  BY DEF Pages!Change, Pages!walkVars
<1>2. PgTypes'
  BY <1>1 DEF PgInv, PgTypes
<1>3. PgOrder'
  BY <1>1 DEF PgInv, PgOrder, PgSorted, PgBefore
<1>4. \A k \in ListIds \ pageMoved' :
        /\ k \in ListIds \ pageMoved /\ PgOf(k)' = PgOf(k) /\ pageRecord'[k] = pageRecord[k]
        /\ PgSelected(k)' <=> PgSelected(k)
  BY <1>1 DEF PgOf, PgSelected
<1>5. PgComplete'
  <2> SUFFICES ASSUME NEW k \in ListIds \ pageMoved', PgSelected(k)' PROVE PgReached(k)'
    BY DEF PgComplete
  <2>1. PgReached(k)
    BY <1>4 DEF PgInv, PgComplete
  <2> QED
    BY <1>1, <1>4, <2>1 DEF PgReached, PgIn, PgBefore
<1>6. PgSound'
  <2>1. \A n \in 1..Len(pageAnswered) : pageAnswered[n] \in PgEntries
    BY SMTT(30) DEF PgInv, PgTypes
  <2>2. \A n \in 1..Len(pagePage) : pagePage[n] \in PgEntries
    BY SMTT(30) DEF PgInv, PgTypes
  <2>3. ASSUME NEW e \in PgEntries, PgTrue(e) PROVE PgTrue(e)'
    <3>1. e.id \in ListIds
      BY DEF PgEntries
    <3> QED
      BY <1>1, <1>4, <2>3, <3>1 DEF PgTrue
  <2>4. \A e \in pageListed : e.id \in ListIds
    BY DEF PgInv, PgTypes, PgEntries
  <2> QED
    BY <1>1, <1>4, <2>1, <2>2, <2>3, <2>4 DEF PgInv, PgSound
<1> QED
  BY <1>2, <1>3, <1>5, <1>6 DEF PgInv

LEMMA PgChanges ==
    ASSUME PgInv, NEW i \in ListIds,
           \/ \E t \in ListTimes : Pages!Run(i, t)
           \/ Pages!Stop(i) \/ Pages!Restore(i) \/ Pages!Remove(i) \/ Pages!put(i)
    PROVE  PgInv'
<1> DEFINE Records == [state : {"absent", "running", "stopped"}, created : Nat]
<1>0. pageRecord \in [ListIds -> Records] /\ pageLease \in [ListIds -> {"none", "held", "paused"}]
  BY DEF PgInv, PgTypes
<1>a. ASSUME NEW r \in Records, pageRecord' = [pageRecord EXCEPT ![i] = r], pageLease' = pageLease,
             Pages!Change(i)
      PROVE  PgInv'
  <2>1. pageRecord' \in [ListIds -> Records]
        /\ \A k \in ListIds \ {i} : pageRecord'[k] = pageRecord[k] /\ pageLease'[k] = pageLease[k]
    BY <1>0, <1>a
  <2> QED
    BY <1>0, <1>a, <2>1, PgMoves
<1>1. CASE \E t \in ListTimes : Pages!Run(i, t)
  <2> PICK t \in ListTimes : Pages!Run(i, t)
    BY <1>1
  <2>1. [state |-> "running", created |-> t] \in Records
    BY ListAssumption
  <2> QED
    BY <1>a, <2>1 DEF Pages!Run
<1>2. ASSUME NEW s \in {"running", "stopped"}, pageRecord' = [pageRecord EXCEPT ![i].state = s],
             pageLease' = pageLease, Pages!Change(i)
      PROVE  PgInv'
  <2>1. [pageRecord[i] EXCEPT !.state = s] \in Records
    BY <1>0, <1>2
  <2>2. pageRecord' = [pageRecord EXCEPT ![i] = [pageRecord[i] EXCEPT !.state = s]]
    BY <1>0, <1>2
  <2> QED
    BY <1>2, <1>a, <2>1, <2>2
<1>3. CASE Pages!Stop(i) \/ Pages!Restore(i)
  BY <1>2, <1>3 DEF Pages!Stop, Pages!Restore
<1>4. CASE Pages!Remove(i)
  <2>1. Pages!Absent \in Records
    BY DEF Pages!Absent
  <2> QED
    BY <1>4, <1>a, <2>1 DEF Pages!Remove
<1>5. CASE Pages!put(i)
  <2>1. Pages!Change(i) /\ pageRecord' = pageRecord
    BY <1>5 DEF Pages!put
  <2>2. pageRecord[i].state \in {"absent", "running", "stopped"}
    BY <1>0
  <2>3. \E l \in {"none", "held", "paused"} : pageLease' = [pageLease EXCEPT ![i] = l]
    BY <1>5, <2>2 DEF Pages!put
  <2>4. pageLease' \in [ListIds -> {"none", "held", "paused"}]
        /\ \A k \in ListIds \ {i} : pageLease'[k] = pageLease[k]
    BY <1>0, <2>3
  <2> QED
    BY <1>0, <2>1, <2>4, PgMoves
<1> QED
  BY <1>1, <1>3, <1>4, <1>5
-----------------------------------------------------------------------------
\* A step of the walk leaves the sandboxes alone.
PgStill == pageRecord' = pageRecord /\ pageLease' = pageLease /\ pageQuery' = pageQuery /\ pageMoved' = pageMoved

LEMMA PgStays ==
    ASSUME PgStill
    PROVE  /\ \A a, b : PgBefore(a, b)' <=> PgBefore(a, b)
           /\ \A i : PgOf(i)' = PgOf(i) /\ (PgSelected(i)' <=> PgSelected(i))
           /\ \A e : PgTrue(e)' <=> PgTrue(e)
BY DEF PgStill, PgBefore, PgOf, PgSelected, PgTrue

LEMMA PgRead == ASSUME PgInv, Pages!listSandboxes PROVE PgInv'
<1>1. /\ PgStill /\ pageCursor' = pageCursor /\ pageAnswered' = pageAnswered
      /\ pagePage' = <<>> /\ pageAt = "next" /\ pageAt' = "page"
      /\ pageListed' = {Pages!Entry(i, pageRecord[i]) : i \in {j \in ListIds : pageRecord[j] # Pages!Absent}}
  BY DEF Pages!listSandboxes, PgStill
<1>2. Len(pagePage') = 0
  BY <1>1
<1>3. \A e \in pageListed' : e \in PgEntries /\ e = PgOf(e.id) /\ pageRecord[e.id] # Pages!Absent
  BY SMTT(30), <1>1 DEF PgInv, PgTypes, PgEntries, PgOf, Pages!Entry
<1>4. PgTypes'
  BY <1>1, <1>3 DEF PgStill, PgInv, PgTypes
<1>5. PgOrder'
  BY SMTT(30), <1>1, <1>2, PgStays DEF PgInv, PgOrder, PgSorted
<1>6. PgComplete'
  <2> SUFFICES ASSUME NEW i \in ListIds \ pageMoved, PgSelected(i) PROVE PgReached(i)'
    BY <1>1, PgStays DEF PgComplete, PgStill
  <2>1. PgReached(i)
    BY DEF PgInv, PgComplete
  <2>2. PgOf(i) \in pageListed'
    BY <1>1 DEF PgSelected, PgOf
  <2> QED
    BY <1>1, <2>1, <2>2, PgStays DEF PgReached, PgIn
<1>7. PgSound'
  BY SMTT(30), <1>1, <1>2, <1>3, PgStays DEF PgInv, PgSound, PgStill
<1> QED
  BY <1>4, <1>5, <1>6, <1>7 DEF PgInv

\* Visit leaves out a sandbox that the query does not select or the token is past.
LEMMA PgSkip ==
    ASSUME PgInv, NEW e \in pageListed, pageAt = "page",
           pageLease[e.id] = "none" \/ ~Pages!matches(e, pageLease[e.id]),
           pageListed' = pageListed \ {e}, PgStill,
           UNCHANGED <<pageCursor, pagePage, pageAnswered, pageAt>>
    PROVE  PgInv'
<1>1. PgTypes' /\ PgOrder' /\ PgSound'
  BY PgStays DEF PgInv, PgTypes, PgOrder, PgSorted, PgSound, PgStill
<1>2. PgComplete'
  <2> SUFFICES ASSUME NEW i \in ListIds \ pageMoved, PgSelected(i) PROVE PgReached(i)'
    BY PgStays DEF PgComplete, PgStill
  <2>1. PgReached(i)
    BY DEF PgInv, PgComplete
  <2>2. PgIn(PgOf(i), pageAnswered) \/ PgOf(i) # e
    <3> SUFFICES ASSUME PgOf(i) = e, ~PgIn(PgOf(i), pageAnswered) PROVE FALSE
      OBVIOUS
    <3>1. \A c \in pageCursor : PgBefore(c, e)
      BY <2>1 DEF PgReached
    <3>2. e.id = i /\ e.state = pageRecord[i].state
      BY DEF PgOf, Pages!Entry
    <3>3. Pages!state(e, pageLease[e.id]) = Pages!state(pageRecord[i], pageLease[i])
      BY <3>2 DEF Pages!state
    <3> QED
      BY <3>1, <3>2, <3>3 DEF PgSelected, PgBefore, PgLess, Pages!matches, Pages!Before
  <2> QED
    BY <2>1, <2>2, PgStays DEF PgReached, PgIn
<1> QED
  BY <1>1, <1>2 DEF PgInv

LEMMA PgKeep ==
    ASSUME PgInv, NEW e \in pageListed, pageAt = "page",
           \A f \in pageListed \ {e} : PgBefore(e, f),
           pageLease[e.id] # "none", Pages!matches(e, pageLease[e.id]),
           pagePage' = Append(pagePage, e), pageListed' = pageListed \ {e}, PgStill,
           UNCHANGED <<pageCursor, pageAnswered, pageAt>>
    PROVE  PgInv'
<1> DEFINE old == Len(pagePage)
<1>0. e \in PgEntries /\ pagePage \in Seq(PgEntries) /\ pageCursor \subseteq PgEntries
  BY DEF PgInv, PgTypes
<1>1. /\ pagePage' \in Seq(PgEntries) /\ old + 1 \in 1..Len(pagePage') /\ pagePage'[old + 1] = e
      /\ \A n \in 1..old : n \in 1..Len(pagePage') /\ pagePage'[n] = pagePage[n]
      /\ \A n \in 1..Len(pagePage') : n \in 1..old \/ n = old + 1
  BY SMTT(30), <1>0, PgAppend
<1>2. PgTypes'
  BY <1>1 DEF PgInv, PgTypes, PgStill
<1>3. PgSorted(pagePage)'
  <2> SUFFICES ASSUME NEW m \in 1..Len(pagePage'), NEW n \in 1..Len(pagePage'), m < n
               PROVE  PgBefore(pagePage'[m], pagePage'[n])
    BY PgStays DEF PgSorted
  <2>1. m \in 1..old
    BY SMTT(30), <1>0, <1>1
  <2>2. CASE n \in 1..old
    BY <1>1, <2>1, <2>2 DEF PgInv, PgOrder, PgSorted
  <2>3. CASE n = old + 1
    BY <1>1, <2>1, <2>3 DEF PgInv, PgOrder
  <2> QED
    BY <1>1, <2>2, <2>3
<1>4. \A m \in 1..Len(pageAnswered) : PgBefore(pageAnswered[m], e)
  <2> TAKE m \in 1..Len(pageAnswered)
  <2>1. pageAnswered[m] \in PgEntries
    BY SMTT(30) DEF PgInv, PgTypes
  <2>2. PICK c \in pageCursor : pageAnswered[m] = c \/ PgBefore(pageAnswered[m], c)
    BY DEF PgInv, PgOrder
  <2>3. PgBefore(c, e) /\ c \in PgEntries
    BY <1>0 DEF Pages!matches, Pages!Before, PgBefore, PgLess
  <2> QED
    BY <1>0, <2>1, <2>2, <2>3, PgTransitive DEF PgBefore
<1>5. PgOrder'
  <2>1. \A m \in 1..Len(pageAnswered), n \in 1..Len(pagePage') : PgBefore(pageAnswered[m], pagePage'[n])
    BY <1>1, <1>4 DEF PgInv, PgOrder
  <2>2. \A f \in pageListed', n \in 1..Len(pagePage') : PgBefore(pagePage'[n], f)
    BY <1>1 DEF PgInv, PgOrder
  <2> QED
    BY <1>3, <2>1, <2>2, PgStays DEF PgInv, PgOrder, PgSorted
<1>6. PgComplete'
  <2> SUFFICES ASSUME NEW i \in ListIds \ pageMoved, PgSelected(i) PROVE PgReached(i)'
    BY PgStays DEF PgComplete, PgStill
  <2>1. PgReached(i)
    BY DEF PgInv, PgComplete
  <2>2. PgIn(PgOf(i), pagePage) \/ PgOf(i) = e => PgIn(PgOf(i), pagePage')
    BY <1>1 DEF PgIn
  <2> QED
    BY <2>1, <2>2, PgStays DEF PgReached, PgIn
<1>7. PgTrue(e)
  <2> SUFFICES ASSUME e.id \notin pageMoved PROVE e = PgOf(e.id) /\ PgSelected(e.id)
    BY DEF PgTrue
  <2>1. e = PgOf(e.id) /\ pageRecord[e.id] # Pages!Absent
    BY DEF PgInv, PgSound
  <2>2. e.state = pageRecord[e.id].state
    BY SMTT(30), <2>1 DEF PgOf, Pages!Entry
  <2>3. Pages!state(e, pageLease[e.id]) = Pages!state(pageRecord[e.id], pageLease[e.id])
    BY <2>2 DEF Pages!state
  <2> QED
    BY <2>1, <2>3 DEF PgSelected, Pages!matches
<1>8. PgSound'
  BY <1>1, <1>7, PgStays DEF PgInv, PgSound, PgStill
<1> QED
  BY <1>2, <1>5, <1>6, <1>8 DEF PgInv

\* The page joins the answer: after its limit, with a token, or as the last one.
LEMMA PgJoin ==
    ASSUME PgInv, pageAt = "page", pageAnswered' = pageAnswered \o pagePage, pagePage' = <<>>,
           pageListed' = {}, PgStill,
           \/ pageAt' = "next" /\ Len(pagePage) = pageQuery.limit /\ pageCursor' = {pagePage[Len(pagePage)]}
           \/ pageAt' = "end" /\ pageListed = {} /\ pageCursor' = pageCursor
    PROVE  PgInv'
<1> DEFINE old == Len(pageAnswered)
<1>0. /\ pageAnswered \in Seq(PgEntries) /\ pagePage \in Seq(PgEntries) /\ pageCursor \subseteq PgEntries
      /\ pageQuery.limit \in {1, 2}
  BY DEF PgInv, PgTypes
<1>1. /\ pageAnswered' \in Seq(PgEntries)
      /\ \A n \in 1..old : n \in 1..Len(pageAnswered') /\ pageAnswered'[n] = pageAnswered[n]
      /\ \A n \in 1..Len(pagePage) : old + n \in 1..Len(pageAnswered') /\ pageAnswered'[old + n] = pagePage[n]
      /\ \A n \in 1..Len(pageAnswered') :
            n \in 1..old \/ (n - old \in 1..Len(pagePage) /\ n = old + (n - old))
  BY SMTT(30), <1>0, PgConcat
<1>2. Len(pagePage') = 0
  OBVIOUS
<1>3. ASSUME pageAt' = "next"
      PROVE  /\ Len(pagePage) \in 1..Len(pagePage) /\ pageCursor' = {pagePage[Len(pagePage)]}
             /\ pagePage[Len(pagePage)] \in PgEntries
  BY SMTT(30), <1>0, <1>3
<1>4. PgTypes'
  BY SMTT(30), <1>0, <1>1, <1>3 DEF PgInv, PgTypes, PgStill
<1>5. PgSorted(pageAnswered)'
  <2> SUFFICES ASSUME NEW m \in 1..Len(pageAnswered'), NEW n \in 1..Len(pageAnswered'), m < n
               PROVE  PgBefore(pageAnswered'[m], pageAnswered'[n])
    BY PgStays DEF PgSorted
  <2>1. CASE n \in 1..old
    <3>1. m \in 1..old
      BY SMTT(30), <1>0, <2>1
    <3> QED
      BY <1>1, <2>1, <3>1 DEF PgInv, PgOrder, PgSorted
  <2>2. CASE m \in 1..old /\ n - old \in 1..Len(pagePage) /\ n = old + (n - old)
    BY <1>1, <2>2 DEF PgInv, PgOrder
  <2>3. CASE m - old \in 1..Len(pagePage) /\ n - old \in 1..Len(pagePage)
             /\ m = old + (m - old) /\ n = old + (n - old)
    <3>1. m - old < n - old
      BY SMTT(30), <1>0, <2>3
    <3>2. PgBefore(pagePage[m - old], pagePage[n - old])
      BY <2>3, <3>1 DEF PgInv, PgOrder, PgSorted
    <3>3. pageAnswered'[m] = pagePage[m - old] /\ pageAnswered'[n] = pagePage[n - old]
      BY <1>1, <2>3
    <3> QED
      BY <3>2, <3>3
  <2> QED
    BY <1>1, <2>1, <2>2, <2>3
<1>6. ASSUME pageAt' = "next", NEW m \in 1..Len(pageAnswered')
      PROVE  \E c \in pageCursor' : pageAnswered'[m] = c \/ PgBefore(pageAnswered'[m], c)
  <2>1. CASE m \in 1..old
    BY <1>1, <1>3, <1>6, <2>1 DEF PgInv, PgOrder
  <2>2. CASE m - old \in 1..Len(pagePage) /\ m = old + (m - old)
    <3>1. m - old < Len(pagePage) \/ m - old = Len(pagePage)
      BY SMTT(30), <1>0, <2>2
    <3> QED
      BY SMTT(30), <1>1, <1>3, <1>6, <2>2, <3>1 DEF PgInv, PgOrder, PgSorted
  <2> QED
    BY <1>1, <2>1, <2>2
<1>7. PgOrder'
  BY SMTT(30), <1>2, <1>5, <1>6, PgStays DEF PgOrder, PgSorted
<1>8. PgComplete'
  <2> SUFFICES ASSUME NEW i \in ListIds \ pageMoved, PgSelected(i) PROVE PgReached(i)'
    BY PgStays DEF PgComplete, PgStill
  <2>1. PgReached(i)
    BY DEF PgInv, PgComplete
  <2>2. PgIn(PgOf(i), pageAnswered) \/ PgIn(PgOf(i), pagePage) => PgIn(PgOf(i), pageAnswered')
    BY <1>1 DEF PgIn
  <2>3. PgOf(i) \in pageListed /\ pageAt' = "next" => \A c \in pageCursor' : PgBefore(c, PgOf(i))
    BY <1>3 DEF PgInv, PgOrder
  <2> QED
    BY <2>1, <2>2, <2>3, PgStays DEF PgReached, PgIn
<1>9. PgSound'
  BY SMTT(30), <1>1, <1>2, PgStays DEF PgInv, PgSound, PgStill
<1> QED
  BY <1>4, <1>7, <1>8, <1>9 DEF PgInv

LEMMA PgFailed == ASSUME PgInv, Pages!PageFailed PROVE PgInv'
<1>1. /\ PgStill /\ pageCursor' = pageCursor /\ pageAnswered' = pageAnswered
      /\ pagePage' = <<>> /\ pageAt = "page" /\ pageAt' = "next" /\ pageListed' = {}
  BY DEF Pages!PageFailed, PgStill
<1>2. Len(pagePage') = 0
  BY <1>1
<1>3. PgTypes' /\ PgOrder' /\ PgSound'
  BY SMTT(30), <1>1, <1>2, PgStays DEF PgStill, PgInv, PgTypes, PgOrder, PgSorted, PgSound
<1>4. PgComplete'
  BY <1>1, PgStays DEF PgStill, PgInv, PgComplete, PgReached, PgIn
<1> QED
  BY <1>3, <1>4 DEF PgInv

LEMMA PgNext == PgInv /\ Pages!Next => PgInv'
<1> SUFFICES ASSUME PgInv, Pages!Next PROVE PgInv'
  OBVIOUS
<1>1. CASE \E e \in pageListed : Pages!Visit(e)
  <2> PICK e \in pageListed : Pages!Visit(e)
    BY <1>1
  <2>1. PgStill /\ pageAt = "page" /\ \A f \in pageListed \ {e} : PgBefore(e, f)
    BY DEF Pages!Visit, PgStill, Pages!Before, PgBefore, PgLess
  <2> QED
    BY <2>1, PgSkip, PgKeep, PgJoin DEF Pages!Visit
<1>2. CASE Pages!LastPage
  BY <1>2, PgJoin DEF Pages!LastPage, PgStill
<1> QED
  BY <1>1, <1>2, PgRead, PgFailed, PgChanges DEF Pages!Next

LEMMA PgAnswers == PgInv => Pages!PagesDoNotShift
<1> SUFFICES ASSUME PgInv PROVE Pages!PagesDoNotShift
  OBVIOUS
<1>1. \A m, n \in 1..Len(pageAnswered) : m < n => Pages!Before(pageAnswered[m], pageAnswered[n])
  BY DEF PgInv, PgOrder, PgSorted, PgBefore, PgLess, Pages!Before
<1>2. ASSUME pageAt = "end", NEW i \in ListIds \ pageMoved
      PROVE  (\E n \in 1..Len(pageAnswered) : pageAnswered[n].id = i) <=> PgSelected(i)
  <2>1. PgOf(i).id = i
    BY DEF PgOf, Pages!Entry
  <2>2. PgSelected(i) => PgIn(PgOf(i), pageAnswered)
    BY <1>2 DEF PgInv, PgComplete, PgReached
  <2>3. \A n \in 1..Len(pageAnswered) : pageAnswered[n].id = i => PgSelected(i)
    BY DEF PgInv, PgSound, PgTrue
  <2> QED
    BY <2>1, <2>2, <2>3 DEF PgIn
<1> QED
  BY <1>1, <1>2 DEF Pages!PagesDoNotShift, PgSelected

\* While sandboxes come and go between and within the pages of a listing
\* (listSandboxes of api/e2b/list.go), the answer stays in order, and at the
\* end holds of the sandboxes that stayed exactly those the query selects.
THEOREM ListingDoesNotShift == ServicesSpec => []PagesDoNotShift
<1> DEFINE Inv == focus = "pages" => PgInv
<1>1. ServicesInit => Inv
  BY PgInit DEF ServicesInit
<1>2. Inv /\ [ServicesNext]_servicesVars => Inv'
  <2> SUFFICES ASSUME Inv, [ServicesNext]_servicesVars, focus' = "pages"
               PROVE  PgInv'
    OBVIOUS
  <2>1. CASE PagesStep
    BY <2>1, PgNext DEF PagesStep
  <2>2. CASE FilesStep \/ LeaseStep \/ MetaStep
    BY <2>2 DEF FilesStep, LeaseStep, MetaStep
  <2>3. CASE UNCHANGED servicesVars
    <3>1. PgStill /\ UNCHANGED <<focus, pageCursor, pageListed, pagePage, pageAnswered, pageAt>>
      BY <2>3 DEF servicesVars, pageVars, PgStill
    <3>2. PgTypes' /\ PgOrder' /\ PgSound'
      BY <3>1, PgStays DEF PgStill, PgInv, PgTypes, PgOrder, PgSorted, PgSound
    <3>3. PgComplete'
      BY <3>1, PgStays DEF PgStill, PgInv, PgComplete, PgReached, PgIn
    <3> QED
      BY <3>2, <3>3 DEF PgInv
  <2> QED
    BY <2>1, <2>2, <2>3 DEF ServicesNext
<1>3. Inv => PagesDoNotShift
  BY PgAnswers DEF PagesDoNotShift
<1> QED
  BY <1>1, <1>2, <1>3, PTL DEF ServicesSpec
=============================================================================

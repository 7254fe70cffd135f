----------------------------- MODULE SandboxList -----------------------------
(***************************************************************************)
(* The paged listing of the E2B adapter (api/e2b/list.go).  A client walks *)
(* the pages with the token of the page before.  Each page reads the       *)
(* sandbox records at once and the leases one by one, while sandboxes are  *)
(* created, paused, resumed and deleted.                                   *)
(***************************************************************************)
EXTENDS Naturals, FiniteSets, Sequences

CONSTANTS Ids,          \* sandbox identifiers, numbers for their order
          Times,        \* creation times; several sandboxes may share one
          MaxChanges    \* bound on changes to the sandboxes during a walk

VARIABLES
    record,     \* [Ids -> record of the sandbox]
    lease,      \* [Ids -> lease of the adapter]
    query,      \* order, states and limit of the walk; the same for each page
    cursor,     \* {} or {the sandbox of the token}
    listed,     \* records read for the page and not yet looked at
    page,       \* sandboxes of the page
    answered,   \* sandboxes of the pages before, in order
    at,         \* "next" between pages, "page" within one, "end" after the last
    moved,      \* sandboxes that changed since the walk began
    changes

vars == <<record, lease, query, cursor, listed, page, answered, at, moved, changes>>
walkVars == <<query, cursor, listed, page, answered, at>>

Absent == [state |-> "absent", created |-> 0]
Entry(i, r) == [id |-> i, state |-> r.state, created |-> r.created]

TypeOK ==
    /\ record \in [Ids -> [state : {"absent", "running", "stopped"}, created : Times \cup {0}]]
    /\ lease \in [Ids -> {"none", "held", "paused"}]
    /\ Cardinality(cursor) <= 1 /\ moved \subseteq Ids /\ changes \in 0..MaxChanges
    /\ \A e \in listed : e.id \in Ids
    /\ at \in {"next", "page", "end"}

\* A native sandbox has no lease; a stopped one is paused or just stopped.
Init ==
    /\ \E created \in [Ids -> Times], absent \in SUBSET Ids, paused \in SUBSET Ids :
        /\ record = [i \in Ids |-> IF i \in absent THEN Absent
                     ELSE [state |-> IF i \in paused THEN "stopped" ELSE "running", created |-> created[i]]]
        /\ lease \in {l \in [Ids -> {"none", "held", "paused"}] : \A i \in Ids :
            /\ i \in absent => l[i] = "none"
            /\ l[i] = "paused" => i \in paused}
        /\ paused \cap absent = {} /\ \A i \in absent : created[i] = 1
    /\ query \in [order : {"asc", "desc"}, states : {{}, {"running"}, {"paused"}}, limit : {1, 2}]
    /\ cursor = {} /\ listed = {} /\ page = <<>> /\ answered = <<>>
    /\ at = "next" /\ moved = {} /\ changes = 0
-----------------------------------------------------------------------------
compareSandbox(a, b) ==
    \/ a.created < b.created
    \/ a.created = b.created /\ a.id < b.id

Before(a, b) == IF query.order = "asc" THEN compareSandbox(a, b) ELSE compareSandbox(b, a)

\* lease.state: neither running nor paused is not a state of the listing.
state(r, l) ==
    IF r.state = "running" THEN {"running"} ELSE IF l = "paused" THEN {"paused"} ELSE {}

\* A mutant: the token's position is its creation time alone.
matchesByTime(e, l) ==
    /\ state(e, l) # {}
    /\ query.states = {} \/ state(e, l) \subseteq query.states
    /\ \A c \in cursor : IF query.order = "asc" THEN c.created < e.created ELSE e.created < c.created

matches(e, l) ==
    /\ state(e, l) # {}
    /\ query.states = {} \/ state(e, l) \subseteq query.states
    /\ \A c \in cursor : Before(c, e)
-----------------------------------------------------------------------------
listSandboxes ==
    /\ at = "next"
    /\ listed' = {Entry(i, record[i]) : i \in {j \in Ids : record[j] # Absent}}
    /\ page' = <<>> /\ at' = "page"
    /\ UNCHANGED <<record, lease, query, cursor, answered, moved, changes>>

\* One turn of the loop.  A match beyond the limit makes the token from the last
\* entry of the page and ends the page.
Visit(e) ==
    /\ at = "page" /\ e \in listed /\ \A f \in listed \ {e} : Before(e, f)
    /\ IF lease[e.id] = "none" \/ ~matches(e, lease[e.id])
       THEN listed' = listed \ {e} /\ UNCHANGED <<cursor, page, answered, at>>
       ELSE IF Len(page) = query.limit
       THEN /\ cursor' = {page[Len(page)]} /\ answered' = answered \o page
            /\ at' = "next" /\ listed' = {} /\ page' = <<>>
       ELSE page' = Append(page, e) /\ listed' = listed \ {e} /\ UNCHANGED <<cursor, answered, at>>
    /\ UNCHANGED <<record, lease, query, moved, changes>>

LastPage ==
    /\ at = "page" /\ listed = {}
    /\ answered' = answered \o page /\ page' = <<>> /\ at' = "end"
    /\ UNCHANGED <<record, lease, query, cursor, listed, moved, changes>>

\* A lease that cannot be read fails the page; the client asks for it again.
PageFailed ==
    /\ at = "page" /\ changes < MaxChanges /\ changes' = changes + 1
    /\ at' = "next" /\ listed' = {} /\ page' = <<>>
    /\ UNCHANGED <<record, lease, query, cursor, answered, moved>>
-----------------------------------------------------------------------------
\* Other requests, which change the record first and the lease after it.

Change(i) ==
    /\ at # "end" /\ changes < MaxChanges /\ changes' = changes + 1
    /\ moved' = moved \cup {i}
    /\ UNCHANGED walkVars

\* The record is committed some time after its creation time was taken.
Run(i, t) ==
    /\ record[i] = Absent /\ lease[i] = "none" /\ Change(i)
    /\ record' = [record EXCEPT ![i] = [state |-> "running", created |-> t]]
    /\ UNCHANGED lease

Stop(i) ==
    /\ record[i].state = "running" /\ Change(i)
    /\ record' = [record EXCEPT ![i].state = "stopped"]
    /\ UNCHANGED lease

Restore(i) ==
    /\ record[i].state = "stopped" /\ lease[i] = "paused" /\ Change(i)
    /\ record' = [record EXCEPT ![i].state = "running"]
    /\ UNCHANGED lease

Remove(i) ==
    /\ record[i] # Absent /\ Change(i)
    /\ record' = [record EXCEPT ![i] = Absent]
    /\ UNCHANGED lease

\* What create, pause, connect and kill write to the lease in the end.
put(i) ==
    /\ i \in moved /\ Change(i)
    /\ lease' = [lease EXCEPT ![i] = CASE record[i].state = "absent" -> "none"
                                       [] record[i].state = "running" -> "held"
                                       [] record[i].state = "stopped" -> "paused"]
    /\ lease' # lease
    /\ UNCHANGED record

Next ==
    \/ listSandboxes \/ (\E e \in listed : Visit(e)) \/ LastPage \/ PageFailed
    \/ \E i \in Ids :
        \/ \E t \in Times : Run(i, t)
        \/ Stop(i) \/ Restore(i) \/ Remove(i) \/ put(i)

Spec == Init /\ [][Next]_vars
-----------------------------------------------------------------------------
(* Deleting or inserting other sandboxes does not shift the following      *)
(* page: no sandbox is answered twice unless it was deleted and made anew, *)
(* and at the end of the walk every sandbox that stayed as it was is       *)
(* answered when the query selects it, and only then.                      *)
PagesDoNotShift ==
    /\ \A m, n \in 1..Len(answered) : m < n => Before(answered[m], answered[n])
    /\ at = "end" => \A i \in Ids \ moved :
        (\E n \in 1..Len(answered) : answered[n].id = i) <=>
            /\ record[i] # Absent /\ lease[i] # "none"
            /\ state(record[i], lease[i]) # {}
            /\ query.states = {} \/ state(record[i], lease[i]) \subseteq query.states
=============================================================================

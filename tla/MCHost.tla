-------------------------------- MODULE MCHost --------------------------------
(***************************************************************************)
(* What must survive a failure on one host: the replacement of writable    *)
(* disks, the network providers, NICs and devices, the services for        *)
(* clients; and the sessions with a guest, which may end at any time.      *)
(* Bounds keep small what can happen to one session.                       *)
(***************************************************************************)
EXTENDS DiskReplace, Network, Guest, Sessions, Services

hostVars == <<vars, networkVars, guestVars, sessionsVars, servicesVars>>
-----------------------------------------------------------------------------
\* Components that come to an end under their bounds; the others always go on.
Ending == {"agent", "relay", "exec", "log", "lease", "pages", "files"}

\* One disturbance of a command: the agent is stopped, the input fails, a frame is
\* lost on the way to the caller, the output is given up, or the call fails.
ExecBound ==
    LET disturbed == <<execSrv'.closed, execHost'.inputError, execSession' = "broken",
                       execSrv'.delayed, execCall' = "error">>
    IN \A i, j \in 1..5 : disturbed[i] /\ disturbed[j] => i = j

\* One upload of two chunks beside a download, or two uploads of one.
FilesBound ==
    \/ \E u \in Uploads : fileClient'[u] = "idle"
    \/ fileReader'.step = "idle" /\ \A u \in Uploads : fileTotal[u] <= 1

\* At most two faults, and together with the clock four.
LeaseBound == e2bFaults' <= 2 /\ e2bNow' + e2bFaults' <= 4

\* Two sandboxes of the adapter that run, and a third in any state; pages of one.
PagesBound ==
    /\ \A i \in {1, 3} : pageRecord[i].state = "running" /\ pageLease[i] = "held"
    /\ pageQuery.limit = 1 /\ pageQuery.states # {"paused"}

MCInit ==
    /\ focus \in {"disks", "metadata", "cni", "bridge", "nics", "devices"} \cup Ending
    /\ Init /\ NetworkInit /\ GuestInit /\ SessionsInit /\ ServicesInit
    /\ focus = "pages" => PagesBound

DisksStep == focus = "disks" /\ Next /\ UNCHANGED <<networkVars, guestVars, sessionsVars, servicesVars>>
InNetwork == NetworkNext /\ UNCHANGED <<vars, guestVars, sessionsVars, servicesVars>>
InGuest == GuestNext /\ UNCHANGED <<vars, networkVars, sessionsVars, servicesVars>>
InSessions ==
    /\ SessionsNext /\ (focus = "exec" => ExecBound)
    /\ UNCHANGED <<vars, networkVars, guestVars, servicesVars>>
InServices ==
    /\ ServicesNext /\ (focus = "files" => FilesBound) /\ (focus = "lease" => LeaseBound)
    /\ UNCHANGED <<vars, networkVars, guestVars, sessionsVars>>
Ended == focus \in Ending /\ UNCHANGED hostVars

MCNext == DisksStep \/ InNetwork \/ InGuest \/ InSessions \/ InServices \/ Ended

MCSpec == MCInit /\ [][MCNext]_hostVars
=============================================================================
